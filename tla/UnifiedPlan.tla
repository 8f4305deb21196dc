---------------------------- MODULE UnifiedPlan ----------------------------
(***************************************************************************)
(* The pure part of the unified scheduler (pipeline/unified_scheduler.cpp): *)
(* what UnifiedTokenScheduler::build_plan schedules for a vector of        *)
(* requests, and when commit_sequence and commit_sample accept what the    *)
(* model runner did.  UnifiedScheduler makes a machine of it for arbitrary *)
(* requests; UnifiedEngine plans its rounds with it.                       *)
(*                                                                         *)
(* A request (UnifiedRequestProgress) is a record                          *)
(*   prompt    prompt_tokens                                               *)
(*   computed  num_computed_tokens                                         *)
(*   outputs   output_tokens.size(); token values do not matter here       *)
(*   room      max_schedulable_tokens                                      *)
(*   runnable, finished                                                    *)
(* and its index in the vector stands for request_id.                      *)
(***************************************************************************)
EXTENDS Integers, Sequences

CONSTANTS
  MaxSeqs,             \* max_num_seqs
  MaxScheduledTokens,  \* max_num_scheduled_tokens
  MaxPrefillChunk,     \* max_prefill_chunk_tokens
  MaxTokens            \* max_output_tokens, the same for every request

ASSUME ConfigAssumption ==
  /\ MaxSeqs \in Nat \ {0}
  /\ MaxScheduledTokens \in Nat
  /\ MaxPrefillChunk \in Nat \ {0}
  /\ MaxTokens \in Nat \ {0}
  /\ MaxScheduledTokens >= MaxSeqs

SmallerOf(a, b) == IF a <= b THEN a ELSE b
LargerOf(a, b)  == IF a >= b THEN a ELSE b

Available(r) == r.prompt + r.outputs - r.computed

PromptComplete(r) == r.computed >= r.prompt

Valid(r) ==
  /\ r.outputs <= MaxTokens
  /\ r.outputs = MaxTokens => r.finished
  /\ r.outputs > 0 => PromptComplete(r)
  /\ Available(r) >= 0

-----------------------------------------------------------------------------
(* build_plan.                                                             *)

\* A request the scheduler may give tokens to.
Ready(r) == r.runnable /\ ~r.finished /\ Available(r) > 0 /\ r.room > 0

\* Faulty variant: a chunk inside the prompt asks for logits as well.
ScheduledWithLogits(i, r, n, kind) ==
  [req |-> i, offset |-> r.computed, tokens |-> n, kind |-> kind, logits |-> TRUE]

\* The `schedule` lambda, and produces_logits as the caller sets it.
Scheduled(i, r, n, kind) ==
  [req    |-> i,
   offset |-> r.computed,
   tokens |-> n,
   kind   |-> kind,
   logits |-> kind = "decode" \/ r.computed + n = r.prompt]

\* Faulty variant: a chunk may outgrow what is left of the budget.
ChunkOverBudget(r, budget) ==
  SmallerOf(r.prompt - r.computed, SmallerOf(MaxPrefillChunk, r.room))

\* Tokens of the next prompt chunk when `budget` tokens are left.
ChunkTokens(r, budget) ==
  SmallerOf(SmallerOf(r.prompt - r.computed, budget),
            SmallerOf(MaxPrefillChunk, r.room))

\* Each of the two loops serves requests of its kind; `made` is the plan so
\* far with the budget left.
Serves(kind, r, made) ==
  /\ made.budget > 0
  /\ Len(made.sequences) < MaxSeqs
  /\ Ready(r)
  /\ PromptComplete(r) <=> kind = "decode"

With(made, s) ==
  [sequences |-> Append(made.sequences, s), budget |-> made.budget - s.tokens]

\* One turn of a loop: request i gets a token, a chunk, or nothing.
Visit(kind, i, r, made) ==
  IF Serves(kind, r, made)
  THEN With(made,
            Scheduled(i, r,
                      IF kind = "decode" THEN 1 ELSE ChunkTokens(r, made.budget),
                      kind))
  ELSE made

\* A whole loop, in vector order.
Loop(kind, reqs, made) ==
  LET after[i \in 0 .. Len(reqs)] ==
        IF i = 0 THEN made ELSE Visit(kind, i, reqs[i], after[i - 1])
  IN  after[Len(reqs)]

NothingMade == [sequences |-> <<>>, budget |-> MaxScheduledTokens]

\* Faulty variant: prompts are served before decoders.
BuildPlanPromptsFirst(reqs) ==
  Loop("decode", reqs, Loop("prompt", reqs, NothingMade)).sequences

\* Faulty variant: prompts wait for a round without decoders.
BuildPlanUnmixed(reqs) ==
  LET decodes == Loop("decode", reqs, NothingMade)
  IN  IF decodes # NothingMade
      THEN decodes.sequences
      ELSE Loop("prompt", reqs, NothingMade).sequences

BuildPlan(reqs) ==
  Loop("prompt", reqs, Loop("decode", reqs, NothingMade)).sequences

\* plan.total_tokens.
TokensOf(sequences) ==
  LET upto[k \in 0 .. Len(sequences)] ==
        IF k = 0 THEN 0 ELSE upto[k - 1] + sequences[k].tokens
  IN  upto[Len(sequences)]

-----------------------------------------------------------------------------
(* commit_sequence and commit_sample.                                      *)

AcceptsSequence(r, s) ==
  /\ Valid(r) /\ r.runnable /\ ~r.finished
  /\ s.tokens > 0
  /\ s.offset = r.computed
  /\ s.tokens <= Available(r)

CommitSequence(r, s) ==
  IF AcceptsSequence(r, s) THEN [r EXCEPT !.computed = @ + s.tokens] ELSE r

AcceptsSample(r) ==
  Valid(r) /\ r.runnable /\ ~r.finished /\ r.computed = r.prompt + r.outputs

CommitSample(r, token) ==
  IF ~AcceptsSample(r)
  THEN r
  ELSE IF token = "eos"
       THEN [r EXCEPT !.finished = TRUE]
       ELSE [r EXCEPT !.outputs = @ + 1, !.finished = r.outputs + 1 >= MaxTokens]

============================================================================
