------------------------- MODULE ContinuousEngine -------------------------
(***************************************************************************)
(* OfflineBatchTranscriber::transcribe_continuous_gpu                      *)
(* (pipeline/offline_batching.cpp): the older of the two GPU engines.  One *)
(* thread admits chunks one by one, each through its whole prefill, then   *)
(* decodes one token of every active request in one GPU step, lets the     *)
(* finished and failed requests go and admits again.                       *)
(*                                                                         *)
(* A chunk is its prompt length, 0 for one without audio; the frontend is  *)
(* deterministic, so chunks of equal length have equally many samples.     *)
(* Tokens have no value, and a block is its place in its owner's table     *)
(* (KVOwnership has its identity): a request shares the full blocks of the *)
(* cached prefix and owns the rest of its table.  The errors before the first admission      *)
(* return at once with nothing held.                                       *)
(***************************************************************************)
EXTENDS Integers, Sequences, FiniteSets, Functions, Lists

CONSTANTS
  Prompt,        \* prompt tokens of each chunk
  Estimate,      \* estimated_prefill of each chunk, for the static budget
  BatchSize,     \* batch_size
  MaxTokens,     \* max_tokens
  CtxSize,       \* ctx_size
  PrefixTokens,  \* tokens of the task prefix
  ChunkTokens,   \* prefill_chunk_tokens
  BlockSize,     \* kv_block_size
  NumBlocks,     \* blocks of the pool
  LoopWindow,    \* outputs needed before a repetition loop is seen
  KVModes        \* the ways of keeping K/V that are considered

Chunks == DOMAIN Prompt

ASSUME ChunksAssumption ==
  /\ Prompt \in Seq(Nat)
  /\ \A c \in Chunks : Prompt[c] = 0 \/ Prompt[c] > PrefixTokens
  /\ Estimate \in [Chunks -> Nat]
  /\ \A c, d \in Chunks : Prompt[c] = Prompt[d] => Estimate[c] = Estimate[d]

ASSUME SizesAssumption ==
  /\ {BatchSize, MaxTokens, CtxSize, ChunkTokens, BlockSize, LoopWindow}
       \subseteq Nat \ {0}
  /\ {PrefixTokens, NumBlocks} \subseteq Nat
  /\ KVModes \subseteq {"slots", "budget", "dynamic", "chunked"}

SmallerOf(a, b) == IF a <= b THEN a ELSE b
LargerOf(a, b) == IF a >= b THEN a ELSE b

\* paged_blocks_for_tokens
BlocksFor(tokens) == (tokens + BlockSize - 1) \div BlockSize

ASSUME PrefixAssumption == BlocksFor(PrefixTokens) <= NumBlocks

VARIABLES
  kv,       \* "slots": a slot of ctx_size rows; paged with the blocks of the
            \* whole "budget" at once; "dynamic" blocks as rows are needed;
            \* "chunked": dynamic, and the prefill in chunks.  Fixed.
  cached,   \* tokens of the prefix cache, 0 without it.  Fixed.
  pc,       \* where the thread is
  next,     \* next_request, counted from 1
  cand,     \* the request admit_one is prefilling
  active,   \* active
  free,     \* free_count() of the pool of blocks or slots
  hinted,   \* lengths PagedPrefillAdmissionHints has seen
  turn,     \* the active request whose turn it is to decode
  inputs,   \* decode_inputs: positions in active
  round,    \* the admit_round: "usual", "idle" after a step without inputs,
            \* "last" for the one that decides whether to give up
  admitted, \* admitted > 0 in this round
  answers   \* results, by chunk

vars == <<kv, cached, pc, next, cand, active, free, hinted, turn, inputs,
          round, admitted, answers>>

NoCand == [id |-> 0, past |-> 0, own |-> 0]

Init ==
  /\ kv \in KVModes
  /\ cached \in IF kv = "slots" THEN {0} ELSE {0, PrefixTokens}
  /\ pc = "admit"
  /\ next = 1
  /\ cand = NoCand
  /\ active = <<>>
  /\ free = IF kv = "slots" THEN BatchSize ELSE NumBlocks - BlocksFor(cached)
  /\ hinted = {}
  /\ turn = 1
  /\ inputs = {}
  /\ round = "usual"
  /\ admitted = FALSE
  /\ answers = [c \in Chunks |-> <<>>]

-----------------------------------------------------------------------------
(* Blocks.                                                                 *)

PartialRows == cached % BlockSize

\* block_table.size(): the shared blocks of the prefix and its own.
TableSize(r) == cached \div BlockSize + r.own

\* estimate_kv_budget_tokens
Budget(c) == SmallerOf(CtxSize, Estimate[c] + MaxTokens)

\* The blocks a request owns, by their place in its table.
OwnBlocks(r) == {<<r.id, n>> : n \in 1 .. r.own}

BlocksOf(S) == UNION {OwnBlocks(r) : r \in S}

\* Blocks the table of chunk c is to have for `tokens` rows of its prompt.
Required(c, tokens) == BlocksFor(IF kv = "budget" THEN Budget(c) ELSE tokens)

\* extra_blocks: the last prefix block is copied when it is not full.
Extra(c) ==
  IF kv = "slots"
  THEN 1
  ELSE LargerOf(0, Required(c, Prompt[c]) - BlocksFor(cached))
         + (IF PartialRows > 0 THEN 1 ELSE 0)

-----------------------------------------------------------------------------
(* Admission: admit_one, within an admit_round.                            *)

MayAdmit == next <= Len(Prompt) /\ Len(active) < BatchSize

\* The frontend runs before the blocks are looked for, unless they are
\* acquired for the whole budget without a prefix.
Prepares == kv \in {"dynamic", "chunked"} \/ (kv = "budget" /\ cached > 0)

\* can_prepare
HintRefuses == Prepares /\ Prompt[next] \in hinted /\ free < Extra(next)

\* emit_finished, with the outcome of every chunk of a domain.
Emit(outcome) ==
  answers' = [c \in Chunks |-> IF c \in DOMAIN outcome
                               THEN Append(answers[c], outcome[c])
                               ELSE answers[c]]

\* The chunk fails in its admission and frees `blocks`; that counts as one
\* admitted.
ChunkFails(blocks) ==
  /\ Emit([c \in {next} |-> "Failed"])
  /\ next' = next + 1
  /\ free' = free + blocks
  /\ cand' = NoCand
  /\ pc' = "admit"
  /\ admitted' = TRUE
  /\ UNCHANGED <<kv, cached, active, turn, inputs, round>>

NoAudio ==
  /\ pc = "admit" /\ MayAdmit
  /\ Prompt[next] = 0
  /\ ChunkFails(0)
  /\ UNCHANGED hinted

FrontendFails ==
  /\ pc = "admit" /\ MayAdmit
  /\ Prompt[next] > 0
  /\ Prepares /\ ~HintRefuses
  /\ ChunkFails(0)
  /\ UNCHANGED hinted

\* observe: the need of a prepared prompt is remembered for its length.
Observe == hinted' = IF Prepares THEN hinted \cup {Prompt[next]} ELSE hinted

\* The blocks are there: the prefix is retained, its partial block copied,
\* or everything is acquired at once.
BeginPrefill ==
  /\ pc = "admit" /\ MayAdmit
  /\ Prompt[next] > 0
  /\ free >= Extra(next)
  /\ Observe
  /\ LET own == IF Prepares THEN (IF PartialRows > 0 THEN 1 ELSE 0) ELSE Extra(next)
     IN  /\ cand' = [id |-> next, past |-> cached, own |-> own]
         /\ free' = free - own
  /\ pc' = "prefill"
  /\ UNCHANGED <<kv, cached, next, active, turn, inputs, round, admitted, answers>>

\* Faulty variant: the block allocated for the copy is not released.
CopyFailsLeaking ==
  /\ pc = "admit" /\ MayAdmit
  /\ Prompt[next] > 0
  /\ PartialRows > 0 /\ free >= Extra(next)
  /\ Observe
  /\ ChunkFails(-1)

\* copy_paged_kv_block_rows fails: the new block and the prefix are released.
CopyFails ==
  /\ pc = "admit" /\ MayAdmit
  /\ Prompt[next] > 0
  /\ PartialRows > 0 /\ free >= Extra(next)
  /\ Observe
  /\ ChunkFails(0)

\* The prompt tokens the prefill (or its next chunk) brings the request to.
PrefillEnd ==
  IF kv = "chunked"
  THEN SmallerOf(cand.past + ChunkTokens, Prompt[cand.id])
  ELSE Prompt[cand.id]

\* append_block until the table is long enough.  Admission counted these
\* blocks and nothing ran in between: they are free.
Grown ==
  IF kv = "slots" THEN 0
  ELSE LargerOf(0, Required(cand.id, PrefillEnd) - TableSize(cand))

\* check_context_capacity, and the check of the block table in the runner.
PrefillFits ==
  /\ PrefillEnd <= CtxSize
  /\ kv # "slots" => PrefillEnd <= (TableSize(cand) + Grown) * BlockSize

Prefill ==
  /\ pc = "prefill"
  /\ free >= Grown
  /\ PrefillFits
  /\ free' = free - Grown
  /\ IF PrefillEnd < Prompt[cand.id]
     THEN /\ cand' = [cand EXCEPT !.past = PrefillEnd, !.own = @ + Grown]
          /\ UNCHANGED <<pc, next, active, admitted>>
     ELSE /\ active' = Append(active,
                         [id |-> cand.id, past |-> PrefillEnd, own |-> cand.own + Grown,
                          outputs |-> 0, waiting |-> FALSE, phase |-> "Decoding"])
          /\ cand' = NoCand
          /\ next' = next + 1
          /\ admitted' = TRUE
          /\ pc' = "admit"
  /\ UNCHANGED <<kv, cached, hinted, turn, inputs, round, answers>>

\* The prefill is refused or fails on the device.
PrefillFails ==
  /\ pc = "prefill"
  /\ free >= Grown
  /\ ChunkFails(cand.own)
  /\ UNCHANGED hinted

\* The round ends: nothing is left to admit, or the next chunk is put off.
\* With nothing active after an idle step there is a second round, and when
\* that admits nothing the engine gives up; else the loop goes on or ends.
RoundEnds ==
  LET stuck == active = <<>> /\ next <= Len(Prompt)
  IN  /\ pc = "admit"
      /\ MayAdmit => Prompt[next] > 0 /\ free < Extra(next)
      /\ hinted' = IF MayAdmit /\ Prepares THEN hinted \cup {Prompt[next]} ELSE hinted
      /\ admitted' = FALSE
      /\ round' = IF round = "idle" /\ stuck THEN "last" ELSE "usual"
      /\ pc' = CASE round = "idle" /\ stuck               -> "admit"
                 [] round = "last" /\ ~admitted           -> "drain"
                 [] active = <<>> /\ next > Len(Prompt)   -> "drain"
                 [] OTHER                                 -> "decode"
      /\ UNCHANGED <<kv, cached, next, cand, active, free, turn, inputs, answers>>

-----------------------------------------------------------------------------
(* Decoding: the requests take their turns, in the order of active.        *)

\* The request whose turn it is goes on as r; it is an input or it is not.
NextTurn(r, isInput) ==
  /\ active' = [active EXCEPT ![turn] = r]
  /\ inputs' = IF isInput THEN inputs \cup {turn} ELSE inputs
  /\ turn' = turn + 1
  /\ UNCHANGED <<kv, cached, pc, next, cand, hinted, round, admitted, answers>>

AtLimit(r) == r.outputs >= MaxTokens \/ r.past >= CtxSize

\* Faulty variant: the row of the next token is forgotten.
NeedsBlockLate(r) ==
  kv \in {"dynamic", "chunked"} /\ BlocksFor(r.past) > TableSize(r)

\* paged_decode_requires_append
NeedsBlock(r) ==
  kv \in {"dynamic", "chunked"} /\ BlocksFor(r.past + 1) > TableSize(r)

\* max_tokens or the context is reached, or the sampled token is eos; a
\* request that waits has another token.
DecodeFinishes ==
  /\ pc = "decode" /\ turn <= Len(active)
  /\ LET r == active[turn]
     IN  /\ AtLimit(r) \/ ~r.waiting
         /\ NextTurn([r EXCEPT !.phase = "Finished"], FALSE)
  /\ UNCHANGED free

DecodeWaits ==
  /\ pc = "decode" /\ turn <= Len(active)
  /\ LET r == active[turn]
     IN  /\ ~AtLimit(r)
         /\ NeedsBlock(r) /\ free = 0
         /\ NextTurn([r EXCEPT !.waiting = TRUE], FALSE)
  /\ UNCHANGED free

\* The token is output, after a block was appended when it needs one; a
\* repetition loop (16 outputs in the code) ends the request.
DecodeToken ==
  /\ pc = "decode" /\ turn <= Len(active)
  /\ LET r == active[turn]
         taken == IF NeedsBlock(r) THEN 1 ELSE 0
         written == [r EXCEPT !.own = @ + taken, !.waiting = FALSE, !.outputs = @ + 1]
     IN  /\ ~AtLimit(r)
         /\ free >= taken
         /\ free' = free - taken
         /\ \/ NextTurn(written, TRUE)
            \/ /\ written.outputs >= LoopWindow
               /\ NextTurn([written EXCEPT !.phase = "Finished"], FALSE)

TurnsTaken == pc = "decode" /\ turn > Len(active)

AfterStep ==
  /\ pc' = "reap"
  /\ UNCHANGED <<kv, cached, next, cand, free, hinted, turn, inputs, round, admitted, answers>>

\* Has r the row its token is written to?
Backed(r) == kv # "slots" => r.past < TableSize(r) * BlockSize

\* gpu_decode_step_slots works, for all inputs or for none: the runner
\* refuses the step when one table is too short.
StepWorks ==
  /\ TurnsTaken /\ inputs # {}
  /\ \A i \in inputs : Backed(active[i])
  /\ active' = [i \in DOMAIN active |->
                  IF i \in inputs THEN [active[i] EXCEPT !.past = @ + 1] ELSE active[i]]
  /\ AfterStep

StepFails ==
  /\ TurnsTaken /\ inputs # {}
  /\ active' = [i \in DOMAIN active |->
                  IF i \in inputs THEN [active[i] EXCEPT !.phase = "Failed"] ELSE active[i]]
  /\ AfterStep

\* Faulty variant: the engine gives up although a request just finished.
StallHastily ==
  /\ TurnsTaken /\ inputs = {}
  /\ active' = [i \in DOMAIN active |->
                  IF active[i].waiting THEN [active[i] EXCEPT !.phase = "Failed"] ELSE active[i]]
  /\ AfterStep

\* Faulty variant: waiting requests wait on.
StallForEver == TurnsTaken /\ inputs = {} /\ active' = active /\ AfterStep

\* Nothing to run.  When no request is about to be released, all wait for a
\* block that will not come, and fail.
Stall ==
  /\ TurnsTaken /\ inputs = {}
  /\ active' = IF \E i \in DOMAIN active : active[i].phase # "Decoding"
               THEN active
               ELSE [i \in DOMAIN active |->
                       IF active[i].waiting THEN [active[i] EXCEPT !.phase = "Failed"]
                                            ELSE active[i]]
  /\ AfterStep

\* Finished and failed requests are emitted and release what they own.
Reap ==
  LET ended      == {r \in Range(active) : r.phase # "Decoding"}
      PhaseOf(c) == (CHOOSE r \in ended : r.id = c).phase
  IN  /\ pc = "reap"
      /\ Emit([c \in {r.id : r \in ended} |-> PhaseOf(c)])
      /\ free' = free + Cardinality(BlocksOf(ended))
      /\ active' = Only(active, Range(active) \ ended)
      /\ round' = IF inputs = {} THEN "idle" ELSE "usual"
      /\ inputs' = {}
      /\ turn' = 1
      /\ pc' = "admit"
      /\ UNCHANGED <<kv, cached, next, cand, hinted, admitted>>

\* The prefix goes back to the pool.
Drain ==
  /\ pc = "drain"
  /\ free' = free + BlocksFor(cached)
  /\ pc' = "done"
  /\ UNCHANGED <<kv, cached, next, cand, active, hinted, turn, inputs, round,
                 admitted, answers>>

Returned == pc = "done" /\ UNCHANGED vars

-----------------------------------------------------------------------------
Main ==
  \/ NoAudio \/ FrontendFails \/ CopyFails
  \/ BeginPrefill \/ Prefill \/ PrefillFails \/ RoundEnds
  \/ DecodeFinishes \/ DecodeWaits \/ DecodeToken
  \/ StepWorks \/ StepFails \/ Stall
  \/ Reap \/ Drain

Next == Main \/ Returned

\* One thread, which never waits.
Spec == Init /\ [][Next]_vars /\ WF_vars(Main)

-----------------------------------------------------------------------------
(* Properties.                                                             *)

(* Blocks and slots are conserved between any two steps of admit_one and   *)
(* of the loop, whichever call fails: what is free, what the prefix holds  *)
(* and what the requests own is the pool, and all of it when the engine    *)
(* returns.                                                                *)
BlocksConserved ==
  /\ free >= 0
  /\ free + cand.own + Cardinality(BlocksOf(Range(active)))
          + (IF pc = "done" THEN 0 ELSE BlocksFor(cached))
       = IF kv = "slots" THEN BatchSize ELSE NumBlocks

(* Every row a decode step writes lies inside the context and in a block   *)
(* of the request's table.  The static budget keeps this only for prompts  *)
(* within the estimate; a longer one makes the step fail for all inputs.   *)
RowsAreBacked ==
  TurnsTaken =>
    \A i \in inputs :
      LET r == active[i]
      IN  /\ r.past < CtxSize
          /\ (kv = "budget" => Prompt[r.id] <= Estimate[r.id]) => Backed(r)

(* Requests that wait for a block fail only in a real dead end: no block   *)
(* is free and every block outside the prefix is owned by a request that   *)
(* waits, so that no release could have helped.                            *)
GivesUpOnlyWhenStuck ==
  LET givenUp == {r \in Range(active) : r.waiting /\ r.phase = "Failed"}
  IN  pc = "reap" /\ givenUp # {} =>
        Cardinality(BlocksOf(givenUp)) = NumBlocks - BlocksFor(cached)

Service == INSTANCE ChunkAnswers WITH Chunk <- Chunks, Outcome <- {"Finished", "Failed"}

\* The empty pool has the blocks the admission of c asks for.
Fits(c) ==
  Prompt[c] = 0 \/ kv = "slots" \/ Extra(c) <= NumBlocks - BlocksFor(cached)

(* The engine returns.  No result is replaced or repeated, and every chunk *)
(* gets one, whatever fails and however decoders wait for each other's     *)
(* blocks, up to the first chunk that does not fit the empty pool: there   *)
(* a second admit_round admits nothing and the engine gives up.            *)
AnswersUpToMisfit ==
  /\ Service!AnswersStand
  /\ \A c \in Chunks : (\A d \in 1 .. c : Fits(d)) ~> answers[c] # <<>>
  /\ <>(pc = "done")

============================================================================
