-------------------------- MODULE UnifiedScheduler --------------------------
(***************************************************************************)
(* The unified scheduler driven by a client that knows nothing of it: the  *)
(* requests start anywhere a valid request can be, may be blocked and      *)
(* unblocked between rounds, and the client may cut a prompt chunk short   *)
(* or put a sequence off, as the engine does when KV blocks run out.       *)
(***************************************************************************)
EXTENDS UnifiedPlan

CONSTANTS
  NumRequests,     \* bound: requests in the vector
  MaxPrompt        \* bound: prompt tokens of a request

ASSUME BoundsAssumption == NumRequests \in Nat /\ MaxPrompt \in Nat

Indices == 1 .. NumRequests

Progress ==
  [prompt   : 0 .. MaxPrompt,
   computed : 0 .. MaxPrompt + MaxTokens,
   outputs  : 0 .. MaxTokens,
   room     : 0 .. MaxPrompt + MaxTokens,
   runnable : BOOLEAN,
   finished : BOOLEAN]

\* Room to compute the whole prompt and every output but the last.
FullRoom == MaxPrompt + MaxTokens

\* A request as a client may present it: it waits for its next token, or
\* is being prefilled.
Presentable(r) ==
  /\ Valid(r)
  /\ Available(r) > 0
  /\ ~r.finished
  /\ r.runnable
  /\ r.room = FullRoom
  /\ PromptComplete(r) => Available(r) = 1

VARIABLES
  reqs,  \* the vector of requests
  plan,  \* the plan being carried out, <<>> between rounds
  at     \* the sequence of plan that comes next

vars == <<reqs, plan, at>>

Init ==
  /\ reqs \in [Indices -> {r \in Progress : Presentable(r)}]
  /\ plan = <<>>
  /\ at = 1

\* build_plan for whatever the client lets run.
Plan ==
  /\ plan = <<>>
  /\ plan' = BuildPlan(reqs)
  /\ UNCHANGED <<reqs, at>>

\* The client blocks a request, or lets it run again.
Toggle(i) ==
  /\ plan = <<>>
  /\ ~reqs[i].finished
  /\ reqs' = [reqs EXCEPT ![i].runnable = ~@]
  /\ UNCHANGED <<plan, at>>

Advance ==
  IF at = Len(plan)
  THEN plan' = <<>> /\ at' = 1
  ELSE at' = at + 1 /\ UNCHANGED plan

\* A planned sequence is computed and committed, and sampled if it ends
\* where a token is to be sampled.
Compute(token) ==
  /\ plan # <<>>
  /\ LET s         == plan[at]
         committed == CommitSequence(reqs[s.req], s)
     IN  reqs' = [reqs EXCEPT ![s.req] =
                    IF s.logits THEN CommitSample(committed, token) ELSE committed]
  /\ Advance

\* The client shortened a prompt chunk to the rows it has.
ComputeSome(n) ==
  /\ plan # <<>>
  /\ plan[at].kind = "prompt"
  /\ n < plan[at].tokens
  /\ LET s == [plan[at] EXCEPT !.tokens = n]
     IN  reqs' = [reqs EXCEPT ![s.req] = CommitSequence(@, s)]
  /\ Advance

\* The client put the sequence off.
PutOff ==
  /\ plan # <<>>
  /\ Advance
  /\ UNCHANGED reqs

Next ==
  \/ Plan
  \/ \E i \in Indices : Toggle(i)
  \/ \E token \in {"eos", "token"} : Compute(token)
  \/ \E n \in 1 .. MaxPrefillChunk : ComputeSome(n)
  \/ PutOff

Spec == Init /\ [][Next]_vars

-----------------------------------------------------------------------------
Planned(i) == \E k \in DOMAIN plan : plan[k].req = i

PlannedTokens == TokensOf(plan)

\* The plan was made and nothing of it has been carried out.
Fresh == plan # <<>> /\ at = 1

-----------------------------------------------------------------------------
(* Properties.                                                             *)

(* The token budget is a limit on the whole round, decoders and prompt     *)
(* chunks together, and no request is planned twice.                       *)
WithinLimits ==
  /\ PlannedTokens <= MaxScheduledTokens
  /\ Len(plan) <= MaxSeqs
  /\ \A j, k \in DOMAIN plan : plan[j].req = plan[k].req => j = k

(* Work conservation: a ready request is left out only if the budget or    *)
(* the sequence limit is used up.                                          *)
NothingLeftIdle ==
  Fresh /\ PlannedTokens < MaxScheduledTokens /\ Len(plan) < MaxSeqs =>
    \A i \in Indices : Ready(reqs[i]) => Planned(i)

(* What was planned is accepted: no step of another sequence of the same   *)
(* plan, nor a chunk cut short or put off before it, makes commit_sequence *)
(* refuse a sequence, and logits are asked for exactly when commit_sample  *)
(* accepts the sample they give.                                           *)
PlanIsCommittable ==
  \A k \in DOMAIN plan : k >= at =>
    LET r == reqs[plan[k].req]
        s == plan[k]
    IN  /\ AcceptsSequence(r, s)
        /\ s.logits <=> AcceptsSample(CommitSequence(r, s))

============================================================================
