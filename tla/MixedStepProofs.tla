-------------------------- MODULE MixedStepProofs ---------------------------
(***************************************************************************)
(* The unified scheduler and the packed step, for any number of requests   *)
(* that start anywhere, any limits of a round, any block size, pool, table *)
(* and context.  Inv is inductive: the requests are settled, and what is   *)
(* left of the plan fits them.  Everything else is about one state, and is *)
(* proved of any plan that Inv allows, from the data up:                   *)
(*   PackOrders, PackCounts, RowsLocated  the order of a packed batch and  *)
(*            the sequence and position of each of its rows                *)
(*   IsRun    what Runs may leave of a plan                                *)
(*   IsTable  block tables, whose rows belong to one position each         *)
(*            (RowsApart), but for those of the common prefix              *)
(*   Sound    an input of the step, whose table holds all its positions    *)
(*   IsStep   a run, its inputs and its batch (StepIs), from which         *)
(*            StepComputed and GraphsAgree follow row by row               *)
(***************************************************************************)
EXTENDS MixedStep, UnifiedPlanProofs

PlanOK ==
  /\ plan \in Seq(ScheduledSequence)
  /\ at \in Nat \ {0}
  /\ IF plan = <<>> THEN at = 1 ELSE at <= Len(plan)
  /\ TokensOf(plan) <= MaxScheduledTokens
  /\ Len(plan) <= MaxSeqs
  /\ \A j, k \in DOMAIN plan : plan[j].req = plan[k].req => j = k

Inv ==
  /\ reqs \in Seq(Request)
  /\ DOMAIN reqs = Indices
  /\ \A i \in Indices : Settled(reqs[i])
  /\ PlanOK
  /\ \A k \in DOMAIN plan : k >= at => Fits(reqs, plan[k])
  /\ Fresh => plan = BuildPlan(reqs)

-----------------------------------------------------------------------------
(* The steps.                                                              *)

LEMMA FitsElsewhere ==
  ASSUME NEW rs, NEW s, Fits(rs, s), NEW i, s.req # i, NEW v
  PROVE  Fits([rs EXCEPT ![i] = v], s)
<1>1. /\ DOMAIN [rs EXCEPT ![i] = v] = DOMAIN rs
      /\ [rs EXCEPT ![i] = v][s.req] = rs[s.req]
  BY DEF Fits
<1> QED BY <1>1 DEF Fits

LEMMA InvInit ==
  ASSUME Init
  PROVE  Inv
<1>1. \A r \in Progress : r \in Request
  BY ConfigAssumption, BoundsAssumption DEF Progress, Request
<1>2. reqs \in Seq(Request) /\ DOMAIN reqs = Indices
  BY <1>1, BoundsAssumption DEF Init, Indices
<1>3. \A i \in Indices : Settled(reqs[i])
  BY <1>1 DEF Init, Settled, Presentable
<1>4. plan = <<>> /\ at = 1
  BY DEF Init
<1>5. PlanOK
  <2>1. TokensOf(plan) = 0
    BY <1>4, NoPlan
  <2>2. plan \in Seq(ScheduledSequence) /\ Len(plan) = 0 /\ DOMAIN plan = {}
    BY <1>4
  <2> QED BY <1>4, <2>1, <2>2, ConfigAssumption DEF PlanOK
<1> QED BY <1>2, <1>3, <1>4, <1>5 DEF Inv, Fresh

LEMMA PlanKeepsInv ==
  ASSUME Inv, Plan
  PROVE  Inv'
<1>1. reqs \in Seq(Request) /\ plan' = BuildPlan(reqs) /\ reqs' = reqs /\ at' = 1
  BY DEF Inv, Plan, PlanOK
<1>2. /\ plan' \in Seq(ScheduledSequence)
      /\ TokensOf(plan') <= MaxScheduledTokens
      /\ Len(plan') <= MaxSeqs
      /\ \A k \in DOMAIN plan' : Fits(reqs, plan'[k])
      /\ \A j, k \in DOMAIN plan' : plan'[j].req = plan'[k].req => j = k
  BY <1>1, BuildPlanPlans
<1>3. plan' # <<>> => 1 <= Len(plan')
  BY <1>2
<1> QED BY <1>1, <1>2, <1>3 DEF Inv, PlanOK, Fresh

LEMMA ToggleKeepsInv ==
  ASSUME Inv, NEW i \in Indices, Toggle(i)
  PROVE  Inv'
<1>1. /\ plan = <<>> /\ plan' = plan /\ at' = at /\ ~reqs[i].finished
      /\ reqs' = [reqs EXCEPT ![i].runnable = ~@]
  BY DEF Toggle
<1> DEFINE r == reqs[i]
           s == reqs'[i]
<1>2. reqs \in Seq(Request) /\ DOMAIN reqs = Indices /\ Settled(r)
  BY DEF Inv
<1>3. r \in Request
  BY <1>2 DEF Settled
<1>4. s = [r EXCEPT !.runnable = ~@]
  BY <1>1, <1>2
<1> HIDE DEF r
<1>5. s \in Request /\ s.prompt = r.prompt /\ s.computed = r.computed
      /\ s.outputs = r.outputs /\ s.finished = r.finished
  <2>1. CASE r.runnable
    <3>1. s = [r EXCEPT !.runnable = FALSE]
      BY Zenon, <2>1, <1>4
    <3> QED BY <1>3, <3>1 DEF Request
  <2>2. CASE ~r.runnable
    <3>1. s = [r EXCEPT !.runnable = TRUE]
      BY Zenon, <2>2, <1>4
    <3> QED BY <1>3, <3>1 DEF Request
  <2> QED BY <2>1, <2>2
<1>6. Settled(s)
  BY <1>2, <1>5 DEF Settled, Valid, Available, PromptComplete
<1>7. reqs' \in Seq(Request) /\ DOMAIN reqs' = Indices
      /\ \A j \in Indices : Settled(reqs'[j])
  <2>1. DOMAIN reqs' = DOMAIN reqs /\ \A j \in DOMAIN reqs : j # i => reqs'[j] = reqs[j]
    BY <1>1
  <2>2. \A j \in Indices : Settled(reqs'[j])
    BY <1>2, <1>6, <2>1 DEF Inv
  <2>3. \A j \in Indices : reqs'[j] \in Request
    BY <2>2 DEF Settled
  <2>4. reqs' = [j \in DOMAIN reqs |-> reqs'[j]]
    BY <1>1
  <2> HIDE DEF s
  <2>5. reqs' \in Seq(Request)
    BY ONLY <1>2, <2>3, <2>4, BoundsAssumption DEF Indices
  <2> QED BY <1>2, <2>1, <2>2, <2>5
<1>8. PlanOK'
  BY <1>1 DEF Inv, PlanOK
<1> QED BY <1>1, <1>7, <1>8 DEF Inv, Fresh

LEMMA AdvanceMoves ==
  ASSUME PlanOK, plan # <<>>, Advance
  PROVE  /\ PlanOK' /\ ~Fresh'
         /\ \A k \in DOMAIN plan' :
              k >= at' => k \in DOMAIN plan /\ k > at /\ plan'[k] = plan[k]
<1>1. plan \in Seq(ScheduledSequence) /\ at \in Nat \ {0} /\ at <= Len(plan)
  BY DEF PlanOK
<1>2. CASE at = Len(plan)
  <2>1. plan' = <<>> /\ at' = 1
    BY <1>2 DEF Advance
  <2>2. PlanOK'
    <3>1. TokensOf(plan') = 0
      BY <2>1, NoPlan
    <3>2. plan' \in Seq(ScheduledSequence) /\ Len(plan') = 0 /\ DOMAIN plan' = {}
      BY <2>1
    <3> QED BY <2>1, <3>1, <3>2, ConfigAssumption DEF PlanOK
  <2> QED BY <2>1, <2>2 DEF Fresh
<1>3. CASE at # Len(plan)
  <2>1. plan' = plan /\ at' = at + 1
    BY <1>3 DEF Advance
  <2> QED BY <1>1, <1>3, <2>1 DEF PlanOK, Fresh
<1> QED BY <1>2, <1>3

\* The sequence that comes next is dealt with, and its request is v now.
LEMMA TurnKeepsInv ==
  ASSUME Inv, plan # <<>>, Advance, NEW v, Settled(v),
         reqs' = [reqs EXCEPT ![plan[at].req] = v]
  PROVE  Inv'
<1> DEFINE i == plan[at].req
<1>1. /\ reqs \in Seq(Request) /\ DOMAIN reqs = Indices /\ PlanOK
      /\ \A j \in Indices : Settled(reqs[j])
  BY DEF Inv
<1>2. /\ plan \in Seq(ScheduledSequence) /\ at \in DOMAIN plan
      /\ \A k \in DOMAIN plan : plan[k].req = i => k = at
  BY <1>1 DEF PlanOK
<1> HIDE DEF i
<1>3. /\ PlanOK' /\ ~Fresh'
      /\ \A k \in DOMAIN plan' :
           k >= at' => k \in DOMAIN plan /\ k > at /\ plan'[k] = plan[k]
  BY <1>1, AdvanceMoves
<1>4. reqs' = [reqs EXCEPT ![i] = v]
  BY DEF i
<1>5. v \in Request
  BY DEF Settled
<1>6. reqs' \in Seq(Request) /\ DOMAIN reqs' = Indices
  <2>1. reqs' = [j \in 1 .. Len(reqs) |-> reqs'[j]] /\ DOMAIN reqs' = DOMAIN reqs
    <3>1. DOMAIN reqs = 1 .. Len(reqs)
      BY <1>1
    <3>2. reqs' = [j \in DOMAIN reqs |-> reqs'[j]] /\ DOMAIN reqs' = DOMAIN reqs
      BY <1>4
    <3> QED BY <3>1, <3>2
  <2>2. \A j \in 1 .. Len(reqs) : reqs'[j] \in Request
    BY <1>1, <1>4, <1>5
  <2>3. Len(reqs) \in Nat
    BY <1>1
  <2> QED BY ONLY <1>1, <2>1, <2>2, <2>3
<1>7. \A j \in Indices : Settled(reqs'[j])
  BY <1>1, <1>4
<1>8. ASSUME NEW k \in DOMAIN plan', k >= at'
      PROVE  Fits(reqs, plan[k])' 
  <2>1. k \in DOMAIN plan /\ k > at /\ plan'[k] = plan[k]
    BY <1>3, <1>8
  <2>2. Fits(reqs, plan[k]) /\ plan[k].req # i
    BY <1>2, <2>1 DEF Inv
  <2>3. Fits(reqs', plan[k])
    <3>1. Fits([reqs EXCEPT ![i] = v], plan[k])
      BY ONLY <2>2, FitsElsewhere
    <3> QED BY Zenon, <1>4, <3>1
  <2> QED BY <2>1, <2>3
<1> QED BY <1>3, <1>6, <1>7, <1>8 DEF Inv

LEMMA ComputeKeepsInv ==
  ASSUME Inv, NEW token, Compute(token)
  PROVE  Inv'
<1> DEFINE s == plan[at]
           r == reqs[s.req]
           c == CommitSequence(r, s)
           v == IF s.logits THEN CommitSample(c, token) ELSE c
<1>1. plan # <<>> /\ Advance /\ reqs' = [reqs EXCEPT ![s.req] = v]
  BY DEF Compute
<1>2. /\ reqs \in Seq(Request) /\ at \in DOMAIN plan /\ s \in ScheduledSequence
      /\ Fits(reqs, s)
  BY <1>1 DEF Inv, PlanOK
<1>3. Suits(r, s) /\ s.req \in DOMAIN reqs
  BY <1>2, FitsSuits DEF Fits
<1>4. Settled(r) /\ r \in Request
  BY <1>3 DEF Inv, Settled
<1>5. Settled(v)
  <2> HIDE DEF s, r
  <2>1. CASE s.logits
    <3>1. AcceptsSample(c) /\ c = [r EXCEPT !.computed = @ + s.tokens]
      BY <1>3, <1>4, <2>1, SequenceAccepted
    <3>2. c \in Request
      <4>1. r.computed \in Nat /\ s.tokens \in Nat
        BY <1>3, <1>4 DEF Suits, Request, ScheduledSequence
      <4> QED BY <1>4, <3>1, <4>1 DEF Request
    <3>3. Settled(CommitSample(c, token))
      BY <3>1, <3>2, SampleSettles
    <3> QED BY <2>1, <3>3
  <2>2. CASE ~s.logits
    BY <1>3, <1>4, <2>2, SequenceSettles
  <2> QED BY <2>1, <2>2
<1> HIDE DEF v
<1> QED BY <1>1, <1>5, TurnKeepsInv

LEMMA ComputeSomeKeepsInv ==
  ASSUME Inv, NEW n \in 1 .. MaxPrefillChunk, ComputeSome(n)
  PROVE  Inv'
<1> DEFINE s == plan[at]
           short == [s EXCEPT !.tokens = n]
           r == reqs[s.req]
           t == Scheduled(s.req, r, n, "prompt")
           v == CommitSequence(r, short)
<1>1. /\ plan # <<>> /\ Advance /\ s.kind = "prompt" /\ n < s.tokens
      /\ reqs' = [reqs EXCEPT ![short.req] = CommitSequence(@, short)]
  BY DEF ComputeSome
<1>2. /\ reqs \in Seq(Request) /\ at \in DOMAIN plan /\ s \in ScheduledSequence
      /\ Fits(reqs, s)
  BY <1>1 DEF Inv, PlanOK
<1>3. Suits(r, s) /\ s.req \in DOMAIN reqs
  BY <1>2, FitsSuits DEF Fits
<1>4. Settled(r) /\ r \in Request
  BY <1>3 DEF Inv, Settled
<1>5. short.req = s.req /\ short.tokens = n /\ short.offset = s.offset
  BY <1>2 DEF ScheduledSequence
<1>6. reqs' = [reqs EXCEPT ![s.req] = v]
  BY <1>1, <1>5
<1> HIDE DEF s, r, short
<1>7. /\ r.computed \in Nat /\ r.prompt \in Nat
      /\ s.tokens \in Nat /\ s.req \in Nat /\ n \in Nat \ {0}
  BY <1>3, <1>4, ConfigAssumption DEF Suits, Request, ScheduledSequence
<1>8. Suits(r, t) /\ ~t.logits
  <2>1. /\ t.req = s.req /\ t.tokens = n /\ t.kind = "prompt" /\ t.offset = r.computed
        /\ t \in ScheduledSequence
    BY <1>7 DEF Scheduled, ScheduledSequence
  <2>2. s.tokens <= r.prompt - r.computed /\ Ready(r) /\ ~PromptComplete(r)
    BY <1>1, <1>3 DEF Suits
  <2>3. t = Scheduled(t.req, r, t.tokens, t.kind)
    BY <2>1
  <2>4. ~t.logits
    <3>1. r.computed + n # r.prompt
      BY <1>1, <1>7, <2>2
    <3> QED BY <3>1, ScheduledFields
  <2> HIDE DEF t
  <2> QED BY <1>1, <1>7, <2>1, <2>2, <2>3, <2>4 DEF Suits
<1>9. v = CommitSequence(r, t)
  <2>1. t.tokens = short.tokens /\ t.offset = short.offset
    BY <1>3, <1>5, ScheduledFields DEF Scheduled, Suits
  <2> HIDE DEF t
  <2> QED BY Zenon, <2>1 DEF CommitSequence, AcceptsSequence
<1> HIDE DEF t
<1>10. Settled(v)
  BY <1>4, <1>8, <1>9, SequenceSettles
<1> HIDE DEF v
<1> QED BY <1>1, <1>6, <1>10, TurnKeepsInv DEF s

LEMMA PutOffKeepsInv ==
  ASSUME Inv, PutOff
  PROVE  Inv'
<1> DEFINE i == plan[at].req
<1>1. plan # <<>> /\ Advance /\ reqs' = reqs
  BY DEF PutOff
<1>2. at \in DOMAIN plan /\ Fits(reqs, plan[at])
  BY <1>1 DEF Inv, PlanOK
<1>3. Settled(reqs[i]) /\ reqs \in Seq(Request)
  BY <1>2 DEF Inv, Fits
<1>4. reqs' = [reqs EXCEPT ![i] = reqs[i]]
  BY <1>1, <1>3
<1> QED BY <1>1, <1>3, <1>4, TurnKeepsInv

LEMMA StutterKeepsInv ==
  ASSUME Inv, UNCHANGED vars
  PROVE  Inv'
BY DEF Inv, PlanOK, Fresh, vars

LEMMA InvInvariant == Spec => []Inv
<1>1. Init => Inv
  BY InvInit
<1>2. Inv /\ [Next]_vars => Inv'
  BY PlanKeepsInv, ToggleKeepsInv, ComputeKeepsInv, ComputeSomeKeepsInv,
     PutOffKeepsInv, StutterKeepsInv DEF Next
<1> QED BY <1>1, <1>2, PTL DEF Spec

-----------------------------------------------------------------------------
(* The plan.                                                               *)

(* The token budget holds for the whole round and no request is planned    *)
(* twice, for any requests.                                                *)
THEOREM Limits == Spec => []WithinLimits
<1>1. Inv => WithinLimits
  BY DEF Inv, PlanOK, WithinLimits, PlannedTokens
<1> QED BY <1>1, InvInvariant, PTL

(* No request that could run is left out while there is room.              *)
THEOREM WorkConserved == Spec => []NothingLeftIdle
<1>1. Inv => NothingLeftIdle
  <2>1. SUFFICES ASSUME Inv, Fresh, PlannedTokens < MaxScheduledTokens, Len(plan) < MaxSeqs,
                        NEW i \in Indices, Ready(reqs[i])
                 PROVE  Planned(i)
    BY DEF NothingLeftIdle
  <2>2. plan = BuildPlan(reqs) /\ reqs \in Seq(Request) /\ i \in DOMAIN reqs
    BY <2>1 DEF Inv
  <2>3. In(plan, i)
    BY <2>1, <2>2, BuildPlanPlans DEF PlannedTokens
  <2> QED BY <2>3 DEF In, Planned
<1> QED BY <1>1, InvInvariant, PTL

(* Whatever the client cuts short, puts off or blocks between rounds,      *)
(* every sequence of a plan can be committed when its turn comes, and      *)
(* exactly those with logits can be sampled.                               *)
THEOREM Committable == Spec => []PlanIsCommittable
<1>1. Inv => PlanIsCommittable
  <2>1. SUFFICES ASSUME Inv, NEW k \in DOMAIN plan, k >= at
                 PROVE  /\ AcceptsSequence(reqs[plan[k].req], plan[k])
                        /\ plan[k].logits <=>
                             AcceptsSample(CommitSequence(reqs[plan[k].req], plan[k]))
    BY DEF PlanIsCommittable
  <2>2. /\ reqs \in Seq(Request) /\ plan[k] \in ScheduledSequence /\ Fits(reqs, plan[k])
    BY <2>1 DEF Inv, PlanOK
  <2>3. Suits(reqs[plan[k].req], plan[k]) /\ Settled(reqs[plan[k].req])
    BY <2>1, <2>2, FitsSuits DEF Fits, Inv
  <2> QED BY <2>3, SequenceAccepted
<1> QED BY <1>1, InvInvariant, PTL

-----------------------------------------------------------------------------
(* The packed batch: its order.                                            *)

\* Sources of a batch: one for each request, decoders with one token.
Apart(s) == \A j, k \in DOMAIN s : s[j].req = s[k].req => j = k

Packs(sources) ==
  /\ sources \in Seq(Range(sources))
  /\ Apart(sources)
  /\ \A s \in Range(sources) :
       /\ s.tokens \in Nat \ {0}
       /\ ~IsPrompt(s) => s.tokens = 1

\* The first p sequences are the prompts.
Ordered(sources, sequences, p) ==
  /\ sequences \in Seq(Range(sources))
  /\ Range(sequences) = Range(sources)
  /\ Apart(sequences)
  /\ p \in 0 .. Len(sequences)
  /\ \A k \in 1 .. Len(sequences) : IsPrompt(sequences[k]) <=> k <= p

LEMMA PackOrders ==
  ASSUME NEW sources, Packs(sources)
  PROVE  Ordered(sources, Prompts(sources) \o Decodes(sources), Len(Prompts(sources)))
<1> DEFINE T == Range(sources)
           w == [s \in T |-> s.req]
           A == Prompts(sources)
           B == Decodes(sources)
           v == A \o B
           p == Len(A)
<1>1. sources \in Seq(T) /\ \A k \in DOMAIN sources : sources[k] \in T
  BY DEF Packs, Range
<1>2. \A j, k \in DOMAIN sources : w[sources[j]] = w[sources[k]] => j = k
  BY <1>1 DEF Packs, Apart
<1>3. /\ A \in Seq(T) /\ Range(A) = {s \in T : IsPrompt(s)}
      /\ \A j, k \in DOMAIN A : w[A[j]] = w[A[k]] => j = k
  <2> DEFINE S == {s \in T : IsPrompt(s)}
  <2>1. A = Only(sources, S)
    BY DEF Prompts
  <2>2. T \cap S = S
    OBVIOUS
  <2> HIDE DEF A, S, w, T
  <2>3. /\ A \in Seq(T) /\ Range(A) = Range(sources) \cap S
        /\ \A j, k \in DOMAIN A : w[A[j]] = w[A[k]] => j = k
    BY <1>1, <1>2, <2>1, OnlyFacts
  <2> QED BY <2>2, <2>3 DEF S, T
<1>4. /\ B \in Seq(T) /\ Range(B) = {s \in T : ~IsPrompt(s)}
      /\ \A j, k \in DOMAIN B : w[B[j]] = w[B[k]] => j = k
  <2> DEFINE S == {s \in T : ~IsPrompt(s)}
  <2>1. B = Only(sources, S)
    BY DEF Decodes
  <2>2. T \cap S = S
    OBVIOUS
  <2> HIDE DEF B, S, w, T
  <2>3. /\ B \in Seq(T) /\ Range(B) = Range(sources) \cap S
        /\ \A j, k \in DOMAIN B : w[B[j]] = w[B[k]] => j = k
    BY <1>1, <1>2, <2>1, OnlyFacts
  <2> QED BY <2>2, <2>3 DEF S, T
<1> HIDE DEF A, B
<1>5. Follows(T, A, B, v)
  BY <1>3, <1>4, Concatenated
<1>6. \A k \in 1 .. Len(A) : A[k] \in T /\ IsPrompt(A[k])
  BY <1>3 DEF Range
<1>7. \A k \in 1 .. Len(B) : B[k] \in T /\ ~IsPrompt(B[k])
  BY <1>4 DEF Range
<1> HIDE DEF v, T
<1>8. p \in 0 .. Len(v) /\ Len(v) = p + Len(B) /\ p \in Nat /\ Len(B) \in Nat /\ v \in Seq(T)
  BY <1>5 DEF Follows
<1>9. \A k \in 1 .. Len(v) :
        \/ k <= p /\ k \in 1 .. p /\ v[k] = A[k]
        \/ ~(k <= p) /\ k - p \in 1 .. Len(B) /\ v[k] = B[k - p]
  <2> TAKE k \in 1 .. Len(v)
  <2>1. CASE k <= p
    <3>1. k \in 1 .. Len(A)
      BY <1>8, <2>1
    <3> QED BY <1>5, <2>1, <3>1 DEF Follows
  <2>2. CASE ~(k <= p)
    <3>1. k - p \in 1 .. Len(B) /\ p + (k - p) = k
      BY <1>8, <2>2
    <3>2. v[p + (k - p)] = B[k - p]
      BY <1>5, <3>1 DEF Follows
    <3> QED BY <2>2, <3>1, <3>2
  <2> QED BY <2>1, <2>2
<1> HIDE DEF p
<1>10. \A k \in 1 .. Len(v) : v[k] \in T /\ (IsPrompt(v[k]) <=> k <= p)
  BY <1>6, <1>7, <1>9 DEF p
<1>11. Range(v) = T
  <2>1. ASSUME NEW s \in T PROVE \E k \in 1 .. Len(v) : v[k] = s
    <3>1. CASE IsPrompt(s)
      <4>1. PICK k \in DOMAIN A : A[k] = s
        BY <1>3, <3>1 DEF Range
      <4>2. k \in 1 .. Len(A) /\ k \in 1 .. Len(v)
        BY <1>3, <1>8, <4>1 DEF p
      <4> QED BY <1>5, <4>1, <4>2 DEF Follows
    <3>2. CASE ~IsPrompt(s)
      <4>1. PICK k \in DOMAIN B : B[k] = s
        BY <1>4, <3>2 DEF Range
      <4>2. k \in 1 .. Len(B) /\ Len(A) + k \in 1 .. Len(v)
        BY <1>4, <1>8, <4>1 DEF p
      <4> QED BY <1>5, <4>1, <4>2 DEF Follows
    <3> QED BY <3>1, <3>2
  <2>2. DOMAIN v = 1 .. Len(v)
    BY <1>8
  <2> QED BY <1>10, <2>1, <2>2 DEF Range
<1>12. Apart(v)
  <2>1. SUFFICES ASSUME NEW j \in 1 .. Len(v), NEW k \in 1 .. Len(v), v[j].req = v[k].req
                 PROVE  j = k
    <3>1. DOMAIN v = 1 .. Len(v)
      BY <1>8
    <3> QED BY <3>1 DEF Apart
  <2>2. PICK a \in DOMAIN sources, b \in DOMAIN sources : sources[a] = v[j] /\ sources[b] = v[k]
    BY <1>10 DEF T, Range
  <2>3. v[j] = v[k]
    BY <1>2, <1>10, <2>1, <2>2
  <2>4. w[v[j]] = w[v[k]]
    BY <2>3
  <2> HIDE DEF w
  <2>5. CASE j <= p
    <3>1. k <= p
      BY <1>10, <2>3, <2>5
    <3>2. j \in DOMAIN A /\ k \in DOMAIN A /\ A[j] = v[j] /\ A[k] = v[k]
      BY <1>3, <1>8, <1>9, <2>5, <3>1 DEF p
    <3> QED BY <1>3, <2>4, <3>2
  <2>6. CASE ~(j <= p)
    <3>1. ~(k <= p)
      BY <1>10, <2>3, <2>6
    <3>2. j - p \in DOMAIN B /\ k - p \in DOMAIN B /\ B[j - p] = v[j] /\ B[k - p] = v[k]
      BY <1>4, <1>9, <2>6, <3>1
    <3>3. j - p = k - p
      BY <1>4, <2>4, <3>2
    <3> QED BY <1>8, <3>3
  <2> QED BY <2>5, <2>6
<1> QED BY <1>8, <1>10, <1>11, <1>12 DEF Ordered, T, v, p, A, B

-----------------------------------------------------------------------------
(* Its rows.                                                               *)

TokensIn(T) == [x \in T |-> x.tokens]

LEMMA RowsAdd ==
  ASSUME NEW T, \A x \in T : x.tokens \in Nat, NEW s \in Seq(T)
  PROVE  /\ Weighs(TokensIn(T), s, WeightsOf(TokensIn(T), s), RowsUpTo(s))
         /\ TotalTokens(s) = Weight(TokensIn(T), s)
<1> DEFINE w == TokensIn(T)
<1>1. w \in [T -> Nat] /\ \A x \in T : w[x] = x.tokens
  BY DEF TokensIn
<1> HIDE DEF w
<1>2. \A k \in DOMAIN s : s[k] \in T
  OBVIOUS
<1>3. WeightsOf(w, s) = [k \in DOMAIN s |-> s[k].tokens]
  BY <1>1, <1>2 DEF WeightsOf
<1>4. Weighs(w, s, WeightsOf(w, s), Sums(WeightsOf(w, s)))
  BY <1>1, WeightAdds
<1>5. RowsUpTo(s) = Sums(WeightsOf(w, s))
  BY <1>3 DEF RowsUpTo
<1>6. TotalTokens(s) = Weight(w, s)
  BY <1>4, <1>5 DEF Weighs, TotalTokens
<1> QED BY <1>4, <1>5, <1>6 DEF w

\* f[k]: the rows of the first k sequences.
Counts(sequences, f, p) ==
  /\ f[0] = 0
  /\ \A k \in 0 .. Len(sequences) : f[k] \in Nat
  /\ \A k \in 1 .. Len(sequences) :
       /\ k - 1 \in 0 .. Len(sequences) /\ k \in 0 .. Len(sequences)
       /\ f[k] = f[k - 1] + sequences[k].tokens
  /\ \A j, k \in 0 .. Len(sequences) : j <= k => f[j] <= f[k]
  /\ \A k \in p .. Len(sequences) : f[k] = f[p] + (k - p)

LEMMA OrderedCounts ==
  ASSUME NEW sources, Packs(sources), NEW s, NEW p, Ordered(sources, s, p)
  PROVE  Counts(s, RowsUpTo(s), p)
<1> DEFINE T  == Range(sources)
           ns == WeightsOf(TokensIn(T), s)
           f  == RowsUpTo(s)
<1>1. \A x \in T : x.tokens \in Nat /\ (~IsPrompt(x) => x.tokens = 1)
  BY DEF Packs
<1>2. s \in Seq(T) /\ Len(s) \in Nat /\ \A k \in 1 .. Len(s) : s[k] \in T
  BY DEF Ordered
<1> HIDE DEF T
<1>3. Weighs(TokensIn(T), s, ns, f)
  BY <1>1, <1>2, RowsAdd
<1> HIDE DEF ns, f
<1>4. /\ ns \in Seq(Nat) /\ Len(ns) = Len(s) /\ Adds(f, ns)
      /\ \A k \in 1 .. Len(s) : ns[k] = s[k].tokens
  BY <1>2, <1>3 DEF Weighs, TokensIn
<1>5. f[0] = 0 /\ \A k \in 0 .. Len(s) : f[k] \in Nat
  BY <1>4, AddsAre
<1>6. \A k \in 1 .. Len(s) :
        k - 1 \in 0 .. Len(s) /\ k \in 0 .. Len(s) /\ f[k] = f[k - 1] + s[k].tokens
  <2> TAKE k \in 1 .. Len(s)
  <2>1. k \in 0 .. Len(s)
    BY <1>2
  <2> QED BY <1>4, <2>1, AddsAre
<1>7. \A j, k \in 0 .. Len(s) : j <= k => f[j] <= f[k]
  BY <1>4, AddsGrow
<1>8. \A k \in p .. Len(s) : f[k] = f[p] + (k - p)
  <2>1. p \in 0 .. Len(ns)
    BY <1>4 DEF Ordered
  <2>2. \A k \in p + 1 .. Len(ns) : ns[k] = 1
    <3> TAKE k \in p + 1 .. Len(ns)
    <3>1. k \in 1 .. Len(s) /\ ~(k <= p)
      BY <1>2, <1>4, <2>1
    <3>2. ~IsPrompt(s[k])
      BY <3>1 DEF Ordered
    <3> QED BY <1>1, <1>2, <1>4, <3>1, <3>2
  <2>3. ns \in Seq(Nat) /\ Adds(f, ns)
    BY <1>4
  <2>4. \A k \in p .. Len(ns) : f[k] = f[p] + (k - p)
    BY <2>1, <2>2, <2>3, AddsOnes
  <2> QED BY <1>4, <2>4
<1> QED BY <1>5, <1>6, <1>7, <1>8 DEF Counts, f

(* The rows of a batch are those of its sources, prompts first.            *)
LEMMA PackCounts ==
  ASSUME NEW sources, Packs(sources)
  PROVE  LET s == Prompts(sources) \o Decodes(sources)
             p == Len(Prompts(sources))
         IN  /\ RowsUpTo(s)[p] = TotalTokens(Prompts(sources))
             /\ RowsUpTo(s)[Len(s)] = TotalTokens(sources)
<1> DEFINE T == Range(sources)
           w == TokensIn(T)
           A == Prompts(sources)
           B == Decodes(sources)
           s == A \o B
           p == Len(A)
           f == RowsUpTo(s)
<1>1. \A x \in T : x.tokens \in Nat /\ (~IsPrompt(x) => x.tokens = 1)
  BY DEF Packs
<1>2. w \in [T -> Nat]
  BY <1>1 DEF TokensIn
<1>3. A \in Seq(T) /\ B \in Seq(T) /\ sources \in Seq(T)
      /\ Range(B) = {x \in T : ~IsPrompt(x)}
      /\ Weight(w, A) + Weight(w, B) = Weight(w, sources)
  <2> DEFINE S == {x \in T : IsPrompt(x)}
             R == {x \in T : ~IsPrompt(x)}
  <2>1. sources \in Seq(T)
    BY DEF Packs
  <2>2. A = Only(sources, S) /\ B = Only(sources, R)
    BY DEF Prompts, Decodes
  <2>3. \A x \in Range(sources) : x \in S <=> x \notin R
    OBVIOUS
  <2>6. Range(sources) \cap R = R
    OBVIOUS
  <2> HIDE DEF S, R, A, B, T, w
  <2>4. Only(sources, S) \in Seq(T) /\ Only(sources, R) \in Seq(T)
        /\ Range(Only(sources, R)) = R
    BY <2>1, <2>6, OnlyFacts
  <2>5. Weight(w, Only(sources, S)) + Weight(w, Only(sources, R)) = Weight(w, sources)
    BY <1>2, <2>1, <2>3, WeightSplits
  <2> QED BY <2>1, <2>2, <2>4, <2>5 DEF R
<1>4. Ordered(sources, s, p)
  BY PackOrders
<1>5. Counts(s, f, p)
  BY <1>4, OrderedCounts
<1> HIDE DEF A, B, w
<1>6. Follows(T, A, B, s) /\ s \in Seq(T)
  BY <1>3, Concatenated DEF Ordered
<1> HIDE DEF T, s, f
<1>7. /\ Weighs(w, A, WeightsOf(w, A), RowsUpTo(A)) /\ TotalTokens(A) = Weight(w, A)
      /\ Weighs(w, B, WeightsOf(w, B), RowsUpTo(B)) /\ TotalTokens(B) = Weight(w, B)
      /\ Weighs(w, s, WeightsOf(w, s), f)
      /\ TotalTokens(sources) = Weight(w, sources)
  BY <1>1, <1>3, <1>6, RowsAdd DEF w, f
<1>8. f[p] = TotalTokens(A)
  <2> DEFINE ns == WeightsOf(w, A)
             ms == WeightsOf(w, s)
             g  == RowsUpTo(A)
  <2>1. Weighs(w, A, ns, g) /\ Weighs(w, s, ms, f) /\ TotalTokens(A) = Weight(w, A)
    BY <1>7
  <2> HIDE DEF ns, ms, g
  <2>2. /\ ns \in Seq(Nat) /\ ms \in Seq(Nat) /\ Adds(f, ms) /\ Adds(g, ns)
        /\ p \in Nat /\ p <= Len(ns) /\ p <= Len(ms) /\ TotalTokens(A) = g[p]
    BY <1>6, <2>1 DEF Weighs, Follows
  <2>3. \A k \in 1 .. p : ms[k] = ns[k]
    <3> TAKE k \in 1 .. p
    <3>1. k \in 1 .. Len(A) /\ k \in 1 .. Len(s)
      BY <1>6 DEF Follows
    <3> QED BY SMTT(30), <1>6, <2>1, <3>1 DEF Weighs, Follows
  <2> HIDE DEF p
  <2>4. f[p] = g[p]
    BY <2>2, <2>3, AddsOnce
  <2> QED BY <2>2, <2>4
<1>9. TotalTokens(B) = Len(B) /\ Len(B) \in Nat
  <2> DEFINE ns == WeightsOf(w, B)
             g  == RowsUpTo(B)
  <2>1. Weighs(w, B, ns, g) /\ TotalTokens(B) = Weight(w, B)
    BY <1>7
  <2> HIDE DEF ns, g
  <2>2. /\ ns \in Seq(Nat) /\ Adds(g, ns) /\ Len(ns) = Len(B) /\ Len(B) \in Nat
        /\ TotalTokens(B) = g[Len(B)]
    BY <2>1 DEF Weighs
  <2>3. \A k \in 0 + 1 .. Len(ns) : ns[k] = 1
    <3> TAKE k \in 0 + 1 .. Len(ns)
    <3>1. k \in 1 .. Len(B) /\ k \in DOMAIN B
      BY <1>3, <2>2
    <3>2. B[k] \in T /\ ~IsPrompt(B[k])
      BY <1>3, <3>1 DEF Range
    <3>3. w[B[k]] = 1
      BY <1>1, <3>2 DEF w, TokensIn
    <3> QED BY <2>1, <3>1, <3>3 DEF Weighs
  <2>4. 0 \in 0 .. Len(ns) /\ Len(ns) \in 0 .. Len(ns)
    BY <2>2
  <2>5. g[Len(ns)] = g[0] + (Len(ns) - 0) /\ g[0] = 0
    BY <2>2, <2>3, <2>4, AddsOnes DEF Adds
  <2> QED BY <2>2, <2>5
<1>10. f[Len(s)] = f[p] + Len(B)
  <2>1. Len(s) \in p .. Len(s) /\ Len(s) - p = Len(B)
    BY <1>6, <1>9 DEF Follows
  <2> QED BY <1>5, <2>1 DEF Counts
<1>11. f[Len(s)] = TotalTokens(sources)
  BY <1>3, <1>7, <1>8, <1>9, <1>10
<1> QED BY <1>8, <1>11 DEF f, s, p, A, B

\* The j-th row of s, sequence k of the batch.
RowAt(s, k, j, width) ==
  [sequence |-> k,
   position |-> s.offset + j - 1,
   kv_len   |-> s.offset + j,
   table    |-> Padded(s.table, width)]

\* The j-th row of the k-th sequence, and there is no other row.
Located(sequences, rows, f, width) ==
  /\ DOMAIN rows = 1 .. f[Len(sequences)]
  /\ Len(rows) = f[Len(sequences)]
  /\ \A k \in 1 .. Len(sequences) : \A j \in 1 .. sequences[k].tokens :
       /\ f[k - 1] + j \in DOMAIN rows
       /\ rows[f[k - 1] + j] = RowAt(sequences[k], k, j, width)
  /\ \A i \in DOMAIN rows :
       \E k \in 1 .. Len(sequences) : \E j \in 1 .. sequences[k].tokens : i = f[k - 1] + j

LEMMA RowsLocated ==
  ASSUME NEW T, NEW s \in Seq(T), \A x \in T : x.tokens \in Nat,
         NEW p, Counts(s, RowsUpTo(s), p), NEW width
  PROVE  Located(s, FlattenSeq([k \in DOMAIN s |-> RowsOf(s, k, width)]), RowsUpTo(s), width)
<1> DEFINE R == {RowAt(x, k, j, width) : x \in T, k \in Nat, j \in Nat}
           t == [k \in DOMAIN s |-> RowsOf(s, k, width)]
           ns == WeightsOf(TokensIn(T), s)
           f == RowsUpTo(s)
           rows == FlattenSeq(t)
<1>1. Len(s) \in Nat /\ DOMAIN s = 1 .. Len(s) /\ \A k \in 1 .. Len(s) : s[k] \in T
  OBVIOUS
<1>2. Weighs(TokensIn(T), s, ns, f)
  BY RowsAdd
<1> HIDE DEF ns, f
<1>3. /\ ns \in Seq(Nat) /\ Len(ns) = Len(s) /\ Adds(f, ns)
      /\ \A k \in 1 .. Len(s) : ns[k] = s[k].tokens /\ s[k].tokens \in Nat
  BY <1>1, <1>2 DEF Weighs, TokensIn
<1>4. \A k \in 1 .. Len(s) : \A j \in 1 .. s[k].tokens : RowAt(s[k], k, j, width) \in R
  BY SMTT(30), <1>1, <1>3
<1> HIDE DEF R
<1>5. \A k \in 1 .. Len(s) :
        t[k] = [j \in 1 .. s[k].tokens |-> RowAt(s[k], k, j, width)]
  BY <1>1 DEF RowsOf, RowAt
<1>6. t \in Seq(Seq(R)) /\ Len(t) = Len(s) /\ \A k \in 1 .. Len(t) : Len(t[k]) = ns[k]
  <2>1. \A k \in 1 .. Len(s) : t[k] \in Seq(R) /\ Len(t[k]) = ns[k]
    <3> TAKE k \in 1 .. Len(s)
    <3> DEFINE n == s[k].tokens
               x == t[k]
    <3>1. n \in Nat /\ x = [j \in 1 .. n |-> RowAt(s[k], k, j, width)] /\ ns[k] = n
          /\ \A j \in 1 .. n : RowAt(s[k], k, j, width) \in R
      BY <1>3, <1>4, <1>5
    <3> HIDE DEF n, x
    <3>2. x \in Seq(R) /\ Len(x) = n
      BY <3>1
    <3> QED BY <3>1, <3>2 DEF x
  <2>2. t = [k \in 1 .. Len(s) |-> t[k]]
    BY <1>1
  <2> HIDE DEF t
  <2>3. t \in Seq(Seq(R)) /\ Len(t) = Len(s)
    BY <1>1, <2>1, <2>2
  <2> QED BY <2>1, <2>3
<1> HIDE DEF t
<1>7. /\ rows \in Seq(R) /\ Len(rows) = f[Len(s)]
      /\ \A k \in 1 .. Len(s) : \A j \in 1 .. ns[k] : rows[f[k - 1] + j] = t[k][j]
  <2>1. Len(ns) = Len(t) /\ \A k \in 1 .. Len(t) : Len(t[k]) = ns[k]
    BY <1>3, <1>6
  <2>2. /\ rows \in Seq(R) /\ Len(rows) = f[Len(t)]
        /\ \A k \in 1 .. Len(t) : \A j \in 1 .. ns[k] : rows[f[k - 1] + j] = t[k][j]
    <3>1. Lies(R, t, ns, f, rows)
      BY <1>3, <1>6, <2>1, FlattenAt
    <3> QED BY <3>1 DEF Lies
  <2> QED BY <1>6, <2>2
<1> HIDE DEF rows
<1>8. DOMAIN rows = 1 .. f[Len(s)]
  BY <1>7
<1>9. ASSUME NEW k \in 1 .. Len(s), NEW j \in 1 .. s[k].tokens
      PROVE  f[k - 1] + j \in DOMAIN rows /\ rows[f[k - 1] + j] = RowAt(s[k], k, j, width)
  <2>1. /\ f[k - 1] \in Nat /\ f[k] = f[k - 1] + ns[k] /\ ns[k] \in Nat /\ j \in 1 .. ns[k]
    BY SMTT(30), <1>3, AddsAre
  <2>2. f[k] <= f[Len(s)] /\ f[Len(s)] \in Nat
    <3>1. k \in 0 .. Len(ns) /\ Len(s) \in 0 .. Len(ns) /\ k <= Len(s)
      BY <1>1, <1>3
    <3> QED BY <1>3, <3>1, AddsGrow, AddsAre
  <2>3. f[k - 1] + j \in 1 .. f[Len(s)]
    BY <2>1, <2>2, Within
  <2>4. t[k][j] = RowAt(s[k], k, j, width)
    BY <1>5
  <2> QED BY <1>7, <1>8, <2>1, <2>3, <2>4
<1>10. ASSUME NEW i \in DOMAIN rows
       PROVE  \E k \in 1 .. Len(s) : \E j \in 1 .. s[k].tokens : i = f[k - 1] + j
  <2>1. i \in Nat \ {0} /\ i <= f[Len(ns)]
    <3>1. f[Len(s)] \in Nat
      <4>1. Len(s) \in 0 .. Len(ns)
        BY <1>1, <1>3
      <4> QED BY <1>3, <4>1, AddsAre
    <3> QED BY <1>3, <1>8, <3>1
  <2>2. PICK k \in 1 .. Len(ns) : f[k - 1] < i /\ i <= f[k]
    BY <1>3, <2>1, AddsReach
  <2>3. f[k - 1] \in Nat /\ f[k] = f[k - 1] + ns[k] /\ ns[k] \in Nat /\ ns[k] = s[k].tokens
    BY <1>3, AddsAre
  <2>4. i - f[k - 1] \in 1 .. s[k].tokens /\ i = f[k - 1] + (i - f[k - 1])
    BY SMTT(30), <2>1, <2>2, <2>3
  <2> QED BY <1>3, <2>2, <2>4
<1> QED BY <1>7, <1>8, <1>9, <1>10 DEF Located, rows, t, f

-----------------------------------------------------------------------------
(* The batch as a whole.                                                   *)

IsBatch(sources, batch, f, p) ==
  /\ Ordered(sources, batch.sequences, p)
  /\ Counts(batch.sequences, f, p)
  /\ Located(batch.sequences, batch.rows, f, batch.width)
  /\ f = RowsUpTo(batch.sequences)
  /\ batch.prefill = f[p]
  /\ f[Len(batch.sequences)] = TotalTokens(sources)

LEMMA PackIsBatch ==
  ASSUME NEW sources, Packs(sources)
  PROVE  /\ IsBatch(sources, Pack(sources), RowsUpTo(Pack(sources).sequences),
                    Len(Prompts(sources)))
         /\ Pack(sources).sequences = Prompts(sources) \o Decodes(sources)
         /\ Pack(sources).width = WidestTable(sources)
<1> DEFINE s == Prompts(sources) \o Decodes(sources)
           p == Len(Prompts(sources))
           T == Range(sources)
           width == WidestTable(sources)
           rows  == FlattenSeq([k \in DOMAIN s |-> RowsOf(s, k, width)])
<1>1. /\ Pack(sources).sequences = s /\ Pack(sources).rows = rows
      /\ Pack(sources).width = width /\ Pack(sources).prefill = TotalTokens(Prompts(sources))
  BY DEF Pack
<1>2. Ordered(sources, s, p)
  BY PackOrders
<1>3. Counts(s, RowsUpTo(s), p)
  BY <1>2, OrderedCounts
<1>4. s \in Seq(T) /\ \A x \in T : x.tokens \in Nat
  BY <1>2 DEF Ordered, Packs
<1>5. Located(s, rows, RowsUpTo(s), width)
  BY <1>3, <1>4, RowsLocated
<1>6. RowsUpTo(s)[p] = TotalTokens(Prompts(sources)) /\ RowsUpTo(s)[Len(s)] = TotalTokens(sources)
  BY PackCounts
<1> HIDE DEF s, p, T, width, rows
<1> QED BY <1>1, <1>2, <1>3, <1>5, <1>6 DEF IsBatch, s, p, width

-----------------------------------------------------------------------------
(* What is carried out of a plan.                                          *)

Bounded == \A i \in Indices : reqs[i].prompt \in 0 .. MaxPrompt

LEMMA PromptKept ==
  ASSUME NEW r, "prompt" \in DOMAIN r, NEW s, NEW token
  PROVE  LET c == CommitSequence(r, s)
             v == CommitSample(r, token)
         IN  /\ "prompt" \in DOMAIN c /\ c.prompt = r.prompt
             /\ "prompt" \in DOMAIN v /\ v.prompt = r.prompt
<1>1. "prompt" \in DOMAIN CommitSequence(r, s) /\ CommitSequence(r, s).prompt = r.prompt
  BY DEF CommitSequence
<1>2. "prompt" \in DOMAIN CommitSample(r, token) /\ CommitSample(r, token).prompt = r.prompt
  BY DEF CommitSample
<1> QED BY <1>1, <1>2

LEMMA PromptsStay ==
  ASSUME Inv, [Next]_vars
  PROVE  \A i \in Indices : reqs'[i].prompt = reqs[i].prompt
<1>1. /\ DOMAIN reqs = Indices
      /\ \A i \in Indices : reqs[i] \in Request /\ "prompt" \in DOMAIN reqs[i]
  <2>1. \A r \in Request : "prompt" \in DOMAIN r
    BY DEF Request
  <2> QED BY <2>1 DEF Inv, Settled
<1>2. ASSUME plan # <<>>
      PROVE  plan[at].req \in Indices
  BY <1>2 DEF Inv, PlanOK, Fits
<1>3. ASSUME NEW j \in Indices, NEW v, reqs' = [reqs EXCEPT ![j] = v], v.prompt = reqs[j].prompt
      PROVE  \A i \in Indices : reqs'[i].prompt = reqs[i].prompt
  BY <1>1, <1>3
<1>4. CASE Plan
  BY <1>4 DEF Plan
<1>5. ASSUME NEW i \in Indices, Toggle(i)
      PROVE  \A k \in Indices : reqs'[k].prompt = reqs[k].prompt
  <2> DEFINE v == [reqs[i] EXCEPT !.runnable = ~@]
  <2>1. reqs' = [reqs EXCEPT ![i] = v]
    BY <1>5 DEF Toggle
  <2>2. v.prompt = reqs[i].prompt
    BY <1>1
  <2> HIDE DEF v
  <2> QED BY <1>3, <2>1, <2>2
<1>6. ASSUME NEW token, Compute(token)
      PROVE  \A k \in Indices : reqs'[k].prompt = reqs[k].prompt
  <2> DEFINE s == plan[at]
             c == CommitSequence(reqs[s.req], s)
             v == IF s.logits THEN CommitSample(c, token) ELSE c
  <2>1. plan # <<>> /\ reqs' = [reqs EXCEPT ![s.req] = v]
    BY <1>6 DEF Compute
  <2>2. s.req \in Indices
    BY <1>2, <2>1
  <2>3. "prompt" \in DOMAIN c /\ c.prompt = reqs[s.req].prompt
    BY <1>1, <2>2, PromptKept
  <2> HIDE DEF c, s
  <2>4. v.prompt = reqs[s.req].prompt
    BY <2>3, PromptKept
  <2> HIDE DEF v
  <2> QED BY <1>3, <2>1, <2>2, <2>4
<1>7. ASSUME NEW n \in 1 .. MaxPrefillChunk, ComputeSome(n)
      PROVE  \A k \in Indices : reqs'[k].prompt = reqs[k].prompt
  <2> DEFINE s == [plan[at] EXCEPT !.tokens = n]
             v == CommitSequence(reqs[s.req], s)
  <2>1. plan # <<>> /\ reqs' = [reqs EXCEPT ![s.req] = v]
    BY <1>7 DEF ComputeSome
  <2>2. s.req = plan[at].req
    <3>1. plan[at] \in ScheduledSequence
      BY <2>1 DEF Inv, PlanOK
    <3> QED BY <3>1 DEF ScheduledSequence
  <2>3. s.req \in Indices
    BY <1>2, <2>1, <2>2
  <2> HIDE DEF s
  <2>4. v.prompt = reqs[s.req].prompt
    BY <1>1, <2>3, PromptKept
  <2> HIDE DEF v
  <2> QED BY <1>3, <2>1, <2>3, <2>4
<1>8. CASE PutOff
  BY <1>8 DEF PutOff
<1>9. CASE UNCHANGED vars
  BY <1>9 DEF vars
<1> QED BY <1>4, <1>5, <1>6, <1>7, <1>8, <1>9 DEF Next

LEMMA BoundedInvariant == Spec => [](Inv /\ Bounded)
<1>1. Init => Inv /\ Bounded
  <2>1. Init => Bounded
    BY DEF Init, Bounded, Progress, Indices
  <2> QED BY <2>1, InvInit
<1>2. Inv /\ Bounded /\ [Next]_vars => Bounded'
  BY PromptsStay DEF Bounded
<1> QED BY <1>1, <1>2, InvInvariant, PTL DEF Spec

\* What is computed of a plan for request s.req, r.
Runnable(s, r) ==
  /\ s \in ScheduledSequence
  /\ s.req \in Indices
  /\ s.tokens > 0
  /\ s.offset = r.computed
  /\ r \in Request
  /\ r.prompt <= MaxPrompt
  /\ s.offset + s.tokens <= MaxPrompt + MaxTokens
  /\ s.kind = "prompt" => /\ s.offset + s.tokens <= r.prompt
                          /\ s.logits <=> s.offset + s.tokens = r.prompt
  /\ s.kind = "decode" => /\ s.tokens = 1 /\ s.logits /\ r.outputs > 0
                          /\ s.offset = r.prompt + r.outputs - 1

\* s cut to n tokens, as Runs cuts it.
Shortened(s, n) ==
  [s EXCEPT !.tokens = n,
            !.logits = s.kind = "decode" \/ s.offset + n = reqs[s.req].prompt]

LEMMA ShortenedRuns ==
  ASSUME Inv, Bounded, NEW s \in ScheduledSequence, Fits(reqs, s), NEW n \in Nat, n <= s.tokens
  PROVE  /\ Shortened(s, n) \in ScheduledSequence
         /\ Shortened(s, n).req = s.req /\ Shortened(s, n).tokens = n
         /\ n > 0 => Runnable(Shortened(s, n), reqs[s.req])
<1> DEFINE r == reqs[s.req]
           x == Shortened(s, n)
<1>1. /\ s.req \in Indices /\ r \in Request /\ r.prompt <= MaxPrompt
      /\ Settled(r) /\ Ready(r)
      /\ s.kind = "decode" <=> PromptComplete(r)
      /\ s.kind = "decode" => s.tokens = 1
      /\ s.kind = "prompt" => s.tokens <= r.prompt - r.computed
  BY DEF Inv, Bounded, Fits, Settled
<1>2. /\ r.prompt \in Nat /\ r.computed \in Nat /\ r.outputs \in Nat
      /\ s.tokens \in Nat /\ s.kind \in {"decode", "prompt"}
  BY <1>1 DEF Request, ScheduledSequence
<1>3. s.offset = r.computed /\ s.offset \in Nat
  <2>1. s.offset = Scheduled(s.req, r, s.tokens, s.kind).offset
    BY DEF Fits
  <2> QED BY <1>2, <2>1, ScheduledFields
<1> HIDE DEF r
<1>4. x \in ScheduledSequence
  BY DEF Shortened, ScheduledSequence
<1>5. /\ x.req = s.req /\ x.tokens = n /\ x.offset = s.offset /\ x.kind = s.kind
      /\ x.logits <=> (s.kind = "decode" \/ s.offset + n = r.prompt)
  BY DEF Shortened, ScheduledSequence, r
<1> HIDE DEF x
<1>6. CASE s.kind = "decode" /\ n > 0
  <2>1. n = 1 /\ x.logits
    BY <1>1, <1>2, <1>5, <1>6
  <2>2. r.outputs > 0 /\ s.offset = r.prompt + r.outputs - 1 /\ r.outputs < MaxTokens
    BY <1>1, <1>2, <1>3, <1>6, ConfigAssumption
       DEF Settled, Ready, Valid, Available, PromptComplete
  <2>3. s.offset + n <= MaxPrompt + MaxTokens
    BY <1>1, <1>2, <2>1, <2>2, ConfigAssumption, BoundsAssumption
  <2> QED BY <1>1, <1>3, <1>4, <1>5, <1>6, <2>1, <2>2, <2>3 DEF Runnable, r, x
<1>7. CASE s.kind = "prompt" /\ n > 0
  <2>1. s.offset + n <= r.prompt
    BY <1>1, <1>2, <1>3, <1>7
  <2>2. s.offset + n <= MaxPrompt + MaxTokens
    BY <1>1, <1>2, <1>3, <2>1, ConfigAssumption, BoundsAssumption
  <2> QED BY <1>1, <1>3, <1>4, <1>5, <1>7, <2>1, <2>2 DEF Runnable, r, x
<1> QED BY <1>2, <1>4, <1>5, <1>6, <1>7 DEF x, r

LEMMA PlanTokens ==
  ASSUME NEW s \in Seq(ScheduledSequence)
  PROVE  TokensOf(s) = Weight(TokensIn(ScheduledSequence), s)
<1> DEFINE T  == ScheduledSequence
           w  == TokensIn(T)
           ns == WeightsOf(w, s)
           g  == Sums(ns)
<1>1. w \in [T -> Nat] /\ \A x \in T : w[x] = x.tokens
  BY DEF TokensIn, ScheduledSequence
<1>2. Len(s) \in Nat /\ \A k \in 1 .. Len(s) : s[k] \in T
  OBVIOUS
<1> HIDE DEF T, w
<1>3. Weighs(w, s, ns, g)
  BY <1>1, WeightAdds DEF T
<1> HIDE DEF ns, g
<1>4. /\ ns \in Seq(Nat) /\ Adds(g, ns) /\ Len(ns) = Len(s)
      /\ Weight(w, s) = g[Len(s)] /\ \A k \in 1 .. Len(s) : ns[k] = s[k].tokens
  BY <1>1, <1>2, <1>3 DEF Weighs
<1>5. PICK f : /\ TokensOf(s) = f[Len(s)]
               /\ f = [k \in 0 .. Len(s) |-> IF k = 0 THEN 0 ELSE f[k - 1] + s[k].tokens]
  BY <1>2, TokensUnfold
<1> DEFINE Same == {n \in Nat : n <= Len(s) => f[n] = g[n]}
<1>6. 0 \in Same
  <2>1. f[0] = 0
    BY <1>2, <1>5
  <2> QED BY <1>4, <2>1 DEF Adds
<1>7. ASSUME NEW n \in Nat, n \in Same
      PROVE  n + 1 \in Same
  <2> DEFINE m == n + 1
  <2>1. SUFFICES ASSUME m <= Len(s) PROVE f[m] = g[m]
    OBVIOUS
  <2>2. m \in 1 .. Len(s) /\ m \in 0 .. Len(s) /\ m # 0 /\ m - 1 = n /\ f[n] = g[n]
    BY <1>2, <1>7, <2>1
  <2> HIDE DEF m
  <2>3. f[m] = f[n] + s[m].tokens
    BY <1>5, <2>2
  <2>4. g[m] = g[n] + s[m].tokens
    BY <1>4, <2>2 DEF Adds
  <2> QED BY <2>2, <2>3, <2>4
<1>8. Len(s) \in Same
  <2> HIDE DEF Same
  <2> QED BY <1>2, <1>6, <1>7, Induction
<1> QED BY <1>2, <1>4, <1>5, <1>8 DEF w, T

IsRun(run) ==
  /\ run \in Seq(ScheduledSequence) /\ run # <<>>
  /\ Len(run) <= MaxSeqs
  /\ Apart(run)
  /\ \A s \in Range(run) : Runnable(s, reqs[s.req])
  /\ TotalTokens(run) <= MaxScheduledTokens

LEMMA RunsAreRuns ==
  ASSUME Inv, Bounded, Fresh, NEW run \in Runs
  PROVE  IsRun(run)
<1> DEFINE T == ScheduledSequence
           w == TokensIn(T)
<1>1. PICK n \in [DOMAIN plan -> 0 .. MaxPrefillChunk] :
        /\ \A k \in DOMAIN plan : n[k] <= plan[k].tokens
        /\ LET cut == [k \in DOMAIN plan |-> Shortened(plan[k], n[k])]
           IN  run = Only(cut, {s \in Range(cut) : s.tokens > 0})
  BY DEF Runs, Shortened
<1> DEFINE cut == [k \in DOMAIN plan |-> Shortened(plan[k], n[k])]
           S   == {s \in Range(cut) : s.tokens > 0}
<1>2. run = Only(cut, S) /\ run # <<>>
  BY <1>1 DEF Runs
<1>3. /\ plan \in Seq(T) /\ DOMAIN plan = 1 .. Len(plan) /\ Len(plan) \in Nat
      /\ Len(plan) <= MaxSeqs /\ TokensOf(plan) <= MaxScheduledTokens /\ Apart(plan)
      /\ \A k \in DOMAIN plan : plan[k] \in T /\ Fits(reqs, plan[k])
  BY DEF Inv, PlanOK, Fresh, Apart
<1>4. \A k \in DOMAIN plan :
        LET x == Shortened(plan[k], n[k])
        IN  /\ x \in T /\ x.req = plan[k].req /\ x.tokens = n[k]
            /\ n[k] > 0 => Runnable(x, reqs[plan[k].req])
  <2> TAKE k \in DOMAIN plan
  <2>1. n[k] \in Nat /\ n[k] <= plan[k].tokens
    BY <1>1
  <2> QED BY <1>3, <2>1, ShortenedRuns
<1>5. /\ cut \in Seq(T) /\ Len(cut) = Len(plan) /\ DOMAIN cut = DOMAIN plan
      /\ \A k \in DOMAIN plan : /\ cut[k] \in T /\ cut[k].req = plan[k].req
                                /\ cut[k].tokens = n[k]
                                /\ n[k] > 0 => Runnable(cut[k], reqs[cut[k].req])
  <2>1. \A k \in DOMAIN plan : cut[k] = Shortened(plan[k], n[k])
    OBVIOUS
  <2>2. cut = [k \in 1 .. Len(plan) |-> cut[k]]
    BY <1>3
  <2> HIDE DEF cut
  <2>3. \A k \in DOMAIN plan : cut[k] \in T
    BY <1>4, <2>1
  <2>4. cut \in Seq(T) /\ Len(cut) = Len(plan) /\ DOMAIN cut = DOMAIN plan
    BY <1>3, <2>2, <2>3
  <2> QED BY <1>4, <2>1, <2>4
<1> HIDE DEF cut
<1> DEFINE f == [s \in T |-> s.req]
<1>6. \A j, k \in DOMAIN cut : f[cut[j]] = f[cut[k]] => j = k
  BY <1>3, <1>5 DEF Apart
<1> HIDE DEF S, T
<1>7. /\ run \in Seq(T) /\ Len(run) <= Len(cut) /\ Range(run) = Range(cut) \cap S
      /\ \A j, k \in DOMAIN run : f[run[j]] = f[run[k]] => j = k
  <2> HIDE DEF f
  <2>1. cut \in Seq(T)
    BY <1>5
  <2>2. Only(cut, S) \in Seq(T) /\ Len(Only(cut, S)) <= Len(cut)
        /\ Range(Only(cut, S)) = Range(cut) \cap S
    BY <2>1, OnlyFacts
  <2>3. \A j, k \in DOMAIN Only(cut, S) : f[Only(cut, S)[j]] = f[Only(cut, S)[k]] => j = k
    BY <1>6, <2>1, OnlyFacts
  <2> QED BY <1>2, <2>2, <2>3
<1>8. Apart(run)
  <2>1. \A k \in DOMAIN run : run[k] \in T
    BY <1>7
  <2> QED BY <1>7, <2>1 DEF Apart
<1>9. \A s \in Range(run) : Runnable(s, reqs[s.req])
  <2> TAKE s \in Range(run)
  <2>1. s \in Range(cut) /\ s.tokens > 0
    BY <1>7 DEF S
  <2>2. PICK k \in DOMAIN plan : s = cut[k]
    BY <1>5, <2>1 DEF Range
  <2> QED BY <1>5, <2>1, <2>2
<1>10. TotalTokens(run) <= MaxScheduledTokens
  <2>1. w \in [T -> Nat] /\ \A x \in T : w[x] = x.tokens /\ x.tokens \in Nat
    BY DEF TokensIn, ScheduledSequence, T
  <2>2. TotalTokens(run) = Weight(w, run)
    BY <1>7, <2>1, RowsAdd
  <2> HIDE DEF w
  <2>3. Weight(w, run) <= Weight(w, cut)
    BY <1>2, <1>5, <2>1, WeightIncluded
  <2>4. Weight(w, cut) <= Weight(w, plan) /\ Weight(w, cut) \in Nat /\ Weight(w, plan) \in Nat
    <3> DEFINE ns == WeightsOf(w, cut)
               g  == Sums(ns)
               ms == WeightsOf(w, plan)
               h  == Sums(ms)
    <3>1. Weighs(w, cut, ns, g)
      BY <1>5, <2>1, WeightAdds
    <3>2. Weighs(w, plan, ms, h)
      BY <1>3, <2>1, WeightAdds
    <3> HIDE DEF ns, ms, g, h
    <3>3. /\ ns \in Seq(Nat) /\ ms \in Seq(Nat) /\ Adds(g, ns) /\ Adds(h, ms)
          /\ Len(ns) = Len(ms) /\ Len(ns) = Len(cut) /\ Len(ms) = Len(plan)
      BY <1>5, <3>1, <3>2 DEF Weighs
    <3>4. \A k \in 1 .. Len(ns) : ns[k] <= ms[k]
      <4> TAKE k \in 1 .. Len(ns)
      <4>1. k \in 1 .. Len(cut) /\ k \in 1 .. Len(plan) /\ k \in DOMAIN plan
        BY <1>3, <1>5, <3>3
      <4>2. ns[k] = w[cut[k]] /\ ms[k] = w[plan[k]]
        BY <3>1, <3>2, <4>1 DEF Weighs
      <4>3. ns[k] = n[k] /\ ms[k] = plan[k].tokens
        BY <1>3, <1>5, <2>1, <4>1, <4>2
      <4> QED BY <1>1, <4>1, <4>3
    <3>5. g[Len(ns)] <= h[Len(ns)]
      BY <3>3, <3>4, AddsLess
    <3> QED BY <3>1, <3>2, <3>3, <3>5 DEF Weighs
  <2>5. TokensOf(plan) = Weight(w, plan)
    BY <1>3, PlanTokens DEF w, T
  <2>6. Weight(w, run) \in Nat
    <3>1. Weighs(w, run, WeightsOf(w, run), Sums(WeightsOf(w, run)))
      BY <1>7, <2>1, WeightAdds
    <3> QED BY <3>1 DEF Weighs
  <2> QED BY <1>3, <2>2, <2>3, <2>4, <2>5, <2>6, ConfigAssumption
<1>11. Len(run) <= MaxSeqs
  <2>1. Len(run) \in Nat /\ Len(cut) \in Nat
    BY <1>5, <1>7
  <2> QED BY <1>3, <1>5, <1>7, <2>1, ConfigAssumption
<1> QED BY <1>2, <1>7, <1>8, <1>9, <1>10, <1>11 DEF IsRun, T

-----------------------------------------------------------------------------
(* Blocks and rows.                                                        *)

LEMMA Division ==
  ASSUME NEW p \in Nat
  PROVE  /\ p \div RowsPerBlock \in Nat /\ p % RowsPerBlock \in 0 .. RowsPerBlock - 1
         /\ p = (p \div RowsPerBlock) * RowsPerBlock + (p % RowsPerBlock)
         /\ RowsPerBlock \in Nat \ {0}
<1>1. RowsPerBlock \in Nat \ {0}
  BY PackingAssumption
<1> QED BY <1>1

LEMMA Multiples ==
  ASSUME NEW R \in Nat \ {0}, NEW a \in Int, NEW b \in Int, a < b
  PROVE  a * R + R <= b * R
  OBVIOUS

LEMMA OneQuotient ==
  ASSUME NEW R \in Nat \ {0}, NEW a \in Nat, NEW b \in Nat,
         NEW m \in 0 .. R - 1, NEW n \in 0 .. R - 1, a * R + m = b * R + n
  PROVE  a = b /\ m = n
<1>1. CASE a < b
  BY <1>1, Multiples
<1>2. CASE b < a
  BY <1>2, Multiples
<1>3. CASE a = b
  BY <1>3
<1> QED BY <1>1, <1>2, <1>3

LEMMA Quotient ==
  ASSUME NEW q \in Nat, NEW m \in 0 .. RowsPerBlock - 1
  PROVE  /\ q * RowsPerBlock + m \in Nat
         /\ (q * RowsPerBlock + m) \div RowsPerBlock = q
         /\ (q * RowsPerBlock + m) % RowsPerBlock = m
<1> DEFINE p == q * RowsPerBlock + m
<1>1. p \in Nat /\ RowsPerBlock \in Nat \ {0}
  BY PackingAssumption
<1> HIDE DEF p
<1>2. /\ p \div RowsPerBlock \in Nat /\ p % RowsPerBlock \in 0 .. RowsPerBlock - 1
      /\ p = (p \div RowsPerBlock) * RowsPerBlock + (p % RowsPerBlock)
  BY <1>1, Division
<1>3. p = q * RowsPerBlock + m
  BY DEF p
<1>4. p \div RowsPerBlock = q /\ p % RowsPerBlock = m
  BY ONLY <1>1, <1>2, <1>3, OneQuotient
<1> QED BY <1>1, <1>4 DEF p

LEMMA QuotientsGrow ==
  ASSUME NEW p \in Nat, NEW q \in Nat, p <= q
  PROVE  p \div RowsPerBlock <= q \div RowsPerBlock
<1> DEFINE R == RowsPerBlock
           a == p \div R
           b == q \div R
<1>1. /\ R \in Nat \ {0} /\ a \in Nat /\ b \in Nat /\ p % R \in 0 .. R - 1 /\ q % R \in 0 .. R - 1
      /\ p = a * R + (p % R) /\ q = b * R + (q % R)
  BY Division
<1> HIDE DEF a, b, R
<1>2. CASE b < a
  <2>1. b * R + R <= a * R
    BY <1>1, <1>2, Multiples
  <2> QED BY <1>1, <2>1
<1> QED BY <1>1, <1>2 DEF a, b, R

\* Blocks that hold e rows.
BlocksFor(e) == (e + RowsPerBlock - 1) \div RowsPerBlock

LEMMA BlocksHold ==
  ASSUME NEW e \in Nat \ {0}
  PROVE  /\ BlocksFor(e) \in Nat \ {0}
         /\ BlocksFor(e) * RowsPerBlock >= e
         /\ \A p \in 0 .. e - 1 : p \div RowsPerBlock \in Nat
                               /\ p \div RowsPerBlock + 1 \in 1 .. BlocksFor(e)
         /\ \A limit \in Nat : e <= limit => BlocksFor(e) <= limit \div RowsPerBlock + 1
<1> DEFINE R == RowsPerBlock
           n == BlocksFor(e)
           c == e + R - 1
           m == c % R
<1>1. R \in Nat \ {0} /\ c \in Nat
  BY PackingAssumption
<1>2. n \in Nat /\ m \in 0 .. R - 1 /\ c = n * R + m
  <2> HIDE DEF c
  <2>1. n = c \div R
    BY DEF BlocksFor, c
  <2> HIDE DEF n
  <2> QED BY <1>1, <2>1, Division
<1> HIDE DEF n, m, R
<1>3. c = e + R - 1
  OBVIOUS
<1> HIDE DEF c
<1>4. n * R >= e
  BY <1>1, <1>2, <1>3
<1>5. n # 0
  BY <1>1, <1>2, <1>3
<1>6. ASSUME NEW p \in 0 .. e - 1
      PROVE  p \div R \in Nat /\ p \div R + 1 \in 1 .. n
  <2> DEFINE a == p \div R
             l == p % R
  <2>1. a \in Nat /\ l \in 0 .. R - 1 /\ p = a * R + l
    BY Division DEF R
  <2> HIDE DEF a, l
  <2>2. ASSUME a >= n PROVE FALSE
    <3>1. a * R >= n * R
      BY <1>1, <1>2, <2>1, <2>2
    <3> QED BY <1>1, <1>2, <1>4, <2>1, <3>1
  <2>3. a < n
    BY <1>2, <2>1, <2>2
  <2> QED BY <1>2, <2>1, <2>3 DEF a
<1>7. ASSUME NEW limit \in Nat, e <= limit
      PROVE  n <= limit \div R + 1
  <2> DEFINE a == limit \div R
             l == limit % R
  <2>1. a \in Nat /\ l \in 0 .. R - 1 /\ limit = a * R + l
    BY Division DEF R
  <2> HIDE DEF a, l
  <2>2. CASE a + 1 < n
    <3>1. (a + 1) * R + R <= n * R /\ (a + 1) * R = a * R + R
      <4>1. (a + 1) * R + R <= n * R
        BY <1>1, <1>2, <2>1, <2>2, Multiples
      <4> QED BY <1>1, <2>1, <4>1
    <3>2. n * R \in Nat /\ a * R \in Nat
      BY <1>1, <1>2, <2>1
    <3> QED BY <1>1, <1>2, <1>3, <1>7, <2>1, <3>1, <3>2
  <2> QED BY <1>2, <2>1, <2>2 DEF a
<1> QED BY <1>2, <1>4, <1>5, <1>6, <1>7 DEF n, R

\* Whose block the b-th of request i is.
Owner(i, prefix, b) == IF b <= prefix \div RowsPerBlock THEN 0 ELSE i

\* t: the table of request i for e tokens.
IsTable(t, i, prefix, e) ==
  /\ t \in Seq(Nat) /\ Len(t) = BlocksFor(e)
  /\ \A b \in 1 .. Len(t) :
       /\ b \in 1 .. TableBlocks
       /\ t[b] = BlockOf[<<Owner(i, prefix, b), b>>] /\ t[b] \in Nat
       /\ Owner(i, prefix, b) \in 0 .. NumRequests
       /\ (t[b] + 1) * RowsPerBlock <= PhysicalRows
  /\ Len(t) \in 1 .. TableBlocks
  /\ Len(t) * RowsPerBlock >= e
  /\ \A p \in 0 .. e - 1 : /\ p \div RowsPerBlock \in Nat
                          /\ p \div RowsPerBlock + 1 \in 1 .. Len(t)

LEMMA TablesAre ==
  ASSUME NEW i \in Indices, NEW prefix \in Nat, NEW e \in Nat \ {0}, e <= MaxPrompt + MaxTokens
  PROVE  IsTable(Table(i, prefix, e), i, prefix, e)
<1> DEFINE t == Table(i, prefix, e)
           n == BlocksFor(e)
<1>1. MaxPrompt + MaxTokens \in Nat /\ TableBlocks \in Nat
  <2>1. MaxPrompt + MaxTokens \in Nat
    BY ConfigAssumption, BoundsAssumption
  <2>2. (MaxPrompt + MaxTokens) \div RowsPerBlock \in Nat
    BY <2>1, Division
  <2> QED BY <2>1, <2>2 DEF TableBlocks
<1>2. /\ n \in Nat \ {0} /\ n * RowsPerBlock >= e /\ n <= TableBlocks
      /\ \A p \in 0 .. e - 1 : p \div RowsPerBlock \in Nat /\ p \div RowsPerBlock + 1 \in 1 .. n
  BY <1>1, BlocksHold DEF TableBlocks
<1>3. t = [b \in 1 .. n |-> BlockOf[<<Owner(i, prefix, b), b>>]]
  BY DEF Table, BlocksFor, Owner
<1> HIDE DEF t, n
<1>4. \A b \in 1 .. n :
        LET o == Owner(i, prefix, b)
        IN  /\ o \in 0 .. NumRequests /\ b \in 1 .. TableBlocks
            /\ BlockOf[<<o, b>>] \in Nat /\ (BlockOf[<<o, b>>] + 1) * RowsPerBlock <= PhysicalRows
  <2> TAKE b \in 1 .. n
  <2> DEFINE o == Owner(i, prefix, b)
  <2>1. o \in 0 .. NumRequests
    BY BoundsAssumption DEF Owner, Indices
  <2>2. b \in 1 .. TableBlocks
    BY <1>1, <1>2
  <2> HIDE DEF o
  <2>3. <<o, b>> \in (0 .. NumRequests) \X (1 .. TableBlocks)
    BY <2>1, <2>2
  <2>4. BlockOf[<<o, b>>] \in Nat /\ (BlockOf[<<o, b>>] + 1) * RowsPerBlock <= PhysicalRows
    BY <2>3, StepAssumption
  <2> QED BY <2>1, <2>2, <2>4 DEF o
<1>6. \A b \in 1 .. n : t[b] = BlockOf[<<Owner(i, prefix, b), b>>]
  BY <1>3
<1>5. t \in Seq(Nat) /\ Len(t) = n
  <2>1. \A b \in 1 .. n : t[b] \in Nat
    BY <1>4, <1>6
  <2>2. n \in Nat /\ t = [b \in 1 .. n |-> t[b]]
    BY <1>2, <1>3
  <2> QED BY <2>1, <2>2, FromFunction
<1>7. Len(t) \in 1 .. TableBlocks
  BY <1>1, <1>2, <1>5
<1> QED BY <1>2, <1>4, <1>5, <1>6, <1>7 DEF IsTable, t, n

LEMMA TableAt ==
  ASSUME NEW t, NEW i, NEW prefix, NEW e \in Nat, IsTable(t, i, prefix, e), NEW p \in 0 .. e - 1
  PROVE  LET b == p \div RowsPerBlock + 1
         IN  /\ p \in Nat /\ p \div RowsPerBlock \in Nat /\ Len(t) \in Nat
             /\ b \in 1 .. Len(t) /\ p \div RowsPerBlock < Len(t)
             /\ t[b] = BlockOf[<<Owner(i, prefix, b), b>>] /\ t[b] \in Nat
             /\ (t[b] + 1) * RowsPerBlock <= PhysicalRows
<1> DEFINE a == p \div RowsPerBlock
<1>1. a \in Nat /\ a + 1 \in 1 .. Len(t) /\ p \in Nat
  BY DEF IsTable
<1>2. Len(t) \in Nat
  BY DEF IsTable
<1> HIDE DEF a
<1>3. /\ t[a + 1] = BlockOf[<<Owner(i, prefix, a + 1), a + 1>>] /\ t[a + 1] \in Nat
      /\ (t[a + 1] + 1) * RowsPerBlock <= PhysicalRows
  BY <1>1 DEF IsTable
<1>4. a < Len(t)
  BY <1>1, <1>2
<1> QED BY <1>1, <1>2, <1>3, <1>4 DEF a

(* Each row belongs to one position of one request, or of the prefix.      *)
LEMMA RowsApart ==
  ASSUME NEW i, NEW j, NEW prefix \in Nat, NEW d, NEW e, NEW t, NEW u,
         IsTable(t, i, prefix, d), IsTable(u, j, prefix, e),
         NEW p \in 0 .. d - 1, NEW q \in 0 .. e - 1, d \in Nat, e \in Nat
  PROVE  /\ PhysicalRow(t, p) \in Nat
         /\ PhysicalRow(t, p) = PhysicalRow(u, q) =>
              /\ p = q
              /\ p \div RowsPerBlock + 1 > prefix \div RowsPerBlock => i = j
         /\ i = j /\ p = q => PhysicalRow(t, p) = PhysicalRow(u, q)
<1> DEFINE R == RowsPerBlock
           a == p \div R
           m == p % R
           b == q \div R
           n == q % R
           x == Owner(i, prefix, a + 1)
           y == Owner(j, prefix, b + 1)
<1>1. /\ a \in Nat /\ b \in Nat /\ R \in Nat \ {0} /\ m \in 0 .. R - 1 /\ n \in 0 .. R - 1
      /\ p = a * R + m /\ q = b * R + n
  <2>1. p \in Nat /\ q \in Nat
    OBVIOUS
  <2> QED BY <2>1, Division
<1>2. /\ a + 1 \in 1 .. Len(t) /\ b + 1 \in 1 .. Len(u)
  BY DEF IsTable
<1>3. /\ t[a + 1] = BlockOf[<<x, a + 1>>] /\ t[a + 1] \in Nat
      /\ u[b + 1] = BlockOf[<<y, b + 1>>] /\ u[b + 1] \in Nat
      /\ x \in 0 .. NumRequests /\ y \in 0 .. NumRequests
      /\ a + 1 \in 1 .. TableBlocks /\ b + 1 \in 1 .. TableBlocks
  BY <1>2 DEF IsTable
<1>4. PhysicalRow(t, p) = t[a + 1] * R + m /\ PhysicalRow(u, q) = u[b + 1] * R + n
  BY DEF PhysicalRow
<1> HIDE DEF a, b, m, n, x, y, R
<1> DEFINE c == t[a + 1]
           z == u[b + 1]
<1>8. c \in Nat /\ z \in Nat /\ PhysicalRow(t, p) = c * R + m /\ PhysicalRow(u, q) = z * R + n
  BY <1>3, <1>4
<1> HIDE DEF c, z
<1>5. PhysicalRow(t, p) \in Nat
  BY <1>1, <1>8
<1>6. ASSUME PhysicalRow(t, p) = PhysicalRow(u, q)
      PROVE  p = q /\ (a + 1 > prefix \div RowsPerBlock => i = j)
  <2>1. t[a + 1] = u[b + 1] /\ m = n
    <3>1. c * R + m = z * R + n
      BY <1>6, <1>8
    <3>2. c = z /\ m = n
      BY ONLY <1>1, <1>8, <3>1, OneQuotient
    <3> QED BY <3>2 DEF c, z
  <2>2. /\ <<x, a + 1>> \in DOMAIN BlockOf /\ <<y, b + 1>> \in DOMAIN BlockOf
        /\ BlockOf[<<x, a + 1>>] = BlockOf[<<y, b + 1>>]
    <3>1. DOMAIN BlockOf = (0 .. NumRequests) \X (1 .. TableBlocks)
      BY StepAssumption
    <3> QED BY <1>3, <2>1, <3>1
  <2>3. <<x, a + 1>> = <<y, b + 1>>
    BY <2>2, StepAssumption
  <2>4. x = y /\ a = b
    BY <1>1, <2>3
  <2>5. p = q
    BY <1>1, <2>1, <2>4
  <2>6. a + 1 > prefix \div RowsPerBlock => i = j
    <3>1. prefix \div RowsPerBlock \in Nat
      BY Division
    <3> QED BY <1>1, <2>4, <3>1 DEF x, y, Owner
  <2> QED BY <2>5, <2>6
<1>7. ASSUME i = j, p = q
      PROVE  PhysicalRow(t, p) = PhysicalRow(u, q)
  <2>1. a = b /\ m = n /\ x = y
    BY <1>7 DEF a, b, m, n, x, y
  <2> QED BY <1>3, <1>4, <2>1
<1> QED BY <1>5, <1>6, <1>7 DEF a, R

-----------------------------------------------------------------------------
(* The inputs of a step.                                                   *)

End(x) == x.offset + x.tokens

\* A source x of a run whose requests share `prefix` tokens.
Sound(x, prefix) ==
  LET r == reqs[x.req]
  IN  /\ x.req \in Indices
      /\ r.prompt \in Nat /\ r.outputs \in Nat
      /\ x.prompt = r.prompt /\ x.prefix = prefix
      /\ prefix \in Nat /\ prefix <= x.offset /\ prefix <= x.prompt
      /\ x.offset \in Nat /\ x.tokens \in Nat \ {0} /\ End(x) \in Nat \ {0}
      /\ End(x) <= MaxPrompt + MaxTokens
      /\ IsTable(x.table, x.req, prefix, End(x))
      /\ IsPrompt(x) =>
           /\ End(x) <= x.prompt /\ x.token = NoToken
           /\ x.logits <=> End(x) = x.prompt
      /\ ~IsPrompt(x) =>
           /\ x.tokens = 1 /\ x.logits /\ r.outputs > 0
           /\ x.offset = r.prompt + r.outputs - 1
           /\ x.token = <<x.req, "output", r.outputs - 1>>

LEMMA SourceSound ==
  ASSUME NEW s, Runnable(s, reqs[s.req]), NEW prefix \in Nat,
         prefix <= reqs[s.req].computed, prefix <= reqs[s.req].prompt
  PROVE  LET x == Source(s, prefix)
         IN  /\ x.req = s.req /\ x.kind = s.kind /\ x.offset = s.offset
             /\ x.tokens = s.tokens /\ x.logits = s.logits
             /\ Sound(x, prefix)
<1> DEFINE r == reqs[s.req]
           x == Source(s, prefix)
           e == s.offset + s.tokens
           index == s.offset - r.prompt
<1>1. /\ s.req \in Indices /\ s.tokens \in Nat \ {0} /\ s.offset \in Nat
      /\ s.offset = r.computed /\ s.kind \in {"decode", "prompt"}
      /\ r.prompt \in Nat /\ r.outputs \in Nat
      /\ e <= MaxPrompt + MaxTokens
      /\ s.kind = "prompt" => e <= r.prompt /\ (s.logits <=> e = r.prompt)
      /\ s.kind = "decode" => /\ s.tokens = 1 /\ s.logits /\ r.outputs > 0
                              /\ s.offset = r.prompt + r.outputs - 1
  BY DEF Runnable, ScheduledSequence, Request
<1> HIDE DEF r
<1>2. /\ x.req = s.req /\ x.kind = s.kind /\ x.offset = s.offset
      /\ x.tokens = s.tokens /\ x.logits = s.logits
      /\ x.prompt = r.prompt /\ x.prefix = prefix /\ x.table = Table(s.req, prefix, e)
      /\ x.token = IF s.kind = "decode" /\ index \in 0 .. r.outputs - 1
                   THEN <<s.req, "output", index>> ELSE NoToken
  BY DEF Source, r
<1> HIDE DEF x
<1>3. IsTable(x.table, x.req, prefix, e)
  <2>1. e \in Nat \ {0}
    BY <1>1
  <2> HIDE DEF e
  <2> QED BY <1>1, <1>2, <2>1, TablesAre
<1>4. s.kind = "decode" => x.token = <<s.req, "output", r.outputs - 1>>
  <2>1. s.kind = "decode" => index = r.outputs - 1 /\ index \in 0 .. r.outputs - 1
    BY <1>1
  <2> QED BY <1>2, <2>1
<1>5. s.kind = "prompt" => x.token = NoToken
  BY <1>2
<1>6. End(x) = e /\ e \in Nat \ {0}
  BY <1>1, <1>2 DEF End
<1> HIDE DEF e, index
<1>7. IsPrompt(x) <=> s.kind = "prompt"
  BY <1>2 DEF IsPrompt
<1>8. Sound(x, prefix)
  <2>1. reqs[x.req] = r
    BY <1>2 DEF r
  <2>2. prefix <= x.offset /\ prefix <= x.prompt
    BY <1>1, <1>2 DEF r
  <2>3. IsPrompt(x) =>
           /\ End(x) <= x.prompt /\ x.token = NoToken
           /\ x.logits <=> End(x) = x.prompt
    BY <1>1, <1>2, <1>5, <1>6, <1>7 DEF e
  <2>4. ~IsPrompt(x) =>
           /\ x.tokens = 1 /\ x.logits /\ r.outputs > 0
           /\ x.offset = r.prompt + r.outputs - 1
           /\ x.token = <<x.req, "output", r.outputs - 1>>
    BY <1>1, <1>2, <1>4, <1>7
  <2>5. End(x) <= MaxPrompt + MaxTokens
    BY <1>1, <1>6 DEF e
  <2> QED BY <1>1, <1>2, <1>3, <1>6, <2>1, <2>2, <2>3, <2>4, <2>5 DEF Sound
<1> QED BY <1>2, <1>8 DEF x

\* The inputs of a step that carries out `run`.
IsInput(sources, run, prefix) ==
  /\ Packs(sources)
  /\ Len(sources) = Len(run) /\ Len(run) \in Nat \ {0}
  /\ \A k \in 1 .. Len(run) :
       /\ run[k] \in Range(run) /\ sources[k] \in Range(sources)
       /\ sources[k].req = run[k].req /\ sources[k].kind = run[k].kind
       /\ sources[k].offset = run[k].offset /\ sources[k].tokens = run[k].tokens
       /\ sources[k].logits = run[k].logits
  /\ \A x \in Range(sources) : Sound(x, prefix)
  /\ TotalTokens(sources) = TotalTokens(run)

LEMMA SourcesAre ==
  ASSUME NEW run, IsRun(run), NEW prefix \in SharedPrefixes(run)
  PROVE  IsInput(Sources(run, prefix), run, prefix)
<1> DEFINE sources == Sources(run, prefix)
<1>1. /\ run \in Seq(ScheduledSequence) /\ Len(run) \in Nat \ {0} /\ DOMAIN run = 1 .. Len(run)
      /\ Apart(run) /\ \A k \in 1 .. Len(run) : run[k] \in Range(run)
  BY DEF IsRun, Range
<1>2. \A k \in 1 .. Len(run) : Runnable(run[k], reqs[run[k].req])
  BY <1>1 DEF IsRun
<1>3. /\ prefix \in Nat
      /\ \A k \in 1 .. Len(run) : /\ prefix <= reqs[run[k].req].computed
                                 /\ prefix <= reqs[run[k].req].prompt
  BY <1>1 DEF SharedPrefixes
<1>4. \A k \in 1 .. Len(run) :
        LET x == Source(run[k], prefix)
        IN  /\ x.req = run[k].req /\ x.kind = run[k].kind /\ x.offset = run[k].offset
            /\ x.tokens = run[k].tokens /\ x.logits = run[k].logits
            /\ Sound(x, prefix)
  BY <1>2, <1>3, SourceSound
<1>5. sources = [k \in 1 .. Len(run) |-> Source(run[k], prefix)]
  BY <1>1 DEF Sources
<1> HIDE DEF sources
<1>6. DOMAIN sources = 1 .. Len(run) /\ \A k \in 1 .. Len(run) : sources[k] \in Range(sources)
  BY <1>5 DEF Range
<1>7. sources \in Seq(Range(sources)) /\ Len(sources) = Len(run)
  <2>1. sources = [k \in 1 .. Len(run) |-> sources[k]]
    BY <1>5
  <2> QED BY <1>1, <1>6, <2>1, FromFunction
<1>8. \A k \in 1 .. Len(run) :
        /\ sources[k].req = run[k].req /\ sources[k].kind = run[k].kind
        /\ sources[k].offset = run[k].offset /\ sources[k].tokens = run[k].tokens
        /\ sources[k].logits = run[k].logits
        /\ Sound(sources[k], prefix)
  BY <1>4, <1>5
<1>9. \A x \in Range(sources) : Sound(x, prefix)
  BY <1>6, <1>8 DEF Range
<1>10. Packs(sources)
  <2>1. Apart(sources)
    BY <1>1, <1>6, <1>8 DEF Apart
  <2>2. \A x \in Range(sources) : x.tokens \in Nat \ {0} /\ (~IsPrompt(x) => x.tokens = 1)
    BY <1>9 DEF Sound
  <2> QED BY <1>7, <2>1, <2>2 DEF Packs
<1>11. TotalTokens(sources) = TotalTokens(run)
  <2>1. [k \in DOMAIN sources |-> sources[k].tokens] = [k \in DOMAIN run |-> run[k].tokens]
    BY <1>1, <1>6, <1>8
  <2> QED BY <1>7, <2>1 DEF TotalTokens, RowsUpTo
<1> QED BY <1>1, <1>6, <1>7, <1>8, <1>9, <1>10, <1>11 DEF IsInput, sources

LEMMA WidestIsWide ==
  ASSUME NEW sources, NEW run, NEW prefix, IsInput(sources, run, prefix)
  PROVE  /\ WidestTable(sources) \in 1 .. TableBlocks
         /\ \A x \in Range(sources) : Len(x.table) \in 1 .. WidestTable(sources)
<1> DEFINE L == {Len(x.table) : x \in Range(sources)}
<1>1. \A x \in Range(sources) : Len(x.table) \in 1 .. TableBlocks
  BY DEF IsInput, Sound, IsTable
<1>2. L \in SUBSET Nat /\ L # {}
  <2>0. \A x \in Range(sources) : Len(x.table) \in Nat
    BY <1>1
  <2>1. 1 \in 1 .. Len(run)
    BY DEF IsInput
  <2>2. sources[1] \in Range(sources)
    BY <2>1 DEF IsInput
  <2> QED BY <2>0, <2>2
<1>3. TableBlocks \in Nat
  <2>1. MaxPrompt + MaxTokens \in Nat
    BY ConfigAssumption, BoundsAssumption
  <2>2. (MaxPrompt + MaxTokens) \div RowsPerBlock \in Nat
    BY <2>1, Division
  <2> QED BY <2>2 DEF TableBlocks
<1>4. \A n \in L : n \in 1 .. TableBlocks /\ n <= TableBlocks
  BY <1>1, <1>3
<1>5. WidestTable(sources) = Max(L)
  BY DEF WidestTable
<1>6. \A x \in Range(sources) : Len(x.table) \in L
  OBVIOUS
<1> HIDE DEF L
<1>7. Max(L) \in L /\ \A n \in L : n <= Max(L)
  BY <1>2, <1>3, <1>4, Greatest
<1> QED BY <1>3, <1>4, <1>5, <1>6, <1>7

LEMMA ProductsGrow ==
  ASSUME NEW a \in Nat, NEW b \in Nat, NEW c \in Nat, NEW d \in Nat, a <= c, b <= d
  PROVE  a * b <= c * d
<1>1. a * b <= c * b
  OBVIOUS
<1>2. c * b <= c * d
  OBVIOUS
<1>3. a * b \in Nat /\ c * b \in Nat /\ c * d \in Nat
  OBVIOUS
<1> QED BY <1>1, <1>2, <1>3

LEMMA SourcesPackable ==
  ASSUME NEW sources, NEW run, NEW prefix, IsInput(sources, run, prefix), IsRun(run)
  PROVE  Packable(sources)
<1>1. sources # <<>> /\ \A j, k \in DOMAIN sources : sources[j].req = sources[k].req => j = k
  BY DEF IsInput, Packs, Apart
<1>2. \A x \in Range(sources) : ValidSource(x)
  <2> TAKE x \in Range(sources)
  <2>1. Sound(x, prefix)
    BY DEF IsInput
  <2>2. x.offset >= 0 /\ x.tokens > 0
    BY <2>1 DEF Sound
  <2>3. IsPrompt(x) => /\ x.offset >= x.prefix /\ x.offset + x.tokens <= x.prompt
                       /\ x.token = NoToken
    BY <2>1 DEF Sound, End
  <2>4. ~IsPrompt(x) => x.tokens = 1 /\ x.offset >= x.prompt /\ x.token # NoToken
    <3>1. SUFFICES ASSUME ~IsPrompt(x)
                   PROVE  x.tokens = 1 /\ x.offset >= x.prompt /\ x.token # NoToken
      OBVIOUS
    <3>2. x.token = <<x.req, "output", reqs[x.req].outputs - 1>>
      BY <2>1, <3>1 DEF Sound
    <3>3. x.token # NoToken
      BY <3>2 DEF NoToken
    <3> QED BY <2>1, <3>1, <3>3 DEF Sound
  <2>5. ASSUME NEW p \in Positions(x)
        PROVE  /\ p \div RowsPerBlock < Len(x.table)
               /\ x.table[p \div RowsPerBlock + 1] >= 0
    <3> DEFINE u == x.table
               e == End(x)
    <3>1. p \in 0 .. e - 1 /\ e \in Nat
      BY <2>1 DEF Sound, Positions, End
    <3>2. IsTable(u, x.req, prefix, e)
      BY <2>1 DEF Sound
    <3> HIDE DEF u, e
    <3>3. p \div RowsPerBlock < Len(u) /\ u[p \div RowsPerBlock + 1] \in Nat
      BY <3>1, <3>2, TableAt
    <3> QED BY <3>3 DEF u
  <2> QED BY <2>2, <2>3, <2>4, <2>5 DEF ValidSource
<1>3. /\ TotalTokens(sources) \in Nat /\ TotalTokens(sources) <= MaxScheduledTokens
  <2>1. TotalTokens(sources) \in Nat
    <3> DEFINE T == Range(sources)
               w == TokensIn(T)
    <3>1. sources \in Seq(T) /\ \A x \in T : x.tokens \in Nat
      BY DEF IsInput, Packs
    <3> HIDE DEF T
    <3>2. Weighs(w, sources, WeightsOf(w, sources), RowsUpTo(sources)) /\ TotalTokens(sources) = Weight(w, sources)
      BY <3>1, RowsAdd
    <3> QED BY <3>2 DEF Weighs
  <2> QED BY <2>1 DEF IsInput, IsRun
<1>4. TotalTokens(sources) <= MaxPackedTokens
  BY <1>3, StepAssumption, ConfigAssumption, PackingAssumption
<1> DEFINE W == WidestTable(sources)
           N == TotalTokens(sources)
<1>5. W \in Nat /\ W > 0 /\ W <= TableBlocks /\ TableBlocks \in Nat
  <2>1. MaxPrompt + MaxTokens \in Nat
    BY ConfigAssumption, BoundsAssumption
  <2>2. (MaxPrompt + MaxTokens) \div RowsPerBlock \in Nat
    BY <2>1, Division
  <2>3. TableBlocks \in Nat
    BY <2>2 DEF TableBlocks
  <2> QED BY <2>3, WidestIsWide
<1>6. N * W <= MaxTableEntries
  <2> HIDE DEF N, W
  <2>1. N \in Nat /\ N <= MaxScheduledTokens /\ MaxScheduledTokens \in Nat
    BY <1>3, ConfigAssumption DEF N
  <2>2. N * W <= MaxScheduledTokens * TableBlocks
    BY <1>5, <2>1, ProductsGrow
  <2>3. MaxScheduledTokens * TableBlocks <= MaxTableEntries
    BY StepAssumption
  <2>4. N * W \in Nat /\ MaxScheduledTokens * TableBlocks \in Nat /\ MaxTableEntries \in Nat
    BY <1>5, <2>1, PackingAssumption
  <2> QED BY <2>2, <2>3, <2>4
<1> QED BY <1>1, <1>2, <1>4, <1>5, <1>6 DEF Packable

-----------------------------------------------------------------------------
(* The rows of a step.                                                     *)

\* A batch that carries out `run`; p of its sequences are prompts, and the
\* first k have f[k] rows.
IsStep(sources, run, prefix, batch, f, p) ==
  /\ IsRun(run)
  /\ IsInput(sources, run, prefix)
  /\ IsBatch(sources, batch, f, p)
  /\ batch.width \in Nat
  /\ \A x \in Range(sources) : Len(x.table) \in 1 .. batch.width
  /\ batch.selected = [n \in DOMAIN Asking(batch.sequences) |-> f[Asking(batch.sequences)[n]]]

LEMMA StepIs ==
  ASSUME Inv, Bounded, Fresh, NEW run \in Runs, NEW prefix \in SharedPrefixes(run)
  PROVE  LET sources == Sources(run, prefix)
             batch   == Pack(sources)
         IN  IsStep(sources, run, prefix, batch, RowsUpTo(batch.sequences), Len(Prompts(sources)))
<1> DEFINE sources == Sources(run, prefix)
           batch   == Pack(sources)
<1>1. IsRun(run)
  BY RunsAreRuns
<1>2. IsInput(sources, run, prefix)
  BY <1>1, SourcesAre
<1> HIDE DEF sources
<1>3. IsBatch(sources, batch, RowsUpTo(batch.sequences), Len(Prompts(sources)))
      /\ batch.width = WidestTable(sources)
  BY <1>2, PackIsBatch DEF IsInput
<1>4. /\ batch.width \in Nat
      /\ \A x \in Range(sources) : Len(x.table) \in 1 .. batch.width
  BY <1>2, <1>3, WidestIsWide
<1>5. batch.selected = [n \in DOMAIN Asking(batch.sequences) |->
                          RowsUpTo(batch.sequences)[Asking(batch.sequences)[n]]]
  BY DEF Pack
<1> HIDE DEF batch
<1> QED BY <1>1, <1>2, <1>3, <1>4, <1>5 DEF IsStep, batch, sources

\* Row i is the j-th of sequence k.
IsRow(sources, prefix, batch, f, p, i, k, j) ==
  LET s == batch.sequences[k]
      r == batch.rows[i]
  IN  /\ k \in 1 .. Len(batch.sequences) /\ j \in 1 .. s.tokens /\ i \in DOMAIN batch.rows
      /\ f[k - 1] \in Nat /\ i = f[k - 1] + j /\ f[k] \in Nat /\ i <= f[k]
      /\ s \in Range(sources) /\ Sound(s, prefix)
      /\ r = RowAt(s, k, j, batch.width)
      /\ r.position \in 0 .. End(s) - 1
      /\ IsPrompt(s) <=> k <= p
      /\ i <= f[p] <=> IsPrompt(s)
      /\ ~IsPrompt(s) => j = 1 /\ i = f[p] + (k - p)

LEMMA RowsOfSequences ==
  ASSUME NEW sources, NEW run, NEW prefix, NEW batch, NEW f, NEW p,
         IsStep(sources, run, prefix, batch, f, p)
  PROVE  /\ \A k \in 1 .. Len(batch.sequences) : \A j \in 1 .. batch.sequences[k].tokens :
              IsRow(sources, prefix, batch, f, p, f[k - 1] + j, k, j)
         /\ \A i \in DOMAIN batch.rows :
              \E k \in 1 .. Len(batch.sequences) : \E j \in 1 .. batch.sequences[k].tokens :
                IsRow(sources, prefix, batch, f, p, i, k, j)
<1> DEFINE q == batch.sequences
<1>1. /\ Ordered(sources, q, p) /\ Counts(q, f, p) /\ Located(q, batch.rows, f, batch.width)
      /\ IsInput(sources, run, prefix)
  BY DEF IsStep, IsBatch
<1> HIDE DEF q
<1>2. /\ Len(q) \in Nat /\ p \in 0 .. Len(q) /\ p \in Nat /\ f[p] \in Nat
      /\ \A k \in 1 .. Len(q) : q[k] \in Range(sources)
  BY <1>1 DEF Ordered, Counts
<1>3. ASSUME NEW k \in 1 .. Len(q), NEW j \in 1 .. q[k].tokens
      PROVE  IsRow(sources, prefix, batch, f, p, f[k - 1] + j, k, j)
  <2> DEFINE s == q[k]
             i == f[k - 1] + j
  <2>1. s \in Range(sources) /\ Sound(s, prefix)
    BY <1>1, <1>2 DEF IsInput
  <2>2. /\ f[k - 1] \in Nat /\ f[k] \in Nat /\ f[k] = f[k - 1] + s.tokens
        /\ k - 1 \in 0 .. Len(q) /\ k \in 0 .. Len(q)
    BY <1>1 DEF Counts
  <2>3. i \in DOMAIN batch.rows /\ batch.rows[i] = RowAt(s, k, j, batch.width)
    BY <1>1 DEF Located
  <2>4. s.tokens \in Nat /\ s.offset \in Nat /\ (~IsPrompt(s) => s.tokens = 1)
    BY <2>1 DEF Sound
  <2>5. IsPrompt(s) <=> k <= p
    BY <1>1 DEF Ordered
  <2>6. k <= p => f[k] <= f[p]
    BY <1>1, <1>2, <2>2 DEF Counts
  <2>7. ~(k <= p) => f[k - 1] = f[p] + ((k - 1) - p)
    <3>1. SUFFICES ASSUME ~(k <= p) PROVE f[k - 1] = f[p] + ((k - 1) - p)
      OBVIOUS
    <3>2. k - 1 \in p .. Len(q)
      BY <1>2, <3>1
    <3> QED BY <1>1, <3>2 DEF Counts
  <2>8. batch.rows[i].position \in 0 .. End(s) - 1
    <3>1. batch.rows[i].position = s.offset + j - 1
      BY <2>3 DEF RowAt
    <3> QED BY <2>4, <3>1 DEF End
  <2> DEFINE a == f[k - 1]
             b == f[k]
             c == f[p]
             n == s.tokens
  <2>9. /\ a \in Nat /\ b \in Nat /\ c \in Nat /\ n \in Nat /\ j \in 1 .. n /\ b = a + n /\ i = a + j
        /\ k <= p => b <= c
        /\ ~(k <= p) => a = c + ((k - 1) - p)
        /\ ~(k <= p) => n = 1
    BY <1>2, <2>2, <2>4, <2>5, <2>6, <2>7
  <2> HIDE DEF a, b, c, n, i, s
  <2>10. i <= b /\ (i <= c <=> k <= p) /\ (~(k <= p) => j = 1 /\ i = c + (k - p))
    <3>1. i <= b
      BY ONLY <2>9, SMT
    <3>2. CASE k <= p
      BY ONLY <2>9, <3>2, SMT
    <3>3. CASE ~(k <= p)
      <4>1. a = c + ((k - 1) - p) /\ n = 1 /\ k \in Nat /\ p \in Nat /\ k > p
        BY <1>2, <2>9, <3>3
      <4> QED BY ONLY <2>9, <3>1, <3>3, <4>1, SMT
    <3> QED BY <3>1, <3>2, <3>3
  <2> QED BY <2>1, <2>2, <2>3, <2>5, <2>8, <2>10 DEF IsRow, q, s, i, a, b, c, n
<1>4. ASSUME NEW i \in DOMAIN batch.rows
      PROVE  \E k \in 1 .. Len(q) : \E j \in 1 .. q[k].tokens :
               IsRow(sources, prefix, batch, f, p, i, k, j)
  <2>1. PICK k \in 1 .. Len(q) : \E j \in 1 .. q[k].tokens : i = f[k - 1] + j
    BY <1>1 DEF Located
  <2>2. PICK j \in 1 .. q[k].tokens : i = f[k - 1] + j
    BY <2>1
  <2> QED BY <1>3, <2>2
<1> QED BY <1>3, <1>4 DEF q

LEMMA OneSequence ==
  ASSUME NEW q, NEW f, NEW p, Counts(q, f, p), Len(q) \in Nat,
         NEW k \in 1 .. Len(q), NEW l \in 1 .. Len(q), NEW i \in Nat,
         f[k - 1] < i, i <= f[k], f[l - 1] < i, i <= f[l]
  PROVE  k = l
<1>1. /\ f[k - 1] \in Nat /\ f[k] \in Nat /\ f[l - 1] \in Nat /\ f[l] \in Nat
      /\ k - 1 \in 0 .. Len(q) /\ k \in 0 .. Len(q) /\ l - 1 \in 0 .. Len(q) /\ l \in 0 .. Len(q)
  BY DEF Counts
<1>2. CASE k < l
  <2>1. f[k] <= f[l - 1]
    <3>1. k <= l - 1
      BY <1>2
    <3> QED BY <1>1, <3>1 DEF Counts
  <2> QED BY <1>1, <2>1
<1>3. CASE l < k
  <2>1. f[l] <= f[k - 1]
    <3>1. l <= k - 1
      BY <1>3
    <3> QED BY <1>1, <3>1 DEF Counts
  <2> QED BY <1>1, <2>1
<1> QED BY <1>2, <1>3

\* The source of sequence k is that of a sequence of the run, and the other
\* way round.
LEMMA SequencesOfRun ==
  ASSUME NEW sources, NEW run, NEW prefix, NEW batch, NEW f, NEW p,
         IsStep(sources, run, prefix, batch, f, p)
  PROVE  /\ \A k \in 1 .. Len(batch.sequences) : \E s \in Range(run) :
              LET x == batch.sequences[k]
              IN  /\ x.req = s.req /\ x.kind = s.kind /\ x.offset = s.offset
                  /\ x.tokens = s.tokens /\ x.logits = s.logits
         /\ \A s \in Range(run) : \E k \in 1 .. Len(batch.sequences) :
              LET x == batch.sequences[k]
              IN  /\ x.req = s.req /\ x.kind = s.kind /\ x.offset = s.offset
                  /\ x.tokens = s.tokens /\ x.logits = s.logits
<1> DEFINE q == batch.sequences
<1>1. /\ q \in Seq(Range(sources)) /\ Range(q) = Range(sources)
      /\ sources \in Seq(Range(sources)) /\ run \in Seq(ScheduledSequence)
      /\ Len(sources) = Len(run)
  BY DEF IsStep, IsBatch, Ordered, IsInput, IsRun, Packs
<1> HIDE DEF q
<1>2. DOMAIN q = 1 .. Len(q) /\ DOMAIN sources = 1 .. Len(run) /\ DOMAIN run = 1 .. Len(run)
  BY <1>1
<1>3. \A m \in 1 .. Len(run) :
        /\ run[m] \in Range(run) /\ sources[m] \in Range(sources)
        /\ sources[m].req = run[m].req /\ sources[m].kind = run[m].kind
        /\ sources[m].offset = run[m].offset /\ sources[m].tokens = run[m].tokens
        /\ sources[m].logits = run[m].logits
  BY DEF IsStep, IsInput
<1>4. \A k \in 1 .. Len(q) : \E m \in 1 .. Len(run) : q[k] = sources[m]
  BY <1>1, <1>2 DEF Range
<1>5. \A m \in 1 .. Len(run) : \E k \in 1 .. Len(q) : q[k] = sources[m]
  <2> TAKE m \in 1 .. Len(run)
  <2>1. sources[m] \in Range(q)
    BY <1>1, <1>3
  <2> QED BY <1>2, <2>1 DEF Range
<1>6. \A s \in Range(run) : \E m \in 1 .. Len(run) : s = run[m]
  BY <1>2 DEF Range
<1>7. ASSUME NEW k \in 1 .. Len(q)
      PROVE  \E s \in Range(run) : /\ q[k].req = s.req /\ q[k].kind = s.kind
                                 /\ q[k].offset = s.offset /\ q[k].tokens = s.tokens
                                 /\ q[k].logits = s.logits
  <2>1. PICK m \in 1 .. Len(run) : q[k] = sources[m]
    BY <1>4
  <2>2. run[m] \in Range(run)
    BY <1>3
  <2> QED BY <1>3, <2>1, <2>2
<1>8. ASSUME NEW s \in Range(run)
      PROVE  \E k \in 1 .. Len(q) : /\ q[k].req = s.req /\ q[k].kind = s.kind
                                  /\ q[k].offset = s.offset /\ q[k].tokens = s.tokens
                                  /\ q[k].logits = s.logits
  <2>1. PICK m \in 1 .. Len(run) : s = run[m]
    BY <1>6
  <2>2. PICK k \in 1 .. Len(q) : q[k] = sources[m]
    BY <1>5
  <2> QED BY <1>3, <2>1, <2>2
<1> QED BY <1>7, <1>8 DEF q

\* Where row i belongs.
Place(batch, i) == <<batch.sequences[batch.rows[i].sequence].req, batch.rows[i].position>>

LEMMA PlaceOfRow ==
  ASSUME NEW sources, NEW prefix, NEW batch, NEW f, NEW p, NEW i, NEW k, NEW j,
         IsRow(sources, prefix, batch, f, p, i, k, j)
  PROVE  /\ batch.rows[i].sequence = k
         /\ batch.rows[i].position = batch.sequences[k].offset + j - 1
         /\ Place(batch, i) = <<batch.sequences[k].req, batch.sequences[k].offset + j - 1>>
  BY DEF IsRow, RowAt, Place

LEMMA EveryPositionOnce ==
  ASSUME NEW sources, NEW run, NEW prefix, NEW batch, NEW f, NEW p,
         IsStep(sources, run, prefix, batch, f, p)
  PROVE  /\ {Place(batch, i) : i \in DOMAIN batch.rows}
              = UNION {{<<s.req, m>> : m \in Positions(s)} : s \in Range(run)}
         /\ Len(batch.rows) = TotalTokens(run)
<1> DEFINE q == batch.sequences
           U == UNION {{<<s.req, m>> : m \in Positions(s)} : s \in Range(run)}
<1>1. ASSUME NEW i \in DOMAIN batch.rows
      PROVE  Place(batch, i) \in U
  <2>1. PICK k \in 1 .. Len(q) : \E j \in 1 .. q[k].tokens : IsRow(sources, prefix, batch, f, p, i, k, j)
    BY RowsOfSequences
  <2>2. PICK j \in 1 .. q[k].tokens : IsRow(sources, prefix, batch, f, p, i, k, j)
    BY <2>1
  <2>3. PICK s \in Range(run) : q[k].req = s.req /\ q[k].offset = s.offset /\ q[k].tokens = s.tokens
    BY SequencesOfRun
  <2>4. Place(batch, i) = <<q[k].req, q[k].offset + j - 1>>
    BY <2>2, PlaceOfRow
  <2>5. q[k].offset \in Nat /\ q[k].tokens \in Nat
    BY <2>2 DEF IsRow, Sound
  <2>6. s.offset + j - 1 \in Positions(s)
    BY <2>3, <2>5 DEF Positions
  <2> QED BY <2>3, <2>4, <2>6
<1>2. ASSUME NEW s \in Range(run), NEW m \in Positions(s)
      PROVE  <<s.req, m>> \in {Place(batch, i) : i \in DOMAIN batch.rows}
  <2>1. PICK k \in 1 .. Len(q) : q[k].req = s.req /\ q[k].offset = s.offset /\ q[k].tokens = s.tokens
    BY SequencesOfRun
  <2> DEFINE j == m - s.offset + 1
  <2>2. q[k].offset \in Nat /\ q[k].tokens \in Nat
    <3>1. q[k] \in Range(sources) /\ \A x \in Range(sources) : Sound(x, prefix)
      BY DEF IsStep, IsBatch, Ordered, IsInput
    <3> QED BY <3>1 DEF Sound
  <2>3. j \in 1 .. q[k].tokens /\ q[k].offset + j - 1 = m
    BY <2>1, <2>2 DEF Positions
  <2> HIDE DEF j
  <2>4. IsRow(sources, prefix, batch, f, p, f[k - 1] + j, k, j)
    BY <2>3, RowsOfSequences
  <2>5. f[k - 1] + j \in DOMAIN batch.rows
    BY <2>4 DEF IsRow
  <2>6. Place(batch, f[k - 1] + j) = <<s.req, m>>
    BY <2>1, <2>3, <2>4, PlaceOfRow
  <2> QED BY <2>5, <2>6
<1>3. Len(batch.rows) = TotalTokens(run)
  BY DEF IsStep, IsBatch, Located, IsInput
<1> QED BY <1>1, <1>2, <1>3

-----------------------------------------------------------------------------
(* What the step computes.                                                 *)

\* The k-th sequence of a batch.
LEMMA SequenceOfStep ==
  ASSUME NEW sources, NEW run, NEW prefix, NEW batch, NEW f, NEW p,
         IsStep(sources, run, prefix, batch, f, p), NEW k \in 1 .. Len(batch.sequences)
  PROVE  LET x == batch.sequences[k]
         IN  /\ x \in Range(sources) /\ Sound(x, prefix)
             /\ IsPrompt(x) <=> k <= p
             /\ k - 1 \in 0 .. Len(batch.sequences) /\ k \in 0 .. Len(batch.sequences)
             /\ f[k - 1] \in Nat /\ f[k] \in Nat /\ f[k] = f[k - 1] + x.tokens
             /\ p \in 0 .. Len(batch.sequences) /\ Len(batch.sequences) \in Nat
             /\ f[p] \in Nat /\ batch.prefill = f[p]
             /\ k <= p => f[k] <= f[p]
             /\ k \in Nat /\ p \in Nat
<1> DEFINE q == batch.sequences
<1>1. /\ Ordered(sources, q, p) /\ Counts(q, f, p) /\ IsInput(sources, run, prefix)
      /\ batch.prefill = f[p]
  BY DEF IsStep, IsBatch
<1> HIDE DEF q
<1>2. /\ Len(q) \in Nat /\ p \in 0 .. Len(q) /\ p \in Nat /\ f[p] \in Nat
      /\ q[k] \in Range(sources) /\ k \in 1 .. Len(q) /\ k \in Nat
  BY <1>1 DEF Ordered, Counts, q
<1>3. Sound(q[k], prefix)
  BY <1>1, <1>2 DEF IsInput
<1>4. IsPrompt(q[k]) <=> k <= p
  BY <1>1, <1>2 DEF Ordered
<1>5. /\ f[k - 1] \in Nat /\ f[k] \in Nat /\ f[k] = f[k - 1] + q[k].tokens
      /\ k - 1 \in 0 .. Len(q) /\ k \in 0 .. Len(q)
  BY <1>1, <1>2 DEF Counts
<1>6. k <= p => f[k] <= f[p]
  BY <1>1, <1>2, <1>5 DEF Counts
<1> QED BY <1>1, <1>2, <1>3, <1>4, <1>5, <1>6 DEF q

\* The rows of the staging tensor that a slice fills.
Filled(s) == s.destination .. s.destination + s.tokens - 1

LEMMA SliceOfSequence ==
  ASSUME NEW sources, NEW run, NEW prefix, NEW batch, NEW f, NEW p,
         IsStep(sources, run, prefix, batch, f, p), NEW k \in 1 .. Len(batch.sequences),
         IsPrompt(batch.sequences[k])
  PROVE  LET x == batch.sequences[k]
             s == Slice(batch, k)
         IN  /\ s \in Slices(batch)
             /\ s.req = x.req
             /\ s.source = x.offset - prefix /\ s.source >= 0 /\ s.source + s.tokens <= s.stored
             /\ s.destination = f[k - 1] /\ s.tokens = x.tokens /\ s.tokens \in Nat
             /\ s.destination + s.tokens = f[k] /\ f[k] <= batch.prefill
<1> DEFINE x == batch.sequences[k]
           s == Slice(batch, k)
<1>1. /\ Sound(x, prefix) /\ k <= p
      /\ f[k] = f[k - 1] + x.tokens /\ f[k] <= f[p] /\ batch.prefill = f[p]
  BY SequenceOfStep
<1>2. f = RowsUpTo(batch.sequences)
  BY DEF IsStep, IsBatch
<1>3. s \in Slices(batch)
  <2>1. k \in DOMAIN batch.sequences
    BY DEF IsStep, IsBatch, Ordered
  <2> QED BY <2>1 DEF Slices
<1>4. /\ s.req = x.req /\ s.source = x.offset - x.prefix /\ s.tokens = x.tokens
      /\ s.stored = x.prompt - x.prefix /\ s.destination = f[k - 1]
  BY <1>2 DEF Slice
<1>5. /\ x.prefix = prefix /\ prefix \in Nat /\ prefix <= x.offset /\ x.offset \in Nat
      /\ x.tokens \in Nat /\ x.prompt \in Nat /\ x.offset + x.tokens <= x.prompt
  BY <1>1 DEF Sound, End
<1> HIDE DEF x, s
<1>6. s.source >= 0 /\ s.source + s.tokens <= s.stored
  BY <1>4, <1>5
<1> QED BY <1>1, <1>3, <1>4, <1>5, <1>6 DEF x, s

LEMMA SliceOfRow ==
  ASSUME NEW sources, NEW run, NEW prefix, NEW batch, NEW f, NEW p,
         IsStep(sources, run, prefix, batch, f, p),
         NEW i, NEW k, NEW j, IsRow(sources, prefix, batch, f, p, i, k, j), i <= f[p]
  PROVE  /\ IsPrompt(batch.sequences[k])
         /\ Slice(batch, k) \in Slices(batch) /\ i - 1 \in Filled(Slice(batch, k))
         /\ \A t \in Slices(batch) : i - 1 \in Filled(t) => t = Slice(batch, k)
<1> DEFINE q == batch.sequences
<1>1. /\ k \in 1 .. Len(q) /\ f[k - 1] \in Nat /\ i = f[k - 1] + j /\ f[k] \in Nat /\ i <= f[k]
      /\ j \in Nat /\ 1 <= j /\ IsPrompt(q[k])
  <2>1. /\ k \in 1 .. Len(q) /\ f[k - 1] \in Nat /\ i = f[k - 1] + j /\ f[k] \in Nat /\ i <= f[k]
        /\ IsPrompt(q[k]) /\ j \in 1 .. q[k].tokens /\ q[k].tokens \in Nat
    BY DEF IsRow, Sound
  <2> QED BY <2>1
<1>2. /\ Slice(batch, k) \in Slices(batch) /\ Slice(batch, k).destination = f[k - 1]
      /\ Slice(batch, k).tokens \in Nat
      /\ Slice(batch, k).destination + Slice(batch, k).tokens = f[k]
  BY <1>1, SliceOfSequence
<1>3. i \in Nat /\ f[k - 1] < i /\ i <= f[k]
  BY <1>1
<1>4. i - 1 \in Filled(Slice(batch, k))
  BY SMTT(30), <1>1, <1>2, <1>3 DEF Filled
<1>5. ASSUME NEW t \in Slices(batch), i - 1 \in Filled(t)
      PROVE  t = Slice(batch, k)
  <2>1. PICK l \in DOMAIN q : t = Slice(batch, l) /\ IsPrompt(q[l])
    BY DEF Slices
  <2>2. l \in 1 .. Len(q) /\ Counts(q, f, p) /\ Len(q) \in Nat
    BY DEF IsStep, IsBatch, Ordered
  <2>3. t.destination = f[l - 1] /\ t.destination + t.tokens = f[l] /\ t.tokens \in Nat
    BY <2>1, <2>2, SliceOfSequence
  <2>4. f[l - 1] \in Nat /\ f[l] \in Nat
    BY <2>2 DEF Counts
  <2>5. f[l - 1] < i /\ i <= f[l]
    BY <1>3, <1>5, <2>3, <2>4 DEF Filled
  <2> HIDE DEF q
  <2>6. k = l
    BY SMTT(30), <1>1, <1>3, <2>2, <2>5, OneSequence
  <2> QED BY <2>1, <2>6
<1> QED BY <1>1, <1>2, <1>4, <1>5

LEMMA Stages ==
  ASSUME NEW sources, NEW run, NEW prefix, NEW batch, NEW f, NEW p,
         IsStep(sources, run, prefix, batch, f, p)
  PROVE  MayStage(batch)
<1> DEFINE q == batch.sequences
<1>1. ASSUME NEW t \in Slices(batch)
      PROVE  /\ t.source >= 0 /\ t.source + t.tokens <= t.stored
             /\ t.destination + t.tokens <= batch.prefill
  <2>1. PICK l \in DOMAIN q : t = Slice(batch, l) /\ IsPrompt(q[l])
    BY DEF Slices
  <2>2. l \in 1 .. Len(q)
    BY DEF IsStep, IsBatch, Ordered
  <2> QED BY <2>1, <2>2, SliceOfSequence
<1>2. ASSUME NEW i \in 0 .. batch.prefill - 1
      PROVE  \E s \in Slices(batch) :
               /\ i \in s.destination .. s.destination + s.tokens - 1
               /\ \A t \in Slices(batch) \ {s} : i \notin t.destination .. t.destination + t.tokens - 1
  <2>1. /\ Counts(q, f, p) /\ batch.prefill = f[p] /\ p \in 0 .. Len(q) /\ Len(q) \in Nat
        /\ DOMAIN batch.rows = 1 .. f[Len(q)]
    BY DEF IsStep, IsBatch, Ordered, Located
  <2>2. f[p] \in Nat /\ f[Len(q)] \in Nat /\ f[p] <= f[Len(q)]
    <3>1. Len(q) \in 0 .. Len(q) /\ p <= Len(q)
      BY <2>1
    <3> QED BY <2>1, <3>1 DEF Counts
  <2>3. i + 1 \in DOMAIN batch.rows /\ i + 1 <= f[p] /\ (i + 1) - 1 = i
    BY <2>1, <2>2
  <2>4. PICK k \in 1 .. Len(q) : \E j \in 1 .. q[k].tokens :
               IsRow(sources, prefix, batch, f, p, i + 1, k, j)
    BY <2>3, RowsOfSequences
  <2>5. PICK j \in 1 .. q[k].tokens : IsRow(sources, prefix, batch, f, p, i + 1, k, j)
    BY <2>4
  <2>6. /\ Slice(batch, k) \in Slices(batch) /\ i \in Filled(Slice(batch, k))
        /\ \A t \in Slices(batch) : i \in Filled(t) => t = Slice(batch, k)
    BY <2>3, <2>5, SliceOfRow
  <2> QED BY <2>6 DEF Filled
<1> QED BY <1>1, <1>2 DEF MayStage

LEMMA AskingAre ==
  ASSUME NEW T, NEW q \in Seq(T)
  PROVE  /\ Asking(q) \in Seq(1 .. Len(q))
         /\ Range(Asking(q)) = {k \in 1 .. Len(q) : q[k].logits}
         /\ IsInjective(Asking(q))
<1> DEFINE n == Len(q)
           id == [k \in 1 .. n |-> k]
           S == {k \in 1 .. n : q[k].logits}
<1>1. n \in Nat /\ DOMAIN q = 1 .. n /\ Asking(q) = Only(id, S)
  <2>1. n \in Nat /\ DOMAIN q = 1 .. n
    OBVIOUS
  <2>2. [k \in DOMAIN q |-> k] = id /\ {k \in DOMAIN q : q[k].logits} = S
    BY <2>1
  <2> QED BY <2>1, <2>2, Zenon DEF Asking
<1> HIDE DEF n, S
<1>2. id \in Seq(1 .. n) /\ Len(id) = n /\ \A k \in 1 .. n : id[k] = k
  BY <1>1
<1> HIDE DEF id
<1>3. \A j, k \in DOMAIN id : id[id[j]] = id[id[k]] => j = k
  BY <1>2
<1> DEFINE o == Only(id, S)
<1>4. /\ o \in Seq(1 .. n) /\ Range(o) = Range(id) \cap S
      /\ \A j, k \in DOMAIN o : id[o[j]] = id[o[k]] => j = k
  BY <1>2, <1>3, OnlyFacts
<1> HIDE DEF o
<1>5. Range(id) = 1 .. n
  BY <1>1, <1>2 DEF Range
<1>6. IsInjective(o)
  <2>1. \A j, k \in DOMAIN o : o[j] = o[k] => j = k
    BY <1>4
  <2> QED BY <2>1 DEF IsInjective
<1>7. Range(id) \cap S = S
  BY <1>5 DEF S
<1> QED BY <1>1, <1>4, <1>6, <1>7 DEF o, S, n

LEMMA DecodesOfBatch ==
  ASSUME NEW sources, NEW run, NEW prefix, NEW batch, NEW f, NEW p,
         IsStep(sources, run, prefix, batch, f, p)
  PROVE  LET q == batch.sequences
         IN  /\ Len(DecodeTokens(batch)) = Len(q) - p
             /\ \A k \in p + 1 .. Len(q) : DecodeTokens(batch)[k - p] = q[k].token
<1> DEFINE q == batch.sequences
           D == {s \in Range(q) : ~IsPrompt(s)}
           d == Decodes(q)
<1>1. /\ q \in Seq(Range(sources)) /\ p \in 0 .. Len(q) /\ Len(q) \in Nat
      /\ \A k \in 1 .. Len(q) : IsPrompt(q[k]) <=> k <= p
  BY DEF IsStep, IsBatch, Ordered
<1>2. \A k \in 1 .. Len(q) : q[k] \in D <=> k > p
  <2> TAKE k \in 1 .. Len(q)
  <2>1. q[k] \in Range(q)
    BY <1>1 DEF Range
  <2>2. q[k] \in D <=> ~IsPrompt(q[k])
    BY <2>1
  <2> QED BY <1>1, <2>2
<1>3. d = Only(q, D)
  BY DEF Decodes
<1>4. DecodeTokens(batch) = [k \in DOMAIN d |-> d[k].token]
  BY DEF DecodeTokens
<1> HIDE DEF q, D, d
<1>5. d = [j \in 1 .. Len(q) - p |-> q[p + j]]
  BY <1>1, <1>2, <1>3, OnlyDrops
<1>6. Len(q) - p \in Nat /\ DOMAIN d = 1 .. Len(q) - p
  BY <1>1, <1>5
<1>7. Len(DecodeTokens(batch)) = Len(q) - p
  BY <1>4, <1>6
<1>8. \A k \in p + 1 .. Len(q) : DecodeTokens(batch)[k - p] = q[k].token
  <2> TAKE k \in p + 1 .. Len(q)
  <2>1. k - p \in 1 .. Len(q) - p /\ p + (k - p) = k
    BY <1>1
  <2>2. d[k - p] = q[k]
    BY <1>5, <2>1
  <2> QED BY <1>4, <1>6, <2>1, <2>2
<1> QED BY <1>7, <1>8 DEF q

LEMMA PaddedAt ==
  ASSUME NEW t, NEW i, NEW prefix, NEW e \in Nat, IsTable(t, i, prefix, e), NEW p \in 0 .. e - 1,
         NEW width \in Nat, Len(t) <= width
  PROVE  /\ Padded(t, width)[p \div RowsPerBlock + 1] = t[p \div RowsPerBlock + 1]
         /\ PhysicalRow(Padded(t, width), p) = PhysicalRow(t, p)
<1> DEFINE b == p \div RowsPerBlock + 1
<1>1. b \in 1 .. Len(t) /\ Len(t) \in Nat
  BY TableAt
<1> HIDE DEF b
<1>2. b \in 1 .. width /\ b <= Len(t)
  BY <1>1
<1>3. Padded(t, width)[b] = t[b]
  BY <1>2 DEF Padded
<1> QED BY <1>3 DEF b, PhysicalRow

LEMMA Executes ==
  ASSUME NEW sources, NEW run, NEW prefix, NEW batch, NEW f, NEW p,
         IsStep(sources, run, prefix, batch, f, p)
  PROVE  \A flash \in BOOLEAN :
           MayExecute(batch, flash) <=> flash \/ \A s \in Range(run) : ~IsPrompt(s)
<1> DEFINE q == batch.sequences
           asking == Asking(q)
           rows == batch.rows
<1>1. /\ Ordered(sources, q, p) /\ Counts(q, f, p) /\ Len(q) \in Nat /\ p \in 0 .. Len(q)
      /\ q \in Seq(Range(sources)) /\ batch.prefill = f[p] /\ Len(rows) = f[Len(q)]
      /\ batch.selected = [n \in DOMAIN asking |-> f[asking[n]]]
      /\ batch.width \in Nat /\ \A x \in Range(sources) : Len(x.table) \in 1 .. batch.width
      /\ \A k \in 1 .. Len(q) : IsPrompt(q[k]) <=> k <= p
  BY DEF IsStep, IsBatch, Ordered, Located
<1>2. asking \in Seq(1 .. Len(q)) /\ IsInjective(asking)
  BY <1>1, AskingAre
<1>3. Len(rows) = batch.prefill + Len(DecodeTokens(batch))
  <2>1. Len(DecodeTokens(batch)) = Len(q) - p
    BY DecodesOfBatch
  <2>2. f[Len(q)] = f[p] + (Len(q) - p)
    <3>1. Len(q) \in p .. Len(q)
      BY <1>1
    <3> QED BY <1>1, <3>1 DEF Counts
  <2> HIDE DEF q, rows
  <2> QED BY <1>1, <2>1, <2>2
<1>4. IsInjective(batch.selected)
  <2>1. ASSUME NEW k \in 1 .. Len(q), NEW l \in 1 .. Len(q), f[k] = f[l] PROVE k = l
    <3>1. /\ f[k - 1] \in Nat /\ f[k] = f[k - 1] + q[k].tokens
          /\ f[l - 1] \in Nat /\ f[l] = f[l - 1] + q[l].tokens
          /\ q[k].tokens \in Nat \ {0} /\ q[l].tokens \in Nat \ {0} /\ f[k] \in Nat
      BY SequenceOfStep DEF Sound
    <3> DEFINE a == f[k - 1]
               b == f[k]
               c == f[l - 1]
               d == f[l]
               m == q[k].tokens
               n == q[l].tokens
    <3>3. /\ a \in Nat /\ b = a + m /\ c \in Nat /\ d = c + n /\ b = d
          /\ m \in Nat \ {0} /\ n \in Nat \ {0}
      BY <2>1, <3>1
    <3> HIDE DEF a, b, c, d, m, n
    <3>4. a < b /\ c < b /\ b <= d /\ b <= b
      BY ONLY <3>3, SMT
    <3>2. f[k - 1] < f[k] /\ f[l - 1] < f[k] /\ f[k] <= f[k] /\ f[k] <= f[l]
      BY <3>4 DEF a, b, c, d
    <3> HIDE DEF q
    <3> QED BY <1>1, <3>1, <3>2, OneSequence
  <2>2. \A n \in DOMAIN asking : asking[n] \in 1 .. Len(q)
    BY <1>2
  <2>3. \A m, n \in DOMAIN asking : asking[m] = asking[n] => m = n
    BY <1>2 DEF IsInjective
  <2> HIDE DEF q, asking
  <2>4. \A m, n \in DOMAIN asking : f[asking[m]] = f[asking[n]] => m = n
    <3> TAKE m, n \in DOMAIN asking
    <3>1. f[asking[m]] = f[asking[n]] => asking[m] = asking[n]
      BY <2>1, <2>2
    <3> QED BY <2>3, <3>1
  <2> QED BY <1>1, <2>4 DEF IsInjective
<1>5. Len(batch.selected) = Len(Outputs(batch))
  <2>1. Outputs(batch) = [n \in DOMAIN asking |-> [req |-> q[asking[n]].req, row |-> batch.selected[n]]]
    BY DEF Outputs
  <2>2. DOMAIN asking = 1 .. Len(asking) /\ Len(asking) \in Nat
    BY <1>2
  <2> HIDE DEF asking, q
  <2> QED BY <1>1, <2>1, <2>2
<1>6. \A j, k \in DOMAIN q : j < k /\ IsPrompt(q[k]) => IsPrompt(q[j])
  <2>1. DOMAIN q = 1 .. Len(q)
    BY <1>1
  <2> HIDE DEF q
  <2> QED BY <1>1, <2>1
<1>7. ASSUME NEW i \in DOMAIN rows
      PROVE  /\ rows[i].kv_len = rows[i].position + 1
             /\ \A m \in 0 .. rows[i].position :
                  /\ m \div RowsPerBlock < batch.width
                  /\ rows[i].table[m \div RowsPerBlock + 1] >= 0
                  /\ (rows[i].table[m \div RowsPerBlock + 1] + 1) * RowsPerBlock <= PhysicalRows
  <2>1. PICK k \in 1 .. Len(q) : \E j \in 1 .. q[k].tokens : IsRow(sources, prefix, batch, f, p, i, k, j)
    BY RowsOfSequences
  <2>2. PICK j \in 1 .. q[k].tokens : IsRow(sources, prefix, batch, f, p, i, k, j)
    BY <2>1
  <2> DEFINE s == q[k]
             t == s.table
             e == End(s)
             width == batch.width
  <2>3. /\ rows[i] = RowAt(s, k, j, width) /\ rows[i].position \in 0 .. e - 1
        /\ s \in Range(sources) /\ Sound(s, prefix) /\ j \in 1 .. s.tokens
    BY <2>2 DEF IsRow
  <2>4. /\ rows[i].position = s.offset + j - 1 /\ rows[i].kv_len = s.offset + j
        /\ rows[i].table = Padded(t, width)
    BY <2>3 DEF RowAt
  <2>5. s.offset \in Nat /\ s.tokens \in Nat /\ e \in Nat /\ IsTable(t, s.req, prefix, e)
    BY <2>3 DEF Sound
  <2>6. width \in Nat /\ Len(t) \in Nat /\ Len(t) <= width
    BY <1>1, <2>3
  <2> DEFINE r == rows[i]
  <2> HIDE DEF q, rows, r
  <2>7. r.kv_len = r.position + 1
    BY <2>3, <2>4, <2>5 DEF r
  <2>8. ASSUME NEW m \in 0 .. r.position
        PROVE  /\ m \div RowsPerBlock < width
               /\ r.table[m \div RowsPerBlock + 1] >= 0
               /\ (r.table[m \div RowsPerBlock + 1] + 1) * RowsPerBlock <= PhysicalRows
    <3>1. m \in 0 .. e - 1
      BY <2>3, <2>5, <2>8 DEF r
    <3> HIDE DEF t, e, width, s
    <3> DEFINE b == m \div RowsPerBlock
    <3>2. /\ b \in Nat /\ b < Len(t) /\ t[b + 1] \in Nat
          /\ (t[b + 1] + 1) * RowsPerBlock <= PhysicalRows
      BY <2>5, <3>1, TableAt
    <3>3. r.table[b + 1] = t[b + 1]
      <4>1. Padded(t, width)[b + 1] = t[b + 1]
        BY <2>5, <2>6, <3>1, PaddedAt
      <4> QED BY <2>4, <4>1 DEF r
    <3> HIDE DEF b
    <3>4. b < width
      BY <2>6, <3>2
    <3> QED BY <3>2, <3>3, <3>4 DEF b
  <2> QED BY <2>7, <2>8 DEF r
<1>8. ASSUME NEW flash \in BOOLEAN
      PROVE  TakesLayouts(batch, flash) <=> flash \/ \A s \in Range(run) : ~IsPrompt(s)
  <2>1. DOMAIN q = 1 .. Len(q)
    BY <1>1
  <2>2. (\E k \in 1 .. Len(q) : IsPrompt(q[k])) <=> \E s \in Range(run) : IsPrompt(s)
    BY SequencesOfRun DEF IsPrompt
  <2>3. MaskInputs(batch, flash) = IF flash THEN {k \in DOMAIN q : IsPrompt(q[k])} ELSE {}
    BY DEF MaskInputs
  <2>4. TakesLayouts(batch, flash)
          <=> \A k \in DOMAIN q : IsPrompt(q[k]) => k \in MaskInputs(batch, flash)
    BY DEF TakesLayouts
  <2> HIDE DEF q
  <2> QED BY <2>1, <2>2, <2>3, <2>4
<1> QED BY <1>3, <1>4, <1>5, <1>6, <1>7, <1>8 DEF MayExecute

LEMMA InputsOfRows ==
  ASSUME NEW sources, NEW run, NEW prefix, NEW batch, NEW f, NEW p,
         IsStep(sources, run, prefix, batch, f, p), NEW i \in DOMAIN batch.rows
  PROVE  LET req      == batch.sequences[batch.rows[i].sequence].req
             position == batch.rows[i].position
         IN  InputOf(batch, i) =
               IF position < reqs[req].prompt
               THEN <<req, "embedding", position - prefix>>
               ELSE <<req, "output", reqs[req].outputs - 1>>
<1> DEFINE q == batch.sequences
<1>1. PICK k \in 1 .. Len(q) : \E j \in 1 .. q[k].tokens : IsRow(sources, prefix, batch, f, p, i, k, j)
  BY RowsOfSequences
<1>2. PICK j \in 1 .. q[k].tokens : IsRow(sources, prefix, batch, f, p, i, k, j)
  BY <1>1
<1> DEFINE s == q[k]
           m == batch.rows[i].position
           req == q[batch.rows[i].sequence].req
<1>3. req = s.req /\ m = s.offset + j - 1
  BY <1>2, PlaceOfRow
<1>4. /\ Sound(s, prefix) /\ f[k - 1] \in Nat /\ i = f[k - 1] + j /\ j \in 1 .. s.tokens
      /\ i <= f[p] <=> IsPrompt(s)
      /\ IsPrompt(s) <=> k <= p
      /\ ~IsPrompt(s) => j = 1 /\ i = f[p] + (k - p)
  BY <1>2 DEF IsRow
<1>5. /\ s.offset \in Nat /\ s.tokens \in Nat /\ prefix \in Nat /\ s.prompt \in Nat
      /\ reqs[s.req].outputs \in Nat /\ s.prompt = reqs[s.req].prompt
  BY <1>4 DEF Sound
<1>6. batch.prefill = f[p] /\ f[p] \in Nat /\ k \in Nat /\ p \in Nat /\ p \in 0 .. Len(q) /\ Len(q) \in Nat
  BY SequenceOfStep
<1>7. ASSUME IsPrompt(s)
      PROVE  InputOf(batch, i) = <<req, "embedding", m - prefix>> /\ m < reqs[req].prompt
  <2>1. i <= f[p]
    BY <1>4, <1>7
  <2>2. /\ Slice(batch, k) \in Slices(batch) /\ i - 1 \in Filled(Slice(batch, k))
        /\ \A t \in Slices(batch) : i - 1 \in Filled(t) => t = Slice(batch, k)
    BY <1>2, <2>1, SliceOfRow
  <2> DEFINE c == Slice(batch, k)
             C == {t \in Slices(batch) : i - 1 \in Filled(t)}
             x == CHOOSE x \in Slices(batch) : i - 1 \in x.destination .. x.destination + x.tokens - 1
  <2>3. x = c
    <3>1. x = CHOOSE x_1 \in Slices(batch) : i - 1 \in Filled(x_1)
      BY DEF Filled
    <3> HIDE DEF x, c
    <3>2. x \in Slices(batch) /\ i - 1 \in Filled(x)
      BY <2>2, <3>1 DEF c
    <3> QED BY <2>2, <3>2 DEF c
  <2>4. InputOf(batch, i) = <<x.req, "embedding", x.source + i - 1 - x.destination>>
    BY <1>6, <2>1 DEF InputOf
  <2>5. c.req = s.req /\ c.source = s.offset - prefix /\ c.destination = f[k - 1]
    BY <1>7, SliceOfSequence
  <2> DEFINE a == f[k - 1]
             o == s.offset
  <2>6. a \in Nat /\ i = a + j /\ j \in Nat /\ o \in Nat /\ prefix \in Nat /\ m = o + j - 1
    BY <1>3, <1>4, <1>5
  <2>7. InputOf(batch, i) = <<s.req, "embedding", (o - prefix) + i - 1 - a>>
    BY <2>3, <2>4, <2>5
  <2>8. s.offset + s.tokens <= s.prompt
    BY <1>4, <1>7 DEF Sound, End
  <2>9. o + j <= s.prompt
    BY SMTT(30), <1>4, <1>5, <2>8
  <2> HIDE DEF a, o, m, s, req
  <2>10. (o - prefix) + i - 1 - a = m - prefix /\ m < s.prompt
    BY <1>5, <2>6, <2>9
  <2> QED BY <1>3, <1>5, <2>7, <2>10
<1>8. ASSUME ~IsPrompt(s)
      PROVE  InputOf(batch, i) = <<req, "output", reqs[req].outputs - 1>> /\ ~(m < reqs[req].prompt)
  <2>1. ~(i <= f[p]) /\ j = 1 /\ i = f[p] + (k - p) /\ ~(k <= p)
    BY <1>4, <1>8
  <2>2. InputOf(batch, i) = DecodeTokens(batch)[i - f[p]]
    BY <1>6, <2>1 DEF InputOf
  <2>3. i - f[p] = k - p /\ k \in p + 1 .. Len(q)
    BY <1>6, <2>1
  <2>4. DecodeTokens(batch)[k - p] = s.token
    BY <2>3, DecodesOfBatch
  <2>5. s.token = <<s.req, "output", reqs[s.req].outputs - 1>>
        /\ s.offset = s.prompt + reqs[s.req].outputs - 1 /\ reqs[s.req].outputs > 0
    BY <1>4, <1>8 DEF Sound
  <2>6. m = s.offset
    BY <1>3, <1>5, <2>1
  <2> HIDE DEF m, s, req
  <2>7. ~(m < s.prompt)
    BY <1>5, <2>5, <2>6
  <2> QED BY <1>3, <1>5, <2>2, <2>3, <2>4, <2>5, <2>7
<1> QED BY <1>7, <1>8

LEMMA OutputsOfRun ==
  ASSUME NEW sources, NEW run, NEW prefix, NEW batch, NEW f, NEW p,
         IsStep(sources, run, prefix, batch, f, p)
  PROVE  {<<o.req, Place(batch, o.row)>> : o \in Range(Outputs(batch))}
           = {<<s.req, <<s.req, s.offset + s.tokens - 1>>>> : s \in {t \in Range(run) : t.logits}}
<1> DEFINE q == batch.sequences
           asking == Asking(q)
           out == Outputs(batch)
           V == {<<s.req, <<s.req, s.offset + s.tokens - 1>>>> : s \in {t \in Range(run) : t.logits}}
           U == {<<o.req, Place(batch, o.row)>> : o \in Range(out)}
<1>1. asking \in Seq(1 .. Len(q)) /\ Range(asking) = {k \in 1 .. Len(q) : q[k].logits}
  <2>1. q \in Seq(Range(sources))
    BY DEF IsStep, IsBatch, Ordered
  <2> QED BY <2>1, AskingAre
<1>2. /\ batch.selected = [n \in DOMAIN asking |-> f[asking[n]]]
      /\ out = [n \in DOMAIN asking |-> [req |-> q[asking[n]].req, row |-> batch.selected[n]]]
  BY DEF IsStep, Outputs
<1> HIDE DEF asking, out
<1>3. DOMAIN out = DOMAIN asking /\ \A n \in DOMAIN asking : out[n].req = q[asking[n]].req /\ out[n].row = f[asking[n]]
  BY <1>2
<1>4. ASSUME NEW k \in 1 .. Len(q)
      PROVE  /\ Place(batch, f[k]) = <<q[k].req, q[k].offset + q[k].tokens - 1>>
             /\ q[k].tokens \in Nat
  <2>1. q[k].tokens \in Nat \ {0} /\ f[k - 1] \in Nat /\ f[k] = f[k - 1] + q[k].tokens
    BY SequenceOfStep DEF Sound
  <2>2. q[k].tokens \in 1 .. q[k].tokens
    BY <2>1
  <2>3. IsRow(sources, prefix, batch, f, p, f[k - 1] + q[k].tokens, k, q[k].tokens)
    BY <2>2, RowsOfSequences
  <2>4. Place(batch, f[k - 1] + q[k].tokens) = <<q[k].req, q[k].offset + q[k].tokens - 1>>
    BY <2>3, PlaceOfRow
  <2> QED BY <2>1, <2>4
<1>10. \A k \in 1 .. Len(q) : \E s \in Range(run) :
         /\ q[k].req = s.req /\ q[k].offset = s.offset /\ q[k].tokens = s.tokens
         /\ q[k].logits = s.logits
  <2> TAKE k \in 1 .. Len(q)
  <2>1. PICK s \in Range(run) :
          /\ q[k].req = s.req /\ q[k].kind = s.kind /\ q[k].offset = s.offset
          /\ q[k].tokens = s.tokens /\ q[k].logits = s.logits
    BY SequencesOfRun
  <2> QED BY <2>1
<1> HIDE DEF q
<1>5. ASSUME NEW o \in Range(out)
      PROVE  <<o.req, Place(batch, o.row)>> \in V
  <2>1. PICK n \in DOMAIN asking : o = out[n]
    BY <1>3 DEF Range
  <2> DEFINE k == asking[n]
  <2>2. k \in 1 .. Len(q) /\ q[k].logits
    <3>1. k \in Range(asking)
      BY DEF Range
    <3> QED BY <1>1, <3>1
  <2>3. o.req = q[k].req /\ o.row = f[k]
    BY <1>3, <2>1
  <2> HIDE DEF k
  <2>4. PICK s \in Range(run) : /\ q[k].req = s.req /\ q[k].offset = s.offset /\ q[k].tokens = s.tokens
                               /\ q[k].logits = s.logits
    BY <1>10, <2>2
  <2>5. Place(batch, o.row) = <<s.req, s.offset + s.tokens - 1>>
    BY <1>4, <2>2, <2>3, <2>4
  <2>6. s \in {t \in Range(run) : t.logits}
    BY <2>2, <2>4
  <2> QED BY <2>3, <2>4, <2>5, <2>6
<1>6. ASSUME NEW s \in Range(run), s.logits
      PROVE  <<s.req, <<s.req, s.offset + s.tokens - 1>>>> \in U
  <2>1. PICK k \in 1 .. Len(q) : /\ q[k].req = s.req /\ q[k].offset = s.offset /\ q[k].tokens = s.tokens
                               /\ q[k].logits = s.logits
    BY SequencesOfRun DEF q
  <2>2. k \in Range(asking)
    BY <1>1, <1>6, <2>1
  <2>3. PICK n \in DOMAIN asking : asking[n] = k
    BY <2>2 DEF Range
  <2>4. out[n] \in Range(out)
    BY <1>3, <2>3 DEF Range
  <2>5. out[n].req = s.req /\ Place(batch, out[n].row) = <<s.req, s.offset + s.tokens - 1>>
    BY <1>3, <1>4, <2>1, <2>3
  <2> QED BY <2>4, <2>5
<1>7. U \subseteq V
  BY <1>5
<1>8. V \subseteq U
  BY <1>6
<1> HIDE DEF U, V
<1>9. U = V
  BY <1>7, <1>8
<1> QED BY <1>9 DEF U, V, out

(* Whatever is carried out of a plan, the packed step computes it: every   *)
(* planned position once, from the right embedding or token, and each      *)
(* sampled token is its request's; a build without flash attention refuses *)
(* just the steps with a prompt row.                                       *)
THEOREM StepComputed == Spec => []StepComputesPlan
<1>1. ASSUME Inv, Bounded
      PROVE  StepComputesPlan
  <2> SUFFICES ASSUME Fresh, NEW run \in Runs, NEW prefix \in SharedPrefixes(run)
               PROVE
    LET sources == Sources(run, prefix)
        batch   == Pack(sources)
        Req(i)  == batch.sequences[batch.rows[i].sequence].req
        At(i)   == <<Req(i), batch.rows[i].position>>
    IN  /\ Packable(sources) /\ MayStage(batch)
        /\ \A flash \in BOOLEAN :
             MayExecute(batch, flash) <=> flash \/ \A s \in Range(run) : ~IsPrompt(s)
        /\ {At(i) : i \in DOMAIN batch.rows}
             = UNION {{<<s.req, p>> : p \in Positions(s)} : s \in Range(run)}
        /\ Len(batch.rows) = TotalTokens(run)
        /\ \A i \in DOMAIN batch.rows :
             LET prompt == reqs[Req(i)].prompt
             IN  InputOf(batch, i) =
                   IF At(i)[2] < prompt
                   THEN <<Req(i), "embedding", At(i)[2] - prefix>>
                   ELSE <<Req(i), "output", reqs[Req(i)].outputs - 1>>
        /\ {<<o.req, At(o.row)>> : o \in Range(Outputs(batch))}
             = {<<s.req, <<s.req, s.offset + s.tokens - 1>>>> :
                  s \in {t \in Range(run) : t.logits}}
    BY DEF StepComputesPlan
  <2> DEFINE sources == Sources(run, prefix)
             batch   == Pack(sources)
  <2>1. PICK f, p : IsStep(sources, run, prefix, batch, f, p)
    BY <1>1, StepIs
  <2> HIDE DEF sources, batch
  <2>2. Packable(sources)
    BY <2>1, SourcesPackable DEF IsStep
  <2>3. /\ MayStage(batch)
        /\ \A flash \in BOOLEAN :
             MayExecute(batch, flash) <=> flash \/ \A s \in Range(run) : ~IsPrompt(s)
    BY <2>1, Stages, Executes
  <2>4. /\ {Place(batch, i) : i \in DOMAIN batch.rows}
             = UNION {{<<s.req, m>> : m \in Positions(s)} : s \in Range(run)}
        /\ Len(batch.rows) = TotalTokens(run)
    BY <2>1, EveryPositionOnce
  <2>5. \A i \in DOMAIN batch.rows :
          LET req      == batch.sequences[batch.rows[i].sequence].req
              position == batch.rows[i].position
          IN  InputOf(batch, i) =
                IF position < reqs[req].prompt
                THEN <<req, "embedding", position - prefix>>
                ELSE <<req, "output", reqs[req].outputs - 1>>
    BY <2>1, InputsOfRows
  <2>6. {<<o.req, Place(batch, o.row)>> : o \in Range(Outputs(batch))}
           = {<<s.req, <<s.req, s.offset + s.tokens - 1>>>> : s \in {t \in Range(run) : t.logits}}
    BY <2>1, OutputsOfRun
  <2> QED BY <2>2, <2>3, <2>4, <2>5, <2>6 DEF Place, sources, batch
<1> QED BY <1>1, BoundedInvariant, PTL

-----------------------------------------------------------------------------
(* The rows of the cache.                                                  *)

\* Row i: the j-th of sequence k, whose source is s, at position m.
IsToken(sources, prefix, batch, f, i, k, j, s, m) ==
  /\ s = batch.sequences[k] /\ m = batch.rows[i].position /\ batch.rows[i].sequence = k
  /\ s \in Range(sources) /\ Sound(s, prefix)
  /\ s.offset \in Nat /\ s.tokens \in Nat /\ End(s) \in Nat /\ prefix \in Nat
  /\ End(s) = s.offset + s.tokens
  /\ IsTable(s.table, s.req, prefix, End(s))
  /\ batch.width \in Nat /\ Len(s.table) \in Nat /\ Len(s.table) <= batch.width
  /\ j \in 1 .. s.tokens /\ j \in Nat /\ m = s.offset + j - 1
  /\ m \in Nat /\ m \in 0 .. End(s) - 1 /\ prefix <= s.offset /\ s.offset <= m
  /\ f[k - 1] \in Nat /\ i = f[k - 1] + j /\ i \in Nat
  /\ batch.rows[i].table = Padded(s.table, batch.width) /\ batch.rows[i].kv_len = m + 1
  /\ PackedWrite(batch, i) = PhysicalRow(s.table, m)

LEMMA RowIsToken ==
  ASSUME NEW sources, NEW run, NEW prefix, NEW batch, NEW f, NEW p,
         IsStep(sources, run, prefix, batch, f, p),
         NEW i, NEW k, NEW j, IsRow(sources, prefix, batch, f, p, i, k, j)
  PROVE  IsToken(sources, prefix, batch, f, i, k, j, batch.sequences[k], batch.rows[i].position)
<1> DEFINE s == batch.sequences[k]
           m == batch.rows[i].position
           e == End(s)
           width == batch.width
<1>1. /\ s \in Range(sources) /\ Sound(s, prefix) /\ j \in 1 .. s.tokens
      /\ f[k - 1] \in Nat /\ i = f[k - 1] + j
      /\ batch.rows[i] = RowAt(s, k, j, width) /\ m \in 0 .. e - 1
  BY DEF IsRow
<1>2. /\ s.offset \in Nat /\ s.tokens \in Nat /\ e \in Nat /\ prefix \in Nat /\ prefix <= s.offset
      /\ IsTable(s.table, s.req, prefix, e) /\ e = s.offset + s.tokens
  BY <1>1 DEF Sound, End
<1>3. width \in Nat /\ Len(s.table) \in Nat /\ Len(s.table) <= width
  <2>1. Len(s.table) \in 1 .. width /\ width \in Nat
    BY <1>1 DEF IsStep
  <2> QED BY <2>1
<1>4. /\ m = s.offset + j - 1 /\ batch.rows[i].kv_len = s.offset + j
      /\ batch.rows[i].table = Padded(s.table, width) /\ batch.rows[i].sequence = k
  BY <1>1 DEF RowAt
<1> DEFINE o == s.offset
           n == s.tokens
<1>5. o \in Nat /\ n \in Nat /\ j \in 1 .. n /\ m = o + j - 1
  BY <1>1, <1>2, <1>4
<1> HIDE DEF o, n, m
<1>6. j \in Nat /\ m \in Nat /\ o <= m /\ o + j = m + 1
  BY ONLY <1>5, SMT
<1>7. PackedWrite(batch, i) = PhysicalRow(s.table, m)
  <2>1. PackedWrite(batch, i) = PhysicalRow(Padded(s.table, width), m)
    BY <1>4 DEF PackedWrite, m
  <2> DEFINE t == s.table
  <2> HIDE DEF t, e, width
  <2>2. PhysicalRow(Padded(t, width), m) = PhysicalRow(t, m)
    BY <1>1, <1>2, <1>3, PaddedAt DEF t
  <2> QED BY <2>1, <2>2 DEF t
<1>8. i \in Nat
  BY <1>1, <1>6
<1> QED BY <1>1, <1>2, <1>3, <1>4, <1>6, <1>7, <1>8 DEF IsToken, o, n, m

LEMMA RowsAreTokens ==
  ASSUME NEW sources, NEW run, NEW prefix, NEW batch, NEW f, NEW p,
         IsStep(sources, run, prefix, batch, f, p), NEW i \in DOMAIN batch.rows
  PROVE  \E k \in 1 .. Len(batch.sequences) : \E j \in Nat :
           /\ IsRow(sources, prefix, batch, f, p, i, k, j)
           /\ IsToken(sources, prefix, batch, f, i, k, j, batch.sequences[k], batch.rows[i].position)
<1> DEFINE q == batch.sequences
<1>1. PICK k \in 1 .. Len(q) : \E j \in 1 .. q[k].tokens : IsRow(sources, prefix, batch, f, p, i, k, j)
  BY RowsOfSequences
<1>2. PICK j \in 1 .. q[k].tokens : IsRow(sources, prefix, batch, f, p, i, k, j)
  BY <1>1
<1>3. IsToken(sources, prefix, batch, f, i, k, j, batch.sequences[k], batch.rows[i].position)
  BY <1>2, RowIsToken
<1>4. j \in Nat
  BY <1>3 DEF IsToken
<1> QED BY <1>2, <1>3, <1>4

\* Positions that are not of the prefix, in rows of the same place, are one
\* position of one request.
LEMMA OwnRow ==
  ASSUME NEW sources, NEW prefix, NEW batch, NEW f, NEW i, NEW k, NEW j, NEW s, NEW m,
         IsToken(sources, prefix, batch, f, i, k, j, s, m),
         NEW x, Sound(x, prefix), NEW n \in 0 .. End(x) - 1,
         PhysicalRow(x.table, n) = PhysicalRow(s.table, m)
  PROVE  n = m /\ x.req = s.req
<1> DEFINE d == End(s)
           e == End(x)
           t == s.table
           u == x.table
<1>1. /\ IsTable(t, s.req, prefix, d) /\ d \in Nat /\ m \in 0 .. d - 1 /\ m \in Nat
      /\ prefix \in Nat /\ prefix <= m
  BY SMTT(30) DEF IsToken
<1>2. IsTable(u, x.req, prefix, e) /\ e \in Nat /\ n \in 0 .. e - 1
  BY DEF Sound
<1>3. PhysicalRow(t, m) = PhysicalRow(u, n)
  OBVIOUS
<1> HIDE DEF t, u, d, e
<1>4. m = n /\ (m \div RowsPerBlock + 1 > prefix \div RowsPerBlock => s.req = x.req)
  BY <1>1, <1>2, <1>3, RowsApart
<1>5. m \div RowsPerBlock + 1 > prefix \div RowsPerBlock
  <2>1. /\ prefix \div RowsPerBlock <= m \div RowsPerBlock
        /\ prefix \div RowsPerBlock \in Nat /\ m \div RowsPerBlock \in Nat
    BY <1>1, QuotientsGrow, Division
  <2> QED BY <2>1
<1> QED BY <1>4, <1>5

LEMMA OwnSequence ==
  ASSUME NEW sources, NEW run, NEW prefix, NEW batch, NEW f, NEW p,
         IsStep(sources, run, prefix, batch, f, p),
         NEW k \in 1 .. Len(batch.sequences), NEW l \in 1 .. Len(batch.sequences),
         batch.sequences[k].req = batch.sequences[l].req
  PROVE  k = l
<1>1. Apart(batch.sequences) /\ DOMAIN batch.sequences = 1 .. Len(batch.sequences)
  BY DEF IsStep, IsBatch, Ordered
<1> QED BY <1>1 DEF Apart

LEMMA WritesApart ==
  ASSUME NEW sources, NEW run, NEW prefix, NEW batch, NEW f, NEW p,
         IsStep(sources, run, prefix, batch, f, p),
         NEW a \in DOMAIN batch.rows, NEW b \in DOMAIN batch.rows,
         PackedWrite(batch, a) = PackedWrite(batch, b)
  PROVE  a = b
<1> DEFINE q == batch.sequences
           m == batch.rows[a].position
           n == batch.rows[b].position
<1>1. PICK k \in 1 .. Len(q) : \E j \in Nat : IsToken(sources, prefix, batch, f, a, k, j, q[k], m)
  BY RowsAreTokens
<1>2. PICK j \in Nat : IsToken(sources, prefix, batch, f, a, k, j, q[k], m)
  BY <1>1
<1>3. PICK l \in 1 .. Len(q) : \E h \in Nat : IsToken(sources, prefix, batch, f, b, l, h, q[l], n)
  BY RowsAreTokens
<1>4. PICK h \in Nat : IsToken(sources, prefix, batch, f, b, l, h, q[l], n)
  BY <1>3
<1>5. Sound(q[l], prefix) /\ n \in 0 .. End(q[l]) - 1 /\ PhysicalRow(q[l].table, n) = PhysicalRow(q[k].table, m)
  BY <1>2, <1>4 DEF IsToken
<1>6. n = m /\ q[l].req = q[k].req
  BY <1>2, <1>5, OwnRow
<1>7. k = l
  BY <1>6, OwnSequence
<1>8. /\ a = f[k - 1] + j /\ b = f[k - 1] + h /\ m = q[k].offset + j - 1 /\ n = q[k].offset + h - 1
      /\ f[k - 1] \in Nat /\ q[k].offset \in Nat
  BY <1>2, <1>4, <1>7 DEF IsToken
<1> DEFINE c == f[k - 1]
           o == q[k].offset
<1>9. a = c + j /\ b = c + h /\ o + j - 1 = o + h - 1 /\ c \in Nat /\ o \in Nat
  BY <1>6, <1>8
<1> HIDE DEF c, o
<1> QED BY ONLY <1>9, j \in Nat, h \in Nat, SMT

LEMMA PastUntouched ==
  ASSUME NEW sources, NEW run, NEW prefix, NEW batch, NEW f, NEW p,
         IsStep(sources, run, prefix, batch, f, p),
         NEW k \in 1 .. Len(batch.sequences), NEW n \in 0 .. batch.sequences[k].offset - 1,
         NEW b \in DOMAIN batch.rows,
         PhysicalRow(batch.sequences[k].table, n) = PackedWrite(batch, b)
  PROVE  FALSE
<1> DEFINE q == batch.sequences
           m == batch.rows[b].position
<1>1. PICK l \in 1 .. Len(q) : \E h \in Nat : IsToken(sources, prefix, batch, f, b, l, h, q[l], m)
  BY RowsAreTokens
<1>2. PICK h \in Nat : IsToken(sources, prefix, batch, f, b, l, h, q[l], m)
  BY <1>1
<1>3. Sound(q[k], prefix)
  BY SequenceOfStep
<1>4. n \in 0 .. End(q[k]) - 1 /\ q[k].offset \in Nat
  <2>1. q[k].offset \in Nat /\ q[k].tokens \in Nat /\ End(q[k]) = q[k].offset + q[k].tokens
    BY <1>3 DEF Sound, End
  <2> QED BY <2>1
<1>5. PhysicalRow(q[k].table, n) = PhysicalRow(q[l].table, m)
  BY <1>2 DEF IsToken
<1>6. n = m /\ q[k].req = q[l].req
  BY <1>2, <1>3, <1>4, <1>5, OwnRow
<1>7. k = l
  BY <1>6, OwnSequence
<1>8. q[k].offset <= m
  BY <1>2, <1>7 DEF IsToken
<1> QED BY <1>4, <1>6, <1>8

\* The rows of positions 0 to m.
SeenRows(table, m) == {PhysicalRow(table, n) : n \in 0 .. m}

LEMMA SeenInTable ==
  ASSUME NEW s, NEW prefix, Sound(s, prefix), NEW m \in 0 .. End(s) - 1
  PROVE  RowsOfPrefix(s, prefix, m) = SeenRows(s.table, m)
<1> DEFINE e == End(s)
           t == s.table
           u == Table(s.req, prefix, e)
<1>1. e = s.offset + s.tokens
  BY DEF End
<1>2. /\ e \in Nat \ {0} /\ e <= MaxPrompt + MaxTokens /\ prefix \in Nat /\ s.req \in Indices
      /\ IsTable(t, s.req, prefix, e)
  BY DEF Sound
<1>3. m \in 0 .. e - 1
  OBVIOUS
<1> HIDE DEF e
<1>4. IsTable(u, s.req, prefix, e)
  BY <1>2, TablesAre
<1> HIDE DEF t, u
<1>5. \A n \in 0 .. m : PhysicalRow(u, n) = PhysicalRow(t, n)
  <2> TAKE n \in 0 .. m
  <2>1. n \in 0 .. e - 1 /\ e \in Nat
    BY <1>2, <1>3
  <2> QED BY <1>2, <1>4, <2>1, RowsApart
<1>6. {PhysicalRow(u, n) : n \in 0 .. m} = SeenRows(t, m)
  BY <1>5 DEF SeenRows
<1> QED BY <1>1, <1>6 DEF u, t, RowsOfPrefix

LEMMA KernelSees ==
  ASSUME NEW s, NEW prefix, Sound(s, prefix), NEW m \in 0 .. End(s) - 1,
         NEW table, \A n \in 0 .. m : PhysicalRow(table, n) = PhysicalRow(s.table, n),
         NEW len, len = m + 1
  PROVE  KernelReads(table, len) = SeenRows(s.table, m)
<1>1. End(s) \in Nat /\ m \in Nat /\ len - 1 = m
  <2>1. End(s) \in Nat
    BY DEF Sound
  <2> QED BY <2>1
<1>2. KernelReads(table, len) = {PhysicalRow(table, n) : n \in 0 .. m}
  BY <1>1 DEF KernelReads
<1> QED BY <1>2 DEF SeenRows

\* A query of row i that reads `read` sees the positions up to its own.
SeesAll(batch, i, k, read) ==
  read = SeenRows(batch.sequences[k].table, batch.rows[i].position)

LEMMA MaskSees ==
  ASSUME NEW sources, NEW run, NEW prefix, NEW batch, NEW f, NEW p,
         IsStep(sources, run, prefix, batch, f, p),
         NEW i \in DOMAIN batch.rows, NEW k \in 1 .. Len(batch.sequences), NEW j,
         IsToken(sources, prefix, batch, f, i, k, j, batch.sequences[k], batch.rows[i].position)
  PROVE  SeesAll(batch, i, k, MaskedReads(batch, i))
<1> DEFINE m == batch.rows[i].position
           q == batch.sequences
           rows == batch.rows
           s == q[k]
           t == s.table
           J == {h \in 1 .. i : rows[h].sequence = rows[i].sequence}
           A == PastRows(s)
           B == {PackedWrite(batch, h) : h \in J}
<1>1. /\ rows[i].sequence = k /\ s.offset \in Nat /\ s.tokens \in Nat /\ j \in 1 .. s.tokens
      /\ m = s.offset + j - 1 /\ f[k - 1] \in Nat /\ i = f[k - 1] + j /\ i \in Nat
  BY DEF IsToken
<1>2. MaskedReads(batch, i) = A \cup B
  BY <1>1 DEF MaskedReads
<1>3. DOMAIN rows = 1 .. f[Len(q)]
  BY DEF IsStep, IsBatch, Located
<1>4. ASSUME NEW h \in J PROVE PackedWrite(batch, h) \in SeenRows(t, m)
  <2>1. h \in DOMAIN rows /\ h \in Nat /\ h <= i /\ rows[h].sequence = k
    <3>1. f[Len(q)] \in Nat
      <4>1. Counts(q, f, p) /\ Len(q) \in Nat
        BY DEF IsStep, IsBatch, Ordered
      <4>2. Len(q) \in 0 .. Len(q)
        BY <4>1
      <4> QED BY <4>1, <4>2 DEF Counts
    <3>2. i \in DOMAIN rows
      OBVIOUS
    <3> HIDE DEF q, rows
    <3> QED BY <1>1, <1>3, <3>1, <3>2
  <2>2. PICK l \in 1 .. Len(q) : \E g \in Nat : IsToken(sources, prefix, batch, f, h, l, g, q[l], rows[h].position)
    BY <2>1, RowsAreTokens
  <2>3. PICK g \in Nat : IsToken(sources, prefix, batch, f, h, l, g, q[l], rows[h].position)
    BY <2>2
  <2>4. l = k
    BY <2>1, <2>3 DEF IsToken
  <2>5. /\ PackedWrite(batch, h) = PhysicalRow(t, rows[h].position)
        /\ rows[h].position = s.offset + g - 1 /\ h = f[k - 1] + g
        /\ rows[h].position \in Nat
    BY <2>3, <2>4 DEF IsToken
  <2> DEFINE n == rows[h].position
             c == f[k - 1]
             o == s.offset
  <2>6. /\ n = o + g - 1 /\ h = c + g /\ i = c + j /\ m = o + j - 1 /\ n \in Nat
        /\ c \in Nat /\ o \in Nat /\ j \in Nat /\ g \in Nat /\ h <= i
    <3>1. j \in Nat
      BY <1>1
    <3> QED BY <1>1, <2>1, <2>5, <3>1
  <2> HIDE DEF n, c, o
  <2>7. n \in 0 .. m
    BY ONLY <2>6, SMT
  <2> QED BY <2>5, <2>7 DEF SeenRows, n
<1>5. ASSUME NEW n \in 0 .. s.offset - 1 PROVE PhysicalRow(t, n) \in SeenRows(t, m)
  <2>1. n \in 0 .. m
    BY SMTT(30), <1>1
  <2> QED BY <2>1 DEF SeenRows
<1>6. ASSUME NEW n \in 0 .. m PROVE PhysicalRow(t, n) \in A \cup B
  <2>1. CASE n < s.offset
    <3>1. n \in 0 .. s.offset - 1
      BY <1>1, <2>1
    <3> QED BY <3>1 DEF PastRows
  <2>2. CASE s.offset <= n
    <3> DEFINE g == n - s.offset + 1
               h == f[k - 1] + g
               c == f[k - 1]
               o == s.offset
               z == s.tokens
    <3>1. /\ o \in Nat /\ z \in Nat /\ c \in Nat /\ j \in 1 .. z /\ m = o + j - 1 /\ i = c + j
          /\ n \in 0 .. m /\ o <= n /\ g = n - o + 1 /\ h = c + g
      BY <1>1, <2>2
    <3> HIDE DEF g, h, o, z, c
    <3>2. g \in 1 .. z /\ h \in 1 .. i /\ n = o + g - 1
      BY ONLY <3>1, SMT
    <3>3. IsRow(sources, prefix, batch, f, p, h, k, g)
      BY <3>2, RowsOfSequences DEF h, c, z
    <3>4. IsToken(sources, prefix, batch, f, h, k, g, s, rows[h].position)
      BY <3>3, RowIsToken
    <3>5. rows[h].sequence = k /\ rows[h].position = n /\ PackedWrite(batch, h) = PhysicalRow(t, n)
      BY <3>2, <3>4 DEF IsToken, o
    <3>6. h \in J
      BY <1>1, <3>2, <3>5
    <3> QED BY <3>5, <3>6
  <2>3. s.offset \in Nat /\ n \in Int
    BY <1>1
  <2> QED BY <2>1, <2>2, <2>3
<1>7. A \cup B \subseteq SeenRows(t, m)
  BY <1>4, <1>5 DEF PastRows
<1>8. SeenRows(t, m) \subseteq A \cup B
  BY <1>6 DEF SeenRows
<1> HIDE DEF A, B
<1>9. A \cup B = SeenRows(t, m)
  BY <1>7, <1>8
<1> QED BY <1>2, <1>9 DEF SeesAll

LEMMA PackedSees ==
  ASSUME NEW sources, NEW run, NEW prefix, NEW batch, NEW f, NEW p,
         IsStep(sources, run, prefix, batch, f, p),
         NEW i \in DOMAIN batch.rows, NEW k \in 1 .. Len(batch.sequences), NEW j,
         IsToken(sources, prefix, batch, f, i, k, j, batch.sequences[k], batch.rows[i].position)
  PROVE  SeesAll(batch, i, k, PackedReads(batch, i))
<1> DEFINE m == batch.rows[i].position
           s == batch.sequences[k]
           t == s.table
           e == End(s)
           width == batch.width
<1>1. MaskedReads(batch, i) = SeenRows(t, m)
  <2>1. SeesAll(batch, i, k, MaskedReads(batch, i))
    BY MaskSees
  <2> QED BY <2>1 DEF SeesAll
<1>2. /\ Sound(s, prefix) /\ m \in 0 .. e - 1 /\ e \in Nat /\ IsTable(t, s.req, prefix, e)
      /\ width \in Nat /\ Len(t) <= width
      /\ batch.rows[i].table = Padded(t, width)
      /\ batch.rows[i].kv_len = m + 1
  BY DEF IsToken
<1>3. \A n \in 0 .. m : PhysicalRow(Padded(t, width), n) = PhysicalRow(t, n)
  <2> TAKE n \in 0 .. m
  <2> HIDE DEF t, e, width
  <2>1. n \in 0 .. e - 1
    BY <1>2
  <2> QED BY <1>2, <2>1, PaddedAt
<1>4. KernelReads(batch.rows[i].table, batch.rows[i].kv_len) = SeenRows(t, m)
  <2> DEFINE len == batch.rows[i].kv_len
  <2> HIDE DEF len
  <2>1. len = m + 1
    BY <1>2 DEF len
  <2>2. KernelReads(Padded(t, width), len) = SeenRows(t, m)
    BY SMTT(30), <1>2, <1>3, <2>1, KernelSees
  <2> QED BY <1>2, <2>2 DEF len
<1> QED BY <1>1, <1>4 DEF PackedReads, SeesAll

-----------------------------------------------------------------------------
(* The graphs of the continuous engine.                                    *)

LEMMA BacksRows ==
  ASSUME NEW s, NEW prefix, Sound(s, prefix), NEW m \in 0 .. End(s) - 1
  PROVE  Backs(s.table, m + 1)
<1> DEFINE t == s.table
           e == End(s)
<1>1. e \in Nat /\ IsTable(t, s.req, prefix, e)
  BY DEF Sound
<1>2. m \in 0 .. e - 1
  OBVIOUS
<1> HIDE DEF t, e
<1>3. t \in Seq(Nat) /\ Len(t) \in Nat \ {0} /\ Len(t) * RowsPerBlock >= e
      /\ \A b \in 1 .. Len(t) : t[b] \in Nat /\ (t[b] + 1) * RowsPerBlock <= PhysicalRows
  <2>1. Len(t) \in 1 .. TableBlocks /\ t \in Seq(Nat)
    BY <1>1 DEF IsTable
  <2>2. Len(t) \in Nat \ {0}
    BY <2>1
  <2> QED BY <1>1, <2>1, <2>2 DEF IsTable
<1>4. t # <<>>
  BY <1>3
<1>5. Len(t) * RowsPerBlock >= m + 1
  <2> DEFINE L == Len(t) * RowsPerBlock
  <2>1. L \in Nat /\ L >= e
    BY <1>3, PackingAssumption
  <2> HIDE DEF L
  <2>2. L >= m + 1
    BY <1>1, <1>2, <2>1
  <2> QED BY <2>2 DEF L
<1>6. \A b \in Range(t) : b >= 0 /\ (b + 1) * RowsPerBlock <= PhysicalRows
  <2> TAKE b \in Range(t)
  <2>1. PICK a \in 1 .. Len(t) : b = t[a]
    BY <1>3 DEF Range
  <2> QED BY <1>3, <2>1
<1> QED BY <1>4, <1>5, <1>6 DEF Backs, t

LEMMA LargerOfTwo ==
  ASSUME NEW a \in Int, NEW b \in Int
  PROVE  Max({a, b}) = IF a >= b THEN a ELSE b
<1> DEFINE S == {a, b}
           x == IF a >= b THEN a ELSE b
<1>1. x \in S /\ x \in Int /\ \A y \in S : y \in Int /\ x >= y
  OBVIOUS
<1>2. \A z \in S : (\A y \in S : z >= y) => z = x
  <2> TAKE z \in S
  <2> HIDE DEF S, x
  <2> QED BY <1>1
<1> HIDE DEF S, x
<1>3. Max(S) = CHOOSE z \in S : \A y \in S : z >= y
  BY DEF Max
<1>4. Max(S) = x
  BY <1>1, <1>2, <1>3
<1> QED BY <1>4 DEF S, x

LEMMA SmallerOfTwo ==
  ASSUME NEW a \in Int, NEW b \in Int
  PROVE  Min({a, b}) = IF a <= b THEN a ELSE b
<1> DEFINE S == {a, b}
           x == IF a <= b THEN a ELSE b
<1>1. x \in S /\ x \in Int /\ \A y \in S : y \in Int /\ x <= y
  OBVIOUS
<1>2. \A z \in S : (\A y \in S : z =< y) => z = x
  <2> TAKE z \in S
  <2> HIDE DEF S, x
  <2> QED BY <1>1
<1> HIDE DEF S, x
<1>3. Min(S) = CHOOSE z \in S : \A y \in S : z =< y
  BY DEF Min
<1>4. Min(S) = x
  BY <1>1, <1>2, <1>3
<1> QED BY <1>4 DEF S, x

\* A run of rows within a block leads where the table does.
LEMMA SegmentIs ==
  ASSUME NEW t, NEW i, NEW prefix, NEW e \in Nat, IsTable(t, i, prefix, e),
         NEW m \in 0 .. e - 1, NEW first \in 0 .. m
  PROVE  SegmentRow(t, first, m) = PhysicalRow(t, m)
<1> DEFINE R == RowsPerBlock
           a == m \div R
           r == m % R
           begin == Max({first, m - r})
           c == t[a + 1]
<1>1. /\ R \in Nat \ {0} /\ a \in Nat /\ r \in 0 .. R - 1 /\ m = a * R + r /\ m \in Nat
  <2>1. m \in Nat
    OBVIOUS
  <2> QED BY <2>1, Division
<1>2. c \in Nat
  BY TableAt
<1>3. SegmentRow(t, first, m) = PhysicalRow(t, begin) + m - begin
  BY DEF SegmentRow
<1>4. PhysicalRow(t, m) = c * R + r
  BY DEF PhysicalRow
<1> DEFINE g == a * R
<1>5. g \in Nat /\ m = g + r
  BY <1>1
<1>6. PICK l \in 0 .. r : begin = g + l
  <2> HIDE DEF a, r, g
  <2>1. m - r = g /\ g \in Int /\ first \in Int /\ r \in Nat
    BY <1>1, <1>5
  <2> HIDE DEF begin
  <2>2. begin = IF first >= g THEN first ELSE g
    BY <2>1, LargerOfTwo DEF begin
  <2>3. begin - g \in 0 .. r /\ begin = g + (begin - g)
    BY <1>1, <1>5, <2>1, <2>2
  <2> QED BY <2>3
<1>7. l \in 0 .. R - 1
  BY <1>1, <1>6
<1> HIDE DEF begin
<1>8. begin \div R = a /\ begin % R = l
  <2> HIDE DEF a
  <2>1. begin = a * RowsPerBlock + l /\ l \in 0 .. RowsPerBlock - 1
    BY <1>6, <1>7
  <2> QED BY <1>1, <2>1, Quotient
<1>9. PhysicalRow(t, begin) = c * R + l
  BY <1>8 DEF PhysicalRow
<1> DEFINE d == c * R
<1>10. d \in Nat
  BY <1>1, <1>2
<1>11. PhysicalRow(t, begin) = d + l /\ PhysicalRow(t, m) = d + r
  BY <1>4, <1>9
<1> HIDE DEF d, g, r, a, c
<1>12. (d + l) + m - begin = d + r
  BY <1>1, <1>5, <1>6, <1>10
<1> QED BY <1>3, <1>11, <1>12

LEMMA ForwardAgrees ==
  ASSUME NEW s, NEW prefix, Sound(s, prefix), NEW m \in s.offset .. End(s) - 1
  PROVE  /\ ForwardWrite(s, m) = PhysicalRow(s.table, m)
         /\ ForwardReads(s, m) = SeenRows(s.table, m)
<1> DEFINE t == s.table
           e == End(s)
           o == s.offset
           n == s.tokens
<1>1. o \in Nat /\ n \in Nat \ {0} /\ e \in Nat /\ e = o + n /\ IsTable(t, s.req, prefix, e)
  BY DEF Sound, End
<1>2. m \in 0 .. e - 1 /\ o \in 0 .. m /\ m \in Nat
  BY <1>1
<1> HIDE DEF t, e, o, n
<1>3. ForwardWrite(s, m) = PhysicalRow(t, m)
  <2>1. ForwardWrite(s, m) = SegmentRow(t, o, m)
    BY DEF ForwardWrite, t, o
  <2> QED BY <1>1, <1>2, <2>1, SegmentIs
<1>4. ASSUME n = 1 PROVE ForwardReads(s, m) = SeenRows(t, m)
  <2> DEFINE len == o + 1
  <2>1. ForwardReads(s, m) = KernelReads(t, len)
    BY <1>4 DEF ForwardReads, t, o, n
  <2>2. len = m + 1
    BY <1>1, <1>2, <1>4
  <2> HIDE DEF len
  <2>3. KernelReads(s.table, len) = SeenRows(s.table, m)
    BY <1>2, <2>2, KernelSees DEF e
  <2> QED BY <2>1, <2>3 DEF t
<1>5. ASSUME n # 1 PROVE ForwardReads(s, m) = SeenRows(t, m)
  <2> DEFINE G == [h \in 0 .. o + n - 1 |-> SegmentRow(t, 0, h)]
  <2>1. ForwardReads(s, m) = {G[h] : h \in {h \in DOMAIN G : h <= o + (m - o)}}
    BY <1>5 DEF ForwardReads, t, o, n
  <2>2. {h \in DOMAIN G : h <= o + (m - o)} = 0 .. m
    <3>1. DOMAIN G = 0 .. e - 1
      BY <1>1
    <3> HIDE DEF G
    <3> QED BY <1>1, <1>2, <3>1
  <2>3. \A h \in 0 .. m : G[h] = PhysicalRow(t, h)
    <3> TAKE h \in 0 .. m
    <3>1. h \in 0 .. e - 1 /\ 0 \in 0 .. h /\ h \in 0 .. o + n - 1
      BY <1>1, <1>2
    <3>2. SegmentRow(t, 0, h) = PhysicalRow(t, h)
      BY <1>1, <3>1, SegmentIs
    <3> QED BY <3>1, <3>2
  <2> HIDE DEF G
  <2> QED BY <2>1, <2>2, <2>3 DEF SeenRows
<1> QED BY <1>3, <1>4, <1>5 DEF t

LEMMA RangeAgrees ==
  ASSUME NEW s, NEW prefix, Sound(s, prefix), IsPrompt(s), s.logits \in BOOLEAN
  PROVE  ChunkRange(s, s.tokens)
           = [local |-> s.offset - prefix, tokens |-> s.tokens, logits |-> s.logits]
<1> DEFINE o == s.offset
           n == s.tokens
           c == s.prompt
<1>1. /\ o \in Nat /\ n \in Nat /\ c \in Nat /\ o + n <= c /\ s.prefix = prefix
      /\ s.logits <=> o + n = c
  BY DEF Sound, End
<1> HIDE DEF o, n, c
<1>2. Min({n, c - o}) = n
  <2>1. Min({n, c - o}) = IF n <= c - o THEN n ELSE c - o
    BY <1>1, SmallerOfTwo
  <2> QED BY <1>1, <2>1
<1>3. ChunkRange(s, n) = [local |-> o - prefix, tokens |-> n, logits |-> o + n = c]
  BY <1>1, <1>2 DEF ChunkRange, o, c
<1>4. (o + n = c) = s.logits
  BY <1>1
<1> QED BY <1>3, <1>4 DEF o, n

LEMMA BatchAgrees ==
  ASSUME NEW sources, NEW run, NEW prefix, IsInput(sources, run, prefix),
         NEW s \in Range(sources), ~IsPrompt(s)
  PROVE  \E k \in DOMAIN Decodes(sources) :
           /\ Decodes(sources)[k] = s
           /\ BatchWrite(Decodes(sources), k) = PhysicalRow(s.table, s.offset)
           /\ BatchReads(Decodes(sources), k) = SeenRows(s.table, s.offset)
<1> DEFINE T == Range(sources)
           D == {x \in T : ~IsPrompt(x)}
           d == Decodes(sources)
           id == [x \in T |-> x]
           L == {Len(x.table) : x \in Range(d)}
           W == WidestTable(d)
<1>1. sources \in Seq(T) /\ d = Only(sources, D)
  BY DEF IsInput, Packs, Decodes
<1>2. d \in Seq(T) /\ Range(d) = T \cap D
  <2> HIDE DEF T, D, d
  <2>1. Only(sources, D) \in Seq(T) /\ Range(Only(sources, D)) = Range(sources) \cap D
    BY <1>1, OnlyFacts
  <2> QED BY <1>1, <2>1 DEF T
<1>3. s \in Range(d) /\ Range(d) \subseteq T
  BY <1>2
<1>4. PICK k \in DOMAIN d : d[k] = s
  BY <1>3 DEF Range
<1>5. \A x \in T : Len(x.table) \in 1 .. TableBlocks /\ Sound(x, prefix)
  <2> TAKE x \in T
  <2>1. Sound(x, prefix)
    BY DEF IsInput
  <2> QED BY <2>1 DEF Sound, IsTable
<1>6. TableBlocks \in Nat
  <2>1. MaxPrompt + MaxTokens \in Nat
    BY ConfigAssumption, BoundsAssumption
  <2>2. (MaxPrompt + MaxTokens) \div RowsPerBlock \in Nat
    BY <2>1, Division
  <2> QED BY <2>2 DEF TableBlocks
<1>7. W \in Nat /\ Len(s.table) <= W
  <2>1. L \in SUBSET Nat /\ Len(s.table) \in L /\ \A n \in L : n <= TableBlocks
    <3>1. \A x \in Range(d) : Len(x.table) \in Nat /\ Len(x.table) <= TableBlocks
      <4> TAKE x \in Range(d)
      <4> DEFINE l == Len(x.table)
      <4>1. l \in 1 .. TableBlocks
        BY <1>3, <1>5
      <4> HIDE DEF l
      <4>2. l \in Nat /\ l <= TableBlocks
        BY <1>6, <4>1
      <4> QED BY <4>2 DEF l
    <3> QED BY <1>3, <3>1
  <2>2. W = Max(L)
    BY DEF WidestTable
  <2> HIDE DEF L, W
  <2>3. Max(L) \in L /\ \A n \in L : n <= Max(L)
    BY <1>6, <2>1, Greatest
  <2> QED BY <2>1, <2>2, <2>3
<1> DEFINE t == s.table
           e == End(s)
           u == BatchTable(d, k)
           o == s.offset
<1>8. /\ Sound(s, prefix) /\ e \in Nat /\ IsTable(t, s.req, prefix, e)
      /\ o \in Nat /\ s.tokens = 1 /\ e = o + 1
  <2>1. Sound(s, prefix)
    BY <1>5
  <2> QED BY <2>1 DEF Sound, End
<1>9. u = [b \in 1 .. W |-> IF b <= Len(t) THEN t[b] ELSE 0]
  BY <1>4 DEF BatchTable
<1> HIDE DEF t, e, o, u, W, d
<1>10. \A n \in 0 .. o : PhysicalRow(u, n) = PhysicalRow(t, n)
  <2> TAKE n \in 0 .. o
  <2> DEFINE b == n \div RowsPerBlock + 1
  <2>1. n \in 0 .. e - 1
    BY <1>8
  <2>2. b \in 1 .. Len(t) /\ Len(t) \in Nat
    BY <1>8, <2>1, TableAt
  <2> HIDE DEF b
  <2>3. b \in 1 .. W /\ b <= Len(t)
    BY <1>7, <2>2 DEF t
  <2>4. u[b] = t[b]
    BY <1>9, <2>3
  <2> QED BY <2>4 DEF b, PhysicalRow
<1>11. BatchWrite(d, k) = PhysicalRow(t, o)
  <2>1. BatchWrite(d, k) = PhysicalRow(u, o)
    BY <1>4 DEF BatchWrite, u, o
  <2>2. o \in 0 .. o
    BY <1>8
  <2> QED BY <1>10, <2>1, <2>2
<1>12. BatchReads(d, k) = SeenRows(t, o)
  <2> DEFINE len == o + 1
  <2>1. BatchReads(d, k) = KernelReads(u, len)
    BY <1>4 DEF BatchReads, u, o
  <2>2. o \in 0 .. e - 1
    BY <1>8
  <2>3. len = o + 1
    OBVIOUS
  <2> HIDE DEF len
  <2>4. KernelReads(u, len) = SeenRows(s.table, o)
    BY <1>8, <1>10, <2>2, <2>3, KernelSees DEF t, e
  <2> QED BY <2>1, <2>4 DEF t
<1> QED BY <1>4, <1>11, <1>12 DEF d, t, o

-----------------------------------------------------------------------------
(* Slots, layers and copied rows.                                          *)

LEMMA SlotRowIs ==
  ASSUME NEW slot \in 0 .. Slots - 1, NEW layer \in 0 .. Layers - 1, NEW m \in Nat
  PROVE  /\ SlotRow(slot, layer, m) = (slot * Layers + layer) * ContextRows + m
         /\ SlotRow(slot, layer, 0) + m = SlotRow(slot, layer, m)
         /\ slot * Layers + layer \in Nat
<1>1. Slots \in Nat \ {0} /\ Layers \in Nat \ {0} /\ ContextRows \in Nat
  BY PackingAssumption
<1>2. slot \in Nat /\ slot <= Slots - 1 /\ layer \in Nat
  BY <1>1
<1>3. SlotOf(slot) = slot
  <2>1. Slots - 1 \in Int
    BY <1>1
  <2>2. Min({slot, Slots - 1}) = slot
    BY <1>2, <2>1, SmallerOfTwo
  <2>3. Max({0, slot}) = IF 0 >= slot THEN 0 ELSE slot
    BY <1>2, LargerOfTwo
  <2>4. Max({0, slot}) = slot
    BY <1>2, <2>3
  <2> QED BY <2>2, <2>4 DEF SlotOf
<1>4. \A n \in Nat : SlotRow(slot, layer, n) = slot * Layers * ContextRows + layer * ContextRows + n
  BY <1>3 DEF SlotRow
<1> DEFINE x == slot * Layers
           y == layer * ContextRows
<1>5. x \in Nat /\ y \in Nat
  BY <1>1, <1>2
<1> HIDE DEF x
<1>6. (x + layer) * ContextRows = x * ContextRows + y
  BY <1>1, <1>2, <1>5
<1> HIDE DEF y
<1> DEFINE z == x * ContextRows
<1>7. z \in Nat
  BY <1>1, <1>5
<1>8. \A n \in Nat : SlotRow(slot, layer, n) = z + y + n
  BY <1>4 DEF x, y
<1> HIDE DEF z
<1>9. SlotRow(slot, layer, 0) = z + y + 0 /\ SlotRow(slot, layer, m) = z + y + m
  BY <1>8
<1>10. SlotRow(slot, layer, 0) + m = SlotRow(slot, layer, m)
  BY <1>5, <1>7, <1>9
<1>11. SlotRow(slot, layer, m) = (x + layer) * ContextRows + m
  BY <1>6, <1>9 DEF z
<1> QED BY <1>2, <1>5, <1>10, <1>11 DEF x

LEMMA SlotSees ==
  ASSUME NEW s, s.offset \in Nat, s.tokens \in Nat,
         NEW slot \in 0 .. Slots - 1, NEW layer \in 0 .. Layers - 1, NEW m \in Positions(s)
  PROVE  SlotReads(s, slot, layer, m) = {SlotRow(slot, layer, n) : n \in 0 .. m}
<1> DEFINE o == s.offset
           e == s.offset + s.tokens
           Q == {r \in 0 .. e - 1 : r <= o + (m - o)}
<1>1. SlotReads(s, slot, layer, m) = {SlotRow(slot, layer, 0) + r : r \in Q}
  BY DEF SlotReads
<1>2. o \in Nat /\ e \in Nat /\ m \in o .. e - 1
  BY DEF Positions
<1>3. Q = 0 .. m
  <2> HIDE DEF o, e
  <2> QED BY <1>2
<1> HIDE DEF Q
<1>4. \A r \in 0 .. m : SlotRow(slot, layer, 0) + r = SlotRow(slot, layer, r)
  <2> TAKE r \in 0 .. m
  <2>1. r \in Nat
    OBVIOUS
  <2> QED BY <2>1, SlotRowIs
<1> QED BY <1>1, <1>3, <1>4

LEMMA SlotsApart ==
  ASSUME NEW a \in 0 .. Slots - 1, NEW b \in 0 .. Slots - 1,
         NEW k \in 0 .. Layers - 1, NEW l \in 0 .. Layers - 1,
         NEW m \in 0 .. ContextRows - 1, NEW n \in 0 .. ContextRows - 1,
         SlotRow(a, k, m) = SlotRow(b, l, n)
  PROVE  a = b /\ k = l
<1>1. Slots \in Nat \ {0} /\ Layers \in Nat \ {0} /\ ContextRows \in Nat
  BY PackingAssumption
<1>2. a \in Nat /\ b \in Nat /\ m \in Nat /\ n \in Nat /\ ContextRows \in Nat \ {0}
  BY <1>1
<1> DEFINE x == a * Layers + k
           y == b * Layers + l
<1>3. /\ SlotRow(a, k, m) = x * ContextRows + m /\ x \in Nat
      /\ SlotRow(b, l, n) = y * ContextRows + n /\ y \in Nat
  BY <1>2, SlotRowIs
<1> HIDE DEF x, y
<1>4. x * ContextRows + m = y * ContextRows + n
  BY <1>3
<1>5. x = y
  BY ONLY <1>2, <1>3, <1>4, m \in 0 .. ContextRows - 1, n \in 0 .. ContextRows - 1, OneQuotient
<1>6. a * Layers + k = b * Layers + l
  BY <1>5 DEF x, y
<1> QED BY ONLY <1>1, <1>2, <1>6, k \in 0 .. Layers - 1, l \in 0 .. Layers - 1, OneQuotient

LEMMA CopiesAre ==
  ASSUME NEW s, NEW prefix, Sound(s, prefix), prefix % RowsPerBlock > 0
  PROVE  CopyAgrees(s, prefix)
<1> DEFINE R == RowsPerBlock
           a == prefix \div R
           r == prefix % R
           b == a + 1
           t == s.table
           e == End(s)
           x == BlockOf[<<0, b>>]
           y == t[b]
           shared == {prefix - i : i \in 1 .. r}
           From(q) == x * R + (q % R)
           U == CopiedRows(x, y, r)
           V == {<<LayerRow(layer, From(q)), LayerRow(layer, PhysicalRow(t, q))>> :
                       layer \in 0 .. Layers - 1, q \in shared}
<1>1. /\ R \in Nat \ {0} /\ a \in Nat /\ r \in 0 .. R - 1 /\ prefix = a * R + r /\ r > 0
      /\ prefix \in Nat
  <2>1. prefix \in Nat
    BY DEF Sound
  <2> QED BY <2>1, Division
<1>2. e \in Nat /\ prefix \in 0 .. e - 1 /\ IsTable(t, s.req, prefix, e) /\ s.req \in Indices
  <2>1. /\ e \in Nat /\ e = s.offset + s.tokens /\ s.offset \in Nat /\ s.tokens \in Nat \ {0}
        /\ prefix \in Nat /\ prefix <= s.offset
    BY DEF Sound, End
  <2>2. prefix \in 0 .. e - 1
    BY <2>1
  <2> QED BY <2>1, <2>2 DEF Sound
<1>3. /\ b \in 1 .. Len(t) /\ y = BlockOf[<<Owner(s.req, prefix, b), b>>] /\ y \in Nat
      /\ (y + 1) * R <= PhysicalRows
  <2> HIDE DEF t, e
  <2>1. /\ b \in 1 .. Len(t) /\ t[b] = BlockOf[<<Owner(s.req, prefix, b), b>>] /\ t[b] \in Nat
        /\ (t[b] + 1) * RowsPerBlock <= PhysicalRows
    BY <1>2, TableAt
  <2> QED BY <2>1
<1>4. Owner(s.req, prefix, b) = s.req
  <2>1. ~(b <= a)
    BY <1>1
  <2> QED BY <2>1 DEF Owner
<1>5. b \in 1 .. TableBlocks
  <2> HIDE DEF t, e, b
  <2> QED BY <1>2, <1>3 DEF IsTable
<1> HIDE DEF a, r, e, t
<1>6. x \in Nat /\ (x + 1) * R <= PhysicalRows /\ x # y
  <2>1. <<0, b>> \in DOMAIN BlockOf /\ <<s.req, b>> \in DOMAIN BlockOf /\ s.req # 0
    <3>1. DOMAIN BlockOf = (0 .. NumRequests) \X (1 .. TableBlocks)
      BY StepAssumption
    <3>2. 0 \in 0 .. NumRequests /\ s.req \in 0 .. NumRequests /\ s.req # 0
      BY <1>2, BoundsAssumption DEF Indices
    <3> HIDE DEF b
    <3> QED BY <1>5, <3>1, <3>2
  <2> HIDE DEF b
  <2>2. x \in Nat /\ (x + 1) * R <= PhysicalRows
    BY <2>1, StepAssumption
  <2>3. <<0, b>> # <<s.req, b>>
    BY <2>1
  <2>4. x # y
    BY <1>3, <1>4, <2>1, <2>3, StepAssumption
  <2> QED BY <2>2, <2>4
<1> HIDE DEF x, y, b
<1>7. x < PhysicalRows \div R /\ y < PhysicalRows \div R
  <2>1. ASSUME NEW z \in Nat, (z + 1) * R <= PhysicalRows PROVE z < PhysicalRows \div R
    <3> DEFINE c == PhysicalRows \div R
               l == PhysicalRows % R
    <3>1. c \in Nat /\ l \in 0 .. R - 1 /\ PhysicalRows = c * R + l /\ PhysicalRows \in Nat
      <4>1. PhysicalRows \in Nat
        BY PackingAssumption
      <4> QED BY <4>1, Division
    <3> HIDE DEF c, l, R
    <3>2. ASSUME c <= z PROVE FALSE
      <4>1. c * R + R <= (z + 1) * R
        <5>1. c < z + 1 /\ z + 1 \in Int /\ c \in Int
          BY <2>1, <3>1, <3>2
        <5> QED BY <1>1, <5>1, Multiples
      <4> DEFINE g == c * R
                 h == (z + 1) * R
      <4>2. g \in Nat /\ h \in Nat /\ g + R <= h /\ h <= g + l
        BY <1>1, <2>1, <3>1, <4>1
      <4> HIDE DEF g, h
      <4> QED BY <1>1, <3>1, <4>2
    <3>3. z < c
      BY <2>1, <3>1, <3>2
    <3> QED BY <3>3 DEF c
  <2> QED BY <1>3, <1>6, <2>1
<1>8. MayCopyRows(x, y, r)
  <2>1. r < R /\ x >= 0 /\ y >= 0
    BY <1>1, <1>3, <1>6
  <2> QED BY <1>1, <1>6, <1>7, <2>1 DEF MayCopyRows
<1>9. ASSUME NEW i \in 0 .. r - 1
      PROVE  /\ a * R + i \in shared /\ From(a * R + i) = x * R + i
             /\ PhysicalRow(t, a * R + i) = y * R + i
  <2> DEFINE q == a * R + i
  <2>1. i \in 0 .. R - 1
    BY <1>1
  <2>2. q \div R = a /\ q % R = i
    BY <1>1, <2>1, Quotient
  <2>3. q \in shared
    <3> DEFINE g == a * R
    <3>1. g \in Nat /\ prefix = g + r /\ q = g + i
      BY <1>1
    <3> HIDE DEF g, q
    <3>2. r - i \in 1 .. r /\ q = prefix - (r - i)
      BY <1>1, <3>1
    <3> QED BY <3>2
  <2> QED BY <2>2, <2>3 DEF PhysicalRow, b, y
<1>10. ASSUME NEW q \in shared PROVE \E i \in 0 .. r - 1 : q = a * R + i
  <2>1. PICK i \in 1 .. r : q = prefix - i
    OBVIOUS
  <2> DEFINE g == a * R
  <2>2. g \in Nat /\ prefix = g + r
    BY <1>1
  <2> HIDE DEF g
  <2>3. r - i \in 0 .. r - 1 /\ q = g + (r - i)
    BY <1>1, <2>1, <2>2
  <2> QED BY <2>3 DEF g
<1> DEFINE Pair(layer, i) == <<LayerRow(layer, x * R + i), LayerRow(layer, y * R + i)>>
<1>11. U = {Pair(layer, i) : layer \in 0 .. Layers - 1, i \in 0 .. r - 1}
  BY DEF CopiedRows
<1>12. ASSUME NEW layer \in 0 .. Layers - 1, NEW i \in 0 .. r - 1 PROVE Pair(layer, i) \in V
  <2> DEFINE q == a * R + i
  <2>1. q \in shared /\ From(q) = x * R + i /\ PhysicalRow(t, q) = y * R + i
    BY <1>9
  <2> HIDE DEF q, shared, From
  <2> QED BY <2>1
<1>13. ASSUME NEW layer \in 0 .. Layers - 1, NEW q \in shared
       PROVE  \E i \in 0 .. r - 1 :
                <<LayerRow(layer, From(q)), LayerRow(layer, PhysicalRow(t, q))>> = Pair(layer, i)
  <2>1. PICK i \in 0 .. r - 1 : q = a * R + i
    BY <1>10
  <2>2. From(q) = x * R + i /\ PhysicalRow(t, q) = y * R + i
    BY <1>9, <2>1
  <2> HIDE DEF From
  <2> QED BY <2>2
<1> HIDE DEF shared, From, Pair, U
<1>14. U \subseteq V
  BY <1>11, <1>12
<1>15. V \subseteq U
  BY <1>11, <1>13
<1>16. U = V
  <2> HIDE DEF V
  <2> QED BY <1>14, <1>15
<1>17. MayCopyRows(x, y, r) /\ U = V
  BY <1>8, <1>16
<1> QED BY <1>17 DEF U, V, shared, From, x, y, b, a, r, t, Pair, CopyAgrees

\* What TokensAgree says of row i.
GraphsAgreeFor(sources, prefix, batch, i, Written) ==
  LET s        == batch.sequences[batch.rows[i].sequence]
      p        == batch.rows[i].position
      rows     == RowsOfPrefix(s, prefix, p)
      decoders == Decodes(sources)
  IN  /\ PackedReads(batch, i) = rows
      /\ Backs(s.table, p + 1)
      /\ PastRows(s) \cap Range(Written) = {}
      /\ IF IsPrompt(s)
         THEN /\ ForwardWrite(s, p) = Written[i]
              /\ ForwardReads(s, p) = rows
              /\ ChunkRange(s, s.tokens)
                   = [local |-> Slice(batch, batch.rows[i].sequence).source,
                      tokens |-> s.tokens, logits |-> s.logits]
         ELSE \E k \in DOMAIN decoders :
                /\ decoders[k] = s
                /\ BatchWrite(decoders, k) = Written[i]
                /\ BatchReads(decoders, k) = rows

LEMMA GraphsAgreeAt ==
  ASSUME NEW sources, NEW run, NEW prefix, NEW batch, NEW f, NEW p,
         IsStep(sources, run, prefix, batch, f, p), NEW i \in DOMAIN batch.rows,
         NEW Written, Written = [h \in DOMAIN batch.rows |-> PackedWrite(batch, h)]
  PROVE  GraphsAgreeFor(sources, prefix, batch, i, Written)
<1> DEFINE q == batch.sequences
           m == batch.rows[i].position
<1>1. PICK k \in 1 .. Len(q) : \E j \in Nat : IsToken(sources, prefix, batch, f, i, k, j, q[k], m)
  BY RowsAreTokens
<1>2. PICK j \in Nat : IsToken(sources, prefix, batch, f, i, k, j, q[k], m)
  BY <1>1
<1> DEFINE s == q[k]
           rows == RowsOfPrefix(s, prefix, m)
           decoders == Decodes(sources)
<1>3. /\ batch.rows[i].sequence = k /\ Sound(s, prefix) /\ s \in Range(sources)
      /\ m \in 0 .. End(s) - 1 /\ s.offset \in Nat /\ s.tokens \in Nat /\ s.offset <= m /\ m \in Nat
      /\ End(s) = s.offset + s.tokens
      /\ PackedWrite(batch, i) = PhysicalRow(s.table, m)
  BY <1>2 DEF IsToken
<1>4. rows = SeenRows(s.table, m)
  BY <1>3, SeenInTable
<1>5. PackedReads(batch, i) = SeenRows(s.table, m)
  <2>1. SeesAll(batch, i, k, PackedReads(batch, i))
    BY <1>2, PackedSees
  <2> QED BY <2>1 DEF SeesAll
<1>6. Backs(s.table, m + 1)
  BY <1>3, BacksRows
<1>7. PastRows(s) \cap Range(Written) = {}
  <2>1. ASSUME NEW x \in PastRows(s), x \in Range(Written) PROVE FALSE
    <3>1. PICK n \in 0 .. s.offset - 1 : x = PhysicalRow(s.table, n)
      BY <2>1 DEF PastRows
    <3>2. PICK h \in DOMAIN batch.rows : x = PackedWrite(batch, h)
      BY <2>1 DEF Range
    <3> QED BY <3>1, <3>2, PastUntouched
  <2> QED BY <2>1
<1>8. Written[i] = PhysicalRow(s.table, m)
  BY <1>3
<1>9. ASSUME IsPrompt(s)
      PROVE  /\ ForwardWrite(s, m) = Written[i]
             /\ ForwardReads(s, m) = rows
             /\ ChunkRange(s, s.tokens)
                  = [local |-> Slice(batch, k).source, tokens |-> s.tokens, logits |-> s.logits]
  <2>1. m \in s.offset .. End(s) - 1
    BY <1>3
  <2>2. ForwardWrite(s, m) = PhysicalRow(s.table, m) /\ ForwardReads(s, m) = SeenRows(s.table, m)
    BY <1>3, <2>1, ForwardAgrees
  <2>3. Slice(batch, k).source = s.offset - prefix
    BY <1>9, SliceOfSequence
  <2>4. s.logits \in BOOLEAN
    <3>1. PICK x \in Range(run) :
            /\ q[k].req = x.req /\ q[k].kind = x.kind /\ q[k].offset = x.offset
            /\ q[k].tokens = x.tokens /\ q[k].logits = x.logits
      BY SequencesOfRun
    <3>2. x \in ScheduledSequence
      BY DEF IsStep, IsRun, Runnable
    <3> QED BY <3>1, <3>2 DEF ScheduledSequence
  <2>5. ChunkRange(s, s.tokens)
          = [local |-> s.offset - prefix, tokens |-> s.tokens, logits |-> s.logits]
    BY <1>3, <1>9, <2>4, RangeAgrees
  <2> HIDE DEF rows
  <2> QED BY <1>4, <1>8, <2>2, <2>3, <2>5
<1>10. ASSUME ~IsPrompt(s)
       PROVE  \E l \in DOMAIN decoders : /\ decoders[l] = s
                                         /\ BatchWrite(decoders, l) = Written[i]
                                         /\ BatchReads(decoders, l) = rows
  <2>1. IsInput(sources, run, prefix)
    BY DEF IsStep
  <2>2. m = s.offset
    <3>1. s.tokens = 1
      BY <1>3, <1>10 DEF Sound
    <3> DEFINE o == s.offset
               e == End(s)
    <3>2. o \in Nat /\ e = o + 1 /\ m \in 0 .. e - 1 /\ o <= m
      BY <1>3, <3>1
    <3> HIDE DEF o, e, m
    <3>3. m = o
      BY <3>2
    <3> QED BY <3>3 DEF o
  <2> HIDE DEF s, rows, m
  <2>3. \E l \in DOMAIN decoders : /\ decoders[l] = s
                                  /\ BatchWrite(decoders, l) = PhysicalRow(s.table, s.offset)
                                  /\ BatchReads(decoders, l) = SeenRows(s.table, s.offset)
    BY <1>3, <1>10, <2>1, BatchAgrees
  <2> QED BY <1>4, <1>8, <2>2, <2>3
<1> HIDE DEF rows
<1>11. /\ PackedReads(batch, i) = rows
       /\ Backs(s.table, m + 1)
       /\ PastRows(s) \cap Range(Written) = {}
       /\ IsPrompt(s) => /\ ForwardWrite(s, m) = Written[i]
                         /\ ForwardReads(s, m) = rows
                         /\ ChunkRange(s, s.tokens)
                              = [local |-> Slice(batch, k).source, tokens |-> s.tokens,
                                 logits |-> s.logits]
       /\ ~IsPrompt(s) => \E l \in DOMAIN decoders : /\ decoders[l] = s
                                                     /\ BatchWrite(decoders, l) = Written[i]
                                                     /\ BatchReads(decoders, l) = rows
  BY <1>4, <1>5, <1>6, <1>7, <1>9, <1>10
<1> QED BY <1>3, <1>11 DEF rows, GraphsAgreeFor

LEMMA EachInItsSlot ==
  ASSUME NEW run, IsRun(run)
  PROVE  SlotsAgree(run)
<1>1. ASSUME NEW h \in DOMAIN run
      PROVE  /\ h - 1 \in 0 .. Slots - 1 /\ h \in Nat
             /\ run[h].offset \in Nat /\ run[h].tokens \in Nat
             /\ run[h].offset + run[h].tokens <= ContextRows
  <2>1. h \in 1 .. Len(run) /\ Len(run) \in Nat /\ Len(run) <= MaxSeqs /\ run[h] \in Range(run)
    BY DEF IsRun, Range
  <2>2. MaxSeqs <= Slots /\ MaxSeqs \in Nat /\ Slots \in Nat
    BY StepAssumption, ConfigAssumption, PackingAssumption
  <2>3. h - 1 \in 0 .. Slots - 1 /\ h \in Nat
    <3> DEFINE n == Len(run)
    <3>1. h \in 1 .. n /\ n \in Nat /\ n <= MaxSeqs
      BY <2>1
    <3> HIDE DEF n
    <3> QED BY <2>2, <3>1
  <2>4. Runnable(run[h], reqs[run[h].req])
    BY <2>1 DEF IsRun
  <2>5. /\ run[h].offset \in Nat /\ run[h].tokens \in Nat
        /\ run[h].offset + run[h].tokens <= MaxPrompt + MaxTokens
    BY <2>4 DEF Runnable, ScheduledSequence
  <2>6. MaxPrompt + MaxTokens <= ContextRows /\ MaxPrompt + MaxTokens \in Nat /\ ContextRows \in Nat
    BY StepAssumption, ConfigAssumption, BoundsAssumption, PackingAssumption
  <2> DEFINE z == MaxPrompt + MaxTokens
             y == run[h].offset + run[h].tokens
  <2>7. y <= z /\ z <= ContextRows /\ y \in Nat /\ z \in Nat /\ ContextRows \in Nat
    BY <2>5, <2>6
  <2> HIDE DEF z, y
  <2>8. y <= ContextRows
    BY <2>7
  <2> QED BY <2>3, <2>5, <2>8 DEF y
<1>2. ASSUME NEW h \in DOMAIN run, NEW l \in 0 .. Layers - 1, NEW x \in SlotRowsOf(run, h, l)
      PROVE  \E m \in 0 .. ContextRows - 1 : x = SlotRow(h - 1, l, m)
  <2> DEFINE e == run[h].offset + run[h].tokens
  <2>1. SlotRowsOf(run, h, l) = {SlotRow(h - 1, l, n) : n \in 0 .. e - 1}
    <3>1. run[h].offset + run[h].tokens - 1 = e - 1
      BY <1>1
    <3> HIDE DEF e
    <3> QED BY <3>1 DEF SlotRowsOf
  <2>2. e \in Nat /\ e <= ContextRows /\ ContextRows \in Nat
    BY <1>1, PackingAssumption
  <2> HIDE DEF e
  <2>3. PICK m \in 0 .. e - 1 : x = SlotRow(h - 1, l, m)
    BY <1>2, <2>1, <2>2
  <2>4. m \in 0 .. ContextRows - 1
    BY <2>2
  <2> QED BY <2>3, <2>4
<1>3. ASSUME NEW k \in DOMAIN run, NEW layer \in 0 .. Layers - 1, NEW m \in Positions(run[k])
      PROVE  SlotReads(run[k], k - 1, layer, m) = {SlotRow(k - 1, layer, q) : q \in 0 .. m}
  BY <1>1, SlotSees
<1>4. ASSUME NEW k \in DOMAIN run, NEW layer \in 0 .. Layers - 1,
             NEW other \in 0 .. Layers - 1, NEW j \in DOMAIN run, <<j, other>> # <<k, layer>>
      PROVE  SlotRowsOf(run, k, layer) \cap SlotRowsOf(run, j, other) = {}
  <2>1. ASSUME NEW x \in SlotRowsOf(run, k, layer), x \in SlotRowsOf(run, j, other) PROVE FALSE
    <3>1. PICK m \in 0 .. ContextRows - 1 : x = SlotRow(k - 1, layer, m)
      BY <1>2
    <3>2. PICK n \in 0 .. ContextRows - 1 : x = SlotRow(j - 1, other, n)
      BY <1>2, <2>1
    <3>3. k - 1 \in 0 .. Slots - 1 /\ j - 1 \in 0 .. Slots - 1 /\ k \in Nat /\ j \in Nat
      BY <1>1
    <3>4. k - 1 = j - 1 /\ layer = other
      BY <3>1, <3>2, <3>3, SlotsApart
    <3> QED BY <1>4, <3>3, <3>4
  <2> QED BY <2>1
<1> QED BY <1>3, <1>4 DEF SlotsAgree

(* Whatever is carried out of a plan, every graph that computes one of its *)
(* tokens writes and reads the same rows, and no two tokens share one.     *)
THEOREM GraphsAgree == Spec => []GraphsAgreeOnRows
<1>1. ASSUME Inv, Bounded, Fresh, NEW run \in Runs, NEW prefix \in SharedPrefixes(run)
      PROVE  LET sources == Sources(run, prefix)
             IN  /\ TokensAgree(sources, prefix)
                 /\ SlotsAgree(run)
                 /\ \A s \in Range(sources) : Sound(s, prefix)
  <2> DEFINE sources == Sources(run, prefix)
             batch   == Pack(sources)
             Written == [i \in DOMAIN batch.rows |-> PackedWrite(batch, i)]
  <2>1. PICK f, p : IsStep(sources, run, prefix, batch, f, p)
    BY <1>1, StepIs
  <2> HIDE DEF sources
  <2>2. batch = Pack(sources)
    OBVIOUS
  <2> HIDE DEF batch
  <2>3. IsInjective(Written)
    <3>1. \A a, b \in DOMAIN batch.rows : PackedWrite(batch, a) = PackedWrite(batch, b) => a = b
      BY <2>1, WritesApart
    <3> QED BY <3>1 DEF IsInjective
  <2>4. TokensAgree(sources, prefix)
    <3> SUFFICES ASSUME NEW i \in DOMAIN batch.rows
                 PROVE  GraphsAgreeFor(sources, prefix, batch, i, Written)
      BY <2>3 DEF TokensAgree, GraphsAgreeFor, batch
    <3> HIDE DEF Written
    <3>1. Written = [h \in DOMAIN batch.rows |-> PackedWrite(batch, h)]
      BY DEF Written
    <3> QED BY <2>1, <3>1, GraphsAgreeAt
  <2>5. IsRun(run) /\ IsInput(sources, run, prefix)
    BY <2>1 DEF IsStep
  <2>6. SlotsAgree(run)
    BY <2>5, EachInItsSlot
  <2>7. \A s \in Range(sources) : Sound(s, prefix)
    BY <2>5 DEF IsInput
  <2> QED BY <2>4, <2>6, <2>7 DEF sources
<1>2. ASSUME Inv, Bounded
      PROVE  GraphsAgreeOnRows
  <2>1. ASSUME NEW run, NEW prefix, \A s \in Range(Sources(run, prefix)) : Sound(s, prefix)
        PROVE  prefix % RowsPerBlock > 0 => \A s \in Range(Sources(run, prefix)) : CopyAgrees(s, prefix)
    BY <2>1, CopiesAre
  <2> QED BY <1>1, <1>2, <2>1 DEF GraphsAgreeOnRows
<1> QED BY <1>2, BoundedInvariant, PTL

=============================================================================
