------------------------ MODULE UnifiedEngineProofs ------------------------
(***************************************************************************)
(* The unified engine (UnifiedEngine) keeps its promises for any recording *)
(* (any number of chunks, of any length), any batch size, pool, context    *)
(* and limits of a round, and whether or not a frontend thread runs.       *)
(*                                                                         *)
(* The invariant is built in layers, each of them inductive with the help  *)
(* of those before it; each has a lemma per step of Next that disturbs it. *)
(*   Base        types; what a waiting job, the place of the main thread   *)
(*               and the round at hand say of the rest of the state        *)
(*   Places      a chunk is in one of the five containers, once            *)
(*   BlocksOK    free blocks, prefix blocks and own blocks are the pool    *)
(*   RoundOK     a request that runs is settled; what is planned or runs   *)
(*               is what it waits for, and what runs has its blocks        *)
(*   SlotsOK     embedding slots belong to the queue, the job's prepared   *)
(*               prompts and the requests inside their prompt              *)
(*   DecodersOK  decoders and requests that may become one in this round   *)
(*               are no more than a plan has places for                    *)
(***************************************************************************)
EXTENDS UnifiedEngine, UnifiedPlanProofs, FiniteSetTheorems

-----------------------------------------------------------------------------
(* The states.                                                             *)

Phases == {"run", "Finished", "Failed"}

ActiveRequest ==
  [id : Chunks, computed : Nat, outputs : Nat, blocks : Nat, phase : Phases]

Job ==
  [kind : {"none", "sync", "fbank", "gpu"}, cands : Seq(Chunks), ready : BOOLEAN,
   made : BOOLEAN, got : SUBSET Chunks]

Outcomes == {"Finished", "Failed"}

TypeOK ==
  /\ mode \in {"sync", "fbank", "gpu"}
  /\ pc \in {"reap", "fill", "activate", "consume", "prefetch", "filled", "plan",
             "reserve", "execute", "drain", "done"}
  /\ next \in 1 .. Len(Prompt) + 1
  /\ job \in Job
  /\ queue \in Seq(Chunks)
  /\ active \in Seq(ActiveRequest)
  /\ free \in Nat
  /\ slots \in SUBSET Chunks
  /\ answers \in [Chunks -> Seq(Outcomes)]

Distinct(s) == \A j, k \in DOMAIN s : s[j] = s[k] => j = k

DistinctIds(s) == \A j, k \in DOMAIN s : s[j].id = s[k].id => j = k

Ids(s) == {s[i].id : i \in DOMAIN s}

\* A chunk with audio that goes beyond the prefix and fits into the context.
Fitting(c) == PrefixTokens < Prompt[c] /\ Prompt[c] <= CtxSize

\* What a job that waits has in hand.
JobOK ==
  /\ job.kind = "none" <=> job = NoJob
  /\ job.cands = <<>> => job = NoJob
  /\ Len(job.cands) <= MaxFrontend
  /\ job.got \subseteq Range(job.cands)
  /\ job.got # {} => job.made
  /\ job.made => job.kind = "gpu"
  /\ \A c \in Range(job.cands) : Prompt[c] > PrefixTokens

\* Where the main thread is, and what it has seen on its way there.
ControlOK ==
  /\ pc = "consume" => queue = <<>> /\ job # NoJob /\ Len(active) < BatchSize
  /\ pc \in {"plan", "reserve", "execute"} => active # <<>>
  /\ pc \in {"fill", "activate", "consume", "prefetch", "filled", "plan", "reserve", "execute"} =>
       \A i \in DOMAIN active : active[i].phase = "run"
  /\ pc \in {"drain", "done"} => active = <<>>
  /\ \A c \in Range(queue) : Fitting(c)
  /\ Len(active) <= BatchSize

\* The round in hand, and the blocks it may have to give back.
StepOK ==
  /\ step.plan \in Seq(ScheduledSequence) /\ step.run \in Seq(ScheduledSequence)
  /\ \A k \in DOMAIN step.plan : step.plan[k].req \in DOMAIN active
  /\ \A k \in DOMAIN step.run : step.run[k].req \in DOMAIN active
  /\ pc \notin {"reserve", "execute"} => step = NoStep
  /\ pc = "execute" => step.plan = <<>>
  /\ pc \in {"reserve", "execute"} =>
       /\ step.appended \in [DOMAIN active -> Nat]
       /\ \A i \in DOMAIN active : FullPrefixBlocks < active[i].blocks - step.appended[i]
  /\ \A i \in DOMAIN active : FullPrefixBlocks < active[i].blocks

Base == TypeOK /\ JobOK /\ ControlOK /\ StepOK

-----------------------------------------------------------------------------
(* What the operators of the engine return.                                *)

LEMMA Numbers ==
  /\ BatchSize \in Nat \ {0} /\ MaxFrontend \in Nat \ {0} /\ BlockSize \in Nat \ {0}
  /\ CtxSize \in Nat /\ PrefixTokens \in Nat /\ NumBlocks \in Nat
  /\ SlotCapacity \in Nat
  /\ Len(Prompt) \in Nat /\ Chunks = 1 .. Len(Prompt)
  /\ \A c \in Chunks : Prompt[c] \in Nat
BY PromptAssumption, LimitsAssumption DEF Chunks, SlotCapacity

LEMMA Blocks ==
  /\ FullPrefixBlocks \in Nat
  /\ \A n \in Nat : BlocksFor(n) \in Nat
BY Numbers DEF FullPrefixBlocks, BlocksFor

LEMMA SeqFromValues ==
  ASSUME NEW T, NEW n \in Nat, NEW s, s = [i \in 1 .. n |-> s[i]], \A i \in 1 .. n : s[i] \in T
  PROVE  s \in Seq(T) /\ Len(s) = n /\ DOMAIN s = 1 .. n
OBVIOUS

LEMMA Appended ==
  ASSUME NEW T, NEW s \in Seq(T), NEW x \in T
  PROVE  /\ Append(s, x) \in Seq(T) /\ Len(Append(s, x)) = Len(s) + 1 /\ Len(s) \in Nat
         /\ DOMAIN s = 1 .. Len(s) /\ DOMAIN Append(s, x) = 1 .. Len(s) + 1
         /\ Append(s, x)[Len(s) + 1] = x
         /\ \A i \in DOMAIN s : Append(s, x)[i] = s[i]
         /\ \A i \in DOMAIN Append(s, x) :
              \/ i \in DOMAIN s /\ Append(s, x)[i] = s[i]
              \/ i = Len(s) + 1 /\ Append(s, x)[i] = x
OBVIOUS

LEMMA NothingInHand ==
  /\ NoJob \in Job /\ NoJob.kind = "none" /\ NoJob.cands = <<>> /\ NoJob.got = {}
  /\ Range(NoJob.cands) = {} /\ Len(NoJob.cands) = 0 /\ ~NoJob.made /\ ~NoJob.ready
  /\ NoStep.plan = <<>> /\ NoStep.run = <<>>
  /\ NoStep.plan \in Seq(ScheduledSequence) /\ NoStep.run \in Seq(ScheduledSequence)
<1>1. <<>> \in Seq(Chunks) /\ <<>> \in Seq(ScheduledSequence) /\ Len(<<>>) = 0
  OBVIOUS
<1>2. Range(<<>>) = {}
  BY DEF Range
<1> QED BY <1>1, <1>2 DEF NoJob, NoStep, Job

LEMMA DistinctLength ==
  ASSUME NEW T, NEW s \in Seq(T), Distinct(s)
  PROVE  IsFiniteSet(Range(s)) /\ Cardinality(Range(s)) = Len(s)
<1>1. Len(s) \in Nat /\ DOMAIN s = 1 .. Len(s)
  OBVIOUS
<1>2. IsFiniteSet(1 .. Len(s)) /\ Cardinality(1 .. Len(s)) = Len(s)
  BY SMTT(30), <1>1, FS_Interval
<1>3. ExistsBijection(1 .. Len(s), Range(s))
  <2>1. s \in Bijection(1 .. Len(s), Range(s))
    <3>1. s \in [1 .. Len(s) -> Range(s)]
      BY <1>1 DEF Range
    <3> QED BY <1>1, <3>1 DEF Distinct, Bijection, Injection, Surjection, IsInjective, Range
  <2> QED BY <2>1 DEF ExistsBijection
<1> QED BY <1>2, <1>3, FS_Bijection

LEMMA SequenceIsFinite ==
  ASSUME NEW T, NEW s \in Seq(T)
  PROVE  IsFiniteSet(Range(s)) /\ Cardinality(Range(s)) <= Len(s)
<1>1. Len(s) \in Nat /\ DOMAIN s = 1 .. Len(s)
  OBVIOUS
<1>2. IsFiniteSet(1 .. Len(s)) /\ Cardinality(1 .. Len(s)) = Len(s)
  BY <1>1, FS_Interval
<1>3. s \in Surjection(1 .. Len(s), Range(s))
  <2>1. s \in [1 .. Len(s) -> Range(s)]
    BY <1>1 DEF Range
  <2> QED BY <1>1, <2>1 DEF Surjection, Range
<1> QED BY <1>2, <1>3, FS_Surjection

LEMMA Emitted ==
  ASSUME NEW a \in [Chunks -> Seq(Outcomes)], NEW o, DOMAIN o \subseteq Chunks,
         \A c \in DOMAIN o : o[c] \in Outcomes,
         NEW b, b = [c \in Chunks |-> IF c \in DOMAIN o THEN Append(a[c], o[c]) ELSE a[c]]
  PROVE  /\ b \in [Chunks -> Seq(Outcomes)]
         /\ \A c \in Chunks :
              IF c \in DOMAIN o THEN Len(b[c]) = Len(a[c]) + 1 ELSE b[c] = a[c]
<1>1. \A c \in Chunks : a[c] \in Seq(Outcomes) /\ Len(a[c]) \in Nat
  OBVIOUS
<1>2. ASSUME NEW c \in Chunks
      PROVE  /\ b[c] \in Seq(Outcomes)
             /\ IF c \in DOMAIN o THEN Len(b[c]) = Len(a[c]) + 1 ELSE b[c] = a[c]
  <2>1. CASE c \in DOMAIN o
    <3>1. b[c] = Append(a[c], o[c])
      BY <2>1
    <3> QED BY <1>1, <2>1, <3>1
  <2>2. CASE c \notin DOMAIN o
    <3>1. b[c] = a[c]
      BY <2>2
    <3> QED BY <1>1, <2>2, <3>1
  <2> QED BY <2>1, <2>2
<1>3. b = [c \in Chunks |-> b[c]]
  OBVIOUS
<1> QED BY ONLY <1>2, <1>3

LEMMA AllFailed ==
  ASSUME NEW S \in SUBSET Chunks
  PROVE  /\ DOMAIN Failed(S) = S /\ DOMAIN Failed(S) \subseteq Chunks
         /\ \A c \in DOMAIN Failed(S) : Failed(S)[c] \in Outcomes
BY DEF Failed, Outcomes

LEMMA ProgressTyped ==
  ASSUME NEW r \in ActiveRequest
  PROVE  /\ ProgressOf(r) \in Request
         /\ ProgressOf(r).prompt = Prompt[r.id]
         /\ ProgressOf(r).computed = r.computed
         /\ ProgressOf(r).outputs = r.outputs
         /\ ProgressOf(r).runnable
         /\ ProgressOf(r).finished <=> r.phase = "Finished"
         /\ ProgressOf(r).room = LargerOf(0, CtxSize - r.computed)
<1>1. Prompt[r.id] \in Nat /\ r.computed \in Nat /\ r.outputs \in Nat
  BY Numbers DEF ActiveRequest
<1>2. LargerOf(0, CtxSize - r.computed) \in Nat
  BY <1>1, Numbers DEF LargerOf
<1>3. (r.phase = "Finished") \in BOOLEAN
  OBVIOUS
<1>4. ProgressOf(r) \in Request
  BY <1>1, <1>2, <1>3 DEF ProgressOf, Request
<1> QED BY <1>4 DEF ProgressOf

LEMMA SnapshotTyped ==
  ASSUME active \in Seq(ActiveRequest)
  PROVE  /\ Snapshot \in Seq(Request)
         /\ DOMAIN Snapshot = DOMAIN active
         /\ \A i \in DOMAIN active : Snapshot[i] = ProgressOf(active[i])
<1>1. Len(active) \in Nat /\ DOMAIN active = 1 .. Len(active)
      /\ \A i \in DOMAIN active : active[i] \in ActiveRequest
  OBVIOUS
<1>2. \A i \in DOMAIN active : ProgressOf(active[i]) \in Request
  BY <1>1, ProgressTyped
<1>3. /\ \A i \in DOMAIN active : Snapshot[i] = ProgressOf(active[i])
      /\ Snapshot = [i \in 1 .. Len(active) |-> Snapshot[i]]
  BY <1>1 DEF Snapshot
<1> QED BY <1>1, <1>2, <1>3, SeqFromValues

LEMMA CommitsTyped ==
  ASSUME NEW p \in Request, NEW s \in ScheduledSequence, NEW token
  PROVE  /\ CommitSequence(p, s) \in Request
         /\ CommitSequence(p, s).computed >= p.computed
         /\ CommitSequence(p, s).outputs = p.outputs
         /\ CommitSample(p, token).computed = p.computed
         /\ CommitSample(p, token).outputs \in {p.outputs, p.outputs + 1}
<1>1. p.computed \in Nat /\ p.outputs \in Nat /\ s.tokens \in Nat
  BY DEF Request, ScheduledSequence
<1>2. /\ CommitSequence(p, s) \in Request /\ CommitSequence(p, s).computed >= p.computed
      /\ CommitSequence(p, s).outputs = p.outputs
  BY <1>1 DEF CommitSequence, Request
<1>3. /\ CommitSample(p, token).computed = p.computed
      /\ CommitSample(p, token).outputs \in {p.outputs, p.outputs + 1}
  BY <1>1 DEF CommitSample, Request
<1> QED BY <1>2, <1>3

LEMMA CommittedTyped ==
  ASSUME NEW r \in ActiveRequest, NEW s \in ScheduledSequence, NEW token
  PROVE  /\ Committed(r, s, token) \in ActiveRequest
         /\ Committed(r, s, token).id = r.id
         /\ Committed(r, s, token).blocks = r.blocks
         /\ Committed(r, s, token).phase \in {r.phase, "Finished"}
         /\ Committed(r, s, token).computed >= r.computed
<1> DEFINE p == ProgressOf(r)
           c == CommitSequence(p, s)
           d == IF s.logits THEN CommitSample(c, token) ELSE c
           stops == d.finished \/ (s.logits /\ token = "loop")
<1>1. p \in Request /\ p.computed = r.computed /\ r.computed \in Nat
  BY ProgressTyped DEF ActiveRequest
<1>2. c \in Request /\ c.computed >= r.computed
  BY <1>1, CommitsTyped
<1> HIDE DEF p, c
<1>3. d.computed = c.computed /\ d.outputs \in Nat /\ d.computed \in Nat
  BY <1>2, CommitsTyped DEF Request
<1> DEFINE phase == IF stops THEN "Finished" ELSE r.phase
<1>4. phase \in {r.phase, "Finished"} /\ phase \in Phases
  BY DEF ActiveRequest, Phases
<1>5. Committed(r, s, token) = [r EXCEPT !.computed = d.computed, !.outputs = d.outputs,
                                         !.phase = phase]
  BY DEF Committed, c, p
<1> HIDE DEF d, phase
<1> QED BY <1>2, <1>3, <1>4, <1>5 DEF ActiveRequest

LEMMA OwnBlocksFinite ==
  ASSUME NEW r, r.blocks \in Nat
  PROVE  /\ IsFiniteSet(OwnBlocks(r))
         /\ Cardinality(OwnBlocks(r)) = IF r.blocks > FullPrefixBlocks
                                        THEN r.blocks - FullPrefixBlocks ELSE 0
<1> DEFINE I == FullPrefixBlocks + 1 .. r.blocks
           f == [n \in I |-> <<r.id, n>>]
<1>1. FullPrefixBlocks + 1 \in Int /\ r.blocks \in Int /\ FullPrefixBlocks \in Nat
  BY Blocks
<1>2. IsFiniteSet(I) /\ Cardinality(I) = IF FullPrefixBlocks + 1 > r.blocks
                                        THEN 0 ELSE r.blocks - (FullPrefixBlocks + 1) + 1
  BY <1>1, FS_Interval
<1>3. f \in Bijection(I, OwnBlocks(r))
  BY DEF OwnBlocks, Bijection, Injection, Surjection, IsInjective
<1> HIDE DEF I
<1>4. IsFiniteSet(OwnBlocks(r)) /\ Cardinality(OwnBlocks(r)) = Cardinality(I)
  BY <1>2, <1>3, FS_Bijection DEF ExistsBijection
<1> QED BY <1>1, <1>2, <1>4

LEMMA BlocksFinite ==
  ASSUME NEW S \in SUBSET ActiveRequest, IsFiniteSet(S)
  PROVE  IsFiniteSet(BlocksOf(S)) /\ Cardinality(BlocksOf(S)) \in Nat
<1> DEFINE F == {OwnBlocks(r) : r \in S}
           f == [r \in S |-> OwnBlocks(r)]
<1>1. IsFiniteSet(F)
  <2>1. f \in Surjection(S, F)
    BY DEF Surjection
  <2> HIDE DEF f
  <2> QED BY <2>1, FS_Surjection
<1>2. \A B \in F : IsFiniteSet(B)
  BY OwnBlocksFinite DEF ActiveRequest
<1>3. BlocksOf(S) = UNION F
  BY DEF BlocksOf
<1> HIDE DEF F
<1> QED BY <1>1, <1>2, <1>3, FS_UNION, FS_CardinalityType

LEMMA ActiveBlocksFinite ==
  ASSUME NEW a \in Seq(ActiveRequest), NEW S \in SUBSET Range(a)
  PROVE  IsFiniteSet(BlocksOf(S)) /\ Cardinality(BlocksOf(S)) \in Nat
<1>1. Range(a) \subseteq ActiveRequest
  BY DEF Range
<1>2. IsFiniteSet(S)
  BY SequenceIsFinite, FS_Subset
<1> QED BY <1>1, <1>2, BlocksFinite

(* What is launched: the next chunks with audio become the job, in order,  *)
(* those without fail; a "gpu" job has its slots.                          *)
LEMMA Launched ==
  ASSUME Base, ~AllLaunched, Launch
  PROVE  /\ next' \in 1 .. Len(Prompt) + 1 /\ next < next'
         /\ JobOK' /\ job' \in Job
         /\ job'.got = {} /\ ~job'.ready
         /\ Range(job'.cands) = {c \in Chunks : next <= c /\ c < next' /\ Prompt[c] > 0}
         /\ Distinct(job'.cands)
         /\ job'.kind = "gpu" => FreeSlots >= Len(job'.cands)
         /\ answers' \in [Chunks -> Seq(Outcomes)]
         /\ \A c \in Chunks :
              IF next <= c /\ c < next' /\ Prompt[c] = 0
              THEN Len(answers'[c]) = Len(answers[c]) + 1
              ELSE answers'[c] = answers[c]
<1> DEFINE last == SmallerOf(next + MaxFrontend - 1, Len(Prompt))
           taken == next .. last
           empty == {c \in taken : Prompt[c] = 0}
           audio == {c \in taken : Prompt[c] > 0}
           cands == Only(InOrder, audio)
<1>1. next' = last + 1 /\ job' = JobFor(cands) /\ Emit(Failed(empty))
  BY DEF Launch
<1>2. /\ next \in Nat /\ next >= 1 /\ next <= Len(Prompt) /\ Len(Prompt) \in Nat
      /\ mode \in {"sync", "fbank", "gpu"} /\ answers \in [Chunks -> Seq(Outcomes)]
  BY Numbers DEF Base, TypeOK, AllLaunched
<1>3. /\ last \in Nat /\ last <= Len(Prompt) /\ next <= last /\ last + 1 - next <= MaxFrontend
      /\ taken \subseteq Chunks
  BY <1>2, Numbers DEF SmallerOf
<1>4. InOrder \in Seq(Chunks) /\ DOMAIN InOrder = Chunks /\ Range(InOrder) = Chunks
      /\ \A c \in Chunks : InOrder[c] = c
  <2>1. InOrder = [c \in 1 .. Len(Prompt) |-> InOrder[c]] /\ \A c \in Chunks : InOrder[c] = c
    BY Numbers DEF InOrder
  <2>2. InOrder \in Seq(Chunks) /\ DOMAIN InOrder = Chunks
    BY <2>1, Numbers, SeqFromValues
  <2>3. Range(InOrder) = Chunks
    <3>1. \A c \in Chunks : c \in Range(InOrder)
      BY <2>1, <2>2 DEF Range
    <3>2. Range(InOrder) \subseteq Chunks
      BY <2>2 DEF Range
    <3> QED BY <3>1, <3>2
  <2> QED BY <2>1, <2>2, <2>3
<1>5. /\ next' \in 1 .. Len(Prompt) + 1 /\ next < next'
      /\ \A c \in Chunks : c \in taken <=> next <= c /\ c < next'
  BY <1>1, <1>2, <1>3, Numbers
<1>6. /\ cands \in Seq(Chunks) /\ Range(cands) = audio /\ Distinct(cands)
  <2> DEFINE f == [c \in Chunks |-> c]
  <2>1. \A j, k \in DOMAIN InOrder : f[InOrder[j]] = f[InOrder[k]] => j = k
    BY <1>4
  <2>2. cands \in Seq(Chunks) /\ Range(cands) = Chunks \cap audio
    BY <1>4, OnlyFacts
  <2>3. \A j, k \in DOMAIN cands : f[cands[j]] = f[cands[k]] => j = k
    <3> HIDE DEF f
    <3> QED BY <1>4, <2>1, OnlyFacts
  <2>4. \A k \in DOMAIN cands : cands[k] \in Chunks
    BY <2>2
  <2>5. Distinct(cands)
    BY <2>3, <2>4 DEF Distinct
  <2> QED BY <1>3, <2>2, <2>5
<1>7. Len(cands) <= MaxFrontend
  <2>1. IsFiniteSet(taken) /\ Cardinality(taken) = last - next + 1
    <3>1. next \in Int /\ last \in Int /\ ~(next > last)
      BY <1>2, <1>3
    <3> HIDE DEF last
    <3> QED BY <3>1, FS_Interval
  <2>2. Cardinality(audio) <= Cardinality(taken)
    BY <2>1, FS_Subset
  <2>3. Cardinality(audio) = Len(cands)
    BY <1>6, DistinctLength
  <2>4. Len(cands) \in Nat
    BY <1>6
  <2> QED BY <1>2, <1>3, <2>1, <2>2, <2>3, <2>4, Numbers
<1>8. \A c \in audio : Prompt[c] > PrefixTokens
  <2>1. \A c \in Chunks : Prompt[c] > 0 => Prompt[c] > PrefixTokens
    BY PromptAssumption, Numbers
  <2> QED BY <1>3, <2>1
<1> HIDE DEF cands, audio, empty, taken
<1>9. /\ JobOK' /\ job' \in Job /\ job'.got = {} /\ ~job'.ready /\ job'.cands = cands
      /\ job'.kind = "gpu" => FreeSlots >= Len(job'.cands)
  <2>1. CASE cands = <<>>
    <3>1. job' = NoJob
      BY <1>1, <2>1 DEF JobFor
    <3>2. Len(cands) = 0 /\ MaxFrontend \in Nat
      BY <2>1, Numbers
    <3> QED BY <2>1, <3>1, <3>2, NothingInHand DEF JobOK
  <2>2. CASE cands # <<>>
    <3> DEFINE kind == IF mode = "gpu" /\ FreeSlots < Len(cands) THEN "fbank" ELSE mode
    <3>1. job' = [NoJob EXCEPT !.kind = kind, !.cands = cands]
      BY <1>1, <2>2 DEF JobFor
    <3>2. kind \in {"sync", "fbank", "gpu"} /\ (kind = "gpu" => ~(FreeSlots < Len(cands)))
      BY <1>2
    <3>3. FreeSlots < Len(cands) \/ FreeSlots >= Len(cands)
      <4>1. Len(cands) \in Nat /\ SlotCapacity \in Nat
        BY <1>6, Numbers
      <4>2. Cardinality(slots) \in Nat
        <5>1. IsFiniteSet(Chunks)
          BY Numbers, FS_Interval
        <5>2. slots \in SUBSET Chunks
          BY DEF Base, TypeOK
        <5> QED BY <5>1, <5>2, FS_Subset, FS_CardinalityType
      <4> QED BY <4>1, <4>2 DEF FreeSlots
    <3> HIDE DEF kind
    <3>4. /\ job'.kind = kind /\ job'.cands = cands /\ job'.got = {} /\ ~job'.ready
          /\ ~job'.made /\ job' \in Job
      BY <1>6, <3>1, <3>2 DEF NoJob, Job
    <3>5. job' # NoJob
      BY <3>2, <3>4, NothingInHand
    <3>6. JobOK'
      BY <1>6, <1>7, <1>8, <2>2, <3>2, <3>4, <3>5 DEF JobOK
    <3> QED BY <3>2, <3>3, <3>4, <3>6
  <2> QED BY <2>1, <2>2
<1>10. /\ answers' \in [Chunks -> Seq(Outcomes)]
       /\ \A c \in Chunks :
            IF c \in empty
            THEN Len(answers'[c]) = Len(answers[c]) + 1
            ELSE answers'[c] = answers[c]
  <2>1. empty \subseteq Chunks
    BY <1>3 DEF empty
  <2>2. DOMAIN Failed(empty) = empty /\ \A c \in DOMAIN Failed(empty) : Failed(empty)[c] \in Outcomes
    BY <2>1, AllFailed
  <2>3. answers' = [c \in Chunks |-> IF c \in DOMAIN Failed(empty)
                                     THEN Append(answers[c], Failed(empty)[c])
                                     ELSE answers[c]]
    BY <1>1 DEF Emit
  <2> HIDE DEF empty
  <2> DEFINE o == Failed(empty)
  <2>4. DOMAIN o = empty /\ DOMAIN o \subseteq Chunks /\ \A c \in DOMAIN o : o[c] \in Outcomes
    BY <2>1, <2>2
  <2>5. answers' = [c \in Chunks |-> IF c \in DOMAIN o
                                     THEN Append(answers[c], o[c])
                                     ELSE answers[c]]
    BY <2>3
  <2> HIDE DEF o
  <2> QED BY <1>2, <2>4, <2>5, Emitted
<1>11. \A c \in Chunks : /\ c \in empty <=> next <= c /\ c < next' /\ Prompt[c] = 0
                         /\ c \in audio <=> next <= c /\ c < next' /\ Prompt[c] > 0
  BY <1>5 DEF empty, audio
<1>12. audio \subseteq Chunks
  BY <1>3 DEF audio
<1>13. Range(job'.cands) = {c \in Chunks : next <= c /\ c < next' /\ Prompt[c] > 0}
  BY <1>6, <1>9, <1>11, <1>12
<1> QED BY <1>5, <1>6, <1>9, <1>10, <1>11, <1>13

-----------------------------------------------------------------------------
(* The steps keep Base.                                                    *)

LEMMA BaseInit ==
  ASSUME Init
  PROVE  Base
<1>1. /\ NoJob \in Job /\ NoJob.cands = <<>> /\ NoJob.got = {} /\ ~NoJob.made
      /\ Range(NoJob.cands) = {} /\ Len(NoJob.cands) = 0 /\ NoJob.kind = "none"
  BY NothingInHand
<1>2. free \in Nat
  <2>1. BlocksFor(PrefixTokens) \in Nat /\ NumBlocks \in Nat
    BY Blocks, Numbers
  <2>2. free = NumBlocks - BlocksFor(PrefixTokens)
    BY DEF Init
  <2> QED BY <2>1, <2>2, PrefixAssumption
<1>3. answers \in [Chunks -> Seq(Outcomes)]
  BY DEF Init
<1>4. active = <<>> /\ queue = <<>> /\ DOMAIN active = {} /\ Len(active) = 0
      /\ Range(queue) = {} /\ active \in Seq(ActiveRequest) /\ queue \in Seq(Chunks)
  BY DEF Init, Range
<1>5. next \in 1 .. Len(Prompt) + 1
  BY Numbers DEF Init
<1>6. mode \in {"sync", "fbank", "gpu"} /\ slots \in SUBSET Chunks /\ pc \in {"drain", "reap"}
  BY LimitsAssumption DEF Init
<1>7. TypeOK
  BY <1>1, <1>2, <1>3, <1>4, <1>5, <1>6 DEF TypeOK, Init
<1>8. JobOK
  BY <1>1, Numbers DEF JobOK, Init
<1>9. ControlOK
  BY <1>4, <1>6, Numbers DEF ControlOK
<1>10. StepOK
  BY <1>4, <1>6, NothingInHand DEF StepOK, Init
<1> QED BY <1>7, <1>8, <1>9, <1>10 DEF Base

\* Who is over leaves, with all blocks.
LEMMA Reaped ==
  ASSUME Base, Reap
  PROVE  /\ active' \in Seq(ActiveRequest) /\ Len(active') <= Len(active)
         /\ Range(active') = {r \in Range(active) : r.phase = "run"}
         /\ DistinctIds(active) => DistinctIds(active')
         /\ free' \in Nat
         /\ answers' \in [Chunks -> Seq(Outcomes)]
         /\ \A c \in Chunks :
              IF \E r \in Range(active) : r.phase # "run" /\ r.id = c
              THEN Len(answers'[c]) = Len(answers[c]) + 1
              ELSE answers'[c] = answers[c]
<1> DEFINE over == {r \in Range(active) : Over(r)}
           ids == {r.id : r \in over}
           PhaseOf(c) == (CHOOSE r \in over : r.id = c).phase
           rest == Range(active) \ over
           o == [c \in ids |-> PhaseOf(c)]
<1>1. /\ active' = Only(active, rest)
      /\ free' = free + Cardinality(BlocksOf(over))
      /\ Emit(o)
  BY DEF Reap
<1>2. /\ active \in Seq(ActiveRequest) /\ free \in Nat
      /\ answers \in [Chunks -> Seq(Outcomes)]
      /\ Range(active) \subseteq ActiveRequest
  BY DEF Base, TypeOK, Range
<1>3. rest = {r \in Range(active) : r.phase = "run"}
  BY DEF Over
<1>4. /\ active' \in Seq(ActiveRequest) /\ Len(active') <= Len(active)
      /\ Range(active') = Range(active) \cap rest
  <2> HIDE DEF rest
  <2> QED BY <1>1, <1>2, OnlyFacts
<1>5. DistinctIds(active) => DistinctIds(active')
  <2> DEFINE f == [r \in ActiveRequest |-> r.id]
  <2>1. SUFFICES ASSUME DistinctIds(active)
                 PROVE  DistinctIds(active')
    OBVIOUS
  <2>2. /\ \A k \in DOMAIN active : active[k] \in ActiveRequest
        /\ \A k \in DOMAIN active' : active'[k] \in ActiveRequest
    BY <1>2, <1>4
  <2>3. \A r \in ActiveRequest : f[r] = r.id
    OBVIOUS
  <2> HIDE DEF f, rest
  <2>4. \A j, k \in DOMAIN active : f[active[j]] = f[active[k]] => j = k
    BY <2>1, <2>2, <2>3 DEF DistinctIds
  <2>5. \A j, k \in DOMAIN active' : f[active'[j]] = f[active'[k]] => j = k
    BY <1>1, <1>2, <2>4, OnlyFacts
  <2> QED BY <2>2, <2>3, <2>5 DEF DistinctIds
<1>6. free' \in Nat
  BY <1>1, <1>2, ActiveBlocksFinite
<1>7. /\ ids \subseteq Chunks
      /\ \A c \in ids : PhaseOf(c) \in Outcomes
  <2>1. \A r \in over : r \in ActiveRequest /\ r.id \in Chunks /\ r.phase \in Outcomes
    BY <1>2 DEF Over, ActiveRequest, Phases, Outcomes
  <2>2. ASSUME NEW c \in ids
        PROVE  PhaseOf(c) \in Outcomes
    <3>1. \E r \in over : r.id = c
      OBVIOUS
    <3> HIDE DEF over
    <3>2. (CHOOSE r \in over : r.id = c) \in over
      BY <3>1
    <3> QED BY <2>1, <3>2
  <2> QED BY <2>1, <2>2
<1>8. answers' = [c \in Chunks |-> IF c \in DOMAIN o THEN Append(answers[c], o[c])
                                                     ELSE answers[c]]
  BY <1>1 DEF Emit
<1>9. DOMAIN o = ids /\ DOMAIN o \subseteq Chunks /\ \A c \in DOMAIN o : o[c] \in Outcomes
  BY <1>7
<1>10. \A c : c \in ids <=> \E r \in Range(active) : r.phase # "run" /\ r.id = c
  BY DEF Over
<1> HIDE DEF o, ids
<1>11. /\ answers' \in [Chunks -> Seq(Outcomes)]
       /\ \A c \in Chunks : IF c \in ids
                          THEN Len(answers'[c]) = Len(answers[c]) + 1
                          ELSE answers'[c] = answers[c]
  BY <1>2, <1>8, <1>9, Emitted
<1> QED BY <1>3, <1>4, <1>5, <1>6, <1>10, <1>11

LEMMA ReapKeepsBase ==
  ASSUME Base, Reap
  PROVE  Base'
<1>1. /\ active' \in Seq(ActiveRequest) /\ Len(active') <= Len(active)
      /\ Range(active') = {r \in Range(active) : r.phase = "run"}
      /\ free' \in Nat /\ answers' \in [Chunks -> Seq(Outcomes)]
  BY Reaped
<1>2. /\ pc = "reap" /\ pc' = "fill"
      /\ UNCHANGED <<mode, next, job, queue, step, entered>> /\ slots' \subseteq slots
  BY DEF Reap
<1>3. \A i \in DOMAIN active' : \E j \in DOMAIN active :
        active'[i] = active[j] /\ active'[i].phase = "run"
  <2>1. \A i \in DOMAIN active' : active'[i] \in Range(active')
    BY DEF Range
  <2> QED BY <1>1, <2>1 DEF Range
<1>4. TypeOK'
  BY <1>1, <1>2 DEF Base, TypeOK
<1>5. JobOK'
  BY <1>2 DEF Base, JobOK
<1>6. ControlOK'
  <2>1. Len(active') \in Nat /\ Len(active) \in Nat /\ Len(active) <= BatchSize
    BY <1>1 DEF Base, TypeOK, ControlOK
  <2> QED BY <1>1, <1>2, <1>3, <2>1, Numbers DEF Base, ControlOK
<1>7. StepOK'
  BY <1>2, <1>3, NothingInHand DEF Base, StepOK
<1> QED BY <1>4, <1>5, <1>6, <1>7 DEF Base

LEMMA ThreadPreparesKeepsBase ==
  ASSUME Base, ThreadPrepares
  PROVE  Base'
<1>1. PICK got \in SUBSET Range(job.cands), made \in BOOLEAN :
        /\ made => job.kind = "gpu"
        /\ got # {} => made
        /\ job' = [job EXCEPT !.ready = TRUE, !.made = made, !.got = got]
        /\ slots' = slots \cup got
  BY DEF ThreadPrepares
<1>2. job.kind \in {"fbank", "gpu"} /\ UNCHANGED <<pc, mainVars>>
  BY DEF ThreadPrepares
<1>3. job \in Job /\ Range(job.cands) \subseteq Chunks
  BY DEF Base, TypeOK, Job, Range
<1>4. /\ job'.kind = job.kind /\ job'.cands = job.cands /\ job'.got = got
      /\ job' \in Job
  <2>1. CASE made = TRUE
    BY <1>1, <1>3, <2>1 DEF Job
  <2>2. CASE made = FALSE
    BY <1>1, <1>3, <2>2 DEF Job
  <2> QED BY <2>1, <2>2
<1>5. job'.made => made
  BY Zenon, <1>1, <1>3 DEF Job
<1>6. job # NoJob /\ job' # NoJob /\ job'.cands # <<>>
  BY <1>2, <1>4, NothingInHand DEF Base, JobOK
<1>7. JobOK'
  <2>1. job.cands = job'.cands /\ Len(job.cands) <= MaxFrontend
        /\ \A c \in Range(job.cands) : Prompt[c] > PrefixTokens
    BY <1>4 DEF Base, JobOK
  <2>2. job'.got # {} => job'.made
    <3>1. made => job'.made
      BY Zenon, <1>1, <1>3 DEF Job
    <3> QED BY <1>1, <1>4, <3>1
  <2> QED BY <1>1, <1>2, <1>4, <1>5, <1>6, <2>1, <2>2 DEF JobOK
<1>8. TypeOK' /\ ControlOK' /\ StepOK'
  BY <1>1, <1>2, <1>3, <1>4, <1>6 DEF Base, TypeOK, ControlOK, StepOK, mainVars
<1> QED BY <1>7, <1>8 DEF Base

LEMMA FillStepKeepsBase ==
  ASSUME Base, FillStep
  PROVE  Base'
<1>1. pc = "fill" /\ UNCHANGED <<mode, queue, active, free, slots, step>>
  BY DEF FillStep
<1>2. CASE Launch /\ ~AllLaunched /\ queue = <<>> /\ Len(active) < BatchSize
           /\ pc' = IF job' = NoJob THEN "prefetch" ELSE "consume"
  <2>1. /\ next' \in 1 .. Len(Prompt) + 1 /\ JobOK' /\ job' \in Job
        /\ answers' \in [Chunks -> Seq(Outcomes)]
    BY <1>2, Launched
  <2>2. TypeOK'
    BY <1>1, <1>2, <2>1 DEF Base, TypeOK
  <2>3. ControlOK' /\ StepOK'
    BY <1>1, <1>2 DEF Base, ControlOK, StepOK
  <2> QED BY <2>1, <2>2, <2>3 DEF Base
<1>3. CASE UNCHANGED <<next, job, answers>> /\
           \/ pc' = "activate"
           \/ pc' = "consume" /\ queue = <<>> /\ job # NoJob /\ Len(active) < BatchSize
           \/ pc' = "prefetch"
  BY <1>1, <1>3 DEF Base, TypeOK, JobOK, ControlOK, StepOK
<1> QED BY <1>2, <1>3 DEF FillStep

\* The head of the queue leaves it.
LEMMA Popped ==
  ASSUME NEW T, NEW q \in Seq(T), q # <<>>
  PROVE  /\ Head(q) \in T /\ Tail(q) \in Seq(T) /\ Head(q) \in Range(q)
         /\ Range(q) = {Head(q)} \cup Range(Tail(q))
         /\ Distinct(q) => Distinct(Tail(q)) /\ Head(q) \notin Range(Tail(q))
<1>1. /\ Len(q) \in Nat \ {0} /\ DOMAIN q = 1 .. Len(q) /\ Head(q) = q[1]
      /\ Tail(q) \in Seq(T) /\ DOMAIN Tail(q) = 1 .. Len(q) - 1
      /\ \A k \in 1 .. Len(q) - 1 : Tail(q)[k] = q[k + 1]
      /\ 1 \in DOMAIN q /\ q[1] \in T
  OBVIOUS
<1>2. \A k \in DOMAIN q : k = 1 \/ (k - 1 \in DOMAIN Tail(q) /\ q[k] = Tail(q)[k - 1])
  BY <1>1
<1>3. Range(q) = {Head(q)} \cup Range(Tail(q))
  <2>1. Range(q) \subseteq {Head(q)} \cup Range(Tail(q))
    <3>1. SUFFICES ASSUME NEW x \in Range(q)
                   PROVE  x = Head(q) \/ x \in Range(Tail(q))
      OBVIOUS
    <3>2. PICK k \in DOMAIN q : x = q[k]
      BY DEF Range
    <3> QED BY <1>1, <1>2, <3>2 DEF Range
  <2>2. {Head(q)} \cup Range(Tail(q)) \subseteq Range(q)
    BY <1>1 DEF Range
  <2> QED BY <2>1, <2>2
<1>4. ASSUME Distinct(q)
      PROVE  Distinct(Tail(q)) /\ Head(q) \notin Range(Tail(q))
  <2>1. Distinct(Tail(q))
    BY <1>1, <1>4 DEF Distinct
  <2>2. Head(q) \notin Range(Tail(q))
    BY <1>1, <1>4 DEF Distinct, Range
  <2> QED BY <2>1, <2>2
<1> QED BY <1>1, <1>3, <1>4

\* A request enters: the head of the queue, with the prefix and one block.
LEMMA Activated ==
  ASSUME Base, Activate
  PROVE  \E r \in ActiveRequest :
           /\ r.id = Head(queue) /\ r.computed = PrefixTokens /\ r.outputs = 0
           /\ r.blocks = FullPrefixBlocks + 1 /\ r.phase = "run"
           /\ active' = Append(active, r) /\ active' \in Seq(ActiveRequest)
           /\ Len(active') = Len(active) + 1 /\ DOMAIN active' = 1 .. Len(active) + 1
           /\ DOMAIN active = 1 .. Len(active) /\ Len(active) \in Nat
           /\ active'[Len(active) + 1] = r
           /\ \A i \in DOMAIN active : active'[i] = active[i]
           /\ queue # <<>> /\ Len(active) < BatchSize /\ free >= 1
<1> DEFINE r == [id |-> Head(queue), computed |-> PrefixTokens, outputs |-> 0,
                 blocks |-> FullPrefixBlocks + 1, phase |-> "run"]
<1>1. active' = Append(active, r) /\ Admissible
  BY DEF Activate
<1>2. queue # <<>> /\ Head(queue) \in Chunks /\ Fitting(Head(queue)) /\ Len(active) < BatchSize
  BY <1>1, Popped DEF Admissible, Base, TypeOK, ControlOK
<1>3. free >= 1
  <2>1. InitialBlocks(Head(queue)) = 1
    BY <1>2 DEF InitialBlocks, Fitting
  <2> QED BY <1>1, <2>1 DEF Admissible
<1>4. r \in ActiveRequest
  BY <1>2, Numbers, Blocks DEF ActiveRequest, Phases
<1>5. active \in Seq(ActiveRequest)
  BY DEF Base, TypeOK
<1>6. r.id = Head(queue) /\ r.computed = PrefixTokens /\ r.outputs = 0
      /\ r.blocks = FullPrefixBlocks + 1 /\ r.phase = "run"
  OBVIOUS
<1> HIDE DEF r
<1> QED BY <1>1, <1>2, <1>3, <1>4, <1>5, <1>6

LEMMA ActivateKeepsBase ==
  ASSUME Base, Activate
  PROVE  Base'
<1>1. PICK r \in ActiveRequest :
           /\ r.id = Head(queue) /\ r.computed = PrefixTokens /\ r.outputs = 0
           /\ r.blocks = FullPrefixBlocks + 1 /\ r.phase = "run"
           /\ active' = Append(active, r) /\ active' \in Seq(ActiveRequest)
           /\ Len(active') = Len(active) + 1 /\ DOMAIN active' = 1 .. Len(active) + 1
           /\ DOMAIN active = 1 .. Len(active) /\ Len(active) \in Nat
           /\ active'[Len(active) + 1] = r
           /\ \A i \in DOMAIN active : active'[i] = active[i]
           /\ queue # <<>> /\ Len(active) < BatchSize /\ free >= 1
  BY Activated
<1>2. /\ pc = "activate" /\ queue' = Tail(queue) /\ free' = free - 1
      /\ UNCHANGED <<mode, pc, next, job, slots, step, advanced, answers>>
  BY DEF Activate
<1>3. Tail(queue) \in Seq(Chunks) /\ Range(Tail(queue)) \subseteq Range(queue)
  BY <1>1, Popped DEF Base, TypeOK
<1>4. TypeOK'
  BY <1>1, <1>2, <1>3 DEF Base, TypeOK
<1>5. JobOK'
  BY <1>2 DEF Base, JobOK
<1>6. \A i \in DOMAIN active' : active'[i] = r \/ (i \in DOMAIN active /\ active'[i] = active[i])
  BY <1>1
<1>7. ControlOK'
  BY <1>1, <1>2, <1>3, <1>6, Numbers DEF Base, ControlOK
<1>8. StepOK'
  <2>1. step' = NoStep /\ pc' = "activate"
    BY <1>2 DEF Base, StepOK
  <2>2. DOMAIN step'.plan = {} /\ DOMAIN step'.run = {}
        /\ step'.plan \in Seq(ScheduledSequence) /\ step'.run \in Seq(ScheduledSequence)
    BY <2>1, NothingInHand
  <2>3. \A i \in DOMAIN active : FullPrefixBlocks < active[i].blocks
    BY DEF Base, StepOK
  <2>4. FullPrefixBlocks < r.blocks
    BY <1>1, Blocks
  <2>5. \A i \in DOMAIN active' : FullPrefixBlocks < active'[i].blocks
    BY <1>6, <2>3, <2>4
  <2> QED BY <2>1, <2>2, <2>5 DEF StepOK
<1> QED BY <1>4, <1>5, <1>7, <1>8 DEF Base

\* A chunk whose copy failed is answered instead.
LEMMA CopyFailed ==
  ASSUME Base, CopyFails
  PROVE  /\ queue # <<>> /\ Head(queue) \in Chunks
         /\ answers' \in [Chunks -> Seq(Outcomes)]
         /\ \A c \in Chunks :
              IF c = Head(queue)
              THEN Len(answers'[c]) = Len(answers[c]) + 1
              ELSE answers'[c] = answers[c]
<1> DEFINE o == Failed({Head(queue)})
<1>1. queue # <<>> /\ Emit(o)
  BY DEF CopyFails, Admissible
<1>2. Head(queue) \in Chunks /\ answers \in [Chunks -> Seq(Outcomes)]
  BY <1>1, Popped DEF Base, TypeOK
<1>3. /\ DOMAIN o = {Head(queue)} /\ DOMAIN o \subseteq Chunks
      /\ \A c \in DOMAIN o : o[c] \in Outcomes
  BY <1>2, AllFailed
<1>4. answers' = [c \in Chunks |-> IF c \in DOMAIN o THEN Append(answers[c], o[c])
                                                     ELSE answers[c]]
  BY <1>1 DEF Emit
<1> HIDE DEF o
<1>5. /\ answers' \in [Chunks -> Seq(Outcomes)]
      /\ \A c \in Chunks : IF c \in DOMAIN o
                          THEN Len(answers'[c]) = Len(answers[c]) + 1
                          ELSE answers'[c] = answers[c]
  BY <1>2, <1>3, <1>4, Emitted
<1> QED BY <1>1, <1>2, <1>3, <1>5

LEMMA CopyFailsKeepsBase ==
  ASSUME Base, CopyFails
  PROVE  Base'
<1>1. queue # <<>> /\ answers' \in [Chunks -> Seq(Outcomes)]
  BY CopyFailed
<1>2. /\ pc = "activate" /\ queue' = Tail(queue) /\ slots' \subseteq slots
      /\ UNCHANGED <<mode, pc, next, job, active, free, step>>
  BY DEF CopyFails
<1>3. Tail(queue) \in Seq(Chunks) /\ Range(Tail(queue)) \subseteq Range(queue)
  BY <1>1, Popped DEF Base, TypeOK
<1>4. TypeOK' /\ JobOK' /\ ControlOK' /\ StepOK'
  BY <1>1, <1>2, <1>3 DEF Base, TypeOK, JobOK, ControlOK, StepOK
<1> QED BY <1>4 DEF Base

LEMMA ActivateEndsKeepsBase ==
  ASSUME Base, ActivateEnds
  PROVE  Base'
BY DEF Base, TypeOK, JobOK, ControlOK, StepOK, ActivateEnds

LEMMA ConsumeNothingKeepsBase ==
  ASSUME Base, ConsumeNothing
  PROVE  Base'
BY DEF Base, TypeOK, JobOK, ControlOK, StepOK, ConsumeNothing

(* The job is collected: the prompts that fit are queued in its order, the *)
(* other candidates are answered.                                          *)
LEMMA Consumed ==
  ASSUME Base, Consume
  PROVE  \E ok \in SUBSET Range(job.cands), fits \in SUBSET Range(job.cands) :
           /\ fits = {c \in ok : Prompt[c] <= CtxSize}
           /\ job.made => ok = job.got
           /\ Cardinality(slots \cup ok) <= SlotCapacity
           /\ slots' = (slots \cup ok) \ (ok \ fits)
           /\ queue = <<>> /\ queue' \in Seq(Chunks) /\ Range(queue') = fits
           /\ Distinct(job.cands) => Distinct(queue')
           /\ answers' \in [Chunks -> Seq(Outcomes)]
           /\ \A c \in Chunks :
                IF c \in Range(job.cands) \ fits
                THEN Len(answers'[c]) = Len(answers[c]) + 1
                ELSE answers'[c] = answers[c]
<1>1. PICK ok \in SUBSET Range(job.cands) :
        LET fits == {c \in ok : Prompt[c] <= CtxSize}
        IN  /\ job.made => ok = job.got
            /\ Cardinality(slots \cup ok) <= SlotCapacity
            /\ slots' = (slots \cup ok) \ (ok \ fits)
            /\ queue' = queue \o Only(job.cands, fits)
            /\ Emit(Failed(Range(job.cands) \ fits))
  BY DEF Consume
<1>2. PICK fits : fits = {c \in ok : Prompt[c] <= CtxSize}
  OBVIOUS
<1>3. fits \subseteq ok /\ fits \subseteq Range(job.cands)
  BY <1>2
<1>4. /\ job.made => ok = job.got
      /\ Cardinality(slots \cup ok) <= SlotCapacity
      /\ slots' = (slots \cup ok) \ (ok \ fits)
      /\ queue' = queue \o Only(job.cands, fits)
      /\ Emit(Failed(Range(job.cands) \ fits))
  BY <1>1, <1>2
<1>5. queue = <<>> /\ job.cands \in Seq(Chunks) /\ Range(job.cands) \subseteq Chunks
      /\ answers \in [Chunks -> Seq(Outcomes)]
  BY DEF Consume, Base, TypeOK, ControlOK, Job, Range
<1>6. PICK cands \in Seq(Chunks) : cands = job.cands
  BY <1>5
<1>7. /\ Only(cands, fits) \in Seq(Chunks)
      /\ Range(Only(cands, fits)) = fits
  <2>1. Only(cands, fits) \in Seq(Chunks) /\ Range(Only(cands, fits)) = Range(cands) \cap fits
    BY OnlyFacts
  <2>2. Range(cands) \cap fits = fits
    BY <1>3, <1>6
  <2> QED BY <2>1, <2>2
<1>8. Distinct(cands) => Distinct(Only(cands, fits))
  <2> DEFINE f == [c \in Chunks |-> c]
  <2>1. SUFFICES ASSUME Distinct(cands)
                 PROVE  Distinct(Only(cands, fits))
    OBVIOUS
  <2>2. /\ \A c \in Chunks : f[c] = c
        /\ \A k \in DOMAIN cands : cands[k] \in Chunks
        /\ \A k \in DOMAIN Only(cands, fits) : Only(cands, fits)[k] \in Chunks
    BY <1>7
  <2> HIDE DEF f
  <2>3. \A j, k \in DOMAIN cands : f[cands[j]] = f[cands[k]] => j = k
    BY <2>1, <2>2 DEF Distinct
  <2>4. \A j, k \in DOMAIN Only(cands, fits) :
          f[Only(cands, fits)[j]] = f[Only(cands, fits)[k]] => j = k
    BY <2>3, OnlyFacts
  <2> QED BY <2>2, <2>4 DEF Distinct
<1>9. queue' = Only(cands, fits)
  BY <1>4, <1>5, <1>6, <1>7
<1> DEFINE o == Failed(Range(job.cands) \ fits)
<1>10. /\ DOMAIN o = Range(job.cands) \ fits /\ DOMAIN o \subseteq Chunks
       /\ \A c \in DOMAIN o : o[c] \in Outcomes
  BY <1>5, AllFailed
<1>11. answers' = [c \in Chunks |-> IF c \in DOMAIN o THEN Append(answers[c], o[c])
                                                      ELSE answers[c]]
  BY <1>4 DEF Emit
<1> HIDE DEF o
<1>12. /\ answers' \in [Chunks -> Seq(Outcomes)]
       /\ \A c \in Chunks : IF c \in DOMAIN o
                          THEN Len(answers'[c]) = Len(answers[c]) + 1
                          ELSE answers'[c] = answers[c]
  BY <1>5, <1>10, <1>11, Emitted
<1> QED BY ZenonT(40), <1>2, <1>3, <1>4, <1>5, <1>6, <1>7, <1>8, <1>9, <1>10, <1>12

LEMMA ConsumeKeepsBase ==
  ASSUME Base, Consume
  PROVE  Base'
<1>1. PICK ok \in SUBSET Range(job.cands), fits \in SUBSET Range(job.cands) :
           /\ fits = {c \in ok : Prompt[c] <= CtxSize}
           /\ slots' = (slots \cup ok) \ (ok \ fits)
           /\ queue' \in Seq(Chunks) /\ Range(queue') = fits
           /\ answers' \in [Chunks -> Seq(Outcomes)]
  BY Consumed
<1>2. /\ pc = "consume" /\ pc' = "fill" /\ job' = NoJob
      /\ UNCHANGED <<mode, next, active, free, step>>
  BY DEF Consume
<1>3. Range(job.cands) \subseteq Chunks /\ \A c \in Range(job.cands) : Prompt[c] > PrefixTokens
  BY DEF Base, TypeOK, Job, JobOK, Range
<1>4. TypeOK'
  BY <1>1, <1>2, <1>3, NothingInHand DEF Base, TypeOK
<1>5. JobOK'
  BY <1>2, NothingInHand, Numbers DEF JobOK
<1>6. \A c \in Range(queue') : Fitting(c)
  BY <1>1, <1>3, Numbers DEF Fitting
<1>7. ControlOK' /\ StepOK'
  BY <1>2, <1>6 DEF Base, ControlOK, StepOK
<1> QED BY <1>4, <1>5, <1>7 DEF Base

LEMMA PrefetchNextKeepsBase ==
  ASSUME Base, PrefetchNext
  PROVE  Base'
<1>1. pc = "prefetch" /\ pc' = "filled" /\ UNCHANGED <<mode, queue, active, free, slots, step>>
  BY DEF PrefetchNext
<1>2. CASE Launch /\ ~AllLaunched
  <2>1. /\ next' \in 1 .. Len(Prompt) + 1 /\ JobOK' /\ job' \in Job
        /\ answers' \in [Chunks -> Seq(Outcomes)]
    BY <1>2, Launched
  <2>2. TypeOK'
    BY <1>1, <2>1 DEF Base, TypeOK
  <2>3. ControlOK' /\ StepOK'
    BY <1>1 DEF Base, ControlOK, StepOK
  <2> QED BY <2>1, <2>2, <2>3 DEF Base
<1>3. CASE UNCHANGED <<next, job, answers>>
  BY <1>1, <1>3 DEF Base, TypeOK, JobOK, ControlOK, StepOK
<1> QED BY <1>2, <1>3 DEF PrefetchNext

LEMMA FilledKeepsBase ==
  ASSUME Base, Filled
  PROVE  Base'
<1>1. \/ pc' = "plan" /\ active # <<>>
      \/ pc' \in {"reap", "drain"} /\ active = <<>>
  BY DEF Filled
<1>2. pc = "filled" /\ UNCHANGED <<mode, next, job, queue, active, free, slots, step, answers>>
  BY DEF Filled
<1> QED BY <1>1, <1>2 DEF Base, TypeOK, JobOK, ControlOK, StepOK

\* What a new round has in it.
LEMMA Planned ==
  ASSUME Base, PlanRound
  PROVE  /\ step'.plan = BuildPlan(Snapshot) /\ step'.run = <<>>
         /\ step'.appended = [i \in DOMAIN active |-> 0]
         /\ step'.plan \in Seq(ScheduledSequence)
         /\ Len(step'.plan) <= MaxSeqs
         /\ \A k \in DOMAIN step'.plan :
              /\ step'.plan[k].req \in DOMAIN active
              /\ Fits(Snapshot, step'.plan[k])
         /\ \A j, k \in DOMAIN step'.plan : step'.plan[j].req = step'.plan[k].req => j = k
<1>1. /\ step'.plan = BuildPlan(Snapshot) /\ step'.run = <<>>
      /\ step'.appended = [i \in DOMAIN active |-> 0]
  BY DEF PlanRound
<1>2. Snapshot \in Seq(Request) /\ DOMAIN Snapshot = DOMAIN active
  BY SnapshotTyped DEF Base, TypeOK
<1>3. PICK rs \in Seq(Request) : rs = Snapshot
  BY <1>2
<1>4. /\ BuildPlan(rs) \in Seq(ScheduledSequence)
      /\ Len(BuildPlan(rs)) <= MaxSeqs
      /\ \A k \in DOMAIN BuildPlan(rs) : Fits(rs, BuildPlan(rs)[k])
      /\ \A j, k \in DOMAIN BuildPlan(rs) : BuildPlan(rs)[j].req = BuildPlan(rs)[k].req => j = k
  BY BuildPlanPlans
<1>5. \A k \in DOMAIN BuildPlan(rs) : BuildPlan(rs)[k].req \in DOMAIN rs
  BY <1>4 DEF Fits
<1> QED BY <1>1, <1>2, <1>3, <1>4, <1>5

LEMMA PlanRoundKeepsBase ==
  ASSUME Base, PlanRound
  PROVE  Base'
<1>1. /\ pc = "plan" /\ pc' = "reserve"
      /\ UNCHANGED <<mode, next, job, queue, active, free, slots, answers>>
  BY DEF PlanRound
<1>2. /\ step'.run = <<>> /\ step'.appended = [i \in DOMAIN active |-> 0]
      /\ step'.plan \in Seq(ScheduledSequence)
      /\ \A k \in DOMAIN step'.plan : step'.plan[k].req \in DOMAIN active
  BY Planned
<1>3. step'.run \in Seq(ScheduledSequence) /\ DOMAIN step'.run = {}
  BY <1>2
<1>4. TypeOK' /\ JobOK' /\ ControlOK'
  BY <1>1 DEF Base, TypeOK, JobOK, ControlOK
<1>5. \A i \in DOMAIN active : FullPrefixBlocks < active[i].blocks - step'.appended[i]
  <2>1. \A i \in DOMAIN active : active[i] \in ActiveRequest
    BY DEF Base, TypeOK
  <2>2. \A i \in DOMAIN active : FullPrefixBlocks < active[i].blocks /\ active[i].blocks \in Nat
    BY <2>1 DEF Base, StepOK, ActiveRequest
  <2> QED BY <1>2, <2>2
<1>6. StepOK'
  BY <1>1, <1>2, <1>3, <1>5 DEF Base, StepOK
<1> QED BY <1>4, <1>6 DEF Base

LEMMA CutFields ==
  ASSUME NEW s \in ScheduledSequence, NEW n \in Nat
  PROVE  /\ Cut(s, n) \in ScheduledSequence
         /\ Cut(s, n).req = s.req /\ Cut(s, n).offset = s.offset
         /\ Cut(s, n).tokens = n /\ Cut(s, n).kind = s.kind
         /\ Cut(s, n).logits <=>
              s.kind = "decode" \/ s.offset + n = Prompt[active[s.req].id]
<1> DEFINE l == s.kind = "decode" \/ s.offset + n = Prompt[active[s.req].id]
           c == Cut(s, n)
           d == [s EXCEPT !.tokens = n]
<1>1. c = [s EXCEPT !.tokens = n, !.logits = l]
  BY DEF Cut
<1>2. d \in ScheduledSequence /\ d.req = s.req /\ d.offset = s.offset /\ d.tokens = n
      /\ d.kind = s.kind
  BY DEF ScheduledSequence
<1>3. c = [d EXCEPT !.logits = l]
  BY Zenon, <1>1
<1>4. CASE l
  <2>1. c = [d EXCEPT !.logits = TRUE]
    BY Zenon, <1>3, <1>4
  <2> HIDE DEF c, d, l
  <2>2. c \in ScheduledSequence /\ c.req = d.req /\ c.offset = d.offset /\ c.tokens = d.tokens
        /\ c.kind = d.kind /\ c.logits
    BY <1>2, <2>1 DEF ScheduledSequence
  <2> QED BY <1>2, <1>4, <2>2 DEF c, l
<1>5. CASE ~l
  <2>1. c = [d EXCEPT !.logits = FALSE]
    BY Zenon, <1>3, <1>5
  <2> HIDE DEF c, d, l
  <2>2. c \in ScheduledSequence /\ c.req = d.req /\ c.offset = d.offset /\ c.tokens = d.tokens
        /\ c.kind = d.kind /\ ~c.logits
    BY <1>2, <2>1 DEF ScheduledSequence
  <2> QED BY <1>2, <1>5, <2>2 DEF c, l
<1> QED BY <1>4, <1>5

(* The next sequence of the plan gets blocks, and runs with as many tokens *)
(* as they take.                                                           *)
LEMMA Reserved ==
  ASSUME Base, ReserveSequence
  PROVE  \E s \in ScheduledSequence, taken \in Nat, n \in Int :
           /\ s = step.plan[1] /\ step.plan # <<>> /\ s.req \in DOMAIN active
           /\ taken <= free /\ free' = free - taken
           /\ n = RunnableTokens(s, active[s.req].blocks + taken)
           /\ active' = [active EXCEPT ![s.req].blocks = @ + taken]
           /\ step' = [plan     |-> Tail(step.plan),
                       run      |-> IF n > 0 THEN Append(step.run, Cut(s, n)) ELSE step.run,
                       appended |-> [step.appended EXCEPT ![s.req] = @ + taken]]
           /\ active' \in Seq(ActiveRequest) /\ DOMAIN active' = DOMAIN active
           /\ Len(active') = Len(active)
           /\ \A i \in DOMAIN active :
                /\ active'[i].id = active[i].id
                /\ active'[i].computed = active[i].computed
                /\ active'[i].outputs = active[i].outputs
                /\ active'[i].phase = active[i].phase
                /\ active'[i].blocks = active[i].blocks + (IF i = s.req THEN taken ELSE 0)
<1> DEFINE needed(s) == BlocksFor(s.offset + SmallerOf(s.tokens, CtxSize - s.offset))
           take(s) == SmallerOf(LargerOf(0, needed(s) - active[s.req].blocks), free)
<1>1. /\ step.plan # <<>> /\ step.plan \in Seq(ScheduledSequence)
      /\ active \in Seq(ActiveRequest) /\ free \in Nat
  BY DEF ReserveSequence, Base, TypeOK, StepOK
<1>2. PICK s \in ScheduledSequence : s = step.plan[1] /\ s = Head(step.plan)
  BY <1>1
<1>3. s.req \in DOMAIN active
  <2>1. 1 \in DOMAIN step.plan
    BY <1>1
  <2> QED BY <1>2, <2>1 DEF Base, StepOK
<1>4. /\ s.offset \in Nat /\ s.tokens \in Nat /\ s.kind \in {"decode", "prompt"}
      /\ active[s.req] \in ActiveRequest /\ active[s.req].blocks \in Nat
  <2>1. active[s.req] \in ActiveRequest
    BY <1>1, <1>3
  <2> QED BY <2>1 DEF ScheduledSequence, ActiveRequest
<1>5. needed(s) \in Int
  <2>1. s.offset + SmallerOf(s.tokens, CtxSize - s.offset) \in Int
    BY <1>4, Numbers DEF SmallerOf
  <2> QED BY <2>1, Numbers DEF BlocksFor
<1>6. PICK taken \in Nat : taken = take(s) /\ taken <= free
  <2> HIDE DEF needed
  <2> QED BY <1>1, <1>4, <1>5 DEF SmallerOf, LargerOf
<1>7. PICK n \in Int : n = RunnableTokens(s, active[s.req].blocks + taken)
  <2> DEFINE have == active[s.req].blocks + taken
             backed == have * BlockSize
             tokens == SmallerOf(s.tokens, CtxSize - s.offset)
  <2>1. backed \in Int /\ tokens \in Int
    BY SMTT(30), <1>4, <1>6, Numbers DEF SmallerOf
  <2>2. RunnableTokens(s, have) =
          IF s.offset + tokens <= backed
          THEN tokens
          ELSE IF s.kind = "decode" THEN 0 ELSE LargerOf(0, backed - s.offset)
    BY DEF RunnableTokens
  <2> HIDE DEF have, backed, tokens
  <2>3. RunnableTokens(s, have) \in Int
    BY <1>4, <2>1, <2>2 DEF LargerOf
  <2> QED BY <2>3 DEF have
<1>8. /\ active' = [active EXCEPT ![s.req].blocks = @ + taken]
      /\ free' = free - taken
      /\ step' = [plan     |-> Tail(step.plan),
                  run      |-> IF n > 0 THEN Append(step.run, Cut(s, n)) ELSE step.run,
                  appended |-> [step.appended EXCEPT ![s.req] = @ + taken]]
  BY <1>2, <1>6, <1>7 DEF ReserveSequence
<1>9. \A i \in DOMAIN active :
        /\ active'[i] \in ActiveRequest
        /\ active'[i].id = active[i].id
        /\ active'[i].computed = active[i].computed
        /\ active'[i].outputs = active[i].outputs
        /\ active'[i].phase = active[i].phase
        /\ active'[i].blocks = active[i].blocks + (IF i = s.req THEN taken ELSE 0)
  <2>1. SUFFICES ASSUME NEW i \in DOMAIN active
                 PROVE  /\ active'[i] \in ActiveRequest
                        /\ active'[i].id = active[i].id
                        /\ active'[i].computed = active[i].computed
                        /\ active'[i].outputs = active[i].outputs
                        /\ active'[i].phase = active[i].phase
                        /\ active'[i].blocks = active[i].blocks
                                                 + (IF i = s.req THEN taken ELSE 0)
    OBVIOUS
  <2>2. active[i] \in ActiveRequest
    BY <1>1
  <2>3. CASE i = s.req
    <3>1. active'[i] = [active[i] EXCEPT !.blocks = @ + taken]
      BY <1>8, <2>3
    <3> QED BY <2>2, <2>3, <3>1 DEF ActiveRequest
  <2>4. CASE i # s.req
    <3>1. active'[i] = active[i]
      BY <1>8, <2>4
    <3> QED BY <2>2, <2>4, <3>1 DEF ActiveRequest
  <2> QED BY <2>3, <2>4
<1>10. active' \in Seq(ActiveRequest) /\ DOMAIN active' = DOMAIN active /\ Len(active') = Len(active)
  <2>1. Len(active) \in Nat /\ DOMAIN active = 1 .. Len(active)
    BY <1>1
  <2>2. active' = [i \in 1 .. Len(active) |-> active'[i]]
    BY <1>8, <2>1
  <2> QED BY <1>9, <2>1, <2>2, SeqFromValues
<1> QED BY ZenonT(40), <1>1, <1>2, <1>3, <1>6, <1>7, <1>8, <1>9, <1>10

LEMMA ReserveSequenceKeepsBase ==
  ASSUME Base, ReserveSequence
  PROVE  Base'
<1>1. PICK s \in ScheduledSequence, taken \in Nat, n \in Int :
           /\ s = step.plan[1] /\ step.plan # <<>> /\ s.req \in DOMAIN active
           /\ taken <= free /\ free' = free - taken
           /\ step' = [plan     |-> Tail(step.plan),
                       run      |-> IF n > 0 THEN Append(step.run, Cut(s, n)) ELSE step.run,
                       appended |-> [step.appended EXCEPT ![s.req] = @ + taken]]
           /\ active' \in Seq(ActiveRequest) /\ DOMAIN active' = DOMAIN active
           /\ Len(active') = Len(active)
           /\ \A i \in DOMAIN active :
                /\ active'[i].phase = active[i].phase
                /\ active'[i].blocks = active[i].blocks + (IF i = s.req THEN taken ELSE 0)
  BY ZenonT(40), Reserved
<1>2. /\ pc = "reserve" /\ UNCHANGED <<mode, pc, next, job, queue, slots, answers>>
  BY DEF ReserveSequence
<1>3. /\ step.plan \in Seq(ScheduledSequence) /\ step.run \in Seq(ScheduledSequence)
      /\ step.appended \in [DOMAIN active -> Nat]
      /\ \A i \in DOMAIN active : FullPrefixBlocks < active[i].blocks - step.appended[i]
      /\ \A k \in DOMAIN step.plan : step.plan[k].req \in DOMAIN active
      /\ \A k \in DOMAIN step.run : step.run[k].req \in DOMAIN active
  BY <1>2 DEF Base, StepOK
<1>4. TypeOK'
  BY <1>1, <1>2 DEF Base, TypeOK
<1>5. JobOK'
  BY <1>2 DEF Base, JobOK
<1>6. ControlOK'
  <2>1. active # <<>> => active' # <<>>
    <3>1. active \in Seq(ActiveRequest)
      BY DEF Base, TypeOK
    <3> QED BY <1>1, <3>1
  <2> QED BY <1>1, <1>2, <2>1 DEF Base, ControlOK
<1>7. StepOK'
  <2>1. step'.plan \in Seq(ScheduledSequence)
        /\ \A k \in DOMAIN step'.plan : step'.plan[k].req \in DOMAIN active'
    <3>1. step'.plan = Tail(step.plan)
      BY <1>1
    <3>2. /\ DOMAIN Tail(step.plan) = 1 .. Len(step.plan) - 1
          /\ \A k \in DOMAIN Tail(step.plan) :
               k + 1 \in DOMAIN step.plan /\ Tail(step.plan)[k] = step.plan[k + 1]
      BY <1>1, <1>3
    <3> QED BY <1>1, <1>3, <3>1, <3>2
  <2>2. step'.run \in Seq(ScheduledSequence)
        /\ \A k \in DOMAIN step'.run : step'.run[k].req \in DOMAIN active'
    <3>1. CASE n > 0
      <4>1. step'.run = Append(step.run, Cut(s, n))
        BY <1>1, <3>1
      <4>2. n \in Nat
        BY <3>1
      <4>3. Cut(s, n) \in ScheduledSequence /\ Cut(s, n).req \in DOMAIN active
        BY <1>1, <4>2, CutFields
      <4>4. PICK x \in ScheduledSequence : x = Cut(s, n) /\ x.req \in DOMAIN active
        BY <4>3
      <4>5. PICK old \in Seq(ScheduledSequence) : old = step.run
        BY <1>3
      <4>6. \A k \in DOMAIN Append(old, x) : Append(old, x)[k].req \in DOMAIN active
        BY <1>3, <4>4, <4>5, Appended
      <4> QED BY <1>1, <4>1, <4>4, <4>5, <4>6, Appended
    <3>2. CASE ~(n > 0)
      BY <1>1, <1>3, <3>2
    <3> QED BY <3>1, <3>2
  <2>3. step'.appended \in [DOMAIN active' -> Nat]
        /\ \A i \in DOMAIN active' : FullPrefixBlocks < active'[i].blocks - step'.appended[i]
    <3>1. step'.appended = [step.appended EXCEPT ![s.req] = @ + taken]
      BY <1>1
    <3>2. \A i \in DOMAIN active : step'.appended[i] = step.appended[i]
                                      + (IF i = s.req THEN taken ELSE 0)
      BY <1>3, <3>1
    <3>3. step'.appended \in [DOMAIN active -> Nat]
      BY SMTT(30), <1>1, <1>3, <3>1
    <3>4. \A i \in DOMAIN active : active[i].blocks \in Nat /\ step.appended[i] \in Nat
      <4>1. \A i \in DOMAIN active : active[i] \in ActiveRequest
        BY DEF Base, TypeOK
      <4> QED BY <1>3, <4>1 DEF ActiveRequest
    <3>5. ASSUME NEW i \in DOMAIN active
          PROVE  FullPrefixBlocks < active'[i].blocks - step'.appended[i]
      <4>1. active'[i].blocks = active[i].blocks + (IF i = s.req THEN taken ELSE 0)
        BY <1>1
      <4>2. step'.appended[i] = step.appended[i] + (IF i = s.req THEN taken ELSE 0)
        BY <3>2
      <4>3. FullPrefixBlocks < active[i].blocks - step.appended[i]
        BY <1>3
      <4>4. active[i].blocks \in Nat /\ step.appended[i] \in Nat
        BY <3>4
      <4> QED BY <4>1, <4>2, <4>3, <4>4, Blocks
    <3> QED BY <1>1, <3>3, <3>5
  <2>4. \A i \in DOMAIN active' : FullPrefixBlocks < active'[i].blocks
    <3>1. \A i \in DOMAIN active' : active'[i] \in ActiveRequest /\ step'.appended[i] \in Nat
      BY <1>1, <2>3
    <3>2. \A i \in DOMAIN active' : active'[i].blocks \in Nat
      BY <3>1 DEF ActiveRequest
    <3> QED BY <2>3, <3>1, <3>2, Blocks
  <2> QED BY <1>2, <2>1, <2>2, <2>3, <2>4 DEF StepOK
<1> QED BY <1>4, <1>5, <1>6, <1>7 DEF Base

LEMMA DispatchKeepsBase ==
  ASSUME Base, Dispatch
  PROVE  Base'
BY DEF Base, TypeOK, JobOK, ControlOK, StepOK, Dispatch

\* Appended blocks go back, and nothing else of a request changes but its phase.
LEMMA RolledBack ==
  ASSUME Base, pc \in {"reserve", "execute"}, NEW failed, RollBack(failed)
  PROVE  /\ active' \in Seq(ActiveRequest) /\ DOMAIN active' = DOMAIN active
         /\ Len(active') = Len(active) /\ free' \in Nat /\ step' = NoStep
         /\ \A i \in DOMAIN active :
              /\ active'[i].id = active[i].id
              /\ active'[i].computed = active[i].computed
              /\ active'[i].outputs = active[i].outputs
              /\ active'[i].blocks = active[i].blocks - step.appended[i]
              /\ FullPrefixBlocks < active'[i].blocks
              /\ active'[i].phase = IF i \in failed THEN "Failed" ELSE active[i].phase
<1>1. /\ active' = [i \in DOMAIN active |->
                      [active[i] EXCEPT !.blocks = @ - step.appended[i],
                                        !.phase  = IF i \in failed THEN "Failed" ELSE @]]
      /\ free' = free + Cardinality(BlocksOf(Range(active)) \ BlocksOf(Range(active')))
      /\ step' = NoStep
  BY DEF RollBack
<1>2. /\ active \in Seq(ActiveRequest) /\ free \in Nat /\ Len(active) \in Nat
      /\ DOMAIN active = 1 .. Len(active)
      /\ step.appended \in [DOMAIN active -> Nat]
      /\ \A i \in DOMAIN active : FullPrefixBlocks < active[i].blocks - step.appended[i]
  BY DEF Base, TypeOK, StepOK
<1>3. ASSUME NEW i \in DOMAIN active
      PROVE  /\ active'[i] \in ActiveRequest
             /\ active'[i].id = active[i].id
             /\ active'[i].computed = active[i].computed
             /\ active'[i].outputs = active[i].outputs
             /\ active'[i].blocks = active[i].blocks - step.appended[i]
             /\ FullPrefixBlocks < active'[i].blocks
             /\ active'[i].phase = IF i \in failed THEN "Failed" ELSE active[i].phase
  <2> DEFINE phase == IF i \in failed THEN "Failed" ELSE active[i].phase
             blocks == active[i].blocks - step.appended[i]
  <2>1. active'[i] = [active[i] EXCEPT !.blocks = blocks, !.phase = phase]
    BY <1>1
  <2>2. active[i] \in ActiveRequest /\ FullPrefixBlocks < blocks /\ step.appended[i] \in Nat
    BY <1>2
  <2>3. blocks \in Nat /\ phase \in Phases
    BY <2>2, Blocks DEF ActiveRequest, Phases
  <2> HIDE DEF blocks, phase
  <2>4. /\ active'[i] \in ActiveRequest
        /\ active'[i].id = active[i].id
        /\ active'[i].computed = active[i].computed
        /\ active'[i].outputs = active[i].outputs
        /\ active'[i].blocks = blocks
        /\ active'[i].phase = phase
    BY <2>1, <2>2, <2>3 DEF ActiveRequest
  <2> QED BY <2>2, <2>4 DEF blocks, phase
<1>4. active' \in Seq(ActiveRequest) /\ DOMAIN active' = DOMAIN active /\ Len(active') = Len(active)
  <2>1. active' = [i \in 1 .. Len(active) |-> active'[i]]
    BY <1>1, <1>2
  <2> QED BY <1>2, <1>3, <2>1, SeqFromValues
<1>5. free' \in Nat
  <2>1. IsFiniteSet(BlocksOf(Range(active)))
    BY <1>2, ActiveBlocksFinite
  <2>2. Cardinality(BlocksOf(Range(active)) \ BlocksOf(Range(active'))) \in Nat
    BY <2>1, FS_Difference, FS_CardinalityType
  <2>3. PICK n \in Nat : n = Cardinality(BlocksOf(Range(active)) \ BlocksOf(Range(active')))
    BY <2>2
  <2>4. free' = free + n /\ free \in Nat
    BY <1>1, <1>2, <2>3
  <2> QED BY <2>4
<1> QED BY <1>1, <1>3, <1>4, <1>5

LEMMA RollBackKeepsBase ==
  ASSUME Base, pc \in {"reserve", "execute"}, NEW failed, RollBack(failed), pc' = "reap",
         UNCHANGED <<mode, next, job, queue, slots, answers>>
  PROVE  Base'
<1>1. /\ active' \in Seq(ActiveRequest) /\ DOMAIN active' = DOMAIN active
      /\ Len(active') = Len(active) /\ free' \in Nat /\ step' = NoStep
      /\ \A i \in DOMAIN active : FullPrefixBlocks < active'[i].blocks
  BY RolledBack
<1>2. TypeOK'
  BY <1>1 DEF Base, TypeOK
<1>3. JobOK' /\ ControlOK'
  BY <1>1 DEF Base, JobOK, ControlOK
<1>4. StepOK'
  <2>1. DOMAIN step'.plan = {} /\ DOMAIN step'.run = {}
        /\ step'.plan \in Seq(ScheduledSequence) /\ step'.run \in Seq(ScheduledSequence)
    BY <1>1, NothingInHand
  <2> QED BY <1>1, <2>1 DEF StepOK
<1> QED BY <1>2, <1>3, <1>4 DEF Base

LEMMA NothingRunsKeepsBase ==
  ASSUME Base, NothingRuns
  PROVE  Base'
<1>1. pc \in {"reserve", "execute"} /\ RollBack({1}) /\ pc' = "reap"
      /\ UNCHANGED <<mode, next, job, queue, slots, answers>>
  BY DEF NothingRuns
<1> QED BY <1>1, RollBackKeepsBase

LEMMA GpuStepFailsKeepsBase ==
  ASSUME Base, GpuStepFails
  PROVE  Base'
<1>1. PICK failed : failed = {i \in DOMAIN active : RunOf(i) # {}}
  OBVIOUS
<1>2. pc \in {"reserve", "execute"} /\ RollBack(failed) /\ pc' = "reap"
      /\ UNCHANGED <<mode, next, job, queue, slots, answers>>
  BY <1>1 DEF GpuStepFails
<1> QED BY <1>2, RollBackKeepsBase

\* Each request that ran is what its commit makes of it.
LEMMA Stepped ==
  ASSUME Base, GpuStep
  PROVE  /\ active' \in Seq(ActiveRequest) /\ DOMAIN active' = DOMAIN active
         /\ Len(active') = Len(active) /\ step' = NoStep
         /\ \A i \in DOMAIN active :
              /\ active'[i].id = active[i].id
              /\ active'[i].blocks = active[i].blocks
              /\ active'[i].computed >= active[i].computed
              /\ active'[i].phase \in {active[i].phase, "Finished"}
              /\ RunOf(i) = {} => active'[i] = active[i]
              /\ RunOf(i) # {} =>
                   \E k \in RunOf(i), token \in {"eos", "token", "loop"} :
                     /\ active'[i] = Committed(active[i], step.run[k], token)
                     /\ (\A l \in RunOf(i) : ~step.run[l].logits) => token = "token"
<1>1. PICK token \in [DOMAIN active -> {"eos", "token", "loop"}] :
       /\ \A i \in DOMAIN active :
            (\A k \in RunOf(i) : ~step.run[k].logits) => token[i] = "token"
       /\ active' = [i \in DOMAIN active |->
                       IF RunOf(i) = {}
                       THEN active[i]
                       ELSE Committed(active[i], step.run[CHOOSE k \in RunOf(i) : TRUE], token[i])]
  BY DEF GpuStep
<1>2. /\ active \in Seq(ActiveRequest) /\ Len(active) \in Nat /\ DOMAIN active = 1 .. Len(active)
      /\ step.run \in Seq(ScheduledSequence) /\ step' = NoStep
  BY DEF Base, TypeOK, StepOK, GpuStep
<1>3. ASSUME NEW i \in DOMAIN active
      PROVE  /\ active'[i] \in ActiveRequest
             /\ active'[i].id = active[i].id
             /\ active'[i].blocks = active[i].blocks
             /\ active'[i].computed >= active[i].computed
             /\ active'[i].phase \in {active[i].phase, "Finished"}
             /\ RunOf(i) = {} => active'[i] = active[i]
             /\ RunOf(i) # {} =>
                  \E k \in RunOf(i), t \in {"eos", "token", "loop"} :
                    /\ active'[i] = Committed(active[i], step.run[k], t)
                    /\ (\A l \in RunOf(i) : ~step.run[l].logits) => t = "token"
  <2>1. active[i] \in ActiveRequest
    BY <1>2
  <2>2. CASE RunOf(i) = {}
    <3>1. active'[i] = active[i]
      BY <1>1, <2>2
    <3>2. active[i].computed \in Nat
      BY <2>1 DEF ActiveRequest
    <3> QED BY <2>1, <2>2, <3>1, <3>2
  <2>3. CASE RunOf(i) # {}
    <3>1. PICK k \in RunOf(i) : k = CHOOSE l \in RunOf(i) : TRUE
      BY <2>3
    <3>2. active'[i] = Committed(active[i], step.run[k], token[i])
      BY <1>1, <2>3, <3>1
    <3>3. step.run[k] \in ScheduledSequence
      BY <1>2 DEF RunOf
    <3>4. /\ active'[i] \in ActiveRequest
          /\ active'[i].id = active[i].id
          /\ active'[i].blocks = active[i].blocks
          /\ active'[i].computed >= active[i].computed
          /\ active'[i].phase \in {active[i].phase, "Finished"}
      BY <2>1, <3>2, <3>3, CommittedTyped
    <3>5. token[i] \in {"eos", "token", "loop"}
      BY <1>1
    <3> QED BY <1>1, <2>3, <3>2, <3>4, <3>5
  <2> QED BY <2>2, <2>3
<1>4. active' \in Seq(ActiveRequest) /\ DOMAIN active' = DOMAIN active /\ Len(active') = Len(active)
  <2>1. active' = [i \in 1 .. Len(active) |-> active'[i]]
    BY <1>1, <1>2
  <2> QED BY <1>2, <1>3, <2>1, SeqFromValues
<1> QED BY <1>2, <1>3, <1>4

LEMMA GpuStepKeepsBase ==
  ASSUME Base, GpuStep
  PROVE  Base'
<1>1. /\ active' \in Seq(ActiveRequest) /\ DOMAIN active' = DOMAIN active
      /\ Len(active') = Len(active) /\ step' = NoStep
      /\ \A i \in DOMAIN active : active'[i].blocks = active[i].blocks
  BY Stepped
<1>2. /\ pc = "execute" /\ pc' = "reap" /\ slots' \subseteq slots
      /\ UNCHANGED <<mode, next, job, queue, free, answers>>
  BY DEF GpuStep
<1>3. TypeOK' /\ JobOK' /\ ControlOK'
  BY <1>1, <1>2 DEF Base, TypeOK, JobOK, ControlOK
<1>4. StepOK'
  <2>1. DOMAIN step'.plan = {} /\ DOMAIN step'.run = {}
        /\ step'.plan \in Seq(ScheduledSequence) /\ step'.run \in Seq(ScheduledSequence)
    BY <1>1, NothingInHand
  <2>2. \A i \in DOMAIN active : FullPrefixBlocks < active[i].blocks
    BY DEF Base, StepOK
  <2> QED BY <1>1, <1>2, <2>1, <2>2 DEF StepOK
<1> QED BY <1>3, <1>4 DEF Base

\* What is left when the loop ends is answered.
LEMMA Drained ==
  ASSUME Base, Drain
  PROVE  /\ answers' \in [Chunks -> Seq(Outcomes)]
         /\ \A c \in Chunks :
              IF c \in Range(job.cands) \cup Range(queue)
              THEN Len(answers'[c]) = Len(answers[c]) + 1
              ELSE answers'[c] = answers[c]
<1> DEFINE S == Range(job.cands) \cup Range(queue)
           o == Failed(S)
<1>1. Emit(o)
  BY DEF Drain
<1>2. S \subseteq Chunks /\ answers \in [Chunks -> Seq(Outcomes)]
  BY DEF Base, TypeOK, Job, Range
<1> HIDE DEF S
<1>3. DOMAIN o = S /\ DOMAIN o \subseteq Chunks /\ \A c \in DOMAIN o : o[c] \in Outcomes
  BY <1>2, AllFailed
<1>4. answers' = [c \in Chunks |-> IF c \in DOMAIN o THEN Append(answers[c], o[c])
                                                     ELSE answers[c]]
  BY <1>1 DEF Emit
<1> HIDE DEF o
<1>5. /\ answers' \in [Chunks -> Seq(Outcomes)]
      /\ \A c \in Chunks : IF c \in DOMAIN o
                          THEN Len(answers'[c]) = Len(answers[c]) + 1
                          ELSE answers'[c] = answers[c]
  BY <1>2, <1>3, <1>4, Emitted
<1> QED BY <1>3, <1>5 DEF S

LEMMA DrainKeepsBase ==
  ASSUME Base, Drain
  PROVE  Base'
<1>1. /\ pc = "drain" /\ pc' = "done" /\ job' = NoJob /\ queue' = <<>> /\ slots' \subseteq slots
      /\ free' = free + BlocksFor(PrefixTokens) /\ UNCHANGED <<mode, next, active, step>>
  BY DEF Drain
<1>2. answers' \in [Chunks -> Seq(Outcomes)]
  BY Drained
<1>3. Range(queue') = {} /\ queue' \in Seq(Chunks)
  BY <1>1 DEF Range
<1>4. free' \in Nat
  <2>1. BlocksFor(PrefixTokens) \in Nat
    BY Blocks, Numbers
  <2> QED BY <1>1, <2>1 DEF Base, TypeOK
<1>5. JobOK' /\ job' \in Job
  BY <1>1, NothingInHand, Numbers DEF JobOK
<1>6. TypeOK' /\ ControlOK' /\ StepOK'
  BY <1>1, <1>2, <1>3, <1>4, <1>5 DEF Base, TypeOK, ControlOK, StepOK
<1> QED BY <1>5, <1>6 DEF Base

LEMMA StutterKeepsBase ==
  ASSUME Base, UNCHANGED vars
  PROVE  Base'
BY DEF Base, TypeOK, JobOK, ControlOK, StepOK, vars

(* The engine's variables keep their types, a job what makes it one, and   *)
(* the main thread is where it is for a reason.                            *)
THEOREM EngineTypeCorrect == Spec => []Base
<1>1. Init => Base
  BY BaseInit
<1>2. Base /\ [Next]_vars => Base'
  BY ReapKeepsBase, ThreadPreparesKeepsBase, FillStepKeepsBase, ActivateKeepsBase,
     CopyFailsKeepsBase, ActivateEndsKeepsBase, ConsumeNothingKeepsBase, ConsumeKeepsBase,
     PrefetchNextKeepsBase, FilledKeepsBase, PlanRoundKeepsBase, ReserveSequenceKeepsBase,
     DispatchKeepsBase, NothingRunsKeepsBase, GpuStepKeepsBase, GpuStepFailsKeepsBase,
     DrainKeepsBase, StutterKeepsBase DEF Next, Main, Returned
<1> QED BY <1>1, <1>2, PTL DEF Spec

-----------------------------------------------------------------------------
(* Each chunk is in one place.                                             *)

\* One of the five holds.
OnlyOne(p, q, r, s, t) ==
  /\ p \/ q \/ r \/ s \/ t
  /\ p => ~q /\ ~r /\ ~s /\ ~t
  /\ q => ~r /\ ~s /\ ~t
  /\ r => ~s /\ ~t
  /\ s => ~t

\* Chunk c is in one place.
InOnePlace(c) ==
  /\ Len(answers[c]) \in {0, 1}
  /\ OnlyOne(c >= next, c \in Range(job.cands), c \in Range(queue), c \in Ids(active),
             Len(answers[c]) = 1)

\* So is every chunk, and the containers hold nothing twice.
Places ==
  /\ \A c \in Chunks : InOnePlace(c)
  /\ Distinct(job.cands) /\ Distinct(queue) /\ DistinctIds(active)

LEMMA Counts ==
  ASSUME Base, NEW c \in Chunks
  PROVE  Len(answers[c]) \in Nat /\ c \in Nat /\ next \in Nat
<1>1. answers[c] \in Seq(Outcomes)
  BY DEF Base, TypeOK
<1> QED BY <1>1, Numbers DEF Base, TypeOK

LEMMA PlacesInit ==
  ASSUME Init
  PROVE  Places
<1>1. /\ job.cands = <<>> /\ queue = <<>> /\ active = <<>> /\ next = 1
      /\ \A c \in Chunks : answers[c] = <<>>
  BY NothingInHand DEF Init
<1>2. Range(<<>>) = {} /\ Ids(<<>>) = {} /\ Len(<<>>) = 0 /\ DOMAIN <<>> = {}
  BY DEF Range, Ids
<1>3. \A c \in Chunks : c >= 1
  BY Numbers
<1> QED BY <1>1, <1>2, <1>3 DEF Places, InOnePlace, OnlyOne, Distinct, DistinctIds

\* Requests change, but not which chunks they are of.
LEMMA SameIds ==
  ASSUME NEW a, NEW b, DOMAIN a = DOMAIN b, \A i \in DOMAIN a : a[i].id = b[i].id
  PROVE  Ids(a) = Ids(b) /\ (DistinctIds(a) => DistinctIds(b))
BY DEF Ids, DistinctIds

LEMMA PlacesStay ==
  ASSUME Base, Base', Places, DOMAIN active' = DOMAIN active,
         \A i \in DOMAIN active : active'[i].id = active[i].id,
         UNCHANGED <<next, queue, answers>>, job'.cands = job.cands
  PROVE  Places'
<1>1. Ids(active') = Ids(active) /\ (DistinctIds(active) => DistinctIds(active'))
  BY SameIds
<1> QED BY <1>1 DEF Places, InOnePlace

LEMMA LaunchKeepsPlaces ==
  ASSUME Base, Base', Places, ~AllLaunched, Launch, job = NoJob, UNCHANGED <<queue, active>>
  PROVE  Places'
<1>1. /\ next < next' /\ next' \in 1 .. Len(Prompt) + 1
      /\ Range(job'.cands) = {c \in Chunks : next <= c /\ c < next' /\ Prompt[c] > 0}
      /\ Distinct(job'.cands)
      /\ \A c \in Chunks :
              IF next <= c /\ c < next' /\ Prompt[c] = 0
              THEN Len(answers'[c]) = Len(answers[c]) + 1
              ELSE answers'[c] = answers[c]
  BY Launched
<1>2. Range(job.cands) = {}
  BY NothingInHand
<1>3. ASSUME NEW c \in Chunks
      PROVE  InOnePlace(c)'
  <2>1. InOnePlace(c)
    BY DEF Places
  <2>2. Len(answers[c]) \in Nat /\ c \in Nat /\ next \in Nat /\ next' \in Nat
        /\ Prompt[c] \in Nat
    BY <1>1, Counts, Numbers
  <2>3. c \in Range(job'.cands) <=> next <= c /\ c < next' /\ Prompt[c] > 0
    BY <1>1
  <2>4. IF next <= c /\ c < next' /\ Prompt[c] = 0
        THEN Len(answers'[c]) = Len(answers[c]) + 1
        ELSE answers'[c] = answers[c]
    BY <1>1
  <2>5. c \notin Range(job.cands)
    BY <1>2
  <2>6. CASE next <= c /\ c < next' /\ Prompt[c] = 0
    <3>1. Len(answers[c]) = 0 /\ Len(answers'[c]) = Len(answers[c]) + 1
      BY <2>1, <2>2, <2>4, <2>6 DEF InOnePlace, OnlyOne
    <3>2. Len(answers'[c]) = 1
      BY <3>1
    <3> QED BY <1>1, <2>1, <2>2, <2>3, <2>5, <2>6, <3>2 DEF InOnePlace, OnlyOne
  <2>7. CASE ~(next <= c /\ c < next' /\ Prompt[c] = 0)
    <3>1. answers'[c] = answers[c]
      BY <2>4, <2>7
    <3>2. c >= next <=> c \in Range(job'.cands) \/ c >= next'
      BY <1>1, <2>2, <2>3, <2>7
    <3>3. c \in Range(job'.cands) => ~(c >= next')
      BY <2>2, <2>3
    <3> QED BY <1>1, <2>1, <2>5, <3>1, <3>2, <3>3 DEF InOnePlace, OnlyOne
  <2> QED BY <2>6, <2>7
<1> QED BY <1>1, <1>3 DEF Places

LEMMA ReapKeepsPlaces ==
  ASSUME Base, Base', Places, Reap
  PROVE  Places'
<1>1. /\ active' \in Seq(ActiveRequest) /\ DistinctIds(active')
      /\ Range(active') = {r \in Range(active) : r.phase = "run"}
      /\ \A c \in Chunks :
              IF \E r \in Range(active) : r.phase # "run" /\ r.id = c
              THEN Len(answers'[c]) = Len(answers[c]) + 1
              ELSE answers'[c] = answers[c]
  BY Reaped DEF Places
<1>2. UNCHANGED <<next, job, queue>>
  BY DEF Reap
<1>3. ASSUME NEW c \in Chunks
      PROVE  InOnePlace(c)'
  <2> DEFINE Gone == \E r \in Range(active) : r.phase # "run" /\ r.id = c
  <2>1. c \in Ids(active') <=> \E r \in Range(active') : r.id = c
    BY DEF Ids, Range
  <2>2. c \in Ids(active) <=> \E r \in Range(active) : r.id = c
    BY DEF Ids, Range
  <2>3. Gone => ~ \E r \in Range(active) : r.phase = "run" /\ r.id = c
    BY DEF Places, DistinctIds, Range
  <2>4. /\ Gone => c \notin Ids(active') /\ c \in Ids(active)
        /\ ~Gone => (c \in Ids(active') <=> c \in Ids(active))
    BY <1>1, <2>1, <2>2, <2>3
  <2>5. IF Gone THEN Len(answers'[c]) = Len(answers[c]) + 1 ELSE answers'[c] = answers[c]
    BY <1>1
  <2>6. InOnePlace(c)
    BY DEF Places
  <2> HIDE DEF Gone
  <2>7. CASE Gone
    <3>1. Len(answers[c]) = 0 /\ Len(answers'[c]) = Len(answers[c]) + 1
      BY <2>4, <2>5, <2>6, <2>7 DEF InOnePlace, OnlyOne
    <3>2. Len(answers'[c]) = 1
      BY <3>1
    <3> QED BY <1>2, <2>4, <2>6, <2>7, <3>2 DEF InOnePlace, OnlyOne
  <2>8. CASE ~Gone
    BY <1>2, <2>4, <2>5, <2>6, <2>8 DEF InOnePlace, OnlyOne
  <2> QED BY <2>7, <2>8
<1> QED BY <1>1, <1>2, <1>3 DEF Places

LEMMA ActivateKeepsPlaces ==
  ASSUME Base, Base', Places, Activate
  PROVE  Places'
<1>1. PICK r \in ActiveRequest :
           /\ r.id = Head(queue)
           /\ DOMAIN active' = 1 .. Len(active) + 1
           /\ DOMAIN active = 1 .. Len(active) /\ Len(active) \in Nat
           /\ active'[Len(active) + 1] = r
           /\ \A i \in DOMAIN active : active'[i] = active[i]
           /\ queue # <<>>
  BY Activated
<1>2. queue' = Tail(queue) /\ UNCHANGED <<next, job, answers>> /\ queue \in Seq(Chunks)
  BY DEF Activate, Base, TypeOK
<1>3. /\ Head(queue) \in Chunks /\ Range(queue) = {Head(queue)} \cup Range(queue')
      /\ Distinct(queue') /\ Head(queue) \notin Range(queue')
  BY <1>1, <1>2, Popped DEF Places
<1>4. Ids(active') = Ids(active) \cup {Head(queue)}
  BY <1>1 DEF Ids
<1>5. Head(queue) \notin Ids(active)
  <2>1. InOnePlace(Head(queue)) /\ Head(queue) \in Range(queue)
    BY <1>3 DEF Places
  <2> QED BY <2>1 DEF InOnePlace, OnlyOne
<1>6. DistinctIds(active')
  <2>1. \A i \in DOMAIN active : active[i].id # r.id
    BY <1>1, <1>5 DEF Ids
  <2>2. DistinctIds(active)
    BY DEF Places
  <2>3. \A i \in DOMAIN active' : i \in DOMAIN active \/ i = Len(active) + 1
    BY <1>1
  <2> QED BY <1>1, <2>1, <2>2, <2>3 DEF DistinctIds
<1>7. ASSUME NEW c \in Chunks
      PROVE  InOnePlace(c)'
  <2>1. InOnePlace(c)
    BY DEF Places
  <2>2. CASE c = Head(queue)
    BY <1>2, <1>3, <1>4, <2>1, <2>2 DEF InOnePlace, OnlyOne
  <2>3. CASE c # Head(queue)
    <3>1. /\ c \in Range(queue') <=> c \in Range(queue)
          /\ c \in Ids(active') <=> c \in Ids(active)
      BY <1>3, <1>4, <2>3
    <3> QED BY <1>2, <2>1, <3>1 DEF InOnePlace, OnlyOne
  <2> QED BY <2>2, <2>3
<1> QED BY <1>2, <1>3, <1>6, <1>7 DEF Places

LEMMA CopyFailsKeepsPlaces ==
  ASSUME Base, Base', Places, CopyFails
  PROVE  Places'
<1>1. /\ queue # <<>> /\ Head(queue) \in Chunks
      /\ \A c \in Chunks :
              IF c = Head(queue)
              THEN Len(answers'[c]) = Len(answers[c]) + 1
              ELSE answers'[c] = answers[c]
  BY CopyFailed
<1>2. queue' = Tail(queue) /\ UNCHANGED <<next, job, active>> /\ queue \in Seq(Chunks)
  BY DEF CopyFails, Base, TypeOK
<1>3. /\ Range(queue) = {Head(queue)} \cup Range(queue')
      /\ Distinct(queue') /\ Head(queue) \notin Range(queue')
  BY <1>1, <1>2, Popped DEF Places
<1>4. ASSUME NEW c \in Chunks
      PROVE  InOnePlace(c)'
  <2>1. InOnePlace(c)
    BY DEF Places
  <2>2. /\ IF c = Head(queue)
           THEN Len(answers'[c]) = Len(answers[c]) + 1
           ELSE answers'[c] = answers[c]
        /\ c \in Range(queue) <=> c = Head(queue) \/ c \in Range(queue')
    BY <1>1, <1>3
  <2>3. CASE c = Head(queue)
    <3>1. Len(answers[c]) = 0 /\ Len(answers'[c]) = Len(answers[c]) + 1
      BY <2>1, <2>2, <2>3 DEF InOnePlace, OnlyOne
    <3>2. Len(answers'[c]) = 1
      BY <3>1
    <3> QED BY <1>2, <1>3, <2>1, <2>2, <2>3, <3>2 DEF InOnePlace, OnlyOne
  <2>4. CASE c # Head(queue)
    BY <1>2, <2>1, <2>2, <2>4 DEF InOnePlace, OnlyOne
  <2> QED BY <2>3, <2>4
<1> QED BY <1>2, <1>3, <1>4 DEF Places

LEMMA ConsumeKeepsPlaces ==
  ASSUME Base, Base', Places, Consume
  PROVE  Places'
<1>1. PICK ok \in SUBSET Range(job.cands), fits \in SUBSET Range(job.cands) :
           /\ queue = <<>> /\ Range(queue') = fits
           /\ Distinct(job.cands) => Distinct(queue')
           /\ \A c \in Chunks :
                IF c \in Range(job.cands) \ fits
                THEN Len(answers'[c]) = Len(answers[c]) + 1
                ELSE answers'[c] = answers[c]
  BY Consumed
<1>2. job' = NoJob /\ UNCHANGED <<next, active>>
  BY DEF Consume
<1>3. Range(job'.cands) = {} /\ Range(queue) = {} /\ job'.cands = <<>>
  BY <1>1, <1>2, NothingInHand DEF Range
<1>4. ASSUME NEW c \in Chunks
      PROVE  InOnePlace(c)'
  <2>1. /\ IF c \in Range(job.cands) \ fits
           THEN Len(answers'[c]) = Len(answers[c]) + 1
           ELSE answers'[c] = answers[c]
        /\ c \in fits => c \in Range(job.cands)
    BY <1>1
  <2>2. c \notin Range(job'.cands) /\ c \notin Range(queue) /\ (c \in Range(queue') <=> c \in fits)
    BY <1>1, <1>3
  <2>3. InOnePlace(c)
    BY DEF Places
  <2>4. CASE c \in Range(job.cands) \ fits
    <3>1. Len(answers[c]) = 0 /\ Len(answers'[c]) = Len(answers[c]) + 1
      BY <2>1, <2>3, <2>4 DEF InOnePlace, OnlyOne
    <3>2. Len(answers'[c]) = 1
      BY <3>1
    <3> QED BY <1>2, <2>2, <2>3, <2>4, <3>2 DEF InOnePlace, OnlyOne
  <2>5. CASE c \notin Range(job.cands) \ fits
    BY <1>2, <2>1, <2>2, <2>3, <2>5 DEF InOnePlace, OnlyOne
  <2> QED BY <2>4, <2>5
<1>5. Distinct(job'.cands) /\ Distinct(queue') /\ DistinctIds(active')
  BY <1>1, <1>2, <1>3 DEF Places, Distinct
<1> QED BY <1>4, <1>5 DEF Places

LEMMA DrainKeepsPlaces ==
  ASSUME Base, Base', Places, Drain
  PROVE  Places'
<1>1. \A c \in Chunks :
              IF c \in Range(job.cands) \cup Range(queue)
              THEN Len(answers'[c]) = Len(answers[c]) + 1
              ELSE answers'[c] = answers[c]
  BY Drained
<1>2. job' = NoJob /\ queue' = <<>> /\ UNCHANGED <<next, active>>
  BY DEF Drain
<1>3. Range(job'.cands) = {} /\ Range(queue') = {} /\ job'.cands = <<>>
  BY <1>2, NothingInHand DEF Range
<1>4. ASSUME NEW c \in Chunks
      PROVE  InOnePlace(c)'
  <2>1. IF c \in Range(job.cands) \cup Range(queue)
        THEN Len(answers'[c]) = Len(answers[c]) + 1
        ELSE answers'[c] = answers[c]
    BY <1>1
  <2>2. c \notin Range(job'.cands) /\ c \notin Range(queue')
    BY <1>3
  <2>3. InOnePlace(c)
    BY DEF Places
  <2>4. CASE c \in Range(job.cands) \cup Range(queue)
    <3>1. Len(answers[c]) = 0 /\ Len(answers'[c]) = Len(answers[c]) + 1
      BY <2>1, <2>3, <2>4 DEF InOnePlace, OnlyOne
    <3>2. Len(answers'[c]) = 1
      BY <3>1
    <3> QED BY <1>2, <2>2, <2>3, <2>4, <3>2 DEF InOnePlace, OnlyOne
  <2>5. CASE c \notin Range(job.cands) \cup Range(queue)
    BY <1>2, <2>1, <2>2, <2>3, <2>5 DEF InOnePlace, OnlyOne
  <2> QED BY <2>4, <2>5
<1>5. Distinct(job'.cands) /\ Distinct(queue') /\ DistinctIds(active')
  BY <1>2, <1>3 DEF Places, Distinct
<1> QED BY <1>4, <1>5 DEF Places

\* The other steps move no chunk.
LEMMA OthersKeepPlaces ==
  ASSUME Base, Base', Places,
         \/ ThreadPrepares \/ ActivateEnds \/ ConsumeNothing \/ Filled \/ PlanRound
         \/ ReserveSequence \/ Dispatch \/ NothingRuns \/ GpuStep \/ GpuStepFails
         \/ UNCHANGED vars
  PROVE  Places'
<1>1. CASE ThreadPrepares
  <2>1. job'.cands = job.cands /\ UNCHANGED <<next, queue, answers, active>>
    <3>1. job \in Job /\ UNCHANGED mainVars
          /\ \E got, made : job' = [job EXCEPT !.ready = TRUE, !.made = made, !.got = got]
      BY <1>1 DEF ThreadPrepares, Base, TypeOK
    <3> QED BY <3>1 DEF mainVars, Job
  <2> QED BY <2>1, PlacesStay
<1>2. CASE \/ ActivateEnds \/ ConsumeNothing \/ Filled \/ PlanRound \/ Dispatch \/ UNCHANGED vars
  <2>1. UNCHANGED <<next, job, queue, answers, active>>
    BY <1>2 DEF ActivateEnds, ConsumeNothing, Filled, PlanRound, Dispatch, vars
  <2> QED BY <2>1, PlacesStay
<1>3. CASE ReserveSequence
  <2>1. DOMAIN active' = DOMAIN active /\ \A i \in DOMAIN active : active'[i].id = active[i].id
    BY <1>3, Reserved
  <2>2. UNCHANGED <<next, job, queue, answers>>
    BY <1>3 DEF ReserveSequence
  <2> QED BY <2>1, <2>2, PlacesStay
<1>4. CASE NothingRuns \/ GpuStepFails
  <2>1. PICK failed : RollBack(failed)
    BY <1>4 DEF NothingRuns, GpuStepFails
  <2>2. pc \in {"reserve", "execute"} /\ UNCHANGED <<next, job, queue, answers>>
    BY <1>4 DEF NothingRuns, GpuStepFails
  <2>3. DOMAIN active' = DOMAIN active /\ \A i \in DOMAIN active : active'[i].id = active[i].id
    BY <2>1, <2>2, RolledBack
  <2> QED BY <2>2, <2>3, PlacesStay
<1>5. CASE GpuStep
  <2>1. DOMAIN active' = DOMAIN active /\ \A i \in DOMAIN active : active'[i].id = active[i].id
    BY <1>5, Stepped
  <2>2. UNCHANGED <<next, job, queue, answers>>
    BY <1>5 DEF GpuStep
  <2> QED BY <2>1, <2>2, PlacesStay
<1> QED BY <1>1, <1>2, <1>3, <1>4, <1>5

LEMMA FillStepKeepsPlaces ==
  ASSUME Base, Base', Places, FillStep \/ PrefetchNext
  PROVE  Places'
<1>1. UNCHANGED <<queue, active>>
  BY DEF FillStep, PrefetchNext
<1>2. CASE Launch /\ job = NoJob /\ ~AllLaunched
  BY <1>1, <1>2, LaunchKeepsPlaces
<1>3. CASE UNCHANGED <<next, job, answers>>
  BY <1>1, <1>3, PlacesStay
<1> QED BY <1>2, <1>3 DEF FillStep, PrefetchNext

LEMMA PlacesInvariant == Spec => []Places
<1>1. Init => Places
  BY PlacesInit
<1>2. Base /\ Base' /\ Places /\ [Next]_vars => Places'
  BY ReapKeepsPlaces, ActivateKeepsPlaces, CopyFailsKeepsPlaces, ConsumeKeepsPlaces,
     DrainKeepsPlaces, FillStepKeepsPlaces, OthersKeepPlaces DEF Next, Main, Returned
<1> QED BY <1>1, <1>2, EngineTypeCorrect, PTL DEF Spec

LEMMA OccursOnce ==
  ASSUME NEW I, NEW i \in I, NEW P \in SUBSET I, \A j \in I : j \in P <=> j = i
  PROVE  Cardinality(P) = 1
<1>1. P = {i}
  OBVIOUS
<1> QED BY <1>1, FS_Singleton

(* Whatever the number of chunks and the limits: a chunk is not launched,  *)
(* or a candidate of the job, or prepared, or active, or answered, once.   *)
THEOREM OnePlace == Spec => []EachChunkInOnePlace
<1>1. Base /\ Places => EachChunkInOnePlace
  <2>1. SUFFICES ASSUME Base, Places, NEW c \in Chunks
                 PROVE  (IF c >= next THEN 1 ELSE 0)
                          + Cardinality({i \in DOMAIN job.cands : job.cands[i] = c})
                          + Cardinality({i \in DOMAIN queue : queue[i] = c})
                          + Cardinality({i \in DOMAIN active : active[i].id = c})
                          + Len(answers[c]) = 1
    BY DEF EachChunkInOnePlace
  <2>2. Cardinality({i \in DOMAIN job.cands : job.cands[i] = c})
          = IF c \in Range(job.cands) THEN 1 ELSE 0
    <3> DEFINE s == job.cands
               P == {i \in DOMAIN s : s[i] = c}
    <3>1. CASE c \in Range(s)
      <4>1. PICK i \in DOMAIN s : s[i] = c
        BY <3>1 DEF Range
      <4>2. \A j \in DOMAIN s : j \in P <=> j = i
        BY <2>1, <4>1 DEF Places, Distinct
      <4> QED BY <3>1, <4>2, OccursOnce
    <3>2. CASE c \notin Range(s)
      <4>1. P = {}
        BY <3>2 DEF Range
      <4> HIDE DEF P, s
      <4> QED BY <3>2, <4>1, FS_EmptySet DEF P, s
    <3> QED BY <3>1, <3>2
  <2>3. Cardinality({i \in DOMAIN queue : queue[i] = c})
          = IF c \in Range(queue) THEN 1 ELSE 0
    <3> DEFINE P == {i \in DOMAIN queue : queue[i] = c}
    <3>1. CASE c \in Range(queue)
      <4>1. PICK i \in DOMAIN queue : queue[i] = c
        BY <3>1 DEF Range
      <4>2. \A j \in DOMAIN queue : j \in P <=> j = i
        BY <2>1, <4>1 DEF Places, Distinct
      <4> QED BY <3>1, <4>2, OccursOnce
    <3>2. CASE c \notin Range(queue)
      <4>1. P = {}
        BY <3>2 DEF Range
      <4> HIDE DEF P
      <4> QED BY <3>2, <4>1, FS_EmptySet DEF P
    <3> QED BY <3>1, <3>2
  <2>4. Cardinality({i \in DOMAIN active : active[i].id = c})
          = IF c \in Ids(active) THEN 1 ELSE 0
    <3> DEFINE P == {i \in DOMAIN active : active[i].id = c}
    <3>1. CASE c \in Ids(active)
      <4>1. PICK i \in DOMAIN active : active[i].id = c
        BY <3>1 DEF Ids
      <4>2. \A j \in DOMAIN active : j \in P <=> j = i
        BY <2>1, <4>1 DEF Places, DistinctIds
      <4> QED BY <3>1, <4>2, OccursOnce
    <3>2. CASE c \notin Ids(active)
      <4>1. P = {}
        BY <3>2 DEF Ids
      <4> HIDE DEF P
      <4> QED BY <3>2, <4>1, FS_EmptySet DEF P
    <3> QED BY <3>1, <3>2
  <2>5. InOnePlace(c)
    BY <2>1 DEF Places
  <2>6. c \in Nat /\ next \in Nat
    BY <2>1, Counts
  <2>7. CASE Len(answers[c]) = 1
    BY <2>2, <2>3, <2>4, <2>5, <2>6, <2>7 DEF InOnePlace, OnlyOne
  <2>8. CASE Len(answers[c]) = 0
    <3>1. CASE c >= next
      BY <2>2, <2>3, <2>4, <2>5, <2>8, <3>1 DEF InOnePlace, OnlyOne
    <3>2. CASE c \in Range(job.cands)
      BY <2>2, <2>3, <2>4, <2>5, <2>8, <3>2 DEF InOnePlace, OnlyOne
    <3>3. CASE c \in Range(queue)
      BY <2>2, <2>3, <2>4, <2>5, <2>8, <3>3 DEF InOnePlace, OnlyOne
    <3>4. CASE c \in Ids(active)
      BY <2>2, <2>3, <2>4, <2>5, <2>8, <3>4 DEF InOnePlace, OnlyOne
    <3> QED BY <2>5, <2>8, <3>1, <3>2, <3>3, <3>4 DEF InOnePlace, OnlyOne
  <2> QED BY <2>5, <2>7, <2>8 DEF InOnePlace
<1> QED BY <1>1, EngineTypeCorrect, PlacesInvariant, PTL

-----------------------------------------------------------------------------
(* Blocks are conserved.                                                   *)

LEMMA DisjointUnion ==
  ASSUME NEW S, NEW T, IsFiniteSet(S), IsFiniteSet(T), \A x \in S : x \notin T
  PROVE  /\ IsFiniteSet(S \cup T)
         /\ Cardinality(S \cup T) = Cardinality(S) + Cardinality(T)
<1>1. S \cap T = {}
  OBVIOUS
<1>2. /\ Cardinality(S \cup T) = Cardinality(S) + Cardinality(T) - Cardinality(S \cap T)
      /\ IsFiniteSet(S \cup T)
  BY FS_Union
<1>3. Cardinality(S \cap T) = 0 /\ Cardinality(S) \in Nat /\ Cardinality(T) \in Nat
  BY <1>1, FS_EmptySet, FS_CardinalityType
<1> QED BY <1>2, <1>3

\* Requests with different chunks have no block in common.
LEMMA BlocksApart ==
  ASSUME NEW S, NEW T, \A r \in S, t \in T : r.id # t.id
  PROVE  \A x \in BlocksOf(S) : x \notin BlocksOf(T)
BY DEF BlocksOf, OwnBlocks

LEMMA BlocksOfUnion ==
  ASSUME NEW S, NEW T
  PROVE  BlocksOf(S \cup T) = BlocksOf(S) \cup BlocksOf(T)
BY DEF BlocksOf

LEMMA BlocksOfOne ==
  ASSUME NEW r
  PROVE  BlocksOf({r}) = OwnBlocks(r)
BY DEF BlocksOf

\* What the active requests own.
Owned == Cardinality(BlocksOf(Range(active)))

BlocksOK == free + Owned = NumBlocks - (IF pc = "done" THEN 0 ELSE BlocksFor(PrefixTokens))

LEMMA OwnedTyped ==
  ASSUME Base
  PROVE  IsFiniteSet(BlocksOf(Range(active))) /\ Owned \in Nat /\ free \in Nat
BY ActiveBlocksFinite DEF Base, TypeOK, Owned

LEMMA OwnedTypedNext ==
  ASSUME Base'
  PROVE  IsFiniteSet(BlocksOf(Range(active'))) /\ Owned' \in Nat /\ free' \in Nat
BY ActiveBlocksFinite DEF Base, TypeOK, Owned

LEMMA ActiveTyped ==
  ASSUME Base
  PROVE  \A i \in DOMAIN active :
           /\ active[i] \in ActiveRequest /\ active[i].id \in Chunks
           /\ active[i].computed \in Nat /\ active[i].outputs \in Nat
           /\ active[i].blocks \in Nat /\ active[i].phase \in Phases
<1>1. \A i \in DOMAIN active : active[i] \in ActiveRequest
  BY DEF Base, TypeOK
<1> QED BY <1>1 DEF ActiveRequest

LEMMA BlocksInit ==
  ASSUME Init
  PROVE  BlocksOK
<1>1. active = <<>> /\ free = NumBlocks - BlocksFor(PrefixTokens) /\ pc # "done"
  BY DEF Init
<1>2. BlocksOf(Range(active)) = {}
  BY <1>1 DEF BlocksOf, Range
<1>3. Owned = 0
  BY <1>2, FS_EmptySet DEF Owned
<1>4. BlocksFor(PrefixTokens) \in Nat /\ NumBlocks \in Nat
  BY Blocks, Numbers
<1> QED BY <1>1, <1>3, <1>4 DEF BlocksOK

\* A step that takes from the pool what the requests get, or gives it back.
LEMMA BlocksMove ==
  ASSUME BlocksOK, pc # "done", pc' # "done", free' + Owned' = free + Owned
  PROVE  BlocksOK'
BY DEF BlocksOK

LEMMA ReapKeepsBlocks ==
  ASSUME Base, Base', Places, BlocksOK, Reap
  PROVE  BlocksOK'
<1> DEFINE over == {r \in Range(active) : Over(r)}
<1>1. free' = free + Cardinality(BlocksOf(over)) /\ pc = "reap" /\ pc' = "fill"
  BY DEF Reap
<1>2. Range(active') = {r \in Range(active) : r.phase = "run"}
  BY Reaped
<1>3. Range(active) = Range(active') \cup over
  BY <1>2 DEF Over
<1>4. \A r \in Range(active'), t \in over : r.id # t.id
  BY <1>2 DEF Over, Places, DistinctIds, Range
<1>5. active \in Seq(ActiveRequest) /\ active' \in Seq(ActiveRequest)
  BY DEF Base, TypeOK
<1>6. /\ IsFiniteSet(BlocksOf(Range(active'))) /\ IsFiniteSet(BlocksOf(over))
      /\ Cardinality(BlocksOf(over)) \in Nat
  BY <1>5, ActiveBlocksFinite
<1> HIDE DEF over
<1>7. Owned = Owned' + Cardinality(BlocksOf(over))
  <2>1. \A x \in BlocksOf(Range(active')) : x \notin BlocksOf(over)
    BY <1>4, BlocksApart
  <2>2. BlocksOf(Range(active)) = BlocksOf(Range(active')) \cup BlocksOf(over)
    BY <1>3, BlocksOfUnion
  <2>3. Cardinality(BlocksOf(Range(active)))
          = Cardinality(BlocksOf(Range(active'))) + Cardinality(BlocksOf(over))
    BY <1>6, <2>1, <2>2, DisjointUnion
  <2> QED BY <2>3 DEF Owned
<1>8. free \in Nat /\ Owned \in Nat /\ Owned' \in Nat
  BY OwnedTyped, OwnedTypedNext
<1> QED BY <1>1, <1>6, <1>7, <1>8, BlocksMove

LEMMA ActivateKeepsBlocks ==
  ASSUME Base, Base', Places, Places', BlocksOK, Activate
  PROVE  BlocksOK'
<1>1. PICK r \in ActiveRequest :
           /\ r.blocks = FullPrefixBlocks + 1
           /\ DOMAIN active' = 1 .. Len(active) + 1
           /\ DOMAIN active = 1 .. Len(active) /\ Len(active) \in Nat
           /\ active'[Len(active) + 1] = r
           /\ \A i \in DOMAIN active : active'[i] = active[i]
  BY Activated
<1>2. free' = free - 1 /\ pc = "activate" /\ pc' = pc
  BY DEF Activate
<1>3. Range(active') = Range(active) \cup {r}
  BY <1>1 DEF Range
<1>4. \A t \in Range(active) : t.id # r.id
  <2>1. \A i \in DOMAIN active : active[i].id # r.id
    BY <1>1 DEF Places, DistinctIds
  <2> QED BY <2>1 DEF Range
<1>5. FullPrefixBlocks \in Nat
  BY Blocks
<1>6. IsFiniteSet(OwnBlocks(r)) /\ Cardinality(OwnBlocks(r)) = 1
  <2>1. r.blocks \in Nat
    BY <1>1, <1>5
  <2> QED BY <1>1, <1>5, <2>1, OwnBlocksFinite
<1>7. Owned' = Owned + 1
  <2>1. \A x \in BlocksOf(Range(active)) : x \notin BlocksOf({r})
    BY <1>4, BlocksApart
  <2>2. BlocksOf({r}) = OwnBlocks(r)
    BY BlocksOfOne
  <2>3. BlocksOf(Range(active')) = BlocksOf(Range(active)) \cup OwnBlocks(r)
    BY <1>3, <2>2, BlocksOfUnion
  <2>4. IsFiniteSet(BlocksOf(Range(active)))
    BY OwnedTyped
  <2>5. Cardinality(BlocksOf(Range(active')))
          = Cardinality(BlocksOf(Range(active))) + Cardinality(OwnBlocks(r))
    BY <1>6, <2>1, <2>2, <2>3, <2>4, DisjointUnion
  <2> QED BY <1>6, <2>5 DEF Owned
<1> QED BY <1>2, <1>7, OwnedTyped, OwnedTypedNext, BlocksMove

\* One request changes the number of its blocks.
LEMMA OneChanges ==
  ASSUME NEW a \in Seq(ActiveRequest), NEW b \in Seq(ActiveRequest), NEW i \in DOMAIN a,
         DOMAIN b = DOMAIN a, DistinctIds(a),
         \A j \in DOMAIN a : b[j].id = a[j].id /\ (j # i => b[j].blocks = a[j].blocks),
         FullPrefixBlocks < a[i].blocks, FullPrefixBlocks < b[i].blocks
  PROVE  Cardinality(BlocksOf(Range(b))) - b[i].blocks
           = Cardinality(BlocksOf(Range(a))) - a[i].blocks
<1> DEFINE rest == {a[j] : j \in DOMAIN a \ {i}}
           R    == BlocksOf(rest)
<1>1. rest \subseteq Range(a) /\ a[i] \in ActiveRequest /\ b[i] \in ActiveRequest
  BY DEF Range
<1>2. IsFiniteSet(R) /\ Cardinality(R) \in Nat
  BY <1>1, ActiveBlocksFinite
<1>3. \A x : x \in R <=> \E j \in DOMAIN a \ {i} : x \in OwnBlocks(a[j])
  BY DEF BlocksOf
<1>4. BlocksOf(Range(a)) = R \cup OwnBlocks(a[i])
  <2>1. \A x : x \in BlocksOf(Range(a)) <=> \E j \in DOMAIN a : x \in OwnBlocks(a[j])
    BY DEF BlocksOf, Range
  <2> HIDE DEF R
  <2> QED BY <1>3, <2>1
<1>5. BlocksOf(Range(b)) = R \cup OwnBlocks(b[i])
  <2>1. \A x : x \in BlocksOf(Range(b)) <=> \E j \in DOMAIN a : x \in OwnBlocks(b[j])
    BY DEF BlocksOf, Range
  <2>2. \A j \in DOMAIN a \ {i} : OwnBlocks(b[j]) = OwnBlocks(a[j])
    BY DEF OwnBlocks
  <2> HIDE DEF R
  <2> QED BY <1>3, <2>1, <2>2
<1>6. \A j \in DOMAIN a \ {i} : a[j].id # a[i].id
  BY DEF DistinctIds
<1>7. (\A x \in R : x \notin OwnBlocks(a[i])) /\ (\A x \in R : x \notin OwnBlocks(b[i]))
  <2>1. \A r \in rest : r.id # a[i].id /\ r.id # b[i].id
    BY <1>6
  <2> HIDE DEF rest
  <2>2. BlocksOf({a[i]}) = OwnBlocks(a[i]) /\ BlocksOf({b[i]}) = OwnBlocks(b[i])
    BY BlocksOfOne
  <2>3. \A x \in BlocksOf(rest) : x \notin BlocksOf({a[i]})
    <3>1. \A r \in rest, t \in {a[i]} : r.id # t.id
      BY <2>1
    <3> QED BY <3>1, BlocksApart
  <2>4. \A x \in BlocksOf(rest) : x \notin BlocksOf({b[i]})
    <3>1. \A r \in rest, t \in {b[i]} : r.id # t.id
      BY <2>1
    <3> QED BY <3>1, BlocksApart
  <2> QED BY <2>2, <2>3, <2>4
<1>8. /\ IsFiniteSet(OwnBlocks(a[i])) /\ IsFiniteSet(OwnBlocks(b[i]))
      /\ a[i].blocks \in Nat /\ b[i].blocks \in Nat /\ FullPrefixBlocks \in Nat
      /\ Cardinality(OwnBlocks(a[i])) = a[i].blocks - FullPrefixBlocks
      /\ Cardinality(OwnBlocks(b[i])) = b[i].blocks - FullPrefixBlocks
  <2>1. a[i].blocks \in Nat /\ b[i].blocks \in Nat
    BY <1>1 DEF ActiveRequest
  <2> QED BY <2>1, OwnBlocksFinite, Blocks
<1> HIDE DEF R
<1>9. /\ Cardinality(BlocksOf(Range(a))) = Cardinality(R) + (a[i].blocks - FullPrefixBlocks)
      /\ Cardinality(BlocksOf(Range(b))) = Cardinality(R) + (b[i].blocks - FullPrefixBlocks)
  BY <1>2, <1>4, <1>5, <1>7, <1>8, DisjointUnion
<1> QED BY <1>2, <1>8, <1>9

LEMMA ReserveSequenceKeepsBlocks ==
  ASSUME Base, Base', Places, BlocksOK, ReserveSequence
  PROVE  BlocksOK'
<1>1. PICK s \in ScheduledSequence, taken \in Nat :
           /\ s.req \in DOMAIN active /\ free' = free - taken
           /\ DOMAIN active' = DOMAIN active
           /\ \A i \in DOMAIN active :
                /\ active'[i].id = active[i].id
                /\ active'[i].blocks = active[i].blocks + (IF i = s.req THEN taken ELSE 0)
  BY ZenonT(40), Reserved
<1>2. active \in Seq(ActiveRequest) /\ active' \in Seq(ActiveRequest)
  BY DEF Base, TypeOK
<1>3. \A i \in DOMAIN active : active[i].blocks \in Nat
  BY ActiveTyped
<1>4. \A j \in DOMAIN active : j # s.req => active'[j].blocks = active[j].blocks
  BY <1>1, <1>3
<1>5. FullPrefixBlocks < active[s.req].blocks /\ FullPrefixBlocks < active'[s.req].blocks
  BY <1>1 DEF Base, StepOK
<1>6. Owned' - active'[s.req].blocks = Owned - active[s.req].blocks
  BY <1>1, <1>2, <1>4, <1>5, OneChanges DEF Places, Owned
<1>7. active'[s.req].blocks = active[s.req].blocks + taken
  BY <1>1
<1>8. Owned' = Owned + taken
  <2>1. active[s.req].blocks \in Nat
    BY <1>1, <1>3
  <2> QED BY <1>6, <1>7, <2>1, OwnedTyped, OwnedTypedNext
<1>9. pc # "done" /\ pc' # "done"
  BY DEF ReserveSequence
<1> QED BY <1>1, <1>8, <1>9, OwnedTyped, OwnedTypedNext, BlocksMove

LEMMA RollBackKeepsBlocks ==
  ASSUME Base, Base', BlocksOK, pc \in {"reserve", "execute"}, pc' = "reap",
         NEW failed, RollBack(failed)
  PROVE  BlocksOK'
<1> DEFINE before == BlocksOf(Range(active))
           after  == BlocksOf(Range(active'))
<1>1. free' = free + Cardinality(before \ after)
  BY DEF RollBack
<1>2. after \subseteq before
  <2>1. /\ DOMAIN active' = DOMAIN active
        /\ \A i \in DOMAIN active :
              /\ active'[i].id = active[i].id
              /\ active'[i].blocks = active[i].blocks - step.appended[i]
    BY RolledBack
  <2>2. \A i \in DOMAIN active : step.appended[i] \in Nat
    BY DEF Base, StepOK
  <2>3. \A i \in DOMAIN active : active[i].blocks \in Nat
    BY ActiveTyped
  <2>4. FullPrefixBlocks \in Nat
    BY Blocks
  <2>5. \A i \in DOMAIN active : OwnBlocks(active'[i]) \subseteq OwnBlocks(active[i])
    BY <2>1, <2>2, <2>3, <2>4 DEF OwnBlocks
  <2>6. \A x : x \in after => \E i \in DOMAIN active : x \in OwnBlocks(active'[i])
    BY <2>1 DEF BlocksOf, Range
  <2>7. \A x : (\E i \in DOMAIN active : x \in OwnBlocks(active[i])) => x \in before
    BY DEF BlocksOf, Range
  <2> HIDE DEF before, after
  <2> QED BY <2>5, <2>6, <2>7
<1>3. before \cap after = after
  BY <1>2
<1>4. IsFiniteSet(before)
  BY OwnedTyped
<1>5. Cardinality(before \ after) = Owned - Owned'
  <2>1. Cardinality(before \ after) = Cardinality(before) - Cardinality(before \cap after)
    BY <1>4, FS_Difference
  <2> QED BY <1>3, <2>1 DEF Owned
<1> HIDE DEF before, after
<1>6. free' + Owned' = free + Owned
  BY <1>1, <1>5, OwnedTyped, OwnedTypedNext
<1> QED BY <1>6, BlocksMove

LEMMA GpuStepKeepsBlocks ==
  ASSUME Base, Base', BlocksOK, GpuStep
  PROVE  BlocksOK'
<1>1. /\ DOMAIN active' = DOMAIN active
      /\ \A i \in DOMAIN active :
              /\ active'[i].id = active[i].id
              /\ active'[i].blocks = active[i].blocks
  BY Stepped
<1>2. \A i \in DOMAIN active : OwnBlocks(active'[i]) = OwnBlocks(active[i])
  BY <1>1 DEF OwnBlocks
<1>3. BlocksOf(Range(active')) = BlocksOf(Range(active))
  <2>1. \A x : x \in BlocksOf(Range(active)) <=> \E i \in DOMAIN active : x \in OwnBlocks(active[i])
    BY DEF BlocksOf, Range
  <2>2. \A x : x \in BlocksOf(Range(active')) <=> \E i \in DOMAIN active : x \in OwnBlocks(active'[i])
    BY <1>1 DEF BlocksOf, Range
  <2> QED BY <1>2, <2>1, <2>2
<1>4. free' = free /\ pc = "execute" /\ pc' = "reap"
  BY DEF GpuStep
<1> QED BY <1>3, <1>4, BlocksMove DEF Owned

LEMMA DrainKeepsBlocks ==
  ASSUME Base, Base', BlocksOK, Drain
  PROVE  BlocksOK'
<1>1. /\ free' = free + BlocksFor(PrefixTokens) /\ pc = "drain" /\ pc' = "done"
      /\ UNCHANGED active
  BY DEF Drain
<1>2. BlocksFor(PrefixTokens) \in Nat /\ NumBlocks \in Nat
  BY Blocks, Numbers
<1>3. Owned' = Owned
  BY <1>1 DEF Owned
<1>4. free + Owned = NumBlocks - BlocksFor(PrefixTokens)
  BY <1>1 DEF BlocksOK
<1>5. free' + Owned' = NumBlocks
  <2>1. free \in Nat /\ Owned \in Nat
    BY OwnedTyped
  <2>2. free' = free + BlocksFor(PrefixTokens)
    BY <1>1
  <2> QED BY <1>2, <1>3, <1>4, <2>1, <2>2
<1> QED BY <1>1, <1>2, <1>5 DEF BlocksOK

LEMMA OthersKeepBlocks ==
  ASSUME BlocksOK,
         \/ ThreadPrepares \/ FillStep \/ CopyFails \/ ActivateEnds \/ ConsumeNothing
         \/ Consume \/ PrefetchNext \/ Filled \/ PlanRound \/ Dispatch \/ UNCHANGED vars
  PROVE  BlocksOK'
<1>1. UNCHANGED <<active, free>>
  BY DEF ThreadPrepares, FillStep, CopyFails, ActivateEnds, ConsumeNothing, Consume,
     PrefetchNext, Filled, PlanRound, Dispatch, vars, mainVars
<1>2. pc' = pc \/ (pc # "done" /\ pc' # "done")
  BY DEF ThreadPrepares, FillStep, CopyFails, ActivateEnds, ConsumeNothing, Consume,
     PrefetchNext, Filled, PlanRound, Dispatch, vars, mainVars
<1> QED BY <1>1, <1>2 DEF BlocksOK, Owned

LEMMA BlocksInvariant == Spec => []BlocksOK
<1>1. Init => BlocksOK
  BY BlocksInit
<1>2. Base /\ Base' /\ Places /\ Places' /\ BlocksOK /\ [Next]_vars => BlocksOK'
  BY ReapKeepsBlocks, ActivateKeepsBlocks, ReserveSequenceKeepsBlocks, RollBackKeepsBlocks,
     GpuStepKeepsBlocks, DrainKeepsBlocks, OthersKeepBlocks
     DEF Next, Main, Returned, NothingRuns, GpuStepFails
<1> QED BY <1>1, <1>2, EngineTypeCorrect, PlacesInvariant, PTL DEF Spec

(* Whatever the pool, the limits and the chunks: between any two steps     *)
(* what is free, what the prefix holds and what the active requests own is *)
(* the pool.                                                               *)
THEOREM EngineConservesBlocks == Spec => []BlocksConserved
<1>1. Base /\ BlocksOK => BlocksConserved
  BY OwnedTyped DEF BlocksOK, BlocksConserved, Owned
<1> QED BY <1>1, EngineTypeCorrect, BlocksInvariant, PTL

-----------------------------------------------------------------------------
(* What runs has its rows and can be committed.                            *)

\* An active request fits into the context; while it runs, what it waits
\* for is known.
RequestOK(r) ==
  /\ Fitting(r.id)
  /\ PrefixTokens <= r.computed /\ r.computed <= CtxSize
  /\ r.phase = "run" => Settled(ProgressOf(r))

\* A sequence that is planned, or runs, is one its request waits for.
Awaited(s) ==
  /\ s.req \in DOMAIN active
  /\ Suits(ProgressOf(active[s.req]), s)
  /\ s.offset + s.tokens <= CtxSize

Backed(s) == s.offset + s.tokens <= active[s.req].blocks * BlockSize

RequestsOK == \A i \in DOMAIN active : RequestOK(active[i])

TurnsOK ==
  /\ \A k \in DOMAIN step.plan : Awaited(step.plan[k])
  /\ \A k \in DOMAIN step.run : Awaited(step.run[k]) /\ Backed(step.run[k])
  /\ \A j, k \in DOMAIN step.plan : step.plan[j].req = step.plan[k].req => j = k
  /\ \A j, k \in DOMAIN step.run : step.run[j].req = step.run[k].req => j = k
  /\ \A j \in DOMAIN step.plan, k \in DOMAIN step.run : step.plan[j].req # step.run[k].req

RoundOK == RequestsOK /\ TurnsOK

LEMMA BetweenRounds ==
  ASSUME Base', pc' \notin {"reserve", "execute"}
  PROVE  TurnsOK'
<1>1. step' = NoStep
  BY DEF Base, StepOK
<1>2. DOMAIN step'.plan = {} /\ DOMAIN step'.run = {}
  BY <1>1, NothingInHand
<1> QED BY <1>2 DEF TurnsOK

\* What the scheduler sees of a request does not depend on its blocks.
LEMMA ProgressStays ==
  ASSUME NEW q, NEW r, q.id = r.id, q.computed = r.computed, q.outputs = r.outputs,
         q.phase = r.phase
  PROVE  ProgressOf(q) = ProgressOf(r) /\ (RequestOK(r) => RequestOK(q))
BY DEF ProgressOf, RequestOK

LEMMA RequestFails ==
  ASSUME NEW q, NEW r, q.id = r.id, q.computed = r.computed, q.phase = "Failed", RequestOK(r)
  PROVE  RequestOK(q)
BY DEF RequestOK

\* Settled says nothing of the room in the context.
LEMMA SettledAgain ==
  ASSUME NEW p \in Request, Settled(p), NEW q \in Request,
         q.prompt = p.prompt, q.computed = p.computed, q.outputs = p.outputs,
         ~q.finished, ~p.finished
  PROVE  Settled(q)
<1>1. Available(p) = Available(q) /\ (PromptComplete(p) <=> PromptComplete(q))
  BY DEF Available, PromptComplete
<1>2. Valid(q)
  BY <1>1 DEF Settled, Valid
<1> QED BY <1>1, <1>2 DEF Settled

LEMMA EnteringRequestOK ==
  ASSUME NEW r \in ActiveRequest, Fitting(r.id), r.computed = PrefixTokens, r.outputs = 0
  PROVE  RequestOK(r)
<1>1. /\ Prompt[r.id] \in Nat /\ PrefixTokens \in Nat /\ CtxSize \in Nat
      /\ MaxTokens \in Nat \ {0} /\ PrefixTokens < Prompt[r.id] /\ Prompt[r.id] <= CtxSize
  BY Numbers, ConfigAssumption DEF ActiveRequest, Fitting
<1>2. /\ ProgressOf(r) \in Request
      /\ ProgressOf(r).prompt = Prompt[r.id]
      /\ ProgressOf(r).computed = PrefixTokens
      /\ ProgressOf(r).outputs = 0
  BY ProgressTyped
<1> HIDE DEF Fitting
<1>3. Available(ProgressOf(r)) > 0 /\ ~PromptComplete(ProgressOf(r))
  BY <1>1, <1>2 DEF Available, PromptComplete
<1>4. Valid(ProgressOf(r))
  BY <1>1, <1>2, <1>3 DEF Valid, Available
<1> QED BY <1>1, <1>2, <1>3, <1>4 DEF RequestOK, Settled

LEMMA CommitsFields ==
  ASSUME NEW p \in Request, NEW token
  PROVE  /\ CommitSample(p, token).prompt = p.prompt
         /\ CommitSample(p, token).computed = p.computed
BY DEF CommitSample, Request

\* What a commit leaves waits for the next turn, or is over.
LEMMA CommitKeepsRequestOK ==
  ASSUME NEW r \in ActiveRequest, RequestOK(r), r.phase = "run",
         NEW s \in ScheduledSequence, Suits(ProgressOf(r), s),
         s.offset + s.tokens <= CtxSize, NEW token
  PROVE  RequestOK(Committed(r, s, token))
<1> DEFINE p == ProgressOf(r)
           c == CommitSequence(p, s)
           d == IF s.logits THEN CommitSample(c, token) ELSE c
           q == Committed(r, s, token)
<1>1. /\ p \in Request /\ p.prompt = Prompt[r.id] /\ p.computed = r.computed
      /\ p.outputs = r.outputs /\ r.computed \in Nat /\ s.tokens \in Nat
  BY ProgressTyped DEF ActiveRequest, ScheduledSequence
<1>2. Settled(p)
  BY DEF RequestOK
<1>3. c = [p EXCEPT !.computed = @ + s.tokens] /\ (s.logits <=> AcceptsSample(c))
  BY <1>2, SequenceAccepted
<1>4. c \in Request
  BY <1>1, CommitsTyped
<1>5. c.prompt = p.prompt /\ c.computed = p.computed + s.tokens
  BY <1>1, <1>3 DEF Request
<1>6. s.offset = p.computed
  BY ScheduledFields DEF Suits
<1> HIDE DEF p, c
<1>7. Settled(d)
  <2>1. CASE s.logits
    BY <1>3, <1>4, <2>1, SampleSettles
  <2>2. CASE ~s.logits
    BY <1>2, <2>2, SequenceSettles DEF p, c
  <2> QED BY <2>1, <2>2
<1>8. d.prompt = c.prompt /\ d.computed = c.computed /\ d \in Request
  BY <1>4, <1>7, CommitsFields DEF Settled
<1>9. /\ q \in ActiveRequest /\ q.id = r.id /\ q.computed = d.computed /\ q.outputs = d.outputs
      /\ q.phase = "run" => ~d.finished
  <2>1. q \in ActiveRequest /\ q.id = r.id
    BY CommittedTyped
  <2> DEFINE stops == d.finished \/ (s.logits /\ token = "loop")
             phase == IF stops THEN "Finished" ELSE r.phase
  <2>2. q = [r EXCEPT !.computed = d.computed, !.outputs = d.outputs, !.phase = phase]
    BY DEF Committed, c, p
  <2>3. phase = "run" => ~d.finished
    OBVIOUS
  <2> HIDE DEF d, phase, q
  <2>4. q.computed = d.computed /\ q.outputs = d.outputs /\ q.phase = phase
    BY <2>2 DEF ActiveRequest
  <2> QED BY <2>1, <2>3, <2>4 DEF q
<1>10. PrefixTokens <= q.computed /\ q.computed <= CtxSize
  BY <1>1, <1>5, <1>6, <1>8, <1>9, Numbers DEF RequestOK
<1>11. ASSUME q.phase = "run"
       PROVE  Settled(ProgressOf(q))
  <2>1. /\ ProgressOf(q) \in Request
        /\ ProgressOf(q).prompt = Prompt[q.id]
        /\ ProgressOf(q).computed = q.computed
        /\ ProgressOf(q).outputs = q.outputs
        /\ ProgressOf(q).finished <=> q.phase = "Finished"
    BY <1>9, ProgressTyped
  <2> HIDE DEF d, q
  <2> QED BY <1>1, <1>5, <1>7, <1>8, <1>9, <1>11, <2>1, SettledAgain
<1> HIDE DEF q
<1> QED BY <1>9, <1>10, <1>11 DEF RequestOK, q

LEMMA RoundInit ==
  ASSUME Init
  PROVE  RoundOK
<1>1. active = <<>> /\ step.plan = <<>> /\ step.run = <<>>
  BY NothingInHand DEF Init
<1> QED BY <1>1 DEF RoundOK, RequestsOK, TurnsOK

LEMMA ReapKeepsRound ==
  ASSUME Base, Base', RoundOK, Reap
  PROVE  RoundOK'
<1>1. Range(active') = {r \in Range(active) : r.phase = "run"}
  BY Reaped
<1>2. \A i \in DOMAIN active' : \E j \in DOMAIN active : active'[i] = active[j]
  <2>1. \A i \in DOMAIN active' : active'[i] \in Range(active')
    BY DEF Range
  <2> QED BY <1>1, <2>1 DEF Range
<1>3. RequestsOK'
  BY <1>2 DEF RoundOK, RequestsOK, RequestOK
<1>4. pc' = "fill"
  BY DEF Reap
<1> QED BY <1>3, <1>4, BetweenRounds DEF RoundOK

LEMMA ActivateKeepsRound ==
  ASSUME Base, Base', RoundOK, Activate
  PROVE  RoundOK'
<1>1. PICK r \in ActiveRequest :
           /\ r.id = Head(queue) /\ r.computed = PrefixTokens /\ r.outputs = 0
           /\ DOMAIN active' = 1 .. Len(active) + 1
           /\ DOMAIN active = 1 .. Len(active) /\ Len(active) \in Nat
           /\ active'[Len(active) + 1] = r
           /\ \A i \in DOMAIN active : active'[i] = active[i]
           /\ queue # <<>>
  BY Activated
<1>2. Fitting(r.id)
  <2>1. queue \in Seq(Chunks)
    BY DEF Base, TypeOK
  <2>2. Head(queue) \in Range(queue)
    BY <1>1, <2>1, Popped
  <2> QED BY <1>1, <2>2 DEF Base, ControlOK
<1>3. RequestOK(r)
  BY <1>1, <1>2, EnteringRequestOK
<1>4. \A i \in DOMAIN active' : i \in DOMAIN active \/ i = Len(active) + 1
  BY <1>1
<1>5. RequestsOK'
  BY <1>1, <1>3, <1>4 DEF RoundOK, RequestsOK, RequestOK
<1>6. pc' = "activate"
  BY DEF Activate
<1> QED BY <1>5, <1>6, BetweenRounds DEF RoundOK

\* The tokens a planned sequence may have when it has its blocks.
LEMMA RunsWithin ==
  ASSUME NEW s \in ScheduledSequence, NEW have \in Nat, s.offset + s.tokens <= CtxSize,
         RunnableTokens(s, have) > 0
  PROVE  /\ RunnableTokens(s, have) \in Nat
         /\ RunnableTokens(s, have) <= s.tokens
         /\ s.offset + RunnableTokens(s, have) <= have * BlockSize
         /\ s.kind = "decode" => RunnableTokens(s, have) = s.tokens
<1> DEFINE tokens == SmallerOf(s.tokens, CtxSize - s.offset)
           backed == have * BlockSize
<1>1. /\ s.tokens \in Nat /\ s.offset \in Nat /\ s.kind \in {"decode", "prompt"}
      /\ CtxSize \in Nat /\ BlockSize \in Nat
  BY Numbers DEF ScheduledSequence
<1>2. backed \in Int /\ tokens = s.tokens
  BY <1>1 DEF SmallerOf
<1>3. RunnableTokens(s, have) =
        IF s.offset + tokens <= backed
        THEN tokens
        ELSE IF s.kind = "decode" THEN 0 ELSE LargerOf(0, backed - s.offset)
  BY DEF RunnableTokens
<1> HIDE DEF tokens, backed
<1>4. CASE s.offset + s.tokens <= backed
  BY <1>1, <1>2, <1>3, <1>4 DEF backed
<1>5. CASE ~(s.offset + s.tokens <= backed)
  <2>1. s.kind # "decode" /\ RunnableTokens(s, have) = LargerOf(0, backed - s.offset)
    BY <1>1, <1>2, <1>3, <1>5
  <2>2. RunnableTokens(s, have) = backed - s.offset
    BY <1>1, <1>2, <2>1 DEF LargerOf
  <2>3. RunnableTokens(s, have) \in Nat /\ RunnableTokens(s, have) <= s.tokens
        /\ s.offset + RunnableTokens(s, have) <= backed
    BY <1>1, <1>2, <1>5, <2>2
  <2> QED BY <2>1, <2>3 DEF backed
<1> QED BY <1>4, <1>5

LEMMA SameSequence ==
  ASSUME NEW s \in ScheduledSequence, NEW t \in ScheduledSequence, s.req = t.req,
         s.offset = t.offset, s.tokens = t.tokens, s.kind = t.kind, s.logits <=> t.logits
  PROVE  s = t
<1>1. s.logits = t.logits
  BY DEF ScheduledSequence
<1> QED BY <1>1 DEF ScheduledSequence

\* A sequence that is cut to n tokens is still one its request waits for.
LEMMA CutSuits ==
  ASSUME NEW s \in ScheduledSequence, NEW p, p = ProgressOf(active[s.req]), Suits(p, s),
         p.computed \in Nat, p.prompt \in Nat, p.prompt = Prompt[active[s.req].id],
         NEW n \in Nat, n > 0, n <= s.tokens, s.kind = "decode" => n = s.tokens
  PROVE  Suits(p, Cut(s, n))
<1>1. /\ Cut(s, n) \in ScheduledSequence
      /\ Cut(s, n).req = s.req /\ Cut(s, n).offset = s.offset
      /\ Cut(s, n).tokens = n /\ Cut(s, n).kind = s.kind
      /\ Cut(s, n).logits <=> s.kind = "decode" \/ s.offset + n = p.prompt
  <2> DEFINE c == Cut(s, n)
  <2>1. /\ c \in ScheduledSequence /\ c.req = s.req /\ c.offset = s.offset
        /\ c.tokens = n /\ c.kind = s.kind
        /\ c.logits <=> s.kind = "decode" \/ s.offset + n = Prompt[active[s.req].id]
    BY CutFields
  <2> HIDE DEF c
  <2>2. c.logits <=> s.kind = "decode" \/ s.offset + n = p.prompt
    BY <2>1
  <2> QED BY <2>1, <2>2 DEF c
<1>2. s.offset = p.computed /\ s.req \in Nat /\ s.kind \in {"decode", "prompt"}
  BY ScheduledFields DEF Suits, ScheduledSequence
<1>3. PICK t \in ScheduledSequence :
           /\ t = Scheduled(s.req, p, n, s.kind)
           /\ t.req = s.req /\ t.offset = p.computed /\ t.tokens = n /\ t.kind = s.kind
           /\ t.logits <=> s.kind = "decode" \/ p.computed + n = p.prompt
  <2> DEFINE last == s.kind = "decode" \/ p.computed + n = p.prompt
             t == [req |-> s.req, offset |-> p.computed, tokens |-> n, kind |-> s.kind,
                   logits |-> last]
  <2>1. last \in BOOLEAN
    OBVIOUS
  <2>2. t = Scheduled(s.req, p, n, s.kind)
    BY DEF Scheduled
  <2> HIDE DEF last
  <2>3. /\ t \in ScheduledSequence /\ t.req = s.req /\ t.offset = p.computed /\ t.tokens = n
        /\ t.kind = s.kind /\ t.logits = last
    BY <1>2, <2>1 DEF ScheduledSequence
  <2> HIDE DEF t
  <2>4. t.logits <=> s.kind = "decode" \/ p.computed + n = p.prompt
    BY <2>3 DEF last
  <2> QED BY <2>2, <2>3, <2>4
<1>4. Cut(s, n) = t
  <2>1. PICK u \in ScheduledSequence : u = Cut(s, n)
    BY <1>1
  <2>2. u.logits <=> t.logits
    BY <1>1, <1>2, <1>3, <2>1
  <2>3. u.req = t.req /\ u.offset = t.offset /\ u.tokens = t.tokens /\ u.kind = t.kind
    BY <1>1, <1>2, <1>3, <2>1
  <2> QED BY <2>1, <2>2, <2>3, SameSequence
<1>5. Cut(s, n) = Scheduled(Cut(s, n).req, p, Cut(s, n).tokens, Cut(s, n).kind)
  BY <1>1, <1>3, <1>4
<1>6. /\ Ready(p)
      /\ s.kind = "decode" <=> PromptComplete(p)
      /\ s.kind = "decode" => s.tokens = 1
      /\ s.kind = "prompt" => n <= p.prompt - p.computed
  <2>1. s.tokens \in Nat
    BY DEF ScheduledSequence
  <2> QED BY <2>1 DEF Suits
<1>7. s.kind = "decode" => n = 1
  BY <1>6
<1> QED BY <1>1, <1>5, <1>6, <1>7 DEF Suits

LEMMA PlanRoundKeepsRound ==
  ASSUME Base, Base', RoundOK, PlanRound
  PROVE  RoundOK'
<1>1. /\ pc = "plan" /\ UNCHANGED active
      /\ \A i \in DOMAIN active : active[i].phase = "run"
  BY DEF PlanRound, Base, ControlOK
<1>2. /\ step'.run = <<>>
      /\ step'.plan \in Seq(ScheduledSequence)
      /\ \A k \in DOMAIN step'.plan :
              /\ step'.plan[k].req \in DOMAIN active
              /\ Fits(Snapshot, step'.plan[k])
      /\ \A j, k \in DOMAIN step'.plan : step'.plan[j].req = step'.plan[k].req => j = k
  BY Planned
<1>3. Snapshot \in Seq(Request)
      /\ \A i \in DOMAIN active : Snapshot[i] = ProgressOf(active[i])
  BY SnapshotTyped DEF Base, TypeOK
<1>4. ASSUME NEW k \in DOMAIN step'.plan
      PROVE  Awaited(step.plan[k])'
  <2>1. PICK s \in ScheduledSequence : s = step'.plan[k]
    BY <1>2
  <2>2. s.req \in DOMAIN active /\ Fits(Snapshot, s)
    BY <1>2, <2>1
  <2>3. PICK rs \in Seq(Request) : rs = Snapshot
    BY <1>3
  <2>4. Suits(rs[s.req], s)
    BY <2>2, <2>3, FitsSuits
  <2>5. PICK r \in ActiveRequest : r = active[s.req]
    BY <2>2, ActiveTyped
  <2>6. rs[s.req] = ProgressOf(r)
    BY <1>3, <2>2, <2>3, <2>5
  <2>7. s.offset + s.tokens <= CtxSize
    <3>1. /\ s.kind = "decode" => s.tokens = 1
          /\ s.kind = "prompt" => s.tokens <= ProgressOf(r).room
          /\ ProgressOf(r).room > 0
          /\ s.offset = ProgressOf(r).computed
          /\ s.kind \in {"decode", "prompt"} /\ s.tokens \in Nat
      BY <2>2, <2>3, <2>6, ScheduledFields DEF Fits, Ready, ScheduledSequence
    <3>2. /\ ProgressOf(r).computed = r.computed /\ r.computed \in Nat
          /\ ProgressOf(r).room = LargerOf(0, CtxSize - r.computed)
      BY ProgressTyped DEF ActiveRequest
    <3>3. r.computed <= CtxSize /\ CtxSize \in Nat
      BY <2>2, <2>5, Numbers DEF RoundOK, RequestsOK, RequestOK
    <3>4. ProgressOf(r).room = CtxSize - r.computed
      BY <3>2, <3>3 DEF LargerOf
    <3> QED BY <3>1, <3>2, <3>3, <3>4
  <2> QED BY <1>1, <2>1, <2>2, <2>4, <2>5, <2>6, <2>7 DEF Awaited
<1>5. TurnsOK'
  <2>1. DOMAIN step'.run = {}
    BY <1>2
  <2> QED BY <1>2, <1>4, <2>1 DEF TurnsOK
<1>6. RequestsOK'
  BY <1>1 DEF RoundOK, RequestsOK, RequestOK
<1> QED BY <1>5, <1>6 DEF RoundOK

LEMMA AwaitedStays ==
  ASSUME DOMAIN active' = DOMAIN active,
         \A i \in DOMAIN active :
           /\ active'[i].id = active[i].id /\ active'[i].computed = active[i].computed
           /\ active'[i].outputs = active[i].outputs /\ active'[i].phase = active[i].phase,
         NEW t, Awaited(t)
  PROVE  Awaited(t)'
<1>1. t.req \in DOMAIN active
  BY DEF Awaited
<1>2. ProgressOf(active'[t.req]) = ProgressOf(active[t.req])
  BY <1>1, ProgressStays
<1> QED BY <1>1, <1>2 DEF Awaited

LEMMA MoreRows ==
  ASSUME NEW a \in Nat, NEW b \in Nat, NEW c \in Nat
  PROVE  a * c <= (a + b) * c
<1>1. (a + b) * c = a * c + b * c /\ b * c \in Nat /\ a * c \in Nat
  OBVIOUS
<1> QED BY <1>1

LEMMA ReserveSequenceKeepsRound ==
  ASSUME Base, Base', RoundOK, ReserveSequence
  PROVE  RoundOK'
<1>1. PICK s \in ScheduledSequence, taken \in Nat, n \in Int :
           /\ s = step.plan[1] /\ step.plan # <<>> /\ s.req \in DOMAIN active
           /\ n = RunnableTokens(s, active[s.req].blocks + taken)
           /\ step' = [plan     |-> Tail(step.plan),
                       run      |-> IF n > 0 THEN Append(step.run, Cut(s, n)) ELSE step.run,
                       appended |-> [step.appended EXCEPT ![s.req] = @ + taken]]
           /\ DOMAIN active' = DOMAIN active
           /\ \A i \in DOMAIN active :
                /\ active'[i].id = active[i].id
                /\ active'[i].computed = active[i].computed
                /\ active'[i].outputs = active[i].outputs
                /\ active'[i].phase = active[i].phase
                /\ active'[i].blocks = active[i].blocks + (IF i = s.req THEN taken ELSE 0)
  BY Reserved
<1>2. pc = "reserve" /\ (\A i \in DOMAIN active : active[i].phase = "run")
  BY DEF ReserveSequence, Base, ControlOK
<1>3. RequestsOK'
  <2>1. \A i \in DOMAIN active : RequestOK(active[i]) => RequestOK(active'[i])
    BY <1>1, ProgressStays
  <2> QED BY <1>1, <2>1 DEF RoundOK, RequestsOK, RequestOK
<1>4. \A t : Awaited(t) => Awaited(t)'
  BY <1>1, AwaitedStays
<1>5. \A i \in DOMAIN active : active[i].blocks \in Nat
  BY ActiveTyped
<1>6. ASSUME NEW t \in ScheduledSequence, t.req \in DOMAIN active, Backed(t)
      PROVE  Backed(t)'
  <2>1. PICK a \in Nat : a = active[t.req].blocks
    BY <1>5, <1>6
  <2>2. PICK b \in Nat : active'[t.req].blocks = a + b
    BY <1>1, <1>6, <2>1
  <2>3. a * BlockSize <= (a + b) * BlockSize /\ a * BlockSize \in Nat /\ (a + b) * BlockSize \in Nat
        /\ t.offset \in Nat /\ t.tokens \in Nat
    BY MoreRows, Numbers DEF ScheduledSequence
  <2>4. t.offset + t.tokens <= a * BlockSize
    BY <1>6, <2>1 DEF Backed
  <2>5. t.offset + t.tokens <= (a + b) * BlockSize
    BY <2>3, <2>4
  <2> QED BY <2>2, <2>5 DEF Backed
<1>7. PICK plan \in Seq(ScheduledSequence), run \in Seq(ScheduledSequence) :
           plan = step.plan /\ run = step.run
  BY DEF Base, StepOK
<1>8. /\ \A k \in DOMAIN plan : Awaited(plan[k])
      /\ \A k \in DOMAIN run : Awaited(run[k]) /\ Backed(run[k])
      /\ \A j, k \in DOMAIN plan : plan[j].req = plan[k].req => j = k
      /\ \A j, k \in DOMAIN run : run[j].req = run[k].req => j = k
      /\ \A j \in DOMAIN plan, k \in DOMAIN run : plan[j].req # run[k].req
  BY <1>7 DEF RoundOK, TurnsOK
<1>9. PICK rest \in Seq(ScheduledSequence) : rest = Tail(plan) /\ rest = step'.plan
  <2>1. step'.plan = Tail(step.plan)
    BY <1>1
  <2>2. Tail(plan) \in Seq(ScheduledSequence)
    BY <1>1, <1>7, Popped
  <2> QED BY <1>7, <2>1, <2>2
<1>10. 1 \in DOMAIN plan /\ plan[1] = s /\ plan # <<>>
  BY <1>1, <1>7
<1>11. \A k \in DOMAIN rest : k + 1 \in DOMAIN plan /\ rest[k] = plan[k + 1] /\ k \in Nat /\ k # 0
  BY <1>9, <1>10
<1>12. \A k \in DOMAIN rest : rest[k].req # s.req
  <2>1. \A k \in DOMAIN rest : k + 1 # 1
    BY <1>11
  <2> QED BY <1>8, <1>10, <1>11, <2>1
<1>13. /\ \A k \in DOMAIN rest : Awaited(rest[k])'
       /\ \A j, k \in DOMAIN rest : rest[j].req = rest[k].req => j = k
       /\ \A j \in DOMAIN rest, k \in DOMAIN run : rest[j].req # run[k].req
  <2>1. \A k \in DOMAIN rest : Awaited(rest[k])
    BY <1>8, <1>11
  <2>2. ASSUME NEW j \in DOMAIN rest, NEW k \in DOMAIN rest, rest[j].req = rest[k].req
        PROVE  j = k
    <3>1. j + 1 = k + 1 /\ j \in Nat /\ k \in Nat
      BY <1>8, <1>11, <2>2
    <3> QED BY <3>1
  <2>3. \A j \in DOMAIN rest, k \in DOMAIN run : rest[j].req # run[k].req
    BY <1>8, <1>11
  <2> QED BY <1>4, <2>1, <2>2, <2>3
<1>14. \A k \in DOMAIN run : Awaited(run[k])' /\ Backed(run[k])'
  <2>1. \A k \in DOMAIN run : run[k] \in ScheduledSequence /\ run[k].req \in DOMAIN active
    BY <1>8 DEF Awaited
  <2> QED BY <1>4, <1>6, <1>8, <2>1
<1>15. CASE n > 0
  <2>1. /\ n \in Nat /\ n <= s.tokens
        /\ s.offset + n <= (active[s.req].blocks + taken) * BlockSize
        /\ s.kind = "decode" => n = s.tokens
        /\ Awaited(s)
    <3>1. Awaited(s)
      BY <1>8, <1>10
    <3>2. PICK have \in Nat : have = active[s.req].blocks + taken
      BY <1>1, <1>5
    <3> QED BY <1>1, <1>15, <3>1, <3>2, RunsWithin DEF Awaited
  <2>2. PICK x \in ScheduledSequence :
           /\ x = Cut(s, n) /\ x.req = s.req /\ x.offset = s.offset /\ x.tokens = n
    BY <2>1, CutFields
  <2>3. Awaited(x)
    <3>1. PICK r \in ActiveRequest : r = active[s.req]
      BY <1>1, ActiveTyped
    <3>2. PICK p \in Request : p = ProgressOf(r) /\ p.prompt = Prompt[r.id]
      BY ProgressTyped
    <3>3. p.computed \in Nat /\ p.prompt \in Nat
      BY DEF Request
    <3>4. Suits(p, s) /\ s.offset + s.tokens <= CtxSize
      BY <2>1, <3>1, <3>2 DEF Awaited
    <3>5. Suits(p, x)
      BY <1>15, <2>1, <2>2, <3>1, <3>2, <3>3, <3>4, CutSuits
    <3>6. x.offset + x.tokens <= CtxSize
      <4>1. s.offset \in Nat /\ s.tokens \in Nat
        BY DEF ScheduledSequence
      <4> QED BY <2>1, <2>2, <3>4, <4>1, Numbers
    <3> QED BY <1>1, <2>2, <3>1, <3>2, <3>5, <3>6 DEF Awaited
  <2>4. Awaited(x)' /\ Backed(x)'
    <3>1. active'[s.req].blocks = active[s.req].blocks + taken
      BY <1>1
    <3>2. x.offset + x.tokens <= active'[x.req].blocks * BlockSize
      BY <2>1, <2>2, <3>1
    <3> QED BY <1>4, <2>3, <3>2 DEF Backed
  <2>5. PICK more \in Seq(ScheduledSequence) : more = Append(run, x) /\ more = step'.run
    <3>1. step'.run = Append(step.run, Cut(s, n))
      BY <1>1, <1>15
    <3>2. Append(run, x) \in Seq(ScheduledSequence)
      BY Appended
    <3> QED BY <1>7, <2>2, <3>1, <3>2
  <2>6. \A k \in DOMAIN more :
           \/ k \in DOMAIN run /\ more[k] = run[k]
           \/ k = Len(run) + 1 /\ more[k] = x
    <3>1. \A k \in DOMAIN Append(run, x) :
              \/ k \in DOMAIN run /\ Append(run, x)[k] = run[k]
              \/ k = Len(run) + 1 /\ Append(run, x)[k] = x
      BY Appended
    <3> QED BY <2>5, <3>1
  <2>7. \A k \in DOMAIN run : run[k].req # x.req
    BY <1>8, <1>10, <2>2
  <2>8. \A j, k \in DOMAIN more : more[j].req = more[k].req => j = k
    BY <1>8, <2>6, <2>7
  <2>9. \A j \in DOMAIN rest, k \in DOMAIN more : rest[j].req # more[k].req
    BY <1>12, <1>13, <2>2, <2>6
  <2>10. \A k \in DOMAIN more : Awaited(more[k])' /\ Backed(more[k])'
    BY <1>14, <2>4, <2>6
  <2>11. step'.plan = rest /\ step'.run = more
    BY <1>9, <2>5
  <2>12. TurnsOK'
    BY <1>13, <2>8, <2>9, <2>10, <2>11 DEF TurnsOK, Awaited, Backed
  <2> QED BY <1>3, <2>12 DEF RoundOK
<1>16. CASE ~(n > 0)
  <2>1. step'.run = run
    BY <1>1, <1>7, <1>16
  <2>2. step'.plan = rest
    BY <1>9
  <2>3. TurnsOK'
    BY <1>8, <1>13, <1>14, <2>1, <2>2 DEF TurnsOK, Awaited, Backed
  <2> QED BY <1>3, <2>3 DEF RoundOK
<1> QED BY <1>15, <1>16

LEMMA RollBackKeepsRound ==
  ASSUME Base, Base', RoundOK, pc \in {"reserve", "execute"}, pc' = "reap",
         NEW failed, RollBack(failed)
  PROVE  RoundOK'
<1>1. /\ DOMAIN active' = DOMAIN active
      /\ \A i \in DOMAIN active :
              /\ active'[i].id = active[i].id
              /\ active'[i].computed = active[i].computed
              /\ active'[i].outputs = active[i].outputs
              /\ active'[i].phase = IF i \in failed THEN "Failed" ELSE active[i].phase
  BY RolledBack
<1>2. \A i \in DOMAIN active : RequestOK(active[i]) => RequestOK(active'[i])
  <2>1. SUFFICES ASSUME NEW i \in DOMAIN active, RequestOK(active[i])
                 PROVE  RequestOK(active'[i])
    OBVIOUS
  <2>2. CASE i \in failed
    BY <1>1, <2>1, <2>2, RequestFails
  <2>3. CASE i \notin failed
    BY <1>1, <2>1, <2>3, ProgressStays
  <2> QED BY <2>2, <2>3
<1>3. RequestsOK'
  BY <1>1, <1>2 DEF RoundOK, RequestsOK, RequestOK
<1> QED BY <1>3, BetweenRounds DEF RoundOK

LEMMA GpuStepKeepsRound ==
  ASSUME Base, Base', RoundOK, GpuStep
  PROVE  RoundOK'
<1>1. /\ DOMAIN active' = DOMAIN active
      /\ \A i \in DOMAIN active :
              /\ RunOf(i) = {} => active'[i] = active[i]
              /\ RunOf(i) # {} =>
                   \E k \in RunOf(i), token \in {"eos", "token", "loop"} :
                     active'[i] = Committed(active[i], step.run[k], token)
  BY Stepped
<1>2. pc = "execute" /\ pc' = "reap" /\ (\A i \in DOMAIN active : active[i].phase = "run")
      /\ step.run \in Seq(ScheduledSequence)
  BY DEF GpuStep, Base, ControlOK, StepOK
<1>3. ASSUME NEW i \in DOMAIN active
      PROVE  RequestOK(active'[i])
  <2>1. PICK r \in ActiveRequest : r = active[i] /\ RequestOK(r) /\ r.phase = "run"
    BY <1>2, ActiveTyped DEF RoundOK, RequestsOK
  <2>2. CASE RunOf(i) = {}
    BY <1>1, <2>1, <2>2
  <2>3. CASE RunOf(i) # {}
    <3>1. PICK k \in RunOf(i), token \in {"eos", "token", "loop"} :
                     active'[i] = Committed(active[i], step.run[k], token)
      BY <1>1, <2>3
    <3>2. k \in DOMAIN step.run /\ step.run[k].req = i
      BY DEF RunOf
    <3>3. PICK s \in ScheduledSequence : s = step.run[k] /\ Awaited(s) /\ s.req = i
      BY <1>2, <3>2 DEF RoundOK, TurnsOK
    <3>4. Suits(ProgressOf(r), s) /\ s.offset + s.tokens <= CtxSize
      BY <2>1, <3>3 DEF Awaited
    <3>5. RequestOK(Committed(r, s, token))
      BY <2>1, <3>4, CommitKeepsRequestOK
    <3> QED BY <2>1, <3>1, <3>3, <3>5
  <2> QED BY <2>2, <2>3
<1>4. RequestsOK'
  BY <1>1, <1>3 DEF RequestsOK, RequestOK
<1> QED BY <1>2, <1>4, BetweenRounds DEF RoundOK

LEMMA OthersKeepRound ==
  ASSUME RoundOK,
         \/ ThreadPrepares \/ FillStep \/ CopyFails \/ ActivateEnds \/ ConsumeNothing
         \/ Consume \/ PrefetchNext \/ Filled \/ Dispatch \/ Drain \/ UNCHANGED vars
  PROVE  RoundOK'
<1>1. UNCHANGED <<active, step>>
  BY DEF ThreadPrepares, FillStep, CopyFails, ActivateEnds, ConsumeNothing, Consume,
     PrefetchNext, Filled, Dispatch, Drain, vars, mainVars
<1> QED BY <1>1 DEF RoundOK, RequestsOK, RequestOK, TurnsOK, Awaited, Backed

LEMMA RoundInvariant == Spec => []RoundOK
<1>1. Init => RoundOK
  BY RoundInit
<1>2. Base /\ Base' /\ RoundOK /\ [Next]_vars => RoundOK'
  BY ReapKeepsRound, ActivateKeepsRound, PlanRoundKeepsRound, ReserveSequenceKeepsRound,
     RollBackKeepsRound, GpuStepKeepsRound, OthersKeepRound
     DEF Next, Main, Returned, NothingRuns, GpuStepFails
<1> QED BY <1>1, <1>2, EngineTypeCorrect, PTL DEF Spec

(* Whatever the limits: every row a GPU step writes lies in a block its    *)
(* request has, past the prefix and inside the context.                    *)
THEOREM RowsBacked == Spec => []RowsAreBacked
<1>1. Base /\ RoundOK => RowsAreBacked
  <2>1. SUFFICES ASSUME Base, RoundOK, NEW k \in DOMAIN step.run
                 PROVE  LET s == step.run[k]
                            r == active[s.req]
                        IN  /\ s.tokens > 0
                            /\ s.offset >= PrefixTokens
                            /\ s.offset + s.tokens <= SmallerOf(r.blocks * BlockSize, CtxSize)
                            /\ RunOf(s.req) = {k}
    BY DEF RowsAreBacked
  <2>2. PICK s \in ScheduledSequence : s = step.run[k] /\ Awaited(s) /\ Backed(s)
    BY <2>1 DEF Base, StepOK, RoundOK, TurnsOK
  <2>3. PICK r \in ActiveRequest : r = active[s.req] /\ RequestOK(r)
    BY <2>1, <2>2, ActiveTyped DEF Awaited, RoundOK, RequestsOK
  <2>4. s.tokens > 0 /\ s.offset = r.computed
    BY <2>2, <2>3, ProgressTyped, ScheduledFields DEF Awaited, Suits
  <2>5. PrefixTokens <= r.computed
    BY <2>3 DEF RequestOK
  <2>6. s.offset + s.tokens <= SmallerOf(r.blocks * BlockSize, CtxSize)
    BY <2>2, <2>3 DEF Awaited, Backed, SmallerOf
  <2>7. RunOf(s.req) = {k}
    BY <2>1, <2>2 DEF RunOf, RoundOK, TurnsOK
  <2>8. PrefixTokens \in Nat /\ r.computed \in Nat
    BY Numbers DEF ActiveRequest
  <2> QED BY <2>2, <2>3, <2>4, <2>5, <2>6, <2>7, <2>8
<1> QED BY <1>1, EngineTypeCorrect, RoundInvariant, PTL

(* Whatever the limits: what runs is accepted by commit_sequence, logits   *)
(* are asked for exactly when commit_sample takes a token, and a decoded   *)
(* position has its token.                                                 *)
THEOREM StepsCommittable == Spec => []StepIsCommittable
<1>1. Base /\ RoundOK => StepIsCommittable
  <2>1. SUFFICES ASSUME Base, RoundOK, pc = "execute", NEW k \in DOMAIN step.run
                 PROVE  LET s == step.run[k]
                            r == ProgressOf(active[s.req])
                        IN  /\ AcceptsSequence(r, s)
                            /\ s.logits <=> AcceptsSample(CommitSequence(r, s))
                            /\ s.kind = "decode" => s.offset - r.prompt \in 0 .. r.outputs - 1
    BY DEF StepIsCommittable
  <2>2. PICK s \in ScheduledSequence : s = step.run[k] /\ Awaited(s)
    BY <2>1 DEF Base, StepOK, RoundOK, TurnsOK
  <2>3. PICK q \in ActiveRequest : q = active[s.req] /\ RequestOK(q) /\ q.phase = "run"
    BY <2>1, <2>2, ActiveTyped DEF Awaited, RoundOK, RequestsOK, Base, ControlOK
  <2>4. PICK r \in Request : r = ProgressOf(q) /\ ~r.finished
    BY <2>3, ProgressTyped
  <2>5. Settled(r) /\ Suits(r, s)
    BY <2>2, <2>3, <2>4 DEF Awaited, RequestOK
  <2>6. AcceptsSequence(r, s) /\ (s.logits <=> AcceptsSample(CommitSequence(r, s)))
    BY <2>5, SequenceAccepted
  <2>7. ASSUME s.kind = "decode"
        PROVE  s.offset - r.prompt \in 0 .. r.outputs - 1
    <3>1. r.prompt \in Nat /\ r.computed \in Nat /\ r.outputs \in Nat
      BY DEF Request
    <3>2. s.offset = r.computed /\ PromptComplete(r)
      BY <2>5, <2>7, ScheduledFields DEF Suits
    <3>3. Available(r) = 1
      BY <2>4, <2>5, <3>2 DEF Settled
    <3>4. r.prompt + r.outputs - r.computed = 1 /\ r.computed >= r.prompt
      BY <3>2, <3>3 DEF Available, PromptComplete
    <3> QED BY <3>1, <3>2, <3>4
  <2> QED BY <2>2, <2>3, <2>4, <2>6, <2>7
<1> QED BY <1>1, EngineTypeCorrect, RoundInvariant, PTL

-----------------------------------------------------------------------------
(* Embedding slots.                                                        *)

\* Active chunks whose prompt is not complete.
Waiting == {active[i].id : i \in {j \in DOMAIN active :
                                    Prompt[active[j].id] > active[j].computed}}

SlotsHeld == pc # "done" => slots = Range(queue) \cup job.got \cup Waiting

\* What a thread will claim is left for it.
JobHasSlots ==
  /\ ~job.ready => job.got = {}
  /\ pc = "done" => job = NoJob
  /\ job.kind = "gpu" => Cardinality(slots \ job.got) + Len(job.cands) <= SlotCapacity

SlotsOK == SlotsHeld /\ JobHasSlots

LEMMA UpTo ==
  ASSUME NEW n \in Nat
  PROVE  IsFiniteSet(1 .. n) /\ Cardinality(1 .. n) = n
<1>1. 1 \in Int /\ n \in Int
  OBVIOUS
<1>2. IsFiniteSet(1 .. n) /\ Cardinality(1 .. n) = IF 1 > n THEN 0 ELSE n - 1 + 1
  BY <1>1, FS_Interval
<1> QED BY <1>2

LEMMA IdsFinite ==
  ASSUME Base
  PROVE  /\ IsFiniteSet(Ids(active)) /\ Cardinality(Ids(active)) <= Len(active)
         /\ Len(active) \in Nat /\ Cardinality(Ids(active)) \in Nat
<1>1. active \in Seq(ActiveRequest)
  BY DEF Base, TypeOK
<1>2. Len(active) \in Nat /\ DOMAIN active = 1 .. Len(active)
  BY <1>1
<1> DEFINE f == [i \in DOMAIN active |-> active[i].id]
<1>3. f \in Surjection(DOMAIN active, Ids(active))
  BY DEF Surjection, Ids
<1>4. IsFiniteSet(DOMAIN active) /\ Cardinality(DOMAIN active) = Len(active)
  BY <1>2, UpTo
<1> HIDE DEF f
<1> QED BY <1>2, <1>3, <1>4, FS_Surjection, FS_CardinalityType

LEMMA SlotsFinite ==
  ASSUME Base
  PROVE  IsFiniteSet(slots) /\ Cardinality(slots) \in Nat
<1>1. slots \in SUBSET (1 .. Len(Prompt)) /\ Len(Prompt) \in Nat
  BY Numbers DEF Base, TypeOK
<1>2. IsFiniteSet(1 .. Len(Prompt))
  BY <1>1, UpTo
<1> QED BY <1>1, <1>2, FS_Subset, FS_CardinalityType

\* The chunks that hold a slot are none of each other's.
LEMMA HoldersApart ==
  ASSUME Base, Places
  PROVE  /\ \A c \in Range(queue) : c \notin Ids(active) /\ c \notin Range(job.cands)
         /\ \A c \in Range(job.cands) : c \notin Ids(active)
         /\ Waiting \subseteq Ids(active) /\ job.got \subseteq Range(job.cands)
<1>1. Range(queue) \subseteq Chunks /\ Range(job.cands) \subseteq Chunks
  <2>1. queue \in Seq(Chunks) /\ job.cands \in Seq(Chunks)
    BY DEF Base, TypeOK, Job
  <2> QED BY <2>1 DEF Range
<1>2. \A c \in Range(queue) : c \notin Ids(active) /\ c \notin Range(job.cands)
  BY <1>1 DEF Places, InOnePlace, OnlyOne
<1>3. \A c \in Range(job.cands) : c \notin Ids(active)
  BY <1>1 DEF Places, InOnePlace, OnlyOne
<1>4. Waiting \subseteq Ids(active)
  BY DEF Waiting, Ids
<1>5. job.got \subseteq Range(job.cands)
  BY DEF Base, JobOK
<1> QED BY <1>2, <1>3, <1>4, <1>5

LEMMA FewerSlots ==
  ASSUME Base, Base', JobHasSlots, slots' \subseteq slots, UNCHANGED <<job>>, pc # "done",
         pc' # "done"
  PROVE  JobHasSlots'
<1>1. IsFiniteSet(slots)
  BY SlotsFinite
<1>2. slots' \ job'.got \in SUBSET (slots \ job.got)
  OBVIOUS
<1>3. IsFiniteSet(slots \ job.got)
  BY <1>1, FS_Subset
<1>4. Cardinality(slots' \ job'.got) <= Cardinality(slots \ job.got)
  BY <1>2, <1>3, FS_Subset
<1>5. /\ Cardinality(slots' \ job'.got) \in Nat /\ Cardinality(slots \ job.got) \in Nat
  BY <1>2, <1>3, FS_Subset, FS_CardinalityType
<1>6. Len(job.cands) \in Nat
  BY DEF Base, TypeOK, Job
<1> QED BY <1>4, <1>5, <1>6, Numbers DEF JobHasSlots

LEMMA SlotsInit ==
  ASSUME Init
  PROVE  SlotsOK
<1>1. /\ slots = {} /\ job = NoJob /\ active = <<>> /\ queue = <<>> /\ pc # "done"
  BY DEF Init
<1>2. Range(queue) = {} /\ Waiting = {}
  BY <1>1 DEF Range, Waiting
<1> QED BY <1>1, <1>2, NothingInHand DEF SlotsOK, SlotsHeld, JobHasSlots

LEMMA ReapKeepsSlots ==
  ASSUME Base, Base', Places, SlotsOK, Reap
  PROVE  SlotsOK'
<1> DEFINE over == {r \in Range(active) : Over(r)}
           ids  == {r.id : r \in over}
<1>1. /\ slots' = slots \ ids /\ UNCHANGED <<job, queue>>
      /\ pc = "reap" /\ pc' = "fill"
  BY DEF Reap
<1>2. Range(active') = {r \in Range(active) : r.phase = "run"}
  BY Reaped
<1>3. Waiting' = Waiting \ ids
  <2>1. Waiting = {r.id : r \in {q \in Range(active) : Prompt[q.id] > q.computed}}
    BY DEF Waiting, Range
  <2>2. Waiting' = {r.id : r \in {q \in Range(active') : Prompt[q.id] > q.computed}}
    BY DEF Waiting, Range
  <2>3. \A q, r \in Range(active) : q.id = r.id => q = r
    BY DEF Places, DistinctIds, Range
  <2> QED BY <1>2, <2>1, <2>2, <2>3 DEF Over
<1>4. ids \subseteq Ids(active)
  BY DEF Ids, Range
<1>5. \A c \in ids : c \notin Range(queue) /\ c \notin job.got
  BY <1>4, HoldersApart
<1> HIDE DEF ids
<1>6. slots = Range(queue) \cup job.got \cup Waiting
  BY <1>1 DEF SlotsOK, SlotsHeld
<1>7. slots' = Range(queue') \cup job'.got \cup Waiting'
  BY <1>1, <1>3, <1>5, <1>6
<1>8. JobHasSlots'
  BY <1>1, FewerSlots DEF SlotsOK
<1> QED BY <1>7, <1>8 DEF SlotsOK, SlotsHeld

LEMMA ThreadPreparesKeepsSlots ==
  ASSUME Base, Base', SlotsOK, ThreadPrepares
  PROVE  SlotsOK'
<1>1. PICK got \in SUBSET Range(job.cands), made \in BOOLEAN :
        /\ job' = [job EXCEPT !.ready = TRUE, !.made = made, !.got = got]
        /\ slots' = slots \cup got
  BY DEF ThreadPrepares
<1>2. job.kind \in {"fbank", "gpu"} /\ ~job.ready /\ UNCHANGED <<pc, queue, active>>
  BY DEF ThreadPrepares, mainVars
<1>3. job \in Job /\ job' \in Job
  BY DEF Base, TypeOK
<1>4. job'.kind = job.kind /\ job'.cands = job.cands /\ job'.got = got /\ job'.ready
  <2>1. CASE made = TRUE
    BY <1>1, <1>3, <2>1 DEF Job
  <2>2. CASE made = FALSE
    BY <1>1, <1>3, <2>2 DEF Job
  <2> QED BY <2>1, <2>2
<1>5. job.got = {} /\ pc # "done"
  BY <1>2, NothingInHand DEF SlotsOK, JobHasSlots
<1>6. SlotsHeld'
  BY <1>1, <1>2, <1>4, <1>5 DEF SlotsOK, SlotsHeld, Waiting
<1>7. slots \ job.got = slots /\ slots' \ job'.got \in SUBSET slots
  BY <1>1, <1>4, <1>5
<1>8. IsFiniteSet(slots)
  BY SlotsFinite
<1>9. /\ Cardinality(slots' \ job'.got) <= Cardinality(slots)
      /\ Cardinality(slots' \ job'.got) \in Nat /\ Cardinality(slots) \in Nat
  BY <1>7, <1>8, FS_Subset, FS_CardinalityType
<1>10. Len(job.cands) \in Nat
  BY <1>3 DEF Job
<1>11. job.kind = "gpu" => Cardinality(slots) + Len(job.cands) <= SlotCapacity
  BY <1>7 DEF SlotsOK, JobHasSlots
<1>12. JobHasSlots'
  BY <1>2, <1>4, <1>5, <1>9, <1>10, <1>11, Numbers DEF JobHasSlots
<1> QED BY <1>6, <1>12 DEF SlotsOK

LEMMA LaunchKeepsSlots ==
  ASSUME Base, Base', SlotsOK, ~AllLaunched, Launch, job = NoJob,
         UNCHANGED <<queue, active, slots>>, pc # "done", pc' # "done"
  PROVE  SlotsOK'
<1>1. job'.got = {} /\ (job'.kind = "gpu" => FreeSlots >= Len(job'.cands))
  BY Launched
<1>2. job.got = {}
  BY NothingInHand
<1>3. SlotsHeld'
  BY <1>1, <1>2 DEF SlotsOK, SlotsHeld, Waiting
<1>4. slots' \ job'.got = slots
  BY <1>1
<1>5. Cardinality(slots) \in Nat /\ Len(job'.cands) \in Nat
  <2>1. job'.cands \in Seq(Chunks)
    BY DEF Base, TypeOK, Job
  <2> QED BY <2>1, SlotsFinite
<1>6. job'.kind = "gpu" => Cardinality(slots) + Len(job'.cands) <= SlotCapacity
  BY <1>1, <1>5, Numbers DEF FreeSlots
<1>7. JobHasSlots'
  BY <1>1, <1>4, <1>6 DEF JobHasSlots
<1> QED BY <1>3, <1>7 DEF SlotsOK

LEMMA ActivateKeepsSlots ==
  ASSUME Base, Base', SlotsOK, Activate
  PROVE  SlotsOK'
<1>1. PICK r \in ActiveRequest :
           /\ r.id = Head(queue) /\ r.computed = PrefixTokens
           /\ DOMAIN active' = 1 .. Len(active) + 1
           /\ DOMAIN active = 1 .. Len(active) /\ Len(active) \in Nat
           /\ active'[Len(active) + 1] = r
           /\ \A i \in DOMAIN active : active'[i] = active[i]
           /\ queue # <<>>
  BY Activated
<1>2. queue' = Tail(queue) /\ UNCHANGED <<pc, job, slots>> /\ queue \in Seq(Chunks)
      /\ pc = "activate"
  BY DEF Activate, Base, TypeOK
<1>3. Head(queue) \in Range(queue) /\ Range(queue) = {Head(queue)} \cup Range(queue')
  BY <1>1, <1>2, Popped
<1>4. Prompt[r.id] > r.computed
  <2>1. Fitting(r.id)
    BY <1>1, <1>3 DEF Base, ControlOK
  <2>2. Prompt[r.id] \in Nat /\ PrefixTokens \in Nat
    BY Numbers DEF ActiveRequest
  <2> QED BY <1>1, <2>1, <2>2 DEF Fitting
<1>5. Waiting' = Waiting \cup {Head(queue)}
  <2>1. \A i \in DOMAIN active' : i \in DOMAIN active \/ i = Len(active) + 1
    BY <1>1
  <2>2. Waiting' \subseteq Waiting \cup {Head(queue)}
    BY <1>1, <2>1 DEF Waiting
  <2>3. Waiting \subseteq Waiting'
    BY <1>1 DEF Waiting
  <2>4. Head(queue) \in Waiting'
    BY <1>1, <1>4 DEF Waiting
  <2> QED BY <2>2, <2>3, <2>4
<1>6. SlotsHeld'
  BY <1>2, <1>3, <1>5 DEF SlotsOK, SlotsHeld
<1>7. JobHasSlots'
  BY <1>2, FewerSlots DEF SlotsOK
<1> QED BY <1>6, <1>7 DEF SlotsOK

LEMMA CopyFailsKeepsSlots ==
  ASSUME Base, Base', Places, SlotsOK, CopyFails
  PROVE  SlotsOK'
<1>1. queue' = Tail(queue) /\ UNCHANGED <<pc, job, active>> /\ queue \in Seq(Chunks)
      /\ pc = "activate" /\ slots' = slots \ {Head(queue)}
  BY DEF CopyFails, Base, TypeOK
<1>2. /\ Head(queue) \in Range(queue) /\ Range(queue) = {Head(queue)} \cup Range(queue')
      /\ Head(queue) \notin Range(queue')
  BY <1>1, CopyFailed, Popped DEF Places
<1>3. Head(queue) \notin job.got /\ Head(queue) \notin Waiting
  BY <1>2, HoldersApart
<1>4. Waiting' = Waiting
  BY <1>1 DEF Waiting
<1>5. SlotsHeld'
  BY <1>1, <1>2, <1>3, <1>4 DEF SlotsOK, SlotsHeld
<1>6. JobHasSlots'
  BY <1>1, FewerSlots DEF SlotsOK
<1> QED BY <1>5, <1>6 DEF SlotsOK

LEMMA ConsumeKeepsSlots ==
  ASSUME Base, Base', Places, SlotsOK, Consume
  PROVE  SlotsOK'
<1>1. PICK ok \in SUBSET Range(job.cands), fits \in SUBSET Range(job.cands) :
           /\ fits = {c \in ok : Prompt[c] <= CtxSize}
           /\ job.made => ok = job.got
           /\ slots' = (slots \cup ok) \ (ok \ fits)
           /\ queue = <<>> /\ Range(queue') = fits
  BY Consumed
<1>2. job' = NoJob /\ UNCHANGED active /\ pc = "consume" /\ pc' = "fill"
  BY DEF Consume
<1>3. job.got \subseteq ok
  BY <1>1 DEF Base, JobOK
<1>4. Range(queue) = {} /\ job'.got = {} /\ Waiting' = Waiting
  BY <1>1, <1>2, NothingInHand DEF Range, Waiting
<1>5. \A c \in ok : c \notin Waiting
  BY HoldersApart
<1>6. slots = job.got \cup Waiting
  BY <1>2, <1>4 DEF SlotsOK, SlotsHeld
<1>7. slots' = fits \cup Waiting
  BY <1>1, <1>3, <1>5, <1>6
<1>8. SlotsHeld'
  BY <1>1, <1>4, <1>7 DEF SlotsHeld
<1>9. JobHasSlots'
  BY <1>2, NothingInHand DEF JobHasSlots
<1> QED BY <1>8, <1>9 DEF SlotsOK

LEMMA GpuStepKeepsSlots ==
  ASSUME Base, Base', Places, SlotsOK, GpuStep
  PROVE  SlotsOK'
<1> DEFINE done == {active[i].id : i \in {j \in DOMAIN active : PromptDone(active'[j])}}
<1>1. /\ slots' = slots \ done /\ UNCHANGED <<job, queue>>
      /\ pc = "execute" /\ pc' = "reap"
  BY DEF GpuStep
<1>2. /\ DOMAIN active' = DOMAIN active
      /\ \A i \in DOMAIN active :
           active'[i].id = active[i].id /\ active'[i].computed >= active[i].computed
  BY Stepped
<1>3. \A i \in DOMAIN active :
        /\ active[i].computed \in Nat /\ active'[i].computed \in Nat
        /\ Prompt[active[i].id] \in Nat
  <2>1. \A i \in DOMAIN active' : active'[i] \in ActiveRequest
    BY DEF Base, TypeOK
  <2>2. \A i \in DOMAIN active : active'[i].computed \in Nat
    BY <1>2, <2>1 DEF ActiveRequest
  <2> QED BY <2>2, ActiveTyped, Numbers
<1>4. Waiting' = Waiting \ done
  <2>1. \A i, j \in DOMAIN active : active[i].id = active[j].id => i = j
    BY DEF Places, DistinctIds
  <2>2. \A i \in DOMAIN active : PromptDone(active'[i]) <=> ~(Prompt[active[i].id] > active'[i].computed)
    BY <1>2, <1>3 DEF PromptDone
  <2>3. Waiting' = {active[i].id : i \in {j \in DOMAIN active :
                                            Prompt[active[j].id] > active'[j].computed}}
    BY <1>2 DEF Waiting
  <2>4. \A i \in DOMAIN active : Prompt[active[i].id] > active'[i].computed =>
                                   Prompt[active[i].id] > active[i].computed
    BY <1>2, <1>3
  <2>5. Waiting' \subseteq Waiting \ done
    BY <2>1, <2>2, <2>3, <2>4 DEF Waiting
  <2>6. Waiting \ done \subseteq Waiting'
    BY <2>1, <2>2, <2>3 DEF Waiting
  <2> QED BY <2>5, <2>6
<1>5. done \subseteq Ids(active)
  BY DEF Ids
<1>6. \A c \in done : c \notin Range(queue) /\ c \notin job.got
  BY <1>5, HoldersApart
<1> HIDE DEF done
<1>7. slots = Range(queue) \cup job.got \cup Waiting
  BY <1>1 DEF SlotsOK, SlotsHeld
<1>8. SlotsHeld'
  BY <1>1, <1>4, <1>6, <1>7 DEF SlotsHeld
<1>9. JobHasSlots'
  BY <1>1, FewerSlots DEF SlotsOK
<1> QED BY <1>8, <1>9 DEF SlotsOK

LEMMA DrainKeepsSlots ==
  ASSUME Drain
  PROVE  SlotsOK'
BY NothingInHand DEF Drain, SlotsOK, SlotsHeld, JobHasSlots

\* Steps that change neither a prompt's progress nor who holds a slot.
LEMMA SlotsStay ==
  ASSUME Base, Base', SlotsOK, DOMAIN active' = DOMAIN active,
         \A i \in DOMAIN active :
           active'[i].id = active[i].id /\ active'[i].computed = active[i].computed,
         UNCHANGED <<queue, job, slots>>, pc' = pc \/ (pc # "done" /\ pc' # "done")
  PROVE  SlotsOK'
<1>1. Waiting' = Waiting
  BY DEF Waiting
<1> QED BY <1>1 DEF SlotsOK, SlotsHeld, JobHasSlots

LEMMA OthersKeepSlots ==
  ASSUME Base, Base', SlotsOK,
         \/ FillStep \/ PrefetchNext \/ ActivateEnds \/ ConsumeNothing \/ Filled \/ PlanRound
         \/ ReserveSequence \/ Dispatch \/ NothingRuns \/ GpuStepFails \/ UNCHANGED vars
  PROVE  SlotsOK'
<1>1. CASE FillStep \/ PrefetchNext
  <2>1. UNCHANGED <<queue, active, slots>> /\ pc # "done" /\ pc' # "done"
    BY <1>1 DEF FillStep, PrefetchNext
  <2>2. CASE Launch /\ job = NoJob /\ ~AllLaunched
    BY <2>1, <2>2, LaunchKeepsSlots
  <2>3. CASE UNCHANGED job
    BY <2>1, <2>3, SlotsStay
  <2> QED BY <1>1, <2>2, <2>3 DEF FillStep, PrefetchNext
<1>2. CASE \/ ActivateEnds \/ ConsumeNothing \/ Filled \/ PlanRound \/ Dispatch \/ UNCHANGED vars
  <2>1. UNCHANGED <<queue, active, slots, job>> /\ (pc' = pc \/ (pc # "done" /\ pc' # "done"))
    BY <1>2 DEF ActivateEnds, ConsumeNothing, Filled, PlanRound, Dispatch, vars
  <2> QED BY <2>1, SlotsStay
<1>3. CASE ReserveSequence
  <2>1. DOMAIN active' = DOMAIN active
        /\ \A i \in DOMAIN active :
             active'[i].id = active[i].id /\ active'[i].computed = active[i].computed
    BY <1>3, Reserved
  <2>2. UNCHANGED <<queue, slots, job, pc>>
    BY <1>3 DEF ReserveSequence
  <2> QED BY <2>1, <2>2, SlotsStay
<1>4. CASE NothingRuns \/ GpuStepFails
  <2>1. PICK failed : RollBack(failed)
    BY <1>4 DEF NothingRuns, GpuStepFails
  <2>2. pc \in {"reserve", "execute"} /\ pc' = "reap" /\ UNCHANGED <<queue, slots, job>>
    BY <1>4 DEF NothingRuns, GpuStepFails
  <2>3. DOMAIN active' = DOMAIN active
        /\ \A i \in DOMAIN active :
             active'[i].id = active[i].id /\ active'[i].computed = active[i].computed
    BY <2>1, <2>2, RolledBack
  <2> QED BY <2>2, <2>3, SlotsStay
<1> QED BY <1>1, <1>2, <1>3, <1>4

LEMMA SlotsInvariant == Spec => []SlotsOK
<1>1. Init => SlotsOK
  BY SlotsInit
<1>2. Base /\ Base' /\ Places /\ SlotsOK /\ [Next]_vars => SlotsOK'
  BY ReapKeepsSlots, ThreadPreparesKeepsSlots, ActivateKeepsSlots, CopyFailsKeepsSlots,
     ConsumeKeepsSlots, GpuStepKeepsSlots, DrainKeepsSlots, OthersKeepSlots
     DEF Next, Main, Returned
<1> QED BY <1>1, <1>2, EngineTypeCorrect, PlacesInvariant, PTL DEF Spec

(* Whatever the chunks and the capacity: a request holds its embedding     *)
(* slot from the frontend until the step that completes its prompt, and    *)
(* nobody else holds one.                                                  *)
THEOREM EmbeddingsHeld == Spec => []EmbeddingsOutlivePrompt
<1>1. SlotsOK => EmbeddingsOutlivePrompt
  BY DEF SlotsOK, SlotsHeld, EmbeddingsOutlivePrompt, Waiting
<1> QED BY <1>1, SlotsInvariant, PTL

(* Whatever the batch size and the size of a job: the slots a job is going *)
(* to claim are there when it claims them.                                 *)
THEOREM FrontendHasSlots == Spec => []FrontendFindsSlots
<1>1. Base /\ SlotsOK => FrontendFindsSlots
  <2>1. SUFFICES ASSUME Base, SlotsOK, job.kind = "gpu" \/ pc = "consume"
                 PROVE  FreeSlots + Cardinality(job.got) >= Len(job.cands)
    BY DEF FrontendFindsSlots
  <2>2. IsFiniteSet(slots)
    BY <2>1, SlotsFinite
  <2>3. pc # "done"
    BY <2>1, NothingInHand DEF SlotsOK, JobHasSlots
  <2>4. slots = Range(queue) \cup job.got \cup Waiting
    BY <2>1, <2>3 DEF SlotsOK, SlotsHeld
  <2>5. slots \cap job.got = job.got /\ IsFiniteSet(job.got)
    BY <2>2, <2>4, FS_Subset
  <2>6. Cardinality(slots \ job.got) = Cardinality(slots) - Cardinality(job.got)
    BY <2>2, <2>5, FS_Difference
  <2>7. Cardinality(slots) \in Nat /\ Cardinality(job.got) \in Nat /\ Len(job.cands) \in Nat
    <3>1. job.cands \in Seq(Chunks)
      BY <2>1 DEF Base, TypeOK, Job
    <3> QED BY <2>2, <2>5, <3>1, FS_CardinalityType
  <2>8. CASE job.kind = "gpu"
    <3>1. Cardinality(slots \ job.got) + Len(job.cands) <= SlotCapacity
      BY <2>1, <2>8 DEF SlotsOK, JobHasSlots
    <3> QED BY <2>6, <2>7, <3>1, Numbers DEF FreeSlots
  <2>9. CASE pc = "consume"
    <3>1. queue = <<>> /\ Len(active) < BatchSize /\ Len(job.cands) <= MaxFrontend
      BY <2>1, <2>9 DEF Base, ControlOK, JobOK
    <3>2. Range(queue) = {}
      BY <3>1 DEF Range
    <3>3. slots \ job.got \subseteq Ids(active)
      BY <2>4, <3>2 DEF Waiting, Ids
    <3>4. IsFiniteSet(Ids(active)) /\ Cardinality(Ids(active)) <= Len(active)
          /\ Len(active) \in Nat /\ Cardinality(Ids(active)) \in Nat
      BY <2>1, IdsFinite
    <3>5. Cardinality(slots \ job.got) <= Len(active)
      <4>1. /\ Cardinality(slots \ job.got) <= Cardinality(Ids(active))
            /\ IsFiniteSet(slots \ job.got)
        BY <3>3, <3>4, FS_Subset
      <4>2. Cardinality(slots \ job.got) \in Nat
        BY <4>1, FS_CardinalityType
      <4> QED BY <3>4, <4>1, <4>2
    <3> QED BY <2>6, <2>7, <3>1, <3>4, <3>5, Numbers DEF FreeSlots, SlotCapacity
  <2> QED BY <2>1, <2>8, <2>9
<1> QED BY <1>1, EngineTypeCorrect, SlotsInvariant, PTL


-----------------------------------------------------------------------------
(* Decoders.                                                               *)

\* An active request that waits for its next token.
Decoder(r) == r.phase = "run" /\ PromptDone(r) /\ r.computed < CtxSize

Decoders == {active[i].id : i \in {j \in DOMAIN active : Decoder(active[j])}}

\* Requests with a sequence in the round at hand.
Turns == {active[i].id : i \in {j \in DOMAIN active : In(step.plan, j) \/ In(step.run, j)}}

\* Requests become decoders in the rounds they have a turn in, so that a
\* later plan has a place for each.
DecodersOK == Cardinality(Decoders \cup Turns) <= MaxSeqs

LEMMA ServedFinite ==
  ASSUME Base
  PROVE  IsFiniteSet(Decoders \cup Turns) /\ Cardinality(Decoders \cup Turns) \in Nat
<1>1. Decoders \cup Turns \in SUBSET Ids(active)
  BY DEF Decoders, Turns, Ids
<1> QED BY <1>1, IdsFinite, FS_Subset, FS_CardinalityType

LEMMA FewerServed ==
  ASSUME Base, DecodersOK, Decoders' \cup Turns' \subseteq Decoders \cup Turns
  PROVE  DecodersOK'
<1>1. /\ IsFiniteSet(Decoders' \cup Turns')
      /\ Cardinality(Decoders' \cup Turns') <= Cardinality(Decoders \cup Turns)
  BY ServedFinite, FS_Subset
<1>2. /\ Cardinality(Decoders' \cup Turns') \in Nat /\ Cardinality(Decoders \cup Turns) \in Nat
      /\ MaxSeqs \in Nat
  BY <1>1, ServedFinite, FS_CardinalityType, ConfigAssumption
<1>3. Cardinality(Decoders \cup Turns) <= MaxSeqs
  BY DEF DecodersOK
<1>4. Cardinality(Decoders' \cup Turns') <= MaxSeqs
  BY <1>1, <1>2, <1>3
<1> QED BY <1>4 DEF DecodersOK

LEMMA NoTurnsNext ==
  ASSUME Base', pc' \notin {"reserve", "execute"}
  PROVE  Turns' = {}
<1>1. step' = NoStep
  BY DEF Base, StepOK
<1>2. DOMAIN step'.plan = {} /\ DOMAIN step'.run = {}
  BY <1>1, NothingInHand
<1> QED BY <1>2 DEF Turns, In

\* Steps that leave the progress of the requests alone and give no turns.
LEMMA DecodersStay ==
  ASSUME Base, DecodersOK, Turns' \subseteq Turns,
         DOMAIN active' = DOMAIN active,
         \A i \in DOMAIN active :
           /\ active'[i].id = active[i].id /\ active'[i].computed = active[i].computed
           /\ active'[i].phase = active[i].phase \/ active'[i].phase # "run"
  PROVE  DecodersOK'
<1>1. \A i \in DOMAIN active : Decoder(active'[i]) => Decoder(active[i])
  BY DEF Decoder, PromptDone
<1>2. Decoders' \subseteq Decoders
  BY <1>1 DEF Decoders
<1> QED BY <1>2, FewerServed

LEMMA DecodersInit ==
  ASSUME Init
  PROVE  DecodersOK
<1>1. DOMAIN active = {}
  BY DEF Init
<1>2. Decoders \cup Turns = {}
  BY <1>1 DEF Decoders, Turns
<1> QED BY <1>2, FS_EmptySet, ConfigAssumption DEF DecodersOK

LEMMA ReapKeepsDecoders ==
  ASSUME Base, Base', DecodersOK, Reap
  PROVE  DecodersOK'
<1>1. Range(active') \subseteq Range(active)
  BY Reaped
<1>2. Decoders = {r.id : r \in {q \in Range(active) : Decoder(q)}}
  BY DEF Decoders, Range
<1>3. Decoders' = {r.id : r \in {q \in Range(active') : Decoder(q)}}
  BY DEF Decoders, Range
<1>4. Turns' = {}
  BY NoTurnsNext DEF Reap
<1> QED BY <1>1, <1>2, <1>3, <1>4, FewerServed

LEMMA ActivateKeepsDecoders ==
  ASSUME Base, Base', DecodersOK, Activate
  PROVE  DecodersOK'
<1>1. PICK r \in ActiveRequest :
           /\ r.id = Head(queue) /\ r.computed = PrefixTokens
           /\ DOMAIN active' = 1 .. Len(active) + 1
           /\ DOMAIN active = 1 .. Len(active) /\ Len(active) \in Nat
           /\ active'[Len(active) + 1] = r
           /\ \A i \in DOMAIN active : active'[i] = active[i]
           /\ queue # <<>>
  BY Activated
<1>2. ~Decoder(r)
  <2>1. queue \in Seq(Chunks) /\ \A c \in Range(queue) : Fitting(c)
    BY DEF Base, TypeOK, ControlOK
  <2>2. Fitting(r.id)
    BY <1>1, <2>1, Popped
  <2>3. Prompt[r.id] \in Nat /\ PrefixTokens \in Nat
    BY Numbers DEF ActiveRequest
  <2> QED BY <1>1, <2>2, <2>3 DEF Fitting, Decoder, PromptDone
<1>3. \A i \in DOMAIN active' : i \in DOMAIN active \/ i = Len(active) + 1
  BY <1>1
<1>4. Decoders' \subseteq Decoders
  BY <1>1, <1>2, <1>3 DEF Decoders
<1>5. Turns' = {}
  BY NoTurnsNext DEF Activate
<1> QED BY <1>4, <1>5, FewerServed

\* The chunks of the active requests that a plan serves.
Served(plan) == {active[i].id : i \in {j \in DOMAIN active : In(plan, j)}}

(* The plan of a round has a place for every decoder: either it takes them *)
(* all, or all its places go to decoders, and there are no more of those.  *)
LEMMA DecodersHavePlaces ==
  ASSUME Base, Places, RoundOK, DecodersOK, pc = "plan"
  PROVE  /\ Decoders \subseteq Served(BuildPlan(Snapshot))
         /\ IsFiniteSet(Served(BuildPlan(Snapshot)))
         /\ Cardinality(Served(BuildPlan(Snapshot))) <= MaxSeqs
         /\ \A i \in DOMAIN active :
              Decoder(active[i]) <=> Ready(Snapshot[i]) /\ PromptComplete(Snapshot[i])
<1>1. PICK rs \in Seq(Request) :
        /\ rs = Snapshot /\ DOMAIN rs = DOMAIN active
        /\ \A i \in DOMAIN active : rs[i] = ProgressOf(active[i])
  BY SnapshotTyped DEF Base, TypeOK
<1>2. PICK p \in Seq(ScheduledSequence) :
        /\ p = BuildPlan(rs) /\ Len(p) <= MaxSeqs
        /\ \A k \in DOMAIN p : Fits(rs, p[k])
        /\ \A j, k \in DOMAIN p : p[j].req = p[k].req => j = k
  BY BuildPlanPlans
<1>3. DOMAIN p = 1 .. Len(p) /\ Len(p) \in Nat /\ MaxSeqs \in Nat
  BY <1>2, ConfigAssumption
<1>4. \A k \in DOMAIN p : p[k].req \in DOMAIN active /\ Ready(rs[p[k].req])
  BY <1>1, <1>2 DEF Fits
<1>5. \A i \in DOMAIN active : Decoder(active[i]) <=> Ready(rs[i]) /\ PromptComplete(rs[i])
  <2>1. SUFFICES ASSUME NEW i \in DOMAIN active
                 PROVE  Decoder(active[i]) <=> Ready(rs[i]) /\ PromptComplete(rs[i])
    OBVIOUS
  <2>2. PICK r \in ActiveRequest : r = active[i] /\ r.phase = "run" /\ RequestOK(r)
    BY <2>1, ActiveTyped DEF Base, ControlOK, RoundOK, RequestsOK
  <2>3. PICK q \in Request : q = ProgressOf(r) /\ q = rs[i]
    BY <1>1, <2>1, <2>2, ProgressTyped
  <2>4. /\ q.prompt = Prompt[r.id] /\ q.computed = r.computed /\ q.runnable /\ ~q.finished
        /\ q.room = LargerOf(0, CtxSize - r.computed)
    BY <2>2, <2>3, ProgressTyped
  <2>5. Available(q) > 0
    BY <2>2, <2>3, <2>4 DEF RequestOK, Settled
  <2>6. r.computed \in Nat /\ Prompt[r.id] \in Nat /\ CtxSize \in Nat
    BY Numbers DEF ActiveRequest
  <2>7. q.room > 0 <=> r.computed < CtxSize
    BY <2>4, <2>6 DEF LargerOf
  <2> QED BY <2>2, <2>3, <2>4, <2>5, <2>7 DEF Decoder, PromptDone, Ready, PromptComplete
<1> DEFINE f == [k \in DOMAIN p |-> active[p[k].req].id]
<1>6. f \in Surjection(DOMAIN p, Served(p))
  BY <1>4 DEF Surjection, Served, In
<1>7. f \in Injection(DOMAIN p, Served(p))
  <2>1. \A i, j \in DOMAIN active : active[i].id = active[j].id => i = j
    BY DEF Places, DistinctIds
  <2>2. f \in [DOMAIN p -> Served(p)]
    BY <1>6 DEF Surjection
  <2> QED BY <1>2, <1>4, <2>1, <2>2 DEF Injection, IsInjective
<1>8. IsFiniteSet(DOMAIN p) /\ Cardinality(DOMAIN p) = Len(p)
  BY <1>3, UpTo
<1> HIDE DEF f
<1>9. IsFiniteSet(Served(p)) /\ Cardinality(Served(p)) = Len(p)
  BY <1>6, <1>7, <1>8, FS_Surjection
<1>10. Decoders \subseteq Served(p)
  <2>1. CASE \A i \in DOMAIN rs : Ready(rs[i]) /\ PromptComplete(rs[i]) => In(p, i)
    BY <1>1, <1>5, <2>1 DEF Decoders, Served
  <2>2. CASE Len(p) = MaxSeqs /\ \A k \in DOMAIN p : PromptComplete(rs[p[k].req])
    <3>1. Served(p) \subseteq Decoders
      BY <1>4, <1>5, <2>2 DEF Decoders, Served, In
    <3>2. IsFiniteSet(Decoders \cup Turns) /\ Cardinality(Decoders \cup Turns) <= MaxSeqs
          /\ Cardinality(Decoders \cup Turns) \in Nat
      BY ServedFinite DEF DecodersOK
    <3>3. Served(p) \in SUBSET (Decoders \cup Turns)
      BY <3>1
    <3>4. Cardinality(Served(p)) <= Cardinality(Decoders \cup Turns)
      BY <3>2, <3>3, FS_Subset
    <3>5. Cardinality(Decoders \cup Turns) = Cardinality(Served(p))
      BY <1>3, <1>9, <2>2, <3>2, <3>4
    <3>6. Decoders \cup Turns = Served(p)
      BY <3>2, <3>3, <3>5, FS_Subset
    <3> QED BY <3>6
  <2> QED BY <1>2, <2>1, <2>2, DecodersFirst
<1> QED BY <1>1, <1>2, <1>5, <1>9, <1>10

LEMMA PlanRoundKeepsDecoders ==
  ASSUME Base, Places, RoundOK, DecodersOK, PlanRound
  PROVE  DecodersOK'
<1>1. step'.plan = BuildPlan(Snapshot) /\ step'.run = <<>> /\ UNCHANGED active /\ pc = "plan"
  BY Planned DEF PlanRound
<1>2. Decoders' = Decoders
  BY <1>1 DEF Decoders
<1>3. Turns' = Served(BuildPlan(Snapshot))
  <2>1. \A i : ~In(step'.run, i)
    BY <1>1 DEF In
  <2> QED BY <1>1, <2>1 DEF Turns, Served
<1>4. Decoders' \cup Turns' = Served(BuildPlan(Snapshot))
  BY <1>1, <1>2, <1>3, DecodersHavePlaces
<1> QED BY <1>1, <1>4, DecodersHavePlaces DEF DecodersOK

LEMMA ReserveSequenceKeepsDecoders ==
  ASSUME Base, DecodersOK, ReserveSequence
  PROVE  DecodersOK'
<1>1. PICK s \in ScheduledSequence, taken \in Nat, n \in Int :
           /\ s = step.plan[1] /\ step.plan # <<>> /\ s.req \in DOMAIN active
           /\ step' = [plan     |-> Tail(step.plan),
                       run      |-> IF n > 0 THEN Append(step.run, Cut(s, n)) ELSE step.run,
                       appended |-> [step.appended EXCEPT ![s.req] = @ + taken]]
           /\ DOMAIN active' = DOMAIN active
           /\ \A i \in DOMAIN active :
                /\ active'[i].id = active[i].id
                /\ active'[i].computed = active[i].computed
                /\ active'[i].phase = active[i].phase
  BY Reserved
<1>2. step.plan \in Seq(ScheduledSequence) /\ step.run \in Seq(ScheduledSequence)
  BY DEF Base, StepOK
<1>3. \A i : In(step'.plan, i) => In(step.plan, i)
  <2>1. step'.plan = Tail(step.plan)
    BY <1>1
  <2>2. \A k \in DOMAIN Tail(step.plan) :
          k + 1 \in DOMAIN step.plan /\ Tail(step.plan)[k] = step.plan[k + 1]
    BY <1>1, <1>2
  <2> QED BY <2>1, <2>2 DEF In
<1>4. \A i : In(step'.run, i) => In(step.run, i) \/ i = s.req
  <2>1. CASE n > 0
    <3>1. step'.run = Append(step.run, Cut(s, n))
      BY <1>1, <2>1
    <3>2. Cut(s, n).req = s.req
      BY DEF Cut, ScheduledSequence
    <3>3. \A k \in DOMAIN Append(step.run, Cut(s, n)) :
            \/ k \in DOMAIN step.run /\ Append(step.run, Cut(s, n))[k] = step.run[k]
            \/ Append(step.run, Cut(s, n))[k] = Cut(s, n)
      BY <1>2
    <3> QED BY <3>1, <3>2, <3>3 DEF In
  <2>2. CASE ~(n > 0)
    BY <1>1, <2>2
  <2> QED BY <2>1, <2>2
<1>5. In(step.plan, s.req)
  <2>1. 1 \in DOMAIN step.plan
    BY <1>1, <1>2
  <2> QED BY <1>1, <2>1 DEF In
<1>6. Turns' \subseteq Turns
  BY <1>1, <1>3, <1>4, <1>5 DEF Turns
<1> QED BY <1>1, <1>6, DecodersStay

LEMMA RollBackKeepsDecoders ==
  ASSUME Base, Base', DecodersOK, pc \in {"reserve", "execute"}, pc' = "reap",
         NEW failed, RollBack(failed)
  PROVE  DecodersOK'
<1>1. /\ DOMAIN active' = DOMAIN active
      /\ \A i \in DOMAIN active :
           /\ active'[i].id = active[i].id /\ active'[i].computed = active[i].computed
           /\ active'[i].phase = IF i \in failed THEN "Failed" ELSE active[i].phase
  BY RolledBack
<1>2. Turns' = {}
  BY NoTurnsNext
<1> QED BY <1>1, <1>2, DecodersStay

LEMMA GpuStepKeepsDecoders ==
  ASSUME Base, Base', DecodersOK, GpuStep
  PROVE  DecodersOK'
<1>1. /\ DOMAIN active' = DOMAIN active
      /\ \A i \in DOMAIN active :
           /\ active'[i].id = active[i].id
           /\ RunOf(i) = {} => active'[i] = active[i]
  BY Stepped
<1>2. Turns' = {}
  BY NoTurnsNext DEF GpuStep
<1>3. \A i \in DOMAIN active : RunOf(i) # {} => In(step.run, i)
  BY DEF RunOf, In
<1>4. Decoders' \subseteq Decoders \cup Turns
  BY <1>1, <1>3 DEF Decoders, Turns
<1> QED BY <1>2, <1>4, FewerServed

LEMMA OthersKeepDecoders ==
  ASSUME Base, DecodersOK,
         \/ FillStep \/ CopyFails \/ ActivateEnds \/ ConsumeNothing \/ Consume \/ PrefetchNext
         \/ Filled \/ Dispatch \/ Drain \/ ThreadPrepares \/ UNCHANGED vars
  PROVE  DecodersOK'
<1>1. UNCHANGED <<active, step>>
  BY DEF FillStep, CopyFails, ActivateEnds, ConsumeNothing, Consume, PrefetchNext, Filled,
         Dispatch, Drain, ThreadPrepares, mainVars, vars
<1>2. Decoders' = Decoders /\ Turns' = Turns
  BY <1>1 DEF Decoders, Turns
<1> QED BY <1>2, FewerServed

LEMMA DecodersInvariant == Spec => []DecodersOK
<1>1. Init => DecodersOK
  BY DecodersInit
<1>2. Base /\ Base' /\ Places /\ RoundOK /\ DecodersOK /\ [Next]_vars => DecodersOK'
  BY ReapKeepsDecoders, ActivateKeepsDecoders, PlanRoundKeepsDecoders,
     ReserveSequenceKeepsDecoders, RollBackKeepsDecoders, GpuStepKeepsDecoders,
     OthersKeepDecoders
     DEF Next, Main, Returned, NothingRuns, GpuStepFails
<1> QED BY <1>1, <1>2, EngineTypeCorrect, PlacesInvariant, RoundInvariant, PTL DEF Spec

(* Whatever the batch size and the limits of a plan: a request that waits  *)
(* for its next token has a turn in the next round.                        *)
THEOREM DecodersPlanned == Spec => []EveryDecoderPlanned
<1>1. Base /\ Places /\ RoundOK /\ DecodersOK => EveryDecoderPlanned
  <2>1. SUFFICES ASSUME Base, Places, RoundOK, DecodersOK, pc = "plan",
                        NEW i \in DOMAIN active,
                        Ready(Snapshot[i]), PromptComplete(Snapshot[i])
                 PROVE  In(BuildPlan(Snapshot), i)
    BY DEF EveryDecoderPlanned, In
  <2>2. active[i].id \in Served(BuildPlan(Snapshot))
    <3>1. Decoder(active[i])
      BY <2>1, DecodersHavePlaces
    <3>2. active[i].id \in Decoders
      BY <2>1, <3>1 DEF Decoders
    <3> QED BY <2>1, <3>2, DecodersHavePlaces
  <2>3. \A j \in DOMAIN active : active[j].id = active[i].id => j = i
    BY <2>1 DEF Places, DistinctIds
  <2> QED BY <2>2, <2>3 DEF Served
<1> QED BY <1>1, EngineTypeCorrect, PlacesInvariant, RoundInvariant, DecodersInvariant, PTL

-----------------------------------------------------------------------------
(* The results.                                                            *)

LEMMA OneElement ==
  ASSUME NEW T, NEW t \in Seq(T), Len(t) = 1
  PROVE  t = <<t[1]>>
<1>1. t[1] \in T
  OBVIOUS
<1>2. PICK u \in Seq(T) : u = <<t[1]>>
  BY <1>1
<1>3. Len(u) = Len(t) /\ \A i \in 1 .. Len(t) : t[i] = u[i]
  BY <1>1, <1>2
<1>4. t = [i \in 1 .. Len(t) |-> t[i]] /\ u = [i \in 1 .. Len(u) |-> u[i]]
  OBVIOUS
<1> QED BY <1>2, <1>3, <1>4

\* A step gives some chunks their one result and leaves the others alone.
LEMMA StepAnswers ==
  ASSUME Base, Base', Places, Places',
         \A c \in Chunks : \/ answers'[c] = answers[c]
                           \/ Len(answers'[c]) = Len(answers[c]) + 1
  PROVE  [Service!Next]_answers
<1> DEFINE S == {c \in Chunks : Len(answers'[c]) = Len(answers[c]) + 1}
           outcome == [c \in S |-> answers'[c][1]]
<1>1. /\ answers \in [Chunks -> Seq(Outcomes)] /\ answers' \in [Chunks -> Seq(Outcomes)]
      /\ \A c \in Chunks : Len(answers[c]) \in {0, 1} /\ Len(answers'[c]) \in {0, 1}
  BY DEF Base, TypeOK, Places, InOnePlace
<1>2. ASSUME NEW c \in S
      PROVE  /\ answers[c] = <<>>
             /\ answers'[c] = <<answers'[c][1]>> /\ answers'[c][1] \in Outcomes
  <2>1. PICK s \in Seq(Outcomes), t \in Seq(Outcomes) : s = answers[c] /\ t = answers'[c]
    BY <1>1
  <2>2. Len(s) = 0 /\ Len(t) = 1
    BY <1>1, <2>1
  <2>3. s = <<>> /\ t[1] \in Outcomes
    BY <2>2
  <2>4. t = <<t[1]>>
    BY <2>2, OneElement
  <2> QED BY <2>1, <2>3, <2>4
<1>3. S \in SUBSET Service!Unanswered
  BY <1>2 DEF Service!Unanswered
<1>4. outcome \in [S -> {"Finished", "Failed"}]
  BY <1>2 DEF Outcomes
<1>5. \A c \in Chunks : answers'[c] = IF c \in S THEN <<outcome[c]>> ELSE answers[c]
  BY <1>2
<1> HIDE DEF outcome
<1>6. answers' = [c \in Chunks |-> IF c \in S THEN <<outcome[c]>> ELSE answers[c]]
  <2>1. answers' = [c \in Chunks |-> answers'[c]]
    BY <1>1
  <2> HIDE DEF S
  <2> QED BY <1>5, <2>1
<1>7. Service!Answer(S)
  BY <1>4, <1>6 DEF Service!Answer
<1>8. CASE S = {}
  <2>1. \A c \in Chunks : answers'[c] = answers[c]
    BY <1>5, <1>8
  <2>2. answers' = [c \in Chunks |-> answers'[c]] /\ answers = [c \in Chunks |-> answers[c]]
    BY <1>1
  <2>3. answers' = answers
    BY <2>1, <2>2
  <2> QED BY <2>3
<1>9. CASE S # {}
  <2> HIDE DEF S
  <2> QED BY <1>3, <1>7, <1>9 DEF Service!Next
<1> QED BY <1>8, <1>9

LEMMA StepsAnswer ==
  ASSUME Base, Base', Places, Places', [Next]_vars
  PROVE  [Service!Next]_answers
<1>1. CASE Reap
  BY <1>1, Reaped, StepAnswers
<1>2. CASE CopyFails
  BY <1>2, CopyFailed, StepAnswers
<1>3. CASE Consume
  BY <1>3, Consumed, StepAnswers
<1>4. CASE Drain
  BY <1>4, Drained, StepAnswers
<1>5. CASE FillStep \/ PrefetchNext
  <2>1. CASE Launch /\ ~AllLaunched
    BY <2>1, Launched, StepAnswers
  <2> QED BY <1>5, <2>1 DEF FillStep, PrefetchNext
<1>6. CASE \/ Activate \/ ActivateEnds \/ ConsumeNothing \/ Filled \/ PlanRound
           \/ ReserveSequence \/ Dispatch \/ NothingRuns \/ GpuStep \/ GpuStepFails
           \/ ThreadPrepares \/ UNCHANGED vars
  <2>1. UNCHANGED answers
    BY <1>6 DEF Activate, ActivateEnds, ConsumeNothing, Filled, PlanRound, ReserveSequence,
                Dispatch, NothingRuns, GpuStep, GpuStepFails, ThreadPrepares, mainVars, vars
  <2> QED BY <2>1
<1> QED BY <1>1, <1>2, <1>3, <1>4, <1>5, <1>6 DEF Next, Main, Returned

(* Whatever the recording and whatever fails: the engine gives a chunk its *)
(* result once, and takes none back or replaces it; it implements the      *)
(* safety part of ChunkAnswers.                                            *)
THEOREM ResultsStand == Spec => Service!AnswersStand
<1>1. Init => Service!Init
  BY DEF Init, Service!Init
<1>2. Base /\ Base' /\ Places /\ Places' /\ [Next]_vars => [Service!Next]_answers
  BY StepsAnswer
<1> QED BY <1>1, <1>2, EngineTypeCorrect, PlacesInvariant, PTL DEF Spec, Service!AnswersStand

\* Nothing is in hand when the call has returned.
AllBack == pc = "done" => queue = <<>> /\ job = NoJob

LEMMA NothingLeftInvariant == Spec => []AllBack
<1>1. Init => AllBack
  BY DEF Init, AllBack
<1>2. AllBack /\ [Next]_vars => AllBack'
  <2>1. SUFFICES ASSUME AllBack, [Next]_vars, pc' = "done"
                 PROVE  queue' = <<>> /\ job' = NoJob
    BY DEF AllBack
  <2>2. CASE pc = "done"
    <3>1. job.kind = "none" /\ queue = <<>> /\ job = NoJob
      BY <2>1, <2>2, NothingInHand DEF AllBack
    <3>2. UNCHANGED <<queue, job>>
      BY <2>1, <2>2, <3>1 DEF Next, Main, Returned, vars, mainVars, Reap, FillStep, Activate,
         CopyFails, ActivateEnds, ConsumeNothing, Consume, PrefetchNext, Filled, PlanRound,
         ReserveSequence, Dispatch, NothingRuns, GpuStep, GpuStepFails, Drain, ThreadPrepares
    <3> QED BY <3>1, <3>2
  <2>3. CASE pc # "done"
    <3>1. Drain
      BY <2>1, <2>3 DEF Next, Main, Returned, vars, mainVars, Reap, FillStep, Activate,
         CopyFails, ActivateEnds, ConsumeNothing, Consume, PrefetchNext, Filled, PlanRound,
         ReserveSequence, Dispatch, NothingRuns, GpuStep, GpuStepFails, Drain, ThreadPrepares
    <3> QED BY <3>1 DEF Drain
  <2> QED BY <2>2, <2>3
<1> QED BY <1>1, <1>2, PTL DEF Spec

(* When the call returns every block of the pool is free, and every chunk  *)
(* that was launched has its result: on the way out of the loop, through   *)
(* its end or through an early break, nothing is left behind in the        *)
(* frontend, the queue or the batch.                                       *)
THEOREM ReturnsWithEverything ==
  Spec => [](pc = "done" => /\ free = NumBlocks
                            /\ \A c \in Chunks : c < next => Len(answers[c]) = 1)
<1>1. Base /\ BlocksOK /\ Places /\ AllBack =>
        (pc = "done" => /\ free = NumBlocks
                        /\ \A c \in Chunks : c < next => Len(answers[c]) = 1)
  <2>1. SUFFICES ASSUME Base, BlocksOK, Places, AllBack, pc = "done"
                 PROVE  /\ free = NumBlocks
                        /\ \A c \in Chunks : c < next => Len(answers[c]) = 1
    OBVIOUS
  <2>2. active = <<>> /\ queue = <<>> /\ job = NoJob
    BY <2>1 DEF Base, ControlOK, AllBack
  <2>3. Range(queue) = {} /\ Range(job.cands) = {} /\ Ids(active) = {} /\ Range(active) = {}
    BY <2>2, NothingInHand DEF Range, Ids
  <2>4. free = NumBlocks
    <3>1. Owned = 0
      <4>1. BlocksOf(Range(active)) = {}
        BY <2>3 DEF BlocksOf
      <4> QED BY <4>1, FS_EmptySet DEF Owned
    <3> QED BY <2>1, <3>1, Numbers DEF BlocksOK, Base, TypeOK
  <2>5. ASSUME NEW c \in Chunks, c < next
        PROVE  Len(answers[c]) = 1
    <3>1. ~(c >= next)
      BY <2>1, <2>5, Numbers DEF Base, TypeOK
    <3> QED BY <2>1, <2>3, <3>1 DEF Places, InOnePlace, OnlyOne
  <2> QED BY <2>4, <2>5
<1> QED BY <1>1, EngineTypeCorrect, BlocksInvariant, PlacesInvariant, NothingLeftInvariant, PTL

(* The engine leaves its loop only when nothing is left to do, or when it  *)
(* gives up: nothing active, nothing admitted.                             *)
THEOREM LeavesWhenDone ==
  Spec => [][pc' = "drain" /\ pc # "drain" =>
               GivesUp \/ (AllLaunched /\ queue = <<>> /\ job = NoJob /\ active = <<>>)]_vars
<1>1. [Next]_vars =>
        [pc' = "drain" /\ pc # "drain" =>
           GivesUp \/ (AllLaunched /\ queue = <<>> /\ job = NoJob /\ active = <<>>)]_vars
  <2>1. SUFFICES ASSUME Next, pc' = "drain", pc # "drain"
                 PROVE  GivesUp \/ (AllLaunched /\ queue = <<>> /\ job = NoJob /\ active = <<>>)
    OBVIOUS
  <2>2. Filled
    BY <2>1 DEF Next, Main, Returned, vars, mainVars, Reap, FillStep, Activate, CopyFails,
                ActivateEnds, ConsumeNothing, Consume, PrefetchNext, PlanRound, ReserveSequence,
                Dispatch, NothingRuns, GpuStep, GpuStepFails, Drain, ThreadPrepares
  <2> QED BY <2>1, <2>2 DEF Filled, GivesUp, WorkLeft
<1> QED BY <1>1, PTL DEF Spec
=============================================================================
