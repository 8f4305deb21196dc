----------------------- MODULE ContinuousEngineProofs -----------------------
(***************************************************************************)
(* The continuous engine (ContinuousEngine) keeps its blocks, its rows and *)
(* its results in order for any recording, pool and limits and in each way *)
(* of keeping K/V.                                                         *)
(*                                                                         *)
(* The invariant, each part inductive with the help of those before it:    *)
(*   TypeOK    types                                                       *)
(*   Places    which chunks are still to come, in admission, active or     *)
(*             answered; the thread and its round                          *)
(*   Rows      a request's rows lie in its blocks, and under the static    *)
(*             budget the budget does                                      *)
(*   Turns     what a request whose turn is over is: an input with a row   *)
(*             to write, finished, or waiting while no block is free       *)
(*   Conserved free blocks, those of the prefix and own blocks are the pool*)
(*   Answered  a chunk that was taken is active or has its result          *)
(***************************************************************************)
EXTENDS ContinuousEngine, FiniteSetTheorems, WellFoundedInduction, TLAPS

-----------------------------------------------------------------------------
(* Sequences and finite sets.                                              *)

LEMMA Induction ==
  ASSUME NEW S, 0 \in S, \A n \in Nat : n \in S => n + 1 \in S
  PROVE  Nat \subseteq S
<1> DEFINE T == Nat \ S
           L == OpToRel(<, Nat)
<1>1. SUFFICES ASSUME T # {} PROVE FALSE
  OBVIOUS
<1>2. IsWellFoundedOn(L, Nat)
  BY NatLessThanWellFounded
<1>3. PICK x \in T : \A y \in T : ~ (<<y, x>> \in L)
  <2> T \subseteq Nat
    OBVIOUS
  <2> HIDE DEF T, L
  <2> QED BY <1>1, <1>2, WFMin
<1>4. x \in Nat /\ x # 0
  OBVIOUS
<1>5. x - 1 \in Nat /\ x - 1 \notin T
  <2>1. x - 1 \in Nat
    BY <1>4
  <2>2. <<x - 1, x>> \in L
    BY <1>4, <2>1 DEF OpToRel
  <2> QED BY <2>1, <2>2, <1>3
<1>6. x \in S
  <2>1. x - 1 \in S
    BY <1>5
  <2>2. x = (x - 1) + 1
    BY <1>4
  <2> QED BY <1>5, <2>1, <2>2
<1> QED BY <1>6

LEMMA OnlyUnfolds ==
  ASSUME NEW s, NEW S, Len(s) \in Nat
  PROVE  \E f : /\ Only(s, S) = f[Len(s)]
                /\ f = [k \in 0 .. Len(s) |->
                          IF k = 0
                          THEN <<>>
                          ELSE IF s[k] \in S THEN Append(f[k - 1], s[k]) ELSE f[k - 1]]
<1> DEFINE Turn(k, x) == IF s[k] \in S THEN Append(x, s[k]) ELSE x
           Is(h, n) == h = [k \in 0 .. n |-> IF k = 0 THEN <<>> ELSE Turn(k, h[k - 1])]
           Has == {n \in Nat : \E h : Is(h, n)}
<1>1. 0 \in Has
  <2>1. Is([k \in 0 .. 0 |-> <<>>], 0)
    OBVIOUS
  <2> QED BY <2>1
<1>2. ASSUME NEW n \in Nat, n \in Has
      PROVE  n + 1 \in Has
  <2> HIDE DEF Turn
  <2>1. PICK f : Is(f, n)
    BY <1>2
  <2> DEFINE g == [k \in 0 .. n + 1 |-> IF k <= n THEN f[k] ELSE Turn(k, f[n])]
  <2>2. ASSUME NEW k \in 0 .. n + 1
        PROVE  g[k] = IF k = 0 THEN <<>> ELSE Turn(k, g[k - 1])
    <3>1. CASE k = 0
      BY <3>1, <2>1
    <3>2. CASE k \in 1 .. n
      <4>1. g[k] = f[k] /\ g[k - 1] = f[k - 1]
        BY <3>2
      <4>2. f[k] = Turn(k, f[k - 1])
        BY <3>2, <2>1
      <4> QED BY <4>1, <4>2, <3>2
    <3>3. CASE k = n + 1
      <4>1. g[k] = Turn(k, f[n]) /\ g[k - 1] = f[n]
        BY <3>3
      <4> QED BY <4>1, <3>3
    <3> QED BY <3>1, <3>2, <3>3
  <2>3. g = [k \in 0 .. n + 1 |-> IF k = 0 THEN <<>> ELSE Turn(k, g[k - 1])]
    <3>1. g = [k \in 0 .. n + 1 |-> g[k]]
      OBVIOUS
    <3> HIDE DEF g
    <3> QED BY <3>1, <2>2
  <2>4. Is(g, n + 1)
    BY <2>3
  <2> HIDE DEF g, Is
  <2> QED BY <2>4, <1>2
<1>3. Len(s) \in Has
  <2> HIDE DEF Has
  <2> QED BY <1>1, <1>2, Induction
<1>4. PICK f : Is(f, Len(s))
  BY <1>3
<1> DEFINE Upto == CHOOSE h : Is(h, Len(s))
<1>5. Only(s, S) = Upto[Len(s)]
  BY Zenon DEF Only
<1>6. Is(Upto, Len(s))
  <2> HIDE DEF Is
  <2> QED BY <1>4
<1> QED BY <1>5, <1>6

(* Only keeps the elements of S and nothing else, and what told the        *)
(* elements of s apart tells those of the result apart.                    *)
LEMMA OnlyFacts ==
  ASSUME NEW T, NEW s \in Seq(T), NEW S, NEW f
  PROVE  /\ Only(s, S) \in Seq(T)
         /\ Len(Only(s, S)) <= Len(s)
         /\ Range(Only(s, S)) = Range(s) \cap S
         /\ (\A j, k \in DOMAIN s : f[s[j]] = f[s[k]] => j = k) =>
              \A j, k \in DOMAIN Only(s, S) : f[Only(s, S)[j]] = f[Only(s, S)[k]] => j = k
<1>1. Len(s) \in Nat /\ DOMAIN s = 1 .. Len(s) /\ \A k \in DOMAIN s : s[k] \in T
  OBVIOUS
<1>2. PICK u : /\ Only(s, S) = u[Len(s)]
               /\ u = [k \in 0 .. Len(s) |->
                         IF k = 0
                         THEN <<>>
                         ELSE IF s[k] \in S THEN Append(u[k - 1], s[k]) ELSE u[k - 1]]
  BY ZenonT(40), <1>1, OnlyUnfolds
<1> DEFINE Apart(n) == \A j, k \in 1 .. n : f[s[j]] = f[s[k]] => j = k
           Good(n, t) ==
             /\ t \in Seq(T)
             /\ Len(t) <= n
             /\ Range(t) = {s[k] : k \in 1 .. n} \cap S
             /\ Apart(n) => \A j, k \in DOMAIN t : f[t[j]] = f[t[k]] => j = k
           Fine == {n \in Nat : n <= Len(s) => Good(n, u[n])}
<1>3. 0 \in Fine
  <2>1. u[0] = <<>>
    BY <1>1, <1>2
  <2>2. Good(0, <<>>)
    BY DEF Range
  <2> QED BY <2>1, <2>2
<1>4. ASSUME NEW n \in Nat, n \in Fine
      PROVE  n + 1 \in Fine
  <2>1. SUFFICES ASSUME n + 1 <= Len(s)
                 PROVE  Good(n + 1, u[n + 1])
    OBVIOUS
  <2> DEFINE t == u[n]
             x == s[n + 1]
  <2>2. Good(n, t) /\ x \in T
    BY <1>1, <1>4, <2>1
  <2>3. u[n + 1] = IF x \in S THEN Append(t, x) ELSE t
    <3>1. n + 1 \in 0 .. Len(s) /\ n + 1 # 0 /\ (n + 1) - 1 = n
      BY <1>1, <2>1
    <3> QED BY <1>2, <3>1
  <2>4. {s[k] : k \in 1 .. n + 1} = {s[k] : k \in 1 .. n} \cup {x}
    <3>1. 1 .. n + 1 = (1 .. n) \cup {n + 1}
      OBVIOUS
    <3> QED BY <3>1
  <2> HIDE DEF t
  <2>5. CASE x \in S
    <3> DEFINE v == Append(t, x)
    <3>1. /\ v \in Seq(T) /\ Len(v) = Len(t) + 1 /\ Len(t) \in Nat
          /\ DOMAIN v = 1 .. Len(t) + 1 /\ DOMAIN t = 1 .. Len(t)
          /\ v[Len(t) + 1] = x /\ \A k \in DOMAIN t : v[k] = t[k]
      BY <2>2
    <3> HIDE DEF v, x
    <3>2. Range(v) = Range(t) \cup {x}
      BY <3>1 DEF Range
    <3>3. Range(v) = {s[k] : k \in 1 .. n + 1} \cap S
      BY <2>2, <2>4, <2>5, <3>2
    <3>4. ASSUME Apart(n + 1), NEW j \in DOMAIN v, NEW k \in DOMAIN v, f[v[j]] = f[v[k]]
          PROVE  j = k
      <4>1. \A i \in 1 .. n : f[s[i]] # f[s[n + 1]]
        BY <3>4
      <4>2. \A i \in DOMAIN t : f[t[i]] # f[x]
        <5>1. \A i \in DOMAIN t : \E l \in 1 .. n : t[i] = s[l]
          BY <2>2 DEF Range
        <5> QED BY <4>1, <5>1 DEF x
      <4>3. Apart(n)
        BY <3>4
      <4>4. \A i, l \in DOMAIN t : f[t[i]] = f[t[l]] => i = l
        BY <2>2, <4>3
      <4> HIDE DEF Apart, Good
      <4> QED BY <3>1, <3>4, <4>2, <4>4
    <3>5. Len(v) <= n + 1
      BY <2>2, <3>1
    <3>6. Good(n + 1, v)
      BY <3>1, <3>3, <3>4, <3>5
    <3> QED BY <2>3, <2>5, <3>6 DEF v
  <2>6. CASE x \notin S
    <3>1. u[n + 1] = t
      BY <2>3, <2>6
    <3>2. {s[k] : k \in 1 .. n + 1} \cap S = {s[k] : k \in 1 .. n} \cap S
      BY <2>4, <2>6
    <3>3. Apart(n + 1) => Apart(n)
      OBVIOUS
    <3> HIDE DEF Apart
    <3> QED BY <2>2, <3>1, <3>2, <3>3
  <2> QED BY <2>5, <2>6
<1>5. Good(Len(s), u[Len(s)])
  <2> HIDE DEF Good
  <2>1. Len(s) \in Fine
    <3> HIDE DEF Fine
    <3> QED BY <1>1, <1>3, <1>4, Induction
  <2> QED BY <1>1, <2>1
<1>6. Range(s) = {s[k] : k \in 1 .. Len(s)}
  BY <1>1 DEF Range
<1> QED BY <1>1, <1>2, <1>5, <1>6

LEMMA SeqFromValues ==
  ASSUME NEW T, NEW n \in Nat, NEW s, s = [i \in 1 .. n |-> s[i]], \A i \in 1 .. n : s[i] \in T
  PROVE  s \in Seq(T) /\ Len(s) = n /\ DOMAIN s = 1 .. n
OBVIOUS

LEMMA Appended ==
  ASSUME NEW T, NEW s \in Seq(T), NEW x \in T
  PROVE  /\ Append(s, x) \in Seq(T) /\ Len(Append(s, x)) = Len(s) + 1 /\ Len(s) \in Nat
         /\ DOMAIN s = 1 .. Len(s) /\ DOMAIN Append(s, x) = 1 .. Len(s) + 1
         /\ Append(s, x)[Len(s) + 1] = x
         /\ \A i \in DOMAIN s : Append(s, x)[i] = s[i]
         /\ \A i \in DOMAIN Append(s, x) :
              \/ i \in DOMAIN s /\ Append(s, x)[i] = s[i]
              \/ i = Len(s) + 1 /\ Append(s, x)[i] = x
OBVIOUS

LEMMA SequenceIsFinite ==
  ASSUME NEW T, NEW s \in Seq(T)
  PROVE  IsFiniteSet(Range(s)) /\ Cardinality(Range(s)) <= Len(s)
<1>1. Len(s) \in Nat /\ DOMAIN s = 1 .. Len(s)
  OBVIOUS
<1>2. IsFiniteSet(1 .. Len(s)) /\ Cardinality(1 .. Len(s)) = Len(s)
  BY SMTT(30), <1>1, FS_Interval
<1>3. s \in Surjection(1 .. Len(s), Range(s))
  <2>1. s \in [1 .. Len(s) -> Range(s)]
    BY <1>1 DEF Range
  <2> QED BY <1>1, <2>1 DEF Surjection, Range
<1> QED BY <1>2, <1>3, FS_Surjection

LEMMA DisjointUnion ==
  ASSUME NEW S, NEW T, IsFiniteSet(S), IsFiniteSet(T), \A x \in S : x \notin T
  PROVE  /\ IsFiniteSet(S \cup T)
         /\ Cardinality(S \cup T) = Cardinality(S) + Cardinality(T)
<1>1. S \cap T = {}
  OBVIOUS
<1>2. /\ Cardinality(S \cup T) = Cardinality(S) + Cardinality(T) - Cardinality(S \cap T)
      /\ IsFiniteSet(S \cup T)
  BY FS_Union
<1>3. Cardinality(S \cap T) = 0 /\ Cardinality(S) \in Nat /\ Cardinality(T) \in Nat
  BY <1>1, FS_EmptySet, FS_CardinalityType
<1> QED BY <1>2, <1>3

\* Requests with different chunks have no block in common.
LEMMA BlocksApart ==
  ASSUME NEW S, NEW T, \A r \in S, t \in T : r.id # t.id
  PROVE  \A x \in BlocksOf(S) : x \notin BlocksOf(T)
BY DEF BlocksOf, OwnBlocks

LEMMA BlocksOfUnion ==
  ASSUME NEW S, NEW T
  PROVE  BlocksOf(S \cup T) = BlocksOf(S) \cup BlocksOf(T)
BY DEF BlocksOf

LEMMA BlocksOfOne ==
  ASSUME NEW r
  PROVE  BlocksOf({r}) = OwnBlocks(r)
BY DEF BlocksOf

-----------------------------------------------------------------------------
(* The states.                                                             *)

Phases == {"Decoding", "Finished", "Failed"}

Outcomes == {"Finished", "Failed"}

ActiveRequest == [id : Chunks, past : Nat, own : Nat, outputs : Nat, waiting : BOOLEAN,
                  phase : Phases]

Candidate == [id : Nat, past : Nat, own : Nat]

TypeOK ==
  /\ kv \in {"slots", "budget", "dynamic", "chunked"}
  /\ cached \in {0, PrefixTokens}
  /\ kv = "slots" => cached = 0
  /\ pc \in {"admit", "prefill", "decode", "reap", "drain", "done"}
  /\ next \in 1 .. Len(Prompt) + 1
  /\ cand \in Candidate
  /\ active \in Seq(ActiveRequest)
  /\ free \in Nat
  /\ turn \in Nat \ {0}
  /\ inputs \in SUBSET Nat
  /\ round \in {"usual", "idle", "last"}
  /\ admitted \in BOOLEAN
  /\ answers \in [Chunks -> Seq(Outcomes)]

DistinctIds(s) == \A j, k \in DOMAIN s : s[j].id = s[k].id => j = k

Places ==
  /\ pc # "prefill" => cand = NoCand
  /\ pc = "prefill" => cand.id = next /\ next <= Len(Prompt) /\ Prompt[next] > 0
  /\ DistinctIds(active)
  /\ \A i \in DOMAIN active : active[i].id < next /\ answers[active[i].id] = <<>>
  /\ \A c \in Chunks : c >= next => answers[c] = <<>>
  /\ round = "last" /\ ~admitted /\ pc \in {"admit", "prefill"} => active = <<>>
  /\ pc \in {"drain", "done"} => active = <<>>

OnDemand == kv \in {"dynamic", "chunked"}

\* The blocks of r cover its rows, or its budget.
Covered(r) ==
  /\ OnDemand => r.past <= TableSize(r) * BlockSize
  /\ kv = "budget" => Budget(r.id) <= TableSize(r) * BlockSize

RequestOK(r) ==
  /\ r.past <= Prompt[r.id] + r.outputs
  /\ r.outputs <= MaxTokens
  /\ Covered(r)

Rows == \A i \in DOMAIN active : RequestOK(active[i])

\* Its last output has a row, in the context and in a block on demand.
HasRow(r) ==
  /\ r.past < CtxSize /\ r.past < Prompt[r.id] + r.outputs
  /\ OnDemand => r.past < TableSize(r) * BlockSize

Turns ==
  /\ pc \notin {"decode", "reap"} =>
       turn = 1 /\ inputs = {} /\ \A i \in DOMAIN active : active[i].phase = "Decoding"
  /\ pc = "decode" =>
       /\ \A i \in inputs : i < turn
       /\ inputs \subseteq DOMAIN active
       /\ \A i \in DOMAIN active :
            /\ active[i].phase # "Failed"
            /\ i >= turn => active[i].phase = "Decoding"
            /\ i \in inputs => /\ active[i].phase = "Decoding" /\ ~active[i].waiting
                              /\ HasRow(active[i])
            /\ i < turn /\ i \notin inputs /\ active[i].phase = "Decoding" =>
                 active[i].waiting /\ free = 0 /\ OnDemand

State == TypeOK /\ Places /\ Rows /\ Turns

-----------------------------------------------------------------------------
(* What the operators return.                                              *)

LEMMA Numbers ==
  /\ BatchSize \in Nat \ {0} /\ MaxTokens \in Nat \ {0} /\ CtxSize \in Nat \ {0}
  /\ ChunkTokens \in Nat \ {0} /\ BlockSize \in Nat \ {0}
  /\ PrefixTokens \in Nat /\ NumBlocks \in Nat
  /\ Len(Prompt) \in Nat /\ Chunks = 1 .. Len(Prompt)
  /\ \A c \in Chunks : Prompt[c] \in Nat /\ Estimate[c] \in Nat
  /\ \A c \in Chunks : Prompt[c] > 0 => Prompt[c] > PrefixTokens
BY ChunksAssumption, SizesAssumption DEF Chunks

(* The blocks for n rows are as many as cover them.                        *)
LEMMA BlocksCover ==
  ASSUME NEW n \in Nat
  PROVE  /\ BlocksFor(n) \in Nat
         /\ \A t \in Nat : BlocksFor(n) <= t <=> n <= t * BlockSize
<1> DEFINE q == (n + BlockSize - 1) \div BlockSize
           r == (n + BlockSize - 1) % BlockSize
<1>1. PICK b \in Nat \ {0} : b = BlockSize
  BY Numbers
<1>2. q \in Nat /\ r \in 0 .. b - 1 /\ n + b - 1 = b * q + r
  BY <1>1
<1>3. BlocksFor(n) = q
  BY DEF BlocksFor
<1> HIDE DEF q, r
<1>4. ASSUME NEW t \in Nat
      PROVE  q <= t <=> n <= t * b
  <2>1. CASE q <= t
    <3>1. PICK d \in Nat : t = q + d
      BY <1>2, <2>1
    <3>2. t * b = b * q + d * b /\ d * b >= 0
      BY <1>2, <3>1
    <3> QED BY <1>2, <2>1, <3>2
  <2>2. CASE q > t
    <3>1. PICK d \in Nat : q = t + 1 + d
      BY <1>2, <2>2
    <3>2. b * q = t * b + b + d * b /\ d * b >= 0
      BY <1>2, <3>1
    <3> QED BY <1>2, <2>2, <3>2
  <2> QED BY <1>2, <2>1, <2>2
<1> QED BY <1>1, <1>2, <1>3, <1>4

LEMMA PrefixFits ==
  ASSUME NEW n \in {0, PrefixTokens}
  PROVE  BlocksFor(n) \in Nat /\ BlocksFor(n) <= NumBlocks /\ n \in Nat
<1>1. n \in Nat /\ BlocksFor(n) \in Nat /\ NumBlocks \in Nat
  BY Numbers, BlocksCover
<1>2. CASE n = 0
  <2>1. 0 <= NumBlocks * BlockSize
    <3>1. PICK b \in Nat, m \in Nat : b = BlockSize /\ m = NumBlocks
      BY Numbers
    <3>2. m * b >= 0
      OBVIOUS
    <3> QED BY <3>1, <3>2
  <2> QED BY <1>1, <1>2, <2>1, BlocksCover
<1> QED BY <1>1, <1>2, PrefixAssumption

LEMMA TableTyped ==
  ASSUME NEW r, r.own \in Nat, TypeOK
  PROVE  /\ TableSize(r) \in Nat /\ TableSize(r) * BlockSize \in Nat
         /\ cached \in Nat /\ PartialRows \in Nat
         /\ TableSize(r) = cached \div BlockSize + r.own /\ cached \div BlockSize \in Nat
<1>1. cached \in Nat /\ BlockSize \in Nat \ {0}
  BY Numbers DEF TypeOK
<1>2. cached \div BlockSize \in Nat /\ PartialRows \in Nat
  BY <1>1 DEF PartialRows
<1>3. TableSize(r) \in Nat
  BY <1>2 DEF TableSize
<1>4. PICK t \in Nat, b \in Nat : t = TableSize(r) /\ b = BlockSize
  BY <1>1, <1>3
<1>5. t * b \in Nat
  OBVIOUS
<1> QED BY <1>1, <1>2, <1>3, <1>4, <1>5 DEF TableSize

LEMMA BudgetTyped ==
  ASSUME NEW c \in Chunks
  PROVE  Budget(c) \in Nat
BY Numbers DEF Budget, SmallerOf

LEMMA ActiveTyped ==
  ASSUME TypeOK, NEW i \in DOMAIN active
  PROVE  /\ active[i] \in ActiveRequest /\ active[i].id \in Chunks /\ active[i].id \in Nat
         /\ active[i].past \in Nat /\ active[i].own \in Nat /\ active[i].outputs \in Nat
         /\ active[i].waiting \in BOOLEAN /\ active[i].phase \in Phases
<1>1. active[i] \in ActiveRequest
  BY DEF TypeOK
<1> QED BY <1>1, Numbers DEF ActiveRequest

(* The blocks acquired at once are those required, and the copy.           *)
LEMMA ExtraTyped ==
  ASSUME TypeOK, NEW c \in Chunks
  PROVE  /\ Extra(c) \in Nat
         /\ PartialRows > 0 => Extra(c) >= 1
<1>1. Required(c, Prompt[c]) \in Nat
  BY BlocksCover, BudgetTyped, Numbers DEF Required
<1>2. BlocksFor(cached) \in Nat
  BY PrefixFits DEF TypeOK
<1>3. LargerOf(0, Required(c, Prompt[c]) - BlocksFor(cached)) \in Nat
  BY <1>1, <1>2 DEF LargerOf
<1>4. PartialRows \in Nat
  BY Numbers DEF TypeOK, PartialRows
<1> QED BY <1>3, <1>4 DEF Extra

(* What a prefill leads to, and the blocks it takes.                       *)
LEMMA PrefillTyped ==
  ASSUME TypeOK, Places, pc = "prefill"
  PROVE  /\ cand.id = next /\ next \in Chunks /\ cand.past \in Nat /\ cand.own \in Nat
         /\ Prompt[next] \in Nat
         /\ PrefillEnd \in Nat /\ PrefillEnd <= Prompt[next]
         /\ Grown \in Nat
         /\ kv # "slots" => Required(next, PrefillEnd) <= TableSize(cand) + Grown
<1>1. cand.id = next /\ next \in Chunks /\ cand.past \in Nat /\ cand.own \in Nat
      /\ Prompt[next] \in Nat
  BY Numbers DEF TypeOK, Places, Candidate
<1>2. PrefillEnd \in Nat /\ PrefillEnd <= Prompt[next]
  BY <1>1, Numbers DEF PrefillEnd, SmallerOf
<1>3. Required(next, PrefillEnd) \in Nat
  BY <1>1, <1>2, BlocksCover, BudgetTyped DEF Required
<1>4. TableSize(cand) \in Nat
  BY <1>1, TableTyped
<1>5. Grown \in Nat /\ (kv # "slots" => Required(next, PrefillEnd) <= TableSize(cand) + Grown)
  BY <1>1, <1>3, <1>4 DEF Grown, LargerOf
<1> QED BY <1>1, <1>2, <1>5

LEMMA OwnBlocksFinite ==
  ASSUME NEW r, r.own \in Nat
  PROVE  /\ IsFiniteSet(OwnBlocks(r))
         /\ Cardinality(OwnBlocks(r)) = r.own
<1> DEFINE I == 1 .. r.own
           f == [n \in I |-> <<r.id, n>>]
<1>1. IsFiniteSet(I) /\ Cardinality(I) = r.own
  BY FS_Interval
<1>2. f \in Bijection(I, OwnBlocks(r))
  BY DEF OwnBlocks, Bijection, Injection, Surjection, IsInjective
<1> HIDE DEF I
<1> QED BY <1>1, <1>2, FS_Bijection DEF ExistsBijection

LEMMA Emitted ==
  ASSUME NEW a \in [Chunks -> Seq(Outcomes)], NEW o, DOMAIN o \subseteq Chunks,
         \A c \in DOMAIN o : o[c] \in Outcomes,
         NEW b, b = [c \in Chunks |-> IF c \in DOMAIN o THEN Append(a[c], o[c]) ELSE a[c]]
  PROVE  /\ b \in [Chunks -> Seq(Outcomes)]
         /\ \A c \in Chunks :
              IF c \in DOMAIN o THEN Len(b[c]) = Len(a[c]) + 1 ELSE b[c] = a[c]
<1>1. \A c \in Chunks : a[c] \in Seq(Outcomes) /\ Len(a[c]) \in Nat
  OBVIOUS
<1>2. ASSUME NEW c \in Chunks
      PROVE  /\ b[c] \in Seq(Outcomes)
             /\ IF c \in DOMAIN o THEN Len(b[c]) = Len(a[c]) + 1 ELSE b[c] = a[c]
  <2>1. CASE c \in DOMAIN o
    <3>1. b[c] = Append(a[c], o[c])
      BY <2>1
    <3> QED BY <1>1, <2>1, <3>1
  <2>2. CASE c \notin DOMAIN o
    <3>1. b[c] = a[c]
      BY <2>2
    <3> QED BY <1>1, <2>2, <3>1
  <2> QED BY <2>1, <2>2
<1>3. b = [c \in Chunks |-> b[c]]
  OBVIOUS
<1> QED BY ONLY <1>2, <1>3

LEMMA BlocksFinite ==
  ASSUME NEW S \in SUBSET ActiveRequest, IsFiniteSet(S)
  PROVE  IsFiniteSet(BlocksOf(S)) /\ Cardinality(BlocksOf(S)) \in Nat
<1> DEFINE F == {OwnBlocks(r) : r \in S}
           f == [r \in S |-> OwnBlocks(r)]
<1>1. IsFiniteSet(F)
  <2>1. f \in Surjection(S, F)
    BY DEF Surjection
  <2> HIDE DEF f
  <2> QED BY <2>1, FS_Surjection
<1>2. \A B \in F : IsFiniteSet(B)
  BY OwnBlocksFinite DEF ActiveRequest
<1>3. BlocksOf(S) = UNION F
  BY DEF BlocksOf
<1> HIDE DEF F
<1> QED BY <1>1, <1>2, <1>3, FS_UNION, FS_CardinalityType

LEMMA ActiveBlocksFinite ==
  ASSUME NEW a \in Seq(ActiveRequest), NEW S \in SUBSET Range(a)
  PROVE  IsFiniteSet(BlocksOf(S)) /\ Cardinality(BlocksOf(S)) \in Nat
<1>1. Range(a) \subseteq ActiveRequest
  BY DEF Range
<1>2. IsFiniteSet(S)
  BY SequenceIsFinite, FS_Subset
<1> QED BY <1>1, <1>2, BlocksFinite

LEMMA OneElement ==
  ASSUME NEW T, NEW t \in Seq(T), Len(t) = 1
  PROVE  t = <<t[1]>>
<1>1. t[1] \in T
  OBVIOUS
<1>2. PICK u \in Seq(T) : u = <<t[1]>>
  BY <1>1
<1>3. Len(u) = Len(t) /\ \A i \in 1 .. Len(t) : t[i] = u[i]
  BY <1>1, <1>2
<1>4. t = [i \in 1 .. Len(t) |-> t[i]] /\ u = [i \in 1 .. Len(u) |-> u[i]]
  OBVIOUS
<1> QED BY <1>2, <1>3, <1>4

-----------------------------------------------------------------------------
(* Types, places, rows and turns.                                          *)

LEMMA StateInit ==
  ASSUME Init
  PROVE  State
<1>1. /\ active = <<>> /\ DOMAIN <<>> = {} /\ <<>> \in Seq(ActiveRequest)
      /\ kv \in {"slots", "budget", "dynamic", "chunked"}
      /\ cached \in {0, PrefixTokens} /\ (kv = "slots" => cached = 0)
      /\ next = 1 /\ pc = "admit" /\ turn = 1 /\ inputs = {} /\ round = "usual"
      /\ admitted = FALSE /\ cand = NoCand
  BY SizesAssumption DEF Init
<1>2. free \in Nat
  <2>1. BlocksFor(cached) \in Nat /\ BlocksFor(cached) <= NumBlocks
    BY PrefixFits DEF Init
  <2> QED BY <2>1, Numbers DEF Init
<1>3. NoCand \in Candidate
  BY DEF NoCand, Candidate
<1>4. answers \in [Chunks -> Seq(Outcomes)] /\ \A c \in Chunks : answers[c] = <<>>
  BY DEF Init
<1>5. TypeOK
  <2>1. next \in 1 .. Len(Prompt) + 1 /\ turn \in Nat \ {0} /\ inputs \in SUBSET Nat
    BY <1>1, Numbers
  <2>2. admitted \in BOOLEAN /\ active \in Seq(ActiveRequest) /\ cand \in Candidate
    BY <1>1, <1>3
  <2> QED BY <1>1, <1>2, <1>4, <2>1, <2>2 DEF TypeOK
<1>6. Places
  BY <1>1, <1>4 DEF Init, Places, DistinctIds
<1>7. Rows /\ Turns
  BY <1>1 DEF Init, Rows, Turns
<1> QED BY <1>5, <1>6, <1>7 DEF State

\* The requests stay as they are.
LEMMA RowsStay ==
  ASSUME Rows, UNCHANGED <<kv, cached, active>>
  PROVE  Rows'
BY DEF Rows, RequestOK, Covered, OnDemand, TableSize

LEMMA RequestStays ==
  ASSUME NEW r, RequestOK(r), UNCHANGED <<kv, cached>>
  PROVE  RequestOK(r)'
BY DEF RequestOK, Covered, OnDemand, TableSize

(* The next chunk fails in its admission.                                  *)
LEMMA ChunkFailed ==
  ASSUME State, next \in Chunks, NEW n, ChunkFails(n)
  PROVE  /\ answers' \in [Chunks -> Seq(Outcomes)]
         /\ \A c \in Chunks : IF c = next THEN Len(answers'[c]) = Len(answers[c]) + 1
                                          ELSE answers'[c] = answers[c]
<1> DEFINE o == [c \in {next} |-> "Failed"]
<1>1. answers' = [c \in Chunks |-> IF c \in DOMAIN o THEN Append(answers[c], o[c])
                                                     ELSE answers[c]]
  BY DEF ChunkFails, Emit
<1>2. DOMAIN o = {next} /\ \A c \in DOMAIN o : o[c] \in Outcomes
  BY DEF Outcomes
<1> HIDE DEF o
<1>3. answers \in [Chunks -> Seq(Outcomes)]
  BY DEF State, TypeOK
<1>4. /\ answers' \in [Chunks -> Seq(Outcomes)]
      /\ \A c \in Chunks : IF c \in DOMAIN o THEN Len(answers'[c]) = Len(answers[c]) + 1
                                             ELSE answers'[c] = answers[c]
  BY <1>1, <1>2, <1>3, Emitted
<1> QED BY <1>2, <1>4

LEMMA ChunkFailsKeepsState ==
  ASSUME State, next \in Chunks, pc \in {"admit", "prefill"},
         NEW n \in Nat, ChunkFails(n), hinted' = hinted \/ Observe
  PROVE  State'
<1>1. /\ next' = next + 1 /\ free' = free + n /\ cand' = NoCand /\ pc' = "admit"
      /\ admitted' = TRUE /\ UNCHANGED <<kv, cached, active, turn, inputs, round>>
  BY DEF ChunkFails
<1>2. /\ answers' \in [Chunks -> Seq(Outcomes)]
      /\ \A c \in Chunks : c # next => answers'[c] = answers[c]
  BY ChunkFailed
<1>3. TypeOK'
  <2>1. NoCand \in Candidate
    BY DEF NoCand, Candidate
  <2> QED BY <1>1, <1>2, <2>1, Numbers DEF State, TypeOK
<1>4. Places'
  <2>1. DistinctIds(active')
    BY <1>1 DEF State, Places
  <2>2. \A i \in DOMAIN active' : active'[i].id < next' /\ answers'[active'[i].id] = <<>>
    <3>1. SUFFICES ASSUME NEW i \in DOMAIN active
                   PROVE  active[i].id < next' /\ answers'[active[i].id] = <<>>
      BY <1>1
    <3>2. active[i].id < next /\ answers[active[i].id] = <<>> /\ active[i].id \in Chunks
          /\ active[i].id \in Nat /\ next \in Nat
      BY ActiveTyped, Numbers DEF State, Places
    <3> QED BY <1>1, <1>2, <3>2
  <2>3. \A c \in Chunks : c >= next' => answers'[c] = <<>>
    <3>1. SUFFICES ASSUME NEW c \in Chunks, c >= next'
                   PROVE  answers'[c] = <<>>
      OBVIOUS
    <3>2. c >= next /\ c # next
      BY <1>1, <3>1, Numbers
    <3> QED BY <1>2, <3>2 DEF State, Places
  <2> QED BY <1>1, <2>1, <2>2, <2>3 DEF Places
<1>5. Rows'
  BY <1>1, RowsStay DEF State
<1>6. Turns'
  BY <1>1 DEF State, Turns
<1> QED BY <1>3, <1>4, <1>5, <1>6 DEF State

LEMMA NextIsChunk ==
  ASSUME TypeOK, next <= Len(Prompt)
  PROVE  next \in Chunks /\ next \in Nat
BY Numbers DEF TypeOK

LEMMA AdmissionFailsKeepsState ==
  ASSUME State, NoAudio \/ FrontendFails \/ CopyFails \/ PrefillFails
  PROVE  State'
<1>1. CASE NoAudio \/ FrontendFails \/ CopyFails
  <2>1. next \in Chunks /\ pc = "admit" /\ ChunkFails(0) /\ (hinted' = hinted \/ Observe)
    BY <1>1, NextIsChunk DEF State, NoAudio, FrontendFails, CopyFails, MayAdmit
  <2> QED BY <2>1, ChunkFailsKeepsState
<1>2. CASE PrefillFails
  <2>1. pc = "prefill" /\ ChunkFails(cand.own) /\ hinted' = hinted
    BY <1>2 DEF PrefillFails
  <2>2. next \in Chunks /\ cand.own \in Nat
    BY <2>1, PrefillTyped DEF State
  <2> QED BY <2>1, <2>2, ChunkFailsKeepsState
<1> QED BY <1>1, <1>2

LEMMA BeginPrefillKeepsState ==
  ASSUME State, BeginPrefill
  PROVE  State'
<1> DEFINE own == IF Prepares THEN (IF PartialRows > 0 THEN 1 ELSE 0) ELSE Extra(next)
<1>1. /\ next <= Len(Prompt) /\ Prompt[next] > 0 /\ free >= Extra(next) /\ pc = "admit"
      /\ cand' = [id |-> next, past |-> cached, own |-> own] /\ free' = free - own
      /\ pc' = "prefill"
      /\ UNCHANGED <<kv, cached, next, active, turn, inputs, round, admitted, answers>>
  BY DEF BeginPrefill, MayAdmit
<1>2. /\ own \in Nat /\ own <= Extra(next) /\ Extra(next) \in Nat /\ next \in Chunks
      /\ next \in Nat /\ cached \in Nat /\ free \in Nat
  <2>1. next \in Chunks /\ next \in Nat
    BY <1>1, NextIsChunk DEF State
  <2>2. Extra(next) \in Nat /\ (PartialRows > 0 => Extra(next) >= 1)
    BY <2>1, ExtraTyped DEF State
  <2> QED BY <2>1, <2>2, Numbers DEF State, TypeOK
<1> HIDE DEF own
<1>3. TypeOK'
  <2>1. cand' \in Candidate /\ free' \in Nat
    BY <1>1, <1>2 DEF Candidate
  <2> QED BY <1>1, <2>1 DEF State, TypeOK
<1>4. Places'
  <2>1. cand'.id = next
    BY <1>1
  <2> QED BY <1>1, <2>1 DEF State, Places
<1>5. Rows'
  BY <1>1, RowsStay DEF State
<1>6. Turns'
  BY <1>1 DEF State, Turns
<1> QED BY <1>3, <1>4, <1>5, <1>6 DEF State

\* The blocks a prefill ends with cover its rows.
LEMMA PrefillCovers ==
  ASSUME State, pc = "prefill", NEW r, r.id = next, r.own = cand.own + Grown,
         r.past = PrefillEnd
  PROVE  Covered(r)
<1>1. /\ cand.own \in Nat /\ PrefillEnd \in Nat /\ Grown \in Nat /\ next \in Chunks
      /\ kv # "slots" => Required(next, PrefillEnd) <= TableSize(cand) + Grown
  BY PrefillTyped DEF State
<1>2. TableSize(r) = TableSize(cand) + Grown /\ TableSize(r) \in Nat
  <2>1. /\ TableSize(r) = cached \div BlockSize + r.own /\ TableSize(r) \in Nat
        /\ TableSize(cand) = cached \div BlockSize + cand.own
        /\ cached \div BlockSize \in Nat
    BY <1>1, TableTyped DEF State
  <2> QED BY <1>1, <2>1
<1>3. OnDemand => r.past <= TableSize(r) * BlockSize
  <2>1. SUFFICES ASSUME OnDemand
                 PROVE  PrefillEnd <= TableSize(r) * BlockSize
    OBVIOUS
  <2>2. BlocksFor(PrefillEnd) <= TableSize(r)
    BY <1>1, <1>2, <2>1 DEF OnDemand, Required
  <2> QED BY <1>1, <1>2, <2>2, BlocksCover
<1>4. kv = "budget" => Budget(next) <= TableSize(r) * BlockSize
  <2>1. SUFFICES ASSUME kv = "budget"
                 PROVE  Budget(next) <= TableSize(r) * BlockSize
    OBVIOUS
  <2>2. BlocksFor(Budget(next)) <= TableSize(r)
    BY <1>1, <1>2, <2>1 DEF Required
  <2>3. Budget(next) \in Nat
    BY <1>1, BudgetTyped
  <2> QED BY <1>2, <2>2, <2>3, BlocksCover
<1> QED BY <1>3, <1>4 DEF Covered

(* A prefill goes on, or its request becomes active.                       *)
LEMMA Prefilled ==
  ASSUME State, Prefill
  PROVE  /\ free' = free - Grown /\ Grown \in Nat /\ cand.own \in Nat
         /\ UNCHANGED <<kv, cached, hinted, turn, inputs, round, answers>>
         /\ pc = "prefill" /\ free >= Grown /\ next \in Chunks
         /\ \/ /\ cand' = [cand EXCEPT !.past = PrefillEnd, !.own = @ + Grown]
               /\ cand'.own = cand.own + Grown /\ cand' \in Candidate /\ cand'.id = cand.id
               /\ UNCHANGED <<pc, next, active, admitted>>
            \/ \E r \in ActiveRequest :
                 /\ active' = Append(active, r)
                 /\ r.id = next /\ r.own = cand.own + Grown /\ RequestOK(r)
                 /\ r.phase = "Decoding"
                 /\ cand' = NoCand /\ next' = next + 1 /\ admitted' = TRUE /\ pc' = "admit"
<1>1. /\ cand.id = next /\ next \in Chunks /\ cand.past \in Nat /\ cand.own \in Nat
      /\ Prompt[next] \in Nat /\ next \in Nat
      /\ PrefillEnd \in Nat /\ PrefillEnd <= Prompt[next] /\ Grown \in Nat
  BY PrefillTyped, NextIsChunk, Numbers DEF State, Prefill
<1>2. /\ free' = free - Grown /\ free >= Grown /\ pc = "prefill"
      /\ UNCHANGED <<kv, cached, hinted, turn, inputs, round, answers>>
  BY DEF Prefill
<1>3. CASE PrefillEnd < Prompt[cand.id]
  <2>1. cand' = [cand EXCEPT !.past = PrefillEnd, !.own = @ + Grown]
        /\ UNCHANGED <<pc, next, active, admitted>>
    BY <1>3 DEF Prefill
  <2>2. cand \in Candidate
    BY DEF State, TypeOK
  <2>3. cand' \in Candidate /\ cand'.own = cand.own + Grown /\ cand'.id = cand.id
    <3>1. PICK p \in Nat, g \in Nat : p = PrefillEnd /\ g = Grown
      BY <1>1
    <3>2. PICK d \in Candidate : d = cand
      BY <2>2
    <3>3. cand' = [d EXCEPT !.past = p, !.own = @ + g]
      BY <2>1, <3>1, <3>2
    <3>4. [d EXCEPT !.past = p, !.own = @ + g] \in Candidate
      <4>1. PICK n \in Nat : n = d.own + g
        BY DEF Candidate
      <4>2. PICK e \in Candidate : e = [d EXCEPT !.past = p]
        BY DEF Candidate
      <4>3. [e EXCEPT !.own = n] \in Candidate
        BY DEF Candidate
      <4> QED BY <4>1, <4>2, <4>3
    <3>5. cand'.own = d.own + g /\ cand'.id = d.id
      BY <3>3 DEF Candidate
    <3> QED BY <3>1, <3>2, <3>3, <3>4, <3>5
  <2> QED BY <1>1, <1>2, <2>1, <2>3
<1>4. CASE ~(PrefillEnd < Prompt[cand.id])
  <2> DEFINE r == [id |-> cand.id, past |-> PrefillEnd, own |-> cand.own + Grown,
                   outputs |-> 0, waiting |-> FALSE, phase |-> "Decoding"]
  <2>1. /\ active' = Append(active, r) /\ cand' = NoCand /\ next' = next + 1
        /\ admitted' = TRUE /\ pc' = "admit"
    BY <1>4 DEF Prefill
  <2>2. /\ r \in ActiveRequest /\ r.id = next /\ r.own = cand.own + Grown
        /\ r.past = PrefillEnd /\ r.phase = "Decoding" /\ r.outputs = 0
    BY <1>1 DEF ActiveRequest, Phases
  <2> HIDE DEF r
  <2>3. Covered(r)
    BY <1>2, <2>2, PrefillCovers
  <2>4. RequestOK(r)
    BY <1>1, <2>2, <2>3, Numbers DEF RequestOK
  <2> QED BY <1>1, <1>2, <2>1, <2>2, <2>4
<1> QED BY <1>3, <1>4

LEMMA PrefillKeepsState ==
  ASSUME State, Prefill
  PROVE  State'
<1>1. /\ free' = free - Grown /\ Grown \in Nat /\ cand.own \in Nat
      /\ UNCHANGED <<kv, cached, hinted, turn, inputs, round, answers>>
      /\ pc = "prefill" /\ free >= Grown /\ next \in Chunks
  BY Prefilled
<1>2. free' \in Nat
  BY <1>1 DEF State, TypeOK
<1>3. CASE cand' \in Candidate /\ cand'.id = cand.id /\ UNCHANGED <<pc, next, active, admitted>>
  <2>1. TypeOK' /\ Places' /\ Turns'
    BY <1>1, <1>2, <1>3 DEF State, TypeOK, Places, Turns
  <2>2. Rows'
    BY <1>1, <1>3, RowsStay DEF State
  <2> QED BY <2>1, <2>2 DEF State
<1>4. ASSUME NEW r \in ActiveRequest, active' = Append(active, r), r.id = next, RequestOK(r),
             r.phase = "Decoding", cand' = NoCand, next' = next + 1, admitted' = TRUE,
             pc' = "admit"
      PROVE  State'
  <2>1. active \in Seq(ActiveRequest)
    BY DEF State, TypeOK
  <2>2. /\ active' \in Seq(ActiveRequest) /\ Len(active) \in Nat
        /\ DOMAIN active = 1 .. Len(active) /\ DOMAIN active' = 1 .. Len(active) + 1
        /\ active'[Len(active) + 1] = r
        /\ \A i \in DOMAIN active : active'[i] = active[i]
        /\ \A i \in DOMAIN active' : \/ i \in DOMAIN active /\ active'[i] = active[i]
                                     \/ i = Len(active) + 1 /\ active'[i] = r
    BY <1>4, <2>1, Appended
  <2>3. next \in Nat /\ next \in Chunks
    BY <1>1, Numbers
  <2>4. TypeOK'
    <3>1. NoCand \in Candidate
      BY DEF NoCand, Candidate
    <3> QED BY SMTT(30), <1>1, <1>2, <1>4, <2>2, <2>3, <3>1, Numbers DEF State, TypeOK
  <2>5. \A i \in DOMAIN active : active[i].id \in Nat /\ active[i].id < next
    BY ActiveTyped DEF State, Places
  <2>6. Places'
    <3>1. DistinctIds(active')
      <4>1. DistinctIds(active)
        BY DEF State, Places
      <4>2. \A i \in DOMAIN active : active[i].id # r.id
        BY <1>4, <2>3, <2>5
      <4> QED BY <2>2, <4>1, <4>2 DEF DistinctIds
    <3>2. \A i \in DOMAIN active' : active'[i].id < next' /\ answers'[active'[i].id] = <<>>
      <4>1. answers[next] = <<>>
        BY <2>3 DEF State, Places
      <4>2. \A i \in DOMAIN active : answers[active[i].id] = <<>>
        BY DEF State, Places
      <4>3. \A i \in DOMAIN active' : active'[i].id < next'
        BY <1>4, <2>2, <2>3, <2>5
      <4>4. \A i \in DOMAIN active' : answers'[active'[i].id] = <<>>
        BY <1>1, <1>4, <2>2, <4>1, <4>2
      <4> QED BY <4>3, <4>4
    <3>3. \A c \in Chunks : c >= next' => answers'[c] = <<>>
      <4>1. \A c \in Chunks : c >= next' => c >= next
        BY <1>4, <2>3, Numbers
      <4> QED BY <1>1, <4>1 DEF State, Places
    <3> QED BY <1>4, <3>1, <3>2, <3>3 DEF Places
  <2>7. Rows'
    <3>1. SUFFICES ASSUME NEW i \in DOMAIN active'
                   PROVE  RequestOK(active[i])'
      BY DEF Rows
    <3>2. PICK x \in ActiveRequest : x = active'[i]
      BY <2>2
    <3>3. RequestOK(x)
      <4>1. CASE i \in DOMAIN active
        <5>1. x = active[i]
          BY <2>2, <3>2, <4>1
        <5> QED BY <4>1, <5>1 DEF State, Rows
      <4>2. CASE x = r
        BY <1>4, <4>2
      <4> QED BY <2>2, <3>2, <4>1, <4>2
    <3>4. RequestOK(x)'
      BY <1>1, <3>3, RequestStays
    <3> QED BY <3>2, <3>4 DEF RequestOK, Covered, OnDemand, TableSize
  <2>8. Turns'
    <3>1. \A i \in DOMAIN active : active[i].phase = "Decoding"
      BY <1>1 DEF State, Turns
    <3>2. \A i \in DOMAIN active' : active'[i].phase = "Decoding"
      BY <1>4, <2>2, <3>1
    <3> QED BY <1>1, <1>4, <3>2 DEF State, Turns
  <2> QED BY <2>4, <2>6, <2>7, <2>8 DEF State
<1> QED BY <1>3, <1>4, Prefilled

LEMMA RoundEndsKeepsState ==
  ASSUME State, RoundEnds
  PROVE  State'
<1>1. /\ pc = "admit" /\ admitted' = FALSE /\ round' \in {"usual", "last"}
      /\ UNCHANGED <<kv, cached, next, cand, active, free, turn, inputs, answers>>
  BY DEF RoundEnds
<1>2. /\ pc' \in {"admit", "drain", "decode"}
      /\ pc' = "admit" => active = <<>>
      /\ pc' = "drain" => active = <<>>
  BY DEF RoundEnds, State, Places
<1>3. TypeOK'
  BY <1>1, <1>2 DEF State, TypeOK
<1>4. Places'
  BY <1>1, <1>2 DEF State, Places
<1>5. Rows'
  BY <1>1, RowsStay DEF State
<1>6. Turns'
  <2>1. turn = 1 /\ inputs = {} /\ \A i \in DOMAIN active : active[i].phase = "Decoding"
    BY <1>1 DEF State, Turns
  <2>2. \A i \in DOMAIN active : i >= 1
    BY DEF State, TypeOK
  <2>3. \A i \in DOMAIN active : ~(i < 1)
    BY <2>2 DEF State, TypeOK
  <2> QED BY <1>1, <1>2, <2>1, <2>3 DEF Turns
<1> QED BY <1>3, <1>4, <1>5, <1>6 DEF State

\* What stays when a request goes on as r.
LEMMA NextTurnFields ==
  ASSUME NEW r, NEW isInput, NextTurn(r, isInput)
  PROVE  /\ active' = [active EXCEPT ![turn] = r] /\ turn' = turn + 1
         /\ inputs' = IF isInput THEN inputs \cup {turn} ELSE inputs
         /\ UNCHANGED <<kv, cached, pc, next, cand, hinted, round, admitted, answers>>
BY DEF NextTurn

(* A request has had its turn and goes on as r.                            *)
LEMMA Turned ==
  ASSUME State, pc = "decode", turn <= Len(active),
         NEW r \in ActiveRequest, NEW isInput \in BOOLEAN, NextTurn(r, isInput),
         r.id = active[turn].id, RequestOK(r), r.phase # "Failed",
         isInput => r.phase = "Decoding" /\ ~r.waiting /\ HasRow(r),
         ~isInput /\ r.phase = "Decoding" => r.waiting /\ free' = 0 /\ OnDemand,
         free' \in Nat, free = 0 => free' = 0
  PROVE  /\ State'
         /\ turn \in DOMAIN active /\ DOMAIN active' = DOMAIN active
         /\ active' \in Seq(ActiveRequest) /\ active'[turn] = r
         /\ \A i \in DOMAIN active : i # turn => active'[i] = active[i]
<1>1. /\ active' = [active EXCEPT ![turn] = r] /\ turn' = turn + 1
      /\ inputs' = IF isInput THEN inputs \cup {turn} ELSE inputs
      /\ UNCHANGED <<kv, cached, pc, next, cand, hinted, round, admitted, answers>>
  BY NextTurnFields
<1>2. /\ active \in Seq(ActiveRequest) /\ Len(active) \in Nat /\ DOMAIN active = 1 .. Len(active)
      /\ turn \in Nat /\ turn >= 1 /\ turn \in DOMAIN active
  BY DEF State, TypeOK
<1>3. /\ active' \in Seq(ActiveRequest) /\ DOMAIN active' = DOMAIN active
      /\ active'[turn] = r /\ \A i \in DOMAIN active : i # turn => active'[i] = active[i]
  BY <1>1, <1>2
<1>4. \A i \in DOMAIN active : active'[i].id = active[i].id
  BY <1>3
<1>5. TypeOK'
  <2>1. turn' \in Nat \ {0} /\ inputs' \in SUBSET Nat
    BY <1>1, <1>2 DEF State, TypeOK
  <2> QED BY <1>1, <1>3, <2>1 DEF State, TypeOK
<1>6. Places'
  <2>1. DistinctIds(active')
    BY <1>3, <1>4 DEF State, Places, DistinctIds
  <2>2. \A i \in DOMAIN active' : active'[i].id < next' /\ answers'[active'[i].id] = <<>>
    BY <1>1, <1>3, <1>4 DEF State, Places
  <2> QED BY <1>1, <2>1, <2>2 DEF State, Places
<1>7. Rows'
  <2>1. SUFFICES ASSUME NEW i \in DOMAIN active
                 PROVE  RequestOK(active[i])'
    BY <1>3 DEF Rows
  <2>2. PICK x : x = active'[i]
    OBVIOUS
  <2>3. RequestOK(x)
    <3>1. CASE i = turn
      BY <1>3, <2>2, <3>1
    <3>2. CASE i # turn
      <4>1. x = active[i]
        BY <1>3, <2>2, <3>2
      <4> QED BY <4>1 DEF State, Rows
    <3> QED BY <3>1, <3>2
  <2>4. RequestOK(x)'
    BY <1>1, <2>3, RequestStays
  <2> QED BY <2>2, <2>4 DEF RequestOK, Covered, OnDemand, TableSize
<1>8. Turns'
  <2>1. pc' = "decode" /\ (OnDemand <=> OnDemand')
    BY <1>1 DEF OnDemand
  <2>2. /\ inputs \subseteq DOMAIN active /\ (\A i \in inputs : i < turn)
        /\ \A i \in DOMAIN active :
            /\ active[i].phase # "Failed"
            /\ i >= turn => active[i].phase = "Decoding"
            /\ i \in inputs => /\ active[i].phase = "Decoding" /\ ~active[i].waiting
                              /\ HasRow(active[i])
            /\ i < turn /\ i \notin inputs /\ active[i].phase = "Decoding" =>
                 active[i].waiting /\ free = 0 /\ OnDemand
    BY DEF State, Turns
  <2>3. (\A i \in inputs' : i < turn') /\ inputs' \subseteq DOMAIN active'
    <3>1. \A i \in inputs : i < turn + 1
      BY <1>2, <2>2
    <3>2. \A i \in inputs' : i \in inputs \/ i = turn
      BY <1>1
    <3> QED BY <1>1, <1>2, <1>3, <2>2, <3>1, <3>2
  <2>4. ASSUME NEW i \in DOMAIN active
        PROVE  /\ active'[i].phase # "Failed"
               /\ i >= turn' => active'[i].phase = "Decoding"
               /\ i \in inputs' => /\ active'[i].phase = "Decoding" /\ ~active'[i].waiting
                                   /\ HasRow(active[i])'
               /\ i < turn' /\ i \notin inputs' /\ active'[i].phase = "Decoding" =>
                    active'[i].waiting /\ free' = 0 /\ OnDemand'
    <3>1. PICK x : x = active'[i]
      OBVIOUS
    <3>2. HasRow(x) => HasRow(active[i])'
      <4>1. HasRow(x) => HasRow(x)'
        BY <1>1 DEF HasRow, OnDemand, TableSize
      <4> QED BY <3>1, <4>1 DEF HasRow, OnDemand, TableSize
    <3>3. CASE i = turn
      <4>1. x = r /\ ~(i >= turn') /\ ~(i \in inputs)
        BY <1>1, <1>2, <1>3, <2>2, <3>1, <3>3
      <4>2. i \in inputs' <=> isInput
        BY <1>1, <3>3, <4>1
      <4> QED BY <2>1, <3>1, <3>2, <4>1, <4>2
    <3>4. CASE i # turn
      <4>1. x = active[i] /\ (i \in inputs' <=> i \in inputs) /\ i \in Nat
        BY <1>1, <1>2, <1>3, <3>1, <3>4
      <4>2. (i >= turn' => i >= turn) /\ (i < turn' => i < turn)
        BY <1>1, <1>2, <3>4, <4>1
      <4>3. x.phase # "Failed" /\ (i >= turn' => x.phase = "Decoding")
        BY <2>2, <4>1, <4>2
      <4>4. i \in inputs' => x.phase = "Decoding" /\ ~x.waiting /\ HasRow(x)
        BY <2>2, <4>1
      <4>5. i < turn' /\ i \notin inputs' /\ x.phase = "Decoding" =>
              x.waiting /\ free' = 0 /\ OnDemand'
        BY <2>1, <2>2, <4>1, <4>2
      <4> QED BY <3>1, <3>2, <4>3, <4>4, <4>5
    <3> QED BY <3>3, <3>4
  <2> QED BY <1>3, <2>1, <2>3, <2>4 DEF Turns
<1> QED BY <1>2, <1>3, <1>5, <1>6, <1>7, <1>8 DEF State

\* The request whose turn it is.
LEMMA OnTurn ==
  ASSUME State, pc = "decode", turn <= Len(active)
  PROVE  /\ turn \in DOMAIN active /\ active[turn] \in ActiveRequest
         /\ active[turn].phase = "Decoding" /\ RequestOK(active[turn])
<1>1. turn \in DOMAIN active
  BY DEF State, TypeOK
<1> QED BY <1>1, ActiveTyped DEF State, Turns, Rows, TypeOK

LEMMA DecodeFinishesKeepsState ==
  ASSUME State, DecodeFinishes
  PROVE  /\ State' /\ DOMAIN active' = DOMAIN active /\ free' = free
         /\ \A i \in DOMAIN active :
              active'[i].id = active[i].id /\ active'[i].own = active[i].own
<1>1. pc = "decode" /\ turn <= Len(active) /\ free' = free
  BY DEF DecodeFinishes
<1>2. PICK a \in ActiveRequest : a = active[turn]
  BY <1>1, OnTurn
<1>3. PICK r : r = [a EXCEPT !.phase = "Finished"]
  OBVIOUS
<1>4. NextTurn(r, FALSE)
  BY <1>2, <1>3 DEF DecodeFinishes
<1>5. /\ r \in ActiveRequest /\ r.phase = "Finished" /\ r.id = a.id /\ r.own = a.own
      /\ r.past = a.past /\ r.outputs = a.outputs
  BY <1>3 DEF ActiveRequest, Phases
<1>6. RequestOK(r)
  BY <1>1, <1>2, <1>5, OnTurn DEF RequestOK, Covered, TableSize
<1>7. /\ State' /\ turn \in DOMAIN active /\ DOMAIN active' = DOMAIN active
      /\ active'[turn] = r /\ \A i \in DOMAIN active : i # turn => active'[i] = active[i]
  <2>1. free' \in Nat
    BY <1>1 DEF State, TypeOK
  <2> QED BY <1>1, <1>2, <1>4, <1>5, <1>6, <2>1, Turned
<1> QED BY <1>1, <1>2, <1>5, <1>7

LEMMA DecodeWaitsKeepsState ==
  ASSUME State, DecodeWaits
  PROVE  /\ State' /\ DOMAIN active' = DOMAIN active /\ free' = free
         /\ \A i \in DOMAIN active :
              active'[i].id = active[i].id /\ active'[i].own = active[i].own
<1>1. pc = "decode" /\ turn <= Len(active) /\ free' = free /\ free = 0 /\ OnDemand
  BY DEF DecodeWaits, NeedsBlock, OnDemand
<1>2. PICK a \in ActiveRequest : a = active[turn]
  BY <1>1, OnTurn
<1>3. PICK r : r = [a EXCEPT !.waiting = TRUE]
  OBVIOUS
<1>4. NextTurn(r, FALSE)
  BY <1>2, <1>3 DEF DecodeWaits
<1>5. /\ r \in ActiveRequest /\ r.phase = a.phase /\ r.id = a.id /\ r.own = a.own
      /\ r.past = a.past /\ r.outputs = a.outputs /\ r.waiting
  BY <1>3 DEF ActiveRequest
<1>6. RequestOK(r)
  BY <1>1, <1>2, <1>5, OnTurn DEF RequestOK, Covered, TableSize
<1>7. /\ State' /\ turn \in DOMAIN active /\ DOMAIN active' = DOMAIN active
      /\ active'[turn] = r /\ \A i \in DOMAIN active : i # turn => active'[i] = active[i]
  <2>1. r.phase # "Failed" /\ free' \in Nat
    BY <1>1, <1>2, <1>5, OnTurn
  <2> QED BY <1>1, <1>2, <1>4, <1>5, <1>6, <2>1, Turned
<1> QED BY <1>1, <1>2, <1>5, <1>7

\* The row of the token that r outputs, with the block it may have taken.
LEMMA TokenHasRow ==
  ASSUME State, NEW a \in ActiveRequest, RequestOK(a), ~AtLimit(a),
         NEW r \in ActiveRequest, NEW taken \in Nat,
         taken = IF NeedsBlock(a) THEN 1 ELSE 0,
         r.id = a.id, r.past = a.past, r.own = a.own + taken, r.outputs = a.outputs + 1
  PROVE  RequestOK(r) /\ HasRow(r)
<1>1. /\ a.past \in Nat /\ a.own \in Nat /\ a.outputs \in Nat /\ a.id \in Chunks
      /\ Prompt[a.id] \in Nat
  BY Numbers DEF ActiveRequest
<1>2. a.outputs < MaxTokens /\ a.past < CtxSize
  BY <1>1, Numbers DEF AtLimit
<1>3. PICK t \in Nat, b \in Nat \ {0} :
        t = TableSize(a) /\ b = BlockSize /\ TableSize(r) = t + taken
  <2>1. /\ TableSize(a) \in Nat /\ TableSize(a) = cached \div BlockSize + a.own
        /\ cached \div BlockSize \in Nat
    BY <1>1, TableTyped DEF State
  <2>2. TableSize(r) = cached \div BlockSize + (a.own + taken)
    BY DEF TableSize
  <2> QED BY <1>1, <2>1, <2>2, Numbers
<1>4. (t + taken) * b = t * b + taken * b /\ t * b \in Nat /\ taken * b \in Nat
  OBVIOUS
<1>5. OnDemand => r.past < (t + taken) * b
  <2>1. SUFFICES ASSUME OnDemand
                 PROVE  a.past < (t + taken) * b
    OBVIOUS
  <2>2. a.past <= t * b
    BY <1>3, <2>1 DEF RequestOK, Covered
  <2>3. CASE NeedsBlock(a)
    <3>1. taken = 1 /\ taken * b = b
      BY <2>3
    <3> QED BY <1>1, <1>4, <2>2, <3>1
  <2>4. CASE ~NeedsBlock(a)
    <3>1. BlocksFor(a.past + 1) <= t /\ taken = 0
      <4>1. ~(BlocksFor(a.past + 1) > t)
        BY <1>3, <2>1, <2>4 DEF NeedsBlock, OnDemand
      <4>2. BlocksFor(a.past + 1) \in Nat
        BY <1>1, BlocksCover
      <4> QED BY <2>4, <4>1, <4>2
    <3>2. a.past + 1 <= t * b
      BY <1>1, <1>3, <3>1, BlocksCover
    <3> QED BY <1>1, <1>4, <3>1, <3>2
  <2> QED BY <2>3, <2>4
<1>6. kv = "budget" => Budget(r.id) <= (t + taken) * b
  <2>1. kv = "budget" => Budget(a.id) <= t * b
    BY <1>3 DEF RequestOK, Covered
  <2>2. Budget(a.id) \in Nat
    BY <1>1, BudgetTyped
  <2> QED BY <1>4, <2>1, <2>2
<1>7. Covered(r)
  <2>1. (t + taken) * b \in Nat
    BY <1>4
  <2> QED BY <1>1, <1>3, <1>5, <1>6, <2>1 DEF Covered
<1>8. r.past < Prompt[r.id] + r.outputs /\ r.past <= Prompt[r.id] + r.outputs
      /\ r.outputs <= MaxTokens
  <2>1. a.past <= Prompt[a.id] + a.outputs
    BY DEF RequestOK
  <2> QED BY SMTT(30), <1>1, <1>2, <2>1, Numbers
<1> QED BY <1>2, <1>3, <1>5, <1>7, <1>8 DEF RequestOK, HasRow

LEMMA WrittenTyped ==
  ASSUME NEW a \in ActiveRequest, NEW taken \in Nat,
         NEW r, r = [a EXCEPT !.own = @ + taken, !.waiting = FALSE, !.outputs = @ + 1]
  PROVE  /\ r \in ActiveRequest /\ r.id = a.id /\ r.past = a.past /\ r.own = a.own + taken
         /\ r.outputs = a.outputs + 1 /\ ~r.waiting /\ r.phase = a.phase
<1>1. PICK n \in Nat, m \in Nat : n = a.own + taken /\ m = a.outputs + 1
  BY DEF ActiveRequest
<1>2. PICK x \in ActiveRequest : x = [a EXCEPT !.own = n]
  BY DEF ActiveRequest
<1>3. PICK y \in ActiveRequest : y = [x EXCEPT !.waiting = FALSE]
  BY DEF ActiveRequest
<1>4. r = [y EXCEPT !.outputs = m]
  BY <1>1, <1>2, <1>3
<1>5. r \in ActiveRequest
  BY <1>4 DEF ActiveRequest
<1>6. /\ x.id = a.id /\ x.past = a.past /\ x.own = n /\ x.phase = a.phase
      /\ x.outputs = a.outputs
  BY <1>2 DEF ActiveRequest
<1>7. /\ y.id = x.id /\ y.past = x.past /\ y.own = x.own /\ y.phase = x.phase
      /\ y.waiting = FALSE
  BY <1>3 DEF ActiveRequest
<1>8. /\ r.id = y.id /\ r.past = y.past /\ r.own = y.own /\ r.phase = y.phase
      /\ r.waiting = y.waiting /\ r.outputs = m
  BY <1>4 DEF ActiveRequest
<1> QED BY <1>1, <1>5, <1>6, <1>7, <1>8

LEMMA DecodeTokenKeepsState ==
  ASSUME State, DecodeToken
  PROVE  /\ State' /\ DOMAIN active' = DOMAIN active /\ turn \in DOMAIN active
         /\ \E taken \in Nat : /\ free' = free - taken
                               /\ active'[turn].own = active[turn].own + taken
         /\ \A i \in DOMAIN active :
              /\ active'[i].id = active[i].id
              /\ i # turn => active'[i].own = active[i].own
<1> DEFINE taken == IF NeedsBlock(active[turn]) THEN 1 ELSE 0
           written == [active[turn] EXCEPT !.own = @ + taken, !.waiting = FALSE,
                                           !.outputs = @ + 1]
<1>1. /\ pc = "decode" /\ turn <= Len(active) /\ ~AtLimit(active[turn])
      /\ free >= taken /\ free' = free - taken
      /\ \/ NextTurn(written, TRUE)
         \/ NextTurn([written EXCEPT !.phase = "Finished"], FALSE)
  BY DEF DecodeToken
<1>2. PICK a \in ActiveRequest : a = active[turn]
  BY <1>1, OnTurn
<1>3. PICK k \in Nat : k = IF NeedsBlock(a) THEN 1 ELSE 0
  OBVIOUS
<1>4. PICK w : w = [a EXCEPT !.own = @ + k, !.waiting = FALSE, !.outputs = @ + 1]
  OBVIOUS
<1>5. taken = k /\ written = w
  BY <1>2, <1>3, <1>4
<1> HIDE DEF taken, written
<1>6. /\ w \in ActiveRequest /\ w.id = a.id /\ w.past = a.past /\ w.own = a.own + k
      /\ w.outputs = a.outputs + 1 /\ ~w.waiting /\ w.phase = a.phase
  BY ZenonT(40), <1>4, WrittenTyped
<1>7. a.phase = "Decoding" /\ RequestOK(a)
  BY <1>1, <1>2, OnTurn
<1>8. RequestOK(w) /\ HasRow(w)
  BY <1>1, <1>2, <1>3, <1>6, <1>7, TokenHasRow
<1>9. free' \in Nat /\ (free = 0 => free' = 0) /\ free' = free - k
  <2>1. free \in Nat /\ free >= k /\ free' = free - k
    BY <1>1, <1>5 DEF State, TypeOK
  <2> QED BY <2>1
<1>10. ASSUME NEW r \in ActiveRequest, r.id = a.id, r.own = a.own + k,
              /\ State' /\ turn \in DOMAIN active /\ DOMAIN active' = DOMAIN active
              /\ active'[turn] = r /\ \A i \in DOMAIN active : i # turn => active'[i] = active[i]
       PROVE  /\ State' /\ DOMAIN active' = DOMAIN active /\ turn \in DOMAIN active
              /\ \E n \in Nat : /\ free' = free - n
                                /\ active'[turn].own = active[turn].own + n
              /\ \A i \in DOMAIN active :
                   /\ active'[i].id = active[i].id
                   /\ i # turn => active'[i].own = active[i].own
  BY <1>2, <1>9, <1>10
<1>11. CASE NextTurn(w, TRUE)
  <2>1. /\ State' /\ turn \in DOMAIN active /\ DOMAIN active' = DOMAIN active
        /\ active'[turn] = w /\ \A i \in DOMAIN active : i # turn => active'[i] = active[i]
    BY <1>1, <1>2, <1>6, <1>7, <1>8, <1>9, <1>11, Turned
  <2> QED BY <1>6, <1>10, <2>1
<1>12. CASE NextTurn([w EXCEPT !.phase = "Finished"], FALSE)
  <2>1. PICK r : r = [w EXCEPT !.phase = "Finished"]
    OBVIOUS
  <2>2. /\ r \in ActiveRequest /\ r.id = w.id /\ r.own = w.own /\ r.phase = "Finished"
        /\ r.past = w.past /\ r.outputs = w.outputs
    BY <1>6, <2>1 DEF ActiveRequest, Phases
  <2>3. RequestOK(r)
    BY <1>8, <2>2 DEF RequestOK, Covered, TableSize
  <2>4. NextTurn(r, FALSE)
    BY <1>12, <2>1
  <2>5. /\ State' /\ turn \in DOMAIN active /\ DOMAIN active' = DOMAIN active
        /\ active'[turn] = r /\ \A i \in DOMAIN active : i # turn => active'[i] = active[i]
    BY <1>1, <1>2, <1>6, <1>9, <2>2, <2>3, <2>4, Turned
  <2> QED BY <1>6, <1>10, <2>2, <2>5
<1> QED BY <1>1, <1>5, <1>11, <1>12

\* A request after the step: r, with what the step changes.
SameRequest(r, x) ==
  /\ x \in ActiveRequest /\ x.id = r.id /\ x.own = r.own /\ x.outputs = r.outputs
  /\ x.waiting = r.waiting

(* The GPU step, or the round without one, leaves every request with its   *)
(* blocks; its new row, if any, is one it has.                             *)
LEMMA Stepped ==
  ASSUME State, StepWorks \/ StepFails \/ Stall
  PROVE  /\ active' \in Seq(ActiveRequest) /\ DOMAIN active' = DOMAIN active
         /\ TurnsTaken /\ pc' = "reap"
         /\ UNCHANGED <<kv, cached, next, cand, free, hinted, turn, inputs, round, admitted,
                        answers>>
         /\ \A i \in DOMAIN active :
              /\ SameRequest(active[i], active'[i])
              /\ active'[i].past = active[i].past
                   \/ (i \in inputs /\ active'[i].past = active[i].past + 1)
         /\ StepWorks => \A i \in DOMAIN active : active'[i].phase = active[i].phase
         /\ StepFails => \A i \in DOMAIN active :
                           active'[i].phase = "Failed" /\ active[i].phase # "Failed" => i \in inputs
         /\ Stall => \A i \in DOMAIN active :
                       active'[i].phase = "Failed" /\ active[i].phase # "Failed" =>
                         \A j \in DOMAIN active : active[j].phase = "Decoding"
<1>1. /\ TurnsTaken /\ pc' = "reap"
      /\ UNCHANGED <<kv, cached, next, cand, free, hinted, turn, inputs, round, admitted,
                     answers>>
  BY DEF StepWorks, StepFails, Stall, AfterStep
<1>2. /\ active \in Seq(ActiveRequest) /\ Len(active) \in Nat
      /\ DOMAIN active = 1 .. Len(active) /\ \A i \in DOMAIN active : active[i] \in ActiveRequest
  BY DEF State, TypeOK
<1>3. ASSUME NEW a \in ActiveRequest
      PROVE  /\ SameRequest(a, [a EXCEPT !.past = @ + 1])
             /\ [a EXCEPT !.past = @ + 1].past = a.past + 1
             /\ [a EXCEPT !.past = @ + 1].phase = a.phase
             /\ SameRequest(a, [a EXCEPT !.phase = "Failed"])
             /\ [a EXCEPT !.phase = "Failed"].past = a.past
             /\ SameRequest(a, a)
  <2>1. a.past + 1 \in Nat /\ "Failed" \in Phases
    BY DEF ActiveRequest, Phases
  <2> QED BY <2>1 DEF ActiveRequest, SameRequest
<1>4. CASE StepWorks
  <2>1. active' = [i \in DOMAIN active |->
                     IF i \in inputs THEN [active[i] EXCEPT !.past = @ + 1] ELSE active[i]]
    BY <1>4 DEF StepWorks
  <2>2. \A i \in DOMAIN active :
          /\ SameRequest(active[i], active'[i])
          /\ active'[i].past = active[i].past
               \/ (i \in inputs /\ active'[i].past = active[i].past + 1)
          /\ active'[i].phase = active[i].phase
    BY <1>2, <1>3, <2>1
  <2>3. active' \in Seq(ActiveRequest) /\ DOMAIN active' = DOMAIN active
    <3>1. active' = [i \in 1 .. Len(active) |-> active'[i]]
      BY <1>2, <2>1
    <3>2. \A i \in 1 .. Len(active) : active'[i] \in ActiveRequest
      BY <1>2, <2>2 DEF SameRequest
    <3> QED BY <1>2, <3>1, <3>2, SeqFromValues
  <2> QED BY <1>1, <2>2, <2>3
<1>5. CASE StepFails
  <2>1. active' = [i \in DOMAIN active |->
                     IF i \in inputs THEN [active[i] EXCEPT !.phase = "Failed"] ELSE active[i]]
        /\ inputs # {}
    BY <1>5 DEF StepFails
  <2>2. \A i \in DOMAIN active :
          /\ SameRequest(active[i], active'[i]) /\ active'[i].past = active[i].past
          /\ i \notin inputs => active'[i] = active[i]
    BY <1>2, <1>3, <2>1
  <2>3. active' \in Seq(ActiveRequest) /\ DOMAIN active' = DOMAIN active
    <3>1. active' = [i \in 1 .. Len(active) |-> active'[i]]
      BY <1>2, <2>1
    <3>2. \A i \in 1 .. Len(active) : active'[i] \in ActiveRequest
      BY <1>2, <2>2 DEF SameRequest
    <3> QED BY <1>2, <3>1, <3>2, SeqFromValues
  <2>4. ~Stall
    BY <2>1 DEF Stall
  <2>5. CASE StepWorks
    BY <1>4, <2>5
  <2> QED BY <1>1, <2>2, <2>3, <2>4, <2>5
<1>6. CASE Stall
  <2>1. inputs = {}
    BY <1>6 DEF Stall
  <2>2. ~StepWorks /\ ~StepFails
    BY <2>1 DEF StepWorks, StepFails
  <2>3. CASE \E i \in DOMAIN active : active[i].phase # "Decoding"
    <3>1. active' = active
      BY <1>6, <2>3 DEF Stall
    <3> QED BY <1>1, <1>2, <1>3, <2>2, <3>1
  <2>4. CASE \A i \in DOMAIN active : active[i].phase = "Decoding"
    <3>1. active' = [i \in DOMAIN active |->
                       IF active[i].waiting THEN [active[i] EXCEPT !.phase = "Failed"]
                                            ELSE active[i]]
      BY <1>6, <2>4 DEF Stall
    <3>2. \A i \in DOMAIN active :
            SameRequest(active[i], active'[i]) /\ active'[i].past = active[i].past
      BY <1>2, <1>3, <3>1
    <3>3. active' \in Seq(ActiveRequest) /\ DOMAIN active' = DOMAIN active
      <4>1. active' = [i \in 1 .. Len(active) |-> active'[i]]
        BY <1>2, <3>1
      <4>2. \A i \in 1 .. Len(active) : active'[i] \in ActiveRequest
        BY <1>2, <3>2 DEF SameRequest
      <4> QED BY <1>2, <4>1, <4>2, SeqFromValues
    <3> QED BY <1>1, <2>2, <2>4, <3>2, <3>3
  <2> QED BY <2>3, <2>4
<1> QED BY <1>4, <1>5, <1>6

LEMMA StepKeepsState ==
  ASSUME State, StepWorks \/ StepFails \/ Stall
  PROVE  State'
<1>1. /\ active' \in Seq(ActiveRequest) /\ DOMAIN active' = DOMAIN active
      /\ TurnsTaken /\ pc' = "reap"
      /\ UNCHANGED <<kv, cached, next, cand, free, hinted, turn, inputs, round, admitted,
                     answers>>
      /\ \A i \in DOMAIN active :
           /\ SameRequest(active[i], active'[i])
           /\ active'[i].past = active[i].past
                \/ (i \in inputs /\ active'[i].past = active[i].past + 1)
  BY Stepped
<1>2. pc = "decode"
  BY <1>1 DEF TurnsTaken
<1>3. TypeOK'
  BY <1>1 DEF State, TypeOK
<1>4. \A i \in DOMAIN active : active'[i].id = active[i].id
  BY <1>1 DEF SameRequest
<1>5. Places'
  <2>1. DistinctIds(active')
    BY <1>1, <1>4 DEF State, Places, DistinctIds
  <2>2. \A i \in DOMAIN active' : active'[i].id < next' /\ answers'[active'[i].id] = <<>>
    BY <1>1, <1>4 DEF State, Places
  <2> QED BY <1>1, <1>2, <2>1, <2>2 DEF State, Places
<1>6. Rows'
  <2>1. SUFFICES ASSUME NEW i \in DOMAIN active
                 PROVE  RequestOK(active[i])'
    BY <1>1 DEF Rows
  <2>2. PICK a \in ActiveRequest, x \in ActiveRequest : a = active[i] /\ x = active'[i]
    BY <1>1 DEF SameRequest, State, TypeOK
  <2>3. /\ SameRequest(a, x) /\ RequestOK(a)
        /\ x.past = a.past \/ (i \in inputs /\ x.past = a.past + 1)
    BY <1>1, <2>2 DEF State, Rows
  <2>4. TableSize(x) = TableSize(a) /\ TableSize(a) * BlockSize \in Nat
    <3>1. a.own \in Nat
      BY DEF ActiveRequest
    <3> QED BY <2>3, <3>1, TableTyped DEF SameRequest, TableSize, State
  <2>5. CASE x.past = a.past
    <3>1. RequestOK(x)
      BY <2>3, <2>4, <2>5 DEF SameRequest, RequestOK, Covered
    <3> QED BY <1>1, <2>2, <3>1, RequestStays DEF RequestOK, Covered, OnDemand, TableSize
  <2>6. CASE i \in inputs /\ x.past = a.past + 1
    <3>1. HasRow(a)
      BY <1>2, <2>2, <2>6 DEF State, Turns
    <3>2. /\ a.past \in Nat /\ Prompt[a.id] \in Nat /\ a.outputs \in Nat
      BY Numbers DEF ActiveRequest
    <3>3. RequestOK(x)
      BY <2>3, <2>4, <2>6, <3>1, <3>2 DEF SameRequest, RequestOK, Covered, HasRow
    <3> QED BY <1>1, <2>2, <3>3, RequestStays DEF RequestOK, Covered, OnDemand, TableSize
  <2> QED BY <2>3, <2>5, <2>6
<1>7. Turns'
  BY <1>1 DEF Turns
<1> QED BY <1>3, <1>5, <1>6, <1>7 DEF State

(* The ended requests leave, each with its result.                         *)
LEMMA Reaped ==
  ASSUME State, Reap
  PROVE  /\ active' \in Seq(ActiveRequest)
         /\ Range(active') = {r \in Range(active) : r.phase = "Decoding"}
         /\ DistinctIds(active')
         /\ free' \in Nat
         /\ answers' \in [Chunks -> Seq(Outcomes)]
         /\ \A c \in Chunks :
              IF \E r \in Range(active) : r.phase # "Decoding" /\ r.id = c
              THEN Len(answers'[c]) = Len(answers[c]) + 1
              ELSE answers'[c] = answers[c]
<1> DEFINE ended == {r \in Range(active) : r.phase # "Decoding"}
           ids == {r.id : r \in ended}
           PhaseOf(c) == (CHOOSE r \in ended : r.id = c).phase
           rest == Range(active) \ ended
           o == [c \in ids |-> PhaseOf(c)]
<1>1. /\ active' = Only(active, rest)
      /\ free' = free + Cardinality(BlocksOf(ended))
      /\ Emit(o)
  BY DEF Reap
<1>2. /\ active \in Seq(ActiveRequest) /\ free \in Nat
      /\ answers \in [Chunks -> Seq(Outcomes)]
      /\ Range(active) \subseteq ActiveRequest /\ DistinctIds(active)
  BY DEF State, TypeOK, Places, Range
<1>3. rest = {r \in Range(active) : r.phase = "Decoding"}
  OBVIOUS
<1>4. active' \in Seq(ActiveRequest) /\ Range(active') = Range(active) \cap rest
  <2> HIDE DEF rest
  <2> QED BY <1>1, <1>2, OnlyFacts
<1>5. DistinctIds(active')
  <2> DEFINE f == [r \in ActiveRequest |-> r.id]
  <2>1. /\ \A k \in DOMAIN active : active[k] \in ActiveRequest
        /\ \A k \in DOMAIN active' : active'[k] \in ActiveRequest
    BY <1>2, <1>4
  <2>2. \A r \in ActiveRequest : f[r] = r.id
    OBVIOUS
  <2> HIDE DEF f, rest
  <2>3. \A j, k \in DOMAIN active : f[active[j]] = f[active[k]] => j = k
    BY <1>2, <2>1, <2>2 DEF DistinctIds
  <2>4. \A j, k \in DOMAIN active' : f[active'[j]] = f[active'[k]] => j = k
    BY <1>1, <1>2, <2>3, OnlyFacts
  <2> QED BY <2>1, <2>2, <2>4 DEF DistinctIds
<1>6. free' \in Nat
  BY <1>1, <1>2, ActiveBlocksFinite
<1>7. /\ ids \subseteq Chunks
      /\ \A c \in ids : PhaseOf(c) \in Outcomes
  <2>1. \A r \in ended : r \in ActiveRequest /\ r.id \in Chunks /\ r.phase \in Outcomes
    BY <1>2 DEF ActiveRequest, Phases, Outcomes
  <2>2. ASSUME NEW c \in ids
        PROVE  PhaseOf(c) \in Outcomes
    <3>1. \E r \in ended : r.id = c
      OBVIOUS
    <3> HIDE DEF ended
    <3>2. (CHOOSE r \in ended : r.id = c) \in ended
      BY <3>1
    <3> QED BY <2>1, <3>2
  <2> QED BY <2>1, <2>2
<1>8. answers' = [c \in Chunks |-> IF c \in DOMAIN o THEN Append(answers[c], o[c])
                                                     ELSE answers[c]]
  BY <1>1 DEF Emit
<1>9. DOMAIN o = ids /\ DOMAIN o \subseteq Chunks /\ \A c \in DOMAIN o : o[c] \in Outcomes
  BY <1>7
<1>10. \A c : c \in ids <=> \E r \in Range(active) : r.phase # "Decoding" /\ r.id = c
  OBVIOUS
<1> HIDE DEF o, ids
<1>11. /\ answers' \in [Chunks -> Seq(Outcomes)]
       /\ \A c \in Chunks : IF c \in ids
                          THEN Len(answers'[c]) = Len(answers[c]) + 1
                          ELSE answers'[c] = answers[c]
  BY <1>2, <1>8, <1>9, Emitted
<1> QED BY <1>3, <1>4, <1>5, <1>6, <1>10, <1>11

LEMMA ReapKeepsState ==
  ASSUME State, Reap
  PROVE  State'
<1>1. /\ active' \in Seq(ActiveRequest) /\ free' \in Nat
      /\ Range(active') = {r \in Range(active) : r.phase = "Decoding"}
      /\ DistinctIds(active')
      /\ answers' \in [Chunks -> Seq(Outcomes)]
      /\ \A c \in Chunks :
           IF \E r \in Range(active) : r.phase # "Decoding" /\ r.id = c
           THEN Len(answers'[c]) = Len(answers[c]) + 1
           ELSE answers'[c] = answers[c]
  BY Reaped
<1>2. /\ pc = "reap" /\ pc' = "admit" /\ turn' = 1 /\ inputs' = {} /\ round' \in {"idle", "usual"}
      /\ UNCHANGED <<kv, cached, next, cand, hinted, admitted>>
  BY DEF Reap
<1>3. ASSUME NEW i \in DOMAIN active'
      PROVE  \E j \in DOMAIN active : active'[i] = active[j] /\ active'[i].phase = "Decoding"
  <2>1. PICK x : x = active'[i]
    OBVIOUS
  <2>2. x \in Range(active')
    BY <2>1 DEF Range
  <2>3. x \in Range(active) /\ x.phase = "Decoding"
    BY <1>1, <2>2
  <2> QED BY <2>1, <2>3 DEF Range
<1>4. TypeOK'
  BY <1>1, <1>2 DEF State, TypeOK
<1>5. Places'
  <2>1. ASSUME NEW i \in DOMAIN active'
        PROVE  active'[i].id < next' /\ answers'[active'[i].id] = <<>>
    <3>1. PICK j \in DOMAIN active : active'[i] = active[j] /\ active[j].phase = "Decoding"
      BY <1>3
    <3>2. active[j].id < next /\ answers[active[j].id] = <<>> /\ active[j].id \in Chunks
      BY ActiveTyped DEF State, Places
    <3>3. ~\E r \in Range(active) : r.phase # "Decoding" /\ r.id = active[j].id
      BY <3>1 DEF State, Places, DistinctIds, Range
    <3> QED BY <1>1, <1>2, <3>1, <3>2, <3>3
  <2>2. ASSUME NEW c \in Chunks, c >= next'
        PROVE  answers'[c] = <<>>
    <3>1. c >= next /\ c \in Nat /\ next \in Nat
      BY <1>2, <2>2, Numbers DEF State, TypeOK
    <3>2. \A j \in DOMAIN active : active[j].id # c
      <4>1. \A j \in DOMAIN active : active[j].id < next /\ active[j].id \in Nat
        BY ActiveTyped DEF State, Places
      <4> QED BY <3>1, <4>1
    <3>3. ~\E r \in Range(active) : r.phase # "Decoding" /\ r.id = c
      BY <3>2 DEF Range
    <3> QED BY <1>1, <3>1, <3>3 DEF State, Places
  <2> QED BY <1>1, <1>2, <2>1, <2>2 DEF State, Places
<1>6. Rows'
  <2>1. SUFFICES ASSUME NEW i \in DOMAIN active'
                 PROVE  RequestOK(active[i])'
    BY DEF Rows
  <2>2. PICK x : x = active'[i]
    OBVIOUS
  <2>3. RequestOK(x)
    BY <1>3, <2>2 DEF State, Rows
  <2>4. RequestOK(x)'
    BY <1>2, <2>3, RequestStays
  <2> QED BY <2>2, <2>4 DEF RequestOK, Covered, OnDemand, TableSize
<1>7. Turns'
  BY <1>2, <1>3 DEF Turns
<1> QED BY <1>4, <1>5, <1>6, <1>7 DEF State

LEMMA DrainKeepsState ==
  ASSUME State, Drain
  PROVE  State'
<1>1. /\ pc = "drain" /\ pc' = "done" /\ free' = free + BlocksFor(cached)
      /\ UNCHANGED <<kv, cached, next, cand, active, hinted, turn, inputs, round,
                     admitted, answers>>
  BY DEF Drain
<1>2. free' \in Nat
  BY <1>1, PrefixFits DEF State, TypeOK
<1>3. TypeOK' /\ Places' /\ Turns'
  BY <1>1, <1>2 DEF State, TypeOK, Places, Turns
<1> QED BY <1>1, <1>3, RowsStay DEF State

LEMMA StutterKeepsState ==
  ASSUME State, UNCHANGED vars
  PROVE  State'
BY DEF vars, State, TypeOK, Places, DistinctIds, Rows, RequestOK, Covered, OnDemand, TableSize,
       Turns, HasRow

LEMMA StateInvariant == Spec => []State
<1>1. Init => State
  BY StateInit
<1>2. State /\ [Next]_vars => State'
  BY AdmissionFailsKeepsState, BeginPrefillKeepsState, PrefillKeepsState, RoundEndsKeepsState,
     DecodeFinishesKeepsState, DecodeWaitsKeepsState, DecodeTokenKeepsState, StepKeepsState,
     ReapKeepsState, DrainKeepsState, StutterKeepsState DEF Next, Main, Returned
<1> QED BY <1>1, <1>2, PTL DEF Spec

-----------------------------------------------------------------------------
(* Rows.                                                                   *)

(* Whatever the lengths, limits and blocks: a decode step writes inside    *)
(* the context and inside the blocks of each request, in every way of      *)
(* keeping K/V; with the static budget, for prompts within their estimate. *)
THEOREM DecodesWithinBlocks == Spec => []RowsAreBacked
<1>1. State => RowsAreBacked
  <2>1. SUFFICES ASSUME State, TurnsTaken, NEW i \in inputs
                 PROVE  /\ active[i].past < CtxSize
                        /\ (kv = "budget" => Prompt[active[i].id] <= Estimate[active[i].id])
                             => Backed(active[i])
    BY DEF RowsAreBacked
  <2>2. i \in DOMAIN active /\ HasRow(active[i]) /\ RequestOK(active[i])
    BY <2>1 DEF State, Turns, Rows, TurnsTaken
  <2>3. PICK r \in ActiveRequest : r = active[i]
    BY <2>1, <2>2, ActiveTyped DEF State
  <2>4. HasRow(r) /\ RequestOK(r)
    BY <2>2, <2>3
  <2>5. /\ r.past \in Nat /\ r.outputs \in Nat /\ r.id \in Chunks /\ r.own \in Nat
        /\ Prompt[r.id] \in Nat /\ Estimate[r.id] \in Nat
    BY Numbers DEF ActiveRequest
  <2>6. PICK n \in Nat : n = TableSize(r) * BlockSize
    BY <2>1, <2>5, TableTyped DEF State
  <2>7. ASSUME kv # "slots", kv = "budget" => Prompt[r.id] <= Estimate[r.id]
        PROVE  r.past < n
    <3>1. CASE OnDemand
      BY <2>4, <2>6, <3>1 DEF HasRow
    <3>2. CASE kv = "budget"
      <4>1. Budget(r.id) <= n
        BY <2>4, <2>6, <3>2 DEF RequestOK, Covered
      <4>2. r.past < CtxSize /\ r.past < Prompt[r.id] + r.outputs /\ r.outputs <= MaxTokens
        BY <2>4 DEF HasRow, RequestOK
      <4>3. r.past < Estimate[r.id] + MaxTokens
        BY <2>5, <2>7, <3>2, <4>2, Numbers
      <4>4. r.past < Budget(r.id) /\ Budget(r.id) \in Nat
        BY <2>5, <4>2, <4>3, BudgetTyped DEF Budget, SmallerOf
      <4> QED BY <2>5, <4>1, <4>4
    <3> QED BY <2>1, <2>7, <3>1, <3>2 DEF State, TypeOK, OnDemand
  <2>8. r.past < CtxSize
    BY <2>4 DEF HasRow
  <2> QED BY <2>3, <2>6, <2>7, <2>8 DEF Backed
<1> QED BY <1>1, StateInvariant, PTL

-----------------------------------------------------------------------------
(* Blocks.                                                                 *)

\* What the active requests own, what the prefix holds, and all there is.
Owned == Cardinality(BlocksOf(Range(active)))

Shared == IF pc = "done" THEN 0 ELSE BlocksFor(cached)

Pool == IF kv = "slots" THEN BatchSize ELSE NumBlocks

Conserved == free + cand.own + Owned + Shared = Pool

LEMMA BlockCounts ==
  ASSUME State
  PROVE  /\ IsFiniteSet(BlocksOf(Range(active))) /\ Owned \in Nat /\ free \in Nat
         /\ cand.own \in Nat /\ Shared \in Nat /\ Pool \in Nat
BY ActiveBlocksFinite, PrefixFits, Numbers
   DEF State, TypeOK, Owned, Candidate, Shared, Pool

LEMMA BlockCountsNext ==
  ASSUME State'
  PROVE  /\ IsFiniteSet(BlocksOf(Range(active'))) /\ Owned' \in Nat /\ free' \in Nat
         /\ cand'.own \in Nat
BY ActiveBlocksFinite DEF State, TypeOK, Owned, Candidate

LEMMA ConservedInit ==
  ASSUME Init
  PROVE  Conserved
<1>1. BlocksOf(Range(active)) = {}
  BY DEF Init, BlocksOf, Range
<1>2. Owned = 0 /\ cand.own = 0
  BY <1>1, FS_EmptySet DEF Owned, Init, NoCand
<1>3. BlocksFor(cached) \in Nat /\ Shared = BlocksFor(cached)
  BY PrefixFits DEF Init, Shared
<1>4. CASE kv = "slots"
  <2>1. cached = 0 /\ free = BatchSize /\ Pool = BatchSize
    BY <1>4 DEF Init, Pool
  <2>2. BlocksFor(0) = 0
    <3>1. 0 <= 0 * BlockSize
      BY Numbers
    <3> QED BY <3>1, BlocksCover
  <2> QED BY <1>2, <1>3, <2>1, <2>2, Numbers DEF Conserved
<1>5. CASE kv # "slots"
  <2>1. free = NumBlocks - BlocksFor(cached) /\ Pool = NumBlocks
    BY <1>5 DEF Init, Pool
  <2> QED BY <1>2, <1>3, <2>1, Numbers DEF Conserved
<1> QED BY <1>4, <1>5

\* A step that moves blocks between the pool, the candidate and the requests.
LEMMA BlocksMove ==
  ASSUME Conserved, pc # "done", pc' # "done", UNCHANGED <<kv, cached>>,
         free' + cand'.own + Owned' = free + cand.own + Owned
  PROVE  Conserved'
<1>1. Shared' = Shared /\ Pool' = Pool
  BY DEF Shared, Pool
<1> QED BY <1>1 DEF Conserved

LEMMA AdmissionKeepsBlocks ==
  ASSUME State, State', Conserved,
         NoAudio \/ FrontendFails \/ CopyFails \/ PrefillFails \/ BeginPrefill
  PROVE  Conserved'
<1>1. /\ pc # "done" /\ pc' # "done" /\ UNCHANGED <<kv, cached, active>>
  BY DEF NoAudio, FrontendFails, CopyFails, PrefillFails, BeginPrefill, ChunkFails
<1>2. Owned' = Owned
  BY <1>1 DEF Owned
<1>3. free' + cand'.own = free + cand.own
  <2>1. free \in Nat /\ cand.own \in Nat /\ NoCand.own = 0
    BY BlockCounts DEF NoCand
  <2>2. CASE NoAudio \/ FrontendFails \/ CopyFails
    <3>1. free' = free + 0 /\ cand' = NoCand /\ pc = "admit"
      BY <2>2 DEF NoAudio, FrontendFails, CopyFails, ChunkFails
    <3>2. cand = NoCand
      BY <3>1 DEF State, Places
    <3> QED BY <2>1, <3>1, <3>2
  <2>3. CASE PrefillFails
    <3>1. free' = free + cand.own /\ cand' = NoCand
      BY <2>3 DEF PrefillFails, ChunkFails
    <3> QED BY <2>1, <3>1
  <2>4. CASE BeginPrefill
    <3>1. /\ free' = free - cand'.own /\ pc = "admit"
      BY <2>4 DEF BeginPrefill
    <3>2. cand = NoCand
      BY <3>1 DEF State, Places
    <3>3. free' \in Nat /\ cand'.own \in Nat
      BY BlockCountsNext
    <3> QED BY <2>1, <3>1, <3>2, <3>3
  <2> QED BY <2>2, <2>3, <2>4
<1> QED BY <1>1, <1>2, <1>3, BlockCounts, BlockCountsNext, BlocksMove

LEMMA PrefillKeepsBlocks ==
  ASSUME State, State', Conserved, Prefill
  PROVE  Conserved'
<1>1. /\ free' = free - Grown /\ Grown \in Nat /\ cand.own \in Nat
      /\ UNCHANGED <<kv, cached>> /\ pc = "prefill" /\ pc' # "done"
  BY Prefilled
<1>2. CASE cand'.own = cand.own + Grown /\ UNCHANGED active
  <2>1. Owned' = Owned
    BY <1>2 DEF Owned
  <2> QED BY <1>1, <1>2, <2>1, BlockCounts, BlockCountsNext, BlocksMove
<1>3. ASSUME NEW r \in ActiveRequest, active' = Append(active, r), r.id = next,
             r.own = cand.own + Grown, cand' = NoCand
      PROVE  Conserved'
  <2>1. active \in Seq(ActiveRequest)
    BY DEF State, TypeOK
  <2>2. Range(active') = Range(active) \cup {r}
    BY <1>3, <2>1, Appended DEF Range
  <2>3. \A t \in Range(active) : t.id # r.id
    <3>1. \A i \in DOMAIN active : active[i].id < next /\ active[i].id \in Nat
      BY ActiveTyped DEF State, Places
    <3>2. \A i \in DOMAIN active : active[i].id # next
      BY <3>1 DEF State, TypeOK
    <3> QED BY <1>3, <3>2 DEF Range
  <2>4. /\ IsFiniteSet(OwnBlocks(r)) /\ Cardinality(OwnBlocks(r)) = r.own
    BY OwnBlocksFinite DEF ActiveRequest
  <2>5. \A x \in BlocksOf(Range(active)) : x \notin BlocksOf({r})
    BY <2>3, BlocksApart
  <2>6. PICK S, T : S = BlocksOf(Range(active)) /\ T = OwnBlocks(r)
    OBVIOUS
  <2>7. BlocksOf({r}) = T
    BY <2>6, BlocksOfOne
  <2>8. BlocksOf(Range(active')) = S \cup T
    <3>1. BlocksOf(Range(active) \cup {r}) = BlocksOf(Range(active)) \cup BlocksOf({r})
      BY BlocksOfUnion
    <3> QED BY <2>2, <2>6, <2>7, <3>1
  <2>9. Cardinality(S \cup T) = Cardinality(S) + Cardinality(T)
    <3>1. IsFiniteSet(S) /\ IsFiniteSet(T) /\ \A x \in S : x \notin T
      BY <2>4, <2>5, <2>6, <2>7, BlockCounts
    <3> QED BY <3>1, DisjointUnion
  <2>10. Owned' = Owned + r.own
    BY <2>4, <2>6, <2>8, <2>9 DEF Owned
  <2>11. cand'.own = 0
    BY <1>3 DEF NoCand
  <2>12. /\ Owned \in Nat /\ free \in Nat /\ r.own \in Nat
    BY BlockCounts DEF ActiveRequest
  <2>13. free' + cand'.own + Owned' = free + cand.own + Owned
    <3>1. PICK f \in Nat, g \in Nat, c \in Nat, n \in Nat :
            f = free /\ g = Grown /\ c = cand.own /\ n = Owned
      BY <1>1, <2>12
    <3>2. free' = f - g /\ cand'.own = 0 /\ Owned' = n + (c + g)
      BY <1>1, <1>3, <2>10, <2>11, <3>1
    <3>3. (f - g) + 0 + (n + (c + g)) = f + c + n
      OBVIOUS
    <3> QED BY <3>1, <3>2, <3>3
  <2> QED BY <1>1, <2>13, BlocksMove
<1> QED BY <1>2, <1>3, Prefilled

(* One request changes the number of its blocks.                           *)
LEMMA OneChanges ==
  ASSUME NEW a \in Seq(ActiveRequest), NEW b \in Seq(ActiveRequest), NEW i \in DOMAIN a,
         DOMAIN b = DOMAIN a, DistinctIds(a),
         \A j \in DOMAIN a : b[j].id = a[j].id /\ (j # i => b[j].own = a[j].own)
  PROVE  Cardinality(BlocksOf(Range(b))) - b[i].own
           = Cardinality(BlocksOf(Range(a))) - a[i].own
<1> DEFINE rest == {a[j] : j \in DOMAIN a \ {i}}
           R    == BlocksOf(rest)
<1>1. rest \subseteq Range(a) /\ a[i] \in ActiveRequest /\ b[i] \in ActiveRequest
  BY DEF Range
<1>2. IsFiniteSet(R) /\ Cardinality(R) \in Nat
  BY <1>1, ActiveBlocksFinite
<1>3. \A x : x \in R <=> \E j \in DOMAIN a \ {i} : x \in OwnBlocks(a[j])
  BY DEF BlocksOf
<1>4. BlocksOf(Range(a)) = R \cup OwnBlocks(a[i])
  <2>1. \A x : x \in BlocksOf(Range(a)) <=> \E j \in DOMAIN a : x \in OwnBlocks(a[j])
    BY DEF BlocksOf, Range
  <2> HIDE DEF R
  <2> QED BY <1>3, <2>1
<1>5. BlocksOf(Range(b)) = R \cup OwnBlocks(b[i])
  <2>1. \A x : x \in BlocksOf(Range(b)) <=> \E j \in DOMAIN a : x \in OwnBlocks(b[j])
    BY DEF BlocksOf, Range
  <2>2. \A j \in DOMAIN a \ {i} : OwnBlocks(b[j]) = OwnBlocks(a[j])
    BY DEF OwnBlocks
  <2> HIDE DEF R
  <2> QED BY <1>3, <2>1, <2>2
<1>6. \A j \in DOMAIN a \ {i} : a[j].id # a[i].id
  BY DEF DistinctIds
<1>7. (\A x \in R : x \notin OwnBlocks(a[i])) /\ (\A x \in R : x \notin OwnBlocks(b[i]))
  <2>1. \A r \in rest : r.id # a[i].id /\ r.id # b[i].id
    BY <1>6
  <2> HIDE DEF rest
  <2>2. BlocksOf({a[i]}) = OwnBlocks(a[i]) /\ BlocksOf({b[i]}) = OwnBlocks(b[i])
    BY BlocksOfOne
  <2>3. \A x \in BlocksOf(rest) : x \notin BlocksOf({a[i]})
    <3>1. \A r \in rest, t \in {a[i]} : r.id # t.id
      BY <2>1
    <3> QED BY <3>1, BlocksApart
  <2>4. \A x \in BlocksOf(rest) : x \notin BlocksOf({b[i]})
    <3>1. \A r \in rest, t \in {b[i]} : r.id # t.id
      BY <2>1
    <3> QED BY <3>1, BlocksApart
  <2> QED BY <2>2, <2>3, <2>4
<1>8. /\ IsFiniteSet(OwnBlocks(a[i])) /\ IsFiniteSet(OwnBlocks(b[i]))
      /\ a[i].own \in Nat /\ b[i].own \in Nat
      /\ Cardinality(OwnBlocks(a[i])) = a[i].own
      /\ Cardinality(OwnBlocks(b[i])) = b[i].own
  <2>1. a[i].own \in Nat /\ b[i].own \in Nat
    BY <1>1 DEF ActiveRequest
  <2> QED BY <2>1, OwnBlocksFinite
<1> HIDE DEF R
<1>9. /\ Cardinality(BlocksOf(Range(a))) = Cardinality(R) + a[i].own
      /\ Cardinality(BlocksOf(Range(b))) = Cardinality(R) + b[i].own
  BY <1>2, <1>4, <1>5, <1>7, <1>8, DisjointUnion
<1> QED BY <1>2, <1>8, <1>9

\* Requests change, but not what they own.
LEMMA SameBlocks ==
  ASSUME NEW a, NEW b, DOMAIN b = DOMAIN a,
         \A i \in DOMAIN a : b[i].id = a[i].id /\ b[i].own = a[i].own
  PROVE  BlocksOf(Range(b)) = BlocksOf(Range(a))
<1>1. \A i \in DOMAIN a : OwnBlocks(b[i]) = OwnBlocks(a[i])
  BY DEF OwnBlocks
<1>2. \A x : x \in BlocksOf(Range(a)) <=> \E i \in DOMAIN a : x \in OwnBlocks(a[i])
  BY DEF BlocksOf, Range
<1>3. \A x : x \in BlocksOf(Range(b)) <=> \E i \in DOMAIN a : x \in OwnBlocks(b[i])
  BY DEF BlocksOf, Range
<1> QED BY <1>1, <1>2, <1>3

LEMMA DecodeTokenKeepsBlocks ==
  ASSUME State, State', Conserved, DecodeToken
  PROVE  Conserved'
<1>1. /\ DOMAIN active' = DOMAIN active /\ turn \in DOMAIN active
      /\ \E taken \in Nat : /\ free' = free - taken
                            /\ active'[turn].own = active[turn].own + taken
      /\ \A i \in DOMAIN active :
           /\ active'[i].id = active[i].id
           /\ i # turn => active'[i].own = active[i].own
  BY DecodeTokenKeepsState
<1>2. PICK taken \in Nat : /\ free' = free - taken
                           /\ active'[turn].own = active[turn].own + taken
  BY <1>1
<1>3. /\ active \in Seq(ActiveRequest) /\ active' \in Seq(ActiveRequest)
      /\ DistinctIds(active)
  BY DEF State, TypeOK, Places
<1>4. Owned' - active'[turn].own = Owned - active[turn].own
  BY <1>1, <1>3, OneChanges DEF Owned
<1>5. Owned' = Owned + taken
  <2>1. active[turn].own \in Nat
    BY <1>1, ActiveTyped DEF State
  <2> QED BY <1>2, <1>4, <2>1, BlockCounts, BlockCountsNext
<1>6. pc = "decode" /\ UNCHANGED <<pc, kv, cached, cand>>
  BY DEF DecodeToken, NextTurn
<1> QED BY <1>2, <1>5, <1>6, BlockCounts, BlockCountsNext, BlocksMove

LEMMA TurnsKeepBlocks ==
  ASSUME State, State', Conserved,
         DecodeFinishes \/ DecodeWaits \/ StepWorks \/ StepFails \/ Stall
  PROVE  Conserved'
<1>1. /\ DOMAIN active' = DOMAIN active /\ free' = free
      /\ \A i \in DOMAIN active :
           active'[i].id = active[i].id /\ active'[i].own = active[i].own
  <2>1. CASE DecodeFinishes \/ DecodeWaits
    BY <2>1, DecodeFinishesKeepsState, DecodeWaitsKeepsState
  <2>2. CASE StepWorks \/ StepFails \/ Stall
    BY <2>2, Stepped DEF SameRequest
  <2> QED BY <2>1, <2>2
<1>2. Owned' = Owned
  BY <1>1, SameBlocks DEF Owned
<1>3. pc = "decode" /\ pc' # "done" /\ UNCHANGED <<kv, cached, cand>>
  BY DEF DecodeFinishes, DecodeWaits, NextTurn, StepWorks, StepFails, Stall, TurnsTaken, AfterStep
<1> QED BY <1>1, <1>2, <1>3, BlocksMove

LEMMA ReapKeepsBlocks ==
  ASSUME State, State', Conserved, Reap
  PROVE  Conserved'
<1> DEFINE ended == {r \in Range(active) : r.phase # "Decoding"}
<1>1. /\ free' = free + Cardinality(BlocksOf(ended)) /\ pc = "reap" /\ pc' = "admit"
      /\ UNCHANGED <<kv, cached, cand>>
  BY DEF Reap
<1>2. Range(active') = {r \in Range(active) : r.phase = "Decoding"}
  BY Reaped
<1>3. Range(active) = Range(active') \cup ended
  BY <1>2
<1>4. \A r \in Range(active'), t \in ended : r.id # t.id
  BY <1>2 DEF State, Places, DistinctIds, Range
<1>5. active \in Seq(ActiveRequest) /\ active' \in Seq(ActiveRequest)
  BY DEF State, TypeOK
<1>6. /\ IsFiniteSet(BlocksOf(Range(active'))) /\ IsFiniteSet(BlocksOf(ended))
      /\ Cardinality(BlocksOf(ended)) \in Nat
  BY <1>5, ActiveBlocksFinite
<1> HIDE DEF ended
<1>7. Owned = Owned' + Cardinality(BlocksOf(ended))
  <2>1. \A x \in BlocksOf(Range(active')) : x \notin BlocksOf(ended)
    BY <1>4, BlocksApart
  <2>2. BlocksOf(Range(active)) = BlocksOf(Range(active')) \cup BlocksOf(ended)
    BY <1>3, BlocksOfUnion
  <2> QED BY <1>6, <2>1, <2>2, DisjointUnion DEF Owned
<1> QED BY <1>1, <1>6, <1>7, BlockCounts, BlockCountsNext, BlocksMove

LEMMA DrainKeepsBlocks ==
  ASSUME State, State', Conserved, Drain
  PROVE  Conserved'
<1>1. /\ free' = free + BlocksFor(cached) /\ pc = "drain" /\ pc' = "done"
      /\ UNCHANGED <<kv, cached, cand, active>>
  BY DEF Drain
<1>2. Owned' = Owned /\ Pool' = Pool /\ Shared = BlocksFor(cached) /\ Shared' = 0
  BY <1>1 DEF Owned, Pool, Shared
<1>3. free' + cand'.own + Owned' + 0 = Pool
  BY <1>1, <1>2, BlockCounts DEF Conserved
<1> QED BY <1>2, <1>3 DEF Conserved

LEMMA OthersKeepBlocks ==
  ASSUME Conserved, RoundEnds \/ UNCHANGED vars
  PROVE  Conserved'
<1>1. UNCHANGED <<kv, cached, cand, active, free>>
  BY DEF RoundEnds, vars
<1>2. pc' = pc \/ (pc # "done" /\ pc' # "done")
  BY DEF RoundEnds, vars
<1> QED BY <1>1, <1>2 DEF Conserved, Owned, Shared, Pool

LEMMA ConservedInvariant == Spec => []Conserved
<1>1. Init => Conserved
  BY ConservedInit
<1>2. State /\ State' /\ Conserved /\ [Next]_vars => Conserved'
  BY AdmissionKeepsBlocks, PrefillKeepsBlocks, DecodeTokenKeepsBlocks, TurnsKeepBlocks,
     ReapKeepsBlocks, DrainKeepsBlocks, OthersKeepBlocks DEF Next, Main, Returned
<1> QED BY <1>1, <1>2, StateInvariant, PTL DEF Spec

(* Between any two steps what is free, what the prefix holds and what the  *)
(* requests and the one in admission own is the pool, whatever fails.      *)
THEOREM AdmissionConservesBlocks == Spec => []BlocksConserved
<1>1. State /\ Conserved => BlocksConserved
  BY BlockCounts DEF Conserved, BlocksConserved, Owned, Shared, Pool
<1> QED BY <1>1, StateInvariant, ConservedInvariant, PTL

-----------------------------------------------------------------------------
(* Giving up.                                                              *)

LEMMA GivenUpInit == Init => GivesUpOnlyWhenStuck
BY DEF Init, GivesUpOnlyWhenStuck

\* No request waits and has failed when the turns are over.
LEMMA NoneGivenUp ==
  ASSUME State, TurnsTaken, NEW i \in DOMAIN active
  PROVE  /\ active[i].phase # "Failed"
         /\ i \in inputs => ~active[i].waiting
         /\ i \notin inputs /\ active[i].phase = "Decoding" =>
              active[i].waiting /\ free = 0 /\ OnDemand
<1>1. pc = "decode" /\ i < turn
  BY DEF TurnsTaken, State, TypeOK
<1> QED BY <1>1 DEF State, Turns

LEMMA StallIsStuck ==
  ASSUME State, State', Conserved, Stall
  PROVE  GivesUpOnlyWhenStuck'
<1>1. /\ active' \in Seq(ActiveRequest) /\ DOMAIN active' = DOMAIN active
      /\ TurnsTaken /\ pc' = "reap"
      /\ UNCHANGED <<kv, cached, next, cand, free, hinted, turn, inputs, round, admitted,
                     answers>>
      /\ \A i \in DOMAIN active : SameRequest(active[i], active'[i])
      /\ \A i \in DOMAIN active :
           active'[i].phase = "Failed" /\ active[i].phase # "Failed" =>
             \A j \in DOMAIN active : active[j].phase = "Decoding"
  BY Stepped
<1> DEFINE givenUp == {r \in Range(active') : r.waiting /\ r.phase = "Failed"}
<1>2. SUFFICES ASSUME givenUp # {}
               PROVE  Cardinality(BlocksOf(givenUp)) = NumBlocks - BlocksFor(cached)
  BY <1>1 DEF GivesUpOnlyWhenStuck
<1>3. PICK i \in DOMAIN active : active'[i].phase = "Failed"
  BY <1>1, <1>2 DEF Range
<1>4. inputs = {} /\ \A j \in DOMAIN active : active[j].phase = "Decoding"
  BY <1>1, <1>3, NoneGivenUp DEF Stall
<1>5. (\A j \in DOMAIN active : active[j].waiting) /\ free = 0 /\ OnDemand
  BY <1>1, <1>3, <1>4, NoneGivenUp
<1>6. \A j \in DOMAIN active : active'[j] = [active[j] EXCEPT !.phase = "Failed"]
  BY <1>4, <1>5 DEF Stall
<1>7. \A j \in DOMAIN active : active'[j].waiting /\ active'[j].phase = "Failed"
  BY <1>1, <1>5, <1>6, ActiveTyped DEF SameRequest, State, ActiveRequest
<1>8. givenUp = Range(active')
  BY <1>1, <1>7 DEF Range
<1>9. BlocksOf(givenUp) = BlocksOf(Range(active))
  <2>1. PICK b : b = active'
    OBVIOUS
  <2>2. DOMAIN b = DOMAIN active
        /\ \A j \in DOMAIN active : b[j].id = active[j].id /\ b[j].own = active[j].own
    BY <1>1, <2>1 DEF SameRequest
  <2>3. BlocksOf(Range(b)) = BlocksOf(Range(active))
    BY <2>2, SameBlocks
  <2> QED BY <1>8, <2>1, <2>3
<1>10. cand.own = 0 /\ Shared = BlocksFor(cached) /\ Pool = NumBlocks
  <2>1. pc = "decode"
    BY <1>1 DEF TurnsTaken
  <2> QED BY <1>5, <2>1 DEF State, Places, NoCand, Shared, Pool, OnDemand
<1>11. 0 + 0 + Owned + BlocksFor(cached) = NumBlocks
  BY <1>5, <1>10 DEF Conserved
<1>12. Owned = NumBlocks - BlocksFor(cached)
  BY <1>10, <1>11, BlockCounts
<1> QED BY <1>9, <1>12 DEF Owned

LEMMA StepGivesNoneUp ==
  ASSUME State, StepWorks \/ StepFails
  PROVE  GivesUpOnlyWhenStuck'
<1>1. /\ DOMAIN active' = DOMAIN active /\ TurnsTaken
      /\ \A i \in DOMAIN active : SameRequest(active[i], active'[i])
      /\ StepWorks => \A i \in DOMAIN active : active'[i].phase = active[i].phase
      /\ StepFails => \A i \in DOMAIN active :
                        active'[i].phase = "Failed" /\ active[i].phase # "Failed" => i \in inputs
  BY Stepped
<1>2. ASSUME NEW i \in DOMAIN active, active'[i].phase = "Failed"
      PROVE  ~active'[i].waiting
  <2>1. active[i].phase # "Failed" /\ (i \in inputs => ~active[i].waiting)
    BY <1>1, NoneGivenUp
  <2>2. i \in inputs
    BY <1>1, <1>2, <2>1
  <2> QED BY <1>1, <2>1, <2>2 DEF SameRequest
<1>3. \A r \in Range(active') : ~(r.waiting /\ r.phase = "Failed")
  BY <1>1, <1>2 DEF Range
<1> QED BY <1>3 DEF GivesUpOnlyWhenStuck

(* Requests that wait are given up only when no block is free and they own *)
(* every block outside the prefix: no step could have released one.        *)
THEOREM GivesUpInDeadEnds == Spec => []GivesUpOnlyWhenStuck
<1>1. Init => GivesUpOnlyWhenStuck
  BY GivenUpInit
<1>2. State /\ State' /\ Conserved /\ GivesUpOnlyWhenStuck /\ [Next]_vars
        => GivesUpOnlyWhenStuck'
  <2>1. SUFFICES ASSUME State, State', Conserved, GivesUpOnlyWhenStuck, [Next]_vars
                 PROVE  GivesUpOnlyWhenStuck'
    OBVIOUS
  <2>2. CASE StepWorks \/ StepFails \/ Stall
    BY <2>1, <2>2, StepGivesNoneUp, StallIsStuck
  <2>3. CASE UNCHANGED vars
    BY <2>1, <2>3 DEF GivesUpOnlyWhenStuck, vars
  <2>4. CASE NoAudio \/ FrontendFails \/ CopyFails \/ BeginPrefill \/ Prefill \/ PrefillFails
             \/ RoundEnds \/ DecodeFinishes \/ DecodeWaits \/ DecodeToken \/ Reap \/ Drain
    <3>1. pc' # "reap"
      BY <2>4 DEF NoAudio, FrontendFails, CopyFails, BeginPrefill, Prefill, PrefillFails,
                  RoundEnds, DecodeFinishes, DecodeWaits, DecodeToken, Reap, Drain, ChunkFails,
                  NextTurn
    <3> QED BY <3>1 DEF GivesUpOnlyWhenStuck
  <2> QED BY <2>1, <2>2, <2>3, <2>4 DEF Next, Main, Returned
<1> QED BY <1>1, <1>2, StateInvariant, ConservedInvariant, PTL DEF Spec

-----------------------------------------------------------------------------
(* Results.                                                                *)

\* A step gives some chunks their one result and leaves the others alone.
LEMMA StepAnswers ==
  ASSUME State, State',
         \A c \in Chunks : \/ answers'[c] = answers[c]
                           \/ answers[c] = <<>> /\ Len(answers'[c]) = Len(answers[c]) + 1
  PROVE  [Service!Next]_answers
<1> DEFINE S == {c \in Chunks : answers'[c] # answers[c]}
           outcome == [c \in S |-> answers'[c][1]]
<1>1. answers \in [Chunks -> Seq(Outcomes)] /\ answers' \in [Chunks -> Seq(Outcomes)]
  BY DEF State, TypeOK
<1>2. ASSUME NEW c \in S
      PROVE  /\ answers[c] = <<>>
             /\ answers'[c] = <<answers'[c][1]>> /\ answers'[c][1] \in Outcomes
  <2>1. PICK t \in Seq(Outcomes) : t = answers'[c]
    BY <1>1
  <2>2. answers[c] = <<>> /\ Len(answers'[c]) = Len(answers[c]) + 1
    OBVIOUS
  <2>3. Len(t) = 1
    BY <2>1, <2>2
  <2>4. t[1] \in Outcomes
    <3>1. 1 \in DOMAIN t
      BY <2>3
    <3> QED BY <3>1
  <2>5. t = <<t[1]>>
    BY <2>3, OneElement
  <2> QED BY <2>1, <2>2, <2>4, <2>5
<1>3. S \in SUBSET Service!Unanswered
  BY <1>2 DEF Service!Unanswered
<1>4. outcome \in [S -> {"Finished", "Failed"}]
  BY <1>2 DEF Outcomes
<1>5. \A c \in Chunks : answers'[c] = IF c \in S THEN <<outcome[c]>> ELSE answers[c]
  BY <1>2
<1> HIDE DEF outcome
<1>6. answers' = [c \in Chunks |-> IF c \in S THEN <<outcome[c]>> ELSE answers[c]]
  <2>1. answers' = [c \in Chunks |-> answers'[c]]
    BY <1>1
  <2> HIDE DEF S
  <2> QED BY <1>5, <2>1
<1>7. Service!Answer(S)
  BY <1>4, <1>6 DEF Service!Answer
<1>8. CASE S = {}
  <2>1. \A c \in Chunks : answers'[c] = answers[c]
    BY <1>8
  <2>2. answers' = [c \in Chunks |-> answers'[c]] /\ answers = [c \in Chunks |-> answers[c]]
    BY <1>1
  <2>3. answers' = answers
    BY <2>1, <2>2
  <2> QED BY <2>3
<1>9. CASE S # {}
  <2> HIDE DEF S
  <2> QED BY <1>3, <1>7, <1>9 DEF Service!Next
<1> QED BY <1>8, <1>9

LEMMA StepsAnswer ==
  ASSUME State, State', [Next]_vars
  PROVE  [Service!Next]_answers
<1>1. CASE NoAudio \/ FrontendFails \/ CopyFails \/ PrefillFails
  <2>1. next \in Chunks /\ \E n : ChunkFails(n)
    BY <1>1, NextIsChunk, PrefillTyped
       DEF State, NoAudio, FrontendFails, CopyFails, PrefillFails, MayAdmit
  <2>2. \A c \in Chunks : IF c = next THEN Len(answers'[c]) = Len(answers[c]) + 1
                                      ELSE answers'[c] = answers[c]
    BY <2>1, ChunkFailed
  <2>3. answers[next] = <<>>
    BY <2>1, Numbers DEF State, Places
  <2> QED BY <2>2, <2>3, StepAnswers
<1>2. CASE Reap
  <2>1. \A c \in Chunks :
              IF \E r \in Range(active) : r.phase # "Decoding" /\ r.id = c
              THEN Len(answers'[c]) = Len(answers[c]) + 1
              ELSE answers'[c] = answers[c]
    BY <1>2, Reaped
  <2>2. \A r \in Range(active) : answers[r.id] = <<>>
    BY DEF State, Places, Range
  <2> QED BY <2>1, <2>2, StepAnswers
<1>3. CASE \/ BeginPrefill \/ Prefill \/ RoundEnds \/ DecodeFinishes \/ DecodeWaits
           \/ DecodeToken \/ StepWorks \/ StepFails \/ Stall \/ Drain \/ UNCHANGED vars
  <2>1. UNCHANGED answers
    BY <1>3 DEF BeginPrefill, Prefill, RoundEnds, DecodeFinishes, DecodeWaits, DecodeToken,
                StepWorks, StepFails, Stall, Drain, vars, NextTurn, AfterStep
  <2> QED BY <2>1
<1> QED BY <1>1, <1>2, <1>3 DEF Next, Main, Returned

(* Whatever the recording and whatever fails: a chunk gets its result once *)
(* and keeps it; the engine implements the safety part of ChunkAnswers.    *)
THEOREM AnswersAreFinal == Spec => Service!AnswersStand
<1>1. Init => Service!Init
  BY DEF Init, Service!Init
<1>2. State /\ State' /\ [Next]_vars => [Service!Next]_answers
  BY StepsAnswer
<1> QED BY <1>1, <1>2, StateInvariant, PTL DEF Spec, Service!AnswersStand

-----------------------------------------------------------------------------
(* Returning.                                                              *)

IsActive(c) == \E i \in DOMAIN active : active[i].id = c

\* A chunk that was taken is active or has its result.
Answered == \A c \in Chunks : c < next => IsActive(c) \/ Len(answers[c]) = 1

\* The requests stay active, and no chunk is taken.
LEMMA AnsweredStays ==
  ASSUME Answered, DOMAIN active' = DOMAIN active, UNCHANGED <<next, answers>>,
         \A i \in DOMAIN active : active'[i].id = active[i].id
  PROVE  Answered'
BY DEF Answered, IsActive

LEMMA FailureIsAnswered ==
  ASSUME State, Answered, NoAudio \/ FrontendFails \/ CopyFails \/ PrefillFails
  PROVE  Answered'
<1>1. /\ next \in Chunks /\ \E n : ChunkFails(n)
      /\ next' = next + 1 /\ UNCHANGED active
  BY NextIsChunk, PrefillTyped
     DEF State, NoAudio, FrontendFails, CopyFails, PrefillFails, MayAdmit, ChunkFails
<1>2. \A c \in Chunks : IF c = next THEN Len(answers'[c]) = Len(answers[c]) + 1
                                    ELSE answers'[c] = answers[c]
  BY <1>1, ChunkFailed
<1>3. Len(answers'[next]) = 1
  <2>1. answers[next] = <<>>
    BY <1>1, Numbers DEF State, Places
  <2>2. PICK t : t = answers'[next] /\ Len(t) = Len(<<>>) + 1
    BY <1>1, <1>2, <2>1
  <2> QED BY <2>2
<1>4. ASSUME NEW c \in Chunks, c < next'
      PROVE  IsActive(c)' \/ Len(answers'[c]) = 1
  <2>1. c = next \/ c < next
    BY <1>1, <1>4, Numbers
  <2> QED BY <1>1, <1>2, <1>3, <2>1 DEF Answered, IsActive
<1> QED BY <1>4 DEF Answered

LEMMA PrefillIsAnswered ==
  ASSUME State, Answered, Prefill
  PROVE  Answered'
<1>1. next \in Chunks /\ UNCHANGED answers
  BY Prefilled
<1>2. CASE UNCHANGED <<next, active>>
  BY <1>1, <1>2 DEF Answered, IsActive
<1>3. ASSUME NEW r \in ActiveRequest, active' = Append(active, r), r.id = next,
             next' = next + 1
      PROVE  Answered'
  <2>1. /\ DOMAIN active' = 1 .. Len(active) + 1 /\ DOMAIN active = 1 .. Len(active)
        /\ Len(active) \in Nat /\ active'[Len(active) + 1] = r
        /\ \A i \in DOMAIN active : active'[i] = active[i]
    BY <1>3, Appended DEF State, TypeOK
  <2>2. \A c : c = next => IsActive(c)'
    BY <1>3, <2>1 DEF IsActive
  <2>3. \A c : IsActive(c) => IsActive(c)'
    BY <2>1 DEF IsActive
  <2>4. ASSUME NEW c \in Chunks, c < next'
        PROVE  IsActive(c)' \/ Len(answers'[c]) = 1
    <3>1. c = next \/ c < next
      BY <1>1, <1>3, <2>4, Numbers
    <3>2. CASE c = next
      BY <2>2, <3>2
    <3>3. CASE c < next
      BY <1>1, <2>3, <3>3 DEF Answered
    <3> QED BY <3>1, <3>2, <3>3
  <2> QED BY <2>4 DEF Answered
<1> QED BY <1>2, <1>3, Prefilled

LEMMA ReapIsAnswered ==
  ASSUME State, Answered, Reap
  PROVE  Answered'
<1>1. /\ Range(active') = {r \in Range(active) : r.phase = "Decoding"}
      /\ \A c \in Chunks :
           IF \E r \in Range(active) : r.phase # "Decoding" /\ r.id = c
           THEN Len(answers'[c]) = Len(answers[c]) + 1
           ELSE answers'[c] = answers[c]
  BY Reaped
<1>2. next' = next
  BY DEF Reap
<1>3. ASSUME NEW c \in Chunks, IsActive(c)
      PROVE  IsActive(c)' \/ Len(answers'[c]) = 1
  <2>1. PICK r : r \in Range(active) /\ r.id = c /\ answers[c] = <<>>
    BY <1>3 DEF Range, State, Places, IsActive
  <2>2. CASE r.phase = "Decoding"
    <3>1. r \in Range(active')
      BY <1>1, <2>1, <2>2
    <3> QED BY <2>1, <3>1 DEF IsActive, Range
  <2>3. CASE r.phase # "Decoding"
    <3>1. PICK t : t = answers'[c] /\ Len(t) = Len(<<>>) + 1
      BY <1>1, <2>1, <2>3
    <3> QED BY <3>1
  <2> QED BY <2>2, <2>3
<1>4. ASSUME NEW c \in Chunks, c < next, ~IsActive(c)
      PROVE  Len(answers'[c]) = 1
  <2>1. ~\E r \in Range(active) : r.phase # "Decoding" /\ r.id = c
    BY <1>4 DEF IsActive, Range
  <2> QED BY <1>1, <1>4, <2>1 DEF Answered
<1> QED BY <1>2, <1>3, <1>4 DEF Answered

LEMMA AnsweredInvariant == Spec => []Answered
<1>1. Init => Answered
  BY Numbers DEF Init, Answered
<1>2. State /\ State' /\ Answered /\ [Next]_vars => Answered'
  <2>1. SUFFICES ASSUME State, Answered, [Next]_vars
                 PROVE  Answered'
    OBVIOUS
  <2>2. CASE BeginPrefill \/ RoundEnds \/ Drain \/ UNCHANGED vars
    <3>1. UNCHANGED <<next, active, answers>>
      BY <2>2 DEF BeginPrefill, RoundEnds, Drain, vars
    <3> QED BY <2>1, <3>1, AnsweredStays
  <2>3. CASE DecodeFinishes \/ DecodeWaits \/ DecodeToken
    <3>1. UNCHANGED <<next, answers>>
      BY <2>3 DEF DecodeFinishes, DecodeWaits, DecodeToken, NextTurn
    <3> QED BY <2>1, <2>3, <3>1, AnsweredStays, DecodeFinishesKeepsState,
               DecodeWaitsKeepsState, DecodeTokenKeepsState
  <2>4. CASE StepWorks \/ StepFails \/ Stall
    <3>1. /\ UNCHANGED <<next, answers>> /\ DOMAIN active' = DOMAIN active
          /\ \A i \in DOMAIN active : active'[i].id = active[i].id
      BY <2>1, <2>4, Stepped DEF SameRequest
    <3> QED BY <2>1, <3>1, AnsweredStays
  <2> QED BY <2>1, <2>2, <2>3, <2>4, FailureIsAnswered, PrefillIsAnswered, ReapIsAnswered
             DEF Next, Main, Returned
<1> QED BY <1>1, <1>2, StateInvariant, PTL DEF Spec

(* When the call returns, through its end or by giving up, all blocks of   *)
(* the pool (or all slots) are free again and every chunk that was taken   *)
(* has its one result.                                                     *)
THEOREM ReturnsAllBlocks ==
  Spec => [](pc = "done" => /\ free = IF kv = "slots" THEN BatchSize ELSE NumBlocks
                            /\ \A c \in Chunks : c < next => Len(answers[c]) = 1)
<1>1. State /\ Conserved /\ Answered =>
        (pc = "done" => /\ free = IF kv = "slots" THEN BatchSize ELSE NumBlocks
                        /\ \A c \in Chunks : c < next => Len(answers[c]) = 1)
  <2>1. SUFFICES ASSUME State, Conserved, Answered, pc = "done"
                 PROVE  /\ free = Pool
                        /\ \A c \in Chunks : c < next => Len(answers[c]) = 1
    BY DEF Pool
  <2>2. active = <<>> /\ cand.own = 0 /\ Shared = 0
    BY <2>1 DEF State, Places, NoCand, Shared
  <2>3. Owned = 0
    <3>1. BlocksOf(Range(active)) = {}
      BY <2>2 DEF BlocksOf, Range
    <3> QED BY <3>1, FS_EmptySet DEF Owned
  <2>4. free = Pool
    BY <2>1, <2>2, <2>3, BlockCounts DEF Conserved
  <2>5. \A c \in Chunks : ~IsActive(c)
    BY <2>2 DEF IsActive
  <2> QED BY <2>1, <2>4, <2>5 DEF Answered
<1> QED BY <1>1, StateInvariant, ConservedInvariant, AnsweredInvariant, PTL
=============================================================================
