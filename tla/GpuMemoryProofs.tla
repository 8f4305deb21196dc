------------------------- MODULE GpuMemoryProofs -------------------------
(***************************************************************************)
(* What the engine keeps in device memory between its steps: the pool of   *)
(* prompt embeddings, with the frontend that fills it, and the graph cache *)
(* of the mixed runner.                                                    *)
(*                                                                         *)
(* The pool, for every number of slots, every set of prompt lengths and    *)
(* widths, and every number of claims and of pools.  Its properties are    *)
(* about handles that callers kept, so the inductive invariant has to say  *)
(* something of every handle ever issued: that those of this pool are not  *)
(* younger than their slot (IssuedPast), and that no two of them carry the *)
(* same claim (IssuedOnce).  The frontend's steps are steps of the pool's  *)
(* client (FrontendUsesPool), and a prompt holds what was written for its  *)
(* own request (PromptsAreOwn, from FInv).                                 *)
(*                                                                         *)
(* The cache, for every set of shapes, every size of the staging tensor    *)
(* and every capacity: graphs read the tensor and the buffer there are,    *)
(* and the least recent one is evicted (CacheInv).                         *)
(***************************************************************************)
EXTENDS PromptFrontend, GraphCache, FunctionTheorems, FiniteSetTheorems,
        SequenceTheorems, WellFoundedInduction, TLAPS


IssuedPast ==
    \A h \in issued :
        /\ h.epoch <= epoch
        /\ h.epoch = epoch =>
              h.slot < size /\ h.generation <= slots[h.slot].generation

IssuedOnce ==
    \A g, h \in issued :
        g.epoch = h.epoch /\ g.slot = h.slot /\ g.generation = h.generation
            => g = h

LiveOwned == \A h \in live : Owns(h)

TakenByLive ==
    \A i \in SlotIds : slots[i].in_use =>
        /\ i < size
        /\ slots[i].owner <= slots[i].capacity
        /\ \E h \in live : h.slot = i

ViewHeld ==
    viewing # NoView =>
        /\ viewing.handle \in live
        /\ viewing.offset + viewing.count <= viewing.handle.tokens

IInv ==
    /\ TypeOK
    /\ IssuedPast
    /\ IssuedOnce
    /\ LiveOwned
    /\ TakenByLive
    /\ ViewHeld

-----------------------------------------------------------------------------

(* A slot's number, and what its fields are. *)
LEMMA SlotFacts ==
    ASSUME TypeOK, NEW i \in SlotIds
    PROVE  /\ i \in Int /\ i >= 0
           /\ slots[i] \in Slot
           /\ slots[i].generation \in Nat
           /\ slots[i].capacity \in Nat
           /\ slots[i].owner \in Nat
           /\ slots[i].in_use \in BOOLEAN
<1>1. i \in Int /\ i >= 0
  BY PoolAssumption DEF SlotIds
<1>2. slots[i] \in Slot
  BY DEF TypeOK
<1>3. /\ slots[i].generation \in Nat
      /\ slots[i].capacity \in {0} \union TokenCounts
      /\ slots[i].owner \in {0} \union TokenCounts
      /\ slots[i].in_use \in BOOLEAN
  BY <1>2 DEF Slot
<1>4. {0} \union TokenCounts \subseteq Nat
  BY PoolAssumption
<1> QED BY <1>1, <1>2, <1>3, <1>4

LEMMA HandleFacts ==
    ASSUME NEW h \in Handle
    PROVE  /\ h.slot \in SlotIds /\ h.slot \in Int
           /\ h.generation \in Nat /\ h.generation >= 1
           /\ h.epoch \in Nat /\ h.epoch >= 1
           /\ h.tokens \in TokenCounts /\ h.tokens \in Nat
           /\ h.dim \in Dims
<1>1. /\ h.slot \in SlotIds /\ h.tokens \in TokenCounts /\ h.dim \in Dims
      /\ h.generation \in Nat \ {0} /\ h.epoch \in Nat \ {0}
  BY DEF Handle
<1>2. TokenCounts \subseteq Nat
  BY PoolAssumption
<1>3. h.slot \in Int
  BY <1>1, PoolAssumption DEF SlotIds
<1>4. h.generation \in Nat /\ h.generation >= 1 /\ h.epoch \in Nat /\ h.epoch >= 1
  BY <1>1
<1>5. h.tokens \in Nat
  BY <1>1, <1>2
<1> QED BY <1>1, <1>3, <1>4, <1>5

LEMMA ClaimedFacts ==
    ASSUME NEW s \in Slot, NEW n \in TokenCounts
    PROVE  /\ Claimed(s, n) \in Slot
           /\ Claimed(s, n).generation = s.generation + 1
           /\ Claimed(s, n).owner = n
           /\ Claimed(s, n).in_use
           /\ Claimed(s, n).dim = s.dim
           /\ Claimed(s, n).capacity = s.capacity
<1> DEFINE counted == [s EXCEPT !.generation = @ + 1]
           taken   == [counted EXCEPT !.owner = n, !.in_use = TRUE]
<1>1. /\ counted \in Slot
      /\ counted.generation = s.generation + 1
      /\ counted.dim = s.dim /\ counted.capacity = s.capacity
  BY DEF Slot
<1> HIDE DEF counted
<1>2. /\ taken \in Slot
      /\ taken.generation = counted.generation
      /\ taken.owner = n /\ taken.in_use
      /\ taken.dim = counted.dim /\ taken.capacity = counted.capacity
  BY <1>1 DEF Slot
<1>3. Claimed(s, n) = taken
  BY DEF Claimed, counted
<1> HIDE DEF taken
<1> QED BY <1>1, <1>2, <1>3

(* The handle a claim gives out is a handle, and none issued before has its
   claim. *)
LEMMA ClaimIsNew ==
    ASSUME TypeOK, IssuedPast, NEW i \in SlotIds, NEW n \in TokenCounts,
           NEW d \in Dims
    PROVE  /\ Claim(i, n, d) \in Handle
           /\ \A h \in issued : ~ (/\ h.epoch = epoch
                                   /\ h.slot = i
                                   /\ h.generation = slots[i].generation + 1)
<1>1. Claim(i, n, d) \in Handle
  BY SlotFacts, PoolAssumption DEF Claim, Handle, TypeOK
<1>2. ASSUME NEW h \in issued, h.epoch = epoch, h.slot = i
      PROVE  h.generation # slots[i].generation + 1
  <2>1. h.generation <= slots[i].generation
    BY <1>2 DEF IssuedPast
  <2>2. h.generation \in Nat
    BY HandleFacts DEF TypeOK
  <2> QED BY <2>1, <2>2, SlotFacts
<1> QED BY <1>1, <1>2

(* Claiming a free slot, whatever was done to its tensor. *)
LEMMA ClaimKeepsIInv ==
    ASSUME IInv, NEW i \in SlotIds, Free(i), NEW n \in TokenCounts, NEW d \in Dims,
           NEW s \in Slot,
           s.generation = slots[i].generation + 1,
           s.owner = n, s.dim = d, s.in_use, s.capacity >= n,
           slots' = [slots EXCEPT ![i] = s],
           GiveOut(Claim(i, n, d)),
           rows' \in [SlotIds -> [Rows -> Handle \union {Nobody}]],
           UNCHANGED <<epoch, size, viewing>>
    PROVE  IInv'
<1> USE DEF IInv
<1> DEFINE c == Claim(i, n, d)
<1>1. /\ c \in Handle
      /\ c.slot = i
      /\ c.generation = slots[i].generation + 1
      /\ c.epoch = epoch
      /\ c.tokens = n
      /\ c.dim = d
  BY ClaimIsNew DEF Claim
<1>2. \A h \in issued : ~ (/\ h.epoch = c.epoch
                           /\ h.slot = c.slot
                           /\ h.generation = c.generation)
  BY <1>1, ClaimIsNew
<1>3. issued' = issued \union {c} /\ live' = live \union {c}
  BY DEF GiveOut
<1>4. /\ slots'[i] = s
      /\ \A j \in SlotIds : j # i => slots'[j] = slots[j]
  BY DEF TypeOK
<1>5. \A h \in live : h.slot # i
  BY DEF LiveOwned, Owns, Free
<1> HIDE DEF c
<1>6. TypeOK'
  BY <1>1, <1>3 DEF TypeOK
<1>7. IssuedPast'
  <2> SUFFICES ASSUME NEW h \in issued'
               PROVE  /\ h.epoch <= epoch
                      /\ h.epoch = epoch =>
                           h.slot < size /\ h.generation <= slots'[h.slot].generation
    BY DEF IssuedPast
  <2>1. CASE h = c
    BY <2>1, <1>1, <1>4, SlotFacts DEF Free, TypeOK
  <2>2. CASE h \in issued
    <3>1. h \in Handle
      BY <2>2 DEF TypeOK
    <3>2. CASE h.slot = i
      BY <2>2, <3>1, <3>2, <1>4, SlotFacts, HandleFacts DEF IssuedPast
    <3>3. CASE h.slot # i
      BY <2>2, <3>1, <3>3, <1>4, HandleFacts DEF IssuedPast
    <3> QED BY <3>2, <3>3
  <2> QED BY <2>1, <2>2, <1>3
<1>8. IssuedOnce'
  BY <1>2, <1>3 DEF IssuedOnce
<1>9. LiveOwned'
  <2> SUFFICES ASSUME NEW h \in live' PROVE Owns(h)'
    BY DEF LiveOwned
  <2>1. CASE h = c
    BY <2>1, <1>1, <1>4 DEF Owns, Free
  <2>2. CASE h \in live
    <3>1. h \in Handle /\ h.slot # i
      BY <2>2, <1>5 DEF TypeOK
    <3> QED BY <2>2, <3>1, <1>4, HandleFacts DEF LiveOwned, Owns
  <2> QED BY <2>1, <2>2, <1>3
<1>10. TakenByLive'
  <2> SUFFICES ASSUME NEW j \in SlotIds, slots'[j].in_use
               PROVE  /\ j < size
                      /\ slots'[j].owner <= slots'[j].capacity
                      /\ \E h \in live' : h.slot = j
    BY DEF TakenByLive
  <2>1. CASE j = i
    BY <2>1, <1>1, <1>3, <1>4 DEF Free
  <2>2. CASE j # i
    BY <2>2, <1>3, <1>4 DEF TakenByLive
  <2> QED BY <2>1, <2>2
<1>11. ViewHeld'
  BY <1>3 DEF ViewHeld
<1> QED BY <1>6, <1>7, <1>8, <1>9, <1>10, <1>11

LEMMA FitsKeepIInv ==
    ASSUME IInv, NEW n \in TokenCounts, NEW d \in Dims, AcquireFitting(n, d)
    PROVE  IInv'
<1>1. PICK i \in BestFit(n, d) :
          /\ slots' = [slots EXCEPT ![i] = Claimed(@, n)]
          /\ GiveOut(Claim(i, n, d))
          /\ UNCHANGED <<epoch, size, rows, viewing>>
  BY DEF AcquireFitting
<1>2. i \in SlotIds /\ Free(i) /\ slots[i].dim = d /\ slots[i].capacity >= n
  BY DEF BestFit, Fitting
<1>3. TypeOK
  BY DEF IInv
<1> DEFINE s == Claimed(slots[i], n)
<1>4. /\ s \in Slot
      /\ s.generation = slots[i].generation + 1
      /\ s.owner = n /\ s.dim = d /\ s.in_use /\ s.capacity >= n
  <2>1. slots[i] \in Slot
    BY <1>2, <1>3, SlotFacts
  <2> QED BY <1>2, <2>1, ClaimedFacts
<1>5. slots' = [slots EXCEPT ![i] = s]
  BY <1>1
<1>6. rows' \in [SlotIds -> [Rows -> Handle \union {Nobody}]]
  BY <1>1, <1>3 DEF TypeOK
<1> HIDE DEF s
<1> QED BY <1>1, <1>2, <1>4, <1>5, <1>6, ClaimKeepsIInv

LEMMA RebuildKeepsIInv ==
    ASSUME IInv, NEW n \in TokenCounts, NEW d \in Dims, AcquireRebuilt(n, d)
    PROVE  IInv'
<1> DEFINE t(i) == [slots[i] EXCEPT !.capacity = n, !.dim = d]
<1>1. PICK i \in FirstFree :
          /\ slots' = [slots EXCEPT ![i] = Claimed(t(i), n)]
          /\ rows' = [rows EXCEPT ![i] = Blank]
          /\ GiveOut(Claim(i, n, d))
          /\ UNCHANGED <<epoch, size, viewing>>
  BY DEF AcquireRebuilt
<1>2. i \in SlotIds /\ Free(i)
  BY DEF FirstFree
<1>3. TypeOK
  BY DEF IInv
<1> DEFINE s == Claimed(t(i), n)
<1>4. /\ s \in Slot
      /\ s.generation = slots[i].generation + 1
      /\ s.owner = n /\ s.dim = d /\ s.in_use /\ s.capacity >= n
  <2>1. slots[i] \in Slot /\ n \in Nat
    BY <1>2, <1>3, SlotFacts, PoolAssumption
  <2>2. /\ t(i) \in Slot
        /\ t(i).capacity = n /\ t(i).dim = d
        /\ t(i).generation = slots[i].generation
    BY <2>1 DEF Slot
  <2>3. n >= n
    BY <2>1
  <2> HIDE DEF t
  <2>4. /\ s \in Slot /\ s.generation = t(i).generation + 1
        /\ s.owner = n /\ s.in_use /\ s.dim = t(i).dim /\ s.capacity = t(i).capacity
    BY <2>2, ClaimedFacts
  <2> QED BY <2>2, <2>3, <2>4
<1>5. slots' = [slots EXCEPT ![i] = s]
  BY <1>1
<1>6. rows' \in [SlotIds -> [Rows -> Handle \union {Nobody}]]
  BY <1>1, <1>3 DEF TypeOK, Blank
<1> HIDE DEF s
<1> QED BY <1>1, <1>2, <1>4, <1>5, <1>6, ClaimKeepsIInv

(* Any handle may be presented; the pool frees the slot of a live one only. *)
LEMMA ReleaseKeepsIInv ==
    ASSUME IInv, NEW h \in issued, ReleaseHandle(h)
    PROVE  IInv'
<1> USE DEF IInv
<1>1. CASE ~ Owns(h)
  <2>1. UNCHANGED vars
    BY <1>1 DEF ReleaseHandle, Release, vars
  <2> QED BY <2>1 DEF vars, TypeOK, IssuedPast, IssuedOnce, LiveOwned, Owns,
                      TakenByLive, ViewHeld
<1>2. CASE Owns(h)
  <2>1. h \in Handle /\ h.slot \in SlotIds
    BY HandleFacts DEF TypeOK
  <2>2. /\ slots' = [slots EXCEPT ![h.slot] = Freed(@)]
        /\ live' = {g \in live : g.slot # h.slot}
        /\ UNCHANGED <<epoch, size, rows, issued, viewing>>
    BY <1>2 DEF ReleaseHandle, Release
  <2>3. /\ slots'[h.slot] = Freed(slots[h.slot])
        /\ \A j \in SlotIds : j # h.slot => slots'[j] = slots[j]
    BY <2>1, <2>2 DEF TypeOK
  <2>4. /\ Freed(slots[h.slot]) \in Slot
        /\ Freed(slots[h.slot]).generation = slots[h.slot].generation
        /\ ~ Freed(slots[h.slot]).in_use
    BY <2>1, SlotFacts DEF Freed, Slot
  <2>5. TypeOK'
    BY <2>1, <2>2, <2>4 DEF TypeOK
  <2>6. IssuedPast'
    <3> SUFFICES ASSUME NEW g \in issued
                 PROVE  /\ g.epoch <= epoch
                        /\ g.epoch = epoch => /\ g.slot < size
                                              /\ g.generation <= slots'[g.slot].generation
      BY <2>2 DEF IssuedPast
    <3>1. g.slot \in SlotIds
      BY HandleFacts DEF TypeOK
    <3> QED BY <3>1, <2>3, <2>4 DEF IssuedPast
  <2>7. IssuedOnce'
    BY <2>2 DEF IssuedOnce
  <2>8. LiveOwned'
    <3> SUFFICES ASSUME NEW g \in live' PROVE Owns(g)'
      BY DEF LiveOwned
    <3>1. g \in live /\ g.slot # h.slot /\ g.slot \in SlotIds
      BY <2>2, HandleFacts DEF TypeOK
    <3> QED BY <3>1, <2>2, <2>3 DEF LiveOwned, Owns
  <2>9. TakenByLive'
    <3> SUFFICES ASSUME NEW j \in SlotIds, slots'[j].in_use
                 PROVE  /\ j < size
                        /\ slots'[j].owner <= slots'[j].capacity
                        /\ \E g \in live' : g.slot = j
      BY <2>2 DEF TakenByLive
    <3>1. j # h.slot
      BY <2>3, <2>4
    <3> QED BY <3>1, <2>2, <2>3 DEF TakenByLive
  <2>10. ViewHeld'
    <3> SUFFICES ASSUME viewing # NoView
                 PROVE  /\ viewing.handle \in live'
                        /\ viewing.offset + viewing.count <= viewing.handle.tokens
      BY <2>2 DEF ViewHeld
    <3>1. viewing.handle \in live /\ viewing.handle # h
      BY DEF ReleaseHandle, ViewHeld
    <3>2. viewing.handle.slot # h.slot
      \* two owned handles of one slot carry one claim, so they are equal
      BY <3>1, <1>2 DEF LiveOwned, Owns, IssuedOnce, TypeOK
    <3> QED BY <3>1, <3>2, <2>2 DEF ViewHeld
  <2> QED BY <2>5, <2>6, <2>7, <2>8, <2>9, <2>10
<1> QED BY <1>1, <1>2

THEOREM InitIInv == Init => IInv
  BY PoolAssumption
  DEF Init, IInv, TypeOK, IssuedPast, IssuedOnce, LiveOwned, TakenByLive, ViewHeld,
      EmptySlot, Slot, Blank, SlotIds, View

THEOREM NextIInv == IInv /\ [Next]_vars => IInv'
<1> SUFFICES ASSUME IInv, [Next]_vars PROVE IInv'
  OBVIOUS
<1>1. ASSUME NEW n \in TokenCounts, NEW d \in Dims, AcquireFitting(n, d)
      PROVE  IInv'
  BY <1>1, FitsKeepIInv
<1>2. ASSUME NEW n \in TokenCounts, NEW d \in Dims, AcquireRebuilt(n, d)
      PROVE  IInv'
  BY <1>2, RebuildKeepsIInv
<1>3. ASSUME NEW h \in issued, ReleaseHandle(h)
      PROVE  IInv'
  BY <1>3, ReleaseKeepsIInv
<1>4. ASSUME NEW h \in issued, NEW t \in Rows, NEW k \in 1 .. h.tokens,
             Write(h, t, k)
      PROVE  IInv'
  <2>1. UNCHANGED <<epoch, size, slots, issued, live, viewing>>
    BY <1>4 DEF Write
  <2>2. TypeOK'
    BY <1>4, <2>1 DEF IInv, TypeOK, Write
  <2> QED BY <2>1, <2>2 DEF IInv, IssuedPast, IssuedOnce, LiveOwned, Owns,
                            TakenByLive, ViewHeld
<1>5. ASSUME NEW h \in live, NEW t \in Rows, NEW k \in 1 .. h.tokens,
             TakeView(h, t, k)
      PROVE  IInv'
  <2>1. /\ UNCHANGED <<epoch, size, slots, rows, issued, live>>
        /\ viewing' = [live |-> TRUE, handle |-> h, offset |-> t, count |-> k]
        /\ t >= 0 /\ k > 0 /\ t + k <= h.tokens
    BY <1>5 DEF TakeView, ValidRange
  <2>2. h \in Handle /\ h.tokens \in Nat /\ t \in Nat /\ k \in Nat \ {0}
    <3>1. h \in Handle
      BY DEF IInv, TypeOK
    <3>2. h.tokens \in Nat
      BY <3>1, HandleFacts
    <3>3. PICK m \in TokenCounts : t \in 0 .. m - 1
      BY DEF Rows
    <3> QED BY <3>1, <3>2, <3>3, PoolAssumption
  <2>3. viewing' \in View
    BY <2>1, <2>2 DEF View
  <2>4. TypeOK'
    BY <2>1, <2>3 DEF IInv, TypeOK
  <2>5. ViewHeld'
    BY <2>1 DEF ViewHeld
  <2> QED BY <2>1, <2>4, <2>5 DEF IInv, IssuedPast, IssuedOnce, LiveOwned, Owns,
                                  TakenByLive
<1>6. CASE FinishView
  BY <1>6 DEF FinishView, IInv, TypeOK, IssuedPast, IssuedOnce, LiveOwned, Owns,
              TakenByLive, ViewHeld
<1>7. ASSUME NEW n \in 1 .. MaxSlots, ReserveSlots(n)
      PROVE  IInv'
  BY <1>7, PoolAssumption
  DEF ReserveSlots, IInv, TypeOK, IssuedPast, IssuedOnce, LiveOwned, Owns,
      TakenByLive, ViewHeld, SlotIds, Handle
<1>8. ASSUME NEW n \in 1 .. MaxSlots, Recreate(n)
      PROVE  IInv'
  <2>1. /\ epoch' = epoch + 1 /\ size' = n
        /\ slots' = [i \in SlotIds |-> EmptySlot]
        /\ rows' = [i \in SlotIds |-> Blank]
        /\ live' = {} /\ issued' = issued /\ viewing' = NoView
    BY <1>8 DEF Recreate
  <2>2. TypeOK'
    BY <2>1 DEF IInv, TypeOK, EmptySlot, Slot, Blank
  <2>3. IssuedPast'
    BY <2>1, HandleFacts DEF IInv, TypeOK, IssuedPast
  <2>4. TakenByLive'
    BY <2>1 DEF TakenByLive, EmptySlot
  <2> QED BY <2>1, <2>2, <2>3, <2>4 DEF IInv, IssuedOnce, LiveOwned, ViewHeld
<1>9. CASE UNCHANGED vars
  BY <1>9 DEF vars, IInv, TypeOK, IssuedPast, IssuedOnce, LiveOwned, Owns,
              TakenByLive, ViewHeld
<1> QED BY <1>1, <1>2, <1>3, <1>4, <1>5, <1>6, <1>7, <1>8, <1>9 DEF Next

THEOREM InductiveInvariant == Spec => []IInv
  BY InitIInv, NextIInv, PTL DEF Spec

-----------------------------------------------------------------------------

(* TypeOK holds in every reachable state. *)
THEOREM TypeCorrect == Spec => []TypeOK
  BY InductiveInvariant, PTL DEF IInv

(* Live handles are told apart by their slots. *)
LEMMA LiveDistinct ==
    ASSUME IInv, NEW g \in live, NEW h \in live, g.slot = h.slot
    PROVE  g = h
  BY DEF IInv, LiveOwned, Owns, IssuedOnce, TypeOK

LEMMA OwnedLemma == IInv => OwnedIffLive
<1> SUFFICES ASSUME IInv, NEW h \in issued
             PROVE  Owns(h) <=> h \in live
  BY DEF OwnedIffLive, IInv, TypeOK
<1>1. ASSUME Owns(h) PROVE h \in live
  <2>1. h.slot \in SlotIds
    BY HandleFacts DEF IInv, TypeOK
  <2>2. PICK g \in live : g.slot = h.slot
    BY <1>1, <2>1 DEF IInv, TakenByLive, Owns
  <2>3. g = h
    BY <1>1, <2>2 DEF IInv, LiveOwned, Owns, IssuedOnce, TypeOK
  <2> QED BY <2>2, <2>3
<1> QED BY <1>1 DEF IInv, LiveOwned

(* A handle is recognised exactly as long as its holder has not released
   it, whatever copies of it or of others are presented. *)
THEOREM OwnershipTracked == Spec => []OwnedIffLive
  BY InductiveInvariant, OwnedLemma, PTL

LEMMA HeldOnceLemma == IInv => SlotsHeldOnce
<1> SUFFICES ASSUME IInv PROVE FreeCount + Cardinality(live) = size
  BY LiveDistinct DEF SlotsHeldOnce
<1> DEFINE All   == 0 .. size - 1
           InUse == {i \in SlotIds : slots[i].in_use}
           f     == [h \in live |-> h.slot]
<1>1. size \in Nat /\ size >= 1 /\ size <= MaxSlots
  BY PoolAssumption DEF IInv, TypeOK
<1>2. IsFiniteSet(All) /\ Cardinality(All) = size
  BY <1>1, FS_Interval
<1>3. InUse \subseteq All
  BY <1>1 DEF IInv, TakenByLive, SlotIds
<1>4. {i \in SlotIds : Free(i)} = All \ InUse
  BY <1>1, PoolAssumption DEF Free, SlotIds
<1>5. IsFiniteSet(InUse) /\ Cardinality(InUse) <= size
  BY <1>2, <1>3, FS_Subset
<1>6. Cardinality(All \ InUse) = size - Cardinality(InUse)
  <2>1. All \intersect InUse = InUse
    BY <1>3
  <2>2. Cardinality(All \ InUse) = Cardinality(All) - Cardinality(All \intersect InUse)
    BY <1>2, FS_Difference
  <2> QED BY <1>2, <2>1, <2>2
<1>7. f \in Bijection(live, InUse)
  <2>1. f \in [live -> InUse]
    BY HandleFacts DEF IInv, TypeOK, LiveOwned, Owns
  <2>2. \A g, h \in live : f[g] = f[h] => g = h
    BY LiveDistinct
  <2>3. \A i \in InUse : \E h \in live : f[h] = i
    BY DEF IInv, TakenByLive
  <2> QED BY <2>1, <2>2, <2>3 DEF Bijection, Injection, Surjection, IsInjective
<1>8. Cardinality(live) = Cardinality(InUse)
  <2>1. ExistsBijection(live, InUse)
    BY <1>7 DEF ExistsBijection
  <2>2. ExistsBijection(InUse, live)
    BY <2>1, Fun_ExistsBijSymmetric
  <2> QED BY <1>5, <2>2, FS_Bijection
<1>9. Cardinality(InUse) \in Nat
  BY <1>5, FS_CardinalityType
<1>10. FreeCount = size - Cardinality(InUse)
  BY <1>4, <1>6 DEF FreeCount
<1> HIDE DEF InUse
<1> QED BY <1>1, <1>8, <1>9, <1>10

(* Slots are held by at most one holder each, and the number of free slots
   that the engine reads is what the holders have left. *)
THEOREM SlotsConserved == Spec => []SlotsHeldOnce
  BY InductiveInvariant, HeldOnceLemma, PTL

LEMMA FitsLemma == IInv => HandleFitsBacking
<1> SUFFICES ASSUME IInv, NEW h \in live
             PROVE  slots[h.slot].dim = h.dim /\ slots[h.slot].capacity >= h.tokens
  BY DEF HandleFitsBacking
<1>1. h.slot \in SlotIds /\ Owns(h)
  BY HandleFacts DEF IInv, TypeOK, LiveOwned
<1> QED BY <1>1, SlotFacts, HandleFacts DEF IInv, TypeOK, TakenByLive, Owns

(* The ranges that the methods check against a handle lie inside the tensor
   behind it. *)
THEOREM RangesAreInside == Spec => []HandleFitsBacking
  BY InductiveInvariant, FitsLemma, PTL

LEMMA ViewLemma == IInv => ViewStaysBacked
<1> SUFFICES ASSUME IInv, viewing # NoView PROVE ViewStaysBacked
  BY DEF ViewStaysBacked
<1>1. viewing.handle \in live /\ viewing.handle \in Handle
  BY DEF IInv, ViewHeld, TypeOK
<1>2. viewing \in View
  BY DEF IInv, TypeOK
<1>3. viewing.offset \in Nat /\ viewing.count \in Nat
  BY <1>2 DEF View
<1>4. slots[viewing.handle.slot].capacity >= viewing.handle.tokens
  BY <1>1, FitsLemma DEF HandleFitsBacking
<1>5. slots[viewing.handle.slot].capacity \in Nat
  BY <1>1, HandleFacts, SlotFacts DEF IInv
<1> QED BY <1>1, <1>3, <1>4, <1>5, HandleFacts
        DEF ViewStaysBacked, IInv, ViewHeld, LiveOwned

(* A view read without the lock still shows its handle's slot. *)
THEOREM ViewsAreSafe == Spec => []ViewStaysBacked
  BY InductiveInvariant, ViewLemma, PTL

LEMMA KeptLemma ==
    ASSUME IInv, [Next]_vars, NEW h \in live \intersect live', NEW t \in Rows,
           rows[h.slot][t] = h
    PROVE  rows'[h.slot][t] = h
<1>1. /\ h \in Handle /\ h.slot \in SlotIds
      /\ Owns(h)
      /\ rows \in [SlotIds -> [Rows -> Handle \union {Nobody}]]
  BY HandleFacts DEF IInv, TypeOK, LiveOwned
<1>2. ASSUME NEW n \in TokenCounts, NEW d \in Dims, AcquireRebuilt(n, d)
      PROVE  rows'[h.slot][t] = h
  <2>1. PICK i \in FirstFree : rows' = [rows EXCEPT ![i] = Blank]
    BY <1>2 DEF AcquireRebuilt
  <2>2. i # h.slot
    BY <1>1 DEF FirstFree, Free, Owns
  <2> QED BY <1>1, <2>1, <2>2
<1>3. ASSUME NEW g \in issued, NEW u \in Rows, NEW k \in 1 .. g.tokens,
             Write(g, u, k)
      PROVE  rows'[h.slot][t] = h
  <2>1. g \in live
    BY <1>3, OwnedLemma DEF OwnedIffLive, Write
  <2>2. CASE g.slot = h.slot
    <3>1. g = h
      BY <2>1, <2>2, LiveDistinct
    <3> QED BY <1>1, <1>3, <3>1 DEF Write
  <2>3. CASE g.slot # h.slot
    BY <1>1, <1>3, <2>3 DEF Write
  <2> QED BY <2>2, <2>3
<1>4. ASSUME NEW n \in 1 .. MaxSlots, Recreate(n)
      PROVE  rows'[h.slot][t] = h
  BY <1>4 DEF Recreate
<1>5. CASE rows' = rows
  BY <1>5
<1> QED BY <1>2, <1>3, <1>4, <1>5
        DEF Next, AcquireFitting, ReleaseHandle, Release, TakeView, FinishView,
            ReserveSlots, vars

(* No step of another holder reaches rows that somebody still owns. *)
THEOREM HoldersDoNotCollide == Spec => HeldRowsKept
<1>1. IInv /\ [Next]_vars =>
        [\A h \in live \intersect live' :
            \A t \in Rows : rows[h.slot][t] = h => rows'[h.slot][t] = h]_vars
  BY KeptLemma
<1> QED BY <1>1, InductiveInvariant, PTL DEF Spec, HeldRowsKept

-----------------------------------------------------------------------------
(***************************************************************************)
(* The frontend's calls.  What a call has in hand is kept in the order of  *)
(* its members: up to Done they are settled, and the one it is at may have *)
(* a handle whose rows are partly written.                                 *)
(***************************************************************************)
Filling == {"audio", "prefix", "suffix"}
Phases == {"forward", "acquire", "undo", "deliver"} \union Filling
Calls == [phase : Phases, job : Jobs, members : UNION {Members(n) : n \in Nat},
          cached : {0, PrefixTokens}, at : Nat \ {0}, way : {"single", "batch"},
          held : SUBSET Handle,
          results : UNION {[1 .. n -> Handle \union {Nobody}] : n \in Nat}]

WellFormed(c) ==
    /\ c \in Calls
    /\ c.members \in Members(Len(c.job))
    /\ c.results \in [1 .. Len(c.job) -> Handle \union {Nobody}]
    /\ c.at <= Len(c.members)

At(c) == c.members[c.at]
Done(c) == IF c.phase = "deliver" THEN Len(c.members) ELSE c.at - 1
Settled(c, m) == {c.results[c.members[k]] : k \in 1 .. m} \ {Nobody}
InHand(c) == IF c.phase \in Filling THEN {c.results[At(c)]} ELSE {}

(* The handles a call holds are those of its results, each of one request. *)
Distinct(c, m) ==
    \A j, k \in 1 .. m :
        /\ c.results[c.members[j]] = c.results[c.members[k]]
        /\ c.results[c.members[j]] # Nobody
        => j = k
OnlyMembers(c) ==
    \A i \in 1 .. Len(c.job) :
        c.results[i] # Nobody => \E k \in 1 .. Len(c.members) : i = c.members[k]

Tidy(c) ==
    /\ c.phase # "undo" =>
          /\ c.held = Settled(c, Done(c)) \union InHand(c)
          /\ InHand(c) \intersect (Settled(c, Done(c)) \union {Nobody}) = {}
          /\ Distinct(c, Done(c))
    /\ OnlyMembers(c)
    /\ c.phase = "undo" => c.way = "batch"
    /\ c.phase = "forward" /\ c.way = "batch" => c.at = 1

Told(h, r, cached, t) ==
    /\ rows[h.slot][t] = h
    /\ says[h.slot][t] = Said(r, cached, t)
Whole(h, r, cached) ==
    /\ h \in live
    /\ h.tokens = StoredTokens(r, cached)
    /\ \A t \in 0 .. h.tokens - 1 : Told(h, r, cached, t)

ToldSoFar(c, t) ==
    \/ /\ c.phase \in {"prefix", "suffix"}
       /\ t \in StoredPrefix(c.cached) ..
                StoredPrefix(c.cached) + AudioFrames[c.job[At(c)]] - 1
    \/ c.phase = "suffix" /\ t \in 0 .. StoredPrefix(c.cached) - 1

SettledWhole(c) ==
    \A k \in 1 .. Done(c) :
        c.results[c.members[k]] # Nobody =>
            Whole(c.results[c.members[k]], c.job[c.members[k]], c.cached)
HandSound(c) ==
    c.phase \in Filling =>
        LET h == c.results[At(c)]  r == c.job[At(c)] IN
        /\ h.tokens = StoredTokens(r, c.cached)
        /\ \A t \in 0 .. h.tokens - 1 :
              ToldSoFar(c, t) => Told(h, r, c.cached, t)
Staged(c) ==
    c.phase \in {"acquire"} \union Filling =>
        IF c.way = "single" THEN staging.one = c.job[At(c)]
        ELSE staging.many = [b \in DOMAIN c.members |-> c.job[c.members[b]]]

Sound(c) ==
    /\ WellFormed(c)
    /\ Tidy(c)
    /\ c.phase # "undo" => SettledWhole(c)
    /\ HandSound(c)
    /\ Staged(c)
CallSound == call = Idle \/ Sound(call)

PromptsWhole ==
    \A p \in prompts :
        /\ p.request \in Requests
        /\ p.cached \in {0, PrefixTokens}
        /\ p.handle \in Handle
        /\ Whole(p.handle, p.request, p.cached)
PromptsApart == \A p, q \in prompts : p.handle = q.handle => p = q
Accounted ==
    /\ live = {p.handle : p \in prompts} \union Holding
    /\ \A p \in prompts : p.handle \notin Holding

SaysOK == says = [i \in SlotIds |-> says[i]]

StagingOK == staging = [one |-> staging.one, many |-> staging.many]

(* The engine reads prompts it has, never a handle that a call still fills. *)
ViewOfPrompt ==
    viewing # NoView => \E p \in prompts : viewing.handle = p.handle

FInv ==
    /\ SaysOK
    /\ StagingOK
    /\ CallSound
    /\ PromptsWhole
    /\ PromptsApart
    /\ Accounted
    /\ ViewOfPrompt

-----------------------------------------------------------------------------

(* The places of a call, and the fields of its record. *)
LEMMA CallFacts ==
    ASSUME NEW c, WellFormed(c)
    PROVE  /\ c.job \in [1 .. Len(c.job) -> Requests]
           /\ Len(c.job) \in Nat
           /\ DOMAIN c.job = 1 .. Len(c.job)
           /\ \A i, j \in 1 .. Len(c.job) : c.job[i] = c.job[j] => i = j
           /\ Len(c.members) \in Nat
           /\ DOMAIN c.members = 1 .. Len(c.members)
           /\ c.members \in [1 .. Len(c.members) -> 1 .. Len(c.job)]
           /\ \A j, k \in 1 .. Len(c.members) :
                 c.members[j] = c.members[k] => j = k
           /\ c.at \in 1 .. Len(c.members)
           /\ At(c) \in 1 .. Len(c.job)
           /\ c.job[At(c)] \in Requests
           /\ c.cached \in {0, PrefixTokens}
<1>1. c \in Calls
  BY DEF WellFormed
<1>2. c.job \in Jobs /\ c.cached \in {0, PrefixTokens} /\ c.at \in Nat \ {0}
  BY <1>1 DEF Calls
<1>3. PICK n \in Nat : c.job \in [1 .. n -> Requests]
  BY <1>2 DEF Jobs
<1>4. /\ Len(c.job) = n /\ DOMAIN c.job = 1 .. n
  BY <1>3
<1>5. \A i, j \in 1 .. n : c.job[i] = c.job[j] => i = j
  BY <1>2, <1>4 DEF Jobs
<1>6. c.members \in Members(n)
  BY <1>4 DEF WellFormed
<1>7. PICK k \in 1 .. n : c.members \in [1 .. k -> 1 .. n]
  BY <1>6 DEF Members
<1>8. Len(c.members) = k /\ DOMAIN c.members = 1 .. k
  BY <1>7
<1>9. \A i, j \in 1 .. k : i < j => c.members[i] < c.members[j]
  BY <1>6, <1>8 DEF Members
<1>10. \A i, j \in 1 .. k : c.members[i] = c.members[j] => i = j
  <2> SUFFICES ASSUME NEW i \in 1 .. k, NEW j \in 1 .. k,
                      c.members[i] = c.members[j], i # j
               PROVE  FALSE
    OBVIOUS
  <2>1. i \in Int /\ j \in Int /\ c.members[i] \in Int
    BY <1>7
  <2> QED BY <2>1, <1>9
<1>11. c.at \in 1 .. k
  BY <1>2, <1>8 DEF WellFormed
<1>12. At(c) \in 1 .. n
  BY <1>7, <1>11 DEF At
<1> QED BY <1>2, <1>3, <1>4, <1>5, <1>7, <1>8, <1>10, <1>11, <1>12

(* Changing a few fields of a call's record. *)
LEMMA CallWith ==
    ASSUME NEW c, WellFormed(c), NEW p \in Phases, NEW a \in 1 .. Len(c.members),
           NEW b \in {"single", "batch"}, NEW held \in SUBSET Handle,
           NEW results \in [1 .. Len(c.job) -> Handle \union {Nobody}],
           NEW d,
           d = [phase |-> p, job |-> c.job, members |-> c.members,
                cached |-> c.cached, at |-> a, way |-> b, held |-> held,
                results |-> results]
    PROVE  WellFormed(d)
<1>1. Len(c.job) \in Nat /\ Len(c.members) \in Nat
  BY CallFacts
<1>2. /\ c.job \in Jobs /\ c.cached \in {0, PrefixTokens}
      /\ c.members \in Members(Len(c.job))
  BY DEF WellFormed, Calls
<1>3. results \in UNION {[1 .. n -> Handle \union {Nobody}] : n \in Nat}
  BY <1>1
<1>4. c.members \in UNION {Members(n) : n \in Nat}
  BY <1>1, <1>2
<1>5. a \in Nat \ {0} /\ a <= Len(c.members)
  BY <1>1
<1>6. d \in Calls
  BY <1>2, <1>3, <1>4, <1>5 DEF Calls
<1> QED BY <1>2, <1>5, <1>6 DEF WellFormed

LEMMA CallIsRecord ==
    ASSUME NEW c, WellFormed(c)
    PROVE  /\ c = [phase |-> c.phase, job |-> c.job, members |-> c.members,
                   cached |-> c.cached, at |-> c.at, way |-> c.way,
                   held |-> c.held, results |-> c.results]
           /\ c.phase \in Phases /\ c.way \in {"single", "batch"} /\ c.held \in SUBSET Handle
           /\ c.results \in [1 .. Len(c.job) -> Handle \union {Nobody}]
           /\ c.phase # "idle"
  BY DEF WellFormed, Calls, Phases, Filling

(* A call from its fields, and one field changed. *)
Call(p, j, m, ca, a, al, h, r) ==
    [phase |-> p, job |-> j, members |-> m, cached |-> ca, at |-> a,
     way |-> al, held |-> h, results |-> r]

LEMMA FieldChanges ==
    ASSUME NEW p, NEW j, NEW m, NEW ca, NEW a, NEW al, NEW h, NEW r, NEW x
    PROVE  LET c == Call(p, j, m, ca, a, al, h, r) IN
           /\ [c EXCEPT !.phase = x] = Call(x, j, m, ca, a, al, h, r)
           /\ [c EXCEPT !.at = x] = Call(p, j, m, ca, x, al, h, r)
           /\ [c EXCEPT !.way = x] = Call(p, j, m, ca, a, x, h, r)
           /\ [c EXCEPT !.held = x] = Call(p, j, m, ca, a, al, x, r)
           /\ [c EXCEPT !.results = x] = Call(p, j, m, ca, a, al, h, x)
           /\ c.phase = p /\ c.job = j /\ c.members = m /\ c.cached = ca
           /\ c.at = a /\ c.way = al /\ c.held = h /\ c.results = r
  BY DEF Call

LEMMA CallOf ==
    ASSUME NEW c, WellFormed(c)
    PROVE  c = Call(c.phase, c.job, c.members, c.cached, c.at, c.way, c.held,
                    c.results)
  BY CallIsRecord DEF Call

(* What is settled grows by one when the call goes on. *)
LEMMA OnwardLemma ==
    ASSUME NEW c, WellFormed(c), c.phase \notin {"deliver", "undo"},
           OnlyMembers(c), c.held = Settled(c, c.at), Distinct(c, c.at)
    PROVE  /\ WellFormed(Onward(c)) /\ Tidy(Onward(c))
           /\ Done(Onward(c)) = c.at
           /\ Onward(c).phase \in {"deliver", "forward", "acquire"}
           /\ Onward(c).phase = "acquire" => c.way = "batch"
           /\ Onward(c).results = c.results /\ Onward(c).members = c.members
           /\ Onward(c).job = c.job /\ Onward(c).cached = c.cached
           /\ Onward(c).way = c.way /\ Onward(c).held = c.held
<1> DEFINE d == Onward(c)
           p == IF c.at = Len(c.members) THEN "deliver"
                ELSE IF c.way = "single" THEN "forward" ELSE "acquire"
           a == IF c.at = Len(c.members) THEN c.at ELSE c.at + 1
<1>1. c.at \in 1 .. Len(c.members) /\ Len(c.members) \in Nat
  BY CallFacts
<1>2. p \in Phases /\ a \in 1 .. Len(c.members)
  BY <1>1 DEF Phases
<1> DEFINE R(q, n) == Call(q, c.job, c.members, c.cached, n, c.way, c.held, c.results)
<1>3. d = R(p, a)
  <2>1. c = R(c.phase, c.at)
    BY CallOf
  <2>2. [c EXCEPT !.phase = "deliver"] = R("deliver", c.at)
    BY <2>1, FieldChanges
  <2>3. [c EXCEPT !.at = @ + 1] = R(c.phase, c.at + 1)
    BY <2>1, FieldChanges
  <2>4. [R(c.phase, c.at + 1) EXCEPT !.phase = p] = R(p, c.at + 1)
    <3> HIDE DEF p
    <3>1. PICK n : n = c.at + 1
      OBVIOUS
    <3>2. [R(c.phase, n) EXCEPT !.phase = p] = R(p, n)
      BY FieldChanges
    <3> QED BY <3>1, <3>2
  <2> QED BY <2>2, <2>3, <2>4 DEF Onward
<1> HIDE DEF d
<1>31. /\ d.phase = p /\ d.job = c.job /\ d.members = c.members
       /\ d.cached = c.cached /\ d.at = a /\ d.way = c.way
       /\ d.held = c.held /\ d.results = c.results
  BY <1>3, FieldChanges
<1>4. WellFormed(d)
  BY <1>2, <1>3, CallIsRecord, CallWith DEF Call
<1>5. Done(d) = c.at
  BY <1>1, <1>31 DEF Done
<1>6. Settled(d, c.at) = Settled(c, c.at)
  BY <1>31 DEF Settled
<1>7. InHand(d) = {}
  BY <1>31 DEF InHand, Filling
<1>8. Distinct(d, c.at)
  BY <1>31 DEF Distinct
<1>9. OnlyMembers(d)
  BY <1>31 DEF OnlyMembers
<1>10. d.phase \in {"deliver", "forward", "acquire"} /\ (d.phase = "acquire" => c.way = "batch")
       /\ (d.phase = "forward" => d.way = "single") /\ d.held = c.held
  BY <1>31, CallIsRecord
<1>11. Tidy(d)
  BY <1>5, <1>6, <1>7, <1>8, <1>9, <1>10 DEF Tidy
<1> QED BY <1>31, <1>4, <1>5, <1>10, <1>11 DEF d

(* A request that gets no prompt adds nothing. *)
LEMMA GivenUpLemma ==
    ASSUME NEW c, WellFormed(c), c.phase \in {"forward", "acquire", "audio"},
           c.way = "single", Tidy(c)
    PROVE  LET d == GivenUp(c, InHand(c)) IN
           /\ WellFormed(d) /\ Tidy(d)
           /\ Done(d) = c.at
           /\ d.phase \in {"deliver", "forward"}
           /\ d.members = c.members /\ d.job = c.job /\ d.cached = c.cached
           /\ d.held = c.held \ InHand(c)
           /\ d.results[At(c)] = Nobody
           /\ \A k \in 1 .. Done(c) :
                 d.results[c.members[k]] = c.results[c.members[k]]
<1> DEFINE gone == InHand(c)
           e == [c EXCEPT !.held = @ \ gone, !.results[c.members[c.at]] = Nobody]
           res == [c.results EXCEPT ![At(c)] = Nobody]
<1>1. /\ c.at \in 1 .. Len(c.members) /\ Len(c.members) \in Nat
      /\ At(c) \in 1 .. Len(c.job)
      /\ Done(c) = c.at - 1
  BY CallFacts DEF Done
<1>2. res \in [1 .. Len(c.job) -> Handle \union {Nobody}]
  BY <1>1, CallIsRecord
<1> DEFINE R(h, r) == Call(c.phase, c.job, c.members, c.cached, c.at, c.way, h, r)
           kept == c.held \ gone
<1>31. e = R(kept, res)
  <2>1. c = R(c.held, c.results)
    BY CallOf
  <2>2. \A h : [c EXCEPT !.held = h] = R(h, c.results)
    BY <2>1, FieldChanges
  <2>3. \A h, r : [R(h, c.results) EXCEPT !.results = r] = R(h, r)
    BY FieldChanges
  <2>4. \A h : R(h, c.results).results = c.results
    BY FieldChanges
  <2> HIDE DEF R, gone, kept
  <2>5. [c EXCEPT !.held = c.held \ gone] = R(kept, c.results)
    BY <2>2 DEF kept
  <2>6. e = [R(kept, c.results) EXCEPT !.results = res]
    BY <2>4, <2>5 DEF At
  <2> QED BY <2>3, <2>6
<1> HIDE DEF kept, e, res
<1>3. /\ e.phase = c.phase /\ e.job = c.job /\ e.members = c.members
      /\ e.cached = c.cached /\ e.at = c.at /\ e.way = c.way
      /\ e.held = c.held \ gone /\ e.results = res
  BY <1>31, FieldChanges DEF kept
<1>4. /\ res[At(c)] = Nobody
      /\ \A k \in 1 .. Len(c.members) :
            k # c.at => res[c.members[k]] = c.results[c.members[k]]
      /\ \A i \in 1 .. Len(c.job) : i # At(c) => res[i] = c.results[i]
  BY <1>1, CallFacts, CallIsRecord DEF At, res
<1>5. GivenUp(c, gone) = Onward(e)
  BY DEF GivenUp, e
<1>6. WellFormed(e)
  BY <1>1, <1>2, <1>31, CallIsRecord, CallWith DEF Call, kept
<1>7. OnlyMembers(e)
  BY <1>3, <1>4 DEF OnlyMembers, Tidy
<1>8. Settled(e, c.at) = Settled(c, Done(c))
  <2>1. \A k \in 1 .. Done(c) : e.results[e.members[k]] = c.results[c.members[k]]
    BY <1>1, <1>3, <1>4
  <2>2. e.results[e.members[c.at]] = Nobody
    BY <1>3, <1>4 DEF At
  <2>3. 1 .. c.at = 1 .. Done(c) \union {c.at}
    BY <1>1
  <2> QED BY <2>1, <2>2, <2>3 DEF Settled
<1>9. Distinct(e, c.at)
  <2> SUFFICES ASSUME NEW j \in 1 .. c.at, NEW k \in 1 .. c.at,
                      e.results[e.members[j]] = e.results[e.members[k]],
                      e.results[e.members[j]] # Nobody
               PROVE  j = k
    BY <1>3 DEF Distinct
  <2>1. j # c.at /\ k # c.at
    BY <1>3, <1>4 DEF At
  <2>2. j \in 1 .. Done(c) /\ k \in 1 .. Done(c)
    BY <1>1, <2>1
  <2>3. /\ e.results[e.members[j]] = c.results[c.members[j]]
        /\ e.results[e.members[k]] = c.results[c.members[k]]
    BY <1>1, <1>3, <1>4, <2>1
  <2> QED BY <2>2, <2>3 DEF Tidy, Distinct
<1>10. e.held = Settled(e, e.at)
  <2>1. c.held = Settled(c, Done(c)) \union gone
    BY DEF Tidy
  <2>2. gone \intersect Settled(c, Done(c)) = {}
    BY DEF Tidy
  <2> QED BY <2>1, <2>2, <1>3, <1>8
<1>11. e.phase \notin {"deliver", "undo"} /\ e.at = c.at /\ e.way = "single"
  BY <1>3
<1>12. /\ WellFormed(Onward(e)) /\ Tidy(Onward(e))
       /\ Done(Onward(e)) = e.at
       /\ Onward(e).phase \in {"deliver", "forward", "acquire"}
       /\ Onward(e).phase = "acquire" => e.way = "batch"
       /\ Onward(e).results = e.results /\ Onward(e).members = e.members
       /\ Onward(e).job = e.job /\ Onward(e).cached = e.cached
       /\ Onward(e).held = e.held
  BY <1>6, <1>7, <1>9, <1>10, <1>11, OnwardLemma
<1>13. \A k \in 1 .. Done(c) : e.results[c.members[k]] = c.results[c.members[k]]
  BY <1>1, <1>3, <1>4
<1> QED BY <1>3, <1>4, <1>5, <1>11, <1>12, <1>13

(* Starting over. *)
LEMMA FallBackLemma ==
    ASSUME NEW c, WellFormed(c), c.held = {}, OnlyMembers(c)
    PROVE  LET d == FallBack(c) IN
           /\ WellFormed(d) /\ Tidy(d)
           /\ Done(d) = 0 /\ d.phase = "forward" /\ d.held = {}
<1> DEFINE d == FallBack(c)
<1>1. 1 \in 1 .. Len(c.members)
  BY CallFacts
<1> DEFINE R(p, n, al) == Call(p, c.job, c.members, c.cached, n, al, c.held, c.results)
<1>2. d = R("forward", 1, "single")
  <2>1. c = R(c.phase, c.at, c.way)
    BY CallOf
  <2>2. [c EXCEPT !.phase = "forward"] = R("forward", c.at, c.way)
    BY <2>1, FieldChanges
  <2>3. [R("forward", c.at, c.way) EXCEPT !.at = 1] = R("forward", 1, c.way)
    BY FieldChanges
  <2>4. [R("forward", 1, c.way) EXCEPT !.way = "single"] = R("forward", 1, "single")
    BY FieldChanges
  <2> QED BY <2>2, <2>3, <2>4 DEF FallBack
<1> HIDE DEF d
<1>21. /\ d.phase = "forward" /\ d.job = c.job /\ d.members = c.members
       /\ d.cached = c.cached /\ d.at = 1 /\ d.way = "single"
       /\ d.held = c.held /\ d.results = c.results
  BY <1>2, FieldChanges
<1>3. WellFormed(d)
  BY <1>1, <1>2, CallIsRecord, CallWith DEF Phases, Call
<1>4. Done(d) = 0 /\ d.held = {} /\ InHand(d) = {} /\ d.phase = "forward" /\ d.way = "single"
  BY <1>21 DEF Done, InHand, Filling
<1>5. Settled(d, 0) = {} /\ Distinct(d, 0)
  BY DEF Settled, Distinct
<1>6. OnlyMembers(d)
  BY <1>21 DEF OnlyMembers
<1> QED BY <1>3, <1>4, <1>5, <1>6 DEF Tidy, d

-----------------------------------------------------------------------------
(***************************************************************************)
(* What the pool's steps do to the handles that are live, and to the rows  *)
(* of those the step is not about.                                         *)
(***************************************************************************)
LEMMA LiveFacts ==
    ASSUME IInv, NEW h \in live
    PROVE  /\ h \in Handle /\ h \in issued /\ h.slot \in SlotIds
           /\ h.tokens \in TokenCounts /\ h.tokens \in Nat
           /\ \A t \in 0 .. h.tokens - 1 : t \in Rows
           /\ Owns(h)
           /\ h # Nobody
<1>1. h \in Handle /\ h \in issued /\ Owns(h)
  BY DEF IInv, TypeOK, LiveOwned
<1>2. /\ h.slot \in SlotIds /\ h.tokens \in TokenCounts /\ h.tokens \in Nat
      /\ h.generation >= 1
  BY <1>1, HandleFacts
<1>3. \A t \in 0 .. h.tokens - 1 : t \in Rows
  BY <1>2 DEF Rows
<1>4. h # Nobody
  BY <1>2 DEF Nobody
<1> QED BY <1>1, <1>2, <1>3, <1>4

LEMMA WholeKept ==
    ASSUME IInv, [Next]_vars, NEW h \in live, h \in live',
           says'[h.slot] = says[h.slot],
           NEW r, NEW cached, Whole(h, r, cached)
    PROVE  Whole(h, r, cached)'
<1>1. \A t \in 0 .. h.tokens - 1 : t \in Rows
  BY LiveFacts
<1>2. ASSUME NEW t \in 0 .. h.tokens - 1 PROVE Told(h, r, cached, t)'
  <2>1. Told(h, r, cached, t)
    BY DEF Whole
  <2>2. rows'[h.slot][t] = h
    BY <1>1, <2>1, KeptLemma DEF Told
  <2> QED BY <2>1, <2>2 DEF Told
<1> QED BY <1>2 DEF Whole

LEMMA ReleaseFacts ==
    ASSUME IInv, NEW h \in live, Release(h)
    PROVE  live' = live \ {h} /\ rows' = rows /\ issued' = issued /\ viewing' = viewing
<1>1. Owns(h)
  BY LiveFacts
<1>2. live' = {g \in live : g.slot # h.slot}
  BY <1>1 DEF Release
<1>3. \A g \in live : g.slot = h.slot => g = h
  BY LiveDistinct
<1> QED BY <1>2, <1>3 DEF Release

LEMMA StaleRelease ==
    ASSUME IInv, NEW h \in issued, h \notin live, Release(h)
    PROVE  live' = live /\ rows' = rows /\ viewing' = viewing
<1>1. ~ Owns(h)
  BY OwnedLemma DEF OwnedIffLive
<1> QED BY <1>1 DEF Release

LEMMA AcquireFacts ==
    ASSUME IInv, NEW n \in TokenCounts, NEW d \in Dims,
           AcquireFitting(n, d) \/ AcquireRebuilt(n, d)
    PROVE  /\ viewing' = viewing
           /\ \E h \in Handle : /\ live' = live \union {h}
                                /\ h \notin live
                                /\ h.tokens = n
<1>1. PICK i \in SlotIds : GiveOut(Claim(i, n, d))
  BY DEF AcquireFitting, AcquireRebuilt, BestFit, Fitting, FirstFree
<1>2. /\ Claim(i, n, d) \in Handle
      /\ \A h \in issued : ~ (/\ h.epoch = epoch
                              /\ h.slot = i
                              /\ h.generation = slots[i].generation + 1)
  BY ClaimIsNew DEF IInv
<1>3. Claim(i, n, d) \notin issued /\ Claim(i, n, d).tokens = n
  BY <1>2 DEF Claim
<1>4. live' = live \union {Claim(i, n, d)} /\ live \subseteq issued
  BY <1>1 DEF GiveOut, IInv, TypeOK
<1>5. viewing' = viewing
  BY DEF AcquireFitting, AcquireRebuilt
<1> QED BY <1>2, <1>3, <1>4, <1>5

LEMMA TellFacts ==
    ASSUME IInv, SaysOK, NEW h \in live, NEW offset \in Nat,
           NEW count \in Nat \ {0}, offset + count <= h.tokens, NEW source,
           Tell(h, offset, count, source)
    PROVE  /\ Next
           /\ live' = live /\ viewing' = viewing
           /\ SaysOK'
           /\ \A t \in Rows : t \in offset .. offset + count - 1 =>
                 /\ rows'[h.slot][t] = h
                 /\ says'[h.slot][t] = [of |-> source, at |-> t - offset]
           /\ \A t \in Rows : t \notin offset .. offset + count - 1 =>
                 /\ rows'[h.slot][t] = rows[h.slot][t]
                 /\ says'[h.slot][t] = says[h.slot][t]
           /\ \A g \in live : g # h => says'[g.slot] = says[g.slot]
<1>1. h \in issued /\ h.slot \in SlotIds /\ h.tokens \in Nat
  BY LiveFacts
<1>2. offset \in Rows /\ count \in 1 .. h.tokens
  <2>1. offset \in 0 .. h.tokens - 1
    BY <1>1
  <2> QED BY <1>1, <2>1, LiveFacts
<1>3. Write(h, offset, count)
  BY DEF Tell
<1>4. Next
  BY <1>1, <1>2, <1>3 DEF Next
<1>5. /\ live' = live /\ viewing' = viewing
      /\ rows' = [rows EXCEPT ![h.slot] =
                   [t \in Rows |-> IF t \in offset .. offset + count - 1
                                     THEN h ELSE @[t]]]
  BY <1>3 DEF Write
<1>6. says' = [says EXCEPT ![h.slot] =
                   [t \in Rows |-> IF t \in offset .. offset + count - 1
                                     THEN [of |-> source, at |-> t - offset]
                                     ELSE @[t]]]
  BY DEF Tell
<1>7. says'[h.slot] = [t \in Rows |-> IF t \in offset .. offset + count - 1
                                     THEN [of |-> source, at |-> t - offset]
                                     ELSE says[h.slot][t]]
  BY <1>1, <1>6 DEF SaysOK
<1>8. rows'[h.slot] = [t \in Rows |-> IF t \in offset .. offset + count - 1
                                     THEN h ELSE rows[h.slot][t]]
  BY <1>1, <1>5 DEF IInv, TypeOK
<1>9. SaysOK'
  BY <1>6 DEF SaysOK
<1>10. ASSUME NEW g \in live, g # h PROVE says'[g.slot] = says[g.slot]
  <2>1. g.slot # h.slot /\ g.slot \in SlotIds
    BY <1>10, LiveDistinct, LiveFacts
  <2> QED BY <2>1, <1>6 DEF SaysOK
<1> QED BY <1>4, <1>5, <1>7, <1>8, <1>9, <1>10

(* Prompts and settled requests that a step does not touch stay whole. *)
LEMMA PromptsKept ==
    ASSUME IInv, PromptsWhole, PromptsApart, [Next]_vars, prompts' \subseteq prompts,
           \A p \in prompts' : /\ p.handle \in live'
                               /\ says'[p.handle.slot] = says[p.handle.slot]
    PROVE  PromptsWhole' /\ PromptsApart'
<1>1. ASSUME NEW p \in prompts'
      PROVE  Whole(p.handle, p.request, p.cached)'
  <2>1. /\ p.handle \in live'
        /\ says'[p.handle.slot] = says[p.handle.slot]
        /\ Whole(p.handle, p.request, p.cached)
        /\ p.handle \in live
    BY DEF PromptsWhole, Whole
  <2> QED BY <2>1, WholeKept
<1> QED BY <1>1 DEF PromptsWhole, PromptsApart

LEMMA SettledKept ==
    ASSUME IInv, [Next]_vars, NEW c, NEW m \in Int, m = Done(c), SettledWhole(c),
           \A h \in Settled(c, m) : /\ h \in live'
                                    /\ says'[h.slot] = says[h.slot]
    PROVE  SettledWhole(c)'
<1> SUFFICES ASSUME NEW k \in 1 .. m, c.results[c.members[k]] # Nobody
             PROVE  Whole(c.results[c.members[k]], c.job[c.members[k]], c.cached)'
  BY DEF SettledWhole
<1> DEFINE h == c.results[c.members[k]]
<1>1. h \in Settled(c, m)
  BY DEF Settled
<1>2. Whole(h, c.job[c.members[k]], c.cached)
  BY DEF SettledWhole
<1>3. h \in live
  BY <1>2 DEF Whole
<1> HIDE DEF h
<1>4. Whole(h, c.job[c.members[k]], c.cached)'
  BY <1>1, <1>2, <1>3, WholeKept
<1> QED BY <1>4 DEF h

-----------------------------------------------------------------------------
(***************************************************************************)
(* Each action keeps FInv and is a step of the pool.                       *)
(***************************************************************************)
LEMMA PhaseLemma ==
    ASSUME NEW c, WellFormed(c), NEW p \in Phases
    PROVE  LET d == [c EXCEPT !.phase = p] IN
           /\ WellFormed(d)
           /\ d.phase = p /\ d.job = c.job /\ d.members = c.members
           /\ d.cached = c.cached /\ d.at = c.at /\ d.way = c.way
           /\ d.held = c.held /\ d.results = c.results
<1> DEFINE d == [c EXCEPT !.phase = p]
<1>1. d = Call(p, c.job, c.members, c.cached, c.at, c.way, c.held, c.results)
  <2> DEFINE R(q) == Call(q, c.job, c.members, c.cached, c.at, c.way, c.held, c.results)
  <2>1. c = R(c.phase)
    BY CallOf
  <2>2. \A q : [R(q) EXCEPT !.phase = p] = R(p)
    BY FieldChanges
  <2> HIDE DEF R
  <2>3. d = R(p)
    BY <2>1, <2>2
  <2> QED BY <2>3 DEF R
<1> HIDE DEF d
<1>2. /\ d.phase = p /\ d.job = c.job /\ d.members = c.members
      /\ d.cached = c.cached /\ d.at = c.at /\ d.way = c.way
      /\ d.held = c.held /\ d.results = c.results
  BY <1>1, FieldChanges
<1>3. c.at \in 1 .. Len(c.members)
  BY CallFacts
<1>4. /\ c.way \in {"single", "batch"} /\ c.held \in SUBSET Handle
      /\ c.results \in [1 .. Len(c.job) -> Handle \union {Nobody}]
  BY CallIsRecord
<1>5. WellFormed(d)
  BY <1>1, <1>3, <1>4, CallWith DEF Call
<1> QED BY <1>2, <1>5 DEF d

(* A step that changes neither pool nor rows nor prompts. *)
LEMMA QuietStep ==
    ASSUME FInv, UNCHANGED <<vars, says, prompts>>, NEW d, call' = d,
           WellFormed(d), Tidy(d), d.held = Holding,
           d.phase # "undo" => SettledWhole(d), HandSound(d), Staged(d)', StagingOK'
    PROVE  FInv' /\ [Next]_vars
<1>1. UNCHANGED <<live, rows, says, prompts>>
  BY DEF vars
<1>2. (d.phase # "undo" => SettledWhole(d)') /\ HandSound(d)'
  BY <1>1 DEF SettledWhole, HandSound, Whole, Told, ToldSoFar
<1>3. Sound(call)'
  BY <1>2 DEF Sound, SettledWhole, HandSound, Staged, Whole, Told, ToldSoFar
<1>4. PromptsWhole' /\ PromptsApart' /\ SaysOK'
  BY <1>1 DEF FInv, PromptsWhole, PromptsApart, SaysOK, Whole, Told
<1>5. Holding' = Holding
  BY CallIsRecord DEF Holding
<1>6. Accounted'
  BY <1>1, <1>5 DEF FInv, Accounted
<1>7. ViewOfPrompt'
  BY DEF FInv, ViewOfPrompt, vars
<1> QED BY <1>3, <1>4, <1>6, <1>7 DEF FInv, CallSound

LEMMA BeginStep == ASSUME FInv, BeginCall PROVE FInv' /\ [Next]_vars
<1>1. PICK job \in Jobs, cached \in {0, PrefixTokens} :
          \E ms \in Members(Len(job)) :
            call' = [phase |-> "forward", job |-> job, members |-> ms,
                     cached |-> cached, at |-> 1,
                     way |-> IF Len(ms) < 2 THEN "single" ELSE "batch",
                     held |-> {}, results |-> [i \in DOMAIN job |-> Nobody]]
  BY DEF BeginCall
<1>0. PICK members \in Members(Len(job)) :
          call' = [phase |-> "forward", job |-> job, members |-> members,
                   cached |-> cached, at |-> 1,
                   way |-> IF Len(members) < 2 THEN "single" ELSE "batch",
                   held |-> {}, results |-> [i \in DOMAIN job |-> Nobody]]
  BY <1>1
<1> DEFINE w == IF Len(members) < 2 THEN "single" ELSE "batch"
           none == [i \in DOMAIN job |-> Nobody]
           d == Call("forward", job, members, cached, 1, w, {}, none)
<1>2. call' = d
  BY <1>0 DEF Call
<1>3. PICK n \in 1 .. Cardinality(Requests) : job \in [1 .. n -> Requests]
  BY DEF Jobs
<1>4. Len(job) = n /\ DOMAIN job = 1 .. n /\ n \in Nat
  BY <1>3
<1>5. PICK k \in 1 .. n : members \in [1 .. k -> 1 .. n]
  BY <1>4 DEF Members
<1>6. Len(members) = k /\ k >= 1
  BY <1>5
<1>7. none \in [1 .. n -> Handle \union {Nobody}]
  BY <1>4
<1>8. members \in UNION {Members(i) : i \in Nat} /\ w \in {"single", "batch"}
  BY <1>4
<1> HIDE DEF w, none
<1>9. d \in Calls
  BY <1>4, <1>7, <1>8 DEF Calls, Call, Phases
<1>10. /\ d.phase = "forward" /\ d.job = job /\ d.members = members
       /\ d.at = 1 /\ d.held = {} /\ d.results = none /\ d.way = w
  BY DEF Call
<1> HIDE DEF d
<1>11. WellFormed(d)
  BY <1>4, <1>6, <1>7, <1>9, <1>10 DEF WellFormed
<1>12. Done(d) = 0 /\ InHand(d) = {} /\ Settled(d, 0) = {} /\ Distinct(d, 0)
  BY <1>10 DEF Done, InHand, Filling, Settled, Distinct
<1>13. OnlyMembers(d)
  BY <1>4, <1>10 DEF OnlyMembers, none
<1>14. Tidy(d)
  BY <1>10, <1>12, <1>13 DEF Tidy
<1>15. d.held = Holding /\ UNCHANGED <<vars, says, prompts>>
  BY <1>10 DEF BeginCall, Holding
<1>16. SettledWhole(d) /\ HandSound(d) /\ Staged(d)'
  BY <1>10, <1>12 DEF SettledWhole, HandSound, Staged, Filling
<1>17. StagingOK'
  BY DEF FInv, StagingOK, BeginCall
<1> QED BY <1>2, <1>11, <1>14, <1>15, <1>16, <1>17, QuietStep

(* What a busy call is. *)
LEMMA BusyFacts ==
    ASSUME FInv, NEW c, c = call, c.phase # "idle"
    PROVE  Sound(c) /\ WellFormed(c) /\ Holding = c.held /\ Done(c) \in Int
<1>1. Sound(c)
  BY DEF FInv, CallSound, Idle
<1> QED BY <1>1, CallFacts DEF Sound, Holding, Done

(* The same call in another phase, at the same place. *)
LEMMA PhaseKeeps ==
    ASSUME NEW c, Sound(c), c.phase \in {"forward", "acquire", "audio"},
           NEW p \in {"forward", "acquire"}, c.phase # "audio", p = "forward" => c.phase = "forward"
    PROVE  LET d == [c EXCEPT !.phase = p] IN
           /\ WellFormed(d) /\ Tidy(d) /\ SettledWhole(d) /\ HandSound(d)
<1> DEFINE d == [c EXCEPT !.phase = p]
<1>1. /\ WellFormed(d)
      /\ d.phase = p /\ d.job = c.job /\ d.members = c.members
      /\ d.cached = c.cached /\ d.at = c.at /\ d.way = c.way
      /\ d.held = c.held /\ d.results = c.results
  BY PhaseLemma DEF Sound, Phases
<1> HIDE DEF d
<1>2. Done(d) = Done(c) /\ InHand(d) = {} /\ InHand(c) = {}
  BY <1>1 DEF Done, InHand, Filling
<1>3. \A m : Settled(d, m) = Settled(c, m) /\ (Distinct(d, m) <=> Distinct(c, m))
  BY <1>1 DEF Settled, Distinct
<1>4. OnlyMembers(d)
  BY <1>1 DEF Sound, Tidy, OnlyMembers
<1>5. Tidy(d)
  BY <1>1, <1>2, <1>3, <1>4 DEF Sound, Tidy
<1>6. SettledWhole(d)
  BY <1>1, <1>2 DEF Sound, SettledWhole
<1>7. HandSound(d)
  BY <1>1 DEF HandSound, Filling
<1> QED BY <1>1, <1>5, <1>6, <1>7 DEF d

LEMMA ForwardStep ==
    ASSUME FInv, ForwardOne \/ ForwardBatch
    PROVE  FInv' /\ [Next]_vars
<1>0. PICK c : c = call
  OBVIOUS
<1> DEFINE d == [c EXCEPT !.phase = "acquire"]
<1>1. /\ c.phase = "forward" /\ call' = d /\ UNCHANGED <<vars, says, prompts>>
  BY <1>0 DEF ForwardOne, ForwardBatch
<1>2. Sound(c) /\ WellFormed(c) /\ Holding = c.held
  BY <1>0, <1>1, BusyFacts
<1>3. WellFormed(d) /\ Tidy(d) /\ SettledWhole(d) /\ HandSound(d)
  BY <1>1, <1>2, PhaseKeeps
<1>4. /\ d.held = c.held /\ d.way = c.way /\ d.at = c.at
      /\ d.job = c.job /\ d.members = c.members
  BY <1>2, PhaseLemma DEF Phases
<1> HIDE DEF d
<1>5. DOMAIN c.members = DOMAIN d.members
  BY <1>4
<1>6. Staged(d)'
  BY <1>0, <1>4, <1>5
     DEF FInv, StagingOK, ForwardOne, ForwardBatch, Staged, Current, Place, At,
         Slices
<1>7. StagingOK'
  BY DEF FInv, StagingOK, ForwardOne, ForwardBatch
<1> QED BY <1>1, <1>2, <1>3, <1>4, <1>6, <1>7, QuietStep

(* A request that gets no prompt before it has a handle. *)
LEMMA GivenUpStep ==
    ASSUME FInv, call.phase \in {"forward", "acquire"}, call.way = "single",
           call' = GivenUp(call, {}), UNCHANGED <<vars, says, prompts>>,
           StagingOK'
    PROVE  FInv' /\ [Next]_vars
<1>0. PICK c : c = call
  OBVIOUS
<1> DEFINE d == GivenUp(c, {})
<1>00. c.phase \in {"forward", "acquire"} /\ c.way = "single" /\ call' = d
  BY <1>0
<1>1. Sound(c) /\ WellFormed(c) /\ Holding = c.held
  BY <1>0, <1>00, BusyFacts
<1>2. InHand(c) = {}
  BY <1>00 DEF InHand, Filling
<1>3. /\ WellFormed(d) /\ Tidy(d)
      /\ Done(d) = c.at
      /\ d.phase \in {"deliver", "forward"}
      /\ d.members = c.members /\ d.job = c.job /\ d.cached = c.cached
      /\ d.held = c.held
      /\ d.results[At(c)] = Nobody
      /\ \A k \in 1 .. Done(c) :
            d.results[c.members[k]] = c.results[c.members[k]]
  BY SMTT(30), <1>00, <1>1, <1>2, GivenUpLemma DEF Sound
<1> HIDE DEF d
<1>4. SettledWhole(d)
  <2>1. c.at \in Nat /\ Done(c) = c.at - 1
    BY <1>00, <1>1, CallFacts DEF Done
  <2>2. \A k \in 1 .. c.at : k \in 1 .. Done(c) \/ k = c.at
    BY <2>1
  <2> QED BY <1>00, <1>1, <1>3, <2>2 DEF Sound, SettledWhole, At
<1>5. HandSound(d) /\ Staged(d)'
  BY <1>3 DEF HandSound, Staged, Filling
<1> QED BY <1>00, <1>1, <1>3, <1>4, <1>5, QuietStep

LEMMA FallBackStep ==
    ASSUME FInv, call.phase # "idle", call.held = {}, call' = FallBack(call),
           UNCHANGED <<vars, says, prompts>>,
           StagingOK'
    PROVE  FInv' /\ [Next]_vars
<1>0. PICK c : c = call
  OBVIOUS
<1> DEFINE d == FallBack(c)
<1>00. c.phase # "idle" /\ c.held = {} /\ call' = d
  BY <1>0
<1>1. Sound(c) /\ WellFormed(c) /\ Holding = c.held
  BY <1>0, <1>00, BusyFacts
<1>2. WellFormed(d) /\ Tidy(d) /\ Done(d) = 0 /\ d.phase = "forward" /\ d.held = {}
  BY <1>00, <1>1, FallBackLemma DEF Sound, Tidy
<1> HIDE DEF d
<1>3. SettledWhole(d) /\ HandSound(d) /\ Staged(d)'
  BY <1>2 DEF SettledWhole, HandSound, Staged, Filling
<1> QED BY <1>00, <1>1, <1>2, <1>3, QuietStep

(* The batch is given up: the call goes on to release what it holds. *)
LEMMA ToUndoStep ==
    ASSUME FInv, call.phase \in {"acquire", "audio"}, call.way = "batch",
           call' = [call EXCEPT !.phase = "undo"], UNCHANGED <<vars, says, prompts>>,
           StagingOK'
    PROVE  FInv' /\ [Next]_vars
<1>0. PICK c : c = call
  OBVIOUS
<1> DEFINE d == [c EXCEPT !.phase = "undo"]
<1>00. c.phase \in {"acquire", "audio"} /\ c.way = "batch" /\ call' = d
  BY <1>0
<1>1. Sound(c) /\ WellFormed(c) /\ Holding = c.held
  BY <1>0, <1>00, BusyFacts
<1>2. /\ WellFormed(d)
      /\ d.phase = "undo" /\ d.job = c.job /\ d.members = c.members
      /\ d.way = c.way /\ d.held = c.held /\ d.results = c.results
  BY <1>1, PhaseLemma DEF Phases
<1> HIDE DEF d
<1>3. OnlyMembers(d)
  BY <1>1, <1>2 DEF Sound, Tidy, OnlyMembers
<1>4. Tidy(d)
  BY <1>00, <1>2, <1>3 DEF Tidy
<1>5. HandSound(d) /\ Staged(d)'
  BY <1>2 DEF HandSound, Staged, Filling
<1> QED BY <1>00, <1>1, <1>2, <1>4, <1>5, QuietStep

(* The shape of a prompt. *)
LEMMA PromptShape ==
    ASSUME NEW r \in Requests, NEW cached \in {0, PrefixTokens}
    PROVE  /\ StoredPrefix(cached) \in Nat
           /\ AudioFrames[r] \in Nat \ {0}
           /\ SuffixTokens \in Nat \ {0}
           /\ StoredTokens(r, cached) =
                 StoredPrefix(cached) + AudioFrames[r] + SuffixTokens
           /\ StoredTokens(r, cached) \in TokenCounts
           /\ EmbedDim \in Dims
<1>1. PrefixTokens \in Nat /\ AudioFrames \in [Requests -> Nat \ {0}]
      /\ SuffixTokens \in Nat \ {0} /\ EmbedDim \in Dims
      /\ StoredTokens(r, cached) \in TokenCounts
  BY FrontendAssumption
<1>2. StoredPrefix(cached) \in Nat
  BY <1>1 DEF StoredPrefix
<1> QED BY <1>1, <1>2 DEF StoredTokens

(* A busy call's handles are live and nobody else's. *)
LEMMA HeldFacts ==
    ASSUME IInv, FInv, NEW c, c = call, c.phase # "idle"
    PROVE  /\ Holding = c.held
           /\ c.held \subseteq live
           /\ \A p \in prompts : p.handle \in live /\ p.handle \notin c.held
           /\ \A p \in prompts : \A h \in c.held : p.handle.slot # h.slot
<1>1. Holding = c.held
  BY BusyFacts
<1>2. /\ c.held \subseteq live
      /\ \A p \in prompts : p.handle \in live /\ p.handle \notin c.held
  BY <1>1 DEF FInv, Accounted
<1> QED BY <1>1, <1>2, LiveDistinct

(* The request at hand gets a handle. *)
Taken(c, h) == [c EXCEPT !.phase = "audio", !.held = @ \union {h},
                         !.results[c.members[c.at]] = h]

LEMMA HandLemma ==
    ASSUME NEW c, WellFormed(c), c.phase = "acquire", Tidy(c), NEW h \in Handle,
           h \notin c.held, h # Nobody
    PROVE  LET d == Taken(c, h) IN
           /\ WellFormed(d) /\ Tidy(d)
           /\ Done(d) = Done(c) /\ d.at = c.at /\ d.phase = "audio"
           /\ d.members = c.members /\ d.job = c.job /\ d.cached = c.cached
           /\ d.way = c.way
           /\ d.held = c.held \union {h}
           /\ d.results[At(c)] = h
           /\ \A k \in 1 .. Done(c) :
                 d.results[c.members[k]] = c.results[c.members[k]]
<1> DEFINE res == [c.results EXCEPT ![At(c)] = h]
           d == Taken(c, h)
           R(p, hd, r) == Call(p, c.job, c.members, c.cached, c.at, c.way, hd, r)
           more == c.held \union {h}
<1>1. /\ c.at \in 1 .. Len(c.members) /\ Len(c.members) \in Nat
      /\ At(c) \in 1 .. Len(c.job)
      /\ Done(c) = c.at - 1
  BY CallFacts DEF Done
<1>2. res \in [1 .. Len(c.job) -> Handle \union {Nobody}]
      /\ more \in SUBSET Handle
  BY <1>1, CallIsRecord
<1>3. d = R("audio", more, res)
  <2>1. c = R(c.phase, c.held, c.results)
    BY CallOf
  <2>2. \A q, hd, r : [R(q, hd, r) EXCEPT !.phase = "audio"] = R("audio", hd, r)
    BY FieldChanges
  <2>3. \A q, hd, r, x : [R(q, hd, r) EXCEPT !.held = x] = R(q, x, r)
    BY FieldChanges
  <2>4. \A q, hd, r, x : [R(q, hd, r) EXCEPT !.results = x] = R(q, hd, x)
    BY FieldChanges
  <2>5. \A q, hd, r : R(q, hd, r).results = r /\ R(q, hd, r).held = hd
    BY FieldChanges
  <2> DEFINE A == [c EXCEPT !.phase = "audio"]
             B == [A EXCEPT !.held = more]
  <2> HIDE DEF R, more, res
  <2>6. A = R("audio", c.held, c.results)
    BY <2>1, <2>2
  <2>7. A.held = c.held
    BY <2>5, <2>6
  <2> HIDE DEF A
  <2>8. B = R("audio", more, c.results)
    BY <2>3, <2>6
  <2> HIDE DEF B
  <2>9. B.results = c.results
    BY <2>5, <2>8
  <2>10. d = [[A EXCEPT !.held = @ \union {h}]
                EXCEPT !.results[c.members[c.at]] = h]
    BY DEF Taken, A
  <2>11. d = [B EXCEPT !.results = res]
    BY <2>7, <2>9, <2>10 DEF more, res, At, B
  <2> QED BY <2>4, <2>8, <2>11
<1> HIDE DEF d, more, res
<1>4. /\ d.phase = "audio" /\ d.job = c.job /\ d.members = c.members
      /\ d.cached = c.cached /\ d.at = c.at /\ d.way = c.way
      /\ d.held = more /\ d.results = res
  BY <1>3, FieldChanges
<1>5. /\ res[At(c)] = h
      /\ \A k \in 1 .. Len(c.members) :
            k # c.at => res[c.members[k]] = c.results[c.members[k]]
      /\ \A i \in 1 .. Len(c.job) : i # At(c) => res[i] = c.results[i]
  BY <1>1, CallFacts, CallIsRecord DEF At, res
<1>6. WellFormed(d)
  BY <1>1, <1>2, <1>3, CallIsRecord, CallWith DEF Call, Phases, Filling
<1>7. Done(d) = Done(c) /\ InHand(d) = {h} /\ InHand(c) = {}
  BY <1>1, <1>4, <1>5 DEF Done, InHand, Filling, At
<1>8. \A k \in 1 .. Done(c) : d.results[c.members[k]] = c.results[c.members[k]]
  BY <1>1, <1>4, <1>5
<1>9. Settled(d, Done(d)) = Settled(c, Done(c)) /\ Distinct(d, Done(d))
  BY <1>4, <1>7, <1>8 DEF Settled, Tidy, Distinct
<1>10. OnlyMembers(d)
  BY <1>1, <1>4, <1>5 DEF Tidy, OnlyMembers, At
<1>11. c.held = Settled(c, Done(c))
  BY <1>7 DEF Tidy
<1>12. Tidy(d)
  BY <1>4, <1>7, <1>9, <1>10, <1>11 DEF Tidy, more
<1> QED BY <1>4, <1>5, <1>6, <1>7, <1>8, <1>12 DEF d, more

LEMMA AcquireStep == ASSUME IInv, FInv, AcquirePrompt PROVE FInv' /\ [Next]_vars
<1>0. PICK c : c = call
  OBVIOUS
<1>1. c.phase = "acquire" /\ Current = c.job[At(c)] /\ Place = At(c)
  BY <1>0 DEF AcquirePrompt, Current, Place, At
<1>2. Sound(c) /\ WellFormed(c)
  BY <1>0, <1>1, BusyFacts
<1>3. /\ c.job[At(c)] \in Requests /\ c.cached \in {0, PrefixTokens}
      /\ c.at \in 1 .. Len(c.members) /\ Done(c) = c.at - 1
  BY <1>1, <1>2, CallFacts DEF Done
<1>4. /\ StoredTokens(c.job[At(c)], c.cached) \in TokenCounts
      /\ EmbedDim \in Dims
  BY <1>3, PromptShape
<1>5. \/ AcquireFitting(StoredTokens(c.job[At(c)], c.cached), EmbedDim)
      \/ AcquireRebuilt(StoredTokens(c.job[At(c)], c.cached), EmbedDim)
  BY <1>0, <1>1 DEF AcquirePrompt
<1>6. Next
  BY <1>4, <1>5 DEF Next
<1>7. PICK h \in Handle : /\ live' = live \union {h} /\ h \notin live
                          /\ h.tokens = StoredTokens(c.job[At(c)], c.cached)
  BY <1>4, <1>5, AcquireFacts
<1>8. h # Nobody
  BY <1>7, HandleFacts DEF Nobody
<1>9. live' \ live = {h}
  BY <1>7
<1> DEFINE d == Taken(c, h)
<1>10. call' = d /\ UNCHANGED <<staging, says, prompts>>
  BY <1>0, <1>9 DEF AcquirePrompt, Place, Taken
<1>11. /\ Holding = c.held /\ c.held \subseteq live
       /\ \A p \in prompts : p.handle \in live
  BY <1>0, <1>1, HeldFacts
<1>12. /\ WellFormed(d) /\ Tidy(d)
       /\ Done(d) = Done(c) /\ d.at = c.at /\ d.phase = "audio"
       /\ d.members = c.members /\ d.job = c.job /\ d.cached = c.cached
       /\ d.way = c.way
       /\ d.held = c.held \union {h}
       /\ d.results[At(c)] = h
       /\ \A k \in 1 .. Done(c) :
             d.results[c.members[k]] = c.results[c.members[k]]
  BY <1>1, <1>2, <1>7, <1>8, <1>11, HandLemma DEF Sound
<1> HIDE DEF d
<1>13. SettledWhole(c)'
  <2>1. Settled(c, Done(c)) \subseteq live
    BY <1>1, <1>2, <1>11 DEF Sound, Tidy
  <2>2. SettledWhole(c) /\ Done(c) \in Int
    BY <1>1, <1>2, <1>3, CallFacts DEF Sound
  <2> QED BY <1>6, <1>7, <1>10, <2>1, <2>2, SettledKept
<1>14. SettledWhole(d)'
  BY <1>12, <1>13 DEF SettledWhole
<1>15. HandSound(d)'
  BY <1>7, <1>12 DEF HandSound, ToldSoFar, At
<1>16. Staged(d)'
  BY <1>1, <1>2, <1>10, <1>12 DEF Sound, Staged, At
<1>17. Sound(d)'
  BY <1>12, <1>14, <1>15, <1>16 DEF Sound
<1>18. PromptsWhole' /\ PromptsApart'
  BY <1>6, <1>7, <1>10, <1>11, PromptsKept DEF FInv
<1>19. Holding' = c.held \union {h}
  BY <1>10, <1>12 DEF Holding
<1>20. Accounted'
  BY <1>7, <1>10, <1>11, <1>19 DEF FInv, Accounted
<1>21. ViewOfPrompt'
  BY <1>4, <1>5, <1>10, AcquireFacts DEF FInv, ViewOfPrompt
<1> QED BY <1>6, <1>10, <1>17, <1>18, <1>20, <1>21 DEF FInv, CallSound, SaysOK, StagingOK

(* Writing into the slot in hand leaves everything else whole. *)
LEMMA HandToldStep ==
    ASSUME IInv, FInv, NEW c, c = call, c.phase \in Filling,
           NEW offset \in Nat, NEW count \in Nat \ {0}, NEW source,
           offset + count <= StoredTokens(c.job[At(c)], c.cached),
           Tell(c.results[At(c)], offset, count, source), prompts' = prompts
    PROVE  /\ Next /\ live' = live /\ SaysOK' /\ ViewOfPrompt'
           /\ PromptsWhole' /\ PromptsApart' /\ SettledWhole(c)'
           /\ \A t \in 0 .. StoredTokens(c.job[At(c)], c.cached) - 1 :
                 /\ t \in offset .. offset + count - 1 =>
                       /\ rows'[c.results[At(c)].slot][t] = c.results[At(c)]
                       /\ says'[c.results[At(c)].slot][t] =
                             [of |-> source, at |-> t - offset]
                 /\ t \notin offset .. offset + count - 1 =>
                       /\ rows'[c.results[At(c)].slot][t] =
                             rows[c.results[At(c)].slot][t]
                       /\ says'[c.results[At(c)].slot][t] =
                             says[c.results[At(c)].slot][t]
<1> DEFINE h == c.results[At(c)]
<1>1. Sound(c) /\ WellFormed(c) /\ c.phase \notin {"undo", "deliver", "idle"}
  BY BusyFacts DEF Filling
<1>2. InHand(c) = {h}
  BY DEF InHand
<1>3. /\ c.held \subseteq live
      /\ \A p \in prompts : p.handle \in live /\ p.handle \notin c.held
  BY <1>1, HeldFacts
<1>4. /\ h \in c.held
      /\ \A g \in Settled(c, Done(c)) : g \in c.held /\ g # h
  BY <1>1, <1>2 DEF Sound, Tidy
<1>5. h.tokens = StoredTokens(c.job[At(c)], c.cached)
  BY <1>1 DEF Sound, HandSound
<1> HIDE DEF h
<1>6. h \in live /\ Tell(h, offset, count, source) /\ offset + count <= h.tokens
  BY <1>3, <1>4, <1>5 DEF h
<1>7. /\ Next
      /\ live' = live /\ viewing' = viewing
      /\ SaysOK'
      /\ \A t \in Rows : t \in offset .. offset + count - 1 =>
            /\ rows'[h.slot][t] = h
            /\ says'[h.slot][t] = [of |-> source, at |-> t - offset]
      /\ \A t \in Rows : t \notin offset .. offset + count - 1 =>
            /\ rows'[h.slot][t] = rows[h.slot][t]
            /\ says'[h.slot][t] = says[h.slot][t]
      /\ \A g \in live : g # h => says'[g.slot] = says[g.slot]
  BY <1>6, TellFacts DEF FInv
<1>8. PromptsWhole' /\ PromptsApart'
  BY <1>3, <1>4, <1>7, PromptsKept DEF FInv
<1>9. Done(c) \in Int /\ SettledWhole(c)
  BY <1>1, CallFacts DEF Sound, Done
<1>10. SettledWhole(c)'
  BY <1>3, <1>4, <1>7, <1>9, SettledKept
<1>11. \A t \in 0 .. h.tokens - 1 : t \in Rows
  BY <1>6, LiveFacts
<1>12. ViewOfPrompt'
  BY <1>7 DEF FInv, ViewOfPrompt
<1> QED BY <1>5, <1>7, <1>8, <1>10, <1>11, <1>12 DEF h

(* The same call, its slot in hand and further written. *)
LEMMA FillLemma ==
    ASSUME NEW c, Sound(c), c.phase \in Filling, NEW p \in {"prefix", "suffix"}
    PROVE  LET d == [c EXCEPT !.phase = p] IN
           /\ WellFormed(d) /\ Tidy(d) /\ Done(d) = Done(c)
           /\ d.phase = p /\ d.job = c.job /\ d.members = c.members
           /\ d.cached = c.cached /\ d.at = c.at /\ d.way = c.way
           /\ d.held = c.held /\ d.results = c.results
<1> DEFINE d == [c EXCEPT !.phase = p]
<1>1. /\ WellFormed(d)
      /\ d.phase = p /\ d.job = c.job /\ d.members = c.members
      /\ d.cached = c.cached /\ d.at = c.at /\ d.way = c.way
      /\ d.held = c.held /\ d.results = c.results
  BY PhaseLemma DEF Sound, Phases, Filling
<1> HIDE DEF d
<1>2. Done(d) = Done(c) /\ InHand(d) = InHand(c)
  BY <1>1 DEF Done, InHand, Filling, At
<1>3. \A m : Settled(d, m) = Settled(c, m) /\ (Distinct(d, m) <=> Distinct(c, m))
  BY <1>1 DEF Settled, Distinct
<1>4. OnlyMembers(d)
  BY <1>1 DEF Sound, Tidy, OnlyMembers
<1>5. c.phase # "undo"
  BY DEF Filling
<1>6. Tidy(d)
  BY <1>1, <1>2, <1>3, <1>4, <1>5 DEF Sound, Tidy
<1> QED BY <1>1, <1>2, <1>6 DEF d

(* What is left to show of such a step is what its rows say. *)
LEMMA FillStep ==
    ASSUME IInv, FInv, NEW c, c = call, c.phase \in Filling,
           NEW p \in {"prefix", "suffix"}, NEW d, d = [c EXCEPT !.phase = p],
           call' = d, UNCHANGED <<staging, prompts>>,
           [Next]_vars, live' = live, SaysOK', ViewOfPrompt', PromptsWhole', PromptsApart',
           SettledWhole(c)', HandSound(d)'
    PROVE  FInv'
<1>1. Sound(c) /\ Holding = c.held
  BY BusyFacts DEF Filling
<1>0. c.phase \in Filling
  OBVIOUS
<1>2. /\ WellFormed(d) /\ Tidy(d) /\ Done(d) = Done(c)
      /\ d.phase = p /\ d.job = c.job /\ d.members = c.members
      /\ d.cached = c.cached /\ d.at = c.at /\ d.way = c.way
      /\ d.held = c.held /\ d.results = c.results
  BY ONLY <1>0, <1>1, p \in {"prefix", "suffix"}, d = [c EXCEPT !.phase = p], FillLemma
<1>3. SettledWhole(d)'
  BY <1>2 DEF SettledWhole
<1>4. Staged(d)'
  <2>1. At(d) = At(c) /\ DOMAIN d.members = DOMAIN c.members
    BY <1>2 DEF At
  <2> QED BY <1>0, <1>1, <1>2, <2>1 DEF Sound, Staged
<1>5. Sound(d)'
  BY <1>2, <1>3, <1>4 DEF Sound
<1>6. Holding' = Holding
  BY <1>1, <1>2 DEF Holding
<1>7. Accounted'
  BY <1>6 DEF FInv, Accounted
<1> QED BY <1>5, <1>7 DEF FInv, CallSound, StagingOK

LEMMA SourceLemma ==
    ASSUME NEW c, Sound(c), c.phase = "audio"
    PROVE  c.job[At(c)] =
              IF c.way = "single" THEN staging.one ELSE staging.many[c.at]
<1>1. c.at \in DOMAIN c.members
  BY CallFacts DEF Sound
<1>2. ASSUME c.way # "single"
      PROVE  staging.many = [b \in DOMAIN c.members |-> c.job[c.members[b]]]
  BY <1>2 DEF Sound, Staged, Filling
<1>3. ASSUME c.way # "single" PROVE staging.many[c.at] = c.job[c.members[c.at]]
  BY <1>1, <1>2, <1>3
<1> QED BY <1>3 DEF Sound, Staged, At, Filling

LEMMA CopyStep == ASSUME IInv, FInv, CopyAudio PROVE FInv' /\ [Next]_vars
<1>0. PICK c : c = call
  OBVIOUS
<1>1. c.phase = "audio" /\ c.phase \in Filling
  BY <1>0 DEF CopyAudio, Filling
<1> DEFINE h == c.results[At(c)]
           r == c.job[At(c)]
           sp == StoredPrefix(c.cached)
           src == IF c.way = "single" THEN staging.one ELSE staging.many[c.at]
           d == [c EXCEPT !.phase = "prefix"]
<1>2. /\ Tell(h, sp, AudioFrames[r], src) /\ call' = d
      /\ UNCHANGED <<staging, prompts>>
  BY <1>0, <1>1 DEF CopyAudio, Hand, Place, Current, At
<1>3. Sound(c) /\ WellFormed(c)
  BY <1>0, <1>1, BusyFacts
<1>4. r \in Requests /\ c.cached \in {0, PrefixTokens}
  BY <1>3, CallFacts
<1>5. /\ sp \in Nat /\ AudioFrames[r] \in Nat \ {0} /\ SuffixTokens \in Nat \ {0}
      /\ StoredTokens(r, c.cached) = sp + AudioFrames[r] + SuffixTokens
  BY <1>4, PromptShape
<1>6. src = r
  BY <1>1, <1>3, SourceLemma
<1> HIDE DEF src
<1>7. /\ Next /\ live' = live /\ SaysOK' /\ ViewOfPrompt'
      /\ PromptsWhole' /\ PromptsApart' /\ SettledWhole(c)'
      /\ \A t \in 0 .. StoredTokens(r, c.cached) - 1 :
            t \in sp .. sp + AudioFrames[r] - 1 =>
                  /\ rows'[h.slot][t] = h
                  /\ says'[h.slot][t] = [of |-> src, at |-> t - sp]
  BY <1>0, <1>1, <1>2, <1>5, HandToldStep
<1>8. /\ d.phase = "prefix" /\ d.job = c.job /\ d.members = c.members
      /\ d.cached = c.cached /\ d.at = c.at /\ d.results = c.results
  BY <1>1, <1>3, FillLemma
<1> HIDE DEF d
<1>9. At(d) = At(c) /\ h.tokens = StoredTokens(r, c.cached)
  BY <1>1, <1>3, <1>8 DEF At, Sound, HandSound
<1>10. ASSUME NEW t \in 0 .. h.tokens - 1, ToldSoFar(d, t)
       PROVE  Told(h, r, c.cached, t)'
  <2>1. t \in sp .. sp + AudioFrames[r] - 1
    BY <1>8, <1>9, <1>10 DEF ToldSoFar
  <2>2. Said(r, c.cached, t) = [of |-> r, at |-> t - sp]
    BY <2>1, <1>5 DEF Said
  <2> QED BY <2>1, <2>2, <1>6, <1>7, <1>9, <1>10 DEF Told
<1> HIDE DEF h, r
<1>11. HandSound(d)'
  BY <1>8, <1>9, <1>10 DEF HandSound, h, r
<1> QED BY <1>0, <1>1, <1>2, <1>7, <1>11, FillStep DEF d

LEMMA PrefixStep == ASSUME IInv, FInv, WritePrefix PROVE FInv' /\ [Next]_vars
<1>0. PICK c : c = call
  OBVIOUS
<1>1. c.phase = "prefix" /\ c.phase \in Filling
  BY <1>0 DEF WritePrefix, Filling
<1> DEFINE h == c.results[At(c)]
           r == c.job[At(c)]
           sp == StoredPrefix(c.cached)
           d == [c EXCEPT !.phase = "suffix"]
<1>2. /\ call' = d /\ UNCHANGED <<staging, prompts>>
      /\ IF sp > 0 THEN Tell(h, 0, sp, "prefix") ELSE UNCHANGED <<vars, says>>
  BY <1>0, <1>1 DEF WritePrefix, Hand, Place, At
<1>3. Sound(c) /\ WellFormed(c)
  BY <1>0, <1>1, BusyFacts
<1>4. r \in Requests /\ c.cached \in {0, PrefixTokens}
  BY <1>3, CallFacts
<1>5. /\ sp \in Nat /\ AudioFrames[r] \in Nat \ {0} /\ SuffixTokens \in Nat \ {0}
      /\ StoredTokens(r, c.cached) = sp + AudioFrames[r] + SuffixTokens
  BY <1>4, PromptShape
<1>6. /\ d.phase = "suffix" /\ d.job = c.job /\ d.members = c.members
      /\ d.cached = c.cached /\ d.at = c.at /\ d.results = c.results
  BY <1>1, <1>3, FillLemma
<1>7. /\ h.tokens = StoredTokens(r, c.cached)
      /\ \A t \in 0 .. h.tokens - 1 :
            t \in sp .. sp + AudioFrames[r] - 1 => Told(h, r, c.cached, t)
  BY <1>1, <1>3 DEF Sound, HandSound, ToldSoFar
<1> HIDE DEF d
<1>8. At(d) = At(c)
  BY <1>6 DEF At
<1>9. CASE sp = 0
  <2>1. UNCHANGED <<vars, says>>
    BY <1>2, <1>9
  <2>2. UNCHANGED <<live, rows, says, prompts>>
    BY <1>2, <2>1 DEF vars
  <2>3. PromptsWhole' /\ PromptsApart' /\ SaysOK' /\ ViewOfPrompt'
    BY <1>2, <2>1, <2>2 DEF vars, ViewOfPrompt, FInv, PromptsWhole, PromptsApart, SaysOK, Whole, Told
  <2>4. SettledWhole(c)'
    BY <1>1, <1>3, <2>2 DEF Sound, SettledWhole, Whole, Told
  <2>5. ASSUME NEW t \in 0 .. h.tokens - 1, ToldSoFar(d, t)
        PROVE  Told(h, r, c.cached, t)'
    <3>1. t \in sp .. sp + AudioFrames[r] - 1
      BY <1>5, <1>6, <1>8, <1>9, <2>5 DEF ToldSoFar
    <3> QED BY <3>1, <1>7, <2>2 DEF Told
  <2> HIDE DEF h, r
  <2>6. HandSound(d)'
    BY <1>6, <1>7, <1>8, <2>5 DEF HandSound, h, r
  <2> QED BY <1>0, <1>1, <1>2, <2>1, <2>2, <2>3, <2>4, <2>6, FillStep DEF d
<1>10. CASE sp # 0
  <2>1. Tell(h, 0, sp, "prefix") /\ sp \in Nat \ {0}
    BY <1>2, <1>5, <1>10
  <2>2. 0 + sp <= StoredTokens(r, c.cached)
    BY <1>5
  <2>3. /\ Next /\ live' = live /\ SaysOK' /\ ViewOfPrompt'
        /\ PromptsWhole' /\ PromptsApart' /\ SettledWhole(c)'
        /\ \A t \in 0 .. StoredTokens(r, c.cached) - 1 :
             /\ t \in 0 .. 0 + sp - 1 =>
                   /\ rows'[h.slot][t] = h
                   /\ says'[h.slot][t] = [of |-> "prefix", at |-> t - 0]
             /\ t \notin 0 .. 0 + sp - 1 =>
                   /\ rows'[h.slot][t] = rows[h.slot][t]
                   /\ says'[h.slot][t] = says[h.slot][t]
    BY <1>0, <1>1, <1>2, <2>1, <2>2, HandToldStep
  <2>4. ASSUME NEW t \in 0 .. h.tokens - 1, ToldSoFar(d, t)
        PROVE  Told(h, r, c.cached, t)'
    <3>0. t \in Int /\ t \in 0 .. StoredTokens(r, c.cached) - 1
      BY <1>7
    <3>1. CASE t \in 0 .. sp - 1
      <4>1. Said(r, c.cached, t) = [of |-> "prefix", at |-> t]
        BY <3>0, <3>1, <1>5 DEF Said
      <4>2. t - 0 = t /\ t \in 0 .. 0 + sp - 1
        BY <3>0, <3>1, <1>5
      <4> QED BY <2>3, <3>0, <4>1, <4>2 DEF Told
    <3>2. CASE t \notin 0 .. sp - 1
      <4>1. t \in sp .. sp + AudioFrames[r] - 1
        BY <1>6, <1>8, <2>4, <3>2 DEF ToldSoFar
      <4>2. t \notin 0 .. 0 + sp - 1
        BY <3>2, <1>5
      <4> QED BY <1>7, <2>3, <3>0, <4>1, <4>2 DEF Told
    <3> QED BY <3>1, <3>2
  <2> HIDE DEF h, r
  <2>5. HandSound(d)'
    BY <1>6, <1>7, <1>8, <2>4 DEF HandSound, h, r
  <2> QED BY <1>0, <1>1, <1>2, <2>3, <2>5, FillStep DEF d
<1> QED BY <1>9, <1>10

LEMMA SuffixStep == ASSUME IInv, FInv, WriteSuffix PROVE FInv' /\ [Next]_vars
<1>0. PICK c : c = call
  OBVIOUS
<1>1. c.phase = "suffix" /\ c.phase \in Filling
  BY <1>0 DEF WriteSuffix, Filling
<1> DEFINE h == c.results[At(c)]
           r == c.job[At(c)]
           sp == StoredPrefix(c.cached)
           off == sp + AudioFrames[r]
           d == Onward(c)
<1>2. /\ Tell(h, off, SuffixTokens, "suffix") /\ call' = d
      /\ UNCHANGED <<staging, prompts>>
  BY <1>0, <1>1 DEF WriteSuffix, Hand, Place, Current, At
<1>3. Sound(c) /\ WellFormed(c) /\ Holding = c.held
  BY <1>0, <1>1, BusyFacts
<1>4. r \in Requests /\ c.cached \in {0, PrefixTokens}
  BY <1>3, CallFacts
<1>5. /\ sp \in Nat /\ AudioFrames[r] \in Nat \ {0} /\ SuffixTokens \in Nat \ {0}
      /\ StoredTokens(r, c.cached) = sp + AudioFrames[r] + SuffixTokens
  BY <1>4, PromptShape
<1>6. /\ h.tokens = StoredTokens(r, c.cached)
      /\ \A t \in 0 .. h.tokens - 1 :
            ToldSoFar(c, t) => Told(h, r, c.cached, t)
  BY <1>1, <1>3 DEF Sound, HandSound
<1>7. /\ Next /\ live' = live /\ SaysOK' /\ ViewOfPrompt'
      /\ PromptsWhole' /\ PromptsApart' /\ SettledWhole(c)'
      /\ \A t \in 0 .. StoredTokens(r, c.cached) - 1 :
           /\ t \in off .. off + SuffixTokens - 1 =>
                 /\ rows'[h.slot][t] = h
                 /\ says'[h.slot][t] = [of |-> "suffix", at |-> t - off]
           /\ t \notin off .. off + SuffixTokens - 1 =>
                 /\ rows'[h.slot][t] = rows[h.slot][t]
                 /\ says'[h.slot][t] = says[h.slot][t]
  <2>1. off \in Nat /\ off + SuffixTokens <= StoredTokens(r, c.cached)
    BY <1>5
  <2>2. SuffixTokens \in Nat \ {0} /\ prompts' = prompts
    BY <1>2, <1>5
  <2> HIDE DEF off, sp, d
  <2> QED BY SMTT(30), <1>0, <1>1, <1>2, <2>1, <2>2, HandToldStep
<1>8. ASSUME NEW t \in 0 .. h.tokens - 1 PROVE Told(h, r, c.cached, t)'
  <2>0. t \in Int /\ t \in 0 .. StoredTokens(r, c.cached) - 1 /\ off \in Int
    BY <1>5, <1>6
  <2>1. CASE t \in off .. off + SuffixTokens - 1
    <3>1. Said(r, c.cached, t) = [of |-> "suffix", at |-> t - sp - AudioFrames[r]]
      BY <1>5, <2>0, <2>1 DEF Said
    <3>2. t - sp - AudioFrames[r] = t - off
      BY <1>5, <2>0
    <3> QED BY <1>7, <2>0, <2>1, <3>1, <3>2 DEF Told
  <2>2. CASE t \notin off .. off + SuffixTokens - 1
    <3>1. t \in sp .. sp + AudioFrames[r] - 1 \/ t \in 0 .. sp - 1
      BY <1>5, <2>0, <2>2
    <3>2. ToldSoFar(c, t)
      BY <1>1, <3>1 DEF ToldSoFar
    <3> QED BY <1>6, <1>7, <2>0, <2>2, <3>2 DEF Told
  <2> QED BY <2>1, <2>2
<1>9. InHand(c) = {h} /\ Done(c) = c.at - 1 /\ c.at \in 1 .. Len(c.members)
      /\ Len(c.members) \in Nat
  BY <1>1, <1>3, CallFacts DEF InHand, Done
<1>10. /\ c.held = Settled(c, Done(c)) \union {h}
       /\ h # Nobody /\ h \notin Settled(c, Done(c)) /\ Distinct(c, Done(c))
       /\ OnlyMembers(c)
  BY <1>1, <1>3, <1>9 DEF Sound, Tidy
<1>11. 1 .. c.at = 1 .. Done(c) \union {c.at}
  BY <1>9
<1>12. c.held = Settled(c, c.at)
  BY <1>10, <1>11 DEF Settled, At
<1>13. Distinct(c, c.at)
  <2> SUFFICES ASSUME NEW j \in 1 .. c.at, NEW k \in 1 .. c.at,
                      c.results[c.members[j]] = c.results[c.members[k]],
                      c.results[c.members[j]] # Nobody
               PROVE  j = k
    BY DEF Distinct
  <2>1. CASE j \in 1 .. Done(c) /\ k \in 1 .. Done(c)
    BY <1>10, <2>1 DEF Distinct
  <2>2. CASE j = c.at /\ k \in 1 .. Done(c)
    BY <1>10, <2>2 DEF Settled, At
  <2>3. CASE k = c.at /\ j \in 1 .. Done(c)
    BY <1>10, <2>3 DEF Settled, At
  <2> QED BY <1>11, <2>1, <2>2, <2>3
<1>14. /\ WellFormed(d) /\ Tidy(d)
       /\ Done(d) = c.at
       /\ d.phase \in {"deliver", "forward", "acquire"}
       /\ d.phase = "acquire" => c.way = "batch"
       /\ d.results = c.results /\ d.members = c.members
       /\ d.job = c.job /\ d.cached = c.cached
       /\ d.way = c.way /\ d.held = c.held
  BY <1>1, <1>3, <1>10, <1>12, <1>13, OnwardLemma
<1>15. c.way = "batch" =>
          staging.many = [b \in DOMAIN c.members |-> c.job[c.members[b]]]
  <2> CASE c.way = "batch"
    BY <1>1, <1>3 DEF Sound, Staged
  <2> QED OBVIOUS
<1> HIDE DEF d
<1>16. h \in live
  BY <1>0, <1>1, <1>10, HeldFacts
<1>17. Whole(h, r, c.cached)'
  BY <1>6, <1>7, <1>8, <1>16 DEF Whole
<1>18. SettledWhole(d)'
  BY <1>1, <1>7, <1>11, <1>14, <1>17 DEF SettledWhole, Done, At
<1>19. HandSound(d)'
  BY <1>14 DEF HandSound, Filling
<1>20. Staged(d)'
  <2>1. d.phase \in {"acquire"} \union Filling => d.way = "batch"
    BY <1>14 DEF Filling
  <2>2. DOMAIN d.members = DOMAIN c.members
    BY <1>14
  <2> QED BY <2>1, <2>2, <1>2, <1>14, <1>15 DEF Staged
<1>21. Sound(d)'
  BY <1>14, <1>18, <1>19, <1>20 DEF Sound
<1>22. Holding' = Holding
  BY <1>2, <1>3, <1>14 DEF Holding
<1>23. Accounted'
  BY <1>2, <1>7, <1>22 DEF FInv, Accounted
<1> QED BY <1>2, <1>7, <1>21, <1>23 DEF FInv, CallSound, StagingOK

(* Releasing a handle that the call holds. *)
LEMMA DropLemma ==
    ASSUME IInv, FInv, NEW c, c = call, c.phase # "idle", NEW h \in c.held,
           Release(h), UNCHANGED <<says, prompts>>
    PROVE  /\ Next /\ live' = live \ {h} /\ rows' = rows
           /\ PromptsWhole' /\ PromptsApart' /\ ViewOfPrompt'
<1>1. /\ h \in live /\ h \in issued
      /\ \A p \in prompts : p.handle \in live /\ p.handle # h
  BY HeldFacts, LiveFacts
<1>2. live' = live \ {h} /\ rows' = rows /\ viewing' = viewing
  BY <1>1, ReleaseFacts
<1>3. viewing # NoView => viewing.handle # h
  BY <1>1 DEF FInv, ViewOfPrompt
<1>4. Next
  BY <1>1, <1>3 DEF Next, ReleaseHandle
<1>5. PromptsWhole' /\ PromptsApart'
  BY <1>1, <1>2, <1>4, PromptsKept DEF FInv
<1>6. ViewOfPrompt'
  BY <1>2 DEF FInv, ViewOfPrompt
<1> QED BY <1>2, <1>4, <1>5, <1>6

LEMMA CopyFailsStep ==
    ASSUME IInv, FInv, CopyFails PROVE FInv' /\ [Next]_vars
<1>0. PICK c : c = call
  OBVIOUS
<1>1. c.phase = "audio"
  BY <1>0 DEF CopyFails
<1>2. CASE c.way = "single"
  <2> DEFINE h == c.results[At(c)]
             d == GivenUp(c, {h})
  <2>1. Release(h) /\ call' = d /\ UNCHANGED <<staging, says, prompts>>
    BY <1>0, <1>2 DEF CopyFails, Hand, Place, At
  <2>2. Sound(c) /\ WellFormed(c) /\ Holding = c.held
    BY <1>0, <1>1, BusyFacts
  <2>3. InHand(c) = {h} /\ Done(c) = c.at - 1 /\ c.at \in 1 .. Len(c.members)
    BY <1>1, <2>2, CallFacts DEF InHand, Filling, Done
  <2>4. /\ c.held = Settled(c, Done(c)) \union {h}
        /\ h \notin Settled(c, Done(c))
    BY <1>1, <2>2, <2>3 DEF Sound, Tidy
  <2>5. /\ WellFormed(d) /\ Tidy(d)
        /\ Done(d) = c.at
        /\ d.phase \in {"deliver", "forward"}
        /\ d.members = c.members /\ d.job = c.job /\ d.cached = c.cached
        /\ d.held = c.held \ {h}
        /\ d.results[At(c)] = Nobody
        /\ \A k \in 1 .. Done(c) :
              d.results[c.members[k]] = c.results[c.members[k]]
    BY <1>1, <1>2, <2>2, <2>3, GivenUpLemma DEF Sound
  <2>6. c.held \subseteq live /\ (\A p \in prompts : p.handle \notin c.held)
    BY <1>0, <1>1, HeldFacts
  <2> HIDE DEF d, h
  <2>7. /\ Next /\ live' = live \ {h} /\ rows' = rows
        /\ PromptsWhole' /\ PromptsApart' /\ ViewOfPrompt'
    BY <1>0, <1>1, <2>1, <2>4, DropLemma
  <2>8. SettledWhole(c)'
    <3>1. Done(c) \in Int /\ SettledWhole(c)
      BY <1>1, <2>2, <2>3 DEF Sound
    <3> QED BY <2>1, <2>4, <2>6, <2>7, <3>1, SettledKept
  <2>9. SettledWhole(d)'
    <3>1. \A k \in 1 .. c.at : k \in 1 .. Done(c) \/ k = c.at
      BY <2>3
    <3> QED BY <2>5, <2>8, <3>1 DEF SettledWhole, At
  <2>10. HandSound(d)' /\ Staged(d)'
    BY <2>5 DEF HandSound, Staged, Filling
  <2>11. Sound(d)'
    BY <2>5, <2>9, <2>10 DEF Sound
  <2>12. Holding' = Holding \ {h}
    BY <2>1, <2>2, <2>5 DEF Holding
  <2>13. Accounted'
    <3>1. \A p \in prompts : p.handle # h
      BY <2>4, <2>6
    <3> QED BY <2>1, <2>7, <2>12, <3>1 DEF FInv, Accounted
  <2> QED BY <2>1, <2>7, <2>11, <2>13 DEF FInv, CallSound, StagingOK, SaysOK
<1>3. CASE c.way # "single"
  <2>1. c.way = "batch"
    BY <1>0, <1>1, <1>3, BusyFacts, CallIsRecord
  <2>2. StagingOK'
    BY DEF CopyFails, FInv, StagingOK
  <2>3. call' = [call EXCEPT !.phase = "undo"] /\ UNCHANGED <<vars, says, prompts>>
    BY <1>0, <1>3 DEF CopyFails
  <2> QED BY <1>0, <1>1, <2>1, <2>2, <2>3, ToUndoStep
<1> QED BY <1>2, <1>3

LEMMA UndoStep == ASSUME IInv, FInv, Undo PROVE FInv' /\ [Next]_vars
<1>0. PICK c : c = call
  OBVIOUS
<1>1. c.phase = "undo" /\ UNCHANGED <<staging, says, prompts>>
  BY <1>0 DEF Undo
<1>2. CASE c.held = {}
  <2>1. StagingOK'
    BY <1>1 DEF FInv, StagingOK
  <2>2. call.phase # "idle" /\ call.held = {} /\ call' = FallBack(call)
        /\ UNCHANGED <<vars, says, prompts>>
    BY <1>0, <1>1, <1>2 DEF Undo
  <2> QED BY <2>1, <2>2, FallBackStep
<1>3. CASE c.held # {}
  <2>1. PICK h \in c.held : Release(h) /\ call' = [c EXCEPT !.held = @ \ {h}]
    BY <1>0, <1>3 DEF Undo
  <2> DEFINE d == [c EXCEPT !.held = @ \ {h}]
             R(x) == Call(c.phase, c.job, c.members, c.cached, c.at, c.way, x,
                          c.results)
             less == c.held \ {h}
  <2>2. Sound(c) /\ WellFormed(c) /\ Holding = c.held
    BY <1>0, <1>1, BusyFacts
  <2>3. d = R(less)
    <3>1. c = R(c.held)
      BY <2>2, CallOf
    <3>2. \A x, y : [R(x) EXCEPT !.held = y] = R(y)
      BY FieldChanges
    <3> HIDE DEF R
    <3>3. [c EXCEPT !.held = less] = R(less)
      BY <3>1, <3>2
    <3> QED BY <3>3
  <2> HIDE DEF d, less
  <2>4. /\ d.phase = c.phase /\ d.job = c.job /\ d.members = c.members
        /\ d.cached = c.cached /\ d.at = c.at /\ d.way = c.way
        /\ d.held = less /\ d.results = c.results
    BY <2>3, FieldChanges
  <2>5. WellFormed(d)
    <3>1. less \in SUBSET Handle /\ c.at \in 1 .. Len(c.members)
      BY <2>2, CallIsRecord, CallFacts DEF less
    <3>2. /\ c.phase \in Phases /\ c.way \in {"single", "batch"}
          /\ c.results \in [1 .. Len(c.job) -> Handle \union {Nobody}]
      BY <2>2, CallIsRecord
    <3> QED BY <2>2, <2>3, <3>1, <3>2, CallWith DEF Call
  <2>6. OnlyMembers(d) /\ d.way = "batch"
    BY <1>1, <2>2, <2>4 DEF Sound, Tidy, OnlyMembers
  <2>7. Tidy(d)
    BY <1>1, <2>4, <2>6 DEF Tidy
  <2>8. HandSound(d)' /\ Staged(d)'
    BY <1>1, <2>4 DEF HandSound, Staged, Filling
  <2>9. Sound(d)'
    BY <1>1, <2>4, <2>5, <2>7, <2>8 DEF Sound
  <2>10. /\ Next /\ live' = live \ {h} /\ rows' = rows
         /\ PromptsWhole' /\ PromptsApart' /\ ViewOfPrompt'
    BY <1>0, <1>1, <2>1, DropLemma
  <2>11. call' = d /\ Holding' = less
    BY <1>1, <2>1, <2>4 DEF Holding, d
  <2>12. Accounted'
    BY <1>1, <2>2, <2>10, <2>11 DEF FInv, Accounted, less
  <2> QED BY <1>1, <2>9, <2>10, <2>11, <2>12
          DEF FInv, CallSound, StagingOK, SaysOK
<1> QED BY <1>2, <1>3

LEMMA DeliverStep == ASSUME IInv, FInv, Deliver PROVE FInv' /\ [Next]_vars
<1>0. PICK c : c = call
  OBVIOUS
<1> DEFINE P(i) == [request |-> c.job[i], cached |-> c.cached,
                    handle |-> c.results[i]]
           more == {P(i) : i \in {j \in DOMAIN c.job : c.results[j] # Nobody}}
<1>1. /\ c.phase = "deliver" /\ prompts' = prompts \union more
      /\ call' = Idle /\ UNCHANGED <<vars, staging, says>>
  BY <1>0 DEF Deliver
<1>2. Sound(c) /\ WellFormed(c) /\ Holding = c.held
  BY <1>0, <1>1, BusyFacts
<1>3. UNCHANGED <<live, rows, says, viewing>>
  BY <1>1 DEF vars
<1>4. Done(c) = Len(c.members) /\ InHand(c) = {}
  BY <1>1 DEF Done, InHand, Filling
<1>5. /\ c.held = Settled(c, Len(c.members))
      /\ Distinct(c, Len(c.members)) /\ OnlyMembers(c)
      /\ SettledWhole(c)
  BY <1>1, <1>2, <1>4 DEF Sound, Tidy
<1>6. /\ DOMAIN c.job = 1 .. Len(c.job)
      /\ c.job \in [1 .. Len(c.job) -> Requests]
      /\ c.members \in [1 .. Len(c.members) -> 1 .. Len(c.job)]
      /\ c.cached \in {0, PrefixTokens}
      /\ c.results \in [1 .. Len(c.job) -> Handle \union {Nobody}]
  BY <1>2, CallFacts, CallIsRecord
<1>7. ASSUME NEW p \in more
      PROVE  \E k \in 1 .. Len(c.members) :
                p = P(c.members[k]) /\ c.results[c.members[k]] # Nobody
  <2>1. PICK i \in 1 .. Len(c.job) : p = P(i) /\ c.results[i] # Nobody
    BY <1>6
  <2> QED BY <1>5, <2>1 DEF OnlyMembers
<1>8. ASSUME NEW p \in more
      PROVE  /\ p.request \in Requests /\ p.cached \in {0, PrefixTokens}
             /\ p.handle \in Handle /\ Whole(p.handle, p.request, p.cached)
             /\ p.handle \in c.held
  <2>1. PICK k \in 1 .. Len(c.members) :
            p = P(c.members[k]) /\ c.results[c.members[k]] # Nobody
    BY <1>7, <1>8
  <2>2. /\ p.request = c.job[c.members[k]] /\ p.cached = c.cached
        /\ p.handle = c.results[c.members[k]]
    BY <2>1
  <2>3. c.members[k] \in 1 .. Len(c.job)
    BY <1>6
  <2> HIDE DEF P
  <2>4. Whole(p.handle, p.request, p.cached)
    BY <1>4, <1>5, <2>1, <2>2 DEF SettledWhole
  <2>5. p.handle \in c.held
    BY <1>5, <2>1, <2>2 DEF Settled
  <2> QED BY <1>6, <2>1, <2>2, <2>3, <2>4, <2>5
<1>9. ASSUME NEW p \in more, NEW q \in more, p.handle = q.handle PROVE p = q
  <2>1. PICK j \in 1 .. Len(c.members) :
            p = P(c.members[j]) /\ c.results[c.members[j]] # Nobody
    BY <1>7, <1>9
  <2>2. PICK k \in 1 .. Len(c.members) :
            q = P(c.members[k]) /\ c.results[c.members[k]] # Nobody
    BY <1>7, <1>9
  <2>3. c.results[c.members[j]] = c.results[c.members[k]]
    BY <1>9, <2>1, <2>2
  <2>4. j = k
    BY <1>5, <2>1, <2>3 DEF Distinct
  <2> QED BY <2>1, <2>2, <2>4
<1>10. c.held \subseteq {p.handle : p \in more}
  <2> SUFFICES ASSUME NEW h \in c.held PROVE \E p \in more : p.handle = h
    OBVIOUS
  <2>1. PICK k \in 1 .. Len(c.members) : h = c.results[c.members[k]] /\ h # Nobody
    BY <1>5 DEF Settled
  <2>2. c.members[k] \in DOMAIN c.job
    BY <1>6
  <2>3. P(c.members[k]) \in more /\ P(c.members[k]).handle = h
    BY <2>1, <2>2
  <2> QED BY <2>3
<1> HIDE DEF more
<1>11. PromptsWhole'
  <2>1. ASSUME NEW p \in prompts \union more
        PROVE  /\ p.request \in Requests /\ p.cached \in {0, PrefixTokens}
               /\ p.handle \in Handle /\ Whole(p.handle, p.request, p.cached)
    BY <1>8, <2>1 DEF FInv, PromptsWhole
  <2> QED BY <1>1, <1>3, <2>1 DEF PromptsWhole, Whole, Told
<1>12. \A p \in prompts : p.handle \notin c.held
  BY <1>2 DEF FInv, Accounted
<1>13. PromptsApart'
  <2> SUFFICES ASSUME NEW p \in prompts \union more, NEW q \in prompts \union more,
                      p.handle = q.handle
               PROVE  p = q
    BY <1>1 DEF PromptsApart
  <2> QED BY <1>8, <1>9, <1>12 DEF FInv, PromptsApart
<1>14. Holding' = {}
  BY <1>1 DEF Holding, Idle
<1>15. live = {p.handle : p \in prompts \union more}
  BY <1>2, <1>8, <1>10 DEF FInv, Accounted
<1>16. Accounted'
  BY <1>1, <1>3, <1>14, <1>15 DEF Accounted
<1>17. ViewOfPrompt'
  BY <1>1, <1>3 DEF FInv, ViewOfPrompt
<1> QED BY <1>1, <1>11, <1>13, <1>16, <1>17
        DEF FInv, CallSound, StagingOK, SaysOK

-----------------------------------------------------------------------------
(***************************************************************************)
(* The engine's steps.                                                     *)
(***************************************************************************)
LEMMA SameStep ==
    ASSUME FInv, UNCHANGED <<call, staging, says, prompts, live, rows>>,
           ViewOfPrompt'
    PROVE  FInv'
<1>1. PromptsWhole' /\ PromptsApart' /\ SaysOK' /\ StagingOK'
  BY DEF FInv, PromptsWhole, PromptsApart, SaysOK, StagingOK, Whole, Told
<1>2. ASSUME call # Idle PROVE Sound(call)'
  <2>0. PICK c : c = call
    OBVIOUS
  <2>1. Sound(c)
    BY <1>2, <2>0 DEF FInv, CallSound
  <2>2. /\ Staged(c)' /\ (SettledWhole(c) => SettledWhole(c)')
        /\ HandSound(c)'
    BY <2>1 DEF Sound, Staged, SettledWhole, HandSound, Whole, Told, ToldSoFar
  <2>3. Sound(c)'
    BY <2>1, <2>2 DEF Sound
  <2>4. call' = c
    BY <2>0
  <2> QED BY <2>3, <2>4 DEF Sound
<1>3. Accounted'
  BY DEF FInv, Accounted, Holding
<1> QED BY <1>1, <1>2, <1>3 DEF FInv, CallSound

(* A call is not disturbed by what happens to handles it does not hold. *)
LEMMA CallKept ==
    ASSUME IInv, FInv, [Next]_vars, UNCHANGED <<call, staging, says>>, rows' = rows,
           Holding \subseteq live'
    PROVE  CallSound'
<1> SUFFICES ASSUME call # Idle PROVE Sound(call)'
  BY DEF CallSound
<1>0. PICK c : c = call
  OBVIOUS
<1>1. Sound(c) /\ WellFormed(c)
  BY <1>0 DEF FInv, CallSound, Sound
<1>2. c.phase # "idle" /\ Holding = c.held
  BY <1>0, <1>1, CallIsRecord DEF Holding
<1>3. ASSUME c.phase # "undo" PROVE SettledWhole(c)'
  <2>1. Settled(c, Done(c)) \subseteq c.held /\ SettledWhole(c)
    BY <1>1, <1>3 DEF Sound, Tidy
  <2>2. Done(c) \in Int
    BY <1>1, CallFacts DEF Done
  <2> QED BY <1>2, <2>1, <2>2, SettledKept
<1>4. HandSound(c)' /\ Staged(c)'
  BY <1>1 DEF Sound, HandSound, Staged, Told, ToldSoFar
<1>5. Sound(c)'
  BY <1>1, <1>3, <1>4 DEF Sound
<1>6. call' = c
  BY <1>0
<1> QED BY <1>5, <1>6 DEF Sound

LEMMA ReleaseStep == ASSUME IInv, FInv, EngineReleases PROVE FInv' /\ [Next]_vars
<1>1. PICK h \in issued \ Holding :
          ReleaseHandle(h) /\ prompts' = {p \in prompts : p.handle # h}
  BY DEF EngineReleases
<1>2. UNCHANGED <<call, staging, says>> /\ Next
  BY <1>1 DEF EngineReleases, Next
<1>3. Release(h) /\ (viewing # NoView => viewing.handle # h)
  BY <1>1 DEF ReleaseHandle
<1>4. live' = live \ {h} /\ rows' = rows /\ viewing' = viewing
  BY <1>1, <1>3, ReleaseFacts, StaleRelease
<1>5. /\ live = {p.handle : p \in prompts} \union Holding
      /\ \A p \in prompts : p.handle \notin Holding
  BY DEF FInv, Accounted
<1>6. Holding' = Holding
  BY <1>2 DEF Holding
<1>7. CallSound'
  BY <1>1, <1>2, <1>4, <1>5, CallKept
<1>8. PromptsWhole' /\ PromptsApart'
  <2>1. \A p \in prompts' : p.handle \in live'
    BY <1>1, <1>4, <1>5
  <2> QED BY <1>1, <1>2, <2>1, PromptsKept DEF FInv
<1>9. Accounted'
  BY <1>1, <1>4, <1>5, <1>6 DEF Accounted
<1>10. ViewOfPrompt'
  BY <1>1, <1>3, <1>4 DEF FInv, ViewOfPrompt
<1> QED BY <1>2, <1>7, <1>8, <1>9, <1>10 DEF FInv, StagingOK, SaysOK

LEMMA ReadStep == ASSUME IInv, FInv, EngineReads PROVE FInv' /\ [Next]_vars
<1>1. UNCHANGED <<call, staging, says, prompts>>
  BY DEF EngineReads, frontend
<1>2. ASSUME NEW p \in prompts, NEW t \in Rows, NEW k \in 1 .. p.handle.tokens,
             TakeView(p.handle, t, k)
      PROVE  FInv' /\ [Next]_vars
  <2>1. p.handle \in live
    BY DEF FInv, PromptsWhole, Whole
  <2>2. Next
    BY <1>2, <2>1 DEF Next
  <2>3. ViewOfPrompt' /\ UNCHANGED <<live, rows>>
    BY <1>1, <1>2 DEF TakeView, ViewOfPrompt
  <2> QED BY <1>1, <2>2, <2>3, SameStep
<1>3. ASSUME FinishView PROVE FInv' /\ [Next]_vars
  <2>1. ViewOfPrompt' /\ UNCHANGED <<live, rows>>
    BY <1>3 DEF FinishView, ViewOfPrompt
  <2> QED BY <1>1, <1>3, <2>1, SameStep DEF Next
<1> QED BY <1>2, <1>3 DEF EngineReads

LEMMA ReserveStep == ASSUME IInv, FInv, EngineReserves PROVE FInv' /\ [Next]_vars
<1>1. PICK n \in 1 .. MaxSlots : ReserveSlots(n)
  BY DEF EngineReserves
<1>2. UNCHANGED <<call, staging, says, prompts, live, rows, viewing>> /\ Next
  BY <1>1 DEF EngineReserves, frontend, ReserveSlots, Next
<1>3. ViewOfPrompt'
  BY <1>2 DEF FInv, ViewOfPrompt
<1> QED BY <1>2, <1>3, SameStep

LEMMA RestartStep == ASSUME IInv, FInv, EngineRestarts PROVE FInv' /\ [Next]_vars
<1>1. PICK n \in 1 .. MaxSlots : Recreate(n)
  BY DEF EngineRestarts
<1>2. /\ Next /\ live' = {} /\ viewing' = NoView
  BY <1>1 DEF Next, Recreate
<1>3. /\ call.phase = "idle" /\ prompts' = {} /\ UNCHANGED <<call, says>>
      /\ staging' = [one |-> Nothing, many |-> <<>>]
  BY DEF EngineRestarts
<1>4. call' = Idle
  BY <1>3, CallIsRecord DEF FInv, CallSound, Sound
<1>5. CallSound' /\ PromptsWhole' /\ PromptsApart' /\ ViewOfPrompt'
  BY <1>2, <1>3, <1>4 DEF CallSound, PromptsWhole, PromptsApart, ViewOfPrompt
<1>6. Accounted'
  BY <1>2, <1>3, <1>4 DEF Accounted, Holding, Idle
<1> QED BY <1>2, <1>3, <1>5, <1>6 DEF FInv, SaysOK, StagingOK

LEMMA FrontendInitFInv == FrontendInit => FInv
<1> SUFFICES ASSUME FrontendInit PROVE FInv
  OBVIOUS
<1>1. /\ call = Idle /\ prompts = {} /\ live = {} /\ viewing = NoView
      /\ staging = [one |-> Nothing, many |-> <<>>]
      /\ says = [i \in SlotIds |-> [t \in Rows |-> [of |-> Nothing, at |-> 0]]]
  BY DEF FrontendInit, Init
<1> QED BY <1>1 DEF FInv, SaysOK, StagingOK, CallSound, PromptsWhole,
                    PromptsApart, Accounted, Holding, Idle, ViewOfPrompt

(* Every step of the pipeline and the engine is a step of the pool's client or
   leaves the pool alone. *)
LEMMA FrontendStep == IInv /\ FInv /\ [FrontendNext]_allvars => FInv' /\ [Next]_vars
<1> SUFFICES ASSUME IInv, FInv, [FrontendNext]_allvars PROVE FInv' /\ [Next]_vars
  OBVIOUS
<1>1. CASE BeginCall
  BY <1>1, BeginStep
<1>2. CASE ForwardOne \/ ForwardBatch
  BY <1>2, ForwardStep
<1>3. CASE ForwardOneFails
  BY <1>3, GivenUpStep DEF ForwardOneFails, FInv, StagingOK
<1>4. CASE ForwardBatchFails
  <2>1. call.phase = "forward" /\ call.way = "batch"
    BY <1>4 DEF ForwardBatchFails
  <2>2. call.held = {}
    <3>0. PICK c : c = call
      OBVIOUS
    <3>1. Sound(c) /\ WellFormed(c)
      BY <2>1, <3>0, BusyFacts
    <3>2. Done(c) = 0 /\ InHand(c) = {}
      BY <2>1, <3>0, <3>1 DEF Sound, Tidy, Done, InHand, Filling
    <3>3. Settled(c, 0) = {}
      BY DEF Settled
    <3>4. c.held = {}
      BY <2>1, <3>0, <3>1, <3>2, <3>3 DEF Sound, Tidy
    <3> QED BY <3>0, <3>4
  <2>3. StagingOK'
    BY <1>4 DEF ForwardBatchFails, FInv, StagingOK
  <2> QED BY <1>4, <2>1, <2>2, <2>3, FallBackStep DEF ForwardBatchFails
<1>5. CASE AcquirePrompt
  BY <1>5, AcquireStep
<1>6. CASE AcquireFails
  <2>1. StagingOK' /\ call.phase = "acquire" /\ UNCHANGED <<vars, says, prompts>>
    BY <1>6 DEF AcquireFails, FInv, StagingOK
  <2>2. CASE call.way = "single"
    BY <1>6, <2>1, <2>2, GivenUpStep DEF AcquireFails
  <2>3. CASE call.way # "single"
    <3>1. call.way = "batch"
      BY <2>1, <2>3, BusyFacts, CallIsRecord
    <3> QED BY <1>6, <2>1, <2>3, <3>1, ToUndoStep DEF AcquireFails
  <2> QED BY <2>2, <2>3
<1>7. CASE CopyAudio
  BY <1>7, CopyStep
<1>8. CASE CopyFails
  BY <1>8, CopyFailsStep
<1>9. CASE WritePrefix
  BY <1>9, PrefixStep
<1>10. CASE WriteSuffix
  BY <1>10, SuffixStep
<1>11. CASE Undo
  BY <1>11, UndoStep
<1>12. CASE Deliver
  BY <1>12, DeliverStep
<1>13. CASE EngineReleases
  BY <1>13, ReleaseStep
<1>14. CASE EngineReads
  BY <1>14, ReadStep
<1>15. CASE EngineReserves
  BY <1>15, ReserveStep
<1>16. CASE EngineRestarts
  BY <1>16, RestartStep
<1>17. CASE UNCHANGED allvars
  <2>1. UNCHANGED <<call, staging, says, prompts, live, rows, viewing>>
        /\ UNCHANGED vars
    BY <1>17 DEF allvars, vars
  <2>2. ViewOfPrompt'
    BY <2>1 DEF FInv, ViewOfPrompt
  <2> QED BY <2>1, <2>2, SameStep
<1> QED BY <1>1, <1>2, <1>3, <1>4, <1>5, <1>6, <1>7, <1>8, <1>9, <1>10, <1>11,
           <1>12, <1>13, <1>14, <1>15, <1>16, <1>17 DEF FrontendNext

LEMMA FrontendInvariant == FrontendSpec => [](IInv /\ FInv)
<1>1. FrontendInit => IInv /\ FInv
  BY FrontendInitFInv, InitIInv DEF FrontendInit
<1>2. IInv /\ FInv /\ [FrontendNext]_allvars => (IInv /\ FInv)'
  BY FrontendStep, NextIInv
<1> QED BY <1>1, <1>2, PTL DEF FrontendSpec

(***************************************************************************)
(* The pipeline is a client the pool was proved for: whatever batch fails  *)
(* and whoever is prepared again, each of its calls of the pool is one     *)
(* that Spec allows, so the pool's theorems hold of it.                    *)
(***************************************************************************)
THEOREM FrontendUsesPool == FrontendSpec => Spec
<1>1. FrontendInit => Init
  BY DEF FrontendInit
<1>2. IInv /\ FInv /\ [FrontendNext]_allvars => [Next]_vars
  BY FrontendStep
<1> QED BY <1>1, <1>2, FrontendInvariant, PTL DEF FrontendSpec, Spec

LEMMA PromptsLemma == FInv => PreparedPromptsAreOwn
<1> SUFFICES ASSUME FInv PROVE PreparedPromptsAreOwn
  OBVIOUS
<1>1. \A p, q \in prompts : p.handle = q.handle => p = q
  BY DEF FInv, PromptsApart
<1>2. call.phase = "idle" => live = {p.handle : p \in prompts}
  BY DEF FInv, Accounted, Holding
<1>3. \A p \in prompts :
          /\ p.handle \in live
          /\ p.handle.tokens = StoredTokens(p.request, p.cached)
          /\ \A t \in 0 .. p.handle.tokens - 1 :
                /\ rows[p.handle.slot][t] = p.handle
                /\ says[p.handle.slot][t] = Said(p.request, p.cached, t)
  BY DEF FInv, PromptsWhole, Whole, Told
<1> QED BY <1>1, <1>2, <1>3 DEF PreparedPromptsAreOwn

(* For any number of requests, of any lengths, with and without a cached
   prefix: a prompt that prepare_prompts_gpu_batch_from_fbank returned says
   what its request said, in a slot of its own, and what a failed batch had
   acquired is free again. *)
THEOREM PromptsAreOwn == FrontendSpec => []PreparedPromptsAreOwn
  BY FrontendInvariant, PromptsLemma, PTL

-----------------------------------------------------------------------------
(***************************************************************************)
(* The graph cache.                                                        *)
(***************************************************************************)

\* A cached graph points into the buffers there are; that the allocator has
\* one is needed, since it may have been freed for want of memory.
PointsAt(g, tensor, buffer) ==
    /\ g.rows = tensor.buffer
    /\ buffer.size > 0 => g.memory = buffer.generation

StagedFits == staged # NoShape => PromptRows[staged] <= staging_tensor.capacity

\* The inductive invariant.
CacheInv ==
    /\ CacheTypeOK
    /\ StagedFits
    /\ \A k \in DOMAIN graph_cache : PointsAt(graph_cache[k], staging_tensor, allocator)
    /\ EvictsLeastRecent

-----------------------------------------------------------------------------
(***************************************************************************)
(* What the operators on the cache do.                                     *)
(***************************************************************************)

(* A set of natural numbers that is not empty has a least element.         *)
LEMMA MinIsLeast ==
    ASSUME NEW S \in SUBSET Nat, S # {}
    PROVE  Min(S) \in S /\ \A n \in S : Min(S) <= n
<1>1. PICK x \in S : \A y \in S : ~ (<<y, x>> \in OpToRel(<, Nat))
  BY NatLessThanWellFounded, WFMin
<1>2. \A y \in S : ~ (y < x)
  BY <1>1, Zenon DEF OpToRel
<1>3. \A y \in S : x <= y
  BY <1>2
<1> QED  BY <1>3 DEF Min

(* ensure_capacity makes the staging tensor large enough, and no larger    *)
(* than the most rows a step may have.                                     *)
LEMMA NewCapacitySuffices ==
    ASSUME CacheTypeOK, NEW want \in 1 .. MaxPacked
    PROVE  NewCapacity(want) \in want .. MaxPacked
<1> DEFINE sizes == {n \in want .. MaxPacked :
                       n = MaxPacked \/ \E i \in 0 .. want : n = staging_tensor.capacity * 2 ^ i}
<1>1. MaxPacked \in sizes /\ sizes \subseteq want .. MaxPacked /\ sizes \in SUBSET Nat
  BY CacheAssumption
<1>2. Min(sizes) \in sizes
  BY <1>1, MinIsLeast
<1>3. want \in want .. MaxPacked
  BY CacheAssumption
<1> HIDE DEF sizes
<1>4. NewCapacity(want) = IF staging_tensor.capacity = 0 THEN want ELSE Min(sizes)
  BY DEF NewCapacity, sizes
<1> QED  BY <1>1, <1>2, <1>3, <1>4

(* A hit moves its graph to the front and leaves the others in order: the *)
(* graph at place i of the cache came from place Was(k, i).                *)
Was(k, i) == IF i = 1 THEN k ELSE IF i <= k THEN i - 1 ELSE i

LEMMA MovedToFrontPermutes ==
    ASSUME graph_cache \in Seq(Graph), NEW k \in DOMAIN graph_cache
    PROVE  /\ MovedToFront(k) \in Seq(Graph)
           /\ Len(MovedToFront(k)) = Len(graph_cache)
           /\ \A i \in 1 .. Len(graph_cache) : MovedToFront(k)[i] = graph_cache[Was(k, i)]
<1> DEFINE n      == Len(graph_cache)
           before == SubSeq(graph_cache, 1, k - 1)
           after  == SubSeq(graph_cache, k + 1, n)
           others == before \o after
           first  == <<graph_cache[k]>>
<1>1. k \in 1 .. n /\ n \in Nat
  OBVIOUS
<1>2. /\ before \in Seq(Graph) /\ Len(before) = k - 1
      /\ \A i \in 1 .. k - 1 : before[i] = graph_cache[i]
  BY <1>1, SubSeqProperties
<1>3. /\ after \in Seq(Graph) /\ Len(after) = n - k
      /\ \A i \in 1 .. n - k : after[i] = graph_cache[k + i]
  BY <1>1, SubSeqProperties
<1>4. first \in Seq(Graph) /\ Len(first) = 1 /\ first[1] = graph_cache[k]
  BY <1>1
<1>5. MovedToFront(k) = first \o others
  BY DEF MovedToFront, RemoveAt
<1> HIDE DEF n, before, after, first
<1>6. /\ others \in Seq(Graph) /\ Len(others) = n - 1
      /\ \A i \in 1 .. n - 1 : others[i] = IF i <= k - 1 THEN before[i] ELSE after[i - (k - 1)]
  <2>1. /\ others \in Seq(Graph) /\ Len(others) = Len(before) + Len(after)
        /\ \A i \in 1 .. Len(before) + Len(after) :
             others[i] = IF i <= Len(before) THEN before[i] ELSE after[i - Len(before)]
    BY <1>2, <1>3, ConcatProperties
  <2>2. Len(before) = k - 1 /\ Len(before) + Len(after) = n - 1
    BY <1>1, <1>2, <1>3
  <2> HIDE DEF others
  <2> QED  BY ONLY <2>1, <2>2
<1> HIDE DEF others
<1>7. /\ first \o others \in Seq(Graph) /\ Len(first \o others) = n
      /\ \A i \in 1 .. n : (first \o others)[i] = IF i <= 1 THEN first[i] ELSE others[i - 1]
  <2>1. /\ first \o others \in Seq(Graph) /\ Len(first \o others) = Len(first) + Len(others)
        /\ \A i \in 1 .. Len(first) + Len(others) :
             (first \o others)[i] = IF i <= Len(first) THEN first[i] ELSE others[i - Len(first)]
    BY <1>4, <1>6, ConcatProperties
  <2>2. Len(first) = 1 /\ Len(first) + Len(others) = n
    BY <1>1, <1>4, <1>6
  <2> QED  BY ONLY <2>1, <2>2
<1>8. ASSUME NEW i \in 1 .. n
      PROVE  (first \o others)[i] = graph_cache[Was(k, i)]
  <2>1. CASE i = 1
    BY <2>1, <1>4, <1>7 DEF Was
  <2>2. CASE i # 1 /\ i <= k
    <3>1. i - 1 \in 1 .. n - 1 /\ i - 1 <= k - 1 /\ i - 1 \in 1 .. k - 1
      BY <2>2, <1>1
    <3>2. (first \o others)[i] = others[i - 1]
      BY <2>2, <1>7
    <3> QED  BY <3>1, <3>2, <2>2, <1>2, <1>6 DEF Was
  <2>3. CASE i # 1 /\ ~ (i <= k)
    <3>1. i - 1 \in 1 .. n - 1 /\ ~ (i - 1 <= k - 1)
          /\ i - 1 - (k - 1) \in 1 .. n - k /\ k + (i - 1 - (k - 1)) = i
      BY <2>3, <1>1
    <3>2. (first \o others)[i] = others[i - 1]
      BY <2>3, <1>7
    <3> QED  BY <3>1, <3>2, <2>3, <1>3, <1>6 DEF Was
  <2> QED  BY <2>1, <2>2, <2>3
<1> QED  BY <1>5, <1>7, <1>8 DEF n

(* Dropping graphs at the end leaves the ones in front where they are.     *)
LEMMA PrefixOfCache ==
    ASSUME NEW c \in Seq(Graph), NEW m \in 0 .. Len(c)
    PROVE  /\ SubSeq(c, 1, m) \in Seq(Graph)
           /\ Len(SubSeq(c, 1, m)) = m
           /\ \A i \in 1 .. m : SubSeq(c, 1, m)[i] = c[i]
<1>1. m \in Int /\ 1 \in Int /\ \A i \in 1 .. m : c[i] \in Graph
  OBVIOUS
<1>2. /\ SubSeq(c, 1, m) \in Seq(Graph)
      /\ Len(SubSeq(c, 1, m)) = IF 1 <= m THEN m - 1 + 1 ELSE 0
      /\ \A i \in 1 .. m - 1 + 1 : SubSeq(c, 1, m)[i] = c[1 + i - 1]
  BY <1>1, SubSeqProperties
<1> QED  BY <1>2

(* A graph that is kept comes first, the ones behind it keep their order,  *)
(* and there are no more than the capacity.                                *)
LEMMA RetainedInFront ==
    ASSUME NEW s \in Shapes, NEW c \in Seq(Graph), NEW g \in Nat, NewGraph(s, g) \in Graph,
           capacity \in Nat \ {0}, Len(c) <= capacity, observed[s] > 0
    PROVE  LET r == Retained(s, c, g)
           IN  /\ r \in Seq(Graph)
               /\ Len(r) \in 1 .. capacity /\ Len(r) - 1 <= Len(c)
               /\ r[1] = NewGraph(s, g)
               /\ \A i \in 2 .. Len(r) : r[i] = c[i - 1]
<1> DEFINE m     == IF Len(c) < capacity THEN Len(c) ELSE capacity - 1
           first == <<NewGraph(s, g)>>
           rest  == SubSeq(c, 1, m)
<1>1. m \in 0 .. Len(c) /\ m + 1 <= capacity
  OBVIOUS
<1>2. rest \in Seq(Graph) /\ Len(rest) = m /\ \A i \in 1 .. m : rest[i] = c[i]
  BY <1>1, PrefixOfCache
<1>3. first \in Seq(Graph) /\ Len(first) = 1 /\ first[1] = NewGraph(s, g)
  OBVIOUS
<1>4. Retained(s, c, g) = first \o rest
  BY DEF Retained
<1> HIDE DEF m, first, rest
<1>5. /\ first \o rest \in Seq(Graph) /\ Len(first \o rest) = Len(first) + Len(rest)
      /\ \A i \in 1 .. Len(first) + Len(rest) :
           (first \o rest)[i] = IF i <= Len(first) THEN first[i] ELSE rest[i - Len(first)]
  BY <1>2, <1>3, ConcatProperties
<1>6. Len(first \o rest) = m + 1
  BY <1>1, <1>2, <1>3, <1>5
<1>7. ASSUME NEW i \in 1 .. m + 1
      PROVE  (first \o rest)[i] = IF i <= 1 THEN first[1] ELSE c[i - 1]
  <2>1. (first \o rest)[i] = IF i <= 1 THEN first[i] ELSE rest[i - 1]
    BY <1>1, <1>2, <1>3, <1>5
  <2> QED  BY <2>1, <1>1, <1>2
<1> QED  BY <1>1, <1>3, <1>4, <1>5, <1>6, <1>7

-----------------------------------------------------------------------------
(***************************************************************************)
(* The steps.                                                              *)
(***************************************************************************)

(* An empty cache needs no more than the state around it.                  *)
LEMMA EmptyCacheInv ==
    ASSUME graph_cache' = <<>>,
           staging_tensor' \in [buffer : 0 .. MaxBuffers, capacity : 0 .. MaxPacked],
           allocator'.generation \in 0 .. MaxBuffers,
           allocator'.size \in {0} \union {Memory[s] : s \in Shapes},
           observed' \in [Shapes -> 0 .. 2], capacity' \in 1 .. MaxEntries,
           staged' \in Shapes \union {NoShape}, newer' \subseteq Shapes \X Shapes,
           StagedFits'
    PROVE  CacheInv'
<1>1. graph_cache' \in Seq(Graph) /\ Len(graph_cache') = 0 /\ DOMAIN graph_cache' = {}
  OBVIOUS
<1>2. CacheTypeOK'
  BY <1>1 DEF CacheTypeOK
<1> QED  BY <1>1, <1>2 DEF CacheInv, EvictsLeastRecent

(* Counting a shape.                                                       *)
LEMMA ObserveCounts ==
    ASSUME CacheTypeOK, NEW s \in Shapes, Observe(s)
    PROVE  /\ observed' \in [Shapes -> 0 .. 2]
           /\ observed[s] > 0 => observed'[s] = 2
           /\ \A x \in Shapes : observed[x] = 2 => observed'[x] = 2
<1>1. observed \in [Shapes -> 0 .. 2]
  BY DEF CacheTypeOK
<1> QED  BY <1>1 DEF Observe

(* A step that computed s: s is newer than all others, and the others are  *)
(* as they were.                                                           *)
LEMMA ComputedOrders ==
    ASSUME CacheTypeOK, NEW s \in Shapes, Computed(s)
    PROVE  /\ newer' \subseteq Shapes \X Shapes
           /\ \A x \in Shapes \ {s} : <<s, x>> \in newer'
           /\ \A x, y \in Shapes \ {s} : <<x, y>> \in newer => <<x, y>> \in newer'
<1>1. newer \subseteq Shapes \X Shapes
  BY DEF CacheTypeOK
<1> QED  BY <1>1 DEF Computed

(* A hit: the graph moves to the front, and its shape is the newest; or    *)
(* the step fails and all graphs go.                                       *)
LEMMA ExecuteCachedInv ==
    ASSUME CacheInv, NEW s \in Shapes, ExecuteCached(s)
    PROVE  CacheInv'
<1>1. CacheTypeOK /\ StagedFits /\ EvictsLeastRecent
      /\ \A k \in DOMAIN graph_cache : PointsAt(graph_cache[k], staging_tensor, allocator)
  BY DEF CacheInv
<1>2. /\ observed' \in [Shapes -> 0 .. 2]
      /\ \A x \in Shapes : observed[x] = 2 => observed'[x] = 2
      /\ UNCHANGED <<staging_tensor, allocator, capacity, staged>>
  BY <1>1, ObserveCounts DEF ExecuteCached
<1>3. StagedFits'
  BY <1>1, <1>2 DEF StagedFits
<1>4. PICK k \in Cached(s) : (graph_cache' = MovedToFront(k) /\ Computed(s)) \/ Failed
  BY DEF ExecuteCached
<1>5. CASE Failed
  BY <1>1, <1>2, <1>3, <1>5, EmptyCacheInv DEF Failed, CacheTypeOK
<1>6. CASE graph_cache' = MovedToFront(k) /\ Computed(s)
  <2>1. graph_cache \in Seq(Graph) /\ k \in 1 .. Len(graph_cache) /\ graph_cache[k].shape = s
        /\ Len(graph_cache) \in Nat /\ DOMAIN graph_cache = 1 .. Len(graph_cache)
    BY <1>1 DEF CacheTypeOK, Cached
  <2>2. /\ graph_cache' \in Seq(Graph) /\ Len(graph_cache') = Len(graph_cache)
        /\ DOMAIN graph_cache' = 1 .. Len(graph_cache)
        /\ \A i \in 1 .. Len(graph_cache) : graph_cache'[i] = graph_cache[Was(k, i)]
    BY <1>6, <2>1, MovedToFrontPermutes
  <2>3. /\ \A i \in 1 .. Len(graph_cache) : Was(k, i) \in 1 .. Len(graph_cache)
        /\ \A i, j \in 1 .. Len(graph_cache) :
             /\ Was(k, i) = Was(k, j) => i = j
             /\ i < j => i = 1 \/ Was(k, i) < Was(k, j)
             /\ 1 < i => Was(k, i) # k
        /\ Was(k, 1) = k
    BY <2>1 DEF Was
  <2>4. \A i, j \in 1 .. Len(graph_cache) :
          graph_cache[i].shape = graph_cache[j].shape => i = j
    BY <1>1, <2>1 DEF CacheTypeOK
  <2>5. CacheTypeOK'
    <3>1. \A i, j \in DOMAIN graph_cache' :
            graph_cache'[i].shape = graph_cache'[j].shape => i = j
      BY <2>2, <2>3, <2>4
    <3>2. \A i \in DOMAIN graph_cache' : observed'[graph_cache'[i].shape] = 2
      <4> SUFFICES ASSUME NEW i \in 1 .. Len(graph_cache)
                   PROVE  observed'[graph_cache[Was(k, i)].shape] = 2
        BY <2>2
      <4>1. graph_cache[Was(k, i)] \in Graph /\ observed[graph_cache[Was(k, i)].shape] = 2
        BY SMTT(30), <1>1, <2>1, <2>3 DEF CacheTypeOK
      <4> QED  BY <4>1, <1>2 DEF Graph
    <3>3. newer' \subseteq Shapes \X Shapes
      BY <1>1, <1>6, ComputedOrders
    <3> QED  BY <1>1, <1>2, <2>2, <3>1, <3>2, <3>3 DEF CacheTypeOK
  <2>6. \A i \in DOMAIN graph_cache' : PointsAt(graph_cache'[i], staging_tensor', allocator')
    BY <1>1, <1>2, <2>1, <2>2, <2>3 DEF PointsAt
  <2>7. ASSUME NEW i \in 1 .. Len(graph_cache), NEW j \in 1 .. Len(graph_cache), i < j
        PROVE  <<graph_cache'[i].shape, graph_cache'[j].shape>> \in newer'
    <3>1. /\ graph_cache[Was(k, i)].shape \in Shapes
          /\ graph_cache[Was(k, j)].shape \in Shapes \ {s}
      <4>1. Was(k, i) \in 1 .. Len(graph_cache) /\ Was(k, j) \in 1 .. Len(graph_cache)
            /\ Was(k, j) # k
        BY <2>1, <2>3, <2>7
      <4>2. graph_cache[Was(k, i)] \in Graph /\ graph_cache[Was(k, j)] \in Graph
        BY <2>1, <4>1
      <4>3. graph_cache[Was(k, j)].shape # s
        BY <2>1, <2>4, <4>1
      <4> QED  BY <4>2, <4>3 DEF Graph
    <3>2. CASE i = 1
      <4>1. graph_cache'[i].shape = s
        BY <2>1, <2>2, <2>3, <3>2
      <4>2. <<s, graph_cache'[j].shape>> \in newer'
        BY <1>1, <1>6, <2>2, <3>1, ComputedOrders
      <4> QED  BY <4>1, <4>2
    <3>3. CASE i # 1
      <4>1. graph_cache[Was(k, i)].shape \in Shapes \ {s}
        BY SMTT(30), <2>1, <2>3, <2>4, <3>1, <3>3
      <4>2. <<graph_cache[Was(k, i)].shape, graph_cache[Was(k, j)].shape>> \in newer
        BY <1>1, <2>1, <2>3, <2>7, <3>3 DEF EvictsLeastRecent
      <4>3. <<graph_cache[Was(k, i)].shape, graph_cache[Was(k, j)].shape>> \in newer'
        BY <1>1, <1>6, <3>1, <4>1, <4>2, ComputedOrders
      <4> QED  BY <2>2, <4>3
    <3> QED  BY <3>2, <3>3
  <2> QED  BY <1>3, <2>2, <2>5, <2>6, <2>7 DEF CacheInv, EvictsLeastRecent
<1> QED  BY <1>4, <1>5, <1>6

(* A graph is built beside the graphs c, which were cached before the step *)
(* and point at the buffers there are after it.                            *)
LEMMA BuiltInv ==
    ASSUME CacheInv, NEW s \in Shapes, NEW c,
           c = graph_cache \/ c = <<>>,
           Cached(s) = {}, staged = s, Observe(s), Computed(s),
           graph_cache' = Retained(s, c, allocator'.generation),
           UNCHANGED <<staging_tensor, capacity, staged>>,
           allocator'.generation \in 0 .. MaxBuffers,
           allocator'.size \in {0} \union {Memory[x] : x \in Shapes},
           c = <<>> \/ UNCHANGED allocator
    PROVE  CacheInv'
<1>1. CacheTypeOK /\ StagedFits /\ EvictsLeastRecent
      /\ \A k \in DOMAIN graph_cache : PointsAt(graph_cache[k], staging_tensor, allocator)
  BY DEF CacheInv
<1>2. /\ observed' \in [Shapes -> 0 .. 2]
      /\ observed[s] > 0 => observed'[s] = 2
      /\ \A x \in Shapes : observed[x] = 2 => observed'[x] = 2
  BY <1>1, ObserveCounts
<1>3. StagedFits'
  BY <1>1 DEF StagedFits
<1>4. /\ newer' \subseteq Shapes \X Shapes
      /\ \A x \in Shapes \ {s} : <<s, x>> \in newer'
      /\ \A x, y \in Shapes \ {s} : <<x, y>> \in newer => <<x, y>> \in newer'
  BY <1>1, ComputedOrders
<1>5. c \in Seq(Graph) /\ Len(c) <= capacity /\ Len(c) \in Nat /\ DOMAIN c = 1 .. Len(c)
      /\ capacity \in Nat \ {0}
  <2>1. capacity \in Nat \ {0} /\ graph_cache \in Seq(Graph) /\ Len(graph_cache) <= capacity
    <3>1. capacity \in 1 .. MaxEntries /\ graph_cache \in Seq(Graph)
          /\ Len(graph_cache) <= capacity
      BY <1>1 DEF CacheTypeOK
    <3>2. MaxEntries \in Nat
      BY CacheAssumption
    <3>3. capacity \in Nat \ {0}
      BY <3>1, <3>2
    <3> QED  BY <3>1, <3>3
  <2>2. CASE c = <<>>
    <3>1. c \in Seq(Graph) /\ Len(c) = 0 /\ DOMAIN c = 1 .. 0
      BY <2>2
    <3> QED  BY <2>1, <3>1
  <2>3. CASE c = graph_cache
    BY <2>1, <2>3
  <2> QED  BY <2>2, <2>3
<1>6. /\ \A i \in 1 .. Len(c) : /\ c[i].shape \in Shapes \ {s}
                                /\ observed'[c[i].shape] = 2
                                /\ PointsAt(c[i], staging_tensor', allocator')
      /\ \A i, j \in 1 .. Len(c) : c[i].shape = c[j].shape => i = j
      /\ \A i, j \in 1 .. Len(c) : i < j => <<c[i].shape, c[j].shape>> \in newer'
  <2>1. CASE c = <<>>
    BY <2>1
  <2>2. CASE c = graph_cache /\ UNCHANGED allocator
    <3>1. ASSUME NEW i \in 1 .. Len(c)
          PROVE  c[i].shape \in Shapes \ {s} /\ observed[c[i].shape] = 2
      <4>1. i \in DOMAIN graph_cache /\ c[i] = graph_cache[i] /\ c[i] \in Graph
        BY <1>5, <2>2
      <4>2. c[i].shape \in Shapes
        BY <4>1 DEF Graph
      <4>3. c[i].shape # s
        BY <4>1 DEF Cached
      <4> QED  BY <1>1, <4>1, <4>2, <4>3 DEF CacheTypeOK
    <3>2. \A i \in 1 .. Len(c) : PointsAt(c[i], staging_tensor', allocator')
      BY <1>1, <1>5, <2>2 DEF PointsAt
    <3>3. \A i, j \in 1 .. Len(c) : c[i].shape = c[j].shape => i = j
      BY <1>1, <1>5, <2>2 DEF CacheTypeOK
    <3>4. \A i, j \in 1 .. Len(c) : i < j => <<c[i].shape, c[j].shape>> \in newer
      BY <1>1, <1>5, <2>2 DEF EvictsLeastRecent
    <3> QED  BY <1>2, <1>4, <3>1, <3>2, <3>3, <3>4
  <2> QED  BY <2>1, <2>2
<1> DEFINE new == NewGraph(s, allocator'.generation)
<1>7. new \in Graph /\ new.shape = s /\ PointsAt(new, staging_tensor', allocator')
  BY SMTT(30), <1>1, CacheAssumption DEF NewGraph, Graph, CacheTypeOK, PointsAt
<1>8. CASE observed[s] > 0
  <2>1. /\ graph_cache' \in Seq(Graph)
        /\ Len(graph_cache') \in 1 .. capacity /\ Len(graph_cache') - 1 <= Len(c)
        /\ graph_cache'[1] = new
        /\ \A i \in 2 .. Len(graph_cache') : graph_cache'[i] = c[i - 1]
        /\ DOMAIN graph_cache' = 1 .. Len(graph_cache')
    <3>1. allocator'.generation \in Nat /\ NewGraph(s, allocator'.generation) \in Graph
      BY <1>7, CacheAssumption
    <3> DEFINE r == Retained(s, c, allocator'.generation)
    <3>2. /\ r \in Seq(Graph)
          /\ Len(r) \in 1 .. capacity /\ Len(r) - 1 <= Len(c)
          /\ r[1] = NewGraph(s, allocator'.generation)
          /\ \A i \in 2 .. Len(r) : r[i] = c[i - 1]
      BY <1>5, <1>8, <3>1, RetainedInFront
    <3>3. graph_cache' = r
      OBVIOUS
    <3> HIDE DEF r
    <3> QED  BY <3>2, <3>3
  <2>2. \A i \in 2 .. Len(graph_cache') : i - 1 \in 1 .. Len(c)
    BY <1>5, <2>1
  <2>3. \A i \in DOMAIN graph_cache' : i = 1 \/ i \in 2 .. Len(graph_cache')
    BY <2>1
  <2>4. /\ \A i \in DOMAIN graph_cache' : /\ observed'[graph_cache'[i].shape] = 2
                                         /\ PointsAt(graph_cache'[i], staging_tensor', allocator')
        /\ \A i, j \in DOMAIN graph_cache' :
              graph_cache'[i].shape = graph_cache'[j].shape => i = j
        /\ \A i, j \in DOMAIN graph_cache' :
              i < j => <<graph_cache'[i].shape, graph_cache'[j].shape>> \in newer'
    <3> HIDE DEF new
    <3>1. \A i \in 2 .. Len(graph_cache') :
            /\ graph_cache'[i].shape \in Shapes \ {s}
            /\ observed'[graph_cache'[i].shape] = 2
            /\ PointsAt(graph_cache'[i], staging_tensor', allocator')
      BY <1>6, <2>1, <2>2
    <3>2. observed'[graph_cache'[1].shape] = 2 /\ PointsAt(graph_cache'[1], staging_tensor', allocator')
          /\ graph_cache'[1].shape = s
      BY <1>2, <1>7, <1>8, <2>1
    <3>3. ASSUME NEW i \in 2 .. Len(graph_cache'), NEW j \in 2 .. Len(graph_cache')
          PROVE  /\ graph_cache'[i].shape = graph_cache'[j].shape => i = j
                 /\ i < j => <<graph_cache'[i].shape, graph_cache'[j].shape>> \in newer'
      <4>1. /\ graph_cache'[i] = c[i - 1] /\ i - 1 \in 1 .. Len(c)
            /\ graph_cache'[j] = c[j - 1] /\ j - 1 \in 1 .. Len(c)
        BY <2>1, <2>2
      <4>2. /\ i - 1 = j - 1 => i = j
            /\ i < j => i - 1 < j - 1
        BY <2>1
      <4> QED  BY <1>6, <4>1, <4>2
    <3>4. \A j \in 2 .. Len(graph_cache') :
            <<graph_cache'[1].shape, graph_cache'[j].shape>> \in newer'
      BY <1>4, <3>1, <3>2
    <3>5. ASSUME NEW i \in DOMAIN graph_cache', NEW j \in DOMAIN graph_cache'
          PROVE  /\ graph_cache'[i].shape = graph_cache'[j].shape => i = j
                 /\ i < j => <<graph_cache'[i].shape, graph_cache'[j].shape>> \in newer'
      <4>1. CASE i = 1 /\ j = 1
        BY <4>1
      <4>2. CASE i = 1 /\ j \in 2 .. Len(graph_cache')
        BY <3>1, <3>2, <3>4, <4>2
      <4>3. CASE i \in 2 .. Len(graph_cache') /\ j = 1
        <5>1. ~ (i < j)
          BY <4>3
        <5>2. graph_cache'[i].shape # graph_cache'[j].shape
          BY <3>1, <3>2, <4>3
        <5> QED  BY <5>1, <5>2
      <4>4. CASE i \in 2 .. Len(graph_cache') /\ j \in 2 .. Len(graph_cache')
        BY <3>3, <4>4
      <4> QED  BY <2>3, <4>1, <4>2, <4>3, <4>4
    <3>6. \A i \in DOMAIN graph_cache' : /\ observed'[graph_cache'[i].shape] = 2
                                       /\ PointsAt(graph_cache'[i], staging_tensor', allocator')
      BY <2>3, <3>1, <3>2
    <3> QED  BY <3>5, <3>6
  <2>5. CacheTypeOK'
    BY SMTT(30), <1>1, <1>2, <1>4, <2>1, <2>4 DEF CacheTypeOK
  <2> QED  BY <1>3, <2>4, <2>5 DEF CacheInv, EvictsLeastRecent
<1>9. CASE ~ (observed[s] > 0)
  <2>1. graph_cache' = c
    BY <1>9 DEF Retained
  <2>2. CacheTypeOK'
    BY <1>1, <1>2, <1>4, <1>5, <1>6, <2>1 DEF CacheTypeOK
  <2> QED  BY <1>3, <1>5, <1>6, <2>1, <2>2 DEF CacheInv, EvictsLeastRecent
<1> QED  BY <1>8, <1>9

(* ensure_capacity drops the graphs with the tensor they read.             *)
LEMMA StageGrowingInv ==
    ASSUME CacheInv, NEW s \in Shapes, StageGrowing(s)
    PROVE  CacheInv'
<1>1. CacheTypeOK
  BY DEF CacheInv
<1>2. PromptRows[s] \in 1 .. MaxPacked
  <2>1. staging_tensor.capacity \in 0 .. MaxPacked /\ PromptRows[s] \in 0 .. MaxPacked
        /\ MaxPacked \in Nat
    BY <1>1, CacheAssumption DEF CacheTypeOK
  <2>2. staging_tensor.capacity < PromptRows[s]
    BY DEF StageGrowing
  <2> QED  BY <2>1, <2>2
<1>3. NewCapacity(PromptRows[s]) \in PromptRows[s] .. MaxPacked
  BY <1>1, <1>2, NewCapacitySuffices
<1>4. staging_tensor' = [buffer |-> staging_tensor.buffer + 1, capacity |-> NewCapacity(PromptRows[s])]
      /\ staging_tensor.buffer + 1 \in 0 .. MaxBuffers
  BY SMTT(30), <1>1, CacheAssumption DEF StageGrowing, CacheTypeOK
<1>5. staging_tensor' \in [buffer : 0 .. MaxBuffers, capacity : 0 .. MaxPacked]
      /\ PromptRows[s] <= staging_tensor'.capacity
  BY <1>2, <1>3, <1>4, CacheAssumption
<1>6. StagedFits'
  BY <1>5 DEF StagedFits, StageGrowing
<1>7. graph_cache' = <<>> /\ staged' = s /\ UNCHANGED <<allocator, observed, capacity, newer>>
  BY DEF StageGrowing, CacheAfterGrowth
<1>8. /\ allocator.generation \in 0 .. MaxBuffers
      /\ allocator.size \in {0} \union {Memory[x] : x \in Shapes}
      /\ observed \in [Shapes -> 0 .. 2] /\ capacity \in 1 .. MaxEntries
      /\ newer \subseteq Shapes \X Shapes
  BY <1>1 DEF CacheTypeOK
<1> QED  BY <1>5, <1>6, <1>7, <1>8, EmptyCacheInv

(* The buffer is replaced, so the graphs that point into it go; or the     *)
(* step fails after that and none is left.                                 *)
LEMMA BuildGrowingInv ==
    ASSUME CacheInv, NEW s \in Shapes, BuildGrowing(s)
    PROVE  CacheInv'
<1>1. CacheTypeOK /\ StagedFits
  BY DEF CacheInv
<1>2. /\ allocator' = [generation |-> allocator.generation + 1, size |-> Memory[s]]
      /\ allocator.generation < MaxBuffers
      /\ staged = s /\ Cached(s) = {} /\ Observe(s)
      /\ UNCHANGED <<staging_tensor, capacity, staged>>
  BY DEF BuildGrowing
<1>3. allocator'.generation \in 0 .. MaxBuffers /\ allocator'.generation = allocator.generation + 1
      /\ allocator'.size \in {0} \union {Memory[x] : x \in Shapes}
  BY SMTT(30), <1>1, <1>2, CacheAssumption DEF CacheTypeOK
<1>4. CASE graph_cache' = Retained(s, <<>>, allocator.generation + 1) /\ Computed(s)
  BY <1>2, <1>3, <1>4, BuiltInv
<1>5. CASE Failed
  <2>1. observed' \in [Shapes -> 0 .. 2]
    BY <1>1, <1>2, ObserveCounts
  <2>2. StagedFits'
    BY <1>1, <1>2 DEF StagedFits
  <2> QED  BY <1>1, <1>2, <1>3, <1>5, <2>1, <2>2, EmptyCacheInv DEF Failed, CacheTypeOK
<1> QED  BY <1>4, <1>5 DEF BuildGrowing, CacheAfterRealloc

(* The buffer is large enough: the graph joins the others.                 *)
LEMMA BuildInPlaceInv ==
    ASSUME CacheInv, NEW s \in Shapes, BuildInPlace(s)
    PROVE  CacheInv'
<1>1. CacheTypeOK /\ StagedFits
  BY DEF CacheInv
<1>2. /\ staged = s /\ Cached(s) = {} /\ Observe(s)
      /\ UNCHANGED <<staging_tensor, allocator, capacity, staged>>
  BY DEF BuildInPlace
<1>3. allocator'.generation \in 0 .. MaxBuffers /\ allocator' = allocator
      /\ allocator'.size \in {0} \union {Memory[x] : x \in Shapes}
  BY <1>1, <1>2 DEF CacheTypeOK
<1>4. CASE graph_cache' = Retained(s, graph_cache, allocator.generation) /\ Computed(s)
  BY <1>2, <1>3, <1>4, BuiltInv
<1>5. CASE Failed
  <2>1. observed' \in [Shapes -> 0 .. 2]
    BY <1>1, <1>2, ObserveCounts
  <2>2. StagedFits'
    BY <1>1, <1>2 DEF StagedFits
  <2> QED  BY <1>1, <1>2, <1>3, <1>5, <2>1, <2>2, EmptyCacheInv DEF Failed, CacheTypeOK
<1> QED  BY <1>4, <1>5 DEF BuildInPlace

(* No graph could be built: the cache stays, and if the buffer is gone     *)
(* there is none it must point into.                                       *)
LEMMA NotBuiltInv ==
    ASSUME CacheInv, NEW s \in Shapes, BuildOutOfMemory(s) \/ BuildRefused(s)
    PROVE  CacheInv'
<1>1. CacheTypeOK /\ StagedFits /\ EvictsLeastRecent
      /\ \A k \in DOMAIN graph_cache : PointsAt(graph_cache[k], staging_tensor, allocator)
  BY DEF CacheInv
<1>2. Observe(s) /\ UNCHANGED <<staging_tensor, graph_cache, capacity, staged, newer>>
  BY DEF BuildOutOfMemory, BuildRefused
<1>3. /\ observed' \in [Shapes -> 0 .. 2]
      /\ \A x \in Shapes : observed[x] = 2 => observed'[x] = 2
  BY <1>1, <1>2, ObserveCounts
<1>4. /\ allocator'.generation \in 0 .. MaxBuffers
      /\ allocator'.size \in {0} \union {Memory[x] : x \in Shapes}
      /\ allocator' = allocator \/ allocator'.size = 0
  BY SMTT(30), <1>1, CacheAssumption DEF BuildOutOfMemory, BuildRefused, CacheTypeOK
<1>5. \A k \in DOMAIN graph_cache : observed'[graph_cache[k].shape] = 2
  <2> SUFFICES ASSUME NEW k \in DOMAIN graph_cache
               PROVE  observed'[graph_cache[k].shape] = 2
    OBVIOUS
  <2>1. graph_cache[k] \in Graph /\ observed[graph_cache[k].shape] = 2
    BY <1>1 DEF CacheTypeOK
  <2> QED  BY <2>1, <1>3 DEF Graph
<1>6. CacheTypeOK'
  BY <1>1, <1>2, <1>3, <1>4, <1>5 DEF CacheTypeOK
<1>7. \A k \in DOMAIN graph_cache' : PointsAt(graph_cache'[k], staging_tensor', allocator')
  BY <1>1, <1>2, <1>4 DEF PointsAt
<1> QED  BY <1>1, <1>2, <1>6, <1>7 DEF CacheInv, EvictsLeastRecent, StagedFits

(* set_graph_cache_capacity drops the last graphs.                         *)
LEMMA SetCapacityInv ==
    ASSUME CacheInv, NEW n \in 1 .. MaxEntries, SetCapacity(n)
    PROVE  CacheInv'
<1>1. CacheTypeOK /\ StagedFits /\ EvictsLeastRecent
      /\ \A k \in DOMAIN graph_cache : PointsAt(graph_cache[k], staging_tensor, allocator)
  BY DEF CacheInv
<1> DEFINE m == IF Len(graph_cache) <= n THEN Len(graph_cache) ELSE n
<1>2. graph_cache \in Seq(Graph) /\ n \in Nat
  BY <1>1, CacheAssumption DEF CacheTypeOK
<1>3. m \in 0 .. Len(graph_cache) /\ m <= n
  BY <1>2
<1>4. graph_cache' = SubSeq(graph_cache, 1, m) /\ capacity' = n
      /\ UNCHANGED <<staging_tensor, allocator, observed, staged, newer>>
  BY DEF SetCapacity
<1> HIDE DEF m
<1>5. /\ graph_cache' \in Seq(Graph) /\ Len(graph_cache') = m /\ DOMAIN graph_cache' = 1 .. m
      /\ \A i \in 1 .. m : graph_cache'[i] = graph_cache[i]
      /\ \A i \in 1 .. m : i \in DOMAIN graph_cache
  BY <1>2, <1>3, <1>4, PrefixOfCache
<1>6. CacheTypeOK'
  <2>1. /\ \A j, k \in DOMAIN graph_cache' :
              graph_cache'[j].shape = graph_cache'[k].shape => j = k
        /\ \A k \in DOMAIN graph_cache' : observed'[graph_cache'[k].shape] = 2
    <3>1. /\ \A j, k \in DOMAIN graph_cache :
                graph_cache[j].shape = graph_cache[k].shape => j = k
          /\ \A k \in DOMAIN graph_cache : observed[graph_cache[k].shape] = 2
      BY <1>1 DEF CacheTypeOK
    <3>2. ASSUME NEW j \in 1 .. m, NEW k \in 1 .. m
          PROVE  /\ graph_cache'[j].shape = graph_cache'[k].shape => j = k
                 /\ observed'[graph_cache'[k].shape] = 2
      <4>1. /\ graph_cache'[j] = graph_cache[j] /\ j \in DOMAIN graph_cache
            /\ graph_cache'[k] = graph_cache[k] /\ k \in DOMAIN graph_cache
            /\ observed' = observed
        BY <1>4, <1>5
      <4> QED  BY <3>1, <4>1, Zenon
    <3> QED  BY <1>5, <3>2
  <2> QED  BY <1>1, <1>3, <1>4, <1>5, <2>1 DEF CacheTypeOK
<1>7. \A k \in DOMAIN graph_cache' : PointsAt(graph_cache'[k], staging_tensor', allocator')
  BY <1>1, <1>4, <1>5 DEF PointsAt
<1>8. EvictsLeastRecent'
  BY <1>1, <1>4, <1>5 DEF EvictsLeastRecent
<1> QED  BY <1>1, <1>4, <1>6, <1>7, <1>8 DEF CacheInv, StagedFits

(* A step that only stages, or fails to, leaves the cache alone.           *)
LEMMA StagedInv ==
    ASSUME CacheInv, StageFails \/ \E s \in Shapes : StageInPlace(s)
    PROVE  CacheInv'
<1>1. UNCHANGED <<staging_tensor, allocator, graph_cache, observed, capacity, newer>>
  BY DEF StageFails, StageInPlace
<1>2. staged' \in Shapes \union {NoShape} /\ StagedFits'
  BY <1>1, CacheAssumption DEF StageFails, StageInPlace, StagedFits, CacheInv, CacheTypeOK
<1>3. CacheTypeOK'
  BY <1>1, <1>2 DEF CacheInv, CacheTypeOK
<1> QED  BY <1>1, <1>2, <1>3 DEF CacheInv, EvictsLeastRecent

-----------------------------------------------------------------------------
(***************************************************************************)
(* The theorems.                                                           *)
(***************************************************************************)

LEMMA CacheInvariant == CacheSpec => []CacheInv
<1>1. CacheInit => CacheInv
  <2> SUFFICES ASSUME CacheInit
               PROVE  CacheInv
    OBVIOUS
  <2>1. graph_cache = <<>> /\ DOMAIN graph_cache = {} /\ graph_cache \in Seq(Graph)
        /\ Len(graph_cache) = 0
    BY DEF CacheInit
  <2>2. CacheTypeOK
    BY <2>1, CacheAssumption DEF CacheInit, CacheTypeOK
  <2> QED  BY <2>1, <2>2 DEF CacheInit, CacheInv, StagedFits, EvictsLeastRecent
<1>2. CacheInv /\ [CacheNext]_cacheVars => CacheInv'
  <2> SUFFICES ASSUME CacheInv, [CacheNext]_cacheVars
               PROVE  CacheInv'
    OBVIOUS
  <2>1. CASE StageFails \/ \E s \in Shapes : StageInPlace(s)
    BY <2>1, StagedInv
  <2>2. CASE \E s \in Shapes : StageGrowing(s)
    BY <2>2, StageGrowingInv
  <2>3. CASE \E s \in Shapes : ExecuteCached(s)
    BY <2>3, ExecuteCachedInv
  <2>4. CASE \E s \in Shapes : BuildInPlace(s)
    BY <2>4, BuildInPlaceInv
  <2>5. CASE \E s \in Shapes : BuildGrowing(s)
    BY <2>5, BuildGrowingInv
  <2>6. CASE \E s \in Shapes : BuildOutOfMemory(s) \/ BuildRefused(s)
    BY <2>6, NotBuiltInv
  <2>7. CASE \E n \in 1 .. MaxEntries : SetCapacity(n)
    BY <2>7, SetCapacityInv
  <2>8. CASE UNCHANGED cacheVars
    BY <2>8 DEF cacheVars, CacheInv, CacheTypeOK, StagedFits, EvictsLeastRecent
  <2> QED  BY <2>1, <2>2, <2>3, <2>4, <2>5, <2>6, <2>7, <2>8 DEF CacheNext
<1> QED  BY <1>1, <1>2, PTL DEF CacheSpec

(* Between two calls the cache holds at most graph_cache_capacity_ graphs, *)
(* one of a shape and none of a shape met once only.                       *)
THEOREM CacheTypeCorrect == CacheSpec => []CacheTypeOK
<1>1. CacheInv => CacheTypeOK
  BY DEF CacheInv
<1> QED  BY <1>1, CacheInvariant, PTL

(* No cached graph reads its prompt rows from a staging tensor that was    *)
(* replaced, and a step that is ready fits the tensor there is, whatever   *)
(* steps failed before.                                                    *)
THEOREM PromptRowsStayCurrent == CacheSpec => []PromptRowsCurrent
<1>1. CacheInv => PromptRowsCurrent
  BY DEF CacheInv, StagedFits, PointsAt, PromptRowsCurrent
<1> QED  BY <1>1, CacheInvariant, PTL

(* Whenever the allocator has a buffer, all cached graphs point into it,   *)
(* also after buffers that could not be had.                               *)
THEOREM BufferStaysCurrent == CacheSpec => []BufferIsCurrent
<1>1. CacheInv => BufferIsCurrent
  BY DEF CacheInv, PointsAt, BufferIsCurrent, GraphMemoryCurrent
<1> QED  BY <1>1, CacheInvariant, PTL

(* The cache lists its graphs from the shape computed last to the one      *)
(* computed longest ago, for every capacity and every history.             *)
THEOREM LeastRecentIsEvicted == CacheSpec => []EvictsLeastRecent
<1>1. CacheInv => EvictsLeastRecent
  BY DEF CacheInv
<1> QED  BY <1>1, CacheInvariant, PTL
=============================================================================
