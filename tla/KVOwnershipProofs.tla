------------------------- MODULE KVOwnershipProofs -------------------------
(***************************************************************************)
(* The ownership protocol of the KV blocks, for every set of requests,     *)
(* number of blocks, block size and prefix length: reference counts are    *)
(* conserved, no ownership error is ever counted, what a request writes is *)
(* its own, and the protocol implements BlockSharing.  It starts with what *)
(* each method of the pool does to a sound pool, and ends with the pool    *)
(* under a client that calls any method with any argument                  *)
(* (PagedKVBlockPool).                                                     *)
(***************************************************************************)
EXTENDS KVOwnership, FiniteSetTheorems, TLAPS

-----------------------------------------------------------------------------
(* The methods of the block pool.                                          *)

(* A pool after reset is well formed and its free list is sound.           *)
LEMMA ResetPoolSound == ResetPool \in Pools /\ FreeListSound(ResetPool)
<1>1. \A i \in 1 .. NumBlocks : i - 1 \in Blocks
  BY NumBlocksAssumption DEF Blocks
<1>2. ResetPool.free \in Seq(Blocks) /\ Len(ResetPool.free) = NumBlocks
  BY <1>1, NumBlocksAssumption DEF ResetPool
<1>3. ResetPool \in Pools
  BY <1>2 DEF ResetPool, Pools
<1>4. QueueHoldsEachBlockOnce(ResetPool)
  BY NumBlocksAssumption DEF QueueHoldsEachBlockOnce, IsInjective, ResetPool
<1>5. ASSUME NEW b \in Blocks
      PROVE  b \in Range(ResetPool.free)
  <2>1. b + 1 \in 1 .. NumBlocks /\ (b + 1) - 1 = b
    BY NumBlocksAssumption DEF Blocks
  <2>2. ResetPool.free[b + 1] = b
    BY <2>1 DEF ResetPool
  <2> QED  BY <2>1, <2>2 DEF Range, ResetPool
<1>6. FreeMeansUnreferenced(ResetPool)
  BY <1>5 DEF FreeMeansUnreferenced, ResetPool
<1> QED  BY <1>3, <1>4, <1>6 DEF FreeListSound

(* The head of the queue of a sound pool can always be handed out: the two *)
(* error exits of allocate_block are unreachable.                          *)
LEMMA HeadIsAllocatable ==
  ASSUME NEW p \in Pools, FreeListSound(p), p.free # <<>>
  PROVE  Allocatable(p, Head(p.free))
<1>1. p.free \in Seq(Blocks) /\ Len(p.free) \in Nat /\ Len(p.free) > 0
  BY DEF Pools
<1>2. Head(p.free) = p.free[1] /\ 1 \in DOMAIN p.free
  BY <1>1
<1>3. Head(p.free) \in Blocks /\ Head(p.free) \in Range(p.free)
  BY <1>1, <1>2 DEF Range
<1> QED  BY <1>3 DEF FreeListSound, FreeMeansUnreferenced, Allocatable

(* Popping an injective queue removes exactly its head.                    *)
LEMMA PopRemovesHead ==
  ASSUME NEW q \in Seq(Blocks), IsInjective(q), q # <<>>
  PROVE  /\ Tail(q) \in Seq(Blocks)
         /\ IsInjective(Tail(q))
         /\ Range(Tail(q)) = Range(q) \ {Head(q)}
<1>1. /\ Len(q) \in Nat /\ Len(q) > 0 /\ Tail(q) \in Seq(Blocks)
      /\ DOMAIN q = 1 .. Len(q) /\ DOMAIN Tail(q) = 1 .. Len(q) - 1
      /\ Head(q) = q[1]
      /\ \A i \in 1 .. Len(q) - 1 : Tail(q)[i] = q[i + 1]
  OBVIOUS
<1>2. IsInjective(Tail(q))
  BY <1>1 DEF IsInjective
<1>3. ASSUME NEW b \in Range(Tail(q))
      PROVE  b \in Range(q) \ {Head(q)}
  <2>1. PICK i \in 1 .. Len(q) - 1 : b = Tail(q)[i]
    BY <1>1 DEF Range
  <2>2. i + 1 \in DOMAIN q /\ 1 \in DOMAIN q /\ i + 1 # 1 /\ b = q[i + 1]
    BY <2>1, <1>1
  <2> QED  BY <2>2, <1>1 DEF Range, IsInjective
<1>4. ASSUME NEW b \in Range(q) \ {Head(q)}
      PROVE  b \in Range(Tail(q))
  <2>1. PICK i \in 1 .. Len(q) : b = q[i]
    BY <1>1 DEF Range
  <2>2. i # 1
    BY <2>1, <1>1
  <2>3. i - 1 \in DOMAIN Tail(q) /\ Tail(q)[i - 1] = b
    BY <2>1, <2>2, <1>1
  <2> QED  BY <2>3 DEF Range
<1> QED  BY <1>1, <1>2, <1>3, <1>4

(* Queueing a block that is not queued keeps the queue injective.          *)
LEMMA PushAddsOne ==
  ASSUME NEW q \in Seq(Blocks), IsInjective(q), NEW b \in Blocks, b \notin Range(q)
  PROVE  /\ Append(q, b) \in Seq(Blocks)
         /\ IsInjective(Append(q, b))
         /\ Range(Append(q, b)) = Range(q) \cup {b}
<1>1. /\ Len(q) \in Nat /\ Append(q, b) \in Seq(Blocks)
      /\ DOMAIN q = 1 .. Len(q) /\ DOMAIN Append(q, b) = 1 .. Len(q) + 1
      /\ Append(q, b)[Len(q) + 1] = b
      /\ \A i \in 1 .. Len(q) : Append(q, b)[i] = q[i]
  OBVIOUS
<1>2. \A i \in 1 .. Len(q) : q[i] # b
  BY <1>1 DEF Range
<1>3. IsInjective(Append(q, b))
  <2> SUFFICES ASSUME NEW i \in 1 .. Len(q) + 1, NEW j \in 1 .. Len(q) + 1,
                      Append(q, b)[i] = Append(q, b)[j]
               PROVE  i = j
    BY <1>1 DEF IsInjective
  <2>1. CASE i \in 1 .. Len(q) /\ j \in 1 .. Len(q)
    BY <2>1, <1>1 DEF IsInjective
  <2>2. CASE i = Len(q) + 1 \/ j = Len(q) + 1
    BY <2>2, <1>1, <1>2
  <2> QED  BY <2>1, <2>2, <1>1
<1>4. ASSUME NEW c \in Range(Append(q, b))
      PROVE  c \in Range(q) \cup {b}
  BY <1>1, <1>4 DEF Range
<1>5. Range(q) \subseteq Range(Append(q, b)) /\ b \in Range(Append(q, b))
  <2>1. 1 .. Len(q) \subseteq 1 .. Len(q) + 1 /\ Len(q) + 1 \in 1 .. Len(q) + 1
    BY <1>1
  <2> QED  BY <2>1, <1>1 DEF Range
<1> QED  BY <1>1, <1>3, <1>4, <1>5

(* allocate_block keeps the pool sound, reports no error, takes exactly    *)
(* the block it returns and gives it one reference; it returns NoBlock     *)
(* only when the queue is empty, and then changes nothing.                 *)
LEMMA AllocateBlockSound ==
  ASSUME NEW p \in Pools, FreeListSound(p)
  PROVE  LET a == AllocateBlock(p)
         IN  /\ a.pool \in Pools
             /\ FreeListSound(a.pool)
             /\ a.pool.errors = p.errors
             /\ p.free = <<>> => a.pool = p /\ a.block = NoBlock
             /\ p.free # <<>> =>
                  /\ Allocatable(p, a.block)
                  /\ a.pool = [p EXCEPT !.free = Tail(@),
                                        !.queued[a.block] = FALSE,
                                        !.refs[a.block] = 1]
<1> DEFINE a == AllocateBlock(p)
           h == Head(p.free)
           r == [p EXCEPT !.free = Tail(@), !.queued[h] = FALSE, !.refs[h] = 1]
<1>1. CASE p.free = <<>>
  <2>1. a.pool = p /\ a.block = NoBlock
    BY <1>1 DEF AllocateBlock
  <2> QED  BY <1>1, <2>1
<1>2. CASE p.free # <<>>
  <2>1. Allocatable(p, h) /\ h \in Blocks
    BY <1>2, HeadIsAllocatable DEF Allocatable
  <2>2. a = [pool |-> r, block |-> h]
    BY <1>2, <2>1 DEF AllocateBlock, Pools
  <2>3. p.free \in Seq(Blocks) /\ IsInjective(p.free)
    BY DEF Pools, FreeListSound, QueueHoldsEachBlockOnce
  <2>4. /\ Tail(p.free) \in Seq(Blocks) /\ IsInjective(Tail(p.free))
        /\ Range(Tail(p.free)) = Range(p.free) \ {h}
    BY <1>2, <2>3, PopRemovesHead
  <2>5. /\ r.free = Tail(p.free) /\ r.errors = p.errors
        /\ r.queued = [p.queued EXCEPT ![h] = FALSE]
        /\ r.refs = [p.refs EXCEPT ![h] = 1]
        /\ r \in Pools
    BY <2>1, <2>4 DEF Pools
  <2>6. FreeMeansUnreferenced(r)
    BY <2>1, <2>4, <2>5 DEF FreeListSound, FreeMeansUnreferenced, Pools
  <2>7. FreeListSound(r)
    BY <2>4, <2>5, <2>6 DEF FreeListSound, QueueHoldsEachBlockOnce
  <2>8. a.pool = r /\ a.block = h
    BY <2>2
  <2> HIDE DEF r, h, a
  <2> QED  BY <1>2, <2>1, <2>5, <2>7, <2>8 DEF r, h, a
<1> QED  BY <1>1, <1>2

(* Counting an error leaves the free list alone.                           *)
LEMMA WithErrorSound ==
  ASSUME NEW p \in Pools, FreeListSound(p)
  PROVE  WithError(p) \in Pools /\ FreeListSound(WithError(p))
<1>1. WithError(p) \in Pools
  <2>1. p.errors + 1 \in Nat
    BY DEF Pools
  <2> QED BY <2>1, SMTT(30) DEF WithError, Pools
<1>2. /\ WithError(p).free = p.free
      /\ WithError(p).queued = p.queued
      /\ WithError(p).refs = p.refs
  BY DEF WithError, Pools
<1> QED  BY <1>1, <1>2 DEF FreeListSound, QueueHoldsEachBlockOnce, FreeMeansUnreferenced

(* retain_block keeps the pool sound; it raises the count of a block that  *)
(* is in use, and of any other argument only counts an error.              *)
LEMMA RetainBlockSound ==
  ASSUME NEW p \in Pools, FreeListSound(p), NEW b
  PROVE  /\ RetainBlock(p, b) \in Pools
         /\ FreeListSound(RetainBlock(p, b))
         /\ ~Counted(p, b) => RetainBlock(p, b) = WithError(p)
         /\ Counted(p, b) => RetainBlock(p, b) = [p EXCEPT !.refs[b] = @ + 1]
<1>1. CASE ~Counted(p, b)
  BY <1>1, WithErrorSound DEF RetainBlock
<1>2. CASE Counted(p, b)
  <2> DEFINE r == [p EXCEPT !.refs[b] = @ + 1]
  <2>1. b \in Blocks /\ p.refs[b] \in Nat /\ ~p.queued[b] /\ p.refs[b] > 0
    BY <1>2 DEF Pools, Counted
  <2>2. r.free = p.free /\ r.queued = p.queued /\ r.refs = [p.refs EXCEPT ![b] = @ + 1]
    BY DEF Pools
  <2>3. r \in Pools
    <3>1. [p.refs EXCEPT ![b] = @ + 1] \in [Blocks -> Nat]
      BY <2>1 DEF Pools
    <3> QED  BY <3>1 DEF Pools
  <2>4. FreeListSound(r)
    BY <2>1, <2>2 DEF FreeListSound, QueueHoldsEachBlockOnce, FreeMeansUnreferenced,
                      Pools
  <2> QED  BY <1>2, <2>3, <2>4 DEF RetainBlock
<1> QED  BY <1>1, <1>2

(* release_block keeps the pool sound; it lowers the count of a block that *)
(* is in use, queues it with the last reference, and of any other argument *)
(* only counts an error.                                                   *)
LEMMA ReleaseBlockSound ==
  ASSUME NEW p \in Pools, FreeListSound(p), NEW b
  PROVE  LET r == ReleaseBlock(p, b)
         IN  /\ r \in Pools
             /\ FreeListSound(r)
             /\ ~Counted(p, b) => r = WithError(p)
             /\ Counted(p, b) => /\ r.errors = p.errors
                                 /\ r.refs = [p.refs EXCEPT ![b] = @ - 1]
<1> DEFINE r == ReleaseBlock(p, b)
<1>1. CASE ~Counted(p, b)
  BY <1>1, WithErrorSound DEF ReleaseBlock
<1>2. CASE Counted(p, b) /\ p.refs[b] # 1
  <2>1. r = [p EXCEPT !.refs[b] = @ - 1]
    BY <1>2 DEF ReleaseBlock
  <2>2. b \in Blocks /\ p.refs[b] \in Nat /\ ~p.queued[b] /\ p.refs[b] > 1
    BY <1>2 DEF Pools, Counted
  <2>3. /\ r.free = p.free /\ r.queued = p.queued /\ r.errors = p.errors
        /\ r.refs = [p.refs EXCEPT ![b] = @ - 1]
    BY <2>1 DEF Pools
  <2>4. r \in Pools
    <3>1. [p.refs EXCEPT ![b] = @ - 1] \in [Blocks -> Nat]
      BY <2>2 DEF Pools
    <3> QED  BY <2>1, <3>1 DEF Pools
  <2>5. FreeListSound(r)
    BY <2>2, <2>3 DEF FreeListSound, QueueHoldsEachBlockOnce, FreeMeansUnreferenced, Pools
  <2> QED  BY <1>2, <2>3, <2>4, <2>5
<1>3. CASE Counted(p, b) /\ p.refs[b] = 1
  <2>1. r = [p EXCEPT !.refs[b] = 0, !.queued[b] = TRUE, !.free = Append(@, b)]
    BY <1>3 DEF ReleaseBlock
  <2>2. b \in Blocks /\ ~p.queued[b] /\ b \notin Range(p.free)
    BY <1>3 DEF Counted, FreeListSound, FreeMeansUnreferenced
  <2>3. p.free \in Seq(Blocks) /\ IsInjective(p.free)
    BY DEF Pools, FreeListSound, QueueHoldsEachBlockOnce
  <2>4. /\ Append(p.free, b) \in Seq(Blocks) /\ IsInjective(Append(p.free, b))
        /\ Range(Append(p.free, b)) = Range(p.free) \cup {b}
    BY <2>2, <2>3, PushAddsOne
  <2>5. /\ r.free = Append(p.free, b) /\ r.errors = p.errors
        /\ r.queued = [p.queued EXCEPT ![b] = TRUE]
        /\ r.refs = [p.refs EXCEPT ![b] = 0]
    BY <2>1 DEF Pools
  <2>8. r \in Pools
    <3>1. /\ [p.refs EXCEPT ![b] = 0] \in [Blocks -> Nat]
          /\ [p.queued EXCEPT ![b] = TRUE] \in [Blocks -> BOOLEAN]
      BY <2>2 DEF Pools
    <3> QED  BY <2>1, <2>4, <3>1 DEF Pools
  <2>6. r.refs = [p.refs EXCEPT ![b] = @ - 1]
    BY <1>3, <2>2, <2>5 DEF Pools
  <2>7. FreeMeansUnreferenced(r)
    BY <2>2, <2>4, <2>5 DEF FreeListSound, FreeMeansUnreferenced, Pools
  <2> QED  BY <1>3, <2>4, <2>5, <2>6, <2>7, <2>8 DEF FreeListSound, QueueHoldsEachBlockOnce
<1> QED  BY <1>1, <1>2, <1>3

(* replace_block_after_cow is a release of the old block or an error.      *)
LEMMA ReplaceAfterCowSound ==
  ASSUME NEW p \in Pools, FreeListSound(p), NEW old, NEW replacement
  PROVE  /\ ReplaceAfterCow(p, old, replacement) \in Pools
         /\ FreeListSound(ReplaceAfterCow(p, old, replacement))
         /\ ReplaceAfterCow(p, old, replacement) \in {ReleaseBlock(p, old), WithError(p)}
BY ReleaseBlockSound, WithErrorSound DEF ReplaceAfterCow

-----------------------------------------------------------------------------
(* Sequences without repetition.                                           *)

(* Dropping the last element of an injective sequence removes it from the  *)
(* range.                                                                  *)
LEMMA DropLast ==
  ASSUME NEW q \in Seq(Blocks), IsInjective(q), q # <<>>
  PROVE  LET s == SubSeq(q, 1, Len(q) - 1)
         IN  /\ s \in Seq(Blocks) /\ Len(s) = Len(q) - 1
             /\ \A i \in 1 .. Len(q) - 1 : s[i] = q[i]
             /\ IsInjective(s)
             /\ Range(s) = Range(q) \ {q[Len(q)]}
<1> DEFINE s == SubSeq(q, 1, Len(q) - 1)
           n == Len(q)
<1>0. n \in Nat /\ n > 0 /\ DOMAIN q = 1 .. n
  OBVIOUS
<1>1. /\ s \in Seq(Blocks) /\ Len(s) = n - 1 /\ DOMAIN s = 1 .. n - 1
      /\ \A i \in 1 .. n - 1 : s[i] = q[i]
  <2>1. 1 \in 1 .. n /\ n - 1 \in 0 .. n
    BY <1>0
  <2>2. s \in Seq(Blocks) /\ Len(s) = n - 1
    BY <1>0, <2>1
  <2>3. \A i \in 1 .. n - 1 : s[i] = q[i]
    BY <1>0, <2>1
  <2> QED  BY <2>2, <2>3
<1> HIDE DEF s, n
<1>2. \A i \in 1 .. n - 1 : i \in 1 .. n /\ i # n
  BY <1>0
<1>3. n \in 1 .. n
  BY <1>0
<1>4. IsInjective(s)
  BY <1>0, <1>1, <1>2 DEF IsInjective
<1>5. ASSUME NEW b \in Range(s)
      PROVE  b \in Range(q) \ {q[n]}
  BY <1>0, <1>1, <1>2, <1>3 DEF Range, IsInjective
<1>6. ASSUME NEW b \in Range(q) \ {q[n]}
      PROVE  b \in Range(s)
  <2>1. PICK i \in 1 .. n : b = q[i]
    BY <1>0 DEF Range
  <2>2. i \in 1 .. n - 1
    BY <2>1, <1>0
  <2> QED  BY <2>1, <2>2, <1>1 DEF Range
<1> QED  BY <1>1, <1>4, <1>5, <1>6 DEF s, n

(* Replacing the last element of an injective sequence by a new one.       *)
LEMMA ReplaceLast ==
  ASSUME NEW q \in Seq(Blocks), IsInjective(q), q # <<>>,
         NEW b \in Blocks, b \notin Range(q)
  PROVE  LET s == [q EXCEPT ![Len(q)] = b]
         IN  /\ s \in Seq(Blocks) /\ Len(s) = Len(q)
             /\ \A i \in 1 .. Len(q) - 1 : s[i] = q[i]
             /\ s[Len(q)] = b
             /\ IsInjective(s)
             /\ Range(s) = (Range(q) \ {q[Len(q)]}) \cup {b}
<1> DEFINE s == [q EXCEPT ![Len(q)] = b]
<1>1. /\ Len(q) \in Nat /\ Len(q) > 0 /\ DOMAIN q = 1 .. Len(q) /\ DOMAIN s = 1 .. Len(q)
      /\ \A i \in 1 .. Len(q) : s[i] = IF i = Len(q) THEN b ELSE q[i]
      /\ Len(q) \in 1 .. Len(q)
  OBVIOUS
<1>2. s \in Seq(Blocks) /\ Len(s) = Len(q)
  OBVIOUS
<1> HIDE DEF s
<1>3. \A i \in 1 .. Len(q) : q[i] # b
  BY <1>1 DEF Range
<1>4. IsInjective(s)
  BY <1>1, <1>3 DEF IsInjective
<1>5. ASSUME NEW c \in Range(s)
      PROVE  c \in (Range(q) \ {q[Len(q)]}) \cup {b}
  BY <1>1 DEF Range, IsInjective
<1>6. ASSUME NEW c \in Range(q) \ {q[Len(q)]}
      PROVE  c \in Range(s)
  <2>1. PICK i \in 1 .. Len(q) : c = q[i]
    BY <1>1 DEF Range
  <2> QED  BY <2>1, <1>1 DEF Range
<1>7. b \in Range(s)
  BY <1>1 DEF Range
<1>8. ASSUME NEW i \in 1 .. Len(q) - 1
      PROVE  s[i] = q[i]
  <2>1. Len(q) \in Nat
    OBVIOUS
  <2>2. i \in 1 .. Len(q) /\ i # Len(q)
    BY <2>1
  <2> QED  BY <2>2, <1>1
<1> QED  BY <1>1, <1>2, <1>4, <1>5, <1>6, <1>7, <1>8 DEF s

-----------------------------------------------------------------------------
(* Counting owners.                                                        *)

(* The owners of a block are finitely many.                                *)
LEMMA OwnersFinite == \A b : IsFiniteSet(Owners(b)) /\ Cardinality(Owners(b)) \in Nat
<1>1. IsFiniteSet(Handles)
  BY RequestsAssumption, FS_AddElement DEF Handles
<1>2. \A b : Owners(b) \in SUBSET Handles
  BY DEF Owners
<1> QED  BY <1>1, <1>2, FS_Subset, FS_CardinalityType

(* A block that somebody holds is in use.                                  *)
LEMMA HeldIsCounted ==
  ASSUME pool \in Pools, FreeListSound(pool), RefsCountOwners,
         NEW h \in Handles, NEW b \in Blocks, b \in Holds(h)
  PROVE  Counted(pool, b)
<1>1. h \in Owners(b)
  BY DEF Owners
<1>2. Cardinality(Owners(b)) # 0
  BY <1>1, OwnersFinite, FS_EmptySet
<1>3. pool.refs[b] \in Nat /\ pool.refs[b] # 0
  BY <1>2 DEF Pools, RefsCountOwners
<1> QED  BY <1>3 DEF Counted, FreeListSound, FreeMeansUnreferenced

(* A block without references is held by nobody.                           *)
LEMMA UnreferencedIsUnheld ==
  ASSUME RefsCountOwners, NEW b \in Blocks, pool.refs[b] = 0, NEW h \in Handles
  PROVE  b \notin Holds(h)
<1>1. Owners(b) = {}
  BY OwnersFinite, FS_EmptySet DEF RefsCountOwners
<1> QED  BY <1>1 DEF Owners

(* A block whose only owner is h has one reference.                        *)
LEMMA SoleOwner ==
  ASSUME RefsCountOwners, NEW b \in Blocks, NEW h \in Handles, b \in Holds(h),
         \A g \in Handles \ {h} : b \notin Holds(g)
  PROVE  Owners(b) = {h} /\ pool.refs[b] = 1
<1>1. Owners(b) = {h}
  BY DEF Owners
<1> QED  BY <1>1, FS_Singleton DEF RefsCountOwners

(* When one handle takes one block, and its count is raised by one, counts *)
(* and owners still agree.                                                 *)
LEMMA GainKeepsCounts ==
  ASSUME RefsCountOwners, pool \in Pools,
         NEW h \in Handles, NEW b \in Blocks,
         b \notin Holds(h),
         Holds(h)' = Holds(h) \cup {b},
         \A g \in Handles \ {h} : Holds(g)' = Holds(g),
         pool'.refs = [pool.refs EXCEPT ![b] = @ + 1]
  PROVE  RefsCountOwners'
<1>1. ASSUME NEW c \in Blocks, c # b
      PROVE  pool'.refs[c] = Cardinality(Owners(c)')
  <2>1. Owners(c)' = Owners(c)
    BY <1>1 DEF Owners
  <2>2. pool'.refs[c] = pool.refs[c]
    BY <1>1 DEF Pools
  <2> QED  BY <2>1, <2>2 DEF RefsCountOwners
<1>2. pool'.refs[b] = Cardinality(Owners(b)')
  <2>1. Owners(b)' = Owners(b) \cup {h} /\ h \notin Owners(b)
    BY DEF Owners
  <2>2. pool'.refs[b] = pool.refs[b] + 1
    BY DEF Pools
  <2>3. Cardinality(Owners(b) \cup {h}) = Cardinality(Owners(b)) + 1
    BY <2>1, OwnersFinite, FS_AddElement
  <2> QED  BY <2>1, <2>2, <2>3 DEF RefsCountOwners
<1> QED  BY <1>1, <1>2 DEF RefsCountOwners

(* When one handle gives up one block, and its count is lowered by one,    *)
(* counts and owners still agree.                                          *)
LEMMA LossKeepsCounts ==
  ASSUME RefsCountOwners, pool \in Pools,
         NEW h \in Handles, NEW b \in Blocks,
         b \in Holds(h),
         Holds(h)' = Holds(h) \ {b},
         \A g \in Handles \ {h} : Holds(g)' = Holds(g),
         pool'.refs = [pool.refs EXCEPT ![b] = @ - 1]
  PROVE  RefsCountOwners'
<1>1. ASSUME NEW c \in Blocks, c # b
      PROVE  pool'.refs[c] = Cardinality(Owners(c)')
  <2>1. Owners(c)' = Owners(c)
    BY <1>1 DEF Owners
  <2>2. pool'.refs[c] = pool.refs[c]
    BY <1>1 DEF Pools
  <2> QED  BY <2>1, <2>2 DEF RefsCountOwners
<1>2. pool'.refs[b] = Cardinality(Owners(b)')
  <2>1. Owners(b)' = Owners(b) \ {h} /\ h \in Owners(b)
    BY DEF Owners
  <2>2. pool'.refs[b] = pool.refs[b] - 1
    BY DEF Pools
  <2>3. Cardinality(Owners(b) \ {h}) = Cardinality(Owners(b)) - 1
    BY <2>1, OwnersFinite, FS_RemoveElement
  <2> QED  BY <2>1, <2>2, <2>3 DEF RefsCountOwners
<1> QED  BY <1>1, <1>2 DEF RefsCountOwners

(* When nobody's holdings and no count change, nothing changes.            *)
LEMMA QuietKeepsCounts ==
  ASSUME RefsCountOwners, UNCHANGED <<pool, table, spare>>
  PROVE  RefsCountOwners' /\ \A h \in Handles : Holds(h)' = Holds(h)
<1>1. \A h \in Handles : Holds(h)' = Holds(h)
  BY DEF Holds
<1>2. \A b \in Blocks : Owners(b)' = Owners(b)
  BY <1>1 DEF Owners
<1> QED  BY <1>1, <1>2 DEF RefsCountOwners

-----------------------------------------------------------------------------
(* Arithmetic of blocks and rows.                                          *)

(* The prefix table has one block more than there are full prefix blocks   *)
(* exactly when the prefix ends inside a block.                            *)
LEMMA PrefixBlocks ==
  /\ FullPrefixBlocks \in Nat /\ BlocksFor(PrefixTokens) \in Nat
  /\ PartialRows \in Nat
  /\ BlocksFor(PrefixTokens) = IF PartialRows > 0 THEN FullPrefixBlocks + 1
                               ELSE FullPrefixBlocks
BY TokensAssumption, Z3 DEF FullPrefixBlocks, BlocksFor, PartialRows

(* A position past the prefix that a table backs lies in one of the table's *)
(* blocks, behind the full prefix blocks.                                  *)
LEMMA BackedPosition ==
  ASSUME NEW p \in Nat, NEW n \in Nat, p >= PrefixTokens, p < n * BlockSize
  PROVE  p \div BlockSize + 1 \in 1 .. n /\ p \div BlockSize + 1 > FullPrefixBlocks
<1>1. p \div BlockSize \in Nat /\ p \div BlockSize < n
  BY TokensAssumption, Z3
<1>2. PrefixTokens \div BlockSize <= p \div BlockSize
  BY TokensAssumption, Z3
<1>3. FullPrefixBlocks \in Nat
  BY PrefixBlocks
<1> QED  BY <1>1, <1>2, <1>3 DEF FullPrefixBlocks

-----------------------------------------------------------------------------
(* What a change of one handle's table does to the holdings.               *)

\* The part of the invariant that speaks of blocks, not of stages.
Ownership ==
  /\ pool \in Pools /\ FreeListSound(pool) /\ NoOwnershipErrors
  /\ table \in [Handles -> Seq(Blocks)]
  /\ spare \in [Handles -> Blocks \cup {NoBlock}]
  /\ RefsCountOwners /\ HoldsOnce /\ MeetInPrefix

\* How one step changes who holds what: not at all; one handle gives up a
\* block, the prefix only one it no longer shares; or one handle takes a
\* block that nobody holds or that the prefix shares.
Moves ==
  \/ \A h \in Handles : Holds(h)' = Holds(h)
  \/ \E h \in Handles, b \in Blocks :
       /\ Holds(h)' = Holds(h) \ {b}
       /\ \A g \in Handles \ {h} : Holds(g)' = Holds(g)
       /\ h # Prefix \/ \A g \in Handles \ {h} : b \notin Holds(g)
  \/ \E h \in Handles, b \in Blocks :
       /\ Holds(h)' = Holds(h) \cup {b}
       /\ \A g \in Handles \ {h} : Holds(g)' = Holds(g)
       /\ (\A g \in Handles : b \notin Holds(g)) \/ b \in Holds(Prefix)

(* The block allocate_block returns is one that nobody holds.              *)
LEMMA FreshBlock ==
  ASSUME Ownership, AllocateBlock(pool).block # NoBlock
  PROVE  LET a == AllocateBlock(pool)
         IN  /\ a.block \in Blocks
             /\ \A h \in Handles : a.block \notin Holds(h)
             /\ a.pool \in Pools /\ FreeListSound(a.pool)
             /\ a.pool.errors = 0
             /\ a.pool.refs = [pool.refs EXCEPT ![a.block] = @ + 1]
<1> DEFINE a == AllocateBlock(pool)
<1>1. pool \in Pools /\ FreeListSound(pool) /\ pool.errors = 0 /\ RefsCountOwners
  BY DEF Ownership, NoOwnershipErrors
<1>2. pool.free # <<>>
  BY <1>1, AllocateBlockSound
<1>3. /\ Allocatable(pool, a.block)
      /\ a.pool = [pool EXCEPT !.free = Tail(@), !.queued[a.block] = FALSE,
                               !.refs[a.block] = 1]
  BY <1>1, <1>2, AllocateBlockSound
<1>4. a.pool \in Pools /\ FreeListSound(a.pool) /\ a.pool.errors = 0
  BY <1>1, AllocateBlockSound
<1>5. a.block \in Blocks /\ pool.refs[a.block] = 0
  BY <1>3 DEF Allocatable
<1>6. \A h \in Handles : a.block \notin Holds(h)
  BY <1>1, <1>5, UnreferencedIsUnheld
<1>7. a.pool.refs = [pool.refs EXCEPT ![a.block] = 1]
  BY <1>1, <1>3 DEF Pools
<1>8. a.pool.refs = [pool.refs EXCEPT ![a.block] = @ + 1]
  BY <1>5, <1>7
<1> QED  BY <1>4, <1>5, <1>6, <1>8

(* When allocate_block returns nothing, it has not changed the pool.       *)
LEMMA NothingAllocated ==
  ASSUME Ownership, AllocateBlock(pool).block = NoBlock
  PROVE  AllocateBlock(pool).pool = pool
<1>1. pool \in Pools /\ FreeListSound(pool)
  BY DEF Ownership
<1>2. pool.free = <<>>
  <2>1. \A b \in Blocks : b # NoBlock
    BY NumBlocksAssumption DEF Blocks, NoBlock
  <2> QED  BY <1>1, <2>1, AllocateBlockSound DEF Allocatable
<1> QED  BY <1>1, <1>2, AllocateBlockSound

(* A handle appends a fresh block to its table.                            *)
LEMMA AppendFresh ==
  ASSUME Ownership, NEW h \in Handles,
         AllocateBlock(pool).block # NoBlock,
         pool' = AllocateBlock(pool).pool,
         table' = [table EXCEPT ![h] = Append(@, AllocateBlock(pool).block)],
         UNCHANGED <<spare, stage>>
  PROVE  /\ Ownership' /\ Moves
         /\ \A g \in Handles : AllocateBlock(pool).block \notin Holds(g)
<1> DEFINE b == AllocateBlock(pool).block
<1>1. /\ b \in Blocks /\ \A g \in Handles : b \notin Holds(g)
      /\ pool' \in Pools /\ FreeListSound(pool') /\ pool'.errors = 0
      /\ pool'.refs = [pool.refs EXCEPT ![b] = @ + 1]
  BY FreshBlock
<1> HIDE DEF b
<1>2. \A g \in Handles : b \notin Range(table[g]) /\ b # spare[g]
  BY <1>1, NumBlocksAssumption DEF Holds, Blocks, NoBlock
<1>3. /\ table[h] \in Seq(Blocks) /\ IsInjective(table[h])
      /\ table'[h] = Append(table[h], b)
      /\ \A g \in Handles \ {h} : table'[g] = table[g]
  BY DEF Ownership, HoldsOnce, b
<1>4. /\ table'[h] \in Seq(Blocks) /\ IsInjective(table'[h])
      /\ Range(table'[h]) = Range(table[h]) \cup {b}
  BY <1>1, <1>2, <1>3, PushAddsOne
<1>5. table' \in [Handles -> Seq(Blocks)]
  BY <1>1, <1>3, <1>4 DEF Ownership, b
<1>6. /\ Holds(h)' = Holds(h) \cup {b}
      /\ \A g \in Handles \ {h} : Holds(g)' = Holds(g)
  BY <1>3, <1>4 DEF Holds
<1>7. RefsCountOwners'
  BY <1>1, <1>6, GainKeepsCounts DEF Ownership
<1>8. HoldsOnce'
  <2> SUFFICES ASSUME NEW g \in Handles
               PROVE  /\ IsInjective(table'[g])
                      /\ spare[g] # NoBlock =>
                           /\ stage[g] = "splitting" /\ g # Prefix
                           /\ spare[g] \notin Range(table'[g])
                           /\ \A k \in Handles \ {g} : spare[g] \notin Holds(k)'
    BY DEF HoldsOnce
  <2>1. IsInjective(table'[g])
    BY <1>3, <1>4 DEF Ownership, HoldsOnce
  <2>2. ASSUME spare[g] # NoBlock
        PROVE  /\ stage[g] = "splitting" /\ g # Prefix
               /\ spare[g] \notin Range(table[g])
               /\ \A k \in Handles \ {g} : spare[g] \notin Holds(k)
               /\ spare[g] # b
    BY <2>2, <1>2 DEF Ownership, HoldsOnce
  <2>3. spare[g] # NoBlock => spare[g] \notin Range(table'[g])
    BY <2>2, <1>3, <1>4
  <2>4. spare[g] # NoBlock => \A k \in Handles \ {g} : spare[g] \notin Holds(k)'
    BY <2>2, <1>6
  <2> QED  BY <2>1, <2>2, <2>3, <2>4
<1>9. MeetInPrefix'
  BY <1>2, <1>3, <1>4, RequestsAssumption DEF Ownership, MeetInPrefix, Handles
<1>10. Moves
  BY <1>1, <1>6 DEF Moves
<1> QED  BY <1>1, <1>5, <1>7, <1>8, <1>9, <1>10 DEF Ownership, NoOwnershipErrors, b

(* A handle gives one block of its table back.                             *)
LEMMA GiveBack ==
  ASSUME Ownership, NEW h \in Handles, NEW b \in Range(table[h]),
         h # Prefix \/ \A r \in Requests : table[r] = <<>>,
         pool' = ReleaseBlock(pool, b),
         NEW s \in Seq(Blocks), IsInjective(s), Range(s) = Range(table[h]) \ {b},
         table' = [table EXCEPT ![h] = s],
         UNCHANGED <<spare, stage>>
  PROVE  Ownership' /\ Moves
<1>1. /\ b \in Blocks /\ b \in Holds(h)
  BY DEF Ownership, Range, Holds
<1>2. /\ pool' \in Pools /\ FreeListSound(pool') /\ pool'.errors = 0
      /\ pool'.refs = [pool.refs EXCEPT ![b] = @ - 1]
  BY <1>1, HeldIsCounted, ReleaseBlockSound DEF Ownership, NoOwnershipErrors
<1>3. /\ table' \in [Handles -> Seq(Blocks)] /\ table'[h] = s
      /\ \A g \in Handles \ {h} : table'[g] = table[g]
  BY DEF Ownership
<1>4. spare[h] # b
  BY NumBlocksAssumption, <1>1 DEF Ownership, HoldsOnce, Blocks, NoBlock
<1>5. /\ Holds(h)' = Holds(h) \ {b}
      /\ \A g \in Handles \ {h} : Holds(g)' = Holds(g)
  BY <1>3, <1>4 DEF Holds
<1>6. RefsCountOwners'
  BY <1>1, <1>2, <1>5, LossKeepsCounts DEF Ownership
<1>7. HoldsOnce'
  <2> SUFFICES ASSUME NEW g \in Handles
               PROVE  /\ IsInjective(table'[g])
                      /\ spare[g] # NoBlock =>
                           /\ stage[g] = "splitting" /\ g # Prefix
                           /\ spare[g] \notin Range(table'[g])
                           /\ \A k \in Handles \ {g} : spare[g] \notin Holds(k)'
    BY DEF HoldsOnce
  <2>1. IsInjective(table'[g])
    BY <1>3 DEF Ownership, HoldsOnce
  <2>2. ASSUME spare[g] # NoBlock
        PROVE  /\ stage[g] = "splitting" /\ g # Prefix
               /\ spare[g] \notin Range(table[g])
               /\ \A k \in Handles \ {g} : spare[g] \notin Holds(k)
    BY <2>2 DEF Ownership, HoldsOnce
  <2>3. spare[g] # NoBlock => spare[g] \notin Range(table'[g])
    BY <2>2, <1>3
  <2>4. spare[g] # NoBlock => \A k \in Handles \ {g} : spare[g] \notin Holds(k)'
    BY <2>2, <1>5
  <2> QED  BY <2>1, <2>2, <2>3, <2>4
<1>8. MeetInPrefix'
  <2>1. \A g \in Handles : Range(table'[g]) \subseteq Range(table[g])
    BY <1>3
  <2>2. CASE h # Prefix
    BY <1>3, <2>1, <2>2 DEF Ownership, MeetInPrefix, Handles
  <2>3. CASE h = Prefix /\ \A r \in Requests : table[r] = <<>>
    BY <2>1, <2>3 DEF MeetInPrefix, Handles, Range
  <2> QED  BY <2>2, <2>3
<1>9. Moves
  <2>1. h # Prefix \/ \A g \in Handles \ {h} : b \notin Holds(g)
    <3> SUFFICES ASSUME h = Prefix, NEW g \in Handles \ {h}
                 PROVE  b \notin Holds(g)
      OBVIOUS
    <3>1. table[g] = <<>>
      BY DEF Handles
    <3>2. spare[g] # NoBlock => spare[g] # b
      BY <1>1 DEF Ownership, HoldsOnce
    <3>3. b # NoBlock
      BY <1>1, NumBlocksAssumption DEF Blocks, NoBlock
    <3> QED  BY <3>1, <3>2, <3>3 DEF Holds, Range
  <2> QED  BY <1>1, <1>5, <2>1 DEF Moves
<1> QED  BY <1>2, <1>3, <1>6, <1>7, <1>8, <1>9 DEF Ownership, NoOwnershipErrors

(* A step that only moves a handle without a replacement to another stage. *)
LEMMA QuietOwnership ==
  ASSUME Ownership, UNCHANGED <<pool, table, spare>>,
         NEW h \in Handles, spare[h] = NoBlock, NEW s, stage' = [stage EXCEPT ![h] = s]
  PROVE  Ownership' /\ Moves
<1>1. RefsCountOwners' /\ \A g \in Handles : Holds(g)' = Holds(g)
  BY QuietKeepsCounts DEF Ownership
<1>2. HoldsOnce'
  <2> SUFFICES ASSUME NEW g \in Handles, spare[g] # NoBlock
               PROVE  stage'[g] = "splitting" /\ \A k \in Handles \ {g} : spare[g] \notin Holds(k)'
    BY DEF Ownership, HoldsOnce
  <2>1. g # h /\ stage[g] = "splitting"
    BY DEF Ownership, HoldsOnce
  <2>2. stage'[g] = stage[g] \/ stage' = stage
    BY <2>1
  <2>3. \A k \in Handles \ {g} : spare[g] \notin Holds(k)'
    BY <1>1 DEF Ownership, HoldsOnce
  <2> QED  BY <2>1, <2>2, <2>3
<1>3. MeetInPrefix'
  BY DEF Ownership, MeetInPrefix
<1> QED  BY <1>1, <1>2, <1>3 DEF Ownership, NoOwnershipErrors, Moves

-----------------------------------------------------------------------------
(* Every action keeps the inductive invariant.                             *)

\* The part of the invariant that speaks of stages.
Staging ==
  /\ stage \in [Handles -> Stages]
  /\ written \in [Requests -> Nat]
  /\ PrefixStage
  /\ RequestStage

(* The invariant has two halves.                                           *)
LEMMA Halves == IndInv <=> Ownership /\ Staging
BY DEF IndInv, Ownership, Staging, TypeOK

(* The two halves of the invariant after a step.                           *)
LEMMA HalvesNext == Ownership' /\ Staging' => IndInv'
BY DEF IndInv, Ownership, Staging, TypeOK

(* A handle that is not copying has no replacement.                        *)
LEMMA NoSpare ==
  ASSUME Ownership, NEW h \in Handles, stage[h] # "splitting" \/ h = Prefix
  PROVE  spare[h] = NoBlock
BY DEF Ownership, HoldsOnce

(* The stages of the prefix itself.                                        *)
LEMMA PrefixStepsKeep == ASSUME IndInv, PrefixStep PROVE IndInv' /\ Moves
<1> USE RequestsAssumption DEF Handles
<1>1. Ownership /\ Staging /\ spare[Prefix] = NoBlock
  BY Halves, NoSpare
<1>2. CASE BeginPrefix
  <2>1. Ownership' /\ Moves
    BY <1>1, <1>2, QuietOwnership DEF BeginPrefix, Enter
  <2>2. Staging'
    BY <1>1, <1>2, PrefixBlocks DEF Staging, PrefixStage, RequestStage, BeginPrefix, Enter, Stages
  <2> QED  BY <2>1, <2>2, HalvesNext
<1>3. CASE AcquireBlock
  <2>0. \A r \in Requests : stage[r] = "absent" /\ table[r] = <<>>
    BY <1>1, <1>3 DEF Staging, PrefixStage, RequestStage, AcquireBlock
  <2>1. CASE AllocateBlock(pool).block = NoBlock
    <3>1. pool' = pool
      BY <1>1, <1>3, <2>1, NothingAllocated DEF AcquireBlock
    <3>2. UNCHANGED <<table, spare, written>> /\ Enter(Prefix, "releasing")
      BY <1>3, <2>1 DEF AcquireBlock
    <3>3. Ownership' /\ Moves
      BY <1>1, <3>1, <3>2, QuietOwnership DEF Enter
    <3>4. Staging'
      BY <1>1, <2>0, <3>2 DEF Staging, PrefixStage, RequestStage, Enter, Stages
    <3> QED  BY <3>3, <3>4, HalvesNext
  <2>2. CASE AllocateBlock(pool).block # NoBlock
    <3>1. /\ pool' = AllocateBlock(pool).pool
          /\ table' = [table EXCEPT ![Prefix] = Append(@, AllocateBlock(pool).block)]
          /\ UNCHANGED <<spare, stage, written>>
          /\ Len(table[Prefix]) < BlocksFor(PrefixTokens) /\ stage[Prefix] = "taking"
      BY <1>3, <2>2 DEF AcquireBlock
    <3>2. Ownership' /\ Moves
      BY <1>1, <2>2, <3>1, AppendFresh
    <3>3. Len(table'[Prefix]) = Len(table[Prefix]) + 1 /\ Len(table[Prefix]) \in Nat
      BY <1>1, <3>1 DEF Ownership
    <3>4. \A r \in Requests : table'[r] = <<>>
      BY <2>0, <3>1
    <3>5. PrefixStage'
      BY <1>1, <2>0, <3>1, <3>3, PrefixBlocks DEF Staging, PrefixStage, BlocksFor
    <3>6. RequestStage'
      BY <1>1, <2>0, <3>1, <3>4 DEF Staging, RequestStage
    <3> QED  BY <1>1, <3>1, <3>2, <3>5, <3>6, HalvesNext DEF Staging
  <2> QED  BY <2>1, <2>2
<1>4. CASE PrefillPrefix
  <2>0. \A r \in Requests : stage[r] = "absent"
    BY <1>1, <1>4 DEF Staging, PrefixStage, PrefillPrefix
  <2>1. PICK s \in {"ready", "releasing"} : stage' = [stage EXCEPT ![Prefix] = s]
    BY <1>4 DEF PrefillPrefix, Enter
  <2>2. Ownership' /\ Moves
    BY <1>1, <1>4, <2>1, QuietOwnership DEF PrefillPrefix
  <2>3. Staging'
    BY <1>1, <1>4, <2>0, <2>1 DEF Staging, PrefixStage, RequestStage, PrefillPrefix, Stages, BlocksFor
  <2> QED  BY <2>2, <2>3, HalvesNext
<1>5. CASE DropPrefix
  <2>1. Ownership' /\ Moves
    BY <1>1, <1>5, QuietOwnership DEF DropPrefix, Enter
  <2>2. Staging'
    BY <1>1, <1>5 DEF Staging, PrefixStage, RequestStage, DropPrefix, Enter, Stages
  <2> QED  BY <2>1, <2>2, HalvesNext
<1> QED  BY <1>2, <1>3, <1>4, <1>5 DEF PrefixStep

(* A step of a request that changes nothing but its stage and its written  *)
(* positions.                                                              *)
LEMMA RequestStageStepsKeep ==
  ASSUME IndInv, NEW r \in Requests, Admit(r) \/ Retained(r) \/ Finish(r)
  PROVE  IndInv' /\ Moves
<1> USE RequestsAssumption DEF Handles
<1>1. Ownership /\ Staging
  BY Halves
<1>2. CASE Admit(r)
  <2>1. Ownership' /\ Moves
    BY <1>1, <1>2, NoSpare, QuietOwnership DEF Admit, Enter
  <2>2. stage[r] = "absent" /\ table[r] = <<>> /\ Len(table[Prefix]) \in Nat
    BY <1>1, <1>2 DEF Admit, Staging, RequestStage, Ownership
  <2>3. Staging'
    BY <1>1, <1>2, <2>2, TokensAssumption
    DEF Staging, PrefixStage, RequestStage, Admit, Enter, Stages
  <2> QED  BY <2>1, <2>3, HalvesNext
<1>3. CASE Retained(r)
  <2> DEFINE next == IF PartialRows > 0 THEN "splitting" ELSE "ready"
  <2>1. Ownership' /\ Moves
    BY <1>1, <1>3, NoSpare, QuietOwnership DEF Retained, Enter
  <2>2. /\ stage[r] = "taking" /\ written[r] >= PrefixTokens
        /\ Len(table[r]) = Len(table[Prefix])
        /\ \A i \in 1 .. Len(table[r]) : table[r][i] = table[Prefix][i]
        /\ stage[Prefix] = "ready" \/ (PrefixTokens = 0 /\ stage[Prefix] = "absent")
    BY <1>1, <1>3 DEF Retained, Staging, RequestStage, PrefixStage
  <2>3. stage' = [stage EXCEPT ![r] = next] /\ UNCHANGED <<pool, table, spare, written>>
    BY <1>3 DEF Retained, Enter
  <2>4. PartialRows = 0 => \A i \in 1 .. Len(table[r]) : ~(i > FullPrefixBlocks)
    <3>1. CASE stage[Prefix] = "ready"
      BY <1>1, <2>2, <3>1, PrefixBlocks DEF Staging, PrefixStage
    <3>2. CASE PrefixTokens = 0 /\ stage[Prefix] = "absent"
      BY <1>1, <2>2, <3>2 DEF Staging, PrefixStage
    <3> QED  BY <2>2, <3>1, <3>2
  <2>5. PartialRows \in Nat /\ Len(table[Prefix]) \in Nat
    BY <1>1, PrefixBlocks DEF Ownership
  <2>6. stage' \in [Handles -> Stages] /\ PrefixStage'
    BY <1>1, <2>2, <2>3 DEF Staging, PrefixStage, Stages
  <2>7. RequestStage'
    BY <1>1, <2>2, <2>3, <2>4, <2>5 DEF Staging, RequestStage
  <2> QED  BY <1>1, <2>1, <2>3, <2>6, <2>7, HalvesNext DEF Staging
<1>4. CASE Finish(r)
  <2>1. Ownership' /\ Moves
    BY <1>1, <1>4, NoSpare, QuietOwnership DEF Finish, Enter
  <2>2. Staging'
    BY <1>1, <1>4 DEF Staging, PrefixStage, RequestStage, Finish, Enter, Stages
  <2> QED  BY <2>1, <2>2, HalvesNext
<1> QED  BY <1>2, <1>3, <1>4

(* Retaining the next prefix block for a request.                          *)
LEMMA RetainNextKeeps ==
  ASSUME IndInv, NEW r \in Requests, RetainNext(r)
  PROVE  IndInv' /\ Moves
<1> USE RequestsAssumption DEF Handles
<1> DEFINE n == Len(table[r]) + 1
           b == table[Prefix][n]
<1>1. Ownership /\ Staging
  BY Halves
<1>2. /\ table[r] \in Seq(Blocks) /\ table[Prefix] \in Seq(Blocks)
      /\ IsInjective(table[r]) /\ IsInjective(table[Prefix])
      /\ stage[r] = "taking" /\ Len(table[r]) < Len(table[Prefix])
      /\ \A i \in 1 .. Len(table[r]) : table[r][i] = table[Prefix][i]
  BY <1>1 DEF Ownership, HoldsOnce, Staging, RequestStage, RetainNext
<1>3. n \in 1 .. Len(table[Prefix]) /\ Len(table[r]) \in Nat
  BY <1>2
<1>4. b \in Blocks /\ b \in Range(table[Prefix]) /\ b \in Holds(Prefix)
  BY <1>2, <1>3 DEF Range, Holds
<1>5. b \notin Range(table[r])
  <2> SUFFICES ASSUME NEW i \in 1 .. Len(table[r]), table[r][i] = b
               PROVE  FALSE
    BY SMTT(30), <1>2 DEF Range
  <2>1. i \in 1 .. Len(table[Prefix]) /\ i # n /\ table[Prefix][i] = b
    BY <1>2, <1>3
  <2> QED  BY <2>1, <1>2, <1>3 DEF IsInjective
<1>6. Counted(pool, b)
  BY <1>1, <1>4, HeldIsCounted DEF Ownership
<1> HIDE DEF b, n
<1>7. /\ pool' = [pool EXCEPT !.refs[b] = @ + 1]
      /\ table' = [table EXCEPT ![r] = Append(@, b)]
      /\ UNCHANGED <<spare, stage, written>>
  BY <1>1, <1>6, RetainBlockSound DEF RetainNext, Ownership, b, n
<1>8. /\ pool' \in Pools /\ FreeListSound(pool') /\ pool'.errors = 0
      /\ pool'.refs = [pool.refs EXCEPT ![b] = @ + 1]
  <2>1. pool' = RetainBlock(pool, b)
    BY <1>1, <1>6, <1>7, RetainBlockSound DEF Ownership
  <2>2. pool' \in Pools /\ FreeListSound(pool')
    BY <1>1, <2>1, RetainBlockSound DEF Ownership
  <2>3. pool'.errors = 0 /\ pool'.refs = [pool.refs EXCEPT ![b] = @ + 1]
    BY <1>1, <1>7 DEF Ownership, NoOwnershipErrors, Pools
  <2> QED  BY <2>2, <2>3
<1>9. /\ table' \in [Handles -> Seq(Blocks)] /\ table'[r] = Append(table[r], b)
      /\ \A g \in Handles \ {r} : table'[g] = table[g]
      /\ IsInjective(table'[r]) /\ Range(table'[r]) = Range(table[r]) \cup {b}
  BY <1>1, <1>2, <1>4, <1>5, <1>7, PushAddsOne DEF Ownership
<1>10. spare[r] = NoBlock /\ \A g \in Handles : spare[g] # NoBlock => spare[g] # b
  <2>1. spare[r] = NoBlock
    BY <1>1, <1>2, NoSpare
  <2>2. ASSUME NEW g \in Handles, spare[g] # NoBlock
        PROVE  spare[g] # b
    <3>1. g # Prefix /\ spare[g] \notin Holds(Prefix)
      BY <1>1, <2>2 DEF Ownership, HoldsOnce
    <3> QED  BY <3>1, <1>4
  <2> QED  BY <2>1, <2>2
<1>11. /\ Holds(r)' = Holds(r) \cup {b} /\ b \notin Holds(r)
       /\ \A g \in Handles \ {r} : Holds(g)' = Holds(g)
  BY <1>5, <1>7, <1>9, <1>10 DEF Holds
<1>12. RefsCountOwners'
  BY <1>1, <1>4, <1>8, <1>11, GainKeepsCounts DEF Ownership
<1>13. HoldsOnce'
  <2> SUFFICES ASSUME NEW g \in Handles
               PROVE  /\ IsInjective(table'[g])
                      /\ spare[g] # NoBlock =>
                           /\ stage[g] = "splitting" /\ g # Prefix
                           /\ spare[g] \notin Range(table'[g])
                           /\ \A k \in Handles \ {g} : spare[g] \notin Holds(k)'
    BY <1>7 DEF HoldsOnce
  <2>1. IsInjective(table'[g])
    BY <1>1, <1>9 DEF Ownership, HoldsOnce
  <2>2. ASSUME spare[g] # NoBlock
        PROVE  /\ g # r /\ stage[g] = "splitting" /\ g # Prefix
               /\ spare[g] \notin Range(table[g])
               /\ \A k \in Handles \ {g} : spare[g] \notin Holds(k)
               /\ spare[g] # b
    BY <2>2, <1>1, <1>10 DEF Ownership, HoldsOnce
  <2>3. spare[g] # NoBlock => spare[g] \notin Range(table'[g])
    BY <2>2, <1>9
  <2>4. spare[g] # NoBlock => \A k \in Handles \ {g} : spare[g] \notin Holds(k)'
    BY <2>2, <1>11
  <2> QED  BY <2>1, <2>2, <2>3, <2>4
<1>14. MeetInPrefix'
  BY <1>1, <1>4, <1>9 DEF Ownership, MeetInPrefix
<1>15. Ownership'
  BY <1>1, <1>7, <1>8, <1>9, <1>12, <1>13, <1>14 DEF Ownership, NoOwnershipErrors
<1>16. Staging'
  <2>1. Len(table'[r]) = n /\ \A i \in 1 .. n : table'[r][i] = table[Prefix][i]
    BY <1>2, <1>3, <1>9 DEF n, b
  <2>2. table'[Prefix] = table[Prefix]
    BY <1>9
  <2>3. n <= Len(table[Prefix])
    BY <1>2, <1>3 DEF n
  <2>4. RequestStage'
    BY <1>1, <1>2, <1>7, <1>9, <2>1, <2>2, <2>3 DEF Staging, RequestStage
  <2>5. PrefixStage'
    BY <1>1, <1>7, <2>2 DEF Staging, PrefixStage, BlocksFor
  <2> QED  BY <1>1, <1>7, <2>4, <2>5 DEF Staging
<1>17. Moves
  BY <1>4, <1>11 DEF Moves
<1> QED  BY <1>15, <1>16, <1>17, HalvesNext

(* Allocating the replacement of a shared block.                           *)
LEMMA AllocateReplacementKeeps ==
  ASSUME IndInv, NEW r \in Requests, AllocateReplacement(r)
  PROVE  IndInv' /\ Moves
<1> USE RequestsAssumption DEF Handles
<1> DEFINE b == AllocateBlock(pool).block
<1>1. Ownership /\ Staging /\ stage[r] = "splitting" /\ spare[r] = NoBlock /\ r # Prefix
  BY Halves DEF AllocateReplacement
<1>2. CASE b = NoBlock
  <2>1. /\ UNCHANGED <<pool, table, written>> /\ spare' = spare
        /\ stage' = [stage EXCEPT ![r] = "releasing"]
    BY <1>1, <1>2, NothingAllocated DEF AllocateReplacement, Enter, Ownership
  <2>2. Ownership' /\ Moves
    BY <1>1, <2>1, QuietOwnership
  <2>3. Staging'
    BY <1>1, <2>1 DEF Staging, PrefixStage, RequestStage, Stages
  <2> QED  BY <2>2, <2>3, HalvesNext
<1>3. CASE b # NoBlock
  <2>1. /\ b \in Blocks /\ \A h \in Handles : b \notin Holds(h)
        /\ pool' \in Pools /\ FreeListSound(pool') /\ pool'.errors = 0
        /\ pool'.refs = [pool.refs EXCEPT ![b] = @ + 1]
    BY <1>1, <1>3, FreshBlock DEF AllocateReplacement
  <2>2. spare' = [spare EXCEPT ![r] = b] /\ UNCHANGED <<table, stage, written>>
    BY <1>3 DEF AllocateReplacement
  <2> HIDE DEF b
  <2>3. /\ spare' \in [Handles -> Blocks \cup {NoBlock}] /\ spare'[r] = b
        /\ \A g \in Handles \ {r} : spare'[g] = spare[g]
    BY <1>1, <2>1, <2>2 DEF Ownership
  <2>4. /\ Holds(r)' = Holds(r) \cup {b}
        /\ \A g \in Handles \ {r} : Holds(g)' = Holds(g)
    BY <1>1, <1>3, <2>2, <2>3 DEF Holds
  <2>5. RefsCountOwners'
    BY <1>1, <2>1, <2>4, GainKeepsCounts DEF Ownership
  <2>6. ASSUME NEW g \in Handles, spare'[g] # NoBlock
        PROVE  /\ stage[g] = "splitting" /\ g # Prefix
               /\ spare'[g] \notin Range(table[g])
               /\ \A k \in Handles \ {g} : spare'[g] \notin Holds(k)'
    <3>1. CASE g = r
      <4>1. spare'[g] = b /\ b \notin Range(table[g])
        BY <3>1, <2>1, <2>3 DEF Holds
      <4>2. \A k \in Handles \ {g} : b \notin Holds(k)'
        BY <3>1, <2>1, <2>4
      <4> QED  BY <3>1, <4>1, <4>2, <1>1
    <3>2. CASE g # r
      <4>1. /\ spare'[g] = spare[g] /\ stage[g] = "splitting" /\ g # Prefix
            /\ spare[g] \notin Range(table[g])
            /\ \A k \in Handles \ {g} : spare[g] \notin Holds(k)
        BY <1>1, <2>3, <2>6, <3>2 DEF Ownership, HoldsOnce
      <4>2. spare[g] # b
        BY <2>1, <2>6, <4>1 DEF Holds
      <4> QED  BY <4>1, <4>2, <2>4
    <3> QED  BY <3>1, <3>2
  <2>7. HoldsOnce'
    BY <1>1, <2>2, <2>6 DEF Ownership, HoldsOnce
  <2>8. MeetInPrefix'
    BY <1>1, <2>2 DEF Ownership, MeetInPrefix
  <2>9. Ownership'
    BY <1>1, <2>1, <2>2, <2>3, <2>5, <2>7, <2>8 DEF Ownership, NoOwnershipErrors
  <2>10. Staging'
    BY <1>1, <2>2 DEF Staging, PrefixStage, RequestStage, BlocksFor
  <2>11. Moves
    BY <2>1, <2>4 DEF Moves
  <2> QED  BY <2>9, <2>10, <2>11, HalvesNext
<1> QED  BY <1>2, <1>3

(* A replacement is held by its request alone, with one reference.         *)
LEMMA SpareIsSole ==
  ASSUME Ownership, NEW r \in Handles, spare[r] # NoBlock
  PROVE  /\ spare[r] \in Blocks /\ spare[r] \in Holds(r)
         /\ spare[r] \notin Range(table[r])
         /\ pool.refs[spare[r]] = 1
         /\ Counted(pool, spare[r])
<1>1. /\ spare[r] \in Blocks /\ spare[r] \notin Range(table[r])
      /\ \A g \in Handles \ {r} : spare[r] \notin Holds(g)
  BY DEF Ownership, HoldsOnce
<1>2. spare[r] \in Holds(r)
  BY DEF Holds
<1>3. pool.refs[spare[r]] = 1
  BY <1>1, <1>2, SoleOwner DEF Ownership
<1> QED  BY <1>1, <1>2, <1>3, HeldIsCounted DEF Ownership

(* A failed copy gives the replacement back.                               *)
LEMMA CopyFailsKeeps ==
  ASSUME IndInv, NEW r \in Requests, CopyFails(r)
  PROVE  IndInv' /\ Moves
<1> USE RequestsAssumption DEF Handles
<1> DEFINE b == spare[r]
<1>1. /\ Ownership /\ Staging /\ stage[r] = "splitting" /\ r # Prefix
      /\ b \in Blocks /\ b \in Holds(r) /\ b \notin Range(table[r])
      /\ pool.refs[b] = 1 /\ Counted(pool, b)
  BY Halves, SpareIsSole DEF CopyFails
<1>2. /\ pool' = ReleaseBlock(pool, b)
      /\ spare' = [spare EXCEPT ![r] = NoBlock]
      /\ stage' = [stage EXCEPT ![r] = "releasing"]
      /\ UNCHANGED <<table, written>>
  BY <1>1 DEF CopyFails, Enter
<1>3. /\ pool' \in Pools /\ FreeListSound(pool') /\ pool'.errors = 0
      /\ pool'.refs = [pool.refs EXCEPT ![b] = @ - 1]
  BY <1>1, <1>2, ReleaseBlockSound DEF Ownership, NoOwnershipErrors
<1>4. /\ spare' \in [Handles -> Blocks \cup {NoBlock}] /\ spare'[r] = NoBlock
      /\ \A g \in Handles \ {r} : spare'[g] = spare[g] /\ stage'[g] = stage[g]
  BY <1>1, <1>2 DEF Ownership, Staging
<1>5. /\ Holds(r)' = Holds(r) \ {b}
      /\ \A g \in Handles \ {r} : Holds(g)' = Holds(g)
  BY <1>1, <1>2, <1>4 DEF Holds
<1>6. RefsCountOwners'
  BY <1>1, <1>3, <1>5, LossKeepsCounts DEF Ownership
<1>7. HoldsOnce'
  <2> SUFFICES ASSUME NEW g \in Handles
               PROVE  /\ IsInjective(table[g])
                      /\ spare'[g] # NoBlock =>
                           /\ stage'[g] = "splitting" /\ g # Prefix
                           /\ spare'[g] \notin Range(table[g])
                           /\ \A k \in Handles \ {g} : spare'[g] \notin Holds(k)'
    BY <1>2 DEF HoldsOnce
  <2>1. IsInjective(table[g])
    BY <1>1 DEF Ownership, HoldsOnce
  <2>2. ASSUME spare'[g] # NoBlock
        PROVE  /\ g # r /\ spare'[g] = spare[g] /\ stage'[g] = stage[g]
               /\ stage[g] = "splitting" /\ g # Prefix
               /\ spare[g] \notin Range(table[g])
               /\ \A k \in Handles \ {g} : spare[g] \notin Holds(k)
    BY <2>2, <1>1, <1>4 DEF Ownership, HoldsOnce
  <2>3. spare'[g] # NoBlock => \A k \in Handles \ {g} : spare'[g] \notin Holds(k)'
    BY <2>2, <1>5
  <2> QED  BY <2>1, <2>2, <2>3
<1>8. MeetInPrefix'
  BY <1>1, <1>2 DEF Ownership, MeetInPrefix
<1>9. Ownership'
  BY <1>1, <1>2, <1>3, <1>4, <1>6, <1>7, <1>8 DEF Ownership, NoOwnershipErrors
<1>10. Staging'
  BY <1>1, <1>2 DEF Staging, PrefixStage, RequestStage, Stages, BlocksFor
<1>11. Moves
  BY <1>1, <1>5 DEF Moves
<1> QED  BY <1>9, <1>10, <1>11, HalvesNext

(* replace_block_after_cow never refuses: the replacement takes the place  *)
(* of the shared block, which loses one reference.                         *)
LEMMA ReplaceSharedKeeps ==
  ASSUME IndInv, NEW r \in Requests, ReplaceShared(r)
  PROVE  IndInv' /\ Moves
<1> USE RequestsAssumption DEF Handles
<1> DEFINE b == spare[r]
           n == Len(table[r])
           old == table[r][n]
<1>1. /\ Ownership /\ Staging /\ stage[r] = "splitting" /\ r # Prefix /\ spare[r] # NoBlock
      /\ b \in Blocks /\ b \in Holds(r) /\ b \notin Range(table[r])
      /\ pool.refs[b] = 1 /\ Counted(pool, b)
  BY Halves, SpareIsSole DEF ReplaceShared
<1>2. /\ table[r] \in Seq(Blocks) /\ IsInjective(table[r])
      /\ table[Prefix] \in Seq(Blocks)
      /\ Len(table[r]) = Len(table[Prefix]) /\ PartialRows > 0
      /\ \A i \in 1 .. n : table[r][i] = table[Prefix][i]
      /\ written[r] >= PrefixTokens
  BY <1>1 DEF Ownership, HoldsOnce, Staging, RequestStage
<1>3. n = FullPrefixBlocks + 1 /\ FullPrefixBlocks \in Nat /\ n \in Nat
  <2>1. stage[Prefix] = "ready"
    <3>1. PrefixTokens # 0
      BY <1>2, TokensAssumption, Z3 DEF PartialRows
    <3> QED  BY <1>1, <3>1 DEF Staging, PrefixStage
  <2> QED  BY <1>1, <1>2, <2>1, PrefixBlocks DEF Staging, PrefixStage
<1>4. table[r] # <<>> /\ n \in 1 .. n
  BY <1>2, <1>3
<1>5. old \in Blocks /\ old \in Range(table[r]) /\ old \in Holds(r)
  BY <1>2, <1>4 DEF Range, Holds
<1>6. b # old
  BY <1>1, <1>5
<1>7. Counted(pool, old)
  BY <1>1, <1>5, HeldIsCounted DEF Ownership
<1>8. MayReplace(pool, old, b) /\ Replaced(pool, old, b)
  BY <1>1, <1>6, <1>7 DEF MayReplace, Replaced, Counted
<1>9. /\ pool' = ReleaseBlock(pool, old)
      /\ table' = [table EXCEPT ![r][n] = b]
      /\ spare' = [spare EXCEPT ![r] = NoBlock]
      /\ stage' = [stage EXCEPT ![r] = "ready"]
      /\ UNCHANGED written
  BY <1>8 DEF ReplaceShared, ReplaceAfterCow, LastOf, Enter
<1>10. /\ pool' \in Pools /\ FreeListSound(pool') /\ pool'.errors = 0
       /\ pool'.refs = [pool.refs EXCEPT ![old] = @ - 1]
  BY <1>1, <1>7, <1>9, ReleaseBlockSound DEF Ownership, NoOwnershipErrors
<1> DEFINE t == [table[r] EXCEPT ![n] = b]
<1>11. /\ t \in Seq(Blocks) /\ Len(t) = n
       /\ \A i \in 1 .. n - 1 : t[i] = table[r][i]
       /\ t[n] = b
       /\ IsInjective(t)
       /\ Range(t) = (Range(table[r]) \ {old}) \cup {b}
  BY <1>1, <1>2, <1>4, ReplaceLast
<1>12. table' = [table EXCEPT ![r] = t]
  BY <1>9
<1>13. /\ table' \in [Handles -> Seq(Blocks)] /\ table'[r] = t
       /\ spare' \in [Handles -> Blocks \cup {NoBlock}] /\ spare'[r] = NoBlock
       /\ stage'[r] = "ready"
       /\ \A g \in Handles \ {r} :
            table'[g] = table[g] /\ spare'[g] = spare[g] /\ stage'[g] = stage[g]
  BY <1>1, <1>9, <1>11, <1>12 DEF Ownership, Staging
<1> HIDE DEF t, old, n
<1>14. /\ Holds(r)' = Holds(r) \ {old}
       /\ \A g \in Handles \ {r} : Holds(g)' = Holds(g)
  BY <1>1, <1>6, <1>11, <1>13 DEF Holds
<1>15. RefsCountOwners'
  BY <1>1, <1>5, <1>10, <1>14, LossKeepsCounts DEF Ownership
<1>16. HoldsOnce'
  <2> SUFFICES ASSUME NEW g \in Handles
               PROVE  /\ IsInjective(table'[g])
                      /\ spare'[g] # NoBlock =>
                           /\ stage'[g] = "splitting" /\ g # Prefix
                           /\ spare'[g] \notin Range(table'[g])
                           /\ \A k \in Handles \ {g} : spare'[g] \notin Holds(k)'
    BY DEF HoldsOnce
  <2>1. IsInjective(table'[g])
    BY <1>1, <1>11, <1>13 DEF Ownership, HoldsOnce
  <2>2. ASSUME spare'[g] # NoBlock
        PROVE  /\ g # r /\ spare'[g] = spare[g] /\ stage'[g] = stage[g]
               /\ table'[g] = table[g]
               /\ stage[g] = "splitting" /\ g # Prefix
               /\ spare[g] \notin Range(table[g])
               /\ \A k \in Handles \ {g} : spare[g] \notin Holds(k)
    BY <2>2, <1>1, <1>13 DEF Ownership, HoldsOnce
  <2>3. spare'[g] # NoBlock => \A k \in Handles \ {g} : spare'[g] \notin Holds(k)'
    BY <2>2, <1>14
  <2> QED  BY <2>1, <2>2, <2>3
<1>17. \A g \in Handles \ {r} : b \notin Range(table[g])
  BY <1>1 DEF Ownership, HoldsOnce, Holds
<1>18. MeetInPrefix'
  BY SMTT(30), <1>1, <1>11, <1>13, <1>17 DEF Ownership, MeetInPrefix
<1>19. Ownership'
  BY <1>1, <1>10, <1>13, <1>15, <1>16, <1>18 DEF Ownership, NoOwnershipErrors
<1>20. PrefixStage'
  BY <1>1, <1>13 DEF Staging, PrefixStage, BlocksFor
<1>21. \A i \in 1 .. n : i > FullPrefixBlocks => i = n
  BY <1>3
<1>22. b \notin Range(table[Prefix])
  BY <1>1, <1>17
<1>23. RequestStage'
  <2> SUFFICES ASSUME NEW q \in Requests
               PROVE  /\ stage'[q] # "gone"
                      /\ stage'[q] = "absent" => table'[q] = <<>>
                      /\ stage'[q] \in {"taking", "splitting"} =>
                           /\ Len(table'[q]) <= Len(table'[Prefix])
                           /\ \A i \in 1 .. Len(table'[q]) : table'[q][i] = table'[Prefix][i]
                      /\ stage'[q] = "splitting" =>
                           Len(table'[q]) = Len(table'[Prefix]) /\ PartialRows > 0
                      /\ stage'[q] \in {"taking", "splitting", "ready"} =>
                           written'[q] >= PrefixTokens
                      /\ stage'[q] = "ready" =>
                           /\ Len(table'[q]) >= Len(table'[Prefix])
                           /\ \A i \in 1 .. Len(table'[q]) :
                                i > FullPrefixBlocks => table'[q][i] \notin Range(table'[Prefix])
    BY DEF RequestStage
  <2>1. CASE q = r
    <3>1. Len(table'[q]) = n /\ n = Len(table'[Prefix]) /\ table'[Prefix] = table[Prefix]
      BY <2>1, <1>1, <1>2, <1>11, <1>13 DEF n
    <3>2. \A i \in 1 .. n : i > FullPrefixBlocks => table'[q][i] \notin Range(table[Prefix])
      BY <2>1, <1>11, <1>13, <1>21, <1>22
    <3> QED  BY <2>1, <1>2, <1>3, <1>9, <1>13, <3>1, <3>2
  <2>2. CASE q # r
    BY <2>2, <1>1, <1>9, <1>13 DEF Staging, RequestStage
  <2> QED  BY <2>1, <2>2
<1>24. stage' \in [Handles -> Stages] /\ written' \in [Requests -> Nat]
  BY <1>1, <1>9 DEF Staging, Stages
<1>25. Moves
  BY <1>1, <1>5, <1>14 DEF Moves
<1> QED  BY <1>19, <1>20, <1>23, <1>24, <1>25, HalvesNext DEF Staging

(* Appending a private block.                                              *)
LEMMA AppendBlockKeeps ==
  ASSUME IndInv, NEW r \in Requests, AppendBlock(r)
  PROVE  IndInv' /\ Moves
<1> USE RequestsAssumption DEF Handles
<1> DEFINE b == AllocateBlock(pool).block
<1>1. /\ Ownership /\ Staging /\ stage[r] = "ready" /\ b # NoBlock
      /\ pool' = AllocateBlock(pool).pool
      /\ table' = [table EXCEPT ![r] = Append(@, b)]
      /\ UNCHANGED <<spare, stage, written>>
  BY Halves DEF AppendBlock
<1>2. Ownership' /\ Moves /\ \A g \in Handles : b \notin Holds(g)
  BY <1>1, AppendFresh
<1> HIDE DEF b
<1>3. b \notin Range(table[Prefix])
  BY <1>2 DEF Holds
<1>4. /\ table[r] \in Seq(Blocks) /\ table'[r] = Append(table[r], b)
      /\ \A g \in Handles \ {r} : table'[g] = table[g]
  BY <1>1 DEF Ownership
<1>5. /\ Len(table[r]) \in Nat /\ Len(table'[r]) = Len(table[r]) + 1
      /\ \A i \in 1 .. Len(table[r]) : table'[r][i] = table[r][i]
      /\ table'[r][Len(table[r]) + 1] = b
  BY <1>4
<1>6. /\ Len(table[r]) >= Len(table[Prefix])
      /\ \A i \in 1 .. Len(table[r]) :
           i > FullPrefixBlocks => table[r][i] \notin Range(table[Prefix])
  BY <1>1 DEF Staging, RequestStage
<1>7. \A i \in 1 .. Len(table'[r]) :
        i > FullPrefixBlocks => table'[r][i] \notin Range(table[Prefix])
  <2> SUFFICES ASSUME NEW i \in 1 .. Len(table'[r]), i > FullPrefixBlocks
               PROVE  table'[r][i] \notin Range(table[Prefix])
    OBVIOUS
  <2>1. i \in 1 .. Len(table[r]) \/ i = Len(table[r]) + 1
    BY <1>5
  <2> QED  BY <2>1, <1>3, <1>5, <1>6
<1>8. Len(table[Prefix]) \in Nat /\ Len(table'[r]) >= Len(table[Prefix])
  BY <1>1, <1>5, <1>6 DEF Ownership
<1>9. RequestStage'
  BY <1>1, <1>4, <1>7, <1>8 DEF Staging, RequestStage
<1>10. PrefixStage'
  BY <1>1, <1>4 DEF Staging, PrefixStage, BlocksFor
<1> QED  BY <1>1, <1>2, <1>9, <1>10, HalvesNext DEF Staging

(* Rolling an appended block back.                                         *)
LEMMA RollbackAppendedKeeps ==
  ASSUME IndInv, NEW r \in Requests, RollbackAppended(r)
  PROVE  IndInv' /\ Moves
<1> USE RequestsAssumption DEF Handles
<1> DEFINE n == Len(table[r])
           s == SubSeq(table[r], 1, n - 1)
<1>1. /\ Ownership /\ Staging /\ stage[r] = "ready" /\ table[r] # <<>>
      /\ n > Len(table[Prefix])
      /\ pool' = ReleaseBlock(pool, table[r][n])
      /\ table' = [table EXCEPT ![r] = s]
      /\ UNCHANGED <<spare, stage, written>>
  BY Halves DEF RollbackAppended, LastOf
<1>2. table[r] \in Seq(Blocks) /\ IsInjective(table[r]) /\ Len(table[Prefix]) \in Nat
  BY <1>1 DEF Ownership, HoldsOnce
<1>3. /\ s \in Seq(Blocks) /\ Len(s) = n - 1 /\ IsInjective(s)
      /\ \A i \in 1 .. n - 1 : s[i] = table[r][i]
      /\ Range(s) = Range(table[r]) \ {table[r][n]}
  BY <1>1, <1>2, DropLast
<1>4. n \in Nat /\ n \in 1 .. n /\ table[r][n] \in Range(table[r])
  BY <1>1, <1>2 DEF Range
<1> HIDE DEF s, n
<1>5. Ownership' /\ Moves
  BY <1>1, <1>3, <1>4, GiveBack
<1>6. table'[r] = s /\ \A g \in Handles \ {r} : table'[g] = table[g]
  BY <1>1 DEF Ownership
<1>7. \A i \in 1 .. n - 1 : i > FullPrefixBlocks => s[i] \notin Range(table[Prefix])
  <2>1. \A i \in 1 .. n : i > FullPrefixBlocks => table[r][i] \notin Range(table[Prefix])
    BY <1>1 DEF Staging, RequestStage, n
  <2>2. \A i \in 1 .. n - 1 : i \in 1 .. n
    BY <1>4
  <2> QED  BY <2>1, <2>2, <1>3
<1>8. n - 1 >= Len(table[Prefix])
  BY <1>1, <1>2, <1>4
<1>9. RequestStage'
  BY <1>1, <1>3, <1>6, <1>7, <1>8 DEF Staging, RequestStage
<1>10. PrefixStage'
  BY <1>1, <1>6 DEF Staging, PrefixStage, BlocksFor
<1> QED  BY <1>1, <1>5, <1>9, <1>10, HalvesNext DEF Staging

(* Writing a row changes no ownership.                                     *)
LEMMA WriteRowKeeps ==
  ASSUME IndInv, NEW r \in Requests, WriteRow(r)
  PROVE  IndInv' /\ Moves
<1>1. Ownership /\ Staging
  BY Halves
<1>2. UNCHANGED <<pool, table, spare, stage>> /\ written' = [written EXCEPT ![r] = @ + 1]
  BY DEF WriteRow
<1>3. Ownership' /\ Moves
  <2>1. RefsCountOwners' /\ \A g \in Handles : Holds(g)' = Holds(g)
    BY <1>1, <1>2, QuietKeepsCounts DEF Ownership
  <2>2. HoldsOnce'
    BY <1>1, <1>2, <2>1 DEF Ownership, HoldsOnce
  <2>3. MeetInPrefix'
    BY <1>1, <1>2 DEF Ownership, MeetInPrefix
  <2> QED  BY <1>1, <1>2, <2>1, <2>2, <2>3 DEF Ownership, NoOwnershipErrors, Moves
<1>4. written' \in [Requests -> Nat] /\ \A q \in Requests : written'[q] >= written[q]
  BY <1>1, <1>2 DEF Staging
<1>5. RequestStage'
  <2>1. \A q \in Requests : written[q] >= PrefixTokens => written'[q] >= PrefixTokens
    BY <1>1, <1>4, TokensAssumption DEF Staging
  <2> QED  BY <1>1, <1>2, <2>1 DEF Staging, RequestStage
<1>6. PrefixStage'
  BY <1>1, <1>2 DEF Staging, PrefixStage, BlocksFor
<1> QED  BY <1>1, <1>2, <1>3, <1>4, <1>5, <1>6, HalvesNext DEF Staging

(* Releasing a handle, block by block.                                     *)
LEMMA ReleaseKeeps ==
  ASSUME IndInv, NEW h \in Handles, ReleaseNext(h) \/ Released(h)
  PROVE  IndInv' /\ Moves
<1> USE RequestsAssumption DEF Handles
<1>1. Ownership /\ Staging
  BY Halves
<1>2. CASE ReleaseNext(h)
  <2>1. /\ stage[h] = "releasing" /\ table[h] # <<>>
        /\ pool' = ReleaseBlock(pool, Head(table[h]))
        /\ table' = [table EXCEPT ![h] = Tail(table[h])]
        /\ UNCHANGED <<spare, stage, written>>
    BY <1>2 DEF ReleaseNext
  <2>2. table[h] \in Seq(Blocks) /\ IsInjective(table[h])
    BY <1>1 DEF Ownership, HoldsOnce
  <2>3. /\ Tail(table[h]) \in Seq(Blocks) /\ IsInjective(Tail(table[h]))
        /\ Range(Tail(table[h])) = Range(table[h]) \ {Head(table[h])}
    BY <2>1, <2>2, PopRemovesHead
  <2>4. Head(table[h]) \in Range(table[h])
    BY <2>1, <2>2 DEF Range
  <2>5. h = Prefix => \A r \in Requests : stage[r] = "absent" /\ table[r] = <<>>
    BY <1>1, <2>1 DEF Staging, PrefixStage, RequestStage
  <2>6. Ownership' /\ Moves
    BY <1>1, <2>1, <2>3, <2>4, <2>5, GiveBack
  <2>7. \A g \in Handles \ {h} : table'[g] = table[g]
    BY <1>1, <2>1 DEF Ownership
  <2>8. Staging'
    <3>1. CASE h = Prefix
      BY <1>1, <2>1, <2>5, <2>7, <3>1 DEF Staging, PrefixStage, RequestStage, BlocksFor
    <3>2. CASE h # Prefix
      BY <1>1, <2>1, <2>7, <3>2 DEF Staging, PrefixStage, RequestStage, BlocksFor
    <3> QED  BY <3>1, <3>2
  <2> QED  BY <2>6, <2>8, HalvesNext
<1>3. CASE Released(h)
  <2>1. /\ stage[h] = "releasing" /\ table[h] = <<>>
        /\ UNCHANGED <<pool, table, spare, written>>
        /\ stage' = [stage EXCEPT ![h] = IF h = Prefix THEN "gone" ELSE "absent"]
    BY <1>3 DEF Released, Enter
  <2>2. Ownership' /\ Moves
    BY <1>1, <2>1, NoSpare, QuietOwnership
  <2>3. Staging'
    BY <1>1, <2>1 DEF Staging, PrefixStage, RequestStage, Stages
  <2> QED  BY <2>2, <2>3, HalvesNext
<1> QED  BY <1>2, <1>3

-----------------------------------------------------------------------------
(* The theorems.                                                           *)

(* At the start nobody holds anything.                                     *)
LEMMA InitEstablishes == Init => IndInv
<1> SUFFICES ASSUME Init
             PROVE  IndInv
  OBVIOUS
<1> USE RequestsAssumption DEF Handles
<1>1. pool \in Pools /\ FreeListSound(pool) /\ pool.errors = 0
  BY ResetPoolSound DEF Init, ResetPool
<1>2. /\ table \in [Handles -> Seq(Blocks)]
      /\ spare \in [Handles -> Blocks \cup {NoBlock}]
      /\ stage \in [Handles -> Stages] /\ written \in [Requests -> Nat]
  BY DEF Init, Stages
<1>3. \A h \in Handles : Holds(h) = {} /\ table[h] = <<>> /\ spare[h] = NoBlock
  BY DEF Init, Holds, Range
<1>4. RefsCountOwners
  <2>1. \A b \in Blocks : Owners(b) = {} /\ pool.refs[b] = 0
    BY <1>3 DEF Owners, Init, ResetPool
  <2> QED  BY <2>1, FS_EmptySet DEF RefsCountOwners
<1>5. HoldsOnce
  BY <1>3 DEF HoldsOnce, IsInjective
<1>6. MeetInPrefix
  BY <1>3 DEF MeetInPrefix, Range
<1>7. PrefixStage /\ RequestStage
  BY DEF Init, PrefixStage, RequestStage
<1> QED  BY <1>1, <1>2, <1>4, <1>5, <1>6, <1>7 DEF IndInv, TypeOK, NoOwnershipErrors

(* Every step keeps the inductive invariant.                               *)
LEMMA StepsKeepIndInv == IndInv /\ [Next]_vars => IndInv' /\ Moves
<1> SUFFICES ASSUME IndInv, [Next]_vars
             PROVE  IndInv' /\ Moves
  OBVIOUS
<1>1. CASE PrefixStep
  BY <1>1, PrefixStepsKeep
<1>2. ASSUME NEW r \in Requests, RequestStep(r)
      PROVE  IndInv' /\ Moves
  BY <1>2, RequestStageStepsKeep, RetainNextKeeps, AllocateReplacementKeeps, CopyFailsKeeps,
     ReplaceSharedKeeps, AppendBlockKeeps, RollbackAppendedKeeps, WriteRowKeeps
  DEF RequestStep
<1>3. ASSUME NEW h \in Handles, ReleaseNext(h) \/ Released(h)
      PROVE  IndInv' /\ Moves
  BY <1>3, ReleaseKeeps
<1>4. CASE UNCHANGED vars
  <2>1. UNCHANGED <<pool, table, spare, stage, written>>
    BY <1>4 DEF vars
  <2>2. Ownership' /\ Moves
    <3>1. RefsCountOwners' /\ \A g \in Handles : Holds(g)' = Holds(g)
      BY <2>1, Halves, QuietKeepsCounts DEF Ownership
    <3>2. HoldsOnce'
      BY <2>1, <3>1, Halves DEF Ownership, HoldsOnce
    <3>3. MeetInPrefix'
      BY <2>1, Halves DEF Ownership, MeetInPrefix
    <3> QED  BY <2>1, <3>1, <3>2, <3>3, Halves DEF Ownership, NoOwnershipErrors, Moves
  <2>3. Staging'
    BY <2>1, Halves DEF Staging, PrefixStage, RequestStage, BlocksFor
  <2> QED  BY <2>2, <2>3, HalvesNext
<1> QED  BY <1>1, <1>2, <1>3, <1>4 DEF Next

(* Every reachable state satisfies the inductive invariant.                *)
LEMMA OwnershipInvariant == Spec => []IndInv
BY InitEstablishes, StepsKeepIndInv, PTL DEF Spec

(* The variables keep their types.                                         *)
THEOREM OwnershipTypeCorrect == Spec => []TypeOK
<1>1. IndInv => TypeOK
  BY DEF IndInv
<1> QED  BY <1>1, OwnershipInvariant, PTL

(* Queue, flags and counts agree after every call of the protocol.         *)
THEOREM FreeListStaysSound == Spec => []FreeListInv
<1>1. IndInv => FreeListInv
  BY DEF IndInv, FreeListInv
<1> QED  BY <1>1, OwnershipInvariant, PTL

(* Reference counts are conserved through every call of the protocol.      *)
THEOREM CountsConserved == Spec => []RefsCountOwners
<1>1. IndInv => RefsCountOwners
  BY DEF IndInv
<1> QED  BY <1>1, OwnershipInvariant, PTL

(* The protocol never makes the pool count an ownership error.             *)
THEOREM NeverAnOwnershipError == Spec => []NoOwnershipErrors
<1>1. IndInv => NoOwnershipErrors
  BY DEF IndInv
<1> QED  BY <1>1, OwnershipInvariant, PTL

(* The row a request writes next lies in a block that only it holds.       *)
THEOREM WritesAlwaysPrivate == Spec => []WritesArePrivate
<1>1. IndInv => WritesArePrivate
  <2> USE RequestsAssumption DEF Handles
  <2> SUFFICES ASSUME IndInv, NEW r \in Requests, stage[r] = "ready",
                      written[r] < Len(table[r]) * BlockSize
               PROVE  /\ pool.refs[NextRowBlock(r)] = 1
                      /\ Owners(NextRowBlock(r)) = {r}
    BY DEF WritesArePrivate
  <2> DEFINE i == written[r] \div BlockSize + 1
             b == table[r][i]
  <2>1. Ownership /\ Staging
    BY Halves
  <2>2. /\ table[r] \in Seq(Blocks) /\ Len(table[r]) \in Nat
        /\ written[r] \in Nat /\ written[r] >= PrefixTokens
    BY <2>1 DEF Ownership, Staging, RequestStage
  <2>3. i \in 1 .. Len(table[r]) /\ i > FullPrefixBlocks
    BY <2>2, BackedPosition
  <2> HIDE DEF i
  <2>4. b \in Blocks /\ b \in Range(table[r]) /\ b \in Holds(r)
    BY <2>2, <2>3 DEF Range, Holds
  <2>5. b \notin Range(table[Prefix])
    BY <2>1, <2>3 DEF Staging, RequestStage
  <2>6. ASSUME NEW g \in Handles \ {r}
        PROVE  b \notin Holds(g)
    <3>1. b \notin Range(table[g])
      BY <2>1, <2>4, <2>5 DEF Ownership, MeetInPrefix
    <3>2. spare[g] # NoBlock => spare[g] # b
      BY <2>1, <2>4 DEF Ownership, HoldsOnce
    <3>3. b # NoBlock
      BY <2>4, NumBlocksAssumption DEF Blocks, NoBlock
    <3> QED  BY <3>1, <3>2, <3>3 DEF Holds
  <2>7. Owners(b) = {r} /\ pool.refs[b] = 1
    BY <2>1, <2>4, <2>6, SoleOwner DEF Ownership
  <2> QED  BY <2>7 DEF NextRowBlock, i
<1> QED  BY <1>1, OwnershipInvariant, PTL

(* When the prefix is gone, every block is back in the free queue.         *)
THEOREM EverythingIsReturned == Spec => []EverythingReturned
<1>1. IndInv => EverythingReturned
  <2> USE RequestsAssumption DEF Handles
  <2> SUFFICES ASSUME IndInv, stage[Prefix] = "gone"
               PROVE  FreeCount(pool) = NumBlocks /\ \A b \in Blocks : pool.refs[b] = 0
    BY DEF EverythingReturned
  <2>1. Ownership /\ Staging
    BY Halves
  <2>2. \A h \in Handles : table[h] = <<>> /\ stage[h] # "splitting"
    BY <2>1 DEF Staging, PrefixStage, RequestStage
  <2>3. \A h \in Handles : Holds(h) = {}
    BY <2>1, <2>2, NoSpare DEF Holds, Range
  <2>4. \A b \in Blocks : pool.refs[b] = 0
    <3>1. \A b \in Blocks : Owners(b) = {}
      BY <2>3 DEF Owners
    <3> QED  BY <2>1, <3>1, FS_EmptySet DEF Ownership, RefsCountOwners
  <2>5. pool.free \in Seq(Blocks) /\ IsInjective(pool.free) /\ Range(pool.free) = Blocks
    <3>1. pool.free \in Seq(Blocks) /\ IsInjective(pool.free)
      BY <2>1 DEF Ownership, Pools, FreeListSound, QueueHoldsEachBlockOnce
    <3>2. \A b \in Blocks : b \in Range(pool.free)
      BY <2>1, <2>4 DEF Ownership, FreeListSound, FreeMeansUnreferenced
    <3> QED  BY <3>1, <3>2 DEF Range
  <2>6. FreeCount(pool) = Cardinality(Blocks)
    <3> DEFINE D == 1 .. Len(pool.free)
    <3>1. pool.free \in [D -> Blocks] /\ Len(pool.free) \in Nat
      BY <2>5
    <3>2. pool.free \in Bijection(D, Blocks)
      BY <2>5, <3>1 DEF IsInjective, Range, Bijection, Injection, Surjection
    <3>3. IsFiniteSet(D) /\ Cardinality(D) = Len(pool.free)
      <4> DEFINE n == Len(pool.free)
      <4>1. n \in Nat /\ 1 \in Int
        BY <3>1
      <4> HIDE DEF n
      <4>2. IsFiniteSet(1 .. n) /\ Cardinality(1 .. n) = IF 1 > n THEN 0 ELSE n - 1 + 1
        BY <4>1, FS_Interval
      <4>3. Cardinality(1 .. n) = n
        BY <4>1, <4>2
      <4> QED  BY <4>2, <4>3 DEF n
    <3> QED  BY <3>2, <3>3, FS_Bijection DEF ExistsBijection, FreeCount
  <2>7. Cardinality(Blocks) = NumBlocks
    BY NumBlocksAssumption, FS_Interval DEF Blocks
  <2> QED  BY <2>4, <2>6, <2>7
<1> QED  BY <1>1, OwnershipInvariant, PTL

(* Two requests meet only on blocks of the prefix.                         *)
THEOREM SharingStaysInPrefix == Spec => []SharedOnlyThroughPrefix
<1>1. IndInv => SharedOnlyThroughPrefix
  <2> USE RequestsAssumption DEF Handles
  <2> SUFFICES ASSUME IndInv, NEW b \in Blocks, NEW o \in Owners(b), NEW q \in Owners(b),
                      o # q
               PROVE  Prefix \in Owners(b)
    BY DEF SharedOnlyThroughPrefix, Sharing!SharedOnlyThroughPrefix
  <2>1. Ownership /\ o \in Handles /\ q \in Handles /\ b \in Holds(o) /\ b \in Holds(q)
    BY Halves DEF Owners
  <2>2. ASSUME NEW g \in Handles, NEW k \in Handles, g # k, b \in Holds(g), b \in Holds(k)
        PROVE  b \in Range(table[g])
    BY <2>1, <2>2 DEF Ownership, HoldsOnce, Holds
  <2>3. b \in Range(table[o]) /\ b \in Range(table[q])
    BY <2>1, <2>2
  <2>4. CASE o = Prefix \/ q = Prefix
    BY <2>1, <2>4 DEF Owners
  <2>5. CASE o # Prefix /\ q # Prefix
    <3>1. b \in Range(table[Prefix])
      BY <2>1, <2>3, <2>5 DEF Ownership, MeetInPrefix
    <3> QED  BY <3>1 DEF Owners, Holds
  <2> QED  BY <2>4, <2>5
<1> QED  BY <1>1, OwnershipInvariant, PTL

(* A change of the holdings of the allowed kinds is a step of BlockSharing. *)
LEMMA MovesShare == Moves => [Sharing!Next]_([b \in Blocks |-> Owners(b)])
<1> USE RequestsAssumption DEF Handles
<1> DEFINE own == [b \in Blocks |-> Owners(b)]
<1>0. /\ own' = [b \in Blocks |-> Owners(b)']
      /\ own' \in [Blocks -> SUBSET Handles]
  BY DEF Owners
<1>1. CASE \A h \in Handles : Holds(h)' = Holds(h)
  <2>1. \A b \in Blocks : Owners(b)' = Owners(b)
    BY <1>1 DEF Owners
  <2>2. own' = own
    BY <1>0, <2>1
  <2> QED  BY <2>2
<1>2. ASSUME NEW h \in Handles, NEW b \in Blocks,
             Holds(h)' = Holds(h) \ {b},
             \A g \in Handles \ {h} : Holds(g)' = Holds(g),
             h # Prefix \/ \A g \in Handles \ {h} : b \notin Holds(g)
      PROVE  Sharing!Next
  <2>1. \A c \in Blocks \ {b} : Owners(c)' = Owners(c)
    BY <1>2 DEF Owners
  <2>2. Owners(b)' = Owners(b) \ {h}
    BY <1>2 DEF Owners
  <2>3. \A c \in Blocks : own'[c] \ own[c] = {}
    BY <1>0, <2>1, <2>2
  <2>4. \A c \in Blocks : Prefix \in own[c] \ own'[c] => own'[c] = {}
    <3>1. h = Prefix => Owners(b)' = {}
      BY <1>2, <2>2 DEF Owners
    <3> QED  BY <1>0, <2>1, <2>2, <3>1
  <2> QED  BY <1>0, <2>3, <2>4 DEF Sharing!Next, Sharing!MayGain, Sharing!MayLose
<1>3. ASSUME NEW h \in Handles, NEW b \in Blocks,
             Holds(h)' = Holds(h) \cup {b},
             \A g \in Handles \ {h} : Holds(g)' = Holds(g),
             (\A g \in Handles : b \notin Holds(g)) \/ b \in Holds(Prefix)
      PROVE  Sharing!Next
  <2>1. \A c \in Blocks \ {b} : Owners(c)' = Owners(c)
    BY <1>3 DEF Owners
  <2>2. Owners(b)' = Owners(b) \cup {h}
    BY <1>3 DEF Owners
  <2>3. \A c \in Blocks : own[c] \subseteq own'[c]
    BY <1>0, <2>1, <2>2
  <2>4. \A c \in Blocks \ {b} : own'[c] \ own[c] = {}
    BY <1>0, <2>1
  <2>5. \/ own[b] = {} /\ own'[b] \ own[b] = {h}
        \/ Prefix \in own[b]
    BY <1>0, <1>3, <2>2 DEF Owners
  <2>6. \A c \in Blocks : Sharing!MayGain(c, own'[c] \ own[c])
    BY <2>4, <2>5 DEF Sharing!MayGain
  <2>7. \A c \in Blocks : Sharing!MayLose(c)
    BY <2>3 DEF Sharing!MayLose
  <2> QED  BY <1>0, <2>6, <2>7 DEF Sharing!Next
<1> QED  BY <1>1, <1>2, <1>3 DEF Moves

(* The protocol implements the abstract sharing discipline.                *)
THEOREM ProtocolImplementsSharing == Spec => ImplementsSharing
<1>1. Init => Sharing!Init
  <2> SUFFICES ASSUME Init
               PROVE  [b \in Blocks |-> Owners(b)] = [b \in Blocks |-> {}]
    BY DEF Sharing!Init
  <2>1. \A h \in Handles : Holds(h) = {}
    BY DEF Init, Holds, Range
  <2> QED  BY <2>1 DEF Owners
<1>2. IndInv /\ [Next]_vars => [Sharing!Next]_([b \in Blocks |-> Owners(b)])
  BY StepsKeepIndInv, MovesShare
<1> QED  BY <1>1, <1>2, OwnershipInvariant, PTL DEF Spec, ImplementsSharing, Sharing!Spec

-----------------------------------------------------------------------------
(* The pool and a client that may call anything.                           *)

AnyClient == INSTANCE PagedKVBlockPool

(* The client's methods are the ones above.                                *)
LEMMA SameMethods ==
  /\ AnyClient!Pools = Pools
  /\ AnyClient!ResetPool = ResetPool
  /\ AnyClient!NoBlock = NoBlock
  /\ \A p : AnyClient!FreeListSound(p) <=> FreeListSound(p)
  /\ \A p : AnyClient!WithError(p) = WithError(p)
  /\ \A p : AnyClient!AllocateBlock(p) = AllocateBlock(p)
  /\ \A p, b : AnyClient!RetainBlock(p, b) = RetainBlock(p, b)
  /\ \A p, b : AnyClient!ReleaseBlock(p, b) = ReleaseBlock(p, b)
  /\ \A p, b, c : AnyClient!ReplaceAfterCow(p, b, c) = ReplaceAfterCow(p, b, c)
<1>1. AnyClient!Pools = Pools /\ AnyClient!ResetPool = ResetPool
  BY DEF AnyClient!Pools, Pools, AnyClient!Blocks, Blocks, AnyClient!ResetPool, ResetPool
<1>2. AnyClient!NoBlock = NoBlock
  BY DEF AnyClient!NoBlock, NoBlock
<1>3. \A p : AnyClient!FreeListSound(p) <=> FreeListSound(p)
  BY Zenon DEF AnyClient!FreeListSound, FreeListSound,
    AnyClient!QueueHoldsEachBlockOnce, QueueHoldsEachBlockOnce,
    AnyClient!FreeMeansUnreferenced, FreeMeansUnreferenced, AnyClient!Blocks, Blocks,
    AnyClient!IsInjective, IsInjective, AnyClient!Range, Range
<1>4. \A p : AnyClient!WithError(p) = WithError(p)
  BY DEF AnyClient!WithError, WithError
<1>5. /\ \A p, b : AnyClient!Allocatable(p, b) <=> Allocatable(p, b)
      /\ \A p, b : AnyClient!Counted(p, b) <=> Counted(p, b)
      /\ \A p, b, c : AnyClient!MayReplace(p, b, c) <=> MayReplace(p, b, c)
  BY DEF AnyClient!Allocatable, Allocatable, AnyClient!Counted, Counted,
    AnyClient!MayReplace, MayReplace, AnyClient!Blocks, Blocks
<1>6. \A p : AnyClient!AllocateBlock(p) = AllocateBlock(p)
  BY <1>2, <1>4, <1>5, Zenon DEF AnyClient!AllocateBlock, AllocateBlock
<1>7. \A p, b : AnyClient!RetainBlock(p, b) = RetainBlock(p, b)
  BY <1>4, <1>5, Zenon DEF AnyClient!RetainBlock, RetainBlock
<1>8. \A p, b : AnyClient!ReleaseBlock(p, b) = ReleaseBlock(p, b)
  BY DEF AnyClient!ReleaseBlock, ReleaseBlock, AnyClient!Counted, Counted,
    AnyClient!WithError, WithError, AnyClient!Blocks, Blocks
<1>9. \A p, b, c : AnyClient!ReplaceAfterCow(p, b, c) = ReplaceAfterCow(p, b, c)
  BY <1>4, <1>5, <1>8, Zenon DEF AnyClient!ReplaceAfterCow, ReplaceAfterCow
<1> QED  BY <1>1, <1>2, <1>3, <1>4, <1>6, <1>7, <1>8, <1>9

\* The inductive invariant: the free list is sound in every reachable state.
PoolInv == AnyClient!TypeOK /\ AnyClient!FreeListInv

(* Every call, with any argument, keeps the invariant.                     *)
LEMMA CallsKeepPoolInv == PoolInv /\ [AnyClient!Next]_pool => PoolInv'
<1> SUFFICES ASSUME PoolInv, [AnyClient!Next]_pool
             PROVE  PoolInv'
  OBVIOUS
<1>1. pool \in Pools /\ FreeListSound(pool)
  BY SameMethods DEF PoolInv, AnyClient!TypeOK, AnyClient!FreeListInv
<1>2. CASE AnyClient!CallAllocate
  <2>1. pool' \in Pools /\ FreeListSound(pool')
    BY <1>1, <1>2, AllocateBlockSound, SameMethods DEF AnyClient!CallAllocate
  <2> QED  BY <2>1, SameMethods DEF PoolInv, AnyClient!TypeOK, AnyClient!FreeListInv
<1>3. ASSUME NEW b \in AnyClient!CallArguments, AnyClient!CallRetain(b)
      PROVE  PoolInv'
  BY <1>1, <1>3, RetainBlockSound, SameMethods DEF AnyClient!CallRetain, PoolInv, AnyClient!TypeOK, AnyClient!FreeListInv
<1>4. ASSUME NEW b \in AnyClient!CallArguments, AnyClient!CallRelease(b)
      PROVE  PoolInv'
  BY <1>1, <1>4, ReleaseBlockSound, SameMethods DEF AnyClient!CallRelease, PoolInv, AnyClient!TypeOK, AnyClient!FreeListInv
<1>5. ASSUME NEW old \in AnyClient!CallArguments, NEW new \in AnyClient!CallArguments, AnyClient!CallReplace(old, new)
      PROVE  PoolInv'
  BY <1>1, <1>5, ReplaceAfterCowSound, SameMethods DEF AnyClient!CallReplace, PoolInv, AnyClient!TypeOK, AnyClient!FreeListInv
<1>6. CASE UNCHANGED pool
  BY <1>1, <1>6 DEF PoolInv, AnyClient!TypeOK, AnyClient!FreeListInv
<1> QED  BY <1>2, <1>3, <1>4, <1>5, <1>6 DEF AnyClient!Next

(* Every reachable state satisfies the inductive invariant.                *)
LEMMA PoolInvariant == AnyClient!Spec => []PoolInv
<1>1. AnyClient!Init => PoolInv
  BY ResetPoolSound, SameMethods DEF AnyClient!Init, PoolInv, AnyClient!TypeOK, AnyClient!FreeListInv
<1> QED  BY <1>1, CallsKeepPoolInv, PTL DEF AnyClient!Spec

(* The pool record keeps its type: no reference count goes below 0.        *)
THEOREM PoolTypeCorrect == AnyClient!Spec => []AnyClient!TypeOK
<1>1. PoolInv => AnyClient!TypeOK
  BY DEF PoolInv
<1> QED  BY <1>1, PoolInvariant, PTL

(* The free queue, the in_free_queue_ flags and the counts agree after any *)
(* sequence of calls with any arguments.                                   *)
THEOREM FreeListAlwaysSound == AnyClient!Spec => []AnyClient!FreeListInv
<1>1. PoolInv => AnyClient!FreeListInv
  BY DEF PoolInv
<1> QED  BY <1>1, PoolInvariant, PTL

(* The error exits of allocate_block are unreachable, and it fails only on *)
(* an empty queue.                                                         *)
THEOREM AllocationAlwaysClean == AnyClient!Spec => []AnyClient!AllocationIsClean
<1>1. PoolInv => AnyClient!AllocationIsClean
  <2> SUFFICES ASSUME PoolInv
               PROVE  AnyClient!AllocationIsClean
    OBVIOUS
  <2>1. pool \in Pools /\ FreeListSound(pool)
    BY SameMethods DEF PoolInv, AnyClient!TypeOK, AnyClient!FreeListInv
  <2>2. AllocateBlock(pool).pool.errors = pool.errors
    BY <2>1, AllocateBlockSound
  <2>3. ASSUME pool.free # <<>>
        PROVE  AllocateBlock(pool).block # NoBlock
    <3>1. AllocateBlock(pool).block \in Blocks
      BY <2>1, <2>3, AllocateBlockSound, SameMethods DEF Allocatable
    <3> QED  BY <3>1, NumBlocksAssumption DEF Blocks, NoBlock
  <2> QED  BY <2>2, <2>3, SameMethods DEF AnyClient!AllocationIsClean
<1> QED  BY <1>1, PoolInvariant, PTL

(* A call that counts an ownership error leaves queue, flags and counts as *)
(* they were.                                                              *)
THEOREM ErrorsAreInert == AnyClient!Spec => AnyClient!ErrorsChangeNothingElse
<1> DEFINE Inert == pool'.errors # pool.errors => pool' = WithError(pool)
<1>1. PoolInv /\ [AnyClient!Next]_pool => [Inert]_pool
  <2> SUFFICES ASSUME PoolInv, AnyClient!Next, pool'.errors # pool.errors
               PROVE  pool' = WithError(pool)
    OBVIOUS
  <2>1. pool \in Pools /\ FreeListSound(pool)
    BY SameMethods DEF PoolInv, AnyClient!TypeOK, AnyClient!FreeListInv
  <2>2. ~AnyClient!CallAllocate
    BY <2>1, AllocateBlockSound, SameMethods DEF AnyClient!CallAllocate
  <2>3. ASSUME NEW b, AnyClient!CallRetain(b)
        PROVE  pool' = WithError(pool)
    <3>1. CASE Counted(pool, b)
      <4>1. pool' = [pool EXCEPT !.refs[b] = @ + 1]
        BY <2>1, <2>3, <3>1, RetainBlockSound, SameMethods DEF AnyClient!CallRetain
      <4>2. pool'.errors = pool.errors
        BY <2>1, <4>1 DEF Pools
      <4> QED  BY <4>2
    <3> QED  BY <2>1, <2>3, <3>1, RetainBlockSound, SameMethods DEF AnyClient!CallRetain
  <2>4. ASSUME NEW b, pool' = ReleaseBlock(pool, b)
        PROVE  pool' = WithError(pool)
    BY <2>1, <2>4, ReleaseBlockSound
  <2>5. ASSUME NEW old, NEW new, AnyClient!CallReplace(old, new)
        PROVE  pool' = WithError(pool)
    BY <2>1, <2>4, <2>5, ReplaceAfterCowSound, SameMethods DEF AnyClient!CallReplace
  <2> QED
    BY <2>2, <2>3, <2>4, <2>5, SameMethods DEF AnyClient!Next, AnyClient!CallRelease
<1>2. PoolInv /\ [AnyClient!Next]_pool => [pool'.errors # pool.errors => pool' = AnyClient!WithError(pool)]_pool
  BY <1>1, SameMethods
<1> QED  BY <1>2, PoolInvariant, PTL DEF AnyClient!Spec, AnyClient!ErrorsChangeNothingElse

============================================================================
