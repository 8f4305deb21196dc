-------------------------- MODULE PagedKVBlockPool --------------------------
(***************************************************************************)
(* The block pool as a machine of its own, driven by a client that may     *)
(* call any method with any block number at any time, the wrong ones       *)
(* included: what holds of it holds of every client.  Its counts have no   *)
(* bound; what holds of it is proved (KVOwnershipProofs), not run.         *)
(***************************************************************************)
EXTENDS PagedKVBlocks

VARIABLE pool

CallArguments == -1 .. NumBlocks

Init == pool = ResetPool

CallAllocate == pool' = AllocateBlock(pool).pool

CallRetain(b) == pool' = RetainBlock(pool, b)

CallRelease(b) == pool' = ReleaseBlock(pool, b)

CallReplace(old, new) == pool' = ReplaceAfterCow(pool, old, new)

Next ==
  \/ CallAllocate
  \/ \E b \in CallArguments : CallRetain(b)
  \/ \E b \in CallArguments : CallRelease(b)
  \/ \E old, new \in CallArguments : CallReplace(old, new)

Spec == Init /\ [][Next]_pool

-----------------------------------------------------------------------------
(* Properties.                                                             *)

(* The pool record keeps its shape; no count goes below 0.                 *)
TypeOK == pool \in Pools

(* The design's pool invariant (a free block has count 0 and appears once  *)
(* in the queue, an allocated one has a count above 0 and does not appear) *)
(* survives every sequence of calls, double releases, retains of free      *)
(* blocks and out-of-range numbers included.                               *)
FreeListInv == FreeListSound(pool)

(* Whatever was called before, a call of allocate_block never reports an   *)
(* ownership error, and returns a block unless the queue is empty.         *)
AllocationIsClean ==
  /\ AllocateBlock(pool).pool.errors = pool.errors
  /\ AllocateBlock(pool).block = NoBlock => pool.free = <<>>

(* A call that reports an ownership error changes nothing else: a bad call *)
(* cannot make a block free, taken or shared.                              *)
ErrorsChangeNothingElse ==
  [][pool'.errors # pool.errors => pool' = WithError(pool)]_pool

=============================================================================
