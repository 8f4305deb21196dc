--------------------------- MODULE PagedKVBlocks ---------------------------
(***************************************************************************)
(* The global pool of physical KV blocks: the methods of class             *)
(* PagedKVBlockPool (pipeline/offline_batching.cpp) that touch one block,   *)
(* as operators on a pool record.  PagedKVBlockPool makes a machine of them *)
(* and the modules that own a pool (KVOwnership, UnifiedEngine) build their *)
(* steps from them.                                                        *)
(***************************************************************************)
EXTENDS Integers, Sequences, Functions

CONSTANT NumBlocks  \* capacity_: the number of physical blocks

ASSUME NumBlocksAssumption == NumBlocks \in Nat

Blocks == 0 .. NumBlocks - 1

\* What allocate_block returns when it has nothing to give.
NoBlock == -1

Pools == [free   : Seq(Blocks),
          queued : [Blocks -> BOOLEAN],
          refs   : [Blocks -> Nat],
          errors : Nat]

-----------------------------------------------------------------------------
(* The methods, on a pool record p:                                        *)
(*   p.free     free_blocks_, the FIFO queue of free block numbers         *)
(*   p.queued   in_free_queue_                                             *)
(*   p.refs     ref_counts_                                                *)
(*   p.errors   ownership_errors_                                          *)

ResetPool == [free   |-> [i \in 1 .. NumBlocks |-> i - 1],
              queued |-> [b \in Blocks |-> TRUE],
              refs   |-> [b \in Blocks |-> 0],
              errors |-> 0]

FreeCount(p) == Len(p.free)

WithError(p) == [p EXCEPT !.errors = @ + 1]

\* A block number that may be handed out: in range, queued, unreferenced.
Allocatable(p, b) == b \in Blocks /\ p.queued[b] /\ p.refs[b] = 0

\* A block number whose count may be raised or lowered.
Counted(p, b) == b \in Blocks /\ ~p.queued[b] /\ p.refs[b] > 0

AllocateBlock(p) ==
  IF p.free = <<>>
  THEN [pool |-> p, block |-> NoBlock]
  ELSE LET b == Head(p.free)
           popped == [p EXCEPT !.free = Tail(@)]
       IN  IF Allocatable(p, b)
           THEN [pool  |-> [popped EXCEPT !.queued[b] = FALSE, !.refs[b] = 1],
                 block |-> b]
           ELSE [pool |-> WithError(popped), block |-> NoBlock]

RetainBlock(p, b) ==
  IF Counted(p, b) THEN [p EXCEPT !.refs[b] = @ + 1] ELSE WithError(p)

\* Faulty variant: a released block is queued again whoever still uses it.
ReleaseAndQueue(p, b) ==
  IF ~Counted(p, b)
  THEN WithError(p)
  ELSE [p EXCEPT !.refs[b] = @ - 1, !.queued[b] = TRUE, !.free = Append(@, b)]

ReleaseBlock(p, b) ==
  IF ~Counted(p, b)
  THEN WithError(p)
  ELSE IF p.refs[b] = 1
       THEN [p EXCEPT !.refs[b] = 0, !.queued[b] = TRUE, !.free = Append(@, b)]
       ELSE [p EXCEPT !.refs[b] = @ - 1]

\* replace_block_after_cow accepts a replacement that is allocated exactly
\* once and is not the block it replaces.
MayReplace(p, old, replacement) ==
  /\ replacement \in Blocks
  /\ old # replacement
  /\ ~p.queued[replacement]
  /\ p.refs[replacement] = 1

\* The pool's part of replace_block_after_cow: the reference to the old
\* block is given up.  The caller's table changes only if Replaced.
Replaced(p, old, replacement) ==
  MayReplace(p, old, replacement) /\ Counted(p, old)

ReplaceAfterCow(p, old, replacement) ==
  IF MayReplace(p, old, replacement) THEN ReleaseBlock(p, old) ELSE WithError(p)

-----------------------------------------------------------------------------
(* What the methods keep of a pool.                                        *)

(* No block is queued twice: two allocate_block calls never return the     *)
(* same block unless it was released in between.                           *)
QueueHoldsEachBlockOnce(p) == IsInjective(p.free)

(* A block is in the free queue exactly when it is flagged in_free_queue_  *)
(* and exactly when nobody references it: three records of one fact that   *)
(* the methods update at different places.                                 *)
FreeMeansUnreferenced(p) ==
  \A b \in Blocks :
    /\ p.queued[b] <=> b \in Range(p.free)
    /\ p.queued[b] <=> p.refs[b] = 0

FreeListSound(p) == QueueHoldsEachBlockOnce(p) /\ FreeMeansUnreferenced(p)

============================================================================
