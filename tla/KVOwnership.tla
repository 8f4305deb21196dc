----------------------------- MODULE KVOwnership -----------------------------
(***************************************************************************)
(* How the GPU engines use the block pool (pipeline/offline_batching.cpp,  *)
(* transcribe_unified_gpu and transcribe_continuous_gpu): the task prefix  *)
(* acquires its blocks once, every request retains them, copies the prefix *)
(* block it would have to write, appends private blocks as it grows and    *)
(* releases what it holds on the one exit path of every outcome.           *)
(*                                                                         *)
(* Every call of a method of the pool that touches one block is a step, so *)
(* the loops over a block table (acquire, retain, release, rollback) take  *)
(* one step per iteration.  table[h] is what h has taken and not yet given *)
(* back: the part of the block table the running loop has dealt with.      *)
(* Requests interleave freely here; UnifiedEngine models the order in      *)
(* which the engine really serves them.                                    *)
(***************************************************************************)
EXTENDS PagedKVBlocks, FiniteSets

CONSTANTS
  Requests,      \* the requests of one transcription
  Prefix,        \* the task prefix, request_id -1 in the code
  PrefixTokens,  \* tokens of the cached prefix
  BlockSize,     \* kv_block_size: positions per block
  MaxBlocks      \* bound: blocks in the table of one request

ASSUME RequestsAssumption == IsFiniteSet(Requests) /\ Prefix \notin Requests
ASSUME TokensAssumption == PrefixTokens \in Nat /\ BlockSize \in Nat \ {0}
ASSUME MaxBlocksAssumption == MaxBlocks \in Nat

Handles == Requests \cup {Prefix}

VARIABLES
  pool,     \* the block pool
  table,    \* KVHandle::block_table of every handle
  spare,    \* `replacement`: a block allocated for a copy, in no table yet
  stage,    \* where the handle is in its life
  written   \* positions of a request that hold K/V, num_computed_tokens

vars == <<pool, table, spare, stage, written>>

Stages == {"absent", "taking", "splitting", "ready", "releasing", "gone"}

\* paged_blocks_for_tokens, paged_prefix_partial_rows
BlocksFor(tokens) == (tokens + BlockSize - 1) \div BlockSize
PartialRows == PrefixTokens % BlockSize

\* The prefix blocks that are full: no request ever writes a row of them.
FullPrefixBlocks == PrefixTokens \div BlockSize

LastOf(h) == table[h][Len(table[h])]

Init ==
  /\ pool = ResetPool
  /\ table = [h \in Handles |-> <<>>]
  /\ spare = [h \in Handles |-> NoBlock]
  /\ stage = [h \in Handles |-> "absent"]
  /\ written = [r \in Requests |-> 0]

Enter(h, s) == stage' = [stage EXCEPT ![h] = s]

-----------------------------------------------------------------------------
(* The task prefix.                                                        *)

\* prefix_cache.state = acquire(-1, prefix_tokens): its capacity check.
BeginPrefix ==
  /\ stage[Prefix] = "absent"
  /\ \A r \in Requests : stage[r] = "absent"
  /\ PrefixTokens > 0
  /\ FreeCount(pool) >= BlocksFor(PrefixTokens)
  /\ Enter(Prefix, "taking")
  /\ UNCHANGED <<pool, table, spare, written>>

\* One allocate_block of acquire; on failure acquire releases what it has.
AcquireBlock ==
  LET a == AllocateBlock(pool)
  IN  /\ stage[Prefix] = "taking"
      /\ Len(table[Prefix]) < BlocksFor(PrefixTokens)
      /\ pool' = a.pool
      /\ IF a.block = NoBlock
         THEN Enter(Prefix, "releasing") /\ UNCHANGED table
         ELSE /\ table' = [table EXCEPT ![Prefix] = Append(@, a.block)]
              /\ UNCHANGED stage
      /\ UNCHANGED <<spare, written>>

\* gpu_prefill_prefix_paged wrote the prefix, or failed.
PrefillPrefix ==
  /\ stage[Prefix] = "taking"
  /\ Len(table[Prefix]) = BlocksFor(PrefixTokens)
  /\ \E s \in {"ready", "releasing"} : Enter(Prefix, s)
  /\ UNCHANGED <<pool, table, spare, written>>

\* Faulty variant: the prefix goes while requests still use its blocks.
DropPrefixEarly ==
  /\ stage[Prefix] = "ready"
  /\ Enter(Prefix, "releasing")
  /\ UNCHANGED <<pool, table, spare, written>>

\* The engine lets the prefix go after its last request.
DropPrefix ==
  /\ stage[Prefix] = "ready"
  /\ \A r \in Requests : stage[r] = "absent"
  /\ Enter(Prefix, "releasing")
  /\ UNCHANGED <<pool, table, spare, written>>

-----------------------------------------------------------------------------
(* A request.                                                              *)

\* Admission.  With a prefix the handle starts as a copy of the prefix's.
Admit(r) ==
  /\ stage[r] = "absent"
  /\ pool.free # <<>>
  /\ \/ stage[Prefix] = "ready"
     \/ PrefixTokens = 0 /\ stage[Prefix] = "absent"
  /\ Enter(r, "taking")
  /\ written' = [written EXCEPT ![r] = PrefixTokens]
  /\ UNCHANGED <<pool, table, spare>>

\* One retain_block of retain; on failure retain releases what it has.
RetainNext(r) ==
  LET b == table[Prefix][Len(table[r]) + 1]
  IN  /\ stage[r] = "taking"
      /\ Len(table[r]) < Len(table[Prefix])
      /\ pool' = RetainBlock(pool, b)
      /\ IF Counted(pool, b)
         THEN table' = [table EXCEPT ![r] = Append(@, b)] /\ UNCHANGED stage
         ELSE Enter(r, "releasing") /\ UNCHANGED table
      /\ UNCHANGED <<spare, written>>

\* The whole prefix is retained.  Faulty variant: a prefix that ends inside
\* a block is shared as it is.
RetainedWithoutCopy(r) ==
  /\ stage[r] = "taking"
  /\ Len(table[r]) = Len(table[Prefix])
  /\ Enter(r, "ready")
  /\ UNCHANGED <<pool, table, spare, written>>

\* The whole prefix is retained: copy its last block if that is not full.
Retained(r) ==
  /\ stage[r] = "taking"
  /\ Len(table[r]) = Len(table[Prefix])
  /\ Enter(r, IF PartialRows > 0 THEN "splitting" ELSE "ready")
  /\ UNCHANGED <<pool, table, spare, written>>

\* `replacement = allocate_block()`.
AllocateReplacement(r) ==
  LET a == AllocateBlock(pool)
  IN  /\ stage[r] = "splitting"
      /\ spare[r] = NoBlock
      /\ pool' = a.pool
      /\ spare' = [spare EXCEPT ![r] = a.block]
      /\ IF a.block = NoBlock THEN Enter(r, "releasing") ELSE UNCHANGED stage
      /\ UNCHANGED <<table, written>>

\* copy_paged_kv_block_rows failed: the replacement is given back first.
CopyFails(r) ==
  /\ stage[r] = "splitting"
  /\ spare[r] # NoBlock
  /\ pool' = IF pool.refs[spare[r]] > 0 THEN ReleaseBlock(pool, spare[r]) ELSE pool
  /\ spare' = [spare EXCEPT ![r] = NoBlock]
  /\ Enter(r, "releasing")
  /\ UNCHANGED <<table, written>>

\* Faulty variant: the table changes, the shared block keeps its reference.
ReplaceKeepingOld(r) ==
  /\ stage[r] = "splitting"
  /\ spare[r] # NoBlock
  /\ table' = [table EXCEPT ![r][Len(table[r])] = spare[r]]
  /\ spare' = [spare EXCEPT ![r] = NoBlock]
  /\ Enter(r, "ready")
  /\ UNCHANGED <<pool, written>>

\* The rows were copied: replace_block_after_cow; if it refuses, the
\* replacement is given back.
ReplaceShared(r) ==
  LET old      == LastOf(r)
      replaced == ReplaceAfterCow(pool, old, spare[r])
  IN  /\ stage[r] = "splitting"
      /\ spare[r] # NoBlock
      /\ spare' = [spare EXCEPT ![r] = NoBlock]
      /\ IF Replaced(pool, old, spare[r])
         THEN /\ pool' = replaced
              /\ table' = [table EXCEPT ![r][Len(table[r])] = spare[r]]
              /\ Enter(r, "ready")
         ELSE /\ pool' = IF replaced.refs[spare[r]] > 0
                         THEN ReleaseBlock(replaced, spare[r])
                         ELSE replaced
              /\ Enter(r, "releasing")
              /\ UNCHANGED table
      /\ UNCHANGED written

\* append_block, for the rows the next step will write; an empty pool leaves
\* the request waiting as it is.
AppendBlock(r) ==
  LET a == AllocateBlock(pool)
  IN  /\ stage[r] = "ready"
      /\ Len(table[r]) < MaxBlocks
      /\ a.block # NoBlock
      /\ pool' = a.pool
      /\ table' = [table EXCEPT ![r] = Append(@, a.block)]
      /\ UNCHANGED <<spare, stage, written>>

\* Faulty variant: the block goes back to the pool and stays in the table.
RollbackKeepingTable(r) ==
  /\ stage[r] = "ready"
  /\ table[r] # <<>>
  /\ written[r] <= (Len(table[r]) - 1) * BlockSize
  /\ pool' = ReleaseBlock(pool, LastOf(r))
  /\ UNCHANGED <<table, spare, stage, written>>

\* One iteration of rollback_appended: a block appended for rows that were
\* not written is given back.
RollbackAppended(r) ==
  /\ stage[r] = "ready"
  /\ table[r] # <<>>
  /\ written[r] <= (Len(table[r]) - 1) * BlockSize
  /\ Len(table[r]) > Len(table[Prefix])
  /\ pool' = ReleaseBlock(pool, LastOf(r))
  /\ table' = [table EXCEPT ![r] = SubSeq(@, 1, Len(@) - 1)]
  /\ UNCHANGED <<spare, stage, written>>

\* The block of the next position the GPU writes for r.
NextRowBlock(r) == table[r][written[r] \div BlockSize + 1]

\* The GPU writes the K/V row of the next position.
WriteRow(r) ==
  /\ stage[r] = "ready"
  /\ written[r] < Len(table[r]) * BlockSize
  /\ written' = [written EXCEPT ![r] = @ + 1]
  /\ UNCHANGED <<pool, table, spare, stage>>

\* The request finished or failed: emit_finished releases its handle.
Finish(r) ==
  /\ stage[r] = "ready"
  /\ Enter(r, "releasing")
  /\ UNCHANGED <<pool, table, spare, written>>

-----------------------------------------------------------------------------
(* PagedKVBlockPool::release, one block per step.                          *)

ReleaseNext(h) ==
  /\ stage[h] = "releasing"
  /\ table[h] # <<>>
  /\ pool' = ReleaseBlock(pool, Head(table[h]))
  /\ table' = [table EXCEPT ![h] = Tail(@)]
  /\ UNCHANGED <<spare, stage, written>>

\* A released request is over; its name may stand for a later request.
Released(h) ==
  /\ stage[h] = "releasing"
  /\ table[h] = <<>>
  /\ Enter(h, IF h = Prefix THEN "gone" ELSE "absent")
  /\ UNCHANGED <<pool, table, spare, written>>

-----------------------------------------------------------------------------
PrefixStep == BeginPrefix \/ AcquireBlock \/ PrefillPrefix \/ DropPrefix

RequestStep(r) ==
  \/ Admit(r) \/ RetainNext(r) \/ Retained(r)
  \/ AllocateReplacement(r) \/ CopyFails(r) \/ ReplaceShared(r)
  \/ AppendBlock(r) \/ RollbackAppended(r) \/ WriteRow(r) \/ Finish(r)

Next ==
  \/ PrefixStep
  \/ \E r \in Requests : RequestStep(r)
  \/ \E h \in Handles : ReleaseNext(h) \/ Released(h)

Spec == Init /\ [][Next]_vars

-----------------------------------------------------------------------------
(* Who holds what.                                                         *)

Holds(h) == Range(table[h]) \cup ({spare[h]} \ {NoBlock})

Owners(b) == {h \in Handles : b \in Holds(h)}

-----------------------------------------------------------------------------
(* Properties.                                                             *)

(* The variables keep their types: a table never holds NoBlock.            *)
TypeOK ==
  /\ pool \in Pools
  /\ table \in [Handles -> Seq(Blocks)]
  /\ spare \in [Handles -> Blocks \cup {NoBlock}]
  /\ stage \in [Handles -> Stages]
  /\ written \in [Requests -> Nat]

(* The three records of what is free - the queue, in_free_queue_ and the   *)
(* reference counts - agree after every single call of the engines, on     *)
(* every outcome: no block is queued twice or given out while in use.      *)
FreeListInv == FreeListSound(pool)

(* Reference counts are conserved: the count of a block is the number of   *)
(* handles that hold it, after every single call, on every outcome of      *)
(* copying, appending, rolling back and failing.                           *)
RefsCountOwners == \A b \in Blocks : pool.refs[b] = Cardinality(Owners(b))

(* The engines never make the pool count an ownership error                *)
(* (kv_ownership_errors = 0 in every report).                              *)
NoOwnershipErrors == pool.errors = 0

(* A block with more than one reference is never written: the block the    *)
(* next K/V row of a request goes to is held by that request alone.        *)
WritesArePrivate ==
  \A r \in Requests :
    stage[r] = "ready" /\ written[r] < Len(table[r]) * BlockSize =>
      pool.refs[NextRowBlock(r)] = 1 /\ Owners(NextRowBlock(r)) = {r}

(* Once the prefix is gone every block is free again                       *)
(* (kv_final_free_blocks = capacity).                                      *)
EverythingReturned ==
  stage[Prefix] = "gone" =>
    FreeCount(pool) = NumBlocks /\ \A b \in Blocks : pool.refs[b] = 0

Sharing == INSTANCE BlockSharing
             WITH Block  <- Blocks,
                  Owner  <- Handles,
                  owners <- [b \in Blocks |-> Owners(b)]

(* The protocol implements BlockSharing: requests meet only on blocks of   *)
(* the prefix, and the prefix gives up a block last.                       *)
ImplementsSharing == Sharing!Spec

(* Two requests meet only on blocks the prefix holds as well.              *)
SharedOnlyThroughPrefix == Sharing!SharedOnlyThroughPrefix

-----------------------------------------------------------------------------
(* Why the properties hold: the parts of an inductive invariant            *)
(* (KVOwnershipProofs).                                                    *)

\* A handle holds a block once; a replacement is held by nobody else.
HoldsOnce ==
  \A h \in Handles :
    /\ IsInjective(table[h])
    /\ spare[h] # NoBlock =>
         /\ stage[h] = "splitting" /\ h # Prefix
         /\ spare[h] \notin Range(table[h])
         /\ \A g \in Handles \ {h} : spare[h] \notin Holds(g)

\* Two requests have only prefix blocks in common.
MeetInPrefix ==
  \A r, q \in Requests :
    r # q => Range(table[r]) \cap Range(table[q]) \subseteq Range(table[Prefix])

\* The prefix is whole and stays whole while a request is in being.
PrefixStage ==
  /\ stage[Prefix] \in {"absent", "gone"} => table[Prefix] = <<>>
  /\ stage[Prefix] = "taking" => Len(table[Prefix]) <= BlocksFor(PrefixTokens)
  /\ stage[Prefix] = "ready" => Len(table[Prefix]) = BlocksFor(PrefixTokens)
  /\ stage[Prefix] # "splitting"
  /\ \A r \in Requests :
       stage[r] # "absent" => \/ stage[Prefix] = "ready"
                              \/ PrefixTokens = 0 /\ stage[Prefix] = "absent"

\* Until it may write, a request's table is a copy of the prefix's; from
\* then on, what lies past the full prefix blocks is its own.
RequestStage ==
  \A r \in Requests :
    /\ stage[r] # "gone"
    /\ stage[r] = "absent" => table[r] = <<>>
    /\ stage[r] \in {"taking", "splitting"} =>
         /\ Len(table[r]) <= Len(table[Prefix])
         /\ \A i \in 1 .. Len(table[r]) : table[r][i] = table[Prefix][i]
    /\ stage[r] = "splitting" => Len(table[r]) = Len(table[Prefix]) /\ PartialRows > 0
    /\ stage[r] \in {"taking", "splitting", "ready"} => written[r] >= PrefixTokens
    /\ stage[r] = "ready" =>
         /\ Len(table[r]) >= Len(table[Prefix])
         /\ \A i \in 1 .. Len(table[r]) :
              i > FullPrefixBlocks => table[r][i] \notin Range(table[Prefix])

IndInv ==
  /\ TypeOK
  /\ FreeListSound(pool)
  /\ NoOwnershipErrors
  /\ RefsCountOwners
  /\ HoldsOnce
  /\ MeetInPrefix
  /\ PrefixStage
  /\ RequestStage

============================================================================
