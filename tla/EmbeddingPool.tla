--------------------------- MODULE EmbeddingPool ---------------------------
(***************************************************************************)
(* The pool of device buffers that carry a prompt's embeddings from the    *)
(* thread that prepares prompts to the one that runs the model             *)
(* (src/compute/gpu_embedding_pool.cpp).  Every method takes the pool's    *)
(* mutex, so each is one step; what is not under the mutex is the use of a *)
(* view, which view() hands out and its caller reads after the lock is     *)
(* gone: taking a view and being done with it are two steps here.          *)
(*                                                                         *)
(* A handle is a plain value that its holders copy, so a caller may        *)
(* present any handle it was ever given, also one that was released, whose *)
(* slot was claimed again, or that belongs to a pool since destroyed.      *)
(***************************************************************************)
EXTENDS Integers, FiniteSets

CONSTANTS
    \* the most slots reserve_slots ever asks for
    MaxSlots,
    \* prompt lengths, in tokens, and embedding widths that callers ask for
    TokenCounts, Dims,
    \* bounds of the model: claims of one slot, and pools created, in a run
    MaxGeneration, MaxEpoch

ASSUME PoolAssumption ==
    /\ MaxSlots \in Nat \ {0}
    /\ TokenCounts \subseteq Nat \ {0}
    /\ Dims \subseteq Nat \ {0}
    /\ MaxGeneration \in Nat
    /\ MaxEpoch \in Nat

VARIABLES
    epoch,    \* pool_epoch_ of the pool that exists now
    size,     \* slots_.size()
    slots,    \* the slots; those at size and beyond are not there yet
    rows,     \* for each slot, the handle each token row was last written through
    issued,   \* every handle that any pool ever returned
    live,     \* those whose holder has not released them
    viewing   \* the view the engine thread is reading, or NoView

vars == <<epoch, size, slots, rows, issued, live, viewing>>

SlotIds == 0 .. MaxSlots - 1
Handle == [slot : SlotIds, generation : Nat \ {0}, epoch : Nat \ {0},
           tokens : TokenCounts, dim : Dims]
Slot == [generation : Nat, capacity : {0} \union TokenCounts,
         dim : {0} \union Dims, owner : {0} \union TokenCounts, in_use : BOOLEAN]

EmptySlot == [generation |-> 0, capacity |-> 0, dim |-> 0, owner |-> 0,
              in_use |-> FALSE]
Rows == UNION {0 .. n - 1 : n \in TokenCounts}
\* A default-constructed handle, which names no slot.
Nobody == [slot |-> -1, generation |-> 0, epoch |-> 0, tokens |-> 0, dim |-> 0]
Blank == [t \in Rows |-> Nobody]
NoView == [live |-> FALSE]
View == [live : {TRUE}, handle : Handle, offset : Nat, count : Nat \ {0}]

Init ==
    /\ epoch = 1
    /\ size \in 1 .. MaxSlots
    /\ slots = [i \in SlotIds |-> EmptySlot]
    /\ rows = [i \in SlotIds |-> Blank]
    /\ issued = {}
    /\ live = {}
    /\ viewing = NoView

-----------------------------------------------------------------------------
(***************************************************************************)
(* What the pool asks about a slot and about a handle.                     *)
(***************************************************************************)

\* Faulty variant: a slot is free as soon as it exists.
FreeIfPresent(i) == i < size

Free(i) == i < size /\ ~ slots[i].in_use

\* Faulty variant: only the width of the tensor is compared.
FittingAnyLength(n, d) ==
    {i \in SlotIds : Free(i) /\ slots[i].dim = d /\ slots[i].capacity > 0}

\* Free slots whose tensor can hold the prompt (capacity 0: no tensor yet).
Fitting(n, d) ==
    {i \in SlotIds : Free(i) /\ slots[i].dim = d /\ slots[i].capacity >= n}

\* The first of the smallest.
BestFit(n, d) ==
    {i \in Fitting(n, d) :
        \A j \in Fitting(n, d) :
            \/ slots[i].capacity < slots[j].capacity
            \/ slots[i].capacity = slots[j].capacity /\ i <= j}

FirstFree == {i \in SlotIds : Free(i) /\ \A j \in SlotIds : Free(j) => i <= j}

\* Faulty variant: the claim's generation is not compared.
OwnsAnyGeneration(h) ==
    /\ h.epoch = epoch
    /\ h.slot < size
    /\ slots[h.slot].in_use
    /\ slots[h.slot].owner = h.tokens
    /\ slots[h.slot].dim = h.dim

\* Faulty variant: the pool's epoch is not compared.
OwnsAnyEpoch(h) ==
    /\ h.slot < size
    /\ slots[h.slot].in_use
    /\ slots[h.slot].generation = h.generation
    /\ slots[h.slot].owner = h.tokens
    /\ slots[h.slot].dim = h.dim

Owns(h) ==
    /\ h.epoch = epoch
    /\ h.slot < size
    /\ slots[h.slot].in_use
    /\ slots[h.slot].generation = h.generation
    /\ slots[h.slot].owner = h.tokens
    /\ slots[h.slot].dim = h.dim

ValidRange(extent, offset, count) ==
    offset >= 0 /\ count > 0 /\ offset + count <= extent

FreeCount == Cardinality({i \in SlotIds : Free(i)})

-----------------------------------------------------------------------------
(***************************************************************************)
(* The pool's methods.                                                     *)
(***************************************************************************)

\* The slot's next claim, and the handle that names it.
Claimed(slot, n) == [slot EXCEPT !.generation = @ + 1, !.owner = n, !.in_use = TRUE]
Claim(i, n, d) == [slot |-> i, generation |-> slots[i].generation + 1,
                   epoch |-> epoch, tokens |-> n, dim |-> d]

GiveOut(h) == issued' = issued \union {h} /\ live' = live \union {h}

\* A slot whose tensor is large enough is taken with what it last held.
AcquireFitting(n, d) ==
    \E i \in BestFit(n, d) :
        /\ slots[i].generation < MaxGeneration
        /\ slots' = [slots EXCEPT ![i] = Claimed(@, n)]
        /\ GiveOut(Claim(i, n, d))
        /\ UNCHANGED <<epoch, size, rows, viewing>>

\* No tensor fits: the first free slot gets a new one.
AcquireRebuilt(n, d) ==
    /\ Fitting(n, d) = {}
    /\ \E i \in FirstFree :
        /\ slots[i].generation < MaxGeneration
        /\ slots' = [slots EXCEPT
                        ![i] = Claimed([@ EXCEPT !.capacity = n, !.dim = d], n)]
        /\ rows' = [rows EXCEPT ![i] = Blank]
        /\ GiveOut(Claim(i, n, d))
        /\ UNCHANGED <<epoch, size, viewing>>

\* A handle the pool does not own any more is refused.
Freed(slot) == [slot EXCEPT !.owner = 0, !.in_use = FALSE]

Release(h) ==
    /\ IF Owns(h)
         THEN /\ slots' = [slots EXCEPT ![h.slot] = Freed(@)]
              /\ live' = {g \in live : g.slot # h.slot}
         ELSE UNCHANGED <<slots, live>>
    /\ UNCHANGED <<epoch, size, rows, issued, viewing>>

ReserveSlots(n) ==
    /\ n > size
    /\ size' = n
    /\ UNCHANGED <<epoch, slots, rows, issued, live, viewing>>

\* set_host and copy_tensor: rows of the handle's slot are written through it.
Write(h, offset, count) ==
    /\ Owns(h)
    /\ ValidRange(h.tokens, offset, count)
    /\ rows' = [rows EXCEPT ![h.slot] =
                   [t \in Rows |-> IF t \in offset .. offset + count - 1
                                     THEN h ELSE @[t]]]
    /\ UNCHANGED <<epoch, size, slots, issued, live, viewing>>

TakeView(h, offset, count) ==
    /\ viewing = NoView
    /\ Owns(h)
    /\ ValidRange(h.tokens, offset, count)
    /\ viewing' = [live |-> TRUE, handle |-> h, offset |-> offset, count |-> count]
    /\ UNCHANGED <<epoch, size, slots, rows, issued, live>>

-----------------------------------------------------------------------------
(***************************************************************************)
(* How the engine uses it.  stage_inputs copies the rows of a view before  *)
(* it does anything else; the prompts of a step are released after the     *)
(* step, by the thread that ran it.  So the handle being read is released  *)
(* by nobody, while the other thread goes on acquiring, writing and        *)
(* releasing; and the pipeline drops the pool only between two calls.      *)
(***************************************************************************)

ReleaseHandle(h) ==
    /\ viewing # NoView => viewing.handle # h
    /\ Release(h)

FinishView ==
    /\ viewing # NoView
    /\ viewing' = NoView
    /\ UNCHANGED <<epoch, size, slots, rows, issued, live>>

\* shutdown_gpu and init_gpu: the pool dies with its handles, a new one is made.
Recreate(n) ==
    /\ epoch < MaxEpoch
    /\ viewing = NoView
    /\ epoch' = epoch + 1
    /\ size' = n
    /\ slots' = [i \in SlotIds |-> EmptySlot]
    /\ rows' = [i \in SlotIds |-> Blank]
    /\ live' = {}
    /\ UNCHANGED <<issued, viewing>>

Next ==
    \/ \E n \in TokenCounts, d \in Dims : AcquireFitting(n, d)
    \/ \E n \in TokenCounts, d \in Dims : AcquireRebuilt(n, d)
    \/ \E h \in issued : ReleaseHandle(h)
    \/ \E h \in issued, t \in Rows : \E k \in 1 .. h.tokens : Write(h, t, k)
    \/ \E h \in live, t \in Rows : \E k \in 1 .. h.tokens : TakeView(h, t, k)
    \/ FinishView
    \/ \E n \in 1 .. MaxSlots : ReserveSlots(n)
    \/ \E n \in 1 .. MaxSlots : Recreate(n)

Spec == Init /\ [][Next]_vars

-----------------------------------------------------------------------------
(***************************************************************************)
(* Properties.                                                             *)
(***************************************************************************)

TypeOK ==
    /\ epoch \in Nat \ {0}
    /\ size \in 1 .. MaxSlots
    /\ slots \in [SlotIds -> Slot]
    /\ rows \in [SlotIds -> [Rows -> Handle \union {Nobody}]]
    /\ issued \subseteq Handle
    /\ live \subseteq issued
    /\ viewing \in View \union {NoView}

(***************************************************************************)
(* The pool recognises a handle exactly while its holder has it: a copy    *)
(* that outlived its release, another claim of the slot, or the pool       *)
(* itself opens nothing (owns_unlocked guards release, set_host,           *)
(* copy_tensor and view).                                                  *)
(***************************************************************************)
OwnedIffLive == {h \in issued : Owns(h)} = live

(***************************************************************************)
(* No two holders share a slot, and a slot is taken only if somebody holds *)
(* it: the free_count() that the scheduler compares with the size of its   *)
(* next batch (offline_batching.cpp 987-989) is exactly what is left.      *)
(***************************************************************************)
SlotsHeldOnce ==
    /\ \A g, h \in live : g.slot = h.slot => g = h
    /\ FreeCount + Cardinality(live) = size

(***************************************************************************)
(* The tensor behind a handle has the handle's width and at least its      *)
(* length, also when it was built for another prompt: the ranges that the  *)
(* methods check against the handle lie inside the buffer.                 *)
(***************************************************************************)
HandleFitsBacking ==
    \A h \in live :
        slots[h.slot].dim = h.dim /\ slots[h.slot].capacity >= h.tokens

(***************************************************************************)
(* What a holder wrote stays until the holder itself lets go: no step of   *)
(* another holder, with whatever handle it kept, and no rebuilding of a    *)
(* tensor, reaches rows somebody still owns.                               *)
(***************************************************************************)
HeldRowsKept ==
    [][\A h \in live \intersect live' :
          \A t \in Rows : rows[h.slot][t] = h => rows'[h.slot][t] = h]_vars

(***************************************************************************)
(* A view that is read after the lock was dropped still shows the slot of  *)
(* the handle it was taken from: nobody claimed or rebuilt it meanwhile.   *)
(***************************************************************************)
ViewStaysBacked ==
    viewing # NoView =>
        /\ viewing.handle \in live
        /\ Owns(viewing.handle)
        /\ viewing.offset + viewing.count <= slots[viewing.handle.slot].capacity
=============================================================================
