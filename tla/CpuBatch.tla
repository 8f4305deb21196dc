------------------------------- MODULE CpuBatch -------------------------------
(***************************************************************************)
(* OfflineBatchTranscriber::transcribe without a GPU                       *)
(* (src/pipeline/offline_batching.cpp): chunks are admitted in batches, as *)
(* the pool allows, and each is then prepared and run to the end, one      *)
(* after the other.  The pool is one of slots, one slot a request, or of   *)
(* blocks, as many as an estimate of the request's rows needs.             *)
(*                                                                         *)
(* Which slot or block a request gets makes no difference on this path, so *)
(* the pool is the number of the free ones.                                *)
(***************************************************************************)
EXTENDS Chunking

CONSTANTS
  BatchSize,    \* batch_size
  BlockSize,    \* kv_block_size
  NumBlocks,    \* kv_num_blocks, 0 for as many as a batch of full contexts takes
  CtxSize,      \* ctx_size
  RowsPerTick,  \* rows estimated for a tick of audio
  ExtraRows     \* and for the prompt and the answer

ASSUME BatchAssumption ==
  /\ {BatchSize, BlockSize, CtxSize} \subseteq Nat \ {0}
  /\ {NumBlocks, RowsPerTick, ExtraRows} \subseteq Nat

VARIABLES
  paged,   \* use_paged_kv
  next,    \* next_request
  active,  \* the requests of the batch, by chunk
  free,    \* slots or blocks not in use
  answers, \* the results of each chunk
  batch    \* "off", "admit", "run"

batchVars == <<paged, next, active, free, answers, batch>>

BlocksFor(rows) == (rows + BlockSize - 1) \div BlockSize

\* estimate_kv_budget_tokens.
Budget(chunk) ==
  IF ~paged THEN CtxSize
  ELSE Max({1, Min({CtxSize,
         (chunk.inferEnd - chunk.inferStart) * RowsPerTick + ExtraRows})})

\* What a request takes from the pool.
Need(chunk) == IF paged THEN BlocksFor(Budget(chunk)) ELSE 1

\* resolve_paged_kv_num_blocks, or the slots of a batch.
Capacity ==
  IF ~paged THEN BatchSize
  ELSE IF NumBlocks > 0 THEN NumBlocks ELSE BatchSize * BlocksFor(CtxSize)

BatchInit ==
  /\ paged \in BOOLEAN
  /\ next = 1
  /\ active = <<>>
  /\ free = 0
  /\ answers = <<>>
  /\ batch = "off"

BeginBatch(chunks) ==
  /\ batch' = "admit"
  /\ next' = 1
  /\ active' = <<>>
  /\ free' = Capacity
  /\ answers' = [i \in 1 .. Len(chunks) |-> <<>>]
  /\ UNCHANGED paged

Admissible(chunks) ==
  /\ next <= Len(chunks)
  /\ Len(active) < BatchSize
  /\ free >= Need(chunks[next])

Admit(chunks) ==
  /\ batch = "admit"
  /\ Admissible(chunks)
  /\ active' = Append(active, next)
  /\ free' = free - Need(chunks[next])
  /\ next' = next + 1
  /\ UNCHANGED <<paged, answers, batch>>

StopAdmitting(chunks) ==
  /\ batch = "admit"
  /\ ~Admissible(chunks)
  /\ batch' = "run"
  /\ UNCHANGED <<paged, next, active, free, answers>>

\* Faulty variant: what a request that failed held is not given back.
RunOneKeeping(chunks, text) ==
  /\ batch = "run" /\ active # <<>>
  /\ answers' = [answers EXCEPT ![Head(active)] =
                   Append(@, [text |-> text, ok |-> text # <<>>])]
  /\ free' = IF text # <<>> THEN free + Need(chunks[Head(active)]) ELSE free
  /\ active' = Tail(active)
  /\ UNCHANGED <<paged, next, batch>>

\* run_one; a text that is empty is a failure.
RunOne(chunks, text) ==
  /\ batch = "run" /\ active # <<>>
  /\ answers' = [answers EXCEPT ![Head(active)] =
                   Append(@, [text |-> text, ok |-> text # <<>>])]
  /\ free' = free + Need(chunks[Head(active)])
  /\ active' = Tail(active)
  /\ UNCHANGED <<paged, next, batch>>

\* The batch is done: there is another one, or the call returns.
EndBatch(chunks) ==
  /\ batch = "run" /\ active = <<>>
  /\ batch' = IF next <= Len(chunks) THEN "admit" ELSE "off"
  /\ UNCHANGED <<paged, next, active, free, answers>>

\* The pool can hold every chunk, alone.
PoolSuffices(chunks) == \A i \in 1 .. Len(chunks) : Need(chunks[i]) <= Capacity
=============================================================================
