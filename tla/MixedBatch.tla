----------------------------- MODULE MixedBatch -----------------------------
(***************************************************************************)
(* One GPU step over several requests, as data: how                        *)
(* build_packed_mixed_metadata lays their tokens out in rows               *)
(* (src/pipeline/mixed_batch.cpp), what gpu_mixed_step_paged copies into   *)
(* them (src/pipeline/pipeline.cpp), what the runner checks                *)
(* (mixed_batch.hpp, gpu_mixed_runner.cpp), and which rows of the KV cache *)
(* the attention of the graphs writes and reads (llm_ops_gpu.cpp): of the  *)
(* mixed graph, and of the paged prefill, the batched decode and the slot  *)
(* graphs the continuous engine uses instead.                              *)
(*                                                                         *)
(* A source (PackedSequenceSource) is a record                             *)
(*   req, kind, offset, tokens, logits   the scheduled sequence            *)
(*   prompt, prefix                      prompt_tokens, cached_prefix_...  *)
(*   token                               decode_token_id, or NoToken       *)
(*   table                               block_table                       *)
(***************************************************************************)
EXTENDS Integers, Sequences, FiniteSets, SequencesExt, Lists

CONSTANTS
  RowsPerBlock,     \* kv_block_size
  PhysicalRows,     \* rows of the KV cache
  MaxPackedTokens,  \* kMaxPackedTokens
  MaxTableEntries,  \* kMaxExpandedBlockEntries
  Layers,           \* n_layers
  Slots,            \* n_slots
  ContextRows       \* n_ctx

ASSUME PackingAssumption ==
  /\ {RowsPerBlock, MaxPackedTokens, MaxTableEntries, Layers, Slots} \subseteq Nat \ {0}
  /\ PhysicalRows \in Nat /\ ContextRows \in Nat

NoToken == <<>>
Unmapped == -1

IsPrompt(s) == s.kind = "prompt"

Positions(s) == s.offset .. s.offset + s.tokens - 1

\* Where the K/V row of a position lies, by a block table.
PhysicalRow(table, position) ==
  table[position \div RowsPerBlock + 1] * RowsPerBlock + (position % RowsPerBlock)

\* The rows of the first 0, 1, ... sequences.
RowsUpTo(sequences) == Sums([k \in DOMAIN sequences |-> sequences[k].tokens])

TotalTokens(sequences) == RowsUpTo(sequences)[Len(sequences)]

-----------------------------------------------------------------------------
(* build_packed_mixed_metadata.                                            *)

ValidSource(s) ==
  /\ s.offset >= 0 /\ s.tokens > 0
  /\ IF IsPrompt(s)
     THEN s.offset >= s.prefix /\ s.offset + s.tokens <= s.prompt /\ s.token = NoToken
     ELSE s.tokens = 1 /\ s.offset >= s.prompt /\ s.token # NoToken
  /\ \A p \in Positions(s) :
       /\ p \div RowsPerBlock < Len(s.table)
       /\ s.table[p \div RowsPerBlock + 1] >= 0

WidestTable(sources) == Max({Len(s.table) : s \in Range(sources)})

Packable(sources) ==
  /\ sources # <<>>
  /\ \A j, k \in DOMAIN sources : sources[j].req = sources[k].req => j = k
  /\ \A s \in Range(sources) : ValidSource(s)
  /\ TotalTokens(sources) <= MaxPackedTokens
  /\ WidestTable(sources) > 0
  /\ TotalTokens(sources) * WidestTable(sources) <= MaxTableEntries

Prompts(sources) == Only(sources, {s \in Range(sources) : IsPrompt(s)})

Decodes(sources) == Only(sources, {s \in Range(sources) : ~IsPrompt(s)})

\* The sequences that ask for a token, by their place in the batch.
Asking(sequences) ==
  Only([k \in DOMAIN sequences |-> k], {k \in DOMAIN sequences : sequences[k].logits})

\* A row of the expanded block table.
Padded(table, width) ==
  [b \in 1 .. width |-> IF b <= Len(table) THEN table[b] ELSE Unmapped]

RowsOf(sequences, k, width) ==
  LET s == sequences[k]
  IN  [j \in 1 .. s.tokens |->
         [sequence |-> k,
          position |-> s.offset + j - 1,
          kv_len   |-> s.offset + j,
          table    |-> Padded(s.table, width)]]

\* The two passes of append_kind; the last row of a sequence that asks for a
\* token is selected.
Pack(sources) ==
  LET sequences == Prompts(sources) \o Decodes(sources)
      width     == WidestTable(sources)
      asking    == Asking(sequences)
  IN  [sequences |-> sequences,
       prefill   |-> TotalTokens(Prompts(sources)),
       rows      |-> FlattenSeq([k \in DOMAIN sequences |-> RowsOf(sequences, k, width)]),
       width     |-> width,
       selected  |-> [n \in DOMAIN asking |-> RowsUpTo(sequences)[asking[n]]]]

-----------------------------------------------------------------------------
(* gpu_mixed_step_paged: the embeddings of prompt rows are copied from the *)
(* requests' slots, decode rows are looked up by token.                    *)

\* Faulty variant: the offset of a slice is that of the prompt, not of what
\* the slot holds, which begins after the cached prefix.
SliceFromPrompt(batch, k) ==
  LET s == batch.sequences[k]
  IN  [req |-> s.req, source |-> s.offset, tokens |-> s.tokens,
       stored |-> s.prompt - s.prefix,
       destination |-> RowsUpTo(batch.sequences)[k - 1]]

\* PackedPromptSlice of the k-th sequence; `stored`: tokens in its slot.
Slice(batch, k) ==
  LET s == batch.sequences[k]
  IN  [req |-> s.req, source |-> s.offset - s.prefix, tokens |-> s.tokens,
       stored |-> s.prompt - s.prefix,
       destination |-> RowsUpTo(batch.sequences)[k - 1]]

Slices(batch) ==
  {Slice(batch, k) : k \in {j \in DOMAIN batch.sequences : IsPrompt(batch.sequences[j])}}

DecodeTokens(batch) ==
  [k \in DOMAIN Decodes(batch.sequences) |-> Decodes(batch.sequences)[k].token]

\* What the step reports: a request with each selected row.
Outputs(batch) ==
  LET asking == Asking(batch.sequences)
  IN  [n \in DOMAIN asking |->
         [req |-> batch.sequences[asking[n]].req, row |-> batch.selected[n]]]

\* GPUMixedRunner::validate_inputs: slices lie inside their slots and tile
\* the staging tensor.
MayStage(batch) ==
  /\ \A s \in Slices(batch) :
       /\ s.source >= 0 /\ s.source + s.tokens <= s.stored
       /\ s.destination + s.tokens <= batch.prefill
  /\ \A i \in 0 .. batch.prefill - 1 :
       \E s \in Slices(batch) :
         /\ i \in s.destination .. s.destination + s.tokens - 1
         /\ \A t \in Slices(batch) \ {s} :
              i \notin t.destination .. t.destination + t.tokens - 1

\* What row i is computed from: an embedding of a slot, or a token.
InputOf(batch, i) ==
  IF i <= batch.prefill
  THEN LET s == CHOOSE s \in Slices(batch) :
                  i - 1 \in s.destination .. s.destination + s.tokens - 1
       IN  <<s.req, "embedding", s.source + i - 1 - s.destination>>
  ELSE DecodeTokens(batch)[i - batch.prefill]

\* The masks and past rows the graph takes as inputs: one for each prompt, but
\* none in a build without flash attention.
MaskInputs(batch, flash) ==
  IF flash THEN {k \in DOMAIN batch.sequences : IsPrompt(batch.sequences[k])} ELSE {}

\* execute_paged runs the graph only if it takes an input for each prompt.
TakesLayouts(batch, flash) ==
  \A k \in DOMAIN batch.sequences :
    IsPrompt(batch.sequences[k]) => k \in MaskInputs(batch, flash)

\* validate_packed_mixed_execution, and the layouts execute_paged makes.
MayExecute(batch, flash) ==
  /\ Len(batch.rows) = batch.prefill + Len(DecodeTokens(batch))
  /\ IsInjective(batch.selected)
  /\ Len(batch.selected) = Len(Outputs(batch))
  /\ \A j, k \in DOMAIN batch.sequences :
       j < k /\ IsPrompt(batch.sequences[k]) => IsPrompt(batch.sequences[j])
  /\ \A i \in DOMAIN batch.rows :
       LET r == batch.rows[i]
       IN  /\ r.kv_len = r.position + 1
           /\ \A p \in 0 .. r.position :
                /\ p \div RowsPerBlock < batch.width
                /\ r.table[p \div RowsPerBlock + 1] >= 0
                /\ (r.table[p \div RowsPerBlock + 1] + 1) * RowsPerBlock <= PhysicalRows
  /\ TakesLayouts(batch, flash)

-----------------------------------------------------------------------------
(* The mixed graph: gpu_gqa_forward_paged_packed.                          *)

PackedWrite(batch, i) == PhysicalRow(batch.rows[i].table, batch.rows[i].position)

\* The rows of earlier steps a prompt chunk gathers (prefill_past_rows).
PastRows(s) == {PhysicalRow(s.table, p) : p \in 0 .. s.offset - 1}

\* Faulty variant: the mask lets a token of a chunk see the later ones.
ReadsWholeChunk(batch, i) ==
  PastRows(batch.sequences[batch.rows[i].sequence])
    \cup {PackedWrite(batch, j) : j \in {j \in DOMAIN batch.rows :
                                           batch.rows[j].sequence = batch.rows[i].sequence}}

\* The paged attention kernel: kv_len rows along the table.
KernelReads(table, kvLen) == {PhysicalRow(table, p) : p \in 0 .. kvLen - 1}

\* Prompt rows: the past, and the chunk under its mask.
MaskedReads(batch, i) ==
  PastRows(batch.sequences[batch.rows[i].sequence])
    \cup {PackedWrite(batch, j) : j \in {j \in 1 .. i :
                                           batch.rows[j].sequence = batch.rows[i].sequence}}

PackedReads(batch, i) ==
  IF i <= batch.prefill
  THEN MaskedReads(batch, i)
  ELSE KernelReads(batch.rows[i].table, batch.rows[i].kv_len)

-----------------------------------------------------------------------------
(* The continuous engine's graphs: gpu_gqa_forward_paged for prefill, one  *)
(* request at a time, gpu_gqa_forward_paged_batch_decode for all decoders, *)
(* and gpu_gqa_forward_slot for both when every request has its own slot.  *)

\* make_gpu_prompt_chunk_range.
ChunkRange(s, requested) ==
  LET count == Min({requested, s.prompt - s.offset})
  IN  [local |-> s.offset - s.prefix, tokens |-> count,
       logits |-> s.offset + count = s.prompt]

\* What forward_paged_impl and the batched decode ask of a block table.
Backs(table, end) ==
  /\ table # <<>>
  /\ Len(table) * RowsPerBlock >= end
  /\ \A b \in Range(table) : b >= 0 /\ (b + 1) * RowsPerBlock <= PhysicalRows

\* add_segment_copies and the gathering loop copy runs of rows, one for each
\* block; the run of a block begins at its first position that is copied.
SegmentRow(table, first, position) ==
  LET begin == Max({first, position - (position % RowsPerBlock)})
  IN  PhysicalRow(table, begin) + position - begin

ForwardWrite(s, position) == SegmentRow(s.table, s.offset, position)

\* A chunk of one token takes the kernel instead of the gathered rows, where
\* the mask hides what comes after n_past + q_pos.
ForwardReads(s, position) ==
  IF s.tokens = 1
  THEN KernelReads(s.table, s.offset + 1)
  ELSE LET gathered == [p \in 0 .. s.offset + s.tokens - 1 |-> SegmentRow(s.table, 0, p)]
           query    == position - s.offset
       IN  {gathered[p] : p \in {p \in DOMAIN gathered : p <= s.offset + query}}

\* Tables of a batch are padded with 0, not with Unmapped.
BatchTable(decoders, k) ==
  [b \in 1 .. WidestTable(decoders) |->
     IF b <= Len(decoders[k].table) THEN decoders[k].table[b] ELSE 0]

BatchReads(decoders, k) == KernelReads(BatchTable(decoders, k), decoders[k].offset + 1)

BatchWrite(decoders, k) == PhysicalRow(BatchTable(decoders, k), decoders[k].offset)

-----------------------------------------------------------------------------
(* Layers.  With blocks every layer has all rows of the pool; with slots   *)
(* every slot has all layers.                                              *)

LayerRow(layer, row) == layer * PhysicalRows + row

SlotOf(slot) == Max({0, Min({slot, Slots - 1})})

SlotRow(slot, layer, position) ==
  SlotOf(slot) * Layers * ContextRows + layer * ContextRows + position

\* The rows query `position` of a chunk sees of its slot.
SlotReads(s, slot, layer, position) ==
  LET query == position - s.offset
  IN  {SlotRow(slot, layer, 0) + r : r \in {r \in 0 .. s.offset + s.tokens - 1 :
                                              r <= s.offset + query}}

\* copy_paged_kv_block_rows: pairs of a row and the row it is copied to.
MayCopyRows(source, destination, valid) ==
  /\ source >= 0 /\ destination >= 0 /\ source # destination
  /\ valid > 0 /\ valid < RowsPerBlock
  /\ source < PhysicalRows \div RowsPerBlock
  /\ destination < PhysicalRows \div RowsPerBlock

CopiedRows(source, destination, valid) ==
  {<<LayerRow(layer, source * RowsPerBlock + i),
     LayerRow(layer, destination * RowsPerBlock + i)>> :
       layer \in 0 .. Layers - 1, i \in 0 .. valid - 1}

=============================================================================
