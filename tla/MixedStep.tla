----------------------------- MODULE MixedStep ------------------------------
(***************************************************************************)
(* The plans of the scheduler carried out: whatever the engine's           *)
(* reservation makes of a plan is packed into one step of MixedBatch.      *)
(* Where the blocks of the pool lie does not matter, as long as each has   *)
(* one owner (KVOwnership) and one place in its owner's table.             *)
(***************************************************************************)
EXTENDS UnifiedScheduler, MixedBatch

CONSTANT
  BlockOf  \* the block that is n-th in the table of an owner, 0 the prefix

\* The longest table.
TableBlocks == (MaxPrompt + MaxTokens) \div RowsPerBlock + 1

\* Every plan is within the limits of a packed batch, and every table within
\* the cache.
ASSUME StepAssumption ==
  /\ MaxScheduledTokens <= MaxPackedTokens
  /\ MaxScheduledTokens * TableBlocks <= MaxTableEntries
  /\ MaxSeqs <= Slots
  /\ MaxPrompt + MaxTokens <= ContextRows
  /\ BlockOf \in [(0 .. NumRequests) \X (1 .. TableBlocks) -> Nat]
  /\ \A x, y \in DOMAIN BlockOf : BlockOf[x] = BlockOf[y] => x = y
  /\ \A x \in DOMAIN BlockOf : (BlockOf[x] + 1) * RowsPerBlock <= PhysicalRows

\* What the reservation may leave of a plan: chunks cut short, sequences
\* put off, and at least one sequence.
Runs ==
  LET Cut(n) ==
        [k \in DOMAIN plan |->
           [plan[k] EXCEPT !.tokens = n[k],
                           !.logits = \/ plan[k].kind = "decode"
                                      \/ plan[k].offset + n[k] = reqs[plan[k].req].prompt]]
      Lengths == {n \in [DOMAIN plan -> 0 .. MaxPrefillChunk] :
                    \A k \in DOMAIN plan : n[k] <= plan[k].tokens}
  IN  {Only(Cut(n), {s \in Range(Cut(n)) : s.tokens > 0}) : n \in Lengths} \ {<<>>}

\* Request i's blocks when `prefix` tokens are shared: full blocks of the
\* prefix are the same for all, the others its own.
Table(i, prefix, tokens) ==
  [b \in 1 .. (tokens + RowsPerBlock - 1) \div RowsPerBlock |->
     BlockOf[<<IF b <= prefix \div RowsPerBlock THEN 0 ELSE i, b>>]]

\* The inputs of the step (GPUMixedStepInput).
Source(s, prefix) ==
  [req |-> s.req, kind |-> s.kind, offset |-> s.offset, tokens |-> s.tokens,
   logits |-> s.logits,
   prompt |-> reqs[s.req].prompt,
   prefix |-> prefix,
   token  |-> LET index == s.offset - reqs[s.req].prompt
              IN  IF s.kind = "decode" /\ index \in 0 .. reqs[s.req].outputs - 1
                  THEN <<s.req, "output", index>>
                  ELSE NoToken,
   table  |-> Table(s.req, prefix, s.offset + s.tokens)]

Sources(run, prefix) == [k \in DOMAIN run |-> Source(run[k], prefix)]

\* Prefixes that all requests of a run may have in common.
SharedPrefixes(run) ==
  {p \in 0 .. MaxPrompt : \A k \in DOMAIN run :
     p <= reqs[run[k].req].computed /\ p <= reqs[run[k].req].prompt}

-----------------------------------------------------------------------------
(* Properties.                                                             *)

(* The step computes the plan.  With flash attention it is never refused,  *)
(* without it just when it has a prompt row.  Every planned position has   *)
(* one row; a prompt row is computed from its own request's embedding of   *)
(* that position, a decode row from the request's last output; and the     *)
(* token sampled at the end of a sequence is reported for its request.     *)
StepComputesPlan ==
  Fresh => \A run \in Runs : \A prefix \in SharedPrefixes(run) :
    LET sources == Sources(run, prefix)
        batch   == Pack(sources)
        Req(i)  == batch.sequences[batch.rows[i].sequence].req
        At(i)   == <<Req(i), batch.rows[i].position>>
    IN  /\ Packable(sources) /\ MayStage(batch)
        /\ \A flash \in BOOLEAN :
             MayExecute(batch, flash) <=> flash \/ \A s \in Range(run) : ~IsPrompt(s)
        /\ {At(i) : i \in DOMAIN batch.rows}
             = UNION {{<<s.req, p>> : p \in Positions(s)} : s \in Range(run)}
        /\ Len(batch.rows) = TotalTokens(run)
        /\ \A i \in DOMAIN batch.rows :
             LET prompt == reqs[Req(i)].prompt
             IN  InputOf(batch, i) =
                   IF At(i)[2] < prompt
                   THEN <<Req(i), "embedding", At(i)[2] - prefix>>
                   ELSE <<Req(i), "output", reqs[Req(i)].outputs - 1>>
        /\ {<<o.req, At(o.row)>> : o \in Range(Outputs(batch))}
             = {<<s.req, <<s.req, s.offset + s.tokens - 1>>>> :
                  s \in {t \in Range(run) : t.logits}}

\* The rows of sequence k, when every request of the run has its own slot.
SlotRowsOf(run, k, layer) ==
  {SlotRow(k - 1, layer, p) : p \in 0 .. run[k].offset + run[k].tokens - 1}

\* The rows of positions 0 to p, by the request's own table.
RowsOfPrefix(s, prefix, p) ==
  {PhysicalRow(Table(s.req, prefix, s.offset + s.tokens), q) : q \in 0 .. p}

\* Each token's row has one place, whichever graph writes it, and the rows
\* read for it are those before it and its own, whichever graph reads them.
TokensAgree(sources, prefix) ==
  LET batch    == Pack(sources)
      decoders == Decodes(sources)
      Written  == [i \in DOMAIN batch.rows |-> PackedWrite(batch, i)]
  IN  /\ IsInjective(Written)
      /\ \A i \in DOMAIN batch.rows :
           LET s    == batch.sequences[batch.rows[i].sequence]
               p    == batch.rows[i].position
               rows == RowsOfPrefix(s, prefix, p)
           IN  /\ PackedReads(batch, i) = rows
               /\ Backs(s.table, p + 1)
               /\ PastRows(s) \cap Range(Written) = {}
               /\ IF IsPrompt(s)
                  THEN /\ ForwardWrite(s, p) = Written[i]
                       /\ ForwardReads(s, p) = rows
                       /\ ChunkRange(s, s.tokens)
                            = [local |-> Slice(batch, batch.rows[i].sequence).source,
                               tokens |-> s.tokens, logits |-> s.logits]
                  ELSE \E k \in DOMAIN decoders :
                         /\ decoders[k] = s
                         /\ BatchWrite(decoders, k) = Written[i]
                         /\ BatchReads(decoders, k) = rows

\* With every request of the run in a slot of its own: the same rows of it,
\* and none of another slot or layer.
SlotsAgree(run) ==
  \A k \in DOMAIN run : \A layer \in 0 .. Layers - 1 :
    /\ \A p \in Positions(run[k]) :
         SlotReads(run[k], k - 1, layer, p) = {SlotRow(k - 1, layer, q) : q \in 0 .. p}
    /\ \A other \in 0 .. Layers - 1 : \A j \in DOMAIN run :
         <<j, other>> # <<k, layer>> =>
           SlotRowsOf(run, k, layer) \cap SlotRowsOf(run, j, other) = {}

\* A private copy of a shared block that is not full may be made, and holds
\* the rows of the shared positions where s reads them.
CopyAgrees(s, prefix) ==
  LET b       == prefix \div RowsPerBlock + 1
      source  == BlockOf[<<0, b>>]
      valid   == prefix % RowsPerBlock
      shared  == {prefix - i : i \in 1 .. valid}
      From(q) == source * RowsPerBlock + (q % RowsPerBlock)
  IN  /\ MayCopyRows(source, s.table[b], valid)
      /\ CopiedRows(source, s.table[b], valid)
           = {<<LayerRow(layer, From(q)), LayerRow(layer, PhysicalRow(s.table, q))>> :
                layer \in 0 .. Layers - 1, q \in shared}

(* Whichever graph computes a token - the mixed one, in the builds that do *)
(* not refuse it, the prefill of its request alone, the batch of decoders  *)
(* - its K/V row goes to the same place, where no other token of the step    *)
(* writes, and its attention reads the rows of the positions before it and *)
(* its own, none of them still to be written by another request.  Layers   *)
(* and slots share no row, and a private copy of a shared block that is    *)
(* not full holds exactly the rows read of it.                             *)
GraphsAgreeOnRows ==
  Fresh => \A run \in Runs : \A prefix \in SharedPrefixes(run) :
    LET sources == Sources(run, prefix)
    IN  /\ TokensAgree(sources, prefix)
        /\ SlotsAgree(run)
        /\ prefix % RowsPerBlock > 0 => \A s \in Range(sources) : CopyAgrees(s, prefix)

=============================================================================
