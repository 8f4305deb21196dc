--------------------------- MODULE UnifiedEngine ---------------------------
(***************************************************************************)
(* OfflineBatchTranscriber::transcribe_unified_gpu                         *)
(* (pipeline/offline_batching.cpp): the engine that turns the chunks of a  *)
(* recording into results.  The main thread admits chunks through the      *)
(* frontend, plans a round with the unified scheduler, finds KV blocks for *)
(* the planned rows, runs the GPU step and commits it; the frontend of the *)
(* next chunks may run in a std::async thread meanwhile.                   *)
(*                                                                         *)
(* Chunks are numbered in frontend order (frontend_order), and a chunk is  *)
(* its prompt length; 0 stands for a chunk without audio.  Tokens have no  *)
(* value.  Which block a request holds is left to KVOwnership; here blocks *)
(* are counted: a request shares the full blocks of the task prefix and    *)
(* owns the rest of its table.  The engine starts with the prefix cache    *)
(* built; the errors before that return at once with nothing held.         *)
(* MaxSeqs, MaxScheduledTokens, MaxPrefillChunk and MaxTokens are those of *)
(* UnifiedPlan.                                                            *)
(***************************************************************************)
EXTENDS UnifiedPlan, FiniteSets, Functions, Lists

CONSTANTS
  Prompt,              \* prompt tokens of each chunk, in frontend order
  BatchSize,           \* batch_size: requests active at a time
  MaxFrontend,         \* max_frontend_requests_per_step
  CtxSize,             \* ctx_size
  PrefixTokens,        \* tokens of the cached prefix, 0 without the cache
  BlockSize,           \* kv_block_size
  NumBlocks,           \* blocks of the pool
  LoopWindow,          \* outputs needed before a repetition loop is seen
  Frontends,           \* the modes of the frontend that are considered
  CopyMayFail          \* whether copy_paged_kv_block_rows may fail

Chunks == DOMAIN Prompt

ASSUME PromptAssumption ==
  /\ Prompt \in Seq(Nat)
  /\ \A c \in Chunks : Prompt[c] = 0 \/ Prompt[c] > PrefixTokens

ASSUME LimitsAssumption ==
  /\ {BatchSize, MaxFrontend, BlockSize, LoopWindow} \subseteq Nat \ {0}
  /\ {CtxSize, PrefixTokens, NumBlocks} \subseteq Nat
  /\ Frontends \subseteq {"sync", "fbank", "gpu"}
  /\ CopyMayFail \in BOOLEAN

\* scheduler_config.max_num_seqs
ASSUME SequencesAssumption == MaxSeqs = SmallerOf(BatchSize, MaxScheduledTokens)

\* paged_blocks_for_tokens
BlocksFor(tokens) == (tokens + BlockSize - 1) \div BlockSize

ASSUME PrefixAssumption == BlocksFor(PrefixTokens) <= NumBlocks

\* Prefix blocks every request shares, and rows of the one it must copy.
FullPrefixBlocks == PrefixTokens \div BlockSize
PartialRows == PrefixTokens % BlockSize

\* Faulty variant: no slots for the chunks in the frontend.
SlotsForBatch == BatchSize

\* reserve_prompt_embedding_slots
SlotCapacity == BatchSize + MaxFrontend

VARIABLES
  mode,     \* enable_frontend_prefetch and enable_gpu_frontend_overlap:
            \* "sync" no thread, "fbank" a thread for the filter banks,
            \* "gpu" one that prepares prompts; fixed for the call
  pc,       \* where the main thread is
  next,     \* next_request, counted from 1
  job,      \* frontend_job
  queue,    \* prepared_queue
  active,   \* active
  free,     \* paged_pool.free_count()
  slots,    \* chunks that hold a prompt embedding slot
  step,     \* the round: plan left to reserve, executable, appended
  advanced, \* made_progress > 0 in this fill_active
  entered,  \* activated > 0 in this activate_prepared
  answers   \* results, by chunk

vars ==
  <<mode, pc, next, job, queue, active, free, slots, step, advanced, entered, answers>>

mainVars == <<mode, next, queue, active, free, step, advanced, entered, answers>>

NoStep == [plan |-> <<>>, run |-> <<>>, appended |-> <<>>]

NoJob == [kind |-> "none", cands |-> <<>>, ready |-> FALSE, made |-> FALSE, got |-> {}]

Init ==
  /\ mode \in Frontends
  /\ pc = IF Prompt = <<>> THEN "drain" ELSE "reap"
  /\ next = 1
  /\ job = NoJob
  /\ queue = <<>>
  /\ active = <<>>
  /\ free = NumBlocks - BlocksFor(PrefixTokens)
  /\ slots = {}
  /\ step = NoStep
  /\ advanced = FALSE
  /\ entered = FALSE
  /\ answers = [c \in Chunks |-> <<>>]

-----------------------------------------------------------------------------
(* Helpers.                                                                *)

AllLaunched == next > Len(Prompt)

\* The loop condition of the engine.
WorkLeft == active # <<>> \/ queue # <<>> \/ job # NoJob \/ ~AllLaunched

\* Faulty variant: the copy of the last prefix block counts as the prefix's.
OwnWithoutCopy(r) == {<<r.id, n>> : n \in BlocksFor(PrefixTokens) + 1 .. r.blocks}

\* Blocks of the table of r that go back to the pool when r releases it, by
\* their place in the table.
OwnBlocks(r) == {<<r.id, n>> : n \in FullPrefixBlocks + 1 .. r.blocks}

BlocksOf(S) == UNION {OwnBlocks(r) : r \in S}

\* emit_finished, with the outcome of every chunk of a domain.
Emit(outcome) ==
  answers' = [c \in Chunks |-> IF c \in DOMAIN outcome
                               THEN Append(answers[c], outcome[c])
                               ELSE answers[c]]

Failed(S) == [c \in S |-> "Failed"]

FreeSlots == SlotCapacity - Cardinality(slots)

-----------------------------------------------------------------------------
(* The top of the loop.  Its condition holds whenever it is reached, since *)
(* Filled leaves the loop when nothing is left.  Finished and failed       *)
(* requests are emitted, their blocks and slots given back.                *)

Over(r) == r.phase # "run"

Reap ==
  LET over       == {r \in Range(active) : Over(r)}
      ids        == {r.id : r \in over}
      PhaseOf(c) == (CHOOSE r \in over : r.id = c).phase
  IN  /\ pc = "reap"
      /\ active' = Only(active, Range(active) \ over)
      /\ free' = free + Cardinality(BlocksOf(over))
      /\ slots' = slots \ ids
      /\ Emit([c \in ids |-> PhaseOf(c)])
      /\ advanced' = FALSE
      /\ pc' = "fill"
      /\ UNCHANGED <<mode, next, job, queue, step, entered>>

-----------------------------------------------------------------------------
(* launch_frontend_job, and the frontend thread.                           *)

\* Faulty variant: nobody counts the slots.
JobUncounted(cands) ==
  IF cands = <<>> THEN NoJob ELSE [NoJob EXCEPT !.kind = mode, !.cands = cands]

\* The job for the next chunks that have audio.
JobFor(cands) ==
  IF cands = <<>>
  THEN NoJob
  ELSE [NoJob EXCEPT
          !.kind  = IF mode = "gpu" /\ FreeSlots < Len(cands) THEN "fbank" ELSE mode,
          !.cands = cands]

InOrder == [c \in Chunks |-> c]

\* Up to MaxFrontend chunks are taken; those without audio fail at once.
Launch ==
  LET last  == SmallerOf(next + MaxFrontend - 1, Len(Prompt))
      taken == next .. last
  IN  /\ next' = last + 1
      /\ job' = JobFor(Only(InOrder, {c \in taken : Prompt[c] > 0}))
      /\ Emit(Failed({c \in taken : Prompt[c] = 0}))
      /\ advanced' = TRUE

\* The thread is done: it has filter banks, and for a "gpu" job prepared
\* prompts for those of got, each in an embedding slot it acquired.  When
\* its filter banks failed it prepared nothing.
ThreadPrepares ==
  /\ job.kind \in {"fbank", "gpu"}
  /\ ~job.ready
  /\ \E got \in SUBSET Range(job.cands), made \in BOOLEAN :
       /\ made => job.kind = "gpu"
       /\ got # {} => made
       /\ Cardinality(slots) + Cardinality(got) <= SlotCapacity
       /\ job' = [job EXCEPT !.ready = TRUE, !.made = made, !.got = got]
       /\ slots' = slots \cup got
  /\ UNCHANGED <<pc, mainVars>>

-----------------------------------------------------------------------------
(* fill_active.                                                            *)

FillStep ==
  /\ pc = "fill"
  /\ \/ /\ Len(active) < BatchSize
        /\ queue # <<>>
        /\ pc' = "activate"
        /\ entered' = FALSE
        /\ UNCHANGED <<next, job, advanced, answers>>
     \/ /\ Len(active) < BatchSize
        /\ queue = <<>>
        /\ job = NoJob /\ ~AllLaunched
        /\ Launch
        /\ pc' = IF job' = NoJob THEN "prefetch" ELSE "consume"
        /\ UNCHANGED entered
     \/ /\ Len(active) < BatchSize
        /\ queue = <<>>
        /\ job # NoJob
        /\ pc' = "consume"
        /\ UNCHANGED <<next, job, advanced, entered, answers>>
     \/ /\ Len(active) >= BatchSize \/ (queue = <<>> /\ job = NoJob /\ AllLaunched)
        /\ pc' = "prefetch"
        /\ UNCHANGED <<next, job, advanced, entered, answers>>
  /\ UNCHANGED <<mode, queue, active, free, slots, step>>

\* paged_initial_admission_blocks: a prompt always goes beyond the prefix.
InitialBlocks(c) == IF Prompt[c] > PrefixTokens THEN 1 ELSE 0

\* The loop condition of activate_prepared, and room in the pool.
Admissible == queue # <<>> /\ Len(active) < BatchSize /\ free >= InitialBlocks(Head(queue))

\* Faulty variant: the request is copied to active and stays queued.
ActivateByCopy ==
  /\ pc = "activate"
  /\ Admissible
  /\ active' = Append(active, [id |-> Head(queue), computed |-> PrefixTokens,
                               outputs |-> 0, blocks |-> FullPrefixBlocks + 1,
                               phase |-> "run"])
  /\ free' = free - 1
  /\ entered' = TRUE
  /\ UNCHANGED <<mode, pc, next, job, queue, slots, step, advanced, answers>>

\* One turn of the loop of activate_prepared.  The request retains the
\* prefix and takes one block: the copy of the last prefix block if that is
\* partly filled, else the block appended for its first rows.
Activate ==
  /\ pc = "activate"
  /\ Admissible
  /\ active' = Append(active, [id |-> Head(queue), computed |-> PrefixTokens,
                               outputs |-> 0, blocks |-> FullPrefixBlocks + 1,
                               phase |-> "run"])
  /\ queue' = Tail(queue)
  /\ free' = free - 1
  /\ entered' = TRUE
  /\ UNCHANGED <<mode, pc, next, job, slots, step, advanced, answers>>

\* copy_paged_kv_block_rows failed: everything is given back, the chunk
\* fails, the loop goes on.
CopyFails ==
  /\ CopyMayFail /\ PartialRows > 0
  /\ pc = "activate"
  /\ Admissible
  /\ queue' = Tail(queue)
  /\ slots' = slots \ {Head(queue)}
  /\ Emit(Failed({Head(queue)}))
  /\ UNCHANGED <<mode, pc, next, job, active, free, step, advanced, entered>>

\* The loop ends: fill_active goes on only if something was activated.
ActivateEnds ==
  /\ pc = "activate"
  /\ ~Admissible
  /\ pc' = IF entered THEN "fill" ELSE "prefetch"
  /\ advanced' = (advanced \/ entered)
  /\ UNCHANGED <<mode, next, job, queue, active, free, slots, step, entered, answers>>

\* consume_frontend_job comes back without result: no slots for prompts the
\* main thread would have to prepare, or a thread not worth waiting for.
NotYet ==
  \/ job.kind # "gpu" /\ FreeSlots < Len(job.cands)
  \/ job.kind # "sync" /\ ~job.ready /\ active # <<>>

ConsumeNothing ==
  /\ pc = "consume"
  /\ NotYet
  /\ pc' = "prefetch"
  /\ UNCHANGED <<mode, next, job, queue, active, free, slots, step, advanced,
                 entered, answers>>

\* The job is collected.  Unless the thread prepared the prompts, that is
\* done now; ok are those for which it worked.  A prompt longer than the
\* context fails here.
Consume ==
  /\ pc = "consume"
  /\ ~NotYet
  /\ job.kind # "sync" => job.ready
  /\ \E ok \in SUBSET Range(job.cands) :
       LET fits == {c \in ok : Prompt[c] <= CtxSize}
       IN  /\ job.made => ok = job.got
           /\ Cardinality(slots \cup ok) <= SlotCapacity
           /\ slots' = (slots \cup ok) \ (ok \ fits)
           /\ queue' = queue \o Only(job.cands, fits)
           /\ Emit(Failed(Range(job.cands) \ fits))
  /\ job' = NoJob
  /\ advanced' = TRUE
  /\ pc' = "fill"
  /\ UNCHANGED <<mode, next, active, free, step, entered>>

\* The end of fill_active, and what the main loop makes of its result.
PrefetchNext ==
  /\ pc = "prefetch"
  /\ IF job = NoJob /\ ~AllLaunched
     THEN Launch
     ELSE UNCHANGED <<next, job, advanced, answers>>
  /\ pc' = "filled"
  /\ UNCHANGED <<mode, queue, active, free, slots, step, entered>>

Filled ==
  /\ pc = "filled"
  /\ pc' = CASE active # <<>>          -> "plan"
             [] active = <<>> /\ ~WorkLeft -> "drain"
             [] active = <<>> /\ WorkLeft  -> IF advanced THEN "reap" ELSE "drain"
  /\ UNCHANGED <<mode, next, job, queue, active, free, slots, step, advanced,
                 entered, answers>>

-----------------------------------------------------------------------------
(* A round: plan it and find KV blocks for the planned rows.               *)

\* What the scheduler sees of an active request.
ProgressOf(r) ==
  [prompt   |-> Prompt[r.id],
   computed |-> r.computed,
   outputs  |-> r.outputs,
   room     |-> LargerOf(0, CtxSize - r.computed),
   runnable |-> TRUE,
   finished |-> r.phase = "Finished"]

Snapshot == [i \in DOMAIN active |-> ProgressOf(active[i])]

\* Faulty variant: a chunk that found too few blocks stays as it was planned.
RunWhole(s, have) == s.tokens

\* The tokens of s that `have` blocks can take: a prompt chunk is cut to
\* the rows there are, a decode step is put off.
RunnableTokens(s, have) ==
  LET tokens == SmallerOf(s.tokens, CtxSize - s.offset)
      backed == have * BlockSize
  IN  IF s.offset + tokens <= backed
      THEN tokens
      ELSE IF s.kind = "decode" THEN 0 ELSE LargerOf(0, backed - s.offset)

\* The round is planned; nothing of it has blocks yet.
PlanRound ==
  /\ pc = "plan"
  /\ step' = [plan     |-> BuildPlan(Snapshot),
              run      |-> <<>>,
              appended |-> [i \in DOMAIN active |-> 0]]
  /\ pc' = "reserve"
  /\ UNCHANGED <<mode, next, job, queue, active, free, slots, advanced, entered,
                 answers>>

\* Faulty variant: a shortened chunk keeps its claim to logits.
CutTokens(s, n) == [s EXCEPT !.tokens = n]

\* Sequence s with n tokens: does it still end its prompt?
Cut(s, n) ==
  [s EXCEPT !.tokens = n,
            !.logits = s.kind = "decode" \/ s.offset + n = Prompt[active[s.req].id]]

\* append_block for the next sequence of the plan until its rows are backed
\* or the pool is empty.  build_plan plans nothing for a request at the
\* context limit, so the branch that would finish such a request is never
\* taken.
ReserveSequence ==
  LET s      == Head(step.plan)
      held   == active[s.req].blocks
      needed == BlocksFor(s.offset + SmallerOf(s.tokens, CtxSize - s.offset))
      taken  == SmallerOf(LargerOf(0, needed - held), free)
      n      == RunnableTokens(s, held + taken)
  IN  /\ pc = "reserve"
      /\ step.plan # <<>>
      /\ active' = [active EXCEPT ![s.req].blocks = @ + taken]
      /\ free' = free - taken
      /\ step' = [plan     |-> Tail(step.plan),
                  run      |-> IF n > 0 THEN Append(step.run, Cut(s, n)) ELSE step.run,
                  appended |-> [step.appended EXCEPT ![s.req] = @ + taken]]
      /\ UNCHANGED <<mode, pc, next, job, queue, slots, advanced, entered, answers>>

Dispatch ==
  /\ pc = "reserve"
  /\ step.plan = <<>>
  /\ step.run # <<>>
  /\ pc' = "execute"
  /\ UNCHANGED <<mode, next, job, queue, active, free, slots, step, advanced,
                 entered, answers>>

\* rollback_appended, and the requests of `failed` fail.
RollBack(failed) ==
  /\ active' = [i \in DOMAIN active |->
                  [active[i] EXCEPT !.blocks = @ - step.appended[i],
                                    !.phase  = IF i \in failed THEN "Failed" ELSE @]]
  /\ free' = free + Cardinality(BlocksOf(Range(active)) \ BlocksOf(Range(active')))
  /\ step' = NoStep

\* Faulty variant: the round is tried again as it was.
RetryRound ==
  /\ pc = "reserve"
  /\ step.plan = <<>>
  /\ step.run = <<>>
  /\ RollBack({})
  /\ pc' = "reap"
  /\ UNCHANGED <<mode, next, job, queue, slots, advanced, entered, answers>>

\* No sequence can run: the first active request fails.
NothingRuns ==
  /\ pc = "reserve"
  /\ step.plan = <<>>
  /\ step.run = <<>>
  /\ RollBack({1})
  /\ pc' = "reap"
  /\ UNCHANGED <<mode, next, job, queue, slots, advanced, entered, answers>>

-----------------------------------------------------------------------------
(* gpu_mixed_step_paged and the commit.                                    *)

\* What a sampled token may do to a request.  A loop needs LoopWindow
\* outputs (has_repetition_loop_local: 16).
Samples(r) ==
  {"eos", "token"} \cup (IF r.outputs + 1 >= LoopWindow THEN {"loop"} ELSE {})

\* commit_sequence, and commit_sample with the test for loops.
Committed(r, s, token) ==
  LET computed == CommitSequence(ProgressOf(r), s)
      sampled  == IF s.logits THEN CommitSample(computed, token) ELSE computed
      stops    == sampled.finished \/ (s.logits /\ token = "loop")
  IN  [r EXCEPT !.computed = sampled.computed,
                !.outputs  = sampled.outputs,
                !.phase    = IF stops THEN "Finished" ELSE @]

RunOf(i) == {k \in DOMAIN step.run : step.run[k].req = i}

\* Faulty variant: the embeddings go when the last chunk is planned.
PromptNearlyDone(r) == r.computed + MaxPrefillChunk >= Prompt[r.id]

PromptDone(r) == r.computed >= Prompt[r.id]

\* The step worked, with one sample for every row of logits; embeddings of
\* complete prompts are let go.
GpuStep ==
  /\ pc = "execute"
  /\ \E token \in [DOMAIN active -> {"eos", "token", "loop"}] :
       /\ \A i \in DOMAIN active : token[i] \in Samples(active[i])
       /\ \A i \in DOMAIN active :
            (\A k \in RunOf(i) : ~step.run[k].logits) => token[i] = "token"
       /\ active' = [i \in DOMAIN active |->
                       IF RunOf(i) = {}
                       THEN active[i]
                       ELSE Committed(active[i], step.run[CHOOSE k \in RunOf(i) : TRUE], token[i])]
  /\ slots' = slots \ {active[i].id : i \in {j \in DOMAIN active : PromptDone(active'[j])}}
  /\ step' = NoStep
  /\ pc' = "reap"
  /\ UNCHANGED <<mode, next, job, queue, free, advanced, entered, answers>>

\* The step failed, and with it what was to run.
GpuStepFails ==
  /\ pc = "execute"
  /\ RollBack({i \in DOMAIN active : RunOf(i) # {}})
  /\ pc' = "reap"
  /\ UNCHANGED <<mode, next, job, queue, slots, advanced, entered, answers>>

-----------------------------------------------------------------------------
(* After the loop.  The thread of a pending job is waited for, but what it *)
(* prepared is not taken: its candidates have no embeddings to release.    *)

Drain ==
  /\ pc = "drain"
  /\ job.kind \in {"fbank", "gpu"} => job.ready
  /\ Emit(Failed(Range(job.cands) \cup Range(queue)))
  /\ slots' = slots \ Range(queue)
  /\ job' = NoJob
  /\ queue' = <<>>
  /\ free' = free + BlocksFor(PrefixTokens)
  /\ pc' = "done"
  /\ UNCHANGED <<mode, next, active, step, advanced, entered>>

Returned == pc = "done" /\ UNCHANGED vars

-----------------------------------------------------------------------------
Main ==
  \/ Reap
  \/ FillStep \/ Activate \/ CopyFails \/ ActivateEnds
  \/ ConsumeNothing \/ Consume \/ PrefetchNext \/ Filled
  \/ PlanRound \/ ReserveSequence \/ Dispatch \/ NothingRuns
  \/ GpuStep \/ GpuStepFails
  \/ Drain

Next == Main \/ ThreadPrepares \/ Returned

\* The main thread runs until it returns; the frontend thread is a loop over
\* finitely much audio that waits for nobody.
Spec == Init /\ [][Next]_vars /\ WF_vars(Main) /\ WF_vars(ThreadPrepares)

-----------------------------------------------------------------------------
(* Properties.                                                             *)

(* A chunk is in one place at a time: not launched, a candidate of the     *)
(* frontend job, prepared, active, or answered, and answered once.  The    *)
(* places are five containers and the code moves requests between them by  *)
(* std::move, pop_front and erase.                                         *)
EachChunkInOnePlace ==
  \A c \in Chunks :
    /\ (IF c >= next THEN 1 ELSE 0)
       + Cardinality({i \in DOMAIN job.cands : job.cands[i] = c})
       + Cardinality({i \in DOMAIN queue : queue[i] = c})
       + Cardinality({i \in DOMAIN active : active[i].id = c})
       + Len(answers[c]) = 1

(* Blocks are conserved: what is free, what the prefix holds and what the  *)
(* active requests own is the pool, between any two steps of the engine,   *)
(* through cut chunks, put-off decoders, rollbacks and failures.           *)
BlocksConserved ==
  /\ free >= 0
  /\ free + Cardinality(BlocksOf(Range(active)))
       = NumBlocks - (IF pc = "done" THEN 0 ELSE BlocksFor(PrefixTokens))

(* Every row a GPU step writes lies in a block its request has, past the   *)
(* rows of the prefix and inside the context; a request runs at most once  *)
(* in a step.                                                              *)
RowsAreBacked ==
  pc = "execute" =>
    \A k \in DOMAIN step.run :
      LET s == step.run[k]
          r == active[s.req]
      IN  /\ s.tokens > 0
          /\ s.offset >= PrefixTokens
          /\ s.offset + s.tokens <= SmallerOf(r.blocks * BlockSize, CtxSize)
          /\ RunOf(s.req) = {k}

(* What runs can be committed: commit_sequence accepts every sequence as   *)
(* it was cut by the reservation, logits are asked for exactly when        *)
(* commit_sample accepts them, and a decoded position has its token.       *)
StepIsCommittable ==
  pc = "execute" =>
    \A k \in DOMAIN step.run :
      LET s == step.run[k]
          r == ProgressOf(active[s.req])
      IN  /\ AcceptsSequence(r, s)
          /\ s.logits <=> AcceptsSample(CommitSequence(r, s))
          /\ s.kind = "decode" => s.offset - r.prompt \in 0 .. r.outputs - 1

(* A request keeps its embedding slot from the frontend until the step     *)
(* that completes its prompt, and not longer; the prompt rows of a step    *)
(* are read from a slot that is held.                                      *)
EmbeddingsOutlivePrompt ==
  pc # "done" =>
    slots = Range(queue) \cup job.got
            \cup {active[i].id : i \in {j \in DOMAIN active :
                                          Prompt[active[j].id] > active[j].computed}}

(* The frontend finds the slots it claims: those a thread is going to      *)
(* claim for a job are counted when the job is launched, and the main      *)
(* thread, which activates and releases meanwhile, never takes them; and   *)
(* when a job is collected, the reservation of batch_size +                *)
(* max_frontend_requests_per_step has enough for all of it.                *)
FrontendFindsSlots ==
  job.kind = "gpu" \/ pc = "consume" =>
    FreeSlots + Cardinality(job.got) >= Len(job.cands)

(* When the engine returns every block is free and every embedding slot    *)
(* released, however it came to return.                                    *)
EverythingReturned ==
  pc = "done" => free = NumBlocks /\ slots = {}

\* "Failed" or "Finished": what an answer may be.
Service == INSTANCE ChunkAnswers WITH Chunk <- Chunks, Outcome <- {"Finished", "Failed"}

\* The engine ends with work left: nothing is active, nothing was admitted.
GivesUp == pc = "filled" /\ active = <<>> /\ WorkLeft /\ ~advanced

(* The engine implements ChunkAnswers: every chunk gets its one result,    *)
(* and the call returns: no wait for the thread, for slots or for blocks   *)
(* lasts for ever.  Unless it gives up: when the copies of all prepared    *)
(* chunks fail, nothing is active and a job is pending, that counts as no  *)
(* progress, and the chunks that were not launched get no result.          *)
AnswersEveryChunk ==
  /\ Service!AnswersStand
  /\ <>(pc = "done")
  /\ <>GivesUp \/ <>(Service!Unanswered = {})

(* A request that has filled its context stops there, with the tokens it   *)
(* has; it does not fail.                                                  *)
ContextLimitFinishes ==
  \A i \in DOMAIN active :
    active[i].computed >= CtxSize => active[i].phase # "Failed"

(* Every active request that waits for its next token is in the plan of    *)
(* the round, also when more requests are active than the plan has         *)
(* sequences (batch_size above max_num_scheduled_tokens) and build_plan    *)
(* starts from the same request each time: no more requests get past their *)
(* prompt than a plan can hold.                                            *)
EveryDecoderPlanned ==
  pc = "plan" =>
    \A i \in DOMAIN active :
      Ready(Snapshot[i]) /\ PromptComplete(Snapshot[i]) =>
        \E k \in DOMAIN BuildPlan(Snapshot) : BuildPlan(Snapshot)[k].req = i

============================================================================
