# TLA+ models of FunASR-GGML

This directory holds TLA+ models of the parts of FunASR-GGML that decide *who
may do what when*, and of its pure algorithms where a boundary is easy to get
wrong: how a recording is cut into chunks, how chunks share the KV cache and
the steps of the GPU, how audio travels from the microphone to the recognizer,
how text becomes subtitles, and how the web application's jobs and the browser
extension share files. The numerics (filter bank, encoder, adaptor, LLM
kernels) are not modelled; where they can fail, the models let them fail.

Run a model with `tlc -config X.cfg M` and check a proof with `tlapm M.tla`.
`PROJECT.json` lists runs, properties, faulty variants, hazards and, for each
definition, the source lines it stands for.

## The system

A recording is cut into chunks; each chunk is turned into a prompt (task prefix,
audio embeddings, suffix), prefilled into the KV cache and decoded to tokens;
the texts are joined and become subtitles. Live audio is cut as it arrives. A
local web server runs the command line program on downloads, for its own page
and for a sidebar in video pages.

| Component | State it keeps | Operations | What is hard | Correct when |
|---|---|---|---|---|
| `PagedKVBlockPool` (`offline_batching.cpp` 278-447) | free queue, per-block flag and reference count, ownership errors | reset, acquire, release, allocate, append, retain, release_block, replace_block_after_cow | legal calls in an order nobody tried; wrong calls must be refused without harm | queue, flags and counts agree; an allocated block is nobody else's |
| KV ownership (both GPU engines' use of the pool) | block tables of the requests and of the task prefix | share the prefix, copy its partial block, append, roll back, release | partial failure in a sequence of calls; the prefix released while requests run | counts are owners, no write to a shared block, all blocks come back |
| `UnifiedTokenScheduler` (`unified_scheduler.cpp`) | none; requests carry their progress | build_plan, commit_sequence, commit_sample | decode priority, budget and caps meeting; a client that does less than planned | limits kept, no idle budget, plans can be committed |
| Packed mixed batch and row placement (`mixed_batch.cpp`, `pipeline.cpp`, `llm_ops_gpu.cpp`) | none | pack a plan into rows, copy prompts and tokens into them, write and read K/V rows | offsets, boundaries, five graphs that must place rows alike | a step computes the planned positions, from the right tokens, on rows of its own |
| Unified GPU engine (`transcribe_unified_gpu`, 700-1547) | active list, prepared queue, frontend job, prefix, next chunk | admission rounds, plan, reserve, GPU step, commit, reap, teardown | a frontend thread beside the main loop; failures of each step; pool and slots full | every chunk answered once, nothing leaked, the call returns |
| Continuous GPU engine (`transcribe_continuous_gpu`, 1549-2202) | active list, prefix, admission hints, next chunk | admit_one, admit_round, grouped decode, stall, reap | admission and decoders compete for blocks; decoders wait for each other; a chunk that fits no pool | every chunk up to a misfit answered once, nothing leaked, the call returns |
| CPU batch engine (534-698), `ContinuousKVSlotPool` | slots, active list | admit, run one after another | batches that fill the pool; a chunk that fits no pool | every chunk answered, the call returns |
| `GPUEmbeddingPool` | slots with tensor, generation, owner; a mutex | acquire, release, reserve_slots, set_host, copy_tensor, view | stale copies of handles, reuse of tensors, views read without the lock, the pool replaced | only live handles open a slot; holders never meet |
| `GPUMixedRunner` | staging tensor, shared graph allocator, LRU of graphs, shape counts | stage_inputs, execute_paged, set_graph_cache_capacity | addresses kept in cached graphs while buffers grow; failures at each line | cached graphs point to current buffers; the LRU keeps its order |
| Chunking, Silero segments (`chunking.cpp`, `silero_vad.cpp`) | none | window, energy, segments from probabilities, cut by duration | minimum lengths at forced cuts, padding and merging | chunks follow the recording, no long stretch of speech is lost |
| Command line program (`funasr_cli.cpp`) | the file, its chunks, its text and segments | load, cut, recognise, join, subtitle | overlaps, repetitions, rests of texts | subtitles follow the recording and say what was recognised |
| Realtime recognizer (`realtime.hpp`) | audio buffer under a mutex, state of the utterance | feed, process loop, start, stop | feeder, loop and control on three threads | all audio of an utterance, once |
| Audio capture (`audio_capture.cpp`) | the device | init, start, stop, callback | callbacks of any length at any time | every frame delivered goes into the sink |
| C SDK (`funasr_sdk.cpp`) with the push-to-talk recorder | handle: mutex, recorder, configuration, last error | init, feed, start, stop_and_transcribe, hotwords | calls of several threads, half of them outside the mutex | results and flags belong to their recording |
| Web application (`funasr_web_app.py`) | job store, job threads, directories, library file, chat sessions | create, poll, run, record, save extras, ask | read-modify-write files without locks, media shared by jobs, cleaning up | results belong to their video; recorded media exist; nothing saved is lost without an overlap |
| Browser extension (`content.js`) | page, panel, polls | analyse, poll, restore, load the cached result, order, ask, clear | awaits: the page may be at another video when an answer comes | the sidebar shows videos of its page, follows one job, comes back |
| Preparation of prompts (`pipeline.cpp` 1500-1897, `encoder_adaptor_gpu.hpp`) | staging tensors of the adaptor, handles of the batch in hand | run a batch or a single request, acquire, copy audio, write prefix and suffix, undo and go on one by one | a batch that fails half way; one staging tensor for all requests; the engine releasing meanwhile | a prompt is whole and its request's own; no slot is lost |
| Recognizer and pipeline | models and tensors | inference | its outcomes are choices of the engines | see "What is not modelled" |
| Loader, tokenizer, kernels, scripts | models and tensors | inference, parsing, printing | numerics and I/O | not a subject of these models |

Interactions: the engine's main thread calls scheduler, pool, runner and
recogniser; the frontend thread (`std::async`) calls the recogniser, which takes
embedding slots; a prepared prompt travels to the main thread as a handle; the
mixed runner copies from the slot to its staging tensor and runs a graph that
reads block tables. The pool of blocks belongs to one call of the engine; the
embedding pool and the graph cache outlive it. The device's thread feeds the
recognizer or the recorder. The web application's job threads run the command
line program and share files with each other and with the handlers; the
extension and the application's own page are their clients.

## The modules

Block pool and ownership:

- `PagedKVBlocks` - the pool as a value (free queue, queued flags, counts) and its
  one-block operations as operators on it, error paths included.
- `PagedKVBlockPool` - a client that makes any call with any argument; it has no run,
  only proofs.
- `BlockSharing` - the abstract promise: a block is gained only while nobody holds
  it or by sharing the prefix, and is free when its last holder lets go.
- `KVOwnership` - the calls the engines make, one block per step as the loops of
  `acquire`, `release` and `retain` make them: requests retain the prefix, copy its
  partial block, acquire, append, roll back, write and release; the prefix is
  released while they run. It implements `BlockSharing`.

Scheduler, step and engines:

- `UnifiedPlan` - `build_plan`, `commit_sequence` and `commit_sample` as operators.
- `UnifiedScheduler` - requests in any valid state, and a client that blocks
  requests, shortens the last chunk and puts sequences off, as the engine does.
- `MixedBatch` - one GPU step as data: how `build_packed_mixed_metadata` lays the
  tokens of its sequences out in rows, what `gpu_mixed_step_paged` copies into them,
  and which rows of the K/V tensors each graph writes and reads: the mixed graph,
  the paged prefill, the batched decode, and the slot graphs. Each
  graph computes a row in its own way, and has an operator of its own. `flash` is
  whether the build has flash attention: without it the mixed graph takes no masks
  (`MaskInputs`), and a step with a prompt row is refused (`TakesLayouts`).
- `MixedStep` - the composition: whatever the reservation may make of a plan of
  `UnifiedScheduler` is packed by `MixedBatch`. `BlockOf` says where the block is that
  has a given place in a request's table, or in the prefix's: anywhere, as long as no two
  are the same, which is what `KVOwnership` is for. `MCMixedStep` scatters them for TLC.
- `Lists` - what the modules around it use on sequences: the elements that are in a
  set, and running sums.
- `ChunkAnswers` - the abstract promise of an engine: every chunk is answered
  once, and the answer stands.
- `UnifiedEngine` - the engine's loop. The main thread's program counter is
  `reap` (finished requests are emitted), `fill`, `activate`, `consume`,
  `prefetch`, `filled` (the steps of `fill_active`), `plan`, `reserve` (one planned
  sequence per step), `execute`, `drain` and `done`; `ThreadPrepares` is the
  frontend thread. It extends `UnifiedPlan`. Blocks are counted by their owner and
  place in its table, since `KVOwnership` has their identity; tokens have no value. `mode` is chosen once:
  frontend on the main thread (`sync`), filter banks on a thread (`fbank`) or
  whole prompts on a GPU thread (`gpu`); `Frontends` says which a run considers.
  A `gpu` job for which too few embedding slots are left becomes a filter bank job.
- `ContinuousEngine` - the older engine, one thread. `kv` is
  its way of keeping K/V: `slots`, the blocks of a static `budget`, `dynamic`
  blocks, or `chunked` prefill with dynamic blocks; `cached` says whether a prefix
  is shared. As in `UnifiedEngine` a block is its owner and its place. The program counter is `admit` (one `admit_one` after another, up to
  `RoundEnds`), `prefill` (a chunk of the prompt per step), `decode` (one request
  per step, then the GPU step or the stall), `reap`, `drain` and `done`.
- `MCUnifiedEngine`, `MCContinuousEngine` - recordings for TLC.

Buffers of the GPU path:

- `EmbeddingPool` - slots, generations and epochs, every
  handle ever issued, and who last wrote each row. Taking a view and being done
  with it are two steps; all others hold the mutex and are one.
- `PromptFrontend`, `MCPromptFrontend` - the pipeline as the pool's client. `call` is
  the job in hand: `way` says whether its requests go as a batch or one by one,
  `phase` where it is (`forward`, `acquire`, `audio`, `prefix`, `suffix`, `undo`,
  `deliver`), `held` what it has acquired. `says` tells whose audio, or which
  part of the prompt, each row of a slot holds. The engine's steps in between
  release, read and reserve; the pool is made again between calls.
- `GraphCache`, `MCGraphCache` - staging tensor, graph allocator and LRU. Buffers
  are numbered; a cached graph remembers the numbers it was built on. The graph
  itself is its shape.

The command line program:

- `Chunking` - the cuts by window and by energy, conversion of Silero segments,
  and the cut by duration, as operators on the levels of a recording's frames.
  Positions are ticks, several to a frame, so that an overlap can be shorter than
  a frame.
- `SileroSegments` - from the probabilities of the windows to padded segments of
  speech: hysteresis, splitting of long speech at its longest pause, merging, padding.
- `Subtitles` - removal of repetitions, joining of overlapping texts, cutting of
  long texts into cues. A text is letters and two kinds of marks.
- `CpuBatch` - the batch scheduler without a GPU, over slots or blocks. Which slot
  a request gets makes no difference there, so the pool is a number.
- `OfflineCli`, `MCOfflineCli` - the composition: a file is loaded, cut, recognised
  by the serial loop or the batch scheduler, and written; the model's answer to a
  chunk is any of a few texts.

Live audio:

- `RealtimeRecognizer` - the buffer, the processing thread (`thread` is where it is)
  and the state of the utterance. A frame is a short stretch of audio, with the number
  it was heard as, so that order and loss can be seen; `IntervalFrames` of them are a
  check interval. A chunk has any number of frames from one on, and is above the
  threshold or not; one that is not counts as an interval of silence however short it
  is. `spoken`, `shortfall` and `hurried` are history: which frames were in
  chunks above the threshold, how much the chunks since the last of those lack
  to an interval each, and which segments ended with more missing than the tail.
- `SdkPushToTalk` - the handle with its lock, the recorder with its own, and the
  calls of three threads: one feeds, one initialises, starts and stops, one
  transcribes its own audio and sets hot words. Stopping, reading the flag and
  transcribing are steps of their own.
- `AudioInput` - the composition: a microphone that calls back on a thread of its
  own and feeds one of the two. A round of the thread starts with a sleep of one
  interval, so a device that runs on hears an interval of audio in it (`late`: what
  of that it has still to deliver); one that is stopped or started meanwhile
  hears any part of it, and `gap` says that this happened since the last chunk above the
  threshold. That a device keeps time, and delivers within a callback's
  length, is an assumption about hardware outside the repository.

The web application:

- `WebApp` - the server's threads. `at` is where a job's thread is, `status` what
  a poll is told. Recording an item is four steps: read the library, open the
  temporary file, write it, rename it; a question is read, answered and saved
  in steps. Any of these may fail, before it does anything or half way: then a job
  already said to be done becomes a failed one, or a session is left that
  does not parse. A file is absent, torn or whole; content is the video it is about.
- `VideoSidebar` - the composition with the extension: `content.js` is one
  thread that gives way at each await, so what runs between two awaits is a step;
  the page navigates under it, polls are lost, and a second client submits jobs.

Proofs: `KVOwnershipProofs` (with those of the block pool, and a client that makes
any call), `GpuMemoryProofs` (embedding pool, prompt frontend and graph cache),
`AudioInputProofs`, `VideoSidebarProofs`, `ContinuousEngineProofs`,
`MixedStepProofs` (with those of the scheduler) and `UnifiedEngineProofs`, each of the
module it is named after; `UnifiedPlanProofs` has the lemmas on plans and on `Lists`
that the last two rest on.

Each module also holds the *faulty variants* of its definitions, right before
the definition they vary, so that a property can be seen to fail when the code
had that bug.

## The runs

| Run | Question | Bounds |
|---|---|---|
| `kv_ownership` | do queue, flags and counts agree, are counts owners and writes private, does the protocol implement `BlockSharing` | 2 requests, 5 blocks of 2 tokens, prefix of 3 tokens (its last block is partial), tables of 3 |
| `scheduler` | limits, work conservation, committable plans; each plan as a packed step is refused only by a build without flash attention, computes the planned positions, and all graphs agree on its rows | 3 requests of which 2 fit a plan, prompts to 3 tokens, 2 outputs, budget 3, chunk 2, any valid start; 2 rows a block, 2 layers and slots, owners' blocks alternate and tables run backwards |
| `engine_overlap` | the unified engine's safety and liveness without a thread and with one that prepares prompts or falls back to filter banks; decoders are never left out of a plan | 7 chunks (one without audio, one as long as the context), 3 active, 2 sequences and tokens a round, jobs of 2, 5 blocks of 2, prefix of 3, context 9, copies that fail |
| `continuous_engine` | all four ways of keeping K/V, with and without a prefix; every failure; waiting decoders; giving up | chunks of which one is silent, some beyond their estimate, one beyond context and pool; 2 active, 6 blocks of 2, prefix of 3, context 8 |
| `engine_context_limit`, `engine_slot_leak` | violations, see below | 1 and 3 equal chunks |
| `prompt_frontend` | stale handles, exclusive slots, views; prompts are whole and their request's own | 2 requests, 2 slots, prompts with and without a cached prefix, 2 claims a slot, 2 pools |
| `graph_cache` | cached graphs read the current staging tensor and, while the allocator has a buffer, that buffer; the least recent goes | 4 shapes, up to 2 entries, 3 buffers of each sort, any failure |
| `graph_cache_out_of_memory` | cached graphs point to a buffer that exists: violation | as above |
| `offline` | chunks follow the recording, subtitles follow the chunks, the batch scheduler answers each chunk once and returns | every recording of 8 frames of 3 levels, 4 chunk modes, 5 texts, batches of 2, 4 blocks of 4 |
| `audio` | speech is recognised once and unbroken, and trimming cuts none while the microphone runs on; a recording is what was fed while the key was down | 9 frames, 3 to an interval, callbacks of 1 or 2, pause of 2 intervals, tail of 2 frames, caps of 2 and 3 frames |
| `web` | saved items and turns although any write may fail, right results, media on record, one analysis at a time, an analysis comes to an end | 2 videos (one known before), 2 jobs, 2 seconds, 2 turns, 3 clicks |

Why the bounds suffice: each is chosen so that the case in question happens and
that one more of the thing brings no new kind of neighbour.

- The prefix ends inside a block so that copy on write happens; the pool is
  smaller than the sum of the requests so that reservation fails, in every
  position of the plan; a block table of three has a shared, a copied and an own
  block. Chunk lengths cover "fits in one prefill chunk", "needs several", "has no
  audio" and "exceeds the context".
- A budget below the number of active requests makes decoders compete, and prompts wait
  until decoders end; seven chunks keep prepared ones in the queue while the next job is
  launched. The engine with filter banks on a thread from the start is left to the
  proofs; in the run such a job is what a `gpu` job falls back to. Two
  requests of the continuous engine need more blocks than there are and wait for
  each other. Two of three requests in a plan leave one out, in any position.
- Two requests make a batch, in either order of the job, and each can be the one
  that fails; with two slots the prompts of an earlier call leave the next
  batch one or none. A batch that leaves out a third request is proved only.
- Growth of the staging tensor goes over two doublings and the clamp.
- Eight frames hold a segment, a pause and a segment, or one beyond
  the longest allowed with a rest below the shortest, at each end of the
  recording; the lengths of the configuration are small and keep their order, and
  the longest stretch that may be lost follows from them. Three of the texts are
  joined and cut; of the other two one collapses, clause by clause after its runs, and one
  has a run of a unit longer than `MaxUnit` (32 characters in the code), which stays.
- Nine frames of live audio reach the longest segment, and one ended by a pause of two
  whole intervals with speech behind it; callbacks are shorter than an interval, so
  a chunk is put together of several, and one of them may be late; the microphone stops and starts
  anywhere, which makes chunks of one frame.
- Three generations of the graph allocator's buffer are a first one, one that was
  freed when its successor could not be allocated, and the next that could: only then
  do cached graphs of the first meet a buffer again.
- Two jobs and two questions are what a race needs; two seconds let two jobs
  compete for a directory or not; one video with results from before lets a job
  take over its media; three clicks are "analyse", and two more on other
  videos or with another client meanwhile.

Every action fires in some passing run. Deadlock is checked for both engines,
the scheduler and the graph cache, whose modules have a step that stutters
when they have returned or never stop; the others may really stop (all is
released, all bounds are used up), and their configurations say so.

Bounds that belong to a model and not to the code are named: `MaxGeneration` and
`MaxEpoch` (embedding pool; 64-bit in the code; `FewOldHandles` keeps the second pool
to runs in which at most one handle of the first is about), `MaxBuffers` (graph cache),
`NumRequests` and `MaxPrompt` (scheduler), `NumFrames` and `MaxCallback`
(audio, where the lengths of the configuration are in frames), `NumFiles` (command line), `MaxJobs`, `MaxSecond`, `MaxTurns` and
`MaxClicks` (web).

Fairness. Nothing is assumed about outcomes: frontends, copies, prefills, GPU
steps, downloads and requests may fail every time.

- `UnifiedEngine`: weak fairness of the main thread's program (`WF_vars(Main)`),
  which never waits except for the frontend thread, and of that thread
  (`WF_vars(ThreadPrepares)`), which `std::async` starts and `future.wait` waits
  for.
- `ContinuousEngine`, `OfflineCli`: one thread that never waits (`WF_vars(Main)`;
  of the command line program only the batch scheduler has to end,
  `WF_vars(Transcribe)`).
- `VideoSidebar`: the job threads run on and their commands end (`WF_vars(Jobs)`;
  each job is finitely many steps, so that weak fairness of all together is that
  of each), and awaited functions of the page go on (`WF_vars(Script)`). Nobody
  has to click, and any poll may be lost.

### Violations

- `engine_context_limit`: a request whose prompt and outputs fill the context has
  no schedulable token; the scheduler passes over it, the branch that would finish
  it (room <= 0) is never reached for it, and when it is alone the round in which
  nothing runs fails it. The design (task-prefix-kv-dynamic-blocks, 261) has
  decoding stop at the context size.
- `engine_slot_leak`: leaving the loop with a GPU frontend job pending waits for
  the thread but does not release the embedding slots it acquired. The design
  (unified-chunked-prefill-scheduler, section 6) demands that failure paths do.
- `graph_cache_out_of_memory`: the graph allocator frees its buffer before it
  finds no memory for a larger one, and `execute_paged` returns before it compares
  the buffer generations; cached graphs keep pointing into the freed buffer.
  `BufferIsCurrent` holds beside it, since it speaks only of times when the
  allocator has a buffer.

### Properties that hold under a condition

Other limits of the code are conditions of properties: the property states
its condition, and what happens without it is said here.

- `AnswersUpToMisfit`: the continuous engine gives up at the first chunk that does
  not fit the empty pool. What comes after it gets no result.
- `RowsAreBacked` of the continuous engine: the static budget backs a prompt up to
  its estimate; a longer one makes the step fail for all its inputs.
- `EveryChunkReturns`: if the pool can hold each chunk alone. Otherwise the outer
  loop of the batch scheduler without a GPU never ends (offline_batching.cpp:572).
- `StepComputesPlan`: a build with `FUNASR_FLASH_ATTN=OFF` (CMakeLists.txt:13) refuses
  every mixed step that has a prompt row, since its graph has no masks
  (llm_ops_gpu.cpp:1073) and `execute_paged` asks for one for each prompt
  (gpu_mixed_runner.cpp:621). For the unified engine that is a step that fails.
- `SpeechHeardOnce`: chunks above the threshold may be cut from the end of a segment whose
  closing chunks lacked more to their intervals than the tail (`SpeechKept`). An interval is
  counted for every chunk without speech, and the trimming takes what was counted, less
  the tail, off the segment (realtime.hpp:204, 216, 240): when the microphone is stopped
  and started in the closing pause, more than the tail may be missing, and the rest is taken
  from the speech, though the comment at 239 says that silence is trimmed. In the run two
  chunks of one frame each, of three to an interval, do it. While the
  microphone runs on nothing is cut, if a callback is no longer than the tail
  (`SteadyAudioKeepsSpeech`).
- `NothingSavedIsLost`: unless two jobs were recorded, or two answers saved, at
  the same time. The library and the sessions are read, changed and replaced without a
  lock, so an overlap may lose an item or tear a file. Without an overlap, too, a
  failing write has effects the property allows and names: an error in
  `record_library_item`, which comes after the status was set to done, ends in the handler
  of `run_job`, which makes the job a failed one (funasr_web_app.py:1107-1111), and the library
  then does not lead to it; a session is written in place (840), so a write that breaks
  off loses the session, though never one turn of it.
- `RightResults`, `RecordedMediaStay`: while no two jobs share a directory. The
  name is chosen when the job is submitted and taken when its thread starts.
- `AnalysisComesBack`: unless a poll's request fails, which nothing catches, or
  the job's thread left by `SystemExit`, which leaves its status as it was.
- `ChunksFollowRecording`: speech shorter than the longest stretch that minimum
  lengths at cuts may drop is not promised to be covered, and an energy segment
  that was cut begins with a frame it shares with the one before.

## The proofs

TLC checks small instances; the proofs hold for every value of the constants
under the assumptions named in the modules (`ASSUME`): sizes are
positive integers, sets of sizes are sets of such, distinct things have
distinct names.

- **Block pool** (`KVOwnershipProofs`). Each
  one-block operation preserves the pool's consistency; from these, type
  correctness and `FreeListInv` of a machine that makes any call with any argument, for any number of blocks.
- **Ownership** (`KVOwnershipProofs`). `RefsCountOwners` is not inductive: a
  count says nothing while a loop is half way. The invariant adds where every
  request stands (which tables it may hold at each point of its program), that
  tables have no block twice, that an owned block is not queued, and that only
  whole prefix blocks are shared. From it follow the private writes, the absence
  of ownership errors, and that each step is a step or a stutter of
  `BlockSharing`.
- **Embedding pool** (`GpuMemoryProofs`). The properties are about handles
  that callers kept, so the invariant speaks of every handle ever issued:
  handles of the current pool are not younger than their slot (`IssuedPast`), no
  two carry the same claim (`IssuedOnce`), a slot in use has a live holder
  (`TakenByLive`). A stale handle then differs from its slot in the generation,
  one of a former pool in the epoch. `SlotsHeldOnce` needs a bijection between
  holders and used slots.
- **Graph cache** (`GpuMemoryProofs`). `PromptRowsCurrent` speaks of the step that
  is about to be computed, so the invariant (`CacheInv`) speaks of every cached graph: it
  points at the current staging tensor, and at the allocator's buffer whenever
  there is one. A step that replaces either drops the graphs before any other
  step is staged; a failed allocation keeps the clause, which asks for a buffer.
  `EvictsLeastRecent` needs where a hit and an insertion move each entry.
- **Prompt frontend** (`GpuMemoryProofs`). Its steps are steps of the pool's client
  (`FrontendUsesPool`), so all that is proved of the pool holds of it. `PromptsAreOwn`
  needs what a call has in hand in each phase (`CallSound`, `HandSound`), and how far
  the rows of a claimed slot have been told (`ToldSoFar`): audio rows say what the
  staging tensor said when they were copied, which is why no other request may have
  used it since; a slot that a call holds is in nobody else's prompt, and slots in use
  are those of prompts and of the call (`Accounted`). A batch that leaves a request out, or fails half way and
  goes on one by one, is covered for any number of requests.
- **Push to talk** (`AudioInputProofs`). Stopping the recorder and reading whether it was truncated are
  two steps. The invariant (`SdkInv`) follows recording and flag through the call:
  while the key is down the recorder holds the beginning of what was fed up
  to its cap; between the two visits the flag still says whether that was all,
  because feeding a stopped recorder changes nothing. It says nothing of an empty
  recording, whose flag is that of the one before and which is refused.
- **Realtime recognizer** (`AudioInputProofs`). Frames are numbered as they are heard, so the
  invariant (`HeardInv`) says where everything is on one time line: buffer, chunk and
  open segment are the latest frames one after the other (`Timeline`), what was
  recognised lies before them and rises. What trimming may cut needs a clause of
  its own (`Spoken`): silence is counted in rounds and audio comes in chunks of any
  length, so the frames at the end of the segment that are known to be silent are as many as
  were counted, less the `shortfall`; trimming removes what was counted less the tail, hence
  cuts speech only where the shortfall exceeds the tail. `FlattenAppend` says what
  one more utterance does to the flattened sequence.
- **A microphone that runs on** (`AudioInputProofs`). For `SteadyAudioIsKept` the shortfall has
  to be bounded, and it is not by the chunks alone. `Pace` is an account of the time the thread
  slept: what is missing to the intervals counted is still on its way, in the chunk, in the
  buffer or in the device, and when the thread wakes up the device has no more than a
  callback. A stop of the device ends the account, the next chunk above the threshold begins a
  new one.
- **Web application and sidebar** (`VideoSidebarProofs`). The library leads to a
  directory, and any job may remove media from its own. The invariant
  (`SidebarInv`) says whose each directory is, and calls one *settled* when no job
  that may still remove its media works in it; whatever is on record, in the index, in
  its temporary file or in what a thread has read and not written yet, is of
  its video, settled, and has its media. That an overlap may lose or tear the index
  does not disturb this: old records are good records. That `_new_job_dir` always
  finds a name is a pigeonhole lemma. `OneAnalysisAtATime` is proved by itself: at most one poll
  is under way, and none while the button works.
- **Saved work** (`VideoSidebarProofs`). What a thread carries between reading a file
  and replacing it is what the file still says: the invariant (`SavedInv`) has one job at
  a time in that stretch, the temporary file its own, and its copy of the
  library equal to the index but for its own entry; the same for a session. It
  adds that a job has its results before it is called done, that the library leads only to
  jobs that ended as done and never to one whose recording broke off, and
  needs `SidebarInv` for the directories. A write that breaks off leaves the temporary
  file torn, which the next job empties, or the session, which then promises nothing. An
  overlap ends what it promises for the library, and leaves what it promises for the
  sessions.

- **Scheduler** (`UnifiedPlanProofs`, `MixedStepProofs`). `build_plan` is two
  loops over the requests. `Planning` says of a plan in the making that it holds
  each request once, within both limits, with a sequence that suits it, and that while both limits leave
  room every request visited so far has its turn; a visit keeps it, and so, by
  induction on the position in the vector (the well-foundedness of the natural numbers
  applied to the set of positions for which it holds), does a loop. `Limits` and
  `WorkConserved` follow. For `Committable` the requests change under a plan: each is
  *settled* (known tokens up to the one it waits for), what is left of the plan still
  fits, and a commit moves one request by what its sequence says.
- **Packed step** (`MixedStepProofs`). Both properties follow from the scheduler's
  invariant in any one state, for every run the reservation may leave of the plan
  (`IsRun`: some of its sequences, each once, none longer, with logits where its
  prompt ends) and every prefix the requests may share. `PackOrders`: the batch has the
  run's sequences, prompts first. `RowsLocated`: row *i* lies in exactly one sequence,
  whose first row comes after the sum of the lengths before it, and is one position of
  it. When the step is accepted (`MayExecute`, which without flash attention is when no row
  is of a prompt), and that it reads each row's own embedding or output, and
  reports the sampled rows (`StepComputed`) is read off the rows. `GraphsAgree` needs the
  tables: two positions have the same physical row only if they are the same position,
  of the same request or of the common prefix (`RowsApart`); a step writes only past
  the prefix, so its rows are nobody else's. The arithmetic of each graph then comes to
  the same row: a run of rows that begins inside a block, a table that was padded, a
  mask over a chunk. Slots, layers and copied blocks are products of sizes, and
  their rows are told apart by `OneQuotient` (*x w + a = y w + b* with *a, b < w*
  only if *x = y*).
- **Unified engine** (`UnifiedEngineProofs`). The invariant comes in layers, each
  inductive together with those before it. `Base`: types, what a job that waits has in hand,
  what the place of the main thread says, and the blocks a round may have to give back.
  `Places`: of five places a chunk is in exactly one, the containers hold nothing
  twice; this gives `OnePlace`. `BlocksOK`: the blocks owned by different requests are
  different, and each step moves as many between pool and requests as it says; gives
  `EngineConservesBlocks`. `RoundOK`: a running request is settled, what is planned or
  runs suits its request as it is now, also when it was cut, and what runs is backed;
  gives `RowsBacked` and `StepsCommittable`. `SlotsOK`: slots belong to the queue, to what a job
  has prepared and to the requests inside their prompt, and a `gpu` job finds those it
  was counted; gives `EmbeddingsHeld` and `FrontendHasSlots`. `DecodersOK`: requests
  that wait for a token, and those with a turn in this round, who may be next, are together no
  more than a plan has places for. It is inductive because a plan either has all
  decoders or only decoders (`DecodersFirst`); `EveryDecoderPlanned` alone is not, since
  it says nothing of a round in progress. `ResultsStand` is the refinement: each step
  is a step of `ChunkAnswers` or a stutter. `ReturnsWithEverything` and `LeavesWhenDone`
  say what is left when the loop ends, which is all but the embedding slots of
  the violation above.
- **Continuous engine** (`ContinuousEngineProofs`). `RowsAreBacked` speaks of the moment
  when all turns of a round are taken, so `State` follows a round: requests before
  `turn` are inputs with a row to write, finished, or wait, and a request waits only
  while no block is free, because a turn only takes blocks. A request's rows lie in its
  table, and under the static budget, for a prompt within its estimate, the rows it may
  still write do. `GivesUpInDeadEnds` combines that with `Conserved`: if all wait, no
  block is free, and own blocks and prefix make the pool. For `Conserved`, blocks of
  different requests are different because requests are (`Places`), so what `Reap` takes from the
  set is what it adds to `free`; a failed copy or prefill gives back what the candidate
  had. `Answered` adds that a chunk that was taken is active or has its result;
  `AnswersAreFinal` is the safety part of the refinement of `ChunkAnswers`, and
  `ReturnsAllBlocks` says what is left at the end.

Model-checked only: liveness (`AnswersEveryChunk`, `AnswersUpToMisfit`,
`EveryChunkReturns`, `AnalysisComesBack`), since liveness under fairness is
outside what the installed provers do; and `ChunksFollowRecording` and
`SubtitlesFollowRecording`. These two speak of the result of a chain of folds (cutting
by energy, merging, padding, splitting, joining of texts) for a whole recording: a proof
would need an invariant of every fold in the chain, and no state of the program to
carry it, so TLC evaluates the chain for every recording within the bounds instead. The library's induction theorems take an
operator, which the provers cannot instantiate; where a proof needs induction over the
natural numbers it is about a set of numbers (`Induction`, from the
well-foundedness of `<`), and the recursive functions it is about are unfolded by a
lemma of their own. No module uses a `RECURSIVE` operator.

## What is not modelled

- Numerics and tensors: filter bank, encoder, adaptor, language model, Silero
  network. Their failures are choices of the models; which rows of the K/V tensors the
  language model's graphs touch is in `MixedBatch`.
- The loader, tokenizer, weights and configuration: read once at start, nothing
  is concurrent.
- Option parsing, audio file formats, text and JSON output, statistics, logging,
  progress callbacks, drawing of panels and pages.
- The GPU runner's single cached decode graph (`gpu_runner.hpp` 1018-1127), one
  entry behind three environment switches: listed as a hazard; `GraphCache` states
  the same hazard for the mixed runner.
- The pipeline's fall-back from a batched decode to single requests: its outcomes
  for a request are outcomes the engines consider anyway.
- Auto-tuning of batch sizes and the order in which chunks of like length are
  prepared: they choose values of constants the engines take as given.
- Of both engines: errors before the loop starts (they return with nothing held),
  an exception thrown out of the frontend thread, a negative token from the
  GPU. Of the embedding pool: the wrap of a 64-bit generation. The branch of
  `transcribe` for GPU batches (offline_batching.cpp 606-668) cannot be reached.
- Of the SDK: replacing the recorder in `init` is one step. Code that feeds a
  handle while it is initialised has a data race on the pointer, with no outcome
  a model could choose from. Start and stop are calls of one thread.
- Of the web application: uploads (they join the path of a URL's job), the calls
  of the text service and the shaping of its answers, downloads from disk.
- Tests, documents, benchmark and evaluation scripts, the older web page, the
  runtime patch and vendored code were read as reference; the patch's buffer
  generation is in `GraphCache` and its attention kernel in `MixedBatch`.

What would add most next: invariants of the folds in `Chunking` and `SileroSegments`,
from which `ChunksFollowRecording` could be proved.
