--------------------------- MODULE PromptFrontend ---------------------------
(***************************************************************************)
(* How the pipeline fills the embedding pool (src/pipeline/pipeline.cpp,   *)
(* prepare_prompts_gpu_batch_from_fbank and prepare_prompt_gpu).  A call   *)
(* gets the requests of one frontend job.  Two or more go through the      *)
(* encoder and adaptor together; if that fails, or the copying of their    *)
(* rows does, what was acquired is released and each of them is prepared   *)
(* on its own.  One call runs at a time, on the thread of the frontend job *)
(* or on the engine's; meanwhile the engine reads and releases the prompts *)
(* of earlier calls, so every step under the pool's mutex is one step here.*)
(*                                                                         *)
(* The adaptor leaves its output in a staging tensor that its next run     *)
(* overwrites or frees (src/compute/encoder_adaptor_gpu.hpp).              *)
(***************************************************************************)
EXTENDS EmbeddingPool, Sequences

CONSTANTS
    Requests,       \* the requests of the engine
    AudioFrames,    \* for each of them, the embeddings its audio becomes
    PrefixTokens,   \* tokens of the prompt before and after the audio
    SuffixTokens,
    EmbedDim        \* embedding_length of the model

VARIABLES
    call,     \* the call in hand, or Idle
    staging,  \* whose audio the adaptor's two staging tensors hold
    says,     \* for each slot and row, what was last written there
    prompts   \* the prompts that calls returned and the engine has

frontend == <<call, staging, says, prompts>>
allvars == <<epoch, size, slots, rows, issued, live, viewing,
             call, staging, says, prompts>>

Nothing == "nothing"
Idle == [phase |-> "idle"]

-----------------------------------------------------------------------------
(***************************************************************************)
(* make_gpu_prompt_layout.  Prefix rows that the KV prefix cache has are   *)
(* not stored again.                                                       *)
(***************************************************************************)
StoredPrefix(cached) == IF cached = 0 THEN PrefixTokens ELSE 0

\* Faulty variant: the cached prefix is stored again, without its rows.
StoredWithPrefix(r, cached) == PrefixTokens + AudioFrames[r] + SuffixTokens

StoredTokens(r, cached) == StoredPrefix(cached) + AudioFrames[r] + SuffixTokens

ASSUME FrontendAssumption ==
    /\ AudioFrames \in [Requests -> Nat \ {0}]
    /\ PrefixTokens \in Nat \ {0}
    /\ SuffixTokens \in Nat \ {0}
    /\ EmbedDim \in Dims
    /\ \A r \in Requests, cached \in {0, PrefixTokens} :
          StoredTokens(r, cached) \in TokenCounts

\* What row t of the prompt of request r is to say.
Said(r, cached, t) ==
    IF t < StoredPrefix(cached) THEN [of |-> "prefix", at |-> t]
    ELSE IF t < StoredPrefix(cached) + AudioFrames[r]
      THEN [of |-> r, at |-> t - StoredPrefix(cached)]
    ELSE [of |-> "suffix", at |-> t - StoredPrefix(cached) - AudioFrames[r]]

\* Writing count rows of a source into the slot of h, from row offset on.
Tell(h, offset, count, source) ==
    /\ Write(h, offset, count)
    /\ says' = [says EXCEPT ![h.slot] =
                   [t \in Rows |-> IF t \in offset .. offset + count - 1
                                     THEN [of |-> source, at |-> t - offset]
                                     ELSE @[t]]]

-----------------------------------------------------------------------------
(***************************************************************************)
(* The call: its requests in order, the places of those that have a filter *)
(* bank (batch_to_result), the place among these it is at, whether they go *)
(* one by one, the handles it has acquired and the results so far.         *)
(***************************************************************************)
Jobs == {s \in UNION {[1 .. n -> Requests] : n \in 1 .. Cardinality(Requests)} :
            \A i, j \in DOMAIN s : s[i] = s[j] => i = j}
Members(n) == {s \in UNION {[1 .. k -> 1 .. n] : k \in 1 .. n} :
                  \A i, j \in DOMAIN s : i < j => s[i] < s[j]}

Place == call.members[call.at]
Current == call.job[Place]
Hand == call.results[Place]

FrontendInit ==
    /\ Init
    /\ call = Idle
    /\ staging = [one |-> Nothing, many |-> <<>>]
    /\ says = [i \in SlotIds |-> [t \in Rows |-> [of |-> Nothing, at |-> 0]]]
    /\ prompts = {}

\* prepare_fbank_batch: worker threads, each of which may fail.  With no
\* filter bank at all the call returns at once, which is no step.
BeginCall ==
    /\ call.phase = "idle"
    /\ \E job \in Jobs, cached \in {0, PrefixTokens} :
       \E members \in Members(Len(job)) :
          /\ \A p \in prompts : \A i \in DOMAIN job : p.request # job[i]
          /\ call' = [phase |-> "forward", job |-> job, members |-> members,
                      cached |-> cached, at |-> 1,
                      way |-> IF Len(members) < 2 THEN "single" ELSE "batch",
                      held |-> {}, results |-> [i \in DOMAIN job |-> Nobody]]
    /\ UNCHANGED <<vars, staging, says, prompts>>

\* The next request of the call, or its end.
Onward(c) ==
    IF c.at = Len(c.members) THEN [c EXCEPT !.phase = "deliver"]
    ELSE [c EXCEPT !.at = @ + 1,
                   !.phase = IF c.way = "single" THEN "forward" ELSE "acquire"]

\* Everyone again, one by one.
FallBack(c) == [c EXCEPT !.phase = "forward", !.at = 1, !.way = "single"]

\* Faulty variant: what the batch had stored for the request stays.
GivenUpKeepingResult(c, gone) == Onward([c EXCEPT !.held = @ \ gone])

\* prepare_prompt_gpu returned no prompt.
GivenUp(c, gone) ==
    Onward([c EXCEPT !.held = @ \ gone, !.results[c.members[c.at]] = Nobody])

\* forward_on_gpu.
ForwardOne ==
    /\ call.phase = "forward" /\ call.way = "single"
    /\ staging' = [staging EXCEPT !.one = Current]
    /\ call' = [call EXCEPT !.phase = "acquire"]
    /\ UNCHANGED <<vars, says, prompts>>

\* It, or the filter bank before it, failed; the tensor may be gone.
ForwardOneFails ==
    /\ call.phase = "forward" /\ call.way = "single"
    /\ staging' = [staging EXCEPT !.one = Nothing]
    /\ call' = GivenUp(call, {})
    /\ UNCHANGED <<vars, says, prompts>>

\* One slice of the batch for each request with a filter bank.
Slices == [b \in DOMAIN call.members |-> call.job[call.members[b]]]

\* forward_batch_on_gpu.
ForwardBatch ==
    /\ call.phase = "forward" /\ call.way = "batch"
    /\ staging' = [staging EXCEPT !.many = Slices]
    /\ call' = [call EXCEPT !.phase = "acquire"]
    /\ UNCHANGED <<vars, says, prompts>>

ForwardBatchFails ==
    /\ call.phase = "forward" /\ call.way = "batch"
    /\ staging' = [staging EXCEPT !.many = <<>>]
    /\ call' = FallBack(call)
    /\ UNCHANGED <<vars, says, prompts>>

AcquirePrompt ==
    /\ call.phase = "acquire"
    /\ LET n == StoredTokens(Current, call.cached) IN
       \/ AcquireFitting(n, EmbedDim)
       \/ AcquireRebuilt(n, EmbedDim)
    /\ \E h \in live' \ live :
          call' = [call EXCEPT !.phase = "audio", !.held = @ \union {h},
                               !.results[Place] = h]
    /\ UNCHANGED <<staging, says, prompts>>

\* No slot is free, or there is no memory for a larger tensor.
AcquireFails ==
    /\ call.phase = "acquire"
    /\ Fitting(StoredTokens(Current, call.cached), EmbedDim) = {}
    /\ call' = IF call.way = "single" THEN GivenUp(call, {})
               ELSE [call EXCEPT !.phase = "undo"]
    /\ UNCHANGED <<vars, staging, says, prompts>>

\* copy_tensor from the staging tensor, whole or the request's slice of it.
CopyAudio ==
    /\ call.phase = "audio"
    /\ Tell(Hand, StoredPrefix(call.cached), AudioFrames[Current],
            IF call.way = "single" THEN staging.one ELSE staging.many[call.at])
    /\ call' = [call EXCEPT !.phase = "prefix"]
    /\ UNCHANGED <<staging, prompts>>

\* It made no view: the batch is undone; a single prompt's guard releases it.
CopyFails ==
    /\ call.phase = "audio"
    /\ IF call.way = "single"
         THEN /\ Release(Hand)
              /\ call' = GivenUp(call, {Hand})
         ELSE /\ call' = [call EXCEPT !.phase = "undo"]
              /\ UNCHANGED vars
    /\ UNCHANGED <<staging, says, prompts>>

\* set_host, which a handle the call owns is never refused.
WritePrefix ==
    /\ call.phase = "prefix"
    /\ IF StoredPrefix(call.cached) > 0
         THEN Tell(Hand, 0, StoredPrefix(call.cached), "prefix")
         ELSE UNCHANGED <<vars, says>>
    /\ call' = [call EXCEPT !.phase = "suffix"]
    /\ UNCHANGED <<staging, prompts>>

WriteSuffix ==
    /\ call.phase = "suffix"
    /\ Tell(Hand, StoredPrefix(call.cached) + AudioFrames[Current],
            SuffixTokens, "suffix")
    /\ call' = Onward(call)
    /\ UNCHANGED <<staging, prompts>>

\* batch_copy_failed: the handles are released before anybody starts again.
Undo ==
    /\ call.phase = "undo"
    /\ IF call.held = {}
         THEN call' = FallBack(call) /\ UNCHANGED vars
         ELSE \E h \in call.held :
                 /\ Release(h)
                 /\ call' = [call EXCEPT !.held = @ \ {h}]
    /\ UNCHANGED <<staging, says, prompts>>

\* The results reach the engine; those that are not ok carry no handle.
Deliver ==
    /\ call.phase = "deliver"
    /\ prompts' = prompts \union
          {[request |-> call.job[i], cached |-> call.cached,
            handle |-> call.results[i]] :
               i \in {j \in DOMAIN call.job : call.results[j] # Nobody}}
    /\ call' = Idle
    /\ UNCHANGED <<vars, staging, says>>

-----------------------------------------------------------------------------
(***************************************************************************)
(* The engine: it releases the prompts it has, reads views of them, and    *)
(* changes the pool itself only between two calls.  A copy of a handle it  *)
(* released before may be released again.                                  *)
(***************************************************************************)
Holding == IF call.phase = "idle" THEN {} ELSE call.held

EngineReleases ==
    /\ \E h \in issued \ Holding :
          /\ ReleaseHandle(h)
          /\ prompts' = {p \in prompts : p.handle # h}
    /\ UNCHANGED <<call, staging, says>>

EngineReads ==
    /\ \/ \E p \in prompts, t \in Rows : \E k \in 1 .. p.handle.tokens :
             TakeView(p.handle, t, k)
       \/ FinishView
    /\ UNCHANGED frontend

EngineReserves ==
    /\ call.phase = "idle"
    /\ \E n \in 1 .. MaxSlots : ReserveSlots(n)
    /\ UNCHANGED frontend

EngineRestarts ==
    /\ call.phase = "idle"
    /\ \E n \in 1 .. MaxSlots : Recreate(n)
    /\ prompts' = {}
    /\ staging' = [one |-> Nothing, many |-> <<>>]
    /\ UNCHANGED <<call, says>>

FrontendNext ==
    \/ BeginCall
    \/ ForwardOne
    \/ ForwardOneFails
    \/ ForwardBatch
    \/ ForwardBatchFails
    \/ AcquirePrompt
    \/ AcquireFails
    \/ CopyAudio
    \/ CopyFails
    \/ WritePrefix
    \/ WriteSuffix
    \/ Undo
    \/ Deliver
    \/ EngineReleases
    \/ EngineReads
    \/ EngineReserves
    \/ EngineRestarts

FrontendSpec == FrontendInit /\ [][FrontendNext]_allvars

-----------------------------------------------------------------------------
(***************************************************************************)
(* Every prompt the engine was given is whole and its own: its handle      *)
(* opens a slot nobody else has, all rows there were written through it,   *)
(* and they say prefix, the audio of this very request, and suffix,        *)
(* whatever batch failed, whoever was prepared again, and whichever        *)
(* requests of the job had no filter bank.  Between calls no slot is       *)
(* taken but theirs.                                                       *)
(***************************************************************************)
PreparedPromptsAreOwn ==
    /\ \A p \in prompts :
          /\ p.handle \in live
          /\ p.handle.tokens = StoredTokens(p.request, p.cached)
          /\ \A t \in 0 .. p.handle.tokens - 1 :
                /\ rows[p.handle.slot][t] = p.handle
                /\ says[p.handle.slot][t] = Said(p.request, p.cached, t)
    /\ \A p, q \in prompts : p.handle = q.handle => p = q
    /\ call.phase = "idle" => live = {p.handle : p \in prompts}
=============================================================================
