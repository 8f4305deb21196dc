------------------------- MODULE RealtimeRecognizer -------------------------
(***************************************************************************)
(* RealtimeRecognizer (src/pipeline/realtime.hpp): audio arrives from the  *)
(* microphone's thread, a processing thread takes what has arrived every   *)
(* check interval, cuts it into stretches of speech and recognises each.   *)
(*                                                                         *)
(* A frame is a short stretch of audio, numbered as it was heard; a check  *)
(* interval lasts as long as IntervalFrames of them.  A chunk is whatever  *)
(* has been fed since the last one was taken: less than an interval when   *)
(* the microphone was stopped or started meanwhile, more when the thread   *)
(* was late.  Milliseconds are counted in frames.  Energies are left out:  *)
(* a chunk is above the threshold or not.  start and stop are calls of one *)
(* thread.                                                                 *)
(***************************************************************************)
EXTENDS Integers, Sequences, SequencesExt

CONSTANTS
  IntervalFrames,    \* check_interval_ms
  CalibrationFrames, \* chunks the noise floor is measured on
  MinSpeech,         \* min_speech_ms: the shortest segment
  MaxSpeech,         \* max_speech_ms: a segment is recognised then in any case
  SilenceTrigger,    \* silence_trigger_ms: the silence that ends a segment
  TailTrim           \* tail_trim_ms: what is kept of it

ASSUME RealtimeAssumption ==
  /\ {IntervalFrames, CalibrationFrames, MinSpeech, MaxSpeech, SilenceTrigger}
       \subseteq Nat \ {0}
  /\ TailTrim \in Nat

VARIABLES
  running,         \* running_
  audio_buffer,    \* frames fed and not yet taken
  thread,          \* process_loop: "none", "head", "sleep", "chunk", "recognize"
  chunk,           \* the frames it took
  state,           \* "calibrating", "idle", "speech", "silence"
  calibrated,      \* chunks measured so far
  speech_buffer,   \* the open segment
  silence,         \* silence_ms: an interval for each silent chunk
  utterance_count, \* utterances reported since start()
  utterances,      \* what was recognised
  spoken,          \* frames of chunks above the threshold, but for those of a
                   \* segment that stop() broke off
  shortfall,       \* what the chunks since the last one above the threshold
                   \* lack to a check interval each
  hurried          \* frames of segments that ended with a shortfall greater
                   \* than TailTrim

heardVars == <<spoken, shortfall, hurried>>

threadVars == <<chunk, state, calibrated, speech_buffer, silence>>

realtimeVars == <<running, audio_buffer, thread, threadVars, utterance_count,
                  utterances, heardVars>>

RealtimeInit ==
  /\ running = FALSE
  /\ audio_buffer = <<>>
  /\ thread = "none"
  /\ chunk = <<>>
  /\ state = "calibrating"
  /\ calibrated = 0
  /\ speech_buffer = <<>>
  /\ silence = 0
  /\ utterance_count = 0
  /\ utterances = <<>>
  /\ spoken = {}
  /\ shortfall = 0
  /\ hurried = {}

-----------------------------------------------------------------------------
(* The calls.                                                              *)

\* stop() has joined the thread before start() can be called again; audio
\* still in the buffer stays there.
StartRecognizer ==
  /\ ~running /\ thread = "none"
  /\ running' = TRUE
  /\ thread' = "head"
  /\ chunk' = <<>> /\ speech_buffer' = <<>>
  /\ state' = "calibrating" /\ calibrated' = 0 /\ silence' = 0
  /\ utterance_count' = 0
  /\ shortfall' = 0
  /\ UNCHANGED <<audio_buffer, utterances, spoken, hurried>>

StopRecognizer ==
  /\ running
  /\ running' = FALSE
  /\ UNCHANGED <<audio_buffer, thread, threadVars, utterance_count, utterances,
                 heardVars>>

FeedRecognizer(frames) ==
  /\ audio_buffer' = audio_buffer \o frames
  /\ UNCHANGED <<running, thread, threadVars, utterance_count, utterances, heardVars>>

-----------------------------------------------------------------------------
(* process_loop.                                                           *)

\* An open segment goes with the thread.
LoopHead ==
  /\ thread = "head"
  /\ \/ running /\ thread' = "sleep" /\ UNCHANGED <<speech_buffer, spoken>>
     \/ /\ ~running
        /\ thread' = "none"
        /\ spoken' = spoken \ ToSet(speech_buffer)
        /\ speech_buffer' = <<>>
  /\ UNCHANGED <<running, audio_buffer, chunk, state, calibrated, silence,
                 utterance_count, utterances, shortfall, hurried>>

\* Faulty variant: the buffer is copied, not taken.
CopyChunk ==
  /\ thread = "sleep"
  /\ chunk' = audio_buffer
  /\ thread' = IF audio_buffer = <<>> THEN "head" ELSE "chunk"
  /\ UNCHANGED <<running, audio_buffer, state, calibrated, speech_buffer, silence,
                 utterance_count, utterances, heardVars>>

TakeChunk ==
  /\ thread = "sleep"
  /\ chunk' = audio_buffer
  /\ audio_buffer' = <<>>
  /\ thread' = IF audio_buffer = <<>> THEN "head" ELSE "chunk"
  /\ UNCHANGED <<running, state, calibrated, speech_buffer, silence,
                 utterance_count, utterances, heardVars>>

Calibrate ==
  /\ thread = "chunk" /\ state = "calibrating"
  /\ calibrated' = calibrated + 1
  /\ state' = IF calibrated' >= CalibrationFrames THEN "idle" ELSE state
  /\ chunk' = <<>>
  /\ thread' = "head"
  /\ UNCHANGED <<running, audio_buffer, speech_buffer, silence, utterance_count,
                 utterances, heardVars>>

InIdle(has_speech) ==
  /\ state = "idle"
  /\ \/ /\ has_speech
        /\ state' = "speech" /\ speech_buffer' = chunk /\ silence' = 0
     \/ /\ ~has_speech
        /\ UNCHANGED <<state, speech_buffer, silence>>

InSpeech(has_speech) ==
  /\ state = "speech"
  /\ speech_buffer' = speech_buffer \o chunk
  /\ \/ has_speech /\ UNCHANGED <<state, silence>>
     \/ ~has_speech /\ state' = "silence" /\ silence' = silence + IntervalFrames

\* Faulty variant: speech after a pause leaves the silence counted.
InSilenceNoReset(has_speech) ==
  /\ state = "silence"
  /\ speech_buffer' = speech_buffer \o chunk
  /\ \/ has_speech /\ state' = "speech" /\ UNCHANGED silence
     \/ ~has_speech /\ silence' = silence + IntervalFrames /\ UNCHANGED state

InSilence(has_speech) ==
  /\ state = "silence"
  /\ speech_buffer' = speech_buffer \o chunk
  /\ \/ has_speech /\ state' = "speech" /\ silence' = 0
     \/ ~has_speech /\ silence' = silence + IntervalFrames /\ UNCHANGED state

\* A round: the chunk moves the state on, and the segment is recognised when
\* it is long enough and silent for long, or as long as it may get.
Round(has_speech) ==
  /\ thread = "chunk"
  /\ InIdle(has_speech) \/ InSpeech(has_speech) \/ InSilence(has_speech)
  /\ spoken' = IF has_speech THEN spoken \cup ToSet(chunk) ELSE spoken
  /\ shortfall' = IF has_speech \/ state = "idle" THEN 0
                  ELSE shortfall + IntervalFrames - Len(chunk)
  /\ chunk' = <<>>
  /\ thread' = IF /\ state' # "idle"
                  /\ Len(speech_buffer') >= MinSpeech
                  /\ silence' >= SilenceTrigger \/ Len(speech_buffer') >= MaxSpeech
               THEN "recognize" ELSE "head"
  /\ UNCHANGED <<running, audio_buffer, calibrated, utterance_count, utterances, hurried>>

\* Faulty variant: nothing of the counted silence is kept.
TrimmedWithTail ==
  IF silence > 0 /\ Len(speech_buffer) > silence + MinSpeech
  THEN SubSeq(speech_buffer, 1, Len(speech_buffer) - silence)
  ELSE speech_buffer

\* The segment without the counted silence beyond TailTrim, when enough is left.
Trimmed ==
  LET remove == silence - TailTrim
  IN  IF remove > 0 /\ Len(speech_buffer) > remove + MinSpeech
      THEN SubSeq(speech_buffer, 1, Len(speech_buffer) - remove)
      ELSE speech_buffer

\* transcribe_audio runs without a lock; a text that is empty, or that the
\* model is known to make up, is not reported.
Recognize ==
  /\ thread = "recognize"
  /\ utterances' = Append(utterances, Trimmed)
  /\ utterance_count' \in {utterance_count, utterance_count + 1}
  /\ state' = "idle" /\ speech_buffer' = <<>> /\ silence' = 0
  /\ thread' = "head"
  /\ hurried' = IF shortfall > TailTrim THEN hurried \cup ToSet(speech_buffer) ELSE hurried
  /\ shortfall' = 0
  /\ UNCHANGED <<running, audio_buffer, chunk, calibrated, spoken>>

ProcessLoop ==
  \/ LoopHead
  \/ TakeChunk
  \/ Calibrate
  \/ \E has_speech \in BOOLEAN : Round(has_speech)
  \/ Recognize

-----------------------------------------------------------------------------
\* Frames that follow one another.
Unbroken(frames) ==
  \A i \in 1 .. Len(frames) - 1 : frames[i + 1] = frames[i] + 1

Ascending(frames) ==
  \A i \in 1 .. Len(frames) - 1 : frames[i] < frames[i + 1]

\* Each utterance is one unbroken stretch of the audio, and utterances, open
\* segment, chunk and buffer follow one another in time.
InOrder ==
  /\ \A i \in 1 .. Len(utterances) : Unbroken(utterances[i])
  /\ Unbroken(speech_buffer \o IF state = "idle" THEN <<>> ELSE chunk)
  /\ Ascending(FlattenSeq(utterances) \o speech_buffer \o chunk \o audio_buffer)
  /\ utterance_count <= Len(utterances)

\* What the microphone appends, also while a recognition runs, is neither lost
\* within a segment nor recognised twice, and a chunk above the threshold is in
\* an utterance or in the open segment.  The trimmed tail is counted in rounds,
\* while audio comes in chunks of any length: it reaches back into speech only
\* where the chunks of the closing silence were shorter than their rounds, by
\* more in all than the tail that is kept.
SpeechKept ==
  /\ InOrder
  /\ spoken \subseteq ToSet(FlattenSeq(utterances)) \cup ToSet(speech_buffer) \cup hurried

\* What realtime.hpp:239 says of the trimming: it removes silence.  This is so
\* only where the microphone runs on, because the code counts an interval for
\* every chunk without speech and removes as many samples, however few came.
TrimsOnlySilence ==
  thread = "recognize" =>
    \A i \in Len(Trimmed) + 1 .. Len(speech_buffer) : speech_buffer[i] \notin spoken
=============================================================================
