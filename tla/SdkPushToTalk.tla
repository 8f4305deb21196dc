---------------------------- MODULE SdkPushToTalk ----------------------------
(***************************************************************************)
(* The handle of the C SDK (src/sdk/funasr_sdk.cpp) and the recorder in it *)
(* (PushToTalkRecorder of src/pipeline/realtime.hpp).  The recorder has a  *)
(* lock of its own; the handle's lock covers the recognizer and its        *)
(* settings, and no call on the recorder.                                  *)
(*                                                                         *)
(* Three threads use a handle: one feeds audio, the user's initialises,    *)
(* starts and stops, and another transcribes audio of its own and sets the *)
(* hot words.  Replacing the recorder is atomic here, as it is for callers *)
(* that never initialise a handle while they feed it.                      *)
(***************************************************************************)
EXTENDS Integers, Sequences, SequencesExt

CONSTANTS
  Caps  \* recording lengths a configuration can ask for, in frames

ASSUME CapsAssumption == Caps \subseteq Nat \ {0} /\ Caps # {}

VARIABLES
  recorder,    \* recording_, samples_, truncated_ and the cap
  initialized, \* the model is loaded
  holder,      \* who holds the handle's lock: "user", "other" or "nobody"
  hotwords,    \* whether the prompt has hot words
  call,        \* the user's call in progress: where it is, the audio and the
               \* flag it carries
  other,       \* the other thread's: "none", "transcribing"
  answer,      \* what the last call of either returned
  held         \* what has been fed since the key went down, and whether it is

sdkVars == <<recorder, initialized, holder, hotwords, call, other, answer, held>>

NewRecorder(cap) ==
  [recording |-> FALSE, samples |-> <<>>, truncated |-> FALSE, cap |-> cap]

NoCall == [at |-> "none", audio |-> <<>>, truncated |-> FALSE]

Released == [down |-> FALSE, frames |-> <<>>]

\* funasr_create.
SdkInit ==
  /\ recorder \in {NewRecorder(cap) : cap \in Caps}
  /\ initialized = FALSE
  /\ holder = "nobody"
  /\ hotwords = FALSE
  /\ call = NoCall
  /\ other = "none"
  /\ answer = "none"
  /\ held = Released

-----------------------------------------------------------------------------
(* funasr_init: under the lock to the end.                                 *)

BeginInit(cap) ==
  /\ call.at = "none" /\ holder = "nobody"
  /\ holder' = "user"
  /\ initialized' = FALSE
  /\ recorder' = NewRecorder(cap)
  /\ call' = [NoCall EXCEPT !.at = "loading"]
  /\ held' = Released
  /\ UNCHANGED <<hotwords, other, answer>>

\* The model, or the device, cannot be set up, or both can.
EndInit ==
  /\ call.at = "loading"
  /\ \/ initialized' = TRUE /\ answer' = "ok"
     \/ UNCHANGED initialized /\ answer' = "init failed"
  /\ holder' = "nobody"
  /\ call' = NoCall
  /\ UNCHANGED <<recorder, hotwords, other, held>>

-----------------------------------------------------------------------------
(* The recorder.                                                           *)

PttStart ==
  /\ call.at = "none"
  /\ recorder' = [recorder EXCEPT !.samples = <<>>, !.recording = TRUE, !.truncated = FALSE]
  /\ answer' = "ok"
  /\ held' = [down |-> TRUE, frames |-> <<>>]
  /\ UNCHANGED <<initialized, holder, hotwords, call, other>>

\* Audio beyond the cap is dropped.
Fed(r, frames) ==
  LET copy == Min({r.cap - Len(r.samples), Len(frames)})
  IN  [r EXCEPT !.samples = @ \o SubSeq(frames, 1, copy),
                !.truncated = @ \/ copy < Len(frames)]

PttFeed(frames) ==
  /\ recorder' = IF recorder.recording THEN Fed(recorder, frames) ELSE recorder
  /\ held' = IF held.down THEN [held EXCEPT !.frames = @ \o frames] ELSE held
  /\ UNCHANGED <<initialized, holder, hotwords, call, other, answer>>

-----------------------------------------------------------------------------
(* funasr_ptt_stop_and_transcribe: two visits to the recorder, then the    *)
(* handle's lock.                                                          *)

\* Faulty variant: the recorder goes on recording.
StopStillRecording ==
  /\ call.at = "none"
  /\ call' = [at |-> "stopped", audio |-> recorder.samples, truncated |-> FALSE]
  /\ recorder' = [recorder EXCEPT !.samples = <<>>]
  /\ held' = IF held.down THEN [held EXCEPT !.down = FALSE] ELSE Released
  /\ UNCHANGED <<initialized, holder, hotwords, other, answer>>

PttStop ==
  /\ call.at = "none"
  /\ call' = [at |-> "stopped", audio |-> recorder.samples, truncated |-> FALSE]
  /\ recorder' = [recorder EXCEPT !.samples = <<>>, !.recording = FALSE]
  /\ held' = IF held.down THEN [held EXCEPT !.down = FALSE] ELSE Released
  /\ UNCHANGED <<initialized, holder, hotwords, other, answer>>

ReadTruncated ==
  /\ call.at = "stopped"
  /\ call' = [call EXCEPT !.at = "waiting", !.truncated = recorder.truncated]
  /\ UNCHANGED <<recorder, initialized, holder, hotwords, other, answer, held>>

\* transcribe_samples refuses empty audio and a handle without a model.
Refusal(audio) ==
  CASE audio = <<>> -> "invalid argument"
    [] audio # <<>> /\ ~initialized -> "not initialized"
    [] OTHER -> "none"

TranscribeRecording ==
  /\ call.at = "waiting" /\ holder = "nobody"
  /\ \/ /\ Refusal(call.audio) # "none"
        /\ answer' = Refusal(call.audio)
        /\ call' = NoCall
        /\ UNCHANGED holder
     \/ /\ Refusal(call.audio) = "none"
        /\ holder' = "user"
        /\ call' = [call EXCEPT !.at = "transcribing"]
        /\ UNCHANGED answer
  /\ UNCHANGED <<recorder, initialized, hotwords, other, held>>

\* The text may be empty, or longer than the caller's buffer.
Outcomes == {"ok", "cut short", "transcription failed"}

RecordingTranscribed ==
  /\ call.at = "transcribing"
  /\ answer' \in Outcomes
  /\ holder' = "nobody"
  /\ call' = NoCall
  /\ UNCHANGED <<recorder, initialized, hotwords, other, held>>

-----------------------------------------------------------------------------
(* The other thread.                                                       *)

TranscribeF32 ==
  /\ other = "none" /\ holder = "nobody"
  /\ \/ ~initialized /\ answer' = "not initialized" /\ UNCHANGED <<holder, other>>
     \/ initialized /\ holder' = "other" /\ other' = "transcribing" /\ UNCHANGED answer
  /\ UNCHANGED <<recorder, initialized, hotwords, call, held>>

TranscribedF32 ==
  /\ other = "transcribing"
  /\ answer' \in Outcomes
  /\ holder' = "nobody"
  /\ other' = "none"
  /\ UNCHANGED <<recorder, initialized, hotwords, call, held>>

\* A text or a file of hot words may hold none.
SetHotwords ==
  /\ other = "none" /\ holder = "nobody"
  /\ hotwords' \in BOOLEAN
  /\ answer' = "ok"
  /\ UNCHANGED <<recorder, initialized, holder, call, other, held>>

SdkCall ==
  \/ \E cap \in Caps : BeginInit(cap)
  \/ EndInit
  \/ PttStart
  \/ PttStop
  \/ ReadTruncated
  \/ TranscribeRecording
  \/ RecordingTranscribed
  \/ TranscribeF32
  \/ TranscribedF32
  \/ SetHotwords

-----------------------------------------------------------------------------
\* What a stop hands to the recognizer, with its flag, is what was fed while
\* the key was down: all of it, or its beginning up to the cap and the flag
\* set.  Audio that arrives between the two visits to the recorder, or while
\* the call waits for the lock, gets into neither.
RecordingsAreWhole ==
  LET fed == Len(held.frames)
      cap == recorder.cap
  IN  call.at = "transcribing" =>
        /\ call.audio = SubSeq(held.frames, 1, Min({fed, cap}))
        /\ call.truncated = (fed > cap)
=============================================================================
