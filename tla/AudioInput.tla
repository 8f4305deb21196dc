------------------------------ MODULE AudioInput ------------------------------
(***************************************************************************)
(* The microphone (src/pipeline/audio_capture.cpp) and what it feeds: the  *)
(* realtime recognizer of test_realtime, or the recorder behind the C SDK. *)
(* The device calls back on a thread of its own, with as many frames as it *)
(* has, whatever the thread that started it is doing.  While it runs it    *)
(* hears an interval of audio in an interval of time, and holds back no    *)
(* more of it than the next callback will bring.                           *)
(***************************************************************************)
EXTENDS RealtimeRecognizer, SdkPushToTalk

CONSTANTS
  NumFrames,  \* bound: frames heard in a behaviour
  MaxCallback \* frames of the longest callback

ASSUME InputAssumption == {NumFrames, MaxCallback} \subseteq Nat \ {0}

VARIABLES
  device, \* AudioCapture: "none", "ready", "capturing"
  sink,   \* what its callback feeds: "recognizer" or "recorder"
  heard,  \* frames delivered so far
  late,   \* frames it heard while the thread slept and has not delivered
  gap     \* whether it stood still at a time since the last chunk above the
          \* threshold

paceVars == <<late, gap>>

vars == <<realtimeVars, sdkVars, device, sink, heard, paceVars>>

Init ==
  /\ RealtimeInit
  /\ SdkInit
  /\ device = "none"
  /\ sink \in {"recognizer", "recorder"}
  /\ heard = 0
  /\ late = 0 /\ gap = TRUE

CaptureInit ==
  /\ device = "none"
  /\ device' = "ready"
  /\ UNCHANGED <<realtimeVars, sdkVars, sink, heard, paceVars>>

CaptureStart ==
  /\ device = "ready"
  /\ device' = "capturing"
  /\ UNCHANGED <<realtimeVars, sdkVars, sink, heard, paceVars>>

CaptureStop ==
  /\ device = "capturing"
  /\ device' = "ready"
  /\ late' = 0 /\ gap' = TRUE
  /\ UNCHANGED <<realtimeVars, sdkVars, sink, heard>>

\* The device's callback.
OnAudioData ==
  /\ device = "capturing"
  /\ \E n \in 1 .. MaxCallback :
       LET frames == [i \in 1 .. n |-> heard + i]
       IN  /\ heard + n <= NumFrames
           /\ heard' = heard + n
           /\ late' = Max({late - n, 0})
           /\ IF sink = "recognizer"
              THEN FeedRecognizer(frames) /\ UNCHANGED sdkVars
              ELSE PttFeed(frames) /\ UNCHANGED realtimeVars
  /\ UNCHANGED <<device, sink, gap>>

\* The application starts and stops the recognizer, whose thread runs on.
\* When it has slept for an interval, a running device has heard as much.
Recognizing ==
  /\ sink = "recognizer"
  /\ StartRecognizer \/ StopRecognizer \/ ProcessLoop
  /\ thread = "sleep" /\ thread' # "sleep" => late <= MaxCallback
  /\ late' = IF thread = "head" /\ thread' = "sleep" /\ device = "capturing"
             THEN late + IntervalFrames ELSE late
  /\ gap' = IF thread = "chunk" /\ spoken' # spoken THEN device # "capturing" ELSE gap
  /\ UNCHANGED <<sdkVars, device, sink, heard>>

Recording ==
  /\ sink = "recorder"
  /\ SdkCall
  /\ UNCHANGED <<realtimeVars, device, sink, heard, paceVars>>

Next ==
  \/ CaptureInit
  \/ CaptureStart
  \/ CaptureStop
  \/ OnAudioData
  \/ Recognizing
  \/ Recording

Spec == Init /\ [][Next]_vars

-----------------------------------------------------------------------------
\* While the microphone runs on through the closing silence of a segment,
\* trimming cuts no speech off its end, though callbacks and the rounds of the
\* thread keep their own time: a tail no shorter than a callback makes up for
\* what is still on its way.
SteadyAudioKeepsSpeech == ~gap /\ MaxCallback <= TailTrim => TrimsOnlySilence

(* What the recognizer recognises are unbroken stretches of what the       *)
(* microphone heard, in order and none twice, and every chunk above the    *)
(* threshold is in one of them or in the open segment.  Trimming may cut   *)
(* such a chunk only where the chunks of the closing silence lacked more   *)
(* to their intervals than the tail that is kept (realtime.hpp:240), and   *)
(* not at all while the microphone runs on.                                *)
SpeechHeardOnce == SpeechKept /\ SteadyAudioKeepsSpeech
=============================================================================
