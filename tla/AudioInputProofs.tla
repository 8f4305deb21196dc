--------------------------- MODULE AudioInputProofs ---------------------------
(***************************************************************************)
(* What becomes of the audio, for every length of recordings and segments, *)
(* every number of frames and every size of the device's callbacks.        *)
(*                                                                         *)
(* Push to talk through the C SDK: what a stop hands to the recognizer is  *)
(* what was fed while the key was down (SdkInv).  The realtime recognizer: *)
(* every stretch of speech is heard once, with what trimming may remove    *)
(* told by what the chunks of the closing silence lacked (HeardInv), which *)
(* is bounded while the microphone runs on (PaceInv).                      *)
(***************************************************************************)
EXTENDS AudioInput, SequenceTheorems, WellFoundedInduction, TLAPS

Caught(frames, cap) == SubSeq(frames, 1, Min({Len(frames), cap}))

Overrun(frames, cap) == Len(frames) > cap

IsRecorder(r) ==
  r \in [recording : BOOLEAN, samples : Seq(Nat), truncated : BOOLEAN, cap : Nat \ {0}]

\* The inductive invariant.  The flag is read after the recording was taken,
\* and says nothing of an empty one: a stop without a start reads the flag of
\* the recording before, and is refused.
SdkInv ==
  /\ IsRecorder(recorder)
  /\ held \in [down : BOOLEAN, frames : Seq(Nat)]
  /\ call \in [at : {"none", "loading", "stopped", "waiting", "transcribing"},
               audio : Seq(Nat), truncated : BOOLEAN]
  /\ heard \in Nat
  /\ recorder.recording = held.down
  /\ held.down => /\ call.at = "none"
                  /\ recorder.samples = Caught(held.frames, recorder.cap)
                  /\ recorder.truncated = Overrun(held.frames, recorder.cap)
  /\ ~held.down => recorder.samples = <<>>
  /\ call.at \in {"stopped", "waiting", "transcribing"} =>
       call.audio = Caught(held.frames, recorder.cap)
  /\ call.at = "stopped" /\ call.audio # <<>> =>
       recorder.truncated = Overrun(held.frames, recorder.cap)
  /\ call.at = "waiting" /\ call.audio # <<>> =>
       call.truncated = Overrun(held.frames, recorder.cap)
  /\ call.at = "transcribing" =>
       call.truncated = Overrun(held.frames, recorder.cap)

-----------------------------------------------------------------------------
(***************************************************************************)
(* What the cap keeps of a recording.                                      *)
(***************************************************************************)

(* The smaller of two numbers.                                              *)
LEMMA MinOfTwo ==
    ASSUME NEW a \in Nat, NEW b \in Nat
    PROVE  Min({a, b}) = IF a <= b THEN a ELSE b
<1> DEFINE m == IF a <= b THEN a ELSE b
<1>1. m \in {a, b} /\ \A y \in {a, b} : m <= y
  OBVIOUS
<1>2. \A x \in {a, b} : (\A y \in {a, b} : x <= y) => x = m
  OBVIOUS
<1> HIDE DEF m
<1>3. Min({a, b}) = m
  BY <1>1, <1>2 DEF Min
<1> QED  BY <1>3 DEF m

(* The first frames of a recording.                                         *)
LEMMA PrefixOfFrames ==
    ASSUME NEW f \in Seq(Nat), NEW n \in 0 .. Len(f)
    PROVE  /\ SubSeq(f, 1, n) \in Seq(Nat)
           /\ Len(SubSeq(f, 1, n)) = n
           /\ \A i \in 1 .. n : SubSeq(f, 1, n)[i] = f[i]
<1>1. n \in Int /\ 1 \in Int /\ \A i \in 1 .. n : f[i] \in Nat
  OBVIOUS
<1>2. /\ SubSeq(f, 1, n) \in Seq(Nat)
      /\ Len(SubSeq(f, 1, n)) = IF 1 <= n THEN n - 1 + 1 ELSE 0
      /\ \A i \in 1 .. n - 1 + 1 : SubSeq(f, 1, n)[i] = f[1 + i - 1]
  BY <1>1, SubSeqProperties
<1> QED  BY <1>2

(* Nothing is caught of nothing, and at least a frame of a longer          *)
(* recording.                                                              *)
LEMMA CaughtFrames ==
    ASSUME NEW f \in Seq(Nat), NEW cap \in Nat \ {0}
    PROVE  LET n == IF Len(f) <= cap THEN Len(f) ELSE cap
           IN  /\ Caught(f, cap) \in Seq(Nat)
               /\ Len(Caught(f, cap)) = n
               /\ \A i \in 1 .. n : Caught(f, cap)[i] = f[i]
<1> DEFINE n == IF Len(f) <= cap THEN Len(f) ELSE cap
<1>1. n \in 0 .. Len(f)
  OBVIOUS
<1>2. Min({Len(f), cap}) = n
  BY MinOfTwo
<1> HIDE DEF n
<1>3. Caught(f, cap) = SubSeq(f, 1, n)
  BY <1>2 DEF Caught
<1>4. /\ SubSeq(f, 1, n) \in Seq(Nat) /\ Len(SubSeq(f, 1, n)) = n
      /\ \A i \in 1 .. n : SubSeq(f, 1, n)[i] = f[i]
  BY <1>1, PrefixOfFrames
<1> QED  BY <1>3, <1>4 DEF n

(* Nothing is caught of nothing.                                            *)
LEMMA NothingCaught ==
    ASSUME NEW cap \in Nat \ {0}
    PROVE  Caught(<<>>, cap) = <<>> /\ Overrun(<<>>, cap) = FALSE
<1> DEFINE none == <<>>
<1>1. none \in Seq(Nat) /\ Len(none) = 0
  OBVIOUS
<1> HIDE DEF none
<1>2. Caught(none, cap) \in Seq(Nat) /\ Len(Caught(none, cap)) = 0
  <2>1. /\ Caught(none, cap) \in Seq(Nat)
        /\ Len(Caught(none, cap)) = IF Len(none) <= cap THEN Len(none) ELSE cap
    BY <1>1, CaughtFrames, Zenon
  <2> QED  BY <1>1, <2>1
<1>3. Caught(none, cap) = <<>> /\ Overrun(none, cap) = FALSE
  BY <1>1, <1>2 DEF Overrun
<1> QED  BY <1>3 DEF none

(* What feed_audio leaves alone.                                            *)
LEMMA RecorderExcept ==
    ASSUME NEW r, IsRecorder(r), NEW s, NEW b, NEW q,
           q = [r EXCEPT !.samples = s, !.truncated = b]
    PROVE  q = [recording |-> r.recording, samples |-> s, truncated |-> b, cap |-> r.cap]
BY DEF IsRecorder

(* feed_audio: what fits is appended, and the flag says whether all did.   *)
LEMMA FeedingCatches ==
    ASSUME NEW f \in Seq(Nat), NEW g \in Seq(Nat), NEW cap \in Nat \ {0}, NEW r,
           IsRecorder(r), r.cap = cap,
           r.samples = Caught(f, cap), r.truncated = Overrun(f, cap)
    PROVE  Fed(r, g) = [recording |-> r.recording,
                        samples   |-> Caught(f \o g, cap),
                        truncated |-> Overrun(f \o g, cap),
                        cap       |-> cap]
<1> DEFINE old  == r.samples
           had  == IF Len(f) <= cap THEN Len(f) ELSE cap
           copy == IF cap - had <= Len(g) THEN cap - had ELSE Len(g)
           all  == f \o g
           now  == IF Len(all) <= cap THEN Len(all) ELSE cap
           new  == SubSeq(g, 1, copy)
<1>1. /\ old \in Seq(Nat) /\ Len(old) = had
      /\ \A i \in 1 .. had : old[i] = f[i]
  BY CaughtFrames
<1>2. /\ all \in Seq(Nat) /\ Len(all) = Len(f) + Len(g)
      /\ \A i \in 1 .. Len(f) + Len(g) :
           all[i] = IF i <= Len(f) THEN f[i] ELSE g[i - Len(f)]
  BY ConcatProperties
<1>3. /\ Caught(all, cap) \in Seq(Nat) /\ Len(Caught(all, cap)) = now
      /\ \A i \in 1 .. now : Caught(all, cap)[i] = all[i]
  BY <1>2, CaughtFrames
<1>4. /\ Len(f) \in Nat /\ Len(g) \in Nat /\ had \in Nat /\ copy \in 0 .. Len(g)
      /\ had + copy = now /\ had <= Len(f)
      /\ copy > 0 => had = Len(f)
      /\ cap - had \in Nat
  <2> HIDE DEF all
  <2>1. Len(f) \in Nat /\ Len(g) \in Nat /\ cap \in Nat /\ Len(all) = Len(f) + Len(g)
    BY <1>2
  <2>2. CASE Len(f) <= cap /\ cap - Len(f) <= Len(g)
    BY <2>1, <2>2
  <2>3. CASE Len(f) <= cap /\ ~ (cap - Len(f) <= Len(g))
    BY <2>1, <2>3
  <2>4. CASE ~ (Len(f) <= cap)
    BY <2>1, <2>4
  <2> QED  BY <2>2, <2>3, <2>4
<1>5. Min({cap - Len(old), Len(g)}) = copy
  BY <1>1, <1>4, MinOfTwo
<1> HIDE DEF copy, old
<1>6. /\ new \in Seq(Nat) /\ Len(new) = copy /\ \A i \in 1 .. copy : new[i] = g[i]
  BY <1>4, PrefixOfFrames
<1> HIDE DEF had, now, new, all
<1>7. Fed(r, g) = [r EXCEPT !.samples = old \o new,
                            !.truncated = r.truncated \/ copy < Len(g)]
  BY <1>5 DEF Fed, new, old
<1>8. old \o new = Caught(all, cap)
  <2>1. /\ old \o new \in Seq(Nat) /\ Len(old \o new) = had + copy
        /\ \A i \in 1 .. had + copy :
             (old \o new)[i] = IF i <= had THEN old[i] ELSE new[i - had]
    <3>1. /\ old \o new \in Seq(Nat)
          /\ Len(old \o new) = Len(old) + Len(new)
          /\ \A i \in 1 .. Len(old) + Len(new) :
               (old \o new)[i] = IF i <= Len(old) THEN old[i]
                                       ELSE new[i - Len(old)]
      BY <1>1, <1>6, ConcatProperties, Zenon
    <3> QED  BY ONLY <3>1, <1>1, <1>6
  <2>2. ASSUME NEW i \in 1 .. now
        PROVE  (old \o new)[i] = Caught(all, cap)[i]
    <3>1. i \in 1 .. had + copy /\ i \in Nat /\ i >= 1
      BY <1>4
    <3>2. CASE i <= had
      <4>1. i \in 1 .. had /\ i <= Len(f) /\ i \in 1 .. Len(f) + Len(g)
        BY <1>4, <3>1, <3>2
      <4> QED  BY <1>1, <1>2, <1>3, <2>1, <3>1, <3>2, <4>1
    <3>3. CASE ~ (i <= had)
      <4>1. /\ i - had \in 1 .. copy /\ copy > 0 /\ had = Len(f)
            /\ i \in 1 .. Len(f) + Len(g) /\ ~ (i <= Len(f))
        BY <1>4, <3>1, <3>3
      <4>2. (old \o new)[i] = g[i - had]
        BY <1>6, <2>1, <3>1, <3>3, <4>1
      <4>3. Caught(all, cap)[i] = g[i - Len(f)]
        BY <1>2, <1>3, <4>1
      <4> QED  BY <4>1, <4>2, <4>3
    <3> QED  BY <3>2, <3>3
  <2>3. Len(old \o new) = Len(Caught(all, cap))
        /\ \A i \in 1 .. Len(old \o new) : (old \o new)[i] = Caught(all, cap)[i]
    BY <1>3, <1>4, <2>1, <2>2
  <2> QED  BY <1>3, <2>1, <2>3, SeqEqual
<1>9. (r.truncated \/ copy < Len(g)) = Overrun(all, cap)
  <2>1. Len(f) \in Nat /\ Len(g) \in Nat /\ cap \in Nat /\ Len(all) = Len(f) + Len(g)
    BY <1>2
  <2>2. (Len(f) > cap \/ copy < Len(g)) = (Len(all) > cap)
    BY <2>1 DEF had, copy
  <2>3. r.truncated = (Len(f) > cap) /\ Overrun(all, cap) = (Len(all) > cap)
    BY DEF Overrun
  <2> QED  BY <2>2, <2>3, Zenon
<1>10. Fed(r, g) = [recording |-> r.recording, samples |-> old \o new,
                    truncated |-> r.truncated \/ copy < Len(g), cap |-> r.cap]
  <2> DEFINE q == Fed(r, g)
  <2> HIDE DEF q
  <2>1. q = [r EXCEPT !.samples = old \o new, !.truncated = r.truncated \/ copy < Len(g)]
    BY <1>7 DEF q
  <2>2. q = [recording |-> r.recording, samples |-> old \o new,
             truncated |-> r.truncated \/ copy < Len(g), cap |-> r.cap]
    BY <2>1, RecorderExcept, Zenon
  <2> QED  BY <2>2 DEF q
<1> QED  BY <1>8, <1>9, <1>10, Zenon DEF all

-----------------------------------------------------------------------------
(***************************************************************************)
(* The steps.                                                              *)
(***************************************************************************)

(* A callback of the device feeds, whether the key is down or not.          *)
LEMMA FeedingKeeps ==
    ASSUME SdkInv, NEW frames \in Seq(Nat), PttFeed(frames), heard' \in Nat
    PROVE  SdkInv'
<1>1. call' = call
  BY DEF PttFeed
<1>2. CASE held.down
  <2> DEFINE all == held.frames \o frames
  <2>1. /\ IsRecorder(recorder) /\ held.frames \in Seq(Nat) /\ recorder.cap \in Nat \ {0}
        /\ recorder.recording = TRUE /\ call.at = "none"
        /\ recorder.samples = Caught(held.frames, recorder.cap)
        /\ recorder.truncated = Overrun(held.frames, recorder.cap)
    BY <1>2 DEF SdkInv, IsRecorder
  <2>2. Fed(recorder, frames) = [recording |-> recorder.recording,
                                 samples   |-> Caught(held.frames \o frames, recorder.cap),
                                 truncated |-> Overrun(held.frames \o frames, recorder.cap),
                                 cap       |-> recorder.cap]
    BY <2>1, FeedingCatches
  <2>3. recorder' = [recording |-> TRUE, samples |-> Caught(all, recorder.cap),
                     truncated |-> Overrun(all, recorder.cap), cap |-> recorder.cap]
    BY <1>2, <2>1, <2>2 DEF PttFeed
  <2>4. held' = [down |-> TRUE, frames |-> all]
    BY <1>2 DEF PttFeed, SdkInv
  <2>5. all \in Seq(Nat)
    BY <2>1, ConcatProperties
  <2> HIDE DEF all
  <2>6. Caught(all, recorder.cap) \in Seq(Nat)
    BY <2>1, <2>5, CaughtFrames, Zenon
  <2>7. Overrun(all, recorder.cap) \in BOOLEAN
    BY DEF Overrun
  <2>8. call \in [at : {"none", "loading", "stopped", "waiting", "transcribing"},
                  audio : Seq(Nat), truncated : BOOLEAN]
    BY DEF SdkInv
  <2> QED  BY <1>1, <2>1, <2>3, <2>4, <2>5, <2>6, <2>7, <2>8 DEF SdkInv, IsRecorder
<1>3. CASE ~held.down
  BY <1>1, <1>3 DEF PttFeed, SdkInv, IsRecorder
<1> QED  BY <1>2, <1>3

(* One case for every call of the user's thread.                            *)
LEMMA SdkCallKeeps ==
    ASSUME SdkInv, SdkCall, UNCHANGED heard
    PROVE  SdkInv'
<1>1. <<>> \in Seq(Nat)
  OBVIOUS
<1>2. ASSUME NEW cap \in Caps, BeginInit(cap)
      PROVE  SdkInv'
  <2>1. /\ recorder' = [recording |-> FALSE, samples |-> <<>>, truncated |-> FALSE, cap |-> cap]
        /\ held' = [down |-> FALSE, frames |-> <<>>]
        /\ call' = [at |-> "loading", audio |-> <<>>, truncated |-> FALSE]
    BY <1>2 DEF BeginInit, NewRecorder, NoCall, Released
  <2>2. cap \in Nat \ {0}
    BY CapsAssumption
  <2> QED  BY <1>1, <2>1, <2>2 DEF SdkInv, IsRecorder
<1>3. ASSUME UNCHANGED recorder, UNCHANGED held,
             call' = NoCall \/ UNCHANGED call
      PROVE  SdkInv'
  <2>1. CASE UNCHANGED call
    BY <1>3, <2>1 DEF SdkInv, IsRecorder
  <2>2. CASE call' = NoCall
    <3>1. call' = [at |-> "none", audio |-> <<>>, truncated |-> FALSE]
      BY <2>2 DEF NoCall
    <3> QED  BY <1>1, <1>3, <3>1 DEF SdkInv, IsRecorder
  <2> QED  BY <1>3, <2>1, <2>2
<1>4. CASE EndInit \/ RecordingTranscribed \/ TranscribeF32 \/ TranscribedF32 \/ SetHotwords
  BY <1>3, <1>4 DEF EndInit, RecordingTranscribed, TranscribeF32, TranscribedF32, SetHotwords
<1>5. CASE PttStart
  <2>1. /\ recorder' = [recording |-> TRUE, samples |-> <<>>, truncated |-> FALSE,
                        cap |-> recorder.cap]
        /\ held' = [down |-> TRUE, frames |-> <<>>]
        /\ UNCHANGED call /\ call.at = "none"
    BY <1>5 DEF PttStart, SdkInv, IsRecorder
  <2>2. recorder.cap \in Nat \ {0} /\ call' \in [
            at : {"none", "loading", "stopped", "waiting", "transcribing"},
            audio : Seq(Nat), truncated : BOOLEAN]
    BY <2>1 DEF SdkInv, IsRecorder
  <2>3. Caught(<<>>, recorder.cap) = <<>> /\ Overrun(<<>>, recorder.cap) = FALSE
    BY <2>2, NothingCaught
  <2> QED  BY <1>1, <2>1, <2>2, <2>3 DEF SdkInv, IsRecorder
<1>6. CASE PttStop
  <2>1. /\ recorder' = [recording |-> FALSE, samples |-> <<>>,
                        truncated |-> recorder.truncated, cap |-> recorder.cap]
        /\ call' = [at |-> "stopped", audio |-> recorder.samples, truncated |-> FALSE]
        /\ held' = IF held.down THEN [down |-> FALSE, frames |-> held.frames]
                   ELSE [down |-> FALSE, frames |-> <<>>]
    <3>1. recorder' = [recording |-> FALSE, samples |-> <<>>,
                       truncated |-> recorder.truncated, cap |-> recorder.cap]
      BY <1>6 DEF PttStop, SdkInv, IsRecorder
    <3>2. call' = [at |-> "stopped", audio |-> recorder.samples, truncated |-> FALSE]
      BY <1>6 DEF PttStop
    <3>3. ASSUME held.down PROVE held' = [down |-> FALSE, frames |-> held.frames]
      BY <1>6, <3>3 DEF PttStop, SdkInv
    <3>4. ASSUME ~held.down PROVE held' = [down |-> FALSE, frames |-> <<>>]
      BY <1>6, <3>4 DEF PttStop, Released
    <3> QED  BY <3>1, <3>2, <3>3, <3>4, Zenon
  <2>2. recorder.cap \in Nat \ {0} /\ recorder.samples \in Seq(Nat)
        /\ recorder.truncated \in BOOLEAN /\ held.frames \in Seq(Nat)
    BY DEF SdkInv, IsRecorder
  <2>3. Caught(<<>>, recorder.cap) = <<>>
    BY <2>2, NothingCaught
  <2>4. recorder.samples = Caught(held'.frames, recorder.cap)
        /\ (recorder.samples # <<>> =>
              recorder.truncated = Overrun(held'.frames, recorder.cap))
    BY <2>1, <2>3 DEF SdkInv, IsRecorder
  <2> QED  BY <1>1, <2>1, <2>2, <2>4 DEF SdkInv, IsRecorder
<1>7. CASE ReadTruncated
  <2>1. /\ call' = [at |-> "waiting", audio |-> call.audio, truncated |-> recorder.truncated]
        /\ call.at = "stopped" /\ UNCHANGED <<recorder, held>>
    BY <1>7 DEF ReadTruncated, SdkInv, IsRecorder
  <2> QED  BY <2>1 DEF SdkInv, IsRecorder
<1>8. CASE TranscribeRecording
  <2>1. CASE call' = NoCall
    BY <1>3, <1>8, <2>1 DEF TranscribeRecording
  <2>2. CASE Refusal(call.audio) = "none" /\ call' = [call EXCEPT !.at = "transcribing"]
    <3>1. call.audio # <<>>
      BY <2>2 DEF Refusal
    <3>2. /\ call' = [at |-> "transcribing", audio |-> call.audio, truncated |-> call.truncated]
          /\ call.at = "waiting" /\ UNCHANGED <<recorder, held>>
      BY <1>8, <2>2 DEF TranscribeRecording, SdkInv, IsRecorder
    <3> QED  BY <3>1, <3>2 DEF SdkInv, IsRecorder
  <2> QED  BY <1>8, <2>1, <2>2 DEF TranscribeRecording
<1> QED  BY <1>2, <1>4, <1>5, <1>6, <1>7, <1>8 DEF SdkCall

-----------------------------------------------------------------------------
(***************************************************************************)
(* What a stop hands to the recognizer.                                   *)
(***************************************************************************)

(* The invariant holds.                                                     *)
LEMMA SdkInvariant == Spec => []SdkInv
<1>1. Init => SdkInv
  <2> SUFFICES ASSUME Init
               PROVE  SdkInv
    OBVIOUS
  <2>1. PICK cap \in Caps : recorder = [recording |-> FALSE, samples |-> <<>>,
                                         truncated |-> FALSE, cap |-> cap]
    BY DEF Init, SdkInit, NewRecorder
  <2>2. cap \in Nat \ {0} /\ <<>> \in Seq(Nat)
    BY CapsAssumption
  <2> QED  BY <2>1, <2>2 DEF Init, SdkInit, SdkInv, IsRecorder, NoCall, Released
<1>2. SdkInv /\ [Next]_vars => SdkInv'
  <2> SUFFICES ASSUME SdkInv, [Next]_vars
               PROVE  SdkInv'
    OBVIOUS
  <2>1. CASE UNCHANGED <<recorder, held, call, heard>>
    BY <2>1 DEF SdkInv, IsRecorder
  <2>2. CASE CaptureInit \/ CaptureStart \/ CaptureStop \/ Recognizing \/ UNCHANGED vars
    BY <2>1, <2>2 DEF CaptureInit, CaptureStart, CaptureStop, Recognizing, vars, sdkVars
  <2>3. CASE OnAudioData
    <3>1. PICK n \in 1 .. MaxCallback :
            /\ heard' = heard + n
            /\ IF sink = "recognizer" THEN UNCHANGED sdkVars
               ELSE PttFeed([i \in 1 .. n |-> heard + i])
      BY <2>3 DEF OnAudioData
    <3>2. heard \in Nat /\ n \in Nat /\ heard' \in Nat
      BY <3>1, InputAssumption DEF SdkInv, IsRecorder
    <3>3. [i \in 1 .. n |-> heard + i] \in Seq(Nat)
      <4>1. \A i \in 1 .. n : heard + i \in Nat
        BY <3>2
      <4> QED  BY <3>2, <4>1
    <3>4. CASE UNCHANGED sdkVars
      BY <3>2, <3>4 DEF SdkInv, IsRecorder, sdkVars
    <3> QED  BY <3>1, <3>2, <3>3, <3>4, FeedingKeeps
  <2>4. CASE Recording
    BY <2>4, SdkCallKeeps DEF Recording
  <2> QED  BY <2>2, <2>3, <2>4 DEF Next
<1> QED  BY <1>1, <1>2, PTL DEF Spec

(* funasr_ptt_stop_and_transcribe hands the recognizer what was fed while  *)
(* the key was down, up to the cap, with the flag that says whether there  *)
(* was more - however feeding, loading, stopping and other transcriptions  *)
(* interleave.                                                             *)
THEOREM RecordingsStayWhole == Spec => []RecordingsAreWhole
<1>1. SdkInv => RecordingsAreWhole
  BY DEF SdkInv, IsRecorder, RecordingsAreWhole, Caught, Overrun
<1> QED  BY <1>1, SdkInvariant, PTL

-----------------------------------------------------------------------------
(***************************************************************************)
(* The realtime recognizer.                                                *)
(***************************************************************************)

\* Frames that were heard one after the other, the first one after frame k.
Run(frames, k) == \A i \in 1 .. Len(frames) : frames[i] = k + i

Rising(frames) == \A i, j \in 1 .. Len(frames) : i < j => frames[i] < frames[j]

Text == FlattenSeq(utterances)

\* The last frame before the open segment.
Before == heard - Len(audio_buffer) - Len(chunk) - Len(speech_buffer)

Buffers ==
  /\ {audio_buffer, chunk, speech_buffer} \subseteq Seq(Nat)
  /\ heard \in Nat /\ silence \in Nat /\ shortfall \in Int
  /\ utterances \in Seq(Seq(Nat)) /\ Text \in Seq(Nat)
  /\ utterance_count \in 0 .. Len(utterances)

\* Segment, chunk and buffer are the latest frames, one after the other; what
\* was recognised is of earlier ones.
Timeline ==
  /\ Run(speech_buffer, Before)
  /\ Run(chunk, heard - Len(audio_buffer) - Len(chunk))
  /\ Run(audio_buffer, heard - Len(audio_buffer))
  /\ \A i \in 1 .. Len(utterances) : Unbroken(utterances[i])
  /\ Rising(Text)
  /\ \A i \in 1 .. Len(Text) : Text[i] <= Before

\* Which of them are empty where.
Phases ==
  /\ state \in {"calibrating", "idle", "speech", "silence"}
  /\ state \in {"calibrating", "idle"} \/ thread = "none" => speech_buffer = <<>>
  /\ thread = "chunk" <=> chunk # <<>>
  /\ state = "speech" => silence = 0 /\ shortfall = 0
  /\ sink # "recognizer" => thread = "none" /\ audio_buffer = <<>>

\* Of the silence counted, what was there but for the shortfall: as many frames
\* at the end of the segment are silent.
Spoken ==
  /\ spoken \subseteq ToSet(Text) \union ToSet(speech_buffer) \union hurried
  /\ shortfall <= silence
  /\ \A i \in 1 .. Len(speech_buffer) :
       i > Len(speech_buffer) - (silence - shortfall) => speech_buffer[i] \notin spoken
  /\ \A x \in spoken : x \in Nat /\ x <= heard - Len(audio_buffer) - Len(chunk)

HeardInv == Buffers /\ Timeline /\ Phases /\ Spoken

-----------------------------------------------------------------------------
(***************************************************************************)
(* Sequences of frames.                                                    *)
(***************************************************************************)

(* A set of numbers that holds 0 and, with each, the next holds them all.  *)
LEMMA Induction ==
  ASSUME NEW S, 0 \in S, \A n \in Nat : n \in S => n + 1 \in S
  PROVE  Nat \subseteq S
<1> DEFINE T == Nat \ S
           L == OpToRel(<, Nat)
<1>1. SUFFICES ASSUME T # {} PROVE FALSE
  OBVIOUS
<1>2. IsWellFoundedOn(L, Nat)
  BY NatLessThanWellFounded
<1>3. PICK x \in T : \A y \in T : ~ (<<y, x>> \in L)
  <2> T \subseteq Nat
    OBVIOUS
  <2> HIDE DEF T, L
  <2> QED BY <1>1, <1>2, WFMin
<1>4. x \in Nat /\ x # 0
  OBVIOUS
<1>5. x - 1 \in Nat /\ x - 1 \notin T
  <2>1. x - 1 \in Nat
    BY <1>4
  <2>2. <<x - 1, x>> \in L
    BY <1>4, <2>1 DEF OpToRel
  <2> QED BY <2>1, <2>2, <1>3
<1>6. x \in S
  <2>1. x - 1 \in S
    BY <1>5
  <2>2. x = (x - 1) + 1
    BY <1>4
  <2> QED BY <1>5, <2>1, <2>2
<1> QED BY <1>6

(* What FlattenSeq computes, taken apart.                                  *)
LEMMA FlattenUnfolds ==
    ASSUME NEW n \in Nat, NEW s \in [1 .. n -> Seq(Nat)]
    PROVE  n > 0 =>
             \E f : f = [i \in 1 .. n |-> IF i = 1 THEN s[i] ELSE f[i - 1] \o s[i]]
<1> DEFINE Is(h, m) == h = [i \in 1 .. m |-> IF i = 1 THEN s[i] ELSE h[i - 1] \o s[i]]
           Has == {m \in Nat : \E h : Is(h, m)}
<1>1. 0 \in Has
  <2>1. Is([i \in 1 .. 0 |-> 0], 0)
    OBVIOUS
  <2> QED  BY <2>1
<1>2. ASSUME NEW m \in Nat, m \in Has
      PROVE  m + 1 \in Has
  <2>1. PICK f : Is(f, m)
    BY <1>2
  <2> DEFINE g == [i \in 1 .. m + 1 |->
                     IF i <= m THEN f[i] ELSE IF i = 1 THEN s[i] ELSE f[i - 1] \o s[i]]
  <2>2. \A i \in 1 .. m + 1 : g[i] = IF i = 1 THEN s[i] ELSE g[i - 1] \o s[i]
    <3> TAKE i \in 1 .. m + 1
    <3>1. CASE i <= m
      <4>1. i \in 1 .. m /\ g[i] = f[i]
        BY <3>1
      <4>2. i # 1 => i - 1 \in 1 .. m + 1 /\ i - 1 <= m /\ g[i - 1] = f[i - 1]
        BY <3>1
      <4>3. f[i] = IF i = 1 THEN s[i] ELSE f[i - 1] \o s[i]
        BY <2>1, <4>1
      <4> HIDE DEF g
      <4> QED  BY <4>1, <4>2, <4>3
    <3>2. CASE ~ (i <= m)
      <4>1. g[i] = IF i = 1 THEN s[i] ELSE f[i - 1] \o s[i]
        BY <3>2
      <4>2. i # 1 => i - 1 \in 1 .. m + 1 /\ i - 1 <= m /\ g[i - 1] = f[i - 1]
        BY <3>2
      <4> HIDE DEF g
      <4> QED  BY <4>1, <4>2
    <3> QED  BY <3>1, <3>2
  <2>3. Is(g, m + 1)
    <3>1. g = [i \in 1 .. m + 1 |-> g[i]]
      OBVIOUS
    <3> HIDE DEF g
    <3> QED  BY <2>2, <3>1
  <2> HIDE DEF g, Is
  <2> QED  BY <2>3
<1> HIDE DEF Has
<1>3. Nat \subseteq Has
  BY <1>1, <1>2, Induction
<1>4. n \in Has
  BY <1>3
<1> QED  BY <1>4 DEF Has

(* The sequences FlattenSeq puts together, one by one.                     *)
Joined(f, s) ==
  f = [i \in 1 .. Len(s) |-> IF i = 1 THEN s[i] ELSE f[i - 1] \o s[i]]

LEMMA FlattenJoins ==
    ASSUME NEW s \in Seq(Seq(Nat))
    PROVE  IF Len(s) = 0 THEN FlattenSeq(s) = <<>>
           ELSE \E f : Joined(f, s) /\ FlattenSeq(s) = f[Len(s)]
<1>1. CASE Len(s) = 0
  <2>1. FlattenSeq(s) = s
    BY <1>1 DEF FlattenSeq
  <2>2. s = <<>>
    BY <1>1
  <2> QED  BY <1>1, <2>1, <2>2
<1>2. CASE Len(s) # 0
  <2>1. PICK n \in Nat : n = Len(s)
    OBVIOUS
  <2>2. s \in [1 .. n -> Seq(Nat)] /\ n > 0
    BY <1>2, <2>1
  <2>3. \E f : Joined(f, s)
    BY <2>1, <2>2, FlattenUnfolds, Zenon DEF Joined
  <2> DEFINE all == CHOOSE f : Joined(f, s)
  <2>4. Joined(all, s)
    BY <2>3
  <2>5. FlattenSeq(s) = all[Len(s)]
    BY <1>2, Zenon DEF FlattenSeq, Joined
  <2> HIDE DEF all
  <2> QED  BY <1>2, <2>4, <2>5
<1> QED  BY <1>1, <1>2

(* One sequence more comes last.                                           *)
LEMMA FlattenAppend ==
    ASSUME NEW s \in Seq(Seq(Nat)), NEW x \in Seq(Nat)
    PROVE  FlattenSeq(Append(s, x)) = FlattenSeq(s) \o x
<1>1. PICK n \in Nat : n = Len(s)
  OBVIOUS
<1> DEFINE t == Append(s, x)
<1>2. /\ t \in Seq(Seq(Nat)) /\ Len(t) = n + 1 /\ t[n + 1] = x
      /\ \A i \in 1 .. n : t[i] = s[i]
  BY <1>1
<1> HIDE DEF t
<1>3. PICK g : Joined(g, t) /\ FlattenSeq(t) = g[n + 1]
  <2>1. IF Len(t) = 0 THEN FlattenSeq(t) = <<>>
        ELSE \E f : Joined(f, t) /\ FlattenSeq(t) = f[Len(t)]
    BY <1>2, FlattenJoins, Zenon
  <2>2. Len(t) # 0 /\ Len(t) = n + 1
    BY <1>2
  <2> QED  BY <2>1, <2>2, Zenon
<1>4. \A i \in 1 .. n + 1 : g[i] = IF i = 1 THEN t[i] ELSE g[i - 1] \o t[i]
  BY <1>2, <1>3 DEF Joined
<1>5. CASE n = 0
  <2>1. FlattenSeq(s) = <<>>
    BY <1>1, <1>5, FlattenJoins
  <2>2. g[1] = x
    BY <1>2, <1>4, <1>5
  <2>3. <<>> \o x = x
    BY ConcatEmptySeq
  <2> QED  BY <1>3, <1>5, <2>1, <2>2, <2>3 DEF t
<1>6. CASE n # 0
  <2>1. PICK f : Joined(f, s) /\ FlattenSeq(s) = f[n]
    BY <1>1, <1>6, FlattenJoins
  <2>2. \A i \in 1 .. n : f[i] = IF i = 1 THEN s[i] ELSE f[i - 1] \o s[i]
    BY <1>1, <2>1 DEF Joined
  <2> DEFINE Same == {m \in Nat : m \in 1 .. n => f[m] = g[m]}
  <2>3. 0 \in Same
    OBVIOUS
  <2>4. ASSUME NEW m \in Nat, m \in Same
        PROVE  m + 1 \in Same
    <3>1. SUFFICES ASSUME m + 1 \in 1 .. n
                   PROVE  f[m + 1] = g[m + 1]
      OBVIOUS
    <3>2. m + 1 \in 1 .. n + 1 /\ t[m + 1] = s[m + 1] /\ (m + 1) - 1 = m
      BY <1>2, <3>1
    <3>3. m = 0 \/ m \in 1 .. n
      BY <3>1
    <3>4. m + 1 = 1 \/ f[m] = g[m]
      BY <2>4, <3>3
    <3>5. f[m + 1] = IF m + 1 = 1 THEN s[m + 1] ELSE f[m] \o s[m + 1]
      BY <2>2, <3>1, <3>2
    <3>6. g[m + 1] = IF m + 1 = 1 THEN t[m + 1] ELSE g[m] \o t[m + 1]
      BY <1>4, <3>2
    <3> QED  BY <3>2, <3>4, <3>5, <3>6
  <2> HIDE DEF Same
  <2>5. Nat \subseteq Same
    BY <2>3, <2>4, Induction
  <2>6. f[n] = g[n]
    <3>1. n \in Same /\ n \in 1 .. n
      BY <1>6, <2>5
    <3> QED  BY <3>1 DEF Same
  <2>7. g[n + 1] = g[n] \o x
    <3>1. n + 1 \in 1 .. n + 1 /\ n + 1 # 1 /\ (n + 1) - 1 = n
      BY <1>6
    <3> QED  BY <1>2, <1>4, <3>1
  <2> QED  BY <1>3, <2>1, <2>6, <2>7 DEF t
<1> QED  BY <1>5, <1>6

(* Frames appended to frames.                                              *)
LEMMA FramesAppended ==
    ASSUME NEW s \in Seq(Nat), NEW t \in Seq(Nat)
    PROVE  /\ s \o t \in Seq(Nat) /\ Len(s \o t) = Len(s) + Len(t)
           /\ \A i \in 1 .. Len(s) : (s \o t)[i] = s[i]
           /\ \A i \in Len(s) + 1 .. Len(s) + Len(t) : (s \o t)[i] = t[i - Len(s)]
           /\ ToSet(s \o t) = ToSet(s) \union ToSet(t)
<1>1. PICK m \in Nat, n \in Nat : m = Len(s) /\ n = Len(t)
  OBVIOUS
<1> DEFINE u == s \o t
<1>2. /\ u \in Seq(Nat) /\ Len(u) = m + n
      /\ \A i \in 1 .. m + n : u[i] = IF i <= m THEN s[i] ELSE t[i - m]
  BY <1>1, ConcatProperties
<1> HIDE DEF u
<1>3. \A i \in 1 .. m : u[i] = s[i]
  BY <1>2
<1>4. \A i \in m + 1 .. m + n : u[i] = t[i - m]
  BY <1>2
<1>5. ToSet(u) = {u[i] : i \in 1 .. m + n} /\ ToSet(s) = {s[i] : i \in 1 .. m}
      /\ ToSet(t) = {t[i] : i \in 1 .. n}
  <2>1. DOMAIN u = 1 .. m + n /\ DOMAIN s = 1 .. m /\ DOMAIN t = 1 .. n
    BY <1>1, <1>2
  <2> QED  BY <2>1, Zenon DEF ToSet
<1>6. ASSUME NEW x \in ToSet(u) PROVE x \in ToSet(s) \union ToSet(t)
  <2>1. PICK i \in 1 .. m + n : x = u[i]
    BY <1>5
  <2>2. CASE i <= m
    BY <1>3, <1>5, <2>1, <2>2
  <2>3. CASE ~ (i <= m)
    <3>1. i \in m + 1 .. m + n /\ i - m \in 1 .. n
      BY <2>3
    <3> QED  BY <1>4, <1>5, <2>1, <3>1
  <2> QED  BY <2>2, <2>3
<1>7. ASSUME NEW x \in ToSet(s) PROVE x \in ToSet(u)
  <2>1. PICK i \in 1 .. m : x = s[i]
    BY <1>5
  <2>2. i \in 1 .. m + n
    OBVIOUS
  <2> QED  BY <1>3, <1>5, <2>1, <2>2
<1>8. ASSUME NEW x \in ToSet(t) PROVE x \in ToSet(u)
  <2>1. PICK i \in 1 .. n : x = t[i]
    BY <1>5
  <2>2. i + m \in m + 1 .. m + n /\ i + m \in 1 .. m + n /\ (i + m) - m = i
    OBVIOUS
  <2> QED  BY <1>4, <1>5, <2>1, <2>2
<1>9. ToSet(u) = ToSet(s) \union ToSet(t)
  BY <1>6, <1>7, <1>8
<1> QED  BY <1>1, <1>2, <1>3, <1>4, <1>9 DEF u

(* One run after another is a run, and unbroken.                           *)
LEMMA RunsJoin ==
    ASSUME NEW s \in Seq(Nat), NEW t \in Seq(Nat), NEW k \in Int,
           Run(s, k), Run(t, k + Len(s))
    PROVE  Run(s \o t, k)
<1>1. PICK m \in Nat, n \in Nat : m = Len(s) /\ n = Len(t)
  OBVIOUS
<1> DEFINE u == s \o t
<1>2. /\ Len(u) = m + n
      /\ \A i \in 1 .. m : u[i] = s[i]
      /\ \A i \in m + 1 .. m + n : u[i] = t[i - m]
  BY <1>1, FramesAppended
<1> HIDE DEF u
<1>3. ASSUME NEW i \in 1 .. m + n PROVE u[i] = k + i
  <2>1. CASE i <= m
    BY <1>1, <1>2, <2>1 DEF Run
  <2>2. CASE ~ (i <= m)
    <3>1. i \in m + 1 .. m + n /\ i - m \in 1 .. n
      BY <2>2
    <3>2. t[i - m] = (k + m) + (i - m)
      BY <1>1, <3>1 DEF Run
    <3> QED  BY <1>2, <3>1, <3>2
  <2> QED  BY <2>1, <2>2
<1>4. Run(u, k)
  BY <1>2, <1>3 DEF Run
<1> QED  BY <1>4 DEF u

(* A run is unbroken, and rises.                                           *)
LEMMA RunsRise ==
    ASSUME NEW s \in Seq(Nat), NEW k \in Int, Run(s, k)
    PROVE  Unbroken(s) /\ Rising(s)
<1>1. PICK n \in Nat : n = Len(s)
  OBVIOUS
<1>2. \A i \in 1 .. n : s[i] = k + i
  BY <1>1 DEF Run
<1>3. \A i \in 1 .. n - 1 : s[i + 1] = s[i] + 1
  BY <1>2
<1>4. \A i, j \in 1 .. n : i < j => s[i] < s[j]
  BY <1>2
<1> QED  BY <1>1, <1>3, <1>4 DEF Unbroken, Rising

(* A rising sequence and a later run.                                      *)
LEMMA RisingJoin ==
    ASSUME NEW s \in Seq(Nat), NEW t \in Seq(Nat), NEW k \in Int,
           Rising(s), \A i \in 1 .. Len(s) : s[i] <= k, Run(t, k)
    PROVE  /\ Rising(s \o t)
           /\ \A i \in 1 .. Len(s \o t) : (s \o t)[i] <= k + Len(t)
<1>1. PICK m \in Nat, n \in Nat : m = Len(s) /\ n = Len(t)
  OBVIOUS
<1> DEFINE u == s \o t
<1>2. /\ Len(u) = m + n /\ u \in Seq(Nat)
      /\ \A i \in 1 .. m : u[i] = s[i]
      /\ \A i \in m + 1 .. m + n : u[i] = t[i - m]
  BY <1>1, FramesAppended
<1> HIDE DEF u
<1>3. ASSUME NEW i \in 1 .. m + n
      PROVE  IF i <= m THEN u[i] = s[i] /\ u[i] <= k
             ELSE u[i] = k + (i - m)
  <2>1. CASE i <= m
    BY <1>1, <1>2, <2>1
  <2>2. CASE ~ (i <= m)
    <3>1. i \in m + 1 .. m + n /\ i - m \in 1 .. n
      BY <2>2
    <3> QED  BY <1>1, <1>2, <2>2, <3>1 DEF Run
  <2> QED  BY <2>1, <2>2
<1>4. \A i \in 1 .. m + n : u[i] \in Nat
  BY <1>2
<1>5. ASSUME NEW i \in 1 .. m + n, NEW j \in 1 .. m + n, i < j
      PROVE  u[i] < u[j]
  <2>1. CASE j <= m
    <3>1. i \in 1 .. m /\ j \in 1 .. m
      BY <1>5, <2>1
    <3> QED  BY <1>1, <1>2, <1>5, <3>1 DEF Rising
  <2>2. CASE i <= m /\ ~ (j <= m)
    BY <1>3, <1>4, <2>2
  <2>3. CASE ~ (i <= m) /\ ~ (j <= m)
    BY <1>3, <1>4, <1>5, <2>3
  <2> QED  BY <1>5, <2>1, <2>2, <2>3
<1>6. ASSUME NEW i \in 1 .. m + n
      PROVE  u[i] <= k + n
  <2>1. IF i <= m THEN u[i] = s[i] /\ u[i] <= k ELSE u[i] = k + (i - m)
    BY <1>3
  <2>2. u[i] \in Nat /\ k \in Int
    BY <1>4
  <2> QED  BY <2>1, <2>2
<1>7. Rising(u) /\ \A i \in 1 .. Len(u) : u[i] <= k + Len(t)
  BY <1>1, <1>2, <1>5, <1>6 DEF Rising
<1> QED  BY <1>7 DEF u

-----------------------------------------------------------------------------
(***************************************************************************)
(* The steps of the recognizer.                                            *)
(***************************************************************************)

(* What trimming keeps: the beginning, and of the frames before the closing *)
(* silence all, unless more is missing to the counted silence than TailTrim. *)
LEMMA TrimmedFrames ==
    ASSUME HeardInv
    PROVE  \E keep \in 0 .. Len(speech_buffer) :
             /\ shortfall <= TailTrim =>
                  keep >= Len(speech_buffer) - (silence - shortfall)
             /\ Trimmed \in Seq(Nat) /\ Len(Trimmed) = keep
             /\ \A i \in 1 .. keep : Trimmed[i] = speech_buffer[i]
<1>1. /\ speech_buffer \in Seq(Nat) /\ silence \in Nat /\ TailTrim \in Nat /\ MinSpeech \in Nat
      /\ shortfall \in Int /\ shortfall <= silence
  BY RealtimeAssumption DEF HeardInv, Buffers, Spoken
<1>2. PICK b \in Nat, r \in Int, m \in Nat :
        b = Len(speech_buffer) /\ r = silence - TailTrim /\ m = MinSpeech
  BY <1>1
<1>3. CASE r > 0 /\ b > r + m
  <2>1. b - r \in 0 .. b /\ (shortfall <= TailTrim => b - r >= b - (silence - shortfall))
    BY <1>1, <1>2, <1>3
  <2>2. Trimmed = SubSeq(speech_buffer, 1, b - r)
    BY <1>2, <1>3 DEF Trimmed
  <2> QED  BY <1>1, <1>2, <2>1, <2>2, PrefixOfFrames
<1>4. CASE ~ (r > 0 /\ b > r + m)
  <2>1. Trimmed = speech_buffer
    BY <1>2, <1>4 DEF Trimmed
  <2>2. b \in 0 .. b /\ b >= b - (silence - shortfall)
    BY <1>1, <1>2
  <2> QED  BY <1>1, <1>2, <2>1, <2>2
<1> QED  BY <1>3, <1>4

(* Recognising the open segment puts it behind the others.                 *)
LEMMA RecognizeKeeps ==
    ASSUME HeardInv, Recognize, UNCHANGED <<sink, heard>>
    PROVE  HeardInv'
<1>1. PICK a \in Nat, b \in Nat, c \in Nat, h \in Nat, k \in Int :
        /\ a = Len(audio_buffer) /\ b = Len(speech_buffer) /\ c = Len(chunk) /\ h = heard
        /\ k = h - a - c - b /\ k = Before
  BY DEF HeardInv, Buffers, Before
<1>2. PICK keep \in 0 .. b :
        /\ shortfall <= TailTrim => keep >= b - (silence - shortfall)
        /\ Trimmed \in Seq(Nat) /\ Len(Trimmed) = keep
        /\ \A i \in 1 .. keep : Trimmed[i] = speech_buffer[i]
  BY <1>1, TrimmedFrames
<1> DEFINE kept == Trimmed
<1> HIDE DEF kept
<1>3. /\ kept \in Seq(Nat) /\ Len(kept) = keep
      /\ \A i \in 1 .. keep : kept[i] = speech_buffer[i]
  BY <1>2 DEF kept
<1>4. /\ thread = "recognize" /\ thread' = "head"
      /\ utterances' = Append(utterances, kept)
      /\ utterance_count' \in {utterance_count, utterance_count + 1}
      /\ state' = "idle" /\ speech_buffer' = <<>> /\ silence' = 0 /\ shortfall' = 0
      /\ hurried' = IF shortfall > TailTrim THEN hurried \union ToSet(speech_buffer)
                    ELSE hurried
      /\ UNCHANGED <<audio_buffer, chunk, spoken, sink, heard>>
  BY DEF Recognize, kept
<1>5. /\ Text' = Text \o kept /\ Text \in Seq(Nat)
      /\ utterances' \in Seq(Seq(Nat)) /\ Len(utterances') = Len(utterances) + 1
      /\ utterances'[Len(utterances) + 1] = kept
      /\ \A i \in 1 .. Len(utterances) : utterances'[i] = utterances[i]
  <2>1. utterances \in Seq(Seq(Nat)) /\ Text \in Seq(Nat)
    BY DEF HeardInv, Buffers
  <2>2. FlattenSeq(Append(utterances, kept)) = FlattenSeq(utterances) \o kept
    BY <1>3, <2>1, FlattenAppend
  <2>3. Text' = Text \o kept
    BY <1>4, <2>2 DEF Text
  <2> QED  BY <1>3, <1>4, <2>1, <2>3
<1>6. Run(kept, k)
  <2>1. \A i \in 1 .. b : speech_buffer[i] = k + i
    BY <1>1 DEF HeardInv, Timeline, Run
  <2> QED  BY <1>1, <1>3, <2>1 DEF Run
<1>7. /\ Rising(Text \o kept)
      /\ \A i \in 1 .. Len(Text \o kept) : (Text \o kept)[i] <= k + keep
  <2>1. Rising(Text) /\ \A i \in 1 .. Len(Text) : Text[i] <= k
    BY <1>1 DEF HeardInv, Timeline
  <2> QED  BY <1>1, <1>3, <1>5, <1>6, <2>1, RisingJoin
<1>8. Before' = k + b
  BY <1>1, <1>4 DEF Before
<1>9. Text' \in Seq(Nat) /\ ToSet(Text') = ToSet(Text) \union ToSet(kept)
  BY <1>3, <1>5, FramesAppended
<1>10. Buffers'
  <2>1. <<>> \in Seq(Nat)
    OBVIOUS
  <2>2. utterance_count' \in 0 .. Len(utterances')
    <3>1. PICK n \in Nat : n = Len(utterances)
      BY DEF HeardInv, Buffers
    <3>2. utterance_count \in 0 .. n
      BY <3>1 DEF HeardInv, Buffers
    <3> QED  BY <1>4, <1>5, <3>1, <3>2
  <2> QED  BY <1>4, <1>5, <1>9, <2>1, <2>2 DEF HeardInv, Buffers
<1>11. Timeline'
  <2>1. \A i \in 1 .. Len(utterances') : Unbroken(utterances'[i])
    <3>1. Unbroken(kept)
      BY <1>1, <1>3, <1>6, RunsRise
    <3>2. PICK n \in Nat : n = Len(utterances)
      BY DEF HeardInv, Buffers
    <3>3. \A i \in 1 .. n : Unbroken(utterances[i])
      BY <3>2 DEF HeardInv, Timeline
    <3>4. \A i \in 1 .. n + 1 : i \in 1 .. n \/ i = n + 1
      OBVIOUS
    <3> QED  BY <1>5, <3>1, <3>2, <3>3, <3>4
  <2>2. \A i \in 1 .. Len(Text') : Text'[i] <= Before'
    <3>1. ASSUME NEW i \in 1 .. Len(Text')
          PROVE  Text'[i] <= k + b
      <4>1. Text'[i] <= k + keep /\ Text'[i] \in Nat
        BY <1>5, <1>7, <1>9, SMTT(30)
      <4> QED  BY <4>1
    <3> QED  BY <1>8, <3>1
  <2>3. Run(speech_buffer', Before')
    BY <1>4 DEF Run
  <2> QED  BY <1>4, <1>5, <1>7, <2>1, <2>2, <2>3 DEF HeardInv, Timeline, Run
<1>12. Spoken'
  <2>1. ASSUME NEW x \in spoken
        PROVE  x \in ToSet(Text') \/ x \in hurried'
    <3>1. x \in ToSet(Text) \/ x \in ToSet(speech_buffer) \/ x \in hurried
      BY DEF HeardInv, Spoken
    <3>2. CASE x \in ToSet(speech_buffer) /\ shortfall > TailTrim
      BY <1>4, <3>2
    <3>3. CASE x \in ToSet(speech_buffer) /\ ~ (shortfall > TailTrim)
      <4>1. /\ DOMAIN speech_buffer = 1 .. b /\ DOMAIN kept = 1 .. keep /\ silence \in Nat
            /\ shortfall \in Int /\ TailTrim \in Nat
        BY <1>1, <1>3, RealtimeAssumption DEF HeardInv, Buffers
      <4>2. PICK i \in 1 .. b : x = speech_buffer[i]
        BY <3>3, <4>1 DEF ToSet
      <4>3. ~ (i > b - (silence - shortfall))
        BY <1>1, <4>2 DEF HeardInv, Spoken
      <4>4. i \in 1 .. keep
        BY <1>2, <3>3, <4>1, <4>3
      <4>5. x = kept[i] /\ i \in DOMAIN kept
        BY <1>3, <4>1, <4>2, <4>4
      <4>6. x \in ToSet(kept)
        BY <4>5, Zenon DEF ToSet
      <4> QED  BY <1>9, <4>6
    <3> QED  BY <1>4, <1>9, <3>1, <3>2, <3>3
  <2>2. Len(speech_buffer') = 0
    BY <1>4
  <2>3. \A x \in spoken' : x \in Nat /\ x <= heard' - Len(audio_buffer') - Len(chunk')
    BY <1>4 DEF HeardInv, Spoken
  <2> QED  BY <1>4, <2>1, <2>2, <2>3 DEF Spoken
<1>13. Phases'
  BY <1>4 DEF HeardInv, Phases
<1> QED  BY <1>10, <1>11, <1>12, <1>13 DEF HeardInv

(* A chunk joins the open segment; the silence at its end is reset, or     *)
(* grows by an interval, short of what the chunk lacks to it.              *)
LEMMA ChunkJoins ==
    ASSUME HeardInv, thread = "chunk",
           speech_buffer' = speech_buffer \o chunk, chunk' = <<>>,
           UNCHANGED <<audio_buffer, utterances, utterance_count, hurried, sink, heard>>,
           \/ silence' = 0 /\ shortfall' = 0 /\ spoken' = spoken \union ToSet(chunk)
           \/ /\ silence' = silence + IntervalFrames
              /\ shortfall' = shortfall + IntervalFrames - Len(chunk)
              /\ spoken' = spoken,
           state' \in {"speech", "silence"},
           state' = "speech" => silence' = 0 /\ shortfall' = 0,
           thread' \in {"head", "recognize"}
    PROVE  HeardInv'
<1>1. PICK a \in Nat, b \in Nat, c \in Nat, h \in Nat, k \in Int, q \in Int, f \in Nat :
        /\ a = Len(audio_buffer) /\ b = Len(speech_buffer) /\ c = Len(chunk) /\ h = heard
        /\ k = h - a - c - b /\ k = Before /\ q = silence - shortfall /\ f = IntervalFrames
  <2>1. /\ silence \in Nat /\ shortfall \in Int /\ silence - shortfall \in Int
        /\ IntervalFrames \in Nat /\ heard \in Nat
        /\ Len(audio_buffer) \in Nat /\ Len(speech_buffer) \in Nat /\ Len(chunk) \in Nat
    BY RealtimeAssumption DEF HeardInv, Buffers
  <2> QED  BY <2>1 DEF Before
<1>0. silence \in Nat /\ shortfall \in Int /\ q >= 0
  BY <1>1 DEF HeardInv, Buffers, Spoken
<1> DEFINE now == speech_buffer \o chunk
<1>2. speech_buffer \in Seq(Nat) /\ chunk \in Seq(Nat) /\ c >= 1
  <2>1. chunk # <<>> /\ chunk \in Seq(Nat) /\ speech_buffer \in Seq(Nat)
    BY DEF HeardInv, Buffers, Phases
  <2> QED  BY <1>1, <2>1
<1>3. /\ now \in Seq(Nat) /\ Len(now) = b + c
      /\ \A i \in 1 .. b : now[i] = speech_buffer[i]
      /\ \A i \in b + 1 .. b + c : now[i] = chunk[i - b]
      /\ ToSet(now) = ToSet(speech_buffer) \union ToSet(chunk)
  BY <1>1, <1>2, FramesAppended
<1>4. Run(now, k)
  <2>1. Run(speech_buffer, k) /\ Run(chunk, k + Len(speech_buffer))
    <3>1. Run(speech_buffer, Before) /\ Run(chunk, heard - Len(audio_buffer) - Len(chunk))
      BY DEF HeardInv, Timeline
    <3>2. heard - Len(audio_buffer) - Len(chunk) = k + Len(speech_buffer)
      BY <1>1
    <3> QED  BY <1>1, <3>1, <3>2
  <2> QED  BY <1>2, <2>1, RunsJoin
<1> HIDE DEF now
<1>5. speech_buffer' = now
  BY DEF now
<1>6. Before' = k
  <2>1. Len(chunk') = 0 /\ Len(speech_buffer') = b + c
    BY <1>3, <1>5
  <2> QED  BY <1>1, <2>1 DEF Before
<1>7. Text' = Text
  BY DEF Text
<1>8. Buffers'
  <2>1. <<>> \in Seq(Nat) /\ silence' \in Nat /\ shortfall' \in Int
    BY <1>0, <1>1
  <2> QED  BY <1>3, <1>5, <1>7, <2>1 DEF HeardInv, Buffers
<1>9. Timeline'
  <2>1. Run(chunk', heard' - Len(audio_buffer') - Len(chunk'))
    BY DEF Run
  <2> QED  BY <1>1, <1>4, <1>5, <1>6, <1>7, <2>1 DEF HeardInv, Timeline
<1>10. Phases'
  BY DEF HeardInv, Phases
<1>11. \A x \in spoken : x \in Nat /\ x <= k + b
  <2>1. h - a - c = k + b
    BY <1>1
  <2> QED  BY <1>1, <2>1 DEF HeardInv, Spoken
<1>12. spoken' \subseteq ToSet(Text') \union ToSet(speech_buffer') \union hurried'
  <2>1. spoken \subseteq ToSet(Text) \union ToSet(speech_buffer) \union hurried
    BY DEF HeardInv, Spoken
  <2> QED  BY <1>3, <1>5, <1>7, <2>1
<1>13. PICK m \in Nat, p \in Nat :
         /\ m = b + c /\ p = silence' - shortfall'
         /\ (spoken' = spoken /\ p = q + c) \/ p = 0
  <2>1. PICK s \in Nat, t \in Int : s = silence /\ t = shortfall
    BY <1>0
  <2>2. CASE silence' = 0 /\ shortfall' = 0
    BY <2>2
  <2>3. CASE silence' = s + f /\ shortfall' = t + f - c /\ spoken' = spoken
    <3>1. silence' - shortfall' = q + c /\ q + c \in Nat /\ b + c \in Nat
      BY <1>0, <1>1, <2>1, <2>3
    <3> QED  BY <2>3, <3>1
  <2> QED  BY <1>1, <2>1, <2>2, <2>3
<1>14. ASSUME NEW i \in 1 .. m, i > m - p
       PROVE  now[i] \notin spoken'
  <2>1. p = q + c /\ spoken' = spoken /\ m = b + c
    BY <1>13, <1>14
  <2>2. CASE i <= b
    <3>1. i \in 1 .. b /\ i > b - q
      BY <1>2, <1>14, <2>1, <2>2
    <3>2. speech_buffer[i] \notin spoken
      BY <1>1, <3>1 DEF HeardInv, Spoken
    <3> QED  BY <1>3, <2>1, <3>1, <3>2
  <2>3. CASE ~ (i <= b)
    <3>1. now[i] = k + i
      BY <1>3, <1>4, <2>1 DEF Run
    <3> QED  BY <1>11, <2>1, <2>3, <3>1
  <2> QED  BY <2>2, <2>3
<1>15. \A x \in spoken' : x \in Nat /\ x <= heard' - Len(audio_buffer') - Len(chunk')
  <2>1. heard' - Len(audio_buffer') - Len(chunk') = k + b + c
    BY <1>1
  <2>2. ASSUME NEW x \in ToSet(chunk)
        PROVE  x \in Nat /\ x <= k + b + c
    <3>1. DOMAIN chunk = 1 .. c /\ Run(chunk, k + b)
      <4>1. h - a - c = k + b
        BY <1>1
      <4> QED  BY <1>1, <1>2, <4>1 DEF HeardInv, Timeline
    <3>2. PICK i \in 1 .. c : x = chunk[i]
      BY <2>2, <3>1 DEF ToSet
    <3>3. x = k + b + i /\ x \in Nat
      BY <1>1, <1>2, <3>1, <3>2 DEF Run
    <3> QED  BY <3>3
  <2>3. ASSUME NEW x \in spoken
        PROVE  x \in Nat /\ x <= k + b + c
    BY <1>11
  <2> QED  BY <2>1, <2>2, <2>3
<1>16. Spoken'
  <2>1. \A i \in 1 .. m : i > m - p => now[i] \notin spoken'
    BY <1>14, Zenon
  <2>2. Len(speech_buffer') = m /\ silence' - shortfall' = p /\ shortfall' <= silence'
    <3>1. silence' \in Int /\ shortfall' \in Int
      BY <1>0, <1>1
    <3>2. PICK s \in Int, t \in Int : s = silence' /\ t = shortfall'
      BY <3>1
    <3>3. s - t = p => t <= s
      BY ONLY s \in Int, t \in Int, p \in Nat
    <3> QED  BY <1>13, <1>3, <1>5, <3>2, <3>3
  <2> QED  BY <1>5, <1>12, <1>15, <2>1, <2>2, Zenon DEF Spoken
<1> QED  BY <1>8, <1>9, <1>10, <1>16 DEF HeardInv

(* A chunk before, or between, the stretches of speech is dropped.         *)
LEMMA ChunkDropped ==
    ASSUME HeardInv, thread = "chunk", state \in {"calibrating", "idle"},
           chunk' = <<>>, state' \in {"calibrating", "idle"}, thread' = "head",
           shortfall' \in {0, shortfall},
           UNCHANGED <<speech_buffer, silence, spoken, hurried, audio_buffer, utterances,
                       utterance_count, sink, heard>>
    PROVE  HeardInv'
<1>1. PICK a \in Nat, c \in Nat, h \in Nat :
        a = Len(audio_buffer) /\ c = Len(chunk) /\ h = heard
  BY DEF HeardInv, Buffers
<1>2. speech_buffer = <<>> /\ Len(speech_buffer) = 0 /\ Len(chunk') = 0
  BY DEF HeardInv, Phases
<1>3. Text' = Text
  BY DEF Text
<1>4. Before = h - a - c /\ Before' = h - a
  BY <1>1, <1>2 DEF Before
<1>5. \A i \in 1 .. Len(Text') : Text'[i] <= Before'
  <2>1. ASSUME NEW i \in 1 .. Len(Text)
        PROVE  Text[i] <= h - a
    <3>1. Text[i] <= h - a - c /\ Text[i] \in Nat
      BY <1>4, SMTT(30) DEF HeardInv, Buffers, Timeline
    <3> QED  BY <3>1
  <2> QED  BY <1>3, <1>4, <2>1
<1>6. Timeline'
  BY <1>2, <1>3, <1>5 DEF HeardInv, Timeline, Run
<1>7. Buffers'
  <2>1. <<>> \in Seq(Nat)
    OBVIOUS
  <2> QED  BY <1>3, <2>1 DEF HeardInv, Buffers
<1>8. Phases'
  BY <1>2 DEF HeardInv, Phases
<1>9. Spoken'
  <2>1. \A x \in spoken : x \in Nat /\ x <= heard' - Len(audio_buffer') - Len(chunk')
    <3>1. \A x \in spoken : x \in Nat /\ x <= h - a - c
      BY <1>1 DEF HeardInv, Spoken
    <3>2. heard' - Len(audio_buffer') - Len(chunk') = h - a
      BY <1>1, <1>2
    <3>3. \A x \in Nat : x <= h - a - c => x <= h - a
      BY <1>1
    <3> QED  BY <3>1, <3>2, <3>3
  <2>2. shortfall' <= silence' /\ spoken \subseteq ToSet(Text) \union ToSet(speech_buffer) \union hurried
    BY DEF HeardInv, Buffers, Spoken
  <2> QED  BY <1>2, <1>3, <2>1, <2>2 DEF Spoken
<1> QED  BY <1>6, <1>7, <1>8, <1>9 DEF HeardInv

(* A round, in each state.                                                 *)
LEMMA RoundKeeps ==
    ASSUME HeardInv, NEW has_speech \in BOOLEAN, Round(has_speech), UNCHANGED <<sink, heard>>
    PROVE  HeardInv'
<1>1. /\ thread = "chunk" /\ chunk' = <<>>
      /\ UNCHANGED <<audio_buffer, utterances, utterance_count, hurried, sink, heard>>
      /\ has_speech \/ state = "idle" => shortfall' = 0
      /\ ~ (has_speech \/ state = "idle") =>
           shortfall' = shortfall + IntervalFrames - Len(chunk)
      /\ has_speech => spoken' = spoken \union ToSet(chunk)
      /\ ~has_speech => spoken' = spoken
      /\ thread' \in {"head", "recognize"}
      /\ state' = "idle" => thread' = "head"
  BY DEF Round
<1>2. CASE InIdle(has_speech)
  <2>1. CASE has_speech
    <3>1. speech_buffer = <<>> /\ chunk \in Seq(Nat)
      BY <1>2 DEF InIdle, HeardInv, Buffers, Phases
    <3>2. chunk = <<>> \o chunk
      BY <3>1, ConcatEmptySeq
    <3>3. speech_buffer' = chunk /\ state' = "speech" /\ silence' = 0
      BY <1>2, <2>1 DEF InIdle
    <3>4. speech_buffer' = speech_buffer \o chunk
      BY <3>1, <3>2, <3>3
    <3> QED  BY <1>1, <2>1, <3>3, <3>4, ChunkJoins
  <2>2. CASE ~has_speech
    <3>1. state = "idle" /\ UNCHANGED <<state, speech_buffer, silence>>
      BY <1>2, <2>2 DEF InIdle
    <3> QED  BY <1>1, <2>2, <3>1, ChunkDropped
  <2> QED  BY <2>1, <2>2
<1>3. CASE InSpeech(has_speech)
  <2>1. speech_buffer' = speech_buffer \o chunk /\ state = "speech" /\ silence = 0
        /\ shortfall = 0
    BY <1>3 DEF InSpeech, HeardInv, Phases
  <2>2. CASE has_speech
    BY <1>1, <1>3, <2>1, <2>2, ChunkJoins DEF InSpeech
  <2>3. CASE ~has_speech
    BY <1>1, <1>3, <2>1, <2>3, ChunkJoins DEF InSpeech
  <2> QED  BY <2>2, <2>3
<1>4. CASE InSilence(has_speech)
  <2>1. speech_buffer' = speech_buffer \o chunk /\ state = "silence"
    BY <1>4 DEF InSilence
  <2>2. CASE has_speech
    BY <1>1, <1>4, <2>1, <2>2, ChunkJoins DEF InSilence
  <2>3. CASE ~has_speech
    BY <1>1, <1>4, <2>1, <2>3, ChunkJoins DEF InSilence
  <2> QED  BY <2>2, <2>3
<1> QED  BY <1>2, <1>3, <1>4 DEF Round

(* The thread takes what has arrived.                                      *)
LEMMA TakeKeeps ==
    ASSUME HeardInv, TakeChunk, UNCHANGED <<sink, heard>>
    PROVE  HeardInv'
<1>1. /\ thread = "sleep" /\ chunk' = audio_buffer /\ audio_buffer' = <<>>
      /\ thread' = IF audio_buffer = <<>> THEN "head" ELSE "chunk"
      /\ UNCHANGED <<state, speech_buffer, silence, utterance_count, utterances, heardVars>>
  BY DEF TakeChunk
<1>2. chunk = <<>> /\ Len(chunk) = 0 /\ Len(audio_buffer') = 0
  BY <1>1 DEF HeardInv, Phases
<1>3. PICK a \in Nat, b \in Nat, h \in Nat :
        a = Len(audio_buffer) /\ b = Len(speech_buffer) /\ h = heard
  BY DEF HeardInv, Buffers
<1>4. Text' = Text
  BY <1>1 DEF Text
<1>5. Before = h - a - b /\ Before' = h - a - b
  BY <1>1, <1>2, <1>3 DEF Before
<1>6. heard' - Len(audio_buffer') - Len(chunk') = heard - Len(audio_buffer)
  BY <1>1, <1>2, <1>3
<1>7. Timeline'
  <2>1. Run(audio_buffer', heard' - Len(audio_buffer'))
    BY <1>2 DEF Run
  <2>2. Run(chunk', heard' - Len(audio_buffer') - Len(chunk'))
    BY <1>1, <1>6 DEF HeardInv, Timeline
  <2> QED  BY <1>1, <1>4, <1>5, <2>1, <2>2 DEF HeardInv, Timeline
<1>8. Buffers'
  <2>1. <<>> \in Seq(Nat)
    OBVIOUS
  <2> QED  BY <1>1, <1>4, <2>1 DEF HeardInv, Buffers, heardVars
<1>9. Phases'
  BY <1>1 DEF HeardInv, Phases, heardVars
<1>10. Spoken'
  <2>1. UNCHANGED <<speech_buffer, silence, spoken, shortfall, hurried>>
    BY <1>1 DEF heardVars
  <2>2. heard' - Len(audio_buffer') - Len(chunk') = heard - Len(audio_buffer) - Len(chunk)
    BY <1>2, <1>3, <1>6
  <2> QED  BY <1>4, <2>1, <2>2 DEF HeardInv, Spoken
<1> QED  BY <1>7, <1>8, <1>9, <1>10 DEF HeardInv

(* The thread ends and drops the open segment, or another one starts.      *)
LEMMA SegmentDropped ==
    ASSUME HeardInv, chunk = <<>>, chunk' = <<>>, speech_buffer' = <<>>,
           spoken' \subseteq spoken \ ToSet(speech_buffer),
           utterance_count' \in 0 .. Len(utterances), silence' \in Nat,
           shortfall' \in Int, shortfall' <= silence',
           state' \in {"calibrating", "idle", "speech", "silence"},
           state' = "speech" => silence' = 0 /\ shortfall' = 0,
           thread' # "chunk", sink # "recognizer" => thread' = "none",
           UNCHANGED <<audio_buffer, utterances, hurried, sink, heard>>
    PROVE  HeardInv'
<1>1. PICK a \in Nat, b \in Nat, h \in Nat :
        a = Len(audio_buffer) /\ b = Len(speech_buffer) /\ h = heard
  BY DEF HeardInv, Buffers
<1>2. Len(chunk) = 0 /\ Len(chunk') = 0 /\ Len(speech_buffer') = 0
  OBVIOUS
<1>3. Text' = Text
  BY DEF Text
<1>4. Before = h - a - b /\ Before' = h - a
  BY <1>1, <1>2 DEF Before
<1>5. \A i \in 1 .. Len(Text') : Text'[i] <= Before'
  <2>1. ASSUME NEW i \in 1 .. Len(Text)
        PROVE  Text[i] <= h - a
    <3>1. Text[i] <= h - a - b /\ Text[i] \in Nat
      BY <1>4 DEF HeardInv, Buffers, Timeline
    <3> QED  BY <3>1
  <2> QED  BY <1>3, <1>4, <2>1
<1>6. Timeline'
  BY <1>2, <1>3, <1>5 DEF HeardInv, Timeline, Run
<1>7. Buffers'
  <2>1. <<>> \in Seq(Nat)
    OBVIOUS
  <2> QED  BY <1>3, <2>1 DEF HeardInv, Buffers
<1>8. Phases'
  BY DEF HeardInv, Phases
<1>9. Spoken'
  <2>1. spoken' \subseteq ToSet(Text') \union hurried'
    BY <1>3 DEF HeardInv, Spoken
  <2>2. \A x \in spoken' : x \in Nat /\ x <= heard' - Len(audio_buffer') - Len(chunk')
    BY DEF HeardInv, Spoken
  <2> QED  BY <1>2, <2>1, <2>2 DEF Spoken
<1> QED  BY <1>6, <1>7, <1>8, <1>9 DEF HeardInv

(* The microphone's thread appends the frames it has.                      *)
LEMMA MicrophoneKeeps ==
    ASSUME HeardInv, sink = "recognizer", NEW n \in Nat \ {0}, heard' = heard + n,
           FeedRecognizer([i \in 1 .. n |-> heard + i]), UNCHANGED sink
    PROVE  HeardInv'
<1> DEFINE frames == [i \in 1 .. n |-> heard + i]
           all    == audio_buffer \o frames
<1>1. PICK a \in Nat, b \in Nat, c \in Nat, h \in Nat, k \in Int :
        /\ a = Len(audio_buffer) /\ b = Len(speech_buffer) /\ c = Len(chunk) /\ h = heard
        /\ k = h - a
  BY DEF HeardInv, Buffers
<1>2. audio_buffer \in Seq(Nat) /\ Run(audio_buffer, k)
  BY <1>1 DEF HeardInv, Buffers, Timeline
<1>3. frames \in Seq(Nat) /\ Len(frames) = n /\ Run(frames, k + a)
  <2>1. \A i \in 1 .. n : heard + i \in Nat
    BY <1>1
  <2>2. frames \in Seq(Nat) /\ Len(frames) = n /\ \A i \in 1 .. n : frames[i] = heard + i
    BY <2>1
  <2>3. heard = k + a
    BY <1>1
  <2> HIDE DEF frames
  <2> QED  BY <2>2, <2>3 DEF Run
<1> HIDE DEF frames
<1>4. all \in Seq(Nat) /\ Len(all) = a + n /\ Run(all, k)
  BY <1>1, <1>2, <1>3, FramesAppended, RunsJoin
<1> HIDE DEF all
<1>5. /\ audio_buffer' = all
      /\ UNCHANGED <<chunk, speech_buffer, silence, state, thread, utterances,
                     utterance_count, heardVars, sink>>
  BY DEF FeedRecognizer, threadVars, frames, all
<1>6. Text' = Text
  BY <1>5 DEF Text
<1>7. /\ heard' - Len(audio_buffer') = k /\ heard - Len(audio_buffer) = k
      /\ Before' = Before /\ heard' \in Nat
  <2>1. Len(audio_buffer') = a + n /\ Len(chunk') = c /\ Len(speech_buffer') = b
        /\ heard' = h + n
    BY <1>1, <1>4, <1>5
  <2>2. Before = h - a - c - b /\ Before' = (h + n) - (a + n) - c - b
    BY <1>1, <2>1 DEF Before
  <2> QED  BY <1>1, <2>1, <2>2
<1>8. Timeline'
  BY <1>4, <1>5, <1>6, <1>7 DEF HeardInv, Timeline
<1>9. Buffers'
  BY <1>4, <1>5, <1>6, <1>7 DEF HeardInv, Buffers, heardVars
<1>10. Phases'
  BY <1>5 DEF HeardInv, Phases, heardVars
<1>11. Spoken'
  BY <1>5, <1>6, <1>7 DEF HeardInv, Spoken, heardVars
<1> QED  BY <1>8, <1>9, <1>10, <1>11 DEF HeardInv

-----------------------------------------------------------------------------
(***************************************************************************)
(* What the recognizer recognises.                                        *)
(***************************************************************************)

LEMMA HeardInvariant == Spec => []HeardInv
<1>1. Init => HeardInv
  <2> SUFFICES ASSUME Init PROVE HeardInv
    OBVIOUS
  <2>1. /\ audio_buffer = <<>> /\ chunk = <<>> /\ speech_buffer = <<>> /\ utterances = <<>>
        /\ heard = 0 /\ silence = 0 /\ utterance_count = 0 /\ spoken = {}
        /\ shortfall = 0
        /\ state = "calibrating" /\ thread = "none"
    BY DEF Init, RealtimeInit
  <2>2. Text = <<>>
    BY <2>1 DEF Text, FlattenSeq
  <2>3. <<>> \in Seq(Nat) /\ <<>> \in Seq(Seq(Nat)) /\ Len(<<>>) = 0
    OBVIOUS
  <2>4. Buffers
    BY <2>1, <2>2, <2>3 DEF Buffers
  <2>5. Timeline
    BY <2>1, <2>2, <2>3 DEF Timeline, Run, Rising
  <2>6. Phases /\ Spoken
    BY <2>1, <2>2, <2>3 DEF Phases, Spoken
  <2> QED  BY <2>4, <2>5, <2>6 DEF HeardInv
<1>2. HeardInv /\ [Next]_vars => HeardInv'
  <2> SUFFICES ASSUME HeardInv, [Next]_vars PROVE HeardInv'
    OBVIOUS
  <2>1. ASSUME UNCHANGED <<audio_buffer, chunk, state, speech_buffer, silence, shortfall,
                           hurried, utterance_count, utterances, spoken, sink, heard>>,
               \/ thread' = thread
               \/ thread = "head" /\ thread' = "sleep" /\ sink = "recognizer"
        PROVE  HeardInv'
    <3>1. Text' = Text /\ Before' = Before
      BY <2>1 DEF Text, Before
    <3>2. Buffers' /\ Timeline' /\ Spoken'
      BY <2>1, <3>1 DEF HeardInv, Buffers, Timeline, Spoken, Run, Rising
    <3>3. Phases'
      BY <2>1 DEF HeardInv, Phases
    <3> QED  BY <3>2, <3>3 DEF HeardInv
  <2>2. CASE CaptureInit \/ CaptureStart \/ CaptureStop \/ Recording \/ UNCHANGED vars
    <3>1. UNCHANGED <<realtimeVars, sink, heard>>
      BY <2>2 DEF CaptureInit, CaptureStart, CaptureStop, Recording, vars
    <3> QED  BY <2>1, <3>1 DEF realtimeVars, threadVars, heardVars
  <2>3. CASE OnAudioData
    <3>1. PICK n \in 1 .. MaxCallback :
            /\ heard' = heard + n /\ UNCHANGED sink
            /\ IF sink = "recognizer" THEN FeedRecognizer([i \in 1 .. n |-> heard + i])
               ELSE UNCHANGED realtimeVars
      BY <2>3 DEF OnAudioData
    <3>2. n \in Nat \ {0}
      BY <3>1, InputAssumption
    <3>3. CASE sink = "recognizer"
      BY <3>1, <3>2, <3>3, MicrophoneKeeps
    <3>4. CASE sink # "recognizer"
      <4>1. UNCHANGED <<audio_buffer, chunk, state, speech_buffer, silence, thread,
                        utterance_count, utterances, spoken, shortfall, hurried, sink>>
        BY <3>1, <3>4 DEF realtimeVars, threadVars, heardVars
      <4>2. audio_buffer = <<>> /\ chunk = <<>> /\ speech_buffer = <<>>
        BY <3>4 DEF HeardInv, Phases
      <4>3. heard \in Nat /\ heard' \in Nat /\ heard' >= heard
        BY <3>1, <3>2 DEF HeardInv, Buffers
      <4>4. Text' = Text
        BY <4>1 DEF Text
      <4>5. Before = heard /\ Before' = heard'
        <5>1. /\ Len(audio_buffer) = 0 /\ Len(chunk) = 0 /\ Len(speech_buffer) = 0
              /\ Len(audio_buffer') = 0 /\ Len(chunk') = 0 /\ Len(speech_buffer') = 0
          BY <4>1, <4>2
        <5>2. PICK h \in Nat, h2 \in Nat : h = heard /\ h2 = heard'
          BY <4>3
        <5>3. Before = h - 0 - 0 - 0 /\ Before' = h2 - 0 - 0 - 0
          BY <5>1, <5>2, Zenon DEF Before
        <5>4. h - 0 - 0 - 0 = h /\ h2 - 0 - 0 - 0 = h2
          OBVIOUS
        <5> QED  BY <5>2, <5>3, <5>4
      <4>6. Buffers' /\ Phases' /\ Spoken'
        <5>1. Buffers' /\ Phases'
          BY <4>1, <4>3, <4>4 DEF HeardInv, Buffers, Phases
        <5>2. \A x \in spoken : x \in Nat /\ x <= heard' - Len(audio_buffer') - Len(chunk')
          <6>1. Len(audio_buffer) = 0 /\ Len(chunk) = 0
            BY <4>2
          <6>2. heard - Len(audio_buffer) - Len(chunk) = heard
                /\ heard' - Len(audio_buffer') - Len(chunk') = heard'
            <7>1. \A x \in Nat : x - 0 - 0 = x
              OBVIOUS
            <7>2. Len(audio_buffer') = 0 /\ Len(chunk') = 0
              BY <4>1, <6>1
            <7> QED  BY ONLY <4>3, <6>1, <7>1, <7>2
          <6>3. \A x \in spoken : x \in Nat /\ x <= heard
            BY <6>2 DEF HeardInv, Spoken
          <6> QED  BY <4>3, <6>2, <6>3
        <5> QED  BY <4>1, <4>4, <5>1, <5>2 DEF HeardInv, Spoken
      <4>7. ASSUME NEW i \in 1 .. Len(Text)
            PROVE  Text[i] <= heard'
        <5>1. Text[i] <= heard /\ Text[i] \in Nat
          BY <4>5, SMTT(30) DEF HeardInv, Buffers, Timeline
        <5> QED  BY <4>3, <5>1
      <4>8. Timeline'
        <5>1. Len(audio_buffer') = 0 /\ Len(chunk') = 0 /\ Len(speech_buffer') = 0
          BY <4>1, <4>2
        <5>2. Run(speech_buffer', Before') /\ Run(chunk', heard' - Len(audio_buffer') - Len(chunk'))
              /\ Run(audio_buffer', heard' - Len(audio_buffer'))
          BY <5>1 DEF Run
        <5> QED  BY <4>1, <4>4, <4>5, <4>7, <5>2 DEF HeardInv, Timeline
      <4> QED  BY <4>6, <4>8 DEF HeardInv
    <3> QED  BY <3>3, <3>4
  <2>4. CASE Recognizing
    <3>1. sink = "recognizer" /\ UNCHANGED <<sink, heard>>
      BY <2>4 DEF Recognizing
    <3>2. CASE StartRecognizer
      <4>1. chunk = <<>> /\ speech_buffer = <<>> /\ Len(speech_buffer) = 0
        BY <3>2 DEF StartRecognizer, HeardInv, Phases
      <4>2. spoken' \subseteq spoken \ ToSet(speech_buffer)
        BY <3>2, <4>1 DEF StartRecognizer, ToSet
      <4>3. utterance_count' \in 0 .. Len(utterances)
        BY <3>2 DEF StartRecognizer, HeardInv, Buffers
      <4> QED  BY <3>1, <3>2, <4>1, <4>2, <4>3, SegmentDropped DEF StartRecognizer
    <3>3. CASE StopRecognizer
      BY <2>1, <3>1, <3>3 DEF StopRecognizer, threadVars, heardVars
    <3>4. CASE LoopHead
      <4>1. CASE thread' = "sleep" /\ UNCHANGED <<speech_buffer, spoken>>
        BY <2>1, <3>1, <3>4, <4>1 DEF LoopHead
      <4>2. CASE thread' = "none" /\ spoken' = spoken \ ToSet(speech_buffer)
                 /\ speech_buffer' = <<>>
        <5>1. chunk = <<>> /\ utterance_count \in 0 .. Len(utterances) /\ silence \in Nat
              /\ shortfall \in Int /\ shortfall <= silence
              /\ state \in {"calibrating", "idle", "speech", "silence"}
              /\ (state = "speech" => silence = 0 /\ shortfall = 0)
          BY <3>4 DEF LoopHead, HeardInv, Buffers, Phases, Spoken
        <5> QED  BY <3>1, <3>4, <4>2, <5>1, SegmentDropped DEF LoopHead
      <4> QED  BY <3>4, <4>1, <4>2 DEF LoopHead
    <3>5. CASE TakeChunk
      BY <3>1, <3>5, TakeKeeps
    <3>6. CASE Calibrate
      BY <3>1, <3>6, ChunkDropped DEF Calibrate, heardVars
    <3>7. ASSUME NEW has_speech \in BOOLEAN, Round(has_speech)
          PROVE  HeardInv'
      BY <3>1, <3>7, RoundKeeps
    <3>8. CASE Recognize
      BY <3>1, <3>8, RecognizeKeeps
    <3> QED  BY <2>4, <3>2, <3>3, <3>4, <3>5, <3>6, <3>7, <3>8 DEF Recognizing, ProcessLoop
  <2> QED  BY <2>2, <2>3, <2>4 DEF Next
<1> QED  BY <1>1, <1>2, PTL DEF Spec

(* What the realtime recognizer recognises are unbroken stretches of the   *)
(* audio, in order, none twice, and a chunk above the threshold is in one  *)
(* of them or in the open segment - whatever the thread finds in the       *)
(* buffer, however short, and however often it is started and stopped -    *)
(* unless the chunks of its closing silence lacked more to their intervals *)
(* than the tail that is kept.                                             *)
LEMMA SpeechIsKept == Spec => []SpeechKept
<1>1. HeardInv => SpeechKept
  <2> SUFFICES ASSUME HeardInv PROVE SpeechKept
    OBVIOUS
  <2>1. PICK a \in Nat, b \in Nat, c \in Nat, h \in Nat, k \in Int, m \in Int, n \in Int :
          /\ a = Len(audio_buffer) /\ b = Len(speech_buffer) /\ c = Len(chunk) /\ h = heard
          /\ k = h - a - c - b /\ k = Before /\ m = k + b /\ n = k + b + c
    BY DEF HeardInv, Buffers, Before
  <2>2. audio_buffer \in Seq(Nat) /\ chunk \in Seq(Nat) /\ speech_buffer \in Seq(Nat)
        /\ Text \in Seq(Nat)
    BY DEF HeardInv, Buffers
  <2>3. Run(speech_buffer, k) /\ Run(chunk, k + b) /\ Run(audio_buffer, k + b + c)
    <3>1. h - a - c = k + b /\ h - a = k + b + c
      BY <2>1
    <3> QED  BY <2>1, <3>1 DEF HeardInv, Timeline
  <2>4. Unbroken(speech_buffer \o IF state = "idle" THEN <<>> ELSE chunk)
    <3>1. <<>> \in Seq(Nat) /\ Run(<<>>, k + b)
      BY DEF Run
    <3>2. CASE state = "idle"
      <4>1. Run(speech_buffer \o <<>>, k) /\ speech_buffer \o <<>> \in Seq(Nat)
        BY <2>1, <2>2, <2>3, <3>1, RunsJoin, FramesAppended
      <4> QED  BY <3>2, <4>1, RunsRise
    <3>3. CASE state # "idle"
      <4>1. Run(speech_buffer \o chunk, k) /\ speech_buffer \o chunk \in Seq(Nat)
        BY <2>1, <2>2, <2>3, RunsJoin, FramesAppended
      <4> QED  BY <3>3, <4>1, RunsRise
    <3> QED  BY <3>2, <3>3
  <2> DEFINE x == Text \o speech_buffer
             y == x \o chunk
             z == y \o audio_buffer
  <2>5. Rising(x) /\ (\A i \in 1 .. Len(x) : x[i] <= k + b) /\ x \in Seq(Nat)
    <3>1. Rising(Text) /\ \A i \in 1 .. Len(Text) : Text[i] <= k
      BY <2>1 DEF HeardInv, Timeline
    <3> QED  BY <2>1, <2>2, <2>3, <3>1, RisingJoin, FramesAppended
  <2> HIDE DEF x
  <2>6. Rising(y) /\ (\A i \in 1 .. Len(y) : y[i] <= k + b + c) /\ y \in Seq(Nat)
    <3>1. Rising(x) /\ (\A i \in 1 .. Len(x) : x[i] <= m) /\ x \in Seq(Nat) /\ Run(chunk, m)
      BY <2>1, <2>3, <2>5
    <3>2. Rising(y) /\ \A i \in 1 .. Len(y) : y[i] <= m + Len(chunk)
      BY <2>2, <3>1, RisingJoin
    <3>3. y \in Seq(Nat)
      BY <2>2, <3>1, FramesAppended
    <3> HIDE DEF y
    <3> QED  BY <2>1, <3>2, <3>3
  <2> HIDE DEF y
  <2>7. Rising(z) /\ z \in Seq(Nat)
    <3>1. /\ Rising(y) /\ (\A i \in 1 .. Len(y) : y[i] <= n) /\ y \in Seq(Nat)
          /\ Run(audio_buffer, n)
      BY <2>1, <2>3, <2>6
    <3> QED  BY <2>2, <3>1, RisingJoin, FramesAppended
  <2> HIDE DEF z
  <2>8. Ascending(z)
    <3>1. PICK last \in Nat : last = Len(z)
      BY <2>7
    <3>2. \A i \in 1 .. last - 1 : i \in 1 .. last /\ i + 1 \in 1 .. last /\ i < i + 1
      OBVIOUS
    <3> QED  BY <2>7, <3>1, <3>2 DEF Rising, Ascending
  <2>9. Ascending(FlattenSeq(utterances) \o speech_buffer \o chunk \o audio_buffer)
    BY <2>8 DEF x, y, z, Text
  <2>10. /\ \A i \in 1 .. Len(utterances) : Unbroken(utterances[i])
         /\ utterance_count <= Len(utterances)
    BY DEF HeardInv, Timeline, Buffers
  <2>11. spoken \subseteq ToSet(FlattenSeq(utterances)) \cup ToSet(speech_buffer) \cup hurried
    BY DEF HeardInv, Spoken, Text
  <2> QED  BY <2>4, <2>9, <2>10, <2>11 DEF SpeechKept, InOrder
<1> QED  BY <1>1, HeardInvariant, PTL

-----------------------------------------------------------------------------
(***************************************************************************)
(* A microphone that runs on.                                              *)
(***************************************************************************)

\* The interval the thread sleeps through, or slept through for its chunk.
SleptThrough == IF thread \in {"sleep", "chunk"} THEN IntervalFrames ELSE 0

\* Without a gap, what is missing to the counted silence is still on its way:
\* in the buffer, or in the device; and what was in the device when the thread
\* woke up is at most a callback.
Pace ==
  /\ shortfall + SleptThrough <= Len(chunk) + Len(audio_buffer) + late
  /\ thread = "chunk" => shortfall + IntervalFrames <= Len(chunk) + MaxCallback
  /\ thread \in {"none", "head", "recognize"} => shortfall <= MaxCallback

PaceInv ==
  /\ late \in Nat
  /\ state = "calibrating" => shortfall = 0
  /\ ~gap => device = "capturing" /\ sink = "recognizer" /\ Pace

(* The numbers the pace is about.                                           *)
LEMMA Measures ==
    ASSUME HeardInv
    PROVE  /\ Len(audio_buffer) \in Nat /\ Len(chunk) \in Nat /\ Len(speech_buffer) \in Nat
           /\ heard \in Nat /\ silence \in Nat /\ shortfall \in Int
           /\ IntervalFrames \in Nat \ {0} /\ MaxCallback \in Nat /\ TailTrim \in Nat
           /\ SleptThrough \in Nat /\ shortfall + SleptThrough \in Int
<1>1. audio_buffer \in Seq(Nat) /\ chunk \in Seq(Nat) /\ speech_buffer \in Seq(Nat)
      /\ heard \in Nat /\ silence \in Nat /\ shortfall \in Int
  BY DEF HeardInv, Buffers
<1>2. IntervalFrames \in Nat \ {0} /\ MaxCallback \in Nat /\ TailTrim \in Nat
  BY RealtimeAssumption, InputAssumption
<1>3. SleptThrough \in Nat
  BY <1>2 DEF SleptThrough
<1> QED  BY <1>1, <1>2, <1>3

(* A gap, or nothing missing, leaves nothing to show of the pace.           *)
LEMMA NothingMissing ==
    ASSUME HeardInv', late' \in Nat, shortfall' = 0, thread' \in {"none", "head", "recognize"}
    PROVE  Pace'
<1>1. PICK a \in Nat, c \in Nat, l \in Nat, m \in Nat :
        a = Len(audio_buffer') /\ c = Len(chunk') /\ l = late' /\ m = MaxCallback
  <2>1. audio_buffer' \in Seq(Nat) /\ chunk' \in Seq(Nat) /\ MaxCallback \in Nat
    BY InputAssumption DEF HeardInv, Buffers
  <2> QED  BY <2>1
<1>2. 0 + 0 <= c + a + l /\ 0 <= m
  OBVIOUS
<1>3. SleptThrough' = 0
  BY DEF SleptThrough
<1> QED  BY <1>1, <1>2, <1>3 DEF Pace

(* The device feeds the thread, and has so much less to deliver.            *)
LEMMA DeliveryKeepsPace ==
    ASSUME HeardInv, PaceInv, HeardInv', OnAudioData
    PROVE  PaceInv'
<1>1. PICK n \in 1 .. MaxCallback :
        /\ late' = Max({late - n, 0})
        /\ sink = "recognizer" => audio_buffer' = audio_buffer \o [i \in 1 .. n |-> heard + i]
  BY DEF OnAudioData, FeedRecognizer
<1>2. UNCHANGED <<thread, chunk, state, shortfall, device, sink, gap>>
  BY DEF OnAudioData, FeedRecognizer, realtimeVars, threadVars, heardVars
<1>3. PICK l \in Nat, k \in Nat, h \in Nat, a \in Nat :
        l = late /\ k = n /\ h = heard /\ a = Len(audio_buffer)
  <2>1. n \in Nat /\ late \in Nat
    BY <1>1, InputAssumption DEF PaceInv
  <2> QED  BY <2>1, Measures
<1> DEFINE rest == IF l - k >= 0 THEN l - k ELSE 0
<1>4. late' = rest
  <2>1. rest \in {l - k, 0} /\ \A y \in {l - k, 0} : rest >= y
    OBVIOUS
  <2>2. \A x \in {l - k, 0} : (\A y \in {l - k, 0} : x >= y) => x = rest
    OBVIOUS
  <2> HIDE DEF rest
  <2> QED  BY <1>1, <1>3, <2>1, <2>2 DEF Max
<1>5. rest \in Nat /\ rest >= l - k
  OBVIOUS
<1> HIDE DEF rest
<1>6. ASSUME ~gap
      PROVE  Pace'
  <2>1. sink = "recognizer" /\ Pace
    BY <1>6 DEF PaceInv
  <2>2. Len(audio_buffer') = a + k
    <3>1. \A i \in 1 .. k : h + i \in Nat
      OBVIOUS
    <3>2. [i \in 1 .. k |-> h + i] \in Seq(Nat) /\ Len([i \in 1 .. k |-> h + i]) = k
      BY <3>1
    <3> DEFINE frames == [i \in 1 .. k |-> h + i]
    <3> HIDE DEF frames
    <3>3. frames \in Seq(Nat) /\ Len(frames) = k /\ audio_buffer \in Seq(Nat)
      BY <3>2 DEF frames, HeardInv, Buffers
    <3>4. Len(audio_buffer \o frames) = Len(audio_buffer) + Len(frames)
      BY <3>3, ConcatProperties
    <3> QED  BY <1>1, <1>3, <2>1, <3>3, <3>4 DEF frames
  <2>3. PICK s \in Int, c \in Nat :
          s = shortfall + SleptThrough /\ c = Len(chunk)
    BY Measures
  <2>4. s <= c + a + l
    BY <1>3, <2>1, <2>3 DEF Pace
  <2>5. s <= c + (a + k) + rest
    BY <1>5, <2>4
  <2>6. SleptThrough' = SleptThrough
    BY <1>2 DEF SleptThrough
  <2> QED  BY <1>2, <1>4, <2>1, <2>2, <2>3, <2>5, <2>6 DEF Pace
<1> QED  BY <1>2, <1>4, <1>5, <1>6 DEF PaceInv

(* A step of the thread that is no round.                                   *)
LEMMA WaitingKeepsPace ==
    ASSUME HeardInv, PaceInv, Recognizing, LoopHead \/ TakeChunk
    PROVE  PaceInv'
<1>1. /\ UNCHANGED <<state, shortfall, device, sink>>
      /\ gap' = gap
  BY DEF Recognizing, LoopHead, TakeChunk, heardVars
<1>2. PICK s \in Int, a \in Nat, c \in Nat, l \in Nat, f \in Nat \ {0}, m \in Nat :
        /\ s = shortfall /\ a = Len(audio_buffer) /\ c = Len(chunk) /\ l = late
        /\ f = IntervalFrames /\ m = MaxCallback
  BY Measures DEF PaceInv
<1>3. thread # "chunk" /\ c = 0
  <2>1. thread # "chunk"
    BY DEF LoopHead, TakeChunk
  <2> QED  BY <1>2, <2>1 DEF HeardInv, Phases
<1>4. late' \in Nat
  BY <1>2 DEF Recognizing
<1>5. CASE gap
  BY <1>1, <1>4, <1>5 DEF PaceInv
<1>6. CASE ~gap /\ LoopHead
  <2>1. /\ thread = "head" /\ device = "capturing" /\ sink = "recognizer"
        /\ s + 0 <= c + a + l /\ s <= m
        /\ UNCHANGED <<audio_buffer, chunk>>
    BY <1>2, <1>6 DEF LoopHead, PaceInv, Pace, SleptThrough
  <2>2. CASE thread' = "sleep"
    <3>1. late' = l + f
      BY <1>2, <2>1, <2>2 DEF Recognizing
    <3>2. s + f <= c + a + (l + f)
      BY <2>1
    <3> QED  BY <1>1, <1>2, <1>4, <2>1, <2>2, <3>1, <3>2 DEF PaceInv, Pace, SleptThrough
  <2>3. CASE thread' = "none"
    <3>1. late' = late
      BY <2>3 DEF Recognizing
    <3> QED  BY <1>1, <1>2, <1>4, <2>1, <2>3, <3>1 DEF PaceInv, Pace, SleptThrough
  <2> QED  BY <1>6, <2>2, <2>3 DEF LoopHead
<1>7. CASE ~gap /\ TakeChunk
  <2>1. /\ thread = "sleep" /\ device = "capturing" /\ sink = "recognizer"
        /\ s + f <= c + a + l
        /\ chunk' = audio_buffer /\ audio_buffer' = <<>> /\ Len(audio_buffer') = 0
        /\ thread' = IF audio_buffer = <<>> THEN "head" ELSE "chunk"
    BY <1>2, <1>7 DEF TakeChunk, PaceInv, Pace, SleptThrough
  <2>2. late' = l /\ l <= m
    BY <1>2, <2>1 DEF Recognizing
  <2>3. /\ s + f <= a + 0 + l /\ s + f <= a + m
        /\ a = 0 => s + 0 <= a + 0 + l /\ s <= m
    BY <1>3, <2>1, <2>2
  <2>4. CASE thread' = "chunk"
    BY <1>1, <1>2, <1>4, <2>1, <2>2, <2>3, <2>4 DEF PaceInv, Pace, SleptThrough
  <2>5. CASE thread' = "head"
    <3>1. a = 0
      BY <1>2, <2>1, <2>5
    <3> QED  BY <1>1, <1>2, <1>4, <2>1, <2>2, <2>3, <2>5, <3>1 DEF PaceInv, Pace, SleptThrough
  <2> QED  BY <2>1, <2>4, <2>5
<1> QED  BY <1>5, <1>6, <1>7

(* A round: what the chunk lacked is missing now, unless it has speech.     *)
LEMMA RoundKeepsPace ==
    ASSUME HeardInv, PaceInv, HeardInv', Recognizing,
           NEW has_speech \in BOOLEAN, Round(has_speech)
    PROVE  PaceInv'
<1>1. /\ thread = "chunk" /\ thread' \in {"head", "recognize"}
      /\ chunk' = <<>> /\ Len(chunk') = 0
      /\ UNCHANGED <<audio_buffer, device, sink>> /\ sink = "recognizer"
      /\ late' = late /\ late' \in Nat
      /\ has_speech \/ state = "idle" => shortfall' = 0
      /\ ~ (has_speech \/ state = "idle") =>
           shortfall' = shortfall + IntervalFrames - Len(chunk)
      /\ gap' = IF spoken' # spoken THEN device # "capturing" ELSE gap
      /\ ~has_speech => spoken' = spoken
  BY DEF Recognizing, Round, PaceInv
<1>2. state' # "calibrating"
  BY DEF Round, InIdle, InSpeech, InSilence
<1>3. ~gap' => device' = "capturing" /\ sink' = "recognizer"
  BY <1>1 DEF PaceInv
<1>4. CASE shortfall' = 0
  BY <1>1, <1>2, <1>3, <1>4, NothingMissing DEF PaceInv
<1>5. CASE shortfall' # 0
  <2>1. gap' = gap /\ shortfall' = shortfall + IntervalFrames - Len(chunk)
    BY <1>1, <1>5
  <2>2. PICK s \in Int, a \in Nat, c \in Nat, l \in Nat, f \in Nat, m \in Nat :
          /\ s = shortfall /\ a = Len(audio_buffer) /\ c = Len(chunk) /\ l = late
          /\ f = IntervalFrames /\ m = MaxCallback
    BY Measures DEF PaceInv
  <2>3. ASSUME ~gap'
        PROVE  Pace'
    <3>1. s + f <= c + a + l /\ s + f <= c + m
      BY <1>1, <2>1, <2>2, <2>3 DEF PaceInv, Pace, SleptThrough
    <3>2. (s + f - c) + 0 <= 0 + a + l /\ s + f - c <= m
      BY <3>1
    <3> QED  BY <1>1, <2>1, <2>2, <3>2 DEF Pace, SleptThrough
  <2> QED  BY <1>1, <1>2, <1>3, <2>3 DEF PaceInv
<1> QED  BY <1>4, <1>5

LEMMA PaceInvariant == Spec => [](HeardInv /\ PaceInv)
<1>1. Init => PaceInv
  BY DEF Init, RealtimeInit, PaceInv
<1>2. HeardInv /\ PaceInv /\ HeardInv' /\ [Next]_vars => PaceInv'
  <2> SUFFICES ASSUME HeardInv, PaceInv, HeardInv', [Next]_vars PROVE PaceInv'
    OBVIOUS
  <2>1. CASE CaptureInit \/ CaptureStart \/ Recording \/ UNCHANGED vars
    <3>1. /\ UNCHANGED <<realtimeVars, sink, paceVars>>
          /\ device = "capturing" => device' = "capturing"
      BY <2>1 DEF CaptureInit, CaptureStart, Recording, vars
    <3> QED  BY <3>1 DEF PaceInv, Pace, SleptThrough, paceVars, realtimeVars, threadVars,
                         heardVars
  <2>2. CASE CaptureStop
    <3>1. late' = 0 /\ gap' = TRUE /\ UNCHANGED <<state, shortfall>>
      BY <2>2 DEF CaptureStop, realtimeVars, threadVars, heardVars
    <3> QED  BY <3>1 DEF PaceInv
  <2>3. CASE OnAudioData
    BY <2>3, DeliveryKeepsPace
  <2>4. CASE Recognizing
    <3>1. CASE LoopHead \/ TakeChunk
      BY <2>4, <3>1, WaitingKeepsPace
    <3>2. ASSUME NEW has_speech \in BOOLEAN, Round(has_speech)
          PROVE  PaceInv'
      BY <2>4, <3>2, RoundKeepsPace
    <3>3. CASE StartRecognizer \/ Calibrate \/ Recognize
      <4>1. /\ UNCHANGED <<device, sink>> /\ late' = late
            /\ thread' \in {"head"}
        BY <2>4, <3>3 DEF Recognizing, StartRecognizer, Calibrate, Recognize
      <4>2. shortfall' = 0
        BY <3>3 DEF StartRecognizer, Calibrate, Recognize, PaceInv, heardVars
      <4>3. ~gap' => ~gap
        BY <2>4, <3>3 DEF Recognizing, StartRecognizer, Calibrate, Recognize, heardVars
      <4> QED  BY <4>1, <4>2, <4>3, NothingMissing DEF PaceInv
    <3>4. CASE StopRecognizer
      <4>1. /\ UNCHANGED <<device, sink, late, gap, thread, state, shortfall, chunk, audio_buffer>>
        BY <2>4, <3>4 DEF Recognizing, StopRecognizer, threadVars, heardVars
      <4> QED  BY <4>1 DEF PaceInv, Pace, SleptThrough
    <3> QED  BY <2>4, <3>1, <3>2, <3>3, <3>4 DEF Recognizing, ProcessLoop
  <2> QED  BY <2>1, <2>2, <2>3, <2>4 DEF Next
<1> QED  BY <1>1, <1>2, HeardInvariant, PTL DEF Spec

(* While the microphone runs on, trimming cuts no chunk above the          *)
(* threshold, whatever the lengths of callbacks and of the rounds that     *)
(* take them, as long as the tail that is kept is no shorter than a        *)
(* callback.                                                               *)
LEMMA SteadyAudioIsKept == Spec => []SteadyAudioKeepsSpeech
<1>1. HeardInv /\ PaceInv => SteadyAudioKeepsSpeech
  <2> SUFFICES ASSUME HeardInv, PaceInv, ~gap, MaxCallback <= TailTrim, thread = "recognize",
                      NEW i \in Len(Trimmed) + 1 .. Len(speech_buffer)
               PROVE  speech_buffer[i] \notin spoken
    BY DEF SteadyAudioKeepsSpeech, TrimsOnlySilence
  <2>1. PICK s \in Int, b \in Nat, q \in Nat, m \in Nat, t \in Nat :
          /\ s = shortfall /\ b = Len(speech_buffer) /\ q = silence
          /\ m = MaxCallback /\ t = TailTrim
    BY Measures
  <2>2. s <= m /\ m <= t /\ s <= q
    BY <2>1 DEF PaceInv, Pace, HeardInv, Spoken
  <2>3. s <= t
    BY <2>2
  <2>4. PICK keep \in 0 .. b : keep >= b - (q - s) /\ Len(Trimmed) = keep
    BY <2>1, <2>3, TrimmedFrames
  <2>5. i \in 1 .. b /\ i > b - (q - s)
    BY <2>1, <2>4
  <2> QED  BY <2>1, <2>5 DEF HeardInv, Spoken
<1> QED  BY <1>1, PaceInvariant, PTL

(* For every check interval, pause, tail and length of callbacks, whatever *)
(* the thread finds in the buffer, and however often microphone and        *)
(* recognizer are started and stopped, speech is recognised once, in order *)
(* and unbroken; trimming cuts some only where the closing chunks lacked   *)
(* more than the tail, and none while the microphone runs on.              *)
THEOREM SpeechIsHeardOnce == Spec => []SpeechHeardOnce
<1>1. SpeechKept /\ SteadyAudioKeepsSpeech => SpeechHeardOnce
  BY DEF SpeechHeardOnce
<1> QED  BY <1>1, SpeechIsKept, SteadyAudioIsKept, PTL
=============================================================================
