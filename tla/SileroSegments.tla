---------------------------- MODULE SileroSegments ----------------------------
(***************************************************************************)
(* From the speech probabilities of the Silero model, one per window, to   *)
(* segments of speech (src/compute/silero_vad.cpp, segments_from_probs).   *)
(* A probability is 2 at the threshold or above it, 0 below the threshold  *)
(* that ends speech, and 1 between them.  Positions are ticks, a window is *)
(* FrameTicks; 0 stands for "no position", as in the code.  Rounding to    *)
(* centiseconds is left out.                                               *)
(***************************************************************************)
EXTENDS Chunking

CONSTANTS
  MaxSpeech,   \* max_speech_samples
  MinPause,    \* min_silence_samples
  LongPause,   \* min_silence_samples_at_max_speech
  MinSpeech,   \* min_speech_samples
  MergeGap,    \* max_merge_gap_samples
  SpeechPad    \* speech_pad_samples

ASSUME SileroAssumption ==
  /\ {MaxSpeech, MinPause, LongPause, MinSpeech, MergeGap, SpeechPad} \subseteq Nat
  /\ MinPause > 0

SileroStart ==
  [on |-> FALSE, has |-> FALSE, start |-> 0, temp |-> 0, prev |-> 0, next |-> 0,
   out |-> <<>>]

Push(s, start, end) == [s EXCEPT !.out = Append(@, [start |-> start, end |-> end])]

NoPause(s) == [s EXCEPT !.temp = 0, !.prev = 0, !.next = 0]

Off(s) == [s EXCEPT !.on = FALSE, !.has = FALSE]

\* Speech after a pause that did not end the segment.
PauseOver(s, at) ==
  [s EXCEPT !.temp = 0, !.next = IF s.next < s.prev THEN at ELSE @]

\* The segment got too long and had a long pause: it ends there, and the
\* next one starts with the speech after the pause, if there was any.
CutAtPause(s) ==
  LET cut == Push(s, s.start, s.prev)
  IN  NoPause(IF s.next < s.prev THEN Off(cut)
              ELSE [cut EXCEPT !.has = TRUE, !.start = s.next])

\* A window of silence in a segment ends it when the pause is long enough.
Pause(s, at) ==
  LET temp == IF s.temp = 0 THEN at ELSE s.temp
      noted == [s EXCEPT !.temp = temp,
                         !.prev = IF at - temp > LongPause THEN temp ELSE @]
  IN  IF at - temp < MinPause THEN noted
      ELSE NoPause(Off(IF temp - s.start > MinSpeech
                       THEN Push(noted, s.start, temp) ELSE noted))

SileroWindow(levels, before, i) ==
  LET p == Level(levels, i)
      at == i * FrameTicks
      s == IF p = 2 /\ before.temp # 0 THEN PauseOver(before, at) ELSE before
      long == s.on /\ at - s.start > MaxSpeech
      t == IF long THEN CutAtPause(s) ELSE s
  IN  CASE p = 2 /\ ~s.on -> [s EXCEPT !.on = TRUE, !.has = TRUE, !.start = at]
        [] long /\ s.prev = 0 -> Off(NoPause(Push(s, s.start, at)))
        [] ~(p = 2 /\ ~s.on) /\ ~(long /\ s.prev = 0) /\ p = 0 /\ t.on -> Pause(t, at)
        [] OTHER -> t

\* Segments with a short gap between them become one.
Merged(segments) ==
  FoldLeft(LAMBDA out, g :
             IF out # <<>> /\ g.start - Last(out).end < MergeGap
             THEN [out EXCEPT ![Len(out)].end = g.end]
             ELSE Append(out, g),
           <<>>, segments)

\* Both sides of a gap get the padding, or half of a gap too short for it;
\* total is the end of the last window.
Padded(segments, total) ==
  LET n == Len(segments)
      gap(i) == segments[i + 1].start - segments[i].end
      half(i) == IF gap(i) < 2 * SpeechPad THEN gap(i) \div 2 ELSE SpeechPad
      before(i) == IF i = 1 THEN SpeechPad ELSE half(i - 1)
      after(i) == IF i = n THEN SpeechPad ELSE half(i)
  IN  [i \in 1 .. n |-> [start |-> Max({0, segments[i].start - before(i)}),
                         end   |-> Min({total, segments[i].end + after(i)})]]

Segments(levels) ==
  LET total == Len(levels) * FrameTicks
      s == FoldLeft(LAMBDA a, i : SileroWindow(levels, a, i),
                    SileroStart, FrameRange(0, Len(levels) - 1))
      speeches == IF s.has /\ total - s.start > MinSpeech
                  THEN Push(s, s.start, total).out ELSE s.out
  IN  Padded(SelectSeq(Merged(speeches), LAMBDA g : g.end - g.start >= MinSpeech), total)

SplitBySilero(levels) == FromSegments(Segments(levels), Len(levels) * FrameTicks)
=============================================================================
