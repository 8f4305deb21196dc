------------------------------- MODULE Chunking -------------------------------
(***************************************************************************)
(* How a recording is cut into chunks (src/pipeline/chunking.cpp).         *)
(*                                                                         *)
(* Positions are ticks; an energy frame, and a window of the Silero model, *)
(* are FrameTicks of them.  A recording is the sequence of the levels of   *)
(* its frames, 0 the lowest.  A chunk is [start, end) and the possibly     *)
(* longer stretch that inference hears.                                    *)
(***************************************************************************)
EXTENDS Integers, Sequences, SequencesExt

CONSTANTS
  FrameTicks,   \* ticks of a frame
  MinSegment,   \* min_segment_ms of add_audio_chunk, in frames
  WindowFrames, \* chunk_sec
  MaxSegment,   \* max_segment_sec
  MinSilence,   \* min_silence_ms
  SegmentPad,   \* segment_pad_ms
  Overlap,      \* samples_overlap, in ticks
  MaxInfer      \* ticks the context of the language model has room for

ASSUME ChunkingAssumption ==
  /\ {FrameTicks, MinSegment, WindowFrames, MaxSegment, MinSilence, MaxInfer}
       \subseteq Nat \ {0}
  /\ SegmentPad \in Nat /\ Overlap \in Nat
  /\ MaxInfer >= MinSegment * FrameTicks

Loud == 1 \* the lowest level above energy_threshold

Level(levels, i) == levels[i + 1]

\* The frames from a to b, counted from 0.
FrameRange(a, b) == [k \in 1 .. b - a + 1 |-> a + k - 1]

-----------------------------------------------------------------------------
\* add_audio_chunk: clipped to the recording, and dropped when too short.
AddChunk(chunks, start, end, inferStart, inferEnd, total) ==
  LET clip(t) == Min({t, total})
      whole == clip(inferEnd) <= clip(inferStart)
  IN  IF clip(end) - clip(start) < MinSegment * FrameTicks THEN chunks
      ELSE Append(chunks,
             [start      |-> clip(start),
              end        |-> clip(end),
              inferStart |-> IF whole THEN clip(start) ELSE clip(inferStart),
              inferEnd   |-> IF whole THEN clip(end) ELSE clip(inferEnd)])

\* [from, to) in pieces of the given length.
Pieces(chunks, from, to, length, total) ==
  LET count == (to - from + length - 1) \div length
      piece(k) == [start |-> from + k * length,
                   end   |-> Min({to, from + (k + 1) * length})]
  IN  FoldLeft(LAMBDA out, k : AddChunk(out, piece(k).start, piece(k).end,
                                        piece(k).start, piece(k).end, total),
               chunks, FrameRange(0, count - 1))

SplitByWindow(levels) ==
  LET total == Len(levels) * FrameTicks
  IN  Pieces(<<>>, 0, total, WindowFrames * FrameTicks, total)

-----------------------------------------------------------------------------
(* Voice activity by energy.                                               *)

EnergyStart == [open |-> FALSE, start |-> 0, last |-> 0, silent |-> 0, chunks |-> <<>>]

\* finish_segment: the segment up to a frame, with its padding.
FinishSegment(s, endFrame, frames) ==
  IF endFrame - s.start + 1 < MinSegment THEN s.chunks
  ELSE LET coreEnd == Min({frames, endFrame + 1})
       IN  AddChunk(s.chunks, s.start * FrameTicks, coreEnd * FrameTicks,
                    Max({0, s.start - SegmentPad}) * FrameTicks,
                    Min({frames, coreEnd + SegmentPad}) * FrameTicks,
                    frames * FrameTicks)

\* The first of the quietest frames from a to b.
Quietest(levels, a, b) ==
  CHOOSE j \in a .. b :
    /\ \A k \in a .. b : Level(levels, j) <= Level(levels, k)
    /\ \A k \in a .. j - 1 : Level(levels, j) < Level(levels, k)

\* The frame is heard: it opens a segment, prolongs it, or is silence in it.
Hear(s, i, speech) ==
  [s EXCEPT !.open = @ \/ speech,
            !.start = IF speech /\ ~s.open THEN i ELSE @,
            !.last = IF speech THEN i ELSE @,
            !.silent = IF speech THEN 0 ELSE IF s.open THEN @ + 1 ELSE @]

\* A segment that got too long ends at its quietest frame; the next one
\* starts behind it.
CutLong(s, i, speech, levels) ==
  LET cut == Quietest(levels, Min({i, s.start + MinSegment}), i)
  IN  [s EXCEPT !.chunks = FinishSegment(s, cut, Len(levels)),
                !.start = Min({i, cut + 1}),
                !.last = i,
                !.silent = IF speech THEN 0 ELSE 1]

CloseSegment(s, levels) ==
  [s EXCEPT !.chunks = FinishSegment(s, s.last, Len(levels)),
            !.open = FALSE, !.silent = 0]

EnergyFrame(levels, before, i) ==
  LET speech == Level(levels, i) >= Loud
      s == Hear(before, i, speech)
  IN  CASE s.open /\ i - s.start + 1 >= MaxSegment -> CutLong(s, i, speech, levels)
        [] s.open /\ i - s.start + 1 < MaxSegment /\ s.silent >= MinSilence ->
             CloseSegment(s, levels)
        [] OTHER -> s

\* A recording without a segment is one chunk.
SplitByEnergy(levels) ==
  LET total == Len(levels) * FrameTicks
      heard == FoldLeft(LAMBDA s, i : EnergyFrame(levels, s, i),
                        EnergyStart, FrameRange(0, Len(levels) - 1))
      chunks == IF heard.open THEN CloseSegment(heard, levels).chunks ELSE heard.chunks
  IN  IF chunks = <<>> THEN AddChunk(<<>>, 0, total, 0, total, total) ELSE chunks

-----------------------------------------------------------------------------
\* convert_silero_segments_to_chunks: inference hears a little of what
\* follows; segments beyond the end of the recording vanish.
FromSegments(segments, total) ==
  LET clip(t) == Min({t, total})
      chunk(i) == [start      |-> clip(segments[i].start),
                   end        |-> clip(segments[i].end),
                   inferStart |-> clip(segments[i].start),
                   inferEnd   |-> IF i < Len(segments)
                                  THEN clip(clip(segments[i].end) + Overlap)
                                  ELSE clip(segments[i].end)]
  IN  SelectSeq([i \in 1 .. Len(segments) |-> chunk(i)], LAMBDA c : c.start < c.end)

\* Faulty variant: the length of the chunk decides, not what inference hears.
SplitLongByCore(chunks, total) ==
  FoldLeft(LAMBDA out, c : IF c.end - c.start <= MaxInfer THEN Append(out, c)
                           ELSE Pieces(out, c.start, c.end, MaxInfer, total),
           <<>>, chunks)

\* split_chunks_by_max_duration.
SplitLong(chunks, total) ==
  FoldLeft(LAMBDA out, c : IF c.inferEnd - c.inferStart <= MaxInfer THEN Append(out, c)
                           ELSE Pieces(out, c.start, c.end, MaxInfer, total),
           <<>>, chunks)

\* selected_audio_duration_seconds.
SelectedTicks(chunks) == FoldLeft(LAMBDA n, c : n + c.end - c.start, 0, chunks)
=============================================================================
