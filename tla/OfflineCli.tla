------------------------------ MODULE OfflineCli ------------------------------
(***************************************************************************)
(* The command line program on files, without a GPU (main of               *)
(* src/cli/funasr_cli.cpp): each file is loaded, cut into chunks, the      *)
(* chunks are recognised one by one or by the batch scheduler, and what    *)
(* comes out becomes a text and the segments its subtitles are made from.  *)
(*                                                                         *)
(* What the model says of a chunk is any of a few texts.                   *)
(***************************************************************************)
EXTENDS SileroSegments, Subtitles, CpuBatch

CONSTANTS
  NumFiles,   \* bound: files given to the program
  Recordings  \* what a file may contain

ASSUME CliAssumption == NumFiles \in Nat /\ <<>> \in Texts

VARIABLES
  mode,      \* chunk_mode: "none", "window", "energy", "silero"
  scheduler, \* offline_scheduler
  file,      \* the file being worked on
  recording, \* its audio, while that is needed
  chunks,    \* its chunks
  item,      \* its text and segments so far
  items,     \* those of the files before it
  at,        \* "load", "cut", "chunked", "serial", "batch", "done"
  written,   \* the subtitles, file by file
  status     \* exit status

fileVars == <<recording, chunks, item>>

vars == <<batchVars, mode, scheduler, file, fileVars, items, at, written, status>>

NoText == [text |-> <<>>, segments |-> <<>>, duration |-> 0]

Init ==
  /\ BatchInit
  /\ mode \in {"none", "window", "energy", "silero"}
  /\ scheduler \in BOOLEAN
  /\ mode = "none" \/ ~scheduler => ~paged
  /\ file = 1
  /\ recording = <<>>
  /\ chunks = <<>>
  /\ item = NoText
  /\ items = <<>>
  /\ at = "load"
  /\ written = <<>>
  /\ status = 0

\* The file is done, with or without a text.
FinishFile(it) ==
  /\ items' = Append(items, [text |-> it.text, segments |-> it.segments,
                             duration |-> it.duration, ok |-> it.text # <<>>])
  /\ status' = IF it.text = <<>> THEN 1 ELSE status
  /\ file' = file + 1
  /\ recording' = <<>> /\ chunks' = <<>> /\ item' = NoText
  /\ at' = "load"

\* A file that cannot be decoded has no text.
LoadFile ==
  /\ at = "load" /\ file <= NumFiles
  /\ \/ /\ FinishFile(NoText)
        /\ UNCHANGED <<batchVars, mode, scheduler, written>>
     \/ /\ \E r \in Recordings :
             /\ recording' = r
             /\ item' = [NoText EXCEPT !.duration = Len(r) * FrameTicks]
        /\ at' = "cut"
        /\ UNCHANGED <<batchVars, mode, scheduler, file, chunks, items, written, status>>

\* Without chunks the recording is recognised in one call.
TranscribeWhole ==
  /\ at = "cut" /\ mode = "none"
  /\ \E raw \in Texts : FinishFile([item EXCEPT !.text = Cleaned[raw]])
  /\ UNCHANGED <<batchVars, mode, scheduler, written>>

\* Chunks too long for the context of the language model are cut again.
CutRecording ==
  /\ at = "cut" /\ mode # "none"
  /\ chunks' = SplitLong(CASE mode = "window" -> SplitByWindow(recording)
                           [] mode = "energy" -> SplitByEnergy(recording)
                           [] mode = "silero" -> SplitBySilero(recording),
                         Len(recording) * FrameTicks)
  /\ at' = "chunked"
  /\ UNCHANGED <<batchVars, mode, scheduler, file, recording, item, items, written, status>>

BeginChunks ==
  /\ at = "chunked"
  /\ recording' = <<>>
  /\ \/ scheduler /\ chunks # <<>> /\ at' = "batch" /\ BeginBatch(chunks)
     \/ (~scheduler \/ chunks = <<>>) /\ at' = "serial" /\ UNCHANGED batchVars
  /\ UNCHANGED <<mode, scheduler, file, chunks, item, items, written, status>>

\* What is said in a chunk joins the text and is a segment of its own.
Say(it, chunk, raw) ==
  LET text == Cleaned[raw]
  IN  IF text = <<>> THEN it
      ELSE [it EXCEPT !.text = AppendWithoutOverlap(@, text),
                      !.segments = Append(@, [start |-> chunk.start,
                                              end   |-> chunk.end, text |-> text])]

\* One chunk after the other; the chunks that are done are taken off.
TranscribeSegment ==
  /\ at = "serial"
  /\ \/ /\ chunks = <<>>
        /\ FinishFile(item)
     \/ /\ chunks # <<>>
        /\ \E raw \in Texts : item' = Say(item, Head(chunks), raw)
        /\ chunks' = Tail(chunks)
        /\ UNCHANGED <<file, recording, items, at, status>>
  /\ UNCHANGED <<batchVars, mode, scheduler, written>>

Transcribe ==
  /\ at = "batch"
  /\ \/ Admit(chunks)
     \/ StopAdmitting(chunks)
     \/ \E raw \in Texts : RunOne(chunks, raw)
     \/ EndBatch(chunks)
  /\ UNCHANGED <<mode, scheduler, file, fileVars, items, at, written, status>>

\* The results, in the order of the chunks.
CollectResults ==
  /\ at = "batch" /\ batch = "off"
  /\ FinishFile(FoldLeft(LAMBDA it, i :
                           LET result == answers[i][1]
                           IN  IF result.ok THEN Say(it, chunks[i], result.text) ELSE it,
                         item, [i \in 1 .. Len(chunks) |-> i]))
  /\ answers' = <<>>
  /\ UNCHANGED <<paged, next, active, free, batch, mode, scheduler, written>>

\* The subtitles of all files are written; the output file may not open.
WriteResults ==
  /\ at = "load" /\ file > NumFiles
  /\ at' = "done"
  /\ \/ /\ written' = [i \in 1 .. Len(items) |-> Srt(<<items[i]>>)]
        /\ UNCHANGED status
     \/ status' = 1 /\ UNCHANGED written
  /\ UNCHANGED <<batchVars, mode, scheduler, file, fileVars, items>>

Next ==
  \/ LoadFile
  \/ TranscribeWhole
  \/ CutRecording
  \/ BeginChunks
  \/ TranscribeSegment
  \/ Transcribe
  \/ CollectResults
  \/ WriteResults

\* One thread that never waits; what it does in the scheduler is what has to end.
Spec == Init /\ [][Next]_vars /\ WF_vars(Transcribe)

-----------------------------------------------------------------------------
Covered(t) == \E i \in 1 .. Len(chunks) : chunks[i].start <= t /\ t < chunks[i].end

\* The frames the mode in use takes for speech.
Speech(i) == Level(recording, i) >= IF mode = "silero" THEN 2 ELSE Loud

\* The shortest unbroken stretch of speech, in frames, that cannot be lost
\* as a whole: what two cuts may drop, one at the end of a segment, one at
\* the end of a chunk too long for the context.
Heard == 2 * MinSegment

\* Chunks share no audio, but for a frame when a segment found too long is cut
\* at the frame that made it too long: the energy detector then lets the next
\* segment begin with it as well.
Shared == IF mode = "energy" THEN FrameTicks ELSE 0

\* However a recording is cut, its chunks follow one another, inference hears
\* all of each and never more than the context has room for, and what is too
\* short to be kept at a cut does not add up to a long stretch of lost speech.
ChunksFollowRecording ==
  at = "chunked" =>
    LET total == Len(recording) * FrameTicks IN
    /\ \A i \in 1 .. Len(chunks) :
         /\ chunks[i].start < chunks[i].end
         /\ chunks[i].inferStart <= chunks[i].start
         /\ chunks[i].end <= chunks[i].inferEnd
         /\ chunks[i].inferEnd <= total
         /\ chunks[i].inferEnd - chunks[i].inferStart <= MaxInfer
         /\ i > 1 => /\ chunks[i - 1].start < chunks[i].start
                     /\ chunks[i - 1].end <= chunks[i].start + Shared
    /\ \A a \in 0 .. Len(recording) - Heard :
         LET stretch == a .. a + Heard - 1
         IN  (\A i \in stretch : Speech(i)) =>
               \E t \in a * FrameTicks .. (a + Heard) * FrameTicks - 1 : Covered(t)

\* The subtitles of a file run forward in time, overlap no more than its
\* chunks do, stay within the file, and together say what was recognised.
SubtitlesFollowRecording ==
  \A i \in 1 .. Len(written) :
    LET it == items[i]
        cues == written[i]
        said == IF it.segments = <<>> THEN it.text
                ELSE FlattenSeq([k \in 1 .. Len(it.segments) |-> it.segments[k].text])
    IN  /\ FlattenSeq([k \in 1 .. Len(cues) |-> cues[k].text]) = said
        /\ \A k \in 1 .. Len(cues) :
             /\ 0 <= cues[k].from /\ cues[k].from <= cues[k].to
             /\ cues[k].to <= it.duration * Millis
             /\ k > 1 => /\ cues[k - 1].from <= cues[k].from
                         /\ cues[k - 1].to <= cues[k].from + Shared * Millis

\* Every chunk gets one result, and the scheduler returns, if the pool can
\* hold every single chunk: batches that fill it give back what they took.
EveryChunkReturns ==
  /\ [](at = "batch" /\ batch = "off" =>
          \A i \in 1 .. Len(chunks) : Len(answers[i]) = 1)
  /\ (at = "batch" /\ PoolSuffices(chunks)) ~> batch = "off"
=============================================================================
