------------------------------ MODULE Subtitles ------------------------------
(***************************************************************************)
(* What the command line program makes of recognised text                  *)
(* (src/cli/funasr_cli.cpp): repetitions the model got caught in are       *)
(* removed, chunks that share their ends are joined, and long texts are    *)
(* cut into subtitles that share the time of their chunk.                  *)
(*                                                                         *)
(* A text is a sequence of characters: letters, "." for the marks that end *)
(* a sentence, "," for those that end a clause.  The lengths the code      *)
(* compares with are constants, so that short texts can reach them.        *)
(***************************************************************************)
EXTENDS Integers, Sequences, SequencesExt

CONSTANTS
  MinClause,  \* 4: a repeated clause, or a subtitle, is at least that long
  MinUnit,    \* 4: a repeated run of characters too
  MaxUnit,    \* 32: and it is at most that long
  MinRepeats, \* 3: as often it has to be repeated
  MinText,    \* 12: shorter texts are searched for no runs
  MaxChars,   \* --srt-max-chars
  CommaAt,    \* 30: longer sentences are split at commas as well
  Millis,     \* milliseconds of a tick
  Texts       \* what the model may say

ASSUME SubtitlesAssumption ==
  {MinClause, MinUnit, MaxUnit, MinRepeats, MinText, MaxChars, CommaAt, Millis} \subseteq Nat \ {0}

Mark == {".", ","}

Letters(text) == SelectSeq(text, LAMBDA ch : ch \notin Mark)

\* Where the piece begins that is open behind the i-th character, when a text
\* is cut behind the marks that end a piece of the least length or a longer one.
OpenAt(text, ends, least) ==
  LET open[i \in 0 .. Len(text)] ==
        IF i = 0 THEN 1
        ELSE LET from == open[i - 1]
             IN  IF text[i] \in ends /\ i - from + 1 >= least THEN i + 1 ELSE from
  IN  open

\* The pieces that were ended, and the rest behind them.
PiecesOf(text, ends, least) ==
  LET open == OpenAt(text, ends, least)
      last == SelectSeq([i \in 1 .. Len(text) |-> i], LAMBDA i : open[i] = i + 1)
  IN  [k \in 1 .. Len(last) |-> SubSeq(text, open[last[k] - 1], last[k])]

Rest(text, ends, least) == SubSeq(text, OpenAt(text, ends, least)[Len(text)], Len(text))

-----------------------------------------------------------------------------
(* cleanup_repeated_text.                                                  *)

Clauses(text) ==
  LET rest == Rest(text, Mark, 1)
  IN  PiecesOf(text, Mark, 1) \o IF rest = <<>> THEN <<>> ELSE <<rest>>

\* collapse_adjacent_repeated_clauses: a clause that says what the one
\* before it said goes.
CollapseClauses(text) ==
  FoldLeft(LAMBDA s, clause :
             LET norm == Letters(clause)
             IN  IF norm = s.norm /\ Len(norm) >= MinClause THEN s
                 ELSE [out |-> s.out \o clause, norm |-> norm],
           [out |-> <<>>, norm |-> <<>>], Clauses(text)).out

\* How often the n characters from i on follow one another.
Repeats(text, i, n) ==
  Max({r \in 1 .. Len(text) : /\ i + r * n - 1 <= Len(text)
                              /\ \A k \in 0 .. r * n - 1 :
                                   text[i + k] = text[i + (k % n)]} \cup {1})

\* The shortest run that is repeated often enough, 0 if there is none.
RunAt(text, i) ==
  LET units == {n \in MinUnit .. Min({MaxUnit, (Len(text) - i + 1) \div MinRepeats}) :
                  Repeats(text, i, n) >= MinRepeats}
  IN  IF units = {} THEN 0 ELSE Min(units)

\* collapse_repeated_char_runs: such a run is kept once.
CollapseRuns(text) ==
  IF Len(text) < MinText THEN text
  ELSE FoldLeft(LAMBDA s, i :
                  LET n == RunAt(text, i)
                  IN  CASE i < s.next -> s
                        [] i >= s.next /\ n = 0 ->
                             [out |-> Append(s.out, text[i]), next |-> i + 1]
                        [] OTHER -> [out  |-> s.out \o SubSeq(text, i, i + n - 1),
                                     next |-> i + Repeats(text, i, n) * n],
                [out |-> <<>>, next |-> 1], [i \in 1 .. Len(text) |-> i]).out

Cleanup(text) == CollapseClauses(CollapseRuns(CollapseClauses(text)))

\* The texts, rid of their repetitions.
Cleaned == [raw \in Texts |-> Cleanup(raw)]

\* append_without_overlap: the longest end of base that next begins with is
\* written once.
AppendWithoutOverlap(base, next) ==
  LET shared == Max({n \in 0 .. Min({Len(base), Len(next)}) :
                       SubSeq(base, Len(base) - n + 1, Len(base)) = SubSeq(next, 1, n)})
  IN  base \o SubSeq(next, shared + 1, Len(next))

-----------------------------------------------------------------------------
(* Subtitles.                                                              *)

\* Faulty variant: a short rest is left out.
SplitDroppingRest(text, ends) == PiecesOf(text, ends, MinClause)

\* split_by_punctuation: a short rest stays with the last piece.
SplitByPunctuation(text, ends) ==
  LET pieces == PiecesOf(text, ends, MinClause)
      rest == Rest(text, ends, MinClause)
  IN  CASE rest = <<>> -> pieces
        [] rest # <<>> /\ pieces # <<>> /\ Len(rest) < MinClause ->
             [pieces EXCEPT ![Len(pieces)] = @ \o rest]
        [] OTHER -> Append(pieces, rest)

SplitSubtitle(text) ==
  IF Len(text) <= MaxChars THEN <<text>>
  ELSE FoldLeft(LAMBDA out, part :
                  IF Len(part) > CommaAt THEN out \o SplitByPunctuation(part, {","})
                  ELSE Append(out, part),
                <<>>, SplitByPunctuation(text, {"."}))

\* The parts of each text that remains.
Parts == [text \in {Cleaned[raw] : raw \in Texts} |-> SplitSubtitle(text)]

\* write_srt_segment: each part has its share of the time, by its length,
\* and the last one the rest.
Cues(start, end, text) ==
  LET parts == Parts[text]
      span == Max({0, end - start}) * Millis
      chars(k) == FoldLeft(LAMBDA n, part : n + Len(part), 0, SubSeq(parts, 1, k))
      at(k) == IF k = Len(parts) THEN end * Millis
               ELSE start * Millis + (span * chars(k)) \div Len(text)
  IN  IF text = <<>> THEN <<>>
      ELSE [k \in 1 .. Len(parts) |-> [from |-> at(k - 1), to |-> at(k), text |-> parts[k]]]

\* write_srt: the segments of each file that has a text, or its whole text.
Srt(items) ==
  FlattenSeq([i \in 1 .. Len(items) |->
    LET item == items[i]
    IN  CASE ~item.ok -> <<>>
          [] item.ok /\ item.segments = <<>> -> Cues(0, item.duration, item.text)
          [] OTHER -> FlattenSeq([k \in 1 .. Len(item.segments) |->
                        LET g == item.segments[k] IN Cues(g.start, g.end, g.text)])])
=============================================================================
