---------------------------- MODULE ChunkAnswers ----------------------------
(***************************************************************************)
(* What an offline transcription promises its caller, whatever schedule    *)
(* and whatever failures it meets inside: every chunk of the recording is  *)
(* answered with one result, and a result is never taken back or replaced. *)
(***************************************************************************)
EXTENDS Sequences

CONSTANTS Chunk,    \* the chunks of the recording
          Outcome   \* what may become of one

VARIABLE answers    \* the results of each chunk

Init == answers = [c \in Chunk |-> <<>>]

Unanswered == {c \in Chunk : answers[c] = <<>>}

\* Results for the chunks of S.
Answer(S) ==
  \E outcome \in [S -> Outcome] :
    answers' = [c \in Chunk |-> IF c \in S THEN <<outcome[c]>> ELSE answers[c]]

Next == \E S \in SUBSET Unanswered : S # {} /\ Answer(S)

AnswersStand == Init /\ [][Next]_answers

EveryChunkAnswered == AnswersStand /\ WF_answers(Next)

============================================================================
