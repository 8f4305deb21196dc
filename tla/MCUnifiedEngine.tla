-------------------------- MODULE MCUnifiedEngine --------------------------
(* Recordings for the model checker.                                       *)
EXTENDS UnifiedEngine

\* Chunks that go beyond a prefix of three tokens, one that needs several
\* rounds of prefill and fills the context, one without audio; there are so
\* many that prepared ones wait in the queue while the next job is launched.
OverlapChunks == <<4, 4, 4, 9, 5, 5, 0>>

\* Chunks of equal length.
ThreeChunks == <<4, 4, 4>>

\* One chunk.
OneChunk == <<4>>

============================================================================
