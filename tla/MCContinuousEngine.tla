------------------------ MODULE MCContinuousEngine ------------------------
(* A recording for the model checker.                                      *)
EXTENDS ContinuousEngine

\* Equal lengths share an admission hint; one chunk has no audio, those
\* of length 5 are beyond their estimate, and the one before the last is
\* longer than the context and, beside a cached prefix, than the pool.
MixedChunks == <<5, 0, 4, 11, 5>>
Estimates == <<3, 1, 4, 9, 3>>
============================================================================
