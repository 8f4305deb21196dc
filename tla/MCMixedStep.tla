---------------------------- MODULE MCMixedStep ----------------------------
(* Where the blocks lie, for TLC: the owners' blocks alternate, the last   *)
(* ones of a table come first.                                             *)
EXTENDS MixedStep

scattered ==
  [x \in (0 .. NumRequests) \X (1 .. TableBlocks) |->
     (TableBlocks - x[2]) * (NumRequests + 1) + x[1]]
============================================================================
