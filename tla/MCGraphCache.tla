---------------------------- MODULE MCGraphCache ----------------------------
(***************************************************************************)
(* Four shapes for TLC: a decode step, which has no prompt rows, and steps *)
(* whose prompts and graphs grow: the first needs a third of the rows of   *)
(* the last, so that doubling the staging tensor once is not enough.       *)
(***************************************************************************)
EXTENDS GraphCache, TLC

CONSTANTS decode, short, medium, long

MCShapes == {decode, short, medium, long}
MCPromptRows == decode :> 0 @@ short :> 1 @@ medium :> 2 @@ long :> 5
MCMemory == decode :> 1 @@ short :> 1 @@ medium :> 2 @@ long :> 3
=============================================================================
