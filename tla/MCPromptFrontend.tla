-------------------------- MODULE MCPromptFrontend --------------------------
(* Two requests, each of one embedding of audio, for two slots.  The pool  *)
(* is made again only while few handles of the first one are about.        *)
EXTENDS PromptFrontend

Frames == [r \in Requests |-> 1]
FewOldHandles == Cardinality({h \in issued : h.epoch < epoch}) <= 1
=============================================================================
