---------------------------- MODULE BlockSharing ----------------------------
(***************************************************************************)
(* What the KV block ownership rules of the two GPU engines promise,       *)
(* whatever their tables, reference counts and queues look like: who owns  *)
(* which physical block, and how that may change.                          *)
(*                                                                         *)
(* A block is either private to one request or shared; it is shared only   *)
(* because the task prefix owns it, so no two requests ever meet on a      *)
(* block that one of them may write.                                       *)
(***************************************************************************)
CONSTANTS
  Block,   \* the physical blocks
  Owner,   \* the requests and the task prefix
  Prefix   \* the owner that shares its blocks

VARIABLE owners  \* for each block, the set of its owners

TypeOK == owners \in [Block -> SUBSET Owner]

Init == owners = [b \in Block |-> {}]

\* New owners of b: nobody, one owner of a block that nobody had, or
\* requests that join the prefix.
MayGain(b, gained) ==
  \/ gained = {}
  \/ owners[b] = {} /\ \E o \in Owner : gained = {o}
  \/ Prefix \in owners[b]

\* The prefix is the last to give up a block it shares.
MayLose(b) == Prefix \in owners[b] \ owners'[b] => owners'[b] = {}

Next ==
  /\ owners' \in [Block -> SUBSET Owner]
  /\ \A b \in Block : MayGain(b, owners'[b] \ owners[b]) /\ MayLose(b)

Spec == Init /\ [][Next]_owners

-----------------------------------------------------------------------------
(* Two owners meet on a block only if the prefix owns it too.              *)
SharedOnlyThroughPrefix ==
  \A b \in Block : \A o, q \in owners[b] : o # q => Prefix \in owners[b]

=============================================================================
