------------------------------- MODULE Lists -------------------------------
(* Sequences by recursive functions, which proofs can unfold.              *)
EXTENDS Integers, Sequences

\* The elements of s that are in S, in their order.
Only(s, S) ==
  LET upto[k \in 0 .. Len(s)] ==
        IF k = 0
        THEN <<>>
        ELSE IF s[k] \in S THEN Append(upto[k - 1], s[k]) ELSE upto[k - 1]
  IN  upto[Len(s)]

\* The sums of the first 0, 1, ... numbers of ns.
Sums(ns) ==
  LET upto[k \in 0 .. Len(ns)] == IF k = 0 THEN 0 ELSE upto[k - 1] + ns[k]
  IN  upto
============================================================================
