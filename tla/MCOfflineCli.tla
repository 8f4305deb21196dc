---------------------------- MODULE MCOfflineCli ----------------------------
(* Recordings and texts for TLC.                                           *)
EXTENDS OfflineCli

recordings == [1 .. 8 -> 0 .. 2]

\* Nothing; a short word; a clause said twice, then a sentence that is cut at
\* its marks and leaves a short rest; a run said three times, which becomes a
\* clause said twice once it is kept only once; a run too long to be looked
\* for.
texts == {<<>>,
          <<"a", "b">>,
          <<"b", "c", ",", "b", "c", ",", "d", "a", "c", "d", ".", "a">>,
          <<"a", "b", "a", "b", "a", "b", ",", "a", "b", ",", "c", "d">>,
          <<"a", "b", "c", "d", "a", "b", "c", "d", "a", "b", "c", "d">>}

=============================================================================
