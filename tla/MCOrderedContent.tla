------------------------- MODULE MCOrderedContent -------------------------
(* Small instances of OrderedContent.                                      *)
EXTENDS OrderedContent

CONSTANTS r1, r2, x1, x2, x3

MCRequests   == {r1, r2}
MCTwoItems   == {x1, x2}
MCThreeItems == {x1, x2, x3}

MCSymmetry == Permutations({r1, r2}) \cup Permutations({x1, x2, x3})
=============================================================================
