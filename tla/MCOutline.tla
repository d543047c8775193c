----------------------------- MODULE MCOutline -----------------------------
(* Small instances of Outline.                                             *)
EXTENDS Outline, TLC

CONSTANTS m1, m2, l1, l2, l3, a1

MCOneModule    == {m1}
MCTwoModules   == {m1, m2}
MCTwoLessons   == {l1, l2}
MCThreeLessons == {l1, l2, l3}
MCAttachments  == {a1}
MCCapacities   == {1, 2, 4}

MCSymmetry == Permutations({m1, m2}) \cup Permutations({l1, l2, l3})
=============================================================================
