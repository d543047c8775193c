--------------------------- MODULE MCBuilderPage ---------------------------
(* Small instances of BuilderPage.                                         *)
EXTENDS BuilderPage

CONSTANTS c1, c2, m1, m2, x1, x2, f1

MCCalls   == {c1, c2}
MCModules == {m1, m2}
MCLessons == {x1, x2}
MCFiles   == {f1}

MCSymmetry == Permutations(MCCalls) \cup Permutations(MCModules) \cup Permutations(MCLessons)
=============================================================================
