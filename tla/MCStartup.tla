------------------------------ MODULE MCStartup ------------------------------
(* A small instance of Startup: two servers of one request each.           *)
EXTENDS Startup, TLC

CONSTANTS r1, r2, e1, e2, s1, s2

MCTwoServers  == {r1, r2}
MCTwoEmails   == {e1, e2}
MCTwoSubs     == {s1, s2}
MCNoTokens    == {}

MCSymmetry == Permutations({r1, r2}) \cup Permutations({e1, e2}) \cup Permutations({s1, s2})
=============================================================================
