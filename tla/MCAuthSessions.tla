--------------------------- MODULE MCAuthSessions ---------------------------
(* Small instances of AuthSessions.                                        *)
EXTENDS AuthSessions, TLC

CONSTANTS r1, r2, e1, e2, s1, s2, k1, k2, k3

MCTwoRequests   == {r1, r2}
MCOneEmail      == {e1}
MCTwoEmails     == {e1, e2}
MCOneSub        == {s1}
MCTwoSubs       == {s1, s2}
MCNoTokens      == {}
MCThreeTokens   == {k1, k2, k3}

MCSymmetry == Permutations({r1, r2}) \cup Permutations({e1, e2})
              \cup Permutations({s1, s2}) \cup Permutations({k1, k2, k3})
=============================================================================
