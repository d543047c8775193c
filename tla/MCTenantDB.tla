----------------------------- MODULE MCTenantDB -----------------------------
(* Small instances of TenantDB.                                            *)
EXTENDS TenantDB, TLC

CONSTANTS r1, r2, c1, c2, t1, t2, x1, x2, x3

MCRequests == {r1, r2}
MCConns    == {c1, c2}
MCOneConn  == {c1}
MCTenants  == {t1, t2}
MCOneTenant == {t1}
MCRows     == {x1, x2, x3}
MCOneRow   == {x1}

\* A course x1, a module x2 that falls with it, and an enrollment x3 that
\* forbids its deletion.
MCCascades   == {<<x2, x1>>}
MCRefers     == MCCascades \cup {<<x3, x1>>}
MCNoRefers   == {}

MCSymmetry == Permutations(MCRequests) \cup Permutations(MCConns) \cup Permutations(MCTenants)
=============================================================================
