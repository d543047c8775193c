------------------------------ MODULE MCBrowser ------------------------------
(* Two tabs of one browser and two users.                                  *)
EXTENDS Browser

CONSTANTS b1, b2, u1, u2, c1, c2

MCTabs  == {b1, b2}
MCUsers == {u1, u2}
MCCalls == {c1, c2}
=============================================================================
