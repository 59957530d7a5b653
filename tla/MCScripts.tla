----------------------------- MODULE MCScripts ------------------------------
EXTENDS Scripts

CONSTANTS m1, o1, r1, r2, t1, t2, t3

MCRooms == <<r1, r2>>
MCHomes == (t1 :> {o1, m1}) @@ (t2 :> {o1, r1}) @@ (t3 :> {r2})
=============================================================================
