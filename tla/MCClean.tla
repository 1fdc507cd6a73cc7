------------------------------ MODULE MCClean ------------------------------
(* Clean on two processes that each run a node under the lock.              *)
EXTENDS Clean

CONSTANTS p1, p2

Two == {p1, p2}
=============================================================================
