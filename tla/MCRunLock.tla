------------------------------ MODULE MCRunLock ------------------------------
(* RunLock on two or three processes that all want one lock.                 *)
EXTENDS RunLock

CONSTANTS p1, p2, p3

Two == {p1, p2}
Three == {p1, p2, p3}
=============================================================================
