------------------------------ MODULE MCMcsLock ------------------------------
(***************************************************************************)
(* Three threads and one list: long enough for a node with both a          *)
(* predecessor and a successor, and for a node to be reused while an older *)
(* link to it is still in place.                                           *)
(***************************************************************************)
EXTENDS McsLock

CONSTANTS p1, p2, p3

MCProcs == {p1, p2, p3}
===============================================================================
