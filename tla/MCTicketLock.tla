----------------------------- MODULE MCTicketLock -----------------------------
(***************************************************************************)
(* Three threads on a lock whose counters have four values: the counters   *)
(* wrap after every fourth request, with the queue as full as FieldWidth   *)
(* allows.                                                                 *)
(***************************************************************************)
EXTENDS TicketLock

CONSTANTS p1, p2, p3

MCProcs == {p1, p2, p3}
===============================================================================
