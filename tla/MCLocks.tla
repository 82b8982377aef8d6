------------------------------ MODULE MCLocks -------------------------------
(***************************************************************************)
(* The locks of the node for TLC: one thread for each role, with its name. *)
(***************************************************************************)
EXTENDS Locks

MCRole == [t \in NodeThread |-> t]
=============================================================================
