----------------------------- MODULE MCThreads ------------------------------
(***************************************************************************)
(* What threads share, for TLC: the detector of lock orders under threads  *)
(* that nest locks as they like (LockOrder), the locks of the node as its  *)
(* own threads nest them (Locks), and the connections (Connections).  The  *)
(* three share no state; side says which of them a behaviour is about, and *)
(* the others stay where they start.                                       *)
(***************************************************************************)
EXTENDS LockOrder, MCLocks, Connections, TLC

VARIABLE side

(* Every name stands for every address.                                    *)
MCResolve == [name \in Name |-> OutAddr]

allVars == <<side, vars, nodeVars, connVars>>

Symmetry == Permutations(Thread) \cup Permutations(Lock)

MCInit ==
  /\ Init /\ NodeInit /\ ConnInit
  /\ side \in {"detector", "node", "connections"}
  /\ side # "connections" => connectTo = {}

DetectorStep ==
  side = "detector" /\ Next /\ UNCHANGED <<side, nodeVars, connVars>>
NodeStep ==
  side = "node" /\ NodeNext /\ UNCHANGED <<side, vars, connVars>>
ConnectionStep ==
  side = "connections" /\ ConnNext /\ UNCHANGED <<side, vars, nodeVars>>
MCNext == DetectorStep \/ NodeStep \/ ConnectionStep

MCSpec == MCInit /\ [][MCNext]_allVars
=============================================================================
