------------------------------- MODULE Alerts -------------------------------
(***************************************************************************)
(* Network alerts: CAlert (src/src/main.h 1502-1601), ProcessAlert         *)
(* (src/src/main.cpp 2344-2394) and the "version" and "alert" messages     *)
(* (2551-2556, 2992-3007).  Alerts are correctly signed; one that is not   *)
(* changes nothing.                                                        *)
(***************************************************************************)
EXTENDS Integers, FiniteSets

CONSTANTS
  AlertPeer,
  Alert,
  nID, nCancel, setCancel,   \* fields of an alert
  nExpiration, nRelayUntil,
  AppliesToMe,               \* alerts for this node's version
  AppliesToVersion,          \* AppliesToVersion[p]: for the version of peer p
  MaxAlertTime,              \* bound on the clock
  MaxAlertConnects           \* bound on the connections that are ever made

ASSUME AlertsAssumption ==
  /\ nID \in [Alert -> Nat] /\ nCancel \in [Alert -> Nat]
  /\ setCancel \in [Alert -> SUBSET Nat]
  /\ nExpiration \in [Alert -> Nat] /\ nRelayUntil \in [Alert -> Nat]
  /\ AppliesToMe \subseteq Alert /\ AppliesToVersion \in [AlertPeer -> SUBSET Alert]
  /\ MaxAlertTime \in Nat /\ MaxAlertConnects \in Nat

VARIABLES
  alertTime,   \* GetAdjustedTime()
  mapAlerts,
  nVersion,    \* of a peer: "none" without a connection, "zero" before its message
  setKnown,    \* of a peer's CNode
  told,        \* alerts that were sent to a peer or came from it
  alertConnects

alertVars == <<alertTime, mapAlerts, nVersion, setKnown, told, alertConnects>>

AlertInit ==
  /\ alertTime = 0 /\ mapAlerts = {} /\ alertConnects = 0
  /\ nVersion = [p \in AlertPeer |-> "none"]
  /\ setKnown = [p \in AlertPeer |-> {}] /\ told = [p \in AlertPeer |-> {}]

-----------------------------------------------------------------------------
IsInEffect(a) == alertTime < nExpiration[a]

Cancels(a, b) == IsInEffect(a) /\ (nID[b] <= nCancel[a] \/ nID[b] \in setCancel[a])

(* nVersion is 0 until the peer's "version" message has come, and no alert *)
(* is for version 0.                                                       *)
AppliesTo(a, p) == IsInEffect(a) /\ nVersion'[p] = "known" /\ a \in AppliesToVersion[p]

RelayWanted(a, p) ==
  AppliesTo(a, p) \/ (IsInEffect(a) /\ a \in AppliesToMe) \/ alertTime < nRelayUntil[a]

(* RelayTo for alerts S and every peer of Q, where known is what the peers *)
(* know before it.                                                         *)
RelayTo(S, Q, known, heard) ==
  LET new(p) == {a \in S : p \in Q /\ IsInEffect(a) /\ a \notin known[p]} IN
  /\ setKnown' = [p \in AlertPeer |-> known[p] \cup new(p)]
  /\ told' = [p \in AlertPeer |-> heard[p] \cup {a \in new(p) : RelayWanted(a, p)}]

PeerComes(p) ==
  /\ alertConnects < MaxAlertConnects /\ alertConnects' = alertConnects + 1
  /\ nVersion[p] = "none" /\ nVersion' = [nVersion EXCEPT ![p] = "zero"]
  /\ UNCHANGED <<alertTime, mapAlerts, setKnown, told>>

PeerGoes(p) ==
  /\ nVersion[p] # "none" /\ nVersion' = [nVersion EXCEPT ![p] = "none"]
  /\ setKnown' = [setKnown EXCEPT ![p] = {}] /\ told' = [told EXCEPT ![p] = {}]
  /\ UNCHANGED <<alertTime, mapAlerts, alertConnects>>

ReceiveVersionOnly(p) ==  \* mutant: who comes later is not told
  /\ nVersion[p] = "zero" /\ nVersion' = [nVersion EXCEPT ![p] = "known"]
  /\ UNCHANGED <<alertTime, mapAlerts, setKnown, told, alertConnects>>

ReceiveAlertVersion(p) ==
  /\ nVersion[p] = "zero" /\ nVersion' = [nVersion EXCEPT ![p] = "known"]
  /\ RelayTo(mapAlerts, {p}, setKnown, told)
  /\ UNCHANGED <<alertTime, mapAlerts, alertConnects>>

-----------------------------------------------------------------------------
(* What is left of mapAlerts when a comes, and whether a is added.         *)
Remaining(a) == {b \in mapAlerts : ~Cancels(a, b) /\ IsInEffect(b)}

Accepted(a) == IsInEffect(a) /\ \A b \in Remaining(a) : ~Cancels(b, a)

ProcessAlert(a) ==
  mapAlerts' = IF ~IsInEffect(a) THEN mapAlerts
               ELSE IF Accepted(a) THEN Remaining(a) \cup {a} ELSE Remaining(a)

ReceiveAlert(p, a) ==
  /\ nVersion[p] = "known"
  /\ UNCHANGED <<alertTime, nVersion, alertConnects>>
  /\ ProcessAlert(a)
  /\ IF Accepted(a)
     THEN RelayTo({a}, {q \in AlertPeer : nVersion[q] # "none"},
                  [setKnown EXCEPT ![p] = @ \cup {a}], [told EXCEPT ![p] = @ \cup {a}])
     ELSE setKnown' = setKnown /\ told' = [told EXCEPT ![p] = @ \cup {a}]

AlertTick ==
  /\ alertTime < MaxAlertTime /\ alertTime' = alertTime + 1
  /\ UNCHANGED <<mapAlerts, nVersion, setKnown, told, alertConnects>>

AlertNext ==
  \/ \E p \in AlertPeer : PeerComes(p) \/ PeerGoes(p) \/ ReceiveAlertVersion(p)
  \/ \E p \in AlertPeer, a \in Alert : ReceiveAlert(p, a)
  \/ AlertTick

AlertSpec == AlertInit /\ [][AlertNext]_alertVars

-----------------------------------------------------------------------------
(* "Alerts are for notifying old versions if they become too obsolete"     *)
(* (main.h 1403): a peer whose version is known is told every alert that   *)
(* is kept and is for its version, and for this node's: one that is not    *)
(* and comes before the peer's version has come may stay unsent.           *)
AppliesIsTold ==
  \A p \in AlertPeer : \A a \in mapAlerts :
    (nVersion[p] = "known" /\ IsInEffect(a) /\ a \in AppliesToVersion[p] \cap AppliesToMe)
      => a \in told[p]
=============================================================================
