------------------------------- MODULE AskFor -------------------------------
(***************************************************************************)
(* How announced transactions are requested: CNode::AskFor (src/src/net.h  *)
(* 315-333), the end of SendMessages (src/src/main.cpp 3276-3301) and what *)
(* the "inv" and "tx" messages do to the schedule.  mapAlreadyAskedFor is  *)
(* shared by all peers; each CNode has a queue of its own, which ends with *)
(* it.                                                                     *)
(***************************************************************************)
EXTENDS Integers, FiniteSets

CONSTANTS
  Peer,
  Honest,       \* peers that stay and answer every request
  Item,         \* valid transactions
  StartTime,    \* the second in which the run starts; the clock is far from 0
  Second,       \* counts of AskFor's clock in a second; 1000000 in the code
  Retry,        \* counts between two requests; two minutes in the code
  LastAnnounce, \* the last second in which peers announce; bounds the run
  MaxAnnounce,  \* bound on the announcements
  MaxTime       \* the last second; every request is due before it

ASSUME AskForAssumption ==
  /\ Honest \subseteq Peer /\ IsFiniteSet(Peer) /\ IsFiniteSet(Item)
  /\ Second > MaxAnnounce /\ Retry > Second
  /\ {StartTime, LastAnnounce, MaxAnnounce, MaxTime, Second, Retry} \subseteq Nat
  /\ (StartTime - 1) * Second > Retry
  /\ MaxTime * Second > LastAnnounce * Second + MaxAnnounce * Retry

VARIABLES
  time,                \* GetTime()
  nLastTime,
  mapAlreadyAskedFor,  \* 0 when there is no entry
  mapAskFor,           \* of each peer: pairs <<time, item>>
  have,                \* "none", "held" in mapOrphanTransactions, or "had"
  inv,                 \* announcements that a peer has sent
  getdata,             \* requests that a peer has not answered
  announced            \* announcements so far

askVars == <<time, nLastTime, mapAlreadyAskedFor, mapAskFor, have, inv, getdata, announced>>
schedule == <<nLastTime, mapAlreadyAskedFor, mapAskFor>>

AskInit ==
  /\ time = StartTime /\ nLastTime = 0 /\ announced = 0
  /\ mapAlreadyAskedFor = [i \in Item |-> 0]
  /\ mapAskFor = [p \in Peer |-> {}]
  /\ have = [i \in Item |-> "none"]
  /\ inv = [p \in Peer |-> {}] /\ getdata = [p \in Peer |-> {}]

-----------------------------------------------------------------------------
Later(a, b) == IF a < b THEN b ELSE a

(* The multimap is ordered by time so that what is due is at its begin: it *)
(* is read only as a whole, up to now, and may as well be a set.           *)
Insert(q, entry) == q \cup {entry}

AskForOnce(p, i) ==  \* mutant: what is asked for already is left to that peer
  LET nNow == Later((time - 1) * Second, nLastTime + 1) IN
  IF mapAlreadyAskedFor[i] # 0 THEN UNCHANGED schedule
  ELSE /\ nLastTime' = nNow
       /\ mapAlreadyAskedFor' = [mapAlreadyAskedFor EXCEPT ![i] = nNow]
       /\ mapAskFor' = [mapAskFor EXCEPT ![p] = Insert(@, <<nNow, i>>)]

AskFor(p, i) ==
  LET nNow == Later((time - 1) * Second, nLastTime + 1)
      nRequestTime == Later(mapAlreadyAskedFor[i] + Retry, nNow)
  IN /\ nLastTime' = nNow
     /\ mapAlreadyAskedFor' = [mapAlreadyAskedFor EXCEPT ![i] = nRequestTime]
     /\ mapAskFor' = [mapAskFor EXCEPT ![p] = Insert(@, <<nRequestTime, i>>)]

Announce(p, i) ==
  /\ time <= LastAnnounce /\ announced < MaxAnnounce /\ announced' = announced + 1
  /\ i \notin inv[p]
  /\ inv' = [inv EXCEPT ![p] = @ \cup {i}]
  /\ UNCHANGED <<time, schedule, have, getdata>>

ReceiveTxInv(p, i) ==
  /\ i \in inv[p] /\ inv' = [inv EXCEPT ![p] = @ \ {i}]
  /\ IF have[i] = "none" THEN AskFor(p, i) ELSE UNCHANGED schedule
  /\ UNCHANGED <<time, have, getdata, announced>>

(* The requests to p that are due and still wanted.                        *)
Due(p) == {x \in mapAskFor[p] : x[1] <= time * Second}
Wanted(p) == {x[2] : x \in {y \in Due(p) : have[y[2]] = "none"}}

SendGetData(p) ==
  /\ Due(p) # {}
  /\ mapAskFor' = [mapAskFor EXCEPT ![p] = @ \ Due(p)]
  /\ getdata' = [getdata EXCEPT ![p] = @ \cup Wanted(p)]
  /\ mapAlreadyAskedFor' = [i \in Item |-> IF i \in Wanted(p) THEN time * Second
                                          ELSE mapAlreadyAskedFor[i]]
  /\ UNCHANGED <<time, nLastTime, have, inv, announced>>

(* Accepted: by itself, or later from the holding area.                    *)
AcceptItem(i) ==
  /\ have' = [have EXCEPT ![i] = "had"]
  /\ mapAlreadyAskedFor' = [mapAlreadyAskedFor EXCEPT ![i] = 0]

Answer(p, i) ==
  /\ i \in getdata[p] /\ getdata' = [getdata EXCEPT ![p] = @ \ {i}]
  /\ \/ have[i] # "had" /\ AcceptItem(i)
     \/ /\ have' = [have EXCEPT ![i] = IF @ = "none" THEN "held" ELSE @]
        /\ UNCHANGED mapAlreadyAskedFor
  /\ UNCHANGED <<time, nLastTime, mapAskFor, inv, announced>>

ParentsArrive(i) ==
  /\ have[i] = "held" /\ AcceptItem(i)
  /\ UNCHANGED <<time, nLastTime, mapAskFor, inv, getdata, announced>>

(* LimitOrphanTxSize drops what is held.                                   *)
EvictItem(i) ==
  /\ have[i] = "held" /\ have' = [have EXCEPT ![i] = "none"]
  /\ UNCHANGED <<time, schedule, inv, getdata, announced>>

(* The peer goes, and what it was to be asked goes with its CNode; it may  *)
(* come back.                                                              *)
PeerLeaves(p) ==
  /\ p \notin Honest
  /\ mapAskFor' = [mapAskFor EXCEPT ![p] = {}]
  /\ inv' = [inv EXCEPT ![p] = {}] /\ getdata' = [getdata EXCEPT ![p] = {}]
  /\ UNCHANGED <<time, nLastTime, mapAlreadyAskedFor, have, announced>>

(* A round of the message thread takes less than a second.                 *)
AskTick ==
  /\ \A p \in Peer : inv[p] = {} /\ Due(p) = {}
  /\ time < MaxTime /\ time' = time + 1
  /\ UNCHANGED <<schedule, have, inv, getdata, announced>>

AskNext ==
  \/ \E p \in Peer, i \in Item : Announce(p, i) \/ ReceiveTxInv(p, i) \/ Answer(p, i)
  \/ \E p \in Peer : SendGetData(p) \/ PeerLeaves(p)
  \/ \E i \in Item : ParentsArrive(i) \/ EvictItem(i)
  \/ AskTick

AskSpec == AskInit /\ [][AskNext]_askVars

-----------------------------------------------------------------------------
(* What a peer announces that stays and answers is had in the end, or held,*)
(* however many others announced it before and went, and whenever they     *)
(* answer: nobody's request is left to somebody else (net.h 315-333).      *)
AnnouncedIsHad ==
  \A p \in Honest, i \in Item : i \in inv[p] ~> have[i] # "none"
=============================================================================
