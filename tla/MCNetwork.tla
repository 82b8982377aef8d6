----------------------------- MODULE MCNetwork ------------------------------
(***************************************************************************)
(* The network for TLC: what nodes tell each other of blocks (BlockSync),  *)
(* transactions (AskFor) and alerts (Alerts), what a node knows of its     *)
(* peers' addresses (AddrDump).  Each takes what it needs of the others'   *)
(* state as open, so they share none; side says which of them a behaviour  *)
(* is about.                                                               *)
(***************************************************************************)
EXTENDS BlockSync, AskFor, Alerts, AddrDump, TLC

CONSTANTS a1, a2, s1, s2

VARIABLE side

allVars == <<side, syncVars, askVars, alertVars, dumpVars>>

(* Three nodes in a line: a on a branch of its own, b on a chain of one    *)
(* full answer to "getblocks", c at the start.                             *)
MCPrev == "m1" :> "g" @@ "m2" :> "m1" @@ "s1" :> "g" @@ "s2" :> "s1"
MCBlock == {"g"} \cup DOMAIN MCPrev
MCWork == [b \in Block |-> 1]
MCOutbound == {<<"a", "b">>, <<"c", "b">>}
MCBest == "a" :> "s1" @@ "b" :> "m2" @@ "c" :> "g"

(* a1 and a2 are cancelled by number, a1 by a3 and a2 by a4; a3 and a5     *)
(* cancel each other; a4 expires early and is not for this node.           *)
MCID == "a1" :> 1 @@ "a2" :> 2 @@ "a3" :> 3 @@ "a4" :> 4 @@ "a5" :> 5
MCCancel == "a1" :> 0 @@ "a2" :> 0 @@ "a3" :> 1 @@ "a4" :> 0 @@ "a5" :> 3
MCSetCancel == "a1" :> {} @@ "a2" :> {} @@ "a3" :> {5} @@ "a4" :> {2} @@ "a5" :> {}
MCExpiration == "a1" :> 3 @@ "a2" :> 3 @@ "a3" :> 3 @@ "a4" :> 1 @@ "a5" :> 2
MCRelayUntil == [a \in Alert |-> 1]
MCVersions == [p \in AlertPeer |-> Alert]

(* The second source puts a1 into a bucket of its own.                     *)
MCNewBucketOf ==
  [x \in {a1, a2} \X {s1, s2} |-> IF x = <<a1, s2>> THEN 2 ELSE 1]

MCTriedBucketOf == [x \in {a1, a2} \X {1, 2} |-> 1]

MCInit ==
  /\ SyncInit /\ AskInit /\ AlertInit /\ DumpInit
  /\ side \in {"blocks", "requests", "alerts", "addresses"}

BlocksStep ==
  /\ side = "blocks" /\ SyncNext
  /\ UNCHANGED <<side, askVars, alertVars, dumpVars>>

RequestsStep ==
  /\ side = "requests" /\ AskNext
  /\ UNCHANGED <<side, syncVars, alertVars, dumpVars>>

AlertsStep ==
  /\ side = "alerts" /\ AlertNext
  /\ UNCHANGED <<side, syncVars, askVars, dumpVars>>

AddressStep ==
  /\ side = "addresses" /\ DumpNext
  /\ UNCHANGED <<side, syncVars, askVars, alertVars>>

MCNext == BlocksStep \/ RequestsStep \/ AlertsStep \/ AddressStep

(* The message thread serves every connection again and again (net.cpp     *)
(* 1602-1621); that it only tries the locks is no obstacle, as nobody      *)
(* holds one for ever.  Honest peers answer, and time goes by.             *)
MCSpec ==
  /\ MCInit /\ [][MCNext]_allVars
  /\ \A l \in Link :
       /\ WF_syncVars(side = "blocks" /\ ProcessMessages(l))
       /\ WF_syncVars(side = "blocks" /\ SendMessages(l))
  /\ WF_askVars(side = "requests" /\ AskTick)
  /\ \A p \in Peer : WF_askVars(side = "requests" /\ SendGetData(p))
  /\ \A p \in Peer, i \in Item : WF_askVars(side = "requests" /\ ReceiveTxInv(p, i))
  /\ \A p \in Honest, i \in Item : WF_askVars(side = "requests" /\ Answer(p, i))
=============================================================================
