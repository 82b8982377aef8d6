----------------------------- MODULE BlockSync -----------------------------
(***************************************************************************)
(* How nodes bring each other to the best chain: "version", "getblocks",   *)
(* "inv", "getdata" and "block" (src/src/main.cpp 2418-2917) and the parts *)
(* of SendMessages and ProcessBlock that answer them.  Every node runs the *)
(* same code.  All blocks are valid; BlockChain models those that are not. *)
(*                                                                         *)
(* A locator names its first eleven blocks one by one; the branches here   *)
(* are no longer than that, so GetBlockIndex finds the fork itself.        *)
(***************************************************************************)
EXTENDS BlockTree, Ordering, Sequences

CONSTANTS
  SyncNode,
  Outbound,     \* pairs <<n, m>> such that n may connect to m
  InitialBest,  \* the best block of a node at the start
  nLimit,       \* blocks in an answer to "getblocks"; 500 in the code
  Minable,      \* blocks that a node may find; bounds the mining
  MaxConnects   \* bound on the connections that are ever made

Rev(l) == <<l[2], l[1]>>
Link == Outbound \cup {Rev(l) : l \in Outbound}

ASSUME SyncAssumption ==
  /\ Outbound \subseteq SyncNode \X SyncNode
  /\ \A l \in Outbound : l[1] # l[2] /\ Rev(l) \notin Outbound
  /\ InitialBest \in [SyncNode -> Block]
  /\ nLimit \in Nat \ {0} /\ Minable \subseteq NonGenesis /\ MaxConnects \in Nat

VARIABLES
  mapBlockIndex,    \* of each node
  pindexBest,
  mapOrphanBlocks,
  nAskedForBlocks,
  conn,             \* conn[<<n, m>>]: n's CNode for m, or Closed
  connects

chain == <<mapBlockIndex, pindexBest, mapOrphanBlocks>>
syncVars == <<chain, nAskedForBlocks, conn, connects>>

Closed == [open |-> FALSE]

CNode == [open |-> TRUE, fVersion |-> FALSE, setInventoryKnown |-> {},
          vInventoryToSend |-> <<>>, hashContinue |-> Null, lastGetBlocks |-> <<Null, Null>>,
          mapAskFor |-> <<>>, vSend |-> <<>>]

SyncInit ==
  /\ pindexBest = InitialBest
  /\ mapBlockIndex = [n \in SyncNode |-> Ancestors[InitialBest[n]]]
  /\ mapOrphanBlocks = [n \in SyncNode |-> {}]
  /\ nAskedForBlocks = [n \in SyncNode |-> 0]
  /\ conn = [l \in Link |-> Closed]
  /\ connects = 0

vNodesOf(n) == {l \in Link : l[1] = n /\ conn[l].open}

-----------------------------------------------------------------------------
(* What a handler does to its CNode c.                                     *)
PushMessage(c, msg) == [c EXCEPT !.vSend = Append(@, msg)]

AddInventoryKnown(c, b) == [c EXCEPT !.setInventoryKnown = @ \cup {b}]

(* PushInventory for the blocks s, one after the other.                    *)
PushInventory(c, s) ==
  [c EXCEPT !.vInventoryToSend =
     @ \o At(s, {i \in DOMAIN s : s[i] \notin c.setInventoryKnown})]

AskForBlock(c, b) == [c EXCEPT !.mapAskFor = Append(@, b)]

PushGetBlocks(c, begin, end) ==
  IF c.lastGetBlocks = <<begin, end>> THEN c
  ELSE PushMessage([c EXCEPT !.lastGetBlocks = <<begin, end>>],
                   [type |-> "getblocks", locator |-> begin, hashStop |-> end])

(* The last held block on the way back from b.                             *)
GetOrphanRoot(held, b) ==
  CHOOSE r \in Ancestors[b] :
    /\ {r} \cup (Ancestors[b] \ Ancestors[r]) \subseteq held \cup {b}
    /\ r = Genesis \/ hashPrevBlock[r] \notin held

AlreadyHave(n, b) == b \in mapBlockIndex[n] \cup mapOrphanBlocks[n]

(* The orders of S that put no block behind a higher one.                  *)
ByHeight(S) ==
  {s \in [1 .. Cardinality(S) -> S] :
     \A i, j \in DOMAIN s : i < j => s[i] # s[j] /\ nHeight[s[i]] <= nHeight[s[j]]}

-----------------------------------------------------------------------------
(* The end of a connection is noticed by both sides.                       *)
ConnectPeer(l) ==
  /\ ~conn[l].open /\ connects < MaxConnects /\ connects' = connects + 1
  /\ conn' = [conn EXCEPT ![l] = PushMessage(CNode, [type |-> "version"]),
                          ![Rev(l)] = CNode]
  /\ UNCHANGED <<chain, nAskedForBlocks>>

DisconnectPeer(l) ==
  /\ conn[l].open /\ connects < MaxConnects
  /\ conn' = [conn EXCEPT ![l] = Closed, ![Rev(l)] = Closed]
  /\ UNCHANGED <<chain, nAskedForBlocks, connects>>

(* The handlers of n = l[1] take the next message that l[2] has sent.      *)
Message(l) == Head(conn[Rev(l)].vSend)
Receives(l, type) ==
  conn[l].open /\ conn[Rev(l)].vSend # <<>> /\ Message(l).type = type

(* conn after n has taken the message and its CNode for the peer is c.     *)
Handled(l, c) ==
  [conn EXCEPT ![Rev(l)].vSend = Tail(@), ![l] = c]

ReceiveVersion(l) ==
  /\ Receives(l, "version")
  /\ LET n == l[1]
         heard == [conn[l] EXCEPT !.fVersion = TRUE]
         c == IF l \in Outbound THEN heard ELSE PushMessage(heard, [type |-> "version"])
     IN IF nAskedForBlocks[n] < 1 \/ Cardinality(vNodesOf(n)) <= 1
        THEN /\ nAskedForBlocks' = [nAskedForBlocks EXCEPT ![n] = 1]
             /\ conn' = Handled(l, PushGetBlocks(c, pindexBest[n], Null))
        ELSE conn' = Handled(l, c) /\ UNCHANGED nAskedForBlocks
  /\ UNCHANGED <<chain, connects>>

RestAfterTip(n, locator, hashStop) ==  \* mutant: the locator's fork is not looked for
  IF locator \notin Ancestors[pindexBest[n]] THEN {}
  ELSE Ancestors[pindexBest[n]] \ Ancestors[locator]

(* The blocks of the best chain after the fork, up to hashStop.            *)
RestOfChain(n, locator, hashStop) ==
  LET rest == Ancestors[pindexBest[n]] \ Ancestors[locator] IN
  {b \in rest : hashStop \in rest => nHeight[b] < nHeight[hashStop]}

Batch(s) == SubSeq(s, 1, IF Len(s) < nLimit THEN Len(s) ELSE nLimit)

ReceiveGetBlocks(l) ==
  /\ Receives(l, "getblocks")
  /\ \E s \in ByHeight(RestOfChain(l[1], Message(l).locator, Message(l).hashStop)) :
       LET batch == Batch(s)
           told == PushInventory(conn[l], batch)
       IN conn' = Handled(l, IF Len(batch) = nLimit
                             THEN [told EXCEPT !.hashContinue = batch[nLimit]] ELSE told)
  /\ UNCHANGED <<chain, nAskedForBlocks, connects>>

Announced(n, vInv, i, c) ==
  LET b == vInv[i]
      known == AddInventoryKnown(c, b)
  IN IF ~AlreadyHave(n, b) THEN AskForBlock(known, b)
     ELSE IF b \in mapOrphanBlocks[n]
     THEN PushGetBlocks(known, pindexBest[n], GetOrphanRoot(mapOrphanBlocks[n], b))
     ELSE IF i = Len(vInv) THEN PushGetBlocks(known, b, Null)
     ELSE known

AfterInv(n, vInv, c) ==
  LET After[i \in 0 .. Len(vInv)] ==
        IF i = 0 THEN c ELSE Announced(n, vInv, i, After[i - 1])
  IN After[Len(vInv)]

ReceiveInv(l) ==
  /\ Receives(l, "inv")
  /\ conn' = Handled(l, AfterInv(l[1], Message(l).vInv, conn[l]))
  /\ UNCHANGED <<chain, nAskedForBlocks, connects>>

ReceiveGetData(l) ==
  /\ Receives(l, "getdata")
  /\ LET b == Message(l).hash
         sent == PushMessage(conn[l], [type |-> "block", hash |-> b])
     IN conn' = Handled(l,
          IF b \notin mapBlockIndex[l[1]] THEN conn[l]
          ELSE IF b # conn[l].hashContinue THEN sent
          ELSE [PushMessage(sent, [type |-> "inv", vInv |-> <<pindexBest[l[1]]>>])
                  EXCEPT !.hashContinue = Null])
  /\ UNCHANGED <<chain, nAskedForBlocks, connects>>

-----------------------------------------------------------------------------
(* Held blocks that b connects, directly or through others, and b.         *)
Connected(n, b) ==
  {b} \cup {h \in mapOrphanBlocks[n] :
              /\ b \in Ancestors[h]
              /\ Ancestors[h] \ Ancestors[b] \subseteq mapOrphanBlocks[n]}

(* Those of the blocks s, taken one after the other, that become the best  *)
(* block.                                                                  *)
NewBests(best, s) ==
  At(s, {i \in DOMAIN s :
           /\ bnChainWork[s[i]] > bnChainWork[best]
           /\ \A j \in 1 .. i - 1 : bnChainWork[s[j]] < bnChainWork[s[i]]})

(* AcceptBlock for b and then for the held blocks behind it; links are the *)
(* connections of n when it does, and every new best is announced on each. *)
AcceptBlock(n, b, links) ==
  LET accepted == Connected(n, b) IN
  /\ mapBlockIndex' = [mapBlockIndex EXCEPT ![n] = @ \cup accepted]
  /\ mapOrphanBlocks' = [mapOrphanBlocks EXCEPT ![n] = @ \ accepted]
  /\ \E s \in ByHeight(accepted) :
       LET bests == NewBests(pindexBest[n], s) IN
       /\ pindexBest' = [pindexBest EXCEPT ![n] = IF bests = <<>> THEN @ ELSE bests[Len(bests)]]
       /\ conn' = [l \in Link |-> IF l[1] = n /\ links[l].open
                                  THEN PushInventory(links[l], bests) ELSE links[l]]

Hold(l, b, c) ==
  LET n == l[1] IN
  /\ mapOrphanBlocks' = [mapOrphanBlocks EXCEPT ![n] = @ \cup {b}]
  /\ conn' = Handled(l, PushGetBlocks(c, pindexBest[n], GetOrphanRoot(mapOrphanBlocks'[n], b)))
  /\ UNCHANGED <<mapBlockIndex, pindexBest>>

ReceiveBlock(l) ==
  /\ Receives(l, "block")
  /\ LET n == l[1]
         b == Message(l).hash
         c == AddInventoryKnown(conn[l], b)
     IN IF AlreadyHave(n, b) THEN conn' = Handled(l, c) /\ UNCHANGED chain
        ELSE IF hashPrevBlock[b] \notin mapBlockIndex[n] THEN Hold(l, b, c)
        ELSE AcceptBlock(n, b, Handled(l, c))
  /\ UNCHANGED <<nAskedForBlocks, connects>>

Mine(n, b) ==
  /\ b \in Minable /\ hashPrevBlock[b] = pindexBest[n]
  /\ ~AlreadyHave(n, b) /\ \A m \in SyncNode : b \notin mapBlockIndex[m]
  /\ AcceptBlock(n, b, conn)
  /\ UNCHANGED <<nAskedForBlocks, connects>>

-----------------------------------------------------------------------------
(* SendMessages sends every announcement once.                             *)
Flush(c) ==
  LET q == c.vInventoryToSend
      vInv == At(q, {i \in DOMAIN q : /\ q[i] \notin c.setInventoryKnown
                                     /\ \A j \in 1 .. i - 1 : q[j] # q[i]})
      told == [c EXCEPT !.vInventoryToSend = <<>>,
                        !.setInventoryKnown = @ \cup {q[i] : i \in DOMAIN q}]
  IN IF vInv = <<>> THEN told ELSE PushMessage(told, [type |-> "inv", vInv |-> vInv])

(* An entry of mapAskFor that is a retry is due only later: k entries are  *)
(* due when SendMessages looks.                                            *)
Ask(c, n, k) ==
  LET due == At(c.mapAskFor, {i \in 1 .. k : ~AlreadyHave(n, c.mapAskFor[i])})
      getdata == [i \in DOMAIN due |-> [type |-> "getdata", hash |-> due[i]]]
  IN [c EXCEPT !.mapAskFor = SubSeq(@, k + 1, Len(@)), !.vSend = @ \o getdata]

SendMessages(l) ==
  /\ conn[l].open /\ conn[l].fVersion
  /\ conn[l].vInventoryToSend # <<>> \/ conn[l].mapAskFor # <<>>
  /\ \E k \in 0 .. Len(conn[l].mapAskFor) :
       /\ k = 0 => conn[l].mapAskFor = <<>>
       /\ conn' = [conn EXCEPT ![l] = Ask(Flush(@), l[1], k)]
  /\ UNCHANGED <<chain, nAskedForBlocks, connects>>

ProcessMessages(l) ==
  \/ ReceiveVersion(l) \/ ReceiveGetBlocks(l) \/ ReceiveInv(l)
  \/ ReceiveGetData(l) \/ ReceiveBlock(l)

SyncNext ==
  \/ \E l \in Link : ProcessMessages(l) \/ SendMessages(l)
  \/ \E l \in Outbound : ConnectPeer(l) \/ DisconnectPeer(l)
  \/ \E n \in SyncNode, b \in Block : Mine(n, b)

SyncSpec == SyncInit /\ [][SyncNext]_syncVars

-----------------------------------------------------------------------------
Asked(l) == conn[l].open /\ conn[l].lastGetBlocks # <<Null, Null>>

(* A node gets to the chain of whoever it has asked for blocks, if the     *)
(* connection lasts: the next batch follows the last, and a held block's   *)
(* ancestors are asked for (main.cpp 1934, 2680-2690, 2727-2738,           *)
(* 2780-2787).  A peer that was not asked may know of more (2543-2549).    *)
CatchesUp ==
  \A l \in Link :
    <>[]Asked(l) => <>[](bnChainWork[pindexBest[l[1]]] >= bnChainWork[pindexBest[l[2]]])
=============================================================================
