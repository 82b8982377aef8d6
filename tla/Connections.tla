---------------------------- MODULE Connections ----------------------------
(***************************************************************************)
(* The life of a CNode (src/src/net.cpp): the threads that open            *)
(* connections, the socket thread that accepts, disconnects and deletes,   *)
(* and the message thread, with the reference counts that keep a node from *)
(* being deleted under a thread and the semaphore that limits the number   *)
(* of outbound connections.                                                *)
(*                                                                         *)
(* Socket and message thread take their references under cs_vNodes; the    *)
(* threads that open connections work on the node without it, so each of   *)
(* their accesses is a step.                                               *)
(***************************************************************************)
EXTENDS Integers, FiniteSets, FiniteSetsExt

CONSTANTS
  Nil,
  Node,         \* CNode objects
  Opener,       \* ThreadOpenConnections, ThreadOpenAddedConnections
  Connector,    \* ThreadOpenConnections, which runs the loop over -connect
  OutAddr,      \* addresses they connect to
  InAddr,       \* addresses that connect to this node
  Name,         \* what -connect, -addnode and one-shots are given: host names,
                \* or addresses as text
  Resolve,      \* the addresses a name stands for
  MaxOutbound   \* MAX_OUTBOUND_CONNECTIONS

ASSUME ConnectionsAssumption ==
  /\ Nil \notin Node /\ IsFiniteSet(Node) /\ IsFiniteSet(Opener)
  /\ MaxOutbound \in Nat \ {0}
  /\ Connector \in Opener /\ Resolve \in [Name -> SUBSET OutAddr]

VARIABLES
  place,       \* where a node is: "none", "vNodes", "vNodesDisconnected", "deleted"
  cnode,       \* its fields
  semOutbound, \* free outbound slots
  opener,      \* where the threads that open connections are
  socketCopy,  \* vNodesCopy of the socket thread while it services the sockets
  messageCopy, \* vNodesCopy of the message thread
  connectTo,   \* mapMultiArgs["-connect"]
  lost         \* history: the nodes a reference to which was overwritten

connVars ==
  <<place, cnode, semOutbound, opener, socketCopy, messageCopy, connectTo, lost>>

(* held: GetTime() < nReleaseTime; grant: grantOutbound has a slot;        *)
(* direct: history, the loop over -connect opened it.                      *)
Unborn == [addr |-> Nil, addrName |-> Nil, fInbound |-> FALSE, fNetworkNode |-> FALSE,
           fDisconnect |-> FALSE, nRefCount |-> 0, held |-> FALSE, grant |-> FALSE,
           direct |-> FALSE]

(* name: the addrName that the CNode gets.                                 *)
Idle == [pc |-> "idle", grant |-> FALSE, addr |-> Nil, name |-> Nil, node |-> Nil,
         count |-> 0]

vNodes == {n \in Node : place[n] = "vNodes"}
Pool == {n \in Node : place[n] = "vNodesDisconnected"}

ConnInit ==
  /\ place = [n \in Node |-> "none"] /\ cnode = [n \in Node |-> Unborn]
  /\ semOutbound = MaxOutbound
  /\ opener = [o \in Opener |-> Idle]
  /\ socketCopy = {} /\ messageCopy = {} /\ lost = {}
  /\ connectTo \in SUBSET Name

-----------------------------------------------------------------------------
(* A CNode and what is known of it when it enters vNodes with a reference. *)
NewNode(n, addr, addrName, fInbound, direct) ==
  /\ place[n] = "none"
  /\ place' = [place EXCEPT ![n] = "vNodes"]
  /\ cnode' = [cnode EXCEPT ![n] =
                 [Unborn EXCEPT !.addr = addr, !.addrName = addrName, !.fInbound = fInbound,
                                !.nRefCount = 1, !.direct = direct]]

Known(addr) == {n \in vNodes : cnode[n].addr = addr}
Named(name) == {n \in vNodes : cnode[n].addrName = name}

AcquireSlot(o) ==
  /\ opener[o].pc = "idle" /\ semOutbound > 0
  /\ semOutbound' = semOutbound - 1
  /\ opener' = [opener EXCEPT ![o].pc = "granted", ![o].grant = TRUE]
  /\ UNCHANGED <<place, cnode, socketCopy, messageCopy, lost>>

(* No connection is made; the destructor of the grant, if there is one.    *)
GiveUp(o) ==
  /\ opener' = [opener EXCEPT ![o] = Idle]
  /\ semOutbound' = semOutbound + (IF opener[o].grant THEN 1 ELSE 0)
  /\ UNCHANGED <<place, cnode, socketCopy, messageCopy, lost>>

(* OpenNetworkConnection's checks for an address, of the address manager   *)
(* or of -addnode: it may be this node's, banned, or connected already.    *)
(* With -connect, ThreadOpenConnections never asks the address manager.    *)
OpenNetworkConnection(o, addr) ==
  /\ opener[o].pc = "granted" /\ (o = Connector => connectTo = {})
  /\ \/ GiveUp(o)
     \/ /\ Known(addr) \cup Named(addr) = {}
        /\ opener' = [opener EXCEPT ![o].pc = "checked", ![o].addr = addr, ![o].name = addr]
        /\ UNCHANGED <<place, cnode, semOutbound, socketCopy, messageCopy, lost>>

(* A name: of a one-shot or, behind a name proxy, of -addnode, both with a *)
(* slot; or of -connect, whose loop passes no grant. Neither here nor in   *)
(* ConnectNode is the address looked for.                                  *)
OpenByName(o, name) ==
  /\ \/ opener[o].pc = "granted"
     \/ opener[o].pc = "idle" /\ o = Connector /\ name \in connectTo
  /\ \/ opener[o].pc = "granted" /\ Named(name) # {} /\ GiveUp(o)
     \/ /\ Named(name) = {}
        /\ \E addr \in Resolve[name] :
             opener' = [opener EXCEPT ![o].pc = "connecting", ![o].addr = addr,
                                      ![o].name = name]
        /\ UNCHANGED <<place, cnode, semOutbound, socketCopy, messageCopy, lost>>

FindNode(o) ==
  /\ opener[o].pc = "checked"
  /\ \/ \E n \in Known(opener[o].addr) :
          opener' = [opener EXCEPT ![o].pc = "found", ![o].node = n]
     \/ /\ Known(opener[o].addr) = {}
        /\ opener' = [opener EXCEPT ![o].pc = "connecting"]
  /\ UNCHANGED <<place, cnode, semOutbound, socketCopy, messageCopy, lost>>

(* nRefCount++ on a node that is already there, without a lock: the count  *)
(* is read and written, and what others write in between is lost.          *)
ReadCount(o) ==
  /\ opener[o].pc = "found"
  /\ opener' = [opener EXCEPT ![o].pc = "counting", ![o].count = cnode[opener[o].node].nRefCount]
  /\ UNCHANGED <<place, cnode, semOutbound, socketCopy, messageCopy, lost>>

WriteCount(o) ==
  /\ opener[o].pc = "counting"
  /\ cnode' = [cnode EXCEPT ![opener[o].node].nRefCount = opener[o].count + 1]
  /\ opener' = [opener EXCEPT ![o].pc = "connected", ![o].count = 0]
  /\ lost' = IF cnode[opener[o].node].nRefCount = opener[o].count
             THEN lost ELSE lost \cup {opener[o].node}
  /\ UNCHANGED <<place, semOutbound, socketCopy, messageCopy>>

Connect(o) ==
  /\ opener[o].pc = "connecting"
  /\ \/ GiveUp(o)
     \/ \E n \in Node :
          /\ NewNode(n, opener[o].addr, opener[o].name, FALSE, ~opener[o].grant)
          /\ opener' = [opener EXCEPT ![o].pc = "connected", ![o].node = n]
          /\ UNCHANGED <<semOutbound, socketCopy, messageCopy, lost>>

NotMoved(o) ==  \* mutant: the slot stays with the thread, whose destructor frees it
  /\ opener[o].pc = "connected" /\ opener[o].grant
  /\ semOutbound' = semOutbound + 1
  /\ opener' = [opener EXCEPT ![o].pc = "moved", ![o].grant = FALSE]
  /\ UNCHANGED <<place, cnode, socketCopy, messageCopy, lost>>

MoveTo(o) ==
  /\ opener[o].pc = "connected" /\ opener[o].grant
  /\ semOutbound' = semOutbound + (IF cnode[opener[o].node].grant THEN 1 ELSE 0)
  /\ cnode' = [cnode EXCEPT ![opener[o].node].grant = TRUE]
  /\ opener' = [opener EXCEPT ![o].pc = "moved", ![o].grant = FALSE]
  /\ UNCHANGED <<place, socketCopy, messageCopy, lost>>

SetNetworkNode(o) ==
  /\ opener[o].pc \in {"connected", "moved"} /\ ~opener[o].grant
  /\ cnode' = [cnode EXCEPT ![opener[o].node].fNetworkNode = TRUE]
  /\ opener' = [opener EXCEPT ![o] = Idle]
  /\ UNCHANGED <<place, semOutbound, socketCopy, messageCopy, lost>>

-----------------------------------------------------------------------------
Accept(addr) ==
  /\ socketCopy = {}
  /\ \E n \in Node : NewNode(n, addr, addr, TRUE, FALSE)
  /\ UNCHANGED <<semOutbound, opener, socketCopy, messageCopy, lost>>

WithRefs(copy, d) ==
  [n \in Node |-> IF n \in copy THEN [cnode[n] EXCEPT !.nRefCount = @ + d] ELSE cnode[n]]

SocketBegin ==
  /\ socketCopy = {} /\ vNodes # {}
  /\ socketCopy' = vNodes /\ cnode' = WithRefs(vNodes, 1)
  /\ UNCHANGED <<place, semOutbound, opener, messageCopy, lost>>

(* A closed or failed socket, one that is flooded or silent for too long.  *)
SocketCloses(n) ==
  /\ n \in socketCopy /\ ~cnode[n].fDisconnect
  /\ cnode' = [cnode EXCEPT ![n].fDisconnect = TRUE]
  /\ UNCHANGED <<place, semOutbound, opener, socketCopy, messageCopy, lost>>

SocketEnd ==
  /\ socketCopy # {} /\ socketCopy' = {} /\ cnode' = WithRefs(socketCopy, -1)
  /\ UNCHANGED <<place, semOutbound, opener, messageCopy, lost>>

MessageBegin ==
  /\ messageCopy = {} /\ vNodes # {}
  /\ messageCopy' = vNodes /\ cnode' = WithRefs(vNodes, 1)
  /\ UNCHANGED <<place, semOutbound, opener, socketCopy, lost>>

(* The version message of a node that is this one, or too old, or an       *)
(* answer that was all that was wanted.                                    *)
MessageCloses(n) ==
  /\ n \in messageCopy /\ ~cnode[n].fDisconnect
  /\ cnode' = [cnode EXCEPT ![n].fDisconnect = TRUE]
  /\ UNCHANGED <<place, semOutbound, opener, socketCopy, messageCopy, lost>>

MessageEnd ==
  /\ messageCopy # {} /\ messageCopy' = {} /\ cnode' = WithRefs(messageCopy, -1)
  /\ UNCHANGED <<place, semOutbound, opener, socketCopy, lost>>

-----------------------------------------------------------------------------
PosCount(n) == IF cnode[n].nRefCount > 0 THEN cnode[n].nRefCount ELSE 0
GetRefCount(n) == PosCount(n) + (IF cnode[n].held THEN 1 ELSE 0)

FirstRef(n) == cnode[n].fNetworkNode \/ cnode[n].fInbound

(* A node that is to go, or one that nobody refers to, whose buffers are   *)
(* empty, which is left open.                                              *)
Disconnect(n) ==
  /\ socketCopy = {} /\ n \in vNodes
  /\ cnode[n].fDisconnect \/ GetRefCount(n) <= 0
  /\ place' = [place EXCEPT ![n] = "vNodesDisconnected"]
  /\ cnode' = [cnode EXCEPT ![n] =
                 [@ EXCEPT !.fDisconnect = TRUE, !.held = TRUE, !.grant = FALSE,
                           !.nRefCount = cnode[n].nRefCount - (IF FirstRef(n) THEN 1 ELSE 0)]]
  /\ semOutbound' = semOutbound + (IF cnode[n].grant THEN 1 ELSE 0)
  /\ UNCHANGED <<opener, socketCopy, messageCopy, lost>>

DeletableHeld(n) == TRUE  \* mutant: the quarter of an hour is enough
Deletable(n) == GetRefCount(n) <= 0

Delete(n) ==
  /\ socketCopy = {} /\ n \in Pool /\ ~cnode[n].held /\ Deletable(n)
  /\ place' = [place EXCEPT ![n] = "deleted"]
  /\ cnode' = [cnode EXCEPT ![n] = Unborn]
  /\ semOutbound' = semOutbound + (IF cnode[n].grant THEN 1 ELSE 0)
  /\ UNCHANGED <<opener, socketCopy, messageCopy, lost>>

(* A quarter of an hour after the disconnection; between FindNode and the  *)
(* end of OpenNetworkConnection a thread needs less than that.             *)
HoldEnds(n) ==
  /\ n \in Pool /\ cnode[n].held
  /\ \A o \in Opener : opener[o].node # n
  /\ cnode' = [cnode EXCEPT ![n].held = FALSE]
  /\ UNCHANGED <<place, semOutbound, opener, socketCopy, messageCopy, lost>>

-----------------------------------------------------------------------------
Open(o) ==
  \/ AcquireSlot(o) \/ FindNode(o) \/ ReadCount(o) \/ WriteCount(o)
  \/ \E addr \in OutAddr : OpenNetworkConnection(o, addr)
  \/ \E name \in Name : OpenByName(o, name)
  \/ Connect(o) \/ MoveTo(o) \/ SetNetworkNode(o)

Socket ==
  \/ SocketBegin \/ SocketEnd
  \/ \E addr \in InAddr : Accept(addr)
  \/ \E n \in Node : SocketCloses(n) \/ Disconnect(n) \/ Delete(n)

MessageThread == MessageBegin \/ MessageEnd \/ \E n \in Node : MessageCloses(n)

ConnNext ==
  /\ UNCHANGED connectTo
  /\ \/ \E o \in Opener : Open(o)
     \/ Socket \/ MessageThread
     \/ \E n \in Node : HoldEnds(n)

ConnSpec == ConnInit /\ [][ConnNext]_connVars

-----------------------------------------------------------------------------
(* There are never more outbound connections than slots, whatever the      *)
(* threads that open them, and the one that closes them, do in between     *)
(* (net.cpp 30, 1351, 1507), not counting those of the loop over -connect, *)
(* which opens them without a slot (1326): of these there is at most one   *)
(* for each name that -connect gives.                                      *)
OnePerSlot ==
  Cardinality({n \in vNodes : ~cnode[n].fInbound /\ ~cnode[n].direct}) <= MaxOutbound
OnePerName ==
  \A n \in vNodes : cnode[n].direct =>
    /\ cnode[n].addrName \in connectTo
    /\ \A m \in Named(cnode[n].addrName) : cnode[m].direct => m = n
OutboundWithinLimit == OnePerSlot /\ OnePerName

(* "wait until threads are done using it" (net.cpp 706): a thread has no   *)
(* pointer to a node that is deleted, unless ConnectNode, which counts its *)
(* reference without cs_vNodes (482), has overwritten one of another.      *)
Using(n) == n \in socketCopy \cup messageCopy \/ \E o \in Opener : opener[o].node = n
NoUseAfterDelete == \A n \in Node \ lost : Using(n) => place[n] # "deleted"
=============================================================================
