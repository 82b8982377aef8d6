------------------------------- MODULE Locks --------------------------------
(***************************************************************************)
(* The order in which the threads of the node take its locks.  A thread is *)
(* abstracted to what it can hold: each operator of the first part stands  *)
(* for a function and is the set of the sequences of locks it may come to  *)
(* hold, outermost first, on top of what its caller holds.  Which of them  *)
(* a call takes, and how often, is left open.                              *)
(*                                                                         *)
(* Two things that block like locks are among them: a page of the          *)
(* transaction index, which is locked from the time a transaction writes   *)
(* it to the commit ("txdb": Berkeley DB with DB_INIT_LOCK, no timeout and *)
(* no detector, src/src/db.cpp 80-100), and the graphical interface's      *)
(* event loop ("event"), for which a modal message waits.  One CNode       *)
(* stands for all; locks under which no thread ever waits for another      *)
(* (cs_db, setBanned, addrman, the signature cache) are left out.          *)
(***************************************************************************)
EXTENDS Integers, Sequences, FiniteSets

CONSTANTS
  NodeThread,
  Role,       \* what each of them runs
  LowDisk,    \* whether CheckDiskSpace may fail
  None

(* There is a thread for each RPC connection (altcoinrpc.cpp 2830), for    *)
(* each call of walletpassphrase (1701-1703) and for each processor that   *)
(* mines (main.cpp 3902), two that open connections (net.cpp 1848-1852).   *)
Single == {"message", "socket", "gui", "init"}
Several == {"rpc", "relock", "keypool", "miner", "open"}

ASSUME LocksAssumption ==
  /\ Role \in [NodeThread -> Single \cup Several]
  /\ \A t, u \in NodeThread : Role[t] = Role[u] /\ Role[t] \in Single => t = u
  /\ LowDisk \in BOOLEAN

-----------------------------------------------------------------------------
(* What a function may come to hold.                                       *)
Leaf == {<<>>}
Nested(c, try, Inner) == Leaf \cup {<<[lock |-> c, try |-> try]>> \o s : s \in Inner}
LOCK(c, Inner) == Nested(c, FALSE, Inner)
TRY_LOCK(c, Inner) == Nested(c, TRUE, Inner)
LOCK2(c, d, Inner) == LOCK(c, LOCK(d, Inner))

Read == LOCK("txdb", Leaf)
Txn(Inner) == LOCK("txdb", Inner)
Modal == LOCK("event", Leaf)

PushMessage == LOCK("vSend", Leaf)
PushInventory == LOCK("inventory", Leaf)
RelayInventory == LOCK("vNodes", PushInventory)
RelayMessage == LOCK("mapRelay", Leaf) \cup RelayInventory
AdvertizeLocal == LOCK("vNodes", LOCK("mapLocalHost", Leaf))

HaveKey == LOCK("KeyStore", Leaf)
AddKey == LOCK("KeyStore", LOCK("wallet", Leaf))
IsFromMe == LOCK("wallet", HaveKey)
AddToWallet == LOCK("wallet", HaveKey \cup AddKey)
ReserveKey == LOCK("wallet", HaveKey \cup AddKey)

FetchInputs == Read \cup LOCK("mempool", Leaf)
AcceptToMemoryPool(fCheckInputs) ==
  LOCK("mempool", Leaf)
    \cup (IF fCheckInputs THEN FetchInputs \cup LOCK("freeCount", IsFromMe) ELSE {})

(* SetBestChain: wallets are told while the transaction is open; the pool  *)
(* follows after the commit.                                               *)
SetBestChain == Txn(AddToWallet) \cup AcceptToMemoryPool(FALSE)
CheckDiskSpace == IF LowDisk THEN Modal ELSE Leaf
ProcessBlock ==
  CheckDiskSpace \cup SetBestChain \cup AddToWallet
    \cup LOCK("vNodes", PushInventory)
CreateNewBlock == ReserveKey \cup LOCK2("main", "mempool", FetchInputs)

-----------------------------------------------------------------------------
(* The threads.                                                            *)
ProcessMessage ==
  PushMessage \cup AdvertizeLocal
    \cup LOCK("mapAlerts", PushMessage)                  \* version
    \cup LOCK("mapAlerts", Leaf) \cup LOCK("vNodes", PushMessage)  \* alert
    \cup LOCK("vNodes", Leaf)                            \* addr
    \cup LOCK("mapRelay", PushMessage) \cup IsFromMe     \* getdata
    \cup LOCK("mempool", Leaf) \cup Read                 \* inv
    \cup PushInventory                                   \* inv, getblocks
    \cup AcceptToMemoryPool(TRUE) \cup AddToWallet \cup RelayMessage  \* tx
    \cup ProcessBlock                                    \* block
    \cup LOCK("mapRequests", Leaf)                       \* reply

ResendWalletTransactions == LOCK("wallet", Read \cup RelayMessage)
SendMessages ==
  TRY_LOCK("main", PushMessage \cup ResendWalletTransactions \cup AdvertizeLocal
     \cup LOCK("inventory", IsFromMe) \cup LOCK("mempool", Leaf) \cup Read)

ThreadMessageHandler ==
  LOCK("vNodes", Leaf)
    \cup TRY_LOCK("vRecv", LOCK("main", ProcessMessage))
    \cup TRY_LOCK("vSend", SendMessages)

ThreadSocketHandler ==
  LOCK("vNodes", TRY_LOCK("vSend",
         TRY_LOCK("vRecv", TRY_LOCK("mapRequests", TRY_LOCK("inventory", Leaf)))))
    \cup TRY_LOCK("vRecv", Leaf) \cup TRY_LOCK("vSend", Leaf)

ThreadOpenConnections ==  \* FindNode, ConnectNode, PushVersion
  LOCK("vNodes", Leaf) \cup LOCK("mapLocalHost", Leaf) \cup PushMessage

CommitTransaction ==
  LOCK2("main", "wallet",
        AddToWallet \cup AcceptToMemoryPool(TRUE) \cup Read \cup RelayMessage)
walletlock == LOCK("unlockTime", HaveKey)
ExecuteSwapped ==  \* mutant: the locks the other way round
  LOCK2("wallet", "main", ReserveKey \cup walletlock \cup CommitTransaction)
execute ==
  LOCK("mapAlerts", Leaf)
    \cup LOCK2("main", "wallet",
           ReserveKey \cup walletlock \cup CommitTransaction \cup CreateNewBlock
             \cup ProcessBlock \cup LOCK("vNodes", Leaf) \cup LOCK("mempool", Leaf))

ThreadCleanWalletPassphrase == LOCK("unlockTime", HaveKey)
ThreadTopUpKeyPool == ReserveKey

CheckWork == LOCK("main", LOCK("wallet", Leaf) \cup ProcessBlock)
AltcoinMiner == CreateNewBlock \cup CheckWork

(* The graphical interface, without -debug (with it toHTML also reads the  *)
(* transaction index under cs_wallet).                                     *)
sendCoins == LOCK2("main", "wallet", CommitTransaction \cup ReserveKey)
toHTML == LOCK("wallet", HaveKey)
GuiEvent ==
  LOCK("event", sendCoins \cup toHTML \cup ReserveKey \cup LOCK("mapAlerts", Leaf) \cup Modal)

ReacceptWalletTransactions ==
  LOCK("wallet", Read \cup AddToWallet
     \cup LOCK("mempool", Read \cup AcceptToMemoryPool(FALSE)))

Stacks ==
  [t \in NodeThread |->
     CASE Role[t] = "message" -> ThreadMessageHandler
       [] Role[t] = "socket" -> ThreadSocketHandler
       [] Role[t] = "rpc" -> execute
       [] Role[t] = "relock" -> ThreadCleanWalletPassphrase
       [] Role[t] = "keypool" -> ThreadTopUpKeyPool
       [] Role[t] = "miner" -> AltcoinMiner
       [] Role[t] = "open" -> ThreadOpenConnections
       [] Role[t] = "gui" -> GuiEvent
       [] Role[t] = "init" -> ReacceptWalletTransactions]

-----------------------------------------------------------------------------
VARIABLES
  held,   \* what each thread holds, outermost first
  waits   \* the lock it waits for

nodeVars == <<held, waits>>

NodeInit ==
  /\ held = [t \in NodeThread |-> <<>>]
  /\ waits = [t \in NodeThread |-> None]

Locked(t) == {held[t][i].lock : i \in DOMAIN held[t]}
Owners(c) == {t \in NodeThread : c \in Locked(t)}
FreeFor(t, c) == Owners(c) \subseteq {t}   \* the mutexes are recursive

Following(t) == {a \in UNION {{s[i] : i \in DOMAIN s} : s \in Stacks[t]} :
               Append(held[t], a) \in Stacks[t]}

(* CMutexLock::Enter and TryEnter; a try that fails changes nothing.       *)
Take(t, a) ==
  /\ waits[t] = None /\ FreeFor(t, a.lock)
  /\ held' = [held EXCEPT ![t] = Append(@, a)]
  /\ UNCHANGED waits

Wait(t, a) ==
  /\ waits[t] = None /\ ~a.try /\ ~FreeFor(t, a.lock)
  /\ waits' = [waits EXCEPT ![t] = a.lock]
  /\ UNCHANGED held

WakeUp(t) ==
  /\ waits[t] # None /\ FreeFor(t, waits[t])
  /\ held' = [held EXCEPT ![t] = Append(@, [lock |-> waits[t], try |-> FALSE])]
  /\ waits' = [waits EXCEPT ![t] = None]

Leave(t) ==
  /\ waits[t] = None /\ held[t] # <<>>
  /\ held' = [held EXCEPT ![t] = SubSeq(@, 1, Len(@) - 1)]
  /\ UNCHANGED waits

NodeNext ==
  \E t \in NodeThread :
    \/ \E a \in Following(t) : Take(t, a) \/ Wait(t, a)
    \/ WakeUp(t)
    \/ Leave(t)

NodeSpec == NodeInit /\ [][NodeNext]_nodeVars

-----------------------------------------------------------------------------
(* No threads, however many, wait for each other in a circle, although the *)
(* locks are not taken in one order: cs_inventory and cs_wallet, cs_vNodes *)
(* and cs_vSend, the rate limiter's lock and cs_wallet, cs_KeyStore and    *)
(* cs_wallet are nested both ways, and only cs_main, cs_wallet outside or  *)
(* the trying keeps them apart (src/doc/coding.txt 49-54).                 *)
NoDeadlock ==
  \A S \in (SUBSET NodeThread) \ {{}} :
    \E t \in S : waits[t] = None \/ Owners(waits[t]) \cap S \subseteq {t}
=============================================================================
