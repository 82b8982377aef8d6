----------------------------- MODULE WalletLock -----------------------------
(***************************************************************************)
(* An encrypted wallet is unlocked for some seconds: walletpassphrase      *)
(* starts a thread that locks it again, walletlock locks it at once, and   *)
(* walletpassphrasechange locks and unlocks it while it works              *)
(* (src/src/altcoinrpc.cpp 1626-1762, src/src/wallet.cpp 85-151).          *)
(*                                                                         *)
(* The calls hold cs_main and cs_wallet, so there is one at a time; the    *)
(* threads hold neither, only cs_nWalletUnlockTime while they do not sleep.*)
(* Times are what is left of them, so that the clock has no bound.         *)
(***************************************************************************)
EXTENDS Integers

CONSTANTS
  Relocker,  \* bound on the relocking threads alive at a time
  Timeouts,  \* seconds walletpassphrase may be called with
  Null

ChangeCall == [pc : {"begin", "locked", "unlocked"}, right : BOOLEAN, fWasLocked : BOOLEAN]

ASSUME WalletLockAssumption ==
  Timeouts \subseteq Nat /\ Null \notin Nat \cup ChangeCall

VARIABLES
  locked,             \* vMasterKey is empty
  nWalletUnlockTime,  \* time left, or Null for 0
  timer,              \* the threads in ThreadCleanWalletPassphrase
  change,             \* ChangeWalletPassphrase, or Null
  crossed             \* history: a relocking came before its Unlock

lockVars == <<locked, nWalletUnlockTime, timer, change, crossed>>

NoTimer == [pc |-> "none", left |-> 0]

LockInit ==
  /\ locked = TRUE /\ nWalletUnlockTime = Null
  /\ timer = [t \in Relocker |-> NoTimer]
  /\ change = Null /\ crossed = FALSE

-----------------------------------------------------------------------------
(* A call that is refused, because the wallet is not locked or the         *)
(* passphrase is wrong, changes nothing.  The timeout is looked at after   *)
(* the wallet has been unlocked: a call with what is no number, which      *)
(* fails there and leaves the wallet unlocked for good, is left out.       *)
walletpassphrase(t, seconds) ==
  /\ change = Null /\ locked /\ timer[t].pc = "none"
  /\ locked' = FALSE
  /\ timer' = [timer EXCEPT ![t] = [pc |-> "created", left |-> seconds]]
  /\ UNCHANGED <<nWalletUnlockTime, change, crossed>>

walletlock ==
  /\ change = Null
  /\ locked' = TRUE /\ nWalletUnlockTime' = Null
  /\ UNCHANGED <<timer, change, crossed>>

(* ChangeWalletPassphrase: IsLocked, Lock, Unlock with the old passphrase, *)
(* and Lock if it was locked.  With a wrong one it stays locked.           *)
Change(from, to, isLocked) ==
  /\ change # Null /\ change.pc = from
  /\ change' = IF to = "done" THEN Null ELSE [change EXCEPT !.pc = to]
  /\ locked' = isLocked
  /\ UNCHANGED <<nWalletUnlockTime, timer, crossed>>

walletpassphrasechange(right) ==
  /\ change = Null
  /\ change' = [pc |-> "begin", right |-> right, fWasLocked |-> locked]
  /\ UNCHANGED <<locked, nWalletUnlockTime, timer, crossed>>

ChangeWalletPassphrase ==
  \/ Change("begin", "locked", TRUE)
  \/ change # Null /\ ~change.right /\ Change("locked", "done", locked)
  \/ change # Null /\ change.right /\ Change("locked", "unlocked", FALSE)
  \/ change # Null /\ Change("unlocked", "done", locked \/ change.fWasLocked)

-----------------------------------------------------------------------------
(* ThreadCleanWalletPassphrase: it reads the clock, then enters.           *)
ReadClock(t) ==
  /\ timer[t].pc = "created"
  /\ timer' = [timer EXCEPT ![t].pc = "started"]
  /\ UNCHANGED <<locked, nWalletUnlockTime, change, crossed>>

SleepUntil(t, unlockTime) ==
  /\ timer' = [timer EXCEPT ![t] = [pc |-> "asleep", left |-> unlockTime]]
  /\ nWalletUnlockTime' = unlockTime
  /\ UNCHANGED <<locked, crossed>>

LeaveLoop(t, fLock) ==
  /\ timer' = [timer EXCEPT ![t] = NoTimer]
  /\ nWalletUnlockTime' = Null
  /\ locked' = (locked \/ fLock)
  /\ crossed' = (crossed \/ /\ change # Null /\ change.pc # "unlocked"
                            /\ change.right /\ ~change.fWasLocked)

ToSleep(unlockTime) == unlockTime # Null /\ unlockTime > 0

LoopOnce(t, unlockTime) ==  \* mutant: a thread sleeps once and leaves when the time is set later
  CASE ToSleep(unlockTime) /\ timer[t].pc # "asleep" -> SleepUntil(t, unlockTime)
    [] ToSleep(unlockTime) /\ timer[t].pc = "asleep" ->
         timer' = [timer EXCEPT ![t] = NoTimer] /\ UNCHANGED <<nWalletUnlockTime, locked, crossed>>
    [] OTHER -> LeaveLoop(t, unlockTime # Null)

(* The loop, with nWalletUnlockTime as it is when the lock is taken: sleep *)
(* until it is over; then, if nobody has cleared it, lock the wallet.      *)
Loop(t, unlockTime) ==
  IF ToSleep(unlockTime) THEN SleepUntil(t, unlockTime) ELSE LeaveLoop(t, unlockTime # Null)

Later(a, b) == IF a < b THEN b ELSE a

(* If a time is set, another thread is waiting for it: set it later if     *)
(* need be and leave.                                                      *)
Enter(t) ==
  /\ timer[t].pc = "started"
  /\ IF nWalletUnlockTime = Null
     THEN Loop(t, timer[t].left)
     ELSE /\ nWalletUnlockTime' = Later(nWalletUnlockTime, timer[t].left)
          /\ timer' = [timer EXCEPT ![t] = NoTimer]
          /\ UNCHANGED <<locked, crossed>>
  /\ UNCHANGED change

Wake(t) ==
  /\ timer[t].pc = "asleep" /\ timer[t].left = 0
  /\ Loop(t, nWalletUnlockTime)
  /\ UNCHANGED change

RelockThread(t) == ReadClock(t) \/ Enter(t) \/ Wake(t)

-----------------------------------------------------------------------------
Less(left) == IF left > 0 THEN left - 1 ELSE 0

(* A second passes.  A thread that was only created has not read the clock.*)
Tick ==
  /\ nWalletUnlockTime' = IF nWalletUnlockTime = Null THEN Null ELSE Less(nWalletUnlockTime)
  /\ timer' = [t \in Relocker |->
                 IF timer[t].pc = "created" THEN timer[t]
                 ELSE [timer[t] EXCEPT !.left = Less(@)]]
  /\ UNCHANGED <<locked, change, crossed>>

LockCall ==
  \/ \E t \in Relocker, seconds \in Timeouts : walletpassphrase(t, seconds)
  \/ walletlock
  \/ \E right \in BOOLEAN : walletpassphrasechange(right)

LockRun == ChangeWalletPassphrase \/ \E t \in Relocker : RelockThread(t)

LockNext == LockCall \/ LockRun \/ Tick

LockSpec == LockInit /\ [][LockNext]_lockVars

-----------------------------------------------------------------------------
(* "Stores the wallet decryption key in memory for <timeout> seconds."     *)
(* (altcoinrpc.cpp 1675): however the threads of several calls overlap and *)
(* leave the locking to each other (1635-1663), a wallet that was unlocked *)
(* is locked again.  There is one way round it: ChangeWalletPassphrase has *)
(* seen the wallet unlocked, a thread whose time is over locks it while it *)
(* is locked anyway, and it is unlocked again with nobody left to lock it. *)
LockedAgain == ~locked ~> locked \/ crossed
=============================================================================
