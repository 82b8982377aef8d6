----------------------------- MODULE LockOrder ------------------------------
(***************************************************************************)
(* The lock order detector of a node built with DEBUG_LOCKORDER            *)
(* (src/src/sync.cpp 20-130) under the lock wrapper that calls it          *)
(* (src/src/sync.h 36-123): threads take recursive locks, nested, in any   *)
(* order.  pop_lock drops the last entry whatever is released; all uses    *)
(* nest, so that is the lock in question.                                  *)
(***************************************************************************)
EXTENDS Integers, Sequences, FiniteSets

CONSTANTS
  Thread,
  Lock,
  MaxDepth,  \* bound on the locks a thread nests
  Null

ASSUME LockOrderAssumption == MaxDepth \in Nat /\ Null \notin Thread

VARIABLES
  owner,       \* of the mutexes
  lockstack,
  lockorders,  \* the pairs that are keys of the map
  pc,          \* "run", or in between the detector and the mutex
  complained   \* the mismatches printed

vars == <<owner, lockstack, lockorders, pc, complained>>

Init ==
  /\ owner = [c \in Lock |-> Null]
  /\ lockstack = [t \in Thread |-> <<>>]
  /\ lockorders = {} /\ complained = {}
  /\ pc = [t \in Thread |-> "run"]

-----------------------------------------------------------------------------
Top(s) == s[Len(s)]
Pop(s) == SubSeq(s, 1, Len(s) - 1)
Entries(s) == {s[i] : i \in DOMAIN s}

(* The entries push_lock looks at: those below the first one of c, which   *)
(* is not the new one when the lock is taken again.                        *)
Below(s, c) == {i \in DOMAIN s : \A j \in 1 .. i : s[j] # c}

Mismatch(s, c) ==
  {i \in Below(s, c) : <<s[i], c>> \notin lockorders /\ <<c, s[i]>> \in lockorders}

VisitedLast(s, c) ==  \* mutant: only the lock taken just before
  {i \in Below(s, c) : i = Len(s) - 1}

(* The loop breaks at the first mismatch, after it has recorded it.        *)
Visited(s, c) == {i \in Below(s, c) : \A j \in Mismatch(s, c) : i <= j}

(* push_lock; a lock that is only tried is put on the stack and no more.   *)
EnterCritical(t, c, fTry) ==
  /\ pc[t] = "run" /\ Len(lockstack[t]) < MaxDepth
  /\ LET s == Append(lockstack[t], c) IN
       /\ lockstack' = [lockstack EXCEPT ![t] = s]
       /\ IF fTry
          THEN UNCHANGED <<lockorders, complained>>
          ELSE /\ lockorders' = lockorders \cup {<<s[i], c>> : i \in Visited(s, c)}
               /\ complained' = complained \cup
                                  {<<s[i], c>> : i \in Mismatch(s, c) \cap Visited(s, c)}
  /\ pc' = [pc EXCEPT ![t] = IF fTry THEN "trying" ELSE "locking"]
  /\ UNCHANGED owner

Free(t, c) == owner[c] \in {Null, t}

(* lock.lock() or a try_lock() that succeeds.                              *)
Acquire(t) ==
  /\ pc[t] \in {"locking", "trying"}
  /\ Free(t, Top(lockstack[t]))
  /\ owner' = [owner EXCEPT ![Top(lockstack[t])] = t]
  /\ pc' = [pc EXCEPT ![t] = "run"]
  /\ UNCHANGED <<lockstack, lockorders, complained>>

(* A try_lock() that fails: LeaveCritical takes the entry back.            *)
TryFails(t) ==
  /\ pc[t] = "trying" /\ ~Free(t, Top(lockstack[t]))
  /\ lockstack' = [lockstack EXCEPT ![t] = Pop(@)]
  /\ pc' = [pc EXCEPT ![t] = "run"]
  /\ UNCHANGED <<owner, lockorders, complained>>

(* ~CMutexLock: LeaveCritical, then the mutex, which stays taken if the    *)
(* thread has it more than once.                                           *)
LeaveCritical(t) ==
  /\ pc[t] = "run" /\ lockstack[t] # <<>>
  /\ lockstack' = [lockstack EXCEPT ![t] = Pop(@)]
  /\ pc' = [pc EXCEPT ![t] = "leaving"]
  /\ UNCHANGED <<owner, lockorders, complained>>

Unlock(t) ==
  /\ pc[t] = "leaving"
  /\ owner' = [c \in Lock |-> IF owner[c] = t /\ c \notin Entries(lockstack[t])
                              THEN Null ELSE owner[c]]
  /\ pc' = [pc EXCEPT ![t] = "run"]
  /\ UNCHANGED <<lockstack, lockorders, complained>>

Next ==
  \E t \in Thread :
    \/ \E c \in Lock, fTry \in BOOLEAN : EnterCritical(t, c, fTry)
    \/ Acquire(t) \/ TryFails(t) \/ LeaveCritical(t) \/ Unlock(t)

Spec == Init /\ [][Next]_vars

-----------------------------------------------------------------------------
Pairs == {p \in Lock \X Lock : p[1] # p[2]}

TypeOK ==
  /\ owner \in [Lock -> Thread \cup {Null}]
  /\ lockstack \in [Thread -> Seq(Lock)]
  /\ \A t \in Thread : Len(lockstack[t]) <= MaxDepth
  /\ lockorders \subseteq Pairs /\ complained \subseteq Pairs
  /\ pc \in [Thread -> {"run", "locking", "trying", "leaving"}]

WaitsFor(t, u) == pc[t] = "locking" /\ owner[Top(lockstack[t])] = u

(* "Early deadlock detection" (sync.cpp 22-29): before two threads wait    *)
(* for each other a different order has been complained about, however the *)
(* locks were nested, taken again or only tried.                           *)
DeadlockIsReported ==
  \A t, u \in Thread :
    t # u /\ WaitsFor(t, u) /\ WaitsFor(u, t) => complained # {}
=============================================================================
