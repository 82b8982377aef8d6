---------------------------- MODULE ThreadProofs ----------------------------
(***************************************************************************)
(* What the threads of a node may rely on, for any number of them.         *)
(*                                                                         *)
(* The detector of lock orders (LockOrder): two threads do not come to     *)
(* wait for each other without a complaint.  Its invariant says what the   *)
(* stacks are good for (Owned, Held: they are what the threads have, up to *)
(* the entry on its way in or out) and that until the first complaint      *)
(* nothing is missing from lockorders (Recorded) and nothing in it         *)
(* contradicts itself (OneOrder).                                          *)
(*                                                                         *)
(* The connections (Connections): every outbound slot is free, with a      *)
(* thread or with a node (SlotsAdd) and every outbound connection has one  *)
(* or is about to get one (OutboundPaid); nRefCount is no less than the    *)
(* references to a node, unless one was overwritten (Counted), and after   *)
(* its quarter of an hour no thread that opens connections has it (LetGo). *)
(*                                                                         *)
(* The locks of the node (Locks): what the functions may come to hold, one *)
(* lemma for each, and that no threads wait for each other in a circle.    *)
(* Legal says when a thread may come to wait for a lock, by what it holds; *)
(* the nesting of every function agrees with it (StacksFit), and with the  *)
(* locks held by one thread each (OneHolds) it leaves no room for a circle.*)
(***************************************************************************)
EXTENDS LockOrder, Locks, Connections, SequenceTheorems, FiniteSetTheorems, WellFoundedInduction, TLAPS

Pending(t) == pc[t] \in {"locking", "trying"}
Taken(t) == IF Pending(t) THEN Len(lockstack[t]) - 1 ELSE Len(lockstack[t])

Owned == \A t \in Thread : \A i \in 1 .. Taken(t) : owner[lockstack[t][i]] = t

Held ==
  \A t \in Thread, c \in Lock :
    owner[c] = t /\ pc[t] # "leaving" => \E i \in 1 .. Taken(t) : lockstack[t][i] = c

Entered == \A t \in Thread : Pending(t) => lockstack[t] # <<>>

OneOrder == complained = {} => \A p \in lockorders : <<p[2], p[1]>> \notin lockorders

Recorded ==
  complained = {} =>
    \A t \in Thread : pc[t] = "locking" =>
      \A i \in Below(lockstack[t], Top(lockstack[t])) :
        <<lockstack[t][i], Top(lockstack[t])>> \in lockorders

IInv == TypeOK /\ Owned /\ Held /\ Entered /\ OneOrder /\ Recorded

-----------------------------------------------------------------------------
LEMMA AppendFacts ==
  ASSUME NEW s \in Seq(Lock), NEW c \in Lock
  PROVE  /\ Append(s, c) \in Seq(Lock)
         /\ Len(Append(s, c)) = Len(s) + 1
         /\ Top(Append(s, c)) = c
         /\ \A i \in 1 .. Len(s) : Append(s, c)[i] = s[i]
         /\ Append(s, c) # <<>>
BY DEF Top

LEMMA PopFacts ==
  ASSUME NEW s \in Seq(Lock), s # <<>>
  PROVE  /\ Pop(s) \in Seq(Lock)
         /\ Len(Pop(s)) = Len(s) - 1
         /\ \A i \in 1 .. Len(s) - 1 : Pop(s)[i] = s[i]
         /\ Len(s) \in Nat \ {0} /\ Top(s) \in Lock
<1>1. Len(s) \in Nat \ {0} BY EmptySeq
<1>2. \A i \in 1 .. Len(s) - 1 : s[i] \in Lock BY <1>1, ElementOfSeq
<1>3. Top(s) \in Lock BY <1>1, ElementOfSeq DEF Top
<1>4. /\ SubSeq(s, 1, Len(s) - 1) \in Seq(Lock)
      /\ Len(SubSeq(s, 1, Len(s) - 1)) = IF 1 <= Len(s) - 1 THEN Len(s) - 1 - 1 + 1 ELSE 0
      /\ \A i \in 1 .. Len(s) - 1 - 1 + 1 : SubSeq(s, 1, Len(s) - 1)[i] = s[1 + i - 1]
  BY <1>1, <1>2, SubSeqProperties
<1>5. \A i \in 1 .. Len(s) - 1 : SubSeq(s, 1, Len(s) - 1)[i] = s[i]
  <2> TAKE i \in 1 .. Len(s) - 1
  <2>1. i \in 1 .. Len(s) - 1 - 1 + 1 /\ 1 + i - 1 = i BY <1>1
  <2> QED BY <2>1, <1>4
<1>6. Len(SubSeq(s, 1, Len(s) - 1)) = Len(s) - 1
  <2>1. \A k \in Nat : (IF 1 <= k THEN k - 1 + 1 ELSE 0) = k OBVIOUS
  <2>2. Len(s) - 1 \in Nat BY <1>1
  <2> QED BY <2>1, <2>2, <1>4
<1> QED BY <1>1, <1>3, <1>4, <1>5, <1>6 DEF Pop

(* A set of positions that is not empty has a first one.                   *)
LEMMA FirstOf ==
  ASSUME NEW T \in SUBSET Nat, T # {}
  PROVE  \E i \in T : \A j \in T : i <= j
<1>1. \E i \in T : \A j \in T : ~ (<<j, i>> \in OpToRel(<, Nat))
  BY NatLessThanWellFounded, WFMin
<1>2. PICK i \in T : \A j \in T : ~ (<<j, i>> \in OpToRel(<, Nat)) BY <1>1
<1>3. ASSUME NEW j \in T PROVE i <= j
  <2>1. j \in Nat /\ i \in Nat OBVIOUS
  <2>2. ~ (<<j, i>> \in {ss \in Nat \X Nat : ss[1] < ss[2]}) BY <1>2 DEF OpToRel
  <2>3. ~ (j < i) BY <2>1, <2>2
  <2> QED BY <2>1, <2>3
<1> QED BY <1>3

LEMMA BelowFacts ==
  ASSUME NEW s \in Seq(Lock), NEW c \in Lock
  PROVE  /\ Below(s, c) \subseteq 1 .. Len(s)
         /\ Below(s, c) \subseteq Nat
         /\ \A i \in Below(s, c) : s[i] # c /\ s[i] \in Lock
<1>1. Below(s, c) \subseteq 1 .. Len(s) BY LenProperties DEF Below
<1>2. Len(s) \in Nat BY LenProperties
<1>3. ASSUME NEW i \in Below(s, c) PROVE s[i] # c /\ s[i] \in Lock
  BY <1>1, <1>2, ElementOfSeq DEF Below
<1> QED BY <1>1, <1>2, <1>3

(* The loop leaves an entry out only after it has found a mismatch.        *)
LEMMA LoopFacts ==
  ASSUME NEW s \in Seq(Lock), NEW c \in Lock
  PROVE  Visited(s, c) = Below(s, c) \/ Mismatch(s, c) \cap Visited(s, c) # {}
<1>1. CASE Mismatch(s, c) = {} BY <1>1 DEF Visited
<1>2. CASE Mismatch(s, c) # {}
  <2>1. Mismatch(s, c) \subseteq Below(s, c) BY DEF Mismatch
  <2>2. Mismatch(s, c) \subseteq Nat BY <2>1, BelowFacts
  <2>3. PICK i \in Mismatch(s, c) : \A j \in Mismatch(s, c) : i <= j
    BY <1>2, <2>2, FirstOf
  <2>4. i \in Visited(s, c) BY <2>1, <2>3 DEF Visited
  <2> QED BY <2>3, <2>4
<1> QED BY <1>1, <1>2

LEMMA InitIInv == Init => IInv
<1> SUFFICES ASSUME Init PROVE IInv OBVIOUS
<1> USE DEF Init
<1>1. TypeOK BY LockOrderAssumption, EmptySeq DEF TypeOK, Pairs
<1>2. \A t \in Thread : ~Pending(t) /\ Taken(t) = 0 BY DEF Pending, Taken
<1>3. Owned BY <1>2 DEF Owned
<1>4. Held BY LockOrderAssumption DEF Held
<1>5. Entered BY <1>2 DEF Entered
<1>6. OneOrder /\ Recorded BY DEF OneOrder, Recorded
<1> QED BY <1>1, <1>3, <1>4, <1>5, <1>6 DEF IInv

-----------------------------------------------------------------------------
(* What a step of one thread leaves of the parts that speak of the others. *)
LEMMA OthersKeep ==
  ASSUME IInv, NEW t \in Thread, NEW u \in Thread, u # t,
         lockstack'[u] = lockstack[u], pc'[u] = pc[u]
  PROVE  Taken(u)' = Taken(u) /\ Pending(u)' = Pending(u)
BY DEF Taken, Pending

LEMMA EnterKeeps ==
  ASSUME IInv, NEW t \in Thread, NEW c \in Lock, NEW fTry \in BOOLEAN,
         EnterCritical(t, c, fTry)
  PROVE  IInv'
<1> DEFINE s == lockstack[t]
           r == Append(s, c)
<1> USE DEF IInv
<1>1. /\ s \in Seq(Lock) /\ Len(s) \in Nat /\ Len(s) < MaxDepth
      /\ pc[t] = "run" /\ owner' = owner
      /\ lockstack' = [lockstack EXCEPT ![t] = r]
      /\ pc' = [pc EXCEPT ![t] = IF fTry THEN "trying" ELSE "locking"]
  BY LenProperties DEF EnterCritical, TypeOK
<1>2. /\ r \in Seq(Lock) /\ Len(r) = Len(s) + 1 /\ Top(r) = c /\ r # <<>>
      /\ \A i \in 1 .. Len(s) : r[i] = s[i]
  BY <1>1, AppendFacts
<1>3. /\ Below(r, c) \subseteq Nat
      /\ \A i \in Below(r, c) : r[i] # c /\ r[i] \in Lock
      /\ Visited(r, c) \subseteq Below(r, c)
  BY <1>2, BelowFacts DEF Visited
<1>4. /\ lockstack'[t] = r /\ pc'[t] = IF fTry THEN "trying" ELSE "locking"
      /\ \A u \in Thread \ {t} : lockstack'[u] = lockstack[u] /\ pc'[u] = pc[u]
  BY <1>1 DEF TypeOK
<1>5. /\ Taken(t)' = Taken(t) /\ Pending(t)' /\ Taken(t) = Len(s)
      /\ \A u \in Thread \ {t} : Taken(u)' = Taken(u) /\ Pending(u)' = Pending(u)
  BY <1>1, <1>2, <1>4, OthersKeep DEF Taken, Pending
<1>6. /\ lockorders \subseteq lockorders' /\ complained \subseteq complained'
      /\ fTry => UNCHANGED <<lockorders, complained>>
      /\ ~fTry => /\ lockorders' = lockorders \cup {<<r[i], c>> : i \in Visited(r, c)}
                 /\ complained' = complained \cup
                                    {<<r[i], c>> : i \in Mismatch(r, c) \cap Visited(r, c)}
  BY DEF EnterCritical
<1>7. ~fTry /\ complained' = {} => Visited(r, c) = Below(r, c) /\ Mismatch(r, c) = {}
  <2> SUFFICES ASSUME ~fTry, complained' = {}
               PROVE  Visited(r, c) = Below(r, c) /\ Mismatch(r, c) = {}
    OBVIOUS
  <2>1. ASSUME NEW i \in Mismatch(r, c) \cap Visited(r, c) PROVE FALSE
    <3> DEFINE found == Mismatch(r, c) \cap Visited(r, c)
    <3>1. complained' = complained \cup {<<r[k], c>> : k \in found} BY <1>6
    <3>2. i \in found OBVIOUS
    <3> HIDE DEF found
    <3>3. <<r[i], c>> \in complained' BY <3>1, <3>2
    <3> QED BY <3>3
  <2>2. Visited(r, c) = Below(r, c) BY <1>2, <2>1, LoopFacts
  <2>3. Mismatch(r, c) \subseteq Below(r, c) BY DEF Mismatch
  <2> QED BY <2>1, <2>2, <2>3
<1>8. TypeOK'
  <2>1. \A i \in Below(r, c) : <<r[i], c>> \in Pairs BY <1>3 DEF Pairs
  <2>2. lockorders' \subseteq Pairs /\ complained' \subseteq Pairs
    BY <1>3, <1>6, <2>1 DEF TypeOK
  <2>3. lockstack' \in [Thread -> Seq(Lock)] BY <1>1, <1>2 DEF TypeOK
  <2>4. \A u \in Thread : Len(lockstack'[u]) <= MaxDepth
    BY <1>1, <1>2, <1>4, LockOrderAssumption DEF TypeOK
  <2>5. pc' \in [Thread -> {"run", "locking", "trying", "leaving"}] BY <1>1 DEF TypeOK
  <2> QED BY <1>1, <2>2, <2>3, <2>4, <2>5 DEF TypeOK
<1>9. \A u \in Thread : \A i \in 1 .. Taken(u) : lockstack'[u][i] = lockstack[u][i]
  BY <1>2, <1>4, <1>5
<1>10. Owned' BY <1>1, <1>5, <1>9 DEF Owned
<1>11. Held'
  <2> SUFFICES ASSUME NEW u \in Thread, NEW d \in Lock, owner[d] = u, pc'[u] # "leaving"
               PROVE  \E i \in 1 .. Taken(u)' : lockstack'[u][i] = d
    BY <1>1 DEF Held
  <2>1. pc[u] # "leaving" BY <1>1, <1>4
  <2> QED BY <1>5, <1>9, <2>1 DEF Held
<1>12. Entered' BY <1>2, <1>4, <1>5 DEF Entered
<1>13. OneOrder'
  <2> SUFFICES ASSUME complained' = {}, NEW p \in lockorders', <<p[2], p[1]>> \in lockorders'
               PROVE  FALSE
    BY DEF OneOrder
  <2>1. \A q \in lockorders : <<q[2], q[1]>> \notin lockorders BY <1>6 DEF OneOrder
  <2>2. ~fTry BY <1>6, <2>1
  <2>3. \A i \in Below(r, c) : <<c, r[i]>> \in lockorders => <<r[i], c>> \in lockorders
    BY <1>7, <2>2 DEF Mismatch
  <2>4. \A i \in Below(r, c) : <<c, r[i]>> \notin lockorders
    BY <2>1, <2>3
  <2>5. ASSUME NEW q \in lockorders', q \notin lockorders
        PROVE  \E i \in Below(r, c) : q = <<r[i], c>>
    <3>1. PICK i \in Visited(r, c) : q = <<r[i], c>> BY <1>6, <2>2, <2>5
    <3> QED BY <1>3, <3>1
  <2>6. p \in Lock \X Lock BY <1>8 DEF TypeOK, Pairs
  <2>7. CASE p \in lockorders
    <3>1. PICK i \in Below(r, c) : <<p[2], p[1]>> = <<r[i], c>> BY <2>1, <2>5, <2>7
    <3>2. PICK a \in Lock, b \in Lock : p = <<a, b>> BY <2>6
    <3>3. p = <<c, r[i]>> BY <3>1, <3>2
    <3> QED BY <2>4, <2>7, <3>3
  <2>8. CASE p \notin lockorders
    <3>1. PICK i \in Below(r, c) : p = <<r[i], c>> BY <2>5, <2>8
    <3>2. <<c, r[i]>> \notin lockorders BY <2>4
    <3>3. <<p[2], p[1]>> = <<c, r[i]>> BY <3>1
    <3>4. PICK j \in Below(r, c) : <<c, r[i]>> = <<r[j], c>> BY <2>5, <3>2, <3>3
    <3> QED BY <1>3, <3>4
  <2> QED BY <2>7, <2>8
<1>14. Recorded'
  <2> SUFFICES ASSUME complained' = {}, NEW u \in Thread, pc'[u] = "locking",
                      NEW i \in Below(lockstack'[u], Top(lockstack'[u]))
               PROVE  <<lockstack'[u][i], Top(lockstack'[u])>> \in lockorders'
    BY DEF Recorded
  <2>1. CASE u = t
    <3>1. ~fTry BY <1>4, <2>1
    <3> QED BY <1>2, <1>4, <1>6, <1>7, <2>1, <3>1
  <2>2. CASE u # t
    <3>1. complained = {} /\ pc[u] = "locking" BY <1>4, <1>6, <2>2
    <3> QED BY <1>4, <1>6, <2>2, <3>1 DEF Recorded
  <2> QED BY <2>1, <2>2
<1> QED BY <1>8, <1>10, <1>11, <1>12, <1>13, <1>14

LEMMA AcquireKeeps ==
  ASSUME IInv, NEW t \in Thread, Acquire(t)
  PROVE  IInv'
<1> DEFINE s == lockstack[t]
<1> USE DEF IInv
<1>1. /\ Pending(t) /\ Free(t, Top(s))
      /\ owner' = [owner EXCEPT ![Top(s)] = t]
      /\ pc' = [pc EXCEPT ![t] = "run"]
      /\ UNCHANGED <<lockstack, lockorders, complained>>
  BY DEF Acquire, Pending
<1>2. s # <<>> /\ s \in Seq(Lock) BY <1>1 DEF Entered, TypeOK
<1>3. Len(s) \in Nat \ {0} /\ Top(s) \in Lock BY <1>2, PopFacts
<1>4. Taken(t) = Len(s) - 1 /\ Taken(t)' = Len(s) /\ ~Pending(t)'
  BY <1>1 DEF Taken, Pending, TypeOK
<1>5. \A u \in Thread \ {t} : /\ pc'[u] = pc[u] /\ Taken(u)' = Taken(u)
                             /\ Pending(u)' = Pending(u)
  BY <1>1, OthersKeep DEF TypeOK
<1>6. TypeOK' BY <1>1, <1>3 DEF TypeOK
<1>7. Owned'
  <2> SUFFICES ASSUME NEW u \in Thread, NEW i \in 1 .. Taken(u)'
               PROVE  owner'[lockstack[u][i]] = u
    BY <1>1 DEF Owned
  <2>1. CASE u = t
    <3>1. CASE i = Len(s) BY <1>1, <1>3, <2>1, <3>1 DEF TypeOK, Top
    <3>2. CASE i # Len(s)
      <4>1. i \in 1 .. Taken(t) /\ i \in 1 .. Len(s) BY <1>3, <1>4, <2>1, <3>2
      <4>2. owner[s[i]] = t /\ s[i] \in Lock BY <1>2, <4>1, ElementOfSeq DEF Owned
      <4> QED BY <1>1, <2>1, <4>2 DEF TypeOK
    <3> QED BY <3>1, <3>2
  <2>2. CASE u # t
    <3>1. i \in 1 .. Taken(u) BY <1>5, <2>2
    <3>2. owner[lockstack[u][i]] = u BY <3>1 DEF Owned
    <3>3. lockstack[u][i] # Top(s) BY <1>1, <2>2, <3>2, LockOrderAssumption DEF Free
    <3> QED BY <1>1, <3>2, <3>3
  <2> QED BY <2>1, <2>2
<1>8. Held'
  <2> SUFFICES ASSUME NEW u \in Thread, NEW d \in Lock, owner'[d] = u, pc'[u] # "leaving"
               PROVE  \E i \in 1 .. Taken(u)' : lockstack[u][i] = d
    BY <1>1 DEF Held
  <2>1. CASE d = Top(s)
    <3>1. u = t BY <1>1, <1>3, <2>1 DEF TypeOK
    <3>2. Len(s) \in 1 .. Taken(t)' BY <1>3, <1>4
    <3> QED BY <2>1, <3>1, <3>2 DEF Top
  <2>2. CASE d # Top(s)
    <3>1. owner[d] = u BY <1>1, <2>2 DEF TypeOK
    <3>2. pc[u] # "leaving" BY <1>1, <1>5 DEF Pending
    <3>3. PICK i \in 1 .. Taken(u) : lockstack[u][i] = d BY <3>1, <3>2 DEF Held
    <3>4. i \in 1 .. Taken(u)' BY <1>3, <1>4, <1>5
    <3> QED BY <3>3, <3>4
  <2> QED BY <2>1, <2>2
<1>9. Entered' BY <1>1, <1>4, <1>5 DEF Entered
<1>10. OneOrder' BY <1>1 DEF OneOrder
<1>11. Recorded'
  <2>1. \A u \in Thread : pc'[u] = "locking" => pc[u] = "locking" BY <1>1 DEF TypeOK
  <2> QED BY <1>1, <2>1 DEF Recorded
<1> QED BY <1>6, <1>7, <1>8, <1>9, <1>10, <1>11

(* An entry is taken back, by a try_lock() that failed or a destructor.    *)
LEMMA PopKeeps ==
  ASSUME IInv, NEW t \in Thread, TryFails(t) \/ LeaveCritical(t)
  PROVE  IInv'
<1> DEFINE s == lockstack[t]
<1> USE DEF IInv
<1>1. /\ lockstack' = [lockstack EXCEPT ![t] = Pop(s)]
      /\ UNCHANGED <<owner, lockorders, complained>>
      /\ \/ pc[t] = "trying" /\ pc' = [pc EXCEPT ![t] = "run"]
         \/ pc[t] = "run" /\ s # <<>> /\ pc' = [pc EXCEPT ![t] = "leaving"]
  BY DEF TryFails, LeaveCritical
<1>2. s # <<>> /\ s \in Seq(Lock) BY <1>1 DEF Entered, TypeOK, Pending
<1>3. /\ Pop(s) \in Seq(Lock) /\ Len(Pop(s)) = Len(s) - 1 /\ Len(s) \in Nat \ {0}
      /\ \A i \in 1 .. Len(s) - 1 : Pop(s)[i] = s[i]
  BY <1>2, PopFacts
<1>4. /\ lockstack'[t] = Pop(s) /\ pc'[t] \in {"run", "leaving"}
      /\ pc' \in [Thread -> {"run", "locking", "trying", "leaving"}]
      /\ \A u \in Thread \ {t} : lockstack'[u] = lockstack[u] /\ pc'[u] = pc[u]
  BY <1>1 DEF TypeOK
<1>5. Taken(t)' = Len(s) - 1 /\ Taken(t)' <= Taken(t) /\ ~Pending(t)'
  BY <1>1, <1>3, <1>4 DEF Taken, Pending
<1>6. \A u \in Thread \ {t} : Taken(u)' = Taken(u) /\ Pending(u)' = Pending(u)
  BY <1>4, OthersKeep
<1>7. TypeOK'
  <2>1. lockstack' \in [Thread -> Seq(Lock)] BY <1>1, <1>3 DEF TypeOK
  <2>2. \A u \in Thread : Len(lockstack'[u]) <= MaxDepth
    BY <1>3, <1>4, LockOrderAssumption DEF TypeOK
  <2> QED BY <1>1, <1>4, <2>1, <2>2 DEF TypeOK
<1>8. \A u \in Thread : \A i \in 1 .. Taken(u)' :
        lockstack'[u][i] = lockstack[u][i] /\ i \in 1 .. Taken(u)
  <2> SUFFICES ASSUME NEW u \in Thread, NEW i \in 1 .. Taken(u)'
               PROVE  lockstack'[u][i] = lockstack[u][i] /\ i \in 1 .. Taken(u)
    OBVIOUS
  <2>1. CASE u = t
    <3>1. Taken(t) \in Int /\ Taken(t)' \in Int BY <1>3, <1>5 DEF Taken
    <3>2. i \in 1 .. Len(s) - 1 /\ i \in 1 .. Taken(t) BY <1>5, <2>1, <3>1
    <3> QED BY <1>3, <1>4, <2>1, <3>2
  <2>2. CASE u # t BY <1>4, <1>6, <2>2
  <2> QED BY <2>1, <2>2
<1>9. Owned' BY <1>1, <1>8 DEF Owned
<1>10. Held'
  <2> SUFFICES ASSUME NEW u \in Thread, NEW d \in Lock, owner[d] = u, pc'[u] # "leaving"
               PROVE  \E i \in 1 .. Taken(u)' : lockstack'[u][i] = d
    BY <1>1 DEF Held
  <2>1. CASE u = t
    <3>1. pc[t] = "trying" BY <1>1, <2>1 DEF TypeOK
    <3>2. Taken(t) = Taken(t)' BY <1>5, <3>1 DEF Taken, Pending
    <3>3. PICK i \in 1 .. Taken(t) : s[i] = d BY <2>1, <3>1 DEF Held
    <3> QED BY <1>8, <2>1, <3>2, <3>3
  <2>2. CASE u # t BY <1>4, <1>6, <2>2 DEF Held
  <2> QED BY <2>1, <2>2
<1>11. Entered' BY <1>4, <1>5, <1>6 DEF Entered
<1>12. OneOrder' BY <1>1 DEF OneOrder
<1>13. Recorded'
  <2>1. \A u \in Thread : pc'[u] = "locking" =>
          pc[u] = "locking" /\ lockstack'[u] = lockstack[u]
    BY <1>4
  <2> QED BY <1>1, <2>1 DEF Recorded
<1> QED BY <1>7, <1>9, <1>10, <1>11, <1>12, <1>13

LEMMA UnlockKeeps ==
  ASSUME IInv, NEW t \in Thread, Unlock(t)
  PROVE  IInv'
<1> DEFINE s == lockstack[t]
<1> USE DEF IInv
<1>1. /\ pc[t] = "leaving" /\ pc' = [pc EXCEPT ![t] = "run"]
      /\ owner' = [c \in Lock |-> IF owner[c] = t /\ c \notin Entries(s)
                                  THEN Null ELSE owner[c]]
      /\ UNCHANGED <<lockstack, lockorders, complained>>
  BY DEF Unlock
<1>2. s \in Seq(Lock) /\ Len(s) \in Nat BY LenProperties DEF TypeOK
<1>3. Taken(t) = Len(s) /\ Taken(t)' = Len(s) /\ ~Pending(t)'
  BY <1>1 DEF Taken, Pending, TypeOK
<1>4. \A u \in Thread \ {t} : /\ pc'[u] = pc[u] /\ Taken(u)' = Taken(u)
                             /\ Pending(u)' = Pending(u)
  BY <1>1, OthersKeep DEF TypeOK
<1>5. TypeOK' BY <1>1 DEF TypeOK
<1>6. Owned'
  <2> SUFFICES ASSUME NEW u \in Thread, NEW i \in 1 .. Taken(u)
               PROVE  owner'[lockstack[u][i]] = u
    BY <1>1, <1>3, <1>4 DEF Owned
  <2>1. owner[lockstack[u][i]] = u BY DEF Owned
  <2>2. lockstack[u] \in Seq(Lock) /\ Len(lockstack[u]) \in Nat BY LenProperties DEF TypeOK
  <2>3. i \in 1 .. Len(lockstack[u]) BY <2>2 DEF Taken
  <2>4. lockstack[u][i] \in Lock BY <2>2, <2>3, ElementOfSeq
  <2>5. u = t => lockstack[u][i] \in Entries(s) BY <2>2, <2>3, LenProperties DEF Entries
  <2> QED BY <1>1, <2>1, <2>4, <2>5
<1>7. Held'
  <2> SUFFICES ASSUME NEW u \in Thread, NEW d \in Lock, owner'[d] = u, pc'[u] # "leaving"
               PROVE  \E i \in 1 .. Taken(u)' : lockstack[u][i] = d
    BY <1>1 DEF Held
  <2>1. owner[d] = u /\ (u = t => d \in Entries(s)) BY <1>1, LockOrderAssumption
  <2>2. CASE u = t
    <3>1. PICK i \in DOMAIN s : s[i] = d BY <2>1, <2>2 DEF Entries
    <3> QED BY <1>2, <1>3, <2>2, <3>1, LenProperties
  <2>3. CASE u # t BY <1>4, <2>1, <2>3 DEF Held
  <2> QED BY <2>2, <2>3
<1>8. Entered' BY <1>1, <1>3, <1>4 DEF Entered
<1>9. OneOrder' BY <1>1 DEF OneOrder
<1>10. Recorded'
  <2>1. \A u \in Thread : pc'[u] = "locking" => pc[u] = "locking" BY <1>1 DEF TypeOK
  <2> QED BY <1>1, <2>1 DEF Recorded
<1> QED BY <1>5, <1>6, <1>7, <1>8, <1>9, <1>10

LEMMA StutterKeeps == IInv /\ UNCHANGED vars => IInv'
BY DEF IInv, vars, TypeOK, Owned, Held, Entered, OneOrder, Recorded, Taken, Pending

LEMMA AlwaysIInv == Spec => []IInv
<1>1. IInv /\ [Next]_vars => IInv'
  <2> SUFFICES ASSUME IInv, [Next]_vars PROVE IInv' OBVIOUS
  <2>1. CASE Next
    <3>1. PICK t \in Thread :
            \/ \E c \in Lock, fTry \in BOOLEAN : EnterCritical(t, c, fTry)
            \/ Acquire(t) \/ TryFails(t) \/ LeaveCritical(t) \/ Unlock(t)
      BY <2>1 DEF Next
    <3> QED BY <3>1, EnterKeeps, AcquireKeeps, PopKeeps, UnlockKeeps
  <2>2. CASE UNCHANGED vars BY <2>2, StutterKeeps
  <2> QED BY <2>1, <2>2
<1> QED BY <1>1, InitIInv, PTL DEF Spec

(* The stacks, the recorded orders and the mutexes keep their types; no    *)
(* lock is ever ordered with itself (sync.cpp 90).                         *)
THEOREM TypeCorrect == Spec => []TypeOK
<1>1. IInv => TypeOK BY DEF IInv
<1> QED BY <1>1, AlwaysIInv, PTL

(* Two threads that wait for each other hold, each, what the other wants.  *)
(* That lock is below the wanted one on either stack, so both orders were  *)
(* looked at before they waited (sync.cpp 89-103).                         *)
THEOREM DeadlockReported == Spec => []DeadlockIsReported
<1>1. ASSUME IInv PROVE DeadlockIsReported
  <2> SUFFICES ASSUME NEW t \in Thread, NEW u \in Thread, t # u, WaitsFor(t, u),
                      WaitsFor(u, t), complained = {}
               PROVE  FALSE
    BY DEF DeadlockIsReported
  <2> DEFINE Wanted(v) == Top(lockstack[v])
  <2>1. ASSUME NEW v \in Thread, NEW w \in Thread, WaitsFor(v, w), WaitsFor(w, v), v # w
        PROVE  <<Wanted(w), Wanted(v)>> \in lockorders
    <3> DEFINE s == lockstack[v]
    <3>1. pc[v] = "locking" /\ owner[Wanted(v)] = w /\ owner[Wanted(w)] = v
      BY <2>1 DEF WaitsFor
    <3>2. s # <<>> /\ s \in Seq(Lock) /\ lockstack[w] # <<>> /\ lockstack[w] \in Seq(Lock)
      BY <1>1, <2>1 DEF IInv, Entered, TypeOK, Pending, WaitsFor
    <3>3. Len(s) \in Nat \ {0} /\ Wanted(w) \in Lock BY <3>2, PopFacts
    <3>4. Taken(v) = Len(s) - 1 BY <3>1 DEF Taken, Pending
    <3>5. PICK i \in 1 .. Taken(v) : s[i] = Wanted(w) BY <1>1, <3>1, <3>3 DEF IInv, Held
    <3>6. \A j \in 1 .. i : j \in 1 .. Taken(v) BY <3>3, <3>4
    <3>7. \A j \in 1 .. i : s[j] # Wanted(v) BY <1>1, <2>1, <3>1, <3>6 DEF IInv, Owned
    <3>8. i \in DOMAIN s BY <3>2, <3>3, <3>4, LenProperties
    <3>9. i \in Below(s, Wanted(v)) BY <3>7, <3>8 DEF Below
    <3> QED BY <1>1, <3>1, <3>5, <3>9 DEF IInv, Recorded
  <2>2. <<Wanted(u), Wanted(t)>> \in lockorders /\ <<Wanted(t), Wanted(u)>> \in lockorders
    BY <2>1
  <2> QED BY <1>1, <2>2 DEF IInv, OneOrder
<1> QED BY <1>1, AlwaysIInv, PTL

-----------------------------------------------------------------------------
(* Connections                                                             *)

Addr == OutAddr \cup InAddr \cup {Nil}
Places == {"none", "vNodes", "vNodesDisconnected", "deleted"}
Dest == Addr \cup Name
CNode == [addr : Addr, addrName : Dest, fInbound : BOOLEAN, fNetworkNode : BOOLEAN,
          fDisconnect : BOOLEAN, nRefCount : Int, held : BOOLEAN, grant : BOOLEAN,
          direct : BOOLEAN]
WithNode == {"found", "counting", "connected", "moved"}
Opening == [pc : {"idle", "granted", "checked", "connecting"} \cup WithNode,
            grant : BOOLEAN, addr : Addr, name : Dest, node : Node \cup {Nil}, count : Int]

ConnTypes ==
  /\ place \in [Node -> Places] /\ cnode \in [Node -> CNode]
  /\ semOutbound \in Nat /\ opener \in [Opener -> Opening]
  /\ socketCopy \subseteq Node /\ messageCopy \subseteq Node /\ lost \subseteq Node

(* A thread has a slot from ThreadOpenConnections' wait to MoveTo, or none *)
(* if it connects by name, and a node from the time it finds or makes one. *)
Grantless == {"idle", "connecting", "connected", "moved"}
ThreadOK(r) ==
  /\ r.grant = TRUE => r.pc \notin {"idle", "moved"}
  /\ r.grant = FALSE => r.pc \in Grantless
  /\ r.node # Nil <=> r.pc \in WithNode
OpenersOK == \A o \in Opener : ThreadOK(opener[o])

(* Nobody has a node that is not made, and such a node has nothing.        *)
UnbornUnused ==
  \A n \in Node : place[n] = "none" =>
    /\ cnode[n].grant = FALSE /\ n \notin socketCopy /\ n \notin messageCopy
    /\ \A o \in Opener : opener[o].node # n

(* Every slot is free, with a thread, or with a node.                      *)
OpenersSlots == {o \in Opener : opener[o].grant = TRUE}
NodesSlots == {n \in Node : cnode[n].grant = TRUE}
SlotsAdd ==
  semOutbound + Cardinality(OpenersSlots) + Cardinality(NodesSlots) = MaxOutbound

(* An outbound connection that the loop over -connect did not open has its *)
(* slot, or who made it is about to hand it over.                          *)
Pays(o, n) ==
  opener[o].pc = "connected" /\ opener[o].grant = TRUE /\ opener[o].node = n
Owes(n) == cnode[n].fInbound = FALSE /\ cnode[n].direct = FALSE
OutboundPaid ==
  \A n \in vNodes : Owes(n) => cnode[n].grant = TRUE \/ \E o \in Opener : Pays(o, n)

(* The references that nRefCount stands for.                               *)
One(b) == IF b THEN 1 ELSE 0
Refs(n) == One(n \in socketCopy) + One(n \in messageCopy) + One(place[n] = "vNodes")
Counted == \A n \in Node \ lost : cnode[n].nRefCount >= Refs(n)

(* After the quarter of an hour no thread that opens connections has it.   *)
LetGo == \A n \in Pool : cnode[n].held = FALSE => \A o \in Opener : opener[o].node # n

ConnInv ==
  /\ ConnTypes /\ OpenersOK /\ UnbornUnused /\ SlotsAdd /\ OutboundPaid
  /\ Counted /\ LetGo /\ NoUseAfterDelete

-----------------------------------------------------------------------------
LEMMA SlotSets ==
  /\ IsFiniteSet(OpenersSlots) /\ Cardinality(OpenersSlots) \in Nat
  /\ IsFiniteSet(NodesSlots) /\ Cardinality(NodesSlots) \in Nat
<1>1. IsFiniteSet(OpenersSlots) /\ IsFiniteSet(NodesSlots)
  BY FS_Subset, ConnectionsAssumption DEF OpenersSlots, NodesSlots
<1> QED BY <1>1, FS_CardinalityType

LEMMA OpenerGains ==
  ASSUME NEW o \in Opener, opener[o].grant # TRUE, OpenersSlots' = OpenersSlots \cup {o}
  PROVE  Cardinality(OpenersSlots)' = Cardinality(OpenersSlots) + 1
<1>1. o \notin OpenersSlots BY DEF OpenersSlots
<1>2. Cardinality(OpenersSlots \cup {o}) = Cardinality(OpenersSlots) + 1
  BY <1>1, SlotSets, FS_AddElement
<1> QED BY <1>2

LEMMA OpenerLoses ==
  ASSUME NEW o \in Opener, opener[o].grant = TRUE, OpenersSlots' = OpenersSlots \ {o}
  PROVE  Cardinality(OpenersSlots)' = Cardinality(OpenersSlots) - 1
<1>1. o \in OpenersSlots BY DEF OpenersSlots
<1>2. Cardinality(OpenersSlots \ {o}) = Cardinality(OpenersSlots) - 1
  BY <1>1, SlotSets, FS_RemoveElement
<1> QED BY <1>2

LEMMA NodeGains ==
  ASSUME NEW n \in Node, NodesSlots' = NodesSlots \cup {n}
  PROVE  Cardinality(NodesSlots)' =
           Cardinality(NodesSlots) + (IF cnode[n].grant = TRUE THEN 0 ELSE 1)
<1>1. n \in NodesSlots <=> cnode[n].grant = TRUE BY DEF NodesSlots
<1>2. Cardinality(NodesSlots \cup {n}) =
        IF n \in NodesSlots THEN Cardinality(NodesSlots) ELSE Cardinality(NodesSlots) + 1
  BY SlotSets, FS_AddElement
<1>3. Cardinality(NodesSlots)' = Cardinality(NodesSlots \cup {n}) OBVIOUS
<1> QED BY <1>1, <1>2, <1>3, SlotSets

LEMMA NodeLoses ==
  ASSUME NEW n \in Node, NodesSlots' = NodesSlots \ {n}
  PROVE  Cardinality(NodesSlots)' =
           Cardinality(NodesSlots) - (IF cnode[n].grant = TRUE THEN 1 ELSE 0)
<1>1. n \in NodesSlots <=> cnode[n].grant = TRUE BY DEF NodesSlots
<1>2. Cardinality(NodesSlots \ {n}) =
        IF n \in NodesSlots THEN Cardinality(NodesSlots) - 1 ELSE Cardinality(NodesSlots)
  BY SlotSets, FS_RemoveElement
<1>3. Cardinality(NodesSlots)' = Cardinality(NodesSlots \ {n}) OBVIOUS
<1> QED BY <1>1, <1>2, <1>3, SlotSets

LEMMA RefFacts ==
  ASSUME ConnTypes, NEW n \in Node
  PROVE  Refs(n) \in Nat /\ cnode[n].nRefCount \in Int /\ cnode[n] \in CNode
BY DEF Refs, One, ConnTypes, CNode

LEMMA InitConn == ConnInit => ConnInv
<1> SUFFICES ASSUME ConnInit PROVE ConnInv OBVIOUS
<1>1. Unborn \in CNode BY DEF Unborn, CNode, Addr, Dest
<1>2. Idle \in Opening BY DEF Idle, Opening, Addr, Dest
<1>3. ConnTypes BY <1>1, <1>2, ConnectionsAssumption DEF ConnInit, ConnTypes, Places
<1>4. OpenersOK /\ UnbornUnused
  BY ConnectionsAssumption
     DEF ConnInit, OpenersOK, ThreadOK, Grantless, UnbornUnused, Idle, Unborn, WithNode
<1>5. OpenersSlots = {} /\ NodesSlots = {}
  BY DEF ConnInit, OpenersSlots, NodesSlots, Idle, Unborn
<1>6. SlotsAdd BY <1>5, FS_EmptySet, ConnectionsAssumption DEF ConnInit, SlotsAdd
<1>7. OutboundPaid /\ Counted /\ LetGo /\ NoUseAfterDelete
  BY DEF ConnInit, OutboundPaid, Counted, Refs, One, LetGo, NoUseAfterDelete, vNodes, Pool,
         Unborn
<1> QED BY <1>3, <1>4, <1>6, <1>7 DEF ConnInv

-----------------------------------------------------------------------------
(* The threads that open connections                                       *)

(* A thread's own step that touches no node.                               *)
LEMMA OwnStep ==
  ASSUME ConnInv, NEW o \in Opener, NEW new \in Opening,
         opener' = [opener EXCEPT ![o] = new],
         UNCHANGED <<place, cnode, socketCopy, messageCopy, lost>>,
         ThreadOK(new), new.node \in vNodes \cup {Nil, opener[o].node},
         opener[o].pc # "connected", semOutbound' \in Nat, SlotsAdd'
  PROVE  ConnInv'
<1>1. ConnTypes' BY DEF ConnInv, ConnTypes
<1>2. /\ opener'[o] = new /\ \A u \in Opener \ {o} : opener'[u] = opener[u]
  BY DEF ConnInv, ConnTypes
<1>3. OpenersOK' BY <1>2 DEF ConnInv, OpenersOK
<1>4. \A n \in Node : n \notin vNodes /\ (\A u \in Opener : opener[u].node # n)
         => \A u \in Opener : opener'[u].node # n
  BY <1>2, ConnectionsAssumption
<1>5. UnbornUnused' BY <1>4 DEF ConnInv, UnbornUnused, vNodes
<1>6. OutboundPaid'
  <2>1. \A n, u : u \in Opener /\ Pays(u, n) => Pays(u, n)' BY <1>2 DEF Pays
  <2> QED BY <2>1 DEF ConnInv, OutboundPaid, Owes, vNodes
<1>7. Counted' BY DEF ConnInv, Counted, Refs
<1>8. LetGo' BY <1>4 DEF ConnInv, LetGo, Pool, vNodes
<1>9. NoUseAfterDelete' BY <1>4 DEF ConnInv, NoUseAfterDelete, Using, vNodes
<1> QED BY <1>1, <1>3, <1>5, <1>6, <1>7, <1>8, <1>9 DEF ConnInv

LEMMA SameSlots ==
  ASSUME ConnInv, semOutbound' = semOutbound, cnode' = cnode,
         \A o \in Opener : opener'[o].grant = opener[o].grant
  PROVE  SlotsAdd'
<1>1. OpenersSlots' = OpenersSlots /\ NodesSlots' = NodesSlots
  BY DEF OpenersSlots, NodesSlots
<1> QED BY <1>1 DEF ConnInv, SlotsAdd

LEMMA OpenerType ==
  ASSUME ConnInv, NEW o \in Opener
  PROVE  /\ opener[o] \in Opening /\ opener[o].node \in Node \cup {Nil}
         /\ opener[o].pc \in {"idle", "granted", "checked", "connecting"} \cup WithNode
         /\ opener[o].grant \in BOOLEAN /\ opener[o].count \in Int
         /\ opener[o].addr \in Addr /\ opener[o].name \in Dest
         /\ ThreadOK(opener[o])
BY DEF ConnInv, ConnTypes, Opening, OpenersOK

LEMMA AcquireSlotInv ==
  ASSUME ConnInv, NEW o \in Opener, AcquireSlot(o)
  PROVE  ConnInv'
<1> DEFINE new == [opener[o] EXCEPT !.pc = "granted", !.grant = TRUE]
<1>1. new \in Opening BY OpenerType DEF Opening
<1>2. /\ new.pc = "granted" /\ new.grant = TRUE /\ new.node = opener[o].node
  BY OpenerType DEF Opening
<1>3. opener' = [opener EXCEPT ![o] = new] BY DEF AcquireSlot, ConnInv, ConnTypes
<1>4. opener[o].grant # TRUE /\ opener[o].node = Nil /\ opener[o].pc = "idle"
  BY OpenerType DEF AcquireSlot, ThreadOK, WithNode
<1>5. /\ opener'[o].grant = TRUE
      /\ \A u \in Opener \ {o} : opener'[u] = opener[u]
  BY <1>2, <1>3 DEF ConnInv, ConnTypes
<1>6. OpenersSlots' = OpenersSlots \cup {o} /\ NodesSlots' = NodesSlots
  BY <1>5 DEF OpenersSlots, NodesSlots, AcquireSlot
<1>7. semOutbound' = semOutbound - 1 /\ semOutbound' \in Nat /\ semOutbound \in Nat
  BY DEF AcquireSlot, ConnInv, ConnTypes
<1>8. SlotsAdd'
  <2>1. Cardinality(OpenersSlots)' = Cardinality(OpenersSlots) + 1
    BY <1>4, <1>6, OpenerGains
  <2>2. Cardinality(NodesSlots)' = Cardinality(NodesSlots) BY <1>6
  <2> QED BY <1>7, <2>1, <2>2, SlotSets DEF ConnInv, SlotsAdd
<1> HIDE DEF new
<1>9. ThreadOK(new) BY <1>2, <1>4 DEF ThreadOK, WithNode
<1> QED BY <1>1, <1>2, <1>3, <1>4, <1>7, <1>8, <1>9, OwnStep DEF AcquireSlot

LEMMA GiveUpInv ==
  ASSUME ConnInv, NEW o \in Opener, opener[o].pc \in {"granted", "connecting"}, GiveUp(o)
  PROVE  ConnInv'
<1>1. Idle \in Opening /\ Idle.node = Nil /\ Idle.pc = "idle" /\ Idle.grant = FALSE
  BY DEF Idle, Opening, Addr, Dest
<1>2. opener' = [opener EXCEPT ![o] = Idle] BY DEF GiveUp
<1>3. opener[o].grant \in BOOLEAN BY OpenerType
<1>4. /\ opener'[o].grant = FALSE /\ \A u \in Opener \ {o} : opener'[u] = opener[u]
  BY <1>1, <1>2 DEF ConnInv, ConnTypes
<1>5. OpenersSlots' = OpenersSlots \ {o} /\ NodesSlots' = NodesSlots
  BY <1>4 DEF OpenersSlots, NodesSlots, GiveUp
<1>6. /\ semOutbound' = semOutbound + (IF opener[o].grant THEN 1 ELSE 0)
      /\ semOutbound \in Nat
  BY DEF GiveUp, ConnInv, ConnTypes
<1>7. SlotsAdd'
  <2>1. Cardinality(NodesSlots)' = Cardinality(NodesSlots) BY <1>5
  <2>2. CASE opener[o].grant = TRUE
    <3>1. Cardinality(OpenersSlots)' = Cardinality(OpenersSlots) - 1
      BY <1>5, <2>2, OpenerLoses
    <3> QED BY <1>6, <2>1, <2>2, <3>1, SlotSets DEF ConnInv, SlotsAdd
  <2>3. CASE opener[o].grant = FALSE
    <3>1. OpenersSlots' = OpenersSlots BY <1>5, <2>3 DEF OpenersSlots
    <3> QED BY <1>6, <2>1, <2>3, <3>1, SlotSets DEF ConnInv, SlotsAdd
  <2> QED BY <1>3, <2>2, <2>3
<1>8. UNCHANGED <<place, cnode, socketCopy, messageCopy, lost>> BY DEF GiveUp
<1>9. Idle.node \notin Node /\ Idle.pc \notin WithNode BY <1>1, ConnectionsAssumption DEF WithNode
<1>10. semOutbound' \in Nat /\ opener[o].pc # "connected" BY <1>3, <1>6
<1>11. ThreadOK(Idle) BY <1>1, <1>9 DEF ThreadOK, Grantless
<1> QED BY <1>1, <1>2, <1>7, <1>8, <1>10, <1>11, OwnStep

LEMMA LookInv ==
  ASSUME ConnInv, NEW o \in Opener,
         \/ \E addr \in OutAddr : OpenNetworkConnection(o, addr)
         \/ \E name \in Name : OpenByName(o, name)
         \/ FindNode(o)
         \/ ReadCount(o)
  PROVE  ConnInv'
<1>1. ASSUME NEW addr \in OutAddr, OpenNetworkConnection(o, addr) PROVE ConnInv'
  <2>1. CASE GiveUp(o) BY <1>1, <2>1, GiveUpInv DEF OpenNetworkConnection
  <2>2. CASE ~GiveUp(o)
    <3> DEFINE new == [opener[o] EXCEPT !.pc = "checked", !.addr = addr, !.name = addr]
    <3>1. new \in Opening BY OpenerType DEF Opening, Addr, Dest
    <3>2. /\ new.pc = "checked" /\ new.grant = opener[o].grant /\ new.node = opener[o].node
      BY OpenerType DEF Opening
    <3>3. /\ opener' = [opener EXCEPT ![o] = new] /\ opener[o].pc = "granted"
          /\ UNCHANGED <<place, cnode, semOutbound, socketCopy, messageCopy, lost>>
      BY <1>1, <2>2 DEF OpenNetworkConnection, ConnInv, ConnTypes
    <3>4. \A u \in Opener : opener'[u].grant = opener[u].grant
      BY <3>2, <3>3 DEF ConnInv, ConnTypes
    <3>5. SlotsAdd' BY <3>3, <3>4, SameSlots
    <3>6. opener[o].grant = TRUE /\ opener[o].node = Nil
      BY <3>3, OpenerType DEF ThreadOK, Grantless, WithNode
    <3>7. semOutbound' \in Nat BY <3>3 DEF ConnInv, ConnTypes
    <3> HIDE DEF new
    <3>8. ThreadOK(new) BY <3>2, <3>6 DEF ThreadOK, WithNode
    <3> QED BY <3>1, <3>2, <3>3, <3>5, <3>6, <3>7, <3>8, OwnStep
  <2> QED BY <2>1, <2>2
<1>4. ASSUME NEW name \in Name, OpenByName(o, name) PROVE ConnInv'
  <2>1. CASE opener[o].pc = "granted" /\ GiveUp(o) BY <2>1, GiveUpInv
  <2>2. ASSUME NEW addr \in Resolve[name],
               opener' = [opener EXCEPT ![o].pc = "connecting", ![o].addr = addr,
                                        ![o].name = name],
               UNCHANGED <<place, cnode, semOutbound, socketCopy, messageCopy, lost>>
        PROVE  ConnInv'
    <3> DEFINE new == [opener[o] EXCEPT !.pc = "connecting", !.addr = addr, !.name = name]
    <3>0. addr \in Addr /\ name \in Dest BY ConnectionsAssumption DEF Addr, Dest
    <3>1. new \in Opening BY <3>0, OpenerType DEF Opening
    <3>2. /\ new.pc = "connecting" /\ new.grant = opener[o].grant /\ new.node = opener[o].node
      BY OpenerType DEF Opening
    <3>3. opener' = [opener EXCEPT ![o] = new] BY <2>2 DEF ConnInv, ConnTypes
    <3>4. \A u \in Opener : opener'[u].grant = opener[u].grant
      BY <3>2, <3>3 DEF ConnInv, ConnTypes
    <3>5. SlotsAdd' BY <2>2, <3>4, SameSlots
    <3>6. opener[o].pc \in {"idle", "granted"} /\ opener[o].node = Nil
      BY <1>4, OpenerType DEF OpenByName, ThreadOK, WithNode
    <3>7. semOutbound' \in Nat BY <2>2 DEF ConnInv, ConnTypes
    <3> HIDE DEF new
    <3>8. ThreadOK(new) BY <3>2, <3>6 DEF ThreadOK, Grantless, WithNode
    <3> QED BY <2>2, <3>1, <3>2, <3>3, <3>5, <3>6, <3>7, <3>8, OwnStep
  <2> QED BY <1>4, <2>1, <2>2 DEF OpenByName
<1>2. ASSUME FindNode(o) PROVE ConnInv'
  <2>1. ASSUME NEW n \in Known(opener[o].addr),
               opener' = [opener EXCEPT ![o].pc = "found", ![o].node = n]
        PROVE  ConnInv'
    <3> DEFINE new == [opener[o] EXCEPT !.pc = "found", !.node = n]
    <3>0. n \in vNodes /\ n \in Node /\ n # Nil BY ConnectionsAssumption DEF Known, vNodes
    <3>1. new \in Opening BY <3>0, OpenerType DEF Opening, WithNode
    <3>2. /\ new.pc = "found" /\ new.grant = opener[o].grant /\ new.node = n
      BY OpenerType DEF Opening
    <3>3. /\ opener' = [opener EXCEPT ![o] = new] /\ opener[o].pc = "checked"
          /\ UNCHANGED <<place, cnode, semOutbound, socketCopy, messageCopy, lost>>
      BY <1>2, <2>1 DEF FindNode, ConnInv, ConnTypes
    <3>4. \A u \in Opener : opener'[u].grant = opener[u].grant
      BY <3>2, <3>3 DEF ConnInv, ConnTypes
    <3>5. SlotsAdd' BY <3>3, <3>4, SameSlots
    <3>6. opener[o].grant = TRUE BY <3>3, OpenerType DEF ThreadOK, Grantless
    <3>7. semOutbound' \in Nat BY <3>3 DEF ConnInv, ConnTypes
    <3> HIDE DEF new
    <3>8. ThreadOK(new) BY <3>0, <3>2, <3>6 DEF ThreadOK, WithNode
    <3> QED BY <3>0, <3>1, <3>2, <3>3, <3>5, <3>7, <3>8, OwnStep
  <2>2. ASSUME opener' = [opener EXCEPT ![o].pc = "connecting"] PROVE ConnInv'
    <3> DEFINE new == [opener[o] EXCEPT !.pc = "connecting"]
    <3>1. new \in Opening BY OpenerType DEF Opening
    <3>2. /\ new.pc = "connecting" /\ new.grant = opener[o].grant /\ new.node = opener[o].node
      BY OpenerType DEF Opening
    <3>3. /\ opener' = [opener EXCEPT ![o] = new] /\ opener[o].pc = "checked"
          /\ UNCHANGED <<place, cnode, semOutbound, socketCopy, messageCopy, lost>>
      BY <1>2, <2>2 DEF FindNode, ConnInv, ConnTypes
    <3>4. \A u \in Opener : opener'[u].grant = opener[u].grant
      BY <3>2, <3>3 DEF ConnInv, ConnTypes
    <3>5. SlotsAdd' BY <3>3, <3>4, SameSlots
    <3>6. opener[o].grant = TRUE /\ opener[o].node = Nil
      BY <3>3, OpenerType DEF ThreadOK, Grantless, WithNode
    <3>7. semOutbound' \in Nat BY <3>3 DEF ConnInv, ConnTypes
    <3> HIDE DEF new
    <3>8. ThreadOK(new) BY <3>2, <3>6 DEF ThreadOK, WithNode
    <3> QED BY <3>1, <3>2, <3>3, <3>5, <3>6, <3>7, <3>8, OwnStep
  <2> QED BY <1>2, <2>1, <2>2 DEF FindNode
<1>3. ASSUME ReadCount(o) PROVE ConnInv'
  <2> DEFINE new == [opener[o] EXCEPT !.pc = "counting",
                                      !.count = cnode[opener[o].node].nRefCount]
  <2>0. /\ opener[o].pc = "found" /\ opener[o].grant = TRUE /\ opener[o].node # Nil
        /\ opener[o].node \in Node
    BY <1>3, OpenerType DEF ReadCount, ThreadOK, Grantless, WithNode
  <2>1. cnode[opener[o].node].nRefCount \in Int BY <2>0, RefFacts DEF ConnInv
  <2>2. new \in Opening BY <2>1, OpenerType DEF Opening, WithNode
  <2>3. /\ new.pc = "counting" /\ new.grant = opener[o].grant /\ new.node = opener[o].node
    BY OpenerType DEF Opening
  <2>4. /\ opener' = [opener EXCEPT ![o] = new]
        /\ UNCHANGED <<place, cnode, semOutbound, socketCopy, messageCopy, lost>>
    BY <1>3 DEF ReadCount, ConnInv, ConnTypes
  <2>5. \A u \in Opener : opener'[u].grant = opener[u].grant
    BY <2>3, <2>4 DEF ConnInv, ConnTypes
  <2>6. SlotsAdd' BY <2>4, <2>5, SameSlots
  <2>7. semOutbound' \in Nat BY <2>4 DEF ConnInv, ConnTypes
  <2> HIDE DEF new
  <2>8. ThreadOK(new) BY <2>0, <2>3 DEF ThreadOK, WithNode
  <2> QED BY <2>0, <2>2, <2>3, <2>4, <2>6, <2>7, <2>8, OwnStep
<1> QED BY <1>1, <1>2, <1>3, <1>4

-----------------------------------------------------------------------------
(* The socket thread and the message thread                                *)

(* References are taken and given back, and connections are marked.        *)
LEMMA FieldStep ==
  ASSUME ConnInv, UNCHANGED <<place, semOutbound, opener, lost>>, cnode' \in [Node -> CNode],
         \A n \in Node : /\ cnode'[n].grant = cnode[n].grant
                         /\ cnode'[n].fInbound = cnode[n].fInbound
                         /\ cnode'[n].direct = cnode[n].direct
                         /\ cnode'[n].held = cnode[n].held,
         socketCopy' \subseteq socketCopy \cup vNodes,
         messageCopy' \subseteq messageCopy \cup vNodes, Counted'
  PROVE  ConnInv'
<1>1. ConnTypes' BY DEF ConnInv, ConnTypes, vNodes
<1>2. OpenersOK' BY DEF ConnInv, OpenersOK
<1>3. UnbornUnused' BY DEF ConnInv, UnbornUnused, vNodes
<1>4. SlotsAdd'
  <2>1. OpenersSlots' = OpenersSlots /\ NodesSlots' = NodesSlots
    BY DEF OpenersSlots, NodesSlots
  <2> QED BY <2>1 DEF ConnInv, SlotsAdd
<1>5. OutboundPaid' BY DEF ConnInv, OutboundPaid, Owes, vNodes, Pays
<1>6. LetGo' BY DEF ConnInv, LetGo, Pool
<1>7. NoUseAfterDelete' BY DEF ConnInv, NoUseAfterDelete, Using, vNodes
<1> QED BY <1>1, <1>2, <1>3, <1>4, <1>5, <1>6, <1>7 DEF ConnInv

LEMMA WithRefsFacts ==
  ASSUME ConnInv, NEW copy, NEW d \in Int, cnode' = WithRefs(copy, d)
  PROVE  /\ cnode' \in [Node -> CNode]
         /\ \A n \in Node : /\ cnode'[n].grant = cnode[n].grant
                            /\ cnode'[n].fInbound = cnode[n].fInbound
                            /\ cnode'[n].direct = cnode[n].direct
                            /\ cnode'[n].held = cnode[n].held
                            /\ cnode'[n].nRefCount =
                                 cnode[n].nRefCount + (IF n \in copy THEN d ELSE 0)
<1>1. \A n \in Node : cnode[n] \in CNode BY DEF ConnInv, ConnTypes
<1>2. ASSUME NEW n \in Node
      PROVE  [cnode[n] EXCEPT !.nRefCount = @ + d] \in CNode
  BY <1>1 DEF CNode
<1>3. cnode' \in [Node -> CNode] BY <1>1, <1>2 DEF WithRefs
<1>4. ASSUME NEW n \in Node
      PROVE  /\ cnode'[n].grant = cnode[n].grant
             /\ cnode'[n].fInbound = cnode[n].fInbound
             /\ cnode'[n].direct = cnode[n].direct
             /\ cnode'[n].held = cnode[n].held
             /\ cnode'[n].nRefCount = cnode[n].nRefCount + (IF n \in copy THEN d ELSE 0)
  <2>1. cnode[n] \in CNode /\ cnode[n].nRefCount \in Int BY <1>1 DEF CNode
  <2>2. cnode'[n] = IF n \in copy THEN [cnode[n] EXCEPT !.nRefCount = @ + d] ELSE cnode[n]
    BY DEF WithRefs
  <2> QED BY <2>1, <2>2 DEF CNode
<1> QED BY <1>3, <1>4

LEMMA RefsInv ==
  ASSUME ConnInv, SocketBegin \/ SocketEnd \/ MessageBegin \/ MessageEnd
  PROVE  ConnInv'
<1>1. ASSUME SocketBegin PROVE ConnInv'
  <2>1. cnode' = WithRefs(vNodes, 1) /\ socketCopy = {} /\ socketCopy' = vNodes
        /\ UNCHANGED <<place, semOutbound, opener, messageCopy, lost>>
    BY <1>1 DEF SocketBegin
  <2>2. Counted'
    <3> SUFFICES ASSUME NEW n \in Node \ lost PROVE cnode'[n].nRefCount >= Refs(n)'
      BY <2>1 DEF Counted
    <3>1. Refs(n)' = Refs(n) + (IF n \in vNodes THEN 1 ELSE 0) BY <2>1 DEF Refs, One
    <3>2. cnode'[n].nRefCount = cnode[n].nRefCount + (IF n \in vNodes THEN 1 ELSE 0)
      BY <2>1, WithRefsFacts
    <3> QED BY <3>1, <3>2, RefFacts DEF ConnInv, Counted
  <2> QED BY <2>1, <2>2, WithRefsFacts, FieldStep
<1>2. ASSUME SocketEnd PROVE ConnInv'
  <2>1. cnode' = WithRefs(socketCopy, -1) /\ socketCopy' = {}
        /\ UNCHANGED <<place, semOutbound, opener, messageCopy, lost>>
    BY <1>2 DEF SocketEnd
  <2>2. Counted'
    <3> SUFFICES ASSUME NEW n \in Node \ lost PROVE cnode'[n].nRefCount >= Refs(n)'
      BY <2>1 DEF Counted
    <3>1. Refs(n)' = Refs(n) + (IF n \in socketCopy THEN -1 ELSE 0) BY <2>1 DEF Refs, One
    <3>2. cnode'[n].nRefCount = cnode[n].nRefCount + (IF n \in socketCopy THEN -1 ELSE 0)
      BY <2>1, WithRefsFacts
    <3> QED BY <3>1, <3>2, RefFacts DEF ConnInv, Counted
  <2> QED BY <2>1, <2>2, WithRefsFacts, FieldStep
<1>3. ASSUME MessageBegin PROVE ConnInv'
  <2>1. cnode' = WithRefs(vNodes, 1) /\ messageCopy = {} /\ messageCopy' = vNodes
        /\ UNCHANGED <<place, semOutbound, opener, socketCopy, lost>>
    BY <1>3 DEF MessageBegin
  <2>2. Counted'
    <3> SUFFICES ASSUME NEW n \in Node \ lost PROVE cnode'[n].nRefCount >= Refs(n)'
      BY <2>1 DEF Counted
    <3>1. Refs(n)' = Refs(n) + (IF n \in vNodes THEN 1 ELSE 0) BY <2>1 DEF Refs, One
    <3>2. cnode'[n].nRefCount = cnode[n].nRefCount + (IF n \in vNodes THEN 1 ELSE 0)
      BY <2>1, WithRefsFacts
    <3> QED BY <3>1, <3>2, RefFacts DEF ConnInv, Counted
  <2> QED BY <2>1, <2>2, WithRefsFacts, FieldStep
<1>4. ASSUME MessageEnd PROVE ConnInv'
  <2>1. cnode' = WithRefs(messageCopy, -1) /\ messageCopy' = {}
        /\ UNCHANGED <<place, semOutbound, opener, socketCopy, lost>>
    BY <1>4 DEF MessageEnd
  <2>2. Counted'
    <3> SUFFICES ASSUME NEW n \in Node \ lost PROVE cnode'[n].nRefCount >= Refs(n)'
      BY <2>1 DEF Counted
    <3>1. Refs(n)' = Refs(n) + (IF n \in messageCopy THEN -1 ELSE 0) BY <2>1 DEF Refs, One
    <3>2. cnode'[n].nRefCount = cnode[n].nRefCount + (IF n \in messageCopy THEN -1 ELSE 0)
      BY <2>1, WithRefsFacts
    <3> QED BY <3>1, <3>2, RefFacts DEF ConnInv, Counted
  <2> QED BY <2>1, <2>2, WithRefsFacts, FieldStep
<1> QED BY <1>1, <1>2, <1>3, <1>4

(* One field of one node is set.                                           *)
LEMMA ClosesInv ==
  ASSUME ConnInv, NEW n \in Node, SocketCloses(n) \/ MessageCloses(n)
  PROVE  ConnInv'
<1> DEFINE new == [cnode[n] EXCEPT !.fDisconnect = TRUE]
<1>1. cnode[n] \in CNode BY DEF ConnInv, ConnTypes
<1>2. new \in CNode BY <1>1 DEF CNode
<1>3. /\ new.grant = cnode[n].grant /\ new.fInbound = cnode[n].fInbound
      /\ new.direct = cnode[n].direct /\ new.held = cnode[n].held /\ new.nRefCount = cnode[n].nRefCount
  BY <1>1 DEF CNode
<1>4. /\ cnode' = [cnode EXCEPT ![n] = new]
      /\ UNCHANGED <<place, semOutbound, opener, socketCopy, messageCopy, lost>>
  BY DEF SocketCloses, MessageCloses, ConnInv, ConnTypes
<1> HIDE DEF new
<1>5. cnode' \in [Node -> CNode] BY <1>2, <1>4 DEF ConnInv, ConnTypes
<1>6. \A m \in Node : /\ cnode'[m].grant = cnode[m].grant
                      /\ cnode'[m].fInbound = cnode[m].fInbound
                      /\ cnode'[m].direct = cnode[m].direct
                      /\ cnode'[m].held = cnode[m].held
                      /\ cnode'[m].nRefCount = cnode[m].nRefCount
  BY <1>3, <1>4 DEF ConnInv, ConnTypes
<1>7. Counted' BY <1>4, <1>6 DEF ConnInv, Counted, Refs
<1> QED BY <1>4, <1>5, <1>6, <1>7, FieldStep

-----------------------------------------------------------------------------
(* A node begins                                                           *)

LEMMA NewNodeInv ==
  ASSUME ConnInv, NEW n \in Node, NEW addr \in Addr, NEW name \in Dest,
         NEW fInbound \in BOOLEAN, NEW direct \in BOOLEAN,
         NewNode(n, addr, name, fInbound, direct),
         UNCHANGED <<semOutbound, socketCopy, messageCopy, lost>>,
         opener' \in [Opener -> Opening],
         \A o \in Opener : \/ opener'[o] = opener[o]
                           \/ /\ opener'[o].pc = "connected" /\ opener'[o].node = n
                              /\ opener[o].node = Nil /\ opener'[o].grant = opener[o].grant,
         fInbound = FALSE /\ direct = FALSE => \E o \in Opener : Pays(o, n)'
  PROVE  ConnInv'
<1> DEFINE new == [Unborn EXCEPT !.addr = addr, !.addrName = name, !.fInbound = fInbound,
                                 !.nRefCount = 1, !.direct = direct]
<1>1. place[n] = "none" /\ place' = [place EXCEPT ![n] = "vNodes"]
      /\ cnode' = [cnode EXCEPT ![n] = new]
  BY DEF NewNode
<1>2. /\ new \in CNode /\ new.grant = FALSE /\ new.fInbound = fInbound
      /\ new.nRefCount = 1 /\ new.direct = direct
  <2> DEFINE u0 == [Unborn EXCEPT !.addr = addr]
             u1 == [u0 EXCEPT !.addrName = name]
             u2 == [u1 EXCEPT !.fInbound = fInbound]
             u3 == [u2 EXCEPT !.nRefCount = 1]
             u4 == [u3 EXCEPT !.direct = direct]
  <2>1. Unborn \in CNode /\ Unborn.grant = FALSE BY DEF Unborn, CNode, Addr, Dest
  <2>2. u0 \in CNode /\ u0.grant = FALSE BY <2>1 DEF CNode
  <2>3. new = u4 OBVIOUS
  <2> HIDE DEF u0, new
  <2>4. u1 \in CNode /\ u1.grant = FALSE BY <2>2 DEF CNode
  <2> HIDE DEF u1
  <2>5. u2 \in CNode /\ u2.grant = FALSE /\ u2.fInbound = fInbound BY <2>4 DEF CNode
  <2> HIDE DEF u2
  <2>6. u3 \in CNode /\ u3.grant = FALSE /\ u3.fInbound = fInbound /\ u3.nRefCount = 1
    BY <2>5 DEF CNode
  <2> HIDE DEF u3
  <2>7. /\ u4 \in CNode /\ u4.grant = FALSE /\ u4.fInbound = fInbound /\ u4.nRefCount = 1
        /\ u4.direct = direct
    BY <2>6 DEF CNode
  <2> QED BY <2>3, <2>7
<1> HIDE DEF new
<1>3. /\ place'[n] = "vNodes" /\ \A m \in Node \ {n} : place'[m] = place[m]
      /\ cnode'[n] = new /\ \A m \in Node \ {n} : cnode'[m] = cnode[m]
  BY <1>1 DEF ConnInv, ConnTypes
<1>4. ConnTypes' BY <1>1, <1>2 DEF ConnInv, ConnTypes, Places
<1>5. cnode[n].grant = FALSE /\ n \notin socketCopy /\ n \notin messageCopy
      /\ \A o \in Opener : opener[o].node # n
  BY <1>1 DEF ConnInv, UnbornUnused
<1>6. OpenersOK'
  <2> SUFFICES ASSUME NEW o \in Opener PROVE ThreadOK(opener'[o]) BY DEF OpenersOK
  <2>1. CASE opener'[o] = opener[o] BY <2>1 DEF ConnInv, OpenersOK
  <2>2. CASE opener'[o].pc = "connected" /\ opener'[o].node = n
    BY <2>2, ConnectionsAssumption DEF ThreadOK, Grantless, WithNode
  <2> QED BY <2>1, <2>2
<1>7. UnbornUnused'
  <2> SUFFICES ASSUME NEW m \in Node, place'[m] = "none"
               PROVE  /\ cnode'[m].grant = FALSE /\ m \notin socketCopy /\ m \notin messageCopy
                      /\ \A o \in Opener : opener'[o].node # m
    BY DEF UnbornUnused
  <2>1. m # n /\ place[m] = "none" BY <1>3
  <2>2. /\ cnode[m].grant = FALSE /\ m \notin socketCopy /\ m \notin messageCopy
        /\ \A o \in Opener : opener[o].node # m
    BY <2>1 DEF ConnInv, UnbornUnused
  <2> QED BY <1>3, <2>1, <2>2
<1>8. SlotsAdd'
  <2>1. \A o \in Opener : opener'[o].grant = opener[o].grant OBVIOUS
  <2>2. \A m \in Node : cnode'[m].grant = cnode[m].grant BY <1>2, <1>3, <1>5
  <2>3. OpenersSlots' = OpenersSlots /\ NodesSlots' = NodesSlots
    BY <2>1, <2>2 DEF OpenersSlots, NodesSlots
  <2> QED BY <2>3 DEF ConnInv, SlotsAdd
<1>9. OutboundPaid'
  <2> SUFFICES ASSUME NEW m \in Node, place'[m] = "vNodes", cnode'[m].fInbound = FALSE,
                      cnode'[m].direct = FALSE
               PROVE  cnode'[m].grant = TRUE \/ \E o \in Opener : Pays(o, m)'
    BY DEF OutboundPaid, Owes, vNodes
  <2>1. CASE m = n BY <1>2, <1>3, <2>1
  <2>2. CASE m # n
    <3>1. place[m] = "vNodes" /\ cnode'[m] = cnode[m] BY <1>3, <2>2
    <3>2. cnode[m].grant = TRUE \/ \E o \in Opener : Pays(o, m)
      BY <3>1 DEF ConnInv, OutboundPaid, Owes, vNodes
    <3>3. \A o \in Opener : Pays(o, m) => Pays(o, m)' BY ConnectionsAssumption DEF Pays
    <3> QED BY <3>1, <3>2, <3>3
  <2> QED BY <2>1, <2>2
<1>10. Counted'
  <2> SUFFICES ASSUME NEW m \in Node \ lost PROVE cnode'[m].nRefCount >= Refs(m)'
    BY DEF Counted
  <2>1. CASE m = n
    <3>1. Refs(n)' = 1 BY <1>3, <1>5 DEF Refs, One
    <3> QED BY <1>2, <1>3, <2>1, <3>1
  <2>2. CASE m # n
    <3>1. Refs(m)' = Refs(m) BY <1>3, <2>2 DEF Refs
    <3> QED BY <1>3, <2>2, <3>1 DEF ConnInv, Counted
  <2> QED BY <2>1, <2>2
<1>11. LetGo'
  <2> SUFFICES ASSUME NEW m \in Node, place'[m] = "vNodesDisconnected", cnode'[m].held = FALSE
               PROVE  \A o \in Opener : opener'[o].node # m
    BY DEF LetGo, Pool
  <2>1. m # n /\ place[m] = "vNodesDisconnected" /\ cnode[m].held = FALSE BY <1>3
  <2>2. \A o \in Opener : opener[o].node # m BY <2>1 DEF ConnInv, LetGo, Pool
  <2> QED BY <2>1, <2>2
<1>12. NoUseAfterDelete'
  <2> SUFFICES ASSUME NEW m \in Node \ lost, place'[m] = "deleted" PROVE ~Using(m)'
    BY DEF NoUseAfterDelete
  <2>1. m # n /\ place[m] = "deleted" BY <1>3
  <2>2. ~Using(m) BY <2>1 DEF ConnInv, NoUseAfterDelete
  <2> QED BY <2>1, <2>2 DEF Using
<1> QED BY <1>4, <1>6, <1>7, <1>8, <1>9, <1>10, <1>11, <1>12 DEF ConnInv

LEMMA ConnectInv ==
  ASSUME ConnInv, NEW o \in Opener, Connect(o)
  PROVE  ConnInv'
<1>1. opener[o].pc = "connecting" BY DEF Connect
<1>2. CASE GiveUp(o) BY <1>1, <1>2, GiveUpInv
<1>3. ASSUME NEW n \in Node,
             NewNode(n, opener[o].addr, opener[o].name, FALSE, ~opener[o].grant),
             opener' = [opener EXCEPT ![o].pc = "connected", ![o].node = n],
             UNCHANGED <<semOutbound, socketCopy, messageCopy, lost>>
      PROVE  ConnInv'
  <2> DEFINE new == [opener[o] EXCEPT !.pc = "connected", !.node = n]
  <2>1. new \in Opening BY OpenerType DEF Opening, WithNode
  <2>2. new.pc = "connected" /\ new.node = n /\ new.grant = opener[o].grant
    BY OpenerType DEF Opening
  <2>3. opener' = [opener EXCEPT ![o] = new] BY <1>3 DEF ConnInv, ConnTypes
  <2> HIDE DEF new
  <2>4. opener[o].node = Nil /\ opener[o].grant \in BOOLEAN
    BY <1>1, OpenerType DEF ThreadOK, WithNode
  <2>5. opener' \in [Opener -> Opening] BY <2>1, <2>3 DEF ConnInv, ConnTypes
  <2>6. opener'[o] = new /\ \A u \in Opener \ {o} : opener'[u] = opener[u]
    BY <2>3 DEF ConnInv, ConnTypes
  <2>7. FALSE = FALSE /\ (~opener[o].grant) = FALSE => \E u \in Opener : Pays(u, n)'
    BY <2>2, <2>4, <2>6 DEF Pays
  <2>8. opener[o].addr \in Addr /\ opener[o].name \in Dest BY OpenerType
  <2>9. \A u \in Opener : \/ opener'[u] = opener[u]
                          \/ /\ opener'[u].pc = "connected" /\ opener'[u].node = n
                             /\ opener[u].node = Nil /\ opener'[u].grant = opener[u].grant
    BY <2>2, <2>4, <2>6
  <2>10. FALSE \in BOOLEAN /\ (~opener[o].grant) \in BOOLEAN OBVIOUS
  <2> QED BY <1>3, <2>5, <2>7, <2>8, <2>9, <2>10, NewNodeInv
<1> QED BY <1>2, <1>3 DEF Connect

LEMMA AcceptInv ==
  ASSUME ConnInv, NEW addr \in InAddr, Accept(addr)
  PROVE  ConnInv'
<1>1. PICK n \in Node : NewNode(n, addr, addr, TRUE, FALSE) BY DEF Accept
<1>2. UNCHANGED <<semOutbound, opener, socketCopy, messageCopy, lost>> BY DEF Accept
<1>3. opener' \in [Opener -> Opening] BY <1>2 DEF ConnInv, ConnTypes
<1>4. addr \in Addr /\ addr \in Dest /\ TRUE \in BOOLEAN /\ FALSE \in BOOLEAN
  BY DEF Addr, Dest
<1> QED BY <1>1, <1>2, <1>3, <1>4, NewNodeInv

-----------------------------------------------------------------------------
(* What a thread that opens connections does to its node                   *)

LEMMA NodeStep ==
  ASSUME ConnInv, NEW o \in Opener, opener[o].node # Nil,
         NEW node \in CNode, NEW new \in Opening,
         cnode' = [cnode EXCEPT ![opener[o].node] = node],
         opener' = [opener EXCEPT ![o] = new],
         UNCHANGED <<place, socketCopy, messageCopy>>,
         node.held = cnode[opener[o].node].held,
         new.node \in {Nil, opener[o].node}, ThreadOK(new),
         lost \subseteq lost', lost' \subseteq Node, semOutbound' \in Nat,
         SlotsAdd', OutboundPaid', Counted'
  PROVE  ConnInv'
<1> DEFINE n == opener[o].node
<1>1. n \in Node BY OpenerType
<1>2. /\ opener'[o] = new /\ \A u \in Opener \ {o} : opener'[u] = opener[u]
      /\ cnode'[n] = node /\ \A m \in Node \ {n} : cnode'[m] = cnode[m]
  BY <1>1 DEF ConnInv, ConnTypes
<1>3. ConnTypes' BY DEF ConnInv, ConnTypes
<1>4. OpenersOK' BY <1>2 DEF ConnInv, OpenersOK
<1>5. \A m \in Node, u \in Opener : opener'[u].node = m => opener[u].node = m
  BY <1>2, ConnectionsAssumption
<1>6. place[n] # "none" BY <1>1 DEF ConnInv, UnbornUnused
<1> HIDE DEF n
<1>7. UnbornUnused' BY <1>2, <1>5, <1>6 DEF ConnInv, UnbornUnused
<1>8. LetGo'
  <2>1. \A m \in Node : cnode'[m].held = cnode[m].held BY <1>2 DEF n
  <2> QED BY <1>5, <2>1 DEF ConnInv, LetGo, Pool
<1>9. NoUseAfterDelete' BY <1>5 DEF ConnInv, NoUseAfterDelete, Using
<1> QED BY <1>3, <1>4, <1>7, <1>8, <1>9 DEF ConnInv

LEMMA WriteCountInv ==
  ASSUME ConnInv, NEW o \in Opener, WriteCount(o)
  PROVE  ConnInv'
<1> DEFINE n == opener[o].node
           node == [cnode[n] EXCEPT !.nRefCount = opener[o].count + 1]
           new == [opener[o] EXCEPT !.pc = "connected", !.count = 0]
<1>1. opener[o].pc = "counting" /\ opener[o].grant = TRUE /\ n # Nil /\ n \in Node
  BY OpenerType DEF WriteCount, ThreadOK, Grantless, WithNode
<1>2. cnode[n] \in CNode /\ opener[o].count \in Int BY <1>1, RefFacts, OpenerType DEF ConnInv
<1>3. /\ node \in CNode /\ node.held = cnode[n].held /\ node.grant = cnode[n].grant
      /\ node.fInbound = cnode[n].fInbound /\ node.direct = cnode[n].direct
      /\ node.nRefCount = opener[o].count + 1
  BY <1>2 DEF CNode
<1>4. /\ new \in Opening /\ new.pc = "connected" /\ new.node = n /\ new.grant = TRUE
  <2> DEFINE r == [opener[o] EXCEPT !.pc = "connected"]
  <2>1. opener[o] \in Opening /\ opener[o].grant = TRUE BY <1>1, OpenerType
  <2>2. r \in Opening /\ r.pc = "connected" /\ r.node = n /\ r.grant = TRUE
    BY <2>1 DEF Opening, WithNode
  <2>3. new = [r EXCEPT !.count = 0] OBVIOUS
  <2> HIDE DEF r, new, node, n
  <2> QED BY <2>2, <2>3 DEF Opening
<1>5. /\ cnode' = [cnode EXCEPT ![n] = node] /\ opener' = [opener EXCEPT ![o] = new]
      /\ UNCHANGED <<place, semOutbound, socketCopy, messageCopy>>
      /\ lost' = IF cnode[n].nRefCount = opener[o].count THEN lost ELSE lost \cup {n}
  BY DEF WriteCount, ConnInv, ConnTypes
<1> HIDE DEF node, new, n
<1>6. /\ opener'[o] = new /\ \A u \in Opener \ {o} : opener'[u] = opener[u]
      /\ cnode'[n] = node /\ \A m \in Node \ {n} : cnode'[m] = cnode[m]
  BY <1>1, <1>5 DEF ConnInv, ConnTypes
<1>7. SlotsAdd'
  <2>1. \A u \in Opener : opener'[u].grant = opener[u].grant BY <1>1, <1>4, <1>6
  <2>2. \A m \in Node : cnode'[m].grant = cnode[m].grant BY <1>3, <1>6
  <2>3. OpenersSlots' = OpenersSlots /\ NodesSlots' = NodesSlots
    BY <2>1, <2>2 DEF OpenersSlots, NodesSlots
  <2> QED BY <1>5, <2>3 DEF ConnInv, SlotsAdd
<1>8. OutboundPaid'
  <2>1. \A m \in Node : /\ cnode'[m].grant = cnode[m].grant
                        /\ cnode'[m].fInbound = cnode[m].fInbound
                        /\ cnode'[m].direct = cnode[m].direct
    BY <1>3, <1>6
  <2>2. \A m \in Node, u \in Opener : Pays(u, m) => Pays(u, m)' BY <1>1, <1>6 DEF Pays
  <2>3. vNodes' = vNodes BY <1>5 DEF vNodes
  <2>4. \A m \in vNodes : m \in Node BY DEF vNodes
  <2> QED BY <2>1, <2>2, <2>3, <2>4 DEF ConnInv, OutboundPaid, Owes
<1>9. Counted'
  <2> SUFFICES ASSUME NEW m \in Node \ lost' PROVE cnode'[m].nRefCount >= Refs(m)'
    BY DEF Counted
  <2>1. Refs(m)' = Refs(m) /\ m \in Node \ lost BY <1>5 DEF Refs
  <2>2. cnode[m].nRefCount >= Refs(m) BY <2>1 DEF ConnInv, Counted
  <2>3. CASE m = n
    <3>1. cnode[n].nRefCount = opener[o].count BY <1>5, <2>3
    <3> QED BY <1>1, <1>2, <1>3, <1>6, <2>1, <2>2, <2>3, <3>1, RefFacts DEF ConnInv
  <2>4. CASE m # n BY <1>6, <2>1, <2>2, <2>4
  <2> QED BY <2>3, <2>4
<1>10. lost \subseteq lost' /\ lost' \subseteq Node /\ semOutbound' \in Nat
  BY <1>1, <1>5 DEF ConnInv, ConnTypes
<1>11. ThreadOK(new) BY <1>1, <1>4 DEF ThreadOK, WithNode
<1> QED BY <1>1, <1>3, <1>4, <1>5, <1>7, <1>8, <1>9, <1>10, <1>11, NodeStep DEF n

LEMMA MoveToInv ==
  ASSUME ConnInv, NEW o \in Opener, MoveTo(o)
  PROVE  ConnInv'
<1> DEFINE n == opener[o].node
           node == [cnode[n] EXCEPT !.grant = TRUE]
           new == [opener[o] EXCEPT !.pc = "moved", !.grant = FALSE]
<1>1. opener[o].pc = "connected" /\ opener[o].grant = TRUE /\ n # Nil /\ n \in Node
  BY OpenerType DEF MoveTo, ThreadOK, WithNode
<1>2. cnode[n] \in CNode /\ cnode[n].grant \in BOOLEAN BY <1>1, RefFacts DEF ConnInv, CNode
<1>3. /\ node \in CNode /\ node.held = cnode[n].held /\ node.grant = TRUE
      /\ node.fInbound = cnode[n].fInbound /\ node.direct = cnode[n].direct
      /\ node.nRefCount = cnode[n].nRefCount
  BY <1>2 DEF CNode
<1>4. /\ new \in Opening /\ new.pc = "moved" /\ new.node = n /\ new.grant = FALSE
  BY <1>1, OpenerType DEF Opening, WithNode
<1>5. /\ cnode' = [cnode EXCEPT ![n] = node] /\ opener' = [opener EXCEPT ![o] = new]
      /\ UNCHANGED <<place, socketCopy, messageCopy, lost>>
      /\ semOutbound' = semOutbound + (IF cnode[n].grant THEN 1 ELSE 0)
  BY DEF MoveTo, ConnInv, ConnTypes
<1> HIDE DEF node, new, n
<1>6. /\ opener'[o] = new /\ \A u \in Opener \ {o} : opener'[u] = opener[u]
      /\ cnode'[n] = node /\ \A m \in Node \ {n} : cnode'[m] = cnode[m]
  BY <1>1, <1>5 DEF ConnInv, ConnTypes
<1>7. semOutbound \in Nat /\ semOutbound' \in Nat BY <1>5 DEF ConnInv, ConnTypes
<1>8. SlotsAdd'
  <2>1. OpenersSlots' = OpenersSlots \ {o} BY <1>4, <1>6 DEF OpenersSlots
  <2>2. NodesSlots' = NodesSlots \cup {n} BY <1>1, <1>3, <1>6 DEF NodesSlots
  <2>3. Cardinality(OpenersSlots)' = Cardinality(OpenersSlots) - 1
    BY <1>1, <2>1, OpenerLoses
  <2>4. Cardinality(NodesSlots)' =
          Cardinality(NodesSlots) + (IF cnode[n].grant = TRUE THEN 0 ELSE 1)
    BY <1>1, <2>2, NodeGains
  <2>5. semOutbound + Cardinality(OpenersSlots) + Cardinality(NodesSlots) = MaxOutbound
    BY DEF ConnInv, SlotsAdd
  <2>6. CASE cnode[n].grant = TRUE
    BY <1>5, <1>7, <2>3, <2>4, <2>5, <2>6, SlotSets DEF SlotsAdd
  <2>7. CASE cnode[n].grant = FALSE
    BY <1>5, <1>7, <2>3, <2>4, <2>5, <2>7, SlotSets DEF SlotsAdd
  <2> QED BY <1>2, <2>6, <2>7
<1>9. OutboundPaid'
  <2> SUFFICES ASSUME NEW m \in Node, m \in vNodes, cnode'[m].fInbound = FALSE,
                      cnode'[m].direct = FALSE
               PROVE  cnode'[m].grant = TRUE \/ \E u \in Opener : Pays(u, m)'
    BY <1>5 DEF OutboundPaid, Owes, vNodes
  <2>1. CASE m = n BY <1>3, <1>6, <2>1
  <2>2. CASE m # n
    <3>1. cnode[m].grant = TRUE \/ \E u \in Opener : Pays(u, m)
      BY <1>6, <2>2 DEF ConnInv, OutboundPaid, Owes
    <3>2. \A u \in Opener : Pays(u, m) => Pays(u, m)' BY <1>6, <2>2 DEF Pays, n
    <3> QED BY <1>6, <2>2, <3>1, <3>2
  <2> QED BY <2>1, <2>2
<1>10. Counted'
  <2>1. \A m \in Node : cnode'[m].nRefCount = cnode[m].nRefCount BY <1>3, <1>6
  <2> QED BY <1>5, <2>1 DEF ConnInv, Counted, Refs
<1>11. ThreadOK(new) /\ lost' \subseteq Node
  BY <1>1, <1>4, <1>5 DEF ThreadOK, Grantless, WithNode, ConnInv, ConnTypes
<1> QED BY <1>1, <1>3, <1>4, <1>5, <1>7, <1>8, <1>9, <1>10, <1>11, NodeStep DEF n

LEMMA SetNetworkNodeInv ==
  ASSUME ConnInv, NEW o \in Opener, SetNetworkNode(o)
  PROVE  ConnInv'
<1> DEFINE n == opener[o].node
           node == [cnode[n] EXCEPT !.fNetworkNode = TRUE]
<1>1. opener[o].grant # TRUE /\ n # Nil /\ n \in Node
  BY OpenerType DEF SetNetworkNode, ThreadOK, WithNode
<1>2. cnode[n] \in CNode BY <1>1, RefFacts DEF ConnInv
<1>3. /\ node \in CNode /\ node.held = cnode[n].held /\ node.grant = cnode[n].grant
      /\ node.fInbound = cnode[n].fInbound /\ node.direct = cnode[n].direct
      /\ node.nRefCount = cnode[n].nRefCount
  BY <1>2 DEF CNode
<1>4. Idle \in Opening /\ Idle.pc = "idle" /\ Idle.node = Nil /\ Idle.grant = FALSE
  BY DEF Idle, Opening, Addr, Dest
<1>5. /\ cnode' = [cnode EXCEPT ![n] = node] /\ opener' = [opener EXCEPT ![o] = Idle]
      /\ UNCHANGED <<place, semOutbound, socketCopy, messageCopy, lost>>
  BY DEF SetNetworkNode, ConnInv, ConnTypes
<1> HIDE DEF node, n
<1>6. /\ opener'[o] = Idle /\ \A u \in Opener \ {o} : opener'[u] = opener[u]
      /\ cnode'[n] = node /\ \A m \in Node \ {n} : cnode'[m] = cnode[m]
  BY <1>1, <1>5 DEF ConnInv, ConnTypes
<1>7. \A m \in Node : /\ cnode'[m].grant = cnode[m].grant
                      /\ cnode'[m].fInbound = cnode[m].fInbound
                      /\ cnode'[m].direct = cnode[m].direct
                      /\ cnode'[m].nRefCount = cnode[m].nRefCount
  BY <1>3, <1>6
<1>8. SlotsAdd'
  <2>1. \A u \in Opener : opener'[u].grant = TRUE <=> opener[u].grant = TRUE
    BY <1>1, <1>4, <1>6
  <2>2. OpenersSlots' = OpenersSlots /\ NodesSlots' = NodesSlots
    BY <1>7, <2>1 DEF OpenersSlots, NodesSlots
  <2> QED BY <1>5, <2>2 DEF ConnInv, SlotsAdd
<1>9. OutboundPaid'
  <2>1. \A m \in Node, u \in Opener : Pays(u, m) => Pays(u, m)' BY <1>1, <1>6 DEF Pays
  <2>2. vNodes' = vNodes BY <1>5 DEF vNodes
  <2>3. \A m \in vNodes : m \in Node BY DEF vNodes
  <2> QED BY <1>7, <2>1, <2>2, <2>3 DEF ConnInv, OutboundPaid, Owes
<1>10. Counted' BY <1>5, <1>7 DEF ConnInv, Counted, Refs
<1>11. /\ ThreadOK(Idle) /\ lost' \subseteq Node /\ lost \subseteq lost'
       /\ semOutbound' \in Nat
  BY <1>4, <1>5 DEF ThreadOK, Grantless, WithNode, ConnInv, ConnTypes
<1> QED BY <1>1, <1>3, <1>4, <1>5, <1>8, <1>9, <1>10, <1>11, NodeStep DEF n

-----------------------------------------------------------------------------
(* A node ends                                                             *)

LEMMA NodeReleases ==
  ASSUME ConnInv, NEW n \in Node, OpenersSlots' = OpenersSlots,
         NodesSlots' = NodesSlots \ {n},
         semOutbound' = semOutbound + (IF cnode[n].grant THEN 1 ELSE 0)
  PROVE  SlotsAdd' /\ semOutbound' \in Nat
<1>1. Cardinality(NodesSlots)' =
        Cardinality(NodesSlots) - (IF cnode[n].grant = TRUE THEN 1 ELSE 0)
  BY NodeLoses
<1>2. semOutbound \in Nat /\ cnode[n].grant \in BOOLEAN
  BY RefFacts DEF ConnInv, ConnTypes, CNode
<1>3. semOutbound + Cardinality(OpenersSlots) + Cardinality(NodesSlots) = MaxOutbound
  BY DEF ConnInv, SlotsAdd
<1>4. CASE cnode[n].grant = TRUE BY <1>1, <1>2, <1>3, <1>4, SlotSets DEF SlotsAdd
<1>5. CASE cnode[n].grant = FALSE BY <1>1, <1>2, <1>3, <1>5, SlotSets DEF SlotsAdd
<1> QED BY <1>2, <1>4, <1>5

LEMMA DisconnectInv ==
  ASSUME ConnInv, NEW n \in Node, Disconnect(n)
  PROVE  ConnInv'
<1> DEFINE count == cnode[n].nRefCount - (IF FirstRef(n) THEN 1 ELSE 0)
           node == [cnode[n] EXCEPT !.fDisconnect = TRUE, !.held = TRUE, !.grant = FALSE,
                                    !.nRefCount = count]
<1>1. cnode[n] \in CNode /\ cnode[n].nRefCount \in Int BY RefFacts DEF ConnInv
<1>2. count \in Int /\ count >= cnode[n].nRefCount - 1 BY <1>1
<1>3. /\ cnode' = [cnode EXCEPT ![n] = node] /\ n \in vNodes /\ socketCopy = {}
      /\ place' = [place EXCEPT ![n] = "vNodesDisconnected"]
      /\ semOutbound' = semOutbound + (IF cnode[n].grant THEN 1 ELSE 0)
      /\ UNCHANGED <<opener, socketCopy, messageCopy, lost>>
  BY DEF Disconnect, ConnInv, ConnTypes
<1> HIDE DEF count
<1>4. node \in CNode /\ node.held = TRUE /\ node.grant = FALSE /\ node.nRefCount = count
  BY <1>1, <1>2 DEF CNode
<1> HIDE DEF node
<1>5. /\ cnode'[n] = node /\ \A m \in Node \ {n} : cnode'[m] = cnode[m]
      /\ place'[n] = "vNodesDisconnected" /\ \A m \in Node \ {n} : place'[m] = place[m]
      /\ place[n] = "vNodes"
  BY <1>3 DEF ConnInv, ConnTypes, vNodes
<1>6. SlotsAdd' /\ semOutbound' \in Nat
  <2>1. NodesSlots' = NodesSlots \ {n} BY <1>4, <1>5 DEF NodesSlots
  <2>2. OpenersSlots' = OpenersSlots BY <1>3 DEF OpenersSlots
  <2> QED BY <1>3, <2>1, <2>2, NodeReleases
<1>7. ConnTypes' BY <1>3, <1>4, <1>6 DEF ConnInv, ConnTypes, Places
<1>8. OpenersOK' BY <1>3 DEF ConnInv, OpenersOK
<1>9. UnbornUnused' BY <1>3, <1>5 DEF ConnInv, UnbornUnused
<1>10. OutboundPaid'
  <2>1. vNodes' = vNodes \ {n} BY <1>5 DEF vNodes
  <2>2. \A m \in vNodes : m \in Node BY DEF vNodes
  <2>3. \A u, m : Pays(u, m)' <=> Pays(u, m) BY <1>3 DEF Pays
  <2> QED BY <1>3, <1>5, <2>1, <2>2, <2>3 DEF ConnInv, OutboundPaid, Owes
<1>11. Counted'
  <2> SUFFICES ASSUME NEW m \in Node \ lost PROVE cnode'[m].nRefCount >= Refs(m)'
    BY <1>3 DEF Counted
  <2>1. cnode[m].nRefCount >= Refs(m) BY DEF ConnInv, Counted
  <2>2. CASE m = n
    <3>1. Refs(n)' = Refs(n) - 1 BY <1>3, <1>5 DEF Refs, One
    <3> QED BY <1>1, <1>2, <1>4, <1>5, <2>1, <2>2, <3>1, RefFacts DEF ConnInv
  <2>3. CASE m # n
    <3>1. Refs(m)' = Refs(m) BY <1>3, <1>5, <2>3 DEF Refs
    <3> QED BY <1>5, <2>1, <2>3, <3>1
  <2> QED BY <2>2, <2>3
<1>12. LetGo'
  <2>1. \A m \in Node : place'[m] = "vNodesDisconnected" /\ cnode'[m].held = FALSE
          => m # n
    BY <1>4, <1>5
  <2> QED BY <1>3, <1>5, <2>1 DEF ConnInv, LetGo, Pool
<1>13. NoUseAfterDelete' BY <1>3, <1>5 DEF ConnInv, NoUseAfterDelete, Using
<1> QED BY <1>6, <1>7, <1>8, <1>9, <1>10, <1>11, <1>12, <1>13 DEF ConnInv

LEMMA DeleteInv ==
  ASSUME ConnInv, NEW n \in Node, Delete(n)
  PROVE  ConnInv'
<1>1. cnode[n] \in CNode /\ cnode[n].nRefCount \in Int /\ cnode[n].held \in BOOLEAN
  BY RefFacts DEF ConnInv, CNode
<1>2. /\ cnode' = [cnode EXCEPT ![n] = Unborn] /\ n \in Pool /\ socketCopy = {}
      /\ ~cnode[n].held /\ Deletable(n)
      /\ place' = [place EXCEPT ![n] = "deleted"]
      /\ semOutbound' = semOutbound + (IF cnode[n].grant THEN 1 ELSE 0)
      /\ UNCHANGED <<opener, socketCopy, messageCopy, lost>>
  BY DEF Delete, ConnInv, ConnTypes
<1>3. Unborn \in CNode /\ Unborn.grant = FALSE /\ Unborn.nRefCount = 0
  BY DEF Unborn, CNode, Addr, Dest
<1>4. /\ cnode'[n] = Unborn /\ \A m \in Node \ {n} : cnode'[m] = cnode[m]
      /\ place'[n] = "deleted" /\ \A m \in Node \ {n} : place'[m] = place[m]
      /\ place[n] = "vNodesDisconnected"
  BY <1>2 DEF ConnInv, ConnTypes, Pool
<1>5. SlotsAdd' /\ semOutbound' \in Nat
  <2>1. NodesSlots' = NodesSlots \ {n} BY <1>3, <1>4 DEF NodesSlots
  <2>2. OpenersSlots' = OpenersSlots BY <1>2 DEF OpenersSlots
  <2> QED BY <1>2, <2>1, <2>2, NodeReleases
<1>6. ConnTypes' BY <1>2, <1>3, <1>5 DEF ConnInv, ConnTypes, Places
<1>7. OpenersOK' BY <1>2 DEF ConnInv, OpenersOK
<1>8. UnbornUnused' BY <1>2, <1>4 DEF ConnInv, UnbornUnused
<1>9. OutboundPaid'
  <2>1. vNodes' = vNodes BY <1>4 DEF vNodes
  <2>2. \A m \in vNodes : m \in Node /\ m # n BY <1>4 DEF vNodes
  <2>3. \A u, m : Pays(u, m)' <=> Pays(u, m) BY <1>2 DEF Pays
  <2> QED BY <1>2, <1>4, <2>1, <2>2, <2>3 DEF ConnInv, OutboundPaid, Owes
<1>13. n \notin lost => Refs(n) = 0
  <2>1. cnode[n].nRefCount <= 0 BY <1>1, <1>2 DEF Deletable, GetRefCount, PosCount
  <2> QED BY <1>1, <2>1, RefFacts DEF ConnInv, Counted
<1>10. Counted'
  <2>1. \A m \in Node : Refs(m)' = Refs(m) BY <1>2, <1>4 DEF Refs
  <2> QED BY <1>2, <1>3, <1>4, <1>13, <2>1 DEF ConnInv, Counted
<1>11. LetGo' BY <1>2, <1>4 DEF ConnInv, LetGo, Pool
<1>12. NoUseAfterDelete'
  <2> SUFFICES ASSUME NEW m \in Node \ lost, place'[m] = "deleted" PROVE ~Using(m)
    BY <1>2 DEF NoUseAfterDelete, Using
  <2>1. CASE m = n
    <3>2. Refs(n) = 0 BY <1>13, <2>1
    <3>3. n \notin socketCopy /\ n \notin messageCopy BY <3>2 DEF Refs, One
    <3>4. \A o \in Opener : opener[o].node # n
      BY <1>1, <1>2 DEF ConnInv, LetGo
    <3> QED BY <2>1, <3>3, <3>4 DEF Using
  <2>2. CASE m # n BY <1>4, <2>2 DEF ConnInv, NoUseAfterDelete
  <2> QED BY <2>1, <2>2
<1> QED BY <1>5, <1>6, <1>7, <1>8, <1>9, <1>10, <1>11, <1>12 DEF ConnInv

LEMMA HoldEndsInv ==
  ASSUME ConnInv, NEW n \in Node, HoldEnds(n)
  PROVE  ConnInv'
<1> DEFINE node == [cnode[n] EXCEPT !.held = FALSE]
<1>1. cnode[n] \in CNode BY RefFacts DEF ConnInv
<1>2. /\ cnode' = [cnode EXCEPT ![n] = node] /\ \A o \in Opener : opener[o].node # n
      /\ UNCHANGED <<place, semOutbound, opener, socketCopy, messageCopy, lost>>
  BY DEF HoldEnds, ConnInv, ConnTypes
<1>3. /\ node \in CNode /\ node.grant = cnode[n].grant /\ node.fInbound = cnode[n].fInbound
      /\ node.direct = cnode[n].direct /\ node.nRefCount = cnode[n].nRefCount
  BY <1>1 DEF CNode
<1> HIDE DEF node
<1>4. cnode'[n] = node /\ \A m \in Node \ {n} : cnode'[m] = cnode[m]
  BY <1>2 DEF ConnInv, ConnTypes
<1>5. \A m \in Node : /\ cnode'[m].grant = cnode[m].grant
                      /\ cnode'[m].fInbound = cnode[m].fInbound
                      /\ cnode'[m].direct = cnode[m].direct
                      /\ cnode'[m].nRefCount = cnode[m].nRefCount
  BY <1>3, <1>4
<1>6. ConnTypes' BY <1>2, <1>3 DEF ConnInv, ConnTypes
<1>7. OpenersOK' BY <1>2 DEF ConnInv, OpenersOK
<1>8. UnbornUnused' BY <1>2, <1>5 DEF ConnInv, UnbornUnused
<1>9. SlotsAdd'
  <2>1. OpenersSlots' = OpenersSlots /\ NodesSlots' = NodesSlots
    BY <1>2, <1>5 DEF OpenersSlots, NodesSlots
  <2> QED BY <1>2, <2>1 DEF ConnInv, SlotsAdd
<1>10. OutboundPaid'
  <2>1. vNodes' = vNodes BY <1>2 DEF vNodes
  <2>2. \A m \in vNodes : m \in Node BY DEF vNodes
  <2>3. \A u, m : Pays(u, m)' <=> Pays(u, m) BY <1>2 DEF Pays
  <2> QED BY <1>5, <2>1, <2>2, <2>3 DEF ConnInv, OutboundPaid, Owes
<1>11. Counted' BY <1>2, <1>5 DEF ConnInv, Counted, Refs
<1>12. LetGo' BY <1>2, <1>4 DEF ConnInv, LetGo, Pool
<1>13. NoUseAfterDelete' BY <1>2 DEF ConnInv, NoUseAfterDelete, Using
<1> QED BY <1>6, <1>7, <1>8, <1>9, <1>10, <1>11, <1>12, <1>13 DEF ConnInv

-----------------------------------------------------------------------------
LEMMA ConnNextInv == ConnInv /\ [ConnNext]_connVars => ConnInv'
<1> SUFFICES ASSUME ConnInv, [ConnNext]_connVars PROVE ConnInv' OBVIOUS
<1>1. ASSUME NEW o \in Opener, Open(o) PROVE ConnInv'
  BY <1>1, AcquireSlotInv, LookInv, WriteCountInv, ConnectInv, MoveToInv, SetNetworkNodeInv
     DEF Open
<1>2. ASSUME Socket PROVE ConnInv'
  BY <1>2, RefsInv, AcceptInv, ClosesInv, DisconnectInv, DeleteInv DEF Socket
<1>3. ASSUME MessageThread PROVE ConnInv' BY <1>3, RefsInv, ClosesInv DEF MessageThread
<1>4. ASSUME NEW n \in Node, HoldEnds(n) PROVE ConnInv' BY <1>4, HoldEndsInv
<1>5. CASE UNCHANGED connVars
  BY <1>5 DEF connVars, ConnInv, ConnTypes, OpenersOK, UnbornUnused, SlotsAdd, OpenersSlots,
     NodesSlots, OutboundPaid, Owes, Pays, Counted, Refs, LetGo, NoUseAfterDelete, Using,
     vNodes, Pool
<1> QED BY <1>1, <1>2, <1>3, <1>4, <1>5 DEF ConnNext

LEMMA AlwaysConnInv == ConnSpec => []ConnInv
BY InitConn, ConnNextInv, PTL DEF ConnSpec

-----------------------------------------------------------------------------
(* The loop over -connect: one thread runs it, and no connection it opened *)
(* has the name that it is opening.                                        *)
Loops(o) == opener[o].pc = "connecting" /\ opener[o].grant = FALSE
LoopsAlone(o) ==
  /\ o = Connector /\ opener[o].name \in connectTo
  /\ \A n \in Named(opener[o].name) : cnode[n].direct = FALSE
LoopInv ==
  /\ \A o \in Opener : Loops(o) => LoopsAlone(o)
  /\ OnePerName

Same(n) == cnode'[n].direct = cnode[n].direct /\ cnode'[n].addrName = cnode[n].addrName

LEMMA InitLoop == ConnInit => LoopInv
BY DEF ConnInit, LoopInv, Loops, OnePerName, vNodes, Idle

(* A step that adds no node, and whose thread begins no connection without *)
(* a slot but as the loop does.                                            *)
LEMMA LoopStep ==
  ASSUME LoopInv, connectTo' = connectTo, vNodes' \subseteq vNodes,
         \A n \in vNodes' : Same(n),
         \A o \in Opener : Loops(o)' =>
           \/ Loops(o) /\ opener'[o].name = opener[o].name
           \/ /\ o = Connector /\ opener'[o].name \in connectTo
              /\ Named(opener'[o].name) = {}
  PROVE  LoopInv'
<1>1. \A name : Named(name)' \subseteq Named(name) BY DEF Named, Same
<1>2. \A name : \A n \in Named(name)' : n \in vNodes' BY DEF Named
<1>3. ASSUME NEW o \in Opener, Loops(o)' PROVE LoopsAlone(o)'
  <2>1. CASE Loops(o) /\ opener'[o].name = opener[o].name
    BY <1>1, <1>2, <2>1 DEF LoopInv, LoopsAlone, Same
  <2>2. CASE o = Connector /\ opener'[o].name \in connectTo /\ Named(opener'[o].name) = {}
    BY <1>1, <2>2 DEF LoopsAlone
  <2> QED BY <1>3, <2>1, <2>2
<1>4. OnePerName' BY <1>1, <1>2 DEF LoopInv, OnePerName, Same
<1> QED BY <1>3, <1>4 DEF LoopInv

LEMMA OpenersSame ==
  ASSUME ConnInv, LoopInv, connectTo' = connectTo, vNodes' \subseteq vNodes,
         \A n \in vNodes' : Same(n), NEW o \in Opener, opener'[o].pc # "connecting",
         \A u \in Opener \ {o} : opener'[u] = opener[u]
  PROVE  LoopInv'
<1>1. \A u \in Opener : Loops(u)' => Loops(u) /\ opener'[u].name = opener[u].name
  BY DEF Loops
<1> QED BY <1>1, LoopStep

LEMMA OpenLoop ==
  ASSUME ConnInv, LoopInv, connectTo' = connectTo, NEW o \in Opener,
         Open(o), ~Connect(o)
  PROVE  LoopInv'
<1> DEFINE Others == \A u \in Opener \ {o} : opener'[u] = opener[u]
           Still == vNodes' = vNodes /\ \A n \in vNodes' : Same(n)
<1>1. opener \in [Opener -> Opening] /\ opener[o] \in Opening /\ cnode \in [Node -> CNode]
  BY DEF ConnInv, ConnTypes
<1>2. UNCHANGED <<place, cnode>> => Still BY DEF vNodes, Same
<1>3. ASSUME GiveUp(o) PROVE LoopInv'
  <2>1. opener'[o] = Idle /\ Others BY <1>1, <1>3 DEF GiveUp
  <2>2. Idle.pc = "idle" BY DEF Idle
  <2> QED BY <1>2, <1>3, <2>1, <2>2, OpenersSame DEF GiveUp
<1>4. CASE AcquireSlot(o)
  <2>1. opener'[o].pc = "granted" /\ Others BY <1>1, <1>4 DEF AcquireSlot, Opening
  <2> QED BY <1>2, <1>4, <2>1, OpenersSame DEF AcquireSlot
<1>5. CASE \E addr \in OutAddr : OpenNetworkConnection(o, addr)
  <2>1. CASE ~GiveUp(o)
    <3>1. opener'[o].pc = "checked" /\ Others
      BY <1>1, <1>5, <2>1 DEF OpenNetworkConnection, Opening
    <3> QED BY <1>2, <1>5, <2>1, <3>1, OpenersSame DEF OpenNetworkConnection
  <2> QED BY <1>3, <2>1
<1>6. ASSUME NEW name \in Name, OpenByName(o, name) PROVE LoopInv'
  <2>1. ASSUME ~GiveUp(o) PROVE LoopInv'
    <3>1. PICK addr \in Resolve[name] :
            opener' = [opener EXCEPT ![o].pc = "connecting", ![o].addr = addr,
                                     ![o].name = name]
      BY <1>6, <2>1 DEF OpenByName
    <3>2. Named(name) = {} /\ UNCHANGED <<place, cnode>> BY <1>6, <2>1 DEF OpenByName
    <3>3. opener'[o].grant = opener[o].grant /\ opener'[o].name = name /\ Others
      BY <1>1, <3>1 DEF Opening
    <3>4. opener[o].grant = FALSE => o = Connector /\ name \in connectTo
      BY <1>6, OpenerType DEF OpenByName, ThreadOK, Grantless
    <3>5. ASSUME NEW u \in Opener, Loops(u)'
          PROVE  \/ Loops(u) /\ opener'[u].name = opener[u].name
                 \/ /\ u = Connector /\ opener'[u].name \in connectTo
                    /\ Named(opener'[u].name) = {}
      <4>1. CASE u = o BY <3>2, <3>3, <3>4, <3>5, <4>1 DEF Loops
      <4>2. CASE u # o BY <3>3, <3>5, <4>2 DEF Loops
      <4> QED BY <4>1, <4>2
    <3> QED BY <1>2, <3>2, <3>5, LoopStep
  <2> QED BY <1>3, <2>1
<1>7. CASE FindNode(o)
  <2>1. CASE \E n \in Known(opener[o].addr) :
               opener' = [opener EXCEPT ![o].pc = "found", ![o].node = n]
    <3>1. opener'[o].pc = "found" /\ Others BY <1>1, <2>1 DEF Opening
    <3> QED BY <1>2, <1>7, <3>1, OpenersSame DEF FindNode
  <2>2. CASE opener' = [opener EXCEPT ![o].pc = "connecting"]
    <3>1. opener'[o].grant = opener[o].grant /\ Others BY <1>1, <2>2 DEF Opening
    <3>2. opener[o].grant # FALSE BY <1>7, OpenerType DEF FindNode, ThreadOK, Grantless
    <3>3. \A u \in Opener : Loops(u)' => Loops(u) /\ opener'[u].name = opener[u].name
      BY <3>1, <3>2 DEF Loops
    <3> QED BY <1>2, <1>7, <3>3, LoopStep DEF FindNode
  <2> QED BY <1>7, <2>1, <2>2 DEF FindNode
<1>8. CASE ReadCount(o)
  <2>1. opener'[o].pc = "counting" /\ Others BY <1>1, <1>8 DEF ReadCount, Opening
  <2> QED BY <1>2, <1>8, <2>1, OpenersSame DEF ReadCount
<1>9. CASE WriteCount(o)
  <2>1. opener'[o].pc = "connected" /\ Others BY <1>1, <1>9 DEF WriteCount, Opening
  <2>2. Still BY <1>1, <1>9 DEF WriteCount, vNodes, Same, CNode
  <2> QED BY <2>1, <2>2, OpenersSame
<1>10. CASE MoveTo(o)
  <2>1. opener'[o].pc = "moved" /\ Others BY <1>1, <1>10 DEF MoveTo, Opening
  <2>2. Still BY <1>1, <1>10 DEF MoveTo, vNodes, Same, CNode
  <2> QED BY <2>1, <2>2, OpenersSame
<1>11. CASE SetNetworkNode(o)
  <2>1. opener'[o] = Idle /\ Others BY <1>1, <1>11 DEF SetNetworkNode
  <2>2. Still BY <1>1, <1>11 DEF SetNetworkNode, vNodes, Same, CNode
  <2>3. Idle.pc = "idle" BY DEF Idle
  <2> QED BY <2>1, <2>2, <2>3, OpenersSame
<1> QED BY <1>4, <1>5, <1>6, <1>7, <1>8, <1>9, <1>10, <1>11 DEF Open

(* A node that the loop adds is the only one of its name; one that another *)
(* connection adds is not the loop's.                                      *)
LEMMA NewNodeLoop ==
  ASSUME ConnInv, LoopInv, connectTo' = connectTo, NEW n \in Node, NEW addr, NEW name,
         NEW fInbound, NEW direct \in BOOLEAN, NewNode(n, addr, name, fInbound, direct),
         \A u \in Opener : Loops(u)' => Loops(u) /\ opener'[u].name = opener[u].name,
         direct = TRUE =>
           /\ name \in connectTo /\ \A m \in Named(name) : cnode[m].direct = FALSE
           /\ \A u \in Opener : ~Loops(u)'
  PROVE  LoopInv'
<1> DEFINE u0 == [Unborn EXCEPT !.addr = addr, !.addrName = name, !.fInbound = fInbound,
                                !.nRefCount = 1, !.direct = direct]
<1>1. u0.direct = direct /\ u0.addrName = name BY DEF Unborn
<1> HIDE DEF u0
<1>2. /\ place[n] = "none" /\ cnode'[n] = u0 /\ \A m \in Node \ {n} : cnode'[m] = cnode[m]
      /\ vNodes' = vNodes \cup {n} /\ n \notin vNodes /\ vNodes \subseteq Node
  BY DEF NewNode, ConnInv, ConnTypes, vNodes, u0
<1>3. \A m \in vNodes : m # n /\ cnode'[m] = cnode[m] BY <1>2
<1>4. \A d : Named(d)' = Named(d) \cup (IF d = name THEN {n} ELSE {})
  BY <1>1, <1>2, <1>3 DEF Named
<1>5. ASSUME NEW o \in Opener, Loops(o)' PROVE LoopsAlone(o)'
  <2>1. Loops(o) /\ opener'[o].name = opener[o].name /\ direct = FALSE BY <1>5
  <2>2. LoopsAlone(o) BY <2>1 DEF LoopInv
  <2>3. \A m \in Named(opener[o].name)' : cnode'[m].direct = FALSE
    <3> TAKE m \in Named(opener[o].name)'
    <3>1. m \in Named(opener[o].name) \cup {n} BY <1>4, <2>1
    <3>2. CASE m = n BY <1>1, <1>2, <2>1, <3>2
    <3>3. CASE m \in Named(opener[o].name)
      BY <1>3, <2>2, <3>3 DEF LoopsAlone, Named
    <3> QED BY <3>1, <3>2, <3>3
  <2> QED BY <2>1, <2>2, <2>3 DEF LoopsAlone
<1>6. OnePerName'
  <2> SUFFICES ASSUME NEW m \in vNodes', cnode'[m].direct
               PROVE  /\ cnode'[m].addrName \in connectTo
                      /\ \A k \in Named(cnode[m].addrName)' : cnode'[k].direct => k = m
    BY DEF OnePerName
  <2>1. CASE m = n
    <3>1. direct = TRUE /\ cnode'[m].addrName = name BY <1>1, <1>2, <2>1
    <3>2. \A k \in Named(name) : cnode'[k].direct = FALSE BY <1>3, <3>1 DEF Named
    <3> QED BY <1>4, <2>1, <3>1, <3>2
  <2>2. CASE m # n
    <3>1. m \in vNodes /\ cnode'[m] = cnode[m] BY <1>2, <2>2
    <3>2. /\ cnode[m].addrName \in connectTo
          /\ \A k \in Named(cnode[m].addrName) : cnode[k].direct => k = m
      BY <3>1 DEF LoopInv, OnePerName
    <3>3. cnode[m].addrName = name => ~direct
      <4>1. m \in Named(cnode[m].addrName) BY <3>1 DEF Named
      <4> QED BY <3>1, <4>1
    <3>4. cnode'[n].direct => cnode[m].addrName # name BY <1>1, <1>2, <3>3
    <3>5. \A k \in Named(cnode[m].addrName) : cnode'[k] = cnode[k] BY <1>3 DEF Named
    <3> QED BY <1>4, <3>1, <3>2, <3>4, <3>5
  <2> QED BY <2>1, <2>2
<1> QED BY <1>5, <1>6 DEF LoopInv

LEMMA ConnectLoop ==
  ASSUME ConnInv, LoopInv, connectTo' = connectTo, NEW o \in Opener, Connect(o)
  PROVE  LoopInv'
<1>1. opener \in [Opener -> Opening] /\ opener[o] \in Opening /\ opener[o].grant \in BOOLEAN
  BY OpenerType DEF ConnInv, ConnTypes
<1>2. CASE GiveUp(o)
  <2>1. opener'[o] = Idle /\ \A u \in Opener \ {o} : opener'[u] = opener[u]
    BY <1>1, <1>2 DEF GiveUp
  <2>2. vNodes' = vNodes /\ \A n \in vNodes' : Same(n) BY <1>2 DEF GiveUp, vNodes, Same
  <2>3. Idle.pc = "idle" BY DEF Idle
  <2> QED BY <2>1, <2>2, <2>3, OpenersSame
<1>3. ASSUME NEW n \in Node,
             NewNode(n, opener[o].addr, opener[o].name, FALSE, ~opener[o].grant),
             opener' = [opener EXCEPT ![o].pc = "connected", ![o].node = n]
      PROVE  LoopInv'
  <2>1. opener'[o].pc = "connected" /\ \A u \in Opener \ {o} : opener'[u] = opener[u]
    BY <1>1, <1>3 DEF Opening
  <2>2. \A u \in Opener : Loops(u)' => u # o /\ Loops(u) /\ opener'[u].name = opener[u].name
    BY <2>1 DEF Loops
  <2>3. ASSUME (~opener[o].grant) = TRUE
        PROVE  /\ opener[o].name \in connectTo
               /\ \A m \in Named(opener[o].name) : cnode[m].direct = FALSE
               /\ \A u \in Opener : ~Loops(u)'
    <3>1. Loops(o) BY <1>1, <2>3 DEF Connect, Loops
    <3>2. LoopsAlone(o) BY <3>1 DEF LoopInv
    <3>3. \A u \in Opener : Loops(u) => u = o BY <3>2 DEF LoopInv, LoopsAlone
    <3> QED BY <2>2, <3>2, <3>3 DEF LoopsAlone
  <2>4. (~opener[o].grant) \in BOOLEAN OBVIOUS
  <2> QED BY <1>3, <2>2, <2>3, <2>4, NewNodeLoop
<1> QED BY <1>2, <1>3 DEF Connect

LEMMA SocketLoop ==
  ASSUME ConnInv, LoopInv, connectTo' = connectTo,
         Socket \/ MessageThread \/ \E n \in Node : HoldEnds(n)
  PROVE  LoopInv'
<1>1. cnode \in [Node -> CNode] /\ place \in [Node -> Places] BY DEF ConnInv, ConnTypes
<1>2. ASSUME NEW addr \in InAddr, Accept(addr) PROVE LoopInv'
  <2>1. PICK n \in Node : NewNode(n, addr, addr, TRUE, FALSE) BY <1>2 DEF Accept
  <2>2. \A u \in Opener : Loops(u)' => Loops(u) /\ opener'[u].name = opener[u].name
    BY <1>2 DEF Accept, Loops
  <2> QED BY <2>1, <2>2, NewNodeLoop
<1>3. ASSUME vNodes' \subseteq vNodes, opener' = opener, \A n \in vNodes' : Same(n)
      PROVE  LoopInv'
  <2>1. \A u \in Opener : Loops(u)' => Loops(u) /\ opener'[u].name = opener[u].name
    BY <1>3 DEF Loops
  <2> QED BY <1>3, <2>1, LoopStep
<1>4. ASSUME NEW copy, NEW d \in Int, cnode' = WithRefs(copy, d), UNCHANGED <<place, opener>>
      PROVE  LoopInv'
  <2>1. \A n \in Node : Same(n) BY <1>1, <1>4 DEF WithRefs, Same, CNode
  <2>2. vNodes' = vNodes /\ vNodes \subseteq Node BY <1>4 DEF vNodes
  <2> QED BY <1>3, <1>4, <2>1, <2>2
<1>5. ASSUME SocketBegin \/ SocketEnd \/ MessageBegin \/ MessageEnd PROVE LoopInv'
  BY <1>4, <1>5 DEF SocketBegin, SocketEnd, MessageBegin, MessageEnd
<1>6. ASSUME NEW n \in Node, SocketCloses(n) \/ MessageCloses(n) \/ HoldEnds(n) PROVE LoopInv'
  <2>1. /\ \/ cnode' = [cnode EXCEPT ![n].fDisconnect = TRUE]
           \/ cnode' = [cnode EXCEPT ![n].held = FALSE]
        /\ UNCHANGED <<place, opener>>
    BY <1>6 DEF SocketCloses, MessageCloses, HoldEnds
  <2>2. \A m \in Node : Same(m) BY <1>1, <2>1 DEF Same, CNode
  <2>3. vNodes' = vNodes /\ vNodes \subseteq Node BY <2>1 DEF vNodes
  <2> QED BY <1>3, <2>1, <2>2, <2>3
<1>7. ASSUME NEW n \in Node, Disconnect(n) \/ Delete(n) PROVE LoopInv'
  <2>1. /\ \A m \in Node \ {n} : cnode'[m] = cnode[m] /\ place'[m] = place[m]
        /\ place'[n] # "vNodes" /\ opener' = opener
    BY <1>1, <1>7 DEF Disconnect, Delete
  <2>2. vNodes' \subseteq vNodes /\ \A m \in vNodes' : Same(m) BY <2>1 DEF vNodes, Same
  <2> QED BY <1>3, <2>1, <2>2
<1> QED BY <1>2, <1>5, <1>6, <1>7 DEF Socket, MessageThread

LEMMA LoopNextInv == ConnInv /\ LoopInv /\ [ConnNext]_connVars => LoopInv'
<1> SUFFICES ASSUME ConnInv, LoopInv, [ConnNext]_connVars PROVE LoopInv' OBVIOUS
<1>1. CASE ConnNext BY <1>1, OpenLoop, ConnectLoop, SocketLoop DEF ConnNext
<1>2. CASE UNCHANGED connVars
  <2>1. /\ connectTo' = connectTo /\ vNodes' \subseteq vNodes /\ \A n \in vNodes' : Same(n)
        /\ \A u \in Opener : Loops(u)' => Loops(u) /\ opener'[u].name = opener[u].name
    BY <1>2 DEF connVars, vNodes, Same, Loops
  <2> QED BY <2>1, LoopStep
<1> QED BY <1>1, <1>2

LEMMA AlwaysLoopInv == ConnSpec => []LoopInv
BY InitLoop, AlwaysConnInv, LoopNextInv, PTL DEF ConnSpec

(* At most as many outbound connections as slots, and one more for each    *)
(* name of -connect, for any number of threads that open connections: each *)
(* connection that the loop over -connect did not open has its slot, or    *)
(* the thread that is about to give it one, and the loop opens none while  *)
(* there is one of that name.                                              *)
THEOREM OutboundLimited == ConnSpec => []OutboundWithinLimit
<1>1. ASSUME ConnInv PROVE OnePerSlot
  <2> DEFINE out == {n \in vNodes : ~cnode[n].fInbound /\ ~cnode[n].direct}
             unpaid == out \ NodesSlots
             payer == [n \in unpaid |-> CHOOSE o \in Opener : Pays(o, n)]
  <2>1. out \subseteq Node /\ IsFiniteSet(out) /\ Cardinality(out) \in Nat
    <3>1. out \subseteq Node BY DEF vNodes
    <3> QED BY <3>1, FS_Subset, FS_CardinalityType, ConnectionsAssumption
  <2>2. \A n \in unpaid : \E o \in Opener : Pays(o, n)
    <3> TAKE n \in unpaid
    <3>1. n \in vNodes /\ n \in Node /\ Owes(n)
      BY <1>1 DEF vNodes, ConnInv, ConnTypes, CNode, Owes
    <3>2. cnode[n].grant # TRUE BY <3>1 DEF NodesSlots
    <3> QED BY <1>1, <3>1, <3>2 DEF ConnInv, OutboundPaid
  <2>3. \A n \in unpaid : payer[n] \in Opener /\ Pays(payer[n], n) BY <2>2
  <2>4. \A n \in unpaid : payer[n] \in OpenersSlots
    <3> TAKE n \in unpaid
    <3>1. payer[n] \in Opener /\ opener[payer[n]].grant = TRUE BY <2>3 DEF Pays
    <3> QED BY <3>1 DEF OpenersSlots
  <2>14. \A n \in unpaid : opener[payer[n]].node = n BY <2>3 DEF Pays
  <2> HIDE DEF payer
  <2>5. \A m, n \in unpaid : payer[m] = payer[n] => m = n BY <2>14
  <2>6. payer \in Injection(unpaid, OpenersSlots)
    <3>1. payer \in [unpaid -> OpenersSlots] BY <2>4 DEF payer
    <3> QED BY <2>5, <3>1 DEF Injection, IsInjective
  <2> HIDE DEF unpaid
  <2>7. IsFiniteSet(unpaid) /\ Cardinality(unpaid) <= Cardinality(OpenersSlots)
    BY <2>6, SlotSets, FS_Injection
  <2>8. Cardinality(unpaid) \in Nat BY <2>7, FS_CardinalityType
  <2>9. out = unpaid \cup (out \cap NodesSlots) BY DEF unpaid
  <2> HIDE DEF out
  <2>10. /\ IsFiniteSet(out \cap NodesSlots)
         /\ Cardinality(out \cap NodesSlots) <= Cardinality(NodesSlots)
         /\ Cardinality(out \cap NodesSlots) \in Nat
    BY SlotSets, FS_Intersection, FS_CardinalityType
  <2>11. unpaid \cap (out \cap NodesSlots) = {} BY DEF unpaid
  <2>12. Cardinality(out) = Cardinality(unpaid) + Cardinality(out \cap NodesSlots)
    <3> DEFINE paid == out \cap NodesSlots
    <3>1. unpaid \cap paid = {} /\ out = unpaid \cup paid BY <2>9, <2>11
    <3>2. IsFiniteSet(paid) /\ Cardinality(paid) \in Nat BY <2>10
    <3> HIDE DEF paid
    <3>3. Cardinality(unpaid \cup paid) =
            Cardinality(unpaid) + Cardinality(paid) - Cardinality(unpaid \cap paid)
      BY <2>7, <3>2, FS_Union
    <3>4. Cardinality(unpaid \cup paid) = Cardinality(unpaid) + Cardinality(paid)
      BY <2>8, <3>1, <3>2, <3>3, FS_EmptySet
    <3>5. Cardinality(out) = Cardinality(unpaid) + Cardinality(paid) BY <3>1, <3>4
    <3> QED BY <3>5 DEF paid
  <2>13. Cardinality(out) <= MaxOutbound
    BY <1>1, <2>7, <2>8, <2>10, <2>12, SlotSets, ConnectionsAssumption
       DEF ConnInv, ConnTypes, SlotsAdd
  <2> QED BY <2>13 DEF OnePerSlot, out
<1>2. LoopInv => OnePerName BY DEF LoopInv
<1>3. OnePerSlot /\ OnePerName => OutboundWithinLimit BY DEF OutboundWithinLimit
<1> QED BY <1>1, <1>2, <1>3, AlwaysConnInv, AlwaysLoopInv, PTL

(* A thread has no pointer to a node that is deleted, unless a reference   *)
(* to it was overwritten before, for any number of threads and nodes.      *)
THEOREM DeletedIsUnused == ConnSpec => []NoUseAfterDelete
<1>1. ConnInv => NoUseAfterDelete BY DEF ConnInv
<1> QED BY <1>1, AlwaysConnInv, PTL

-----------------------------------------------------------------------------
(* The locks of the node: what a thread holds, and what it may do then.    *)
LockName ==
  {"main", "wallet", "mempool", "KeyStore", "txdb", "event", "vNodes", "vSend", "vRecv",
   "inventory", "mapRelay", "mapLocalHost", "mapAlerts", "mapRequests", "freeCount",
   "unlockTime"}
Entry == [lock : LockName, try : BOOLEAN]

(* A thread that runs role and holds H may come to a.                      *)
Legal(role, H, a) ==
  /\ a.lock = "event" => role = "gui" \/ (LowDisk /\ "main" \in H)
  /\ \/ a.try \/ a.lock \in H
     \/ /\ "KeyStore" \notin H /\ a.lock # "vRecv"
        /\ a.lock = "KeyStore" \/ "main" \in H \/ H \subseteq {"vRecv", "event"}

Under(s, j) == {s[i].lock : i \in 1 .. j - 1}

LegalOn(role, H, s) ==
  \A j \in 1 .. Len(s) : Legal(role, H \cup Under(s, j), s[j])

Fits(role, H, Inner) ==
  Inner \subseteq Seq(Entry) /\ \A s \in Inner : LegalOn(role, H, s)

-----------------------------------------------------------------------------
LEMMA LeafFits == ASSUME NEW role, NEW H PROVE Fits(role, H, Leaf)
BY EmptySeq DEF Fits, Leaf, LegalOn

LEMMA UnionFits ==
  ASSUME NEW role, NEW H, NEW A, NEW B, Fits(role, H, A), Fits(role, H, B)
  PROVE  Fits(role, H, A \cup B)
BY DEF Fits

LEMMA NestedFits ==
  ASSUME NEW role, NEW H, NEW c \in LockName, NEW try \in BOOLEAN, NEW Inner,
         Legal(role, H, [lock |-> c, try |-> try]), Fits(role, H \cup {c}, Inner)
  PROVE  Fits(role, H, Nested(c, try, Inner))
<1> DEFINE a == [lock |-> c, try |-> try]
<1>1. ASSUME NEW s \in Inner PROVE <<a>> \o s \in Seq(Entry) /\ LegalOn(role, H, <<a>> \o s)
  <2> DEFINE r == <<a>> \o s
  <2>1. s \in Seq(Entry) /\ a \in Entry BY DEF Fits, Entry
  <2>2. Len(s) \in Nat BY <2>1, LenProperties
  <2>3. <<a>> \in Seq(Entry) /\ Len(<<a>>) = 1 /\ <<a>>[1] = a BY <2>1
  <2>4. /\ r \in Seq(Entry) /\ Len(r) = 1 + Len(s)
        /\ \A i \in 1 .. 1 + Len(s) : r[i] = IF i <= 1 THEN <<a>>[i] ELSE s[i - 1]
    BY <2>1, <2>3, ConcatProperties
  <2>5. r[1] = a BY <2>2, <2>3, <2>4
  <2>6. \A i \in 1 .. Len(s) : r[i + 1] = s[i]
    <3> TAKE i \in 1 .. Len(s)
    <3>1. i + 1 \in 1 .. 1 + Len(s) /\ ~(i + 1 <= 1) /\ i + 1 - 1 = i BY <2>2
    <3> QED BY <2>4, <3>1
  <2> HIDE DEF a
  <2>7. ASSUME NEW j \in 1 .. Len(r) PROVE Legal(role, H \cup Under(r, j), r[j])
    <3> HIDE DEF r
    <3>1. CASE j = 1
      <4>1. Under(r, 1) = {} BY DEF Under
      <4>2. H \cup {} = H OBVIOUS
      <4> QED BY <2>5, <3>1, <4>1, <4>2 DEF a
    <3>2. CASE j # 1
      <4>1. j - 1 \in 1 .. Len(s) /\ j - 1 + 1 = j BY <2>2, <2>4, <3>2
      <4>2. r[j] = s[j - 1] BY <2>6, <4>1
      <4>3. Under(r, j) = {c} \cup Under(s, j - 1)
        <5>1. a.lock = c BY DEF a
        <5>2. ASSUME NEW i \in 1 .. j - 1 PROVE r[i].lock \in {c} \cup Under(s, j - 1)
          <6>1. CASE i = 1 BY <2>5, <5>1, <6>1
          <6>2. CASE i # 1
            <7>1. i - 1 \in 1 .. Len(s) /\ i - 1 + 1 = i /\ i - 1 \in 1 .. (j - 1) - 1
              BY <2>2, <4>1, <6>2
            <7>2. r[i] = s[i - 1] BY <2>6, <7>1
            <7> QED BY <7>1, <7>2 DEF Under
          <6> QED BY <6>1, <6>2
        <5>3. ASSUME NEW i \in 1 .. (j - 1) - 1 PROVE s[i].lock \in Under(r, j)
          <6>1. i \in 1 .. Len(s) /\ i + 1 \in 1 .. j - 1 BY <2>2, <4>1
          <6>2. r[i + 1] = s[i] BY <2>6, <6>1
          <6> QED BY <6>1, <6>2 DEF Under
        <5>4. 1 \in 1 .. j - 1 BY <4>1
        <5>5. c \in Under(r, j) BY <2>5, <5>1, <5>4 DEF Under
        <5> QED BY <5>2, <5>3, <5>5 DEF Under
      <4>4. Legal(role, (H \cup {c}) \cup Under(s, j - 1), s[j - 1])
        BY <4>1 DEF Fits, LegalOn
      <4>5. H \cup Under(r, j) = (H \cup {c}) \cup Under(s, j - 1) BY <4>3
      <4> QED BY <4>2, <4>4, <4>5
    <3> QED BY <3>1, <3>2
  <2> QED BY <2>4, <2>7 DEF LegalOn
<1> HIDE DEF a
<1>2. Nested(c, try, Inner) = Leaf \cup {<<a>> \o s : s \in Inner} BY DEF Nested, a
<1>3. Fits(role, H, {<<a>> \o s : s \in Inner}) BY <1>1 DEF Fits
<1>4. Fits(role, H, Leaf \cup {<<a>> \o s : s \in Inner}) BY <1>3, LeafFits, UnionFits
<1> QED BY <1>2, <1>4

-----------------------------------------------------------------------------
(* Where a lock may be waited for, and where any number of them, one       *)
(* inside the other.                                                       *)
Outer(H) == "KeyStore" \notin H /\ ("main" \in H \/ H \subseteq {"vRecv", "event"})
InMain(H) == "KeyStore" \notin H /\ "main" \in H

LEMMA InMainFacts ==
  ASSUME NEW H, InMain(H)
  PROVE  Outer(H) /\ \A c : c # "KeyStore" => InMain(H \cup {c})
BY DEF InMain, Outer

LEMMA LockFits ==
  ASSUME NEW role, NEW H, Outer(H), NEW c \in LockName \ {"event", "vRecv"}, NEW Inner,
         Fits(role, H \cup {c}, Inner)
  PROVE  Fits(role, H, LOCK(c, Inner))
<1>1. Legal(role, H, [lock |-> c, try |-> FALSE]) BY DEF Legal, Outer
<1>2. c \in LockName /\ FALSE \in BOOLEAN OBVIOUS
<1> QED BY <1>1, <1>2, NestedFits DEF LOCK

LEMMA RecursiveFits ==
  ASSUME NEW role, NEW H, NEW c \in LockName, NEW Inner,
         c \in H, c = "event" => role = "gui", Fits(role, H, Inner)
  PROVE  Fits(role, H, LOCK(c, Inner))
<1>1. Legal(role, H, [lock |-> c, try |-> FALSE]) BY DEF Legal
<1>2. H \cup {c} = H /\ FALSE \in BOOLEAN OBVIOUS
<1> QED BY <1>1, <1>2, NestedFits DEF LOCK

LEMMA TryFits ==
  ASSUME NEW role, NEW H, NEW c \in LockName \ {"event"}, NEW Inner,
         Fits(role, H \cup {c}, Inner)
  PROVE  Fits(role, H, TRY_LOCK(c, Inner))
<1>1. Legal(role, H, [lock |-> c, try |-> TRUE]) BY DEF Legal
<1>2. c \in LockName /\ TRUE \in BOOLEAN OBVIOUS
<1> QED BY <1>1, <1>2, NestedFits DEF TRY_LOCK

(* A lock under which nothing is taken.                                    *)
LEMMA LastFits ==
  ASSUME NEW role, NEW H, Outer(H), NEW c \in LockName \ {"event", "vRecv"}
  PROVE  Fits(role, H, LOCK(c, Leaf))
BY LockFits, LeafFits

LEMMA LastOnes ==
  ASSUME NEW role, NEW H, Outer(H)
  PROVE  /\ Fits(role, H, Read) /\ Fits(role, H, HaveKey)
         /\ Fits(role, H, PushMessage) /\ Fits(role, H, PushInventory)
         /\ \A c \in {"mempool", "wallet", "vNodes", "mapAlerts", "mapRelay", "mapRequests",
                      "mapLocalHost"} : Fits(role, H, LOCK(c, Leaf))
BY LastFits DEF LockName, Read, HaveKey, PushMessage, PushInventory

(* cs_KeyStore is taken under cs_wallet, and cs_wallet once more under it. *)
LEMMA WalletFits ==
  ASSUME NEW role, NEW H, Outer(H)
  PROVE  /\ Fits(role, H, LOCK("wallet", HaveKey)) /\ Fits(role, H, AddToWallet)
         /\ Fits(role, H, ReserveKey) /\ Fits(role, H, IsFromMe) /\ Fits(role, H, toHTML)
<1> DEFINE W == H \cup {"wallet"}
           K == W \cup {"KeyStore"}
<1>1. "KeyStore" \notin W BY DEF Outer
<1>2. \A Inner : Fits(role, K, Inner) => Fits(role, W, LOCK("KeyStore", Inner))
  <2> TAKE Inner
  <2> HAVE Fits(role, K, Inner)
  <2>1. Legal(role, W, [lock |-> "KeyStore", try |-> FALSE]) BY <1>1 DEF Legal
  <2>2. "KeyStore" \in LockName /\ FALSE \in BOOLEAN BY DEF LockName
  <2> QED BY <2>1, <2>2, NestedFits DEF LOCK
<1>3. Fits(role, W, HaveKey) BY <1>2, LeafFits DEF HaveKey
<1>4. Fits(role, K, LOCK("wallet", Leaf)) BY RecursiveFits, LeafFits DEF LockName
<1>5. Fits(role, W, AddKey) BY <1>2, <1>4 DEF AddKey
<1>6. Fits(role, W, HaveKey \cup AddKey) BY <1>3, <1>5, UnionFits
<1>7. "wallet" \in LockName \ {"event", "vRecv"} BY DEF LockName
<1> QED BY <1>3, <1>6, <1>7, LockFits DEF AddToWallet, ReserveKey, IsFromMe, toHTML

-----------------------------------------------------------------------------
(* Under cs_main the functions may be called with whatever else is held.   *)
LEMMA MainLock ==
  ASSUME NEW role, NEW H, InMain(H), NEW c \in LockName \ {"event", "vRecv", "KeyStore"},
         NEW Inner, \A G : InMain(G) => Fits(role, G, Inner)
  PROVE  Fits(role, H, LOCK(c, Inner))
<1>1. InMain(H \cup {c}) /\ Outer(H) BY InMainFacts
<1> QED BY <1>1, LockFits

LEMMA RelayFits ==
  ASSUME NEW role
  PROVE  \A H : InMain(H) =>
           /\ Fits(role, H, RelayMessage) /\ Fits(role, H, AdvertizeLocal)
           /\ Fits(role, H, LOCK("vNodes", PushInventory))
           /\ Fits(role, H, LOCK("vNodes", PushMessage))
           /\ Fits(role, H, LOCK("mapAlerts", PushMessage))
           /\ Fits(role, H, LOCK("mapRelay", PushMessage))
           /\ Fits(role, H, LOCK("inventory", IsFromMe))
<1> TAKE H
<1> HAVE InMain(H)
<1>1. \A G : InMain(G) =>
        /\ Fits(role, G, PushInventory) /\ Fits(role, G, PushMessage) /\ Fits(role, G, IsFromMe)
        /\ Fits(role, G, LOCK("mapLocalHost", Leaf)) /\ Fits(role, G, LOCK("mapRelay", Leaf))
  BY InMainFacts, LastOnes, WalletFits
<1>2. \A c \in {"vNodes", "mapAlerts", "mapRelay", "inventory"} :
        c \in LockName \ {"event", "vRecv", "KeyStore"}
  BY DEF LockName
<1>3. /\ Fits(role, H, LOCK("vNodes", PushInventory))
      /\ Fits(role, H, LOCK("vNodes", PushMessage))
      /\ Fits(role, H, LOCK("mapAlerts", PushMessage))
      /\ Fits(role, H, LOCK("mapRelay", PushMessage))
      /\ Fits(role, H, LOCK("inventory", IsFromMe))
      /\ Fits(role, H, LOCK("vNodes", LOCK("mapLocalHost", Leaf)))
  BY <1>1, <1>2, MainLock
<1>4. Fits(role, H, RelayMessage) BY <1>1, <1>3, UnionFits DEF RelayMessage, RelayInventory
<1> QED BY <1>3, <1>4 DEF AdvertizeLocal

LEMMA AcceptFits ==
  ASSUME NEW role, NEW f \in BOOLEAN
  PROVE  \A H : InMain(H) => Fits(role, H, FetchInputs) /\ Fits(role, H, AcceptToMemoryPool(f))
<1> TAKE H
<1> HAVE InMain(H)
<1>1. \A G : InMain(G) => Fits(role, G, IsFromMe) BY InMainFacts, WalletFits
<1>2. Fits(role, H, LOCK("freeCount", IsFromMe)) BY <1>1, MainLock DEF LockName
<1>3. Fits(role, H, Read) /\ Fits(role, H, LOCK("mempool", Leaf)) BY InMainFacts, LastOnes
<1>4. Fits(role, H, FetchInputs) BY <1>3, UnionFits DEF FetchInputs
<1>5. Fits(role, H, FetchInputs \cup LOCK("freeCount", IsFromMe)) BY <1>2, <1>4, UnionFits
<1>6. Fits(role, H, {}) BY DEF Fits
<1> QED BY <1>3, <1>4, <1>5, <1>6, UnionFits DEF AcceptToMemoryPool

LEMMA ProcessBlockFits ==
  ASSUME NEW role
  PROVE  \A H : InMain(H) => Fits(role, H, ProcessBlock)
<1> TAKE H
<1> HAVE InMain(H)
<1>1. \A G : InMain(G) => Fits(role, G, AddToWallet) BY InMainFacts, WalletFits
<1>2. Fits(role, H, Txn(AddToWallet)) BY <1>1, MainLock DEF LockName, Txn
<1>3. Fits(role, H, AcceptToMemoryPool(FALSE)) BY AcceptFits
<1>4. Fits(role, H, SetBestChain) BY <1>2, <1>3, UnionFits DEF SetBestChain
<1>5. Fits(role, H, CheckDiskSpace)
  <2>1. CASE LowDisk = TRUE
    <3>1. Legal(role, H, [lock |-> "event", try |-> FALSE]) BY <2>1 DEF Legal, InMain
    <3>2. "event" \in LockName /\ FALSE \in BOOLEAN BY DEF LockName
    <3>3. Fits(role, H, Modal) BY <3>1, <3>2, NestedFits, LeafFits DEF Modal, LOCK
    <3> QED BY <2>1, <3>3 DEF CheckDiskSpace
  <2>2. CASE LowDisk = FALSE BY <2>2, LeafFits DEF CheckDiskSpace
  <2> QED BY <2>1, <2>2, LocksAssumption
<1>6. Fits(role, H, LOCK("vNodes", PushInventory)) BY RelayFits
<1>7. Fits(role, H, CheckDiskSpace \cup SetBestChain) BY <1>4, <1>5, UnionFits
<1>8. Fits(role, H, CheckDiskSpace \cup SetBestChain \cup AddToWallet) BY <1>1, <1>7, UnionFits
<1> QED BY <1>6, <1>8, UnionFits DEF ProcessBlock

LEMMA CreateNewBlockFits ==
  ASSUME NEW role, NEW H, Outer(H)
  PROVE  Fits(role, H, CreateNewBlock)
<1>1. Fits(role, H, ReserveKey) BY WalletFits
<1>2. InMain(H \cup {"main"}) BY DEF InMain, Outer
<1>3. \A G : InMain(G) => Fits(role, G, FetchInputs) BY AcceptFits
<1>4. Fits(role, H \cup {"main"}, LOCK("mempool", FetchInputs))
  BY <1>2, <1>3, MainLock DEF LockName
<1>5. "main" \in LockName \ {"event", "vRecv"} BY DEF LockName
<1>6. Fits(role, H, LOCK2("main", "mempool", FetchInputs)) BY <1>4, <1>5, LockFits DEF LOCK2
<1> QED BY <1>1, <1>6, UnionFits DEF CreateNewBlock

-----------------------------------------------------------------------------
(* The threads.                                                            *)
LEMMA MessageFits ==
  ASSUME NEW role
  PROVE  Fits(role, {}, ThreadMessageHandler)
<1>1. \A H : InMain(H) => Fits(role, H, ProcessMessage)
  <2> TAKE H
  <2> HAVE InMain(H)
  <2>1. Outer(H) BY InMainFacts
  <2> DEFINE A == PushMessage \cup AdvertizeLocal \cup LOCK("mapAlerts", PushMessage)
                    \cup LOCK("mapAlerts", Leaf) \cup LOCK("vNodes", PushMessage)
                    \cup LOCK("vNodes", Leaf)
             B == A \cup LOCK("mapRelay", PushMessage) \cup IsFromMe \cup LOCK("mempool", Leaf)
                    \cup Read \cup PushInventory
  <2>2. Fits(role, H, A) BY <2>1, LastOnes, RelayFits, UnionFits
  <2>3. Fits(role, H, B)
    <3> HIDE DEF A
    <3> QED BY <2>1, <2>2, LastOnes, WalletFits, RelayFits, UnionFits
  <2>4. Fits(role, H, AcceptToMemoryPool(TRUE)) BY AcceptFits
  <2>5. Fits(role, H, B \cup AcceptToMemoryPool(TRUE) \cup AddToWallet \cup RelayMessage)
    <3> HIDE DEF B
    <3> QED BY <2>1, <2>3, <2>4, WalletFits, RelayFits, UnionFits
  <2>6. Fits(role, H, ProcessBlock) /\ Fits(role, H, LOCK("mapRequests", Leaf))
    BY <2>1, ProcessBlockFits, LastOnes
  <2>7. Fits(role, H, B \cup AcceptToMemoryPool(TRUE) \cup AddToWallet \cup RelayMessage
                        \cup ProcessBlock \cup LOCK("mapRequests", Leaf))
    <3> HIDE DEF B
    <3> QED BY <2>5, <2>6, UnionFits
  <2> QED BY <2>7 DEF ProcessMessage
<1>2. \A H : InMain(H) =>
        Fits(role, H, PushMessage \cup ResendWalletTransactions \cup AdvertizeLocal
           \cup LOCK("inventory", IsFromMe) \cup LOCK("mempool", Leaf) \cup Read)
  <2> TAKE H
  <2> HAVE InMain(H)
  <2>1. Outer(H) BY InMainFacts
  <2>2. \A G : InMain(G) => Fits(role, G, Read \cup RelayMessage)
    BY InMainFacts, LastOnes, RelayFits, UnionFits
  <2>3. Fits(role, H, ResendWalletTransactions)
    BY <2>2, MainLock DEF LockName, ResendWalletTransactions
  <2>4. Fits(role, H, PushMessage \cup ResendWalletTransactions \cup AdvertizeLocal)
    BY <2>1, <2>3, LastOnes, RelayFits, UnionFits
  <2> QED BY <2>1, <2>4, LastOnes, RelayFits, UnionFits
<1>3. InMain({} \cup {"vRecv"} \cup {"main"}) /\ InMain({} \cup {"vSend"} \cup {"main"})
  BY DEF InMain
<1>4. Outer({}) /\ Outer({} \cup {"vRecv"}) BY DEF Outer
<1>5. "main" \in LockName \ {"event", "vRecv"} BY DEF LockName
<1>6. Fits(role, {} \cup {"vRecv"}, LOCK("main", ProcessMessage))
  BY <1>1, <1>3, <1>4, <1>5, LockFits
<1>7. Fits(role, {}, TRY_LOCK("vRecv", LOCK("main", ProcessMessage)))
  BY <1>6, TryFits DEF LockName
<1>8. Fits(role, {} \cup {"vSend"}, SendMessages)
  BY <1>2, <1>3, TryFits DEF LockName, SendMessages
<1>9. Fits(role, {}, TRY_LOCK("vSend", SendMessages)) BY <1>8, TryFits DEF LockName
<1>10. Fits(role, {}, LOCK("vNodes", Leaf)) BY <1>4, LastOnes
<1> QED BY <1>7, <1>9, <1>10, UnionFits DEF ThreadMessageHandler

LEMMA SocketFits ==
  ASSUME NEW role
  PROVE  Fits(role, {}, ThreadSocketHandler)
<1>1. \A H : \A c \in {"vSend", "vRecv", "mapRequests", "inventory"} : \A Inner :
        Fits(role, H \cup {c}, Inner) => Fits(role, H, TRY_LOCK(c, Inner))
  BY TryFits DEF LockName
<1>2. \A H : Fits(role, H, TRY_LOCK("inventory", Leaf)) BY <1>1, LeafFits
<1>3. \A H : Fits(role, H, TRY_LOCK("mapRequests", TRY_LOCK("inventory", Leaf))) BY <1>1, <1>2
<1>4. \A H : Fits(role, H, TRY_LOCK("vRecv",
                TRY_LOCK("mapRequests", TRY_LOCK("inventory", Leaf)))) BY <1>1, <1>3
<1>5. \A H : Fits(role, H, TRY_LOCK("vSend", TRY_LOCK("vRecv",
                TRY_LOCK("mapRequests", TRY_LOCK("inventory", Leaf))))) BY <1>1, <1>4
<1>6. Outer({}) /\ "vNodes" \in LockName \ {"event", "vRecv"} BY DEF Outer, LockName
<1>7. Fits(role, {}, LOCK("vNodes", TRY_LOCK("vSend", TRY_LOCK("vRecv",
                TRY_LOCK("mapRequests", TRY_LOCK("inventory", Leaf)))))) BY <1>5, <1>6, LockFits
<1>8. Fits(role, {}, TRY_LOCK("vRecv", Leaf)) /\ Fits(role, {}, TRY_LOCK("vSend", Leaf))
  BY <1>1, LeafFits
<1> QED BY <1>7, <1>8, UnionFits DEF ThreadSocketHandler

LEMMA CommitFits ==
  ASSUME NEW role, NEW H, Outer(H)
  PROVE  /\ InMain(H \cup {"main"} \cup {"wallet"})
         /\ \A Inner : Fits(role, H \cup {"main"} \cup {"wallet"}, Inner)
                       => Fits(role, H, LOCK2("main", "wallet", Inner))
         /\ Fits(role, H, CommitTransaction)
<1> DEFINE M == H \cup {"main"}
           W == M \cup {"wallet"}
<1>1. InMain(M) /\ InMain(W) /\ Outer(M) /\ Outer(W) BY DEF InMain, Outer
<1>2. "main" \in LockName \ {"event", "vRecv"} /\ "wallet" \in LockName \ {"event", "vRecv"}
  BY DEF LockName
<1>3. \A Inner : Fits(role, W, Inner) => Fits(role, H, LOCK2("main", "wallet", Inner))
  BY <1>1, <1>2, LockFits DEF LOCK2
<1> HIDE DEF W, M
<1>4. Fits(role, W, AcceptToMemoryPool(TRUE)) BY <1>1, AcceptFits
<1>5. Fits(role, W, AddToWallet \cup AcceptToMemoryPool(TRUE)) BY <1>1, <1>4, WalletFits, UnionFits
<1>6. Fits(role, W, AddToWallet \cup AcceptToMemoryPool(TRUE) \cup Read \cup RelayMessage)
  BY <1>1, <1>5, LastOnes, RelayFits, UnionFits
<1>7. Fits(role, H, CommitTransaction) BY <1>3, <1>6 DEF CommitTransaction
<1> QED BY <1>1, <1>3, <1>7 DEF W, M

LEMMA UnlockTimeFits ==
  ASSUME NEW role, NEW H, "KeyStore" \notin H, "main" \in H \/ H = {}
  PROVE  Fits(role, H, LOCK("unlockTime", HaveKey))
<1>1. Outer(H) BY DEF Outer
<1>2. Legal(role, H \cup {"unlockTime"}, [lock |-> "KeyStore", try |-> FALSE]) BY DEF Legal
<1>3. "KeyStore" \in LockName /\ FALSE \in BOOLEAN BY DEF LockName
<1>4. Fits(role, H \cup {"unlockTime"}, HaveKey)
  BY <1>2, <1>3, NestedFits, LeafFits DEF HaveKey, LOCK
<1> QED BY <1>1, <1>4, LockFits DEF LockName

LEMMA RpcFits ==
  ASSUME NEW role
  PROVE  Fits(role, {}, execute)
<1> DEFINE W == {} \cup {"main"} \cup {"wallet"}
<1>1. Outer({}) BY DEF Outer
<1>2. InMain(W) BY <1>1, CommitFits
<1>3. \A Inner : Fits(role, W, Inner) => Fits(role, {}, LOCK2("main", "wallet", Inner))
  BY <1>1, CommitFits
<1> HIDE DEF W
<1>4. Outer(W) /\ "KeyStore" \notin W /\ "main" \in W BY <1>2 DEF InMain, Outer
<1>5. Fits(role, W, ReserveKey) /\ Fits(role, W, walletlock) /\ Fits(role, W, CommitTransaction)
  BY <1>4, WalletFits, UnlockTimeFits, CommitFits DEF walletlock
<1>6. Fits(role, W, CreateNewBlock) /\ Fits(role, W, ProcessBlock)
  BY <1>2, <1>4, CreateNewBlockFits, ProcessBlockFits
<1>7. Fits(role, W, LOCK("vNodes", Leaf)) /\ Fits(role, W, LOCK("mempool", Leaf))
  BY <1>4, LastOnes
<1>8. Fits(role, W, ReserveKey \cup walletlock \cup CommitTransaction \cup CreateNewBlock
                      \cup ProcessBlock \cup LOCK("vNodes", Leaf) \cup LOCK("mempool", Leaf))
  BY <1>5, <1>6, <1>7, UnionFits
<1>9. Fits(role, {}, LOCK("mapAlerts", Leaf)) BY <1>1, LastOnes
<1> QED BY <1>3, <1>8, <1>9, UnionFits DEF execute

LEMMA MinerFits ==
  ASSUME NEW role
  PROVE  Fits(role, {}, AltcoinMiner)
<1>1. Outer({}) /\ InMain({} \cup {"main"}) BY DEF Outer, InMain
<1>2. Outer({} \cup {"main"}) BY <1>1, InMainFacts
<1>3. Fits(role, {} \cup {"main"}, LOCK("wallet", Leaf) \cup ProcessBlock)
  BY <1>1, <1>2, LastOnes, ProcessBlockFits, UnionFits
<1>4. "main" \in LockName \ {"event", "vRecv"} BY DEF LockName
<1>5. Fits(role, {}, CheckWork) BY <1>1, <1>3, <1>4, LockFits DEF CheckWork
<1> QED BY <1>1, <1>5, CreateNewBlockFits, UnionFits DEF AltcoinMiner

LEMMA GuiFits == Fits("gui", {}, GuiEvent)
<1> DEFINE E == {} \cup {"event"}
<1>1. Outer(E) BY DEF Outer
<1>2. "event" \in E /\ "event" \in LockName /\ FALSE \in BOOLEAN BY DEF LockName
<1>3. InMain(E \cup {"main"} \cup {"wallet"}) BY <1>1, CommitFits
<1>4. \A Inner : Fits("gui", E \cup {"main"} \cup {"wallet"}, Inner)
                    => Fits("gui", E, LOCK2("main", "wallet", Inner))
  BY <1>1, CommitFits
<1> DEFINE W == E \cup {"main"} \cup {"wallet"}
<1> HIDE DEF E
<1>5. Outer(W) BY <1>3, InMainFacts
<1> HIDE DEF W
<1>6. Fits("gui", W, CommitTransaction \cup ReserveKey)
  BY <1>5, CommitFits, WalletFits, UnionFits
<1>7. Fits("gui", E, sendCoins) BY <1>4, <1>6 DEF sendCoins, W
<1>8. Fits("gui", E, Modal) BY <1>2, RecursiveFits, LeafFits DEF Modal
<1>9. Fits("gui", E, LOCK("mapAlerts", Leaf)) BY <1>1, LastOnes
<1>10. Fits("gui", E, toHTML) /\ Fits("gui", E, ReserveKey) BY <1>1, WalletFits
<1>11. Fits("gui", E, sendCoins \cup toHTML \cup ReserveKey \cup LOCK("mapAlerts", Leaf)
                        \cup Modal)
  BY <1>7, <1>8, <1>9, <1>10, UnionFits
<1>12. Legal("gui", {}, [lock |-> "event", try |-> FALSE]) BY DEF Legal
<1> QED BY <1>2, <1>11, <1>12, NestedFits DEF GuiEvent, LOCK, E

(* The node after its start: the wallet's transactions are resubmitted,    *)
(* and nobody is there to confirm a message if the disk is full.           *)
Started ==
  /\ \A t \in NodeThread : Role[t] # "init"
  /\ LowDisk => \A t \in NodeThread : Role[t] # "gui"

LEMMA StacksFit ==
  ASSUME Started, NEW t \in NodeThread
  PROVE  Fits(Role[t], {}, Stacks[t])
<1>1. Role[t] \in (Single \cup Several) \ {"init"} BY LocksAssumption DEF Started
<1>2. Role[t] \in {"message", "socket", "gui", "rpc", "relock", "keypool", "miner", "open"}
  BY <1>1 DEF Single, Several
<1>3. Outer({}) BY DEF Outer
<1>4. Fits(Role[t], {}, ThreadTopUpKeyPool) BY <1>3, WalletFits DEF ThreadTopUpKeyPool
<1>5. Fits(Role[t], {}, ThreadOpenConnections) BY <1>3, LastOnes, UnionFits DEF ThreadOpenConnections
<1>6. Fits(Role[t], {}, ThreadCleanWalletPassphrase)
  BY UnlockTimeFits DEF ThreadCleanWalletPassphrase
<1> QED BY <1>2, <1>4, <1>5, <1>6, MessageFits, SocketFits, RpcFits, MinerFits, GuiFits DEF Stacks

-----------------------------------------------------------------------------
(* What is held and waited for is legal, and nobody holds what another     *)
(* holds.                                                                  *)
NodeTypes ==
  /\ held \in [NodeThread -> Seq(Entry)]
  /\ waits \in [NodeThread -> LockName \cup {None}]

HeldLegal == \A t \in NodeThread : LegalOn(Role[t], {}, held[t])

WaitLegal ==
  \A t \in NodeThread : waits[t] # None =>
    waits[t] \in LockName /\ Legal(Role[t], Locked(t), [lock |-> waits[t], try |-> FALSE])

OneHolds == \A t, u \in NodeThread : \A c \in Locked(t) : c \in Locked(u) => t = u

NodeInv == NodeTypes /\ HeldLegal /\ WaitLegal /\ OneHolds

LEMMA TopLegal ==
  ASSUME NEW role, NEW h \in Seq(Entry), NEW a \in Entry
  PROVE  /\ Append(h, a) \in Seq(Entry)
         /\ {Append(h, a)[i].lock : i \in DOMAIN Append(h, a)}
              = {h[i].lock : i \in DOMAIN h} \cup {a.lock}
         /\ LegalOn(role, {}, Append(h, a)) <=>
              /\ LegalOn(role, {}, h)
              /\ Legal(role, {h[i].lock : i \in DOMAIN h}, a)
<1> DEFINE r == Append(h, a)
           n == Len(h)
<1>1. n \in Nat /\ DOMAIN h = 1 .. n BY LenProperties
<1>2. /\ r \in Seq(Entry) /\ Len(r) = n + 1 /\ r[n + 1] = a
      /\ \A i \in 1 .. n : r[i] = h[i]
  BY <1>1, AppendProperties
<1>3. DOMAIN r = 1 .. n + 1 BY <1>2, LenProperties
<1> HIDE DEF r, n
<1>4. {r[i].lock : i \in DOMAIN r} = {h[i].lock : i \in DOMAIN h} \cup {a.lock}
  <2>1. \A i \in 1 .. n + 1 : i = n + 1 \/ i \in 1 .. n BY <1>1
  <2>2. \A i \in 1 .. n : i \in 1 .. n + 1 BY <1>1
  <2>3. n + 1 \in 1 .. n + 1 BY <1>1
  <2> QED BY <1>1, <1>2, <1>3, <2>1, <2>2, <2>3
<1>5. \A j \in 1 .. n : Under(r, j) = Under(h, j)
  <2> TAKE j \in 1 .. n
  <2>1. \A i \in 1 .. j - 1 : i \in 1 .. n BY <1>1
  <2> QED BY <1>2, <2>1 DEF Under
<1>6. Under(r, n + 1) = {h[i].lock : i \in DOMAIN h}
  <2>1. n + 1 - 1 = n BY <1>1
  <2> QED BY <1>1, <1>2, <2>1 DEF Under
<1>7. LegalOn(role, {}, r) <=> LegalOn(role, {}, h) /\ Legal(role, {h[i].lock : i \in DOMAIN h}, a)
  <2>1. \A j \in 1 .. n + 1 : j = n + 1 \/ j \in 1 .. n BY <1>1
  <2>2. \A j \in 1 .. n : j \in 1 .. n + 1 BY <1>1
  <2>3. n + 1 \in 1 .. n + 1 /\ Len(h) = n BY <1>1 DEF n
  <2>4. \A X : {} \cup X = X OBVIOUS
  <2>5. \A j \in 1 .. n :
          Legal(role, {} \cup Under(r, j), r[j]) <=> Legal(role, {} \cup Under(h, j), h[j])
    BY <1>2, <1>5
  <2>6. Legal(role, {} \cup Under(r, n + 1), r[n + 1])
          <=> Legal(role, {h[i].lock : i \in DOMAIN h}, a)
    BY <1>2, <1>6, <2>4
  <2> QED BY <1>2, <2>1, <2>2, <2>3, <2>5, <2>6 DEF LegalOn
<1> QED BY <1>2, <1>4, <1>7 DEF r

LEMMA PoppedLegal ==
  ASSUME NEW role, NEW h \in Seq(Entry), h # <<>>
  PROVE  LET r == SubSeq(h, 1, Len(h) - 1) IN
         /\ r \in Seq(Entry)
         /\ {r[i].lock : i \in DOMAIN r} \subseteq {h[i].lock : i \in DOMAIN h}
         /\ LegalOn(role, {}, h) => LegalOn(role, {}, r)
<1> DEFINE r == SubSeq(h, 1, Len(h) - 1)
           n == Len(h)
<1>1. n \in Nat \ {0} /\ DOMAIN h = 1 .. n BY EmptySeq, LenProperties
<1>2. \A i \in 1 .. n - 1 : h[i] \in Entry BY <1>1, ElementOfSeq
<1>3. /\ SubSeq(h, 1, n - 1) \in Seq(Entry)
      /\ Len(SubSeq(h, 1, n - 1)) = IF 1 <= n - 1 THEN n - 1 - 1 + 1 ELSE 0
      /\ \A i \in 1 .. n - 1 - 1 + 1 : SubSeq(h, 1, n - 1)[i] = h[1 + i - 1]
  BY <1>1, <1>2, SubSeqProperties
<1>4. Len(r) = n - 1
  <2>1. \A k \in Nat : (IF 1 <= k THEN k - 1 + 1 ELSE 0) = k OBVIOUS
  <2>2. n - 1 \in Nat BY <1>1
  <2> QED BY <2>1, <2>2, <1>3
<1>5. \A i \in 1 .. n - 1 : r[i] = h[i]
  <2> TAKE i \in 1 .. n - 1
  <2>1. i \in 1 .. n - 1 - 1 + 1 /\ 1 + i - 1 = i BY <1>1
  <2> QED BY <2>1, <1>3
<1>6. r \in Seq(Entry) /\ DOMAIN r = 1 .. n - 1 BY <1>3, <1>4, LenProperties
<1> HIDE DEF r, n
<1>7. \A i \in 1 .. n - 1 : i \in 1 .. n BY <1>1
<1>8. {r[i].lock : i \in DOMAIN r} \subseteq {h[i].lock : i \in DOMAIN h}
  BY <1>1, <1>5, <1>6, <1>7
<1>9. ASSUME LegalOn(role, {}, h) PROVE LegalOn(role, {}, r)
  <2> SUFFICES ASSUME NEW j \in 1 .. n - 1 PROVE Legal(role, {} \cup Under(r, j), r[j])
    BY <1>4 DEF LegalOn
  <2>1. \A i \in 1 .. j - 1 : i \in 1 .. n - 1 BY <1>1
  <2>2. Under(r, j) = Under(h, j) BY <1>5, <2>1 DEF Under
  <2>3. j \in 1 .. Len(h) BY <1>7 DEF n
  <2> QED BY <1>5, <1>9, <2>2, <2>3 DEF LegalOn
<1> QED BY <1>6, <1>8, <1>9 DEF r, n

LEMMA InitNode == NodeInit => NodeInv
<1> SUFFICES ASSUME NodeInit PROVE NodeInv OBVIOUS
<1>1. \A t \in NodeThread : held[t] = <<>> /\ waits[t] = None BY DEF NodeInit
<1>2. NodeTypes BY EmptySeq DEF NodeInit, NodeTypes
<1>3. \A t \in NodeThread : Len(held[t]) = 0 /\ DOMAIN held[t] = {} BY <1>1
<1>4. HeldLegal BY <1>3 DEF HeldLegal, LegalOn
<1>5. OneHolds BY <1>3 DEF OneHolds, Locked
<1>6. WaitLegal BY <1>1 DEF WaitLegal
<1> QED BY <1>2, <1>4, <1>5, <1>6 DEF NodeInv

LEMMA FollowingLegal ==
  ASSUME Started, NodeInv, NEW t \in NodeThread, NEW a \in Following(t)
  PROVE  a \in Entry /\ Legal(Role[t], Locked(t), a)
<1>1. Fits(Role[t], {}, Stacks[t]) BY StacksFit
<1>2. Append(held[t], a) \in Stacks[t] BY DEF Following
<1>3. a \in Entry
  <2>1. PICK s \in Stacks[t] : a \in {s[i] : i \in DOMAIN s} BY DEF Following
  <2>2. s \in Seq(Entry) BY <1>1 DEF Fits
  <2> QED BY <2>1, <2>2, ElementOfSeq, LenProperties
<1>4. held[t] \in Seq(Entry) BY DEF NodeInv, NodeTypes
<1>5. LegalOn(Role[t], {}, Append(held[t], a)) BY <1>1, <1>2 DEF Fits
<1> QED BY <1>3, <1>4, <1>5, TopLegal DEF Locked

(* A lock that is free, taken by its thread.                               *)
LEMMA TakenInv ==
  ASSUME NodeInv, NEW t \in NodeThread, NEW a \in Entry, Legal(Role[t], Locked(t), a),
         FreeFor(t, a.lock), held' = [held EXCEPT ![t] = Append(@, a)],
         waits' = waits \/ waits' = [waits EXCEPT ![t] = None], waits'[t] = None
  PROVE  NodeInv'
<1>1. /\ held[t] \in Seq(Entry) /\ held'[t] = Append(held[t], a)
      /\ \A u \in NodeThread : u # t => held'[u] = held[u] /\ waits'[u] = waits[u]
  BY DEF NodeInv, NodeTypes
<1>2. /\ Append(held[t], a) \in Seq(Entry)
      /\ {Append(held[t], a)[i].lock : i \in DOMAIN Append(held[t], a)}
           = {held[t][i].lock : i \in DOMAIN held[t]} \cup {a.lock}
      /\ LegalOn(Role[t], {}, Append(held[t], a)) <=>
           /\ LegalOn(Role[t], {}, held[t])
           /\ Legal(Role[t], {held[t][i].lock : i \in DOMAIN held[t]}, a)
  BY <1>1, TopLegal
<1>3. Locked(t)' = Locked(t) \cup {a.lock} BY <1>1, <1>2 DEF Locked
<1>4. \A u \in NodeThread : u # t => Locked(u)' = Locked(u) BY <1>1 DEF Locked
<1>5. NodeTypes' BY <1>2 DEF NodeInv, NodeTypes
<1>6. HeldLegal' BY <1>1, <1>2 DEF NodeInv, HeldLegal, Locked
<1>7. WaitLegal'
  <2> SUFFICES ASSUME NEW u \in NodeThread, waits'[u] # None
               PROVE  /\ waits'[u] \in LockName
                      /\ Legal(Role[u], Locked(u)', [lock |-> waits'[u], try |-> FALSE])
    BY DEF WaitLegal, Legal
  <2>1. u # t OBVIOUS
  <2> QED BY <1>1, <1>4, <2>1 DEF NodeInv, WaitLegal
<1>8. OneHolds'
  <2>1. \A u \in NodeThread : a.lock \in Locked(u) => u = t BY DEF FreeFor, Owners
  <2> SUFFICES ASSUME NEW u \in NodeThread, NEW v \in NodeThread, NEW c,
                      c \in Locked(u)', c \in Locked(v)'
               PROVE  u = v
    BY DEF OneHolds
  <2> QED BY <1>3, <1>4, <2>1 DEF NodeInv, OneHolds
<1> QED BY <1>5, <1>6, <1>7, <1>8 DEF NodeInv

LEMMA NodeNextInv == Started /\ NodeInv /\ [NodeNext]_nodeVars => NodeInv'
<1> SUFFICES ASSUME Started, NodeInv, [NodeNext]_nodeVars PROVE NodeInv' OBVIOUS
<1>1. ASSUME NEW t \in NodeThread, NEW a \in Following(t), Take(t, a) PROVE NodeInv'
  BY <1>1, FollowingLegal, TakenInv DEF Take
<1>2. ASSUME NEW t \in NodeThread, NEW a \in Following(t), Wait(t, a) PROVE NodeInv'
  <2>1. a \in Entry /\ Legal(Role[t], Locked(t), a) BY FollowingLegal
  <2>2. /\ waits' = [waits EXCEPT ![t] = a.lock] /\ held' = held /\ a.try = FALSE
        /\ a.lock \in LockName
    BY <1>2, <2>1 DEF Wait, Entry
  <2>3. a = [lock |-> a.lock, try |-> FALSE] BY <2>1, <2>2 DEF Entry
  <2>4. \A u \in NodeThread : Locked(u)' = Locked(u) BY <2>2 DEF Locked
  <2>5. NodeTypes' /\ HeldLegal' BY <2>2 DEF NodeInv, NodeTypes, HeldLegal
  <2>6. OneHolds' BY <2>4 DEF NodeInv, OneHolds
  <2>7. WaitLegal'
    <3> SUFFICES ASSUME NEW u \in NodeThread, waits'[u] # None
                 PROVE  /\ waits'[u] \in LockName
                        /\ Legal(Role[u], Locked(u)', [lock |-> waits'[u], try |-> FALSE])
      BY DEF WaitLegal, Legal
    <3>1. CASE u = t
      <4>1. waits'[t] = a.lock BY <2>2 DEF NodeInv, NodeTypes
      <4> QED BY <2>1, <2>2, <2>3, <2>4, <3>1, <4>1
    <3>2. CASE u # t
      <4>1. waits'[u] = waits[u] BY <2>2, <3>2 DEF NodeInv, NodeTypes
      <4> QED BY <2>4, <4>1 DEF NodeInv, WaitLegal
    <3> QED BY <3>1, <3>2
  <2> QED BY <2>5, <2>6, <2>7 DEF NodeInv
<1>3. ASSUME NEW t \in NodeThread, WakeUp(t) PROVE NodeInv'
  <2> DEFINE a == [lock |-> waits[t], try |-> FALSE]
  <2>1. waits[t] \in LockName /\ Legal(Role[t], Locked(t), a)
    BY <1>3 DEF WakeUp, NodeInv, WaitLegal
  <2>2. a \in Entry /\ a.lock = waits[t] BY <2>1 DEF Entry
  <2>3. /\ held' = [held EXCEPT ![t] = Append(@, a)] /\ FreeFor(t, a.lock)
        /\ waits' = [waits EXCEPT ![t] = None]
    BY <1>3 DEF WakeUp
  <2>4. waits'[t] = None BY <2>3 DEF NodeInv, NodeTypes
  <2> HIDE DEF a
  <2> QED BY <2>1, <2>2, <2>3, <2>4, TakenInv
<1>4. ASSUME NEW t \in NodeThread, Leave(t) PROVE NodeInv'
  <2> DEFINE h == held[t]
             r == SubSeq(h, 1, Len(h) - 1)
  <2>1. h \in Seq(Entry) /\ h # <<>> BY <1>4 DEF Leave, NodeInv, NodeTypes
  <2>2. /\ r \in Seq(Entry)
        /\ {r[i].lock : i \in DOMAIN r} \subseteq {h[i].lock : i \in DOMAIN h}
        /\ LegalOn(Role[t], {}, h) => LegalOn(Role[t], {}, r)
    BY <2>1, PoppedLegal
  <2>3. /\ held' = [held EXCEPT ![t] = r] /\ waits' = waits /\ waits[t] = None
    BY <1>4 DEF Leave
  <2>4. held'[t] = r /\ \A u \in NodeThread : u # t => held'[u] = held[u]
    BY <2>3 DEF NodeInv, NodeTypes
  <2> HIDE DEF r
  <2>5. Locked(t)' \subseteq Locked(t) BY <2>2, <2>4 DEF Locked
  <2>6. \A u \in NodeThread : u # t => Locked(u)' = Locked(u) BY <2>4 DEF Locked
  <2>7. NodeTypes' BY <2>2, <2>3 DEF NodeInv, NodeTypes
  <2>8. HeldLegal' BY <2>2, <2>4 DEF NodeInv, HeldLegal
  <2>9. OneHolds' BY <2>5, <2>6 DEF NodeInv, OneHolds
  <2>10. WaitLegal' BY <2>3, <2>6 DEF NodeInv, WaitLegal, Legal
  <2> QED BY <2>7, <2>8, <2>9, <2>10 DEF NodeInv
<1>5. CASE UNCHANGED nodeVars
  <2>1. held' = held /\ waits' = waits BY <1>5 DEF nodeVars
  <2>2. \A t \in NodeThread : Locked(t)' = Locked(t) BY <2>1 DEF Locked
  <2>3. NodeTypes' /\ HeldLegal' BY <2>1 DEF NodeInv, NodeTypes, HeldLegal
  <2>4. OneHolds' BY <2>2 DEF NodeInv, OneHolds
  <2>5. WaitLegal' BY <2>1, <2>2 DEF NodeInv, WaitLegal, Legal
  <2> QED BY <2>3, <2>4, <2>5 DEF NodeInv
<1> QED BY <1>1, <1>2, <1>3, <1>4, <1>5 DEF NodeNext

LEMMA AlwaysNodeInv == ASSUME Started PROVE NodeSpec => []NodeInv
<1>1. NodeInv /\ [NodeNext]_nodeVars => NodeInv' BY NodeNextInv
<1> QED BY <1>1, InitNode, PTL DEF NodeSpec

(* No threads wait for each other in a circle, for any number of RPC       *)
(* connections, miners and relocking threads, once the wallet's            *)
(* transactions have been resubmitted.  Whoever waits for cs_KeyStore      *)
(* waits for a thread that takes nothing more; of the others, each waits   *)
(* for a thread that holds cs_main, as what may be waited for without      *)
(* cs_main is not waited for by anyone else.                               *)
THEOREM NodeKeepsGoing ==
  ASSUME Started
  PROVE  NodeSpec => []NoDeadlock
<1>1. ASSUME NodeInv PROVE NoDeadlock
  <2> SUFFICES ASSUME NEW S \in SUBSET NodeThread, NEW x \in S,
                      \A t \in S : /\ waits[t] # None
                                   /\ \E u \in Owners(waits[t]) \cap S : u # t
               PROVE  FALSE
    BY DEF NoDeadlock
  <2> DEFINE For(t, u) == u \in S /\ u # t /\ waits[t] \in Locked(u)
  <2>1. \A t \in S : \E u \in S : For(t, u) BY DEF Owners
  <2>2. ASSUME NEW t \in S
        PROVE  /\ waits[t] \notin Locked(t) /\ waits[t] # "vRecv" /\ "KeyStore" \notin Locked(t)
               /\ \/ waits[t] = "KeyStore" \/ "main" \in Locked(t)
                  \/ Locked(t) \subseteq {"vRecv", "event"}
               /\ waits[t] = "event" => Role[t] = "gui" \/ LowDisk
    <3>1. waits[t] \notin Locked(t) BY <1>1, <2>1 DEF NodeInv, OneHolds
    <3>2. Legal(Role[t], Locked(t), [lock |-> waits[t], try |-> FALSE])
      BY <1>1 DEF NodeInv, WaitLegal
    <3> QED BY <3>1, <3>2 DEF Legal
  <2>3. \A t \in S : waits[t] # "KeyStore" BY <2>1, <2>2
  <2>4. ASSUME NEW t \in S, NEW u \in S, For(t, u) PROVE "main" \in Locked(u)
    <3> SUFFICES ASSUME "main" \notin Locked(u) PROVE FALSE OBVIOUS
    <3>1. waits[t] = "event" /\ "event" \in Locked(u) BY <2>2, <2>3, <2>4
    <3>2. Role[t] = "gui" \/ LowDisk BY <2>2, <3>1
    <3>3. PICK i \in DOMAIN held[u] : held[u][i].lock = "event" BY <3>1 DEF Locked
    <3>4. DOMAIN held[u] = 1 .. Len(held[u]) /\ Len(held[u]) \in Nat
      BY <1>1, LenProperties DEF NodeInv, NodeTypes
    <3>5. Legal(Role[u], {} \cup Under(held[u], i), held[u][i])
      BY <1>1, <3>4 DEF NodeInv, HeldLegal, LegalOn
    <3>6. Under(held[u], i) \subseteq Locked(u) BY <3>4 DEF Under, Locked
    <3>7. Role[u] = "gui" BY <3>3, <3>5, <3>6 DEF Legal
    <3>8. Role[t] = "gui" BY <3>2, <3>7 DEF Started
    <3> QED BY <2>4, <3>7, <3>8, LocksAssumption DEF Single
  <2>5. PICK u \in S : For(x, u) BY <2>1
  <2>6. PICK v \in S : For(u, v) BY <2>1
  <2>7. "main" \in Locked(u) /\ "main" \in Locked(v) BY <2>4, <2>5, <2>6
  <2> QED BY <1>1, <2>6, <2>7 DEF NodeInv, OneHolds
<1>2. NodeSpec => []NodeInv BY AlwaysNodeInv
<1> QED BY <1>1, <1>2, PTL
=============================================================================
