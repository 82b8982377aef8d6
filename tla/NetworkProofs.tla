--------------------------- MODULE NetworkProofs ---------------------------
(***************************************************************************)
(* What a node promises about what it knows of the network, for any number *)
(* of addresses, sources, buckets, peers and alerts: the address manager   *)
(* finds itself consistent after every call (AddrMan), what it writes is   *)
(* what a restart reads (AddrDump), a peer is told every alert that is for *)
(* it (Alerts), and is asked for what it announced (AskFor); for any tree  *)
(* of blocks and any connections, no node is left behind the blocks it has *)
(* or asks another for one it lacks (BlockSync).                           *)
(*                                                                         *)
(* Inside a call the address manager is not consistent, so its invariant   *)
(* has two parameters: p is the entry whose count is already one more than *)
(* the buckets that hold it (Add_ counts before it inserts), q the entry   *)
(* that has left the new buckets and is in no tried bucket yet             *)
(* (MakeTried).  Between calls both are empty.                             *)
(***************************************************************************)
EXTENDS AddrDump, Alerts, AskFor, BlockSync, ChainDataProofs, SequenceTheorems,
        FiniteSetTheorems, WellFoundedInduction, TLAPS

Infos == UNION {[S -> Info] : S \in SUBSET Nat}
Addrs == UNION {[S -> Nat] : S \in SUBSET NetAddr}
Object ==
  [nIdCount : Nat, mapInfo : Infos, mapAddr : Addrs,
   vRandom : Seq(Nat), nTried : Int, nNew : Int,
   vvTried : [TriedBuckets -> SUBSET Nat], vvNew : [NewBuckets -> SUBSET Nat]]

Ids(t) == DOMAIN t.mapInfo
OwnTried(t, nId) == TriedBucketOf[<<t.mapInfo[nId].ip, t.mapInfo[nId].port>>]

Shape(t) == t \in Object /\ Ids(t) \subseteq 0 .. t.nIdCount - 1

Counted(t, q) ==
  /\ Len(t.vRandom) = Cardinality(Ids(t))
  /\ t.nTried = Cardinality(Tried(t))
  /\ t.nNew = Cardinality(New(t) \ q)

NamedOnce(t) ==
  /\ AddressesOK(t)
  /\ \A a \in DOMAIN t.mapAddr : t.mapAddr[a] \in Ids(t) /\ t.mapInfo[t.mapAddr[a]].ip = a

Ordered(t) ==
  /\ RandomOK(t)
  /\ \A i \in DOMAIN t.vRandom :
       t.vRandom[i] \in Ids(t) /\ t.mapInfo[t.vRandom[i]].nRandomPos = i

InTried(t) ==
  /\ \A nId \in Tried(t) : t.mapInfo[nId].nRefCount = 0 /\ nId \in t.vvTried[OwnTried(t, nId)]
  /\ \A b \in TriedBuckets :
       \A nId \in t.vvTried[b] : nId \in Tried(t) /\ OwnTried(t, nId) = b

InNew(t, p, q) ==
  /\ \A nId \in New(t) \ q :
       /\ t.mapInfo[nId].nRefCount \in 1 .. BucketsPerAddress
       /\ t.mapInfo[nId].nRefCount = Cardinality(Buckets(t, nId)) + IF nId \in p THEN 1 ELSE 0
  /\ \A nId \in q : nId \in New(t) /\ t.mapInfo[nId].nRefCount = 0
  /\ \A b \in NewBuckets : t.vvNew[b] \subseteq New(t) \ q

Sized(t) ==
  /\ \A b \in NewBuckets : Cardinality(t.vvNew[b]) <= NewBucketSize
  /\ \A b \in TriedBuckets : Cardinality(t.vvTried[b]) <= TriedBucketSize

Sound(t, p, q) ==
  /\ Shape(t) /\ Counted(t, q) /\ NamedOnce(t) /\ Ordered(t)
  /\ InTried(t) /\ InNew(t, p, q) /\ Sized(t)

(* Nothing in the set S of entries is lost or renamed.                     *)
Keeps(S, t, u) == \A nId \in S : nId \in Ids(u) /\ u.mapInfo[nId].ip = t.mapInfo[nId].ip
KeepsTried(t, u) == Keeps(Tried(t), t, u) /\ u.nTried = t.nTried

IInv == Sound(addrman, {}, {}) /\ nShuffle \in Nat /\ addrman.nIdCount <= MaxId

-----------------------------------------------------------------------------
(* Shapes and sizes.                                                       *)
LEMMA InfosIntro ==
  ASSUME NEW S \in SUBSET Nat, NEW m \in [S -> Info]
  PROVE  m \in Infos
BY DEF Infos

LEMMA ObjectFacts ==
  ASSUME NEW t \in Object
  PROVE  /\ t.nIdCount \in Nat /\ t.nTried \in Int /\ t.nNew \in Int
         /\ t.mapInfo \in [Ids(t) -> Info] /\ Ids(t) \in SUBSET Nat
         /\ t.mapAddr \in [DOMAIN t.mapAddr -> Nat] /\ DOMAIN t.mapAddr \in SUBSET NetAddr
         /\ t.vRandom \in Seq(Nat)
         /\ t.vvTried \in [TriedBuckets -> SUBSET Nat]
         /\ t.vvNew \in [NewBuckets -> SUBSET Nat]
<1>1. t.mapInfo \in Infos /\ t.mapAddr \in Addrs
  BY DEF Object
<1>2. t.mapInfo \in [Ids(t) -> Info] /\ Ids(t) \in SUBSET Nat
  BY <1>1 DEF Infos, Ids
<1>3. t.mapAddr \in [DOMAIN t.mapAddr -> Nat] /\ DOMAIN t.mapAddr \in SUBSET NetAddr
  BY <1>1 DEF Addrs
<1> QED BY <1>2, <1>3 DEF Object

LEMMA InfoFacts ==
  ASSUME NEW t \in Object, NEW nId \in Ids(t)
  PROVE  /\ t.mapInfo[nId] \in Info
         /\ t.mapInfo[nId].ip \in NetAddr /\ t.mapInfo[nId].port \in Port
         /\ t.mapInfo[nId].source \in Source /\ t.mapInfo[nId].fInTried \in BOOLEAN
         /\ t.mapInfo[nId].nRefCount \in Nat /\ t.mapInfo[nId].nRandomPos \in Nat
<1>1. t.mapInfo[nId] \in Info BY ObjectFacts
<1> QED BY <1>1 DEF Info

LEMMA IdsFinite ==
  ASSUME NEW t, Shape(t)
  PROVE  /\ IsFiniteSet(Ids(t))
         /\ \A S \in SUBSET Ids(t) : IsFiniteSet(S) /\ Cardinality(S) \in Nat
<1>1. t.nIdCount \in Nat BY ObjectFacts DEF Shape
<1>2. IsFiniteSet(0 .. t.nIdCount - 1) BY <1>1, FS_Interval
<1>3. IsFiniteSet(Ids(t)) BY <1>2, FS_Subset DEF Shape
<1> QED BY <1>3, FS_Subset, FS_CardinalityType

LEMMA BucketsFinite ==
  ASSUME NEW t, NEW nId
  PROVE  IsFiniteSet(Buckets(t, nId)) /\ Cardinality(Buckets(t, nId)) \in Nat
<1>1. IsFiniteSet(Buckets(t, nId)) BY FS_Subset, AddrManAssumption DEF Buckets
<1> QED BY <1>1, FS_CardinalityType

LEMMA BucketIsFinite ==
  ASSUME NEW t, NEW p, NEW q, Sound(t, p, q)
  PROVE  /\ \A b \in NewBuckets : t.vvNew[b] \in SUBSET Ids(t) /\ IsFiniteSet(t.vvNew[b])
         /\ \A b \in TriedBuckets : t.vvTried[b] \in SUBSET Ids(t) /\ IsFiniteSet(t.vvTried[b])
<1>1. \A b \in NewBuckets : t.vvNew[b] \in SUBSET Ids(t)
  BY DEF Sound, InNew, New, Ids
<1>2. \A b \in TriedBuckets : t.vvTried[b] \in SUBSET Ids(t)
  <2>1. \A b \in TriedBuckets : \A nId \in t.vvTried[b] : nId \in Ids(t)
    BY DEF Sound, InTried, Tried, Ids
  <2> QED BY <2>1
<1> QED BY <1>1, <1>2, IdsFinite DEF Sound

LEMMA TriedIsSmall ==
  ASSUME NEW t
  PROVE  /\ Tried(t) \in SUBSET Ids(t) /\ New(t) \in SUBSET Ids(t)
         /\ \A q : New(t) \ q \in SUBSET Ids(t)
BY DEF Tried, New, Ids

LEMMA OwnTriedType ==
  ASSUME NEW t \in Object, NEW nId \in Ids(t)
  PROVE  OwnTried(t, nId) \in TriedBuckets
BY InfoFacts, AddrManAssumption DEF OwnTried

LEMMA OwnBucketType ==
  ASSUME NEW t \in Object, NEW nId \in Ids(t)
  PROVE  OwnBucket(t, nId) \in NewBuckets
BY InfoFacts, AddrManAssumption DEF OwnBucket

-----------------------------------------------------------------------------
(* What each piece of a method leaves in the fields.                       *)
LEMMA AddRefsFields ==
  ASSUME NEW t \in Object, NEW nId \in Ids(t), NEW d \in Int,
         t.mapInfo[nId].nRefCount + d \in Nat
  PROVE  LET u == AddRefs(t, nId, d) IN
         /\ u \in Object /\ Ids(u) = Ids(t)
         /\ u.nIdCount = t.nIdCount /\ u.mapAddr = t.mapAddr /\ u.vRandom = t.vRandom
         /\ u.nTried = t.nTried /\ u.nNew = t.nNew
         /\ u.vvTried = t.vvTried /\ u.vvNew = t.vvNew
         /\ \A i \in Ids(t) :
              /\ u.mapInfo[i].ip = t.mapInfo[i].ip /\ u.mapInfo[i].port = t.mapInfo[i].port
              /\ u.mapInfo[i].source = t.mapInfo[i].source
              /\ u.mapInfo[i].fInTried = t.mapInfo[i].fInTried
              /\ u.mapInfo[i].nRandomPos = t.mapInfo[i].nRandomPos
              /\ u.mapInfo[i].nRefCount =
                   IF i = nId THEN t.mapInfo[i].nRefCount + d ELSE t.mapInfo[i].nRefCount
<1> DEFINE m == [t.mapInfo EXCEPT ![nId].nRefCount = t.mapInfo[nId].nRefCount + d]
<1>1. t.mapInfo \in [Ids(t) -> Info] /\ Ids(t) \in SUBSET Nat BY ObjectFacts
<1>2. m \in [Ids(t) -> Info] BY <1>1 DEF Info
<1>3. \A i \in Ids(t) :
        /\ m[i].ip = t.mapInfo[i].ip /\ m[i].port = t.mapInfo[i].port
        /\ m[i].source = t.mapInfo[i].source /\ m[i].fInTried = t.mapInfo[i].fInTried
        /\ m[i].nRandomPos = t.mapInfo[i].nRandomPos
        /\ m[i].nRefCount =
             IF i = nId THEN t.mapInfo[i].nRefCount + d ELSE t.mapInfo[i].nRefCount
  BY <1>1 DEF Info
<1>4. m \in Infos BY <1>1, <1>2, InfosIntro
<1>5. DOMAIN m = Ids(t) BY <1>2
<1> HIDE DEF m
<1>6. AddRefs(t, nId, d) = [t EXCEPT !.mapInfo = m] BY DEF AddRefs, m
<1>7. AddRefs(t, nId, d) \in Object /\ AddRefs(t, nId, d).mapInfo = m
  BY <1>4, <1>6 DEF Object
<1>8. LET u == AddRefs(t, nId, d) IN
      /\ u.nIdCount = t.nIdCount /\ u.mapAddr = t.mapAddr /\ u.vRandom = t.vRandom
      /\ u.nTried = t.nTried /\ u.nNew = t.nNew
      /\ u.vvTried = t.vvTried /\ u.vvNew = t.vvNew
  BY <1>6 DEF Object
<1> QED BY <1>3, <1>5, <1>7, <1>8 DEF Ids

LEMMA PutInFields ==
  ASSUME NEW t \in Object, NEW b \in NewBuckets, NEW nId \in Nat
  PROVE  LET u == PutIn(t, b, nId) IN
         /\ u \in Object
         /\ u.nIdCount = t.nIdCount /\ u.mapInfo = t.mapInfo /\ u.mapAddr = t.mapAddr
         /\ u.vRandom = t.vRandom /\ u.nTried = t.nTried /\ u.nNew = t.nNew
         /\ u.vvTried = t.vvTried
         /\ u.vvNew[b] = t.vvNew[b] \cup {nId}
         /\ \A c \in NewBuckets \ {b} : u.vvNew[c] = t.vvNew[c]
BY ObjectFacts DEF PutIn, Object

LEMMA TakeOutFields ==
  ASSUME NEW t \in Object, NEW b \in NewBuckets, NEW nId
  PROVE  LET u == TakeOut(t, b, nId) IN
         /\ u \in Object
         /\ u.nIdCount = t.nIdCount /\ u.mapInfo = t.mapInfo /\ u.mapAddr = t.mapAddr
         /\ u.vRandom = t.vRandom /\ u.nTried = t.nTried /\ u.nNew = t.nNew
         /\ u.vvTried = t.vvTried
         /\ u.vvNew[b] = t.vvNew[b] \ {nId}
         /\ \A c \in NewBuckets \ {b} : u.vvNew[c] = t.vvNew[c]
BY ObjectFacts DEF TakeOut, Object

LEMMA SwapFields ==
  ASSUME NEW t \in Object, Ordered(t), NEW x \in DOMAIN t.vRandom, NEW y \in DOMAIN t.vRandom
  PROVE  LET u == SwapRandom(t, x, y) IN
         /\ u \in Object /\ Ids(u) = Ids(t) /\ Ordered(u)
         /\ u.nIdCount = t.nIdCount /\ u.mapAddr = t.mapAddr
         /\ Len(u.vRandom) = Len(t.vRandom) /\ u.vRandom[y] = t.vRandom[x]
         /\ u.nTried = t.nTried /\ u.nNew = t.nNew
         /\ u.vvTried = t.vvTried /\ u.vvNew = t.vvNew
         /\ \A i \in Ids(t) :
              /\ u.mapInfo[i].ip = t.mapInfo[i].ip /\ u.mapInfo[i].port = t.mapInfo[i].port
              /\ u.mapInfo[i].source = t.mapInfo[i].source
              /\ u.mapInfo[i].fInTried = t.mapInfo[i].fInTried
              /\ u.mapInfo[i].nRefCount = t.mapInfo[i].nRefCount
<1> DEFINE u == SwapRandom(t, x, y)
           nId1 == t.vRandom[x]
           nId2 == t.vRandom[y]
           v == [t.vRandom EXCEPT ![x] = nId2, ![y] = nId1]
           m == [t.mapInfo EXCEPT ![nId1].nRandomPos = y, ![nId2].nRandomPos = x]
<1>1. /\ t.mapInfo \in [Ids(t) -> Info] /\ Ids(t) \in SUBSET Nat /\ t.vRandom \in Seq(Nat)
      /\ x \in Nat /\ y \in Nat
  BY ObjectFacts
<1>2. nId1 \in Ids(t) /\ nId2 \in Ids(t) BY DEF Ordered
<1>3. /\ m \in [Ids(t) -> Info]
      /\ \A i \in Ids(t) :
           /\ m[i].ip = t.mapInfo[i].ip /\ m[i].port = t.mapInfo[i].port
           /\ m[i].source = t.mapInfo[i].source /\ m[i].fInTried = t.mapInfo[i].fInTried
           /\ m[i].nRefCount = t.mapInfo[i].nRefCount
           /\ m[i].nRandomPos = IF i = nId2 THEN x ELSE IF i = nId1 THEN y
                                ELSE t.mapInfo[i].nRandomPos
  <2>1. \A i \in Ids(t) : t.mapInfo[i] \in Info BY <1>1
  <2> DEFINE m1 == [t.mapInfo EXCEPT ![nId1].nRandomPos = y]
             pos(i) == IF i = nId2 THEN x ELSE IF i = nId1 THEN y ELSE t.mapInfo[i].nRandomPos
  <2>2. m1 = [i \in Ids(t) |-> IF i = nId1 THEN [t.mapInfo[i] EXCEPT !.nRandomPos = y]
                                           ELSE t.mapInfo[i]]
    BY <1>1, <1>2
  <2>3. m = [i \in Ids(t) |-> IF i = nId2 THEN [m1[i] EXCEPT !.nRandomPos = x] ELSE m1[i]]
    BY <1>1, <1>2, <2>2
  <2>4. ASSUME NEW i \in Ids(t)
        PROVE  m[i] = [t.mapInfo[i] EXCEPT !.nRandomPos = pos(i)]
    BY <2>1, <2>2, <2>3, <2>4 DEF Info
  <2>5. m = [i \in Ids(t) |-> m[i]] BY <2>3
  <2> HIDE DEF m
  <2>6. ASSUME NEW i \in Ids(t)
        PROVE  /\ pos(i) \in Nat
               /\ m[i] \in Info
               /\ m[i].ip = t.mapInfo[i].ip /\ m[i].port = t.mapInfo[i].port
               /\ m[i].source = t.mapInfo[i].source /\ m[i].fInTried = t.mapInfo[i].fInTried
               /\ m[i].nRefCount = t.mapInfo[i].nRefCount /\ m[i].nRandomPos = pos(i)
    <3>1. pos(i) \in Nat BY <1>1, <2>1, <2>6 DEF Info
    <3> HIDE DEF pos
    <3> QED BY <2>1, <2>4, <3>1 DEF Info
  <2> QED BY <2>5, <2>6
<1>4. /\ v \in Seq(Nat) /\ Len(v) = Len(t.vRandom) /\ DOMAIN v = DOMAIN t.vRandom
      /\ \A i \in DOMAIN t.vRandom : v[i] = IF i = y THEN nId1 ELSE IF i = x THEN nId2
                                           ELSE t.vRandom[i]
  BY <1>1
<1>5. m \in Infos BY <1>1, <1>3, InfosIntro
<1>6. u = [t EXCEPT !.vRandom = v, !.mapInfo = m] BY DEF SwapRandom
<1> HIDE DEF u, v, m
<1>7. /\ u \in Object /\ u.mapInfo = m /\ u.vRandom = v
      /\ u.nIdCount = t.nIdCount /\ u.mapAddr = t.mapAddr
      /\ u.nTried = t.nTried /\ u.nNew = t.nNew
      /\ u.vvTried = t.vvTried /\ u.vvNew = t.vvNew
  BY <1>4, <1>5, <1>6 DEF Object
<1>8. Ids(u) = Ids(t) BY <1>3, <1>7 DEF Ids
<1>9. Ordered(u)
  <2>1. \A i \in DOMAIN t.vRandom : t.vRandom[i] \in Ids(t) /\ t.mapInfo[t.vRandom[i]].nRandomPos = i
    BY DEF Ordered
  <2>2. \A i \in Ids(t) :
          t.mapInfo[i].nRandomPos \in DOMAIN t.vRandom /\ t.vRandom[t.mapInfo[i].nRandomPos] = i
    BY DEF Ordered, RandomOK, Ids
  <2>3. /\ t.mapInfo[nId1].nRandomPos = x /\ t.mapInfo[nId2].nRandomPos = y
        /\ nId1 = nId2 => x = y
    BY <2>1
  <2>4. ASSUME NEW i \in DOMAIN v
        PROVE  v[i] \in Ids(t) /\ m[v[i]].nRandomPos = i
    <3>1. i \in DOMAIN t.vRandom BY <1>4
    <3>2. CASE i = y
      <4>1. v[i] = nId1 BY <1>4, <3>1, <3>2
      <4> QED BY <1>2, <1>3, <2>3, <3>2, <4>1
    <3>3. CASE i = x /\ i # y
      <4>1. v[i] = nId2 BY <1>4, <3>1, <3>3
      <4> QED BY <1>2, <1>3, <3>3, <4>1
    <3>4. CASE i # x /\ i # y
      <4>1. v[i] = t.vRandom[i] BY <1>4, <3>1, <3>4
      <4>2. t.vRandom[i] \in Ids(t) /\ t.mapInfo[t.vRandom[i]].nRandomPos = i BY <2>1, <3>1
      <4>3. t.vRandom[i] # nId1 /\ t.vRandom[i] # nId2 BY <2>3, <3>4, <4>2
      <4> QED BY <1>3, <4>1, <4>2, <4>3
    <3> QED BY <3>2, <3>3, <3>4
  <2>5. ASSUME NEW i \in Ids(t)
        PROVE  m[i].nRandomPos \in DOMAIN v /\ v[m[i].nRandomPos] = i
    <3>1. CASE i = nId2
      <4>1. m[i].nRandomPos = x BY <1>3, <3>1
      <4>2. v[x] = nId2 BY <1>4, <2>3
      <4> QED BY <1>4, <3>1, <4>1, <4>2
    <3>2. CASE i = nId1 /\ i # nId2
      <4>1. m[i].nRandomPos = y BY <1>3, <3>2
      <4>2. v[y] = nId1 BY <1>4
      <4> QED BY <1>4, <3>2, <4>1, <4>2
    <3>3. CASE i # nId1 /\ i # nId2
      <4> DEFINE n == t.mapInfo[i].nRandomPos
      <4>1. m[i].nRandomPos = n BY <1>3, <3>3
      <4>2. n \in DOMAIN t.vRandom /\ t.vRandom[n] = i BY <2>2
      <4>3. n # x /\ n # y BY <3>3, <4>2
      <4>4. v[n] = i BY <1>4, <4>2, <4>3
      <4> QED BY <1>4, <4>1, <4>2, <4>4
    <3> QED BY <3>1, <3>2, <3>3
  <2> QED BY <1>7, <1>8, <2>4, <2>5 DEF Ordered, RandomOK, Ids
<1>10. v[y] = nId1 BY <1>4
<1> QED BY <1>3, <1>4, <1>7, <1>8, <1>9, <1>10 DEF u

LEMMA EraseFields ==
  ASSUME NEW t \in Object, Ordered(t), NEW nId \in Ids(t)
  PROVE  LET u == Erase(t, nId) IN
         /\ u \in Object /\ Ids(u) = Ids(t) \ {nId} /\ Ordered(u)
         /\ u.nIdCount = t.nIdCount
         /\ DOMAIN u.mapAddr = DOMAIN t.mapAddr \ {t.mapInfo[nId].ip}
         /\ \A a \in DOMAIN u.mapAddr : u.mapAddr[a] = t.mapAddr[a]
         /\ Len(u.vRandom) = Len(t.vRandom) - 1
         /\ u.nTried = t.nTried /\ u.nNew = t.nNew - 1
         /\ u.vvTried = t.vvTried /\ u.vvNew = t.vvNew
         /\ \A i \in Ids(u) :
              /\ u.mapInfo[i].ip = t.mapInfo[i].ip /\ u.mapInfo[i].port = t.mapInfo[i].port
              /\ u.mapInfo[i].source = t.mapInfo[i].source
              /\ u.mapInfo[i].fInTried = t.mapInfo[i].fInTried
              /\ u.mapInfo[i].nRefCount = t.mapInfo[i].nRefCount
<1> DEFINE x == t.mapInfo[nId].nRandomPos
           L == Len(t.vRandom)
           s == SwapRandom(t, x, L)
           v == [i \in 1 .. Len(s.vRandom) - 1 |-> s.vRandom[i]]
           m == [i \in Ids(t) \ {nId} |-> s.mapInfo[i]]
           d == [a \in DOMAIN t.mapAddr \ {t.mapInfo[nId].ip} |-> t.mapAddr[a]]
           u == Erase(t, nId)
<1>1. t.vRandom \in Seq(Nat) /\ t.nNew \in Int BY ObjectFacts
<1>2. x \in DOMAIN t.vRandom /\ t.vRandom[x] = nId BY DEF Ordered, RandomOK, Ids
<1>3. L \in Nat /\ L \in DOMAIN t.vRandom BY <1>1, <1>2
<1>4. /\ s \in Object /\ Ids(s) = Ids(t) /\ Ordered(s)
      /\ s.nIdCount = t.nIdCount /\ s.mapAddr = t.mapAddr
      /\ Len(s.vRandom) = L /\ s.vRandom[L] = nId
      /\ s.nTried = t.nTried /\ s.nNew = t.nNew
      /\ s.vvTried = t.vvTried /\ s.vvNew = t.vvNew
      /\ \A i \in Ids(t) :
           /\ s.mapInfo[i].ip = t.mapInfo[i].ip /\ s.mapInfo[i].port = t.mapInfo[i].port
           /\ s.mapInfo[i].source = t.mapInfo[i].source
           /\ s.mapInfo[i].fInTried = t.mapInfo[i].fInTried
           /\ s.mapInfo[i].nRefCount = t.mapInfo[i].nRefCount
  BY <1>2, <1>3, SwapFields
<1> HIDE DEF s
<1>5. /\ s.mapInfo \in [Ids(t) -> Info] /\ Ids(t) \in SUBSET Nat /\ s.vRandom \in Seq(Nat)
  BY <1>4, ObjectFacts
<1>6. v \in Seq(Nat) /\ Len(v) = L - 1 /\ DOMAIN v = 1 .. L - 1
      /\ \A i \in 1 .. L - 1 : v[i] = s.vRandom[i]
  BY <1>3, <1>4, <1>5
<1>7. m \in [Ids(t) \ {nId} -> Info] BY <1>5
<1>8. m \in Infos BY <1>5, <1>7, InfosIntro
<1>9. d \in [DOMAIN t.mapAddr \ {t.mapInfo[nId].ip} -> Nat] BY ObjectFacts
<1>10. d \in Addrs BY <1>9, ObjectFacts DEF Addrs
<1>11. u = [s EXCEPT !.vRandom = v, !.mapAddr = d, !.mapInfo = m, !.nNew = t.nNew - 1]
  BY DEF Erase, s, Ids
<1> HIDE DEF v, m, d, u, L, x
<1>12. /\ u \in Object /\ u.mapInfo = m /\ u.vRandom = v /\ u.mapAddr = d
       /\ u.nIdCount = t.nIdCount /\ u.nNew = t.nNew - 1 /\ u.nTried = t.nTried
       /\ u.vvTried = t.vvTried /\ u.vvNew = t.vvNew
  <2>1. /\ s.vvTried \in [TriedBuckets -> SUBSET Nat] /\ s.vvNew \in [NewBuckets -> SUBSET Nat]
        /\ s.nIdCount \in Nat /\ s.nTried \in Int /\ t.nNew - 1 \in Int
    BY <1>1, <1>4, ObjectFacts
  <2>2. u = [nIdCount |-> s.nIdCount, mapInfo |-> m, mapAddr |-> d, vRandom |-> v,
             nTried |-> s.nTried, nNew |-> t.nNew - 1, vvTried |-> s.vvTried, vvNew |-> s.vvNew]
    BY <1>4, <1>11 DEF Object
  <2>3. u \in Object BY <1>6, <1>8, <1>10, <2>1, <2>2 DEF Object
  <2> QED BY <1>4, <2>2, <2>3
<1>13. Ids(u) = Ids(t) \ {nId} /\ \A i \in Ids(u) : u.mapInfo[i] = s.mapInfo[i]
  BY <1>12 DEF Ids, m
<1>14. Ordered(u)
  <2>1. \A i \in 1 .. L : s.vRandom[i] \in Ids(t) /\ s.mapInfo[s.vRandom[i]].nRandomPos = i
    <3>1. DOMAIN s.vRandom = 1 .. L BY <1>4, <1>5
    <3> QED BY <1>4, <3>1 DEF Ordered
  <2>2. \A i \in Ids(t) :
          s.mapInfo[i].nRandomPos \in 1 .. L /\ s.vRandom[s.mapInfo[i].nRandomPos] = i
    <3>1. DOMAIN s.vRandom = 1 .. L BY <1>4, <1>5
    <3> QED BY <1>4, <3>1 DEF Ordered, RandomOK, Ids
  <2>3. s.mapInfo[nId].nRandomPos = L
    <3>1. L \in 1 .. L BY <1>1, <1>2 DEF L
    <3> QED BY <1>4, <2>1, <3>1
  <2>4. ASSUME NEW i \in DOMAIN v
        PROVE  v[i] \in Ids(u) /\ u.mapInfo[v[i]].nRandomPos = i
    <3>1. i \in 1 .. L /\ i # L /\ v[i] = s.vRandom[i] BY <1>3, <1>6
    <3>2. v[i] \in Ids(t) /\ s.mapInfo[v[i]].nRandomPos = i BY <2>1, <3>1
    <3>3. v[i] # nId BY <2>3, <3>1, <3>2
    <3> QED BY <1>13, <3>2, <3>3
  <2>5. ASSUME NEW i \in Ids(u)
        PROVE  /\ u.mapInfo[i].nRandomPos \in DOMAIN v
               /\ v[u.mapInfo[i].nRandomPos] = i
    <3>1. i \in Ids(t) /\ i # nId /\ u.mapInfo[i] = s.mapInfo[i] BY <1>13
    <3>2. s.mapInfo[i].nRandomPos \in 1 .. L /\ s.vRandom[s.mapInfo[i].nRandomPos] = i
      BY <2>2, <3>1
    <3>3. s.mapInfo[i].nRandomPos # L BY <1>4, <3>1, <3>2
    <3>4. s.mapInfo[i].nRandomPos \in 1 .. L - 1 BY <1>3, <3>2, <3>3
    <3> QED BY <1>6, <3>1, <3>2, <3>4
  <2> QED BY <1>12, <2>4, <2>5 DEF Ordered, RandomOK, Ids
<1>15. Len(u.vRandom) = Len(t.vRandom) - 1 BY <1>6, <1>12 DEF L
<1>16. /\ DOMAIN u.mapAddr = DOMAIN t.mapAddr \ {t.mapInfo[nId].ip}
       /\ \A a \in DOMAIN u.mapAddr : u.mapAddr[a] = t.mapAddr[a]
  BY <1>12 DEF d
<1>17. \A i \in Ids(u) :
         /\ u.mapInfo[i].ip = t.mapInfo[i].ip /\ u.mapInfo[i].port = t.mapInfo[i].port
         /\ u.mapInfo[i].source = t.mapInfo[i].source
         /\ u.mapInfo[i].fInTried = t.mapInfo[i].fInTried
         /\ u.mapInfo[i].nRefCount = t.mapInfo[i].nRefCount
  BY <1>4, <1>13
<1> QED BY <1>12, <1>13, <1>14, <1>15, <1>16, <1>17 DEF u

LEMMA CreateFields ==
  ASSUME NEW t \in Object, Shape(t), Ordered(t),
         NEW ip \in NetAddr, NEW port \in Port, NEW source \in Source
  PROVE  LET u == Create(t, ip, port, source) IN
         /\ u \in Object /\ Ids(u) = Ids(t) \cup {t.nIdCount} /\ t.nIdCount \notin Ids(t)
         /\ Ordered(u)
         /\ u.nIdCount = t.nIdCount + 1
         /\ DOMAIN u.mapAddr = DOMAIN t.mapAddr \cup {ip}
         /\ u.mapAddr[ip] = t.nIdCount
         /\ \A a \in DOMAIN t.mapAddr \ {ip} : u.mapAddr[a] = t.mapAddr[a]
         /\ Len(u.vRandom) = Len(t.vRandom) + 1
         /\ u.nTried = t.nTried /\ u.nNew = t.nNew + 1
         /\ u.vvTried = t.vvTried /\ u.vvNew = t.vvNew
         /\ \A i \in Ids(t) : u.mapInfo[i] = t.mapInfo[i]
         /\ u.mapInfo[t.nIdCount].ip = ip /\ ~u.mapInfo[t.nIdCount].fInTried
         /\ u.mapInfo[t.nIdCount].nRefCount = 0
<1> DEFINE n == t.nIdCount
           L == Len(t.vRandom)
           info == [ip |-> ip, port |-> port, source |-> source, fInTried |-> FALSE,
                    nRefCount |-> 0, nRandomPos |-> L + 1]
           m == [i \in Ids(t) \cup {n} |-> IF i = n THEN info ELSE t.mapInfo[i]]
           d == [a \in DOMAIN t.mapAddr \cup {ip} |-> IF a = ip THEN n ELSE t.mapAddr[a]]
           v == Append(t.vRandom, n)
           u == Create(t, ip, port, source)
<1>1. /\ n \in Nat /\ t.nNew \in Int /\ t.vRandom \in Seq(Nat)
      /\ t.mapInfo \in [Ids(t) -> Info] /\ Ids(t) \in SUBSET Nat
      /\ t.mapAddr \in [DOMAIN t.mapAddr -> Nat] /\ DOMAIN t.mapAddr \in SUBSET NetAddr
  BY ObjectFacts
<1>2. n \notin Ids(t) BY <1>1 DEF Shape
<1>3. L \in Nat /\ DOMAIN t.vRandom = 1 .. L BY <1>1
<1>4. info \in Info BY <1>3 DEF Info
<1>5. m \in [Ids(t) \cup {n} -> Info] BY <1>1, <1>4
<1>6. m \in Infos BY <1>1, <1>5, InfosIntro
<1>7. d \in [DOMAIN t.mapAddr \cup {ip} -> Nat] BY <1>1
<1>8. d \in Addrs BY <1>1, <1>7 DEF Addrs
<1>9. /\ v \in Seq(Nat) /\ Len(v) = L + 1 /\ DOMAIN v = 1 .. L + 1
      /\ \A i \in 1 .. L : v[i] = t.vRandom[i]
      /\ v[L + 1] = n
  BY <1>1
<1>10. u = [t EXCEPT !.nIdCount = n + 1, !.mapInfo = m, !.mapAddr = d, !.vRandom = v,
                     !.nNew = t.nNew + 1]
  BY DEF Create, Ids
<1>11. m[n] = info /\ \A i \in Ids(t) : m[i] = t.mapInfo[i] BY <1>2
<1>12. info.ip = ip /\ ~info.fInTried /\ info.nRefCount = 0 /\ info.nRandomPos = L + 1
  OBVIOUS
<1> HIDE DEF m, d, v, u, info
<1>13. /\ u \in Object /\ u.mapInfo = m /\ u.vRandom = v /\ u.mapAddr = d
       /\ u.nIdCount = n + 1 /\ u.nNew = t.nNew + 1 /\ u.nTried = t.nTried
       /\ u.vvTried = t.vvTried /\ u.vvNew = t.vvNew
  <2>1. /\ t.vvTried \in [TriedBuckets -> SUBSET Nat] /\ t.vvNew \in [NewBuckets -> SUBSET Nat]
        /\ n + 1 \in Nat /\ t.nTried \in Int /\ t.nNew + 1 \in Int
    BY <1>1, ObjectFacts
  <2>2. u = [nIdCount |-> n + 1, mapInfo |-> m, mapAddr |-> d, vRandom |-> v,
             nTried |-> t.nTried, nNew |-> t.nNew + 1, vvTried |-> t.vvTried, vvNew |-> t.vvNew]
    BY <1>10 DEF Object
  <2>3. u \in Object BY <1>6, <1>8, <1>9, <2>1, <2>2 DEF Object
  <2> QED BY <2>2, <2>3
<1>14. Ids(u) = Ids(t) \cup {n} BY <1>5, <1>13 DEF Ids
<1>15. Ordered(u)
  <2>1. \A i \in 1 .. L : t.vRandom[i] \in Ids(t) /\ t.mapInfo[t.vRandom[i]].nRandomPos = i
    BY <1>3 DEF Ordered
  <2>2. \A i \in Ids(t) :
          t.mapInfo[i].nRandomPos \in 1 .. L /\ t.vRandom[t.mapInfo[i].nRandomPos] = i
    BY <1>3 DEF Ordered, RandomOK, Ids
  <2>3. ASSUME NEW i \in DOMAIN v
        PROVE  v[i] \in Ids(u) /\ m[v[i]].nRandomPos = i
    <3>1. CASE i = L + 1 BY <1>9, <1>11, <1>12, <1>14, <3>1
    <3>2. CASE i # L + 1
      <4>1. i \in 1 .. L BY <1>3, <1>9, <3>2
      <4> QED BY <1>9, <1>11, <1>14, <2>1, <4>1
    <3> QED BY <3>1, <3>2
  <2>4. ASSUME NEW i \in Ids(u)
        PROVE  m[i].nRandomPos \in DOMAIN v /\ v[m[i].nRandomPos] = i
    <3>1. CASE i = n BY <1>3, <1>9, <1>11, <1>12, <3>1
    <3>2. CASE i # n
      <4>1. i \in Ids(t) BY <1>14, <3>2
      <4>2. m[i] = t.mapInfo[i] BY <1>11, <4>1
      <4>3. m[i].nRandomPos \in 1 .. L /\ t.vRandom[m[i].nRandomPos] = i BY <2>2, <4>1, <4>2
      <4> QED BY <1>3, <1>9, <4>3
    <3> QED BY <3>1, <3>2
  <2> QED BY <1>13, <2>3, <2>4 DEF Ordered, RandomOK, Ids
<1>16. /\ DOMAIN u.mapAddr = DOMAIN t.mapAddr \cup {ip} /\ u.mapAddr[ip] = n
       /\ \A a \in DOMAIN t.mapAddr \ {ip} : u.mapAddr[a] = t.mapAddr[a]
  BY <1>13 DEF d
<1> QED BY <1>2, <1>9, <1>11, <1>12, <1>13, <1>14, <1>15, <1>16 DEF u
-----------------------------------------------------------------------------
(* What each piece of a method does to the invariant.                      *)
LEMMA SameMembers ==
  ASSUME NEW t, NEW u, Ids(u) = Ids(t),
         \A i \in Ids(t) : u.mapInfo[i].fInTried = t.mapInfo[i].fInTried
  PROVE  Tried(u) = Tried(t) /\ New(u) = New(t)
BY DEF Tried, New, Ids

LEMMA SameBuckets ==
  ASSUME NEW t, NEW u, NEW nId,
         \A b \in NewBuckets : nId \in u.vvNew[b] <=> nId \in t.vvNew[b]
  PROVE  Buckets(u, nId) = Buckets(t, nId)
BY DEF Buckets

(* Exchanging two elements of vRandom.                                     *)
LEMMA SwapKeeps ==
  ASSUME NEW t, NEW p, NEW q, Sound(t, p, q),
         NEW x \in DOMAIN t.vRandom, NEW y \in DOMAIN t.vRandom
  PROVE  Sound(SwapRandom(t, x, y), p, q)
<1> DEFINE u == SwapRandom(t, x, y)
<1>1. t \in Object /\ Ordered(t) BY DEF Sound, Shape
<1>2. /\ u \in Object /\ Ids(u) = Ids(t) /\ Ordered(u)
      /\ u.nIdCount = t.nIdCount /\ u.mapAddr = t.mapAddr
      /\ Len(u.vRandom) = Len(t.vRandom)
      /\ u.nTried = t.nTried /\ u.nNew = t.nNew
      /\ u.vvTried = t.vvTried /\ u.vvNew = t.vvNew
      /\ \A i \in Ids(t) :
           /\ u.mapInfo[i].ip = t.mapInfo[i].ip /\ u.mapInfo[i].port = t.mapInfo[i].port
           /\ u.mapInfo[i].fInTried = t.mapInfo[i].fInTried
           /\ u.mapInfo[i].nRefCount = t.mapInfo[i].nRefCount
  BY <1>1, SwapFields
<1> HIDE DEF u
<1>3. Tried(u) = Tried(t) /\ New(u) = New(t) BY <1>2, SameMembers
<1>4. \A i : Buckets(u, i) = Buckets(t, i) BY <1>2 DEF Buckets
<1>5. Shape(u) BY <1>2 DEF Sound, Shape
<1>6. Counted(u, q) BY <1>2, <1>3 DEF Sound, Counted
<1>7. NamedOnce(u) BY <1>2 DEF Sound, NamedOnce, AddressesOK, Ids
<1>8. InTried(u)
  <2>1. \A i \in Ids(t) : OwnTried(u, i) = OwnTried(t, i) BY <1>2 DEF OwnTried
  <2> QED BY <1>2, <1>3, <2>1, TriedIsSmall DEF Sound, InTried
<1>9. InNew(u, p, q) BY <1>2, <1>3, <1>4, TriedIsSmall DEF Sound, InNew
<1>10. Sized(u) BY <1>2 DEF Sound, Sized
<1> QED BY <1>2, <1>5, <1>6, <1>7, <1>8, <1>9, <1>10 DEF Sound, u

(* An entry of the new table is counted once more before it is inserted.   *)
LEMMA AddRefKeeps ==
  ASSUME NEW t, Sound(t, {}, {}), NEW nId \in New(t),
         t.mapInfo[nId].nRefCount # BucketsPerAddress
  PROVE  Sound(AddRefs(t, nId, 1), {nId}, {})
<1> DEFINE u == AddRefs(t, nId, 1)
<1>1. t \in Object /\ nId \in Ids(t) BY TriedIsSmall DEF Sound, Shape
<1>2. /\ t.mapInfo[nId].nRefCount \in 1 .. BucketsPerAddress
      /\ BucketsPerAddress \in Nat
  BY AddrManAssumption DEF Sound, InNew
<1>3. /\ u \in Object /\ Ids(u) = Ids(t)
      /\ u.nIdCount = t.nIdCount /\ u.mapAddr = t.mapAddr /\ u.vRandom = t.vRandom
      /\ u.nTried = t.nTried /\ u.nNew = t.nNew
      /\ u.vvTried = t.vvTried /\ u.vvNew = t.vvNew
      /\ \A i \in Ids(t) :
           /\ u.mapInfo[i].ip = t.mapInfo[i].ip /\ u.mapInfo[i].port = t.mapInfo[i].port
           /\ u.mapInfo[i].fInTried = t.mapInfo[i].fInTried
           /\ u.mapInfo[i].nRandomPos = t.mapInfo[i].nRandomPos
           /\ u.mapInfo[i].nRefCount =
                IF i = nId THEN t.mapInfo[i].nRefCount + 1 ELSE t.mapInfo[i].nRefCount
  BY <1>1, <1>2, AddRefsFields
<1> HIDE DEF u
<1>4. Tried(u) = Tried(t) /\ New(u) = New(t) BY <1>3, SameMembers
<1>5. \A i : Buckets(u, i) = Buckets(t, i) BY <1>3 DEF Buckets
<1>6. Shape(u) BY <1>3 DEF Sound, Shape
<1>7. Counted(u, {}) BY <1>3, <1>4 DEF Sound, Counted
<1>8. NamedOnce(u) BY <1>3 DEF Sound, NamedOnce, AddressesOK, Ids
<1>9. Ordered(u) BY <1>3 DEF Sound, Ordered, RandomOK, Ids
<1>10. InTried(u)
  <2>1. \A i \in Ids(t) : OwnTried(u, i) = OwnTried(t, i) BY <1>3 DEF OwnTried
  <2>2. nId \notin Tried(t) BY DEF New
  <2> QED BY <1>3, <1>4, <2>1, <2>2, TriedIsSmall DEF Sound, InTried
<1>11. InNew(u, {nId}, {})
  <2>1. ASSUME NEW i \in New(u) \ {}
        PROVE  /\ u.mapInfo[i].nRefCount \in 1 .. BucketsPerAddress
               /\ u.mapInfo[i].nRefCount =
                    Cardinality(Buckets(u, i)) + IF i \in {nId} THEN 1 ELSE 0
    <3>1. i \in New(t) \ {} /\ i \in Ids(t) BY <1>4, TriedIsSmall
    <3>2. /\ t.mapInfo[i].nRefCount \in 1 .. BucketsPerAddress
          /\ t.mapInfo[i].nRefCount = Cardinality(Buckets(t, i)) + 0
      BY <3>1 DEF Sound, InNew
    <3>3. Buckets(u, i) = Buckets(t, i) /\ Cardinality(Buckets(t, i)) \in Nat
      BY <1>5, BucketsFinite
    <3> QED BY <1>2, <1>3, <3>1, <3>2, <3>3
  <2> QED BY <1>3, <1>4, <2>1 DEF Sound, InNew
<1>12. Sized(u) BY <1>3 DEF Sound, Sized
<1> QED BY <1>6, <1>7, <1>8, <1>9, <1>10, <1>11, <1>12 DEF Sound, u
(* A new entry, counted once.                                              *)
LEMMA CreateKeeps ==
  ASSUME NEW t, Sound(t, {}, {}), NEW ip \in NetAddr \ DOMAIN t.mapAddr,
         NEW port \in Port, NEW source \in Source
  PROVE  LET u == AddRefs(Create(t, ip, port, source), t.nIdCount, 1) IN
         /\ Sound(u, {t.nIdCount}, {}) /\ t.nIdCount \in New(u)
         /\ \A b \in NewBuckets : t.nIdCount \notin u.vvNew[b]
         /\ u.nIdCount = t.nIdCount + 1
<1> DEFINE n == t.nIdCount
           c == Create(t, ip, port, source)
           u == AddRefs(c, n, 1)
<1>1. t \in Object /\ Shape(t) /\ Ordered(t) /\ n \in Nat /\ ip \in NetAddr
  BY ObjectFacts DEF Sound, Shape
<1>2. /\ c \in Object /\ Ids(c) = Ids(t) \cup {n} /\ n \notin Ids(t) /\ Ordered(c)
      /\ c.nIdCount = n + 1
      /\ DOMAIN c.mapAddr = DOMAIN t.mapAddr \cup {ip} /\ c.mapAddr[ip] = n
      /\ \A a \in DOMAIN t.mapAddr \ {ip} : c.mapAddr[a] = t.mapAddr[a]
      /\ Len(c.vRandom) = Len(t.vRandom) + 1
      /\ c.nTried = t.nTried /\ c.nNew = t.nNew + 1
      /\ c.vvTried = t.vvTried /\ c.vvNew = t.vvNew
      /\ \A i \in Ids(t) : c.mapInfo[i] = t.mapInfo[i]
      /\ c.mapInfo[n].ip = ip /\ ~c.mapInfo[n].fInTried /\ c.mapInfo[n].nRefCount = 0
  BY <1>1, CreateFields
<1> HIDE DEF c
<1>3. /\ u \in Object /\ Ids(u) = Ids(c)
      /\ u.nIdCount = c.nIdCount /\ u.mapAddr = c.mapAddr /\ u.vRandom = c.vRandom
      /\ u.nTried = c.nTried /\ u.nNew = c.nNew
      /\ u.vvTried = c.vvTried /\ u.vvNew = c.vvNew
      /\ \A i \in Ids(c) :
           /\ u.mapInfo[i].ip = c.mapInfo[i].ip /\ u.mapInfo[i].port = c.mapInfo[i].port
           /\ u.mapInfo[i].fInTried = c.mapInfo[i].fInTried
           /\ u.mapInfo[i].nRandomPos = c.mapInfo[i].nRandomPos
           /\ u.mapInfo[i].nRefCount =
                IF i = n THEN c.mapInfo[i].nRefCount + 1 ELSE c.mapInfo[i].nRefCount
  <2>1. n \in Ids(c) /\ c.mapInfo[n].nRefCount + 1 \in Nat BY <1>2
  <2> QED BY <1>2, <2>1, AddRefsFields
<1> HIDE DEF u, n
<1>4. /\ \A i \in Ids(t) :
           /\ i \in Ids(u) /\ i # n
           /\ u.mapInfo[i].ip = t.mapInfo[i].ip /\ u.mapInfo[i].port = t.mapInfo[i].port
           /\ u.mapInfo[i].fInTried = t.mapInfo[i].fInTried
           /\ u.mapInfo[i].nRefCount = t.mapInfo[i].nRefCount
      /\ n \in Ids(u) /\ u.mapInfo[n].ip = ip /\ ~u.mapInfo[n].fInTried
      /\ u.mapInfo[n].nRefCount = 1
  BY <1>2, <1>3
<1>5. Tried(u) = Tried(t) /\ New(u) = New(t) \cup {n}
  <2>1. Tried(u) = Tried(t) BY <1>2, <1>3, <1>4 DEF Tried, Ids
  <2> QED BY <1>2, <1>3, <2>1 DEF New, Tried, Ids
<1>6. \A b \in NewBuckets : n \notin u.vvNew[b]
  BY <1>2, <1>3, BucketIsFinite
<1>7. Shape(u)
  <2>1. Ids(t) \subseteq 0 .. n - 1 BY <1>1 DEF Shape, n
  <2>2. \A i \in Ids(u) : i \in 0 .. u.nIdCount - 1 BY <1>1, <1>2, <1>3, <2>1
  <2> QED BY <1>3, <2>2 DEF Shape
<1>8. Counted(u, {})
  <2>1. n \notin New(t) BY <1>2, TriedIsSmall
  <2>2. IsFiniteSet(Ids(t)) /\ IsFiniteSet(New(t)) BY <1>1, IdsFinite, TriedIsSmall
  <2>a. Ids(u) = Ids(t) \cup {n} /\ n \notin Ids(t) BY <1>2, <1>3
  <2>3. Cardinality(Ids(u)) = Cardinality(Ids(t)) + 1 BY <2>2, <2>a, FS_AddElement
  <2>4. Cardinality(New(u)) = Cardinality(New(t)) + 1 BY <1>5, <2>1, <2>2, FS_AddElement
  <2>5. New(t) \ {} = New(t) /\ New(u) \ {} = New(u) OBVIOUS
  <2> QED BY <1>2, <1>3, <1>5, <2>3, <2>4, <2>5 DEF Sound, Counted
<1>9. NamedOnce(u)
  <2>1. \A i \in Ids(t) : t.mapInfo[i].ip \in DOMAIN t.mapAddr /\ t.mapAddr[t.mapInfo[i].ip] = i
    BY DEF Sound, NamedOnce, AddressesOK, Ids
  <2>2. \A a \in DOMAIN t.mapAddr : t.mapAddr[a] \in Ids(t) /\ t.mapInfo[t.mapAddr[a]].ip = a
    BY DEF Sound, NamedOnce
  <2>3. \A i \in Ids(u) : u.mapInfo[i].ip \in DOMAIN u.mapAddr /\ u.mapAddr[u.mapInfo[i].ip] = i
    BY <1>2, <1>3, <1>4, <2>1
  <2>4. \A a \in DOMAIN u.mapAddr : u.mapAddr[a] \in Ids(u) /\ u.mapInfo[u.mapAddr[a]].ip = a
    BY <1>2, <1>3, <1>4, <2>2
  <2> QED BY <2>3, <2>4 DEF NamedOnce, AddressesOK, Ids
<1>10. Ordered(u) BY <1>2, <1>3 DEF Ordered, RandomOK, Ids
<1>11. InTried(u)
  <2>1. \A i \in Ids(t) : OwnTried(u, i) = OwnTried(t, i) BY <1>4 DEF OwnTried
  <2> QED BY <1>2, <1>3, <1>4, <1>5, <2>1, TriedIsSmall DEF Sound, InTried
<1>12. InNew(u, {n}, {})
  <2>1. ASSUME NEW i \in New(u) \ {}
        PROVE  /\ u.mapInfo[i].nRefCount \in 1 .. BucketsPerAddress
               /\ u.mapInfo[i].nRefCount = Cardinality(Buckets(u, i)) + IF i \in {n} THEN 1 ELSE 0
    <3>1. CASE i = n
      <4>1. Buckets(u, n) = {} BY <1>6 DEF Buckets
      <4>2. Cardinality(Buckets(u, n)) = 0 BY <4>1, FS_EmptySet
      <4>3. 1 \in 1 .. BucketsPerAddress BY AddrManAssumption
      <4> QED BY <1>4, <3>1, <4>2, <4>3
    <3>2. CASE i # n
      <4>1. i \in New(t) \ {} /\ i \in Ids(t) BY <1>5, <3>2, TriedIsSmall
      <4>2. Buckets(u, i) = Buckets(t, i) BY <1>2, <1>3 DEF Buckets
      <4>3. /\ t.mapInfo[i].nRefCount \in 1 .. BucketsPerAddress
            /\ t.mapInfo[i].nRefCount = Cardinality(Buckets(t, i)) + 0
        BY <4>1 DEF Sound, InNew
      <4> QED BY <1>4, <3>2, <4>1, <4>2, <4>3, BucketsFinite
    <3> QED BY <3>1, <3>2
  <2> QED BY <1>2, <1>3, <1>5, <2>1 DEF Sound, InNew
<1>13. Sized(u) BY <1>2, <1>3 DEF Sound, Sized
<1>14. Sound(u, {n}, {}) BY <1>7, <1>8, <1>9, <1>10, <1>11, <1>12, <1>13 DEF Sound
<1>15. n \in New(u) /\ u.nIdCount = n + 1 BY <1>2, <1>3, <1>5
<1> QED BY <1>6, <1>14, <1>15 DEF u, c, n

(* An entry counted in advance is inserted into a bucket with a place.     *)
LEMMA PutInKeeps ==
  ASSUME NEW t, NEW nId, Sound(t, {nId}, {}), nId \in New(t), NEW b \in NewBuckets,
         nId \notin t.vvNew[b], Cardinality(t.vvNew[b]) < NewBucketSize
  PROVE  Sound(PutIn(t, b, nId), {}, {})
<1> DEFINE u == PutIn(t, b, nId)
<1>1. t \in Object /\ nId \in Ids(t) BY TriedIsSmall DEF Sound, Shape
<1>2. nId \in Nat BY <1>1, ObjectFacts
<1>3. /\ u \in Object
      /\ u.nIdCount = t.nIdCount /\ u.mapInfo = t.mapInfo /\ u.mapAddr = t.mapAddr
      /\ u.vRandom = t.vRandom /\ u.nTried = t.nTried /\ u.nNew = t.nNew
      /\ u.vvTried = t.vvTried
      /\ u.vvNew[b] = t.vvNew[b] \cup {nId}
      /\ \A c \in NewBuckets \ {b} : u.vvNew[c] = t.vvNew[c]
  BY <1>1, <1>2, PutInFields
<1> HIDE DEF u
<1>4. Ids(u) = Ids(t) /\ Tried(u) = Tried(t) /\ New(u) = New(t) BY <1>3 DEF Ids, Tried, New
<1>5. Shape(u) /\ Counted(u, {}) BY <1>3, <1>4 DEF Sound, Shape, Counted
<1>6. NamedOnce(u) /\ Ordered(u)
  BY <1>3, <1>4 DEF Sound, NamedOnce, AddressesOK, Ordered, RandomOK
<1>7. InTried(u) BY <1>3, <1>4 DEF Sound, InTried, OwnTried
<1>8. InNew(u, {}, {})
  <2>1. ASSUME NEW i \in New(u) \ {}
        PROVE  /\ u.mapInfo[i].nRefCount \in 1 .. BucketsPerAddress
               /\ u.mapInfo[i].nRefCount = Cardinality(Buckets(u, i)) + IF i \in {} THEN 1 ELSE 0
    <3>1. /\ t.mapInfo[i].nRefCount \in 1 .. BucketsPerAddress
          /\ t.mapInfo[i].nRefCount = Cardinality(Buckets(t, i)) + IF i \in {nId} THEN 1 ELSE 0
      BY <1>4 DEF Sound, InNew
    <3>2. CASE i = nId
      <4>1. Buckets(u, i) = Buckets(t, i) \cup {b} BY <1>3, <3>2 DEF Buckets
      <4>2. b \notin Buckets(t, i) BY <3>2 DEF Buckets
      <4>3. Cardinality(Buckets(u, i)) = Cardinality(Buckets(t, i)) + 1
        BY <4>1, <4>2, BucketsFinite, FS_AddElement
      <4> QED BY <1>3, <3>1, <3>2, <4>3, BucketsFinite
    <3>3. CASE i # nId
      <4>1. Buckets(u, i) = Buckets(t, i) BY <1>3, <3>3 DEF Buckets
      <4> QED BY <1>3, <3>1, <3>3, <4>1
    <3> QED BY <3>2, <3>3
  <2>2. \A c \in NewBuckets : u.vvNew[c] \subseteq New(u) \ {}
    BY <1>3, <1>4 DEF Sound, InNew
  <2> QED BY <2>1, <2>2 DEF InNew
<1>9. Sized(u)
  <2>1. IsFiniteSet(t.vvNew[b]) BY BucketIsFinite
  <2>a. u.vvNew[b] = t.vvNew[b] \cup {nId} BY <1>3
  <2>2. Cardinality(u.vvNew[b]) = Cardinality(t.vvNew[b]) + 1 BY <2>1, <2>a, FS_AddElement
  <2>3. Cardinality(t.vvNew[b]) \in Nat /\ NewBucketSize \in Nat
    BY <2>1, FS_CardinalityType, AddrManAssumption
  <2>4. Cardinality(u.vvNew[b]) <= NewBucketSize BY <2>2, <2>3
  <2>5. \A c \in NewBuckets : Cardinality(u.vvNew[c]) <= NewBucketSize
    BY <1>3, <2>4 DEF Sound, Sized
  <2> QED BY <1>3, <2>5 DEF Sound, Sized
<1> QED BY <1>5, <1>6, <1>7, <1>8, <1>9 DEF Sound, u
(* ShrinkNew on an entry that other buckets hold too.                      *)
LEMMA ShrinkLeaves ==
  ASSUME NEW t, NEW nId, Sound(t, {nId}, {}), nId \in New(t), NEW b \in NewBuckets,
         NEW old \in t.vvNew[b], old # nId, t.mapInfo[old].nRefCount # 1
  PROVE  LET u == Shrink(t, b, old) IN
         /\ Sound(u, {nId}, {}) /\ nId \in New(u) /\ u.nIdCount = t.nIdCount
         /\ nId \notin t.vvNew[b] => nId \notin u.vvNew[b]
         /\ KeepsTried(t, u)
         /\ Cardinality(u.vvNew[b]) = Cardinality(t.vvNew[b]) - 1
<1> DEFINE r == AddRefs(t, old, -1)
           u == TakeOut(r, b, old)
<1>1. Shrink(t, b, old) = u BY DEF Shrink
<1>2. t \in Object /\ old \in New(t) /\ old \in Ids(t) /\ old \notin Tried(t)
  BY TriedIsSmall DEF Sound, Shape, InNew, New
<1>3. /\ t.mapInfo[old].nRefCount \in 1 .. BucketsPerAddress
      /\ t.mapInfo[old].nRefCount = Cardinality(Buckets(t, old))
  <2>1. old \in New(t) \ {} /\ old \notin {nId} BY <1>2
  <2>2. t.mapInfo[old].nRefCount = Cardinality(Buckets(t, old)) + 0
    BY <2>1 DEF Sound, InNew
  <2> QED BY <2>1, <2>2, BucketsFinite DEF Sound, InNew
<1>4. BucketsPerAddress \in Nat BY AddrManAssumption
<1>5. /\ r \in Object /\ Ids(r) = Ids(t)
      /\ r.nIdCount = t.nIdCount /\ r.mapAddr = t.mapAddr /\ r.vRandom = t.vRandom
      /\ r.nTried = t.nTried /\ r.nNew = t.nNew
      /\ r.vvTried = t.vvTried /\ r.vvNew = t.vvNew
      /\ \A i \in Ids(t) :
           /\ r.mapInfo[i].ip = t.mapInfo[i].ip /\ r.mapInfo[i].port = t.mapInfo[i].port
           /\ r.mapInfo[i].fInTried = t.mapInfo[i].fInTried
           /\ r.mapInfo[i].nRandomPos = t.mapInfo[i].nRandomPos
           /\ r.mapInfo[i].nRefCount =
                IF i = old THEN t.mapInfo[i].nRefCount + (-1) ELSE t.mapInfo[i].nRefCount
  <2>1. t.mapInfo[old].nRefCount + (-1) \in Nat /\ -1 \in Int BY <1>3, <1>4
  <2> QED BY <1>2, <2>1, AddRefsFields
<1> HIDE DEF r
<1>6. /\ u \in Object
      /\ u.nIdCount = r.nIdCount /\ u.mapInfo = r.mapInfo /\ u.mapAddr = r.mapAddr
      /\ u.vRandom = r.vRandom /\ u.nTried = r.nTried /\ u.nNew = r.nNew
      /\ u.vvTried = r.vvTried
      /\ u.vvNew[b] = r.vvNew[b] \ {old}
      /\ \A c \in NewBuckets \ {b} : u.vvNew[c] = r.vvNew[c]
  BY <1>5, TakeOutFields
<1> HIDE DEF u
<1>7. /\ Ids(u) = Ids(t)
      /\ \A i \in Ids(t) :
           /\ u.mapInfo[i].ip = t.mapInfo[i].ip /\ u.mapInfo[i].port = t.mapInfo[i].port
           /\ u.mapInfo[i].fInTried = t.mapInfo[i].fInTried
           /\ u.mapInfo[i].nRandomPos = t.mapInfo[i].nRandomPos
           /\ i # old => u.mapInfo[i].nRefCount = t.mapInfo[i].nRefCount
      /\ u.mapInfo[old].nRefCount = t.mapInfo[old].nRefCount + (-1)
  BY <1>2, <1>5, <1>6 DEF Ids
<1>8. Tried(u) = Tried(t) /\ New(u) = New(t) BY <1>7, SameMembers
<1>9. u.vvNew[b] = t.vvNew[b] \ {old} /\ \A c \in NewBuckets \ {b} : u.vvNew[c] = t.vvNew[c]
  BY <1>5, <1>6
<1>10. Shape(u) BY <1>5, <1>6, <1>7 DEF Sound, Shape
<1>11. Counted(u, {}) BY <1>5, <1>6, <1>7, <1>8 DEF Sound, Counted
<1>12. NamedOnce(u) BY <1>5, <1>6, <1>7 DEF Sound, NamedOnce, AddressesOK, Ids
<1>13. Ordered(u) BY <1>5, <1>6, <1>7 DEF Sound, Ordered, RandomOK, Ids
<1>14. InTried(u)
  <2>1. \A i \in Ids(t) : OwnTried(u, i) = OwnTried(t, i) BY <1>7 DEF OwnTried
  <2> QED BY <1>2, <1>5, <1>6, <1>7, <1>8, <2>1, TriedIsSmall DEF Sound, InTried
<1>15. InNew(u, {nId}, {})
  <2>1. ASSUME NEW i \in New(u) \ {}
        PROVE  /\ u.mapInfo[i].nRefCount \in 1 .. BucketsPerAddress
               /\ u.mapInfo[i].nRefCount =
                    Cardinality(Buckets(u, i)) + IF i \in {nId} THEN 1 ELSE 0
    <3>1. i \in New(t) \ {} /\ i \in Ids(t) BY <1>8, TriedIsSmall
    <3>2. CASE i = old
      <4>1. Buckets(u, old) = Buckets(t, old) \ {b} /\ b \in Buckets(t, old)
        BY <1>9 DEF Buckets
      <4>2. Cardinality(Buckets(u, old)) = Cardinality(Buckets(t, old)) - 1
        BY <4>1, BucketsFinite, FS_RemoveElement
      <4>3. u.mapInfo[old].nRefCount = Cardinality(Buckets(u, old))
        BY <1>3, <1>7, <4>2, BucketsFinite
      <4>4. u.mapInfo[old].nRefCount \in 1 .. BucketsPerAddress BY <1>3, <1>4, <1>7
      <4> QED BY <3>2, <4>3, <4>4, BucketsFinite
    <3>3. CASE i # old
      <4>1. Buckets(u, i) = Buckets(t, i) BY <1>9, <3>3 DEF Buckets
      <4>2. u.mapInfo[i].nRefCount = t.mapInfo[i].nRefCount BY <1>7, <3>1, <3>3
      <4> QED BY <3>1, <4>1, <4>2 DEF Sound, InNew
    <3> QED BY <3>2, <3>3
  <2>2. \A c \in NewBuckets : u.vvNew[c] \subseteq New(u) \ {}
    BY <1>8, <1>9 DEF Sound, InNew
  <2> QED BY <2>1, <2>2 DEF InNew
<1>16. Sized(u)
  <2>1. IsFiniteSet(t.vvNew[b]) BY BucketIsFinite
  <2>2. Cardinality(u.vvNew[b]) = Cardinality(t.vvNew[b]) - 1
    BY <1>9, <2>1, FS_RemoveElement
  <2>3. Cardinality(t.vvNew[b]) \in Nat /\ NewBucketSize \in Nat
    BY <2>1, FS_CardinalityType, AddrManAssumption
  <2>4. Cardinality(t.vvNew[b]) <= NewBucketSize BY DEF Sound, Sized
  <2>5. Cardinality(u.vvNew[b]) <= NewBucketSize BY <2>2, <2>3, <2>4
  <2> QED BY <1>5, <1>6, <1>9, <2>5 DEF Sound, Sized
<1>17. Sound(u, {nId}, {})
  BY <1>10, <1>11, <1>12, <1>13, <1>14, <1>15, <1>16 DEF Sound
<1>18. Cardinality(u.vvNew[b]) = Cardinality(t.vvNew[b]) - 1
  BY <1>9, BucketIsFinite, FS_RemoveElement
<1>19. KeepsTried(t, u) BY <1>5, <1>6, <1>7, TriedIsSmall DEF KeepsTried, Keeps
<1> QED BY <1>1, <1>5, <1>6, <1>8, <1>9, <1>17, <1>18, <1>19

(* ShrinkNew on an entry that only this bucket holds.                      *)
LEMMA ShrinkErases ==
  ASSUME NEW t, NEW nId, Sound(t, {nId}, {}), nId \in New(t), NEW b \in NewBuckets,
         NEW old \in t.vvNew[b], old # nId, t.mapInfo[old].nRefCount = 1
  PROVE  LET u == Shrink(t, b, old) IN
         /\ Sound(u, {nId}, {}) /\ nId \in New(u) /\ u.nIdCount = t.nIdCount
         /\ nId \notin t.vvNew[b] => nId \notin u.vvNew[b]
         /\ KeepsTried(t, u)
         /\ Cardinality(u.vvNew[b]) = Cardinality(t.vvNew[b]) - 1
<1> DEFINE r == AddRefs(t, old, -1)
           s == Erase(r, old)
           u == TakeOut(s, b, old)
<1>1. Shrink(t, b, old) = u BY DEF Shrink
<1>2. t \in Object /\ old \in New(t) /\ old \in Ids(t) /\ old \notin Tried(t)
  BY TriedIsSmall DEF Sound, Shape, InNew, New
<1>3. Buckets(t, old) = {b}
  <2>1. old \in New(t) \ {} /\ old \notin {nId} BY <1>2
  <2>2. t.mapInfo[old].nRefCount = Cardinality(Buckets(t, old)) + 0
    BY <2>1 DEF Sound, InNew
  <2>3. Cardinality(Buckets(t, old)) = 1 BY <2>2, BucketsFinite
  <2>4. b \in Buckets(t, old) BY DEF Buckets
  <2>5. PICK c : Buckets(t, old) = {c} BY <2>3, BucketsFinite, FS_Singleton
  <2> QED BY <2>4, <2>5
<1>4. /\ r \in Object /\ Ids(r) = Ids(t)
      /\ r.nIdCount = t.nIdCount /\ r.mapAddr = t.mapAddr /\ r.vRandom = t.vRandom
      /\ r.nTried = t.nTried /\ r.nNew = t.nNew
      /\ r.vvTried = t.vvTried /\ r.vvNew = t.vvNew
      /\ \A i \in Ids(t) :
           /\ r.mapInfo[i].ip = t.mapInfo[i].ip /\ r.mapInfo[i].port = t.mapInfo[i].port
           /\ r.mapInfo[i].fInTried = t.mapInfo[i].fInTried
           /\ r.mapInfo[i].nRandomPos = t.mapInfo[i].nRandomPos
           /\ r.mapInfo[i].nRefCount =
                IF i = old THEN t.mapInfo[i].nRefCount + (-1) ELSE t.mapInfo[i].nRefCount
  <2>1. t.mapInfo[old].nRefCount + (-1) \in Nat /\ -1 \in Int OBVIOUS
  <2> QED BY <1>2, <2>1, AddRefsFields
<1> HIDE DEF r
<1>5. Ordered(r) BY <1>4 DEF Sound, Ordered, RandomOK, Ids
<1>6. /\ s \in Object /\ Ids(s) = Ids(r) \ {old} /\ Ordered(s)
      /\ s.nIdCount = r.nIdCount
      /\ DOMAIN s.mapAddr = DOMAIN r.mapAddr \ {r.mapInfo[old].ip}
      /\ \A a \in DOMAIN s.mapAddr : s.mapAddr[a] = r.mapAddr[a]
      /\ Len(s.vRandom) = Len(r.vRandom) - 1
      /\ s.nTried = r.nTried /\ s.nNew = r.nNew - 1
      /\ s.vvTried = r.vvTried /\ s.vvNew = r.vvNew
      /\ \A i \in Ids(s) :
           /\ s.mapInfo[i].ip = r.mapInfo[i].ip /\ s.mapInfo[i].port = r.mapInfo[i].port
           /\ s.mapInfo[i].fInTried = r.mapInfo[i].fInTried
           /\ s.mapInfo[i].nRefCount = r.mapInfo[i].nRefCount
  <2>1. old \in Ids(r) BY <1>2, <1>4
  <2> QED BY <1>4, <1>5, <2>1, EraseFields
<1> HIDE DEF s
<1>7. /\ u \in Object
      /\ u.nIdCount = s.nIdCount /\ u.mapInfo = s.mapInfo /\ u.mapAddr = s.mapAddr
      /\ u.vRandom = s.vRandom /\ u.nTried = s.nTried /\ u.nNew = s.nNew
      /\ u.vvTried = s.vvTried
      /\ u.vvNew[b] = s.vvNew[b] \ {old}
      /\ \A c \in NewBuckets \ {b} : u.vvNew[c] = s.vvNew[c]
  BY <1>6, TakeOutFields
<1> HIDE DEF u
<1>8. /\ Ids(u) = Ids(t) \ {old}
      /\ \A i \in Ids(u) :
           /\ i \in Ids(t) /\ i # old
           /\ u.mapInfo[i].ip = t.mapInfo[i].ip /\ u.mapInfo[i].port = t.mapInfo[i].port
           /\ u.mapInfo[i].fInTried = t.mapInfo[i].fInTried
           /\ u.mapInfo[i].nRefCount = t.mapInfo[i].nRefCount
  BY <1>4, <1>6, <1>7 DEF Ids
<1>9. Tried(u) = Tried(t) /\ New(u) = New(t) \ {old}
  <2>1. Tried(u) = Tried(t) BY <1>2, <1>8 DEF Tried, Ids
  <2> QED BY <1>8, <2>1 DEF New, Ids
<1>10. u.vvNew[b] = t.vvNew[b] \ {old} /\ \A c \in NewBuckets \ {b} : u.vvNew[c] = t.vvNew[c]
  BY <1>4, <1>6, <1>7
<1>11. \A c \in NewBuckets : old \notin u.vvNew[c]
  BY <1>3, <1>10 DEF Buckets
<1>12. Shape(u) BY <1>4, <1>6, <1>7, <1>8 DEF Sound, Shape
<1>13. Counted(u, {})
  <2>1. IsFiniteSet(Ids(t)) /\ IsFiniteSet(New(t)) BY IdsFinite, TriedIsSmall DEF Sound
  <2>2. Cardinality(Ids(u)) = Cardinality(Ids(t)) - 1
    BY <1>2, <1>8, <2>1, FS_RemoveElement
  <2>3. Cardinality(New(u)) = Cardinality(New(t)) - 1
    BY <1>2, <1>9, <2>1, FS_RemoveElement
  <2>4. New(t) \ {} = New(t) /\ New(u) \ {} = New(u) OBVIOUS
  <2> QED BY <1>4, <1>6, <1>7, <1>9, <2>2, <2>3, <2>4 DEF Sound, Counted
<1>14. NamedOnce(u)
  <2>1. \A i \in Ids(t) : t.mapInfo[i].ip \in DOMAIN t.mapAddr /\ t.mapAddr[t.mapInfo[i].ip] = i
    BY DEF Sound, NamedOnce, AddressesOK, Ids
  <2>2. \A a \in DOMAIN t.mapAddr : t.mapAddr[a] \in Ids(t) /\ t.mapInfo[t.mapAddr[a]].ip = a
    BY DEF Sound, NamedOnce
  <2>3. /\ DOMAIN u.mapAddr = DOMAIN t.mapAddr \ {t.mapInfo[old].ip}
        /\ \A a \in DOMAIN u.mapAddr : u.mapAddr[a] = t.mapAddr[a]
    BY <1>2, <1>4, <1>6, <1>7
  <2>4. ASSUME NEW i \in Ids(u)
        PROVE  u.mapInfo[i].ip \in DOMAIN u.mapAddr /\ u.mapAddr[u.mapInfo[i].ip] = i
    BY <1>2, <1>8, <2>1, <2>3
  <2>5. ASSUME NEW a \in DOMAIN u.mapAddr
        PROVE  u.mapAddr[a] \in Ids(u) /\ u.mapInfo[u.mapAddr[a]].ip = a
    <3>1. a \in DOMAIN t.mapAddr /\ a # t.mapInfo[old].ip /\ u.mapAddr[a] = t.mapAddr[a]
      BY <2>3
    <3>2. t.mapAddr[a] \in Ids(t) /\ t.mapInfo[t.mapAddr[a]].ip = a BY <2>2, <3>1
    <3>3. t.mapAddr[a] # old BY <3>1, <3>2
    <3> QED BY <1>8, <3>1, <3>2, <3>3
  <2> QED BY <2>4, <2>5 DEF NamedOnce, AddressesOK, Ids
<1>15. Ordered(u) BY <1>6, <1>7 DEF Ordered, RandomOK, Ids
<1>16. InTried(u)
  <2>1. \A i \in Ids(u) : OwnTried(u, i) = OwnTried(t, i) BY <1>8 DEF OwnTried
  <2>2. Tried(t) \subseteq Ids(u) BY <1>9, TriedIsSmall
  <2> QED BY <1>4, <1>6, <1>7, <1>8, <1>9, <2>1, <2>2 DEF Sound, InTried
<1>17. InNew(u, {nId}, {})
  <2>1. ASSUME NEW i \in New(u) \ {}
        PROVE  /\ u.mapInfo[i].nRefCount \in 1 .. BucketsPerAddress
               /\ u.mapInfo[i].nRefCount =
                    Cardinality(Buckets(u, i)) + IF i \in {nId} THEN 1 ELSE 0
    <3>1. i \in New(t) \ {} /\ i \in Ids(u) /\ i # old BY <1>9, TriedIsSmall
    <3>2. Buckets(u, i) = Buckets(t, i) BY <1>10, <3>1 DEF Buckets
    <3>3. u.mapInfo[i].nRefCount = t.mapInfo[i].nRefCount BY <1>8, <3>1
    <3> QED BY <3>1, <3>2, <3>3 DEF Sound, InNew
  <2>2. \A c \in NewBuckets : u.vvNew[c] \subseteq New(u) \ {}
    <3>1. \A c \in NewBuckets : u.vvNew[c] \subseteq New(t)
      BY <1>10 DEF Sound, InNew
    <3> QED BY <1>9, <1>11, <3>1
  <2> QED BY <2>1, <2>2 DEF InNew
<1>18. Sized(u)
  <2>1. IsFiniteSet(t.vvNew[b]) BY BucketIsFinite
  <2>2. Cardinality(u.vvNew[b]) = Cardinality(t.vvNew[b]) - 1
    BY <1>10, <2>1, FS_RemoveElement
  <2>3. Cardinality(t.vvNew[b]) \in Nat /\ NewBucketSize \in Nat
    BY <2>1, FS_CardinalityType, AddrManAssumption
  <2>4. Cardinality(t.vvNew[b]) <= NewBucketSize BY DEF Sound, Sized
  <2>5. Cardinality(u.vvNew[b]) <= NewBucketSize BY <2>2, <2>3, <2>4
  <2> QED BY <1>4, <1>6, <1>7, <1>10, <2>5 DEF Sound, Sized
<1>19. Sound(u, {nId}, {})
  BY <1>12, <1>13, <1>14, <1>15, <1>16, <1>17, <1>18 DEF Sound
<1>20. Cardinality(u.vvNew[b]) = Cardinality(t.vvNew[b]) - 1
  BY <1>10, BucketIsFinite, FS_RemoveElement
<1>21. KeepsTried(t, u)
  <2>1. Tried(t) \subseteq Ids(u) BY <1>9, TriedIsSmall
  <2> QED BY <1>4, <1>6, <1>7, <1>8, <2>1 DEF KeepsTried, Keeps
<1> QED BY <1>1, <1>4, <1>6, <1>7, <1>9, <1>10, <1>19, <1>20, <1>21

(* Whichever of the two it is: an entry old other than nId leaves b.       *)
LEMMA ShrinkIsSound ==
  ASSUME NEW t, NEW nId, Sound(t, {nId}, {}), nId \in New(t), NEW b \in NewBuckets,
         NEW old \in t.vvNew[b], old # nId
  PROVE  /\ Sound(Shrink(t, b, old), {nId}, {}) /\ nId \in New(Shrink(t, b, old))
         /\ Shrink(t, b, old).nIdCount = t.nIdCount
<1>1. CASE t.mapInfo[old].nRefCount = 1 BY <1>1, ShrinkErases
<1>2. CASE t.mapInfo[old].nRefCount # 1 BY <1>2, ShrinkLeaves
<1> QED BY <1>1, <1>2

LEMMA ShrinkMakesRoom ==
  ASSUME NEW t, NEW nId, Sound(t, {nId}, {}), nId \in New(t), NEW b \in NewBuckets,
         NEW old \in t.vvNew[b], old # nId
  PROVE  /\ nId \notin t.vvNew[b] => nId \notin Shrink(t, b, old).vvNew[b]
         /\ Cardinality(Shrink(t, b, old).vvNew[b]) = Cardinality(t.vvNew[b]) - 1
<1>1. CASE t.mapInfo[old].nRefCount = 1 BY <1>1, ShrinkErases
<1>2. CASE t.mapInfo[old].nRefCount # 1 BY <1>2, ShrinkLeaves
<1> QED BY <1>1, <1>2

LEMMA ShrinkKeepsTried ==
  ASSUME NEW t, NEW nId, Sound(t, {nId}, {}), nId \in New(t), NEW b \in NewBuckets,
         NEW old \in t.vvNew[b], old # nId
  PROVE  KeepsTried(t, Shrink(t, b, old))
<1>1. CASE t.mapInfo[old].nRefCount = 1 BY <1>1, ShrinkErases
<1>2. CASE t.mapInfo[old].nRefCount # 1 BY <1>2, ShrinkLeaves
<1> QED BY <1>1, <1>2

(* An entry takes the place of another one in a full bucket.               *)
LEMMA ReplaceKeeps ==
  ASSUME NEW c, NEW nId, Sound(c, {nId}, {}), nId \in New(c), nId \in Nat,
         NEW b \in NewBuckets, nId \notin c.vvNew[b],
         Cardinality(c.vvNew[b]) = NewBucketSize,
         NEW old \in c.vvNew[b],
         NEW u, u = PutIn(Shrink(c, b, old), b, nId)
  PROVE  /\ Sound(u, {}, {}) /\ u.nIdCount = c.nIdCount
         /\ Keeps(Tried(c), c, u) /\ u.nTried = c.nTried
<1>0. old # nId OBVIOUS
<1>1. PICK s : s = Shrink(c, b, old) OBVIOUS
<1>2. Sound(s, {nId}, {}) /\ nId \in New(s) /\ s.nIdCount = c.nIdCount
  BY <1>0, <1>1, ShrinkIsSound
<1>3. KeepsTried(c, s) BY <1>0, <1>1, ShrinkKeepsTried
<1>4. s.nTried = c.nTried /\ Keeps(Tried(c), c, s) BY <1>3 DEF KeepsTried
<1>5. nId \notin s.vvNew[b] /\ Cardinality(s.vvNew[b]) = Cardinality(c.vvNew[b]) - 1
  BY <1>0, <1>1, ShrinkMakesRoom
<1>6. Cardinality(s.vvNew[b]) < NewBucketSize BY <1>5, AddrManAssumption
<1>7. Sound(PutIn(s, b, nId), {}, {}) BY <1>2, <1>5, <1>6, PutInKeeps
<1>8. s \in Object BY <1>2 DEF Sound, Shape
<1>9. u = PutIn(s, b, nId) BY <1>1
<1>10. u.nIdCount = s.nIdCount /\ u.nTried = s.nTried /\ u.mapInfo = s.mapInfo
  BY <1>8, <1>9, PutInFields
<1>11. Keeps(Tried(c), c, u) BY <1>4, <1>10 DEF Keeps, Ids
<1> QED BY <1>2, <1>4, <1>7, <1>9, <1>10, <1>11

(* The whole end of Add_.                                                  *)
LEMMA EnterKeeps ==
  ASSUME NEW t, NEW nId, Sound(AddRefs(t, nId, 1), {nId}, {}),
         nId \in New(AddRefs(t, nId, 1)), AddRefs(t, nId, 1).vvNew = t.vvNew,
         NEW b \in NewBuckets, nId \notin t.vvNew[b],
         NEW u, Enter(t, b, nId, u)
  PROVE  LET c == AddRefs(t, nId, 1) IN
         /\ Sound(u, {}, {}) /\ u.nIdCount = c.nIdCount
         /\ Keeps(Tried(c), c, u) /\ u.nTried = c.nTried
<1> DEFINE c == AddRefs(t, nId, 1)
<1>0. /\ Sound(c, {nId}, {}) /\ nId \in New(c) /\ c.vvNew = t.vvNew
      /\ \/ Cardinality(t.vvNew[b]) # NewBucketSize /\ u = PutIn(c, b, nId)
         \/ /\ Cardinality(t.vvNew[b]) = NewBucketSize
            /\ \E old \in t.vvNew[b] : u = PutIn(Shrink(c, b, old), b, nId)
  BY DEF Enter
<1> HIDE DEF c
<1>1. c \in Object /\ nId \in Nat
  <2>1. c \in Object BY <1>0 DEF Sound, Shape
  <2>2. nId \in Ids(c) BY <1>0, TriedIsSmall
  <2> QED BY <2>1, <2>2, ObjectFacts
<1>2. /\ IsFiniteSet(t.vvNew[b]) /\ Cardinality(t.vvNew[b]) \in Nat
      /\ Cardinality(t.vvNew[b]) <= NewBucketSize /\ NewBucketSize \in Nat
  BY <1>0, BucketIsFinite, FS_CardinalityType, AddrManAssumption DEF Sound, Sized
<1>3. CASE Cardinality(t.vvNew[b]) # NewBucketSize /\ u = PutIn(c, b, nId)
  <2>1. Cardinality(c.vvNew[b]) < NewBucketSize BY <1>0, <1>2, <1>3
  <2>2. Sound(u, {}, {}) BY <1>0, <1>3, <2>1, PutInKeeps
  <2>3. /\ u.nIdCount = c.nIdCount /\ u.nTried = c.nTried /\ u.mapInfo = c.mapInfo
    BY <1>1, <1>3, PutInFields
  <2>4. Keeps(Tried(c), c, u) BY <2>3, TriedIsSmall DEF Keeps, Ids
  <2> QED BY <2>2, <2>3, <2>4 DEF c
<1>4. CASE /\ Cardinality(t.vvNew[b]) = NewBucketSize
           /\ \E old \in t.vvNew[b] : u = PutIn(Shrink(c, b, old), b, nId)
  <2>1. PICK old \in c.vvNew[b] : u = PutIn(Shrink(c, b, old), b, nId) BY <1>0, <1>4
  <2>2. nId \notin c.vvNew[b] /\ Cardinality(c.vvNew[b]) = NewBucketSize
    BY <1>0, <1>4
  <2>3. /\ Sound(u, {}, {}) /\ u.nIdCount = c.nIdCount
        /\ Keeps(Tried(c), c, u) /\ u.nTried = c.nTried
    BY <1>0, <1>1, <2>1, <2>2, ReplaceKeeps
  <2> QED BY <2>3 DEF c
<1> QED BY <1>0, <1>3, <1>4 DEF c

-----------------------------------------------------------------------------
(* MakeTried: the entry leaves every new bucket.                           *)
LEMMA LeaveNewKeeps ==
  ASSUME NEW t, Sound(t, {}, {}), NEW nId \in New(t)
  PROVE  LET u == LeaveNew(t, nId) IN
         /\ Sound(u, {}, {nId}) /\ u.nIdCount = t.nIdCount /\ u.vvTried = t.vvTried
         /\ Keeps(Ids(t), t, u) /\ u.nTried = t.nTried
         /\ OwnTried(u, nId) = OwnTried(t, nId)
         /\ \A b \in Buckets(t, nId) : Cardinality(u.vvNew[b]) < NewBucketSize
<1> DEFINE k == Cardinality(Buckets(t, nId))
           r == AddRefs(t, nId, -k)
           w == [b \in NewBuckets |-> t.vvNew[b] \ {nId}]
           u == LeaveNew(t, nId)
<1>1. t \in Object /\ nId \in Ids(t) /\ nId \notin Tried(t)
  BY TriedIsSmall DEF Sound, Shape, New
<1>2. t.mapInfo[nId].nRefCount = k /\ k \in Nat
  <2>1. t.mapInfo[nId].nRefCount = k + 0 BY DEF Sound, InNew
  <2> QED BY <2>1, BucketsFinite
<1> HIDE DEF k
<1>3. /\ r \in Object /\ Ids(r) = Ids(t)
      /\ r.nIdCount = t.nIdCount /\ r.mapAddr = t.mapAddr /\ r.vRandom = t.vRandom
      /\ r.nTried = t.nTried /\ r.nNew = t.nNew
      /\ r.vvTried = t.vvTried /\ r.vvNew = t.vvNew
      /\ \A i \in Ids(t) :
           /\ r.mapInfo[i].ip = t.mapInfo[i].ip /\ r.mapInfo[i].port = t.mapInfo[i].port
           /\ r.mapInfo[i].fInTried = t.mapInfo[i].fInTried
           /\ r.mapInfo[i].nRandomPos = t.mapInfo[i].nRandomPos
           /\ r.mapInfo[i].nRefCount =
                IF i = nId THEN t.mapInfo[i].nRefCount + (-k) ELSE t.mapInfo[i].nRefCount
  <2>1. t.mapInfo[nId].nRefCount + (-k) \in Nat /\ -k \in Int BY <1>2
  <2> QED BY <1>1, <2>1, AddRefsFields
<1>4. u = [r EXCEPT !.vvNew = w, !.nNew = t.nNew - 1] BY DEF LeaveNew, k
<1>5. w \in [NewBuckets -> SUBSET Nat] /\ t.nNew \in Int
  BY <1>1, ObjectFacts
<1> HIDE DEF r, u
<1>6. /\ u \in Object
      /\ u.nIdCount = r.nIdCount /\ u.mapInfo = r.mapInfo /\ u.mapAddr = r.mapAddr
      /\ u.vRandom = r.vRandom /\ u.nTried = r.nTried /\ u.nNew = t.nNew - 1
      /\ u.vvTried = r.vvTried /\ u.vvNew = w
  <2>1. u = [nIdCount |-> r.nIdCount, mapInfo |-> r.mapInfo, mapAddr |-> r.mapAddr,
             vRandom |-> r.vRandom, nTried |-> r.nTried, nNew |-> t.nNew - 1,
             vvTried |-> r.vvTried, vvNew |-> w]
    BY <1>3, <1>4 DEF Object
  <2>2. /\ r.nIdCount \in Nat /\ r.mapInfo \in Infos /\ r.mapAddr \in Addrs
        /\ r.vRandom \in Seq(Nat) /\ r.nTried \in Int /\ t.nNew - 1 \in Int
        /\ r.vvTried \in [TriedBuckets -> SUBSET Nat]
    BY <1>3, <1>5 DEF Object
  <2>3. u \in Object BY <1>5, <2>1, <2>2 DEF Object
  <2> QED BY <2>1, <2>3
<1>7. \A b \in NewBuckets : u.vvNew[b] = t.vvNew[b] \ {nId} BY <1>6
<1> HIDE DEF w
<1>8. /\ Ids(u) = Ids(t)
      /\ \A i \in Ids(t) :
           /\ u.mapInfo[i].ip = t.mapInfo[i].ip /\ u.mapInfo[i].port = t.mapInfo[i].port
           /\ u.mapInfo[i].fInTried = t.mapInfo[i].fInTried
           /\ u.mapInfo[i].nRandomPos = t.mapInfo[i].nRandomPos
           /\ i # nId => u.mapInfo[i].nRefCount = t.mapInfo[i].nRefCount
      /\ u.mapInfo[nId].nRefCount = 0
  BY <1>1, <1>2, <1>3, <1>6 DEF Ids
<1>9. Tried(u) = Tried(t) /\ New(u) = New(t) BY <1>8, SameMembers
<1>10. Shape(u) BY <1>3, <1>6, <1>8 DEF Sound, Shape
<1>11. Counted(u, {nId})
  <2>1. IsFiniteSet(New(t)) BY IdsFinite, TriedIsSmall DEF Sound
  <2>2. Cardinality(New(t) \ {nId}) = Cardinality(New(t)) - 1 BY <2>1, FS_RemoveElement
  <2>3. New(t) \ {} = New(t) OBVIOUS
  <2> QED BY <1>3, <1>6, <1>8, <1>9, <2>2, <2>3 DEF Sound, Counted
<1>12. NamedOnce(u) BY <1>3, <1>6, <1>8 DEF Sound, NamedOnce, AddressesOK, Ids
<1>13. Ordered(u) BY <1>3, <1>6, <1>8 DEF Sound, Ordered, RandomOK, Ids
<1>14. InTried(u)
  <2>1. \A i \in Ids(t) : OwnTried(u, i) = OwnTried(t, i) BY <1>8 DEF OwnTried
  <2> QED BY <1>1, <1>3, <1>6, <1>8, <1>9, <2>1, TriedIsSmall DEF Sound, InTried
<1>15. InNew(u, {}, {nId})
  <2>1. ASSUME NEW i \in New(u) \ {nId}
        PROVE  /\ u.mapInfo[i].nRefCount \in 1 .. BucketsPerAddress
               /\ u.mapInfo[i].nRefCount = Cardinality(Buckets(u, i)) + IF i \in {} THEN 1 ELSE 0
    <3>1. i \in New(t) \ {} /\ i \in Ids(t) /\ i # nId BY <1>9, TriedIsSmall
    <3>2. Buckets(u, i) = Buckets(t, i) BY <1>7, <3>1 DEF Buckets
    <3>3. u.mapInfo[i].nRefCount = t.mapInfo[i].nRefCount BY <1>8, <3>1
    <3> QED BY <3>1, <3>2, <3>3 DEF Sound, InNew
  <2>2. \A c \in NewBuckets : u.vvNew[c] \subseteq New(u) \ {nId}
    BY <1>7, <1>9 DEF Sound, InNew
  <2> QED BY <1>8, <1>9, <2>1, <2>2 DEF InNew
<1>16. \A b \in NewBuckets :
         /\ Cardinality(u.vvNew[b]) <= NewBucketSize
         /\ nId \in t.vvNew[b] => Cardinality(u.vvNew[b]) < NewBucketSize
  <2> TAKE b \in NewBuckets
  <2>1. IsFiniteSet(t.vvNew[b]) BY BucketIsFinite
  <2>2. u.vvNew[b] = t.vvNew[b] \ {nId} BY <1>7
  <2>3. Cardinality(u.vvNew[b]) = IF nId \in t.vvNew[b] THEN Cardinality(t.vvNew[b]) - 1
                                  ELSE Cardinality(t.vvNew[b])
    BY <2>1, <2>2, FS_RemoveElement
  <2>4. Cardinality(t.vvNew[b]) \in Nat /\ NewBucketSize \in Nat
    BY <2>1, FS_CardinalityType, AddrManAssumption
  <2>5. Cardinality(t.vvNew[b]) <= NewBucketSize BY DEF Sound, Sized
  <2> QED BY <2>3, <2>4, <2>5
<1>17. Sized(u) BY <1>3, <1>6, <1>16 DEF Sound, Sized
<1>18. Sound(u, {}, {nId})
  BY <1>10, <1>11, <1>12, <1>13, <1>14, <1>15, <1>17 DEF Sound
<1>19. OwnTried(u, nId) = OwnTried(t, nId) BY <1>1, <1>8 DEF OwnTried
<1>20. \A b \in Buckets(t, nId) : Cardinality(u.vvNew[b]) < NewBucketSize
  BY <1>16 DEF Buckets
<1>21. Keeps(Ids(t), t, u) BY <1>8 DEF Keeps
<1> QED BY <1>3, <1>6, <1>18, <1>19, <1>20, <1>21 DEF u

(* MakeTried: the entry is put into its tried bucket.                      *)
LEMMA EnterTriedKeeps ==
  ASSUME NEW t, NEW nId, Sound(t, {}, {nId}), NEW b \in TriedBuckets,
         b = OwnTried(t, nId), Cardinality(t.vvTried[b]) < TriedBucketSize
  PROVE  LET u == EnterTried(t, b, nId) IN
         /\ Sound(u, {}, {}) /\ u.nIdCount = t.nIdCount
         /\ Keeps(Ids(t), t, u) /\ u.nTried = t.nTried + 1
<1> DEFINE m == [t.mapInfo EXCEPT ![nId].fInTried = TRUE]
           w == [t.vvTried EXCEPT ![b] = t.vvTried[b] \cup {nId}]
           u == EnterTried(t, b, nId)
<1>1. t \in Object /\ nId \in New(t) /\ t.mapInfo[nId].nRefCount = 0
  BY DEF Sound, Shape, InNew
<1>2. nId \in Ids(t) /\ nId \in Nat /\ nId \notin Tried(t)
  BY <1>1, TriedIsSmall, ObjectFacts DEF New
<1>3. /\ t.mapInfo \in [Ids(t) -> Info] /\ Ids(t) \in SUBSET Nat /\ t.nTried \in Int
      /\ t.vvTried \in [TriedBuckets -> SUBSET Nat]
  BY <1>1, ObjectFacts
<1>4. /\ m \in [Ids(t) -> Info]
      /\ \A i \in Ids(t) :
           /\ m[i].ip = t.mapInfo[i].ip /\ m[i].port = t.mapInfo[i].port
           /\ m[i].nRandomPos = t.mapInfo[i].nRandomPos
           /\ m[i].nRefCount = t.mapInfo[i].nRefCount
           /\ i # nId => m[i].fInTried = t.mapInfo[i].fInTried
      /\ m[nId].fInTried
  BY <1>2, <1>3 DEF Info
<1>5. m \in Infos BY <1>3, <1>4, InfosIntro
<1>6. /\ w \in [TriedBuckets -> SUBSET Nat] /\ w[b] = t.vvTried[b] \cup {nId}
      /\ \A c \in TriedBuckets \ {b} : w[c] = t.vvTried[c]
  BY <1>2, <1>3
<1>7. u = [t EXCEPT !.vvTried = w, !.mapInfo = m, !.nTried = t.nTried + 1]
  BY DEF EnterTried
<1> HIDE DEF u, w, m
<1>8. /\ u \in Object
      /\ u.nIdCount = t.nIdCount /\ u.mapInfo = m /\ u.mapAddr = t.mapAddr
      /\ u.vRandom = t.vRandom /\ u.nTried = t.nTried + 1 /\ u.nNew = t.nNew
      /\ u.vvTried = w /\ u.vvNew = t.vvNew
  <2>1. u = [nIdCount |-> t.nIdCount, mapInfo |-> m, mapAddr |-> t.mapAddr,
             vRandom |-> t.vRandom, nTried |-> t.nTried + 1, nNew |-> t.nNew,
             vvTried |-> w, vvNew |-> t.vvNew]
    BY <1>1, <1>7 DEF Object
  <2>2. /\ t.nIdCount \in Nat /\ t.mapAddr \in Addrs /\ t.vRandom \in Seq(Nat)
        /\ t.nTried + 1 \in Int /\ t.nNew \in Int /\ t.vvNew \in [NewBuckets -> SUBSET Nat]
    BY <1>1, <1>3 DEF Object
  <2>3. u \in Object BY <1>5, <1>6, <2>1, <2>2 DEF Object
  <2> QED BY <2>1, <2>3
<1>9. Ids(u) = Ids(t) BY <1>4, <1>8 DEF Ids
<1>10. Tried(u) = Tried(t) \cup {nId} /\ New(u) = New(t) \ {nId}
  <2>1. Tried(u) = Tried(t) \cup {nId} BY <1>2, <1>4, <1>8, <1>9 DEF Tried, Ids
  <2> QED BY <1>9, <2>1 DEF New, Ids
<1>11. Shape(u) BY <1>8, <1>9 DEF Sound, Shape
<1>12. Counted(u, {})
  <2>1. IsFiniteSet(Tried(t)) BY IdsFinite, TriedIsSmall DEF Sound
  <2>2. Cardinality(Tried(u)) = Cardinality(Tried(t)) + 1
    BY <1>2, <1>10, <2>1, FS_AddElement
  <2>3. New(u) \ {} = New(t) \ {nId} BY <1>10
  <2> QED BY <1>8, <1>9, <2>2, <2>3 DEF Sound, Counted
<1>13. NamedOnce(u) BY <1>4, <1>8, <1>9 DEF Sound, NamedOnce, AddressesOK, Ids
<1>14. Ordered(u) BY <1>4, <1>8, <1>9 DEF Sound, Ordered, RandomOK, Ids
<1>15. InTried(u)
  <2>1. \A i \in Ids(t) : OwnTried(u, i) = OwnTried(t, i) BY <1>4, <1>8 DEF OwnTried
  <2>2. ASSUME NEW i \in Tried(u)
        PROVE  u.mapInfo[i].nRefCount = 0 /\ i \in u.vvTried[OwnTried(u, i)]
    <3>1. CASE i = nId BY <1>1, <1>2, <1>4, <1>6, <1>8, <2>1, <3>1
    <3>2. CASE i # nId
      <4>1. i \in Tried(t) /\ i \in Ids(t) BY <1>10, <3>2, TriedIsSmall
      <4>2. t.mapInfo[i].nRefCount = 0 /\ i \in t.vvTried[OwnTried(t, i)]
        BY <4>1 DEF Sound, InTried
      <4>3. OwnTried(t, i) \in TriedBuckets BY <1>1, <4>1, OwnTriedType
      <4>4. i \in w[OwnTried(t, i)] BY <1>6, <4>2, <4>3
      <4> QED BY <1>4, <1>8, <2>1, <4>1, <4>2, <4>4
    <3> QED BY <3>1, <3>2
  <2>3. ASSUME NEW c \in TriedBuckets, NEW i \in u.vvTried[c]
        PROVE  i \in Tried(u) /\ OwnTried(u, i) = c
    <3>1. CASE i \in t.vvTried[c]
      <4>1. i \in Tried(t) /\ OwnTried(t, i) = c BY <3>1 DEF Sound, InTried
      <4>2. i \in Ids(t) BY <4>1, TriedIsSmall
      <4> QED BY <1>10, <2>1, <4>1, <4>2
    <3>2. CASE i \notin t.vvTried[c]
      <4>1. i = nId /\ c = b BY <1>6, <1>8, <3>2
      <4> QED BY <1>2, <1>10, <2>1, <4>1
    <3> QED BY <3>1, <3>2
  <2> QED BY <2>2, <2>3 DEF InTried
<1>16. InNew(u, {}, {})
  <2>1. ASSUME NEW i \in New(u) \ {}
        PROVE  /\ u.mapInfo[i].nRefCount \in 1 .. BucketsPerAddress
               /\ u.mapInfo[i].nRefCount = Cardinality(Buckets(u, i)) + IF i \in {} THEN 1 ELSE 0
    <3>1. i \in New(t) \ {nId} /\ i \in Ids(t) BY <1>10, TriedIsSmall
    <3>2. Buckets(u, i) = Buckets(t, i) BY <1>8 DEF Buckets
    <3>3. u.mapInfo[i].nRefCount = t.mapInfo[i].nRefCount BY <1>4, <1>8, <3>1
    <3> QED BY <3>1, <3>2, <3>3 DEF Sound, InNew
  <2>2. \A c \in NewBuckets : u.vvNew[c] \subseteq New(u) \ {}
    BY <1>8, <1>10 DEF Sound, InNew
  <2> QED BY <2>1, <2>2 DEF InNew
<1>17. Sized(u)
  <2>1. IsFiniteSet(t.vvTried[b]) BY BucketIsFinite
  <2>2. nId \notin t.vvTried[b] BY <1>2 DEF Sound, InTried
  <2>3. Cardinality(w[b]) = Cardinality(t.vvTried[b]) + 1
    BY <1>6, <2>1, <2>2, FS_AddElement
  <2>4. Cardinality(t.vvTried[b]) \in Nat /\ TriedBucketSize \in Nat
    BY <2>1, FS_CardinalityType, AddrManAssumption
  <2>5. Cardinality(w[b]) <= TriedBucketSize BY <2>3, <2>4
  <2> QED BY <1>6, <1>8, <2>5 DEF Sound, Sized
<1>18. Sound(u, {}, {})
  BY <1>11, <1>12, <1>13, <1>14, <1>15, <1>16, <1>17 DEF Sound
<1>19. Keeps(Ids(t), t, u) BY <1>4, <1>8, <1>9 DEF Keeps
<1> QED BY <1>8, <1>18, <1>19 DEF u
(* MakeTried: a tried entry goes back to a new bucket with a place.        *)
LEMMA EvictKeeps ==
  ASSUME NEW t, NEW q, Sound(t, {}, q), NEW b \in TriedBuckets, NEW old \in t.vvTried[b],
         NEW nOrigin \in NewBuckets, Cardinality(t.vvNew[nOrigin]) < NewBucketSize
  PROVE  LET u == Evict(t, b, old, nOrigin) IN
         /\ Sound(u, {}, q) /\ u.nIdCount = t.nIdCount
         /\ Cardinality(u.vvTried[b]) = Cardinality(t.vvTried[b]) - 1
         /\ \A i \in q : OwnTried(u, i) = OwnTried(t, i)
         /\ Keeps(Ids(t), t, u) /\ u.nTried = t.nTried - 1 /\ t.nTried \in Int
<1> DEFINE k == BackTo(t, old, nOrigin)
           m == [t.mapInfo EXCEPT ![old].fInTried = FALSE, ![old].nRefCount = 1]
           w == [t.vvTried EXCEPT ![b] = t.vvTried[b] \ {old}]
           r == [t EXCEPT !.vvTried = w, !.mapInfo = m, !.nTried = t.nTried - 1,
                          !.nNew = t.nNew + 1]
           u == PutIn(r, k, old)
<1>1. t \in Object /\ old \in Tried(t) /\ OwnTried(t, old) = b
  BY DEF Sound, Shape, InTried
<1>2. old \in Ids(t) /\ old \in Nat /\ old \notin New(t)
  BY <1>1, TriedIsSmall, ObjectFacts DEF New
<1>3. k \in NewBuckets /\ Cardinality(t.vvNew[k]) < NewBucketSize
  BY <1>1, <1>2, OwnBucketType DEF BackTo
<1>4. /\ t.mapInfo \in [Ids(t) -> Info] /\ Ids(t) \in SUBSET Nat
      /\ t.nTried \in Int /\ t.nNew \in Int
      /\ t.vvTried \in [TriedBuckets -> SUBSET Nat]
  BY <1>1, ObjectFacts
<1>5. /\ m \in [Ids(t) -> Info]
      /\ \A i \in Ids(t) :
           /\ m[i].ip = t.mapInfo[i].ip /\ m[i].port = t.mapInfo[i].port
           /\ m[i].nRandomPos = t.mapInfo[i].nRandomPos
           /\ i # old => m[i].fInTried = t.mapInfo[i].fInTried
                         /\ m[i].nRefCount = t.mapInfo[i].nRefCount
      /\ ~m[old].fInTried /\ m[old].nRefCount = 1
  BY <1>2, <1>4 DEF Info
<1>6. m \in Infos BY <1>4, <1>5, InfosIntro
<1>7. /\ w \in [TriedBuckets -> SUBSET Nat] /\ w[b] = t.vvTried[b] \ {old}
      /\ \A c \in TriedBuckets \ {b} : w[c] = t.vvTried[c]
  BY <1>4
<1>8. /\ Evict(t, b, old, nOrigin) = u
      /\ r = [t EXCEPT !.vvTried = w, !.mapInfo = m, !.nTried = t.nTried - 1,
                       !.nNew = t.nNew + 1]
  BY DEF Evict
<1> HIDE DEF k, m, w, r, u
<1>9. /\ r \in Object /\ r.nIdCount = t.nIdCount /\ r.mapInfo = m /\ r.mapAddr = t.mapAddr
      /\ r.vRandom = t.vRandom /\ r.nTried = t.nTried - 1 /\ r.nNew = t.nNew + 1
      /\ r.vvTried = w /\ r.vvNew = t.vvNew
  <2>1. r = [nIdCount |-> t.nIdCount, mapInfo |-> m, mapAddr |-> t.mapAddr,
             vRandom |-> t.vRandom, nTried |-> t.nTried - 1, nNew |-> t.nNew + 1,
             vvTried |-> w, vvNew |-> t.vvNew]
    BY <1>1, <1>8 DEF Object
  <2>2. /\ t.nIdCount \in Nat /\ t.mapAddr \in Addrs /\ t.vRandom \in Seq(Nat)
        /\ t.nTried - 1 \in Int /\ t.nNew + 1 \in Int
        /\ t.vvNew \in [NewBuckets -> SUBSET Nat]
    BY <1>1, <1>4 DEF Object
  <2>3. r \in Object BY <1>6, <1>7, <2>1, <2>2 DEF Object
  <2> QED BY <2>1, <2>3
<1>10. /\ u \in Object
       /\ u.nIdCount = r.nIdCount /\ u.mapInfo = r.mapInfo /\ u.mapAddr = r.mapAddr
       /\ u.vRandom = r.vRandom /\ u.nTried = r.nTried /\ u.nNew = r.nNew
       /\ u.vvTried = r.vvTried
       /\ u.vvNew[k] = r.vvNew[k] \cup {old}
       /\ \A c \in NewBuckets \ {k} : u.vvNew[c] = r.vvNew[c]
  BY <1>2, <1>3, <1>9, PutInFields DEF u
<1>11. u.mapInfo = m /\ Ids(u) = Ids(t) /\ u.vvTried = w
  BY <1>5, <1>9, <1>10 DEF Ids
<1>12. u.vvNew[k] = t.vvNew[k] \cup {old} /\ \A c \in NewBuckets \ {k} : u.vvNew[c] = t.vvNew[c]
  BY <1>9, <1>10
<1>13. Tried(u) = Tried(t) \ {old} /\ New(u) = New(t) \cup {old}
  <2>1. Tried(u) = Tried(t) \ {old} BY <1>2, <1>5, <1>11 DEF Tried, Ids
  <2> QED BY <1>2, <1>11, <2>1 DEF New, Ids
<1>14. old \notin q /\ New(u) \ q = (New(t) \ q) \cup {old}
  BY <1>2, <1>13 DEF Sound, InNew
<1>15. \A c \in NewBuckets : old \notin t.vvNew[c]
  BY <1>2 DEF Sound, InNew
<1>16. Shape(u) BY <1>9, <1>10, <1>11 DEF Sound, Shape
<1>17. Counted(u, q)
  <2>1. IsFiniteSet(Tried(t)) /\ IsFiniteSet(New(t) \ q) BY IdsFinite, TriedIsSmall DEF Sound
  <2>2. Cardinality(Tried(u)) = Cardinality(Tried(t)) - 1
    BY <1>1, <1>13, <2>1, FS_RemoveElement
  <2>3. Cardinality(New(u) \ q) = Cardinality(New(t) \ q) + 1
    BY <1>2, <1>14, <2>1, FS_AddElement
  <2> QED BY <1>9, <1>10, <1>11, <2>2, <2>3 DEF Sound, Counted
<1>18. NamedOnce(u) BY <1>5, <1>9, <1>10, <1>11 DEF Sound, NamedOnce, AddressesOK, Ids
<1>19. Ordered(u) BY <1>5, <1>9, <1>10, <1>11 DEF Sound, Ordered, RandomOK, Ids
<1>20. \A i \in Ids(t) : OwnTried(u, i) = OwnTried(t, i) BY <1>5, <1>11 DEF OwnTried
<1>21. InTried(u)
  <2>1. ASSUME NEW i \in Tried(u)
        PROVE  u.mapInfo[i].nRefCount = 0 /\ i \in u.vvTried[OwnTried(u, i)]
    <3>1. i \in Tried(t) /\ i \in Ids(t) /\ i # old BY <1>13, TriedIsSmall
    <3>2. t.mapInfo[i].nRefCount = 0 /\ i \in t.vvTried[OwnTried(t, i)]
      BY <3>1 DEF Sound, InTried
    <3>3. OwnTried(t, i) \in TriedBuckets BY <1>1, <3>1, OwnTriedType
    <3>4. i \in w[OwnTried(t, i)] BY <1>7, <3>1, <3>2, <3>3
    <3> QED BY <1>5, <1>11, <1>20, <3>1, <3>2, <3>4
  <2>2. ASSUME NEW c \in TriedBuckets, NEW i \in u.vvTried[c]
        PROVE  i \in Tried(u) /\ OwnTried(u, i) = c
    <3>1. i \in t.vvTried[c] BY <1>7, <1>11
    <3>2. i \in Tried(t) /\ OwnTried(t, i) = c BY <3>1 DEF Sound, InTried
    <3>3. i # old BY <1>1, <1>7, <1>11, <3>2
    <3> QED BY <1>13, <1>20, <3>2, <3>3, TriedIsSmall
  <2> QED BY <2>1, <2>2 DEF InTried
<1>22. InNew(u, {}, q)
  <2>1. ASSUME NEW i \in New(u) \ q
        PROVE  /\ u.mapInfo[i].nRefCount \in 1 .. BucketsPerAddress
               /\ u.mapInfo[i].nRefCount = Cardinality(Buckets(u, i)) + IF i \in {} THEN 1 ELSE 0
    <3>1. CASE i = old
      <4>1. Buckets(u, old) = {k} BY <1>3, <1>12, <1>15 DEF Buckets
      <4>2. Cardinality(Buckets(u, old)) = 1 BY <4>1, FS_Singleton
      <4>3. 1 \in 1 .. BucketsPerAddress BY AddrManAssumption
      <4> QED BY <1>5, <1>11, <3>1, <4>2, <4>3
    <3>2. CASE i # old
      <4>1. i \in New(t) \ q /\ i \in Ids(t) BY <1>14, <3>2, TriedIsSmall
      <4>2. Buckets(u, i) = Buckets(t, i) BY <1>12, <3>2 DEF Buckets
      <4>3. u.mapInfo[i].nRefCount = t.mapInfo[i].nRefCount BY <1>5, <1>11, <3>2, <4>1
      <4> QED BY <4>1, <4>2, <4>3 DEF Sound, InNew
    <3> QED BY <3>1, <3>2
  <2>2. \A i \in q : i \in New(u) /\ u.mapInfo[i].nRefCount = 0
    <3>1. \A i \in q : i \in New(t) /\ t.mapInfo[i].nRefCount = 0 BY DEF Sound, InNew
    <3> QED BY <1>5, <1>11, <1>13, <1>14, <3>1, TriedIsSmall
  <2>3. \A c \in NewBuckets : u.vvNew[c] \subseteq New(u) \ q
    <3>1. \A c \in NewBuckets : t.vvNew[c] \subseteq New(t) \ q BY DEF Sound, InNew
    <3> QED BY <1>3, <1>12, <1>14, <3>1
  <2> QED BY <2>1, <2>2, <2>3 DEF InNew
<1>23. Cardinality(u.vvTried[b]) = Cardinality(t.vvTried[b]) - 1
  BY <1>7, <1>11, BucketIsFinite, FS_RemoveElement
<1>24. Sized(u)
  <2>1. IsFiniteSet(t.vvNew[k]) /\ IsFiniteSet(t.vvTried[b]) BY <1>3, BucketIsFinite
  <2>2. Cardinality(u.vvNew[k]) = Cardinality(t.vvNew[k]) + 1
    BY <1>3, <1>12, <1>15, <2>1, FS_AddElement
  <2>3. /\ Cardinality(t.vvNew[k]) \in Nat /\ NewBucketSize \in Nat
        /\ Cardinality(t.vvTried[b]) \in Nat /\ TriedBucketSize \in Nat
    BY <2>1, FS_CardinalityType, AddrManAssumption
  <2>4. Cardinality(u.vvNew[k]) <= NewBucketSize BY <1>3, <2>2, <2>3
  <2>5. Cardinality(t.vvTried[b]) <= TriedBucketSize BY DEF Sound, Sized
  <2>6. Cardinality(u.vvTried[b]) <= TriedBucketSize BY <1>23, <2>3, <2>5
  <2>7. \A c \in NewBuckets : Cardinality(u.vvNew[c]) <= NewBucketSize
    BY <1>12, <2>4 DEF Sound, Sized
  <2>8. \A c \in TriedBuckets : Cardinality(u.vvTried[c]) <= TriedBucketSize
    BY <1>7, <1>11, <2>6 DEF Sound, Sized
  <2> QED BY <2>7, <2>8 DEF Sized
<1>25. Sound(u, {}, q)
  BY <1>16, <1>17, <1>18, <1>19, <1>21, <1>22, <1>24 DEF Sound
<1>26. \A i \in q : OwnTried(u, i) = OwnTried(t, i)
  BY <1>20, TriedIsSmall DEF Sound, InNew
<1>27. Keeps(Ids(t), t, u) BY <1>5, <1>11 DEF Keeps
<1> QED BY <1>4, <1>8, <1>9, <1>10, <1>23, <1>25, <1>26, <1>27

LEMMA MakeTriedKeeps ==
  ASSUME NEW t, Sound(t, {}, {}), NEW nId \in New(t), NEW nOrigin \in Buckets(t, nId),
         NEW u, MakeTried(t, nId, nOrigin, u)
  PROVE  /\ Sound(u, {}, {}) /\ u.nIdCount = t.nIdCount
         /\ Keeps(Ids(t), t, u) /\ u.nTried >= t.nTried
<1> DEFINE s == LeaveNew(t, nId)
           b == OwnTried(t, nId)
<1>1. t \in Object /\ nId \in Ids(t) BY TriedIsSmall DEF Sound, Shape
<1>2. b \in TriedBuckets BY <1>1, OwnTriedType
<1>3. /\ Sound(s, {}, {nId}) /\ s.nIdCount = t.nIdCount /\ s.vvTried = t.vvTried
      /\ OwnTried(s, nId) = b /\ Keeps(Ids(t), t, s) /\ s.nTried = t.nTried
      /\ nOrigin \in NewBuckets /\ Cardinality(s.vvNew[nOrigin]) < NewBucketSize
  BY LeaveNewKeeps DEF Buckets
<1>4. \/ /\ Cardinality(t.vvTried[b]) < TriedBucketSize
         /\ u = EnterTried(s, b, nId)
      \/ \E old \in t.vvTried[b] : u = EnterTried(Evict(s, b, old, nOrigin), b, nId)
  BY DEF MakeTried, OwnTried
<1> HIDE DEF s, b
<1>a. t.nTried \in Int BY <1>1, ObjectFacts
<1>5. CASE Cardinality(t.vvTried[b]) < TriedBucketSize /\ u = EnterTried(s, b, nId)
  <2>1. /\ Sound(u, {}, {}) /\ u.nIdCount = s.nIdCount
        /\ Keeps(Ids(s), s, u) /\ u.nTried = s.nTried + 1
    BY <1>2, <1>3, <1>5, EnterTriedKeeps
  <2>2. Keeps(Ids(t), t, u) BY <1>3, <2>1 DEF Keeps
  <2> QED BY <1>3, <1>a, <2>1, <2>2
<1>6. CASE \E old \in t.vvTried[b] : u = EnterTried(Evict(s, b, old, nOrigin), b, nId)
  <2>1. PICK old \in t.vvTried[b] : u = EnterTried(Evict(s, b, old, nOrigin), b, nId)
    BY <1>6
  <2> DEFINE e == Evict(s, b, old, nOrigin)
  <2>2. /\ Sound(e, {}, {nId}) /\ e.nIdCount = s.nIdCount
        /\ Cardinality(e.vvTried[b]) = Cardinality(s.vvTried[b]) - 1
        /\ OwnTried(e, nId) = OwnTried(s, nId)
        /\ Keeps(Ids(s), s, e) /\ e.nTried = s.nTried - 1
    BY <1>2, <1>3, EvictKeeps
  <2> HIDE DEF e
  <2>3. IsFiniteSet(s.vvTried[b]) BY <1>2, <1>3, BucketIsFinite
  <2>4. Cardinality(s.vvTried[b]) \in Nat /\ TriedBucketSize \in Nat
    BY <2>3, FS_CardinalityType, AddrManAssumption
  <2>5. Cardinality(s.vvTried[b]) <= TriedBucketSize BY <1>2, <1>3 DEF Sound, Sized
  <2>6. Cardinality(e.vvTried[b]) < TriedBucketSize BY <2>2, <2>4, <2>5
  <2>7. u = EnterTried(e, b, nId) BY <2>1 DEF e
  <2>8. /\ Sound(u, {}, {}) /\ u.nIdCount = e.nIdCount
        /\ Keeps(Ids(e), e, u) /\ u.nTried = e.nTried + 1
    BY <1>2, <1>3, <2>2, <2>6, <2>7, EnterTriedKeeps
  <2>9. Keeps(Ids(t), t, u) BY <1>3, <2>2, <2>8 DEF Keeps
  <2> QED BY <1>3, <1>a, <2>2, <2>8, <2>9
<1> QED BY <1>4, <1>5, <1>6
-----------------------------------------------------------------------------
(* The calls.                                                              *)
LEMMA EmptyIsSound == Sound(Empty, {}, {})
<1>1. DOMAIN <<>> = {} OBVIOUS
<1>2. /\ Empty.nIdCount = 0 /\ Empty.mapInfo = <<>> /\ Empty.mapAddr = <<>>
      /\ Empty.vRandom = <<>> /\ Empty.nTried = 0 /\ Empty.nNew = 0
      /\ \A b \in TriedBuckets : Empty.vvTried[b] = {}
      /\ \A b \in NewBuckets : Empty.vvNew[b] = {}
  BY DEF Empty
<1>3. <<>> \in [{} -> Info] /\ <<>> \in [{} -> Nat] OBVIOUS
<1>4. <<>> \in Infos BY <1>3, InfosIntro
<1>5. <<>> \in Addrs BY <1>3 DEF Addrs
<1>6. Empty \in Object BY <1>4, <1>5 DEF Empty, Object
<1>7. Ids(Empty) = {} /\ Tried(Empty) = {} /\ New(Empty) = {}
  BY <1>1, <1>2 DEF Ids, Tried, New
<1>8. Shape(Empty) BY <1>6, <1>7 DEF Shape
<1>9. Counted(Empty, {})
  <2>1. {} \ {} = {} OBVIOUS
  <2> QED BY <1>2, <1>7, <2>1, FS_EmptySet DEF Counted
<1>10. NamedOnce(Empty) /\ Ordered(Empty)
  BY <1>1, <1>2, <1>7 DEF NamedOnce, AddressesOK, Ordered, RandomOK, Ids
<1>11. InTried(Empty) /\ InNew(Empty, {}, {}) BY <1>2, <1>7 DEF InTried, InNew
<1>12. Sized(Empty)
  <2>1. NewBucketSize \in Nat /\ TriedBucketSize \in Nat BY AddrManAssumption
  <2>2. /\ \A b \in NewBuckets : Cardinality(Empty.vvNew[b]) = 0
        /\ \A b \in TriedBuckets : Cardinality(Empty.vvTried[b]) = 0
    BY <1>2, FS_EmptySet
  <2> QED BY <2>1, <2>2 DEF Sized
<1> QED BY <1>8, <1>9, <1>10, <1>11, <1>12 DEF Sound

TriedKept == Keeps(Tried(addrman), addrman, addrman') /\ addrman'.nTried >= addrman.nTried

LEMMA InitIInv == Init => IInv
BY EmptyIsSound, AddrManAssumption DEF Init, IInv, Empty

LEMMA AddIInv ==
  ASSUME IInv, NEW ip \in NetAddr, NEW port \in Port, NEW source \in Source,
         Add(ip, port, source)
  PROVE  IInv' /\ TriedKept
<1> DEFINE b == NewBucketOf[<<ip, source>>]
<1>1. Sound(addrman, {}, {}) /\ addrman.nIdCount <= MaxId BY DEF IInv
<1>2. b \in NewBuckets BY AddrManAssumption
<1>3. nShuffle' = 0 BY DEF Add
<1>4. CASE AddNew(ip, port, source)
  <2> DEFINE n == addrman.nIdCount
             c == Create(addrman, ip, port, source)
             r == AddRefs(c, n, 1)
  <2>1. ip \in NetAddr \ DOMAIN addrman.mapAddr /\ n < MaxId /\ Enter(c, b, n, addrman')
    BY <1>4 DEF AddNew
  <2>2. n \in Nat /\ MaxId \in Nat
    BY <1>1, ObjectFacts, AddrManAssumption DEF Sound, Shape
  <2>3. /\ Sound(r, {n}, {}) /\ n \in New(r) /\ r.nIdCount = n + 1
        /\ \A d \in NewBuckets : n \notin r.vvNew[d]
    BY <1>1, <2>1, CreateKeeps
  <2>4. /\ r.vvNew = c.vvNew /\ r.nTried = addrman.nTried
        /\ Keeps(Tried(addrman), addrman, r) /\ Tried(addrman) \subseteq Tried(r)
    <3>1. /\ c \in Object /\ Ids(c) = Ids(addrman) \cup {n} /\ c.mapInfo[n].nRefCount = 0
          /\ c.nTried = addrman.nTried
          /\ \A i \in Ids(addrman) : c.mapInfo[i] = addrman.mapInfo[i]
      BY <1>1, <2>1, CreateFields DEF Sound, Shape
    <3>2. /\ r.vvNew = c.vvNew /\ r.nTried = c.nTried /\ Ids(r) = Ids(c)
          /\ \A i \in Ids(c) : /\ r.mapInfo[i].ip = c.mapInfo[i].ip
                               /\ r.mapInfo[i].fInTried = c.mapInfo[i].fInTried
      BY <3>1, AddRefsFields
    <3> QED BY <3>1, <3>2, TriedIsSmall DEF Keeps, Tried, Ids
  <2> HIDE DEF n, c
  <2>5. n \notin c.vvNew[b] BY <1>2, <2>3, <2>4
  <2>6. /\ Sound(addrman', {}, {}) /\ addrman'.nIdCount = r.nIdCount
        /\ Keeps(Tried(r), r, addrman') /\ addrman'.nTried = r.nTried
    BY <1>2, <2>1, <2>3, <2>4, <2>5, EnterKeeps
  <2>7. addrman'.nIdCount <= MaxId BY <2>1, <2>2, <2>3, <2>6
  <2>8. Keeps(Tried(addrman), addrman, addrman') BY <2>4, <2>6 DEF Keeps
  <2>9. addrman'.nTried >= addrman.nTried
    BY <1>1, <2>4, <2>6, ObjectFacts DEF Sound, Shape
  <2> QED BY <1>3, <2>6, <2>7, <2>8, <2>9 DEF IInv, TriedKept
<1>5. CASE AddKnown(ip, source)
  <2> DEFINE n == addrman.mapAddr[ip]
             r == AddRefs(addrman, n, 1)
  <2>1. /\ ip \in DOMAIN addrman.mapAddr /\ ~addrman.mapInfo[n].fInTried
        /\ addrman.mapInfo[n].nRefCount # BucketsPerAddress
        /\ n \notin addrman.vvNew[b] /\ Enter(addrman, b, n, addrman')
    BY <1>5 DEF AddKnown
  <2>2. n \in Ids(addrman) /\ addrman \in Object
    BY <1>1, <2>1 DEF Sound, NamedOnce, Shape
  <2>3. n \in New(addrman) BY <2>1, <2>2 DEF New, Tried, Ids
  <2>4. Sound(r, {n}, {}) BY <1>1, <2>1, <2>3, AddRefKeeps
  <2>5. addrman.mapInfo[n].nRefCount + 1 \in Nat BY <2>2, InfoFacts
  <2>6. /\ r.vvNew = addrman.vvNew /\ r.nIdCount = addrman.nIdCount /\ Ids(r) = Ids(addrman)
        /\ r.nTried = addrman.nTried
        /\ \A i \in Ids(addrman) : /\ r.mapInfo[i].fInTried = addrman.mapInfo[i].fInTried
                                   /\ r.mapInfo[i].ip = addrman.mapInfo[i].ip
    BY <2>2, <2>5, AddRefsFields
  <2> HIDE DEF n
  <2>7. Tried(r) = Tried(addrman) /\ n \in New(r) BY <2>3, <2>6, SameMembers
  <2>8. /\ Sound(addrman', {}, {}) /\ addrman'.nIdCount = r.nIdCount
        /\ Keeps(Tried(r), r, addrman') /\ addrman'.nTried = r.nTried
    BY <1>2, <2>1, <2>4, <2>6, <2>7, EnterKeeps
  <2>9. Keeps(Tried(addrman), addrman, addrman')
    BY <2>6, <2>7, <2>8, TriedIsSmall DEF Keeps
  <2>10. addrman'.nTried >= addrman.nTried BY <2>2, <2>6, <2>8, ObjectFacts
  <2> QED BY <1>1, <1>3, <2>6, <2>8, <2>9, <2>10 DEF IInv, TriedKept
<1> QED BY <1>4, <1>5 DEF Add

LEMMA GoodIInv ==
  ASSUME IInv, NEW ip \in NetAddr, NEW port \in Port, Good(ip, port)
  PROVE  IInv' /\ TriedKept
<1> DEFINE n == addrman.mapAddr[ip]
<1>1. Sound(addrman, {}, {}) /\ addrman.nIdCount <= MaxId BY DEF IInv
<1>2. ip \in DOMAIN addrman.mapAddr /\ ~addrman.mapInfo[n].fInTried /\ nShuffle' = 0
  BY DEF Good
<1>3. n \in New(addrman) BY <1>1, <1>2 DEF Sound, NamedOnce, New, Tried, Ids
<1>4. PICK nOrigin \in Buckets(addrman, n) : MakeTried(addrman, n, nOrigin, addrman')
  BY DEF Good
<1> HIDE DEF n
<1>5. /\ Sound(addrman', {}, {}) /\ addrman'.nIdCount = addrman.nIdCount
      /\ Keeps(Ids(addrman), addrman, addrman') /\ addrman'.nTried >= addrman.nTried
  BY <1>1, <1>3, <1>4, MakeTriedKeeps
<1>6. Keeps(Tried(addrman), addrman, addrman') BY <1>5, TriedIsSmall DEF Keeps
<1> QED BY <1>1, <1>2, <1>5, <1>6 DEF IInv, TriedKept

LEMMA GetAddrNextIInv ==
  ASSUME IInv, GetAddrNext
  PROVE  IInv' /\ TriedKept
<1>1. Sound(addrman, {}, {}) /\ addrman.nIdCount <= MaxId /\ nShuffle \in Nat BY DEF IInv
<1>2. addrman \in Object /\ Ordered(addrman) /\ addrman.vRandom \in Seq(Nat)
  BY <1>1, ObjectFacts DEF Sound, Shape
<1>3. PICK pos \in nShuffle .. Len(addrman.vRandom) : addrman' = SwapRandom(addrman, nShuffle, pos)
  BY DEF GetAddrNext
<1>4. nShuffle >= 1 BY DEF GetAddrNext
<1>5. nShuffle \in DOMAIN addrman.vRandom /\ pos \in DOMAIN addrman.vRandom
  BY <1>1, <1>2, <1>4
<1>6. Sound(addrman', {}, {}) BY <1>1, <1>3, <1>5, SwapKeeps
<1>7. /\ addrman'.nIdCount = addrman.nIdCount /\ addrman'.nTried = addrman.nTried
      /\ Ids(addrman') = Ids(addrman)
      /\ \A i \in Ids(addrman) : addrman'.mapInfo[i].ip = addrman.mapInfo[i].ip
  BY <1>2, <1>3, <1>5, SwapFields
<1>8. nShuffle' \in Nat BY <1>1 DEF GetAddrNext
<1>9. TriedKept BY <1>2, <1>7, TriedIsSmall, ObjectFacts DEF TriedKept, Keeps
<1> QED BY <1>1, <1>6, <1>7, <1>8, <1>9 DEF IInv

LEMMA NextIInv == IInv /\ [Next]_vars => IInv' /\ TriedKept
<1> SUFFICES ASSUME IInv, [Next]_vars
             PROVE  IInv' /\ TriedKept
  OBVIOUS
<1>1. CASE \E ip \in NetAddr, port \in Port, source \in Source : Add(ip, port, source)
  BY <1>1, AddIInv
<1>2. CASE \E ip \in NetAddr, port \in Port : Good(ip, port)
  BY <1>2, GoodIInv
<1>3. CASE UNCHANGED addrman /\ nShuffle' \in Nat
  <2>1. addrman.nTried \in Int BY ObjectFacts DEF IInv, Sound, Shape
  <2> QED BY <1>3, <2>1, TriedIsSmall DEF IInv, TriedKept, Keeps
<1>4. CASE GetAddr BY <1>3, <1>4 DEF GetAddr
<1>5. CASE GetAddrNext BY <1>5, GetAddrNextIInv
<1>6. CASE UNCHANGED vars BY <1>3, <1>6 DEF vars, IInv
<1> QED BY <1>1, <1>2, <1>4, <1>5, <1>6 DEF Next

THEOREM SpecIInv == Spec => []IInv
BY InitIInv, NextIInv, PTL DEF Spec

-----------------------------------------------------------------------------
(* What a caller sees.                                                     *)
LEMMA SoundPassesCheck ==
  ASSUME NEW t, Sound(t, {}, {})
  PROVE  CountsOK(t) /\ AddressesOK(t) /\ RandomOK(t) /\ TriedOK(t) /\ NewOK(t)
<1>1. Sound(t, {}, {}) OBVIOUS
<1>2. t \in Object BY <1>1 DEF Sound, Shape
<1>3. CountsOK(t)
  <2>1. Tried(t) \cup New(t) = Ids(t) /\ Tried(t) \cap New(t) = {} BY DEF Tried, New, Ids
  <2>2. IsFiniteSet(Tried(t)) /\ IsFiniteSet(New(t)) BY <1>1, IdsFinite, TriedIsSmall DEF Sound
  <2>3. Cardinality(Ids(t)) = Cardinality(Tried(t)) + Cardinality(New(t)) - 0
    BY <2>1, <2>2, FS_Union, FS_EmptySet
  <2>4. Cardinality(Tried(t)) \in Nat /\ Cardinality(New(t)) \in Nat
    BY <2>2, FS_CardinalityType
  <2>5. New(t) \ {} = New(t) OBVIOUS
  <2> QED BY <1>1, <2>3, <2>4, <2>5 DEF Sound, Counted, CountsOK
<1>4. AddressesOK(t) /\ RandomOK(t) BY <1>1 DEF Sound, NamedOnce, Ordered
<1>5. TriedOK(t)
  <2>1. \A i \in Tried(t) : OwnTried(t, i) \in TriedBuckets BY <1>2, OwnTriedType, TriedIsSmall
  <2>2. /\ \A i \in Tried(t) : t.mapInfo[i].nRefCount = 0 /\ i \in t.vvTried[OwnTried(t, i)]
        /\ \A b \in TriedBuckets : \A i \in t.vvTried[b] : i \in Tried(t) /\ OwnTried(t, i) = b
    BY <1>1 DEF Sound, InTried
  <2>3. \A b, c \in TriedBuckets : b # c => t.vvTried[b] \cap t.vvTried[c] = {} BY <2>2
  <2> QED BY <2>1, <2>2, <2>3 DEF TriedOK
<1>6. NewOK(t)
  <2>1. ASSUME NEW i \in New(t)
        PROVE  /\ t.mapInfo[i].nRefCount \in 1 .. BucketsPerAddress
               /\ t.mapInfo[i].nRefCount = Cardinality(Buckets(t, i))
    <3>1. i \in New(t) \ {} /\ i \notin {} OBVIOUS
    <3>2. t.mapInfo[i].nRefCount = Cardinality(Buckets(t, i)) + 0
      BY <1>1, <3>1 DEF Sound, InNew
    <3> QED BY <1>1, <3>1, <3>2, BucketsFinite DEF Sound, InNew
  <2> QED BY <1>1, <2>1 DEF Sound, InNew, NewOK
<1> QED BY <1>3, <1>4, <1>5, <1>6

LEMMA SoundIsConsistent == IInv => Consistent
BY SoundPassesCheck DEF IInv, Consistent

LEMMA SoundIsTyped == IInv => TypeOK
<1> SUFFICES ASSUME IInv PROVE TypeOK
  OBVIOUS
<1> DEFINE t == addrman
<1>1. Sound(t, {}, {}) /\ t.nIdCount <= MaxId /\ nShuffle \in Nat BY DEF IInv
<1>2. t \in Object /\ Ids(t) \subseteq 0 .. t.nIdCount - 1 BY <1>1 DEF Sound, Shape
<1>3. /\ t.nIdCount \in Nat /\ t.mapInfo \in [Ids(t) -> Info]
      /\ t.mapAddr \in [DOMAIN t.mapAddr -> Nat] /\ DOMAIN t.mapAddr \in SUBSET NetAddr
      /\ t.vRandom \in Seq(Nat)
      /\ t.vvTried \in [TriedBuckets -> SUBSET Nat]
      /\ t.vvNew \in [NewBuckets -> SUBSET Nat]
  BY <1>2, ObjectFacts
<1>4. t.nIdCount \in 0 .. MaxId BY <1>1, <1>3, AddrManAssumption
<1>5. t.mapAddr \in [DOMAIN t.mapAddr -> Ids(t)]
  <2>1. \A a \in DOMAIN t.mapAddr : t.mapAddr[a] \in Ids(t) BY <1>1 DEF Sound, NamedOnce
  <2> QED BY <1>3, <2>1
<1>6. t.vRandom \in Seq(Ids(t))
  <2>1. \A i \in DOMAIN t.vRandom : t.vRandom[i] \in Ids(t) BY <1>1 DEF Sound, Ordered
  <2> QED BY <1>3, <2>1
<1>7. t.nTried \in Nat /\ t.nNew \in Nat
  <2>1. /\ Cardinality(Tried(t)) \in Nat /\ Cardinality(New(t) \ {}) \in Nat
    BY <1>1, IdsFinite, TriedIsSmall DEF Sound
  <2> QED BY <1>1, <2>1 DEF Sound, Counted
<1>8. /\ t.vvTried \in [TriedBuckets -> SUBSET Ids(t)]
      /\ t.vvNew \in [NewBuckets -> SUBSET Ids(t)]
  BY <1>1, <1>3, BucketIsFinite
<1> QED BY <1>1, <1>2, <1>3, <1>4, <1>5, <1>6, <1>7, <1>8 DEF TypeOK, Ids

(* Check_ (addrman.cpp 435) finds nothing wrong, after any calls, for any  *)
(* number of addresses and buckets: in particular every id that a bucket,  *)
(* the random order or the address index names is an entry.                *)
THEOREM StaysConsistent == Spec => []Consistent
BY SpecIInv, SoundIsConsistent, PTL

(* No bucket grows beyond its size: there is a place for what comes back   *)
(* from a tried bucket (addrman.cpp 251).                                  *)
THEOREM BucketsStayBounded == Spec => []BucketsBounded
<1>1. IInv => BucketsBounded BY DEF IInv, Sound, Sized, BucketsBounded
<1> QED BY <1>1, SpecIInv, PTL

(* An entry of the tried table is never deleted, and the table never gets  *)
(* smaller (addrman.h 216): MakeTried takes one out only to put another in.*)
THEOREM TriedStays == Spec => TriedNeverDeleted
<1>1. IInv /\ [Next]_vars =>
        [/\ \A nId \in Tried(addrman) :
              nId \in DOMAIN addrman'.mapInfo /\ addrman'.mapInfo[nId].ip = addrman.mapInfo[nId].ip
         /\ addrman'.nTried >= addrman.nTried]_vars
  BY NextIInv DEF TriedKept, Keeps, Ids
<1> QED BY <1>1, SpecIInv, PTL DEF Spec, TriedNeverDeleted

(* The object is the record the code's class describes.                    *)
THEOREM TypeCorrect == Spec => []TypeOK
BY SpecIInv, SoundIsTyped, PTL

-----------------------------------------------------------------------------
(* peers.dat                                                               *)

(* The elements of a set in order: the k-th has k - 1 before it.           *)
LEMMA BeforeGrows ==
  ASSUME NEW S \in SUBSET Nat, IsFiniteSet(S)
  PROVE  /\ \A x \in S : IsFiniteSet(Before(S, x)) /\ Cardinality(Before(S, x)) \in 0 .. Cardinality(S) - 1
         /\ \A x, y \in S : x < y => Cardinality(Before(S, x)) < Cardinality(Before(S, y))
<1>1. \A x \in S : IsFiniteSet(Before(S, x)) /\ Cardinality(Before(S, x)) \in Nat
  <2>1. \A x \in S : Before(S, x) \in SUBSET S BY DEF Before
  <2> QED BY <2>1, FS_Subset, FS_CardinalityType
<1>2. Cardinality(S) \in Nat BY FS_CardinalityType
<1>3. ASSUME NEW x \in S
      PROVE  Cardinality(Before(S, x)) < Cardinality(S)
  <2>1. Before(S, x) \in SUBSET S /\ x \in S \ Before(S, x) BY DEF Before
  <2>2. Before(S, x) # S BY <2>1
  <2>3. Cardinality(Before(S, x)) <= Cardinality(S) /\ Cardinality(Before(S, x)) # Cardinality(S)
    BY <2>1, <2>2, FS_Subset
  <2> QED BY <1>1, <1>2, <2>3
<1>4. ASSUME NEW x \in S, NEW y \in S, x < y
      PROVE  Cardinality(Before(S, x)) < Cardinality(Before(S, y))
  <2>0. \A i \in S : i \in Nat OBVIOUS
  <2>1. Before(S, x) \in SUBSET Before(S, y) /\ x \in Before(S, y) \ Before(S, x)
    <3>1. x < y BY <1>4
    <3>2. ASSUME NEW i \in Before(S, x) PROVE i \in Before(S, y)
      <4>1. i \in S /\ i < x BY DEF Before
      <4>2. i < y BY <2>0, <3>1, <4>1
      <4> QED BY <4>1, <4>2 DEF Before
    <3>3. x \in Before(S, y) /\ x \notin Before(S, x) BY <2>0, <3>1 DEF Before
    <3> QED BY <3>2, <3>3
  <2>2. Before(S, x) # Before(S, y) BY <2>1
  <2>3. /\ Cardinality(Before(S, x)) <= Cardinality(Before(S, y))
        /\ Cardinality(Before(S, x)) # Cardinality(Before(S, y))
    BY <1>1, <2>1, <2>2, FS_Subset
  <2> QED BY <1>1, <2>3
<1> QED BY <1>1, <1>2, <1>3, <1>4

LEMMA SortedIs ==
  ASSUME NEW S \in SUBSET Nat, IsFiniteSet(S)
  PROVE  /\ Cardinality(S) \in Nat
         /\ Sorted(S) \in [1 .. Cardinality(S) -> S]
         /\ \A x \in S : /\ Cardinality(Before(S, x)) \in 0 .. Cardinality(S) - 1
                         /\ Sorted(S)[Cardinality(Before(S, x)) + 1] = x
         /\ \A k \in 1 .. Cardinality(S) : Cardinality(Before(S, Sorted(S)[k])) = k - 1
<1> DEFINE n == Cardinality(S)
           r == [x \in S |-> Cardinality(Before(S, x)) + 1]
<1>1. n \in Nat BY FS_CardinalityType
<1>2. r \in [S -> 1 .. n] BY <1>1, BeforeGrows
<1>3. \A x, y \in S : r[x] = r[y] => x = y
  <2> SUFFICES ASSUME NEW x \in S, NEW y \in S, x < y PROVE r[x] # r[y]
    OBVIOUS
  <2> QED BY BeforeGrows
<1>4. \A x \in S : r[x] = Cardinality(Before(S, x)) + 1 OBVIOUS
<1> HIDE DEF r
<1>5. r \in Injection(S, 1 .. n) BY <1>2, <1>3 DEF Injection, IsInjective
<1>6. IsFiniteSet(1 .. n) /\ Cardinality(1 .. n) = n BY <1>1, FS_Interval
<1>7. r \in Surjection(S, 1 .. n) BY <1>5, <1>6, FS_Injection
<1>8. \A k \in 1 .. n : \E x \in S : r[x] = k BY <1>7 DEF Surjection
<1>9. \A x \in S : Cardinality(Before(S, x)) \in Nat BY BeforeGrows
<1>10. ASSUME NEW k \in 1 .. n
       PROVE  Sorted(S)[k] \in S /\ r[Sorted(S)[k]] = k
  <2>1. PICK x \in S : r[x] = k BY <1>8
  <2>2. Cardinality(Before(S, x)) = k - 1 BY <1>1, <1>4, <1>9, <2>1
  <2>3. Sorted(S)[k] = CHOOSE y \in S : Cardinality(Before(S, y)) = k - 1 BY DEF Sorted
  <2>4. Sorted(S)[k] \in S /\ Cardinality(Before(S, Sorted(S)[k])) = k - 1 BY <2>2, <2>3
  <2>5. k \in Int BY <1>1
  <2>6. r[Sorted(S)[k]] = (k - 1) + 1 BY <1>4, <2>4
  <2> QED BY <2>4, <2>5, <2>6
<1>11. Sorted(S) \in [1 .. n -> S] BY <1>10 DEF Sorted
<1>12. \A x \in S : Sorted(S)[r[x]] = x BY <1>2, <1>3, <1>10
<1>13. \A k \in 1 .. n : Cardinality(Before(S, Sorted(S)[k])) = k - 1
  <2> TAKE k \in 1 .. n
  <2>0. k \in Int BY <1>1
  <2>1. Cardinality(Before(S, Sorted(S)[k])) \in Nat BY <1>9, <1>10
  <2>2. Cardinality(Before(S, Sorted(S)[k])) + 1 = k BY <1>4, <1>10
  <2> QED BY <2>0, <2>1, <2>2
<1> QED BY <1>1, <1>4, <1>11, <1>12, <1>13, BeforeGrows

LEMMA SortedInterval ==
  ASSUME NEW m \in Nat
  PROVE  /\ Cardinality(1 .. m) = m
         /\ Sorted(1 .. m) \in [1 .. m -> 1 .. m]
         /\ \A k \in 1 .. m : Sorted(1 .. m)[k] = k
<1>1. IsFiniteSet(1 .. m) /\ Cardinality(1 .. m) = m BY FS_Interval
<1>2. \A k \in 1 .. m : Cardinality(Before(1 .. m, k)) = k - 1
  <2> TAKE k \in 1 .. m
  <2>1. Before(1 .. m, k) = 1 .. k - 1 BY DEF Before
  <2> QED BY <2>1, FS_Interval
<1>3. 1 .. m \in SUBSET Nat OBVIOUS
<1>4. /\ Sorted(1 .. m) \in [1 .. m -> 1 .. m]
      /\ \A x \in 1 .. m : Sorted(1 .. m)[Cardinality(Before(1 .. m, x)) + 1] = x
  BY <1>1, <1>3, SortedIs
<1>5. \A k \in 1 .. m : Sorted(1 .. m)[k] = k BY <1>2, <1>4
<1> QED BY <1>1, <1>4, <1>5

(* The entry that gets the id n when t is read back, and the id an entry   *)
(* gets.                                                                   *)
OldId(t, n) ==
  IF n < t.nNew THEN Sorted(New(t))[n + 1] ELSE Sorted(Tried(t))[n - t.nNew + 1]
NewId(t, nId) ==
  IF nId \in New(t) THEN Index(t, nId) ELSE t.nNew + Cardinality(Before(Tried(t), nId))
Last(t) == t.nNew + t.nTried - 1

LEMMA TablesAdd ==
  ASSUME NEW t, Sound(t, {}, {})
  PROVE  /\ t.nNew \in Nat /\ t.nNew = Cardinality(New(t)) /\ IsFiniteSet(New(t))
         /\ t.nTried \in Nat /\ t.nTried = Cardinality(Tried(t)) /\ IsFiniteSet(Tried(t))
         /\ New(t) \in SUBSET Nat /\ Tried(t) \in SUBSET Nat
         /\ New(t) \cup Tried(t) = Ids(t) /\ New(t) \cap Tried(t) = {}
         /\ Cardinality(Ids(t)) = t.nNew + t.nTried
         /\ t.nNew + t.nTried <= t.nIdCount
<1>1. Shape(t) /\ Counted(t, {}) /\ t \in Object BY DEF Sound, Shape
<1>2. New(t) \cup Tried(t) = Ids(t) /\ New(t) \cap Tried(t) = {} BY DEF Tried, New, Ids
<1>3. IsFiniteSet(New(t)) /\ IsFiniteSet(Tried(t)) BY <1>1, IdsFinite, TriedIsSmall
<1>4. Cardinality(New(t)) \in Nat /\ Cardinality(Tried(t)) \in Nat BY <1>3, FS_CardinalityType
<1>5. New(t) \ {} = New(t) OBVIOUS
<1>6. t.nNew = Cardinality(New(t)) /\ t.nTried = Cardinality(Tried(t)) BY <1>1, <1>5 DEF Counted
<1>7. Cardinality(Ids(t)) = Cardinality(New(t)) + Cardinality(Tried(t)) - 0
  BY <1>2, <1>3, FS_Union, FS_EmptySet
<1>8. Ids(t) \in SUBSET (0 .. t.nIdCount - 1) /\ t.nIdCount \in Nat BY <1>1, ObjectFacts DEF Shape
<1>9. IsFiniteSet(0 .. t.nIdCount - 1) /\ Cardinality(0 .. t.nIdCount - 1) = t.nIdCount
  <2> DEFINE k == t.nIdCount
  <2>1. k \in Nat /\ 0 \in Int /\ k - 1 \in Int BY <1>8
  <2> SUFFICES IsFiniteSet(0 .. k - 1) /\ Cardinality(0 .. k - 1) = k OBVIOUS
  <2> HIDE DEF k
  <2>2. /\ IsFiniteSet(0 .. k - 1)
        /\ Cardinality(0 .. k - 1) = IF 0 > k - 1 THEN 0 ELSE (k - 1) - 0 + 1
    BY <2>1, FS_Interval
  <2> QED BY <2>1, <2>2
<1>10. Cardinality(Ids(t)) <= t.nIdCount BY <1>8, <1>9, FS_Subset
<1>11. New(t) \in SUBSET Nat /\ Tried(t) \in SUBSET Nat BY <1>1, <1>2, ObjectFacts
<1> QED BY <1>2, <1>3, <1>4, <1>6, <1>7, <1>10, <1>11

LEMMA Renumbered ==
  ASSUME NEW t, Sound(t, {}, {})
  PROVE  /\ Last(t) \in Int /\ Last(t) + 1 = t.nNew + t.nTried
         /\ \A n \in 0 .. Last(t) :
              /\ OldId(t, n) \in Ids(t) /\ NewId(t, OldId(t, n)) = n
              /\ n < t.nNew => OldId(t, n) \in New(t)
              /\ n >= t.nNew => OldId(t, n) \in Tried(t)
         /\ \A i \in Ids(t) : NewId(t, i) \in 0 .. Last(t) /\ OldId(t, NewId(t, i)) = i
         /\ \A i \in New(t) : NewId(t, i) = Index(t, i) /\ NewId(t, i) < t.nNew
         /\ \A i \in Tried(t) : NewId(t, i) >= t.nNew
<1> DEFINE N == New(t)
           T == Tried(t)
<1>1. /\ t.nNew \in Nat /\ t.nNew = Cardinality(N) /\ IsFiniteSet(N) /\ N \in SUBSET Nat
      /\ t.nTried \in Nat /\ t.nTried = Cardinality(T) /\ IsFiniteSet(T) /\ T \in SUBSET Nat
      /\ N \cup T = Ids(t) /\ N \cap T = {}
  BY TablesAdd
<1>2. Last(t) \in Int /\ Last(t) + 1 = t.nNew + t.nTried BY <1>1 DEF Last
<1> HIDE DEF N, T
<1>3. /\ Sorted(N) \in [1 .. t.nNew -> N]
      /\ \A x \in N : /\ Cardinality(Before(N, x)) \in 0 .. t.nNew - 1
                      /\ Sorted(N)[Cardinality(Before(N, x)) + 1] = x
      /\ \A k \in 1 .. t.nNew : Cardinality(Before(N, Sorted(N)[k])) = k - 1
  BY <1>1, SortedIs
<1>4. /\ Sorted(T) \in [1 .. t.nTried -> T]
      /\ \A x \in T : /\ Cardinality(Before(T, x)) \in 0 .. t.nTried - 1
                      /\ Sorted(T)[Cardinality(Before(T, x)) + 1] = x
      /\ \A k \in 1 .. t.nTried : Cardinality(Before(T, Sorted(T)[k])) = k - 1
  BY <1>1, SortedIs
<1>5. ASSUME NEW n \in 0 .. Last(t)
      PROVE  /\ OldId(t, n) \in Ids(t) /\ NewId(t, OldId(t, n)) = n
             /\ n < t.nNew => OldId(t, n) \in N
             /\ n >= t.nNew => OldId(t, n) \in T
  <2>0. n \in Int /\ n >= 0 /\ n < t.nNew + t.nTried BY <1>1, <1>2
  <2>1. CASE n < t.nNew
    <3>1. n + 1 \in 1 .. t.nNew /\ OldId(t, n) = Sorted(N)[n + 1]
      BY <1>1, <2>0, <2>1 DEF OldId, N
    <3>2. OldId(t, n) \in N /\ Cardinality(Before(N, OldId(t, n))) = (n + 1) - 1
      BY <1>3, <3>1
    <3>3. NewId(t, OldId(t, n)) = Cardinality(Before(N, OldId(t, n)))
      BY <3>2 DEF NewId, Index, N
    <3> QED BY <1>1, <2>0, <2>1, <3>2, <3>3
  <2>2. CASE n >= t.nNew
    <3>1. n - t.nNew + 1 \in 1 .. t.nTried /\ OldId(t, n) = Sorted(T)[n - t.nNew + 1]
      BY <1>1, <2>0, <2>2 DEF OldId, T
    <3>2. OldId(t, n) \in T /\ Cardinality(Before(T, OldId(t, n))) = (n - t.nNew + 1) - 1
      BY <1>4, <3>1
    <3>3. OldId(t, n) \notin N BY <1>1, <3>2
    <3>4. NewId(t, OldId(t, n)) = t.nNew + Cardinality(Before(T, OldId(t, n)))
      BY <3>3 DEF NewId, N, T
    <3> QED BY <1>1, <2>0, <2>2, <3>2, <3>4
  <2> QED BY <1>1, <2>0, <2>1, <2>2
<1>6. ASSUME NEW i \in N
      PROVE  /\ NewId(t, i) = Index(t, i) /\ NewId(t, i) < t.nNew /\ NewId(t, i) \in Nat
             /\ OldId(t, NewId(t, i)) = i
  <2>1. NewId(t, i) = Index(t, i) /\ Index(t, i) = Cardinality(Before(N, i))
    BY DEF NewId, Index, N
  <2>2. NewId(t, i) \in 0 .. t.nNew - 1 /\ Sorted(N)[NewId(t, i) + 1] = i BY <1>3, <2>1
  <2>3. NewId(t, i) < t.nNew /\ NewId(t, i) \in Nat BY <1>1, <2>2
  <2>4. OldId(t, NewId(t, i)) = Sorted(N)[NewId(t, i) + 1] BY <2>3 DEF OldId, N
  <2> QED BY <2>1, <2>2, <2>3, <2>4
<1>7. ASSUME NEW i \in T
      PROVE  /\ NewId(t, i) >= t.nNew /\ NewId(t, i) < t.nNew + t.nTried /\ NewId(t, i) \in Nat
             /\ OldId(t, NewId(t, i)) = i
  <2> DEFINE c == Cardinality(Before(T, i))
  <2>1. i \notin N BY <1>1
  <2>2. NewId(t, i) = t.nNew + c BY <2>1 DEF NewId, N, T
  <2>3. c \in 0 .. t.nTried - 1 /\ Sorted(T)[c + 1] = i BY <1>4
  <2> HIDE DEF c
  <2>4. /\ NewId(t, i) >= t.nNew /\ NewId(t, i) < t.nNew + t.nTried /\ NewId(t, i) \in Nat
        /\ (NewId(t, i) - t.nNew) + 1 = c + 1
    BY <1>1, <2>2, <2>3
  <2>5. ~ (NewId(t, i) < t.nNew) BY <1>1, <2>4
  <2>6. OldId(t, NewId(t, i)) = Sorted(T)[(NewId(t, i) - t.nNew) + 1] BY <2>5 DEF OldId, T
  <2> QED BY <2>3, <2>4, <2>6
<1>8. \A i \in Ids(t) : NewId(t, i) \in 0 .. Last(t) /\ OldId(t, NewId(t, i)) = i
  <2> TAKE i \in Ids(t)
  <2>1. i \in N \/ i \in T BY <1>1
  <2>2. NewId(t, i) \in Nat /\ NewId(t, i) < t.nNew + t.nTried /\ OldId(t, NewId(t, i)) = i
    <3>1. CASE i \in N
      <4>1. /\ NewId(t, i) \in Nat /\ NewId(t, i) < t.nNew /\ OldId(t, NewId(t, i)) = i
        BY <1>6, <3>1
      <4> QED BY <1>1, <4>1
    <3> QED BY <1>7, <2>1, <3>1
  <2> QED BY <1>2, <2>2
<1> QED BY <1>2, <1>5, <1>6, <1>7, <1>8 DEF N, T

(* What the file says: the entries in the order of their new ids, and for  *)
(* each bucket the new ids of its elements.                                *)
LEMMA SerializeFields ==
  ASSUME NEW t, Sound(t, {}, {}), NEW f, f = Serialize(t)
  PROVE  /\ Len(f.new) = t.nNew
         /\ \A n \in 0 .. t.nNew - 1 : f.new[n + 1] = Entry(t, OldId(t, n))
         /\ DOMAIN f.tried = 1 .. t.nTried
         /\ \A k \in 1 .. t.nTried : f.tried[k] = Entry(t, OldId(t, t.nNew + k - 1))
         /\ f.buckets \in [NewBuckets -> SUBSET (0 .. t.nNew - 1)]
         /\ \A b \in NewBuckets :
              /\ \A i \in t.vvNew[b] : NewId(t, i) \in f.buckets[b]
              /\ \A n \in f.buckets[b] : OldId(t, n) \in t.vvNew[b]
<1>1. /\ t.nNew \in Nat /\ t.nTried \in Nat BY TablesAdd
<1>2. /\ f.new = [k \in 1 .. t.nNew |-> Entry(t, Sorted(New(t))[k])]
      /\ f.tried = [k \in 1 .. t.nTried |-> Entry(t, Sorted(Tried(t))[k])]
      /\ f.buckets = [b \in NewBuckets |-> {Index(t, nId) : nId \in t.vvNew[b]}]
  BY DEF Serialize
<1>3. Len(f.new) = t.nNew BY <1>1, <1>2
<1>4. ASSUME NEW n \in 0 .. t.nNew - 1
      PROVE  f.new[n + 1] = Entry(t, OldId(t, n))
  <2>1. n < t.nNew /\ n + 1 \in 1 .. t.nNew BY <1>1
  <2>2. OldId(t, n) = Sorted(New(t))[n + 1] BY <2>1 DEF OldId
  <2> QED BY <1>2, <2>1, <2>2
<1>5. ASSUME NEW k \in 1 .. t.nTried
      PROVE  f.tried[k] = Entry(t, OldId(t, t.nNew + k - 1))
  <2>1. ~ (t.nNew + k - 1 < t.nNew) /\ (t.nNew + k - 1) - t.nNew + 1 = k BY <1>1
  <2>2. OldId(t, t.nNew + k - 1) = Sorted(Tried(t))[k] BY <2>1 DEF OldId
  <2> QED BY <1>2, <2>2
<1>6. \A b \in NewBuckets : t.vvNew[b] \in SUBSET New(t) BY DEF Sound, InNew
<1>7. \A i \in New(t) : /\ Index(t, i) = NewId(t, i) /\ Index(t, i) \in 0 .. t.nNew - 1
                       /\ OldId(t, Index(t, i)) = i
  <2> TAKE i \in New(t)
  <2>1. i \in Ids(t) BY TriedIsSmall
  <2>2. /\ NewId(t, i) \in 0 .. Last(t) /\ OldId(t, NewId(t, i)) = i
        /\ Last(t) \in Int /\ NewId(t, i) = Index(t, i) /\ NewId(t, i) < t.nNew
    BY <2>1, Renumbered
  <2>3. NewId(t, i) \in 0 .. t.nNew - 1 BY <1>1, <2>2
  <2> QED BY <2>2, <2>3
<1>8. \A b \in NewBuckets : f.buckets[b] \in SUBSET (0 .. t.nNew - 1) BY <1>2, <1>6, <1>7
<1>9. f.buckets \in [NewBuckets -> SUBSET (0 .. t.nNew - 1)] BY <1>2, <1>8
<1>10. \A b \in NewBuckets :
         /\ \A i \in t.vvNew[b] : NewId(t, i) \in f.buckets[b]
         /\ \A n \in f.buckets[b] : OldId(t, n) \in t.vvNew[b]
  BY <1>2, <1>6, <1>7
<1> QED BY <1>1, <1>2, <1>3, <1>4, <1>5, <1>9, <1>10

LEMMA EntryFields ==
  ASSUME NEW t, NEW nId
  PROVE  /\ Entry(t, nId).ip = t.mapInfo[nId].ip /\ Entry(t, nId).port = t.mapInfo[nId].port
         /\ Entry(t, nId).source = t.mapInfo[nId].source
         /\ TriedBucket(Entry(t, nId)) = OwnTried(t, nId)
BY DEF Entry, TriedBucket, OwnTried

(* Every tried entry finds its place again: its bucket had room for it.    *)
LEMMA AllArePlaced ==
  ASSUME NEW t, Sound(t, {}, {}), NEW f, f = Serialize(t)
  PROVE  Placed(f) = 1 .. t.nTried
<1>1. /\ t.nNew \in Nat /\ t.nTried \in Nat BY TablesAdd
<1>2. /\ DOMAIN f.tried = 1 .. t.nTried
      /\ \A k \in 1 .. t.nTried : f.tried[k] = Entry(t, OldId(t, t.nNew + k - 1))
  BY SerializeFields
<1> DEFINE old == [k \in 1 .. t.nTried |-> OldId(t, t.nNew + k - 1)]
<1>3. ASSUME NEW k \in 1 .. t.nTried
      PROVE  /\ old[k] \in Tried(t) /\ old[k] \in Ids(t)
             /\ NewId(t, old[k]) = t.nNew + k - 1
             /\ TriedBucket(f.tried[k]) = OwnTried(t, old[k])
  <2>1. t.nNew + k - 1 \in 0 .. Last(t) /\ t.nNew + k - 1 >= t.nNew
    <3>1. Last(t) \in Int /\ Last(t) + 1 = t.nNew + t.nTried BY Renumbered
    <3> QED BY <1>1, <3>1
  <2>2. /\ OldId(t, t.nNew + k - 1) \in Ids(t)
        /\ NewId(t, OldId(t, t.nNew + k - 1)) = t.nNew + k - 1
        /\ OldId(t, t.nNew + k - 1) \in Tried(t)
    BY <2>1, Renumbered
  <2> QED BY <1>2, <2>2, EntryFields
<1> HIDE DEF old
<1>4. ASSUME NEW k \in 1 .. t.nTried
      PROVE  k \in Placed(f)
  <2> DEFINE b == OwnTried(t, old[k])
             S == {j \in 1 .. k - 1 : TriedBucket(f.tried[j]) = TriedBucket(f.tried[k])}
             R == t.vvTried[b] \ {old[k]}
             h == [j \in S |-> old[j]]
  <2>1. b \in TriedBuckets BY <1>3, OwnTriedType DEF Sound, Shape
  <2>2. old[k] \in t.vvTried[b] BY <1>3 DEF Sound, InTried
  <2>3. IsFiniteSet(t.vvTried[b]) BY <2>1, BucketIsFinite
  <2>4. /\ IsFiniteSet(R) /\ Cardinality(R) = Cardinality(t.vvTried[b]) - 1
        /\ Cardinality(t.vvTried[b]) \in Nat
    BY <2>2, <2>3, FS_RemoveElement, FS_CardinalityType
  <2>5. ASSUME NEW j \in S
        PROVE  old[j] \in R /\ NewId(t, old[j]) = t.nNew + j - 1 /\ j \in Int
    <3>1. j \in 1 .. t.nTried /\ j < k /\ j \in Int /\ k \in Int BY <1>1
    <3>2. OwnTried(t, old[j]) = b BY <1>3, <3>1
    <3>3. old[j] \in t.vvTried[b] BY <1>3, <3>1, <3>2 DEF Sound, InTried
    <3>4. old[j] # old[k]
      <4>1. NewId(t, old[j]) = t.nNew + j - 1 /\ NewId(t, old[k]) = t.nNew + k - 1
        BY <1>3, <3>1
      <4> QED BY <1>1, <3>1, <4>1
    <3> QED BY <1>3, <3>1, <3>3, <3>4
  <2> HIDE DEF S, R
  <2>6. h \in [S -> R] BY <2>5
  <2>7. \A i, j \in S : h[i] = h[j] => i = j
    <3> TAKE i, j \in S
    <3>1. /\ i \in Int /\ j \in Int /\ h[i] = old[i] /\ h[j] = old[j]
          /\ NewId(t, old[i]) = t.nNew + i - 1 /\ NewId(t, old[j]) = t.nNew + j - 1
      BY <2>5
    <3> QED BY <1>1, <3>1
  <2> HIDE DEF h
  <2>8. h \in Injection(S, R) BY <2>6, <2>7 DEF Injection, IsInjective
  <2>9. IsFiniteSet(S) /\ Cardinality(S) <= Cardinality(R) BY <2>4, <2>8, FS_Injection
  <2>10. Cardinality(t.vvTried[b]) <= TriedBucketSize BY <2>1 DEF Sound, Sized
  <2>11. Cardinality(S) \in Nat /\ TriedBucketSize \in Nat
    BY <2>9, FS_CardinalityType, AddrManAssumption
  <2>12. Cardinality(S) < TriedBucketSize BY <2>4, <2>9, <2>10, <2>11
  <2> QED BY <1>2, <2>12 DEF Placed, S
<1>5. Placed(f) \subseteq 1 .. t.nTried BY <1>2 DEF Placed
<1> QED BY <1>4, <1>5

(* The references that are counted again are those that were counted: no   *)
(* entry was in more buckets than it may be.                               *)
LEMMA RefsAreCounted ==
  ASSUME NEW t, Sound(t, {}, {}), NEW f, f = Serialize(t), NEW n \in 0 .. t.nNew - 1
  PROVE  /\ Refs(f, n) = t.mapInfo[OldId(t, n)].nRefCount
         /\ \A b \in NewBuckets : n \in f.buckets[b] <=> OldId(t, n) \in t.vvNew[b]
<1> DEFINE i == OldId(t, n)
<1>1. t.nNew \in Nat /\ t.nTried \in Nat BY TablesAdd
<1>2. n \in 0 .. Last(t) /\ n < t.nNew
  <2>1. Last(t) \in Int /\ Last(t) + 1 = t.nNew + t.nTried BY Renumbered
  <2> QED BY <1>1, <2>1
<1>3. i \in New(t) /\ NewId(t, i) = n BY <1>2, Renumbered
<1>4. \A b \in NewBuckets : n \in f.buckets[b] <=> i \in t.vvNew[b]
  BY <1>3, SerializeFields
<1> HIDE DEF i
<1>5. /\ t.mapInfo[i].nRefCount \in 1 .. BucketsPerAddress
      /\ t.mapInfo[i].nRefCount = Cardinality(Buckets(t, i)) + 0
  <2>1. i \in New(t) \ {} /\ i \notin {} BY <1>3
  <2> QED BY <2>1 DEF Sound, InNew
<1>6. IsFiniteSet(Buckets(t, i)) /\ Cardinality(Buckets(t, i)) \in Nat BY BucketsFinite
<1> DEFINE Earlier(b) == {c \in NewBuckets : c < b /\ n \in f.buckets[c]}
<1>7. ASSUME NEW b \in Buckets(t, i)
      PROVE  Cardinality(Earlier(b)) < BucketsPerAddress
  <2>1. b \in Nat BY AddrDumpAssumption DEF Buckets
  <2>2. Earlier(b) \in SUBSET (Buckets(t, i) \ {b})
    <3> SUFFICES ASSUME NEW c \in Earlier(b) PROVE c \in Buckets(t, i) /\ c # b
      OBVIOUS
    <3>1. c \in NewBuckets /\ c < b /\ n \in f.buckets[c] /\ c \in Nat BY AddrDumpAssumption
    <3> QED BY <1>4, <2>1, <3>1 DEF Buckets
  <2> HIDE DEF Earlier
  <2>3. /\ IsFiniteSet(Buckets(t, i) \ {b})
        /\ Cardinality(Buckets(t, i) \ {b}) = Cardinality(Buckets(t, i)) - 1
    BY <1>6, FS_RemoveElement
  <2>4. Cardinality(Earlier(b)) <= Cardinality(Buckets(t, i) \ {b}) /\ Cardinality(Earlier(b)) \in Nat
    BY <2>2, <2>3, FS_Subset, FS_CardinalityType
  <2>5. BucketsPerAddress \in Nat BY AddrManAssumption
  <2> QED BY <1>5, <1>6, <2>3, <2>4, <2>5
<1> DEFINE R == {b \in NewBuckets : n \in f.buckets[b] /\ Cardinality(Earlier(b)) < BucketsPerAddress}
<1>8. R = Buckets(t, i)
  <2>1. ASSUME NEW b \in NewBuckets PROVE n \in f.buckets[b] <=> b \in Buckets(t, i)
    BY <1>4 DEF Buckets
  <2>2. Buckets(t, i) \subseteq NewBuckets BY DEF Buckets
  <2> HIDE DEF Earlier
  <2> QED BY <1>7, <2>1, <2>2
<1>9. Refs(f, n) = Cardinality(R) BY DEF Refs
<1> HIDE DEF R
<1>10. Refs(f, n) = t.mapInfo[i].nRefCount BY <1>5, <1>6, <1>8, <1>9
<1> QED BY <1>4, <1>10 DEF i

(* What reading the file back gives, entry by entry.                       *)
LEMMA UnserializeFields ==
  ASSUME NEW t, Sound(t, {}, {}), NEW u, u = Unserialize(Serialize(t))
  PROVE  /\ u.nIdCount = t.nNew + t.nTried /\ u.nNew = t.nNew /\ u.nTried = t.nTried
         /\ Ids(u) = 0 .. Last(t)
         /\ u.mapInfo = [n \in 0 .. Last(t) |-> u.mapInfo[n]]
         /\ \A n \in 0 .. Last(t) : u.mapInfo[n] =
              [ip |-> t.mapInfo[OldId(t, n)].ip, port |-> t.mapInfo[OldId(t, n)].port,
               source |-> t.mapInfo[OldId(t, n)].source, fInTried |-> n >= t.nNew,
               nRefCount |-> t.mapInfo[OldId(t, n)].nRefCount, nRandomPos |-> n + 1]
         /\ \A n \in 0 .. Last(t) : /\ t.mapInfo[OldId(t, n)].ip \in DOMAIN u.mapAddr
                                   /\ u.mapAddr[t.mapInfo[OldId(t, n)].ip] = n
         /\ \A a \in DOMAIN u.mapAddr : \E n \in 0 .. Last(t) : a = t.mapInfo[OldId(t, n)].ip
         /\ u.vRandom = [k \in 1 .. Last(t) + 1 |-> k - 1]
         /\ u.vvTried \in [TriedBuckets -> SUBSET (t.nNew .. Last(t))]
         /\ \A b \in TriedBuckets : \A n \in t.nNew .. Last(t) :
              n \in u.vvTried[b] <=> OwnTried(t, OldId(t, n)) = b
         /\ u.vvNew \in [NewBuckets -> SUBSET (0 .. t.nNew - 1)]
         /\ \A b \in NewBuckets : \A n \in 0 .. t.nNew - 1 :
              n \in u.vvNew[b] <=> OldId(t, n) \in t.vvNew[b]
<1> DEFINE f == Serialize(t)
           placed == Sorted(Placed(f))
           EntryOf(n) == IF n < Len(f.new) THEN f.new[n + 1]
                         ELSE f.tried[placed[n - Len(f.new) + 1]]
           D == 0 .. Len(f.new) + Len(placed) - 1
<1>1. t.nNew \in Nat /\ t.nTried \in Nat BY TablesAdd
<1>2. /\ u.nIdCount = Len(f.new) + Len(placed)
      /\ u.mapInfo = [n \in D |->
           [ip |-> EntryOf(n).ip, port |-> EntryOf(n).port, source |-> EntryOf(n).source,
            fInTried |-> n >= Len(f.new),
            nRefCount |-> IF n < Len(f.new) THEN Refs(f, n) ELSE 0,
            nRandomPos |-> n + 1]]
      /\ u.mapAddr = [a \in {EntryOf(n).ip : n \in D} |-> Max({n \in D : EntryOf(n).ip = a})]
      /\ u.vRandom = [k \in 1 .. Len(f.new) + Len(placed) |-> k - 1]
      /\ u.nTried = Len(placed) /\ u.nNew = Len(f.new)
      /\ u.vvTried = [b \in TriedBuckets |->
           {n \in Len(f.new) .. Len(f.new) + Len(placed) - 1 : TriedBucket(EntryOf(n)) = b}]
      /\ u.vvNew = f.buckets
  BY DEF Unserialize
<1>3. /\ Len(f.new) = t.nNew
      /\ \A n \in 0 .. t.nNew - 1 : f.new[n + 1] = Entry(t, OldId(t, n))
      /\ DOMAIN f.tried = 1 .. t.nTried
      /\ \A k \in 1 .. t.nTried : f.tried[k] = Entry(t, OldId(t, t.nNew + k - 1))
      /\ f.buckets \in [NewBuckets -> SUBSET (0 .. t.nNew - 1)]
  BY SerializeFields
<1>4. placed \in [1 .. t.nTried -> 1 .. t.nTried] /\ \A k \in 1 .. t.nTried : placed[k] = k
  BY <1>1, AllArePlaced, SortedInterval
<1> HIDE DEF placed, f
<1>5. Len(placed) = t.nTried BY <1>1, <1>4
<1>6. Last(t) \in Int /\ Last(t) = t.nNew + t.nTried - 1 BY <1>1 DEF Last
<1>7. ASSUME NEW n \in 0 .. Last(t)
      PROVE  EntryOf(n) = Entry(t, OldId(t, n))
  <2>1. CASE n < t.nNew BY <1>1, <1>3, <1>6, <2>1
  <2>2. CASE ~(n < t.nNew)
    <3> DEFINE k == n - t.nNew + 1
    <3>1. k \in 1 .. t.nTried /\ t.nNew + k - 1 = n BY <1>1, <1>6, <2>2
    <3>2. EntryOf(n) = f.tried[placed[k]] BY <1>3, <2>2
    <3> HIDE DEF k
    <3> QED BY <1>3, <1>4, <3>1, <3>2
  <2> QED BY <2>1, <2>2
<1>8. D = 0 .. Last(t) BY <1>3, <1>5, <1>6
<1> HIDE DEF EntryOf, D
<1>9. ASSUME NEW n \in 0 .. Last(t)
      PROVE  /\ EntryOf(n).ip = t.mapInfo[OldId(t, n)].ip
             /\ EntryOf(n).port = t.mapInfo[OldId(t, n)].port
             /\ EntryOf(n).source = t.mapInfo[OldId(t, n)].source
             /\ TriedBucket(EntryOf(n)) = OwnTried(t, OldId(t, n))
  BY <1>7, EntryFields
<1>10. ASSUME NEW n \in 0 .. Last(t)
       PROVE  (IF n < Len(f.new) THEN Refs(f, n) ELSE 0) = t.mapInfo[OldId(t, n)].nRefCount
  <2>1. CASE n < t.nNew
    <3>1. n \in 0 .. t.nNew - 1 BY <1>1, <1>6, <2>1
    <3> QED BY <1>3, <2>1, <3>1, RefsAreCounted DEF f
  <2>2. CASE ~(n < t.nNew)
    <3>1. n >= t.nNew BY <1>1, <1>6, <2>2
    <3>2. OldId(t, n) \in Tried(t) BY <3>1, Renumbered
    <3> QED BY <1>3, <2>2, <3>2 DEF Sound, InTried
  <2> QED BY <2>1, <2>2
<1>11. u.mapInfo = [n \in 0 .. Last(t) |->
              [ip |-> t.mapInfo[OldId(t, n)].ip, port |-> t.mapInfo[OldId(t, n)].port,
               source |-> t.mapInfo[OldId(t, n)].source, fInTried |-> n >= t.nNew,
               nRefCount |-> t.mapInfo[OldId(t, n)].nRefCount, nRandomPos |-> n + 1]]
  <2>1. u.mapInfo = [n \in 0 .. Last(t) |->
           [ip |-> EntryOf(n).ip, port |-> EntryOf(n).port, source |-> EntryOf(n).source,
            fInTried |-> n >= t.nNew,
            nRefCount |-> IF n < Len(f.new) THEN Refs(f, n) ELSE 0,
            nRandomPos |-> n + 1]]
    BY <1>2, <1>3, <1>8
  <2> QED BY <1>9, <1>10, <2>1
<1>12. /\ \A n \in 0 .. Last(t) : /\ t.mapInfo[OldId(t, n)].ip \in DOMAIN u.mapAddr
                                 /\ u.mapAddr[t.mapInfo[OldId(t, n)].ip] = n
       /\ \A a \in DOMAIN u.mapAddr : \E n \in 0 .. Last(t) : a = t.mapInfo[OldId(t, n)].ip
  <2>1. DOMAIN u.mapAddr = {EntryOf(n).ip : n \in 0 .. Last(t)} BY <1>2, <1>8
  <2>2. /\ \A n \in 0 .. Last(t) : t.mapInfo[OldId(t, n)].ip \in DOMAIN u.mapAddr
        /\ \A a \in DOMAIN u.mapAddr : \E n \in 0 .. Last(t) : a = t.mapInfo[OldId(t, n)].ip
    BY <1>9, <2>1
  <2>3. ASSUME NEW n \in 0 .. Last(t)
        PROVE  u.mapAddr[t.mapInfo[OldId(t, n)].ip] = n
    <3> DEFINE a == t.mapInfo[OldId(t, n)].ip
    <3>1. ASSUME NEW m \in 0 .. Last(t), EntryOf(m).ip = a
          PROVE  m = n
      <4>1. t.mapInfo[OldId(t, m)].ip = a BY <1>9, <3>1
      <4>2. /\ OldId(t, m) \in Ids(t) /\ NewId(t, OldId(t, m)) = m
            /\ OldId(t, n) \in Ids(t) /\ NewId(t, OldId(t, n)) = n
        BY Renumbered
      <4>3. OldId(t, m) = OldId(t, n) BY <4>1, <4>2 DEF Sound, NamedOnce, AddressesOK, Ids
      <4> QED BY <4>2, <4>3
    <3>2. {m \in D : EntryOf(m).ip = a} = {n} BY <1>8, <1>9, <3>1
    <3>3. a \in DOMAIN u.mapAddr BY <2>2
    <3>4. u.mapAddr[a] = Max({m \in D : EntryOf(m).ip = a}) BY <1>2, <3>3
    <3>5. n \in Int BY <1>6
    <3>6. Max({n}) = n BY <3>5 DEF Max
    <3> QED BY <3>2, <3>4, <3>6
  <2> QED BY <2>2, <2>3
<1>13. /\ u.vvTried \in [TriedBuckets -> SUBSET (t.nNew .. Last(t))]
       /\ \A b \in TriedBuckets : \A n \in t.nNew .. Last(t) :
            n \in u.vvTried[b] <=> OwnTried(t, OldId(t, n)) = b
  <2>1. t.nNew .. Last(t) \subseteq 0 .. Last(t) BY <1>1, <1>6
  <2>2. t.nNew .. Last(t) = Len(f.new) .. Len(f.new) + Len(placed) - 1 BY <1>1, <1>3, <1>5, <1>6
  <2>3. u.vvTried = [b \in TriedBuckets |->
              {n \in t.nNew .. Last(t) : TriedBucket(EntryOf(n)) = b}]
    BY <1>2, <2>2
  <2> QED BY <1>9, <2>1, <2>3
<1>14. \A b \in NewBuckets : \A n \in 0 .. t.nNew - 1 :
              n \in u.vvNew[b] <=> OldId(t, n) \in t.vvNew[b]
  BY <1>2, RefsAreCounted DEF f
<1>15. Ids(u) = 0 .. Last(t) BY <1>11 DEF Ids
<1>16. u.vRandom = [k \in 1 .. Last(t) + 1 |-> k - 1] BY <1>1, <1>2, <1>3, <1>5, <1>6
<1>17. /\ u.mapInfo = [n \in 0 .. Last(t) |-> u.mapInfo[n]]
       /\ \A n \in 0 .. Last(t) : u.mapInfo[n] =
              [ip |-> t.mapInfo[OldId(t, n)].ip, port |-> t.mapInfo[OldId(t, n)].port,
               source |-> t.mapInfo[OldId(t, n)].source, fInTried |-> n >= t.nNew,
               nRefCount |-> t.mapInfo[OldId(t, n)].nRefCount, nRandomPos |-> n + 1]
  BY <1>11
<1> QED BY <1>1, <1>2, <1>3, <1>5, <1>12, <1>13, <1>14, <1>15, <1>16, <1>17

(* Reading back what a sound object wrote gives a sound object: the ids    *)
(* are others, the entries and the buckets they are in are the same.       *)
LEMMA ReadBackIsSound ==
  ASSUME NEW t, Sound(t, {}, {}), NEW u, u = Unserialize(Serialize(t))
  PROVE  Sound(u, {}, {}) /\ u.nIdCount <= t.nIdCount
<1> DEFINE N == 0 .. Last(t)
<1>1. /\ t.nNew \in Nat /\ t.nTried \in Nat /\ t.nNew + t.nTried <= t.nIdCount
      /\ Last(t) \in Int /\ Last(t) = t.nNew + t.nTried - 1
  BY TablesAdd DEF Last
<1>2. t \in Object /\ NamedOnce(t) /\ InTried(t) /\ InNew(t, {}, {}) /\ Sized(t)
  BY DEF Sound, Shape
<1>3. ASSUME NEW n \in N
      PROVE  /\ OldId(t, n) \in Ids(t) /\ NewId(t, OldId(t, n)) = n /\ n \in Nat
             /\ n < t.nNew => OldId(t, n) \in New(t) /\ n \in 0 .. t.nNew - 1
             /\ n >= t.nNew => OldId(t, n) \in Tried(t)
             /\ n < t.nNew \/ n >= t.nNew
  BY <1>1, Renumbered
<1>4. /\ u.nIdCount = t.nNew + t.nTried /\ u.nNew = t.nNew /\ u.nTried = t.nTried
      /\ Ids(u) = N
      /\ u.mapInfo = [n \in N |-> u.mapInfo[n]]
      /\ \A n \in N : u.mapInfo[n] =
           [ip |-> t.mapInfo[OldId(t, n)].ip, port |-> t.mapInfo[OldId(t, n)].port,
            source |-> t.mapInfo[OldId(t, n)].source, fInTried |-> n >= t.nNew,
            nRefCount |-> t.mapInfo[OldId(t, n)].nRefCount, nRandomPos |-> n + 1]
      /\ \A n \in N : /\ t.mapInfo[OldId(t, n)].ip \in DOMAIN u.mapAddr
                     /\ u.mapAddr[t.mapInfo[OldId(t, n)].ip] = n
      /\ \A a \in DOMAIN u.mapAddr : \E n \in N : a = t.mapInfo[OldId(t, n)].ip
      /\ u.vRandom = [k \in 1 .. Last(t) + 1 |-> k - 1]
      /\ u.vvTried \in [TriedBuckets -> SUBSET (t.nNew .. Last(t))]
      /\ \A b \in TriedBuckets : \A n \in t.nNew .. Last(t) :
              n \in u.vvTried[b] <=> OwnTried(t, OldId(t, n)) = b
      /\ u.vvNew \in [NewBuckets -> SUBSET (0 .. t.nNew - 1)]
      /\ \A b \in NewBuckets : \A n \in 0 .. t.nNew - 1 :
              n \in u.vvNew[b] <=> OldId(t, n) \in t.vvNew[b]
  BY UnserializeFields
<1> HIDE DEF N
<1>5. ASSUME NEW n \in N
      PROVE  /\ u.mapInfo[n].ip = t.mapInfo[OldId(t, n)].ip /\ u.mapInfo[n].port = t.mapInfo[OldId(t, n)].port
             /\ u.mapInfo[n].source = t.mapInfo[OldId(t, n)].source
             /\ u.mapInfo[n].fInTried <=> n >= t.nNew
             /\ u.mapInfo[n].nRefCount = t.mapInfo[OldId(t, n)].nRefCount
             /\ u.mapInfo[n].nRandomPos = n + 1
             /\ OwnTried(u, n) = OwnTried(t, OldId(t, n))
             /\ u.mapInfo[n] \in Info
  <2>1. /\ t.mapInfo[OldId(t, n)].ip \in NetAddr /\ t.mapInfo[OldId(t, n)].port \in Port
        /\ t.mapInfo[OldId(t, n)].source \in Source /\ t.mapInfo[OldId(t, n)].nRefCount \in Nat
    BY <1>2, <1>3, InfoFacts
  <2>2. u.mapInfo[n] =
          [ip |-> t.mapInfo[OldId(t, n)].ip, port |-> t.mapInfo[OldId(t, n)].port,
           source |-> t.mapInfo[OldId(t, n)].source, fInTried |-> n >= t.nNew,
           nRefCount |-> t.mapInfo[OldId(t, n)].nRefCount, nRandomPos |-> n + 1]
    BY <1>4
  <2>3. n + 1 \in Nat BY <1>3
  <2>4. u.mapInfo[n] \in Info BY <2>1, <2>2, <2>3 DEF Info
  <2>5. u.mapInfo[n].fInTried <=> n >= t.nNew
    <3>1. u.mapInfo[n].fInTried = (n >= t.nNew) BY <2>2
    <3> QED BY <3>1
  <2>6. OwnTried(u, n) = OwnTried(t, OldId(t, n))
    <3>1. /\ u.mapInfo[n].ip = t.mapInfo[OldId(t, n)].ip
          /\ u.mapInfo[n].port = t.mapInfo[OldId(t, n)].port
      BY <2>2
    <3> QED BY <3>1 DEF OwnTried
  <2>7. /\ u.mapInfo[n].ip = t.mapInfo[OldId(t, n)].ip /\ u.mapInfo[n].port = t.mapInfo[OldId(t, n)].port
        /\ u.mapInfo[n].source = t.mapInfo[OldId(t, n)].source
        /\ u.mapInfo[n].nRefCount = t.mapInfo[OldId(t, n)].nRefCount
        /\ u.mapInfo[n].nRandomPos = n + 1
    BY <2>2
  <2> QED BY <2>4, <2>5, <2>6, <2>7
<1>6. N \subseteq Nat /\ \A n : n \in N <=> n \in Nat /\ n < t.nNew + t.nTried BY <1>1 DEF N
<1>7. Shape(u)
  <2>1. u.mapInfo \in [N -> Info] /\ N \in SUBSET Nat BY <1>4, <1>5, <1>6
  <2>2. u.mapInfo \in Infos BY <2>1, InfosIntro
  <2>3. u.mapAddr \in Addrs
    <3>0. ASSUME NEW a \in DOMAIN u.mapAddr PROVE a \in NetAddr /\ u.mapAddr[a] \in Nat
      <4>1. PICK n \in N : a = t.mapInfo[OldId(t, n)].ip BY <1>4
      <4>2. u.mapAddr[a] = n BY <1>4, <4>1
      <4>3. a \in NetAddr BY <1>2, <1>3, <4>1, InfoFacts
      <4> QED BY <1>3, <4>2, <4>3
    <3>1. DOMAIN u.mapAddr \in SUBSET NetAddr BY <3>0
    <3>2. \A a \in DOMAIN u.mapAddr : u.mapAddr[a] \in Nat BY <3>0
    <3>3. u.mapAddr \in [DOMAIN u.mapAddr -> Nat]
      <4>1. u.mapAddr = [a \in DOMAIN u.mapAddr |-> u.mapAddr[a]] BY DEF Unserialize
      <4> QED BY <3>2, <4>1
    <3> QED BY <3>1, <3>3 DEF Addrs
  <2>4. u.vRandom \in Seq(Nat)
    <3>1. Last(t) + 1 \in Nat /\ \A k \in 1 .. Last(t) + 1 : k - 1 \in Nat BY <1>1
    <3>2. u.vRandom \in [1 .. Last(t) + 1 -> Nat] BY <1>4, <3>1
    <3> QED BY <3>1, <3>2
  <2>5. u.vvTried \in [TriedBuckets -> SUBSET Nat] BY <1>1, <1>4
  <2>6. u.vvNew \in [NewBuckets -> SUBSET Nat] BY <1>1, <1>4
  <2>7. u.nIdCount \in Nat /\ u.nTried \in Int /\ u.nNew \in Int BY <1>1, <1>4
  <2>8. u = [nIdCount |-> u.nIdCount, mapInfo |-> u.mapInfo, mapAddr |-> u.mapAddr,
             vRandom |-> u.vRandom, nTried |-> u.nTried, nNew |-> u.nNew,
             vvTried |-> u.vvTried, vvNew |-> u.vvNew]
    BY DEF Unserialize
  <2>9. u \in Object BY <2>2, <2>3, <2>4, <2>5, <2>6, <2>7, <2>8 DEF Object
  <2>10. Ids(u) \subseteq 0 .. u.nIdCount - 1 BY <1>1, <1>4 DEF N
  <2> QED BY <2>9, <2>10 DEF Shape
<1>8. Tried(u) = t.nNew .. Last(t) /\ New(u) = 0 .. t.nNew - 1
  <2>1. \A n : n \in Tried(u) <=> n \in N /\ n >= t.nNew BY <1>4, <1>5 DEF Tried, Ids
  <2>2. \A n : n \in New(u) <=> n \in N /\ ~(n >= t.nNew) BY <1>4, <2>1 DEF New, Ids
  <2>3. \A n : n \in N /\ n >= t.nNew <=> n \in t.nNew .. Last(t) BY <1>1 DEF N
  <2>4. \A n : n \in N /\ ~(n >= t.nNew) <=> n \in 0 .. t.nNew - 1 BY <1>1 DEF N
  <2>5. \A n : n \in Tried(u) <=> n \in t.nNew .. Last(t) BY <2>1, <2>3
  <2>6. \A n : n \in New(u) <=> n \in 0 .. t.nNew - 1 BY <2>2, <2>4
  <2>7. Tried(u) = t.nNew .. Last(t) BY <2>5
  <2>8. New(u) = 0 .. t.nNew - 1 BY <2>6
  <2> QED BY <2>7, <2>8
<1>9. Counted(u, {})
  <2>0. Last(t) \in Int /\ t.nNew \in Int /\ 0 \in Int BY <1>1
  <2>1. Cardinality(Tried(u)) = t.nTried
    <3>1. Cardinality(t.nNew .. Last(t)) = IF t.nNew > Last(t) THEN 0 ELSE Last(t) - t.nNew + 1
      BY <2>0, FS_Interval
    <3> QED BY <1>1, <1>8, <3>1
  <2>2. Cardinality(New(u)) = t.nNew BY <1>1, <1>8, FS_Interval
  <2>3. Cardinality(Ids(u)) = t.nNew + t.nTried
    <3>1. Cardinality(0 .. Last(t)) = IF 0 > Last(t) THEN 0 ELSE Last(t) - 0 + 1
      BY <2>0, FS_Interval
    <3> QED BY <1>1, <1>4, <3>1 DEF N
  <2>4. Len(u.vRandom) = t.nNew + t.nTried BY <1>1, <1>4
  <2>5. New(u) \ {} = New(u) OBVIOUS
  <2> QED BY <1>4, <2>1, <2>2, <2>3, <2>4, <2>5 DEF Counted
<1>10. NamedOnce(u)
  <2>1. \A n \in N : u.mapInfo[n].ip \in DOMAIN u.mapAddr /\ u.mapAddr[u.mapInfo[n].ip] = n
    BY <1>4, <1>5
  <2>2. ASSUME NEW a \in DOMAIN u.mapAddr
        PROVE  u.mapAddr[a] \in N /\ u.mapInfo[u.mapAddr[a]].ip = a
    <3>1. PICK n \in N : a = t.mapInfo[OldId(t, n)].ip BY <1>4
    <3>2. u.mapAddr[a] = n BY <1>4, <3>1
    <3> QED BY <1>5, <3>1, <3>2
  <2> QED BY <1>4, <2>1, <2>2 DEF NamedOnce, AddressesOK, Ids
<1>11. Ordered(u)
  <2>1. DOMAIN u.vRandom = 1 .. Last(t) + 1 BY <1>4
  <2>2. \A n \in N : u.mapInfo[n].nRandomPos \in DOMAIN u.vRandom /\ u.vRandom[u.mapInfo[n].nRandomPos] = n
    <3> TAKE n \in N
    <3>1. n \in Nat /\ n + 1 \in 1 .. Last(t) + 1 BY <1>1, <1>6
    <3>2. u.vRandom[n + 1] = n BY <1>4, <3>1
    <3> QED BY <1>5, <2>1, <3>1, <3>2
  <2>3. \A i \in DOMAIN u.vRandom : u.vRandom[i] \in N /\ u.mapInfo[u.vRandom[i]].nRandomPos = i
    <3> TAKE i \in DOMAIN u.vRandom
    <3>1. i \in Int /\ u.vRandom[i] = i - 1 /\ i - 1 \in N BY <1>1, <1>4, <2>1 DEF N
    <3>2. u.mapInfo[i - 1].nRandomPos = (i - 1) + 1 BY <1>5, <3>1
    <3> QED BY <3>1, <3>2
  <2> QED BY <1>4, <2>2, <2>3 DEF Ordered, RandomOK, Ids
<1>12. \A b \in TriedBuckets : \A n : n \in u.vvTried[b] <=>
          n \in N /\ n >= t.nNew /\ OwnTried(u, n) = b
  <2> TAKE b \in TriedBuckets
  <2> TAKE n
  <2>1. n \in u.vvTried[b] <=> n \in t.nNew .. Last(t) /\ OwnTried(t, OldId(t, n)) = b BY <1>4
  <2>2. n \in t.nNew .. Last(t) <=> n \in N /\ n >= t.nNew BY <1>1, <1>6
  <2> QED BY <1>5, <2>1, <2>2
<1>13. InTried(u)
  <2>1. ASSUME NEW n \in Tried(u)
        PROVE  u.mapInfo[n].nRefCount = 0 /\ n \in u.vvTried[OwnTried(u, n)]
    <3>1. n \in N /\ n >= t.nNew BY <1>1, <1>6, <1>8
    <3>2. OldId(t, n) \in Tried(t) /\ OldId(t, n) \in Ids(t) BY <1>3, <3>1
    <3>3. OwnTried(u, n) \in TriedBuckets BY <1>2, <1>5, <3>1, <3>2, OwnTriedType
    <3>4. t.mapInfo[OldId(t, n)].nRefCount = 0 BY <1>2, <3>2 DEF InTried
    <3> QED BY <1>5, <1>12, <3>1, <3>3, <3>4
  <2>2. ASSUME NEW b \in TriedBuckets, NEW n \in u.vvTried[b]
        PROVE  n \in Tried(u) /\ OwnTried(u, n) = b
    <3>1. n \in N /\ n >= t.nNew /\ OwnTried(u, n) = b BY <1>12
    <3> QED BY <1>1, <1>6, <1>8, <3>1
  <2> QED BY <2>1, <2>2 DEF InTried
<1>14. \A b \in NewBuckets : \A n : n \in u.vvNew[b] <=> n \in 0 .. t.nNew - 1 /\ OldId(t, n) \in t.vvNew[b]
  BY <1>4
<1>15. InNew(u, {}, {})
  <2>1. ASSUME NEW n \in New(u)
        PROVE  /\ u.mapInfo[n].nRefCount \in 1 .. BucketsPerAddress
               /\ u.mapInfo[n].nRefCount = Cardinality(Buckets(u, n))
    <3>1. n \in 0 .. t.nNew - 1 /\ n \in N /\ n < t.nNew BY <1>1, <1>6, <1>8
    <3>2. OldId(t, n) \in New(t) \ {} /\ OldId(t, n) \notin {} BY <1>3, <3>1
    <3>3. /\ t.mapInfo[OldId(t, n)].nRefCount \in 1 .. BucketsPerAddress
          /\ t.mapInfo[OldId(t, n)].nRefCount = Cardinality(Buckets(t, OldId(t, n))) + 0
      BY <1>2, <3>2 DEF InNew
    <3>4. Buckets(u, n) = Buckets(t, OldId(t, n)) BY <1>14, <3>1 DEF Buckets
    <3>5. Cardinality(Buckets(t, OldId(t, n))) \in Nat BY BucketsFinite
    <3> QED BY <1>5, <3>1, <3>3, <3>4, <3>5
  <2>2. \A b \in NewBuckets : u.vvNew[b] \subseteq New(u) BY <1>8, <1>14
  <2>3. \A n \in New(u) : Cardinality(Buckets(u, n)) \in Nat BY BucketsFinite
  <2> QED BY <2>1, <2>2, <2>3 DEF InNew
<1>16. Sized(u)
  <2>1. ASSUME NEW S \in SUBSET N, NEW T, IsFiniteSet(T), \A n \in S : OldId(t, n) \in T
        PROVE  Cardinality(S) <= Cardinality(T)
    <3> DEFINE h == [n \in S |-> OldId(t, n)]
    <3>1. h \in [S -> T] BY <2>1
    <3>2. \A m, n \in S : h[m] = h[n] => m = n BY <1>3
    <3> HIDE DEF h
    <3>3. h \in Injection(S, T) BY <3>1, <3>2 DEF Injection, IsInjective
    <3> QED BY <2>1, <3>3, FS_Injection
  <2>2. ASSUME NEW b \in NewBuckets
        PROVE  Cardinality(u.vvNew[b]) <= NewBucketSize
    <3>1. u.vvNew[b] \in SUBSET N /\ \A n \in u.vvNew[b] : OldId(t, n) \in t.vvNew[b]
      BY <1>1, <1>6, <1>14
    <3>2. IsFiniteSet(t.vvNew[b]) /\ Cardinality(t.vvNew[b]) <= NewBucketSize
      BY <1>2, BucketIsFinite DEF Sized
    <3>3. Cardinality(u.vvNew[b]) <= Cardinality(t.vvNew[b]) BY <2>1, <3>1, <3>2
    <3>4. IsFiniteSet(u.vvNew[b])
      <4>1. u.vvNew[b] \in SUBSET Ids(u) BY <1>4, <3>1
      <4> QED BY <1>7, <4>1, IdsFinite
    <3>5. /\ Cardinality(u.vvNew[b]) \in Nat /\ Cardinality(t.vvNew[b]) \in Nat
          /\ NewBucketSize \in Nat
      BY <3>2, <3>4, FS_CardinalityType, AddrManAssumption
    <3> QED BY <3>2, <3>3, <3>5
  <2>3. ASSUME NEW b \in TriedBuckets
        PROVE  Cardinality(u.vvTried[b]) <= TriedBucketSize
    <3>1. u.vvTried[b] \in SUBSET N /\ \A n \in u.vvTried[b] : OldId(t, n) \in t.vvTried[b]
      <4>1. \A n \in u.vvTried[b] : /\ n \in N /\ OldId(t, n) \in Tried(t)
                                   /\ OwnTried(t, OldId(t, n)) = b
        BY <1>3, <1>5, <1>12
      <4> QED BY <1>2, <4>1 DEF InTried
    <3>2. IsFiniteSet(t.vvTried[b]) /\ Cardinality(t.vvTried[b]) <= TriedBucketSize
      BY <1>2, BucketIsFinite DEF Sized
    <3>3. Cardinality(u.vvTried[b]) <= Cardinality(t.vvTried[b]) BY <2>1, <3>1, <3>2
    <3>4. IsFiniteSet(u.vvTried[b])
      <4>1. u.vvTried[b] \in SUBSET Ids(u) BY <1>4, <3>1
      <4> QED BY <1>7, <4>1, IdsFinite
    <3>5. /\ Cardinality(u.vvTried[b]) \in Nat /\ Cardinality(t.vvTried[b]) \in Nat
          /\ TriedBucketSize \in Nat
      BY <3>2, <3>4, FS_CardinalityType, AddrManAssumption
    <3> QED BY <3>2, <3>3, <3>5
  <2> QED BY <2>2, <2>3 DEF Sized
<1>17. u.nIdCount <= t.nIdCount BY <1>1, <1>4
<1> QED BY <1>7, <1>9, <1>10, <1>11, <1>13, <1>15, <1>16, <1>17 DEF Sound

LEMMA ReadBackIsTheSame ==
  ASSUME NEW t, Sound(t, {}, {}), NEW u, u = Unserialize(Serialize(t))
  PROVE  /\ \A b \in NewBuckets : Named(u, u.vvNew[b]) = Named(t, t.vvNew[b])
         /\ \A b \in TriedBuckets : Named(u, u.vvTried[b]) = Named(t, t.vvTried[b])
<1>1. /\ t.nNew \in Nat /\ t.nTried \in Nat
      /\ Last(t) \in Int /\ Last(t) = t.nNew + t.nTried - 1
  BY TablesAdd DEF Last
<1>2. /\ u.nIdCount = t.nNew + t.nTried /\ u.nNew = t.nNew /\ u.nTried = t.nTried
      /\ Ids(u) = 0 .. Last(t)
      /\ u.mapInfo = [n \in 0 .. Last(t) |-> u.mapInfo[n]]
      /\ \A n \in 0 .. Last(t) : u.mapInfo[n] =
           [ip |-> t.mapInfo[OldId(t, n)].ip, port |-> t.mapInfo[OldId(t, n)].port,
            source |-> t.mapInfo[OldId(t, n)].source, fInTried |-> n >= t.nNew,
            nRefCount |-> t.mapInfo[OldId(t, n)].nRefCount, nRandomPos |-> n + 1]
      /\ \A n \in 0 .. Last(t) : /\ t.mapInfo[OldId(t, n)].ip \in DOMAIN u.mapAddr
                                /\ u.mapAddr[t.mapInfo[OldId(t, n)].ip] = n
      /\ \A a \in DOMAIN u.mapAddr : \E n \in 0 .. Last(t) : a = t.mapInfo[OldId(t, n)].ip
      /\ u.vRandom = [k \in 1 .. Last(t) + 1 |-> k - 1]
      /\ u.vvTried \in [TriedBuckets -> SUBSET (t.nNew .. Last(t))]
      /\ \A b \in TriedBuckets : \A n \in t.nNew .. Last(t) :
           n \in u.vvTried[b] <=> OwnTried(t, OldId(t, n)) = b
      /\ u.vvNew \in [NewBuckets -> SUBSET (0 .. t.nNew - 1)]
      /\ \A b \in NewBuckets : \A n \in 0 .. t.nNew - 1 :
           n \in u.vvNew[b] <=> OldId(t, n) \in t.vvNew[b]
  BY UnserializeFields
<1>3. ASSUME NEW n \in 0 .. Last(t)
      PROVE  Entry(u, n) = Entry(t, OldId(t, n))
  <2>1. u.mapInfo[n] =
           [ip |-> t.mapInfo[OldId(t, n)].ip, port |-> t.mapInfo[OldId(t, n)].port,
            source |-> t.mapInfo[OldId(t, n)].source, fInTried |-> n >= t.nNew,
            nRefCount |-> t.mapInfo[OldId(t, n)].nRefCount, nRandomPos |-> n + 1]
    BY <1>2
  <2>2. /\ u.mapInfo[n].ip = t.mapInfo[OldId(t, n)].ip
        /\ u.mapInfo[n].port = t.mapInfo[OldId(t, n)].port
        /\ u.mapInfo[n].source = t.mapInfo[OldId(t, n)].source
    BY <2>1
  <2> QED BY <2>2 DEF Entry
(* Two sets of entries that correspond name the same addresses.            *)
<1>4. ASSUME NEW S \in SUBSET (0 .. Last(t)), NEW T,
             \A n \in S : OldId(t, n) \in T,
             \A i \in T : NewId(t, i) \in S /\ OldId(t, NewId(t, i)) = i
      PROVE  Named(u, S) = Named(t, T)
  <2>1. ASSUME NEW e \in Named(u, S) PROVE e \in Named(t, T)
    <3>1. PICK n \in S : e = Entry(u, n) BY DEF Named
    <3>2. e = Entry(t, OldId(t, n)) BY <1>3, <3>1
    <3> QED BY <1>4, <3>2 DEF Named
  <2>2. ASSUME NEW e \in Named(t, T) PROVE e \in Named(u, S)
    <3>1. PICK i \in T : e = Entry(t, i) BY DEF Named
    <3>2. NewId(t, i) \in S /\ OldId(t, NewId(t, i)) = i BY <1>4
    <3>3. e = Entry(u, NewId(t, i)) BY <1>3, <3>1, <3>2
    <3> QED BY <3>2, <3>3 DEF Named
  <2> QED BY <2>1, <2>2
<1>5. ASSUME NEW b \in NewBuckets
      PROVE  Named(u, u.vvNew[b]) = Named(t, t.vvNew[b])
  <2>1. u.vvNew[b] \in SUBSET (0 .. t.nNew - 1) BY <1>2
  <2>2. u.vvNew[b] \in SUBSET (0 .. Last(t)) BY <1>1, <2>1
  <2>3. \A n \in u.vvNew[b] : OldId(t, n) \in t.vvNew[b] BY <1>2, <2>1
  <2>4. ASSUME NEW i \in t.vvNew[b]
        PROVE  NewId(t, i) \in u.vvNew[b] /\ OldId(t, NewId(t, i)) = i
    <3>1. i \in New(t) /\ i \in Ids(t) BY TriedIsSmall DEF Sound, InNew
    <3>2. /\ NewId(t, i) \in 0 .. Last(t) /\ OldId(t, NewId(t, i)) = i
          /\ NewId(t, i) < t.nNew
      BY <3>1, Renumbered
    <3>3. NewId(t, i) \in 0 .. t.nNew - 1 BY <1>1, <3>2
    <3> QED BY <1>2, <3>2, <3>3
  <2> QED BY <1>4, <2>2, <2>3, <2>4
<1>6. ASSUME NEW b \in TriedBuckets
      PROVE  Named(u, u.vvTried[b]) = Named(t, t.vvTried[b])
  <2>1. u.vvTried[b] \in SUBSET (t.nNew .. Last(t)) BY <1>2
  <2>2. u.vvTried[b] \in SUBSET (0 .. Last(t)) BY <1>1, <2>1
  <2>3. ASSUME NEW n \in u.vvTried[b]
        PROVE  OldId(t, n) \in t.vvTried[b]
    <3>1. n \in t.nNew .. Last(t) /\ n \in 0 .. Last(t) /\ n >= t.nNew BY <1>1, <2>1, <2>2
    <3>2. OwnTried(t, OldId(t, n)) = b BY <1>2, <3>1
    <3>3. OldId(t, n) \in Tried(t) BY <3>1, Renumbered
    <3> QED BY <3>2, <3>3 DEF Sound, InTried
  <2>4. ASSUME NEW i \in t.vvTried[b]
        PROVE  NewId(t, i) \in u.vvTried[b] /\ OldId(t, NewId(t, i)) = i
    <3>1. i \in Tried(t) /\ i \in Ids(t) /\ OwnTried(t, i) = b
      BY TriedIsSmall DEF Sound, InTried
    <3>2. /\ NewId(t, i) \in 0 .. Last(t) /\ OldId(t, NewId(t, i)) = i
          /\ NewId(t, i) >= t.nNew
      BY <3>1, Renumbered
    <3>3. NewId(t, i) \in t.nNew .. Last(t) BY <1>1, <3>2
    <3> QED BY <1>2, <3>1, <3>2, <3>3
  <2> QED BY <1>4, <2>2, <2>3, <2>4
<1> QED BY <1>5, <1>6

(* A file holds what some sound object wrote.                              *)
Written(f) == f = NoFile \/ \E t : Sound(t, {}, {}) /\ t.nIdCount <= MaxId /\ f = Serialize(t)

DumpInv == IInv /\ Written(temporary) /\ Written(peers)

LEMMA RestartIInv ==
  ASSUME DumpInv, Restart
  PROVE  DumpInv'
<1>1. CASE peers = NoFile
  <2>1. addrman' = Empty /\ nShuffle' = 0 BY <1>1 DEF Restart
  <2>2. Empty.nIdCount = 0 /\ MaxId \in Nat BY AddrManAssumption DEF Empty
  <2> QED BY <2>1, <2>2, EmptyIsSound DEF DumpInv, IInv, Restart, Written
<1>2. CASE peers # NoFile
  <2>1. PICK t : Sound(t, {}, {}) /\ t.nIdCount <= MaxId /\ peers = Serialize(t)
    BY <1>2 DEF DumpInv, Written
  <2>2. addrman' = Unserialize(Serialize(t)) /\ nShuffle' = 0 BY <1>2, <2>1 DEF Restart
  <2>3. Sound(addrman', {}, {}) /\ addrman'.nIdCount <= t.nIdCount
    BY <2>1, <2>2, ReadBackIsSound
  <2>4. addrman'.nIdCount <= MaxId
    <3>1. t.nIdCount \in Nat /\ addrman'.nIdCount \in Nat /\ MaxId \in Nat
      BY <2>1, <2>3, ObjectFacts, AddrManAssumption DEF Sound, Shape
    <3> QED BY <2>1, <2>3, <3>1
  <2> QED BY <2>2, <2>3, <2>4 DEF DumpInv, IInv, Restart, Written
<1> QED BY <1>1, <1>2

LEMMA DumpNextInv == DumpInv /\ [DumpNext]_dumpVars => DumpInv'
<1> SUFFICES ASSUME DumpInv, [DumpNext]_dumpVars PROVE DumpInv'
  OBVIOUS
<1>1. CASE Methods
  <2>1. IInv' BY <1>1, NextIInv DEF DumpInv, Methods
  <2> QED BY <1>1, <2>1 DEF DumpInv, Methods, Written
<1>2. CASE WriteTemporary
  BY <1>2 DEF DumpInv, IInv, WriteTemporary, Written
<1>3. CASE RenameOver
  BY <1>3 DEF DumpInv, IInv, RenameOver, Written
<1>4. CASE Restart BY <1>4, RestartIInv
<1>5. CASE UNCHANGED dumpVars BY <1>5 DEF DumpInv, IInv, dumpVars, Written
<1> QED BY <1>1, <1>2, <1>3, <1>4, <1>5 DEF DumpNext

LEMMA DumpSpecInv == DumpSpec => []DumpInv
<1>1. DumpInit => DumpInv BY InitIInv DEF DumpInit, DumpInv, Written
<1> QED BY <1>1, DumpNextInv, PTL DEF DumpSpec

(* Whatever calls were made and however often the process died, what is    *)
(* written now is what the next start finds: the same addresses in the     *)
(* same buckets, and an object that Check_ finds nothing wrong with        *)
(* (addrman.h 255-378).                                                    *)
THEOREM FileIsRead == DumpSpec => []SurvivesRestart
<1>1. ASSUME DumpInv PROVE SurvivesRestart
  <2> DEFINE u == Unserialize(Serialize(addrman))
  <2>1. Sound(addrman, {}, {}) BY <1>1 DEF DumpInv, IInv
  <2>2. Sound(u, {}, {}) BY <2>1, ReadBackIsSound
  <2>3. CountsOK(u) /\ AddressesOK(u) /\ RandomOK(u) /\ TriedOK(u) /\ NewOK(u)
    BY <2>2, SoundPassesCheck
  <2>4. /\ \A b \in NewBuckets : Named(u, u.vvNew[b]) = Named(addrman, addrman.vvNew[b])
        /\ \A b \in TriedBuckets : Named(u, u.vvTried[b]) = Named(addrman, addrman.vvTried[b])
    BY <2>1, ReadBackIsTheSame
  <2> QED BY <2>3, <2>4 DEF SurvivesRestart
<1> QED BY <1>1, DumpSpecInv, PTL

(* What holds of the methods holds through restarts as well.               *)
THEOREM ConsistentOverRestarts == DumpSpec => [](TypeOK /\ Consistent /\ BucketsBounded)
<1>1. IInv => BucketsBounded BY DEF IInv, Sound, Sized, BucketsBounded
<1>2. DumpInv => TypeOK /\ Consistent /\ BucketsBounded
  BY <1>1, SoundIsTyped, SoundIsConsistent DEF DumpInv
<1> QED BY <1>2, DumpSpecInv, PTL

-----------------------------------------------------------------------------
(* Alerts                                                                  *)

AlertTypes ==
  /\ alertTime \in Nat /\ mapAlerts \subseteq Alert
  /\ setKnown \in [AlertPeer -> SUBSET Alert] /\ told \in [AlertPeer -> SUBSET Alert]
  /\ nVersion \in [AlertPeer -> {"none", "zero", "known"}]

(* setKnown holds back nothing for this node's version but what was told.  *)
KnownIsTold ==
  \A p \in AlertPeer : \A a \in setKnown[p] :
    IsInEffect(a) /\ a \in AppliesToMe => a \in told[p]

AlertInv == AlertTypes /\ KnownIsTold /\ AppliesIsTold

(* What RelayTo does for a peer: it forgets nothing, and what is for this  *)
(* node's version and new to the peer is sent.                             *)
LEMMA RelayToFacts ==
  ASSUME AlertTypes, NEW S \in SUBSET Alert, NEW Q,
         NEW known \in [AlertPeer -> SUBSET Alert], NEW heard \in [AlertPeer -> SUBSET Alert],
         RelayTo(S, Q, known, heard)
  PROVE  /\ setKnown' \in [AlertPeer -> SUBSET Alert] /\ told' \in [AlertPeer -> SUBSET Alert]
         /\ \A p \in AlertPeer : known[p] \subseteq setKnown'[p] /\ heard[p] \subseteq told'[p]
         /\ \A p \in AlertPeer : \A a \in setKnown'[p] \ known[p] :
              IsInEffect(a) /\ a \in AppliesToMe => a \in told'[p]
         /\ \A p \in AlertPeer \cap Q : \A a \in S :
              IsInEffect(a) => a \in setKnown'[p]
BY DEF RelayTo, RelayWanted

LEMMA RelayKeepsKnown ==
  ASSUME AlertTypes, NEW S \in SUBSET Alert, NEW Q,
         NEW known \in [AlertPeer -> SUBSET Alert], NEW heard \in [AlertPeer -> SUBSET Alert],
         RelayTo(S, Q, known, heard), alertTime' = alertTime,
         \A p \in AlertPeer : \A a \in known[p] :
           IsInEffect(a) /\ a \in AppliesToMe => a \in heard[p]
  PROVE  KnownIsTold'
<1>1. \A a : IsInEffect(a)' <=> IsInEffect(a) BY DEF IsInEffect
<1>2. \A p \in AlertPeer : \A a \in setKnown'[p] :
        IsInEffect(a) /\ a \in AppliesToMe => a \in told'[p]
  BY RelayToFacts
<1> QED BY <1>1, <1>2 DEF KnownIsTold

LEMMA ReceiveVersionInv ==
  ASSUME AlertInv, NEW p \in AlertPeer, ReceiveAlertVersion(p)
  PROVE  AlertInv'
<1>1. /\ RelayTo(mapAlerts, {p}, setKnown, told) /\ mapAlerts \in SUBSET Alert
      /\ AlertTypes /\ setKnown \in [AlertPeer -> SUBSET Alert]
      /\ told \in [AlertPeer -> SUBSET Alert] /\ alertTime' = alertTime
      /\ mapAlerts' = mapAlerts /\ nVersion' = [nVersion EXCEPT ![p] = "known"]
  BY DEF ReceiveAlertVersion, AlertInv, AlertTypes
<1>2. \A a : IsInEffect(a)' <=> IsInEffect(a) BY <1>1 DEF IsInEffect
<1>3. KnownIsTold' BY <1>1, RelayKeepsKnown DEF AlertInv, KnownIsTold
<1>4. AlertTypes' BY <1>1, RelayToFacts DEF AlertTypes
<1>5. AppliesIsTold'
  <2> SUFFICES ASSUME NEW q \in AlertPeer, NEW a \in mapAlerts, nVersion'[q] = "known",
                      IsInEffect(a), a \in AppliesToVersion[q], a \in AppliesToMe
               PROVE  a \in told'[q]
    BY <1>1, <1>2 DEF AppliesIsTold
  <2>1. CASE q = p
    <3>1. a \in setKnown'[p] BY <1>1, RelayToFacts
    <3> QED BY <1>2, <1>3, <2>1, <3>1 DEF KnownIsTold
  <2>2. CASE q # p
    <3>1. nVersion[q] = "known" BY <1>1, <2>2 DEF AlertTypes
    <3>2. a \in told[q] BY <3>1 DEF AlertInv, AppliesIsTold
    <3> QED BY <1>1, <3>2, RelayToFacts
  <2> QED BY <2>1, <2>2
<1> QED BY <1>3, <1>4, <1>5 DEF AlertInv

LEMMA ReceiveAlertInv ==
  ASSUME AlertInv, NEW p \in AlertPeer, NEW a \in Alert, ReceiveAlert(p, a)
  PROVE  AlertInv'
<1> DEFINE Q == {q \in AlertPeer : nVersion[q] # "none"}
           known == [setKnown EXCEPT ![p] = @ \cup {a}]
           heard == [told EXCEPT ![p] = @ \cup {a}]
<1>1. /\ alertTime' = alertTime /\ nVersion' = nVersion /\ AlertTypes
      /\ ProcessAlert(a) /\ nVersion[p] = "known"
  BY DEF ReceiveAlert, AlertInv
<1>2. \A b : IsInEffect(b)' <=> IsInEffect(b) BY <1>1 DEF IsInEffect
<1>3. /\ mapAlerts' \subseteq mapAlerts \cup {a}
      /\ ~Accepted(a) => mapAlerts' \subseteq mapAlerts
  BY <1>1 DEF ProcessAlert, Remaining, Accepted
<1>4. /\ known \in [AlertPeer -> SUBSET Alert] /\ heard \in [AlertPeer -> SUBSET Alert]
      /\ \A q \in AlertPeer : told[q] \subseteq heard[q] /\ setKnown[q] \subseteq known[q]
      /\ a \in known[p] /\ a \in heard[p]
      /\ \A q \in AlertPeer : known[q] # setKnown[q] => q = p
      /\ known[p] = setKnown[p] \cup {a}
  BY <1>1 DEF AlertTypes
<1>5. CASE Accepted(a)
  <2>1. RelayTo({a}, Q, known, heard) BY <1>5 DEF ReceiveAlert
  <2>2. \A q \in AlertPeer : \A b \in known[q] :
          IsInEffect(b) /\ b \in AppliesToMe => b \in heard[q]
    BY <1>4 DEF AlertInv, KnownIsTold
  <2> HIDE DEF Q, known, heard
  <2>3. {a} \in SUBSET Alert OBVIOUS
  <2>4. KnownIsTold' BY <1>1, <1>4, <2>1, <2>2, <2>3, RelayKeepsKnown
  <2>5. AlertTypes' BY <1>1, <1>3, <1>4, <2>1, <2>3, RelayToFacts DEF AlertTypes
  <2>6. AppliesIsTold'
    <3> SUFFICES ASSUME NEW q \in AlertPeer, NEW b \in mapAlerts', nVersion[q] = "known",
                        IsInEffect(b), b \in AppliesToVersion[q], b \in AppliesToMe
                 PROVE  b \in told'[q]
      BY <1>1, <1>2 DEF AppliesIsTold
    <3>1. CASE b = a
      <4>1. q \in Q BY DEF Q
      <4>2. a \in setKnown'[q] BY <1>1, <1>4, <2>1, <2>3, <3>1, <4>1, RelayToFacts
      <4> QED BY <1>2, <2>4, <3>1, <4>2 DEF KnownIsTold
    <3>2. CASE b # a
      <4>1. b \in told[q] BY <1>3, <3>2 DEF AlertInv, AppliesIsTold
      <4> QED BY <1>1, <1>4, <2>1, <2>3, <4>1, RelayToFacts
    <3> QED BY <3>1, <3>2
  <2> QED BY <2>4, <2>5, <2>6 DEF AlertInv
<1>6. CASE ~Accepted(a)
  <2>1. setKnown' = setKnown /\ told' = heard BY <1>6 DEF ReceiveAlert
  <2> HIDE DEF Q, known, heard
  <2>2. AlertTypes' BY <1>1, <1>3, <1>4, <1>6, <2>1 DEF AlertTypes
  <2>3. KnownIsTold' BY <1>2, <1>4, <2>1 DEF AlertInv, KnownIsTold
  <2>4. AppliesIsTold' BY <1>1, <1>2, <1>3, <1>4, <1>6, <2>1 DEF AlertInv, AppliesIsTold
  <2> QED BY <2>2, <2>3, <2>4 DEF AlertInv
<1> QED BY <1>5, <1>6

LEMMA AlertNextInv == AlertInv /\ [AlertNext]_alertVars => AlertInv'
<1> SUFFICES ASSUME AlertInv, [AlertNext]_alertVars PROVE AlertInv' OBVIOUS
<1>1. ASSUME NEW p \in AlertPeer, PeerComes(p) PROVE AlertInv'
  BY <1>1 DEF PeerComes, AlertInv, AlertTypes, KnownIsTold, AppliesIsTold, IsInEffect
<1>2. ASSUME NEW p \in AlertPeer, PeerGoes(p) PROVE AlertInv'
  BY <1>2 DEF PeerGoes, AlertInv, AlertTypes, KnownIsTold, AppliesIsTold, IsInEffect
<1>3. ASSUME AlertTick PROVE AlertInv'
  <2>1. \A a \in Alert : IsInEffect(a)' => IsInEffect(a)
    BY <1>3, AlertsAssumption DEF AlertTick, IsInEffect, AlertInv, AlertTypes
  <2> QED BY <1>3, <2>1 DEF AlertTick, AlertInv, AlertTypes, KnownIsTold, AppliesIsTold
<1>4. CASE UNCHANGED alertVars
  BY <1>4 DEF alertVars, AlertInv, AlertTypes, KnownIsTold, AppliesIsTold, IsInEffect
<1> QED BY <1>1, <1>2, <1>3, <1>4, ReceiveVersionInv, ReceiveAlertInv DEF AlertNext

(* A peer whose version is known was told every alert that is kept, in     *)
(* effect, and for both its version and this node's, for any number of     *)
(* peers and alerts and whatever the alerts cancel.                        *)
THEOREM AlertsAreTold == AlertSpec => []AppliesIsTold
<1>1. AlertInit => AlertInv
  BY DEF AlertInit, AlertInv, AlertTypes, KnownIsTold, AppliesIsTold
<1>2. AlertInv => AppliesIsTold BY DEF AlertInv
<1> QED BY <1>1, <1>2, AlertNextInv, PTL DEF AlertSpec
-----------------------------------------------------------------------------
(* The schedule of requests                                                *)

AskTypes ==
  /\ {time, nLastTime, announced} \subseteq Nat
  /\ mapAlreadyAskedFor \in [Item -> Nat]
  /\ mapAskFor \in [Peer -> SUBSET (Nat \X Item)]
  /\ have \in [Item -> {"none", "held", "had"}]
  /\ inv \in [Peer -> SUBSET Item] /\ getdata \in [Peer -> SUBSET Item]

(* What keeps an item from being forgotten for a peer: its announcement is *)
(* not looked at yet, its request waits in the queue, or was sent.         *)
Owed(p, i) == i \in inv[p] \/ i \in getdata[p] \/ \E x \in mapAskFor[p] : x[2] = i

(* No step of any peer drops what a peer that stays has announced, unless  *)
(* it is had, or held, from then on: an announcement becomes an entry of   *)
(* the queue, an entry a request, and a request an answer (main.cpp        *)
(* 3276-3301, net.h 315-333).                                              *)
NothingOwedIsLost ==
  [][\A p \in Honest, i \in Item :
       Owed(p, i) /\ have'[i] = "none" => Owed(p, i)']_askVars

(* A request is put off by Retry for each announcement that was looked at, *)
(* never by more: the schedule is not ahead of the clock by anything that  *)
(* it does not owe to an announcement.  Announcements end, so that every   *)
(* request falls due while there is still time.                            *)
Pending == {x \in Peer \X Item : x[2] \in inv[x[1]]}
spent == announced - Cardinality(Pending)
Latest == LastAnnounce * Second + spent * Retry

ClockOK == StartTime <= time /\ announced <= MaxAnnounce
PendingOK == Cardinality(Pending) <= announced /\ (Pending # {} => time <= LastAnnounce)
ScheduleOK ==
  /\ nLastTime <= LastAnnounce * Second + spent
  /\ time <= LastAnnounce => \A i \in Item : mapAlreadyAskedFor[i] <= Latest
  /\ \A p \in Peer : \A x \in mapAskFor[p] : x[1] <= Latest

AskInv == AskTypes /\ ClockOK /\ PendingOK /\ ScheduleOK

EveryRequestFallsDue ==
  \A p \in Peer : \A x \in mapAskFor[p] : x[1] < MaxTime * Second

LEMMA ProductGrows ==
  ASSUME NEW m \in Nat, NEW n \in Nat, NEW k \in Nat, m <= n
  PROVE  m * k <= n * k /\ m * k \in Nat /\ n * k \in Nat
<1> DEFINE d == n - m
<1>1. d \in Nat /\ n = m + d OBVIOUS
<1> HIDE DEF d
<1>2. n * k = m * k + d * k BY <1>1
<1>3. d * k \in Nat /\ m * k \in Nat BY <1>1
<1> QED BY <1>2, <1>3

LEMMA AskBounds ==
  /\ {StartTime, Second, Retry, LastAnnounce, MaxAnnounce, MaxTime} \subseteq Nat
  /\ Second \in Nat \ {0} /\ Retry \in Nat \ {0}
  /\ LastAnnounce * Second \in Nat /\ StartTime >= 1
<1>1. /\ {StartTime, Second, Retry, LastAnnounce, MaxAnnounce, MaxTime} \subseteq Nat
      /\ Second > MaxAnnounce /\ Retry > Second /\ (StartTime - 1) * Second > Retry
  BY AskForAssumption
<1>2. LastAnnounce * Second \in Nat BY <1>1
<1>3. Second \in Nat \ {0} /\ Retry \in Nat \ {0} BY <1>1
<1>4. StartTime >= 1
  <2> SUFFICES ASSUME StartTime = 0 PROVE FALSE BY <1>1
  <2>1. (StartTime - 1) * Second = 0 - Second BY <1>1
  <2> QED BY <1>1, <2>1
<1> QED BY <1>1, <1>2, <1>3, <1>4

LEMMA PendingFinite ==
  /\ IsFiniteSet(Pending) /\ Cardinality(Pending) \in Nat
  /\ IsFiniteSet(Pending') /\ Cardinality(Pending') \in Nat
<1>1. IsFiniteSet(Peer \X Item) BY AskForAssumption, FS_Product
<1>2. Pending \in SUBSET (Peer \X Item) /\ Pending' \in SUBSET (Peer \X Item)
  BY DEF Pending
<1> QED BY <1>1, <1>2, FS_Subset, FS_CardinalityType

(* What was looked at does not become less; later is no sooner.            *)
LEMMA LatestGrows ==
  ASSUME AskTypes, AskTypes', PendingOK, PendingOK', spent <= spent'
  PROVE  /\ spent \in Nat /\ spent' \in Nat /\ Latest \in Nat /\ Latest' \in Nat
         /\ Latest <= Latest'
<1>1. spent \in Nat BY PendingFinite DEF AskTypes, PendingOK, spent
<1>2. spent' \in Nat BY PendingFinite DEF AskTypes, PendingOK, spent
<1>3. spent * Retry <= spent' * Retry /\ spent * Retry \in Nat /\ spent' * Retry \in Nat
  BY <1>1, <1>2, AskBounds, ProductGrows
<1>4. Latest = LastAnnounce * Second + spent * Retry BY DEF Latest
<1>5. Latest' = LastAnnounce * Second + spent' * Retry BY DEF Latest
<1> QED BY <1>1, <1>2, <1>3, <1>4, <1>5, AskBounds

(* What AskFor does to the three maps.                                     *)
LEMMA AskForFacts ==
  ASSUME AskTypes, ClockOK, NEW p \in Peer, NEW i \in Item, AskFor(p, i)
  PROVE  \E nNow \in Nat, nRequestTime \in Nat :
           /\ nNow = (time - 1) * Second \/ nNow = nLastTime + 1
           /\ nRequestTime = mapAlreadyAskedFor[i] + Retry \/ nRequestTime = nNow
           /\ nLastTime' = nNow
           /\ mapAlreadyAskedFor' = [mapAlreadyAskedFor EXCEPT ![i] = nRequestTime]
           /\ mapAskFor' = [mapAskFor EXCEPT ![p] = @ \cup {<<nRequestTime, i>>}]
<1> DEFINE nNow == Later((time - 1) * Second, nLastTime + 1)
           nRequestTime == Later(mapAlreadyAskedFor[i] + Retry, nNow)
<1>1. time - 1 \in Nat /\ nLastTime \in Nat /\ mapAlreadyAskedFor[i] \in Nat
  BY AskBounds DEF AskTypes, ClockOK
<1>2. (time - 1) * Second \in Nat /\ Retry \in Nat BY <1>1, AskBounds
<1>3. nNow \in Nat /\ (nNow = (time - 1) * Second \/ nNow = nLastTime + 1)
  BY <1>1, <1>2 DEF Later
<1> HIDE DEF nNow
<1>4. nRequestTime \in Nat
      /\ (nRequestTime = mapAlreadyAskedFor[i] + Retry \/ nRequestTime = nNow)
  BY <1>1, <1>2, <1>3 DEF Later
<1>5. /\ nLastTime' = nNow
      /\ mapAlreadyAskedFor' = [mapAlreadyAskedFor EXCEPT ![i] = nRequestTime]
      /\ mapAskFor' = [mapAskFor EXCEPT ![p] = @ \cup {<<nRequestTime, i>>}]
  BY DEF AskFor, Insert, nNow
<1> HIDE DEF nRequestTime
<1> QED BY <1>3, <1>4, <1>5

LEMMA AskForTyped ==
  ASSUME AskTypes, ClockOK, NEW p \in Peer, NEW i \in Item, AskFor(p, i)
  PROVE  /\ nLastTime' \in Nat /\ mapAlreadyAskedFor' \in [Item -> Nat]
         /\ mapAskFor' \in [Peer -> SUBSET (Nat \X Item)]
<1>1. PICK nNow \in Nat, nRequestTime \in Nat :
        /\ nLastTime' = nNow
        /\ mapAlreadyAskedFor' = [mapAlreadyAskedFor EXCEPT ![i] = nRequestTime]
        /\ mapAskFor' = [mapAskFor EXCEPT ![p] = @ \cup {<<nRequestTime, i>>}]
  BY AskForFacts
<1>2. mapAskFor[p] \cup {<<nRequestTime, i>>} \in SUBSET (Nat \X Item) BY DEF AskTypes
<1> QED BY <1>1, <1>2 DEF AskTypes

LEMMA AskNextTyped == AskTypes /\ ClockOK /\ [AskNext]_askVars => AskTypes'
<1> SUFFICES ASSUME AskTypes, ClockOK, [AskNext]_askVars PROVE AskTypes' OBVIOUS
<1>1. ASSUME NEW p \in Peer, NEW i \in Item, Announce(p, i) PROVE AskTypes'
  BY <1>1 DEF Announce, schedule, AskTypes
<1>2. ASSUME NEW p \in Peer, NEW i \in Item, ReceiveTxInv(p, i) PROVE AskTypes'
  <2>1. /\ nLastTime' \in Nat /\ mapAlreadyAskedFor' \in [Item -> Nat]
        /\ mapAskFor' \in [Peer -> SUBSET (Nat \X Item)]
    BY <1>2, AskForTyped DEF ReceiveTxInv, schedule, AskTypes
  <2>2. inv' \in [Peer -> SUBSET Item] BY <1>2 DEF ReceiveTxInv, AskTypes
  <2> QED BY <1>2, <2>1, <2>2 DEF ReceiveTxInv, AskTypes
<1>3. ASSUME NEW p \in Peer, SendGetData(p) PROVE AskTypes'
  <2>1. time * Second \in Nat BY AskBounds DEF AskTypes
  <2>2. Wanted(p) \subseteq Item BY DEF Wanted, Due, AskTypes
  <2>3. mapAskFor' \in [Peer -> SUBSET (Nat \X Item)] BY <1>3 DEF SendGetData, AskTypes
  <2>4. getdata' \in [Peer -> SUBSET Item] BY <1>3, <2>2 DEF SendGetData, AskTypes
  <2>5. mapAlreadyAskedFor' \in [Item -> Nat] BY <1>3, <2>1 DEF SendGetData, AskTypes
  <2> QED BY <1>3, <2>3, <2>4, <2>5 DEF SendGetData, AskTypes
<1>4. ASSUME NEW p \in Peer, NEW i \in Item, Answer(p, i) PROVE AskTypes'
  BY <1>4 DEF Answer, AcceptItem, AskTypes
<1>5. ASSUME NEW p \in Peer, PeerLeaves(p) PROVE AskTypes'
  BY <1>5 DEF PeerLeaves, AskTypes
<1>6. ASSUME NEW i \in Item, ParentsArrive(i) PROVE AskTypes'
  BY <1>6 DEF ParentsArrive, AcceptItem, AskTypes
<1>7. ASSUME NEW i \in Item, EvictItem(i) PROVE AskTypes'
  BY <1>7 DEF EvictItem, schedule, AskTypes
<1>8. ASSUME AskTick PROVE AskTypes' BY <1>8 DEF AskTick, schedule, AskTypes
<1>9. CASE UNCHANGED askVars BY <1>9 DEF askVars, AskTypes
<1> QED BY <1>1, <1>2, <1>3, <1>4, <1>5, <1>6, <1>7, <1>8, <1>9 DEF AskNext

(* The announcements that are not looked at yet, and how many were.        *)
LEMMA AskNextPending ==
  ASSUME AskInv, AskTypes', [AskNext]_askVars
  PROVE  ClockOK' /\ PendingOK' /\ spent <= spent'
<1>0. /\ Cardinality(Pending) \in Nat /\ Cardinality(Pending') \in Nat
      /\ IsFiniteSet(Pending) /\ announced \in Nat /\ MaxAnnounce \in Nat
      /\ {time, StartTime, LastAnnounce} \subseteq Nat
      /\ AskTypes /\ ClockOK /\ PendingOK
  BY PendingFinite, AskBounds DEF AskInv, AskTypes
<1>1. ASSUME NEW p \in Peer, NEW i \in Item, Announce(p, i)
      PROVE  ClockOK' /\ PendingOK' /\ spent <= spent'
  <2>1. Pending' = Pending \cup {<<p, i>>} /\ <<p, i>> \notin Pending
    BY <1>0, <1>1 DEF Announce, Pending, AskTypes
  <2>2. Cardinality(Pending') = Cardinality(Pending) + 1 BY <1>0, <2>1, FS_AddElement
  <2> QED BY <1>0, <1>1, <2>2 DEF Announce, ClockOK, PendingOK, spent
<1>2. ASSUME NEW p \in Peer, NEW i \in Item, ReceiveTxInv(p, i)
      PROVE  ClockOK' /\ PendingOK' /\ spent <= spent'
  <2>1. Pending' = Pending \ {<<p, i>>} /\ <<p, i>> \in Pending
    BY <1>0, <1>2 DEF ReceiveTxInv, Pending, AskTypes
  <2>2. Cardinality(Pending') = Cardinality(Pending) - 1 BY <1>0, <2>1, FS_RemoveElement
  <2> QED BY <1>0, <1>2, <2>1, <2>2 DEF ReceiveTxInv, ClockOK, PendingOK, spent
<1>3. ASSUME NEW p \in Peer, PeerLeaves(p)
      PROVE  ClockOK' /\ PendingOK' /\ spent <= spent'
  <2>1. Pending' \in SUBSET Pending BY <1>0, <1>3 DEF PeerLeaves, Pending, AskTypes
  <2>2. Cardinality(Pending') <= Cardinality(Pending) BY <1>0, <2>1, FS_Subset
  <2> QED BY <1>0, <1>3, <2>1, <2>2 DEF PeerLeaves, ClockOK, PendingOK, spent
<1>4. ASSUME AskTick PROVE ClockOK' /\ PendingOK' /\ spent <= spent'
  <2>1. Pending' = Pending /\ Pending = {}
    BY <1>4 DEF AskTick, Pending
  <2> QED BY <1>0, <1>4, <2>1 DEF AskTick, ClockOK, PendingOK, spent
<1>5. ASSUME inv' = inv, time' = time, announced' = announced
      PROVE  ClockOK' /\ PendingOK' /\ spent <= spent'
  BY <1>0, <1>5 DEF ClockOK, PendingOK, Pending, spent
<1>6. ASSUME NEW p \in Peer, SendGetData(p) PROVE inv' = inv /\ time' = time /\ announced' = announced
  BY <1>6 DEF SendGetData
<1>7. ASSUME NEW p \in Peer, NEW i \in Item, Answer(p, i)
      PROVE  inv' = inv /\ time' = time /\ announced' = announced
  BY <1>7 DEF Answer
<1>8. ASSUME NEW i \in Item, ParentsArrive(i) \/ EvictItem(i)
      PROVE  inv' = inv /\ time' = time /\ announced' = announced
  BY <1>8 DEF ParentsArrive, EvictItem
<1>9. CASE UNCHANGED askVars BY <1>5, <1>9 DEF askVars
<1> QED BY <1>1, <1>2, <1>3, <1>4, <1>5, <1>6, <1>7, <1>8, <1>9 DEF AskNext

(* A step that changes the schedule only to what the clock shows leaves it *)
(* in its bounds.                                                          *)
LEMMA ScheduleKept ==
  ASSUME AskInv, AskTypes', PendingOK', spent <= spent', nLastTime' = nLastTime,
         time' <= LastAnnounce => time <= LastAnnounce,
         \A i \in Item : \/ mapAlreadyAskedFor'[i] = mapAlreadyAskedFor[i]
                         \/ mapAlreadyAskedFor'[i] = 0
                         \/ mapAlreadyAskedFor'[i] = time * Second,
         \A p \in Peer : mapAskFor'[p] \subseteq mapAskFor[p]
  PROVE  ScheduleOK'
<1>0. AskTypes /\ PendingOK /\ ScheduleOK BY DEF AskInv
<1>1. /\ spent \in Nat /\ spent' \in Nat /\ Latest \in Nat /\ Latest' \in Nat
      /\ Latest <= Latest' /\ spent <= spent'
  BY <1>0, LatestGrows
<1>2. LastAnnounce * Second \in Nat /\ time \in Nat /\ nLastTime \in Nat
  BY <1>0, AskBounds DEF AskTypes
<1>3. nLastTime' <= LastAnnounce * Second + spent' BY <1>0, <1>1, <1>2 DEF ScheduleOK
<1>4. ASSUME time' <= LastAnnounce, NEW i \in Item PROVE mapAlreadyAskedFor'[i] <= Latest'
  <2>1. mapAlreadyAskedFor[i] <= Latest /\ mapAlreadyAskedFor[i] \in Nat
    BY <1>0, <1>4 DEF ScheduleOK, AskTypes
  <2>2. time * Second <= LastAnnounce * Second /\ time * Second \in Nat
    BY <1>2, <1>4, AskBounds, ProductGrows
  <2>3. LastAnnounce * Second <= Latest'
    <3>1. spent' * Retry \in Nat BY <1>1, AskBounds, ProductGrows
    <3>2. Latest' = LastAnnounce * Second + spent' * Retry BY DEF Latest
    <3> QED BY <1>2, <3>1, <3>2
  <2> QED BY <1>1, <1>2, <2>1, <2>2, <2>3
<1>5. ASSUME NEW p \in Peer, NEW x \in mapAskFor'[p] PROVE x[1] <= Latest'
  <2>1. x \in mapAskFor[p] BY <1>5
  <2>2. x[1] <= Latest /\ x[1] \in Nat BY <1>0, <2>1 DEF ScheduleOK, AskTypes
  <2> QED BY <1>1, <2>2
<1> QED BY <1>3, <1>4, <1>5 DEF ScheduleOK

(* An announcement that is looked at puts the schedule off by Retry at the *)
(* most.                                                                   *)
LEMMA ReceiveTxInvSchedule ==
  ASSUME AskInv, AskTypes', PendingOK', NEW p \in Peer, NEW i \in Item, ReceiveTxInv(p, i),
         have[i] = "none"
  PROVE  ScheduleOK'
<1>0. /\ AskTypes /\ ClockOK /\ PendingOK /\ ScheduleOK /\ AskFor(p, i)
      /\ time' = time /\ announced' = announced
  BY DEF AskInv, ReceiveTxInv
<1>1. Pending' = Pending \ {<<p, i>>} /\ <<p, i>> \in Pending
  BY DEF ReceiveTxInv, Pending, AskInv, AskTypes
<1>2. /\ Cardinality(Pending') = Cardinality(Pending) - 1 /\ Cardinality(Pending) \in Nat
      /\ announced \in Nat
  <2>1. IsFiniteSet(Pending) /\ Cardinality(Pending) \in Nat BY PendingFinite
  <2>2. Cardinality(Pending \ {<<p, i>>}) = Cardinality(Pending) - 1
    BY <1>1, <2>1, FS_RemoveElement
  <2> QED BY <1>0, <1>1, <2>1, <2>2 DEF AskTypes
<1>3. spent' = spent + 1 BY <1>0, <1>2 DEF spent
<1>4. spent \in Nat BY <1>0, <1>2 DEF spent, PendingOK
<1>5. time <= LastAnnounce BY <1>0, <1>1 DEF PendingOK
<1>6. Latest' = Latest + Retry
  <2>1. Latest' = LastAnnounce * Second + spent' * Retry BY DEF Latest
  <2>2. (spent + 1) * Retry = spent * Retry + Retry BY <1>4, AskBounds
  <2>3. spent * Retry \in Nat BY <1>4, AskBounds
  <2> QED BY <1>3, <2>1, <2>2, <2>3, AskBounds DEF Latest
<1>7. Latest \in Nat /\ LastAnnounce * Second + spent' <= Latest'
  <2>1. spent' * 1 <= spent' * Retry
    <3>1. 1 * spent' <= Retry * spent' BY <1>3, <1>4, AskBounds, ProductGrows
    <3> QED BY <1>3, <1>4, <3>1, AskBounds
  <2>2. spent * Retry \in Nat BY <1>4, AskBounds
  <2>3. spent' * Retry \in Nat BY <1>3, <1>4, AskBounds
  <2>4. Latest' = LastAnnounce * Second + spent' * Retry BY DEF Latest
  <2> QED BY <1>3, <1>4, <2>1, <2>2, <2>3, <2>4, AskBounds DEF Latest
<1>8. PICK nNow \in Nat, nRequestTime \in Nat :
        /\ nNow = (time - 1) * Second \/ nNow = nLastTime + 1
        /\ nRequestTime = mapAlreadyAskedFor[i] + Retry \/ nRequestTime = nNow
        /\ nLastTime' = nNow
        /\ mapAlreadyAskedFor' = [mapAlreadyAskedFor EXCEPT ![i] = nRequestTime]
        /\ mapAskFor' = [mapAskFor EXCEPT ![p] = @ \cup {<<nRequestTime, i>>}]
  BY <1>0, AskForFacts
<1>9. nNow <= LastAnnounce * Second + spent'
  <2>1. time - 1 \in Nat /\ time - 1 <= LastAnnounce
    BY <1>0, <1>5, AskBounds DEF AskTypes, ClockOK
  <2>2. (time - 1) * Second <= LastAnnounce * Second /\ (time - 1) * Second \in Nat
    BY <2>1, AskBounds, ProductGrows
  <2>3. nLastTime <= LastAnnounce * Second + spent /\ nLastTime \in Nat
    BY <1>0 DEF ScheduleOK, AskTypes
  <2> QED BY <1>3, <1>4, <1>8, <2>2, <2>3, AskBounds
<1>10. \A j \in Item : mapAlreadyAskedFor[j] <= Latest /\ mapAlreadyAskedFor[j] \in Nat
  BY <1>0, <1>5 DEF ScheduleOK, AskTypes
<1>11. LastAnnounce * Second + spent' \in Nat BY <1>3, <1>4, AskBounds
<1>12. nRequestTime <= Latest'
  BY <1>6, <1>7, <1>8, <1>9, <1>10, <1>11, AskBounds
<1>13. \A j \in Item : mapAlreadyAskedFor'[j] <= Latest'
  BY <1>0, <1>6, <1>7, <1>8, <1>10, <1>12, AskBounds DEF AskTypes
<1>14. ASSUME NEW q \in Peer, NEW x \in mapAskFor'[q] PROVE x[1] <= Latest'
  <2>1. x \in mapAskFor[q] \/ x = <<nRequestTime, i>> BY <1>0, <1>8, <1>14 DEF AskTypes
  <2>2. ASSUME x \in mapAskFor[q] PROVE x[1] <= Latest /\ x[1] \in Nat
    BY <1>0, <2>2 DEF ScheduleOK, AskTypes
  <2> QED BY <1>6, <1>7, <1>12, <2>1, <2>2, AskBounds
<1> QED BY <1>8, <1>9, <1>13, <1>14 DEF ScheduleOK

LEMMA AskNextInv == AskInv /\ [AskNext]_askVars => AskInv'
<1> SUFFICES ASSUME AskInv, [AskNext]_askVars PROVE AskInv' OBVIOUS
<1>0. AskTypes /\ ClockOK /\ AskTypes' BY AskNextTyped DEF AskInv
<1>1. ClockOK' /\ PendingOK' /\ spent <= spent' BY <1>0, AskNextPending
<1>2. {time, LastAnnounce} \subseteq Nat BY <1>0, AskBounds DEF AskTypes
<1>3. ASSUME NEW p \in Peer, NEW i \in Item, ReceiveTxInv(p, i) PROVE ScheduleOK'
  <2>1. CASE have[i] = "none" BY <1>0, <1>1, <1>3, <2>1, ReceiveTxInvSchedule
  <2>2. CASE have[i] # "none"
    BY <1>0, <1>1, <1>3, <2>2, ScheduleKept DEF ReceiveTxInv, schedule
  <2> QED BY <2>1, <2>2
<1>4. ASSUME NEW p \in Peer, NEW i \in Item, Announce(p, i) PROVE ScheduleOK'
  BY <1>0, <1>1, <1>4, ScheduleKept DEF Announce, schedule
<1>5. ASSUME NEW p \in Peer, SendGetData(p) PROVE ScheduleOK'
  <2>1. \A i \in Item : \/ mapAlreadyAskedFor'[i] = mapAlreadyAskedFor[i]
                        \/ mapAlreadyAskedFor'[i] = time * Second
    BY <1>5 DEF SendGetData
  <2>2. \A q \in Peer : mapAskFor'[q] \subseteq mapAskFor[q]
    BY <1>0, <1>5 DEF SendGetData, AskTypes
  <2>3. nLastTime' = nLastTime /\ time' = time BY <1>5 DEF SendGetData
  <2> QED BY <1>0, <1>1, <2>1, <2>2, <2>3, ScheduleKept
<1>6. ASSUME NEW p \in Peer, NEW i \in Item, Answer(p, i) PROVE ScheduleOK'
  <2>1. \A j \in Item : \/ mapAlreadyAskedFor'[j] = mapAlreadyAskedFor[j]
                        \/ mapAlreadyAskedFor'[j] = 0
    BY <1>0, <1>6 DEF Answer, AcceptItem, AskTypes
  <2>2. mapAskFor' = mapAskFor /\ nLastTime' = nLastTime /\ time' = time BY <1>6 DEF Answer
  <2> QED BY <1>0, <1>1, <2>1, <2>2, ScheduleKept
<1>7. ASSUME NEW i \in Item, ParentsArrive(i) PROVE ScheduleOK'
  <2>1. \A j \in Item : \/ mapAlreadyAskedFor'[j] = mapAlreadyAskedFor[j]
                        \/ mapAlreadyAskedFor'[j] = 0
    BY <1>0, <1>7 DEF ParentsArrive, AcceptItem, AskTypes
  <2>2. mapAskFor' = mapAskFor /\ nLastTime' = nLastTime /\ time' = time
    BY <1>7 DEF ParentsArrive
  <2> QED BY <1>0, <1>1, <2>1, <2>2, ScheduleKept
<1>8. ASSUME NEW i \in Item, EvictItem(i) PROVE ScheduleOK'
  BY <1>0, <1>1, <1>8, ScheduleKept DEF EvictItem, schedule
<1>9. ASSUME NEW p \in Peer, PeerLeaves(p) PROVE ScheduleOK'
  <2>1. \A q \in Peer : mapAskFor'[q] \subseteq mapAskFor[q]
    BY <1>0, <1>9 DEF PeerLeaves, AskTypes
  <2> QED BY <1>0, <1>1, <1>9, <2>1, ScheduleKept DEF PeerLeaves
<1>10. ASSUME AskTick PROVE ScheduleOK'
  <2>1. time' = time + 1 /\ UNCHANGED schedule BY <1>10 DEF AskTick
  <2>2. time' <= LastAnnounce => time <= LastAnnounce BY <1>2, <2>1
  <2> QED BY <1>0, <1>1, <2>1, <2>2, ScheduleKept DEF schedule
<1>11. ASSUME UNCHANGED askVars PROVE ScheduleOK'
  BY <1>0, <1>1, <1>11, ScheduleKept DEF askVars
<1>12. ScheduleOK'
  BY <1>3, <1>4, <1>5, <1>6, <1>7, <1>8, <1>9, <1>10, <1>11 DEF AskNext
<1> QED BY <1>0, <1>1, <1>12 DEF AskInv

LEMMA AskSpecInv == AskSpec => []AskInv
<1>1. AskInit => AskInv
  <2> SUFFICES ASSUME AskInit PROVE AskInv OBVIOUS
  <2>1. AskTypes BY AskBounds DEF AskInit, AskTypes
  <2>2. Pending = {} BY DEF AskInit, Pending
  <2>3. Cardinality(Pending) = 0 BY <2>2, FS_EmptySet
  <2>4. spent = 0 BY <2>3 DEF AskInit, spent
  <2>5. Latest = LastAnnounce * Second
    <3>1. 0 * Retry = 0 BY AskBounds
    <3> QED BY <2>4, <3>1, AskBounds DEF Latest
  <2>6. ClockOK /\ PendingOK BY <2>2, <2>3, AskBounds DEF AskInit, ClockOK, PendingOK
  <2>7. ScheduleOK BY <2>4, <2>5, AskBounds DEF AskInit, ScheduleOK
  <2> QED BY <2>1, <2>6, <2>7 DEF AskInv
<1> QED BY <1>1, AskNextInv, PTL DEF AskSpec

(* However many peers announce the same, and come and go, no request is    *)
(* put off beyond the time that is left: a request that is put off for     *)
(* ever would never be sent (net.h 315-333).                               *)
THEOREM NoRequestPutOffForEver == AskSpec => []EveryRequestFallsDue
<1>1. ASSUME AskInv PROVE EveryRequestFallsDue
  <2>1. AskTypes /\ ClockOK /\ PendingOK /\ ScheduleOK BY <1>1 DEF AskInv
  <2>2. spent \in Nat /\ spent <= MaxAnnounce
    BY <2>1, PendingFinite, AskBounds DEF AskTypes, ClockOK, PendingOK, spent
  <2>3. spent * Retry <= MaxAnnounce * Retry /\ spent * Retry \in Nat
        /\ MaxAnnounce * Retry \in Nat
    BY <2>2, AskBounds, ProductGrows
  <2>4. MaxTime * Second > LastAnnounce * Second + MaxAnnounce * Retry BY AskForAssumption
  <2>5. MaxTime * Second \in Nat BY AskBounds
  <2>6. Latest \in Nat /\ Latest < MaxTime * Second
    BY <2>3, <2>4, <2>5, AskBounds DEF Latest
  <2> SUFFICES ASSUME NEW p \in Peer, NEW x \in mapAskFor[p] PROVE x[1] < MaxTime * Second
    BY DEF EveryRequestFallsDue
  <2>7. x[1] <= Latest /\ x[1] \in Nat BY <2>1 DEF ScheduleOK, AskTypes
  <2> QED BY <2>5, <2>6, <2>7
<1> QED BY <1>1, AskSpecInv, PTL

(* For any number of peers and transactions, whoever else announces them   *)
(* and goes away, a peer that stays is asked for what it announced until   *)
(* the transaction is had or held.                                         *)
THEOREM OwedUntilHad == AskSpec => NothingOwedIsLost
<1>1. ASSUME AskInv, AskInv', [AskNext]_askVars
      PROVE  [\A p \in Honest, i \in Item :
                Owed(p, i) /\ have'[i] = "none" => Owed(p, i)']_askVars
  <2>0. AskTypes /\ ClockOK /\ AskTypes' BY <1>1 DEF AskInv
  <2> SUFFICES ASSUME AskNext, NEW p \in Honest, NEW i \in Item, Owed(p, i), have'[i] = "none"
               PROVE  Owed(p, i)'
    BY <1>1
  <2>1. p \in Peer BY AskForAssumption
  <2>2. ASSUME NEW q \in Peer, NEW j \in Item, Announce(q, j) PROVE Owed(p, i)'
    BY <2>0, <2>1, <2>2 DEF Announce, schedule, Owed, AskTypes
  <2>3. ASSUME NEW q \in Peer, NEW j \in Item, ReceiveTxInv(q, j) PROVE Owed(p, i)'
    <3>1. have' = have /\ getdata' = getdata BY <2>3 DEF ReceiveTxInv
    <3>2. CASE p = q /\ i = j
      <4>1. AskFor(p, i) BY <2>3, <3>1, <3>2 DEF ReceiveTxInv
      <4>2. PICK nRequestTime \in Nat :
              mapAskFor' = [mapAskFor EXCEPT ![p] = @ \cup {<<nRequestTime, i>>}]
        BY <2>0, <2>1, <4>1, AskForFacts
      <4>3. <<nRequestTime, i>> \in mapAskFor'[p] BY <2>0, <2>1, <4>2 DEF AskTypes
      <4> QED BY <4>3 DEF Owed
    <3>3. CASE ~(p = q /\ i = j)
      <4>1. i \in inv[p] => i \in inv'[p]
        BY <2>0, <2>1, <2>3, <3>3 DEF ReceiveTxInv, AskTypes
      <4>2. mapAskFor[p] \subseteq mapAskFor'[p]
        <5>1. CASE have[j] = "none"
          <6>1. AskFor(q, j) BY <2>3, <5>1 DEF ReceiveTxInv
          <6>2. PICK nRequestTime \in Nat :
                  mapAskFor' = [mapAskFor EXCEPT ![q] = @ \cup {<<nRequestTime, j>>}]
            BY <2>0, <6>1, AskForFacts
          <6> QED BY <2>0, <2>1, <6>2 DEF AskTypes
        <5>2. CASE have[j] # "none" BY <2>3, <5>2 DEF ReceiveTxInv, schedule
        <5> QED BY <5>1, <5>2
      <4> QED BY <3>1, <4>1, <4>2 DEF Owed
    <3> QED BY <3>2, <3>3
  <2>4. ASSUME NEW q \in Peer, SendGetData(q) PROVE Owed(p, i)'
    <3>1. have' = have /\ inv' = inv BY <2>4 DEF SendGetData
    <3>2. getdata[p] \subseteq getdata'[p] BY <2>0, <2>1, <2>4 DEF SendGetData, AskTypes
    <3>3. ASSUME NEW x \in mapAskFor[p], x[2] = i, x \notin mapAskFor'[p]
          PROVE  i \in getdata'[p]
      <4>1. q = p /\ x \in Due(p) BY <2>0, <2>1, <2>4, <3>3 DEF SendGetData, AskTypes
      <4>2. i \in Wanted(p) BY <3>1, <3>3, <4>1 DEF Wanted
      <4> QED BY <2>0, <2>1, <2>4, <4>1, <4>2 DEF SendGetData, AskTypes
    <3> QED BY <3>1, <3>2, <3>3 DEF Owed
  <2>5. ASSUME NEW q \in Peer, NEW j \in Item, Answer(q, j) PROVE Owed(p, i)'
    <3>1. have'[j] # "none" BY <2>0, <2>5 DEF Answer, AcceptItem, AskTypes
    <3>2. i # j BY <3>1
    <3>3. inv' = inv /\ mapAskFor' = mapAskFor BY <2>5 DEF Answer
    <3>4. i \in getdata[p] => i \in getdata'[p] BY <2>0, <2>1, <2>5, <3>2 DEF Answer, AskTypes
    <3> QED BY <3>3, <3>4 DEF Owed
  <2>6. ASSUME NEW q \in Peer, PeerLeaves(q) PROVE Owed(p, i)'
    BY <2>0, <2>1, <2>6 DEF PeerLeaves, Owed, AskTypes
  <2>7. ASSUME NEW j \in Item, ParentsArrive(j) \/ EvictItem(j) PROVE Owed(p, i)'
    BY <2>7 DEF ParentsArrive, EvictItem, schedule, Owed
  <2>8. ASSUME AskTick PROVE Owed(p, i)' BY <2>8 DEF AskTick, schedule, Owed
  <2> QED BY <2>2, <2>3, <2>4, <2>5, <2>6, <2>7, <2>8 DEF AskNext
<1> QED BY <1>1, AskSpecInv, PTL DEF AskSpec, NothingOwedIsLost

-----------------------------------------------------------------------------
(* What nodes tell each other of blocks                                    *)

(* The elements at some positions of a sequence.                           *)
LEMMA AtFacts ==
  ASSUME NEW A, NEW s \in Seq(A), NEW I \in SUBSET (1 .. Len(s))
  PROVE  /\ IsFiniteSet(I) /\ Cardinality(I) \in Nat
         /\ At(s, I) \in Seq(A) /\ Len(At(s, I)) = Cardinality(I)
         /\ \A k \in 1 .. Cardinality(I) : \E i \in I : At(s, I)[k] = s[i]
         /\ I = {} => At(s, I) = <<>>
         /\ I # {} => /\ At(s, I) # <<>>
                      /\ \E m \in I : /\ \A i \in I : i <= m
                                      /\ At(s, I)[Len(At(s, I))] = s[m]
<1> DEFINE n == Cardinality(I)
           t == At(s, I)
<1>1. Len(s) \in Nat /\ \A i \in 1 .. Len(s) : s[i] \in A OBVIOUS
<1>2. IsFiniteSet(1 .. Len(s)) BY <1>1, FS_Interval
<1>3. IsFiniteSet(I) /\ n \in Nat BY <1>2, FS_Subset, FS_CardinalityType
<1>4. I \in SUBSET Nat BY <1>1
<1>5. /\ Sorted(I) \in [1 .. n -> I]
      /\ \A k \in 1 .. n : Cardinality(Before(I, Sorted(I)[k])) = k - 1
  BY <1>3, <1>4, SortedIs
<1>6. t = [k \in 1 .. n |-> s[Sorted(I)[k]]] BY DEF At
<1>7. \A k \in 1 .. n : Sorted(I)[k] \in I /\ t[k] = s[Sorted(I)[k]] /\ t[k] \in A
  BY <1>1, <1>5, <1>6
<1>8. t \in [1 .. n -> A] BY <1>6, <1>7
<1>9. t \in Seq(A) /\ Len(t) = n BY <1>3, <1>8
<1>10. ASSUME I = {} PROVE t = <<>>
  <2>1. n = 0 BY <1>10, FS_EmptySet
  <2> QED BY <1>9, <2>1, EmptySeq
<1>11. ASSUME I # {}
       PROVE  t # <<>> /\ \E m \in I : (\A i \in I : i <= m) /\ t[Len(t)] = s[m]
  <2>1. n # 0 BY <1>3, <1>11, FS_EmptySet
  <2>2. n \in 1 .. n BY <1>3, <2>1
  <2> DEFINE m == Sorted(I)[n]
  <2>3. m \in I /\ t[n] = s[m] /\ Cardinality(Before(I, m)) = n - 1 BY <1>5, <1>7, <2>2
  <2> HIDE DEF m
  <2>4. ASSUME NEW i \in I, ~(i <= m) PROVE FALSE
    <3>0. m \in I BY <2>3
    <3>1. m < i
      <4>1. m \in Nat /\ i \in Nat BY <1>4, <3>0
      <4> QED BY <2>4, <4>1
    <3>2. Cardinality(Before(I, m)) < Cardinality(Before(I, i)) BY <1>3, <1>4, <2>3, <3>1, BeforeGrows
    <3>3. Cardinality(Before(I, i)) \in 0 .. n - 1 BY <1>3, <1>4, BeforeGrows
    <3> QED BY <1>3, <2>3, <3>2, <3>3
  <2>5. t # <<>> BY <1>3, <1>9, <2>1, EmptySeq
  <2> QED BY <1>9, <2>3, <2>4, <2>5
<1> HIDE DEF t
<1>12. \A k \in 1 .. n : \E i \in I : t[k] = s[i] BY <1>7
<1>13. t = At(s, I) BY DEF t
<1> HIDE DEF n
<1>14. n = Cardinality(I) BY DEF n
<1> QED BY <1>3, <1>9, <1>10, <1>11, <1>12, <1>13, <1>14

LEMMA LeastOfNats ==
  ASSUME NEW T \in SUBSET Nat, T # {}
  PROVE  \E i \in T : \A j \in T : i <= j
<1>1. \E i \in T : \A j \in T : ~ (<<j, i>> \in OpToRel(<, Nat))
  BY NatLessThanWellFounded, WFMin
<1>2. PICK i \in T : \A j \in T : ~ (<<j, i>> \in OpToRel(<, Nat)) BY <1>1
<1>3. ASSUME NEW j \in T PROVE i <= j
  <2>1. j \in Nat /\ i \in Nat OBVIOUS
  <2>2. ~ (<<j, i>> \in {ss \in Nat \X Nat : ss[1] < ss[2]}) BY <1>2 DEF OpToRel
  <2>3. ~ (j < i) BY <2>1, <2>2
  <2> QED BY <2>1, <2>3
<1> QED BY <1>3

(* Taking blocks one after the other, in an order of their heights, ends   *)
(* with one that has the most work.                                        *)
LEMMA NewBestsFacts ==
  ASSUME NEW best \in Block, NEW S \in SUBSET Block, NEW s \in ByHeight(S)
  PROVE  /\ NewBests(best, s) \in Seq(S)
         /\ NewBests(best, s) = <<>> => \A b \in S : bnChainWork[b] <= bnChainWork[best]
         /\ NewBests(best, s) # <<>> =>
              LET last == NewBests(best, s)[Len(NewBests(best, s))] IN
              /\ last \in S /\ bnChainWork[best] <= bnChainWork[last]
              /\ \A b \in S : bnChainWork[b] <= bnChainWork[last]
<1> DEFINE n == Cardinality(S)
           I == {i \in DOMAIN s : /\ bnChainWork[s[i]] > bnChainWork[best]
                                  /\ \A j \in 1 .. i - 1 : bnChainWork[s[j]] < bnChainWork[s[i]]}
           t == NewBests(best, s)
<1>1. IsFiniteSet(S) /\ n \in Nat BY TreeAssumption, FS_Subset, FS_CardinalityType
<1>2. s \in [1 .. n -> S] /\ \A i, j \in 1 .. n : i < j => s[i] # s[j]
  BY DEF ByHeight
<1>3. s \in Seq(S) /\ Len(s) = n /\ DOMAIN s = 1 .. n BY <1>1, <1>2
<1>4. \A b \in S : \E i \in 1 .. n : s[i] = b
  <2>1. \A i, j \in 1 .. n : s[i] = s[j] => i = j
    <3> SUFFICES ASSUME NEW i \in 1 .. n, NEW j \in 1 .. n, s[i] = s[j], i # j PROVE FALSE OBVIOUS
    <3>1. i < j \/ j < i BY <1>1
    <3> QED BY <1>2, <3>1
  <2>2. s \in Injection(1 .. n, S) BY <1>2, <2>1 DEF Injection, IsInjective
  <2>3. IsFiniteSet(1 .. n) /\ Cardinality(1 .. n) = n BY <1>1, FS_Interval
  <2>4. s \in Surjection(1 .. n, S) BY <1>1, <2>2, <2>3, FS_Injection
  <2> QED BY <2>4 DEF Surjection
<1>5. /\ \A b \in Block : bnChainWork[b] \in Nat
      /\ \A i \in 1 .. n : s[i] \in S /\ bnChainWork[s[i]] \in Nat /\ i \in Nat
  BY <1>1, <1>2, WorkGrows
<1>6. I \in SUBSET (1 .. Len(s)) BY <1>3
<1>7. t = At(s, I) BY DEF NewBests
<1>8. \A i \in 1 .. n : i \in I <=> /\ bnChainWork[s[i]] > bnChainWork[best]
                                   /\ \A j \in 1 .. i - 1 : bnChainWork[s[j]] < bnChainWork[s[i]]
  BY <1>3
<1> HIDE DEF I, t
<1>9. t \in Seq(S) BY <1>3, <1>6, <1>7, AtFacts
(* The first with more work than w, if there is one, is a new best block.  *)
<1>10. ASSUME NEW w \in Nat, bnChainWork[best] <= w, NEW i \in 1 .. n, bnChainWork[s[i]] > w
       PROVE  \E k \in I : bnChainWork[s[k]] > w
  <2> DEFINE T == {k \in 1 .. n : bnChainWork[s[k]] > w}
  <2>1. T \in SUBSET Nat /\ T # {} BY <1>5, <1>10
  <2>2. PICK k \in T : \A j \in T : k <= j BY <2>1, LeastOfNats
  <2>3. \A j \in 1 .. k - 1 : bnChainWork[s[j]] <= w
    <3> TAKE j \in 1 .. k - 1
    <3>1. k \in Nat /\ j \in 1 .. n /\ j < k BY <1>1, <1>5
    <3>2. j \notin T BY <2>2, <3>1, <1>5
    <3> QED BY <1>5, <1>10, <3>1, <3>2
  <2>4. \A j \in 1 .. k - 1 : bnChainWork[s[j]] < bnChainWork[s[k]]
    <3> TAKE j \in 1 .. k - 1
    <3>1. j \in 1 .. n BY <1>1, <1>5
    <3> QED BY <1>5, <1>10, <2>3, <3>1
  <2>5. bnChainWork[s[k]] > bnChainWork[best] BY <1>5, <1>10
  <2> QED BY <1>8, <2>4, <2>5
<1>11. ASSUME I = {} PROVE \A b \in S : bnChainWork[b] <= bnChainWork[best]
  <2> TAKE b \in S
  <2>1. PICK i \in 1 .. n : s[i] = b BY <1>4
  <2>2. bnChainWork[best] \in Nat /\ bnChainWork[b] \in Nat BY <1>5
  <2>3. ~ (bnChainWork[s[i]] > bnChainWork[best]) BY <1>10, <1>11, <2>2
  <2> QED BY <2>1, <2>2, <2>3
<1>12. ASSUME I # {}
       PROVE  /\ t[Len(t)] \in S /\ bnChainWork[best] <= bnChainWork[t[Len(t)]]
              /\ \A b \in S : bnChainWork[b] <= bnChainWork[t[Len(t)]]
  <2>1. PICK m \in I : (\A i \in I : i <= m) /\ t[Len(t)] = s[m]
    BY <1>3, <1>6, <1>7, <1>12, AtFacts
  <2>2. m \in 1 .. n /\ m \in Nat /\ s[m] \in S /\ bnChainWork[s[m]] \in Nat
    BY <1>3, <1>5, <1>6
  <2>3. bnChainWork[best] <= bnChainWork[s[m]] BY <1>5, <1>8, <2>2
  <2>4. ASSUME NEW b \in S, ~ (bnChainWork[b] <= bnChainWork[s[m]]) PROVE FALSE
    <3>1. PICK i \in 1 .. n : s[i] = b BY <1>4
    <3>2. bnChainWork[s[i]] > bnChainWork[s[m]] BY <1>5, <2>2, <2>4, <3>1
    <3>3. PICK k \in I : bnChainWork[s[k]] > bnChainWork[s[m]] BY <1>10, <2>2, <2>3, <3>2
    <3>4. k \in 1 .. n /\ k \in Nat /\ bnChainWork[s[k]] \in Nat BY <1>3, <1>5, <1>6
    <3>5. k <= m /\ k # m BY <2>1, <2>2, <3>3, <3>4
    <3>6. k \in 1 .. m - 1 BY <2>2, <3>4, <3>5
    <3>7. bnChainWork[s[k]] < bnChainWork[s[m]] BY <1>8, <2>2, <3>6
    <3> QED BY <2>2, <3>3, <3>4, <3>7
  <2> QED BY <2>1, <2>2, <2>3, <2>4
<1>13. I = {} <=> t = <<>> BY <1>3, <1>6, <1>7, AtFacts
<1>14. t = NewBests(best, s) BY DEF t
<1> QED BY <1>9, <1>11, <1>12, <1>13, <1>14

(* The walk back from a held block ends.                                   *)
LEMMA OrphanRootIsBlock ==
  ASSUME NEW held \in SUBSET NonGenesis, NEW b \in held
  PROVE  GetOrphanRoot(held, b) \in Block
<1> DEFINE Roots == {r \in Ancestors[b] :
                       {r} \cup (Ancestors[b] \ Ancestors[r]) \subseteq held \cup {b}}
<1>1. b \in Block /\ Ancestors[b] \subseteq Block /\ b \in Ancestors[b]
  BY AncestorsType DEF NonGenesis
<1>2. b \in Roots BY <1>1
<1>3. ASSUME NEW r \in Roots, r # Genesis, hashPrevBlock[r] \in held
      PROVE  hashPrevBlock[r] \in Roots
  <2>1. r \in Block /\ Ancestors[r] = {r} \cup Ancestors[hashPrevBlock[r]]
    BY <1>1, <1>3, AncestorsUnfold
  <2>2. hashPrevBlock[r] \in Ancestors[b] BY <1>1, <1>3, AncestorsClosed
  <2> QED BY <1>3, <2>1, <2>2
<1>4. \E r \in Roots : r = Genesis \/ hashPrevBlock[r] \notin held
  <2> SUFFICES ASSUME \A r \in Roots : r # Genesis /\ hashPrevBlock[r] \in held PROVE FALSE
    OBVIOUS
  <2>1. \A r \in Roots : r # Genesis /\ hashPrevBlock[r] \in Roots BY <1>3
  <2>2. Roots \in SUBSET Block /\ Roots # {} BY <1>1, <1>2
  <2> HIDE DEF Roots
  <2> QED BY <2>1, <2>2, TreeAssumption
<1>5. GetOrphanRoot(held, b) \in Ancestors[b] BY <1>4 DEF GetOrphanRoot
<1> QED BY <1>1, <1>5

(* What a node may tell another, and keep of it, when the blocks A are in  *)
(* its index and B in the other's.                                         *)
Hash == Block \cup {Null}
Messages(A, B) ==
  [type : {"version"}] \cup [type : {"getblocks"}, locator : Block, hashStop : Hash]
    \cup [type : {"inv"}, vInv : Seq(A)] \cup [type : {"getdata"}, hash : B]
    \cup [type : {"block"}, hash : A]
CNodes(A, B) ==
  [open : {TRUE}, fVersion : BOOLEAN, setInventoryKnown : SUBSET Block,
   vInventoryToSend : Seq(A), hashContinue : Hash, lastGetBlocks : Hash \X Hash,
   mapAskFor : Seq(B), vSend : Seq(Messages(A, B))]

LEMMA CNodeFields ==
  ASSUME NEW A, NEW B, NEW c \in CNodes(A, B)
  PROVE  /\ c.open = TRUE /\ c.fVersion \in BOOLEAN /\ c.setInventoryKnown \in SUBSET Block
         /\ c.vInventoryToSend \in Seq(A) /\ c.hashContinue \in Hash
         /\ c.lastGetBlocks \in Hash \X Hash /\ c.mapAskFor \in Seq(B)
         /\ c.vSend \in Seq(Messages(A, B))
         /\ c # Closed
<1>1. c.vSend \in Seq(Messages(A, B)) /\ c.open = TRUE BY DEF CNodes
<1>2. Closed.open = FALSE BY DEF Closed
<1> QED BY <1>1, <1>2 DEF CNodes

LEMMA ClosedIsNoCNode ==
  ASSUME NEW A, NEW B
  PROVE  Closed \notin CNodes(A, B)
<1> SUFFICES ASSUME Closed \in CNodes(A, B) PROVE FALSE OBVIOUS
<1>1. Closed # Closed BY CNodeFields
<1> QED BY <1>1

(* A change of one field keeps the others.                                 *)
LEMMA FieldChanged ==
  ASSUME NEW A, NEW B, NEW c \in CNodes(A, B)
  PROVE  /\ \A v \in BOOLEAN : [c EXCEPT !.fVersion = v] \in CNodes(A, B)
         /\ \A v \in SUBSET Block : [c EXCEPT !.setInventoryKnown = v] \in CNodes(A, B)
         /\ \A v \in Seq(A) : [c EXCEPT !.vInventoryToSend = v] \in CNodes(A, B)
         /\ \A v \in Hash : [c EXCEPT !.hashContinue = v] \in CNodes(A, B)
         /\ \A v \in Hash \X Hash : [c EXCEPT !.lastGetBlocks = v] \in CNodes(A, B)
         /\ \A v \in Seq(B) : [c EXCEPT !.mapAskFor = v] \in CNodes(A, B)
         /\ \A v \in Seq(Messages(A, B)) : [c EXCEPT !.vSend = v] \in CNodes(A, B)
<1> DEFINE M == Seq(Messages(A, B))
           SA == Seq(A)
           SB == Seq(B)
<1>1. c \in [open : {TRUE}, fVersion : BOOLEAN, setInventoryKnown : SUBSET Block,
             vInventoryToSend : SA, hashContinue : Hash, lastGetBlocks : Hash \X Hash,
             mapAskFor : SB, vSend : M]
  BY DEF CNodes
<1>2. CNodes(A, B) = [open : {TRUE}, fVersion : BOOLEAN, setInventoryKnown : SUBSET Block,
             vInventoryToSend : SA, hashContinue : Hash, lastGetBlocks : Hash \X Hash,
             mapAskFor : SB, vSend : M]
  BY DEF CNodes
<1> HIDE DEF M, SA, SB
<1>3. \A v \in BOOLEAN : [c EXCEPT !.fVersion = v] \in CNodes(A, B) BY <1>1, <1>2
<1>4. \A v \in SUBSET Block : [c EXCEPT !.setInventoryKnown = v] \in CNodes(A, B) BY <1>1, <1>2
<1>5. \A v \in SA : [c EXCEPT !.vInventoryToSend = v] \in CNodes(A, B) BY <1>1, <1>2
<1>6. \A v \in Hash : [c EXCEPT !.hashContinue = v] \in CNodes(A, B) BY <1>1, <1>2
<1>7. \A v \in Hash \X Hash : [c EXCEPT !.lastGetBlocks = v] \in CNodes(A, B) BY <1>1, <1>2
<1>8. \A v \in SB : [c EXCEPT !.mapAskFor = v] \in CNodes(A, B) BY <1>1, <1>2
<1>9. \A v \in M : [c EXCEPT !.vSend = v] \in CNodes(A, B) BY <1>1, <1>2
<1> QED BY <1>3, <1>4, <1>5, <1>6, <1>7, <1>8, <1>9 DEF M, SA, SB

(* As indices only grow, what was told stays true.                         *)
LEMMA CNodesGrow ==
  ASSUME NEW A, NEW B, NEW C, NEW D, A \subseteq C, B \subseteq D
  PROVE  CNodes(A, B) \subseteq CNodes(C, D)
<1>1. Seq(A) \subseteq Seq(C) /\ Seq(B) \subseteq Seq(D) BY SeqMonotonic
<1>2. Messages(A, B) \subseteq Messages(C, D)
  <2>1. [type : {"inv"}, vInv : Seq(A)] \subseteq [type : {"inv"}, vInv : Seq(C)] BY <1>1
  <2>2. [type : {"getdata"}, hash : B] \subseteq [type : {"getdata"}, hash : D] OBVIOUS
  <2>3. [type : {"block"}, hash : A] \subseteq [type : {"block"}, hash : C] OBVIOUS
  <2> QED BY <2>1, <2>2, <2>3 DEF Messages
<1>3. Seq(Messages(A, B)) \subseteq Seq(Messages(C, D)) BY <1>2, SeqMonotonic
<1> SUFFICES ASSUME NEW c \in CNodes(A, B) PROVE c \in CNodes(C, D) OBVIOUS
<1> DEFINE M == Seq(Messages(A, B))
           N == Seq(Messages(C, D))
           SA == Seq(A)
           SB == Seq(B)
           SC == Seq(C)
           SD == Seq(D)
<1>4. c \in [open : {TRUE}, fVersion : BOOLEAN, setInventoryKnown : SUBSET Block,
             vInventoryToSend : SA, hashContinue : Hash, lastGetBlocks : Hash \X Hash,
             mapAskFor : SB, vSend : M]
  BY DEF CNodes
<1>5. CNodes(C, D) = [open : {TRUE}, fVersion : BOOLEAN, setInventoryKnown : SUBSET Block,
             vInventoryToSend : SC, hashContinue : Hash, lastGetBlocks : Hash \X Hash,
             mapAskFor : SD, vSend : N]
  BY DEF CNodes
<1>6. SA \subseteq SC /\ SB \subseteq SD /\ M \subseteq N BY <1>1, <1>3
<1> HIDE DEF M, N, SA, SB, SC, SD
<1> QED BY <1>4, <1>5, <1>6

LEMMA MessageKinds ==
  ASSUME NEW A, NEW B
  PROVE  /\ [type |-> "version"] \in Messages(A, B)
         /\ \A b \in Block, h \in Hash :
              [type |-> "getblocks", locator |-> b, hashStop |-> h] \in Messages(A, B)
         /\ \A v \in Seq(A) : [type |-> "inv", vInv |-> v] \in Messages(A, B)
         /\ \A b \in B : [type |-> "getdata", hash |-> b] \in Messages(A, B)
         /\ \A b \in A : [type |-> "block", hash |-> b] \in Messages(A, B)
BY DEF Messages

(* What a message that was taken says.                                     *)
LEMMA MessageSays ==
  ASSUME NEW A, NEW B, NEW m \in Messages(A, B)
  PROVE  /\ m.type = "inv" => m.vInv \in Seq(A)
         /\ m.type = "getdata" => m.hash \in B
         /\ m.type = "block" => m.hash \in A
<1>1. CASE m \in [type : {"version"}] BY <1>1
<1>2. CASE m \in [type : {"getblocks"}, locator : Block, hashStop : Hash] BY <1>2
<1>3. CASE m \in [type : {"inv"}, vInv : Seq(A)]
  <2> DEFINE SA == Seq(A)
  <2>1. m \in [type : {"inv"}, vInv : SA] BY <1>3
  <2> HIDE DEF SA
  <2>2. m.type = "inv" /\ m.vInv \in SA BY <2>1
  <2> QED BY <2>2 DEF SA
<1>4. CASE m \in [type : {"getdata"}, hash : B] BY <1>4
<1>5. CASE m \in [type : {"block"}, hash : A] BY <1>5
<1> QED BY <1>1, <1>2, <1>3, <1>4, <1>5 DEF Messages

LEMMA PushMessageTyped ==
  ASSUME NEW A, NEW B, NEW c \in CNodes(A, B), NEW m \in Messages(A, B)
  PROVE  PushMessage(c, m) \in CNodes(A, B)
<1> DEFINE v == Append(c.vSend, m)
<1>1. v \in Seq(Messages(A, B)) BY CNodeFields, AppendProperties
<1>2. PushMessage(c, m) = [c EXCEPT !.vSend = v] BY DEF PushMessage
<1> HIDE DEF v
<1> QED BY <1>1, <1>2, FieldChanged

LEMMA AddInventoryKnownTyped ==
  ASSUME NEW A, NEW B, NEW c \in CNodes(A, B), NEW b \in Block
  PROVE  AddInventoryKnown(c, b) \in CNodes(A, B)
<1> DEFINE v == c.setInventoryKnown \cup {b}
<1>1. v \in SUBSET Block BY CNodeFields
<1>2. AddInventoryKnown(c, b) = [c EXCEPT !.setInventoryKnown = v] BY DEF AddInventoryKnown
<1> HIDE DEF v
<1> QED BY <1>1, <1>2, FieldChanged

LEMMA PushInventoryTyped ==
  ASSUME NEW A, NEW B, NEW c \in CNodes(A, B), NEW s \in Seq(A)
  PROVE  PushInventory(c, s) \in CNodes(A, B)
<1> DEFINE I == {i \in DOMAIN s : s[i] \notin c.setInventoryKnown}
           v == c.vInventoryToSend \o At(s, I)
<1>1. I \in SUBSET (1 .. Len(s)) BY LenProperties
<1>2. At(s, I) \in Seq(A) BY <1>1, AtFacts
<1>3. v \in Seq(A) BY <1>2, CNodeFields, ConcatProperties
<1>4. PushInventory(c, s) = [c EXCEPT !.vInventoryToSend = v] BY DEF PushInventory
<1> HIDE DEF v
<1> QED BY <1>3, <1>4, FieldChanged

LEMMA AskForBlockTyped ==
  ASSUME NEW A, NEW B, NEW c \in CNodes(A, B), NEW b \in B
  PROVE  AskForBlock(c, b) \in CNodes(A, B)
<1> DEFINE v == Append(c.mapAskFor, b)
<1>1. v \in Seq(B) BY CNodeFields, AppendProperties
<1>2. AskForBlock(c, b) = [c EXCEPT !.mapAskFor = v] BY DEF AskForBlock
<1> HIDE DEF v
<1> QED BY <1>1, <1>2, FieldChanged

LEMMA PushGetBlocksTyped ==
  ASSUME NEW A, NEW B, NEW c \in CNodes(A, B), NEW begin \in Block, NEW end \in Hash
  PROVE  PushGetBlocks(c, begin, end) \in CNodes(A, B)
<1> DEFINE d == [c EXCEPT !.lastGetBlocks = <<begin, end>>]
           m == [type |-> "getblocks", locator |-> begin, hashStop |-> end]
<1>1. <<begin, end>> \in Hash \X Hash BY DEF Hash
<1>2. d \in CNodes(A, B) BY <1>1, FieldChanged
<1>3. m \in Messages(A, B) BY MessageKinds
<1> HIDE DEF d, m
<1>4. PushMessage(d, m) \in CNodes(A, B) BY <1>2, <1>3, PushMessageTyped
<1> QED BY <1>4 DEF PushGetBlocks, d, m

LEMMA FlushTyped ==
  ASSUME NEW A \in SUBSET Block, NEW B, NEW c \in CNodes(A, B)
  PROVE  Flush(c) \in CNodes(A, B)
<1> DEFINE q == c.vInventoryToSend
           I == {i \in DOMAIN q : /\ q[i] \notin c.setInventoryKnown
                                  /\ \A j \in 1 .. i - 1 : q[j] # q[i]}
           vInv == At(q, I)
           d == [c EXCEPT !.vInventoryToSend = <<>>]
           K == c.setInventoryKnown \cup {q[i] : i \in DOMAIN q}
           flushed == [d EXCEPT !.setInventoryKnown = K]
<1>1. q \in Seq(A) BY CNodeFields
<1>2. I \in SUBSET (1 .. Len(q)) BY <1>1, LenProperties
<1>3. vInv \in Seq(A) BY <1>1, <1>2, AtFacts
<1>4. K \in SUBSET Block
  <2>1. \A i \in DOMAIN q : q[i] \in A BY <1>1, ElementOfSeq, LenProperties
  <2> QED BY <2>1, CNodeFields
<1>5. <<>> \in Seq(A) OBVIOUS
<1>6. d \in CNodes(A, B) BY <1>5, FieldChanged
<1>7. flushed = [c EXCEPT !.vInventoryToSend = <<>>, !.setInventoryKnown = K] OBVIOUS
<1>8. Flush(c) = IF vInv = <<>> THEN flushed
                 ELSE PushMessage(flushed, [type |-> "inv", vInv |-> vInv])
  BY <1>7 DEF Flush
<1> HIDE DEF K, d, vInv
<1>9. flushed \in CNodes(A, B) BY <1>4, <1>6, FieldChanged
<1>10. [type |-> "inv", vInv |-> vInv] \in Messages(A, B) BY <1>3, MessageKinds
<1> HIDE DEF flushed
<1> QED BY <1>8, <1>9, <1>10, PushMessageTyped

LEMMA AskTyped ==
  ASSUME NEW A, NEW B, NEW c \in CNodes(A, B), NEW n, NEW k \in 0 .. Len(c.mapAskFor)
  PROVE  Ask(c, n, k) \in CNodes(A, B)
<1> DEFINE s == c.mapAskFor
           due == At(s, {i \in 1 .. k : ~AlreadyHave(n, c.mapAskFor[i])})
           asks == [i \in DOMAIN due |-> [type |-> "getdata", hash |-> due[i]]]
           rest == SubSeq(s, k + 1, Len(s))
           d == [c EXCEPT !.mapAskFor = rest]
           out == c.vSend \o asks
<1>1. s \in Seq(B) /\ Len(s) \in Nat BY CNodeFields, LenProperties
<1>2. {i \in 1 .. k : ~AlreadyHave(n, c.mapAskFor[i])} \in SUBSET (1 .. Len(s)) BY <1>1
<1>3. due \in Seq(B) BY <1>1, <1>2, AtFacts
<1>4. rest \in Seq(B) BY <1>1, SubSeqProperties
<1> HIDE DEF due
<1>5. \A i \in DOMAIN due : [type |-> "getdata", hash |-> due[i]] \in Messages(A, B)
  BY <1>3, ElementOfSeq, LenProperties, MessageKinds
<1>6. asks \in Seq(Messages(A, B))
  <2>1. DOMAIN due = 1 .. Len(due) /\ Len(due) \in Nat BY <1>3, LenProperties
  <2>2. asks \in [1 .. Len(due) -> Messages(A, B)] BY <1>5, <2>1
  <2> HIDE DEF asks
  <2> QED BY <2>1, <2>2, IsASeq
<1> HIDE DEF asks
<1>7. out \in Seq(Messages(A, B)) BY <1>6, CNodeFields, ConcatProperties
<1>8. d \in CNodes(A, B) BY <1>4, FieldChanged
<1>9. Ask(c, n, k) = [d EXCEPT !.vSend = out]
  <2>1. Ask(c, n, k) = [c EXCEPT !.mapAskFor = rest, !.vSend = c.vSend \o asks]
    BY DEF Ask, asks, due
  <2> QED BY <2>1
<1> HIDE DEF d, out
<1> QED BY <1>7, <1>8, <1>9, FieldChanged

LEMMA AnnouncedTyped ==
  ASSUME NEW A, NEW B \in SUBSET Block, NEW n, NEW v \in Seq(B), NEW i \in 1 .. Len(v),
         NEW c \in CNodes(A, B), mapOrphanBlocks[n] \in SUBSET NonGenesis, pindexBest[n] \in Block
  PROVE  Announced(n, v, i, c) \in CNodes(A, B)
<1> DEFINE b == v[i]
           known == AddInventoryKnown(c, b)
           best == pindexBest[n]
           root == GetOrphanRoot(mapOrphanBlocks[n], b)
<1>1. b \in B /\ b \in Block BY ElementOfSeq
<1>2. known \in CNodes(A, B) BY <1>1, AddInventoryKnownTyped
<1>3. Announced(n, v, i, c) =
        IF ~AlreadyHave(n, b) THEN AskForBlock(known, b)
        ELSE IF b \in mapOrphanBlocks[n] THEN PushGetBlocks(known, best, root)
        ELSE IF i = Len(v) THEN PushGetBlocks(known, b, Null)
        ELSE known
  BY DEF Announced
<1>4. b \in mapOrphanBlocks[n] => root \in Hash BY OrphanRootIsBlock DEF Hash
<1>5. Null \in Hash BY DEF Hash
<1> HIDE DEF known, b, root, best
<1>6. AskForBlock(known, b) \in CNodes(A, B) BY <1>1, <1>2, AskForBlockTyped
<1>7. PushGetBlocks(known, b, Null) \in CNodes(A, B) BY <1>1, <1>2, <1>5, PushGetBlocksTyped
<1>8. best \in Block BY DEF best
<1>9. b \in mapOrphanBlocks[n] => PushGetBlocks(known, best, root) \in CNodes(A, B)
  BY <1>2, <1>4, <1>8, PushGetBlocksTyped
<1> QED BY <1>2, <1>3, <1>6, <1>7, <1>9

(* The loop over an "inv" is defined, one entry after the other.           *)
LEMMA AfterInvTyped ==
  ASSUME NEW A, NEW B \in SUBSET Block, NEW n, NEW v \in Seq(B),
         NEW c \in CNodes(A, B), mapOrphanBlocks[n] \in SUBSET NonGenesis, pindexBest[n] \in Block
  PROVE  AfterInv(n, v, c) \in CNodes(A, B)
<1> DEFINE N == Len(v)
           Loop(f, k) == f = [i \in 0 .. k |-> IF i = 0 THEN c ELSE Announced(n, v, i, f[i - 1])]
           After[i \in 0 .. N] == IF i = 0 THEN c ELSE Announced(n, v, i, After[i - 1])
<1>1. N \in Nat BY LenProperties
<1>2. AfterInv(n, v, c) = After[N] BY DEF AfterInv
<1>3. (\E f : Loop(f, N)) => Loop(After, N) OBVIOUS
<1> HIDE DEF After, N
<1>4. \E f : Loop(f, N)
  <2> DEFINE T == {k \in 0 .. N : ~ \E f : Loop(f, k)}
  <2> SUFFICES ASSUME T # {} PROVE FALSE BY <1>1
  <2>1. T \in SUBSET Nat BY <1>1
  <2>2. PICK m \in T : \A j \in T : m <= j BY <2>1, LeastOfNats
  <2>3. m \in Nat /\ m \in 0 .. N /\ ~ \E f : Loop(f, m) BY <1>1
  <2>4. CASE m = 0
    <3> DEFINE g == [i \in 0 .. 0 |-> c]
    <3>1. Loop(g, 0) OBVIOUS
    <3> QED BY <2>3, <2>4, <3>1
  <2>5. CASE m # 0
    <3>1. m - 1 \in 0 .. N /\ ~ (m <= m - 1) BY <1>1, <2>3, <2>5
    <3>2. PICK f : Loop(f, m - 1) BY <2>2, <3>1
    <3> DEFINE g == [i \in 0 .. m |-> IF i = m THEN Announced(n, v, m, f[m - 1]) ELSE f[i]]
               h == [i \in 0 .. m |-> IF i = 0 THEN c ELSE Announced(n, v, i, g[i - 1])]
    <3>3. ASSUME NEW i \in 0 .. m PROVE g[i] = h[i]
      <4>0. i \in Int /\ m \in Int BY <2>3
      <4>1. CASE i = m
        <5>1. m - 1 \in 0 .. m /\ m - 1 # m /\ g[m - 1] = f[m - 1] BY <2>3, <2>5
        <5> QED BY <2>5, <4>1, <5>1
      <4>2. CASE i # m
        <5>1. i \in 0 .. m - 1 BY <2>3, <4>0, <4>2
        <5>2. f[i] = IF i = 0 THEN c ELSE Announced(n, v, i, f[i - 1]) BY <3>2, <5>1
        <5>3. i # 0 => i - 1 \in 0 .. m /\ i - 1 # m /\ g[i - 1] = f[i - 1] BY <2>3, <5>1
        <5> QED BY <4>2, <5>2, <5>3
      <4> QED BY <4>1, <4>2
    <3>4. g = h BY <3>3
    <3>5. Loop(g, m) BY <3>4
    <3> HIDE DEF g, Loop
    <3> QED BY <2>3, <3>5
  <2> QED BY <2>4, <2>5
<1>5. \A i \in 0 .. N : After[i] = IF i = 0 THEN c ELSE Announced(n, v, i, After[i - 1])
  BY <1>3, <1>4
<1>6. \A i \in 0 .. N : After[i] \in CNodes(A, B)
  <2> DEFINE T == {k \in 0 .. N : After[k] \notin CNodes(A, B)}
  <2> SUFFICES ASSUME T # {} PROVE FALSE OBVIOUS
  <2>1. T \in SUBSET Nat BY <1>1
  <2>2. PICK m \in T : \A j \in T : m <= j BY <2>1, LeastOfNats
  <2>3. m \in 0 .. N /\ m # 0 BY <1>5
  <2>4. m - 1 \in 0 .. N /\ m \in 1 .. N /\ ~ (m <= m - 1) BY <1>1, <2>3
  <2>5. After[m - 1] \in CNodes(A, B) BY <2>2, <2>4
  <2>6. After[m] = Announced(n, v, m, After[m - 1]) BY <1>5, <2>3
  <2>7. After[m] \in CNodes(A, B) BY <2>4, <2>5, <2>6, AnnouncedTyped DEF N
  <2> QED BY <2>7
<1> QED BY <1>1, <1>2, <1>6

(* A node's index holds a whole tree, of which the best block has the most *)
(* work, and no held block could be connected.                             *)
ChainOK(index, held, best) ==
  /\ index \in SUBSET Block /\ Genesis \in index /\ ClosedUnderPrev(index)
  /\ held \in SUBSET NonGenesis
  /\ \A h \in held : h \notin index /\ hashPrevBlock[h] \notin index
  /\ best \in index /\ \A b \in index : bnChainWork[b] <= bnChainWork[best]

(* What a connection carries is true of the two indices, and both sides    *)
(* have it or neither.                                                     *)
TalkOK(K, index) ==
  /\ DOMAIN K = Link
  /\ \A l \in Link :
       /\ K[l] = Closed \/ K[l] \in CNodes(index[l[1]], index[l[2]])
       /\ K[l] = Closed <=> K[Rev(l)] = Closed

SyncInv ==
  /\ mapBlockIndex \in [SyncNode -> SUBSET Block]
  /\ mapOrphanBlocks \in [SyncNode -> SUBSET Block] /\ pindexBest \in [SyncNode -> Block]
  /\ \A n \in SyncNode : ChainOK(mapBlockIndex[n], mapOrphanBlocks[n], pindexBest[n])
  /\ TalkOK(conn, mapBlockIndex)

LEMMA LinkFacts ==
  ASSUME NEW l \in Link
  PROVE  /\ l[1] \in SyncNode /\ l[2] \in SyncNode
         /\ Rev(l) \in Link /\ Rev(Rev(l)) = l /\ Rev(l) # l
         /\ Rev(l)[1] = l[2] /\ Rev(l)[2] = l[1]
<1>1. \A k \in Outbound : k \in SyncNode \X SyncNode /\ k[1] # k[2] BY SyncAssumption
<1>2. CASE l \in Outbound BY <1>1, <1>2 DEF Link, Rev
<1>3. CASE l \in {Rev(k) : k \in Outbound}
  <2>1. PICK k \in Outbound : l = Rev(k) BY <1>3
  <2>2. k \in SyncNode \X SyncNode /\ k = <<k[1], k[2]>> /\ k[1] # k[2] BY <1>1
  <2>3. l = <<k[2], k[1]>> BY <2>1 DEF Rev
  <2>4. Rev(l) = k /\ Rev(k) = l BY <2>2, <2>3 DEF Rev
  <2> QED BY <2>2, <2>3, <2>4 DEF Link
<1> QED BY <1>2, <1>3 DEF Link

(* Accepting a block with the held ones behind it.                         *)
ConnectedOf(held, b) ==
  {b} \cup {h \in held : b \in Ancestors[h] /\ Ancestors[h] \ Ancestors[b] \subseteq held}

LEMMA AcceptedKeepsChain ==
  ASSUME NEW index, NEW held, NEW best, ChainOK(index, held, best),
         NEW b \in NonGenesis, b \notin index, hashPrevBlock[b] \in index,
         NEW accepted, accepted = ConnectedOf(held, b),
         NEW s \in ByHeight(accepted)
  PROVE  LET bests == NewBests(best, s) IN
         /\ bests \in Seq(index \cup accepted)
         /\ ChainOK(index \cup accepted, held \ accepted,
                    IF bests = <<>> THEN best ELSE bests[Len(bests)])
<1> DEFINE bests == NewBests(best, s)
           last == IF bests = <<>> THEN best ELSE bests[Len(bests)]
<1>0. accepted = {b} \cup {h \in held : /\ b \in Ancestors[h]
                                        /\ Ancestors[h] \ Ancestors[b] \subseteq held}
  BY DEF ConnectedOf
<1>1. /\ index \in SUBSET Block /\ Genesis \in index /\ ClosedUnderPrev(index)
      /\ held \in SUBSET NonGenesis
      /\ \A h \in held : h \notin index /\ hashPrevBlock[h] \notin index
      /\ best \in index /\ \A c \in index : bnChainWork[c] <= bnChainWork[best]
  BY DEF ChainOK
<1>2. b \in Block /\ b # Genesis /\ accepted \in SUBSET Block /\ b \in accepted /\ best \in Block
  BY <1>0, <1>1 DEF NonGenesis
<1>3. /\ bests \in Seq(accepted)
      /\ bests = <<>> => \A c \in accepted : bnChainWork[c] <= bnChainWork[best]
      /\ bests # <<>> =>
           /\ bests[Len(bests)] \in accepted
           /\ bnChainWork[best] <= bnChainWork[bests[Len(bests)]]
           /\ \A c \in accepted : bnChainWork[c] <= bnChainWork[bests[Len(bests)]]
  BY <1>2, NewBestsFacts
<1> HIDE DEF bests
<1>4. \A c \in Block : bnChainWork[c] \in Nat BY WorkGrows
<1>5. /\ last \in index \cup accepted
      /\ \A c \in index \cup accepted : bnChainWork[c] <= bnChainWork[last]
  <2>1. CASE bests = <<>> BY <1>1, <1>3, <2>1
  <2>2. CASE bests # <<>>
    <3>1. last \in accepted /\ bnChainWork[best] <= bnChainWork[last]
          /\ \A c \in accepted : bnChainWork[c] <= bnChainWork[last]
      BY <1>3, <2>2
    <3>2. ASSUME NEW c \in index PROVE bnChainWork[c] <= bnChainWork[last]
      <4>1. bnChainWork[c] <= bnChainWork[best] BY <1>1
      <4>2. bnChainWork[c] \in Nat /\ bnChainWork[best] \in Nat /\ bnChainWork[last] \in Nat
        BY <1>1, <1>2, <1>4, <3>1
      <4> QED BY <3>1, <4>1, <4>2
    <3> QED BY <3>1, <3>2
  <2> QED BY <2>1, <2>2
<1> HIDE DEF last
<1>6. bests \in Seq(index \cup accepted) BY <1>3, SeqMonotonic
<1>7. ClosedUnderPrev(index \cup accepted)
  <2>1. ASSUME NEW h \in held, h \in accepted, h # b PROVE hashPrevBlock[h] \in accepted
    <3> DEFINE p == hashPrevBlock[h]
    <3>1. h \in Block /\ h # Genesis /\ p \in Block
      BY <1>1, TreeAssumption DEF NonGenesis
    <3>2. Ancestors[h] = {h} \cup Ancestors[p] BY <3>1, AncestorsUnfold
    <3>3. b \in Ancestors[h] /\ Ancestors[h] \ Ancestors[b] \subseteq held BY <1>0, <2>1
    <3>4. b \in Ancestors[p] BY <2>1, <3>2, <3>3
    <3>5. CASE p = b BY <1>0, <3>5
    <3>6. CASE p # b
      <4>1. p \notin Ancestors[b]
        <5>1. b \in Ancestors[p] /\ b # p BY <3>4, <3>6
        <5> QED BY <3>1, <5>1, AncestorsAntisymmetric
      <4>2. p \in Ancestors[h] BY <3>1, <3>2, AncestorsType
      <4>3. p \in held BY <3>3, <4>1, <4>2
      <4>4. Ancestors[p] \ Ancestors[b] \subseteq held BY <3>2, <3>3
      <4> QED BY <1>0, <3>4, <4>3, <4>4
    <3> QED BY <3>5, <3>6
  <2>2. ASSUME NEW c \in (index \cup accepted) \ {Genesis}
        PROVE  hashPrevBlock[c] \in index \cup accepted
    <3>1. CASE c \in index BY <1>1, <2>2, <3>1 DEF ClosedUnderPrev
    <3>2. CASE c = b BY <3>2
    <3>3. CASE c \notin index /\ c # b BY <1>0, <2>1, <2>2, <3>3
    <3> QED BY <3>1, <3>2, <3>3
  <2> QED BY <2>2 DEF ClosedUnderPrev
<1>8. ASSUME NEW h \in held \ accepted
      PROVE  h \notin index \cup accepted /\ hashPrevBlock[h] \notin index \cup accepted
  <2> DEFINE p == hashPrevBlock[h]
  <2>1. h \in Block /\ h # Genesis /\ p \in Block /\ p \notin index /\ h \notin index
    BY <1>1, TreeAssumption DEF NonGenesis
  <2>2. Ancestors[h] = {h} \cup Ancestors[p] BY <2>1, AncestorsUnfold
  <2>3. ASSUME p \in accepted PROVE FALSE
    <3>1. b \in Ancestors[p] /\ Ancestors[p] \ Ancestors[b] \subseteq held
      <4>1. CASE p = b BY <2>1, <4>1, AncestorsType
      <4>2. CASE p # b BY <1>0, <2>3, <4>2
      <4> QED BY <4>1, <4>2
    <3>2. b \in Ancestors[h] /\ Ancestors[h] \ Ancestors[b] \subseteq held
      BY <1>8, <2>2, <3>1
    <3> QED BY <1>0, <1>8, <3>2
  <2> QED BY <1>8, <2>1, <2>3
<1>9. ChainOK(index \cup accepted, held \ accepted, last)
  BY <1>1, <1>2, <1>5, <1>7, <1>8 DEF ChainOK
<1>10. bests \in Seq(index \cup accepted) /\ ChainOK(index \cup accepted, held \ accepted, last)
  BY <1>6, <1>9
<1> QED BY <1>10 DEF bests, last

LEMMA TalkGrows ==
  ASSUME NEW K, NEW X, NEW Y, TalkOK(K, X), \A n \in SyncNode : X[n] \subseteq Y[n]
  PROVE  TalkOK(K, Y)
<1>1. ASSUME NEW l \in Link PROVE CNodes(X[l[1]], X[l[2]]) \subseteq CNodes(Y[l[1]], Y[l[2]])
  BY LinkFacts, CNodesGrow
<1> QED BY <1>1 DEF TalkOK

(* One connection more, less or another.                                   *)
LEMMA TalkChanged ==
  ASSUME NEW K, NEW X, TalkOK(K, X), NEW l \in Link, NEW c, NEW d,
         \/ c = Closed /\ d = Closed
         \/ c \in CNodes(X[l[1]], X[l[2]]) /\ d \in CNodes(X[l[2]], X[l[1]])
  PROVE  TalkOK([K EXCEPT ![l] = c, ![Rev(l)] = d], X)
<1> DEFINE k == Rev(l)
           N == [K EXCEPT ![l] = c, ![k] = d]
<1>1. k \in Link /\ k # l /\ Rev(k) = l /\ k[1] = l[2] /\ k[2] = l[1] BY LinkFacts
<1>2. DOMAIN N = Link /\ DOMAIN K = Link BY DEF TalkOK
<1> HIDE DEF k
<1>3. \A m \in Link : N[m] = IF m = k THEN d ELSE IF m = l THEN c ELSE K[m] BY <1>1, <1>2
<1> HIDE DEF N
<1>4. c = Closed <=> d = Closed
  <2>1. Closed \notin CNodes(X[l[1]], X[l[2]]) /\ Closed \notin CNodes(X[l[2]], X[l[1]])
    BY ClosedIsNoCNode
  <2> QED BY <2>1
<1>5. ASSUME NEW m \in Link
      PROVE  /\ N[m] = Closed \/ N[m] \in CNodes(X[m[1]], X[m[2]])
             /\ N[m] = Closed <=> N[Rev(m)] = Closed
  <2>1. CASE m = l
    <3>1. N[m] = c /\ N[Rev(m)] = d BY <1>1, <1>3, <2>1 DEF k
    <3> QED BY <1>4, <2>1, <3>1
  <2>2. CASE m = k
    <3>1. N[m] = d /\ N[Rev(m)] = c BY <1>1, <1>3, <2>2
    <3> QED BY <1>1, <1>4, <2>2, <3>1
  <2>3. CASE m # l /\ m # k
    <3>1. Rev(m) \in Link /\ Rev(Rev(m)) = m BY LinkFacts
    <3>2. Rev(m) # l /\ Rev(m) # k BY <1>1, <2>3, <3>1 DEF k
    <3>3. N[m] = K[m] /\ N[Rev(m)] = K[Rev(m)] BY <1>3, <2>3, <3>1, <3>2
    <3> QED BY <3>3 DEF TalkOK
  <2> QED BY <2>1, <2>2, <2>3
<1>6. TalkOK(N, X) BY <1>2, <1>5 DEF TalkOK
<1> QED BY <1>6 DEF N, k

(* A message is taken, and says what is true of its sender.                *)
LEMMA ReceivesFacts ==
  ASSUME NEW X, TalkOK(conn, X), NEW l \in Link, NEW type, Receives(l, type)
  PROVE  /\ conn[l] \in CNodes(X[l[1]], X[l[2]])
         /\ conn[Rev(l)] \in CNodes(X[l[2]], X[l[1]])
         /\ Message(l) \in Messages(X[l[2]], X[l[1]]) /\ Message(l).type = type
         /\ \A c \in CNodes(X[l[1]], X[l[2]]) : TalkOK(Handled(l, c), X)
<1> DEFINE k == Rev(l)
           MS == Messages(X[l[2]], X[l[1]])
<1>1. k \in Link /\ k # l /\ k[1] = l[2] /\ k[2] = l[1] BY LinkFacts
<1>2. conn[l] # Closed BY DEF Receives, Closed
<1>3. conn[l] \in CNodes(X[l[1]], X[l[2]]) /\ conn[k] \in CNodes(X[l[2]], X[l[1]])
  BY <1>1, <1>2 DEF TalkOK
<1>4. conn[k].vSend \in Seq(MS) /\ conn[k].vSend # <<>> /\ Message(l) = Head(conn[k].vSend)
  BY <1>3, CNodeFields DEF Receives, Message
<1>5. Message(l) \in MS /\ Message(l).type = type
  <2> DEFINE q == conn[k].vSend
  <2>1. q \in Seq(MS) /\ q # <<>> BY <1>4
  <2> HIDE DEF q, MS
  <2>2. Head(q) \in MS BY <2>1, HeadTailProperties
  <2> QED BY <1>4, <2>2 DEF Receives, q
<1>6. ASSUME NEW c \in CNodes(X[l[1]], X[l[2]]) PROVE TalkOK(Handled(l, c), X)
  <2> DEFINE q == Tail(conn[k].vSend)
             d == [conn[k] EXCEPT !.vSend = q]
  <2>1. q \in Seq(MS) BY <1>4, HeadTailProperties
  <2> HIDE DEF q
  <2>2. d \in CNodes(X[l[2]], X[l[1]]) BY <1>3, <2>1, FieldChanged
  <2>3. Handled(l, c) = [conn EXCEPT ![l] = c, ![k] = d]
    <3>1. DOMAIN conn = Link BY DEF TalkOK
    <3>2. Handled(l, c) = [conn EXCEPT ![k] = d, ![l] = c] BY <1>1, <3>1 DEF Handled, q
    <3> HIDE DEF k, d
    <3> QED BY <1>1, <3>2
  <2> HIDE DEF d
  <2>4. TalkOK([conn EXCEPT ![l] = c, ![Rev(l)] = d], X) BY <1>6, <2>2, TalkChanged
  <2> QED BY <2>3, <2>4 DEF k
<1> QED BY <1>3, <1>5, <1>6

-----------------------------------------------------------------------------
(* A node begins with the whole chain to its best block.                   *)
LEMMA SyncInitOK == SyncInit => SyncInv
<1> SUFFICES ASSUME SyncInit PROVE SyncInv OBVIOUS
<1>1. \A n \in SyncNode :
        /\ InitialBest[n] \in Block /\ pindexBest[n] = InitialBest[n]
        /\ mapBlockIndex[n] = Ancestors[InitialBest[n]] /\ mapOrphanBlocks[n] = {}
  BY SyncAssumption DEF SyncInit
<1>2. ASSUME NEW n \in SyncNode
      PROVE  /\ mapBlockIndex[n] \in SUBSET Block
             /\ ChainOK(mapBlockIndex[n], mapOrphanBlocks[n], pindexBest[n])
  <2> DEFINE b == InitialBest[n]
  <2>1. b \in Block BY <1>1
  <2> HIDE DEF b
  <2>2. Ancestors[b] \subseteq Block /\ b \in Ancestors[b] /\ Genesis \in Ancestors[b]
    BY <2>1, AncestorsType, GenesisIsAncestor
  <2>3. ClosedUnderPrev(Ancestors[b]) BY <2>1, AncestorsClosed DEF ClosedUnderPrev
  <2>4. ASSUME NEW a \in Ancestors[b] PROVE bnChainWork[a] <= bnChainWork[b]
    <3>1. bnChainWork[a] \in Nat /\ bnChainWork[b] \in Nat BY <2>1, <2>2, WorkGrows
    <3>2. a # b => bnChainWork[a] < bnChainWork[b] BY <2>1, AncestorsHaveLessWork
    <3> QED BY <3>1, <3>2
  <2>5. ChainOK(Ancestors[b], {}, b) BY <2>2, <2>3, <2>4 DEF ChainOK
  <2> QED BY <1>1, <2>2, <2>5 DEF b
<1>3. TalkOK(conn, mapBlockIndex)
  <2>1. conn = [l \in Link |-> Closed] BY DEF SyncInit
  <2>2. \A l \in Link : Rev(l) \in Link BY LinkFacts
  <2> QED BY <2>1, <2>2 DEF TalkOK
<1>4. /\ mapBlockIndex \in [SyncNode -> SUBSET Block]
      /\ mapOrphanBlocks \in [SyncNode -> SUBSET Block] /\ pindexBest \in [SyncNode -> Block]
  <2>1. mapBlockIndex = [n \in SyncNode |-> Ancestors[InitialBest[n]]] BY DEF SyncInit
  <2>2. mapOrphanBlocks = [n \in SyncNode |-> {}] BY DEF SyncInit
  <2>3. \A n \in SyncNode : Ancestors[InitialBest[n]] \in SUBSET Block BY <1>1, <1>2
  <2> QED BY <2>1, <2>2, <2>3, SyncAssumption DEF SyncInit
<1> QED BY <1>2, <1>3, <1>4 DEF SyncInv

(* A step that only talks.                                                 *)
LEMMA OnlyTalk ==
  ASSUME SyncInv, UNCHANGED chain, TalkOK(conn', mapBlockIndex)
  PROVE  SyncInv'
<1>1. mapBlockIndex' = mapBlockIndex /\ mapOrphanBlocks' = mapOrphanBlocks
      /\ pindexBest' = pindexBest
  BY DEF chain
<1>2. TalkOK(conn', mapBlockIndex') BY <1>1
<1>3. /\ mapBlockIndex' \in [SyncNode -> SUBSET Block]
      /\ mapOrphanBlocks' \in [SyncNode -> SUBSET Block] /\ pindexBest' \in [SyncNode -> Block]
      /\ \A n \in SyncNode : ChainOK(mapBlockIndex'[n], mapOrphanBlocks'[n], pindexBest'[n])
  BY <1>1 DEF SyncInv
<1> QED BY <1>2, <1>3 DEF SyncInv

LEMMA FreshCNode == ASSUME NEW A, NEW B PROVE CNode \in CNodes(A, B)
<1> DEFINE SA == Seq(A)
           SB == Seq(B)
           M == Seq(Messages(A, B))
<1>1. <<>> \in SA /\ <<>> \in SB /\ <<>> \in M OBVIOUS
<1>2. <<Null, Null>> \in Hash \X Hash /\ Null \in Hash BY DEF Hash
<1>3. CNodes(A, B) = [open : {TRUE}, fVersion : BOOLEAN, setInventoryKnown : SUBSET Block,
             vInventoryToSend : SA, hashContinue : Hash, lastGetBlocks : Hash \X Hash,
             mapAskFor : SB, vSend : M]
  BY DEF CNodes
<1> HIDE DEF SA, SB, M
<1> QED BY <1>1, <1>2, <1>3 DEF CNode

LEMMA ConnectPeerOK ==
  ASSUME SyncInv, NEW l \in Outbound, ConnectPeer(l) PROVE SyncInv'
<1> DEFINE X == mapBlockIndex
           c == PushMessage(CNode, [type |-> "version"])
<1>1. l \in Link BY DEF Link
<1>2. CNode \in CNodes(X[l[1]], X[l[2]]) /\ CNode \in CNodes(X[l[2]], X[l[1]]) BY FreshCNode
<1>3. c \in CNodes(X[l[1]], X[l[2]]) BY <1>2, MessageKinds, PushMessageTyped
<1>4. conn' = [conn EXCEPT ![l] = c, ![Rev(l)] = CNode] /\ UNCHANGED chain BY DEF ConnectPeer
<1>5. TalkOK(conn, X) BY DEF SyncInv
<1> HIDE DEF c, X
<1>6. TalkOK(conn', X) BY <1>1, <1>2, <1>3, <1>4, <1>5, TalkChanged
<1> QED BY <1>4, <1>6, OnlyTalk DEF X

LEMMA DisconnectPeerOK ==
  ASSUME SyncInv, NEW l \in Outbound, DisconnectPeer(l) PROVE SyncInv'
<1>1. l \in Link BY DEF Link
<1>2. conn' = [conn EXCEPT ![l] = Closed, ![Rev(l)] = Closed] /\ UNCHANGED chain
  BY DEF DisconnectPeer
<1>3. TalkOK(conn, mapBlockIndex) BY DEF SyncInv
<1>4. TalkOK(conn', mapBlockIndex) BY <1>1, <1>2, <1>3, TalkChanged
<1> QED BY <1>2, <1>4, OnlyTalk

(* What every handler can rely on.                                         *)
LEMMA HandlerFacts ==
  ASSUME SyncInv, NEW l \in Link, NEW type, Receives(l, type)
  PROVE  LET A == mapBlockIndex[l[1]]
             B == mapBlockIndex[l[2]]
         IN /\ A \in SUBSET Block /\ B \in SUBSET Block
            /\ conn[l] \in CNodes(A, B)
            /\ Message(l) \in Messages(B, A) /\ Message(l).type = type
            /\ \A c \in CNodes(A, B) : TalkOK(Handled(l, c), mapBlockIndex)
            /\ pindexBest[l[1]] \in A
            /\ mapOrphanBlocks[l[1]] \in SUBSET NonGenesis
            /\ \A b \in A : Ancestors[b] \subseteq A
<1> DEFINE n == l[1]
           A == mapBlockIndex[l[1]]
<1>1. n \in SyncNode /\ l[2] \in SyncNode BY LinkFacts
<1>2. TalkOK(conn, mapBlockIndex) BY DEF SyncInv
<1>3. /\ A \in SUBSET Block /\ Genesis \in A /\ ClosedUnderPrev(A)
      /\ mapOrphanBlocks[n] \in SUBSET NonGenesis /\ pindexBest[n] \in A
  BY <1>1 DEF SyncInv, ChainOK
<1>4. ASSUME NEW b \in A PROVE Ancestors[b] \subseteq A
  <2> HIDE DEF A
  <2> QED BY <1>3, AncestorsLeast DEF ClosedUnderPrev
<1>5. mapBlockIndex[l[2]] \in SUBSET Block BY <1>1 DEF SyncInv
<1>6. /\ conn[l] \in CNodes(mapBlockIndex[l[1]], mapBlockIndex[l[2]])
      /\ Message(l) \in Messages(mapBlockIndex[l[2]], mapBlockIndex[l[1]])
      /\ Message(l).type = type
      /\ \A c \in CNodes(mapBlockIndex[l[1]], mapBlockIndex[l[2]]) :
           TalkOK(Handled(l, c), mapBlockIndex)
  BY <1>2, ReceivesFacts
<1> QED BY <1>3, <1>4, <1>5, <1>6

LEMMA ReceiveVersionOK ==
  ASSUME SyncInv, NEW l \in Link, ReceiveVersion(l) PROVE SyncInv'
<1> DEFINE n == l[1]
           A == mapBlockIndex[n]
           B == mapBlockIndex[l[2]]
           heard == [conn[l] EXCEPT !.fVersion = TRUE]
           c == IF l \in Outbound THEN heard ELSE PushMessage(heard, [type |-> "version"])
           asks == PushGetBlocks(c, pindexBest[n], Null)
<1>1. Receives(l, "version") /\ UNCHANGED chain BY DEF ReceiveVersion
<1>2. /\ A \in SUBSET Block /\ conn[l] \in CNodes(A, B) /\ pindexBest[n] \in A
      /\ \A d \in CNodes(A, B) : TalkOK(Handled(l, d), mapBlockIndex)
  BY <1>1, HandlerFacts
<1>3. heard \in CNodes(A, B) BY <1>2, FieldChanged
<1>4. c \in CNodes(A, B) BY <1>3, MessageKinds, PushMessageTyped
<1>5. conn' = Handled(l, asks) \/ conn' = Handled(l, c) BY DEF ReceiveVersion
<1> HIDE DEF c
<1>6. pindexBest[n] \in Block /\ Null \in Hash BY <1>2 DEF Hash
<1>7. asks \in CNodes(A, B) BY <1>4, <1>6, PushGetBlocksTyped
<1> HIDE DEF asks, A, B, n
<1>8. TalkOK(conn', mapBlockIndex) BY <1>2, <1>4, <1>5, <1>7
<1> QED BY <1>1, <1>8, OnlyTalk

LEMMA ReceiveGetBlocksOK ==
  ASSUME SyncInv, NEW l \in Link, ReceiveGetBlocks(l) PROVE SyncInv'
<1> DEFINE n == l[1]
           A == mapBlockIndex[n]
           B == mapBlockIndex[l[2]]
           rest == RestOfChain(n, Message(l).locator, Message(l).hashStop)
<1>1. Receives(l, "getblocks") /\ UNCHANGED chain BY DEF ReceiveGetBlocks
<1>2. /\ A \in SUBSET Block /\ conn[l] \in CNodes(A, B) /\ pindexBest[n] \in A
      /\ \A d \in CNodes(A, B) : TalkOK(Handled(l, d), mapBlockIndex)
      /\ \A b \in A : Ancestors[b] \subseteq A
  BY <1>1, HandlerFacts
<1>3. PICK s \in ByHeight(rest) :
        LET batch == Batch(s)
            pushed == PushInventory(conn[l], batch)
        IN conn' = Handled(l, IF Len(batch) = nLimit
                              THEN [pushed EXCEPT !.hashContinue = batch[nLimit]] ELSE pushed)
  BY DEF ReceiveGetBlocks
<1> DEFINE batch == Batch(s)
           pushed == PushInventory(conn[l], batch)
           more == [pushed EXCEPT !.hashContinue = batch[nLimit]]
<1>4. rest \in SUBSET A BY <1>2 DEF RestOfChain
<1>5. s \in Seq(A) /\ Len(s) \in Nat
  <2>1. IsFiniteSet(rest) BY <1>2, <1>4, TreeAssumption, FS_Subset
  <2>2. Cardinality(rest) \in Nat BY <2>1, FS_CardinalityType
  <2>3. s \in [1 .. Cardinality(rest) -> rest] BY <1>3 DEF ByHeight
  <2>4. s \in [1 .. Cardinality(rest) -> A] BY <1>4, <2>3
  <2> HIDE DEF rest, A
  <2> QED BY <2>2, <2>4, IsASeq, LenProperties
<1>6. nLimit \in Nat /\ nLimit # 0 BY SyncAssumption
<1>7. batch \in Seq(A)
  <2> DEFINE m == IF Len(s) < nLimit THEN Len(s) ELSE nLimit
  <2>1. m \in Int /\ m <= Len(s) BY <1>5, <1>6
  <2>2. batch = SubSeq(s, 1, m) BY DEF Batch
  <2> HIDE DEF m, batch, A
  <2>3. \A i \in 1 .. m : i \in 1 .. Len(s) BY <1>5, <2>1
  <2>4. SubSeq(s, 1, m) \in Seq(A) BY <1>5, <2>1, <2>3, SubSeqProperties
  <2> QED BY <2>2, <2>4
<1>8. pushed \in CNodes(A, B) BY <1>2, <1>7, PushInventoryTyped
<1>9. conn' = Handled(l, more) \/ conn' = Handled(l, pushed) BY <1>3
<1>10. Len(batch) = nLimit => batch[nLimit] \in Hash
  <2> HIDE DEF batch
  <2> SUFFICES ASSUME Len(batch) = nLimit PROVE batch[nLimit] \in Hash OBVIOUS
  <2>1. nLimit \in 1 .. Len(batch) BY <1>6
  <2>2. batch[nLimit] \in A BY <1>7, <2>1, ElementOfSeq
  <2> QED BY <1>2, <2>2 DEF Hash
<1>11. conn' = Handled(l, IF Len(batch) = nLimit THEN more ELSE pushed) BY <1>3
<1> HIDE DEF batch, pushed
<1>12. Len(batch) = nLimit => more \in CNodes(A, B) BY <1>8, <1>10, FieldChanged
<1> HIDE DEF more, A, B, n
<1>13. TalkOK(conn', mapBlockIndex) BY <1>2, <1>8, <1>11, <1>12
<1> QED BY <1>1, <1>13, OnlyTalk

LEMMA ReceiveInvOK ==
  ASSUME SyncInv, NEW l \in Link, ReceiveInv(l) PROVE SyncInv'
<1> DEFINE n == l[1]
           A == mapBlockIndex[n]
           B == mapBlockIndex[l[2]]
           v == Message(l).vInv
           c == AfterInv(n, v, conn[l])
<1>1. Receives(l, "inv") /\ UNCHANGED chain /\ conn' = Handled(l, c) BY DEF ReceiveInv
<1>2. /\ A \in SUBSET Block /\ B \in SUBSET Block
      /\ conn[l] \in CNodes(A, B) /\ pindexBest[n] \in A
      /\ mapOrphanBlocks[n] \in SUBSET NonGenesis
      /\ Message(l) \in Messages(B, A) /\ Message(l).type = "inv"
      /\ \A d \in CNodes(A, B) : TalkOK(Handled(l, d), mapBlockIndex)
  BY <1>1, HandlerFacts
<1>3. v \in Seq(B) BY <1>2, MessageSays
<1>4. pindexBest[n] \in Block BY <1>2
<1> HIDE DEF v, A, B, n
<1>5. c \in CNodes(A, B) BY <1>2, <1>3, <1>4, AfterInvTyped
<1> HIDE DEF c
<1>6. TalkOK(conn', mapBlockIndex) BY <1>1, <1>2, <1>5
<1> QED BY <1>1, <1>6, OnlyTalk

LEMMA ReceiveGetDataOK ==
  ASSUME SyncInv, NEW l \in Link, ReceiveGetData(l) PROVE SyncInv'
<1> DEFINE n == l[1]
           A == mapBlockIndex[n]
           B == mapBlockIndex[l[2]]
           b == Message(l).hash
           sent == PushMessage(conn[l], [type |-> "block", hash |-> b])
           next == PushMessage(sent, [type |-> "inv", vInv |-> <<pindexBest[n]>>])
           last == [next EXCEPT !.hashContinue = Null]
<1>1. Receives(l, "getdata") /\ UNCHANGED chain BY DEF ReceiveGetData
<1>2. conn' = Handled(l, IF b \notin A THEN conn[l]
                         ELSE IF b # conn[l].hashContinue THEN sent ELSE last)
  BY DEF ReceiveGetData
<1>3. /\ A \in SUBSET Block /\ conn[l] \in CNodes(A, B) /\ pindexBest[n] \in A
      /\ \A d \in CNodes(A, B) : TalkOK(Handled(l, d), mapBlockIndex)
  BY <1>1, HandlerFacts
<1>4. b \in A => sent \in CNodes(A, B)
  <2> HIDE DEF b, A, B, n
  <2>1. b \in A => [type |-> "block", hash |-> b] \in Messages(A, B) BY MessageKinds
  <2> QED BY <1>3, <2>1, PushMessageTyped
<1>5. <<pindexBest[n]>> \in Seq(A) BY <1>3
<1> HIDE DEF sent
<1>6. b \in A => next \in CNodes(A, B)
  <2> HIDE DEF b, A, B, n
  <2>1. [type |-> "inv", vInv |-> <<pindexBest[n]>>] \in Messages(A, B) BY <1>5, MessageKinds
  <2> QED BY <1>4, <2>1, PushMessageTyped
<1> HIDE DEF next
<1>7. Null \in Hash BY DEF Hash
<1>8. b \in A => last \in CNodes(A, B) BY <1>6, <1>7, FieldChanged
<1> HIDE DEF last, A, B, b, n
<1>9. TalkOK(conn', mapBlockIndex) BY <1>2, <1>3, <1>4, <1>8
<1> QED BY <1>1, <1>9, OnlyTalk

LEMMA SendMessagesOK ==
  ASSUME SyncInv, NEW l \in Link, SendMessages(l) PROVE SyncInv'
<1> DEFINE n == l[1]
           A == mapBlockIndex[n]
           B == mapBlockIndex[l[2]]
           f == Flush(conn[l])
<1>1. UNCHANGED chain /\ conn[l].open BY DEF SendMessages
<1>2. PICK k \in 0 .. Len(conn[l].mapAskFor) : conn' = [conn EXCEPT ![l] = Ask(Flush(@), n, k)]
  BY DEF SendMessages
<1> DEFINE c == Ask(f, n, k)
<1>3. TalkOK(conn, mapBlockIndex) /\ A \in SUBSET Block
  BY LinkFacts DEF SyncInv
<1>4. conn[l] # Closed BY <1>1 DEF Closed
<1>5. Rev(l) \in Link /\ Rev(l) # l /\ Rev(l)[1] = l[2] /\ Rev(l)[2] = l[1] BY LinkFacts
<1>6. conn[l] \in CNodes(A, B) /\ conn[Rev(l)] \in CNodes(B, A) /\ DOMAIN conn = Link
  BY <1>3, <1>4, <1>5 DEF TalkOK
<1>7. f \in CNodes(A, B) BY <1>3, <1>6, FlushTyped
<1>8. f.mapAskFor = conn[l].mapAskFor
  <2> DEFINE flushed == [conn[l] EXCEPT !.vInventoryToSend = <<>>,
                        !.setInventoryKnown =
                           @ \cup {conn[l].vInventoryToSend[i] : i \in DOMAIN conn[l].vInventoryToSend}]
  <2>1. flushed.mapAskFor = conn[l].mapAskFor OBVIOUS
  <2>2. f = flushed \/ \E m : f = PushMessage(flushed, m) BY DEF Flush
  <2> HIDE DEF flushed, f
  <2>3. \A m : PushMessage(flushed, m).mapAskFor = flushed.mapAskFor BY DEF PushMessage
  <2> QED BY <2>1, <2>2, <2>3
<1>9. conn' = [conn EXCEPT ![l] = c, ![Rev(l)] = conn[Rev(l)]]
  <2>1. conn' = [conn EXCEPT ![l] = c] BY <1>2, <1>6
  <2> HIDE DEF c
  <2> QED BY <1>5, <1>6, <2>1
<1> HIDE DEF f
<1>10. k \in 0 .. Len(f.mapAskFor) BY <1>8
<1> HIDE DEF A, B, n
<1>11. c \in CNodes(A, B) BY <1>7, <1>10, AskTyped
<1> HIDE DEF c
<1>12. TalkOK(conn', mapBlockIndex) BY <1>3, <1>6, <1>9, <1>11, TalkChanged DEF A, B, n
<1> QED BY <1>1, <1>12, OnlyTalk

(* New best blocks are announced to every peer of n.                       *)
LEMMA TalkTold ==
  ASSUME NEW K, NEW Y, TalkOK(K, Y), NEW n \in SyncNode, NEW s \in Seq(Y[n])
  PROVE  TalkOK([l \in Link |-> IF l[1] = n /\ K[l].open
                                THEN PushInventory(K[l], s) ELSE K[l]], Y)
<1> DEFINE N == [l \in Link |-> IF l[1] = n /\ K[l].open THEN PushInventory(K[l], s) ELSE K[l]]
<1>1. \A l \in Link : N[l] = IF l[1] = n /\ K[l].open THEN PushInventory(K[l], s) ELSE K[l]
  OBVIOUS
<1>2. DOMAIN N = Link OBVIOUS
<1> HIDE DEF N
<1>3. ASSUME NEW l \in Link
      PROVE  /\ N[l] = Closed \/ N[l] \in CNodes(Y[l[1]], Y[l[2]])
             /\ N[l] = Closed <=> K[l] = Closed
  <2>1. CASE K[l] = Closed
    <3>1. ~ K[l].open BY <2>1 DEF Closed
    <3> QED BY <1>1, <2>1, <3>1
  <2>2. CASE K[l] # Closed
    <3>1. K[l] \in CNodes(Y[l[1]], Y[l[2]]) BY <2>2 DEF TalkOK
    <3>2. CASE l[1] = n /\ K[l].open
      <4> DEFINE A == Y[l[1]]
                 B == Y[l[2]]
      <4>1. s \in Seq(A) /\ N[l] = PushInventory(K[l], s) BY <1>1, <3>2
      <4> HIDE DEF A, B
      <4>2. N[l] \in CNodes(A, B) BY <3>1, <4>1, PushInventoryTyped DEF A, B
      <4>3. N[l] # Closed BY <4>2, ClosedIsNoCNode
      <4> QED BY <2>2, <4>2, <4>3 DEF A, B
    <3>3. CASE ~ (l[1] = n /\ K[l].open)
      <4>1. N[l] = K[l] BY <1>1, <3>3
      <4> QED BY <3>1, <4>1
    <3> QED BY <3>2, <3>3
  <2> QED BY <2>1, <2>2
<1>4. ASSUME NEW l \in Link PROVE N[l] = Closed <=> N[Rev(l)] = Closed
  <2>1. Rev(l) \in Link BY LinkFacts
  <2>2. K[l] = Closed <=> K[Rev(l)] = Closed BY DEF TalkOK
  <2> QED BY <1>3, <2>1, <2>2
<1>5. TalkOK(N, Y) BY <1>2, <1>3, <1>4 DEF TalkOK
<1> QED BY <1>5 DEF N

LEMMA AcceptBlockOK ==
  ASSUME SyncInv, NEW n \in SyncNode, NEW b \in NonGenesis, b \notin mapBlockIndex[n],
         hashPrevBlock[b] \in mapBlockIndex[n],
         NEW links, TalkOK(links, mapBlockIndex), AcceptBlock(n, b, links)
  PROVE  SyncInv'
<1> DEFINE X == mapBlockIndex
           Y == mapBlockIndex'
           accepted == Connected(n, b)
<1>1. PICK s \in ByHeight(accepted) :
        LET bests == NewBests(pindexBest[n], s) IN
        /\ pindexBest' = [pindexBest EXCEPT ![n] = IF bests = <<>> THEN @ ELSE bests[Len(bests)]]
        /\ conn' = [l \in Link |-> IF l[1] = n /\ links[l].open
                                   THEN PushInventory(links[l], bests) ELSE links[l]]
  BY DEF AcceptBlock
<1> DEFINE bests == NewBests(pindexBest[n], s)
           best == IF bests = <<>> THEN pindexBest[n] ELSE bests[Len(bests)]
<1>2. /\ X \in [SyncNode -> SUBSET Block]
      /\ mapOrphanBlocks \in [SyncNode -> SUBSET Block] /\ pindexBest \in [SyncNode -> Block]
      /\ \A m \in SyncNode : ChainOK(X[m], mapOrphanBlocks[m], pindexBest[m])
  BY DEF SyncInv
<1>3. /\ Y = [X EXCEPT ![n] = @ \cup accepted]
      /\ mapOrphanBlocks' = [mapOrphanBlocks EXCEPT ![n] = @ \ accepted]
      /\ pindexBest' = [pindexBest EXCEPT ![n] = best]
      /\ conn' = [l \in Link |-> IF l[1] = n /\ links[l].open
                                 THEN PushInventory(links[l], bests) ELSE links[l]]
  <2>1. pindexBest' = [pindexBest EXCEPT ![n] = IF bests = <<>> THEN @ ELSE bests[Len(bests)]]
    BY <1>1
  <2>2. pindexBest' = [pindexBest EXCEPT ![n] = best] BY <2>1
  <2> QED BY <1>1, <2>2 DEF AcceptBlock
<1>4. /\ bests \in Seq(X[n] \cup accepted)
      /\ ChainOK(X[n] \cup accepted, mapOrphanBlocks[n] \ accepted, best)
  <2>1. ChainOK(X[n], mapOrphanBlocks[n], pindexBest[n]) BY <1>2
  <2>2. accepted = ConnectedOf(mapOrphanBlocks[n], b) BY DEF Connected, ConnectedOf
  <2> DEFINE index == X[n]
             held == mapOrphanBlocks[n]
             tip == pindexBest[n]
  <2>3. /\ ChainOK(index, held, tip) /\ b \notin index /\ hashPrevBlock[b] \in index
        /\ accepted = ConnectedOf(held, b)
    BY <2>1, <2>2
  <2> HIDE DEF accepted, index, held, tip
  <2>4. LET bs == NewBests(tip, s) IN
         /\ bs \in Seq(index \cup accepted)
         /\ ChainOK(index \cup accepted, held \ accepted,
                    IF bs = <<>> THEN tip ELSE bs[Len(bs)])
    BY <2>3, AcceptedKeepsChain
  <2> QED BY <2>4 DEF index, held, tip
<1>5. best \in X[n] \cup accepted /\ X[n] \cup accepted \in SUBSET Block
  BY <1>4 DEF ChainOK
<1> HIDE DEF accepted, bests, best, X
<1>6. /\ Y[n] = X[n] \cup accepted /\ mapOrphanBlocks'[n] = mapOrphanBlocks[n] \ accepted
      /\ pindexBest'[n] = best
      /\ \A m \in SyncNode : m # n => /\ Y[m] = X[m]
                                      /\ mapOrphanBlocks'[m] = mapOrphanBlocks[m]
                                      /\ pindexBest'[m] = pindexBest[m]
  BY <1>2, <1>3
<1>7. /\ Y \in [SyncNode -> SUBSET Block]
      /\ mapOrphanBlocks' \in [SyncNode -> SUBSET Block] /\ pindexBest' \in [SyncNode -> Block]
  BY <1>2, <1>3, <1>5
<1>8. ASSUME NEW m \in SyncNode PROVE ChainOK(Y[m], mapOrphanBlocks'[m], pindexBest'[m])
  <2>1. CASE m = n BY <1>4, <1>6, <2>1
  <2>2. CASE m # n
    <3>1. Y[m] = X[m] /\ mapOrphanBlocks'[m] = mapOrphanBlocks[m] /\ pindexBest'[m] = pindexBest[m]
      BY <1>6, <2>2
    <3> QED BY <1>2, <3>1
  <2> QED BY <2>1, <2>2
<1>9. TalkOK(conn', Y)
  <2>1. \A m \in SyncNode : X[m] \subseteq Y[m] BY <1>6
  <2>2. TalkOK(links, Y)
    <3>1. TalkOK(links, X) BY DEF X
    <3> HIDE DEF Y
    <3> QED BY <2>1, <3>1, TalkGrows
  <2>3. bests \in Seq(Y[n]) BY <1>4, <1>6
  <2> HIDE DEF Y
  <2> QED BY <1>3, <2>2, <2>3, TalkTold
<1> QED BY <1>7, <1>8, <1>9 DEF SyncInv

LEMMA HoldOK ==
  ASSUME SyncInv, NEW l \in Link, Receives(l, "block"), NEW b \in Block,
         ~AlreadyHave(l[1], b), hashPrevBlock[b] \notin mapBlockIndex[l[1]],
         NEW c \in CNodes(mapBlockIndex[l[1]], mapBlockIndex[l[2]]), Hold(l, b, c)
  PROVE  SyncInv'
<1> DEFINE n == l[1]
           A == mapBlockIndex[n]
           B == mapBlockIndex[l[2]]
           held == mapOrphanBlocks[n] \cup {b}
           best == pindexBest[n]
           root == GetOrphanRoot(held, b)
           asks == PushGetBlocks(c, best, root)
<1>1. n \in SyncNode BY LinkFacts
<1>2. /\ mapBlockIndex \in [SyncNode -> SUBSET Block]
      /\ mapOrphanBlocks \in [SyncNode -> SUBSET Block] /\ pindexBest \in [SyncNode -> Block]
      /\ \A m \in SyncNode : ChainOK(mapBlockIndex[m], mapOrphanBlocks[m], pindexBest[m])
  BY DEF SyncInv
<1>3. /\ mapOrphanBlocks' = [mapOrphanBlocks EXCEPT ![n] = held]
      /\ mapBlockIndex' = mapBlockIndex /\ pindexBest' = pindexBest
  BY DEF Hold
<1>4. mapOrphanBlocks'[n] = held /\ \A m \in SyncNode : m # n =>
        mapOrphanBlocks'[m] = mapOrphanBlocks[m]
  BY <1>1, <1>2, <1>3
<1>5. conn' = Handled(l, asks) BY <1>4 DEF Hold
<1>6. b \in NonGenesis /\ held \in SUBSET NonGenesis /\ b \in held
      /\ b \notin A /\ best \in Block
  <2>1. ChainOK(A, mapOrphanBlocks[n], best) BY <1>1, <1>2
  <2>2. b \notin A BY DEF AlreadyHave
  <2>3. best \in Block BY <1>1, <1>2
  <2> QED BY <2>1, <2>2, <2>3 DEF ChainOK, NonGenesis
<1> HIDE DEF held
<1>7. root \in Hash BY <1>6, OrphanRootIsBlock DEF Hash
<1> HIDE DEF root
<1>8. asks \in CNodes(A, B) BY <1>6, <1>7, PushGetBlocksTyped
<1> HIDE DEF asks
<1>9. TalkOK(conn', mapBlockIndex) BY <1>5, <1>8, HandlerFacts
<1>10. TalkOK(conn', mapBlockIndex') BY <1>3, <1>9
<1>11. ASSUME NEW m \in SyncNode
       PROVE  ChainOK(mapBlockIndex'[m], mapOrphanBlocks'[m], pindexBest'[m])
  <2>1. ChainOK(mapBlockIndex[m], mapOrphanBlocks[m], pindexBest[m]) BY <1>2
  <2>2. CASE m # n BY <1>3, <1>4, <2>1, <2>2
  <2>3. CASE m = n
    <3>1. ChainOK(A, mapOrphanBlocks[n], best) BY <2>1, <2>3
    <3>2. ChainOK(A, held, best) BY <1>6, <3>1 DEF ChainOK, held
    <3> QED BY <1>3, <1>4, <2>3, <3>2
  <2> QED BY <2>2, <2>3
<1>12. held \in SUBSET Block BY <1>6 DEF NonGenesis
<1>13. mapOrphanBlocks' \in [SyncNode -> SUBSET Block] BY <1>1, <1>2, <1>3, <1>12
<1> QED BY <1>2, <1>3, <1>10, <1>11, <1>13 DEF SyncInv

LEMMA ReceiveBlockOK ==
  ASSUME SyncInv, NEW l \in Link, ReceiveBlock(l) PROVE SyncInv'
<1> DEFINE n == l[1]
           A == mapBlockIndex[n]
           B == mapBlockIndex[l[2]]
           b == Message(l).hash
           c == AddInventoryKnown(conn[l], b)
<1>1. Receives(l, "block") BY DEF ReceiveBlock
<1>2. /\ A \in SUBSET Block /\ B \in SUBSET Block /\ conn[l] \in CNodes(A, B)
      /\ Message(l) \in Messages(B, A) /\ Message(l).type = "block"
      /\ \A d \in CNodes(A, B) : TalkOK(Handled(l, d), mapBlockIndex)
  BY <1>1, HandlerFacts
<1>3. n \in SyncNode BY LinkFacts
<1>4. b \in Block BY <1>2, MessageSays
<1>5. c \in CNodes(A, B)
  <2> HIDE DEF A, B, b
  <2> QED BY <1>2, <1>4, AddInventoryKnownTyped
<1>6. IF AlreadyHave(n, b) THEN conn' = Handled(l, c) /\ UNCHANGED chain
      ELSE IF hashPrevBlock[b] \notin A THEN Hold(l, b, c)
      ELSE AcceptBlock(n, b, Handled(l, c))
  BY DEF ReceiveBlock
<1> HIDE DEF c
<1>7. TalkOK(Handled(l, c), mapBlockIndex) BY <1>2, <1>5
<1> HIDE DEF b
<1>8. CASE AlreadyHave(n, b) BY <1>6, <1>7, <1>8, OnlyTalk
<1>9. CASE ~AlreadyHave(n, b) /\ hashPrevBlock[b] \notin A
  <2>1. Hold(l, b, c) BY <1>6, <1>9
  <2> QED BY <1>1, <1>4, <1>5, <1>9, <2>1, HoldOK
<1>10. CASE ~AlreadyHave(n, b) /\ hashPrevBlock[b] \in A
  <2>1. AcceptBlock(n, b, Handled(l, c)) BY <1>6, <1>10
  <2>2. b \notin A BY <1>10 DEF AlreadyHave
  <2>3. Genesis \in A BY <1>3 DEF SyncInv, ChainOK
  <2>4. b \in NonGenesis BY <1>4, <2>2, <2>3 DEF NonGenesis
  <2> QED BY <1>3, <1>7, <1>10, <2>1, <2>2, <2>4, AcceptBlockOK
<1> QED BY <1>8, <1>9, <1>10

LEMMA MineOK ==
  ASSUME SyncInv, NEW n \in SyncNode, NEW b \in Block, Mine(n, b) PROVE SyncInv'
<1>1. b \in NonGenesis BY SyncAssumption DEF Mine
<1>2. b \notin mapBlockIndex[n] /\ hashPrevBlock[b] = pindexBest[n] /\ AcceptBlock(n, b, conn)
  BY DEF Mine
<1>3. ChainOK(mapBlockIndex[n], mapOrphanBlocks[n], pindexBest[n]) BY DEF SyncInv
<1>4. hashPrevBlock[b] \in mapBlockIndex[n] BY <1>2, <1>3 DEF ChainOK
<1>5. TalkOK(conn, mapBlockIndex) BY DEF SyncInv
<1> QED BY <1>1, <1>2, <1>4, <1>5, AcceptBlockOK

LEMMA SyncStep == SyncInv /\ [SyncNext]_syncVars => SyncInv'
<1> SUFFICES ASSUME SyncInv, [SyncNext]_syncVars PROVE SyncInv' OBVIOUS
<1>1. ASSUME NEW l \in Link, ProcessMessages(l) PROVE SyncInv'
  BY <1>1, ReceiveVersionOK, ReceiveGetBlocksOK, ReceiveInvOK, ReceiveGetDataOK, ReceiveBlockOK
  DEF ProcessMessages
<1>2. ASSUME NEW l \in Link, SendMessages(l) PROVE SyncInv' BY <1>2, SendMessagesOK
<1>3. ASSUME NEW l \in Outbound, ConnectPeer(l) \/ DisconnectPeer(l) PROVE SyncInv'
  BY <1>3, ConnectPeerOK, DisconnectPeerOK
<1>4. ASSUME NEW n \in SyncNode, NEW b \in Block, Mine(n, b) PROVE SyncInv' BY <1>4, MineOK
<1>5. CASE UNCHANGED syncVars
  <2>1. UNCHANGED chain /\ conn' = conn BY <1>5 DEF syncVars
  <2>2. TalkOK(conn', mapBlockIndex) BY <2>1 DEF SyncInv
  <2> QED BY <2>1, <2>2, OnlyTalk
<1> QED BY <1>1, <1>2, <1>3, <1>4, <1>5 DEF SyncNext

LEMMA SyncInvariant == SyncSpec => []SyncInv
<1> QED BY SyncInitOK, SyncStep, PTL DEF SyncSpec

(* No order in which valid blocks, announcements and connections come      *)
(* makes a node stay on a chain with less work than one it has in full, or *)
(* hold back one that it could connect: its index is a tree, its best block *)
(* has the most work in it, and the block before a held one is missing     *)
(* (ProcessBlock 1928-1968, AddToBlockIndex, SetBestChain 1757).           *)
HasTheBest ==
  \A n \in SyncNode :
    /\ ClosedUnderPrev(mapBlockIndex[n]) /\ pindexBest[n] \in mapBlockIndex[n]
    /\ \A b \in mapBlockIndex[n] : bnChainWork[b] <= bnChainWork[pindexBest[n]]
    /\ \A h \in mapOrphanBlocks[n] : hashPrevBlock[h] \notin mapBlockIndex[n]

THEOREM NoBlockLeftBehind == SyncSpec => []HasTheBest
<1>1. SyncInv => HasTheBest BY DEF SyncInv, ChainOK, HasTheBest
<1> QED BY <1>1, SyncInvariant, PTL

(* Nobody is asked for what it does not have: each entry of mapAskFor, and *)
(* each "getdata" not yet handled, names a block of the other's index, and *)
(* so does each "inv" and "block" of the sender's.  Hence the "getdata" of *)
(* a node that follows the protocol is always answered (main.cpp 2722).    *)
AskedIsHad ==
  \A l \in Link : conn[l].open =>
    /\ \A i \in DOMAIN conn[l].mapAskFor : conn[l].mapAskFor[i] \in mapBlockIndex[l[2]]
    /\ \A i \in DOMAIN conn[l].vSend :
         LET m == conn[l].vSend[i] IN
         /\ m.type = "getdata" => m.hash \in mapBlockIndex[l[2]]
         /\ m.type = "block" => m.hash \in mapBlockIndex[l[1]]
         /\ m.type = "inv" => \A j \in DOMAIN m.vInv : m.vInv[j] \in mapBlockIndex[l[1]]

THEOREM NobodyAskedInVain == SyncSpec => []AskedIsHad
<1>1. ASSUME SyncInv, NEW l \in Link, conn[l].open
      PROVE  /\ \A i \in DOMAIN conn[l].mapAskFor : conn[l].mapAskFor[i] \in mapBlockIndex[l[2]]
             /\ \A i \in DOMAIN conn[l].vSend :
                  LET m == conn[l].vSend[i] IN
                  /\ m.type = "getdata" => m.hash \in mapBlockIndex[l[2]]
                  /\ m.type = "block" => m.hash \in mapBlockIndex[l[1]]
                  /\ m.type = "inv" => \A j \in DOMAIN m.vInv : m.vInv[j] \in mapBlockIndex[l[1]]
  <2> DEFINE A == mapBlockIndex[l[1]]
             B == mapBlockIndex[l[2]]
             asked == conn[l].mapAskFor
             sent == conn[l].vSend
  <2>1. conn[l] \in CNodes(A, B)
    <3>1. conn[l] # Closed BY <1>1 DEF Closed
    <3>2. TalkOK(conn, mapBlockIndex) BY <1>1 DEF SyncInv
    <3> QED BY <3>1, <3>2 DEF TalkOK
  <2> HIDE DEF A, B
  <2>2. asked \in Seq(B) /\ sent \in Seq(Messages(A, B)) BY <2>1, CNodeFields
  <2> HIDE DEF asked, sent
  <2>3. \A i \in DOMAIN asked : asked[i] \in B BY <2>2, ElementOfSeq, LenProperties
  <2>4. ASSUME NEW i \in DOMAIN sent
        PROVE  /\ sent[i].type = "getdata" => sent[i].hash \in B
               /\ sent[i].type = "block" => sent[i].hash \in A
               /\ sent[i].type = "inv" => \A j \in DOMAIN sent[i].vInv : sent[i].vInv[j] \in A
    <3>1. sent[i] \in Messages(A, B) BY <2>2, <2>4, ElementOfSeq, LenProperties
    <3>2. sent[i].type = "inv" => sent[i].vInv \in Seq(A) BY <3>1, MessageSays
    <3>3. \A v \in Seq(A) : \A j \in DOMAIN v : v[j] \in A BY ElementOfSeq, LenProperties
    <3>4. sent[i].type = "inv" => \A j \in DOMAIN sent[i].vInv : sent[i].vInv[j] \in A
      BY <3>2, <3>3
    <3> QED BY <3>1, <3>4, MessageSays
  <2> QED BY <2>3, <2>4 DEF asked, sent, A, B
<1>2. SyncInv => AskedIsHad BY <1>1 DEF AskedIsHad
<1> QED BY <1>2, SyncInvariant, PTL
=============================================================================
