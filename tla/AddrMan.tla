------------------------------ MODULE AddrMan ------------------------------
(***************************************************************************)
(* The address manager (src/src/addrman.cpp, addrman.h): addresses that    *)
(* were heard of sit in up to BucketsPerAddress "new" buckets, those that  *)
(* answered in one "tried" bucket.  Every method holds the manager's lock. *)
(*                                                                         *)
(* The times of an entry only decide which element of a full bucket has to *)
(* go and which updates are ignored; both are left open.  The order in     *)
(* which a tried bucket lists its elements is left out.                    *)
(***************************************************************************)
EXTENDS Integers, Sequences, FiniteSets

CONSTANTS
  NetAddr,           \* addresses without port, the keys of mapAddr
  Port,
  Source,            \* peers that tell of addresses
  NewBuckets,        \* indices of vvNew
  TriedBuckets,      \* indices of vvTried
  NewBucketOf,       \* what GetNewBucket hashes to
  TriedBucketOf,     \* what GetTriedBucket hashes to
  NewBucketSize,     \* ADDRMAN_NEW_BUCKET_SIZE
  TriedBucketSize,   \* ADDRMAN_TRIED_BUCKET_SIZE
  BucketsPerAddress, \* ADDRMAN_NEW_BUCKETS_PER_ADDRESS
  GetAddrPercent,    \* ADDRMAN_GETADDR_MAX_PCT
  MaxId              \* bound on nIdCount

ASSUME AddrManAssumption ==
  /\ NewBucketOf \in [NetAddr \X Source -> NewBuckets] /\ IsFiniteSet(NewBuckets)
  /\ TriedBucketOf \in [NetAddr \X Port -> TriedBuckets] /\ IsFiniteSet(TriedBuckets)
  /\ {NewBucketSize, TriedBucketSize, BucketsPerAddress} \subseteq Nat \ {0}
  /\ GetAddrPercent \in 0 .. 100 /\ MaxId \in Nat

VARIABLES
  addrman,  \* the CAddrMan
  nShuffle  \* the next element GetAddr_ exchanges, 0 when it is not running

vars == <<addrman, nShuffle>>

Info ==
  [ip : NetAddr, port : Port, source : Source, fInTried : BOOLEAN, nRefCount : Nat,
   nRandomPos : Nat]

Empty ==
  [nIdCount |-> 0, mapInfo |-> <<>>, mapAddr |-> <<>>, vRandom |-> <<>>, nTried |-> 0,
   nNew |-> 0, vvTried |-> [b \in TriedBuckets |-> {}], vvNew |-> [b \in NewBuckets |-> {}]]

-----------------------------------------------------------------------------
(* The methods, as functions from one state of the object t to another.    *)
Create(t, ip, port, source) ==
  LET nId == t.nIdCount
      info == [ip |-> ip, port |-> port, source |-> source, fInTried |-> FALSE,
               nRefCount |-> 0, nRandomPos |-> Len(t.vRandom) + 1]
  IN [t EXCEPT
        !.nIdCount = nId + 1,
        !.mapInfo = [i \in DOMAIN t.mapInfo \cup {nId} |-> IF i = nId THEN info ELSE t.mapInfo[i]],
        !.mapAddr = [a \in DOMAIN t.mapAddr \cup {ip} |-> IF a = ip THEN nId ELSE t.mapAddr[a]],
        !.vRandom = Append(t.vRandom, nId),
        !.nNew = t.nNew + 1]

SwapRandom(t, pos1, pos2) ==
  LET nId1 == t.vRandom[pos1]
      nId2 == t.vRandom[pos2]
  IN [t EXCEPT
        !.vRandom = [t.vRandom EXCEPT ![pos1] = nId2, ![pos2] = nId1],
        !.mapInfo = [t.mapInfo EXCEPT ![nId1].nRandomPos = pos2, ![nId2].nRandomPos = pos1]]

(* What ShrinkNew does with an entry that no bucket refers to any more.    *)
Erase(t, nId) ==
  LET s == SwapRandom(t, t.mapInfo[nId].nRandomPos, Len(t.vRandom))
  IN [s EXCEPT
        !.vRandom = [i \in 1 .. Len(s.vRandom) - 1 |-> s.vRandom[i]],
        !.mapAddr = [a \in DOMAIN t.mapAddr \ {t.mapInfo[nId].ip} |-> t.mapAddr[a]],
        !.mapInfo = [i \in DOMAIN t.mapInfo \ {nId} |-> s.mapInfo[i]],
        !.nNew = t.nNew - 1]

AddRefs(t, nId, d) ==
  [t EXCEPT !.mapInfo = [t.mapInfo EXCEPT ![nId].nRefCount = t.mapInfo[nId].nRefCount + d]]

TakeOut(t, b, nId) == [t EXCEPT !.vvNew = [t.vvNew EXCEPT ![b] = t.vvNew[b] \ {nId}]]
PutIn(t, b, nId) == [t EXCEPT !.vvNew = [t.vvNew EXCEPT ![b] = t.vvNew[b] \cup {nId}]]

(* ShrinkNew when it chooses nId.                                          *)
Shrink(t, b, nId) ==
  TakeOut(IF t.mapInfo[nId].nRefCount = 1 THEN Erase(AddRefs(t, nId, -1), nId)
                                         ELSE AddRefs(t, nId, -1), b, nId)

(* The end of Add_, for a bucket that does not hold nId: t becomes u.      *)
Enter(t, b, nId, u) ==
  LET counted == AddRefs(t, nId, 1)
  IN \/ /\ Cardinality(t.vvNew[b]) # NewBucketSize
        /\ u = PutIn(counted, b, nId)
     \/ /\ Cardinality(t.vvNew[b]) = NewBucketSize
        /\ \E old \in t.vvNew[b] : u = PutIn(Shrink(counted, b, old), b, nId)

Buckets(t, nId) == {b \in NewBuckets : nId \in t.vvNew[b]}

LeaveOrigin(t, nId) ==  \* mutant: only one bucket is looked through
  LET b == CHOOSE b \in Buckets(t, nId) : TRUE
  IN [TakeOut(AddRefs(t, nId, -Cardinality(Buckets(t, nId))), b, nId) EXCEPT !.nNew = t.nNew - 1]

(* MakeTried up to the choice of a bucket.                                 *)
LeaveNew(t, nId) ==
  [AddRefs(t, nId, -Cardinality(Buckets(t, nId))) EXCEPT
     !.vvNew = [b \in NewBuckets |-> t.vvNew[b] \ {nId}],
     !.nNew = t.nNew - 1]

EnterTried(t, b, nId) ==
  [t EXCEPT !.vvTried = [t.vvTried EXCEPT ![b] = t.vvTried[b] \cup {nId}],
            !.mapInfo = [t.mapInfo EXCEPT ![nId].fInTried = TRUE],
            !.nTried = t.nTried + 1]

OwnBucket(t, nId) == NewBucketOf[<<t.mapInfo[nId].ip, t.mapInfo[nId].source>>]

(* Where an evicted entry goes.                                            *)
BackTo(t, old, nOrigin) ==
  IF Cardinality(t.vvNew[OwnBucket(t, old)]) < NewBucketSize THEN OwnBucket(t, old) ELSE nOrigin

(* The entry old leaves its tried bucket for a new one.                    *)
Evict(t, b, old, nOrigin) ==
  PutIn([t EXCEPT !.vvTried = [t.vvTried EXCEPT ![b] = t.vvTried[b] \ {old}],
                  !.mapInfo = [t.mapInfo EXCEPT ![old].fInTried = FALSE, ![old].nRefCount = 1],
                  !.nTried = t.nTried - 1,
                  !.nNew = t.nNew + 1],
        BackTo(t, old, nOrigin), old)

(* t becomes u.                                                            *)
MakeTried(t, nId, nOrigin, u) ==
  LET s == LeaveNew(t, nId)
      b == TriedBucketOf[<<t.mapInfo[nId].ip, t.mapInfo[nId].port>>]
  IN \/ /\ Cardinality(t.vvTried[b]) < TriedBucketSize
        /\ u = EnterTried(s, b, nId)
     \/ /\ Cardinality(t.vvTried[b]) >= TriedBucketSize
        /\ \E old \in t.vvTried[b] : u = EnterTried(Evict(s, b, old, nOrigin), b, nId)

-----------------------------------------------------------------------------
Init == addrman = Empty /\ nShuffle = 0

AddNew(ip, port, source) ==
  /\ ip \notin DOMAIN addrman.mapAddr /\ addrman.nIdCount < MaxId
  /\ Enter(Create(addrman, ip, port, source), NewBucketOf[<<ip, source>>], addrman.nIdCount,
           addrman')

AddKnown(ip, source) ==
  /\ ip \in DOMAIN addrman.mapAddr
  /\ LET nId == addrman.mapAddr[ip]
         b == NewBucketOf[<<ip, source>>]
     IN /\ ~addrman.mapInfo[nId].fInTried
        /\ addrman.mapInfo[nId].nRefCount # BucketsPerAddress
        /\ nId \notin addrman.vvNew[b]
        /\ Enter(addrman, b, nId, addrman')

Add(ip, port, source) ==
  /\ nShuffle = 0 /\ nShuffle' = 0
  /\ AddNew(ip, port, source) \/ AddKnown(ip, source)

Good(ip, port) ==
  /\ nShuffle = 0 /\ nShuffle' = 0 /\ ip \in DOMAIN addrman.mapAddr
  /\ LET nId == addrman.mapAddr[ip]
     IN /\ addrman.mapInfo[nId].port = port /\ ~addrman.mapInfo[nId].fInTried
        /\ \E nOrigin \in Buckets(addrman, nId) : MakeTried(addrman, nId, nOrigin, addrman')

nNodes == (GetAddrPercent * Len(addrman.vRandom)) \div 100

GetAddr ==
  /\ nShuffle = 0 /\ nNodes > 0
  /\ nShuffle' = 1 /\ UNCHANGED addrman

GetAddrNext ==
  /\ nShuffle \in 1 .. nNodes
  /\ \E pos \in nShuffle .. Len(addrman.vRandom) : addrman' = SwapRandom(addrman, nShuffle, pos)
  /\ nShuffle' = IF nShuffle = nNodes THEN 0 ELSE nShuffle + 1

Next ==
  \/ \E ip \in NetAddr, port \in Port, source \in Source : Add(ip, port, source)
  \/ \E ip \in NetAddr, port \in Port : Good(ip, port)
  \/ GetAddr \/ GetAddrNext

Spec == Init /\ [][Next]_vars

-----------------------------------------------------------------------------
Tried(t) == {nId \in DOMAIN t.mapInfo : t.mapInfo[nId].fInTried}
New(t) == DOMAIN t.mapInfo \ Tried(t)

TypeOK ==
  /\ addrman.nIdCount \in 0 .. MaxId
  /\ DOMAIN addrman.mapInfo \subseteq 0 .. addrman.nIdCount - 1
  /\ addrman.mapInfo \in [DOMAIN addrman.mapInfo -> Info]
  /\ addrman.mapAddr \in [DOMAIN addrman.mapAddr -> DOMAIN addrman.mapInfo]
  /\ DOMAIN addrman.mapAddr \subseteq NetAddr
  /\ addrman.vRandom \in Seq(DOMAIN addrman.mapInfo)
  /\ addrman.nTried \in Nat /\ addrman.nNew \in Nat
  /\ addrman.vvTried \in [TriedBuckets -> SUBSET DOMAIN addrman.mapInfo]
  /\ addrman.vvNew \in [NewBuckets -> SUBSET DOMAIN addrman.mapInfo]
  /\ nShuffle \in Nat

(* The checks of Check_ (addrman.cpp 435-491) by what they are about.      *)
CountsOK(t) ==
  /\ Len(t.vRandom) = t.nTried + t.nNew
  /\ t.nTried = Cardinality(Tried(t)) /\ t.nNew = Cardinality(New(t))

AddressesOK(t) == \A nId \in DOMAIN t.mapInfo :
  t.mapInfo[nId].ip \in DOMAIN t.mapAddr /\ t.mapAddr[t.mapInfo[nId].ip] = nId

RandomOK(t) == \A nId \in DOMAIN t.mapInfo :
  t.mapInfo[nId].nRandomPos \in DOMAIN t.vRandom /\ t.vRandom[t.mapInfo[nId].nRandomPos] = nId

TriedOK(t) ==
  /\ \A nId \in Tried(t) :
       t.mapInfo[nId].nRefCount = 0 /\ \E b \in TriedBuckets : nId \in t.vvTried[b]
  /\ \A b \in TriedBuckets : t.vvTried[b] \subseteq Tried(t)
  /\ \A b, c \in TriedBuckets : b # c => t.vvTried[b] \cap t.vvTried[c] = {}

NewOK(t) ==
  /\ \A nId \in New(t) :
       /\ t.mapInfo[nId].nRefCount \in 1 .. BucketsPerAddress
       /\ t.mapInfo[nId].nRefCount = Cardinality(Buckets(t, nId))
  /\ \A b \in NewBuckets : t.vvNew[b] \subseteq New(t)

(* Check_ finds nothing: the counts, the two indices, the random order and *)
(* the buckets describe the same set of addresses, after any calls.        *)
(* Select_ relies on it not to look for ever in an empty table, and every  *)
(* method not to follow an id that is gone.                                *)
Consistent ==
  /\ CountsOK(addrman) /\ AddressesOK(addrman) /\ RandomOK(addrman)
  /\ TriedOK(addrman) /\ NewOK(addrman)

(* No bucket holds more than its size: "there is certainly place there"    *)
(* (addrman.cpp 251) when an entry comes back from a tried bucket.         *)
BucketsBounded ==
  /\ \A b \in NewBuckets : Cardinality(addrman.vvNew[b]) <= NewBucketSize
  /\ \A b \in TriedBuckets : Cardinality(addrman.vvTried[b]) <= TriedBucketSize

(* "They are never deleted while in the "tried" table, only possibly       *)
(* evicted back to the "new" table" (addrman.h 216), and the table never   *)
(* gets smaller.                                                           *)
TriedNeverDeleted ==
  [][/\ \A nId \in Tried(addrman) :
          nId \in DOMAIN addrman'.mapInfo /\ addrman'.mapInfo[nId].ip = addrman.mapInfo[nId].ip
     /\ addrman'.nTried >= addrman.nTried]_vars
=============================================================================
