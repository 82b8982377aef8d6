------------------------------ MODULE AddrDump ------------------------------
(***************************************************************************)
(* The address manager with its file peers.dat (src/src/addrman.h          *)
(* 255-378, db.cpp 723-815): every hundred seconds and at the end it is    *)
(* written to a temporary file that then replaces the old one; when the    *)
(* process starts, in whatever way it had ended, the file is read.         *)
(* Only the "new" buckets are written; ids, both indices, the random order *)
(* and the "tried" buckets are made anew.                                  *)
(***************************************************************************)
EXTENDS AddrMan, Ordering, FiniteSetsExt

CONSTANTS
  NoFile,
  MaxRestarts  \* bound on the starts after the first

ASSUME AddrDumpAssumption == NewBuckets \subseteq Nat /\ MaxRestarts \in Nat

VARIABLES
  temporary, \* the file being written
  peers,     \* peers.dat
  restarts

dumpVars == <<addrman, nShuffle, temporary, peers, restarts>>

-----------------------------------------------------------------------------
Entry(t, nId) ==
  [ip |-> t.mapInfo[nId].ip, port |-> t.mapInfo[nId].port, source |-> t.mapInfo[nId].source]

Index(t, nId) == Cardinality(Before(New(t), nId))

(* An entry of each kind in the order of ids; a bucket names its elements  *)
(* by their place among the new entries.                                   *)
Serialize(t) ==
  [new |-> [k \in 1 .. t.nNew |-> Entry(t, Sorted(New(t))[k])],
   tried |-> [k \in 1 .. t.nTried |-> Entry(t, Sorted(Tried(t))[k])],
   buckets |-> [b \in NewBuckets |-> {Index(t, nId) : nId \in t.vvNew[b]}]]

TriedBucket(e) == TriedBucketOf[<<e.ip, e.port>>]

(* The tried entries that find a place in their bucket.                    *)
Placed(f) ==
  {k \in DOMAIN f.tried :
     Cardinality({j \in 1 .. k - 1 : TriedBucket(f.tried[j]) = TriedBucket(f.tried[k])})
       < TriedBucketSize}

RefsOfBuckets(f, n) == 1  \* mutant: every new entry gets one reference
Refs(f, n) ==
  Cardinality({b \in NewBuckets :
    n \in f.buckets[b] /\ Cardinality({c \in NewBuckets : c < b /\ n \in f.buckets[c]}) < BucketsPerAddress})

Unserialize(f) ==
  LET nNew == Len(f.new)
      placed == Sorted(Placed(f))
      nIds == nNew + Len(placed)
      EntryOf(n) == IF n < nNew THEN f.new[n + 1] ELSE f.tried[placed[n - nNew + 1]]
      Loaded(n) ==
        [ip |-> EntryOf(n).ip, port |-> EntryOf(n).port, source |-> EntryOf(n).source,
         fInTried |-> n >= nNew, nRefCount |-> IF n < nNew THEN Refs(f, n) ELSE 0,
         nRandomPos |-> n + 1]
  IN [nIdCount |-> nIds,
      mapInfo |-> [n \in 0 .. nIds - 1 |-> Loaded(n)],
      mapAddr |-> [a \in {EntryOf(n).ip : n \in 0 .. nIds - 1} |->
                     Max({n \in 0 .. nIds - 1 : EntryOf(n).ip = a})],
      vRandom |-> [k \in 1 .. nIds |-> k - 1],
      nTried |-> Len(placed),
      nNew |-> nNew,
      vvTried |-> [b \in TriedBuckets |->
                     {n \in nNew .. nIds - 1 : TriedBucket(EntryOf(n)) = b}],
      vvNew |-> f.buckets]

-----------------------------------------------------------------------------
DumpInit == Init /\ temporary = NoFile /\ peers = NoFile /\ restarts = 0

Methods ==
  /\ Next
  /\ UNCHANGED <<temporary, peers, restarts>>

WriteTemporary ==
  /\ nShuffle = 0 /\ temporary = NoFile /\ temporary' = Serialize(addrman)
  /\ UNCHANGED <<addrman, nShuffle, peers, restarts>>

RenameOver ==
  /\ temporary # NoFile /\ temporary' = NoFile /\ peers' = temporary
  /\ UNCHANGED <<addrman, nShuffle, restarts>>

(* A restart after a crash or an orderly end, which dumps first.           *)
Restart ==
  /\ restarts < MaxRestarts /\ restarts' = restarts + 1
  /\ addrman' = IF peers = NoFile THEN Empty ELSE Unserialize(peers)
  /\ nShuffle' = 0 /\ temporary' = NoFile
  /\ UNCHANGED peers

DumpNext == Methods \/ WriteTemporary \/ RenameOver \/ Restart

DumpSpec == DumpInit /\ [][DumpNext]_dumpVars

-----------------------------------------------------------------------------
(* What a bucket or table holds, whatever ids it goes by.                  *)
Named(t, S) == {Entry(t, nId) : nId \in S}

(* What is written now is what a restart finds: the same addresses in the  *)
(* same buckets and the same tables, and no check of Check_ fails.         *)
SurvivesRestart ==
  nShuffle = 0 =>
    LET t == Unserialize(Serialize(addrman))
    IN /\ CountsOK(t) /\ AddressesOK(t) /\ RandomOK(t) /\ TriedOK(t) /\ NewOK(t)
       /\ \A b \in NewBuckets : Named(t, t.vvNew[b]) = Named(addrman, addrman.vvNew[b])
       /\ \A b \in TriedBuckets : Named(t, t.vvTried[b]) = Named(addrman, addrman.vvTried[b])
=============================================================================
