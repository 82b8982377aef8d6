-------------------------- MODULE WalletFileProofs --------------------------
(***************************************************************************)
(* What the wallet's file promises, for any number of threads, keys and    *)
(* database files: the keys and the pool in it (KeyPool), and the use      *)
(* counts of the environment that holds it (DbEnv); and that an unlocked   *)
(* wallet has somebody who will lock it again (WalletLock).                *)
(*                                                                         *)
(* FileInv is about the wallet file and holds always: every key ever made  *)
(* is in the file, in one form, and one record at most leads to it.        *)
(*                                                                         *)
(* IInv is about the pool and holds of a pool of one key or more until the *)
(* wallet is encrypted.  Its heart is TopInMemory: the greatest index of   *)
(* the file is one that nobody has taken.  A new key gets the index after  *)
(* it, which is therefore in nobody's hands either.                        *)
(*                                                                         *)
(* EnvInv is about the environment.  HandlesLive is not inductive: that a  *)
(* file with count 0 is in nobody's hands is why it may be closed, and     *)
(* that is what CountsExact adds: a file's count is the number of its      *)
(* users, and Rewrite's own use.                                           *)
(*                                                                         *)
(* LockInv is about the threads of walletpassphrase.  RelockPending needs  *)
(* UnlockTimeKept, as a thread that finds a time set leaves the locking to *)
(* whoever sleeps, and ChangeOK, as ChangeWalletPassphrase unlocks again   *)
(* what it saw unlocked.                                                   *)
(***************************************************************************)
EXTENDS KeyPool, WalletLock, DbEnv, FiniteSetTheorems, TLAPS

JobTypes == [op : {"idle", "topup", "take", "encrypt", "clear", "generate"},
             by : Caller \cup {"nobody"}, key : 0 .. MaxKeys, keys : SUBSET Nat]
Jobs == {j \in JobTypes : j.op \in {"idle", "topup", "encrypt"}}
Reserve == [nIndex : Int, vchPubKey : 0 .. MaxKeys]

-----------------------------------------------------------------------------
(* The file                                                                *)

AllTypes ==
  /\ setKeyPool \in SUBSET Nat
  /\ reserve \in [Thread -> Reserve]
  /\ fLocked \in BOOLEAN
  /\ job \in JobTypes
  /\ Records \in SUBSET Nat /\ pool \in [Records -> 1 .. nKeys]
  /\ mkey \in BOOLEAN
  /\ nKeys \in 0 .. MaxKeys /\ kept \in SUBSET (1 .. nKeys)

(* Whatever a thread holds came from a record.                             *)
HeldReal ==
  \A t \in Holding : reserve[t].nIndex \in Nat /\ reserve[t].vchPubKey \in 1 .. nKeys

(* Every key is in the file, in the form that the master key calls for.    *)
Saved ==
  /\ mkey = TRUE => crypted = 1 .. nKeys /\ plain = {}
  /\ mkey = FALSE => plain = 1 .. nKeys /\ crypted = {}

EncryptsOnce == job.op = "encrypt" => mkey = FALSE /\ job.keys \subseteq plain

(* One record leads to a key, that of the index its thread has, and none   *)
(* to a key that was kept.                                                 *)
OneRecord ==
  /\ \A i, j \in Records : pool[i] = pool[j] => i = j
  /\ \A i \in Records : pool[i] \notin kept
  /\ \A i \in Records, t \in Holding :
       pool[i] = reserve[t].vchPubKey => i = reserve[t].nIndex

(* A key without an index is nobody's yet.                                 *)
NothingAhead ==
  /\ job.key \in 0 .. nKeys /\ job.key \notin kept
  /\ \A i \in Records : pool[i] # job.key
  /\ \A t \in Holding : reserve[t].vchPubKey # job.key

FileInv == AllTypes /\ HeldReal /\ Saved /\ EncryptsOnce /\ OneRecord /\ NothingAhead

-----------------------------------------------------------------------------
(* The pool before the wallet is encrypted                                 *)

FileTypes ==
  /\ Records \in SUBSET Nat /\ IsFiniteSet(Records)
  /\ pool \in [Records -> 1 .. nKeys]
  /\ nKeys \in 0 .. MaxKeys /\ kept \in SUBSET (1 .. nKeys)
  /\ plain = 1 .. nKeys /\ crypted = {} /\ mkey = FALSE

Types ==
  /\ setKeyPool \in SUBSET Nat /\ IsFiniteSet(setKeyPool)
  /\ reserve \in [Thread -> Reserve]
  /\ job \in Jobs
  /\ fLocked = FALSE
  /\ FileTypes

AllRecorded == setKeyPool \subseteq Records

TopInMemory == \E m \in setKeyPool : \A i \in Records : i <= m

(* A record's key is its own, and so is the key without one yet.           *)
KeysApart ==
  /\ \A i, j \in Records : i # j => pool[i] # pool[j]
  /\ \A i \in Records : pool[i] # job.key /\ pool[i] \notin kept
  /\ job.key <= nKeys /\ job.key \notin kept

(* What a thread holds is a record of the file that is not in memory.      *)
HeldInFile ==
  \A t \in Holding :
    /\ reserve[t].nIndex \in Records \ setKeyPool
    /\ pool[reserve[t].nIndex] = reserve[t].vchPubKey

HeldApart ==
  \A t, u \in Holding : t # u => reserve[t].nIndex # reserve[u].nIndex

IInv ==
  /\ Types /\ AllRecorded /\ TopInMemory
  /\ KeysApart /\ HeldInFile /\ HeldApart

-----------------------------------------------------------------------------
(* Small facts about records, apart from the sets the other steps are about. *)
LEMMA RecordFacts ==
  /\ Idle \in Jobs /\ Idle.key = 0 /\ Idle.op = "idle" /\ NoReserve \in Reserve
  /\ Jobs \subseteq JobTypes
<1>1. 0 \in 0 .. MaxKeys BY KeyPoolAssumption
<1>2. Idle \in Jobs BY <1>1 DEF Idle, Job, Jobs, JobTypes, NoKey
<1>3. Idle.key = 0 /\ Idle.op = "idle" BY DEF Idle, Job, NoKey
<1>4. NoReserve \in Reserve BY <1>1 DEF NoReserve, Reserve, NoKey
<1> QED BY <1>2, <1>3, <1>4 DEF Jobs

LEMMA JobCalled ==
  ASSUME NEW op \in {"topup", "take", "encrypt", "clear"}, NEW by \in Caller \cup {"nobody"}
  PROVE  /\ Job(op, by) \in JobTypes
         /\ Job(op, by).key = 0 /\ Job(op, by).op = op /\ Job(op, by).keys = {}
<1>1. 0 \in 0 .. MaxKeys BY KeyPoolAssumption
<1> QED BY <1>1 DEF Job, JobTypes, NoKey

LEMMA JobWithKey ==
  ASSUME NEW j \in JobTypes, NEW k \in 0 .. MaxKeys
  PROVE  /\ [j EXCEPT !.key = k] \in JobTypes
         /\ [j EXCEPT !.key = k].key = k /\ [j EXCEPT !.key = k].op = j.op
BY DEF JobTypes

LEMMA ReserveOf ==
  ASSUME NEW i \in Int, NEW k \in 0 .. MaxKeys
  PROVE  [nIndex |-> i, vchPubKey |-> k] \in Reserve
BY DEF Reserve

-----------------------------------------------------------------------------
(* The file                                                                *)

(* Whatever only takes records, reservations or the key without an index   *)
(* away keeps the rest as it was.                                          *)
LEMMA LessKeepsFileInv ==
  ASSUME FileInv, Saved', EncryptsOnce', mkey' \in BOOLEAN, nKeys' = nKeys,
         Records' \subseteq Records, pool' \in [Records' -> 1 .. nKeys],
         \A i \in Records' : pool'[i] = pool[i] /\ pool'[i] \notin kept',
         setKeyPool' \in SUBSET Nat, fLocked' \in BOOLEAN,
         job' \in JobTypes, job'.key \in {0, job.key}, job'.key \notin kept',
         reserve' \in [Thread -> Reserve],
         \A t \in Holding' : t \in Holding /\ reserve'[t] = reserve[t],
         kept' \in SUBSET (1 .. nKeys)
  PROVE  FileInv'
<1>1. AllTypes' BY DEF FileInv, AllTypes
<1>2. HeldReal' BY DEF FileInv, HeldReal
<1>3. OneRecord' BY DEF FileInv, OneRecord
<1>4. NothingAhead'
  <2>1. nKeys \in Nat BY KeyPoolAssumption DEF FileInv, AllTypes
  <2>2. \A i \in Records' : pool'[i] # 0 BY <2>1
  <2>3. \A t \in Holding' : reserve'[t].vchPubKey # 0 BY <2>1 DEF FileInv, HeldReal
  <2> QED BY <2>1, <2>2, <2>3 DEF FileInv, NothingAhead
<1> QED BY <1>1, <1>2, <1>3, <1>4 DEF FileInv

(* Most steps leave the file as it is.                                     *)
LEMMA SameFile ==
  ASSUME FileInv, UNCHANGED <<file, nKeys, kept>>, EncryptsOnce',
         setKeyPool' \in SUBSET Nat, fLocked' \in BOOLEAN,
         job' \in JobTypes, job'.key \in {0, job.key},
         reserve' \in [Thread -> Reserve],
         \A t \in Holding' : t \in Holding /\ reserve'[t] = reserve[t]
  PROVE  FileInv'
<1>1. Records' = Records /\ pool' = pool /\ UNCHANGED <<plain, crypted, mkey, nKeys, kept>>
  BY DEF file, Records
<1>2. Saved' BY <1>1 DEF FileInv, Saved
<1>3. 0 \notin kept /\ job.key \notin kept BY DEF FileInv, AllTypes, NothingAhead
<1>4. pool' \in [Records' -> 1 .. nKeys] /\ mkey' \in BOOLEAN /\ kept' \in SUBSET (1 .. nKeys)
  BY <1>1 DEF FileInv, AllTypes
<1>5. \A i \in Records' : pool'[i] = pool[i] /\ pool'[i] \notin kept'
  BY <1>1 DEF FileInv, OneRecord
<1> QED BY <1>1, <1>2, <1>3, <1>4, <1>5, LessKeepsFileInv

LEMMA GenerateNewKeyFileInv ==
  ASSUME FileInv, GenerateNewKey
  PROVE  FileInv'
<1>1. /\ nKeys' = nKeys + 1 /\ nKeys \in Nat /\ nKeys + 1 \in 0 .. MaxKeys
      /\ UNCHANGED <<setKeyPool, reserve, fLocked, pool, mkey, kept>>
      /\ Records' = Records /\ Holding' = Holding
  BY KeyPoolAssumption DEF FileInv, AllTypes, GenerateNewKey, Records, Holding
<1>2. job' \in JobTypes /\ job'.key = nKeys + 1 /\ job'.op = job.op
  BY <1>1, JobWithKey DEF FileInv, AllTypes, GenerateNewKey
<1>3. AllTypes'
  <2>1. pool' \in [Records' -> 1 .. nKeys'] BY <1>1 DEF FileInv, AllTypes
  <2>2. kept' \in SUBSET (1 .. nKeys') BY <1>1 DEF FileInv, AllTypes
  <2> QED BY <1>1, <1>2, <2>1, <2>2 DEF FileInv, AllTypes
<1>4. HeldReal' BY <1>1 DEF FileInv, HeldReal
<1>5. Saved'
  <2>1. (1 .. nKeys) \cup {nKeys + 1} = 1 .. nKeys + 1 BY <1>1
  <2>2. CASE mkey = TRUE
    BY <1>1, <2>1, <2>2 DEF GenerateNewKey, IsCrypted, FileInv, Saved
  <2>3. CASE mkey = FALSE
    BY <1>1, <2>1, <2>3 DEF GenerateNewKey, IsCrypted, FileInv, Saved
  <2> QED BY <2>2, <2>3 DEF FileInv, AllTypes
<1>6. EncryptsOnce' BY <1>2 DEF EncryptsOnce, GenerateNewKey, MoreKeys
<1>7. OneRecord' BY <1>1 DEF FileInv, OneRecord
<1>8. NothingAhead'
  <2>1. \A i \in Records : pool[i] \in 1 .. nKeys BY DEF FileInv, AllTypes
  <2>2. \A t \in Holding : reserve[t].vchPubKey \in 1 .. nKeys BY DEF FileInv, HeldReal
  <2>3. nKeys + 1 \notin kept BY <1>1 DEF FileInv, AllTypes
  <2> QED BY <1>1, <1>2, <2>1, <2>2, <2>3 DEF NothingAhead
<1> QED BY <1>3, <1>4, <1>5, <1>6, <1>7, <1>8 DEF FileInv

(* A record that is written over has no claim left: its key was reserved.  *)
LEMMA WritePoolFileInv ==
  ASSUME FileInv, WritePool
  PROVE  FileInv'
<1>1. PICK n \in 1 .. MaxKeys + 1 :
        /\ pool' = [i \in Records \cup {n} |-> IF i = n THEN job.key ELSE pool[i]]
        /\ setKeyPool' = setKeyPool \cup {n}
  BY DEF WritePool
<1>2. /\ UNCHANGED <<reserve, fLocked, plain, crypted, mkey, nKeys, kept>>
      /\ Holding' = Holding /\ nKeys \in Nat /\ n \in Nat
  BY KeyPoolAssumption DEF WritePool, Holding, FileInv, AllTypes
<1>3. Records' = Records \cup {n} BY <1>1 DEF Records
<1>4. pool'[n] = job.key /\ \A i \in Records' \ {n} : i \in Records /\ pool'[i] = pool[i]
  BY <1>1, <1>3
<1>5. job.key \in 1 .. nKeys BY <1>2 DEF FileInv, NothingAhead, WritePool, NoKey
<1>6. job' \in JobTypes /\ job'.key = 0 /\ job'.op = job.op
  <2>1. 0 \in 0 .. MaxKeys BY KeyPoolAssumption
  <2> QED BY <2>1, JobWithKey DEF FileInv, AllTypes, WritePool, NoKey
<1>7. AllTypes'
  <2>1. pool' \in [Records' -> 1 .. nKeys'] BY <1>1, <1>2, <1>3, <1>5 DEF FileInv, AllTypes
  <2>2. Records' \in SUBSET Nat /\ setKeyPool' \in SUBSET Nat
    BY <1>1, <1>2, <1>3 DEF FileInv, AllTypes
  <2> QED BY <1>2, <1>6, <2>1, <2>2 DEF FileInv, AllTypes
<1>8. HeldReal' /\ Saved' BY <1>2 DEF FileInv, HeldReal, Saved
<1>9. EncryptsOnce' BY <1>6 DEF EncryptsOnce, WritePool
<1>10. OneRecord' BY <1>2, <1>3, <1>4 DEF FileInv, OneRecord, NothingAhead
<1>11. NothingAhead'
  <2>1. \A i \in Records' : pool'[i] \in 1 .. nKeys BY <1>7, <1>2 DEF AllTypes
  <2>2. \A t \in Holding : reserve[t].vchPubKey \in 1 .. nKeys BY DEF FileInv, HeldReal
  <2>3. 0 \notin kept BY DEF FileInv, AllTypes
  <2> QED BY <1>2, <1>6, <2>1, <2>2, <2>3 DEF NothingAhead
<1> QED BY <1>7, <1>8, <1>9, <1>10, <1>11 DEF FileInv

LEMMA TakeFileInv ==
  ASSUME FileInv, NEW i \in setKeyPool, Take(i)
  PROVE  FileInv'
<1>1. i \in Records /\ i \in Nat /\ job.by \in Thread /\ pool[i] \in 1 .. nKeys /\ nKeys \in Nat
  BY KeyPoolAssumption DEF Take, FileInv, AllTypes
<1>2. /\ setKeyPool' = setKeyPool \ {i} /\ Records' = Records /\ job' = Idle
      /\ reserve' = [reserve EXCEPT ![job.by] = [nIndex |-> i, vchPubKey |-> pool[i]]]
      /\ UNCHANGED <<fLocked, pool, plain, crypted, mkey, nKeys, kept>>
  BY DEF Take, file, Records
<1>3. AllTypes'
  <2>1. nKeys \in 0 .. MaxKeys BY DEF FileInv, AllTypes
  <2>2. pool[i] \in 0 .. MaxKeys BY <1>1, <2>1, KeyPoolAssumption
  <2>3. reserve' \in [Thread -> Reserve]
    BY <1>1, <1>2, <2>2, ReserveOf DEF FileInv, AllTypes
  <2>4. setKeyPool' \in SUBSET Nat BY <1>2 DEF FileInv, AllTypes
  <2> QED BY <1>2, <2>3, <2>4, RecordFacts DEF FileInv, AllTypes
<1>4. ASSUME NEW t \in Holding'
      PROVE  \/ reserve'[t].nIndex = i /\ reserve'[t].vchPubKey = pool[i]
             \/ t \in Holding /\ reserve'[t] = reserve[t]
  <2>1. t \in Thread /\ reserve'[t] # NoReserve BY DEF Holding
  <2> QED BY <1>1, <1>2, <2>1 DEF Holding, FileInv, AllTypes
<1>5. HeldReal' BY <1>1, <1>2, <1>4 DEF FileInv, HeldReal
<1>6. Saved' BY <1>2 DEF FileInv, Saved
<1>7. EncryptsOnce' BY <1>2, RecordFacts DEF EncryptsOnce
<1>8. OneRecord' BY <1>1, <1>2, <1>4 DEF FileInv, OneRecord
<1>9. NothingAhead'
  <2>1. job'.key = 0 BY <1>2, RecordFacts
  <2>2. \A j \in Records : pool[j] \in 1 .. nKeys BY DEF FileInv, AllTypes
  <2>3. \A t \in Holding' : reserve'[t].vchPubKey \in 1 .. nKeys BY <1>5, <1>2 DEF HeldReal
  <2>4. 0 \notin kept BY DEF FileInv, AllTypes
  <2> QED BY <1>1, <1>2, <2>1, <2>2, <2>3, <2>4 DEF NothingAhead
<1> QED BY <1>3, <1>5, <1>6, <1>7, <1>8, <1>9 DEF FileInv

(* A key is kept together with its only record.                            *)
LEMMA TakeAndKeepFileInv ==
  ASSUME FileInv, NEW i \in setKeyPool, TakeAndKeep(i)
  PROVE  FileInv'
<1>1. /\ i \in Records /\ setKeyPool' = setKeyPool \ {i} /\ job' = Idle
      /\ kept' = kept \cup {pool[i]} /\ pool' = [j \in Records \ {i} |-> pool[j]]
      /\ UNCHANGED <<reserve, fLocked, plain, crypted, mkey, nKeys>>
  BY DEF TakeAndKeep, Without
<1>2. Records' = Records \ {i} BY <1>1 DEF Records
<1>3. pool[i] \in 1 .. nKeys /\ nKeys \in Nat BY <1>1, KeyPoolAssumption DEF FileInv, AllTypes
<1>4. \A j \in Records' : pool'[j] = pool[j] /\ pool'[j] \notin kept'
  BY <1>1, <1>2 DEF FileInv, OneRecord
<1>5. pool' \in [Records' -> 1 .. nKeys] BY <1>1, <1>2 DEF FileInv, AllTypes
<1>6. kept' \in SUBSET (1 .. nKeys) /\ 0 \notin kept'
  <2>1. kept \in SUBSET (1 .. nKeys) BY DEF FileInv, AllTypes
  <2>2. kept' \in SUBSET (1 .. nKeys) BY <1>1, <1>3, <2>1
  <2> QED BY <1>3, <2>2
<1>7. Saved' BY <1>1 DEF FileInv, Saved
<1>8. EncryptsOnce' BY <1>1, RecordFacts DEF EncryptsOnce
<1>9. Holding' = Holding BY <1>1 DEF Holding
<1>10. job' \in JobTypes /\ job'.key = 0 BY <1>1, RecordFacts
<1> QED BY <1>1, <1>2, <1>4, <1>5, <1>6, <1>7, <1>8, <1>9, <1>10, LessKeepsFileInv
     DEF FileInv, AllTypes

(* The record of a key a thread keeps is at its index, if there is one.    *)
LEMMA KeepKeyFileInv ==
  ASSUME FileInv, NEW t \in Thread, KeepKey(t)
  PROVE  FileInv'
<1> DEFINE k == reserve[t].vchPubKey
           i == reserve[t].nIndex
<1>1. /\ t \in Holding /\ kept' = kept \cup {k} /\ pool' = [j \in Records \ {i} |-> pool[j]]
      /\ reserve' = [reserve EXCEPT ![t] = NoReserve]
      /\ UNCHANGED <<setKeyPool, fLocked, job, plain, crypted, mkey, nKeys>>
  BY DEF KeepKey, Without
<1>2. Records' = Records \ {i} BY <1>1 DEF Records
<1>3. k \in 1 .. nKeys /\ k # job.key BY <1>1 DEF FileInv, HeldReal, NothingAhead
<1>4. \A j \in Records' : pool'[j] = pool[j] /\ pool'[j] \notin kept'
  BY <1>1, <1>2 DEF FileInv, OneRecord
<1>5. pool' \in [Records' -> 1 .. nKeys] BY <1>1, <1>2 DEF FileInv, AllTypes
<1>6. kept' \in SUBSET (1 .. nKeys) BY <1>1, <1>3 DEF FileInv, AllTypes
<1>7. Saved' /\ EncryptsOnce' BY <1>1 DEF FileInv, Saved, EncryptsOnce
<1>8. reserve' \in [Thread -> Reserve] BY <1>1, RecordFacts DEF FileInv, AllTypes
<1>9. \A u \in Holding' : u \in Holding /\ reserve'[u] = reserve[u]
  BY <1>1 DEF Holding, FileInv, AllTypes
<1>10. job.key \notin kept' BY <1>1, <1>3 DEF FileInv, NothingAhead
<1> HIDE DEF k, i
<1> QED BY <1>1, <1>2, <1>4, <1>5, <1>6, <1>7, <1>8, <1>9, <1>10, LessKeepsFileInv
     DEF FileInv, AllTypes

LEMMA ReturnKeyFileInv ==
  ASSUME FileInv, NEW t \in Thread, ReturnKey(t)
  PROVE  FileInv'
<1>1. /\ t \in Holding /\ setKeyPool' = setKeyPool \cup {reserve[t].nIndex}
      /\ reserve' = [reserve EXCEPT ![t] = NoReserve]
      /\ UNCHANGED <<fLocked, job, file, nKeys, kept>>
  BY DEF ReturnKey
<1>2. setKeyPool' \in SUBSET Nat BY <1>1 DEF FileInv, AllTypes, HeldReal
<1>3. reserve' \in [Thread -> Reserve] BY <1>1, RecordFacts DEF FileInv, AllTypes
<1>4. \A u \in Holding' : u \in Holding /\ reserve'[u] = reserve[u]
  BY <1>1 DEF Holding, FileInv, AllTypes
<1>5. EncryptsOnce' BY <1>1 DEF FileInv, EncryptsOnce, file
<1> QED BY <1>1, <1>2, <1>3, <1>4, <1>5, SameFile DEF FileInv, AllTypes

(* The steps that leave reservations and file alone.                       *)
LEMMA JobFileInv ==
  ASSUME FileInv, UNCHANGED <<reserve, file, nKeys, kept>>, EncryptsOnce',
         setKeyPool' \in SUBSET Nat, fLocked' \in BOOLEAN,
         job' \in JobTypes, job'.key \in {0, job.key}
  PROVE  FileInv'
BY SameFile DEF FileInv, AllTypes, Holding

LEMMA RestartFileInv ==
  ASSUME FileInv, Restart
  PROVE  FileInv'
<1>1. reserve' \in [Thread -> Reserve] BY RecordFacts DEF Restart
<1>2. Holding' = {} BY DEF Holding, Restart
<1>3. setKeyPool' \in SUBSET Nat /\ fLocked' \in BOOLEAN /\ UNCHANGED <<file, nKeys, kept>>
  BY DEF Restart, FileInv, AllTypes, IsCrypted
<1>4. EncryptsOnce' BY RecordFacts DEF EncryptsOnce, Restart
<1>5. job' \in JobTypes /\ job'.key = 0 BY RecordFacts DEF Restart
<1> QED BY <1>1, <1>2, <1>3, <1>4, <1>5, SameFile

(* The commit turns all keys at once.                                      *)
LEMMA TxnCommitFileInv ==
  ASSUME FileInv, TxnCommit
  PROVE  FileInv'
<1>1. mkey = FALSE /\ job.keys = plain /\ plain = 1 .. nKeys /\ crypted = {}
  BY DEF TxnCommit, FileInv, EncryptsOnce, Saved
<1>2. /\ mkey' = TRUE /\ crypted' = 1 .. nKeys /\ plain' = {}
      /\ UNCHANGED <<setKeyPool, reserve, fLocked, pool, nKeys, kept>>
  BY <1>1 DEF TxnCommit
<1>3. Saved' BY <1>2 DEF Saved
<1>4. "nobody" \in Caller \cup {"nobody"} OBVIOUS
<1>5. job' \in JobTypes /\ job'.key = 0 /\ job'.op = "clear" BY <1>4, JobCalled DEF TxnCommit
<1>6. EncryptsOnce' BY <1>5 DEF EncryptsOnce
<1>7. Records' = Records /\ Holding' = Holding BY <1>2 DEF Records, Holding
<1>8. 0 \notin kept /\ \A i \in Records : pool[i] \notin kept
  BY DEF FileInv, AllTypes, OneRecord
<1> QED BY <1>2, <1>3, <1>5, <1>6, <1>7, <1>8, LessKeepsFileInv DEF FileInv, AllTypes

LEMMA ErasePoolFileInv ==
  ASSUME FileInv, NEW i \in setKeyPool, ErasePool(i)
  PROVE  FileInv'
<1>1. /\ pool' = [j \in Records \ {i} |-> pool[j]] /\ setKeyPool' = setKeyPool \ {i}
      /\ UNCHANGED <<reserve, fLocked, job, plain, crypted, mkey, nKeys, kept>>
  BY DEF ErasePool, Without
<1>2. Records' = Records \ {i} BY <1>1 DEF Records
<1>3. pool' \in [Records' -> 1 .. nKeys] BY <1>1, <1>2 DEF FileInv, AllTypes
<1>4. \A j \in Records' : pool'[j] = pool[j] /\ pool'[j] \notin kept'
  BY <1>1, <1>2 DEF FileInv, OneRecord
<1>5. Saved' /\ EncryptsOnce' BY <1>1 DEF FileInv, Saved, EncryptsOnce
<1>6. Holding' = Holding BY <1>1 DEF Holding
<1>7. job.key \notin kept BY DEF FileInv, NothingAhead
<1> QED BY <1>1, <1>2, <1>3, <1>4, <1>5, <1>6, <1>7, LessKeepsFileInv DEF FileInv, AllTypes

(* FileInv is inductive.                                                   *)
LEMMA NextFileInv ==
  ASSUME FileInv, [Next]_vars
  PROVE  FileInv'
<1>1. ASSUME NEW by \in Caller, Call(by) PROVE FileInv'
  <2>1. PICK op \in {"take", "topup"} : job' = Job(op, by) BY <1>1 DEF Call
  <2>2. job' \in JobTypes /\ job'.key = 0 /\ job'.op # "encrypt" BY <2>1, JobCalled
  <2>3. UNCHANGED <<setKeyPool, reserve, fLocked, file, nKeys, kept>> BY <1>1 DEF Call
  <2>4. EncryptsOnce' BY <2>2 DEF EncryptsOnce
  <2> QED BY <2>2, <2>3, <2>4, JobFileInv DEF FileInv, AllTypes
<1>2. ASSUME job' = Idle, setKeyPool' \in SUBSET Nat, fLocked' \in BOOLEAN,
             UNCHANGED <<reserve, file, nKeys, kept>>
      PROVE  FileInv'
  <2>1. job' \in JobTypes /\ job'.key = 0 BY <1>2, RecordFacts
  <2>2. EncryptsOnce' BY <1>2, RecordFacts DEF EncryptsOnce
  <2> QED BY <1>2, <2>1, <2>2, JobFileInv
<1>3. CASE GenerateFails BY <1>2, <1>3 DEF GenerateFails, FileInv, AllTypes
<1>4. CASE Leave BY <1>2, <1>4 DEF Leave, FileInv, AllTypes
<1>5. ASSUME NEW i \in setKeyPool, ReadFails(i) PROVE FileInv'
  BY <1>2, <1>5 DEF ReadFails, FileInv, AllTypes
<1>6. CASE EncryptDone BY <1>2, <1>6 DEF EncryptDone, FileInv, AllTypes
<1>7. CASE EncryptWallet
  <2>1. /\ UNCHANGED <<setKeyPool, reserve, fLocked, file, nKeys, kept>> /\ mkey' = FALSE
        /\ job' = Job("encrypt", "nobody")
    BY <1>7 DEF EncryptWallet, IsCrypted, file, FileInv, AllTypes
  <2>2. job' \in JobTypes /\ job'.key = 0 /\ job'.keys = {} BY <2>1, JobCalled
  <2>3. EncryptsOnce' BY <2>1, <2>2 DEF EncryptsOnce
  <2> QED BY <2>1, <2>2, <2>3, JobFileInv DEF FileInv, AllTypes
<1>8. ASSUME NEW k \in plain, WriteCryptedKey(k) PROVE FileInv'
  <2>1. /\ UNCHANGED <<setKeyPool, reserve, fLocked, file, nKeys, kept>> /\ job.op = "encrypt"
        /\ job' = [job EXCEPT !.keys = @ \cup {k}]
    BY <1>8 DEF WriteCryptedKey
  <2>2. job \in JobTypes /\ mkey = FALSE /\ job.keys \subseteq plain /\ plain = 1 .. nKeys /\ k \in Nat
    BY <2>1, KeyPoolAssumption DEF FileInv, AllTypes, EncryptsOnce, Saved
  <2>3. job' \in JobTypes /\ job'.key = job.key /\ job'.keys = job.keys \cup {k}
    BY <2>1, <2>2 DEF JobTypes
  <2>4. EncryptsOnce' BY <2>1, <2>2, <2>3 DEF EncryptsOnce, file
  <2> QED BY <2>1, <2>3, <2>4, JobFileInv DEF FileInv, AllTypes
<1>9. CASE BeginGenerate
  <2>1. /\ UNCHANGED <<setKeyPool, reserve, fLocked, file, nKeys, kept>>
        /\ job' = [job EXCEPT !.op = "generate"]
    BY <1>9 DEF BeginGenerate
  <2>2. job' \in JobTypes /\ job'.key = job.key /\ job'.op = "generate"
    BY <2>1 DEF FileInv, AllTypes, JobTypes
  <2>3. EncryptsOnce' BY <2>2 DEF EncryptsOnce
  <2> QED BY <2>1, <2>2, <2>3, JobFileInv DEF FileInv, AllTypes
<1>10. CASE Unlock \/ Lock
  <2>1. fLocked' \in BOOLEAN /\ UNCHANGED <<setKeyPool, reserve, job, file, nKeys, kept>>
    BY <1>10 DEF Unlock, Lock
  <2>2. EncryptsOnce' BY <2>1 DEF EncryptsOnce, FileInv, file
  <2> QED BY <2>1, <2>2, JobFileInv DEF FileInv, AllTypes
<1>11. CASE UNCHANGED vars
  <2>1. UNCHANGED <<setKeyPool, reserve, fLocked, job, file, nKeys, kept>>
    BY <1>11 DEF vars, memory
  <2>2. EncryptsOnce' BY <2>1 DEF EncryptsOnce, FileInv, file
  <2> QED BY <2>1, <2>2, JobFileInv DEF FileInv, AllTypes
<1> QED BY <1>1, <1>3, <1>4, <1>5, <1>6, <1>7, <1>8, <1>9, <1>10, <1>11,
           GenerateNewKeyFileInv, WritePoolFileInv, TakeFileInv, TakeAndKeepFileInv,
           KeepKeyFileInv, ReturnKeyFileInv, RestartFileInv, TxnCommitFileInv, ErasePoolFileInv
     DEF Next, PoolNext

LEMMA AlwaysFileInv == Spec => []FileInv
<1>1. Init => FileInv
  <2> SUFFICES ASSUME Init PROVE FileInv OBVIOUS
  <2>1. nKeys = KeyPoolSize + 1 /\ nKeys \in Nat /\ nKeys \in 0 .. MaxKeys
    BY KeyPoolAssumption DEF Init
  <2>2. Records = 2 .. nKeys /\ Holding = {} /\ \A i \in Records : pool[i] = i
    BY DEF Init, Records, Holding
  <2>3. AllTypes
    <3>1. pool \in [Records -> 1 .. nKeys] BY <2>1, <2>2 DEF Init
    <3>2. reserve \in [Thread -> Reserve] /\ job \in JobTypes BY RecordFacts DEF Init
    <3>3. setKeyPool \in SUBSET Nat /\ Records \in SUBSET Nat BY <2>1, <2>2 DEF Init
    <3>4. kept \in SUBSET (1 .. nKeys) BY <2>1, KeyPoolAssumption DEF Init
    <3> QED BY <2>1, <3>1, <3>2, <3>3, <3>4 DEF AllTypes, Init
  <2>4. OneRecord BY <2>1, <2>2 DEF OneRecord, Init
  <2>5. NothingAhead BY <2>1, <2>2, RecordFacts DEF NothingAhead, Init
  <2>6. EncryptsOnce BY RecordFacts DEF EncryptsOnce, Init
  <2> QED BY <2>2, <2>3, <2>4, <2>5, <2>6 DEF FileInv, HeldReal, Saved, Init
<1>2. FileInv /\ [Next]_vars => FileInv' BY NextFileInv
<1> QED BY <1>1, <1>2, PTL DEF Spec

(* The state has its types, whether the wallet is encrypted or not.        *)
THEOREM TypeCorrect == Spec => []TypeOK
<1>1. ASSUME FileInv PROVE TypeOK
  <2>1. 1 .. nKeys \subseteq 1 .. MaxKeys BY <1>1, KeyPoolAssumption DEF FileInv, AllTypes
  <2>2. pool \in [Records -> 1 .. MaxKeys] BY <1>1, <2>1 DEF FileInv, AllTypes
  <2>3. plain \in SUBSET (1 .. nKeys) /\ crypted \in SUBSET (1 .. nKeys)
    BY <1>1 DEF FileInv, AllTypes, Saved
  <2> QED BY <1>1, <2>2, <2>3 DEF TypeOK, FileInv, AllTypes, JobTypes, Reserve
<1> QED BY <1>1, AlwaysFileInv, PTL

(* Whatever leads to a key, in the file, in a thread's hands or given out, *)
(* the key is in the file, in the one form that the master key calls for,  *)
(* wherever the process ended (wallet.cpp 246-275, 1477).                  *)
THEOREM KeysStaySaved == Spec => []KeysSaved
<1>1. ASSUME FileInv PROVE KeysSaved
  <2>1. ASSUME NEW k \in {pool[i] : i \in Records} \cup kept \cup {reserve[t].vchPubKey : t \in Holding}
        PROVE  k \in 1 .. nKeys
    BY <1>1, <2>1 DEF FileInv, AllTypes, HeldReal
  <2>2. (IF mkey THEN crypted \ plain ELSE plain \ crypted) = 1 .. nKeys
    <3>1. CASE mkey = TRUE BY <1>1, <3>1 DEF FileInv, Saved
    <3>2. CASE mkey = FALSE BY <1>1, <3>2 DEF FileInv, Saved
    <3> QED BY <1>1, <3>1, <3>2 DEF FileInv, AllTypes
  <2> QED BY <2>1, <2>2 DEF KeysSaved
<1> QED BY <1>1, AlwaysFileInv, PTL

(* No record of the file leads back to a key that was kept (wallet.cpp     *)
(* 1498-1507), so no restart brings one back either; not even when records *)
(* are erased and their indices used again while threads hold keys.        *)
THEOREM KeysAreKeptForGood == Spec => []KeptForGood
<1>1. FileInv => KeptForGood BY DEF FileInv, OneRecord, KeptForGood
<1> QED BY <1>1, AlwaysFileInv, PTL

-----------------------------------------------------------------------------
(* The pool before the wallet is encrypted                                 *)

(* Two keys are in memory when one is taken, so the greatest is not it.    *)
LEMMA TopStays ==
  ASSUME Types, AllRecorded, TopInMemory, KeyPoolSize # 0, Ready,
         NEW i \in setKeyPool, Oldest(i)
  PROVE  \E m \in setKeyPool \ {i} : \A j \in Records : j <= m
<1>1. PICK m \in setKeyPool : \A j \in Records : j <= m BY DEF TopInMemory
<1>2. ASSUME m = i PROVE FALSE
  <2>1. \A j \in setKeyPool : i <= j /\ j <= i
    BY <1>1, <1>2 DEF Oldest, AllRecorded
  <2>2. \A j \in setKeyPool : j = i BY <2>1 DEF Types, FileTypes
  <2>3. setKeyPool = {i} BY <2>2
  <2>4. Cardinality(setKeyPool) = 1 BY <2>3, FS_Singleton
  <2>5. ~(Cardinality(setKeyPool) < KeyPoolSize + 1)
    BY DEF Ready, MoreKeys, Types, Jobs, JobTypes
  <2> QED BY <2>4, <2>5, KeyPoolAssumption
<1> QED BY <1>1, <1>2

(* The invariant holds of the wallet init.cpp makes.                       *)
LEMMA InitIInv ==
  ASSUME KeyPoolSize # 0, Init
  PROVE  IInv
<1> USE KeyPoolAssumption
<1>1. Records = 2 .. nKeys /\ setKeyPool = 2 .. nKeys /\ nKeys \in Nat /\ nKeys >= 2
  <2>1. nKeys = KeyPoolSize + 1 BY DEF Init
  <2>2. KeyPoolSize \in Nat BY KeyPoolAssumption
  <2> QED BY <2>1, <2>2 DEF Init, Records
<1>2. IsFiniteSet(2 .. nKeys) BY <1>1, FS_Interval
<1>3. Types
  <2>1. reserve \in [Thread -> Reserve] /\ job \in Jobs BY RecordFacts DEF Init
  <2> QED BY <1>1, <1>2, <2>1 DEF Init, Types, FileTypes
<1>4. TopInMemory
  <2>1. nKeys \in setKeyPool /\ \A i \in Records : i <= nKeys BY <1>1
  <2> QED BY <2>1 DEF TopInMemory
<1>5. KeysApart BY <1>1 DEF Init, KeysApart, Idle, Job, NoKey
<1>6. Holding = {} BY DEF Init, Holding
<1> QED BY <1>1, <1>3, <1>4, <1>5, <1>6 DEF IInv, AllRecorded, HeldInFile, HeldApart

(* A call only takes the lock, and a key that fails to come changes less.  *)
LEMMA CallIInv ==
  ASSUME IInv, NEW by \in Caller, Call(by)
  PROVE  IInv'
<1>1. job' \in Jobs /\ job'.key = 0
  <2>1. job' = Job("topup", by) BY DEF IInv, Types, Call
  <2> QED BY <2>1, JobCalled DEF Jobs
<1>2. Types' BY <1>1 DEF IInv, Types, FileTypes, Call, file, Records
<1>3. KeysApart' BY <1>1 DEF IInv, Types, FileTypes, KeysApart, Call, file, Records
<1> QED BY <1>2, <1>3
     DEF IInv, Call, AllRecorded, TopInMemory, HeldInFile, HeldApart, Holding, Records, file

(* A key that was just generated is no record's and nobody's.              *)
LEMMA GenerateNewKeyIInv ==
  ASSUME IInv, GenerateNewKey
  PROVE  IInv'
<1> USE KeyPoolAssumption
<1>1. Types'
  <2>1. job.key = 0 /\ nKeys + 1 \in 0 .. MaxKeys /\ job' = [job EXCEPT !.key = nKeys + 1]
    BY DEF IInv, GenerateNewKey, Types, FileTypes, NoKey
  <2>2. job' \in Jobs BY <2>1, JobWithKey DEF IInv, Types, FileTypes, Jobs
  <2>3. /\ nKeys' = nKeys + 1 /\ plain' = plain \cup {nKeys + 1}
        /\ UNCHANGED <<setKeyPool, reserve, fLocked, pool, mkey, crypted, kept>>
    BY DEF IInv, GenerateNewKey, Types, FileTypes, IsCrypted
  <2>4. nKeys \in Nat /\ nKeys' \in 0 .. MaxKeys BY <2>1, <2>3 DEF IInv, Types, FileTypes
  <2>5. plain' = 1 .. nKeys' /\ kept' \in SUBSET (1 .. nKeys')
    BY <2>3, <2>4 DEF IInv, Types, FileTypes
  <2>6. pool' \in [Records' -> 1 .. nKeys'] BY <2>3, <2>4 DEF IInv, Types, FileTypes, Records
  <2>7. Records' = Records BY <2>3 DEF Records
  <2> QED BY <2>2, <2>3, <2>4, <2>5, <2>6, <2>7 DEF IInv, Types, FileTypes
<1>2. KeysApart'
  <2>1. \A i \in Records : pool[i] \in 1 .. nKeys BY DEF IInv, Types, FileTypes
  <2>2. job'.key = nKeys + 1 BY DEF IInv, GenerateNewKey, Types, FileTypes
  <2> QED BY <2>1, <2>2 DEF IInv, GenerateNewKey, Types, FileTypes, KeysApart, Records
<1> QED BY <1>1, <1>2
     DEF IInv, GenerateNewKey, AllRecorded, TopInMemory, HeldInFile, HeldApart, Holding, Records

(* The new record's index is one that neither the file nor a thread has.   *)
LEMMA WritePoolIInv ==
  ASSUME IInv, WritePool
  PROVE  IInv'
<1> USE KeyPoolAssumption
<1>1. PICK n \in 1 .. MaxKeys + 1 :
        /\ IsEnd(n)
        /\ pool' = [i \in Records \cup {n} |-> IF i = n THEN job.key ELSE pool[i]]
        /\ setKeyPool' = setKeyPool \cup {n}
  BY DEF WritePool
<1>2. \A i \in Records : i < n
  <2>1. PICK top \in setKeyPool : \A i \in Records : i <= top BY DEF IInv, TopInMemory
  <2>2. PICK m \in setKeyPool : n = m + 1 /\ \A i \in setKeyPool : i <= m
    BY <1>1, <2>1 DEF IsEnd
  <2>3. top <= m /\ m \in Nat /\ top \in Nat BY <2>2, <2>1 DEF IInv, Types, FileTypes
  <2> QED BY <2>1, <2>2, <2>3 DEF IInv, Types, FileTypes
<1>3. n \notin Records BY <1>2
<1>4. Records' = Records \cup {n} BY <1>1 DEF Records
<1>5. /\ \A i \in Records : pool'[i] = pool[i]
      /\ pool'[n] = job.key
  BY <1>1, <1>3
<1>6. job.key \in 1 .. nKeys /\ job' = [job EXCEPT !.key = 0]
  <2>1. job.key \in 0 .. MaxKeys /\ job.key <= nKeys /\ nKeys \in Nat
    BY DEF IInv, Types, FileTypes, Jobs, JobTypes, KeysApart
  <2>2. job.key # 0 /\ job' = [job EXCEPT !.key = 0] BY DEF WritePool, NoKey
  <2> QED BY <2>1, <2>2
<1>7. UNCHANGED <<reserve, fLocked, plain, crypted, mkey, nKeys, kept>>
  BY DEF WritePool
<1>8. Types'
  <2>1. IsFiniteSet(setKeyPool') /\ IsFiniteSet(Records')
    BY <1>1, <1>4, FS_AddElement DEF IInv, Types, FileTypes
  <2>2. pool' \in [Records' -> 1 .. nKeys]
    BY <1>1, <1>4, <1>6 DEF IInv, Types, FileTypes
  <2>3. Records' \in SUBSET Nat /\ setKeyPool' \in SUBSET Nat
    BY <1>1, <1>4 DEF IInv, Types, FileTypes
  <2>4. job' \in Jobs
    <3>1. job \in Jobs /\ job \in JobTypes BY DEF IInv, Types, Jobs
    <3>2. 0 \in 0 .. MaxKeys BY KeyPoolAssumption
    <3> QED BY <1>6, <3>1, <3>2, JobWithKey DEF Jobs
  <2> QED BY <2>1, <2>2, <2>3, <2>4, <1>7 DEF IInv, Types, FileTypes
<1>9. AllRecorded' BY <1>1, <1>4 DEF IInv, AllRecorded
<1>10. TopInMemory'
  <2>1. n \in setKeyPool' BY <1>1
  <2>2. \A i \in Records' : i <= n BY <1>2, <1>4 DEF IInv, Types, FileTypes
  <2> QED BY <2>1, <2>2 DEF TopInMemory
<1>11. KeysApart'
  <2>1. job'.key = 0 BY <1>6 DEF IInv, Types, FileTypes
  <2>2. \A i \in Records' : pool'[i] # 0 /\ pool'[i] \notin kept
    BY <1>4, <1>5, <1>6 DEF IInv, Types, FileTypes, KeysApart
  <2>3. \A i, j \in Records' : i # j => pool'[i] # pool'[j]
    BY <1>3, <1>4, <1>5 DEF IInv, KeysApart
  <2> QED BY <2>1, <2>2, <2>3, <1>7 DEF IInv, Types, FileTypes, KeysApart
<1>12. HeldInFile' /\ HeldApart'
  BY <1>1, <1>3, <1>4, <1>5, <1>7 DEF IInv, HeldInFile, HeldApart, Holding
<1> QED BY <1>8, <1>9, <1>10, <1>11, <1>12 DEF IInv

(* What Take and TakeAndKeep leave in memory.                              *)
LEMMA TakenFromMemory ==
  ASSUME IInv, NEW i \in setKeyPool
  PROVE  /\ setKeyPool \ {i} \in SUBSET Nat
         /\ IsFiniteSet(setKeyPool \ {i})
         /\ setKeyPool \ {i} \subseteq Records
BY FS_RemoveElement DEF IInv, Types, FileTypes, AllRecorded

LEMMA TakeIInv ==
  ASSUME IInv, KeyPoolSize # 0, NEW i \in setKeyPool, Take(i)
  PROVE  IInv'
<1> USE KeyPoolAssumption
<1>1. i \in Records /\ job.by \in Thread /\ pool[i] \in 1 .. nKeys /\ i \in Nat
  BY DEF Take, IInv, Types, FileTypes
<1>2. /\ setKeyPool' = setKeyPool \ {i} /\ Records' = Records /\ pool' = pool
      /\ reserve' = [reserve EXCEPT ![job.by] = [nIndex |-> i, vchPubKey |-> pool[i]]]
      /\ job' = Idle
  BY DEF Take, file, Records
<1>3. Types'
  <2>1. reserve' \in [Thread -> Reserve]
    <3>1. [nIndex |-> i, vchPubKey |-> pool[i]] \in Reserve
      BY <1>1, ReserveOf DEF IInv, Types, FileTypes
    <3> QED BY <1>1, <1>2, <3>1 DEF IInv, Types, FileTypes
  <2> QED BY <1>1, <1>2, <2>1, TakenFromMemory, RecordFacts
       DEF IInv, Types, FileTypes, Take, file
<1>4. TopInMemory' BY <1>2, TopStays DEF TopInMemory, IInv, Take
<1>5. AllRecorded' BY <1>2, TakenFromMemory DEF AllRecorded
<1>6. KeysApart' BY <1>2 DEF IInv, Types, FileTypes, KeysApart, Take, Idle, Job, NoKey
<1>7. ASSUME NEW t \in Holding'
      PROVE  \/ t = job.by /\ reserve'[t] = [nIndex |-> i, vchPubKey |-> pool[i]]
             \/ t \in Holding /\ t # job.by /\ reserve'[t] = reserve[t]
  <2>1. t \in Thread /\ reserve'[t] # NoReserve BY DEF Holding
  <2> QED BY <1>1, <1>2, <2>1 DEF Holding, IInv, Types
<1>8. HeldInFile' BY <1>1, <1>2, <1>7 DEF IInv, HeldInFile
<1>9. HeldApart'
  BY <1>7 DEF IInv, HeldInFile, HeldApart
<1> QED BY <1>3, <1>4, <1>5, <1>6, <1>8, <1>9 DEF IInv

(* A record goes only with its key: kept keys have none.                   *)
LEMMA TakeAndKeepIInv ==
  ASSUME IInv, KeyPoolSize # 0, NEW i \in setKeyPool, TakeAndKeep(i)
  PROVE  IInv'
<1> USE KeyPoolAssumption
<1>1. i \in Records /\ pool[i] \in 1 .. nKeys BY DEF TakeAndKeep, IInv, Types, FileTypes
<1>2. Records' = Records \ {i} /\ \A j \in Records' : pool'[j] = pool[j]
  BY DEF TakeAndKeep, Without, Records
<1>3. setKeyPool' = setKeyPool \ {i} /\ kept' = kept \cup {pool[i]} /\ job' = Idle
  BY DEF TakeAndKeep
<1>4. IsFiniteSet(Records') BY <1>2, FS_RemoveElement DEF IInv, Types, FileTypes
<1>5. pool' \in [Records' -> 1 .. nKeys]
  BY <1>2 DEF IInv, Types, FileTypes, TakeAndKeep, Without, Records
<1>6. Types'
  <2>1. Records' \in SUBSET Nat /\ kept' \in SUBSET (1 .. nKeys)
    BY <1>1, <1>2, <1>3 DEF IInv, Types, FileTypes
  <2> QED BY <1>3, <1>4, <1>5, <2>1, TakenFromMemory, RecordFacts
       DEF IInv, Types, FileTypes, TakeAndKeep
<1>7. TopInMemory'
  <2>1. Ready /\ Oldest(i) BY DEF TakeAndKeep
  <2> QED BY <1>2, <1>3, <2>1, TopStays DEF TopInMemory, IInv
<1>8. AllRecorded' BY <1>2, <1>3 DEF IInv, AllRecorded
<1>9. KeysApart'
  <2>1. job'.key = 0 BY <1>3, RecordFacts
  <2>5. \A j \in Records : pool[j] # 0 BY DEF IInv, Types, FileTypes
  <2>2. \A j \in Records' : pool'[j] \notin kept' BY <1>1, <1>2, <1>3 DEF IInv, KeysApart
  <2>3. 0 \notin kept' BY <1>1, <1>3 DEF IInv, Types, FileTypes
  <2>4. 0 <= nKeys' BY DEF IInv, Types, FileTypes, TakeAndKeep
  <2> QED BY <1>2, <2>1, <2>2, <2>3, <2>4, <2>5 DEF IInv, KeysApart
<1>10. HeldInFile' /\ HeldApart'
  BY <1>2, <1>3 DEF IInv, HeldInFile, HeldApart, Holding, TakeAndKeep
<1> QED BY <1>6, <1>7, <1>8, <1>9, <1>10 DEF IInv

LEMMA KeepKeyIInv ==
  ASSUME IInv, NEW t \in Thread, KeepKey(t)
  PROVE  IInv'
<1> USE KeyPoolAssumption
<1> DEFINE i == reserve[t].nIndex
<1>1. t \in Holding /\ i \in Records \ setKeyPool /\ pool[i] = reserve[t].vchPubKey
  BY DEF KeepKey, IInv, HeldInFile
<1>2. Records' = Records \ {i} /\ \A j \in Records' : pool'[j] = pool[j]
  BY DEF KeepKey, Without, Records
<1>3. /\ reserve' = [reserve EXCEPT ![t] = NoReserve] /\ kept' = kept \cup {pool[i]}
      /\ setKeyPool' = setKeyPool /\ job' = job
  BY <1>1 DEF KeepKey
<1>4. IsFiniteSet(Records') BY <1>2, FS_RemoveElement DEF IInv, Types, FileTypes
<1>5. pool' \in [Records' -> 1 .. nKeys]
  BY <1>2 DEF IInv, Types, FileTypes, KeepKey, Without, Records
<1>6. pool[i] \in 1 .. nKeys /\ pool[i] # job.key BY <1>1 DEF IInv, Types, FileTypes, KeysApart
<1>7. Types'
  <2>1. Records' \in SUBSET Nat /\ kept' \in SUBSET (1 .. nKeys)
    BY <1>2, <1>3, <1>6 DEF IInv, Types, FileTypes
  <2>2. reserve' \in [Thread -> Reserve] BY <1>3, RecordFacts DEF IInv, Types, FileTypes
  <2> QED BY <1>3, <1>4, <1>5, <2>1, <2>2 DEF IInv, Types, FileTypes, KeepKey
<1>8. AllRecorded' /\ TopInMemory'
  BY <1>1, <1>2, <1>3 DEF IInv, AllRecorded, TopInMemory
<1>9. KeysApart'
  <2>1. \A j \in Records' : pool'[j] = pool[j] /\ j \in Records /\ pool[j] # pool[i]
    BY <1>1, <1>2 DEF IInv, KeysApart
  <2>2. nKeys' = nKeys BY DEF KeepKey
  <2> QED BY <1>3, <1>6, <2>1, <2>2 DEF IInv, KeysApart
<1>10. Holding' = Holding \ {t} /\ \A u \in Holding' : reserve'[u] = reserve[u]
  BY <1>3 DEF Holding, IInv, Types, FileTypes
<1>11. HeldInFile' /\ HeldApart'
  BY <1>1, <1>2, <1>3, <1>10 DEF IInv, HeldInFile, HeldApart
<1> QED BY <1>7, <1>8, <1>9, <1>11 DEF IInv

(* An index that comes back is not above the greatest.                     *)
LEMMA ReturnKeyIInv ==
  ASSUME IInv, NEW t \in Thread, ReturnKey(t)
  PROVE  IInv'
<1> USE KeyPoolAssumption
<1> DEFINE i == reserve[t].nIndex
<1>1. t \in Holding /\ i \in Records BY DEF ReturnKey, IInv, HeldInFile
<1>2. /\ setKeyPool' = setKeyPool \cup {i} /\ Records' = Records /\ pool' = pool
      /\ reserve' = [reserve EXCEPT ![t] = NoReserve] /\ job' = job
  BY DEF ReturnKey, file, Records
<1>3. IsFiniteSet(setKeyPool') /\ setKeyPool' \in SUBSET Nat
  BY <1>1, <1>2, FS_AddElement DEF IInv, Types, FileTypes
<1>4. Types'
  <2>1. reserve' \in [Thread -> Reserve] BY <1>2, RecordFacts DEF IInv, Types, FileTypes
  <2> QED BY <1>2, <1>3, <2>1 DEF IInv, Types, FileTypes, ReturnKey, file
<1>5. AllRecorded' /\ TopInMemory'
  BY <1>1, <1>2 DEF IInv, AllRecorded, TopInMemory
<1>6. KeysApart' BY <1>2 DEF IInv, KeysApart, ReturnKey
<1>7. Holding' = Holding \ {t} /\ \A u \in Holding' : reserve'[u] = reserve[u]
  BY <1>2 DEF Holding, IInv, Types, FileTypes
<1>8. HeldInFile' /\ HeldApart'
  BY <1>1, <1>2, <1>7 DEF IInv, HeldInFile, HeldApart
<1> QED BY <1>4, <1>5, <1>6, <1>8 DEF IInv

(* The file is all that is left, and its greatest index is free again.     *)
LEMMA RestartIInv ==
  ASSUME IInv, Restart
  PROVE  IInv'
<1>1. Records' = Records /\ setKeyPool' = Records /\ pool' = pool /\ job' = Idle
  BY DEF Restart, Records, file
<1>2. Types' BY <1>1, RecordFacts DEF IInv, Types, FileTypes, Restart, file, IsCrypted
<1>3. AllRecorded' /\ TopInMemory' BY <1>1 DEF IInv, AllRecorded, TopInMemory
<1>4. KeysApart' BY <1>1 DEF IInv, Types, FileTypes, KeysApart, Restart, Idle, Job, NoKey
<1>5. Holding' = {} BY DEF Holding, Restart
<1> QED BY <1>2, <1>3, <1>4, <1>5 DEF IInv, HeldInFile, HeldApart

(* Encrypting changes nothing of the pool before its commit.               *)
LEMMA EncryptIInv ==
  ASSUME IInv, EncryptWallet \/ \E k \in plain : WriteCryptedKey(k)
  PROVE  IInv'
<1>1. UNCHANGED <<setKeyPool, reserve, fLocked, file, nKeys, kept>>
  BY DEF EncryptWallet, WriteCryptedKey
<1>2. job' \in Jobs /\ job'.key \in {0, job.key}
  <2>1. CASE EncryptWallet
    <3>1. job' = Job("encrypt", "nobody") BY <2>1 DEF EncryptWallet
    <3> QED BY <3>1, JobCalled DEF Jobs
  <2>2. ASSUME NEW k \in plain, WriteCryptedKey(k) PROVE job' \in Jobs /\ job'.key = job.key
    <3>1. k \in Nat /\ job' = [job EXCEPT !.keys = @ \cup {k}] /\ job \in Jobs
      BY <2>2, KeyPoolAssumption DEF WriteCryptedKey, IInv, Types, FileTypes
    <3> QED BY <3>1 DEF Jobs, JobTypes
  <2> QED BY <2>1, <2>2
<1>3. Records' = Records /\ pool' = pool /\ UNCHANGED <<plain, crypted, mkey>>
  BY <1>1 DEF file, Records
<1>4. Types' BY <1>1, <1>2, <1>3 DEF IInv, Types, FileTypes
<1>5. KeysApart'
  <2>1. (\A i \in Records : pool[i] # 0) /\ 0 \notin kept /\ 0 <= nKeys
    BY DEF IInv, Types, FileTypes
  <2> QED BY <1>1, <1>2, <1>3, <2>1 DEF IInv, KeysApart
<1> QED BY <1>1, <1>3, <1>4, <1>5
     DEF IInv, AllRecorded, TopInMemory, HeldInFile, HeldApart, Holding

(* The invariant lasts until the master key is written.                    *)
LEMMA NextIInv ==
  ASSUME IInv, KeyPoolSize # 0, [Next]_vars
  PROVE  IInv' \/ mkey' = TRUE
<1>1. CASE UNCHANGED vars
  BY <1>1 DEF vars, memory, file, IInv, Types, FileTypes, AllRecorded, TopInMemory, KeysApart,
              HeldInFile, HeldApart, Holding, Records
<1>2. CASE Leave
  <2>1. Types' BY <1>2, RecordFacts DEF Leave, file, IInv, Types, FileTypes, Records
  <2>2. KeysApart'
    <3>1. job'.key = 0 BY <1>2, RecordFacts DEF Leave
    <3>2. (\A i \in Records : pool[i] # 0) /\ 0 \notin kept /\ 0 <= nKeys
      BY DEF IInv, Types, FileTypes
    <3> QED BY <1>2, <3>1, <3>2 DEF Leave, file, IInv, KeysApart, Records
  <2> QED BY <1>2, <2>1, <2>2
       DEF Leave, file, IInv, AllRecorded, TopInMemory, HeldInFile, HeldApart, Holding, Records
<1>3. CASE TxnCommit BY <1>3 DEF TxnCommit
<1>4. ~Unlock /\ ~Lock /\ ~GenerateFails
  BY DEF Unlock, Lock, GenerateFails, IsCrypted, IInv, Types, FileTypes
<1>5. ~BeginGenerate /\ ~EncryptDone /\ \A i \in setKeyPool : ~ErasePool(i) /\ ~ReadFails(i)
  <2>1. job.op \in {"idle", "topup", "encrypt"} /\ setKeyPool \subseteq Records
    BY DEF IInv, Types, Jobs, AllRecorded
  <2> QED BY <2>1 DEF BeginGenerate, EncryptDone, ErasePool, ReadFails
<1> QED BY <1>1, <1>2, <1>3, <1>4, <1>5, CallIInv, GenerateNewKeyIInv, WritePoolIInv, TakeIInv,
           TakeAndKeepIInv, KeepKeyIInv, ReturnKeyIInv, RestartIInv, EncryptIInv DEF Next, PoolNext

(* An encrypted wallet stays encrypted.                                    *)
LEMMA StaysEncrypted ==
  ASSUME mkey = TRUE, [Next]_vars
  PROVE  mkey' = TRUE
BY DEF Next, PoolNext, vars, memory, file, Call, GenerateNewKey, WritePool, Leave, Take, TakeAndKeep,
       KeepKey, ReturnKey, Restart, EncryptWallet, TxnCommit, BeginGenerate, EncryptDone,
       WriteCryptedKey, ErasePool, ReadFails, Unlock, Lock, GenerateFails

LEMMA UntilEncrypted ==
  ASSUME KeyPoolSize # 0
  PROVE  Spec => [](IInv \/ mkey = TRUE)
<1> DEFINE Inv == IInv \/ mkey = TRUE
<1>1. Init => Inv BY InitIInv
<1>2. Inv /\ [Next]_vars => Inv' BY NextIInv, StaysEncrypted
<1> HIDE DEF Inv
<1>3. Spec => []Inv BY <1>1, <1>2, PTL DEF Spec
<1> QED BY <1>3 DEF Inv

-----------------------------------------------------------------------------
(* No reservation ever finds its record missing (wallet.cpp 1475).         *)
THEOREM PoolIsReadable ==
  ASSUME KeyPoolSize # 0
  PROVE  Spec => []PoolReadable
<1>1. IInv \/ mkey = TRUE => PoolReadable
  BY DEF IInv, AllRecorded, PoolReadable, IsCrypted
<1> QED BY <1>1, UntilEncrypted, PTL

(* Every key has one owner: a thread, the pool, or whoever it was given to *)
(* for good (wallet.cpp 1456-1515, main.cpp 3711).                         *)
THEOREM KeysHaveOneOwner ==
  ASSUME KeyPoolSize # 0
  PROVE  Spec => []OneOwner
<1>1. ASSUME IInv PROVE OneOwner
  <2>1. ThreadsOwnKey
    BY <1>1 DEF ThreadsOwnKey, IInv, HeldInFile, HeldApart, KeysApart
  <2>2. \A t \in Holding : reserve[t].vchPubKey \notin kept
    BY <1>1 DEF IInv, HeldInFile, KeysApart
  <2>3. ASSUME NEW i \in setKeyPool \cap Records, NEW t \in Holding
        PROVE  pool[i] # reserve[t].vchPubKey
    BY <1>1, <2>3 DEF IInv, HeldInFile, KeysApart
  <2>4. \A i \in setKeyPool \cap Records : pool[i] \notin kept
    BY <1>1 DEF IInv, KeysApart
  <2> QED BY <2>1, <2>2, <2>3, <2>4 DEF OneOwner
<1>2. IInv \/ mkey = TRUE => OneOwner BY <1>1 DEF OneOwner, IsCrypted
<1> QED BY <1>2, UntilEncrypted, PTL

-----------------------------------------------------------------------------
(* The database environment                                                *)

Using(t, f) == use[t].at \in {"open", "closing"} /\ use[t].file = f
Users(f) == {t \in DbThread : Using(t, f)}
CopyUse(f) == IF rewriting = "copying" /\ f = wallet THEN 1 ELSE 0

CountsExact == \A f \in File : Count(f) = Cardinality(Users(f)) + CopyUse(f)

(* The rewrite has the wallet to itself.                                   *)
RewriteAlone == rewriting = "copying" => Users(wallet) = {}

Live ==
  \A t \in DbThread :
    /\ use[t].at = "open" => use[t].pdb # Closed /\ use[t].pdb = mapDb[use[t].file]
    /\ use[t].at \in {"open", "closing"} => fDbEnvInit

FilesInOrder ==
  /\ rewriting # "removed" => copy.file = "whole"
  /\ rewriting \in {"copied", "removed"} => copy.rewrite = "whole"

EnvInv == EnvTypeOK /\ CountsExact /\ RewriteAlone /\ Live /\ FilesInOrder

-----------------------------------------------------------------------------
LEMMA HandleFacts == \A h \in Handle : h \in Nat /\ h # Closed
<1>1. Cardinality(DbThread) \in Nat /\ Cardinality(File) \in Nat
  BY FS_CardinalityType, EnvAssumption
<1> QED BY <1>1 DEF Handle, Closed

LEMMA NoUseType == NoUse \in [at : {"out", "locked", "open", "closing"},
                             file : File, pdb : Handle \cup {Closed}]
BY EnvAssumption DEF NoUse

LEMMA UsersFinite ==
  ASSUME NEW f
  PROVE  /\ IsFiniteSet(Users(f)) /\ Cardinality(Users(f)) \in Nat
         /\ Cardinality(Users(f)) = 0 <=> Users(f) = {}
<1>1. IsFiniteSet(Users(f))
  BY FS_Subset, EnvAssumption DEF Users
<1> QED BY <1>1, FS_CardinalityType, FS_EmptySet

(* A file without a count is in nobody's hands.                            *)
LEMMA UnusedByAll ==
  ASSUME CountsExact, NEW f \in File, Unused(f)
  PROVE  \A t \in DbThread : ~Using(t, f)
<1>1. Cardinality(Users(f)) + CopyUse(f) = 0 BY DEF CountsExact, Unused
<1>2. Cardinality(Users(f)) = 0 BY <1>1, UsersFinite DEF CopyUse
<1>3. Users(f) = {} BY <1>2, UsersFinite
<1> QED BY <1>3 DEF Users

LEMMA CountIsNat ==
  ASSUME EnvTypeOK, NEW f \in File
  PROVE  Count(f) \in Nat
BY DEF EnvTypeOK, Count

(* Setting one file's count leaves the others' alone.                      *)
LEMMA CountedCount ==
  ASSUME NEW f \in File, NEW n, mapFileUseCount' = Counted(f, n)
  PROVE  /\ Count(f)' = n
         /\ \A g \in File \ {f} : Count(g)' = Count(g)
<1>1. DOMAIN mapFileUseCount' = DOMAIN mapFileUseCount \cup {f}
  BY DEF Counted
<1>2. \A g \in DOMAIN mapFileUseCount' :
        mapFileUseCount'[g] = IF g = f THEN n ELSE mapFileUseCount[g]
  BY DEF Counted
<1> QED BY <1>1, <1>2 DEF Count

LEMMA CountedType ==
  ASSUME EnvTypeOK, NEW f \in File, NEW n \in Nat, mapFileUseCount' = Counted(f, n)
  PROVE  /\ DOMAIN mapFileUseCount' \subseteq File
         /\ mapFileUseCount' \in [DOMAIN mapFileUseCount' -> Nat]
<1>1. DOMAIN mapFileUseCount' = DOMAIN mapFileUseCount \cup {f}
  BY DEF Counted
<1>2. mapFileUseCount' = [g \in DOMAIN mapFileUseCount' |->
                            IF g = f THEN n ELSE mapFileUseCount[g]]
  BY <1>1 DEF Counted
<1> QED BY <1>1, <1>2 DEF EnvTypeOK

(* Erasing the entries of files with count 0 changes no count.             *)
LEMMA DroppedCount ==
  ASSUME NEW fs, \A f \in fs : Unused(f), mapFileUseCount' = Dropped(fs)
  PROVE  \A g \in File : Count(g)' = Count(g)
<1>1. DOMAIN mapFileUseCount' = DOMAIN mapFileUseCount \ fs
  BY DEF Dropped
<1>2. \A g \in DOMAIN mapFileUseCount' : mapFileUseCount'[g] = mapFileUseCount[g]
  BY DEF Dropped
<1> QED BY <1>1, <1>2 DEF Count, Unused

LEMMA DroppedType ==
  ASSUME EnvTypeOK, NEW fs, mapFileUseCount' = Dropped(fs)
  PROVE  /\ DOMAIN mapFileUseCount' \subseteq File
         /\ mapFileUseCount' \in [DOMAIN mapFileUseCount' -> Nat]
<1>1. DOMAIN mapFileUseCount' = DOMAIN mapFileUseCount \ fs
  BY DEF Dropped
<1>2. mapFileUseCount' = [g \in DOMAIN mapFileUseCount' |-> mapFileUseCount[g]]
  BY <1>1 DEF Dropped
<1> QED BY <1>1, <1>2 DEF EnvTypeOK

LEMMA CountsKept ==
  ASSUME CountsExact, RewriteAlone,
         \A f \in File : Count(f)' = Count(f),
         \A t \in DbThread, f \in File : Using(t, f)' = Using(t, f),
         (rewriting = "copying") = (rewriting' = "copying")
  PROVE  CountsExact' /\ RewriteAlone'
<1>1. \A f \in File : Users(f)' = Users(f) BY DEF Users
<1>2. \A f \in File : CopyUse(f)' = CopyUse(f) BY DEF CopyUse
<1> QED BY <1>1, <1>2, EnvAssumption DEF CountsExact, RewriteAlone

(* Closing files that nobody uses.                                         *)
LEMMA FilesClosed ==
  ASSUME EnvInv, NEW fs \in SUBSET File, \A f \in fs : Unused(f),
         mapDb' = WithoutHandles(fs), mapFileUseCount' = Dropped(fs),
         UNCHANGED <<use, rewriting>>
  PROVE  /\ DOMAIN mapFileUseCount' \subseteq File
         /\ mapFileUseCount' \in [DOMAIN mapFileUseCount' -> Nat]
         /\ mapDb' \in [File -> Handle \cup {Closed}]
         /\ CountsExact' /\ RewriteAlone'
         /\ \A t \in DbThread : use'[t].at = "open" =>
              use'[t].pdb # Closed /\ use'[t].pdb = mapDb'[use'[t].file]
<1>1. CountsExact' /\ RewriteAlone'
  BY DroppedCount, CountsKept DEF EnvInv, Using
<1>2. mapDb' \in [File -> Handle \cup {Closed}]
  BY DEF EnvInv, EnvTypeOK, WithoutHandles
<1>3. ASSUME NEW t \in DbThread, use'[t].at = "open"
      PROVE  use'[t].pdb # Closed /\ use'[t].pdb = mapDb'[use'[t].file]
  <2>1. use[t].file \in File BY DEF EnvInv, EnvTypeOK
  <2>2. Using(t, use[t].file) BY <1>3 DEF Using
  <2>3. use[t].file \notin fs BY <2>1, <2>2, UnusedByAll DEF EnvInv
  <2>4. mapDb'[use[t].file] = mapDb[use[t].file] BY <2>1, <2>3 DEF WithoutHandles
  <2> QED BY <1>3, <2>4 DEF EnvInv, Live
<1> QED BY <1>1, <1>2, <1>3, DroppedType DEF EnvInv

-----------------------------------------------------------------------------
LEMMA EnvInitInv == EnvInit => EnvInv
<1> SUFFICES ASSUME EnvInit PROVE EnvInv OBVIOUS
<1> USE EnvAssumption
<1>1. EnvTypeOK
  <2>1. DOMAIN mapFileUseCount = {} BY DEF EnvInit
  <2>2. mapFileUseCount \in [DOMAIN mapFileUseCount -> Nat] BY <2>1 DEF EnvInit
  <2>3. /\ mapDb \in [File -> Handle \cup {Closed}]
        /\ uses \in [DbThread -> 0 .. MaxUses]
        /\ csWallet \in DbThread \cup {NoThread} /\ inLog \in SUBSET File
    BY DEF EnvInit
  <2>4. use \in [DbThread -> [at : {"out", "locked", "open", "closing"},
                            file : File, pdb : Handle \cup {Closed}]]
    BY NoUseType DEF EnvInit
  <2>5. /\ rewriting = "no" /\ shutdown = "no"
        /\ unflushed \in BOOLEAN /\ fDbEnvInit \in BOOLEAN /\ up \in BOOLEAN
        /\ copy \in [file : {"whole", "none"}, rewrite : {"none", "part", "whole"}]
    BY DEF EnvInit
  <2> QED BY <2>1, <2>2, <2>3, <2>4, <2>5 DEF EnvTypeOK
<1>2. \A f \in File : Count(f) = 0 BY DEF EnvInit, Count
<1>3. \A f \in File : Users(f) = {} BY DEF EnvInit, Users, Using, NoUse
<1>4. \A f \in File : CopyUse(f) = 0 BY DEF EnvInit, CopyUse
<1>5. CountsExact BY <1>2, <1>3, <1>4, UsersFinite DEF CountsExact
<1>6. RewriteAlone /\ Live /\ FilesInOrder
  BY DEF EnvInit, RewriteAlone, Live, FilesInOrder, NoUse
<1> QED BY <1>1, <1>5, <1>6 DEF EnvInv

(* A thread's steps that use no database.                                  *)
LEMMA OutsideSteps ==
  ASSUME EnvInv, NEW t \in DbThread,
         LockWallet(t) \/ UnlockWallet(t) \/ OpenRefused(t) \/ Write(t)
           \/ EncryptWalletDb(t)
  PROVE  EnvInv'
<1> USE EnvAssumption
<1>1. UNCHANGED env
  BY DEF LockWallet, UnlockWallet, OpenRefused, Write, EncryptWalletDb
<1>2. \A u \in DbThread : /\ use'[u].file = use[u].file /\ use'[u].pdb = use[u].pdb
                        /\ \/ use'[u].at = use[u].at
                           \/ {use[u].at, use'[u].at} \subseteq {"out", "locked"}
  BY DEF LockWallet, UnlockWallet, OpenRefused, Write, EncryptWalletDb, GoesTo, At,
         EnvInv, EnvTypeOK
<1>3. \A u \in DbThread, f \in File : Using(u, f)' = Using(u, f)
  BY <1>2 DEF Using
<1>4. UNCHANGED <<copy>> /\ (rewriting' = rewriting \/ (rewriting = "no" /\ rewriting' = "wanted"))
  BY DEF LockWallet, UnlockWallet, OpenRefused, Write, EncryptWalletDb
<1>5. CountsExact' /\ RewriteAlone'
  BY <1>1, <1>3, <1>4, CountsKept DEF EnvInv, Count, env
<1>6. Live' BY <1>1, <1>2 DEF EnvInv, Live, env
<1>7. FilesInOrder' BY <1>4 DEF EnvInv, FilesInOrder
<1>8. EnvTypeOK'
  <2>1. CASE LockWallet(t) \/ UnlockWallet(t)
    BY <2>1 DEF LockWallet, UnlockWallet, GoesTo, EnvInv, EnvTypeOK, env
  <2>2. CASE OpenRefused(t)
    BY <2>2 DEF OpenRefused, MayOpen, EnvInv, EnvTypeOK, env
  <2>3. CASE Write(t)
    BY <2>3 DEF Write, EnvInv, EnvTypeOK, env
  <2>4. CASE EncryptWalletDb(t)
    BY <2>4 DEF EncryptWalletDb, EnvInv, EnvTypeOK, env
  <2> QED BY <2>1, <2>2, <2>3, <2>4
<1> QED BY <1>5, <1>6, <1>7, <1>8 DEF EnvInv

LEMMA OpenStep ==
  ASSUME EnvInv, NEW t \in DbThread, NEW f \in File, OpenDb(t, f)
  PROVE  EnvInv'
<1> USE EnvAssumption
<1>1. PICK pdb \in Handle :
        /\ mapDb[f] # Closed => pdb = mapDb[f]
        /\ mapDb' = [mapDb EXCEPT ![f] = pdb]
        /\ use' = [use EXCEPT ![t] = [at |-> "open", file |-> f, pdb |-> pdb]]
  BY DEF OpenDb
<1>2. rewriting # "copying" /\ rewriting' = rewriting /\ fDbEnvInit /\ fDbEnvInit'
  BY DEF OpenDb, MayOpen, CsDbFree
<1>3. use[t].at \in {"out", "locked"} BY DEF OpenDb, MayOpen, At
<1>4. mapFileUseCount' = Counted(f, Count(f) + 1) BY DEF OpenDb
<1>5. EnvTypeOK'
  <2>1. Count(f) + 1 \in Nat BY CountIsNat DEF EnvInv
  <2>2. use' \in [DbThread -> [at : {"out", "locked", "open", "closing"},
                             file : File, pdb : Handle \cup {Closed}]]
    BY <1>1 DEF EnvInv, EnvTypeOK
  <2>3. mapDb' \in [File -> Handle \cup {Closed}] BY <1>1 DEF EnvInv, EnvTypeOK
  <2>4. uses' \in [DbThread -> 0 .. MaxUses] BY DEF OpenDb, MayOpen, EnvInv, EnvTypeOK
  <2>5. /\ DOMAIN mapFileUseCount' \subseteq File
        /\ mapFileUseCount' \in [DOMAIN mapFileUseCount' -> Nat]
    BY <2>1, <1>4, CountedType DEF EnvInv
  <2> QED BY <2>2, <2>3, <2>4, <2>5 DEF OpenDb, EnvInv, EnvTypeOK
<1>6. CountsExact'
  <2>1. Users(f)' = Users(f) \cup {t} /\ t \notin Users(f)
    BY <1>1, <1>3 DEF Users, Using, EnvInv, EnvTypeOK
  <2>2. \A g \in File \ {f} : Users(g)' = Users(g)
    BY <1>1, <1>3 DEF Users, Using, EnvInv, EnvTypeOK
  <2>3. Cardinality(Users(f)') = Cardinality(Users(f)) + 1
    BY <2>1, UsersFinite, FS_AddElement
  <2>4. \A g \in File : CopyUse(g) = 0 /\ CopyUse(g)' = 0 BY <1>2 DEF CopyUse
  <2>5. /\ Count(f)' = Count(f) + 1
        /\ \A g \in File \ {f} : Count(g)' = Count(g)
    BY <1>4, CountedCount
  <2>6. \A g \in File : Count(g) = Cardinality(Users(g)) + CopyUse(g)
    BY DEF EnvInv, CountsExact
  <2>7. Count(f)' = Cardinality(Users(f)') + CopyUse(f)'
    BY <2>3, <2>4, <2>5, <2>6, UsersFinite
  <2>8. \A g \in File \ {f} : Count(g)' = Cardinality(Users(g)') + CopyUse(g)'
    BY <2>2, <2>4, <2>5, <2>6
  <2> QED BY <2>7, <2>8 DEF CountsExact
<1>7. Live'
  <2> SUFFICES ASSUME NEW u \in DbThread, use'[u].at \in {"open", "closing"}
               PROVE  use'[u].at = "open" =>
                        use'[u].pdb # Closed /\ use'[u].pdb = mapDb'[use'[u].file]
    BY <1>2 DEF Live
  <2>1. CASE u = t
    BY <2>1, <1>1, HandleFacts DEF EnvInv, EnvTypeOK
  <2>2. CASE u # t
    <3>1. use'[u] = use[u] BY <2>2, <1>1 DEF EnvInv, EnvTypeOK
    <3>2. use[u].file \in File BY DEF EnvInv, EnvTypeOK
    <3>3. CASE use[u].at = "open"
      <4>1. use[u].pdb # Closed /\ use[u].pdb = mapDb[use[u].file]
        BY <3>3 DEF EnvInv, Live
      <4>2. mapDb'[use[u].file] = mapDb[use[u].file]
        BY <4>1, <1>1, <3>2 DEF EnvInv, EnvTypeOK
      <4> QED BY <4>1, <4>2, <3>1
    <3> QED BY <3>1, <3>3
  <2> QED BY <2>1, <2>2
<1>8. RewriteAlone' /\ FilesInOrder'
  BY <1>2 DEF OpenDb, EnvInv, RewriteAlone, FilesInOrder
<1> QED BY <1>5, <1>6, <1>7, <1>8 DEF EnvInv

LEMMA OpenFailsStep ==
  ASSUME EnvInv, NEW t \in DbThread, NEW f \in File, OpenFails(t, f)
  PROVE  EnvInv'
<1> USE EnvAssumption
<1>1. \A g \in File : Count(g)' = Count(g) BY CountedCount DEF OpenFails
<1>2. CountsExact' /\ RewriteAlone'
  BY <1>1, CountsKept DEF OpenFails, EnvInv, Using
<1>3. /\ DOMAIN mapFileUseCount' \subseteq File
      /\ mapFileUseCount' \in [DOMAIN mapFileUseCount' -> Nat]
  BY CountedType, CountIsNat DEF OpenFails, EnvInv
<1>4. EnvTypeOK' BY <1>3 DEF OpenFails, MayOpen, EnvInv, EnvTypeOK
<1>5. Live' /\ FilesInOrder' BY DEF OpenFails, EnvInv, Live, FilesInOrder
<1> QED BY <1>2, <1>4, <1>5 DEF EnvInv

LEMMA CloseHandleStep ==
  ASSUME EnvInv, NEW t \in DbThread, CloseHandle(t)
  PROVE  EnvInv'
<1> USE EnvAssumption
<1>1. /\ use[t].at = "open" /\ use' = [use EXCEPT ![t].at = "closing"]
      /\ UNCHANGED <<env, rewriting, copy>>
  BY DEF CloseHandle, At, GoesTo
<1>2. \A u \in DbThread : /\ use'[u].file = use[u].file /\ use'[u].pdb = use[u].pdb
                        /\ use'[u].at = IF u = t THEN "closing" ELSE use[u].at
  BY <1>1 DEF EnvInv, EnvTypeOK
<1>3. \A u \in DbThread, f \in File : Using(u, f)' = Using(u, f)
  BY <1>1, <1>2 DEF Using
<1>4. CountsExact' /\ RewriteAlone'
  BY <1>1, <1>3, CountsKept DEF EnvInv, Count, env
<1>5. Live' BY <1>1, <1>2 DEF EnvInv, Live, env
<1>6. EnvTypeOK' /\ FilesInOrder'
  BY <1>1 DEF CloseHandle, EnvInv, EnvTypeOK, FilesInOrder, env
<1> QED BY <1>4, <1>5, <1>6 DEF EnvInv

LEMMA CloseCountStep ==
  ASSUME EnvInv, NEW t \in DbThread, CloseCount(t)
  PROVE  EnvInv'
<1> USE EnvAssumption
<1> DEFINE place == IF t \in Locker THEN "locked" ELSE "out"
<1>1. PICK f \in File : f = use[t].file BY DEF EnvInv, EnvTypeOK
<1>2. /\ use[t].at = "closing" /\ use' = [use EXCEPT ![t] = [NoUse EXCEPT !.at = place]]
      /\ rewriting # "copying" /\ UNCHANGED <<mapDb, fDbEnvInit, rewriting, copy>>
      /\ mapFileUseCount' = Counted(f, Count(f) - 1)
  BY <1>1 DEF CloseCount, At, CsDbFree
<1>3. [NoUse EXCEPT !.at = place] = [at |-> place, file |-> wallet, pdb |-> Closed]
  BY DEF NoUse
<1>4. t \in Users(f) BY <1>1, <1>2 DEF Users, Using
<1>4a. /\ use'[t].at \in {"out", "locked"}
      /\ \A u \in DbThread \ {t} : use'[u] = use[u]
  BY <1>2, <1>3 DEF EnvInv, EnvTypeOK
<1>5. Users(f)' = Users(f) \ {t}
  BY <1>4a DEF Users, Using
<1>6. \A g \in File \ {f} : Users(g)' = Users(g)
  BY <1>1, <1>4a DEF Users, Using
<1>7. Cardinality(Users(f)') = Cardinality(Users(f)) - 1
  BY <1>4, <1>5, UsersFinite, FS_RemoveElement
<1>8. \A g \in File : CopyUse(g) = 0 /\ CopyUse(g)' = 0 BY <1>2 DEF CopyUse
<1>9. \A g \in File : Count(g) = Cardinality(Users(g)) + CopyUse(g)
  BY DEF EnvInv, CountsExact
<1>10. Count(f) - 1 \in Nat
  <2>1. Users(f) # {} BY <1>4
  <2>2. Cardinality(Users(f)) \in Nat \ {0} BY <2>1, UsersFinite
  <2> QED BY <2>2, <1>1, <1>8, <1>9
<1>11. /\ Count(f)' = Count(f) - 1
       /\ \A g \in File \ {f} : Count(g)' = Count(g)
  BY <1>1, <1>2, CountedCount
<1>12. CountsExact'
  <2>1. Count(f)' = Cardinality(Users(f)') + CopyUse(f)'
    BY <1>1, <1>7, <1>8, <1>9, <1>11, UsersFinite
  <2>2. \A g \in File \ {f} : Count(g)' = Cardinality(Users(g)') + CopyUse(g)'
    BY <1>6, <1>8, <1>9, <1>11
  <2> QED BY <2>1, <2>2 DEF CountsExact
<1>13. EnvTypeOK'
  <2>1. /\ DOMAIN mapFileUseCount' \subseteq File
        /\ mapFileUseCount' \in [DOMAIN mapFileUseCount' -> Nat]
    BY <1>1, <1>2, <1>10, CountedType DEF EnvInv
  <2>2. use' \in [DbThread -> [at : {"out", "locked", "open", "closing"},
                             file : File, pdb : Handle \cup {Closed}]]
    BY <1>2, <1>3 DEF EnvInv, EnvTypeOK
  <2> QED BY <2>1, <2>2 DEF CloseCount, EnvInv, EnvTypeOK
<1>14. Live' BY <1>2, <1>3 DEF EnvInv, EnvTypeOK, Live
<1>15. RewriteAlone' /\ FilesInOrder'
  BY <1>2 DEF EnvInv, RewriteAlone, FilesInOrder
<1> QED BY <1>12, <1>13, <1>14, <1>15 DEF EnvInv

(* The flush thread, a backup and the shutdown close what nobody uses.     *)
LEMMA ClosingSteps ==
  ASSUME EnvInv, ThreadFlushWalletDB \/ BackupWallet \/ Shutdown \/ FlushTrue
  PROVE  EnvInv'
<1> USE EnvAssumption
<1>1. CASE ThreadFlushWalletDB \/ BackupWallet
  <2>1. /\ Unused(wallet) /\ mapDb' = WithoutHandles({wallet})
        /\ mapFileUseCount' = Dropped({wallet})
        /\ UNCHANGED <<use, rewriting, fDbEnvInit, copy>>
    BY <1>1 DEF ThreadFlushWalletDB, BackupWallet
  <2>2. /\ DOMAIN mapFileUseCount' \subseteq File
        /\ mapFileUseCount' \in [DOMAIN mapFileUseCount' -> Nat]
        /\ mapDb' \in [File -> Handle \cup {Closed}]
        /\ CountsExact' /\ RewriteAlone'
        /\ \A t \in DbThread : use'[t].at = "open" =>
             use'[t].pdb # Closed /\ use'[t].pdb = mapDb'[use'[t].file]
    <3>1. {wallet} \in SUBSET File /\ \A f \in {wallet} : Unused(f) BY <2>1
    <3> QED BY <2>1, <3>1, FilesClosed
  <2>3. EnvTypeOK'
    BY <1>1, <2>1, <2>2 DEF ThreadFlushWalletDB, BackupWallet, EnvInv, EnvTypeOK
  <2>4. Live' /\ FilesInOrder' BY <2>1, <2>2 DEF EnvInv, Live, FilesInOrder
  <2> QED BY <2>2, <2>3, <2>4 DEF EnvInv
<1>2. CASE Shutdown \/ FlushTrue
  <2>1. /\ mapDb' = WithoutHandles(UnusedFiles) /\ mapFileUseCount' = Dropped(UnusedFiles)
        /\ UNCHANGED <<use, uses, csWallet, rewriting, unflushed, copy, up>>
        /\ inLog' = inLog \ UnusedFiles
    BY <1>2 DEF Shutdown, FlushTrue, FlushFiles
  <2>2. UnusedFiles \in SUBSET File /\ \A f \in UnusedFiles : Unused(f)
    BY DEF UnusedFiles, EnvInv, EnvTypeOK
  <2>3. /\ DOMAIN mapFileUseCount' \subseteq File
        /\ mapFileUseCount' \in [DOMAIN mapFileUseCount' -> Nat]
        /\ mapDb' \in [File -> Handle \cup {Closed}]
        /\ CountsExact' /\ RewriteAlone'
        /\ \A t \in DbThread : use'[t].at = "open" =>
             use'[t].pdb # Closed /\ use'[t].pdb = mapDb'[use'[t].file]
    BY <2>1, <2>2, FilesClosed
  <2>4. fDbEnvInit' \in BOOLEAN /\ shutdown' \in {"no", "stopping", "flushed"}
    BY <1>2 DEF Shutdown, FlushTrue, EnvInv, EnvTypeOK
  <2>5. EnvTypeOK' BY <2>1, <2>3, <2>4 DEF EnvInv, EnvTypeOK
  <2>6. ASSUME NEW t \in DbThread, use[t].at \in {"open", "closing"}
        PROVE  fDbEnvInit'
    <3>1. use[t].file \in File /\ Using(t, use[t].file)
      BY <2>6 DEF EnvInv, EnvTypeOK, Using
    <3>2. ~Unused(use[t].file) BY <3>1, UnusedByAll DEF EnvInv
    <3>3. use[t].file \in DOMAIN mapFileUseCount /\ use[t].file \notin UnusedFiles
      BY <3>2 DEF Unused, Count, UnusedFiles
    <3>4. CASE Shutdown BY <3>4, <2>6 DEF Shutdown, EnvInv, Live
    <3>5. CASE FlushTrue BY <3>5, <3>3 DEF FlushTrue
    <3> QED BY <1>2, <3>4, <3>5
  <2>7. Live' BY <2>1, <2>3, <2>6 DEF Live
  <2>8. FilesInOrder' BY <2>1 DEF EnvInv, FilesInOrder
  <2> QED BY <2>3, <2>5, <2>7, <2>8 DEF EnvInv
<1> QED BY <1>1, <1>2

LEMMA RewriteBeginsStep ==
  ASSUME EnvInv, RewriteBegins
  PROVE  EnvInv'
<1> USE EnvAssumption
<1>1. PICK pdb \in Handle : mapDb' = [mapDb EXCEPT ![wallet] = pdb]
  BY DEF RewriteBegins
<1>2. /\ mapFileUseCount' = Counted(wallet, 1) /\ Unused(wallet)
      /\ rewriting = "wanted" /\ rewriting' = "copying"
      /\ UNCHANGED <<use, fDbEnvInit>>
      /\ copy' = [copy EXCEPT !.rewrite = "part"]
  BY DEF RewriteBegins
<1>3. \A t \in DbThread : ~Using(t, wallet) BY <1>2, UnusedByAll DEF EnvInv
<1>4. EnvTypeOK'
  <2>1. /\ DOMAIN mapFileUseCount' \subseteq File
        /\ mapFileUseCount' \in [DOMAIN mapFileUseCount' -> Nat]
    BY <1>2, CountedType DEF EnvInv
  <2>2. mapDb' \in [File -> Handle \cup {Closed}] BY <1>1 DEF EnvInv, EnvTypeOK
  <2>3. copy' \in [file : {"whole", "none"}, rewrite : {"none", "part", "whole"}]
    BY <1>2 DEF EnvInv, EnvTypeOK
  <2> QED BY <2>1, <2>2, <2>3 DEF RewriteBegins, EnvInv, EnvTypeOK
<1>5. \A f \in File : Users(f)' = Users(f) BY <1>2 DEF Users, Using
<1>6. Users(wallet) = {} BY <1>3 DEF Users
<1>7. CountsExact'
  <2>1. /\ Count(wallet)' = 1
        /\ \A g \in File \ {wallet} : Count(g)' = Count(g)
    BY <1>2, CountedCount
  <2>2. CopyUse(wallet)' = 1 /\ \A g \in File \ {wallet} : CopyUse(g)' = CopyUse(g)
    BY <1>2 DEF CopyUse
  <2>3. Cardinality(Users(wallet)') = 0 BY <1>5, <1>6, FS_EmptySet
  <2>4. Count(wallet)' = Cardinality(Users(wallet)') + CopyUse(wallet)'
    BY <2>1, <2>2, <2>3
  <2>5. \A g \in File \ {wallet} : Count(g)' = Cardinality(Users(g)') + CopyUse(g)'
    BY <2>1, <2>2, <1>5 DEF EnvInv, CountsExact
  <2> QED BY <2>4, <2>5 DEF CountsExact
<1>8. RewriteAlone' BY <1>5, <1>6 DEF RewriteAlone
<1>9. Live' BY <1>1, <1>2, <1>3 DEF EnvInv, EnvTypeOK, Live, Using
<1>10. FilesInOrder' BY <1>2 DEF EnvInv, EnvTypeOK, FilesInOrder
<1> QED BY <1>4, <1>7, <1>8, <1>9, <1>10 DEF EnvInv

LEMMA CopyEndsStep ==
  ASSUME EnvInv, RewriteCopied \/ RewriteFails
  PROVE  EnvInv'
<1> USE EnvAssumption
<1>1. /\ rewriting = "copying" /\ rewriting' \in {"copied", "done"}
      /\ mapFileUseCount' = Counted(wallet, 0)
      /\ mapDb' = WithoutHandles({wallet}) \/ mapDb' = mapDb
      /\ UNCHANGED <<use, fDbEnvInit>>
  BY DEF RewriteCopied, RewriteFails
<1>2. Users(wallet) = {} BY <1>1 DEF EnvInv, RewriteAlone
<1>3. \A t \in DbThread : ~Using(t, wallet) BY <1>2 DEF Users
<1>4. \A f \in File : Users(f)' = Users(f) BY <1>1 DEF Users, Using
<1>5. EnvTypeOK'
  <2>1. /\ DOMAIN mapFileUseCount' \subseteq File
        /\ mapFileUseCount' \in [DOMAIN mapFileUseCount' -> Nat]
    BY <1>1, CountedType DEF EnvInv
  <2>2. mapDb' \in [File -> Handle \cup {Closed}]
    BY <1>1 DEF EnvInv, EnvTypeOK, WithoutHandles
  <2>3. copy' \in [file : {"whole", "none"}, rewrite : {"none", "part", "whole"}]
    BY DEF RewriteCopied, RewriteFails, EnvInv, EnvTypeOK
  <2> QED BY <1>1, <2>1, <2>2, <2>3 DEF RewriteCopied, RewriteFails, EnvInv, EnvTypeOK
<1>6. CountsExact'
  <2>1. /\ Count(wallet)' = 0
        /\ \A g \in File \ {wallet} : Count(g)' = Count(g)
    BY <1>1, CountedCount
  <2>2. CopyUse(wallet)' = 0 /\ \A g \in File \ {wallet} : CopyUse(g)' = CopyUse(g)
    BY <1>1 DEF CopyUse
  <2>3. Cardinality(Users(wallet)') = 0 BY <1>2, <1>4, FS_EmptySet
  <2>4. Count(wallet)' = Cardinality(Users(wallet)') + CopyUse(wallet)'
    BY <2>1, <2>2, <2>3
  <2>5. \A g \in File \ {wallet} : Count(g)' = Cardinality(Users(g)') + CopyUse(g)'
    BY <2>1, <2>2, <1>4 DEF EnvInv, CountsExact
  <2> QED BY <2>4, <2>5 DEF CountsExact
<1>7. Live'
  BY <1>1, <1>3 DEF EnvInv, EnvTypeOK, Live, Using, WithoutHandles
<1>8. RewriteAlone' BY <1>1 DEF RewriteAlone
<1>9. FilesInOrder' BY DEF RewriteCopied, RewriteFails, EnvInv, EnvTypeOK, FilesInOrder
<1> QED BY <1>5, <1>6, <1>7, <1>8, <1>9 DEF EnvInv

(* The steps that touch files and progress only.                           *)
LEMMA FileSteps ==
  ASSUME EnvInv, RewriteGivesUp \/ RewriteRemoves \/ RewriteRenames \/ Stop
  PROVE  EnvInv'
<1> USE EnvAssumption
<1>1. UNCHANGED <<env, use>> /\ (rewriting' = "copying" <=> rewriting = "copying")
  BY DEF RewriteGivesUp, RewriteRemoves, RewriteRenames, Stop
<1>2. CountsExact' /\ RewriteAlone'
  BY <1>1, CountsKept DEF EnvInv, Using, Count, env
<1>3. Live' BY <1>1 DEF EnvInv, Live, env
<1>4. FilesInOrder'
  BY DEF RewriteGivesUp, RewriteRemoves, RewriteRenames, Stop, EnvInv, EnvTypeOK, FilesInOrder
<1>5. EnvTypeOK'
  <2>1. CASE RewriteGivesUp \/ RewriteRemoves
    BY <2>1 DEF RewriteGivesUp, RewriteRemoves, EnvInv, EnvTypeOK, env
  <2>2. CASE RewriteRenames
    BY <2>2 DEF RewriteRenames, EnvInv, EnvTypeOK, FilesInOrder, env
  <2>3. CASE Stop
    BY <2>3 DEF Stop, EnvInv, EnvTypeOK, env
  <2> QED BY <2>1, <2>2, <2>3
<1> QED BY <1>2, <1>3, <1>4, <1>5 DEF EnvInv

LEMMA StartStep ==
  ASSUME EnvInv, Start
  PROVE  EnvInv'
<1> USE EnvAssumption
<1>1. /\ mapFileUseCount' = << >> /\ mapDb' = [f \in File |-> Closed]
      /\ use' = [t \in DbThread |-> NoUse] /\ fDbEnvInit' = TRUE
      /\ rewriting' \in {"no", "done"} /\ copy' = copy /\ copy.file = "whole"
  BY DEF Start
<1>2. EnvTypeOK'
  <2>1. DOMAIN mapFileUseCount' = {} BY <1>1
  <2>2. mapFileUseCount' \in [DOMAIN mapFileUseCount' -> Nat] BY <1>1, <2>1
  <2>3. mapDb' \in [File -> Handle \cup {Closed}] BY <1>1
  <2>4. use' \in [DbThread -> [at : {"out", "locked", "open", "closing"},
                             file : File, pdb : Handle \cup {Closed}]]
    BY <1>1, NoUseType
  <2>5. /\ unflushed' \in BOOLEAN /\ fDbEnvInit' \in BOOLEAN /\ up' \in BOOLEAN
        /\ shutdown' = "no" /\ csWallet' = NoThread
        /\ UNCHANGED <<uses, inLog, copy>>
    BY DEF Start
  <2> QED BY <1>1, <2>1, <2>2, <2>3, <2>4, <2>5 DEF EnvInv, EnvTypeOK
<1>3. \A f \in File : Count(f)' = 0 BY <1>1 DEF Count
<1>4. \A f \in File : Users(f)' = {} BY <1>1 DEF Users, Using, NoUse
<1>5. \A f \in File : CopyUse(f)' = 0 BY <1>1 DEF CopyUse
<1>6. CountsExact' BY <1>3, <1>4, <1>5, FS_EmptySet DEF CountsExact
<1>7. RewriteAlone' /\ Live' /\ FilesInOrder'
  BY <1>1 DEF RewriteAlone, Live, FilesInOrder, NoUse
<1> QED BY <1>2, <1>6, <1>7 DEF EnvInv

LEMMA EnvNextInv == EnvInv /\ [EnvNext]_envVars => EnvInv'
<1> SUFFICES ASSUME EnvInv, [EnvNext]_envVars PROVE EnvInv' OBVIOUS
<1>1. CASE EnvNext
  <2>1. ASSUME NEW t \in DbThread,
               \/ LockWallet(t) \/ UnlockWallet(t) \/ OpenRefused(t)
               \/ \E f \in File : OpenDb(t, f) \/ OpenFails(t, f)
               \/ Write(t) \/ CloseHandle(t) \/ CloseCount(t) \/ EncryptWalletDb(t)
        PROVE  EnvInv'
    BY <2>1, OutsideSteps, OpenStep, OpenFailsStep, CloseHandleStep, CloseCountStep
  <2>2. CASE ThreadFlushWalletDB \/ BackupWallet \/ Shutdown \/ FlushTrue
    BY <2>2, ClosingSteps
  <2>3. CASE Rewrite
    BY <2>3, FileSteps, RewriteBeginsStep, CopyEndsStep DEF Rewrite
  <2>4. CASE Stop \/ Start BY <2>4, FileSteps, StartStep
  <2> QED BY <1>1, <2>1, <2>2, <2>3, <2>4 DEF EnvNext
<1>2. CASE UNCHANGED envVars
  <2>1. CountsExact' /\ RewriteAlone'
    BY <1>2, CountsKept DEF EnvInv, Using, Count, envVars, env
  <2>2. EnvTypeOK' /\ Live' /\ FilesInOrder'
    BY <1>2 DEF EnvInv, EnvTypeOK, Live, FilesInOrder, envVars, env
  <2> QED BY <2>1, <2>2 DEF EnvInv
<1> QED BY <1>1, <1>2

LEMMA EnvInvariance == EnvSpec => []EnvInv
BY EnvInitInv, EnvNextInv, PTL DEF EnvSpec

-----------------------------------------------------------------------------
(* The environment's variables keep their types: CDB::Close takes back no  *)
(* count that was not taken (db.cpp 202-206).                              *)
THEOREM EnvTypeCorrect == EnvSpec => []EnvTypeOK
<1>1. EnvInv => EnvTypeOK BY DEF EnvInv
<1> QED BY <1>1, EnvInvariance, PTL

(* No thread's handle is closed or replaced while it uses it.              *)
THEOREM HandlesStayLive == EnvSpec => []HandlesLive
<1>1. EnvInv => HandlesLive BY DEF EnvInv, Live, HandlesLive, At
<1> QED BY <1>1, EnvInvariance, PTL

(* At whatever point the rewrite dies, one of the two files is whole.      *)
THEOREM AWholeCopyStays == EnvSpec => []OneWholeCopy
<1>1. EnvInv => OneWholeCopy BY DEF EnvInv, FilesInOrder, OneWholeCopy
<1> QED BY <1>1, EnvInvariance, PTL

(* A backup or a rewrite has every commit, and nobody adds one meanwhile.  *)
THEOREM CopiesAreComplete == EnvSpec => CopiesComplete
<1> DEFINE Complete ==
      BackupWallet \/ RewriteBegins =>
        /\ wallet \notin inLog'
        /\ \A t \in DbThread : use'[t].at \in {"open", "closing"} => use'[t].file # wallet
<1>1. EnvInv /\ [EnvNext]_envVars => [Complete]_envVars
  <2> SUFFICES ASSUME EnvInv, BackupWallet \/ RewriteBegins
               PROVE  /\ wallet \notin inLog'
                      /\ \A t \in DbThread : use'[t].at \in {"open", "closing"} =>
                           use'[t].file # wallet
    OBVIOUS
  <2>1. Unused(wallet) /\ use' = use /\ inLog' = inLog \ {wallet}
    BY DEF BackupWallet, RewriteBegins
  <2>2. \A t \in DbThread : ~Using(t, wallet)
    BY <2>1, UnusedByAll, EnvAssumption DEF EnvInv
  <2> QED BY <2>1, <2>2 DEF Using
<1>2. EnvSpec => [][Complete]_envVars
  BY <1>1, EnvInvariance, PTL DEF EnvSpec
<1> QED BY <1>2 DEF CopiesComplete

-----------------------------------------------------------------------------
(* The threads that lock the wallet again (WalletLock)                     *)

Timer == [pc : {"none", "created", "started", "asleep"}, left : Nat]

LockTypes ==
  /\ locked \in BOOLEAN /\ crossed \in BOOLEAN
  /\ nWalletUnlockTime \in Nat \cup {Null}
  /\ timer \in [Relocker -> Timer]
  /\ change \in ChangeCall \cup {Null}

ChangeOK ==
  change # Null =>
    /\ change.pc = "locked" => locked
    /\ change.fWasLocked => locked \/ change.pc = "unlocked"
    /\ ~change.right => change.pc # "unlocked"

(* If a time is set there is a thread that sleeps no longer than that.     *)
UnlockTimeKept ==
  nWalletUnlockTime # Null =>
    \E t \in Relocker : timer[t].pc = "asleep" /\ timer[t].left <= nWalletUnlockTime

(* ChangeWalletPassphrase will unlock the wallet again; will lock it.      *)
Restores ==
  change # Null /\ change.pc # "unlocked" /\ change.right /\ ~change.fWasLocked
LocksAtEnd == change # Null /\ change.pc = "unlocked" /\ change.fWasLocked

WillLock ==
  nWalletUnlockTime # Null \/ \E t \in Relocker : timer[t].pc \in {"created", "started"}

RelockPending == (~locked \/ Restores) /\ ~LocksAtEnd /\ ~crossed => WillLock

LockInv == LockTypes /\ ChangeOK /\ UnlockTimeKept /\ RelockPending

LEMMA InitLock == LockInit => LockInv
<1> SUFFICES ASSUME LockInit PROVE LockInv OBVIOUS
<1>1. NoTimer \in Timer BY DEF NoTimer, Timer
<1>2. LockTypes BY <1>1 DEF LockInit, LockTypes
<1>3. ChangeOK /\ UnlockTimeKept /\ RelockPending
  BY DEF LockInit, ChangeOK, UnlockTimeKept, RelockPending, Restores
<1> QED BY <1>2, <1>3 DEF LockInv

LEMMA TimerFacts ==
  ASSUME LockInv, NEW t \in Relocker
  PROVE  /\ timer[t] \in Timer /\ timer[t].left \in Nat
         /\ timer[t].pc \in {"none", "created", "started", "asleep"}
BY DEF LockInv, LockTypes, Timer

LEMMA CallInv == LockInv /\ LockCall => LockInv'
<1> SUFFICES ASSUME LockInv, LockCall PROVE LockInv' OBVIOUS
<1>1. ASSUME NEW t \in Relocker, NEW seconds \in Timeouts, walletpassphrase(t, seconds)
      PROVE  LockInv'
  <2> DEFINE x == [pc |-> "created", left |-> seconds]
  <2>1. /\ change = Null /\ timer' = [timer EXCEPT ![t] = x] /\ timer[t].pc = "none"
        /\ locked' = FALSE /\ UNCHANGED <<nWalletUnlockTime, change, crossed>>
    BY <1>1 DEF walletpassphrase
  <2>2. x \in Timer /\ x.pc = "created" BY WalletLockAssumption DEF Timer
  <2> HIDE DEF x
  <2>3. timer'[t] = x /\ \A u \in Relocker : u # t => timer'[u] = timer[u]
    BY <2>1 DEF LockInv, LockTypes
  <2>4. LockTypes' BY <2>1, <2>2 DEF LockInv, LockTypes
  <2>5. ChangeOK' BY <2>1 DEF ChangeOK
  <2>6. UnlockTimeKept' BY <2>1, <2>3 DEF LockInv, UnlockTimeKept
  <2>7. RelockPending' BY <2>2, <2>3 DEF RelockPending, WillLock
  <2> QED BY <2>4, <2>5, <2>6, <2>7 DEF LockInv
<1>2. ASSUME walletlock PROVE LockInv'
  <2>1. /\ change = Null /\ locked' = TRUE /\ nWalletUnlockTime' = Null
        /\ UNCHANGED <<timer, change, crossed>>
    BY <1>2 DEF walletlock
  <2>2. LockTypes' BY <2>1 DEF LockInv, LockTypes
  <2>3. ChangeOK' /\ UnlockTimeKept' /\ RelockPending'
    BY <2>1 DEF ChangeOK, UnlockTimeKept, RelockPending, Restores
  <2> QED BY <2>2, <2>3 DEF LockInv
<1>3. ASSUME NEW right \in BOOLEAN, walletpassphrasechange(right) PROVE LockInv'
  <2> DEFINE c == [pc |-> "begin", right |-> right, fWasLocked |-> locked]
  <2>1. change = Null /\ change' = c /\ UNCHANGED <<locked, nWalletUnlockTime, timer, crossed>>
    BY <1>3 DEF walletpassphrasechange
  <2>2. c \in ChangeCall /\ c.pc = "begin" /\ c.fWasLocked = locked
    BY DEF ChangeCall, LockInv, LockTypes
  <2> HIDE DEF c
  <2>3. LockTypes' BY <2>1, <2>2 DEF LockInv, LockTypes
  <2>4. ChangeOK' BY <2>1, <2>2 DEF ChangeOK
  <2>5. UnlockTimeKept' BY <2>1 DEF LockInv, UnlockTimeKept
  <2>6. RelockPending'
    <3>1. WillLock' <=> WillLock BY <2>1 DEF WillLock
    <3>2. ~locked' \/ Restores' => ~locked BY <2>1, <2>2 DEF Restores
    <3>3. ~LocksAtEnd BY <2>1 DEF LocksAtEnd
    <3> QED BY <2>1, <3>1, <3>2, <3>3 DEF LockInv, RelockPending
  <2> QED BY <2>3, <2>4, <2>5, <2>6 DEF LockInv
<1> QED BY <1>1, <1>2, <1>3 DEF LockCall

LEMMA ChangeInv == LockInv /\ ChangeWalletPassphrase => LockInv'
<1> SUFFICES ASSUME LockInv, ChangeWalletPassphrase PROVE LockInv' OBVIOUS
<1>1. /\ change \in ChangeCall /\ change # Null
      /\ UNCHANGED <<nWalletUnlockTime, timer, crossed>>
  BY DEF ChangeWalletPassphrase, Change, LockInv, LockTypes
<1>2. /\ change.right \in BOOLEAN /\ change.fWasLocked \in BOOLEAN /\ locked \in BOOLEAN
      /\ change.pc \in {"begin", "locked", "unlocked"}
  BY <1>1 DEF ChangeCall, LockInv, LockTypes
<1>3. UnlockTimeKept' /\ (WillLock' <=> WillLock)
  BY <1>1 DEF LockInv, UnlockTimeKept, WillLock
<1>4. ASSUME NEW pc \in {"locked", "unlocked"}, change' = [change EXCEPT !.pc = pc]
      PROVE  /\ change' \in ChangeCall /\ change'.pc = pc /\ change'.right = change.right
             /\ change'.fWasLocked = change.fWasLocked
  BY <1>1, <1>4 DEF ChangeCall
<1>5. ASSUME Change("begin", "locked", TRUE) PROVE LockInv'
  <2>1. change.pc = "begin" /\ change' = [change EXCEPT !.pc = "locked"] /\ locked' = TRUE
    BY <1>5 DEF Change
  <2>2. /\ change' \in ChangeCall /\ change'.pc = "locked" /\ change'.right = change.right
        /\ change'.fWasLocked = change.fWasLocked
    BY <1>4, <2>1
  <2>3. LockTypes' BY <1>1, <2>1, <2>2 DEF LockInv, LockTypes
  <2>4. ChangeOK' BY <2>1, <2>2 DEF ChangeOK
  <2>5. RelockPending'
    <3> SUFFICES ASSUME Restores', ~crossed PROVE WillLock
      BY <1>1, <1>3, <2>1 DEF RelockPending
    <3>1. Restores BY <1>1, <2>1, <2>2 DEF Restores
    <3>2. ~LocksAtEnd BY <2>1 DEF LocksAtEnd
    <3> QED BY <3>1, <3>2 DEF LockInv, RelockPending
  <2> QED BY <1>3, <2>3, <2>4, <2>5 DEF LockInv
<1>6. ASSUME ~change.right, Change("locked", "done", locked) PROVE LockInv'
  <2>1. change.pc = "locked" /\ change' = Null /\ locked' = locked BY <1>6 DEF Change
  <2>2. locked' = TRUE BY <1>1, <1>2, <2>1 DEF LockInv, ChangeOK
  <2>3. LockTypes' BY <1>1, <2>1, <2>2 DEF LockInv, LockTypes
  <2>4. ChangeOK' /\ RelockPending' BY <2>1, <2>2 DEF ChangeOK, RelockPending, Restores
  <2> QED BY <1>3, <2>3, <2>4 DEF LockInv
<1>7. ASSUME change.right, Change("locked", "unlocked", FALSE) PROVE LockInv'
  <2>1. change.pc = "locked" /\ change' = [change EXCEPT !.pc = "unlocked"] /\ locked' = FALSE
    BY <1>7 DEF Change
  <2>2. /\ change' \in ChangeCall /\ change'.pc = "unlocked" /\ change'.right = change.right
        /\ change'.fWasLocked = change.fWasLocked
    BY <1>4, <2>1
  <2>3. LockTypes' BY <1>1, <2>1, <2>2 DEF LockInv, LockTypes
  <2>4. ChangeOK' BY <1>7, <2>1, <2>2 DEF ChangeOK
  <2>5. RelockPending'
    <3> SUFFICES ASSUME ~LocksAtEnd', ~crossed PROVE WillLock
      BY <1>1, <1>3 DEF RelockPending
    <3>1. change' # Null => ~change.fWasLocked BY <2>2 DEF LocksAtEnd
    <3>2. CASE change' = Null
      <4>1. Null \in ChangeCall BY <2>2, <3>2
      <4> QED BY <4>1, WalletLockAssumption
    <3>3. CASE change' # Null
      <4>1. Restores BY <1>1, <1>7, <2>1, <3>1, <3>3 DEF Restores
      <4>2. ~LocksAtEnd BY <2>1 DEF LocksAtEnd
      <4> QED BY <4>1, <4>2 DEF LockInv, RelockPending
    <3> QED BY <3>2, <3>3
  <2> QED BY <1>3, <2>3, <2>4, <2>5 DEF LockInv
<1>8. ASSUME Change("unlocked", "done", locked \/ change.fWasLocked) PROVE LockInv'
  <2>1. change.pc = "unlocked" /\ change' = Null /\ locked' = (locked \/ change.fWasLocked)
    BY <1>8 DEF Change
  <2>2. LockTypes' BY <1>1, <1>2, <2>1 DEF LockInv, LockTypes
  <2>3. ChangeOK' BY <2>1 DEF ChangeOK
  <2>4. RelockPending'
    <3> SUFFICES ASSUME ~locked', ~crossed PROVE WillLock
      BY <1>1, <1>3, <2>1 DEF RelockPending, Restores
    <3>1. ~locked /\ ~LocksAtEnd BY <2>1 DEF LocksAtEnd
    <3> QED BY <3>1 DEF LockInv, RelockPending
  <2> QED BY <1>3, <2>2, <2>3, <2>4 DEF LockInv
<1> QED BY <1>5, <1>6, <1>7, <1>8 DEF ChangeWalletPassphrase

LEMMA ThreadInv ==
  ASSUME LockInv, NEW t \in Relocker, RelockThread(t)
  PROVE  LockInv'
<1>1. timer[t] \in Timer /\ timer[t].left \in Nat /\ NoTimer \in Timer
  BY TimerFacts DEF NoTimer, Timer
<1>2. ASSUME NEW x, timer' = [timer EXCEPT ![t] = x]
      PROVE  timer'[t] = x /\ \A u \in Relocker : u # t => timer'[u] = timer[u]
  BY <1>2 DEF LockInv, LockTypes
<1>3. UNCHANGED change BY DEF RelockThread, ReadClock, Enter, Wake
<1>4. ASSUME ReadClock(t) PROVE LockInv'
  <2> DEFINE x == [timer[t] EXCEPT !.pc = "started"]
  <2>1. timer' = [timer EXCEPT ![t] = x] /\ timer[t].pc = "created"
    BY <1>4 DEF ReadClock, LockInv, LockTypes
  <2>2. x \in Timer /\ x.pc = "started" BY <1>1 DEF Timer
  <2> HIDE DEF x
  <2>3. timer'[t] = x /\ \A u \in Relocker : u # t => timer'[u] = timer[u] BY <1>2, <2>1
  <2>4. UNCHANGED <<locked, nWalletUnlockTime, change, crossed>> BY <1>4 DEF ReadClock
  <2>5. LockTypes' /\ ChangeOK' BY <2>1, <2>2, <2>4 DEF LockInv, LockTypes, ChangeOK
  <2>6. UnlockTimeKept' BY <2>1, <2>3, <2>4 DEF LockInv, UnlockTimeKept
  <2>7. RelockPending' BY <2>2, <2>3 DEF RelockPending, WillLock
  <2> QED BY <2>5, <2>6, <2>7 DEF LockInv
<1>5. ASSUME NEW unlockTime \in Nat, SleepUntil(t, unlockTime) PROVE LockInv'
  <2> DEFINE x == [pc |-> "asleep", left |-> unlockTime]
  <2>1. /\ timer' = [timer EXCEPT ![t] = x] /\ nWalletUnlockTime' = unlockTime
        /\ UNCHANGED <<locked, crossed>>
    BY <1>5 DEF SleepUntil
  <2>2. x \in Timer /\ x.pc = "asleep" /\ x.left = unlockTime BY DEF Timer
  <2> HIDE DEF x
  <2>3. timer'[t] = x BY <1>2, <2>1
  <2>4. LockTypes' /\ ChangeOK' BY <1>3, <2>1, <2>2 DEF LockInv, LockTypes, ChangeOK
  <2>5. UnlockTimeKept' BY <2>1, <2>2, <2>3 DEF UnlockTimeKept
  <2>6. RelockPending' BY <2>1, WalletLockAssumption DEF RelockPending, WillLock
  <2> QED BY <2>4, <2>5, <2>6 DEF LockInv
<1>6. ASSUME NEW fLock \in BOOLEAN, LeaveLoop(t, fLock),
             fLock \/ (nWalletUnlockTime = Null /\ timer[t].pc = "asleep")
      PROVE  LockInv'
  <2>1. /\ timer' = [timer EXCEPT ![t] = NoTimer] /\ nWalletUnlockTime' = Null
        /\ locked' = (locked \/ fLock)
        /\ crossed' = (crossed \/ /\ change # Null /\ change.pc # "unlocked"
                                  /\ change.right /\ ~change.fWasLocked)
    BY <1>6 DEF LeaveLoop
  <2>2. crossed' = (crossed \/ Restores) BY <2>1 DEF Restores
  <2>3. locked \in BOOLEAN /\ crossed \in BOOLEAN BY DEF LockInv, LockTypes
  <2>4. locked' \in BOOLEAN /\ crossed' \in BOOLEAN BY <1>6, <2>1, <2>2
  <2>5. \A u \in Relocker : u # t => timer'[u] = timer[u] BY <1>2, <2>1
  <2>6. LockTypes' BY <1>1, <1>3, <2>1, <2>4 DEF LockInv, LockTypes
  <2>7. ChangeOK'
    <3>1. locked => locked' BY <2>1
    <3> QED BY <1>3, <3>1 DEF LockInv, ChangeOK
  <2>8. UnlockTimeKept' BY <2>1 DEF UnlockTimeKept
  <2>9. RelockPending'
    <3> SUFFICES ASSUME ~locked' \/ Restores', ~LocksAtEnd', ~crossed' PROVE WillLock'
      BY DEF RelockPending
    <3>1. ~crossed /\ ~Restores /\ ~locked' BY <1>3, <2>2 DEF Restores
    <3>2. ~locked /\ fLock = FALSE BY <1>6, <2>1, <2>3, <3>1
    <3>3. ~LocksAtEnd BY <1>3 DEF LocksAtEnd
    <3>4. WillLock BY <3>1, <3>2, <3>3 DEF LockInv, RelockPending
    <3>5. nWalletUnlockTime = Null /\ timer[t].pc = "asleep" BY <1>6, <3>2
    <3>6. PICK u \in Relocker : timer[u].pc \in {"created", "started"}
      BY <3>4, <3>5 DEF WillLock
    <3>7. u # t BY <3>5, <3>6
    <3> QED BY <2>5, <3>6, <3>7 DEF WillLock
  <2> QED BY <2>6, <2>7, <2>8, <2>9 DEF LockInv
<1>7. LeaveLoop(t, TRUE) => LockInv' BY <1>6
<1>8. ASSUME Enter(t) PROVE LockInv'
  <2>1. CASE nWalletUnlockTime = Null
    <3>1. Loop(t, timer[t].left) BY <1>8, <2>1 DEF Enter
    <3>2. timer[t].left # Null BY <1>1, WalletLockAssumption
    <3>3. SleepUntil(t, timer[t].left) \/ LeaveLoop(t, TRUE)
      BY <3>1, <3>2 DEF Loop, LeaveLoop
    <3> QED BY <1>1, <1>5, <1>7, <3>3
  <2>2. CASE nWalletUnlockTime # Null
    <3>1. /\ nWalletUnlockTime' = Later(nWalletUnlockTime, timer[t].left)
          /\ timer' = [timer EXCEPT ![t] = NoTimer] /\ UNCHANGED <<locked, crossed>>
          /\ timer[t].pc = "started"
      BY <1>8, <2>2 DEF Enter
    <3>2. nWalletUnlockTime \in Nat BY <2>2 DEF LockInv, LockTypes
    <3>3. nWalletUnlockTime' \in Nat /\ nWalletUnlockTime <= nWalletUnlockTime'
      BY <1>1, <3>1, <3>2 DEF Later
    <3>4. \A u \in Relocker : u # t => timer'[u] = timer[u] BY <1>2, <3>1
    <3>5. LockTypes' /\ ChangeOK' BY <1>1, <1>3, <3>1, <3>3 DEF LockInv, LockTypes, ChangeOK
    <3>6. UnlockTimeKept'
      <4>1. PICK u \in Relocker : timer[u].pc = "asleep" /\ timer[u].left <= nWalletUnlockTime
        BY <2>2 DEF LockInv, UnlockTimeKept
      <4>2. u # t /\ timer[u].left \in Nat BY <3>1, <4>1, TimerFacts
      <4>3. timer[u].left <= nWalletUnlockTime' BY <3>2, <3>3, <4>1, <4>2
      <4> QED BY <3>4, <4>1, <4>2, <4>3 DEF UnlockTimeKept
    <3>7. RelockPending' BY <3>3, WalletLockAssumption DEF RelockPending, WillLock
    <3> QED BY <3>5, <3>6, <3>7 DEF LockInv
  <2> QED BY <2>1, <2>2
<1>9. ASSUME Wake(t) PROVE LockInv'
  <2>1. timer[t].pc = "asleep" /\ Loop(t, nWalletUnlockTime) BY <1>9 DEF Wake
  <2>2. CASE nWalletUnlockTime = Null
    <3>1. LeaveLoop(t, FALSE) BY <2>1, <2>2 DEF Loop, ToSleep
    <3> QED BY <1>6, <2>1, <2>2, <3>1
  <2>3. CASE nWalletUnlockTime # Null
    <3>1. nWalletUnlockTime \in Nat BY <2>3 DEF LockInv, LockTypes
    <3>2. SleepUntil(t, nWalletUnlockTime) \/ LeaveLoop(t, TRUE)
      BY <2>1, <2>3 DEF Loop, LeaveLoop
    <3> QED BY <1>5, <1>7, <3>1, <3>2
  <2> QED BY <2>2, <2>3
<1> QED BY <1>4, <1>8, <1>9 DEF RelockThread

LEMMA TickInv == LockInv /\ Tick => LockInv'
<1> SUFFICES ASSUME LockInv, Tick PROVE LockInv' OBVIOUS
<1> DEFINE New(t) == IF timer[t].pc = "created" THEN timer[t]
                     ELSE [timer[t] EXCEPT !.left = Less(@)]
<1>1. /\ timer' = [t \in Relocker |-> New(t)] /\ UNCHANGED <<locked, change, crossed>>
      /\ nWalletUnlockTime' = IF nWalletUnlockTime = Null THEN Null ELSE Less(nWalletUnlockTime)
  BY DEF Tick
<1>2. \A a, b \in Nat : Less(a) \in Nat /\ (a <= b => Less(a) <= Less(b)) BY DEF Less
<1>3. ASSUME NEW t \in Relocker
      PROVE  /\ timer'[t] \in Timer /\ timer'[t].pc = timer[t].pc
             /\ timer[t].pc # "created" => timer'[t].left = Less(timer[t].left)
  <2>1. timer'[t] = New(t) BY <1>1
  <2>2. timer[t] \in Timer /\ Less(timer[t].left) \in Nat BY <1>2, TimerFacts
  <2> QED BY <2>1, <2>2 DEF Timer
<1>4. /\ nWalletUnlockTime # Null => nWalletUnlockTime \in Nat
                                    /\ nWalletUnlockTime' = Less(nWalletUnlockTime)
      /\ nWalletUnlockTime' = Null <=> nWalletUnlockTime = Null
      /\ nWalletUnlockTime' \in Nat \cup {Null}
  BY <1>1, <1>2, WalletLockAssumption DEF LockInv, LockTypes
<1>5. LockTypes' BY <1>1, <1>3, <1>4 DEF LockInv, LockTypes
<1>6. ChangeOK' BY <1>1 DEF LockInv, ChangeOK
<1>7. UnlockTimeKept'
  <2> SUFFICES ASSUME nWalletUnlockTime # Null
               PROVE  \E t \in Relocker :
                        timer'[t].pc = "asleep" /\ timer'[t].left <= nWalletUnlockTime'
    BY <1>4 DEF UnlockTimeKept
  <2>1. PICK t \in Relocker : timer[t].pc = "asleep" /\ timer[t].left <= nWalletUnlockTime
    BY DEF LockInv, UnlockTimeKept
  <2>2. timer[t].left \in Nat BY TimerFacts
  <2> QED BY <1>2, <1>3, <1>4, <2>1, <2>2
<1>8. RelockPending'
  <2>1. WillLock <=> WillLock' BY <1>3, <1>4 DEF WillLock
  <2> QED BY <1>1, <2>1 DEF LockInv, RelockPending, Restores, LocksAtEnd
<1> QED BY <1>5, <1>6, <1>7, <1>8 DEF LockInv

LEMMA LockNextInv == LockInv /\ [LockNext]_lockVars => LockInv'
<1> SUFFICES ASSUME LockInv, [LockNext]_lockVars PROVE LockInv' OBVIOUS
<1>1. CASE UNCHANGED lockVars
  BY <1>1 DEF lockVars, LockInv, LockTypes, ChangeOK, UnlockTimeKept, RelockPending, WillLock,
     Restores, LocksAtEnd
<1> QED BY <1>1, CallInv, ChangeInv, ThreadInv, TickInv DEF LockNext, LockRun

(* A wallet that is unlocked has somebody who will lock it again, for any  *)
(* number of calls and threads at a time: a thread that has not looked at  *)
(* the time yet, or one that sleeps no longer than the time that is set.   *)
(* It also holds while ChangeWalletPassphrase has the wallet locked and is *)
(* about to unlock it; what is lost is only the relocking that came just   *)
(* then (crossed).  It is the safety half of LockedAgain.                  *)
THEOREM UnlockedIsWatched ==
  LockSpec => [](RelockPending /\ UnlockTimeKept)
<1>1. LockInv => RelockPending /\ UnlockTimeKept BY DEF LockInv
<1> QED BY <1>1, InitLock, LockNextInv, PTL DEF LockSpec
=============================================================================
