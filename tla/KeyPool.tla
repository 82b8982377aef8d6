------------------------------ MODULE KeyPool ------------------------------
(***************************************************************************)
(* The wallet's pool of unused keys, the threads that reserve keys from it *)
(* and the encryption of the wallet (src/src/wallet.cpp 215-292 and        *)
(* 1403-1587, walletdb.cpp).                                               *)
(*                                                                         *)
(* The pool is kept twice: setKeyPool in memory has the indices of the     *)
(* keys nobody has taken, the "pool" records of the file have the key of   *)
(* every index that was not kept.  cs_wallet protects the memory, and      *)
(* whoever holds it is `job'; KeepKey erases its record without the lock.  *)
(* The process may die between any two writes to the file.                 *)
(***************************************************************************)
EXTENDS Integers, FiniteSets

CONSTANTS
  Thread,       \* the CReserveKeys: one per mining thread and per payment
  KeyPoolSize,  \* -keypool
  MaxKeys       \* bound on the keys ever generated

ASSUME KeyPoolAssumption ==
  /\ KeyPoolSize \in Nat /\ MaxKeys \in Nat /\ KeyPoolSize < MaxKeys
  /\ "getnewaddress" \notin Thread /\ "keypoolrefill" \notin Thread

VARIABLES
  setKeyPool,   \* the indices nobody has taken
  reserve,      \* each thread's CReserveKey: [nIndex, vchPubKey]
  fLocked,      \* the master key is not in memory
  job,          \* the operation that holds cs_wallet
  pool,         \* on disk: the "pool" records
  plain,        \* on disk: the keys with a "key" record
  crypted,      \* on disk: the keys with a "ckey" record
  mkey,         \* on disk: whether there is a master key
  nKeys,        \* the keys generated so far are 1 .. nKeys
  kept          \* history: the keys that were given out for good

memory == <<setKeyPool, reserve, fLocked, job>>
file == <<pool, plain, crypted, mkey>>
vars == <<memory, file, nKeys, kept>>

NoKey == 0
NoReserve == [nIndex |-> -1, vchPubKey |-> NoKey]
Job(op, by) == [op |-> op, by |-> by, key |-> NoKey, keys |-> {}]
Idle == Job("idle", "nobody")
Caller == Thread \cup {"getnewaddress", "keypoolrefill"}

Holding == {t \in Thread : reserve[t] # NoReserve}
Records == DOMAIN pool

(* fUseCrypto; in memory it is set before the commit, but under the lock.  *)
IsCrypted == mkey

TypeOK ==
  /\ setKeyPool \in SUBSET Nat
  /\ reserve \in [Thread -> [nIndex : Int, vchPubKey : 0 .. MaxKeys]]
  /\ fLocked \in BOOLEAN
  /\ job \in [op : {"idle", "topup", "take", "encrypt", "clear", "generate"},
              by : Caller \cup {"nobody"}, key : 0 .. MaxKeys, keys : SUBSET Nat]
  /\ Records \in SUBSET Nat /\ pool \in [Records -> 1 .. MaxKeys]
  /\ plain \in SUBSET (1 .. nKeys) /\ crypted \in SUBSET (1 .. nKeys)
  /\ mkey \in BOOLEAN /\ nKeys \in 0 .. MaxKeys
  /\ kept \in SUBSET (1 .. nKeys)

(* A new wallet, whose first key has become the default key (init.cpp).    *)
Init ==
  /\ nKeys = KeyPoolSize + 1
  /\ pool = [i \in 2 .. nKeys |-> i] /\ setKeyPool = 2 .. nKeys
  /\ plain = 1 .. nKeys /\ crypted = {} /\ mkey = FALSE
  /\ reserve = [t \in Thread |-> NoReserve]
  /\ fLocked = FALSE /\ job = Idle
  /\ kept = {1}

-----------------------------------------------------------------------------
(* Taking a key                                                            *)

(* GetReservedKey, GetKeyFromPool and TopUpKeyPool take the lock; a locked *)
(* wallet is not topped up.                                                *)
Call(by) ==
  /\ job = Idle
  /\ by \in Thread => reserve[by] = NoReserve
  /\ job' = Job(IF fLocked THEN "take" ELSE "topup", by)
  /\ UNCHANGED <<setKeyPool, reserve, fLocked, file, nKeys, kept>>

MoreKeys ==
  \/ job.op = "topup" /\ Cardinality(setKeyPool) < KeyPoolSize + 1
  \/ job.op = "generate" /\ Cardinality(setKeyPool) < KeyPoolSize

(* GenerateNewKey: the key itself is in the file before it gets an index.  *)
GenerateNewKey ==
  /\ MoreKeys /\ job.key = NoKey /\ ~fLocked
  /\ nKeys < MaxKeys
  /\ nKeys' = nKeys + 1
  /\ job' = [job EXCEPT !.key = nKeys + 1]
  /\ IF IsCrypted THEN crypted' = crypted \cup {nKeys + 1} /\ UNCHANGED plain
                  ELSE plain' = plain \cup {nKeys + 1} /\ UNCHANGED crypted
  /\ UNCHANGED <<setKeyPool, reserve, fLocked, pool, mkey, kept>>

(* The wallet was locked under the loop: AddKey fails, and the exception   *)
(* leaves the caller without a key.                                        *)
GenerateFails ==
  /\ MoreKeys /\ job.key = NoKey /\ fLocked
  /\ job' = Idle
  /\ UNCHANGED <<setKeyPool, reserve, fLocked, file, nKeys, kept>>

IsFirstFree(n) ==  \* mutant: the least index that is not in memory
  n \notin setKeyPool /\ \A i \in 1 .. n - 1 : i \in setKeyPool

(* One more than the greatest index in memory.  NewKeyPool counts from one *)
(* and comes to the same, for it starts from an empty set.                 *)
IsEnd(n) ==
  IF setKeyPool = {} THEN n = 1
  ELSE \E m \in setKeyPool : n = m + 1 /\ \A i \in setKeyPool : i <= m

WritePool ==
  /\ job.op \in {"topup", "generate"} /\ job.key # NoKey
  /\ \E n \in 1 .. MaxKeys + 1 :
       /\ IsEnd(n)
       /\ pool' = [i \in Records \cup {n} |-> IF i = n THEN job.key ELSE pool[i]]
       /\ setKeyPool' = setKeyPool \cup {n}
  /\ job' = [job EXCEPT !.key = NoKey]
  /\ UNCHANGED <<reserve, fLocked, plain, crypted, mkey, nKeys, kept>>

Ready == job.op = "take" \/ (job.op = "topup" /\ job.key = NoKey /\ ~MoreKeys)
Oldest(i) == i \in setKeyPool /\ \A j \in setKeyPool : i <= j
Without(i) == [j \in Records \ {i} |-> pool[j]]

TakeLeftInPool(i) ==  \* mutant: setKeyPool.erase is missing
  /\ Ready /\ Oldest(i) /\ i \in Records
  /\ job.by \in Thread
  /\ job' = Idle
  /\ reserve' = [reserve EXCEPT ![job.by] = [nIndex |-> i, vchPubKey |-> pool[i]]]
  /\ UNCHANGED <<setKeyPool, fLocked, file, nKeys, kept>>

(* ReserveKeyFromKeyPool for GetReservedKey.                               *)
Take(i) ==
  /\ Ready /\ Oldest(i) /\ i \in Records
  /\ job.by \in Thread
  /\ job' = Idle
  /\ setKeyPool' = setKeyPool \ {i}
  /\ reserve' = [reserve EXCEPT ![job.by] = [nIndex |-> i, vchPubKey |-> pool[i]]]
  /\ UNCHANGED <<fLocked, file, nKeys, kept>>

(* GetKeyFromPool: reserve and keep under one lock.                        *)
TakeAndKeep(i) ==
  /\ Ready /\ Oldest(i) /\ i \in Records
  /\ job.by = "getnewaddress"
  /\ job' = Idle
  /\ setKeyPool' = setKeyPool \ {i}
  /\ pool' = Without(i)
  /\ kept' = kept \cup {pool[i]}
  /\ UNCHANGED <<reserve, fLocked, plain, crypted, mkey, nKeys>>

(* "ReserveKeyFromKeyPool() : read failed" is thrown.                      *)
ReadFails(i) ==
  /\ Ready /\ Oldest(i) /\ i \notin Records
  /\ job.by # "keypoolrefill"
  /\ job' = Idle
  /\ setKeyPool' = setKeyPool \ {i}
  /\ UNCHANGED <<reserve, fLocked, file, nKeys, kept>>

(* The end of a refill.  A locked wallet may have nothing to give either:  *)
(* the caller then gets the default key or none.                           *)
Leave ==
  /\ Ready
  /\ job.by = "keypoolrefill" \/ setKeyPool = {}
  /\ job' = Idle
  /\ UNCHANGED <<setKeyPool, reserve, fLocked, file, nKeys, kept>>

-----------------------------------------------------------------------------
(* Giving it back or keeping it                                            *)

KeepKeyInMemory(t) ==  \* mutant: KeepKey does not erase the record
  /\ t \in Holding
  /\ kept' = kept \cup {reserve[t].vchPubKey}
  /\ reserve' = [reserve EXCEPT ![t] = NoReserve]
  /\ UNCHANGED <<setKeyPool, fLocked, job, file, nKeys>>

(* CheckWork and CommitTransaction use the key; cs_wallet is not taken.    *)
KeepKey(t) ==
  /\ t \in Holding
  /\ kept' = kept \cup {reserve[t].vchPubKey}
  /\ pool' = Without(reserve[t].nIndex)
  /\ reserve' = [reserve EXCEPT ![t] = NoReserve]
  /\ UNCHANGED <<setKeyPool, fLocked, job, plain, crypted, mkey, nKeys>>

(* ReturnKey, by hand or by the destructor.                                *)
ReturnKey(t) ==
  /\ t \in Holding /\ job = Idle
  /\ setKeyPool' = setKeyPool \cup {reserve[t].nIndex}
  /\ reserve' = [reserve EXCEPT ![t] = NoReserve]
  /\ UNCHANGED <<fLocked, job, file, nKeys, kept>>

(* The process dies or stops, and LoadWallet reads the file.               *)
Restart ==
  /\ setKeyPool' = Records
  /\ reserve' = [t \in Thread |-> NoReserve]
  /\ fLocked' = IsCrypted
  /\ job' = Idle
  /\ UNCHANGED <<file, nKeys, kept>>

-----------------------------------------------------------------------------
(* Encryption                                                              *)

(* EncryptWallet takes the lock and begins a transaction; job.keys is what *)
(* the transaction has of it.                                              *)
EncryptWallet ==
  /\ job = Idle /\ ~IsCrypted
  /\ job' = Job("encrypt", "nobody")
  /\ UNCHANGED <<setKeyPool, reserve, fLocked, file, nKeys, kept>>

WriteCryptedKeyAtOnce(k) ==  \* mutant: AddCryptedKey uses a handle of its own
  /\ job.op = "encrypt" /\ k \in plain
  /\ crypted' = crypted \cup {k}
  /\ plain' = plain \ {k}
  /\ job' = [job EXCEPT !.keys = @ \cup {k}]
  /\ UNCHANGED <<setKeyPool, reserve, fLocked, pool, mkey, nKeys, kept>>

(* WriteCryptedKey erases the "key" record too.                            *)
WriteCryptedKey(k) ==
  /\ job.op = "encrypt" /\ k \in plain \ job.keys
  /\ job' = [job EXCEPT !.keys = @ \cup {k}]
  /\ UNCHANGED <<setKeyPool, reserve, fLocked, file, nKeys, kept>>

(* The commit; Lock and Unlock leave the wallet unlocked for NewKeyPool.   *)
TxnCommit ==
  /\ job.op = "encrypt" /\ plain \subseteq job.keys
  /\ crypted' = crypted \cup job.keys
  /\ plain' = plain \ job.keys
  /\ mkey' = TRUE
  /\ job' = Job("clear", "nobody")
  /\ UNCHANGED <<setKeyPool, reserve, fLocked, pool, nKeys, kept>>

(* NewKeyPool first erases what is in memory, record by record ...         *)
ErasePool(i) ==
  /\ job.op = "clear" /\ i \in setKeyPool
  /\ pool' = Without(i)
  /\ setKeyPool' = setKeyPool \ {i}
  /\ UNCHANGED <<reserve, fLocked, job, plain, crypted, mkey, nKeys, kept>>

(* ... and then writes KeyPoolSize new keys.                               *)
BeginGenerate ==
  /\ job.op = "clear" /\ setKeyPool = {}
  /\ job' = [job EXCEPT !.op = "generate"]
  /\ UNCHANGED <<setKeyPool, reserve, fLocked, file, nKeys, kept>>

(* NewKeyPool returns, and EncryptWallet locks the wallet and leaves.      *)
EncryptDone ==
  /\ job.op = "generate" /\ job.key = NoKey /\ ~MoreKeys
  /\ fLocked' = TRUE
  /\ job' = Idle
  /\ UNCHANGED <<setKeyPool, reserve, file, nKeys, kept>>

(* walletpassphrase.                                                       *)
Unlock ==
  /\ job = Idle /\ fLocked
  /\ fLocked' = FALSE
  /\ UNCHANGED <<setKeyPool, reserve, job, file, nKeys, kept>>

(* ThreadCleanWalletPassphrase: the time is up, whatever is going on.  No  *)
(* such thread runs while the wallet is being encrypted.                   *)
Lock ==
  /\ IsCrypted /\ ~fLocked /\ job.op \in {"idle", "topup"}
  /\ fLocked' = TRUE
  /\ UNCHANGED <<setKeyPool, reserve, job, file, nKeys, kept>>

-----------------------------------------------------------------------------
PoolNext ==
  \/ \E by \in Caller : Call(by)
  \/ GenerateNewKey \/ WritePool \/ Leave
  \/ \E i \in setKeyPool : Take(i) \/ TakeAndKeep(i)
  \/ \E t \in Thread : KeepKey(t) \/ ReturnKey(t)
  \/ Restart

Next ==
  \/ PoolNext
  \/ EncryptWallet \/ TxnCommit \/ BeginGenerate \/ EncryptDone
  \/ \E k \in plain : WriteCryptedKey(k)
  \/ \E i \in setKeyPool : ErasePool(i) \/ ReadFails(i)
  \/ Unlock \/ Lock \/ GenerateFails

Spec == Init /\ [][Next]_vars

-----------------------------------------------------------------------------
(* Until the wallet is encrypted every index in memory has its record, so  *)
(* no reservation ends in the exception "read failed" (wallet.cpp 1475).   *)
PoolReadable == ~IsCrypted => setKeyPool \subseteq Records

(* Until then a key has one owner: no two threads hold the same ("Each     *)
(* thread has its own key and counter", main.cpp 3711), and neither the    *)
(* pool nor a thread has one that was kept.                                *)
ThreadsOwnKey ==
  \A t, u \in Holding : t # u => reserve[t].vchPubKey # reserve[u].vchPubKey

OneOwner ==
  LET held == {reserve[t].vchPubKey : t \in Holding}
  IN  ~IsCrypted =>
      /\ ThreadsOwnKey
      /\ held \cap kept = {}
      /\ \A i \in setKeyPool \cap Records : pool[i] \notin held \cup kept

(* A key that was given out for good has no record left that would bring   *)
(* it back after a restart (wallet.cpp 1498-1507).                         *)
KeptForGood == \A i \in Records : pool[i] \notin kept

(* A key can be spent from however the process ended: whoever has it, and  *)
(* whatever index leads to it, it is in the file ("unknown key in key      *)
(* pool", wallet.cpp 1477), as a "ckey" alone once there is a master key   *)
(* and as a "key" before: the file is encrypted as a whole or not at all   *)
(* (wallet.cpp 246-275).                                                   *)
KeysSaved ==
  \A k \in {pool[i] : i \in Records} \cup kept \cup {reserve[t].vchPubKey : t \in Holding} :
    k \in IF mkey THEN crypted \ plain ELSE plain \ crypted
=============================================================================
