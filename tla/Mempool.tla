------------------------------ MODULE Mempool ------------------------------
(***************************************************************************)
(* CTxMemPool as a value: mapTx, the transactions in the pool, and         *)
(* mapNextTx, which pool transaction spends an outpoint.  The modules that *)
(* hold a pool in a variable apply these operators to it.  raced is        *)
(* history: the outpoints for which two transactions were let in, because  *)
(* accept tests mapNextTx before it takes the pool's lock.                 *)
(***************************************************************************)
EXTENDS TxIndex

CONSTANT
    NonStandard     \* transactions IsStandard refuses; only a block can carry them

ASSUME StandardAssumption == NonStandard \subseteq Tx

Inputs(ts) == UNION {vin[t] : t \in ts}

EmptyPool == [mapTx |-> {}, mapNextTx |-> << >>, raced |-> {}]

IsPool(pool) ==
    /\ pool = [mapTx |-> pool.mapTx, mapNextTx |-> pool.mapNextTx, raced |-> pool.raced]
    /\ pool.mapTx \in SUBSET Tx
    /\ DOMAIN pool.mapNextTx \subseteq OutPoint
    /\ pool.mapNextTx \in [DOMAIN pool.mapNextTx -> Tx]
    /\ pool.raced \in SUBSET OutPoint

(* Every entry of mapNextTx is that of a transaction of the pool, and      *)
(* every input of one has its entry, outpoints that were raced for apart.  *)
Indexed(pool) ==
    /\ \A o \in DOMAIN pool.mapNextTx :
          pool.mapNextTx[o] \in pool.mapTx /\ o \in vin[pool.mapNextTx[o]]
    /\ \A t \in pool.mapTx : \A o \in vin[t] \ pool.raced :
          o \in DOMAIN pool.mapNextTx /\ pool.mapNextTx[o] = t

(* addUnchecked for each of ts, which spend no outpoint in common: an      *)
(* entry that is there is overwritten.                                     *)
AddUnchecked(pool, ts) ==
    [mapTx |-> pool.mapTx \cup ts,
     mapNextTx |-> [o \in DOMAIN pool.mapNextTx \cup Inputs(ts) |->
                      IF o \in Inputs(ts) THEN CHOOSE t \in ts : o \in vin[t]
                      ELSE pool.mapNextTx[o]],
     raced |-> pool.raced]

RemoveUnguarded(pool, ts) ==  \* mutant: entries go even if t is not in the pool
    [mapTx |-> pool.mapTx \ ts,
     mapNextTx |-> [o \in DOMAIN pool.mapNextTx \ Inputs(ts) |-> pool.mapNextTx[o]],
     raced |-> pool.raced]

(* remove, for each of ts: nothing happens for one that is not in the pool. *)
Remove(pool, ts) ==
    LET gone == ts \cap pool.mapTx
    IN  [mapTx |-> pool.mapTx \ gone,
         mapNextTx |-> [o \in DOMAIN pool.mapNextTx \ Inputs(gone) |-> pool.mapNextTx[o]],
         raced |-> pool.raced]

(* The part of accept that does not look at the inputs: a transaction that *)
(* is in the pool, or spends what one in the pool spends, is refused (the  *)
(* replacement code behind that test is dead).                             *)
Acceptable(pool, t) ==
    /\ ~IsCoinBase(t)
    /\ t \notin NonStandard
    /\ t \notin pool.mapTx
    /\ vin[t] \cap DOMAIN pool.mapNextTx = {}

(* accept with fCheckInputs: FetchInputs finds every previous transaction. *)
InputsFound(pool, idx, t) ==
    \A o \in vin[t] : o.hash \in DOMAIN idx \cup pool.mapTx

(* FetchInputs' range test and ConnectInputs, with the entry of a previous *)
(* transaction that is only in the pool made up on the spot.               *)
InputsConnectToPool(pool, idx, best, t) ==
    \A o \in vin[t] :
        IF o.hash \in DOMAIN idx
        THEN /\ Unspent(idx[o.hash], o.n)
             /\ ~(IsCoinBase(o.hash) /\ Immature(idx[o.hash].pos, best))
        ELSE o.n \in 0..(vout[o.hash] - 1)

(* What accept(txdb, t, fCheckInputs = true) requires of the state.        *)
AcceptOK(pool, idx, best, t) ==
    /\ Acceptable(pool, t)
    /\ t \notin DOMAIN idx
    /\ InputsFound(pool, idx, t)
    /\ InputsConnectToPool(pool, idx, best, t)

Conflict(s, t) == s # t /\ vin[s] \cap vin[t] # {}

(***************************************************************************)
(* accept's tests and its addUnchecked are not one critical section.       *)
(* cs_main keeps other handlers out, but not ReacceptWalletTransactions,   *)
(* which has cs_wallet and the pool's lock when the node starts: of the    *)
(* wallet's transactions it may let in, between the tests of one of ts and *)
(* its addUnchecked, such as conflict with it, and with none that the      *)
(* handler has added before.                                               *)
(***************************************************************************)
ReacceptedBetween(pool, idx, wallet, ts) ==
    {between \in SUBSET (wallet \ DOMAIN idx) :
        /\ \A r \in between : /\ Acceptable(pool, r)
                             /\ \E t \in ts : {s \in ts : Conflict(r, s)} = {t}
        /\ \A r, s \in between : ~Conflict(r, s)}

(* Both have passed the tests when one of them is added: late are those of *)
(* between that come after ts, the others come before.                     *)
AddRaced(pool, between, late, ts) ==
    LET early == [AddUnchecked(pool, between \ late) EXCEPT
                     !.raced = @ \cup (Inputs(between) \cap Inputs(ts))]
    IN  AddUnchecked(AddUnchecked(early, ts), late)

(* Reorganize's loop over vResurrect, AcceptToMemoryPool(txdb, false) each.*)
(* Of two that spend the same output the first one wins, be it one that    *)
(* the wallet adds meanwhile; which one that is is left open.              *)
ResurrectionsLost(pool, between, ts) == {{}}  \* mutant
Resurrections(pool, between, ts) ==
    LET welcome == {t \in ts : Acceptable(pool, t)}
    IN  {R \in SUBSET welcome :
            /\ \A s, t \in R : ~Conflict(s, t)
            /\ \A t \in welcome \ R : \E s \in R \cup between : Conflict(s, t)}

PoolAfterSwapped(pool, between, late, back, deleted) ==  \* mutant
    AddRaced(Remove(pool, deleted), between, late, back)

(* The pool takes transactions of the old branch back, then it drops those *)
(* of the new one.                                                         *)
PoolAfter(pool, between, late, back, deleted) ==
    Remove(AddRaced(pool, between, late, back), deleted)
=============================================================================
