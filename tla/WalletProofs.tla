---------------------------- MODULE WalletProofs ----------------------------
(***************************************************************************)
(* The wallet keeps up with the chain: whatever the chain pays to it or    *)
(* takes from it is recorded, across reorganisations, deaths at any write, *)
(* restarts and old copies of wallet.dat.  The theorems hold for every     *)
(* block tree in which no chain has a transaction twice, and for a wallet  *)
(* whose file has a locator from the beginning.                            *)
(***************************************************************************)
EXTENDS Wallet, ChainDataProofs

(***************************************************************************)
(* What is said of a wallet w, in memory or in the file                    *)
(***************************************************************************)
(* Its records are well formed, and a block that one names has the         *)
(* transaction.                                                            *)
IsWallet(w) ==
    /\ DOMAIN w \subseteq Tx
    /\ w = [h \in DOMAIN w |-> [hashBlock |-> w[h].hashBlock, spent |-> w[h].spent,
                               vtxPrev |-> w[h].vtxPrev]]
    /\ \A h \in DOMAIN w : /\ w[h].hashBlock # Null => /\ w[h].hashBlock \in Block
                                                       /\ h \in txs(w[h].hashBlock)

(* It knows what transaction t, which is in a block, pays or takes.        *)
Told(w, t) ==
    /\ IsMine(t) => t \in DOMAIN w /\ w[t].hashBlock # Null
    /\ \A o \in vin[t] \cap Mine : o.hash \in DOMAIN w /\ o.n \in w[o.hash].spent
Knows(w, S) == \A t \in S : Told(w, t)

(* The block it names for a transaction of S, if any, is one of B.         *)
Places(w, S, B) == \A t \in S \cap DOMAIN w : w[t].hashBlock \in B \cup {Null}

(* It has the spender of every output it marks.                            *)
Backed(w) == \A t \in DOMAIN w : \A n \in w[t].spent :
                \E u \in DOMAIN w : [hash |-> t, n |-> n] \in vin[u]

(* v may be what w has become.                                             *)
Later(w, v) ==
    /\ DOMAIN w \subseteq DOMAIN v
    /\ \A h \in DOMAIN w : /\ w[h].spent \subseteq v[h].spent
                           /\ w[h].hashBlock # Null => v[h].hashBlock # Null

(* The transactions of the chain to b, and those the wallet has heard when *)
(* it was told n of block b itself.                                        *)
Chain(b) == ChainTxs(ChainTo(b))
Heard(b, n) ==
    ChainTxs(ChainTo(b) \ {b}) \cup (IF b = Genesis THEN {} ELSE {vtx[b][i] : i \in 1..n})

(***************************************************************************)
(* The inductive invariant                                                 *)
(***************************************************************************)
Trying == IF pc = "chain" THEN Ancestors[at] ELSE {}
Common == ChainTxs(ChainTo(best) \cap ChainTo(bestblock))
Followed == IF scan = Null THEN Chain(best) ELSE Heard(scan.pindex, scan.n)

TypeInv ==
    /\ best \in Block /\ bestblock \in Block
    /\ backup = [disk |-> backup.disk, bestblock |-> backup.bestblock]
    /\ backup.bestblock \in Block
    /\ IsWallet(disk) /\ IsWallet(backup.disk) /\ IsWallet(mapWallet)
    /\ writing \in Tx \cup {Null} /\ marking \subseteq Tx
    /\ pc \in {"idle", "chain", "locate", "commit", "down"}

(* Where SetBestChain and a scan stand.  Only a start ever scans: the      *)
(* scan for missing transactions has nothing to look for.                  *)
StandsOK ==
    /\ ValidChain[best]
    /\ pc = "chain" => /\ target \in Block /\ at \in Ancestors[target] /\ ValidChain[at]
                       /\ told \in 0..Len(vtx[at])
    /\ scan # Null => /\ pc = "idle"
                      /\ scan \in [pindex : Ancestors[best], n : Nat, fUpdate : {TRUE},
                                   ret : BOOLEAN]
                      /\ scan.n < Len(vtx[scan.pindex])

(* The file lags behind memory by what is to be written.                   *)
FileOK ==
    /\ pc = "down" => writing = Null /\ marking = {}
    /\ pc # "down" =>
        /\ DOMAIN mapWallet = DOMAIN disk \cup ({writing} \ {Null})
        /\ marking \subseteq DOMAIN mapWallet
        /\ \A h \in DOMAIN mapWallet \ (marking \cup {writing}) : disk[h] = mapWallet[h]
        /\ Later(disk, mapWallet)

KnowsOK ==
    /\ Knows(disk, Chain(bestblock))
    /\ Knows(backup.disk, Chain(backup.bestblock))
    /\ pc # "down" => Knows(mapWallet, Followed)
    /\ pc = "chain" => Knows(mapWallet, Heard(at, told))

PlacesOK ==
    /\ Places(disk, Common, Ancestors[best] \cup Ancestors[bestblock] \cup givenUp \cup Trying)
    /\ pc # "down" =>
        /\ Places(mapWallet, Common,
                  Ancestors[best] \cup Ancestors[bestblock] \cup givenUp \cup Trying)
        /\ Places(mapWallet, Followed, Ancestors[best] \cup givenUp \cup Trying)
    /\ pc = "chain" => Places(mapWallet, Heard(at, told), Ancestors[at] \cup givenUp)

BackedOK == Backed(disk) /\ Backed(backup.disk) /\ Backed(mapWallet)

IInv == TypeInv /\ StandsOK /\ FileOK /\ KnowsOK /\ PlacesOK /\ BackedOK

(***************************************************************************)
(* The tree                                                                *)
(***************************************************************************)
LEMMA ForkIs ==
    ASSUME NEW a \in Block, NEW b \in Block
    PROVE  Fork(a, b) \in Ancestors[a] \cap Ancestors[b]
<1> DEFINE Highest(x, c) == /\ c \in Ancestors[x] \cap Ancestors[b]
                            /\ \A d \in Ancestors[x] \cap Ancestors[b] : nHeight[d] <= nHeight[c]
           T == {x \in Block : \E c : Highest(x, c)}
<1>1. Genesis \in T
  <2>1. Genesis \in Block /\ Ancestors[Genesis] = {Genesis} /\ Genesis \in Ancestors[b]
    BY TreeAssumption, AncestorsOfGenesis, GenesisIsAncestor
  <2>2. nHeight[Genesis] \in Int BY <2>1, HeightGrows
  <2>3. Highest(Genesis, Genesis) BY <2>1, <2>2
  <2> QED BY <2>1, <2>3
<1>2. ASSUME NEW x \in NonGenesis, hashPrevBlock[x] \in T PROVE x \in T
  <2>1. x \in Block /\ x # Genesis BY DEF NonGenesis
  <2>2. Ancestors[x] = {x} \cup Ancestors[hashPrevBlock[x]] BY <2>1, AncestorsUnfold
  <2>3. CASE x \in Ancestors[b]
    <3>1. \A d \in Ancestors[x] : nHeight[d] <= nHeight[x] BY <2>1, HeightGrows
    <3>2. Highest(x, x) BY <2>1, <2>3, <3>1, AncestorsType
    <3> QED BY <2>1, <3>2
  <2>4. CASE x \notin Ancestors[b]
    <3>1. PICK c : Highest(hashPrevBlock[x], c) BY <1>2
    <3>2. Highest(x, c) BY <2>2, <2>4, <3>1
    <3> QED BY <2>1, <3>2
  <2> QED BY <2>3, <2>4
<1>3. T \in SUBSET Block OBVIOUS
<1>4. T = Block
  <2> HIDE DEF T
  <2> QED BY <1>1, <1>2, <1>3, TreeInduction
<1>5. PICK c : Highest(a, c) BY <1>4
<1> QED BY <1>5 DEF Fork

(* Told of all of a block, the wallet has heard the chain to it; told of   *)
(* nothing of the next, it has heard no more.                              *)
LEMMA HeardAll ==
    ASSUME NEW b \in Block
    PROVE  Chain(b) \subseteq Heard(b, Len(vtx[b]))
<1>1. vtx[b] \in Seq(Tx) BY TxAssumption
<1>2. txs(b) = {vtx[b][i] : i \in 1..Len(vtx[b])} BY <1>1 DEF txs
<1> QED BY <1>2 DEF Chain, Heard, ChainTxs, ChainTo

LEMMA HeardNone ==
    ASSUME NEW b \in NonGenesis
    PROVE  /\ Heard(b, 0) = Chain(hashPrevBlock[b])
           /\ ChainTo(b) \ {b} = ChainTo(hashPrevBlock[b])
<1>1. b \in Block /\ b # Genesis BY DEF NonGenesis
<1>2. Ancestors[b] = {b} \cup Ancestors[hashPrevBlock[b]] BY <1>1, AncestorsUnfold
<1>3. b \notin Ancestors[hashPrevBlock[b]] BY <1>1, NoCycle
<1>4. ChainTo(b) \ {b} = ChainTo(hashPrevBlock[b]) BY <1>2, <1>3 DEF ChainTo
<1>5. 1..0 = {} OBVIOUS
<1> QED BY <1>1, <1>4, <1>5 DEF Heard, Chain

LEMMA HeardInChain ==
    ASSUME NEW b \in Block, NEW n \in 0..Len(vtx[b])
    PROVE  /\ Heard(b, n) \subseteq Chain(b)
           /\ Heard(b, n) \subseteq Heard(b, Len(vtx[b]))
<1>1. vtx[b] \in Seq(Tx) BY TxAssumption
<1>2. \A i \in 1..n : vtx[b][i] \in txs(b) /\ i \in 1..Len(vtx[b]) BY <1>1 DEF txs
<1>3. b # Genesis => b \in ChainTo(b) BY AncestorsType DEF ChainTo
<1> QED BY <1>2, <1>3 DEF Chain, Heard, ChainTxs

LEMMA HeardNext ==
    ASSUME NEW b \in Block, NEW n \in 0..(Len(vtx[b]) - 1)
    PROVE  /\ vtx[b][n + 1] \in txs(b) /\ vtx[b][n + 1] \in Tx
           /\ Heard(b, n + 1) \subseteq Heard(b, n) \cup {vtx[b][n + 1]}
           /\ n + 1 \in 0..Len(vtx[b])
<1>1. vtx[b] \in Seq(Tx) /\ Len(vtx[b]) \in Nat BY TxAssumption
<1>2. n + 1 \in DOMAIN vtx[b] BY <1>1
<1>3. 1..(n + 1) = 1..n \cup {n + 1} BY <1>1
<1> QED BY <1>1, <1>2, <1>3 DEF Heard, txs

LEMMA ChainBelow ==
    ASSUME NEW b \in Block, NEW a \in Ancestors[b]
    PROVE  ChainTo(a) \subseteq ChainTo(b) /\ Chain(a) \subseteq Chain(b)
BY AncestorsTransitive DEF ChainTo, Chain, ChainTxs

(* What a transaction of a block spends was heard before it.               *)
LEMMA InputsHeard ==
    ASSUME NoRepeats, NEW b \in Block, b # Genesis, ValidChain[b],
           NEW n \in 0..(Len(vtx[b]) - 1), NEW o \in vin[vtx[b][n + 1]]
    PROVE  o.hash \in Heard(b, n)
<1>1. b \in NonGenesis BY DEF NonGenesis
<1>2. hashPrevBlock[b] \in Block BY <1>1, TreeAssumption
<1>3. ConnectBlockOK(TxIndexOf[hashPrevBlock[b]], b) BY <1>1, ValidUnfold
<1>4. n + 1 \in DOMAIN vtx[b]
  <2>1. vtx[b] \in Seq(Tx) BY TxAssumption
  <2> QED BY <2>1
<1>5. o.hash \in {vtx[b][j] : j \in 1..n} \cup DOMAIN TxIndexOf[hashPrevBlock[b]]
  <2>1. InputsConnect(TxIndexOf[hashPrevBlock[b]], b, n + 1) BY <1>3, <1>4 DEF ConnectBlockOK
  <2>2. n + 1 - 1 = n OBVIOUS
  <2> QED BY <2>1, <2>2 DEF InputsConnect
<1>6. DOMAIN TxIndexOf[hashPrevBlock[b]] = Chain(hashPrevBlock[b])
  BY <1>2, TxIndexOfType DEF Chain
<1>7. Chain(hashPrevBlock[b]) = ChainTxs(ChainTo(b) \ {b})
  BY <1>1, HeardNone DEF Chain
<1> QED BY <1>5, <1>6, <1>7 DEF Heard

(***************************************************************************)
(* What the wallet's operations make of it                                 *)
(***************************************************************************)
LEMMA EmptyWallet ==
    /\ IsWallet(<< >>) /\ Backed(<< >>) /\ DOMAIN << >> = {}
    /\ \A S, B : Places(<< >>, S, B)
BY DEF IsWallet, Backed, Places

LEMMA LaterKnows ==
    ASSUME NEW w, NEW v, Later(w, v), NEW S, Knows(w, S)
    PROVE  Knows(v, S)
BY DEF Later, Knows, Told

LEMMA MarkSpentIs ==
    ASSUME NEW w, IsWallet(w), NEW coins
    PROVE  /\ IsWallet(MarkSpent(w, coins)) /\ Later(w, MarkSpent(w, coins))
           /\ DOMAIN MarkSpent(w, coins) = DOMAIN w
           /\ \A h \in DOMAIN w :
                 /\ MarkSpent(w, coins)[h].hashBlock = w[h].hashBlock
                 /\ MarkSpent(w, coins)[h].spent =
                        w[h].spent \cup {o.n : o \in {x \in coins : x.hash = h}}
                 /\ h \notin Hashes(coins) => MarkSpent(w, coins)[h] = w[h]
<1> DEFINE v == MarkSpent(w, coins)
           marks(h) == {o.n : o \in {x \in coins : x.hash = h}}
<1>1. DOMAIN v = DOMAIN w BY DEF MarkSpent
<1>2. ASSUME NEW h \in DOMAIN w
      PROVE  /\ v[h] = [hashBlock |-> w[h].hashBlock, spent |-> w[h].spent \cup marks(h),
                        vtxPrev |-> w[h].vtxPrev]
             /\ h \notin Hashes(coins) => v[h] = w[h]
  <2>1. w[h] = [hashBlock |-> w[h].hashBlock, spent |-> w[h].spent, vtxPrev |-> w[h].vtxPrev]
    BY DEF IsWallet
  <2>2. v[h] = [w[h] EXCEPT !.spent = w[h].spent \cup marks(h)] BY DEF MarkSpent
  <2>3. v[h] = [hashBlock |-> w[h].hashBlock, spent |-> w[h].spent \cup marks(h),
                vtxPrev |-> w[h].vtxPrev]
    <3> HIDE DEF v, marks
    <3> QED BY <2>1, <2>2
  <2>4. h \notin Hashes(coins) => marks(h) = {} BY DEF Hashes
  <2> HIDE DEF v, marks
  <2>5. h \notin Hashes(coins) => w[h].spent \cup marks(h) = w[h].spent BY <2>4
  <2> QED BY <2>1, <2>3, <2>5
<1>3. v = [h \in DOMAIN v |-> v[h]] BY DEF MarkSpent
<1>4. ASSUME NEW h \in DOMAIN w
      PROVE  /\ v[h].hashBlock = w[h].hashBlock
             /\ v[h].spent = w[h].spent \cup marks(h)
             /\ v[h] = [hashBlock |-> v[h].hashBlock, spent |-> v[h].spent,
                        vtxPrev |-> v[h].vtxPrev]
  <2> HIDE DEF v
  <2>1. PICK m : m = w[h].spent \cup marks(h) OBVIOUS
  <2>2. v[h] = [hashBlock |-> w[h].hashBlock, spent |-> m, vtxPrev |-> w[h].vtxPrev]
    BY <1>2, <2>1
  <2> HIDE DEF marks
  <2> QED BY <2>1, <2>2
<1> HIDE DEF v
<1>5. IsWallet(v)
  <2>1. v = [h \in DOMAIN v |-> [hashBlock |-> v[h].hashBlock, spent |-> v[h].spent,
                                 vtxPrev |-> v[h].vtxPrev]]
    BY <1>1, <1>3, <1>4
  <2> QED BY <1>1, <1>4, <2>1 DEF IsWallet
<1>6. Later(w, v) BY <1>1, <1>4 DEF Later
<1> QED BY <1>1, <1>2, <1>4, <1>5, <1>6 DEF v

LEMMA MarkNothing ==
    ASSUME NEW w, IsWallet(w)
    PROVE  MarkSpent(w, {}) = w /\ Hashes({}) = {}
<1> DEFINE v == MarkSpent(w, {})
<1>1. Hashes({}) = {} BY DEF Hashes
<1>2. DOMAIN v = DOMAIN w /\ \A h \in DOMAIN w : v[h] = w[h] BY <1>1, MarkSpentIs
<1>3. v = [h \in DOMAIN v |-> v[h]] BY DEF MarkSpent
<1>4. w = [h \in DOMAIN w |-> w[h]] BY DEF IsWallet
<1> HIDE DEF v
<1>5. v = w BY <1>2, <1>3, <1>4
<1> QED BY <1>1, <1>5 DEF v

(* S is what a call for transaction t of block b, or of none, makes of w:  *)
(* the wallet and the records to write.                                    *)
Adds(w, t, b, S) ==
    /\ IsWallet(S.w) /\ Backed(S.w) /\ Later(w, S.w)
    /\ S.first \in {t, Null} /\ S.then \subseteq DOMAIN S.w
    /\ DOMAIN S.w = DOMAIN w \cup ({S.first} \ {Null})
    /\ \A h \in DOMAIN w : h \notin S.then \cup {S.first} => S.w[h] = w[h]
    /\ \A h \in DOMAIN w \ {t} : S.w[h].hashBlock = w[h].hashBlock
    /\ t \in DOMAIN S.w => S.w[t].hashBlock = IF b = Null /\ t \in DOMAIN w
                                              THEN w[t].hashBlock ELSE b
    /\ \A o \in vin[t] \cap Mine : o.hash \in DOMAIN w => o.n \in S.w[o.hash].spent

LEMMA AddToWalletAdds ==
    ASSUME NEW w, IsWallet(w), Backed(w), NEW t \in Tx, NEW b \in Block \cup {Null},
           b # Null => t \in txs(b), NEW prev
    PROVE  LET S == AddToWallet(w, t, [hashBlock |-> b, spent |-> {}, vtxPrev |-> prev])
           IN  Adds(w, t, b, S) /\ t \in DOMAIN S.w
<1> DEFINE wtxIn == [hashBlock |-> b, spent |-> {}, vtxPrev |-> prev]
           fExisted == t \in DOMAIN w
           fUpdated == fExisted /\ b \notin {Null, w[t].hashBlock}
           wtx == IF ~fExisted THEN wtxIn
                  ELSE IF fUpdated THEN [w[t] EXCEPT !.hashBlock = b] ELSE w[t]
           u == [h \in DOMAIN w \cup {t} |-> IF h = t THEN wtx ELSE w[h]]
           found == {o \in vin[t] \cap Mine : o.hash \in DOMAIN u /\ o.n \notin u[o.hash].spent}
           S == AddToWallet(w, t, wtxIn)
<1>1. S = [w |-> MarkSpent(u, found), first |-> IF fExisted => fUpdated THEN t ELSE Null,
           then |-> Hashes(found)]
  BY DEF AddToWallet, WalletUpdateSpent
<1>a. S.w = MarkSpent(u, found) /\ S.then = Hashes(found)
      /\ S.first = (IF fExisted => fUpdated THEN t ELSE Null)
  <2> HIDE DEF S, u, found, fExisted, fUpdated
  <2> QED BY <1>1
<1>2. /\ fExisted => w[t] = [hashBlock |-> w[t].hashBlock, spent |-> w[t].spent,
                             vtxPrev |-> w[t].vtxPrev]
      /\ DOMAIN w \subseteq Tx
  BY DEF IsWallet
<1>3. wtx = [hashBlock |-> IF ~fExisted \/ fUpdated THEN b ELSE w[t].hashBlock,
             spent |-> IF fExisted THEN w[t].spent ELSE {},
             vtxPrev |-> IF fExisted THEN w[t].vtxPrev ELSE prev]
  <2>1. CASE ~fExisted BY <2>1
  <2>2. CASE fUpdated
    <3>1. wtx = [w[t] EXCEPT !.hashBlock = b] BY <2>2
    <3> HIDE DEF wtx
    <3> QED BY <1>2, <2>2, <3>1
  <2>3. CASE fExisted /\ ~fUpdated
    <3>1. wtx = w[t] BY <2>3
    <3> HIDE DEF wtx
    <3> QED BY <1>2, <2>3, <3>1
  <2> QED BY <2>1, <2>2, <2>3
<1>4. DOMAIN u = DOMAIN w \cup {t} /\ u[t] = wtx /\ \A h \in DOMAIN w \ {t} : u[h] = w[h]
  OBVIOUS
<1>b. u = [h \in DOMAIN u |-> u[h]] OBVIOUS
<1>5. /\ u[t].spent = (IF fExisted THEN w[t].spent ELSE {})
      /\ u[t].hashBlock = (IF ~fExisted \/ fUpdated THEN b ELSE w[t].hashBlock)
      /\ u[t] = [hashBlock |-> u[t].hashBlock, spent |-> u[t].spent, vtxPrev |-> u[t].vtxPrev]
  BY <1>3, <1>4
<1>c. fExisted /\ ~fUpdated => u[t] = w[t] BY <1>4
<1> HIDE DEF u, wtx
<1>6. IsWallet(u)
  <2>1. \A h \in DOMAIN u : u[h] = [hashBlock |-> u[h].hashBlock, spent |-> u[h].spent,
                                    vtxPrev |-> u[h].vtxPrev]
    BY <1>4, <1>5 DEF IsWallet
  <2>2. u = [h \in DOMAIN u |-> [hashBlock |-> u[h].hashBlock, spent |-> u[h].spent,
                                 vtxPrev |-> u[h].vtxPrev]]
    BY <1>b, <2>1
  <2>3. \A h \in DOMAIN u : u[h].hashBlock # Null => u[h].hashBlock \in Block
                                                   /\ h \in txs(u[h].hashBlock)
    BY <1>4, <1>5 DEF IsWallet
  <2> QED BY <1>2, <1>4, <2>2, <2>3 DEF IsWallet
<1>7. Later(w, u) BY <1>4, <1>5 DEF Later
<1> HIDE DEF found
<1>8. /\ IsWallet(MarkSpent(u, found)) /\ Later(u, MarkSpent(u, found))
      /\ DOMAIN MarkSpent(u, found) = DOMAIN u
      /\ \A h \in DOMAIN u :
            /\ MarkSpent(u, found)[h].hashBlock = u[h].hashBlock
            /\ MarkSpent(u, found)[h].spent =
                   u[h].spent \cup {o.n : o \in {x \in found : x.hash = h}}
            /\ h \notin Hashes(found) => MarkSpent(u, found)[h] = u[h]
  BY <1>6, MarkSpentIs
<1>9. /\ IsWallet(S.w) /\ Later(u, S.w) /\ DOMAIN S.w = DOMAIN w \cup {t}
      /\ \A h \in DOMAIN u :
            /\ S.w[h].hashBlock = u[h].hashBlock
            /\ S.w[h].spent = u[h].spent \cup {o.n : o \in {x \in found : x.hash = h}}
            /\ h \notin S.then => S.w[h] = u[h]
  BY <1>4, <1>8, <1>a
<1>10. S.then \subseteq DOMAIN S.w /\ Null # t
  <2>1. found \subseteq {o \in vin[t] : o.hash \in DOMAIN u} BY DEF found
  <2>2. Hashes(found) \subseteq DOMAIN u BY <2>1 DEF Hashes
  <2> QED BY <1>4, <1>9, <1>a, <2>2, WalletAssumption
<1> HIDE DEF S
<1>11. S.first \in {t, Null} /\ DOMAIN S.w = DOMAIN w \cup ({S.first} \ {Null})
  BY <1>9, <1>10, <1>a
<1>12. \A h \in DOMAIN w : h \notin S.then \cup {S.first} => S.w[h] = w[h]
  BY <1>4, <1>9, <1>a, <1>c
<1>13. \A h \in DOMAIN w \ {t} : S.w[h].hashBlock = w[h].hashBlock BY <1>4, <1>9
<1>14. S.w[t].hashBlock = IF b = Null /\ t \in DOMAIN w THEN w[t].hashBlock ELSE b
  BY <1>4, <1>5, <1>9
<1>15. \A o \in vin[t] \cap Mine : o.hash \in DOMAIN w => o.n \in S.w[o.hash].spent
  <2> SUFFICES ASSUME NEW o \in vin[t] \cap Mine, o.hash \in DOMAIN w
               PROVE  o.n \in S.w[o.hash].spent
    OBVIOUS
  <2>1. o \in found \/ o.n \in u[o.hash].spent BY <1>4 DEF found
  <2> QED BY <1>4, <1>9, <2>1
<1>16. Backed(S.w)
  <2> SUFFICES ASSUME NEW h \in DOMAIN S.w, NEW n \in S.w[h].spent
               PROVE  \E x \in DOMAIN S.w : [hash |-> h, n |-> n] \in vin[x]
    BY DEF Backed
  <2>1. CASE n \in u[h].spent
    <3>1. h \in DOMAIN w /\ n \in w[h].spent BY <1>4, <1>5, <1>9, <2>1
    <3> QED BY <1>9, <3>1 DEF Backed
  <2>2. CASE n \notin u[h].spent
    <3>1. PICK o \in found : o.hash = h /\ o.n = n BY <1>4, <1>9, <2>2
    <3>2. o \in vin[t] BY <3>1 DEF found
    <3>3. o = [hash |-> o.hash, n |-> o.n] BY <3>2, TxAssumption DEF OutPoint
    <3> QED BY <1>9, <3>1, <3>2, <3>3
  <2> QED BY <2>1, <2>2
<1>17. Later(w, S.w) BY <1>7, <1>9 DEF Later
<1> QED BY <1>9, <1>10, <1>11, <1>12, <1>13, <1>14, <1>15, <1>16, <1>17 DEF Adds, S

LEMMA InvolvingAdds ==
    ASSUME NEW w, IsWallet(w), Backed(w), NEW t \in Tx, NEW b \in Block \cup {Null},
           b # Null => t \in txs(b)
    PROVE  LET S == AddToWalletIfInvolvingMe(w, t, b, TRUE)
           IN  Adds(w, t, b, S) /\ (IsMine(t) => t \in DOMAIN S.w)
<1> DEFINE S == AddToWalletIfInvolvingMe(w, t, b, TRUE)
           A == AddToWallet(w, t, [hashBlock |-> b, spent |-> {}, vtxPrev |-> << >>])
           U == WalletUpdateSpent(w, t, FALSE)
<1>1. CASE t \in DOMAIN w \/ IsMine(t) \/ IsFromMe(w, t)
  <2>1. S = A BY <1>1 DEF AddToWalletIfInvolvingMe
  <2>2. Adds(w, t, b, A) /\ t \in DOMAIN A.w BY AddToWalletAdds
  <2> QED BY <2>1, <2>2
<1>2. CASE ~(t \in DOMAIN w \/ IsMine(t) \/ IsFromMe(w, t))
  <2>1. S = U BY <1>2 DEF AddToWalletIfInvolvingMe
  <2>2. {o \in vin[t] \cap Mine : o.hash \in DOMAIN w /\ o.n \notin w[o.hash].spent} = {}
    BY <1>2 DEF IsFromMe
  <2>3. U = [w |-> MarkSpent(w, {}), first |-> Null, then |-> Hashes({})]
    BY <2>2 DEF WalletUpdateSpent
  <2>4. U = [w |-> w, first |-> Null, then |-> {}] BY <2>3, MarkNothing
  <2>5. S.w = w /\ S.first = Null /\ S.then = {}
    <3> HIDE DEF S, U
    <3> QED BY <2>1, <2>4
  <2> HIDE DEF S
  <2>6. Later(w, w) BY DEF Later
  <2>7. Adds(w, t, b, S) BY <1>2, <2>5, <2>6 DEF Adds, IsFromMe
  <2> QED BY <1>2, <2>7 DEF S
<1> QED BY <1>1, <1>2

(***************************************************************************)
(* The invariant under each action                                         *)
(***************************************************************************)
(* No chain has a transaction in two of its blocks, Genesis included.      *)
ChainsRepeatNothing == \A b \in Block : RepeatsNone(Ancestors[b])

LEMMA RepeatNothing == ChainsRepeatNothing => NoRepeats
BY DEF ChainsRepeatNothing, NoRepeats, RepeatsNone

LEMMA PlacesMore ==
    ASSUME NEW w, NEW S, NEW B, Places(w, S, B), NEW R \in SUBSET S, NEW D, B \subseteq D
    PROVE  Places(w, R, D)
BY DEF Places

(* A block of the chain to b that has a transaction of the chain to a is   *)
(* in the chain to a.                                                      *)
LEMMA Narrow ==
    ASSUME ChainsRepeatNothing, NEW w, IsWallet(w), NEW b \in Block, NEW a \in Ancestors[b],
           NEW S \in SUBSET Chain(a), NEW G, Places(w, S, Ancestors[b] \cup G)
    PROVE  Places(w, S, Ancestors[a] \cup G)
<1> SUFFICES ASSUME NEW t \in S \cap DOMAIN w, w[t].hashBlock \in Ancestors[b],
                    w[t].hashBlock # Null
             PROVE  w[t].hashBlock \in Ancestors[a]
  BY DEF Places
<1>1. PICK c \in Ancestors[a] : t \in txs(c) BY DEF Chain, ChainTxs, ChainTo
<1>2. t \in txs(w[t].hashBlock) BY DEF IsWallet
<1>3. Ancestors[a] \subseteq Ancestors[b] BY AncestorsTransitive
<1> QED BY <1>1, <1>2, <1>3 DEF ChainsRepeatNothing, RepeatsNone

(* What a call makes of the invariant's parts.                             *)
LEMMA CallKeeps ==
    ASSUME TypeInv, FileOK, BackedOK, pc # "down", Written,
           NEW t \in Tx, NEW b \in Block \cup {Null}, NEW S, Adds(mapWallet, t, b, S), Becomes(S),
           disk' = disk
    PROVE  /\ IsWallet(mapWallet') /\ Backed(mapWallet') /\ Later(mapWallet, mapWallet')
           /\ writing' \in Tx \cup {Null} /\ marking' \subseteq Tx
           /\ DOMAIN mapWallet' = DOMAIN disk' \cup ({writing'} \ {Null})
           /\ marking' \subseteq DOMAIN mapWallet'
           /\ \A h \in DOMAIN mapWallet' \ (marking' \cup {writing'}) : disk'[h] = mapWallet'[h]
           /\ Later(disk', mapWallet')
           /\ \A R, B : Places(mapWallet, R, B) /\ b \in B \cup {Null} => Places(mapWallet', R, B)
           /\ b # Null => \A R, B : Places(mapWallet, R, B) /\ b \in B
                                      => Places(mapWallet', R \cup {t}, B)
<1>1. mapWallet' = S.w /\ writing' = S.first /\ marking' = S.then BY DEF Becomes
<1>2. /\ DOMAIN mapWallet = DOMAIN disk /\ DOMAIN disk \subseteq Tx
      /\ \A h \in DOMAIN mapWallet : disk[h] = mapWallet[h]
  BY WalletAssumption DEF Written, FileOK, TypeInv, IsWallet
<1>3. IsWallet(mapWallet') /\ Backed(mapWallet') /\ Later(mapWallet, mapWallet')
  BY <1>1 DEF Adds
<1>4. writing' \in Tx \cup {Null} /\ marking' \subseteq DOMAIN mapWallet' BY <1>1 DEF Adds
<1>5. marking' \subseteq Tx BY <1>3, <1>4 DEF IsWallet
<1>6. DOMAIN mapWallet' = DOMAIN disk' \cup ({writing'} \ {Null}) BY <1>1, <1>2 DEF Adds
<1>7. \A h \in DOMAIN mapWallet' \ (marking' \cup {writing'}) : disk'[h] = mapWallet'[h]
  BY <1>1, <1>2, <1>6 DEF Adds
<1>8. Later(disk', mapWallet') BY <1>2, <1>3 DEF Later
<1>9. \A h \in DOMAIN mapWallet' : h # t => /\ h \in DOMAIN mapWallet
                                           /\ mapWallet'[h].hashBlock = mapWallet[h].hashBlock
  BY <1>1 DEF Adds
<1>10. t \in DOMAIN mapWallet' =>
         mapWallet'[t].hashBlock = IF b = Null /\ t \in DOMAIN mapWallet
                                   THEN mapWallet[t].hashBlock ELSE b
  BY <1>1 DEF Adds
<1>11. ASSUME NEW R, NEW B, Places(mapWallet, R, B), b \in B \cup {Null}
       PROVE  Places(mapWallet', R, B)
  BY <1>9, <1>10, <1>11 DEF Places
<1>12. ASSUME b # Null, NEW R, NEW B, Places(mapWallet, R, B), b \in B
       PROVE  Places(mapWallet', R \cup {t}, B)
  BY <1>9, <1>10, <1>12 DEF Places
<1> QED BY <1>3, <1>4, <1>5, <1>6, <1>7, <1>8, <1>11, <1>12

(* Actions that change nothing of what the invariant says.                 *)
LEMMA Frame ==
    ASSUME IInv,
           UNCHANGED <<best, mapWallet, disk, bestblock, backup, writing, marking, target, at, told,
                       scan, givenUp>>,
           pc' \in {"idle", "chain", "locate", "commit", "down"},
           pc' = "chain" <=> pc = "chain", pc' = "down" <=> pc = "down",
           scan = Null \/ pc' = pc
    PROVE  IInv'
<1>1. TypeInv' BY DEF IInv, TypeInv, IsWallet
<1>2. StandsOK' BY DEF IInv, StandsOK
<1>3. FileOK' BY DEF IInv, FileOK, Later
<1>4. /\ Followed' = Followed /\ Common' = Common /\ Trying' = Trying
      /\ Heard(at, told)' = Heard(at, told) /\ Chain(bestblock)' = Chain(bestblock)
      /\ Chain(backup.bestblock)' = Chain(backup.bestblock)
  BY DEF Followed, Common, Trying, Heard, Chain
<1>5. KnowsOK' BY <1>4 DEF IInv, KnowsOK
<1>6. PlacesOK' BY <1>4 DEF IInv, PlacesOK
<1>7. BackedOK' BY DEF IInv, BackedOK, Backed
<1> QED BY <1>1, <1>2, <1>3, <1>5, <1>6, <1>7 DEF IInv

LEMMA WriteToDiskInv ==
    ASSUME IInv, NEW t \in Tx, WriteToDisk(t)
    PROVE  IInv'
<1> USE DEF IInv
<1>a. /\ UNCHANGED <<best, mapWallet, bestblock, backup, pc, target, at, told, scan, givenUp>>
      /\ disk' = [h \in DOMAIN disk \cup {t} |-> IF h = t THEN mapWallet[t] ELSE disk[h]]
      /\ writing' = Null /\ marking' = (IF writing # Null THEN marking ELSE marking \ {t})
      /\ IF writing # Null THEN t = writing ELSE t \in marking
  BY DEF WriteToDisk, chain, history
<1>1. pc # "down" /\ t \in DOMAIN mapWallet /\ DOMAIN mapWallet \subseteq Tx /\ Null \notin Tx
  BY <1>a, WalletAssumption DEF FileOK, TypeInv, IsWallet
<1>2. DOMAIN disk' = DOMAIN disk \cup {t} /\ DOMAIN disk' = DOMAIN mapWallet
  BY <1>a, <1>1 DEF FileOK
<1>3. disk'[t] = mapWallet[t] /\ \A h \in DOMAIN disk' : h # t => h \in DOMAIN disk /\ disk'[h] = disk[h]
  BY <1>a
<1>4. IsWallet(disk')
  <2>1. disk' = [h \in DOMAIN disk' |-> disk'[h]] BY <1>a
  <2>2. \A h \in DOMAIN disk' : disk'[h] = [hashBlock |-> disk'[h].hashBlock, spent |-> disk'[h].spent,
                                          vtxPrev |-> disk'[h].vtxPrev]
    BY <1>1, <1>3 DEF TypeInv, IsWallet
  <2>3. disk' = [h \in DOMAIN disk' |-> [hashBlock |-> disk'[h].hashBlock, spent |-> disk'[h].spent,
                                       vtxPrev |-> disk'[h].vtxPrev]]
    BY <2>1, <2>2
  <2>4. \A h \in DOMAIN disk' : disk'[h].hashBlock # Null => /\ disk'[h].hashBlock \in Block
                                                           /\ h \in txs(disk'[h].hashBlock)
    BY <1>1, <1>3 DEF TypeInv, IsWallet
  <2> QED BY <1>1, <1>2, <2>3, <2>4 DEF IsWallet
<1>5. Later(disk, disk') /\ Later(disk', mapWallet)
  BY <1>1, <1>2, <1>3 DEF FileOK, Later
<1>6. TypeInv'
  <2>1. IsWallet(mapWallet') /\ IsWallet(backup'.disk) BY <1>a DEF TypeInv
  <2>2. marking' \subseteq Tx BY <1>a DEF TypeInv
  <2> QED BY <1>a, <1>4, <2>1, <2>2 DEF TypeInv
<1>7. StandsOK' BY <1>a DEF StandsOK
<1>8. FileOK'
  <2>1. \A h \in DOMAIN mapWallet \ (marking' \cup {writing'}) : disk'[h] = mapWallet[h]
    BY <1>a, <1>1, <1>2, <1>3 DEF FileOK
  <2>2. marking' \subseteq DOMAIN mapWallet BY <1>a, <1>1 DEF FileOK
  <2>3. DOMAIN mapWallet = DOMAIN disk' \cup ({writing'} \ {Null}) BY <1>a, <1>2
  <2> QED BY <1>a, <1>1, <1>5, <2>1, <2>2, <2>3 DEF FileOK
<1>9. Followed' = Followed /\ Common' = Common /\ Trying' = Trying
      /\ Heard(at, told)' = Heard(at, told) /\ Chain(bestblock)' = Chain(bestblock)
      /\ Chain(backup.bestblock)' = Chain(backup.bestblock)
  BY <1>a DEF Followed, Common, Trying, Heard, Chain
<1>10. KnowsOK'
  <2>1. Knows(disk', Chain(bestblock)) BY <1>5, LaterKnows DEF KnowsOK
  <2> QED BY <1>a, <1>9, <2>1 DEF KnowsOK
<1>11. PlacesOK'
  <2> DEFINE B == Ancestors[best] \cup Ancestors[bestblock] \cup givenUp \cup Trying
  <2>1. Places(disk, Common, B) /\ Places(mapWallet, Common, B) BY <1>1 DEF PlacesOK
  <2>2. Places(disk', Common, B)
    <3> HIDE DEF B
    <3> QED BY <1>1, <1>3, <2>1 DEF Places
  <2> QED BY <1>a, <1>9, <2>2 DEF PlacesOK
<1>12. BackedOK'
  <2>1. Backed(disk') BY <1>2, <1>5 DEF BackedOK, Backed, Later
  <2> QED BY <1>a, <2>1 DEF BackedOK
<1> QED BY <1>6, <1>7, <1>8, <1>10, <1>11, <1>12

(* SetBestChain starts at the fork: the wallet has heard the chain to it.  *)
LEMMA SetBestChainInv ==
    ASSUME IInv, ChainsRepeatNothing, NEW b \in NonGenesis, SetBestChain(b)
    PROVE  IInv'
<1> USE DEF IInv
<1>a. /\ UNCHANGED <<best, mapWallet, disk, bestblock, backup, writing, marking, scan, givenUp>>
      /\ pc = "idle" /\ scan = Null /\ pc' = "chain" /\ target' = b
      /\ at' = Fork(best, b) /\ told' = Len(vtx[at'])
  BY DEF SetBestChain, Free, file, history
<1>b. b \in Block /\ best \in Block BY DEF NonGenesis, TypeInv
<1>1. at' \in Ancestors[best] /\ at' \in Ancestors[b] /\ at' \in Block
  BY <1>a, <1>b, ForkIs, AncestorsType
<1>2. vtx[at'] \in Seq(Tx) /\ told' \in 0..Len(vtx[at']) BY <1>a, <1>1, TxAssumption
<1>3. Chain(at') \subseteq Chain(best) /\ Heard(at', told') \subseteq Chain(at')
  BY <1>b, <1>1, <1>2, ChainBelow, HeardInChain
<1>4. Followed = Chain(best) /\ Followed' = Chain(best) /\ Common' = Common
  BY <1>a DEF Followed, Common, Chain
<1>5. Trying = {} /\ Trying' = Ancestors[at'] /\ Heard(at, told)' = Heard(at', told')
  BY <1>a DEF Trying, Heard
<1>6. TypeInv' BY <1>a DEF TypeInv
<1>7. StandsOK'
  <2>1. ValidChain[at'] BY <1>b, <1>1, ValidBelow DEF StandsOK
  <2> QED BY <1>a, <1>b, <1>1, <1>2, <2>1 DEF StandsOK
<1>8. FileOK' BY <1>a DEF FileOK
<1>9. KnowsOK'
  <2>1. Knows(mapWallet, Heard(at', told')) BY <1>a, <1>3, <1>4 DEF KnowsOK, Knows
  <2>2. Chain(bestblock)' = Chain(bestblock)
        /\ Chain(backup.bestblock)' = Chain(backup.bestblock)
    BY <1>a DEF Chain
  <2> QED BY <1>a, <1>4, <1>5, <2>1, <2>2 DEF KnowsOK
<1>10. PlacesOK'
  <2>1. Places(mapWallet, Heard(at', told'), Ancestors[at'] \cup givenUp)
    <3>1. Places(mapWallet, Heard(at', told'), Ancestors[best] \cup givenUp)
      BY <1>a, <1>3, <1>4, <1>5 DEF PlacesOK, Places
    <3> QED BY <1>b, <1>1, <1>3, <3>1, Narrow DEF TypeInv
  <2> QED BY <1>a, <1>4, <1>5, <2>1 DEF PlacesOK, Places
<1>11. BackedOK' BY <1>a DEF BackedOK
<1> QED BY <1>6, <1>7, <1>8, <1>9, <1>10, <1>11

LEMMA ConnectNextInv ==
    ASSUME IInv, ConnectNext
    PROVE  IInv'
<1> USE DEF IInv
<1> DEFINE b == NextOnBranch(at, target)
<1>a. /\ UNCHANGED <<best, target, mapWallet, disk, bestblock, backup, writing, marking, pc, scan,
                     givenUp>>
      /\ pc = "chain" /\ told = Len(vtx[at]) /\ at # target
      /\ ConnectBlockOK(TxIndexOf[at], b) /\ at' = b /\ told' = 0
  BY DEF ConnectNext, AllTold, file, history
<1>b. target \in Block /\ at \in Ancestors[target] /\ at \in Block /\ ValidChain[at] /\ scan = Null
  BY <1>a, AncestorsType DEF StandsOK
<1>1. b \in Ancestors[target] \ {Genesis} /\ hashPrevBlock[b] = at
  BY <1>a, <1>b, NextOnBranchType
<1>2. b \in NonGenesis /\ b \in Block BY <1>b, <1>1, AncestorsType DEF NonGenesis
<1> HIDE DEF b
<1>3. ValidChain[b] BY <1>a, <1>b, <1>1, <1>2, ValidUnfold
<1>4. Heard(b, 0) = Chain(at) /\ Chain(at) \subseteq Heard(at, told)
  BY <1>a, <1>b, <1>1, <1>2, HeardNone, HeardAll
<1>5. Ancestors[at] \subseteq Ancestors[b] BY <1>1, <1>2, AncestorsUnfold DEF NonGenesis
<1>6. /\ Followed' = Followed /\ Common' = Common /\ Trying = Ancestors[at] /\ Trying' = Ancestors[b]
      /\ Heard(at, told)' = Heard(b, 0) /\ Chain(bestblock)' = Chain(bestblock)
      /\ Chain(backup.bestblock)' = Chain(backup.bestblock)
  BY <1>a DEF Followed, Common, Trying, Heard, Chain
<1>7. TypeInv' BY <1>a DEF TypeInv
<1>8. StandsOK'
  <2>1. vtx[b] \in Seq(Tx) BY <1>2, TxAssumption
  <2>2. 0 \in 0..Len(vtx[b]) BY <2>1
  <2> QED BY <1>a, <1>b, <1>1, <1>3, <2>2 DEF StandsOK
<1>9. FileOK' BY <1>a DEF FileOK
<1>10. KnowsOK'
  <2>1. Knows(mapWallet, Heard(b, 0)) BY <1>a, <1>4 DEF KnowsOK, Knows
  <2> QED BY <1>a, <1>6, <2>1 DEF KnowsOK
<1>11. PlacesOK'
  <2>1. Places(mapWallet, Heard(b, 0), Ancestors[b] \cup givenUp)
    BY <1>a, <1>4, <1>5 DEF PlacesOK, Places
  <2>2. \A w, S, B : Places(w, S, B \cup Trying) => Places(w, S, B \cup Trying')
    BY <1>5, <1>6 DEF Places
  <2> QED BY <1>a, <1>6, <2>1, <2>2 DEF PlacesOK
<1>12. BackedOK' BY <1>a DEF BackedOK
<1> QED BY <1>7, <1>8, <1>9, <1>10, <1>11, <1>12

(* A call for the next transaction of a block: the wallet knows it too.    *)
LEMMA CallTells ==
    ASSUME ChainsRepeatNothing, NEW w, NEW b \in Block, ValidChain[b],
           NEW n \in 0..(Len(vtx[b]) - 1), NEW S, Adds(w, vtx[b][n + 1], b, S),
           IsMine(vtx[b][n + 1]) => vtx[b][n + 1] \in DOMAIN S.w, Knows(w, Heard(b, n))
    PROVE  Knows(S.w, Heard(b, n + 1))
<1> DEFINE t == vtx[b][n + 1]
<1>1. t \in Tx /\ Heard(b, n + 1) \subseteq Heard(b, n) \cup {t} BY HeardNext
<1>2. Knows(S.w, Heard(b, n)) BY LaterKnows DEF Adds
<1>3. CASE b = Genesis
  <2>1. Heard(b, n + 1) = Heard(b, n) BY <1>3 DEF Heard
  <2> QED BY <1>2, <2>1
<1>4. CASE b # Genesis
  <2>1. IsMine(t) => t \in DOMAIN S.w /\ S.w[t].hashBlock # Null
    BY TreeAssumption DEF Adds
  <2>2. ASSUME NEW o \in vin[t] \cap Mine
        PROVE  o.hash \in DOMAIN S.w /\ o.n \in S.w[o.hash].spent
    <3>1. o.hash \in Heard(b, n) BY <1>4, InputsHeard, RepeatNothing
    <3>2. IsMine(o.hash) BY DEF IsMine
    <3>3. o.hash \in DOMAIN w BY <3>1, <3>2 DEF Knows, Told
    <3> QED BY <3>3 DEF Adds, Later
  <2>3. Told(S.w, t) BY <2>1, <2>2 DEF Told
  <2> QED BY <1>1, <1>2, <2>3 DEF Knows
<1> QED BY <1>3, <1>4

LEMMA SyncWithWalletsInv ==
    ASSUME IInv, ChainsRepeatNothing, SyncWithWallets
    PROVE  IInv'
<1> USE DEF IInv
<1> DEFINE t == vtx[at][told + 1]
           S == AddToWalletIfInvolvingMe(mapWallet, t, at, TRUE)
<1>a. /\ UNCHANGED <<best, target, at, disk, bestblock, backup, pc, scan, givenUp>>
      /\ pc = "chain" /\ told # Len(vtx[at]) /\ scan = Null /\ Written
      /\ Becomes(S) /\ told' = told + 1
  BY DEF SyncWithWallets, AllTold, Free, file, history
<1>b. target \in Block /\ at \in Ancestors[target] /\ at \in Block /\ ValidChain[at]
  BY <1>a, AncestorsType DEF StandsOK
<1>c. told \in 0..(Len(vtx[at]) - 1)
  <2>1. vtx[at] \in Seq(Tx) BY <1>b, TxAssumption
  <2>2. told \in 0..Len(vtx[at]) BY <1>a DEF StandsOK
  <2> QED BY <1>a, <2>1, <2>2
<1>1. t \in Tx /\ t \in txs(at) /\ told + 1 \in 0..Len(vtx[at])
      /\ Heard(at, told + 1) \subseteq Heard(at, told) \cup {t}
  BY <1>b, <1>c, HeardNext
<1>d. IsWallet(mapWallet) /\ Backed(mapWallet) BY DEF TypeInv, BackedOK
<1>2. Adds(mapWallet, t, at, S) /\ (IsMine(t) => t \in DOMAIN S.w)
  BY <1>b, <1>1, <1>d, InvolvingAdds
<1>3. Knows(mapWallet, Heard(at, told)) /\ Knows(mapWallet, Followed)
  BY <1>a DEF KnowsOK
<1> HIDE DEF S
<1>4. Knows(S.w, Heard(at, told + 1)) BY <1>b, <1>c, <1>2, <1>3, CallTells
<1> HIDE DEF t
<1>e. pc # "down" /\ at \in Block \cup {Null} /\ disk' = disk BY <1>a, <1>b
<1>5. /\ IsWallet(mapWallet') /\ Backed(mapWallet') /\ Later(mapWallet, mapWallet')
      /\ writing' \in Tx \cup {Null} /\ marking' \subseteq Tx
      /\ DOMAIN mapWallet' = DOMAIN disk' \cup ({writing'} \ {Null})
      /\ marking' \subseteq DOMAIN mapWallet'
      /\ \A h \in DOMAIN mapWallet' \ (marking' \cup {writing'}) : disk'[h] = mapWallet'[h]
      /\ Later(disk', mapWallet')
      /\ \A R, B : Places(mapWallet, R, B) /\ at \in B \cup {Null} => Places(mapWallet', R, B)
      /\ at # Null => \A R, B : Places(mapWallet, R, B) /\ at \in B
                                   => Places(mapWallet', R \cup {t}, B)
  BY <1>a, <1>e, <1>1, <1>2, CallKeeps
<1>6. /\ Followed' = Followed /\ Common' = Common /\ Trying' = Trying /\ at \in Trying
      /\ Heard(at, told)' = Heard(at, told + 1) /\ Chain(bestblock)' = Chain(bestblock)
      /\ Chain(backup.bestblock)' = Chain(backup.bestblock)
  BY <1>a, <1>b, AncestorsType DEF Followed, Common, Trying, Heard, Chain
<1>7. TypeInv' BY <1>a, <1>5 DEF TypeInv
<1>8. StandsOK' BY <1>a, <1>1 DEF StandsOK
<1>9. FileOK' BY <1>a, <1>5 DEF FileOK
<1>10. KnowsOK'
  <2>1. Knows(mapWallet', Followed) BY <1>3, <1>5, LaterKnows
  <2>2. mapWallet' = S.w BY <1>a DEF Becomes
  <2> QED BY <1>a, <1>4, <1>6, <2>1, <2>2 DEF KnowsOK
<1>11. PlacesOK'
  <2> DEFINE B1 == Ancestors[best] \cup Ancestors[bestblock] \cup givenUp \cup Trying
             B2 == Ancestors[best] \cup givenUp \cup Trying
             B3 == Ancestors[at] \cup givenUp
  <2>1. /\ Places(mapWallet, Common, B1) /\ Places(mapWallet, Followed, B2)
        /\ Places(mapWallet, Heard(at, told), B3)
    BY <1>a DEF PlacesOK
  <2>2. at \in B1 /\ at \in B2 /\ at \in B3 /\ at # Null
    BY <1>b, <1>6, AncestorsType, TreeAssumption
  <2> HIDE DEF B1, B2, B3
  <2>3. Places(mapWallet', Common, B1) /\ Places(mapWallet', Followed, B2) BY <1>5, <2>1, <2>2
  <2>4. Places(mapWallet', Heard(at, told) \cup {t}, B3) BY <1>5, <2>1, <2>2
  <2>5. Places(mapWallet', Heard(at, told + 1), B3) BY <1>1, <2>4 DEF Places, t
  <2> QED BY <1>a, <1>6, <2>3, <2>5 DEF PlacesOK, B1, B2, B3
<1>12. BackedOK' BY <1>a, <1>5 DEF BackedOK
<1> QED BY <1>7, <1>8, <1>9, <1>10, <1>11, <1>12

(* The wallet has heard of the blocks the abandoned branch added.          *)
LEMMA ConnectFailsInv ==
    ASSUME IInv, ConnectFails
    PROVE  IInv'
<1> USE DEF IInv
<1>a. /\ UNCHANGED <<best, mapWallet, disk, bestblock, backup, writing, marking, scan>>
      /\ pc = "chain" /\ pc' = "idle"
      /\ givenUp' = givenUp \cup (Ancestors[at] \ Ancestors[best])
  BY DEF ConnectFails, file
<1>1. scan = Null BY <1>a DEF StandsOK
<1>2. /\ Followed' = Followed /\ Common' = Common /\ Trying = Ancestors[at] /\ Trying' = {}
      /\ Chain(bestblock)' = Chain(bestblock)
      /\ Chain(backup.bestblock)' = Chain(backup.bestblock)
  BY <1>a DEF Followed, Common, Trying, Heard, Chain
<1>3. TypeInv' BY <1>a DEF TypeInv
<1>4. StandsOK' BY <1>a, <1>1 DEF StandsOK
<1>5. FileOK' BY <1>a DEF FileOK
<1>6. KnowsOK' BY <1>a, <1>2 DEF KnowsOK
<1>7. PlacesOK'
  <2>1. \A w, S, B : Places(w, S, Ancestors[best] \cup B \cup givenUp \cup Trying)
                       => Places(w, S, Ancestors[best] \cup B \cup givenUp' \cup Trying')
    BY <1>a, <1>2 DEF Places
  <2>2. \A w, S : Places(w, S, Ancestors[best] \cup givenUp \cup Trying)
                    => Places(w, S, Ancestors[best] \cup givenUp' \cup Trying')
    BY <1>a, <1>2 DEF Places
  <2> QED BY <1>a, <1>2, <2>1, <2>2 DEF PlacesOK
<1>8. BackedOK' BY <1>a DEF BackedOK
<1> QED BY <1>3, <1>4, <1>5, <1>6, <1>7, <1>8

LEMMA StopInv ==
    ASSUME IInv, Stop
    PROVE  IInv'
<1> USE DEF IInv
<1>a. /\ UNCHANGED <<best, disk, bestblock, backup>>
      /\ pc # "down" /\ pc' = "down" /\ mapWallet' = << >>
      /\ writing' = Null /\ marking' = {} /\ scan' = Null
      /\ givenUp' = givenUp \cup (IF pc = "chain" THEN Ancestors[at] \ Ancestors[best] ELSE {})
  BY DEF Stop, file
<1>2. /\ Common' = Common /\ Trying' = {} /\ Chain(bestblock)' = Chain(bestblock)
      /\ Chain(backup.bestblock)' = Chain(backup.bestblock)
      /\ Trying \ Ancestors[best] \subseteq givenUp' /\ givenUp \subseteq givenUp'
  BY <1>a DEF Common, Trying, Chain
<1>3. TypeInv' BY <1>a, EmptyWallet DEF TypeInv
<1>4. StandsOK' BY <1>a DEF StandsOK
<1>5. FileOK' BY <1>a DEF FileOK
<1>6. KnowsOK' BY <1>a, <1>2 DEF KnowsOK
<1>7. PlacesOK' BY <1>a, <1>2 DEF PlacesOK, Places
<1>8. BackedOK' BY <1>a, EmptyWallet DEF BackedOK
<1> QED BY <1>3, <1>4, <1>5, <1>6, <1>7, <1>8

(* With nothing left to write the file holds what memory holds.            *)
LEMMA WrittenFile ==
    ASSUME IInv, pc # "down", Written
    PROVE  disk = mapWallet
<1>1. IsWallet(disk) /\ IsWallet(mapWallet) BY DEF IInv, TypeInv
<1>2. DOMAIN mapWallet = DOMAIN disk BY DEF IInv, FileOK, Written
<1>3. \A h \in DOMAIN mapWallet : disk[h] = mapWallet[h]
  BY <1>1, WalletAssumption DEF IInv, FileOK, Written, IsWallet
<1>4. disk = [h \in DOMAIN disk |-> disk[h]] /\ mapWallet = [h \in DOMAIN mapWallet |-> mapWallet[h]]
  BY <1>1 DEF IsWallet
<1> QED BY <1>2, <1>3, <1>4

LEMMA CommitInv ==
    ASSUME IInv, Commit
    PROVE  IInv'
<1> USE DEF IInv
<1>a. /\ UNCHANGED <<mapWallet, disk, bestblock, backup, writing, marking, scan, givenUp>>
      /\ pc = "chain" /\ pc' = "locate" /\ told = Len(vtx[at]) /\ scan = Null /\ Written
      /\ at = target /\ best' = target
  BY DEF Commit, AllTold, Free, file, history
<1>b. at \in Block /\ best' = at /\ ValidChain[at] BY <1>a DEF StandsOK
<1>1. disk = mapWallet BY <1>a, WrittenFile
<1>2. Chain(at) \subseteq Heard(at, told) BY <1>a, <1>b, HeardAll
<1>3. /\ Followed' = Chain(at) /\ Common' \subseteq Chain(at) /\ Trying' = {}
      /\ Chain(bestblock)' = Chain(bestblock)
      /\ Chain(backup.bestblock)' = Chain(backup.bestblock)
  BY <1>a, <1>b DEF Followed, Common, Trying, Chain, ChainTxs
<1>4. Knows(mapWallet, Chain(at)) BY <1>a, <1>2 DEF KnowsOK, Knows
<1>5. Places(mapWallet, Chain(at), Ancestors[at] \cup givenUp) BY <1>a, <1>2 DEF PlacesOK, Places
<1>6. TypeInv' BY <1>a, <1>b DEF TypeInv
<1>7. StandsOK' BY <1>a, <1>b DEF StandsOK
<1>8. FileOK' BY <1>a DEF FileOK
<1>9. KnowsOK' BY <1>a, <1>3, <1>4 DEF KnowsOK
<1>10. PlacesOK' BY <1>a, <1>b, <1>1, <1>3, <1>5 DEF PlacesOK, Places
<1>11. BackedOK' BY <1>a DEF BackedOK
<1> QED BY <1>6, <1>7, <1>8, <1>9, <1>10, <1>11

LEMMA WriteBestBlockInv ==
    ASSUME IInv, WriteBestBlock
    PROVE  IInv'
<1>a. /\ UNCHANGED <<best, mapWallet, disk, backup, writing, marking, target, at, told, scan, givenUp>>
      /\ pc = "locate" /\ pc' = "idle" /\ scan = Null /\ Written
      /\ bestblock' \in {bestblock, best}
  BY DEF WriteBestBlock, Free, chain, history
<1>1. CASE bestblock' = bestblock BY <1>a, <1>1, Frame
<1>2. CASE bestblock' = best
  <2> USE DEF IInv
  <2>1. disk = mapWallet BY <1>a, WrittenFile
  <2>2. /\ Followed = Chain(best) /\ Followed' = Followed /\ Common' = Chain(best)
        /\ Trying = {} /\ Trying' = {} /\ Chain(bestblock)' = Chain(best)
        /\ Chain(backup.bestblock)' = Chain(backup.bestblock)
    BY <1>a, <1>2 DEF Followed, Common, Trying, Chain
  <2>3. Knows(mapWallet, Chain(best)) BY <1>a, <2>2 DEF KnowsOK
  <2>4. Places(mapWallet, Chain(best), Ancestors[best] \cup givenUp)
    BY <1>a, <2>2 DEF PlacesOK, Places
  <2>5. TypeInv' BY <1>a, <1>2 DEF TypeInv
  <2>6. StandsOK' BY <1>a DEF StandsOK
  <2>7. FileOK' BY <1>a DEF FileOK
  <2>8. KnowsOK' BY <1>a, <2>1, <2>2, <2>3 DEF KnowsOK
  <2>9. PlacesOK' BY <1>a, <1>2, <2>1, <2>2, <2>4 DEF PlacesOK, Places
  <2>10. BackedOK' BY <1>a DEF BackedOK
  <2> QED BY <2>5, <2>6, <2>7, <2>8, <2>9, <2>10
<1> QED BY <1>a, <1>1, <1>2

(* A transaction that is in no block yet is added.                         *)
LEMMA LooseInv ==
    ASSUME IInv, pc \notin {"down", "chain"}, pc' \in {"idle", "commit"}, scan = Null, Written,
           UNCHANGED <<best, disk, bestblock, backup, target, at, told, scan, givenUp>>,
           NEW t \in Tx, NEW S, Adds(mapWallet, t, Null, S), Becomes(S)
    PROVE  IInv'
<1> USE DEF IInv
<1>1. /\ IsWallet(mapWallet') /\ Backed(mapWallet') /\ Later(mapWallet, mapWallet')
      /\ writing' \in Tx \cup {Null} /\ marking' \subseteq Tx
      /\ DOMAIN mapWallet' = DOMAIN disk' \cup ({writing'} \ {Null})
      /\ marking' \subseteq DOMAIN mapWallet'
      /\ \A h \in DOMAIN mapWallet' \ (marking' \cup {writing'}) : disk'[h] = mapWallet'[h]
      /\ Later(disk', mapWallet')
      /\ \A R, B : Places(mapWallet, R, B) /\ Null \in B \cup {Null} => Places(mapWallet', R, B)
      /\ Null # Null => \A R, B : Places(mapWallet, R, B) /\ Null \in B
                                     => Places(mapWallet', R \cup {t}, B)
  <2>1. pc # "down" /\ Null \in Block \cup {Null} /\ disk' = disk OBVIOUS
  <2> QED BY <2>1, CallKeeps
<1>2. /\ Followed' = Followed /\ Common' = Common /\ Trying' = Trying
      /\ Chain(bestblock)' = Chain(bestblock) /\ Chain(backup.bestblock)' = Chain(backup.bestblock)
  BY DEF Followed, Common, Trying, Chain
<1>3. Knows(mapWallet', Followed) BY <1>1, LaterKnows DEF KnowsOK
<1>4. TypeInv' BY <1>1 DEF TypeInv
<1>5. StandsOK' BY DEF StandsOK
<1>6. FileOK' BY <1>1 DEF FileOK
<1>7. KnowsOK' BY <1>2, <1>3 DEF KnowsOK
<1>8. PlacesOK'
  <2> DEFINE B1 == Ancestors[best] \cup Ancestors[bestblock] \cup givenUp \cup Trying
             B2 == Ancestors[best] \cup givenUp \cup Trying
  <2>1. Places(mapWallet, Common, B1) /\ Places(mapWallet, Followed, B2) BY DEF PlacesOK
  <2> HIDE DEF B1, B2
  <2>2. Places(mapWallet', Common, B1) /\ Places(mapWallet', Followed, B2) BY <1>1, <2>1
  <2> QED BY <1>2, <2>2 DEF PlacesOK, B1, B2
<1>9. BackedOK' BY <1>1 DEF BackedOK
<1> QED BY <1>4, <1>5, <1>6, <1>7, <1>8, <1>9

LEMMA RelayedTxInv ==
    ASSUME IInv, NEW t \in Tx, RelayedTx(t)
    PROVE  IInv'
<1> DEFINE S == AddToWalletIfInvolvingMe(mapWallet, t, Null, TRUE)
<1>1. /\ UNCHANGED <<best, disk, bestblock, backup, target, at, told, scan, givenUp>>
      /\ pc = "idle" /\ pc' = "idle" /\ scan = Null /\ Written /\ Becomes(S)
  BY DEF RelayedTx, Free, chain, file, history
<1>2. IsWallet(mapWallet) /\ Backed(mapWallet) BY DEF IInv, TypeInv, BackedOK
<1>3. Adds(mapWallet, t, Null, S) BY <1>2, InvolvingAdds
<1> HIDE DEF S
<1> QED BY <1>1, <1>3, LooseInv

LEMMA SendInv ==
    ASSUME IInv, NEW t \in Tx, Send(t)
    PROVE  IInv'
<1> DEFINE S == AddToWallet(mapWallet, t, [hashBlock |-> Null, spent |-> {},
                                           vtxPrev |-> AddSupportingTransactions(t)])
<1>1. /\ UNCHANGED <<best, disk, bestblock, backup, target, at, told, scan, givenUp>>
      /\ pc = "idle" /\ pc' = "commit" /\ scan = Null /\ Written /\ Becomes(S)
  BY DEF Send, Free, chain, file
<1>2. IsWallet(mapWallet) /\ Backed(mapWallet) BY DEF IInv, TypeInv, BackedOK
<1>3. Adds(mapWallet, t, Null, S) BY <1>2, AddToWalletAdds
<1> HIDE DEF S
<1> QED BY <1>1, <1>3, LooseInv

LEMMA BroadcastInv ==
    ASSUME IInv, Broadcast
    PROVE  IInv'
BY Frame DEF Broadcast, Free, chain, file, history

LEMMA BackupWalletInv ==
    ASSUME IInv, BackupWallet
    PROVE  IInv'
<1> USE DEF IInv
<1>a. /\ UNCHANGED <<best, mapWallet, disk, bestblock, writing, marking, pc, target, at, told, scan,
                     givenUp>>
      /\ backup' = [disk |-> disk, bestblock |-> bestblock]
  BY DEF BackupWallet, chain, history
<1>b. backup'.disk = disk /\ backup'.bestblock = bestblock BY <1>a
<1>1. /\ Followed' = Followed /\ Common' = Common /\ Trying' = Trying
      /\ Heard(at, told)' = Heard(at, told) /\ Chain(bestblock)' = Chain(bestblock)
      /\ Chain(backup.bestblock)' = Chain(bestblock)
  BY <1>a, <1>b DEF Followed, Common, Trying, Heard, Chain
<1>2. TypeInv' BY <1>a, <1>b DEF TypeInv
<1>3. StandsOK' BY <1>a DEF StandsOK
<1>4. FileOK' BY <1>a DEF FileOK
<1>5. KnowsOK' BY <1>a, <1>b, <1>1 DEF KnowsOK
<1>6. PlacesOK' BY <1>a, <1>1 DEF PlacesOK
<1>7. BackedOK' BY <1>a, <1>b DEF BackedOK
<1> QED BY <1>2, <1>3, <1>4, <1>5, <1>6, <1>7

(* A copy may name blocks off its own branch: they are put down as given up. *)
LEMMA RestoreInv ==
    ASSUME IInv, Restore
    PROVE  IInv'
<1> USE DEF IInv
<1>a. /\ UNCHANGED <<best, mapWallet, backup, writing, marking, pc, target, at, told, scan>>
      /\ pc = "down" /\ disk' = backup.disk /\ bestblock' = backup.bestblock
      /\ givenUp' = givenUp
                    \cup ({disk'[t].hashBlock : t \in DOMAIN disk'} \ Ancestors[bestblock'])
  BY DEF Restore, chain
<1>1. /\ Chain(bestblock)' = Chain(backup.bestblock)
      /\ Chain(backup.bestblock)' = Chain(backup.bestblock)
  BY <1>a DEF Chain
<1>2. TypeInv' BY <1>a DEF TypeInv
<1>3. StandsOK' BY <1>a DEF StandsOK
<1>4. FileOK' BY <1>a DEF FileOK
<1>5. KnowsOK' BY <1>a, <1>1 DEF KnowsOK
<1>6. PlacesOK'
  <2>1. \A t \in DOMAIN disk' : disk'[t].hashBlock \in Ancestors[bestblock'] \cup givenUp'
    BY <1>a
  <2> QED BY <1>a, <2>1 DEF PlacesOK, Places
<1>7. BackedOK' BY <1>a DEF BackedOK
<1> QED BY <1>2, <1>3, <1>4, <1>5, <1>6, <1>7

(* A start goes back to the fork: the file knows the chain to it.          *)
LEMMA StartInv ==
    ASSUME IInv, ChainsRepeatNothing, Start
    PROVE  IInv'
<1> USE DEF IInv
<1> DEFINE f == Fork(bestblock, best)
<1>b. best \in Block /\ bestblock \in Block /\ bestblock # Null BY TreeAssumption DEF TypeInv
<1>a. /\ UNCHANGED <<best, disk, bestblock, backup, writing, marking, target, at, told, givenUp>>
      /\ pc = "down" /\ pc' = "idle" /\ mapWallet' = disk
      /\ scan' = IF best # f THEN From(f, TRUE) ELSE Null
  BY <1>b DEF Start, chain, file, history
<1>1. f \in Ancestors[best] /\ f \in Ancestors[bestblock] /\ f \in Block
  BY <1>b, ForkIs, AncestorsType
<1> HIDE DEF f
<1>c. vtx[f] \in Seq(Tx) /\ Len(vtx[f]) > 0 BY <1>1, TxAssumption
<1>3. From(f, TRUE) # Null /\ From(f, TRUE).pindex = f /\ From(f, TRUE).n = 0
  <2>1. From(f, TRUE) \in [pindex : Block, n : Nat, fUpdate : BOOLEAN, ret : BOOLEAN]
    BY <1>1 DEF From
  <2>2. From(f, TRUE) # Null BY <2>1, WalletAssumption
  <2> QED BY <2>2 DEF From
<1>4. Followed' \subseteq Chain(f)
  <2>1. CASE best = f BY <1>a, <2>1 DEF Followed, Chain
  <2>2. CASE best # f
    <3>1. Followed' = Heard(f, 0) BY <1>a, <1>3, <2>2 DEF Followed, Heard
    <3> QED BY <1>1, <1>c, <3>1, HeardInChain
  <2> QED BY <2>1, <2>2
<1>5. Chain(f) \subseteq Chain(bestblock) /\ Chain(f) \subseteq Common
  <2>1. ChainTo(f) \subseteq ChainTo(best) /\ ChainTo(f) \subseteq ChainTo(bestblock)
    BY <1>b, <1>1, ChainBelow
  <2> QED BY <1>b, <1>1, <2>1, ChainBelow DEF Chain, Common, ChainTxs
<1>6. /\ Common' = Common /\ Trying = {} /\ Trying' = {} /\ Chain(bestblock)' = Chain(bestblock)
      /\ Chain(backup.bestblock)' = Chain(backup.bestblock)
  BY <1>a DEF Common, Trying, Chain
<1>7. TypeInv' BY <1>a DEF TypeInv
<1>8. StandsOK'
  <2>1. /\ From(f, TRUE) \in [pindex : Ancestors[best], n : Nat, fUpdate : {TRUE}, ret : BOOLEAN]
        /\ From(f, TRUE).n < Len(vtx[From(f, TRUE).pindex])
    BY <1>1, <1>c DEF From
  <2> QED BY <1>a, <2>1 DEF StandsOK
<1>9. FileOK'
  <2>1. Later(disk, disk) BY DEF Later
  <2> QED BY <1>a, <2>1 DEF FileOK
<1>10. KnowsOK'
  <2>1. Knows(disk, Followed') BY <1>4, <1>5 DEF KnowsOK, Knows
  <2> QED BY <1>a, <1>6, <2>1 DEF KnowsOK
<1>11. PlacesOK'
  <2>1. Places(disk, Followed', Ancestors[bestblock] \cup (Ancestors[best] \cup givenUp))
    BY <1>4, <1>5, <1>6 DEF PlacesOK, Places
  <2>2. Places(disk, Followed', Ancestors[f] \cup (Ancestors[best] \cup givenUp))
    BY <1>b, <1>1, <1>4, <2>1, Narrow DEF TypeInv
  <2>3. Ancestors[f] \subseteq Ancestors[best] BY <1>b, <1>1, AncestorsTransitive
  <2>4. Places(disk, Followed', Ancestors[best] \cup givenUp \cup Trying')
    BY <2>2, <2>3 DEF Places
  <2> QED BY <1>a, <1>6, <2>4 DEF PlacesOK
<1>12. BackedOK' BY <1>a DEF BackedOK
<1> QED BY <1>7, <1>8, <1>9, <1>10, <1>11, <1>12

LEMMA ScanNextInv ==
    ASSUME IInv, ChainsRepeatNothing, ScanNext
    PROVE  IInv'
<1> USE DEF IInv
<1> DEFINE b == scan.pindex
           n == scan.n
           t == vtx[b][n + 1]
           S == AddToWalletIfInvolvingMe(mapWallet, t, b, TRUE)
           done == n + 1 = Len(vtx[b])
           ret == scan.ret \/ t \in DOMAIN mapWallet' \ DOMAIN mapWallet
           rows == [pindex : Ancestors[best], n : Nat, fUpdate : {TRUE}, ret : BOOLEAN]
<1>b. /\ scan # Null /\ pc = "idle" /\ scan \in rows /\ n < Len(vtx[b])
      /\ scan.fUpdate = TRUE /\ b \in Ancestors[best] /\ n \in Nat /\ ret \in BOOLEAN
  BY DEF ScanNext, StandsOK
<1>a. /\ UNCHANGED <<best, target, at, told, disk, bestblock, backup, pc, givenUp>>
      /\ Written /\ Becomes(S)
      /\ scan' = IF ~done THEN [scan EXCEPT !.n = n + 1, !.ret = ret]
                 ELSE IF b # best
                 THEN [scan EXCEPT !.pindex = NextOnBranch(b, best), !.n = 0, !.ret = ret]
                 ELSE Null
  BY <1>b DEF ScanNext, chain, file, history
<1>c. best \in Block /\ b \in Block /\ ValidChain[b]
  BY <1>b, AncestorsType, ValidBelow DEF TypeInv, StandsOK
<1>d. n \in 0..(Len(vtx[b]) - 1)
  <2>1. vtx[b] \in Seq(Tx) BY <1>c, TxAssumption
  <2> QED BY <1>b, <2>1
<1>e. IsWallet(mapWallet) /\ Backed(mapWallet) BY DEF TypeInv, BackedOK
<1>1. t \in Tx /\ t \in txs(b) /\ n + 1 \in 0..Len(vtx[b])
      /\ Heard(b, n + 1) \subseteq Heard(b, n) \cup {t}
  BY <1>c, <1>d, HeardNext
<1>2. Adds(mapWallet, t, b, S) /\ (IsMine(t) => t \in DOMAIN S.w)
  BY <1>c, <1>1, <1>e, InvolvingAdds
<1>f. Followed = Heard(b, n) BY <1>b DEF Followed
<1>3. Knows(mapWallet, Heard(b, n)) BY <1>b, <1>f DEF KnowsOK
<1> HIDE DEF S
<1>4. Knows(S.w, Heard(b, n + 1)) BY <1>c, <1>d, <1>2, <1>3, CallTells
<1>g. pc # "down" /\ b \in Block \cup {Null} /\ disk' = disk BY <1>a, <1>b, <1>c
<1>5. /\ IsWallet(mapWallet') /\ Backed(mapWallet') /\ Later(mapWallet, mapWallet')
      /\ writing' \in Tx \cup {Null} /\ marking' \subseteq Tx
      /\ DOMAIN mapWallet' = DOMAIN disk' \cup ({writing'} \ {Null})
      /\ marking' \subseteq DOMAIN mapWallet'
      /\ \A h \in DOMAIN mapWallet' \ (marking' \cup {writing'}) : disk'[h] = mapWallet'[h]
      /\ Later(disk', mapWallet')
      /\ \A R, B : Places(mapWallet, R, B) /\ b \in B \cup {Null} => Places(mapWallet', R, B)
      /\ b # Null => \A R, B : Places(mapWallet, R, B) /\ b \in B
                                  => Places(mapWallet', R \cup {t}, B)
  <2> HIDE DEF b, t
  <2> QED BY <1>a, <1>g, <1>1, <1>2, CallKeeps
<1>6. /\ Common' = Common /\ Trying = {} /\ Trying' = {} /\ Chain(bestblock)' = Chain(bestblock)
      /\ Chain(backup.bestblock)' = Chain(backup.bestblock)
  BY <1>a, <1>b DEF Common, Trying, Chain
(* The scan goes on at most as far as the wallet has been told.            *)
<1>7. /\ Followed' \subseteq Heard(b, n + 1)
      /\ scan' # Null => scan' \in rows /\ scan'.n < Len(vtx[scan'.pindex])
  <2> DEFINE c == NextOnBranch(b, best)
             goes == [scan EXCEPT !.n = n + 1, !.ret = ret]
             next == [scan EXCEPT !.pindex = c, !.n = 0, !.ret = ret]
  <2>0. rows \subseteq [pindex : Block, n : Nat, fUpdate : BOOLEAN, ret : BOOLEAN]
    BY <1>c, AncestorsType
  <2>a. Followed' = IF scan' = Null THEN Chain(best') ELSE Heard(scan'.pindex, scan'.n)
    BY DEF Followed, Heard, Chain
  <2>1. CASE ~done
    <3> HIDE DEF ret, done
    <3>1. goes \in rows /\ goes.pindex = b /\ goes.n = n + 1
      <4>1. n + 1 \in Nat BY <1>b
      <4>2. PICK m : m = n + 1 OBVIOUS
      <4>3. goes = [scan EXCEPT !.n = m, !.ret = ret] BY <4>2
      <4>4. m \in Nat BY <4>1, <4>2
      <4> HIDE DEF goes, n
      <4> QED BY <1>b, <4>2, <4>3, <4>4
    <3>2. scan' = goes BY <1>a, <2>1
    <3> HIDE DEF goes
    <3>3. goes # Null
      <4> HIDE DEF rows
      <4> QED BY <2>0, <3>1, WalletAssumption
    <3>4. Followed' = Heard(b, n + 1) BY <2>a, <3>1, <3>2, <3>3
    <3>5. n + 1 < Len(vtx[b])
      <4>1. vtx[b] \in Seq(Tx) BY <1>c, TxAssumption
      <4> QED BY <1>b, <2>1, <4>1 DEF done
    <3> QED BY <3>1, <3>2, <3>4, <3>5
  <2>2. CASE done /\ b # best
    <3>1. c \in Ancestors[best] \ {Genesis} /\ hashPrevBlock[c] = b
      BY <1>b, <1>c, <2>2, NextOnBranchType
    <3>2. c \in Block /\ c \in NonGenesis BY <1>c, <3>1, AncestorsType DEF NonGenesis
    <3> HIDE DEF ret, done, c
    <3>3. next \in rows /\ next.pindex = c /\ next.n = 0 BY <1>b, <3>1
    <3>4. scan' = next BY <1>a, <2>2 DEF c
    <3> HIDE DEF next
    <3>5. next # Null
      <4> HIDE DEF rows
      <4> QED BY <2>0, <3>3, WalletAssumption
    <3>6. Followed' = Heard(c, 0) BY <2>a, <3>3, <3>4, <3>5
    <3>7. Followed' \subseteq Heard(b, n + 1)
      BY <1>c, <2>2, <3>1, <3>2, <3>6, HeardNone, HeardAll DEF done
    <3>8. vtx[c] \in Seq(Tx) /\ Len(vtx[c]) > 0 BY <3>2, TxAssumption
    <3> QED BY <3>3, <3>4, <3>7, <3>8
  <2>3. CASE done /\ b = best
    <3>1. scan' = Null BY <1>a, <2>3
    <3>2. Followed' = Chain(b) BY <1>a, <2>3, <3>1 DEF Followed, Chain
    <3> QED BY <1>c, <2>3, <3>1, <3>2, HeardAll
  <2> QED BY <2>1, <2>2, <2>3
<1>8. TypeInv' BY <1>a, <1>5 DEF TypeInv
<1>9. StandsOK' BY <1>a, <1>b, <1>7 DEF StandsOK
<1>10. FileOK' BY <1>a, <1>b, <1>5 DEF FileOK
<1>11. KnowsOK'
  <2>1. mapWallet' = S.w BY <1>a DEF Becomes
  <2>2. Knows(mapWallet', Followed') BY <1>4, <1>7, <2>1 DEF Knows
  <2> QED BY <1>a, <1>b, <1>6, <2>2 DEF KnowsOK
<1>12. PlacesOK'
  <2> DEFINE B1 == Ancestors[best] \cup Ancestors[bestblock] \cup givenUp \cup Trying
             B2 == Ancestors[best] \cup givenUp \cup Trying
  <2>1. Places(mapWallet, Common, B1) /\ Places(mapWallet, Heard(b, n), B2)
    BY <1>b, <1>f DEF PlacesOK
  <2>2. b \in B1 /\ b \in B2 /\ b # Null BY <1>b, <1>c, TreeAssumption
  <2> HIDE DEF B1, B2
  <2>3. Places(mapWallet', Common, B1) BY <1>5, <2>1, <2>2
  <2>4. Places(mapWallet', Heard(b, n) \cup {t}, B2) BY <1>5, <2>1, <2>2
  <2>5. Places(mapWallet', Followed', B2) BY <1>1, <1>7, <2>4 DEF Places
  <2> QED BY <1>a, <1>b, <1>6, <2>3, <2>5 DEF PlacesOK, B1, B2
<1>13. BackedOK' BY <1>a, <1>5 DEF BackedOK
<1> QED BY <1>8, <1>9, <1>10, <1>11, <1>12, <1>13

(* What the index says is spent, the wallet has marked: there is nothing   *)
(* for ReacceptWalletTransactions to look for in the chain.                *)
LEMMA ReacceptInv ==
    ASSUME IInv, ChainsRepeatNothing, Reaccept
    PROVE  IInv'
<1> DEFINE idx == TxIndexOf[best]
           C == ChainTo(best)
           skipped(t) == IsCoinBase(t) /\ 0 \in mapWallet[t].spent
           missing == {o \in Mine : /\ o.hash \in DOMAIN mapWallet \cap DOMAIN idx
                                    /\ ~skipped(o.hash)
                                    /\ o.n \notin mapWallet[o.hash].spent
                                    /\ ~Unspent(idx[o.hash], o.n)}
           S == [w |-> MarkSpent(mapWallet, missing), first |-> Null, then |-> Hashes(missing)]
<1>a. /\ UNCHANGED <<best, target, at, told, disk, bestblock, backup, pc, givenUp>>
      /\ pc # "down" /\ scan = Null /\ Written /\ Becomes(S)
      /\ scan' = IF missing = {} THEN Null ELSE From(Genesis, FALSE)
  BY DEF Reaccept, Free, chain, file, history
<1>b. best \in Block /\ IsWallet(mapWallet) /\ Knows(mapWallet, Chain(best))
      /\ pc \in {"idle", "chain", "locate", "commit", "down"}
  BY <1>a DEF IInv, TypeInv, KnowsOK, Followed
<1>1. missing = {}
  <2> SUFFICES ASSUME NEW o \in Mine, o.hash \in DOMAIN mapWallet \cap DOMAIN idx,
                      o.n \notin mapWallet[o.hash].spent, ~Unspent(idx[o.hash], o.n)
               PROVE  FALSE
    OBVIOUS
  <2>1. /\ o = [hash |-> o.hash, n |-> o.n] /\ o.hash \in Tx /\ o.n \in Nat
        /\ o.n < vout[o.hash] /\ vout[o.hash] \in Nat
    BY WalletAssumption, TxAssumption DEF OutPoint
  <2>2. o.n \in 0..(vout[o.hash] - 1) BY <2>1
  <2>3. o.hash \in ChainTxs(C) BY <1>b, TxIndexOfType, RepeatNothing
  <2>4. idx[o.hash] = [pos |-> Home(C, o.hash),
                       vSpent |-> [n \in 0..(vout[o.hash] - 1) |-> SpentBy(C, o.hash, n)]]
    BY <1>b, <2>3, IndexFields DEF TxIndexOf, ChainTo
  <2>5. SpentBy(C, o.hash, o.n) # Null
    <3> HIDE DEF idx, C
    <3> QED BY <2>2, <2>4 DEF Unspent
  <2>6. PICK p \in Spenders(C, o.hash, o.n) : TRUE BY <2>5 DEF SpentBy
  <2>7. p.block \in C /\ p.tx \in txs(p.block) /\ o \in vin[p.tx] BY <2>1, <2>6 DEF Spenders
  <2>8. p.tx \in Chain(best) BY <2>7 DEF Chain, ChainTxs
  <2> QED BY <1>b, <2>7, <2>8 DEF Knows, Told
<1>2. S = [w |-> mapWallet, first |-> Null, then |-> {}]
  <2> HIDE DEF missing
  <2> QED BY <1>1, <1>b, MarkNothing
<1>3. mapWallet' = mapWallet /\ writing' = Null /\ marking' = {}
  <2> HIDE DEF S
  <2>1. S.w = mapWallet /\ S.first = Null /\ S.then = {} BY <1>2
  <2> QED BY <1>a, <2>1 DEF Becomes
<1> HIDE DEF missing, S
<1>4. UNCHANGED <<writing, marking, scan>> BY <1>1, <1>a, <1>3 DEF Written
<1> QED BY <1>a, <1>b, <1>3, <1>4, Frame

(* A wallet whose file has a locator from the beginning starts well.       *)
LEMMA InitInv ==
    ASSUME FirstBest = Genesis, Init
    PROVE  IInv
<1>1. Genesis \in Block /\ Chain(Genesis) = {}
  BY TreeAssumption, AncestorsOfGenesis DEF Chain, ChainTo, ChainTxs
<1>2. backup.disk = << >> /\ backup.bestblock = Genesis BY DEF Init
<1>3. TypeInv BY <1>1, <1>2, EmptyWallet DEF Init, TypeInv
<1>4. StandsOK BY GenesisIsValid DEF Init, StandsOK
<1>5. FileOK
  <2>1. Later(<< >>, << >>) BY DEF Later
  <2> QED BY <2>1, EmptyWallet DEF Init, FileOK
<1>6. Followed = {} BY <1>1 DEF Init, Followed
<1>7. KnowsOK BY <1>1, <1>2, <1>6 DEF Init, KnowsOK, Knows
<1>8. PlacesOK BY EmptyWallet DEF Init, PlacesOK
<1>9. BackedOK BY <1>2, EmptyWallet DEF Init, BackedOK
<1> QED BY <1>3, <1>4, <1>5, <1>7, <1>8, <1>9 DEF IInv

LEMMA NextInv ==
    ASSUME ChainsRepeatNothing, IInv, [Next]_vars
    PROVE  IInv'
<1>1. CASE UNCHANGED vars
  <2>1. UNCHANGED <<best, mapWallet, disk, bestblock, backup, writing, marking, target, at, told,
                    scan, givenUp>> /\ pc' = pc
    BY <1>1 DEF vars
  <2>2. pc \in {"idle", "chain", "locate", "commit", "down"} BY DEF IInv, TypeInv
  <2> QED BY <2>1, <2>2, Frame
<1>2. ASSUME NEW b \in NonGenesis, SetBestChain(b) PROVE IInv' BY <1>2, SetBestChainInv
<1>3. ASSUME NEW t \in Tx, WriteToDisk(t) PROVE IInv' BY <1>3, WriteToDiskInv
<1>4. ASSUME NEW t \in Tx, RelayedTx(t) PROVE IInv' BY <1>4, RelayedTxInv
<1>5. ASSUME NEW t \in Tx, Send(t) PROVE IInv' BY <1>5, SendInv
<1>6. CASE ConnectNext BY <1>6, ConnectNextInv
<1>7. CASE SyncWithWallets BY <1>7, SyncWithWalletsInv
<1>8. CASE ConnectFails BY <1>8, ConnectFailsInv
<1>9. CASE Commit BY <1>9, CommitInv
<1>10. CASE WriteBestBlock BY <1>10, WriteBestBlockInv
<1>11. CASE Broadcast BY <1>11, BroadcastInv
<1>12. CASE Stop BY <1>12, StopInv
<1>13. CASE Start BY <1>13, StartInv
<1>14. CASE ScanNext BY <1>14, ScanNextInv
<1>15. CASE Reaccept BY <1>15, ReacceptInv
<1>16. CASE BackupWallet BY <1>16, BackupWalletInv
<1>17. CASE Restore BY <1>17, RestoreInv
<1> QED BY <1>1, <1>2, <1>3, <1>4, <1>5, <1>6, <1>7, <1>8, <1>9, <1>10, <1>11, <1>12, <1>13,
           <1>14, <1>15, <1>16, <1>17 DEF Next

(* The inductive invariant holds in every reachable state.                 *)
THEOREM WalletInv ==
    ASSUME ChainsRepeatNothing, FirstBest = Genesis
    PROVE  Spec => []IInv
<1>1. Init => IInv BY InitInv
<1>2. IInv /\ [Next]_vars => IInv' BY NextInv
<1> QED BY <1>1, <1>2, PTL DEF Spec

LEMMA AtRestFollows ==
    ASSUME IInv, ChainsRepeatNothing, AtRest
    PROVE  /\ best \in Block /\ DOMAIN TxIndexOf[best] = Chain(best) /\ Trying = {}
           /\ Knows(mapWallet, Chain(best)) /\ Places(mapWallet, Chain(best), Ancestors[best] \cup givenUp)
<1>1. pc = "idle" /\ scan = Null BY DEF AtRest, Free
<1>2. best \in Block BY DEF IInv, TypeInv
<1>3. DOMAIN TxIndexOf[best] = Chain(best) BY <1>2, TxIndexOfType, RepeatNothing DEF Chain
<1>4. Followed = Chain(best) /\ Trying = {} BY <1>1 DEF Followed, Trying
<1> QED BY <1>1, <1>2, <1>3, <1>4 DEF IInv, KnowsOK, PlacesOK, Places

(* SyncWithWallets and the rescan: what the chain pays to the wallet is in *)
(* it, with the block of the chain it is in, or one of a branch that was   *)
(* given up.                                                               *)
THEOREM WalletKnowsTheChain ==
    ASSUME ChainsRepeatNothing, FirstBest = Genesis
    PROVE  Spec => []ChainIsKnown
<1>1. IInv => ChainIsKnown
  <2> SUFFICES ASSUME IInv, AtRest, NEW t \in DOMAIN TxIndexOf[best], IsMine(t)
               PROVE  /\ t \in DOMAIN mapWallet
                      /\ mapWallet[t].hashBlock \in {TxIndexOf[best][t].pos} \cup givenUp
    BY DEF ChainIsKnown
  <2> DEFINE C == ChainTo(best)
             h == mapWallet[t].hashBlock
  <2>1. best \in Block /\ t \in Chain(best) /\ Knows(mapWallet, Chain(best))
        /\ Places(mapWallet, Chain(best), Ancestors[best] \cup givenUp)
    BY AtRestFollows
  <2>2. t \in DOMAIN mapWallet /\ h # Null BY <2>1 DEF Knows, Told
  <2>3. h \in Ancestors[best] \cup givenUp BY <2>1, <2>2 DEF Places
  <2>4. t \in txs(h) BY <2>2 DEF IInv, TypeInv, IsWallet
  <2>5. PICK c \in C : t \in txs(c) BY <2>1 DEF Chain, ChainTxs
  <2>6. RepeatsNone(C) /\ C \in SUBSET Block
    BY <2>1, RepeatNothing, AncestorsType DEF NoRepeats, ChainTo
  <2>7. TxIndexOf[best][t].pos = c
    <3>1. TxIndexOf[best] = [u \in ChainTxs(C) |->
                               [pos |-> Home(C, u),
                                vSpent |-> [n \in 0..(vout[u] - 1) |-> SpentBy(C, u, n)]]]
      BY <2>1, IndexFields DEF TxIndexOf, ChainTo
    <3>2. t \in ChainTxs(C) BY <2>1 DEF Chain
    <3>3. Home(C, t) = c BY <2>5, <2>6, HomeUnique
    <3> HIDE DEF C
    <3> QED BY <3>1, <3>2, <3>3
  <2>8. h \in Ancestors[best] => h = c
    BY <2>1, <2>4, <2>5, ChainBelow DEF ChainsRepeatNothing, RepeatsNone, ChainTo
  <2> QED BY <2>2, <2>3, <2>7, <2>8
<1> QED BY <1>1, WalletInv, PTL

(* WalletUpdateSpent and the rescan: what the chain takes from the wallet  *)
(* is marked, and wallet.dat marks nothing without the spender.            *)
THEOREM SpentIsMarked ==
    ASSUME ChainsRepeatNothing, FirstBest = Genesis
    PROVE  Spec => []MarkedAsSpent
<1>1. IInv => MarkedAsSpent
  <2> SUFFICES ASSUME IInv PROVE MarkedAsSpent OBVIOUS
  <2>1. AtRest => \A t \in DOMAIN TxIndexOf[best] : \A o \in vin[t] \cap Mine :
                    o.hash \in DOMAIN mapWallet /\ o.n \in mapWallet[o.hash].spent
    BY AtRestFollows DEF Knows, Told
  <2>2. Backed(disk) BY DEF IInv, BackedOK
  <2> QED BY <2>1, <2>2 DEF MarkedAsSpent, Backed
<1> QED BY <1>1, WalletInv, PTL
=============================================================================
