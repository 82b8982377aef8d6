-------------------------- MODULE ChainDataProofs --------------------------
(***************************************************************************)
(* What the operators of BlockTree, TxIndex and Mempool return, for every  *)
(* block tree, every set of transactions and every index and pool.         *)
(***************************************************************************)
EXTENDS Mempool, FiniteSetTheorems, TLAPS

(***************************************************************************)
(* The block tree                                                          *)
(***************************************************************************)
(* A block is its own ancestor and every ancestor is a block.              *)
LEMMA AncestorsType ==
    ASSUME NEW b \in Block
    PROVE  Ancestors[b] \subseteq Block /\ b \in Ancestors[b]
BY DEF Ancestors

(* The ancestors of a block are closed under hashPrevBlock.                *)
LEMMA AncestorsClosed ==
    ASSUME NEW b \in Block, NEW a \in Ancestors[b], a # Genesis
    PROVE  hashPrevBlock[a] \in Ancestors[b]
<1>1. a \in Block BY AncestorsType
<1>2. hashPrevBlock[a] \in Block BY <1>1, TreeAssumption DEF NonGenesis
<1>3. ASSUME NEW S \in SUBSET Block, b \in S, ClosedUnderPrev(S)
      PROVE  hashPrevBlock[a] \in S
  <2>1. a \in S BY <1>3 DEF Ancestors
  <2> QED BY <2>1, <1>3 DEF ClosedUnderPrev
<1> QED BY <1>2, <1>3 DEF Ancestors

(* The least closed set: whatever is closed and holds b holds the branch.  *)
LEMMA AncestorsLeast ==
    ASSUME NEW b \in Block, NEW S \in SUBSET Block, b \in S, ClosedUnderPrev(S)
    PROVE  Ancestors[b] \subseteq S
BY DEF Ancestors

(* An ancestor's ancestors are ancestors.                                  *)
LEMMA AncestorsTransitive ==
    ASSUME NEW b \in Block, NEW a \in Ancestors[b]
    PROVE  Ancestors[a] \subseteq Ancestors[b]
<1>1. a \in Block /\ Ancestors[b] \in SUBSET Block BY AncestorsType
<1>2. ClosedUnderPrev(Ancestors[b]) BY AncestorsClosed DEF ClosedUnderPrev
<1> QED BY <1>1, <1>2, AncestorsLeast

(* A branch is its last block and the branch of its predecessor.           *)
LEMMA AncestorsUnfold ==
    ASSUME NEW b \in Block, b # Genesis
    PROVE  Ancestors[b] = {b} \cup Ancestors[hashPrevBlock[b]]
<1> DEFINE p == hashPrevBlock[b]
           S == {b} \cup Ancestors[p]
<1>1. p \in Block BY TreeAssumption DEF NonGenesis
<1>2. p \in Ancestors[b] BY AncestorsType, AncestorsClosed
<1>3. S \subseteq Ancestors[b] BY <1>2, AncestorsType, AncestorsTransitive
<1>4. ClosedUnderPrev(S)
  <2>1. ASSUME NEW c \in S \ {Genesis} PROVE hashPrevBlock[c] \in S
    <3>1. CASE c = b BY <3>1, <1>1, AncestorsType
    <3>2. CASE c \in Ancestors[p] BY <3>2, <2>1, <1>1, AncestorsClosed
    <3> QED BY <3>1, <3>2
  <2> QED BY <2>1 DEF ClosedUnderPrev
<1>5. S \in SUBSET Block BY <1>1, AncestorsType
<1>6. Ancestors[b] \subseteq S BY <1>4, <1>5, AncestorsLeast
<1> QED BY <1>3, <1>6

(* Every branch reaches genesis.                                           *)
LEMMA GenesisIsAncestor ==
    ASSUME NEW b \in Block
    PROVE  Genesis \in Ancestors[b]
<1> SUFFICES ASSUME Genesis \notin Ancestors[b] PROVE FALSE
    OBVIOUS
<1>1. Ancestors[b] \in SUBSET Block /\ Ancestors[b] # {} BY AncestorsType
<1>2. \A a \in Ancestors[b] : a # Genesis /\ hashPrevBlock[a] \in Ancestors[b]
  BY AncestorsClosed
<1> QED BY <1>1, <1>2, TreeAssumption

LEMMA AncestorsOfGenesis == Ancestors[Genesis] = {Genesis}
<1>1. ClosedUnderPrev({Genesis}) BY DEF ClosedUnderPrev
<1>2. Genesis \in Block BY TreeAssumption
<1> QED BY <1>1, <1>2, AncestorsLeast, AncestorsType

(* No block is behind itself.                                              *)
LEMMA NoCycle ==
    ASSUME NEW b \in Block, b # Genesis
    PROVE  b \notin Ancestors[hashPrevBlock[b]]
<1> SUFFICES ASSUME b \in Ancestors[hashPrevBlock[b]] PROVE FALSE
    OBVIOUS
<1> DEFINE S == {x \in Ancestors[b] : b \in Ancestors[x]}
<1>1. S \in SUBSET Block /\ b \in S BY AncestorsType
<1>2. ASSUME NEW x \in S PROVE x # Genesis /\ hashPrevBlock[x] \in S
  <2>1. x \in Block /\ x \in Ancestors[b] /\ b \in Ancestors[x] BY AncestorsType
  <2>2. x # Genesis BY <2>1, AncestorsOfGenesis
  <2>3. hashPrevBlock[x] \in Ancestors[b] BY <2>1, <2>2, AncestorsClosed
  <2>4. b \in Ancestors[hashPrevBlock[x]]
    <3>1. CASE x = b BY <3>1
    <3>2. CASE x # b BY <3>2, <2>1, <2>2, AncestorsUnfold
    <3> QED BY <3>1, <3>2
  <2> QED BY <2>2, <2>3, <2>4
<1>3. S # {} BY <1>1
<1> QED BY <1>1, <1>2, <1>3, TreeAssumption

(* Below its last block, each block of a branch has a successor on it.     *)
LEMMA NextOnBranchType ==
    ASSUME NEW b \in Block, NEW a \in Ancestors[b], a # b
    PROVE  /\ NextOnBranch(a, b) \in Ancestors[b] \ {Genesis}
           /\ hashPrevBlock[NextOnBranch(a, b)] = a
<1>1. \E c \in Ancestors[b] \ {Genesis} : hashPrevBlock[c] = a
  <2> SUFFICES ASSUME \A c \in Ancestors[b] \ {Genesis} : hashPrevBlock[c] # a
               PROVE  FALSE
      OBVIOUS
  <2> DEFINE S == Ancestors[b] \ {a}
  <2>1. S \in SUBSET Block /\ b \in S BY AncestorsType
  <2>2. ClosedUnderPrev(S) BY AncestorsClosed DEF ClosedUnderPrev
  <2>3. Ancestors[b] \subseteq S BY <2>1, <2>2, AncestorsLeast
  <2> QED BY <2>3
<1> QED BY <1>1 DEF NextOnBranch

(* Induction over the tree, in the form of a set.                          *)
LEMMA TreeInduction ==
    ASSUME NEW T \in SUBSET Block, Genesis \in T,
           \A b \in NonGenesis : hashPrevBlock[b] \in T => b \in T
    PROVE  T = Block
<1> DEFINE S == Block \ T
<1>1. \A b \in S : b # Genesis /\ hashPrevBlock[b] \in S
  BY TreeAssumption DEF NonGenesis
<1>2. S = {} BY <1>1, TreeAssumption
<1> QED BY <1>2

(* Two different blocks are not both behind each other.                    *)
LEMMA AncestorsAntisymmetric ==
    ASSUME NEW b \in Block, NEW a \in Ancestors[b], a # b
    PROVE  b \notin Ancestors[a]
<1>1. b # Genesis BY AncestorsOfGenesis
<1>2. a \in Ancestors[hashPrevBlock[b]] BY <1>1, AncestorsUnfold
<1>3. hashPrevBlock[b] \in Block BY <1>1, TreeAssumption DEF NonGenesis
<1>4. Ancestors[a] \subseteq Ancestors[hashPrevBlock[b]] BY <1>2, <1>3, AncestorsTransitive
<1> QED BY <1>1, <1>4, NoCycle

(* On a branch every block has one successor.                              *)
LEMMA NextOnBranchUnique ==
    ASSUME NEW b \in Block, NEW c \in Ancestors[b], c # Genesis
    PROVE  /\ NextOnBranch(hashPrevBlock[c], b) = c
           /\ hashPrevBlock[c] \in Ancestors[b] /\ hashPrevBlock[c] # b
<1> DEFINE T == {x \in Block : \A d, e \in Ancestors[x] \ {Genesis} :
                                  hashPrevBlock[d] = hashPrevBlock[e] => d = e}
<1>1. Genesis \in T BY AncestorsOfGenesis, TreeAssumption
<1>2. ASSUME NEW x \in NonGenesis, hashPrevBlock[x] \in T PROVE x \in T
  <2> DEFINE p == hashPrevBlock[x]
  <2>1. x \in Block /\ x # Genesis /\ p \in Block
    BY TreeAssumption DEF NonGenesis
  <2>2. Ancestors[x] = {x} \cup Ancestors[p] BY <2>1, AncestorsUnfold
  <2>3. ASSUME NEW d \in Ancestors[p], d # Genesis PROVE hashPrevBlock[d] # p
    <3>1. d \in Block /\ hashPrevBlock[d] \in Block
      BY <2>1, <2>3, AncestorsType, TreeAssumption DEF NonGenesis
    <3>2. hashPrevBlock[d] \in Ancestors[d] /\ hashPrevBlock[d] # d
      BY <2>3, <3>1, AncestorsType, AncestorsClosed, NoCycle
    <3>3. d \notin Ancestors[hashPrevBlock[d]] BY <3>1, <3>2, AncestorsAntisymmetric
    <3> QED BY <2>3, <3>3
  <2>4. ASSUME NEW d \in Ancestors[x] \ {Genesis}, NEW e \in Ancestors[x] \ {Genesis},
               hashPrevBlock[d] = hashPrevBlock[e]
        PROVE  d = e
    BY <1>2, <2>2, <2>3, <2>4
  <2> QED BY <2>1, <2>4
<1>3. T \in SUBSET Block OBVIOUS
<1> HIDE DEF T
<1>4. T = Block BY <1>1, <1>2, <1>3, TreeInduction
<1>5. hashPrevBlock[c] \in Ancestors[b] BY AncestorsClosed
<1>6. c \in Block BY AncestorsType
<1>7. hashPrevBlock[c] # b
  <2>1. c \notin Ancestors[hashPrevBlock[c]] BY <1>6, NoCycle
  <2> QED BY <2>1
<1>8. /\ NextOnBranch(hashPrevBlock[c], b) \in Ancestors[b] \ {Genesis}
      /\ hashPrevBlock[NextOnBranch(hashPrevBlock[c], b)] = hashPrevBlock[c]
  BY <1>5, <1>7, NextOnBranchType
<1>9. \A d, e \in Ancestors[b] \ {Genesis} : hashPrevBlock[d] = hashPrevBlock[e] => d = e
  BY <1>4 DEF T
<1> QED BY <1>5, <1>7, <1>8, <1>9

(* Height counts the blocks below.                                         *)
LEMMA HeightGrows ==
    ASSUME NEW b \in Block, NEW a \in Ancestors[b]
    PROVE  /\ nHeight[a] \in Int /\ nHeight[b] \in Int
           /\ a # b => nHeight[a] < nHeight[b]
<1>1. a \in Block /\ Ancestors[b] \subseteq Block /\ b \in Ancestors[b]
  BY AncestorsType
<1>2. IsFiniteSet(Ancestors[b]) BY <1>1, TreeAssumption, FS_Subset
<1>3. Ancestors[a] \subseteq Ancestors[b] BY AncestorsTransitive
<1>4. /\ IsFiniteSet(Ancestors[a])
      /\ Cardinality(Ancestors[a]) <= Cardinality(Ancestors[b])
      /\ Cardinality(Ancestors[a]) = Cardinality(Ancestors[b]) =>
            Ancestors[a] = Ancestors[b]
  BY <1>2, <1>3, FS_Subset
<1>5. Cardinality(Ancestors[a]) \in Nat /\ Cardinality(Ancestors[b]) \in Nat
  BY <1>2, <1>4, FS_CardinalityType
<1>6. a # b => Ancestors[a] # Ancestors[b] BY <1>1, AncestorsAntisymmetric
<1>7. /\ nHeight[a] = Cardinality(Ancestors[a]) - 1
      /\ nHeight[b] = Cardinality(Ancestors[b]) - 1
  BY <1>1 DEF nHeight
<1> QED BY <1>4, <1>5, <1>6, <1>7

(***************************************************************************)
(* The recursion that defines bnChainWork has a solution: each block picks *)
(* one on its own branch, and those of two branches agree where they meet. *)
(***************************************************************************)
WorkStep(w, b) == (IF b = Genesis THEN 0 ELSE w[hashPrevBlock[b]]) + GetBlockWork[b]
WorkOn(b, w) ==
    w \in [Ancestors[b] -> Nat] /\ \A a \in Ancestors[b] : w[a] = WorkStep(w, a)

LEMMA WorkOnAgrees ==
    ASSUME NEW b \in Block, NEW c \in Block, NEW v, WorkOn(b, v), NEW w, WorkOn(c, w),
           NEW a \in Ancestors[b] \cap Ancestors[c]
    PROVE  v[a] = w[a]
<1> DEFINE S == {x \in Ancestors[b] \cap Ancestors[c] : v[x] # w[x]}
<1>1. ASSUME NEW x \in S PROVE x # Genesis /\ hashPrevBlock[x] \in S
  <2>1. v[x] = WorkStep(v, x) /\ w[x] = WorkStep(w, x) BY DEF WorkOn
  <2>2. x # Genesis BY <2>1 DEF WorkStep
  <2>3. v[hashPrevBlock[x]] # w[hashPrevBlock[x]] BY <2>1, <2>2 DEF WorkStep
  <2> QED BY <2>2, <2>3, AncestorsClosed
<1>2. S \in SUBSET Block BY AncestorsType
<1>3. S = {} BY <1>1, <1>2, TreeAssumption
<1> QED BY <1>3

LEMMA WorkOnExists == \A b \in Block : \E w : WorkOn(b, w)
<1> DEFINE T == {b \in Block : \E w : WorkOn(b, w)}
<1>1. Genesis \in T
  <2> DEFINE w == [a \in {Genesis} |-> GetBlockWork[a]]
  <2>1. GetBlockWork[Genesis] \in Nat BY TreeAssumption
  <2>2. WorkOn(Genesis, w) BY <2>1, AncestorsOfGenesis DEF WorkOn, WorkStep
  <2> HIDE DEF w
  <2> QED BY <2>2, TreeAssumption
<1>2. ASSUME NEW b \in NonGenesis, hashPrevBlock[b] \in T PROVE b \in T
  <2> DEFINE p == hashPrevBlock[b]
  <2>1. PICK v : WorkOn(p, v) BY <1>2
  <2>2. b \in Block /\ b # Genesis /\ p \in Block BY <1>2 DEF NonGenesis
  <2>3. /\ Ancestors[b] = {b} \cup Ancestors[p] /\ b \notin Ancestors[p]
        /\ p \in Ancestors[p]
    BY <2>2, AncestorsUnfold, NoCycle, AncestorsType
  <2> DEFINE w == [a \in Ancestors[b] |-> IF a = b THEN v[p] + GetBlockWork[b] ELSE v[a]]
  <2>4. v \in [Ancestors[p] -> Nat] /\ \A a \in Ancestors[p] : v[a] = WorkStep(v, a)
    BY <2>1 DEF WorkOn
  <2>5. GetBlockWork[b] \in Nat BY <2>2, TreeAssumption
  <2>6. w \in [Ancestors[b] -> Nat] BY <2>3, <2>4, <2>5
  <2>7. ASSUME NEW a \in Ancestors[b] PROVE w[a] = WorkStep(w, a)
    <3>1. CASE a = b BY <3>1, <2>2, <2>3 DEF WorkStep
    <3>2. CASE a # b
      <4>1. a \in Ancestors[p] /\ w[a] = v[a] BY <3>2, <2>3
      <4>2. a # Genesis => w[hashPrevBlock[a]] = v[hashPrevBlock[a]]
        BY <4>1, <2>2, <2>3, AncestorsClosed
      <4>3. WorkStep(w, a) = WorkStep(v, a) BY <4>2 DEF WorkStep
      <4> QED BY <4>1, <4>3, <2>4
    <3> QED BY <3>1, <3>2
  <2> HIDE DEF w
  <2>8. WorkOn(b, w) BY <2>6, <2>7 DEF WorkOn
  <2> QED BY <2>2, <2>8
<1>3. T \in SUBSET Block OBVIOUS
<1> HIDE DEF T
<1>4. T = Block BY <1>1, <1>2, <1>3, TreeInduction
<1> QED BY <1>4 DEF T

LEMMA ChainWorkDefined ==
    ASSUME NEW b \in Block
    PROVE  bnChainWork[b] = WorkStep(bnChainWork, b)
<1> DEFINE pick(a) == CHOOSE w : WorkOn(a, w)
           f == [a \in Block |-> pick(a)[a]]
<1>1. \A a \in Block : WorkOn(a, pick(a)) BY WorkOnExists
<1> HIDE DEF pick
<1>2. ASSUME NEW a \in Block PROVE f[a] = WorkStep(f, a)
  <2>1. f[a] = WorkStep(pick(a), a) BY <1>1, AncestorsType DEF WorkOn
  <2>2. ASSUME a # Genesis
        PROVE  pick(a)[hashPrevBlock[a]] = f[hashPrevBlock[a]]
    <3>1. hashPrevBlock[a] \in Block BY <2>2, TreeAssumption DEF NonGenesis
    <3>2. hashPrevBlock[a] \in Ancestors[a] \cap Ancestors[hashPrevBlock[a]]
      BY <2>2, <3>1, AncestorsType, AncestorsClosed
    <3>3. pick(a)[hashPrevBlock[a]] = pick(hashPrevBlock[a])[hashPrevBlock[a]]
      BY <1>1, <3>1, <3>2, WorkOnAgrees
    <3> QED BY <3>1, <3>3
  <2> QED BY <2>1, <2>2 DEF WorkStep
<1>3. f = [a \in Block |-> (IF a = Genesis THEN 0 ELSE f[hashPrevBlock[a]]) + GetBlockWork[a]]
  BY <1>2 DEF WorkStep
<1> HIDE DEF f
<1>4. bnChainWork =
        [a \in Block |-> (IF a = Genesis THEN 0 ELSE bnChainWork[hashPrevBlock[a]])
                         + GetBlockWork[a]]
  BY <1>3 DEF bnChainWork
<1> HIDE DEF bnChainWork
<1> QED BY <1>4 DEF WorkStep

(* Every block adds work to the chain before it.                           *)
LEMMA WorkGrows ==
    /\ \A b \in Block : bnChainWork[b] \in Nat
    /\ \A b \in NonGenesis : bnChainWork[hashPrevBlock[b]] < bnChainWork[b]
<1> DEFINE T == {b \in Block : bnChainWork[b] \in Nat}
<1>1. \A b \in Block : GetBlockWork[b] \in Nat /\ GetBlockWork[b] > 0
  BY TreeAssumption
<1>2. Genesis \in T BY <1>1, ChainWorkDefined, TreeAssumption DEF WorkStep
<1>3. ASSUME NEW b \in NonGenesis, hashPrevBlock[b] \in T PROVE b \in T
  <2>1. b \in Block /\ b # Genesis BY DEF NonGenesis
  <2>2. bnChainWork[b] = bnChainWork[hashPrevBlock[b]] + GetBlockWork[b]
    BY <2>1, ChainWorkDefined DEF WorkStep
  <2> QED BY <1>1, <1>3, <2>1, <2>2
<1>4. T \in SUBSET Block OBVIOUS
<1> HIDE DEF T
<1>5. T = Block BY <1>2, <1>3, <1>4, TreeInduction
<1>6. \A b \in Block : bnChainWork[b] \in Nat BY <1>5 DEF T
<1>7. ASSUME NEW b \in NonGenesis PROVE bnChainWork[hashPrevBlock[b]] < bnChainWork[b]
  <2>1. b \in Block /\ b # Genesis /\ hashPrevBlock[b] \in Block
    BY TreeAssumption DEF NonGenesis
  <2>2. bnChainWork[b] = bnChainWork[hashPrevBlock[b]] + GetBlockWork[b]
    BY <2>1, ChainWorkDefined DEF WorkStep
  <2> QED BY <1>1, <1>6, <2>1, <2>2
<1> QED BY <1>6, <1>7

(* A branch has less work anywhere below its end.                          *)
LEMMA AncestorsHaveLessWork ==
    ASSUME NEW b \in Block, NEW a \in Ancestors[b], a # b
    PROVE  bnChainWork[a] < bnChainWork[b]
<1> DEFINE T == {x \in Block : \A y \in Ancestors[x] : y # x => bnChainWork[y] < bnChainWork[x]}
<1>1. Genesis \in T BY AncestorsOfGenesis, TreeAssumption
<1>2. ASSUME NEW x \in NonGenesis, hashPrevBlock[x] \in T PROVE x \in T
  <2> DEFINE p == hashPrevBlock[x]
  <2>1. x \in Block /\ x # Genesis /\ p \in Block BY TreeAssumption DEF NonGenesis
  <2>2. Ancestors[x] = {x} \cup Ancestors[p] BY <2>1, AncestorsUnfold
  <2>3. bnChainWork[p] < bnChainWork[x] BY WorkGrows
  <2>4. ASSUME NEW y \in Ancestors[x], y # x PROVE bnChainWork[y] < bnChainWork[x]
    <3>1. y \in Ancestors[p] BY <2>2, <2>4
    <3>2. y \in Block BY <2>1, AncestorsType
    <3>3. bnChainWork[y] \in Nat /\ bnChainWork[p] \in Nat /\ bnChainWork[x] \in Nat
      BY <2>1, <3>2, WorkGrows
    <3>4. y # p => bnChainWork[y] < bnChainWork[p] BY <1>2, <3>1
    <3> QED BY <2>3, <3>3, <3>4
  <2> QED BY <2>1, <2>4
<1>3. T \in SUBSET Block OBVIOUS
<1> HIDE DEF T
<1>4. T = Block BY <1>1, <1>2, <1>3, TreeInduction
<1> QED BY <1>4 DEF T

LEMMA TxsType ==
    ASSUME NEW b \in Block
    PROVE  txs(b) \subseteq Tx
BY TxAssumption DEF txs

LEMMA InputsType ==
    ASSUME NEW ts \in SUBSET Tx
    PROVE  Inputs(ts) \subseteq OutPoint
BY TxAssumption DEF Inputs

(***************************************************************************)
(* The transaction index                                                   *)
(***************************************************************************)
(* Connecting a block yields an index that holds the block's transactions  *)
(* besides those it held.                                                  *)
LEMMA ConnectBlockType ==
    ASSUME NEW idx, IsTxIndex(idx), NEW b \in Block
    PROVE  /\ IsTxIndex(ConnectBlock(idx, b))
           /\ DOMAIN ConnectBlock(idx, b) = DOMAIN idx \cup txs(b)
<1> DEFINE dom == DOMAIN idx \cup txs(b)
           before == [t \in dom |-> IF t \in txs(b) THEN CTxIndex(b, t) ELSE idx[t]]
           spender(o) == {t \in txs(b) : o \in vin[t]}
           vSpent(t) == [n \in DOMAIN before[t].vSpent |->
                            IF spender([hash |-> t, n |-> n]) = {} THEN before[t].vSpent[n]
                            ELSE [block |-> b,
                                  tx |-> CHOOSE s \in spender([hash |-> t, n |-> n]) : TRUE]]
           after == [t \in dom |-> [pos |-> before[t].pos, vSpent |-> vSpent(t)]]
<1>1. ConnectBlock(idx, b) = after BY DEF ConnectBlock
<1>2. dom \subseteq Tx BY TxsType DEF IsTxIndex
<1>3. ASSUME NEW t \in dom
      PROVE  /\ before[t].pos \in Block
             /\ before[t].vSpent \in [0..(vout[t] - 1) -> Pos \cup {Null}]
  <2>1. CASE t \in txs(b)
    <3>1. before[t] = CTxIndex(b, t) BY <2>1
    <3> QED BY <3>1 DEF CTxIndex
  <2>2. CASE t \notin txs(b)
    <3>1. before[t] = idx[t] /\ t \in DOMAIN idx BY <2>2
    <3> QED BY <3>1 DEF IsTxIndex
  <2> QED BY <2>1, <2>2
<1>4. ASSUME NEW t \in dom
      PROVE  vSpent(t) \in [0..(vout[t] - 1) -> Pos \cup {Null}]
  <2> DEFINE outs == 0..(vout[t] - 1)
             point(n) == [hash |-> t, n |-> n]
             next(n) == IF spender(point(n)) = {} THEN before[t].vSpent[n]
                        ELSE [block |-> b, tx |-> CHOOSE s \in spender(point(n)) : TRUE]
  <2>1. before[t].vSpent \in [outs -> Pos \cup {Null}] BY <1>3
  <2>2. ASSUME NEW n \in outs PROVE next(n) \in Pos \cup {Null}
    <3>1. CASE spender(point(n)) = {} BY <3>1, <2>1, <2>2
    <3>2. CASE spender(point(n)) # {}
      <4>1. (CHOOSE s \in spender(point(n)) : TRUE) \in txs(b) BY <3>2
      <4> QED BY <3>2, <4>1, TxsType DEF Pos
    <3> QED BY <3>1, <3>2
  <2>3. vSpent(t) = [n \in outs |-> next(n)] BY <2>1
  <2> HIDE DEF next, vSpent
  <2> QED BY <2>2, <2>3
<1>5. \A t \in dom : after[t] = [pos |-> before[t].pos, vSpent |-> vSpent(t)]
  OBVIOUS
<1>6. DOMAIN after = dom OBVIOUS
<1> HIDE DEF before, vSpent
<1>7. after = [t \in dom |-> [pos |-> after[t].pos, vSpent |-> after[t].vSpent]]
  OBVIOUS
<1>8. IsTxIndex(after)
  <2>1. \A t \in dom : after[t].pos \in Block BY <1>3, <1>5
  <2>2. \A t \in dom : after[t].vSpent \in [0..(vout[t] - 1) -> Pos \cup {Null}]
    BY <1>4, <1>5
  <2> HIDE DEF after
  <2> QED BY <1>2, <1>6, <1>7, <2>1, <2>2 DEF IsTxIndex
<1> QED BY <1>1, <1>6, <1>8

(* Disconnecting a block yields an index that has lost its transactions.   *)
LEMMA DisconnectBlockType ==
    ASSUME NEW idx, IsTxIndex(idx), NEW b \in Block
    PROVE  /\ IsTxIndex(DisconnectBlock(idx, b))
           /\ DOMAIN DisconnectBlock(idx, b) = DOMAIN idx \ txs(b)
<1> DEFINE dom == DOMAIN idx \ txs(b)
           freed == UNION {vin[t] : t \in txs(b)}
           vSpent(t) == [n \in DOMAIN idx[t].vSpent |->
                            IF [hash |-> t, n |-> n] \in freed THEN Null
                            ELSE idx[t].vSpent[n]]
           after == DisconnectBlock(idx, b)
<1>1. after = [t \in dom |-> [idx[t] EXCEPT !.vSpent = vSpent(t)]]
  BY DEF DisconnectBlock
<1>2. DOMAIN after = dom /\ dom \subseteq Tx BY <1>1 DEF IsTxIndex
<1> DEFINE entry(t) == [pos |-> idx[t].pos, vSpent |-> vSpent(t)]
<1>3. ASSUME NEW t \in dom
      PROVE  /\ [idx[t] EXCEPT !.vSpent = vSpent(t)] = entry(t)
             /\ idx[t].pos \in Block
             /\ vSpent(t) \in [0..(vout[t] - 1) -> Pos \cup {Null}]
  <2>1. t \in DOMAIN idx OBVIOUS
  <2>2. idx[t] = [pos |-> idx[t].pos, vSpent |-> idx[t].vSpent] BY <2>1 DEF IsTxIndex
  <2>3. idx[t].vSpent \in [0..(vout[t] - 1) -> Pos \cup {Null}] BY <2>1 DEF IsTxIndex
  <2>4. vSpent(t) \in [0..(vout[t] - 1) -> Pos \cup {Null}] BY <2>3
  <2>5. idx[t].pos \in Block BY <2>1 DEF IsTxIndex
  <2> HIDE DEF vSpent
  <2>6. [idx[t] EXCEPT !.vSpent = vSpent(t)] = entry(t) BY <2>2
  <2> QED BY <2>4, <2>5, <2>6
<1> HIDE DEF vSpent
<1>4. after = [t \in dom |-> entry(t)] BY <1>1, <1>3
<1> HIDE DEF after
<1>5. /\ after = [t \in dom |-> [pos |-> after[t].pos, vSpent |-> after[t].vSpent]]
      /\ \A t \in dom : after[t].pos = idx[t].pos /\ after[t].vSpent = vSpent(t)
  BY <1>4
<1>7. after = [t \in DOMAIN after |-> [pos |-> after[t].pos, vSpent |-> after[t].vSpent]]
  BY <1>2, <1>5
<1>8. \A t \in DOMAIN after : /\ after[t].pos \in Block
                             /\ after[t].vSpent \in [0..(vout[t] - 1) -> Pos \cup {Null}]
  BY <1>2, <1>3, <1>5
<1>9. DOMAIN after \subseteq Tx BY <1>2
<1>10. IsTxIndex(after) BY <1>7, <1>8, <1>9 DEF IsTxIndex
<1> QED BY <1>2, <1>10 DEF after

(***************************************************************************)
(* The index a chain determines.  The names below are those TxIndexFor     *)
(* gives to its parts.                                                     *)
(***************************************************************************)
ChainTxs(C) == UNION {txs(c) : c \in C}
Home(C, t) == CHOOSE c \in C : /\ t \in txs(c)
                               /\ \A d \in C : t \in txs(d) => nHeight[d] <= nHeight[c]
Spenders(C, t, n) == {p \in [block : C, tx : Tx] :
                        /\ p.tx \in txs(p.block)
                        /\ [hash |-> t, n |-> n] \in vin[p.tx]
                        /\ nHeight[p.block] >= nHeight[Home(C, t)]}
SpentBy(C, t, n) == IF Spenders(C, t, n) = {} THEN Null
                    ELSE CHOOSE p \in Spenders(C, t, n) : TRUE

LEMMA IndexFields ==
    ASSUME NEW C
    PROVE  TxIndexFor(C) =
              [t \in ChainTxs(C) |->
                 [pos |-> Home(C, t),
                  vSpent |-> [n \in 0..(vout[t] - 1) |-> SpentBy(C, t, n)]]]
BY DEF TxIndexFor, ChainTxs, Home, Spenders, SpentBy

(* No transaction is in two blocks of a chain: the coinbase of each block  *)
(* has a hash of its own, and so has all that spends it.                   *)
RepeatsNone(C) == \A c, d \in C : txs(c) \cap txs(d) # {} => c = d
NoRepeats == \A b \in Block : RepeatsNone(Ancestors[b] \ {Genesis})

LEMMA HomeUnique ==
    ASSUME NEW C \in SUBSET Block, RepeatsNone(C), NEW c \in C, NEW t \in txs(c)
    PROVE  Home(C, t) = c
<1> DEFINE P(x) == t \in txs(x) /\ \A d \in C : t \in txs(d) => nHeight[d] <= nHeight[x]
<1>1. \A d \in C : t \in txs(d) => d = c BY DEF RepeatsNone
<1>2. nHeight[c] \in Int BY HeightGrows, AncestorsType
<1>3. P(c) BY <1>1, <1>2
<1>4. Home(C, t) \in C /\ P(Home(C, t)) BY <1>3 DEF Home
<1> QED BY <1>1, <1>4

(***************************************************************************)
(* What makes block b fit an index: its transactions are new, and what     *)
(* they spend is there and is spent once.                                  *)
(***************************************************************************)
Fits(idx, b) ==
    /\ DOMAIN idx \cap txs(b) = {}
    /\ \A s \in txs(b) : \A o \in vin[s] :
          \/ o.hash \in txs(b) /\ o.n \in 0..(vout[o.hash] - 1)
          \/ o.hash \in DOMAIN idx /\ Unspent(idx[o.hash], o.n)
    /\ \A s, u \in txs(b) : s # u => vin[s] \cap vin[u] = {}

LEMMA ConnectableFits ==
    ASSUME NEW idx, NEW b \in Block, ConnectBlockOK(idx, b), DOMAIN idx \cap txs(b) = {}
    PROVE  Fits(idx, b)
<1> DEFINE earlier(i) == {vtx[b][j] : j \in 1..(i - 1)}
           entry(i, o) == IF o.hash \in earlier(i) THEN CTxIndex(b, o.hash) ELSE idx[o.hash]
<1>1. vtx[b] \in Seq(Tx) BY TxAssumption
<1>2. ASSUME NEW i \in DOMAIN vtx[b], NEW o \in vin[vtx[b][i]]
      PROVE  /\ o.hash \in earlier(i) \cup DOMAIN idx
             /\ Unspent(entry(i, o), o.n)
             /\ \A t \in earlier(i) : o \notin vin[t]
  BY DEF ConnectBlockOK, InputsConnect
<1>3. ASSUME NEW i \in DOMAIN vtx[b] PROVE earlier(i) \subseteq txs(b)
  BY <1>1 DEF txs
<1>4. ASSUME NEW s \in txs(b), NEW o \in vin[s]
      PROVE  \/ o.hash \in txs(b) /\ o.n \in 0..(vout[o.hash] - 1)
             \/ o.hash \in DOMAIN idx /\ Unspent(idx[o.hash], o.n)
  <2>1. PICK i \in DOMAIN vtx[b] : s = vtx[b][i] BY DEF txs
  <2>2. CASE o.hash \in earlier(i)
    <3>1. Unspent(CTxIndex(b, o.hash), o.n) BY <1>2, <2>1, <2>2
    <3>2. o.n \in 0..(vout[o.hash] - 1) BY <3>1 DEF Unspent, CTxIndex
    <3> QED BY <1>3, <2>2, <3>2
  <2>3. CASE o.hash \notin earlier(i) BY <1>2, <2>1, <2>3
  <2> QED BY <2>2, <2>3
<1>5. ASSUME NEW s \in txs(b), NEW u \in txs(b), s # u PROVE vin[s] \cap vin[u] = {}
  <2>1. PICK i \in DOMAIN vtx[b], j \in DOMAIN vtx[b] : s = vtx[b][i] /\ u = vtx[b][j]
    BY DEF txs
  <2>2. i \in Nat /\ j \in Nat /\ i # j /\ i >= 1 /\ j >= 1 BY <1>1, <1>5, <2>1
  <2>3. CASE i < j
    <3>1. s \in earlier(j) BY <2>1, <2>2, <2>3
    <3> QED BY <1>2, <2>1, <3>1
  <2>4. CASE j < i
    <3>1. u \in earlier(i) BY <2>1, <2>2, <2>4
    <3> QED BY <1>2, <2>1, <3>1
  <2> QED BY <2>2, <2>3, <2>4
<1> QED BY <1>4, <1>5 DEF Fits

(* What ConnectBlock writes, entry by entry.                               *)
ConnectedTo(idx, b, new) ==
    /\ DOMAIN new = DOMAIN idx \cup txs(b)
    /\ \A t \in DOMAIN new : new[t] = [pos |-> new[t].pos, vSpent |-> new[t].vSpent]
    /\ \A t \in txs(b) : /\ new[t].pos = b
                         /\ new[t].vSpent = [n \in 0..(vout[t] - 1) |-> new[t].vSpent[n]]
    /\ \A t \in DOMAIN idx :
          /\ new[t].pos = idx[t].pos
          /\ new[t].vSpent = [n \in DOMAIN idx[t].vSpent |-> new[t].vSpent[n]]
    /\ \A t \in DOMAIN new : \A n \in DOMAIN new[t].vSpent : \A s \in txs(b) :
          [hash |-> t, n |-> n] \in vin[s] => new[t].vSpent[n] = [block |-> b, tx |-> s]
    /\ \A t \in DOMAIN new : \A n \in DOMAIN new[t].vSpent :
          (\A s \in txs(b) : [hash |-> t, n |-> n] \notin vin[s]) =>
             new[t].vSpent[n] = IF t \in txs(b) THEN Null ELSE idx[t].vSpent[n]

LEMMA ConnectFields ==
    ASSUME NEW idx, NEW b \in Block, Fits(idx, b)
    PROVE  ConnectedTo(idx, b, ConnectBlock(idx, b))
<1> DEFINE new == ConnectBlock(idx, b)
           dom == DOMAIN idx \cup txs(b)
           before(t) == IF t \in txs(b) THEN CTxIndex(b, t) ELSE idx[t]
           spender(t, n) == {s \in txs(b) : [hash |-> t, n |-> n] \in vin[s]}
           spent(t, n) == IF spender(t, n) = {} THEN before(t).vSpent[n]
                          ELSE [block |-> b, tx |-> CHOOSE s \in spender(t, n) : TRUE]
           vSpent(t) == [n \in DOMAIN before(t).vSpent |-> spent(t, n)]
<1>1. new = [t \in dom |-> [pos |-> before(t).pos, vSpent |-> vSpent(t)]]
  BY DEF ConnectBlock
<1>2. \A t \in txs(b) : /\ before(t).pos = b
                        /\ before(t).vSpent = [n \in 0..(vout[t] - 1) |-> Null]
  BY DEF CTxIndex
<1>3. \A t \in DOMAIN idx : before(t) = idx[t] BY DEF Fits
<1>4. ASSUME NEW t, NEW n, NEW s \in txs(b), [hash |-> t, n |-> n] \in vin[s]
      PROVE  spent(t, n) = [block |-> b, tx |-> s]
  <2>1. spender(t, n) = {s} BY <1>4 DEF Fits
  <2>2. (CHOOSE u \in spender(t, n) : TRUE) = s BY <2>1
  <2> HIDE DEF spender
  <2> QED BY <2>1, <2>2
<1>5. ASSUME NEW t, NEW n, \A s \in txs(b) : [hash |-> t, n |-> n] \notin vin[s]
      PROVE  spent(t, n) = before(t).vSpent[n]
  BY <1>5
<1> HIDE DEF new, before, spent
<1>6. /\ DOMAIN new = dom
      /\ \A t \in dom : /\ new[t] = [pos |-> new[t].pos, vSpent |-> new[t].vSpent]
                        /\ new[t].pos = before(t).pos /\ new[t].vSpent = vSpent(t)
  BY <1>1
<1>7. ASSUME NEW t \in dom, NEW n \in DOMAIN new[t].vSpent
      PROVE  n \in DOMAIN before(t).vSpent /\ new[t].vSpent[n] = spent(t, n)
  BY <1>6
<1>8. /\ \A t \in txs(b) : DOMAIN before(t).vSpent = 0..(vout[t] - 1)
      /\ \A t \in DOMAIN idx : DOMAIN before(t).vSpent = DOMAIN idx[t].vSpent
  BY <1>2, <1>3
<1>9. \A t \in dom : new[t].vSpent = [n \in DOMAIN before(t).vSpent |-> new[t].vSpent[n]]
  BY <1>6
<1>10. ASSUME NEW t \in dom, NEW n \in DOMAIN new[t].vSpent
       PROVE  before(t).vSpent[n] = IF t \in txs(b) THEN Null ELSE idx[t].vSpent[n]
  BY <1>2, <1>3, <1>7
<1>11. /\ \A t \in txs(b) : /\ new[t].pos = b
                            /\ new[t].vSpent = [n \in 0..(vout[t] - 1) |-> new[t].vSpent[n]]
       /\ \A t \in DOMAIN idx :
             /\ new[t].pos = idx[t].pos
             /\ new[t].vSpent = [n \in DOMAIN idx[t].vSpent |-> new[t].vSpent[n]]
  BY <1>2, <1>3, <1>6, <1>8, <1>9
<1>12. \A t \in dom : \A n \in DOMAIN new[t].vSpent :
          \A s \in txs(b) : [hash |-> t, n |-> n] \in vin[s] =>
             new[t].vSpent[n] = [block |-> b, tx |-> s]
  BY <1>4, <1>7
<1>13. \A t \in dom : \A n \in DOMAIN new[t].vSpent :
          (\A s \in txs(b) : [hash |-> t, n |-> n] \notin vin[s]) =>
             new[t].vSpent[n] = IF t \in txs(b) THEN Null ELSE idx[t].vSpent[n]
  BY <1>5, <1>7, <1>10
<1> QED BY <1>6, <1>11, <1>12, <1>13 DEF new, ConnectedTo

(* DisconnectBlock takes back exactly what ConnectBlock did.               *)
LEMMA DisconnectUndoes ==
    ASSUME NEW idx, IsTxIndex(idx), NEW b \in Block, Fits(idx, b)
    PROVE  DisconnectBlock(ConnectBlock(idx, b), b) = idx
<1> DEFINE new == ConnectBlock(idx, b)
           freed == UNION {vin[t] : t \in txs(b)}
           vSpent(t) == [n \in DOMAIN new[t].vSpent |->
                            IF [hash |-> t, n |-> n] \in freed THEN Null ELSE new[t].vSpent[n]]
           old == DisconnectBlock(new, b)
<1>1. old = [t \in DOMAIN new \ txs(b) |-> [new[t] EXCEPT !.vSpent = vSpent(t)]]
  BY DEF DisconnectBlock
<1>a. ConnectedTo(idx, b, new) BY ConnectFields
<1> HIDE DEF new
<1>2. DOMAIN new \ txs(b) = DOMAIN idx BY <1>a DEF Fits, ConnectedTo
<1>3. ASSUME NEW t \in DOMAIN idx
      PROVE  /\ new[t] = [pos |-> idx[t].pos, vSpent |-> new[t].vSpent]
             /\ DOMAIN new[t].vSpent = DOMAIN idx[t].vSpent
             /\ t \in DOMAIN new /\ t \notin txs(b)
  BY <1>a DEF Fits, ConnectedTo
<1>4. ASSUME NEW t \in DOMAIN idx, NEW n \in DOMAIN idx[t].vSpent
      PROVE  vSpent(t)[n] = idx[t].vSpent[n]
  <2>1. n \in DOMAIN new[t].vSpent /\ t \in DOMAIN new /\ t \notin txs(b) BY <1>3
  <2>2. CASE [hash |-> t, n |-> n] \in freed
    <3>1. PICK s \in txs(b) : [hash |-> t, n |-> n] \in vin[s] BY <2>2
    <3>2. Unspent(idx[t], n) BY <2>1, <3>1 DEF Fits
    <3> QED BY <2>1, <2>2, <3>2 DEF Unspent
  <2>3. CASE [hash |-> t, n |-> n] \notin freed
    <3>1. \A s \in txs(b) : [hash |-> t, n |-> n] \notin vin[s] BY <2>3
    <3>2. new[t].vSpent[n] = idx[t].vSpent[n] BY <1>a, <2>1, <3>1 DEF ConnectedTo
    <3> QED BY <2>1, <2>3, <3>2
  <2> QED BY <2>2, <2>3
<1>5. ASSUME NEW t \in DOMAIN idx PROVE vSpent(t) = idx[t].vSpent
  <2>1. idx[t].vSpent = [n \in DOMAIN idx[t].vSpent |-> idx[t].vSpent[n]]
    BY DEF IsTxIndex
  <2>2. DOMAIN vSpent(t) = DOMAIN idx[t].vSpent BY <1>3
  <2>3. vSpent(t) = [n \in DOMAIN vSpent(t) |-> vSpent(t)[n]] OBVIOUS
  <2> HIDE DEF vSpent
  <2> QED BY <1>4, <2>1, <2>2, <2>3
<1> HIDE DEF vSpent
<1>6. ASSUME NEW t \in DOMAIN idx PROVE [new[t] EXCEPT !.vSpent = vSpent(t)] = idx[t]
  <2>1. idx[t] = [pos |-> idx[t].pos, vSpent |-> idx[t].vSpent] BY DEF IsTxIndex
  <2>2. PICK w : new[t] = [pos |-> idx[t].pos, vSpent |-> w] BY <1>3
  <2>3. [new[t] EXCEPT !.vSpent = vSpent(t)] = [pos |-> idx[t].pos, vSpent |-> vSpent(t)]
    BY <2>2
  <2> QED BY <1>5, <2>1, <2>3
<1>7. idx = [t \in DOMAIN idx |-> idx[t]] BY DEF IsTxIndex
<1>8. old = [t \in DOMAIN idx |-> idx[t]] BY <1>1, <1>2, <1>6
<1> QED BY <1>7, <1>8 DEF new

(* A block that was connected can be disconnected.                         *)
LEMMA ConnectedDisconnects ==
    ASSUME NEW idx, NEW b \in Block, ConnectBlockOK(idx, b), DOMAIN idx \cap txs(b) = {}
    PROVE  DisconnectBlockOK(ConnectBlock(idx, b), b)
<1> DEFINE new == ConnectBlock(idx, b)
           earlier(i) == {vtx[b][j] : j \in 1..(i - 1)}
           later(i) == {vtx[b][j] : j \in (i + 1)..Len(vtx[b])}
           entry(i, o) == IF o.hash \in earlier(i) THEN CTxIndex(b, o.hash) ELSE idx[o.hash]
<1>1. vtx[b] \in Seq(Tx) /\ \A i, j \in DOMAIN vtx[b] : vtx[b][i] = vtx[b][j] => i = j
  BY TxAssumption
<1>2. ConnectedTo(idx, b, new) BY ConnectableFits, ConnectFields
<1> HIDE DEF new
<1>3. ASSUME NEW i \in DOMAIN vtx[b], NEW o \in vin[vtx[b][i]]
      PROVE  o.hash \in DOMAIN new \ later(i) /\ o.n \in DOMAIN new[o.hash].vSpent
  <2>1. o.hash \in earlier(i) \cup DOMAIN idx /\ Unspent(entry(i, o), o.n)
    BY DEF ConnectBlockOK, InputsConnect
  <2>2. CASE o.hash \in earlier(i)
    <3>1. PICK j \in 1..(i - 1) : o.hash = vtx[b][j] BY <2>2
    <3>2. j \in DOMAIN vtx[b] /\ i \in Nat BY <1>1, <3>1
    <3>3. o.hash \notin later(i) BY <1>1, <3>1, <3>2
    <3>4. o.hash \in txs(b) BY <3>1, <3>2 DEF txs
    <3>5. o.n \in 0..(vout[o.hash] - 1) BY <2>1, <2>2 DEF Unspent, CTxIndex
    <3> QED BY <1>2, <3>3, <3>4, <3>5 DEF ConnectedTo
  <2>3. CASE o.hash \notin earlier(i)
    <3>1. o.hash \in DOMAIN idx /\ o.n \in DOMAIN idx[o.hash].vSpent
      BY <2>1, <2>3 DEF Unspent
    <3>2. o.hash \notin txs(b) BY <3>1
    <3>3. later(i) \subseteq txs(b) BY <1>1 DEF txs
    <3>4. o.hash \in DOMAIN new /\ DOMAIN new[o.hash].vSpent = DOMAIN idx[o.hash].vSpent
      BY <1>2, <3>1 DEF ConnectedTo
    <3> QED BY <3>1, <3>2, <3>3, <3>4
  <2> QED BY <2>2, <2>3
<1> QED BY <1>3 DEF DisconnectBlockOK, new

(***************************************************************************)
(* Connecting the next block to the index of a chain gives the index of    *)
(* the longer chain.                                                       *)
(***************************************************************************)
LEMMA HomeStays ==
    ASSUME NEW C \in SUBSET Block, NEW b \in Block, RepeatsNone(C \cup {b}), b \notin C
    PROVE  /\ ChainTxs(C \cup {b}) = ChainTxs(C) \cup txs(b)
           /\ ChainTxs(C) \cap txs(b) = {}
           /\ \A t \in ChainTxs(C) : Home(C \cup {b}, t) = Home(C, t) /\ Home(C, t) \in C
           /\ \A t \in txs(b) : Home(C \cup {b}, t) = b
<1>1. RepeatsNone(C) /\ C \cup {b} \in SUBSET Block BY DEF RepeatsNone
<1>2. ASSUME NEW c \in C, NEW t \in txs(c)
      PROVE  Home(C \cup {b}, t) = c /\ Home(C, t) = c
  BY <1>1, HomeUnique
<1>3. \A t \in txs(b) : Home(C \cup {b}, t) = b BY <1>1, HomeUnique
<1>4. ChainTxs(C) \cap txs(b) = {} BY DEF ChainTxs, RepeatsNone
<1>5. ChainTxs(C \cup {b}) = ChainTxs(C) \cup txs(b) BY DEF ChainTxs
<1>6. \A t \in ChainTxs(C) : Home(C \cup {b}, t) = Home(C, t) /\ Home(C, t) \in C
  BY <1>2 DEF ChainTxs
<1> QED BY <1>3, <1>4, <1>5, <1>6

LEMMA SpendersGrow ==
    ASSUME NEW C \in SUBSET Block, NEW b \in Block, RepeatsNone(C \cup {b}),
           \A c \in C : nHeight[c] < nHeight[b], b \notin C,
           NEW t \in ChainTxs(C) \cup txs(b), NEW n
    PROVE  Spenders(C \cup {b}, t, n) =
              (IF t \in txs(b) THEN {} ELSE Spenders(C, t, n))
              \cup {[block |-> b, tx |-> s] : s \in {u \in txs(b) : [hash |-> t, n |-> n] \in vin[u]}}
<1> DEFINE D == C \cup {b}
           own == {[block |-> b, tx |-> s] : s \in {u \in txs(b) : [hash |-> t, n |-> n] \in vin[u]}}
<1>1. \A c \in D : nHeight[c] \in Int BY HeightGrows, AncestorsType
<1>a. /\ \A u \in ChainTxs(C) : Home(D, u) = Home(C, u) /\ Home(C, u) \in C
      /\ \A u \in txs(b) : Home(D, u) = b
  BY HomeStays
<1>2. Home(D, t) \in D /\ nHeight[b] >= nHeight[Home(D, t)]
  BY <1>1, <1>a
<1>3. ASSUME NEW p \in [block : D, tx : Tx], p.block = b
      PROVE  p \in Spenders(D, t, n) <=> p \in own
  <2>1. p = [block |-> b, tx |-> p.tx] BY <1>3
  <2> HIDE DEF D
  <2>2. p \in Spenders(D, t, n) <=> p.tx \in txs(b) /\ [hash |-> t, n |-> n] \in vin[p.tx]
    BY <1>2, <1>3 DEF Spenders
  <2>3. ASSUME p \in own
        PROVE  p.tx \in txs(b) /\ [hash |-> t, n |-> n] \in vin[p.tx]
    BY <2>3
  <2> QED BY <2>1, <2>2, <2>3
<1>4. ASSUME NEW p \in [block : D, tx : Tx], p.block # b
      PROVE  /\ p \notin own
             /\ p \in Spenders(D, t, n) <=> t \notin txs(b) /\ p \in Spenders(C, t, n)
  <2>1. p.block \in C /\ p \in [block : C, tx : Tx] BY <1>4
  <2>2. p \notin own BY <1>4
  <2>3. CASE t \in txs(b)
    <3>1. Home(D, t) = b BY <1>a, <2>3
    <3>2. ~(nHeight[p.block] >= nHeight[Home(D, t)]) BY <1>1, <2>1, <3>1
    <3> QED BY <2>2, <2>3, <3>2 DEF Spenders
  <2>4. CASE t \notin txs(b)
    <3>1. Home(D, t) = Home(C, t) BY <1>a, <2>4
    <3> HIDE DEF own
    <3> QED BY <1>4, <2>1, <2>2, <2>4, <3>1 DEF Spenders
  <2> QED BY <2>3, <2>4
<1>5. own \subseteq [block : D, tx : Tx]
  BY TxsType
<1>6. /\ Spenders(D, t, n) \subseteq [block : D, tx : Tx]
      /\ Spenders(C, t, n) \subseteq [block : C, tx : Tx]
  BY DEF Spenders
<1>7. \A p \in [block : C, tx : Tx] : p \in [block : D, tx : Tx] /\ p.block # b
  OBVIOUS
<1> HIDE DEF own, D
<1>8. \A p : p \in Spenders(D, t, n) <=>
               p \in own \/ (t \notin txs(b) /\ p \in Spenders(C, t, n))
  BY <1>3, <1>4, <1>5, <1>6, <1>7
<1> QED BY <1>8 DEF own, D

LEMMA ConnectDescribes ==
    ASSUME NEW C \in SUBSET Block, NEW b \in Block, RepeatsNone(C \cup {b}),
           \A c \in C : nHeight[c] < nHeight[b], b \notin C,
           ConnectBlockOK(TxIndexFor(C), b)
    PROVE  /\ Fits(TxIndexFor(C), b)
           /\ ConnectBlock(TxIndexFor(C), b) = TxIndexFor(C \cup {b})
<1> DEFINE D == C \cup {b}
           idx == TxIndexFor(C)
           new == ConnectBlock(idx, b)
           dom == ChainTxs(C) \cup txs(b)
           outs(t) == 0..(vout[t] - 1)
<1>1. /\ ChainTxs(D) = dom /\ ChainTxs(C) \cap txs(b) = {}
      /\ \A t \in ChainTxs(C) : Home(D, t) = Home(C, t)
      /\ \A t \in txs(b) : Home(D, t) = b
  BY HomeStays
<1>2. idx = [t \in ChainTxs(C) |-> [pos |-> Home(C, t),
                                    vSpent |-> [n \in outs(t) |-> SpentBy(C, t, n)]]]
  BY IndexFields
<1>3. TxIndexFor(D) = [t \in dom |-> [pos |-> Home(D, t),
                                      vSpent |-> [n \in outs(t) |-> SpentBy(D, t, n)]]]
  BY <1>1, IndexFields
<1>4. ConnectBlockOK(idx, b) OBVIOUS
<1> DEFINE own(t, n) == {[block |-> b, tx |-> s] : s \in {u \in txs(b) : [hash |-> t, n |-> n] \in vin[u]}}
<1>5. \A t \in dom : \A n :
         Spenders(D, t, n) = (IF t \in txs(b) THEN {} ELSE Spenders(C, t, n)) \cup own(t, n)
  BY SpendersGrow
<1> HIDE DEF idx, D, new
<1>6. DOMAIN idx = ChainTxs(C) BY <1>2
<1>7. Fits(idx, b) BY <1>1, <1>4, <1>6, ConnectableFits
<1>8. ConnectedTo(idx, b, new) BY <1>7, ConnectFields DEF new
<1>9. \A t \in ChainTxs(C) :
         idx[t].pos = Home(C, t) /\ idx[t].vSpent = [n \in outs(t) |-> SpentBy(C, t, n)]
  BY <1>2
<1>10. ASSUME NEW t \in dom
       PROVE  /\ new[t] = [pos |-> new[t].pos, vSpent |-> new[t].vSpent]
              /\ new[t].pos = Home(D, t)
              /\ new[t].vSpent = [n \in outs(t) |-> new[t].vSpent[n]]
  <2>1. t \in DOMAIN new BY <1>6, <1>8 DEF ConnectedTo
  <2>2. CASE t \in txs(b) BY <1>1, <1>8, <2>1, <2>2 DEF ConnectedTo
  <2>3. CASE t \in ChainTxs(C)
    <3>1. DOMAIN idx[t].vSpent = outs(t) BY <1>9, <2>3
    <3> QED BY <1>1, <1>6, <1>8, <1>9, <2>1, <2>3, <3>1 DEF ConnectedTo
  <2> QED BY <2>2, <2>3
<1>11. ASSUME NEW t \in dom, NEW n \in outs(t)
       PROVE  new[t].vSpent[n] = SpentBy(D, t, n)
  <2>1. t \in DOMAIN new /\ n \in DOMAIN new[t].vSpent
    BY <1>6, <1>8, <1>10 DEF ConnectedTo
  <2>2. ASSUME NEW s \in txs(b), [hash |-> t, n |-> n] \in vin[s]
        PROVE  new[t].vSpent[n] = SpentBy(D, t, n)
    <3>1. \A u \in txs(b) : [hash |-> t, n |-> n] \in vin[u] => u = s
      BY <1>7, <2>2 DEF Fits
    <3>2. own(t, n) = {[block |-> b, tx |-> s]} BY <2>2, <3>1
    <3>3. t \notin txs(b) => Spenders(C, t, n) = {}
      <4>1. SUFFICES ASSUME t \notin txs(b) PROVE Spenders(C, t, n) = {}
        OBVIOUS
      <4>2. Unspent(idx[t], n) BY <1>7, <2>2, <4>1 DEF Fits
      <4>3. SpentBy(C, t, n) = Null BY <1>9, <4>1, <4>2 DEF Unspent
      <4>4. Spenders(C, t, n) \subseteq [block : Block, tx : Tx] BY DEF Spenders
      <4>5. SUFFICES ASSUME Spenders(C, t, n) # {} PROVE FALSE OBVIOUS
      <4>6. Null \in Spenders(C, t, n) BY <4>3, <4>5 DEF SpentBy
      <4> QED BY <4>4, <4>6, TxAssumption
    <3>4. Spenders(D, t, n) = {[block |-> b, tx |-> s]} BY <1>5, <3>2, <3>3
    <3>5. SpentBy(D, t, n) = [block |-> b, tx |-> s] BY <3>4 DEF SpentBy
    <3> QED BY <1>8, <2>1, <2>2, <3>5 DEF ConnectedTo
  <2>3. CASE \A s \in txs(b) : [hash |-> t, n |-> n] \notin vin[s]
    <3>1. own(t, n) = {} BY <2>3
    <3>2. new[t].vSpent[n] = IF t \in txs(b) THEN Null ELSE idx[t].vSpent[n]
      BY <1>8, <2>1, <2>3 DEF ConnectedTo
    <3>3. CASE t \in txs(b)
      <4>1. Spenders(D, t, n) = {} BY <1>5, <3>1, <3>3
      <4> QED BY <3>2, <3>3, <4>1 DEF SpentBy
    <3>4. CASE t \notin txs(b)
      <4>1. Spenders(D, t, n) = Spenders(C, t, n) BY <1>5, <3>1, <3>4
      <4>2. idx[t].vSpent[n] = SpentBy(C, t, n) BY <1>9, <3>4
      <4> QED BY <3>2, <3>4, <4>1, <4>2 DEF SpentBy
    <3> QED BY <3>3, <3>4
  <2> QED BY <2>2, <2>3
<1>12. ASSUME NEW t \in dom
       PROVE  new[t] = [pos |-> Home(D, t), vSpent |-> [n \in outs(t) |-> SpentBy(D, t, n)]]
  <2>1. new[t].vSpent = [n \in outs(t) |-> SpentBy(D, t, n)] BY <1>10, <1>11
  <2> QED BY <1>10, <2>1
<1>13. new = [t \in dom |-> new[t]]
  <2>1. DOMAIN new = dom BY <1>6, <1>8 DEF ConnectedTo
  <2>2. new = [t \in DOMAIN new |-> new[t]] BY DEF new, ConnectBlock
  <2> QED BY <2>1, <2>2
<1>14. new = TxIndexFor(D) BY <1>3, <1>12, <1>13
<1> QED BY <1>7, <1>14 DEF new, idx, D

(***************************************************************************)
(* Chains that end in a given block                                        *)
(***************************************************************************)
ChainTo(b) == Ancestors[b] \ {Genesis}

LEMMA GenesisIsValid == ValidChain[Genesis] /\ TxIndexOf[Genesis] = << >>
<1>1. Genesis \in Block /\ ChainTo(Genesis) = {}
  BY TreeAssumption, AncestorsOfGenesis DEF ChainTo
<1>2. ValidChain[Genesis] BY <1>1 DEF ValidChain, ChainTo
<1>3. TxIndexOf[Genesis] = TxIndexFor({}) BY <1>1 DEF TxIndexOf, ChainTo
<1>4. ChainTxs({}) = {} BY DEF ChainTxs
<1>5. TxIndexFor({}) = [t \in {} |-> [pos |-> Home({}, t),
                                      vSpent |-> [n \in 0..(vout[t] - 1) |-> SpentBy({}, t, n)]]]
  BY <1>4, IndexFields
<1> QED BY <1>2, <1>3, <1>5

LEMMA TxIndexOfType ==
    ASSUME NoRepeats, NEW b \in Block
    PROVE  IsTxIndex(TxIndexOf[b]) /\ DOMAIN TxIndexOf[b] = ChainTxs(ChainTo(b))
<1> DEFINE C == ChainTo(b)
           outs(t) == 0..(vout[t] - 1)
           idx == TxIndexOf[b]
<1>1. C \in SUBSET Block /\ RepeatsNone(C) BY AncestorsType DEF ChainTo, NoRepeats
<1>2. idx = [t \in ChainTxs(C) |-> [pos |-> Home(C, t),
                                    vSpent |-> [n \in outs(t) |-> SpentBy(C, t, n)]]]
  BY IndexFields DEF TxIndexOf, ChainTo
<1>3. ChainTxs(C) \subseteq Tx BY <1>1, TxsType DEF ChainTxs
<1>4. ASSUME NEW t \in ChainTxs(C) PROVE Home(C, t) \in Block
  <2>1. PICK c \in C : t \in txs(c) BY DEF ChainTxs
  <2>2. Home(C, t) = c BY <1>1, <2>1, HomeUnique
  <2> QED BY <1>1, <2>1, <2>2
<1>5. ASSUME NEW t, NEW n PROVE SpentBy(C, t, n) \in Pos \cup {Null}
  <2>1. Spenders(C, t, n) \subseteq Pos BY <1>1 DEF Spenders, Pos
  <2> QED BY <2>1 DEF SpentBy
<1> HIDE DEF idx, C
<1>6. /\ DOMAIN idx = ChainTxs(C)
      /\ \A t \in ChainTxs(C) : /\ idx[t].pos = Home(C, t)
                                /\ idx[t].vSpent = [n \in outs(t) |-> SpentBy(C, t, n)]
                                /\ idx[t] = [pos |-> idx[t].pos, vSpent |-> idx[t].vSpent]
  BY <1>2
<1>7. ASSUME NEW t \in ChainTxs(C) PROVE idx[t].vSpent \in [outs(t) -> Pos \cup {Null}]
  <2>1. idx[t].vSpent = [n \in outs(t) |-> SpentBy(C, t, n)] BY <1>6
  <2> HIDE DEF outs
  <2> QED BY <1>5, <2>1
<1>8. idx = [t \in DOMAIN idx |-> [pos |-> idx[t].pos, vSpent |-> idx[t].vSpent]]
  BY <1>2, <1>6
<1>9. IsTxIndex(idx)
  <2>1. DOMAIN idx \subseteq Tx BY <1>3, <1>6
  <2>2. \A t \in DOMAIN idx : idx[t].pos \in Block BY <1>4, <1>6
  <2>3. \A t \in DOMAIN idx : idx[t].vSpent \in [0..(vout[t] - 1) -> Pos \cup {Null}]
    BY <1>6, <1>7
  <2> QED BY <1>8, <2>1, <2>2, <2>3 DEF IsTxIndex
<1> QED BY <1>6, <1>9 DEF idx, C

(* The block after a chain, connected and disconnected again.              *)
LEMMA ChainConnects ==
    ASSUME NoRepeats, NEW b \in NonGenesis,
           ConnectBlockOK(TxIndexOf[hashPrevBlock[b]], b)
    PROVE  /\ Fits(TxIndexOf[hashPrevBlock[b]], b)
           /\ ConnectBlock(TxIndexOf[hashPrevBlock[b]], b) = TxIndexOf[b]
           /\ DisconnectBlockOK(TxIndexOf[b], b)
           /\ DisconnectBlock(TxIndexOf[b], b) = TxIndexOf[hashPrevBlock[b]]
<1> DEFINE p == hashPrevBlock[b]
           C == ChainTo(p)
           idx == TxIndexOf[p]
<1>1. b \in Block /\ b # Genesis /\ p \in Block BY TreeAssumption DEF NonGenesis
<1>2. ChainTo(b) = C \cup {b} /\ b \notin C
  BY <1>1, AncestorsUnfold, NoCycle DEF ChainTo
<1>3. C \in SUBSET Block BY <1>1, AncestorsType DEF ChainTo
<1>4. RepeatsNone(C \cup {b}) BY <1>1, <1>2 DEF NoRepeats, ChainTo
<1>5. ASSUME NEW c \in C PROVE nHeight[c] < nHeight[b]
  <2>1. c \in Ancestors[b] /\ c # b BY <1>1, <1>2 DEF ChainTo
  <2> QED BY <1>1, <2>1, HeightGrows
<1>6. idx = TxIndexFor(C) /\ TxIndexOf[b] = TxIndexFor(C \cup {b})
  BY <1>1, <1>2 DEF TxIndexOf, ChainTo
<1> HIDE DEF C
<1>7. Fits(idx, b) /\ ConnectBlock(idx, b) = TxIndexOf[b]
  BY <1>1, <1>2, <1>3, <1>4, <1>5, <1>6, ConnectDescribes
<1>8. IsTxIndex(idx) BY <1>1, TxIndexOfType
<1>9. DisconnectBlock(TxIndexOf[b], b) = idx BY <1>1, <1>7, <1>8, DisconnectUndoes
<1>10. DisconnectBlockOK(TxIndexOf[b], b)
  BY <1>1, <1>7, ConnectedDisconnects DEF Fits
<1> QED BY <1>7, <1>9, <1>10

(* A chain is valid when what is below its last block is, and that block   *)
(* connects to it.                                                         *)
LEMMA ValidUnfold ==
    ASSUME NEW b \in NonGenesis
    PROVE  ValidChain[b] <=> /\ ValidChain[hashPrevBlock[b]]
                             /\ ConnectBlockOK(TxIndexOf[hashPrevBlock[b]], b)
<1> DEFINE p == hashPrevBlock[b]
           fine(c) == ConnectBlockOK(TxIndexOf[hashPrevBlock[c]], c)
<1>1. b \in Block /\ b # Genesis /\ p \in Block BY TreeAssumption DEF NonGenesis
<1>2. Ancestors[b] = {b} \cup Ancestors[p] BY <1>1, AncestorsUnfold
<1>3. /\ ValidChain[b] <=> \A c \in Ancestors[b] \ {Genesis} : fine(c)
      /\ ValidChain[p] <=> \A c \in Ancestors[p] \ {Genesis} : fine(c)
  BY <1>1 DEF ValidChain
<1> HIDE DEF fine
<1>4. ValidChain[b] <=> ValidChain[p] /\ fine(b) BY <1>1, <1>2, <1>3
<1> QED BY <1>4 DEF fine

LEMMA ValidBelow ==
    ASSUME NEW b \in Block, ValidChain[b], NEW a \in Ancestors[b]
    PROVE  ValidChain[a]
<1>1. Ancestors[a] \subseteq Ancestors[b] /\ a \in Block
  BY AncestorsTransitive, AncestorsType
<1> QED BY <1>1 DEF ValidChain

(***************************************************************************)
(* No output is spent twice on a valid chain: the index of the chain names *)
(* the spender of whatever its transactions spend.                         *)
(***************************************************************************)
SpendsRecorded(b) ==
    \A u \in ChainTxs(ChainTo(b)) : \A o \in vin[u] :
        /\ o.hash \in DOMAIN TxIndexOf[b]
        /\ o.n \in DOMAIN TxIndexOf[b][o.hash].vSpent
        /\ \E c \in Block : TxIndexOf[b][o.hash].vSpent[o.n] = [block |-> c, tx |-> u]

LEMMA ValidRecordsSpends ==
    ASSUME NoRepeats, NEW b \in Block, ValidChain[b]
    PROVE  SpendsRecorded(b)
<1> DEFINE T == {x \in Block : ValidChain[x] => SpendsRecorded(x)}
<1>1. Genesis \in T
  BY TreeAssumption, AncestorsOfGenesis DEF SpendsRecorded, ChainTxs, ChainTo
<1>2. ASSUME NEW x \in NonGenesis, hashPrevBlock[x] \in T, ValidChain[x]
      PROVE  SpendsRecorded(x)
  <2> DEFINE p == hashPrevBlock[x]
             idx == TxIndexOf[p]
             new == TxIndexOf[x]
  <2>1. x \in Block /\ x # Genesis /\ p \in Block BY TreeAssumption DEF NonGenesis
  <2>2. ConnectBlockOK(idx, x) /\ SpendsRecorded(p) BY <1>2, ValidUnfold
  <2>3. Fits(idx, x) /\ ConnectBlock(idx, x) = new BY <2>2, ChainConnects
  <2>4. ConnectedTo(idx, x, new) BY <2>1, <2>3, ConnectFields
  <2>5. DOMAIN idx = ChainTxs(ChainTo(p)) /\ IsTxIndex(idx) BY <2>1, TxIndexOfType
  <2>6. ChainTxs(ChainTo(x)) = ChainTxs(ChainTo(p)) \cup txs(x)
    BY <2>1, AncestorsUnfold DEF ChainTxs, ChainTo
  <2> HIDE DEF idx, new
  <2>7. DOMAIN new = DOMAIN idx \cup txs(x) BY <2>4 DEF ConnectedTo
  <2>8. ASSUME NEW u \in txs(x), NEW o \in vin[u]
        PROVE  /\ o.hash \in DOMAIN new /\ o.n \in DOMAIN new[o.hash].vSpent
               /\ new[o.hash].vSpent[o.n] = [block |-> x, tx |-> u]
    <3>1. o = [hash |-> o.hash, n |-> o.n] BY <2>1, TxsType, TxAssumption DEF OutPoint
    <3>2. o.hash \in DOMAIN new /\ o.n \in DOMAIN new[o.hash].vSpent
      <4>1. CASE o.hash \in txs(x)
        <5>1. o.n \in 0..(vout[o.hash] - 1) BY <2>3, <4>1 DEF Fits, Unspent
        <5> QED BY <2>4, <2>7, <4>1, <5>1 DEF ConnectedTo
      <4>2. CASE o.hash \notin txs(x)
        <5>1. o.hash \in DOMAIN idx /\ o.n \in DOMAIN idx[o.hash].vSpent
          BY <2>3, <4>2 DEF Fits, Unspent
        <5> QED BY <2>4, <2>7, <5>1 DEF ConnectedTo
      <4> QED BY <4>1, <4>2
    <3> QED BY <2>4, <3>1, <3>2 DEF ConnectedTo
  <2>9. ASSUME NEW u \in ChainTxs(ChainTo(p)), NEW o \in vin[u]
        PROVE  /\ o.hash \in DOMAIN new /\ o.n \in DOMAIN new[o.hash].vSpent
               /\ new[o.hash].vSpent[o.n] = idx[o.hash].vSpent[o.n]
    <3>1. u \in Tx BY <2>1, <2>5 DEF IsTxIndex
    <3>2. o = [hash |-> o.hash, n |-> o.n] BY <3>1, TxAssumption DEF OutPoint
    <3>3. PICK c \in Block : /\ o.hash \in DOMAIN idx /\ o.n \in DOMAIN idx[o.hash].vSpent
                             /\ idx[o.hash].vSpent[o.n] = [block |-> c, tx |-> u]
      BY <2>2 DEF SpendsRecorded, idx
    <3>4. idx[o.hash].vSpent[o.n] # Null BY <3>1, <3>3, TxAssumption
    <3>5. o.hash \notin txs(x) BY <2>3, <3>3 DEF Fits
    <3>6. \A s \in txs(x) : o \notin vin[s] BY <2>3, <3>4, <3>5 DEF Fits, Unspent
    <3>7. o.hash \in DOMAIN new /\ o.n \in DOMAIN new[o.hash].vSpent
      BY <2>4, <2>7, <3>3 DEF ConnectedTo
    <3> QED BY <2>4, <3>2, <3>5, <3>6, <3>7 DEF ConnectedTo
  <2>10. ASSUME NEW u \in ChainTxs(ChainTo(x)), NEW o \in vin[u]
         PROVE  /\ o.hash \in DOMAIN new /\ o.n \in DOMAIN new[o.hash].vSpent
                /\ \E c \in Block : new[o.hash].vSpent[o.n] = [block |-> c, tx |-> u]
    <3>1. CASE u \in txs(x) BY <2>1, <2>8, <3>1
    <3>2. CASE u \in ChainTxs(ChainTo(p))
      <4>1. PICK c \in Block : idx[o.hash].vSpent[o.n] = [block |-> c, tx |-> u]
        BY <2>2, <3>2 DEF SpendsRecorded, idx
      <4> QED BY <2>9, <3>2, <4>1
    <3> QED BY <2>6, <3>1, <3>2
  <2> QED BY <2>10 DEF SpendsRecorded, new
<1>3. ASSUME NEW x \in NonGenesis, hashPrevBlock[x] \in T PROVE x \in T
  BY <1>2, <1>3 DEF NonGenesis
<1>4. T \in SUBSET Block OBVIOUS
<1> HIDE DEF T
<1>5. T = Block BY <1>1, <1>3, <1>4, TreeInduction
<1> QED BY <1>5 DEF T

LEMMA NoDoubleSpend ==
    ASSUME NoRepeats, NEW b \in Block, ValidChain[b],
           NEW s \in ChainTxs(ChainTo(b)), NEW u \in ChainTxs(ChainTo(b)), s # u
    PROVE  vin[s] \cap vin[u] = {}
<1>1. SpendsRecorded(b) BY ValidRecordsSpends
<1>2. ASSUME NEW o \in vin[s] \cap vin[u] PROVE FALSE
  <2>1. PICK c \in Block : TxIndexOf[b][o.hash].vSpent[o.n] = [block |-> c, tx |-> s]
    BY <1>1 DEF SpendsRecorded
  <2>2. PICK d \in Block : TxIndexOf[b][o.hash].vSpent[o.n] = [block |-> d, tx |-> u]
    BY <1>1 DEF SpendsRecorded
  <2> QED BY <2>1, <2>2
<1> QED BY <1>2

(***************************************************************************)
(* The pool                                                                *)
(***************************************************************************)
(* Transactions that do not conflict with each other can be added: no      *)
(* entry of mapNextTx is lost but for outpoints that were raced for.       *)
LEMMA AddUncheckedIndexed ==
    ASSUME NEW pool, IsPool(pool), Indexed(pool), NEW ts \in SUBSET Tx,
           \A s, t \in ts : ~Conflict(s, t),
           \A t \in ts : vin[t] \cap DOMAIN pool.mapNextTx \subseteq pool.raced
    PROVE  /\ IsPool(AddUnchecked(pool, ts))
           /\ Indexed(AddUnchecked(pool, ts))
           /\ AddUnchecked(pool, ts).mapTx = pool.mapTx \cup ts
           /\ AddUnchecked(pool, ts).raced = pool.raced
           /\ DOMAIN AddUnchecked(pool, ts).mapNextTx
                 = DOMAIN pool.mapNextTx \cup Inputs(ts)
<1> DEFINE spends(o) == IF o \in Inputs(ts) THEN CHOOSE t \in ts : o \in vin[t]
                        ELSE pool.mapNextTx[o]
           dom == DOMAIN pool.mapNextTx \cup Inputs(ts)
           next == [o \in dom |-> spends(o)]
           new == AddUnchecked(pool, ts)
<1>1. new = [mapTx |-> pool.mapTx \cup ts, mapNextTx |-> next, raced |-> pool.raced]
  BY DEF AddUnchecked
<1>2. /\ pool.mapTx \in SUBSET Tx /\ DOMAIN pool.mapNextTx \subseteq OutPoint
      /\ pool.raced \in SUBSET OutPoint
  BY DEF IsPool
<1>3. ASSUME NEW t \in ts, NEW o \in vin[t] PROVE o \in dom /\ next[o] = t
  <2>1. o \in Inputs(ts) BY <1>3 DEF Inputs
  <2>2. \A s \in ts : o \in vin[s] => s = t BY <1>3 DEF Conflict
  <2> QED BY <2>1, <2>2
<1>4. ASSUME NEW t \in pool.mapTx, NEW o \in vin[t] \ pool.raced
      PROVE  o \in dom /\ next[o] = t
  <2>1. o \in DOMAIN pool.mapNextTx /\ pool.mapNextTx[o] = t
    BY <1>4 DEF Indexed
  <2>2. o \notin Inputs(ts) BY <1>4, <2>1 DEF Inputs
  <2> QED BY <2>1, <2>2
<1>5. ASSUME NEW o \in dom PROVE next[o] \in pool.mapTx \cup ts /\ o \in vin[next[o]]
  <2>1. CASE o \in Inputs(ts)
    <3>1. PICK t \in ts : o \in vin[t] BY <2>1 DEF Inputs
    <3> QED BY <3>1, <1>3
  <2>2. CASE o \notin Inputs(ts)
    <3>1. o \in DOMAIN pool.mapNextTx /\ next[o] = pool.mapNextTx[o] BY <1>5, <2>2
    <3> QED BY <3>1 DEF Indexed
  <2> QED BY <2>1, <2>2
<1>6. dom \subseteq OutPoint BY <1>2, InputsType
<1> HIDE DEF spends
<1>7. next \in [dom -> Tx] BY <1>2, <1>5
<1>8. DOMAIN next = dom OBVIOUS
<1> HIDE DEF next
<1>9. /\ new.mapTx = pool.mapTx \cup ts
      /\ new.mapNextTx = next
      /\ new.raced = pool.raced
      /\ new = [mapTx |-> new.mapTx, mapNextTx |-> new.mapNextTx, raced |-> new.raced]
  BY <1>1
<1> HIDE DEF new
<1>10. DOMAIN new.mapNextTx = DOMAIN pool.mapNextTx \cup Inputs(ts) BY <1>8, <1>9
<1> HIDE DEF dom
<1>11. IsPool(new) BY <1>2, <1>6, <1>7, <1>8, <1>9 DEF IsPool
<1>12. Indexed(new)
  <2>1. \A o \in DOMAIN new.mapNextTx :
           new.mapNextTx[o] \in new.mapTx /\ o \in vin[new.mapNextTx[o]]
    BY <1>5, <1>8, <1>9
  <2>2. \A t \in new.mapTx : \A o \in vin[t] \ new.raced :
           o \in DOMAIN new.mapNextTx /\ new.mapNextTx[o] = t
    BY <1>3, <1>4, <1>8, <1>9
  <2> QED BY <2>1, <2>2 DEF Indexed
<1> QED BY <1>9, <1>10, <1>11, <1>12 DEF new

(* Two lots of transactions, each acceptable to the pool as it was, can be *)
(* added one after the other: what both spend has been raced for.          *)
LEMMA AddRacedIndexed ==
    ASSUME NEW pool, IsPool(pool), Indexed(pool),
           NEW between \in SUBSET Tx, NEW late \in SUBSET between, NEW ts \in SUBSET Tx,
           \A s, t \in between : ~Conflict(s, t),
           \A s, t \in ts : ~Conflict(s, t),
           \A t \in between \cup ts : vin[t] \cap DOMAIN pool.mapNextTx = {}
    PROVE  /\ IsPool(AddRaced(pool, between, late, ts))
           /\ Indexed(AddRaced(pool, between, late, ts))
           /\ AddRaced(pool, between, late, ts).mapTx = pool.mapTx \cup between \cup ts
<1> DEFINE early == between \ late
           first == AddUnchecked(pool, early)
           both == Inputs(between) \cap Inputs(ts)
           crossed == [first EXCEPT !.raced = @ \cup both]
<1>1. /\ IsPool(first) /\ Indexed(first)
      /\ first.mapTx = pool.mapTx \cup early
      /\ DOMAIN first.mapNextTx = DOMAIN pool.mapNextTx \cup Inputs(early)
  <2>1. /\ early \in SUBSET Tx /\ \A s, t \in early : ~Conflict(s, t)
        /\ \A t \in early : vin[t] \cap DOMAIN pool.mapNextTx \subseteq pool.raced
    OBVIOUS
  <2> HIDE DEF early
  <2> QED BY <2>1, AddUncheckedIndexed
<1>2. AddRaced(pool, between, late, ts) = AddUnchecked(AddUnchecked(crossed, ts), late)
  BY DEF AddRaced
<1>3. both \subseteq OutPoint BY InputsType
<1>4. Inputs(early) \subseteq Inputs(between) BY DEF Inputs
<1>5. \A t \in late : vin[t] \cap Inputs(early) = {} BY DEF Inputs, Conflict
<1>6. pool.mapTx \cup between \cup ts = ((pool.mapTx \cup early) \cup ts) \cup late OBVIOUS
<1> HIDE DEF first, both, early
<1>7. first = [mapTx |-> first.mapTx, mapNextTx |-> first.mapNextTx, raced |-> first.raced]
  BY <1>1 DEF IsPool
<1>8. /\ crossed.mapTx = first.mapTx
      /\ crossed.mapNextTx = first.mapNextTx
      /\ crossed.raced = first.raced \cup both
      /\ crossed = [mapTx |-> crossed.mapTx, mapNextTx |-> crossed.mapNextTx,
                    raced |-> crossed.raced]
  <2>1. crossed = [mapTx |-> first.mapTx, mapNextTx |-> first.mapNextTx,
                   raced |-> first.raced \cup both]
    BY <1>7
  <2> HIDE DEF crossed
  <2> QED BY <2>1
<1> HIDE DEF crossed
<1>9. IsPool(crossed) BY <1>1, <1>3, <1>8 DEF IsPool
<1>10. Indexed(crossed) BY <1>1, <1>8 DEF Indexed
<1>11. \A t \in ts : vin[t] \cap DOMAIN crossed.mapNextTx \subseteq crossed.raced
  BY <1>1, <1>8, <1>4 DEF both, Inputs
<1> DEFINE second == AddUnchecked(crossed, ts)
<1>12. /\ IsPool(second) /\ Indexed(second)
      /\ second.mapTx = crossed.mapTx \cup ts
      /\ DOMAIN second.mapNextTx = DOMAIN crossed.mapNextTx \cup Inputs(ts)
  BY <1>9, <1>10, <1>11, AddUncheckedIndexed
<1>13. second.raced = crossed.raced BY DEF AddUnchecked
<1> HIDE DEF second
<1>14. \A t \in late : vin[t] \cap DOMAIN second.mapNextTx \subseteq second.raced
  <2>1. \A t \in late : vin[t] \subseteq Inputs(between) BY DEF Inputs
  <2> QED BY <1>1, <1>8, <1>12, <1>5, <1>13, <2>1 DEF both
<1>15. /\ IsPool(AddUnchecked(second, late)) /\ Indexed(AddUnchecked(second, late))
       /\ AddUnchecked(second, late).mapTx = second.mapTx \cup late
  <2>1. late \in SUBSET Tx /\ \A s, t \in late : ~Conflict(s, t) OBVIOUS
  <2> QED BY <1>12, <1>14, <2>1, AddUncheckedIndexed
<1> QED BY <1>1, <1>2, <1>8, <1>12, <1>15, <1>6 DEF second

(* Removing transactions takes away their entries and no others.           *)
LEMMA RemoveIndexed ==
    ASSUME NEW pool, IsPool(pool), Indexed(pool), NEW ts
    PROVE  /\ IsPool(Remove(pool, ts))
           /\ Indexed(Remove(pool, ts))
           /\ Remove(pool, ts).mapTx = pool.mapTx \ ts
<1> DEFINE gone == ts \cap pool.mapTx
           left == pool.mapTx \ gone
           dom == DOMAIN pool.mapNextTx \ Inputs(gone)
           next == [o \in dom |-> pool.mapNextTx[o]]
           new == Remove(pool, ts)
<1>1. new = [mapTx |-> left, mapNextTx |-> next, raced |-> pool.raced] BY DEF Remove
<1>2. /\ pool.mapTx \in SUBSET Tx
      /\ DOMAIN pool.mapNextTx \subseteq OutPoint
      /\ pool.mapNextTx \in [DOMAIN pool.mapNextTx -> Tx]
      /\ pool.raced \in SUBSET OutPoint
  BY DEF IsPool
<1>3. ASSUME NEW t \in left, NEW o \in vin[t] \ pool.raced
      PROVE  o \in dom /\ next[o] = t
  <2>1. o \in DOMAIN pool.mapNextTx /\ pool.mapNextTx[o] = t
    BY <1>3 DEF Indexed
  <2>2. ASSUME NEW s \in gone PROVE o \notin vin[s]
    BY <2>1, <2>2, <1>3 DEF Indexed
  <2>3. o \notin Inputs(gone) BY <2>2 DEF Inputs
  <2> QED BY <2>1, <2>3
<1>4. ASSUME NEW o \in dom PROVE next[o] \in left /\ o \in vin[next[o]]
  <2>1. next[o] = pool.mapNextTx[o] /\ o \in DOMAIN pool.mapNextTx BY <1>4
  <2>2. next[o] \in pool.mapTx /\ o \in vin[next[o]] BY <2>1 DEF Indexed
  <2>3. next[o] \notin gone BY <2>2, <1>4 DEF Inputs
  <2> QED BY <2>2, <2>3
<1>5. next \in [dom -> Tx] BY <1>2
<1>6. left \in SUBSET Tx /\ dom \subseteq OutPoint /\ DOMAIN next = dom BY <1>2
<1>7. left = pool.mapTx \ ts OBVIOUS
<1> HIDE DEF next, dom, left
<1>8. /\ new.mapTx = left
      /\ new.mapNextTx = next
      /\ new.raced = pool.raced
      /\ new = [mapTx |-> new.mapTx, mapNextTx |-> new.mapNextTx, raced |-> new.raced]
  BY <1>1
<1> HIDE DEF new
<1>9. IsPool(new) BY <1>2, <1>5, <1>6, <1>8 DEF IsPool
<1>10. Indexed(new) BY <1>3, <1>4, <1>6, <1>8 DEF Indexed
<1> QED BY <1>7, <1>8, <1>9, <1>10 DEF new

LEMMA EmptyPoolIndexed == IsPool(EmptyPool) /\ Indexed(EmptyPool)
BY DEF EmptyPool, IsPool, Indexed, Inputs

LEMMA EmptyIndexType == IsTxIndex(<< >>)
BY DEF IsTxIndex
=============================================================================
