------------------------------ MODULE TxIndex ------------------------------
(***************************************************************************)
(* The transaction index of CTxDB, and what connecting a block to it and   *)
(* disconnecting a block from it do.  An index maps the transactions of    *)
(* the best chain to a CTxIndex record: the block a transaction is in and, *)
(* for each of its outputs, which transaction spent it.                    *)
(*                                                                         *)
(* The loops of ConnectBlock and DisconnectBlock work through the          *)
(* transactions of one block; here their effect is stated for the block at *)
(* once, with the position of a transaction in the block where the order   *)
(* matters.                                                                *)
(***************************************************************************)
EXTENDS BlockTree, Sequences

CONSTANTS
    Tx,                \* every transaction, by txid
    vin,               \* vin[t]: the outpoints t spends; none for a coinbase
    vout,              \* vout[t]: how many outputs t has
    vtx,               \* vtx[b]: the transactions of block b, in order
    BadContents,       \* blocks ConnectBlock refuses whatever the index holds
    COINBASE_MATURITY

OutPoint == [hash : Tx, n : Nat]
IsCoinBase(t) == vin[t] = {}
txs(b) == {vtx[b][i] : i \in DOMAIN vtx[b]}

ASSUME TxAssumption ==
    /\ Null \notin [block : Block, tx : Tx]
    /\ vin \in [Tx -> SUBSET OutPoint]
    /\ vout \in [Tx -> Nat]
    /\ vtx \in [Block -> Seq(Tx)]
    \* CheckBlock: one coinbase, in front, and no transaction twice
    /\ \A b \in Block :
          /\ vtx[b] # << >>
          /\ \A i \in DOMAIN vtx[b] : IsCoinBase(vtx[b][i]) <=> i = 1
          /\ \A i, j \in DOMAIN vtx[b] : vtx[b][i] = vtx[b][j] => i = j
    /\ BadContents \subseteq NonGenesis
    /\ COINBASE_MATURITY \in Nat

Pos == [block : Block, tx : Tx]
CTxIndexOneMore(b, t) == [pos |-> b, vSpent |-> [n \in 0..vout[t] |-> Null]]  \* mutant
CTxIndex(b, t) == [pos |-> b, vSpent |-> [n \in 0..(vout[t] - 1) |-> Null]]

IsTxIndex(idx) ==
    /\ DOMAIN idx \subseteq Tx
    /\ idx = [t \in DOMAIN idx |-> [pos |-> idx[t].pos, vSpent |-> idx[t].vSpent]]
    /\ \A t \in DOMAIN idx :
          /\ idx[t].pos \in Block
          /\ idx[t].vSpent \in [0..(vout[t] - 1) -> Pos \cup {Null}]

Unspent(entry, n) == n \in DOMAIN entry.vSpent /\ entry.vSpent[n] = Null

(* ConnectInputs' walk back from pindexBlock: a coinbase that far below it *)
(* cannot be spent yet.                                                    *)
Immature(pos, pindexBlock) ==
    /\ pos \in Ancestors[pindexBlock]
    /\ nHeight[pindexBlock] - nHeight[pos] < COINBASE_MATURITY

(***************************************************************************)
(* ConnectBlock                                                            *)
(***************************************************************************)
(* BIP30: no transaction of the block may replace one that still has an    *)
(* unspent output.  Every block is later than the switch time.             *)
Overwrites(idx, b) ==
    \E t \in txs(b) \cap DOMAIN idx : \E n \in DOMAIN idx[t].vSpent : Unspent(idx[t], n)

(* FetchInputs and ConnectInputs of the i-th transaction of the block: the *)
(* entry of an input comes from mapQueuedChanges when an earlier           *)
(* transaction of the block put it there, otherwise from the index.        *)
InputsConnect(idx, b, i) ==
    LET earlier == {vtx[b][j] : j \in 1..(i - 1)}
    IN  \A o \in vin[vtx[b][i]] :
          LET entry == IF o.hash \in earlier THEN CTxIndex(b, o.hash) ELSE idx[o.hash]
          IN  /\ o.hash \in earlier \cup DOMAIN idx
              /\ Unspent(entry, o.n)
              /\ \A t \in earlier : o \notin vin[t]
              /\ ~(IsCoinBase(o.hash) /\ Immature(entry.pos, b))

(* BadContents stands for the checks that read neither index nor chain:    *)
(* CheckBlock, signatures, sigops, values and the reward.                  *)
ConnectBlockOK(idx, b) ==
    /\ b \notin BadContents
    /\ ~Overwrites(idx, b)
    /\ \A i \in DOMAIN vtx[b] : InputsConnect(idx, b, i)

(* The index once the queued changes are written: the block's transactions *)
(* are in it and every output they spend points to its spender.            *)
ConnectBlock(idx, b) ==
    LET before == [t \in DOMAIN idx \cup txs(b) |->
                      IF t \in txs(b) THEN CTxIndex(b, t) ELSE idx[t]]
        spender(o) == {t \in txs(b) : o \in vin[t]}
        vSpent(t) == [n \in DOMAIN before[t].vSpent |->
                        LET o == [hash |-> t, n |-> n]
                        IN  IF spender(o) = {} THEN before[t].vSpent[n]
                            ELSE [block |-> b, tx |-> CHOOSE s \in spender(o) : TRUE]]
    IN  [t \in DOMAIN before |-> [pos |-> before[t].pos, vSpent |-> vSpent(t)]]

(***************************************************************************)
(* DisconnectBlock                                                         *)
(***************************************************************************)
(* In reverse order: the transactions behind i are erased already.         *)
DisconnectBlockOK(idx, b) ==
    \A i \in DOMAIN vtx[b] : \A o \in vin[vtx[b][i]] :
        /\ o.hash \in DOMAIN idx \ {vtx[b][j] : j \in (i + 1)..Len(vtx[b])}
        /\ o.n \in DOMAIN idx[o.hash].vSpent

(* Inputs are relinquished, then the block's transactions are erased.      *)
DisconnectBlock(idx, b) ==
    LET freed == UNION {vin[t] : t \in txs(b)}
    IN  [t \in DOMAIN idx \ txs(b) |->
            [idx[t] EXCEPT !.vSpent =
                [n \in DOMAIN idx[t].vSpent |->
                    IF [hash |-> t, n |-> n] \in freed THEN Null
                    ELSE idx[t].vSpent[n]]]]

(***************************************************************************)
(* Reference: the index a chain determines, read off the chain itself.     *)
(* Genesis is never connected, so its transactions are in no index.        *)
(***************************************************************************)
TxIndexFor(chain) ==
    LET home(t) == CHOOSE c \in chain :
                      /\ t \in txs(c)
                      /\ \A d \in chain : t \in txs(d) => nHeight[d] <= nHeight[c]
        spenders(t, n) == {p \in [block : chain, tx : Tx] :
                              /\ p.tx \in txs(p.block)
                              /\ [hash |-> t, n |-> n] \in vin[p.tx]
                              /\ nHeight[p.block] >= nHeight[home(t)]}
    IN  [t \in UNION {txs(c) : c \in chain} |->
            [pos |-> home(t),
             vSpent |-> [n \in 0..(vout[t] - 1) |->
                IF spenders(t, n) = {} THEN Null ELSE CHOOSE p \in spenders(t, n) : TRUE]]]

TxIndexOf == [b \in Block |-> TxIndexFor(Ancestors[b] \ {Genesis})]

(* Each block of the branch connects to the index the blocks below leave.  *)
ValidChain ==
    [b \in Block |-> \A c \in Ancestors[b] \ {Genesis} :
                        ConnectBlockOK(TxIndexOf[hashPrevBlock[c]], c)]
=============================================================================
