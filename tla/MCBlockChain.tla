---------------------------- MODULE MCBlockChain ----------------------------
(* Instances of BlockChain for TLC.                                        *)
EXTENDS BlockChain, TLC

out(t, n) == [hash |-> t, n |-> n]

(***************************************************************************)
(* Two branches over the trunk g, z, y.  Branch a carries t1 and t3, which *)
(* spends t1; branch b carries t2, which conflicts with t1, and t5.  Both  *)
(* carry t4.  Of the blocks behind b2, c3 is valid, d3 spends again what   *)
(* t2 spent, i4 spends a coinbase too early and u4 fails AcceptBlock.  The *)
(* wallet has w, which conflicts with t1, t2 and t4 and is in no block.    *)
(***************************************************************************)
ReorgPrev == "z" :> "g" @@ "y" :> "z" @@ "a1" :> "y" @@ "a2" :> "a1" @@ "b1" :> "y"
             @@ "b2" :> "b1" @@ "c3" :> "b2" @@ "d3" :> "b2" @@ "e4" :> "d3"
             @@ "i4" :> "c3" @@ "u4" :> "c3"
ReorgBlock == {"g"} \cup DOMAIN ReorgPrev
ReorgVtx ==
    "g" :> <<"kg">> @@ "z" :> <<"kz">> @@ "y" :> <<"ky">> @@ "a1" :> <<"ka1", "t1">>
    @@ "a2" :> <<"ka2", "t3", "t4">> @@ "b1" :> <<"kb1", "t2">> @@ "b2" :> <<"kb2", "t4", "t5">>
    @@ "c3" :> <<"kc3">> @@ "d3" :> <<"kd3", "t1">> @@ "e4" :> <<"ke4">>
    @@ "i4" :> <<"ki4", "t6">> @@ "u4" :> <<"ku4">>
ReorgVin ==
    "t1" :> {out("kz", 0)} @@ "t2" :> {out("kz", 0)} @@ "t3" :> {out("t1", 0)}
    @@ "t4" :> {out("kz", 1)} @@ "t5" :> {out("kb1", 0)} @@ "t6" :> {out("ki4", 0)}
    @@ "w" :> {out("kz", 0), out("kz", 1)}

(***************************************************************************)
(* Two branches of valid blocks for the run in which the process dies;     *)
(* u2, behind b1, fails AcceptBlock.                                       *)
(***************************************************************************)
CrashPrev == "z" :> "g" @@ "y" :> "z" @@ "a1" :> "y" @@ "a2" :> "a1" @@ "a3" :> "a2"
             @@ "b1" :> "y" @@ "b2" :> "b1" @@ "u2" :> "b1"
CrashVtx ==
    "g" :> <<"kg">> @@ "z" :> <<"kz">> @@ "y" :> <<"ky">> @@ "a1" :> <<"ka1", "t1">>
    @@ "a2" :> <<"ka2", "t3">> @@ "a3" :> <<"ka3">> @@ "b1" :> <<"kb1", "t2">>
    @@ "b2" :> <<"kb2", "t4", "t5">> @@ "u2" :> <<"ku2">>

(***************************************************************************)
(* The last block of a1, a2, a3 but one is not valid.                      *)
(***************************************************************************)
HolePrev == "z" :> "g" @@ "a1" :> "z" @@ "a2" :> "a1" @@ "a3" :> "a2" @@ "b1" :> "z" @@ "b2" :> "b1"
HoleVtx == "g" :> <<"kg">> @@ "z" :> <<"kz">> @@ "a1" :> <<"ka1", "t1">> @@ "a2" :> <<"ka2", "t2">>
           @@ "a3" :> <<"ka3">> @@ "b1" :> <<"kb1", "t2">> @@ "b2" :> <<"kb2">>

(***************************************************************************)
(* x repeats the coinbase of z once y has spent it, as BIP30 allows.       *)
(***************************************************************************)
RepeatPrev == "z" :> "g" @@ "y" :> "z" @@ "x" :> "y" @@ "w1" :> "z" @@ "w2" :> "w1" @@ "w3" :> "w2"
RepeatVtx == "g" :> <<"kg">> @@ "z" :> <<"kz">> @@ "y" :> <<"ky", "t1", "t4">> @@ "x" :> <<"kz">>
             @@ "w1" :> <<"kw1">> @@ "w2" :> <<"kw2">> @@ "w3" :> <<"kw3">>

(***************************************************************************)
(* What follows from the chain and its contents.                           *)
(***************************************************************************)
BlocksOf(prev) == {"g"} \cup DOMAIN prev
TxOf(contents) == UNION {{contents[b][i] : i \in DOMAIN contents[b]} : b \in DOMAIN contents}
VinOf(ts) == [t \in ts |-> IF t \in DOMAIN ReorgVin THEN ReorgVin[t] ELSE {}]
VoutOf(ts) == [t \in ts |-> IF t = "kz" THEN 2 ELSE 1]

ReorgTx == TxOf(ReorgVtx) \cup {"w"}
ReorgVinAll == VinOf(ReorgTx)
ReorgVout == VoutOf(ReorgTx)
CrashBlock == BlocksOf(CrashPrev)
CrashTx == TxOf(CrashVtx)
CrashVin == VinOf(CrashTx)
CrashVout == VoutOf(CrashTx)
HoleBlock == BlocksOf(HolePrev)
HoleTx == TxOf(HoleVtx)
HoleVin == VinOf(HoleTx)
HoleVout == VoutOf(HoleTx)
RepeatBlock == BlocksOf(RepeatPrev)
RepeatTx == TxOf(RepeatVtx)
RepeatVin == VinOf(RepeatTx)
RepeatVout == VoutOf(RepeatTx)
OneWork == [b \in Block |-> 1]
(* A retarget made b2 harder: two blocks of branch b outweigh two of a.     *)
ReorgWork == [b \in Block |-> IF b = "b2" THEN 2 ELSE 1]
=============================================================================
