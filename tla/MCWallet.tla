------------------------------ MODULE MCWallet ------------------------------
(* The instance of Wallet for TLC.                                         *)
EXTENDS Wallet, TLC

coin(t, n) == [hash |-> t, n |-> n]

(***************************************************************************)
(* z pays the wallet and a payer, whose payment p1 to the wallet is in a1  *)
(* and in b1.  The wallet may spend its coinbase output by s1, which b2    *)
(* carries; a copy of the wallet spends it by q1, which a1 carries.  From  *)
(* z the best branch may go by b1 to a1 and back to b2, or there at once;  *)
(* x2, behind b1, is not valid.                                            *)
(***************************************************************************)
MCPrev == "z" :> "g" @@ "a1" :> "z" @@ "b1" :> "z" @@ "b2" :> "b1" @@ "x2" :> "b1"
MCBlock == {"g"} \cup DOMAIN MCPrev
MCVtx == "g" :> <<"kg">> @@ "z" :> <<"kz">> @@ "a1" :> <<"ka1", "p1", "q1">>
         @@ "b1" :> <<"kb1", "p1">> @@ "b2" :> <<"kb2", "s1">> @@ "x2" :> <<"kx2">>
MCSendable == {"s1"}
MCTx == MCSendable \cup UNION {{MCVtx[b][i] : i \in DOMAIN MCVtx[b]} : b \in DOMAIN MCVtx}

Spends == "p1" :> {coin("kz", 1)}
          @@ "q1" :> {coin("kz", 0)} @@ "s1" :> {coin("kz", 0)}
MCVin == [t \in MCTx |-> IF t \in DOMAIN Spends THEN Spends[t] ELSE {}]
MCVout == [t \in MCTx |-> IF t \in {"kz", "s1"} THEN 2 ELSE 1]
MCMine == {coin("kz", 0), coin("p1", 0), coin("s1", 0)}

MCWork == [b \in Block |-> IF b \in {"a1", "b2", "x2"} THEN 3 ELSE 1]
=============================================================================
