----------------------------- MODULE MCTxRelay -----------------------------
(* An instance of TxRelay for TLC.                                         *)
EXTENDS TxRelay, TLC

out(t, n) == [hash |-> t, n |-> n]

(***************************************************************************)
(* Block z pays kz, whose outputs p1, p2 and q spend; q conflicts with p1. *)
(* c spends p1 and p2, e spends p1 as c does, d spends c.  Block y, behind *)
(* z, confirms p1; the heavier a, also behind z, confirms q.               *)
(***************************************************************************)
RelayPrev == "z" :> "g" @@ "y" :> "z" @@ "a" :> "z"
RelayBlock == {"g"} \cup DOMAIN RelayPrev
RelayWork == [b \in Block |-> IF b = "a" THEN 2 ELSE 1]
RelayVtx == "g" :> <<"kg">> @@ "z" :> <<"kz">> @@ "y" :> <<"ky", "p1">> @@ "a" :> <<"ka", "q">>
RelayTx == {"kg", "kz", "ky", "ka", "p1", "p2", "q", "c", "d", "e"}
Spends == "p1" :> {out("kz", 0)} @@ "p2" :> {out("kz", 1)} @@ "q" :> {out("kz", 0)}
          @@ "c" :> {out("p1", 0), out("p2", 0)} @@ "d" :> {out("c", 0)} @@ "e" :> {out("p1", 0)}
RelayVin == [t \in RelayTx |-> IF t \in DOMAIN Spends THEN Spends[t] ELSE {}]
RelayVout == [t \in RelayTx |-> IF t = "kz" THEN 2 ELSE 1]
=============================================================================
