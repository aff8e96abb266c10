-------------------------- MODULE MCFinancialsInbox --------------------------
(* Small instances of FinancialsInbox for TLC.                              *)
EXTENDS FinancialsInbox, TLC

CONSTANTS r1, r2, s1, t1, d1, grn, sale, return, day, p, q, m, n

(* A receipt announced twice, under two event ids.                          *)
ReceiptDocument == r1 :> grn @@ r2 :> grn
ReceiptKind == r1 :> "receipt" @@ r2 :> "receipt"

(* A sale and its return; a receipt and a day close that moves no money.    *)
RefundDocument == s1 :> sale @@ t1 :> return
RefundKind == s1 :> "sale" @@ t1 :> "return"
PairDocument == r1 :> grn @@ d1 :> day
PairKind == r1 :> "receipt" @@ d1 :> "close"

Reverses == t1 :> sale

Alike == Permutations({p, q}) \cup Permutations({m, n})
=============================================================================
