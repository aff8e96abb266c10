------------------------------ MODULE MCInbound ------------------------------
(* Small instances of Inbound for TLC.                                      *)
EXTENDS Inbound, TLC

CONSTANTS o1, rice, n1, n2, k1, k2, w1, w2, owner, manager

(* One order of two units: a count doubled differs from a full delivery.    *)
TwoBags == o1 :> (rice :> 2)

(* What the trucks hold.                                                    *)
AnyRice == {<<rice, "good">>, <<rice, "damaged">>}

Users == owner :> "OWNER" @@ manager :> "MANAGER"

Alike == Permutations({n1, n2}) \cup Permutations({k1, k2}) \cup Permutations({w1, w2})
=============================================================================
