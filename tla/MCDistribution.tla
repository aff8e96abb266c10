--------------------------- MODULE MCDistribution ---------------------------
(* Small instances of Distribution: a warehouse with two bins and a         *)
(* showroom, two products, of which one has no product master record yet.   *)
EXTENDS Distribution, TLC

CONSTANTS rice, soap, wh, shop, r1, r2, t1, t2, b1, s1, a1, c1, k1, k2, near, far,
          ann, bob, crew, lou, max

Good(s, l, q) == [place |-> <<s, l>>, delta |-> q, good |-> TRUE]
Broken(s, l, q) == [place |-> <<s, l>>, delta |-> q, good |-> FALSE]

Kinds0 == (r1 :> "receipt") @@ (r2 :> "receipt") @@ (t1 :> "transfer") @@ (t2 :> "transfer")
          @@ (b1 :> "return") @@ (s1 :> "sale") @@ (a1 :> "adjustment")
Lines0 == (r1 :> <<Good(soap, wh, 2), Broken(soap, wh, 1), Good(rice, wh, 1)>>)
          @@ (r2 :> <<Good(rice, wh, 1)>>)
          @@ (t1 :> <<Good(rice, wh, -2), Good(rice, shop, 2)>>)
          @@ (t2 :> <<Good(rice, wh, -1), Good(rice, shop, 1)>>)
          @@ (b1 :> <<Good(rice, wh, 1), Good(rice, shop, 1)>>)
          @@ (s1 :> <<Good(rice, wh, -1)>>)
          @@ (a1 :> <<Good(rice, wh, 1)>>)
OnBooks == [p \in Skus \X Sites |-> IF p = <<rice, wh>> THEN 3 ELSE 0]
OnShelf == [p \in Skus \X Sites |-> IF p = <<rice, wh>> THEN 2 ELSE 0]
AtWarehouse == [c \in Counts |-> wh]
RiceOnly == [c \in Counts |-> {rice}]
RoomOf == (near :> 3) @@ (far :> 3)
Nearness == (near :> 1) @@ (far :> 2)
UnitSize == [s \in Goods |-> 1]
Putaways == (k1 :> [sku |-> rice, qty |-> 2]) @@ (k2 :> [sku |-> rice, qty |-> 1])
Moves == (t1 :> [sku |-> rice, qty |-> 2]) @@ (t2 :> [sku |-> rice, qty |-> 1])
OnShelves == [b \in Bins |-> [s \in Goods |-> IF s = rice /\ b = near THEN 2
                                           ELSE IF s = rice THEN 1 ELSE 0]]
FromNote == (k1 :> r2) @@ (k2 :> r2)
(* One document of each kind, the handler failing; a count beside a sale by *)
(* two, and by one with a restart; a count beside an adjustment, beside a   *)
(* receipt; a transfer by two, or by one with failures on both sides; two   *)
(* transfers; two putaways.                                                 *)
P(what, late, who, f, g) ==
    [what |-> what, late |-> late, who |-> who, faults |-> f, failures |-> g]
Few == {P({r1}, {}, {}, 2, 0), P({b1}, {}, {}, 2, 0), P({s1}, {}, {}, 2, 0),
        P({c1, s1}, {}, {ann, bob}, 0, 0), P({c1, s1}, {}, {ann}, 1, 0),
        P({c1, a1}, {}, {ann, bob}, 0, 0), P({c1, r1}, {}, {ann}, 0, 0),
        P({t1}, {}, {lou, max}, 1, 0), P({t1}, {}, {lou, max}, 0, 1),
        P({t1}, {}, {lou}, 1, 1),
        P({t1, t2}, {t1, t2}, {lou, max}, 0, 1), P({r2}, {r2}, {crew, lou}, 0, 1)}
Alike == Permutations(Managers) \cup Permutations({lou, max})
=============================================================================
