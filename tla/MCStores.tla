------------------------------ MODULE MCStores ------------------------------
(* Small instances of Stores: two sales, one with a line of three units     *)
(* for 20 cents; four returns, one of which lists a line twice; two         *)
(* managers and a clerk; two owners and a newcomer.                         *)
EXTENDS Stores, TLC

CONSTANTS t1, t2, l1, l2, l3, r1, r2, r3, r4, e1, e2, e3, e4, e5, e6,
          cara, cleo, mia, max, olga, otto, store

LineOf == (l1 :> t1) @@ (l2 :> t1) @@ (l3 :> t2)
Bought == (l1 :> 3) @@ (l2 :> 1) @@ (l3 :> 1)
Cents == (l1 :> 20) @@ (l2 :> 5) @@ (l3 :> 7)
Till == (t1 :> cara) @@ (t2 :> cleo)
Request == (e1 :> r1) @@ (e2 :> r2) @@ (e3 :> r3) @@ (e4 :> r3) @@ (e5 :> r4) @@ (e6 :> r4)
Named == (e1 :> l1) @@ (e2 :> l1) @@ (e3 :> l1) @@ (e4 :> l2) @@ (e5 :> l1) @@ (e6 :> l1)
Want == (e1 :> 1) @@ (e2 :> 2) @@ (e3 :> 1) @@ (e4 :> 1) @@ (e5 :> 2) @@ (e6 :> 2)
First == (olga :> "OWNER") @@ (otto :> "OWNER") @@ (mia :> "none")

(* Till, ledger and close on a day; people at work in the office; owners    *)
(* who close the store meanwhile.                                           *)
D(s, r, days, users, counts, m) ==
    [sales |-> s, returns |-> r, days |-> days, users |-> users, counts |-> counts, mishaps |-> m,
     people |-> {}, acts |-> {}, admin |-> {}, wrong |-> FALSE, tries |-> 1,
     versions |-> 0, tokens |-> 2]
A(people, acts, admins, tries, versions, tokens) ==
    [sales |-> {}, returns |-> {}, days |-> 1, users |-> {}, counts |-> 0, mishaps |-> 0,
     people |-> people, acts |-> acts, admin |-> admins, wrong |-> tries > 1, tries |-> tries,
     versions |-> versions, tokens |-> tokens]
Settling(owners, day) == [day EXCEPT !.people = owners, !.acts = owners, !.admin = {"close"}]

Few == {D({t1}, {r1, r2, r3}, 1, {}, 0, 0), D({t1}, {r2, r3}, 1, {}, 0, 1), D({t1}, {r3, r4}, 1, {}, 0, 0),
        D({t1, t2}, {}, 2, {}, 0, 1), D({t2}, {}, 1, {}, 0, 2),
        D({}, {}, 1, {max, mia}, 1, 0), D({}, {}, 1, {max, cara}, 2, 0),
        D({t1}, {r2}, 1, {max}, 1, 0), D({t2}, {}, 1, {max}, 1, 1),
        Settling({olga}, D({}, {}, 1, {max}, 1, 0)), Settling({olga, otto}, D({t2}, {}, 1, {}, 0, 0)),
        A({olga, otto}, {olga, otto}, {"active"}, 1, 1, 2),
        A({olga, otto}, {olga, otto}, {"role"}, 1, 1, 2),
        A({olga, otto}, {olga}, {"active", "role", "reset"}, 1, 2, 3),
        A({olga, otto}, {olga, otto}, {"reset", "change"}, 1, 1, 3),
        A({olga, mia}, {olga, mia}, {"create", "change"}, 1, 1, 3), A({olga}, {olga}, {"change"}, 2, 2, 3)}
=============================================================================
