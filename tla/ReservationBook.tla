--------------------------- MODULE ReservationBook ---------------------------
(* What Retail Sales and Inventory promise each other about reservations,   *)
(* with every step atomic: a line of a checkout is opened at most once, a   *)
(* sale is committed only while each of its lines is held, a line of a      *)
(* committed sale can only be taken, and a line whose sale was never        *)
(* committed can only be dropped.  Checkout.tla implements this.            *)
CONSTANTS Sales,    \* checkouts
          Entries   \* Entries[s]: the reservations a checkout needs

VARIABLES status,   \* the state of each reservation
          committed \* the checkouts whose sale is on record

bookVars == <<status, committed>>

AllEntries == UNION {Entries[s] : s \in Sales}

BookInit ==
    /\ status = [e \in AllEntries |-> "NONE"]
    /\ committed = {}

Open(s, e) ==
    /\ status[e] = "NONE"
    /\ s \notin committed
    /\ status' = [status EXCEPT ![e] = "ACTIVE"]
    /\ UNCHANGED committed

Commit(s) ==
    /\ s \notin committed
    /\ \A e \in Entries[s] : status[e] = "ACTIVE"
    /\ committed' = committed \cup {s}
    /\ UNCHANGED status

Drop(s, e) ==
    /\ status[e] = "ACTIVE"
    /\ s \notin committed
    /\ status' = [status EXCEPT ![e] = "RELEASED"]
    /\ UNCHANGED committed

Take(s, e) ==
    /\ status[e] = "ACTIVE"
    /\ s \in committed
    /\ status' = [status EXCEPT ![e] = "CONSUMED"]
    /\ UNCHANGED committed

BookNext ==
    \E s \in Sales :
        \/ Commit(s)
        \/ \E e \in Entries[s] : Open(s, e) \/ Drop(s, e) \/ Take(s, e)

BookSpec == BookInit /\ [][BookNext]_bookVars
=============================================================================
