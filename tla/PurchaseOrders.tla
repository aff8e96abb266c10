---------------------------- MODULE PurchaseOrders ----------------------------
(* Procurement (services/procurement/src/purchase-orders): the life of a    *)
(* purchase order from draft to CLOSED.  A request reads the order, checks  *)
(* its status and writes it in a later statement, without a lock or a       *)
(* condition on what it read, so requests and the GoodsReceived handlers    *)
(* interleave between the two.                                              *)
(*                                                                          *)
(* An order and its lines are read in one step here; prices and the supplier *)
(* are frozen when the order is drafted and only their total matters.       *)
EXTENDS Naturals, FiniteSets

CONSTANTS
    Orders,        \* purchase orders
    Skus,          \* products
    Ordered,       \* Ordered[o][s]: quantity ordered, 0 if s is not on the order
    Big,           \* orders at or above PO_APPROVAL_THRESHOLD_KES
    Buyers,        \* concurrent requests to Procurement
    Role,          \* Role[b]: the role of the signed-in user of request b
    Notes,         \* goods received notes
    Docks,         \* concurrent requests to Receiving
    Slots          \* concurrent handlers of one queue

ASSUME OrderAssumption ==
    /\ IsFiniteSet(Notes)
    /\ Ordered \in [Orders -> [Skus -> Nat]]
    /\ \A o \in Orders : \E s \in Skus : Ordered[o][s] > 0
    /\ Big \subseteq Orders
    /\ \A b \in Buyers : Role[b] \in {"OWNER", "MANAGER", "BUYER"}

LinesOf(o) == {s \in Skus : Ordered[o][s] > 0}
Nothing == [s \in Skus |-> 0]
Full(o, quantities) == \A s \in LinesOf(o) : quantities[s] >= Ordered[o][s]

(* A GoodsReceived event is named by its note and the request that          *)
(* finalized it.                                                            *)
Receipts == Notes \X Docks

VARIABLES
    order,         \* PurchaseOrder: [status, received, approver]
    processed,     \* ProcessedGoodsReceipt: [note, by]
    desk,          \* desk[b]: what request b does to which order
    intake         \* intake[w]: the GoodsReceived handler in slot w

procurementVars == <<order, processed, desk, intake>>

OrderStatuses == {"NONE", "DRAFT", "PENDING_APPROVAL", "APPROVED", "SENT",
                  "PARTIALLY_RECEIVED", "CLOSED"}
OpenStatuses == {"APPROVED", "SENT", "PARTIALLY_RECEIVED"}
Quantities == [Skus -> Nat]

NoDesk == [op |-> "none", order |-> <<>>]
NoIntake == [step |-> "idle", receipt |-> <<>>, status |-> "NONE", received |-> Nothing]

ProcurementTypeOK ==
    /\ order \in [Orders -> [status : OrderStatuses, received : Quantities,
                             approver : {"none", "OWNER", "MANAGER"}]]
    /\ processed \subseteq [note : Notes, by : Docks]
    /\ desk \in [Buyers -> [op : {"none", "submit", "approve", "publish", "send"},
                            order : {<<>>} \cup {<<o>> : o \in Orders}]]
    /\ intake \in [Slots -> [step : {"idle", "read", "write", "done"},
                             receipt : {<<>>} \cup Receipts,
                             status : OrderStatuses, received : Quantities]]

ProcurementInit ==
    /\ order = [o \in Orders |-> [status |-> "NONE", received |-> Nothing, approver |-> "none"]]
    /\ processed = {}
    /\ desk = [b \in Buyers |-> NoDesk]
    /\ intake = [w \in Slots |-> NoIntake]

-----------------------------------------------------------------------------
(* Requests.                                                                *)

Draft(b, o) ==
    /\ desk[b] = NoDesk
    /\ order[o].status = "NONE"
    /\ order' = [order EXCEPT ![o].status = "DRAFT"]
    /\ UNCHANGED <<processed, desk, intake>>

(* The status an operation asks for, and the one it writes.                 *)
Needs(op) ==
    CASE op = "submit"  -> "DRAFT"
      [] op = "approve" -> "PENDING_APPROVAL"
      [] op = "send"    -> "APPROVED"
(* Mutant: a status the enum does not have.                                 *)
WritesOrdered(op) ==
    CASE op = "submit"  -> "PENDING_APPROVAL"
      [] op = "approve" -> "ORDERED"
      [] op = "send"    -> "SENT"

Writes(op) ==
    CASE op = "submit"  -> "PENDING_APPROVAL"
      [] op = "approve" -> "APPROVED"
      [] op = "send"    -> "SENT"

(* D-1: a manager or owner, and an owner from the threshold on.             *)
MayApprove(b, o) == Role[b] = "OWNER" \/ (Role[b] = "MANAGER" /\ o \notin Big)

CheckOrder(b, o, op) ==
    /\ desk[b] = NoDesk
    /\ order[o].status = Needs(op)
    /\ op = "approve" => MayApprove(b, o)
    /\ desk' = [desk EXCEPT ![b] = [op |-> op, order |-> <<o>>]]
    /\ UNCHANGED <<order, processed, intake>>

WriteOrder(b) ==
    /\ desk[b].op \in {"submit", "approve", "send"}
    /\ LET o == desk[b].order[1]
           op == desk[b].op IN
       /\ order' = [order EXCEPT ![o] =
                      [status |-> Writes(op), received |-> @.received,
                       approver |-> IF op = "approve" THEN Role[b] ELSE @.approver]]
       /\ desk' = [desk EXCEPT ![b] =
                     IF op = "approve" THEN [op |-> "publish", order |-> <<o>>] ELSE NoDesk]
    /\ UNCHANGED <<processed, intake>>

(* Mutant: an order counts as open in every status.                         *)
FoundAnyPo(o) == order[o].status # "NONE"

(* What Receiving is told when a truck arrives.                             *)
FoundOpenPo(o) == order[o].status \in OpenStatuses

-----------------------------------------------------------------------------
(* applyGoodsReceived: read the order, then write absolute totals.          *)

ApplyRead(w, o) ==
    /\ intake[w].step = "read"
    /\ intake' = [intake EXCEPT ![w] = [step |-> "write", receipt |-> @.receipt,
                                        status |-> order[o].status,
                                        received |-> order[o].received]]
    /\ UNCHANGED <<order, processed, desk>>

Finished(w) ==
    intake' = [intake EXCEPT ![w] = [NoIntake EXCEPT !.step = "done", !.receipt = intake[w].receipt]]

(* The unique constraint on the note number refuses a note counted before.  *)
Counted(n) == \E p \in processed : p.note = n

ApplySkip(w) ==
    /\ intake[w].step = "write"
    /\ Counted(intake[w].receipt[1])
    /\ Finished(w)
    /\ UNCHANGED <<order, processed, desk>>

(* Mutant: an order closes as soon as something of every line is there.     *)
StatusSome(o, was, after) ==
    IF was = "CLOSED" \/ (\A s \in LinesOf(o) : after[s] > 0)
    THEN "CLOSED" ELSE "PARTIALLY_RECEIVED"

StatusAfter(o, was, after) ==
    IF was = "CLOSED" \/ Full(o, after) THEN "CLOSED" ELSE "PARTIALLY_RECEIVED"

(* Mutant: a redelivered receipt is counted again.                          *)
ApplyAgain(w, o, arrived) ==
    LET after == [s \in Skus |-> intake[w].received[s] + (IF s \in LinesOf(o) THEN arrived[s] ELSE 0)] IN
    /\ intake[w].step = "write"
    /\ processed' = processed \cup {[note |-> intake[w].receipt[1], by |-> intake[w].receipt[2]]}
    /\ order' = [order EXCEPT ![o] = [status |-> StatusAfter(o, intake[w].status, after),
                                      received |-> after, approver |-> @.approver]]
    /\ Finished(w)
    /\ UNCHANGED desk

ApplyWrite(w, o, arrived) ==
    LET after == [s \in Skus |-> intake[w].received[s] + (IF s \in LinesOf(o) THEN arrived[s] ELSE 0)] IN
    /\ intake[w].step = "write"
    /\ ~Counted(intake[w].receipt[1])
    /\ processed' = processed \cup {[note |-> intake[w].receipt[1], by |-> intake[w].receipt[2]]}
    /\ order' = [order EXCEPT ![o] = [status |-> StatusAfter(o, intake[w].status, after),
                                      received |-> after, approver |-> @.approver]]
    /\ Finished(w)
    /\ UNCHANGED desk
=============================================================================
