------------------------------ MODULE Checkout ------------------------------
(* A POS checkout, end to end: Retail Sales reserves every line of the cart *)
(* with Inventory over gRPC, checks the payments, saves the transaction and *)
(* publishes ItemSold (services/retail-sales/src/checkout); the message     *)
(* waits in the durable queue inventory.item-sold (libs/shared/src/         *)
(* event-bus) until Inventory's consumer has taken the stock                *)
(* (InventoryStock.tla).  Checkouts of several tills interleave with each   *)
(* other and with the consumer, and calls, statements, processes and        *)
(* channels may fail.                                                       *)
EXTENDS InventoryStock

CONSTANTS
    FaultKinds,    \* the faults that may happen, a subset of AllFaults
    MaxFaults      \* bound: how many of them in one behaviour

AllFaults == {"grpc", "db", "retail", "inventory", "channel"}

ASSUME FaultAssumption == FaultKinds \subseteq AllFaults /\ MaxFaults \in Nat

VARIABLES
    pc,            \* pc[c]: where checkout c is
    at,            \* at[c]: the cart line being reserved; 1 .. at[c]-1 are held
    sales,         \* checkouts whose PosTransaction is saved
    msg,           \* msg[c]: the ItemSold message of c in the queue
    faults         \* faults so far

retailVars == <<pc, at, sales>>
vars == <<stockVars, retailVars, msg, faults>>

Places == {"idle", "line", "waiting", "releasing", "rejected",
           "paying", "saving", "publishing", "sold", "crashed"}
MsgStates == {"none", "queued", "inflight", "acked", "dropped"}

TypeOK ==
    /\ StockTypeOK
    /\ pc \in [Checkouts -> Places]
    /\ at \in [Checkouts -> Nat \ {0}]
    /\ sales \subseteq Checkouts
    /\ msg \in [Checkouts -> [state : MsgStates, redelivered : BOOLEAN, tries : Nat]]
    /\ faults \in Nat

Init ==
    /\ StockInit
    /\ pc = [c \in Checkouts |-> "idle"]
    /\ at = [c \in Checkouts |-> 1]
    /\ sales = {}
    /\ msg = [c \in Checkouts |-> [state |-> "none", redelivered |-> FALSE, tries |-> 0]]
    /\ faults = 0

Fault(kind) ==
    /\ kind \in FaultKinds
    /\ faults < MaxFaults
    /\ faults' = faults + 1

Go(c, place) == pc' = [pc EXCEPT ![c] = place]
Current(c) == <<c, at[c]>>
(* Mutant: the last line held is forgotten.                                 *)
HeldShort(c) == {r \in LinesOf(c) : r[2] + 1 < at[c]}

Held(c) == {r \in LinesOf(c) : r[2] < at[c]}

-----------------------------------------------------------------------------
(* Retail Sales: one checkout request.                                      *)

Start(c) ==
    /\ pc[c] = "idle"
    /\ Go(c, "line")
    /\ UNCHANGED <<stockVars, at, sales, msg, faults>>

(* The price lookup succeeded; the gRPC request is under way.               *)
CallReserve(c) ==
    /\ pc[c] = "line"
    /\ Go(c, "waiting")
    /\ rsv' = [rsv EXCEPT ![Current(c)] = "called"]
    /\ UNCHANGED <<onHand, allocated, resv, journal, low, seen, rel, con,
                   at, sales, msg, faults>>

(* Mutant: a refusal is taken for a grant.                                  *)
AcceptAny(c) ==
    /\ pc[c] = "waiting"
    /\ rsv[Current(c)] \in {"granted", "refused"}
    /\ Go(c, IF at[c] < Len(Cart[c]) THEN "line" ELSE "paying")
    /\ at' = [at EXCEPT ![c] = @ + 1]
    /\ UNCHANGED <<stockVars, sales, msg, faults>>

(* Mutant: on to the payments one line early.                               *)
AcceptShort(c) ==
    /\ pc[c] = "waiting"
    /\ rsv[Current(c)] = "granted"
    /\ Go(c, IF at[c] + 1 < Len(Cart[c]) THEN "line" ELSE "paying")
    /\ at' = [at EXCEPT ![c] = @ + 1]
    /\ UNCHANGED <<stockVars, sales, msg, faults>>

Accept(c) ==
    /\ pc[c] = "waiting"
    /\ rsv[Current(c)] = "granted"
    /\ Go(c, IF at[c] < Len(Cart[c]) THEN "line" ELSE "paying")
    /\ at' = [at EXCEPT ![c] = @ + 1]
    /\ UNCHANGED <<stockVars, sales, msg, faults>>

(* Release every line held so far, all calls at once.                       *)
Abandon(c) ==
    /\ Go(c, "releasing")
    /\ rel' = [r \in Lines |-> IF r \in Held(c) THEN "called" ELSE rel[r]]
    /\ UNCHANGED <<onHand, allocated, resv, journal, low, rsv, seen, con,
                   at, sales, msg>>

(* The product is unknown to Retail Sales.                                  *)
PriceFails(c) == pc[c] = "line" /\ Abandon(c) /\ UNCHANGED faults

Decline(c) ==
    /\ pc[c] = "waiting"
    /\ rsv[Current(c)] \in {"refused", "failed"}
    /\ Abandon(c)
    /\ UNCHANGED faults

(* The call fails at the client; the handler knows nothing of it.           *)
ReplyLost(c) == pc[c] = "waiting" /\ Fault("grpc") /\ Abandon(c)

PaymentsMatch(c) ==
    /\ pc[c] = "paying"
    /\ Go(c, "saving")
    /\ UNCHANGED <<stockVars, at, sales, msg, faults>>

PaymentsDiffer(c) == pc[c] = "paying" /\ Abandon(c) /\ UNCHANGED faults

(* Mutant: waits for a release of every line, held or not.                  *)
RejectAll(c) ==
    /\ pc[c] = "releasing"
    /\ \A r \in LinesOf(c) : rel[r] = "done"
    /\ Go(c, "rejected")
    /\ UNCHANGED <<stockVars, at, sales, msg, faults>>

(* Promise.allSettled: failed releases count as settled.                    *)
Reject(c) ==
    /\ pc[c] = "releasing"
    /\ \A r \in LinesOf(c) : ~ReleaseRunning(r)
    /\ Go(c, "rejected")
    /\ UNCHANGED <<stockVars, at, sales, msg, faults>>

Save(c) ==
    /\ pc[c] = "saving"
    /\ Go(c, "publishing")
    /\ sales' = sales \cup {c}
    /\ UNCHANGED <<stockVars, at, msg, faults>>

Publish(c) ==
    /\ pc[c] = "publishing"
    /\ Go(c, "sold")
    /\ msg' = [msg EXCEPT ![c].state = "queued"]
    /\ UNCHANGED <<stockVars, at, sales, faults>>

(* Mutant: an error after the save releases the lines as well.              *)
FailsReleasing(c) ==
    /\ pc[c] \notin {"idle", "rejected", "sold", "crashed"}
    /\ Fault("retail")
    /\ Abandon(c)

(* The process dies, or a statement outside the try throws: either way the  *)
(* request ends where it is and nothing is undone.                          *)
RetailFails(c) ==
    /\ pc[c] \notin {"idle", "rejected", "sold", "crashed"}
    /\ Fault("retail")
    /\ Go(c, "crashed")
    /\ UNCHANGED <<stockVars, at, sales, msg>>

-----------------------------------------------------------------------------
(* Inventory's handlers, and their failures.                                *)

ReserveStep(r) == Reserve(r) /\ UNCHANGED <<retailVars, msg, faults>>
ReleaseStep(r) == Release(r) /\ UNCHANGED <<retailVars, msg, faults>>
ConsumeStep(c, d) == Consume(c, d) /\ UNCHANGED <<retailVars, msg, faults>>

ReserveFails(r) ==
    /\ ReserveRunning(r)
    /\ Fault("db")
    /\ rsv' = [rsv EXCEPT ![r] = "failed"]
    /\ UNCHANGED <<onHand, allocated, resv, journal, low, seen, rel, con, retailVars, msg>>

ReleaseFails(r) ==
    /\ ReleaseRunning(r)
    /\ Fault("db")
    /\ rel' = [rel EXCEPT ![r] = "failed"]
    /\ UNCHANGED <<onHand, allocated, resv, journal, low, rsv, seen, con, retailVars, msg>>

-----------------------------------------------------------------------------
(* The queue inventory.item-sold.                                           *)

Requeue(m) == [m EXCEPT !.state = "queued", !.redelivered = TRUE]

(* Bound: a message is delivered at most once for each number of Deliveries. *)
Deliver(c) ==
    /\ msg[c].state = "queued"
    /\ msg[c].tries + 1 \in Deliveries
    /\ msg' = [msg EXCEPT ![c].state = "inflight", ![c].tries = @ + 1]
    /\ con' = [con EXCEPT ![c][msg[c].tries + 1] = [at |-> 1, step |-> "next", counted |-> {}]]
    /\ UNCHANGED <<onHand, allocated, resv, journal, low, rsv, seen, rel, retailVars, faults>>

(* Only the delivery the broker is waiting for can settle the message.      *)
Awaited(c, d) == msg[c].state = "inflight" /\ msg[c].tries = d

Ack(c, d) ==
    /\ Awaited(c, d)
    /\ con[c][d].step = "finished"
    /\ msg' = [msg EXCEPT ![c].state = "acked"]
    /\ UNCHANGED <<stockVars, retailVars, faults>>

(* The handler throws: requeued the first time, dropped the second.         *)
Nack(c, d) ==
    /\ ConsumeRunning(c, d)
    /\ Fault("db")
    /\ GoTo(c, d, BrokenOff(con[c][d].step))
    /\ msg' = [msg EXCEPT ![c] =
                 IF ~Awaited(c, d) THEN @
                 ELSE IF @.redelivered THEN [@ EXCEPT !.state = "dropped"]
                 ELSE Requeue(@)]
    /\ UNCHANGED <<onHand, allocated, resv, journal, low, rsv, seen, rel, retailVars>>

RequeueUnacked ==
    msg' = [c \in Checkouts |->
              IF msg[c].state = "inflight" THEN Requeue(msg[c]) ELSE msg[c]]

(* The channel closes: unacknowledged messages go back to the queue while   *)
(* their handlers keep running.                                             *)
ChannelLost ==
    /\ \E c \in Checkouts : msg[c].state = "inflight"
    /\ Fault("channel")
    /\ RequeueUnacked
    /\ UNCHANGED <<stockVars, retailVars>>

(* Inventory restarts: its handlers stop between two statements.            *)
InventoryCrash ==
    /\ ~StockQuiet
    /\ Fault("inventory")
    /\ rsv' = [r \in Lines |-> IF ReserveRunning(r) THEN "failed" ELSE rsv[r]]
    /\ rel' = [r \in Lines |-> IF ReleaseRunning(r) THEN "failed" ELSE rel[r]]
    /\ con' = [c \in Checkouts |-> [d \in Deliveries |->
                 IF ConsumeRunning(c, d)
                   THEN [at |-> con[c][d].at, step |-> BrokenOff(con[c][d].step), counted |-> {}]
                   ELSE con[c][d]]]
    /\ RequeueUnacked
    /\ UNCHANGED <<onHand, allocated, resv, journal, low, seen, retailVars>>

-----------------------------------------------------------------------------
Retail(c) ==
    \/ CallReserve(c)
    \/ Accept(c)
    \/ PriceFails(c)
    \/ Decline(c)
    \/ PaymentsMatch(c)
    \/ PaymentsDiffer(c)
    \/ Reject(c)
    \/ Save(c)
    \/ Publish(c)

Failure ==
    \/ \E c \in Checkouts : ReplyLost(c) \/ RetailFails(c)
    \/ \E r \in Lines : ReserveFails(r) \/ ReleaseFails(r)
    \/ \E c \in Checkouts, d \in Deliveries : Nack(c, d)
    \/ ChannelLost
    \/ InventoryCrash

Next ==
    \/ \E c \in Checkouts : Start(c) \/ Retail(c) \/ Deliver(c)
    \/ \E r \in Lines : ReserveStep(r) \/ ReleaseStep(r)
    \/ \E c \in Checkouts, d \in Deliveries : ConsumeStep(c, d) \/ Ack(c, d)
    \/ Failure

Spec == Init /\ [][Next]_vars

(* Every request, handler and queue makes progress; customers and faults    *)
(* need not happen.                                                         *)
Fairness ==
    /\ \A c \in Checkouts : WF_vars(Retail(c)) /\ WF_vars(Deliver(c))
    /\ \A r \in Lines : WF_vars(ReserveStep(r)) /\ WF_vars(ReleaseStep(r))
    /\ \A c \in Checkouts, d \in Deliveries :
          WF_vars(ConsumeStep(c, d)) /\ WF_vars(Ack(c, d))

FairSpec == Spec /\ Fairness

-----------------------------------------------------------------------------
(* Properties.                                                              *)

(* Stock behind a saved sale is never given back: whatever fails, the       *)
(* reservation of each line of a saved transaction is ACTIVE or CONSUMED,   *)
(* so ItemSold never names a missing or released one.                       *)
SoldLinesStayHeld ==
    \A r \in Lines : r[1] \in sales => resv[r] \in {"ACTIVE", "CONSUMED"}

(* A checkout that was turned down keeps no stock                           *)
(* (checkout.service.ts:33-35, "so a partial cart never holds stock         *)
(* hostage").                                                               *)
RejectedHoldsNothing ==
    \A r \in Lines : pc[r[1]] = "rejected" => resv[r] \in {"NONE", "RELEASED"}

(* However the handlers of several tills and of the consumer interleaved,   *)
(* once none is between two statements the level agrees with the rows:      *)
(* allocated is what the ACTIVE reservations hold and on-hand has lost what *)
(* the CONSUMED ones took.                                                  *)
LevelsMatchReservations ==
    StockQuiet => \A s \in Skus :
        /\ allocated[s] = Units(s, WithStatus("ACTIVE"))
        /\ onHand[s] = Stock0[s] - Units(s, WithStatus("CONSUMED"))

AckedLines == {r \in Lines : msg[r[1]].state = "acked"}
Settled == StockQuiet /\ \A c \in Checkouts : msg[c].state \in {"none", "acked"}

(* Whatever failed and was delivered again on the way, once every message   *)
(* is acknowledged on-hand has lost each line sold exactly once, but for    *)
(* the lines a consumer left torn: behind the mark a redelivery skips a     *)
(* line (stock.service.ts:423), and nothing else is ever lost or doubled.   *)
AckedSalesLeftStock ==
    Settled => \A s \in Skus : onHand[s] = Stock0[s] - Units(s, AckedLines \ TornLines)

(* A sale is taken from the level at most once, also when its message is    *)
(* delivered again after a failed or crashed first attempt.                 *)
SoldOnce ==
    /\ \A x, y \in journal :
          x.type = "SALE" /\ y.type = "SALE" /\ x.line = y.line => x = y
    /\ \A s \in Skus : onHand[s] >= Stock0[s] - Units(s, WithStatus("CONSUMED"))

(* Two tills are never promised the same unit (inventory.proto: "Atomically *)
(* checks availability and reserves stock").                                *)
NeverOverAllocated == \A s \in Skus : allocated[s] <= onHand[s]

(* Once sales of a SKU have settled at or below its reorder threshold, its  *)
(* StockLow has been published, whichever consumer came last (D-3).         *)
LowStockReported ==
    \A s \in Skus :
        (/\ StockQuiet
         /\ SalesOf(s) # {}
         /\ Units(s, WithStatus("ACTIVE")) = 0
         /\ onHand[s] - allocated[s] <= ReorderThreshold(SalesOf(s))) => s \in low

(* Every checkout that starts is answered, and a saved sale eventually      *)
(* takes its stock out of Inventory with its message acknowledged.          *)
CheckoutEnds ==
    \A c \in Checkouts : pc[c] = "line" ~> pc[c] \in {"rejected", "sold"}
SaleReachesStock ==
    \A c \in Checkouts :
        c \in sales ~> /\ msg[c].state = "acked"
                       /\ \A r \in LinesOf(c) : resv[r] = "CONSUMED"

Book == INSTANCE ReservationBook
          WITH Sales <- Checkouts, Entries <- [c \in Checkouts |-> LinesOf(c)],
               status <- resv, committed <- sales

(* The interleaved, failing system behaves as the atomic reservation book.  *)
BookSpec == Book!BookSpec
=============================================================================
