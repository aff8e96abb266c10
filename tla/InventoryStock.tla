--------------------------- MODULE InventoryStock ---------------------------
(* Inventory's reservation handling (services/inventory/src/stock) for one  *)
(* location: the stock level of each SKU, the Reservation rows, and the     *)
(* three handlers that touch both.  A handler is a sequence of separate     *)
(* database statements (only `adjust`, transfers and returns use a database *)
(* transaction), so each statement is an action of its own and the handlers *)
(* of different requests interleave between any two of them.                *)
(*                                                                          *)
(* A reservation is named by the checkout line it is taken for: <<c, i>>.   *)
(* Retail Sales asks at most once for each line, so the name is unique.     *)
EXTENDS Integers, Sequences, FiniteSets, Functions

CONSTANTS
    Checkouts,     \* POS transactions (the transactionReference of a request)
    Skus,          \* products sold at the location
    Cart,          \* Cart[c]: the lines of checkout c, [sku, qty] records
    Stock0,        \* Stock0[s]: on-hand units when the tills open
    LeadDays,      \* REORDER_LEAD_TIME_DAYS
    WindowDays,    \* VELOCITY_WINDOW_DAYS
    Deliveries     \* numbers of the deliveries of one ItemSold message

ASSUME CartAssumption ==
    /\ IsFiniteSet(Checkouts)
    /\ Cart \in [Checkouts -> Seq([sku : Skus, qty : Nat \ {0}])]
    /\ \A c \in Checkouts : Cart[c] # <<>>

ASSUME NumbersAssumption ==
    /\ Stock0 \in [Skus -> Nat]
    /\ LeadDays \in Nat
    /\ WindowDays \in Nat \ {0}
    /\ Deliveries \subseteq Nat

Lines == UNION {{<<c, i>> : i \in DOMAIN Cart[c]} : c \in Checkouts}
Sku(r) == Cart[r[1]][r[2]].sku
Qty(r) == Cart[r[1]][r[2]].qty
LinesOf(c) == {r \in Lines : r[1] = c}

VARIABLES
    onHand,        \* StockLevel.onHand
    allocated,     \* StockLevel.allocated
    resv,          \* Reservation.status, "NONE" before the row exists
    journal,       \* InventoryTransaction rows: [type, line, by]
    low,           \* SKUs for which a StockLow event has been published
    rsv,           \* progress of the CheckAndReserveStock handler of a line
    seen,          \* the availability that handler read
    rel,           \* progress of the ReleaseReservation handler of a line
    con            \* con[c][d]: progress of delivery d of the ItemSold of c:
                   \* the line it is at, its step, the SALE rows it counted

stockVars == <<onHand, allocated, resv, journal, low, rsv, seen, rel, con>>

ReserveSteps == {"none", "called", "read", "created", "allocated",
                 "granted", "refused", "failed"}
ReleaseSteps == {"none", "called", "read", "marked", "freed", "done", "failed"}
ConsumeSteps == {"none", "next", "read", "marked", "leveled", "recorded",
                 "counted", "finished", "failed", "torn"}
Statuses == {"NONE", "ACTIVE", "RELEASED", "CONSUMED"}
Rows == [type : {"RESERVATION", "RELEASE", "SALE"}, line : Lines, by : Deliveries \cup {0}]
Progress == [at : Nat, step : ConsumeSteps, counted : SUBSET Rows]
Row(type, r, by) == [type |-> type, line |-> r, by |-> by]

StockTypeOK ==
    /\ onHand \in [Skus -> Int]
    /\ allocated \in [Skus -> Int]
    /\ resv \in [Lines -> Statuses]
    /\ journal \subseteq Rows
    /\ low \subseteq Skus
    /\ rsv \in [Lines -> ReserveSteps]
    /\ seen \in [Lines -> Int]
    /\ rel \in [Lines -> ReleaseSteps]
    /\ con \in [Checkouts -> [Deliveries -> Progress]]

StockInit ==
    /\ onHand = Stock0
    /\ allocated = [s \in Skus |-> 0]
    /\ resv = [r \in Lines |-> "NONE"]
    /\ journal = {}
    /\ low = {}
    /\ rsv = [r \in Lines |-> "none"]
    /\ seen = [r \in Lines |-> 0]
    /\ rel = [r \in Lines |-> "none"]
    /\ con = [c \in Checkouts |-> [d \in Deliveries |-> [at |-> 1, step |-> "none", counted |-> {}]]]

-----------------------------------------------------------------------------
(* reserve: read the level, then create the row, increment, record.         *)

(* The upsert that precedes the read creates an empty level if there is     *)
(* none, which reads the same as no level at all.                           *)
ReserveRead(r) ==
    /\ rsv[r] = "called"
    /\ rsv' = [rsv EXCEPT ![r] = "read"]
    /\ seen' = [seen EXCEPT ![r] = onHand[Sku(r)] - allocated[Sku(r)]]
    /\ UNCHANGED <<onHand, allocated, resv, journal, low, rel, con>>

ReserveRefuse(r) ==
    /\ rsv[r] = "read"
    /\ seen[r] < Qty(r)
    /\ rsv' = [rsv EXCEPT ![r] = "refused"]
    /\ UNCHANGED <<onHand, allocated, resv, journal, low, seen, rel, con>>

ReserveCreate(r) ==
    /\ rsv[r] = "read"
    /\ seen[r] >= Qty(r)
    /\ rsv' = [rsv EXCEPT ![r] = "created"]
    /\ resv' = [resv EXCEPT ![r] = "ACTIVE"]
    /\ UNCHANGED <<onHand, allocated, journal, low, seen, rel, con>>

(* Mutant: the level is written back from the stale read.                   *)
AllocateFromStale(r) ==
    /\ rsv[r] = "created"
    /\ rsv' = [rsv EXCEPT ![r] = "allocated"]
    /\ allocated' = [allocated EXCEPT ![Sku(r)] = onHand[Sku(r)] - seen[r] + Qty(r)]
    /\ UNCHANGED <<onHand, resv, journal, low, seen, rel, con>>

ReserveAllocate(r) ==
    /\ rsv[r] = "created"
    /\ rsv' = [rsv EXCEPT ![r] = "allocated"]
    /\ allocated' = [allocated EXCEPT ![Sku(r)] = @ + Qty(r)]
    /\ UNCHANGED <<onHand, resv, journal, low, seen, rel, con>>

ReserveRecord(r) ==
    /\ rsv[r] = "allocated"
    /\ rsv' = [rsv EXCEPT ![r] = "granted"]
    /\ journal' = journal \cup {Row("RESERVATION", r, 0)}
    /\ UNCHANGED <<onHand, allocated, resv, low, seen, rel, con>>

Reserve(r) ==
    \/ ReserveRead(r)
    \/ ReserveRefuse(r)
    \/ ReserveCreate(r)
    \/ ReserveAllocate(r)
    \/ ReserveRecord(r)

-----------------------------------------------------------------------------
(* releaseReservation: read the row, then mark it, decrement, record.       *)

ReleaseRead(r) ==
    /\ rel[r] = "called"
    /\ rel' = [rel EXCEPT ![r] = IF resv[r] = "ACTIVE" THEN "read" ELSE "done"]
    /\ UNCHANGED <<onHand, allocated, resv, journal, low, rsv, seen, con>>

(* Mutant: a status the enum does not have.                                 *)
MarkCancelled(r) ==
    /\ rel[r] = "read"
    /\ rel' = [rel EXCEPT ![r] = "marked"]
    /\ resv' = [resv EXCEPT ![r] = "CANCELLED"]
    /\ UNCHANGED <<onHand, allocated, journal, low, rsv, seen, con>>

ReleaseMark(r) ==
    /\ rel[r] = "read"
    /\ rel' = [rel EXCEPT ![r] = "marked"]
    /\ resv' = [resv EXCEPT ![r] = "RELEASED"]
    /\ UNCHANGED <<onHand, allocated, journal, low, rsv, seen, con>>

ReleaseFree(r) ==
    /\ rel[r] = "marked"
    /\ rel' = [rel EXCEPT ![r] = "freed"]
    /\ allocated' = [allocated EXCEPT ![Sku(r)] = @ - Qty(r)]
    /\ UNCHANGED <<onHand, resv, journal, low, rsv, seen, con>>

ReleaseRecord(r) ==
    /\ rel[r] = "freed"
    /\ rel' = [rel EXCEPT ![r] = "done"]
    /\ journal' = journal \cup {Row("RELEASE", r, 0)}
    /\ UNCHANGED <<onHand, allocated, resv, low, rsv, seen, con>>

Release(r) ==
    \/ ReleaseRead(r)
    \/ ReleaseMark(r)
    \/ ReleaseFree(r)
    \/ ReleaseRecord(r)

-----------------------------------------------------------------------------
(* The ItemSold consumer: consumeReservationForSale for each line in turn.  *)

LineAt(c, d) == <<c, con[c][d].at>>
GoTo(c, d, step) == con' = [con EXCEPT ![c][d].step = step]

(* Mutant: the loop ends one line early.                                    *)
NextLineShort(c, d) ==
    con' = [con EXCEPT ![c][d] =
              IF @.at + 1 < Len(Cart[c]) THEN [at |-> @.at + 1, step |-> "next", counted |-> {}]
                                         ELSE [at |-> @.at, step |-> "finished", counted |-> {}]]

(* On to the next line, or to the end of the loop.                          *)
NextLine(c, d) ==
    con' = [con EXCEPT ![c][d] =
              IF @.at < Len(Cart[c]) THEN [at |-> @.at + 1, step |-> "next", counted |-> {}]
                                     ELSE [at |-> @.at, step |-> "finished", counted |-> {}]]

(* Mutant: the status of the reservation is not looked at.                  *)
ConsumeUnchecked(c, d) ==
    /\ con[c][d].step = "next"
    /\ GoTo(c, d, "read")
    /\ UNCHANGED <<onHand, allocated, resv, journal, low, rsv, seen, rel>>

ConsumeRead(c, d) ==
    /\ con[c][d].step = "next"
    /\ IF resv[LineAt(c, d)] = "ACTIVE" THEN GoTo(c, d, "read") ELSE NextLine(c, d)
    /\ UNCHANGED <<onHand, allocated, resv, journal, low, rsv, seen, rel>>

ConsumeMark(c, d) ==
    /\ con[c][d].step = "read"
    /\ GoTo(c, d, "marked")
    /\ resv' = [resv EXCEPT ![LineAt(c, d)] = "CONSUMED"]
    /\ UNCHANGED <<onHand, allocated, journal, low, rsv, seen, rel>>

ConsumeLevel(c, d) ==
    LET r == LineAt(c, d) IN
    /\ con[c][d].step = "marked"
    /\ GoTo(c, d, "leveled")
    /\ onHand' = [onHand EXCEPT ![Sku(r)] = @ - Qty(r)]
    /\ allocated' = [allocated EXCEPT ![Sku(r)] = @ - Qty(r)]
    /\ UNCHANGED <<resv, journal, low, rsv, seen, rel>>

ConsumeRecord(c, d) ==
    /\ con[c][d].step = "leveled"
    /\ GoTo(c, d, "recorded")
    /\ journal' = journal \cup {Row("SALE", LineAt(c, d), d)}
    /\ UNCHANGED <<onHand, allocated, resv, low, rsv, seen, rel>>

(* recomputeVelocityAndMaybePublishStockLow: aggregate the SALE rows (every *)
(* row falls inside the window), then compare the level with the threshold. *)
SalesOf(s) == {row \in journal : row.type = "SALE" /\ Sku(row.line) = s}
UnitsSold(rows) == SumFunctionOnSet([row \in rows |-> Qty(row.line)], rows)

(* ceil(unitsSold / WindowDays * LeadDays)                                  *)
ReorderThreshold(rows) ==
    (UnitsSold(rows) * LeadDays + WindowDays - 1) \div WindowDays

ConsumeCount(c, d) ==
    /\ con[c][d].step = "recorded"
    /\ con' = [con EXCEPT ![c][d] = [at |-> @.at, step |-> "counted",
                                     counted |-> SalesOf(Sku(LineAt(c, d)))]]
    /\ UNCHANGED <<onHand, allocated, resv, journal, low, rsv, seen, rel>>

(* Mutant: reports strictly below the threshold only.                       *)
ReportBelow(c, d) ==
    LET s == Sku(LineAt(c, d)) IN
    /\ con[c][d].step = "counted"
    /\ NextLine(c, d)
    /\ low' = IF onHand[s] - allocated[s] < ReorderThreshold(con[c][d].counted) THEN low \cup {s} ELSE low
    /\ UNCHANGED <<onHand, allocated, resv, journal, rsv, seen, rel>>

ConsumeReport(c, d) ==
    LET s == Sku(LineAt(c, d)) IN
    /\ con[c][d].step = "counted"
    /\ NextLine(c, d)
    /\ low' = IF onHand[s] - allocated[s] <= ReorderThreshold(con[c][d].counted)
              THEN low \cup {s} ELSE low
    /\ UNCHANGED <<onHand, allocated, resv, journal, rsv, seen, rel>>

Consume(c, d) ==
    \/ ConsumeRead(c, d)
    \/ ConsumeMark(c, d)
    \/ ConsumeLevel(c, d)
    \/ ConsumeRecord(c, d)
    \/ ConsumeCount(c, d)
    \/ ConsumeReport(c, d)

(* A consumer that breaks off at a step: behind the mark and before the     *)
(* level it leaves the line torn, CONSUMED with its units still on hand.    *)
BrokenOff(step) == IF step = "marked" THEN "torn" ELSE "failed"
TornLines == {r \in Lines : \E d \in Deliveries :
                con[r[1]][d].step = "torn" /\ con[r[1]][d].at = r[2]}

-----------------------------------------------------------------------------
(* Which handlers are between two statements.                               *)

ReserveRunning(r) == rsv[r] \in {"called", "read", "created", "allocated"}
ReleaseRunning(r) == rel[r] \in {"called", "read", "marked", "freed"}
ConsumeRunning(c, d) == con[c][d].step \notin {"none", "finished", "failed", "torn"}

StockQuiet ==
    /\ \A r \in Lines : ~ReserveRunning(r) /\ ~ReleaseRunning(r)
    /\ \A c \in Checkouts, d \in Deliveries : ~ConsumeRunning(c, d)

(* Units of SKU s over the lines of a set.                                  *)
Units(s, S) == SumFunctionOnSet([r \in Lines |-> Qty(r)], {r \in S : Sku(r) = s})
WithStatus(st) == {r \in Lines : resv[r] = st}
=============================================================================
