--------------------------- MODULE StockMovements ---------------------------
(* How the stock level of a product at a location moves (services/inventory *)
(* /src/stock): the handlers of GoodsReceived, StockTransferred,            *)
(* ItemReturned and ItemSold, and manual adjustments.  A                    *)
(* document is one receipt, transfer, return, sale or adjustment; its       *)
(* message may be in the queue several times, because Warehouse Operations  *)
(* publishes a transfer again or because the broker redelivers it.          *)
EXTENDS Integers, Sequences, SequencesExt, FiniteSets, FiniteSetsExt

CONSTANTS
    Skus, Sites,   \* products and locations
    Documents,     \* receipts, transfers, returns, sales and adjustments
    Counts,        \* stock counts, which also reference journal rows
    Kind,          \* Kind[d]: the event that announces document d
    LinesOf,       \* LinesOf[d]: its lines [place, delta, good]; a transfer has two
    Opening,       \* Opening[p]: what is on hand at place p before the documents
    Found,         \* Found[p]: what physically is there at that time
    Listed,        \* the SKUs with a product master record at the start
    Copies,        \* numbers of the messages that can announce one document
    Slots,         \* handlers of one message that can be alive together
    MaxFaults      \* bound on failing statements, lost channels and restarts

Places == Skus \X Sites
Kinds == {"receipt", "transfer", "return", "sale", "adjustment"}
References == Documents \cup Counts

ASSUME DocumentAssumption ==
    /\ IsFiniteSet(Sites) /\ IsFiniteSet(References) /\ IsFiniteSet(Copies) /\ IsFiniteSet(Slots)
    /\ Kind \in [Documents -> Kinds]
    /\ LinesOf \in [Documents -> Seq([place : Places, delta : Int, good : BOOLEAN])]
    /\ \A d \in Documents : \A i \in DOMAIN LinesOf[d] :
          /\ LinesOf[d][i].delta # 0
          /\ Kind[d] = "receipt" /\ LinesOf[d][i].good => LinesOf[d][i].delta > 0
    /\ \A d \in Documents : \A i, j \in DOMAIN LinesOf[d] :
          LinesOf[d][i].place = LinesOf[d][j].place
          /\ LinesOf[d][i].good = LinesOf[d][j].good => i = j
    /\ Opening \in [Places -> Nat] /\ Found \in [Places -> Nat]
    /\ Listed \subseteq Skus
    /\ Documents \cap Counts = {} /\ Copies \subseteq Nat /\ Slots \subseteq Nat
    /\ MaxFaults \in Nat

Messages == Documents \X Copies

VARIABLES
    onHand,        \* StockLevel.onHand
    listed,        \* SKUs that have a Product row
    journal,       \* journal[d][p]: sum of quantityDelta of the rows of d at p
    shelf,         \* external: what physically is at a place
    mail,          \* mail[m]: where message m is
    job,           \* job[m][i]: handler i of message m
    consumed,      \* lines of sales whose Reservation is CONSUMED
    adjusting,     \* adjustments committed whose StockAdjusted is not yet sent
    told,          \* told[r]: what StockAdjusted said of adjustment or count r
    overlapped,    \* history: documents two handlers worked on at the same time
    lost,          \* history: lost[m][i]: what handlers in slot i of m moved and broke
                   \* off before they wrote the row
    torn,          \* history: lines of sales broken off between mark and row
    faults         \* history: faults so far

saleVars == <<consumed, lost, torn>>
moveVars == <<onHand, listed, journal, shelf, mail, job, adjusting, told, overlapped, faults,
              saleVars>>

MailStates == {"none", "queued", "taken", "again", "retaken", "acked", "dropped"}
Steps == {"off", "next", "create", "mark", "level", "apply", "row"}
Off == [step |-> "off", at |-> 1, live |-> FALSE]
NoDelta == [p \in Places |-> 0]

MoveTypeOK ==
    /\ onHand \in [Places -> Int]
    /\ listed \in SUBSET Skus
    /\ journal \in [References -> [Places -> Int]]
    /\ shelf \in [Places -> Int]
    /\ mail \in [Messages -> MailStates]
    /\ job \in [Messages -> [Slots -> [step : Steps, at : Nat \ {0}, live : BOOLEAN]]]
    /\ adjusting \in SUBSET Documents
    /\ told \in [References -> [Places -> Int]]
    /\ overlapped \in SUBSET Documents
    /\ faults \in 0..MaxFaults

SaleTypeOK ==
    /\ consumed \in SUBSET (Documents \X Nat) /\ torn \in SUBSET consumed
    /\ lost \in [Messages -> [Slots -> [Places -> Int]]]

MoveInit ==
    /\ onHand = Opening /\ shelf = Found
    /\ listed = Listed
    /\ journal = [r \in References |-> NoDelta] /\ told = journal
    /\ mail = [m \in Messages |-> "none"]
    /\ job = [m \in Messages |-> [i \in Slots |-> Off]]
    /\ adjusting = {} /\ overlapped = {} /\ faults = 0
    /\ consumed = {} /\ torn = {}
    /\ lost = [m \in Messages |-> [i \in Slots |-> NoDelta]]

-----------------------------------------------------------------------------
(* What a document says of a place, and the lines a handler works on, one   *)
(* after the other: applyGoodsReceived goes on past a line that is damaged  *)
(* or empty; the lines of a transfer are one unit of work.                  *)
Delta(d, p) ==
    LET good == {i \in DOMAIN LinesOf[d] : LinesOf[d][i].place = p /\ LinesOf[d][i].good}
    IN  IF good = {} THEN 0 ELSE LinesOf[d][CHOOSE i \in good : TRUE].delta
Starts(d) == {i \in DOMAIN LinesOf[d] :
    IF Kind[d] = "transfer" THEN i = 1 ELSE LinesOf[d][i].good}
UnitAt(d, i) == IF Kind[d] = "transfer" THEN LinesOf[d] ELSE <<LinesOf[d][i]>>
After(d, i) == Min({j \in Starts(d) : j > i} \cup {Len(LinesOf[d]) + 1})
PlacesOf(unit) == {unit[i].place : i \in DOMAIN unit}
Moved(level, d, unit) == [p \in Places |->
    IF p \in PlacesOf(unit) THEN level[p] + Delta(d, p) ELSE level[p]]

(* The goods physically move, and the service that saw it publishes: the    *)
(* dock's finalize, the last pick of a transfer, a return, a sale.          *)
Happens(d) ==
    /\ Kind[d] # "adjustment"
    /\ \A c \in Copies : mail[<<d, c>>] = "none"
    /\ Kind[d] = "sale" => PlacesOf(LinesOf[d]) \subseteq {p \in Places : p[1] \in listed}
    /\ mail' = [mail EXCEPT ![<<d, Min(Copies)>>] = "queued"]
    /\ shelf' = [p \in Places |-> shelf[p] + Delta(d, p)]
    /\ UNCHANGED <<onHand, listed, journal, job, adjusting, told, overlapped, faults,
                   saleVars>>

(* The same document is announced once more (completeTransferIfAllPicked    *)
(* publishes before it marks the transfer COMPLETED, and again on a retry). *)
AnnouncedAgain(d, k) ==
    /\ Kind[d] = "transfer" /\ mail[<<d, k>>] = "none"
    /\ \E c \in Copies : mail[<<d, c>>] # "none"
    /\ mail' = [mail EXCEPT ![<<d, k>>] = "queued"]
    /\ UNCHANGED <<onHand, listed, journal, shelf, job, adjusting, told, overlapped, faults,
                   saleVars>>

Busy(d) == \E k \in Copies, i \in Slots : job[<<d, k>>][i].step # "off"

Deliver(m, i) ==
    /\ mail[m] \in {"queued", "again"} /\ job[m][i].step = "off"
    /\ \A j \in Slots : j < i => job[m][j].step # "off"
    /\ mail' = [mail EXCEPT ![m] = IF @ = "queued" THEN "taken" ELSE "retaken"]
    /\ job' = [job EXCEPT ![m][i] = [step |-> "next", at |-> After(m[1], 0), live |-> TRUE]]
    /\ overlapped' = IF Busy(m[1]) THEN overlapped \cup {m[1]} ELSE overlapped
    /\ UNCHANGED <<onHand, listed, journal, shelf, adjusting, told, faults, saleVars>>

-----------------------------------------------------------------------------
At(m, i, step) == job[m][i].step = step /\ job[m][i].at <= Len(LinesOf[m[1]])
Unit(m, i) == UnitAt(m[1], job[m][i].at)
SkuOf(unit) == unit[1].place[1]
Goto(m, i, step) == [job EXCEPT ![m][i].step = step]
NextLine(m, i) == [job EXCEPT ![m][i].step = "next", ![m][i].at = After(m[1], @)]

(* Receipts: find the product, create a stub for an unknown SKU, raise the  *)
(* level, write the row; four statements with no transaction around them.   *)
FindProduct(m, i) ==
    /\ At(m, i, "next") /\ Kind[m[1]] = "receipt"
    /\ job' = Goto(m, i, IF SkuOf(Unit(m, i)) \in listed THEN "level" ELSE "create")
    /\ UNCHANGED <<onHand, listed, journal, shelf, mail, adjusting, told, overlapped, faults,
                   saleVars>>

CreateStub(m, i) ==
    /\ At(m, i, "create") /\ SkuOf(Unit(m, i)) \notin listed
    /\ listed' = listed \cup {SkuOf(Unit(m, i))}
    /\ job' = Goto(m, i, "level")
    /\ UNCHANGED <<onHand, journal, shelf, mail, adjusting, told, overlapped, faults,
                   saleVars>>

RaiseLevel(m, i) ==
    /\ At(m, i, "level")
    /\ onHand' = Moved(onHand, m[1], Unit(m, i))
    /\ job' = Goto(m, i, "row")
    /\ UNCHANGED <<listed, journal, shelf, mail, adjusting, told, overlapped, faults,
                   saleVars>>

WriteRow(m, i) ==
    /\ At(m, i, "row")
    /\ journal' = [journal EXCEPT ![m[1]] = Moved(@, m[1], Unit(m, i))]
    /\ job' = NextLine(m, i)
    /\ UNCHANGED <<onHand, listed, shelf, mail, adjusting, told, overlapped, faults,
                   saleVars>>

(* Sales: a line whose reservation is CONSUMED already is skipped, another  *)
(* is marked; then level and row, again without a transaction.  (What a     *)
(* sale does to allocated is in InventoryStock.)                            *)
LineOf(m, i) == <<m[1], job[m][i].at>>

(* Mutant: the status of the reservation is not looked at.                  *)
FindAny(m, i) ==
    /\ At(m, i, "next") /\ Kind[m[1]] = "sale"
    /\ job' = Goto(m, i, "mark")
    /\ UNCHANGED <<onHand, listed, journal, shelf, mail, adjusting, told, overlapped, faults,
                   saleVars>>

FindReservation(m, i) ==
    /\ At(m, i, "next") /\ Kind[m[1]] = "sale"
    /\ job' = IF LineOf(m, i) \in consumed THEN NextLine(m, i) ELSE Goto(m, i, "mark")
    /\ UNCHANGED <<onHand, listed, journal, shelf, mail, adjusting, told, overlapped, faults,
                   saleVars>>

MarkConsumed(m, i) ==
    /\ At(m, i, "mark")
    /\ consumed' = consumed \cup {LineOf(m, i)}
    /\ job' = Goto(m, i, "level")
    /\ UNCHANGED <<onHand, listed, journal, shelf, mail, adjusting, told, overlapped, faults,
                   lost, torn>>

(* Transfers and returns: is the document known to the journal, does the    *)
(* product exist; then level and rows change in one transaction.            *)
Applied(d, unit) == \E p \in PlacesOf(unit) : journal[d][p] # 0

(* Mutant: the look is skipped when the message is the broker's second try. *)
LookAtFirst(m, i) ==
    /\ At(m, i, "next") /\ Kind[m[1]] \notin {"receipt", "sale"}
    /\ job' = IF \/ Applied(m[1], Unit(m, i)) /\ mail[m] # "retaken"
                 \/ SkuOf(Unit(m, i)) \notin listed
              THEN NextLine(m, i) ELSE Goto(m, i, "apply")
    /\ UNCHANGED <<onHand, listed, journal, shelf, mail, adjusting, told, overlapped, faults,
                   saleVars>>

Look(m, i) ==
    /\ At(m, i, "next") /\ Kind[m[1]] \notin {"receipt", "sale"}
    /\ job' = IF Applied(m[1], Unit(m, i)) \/ SkuOf(Unit(m, i)) \notin listed
              THEN NextLine(m, i) ELSE Goto(m, i, "apply")
    /\ UNCHANGED <<onHand, listed, journal, shelf, mail, adjusting, told, overlapped, faults,
                   saleVars>>

Apply(m, i) ==
    /\ At(m, i, "apply")
    /\ onHand' = Moved(onHand, m[1], Unit(m, i))
    /\ journal' = [journal EXCEPT ![m[1]] = Moved(@, m[1], Unit(m, i))]
    /\ job' = NextLine(m, i)
    /\ UNCHANGED <<listed, shelf, mail, adjusting, told, overlapped, faults,
                   saleVars>>

-----------------------------------------------------------------------------
(* The end of a handler, and what can go wrong with it.                     *)
Ack(m, i) ==
    /\ job[m][i].step = "next" /\ job[m][i].at > Len(LinesOf[m[1]])
    /\ mail' = IF job[m][i].live THEN [mail EXCEPT ![m] = "acked"] ELSE mail
    /\ job' = [job EXCEPT ![m][i] = Off]
    /\ UNCHANGED <<onHand, listed, journal, shelf, adjusting, told, overlapped, faults,
                   saleVars>>

(* What handler x has moved at p and not written down, and what breaking    *)
(* off leaves: the units it owed a row for are never written, and a sale    *)
(* behind its mark is skipped when it comes again.                          *)
OwesRow(x, p) == job[x[1]][x[2]].step = "row" /\ p \in PlacesOf(Unit(x[1], x[2]))
Unwritten(x, p) == lost[x[1]][x[2]][p] + IF OwesRow(x, p) THEN Delta(x[1][1], p) ELSE 0
LostBy(m, i) == [p \in Places |-> Unwritten(<<m, i>>, p)]
UnderWay(m, i, line) ==
    /\ Kind[m[1]] = "sale" /\ job[m][i].step \in {"level", "row"}
    /\ line = LineOf(m, i)

Refused(state) == IF state = "taken" THEN "again" ELSE "dropped"

(* A statement fails, always so when another handler made the stub first.   *)
Throws(m, i) ==
    /\ job[m][i].step # "off"
    /\ \/ /\ At(m, i, "create") /\ SkuOf(Unit(m, i)) \in listed /\ faults' = faults
       \/ /\ job[m][i].at <= Len(LinesOf[m[1]]) /\ faults < MaxFaults /\ faults' = faults + 1
    /\ mail' = IF job[m][i].live THEN [mail EXCEPT ![m] = Refused(@)] ELSE mail
    /\ job' = [job EXCEPT ![m][i] = Off]
    /\ lost' = [lost EXCEPT ![m][i] = LostBy(m, i)]
    /\ torn' = torn \cup {line \in consumed : UnderWay(m, i, line)}
    /\ UNCHANGED <<onHand, listed, journal, shelf, consumed, adjusting, told, overlapped>>

BackToQueue == [m \in Messages |->
    IF mail[m] \in {"taken", "retaken"} THEN "again" ELSE mail[m]]

ChannelLost ==
    /\ faults < MaxFaults /\ faults' = faults + 1
    /\ mail' = BackToQueue /\ mail' # mail
    /\ job' = [m \in Messages |-> [i \in Slots |-> [job[m][i] EXCEPT !.live = FALSE]]]
    /\ UNCHANGED <<onHand, listed, journal, shelf, adjusting, told, overlapped, saleVars>>

(* Inventory restarts: its handlers and unfinished requests are gone.       *)
Restart ==
    /\ faults < MaxFaults /\ faults' = faults + 1
    /\ mail' = BackToQueue
    /\ job' = [m \in Messages |-> [i \in Slots |-> Off]]
    /\ adjusting' = {}
    /\ lost' = [m \in Messages |-> [i \in Slots |-> LostBy(m, i)]]
    /\ torn' = torn \cup {line \in consumed : \E m \in Messages, i \in Slots : UnderWay(m, i, line)}
    /\ UNCHANGED <<onHand, listed, journal, shelf, consumed, told, overlapped>>

-----------------------------------------------------------------------------
(* adjust: level and row in one transaction, then StockAdjusted.            *)
Adjust(d) ==
    /\ Kind[d] = "adjustment" /\ journal[d] = NoDelta
    /\ PlacesOf(LinesOf[d]) \subseteq {p \in Places : p[1] \in listed}
    /\ onHand' = Moved(onHand, d, LinesOf[d])
    /\ journal' = [journal EXCEPT ![d] = Moved(@, d, LinesOf[d])]
    /\ adjusting' = adjusting \cup {d}
    /\ UNCHANGED <<listed, shelf, mail, job, told, overlapped, faults,
                   saleVars>>

TellAdjusted(d) ==
    /\ d \in adjusting
    /\ adjusting' = adjusting \ {d}
    /\ told' = [told EXCEPT ![d] = Moved(@, d, LinesOf[d])]
    /\ UNCHANGED <<onHand, listed, journal, shelf, mail, job, overlapped, faults,
                   saleVars>>

Handle(m, i) ==
    \/ FindProduct(m, i) \/ CreateStub(m, i) \/ RaiseLevel(m, i) \/ WriteRow(m, i)
    \/ FindReservation(m, i) \/ MarkConsumed(m, i)
    \/ Look(m, i) \/ Apply(m, i) \/ Ack(m, i)

-----------------------------------------------------------------------------
(* What a message announces is applied once.  A transfer, return or sale    *)
(* whose handlers never overlapped moves each of its places at most once,   *)
(* whether it wrote the row or broke off before it, however often it is     *)
(* announced, redelivered or interrupted.  Once a message is acknowledged,  *)
(* each good line of a receipt, each line of a transfer or return whose SKU *)
(* has a product record, and each line of a sale is in the journal, but for *)
(* a line of a sale that broke off behind its mark (stock.service.ts:430)   *)
(* or that an overlapping handler is still at.                              *)
MovedOnce ==
    /\ \A d \in Documents \ overlapped : Kind[d] # "receipt" => \A p \in Places :
          LET holds == {x \in Messages \X Slots : x[1][1] = d /\ Unwritten(x, p) # 0}
          IN  /\ journal[d][p] \in {0, Delta(d, p)}
              /\ \A x \in holds : /\ Unwritten(x, p) = Delta(d, p) /\ journal[d][p] = 0
                                  /\ holds = {x}
    /\ \A m \in Messages : mail[m] = "acked" => \A j \in Starts(m[1]) :
          LET u == UnitAt(m[1], j)
          IN  \/ Applied(m[1], u)
              \/ Kind[m[1]] \in {"transfer", "return"} /\ SkuOf(u) \notin Listed
              \/ /\ Kind[m[1]] = "sale"
                 /\ \/ <<m[1], j>> \in torn
                    \/ \E k \in Copies, i \in Slots : UnderWay(<<m[1], k>>, i, <<m[1], j>>)
=============================================================================
