------------------------------ MODULE StoreDay ------------------------------
(* A day in one store after the sale is rung up: returns at the tills       *)
(* (services/retail-sales/src/returns), the running ledger Sales Audit      *)
(* keeps of the sales, and the daily close with its discrepancy log         *)
(* (services/sales-audit/src).  Money is in cents, a day is a number.       *)
EXTENDS Integers, Sequences, FiniteSets, Functions

CONSTANTS
    Sales, Lines,
    SaleOf, Sold, LineTotal,   \* of a line: its transaction, quantity and total
    Cashier,                   \* Cashier[t]: who rang up sale t
    Returns,                   \* requests of the tills, and the entries they list:
    Entries,                   \* a line may be listed more than once
    RequestOf, Names, Wanted,  \* of an entry: its request, the line and quantity
    Managers, Clerks,          \* Clerks may count, managers may close too
    LastDay,
    Slots,                     \* handlers of one message that may run at a time
    MaxMishaps                 \* bound on failures, lost channels and restarts

LinesOf(t) == {l \in Lines : SaleOf[l] = t}
EntriesOf(r) == {e \in Entries : RequestOf[e] = r}

ASSUME StoreDayAssumption ==
    /\ IsFiniteSet(Sales) /\ IsFiniteSet(Lines)
    /\ IsFiniteSet(Returns) /\ IsFiniteSet(Entries)
    /\ SaleOf \in [Lines -> Sales] /\ Sold \in [Lines -> Nat \ {0}]
    /\ LineTotal \in [Lines -> Nat] /\ \A t \in Sales : LinesOf(t) # {}
    /\ Cashier \in [Sales -> Range(Cashier)]
    /\ Managers \cap Clerks = {} /\ LastDay \in Nat \ {0} /\ MaxMishaps \in Nat
    /\ RequestOf \in [Entries -> Returns] /\ Names \in [Entries -> Lines]
    /\ Wanted \in [Entries -> Nat \ {0}]
    /\ \A r \in Returns : /\ EntriesOf(r) # {}
                          /\ \A e, f \in EntriesOf(r) : SaleOf[Names[e]] = SaleOf[Names[f]]

VARIABLES
    today,     \* the UTC business date
    sale,      \* sale[t]: status, the days it was started and saved
    back,      \* back[l]: quantityReturned
    desk,      \* desk[r]: how far the request for return r is, what it read
    paid,      \* paid[r]: the day return r was written, 0 before
    cut,       \* requests that broke off where desk[r] says they were
    crossed,   \* history: lines returned over a quantity not looked at
    mail, job, \* the queue sales-audit.item-sold and its handlers
    opened,    \* days that have a StoreDayLedger row
    total,     \* total[d]: expectedTotal of the ledger
    byCashier, \* byCashier[d]: the cashiers' lines
    applied,   \* AppliedItemSoldEvent
    close,     \* close[d]: the DailyClose
    ask,       \* ask[u]: what the running request of user u remembers
    log,       \* log[d]: the DiscrepancyLogEntries
    said,      \* said[d]: the DayClosed events published
    raced,     \* history: days written over a close not looked at
    mishaps

tillVars == <<today, sale, back, desk, paid, cut, crossed>>
ledgerVars == <<mail, job, opened, total, byCashier, applied>>
closeVars == <<close, ask, log, said, raced>>
dayVars == <<tillVars, ledgerVars, closeVars, mishaps>>

Days == 1..LastDay
Cashiers == Range(Cashier)
Users == Managers \cup Clerks
Amount == [t \in Sales |-> SumFunctionOnSet(LineTotal, LinesOf(t))]
None == -100000
Idle == [op |-> "idle"]
NoClose == [status |-> "none", nth |-> 0]
Off == [step |-> "off", live |-> FALSE]

DayTypeOK ==
    /\ today \in Days /\ mishaps \in 0..MaxMishaps
    /\ sale \in [Sales -> [status : {"none", "ringing", "COMPLETED", "RETURNED"},
                           started : 0..LastDay, saved : 0..LastDay]]
    /\ back \in [Lines -> Nat] /\ crossed \in SUBSET Lines
    /\ \A r \in Returns : desk[r].step \in {"idle", "write", "look", "mark", "tell", "done"}
    /\ paid \in [Returns -> 0..LastDay] /\ cut \in SUBSET Returns
    /\ mail \in [Sales -> {"none", "queued", "taken", "again", "retaken", "acked", "dropped"}]
    /\ job \in [Sales -> [Slots -> [step : {"off", "check", "apply", "ack"}, live : BOOLEAN]]]
    /\ opened \in SUBSET Days /\ total \in [Days -> Nat]
    /\ byCashier \in [Days -> [Cashiers -> Nat]] /\ applied \in SUBSET Sales
    /\ \A d \in Days : close[d].status \in {"none", "OPEN", "BLOCKED_ON_EXPLANATION", "CLOSED"}
    /\ \A u \in Users : ask[u].op \in {"idle", "count", "explain", "close", "tell"}
    /\ raced \in SUBSET Days

DayInit ==
    /\ today = 1 /\ mishaps = 0
    /\ sale = [t \in Sales |-> [status |-> "none", started |-> 0, saved |-> 0]]
    /\ back = [l \in Lines |-> 0] /\ crossed = {}
    /\ desk = [r \in Returns |-> [step |-> "idle"]] /\ paid = [r \in Returns |-> 0]
    /\ cut = {}
    /\ mail = [t \in Sales |-> "none"] /\ job = [t \in Sales |-> [i \in Slots |-> Off]]
    /\ opened = {} /\ applied = {}
    /\ total = [d \in Days |-> 0]
    /\ byCashier = [d \in Days |-> [c \in Cashiers |-> 0]]
    /\ close = [d \in Days |-> NoClose] /\ ask = [u \in Users |-> Idle]
    /\ log = [d \in Days |-> <<>>] /\ said = log /\ raced = {}

-----------------------------------------------------------------------------
(* Midnight, and a sale as checkout saves and announces it (the statements  *)
(* before are Checkout's): ItemSold carries the instant the checkout began, *)
(* the row the instant it was inserted.                                     *)
Midnight ==
    /\ today < LastDay /\ today' = today + 1
    /\ UNCHANGED <<sale, back, desk, paid, cut, crossed, ledgerVars, closeVars, mishaps>>

RingUp(t) ==
    /\ sale[t].status = "none"
    /\ sale' = [sale EXCEPT ![t].status = "ringing", ![t].started = today]
    /\ UNCHANGED <<today, back, desk, paid, cut, crossed, ledgerVars, closeVars, mishaps>>

SaveSale(t) ==
    /\ sale[t].status = "ringing"
    /\ sale' = [sale EXCEPT ![t].status = "COMPLETED", ![t].saved = today]
    /\ UNCHANGED <<today, back, desk, paid, cut, crossed, ledgerVars, closeVars, mishaps>>

AnnounceSale(t) ==
    /\ sale[t].saved # 0 /\ mail[t] = "none"
    /\ mail' = [mail EXCEPT ![t] = "queued"]
    /\ UNCHANGED <<tillVars, job, opened, total, byCashier, applied, closeVars, mishaps>>

-----------------------------------------------------------------------------
(* processReturn: the lines are read and each entry is checked by itself,   *)
(* the return is written with the new quantities in one transaction, the    *)
(* lines are read again, the sale is marked when nothing is left, and       *)
(* ItemReturned goes out.  A failed statement or a restart between two of   *)
(* these breaks the request off for good.                                   *)
Of(r) == SaleOf[Names[CHOOSE e \in EntriesOf(r) : TRUE]]
Naming(r, l) == {e \in EntriesOf(r) : Names[e] = l}
Units(r, l) == SumFunctionOnSet(Wanted, Naming(r, l))
Goes(r, step) == desk[r].step = step /\ r \notin cut
Goto(r, step) == desk' = [desk EXCEPT ![r].step = step]
AllBack(t) == \A l \in LinesOf(t) : back[l] >= Sold[l]

ReadSale(r) ==
    /\ Goes(r, "idle") /\ sale[Of(r)].saved # 0
    /\ \A e \in EntriesOf(r) : Wanted[e] <= Sold[Names[e]] - back[Names[e]]
    /\ desk' = [desk EXCEPT ![r] = [step |-> "write", seen |-> back]]
    /\ UNCHANGED <<today, sale, back, paid, cut, crossed, ledgerVars, closeVars, mishaps>>

CreateReturn(r) ==
    /\ Goes(r, "write")
    /\ back' = [l \in Lines |-> back[l] + Units(r, l)]
    /\ paid' = [paid EXCEPT ![r] = today]
    /\ crossed' = crossed \cup {l \in Lines : Naming(r, l) # {} /\ back[l] # desk[r].seen[l]}
    /\ Goto(r, "look")
    /\ UNCHANGED <<today, sale, cut, ledgerVars, closeVars, mishaps>>

(* Mutant: the lines read at the start decide whether all is returned.      *)
LookAtRead(r) ==
    /\ Goes(r, "look")
    /\ Goto(r, IF \A l \in LinesOf(Of(r)) : desk[r].seen[l] + Units(r, l) >= Sold[l]
               THEN "mark" ELSE "tell")
    /\ UNCHANGED <<today, sale, back, paid, cut, crossed, ledgerVars, closeVars, mishaps>>

LookAgain(r) ==
    /\ Goes(r, "look")
    /\ Goto(r, IF AllBack(Of(r)) THEN "mark" ELSE "tell")
    /\ UNCHANGED <<today, sale, back, paid, cut, crossed, ledgerVars, closeVars, mishaps>>

MarkReturned(r) ==
    /\ Goes(r, "mark")
    /\ sale' = [sale EXCEPT ![Of(r)].status = "RETURNED"]
    /\ Goto(r, "tell")
    /\ UNCHANGED <<today, back, paid, cut, crossed, ledgerVars, closeVars, mishaps>>

TellReturned(r) ==
    /\ Goes(r, "tell") /\ Goto(r, "done")
    /\ UNCHANGED <<today, sale, back, paid, cut, crossed, ledgerVars, closeVars, mishaps>>

Running == {r \in Returns : desk[r].step \in {"write", "look", "mark", "tell"} /\ r \notin cut}
BreakOff(broken) ==
    /\ broken # {} /\ broken \subseteq Running
    /\ mishaps < MaxMishaps /\ mishaps' = mishaps + 1
    /\ cut' = cut \cup broken
    /\ UNCHANGED <<today, sale, back, desk, paid, crossed, ledgerVars, closeVars>>

(* Math.round on cents: half a cent goes up.                                *)
RefundFor(l, q) == (2 * LineTotal[l] * q + Sold[l]) \div (2 * Sold[l])
EntryRefund == [e \in Entries |-> RefundFor(Names[e], Wanted[e])]
Refund == [r \in Returns |-> SumFunctionOnSet(EntryRefund, EntriesOf(r))]

-----------------------------------------------------------------------------
(* recordSale: is the event applied; if not, total, cashier's line and the  *)
(* event's own row in one transaction, which a second insert aborts.        *)
At(t, i, step) == job[t][i].step = step
Step(t, i, step) == job' = [job EXCEPT ![t][i].step = step]
Refused(state) == IF state = "taken" THEN "again" ELSE "dropped"

Deliver(t, i) ==
    /\ mail[t] \in {"queued", "again"} /\ At(t, i, "off")
    /\ \A j \in Slots : j < i => ~ At(t, j, "off")
    /\ mail' = [mail EXCEPT ![t] = IF @ = "queued" THEN "taken" ELSE "retaken"]
    /\ job' = [job EXCEPT ![t][i] = [step |-> "check", live |-> TRUE]]
    /\ UNCHANGED <<tillVars, opened, total, byCashier, applied, closeVars, mishaps>>

CheckApplied(t, i) ==
    /\ At(t, i, "check")
    /\ Step(t, i, IF t \in applied THEN "ack" ELSE "apply")
    /\ UNCHANGED <<tillVars, mail, opened, total, byCashier, applied, closeVars, mishaps>>

AddSale(t, i) ==
    LET d == sale[t].started IN
    /\ opened' = opened \cup {d}
    /\ total' = [total EXCEPT ![d] = @ + Amount[t]]
    /\ byCashier' = [byCashier EXCEPT ![d][Cashier[t]] = @ + Amount[t]]
    /\ applied' = applied \cup {t}
    /\ Step(t, i, "ack")

(* Mutant: the event's row is upserted, so a second handler is not stopped. *)
ApplyTwice(t, i) ==
    /\ At(t, i, "apply") /\ AddSale(t, i)
    /\ UNCHANGED <<tillVars, mail, closeVars, mishaps>>

ApplySale(t, i) ==
    /\ At(t, i, "apply") /\ t \notin applied /\ AddSale(t, i)
    /\ UNCHANGED <<tillVars, mail, closeVars, mishaps>>

Ack(t, i) ==
    /\ At(t, i, "ack")
    /\ mail' = IF job[t][i].live THEN [mail EXCEPT ![t] = "acked"] ELSE mail
    /\ job' = [job EXCEPT ![t][i] = Off]
    /\ UNCHANGED <<tillVars, opened, total, byCashier, applied, closeVars, mishaps>>

Throws(t, i) ==
    /\ \/ At(t, i, "apply") /\ t \in applied /\ mishaps' = mishaps
       \/ job[t][i].step \in {"check", "apply"} /\ mishaps < MaxMishaps /\ mishaps' = mishaps + 1
    /\ mail' = IF job[t][i].live THEN [mail EXCEPT ![t] = Refused(@)] ELSE mail
    /\ job' = [job EXCEPT ![t][i] = Off]
    /\ UNCHANGED <<tillVars, opened, total, byCashier, applied, closeVars>>

BackToQueue == [t \in Sales |-> IF mail[t] \in {"taken", "retaken"} THEN "again" ELSE mail[t]]

ChannelLost ==
    /\ mishaps < MaxMishaps /\ mishaps' = mishaps + 1
    /\ mail' = BackToQueue /\ mail' # mail
    /\ job' = [t \in Sales |-> [i \in Slots |-> [job[t][i] EXCEPT !.live = FALSE]]]
    /\ UNCHANGED <<tillVars, opened, total, byCashier, applied, closeVars>>

AuditRestarts ==
    /\ mishaps < MaxMishaps /\ mishaps' = mishaps + 1
    /\ mail' = BackToQueue
    /\ job' = [t \in Sales |-> [i \in Slots |-> Off]]
    /\ ask' = [u \in Users |-> Idle]
    /\ UNCHANGED <<tillVars, opened, total, byCashier, applied, close, log, said, raced>>

-----------------------------------------------------------------------------
(* What Retail Sales sums for a day, and so what the drawer should hold.    *)
Taken(d) == SumFunctionOnSet(Amount, {t \in Sales : sale[t].saved = d})
Refunded(d) == SumFunctionOnSet(Refund, {r \in Returns : paid[r] = d})
(* The ledger has exactly the sales of the day, and nothing was refunded.   *)
LedgerKnows(d) == /\ {t \in applied : sale[t].started = d} = {t \in Sales : sale[t].saved = d}
                  /\ Refunded(d) = 0
Begin(u, r) == ask[u].op = "idle" /\ ask' = [ask EXCEPT ![u] = r]
Then(u, r) == ask' = [ask EXCEPT ![u] = r]
Answer(u) == ask' = [ask EXCEPT ![u] = Idle]
Over(d, seen) == IF close[d] = seen THEN raced ELSE raced \cup {d}

(* recordCount: make sure there is a ledger row and take its total, ask     *)
(* Retail Sales, which sums sales and refunds side by side, and save; its   *)
(* answer wins, its silence leaves the local total.  short is what the      *)
(* drawer lacks.                                                            *)
RecordCount(u, d, short) ==
    /\ d <= today
    /\ Begin(u, [op |-> "count", day |-> d, counted |-> Taken(d) - Refunded(d) - short,
                 local |-> total[d], sales |-> None, refunds |-> None, silent |-> FALSE,
                 short |-> short, seen |-> <<Taken(d), Refunded(d)>>, known |-> LedgerKnows(d)])
    /\ opened' = opened \cup {d}
    /\ UNCHANGED <<tillVars, mail, job, total, byCashier, applied, close, log, said, raced, mishaps>>

SumSales(u) ==
    /\ ask[u].op = "count" /\ ask[u].sales = None /\ ~ ask[u].silent
    /\ ask' = [ask EXCEPT ![u].sales = Taken(ask[u].day)]
    /\ UNCHANGED <<tillVars, ledgerVars, close, log, said, raced, mishaps>>

SumRefunds(u) ==
    /\ ask[u].op = "count" /\ ask[u].refunds = None /\ ~ ask[u].silent
    /\ ask' = [ask EXCEPT ![u].refunds = Refunded(ask[u].day)]
    /\ UNCHANGED <<tillVars, ledgerVars, close, log, said, raced, mishaps>>

CrossCheckFails(u) ==
    /\ ask[u].op = "count" /\ ~ ask[u].silent
    /\ mishaps < MaxMishaps /\ mishaps' = mishaps + 1
    /\ ask' = [ask EXCEPT ![u].silent = TRUE]
    /\ UNCHANGED <<tillVars, ledgerVars, close, log, said, raced>>

Expected(r) == IF r.silent THEN r.local ELSE r.sales - r.refunds
Counted(r, explained) ==
    LET diff == r.counted - Expected(r) IN
    [status |-> IF diff # 0 THEN "BLOCKED_ON_EXPLANATION" ELSE "OPEN",
     expected |-> Expected(r), counted |-> r.counted, diff |-> diff, why |-> explained,
     nth |-> close[r.day].nth + 1,
     calm |-> /\ r.seen = <<Taken(r.day), Refunded(r.day)>>
              /\ r.silent => r.known,
     short |-> r.short]
Ready(u) == ask[u].op = "count" /\ (ask[u].silent \/ (ask[u].sales # None /\ ask[u].refunds # None))

(* Mutant: a new count keeps the explanation of the one before.             *)
SaveKeeping(u) ==
    /\ Ready(u)
    /\ LET r == ask[u]
           kept == IF close[r.day].status = "none" THEN None ELSE close[r.day].why
       IN  close' = [close EXCEPT ![r.day] = [Counted(r, kept) EXCEPT !.status =
                        IF @ = "OPEN" \/ kept # None THEN "OPEN" ELSE @]]
    /\ Answer(u)
    /\ UNCHANGED <<tillVars, ledgerVars, log, said, raced, mishaps>>

SaveCount(u) ==
    /\ Ready(u)
    /\ close' = [close EXCEPT ![ask[u].day] = Counted(ask[u], None)]
    /\ Answer(u)
    /\ UNCHANGED <<tillVars, ledgerVars, log, said, raced, mishaps>>

(* explainDiscrepancy; an explanation is known by the figure it explains.   *)
Explain(u, d) ==
    /\ u \in Managers /\ close[d].status # "none"
    /\ Begin(u, [op |-> "explain", day |-> d, seen |-> close[d]])
    /\ UNCHANGED <<tillVars, ledgerVars, close, log, said, raced, mishaps>>

WriteExplained(u) ==
    /\ ask[u].op = "explain"
    /\ LET r == ask[u] IN
       /\ close' = [close EXCEPT ![r.day].why = r.seen.diff,
             ![r.day].status = IF r.seen.status = "BLOCKED_ON_EXPLANATION" THEN "OPEN"
                               ELSE r.seen.status]
       /\ raced' = Over(r.day, r.seen)
    /\ Answer(u)
    /\ UNCHANGED <<tillVars, ledgerVars, log, said, mishaps>>

(* close: the record is read and checked, log entry and status are written  *)
(* in one transaction from what was read, DayClosed goes out.               *)
Close(u, d) ==
    /\ u \in Managers /\ close[d].status = "OPEN"
    /\ Begin(u, [op |-> "close", day |-> d, seen |-> close[d]])
    /\ UNCHANGED <<tillVars, ledgerVars, close, log, said, raced, mishaps>>

WriteClosed(u) ==
    /\ ask[u].op = "close"
    /\ LET r == ask[u] IN
       /\ log' = [log EXCEPT ![r.day] = Append(@, r.seen)]
       /\ close' = [close EXCEPT ![r.day].status = "CLOSED"]
       /\ raced' = Over(r.day, r.seen)
       /\ Then(u, [op |-> "tell", day |-> r.day, seen |-> r.seen])
    /\ UNCHANGED <<tillVars, ledgerVars, said, mishaps>>

TellClosed(u) ==
    /\ ask[u].op = "tell"
    /\ said' = [said EXCEPT ![ask[u].day] = Append(@, ask[u].seen)]
    /\ Answer(u)
    /\ UNCHANGED <<tillVars, ledgerVars, close, log, raced, mishaps>>

(* openDays: days with a ledger row and no finished close.                  *)
OpenDays == {d \in opened : close[d].status # "CLOSED"}

DayStep ==
    \/ \E t \in Sales : RingUp(t) \/ SaveSale(t) \/ AnnounceSale(t)
    \/ \E r \in Returns : \/ ReadSale(r) \/ CreateReturn(r) \/ LookAgain(r)
                          \/ MarkReturned(r) \/ TellReturned(r) \/ BreakOff({r})
    \/ BreakOff(Running)
    \/ \E t \in Sales, i \in Slots : \/ Deliver(t, i) \/ CheckApplied(t, i) \/ ApplySale(t, i)
                                     \/ Ack(t, i) \/ Throws(t, i)
    \/ ChannelLost \/ AuditRestarts \/ Midnight
    \/ \E u \in Users : \/ \E d \in Days : \/ \E s \in {0, 1} : RecordCount(u, d, s)
                                           \/ Explain(u, d) \/ Close(u, d)
                        \/ SumSales(u) \/ SumRefunds(u) \/ CrossCheckFails(u) \/ SaveCount(u)
                        \/ WriteExplained(u) \/ WriteClosed(u) \/ TellClosed(u)

-----------------------------------------------------------------------------
(* However often ItemSold is delivered, its handlers overlap, fail or are   *)
(* killed, the ledger of a day is the sum of the sales applied to it, each  *)
(* counted once, in the total as in the cashiers' lines; and a sale whose   *)
(* message was acknowledged is applied ("at most once per eventId").        *)
SalesCountedOnce ==
    /\ \A d \in Days :
          LET counted == {t \in applied : sale[t].started = d} IN
          /\ total[d] = SumFunctionOnSet(Amount, counted)
          /\ \A c \in Cashiers : byCashier[d][c] =
                SumFunctionOnSet(Amount, {t \in counted : Cashier[t] = c})
    /\ \A t \in Sales : mail[t] = "acked" => t \in applied

(* What came back of a line is what the written returns say, and never more *)
(* than was sold, unless another till returned the same line between a      *)
(* request's check and its write, or one request listed the line twice;     *)
(* what is refunded on a line is its share of the line total, to half a     *)
(* cent for each entry.  A sale reads RETURNED only when all of it came     *)
(* back, and one that all came back from reads so unless a request stands   *)
(* between its write and its mark: still running, or broken off there.      *)
Made(l) == {e \in Entries : Names[e] = l /\ paid[RequestOf[e]] # 0}
ListedTwice(l) == \E r \in Returns : paid[r] # 0 /\ \E e, f \in Naming(r, l) : e # f
FairShare(l, made) ==
    LET off == SumFunctionOnSet(EntryRefund, made) * Sold[l]
                  - LineTotal[l] * SumFunctionOnSet(Wanted, made)
    IN  2 * off <= Sold[l] * Cardinality(made) /\ 2 * off >= - Sold[l] * Cardinality(made)
ReturnsFitTheSale ==
    /\ \A l \in Lines :
          /\ back[l] = SumFunctionOnSet(Wanted, Made(l)) /\ FairShare(l, Made(l))
          /\ l \notin crossed /\ ~ ListedTwice(l) => back[l] <= Sold[l]
    /\ \A t \in Sales :
          /\ sale[t].status = "RETURNED" => AllBack(t)
          /\ sale[t].saved # 0 /\ AllBack(t) =>
                \/ sale[t].status = "RETURNED"
                \/ \E r \in Returns : Of(r) = t /\ desk[r].step \in {"look", "mark"}

(* A day is closed on the count it was counted with.  A count taken while   *)
(* no sale or return of the day was being written, and answered by Retail   *)
(* Sales or by a complete ledger, shows exactly what the drawer lacks.  If  *)
(* nobody wrote over a record he had not read, every log entry that is off  *)
(* carries the explanation of its own figure, a count is closed once, and a *)
(* CLOSED day is the last entry of its log.  DayClosed says nothing the log *)
(* does not.                                                                *)
ClosedOnItsCount ==
    \A d \in Days :
        /\ close[d].status # "none" /\ close[d].calm => close[d].diff = - close[d].short
        /\ \A e \in Range(said[d]) : e \in Range(log[d])
        /\ d \notin raced =>
              /\ \A e \in Range(log[d]) : e.diff = 0 \/ e.why = e.diff
              /\ IsInjective([i \in DOMAIN log[d] |-> log[d][i].nth])
              /\ close[d].status = "CLOSED" =>
                    LET last == log[d][Len(log[d])]
                    IN  last.nth = close[d].nth /\ last.diff = close[d].diff
=============================================================================
