--------------------------- MODULE FinancialsInbox ---------------------------
(* Financials' bookkeeping (services/financials): domain events arrive on   *)
(* durable queues, one per kind of event, are stored in the inbox, and are  *)
(* posted to the ledger by whoever gets to them: the consumer that stored   *)
(* them, the 15-second sweep, or a clerk pressing "retry".  Several may work *)
(* on one event at once; what keeps the books right is the transaction of   *)
(* LedgerRepository.commit and the unique constraint on the source document. *)
EXTENDS Naturals, FiniteSets

CONSTANTS
    Events,        \* event ids
    Document,      \* Document[e]: the source document (source and sourceRef)
    Kind,          \* Kind[e]: "receipt", "sale", "return", "close" or "adjustment"
    SaleOf,        \* SaleOf[e]: the document of the sale a return reverses
    Moneyless,     \* events that move no money (a balanced day close)
    Unposted,      \* events a person has to fix first (unknown PO, not KES)
    Slots,         \* concurrent consumer handlers (the queues have no prefetch)
    Clerks,        \* concurrent requests to the retry endpoint
    Payers,        \* concurrent requests to pay a bill
    FaultKinds,    \* faults that may happen, a subset of AllFaults
    MaxFaults,     \* bound: how many
    MaxOutages,    \* bound: how often Procurement and Inventory go down
    MaxRetries     \* bound: how often a clerk presses "retry"

Sweep == "sweep"
Workers == Slots \cup Clerks \cup {Sweep}
Documents == {Document[e] : e \in Events}
Kinds == {"receipt", "sale", "return", "close", "adjustment"}
AllFaults == {"db", "channel", "crash"}

ASSUME EventAssumption ==
    /\ Kind \in [Events -> Kinds]
    /\ DOMAIN Document = Events
    /\ Moneyless \subseteq Events
    /\ Unposted \subseteq Events
    /\ \A e, f \in Events : Document[e] = Document[f] => Kind[e] = Kind[f]

ASSUME WorkerAssumption ==
    /\ Sweep \notin Slots \cup Clerks
    /\ Slots \cap Clerks = {}
    /\ "nobody" \notin Workers \cup Events \cup Payers

ASSUME BoundAssumption ==
    /\ FaultKinds \subseteq AllFaults
    /\ MaxFaults \in Nat /\ MaxOutages \in Nat /\ MaxRetries \in Nat

VARIABLES
    queue,         \* queue[e]: the message of e: [state, redelivered, holder]
    inbox,         \* InboxEvent.status, "ABSENT" before the row exists
    due,           \* nextAttempt <= now
    entries,       \* JournalEntry rows of events: [doc, by, split]
    bills,         \* PayableBill rows: [doc, by]
    facts,         \* SaleLineFact rows: [doc, by]
    payments,      \* JournalEntry rows of bill payments: [doc, by]
    job,           \* job[w]: the event worker w is on, and "nobody" if idle
    step,          \* step[w]: the next statement of worker w
    seen,          \* seen[w]: commit found an entry for the document
    split,         \* split[w]: the VAT split a return's plan uses
    batch,         \* events the running sweep has still to process
    paying,        \* paying[p]: the bill payer p found open, or "nobody"
    fixed,         \* events of Unposted whose cause was repaired
    down,          \* the services looked up are unreachable
    outages, retries, faults    \* how often, for the bounds

ledgerVars == <<entries, bills, facts, payments>>
workVars == <<job, step, seen, split>>
boundVars == <<outages, retries, faults>>
vars == <<queue, inbox, due, ledgerVars, workVars, batch, paying, fixed, down, boundVars>>

Statuses == {"ABSENT", "PENDING", "POSTED", "NEEDS_ATTENTION"}
Steps == {"idle", "store", "requeue", "read", "plan", "find", "write",
          "flag", "retry", "done"}
Splits == {"none", "original", "unknown"}
NoMessage == [state |-> "none", redelivered |-> FALSE, holder |-> "nobody"]

TypeOK ==
    /\ queue \in [Events -> [state : {"none", "queued", "inflight", "acked", "dropped"},
                             redelivered : BOOLEAN, holder : Workers \cup {"nobody"}]]
    /\ inbox \in [Events -> Statuses]
    /\ due \in [Events -> BOOLEAN]
    /\ entries \subseteq [doc : Documents, by : Events, split : Splits]
    /\ bills \subseteq [doc : Documents, by : Events]
    /\ facts \subseteq [doc : Documents, by : Events]
    /\ payments \subseteq [doc : Documents, by : Payers]
    /\ job \in [Workers -> Events \cup {"nobody"}]
    /\ step \in [Workers -> Steps]
    /\ seen \in [Workers -> BOOLEAN]
    /\ split \in [Workers -> Splits]
    /\ batch \subseteq Events
    /\ paying \in [Payers -> Documents \cup {"nobody"}]
    /\ fixed \subseteq Unposted
    /\ down \in BOOLEAN
    /\ outages \in Nat /\ retries \in Nat /\ faults \in Nat

Init ==
    /\ queue = [e \in Events |-> NoMessage]
    /\ inbox = [e \in Events |-> "ABSENT"]
    /\ due = [e \in Events |-> FALSE]
    /\ entries = {} /\ bills = {} /\ facts = {} /\ payments = {}
    /\ job = [w \in Workers |-> "nobody"]
    /\ step = [w \in Workers |-> "idle"]
    /\ seen = [w \in Workers |-> FALSE]
    /\ split = [w \in Workers |-> "none"]
    /\ batch = {}
    /\ paying = [p \in Payers |-> "nobody"]
    /\ fixed = {}
    /\ down = FALSE
    /\ outages = 0 /\ retries = 0 /\ faults = 0

Fault(kind) ==
    /\ kind \in FaultKinds
    /\ faults < MaxFaults
    /\ faults' = faults + 1
    /\ UNCHANGED <<outages, retries>>

Booked(d) == \E x \in entries : x.doc = d

-----------------------------------------------------------------------------
(* The bus.                                                                 *)

(* A return is rung up against a sale that was already published.           *)
Publish(e) ==
    /\ queue[e].state = "none"
    /\ Kind[e] = "return" =>
          \E s \in Events : Document[s] = SaleOf[e] /\ queue[s].state # "none"
    /\ queue' = [queue EXCEPT ![e].state = "queued"]
    /\ UNCHANGED <<inbox, due, ledgerVars, workVars, batch, paying, fixed, down, boundVars>>

Deliver(w, e) ==
    /\ queue[e].state = "queued"
    /\ step[w] = "idle"
    /\ queue' = [queue EXCEPT ![e].state = "inflight", ![e].holder = w]
    /\ job' = [job EXCEPT ![w] = e]
    /\ step' = [step EXCEPT ![w] = "store"]
    /\ UNCHANGED <<inbox, due, ledgerVars, seen, split, batch, paying, fixed, down, boundVars>>

Requeued(m) == [state |-> "queued", redelivered |-> TRUE, holder |-> "nobody"]

(* nack: requeued the first time, dropped the second.                       *)
Nacked(m) ==
    IF m.redelivered THEN [state |-> "dropped", redelivered |-> TRUE, holder |-> "nobody"]
                     ELSE Requeued(m)

Unacked == [e \in Events |-> IF queue[e].state = "inflight" THEN Requeued(queue[e]) ELSE queue[e]]

(* A worker with nothing left to do; w's local variables are forgotten.     *)
Idle(w) ==
    /\ job' = [job EXCEPT ![w] = "nobody"]
    /\ step' = [step EXCEPT ![w] = "idle"]
    /\ seen' = [seen EXCEPT ![w] = FALSE]
    /\ split' = [split EXCEPT ![w] = "none"]

(* The handler returned: acknowledge, unless the channel is gone.           *)
Finish(w) ==
    /\ step[w] = "done"
    /\ Idle(w)
    /\ queue' = [e \in Events |->
                   IF e = job[w] /\ queue[e].holder = w
                   THEN [state |-> "acked", redelivered |-> queue[e].redelivered, holder |-> "nobody"]
                   ELSE queue[e]]
    /\ UNCHANGED <<inbox, due, ledgerVars, batch, paying, fixed, down, boundVars>>

-----------------------------------------------------------------------------
(* What each worker does with its event.                                    *)

Goto(w, s) == step' = [step EXCEPT ![w] = s]
Bookkeeping == <<queue, job, batch, paying, fixed, down, boundVars>>

(* createMany with skipDuplicates.                                          *)
Store(w) ==
    LET e == job[w] IN
    /\ step[w] = "store"
    /\ Goto(w, "read")
    /\ IF inbox[e] = "ABSENT"
       THEN inbox' = [inbox EXCEPT ![e] = "PENDING"] /\ due' = [due EXCEPT ![e] = TRUE]
       ELSE UNCHANGED <<inbox, due>>
    /\ UNCHANGED <<ledgerVars, seen, split, Bookkeeping>>

(* The retry endpoint, after it found the event not POSTED.                 *)
Requeue(w) ==
    /\ step[w] = "requeue"
    /\ Goto(w, "read")
    /\ inbox' = [inbox EXCEPT ![job[w]] = "PENDING"]
    /\ due' = [due EXCEPT ![job[w]] = TRUE]
    /\ UNCHANGED <<ledgerVars, seen, split, Bookkeeping>>

Read(w) ==
    /\ step[w] = "read"
    /\ Goto(w, IF inbox[job[w]] = "PENDING" THEN "plan" ELSE "done")
    /\ UNCHANGED <<inbox, due, ledgerVars, seen, split, Bookkeeping>>

SaleKnown(e) == \E f \in facts : f.doc = SaleOf[e]

(* Receipts read the PO, sales and unmatched returns the unit cost.         *)
LooksUp(e) ==
    \/ Kind[e] \in {"receipt", "sale"}
    \/ Kind[e] = "return" /\ ~SaleKnown(e)

SplitOf(e) ==
    IF Kind[e] # "return" THEN "none" ELSE IF SaleKnown(e) THEN "original" ELSE "unknown"

(* Mutant: an unreachable service is taken for a missing record.            *)
PlanFailsForGood(w) ==
    /\ step[w] = "plan"
    /\ LooksUp(job[w]) /\ down
    /\ Goto(w, "flag")
    /\ UNCHANGED <<inbox, due, ledgerVars, seen, split, Bookkeeping>>

PlanFails(w) ==
    /\ step[w] = "plan"
    /\ LooksUp(job[w]) /\ down
    /\ Goto(w, "retry")
    /\ UNCHANGED <<inbox, due, ledgerVars, seen, split, Bookkeeping>>

PlanRejects(w) ==
    /\ step[w] = "plan"
    /\ LooksUp(job[w]) /\ ~down
    /\ job[w] \in Unposted \ fixed
    /\ Goto(w, "flag")
    /\ UNCHANGED <<inbox, due, ledgerVars, seen, split, Bookkeeping>>

Plan(w) ==
    LET e == job[w] IN
    /\ step[w] = "plan"
    /\ LooksUp(e) => ~down /\ e \notin Unposted \ fixed
    /\ split' = [split EXCEPT ![w] = SplitOf(e)]
    /\ Goto(w, IF e \in Moneyless THEN "write" ELSE "find")
    /\ UNCHANGED <<inbox, due, ledgerVars, seen, Bookkeeping>>

(* commit, first half: look for an entry of the same source document.       *)
Find(w) ==
    /\ step[w] = "find"
    /\ seen' = [seen EXCEPT ![w] = Booked(Document[job[w]])]
    /\ Goto(w, "write")
    /\ UNCHANGED <<inbox, due, ledgerVars, split, Bookkeeping>>

Posted(w) ==
    /\ inbox' = [inbox EXCEPT ![job[w]] = "POSTED"]
    /\ Goto(w, "done")
    /\ UNCHANGED <<due, payments, seen, split, Bookkeeping>>

(* commit, second half: nothing to book, or booked before.                  *)
WriteNothing(w) ==
    /\ step[w] = "write"
    /\ job[w] \in Moneyless \/ seen[w]
    /\ Posted(w)
    /\ UNCHANGED <<entries, bills, facts>>

(* Mutant: no unique constraint on the source document.                     *)
WriteEntryTwice(w) ==
    LET e == job[w]
        d == Document[e] IN
    /\ step[w] = "write"
    /\ e \notin Moneyless /\ ~seen[w]
    /\ entries' = entries \cup {[doc |-> d, by |-> e, split |-> split[w]]}
    /\ bills' = IF Kind[e] = "receipt" THEN bills \cup {[doc |-> d, by |-> e]} ELSE bills
    /\ facts' = IF Kind[e] \in {"sale", "return"} THEN facts \cup {[doc |-> d, by |-> e]} ELSE facts
    /\ Posted(w)

(* commit, second half: entry, bill, facts and status in one transaction.   *)
WriteEntry(w) ==
    LET e == job[w]
        d == Document[e] IN
    /\ step[w] = "write"
    /\ e \notin Moneyless /\ ~seen[w]
    /\ ~Booked(d)
    /\ entries' = entries \cup {[doc |-> d, by |-> e, split |-> split[w]]}
    /\ bills' = IF Kind[e] = "receipt" THEN bills \cup {[doc |-> d, by |-> e]} ELSE bills
    /\ facts' = IF Kind[e] \in {"sale", "return"} THEN facts \cup {[doc |-> d, by |-> e]} ELSE facts
    /\ Posted(w)

(* The unique constraint refuses a second entry: an ordinary error.         *)
WriteConflicts(w) ==
    /\ step[w] = "write"
    /\ job[w] \notin Moneyless /\ ~seen[w]
    /\ Booked(Document[job[w]])
    /\ Goto(w, "retry")
    /\ UNCHANGED <<inbox, due, ledgerVars, seen, split, Bookkeeping>>

Flag(w) ==
    /\ step[w] = "flag"
    /\ inbox' = [inbox EXCEPT ![job[w]] = "NEEDS_ATTENTION"]
    /\ Goto(w, "done")
    /\ UNCHANGED <<due, ledgerVars, seen, split, Bookkeeping>>

(* Mutant: a status the enum does not have.                                 *)
ScheduleRetrying(w) ==
    /\ step[w] = "retry"
    /\ inbox' = [inbox EXCEPT ![job[w]] = "RETRYING"]
    /\ due' = [due EXCEPT ![job[w]] = FALSE]
    /\ Goto(w, "done")
    /\ UNCHANGED <<ledgerVars, seen, split, Bookkeeping>>

ScheduleRetry(w) ==
    /\ step[w] = "retry"
    /\ due' = [due EXCEPT ![job[w]] = FALSE]
    /\ Goto(w, "done")
    /\ UNCHANGED <<inbox, ledgerVars, seen, split, Bookkeeping>>

Work(w) ==
    \/ Store(w) \/ Requeue(w) \/ Read(w)
    \/ PlanFails(w) \/ PlanRejects(w) \/ Plan(w)
    \/ Find(w) \/ WriteNothing(w) \/ WriteEntry(w) \/ WriteConflicts(w)
    \/ Flag(w) \/ ScheduleRetry(w) \/ Finish(w)

-----------------------------------------------------------------------------
(* The sweep, the clerks, the payers and the clock.                         *)

(* The backoff of a scheduled retry runs out.                               *)
Elapse(e) ==
    /\ inbox[e] = "PENDING" /\ ~due[e]
    /\ due' = [due EXCEPT ![e] = TRUE]
    /\ UNCHANGED <<queue, inbox, ledgerVars, workVars, batch, paying, fixed, down, boundVars>>

(* Mutant: the comparison with the clock is the wrong way round.            *)
NotDueEvents == {e \in Events : inbox[e] = "PENDING" /\ ~due[e]}

DueEvents == {e \in Events : inbox[e] = "PENDING" /\ due[e]}

(* The flag `sweeping` is a sweep worker with a batch or a job.             *)
StartSweep ==
    /\ step[Sweep] = "idle" /\ batch = {}
    /\ DueEvents # {}
    /\ batch' = DueEvents
    /\ UNCHANGED <<queue, inbox, due, ledgerVars, workVars, paying, fixed, down, boundVars>>

SweepNext ==
    /\ step[Sweep] = "idle"
    /\ \E e \in batch :
          /\ batch' = batch \ {e}
          /\ job' = [job EXCEPT ![Sweep] = e]
    /\ Goto(Sweep, "read")
    /\ UNCHANGED <<queue, inbox, due, ledgerVars, seen, split, paying, fixed, down, boundVars>>

PressRetry(w, e) ==
    /\ step[w] = "idle"
    /\ inbox[e] \in {"PENDING", "NEEDS_ATTENTION"}
    /\ retries < MaxRetries
    /\ retries' = retries + 1
    /\ job' = [job EXCEPT ![w] = e]
    /\ Goto(w, "requeue")
    /\ UNCHANGED <<queue, inbox, due, ledgerVars, seen, split, batch, paying, fixed, down,
                   outages, faults>>

(* PayablesService.pay: find the bill open, then pay it under the guard.    *)
Paid(d) == \E x \in payments : x.doc = d

FindOpenBill(p) ==
    /\ paying[p] = "nobody"
    /\ \E b \in bills : ~Paid(b.doc) /\ paying' = [paying EXCEPT ![p] = b.doc]
    /\ UNCHANGED <<queue, inbox, due, ledgerVars, workVars, batch, fixed, down, boundVars>>

(* Mutant: the bill is paid whatever its status.                            *)
PayAgain(p) ==
    /\ paying[p] # "nobody"
    /\ paying' = [paying EXCEPT ![p] = "nobody"]
    /\ payments' = payments \cup {[doc |-> paying[p], by |-> p]}
    /\ UNCHANGED <<queue, inbox, due, entries, bills, facts, workVars, batch, fixed, down, boundVars>>

(* Mutant: the second payment replaces the first.                           *)
PayOver(p) ==
    /\ paying[p] # "nobody"
    /\ paying' = [paying EXCEPT ![p] = "nobody"]
    /\ payments' = {x \in payments : x.doc # paying[p]} \cup {[doc |-> paying[p], by |-> p]}
    /\ UNCHANGED <<queue, inbox, due, entries, bills, facts, workVars, batch, fixed, down, boundVars>>

PayBill(p) ==
    /\ paying[p] # "nobody"
    /\ paying' = [paying EXCEPT ![p] = "nobody"]
    /\ payments' = IF Paid(paying[p]) THEN payments
                                      ELSE payments \cup {[doc |-> paying[p], by |-> p]}
    /\ UNCHANGED <<queue, inbox, due, entries, bills, facts, workVars, batch, fixed, down, boundVars>>

(* Someone adds the missing PO line or product.                             *)
Fix(e) ==
    /\ e \in Unposted \ fixed
    /\ fixed' = fixed \cup {e}
    /\ UNCHANGED <<queue, inbox, due, ledgerVars, workVars, batch, paying, down, boundVars>>

GoDown ==
    /\ ~down /\ outages < MaxOutages
    /\ down' = TRUE
    /\ outages' = outages + 1
    /\ UNCHANGED <<queue, inbox, due, ledgerVars, workVars, batch, paying, fixed, retries, faults>>

ComeBack ==
    /\ down
    /\ down' = FALSE
    /\ UNCHANGED <<queue, inbox, due, ledgerVars, workVars, batch, paying, fixed, boundVars>>

-----------------------------------------------------------------------------
(* Failures.                                                                *)

(* The database refuses a statement.  A failed commit rolls back and is     *)
(* retried; any other failed statement throws out of the worker: a consumer *)
(* nacks its message, the sweep gives up its batch, a request fails.        *)
CommitFails(w) ==
    /\ step[w] \in {"find", "write"}
    /\ Fault("db")
    /\ Goto(w, "retry")
    /\ UNCHANGED <<queue, inbox, due, ledgerVars, job, seen, split, batch, paying, fixed, down>>

Throws(w) ==
    /\ step[w] \in {"store", "requeue", "read", "flag", "retry"}
    /\ Fault("db")
    /\ Idle(w)
    /\ queue' = [e \in Events |->
                   IF e = job[w] /\ queue[e].holder = w THEN Nacked(queue[e]) ELSE queue[e]]
    /\ batch' = IF w = Sweep THEN {} ELSE batch
    /\ UNCHANGED <<inbox, due, ledgerVars, paying, fixed, down>>

(* The channel closes; its handlers keep running.                           *)
ChannelLost ==
    /\ \E e \in Events : queue[e].state = "inflight"
    /\ Fault("channel")
    /\ queue' = Unacked
    /\ UNCHANGED <<inbox, due, ledgerVars, workVars, batch, paying, fixed, down>>

(* Financials restarts: every worker is gone, nothing committed is.         *)
Crash ==
    /\ \E w \in Workers : step[w] # "idle"
    /\ Fault("crash")
    /\ queue' = Unacked
    /\ job' = [w \in Workers |-> "nobody"]
    /\ step' = [w \in Workers |-> "idle"]
    /\ seen' = [w \in Workers |-> FALSE]
    /\ split' = [w \in Workers |-> "none"]
    /\ batch' = {}
    /\ paying' = [p \in Payers |-> "nobody"]
    /\ UNCHANGED <<inbox, due, ledgerVars, fixed, down>>

-----------------------------------------------------------------------------
Next ==
    \/ \E e \in Events : Publish(e) \/ Elapse(e) \/ Fix(e)
    \/ \E w \in Slots, e \in Events : Deliver(w, e)
    \/ \E w \in Workers : Work(w) \/ CommitFails(w) \/ Throws(w)
    \/ StartSweep \/ SweepNext
    \/ \E w \in Clerks, e \in Events : PressRetry(w, e)
    \/ \E p \in Payers : FindOpenBill(p) \/ PayBill(p)
    \/ GoDown \/ ComeBack \/ ChannelLost \/ Crash

Spec == Init /\ [][Next]_vars

(* Every started piece of work is finished, queued messages are delivered,  *)
(* the sweep timer fires, backoffs run out and services come back.  Clerks, *)
(* payers, repairs, publications and faults need not happen.                *)
Fairness ==
    /\ \A w \in Workers : WF_vars(Work(w))
    /\ \A e \in Events : WF_vars(Elapse(e)) /\ WF_vars(\E w \in Slots : Deliver(w, e))
    /\ WF_vars(StartSweep) /\ WF_vars(SweepNext) /\ WF_vars(ComeBack)

FairSpec == Spec /\ Fairness

-----------------------------------------------------------------------------
(* Properties.                                                              *)

(* "One entry per source document — a redelivered event can never book      *)
(* twice" (schema.prisma:72): however many workers, events and restarts     *)
(* come together on a document.                                             *)
OneEntryPerDocument == \A x, y \in entries : x.doc = y.doc => x = y

(* A document has one entry, whoever worked on it, and its bill and facts   *)
(* exist exactly if the entry does and come from the same event: never a    *)
(* bill without a payable in the ledger, never the facts of another entry.  *)
BooksAgree ==
    /\ OneEntryPerDocument
    /\ \A b \in bills : \E x \in entries : x.doc = b.doc /\ x.by = b.by
    /\ \A f \in facts : \E x \in entries : x.doc = f.doc /\ x.by = f.by
    /\ \A x \in entries :
          /\ Kind[x.by] = "receipt" <=> [doc |-> x.doc, by |-> x.by] \in bills
          /\ Kind[x.by] \in {"sale", "return"} <=> [doc |-> x.doc, by |-> x.by] \in facts

(* POSTED is never claimed for money that is not in the ledger.             *)
PostedIsBooked ==
    \A e \in Events :
        inbox[e] = "POSTED" => e \in Moneyless \/ Booked(Document[e])

(* An acknowledged message is in the inbox: a crash between storing and     *)
(* posting loses nothing.                                                   *)
AckedIsStored == \A e \in Events : queue[e].state = "acked" => inbox[e] # "ABSENT"

(* A bill is paid once, however many clicks on "Pay" there were, and never  *)
(* without having been booked.                                              *)
PaidOnce ==
    /\ \A x, y \in payments : x.doc = y.doc => x = y
    /\ \A x \in payments : \E b \in bills : b.doc = x.doc

(* "the event is retried until it posts or is flagged for a person"         *)
(* (schema.prisma:137).                                                     *)
EventSettles ==
    \A e \in Events :
        inbox[e] = "PENDING" ~> inbox[e] \in {"POSTED", "NEEDS_ATTENTION"}

(* A published event that can be posted is in the books in the end.         *)
PublishedIsBooked ==
    \A e \in Events \ (Unposted \cup Moneyless) :
        queue[e].state = "queued" ~> Booked(Document[e])

(* A refund reverses the VAT split of the sale it refunds (D-14, "the       *)
(* refund reverses revenue and VAT at the original sale's split").          *)
RefundsReverseTheSale ==
    \A x \in entries : Kind[x.by] = "return" => x.split = "original"

BookOf(d) ==
    IF Booked(d) THEN (CHOOSE x \in entries : x.doc = d).by ELSE "nobody"
PayerOf(d) ==
    IF Paid(d) THEN (CHOOSE x \in payments : x.doc = d).by ELSE "nobody"

Ledger == INSTANCE Books
            WITH Billed <- {Document[e] : e \in {f \in Events : Kind[f] = "receipt"}},
                 Bookers <- Events,
                 book <- [d \in Documents |-> BookOf(d)],
                 payer <- [d \in Documents |-> PayerOf(d)]

(* The inbox, its workers and their races implement books kept in one step. *)
BooksSpec == Ledger!BooksSpec
=============================================================================
