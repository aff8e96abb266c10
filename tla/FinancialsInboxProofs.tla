------------------------ MODULE FinancialsInboxProofs ------------------------
(* Proofs about FinancialsInbox: its safety properties, for any number of   *)
(* events, workers and faults, and that it implements Books.                *)
EXTENDS FinancialsInbox, TLAPS

(* What the ledger rows say of each other.                                  *)
LedgerInv ==
    /\ \A x \in entries : x.doc = Document[x.by]
    /\ \A b \in bills : b.doc = Document[b.by] /\ Kind[b.by] = "receipt"
    /\ OneEntryPerDocument
    /\ BooksAgree
    /\ PaidOnce

(* What a worker remembers is true of the tables.                           *)
WorkerInv ==
    \A w \in Workers :
        /\ step[w] # "idle" => job[w] \in Events
        /\ step[w] \notin {"idle", "store"} => inbox[job[w]] # "ABSENT"
        /\ step[w] = "idle" => ~seen[w]
        /\ seen[w] => Booked(Document[job[w]])

BatchInv == \A e \in batch : inbox[e] # "ABSENT"

PayerInv == \A p \in Payers : paying[p] # "nobody" => \E b \in bills : b.doc = paying[p]

IInv ==
    /\ TypeOK
    /\ LedgerInv
    /\ WorkerInv
    /\ BatchInv
    /\ PayerInv
    /\ PostedIsBooked
    /\ AckedIsStored

USE DEF Goto, Bookkeeping, ledgerVars, workVars, boundVars

-----------------------------------------------------------------------------
(* The initial states.                                                      *)

LEMMA InitIInv == Init => IInv
<1> SUFFICES ASSUME Init PROVE IInv
  OBVIOUS
<1>1. TypeOK
  BY DEF Init, TypeOK, NoMessage, Statuses, Steps, Splits
<1>2. LedgerInv
  BY DEF Init, LedgerInv, OneEntryPerDocument, BooksAgree, PaidOnce
<1>3. WorkerInv /\ BatchInv /\ PayerInv /\ PostedIsBooked /\ AckedIsStored
  BY DEF Init, WorkerInv, BatchInv, PayerInv, PostedIsBooked, AckedIsStored, NoMessage
<1> QED
  BY <1>1, <1>2, <1>3 DEF IInv

(* Tables nobody wrote keep what they say.                                  *)
LEMMA LedgerSame ==
    ASSUME LedgerInv, UNCHANGED <<entries, bills, facts, payments>>
    PROVE  LedgerInv' /\ \A d : Booked(d)' = Booked(d)
BY DEF LedgerInv, OneEntryPerDocument, BooksAgree, PaidOnce, Booked

(* One worker takes a step within its job: what it may change of the inbox, *)
(* and what it may come to remember, for the invariant to survive.          *)
LEMMA WorkerStep ==
    ASSUME IInv, NEW w \in Workers, step[w] # "idle",
           NEW s \in Steps \ {"idle", "store"}, step' = [step EXCEPT ![w] = s],
           inbox' \in [Events -> Statuses],
           due' \in [Events -> BOOLEAN],
           seen' \in [Workers -> BOOLEAN],
           split' \in [Workers -> Splits],
           outages' \in Nat, retries' \in Nat, faults' \in Nat,
           inbox'[job[w]] # "ABSENT",
           \A e \in Events : inbox[e] # "ABSENT" => inbox'[e] # "ABSENT",
           \A e \in Events : inbox'[e] = "POSTED" =>
               inbox[e] = "POSTED" \/ e \in Moneyless \/ Booked(Document[e]),
           \A v \in Workers : seen'[v] => seen[v] \/ (v = w /\ Booked(Document[job[w]])),
           UNCHANGED <<ledgerVars, queue, job, batch, paying, fixed, down>>
    PROVE  IInv'
<1>1. TypeOK'
  BY DEF IInv, TypeOK
<1>2. LedgerInv' /\ \A d : Booked(d)' = Booked(d)
  BY LedgerSame DEF IInv
<1>3. WorkerInv'
  <2> SUFFICES ASSUME NEW v \in Workers
               PROVE  /\ step'[v] # "idle" => job'[v] \in Events
                      /\ step'[v] \notin {"idle", "store"} => inbox'[job'[v]] # "ABSENT"
                      /\ step'[v] = "idle" => ~seen'[v]
                      /\ seen'[v] => Booked(Document[job[v]])
    BY <1>2 DEF WorkerInv
  <2>1. CASE v = w
    BY <2>1 DEF IInv, WorkerInv, TypeOK
  <2>2. CASE v # w
    BY <2>2 DEF IInv, WorkerInv, TypeOK
  <2> QED
    BY <2>1, <2>2
<1>4. BatchInv' /\ AckedIsStored'
  BY DEF IInv, TypeOK, BatchInv, AckedIsStored
<1>5. PayerInv'
  BY DEF IInv, PayerInv
<1>6. PostedIsBooked'
  BY <1>2 DEF IInv, PostedIsBooked
<1> QED
  BY <1>1, <1>2, <1>3, <1>4, <1>5, <1>6 DEF IInv

-----------------------------------------------------------------------------
(* The steps of a worker that leave the ledger alone.                       *)

LEMMA ReadingIInv ==
    ASSUME IInv, NEW w \in Workers,
           Store(w) \/ Requeue(w) \/ Read(w) \/ PlanFails(w) \/ PlanRejects(w)
    PROVE  IInv'
<1>1. job[w] \in Events /\ step[w] # "idle"
  BY DEF IInv, WorkerInv, Store, Requeue, Read, PlanFails, PlanRejects
<1>2. CASE Store(w)
  <2>1. CASE inbox[job[w]] = "ABSENT"
    <3>1. /\ step' = [step EXCEPT ![w] = "read"]
          /\ inbox' = [inbox EXCEPT ![job[w]] = "PENDING"]
          /\ due' = [due EXCEPT ![job[w]] = TRUE]
          /\ UNCHANGED <<ledgerVars, queue, job, seen, split, batch, paying, fixed, down,
                         outages, retries, faults>>
      BY <1>2, <2>1 DEF Store
    <3>2. inbox' \in [Events -> Statuses] /\ due' \in [Events -> BOOLEAN]
      BY <3>1 DEF IInv, TypeOK, Statuses
    <3>3. /\ inbox'[job[w]] # "ABSENT"
          /\ \A e \in Events : inbox[e] # "ABSENT" => inbox'[e] # "ABSENT"
          /\ \A e \in Events : inbox'[e] = "POSTED" => inbox[e] = "POSTED"
      BY <1>1, <3>1 DEF IInv, TypeOK
    <3> QED
      BY <1>1, <3>1, <3>2, <3>3, WorkerStep DEF IInv, TypeOK, PostedIsBooked, Steps
  <2>2. CASE inbox[job[w]] # "ABSENT"
    BY <1>1, <1>2, <2>2, WorkerStep DEF IInv, TypeOK, PostedIsBooked, Store, Steps
  <2> QED
    BY <2>1, <2>2
<1>3. CASE Requeue(w)
  BY <1>1, <1>3, WorkerStep DEF IInv, TypeOK, Requeue, Steps, Statuses
<1>4. CASE Read(w)
  <2>1. inbox[job[w]] # "ABSENT"
    BY <1>4 DEF IInv, WorkerInv, Read
  <2>2. CASE inbox[job[w]] = "PENDING"
    BY <1>1, <1>4, <2>1, <2>2, WorkerStep DEF IInv, TypeOK, PostedIsBooked, Read, Steps
  <2>3. CASE inbox[job[w]] # "PENDING"
    BY <1>1, <1>4, <2>1, <2>3, WorkerStep DEF IInv, TypeOK, PostedIsBooked, Read, Steps
  <2> QED
    BY <2>2, <2>3
<1>5. CASE PlanFails(w) \/ PlanRejects(w)
  <2>1. inbox[job[w]] # "ABSENT"
    BY <1>5 DEF IInv, WorkerInv, PlanFails, PlanRejects
  <2>2. CASE PlanFails(w)
    BY <1>1, <2>1, <2>2, WorkerStep DEF IInv, TypeOK, PlanFails, PostedIsBooked, Steps
  <2>3. CASE PlanRejects(w)
    BY <1>1, <2>1, <2>3, WorkerStep DEF IInv, TypeOK, PlanRejects, PostedIsBooked, Steps
  <2> QED
    BY <1>5, <2>2, <2>3
<1> QED
  BY <1>2, <1>3, <1>4, <1>5

LEMMA PlanIInv ==
    ASSUME IInv, NEW w \in Workers, Plan(w) \/ Find(w) \/ CommitFails(w)
    PROVE  IInv'
<1>1. job[w] \in Events /\ step[w] # "idle" /\ inbox[job[w]] # "ABSENT"
  BY DEF IInv, WorkerInv, Plan, Find, CommitFails
<1>2. CASE Plan(w)
  <2>1. SplitOf(job[w]) \in Splits
    BY DEF SplitOf, Splits
  <2>2. split' \in [Workers -> Splits]
    BY <1>2, <2>1 DEF Plan, IInv, TypeOK
  <2>3. CASE job[w] \in Moneyless
    BY <1>1, <1>2, <2>2, <2>3, WorkerStep DEF IInv, TypeOK, Plan, Steps
  <2>4. CASE job[w] \notin Moneyless
    BY <1>1, <1>2, <2>2, <2>4, WorkerStep DEF IInv, TypeOK, Plan, Steps
  <2> QED
    BY <2>3, <2>4
<1>3. CASE Find(w)
  <2>1. Booked(Document[job[w]]) \in BOOLEAN
    BY DEF Booked
  <2>2. seen' \in [Workers -> BOOLEAN]
    BY <1>3, <2>1 DEF Find, IInv, TypeOK
  <2>3. \A v \in Workers : seen'[v] => seen[v] \/ (v = w /\ Booked(Document[job[w]]))
    BY <1>3 DEF Find, IInv, TypeOK
  <2> QED
    BY <1>1, <1>3, <2>2, <2>3, WorkerStep DEF IInv, TypeOK, Find, Steps
<1>4. CASE CommitFails(w)
  <2>1. faults' \in Nat /\ outages' \in Nat /\ retries' \in Nat
    BY <1>4 DEF IInv, TypeOK, CommitFails, Fault
  <2>2. step' = [step EXCEPT ![w] = "retry"]
    BY <1>4 DEF CommitFails
  <2>3. UNCHANGED <<queue, inbox, due, ledgerVars, job, seen, split, batch, paying, fixed, down>>
    BY <1>4 DEF CommitFails
  <2> QED
    BY <1>1, <2>1, <2>2, <2>3, WorkerStep DEF IInv, TypeOK, PostedIsBooked, Steps
<1> QED
  BY <1>2, <1>3, <1>4

LEMMA SettleIInv ==
    ASSUME IInv, NEW w \in Workers,
           WriteNothing(w) \/ WriteConflicts(w) \/ Flag(w) \/ ScheduleRetry(w)
    PROVE  IInv'
<1>1. job[w] \in Events /\ step[w] # "idle" /\ inbox[job[w]] # "ABSENT"
  BY DEF IInv, WorkerInv, WriteNothing, WriteConflicts, Flag, ScheduleRetry
<1>2. CASE WriteNothing(w)
  <2>1. job[w] \in Moneyless \/ Booked(Document[job[w]])
    BY <1>2 DEF WriteNothing, IInv, WorkerInv
  <2> QED
    BY <1>1, <1>2, <2>1, WorkerStep DEF IInv, TypeOK, WriteNothing, Posted, Steps, Statuses
<1>3. CASE WriteConflicts(w)
  BY <1>1, <1>3, WorkerStep DEF IInv, TypeOK, WriteConflicts, Steps
<1>4. CASE Flag(w)
  BY <1>1, <1>4, WorkerStep DEF IInv, TypeOK, Flag, PostedIsBooked, Steps, Statuses
<1>5. CASE ScheduleRetry(w)
  BY <1>1, <1>5, WorkerStep DEF IInv, TypeOK, ScheduleRetry, Steps
<1> QED
  BY <1>2, <1>3, <1>4, <1>5

(* The transaction that books a document.                                   *)
LEMMA WriteEntryIInv ==
    ASSUME IInv, NEW w \in Workers, WriteEntry(w)
    PROVE  IInv'
<1> DEFINE e == job[w]
           d == Document[e]
           row == [doc |-> d, by |-> e, split |-> split[w]]
           note == [doc |-> d, by |-> e]
<1>1. e \in Events /\ step[w] = "write" /\ inbox[e] # "ABSENT" /\ ~Booked(d)
  BY DEF IInv, WorkerInv, WriteEntry
<1>2. d \in Documents /\ split[w] \in Splits
  BY <1>1 DEF Documents, IInv, TypeOK
<1>3. /\ entries' = entries \cup {row}
      /\ bills' = IF Kind[e] = "receipt" THEN bills \cup {note} ELSE bills
      /\ facts' = IF Kind[e] \in {"sale", "return"} THEN facts \cup {note} ELSE facts
      /\ inbox' = [inbox EXCEPT ![e] = "POSTED"]
      /\ step' = [step EXCEPT ![w] = "done"]
      /\ UNCHANGED <<queue, due, payments, job, seen, split, batch, paying, fixed, down,
                     outages, retries, faults>>
  BY DEF WriteEntry, Posted
<1> HIDE DEF e, d
<1>4. TypeOK'
  <2>1. entries' \subseteq [doc : Documents, by : Events, split : Splits]
    BY <1>1, <1>2, <1>3 DEF IInv, TypeOK
  <2>2. bills' \subseteq [doc : Documents, by : Events]
    BY <1>1, <1>2, <1>3 DEF IInv, TypeOK
  <2>3. facts' \subseteq [doc : Documents, by : Events]
    BY <1>1, <1>2, <1>3 DEF IInv, TypeOK
  <2> QED
    BY <1>1, <1>3, <2>1, <2>2, <2>3 DEF IInv, TypeOK, Statuses, Steps
<1>5. \A c : Booked(c) => Booked(c)'
  BY <1>3 DEF Booked
<1>6. row \in entries' /\ row.doc = d /\ row.by = e
  BY <1>3
<1>7. LedgerInv'
  <2>1. \A x \in entries' : x.doc = Document[x.by]
    BY <1>3 DEF IInv, LedgerInv, d
  <2>2. \A b \in bills' : b.doc = Document[b.by] /\ Kind[b.by] = "receipt"
    BY <1>3 DEF IInv, LedgerInv, d
  <2>3. OneEntryPerDocument'
    BY <1>1, <1>3 DEF IInv, LedgerInv, OneEntryPerDocument, Booked
  <2>4. BooksAgree'
    <3>1. \A b \in bills' : \E x \in entries' : x.doc = b.doc /\ x.by = b.by
      <4>1. \A b \in bills : \E x \in entries : x.doc = b.doc /\ x.by = b.by
        BY DEF IInv, LedgerInv, BooksAgree
      <4>2. \A b \in bills' : b \in bills \/ (b.doc = d /\ b.by = e)
        BY <1>3
      <4> QED
        BY <1>3, <1>6, <4>1, <4>2
    <3>2. \A f \in facts' : \E x \in entries' : x.doc = f.doc /\ x.by = f.by
      <4>1. \A f \in facts : \E x \in entries : x.doc = f.doc /\ x.by = f.by
        BY DEF IInv, LedgerInv, BooksAgree
      <4>2. \A f \in facts' : f \in facts \/ (f.doc = d /\ f.by = e)
        BY <1>3
      <4> QED
        BY <1>3, <1>6, <4>1, <4>2
    <3>3. ASSUME NEW x \in entries
          PROVE  /\ Kind[x.by] = "receipt" <=> [doc |-> x.doc, by |-> x.by] \in bills'
                 /\ Kind[x.by] \in {"sale", "return"} <=> [doc |-> x.doc, by |-> x.by] \in facts'
      <4>1. [doc |-> x.doc, by |-> x.by] # note
        BY <1>1, <3>3 DEF Booked
      <4> QED
        BY <1>3, <3>3, <4>1 DEF IInv, LedgerInv, BooksAgree
    <3>4. note \notin bills /\ note \notin facts
      BY <1>1 DEF IInv, LedgerInv, BooksAgree, Booked
    <3>5. /\ Kind[row.by] = "receipt" <=> [doc |-> row.doc, by |-> row.by] \in bills'
          /\ Kind[row.by] \in {"sale", "return"} <=> [doc |-> row.doc, by |-> row.by] \in facts'
      BY <1>3, <3>4
    <3> QED
      BY <1>3, <2>3, <3>1, <3>2, <3>3, <3>5 DEF BooksAgree
  <2>5. PaidOnce'
    BY <1>3 DEF IInv, LedgerInv, PaidOnce
  <2> QED
    BY <2>1, <2>2, <2>3, <2>4, <2>5 DEF LedgerInv
<1>8. WorkerInv'
  <2> SUFFICES ASSUME NEW v \in Workers
               PROVE  /\ step'[v] # "idle" => job'[v] \in Events
                      /\ step'[v] \notin {"idle", "store"} => inbox'[job'[v]] # "ABSENT"
                      /\ step'[v] = "idle" => ~seen'[v]
                      /\ seen'[v] => Booked(Document[job[v]])'
    BY <1>3 DEF WorkerInv
  <2>1. CASE v = w
    BY <1>1, <1>3, <1>5, <2>1 DEF IInv, WorkerInv, TypeOK, e
  <2>2. CASE v # w
    BY <1>1, <1>3, <1>5, <2>2 DEF IInv, WorkerInv, TypeOK, e
  <2> QED
    BY <2>1, <2>2
<1>9. BatchInv' /\ PayerInv' /\ AckedIsStored'
  BY <1>1, <1>3 DEF IInv, TypeOK, BatchInv, PayerInv, AckedIsStored
<1>10. PostedIsBooked'
  <2> SUFFICES ASSUME NEW f \in Events, inbox'[f] = "POSTED", f \notin Moneyless
               PROVE  \E x \in entries' : x.doc = Document[f]
    BY DEF PostedIsBooked, Booked
  <2>1. CASE f = e
    BY <1>6, <2>1 DEF d
  <2>2. CASE f # e
    BY <1>1, <1>3, <2>2 DEF IInv, TypeOK, PostedIsBooked, Booked
  <2> QED
    BY <2>1, <2>2
<1> QED
  BY <1>4, <1>7, <1>8, <1>9, <1>10 DEF IInv

-----------------------------------------------------------------------------
(* Picking up, ending and losing work.                                      *)

Messages == [state : {"none", "queued", "inflight", "acked", "dropped"},
             redelivered : BOOLEAN, holder : Workers \cup {"nobody"}]

LEMMA MessageTypes ==
    ASSUME TypeOK
    PROVE  /\ queue \in [Events -> Messages]
           /\ \A m \in Messages : Requeued(m) \in Messages /\ Nacked(m) \in Messages
           /\ Unacked \in [Events -> Messages]
BY DEF TypeOK, Messages, Requeued, Nacked, Unacked

(* Workers that stop, or pick up a stored event, keep the invariant.        *)
LEMMA HandOver ==
    ASSUME IInv,
           job' \in [Workers -> Events \cup {"nobody"}],
           step' \in [Workers -> Steps],
           seen' \in [Workers -> BOOLEAN],
           split' \in [Workers -> Splits],
           batch' \subseteq batch,
           queue' \in [Events -> Messages],
           \A w \in Workers :
               \/ UNCHANGED <<job[w], step[w], seen[w]>>
               \/ step'[w] = "idle" /\ ~seen'[w]
               \/ /\ job'[w] \in Events /\ ~seen'[w]
                  /\ step'[w] = "store" \/ inbox[job'[w]] # "ABSENT",
           \A e \in Events : queue'[e].state = "acked" => inbox[e] # "ABSENT",
           outages' \in Nat, retries' \in Nat, faults' \in Nat,
           UNCHANGED <<inbox, due, ledgerVars, paying, fixed, down>>
    PROVE  IInv'
<1>1. TypeOK'
  <2>1. batch' \subseteq Events
    BY DEF IInv, TypeOK
  <2> QED
    BY <2>1 DEF IInv, TypeOK, Messages
<1>2. LedgerInv' /\ \A d : Booked(d)' = Booked(d)
  BY LedgerSame DEF IInv
<1>3. WorkerInv'
  <2> SUFFICES ASSUME NEW w \in Workers
               PROVE  /\ step'[w] # "idle" => job'[w] \in Events
                      /\ step'[w] \notin {"idle", "store"} => inbox[job'[w]] # "ABSENT"
                      /\ step'[w] = "idle" => ~seen'[w]
                      /\ seen'[w] => \E x \in entries : x.doc = Document[job'[w]]
    BY DEF WorkerInv, Booked
  <2>1. CASE UNCHANGED <<job[w], step[w], seen[w]>>
    BY <2>1 DEF IInv, WorkerInv, Booked
  <2>2. CASE step'[w] = "idle" /\ ~seen'[w]
    BY <2>2
  <2>3. CASE /\ job'[w] \in Events /\ ~seen'[w]
             /\ step'[w] = "store" \/ inbox[job'[w]] # "ABSENT"
    BY <2>3
  <2> QED
    BY <2>1, <2>2, <2>3
<1>4. BatchInv' /\ AckedIsStored' /\ PayerInv'
  BY DEF IInv, BatchInv, AckedIsStored, PayerInv
<1>5. PostedIsBooked'
  BY <1>2 DEF IInv, PostedIsBooked
<1> QED
  BY <1>1, <1>2, <1>3, <1>4, <1>5 DEF IInv

LEMMA EndIInv ==
    ASSUME IInv, NEW w \in Workers, Finish(w) \/ Throws(w)
    PROVE  IInv'
<1>1. /\ job' = [job EXCEPT ![w] = "nobody"]
      /\ step' = [step EXCEPT ![w] = "idle"]
      /\ seen' = [seen EXCEPT ![w] = FALSE]
      /\ split' = [split EXCEPT ![w] = "none"]
      /\ UNCHANGED <<inbox, due, ledgerVars, paying, fixed, down>>
  BY DEF Finish, Throws, Idle
<1>2. /\ job' \in [Workers -> Events \cup {"nobody"}]
      /\ step' \in [Workers -> Steps]
      /\ seen' \in [Workers -> BOOLEAN]
      /\ split' \in [Workers -> Splits]
  BY <1>1 DEF IInv, TypeOK, Steps, Splits
<1>3. \A v \in Workers :
        UNCHANGED <<job[v], step[v], seen[v]>> \/ (step'[v] = "idle" /\ ~seen'[v])
  BY <1>1 DEF IInv, TypeOK
<1>4. outages' \in Nat /\ retries' \in Nat /\ faults' \in Nat
  BY DEF IInv, TypeOK, Finish, Throws, Fault
<1>5. batch' \subseteq batch
  BY DEF Finish, Throws
<1>6. CASE Finish(w)
  <2>1. job[w] \in Events /\ inbox[job[w]] # "ABSENT"
    BY <1>6 DEF IInv, WorkerInv, Finish
  <2>2. queue' \in [Events -> Messages]
    BY <1>6, MessageTypes DEF IInv, Finish, Messages
  <2>3. \A e \in Events : queue'[e].state = "acked" => inbox[e] # "ABSENT"
    BY <1>6, <2>1, MessageTypes DEF IInv, AckedIsStored, Finish
  <2> QED
    BY <1>1, <1>2, <1>3, <1>4, <1>5, <2>2, <2>3, HandOver
<1>7. CASE Throws(w)
  <2>1. queue' \in [Events -> Messages]
    BY <1>7, MessageTypes DEF IInv, Throws
  <2>2. \A e \in Events : queue'[e].state = "acked" => inbox[e] # "ABSENT"
    BY <1>7, MessageTypes DEF IInv, AckedIsStored, Throws, Nacked, Requeued
  <2> QED
    BY <1>1, <1>2, <1>3, <1>4, <1>5, <2>1, <2>2, HandOver
<1> QED
  BY <1>6, <1>7

LEMMA LossIInv ==
    ASSUME IInv, ChannelLost \/ Crash
    PROVE  IInv'
<1>1. queue' = Unacked /\ UNCHANGED <<inbox, due, ledgerVars, fixed, down>>
  BY DEF ChannelLost, Crash
<1>2. queue' \in [Events -> Messages]
  BY <1>1, MessageTypes DEF IInv
<1>3. \A e \in Events : queue'[e].state = "acked" => inbox[e] # "ABSENT"
  BY <1>1, MessageTypes DEF IInv, AckedIsStored, Unacked, Requeued
<1>4. outages' \in Nat /\ retries' \in Nat /\ faults' \in Nat
  BY DEF IInv, TypeOK, ChannelLost, Crash, Fault
<1>5. CASE ChannelLost
  BY <1>1, <1>2, <1>3, <1>4, <1>5, HandOver DEF IInv, TypeOK, ChannelLost
<1>6. CASE Crash
  <2>1. TypeOK'
    BY <1>1, <1>2, <1>4, <1>6 DEF IInv, TypeOK, Crash, Messages, Steps, Splits
  <2>2. LedgerInv' /\ \A d : Booked(d)' = Booked(d)
    BY <1>1, LedgerSame DEF IInv
  <2>3. WorkerInv' /\ BatchInv' /\ PayerInv' /\ AckedIsStored'
    BY <1>1, <1>3, <1>6 DEF Crash, WorkerInv, BatchInv, PayerInv, AckedIsStored
  <2>4. PostedIsBooked'
    BY <1>1, <2>2 DEF IInv, PostedIsBooked
  <2> QED
    BY <2>1, <2>2, <2>3, <2>4 DEF IInv
<1> QED
  BY <1>5, <1>6

LEMMA PickUpIInv ==
    ASSUME IInv,
           \/ \E e \in Events : Publish(e)
           \/ \E w \in Slots, e \in Events : Deliver(w, e)
           \/ SweepNext
           \/ \E w \in Clerks, e \in Events : PressRetry(w, e)
    PROVE  IInv'
<1> USE MessageTypes
<1>1. CASE \E e \in Events : Publish(e)
  <2> PICK e \in Events : Publish(e)
    BY <1>1
  <2>1. queue' \in [Events -> Messages]
    BY DEF IInv, Publish, Messages
  <2>2. \A f \in Events : queue'[f].state = "acked" => inbox[f] # "ABSENT"
    BY DEF IInv, Publish, AckedIsStored, Messages
  <2> QED
    BY <2>1, <2>2, HandOver DEF IInv, TypeOK, Publish
<1>2. CASE \E w \in Slots, e \in Events : Deliver(w, e)
  <2> PICK w \in Slots, e \in Events : Deliver(w, e)
    BY <1>2
  <2>1. w \in Workers /\ ~seen[w]
    BY DEF Workers, IInv, WorkerInv, Deliver
  <2>2. queue' \in [Events -> Messages]
    BY <2>1 DEF IInv, Deliver, Messages
  <2>3. \A f \in Events : queue'[f].state = "acked" => inbox[f] # "ABSENT"
    BY DEF IInv, Deliver, AckedIsStored, Messages
  <2>4. /\ job' \in [Workers -> Events \cup {"nobody"}]
        /\ step' \in [Workers -> Steps]
    BY DEF IInv, TypeOK, Deliver, Steps
  <2>5. \A v \in Workers :
          \/ UNCHANGED <<job[v], step[v], seen[v]>>
          \/ job'[v] \in Events /\ ~seen'[v] /\ step'[v] = "store"
    BY <2>1 DEF IInv, TypeOK, Deliver
  <2> QED
    BY <2>2, <2>3, <2>4, <2>5, HandOver DEF IInv, TypeOK, Deliver
<1>3. CASE SweepNext
  <2>1. Sweep \in Workers /\ ~seen[Sweep]
    BY <1>3 DEF Workers, IInv, WorkerInv, SweepNext
  <2> PICK e \in batch : batch' = batch \ {e} /\ job' = [job EXCEPT ![Sweep] = e]
    BY <1>3 DEF SweepNext
  <2>2. e \in Events /\ inbox[e] # "ABSENT"
    BY DEF IInv, TypeOK, BatchInv
  <2>3. step' = [step EXCEPT ![Sweep] = "read"]
        /\ UNCHANGED <<queue, inbox, due, ledgerVars, seen, split, paying, fixed, down, boundVars>>
    BY <1>3 DEF SweepNext
  <2>4. /\ job' \in [Workers -> Events \cup {"nobody"}]
        /\ step' \in [Workers -> Steps]
    BY <2>2, <2>3 DEF IInv, TypeOK, Steps
  <2>5. \A v \in Workers :
          \/ UNCHANGED <<job[v], step[v], seen[v]>>
          \/ job'[v] \in Events /\ ~seen'[v] /\ inbox[job'[v]] # "ABSENT"
    BY <2>1, <2>2, <2>3 DEF IInv, TypeOK
  <2> QED
    BY <2>3, <2>4, <2>5, HandOver DEF IInv, TypeOK, AckedIsStored
<1>4. CASE \E w \in Clerks, e \in Events : PressRetry(w, e)
  <2> PICK w \in Clerks, e \in Events : PressRetry(w, e)
    BY <1>4
  <2>1. w \in Workers /\ ~seen[w] /\ inbox[e] # "ABSENT"
    BY DEF Workers, IInv, WorkerInv, PressRetry
  <2>2. /\ job' \in [Workers -> Events \cup {"nobody"}]
        /\ step' \in [Workers -> Steps]
    BY DEF IInv, TypeOK, PressRetry, Steps
  <2>3. \A v \in Workers :
          \/ UNCHANGED <<job[v], step[v], seen[v]>>
          \/ job'[v] \in Events /\ ~seen'[v] /\ inbox[job'[v]] # "ABSENT"
    BY <2>1 DEF IInv, TypeOK, PressRetry
  <2>4. retries' \in Nat
    BY DEF IInv, TypeOK, PressRetry
  <2> QED
    BY <2>2, <2>3, <2>4, HandOver DEF IInv, TypeOK, PressRetry, AckedIsStored
<1> QED
  BY <1>1, <1>2, <1>3, <1>4

(* Steps no worker takes part in.                                           *)
LEMMA SurroundingsIInv ==
    ASSUME IInv,
           StartSweep \/ GoDown \/ ComeBack \/ \E e \in Events : Elapse(e) \/ Fix(e)
    PROVE  IInv'
<1>1. UNCHANGED <<queue, inbox, ledgerVars, workVars, paying>>
  BY DEF StartSweep, GoDown, ComeBack, Elapse, Fix
<1>2. TypeOK'
  <2>1. CASE StartSweep
    BY <2>1 DEF IInv, TypeOK, StartSweep, DueEvents
  <2>2. CASE GoDown \/ ComeBack
    <3>1. outages \in Nat /\ (outages' = outages \/ outages' = outages + 1)
      BY <2>2 DEF IInv, TypeOK, GoDown, ComeBack
    <3>2. UNCHANGED <<queue, inbox, due, ledgerVars, workVars, batch, paying, fixed, retries, faults>>
      BY <2>2 DEF GoDown, ComeBack
    <3>3. down' \in BOOLEAN
      BY <2>2 DEF GoDown, ComeBack
    <3> QED
      BY <3>1, <3>2, <3>3 DEF IInv, TypeOK
  <2>3. CASE \E e \in Events : Elapse(e)
    BY <2>3 DEF IInv, TypeOK, Elapse
  <2>4. CASE \E e \in Events : Fix(e)
    BY <2>4 DEF IInv, TypeOK, Fix
  <2> QED
    BY <2>1, <2>2, <2>3, <2>4
<1>3. LedgerInv' /\ \A d : Booked(d)' = Booked(d)
  BY <1>1, LedgerSame DEF IInv
<1>4. BatchInv'
  BY <1>1 DEF IInv, BatchInv, StartSweep, DueEvents, GoDown, ComeBack, Elapse, Fix
<1>5. WorkerInv'
  BY <1>1 DEF IInv, WorkerInv, Booked
<1>6. PostedIsBooked'
  BY <1>1, <1>3 DEF IInv, PostedIsBooked
<1>7. PayerInv' /\ AckedIsStored'
  BY <1>1 DEF IInv, PayerInv, AckedIsStored
<1> QED
  BY <1>2, <1>3, <1>4, <1>5, <1>6, <1>7 DEF IInv

LEMMA PayIInv ==
    ASSUME IInv, NEW p \in Payers, FindOpenBill(p) \/ PayBill(p)
    PROVE  IInv'
<1>1. UNCHANGED <<queue, inbox, due, entries, bills, facts, workVars, batch, fixed, down, boundVars>>
  BY DEF FindOpenBill, PayBill
<1>2. CASE FindOpenBill(p)
  <2> PICK b \in bills : ~Paid(b.doc) /\ paying' = [paying EXCEPT ![p] = b.doc]
    BY <1>2 DEF FindOpenBill
  <2>1. TypeOK'
    <3>1. b.doc \in Documents
      BY DEF IInv, TypeOK
    <3>2. paying' \in [Payers -> Documents \cup {"nobody"}]
      BY <3>1 DEF IInv, TypeOK
    <3>3. payments' = payments
      BY <1>2 DEF FindOpenBill
    <3> QED
      BY <1>1, <3>2, <3>3 DEF IInv, TypeOK
  <2>2. LedgerInv' /\ PayerInv'
    BY <1>1, <1>2, LedgerSame DEF IInv, TypeOK, PayerInv, FindOpenBill
  <2> QED
    BY <1>1, <2>1, <2>2 DEF IInv, WorkerInv, BatchInv, PostedIsBooked, AckedIsStored, Booked
<1>3. CASE PayBill(p)
  <2>1. PICK b \in bills : b.doc = paying[p]
    BY <1>3 DEF IInv, PayerInv, PayBill
  <2>2. payments' = payments \/
        (~Paid(paying[p]) /\ payments' = payments \cup {[doc |-> paying[p], by |-> p]})
    BY <1>3 DEF PayBill
  <2>3. TypeOK'
    <3>1. paying[p] \in Documents
      BY <2>1 DEF IInv, TypeOK
    <3>2. payments' \subseteq [doc : Documents, by : Payers]
      BY <2>2, <3>1 DEF IInv, TypeOK
    <3>3. paying' \in [Payers -> Documents \cup {"nobody"}]
      BY <1>3 DEF IInv, TypeOK, PayBill
    <3> QED
      BY <1>1, <3>2, <3>3 DEF IInv, TypeOK
  <2>4. PaidOnce'
    BY <1>1, <2>1, <2>2 DEF IInv, LedgerInv, PaidOnce, Paid
  <2>5. LedgerInv'
    BY <1>1, <2>4 DEF IInv, LedgerInv, OneEntryPerDocument, BooksAgree
  <2>6. PayerInv'
    BY <1>1, <1>3 DEF IInv, TypeOK, PayerInv, PayBill
  <2> QED
    BY <1>1, <2>3, <2>5, <2>6 DEF IInv, WorkerInv, BatchInv, PostedIsBooked, AckedIsStored, Booked
<1> QED
  BY <1>2, <1>3

-----------------------------------------------------------------------------
(* The theorems.                                                            *)

LEMMA StepIInv == IInv /\ [Next]_vars => IInv'
<1> SUFFICES ASSUME IInv, [Next]_vars PROVE IInv'
  OBVIOUS
<1>1. CASE UNCHANGED vars
  <2>1. TypeOK' /\ PayerInv' /\ BatchInv' /\ AckedIsStored'
    BY <1>1 DEF vars, IInv, TypeOK, PayerInv, BatchInv, AckedIsStored
  <2>2. LedgerInv' /\ WorkerInv' /\ PostedIsBooked'
    BY <1>1, LedgerSame DEF vars, IInv, WorkerInv, PostedIsBooked, Booked
  <2> QED
    BY <2>1, <2>2 DEF IInv
<1>2. CASE \E w \in Workers : Work(w) \/ CommitFails(w) \/ Throws(w)
  <2> PICK w \in Workers : Work(w) \/ CommitFails(w) \/ Throws(w)
    BY <1>2
  <2> QED
    BY ReadingIInv, PlanIInv, SettleIInv, WriteEntryIInv, EndIInv DEF Work
<1>3. CASE ~\E w \in Workers : Work(w) \/ CommitFails(w) \/ Throws(w)
  <2>1. CASE Next
    BY <1>3, <2>1, PickUpIInv, SurroundingsIInv, PayIInv, LossIInv DEF Next
  <2> QED
    BY <1>1, <2>1
<1> QED
  BY <1>2, <1>3

(* The tables and what the workers remember agree in every reachable state  *)
(* of the inbox.                                                            *)
THEOREM Invariant == Spec => []IInv
BY InitIInv, StepIInv, PTL DEF Spec

(* Every variable has its type.                                             *)
THEOREM TypeCorrect == Spec => []TypeOK
<1>1. IInv => TypeOK
  BY DEF IInv
<1> QED
  BY <1>1, Invariant, PTL

(* No document is booked twice, by however many workers and events.         *)
THEOREM BookedOnce == Spec => []OneEntryPerDocument
<1>1. IInv => OneEntryPerDocument
  BY DEF IInv, LedgerInv
<1> QED
  BY <1>1, Invariant, PTL

(* Bills and facts come with their entry, from the same event.              *)
THEOREM BooksAlwaysAgree == Spec => []BooksAgree
<1>1. IInv => BooksAgree
  BY DEF IInv, LedgerInv
<1> QED
  BY <1>1, Invariant, PTL

(* POSTED is never claimed for money that is not in the ledger.             *)
THEOREM PostedMeansBooked == Spec => []PostedIsBooked
<1>1. IInv => PostedIsBooked
  BY DEF IInv
<1> QED
  BY <1>1, Invariant, PTL

(* A message is acknowledged only when its event is stored.                 *)
THEOREM AckedMeansStored == Spec => []AckedIsStored
<1>1. IInv => AckedIsStored
  BY DEF IInv
<1> QED
  BY <1>1, Invariant, PTL

(* A bill is paid at most once, and only if it was booked.                  *)
THEOREM BillsPaidOnce == Spec => []PaidOnce
<1>1. IInv => PaidOnce
  BY DEF IInv, LedgerInv
<1> QED
  BY <1>1, Invariant, PTL

-----------------------------------------------------------------------------
(* The refinement: a step of the inbox is a booking, a payment or nothing.  *)

bookBar == [d \in Documents |-> BookOf(d)]
payerBar == [d \in Documents |-> PayerOf(d)]

LEMMA LedgerStart == Init => Ledger!BooksInit
BY DEF Init, Ledger!BooksInit, BookOf, PayerOf, Booked, Paid

(* Rows that did not change name the same bookers and payers.               *)
LEMMA LedgerStutter ==
    ASSUME UNCHANGED <<entries, payments>>
    PROVE  bookBar' = bookBar /\ payerBar' = payerBar
BY DEF bookBar, payerBar, BookOf, PayerOf, Booked, Paid

LEMMA BookingStep ==
    ASSUME IInv, NEW w \in Workers, WriteEntry(w)
    PROVE  Ledger!BooksNext
<1> DEFINE e == job[w]
           d == Document[e]
           row == [doc |-> d, by |-> e, split |-> split[w]]
<1>1. e \in Events /\ ~Booked(d)
  BY DEF IInv, WorkerInv, WriteEntry
<1>2. d \in Documents
  BY <1>1 DEF Documents
<1>3. entries' = entries \cup {row} /\ payments' = payments
  BY DEF WriteEntry, Posted
<1> HIDE DEF d, e
<1>4. \A c \in Documents : BookOf(c)' = IF c = d THEN e ELSE BookOf(c)
  <2> TAKE c \in Documents
  <2>1. CASE c = d
    <3>1. row \in entries' /\ row.doc = c
      BY <1>3, <2>1
    <3>2. \A x \in entries' : x.doc = c => x = row
      BY <1>1, <1>3, <2>1 DEF Booked
    <3>3. (CHOOSE x \in entries' : x.doc = c) = row
      BY <3>1, <3>2
    <3>4. BookOf(c)' = IF \E x \in entries' : x.doc = c
                      THEN (CHOOSE x \in entries' : x.doc = c).by ELSE "nobody"
      BY DEF BookOf, Booked
    <3>5. BookOf(c)' = row.by
      BY <3>1, <3>3, <3>4
    <3> QED
      BY <2>1, <3>5
  <2>2. CASE c # d
    <3>1. \A x : (x \in entries' /\ x.doc = c) <=> (x \in entries /\ x.doc = c)
      BY <1>3, <2>2
    <3>2. (CHOOSE x \in entries' : x.doc = c) = (CHOOSE x \in entries : x.doc = c)
      BY <3>1
    <3>3. (\E x \in entries' : x.doc = c) <=> \E x \in entries : x.doc = c
      BY <3>1
    <3>4. BookOf(c)' = IF \E x \in entries' : x.doc = c
                      THEN (CHOOSE x \in entries' : x.doc = c).by ELSE "nobody"
      BY DEF BookOf, Booked
    <3>5. BookOf(c) = IF \E x \in entries : x.doc = c
                      THEN (CHOOSE x \in entries : x.doc = c).by ELSE "nobody"
      BY DEF BookOf, Booked
    <3> QED
      BY ONLY <2>2, <3>2, <3>3, <3>4, <3>5
  <2> QED
    BY <2>1, <2>2
<1>5. bookBar' = [bookBar EXCEPT ![d] = e]
  BY <1>2, <1>4 DEF bookBar
<1>6. bookBar[d] = "nobody"
  BY <1>1, <1>2 DEF bookBar, BookOf
<1>7. payerBar' = payerBar
  BY <1>3 DEF payerBar, PayerOf, Paid
<1>8. Ledger!BookIt(d, e)
  BY <1>5, <1>6, <1>7 DEF Ledger!BookIt, bookBar, payerBar
<1> QED
  BY <1>1, <1>2, <1>8 DEF Ledger!BooksNext

LEMMA PayingStep ==
    ASSUME IInv, NEW p \in Payers, PayBill(p)
    PROVE  Ledger!BooksNext \/ UNCHANGED <<entries, payments>>
<1> DEFINE d == paying[p]
           row == [doc |-> d, by |-> p]
<1>1. CASE Paid(d)
  BY <1>1 DEF PayBill
<1>2. CASE ~Paid(d)
  <2>1. payments' = payments \cup {row} /\ entries' = entries
    BY <1>2 DEF PayBill
  <2>2. PICK b \in bills : b.doc = d
    BY DEF IInv, PayerInv, PayBill
  <2>3. d \in Documents /\ d \in {Document[e] : e \in {f \in Events : Kind[f] = "receipt"}}
    BY <2>2 DEF IInv, TypeOK, LedgerInv
  <2>4. PICK x \in entries : x.doc = d
    BY <2>2 DEF IInv, LedgerInv, BooksAgree
  <2> HIDE DEF d
  <2>5. BookOf(d) # "nobody"
    <3>1. (CHOOSE y \in entries : y.doc = d) \in entries
      BY <2>4
    <3>2. BookOf(d) \in Events
      BY <2>4, <3>1 DEF BookOf, Booked, IInv, TypeOK
    <3> QED
      BY <3>2, WorkerAssumption
  <2>6. \A c \in Documents : PayerOf(c)' = IF c = d THEN p ELSE PayerOf(c)
    <3> TAKE c \in Documents
    <3>1. CASE c = d
      <4>1. row \in payments' /\ row.doc = c
        BY <2>1, <3>1
      <4>2. \A y \in payments' : y.doc = c => y = row
        BY <1>2, <2>1, <3>1 DEF Paid
      <4>3. (CHOOSE y \in payments' : y.doc = c) = row
        BY <4>1, <4>2
      <4>4. PayerOf(c)' = IF \E y \in payments' : y.doc = c
                          THEN (CHOOSE y \in payments' : y.doc = c).by ELSE "nobody"
        BY DEF PayerOf, Paid
      <4>5. PayerOf(c)' = row.by
        BY <4>1, <4>3, <4>4
      <4> QED
        BY <3>1, <4>5
    <3>2. CASE c # d
      <4>1. \A y : (y \in payments' /\ y.doc = c) <=> (y \in payments /\ y.doc = c)
        BY <2>1, <3>2
      <4>2. (CHOOSE y \in payments' : y.doc = c) = (CHOOSE y \in payments : y.doc = c)
        BY <4>1
      <4>3. (\E y \in payments' : y.doc = c) <=> \E y \in payments : y.doc = c
        BY <4>1
      <4>4. PayerOf(c)' = IF \E y \in payments' : y.doc = c
                          THEN (CHOOSE y \in payments' : y.doc = c).by ELSE "nobody"
        BY DEF PayerOf, Paid
      <4>5. PayerOf(c) = IF \E y \in payments : y.doc = c
                         THEN (CHOOSE y \in payments : y.doc = c).by ELSE "nobody"
        BY DEF PayerOf, Paid
      <4> QED
        BY ONLY <3>2, <4>2, <4>3, <4>4, <4>5
    <3> QED
      BY <3>1, <3>2
  <2>7. payerBar' = [payerBar EXCEPT ![d] = p]
    BY <2>3, <2>6 DEF payerBar
  <2>8. payerBar[d] = "nobody" /\ bookBar[d] # "nobody"
    BY <1>2, <2>3, <2>5 DEF payerBar, bookBar, PayerOf
  <2>9. bookBar' = bookBar
    BY <2>1 DEF bookBar, BookOf, Booked
  <2>10. Ledger!PayIt(d, p)
    BY <2>3, <2>7, <2>8, <2>9 DEF Ledger!PayIt, bookBar, payerBar
  <2> QED
    BY <2>3, <2>10 DEF Ledger!BooksNext
<1> QED
  BY <1>1, <1>2

LEMMA LedgerStep == IInv /\ [Next]_vars => [Ledger!BooksNext]_(Ledger!booksVars)
<1> SUFFICES ASSUME IInv, [Next]_vars
             PROVE  Ledger!BooksNext \/ UNCHANGED Ledger!booksVars
  OBVIOUS
<1>1. ASSUME UNCHANGED <<entries, payments>> PROVE UNCHANGED Ledger!booksVars
  BY <1>1, LedgerStutter DEF Ledger!booksVars, bookBar, payerBar
<1>2. CASE \E w \in Workers : WriteEntry(w)
  BY <1>2, BookingStep
<1>3. CASE \E p \in Payers : PayBill(p)
  BY <1>1, <1>3, PayingStep
<1>4. CASE (~\E w \in Workers : WriteEntry(w)) /\ ~\E p \in Payers : PayBill(p)
  <2>1. UNCHANGED <<entries, payments>>
    BY <1>4 DEF Next, Work, vars, Publish, Elapse, Fix, Deliver, Store, Requeue, Read, PlanFails,
                PlanRejects, Plan, Find, WriteNothing, Posted, WriteConflicts, Flag,
                ScheduleRetry, Finish, CommitFails, Throws, StartSweep, SweepNext, PressRetry,
                FindOpenBill, GoDown, ComeBack, ChannelLost, Crash
  <2> QED
    BY <1>1, <2>1
<1> QED
  BY <1>2, <1>3, <1>4

(* The inbox, its concurrent workers, the redeliveries and the restarts     *)
(* implement books that are kept in one step per document.                  *)
THEOREM ImplementsBooks == Spec => BooksSpec
BY Invariant, LedgerStart, LedgerStep, PTL DEF Spec, BooksSpec, Ledger!BooksSpec
=============================================================================
