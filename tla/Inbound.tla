------------------------------- MODULE Inbound -------------------------------
(* Goods on their way in: Procurement (PurchaseOrders.tla) and Receiving    *)
(* (GoodsReceivedNotes.tla), joined by Receiving's call to Procurement and  *)
(* by two queues of the event bus: PurchaseOrderApproved to Receiving and   *)
(* GoodsReceived to Procurement.  Queues have no prefetch, so handlers of   *)
(* one queue overlap; handlers may fail, services restart, channels close.  *)
EXTENDS GoodsReceivedNotes, Functions

CONSTANTS
    FaultKinds,    \* faults that may happen, a subset of AllFaults
    MaxFaults      \* bound: how many

AllFaults == {"db", "channel", "crash"}
ASSUME InboundAssumption ==
    /\ FaultKinds \subseteq AllFaults
    /\ MaxFaults \in Nat

VARIABLES
    mail,          \* mail[m]: the state of message m in its queue
    faults         \* faults so far

vars == <<procurementVars, receivingVars, mail, faults>>

Services == {"procurement", "receiving"}
Messages == ({"receiving"} \X Orders) \cup ({"procurement"} \X Receipts)
NoMail == [state |-> "none", redelivered |-> FALSE, holder |-> <<>>]

TypeOK ==
    /\ ProcurementTypeOK
    /\ ReceivingTypeOK
    /\ mail \in [Messages -> [state : {"none", "queued", "inflight", "acked", "dropped"},
                              redelivered : BOOLEAN, holder : {<<>>} \cup {<<w>> : w \in Slots}]]
    /\ faults \in Nat

Init ==
    /\ ProcurementInit
    /\ ReceivingInit
    /\ mail = [m \in Messages |-> NoMail]
    /\ faults = 0

Fault(kind) ==
    /\ kind \in FaultKinds
    /\ faults < MaxFaults
    /\ faults' = faults + 1

-----------------------------------------------------------------------------
(* Requests to Procurement and to Receiving.                                *)

Queued == [state |-> "queued", redelivered |-> FALSE, holder |-> <<>>]

(* An order approved twice announces itself in one message.                 *)
PublishApproval(b) ==
    /\ desk[b].op = "publish"
    /\ mail' = [mail EXCEPT ![<<"receiving", desk[b].order[1]>>] = Queued]
    /\ desk' = [desk EXCEPT ![b] = NoDesk]
    /\ UNCHANGED <<order, processed, intake, receivingVars, faults>>

Office(b) ==
    /\ \/ \E o \in Orders : Draft(b, o)
       \/ \E o \in Orders, op \in {"submit", "approve", "send"} : CheckOrder(b, o, op)
       \/ WriteOrder(b)
    /\ UNCHANGED <<receivingVars, mail, faults>>

Announce(k) ==
    LET r == <<dock[k].note[1], k>> IN
    /\ FinalizePublish(k)
    /\ mail' = [mail EXCEPT ![<<"procurement", r>>] = Queued]
    /\ UNCHANGED <<procurementVars, faults>>

Unload(k) ==
    /\ \/ \E o \in Orders : AskProcurement(k, o)
       \/ FindExpected(k) \/ SeedExpected(k)
       \/ \E n \in Notes : \/ InsertNote(k, n)
                           \/ FinalizeRead(k, n)
                           \/ \E scan \in Scannable : ScanRead(k, n, scan)
       \/ ScanUpsert(k) \/ FinalizeTotal(k) \/ FinalizeCommit(k)
    /\ UNCHANGED <<procurementVars, mail, faults>>

-----------------------------------------------------------------------------
(* The queues.                                                              *)

OrderOf(r) == note[r[1]].order[1]

Requeued == [state |-> "queued", redelivered |-> TRUE, holder |-> <<>>]
Settled(state) == [state |-> state, redelivered |-> FALSE, holder |-> <<>>]

Take(m, w) ==
    /\ mail[m].state = "queued"
    /\ mail' = [mail EXCEPT ![m] = [state |-> "inflight", redelivered |-> @.redelivered, holder |-> <<w>>]]

Deliver(w) ==
    /\ \/ \E o \in Orders :
             /\ Take(<<"receiving", o>>, w)
             /\ awaiting[w] = NoAwaiting
             /\ awaiting' = [awaiting EXCEPT ![w] = [step |-> "find", order |-> <<o>>]]
             /\ UNCHANGED intake
       \/ \E r \in Receipts :
             /\ Take(<<"procurement", r>>, w)
             /\ intake[w] = NoIntake
             /\ intake' = [intake EXCEPT ![w] = [NoIntake EXCEPT !.step = "read", !.receipt = r]]
             /\ UNCHANGED awaiting
    /\ UNCHANGED <<order, processed, desk, expected, note, dock, event, scans, twice, faults>>

(* The handler in slot w is done with message m: the broker is told, if it  *)
(* still waits for that handler.                                            *)
Settle(m, w, outcome) ==
    mail' = IF mail[m].holder = <<w>> THEN [mail EXCEPT ![m] = outcome] ELSE mail

(* nack: requeued the first time, dropped the second.                       *)
Refused(m) == IF mail[m].redelivered THEN Settled("dropped") ELSE Requeued

Ack(w) ==
    /\ \/ /\ awaiting[w].step = "done"
          /\ Settle(<<"receiving", awaiting[w].order[1]>>, w, Settled("acked"))
          /\ awaiting' = [awaiting EXCEPT ![w] = NoAwaiting]
          /\ UNCHANGED intake
       \/ /\ intake[w].step = "done"
          /\ Settle(<<"procurement", intake[w].receipt>>, w, Settled("acked"))
          /\ intake' = [intake EXCEPT ![w] = NoIntake]
          /\ UNCHANGED awaiting
    /\ UNCHANGED <<order, processed, desk, expected, note, dock, event, scans, twice, faults>>

(* The unique constraint on poNumber throws out of the handler.             *)
Conflict(w) ==
    LET m == <<"receiving", awaiting[w].order[1]>> IN
    /\ awaiting[w].step = "failed"
    /\ Settle(m, w, Refused(m))
    /\ awaiting' = [awaiting EXCEPT ![w] = NoAwaiting]
    /\ UNCHANGED <<procurementVars, expected, note, dock, event, scans, twice, faults>>

Handle(w) ==
    \/ /\ AwaitFind(w) \/ AwaitCreate(w)
       /\ UNCHANGED <<procurementVars, mail, faults>>
    \/ /\ \/ intake[w].step # "idle" /\ ApplyRead(w, OrderOf(intake[w].receipt))
          \/ ApplySkip(w)
          \/ /\ intake[w].step # "idle"
             /\ ApplyWrite(w, OrderOf(intake[w].receipt), Arrived(event[intake[w].receipt]))
       /\ UNCHANGED <<receivingVars, mail, faults>>
    \/ Conflict(w)
    \/ Ack(w)

-----------------------------------------------------------------------------
(* Failures.                                                                *)

(* A statement of a handler is refused by the database.                     *)
Throws(w) ==
    /\ Fault("db")
    /\ \/ /\ intake[w].step \in {"read", "write"}
          /\ LET m == <<"procurement", intake[w].receipt>> IN Settle(m, w, Refused(m))
          /\ intake' = [intake EXCEPT ![w] = NoIntake]
          /\ UNCHANGED awaiting
       \/ /\ awaiting[w].step \in {"find", "create"}
          /\ LET m == <<"receiving", awaiting[w].order[1]>> IN Settle(m, w, Refused(m))
          /\ awaiting' = [awaiting EXCEPT ![w] = NoAwaiting]
          /\ UNCHANGED intake
    /\ UNCHANGED <<order, processed, desk, expected, note, dock, event, scans, twice>>

BackToQueue(service) ==
    mail' = [m \in Messages |-> IF m[1] = service /\ mail[m].state = "inflight"
                                THEN Requeued ELSE mail[m]]

(* The channel of a service closes; its handlers keep running.              *)
ChannelLost(service) ==
    /\ \E m \in Messages : m[1] = service /\ mail[m].state = "inflight"
    /\ Fault("channel")
    /\ BackToQueue(service)
    /\ UNCHANGED <<procurementVars, receivingVars>>

(* A service restarts: its requests and handlers are gone.                  *)
Crash(service) ==
    /\ Fault("crash")
    /\ BackToQueue(service)
    /\ IF service = "procurement"
       THEN desk' = [b \in Buyers |-> NoDesk] /\ intake' = [w \in Slots |-> NoIntake]
       ELSE UNCHANGED <<desk, intake>>
    /\ IF service = "receiving"
       THEN dock' = [k \in Docks |-> NoDock] /\ awaiting' = [w \in Slots |-> NoAwaiting]
       ELSE UNCHANGED <<dock, awaiting>>
    /\ UNCHANGED <<order, processed, expected, note, event, scans, twice>>

-----------------------------------------------------------------------------
Next ==
    \/ \E b \in Buyers : Office(b) \/ PublishApproval(b)
    \/ \E k \in Docks : Unload(k) \/ Announce(k)
    \/ \E w \in Slots : Deliver(w) \/ Handle(w) \/ Throws(w)
    \/ \E s \in Services : ChannelLost(s) \/ Crash(s)

Spec == Init /\ [][Next]_vars

-----------------------------------------------------------------------------
(* Properties.                                                              *)

ArrivedOn(n) == Arrived(note[n].lines)
Total(S, s) == SumFunctionOnSet([n \in Notes |-> ArrivedOn(n)[s]], S)
Totals(S) == [s \in Skus |-> Total(S, s)]
NotesOf(o, status) == {n \in Notes : note[n].order = <<o>> /\ note[n].status = status}
CountedNotes(o) == {n \in NotesOf(o, "FINALIZED") : Counted(n)}

(* However receipts overlap, fail and are delivered again, an order is      *)
(* never credited with more than was scanned on the notes counted for it    *)
(* ("a redelivered event cannot add the same quantities twice",             *)
(* procurement schema.prisma:97-98).                                        *)
NeverMoreThanArrived ==
    \A o \in Orders : \A s \in LinesOf(o) : order[o].received[s] <= Total(CountedNotes(o), s)

(* While one dock worker is at it, what Receiving has counted is what its   *)
(* final notes say, also when a truck was earlier than the order's event.   *)
ExpectedTotals ==
    \A o \in Orders : \A s \in LinesOf(o) :
        expected[o].received[s] = Total(NotesOf(o, "FINALIZED"), s)

(* CLOSED is only ever said of an order whose quantities were scanned on    *)
(* the notes counted for it, whatever stale totals and statuses handlers    *)
(* and requests wrote back (FR-2.5); and RECEIVED of one whose final notes  *)
(* hold them, unless two requests finalized one of these notes.             *)
ClosedMeansReceived ==
    \A o \in Orders :
        LET final == NotesOf(o, "FINALIZED") IN
        /\ order[o].status = "CLOSED" => Full(o, Totals(CountedNotes(o)))
        /\ expected[o].status = "RECEIVED" /\ final \cap twice = {} => Full(o, Totals(final))

(* Nothing is unloaded for an order that was not approved by someone who    *)
(* may approve it (FR-3.1, D-1).                                            *)
NothingReceivedUnapproved ==
    \A n \in Notes : note[n].status # "NONE" =>
        LET o == note[n].order[1] IN
        /\ order[o].approver # "none"
        /\ o \in Big => order[o].approver = "OWNER"

(* Procurement only counts notes that are final.                            *)
CountedNotesAreFinal ==
    \A n \in Notes : Counted(n) => note[n].status = "FINALIZED"

=============================================================================
