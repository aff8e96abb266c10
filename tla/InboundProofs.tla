---------------------------- MODULE InboundProofs ----------------------------
(* Proofs about Inbound: for any number of orders, notes, workers, handlers *)
(* and faults, nothing is unloaded unapproved, only final notes are counted *)
(* and only complete orders are called complete.                            *)
EXTENDS Inbound, Sums, TLAPS

Approved(o) == order[o].approver # "none"
Opened(n) == note[n].status # "NONE"
Final(n) == note[n].status = "FINALIZED"

(* What the status of an order says about its approval.                     *)
OrdersInv ==
    \A o \in Orders :
        /\ order[o].status \in OpenStatuses \cup {"CLOSED"} => Approved(o)
        /\ (o \in Big /\ Approved(o)) => order[o].approver = "OWNER"

(* What a request remembers of the order it checked.                        *)
DeskInv ==
    \A b \in Buyers : desk[b].op # "none" =>
        \E o \in Orders :
            /\ desk[b].order = <<o>>
            /\ desk[b].op = "approve" => MayApprove(b, o)
            /\ desk[b].op = "send" => Approved(o)

NotesInv ==
    \A n \in Notes : Opened(n) => \E o \in Orders : note[n].order = <<o>> /\ Approved(o)

(* What a dock worker remembers of the order and of the note.               *)
DockInv ==
    \A k \in Docks :
        /\ dock[k].step \in {"expect", "seed", "insert", "total", "commit"} =>
              \E o \in Orders : dock[k].order = <<o>> /\ Approved(o)
        /\ dock[k].step \in {"upsert", "total", "commit", "publish"} =>
              \E n \in Notes : dock[k].note = <<n>> /\ Opened(n)
        /\ dock[k].step = "upsert" => dock[k].scan \in Scannable
        /\ dock[k].step = "publish" => Final(dock[k].note[1])

AwaitInv == \A w \in Slots : awaiting[w].step # "idle" =>
                \E o \in Orders : awaiting[w].order = <<o>>

(* A handler that found the order CLOSED read totals that are complete.     *)
IntakeInv ==
    \A w \in Slots :
        /\ intake[w].step # "idle" =>
              intake[w].receipt \in Receipts /\ Final(intake[w].receipt[1])
        /\ (intake[w].step = "write" /\ intake[w].status = "CLOSED") =>
              Full(OrderOf(intake[w].receipt), intake[w].received)

MailInv == \A r \in Receipts : mail[<<"procurement", r>>].state # "none" => Final(r[1])

CountedInv == \A p \in processed : Final(p.note)

(* CLOSED and RECEIVED go with totals that are complete.                    *)
SaidComplete ==
    \A o \in Orders :
        /\ order[o].status = "CLOSED" => Full(o, order[o].received)
        /\ expected[o].status = "RECEIVED" => Full(o, expected[o].received)

IInv ==
    /\ TypeOK
    /\ OrdersInv
    /\ DeskInv
    /\ NotesInv
    /\ DockInv
    /\ AwaitInv
    /\ IntakeInv
    /\ MailInv
    /\ CountedInv
    /\ SaidComplete

(* An approval is never taken back, and a note never loses its order or     *)
(* becomes a draft again.                                                   *)
Grows ==
    /\ \A o \in Orders : Approved(o) => Approved(o)'
    /\ \A n \in Notes : Opened(n) => Opened(n)' /\ note'[n].order = note[n].order
    /\ \A n \in Notes : Final(n) => Final(n)'

-----------------------------------------------------------------------------
(* Types and the initial states.                                            *)

LEMMA NothingType == Nothing \in Quantities /\ NoLines \in Lines
BY DEF Nothing, Quantities, NoLines, Lines

Mail == [state : {"none", "queued", "inflight", "acked", "dropped"},
         redelivered : BOOLEAN, holder : {<<>>} \cup {<<w>> : w \in Slots}]

LEMMA MailTypes ==
    /\ Queued \in Mail /\ Requeued \in Mail /\ NoMail \in Mail
    /\ Settled("acked") \in Mail /\ Settled("dropped") \in Mail
    /\ \A m : Refused(m) \in Mail /\ Refused(m).state # "none"
BY DEF Mail, Queued, Requeued, NoMail, Settled, Refused

LEMMA ReceiptFacts ==
    /\ \A r \in Receipts : r[1] \in Notes /\ r[2] \in Docks /\ r = <<r[1], r[2]>>
    /\ \A n \in Notes, k \in Docks : <<n, k>> \in Receipts
    /\ \A r \in Receipts : <<"procurement", r>> \in Messages
    /\ \A o \in Orders : <<"receiving", o>> \in Messages
BY DEF Receipts, Messages

LEMMA InitIInv == Init => IInv
<1> SUFFICES ASSUME Init PROVE IInv
  OBVIOUS
<1>1. ProcurementTypeOK
  BY NothingType DEF Init, ProcurementInit, ProcurementTypeOK, OrderStatuses, NoDesk, NoIntake
<1>2. ReceivingTypeOK
  BY NothingType DEF Init, ReceivingInit, ReceivingTypeOK, NoNote, NoDock, NoAwaiting, MaybeOrder
<1>3. TypeOK
  BY <1>1, <1>2 DEF TypeOK, Init, NoMail
<1>4. OrdersInv /\ DeskInv
  BY DEF Init, ProcurementInit, OrdersInv, DeskInv, OpenStatuses, Approved, NoDesk
<1>5. NotesInv /\ DockInv /\ AwaitInv
  BY DEF Init, ReceivingInit, NotesInv, DockInv, AwaitInv, Opened, NoNote, NoDock, NoAwaiting
<1>6. IntakeInv /\ CountedInv
  BY DEF Init, ProcurementInit, IntakeInv, CountedInv, NoIntake
<1>7. MailInv
  BY ReceiptFacts DEF Init, MailInv, NoMail
<1>8. SaidComplete
  BY DEF Init, ProcurementInit, ReceivingInit, SaidComplete
<1> QED
  BY <1>3, <1>4, <1>5, <1>6, <1>7, <1>8 DEF IInv

(* What a step leaves alone, it leaves true.                                *)
LEMMA Kept ==
    ASSUME IInv, Grows
    PROVE  /\ order' = order => OrdersInv'
           /\ desk' = desk => DeskInv'
           /\ note' = note => NotesInv'
           /\ dock' = dock => DockInv'
           /\ awaiting' = awaiting => AwaitInv'
           /\ intake' = intake => IntakeInv'
           /\ mail' = mail => MailInv'
           /\ processed' = processed => CountedInv'
           /\ (order' = order /\ expected' = expected) => SaidComplete'
<1>1. order' = order => OrdersInv'
  BY DEF IInv, OrdersInv, Approved
<1>2. desk' = desk => DeskInv'
  BY DEF IInv, DeskInv, Grows
<1>3. note' = note => NotesInv'
  BY DEF IInv, NotesInv, Grows, Opened
<1>4. ASSUME dock' = dock PROVE DockInv'
  <2> SUFFICES ASSUME NEW k \in Docks
               PROVE  /\ dock[k].step \in {"expect", "seed", "insert", "total", "commit"} =>
                            \E o \in Orders : dock[k].order = <<o>> /\ Approved(o)'
                      /\ dock[k].step \in {"upsert", "total", "commit", "publish"} =>
                            \E n \in Notes : dock[k].note = <<n>> /\ Opened(n)'
                      /\ dock[k].step = "upsert" => dock[k].scan \in Scannable
                      /\ dock[k].step = "publish" => Final(dock[k].note[1])'
    BY <1>4 DEF DockInv
  <2>1. dock[k].step \in {"expect", "seed", "insert", "total", "commit"} =>
           \E o \in Orders : dock[k].order = <<o>> /\ Approved(o)'
    BY DEF IInv, DockInv, Grows
  <2>2. dock[k].step \in {"upsert", "total", "commit", "publish"} =>
           \E n \in Notes : dock[k].note = <<n>> /\ Opened(n)'
    BY DEF IInv, DockInv, Grows
  <2>3. ASSUME dock[k].step = "publish" PROVE Final(dock[k].note[1])'
    <3>1. PICK n \in Notes : dock[k].note = <<n>>
      BY <2>3 DEF IInv, DockInv
    <3> QED
      BY <1>4, <2>3, <3>1 DEF IInv, DockInv, Grows, Final
  <2> QED
    BY <2>1, <2>2, <2>3 DEF IInv, DockInv
<1>5. awaiting' = awaiting => AwaitInv'
  BY DEF IInv, AwaitInv
<1>6. ASSUME intake' = intake PROVE IntakeInv'
  <2> SUFFICES ASSUME NEW w \in Slots
               PROVE  /\ intake[w].step # "idle" =>
                            intake[w].receipt \in Receipts /\ Final(intake[w].receipt[1])'
                      /\ (intake[w].step = "write" /\ intake[w].status = "CLOSED") =>
                            Full(OrderOf(intake[w].receipt)', intake[w].received)
    BY <1>6 DEF IntakeInv, Full, OrderOf
  <2>1. CASE intake[w].step = "idle"
    BY <2>1
  <2>2. CASE intake[w].step # "idle"
    <3>1. intake[w].receipt \in Receipts /\ Final(intake[w].receipt[1]) /\ intake[w].receipt[1] \in Notes
      BY <2>2, ReceiptFacts DEF IInv, IntakeInv
    <3>2. note'[intake[w].receipt[1]].order = note[intake[w].receipt[1]].order
      BY <3>1 DEF Grows, Final, Opened
    <3> QED
      BY <1>6, <3>1, <3>2 DEF IInv, IntakeInv, Grows, Final, OrderOf
  <2> QED
    BY <2>1, <2>2
<1>7. mail' = mail => MailInv'
  BY ReceiptFacts DEF IInv, MailInv, Grows
<1>8. processed' = processed => CountedInv'
  BY DEF IInv, TypeOK, ProcurementTypeOK, CountedInv, Grows
<1>9. (order' = order /\ expected' = expected) => SaidComplete'
  BY DEF IInv, SaidComplete
<1> QED
  BY <1>1, <1>2, <1>3, <1>4, <1>5, <1>6, <1>7, <1>8, <1>9

(* Neither a table of notes nor the approvals changed.                      *)
LEMMA Still == ASSUME order' = order, note' = note PROVE Grows
BY DEF Grows, Approved, Opened, Final

-----------------------------------------------------------------------------
(* Requests to Procurement.                                                 *)

LEMMA OfficeIInv == ASSUME IInv, NEW b \in Buyers, Office(b) PROVE IInv'
<1> USE DEF procurementVars, receivingVars
<1>1. ASSUME NEW o \in Orders, Draft(b, o), UNCHANGED <<receivingVars, mail, faults>> PROVE IInv'
  <2>1. /\ order' = [order EXCEPT ![o].status = "DRAFT"]
        /\ order[o].status = "NONE"
        /\ UNCHANGED <<processed, desk, intake, expected, note, dock, awaiting, event, scans, twice, mail, faults>>
    BY <1>1 DEF Draft
  <2>2. TypeOK'
    <3>1. order'[o] = [status |-> "DRAFT", received |-> order[o].received, approver |-> order[o].approver]
      BY <2>1 DEF IInv, TypeOK, ProcurementTypeOK
    <3>2. order' \in [Orders -> [status : OrderStatuses, received : Quantities,
                                 approver : {"none", "OWNER", "MANAGER"}]]
      BY <2>1, <3>1 DEF IInv, TypeOK, ProcurementTypeOK, OrderStatuses
    <3> QED
      BY <2>1, <3>2 DEF IInv, TypeOK, ProcurementTypeOK, ReceivingTypeOK
  <2>3. Grows
    BY <2>1 DEF Grows, Approved, Opened, Final, IInv, TypeOK, ProcurementTypeOK
  <2>4. OrdersInv'
    BY <2>1 DEF IInv, TypeOK, ProcurementTypeOK, OrdersInv, Approved, OpenStatuses
  <2>5. SaidComplete'
    BY <2>1 DEF IInv, TypeOK, ProcurementTypeOK, SaidComplete
  <2> QED
    BY <2>1, <2>2, <2>3, <2>4, <2>5, Kept DEF IInv
<1>2. ASSUME NEW o \in Orders, NEW op \in {"submit", "approve", "send"}, CheckOrder(b, o, op),
             UNCHANGED <<receivingVars, mail, faults>>
      PROVE  IInv'
  <2>1. /\ desk' = [desk EXCEPT ![b] = [op |-> op, order |-> <<o>>]]
        /\ order[o].status = Needs(op)
        /\ op = "approve" => MayApprove(b, o)
        /\ UNCHANGED <<order, processed, intake, expected, note, dock, awaiting, event, scans, twice, mail, faults>>
    BY <1>2 DEF CheckOrder
  <2>2. TypeOK'
    BY <1>2, <2>1 DEF IInv, TypeOK, ProcurementTypeOK, ReceivingTypeOK
  <2>3. Grows
    BY <2>1, Still
  <2>4. op = "send" => Approved(o)
    BY <2>1 DEF IInv, OrdersInv, Needs, OpenStatuses
  <2>5. DeskInv'
    <3> SUFFICES ASSUME NEW c \in Buyers, desk'[c].op # "none"
                 PROVE  \E p \in Orders : /\ desk'[c].order = <<p>>
                                          /\ desk'[c].op = "approve" => MayApprove(c, p)
                                          /\ desk'[c].op = "send" => Approved(p)'
      BY DEF DeskInv, MayApprove
    <3>1. CASE c = b
      <4>1. desk'[c] = [op |-> op, order |-> <<o>>]
        BY <2>1, <3>1 DEF IInv, TypeOK, ProcurementTypeOK
      <4> QED
        BY <2>1, <2>3, <2>4, <3>1, <4>1 DEF Grows
    <3>2. CASE c # b
      <4>1. desk'[c] = desk[c]
        BY <2>1, <3>2 DEF IInv, TypeOK, ProcurementTypeOK
      <4> QED
        BY <2>3, <4>1 DEF IInv, DeskInv, Grows
    <3> QED
      BY <3>1, <3>2
  <2> QED
    BY <2>1, <2>2, <2>3, <2>5, Kept DEF IInv
<1>3. ASSUME WriteOrder(b), UNCHANGED <<receivingVars, mail, faults>> PROVE IInv'
  <2> DEFINE op == desk[b].op
  <2>1. PICK o \in Orders : /\ desk[b].order = <<o>>
                            /\ op = "approve" => MayApprove(b, o)
                            /\ op = "send" => Approved(o)
    BY <1>3 DEF IInv, DeskInv, WriteOrder
  <2> DEFINE row == [status |-> Writes(op), received |-> order[o].received,
                     approver |-> IF op = "approve" THEN Role[b] ELSE order[o].approver]
             slip == IF op = "approve" THEN [op |-> "publish", order |-> <<o>>] ELSE NoDesk
  <2>2. desk[b].order[1] = o
    BY <2>1
  <2>3. /\ op \in {"submit", "approve", "send"}
        /\ order' = [order EXCEPT ![o] = row]
        /\ desk' = [desk EXCEPT ![b] = slip]
        /\ UNCHANGED <<processed, intake, expected, note, dock, awaiting, event, scans, twice, mail, faults>>
    BY <1>3, <2>2 DEF WriteOrder
  <2>4. /\ Writes(op) \in {"PENDING_APPROVAL", "APPROVED", "SENT"}
        /\ Writes(op) \in OpenStatuses => op \in {"approve", "send"}
    BY <2>3 DEF Writes, OpenStatuses
  <2>5. op = "approve" => /\ Role[b] \in {"OWNER", "MANAGER"}
                          /\ o \in Big => Role[b] = "OWNER"
    BY <2>1 DEF MayApprove
  <2>6. /\ row \in [status : OrderStatuses, received : Quantities, approver : {"none", "OWNER", "MANAGER"}]
        /\ row.approver = "none" => ~Approved(o) /\ op \notin {"approve", "send"}
        /\ o \in Big => row.approver \in {"none", "OWNER"}
    BY <2>1, <2>3, <2>4, <2>5 DEF IInv, TypeOK, ProcurementTypeOK, OrderStatuses, Approved, OrdersInv
  <2>7. /\ slip \in [op : {"none", "submit", "approve", "publish", "send"},
                       order : {<<>>} \cup {<<p>> : p \in Orders}]
        /\ slip.op \in {"none", "publish"}
        /\ slip.op = "publish" => slip.order = <<o>>
    BY <2>1 DEF NoDesk
  <2>8. row.status = Writes(op)
    OBVIOUS
  <2> HIDE DEF row, slip
  <2>9. TypeOK'
    BY <2>3, <2>6, <2>7 DEF IInv, TypeOK, ProcurementTypeOK, ReceivingTypeOK
  <2>10. Grows
    <3>1. \A p \in Orders : Approved(p) => Approved(p)'
      BY <2>3, <2>6 DEF Approved, IInv, TypeOK, ProcurementTypeOK
    <3> QED
      BY <2>3, <3>1 DEF Grows, Opened, Final
  <2>11. OrdersInv'
    <3> SUFFICES ASSUME NEW p \in Orders
                 PROVE  /\ order'[p].status \in OpenStatuses \cup {"CLOSED"} => Approved(p)'
                        /\ (p \in Big /\ Approved(p)') => order'[p].approver = "OWNER"
      BY DEF OrdersInv
    <3>1. CASE p = o
      <4>1. order'[p] = row
        BY <2>3, <3>1 DEF IInv, TypeOK, ProcurementTypeOK
      <4> QED
        BY <2>4, <2>6, <2>8, <3>1, <4>1 DEF Approved
    <3>2. CASE p # o
      <4>1. order'[p] = order[p]
        BY <2>3, <3>2 DEF IInv, TypeOK, ProcurementTypeOK
      <4> QED
        BY <4>1 DEF IInv, OrdersInv, Approved
    <3> QED
      BY <3>1, <3>2
  <2>12. DeskInv'
    <3> SUFFICES ASSUME NEW c \in Buyers, desk'[c].op # "none"
                 PROVE  \E p \in Orders : /\ desk'[c].order = <<p>>
                                          /\ desk'[c].op = "approve" => MayApprove(c, p)
                                          /\ desk'[c].op = "send" => Approved(p)'
      BY DEF DeskInv, MayApprove
    <3>1. CASE c = b
      <4>1. desk'[c] = slip
        BY <2>3, <3>1 DEF IInv, TypeOK, ProcurementTypeOK
      <4> QED
        BY <2>7, <4>1
    <3>2. CASE c # b
      <4>1. desk'[c] = desk[c]
        BY <2>3, <3>2 DEF IInv, TypeOK, ProcurementTypeOK
      <4> QED
        BY <2>10, <4>1 DEF IInv, DeskInv, Grows
    <3> QED
      BY <3>1, <3>2
  <2>13. SaidComplete'
    <3> SUFFICES ASSUME NEW p \in Orders, order'[p].status = "CLOSED"
                 PROVE  Full(p, order'[p].received)
      BY <2>3 DEF IInv, SaidComplete
    <3>1. order'[p] = order[p]
      BY <2>3, <2>4, <2>8 DEF IInv, TypeOK, ProcurementTypeOK
    <3> QED
      BY <3>1 DEF IInv, SaidComplete
  <2> QED
    BY <2>3, <2>9, <2>10, <2>11, <2>12, <2>13, Kept DEF IInv
<1> QED
  BY <1>1, <1>2, <1>3 DEF Office

LEMMA PublishIInv == ASSUME IInv, NEW b \in Buyers, PublishApproval(b) PROVE IInv'
<1>1. PICK o \in Orders : desk[b].order = <<o>>
  BY DEF IInv, DeskInv, PublishApproval
<1>2. /\ mail' = [mail EXCEPT ![<<"receiving", o>>] = Queued]
      /\ desk' = [desk EXCEPT ![b] = NoDesk]
      /\ UNCHANGED <<order, processed, intake, expected, note, dock, awaiting, event, scans, twice, faults>>
  BY <1>1 DEF PublishApproval, receivingVars
<1>3. TypeOK'
  BY <1>2, MailTypes DEF IInv, TypeOK, ProcurementTypeOK, ReceivingTypeOK, NoDesk, Mail
<1>4. Grows
  BY <1>2, Still
<1>5. DeskInv'
  BY <1>2 DEF IInv, TypeOK, ProcurementTypeOK, DeskInv, NoDesk, MayApprove, Approved
<1>6. MailInv'
  <2>1. \A r \in Receipts : mail'[<<"procurement", r>>] = mail[<<"procurement", r>>]
    BY <1>2, ReceiptFacts DEF IInv, TypeOK
  <2> QED
    BY <1>2, <2>1 DEF IInv, MailInv, Final
<1> QED
  BY <1>2, <1>3, <1>4, <1>5, <1>6, Kept DEF IInv

-----------------------------------------------------------------------------
(* The dock.                                                                *)

DockRows == [step : {"idle", "expect", "seed", "insert", "upsert", "total", "commit", "publish"},
             order : MaybeOrder, note : {<<>>} \cup {<<n>> : n \in Notes},
             scan : {<<>>} \cup Scannable, lines : Lines, base : Quantities]

(* What must be true of what a dock worker comes to remember.               *)
LEMMA DockStep ==
    ASSUME IInv, Grows, NEW k \in Docks, NEW row \in DockRows,
           dock' = [dock EXCEPT ![k] = row],
           row.step \in {"expect", "seed", "insert", "total", "commit"} =>
               \E o \in Orders : row.order = <<o>> /\ Approved(o),
           row.step \in {"upsert", "total", "commit", "publish"} =>
               \E n \in Notes : row.note = <<n>> /\ Opened(n),
           row.step = "upsert" => row.scan \in Scannable,
           row.step = "publish" => note'[row.note[1]].status = "FINALIZED"
    PROVE  dock' \in [Docks -> DockRows] /\ DockInv'
<1>1. dock \in [Docks -> DockRows]
  BY DEF IInv, TypeOK, ReceivingTypeOK, DockRows
<1>2. dock' \in [Docks -> DockRows] /\ dock'[k] = row
  BY <1>1
<1>3. DockInv'
  <2> SUFFICES ASSUME NEW j \in Docks
               PROVE  /\ dock'[j].step \in {"expect", "seed", "insert", "total", "commit"} =>
                            \E o \in Orders : dock'[j].order = <<o>> /\ Approved(o)'
                      /\ dock'[j].step \in {"upsert", "total", "commit", "publish"} =>
                            \E n \in Notes : dock'[j].note = <<n>> /\ Opened(n)'
                      /\ dock'[j].step = "upsert" => dock'[j].scan \in Scannable
                      /\ dock'[j].step = "publish" => note'[dock'[j].note[1]].status = "FINALIZED"
    BY DEF DockInv, Final
  <2>1. CASE j = k
    BY <1>2, <2>1 DEF Grows
  <2>2. CASE j # k
    <3>1. dock'[j] = dock[j]
      BY <1>1, <2>2
    <3>2. dock[j].step \in {"expect", "seed", "insert", "total", "commit"} =>
             \E o \in Orders : dock[j].order = <<o>> /\ Approved(o)'
      BY DEF IInv, DockInv, Grows
    <3>3. dock[j].step \in {"upsert", "total", "commit", "publish"} =>
             \E n \in Notes : dock[j].note = <<n>> /\ Opened(n)'
      BY DEF IInv, DockInv, Grows
    <3>4. ASSUME dock[j].step = "publish" PROVE Final(dock[j].note[1])'
      <4>1. PICK n \in Notes : dock[j].note = <<n>>
        BY <3>4 DEF IInv, DockInv
      <4> QED
        BY <3>1, <3>4, <4>1 DEF IInv, DockInv, Grows, Final
    <3> QED
      BY <3>1, <3>2, <3>3, <3>4 DEF IInv, DockInv, Final
  <2> QED
    BY <2>1, <2>2
<1> QED
  BY <1>2, <1>3

LEMMA IdleRow == NoDock \in DockRows /\ NoDock.step = "idle"
BY NothingType DEF NoDock, DockRows, MaybeOrder

(* Types: a step of the dock writes only Receiving's tables.                *)
LEMMA DockTypes ==
    ASSUME IInv, dock' \in [Docks -> DockRows],
           expected' \in [Orders -> [status : {"NONE", "EXPECTED", "PARTIALLY_RECEIVED", "RECEIVED"},
                                     received : Quantities]],
           note' \in [Notes -> [status : {"NONE", "DRAFT", "FINALIZED"}, order : MaybeOrder, lines : Lines]],
           scans' \in Nat, twice' \subseteq Notes,
           UNCHANGED <<procurementVars, awaiting, event, mail, faults>>
    PROVE  TypeOK'
BY DEF IInv, TypeOK, ProcurementTypeOK, ReceivingTypeOK, DockRows, procurementVars

LEMMA CreateIInv ==
    ASSUME IInv, NEW k \in Docks, UNCHANGED <<procurementVars, mail, faults>>,
           (\E o \in Orders : AskProcurement(k, o)) \/ FindExpected(k) \/ SeedExpected(k)
             \/ \E n \in Notes : InsertNote(k, n)
    PROVE  IInv'
<1> USE DEF procurementVars
<1>1. ASSUME NEW o \in Orders, AskProcurement(k, o) PROVE IInv'
  <2> DEFINE row == [NoDock EXCEPT !.step = "expect", !.order = <<o>>]
  <2>1. dock' = [dock EXCEPT ![k] = row] /\ UNCHANGED <<expected, note, awaiting, event, scans, twice>>
    BY <1>1 DEF AskProcurement
  <2>2. row \in DockRows /\ row.step = "expect" /\ row.order = <<o>>
    BY IdleRow DEF DockRows, NoDock, MaybeOrder
  <2>3. Approved(o)
    BY <1>1 DEF IInv, OrdersInv, AskProcurement, FoundOpenPo
  <2>4. Grows
    BY <2>1, Still
  <2> HIDE DEF row
  <2>5. dock' \in [Docks -> DockRows] /\ DockInv'
    BY <2>1, <2>2, <2>3, <2>4, DockStep
  <2>6. TypeOK'
    BY <2>1, <2>5, DockTypes DEF IInv, TypeOK, ReceivingTypeOK
  <2> QED
    BY <2>1, <2>4, <2>5, <2>6, Kept DEF IInv
<1>2. ASSUME FindExpected(k) PROVE IInv'
  <2>1. PICK o \in Orders : dock[k].order = <<o>> /\ Approved(o)
    BY <1>2 DEF IInv, DockInv, FindExpected
  <2> DEFINE row == IF expected[o].status = "NONE"
                    THEN [NoDock EXCEPT !.step = "seed", !.order = <<o>>]
                    ELSE [NoDock EXCEPT !.step = "insert", !.order = <<o>>, !.base = expected[o].received]
  <2>2. dock' = [dock EXCEPT ![k] = row] /\ UNCHANGED <<expected, note, awaiting, event, scans, twice>>
    BY <1>2, <2>1 DEF FindExpected
  <2>3. row \in DockRows /\ row.step \in {"seed", "insert"} /\ row.order = <<o>>
    BY IdleRow DEF DockRows, NoDock, MaybeOrder, IInv, TypeOK, ReceivingTypeOK
  <2>4. Grows
    BY <2>2, Still
  <2> HIDE DEF row
  <2>5. dock' \in [Docks -> DockRows] /\ DockInv'
    BY <2>1, <2>2, <2>3, <2>4, DockStep
  <2>6. TypeOK'
    BY <2>2, <2>5, DockTypes DEF IInv, TypeOK, ReceivingTypeOK
  <2> QED
    BY <2>2, <2>4, <2>5, <2>6, Kept DEF IInv
<1>3. ASSUME SeedExpected(k) PROVE IInv'
  <2>1. PICK o \in Orders : dock[k].order = <<o>> /\ Approved(o)
    BY <1>3 DEF IInv, DockInv, SeedExpected
  <2> DEFINE row == IF expected[o].status = "NONE"
                    THEN [NoDock EXCEPT !.step = "insert", !.order = <<o>>] ELSE NoDock
  <2>2. /\ dock' = [dock EXCEPT ![k] = row]
        /\ expected' = [expected EXCEPT ![o] = IF expected[o].status = "NONE" THEN Fresh ELSE expected[o]]
        /\ UNCHANGED <<note, awaiting, event, scans, twice>>
    BY <1>3, <2>1 DEF SeedExpected, IInv, TypeOK, ReceivingTypeOK
  <2>3. row \in DockRows /\ row.step \in {"idle", "insert"} /\ (row.step = "insert" => row.order = <<o>>)
    BY IdleRow DEF DockRows, NoDock, MaybeOrder
  <2>4. Grows
    BY <2>2, Still
  <2> HIDE DEF row
  <2>5. dock' \in [Docks -> DockRows] /\ DockInv'
    BY <2>1, <2>2, <2>3, <2>4, DockStep
  <2>6. expected' \in [Orders -> [status : {"NONE", "EXPECTED", "PARTIALLY_RECEIVED", "RECEIVED"},
                                  received : Quantities]]
    BY <2>2, NothingType DEF Fresh, IInv, TypeOK, ReceivingTypeOK
  <2>7. TypeOK'
    BY <2>2, <2>5, <2>6, DockTypes DEF IInv, TypeOK, ReceivingTypeOK
  <2>8. SaidComplete'
    BY <2>2 DEF IInv, TypeOK, ReceivingTypeOK, SaidComplete, Fresh
  <2> QED
    BY <2>2, <2>4, <2>5, <2>7, <2>8, Kept DEF IInv
<1>4. ASSUME NEW n \in Notes, InsertNote(k, n) PROVE IInv'
  <2>1. PICK o \in Orders : dock[k].order = <<o>> /\ Approved(o)
    BY <1>4 DEF IInv, DockInv, InsertNote
  <2> DEFINE draft == [status |-> "DRAFT", order |-> <<o>>, lines |-> NoLines]
  <2>2. /\ dock' = [dock EXCEPT ![k] = NoDock]
        /\ note' = note \/ note' = [note EXCEPT ![n] = draft]
        /\ note[n].status = "NONE"
        /\ UNCHANGED <<expected, awaiting, event, scans, twice>>
    <3>1. draft = [status |-> "DRAFT", order |-> dock[k].order, lines |-> NoLines]
      BY <2>1
    <3>2. note' = note \/ note' = [note EXCEPT ![n] = draft]
      <4> HIDE DEF draft
      <4> QED
        BY <1>4, <3>1 DEF InsertNote
    <3> QED
      BY <1>4, <3>2 DEF InsertNote
  <2>3. note' \in [Notes -> [status : {"NONE", "DRAFT", "FINALIZED"}, order : MaybeOrder, lines : Lines]]
    BY <2>2, NothingType DEF IInv, TypeOK, ReceivingTypeOK, MaybeOrder
  <2>4. Grows
    BY <2>2 DEF Grows, Approved, Opened, Final, IInv, TypeOK, ReceivingTypeOK
  <2>5. dock' \in [Docks -> DockRows] /\ DockInv'
    BY <2>2, <2>4, IdleRow, DockStep
  <2>6. TypeOK'
    BY <2>2, <2>3, <2>5, DockTypes DEF IInv, TypeOK, ReceivingTypeOK
  <2>7. NotesInv'
    <3> SUFFICES ASSUME NEW m \in Notes, Opened(m)'
                 PROVE  \E p \in Orders : note'[m].order = <<p>> /\ Approved(p)'
      BY DEF NotesInv
    <3>1. CASE note'[m] = note[m]
      BY <3>1, <2>4 DEF IInv, NotesInv, Grows, Opened
    <3>2. CASE note'[m] # note[m]
      <4>1. note'[m] = draft
        BY <2>2, <3>2 DEF IInv, TypeOK, ReceivingTypeOK
      <4> QED
        BY <2>1, <2>4, <4>1 DEF Grows
    <3> QED
      BY <3>1, <3>2
  <2> QED
    BY <2>2, <2>4, <2>5, <2>6, <2>7, Kept DEF IInv
<1> QED
  BY <1>1, <1>2, <1>3, <1>4

LEMMA ScanIInv ==
    ASSUME IInv, NEW k \in Docks, UNCHANGED <<procurementVars, mail, faults>>,
           (\E n \in Notes, scan \in Scannable : ScanRead(k, n, scan)) \/ ScanUpsert(k)
    PROVE  IInv'
<1> USE DEF procurementVars
<1>1. ASSUME NEW n \in Notes, NEW scan \in Scannable, ScanRead(k, n, scan) PROVE IInv'
  <2> DEFINE row == [NoDock EXCEPT !.step = "upsert", !.note = <<n>>, !.scan = scan]
  <2>1. /\ dock' = [dock EXCEPT ![k] = row]
        /\ scans' = scans + 1 /\ twice' = twice
        /\ UNCHANGED <<expected, note, awaiting, event>>
    BY <1>1 DEF ScanRead
  <2>2. row \in DockRows /\ row.step = "upsert" /\ row.note = <<n>> /\ row.scan \in Scannable
    BY IdleRow DEF DockRows, NoDock
  <2>3. Opened(n)
    BY <1>1 DEF ScanRead, Opened
  <2>4. Grows
    BY <2>1, Still
  <2> HIDE DEF row
  <2>5. dock' \in [Docks -> DockRows] /\ DockInv'
    BY <2>1, <2>2, <2>3, <2>4, DockStep
  <2>6. scans' \in Nat
    BY <2>1 DEF IInv, TypeOK, ReceivingTypeOK
  <2>7. TypeOK'
    BY <2>1, <2>5, <2>6, DockTypes DEF IInv, TypeOK, ReceivingTypeOK
  <2> QED
    BY <2>1, <2>4, <2>5, <2>7, Kept DEF IInv
<1>2. ASSUME ScanUpsert(k) PROVE IInv'
  <2>1. PICK n \in Notes : dock[k].note = <<n>> /\ Opened(n)
    BY <1>2 DEF IInv, DockInv, ScanUpsert
  <2>2. dock[k].scan \in Scannable
    BY <1>2 DEF IInv, DockInv, ScanUpsert
  <2> DEFINE s == dock[k].scan[1]
             c == dock[k].scan[2]
  <2>3. s \in Skus /\ c \in {"good", "damaged"}
    BY <2>2, ScanAssumption
  <2>4. /\ note' = [note EXCEPT ![n].lines[c][s] = @ + 1]
        /\ dock' = [dock EXCEPT ![k] = NoDock]
        /\ UNCHANGED <<expected, awaiting, event, scans, twice>>
    <3>1. PICK m \in Notes : m = dock[k].note[1] /\ m = n
      BY <2>1
    <3>2. note' = [note EXCEPT ![dock[k].note[1]].lines[c][s] = @ + 1]
      BY <1>2 DEF ScanUpsert
    <3>3. note' = [note EXCEPT ![m].lines[c][s] = @ + 1]
      BY <3>1, <3>2
    <3> QED
      BY <1>2, <3>1, <3>3 DEF ScanUpsert
  <2> HIDE DEF s, c
  <2> DEFINE counts == [note[n].lines[c] EXCEPT ![s] = @ + 1]
             filled == [note[n].lines EXCEPT ![c] = counts]
             row == [note[n] EXCEPT !.lines = filled]
  <2>5. note[n] \in [status : {"NONE", "DRAFT", "FINALIZED"}, order : MaybeOrder, lines : Lines]
    BY DEF IInv, TypeOK, ReceivingTypeOK
  <2>6. note[n].lines[c] \in Quantities
    BY <2>3, <2>5 DEF Lines
  <2>7. counts \in Quantities
    BY <2>3, <2>6 DEF Quantities
  <2>8. note' = [note EXCEPT ![n] = row]
    BY <2>4
  <2> HIDE DEF counts
  <2>9. filled \in Lines
    BY <2>3, <2>5, <2>7 DEF Lines
  <2> HIDE DEF filled
  <2>10. /\ row \in [status : {"NONE", "DRAFT", "FINALIZED"}, order : MaybeOrder, lines : Lines]
         /\ row.status = note[n].status /\ row.order = note[n].order
    BY <2>5, <2>9
  <2> HIDE DEF row
  <2>11. \A m \in Notes : note'[m].status = note[m].status /\ note'[m].order = note[m].order
    BY <2>8, <2>10 DEF IInv, TypeOK, ReceivingTypeOK
  <2>12. note' \in [Notes -> [status : {"NONE", "DRAFT", "FINALIZED"}, order : MaybeOrder, lines : Lines]]
    BY <2>8, <2>10 DEF IInv, TypeOK, ReceivingTypeOK
  <2>13. Grows
    BY <2>11 DEF Grows, Approved, Opened, Final
  <2>14. dock' \in [Docks -> DockRows] /\ DockInv'
    BY <2>4, <2>13, IdleRow, DockStep
  <2>15. TypeOK'
    BY <2>4, <2>12, <2>14, DockTypes DEF IInv, TypeOK, ReceivingTypeOK
  <2>16. NotesInv'
    BY <2>11, <2>13 DEF IInv, NotesInv, Opened, Grows
  <2> QED
    BY <2>4, <2>13, <2>14, <2>15, <2>16, Kept DEF IInv
<1> QED
  BY <1>1, <1>2

(* A sum of totals and of what arrived is a total.                          *)
LEMMA ArrivedType == \A lines \in Lines : Arrived(lines) \in Quantities
BY DEF Arrived, Lines, Quantities

LEMMA FinalizeIInv ==
    ASSUME IInv, NEW k \in Docks, UNCHANGED <<procurementVars, mail, faults>>,
           (\E n \in Notes : FinalizeRead(k, n)) \/ FinalizeTotal(k) \/ FinalizeCommit(k)
    PROVE  IInv'
<1> USE DEF procurementVars
<1>1. ASSUME NEW n \in Notes, FinalizeRead(k, n) PROVE IInv'
  <2>1. PICK o \in Orders : note[n].order = <<o>> /\ Approved(o)
    BY <1>1 DEF IInv, NotesInv, Opened, FinalizeRead
  <2> DEFINE row == [NoDock EXCEPT !.step = "total", !.note = <<n>>,
                                   !.order = note[n].order, !.lines = note[n].lines]
  <2>2. dock' = [dock EXCEPT ![k] = row] /\ UNCHANGED <<expected, note, awaiting, event, scans, twice>>
    BY <1>1 DEF FinalizeRead
  <2>3. row \in DockRows /\ row.step = "total" /\ row.note = <<n>> /\ row.order = <<o>>
    BY <2>1, IdleRow DEF DockRows, NoDock, MaybeOrder, IInv, TypeOK, ReceivingTypeOK
  <2>4. Opened(n)
    BY <1>1 DEF FinalizeRead, Opened
  <2>5. Grows
    BY <2>2, Still
  <2> HIDE DEF row
  <2>6. dock' \in [Docks -> DockRows] /\ DockInv'
    BY <2>1, <2>2, <2>3, <2>4, <2>5, DockStep
  <2>7. TypeOK'
    BY <2>2, <2>6, DockTypes DEF IInv, TypeOK, ReceivingTypeOK
  <2> QED
    BY <2>2, <2>5, <2>6, <2>7, Kept DEF IInv
<1>2. ASSUME FinalizeTotal(k) PROVE IInv'
  <2>1. PICK o \in Orders : dock[k].order = <<o>> /\ Approved(o)
    BY <1>2 DEF IInv, DockInv, FinalizeTotal
  <2>2. PICK n \in Notes : dock[k].note = <<n>> /\ Opened(n)
    BY <1>2 DEF IInv, DockInv, FinalizeTotal
  <2> DEFINE row == [dock[k] EXCEPT !.step = "commit", !.base = expected[o].received]
  <2>3. dock' = [dock EXCEPT ![k] = row] /\ UNCHANGED <<expected, note, awaiting, event, scans, twice>>
    BY <1>2, <2>1 DEF FinalizeTotal
  <2>4. row \in DockRows /\ row.step = "commit" /\ row.note = <<n>> /\ row.order = <<o>>
    <3>1. dock[k] \in DockRows
      BY DEF DockRows, IInv, TypeOK, ReceivingTypeOK
    <3>2. expected[o].received \in Quantities
      BY DEF IInv, TypeOK, ReceivingTypeOK
    <3> QED
      BY <2>1, <2>2, <3>1, <3>2 DEF DockRows
  <2>5. Grows
    BY <2>3, Still
  <2> HIDE DEF row
  <2>6. dock' \in [Docks -> DockRows] /\ DockInv'
    BY <2>1, <2>2, <2>3, <2>4, <2>5, DockStep
  <2>7. TypeOK'
    BY <2>3, <2>6, DockTypes DEF IInv, TypeOK, ReceivingTypeOK
  <2> QED
    BY <2>3, <2>5, <2>6, <2>7, Kept DEF IInv
<1>3. ASSUME FinalizeCommit(k) PROVE IInv'
  <2>1. PICK o \in Orders : dock[k].order = <<o>> /\ Approved(o)
    BY <1>3 DEF IInv, DockInv, FinalizeCommit
  <2>2. PICK n \in Notes : dock[k].note = <<n>> /\ Opened(n)
    BY <1>3 DEF IInv, DockInv, FinalizeCommit
  <2> DEFINE row == [dock[k] EXCEPT !.step = "publish"]
             said == [status |-> IF Full(o, TotalAfter(k)) THEN "RECEIVED" ELSE "PARTIALLY_RECEIVED",
                      received |-> TotalAfter(k)]
  <2>3. /\ note' = [note EXCEPT ![n].status = "FINALIZED"]
        /\ expected' = [expected EXCEPT ![o] = said]
        /\ dock' = [dock EXCEPT ![k] = row]
        /\ twice' \subseteq twice \cup {n}
        /\ UNCHANGED <<awaiting, event, scans>>
    BY <1>3, <2>1, <2>2 DEF FinalizeCommit
  <2>4. row \in DockRows /\ row.step = "publish" /\ row.note = <<n>>
    <3>1. dock[k] \in DockRows
      BY DEF DockRows, IInv, TypeOK, ReceivingTypeOK
    <3> QED
      BY <2>2, <3>1 DEF DockRows
  <2>5. note[n] \in [status : {"NONE", "DRAFT", "FINALIZED"}, order : MaybeOrder, lines : Lines]
    BY DEF IInv, TypeOK, ReceivingTypeOK
  <2>6. /\ note'[n] = [note[n] EXCEPT !.status = "FINALIZED"]
        /\ \A m \in Notes : m # n => note'[m] = note[m]
    BY <2>3 DEF IInv, TypeOK, ReceivingTypeOK
  <2>7. \A m \in Notes : /\ note'[m].order = note[m].order
                         /\ note'[m].status = IF m = n THEN "FINALIZED" ELSE note[m].status
    BY <2>5, <2>6
  <2>8. note' \in [Notes -> [status : {"NONE", "DRAFT", "FINALIZED"}, order : MaybeOrder, lines : Lines]]
    BY <2>3, <2>5, <2>6 DEF IInv, TypeOK, ReceivingTypeOK
  <2>9. Grows
    BY <2>7 DEF Grows, Approved, Opened, Final
  <2>10. TotalAfter(k) \in Quantities
    <3>1. /\ dock[k].base \in Quantities
          /\ Arrived(dock[k].lines) \in Quantities
      BY ArrivedType DEF IInv, TypeOK, ReceivingTypeOK
    <3>2. \A t \in Skus : dock[k].base[t] + Arrived(dock[k].lines)[t] \in Nat /\ dock[k].base[t] + 0 \in Nat
      BY <3>1 DEF Quantities
    <3> QED
      BY <3>2 DEF TotalAfter, Quantities
  <2>11. /\ said \in [status : {"NONE", "EXPECTED", "PARTIALLY_RECEIVED", "RECEIVED"}, received : Quantities]
         /\ said.status = "RECEIVED" => Full(o, said.received)
    BY <2>10
  <2> HIDE DEF row, said
  <2>12. expected' \in [Orders -> [status : {"NONE", "EXPECTED", "PARTIALLY_RECEIVED", "RECEIVED"},
                                   received : Quantities]]
    BY <2>3, <2>11 DEF IInv, TypeOK, ReceivingTypeOK
  <2>13. dock' \in [Docks -> DockRows] /\ DockInv'
    <3>1. note'[row.note[1]].status = "FINALIZED"
      BY <2>4, <2>7
    <3>2. dock' = [dock EXCEPT ![k] = row]
      BY <2>3
    <3>3. \E m \in Notes : row.note = <<m>> /\ Opened(m)
      BY <2>2, <2>4
    <3> QED
      BY ONLY IInv, k \in Docks, <2>4, <2>9, <3>1, <3>2, <3>3, DockStep
  <2>14. TypeOK'
    BY <2>3, <2>8, <2>12, <2>13, DockTypes DEF IInv, TypeOK, ReceivingTypeOK
  <2>15. NotesInv'
    <3> SUFFICES ASSUME NEW m \in Notes, Opened(m)'
                 PROVE  \E p \in Orders : note'[m].order = <<p>> /\ Approved(p)'
      BY DEF NotesInv
    <3>1. Opened(m)
      BY <2>2, <2>7 DEF Opened
    <3> QED
      BY <3>1, <2>9 DEF IInv, NotesInv, Grows
  <2>16. SaidComplete'
    BY <2>3, <2>11 DEF IInv, TypeOK, ReceivingTypeOK, SaidComplete
  <2> QED
    BY <2>3, <2>9, <2>13, <2>14, <2>15, <2>16, Kept DEF IInv
<1> QED
  BY <1>1, <1>2, <1>3

LEMMA AnnounceIInv == ASSUME IInv, NEW k \in Docks, Announce(k) PROVE IInv'
<1>1. PICK n \in Notes : dock[k].note = <<n>> /\ Final(n)
  BY DEF IInv, DockInv, Announce, FinalizePublish
<1> DEFINE r == <<n, k>>
<1>2. /\ event' = [event EXCEPT ![r] = dock[k].lines]
      /\ mail' = [mail EXCEPT ![<<"procurement", r>>] = Queued]
      /\ dock' = [dock EXCEPT ![k] = NoDock]
      /\ UNCHANGED <<procurementVars, expected, note, awaiting, scans, twice, faults>>
  BY <1>1 DEF Announce, FinalizePublish
<1>3. r \in Receipts /\ r[1] = n
  BY ReceiptFacts
<1> HIDE DEF r
<1>4. Grows
  BY <1>2, Still DEF procurementVars
<1>5. dock' \in [Docks -> DockRows] /\ DockInv'
  BY <1>2, <1>4, IdleRow, DockStep
<1>6. TypeOK'
  <2>1. event' \in [Receipts -> Lines]
    BY <1>2 DEF IInv, TypeOK, ReceivingTypeOK
  <2>2. mail' \in [Messages -> Mail]
    BY <1>2, MailTypes DEF IInv, TypeOK, Mail
  <2> QED
    BY <1>2, <1>5, <2>1, <2>2 DEF IInv, TypeOK, ProcurementTypeOK, ReceivingTypeOK, procurementVars, DockRows, Mail
<1>7. MailInv'
  <2> SUFFICES ASSUME NEW q \in Receipts, mail'[<<"procurement", q>>].state # "none"
               PROVE  note'[q[1]].status = "FINALIZED"
    BY DEF MailInv, Final
  <2>1. CASE q = r
    BY <1>1, <1>2, <1>3, <2>1 DEF Final
  <2>2. CASE q # r
    <3>1. mail'[<<"procurement", q>>] = mail[<<"procurement", q>>]
      BY <1>2, <2>2, ReceiptFacts DEF IInv, TypeOK
    <3> QED
      BY <1>2, <3>1 DEF IInv, MailInv, Final
  <2> QED
    BY <2>1, <2>2
<1> QED
  BY <1>2, <1>4, <1>5, <1>6, <1>7, Kept DEF IInv, procurementVars

-----------------------------------------------------------------------------
(* The queues and their handlers.                                           *)

IntakeRows == [step : {"idle", "read", "write", "done"}, receipt : {<<>>} \cup Receipts,
               status : OrderStatuses, received : Quantities]
AwaitRows == [step : {"idle", "find", "create", "done", "failed"}, order : MaybeOrder]

LEMMA IdleHandlers ==
    /\ NoIntake \in IntakeRows /\ NoIntake.step = "idle"
    /\ NoAwaiting \in AwaitRows /\ NoAwaiting.step = "idle"
BY NothingType DEF NoIntake, IntakeRows, NoAwaiting, AwaitRows, MaybeOrder, OrderStatuses

(* What must be true of what a GoodsReceived handler comes to remember.     *)
LEMMA IntakeStep ==
    ASSUME IInv, Grows, NEW w \in Slots, NEW row \in IntakeRows,
           intake' = [intake EXCEPT ![w] = row],
           row.step # "idle" => row.receipt \in Receipts /\ Final(row.receipt[1]),
           (row.step = "write" /\ row.status = "CLOSED") => Full(OrderOf(row.receipt), row.received)
    PROVE  intake' \in [Slots -> IntakeRows] /\ IntakeInv'
<1>1. intake \in [Slots -> IntakeRows]
  BY DEF IInv, TypeOK, ProcurementTypeOK, IntakeRows
<1>2. intake' \in [Slots -> IntakeRows] /\ intake'[w] = row
  BY <1>1
<1>3. ASSUME NEW v \in Slots, NEW old \in IntakeRows, intake'[v] = old,
             old.step # "idle" => old.receipt \in Receipts /\ Final(old.receipt[1]),
             (old.step = "write" /\ old.status = "CLOSED") => Full(OrderOf(old.receipt), old.received)
      PROVE  /\ intake'[v].step # "idle" =>
                   intake'[v].receipt \in Receipts /\ note'[intake'[v].receipt[1]].status = "FINALIZED"
             /\ (intake'[v].step = "write" /\ intake'[v].status = "CLOSED") =>
                   Full(note'[intake'[v].receipt[1]].order[1], intake'[v].received)
  <2>1. CASE old.step = "idle"
    BY <1>3, <2>1
  <2>2. CASE old.step # "idle"
    <3>1. old.receipt \in Receipts /\ Final(old.receipt[1]) /\ old.receipt[1] \in Notes
      BY <1>3, <2>2, ReceiptFacts
    <3>2. note'[old.receipt[1]].order = note[old.receipt[1]].order
      BY <3>1 DEF Grows, Final, Opened
    <3>3. note'[old.receipt[1]].status = "FINALIZED"
      BY <3>1 DEF Grows, Final
    <3> QED
      BY <1>3, <3>1, <3>2, <3>3 DEF OrderOf
  <2> QED
    BY <2>1, <2>2
<1>4. IntakeInv'
  <2> SUFFICES ASSUME NEW v \in Slots
               PROVE  /\ intake'[v].step # "idle" =>
                            intake'[v].receipt \in Receipts /\ note'[intake'[v].receipt[1]].status = "FINALIZED"
                      /\ (intake'[v].step = "write" /\ intake'[v].status = "CLOSED") =>
                            Full(note'[intake'[v].receipt[1]].order[1], intake'[v].received)
    BY DEF IntakeInv, Final, OrderOf, Full
  <2>1. CASE v = w
    BY <1>2, <1>3, <2>1
  <2>2. CASE v # w
    <3>1. intake'[v] = intake[v] /\ intake[v] \in IntakeRows
      BY <1>1, <2>2
    <3> QED
      BY <1>3, <3>1 DEF IInv, IntakeInv
  <2> QED
    BY <2>1, <2>2
<1> QED
  BY <1>2, <1>4

LEMMA AwaitStep ==
    ASSUME IInv, NEW w \in Slots, NEW row \in AwaitRows,
           awaiting' = [awaiting EXCEPT ![w] = row],
           row.step # "idle" => \E o \in Orders : row.order = <<o>>
    PROVE  awaiting' \in [Slots -> AwaitRows] /\ AwaitInv'
<1>1. awaiting \in [Slots -> AwaitRows]
  BY DEF IInv, TypeOK, ReceivingTypeOK, AwaitRows
<1>2. \A v \in Slots : awaiting'[v] = IF v = w THEN row ELSE awaiting[v]
  BY <1>1
<1> QED
  BY <1>1, <1>2 DEF IInv, AwaitInv

(* A message that did not exist may only come to exist for a final note.    *)
LEMMA MailStep ==
    ASSUME IInv, Grows,
           \A r \in Receipts : mail'[<<"procurement", r>>].state # "none" =>
               mail[<<"procurement", r>>].state # "none" \/ Final(r[1])
    PROVE  MailInv'
BY ReceiptFacts DEF IInv, MailInv, Grows, Final

LEMMA SettleStep ==
    ASSUME IInv, Grows, NEW m \in Messages, NEW w \in Slots, NEW outcome \in Mail,
           Settle(m, w, outcome),
           \A r \in Receipts : m = <<"procurement", r>> => Final(r[1])
    PROVE  mail' \in [Messages -> Mail] /\ MailInv'
<1>1. mail \in [Messages -> Mail]
  BY DEF IInv, TypeOK, Mail
<1>2. mail' \in [Messages -> Mail]
  BY <1>1 DEF Settle
<1>3. \A r \in Receipts : mail'[<<"procurement", r>>].state # "none" =>
          mail[<<"procurement", r>>].state # "none" \/ Final(r[1])
  BY <1>1, ReceiptFacts DEF Settle
<1> QED
  BY <1>2, <1>3, MailStep

(* Types: a step that leaves requests, notes and events alone.              *)
LEMMA QueueTypes ==
    ASSUME IInv, intake' \in [Slots -> IntakeRows], awaiting' \in [Slots -> AwaitRows],
           mail' \in [Messages -> Mail], faults' \in Nat,
           order' \in [Orders -> [status : OrderStatuses, received : Quantities,
                                  approver : {"none", "OWNER", "MANAGER"}]],
           processed' \subseteq [note : Notes, by : Docks],
           expected' \in [Orders -> [status : {"NONE", "EXPECTED", "PARTIALLY_RECEIVED", "RECEIVED"},
                                     received : Quantities]],
           UNCHANGED <<desk, note, dock, event, scans, twice>>
    PROVE  TypeOK'
BY DEF IInv, TypeOK, ProcurementTypeOK, ReceivingTypeOK, IntakeRows, AwaitRows, Mail

LEMMA TypesNow ==
    ASSUME IInv
    PROVE  /\ intake \in [Slots -> IntakeRows] /\ awaiting \in [Slots -> AwaitRows]
           /\ mail \in [Messages -> Mail] /\ faults \in Nat
           /\ order \in [Orders -> [status : OrderStatuses, received : Quantities,
                                    approver : {"none", "OWNER", "MANAGER"}]]
           /\ processed \subseteq [note : Notes, by : Docks]
           /\ expected \in [Orders -> [status : {"NONE", "EXPECTED", "PARTIALLY_RECEIVED", "RECEIVED"},
                                       received : Quantities]]
BY DEF IInv, TypeOK, ProcurementTypeOK, ReceivingTypeOK, IntakeRows, AwaitRows, Mail

LEMMA DeliverIInv == ASSUME IInv, NEW w \in Slots, Deliver(w) PROVE IInv'
<1>1. UNCHANGED <<order, processed, desk, expected, note, dock, event, scans, twice, faults>>
  BY DEF Deliver
<1>2. Grows
  BY <1>1, Still
<1>3. ASSUME NEW m \in Messages, Take(m, w)
      PROVE  mail' \in [Messages -> Mail] /\ MailInv'
  <2>1. [state |-> "inflight", redelivered |-> mail[m].redelivered, holder |-> <<w>>] \in Mail
    BY TypesNow DEF Mail
  <2>2. mail' \in [Messages -> Mail]
    BY <1>3, <2>1, TypesNow DEF Take
  <2>3. \A r \in Receipts : mail'[<<"procurement", r>>].state # "none" =>
            mail[<<"procurement", r>>].state # "none"
    BY <1>3, TypesNow, ReceiptFacts DEF Take
  <2> QED
    BY <1>2, <2>2, <2>3, MailStep
<1>4. ASSUME NEW o \in Orders, Take(<<"receiving", o>>, w),
             awaiting' = [awaiting EXCEPT ![w] = [step |-> "find", order |-> <<o>>]], UNCHANGED intake
      PROVE  IInv'
  <2>1. [step |-> "find", order |-> <<o>>] \in AwaitRows
    BY DEF AwaitRows, MaybeOrder
  <2>2. awaiting' \in [Slots -> AwaitRows] /\ AwaitInv'
    BY <1>4, <2>1, AwaitStep
  <2>3. mail' \in [Messages -> Mail] /\ MailInv'
    BY <1>3, <1>4, ReceiptFacts
  <2>4. TypeOK'
    BY <1>1, <1>4, <2>2, <2>3, TypesNow, QueueTypes
  <2> QED
    BY <1>1, <1>2, <1>4, <2>2, <2>3, <2>4, Kept DEF IInv
<1>5. ASSUME NEW r \in Receipts, Take(<<"procurement", r>>, w), UNCHANGED awaiting,
             intake' = [intake EXCEPT ![w] = [NoIntake EXCEPT !.step = "read", !.receipt = r]]
      PROVE  IInv'
  <2> DEFINE row == [NoIntake EXCEPT !.step = "read", !.receipt = r]
  <2>1. row \in IntakeRows /\ row.step = "read" /\ row.receipt = r
    BY IdleHandlers DEF IntakeRows, NoIntake
  <2>2. Final(r[1])
    BY <1>5 DEF Take, IInv, MailInv
  <2>3. intake' = [intake EXCEPT ![w] = row]
    BY <1>5
  <2> HIDE DEF row
  <2>4. intake' \in [Slots -> IntakeRows] /\ IntakeInv'
    BY <1>2, <2>1, <2>2, <2>3, IntakeStep
  <2>5. mail' \in [Messages -> Mail] /\ MailInv'
    BY <1>3, <1>5, ReceiptFacts
  <2>6. TypeOK'
    BY <1>1, <1>5, <2>4, <2>5, TypesNow, QueueTypes
  <2> QED
    BY <1>1, <1>2, <1>5, <2>4, <2>5, <2>6, Kept DEF IInv
<1> QED
  BY <1>4, <1>5 DEF Deliver

(* A handler stops, and the broker may be told how.                         *)
LEMMA AwaitEnds ==
    ASSUME IInv, NEW w \in Slots, awaiting[w].step # "idle", NEW outcome \in Mail,
           Settle(<<"receiving", awaiting[w].order[1]>>, w, outcome),
           awaiting' = [awaiting EXCEPT ![w] = NoAwaiting], faults' \in Nat,
           UNCHANGED <<procurementVars, expected, note, dock, event, scans, twice>>
    PROVE  IInv'
<1> USE DEF procurementVars
<1>1. Grows
  BY Still
<1>2. <<"receiving", awaiting[w].order[1]>> \in Messages
  BY ReceiptFacts DEF IInv, AwaitInv
<1>3. mail' \in [Messages -> Mail] /\ MailInv'
  BY <1>1, <1>2, SettleStep
<1>4. awaiting' \in [Slots -> AwaitRows] /\ AwaitInv'
  BY IdleHandlers, AwaitStep
<1>5. TypeOK'
  BY <1>3, <1>4, TypesNow, QueueTypes
<1> QED
  BY <1>1, <1>3, <1>4, <1>5, Kept DEF IInv

LEMMA IntakeEnds ==
    ASSUME IInv, NEW w \in Slots, intake[w].step # "idle", NEW outcome \in Mail,
           Settle(<<"procurement", intake[w].receipt>>, w, outcome),
           intake' = [intake EXCEPT ![w] = NoIntake], faults' \in Nat,
           UNCHANGED <<order, processed, desk, receivingVars>>
    PROVE  IInv'
<1> USE DEF receivingVars
<1>1. Grows
  BY Still
<1>2. intake[w].receipt \in Receipts /\ Final(intake[w].receipt[1])
  BY DEF IInv, IntakeInv
<1>3. mail' \in [Messages -> Mail] /\ MailInv'
  BY <1>1, <1>2, ReceiptFacts, SettleStep
<1>4. intake' \in [Slots -> IntakeRows] /\ IntakeInv'
  BY <1>1, IdleHandlers, IntakeStep
<1>5. TypeOK'
  BY <1>3, <1>4, TypesNow, QueueTypes
<1> QED
  BY <1>1, <1>3, <1>4, <1>5, Kept DEF IInv

LEMMA EndIInv ==
    ASSUME IInv, NEW w \in Slots, Ack(w) \/ Conflict(w) \/ Throws(w)
    PROVE  IInv'
<1> USE DEF procurementVars, receivingVars
<1>1. CASE Ack(w)
  BY <1>1, MailTypes, TypesNow, AwaitEnds, IntakeEnds DEF Ack
<1>2. CASE Conflict(w)
  BY <1>2, MailTypes, TypesNow, AwaitEnds DEF Conflict
<1>3. CASE Throws(w)
  <2>1. faults' \in Nat
    BY <1>3, TypesNow DEF Throws, Fault
  <2> QED
    BY <1>3, <2>1, MailTypes, AwaitEnds, IntakeEnds DEF Throws
<1> QED
  BY <1>1, <1>2, <1>3

LEMMA AwaitIInv ==
    ASSUME IInv, NEW w \in Slots, AwaitFind(w) \/ AwaitCreate(w),
           UNCHANGED <<procurementVars, mail, faults>>
    PROVE  IInv'
<1> USE DEF procurementVars
<1>1. PICK o \in Orders : awaiting[w].order = <<o>>
  BY DEF IInv, AwaitInv, AwaitFind, AwaitCreate
<1>2. /\ expected' = expected \/ (expected' = [expected EXCEPT ![o] = Fresh])
      /\ UNCHANGED <<note, dock, event, scans, twice>>
  BY <1>1 DEF AwaitFind, AwaitCreate
<1>3. PICK s \in {"create", "done", "failed"} : awaiting' = [awaiting EXCEPT ![w].step = s]
  BY DEF AwaitFind, AwaitCreate
<1> DEFINE row == [awaiting[w] EXCEPT !.step = s]
<1>4. awaiting' = [awaiting EXCEPT ![w] = row]
  BY <1>3
<1>5. row \in AwaitRows /\ row.order = <<o>>
  BY <1>1, TypesNow DEF AwaitRows
<1> HIDE DEF row
<1>6. awaiting' \in [Slots -> AwaitRows] /\ AwaitInv'
  BY <1>4, <1>5, AwaitStep
<1>7. Grows
  BY <1>2, Still
<1>8. expected' \in [Orders -> [status : {"NONE", "EXPECTED", "PARTIALLY_RECEIVED", "RECEIVED"},
                                received : Quantities]]
  BY <1>2, NothingType, TypesNow DEF Fresh
<1>9. TypeOK'
  BY <1>2, <1>6, <1>8, TypesNow, QueueTypes
<1>10. SaidComplete'
  BY <1>2, TypesNow DEF IInv, SaidComplete, Fresh
<1> QED
  BY <1>2, <1>6, <1>7, <1>9, <1>10, Kept DEF IInv

(* The GoodsReceived handler.                                               *)
LEMMA ApplyIInv ==
    ASSUME IInv, NEW w \in Slots, intake[w].step # "idle",
           UNCHANGED <<receivingVars, mail, faults>>,
           \/ ApplyRead(w, OrderOf(intake[w].receipt))
           \/ ApplySkip(w)
           \/ ApplyWrite(w, OrderOf(intake[w].receipt), Arrived(event[intake[w].receipt]))
    PROVE  IInv'
<1> USE DEF receivingVars
<1> DEFINE r == intake[w].receipt
           o == OrderOf(r)
           was == intake[w]
<1>1. r \in Receipts /\ Final(r[1]) /\ r[1] \in Notes /\ r[2] \in Docks
  BY ReceiptFacts DEF IInv, IntakeInv
<1>2. o \in Orders /\ Approved(o)
  BY <1>1 DEF IInv, NotesInv, OrderOf, Opened, Final
<1>3. was \in IntakeRows
  BY TypesNow
<1>4. CASE ApplyRead(w, o)
  <2> DEFINE row == [step |-> "write", receipt |-> r, status |-> order[o].status,
                     received |-> order[o].received]
  <2>1. intake' = [intake EXCEPT ![w] = row] /\ UNCHANGED <<order, processed, desk>>
    BY <1>4 DEF ApplyRead
  <2>2. row \in IntakeRows
    BY <1>1, <1>2, TypesNow DEF IntakeRows
  <2>3. row.status = "CLOSED" => Full(OrderOf(row.receipt), row.received)
    BY <1>2 DEF IInv, SaidComplete
  <2>4. row.receipt = r
    OBVIOUS
  <2>5. Grows
    BY <2>1, Still
  <2> HIDE DEF row
  <2>6. intake' \in [Slots -> IntakeRows] /\ IntakeInv'
    BY <1>1, <2>1, <2>2, <2>3, <2>4, <2>5, IntakeStep
  <2>7. TypeOK'
    BY <2>1, <2>6, TypesNow, QueueTypes
  <2> QED
    BY <2>1, <2>5, <2>6, <2>7, Kept DEF IInv
<1> DEFINE rest == [NoIntake EXCEPT !.step = "done", !.receipt = r]
<1>5. rest \in IntakeRows /\ rest.receipt = r /\ rest.step = "done"
  BY <1>1, IdleHandlers DEF IntakeRows, NoIntake
<1>6. ASSUME Finished(w), Grows PROVE intake' \in [Slots -> IntakeRows] /\ IntakeInv'
  <2>1. intake' = [intake EXCEPT ![w] = rest]
    BY <1>6 DEF Finished
  <2> HIDE DEF rest
  <2> QED
    BY <1>1, <1>5, <1>6, <2>1, IntakeStep
<1>7. CASE ApplySkip(w)
  <2>1. Grows
    BY <1>7, Still DEF ApplySkip
  <2>2. intake' \in [Slots -> IntakeRows] /\ IntakeInv'
    BY <1>6, <1>7, <2>1 DEF ApplySkip
  <2>3. TypeOK'
    BY <1>7, <2>2, TypesNow, QueueTypes DEF ApplySkip
  <2> QED
    BY <1>7, <2>1, <2>2, <2>3, Kept DEF IInv, ApplySkip
<1>8. CASE ApplyWrite(w, o, Arrived(event[r]))
  <2> DEFINE arrived == Arrived(event[r])
             after == [s \in Skus |-> was.received[s] + (IF s \in LinesOf(o) THEN arrived[s] ELSE 0)]
             row == [status |-> StatusAfter(o, was.status, after), received |-> after,
                     approver |-> order[o].approver]
  <2>1. /\ was.step = "write"
        /\ processed' = processed \cup {[note |-> r[1], by |-> r[2]]}
        /\ order' = [order EXCEPT ![o] = row]
        /\ Finished(w)
        /\ UNCHANGED desk
    BY <1>8 DEF ApplyWrite
  <2>2. was.received \in Quantities /\ arrived \in Quantities
    BY <1>1, <1>3, ArrivedType DEF IntakeRows, IInv, TypeOK, ReceivingTypeOK
  <2>3. \A s \in Skus : after[s] \in Nat /\ after[s] >= was.received[s]
    BY <2>2 DEF Quantities
  <2>4. after \in Quantities
    BY <2>3 DEF Quantities
  <2>5. was.status = "CLOSED" => Full(o, was.received)
    BY <2>1 DEF IInv, IntakeInv
  <2>6. Full(o, was.received) => Full(o, after)
    <3> SUFFICES ASSUME Full(o, was.received), NEW s \in LinesOf(o)
                 PROVE  after[s] >= Ordered[o][s]
      BY DEF Full
    <3>1. was.received[s] >= Ordered[o][s] /\ s \in Skus
      BY DEF Full, LinesOf
    <3>2. Ordered[o][s] \in Nat /\ was.received[s] \in Nat
      BY <1>2, <2>2, <3>1, OrderAssumption DEF Quantities
    <3> HIDE DEF after, was
    <3> QED
      BY <2>3, <3>1, <3>2
  <2> HIDE DEF after
  <2>7. /\ row.status \in {"CLOSED", "PARTIALLY_RECEIVED"}
        /\ row.status = "CLOSED" => Full(o, row.received)
    BY <2>5, <2>6 DEF StatusAfter
  <2>8. /\ row \in [status : OrderStatuses, received : Quantities, approver : {"none", "OWNER", "MANAGER"}]
        /\ row.approver = order[o].approver
    BY <1>2, <2>4, <2>7, TypesNow DEF OrderStatuses
  <2> HIDE DEF row
  <2>9. /\ \A p \in Orders : order'[p] = IF p = o THEN row ELSE order[p]
        /\ order' \in [Orders -> [status : OrderStatuses, received : Quantities,
                                  approver : {"none", "OWNER", "MANAGER"}]]
    BY <2>1, <2>8, TypesNow
  <2>10. Grows
    BY <1>2, <2>8, <2>9 DEF Grows, Approved, Opened, Final
  <2>11. intake' \in [Slots -> IntakeRows] /\ IntakeInv'
    BY <1>6, <2>1, <2>10
  <2>12. processed' \subseteq [note : Notes, by : Docks]
    BY <1>1, <2>1, TypesNow
  <2>13. TypeOK'
    BY <2>1, <2>9, <2>11, <2>12, TypesNow, QueueTypes
  <2>14. OrdersInv'
    BY <1>2, <2>8, <2>9 DEF IInv, OrdersInv, Approved
  <2>15. CountedInv'
    BY <1>1, <2>1 DEF IInv, CountedInv, Final
  <2>16. SaidComplete'
    BY <2>7, <2>9 DEF IInv, SaidComplete
  <2> QED
    BY <2>1, <2>10, <2>11, <2>13, <2>14, <2>15, <2>16, Kept DEF IInv
<1> QED
  BY <1>4, <1>7, <1>8

-----------------------------------------------------------------------------
(* Failures, and the invariant.                                             *)

LEMMA BackIInv ==
    ASSUME IInv, NEW service, BackToQueue(service), Grows
    PROVE  mail' \in [Messages -> Mail] /\ MailInv'
<1>1. mail' \in [Messages -> Mail]
  BY TypesNow, MailTypes DEF BackToQueue
<1>2. \A r \in Receipts : mail'[<<"procurement", r>>].state # "none" =>
          mail[<<"procurement", r>>].state # "none"
  BY ReceiptFacts DEF BackToQueue
<1> QED
  BY <1>1, <1>2, MailStep

LEMMA LossIInv ==
    ASSUME IInv, NEW service, ChannelLost(service) \/ Crash(service)
    PROVE  IInv'
<1>1. /\ BackToQueue(service)
      /\ UNCHANGED <<order, processed, expected, note, event, scans, twice>>
      /\ faults' \in Nat
  BY TypesNow DEF ChannelLost, Crash, Fault, procurementVars, receivingVars
<1>2. Grows
  BY <1>1, Still
<1>3. mail' \in [Messages -> Mail] /\ MailInv'
  BY <1>1, <1>2, BackIInv
<1>4. /\ desk' = desk \/ desk' = [b \in Buyers |-> NoDesk]
      /\ intake' = intake \/ intake' = [w \in Slots |-> NoIntake]
      /\ dock' = dock \/ dock' = [k \in Docks |-> NoDock]
      /\ awaiting' = awaiting \/ awaiting' = [w \in Slots |-> NoAwaiting]
  BY DEF ChannelLost, Crash, procurementVars, receivingVars
<1>5. /\ DeskInv'
      /\ desk' \in [Buyers -> [op : {"none", "submit", "approve", "publish", "send"},
                               order : {<<>>} \cup {<<o>> : o \in Orders}]]
  BY <1>2, <1>4, Kept DEF DeskInv, NoDesk, IInv, TypeOK, ProcurementTypeOK
<1>6. IntakeInv' /\ intake' \in [Slots -> IntakeRows]
  BY <1>2, <1>4, Kept, TypesNow, IdleHandlers DEF IntakeInv
<1>7. DockInv' /\ dock' \in [Docks -> DockRows]
  BY <1>2, <1>4, Kept, IdleRow DEF DockInv, DockRows, IInv, TypeOK, ReceivingTypeOK
<1>8. AwaitInv' /\ awaiting' \in [Slots -> AwaitRows]
  BY <1>2, <1>4, Kept, TypesNow, IdleHandlers DEF AwaitInv
<1>9. TypeOK'
  BY <1>1, <1>3, <1>5, <1>6, <1>7, <1>8
     DEF IInv, TypeOK, ProcurementTypeOK, ReceivingTypeOK, IntakeRows, AwaitRows, DockRows, Mail
<1> QED
  BY <1>1, <1>2, <1>3, <1>5, <1>6, <1>7, <1>8, <1>9, Kept DEF IInv

LEMMA StepIInv == IInv /\ [Next]_vars => IInv'
<1> SUFFICES ASSUME IInv, [Next]_vars PROVE IInv'
  OBVIOUS
<1>1. CASE UNCHANGED vars
  <2>1. UNCHANGED <<order, processed, desk, intake, expected, note, dock, awaiting, event, scans, twice,
                    mail, faults>>
    BY <1>1 DEF vars, procurementVars, receivingVars
  <2>2. Grows
    BY <2>1, Still
  <2>3. TypeOK'
    BY <2>1 DEF IInv, TypeOK, ProcurementTypeOK, ReceivingTypeOK
  <2> QED
    BY <2>1, <2>2, <2>3, Kept DEF IInv
<1>2. ASSUME NEW b \in Buyers, Office(b) \/ PublishApproval(b) PROVE IInv'
  BY <1>2, OfficeIInv, PublishIInv
<1>3. ASSUME NEW k \in Docks, Unload(k) \/ Announce(k) PROVE IInv'
  BY <1>3, CreateIInv, ScanIInv, FinalizeIInv, AnnounceIInv DEF Unload
<1>4. ASSUME NEW w \in Slots, Deliver(w) \/ Handle(w) \/ Throws(w) PROVE IInv'
  <2>1. CASE Deliver(w)
    BY <2>1, DeliverIInv
  <2>2. CASE Throws(w)
    BY <2>2, EndIInv
  <2>3. CASE Handle(w)
    BY <2>3, AwaitIInv, ApplyIInv, EndIInv DEF Handle, ApplySkip
  <2> QED
    BY <1>4, <2>1, <2>2, <2>3
<1>5. ASSUME NEW s \in Services, ChannelLost(s) \/ Crash(s) PROVE IInv'
  BY <1>5, LossIInv
<1> QED
  BY <1>1, <1>2, <1>3, <1>4, <1>5 DEF Next

(* The inductive invariant holds in every reachable state.                  *)
THEOREM Invariant == Spec => []IInv
BY InitIInv, StepIInv, PTL DEF Spec

(* The tables, requests, handlers and messages keep their types.            *)
THEOREM TypeCorrect == Spec => []TypeOK
<1>1. IInv => TypeOK
  BY DEF IInv
<1> QED
  BY <1>1, Invariant, PTL

(* A truck is only unloaded for an order somebody with the right to do so   *)
(* approved, however requests and stale status writes interleave.           *)
THEOREM UnloadedMeansApproved == Spec => []NothingReceivedUnapproved
<1>1. IInv => NothingReceivedUnapproved
  <2> SUFFICES ASSUME IInv, NEW n \in Notes, note[n].status # "NONE"
               PROVE  /\ order[note[n].order[1]].approver # "none"
                      /\ note[n].order[1] \in Big => order[note[n].order[1]].approver = "OWNER"
    BY DEF NothingReceivedUnapproved
  <2>1. PICK o \in Orders : note[n].order = <<o>> /\ Approved(o)
    BY DEF IInv, NotesInv, Opened
  <2> QED
    BY <2>1 DEF IInv, OrdersInv, Approved
<1> QED
  BY <1>1, Invariant, PTL

(* GoodsReceived never leaves Receiving before the note is final, so        *)
(* Procurement counts only final notes.                                     *)
THEOREM OnlyFinalCounted == Spec => []CountedNotesAreFinal
<1>1. IInv => CountedNotesAreFinal
  BY DEF IInv, CountedInv, CountedNotesAreFinal, Counted, Final
<1> QED
  BY <1>1, Invariant, PTL

-----------------------------------------------------------------------------
(* Totals.  Lines only grow, so what an event or a dock worker carries is   *)
(* at most what the note says now, and a handler read of the order at most  *)
(* what is counted for it now.                                              *)
LowLines(lines, n) == \A s \in Skus : Arrived(lines)[s] <= ArrivedOn(n)[s]
LowRead(o, received) == \A s \in LinesOf(o) : received[s] <= Total(CountedNotes(o), s)
Carries == {"total", "commit", "publish"}

NotesEmpty == \A n \in Notes : ~ Opened(n) => note[n].lines = NoLines
EventsLow == \A r \in Receipts : LowLines(event[r], r[1])
DocksLow == \A k \in Docks : dock[k].step \in Carries => LowLines(dock[k].lines, dock[k].note[1])
ReadsLow == \A w \in Slots : intake[w].step = "write" =>
                LowRead(OrderOf(intake[w].receipt), intake[w].received)
CreditInv == NotesEmpty /\ EventsLow /\ DocksLow /\ ReadsLow /\ NeverMoreThanArrived

(* No step takes units from a note, or a note from those counted.           *)
Climbs ==
    /\ Grows
    /\ \A n \in Notes, s \in Skus : Arrived(note[n].lines)[s] <= Arrived(note'[n].lines)[s]
    /\ \A n \in Notes : Counted(n) => Counted(n)'

LEMMA SameClimbs ==
    ASSUME IInv, note' = note, Grows, processed \subseteq processed'
    PROVE  Climbs
<1>1. \A n \in Notes, s \in Skus : Arrived(note[n].lines)[s] \in Nat
  BY ArrivedType DEF IInv, TypeOK, ReceivingTypeOK, Quantities
<1>2. \A n \in Notes : Counted(n) => Counted(n)'
  BY DEF Counted
<1> QED
  BY <1>1, <1>2 DEF Climbs

(* What arrived on the notes of a set, as a sum of naturals.                *)
LEMMA NotesSum ==
    ASSUME IInv, NEW s \in Skus, NEW S \in SUBSET Notes
    PROVE  /\ IsFiniteSet(S)
           /\ \A n \in Notes : ArrivedOn(n)[s] \in Nat
           /\ Total(S, s) \in Nat
<1>1. \A n \in Notes : ArrivedOn(n)[s] \in Nat
  BY ArrivedType DEF IInv, TypeOK, ReceivingTypeOK, Quantities, ArrivedOn
<1>2. IsFiniteSet(S)
  BY OrderAssumption, FS_Subset
<1> DEFINE f == [n \in Notes |-> ArrivedOn(n)[s]]
<1>3. \A n \in S : f[n] \in Nat
  BY <1>1
<1>4. Total(S, s) = SumFunctionOnSet(f, S)
  BY DEF Total
<1> HIDE DEF f
<1>5. Total(S, s) \in Nat
  BY <1>2, <1>3, <1>4, SumNat
<1> QED
  BY <1>1, <1>2, <1>5

LEMMA TotalsClimb ==
    ASSUME IInv, IInv', Climbs, NEW o \in Orders, NEW s \in Skus
    PROVE  Total(CountedNotes(o), s) <= Total(CountedNotes(o), s)'
<1> DEFINE f == [n \in Notes |-> ArrivedOn(n)[s]]
           g == [n \in Notes |-> Arrived(note'[n].lines)[s]]
           S == CountedNotes(o)
<1>1. PICK T : T = CountedNotes(o)'
  OBVIOUS
<1>2. Total(S, s) = SumFunctionOnSet(f, S) /\ Total(S, s)' = SumFunctionOnSet(g, S')
  BY DEF Total, ArrivedOn
<1>3. S \subseteq Notes /\ T \subseteq Notes /\ S \subseteq T
  <2>1. S \subseteq Notes /\ T \subseteq Notes
    BY <1>1 DEF CountedNotes, NotesOf
  <2>2. ASSUME NEW n \in S PROVE n \in T
    <3>1. n \in Notes /\ Opened(n) /\ Final(n) /\ note[n].order = <<o>> /\ Counted(n)
      BY DEF CountedNotes, NotesOf, Opened, Final
    <3>2. Final(n)' /\ note'[n].order = <<o>> /\ Counted(n)'
      BY <3>1 DEF Climbs, Grows
    <3> QED
      BY <1>1, <3>1, <3>2 DEF CountedNotes, NotesOf, Final
  <2> QED
    BY <2>1, <2>2
<1>4. IsFiniteSet(S) /\ IsFiniteSet(T)
  BY <1>3, OrderAssumption, FS_Subset
<1>5. \A n \in Notes : f[n] \in Nat /\ g[n] \in Nat /\ f[n] <= g[n]
  <2>1. \A n \in Notes : Arrived(note[n].lines)[s] \in Nat /\ Arrived(note'[n].lines)[s] \in Nat
    BY ArrivedType DEF IInv, TypeOK, ReceivingTypeOK, Quantities
  <2> QED
    BY <2>1 DEF Climbs, ArrivedOn
<1> HIDE DEF f, g, S
<1>6. \A n \in S : f[n] \in Int /\ g[n] \in Int /\ f[n] <= g[n]
  BY <1>3, <1>5
<1>7. SumFunctionOnSet(f, S) <= SumFunctionOnSet(g, S)
  BY <1>4, <1>6, SumMonotone DEF Ints
<1>8. \A n \in T : g[n] \in Nat
  BY <1>3, <1>5
<1>9. SumFunctionOnSet(g, S) <= SumFunctionOnSet(g, T)
  BY <1>3, <1>4, <1>8, SumFewer
<1>10. /\ SumFunctionOnSet(f, S) \in Int /\ SumFunctionOnSet(g, S) \in Int
       /\ SumFunctionOnSet(g, T) \in Int
  BY <1>4, <1>6, <1>8, SumInt DEF Ints
<1>11. Total(CountedNotes(o), s) = SumFunctionOnSet(f, S)
  BY <1>2 DEF S
<1>12. Total(CountedNotes(o), s)' = SumFunctionOnSet(g, T)
  BY <1>1, <1>2 DEF S
<1> QED
  BY <1>7, <1>9, <1>10, <1>11, <1>12

(* What is low stays low.                                                   *)
LEMMA LowStays ==
    ASSUME IInv, IInv', Climbs
    PROVE  /\ \A lines \in Lines, n \in Notes : LowLines(lines, n) => LowLines(lines, n)'
           /\ \A o \in Orders, received \in Quantities : LowRead(o, received) => LowRead(o, received)'
<1>1. ASSUME NEW lines \in Lines, NEW n \in Notes, LowLines(lines, n), NEW s \in Skus
      PROVE  Arrived(lines)[s] <= Arrived(note'[n].lines)[s]
  <2>1. /\ Arrived(lines)[s] \in Nat /\ Arrived(note[n].lines)[s] \in Nat
        /\ Arrived(note'[n].lines)[s] \in Nat
    BY ArrivedType DEF IInv, TypeOK, ReceivingTypeOK, Quantities
  <2>2. Arrived(lines)[s] <= Arrived(note[n].lines)[s]
    BY <1>1 DEF LowLines, ArrivedOn
  <2>3. Arrived(note[n].lines)[s] <= Arrived(note'[n].lines)[s]
    BY DEF Climbs
  <2> QED
    BY <2>1, <2>2, <2>3
<1>2. ASSUME NEW o \in Orders, NEW received \in Quantities, LowRead(o, received), NEW s \in LinesOf(o)
      PROVE  received[s] <= Total(CountedNotes(o), s)'
  <2>1. s \in Skus
    BY DEF LinesOf
  <2>2. received[s] \in Nat /\ received[s] <= Total(CountedNotes(o), s)
    BY <1>2, <2>1 DEF LowRead, Quantities
  <2>3. Total(CountedNotes(o), s) <= Total(CountedNotes(o), s)'
    BY <2>1, TotalsClimb
  <2>4. CountedNotes(o) \in SUBSET Notes
    BY DEF CountedNotes, NotesOf
  <2>5. Total(CountedNotes(o), s) \in Int
    BY <2>1, <2>4, NotesSum
  <2>6. Total(CountedNotes(o), s)' \in Int
    <3>1. PICK T : T = CountedNotes(o)'
      OBVIOUS
    <3>2. T \subseteq Notes /\ IsFiniteSet(T)
      BY <3>1, OrderAssumption, FS_Subset DEF CountedNotes, NotesOf
    <3> DEFINE g == [n \in Notes |-> Arrived(note'[n].lines)[s]]
    <3>3. \A n \in T : g[n] \in Int
      BY <2>1, <3>2, ArrivedType DEF IInv, TypeOK, ReceivingTypeOK, Quantities
    <3>4. Total(CountedNotes(o), s)' = SumFunctionOnSet(g, T)
      BY <3>1 DEF Total, ArrivedOn
    <3> HIDE DEF g
    <3> QED
      BY <3>2, <3>3, <3>4, SumInt DEF Ints
  <2> QED
    BY <2>2, <2>3, <2>5, <2>6
<1>3. \A lines \in Lines, n \in Notes : LowLines(lines, n) => LowLines(lines, n)'
  BY <1>1 DEF LowLines, ArrivedOn
<1>4. \A o \in Orders, received \in Quantities : LowRead(o, received) => LowRead(o, received)'
  BY <1>2 DEF LowRead
<1> QED
  BY <1>3, <1>4

(* What a step leaves alone, it leaves low.                                 *)
LEMMA LowKept ==
    ASSUME IInv, IInv', Climbs, CreditInv
    PROVE  /\ note' = note => NotesEmpty'
           /\ event' = event => EventsLow'
           /\ dock' = dock => DocksLow'
           /\ intake' = intake => ReadsLow'
           /\ (\A o \in Orders : order'[o].received = order[o].received) => NeverMoreThanArrived'
<1>1. note' = note => NotesEmpty'
  BY DEF CreditInv, NotesEmpty, Opened
<1>2. ASSUME event' = event PROVE EventsLow'
  <2>1. \A r \in Receipts : event[r] \in Lines /\ r[1] \in Notes /\ LowLines(event[r], r[1])
    BY ReceiptFacts DEF IInv, TypeOK, ReceivingTypeOK, CreditInv, EventsLow
  <2> QED
    BY <1>2, <2>1, LowStays DEF EventsLow, LowLines, ArrivedOn
<1>3. ASSUME dock' = dock PROVE DocksLow'
  <2> SUFFICES ASSUME NEW k \in Docks, dock[k].step \in Carries
               PROVE  LowLines(dock[k].lines, dock[k].note[1])'
    BY <1>3 DEF DocksLow
  <2>1. PICK n \in Notes : dock[k].note = <<n>>
    BY DEF IInv, DockInv, Carries
  <2>2. dock[k].lines \in Lines /\ LowLines(dock[k].lines, n)
    BY <2>1 DEF IInv, TypeOK, ReceivingTypeOK, CreditInv, DocksLow
  <2>3. PICK lines \in Lines : lines = dock[k].lines
    BY <2>2
  <2>4. LowLines(lines, n)'
    BY <2>2, <2>3, LowStays
  <2> QED
    BY <1>3, <2>1, <2>3, <2>4
<1>4. ASSUME intake' = intake PROVE ReadsLow'
  <2> SUFFICES ASSUME NEW w \in Slots, intake[w].step = "write"
               PROVE  LowRead(OrderOf(intake[w].receipt), intake[w].received)'
    BY <1>4 DEF ReadsLow
  <2>1. intake[w].receipt \in Receipts /\ Final(intake[w].receipt[1]) /\ intake[w].receipt[1] \in Notes
    BY ReceiptFacts DEF IInv, IntakeInv
  <2>2. PICK o \in Orders : note[intake[w].receipt[1]].order = <<o>>
    BY <2>1 DEF IInv, NotesInv, Opened, Final
  <2>3. OrderOf(intake[w].receipt) = o /\ OrderOf(intake[w].receipt)' = o
    BY <1>4, <2>1, <2>2 DEF OrderOf, Climbs, Grows, Opened, Final
  <2>4. PICK received \in Quantities : received = intake[w].received
    BY TypesNow DEF IntakeRows
  <2>5. LowRead(o, received)
    BY <2>3, <2>4 DEF CreditInv, ReadsLow
  <2>6. LowRead(o, received)'
    BY <2>5, LowStays
  <2> QED
    BY <1>4, <2>3, <2>4, <2>6
<1>5. ASSUME \A o \in Orders : order'[o].received = order[o].received PROVE NeverMoreThanArrived'
  <2> SUFFICES ASSUME NEW o \in Orders PROVE LowRead(o, order[o].received)'
    BY DEF NeverMoreThanArrived, LowRead
  <2>1. PICK received \in Quantities : received = order[o].received
    BY TypesNow
  <2>2. LowRead(o, received)
    BY <2>1 DEF CreditInv, NeverMoreThanArrived, LowRead
  <2>3. LowRead(o, received)'
    BY <2>2, LowStays
  <2>4. received = order'[o].received
    BY <1>5, <2>1
  <2> QED
    BY <2>3, <2>4 DEF LowRead
<1> QED
  BY <1>1, <1>2, <1>3, <1>4, <1>5

(* What may be put into one place of the dock, or of the handlers.          *)
LEMMA DockLow ==
    ASSUME IInv, IInv', Climbs, CreditInv, NEW k \in Docks, NEW row \in DockRows,
           dock' = [dock EXCEPT ![k] = row],
           row.step \in Carries => \A s \in Skus : Arrived(row.lines)[s] <= Arrived(note'[row.note[1]].lines)[s]
    PROVE  DocksLow'
<1>1. \A j \in Docks : dock'[j] = IF j = k THEN row ELSE dock[j]
  BY DEF IInv, TypeOK, ReceivingTypeOK
<1> SUFFICES ASSUME NEW j \in Docks, dock'[j].step \in Carries, NEW s \in Skus
             PROVE  Arrived(dock'[j].lines)[s] <= Arrived(note'[dock'[j].note[1]].lines)[s]
  BY DEF DocksLow, LowLines, ArrivedOn
<1>2. CASE j = k
  BY <1>1, <1>2
<1>3. CASE j # k
  <2>1. dock'[j] = dock[j] /\ dock[j].step \in Carries
    BY <1>1, <1>3
  <2>2. PICK n \in Notes : dock[j].note = <<n>>
    BY <2>1 DEF IInv, DockInv, Carries
  <2>3. PICK lines \in Lines : lines = dock[j].lines
    BY DEF IInv, TypeOK, ReceivingTypeOK
  <2>4. LowLines(lines, n)
    BY <2>1, <2>2, <2>3 DEF CreditInv, DocksLow
  <2>5. LowLines(lines, n)'
    BY <2>4, LowStays
  <2> QED
    BY <2>1, <2>2, <2>3, <2>5 DEF LowLines, ArrivedOn
<1> QED
  BY <1>2, <1>3

LEMMA IntakeLow ==
    ASSUME IInv, IInv', Climbs, CreditInv, NEW w \in Slots, NEW row \in IntakeRows,
           intake' = [intake EXCEPT ![w] = row],
           row.step = "write" => LowRead(OrderOf(row.receipt), row.received) /\ row.receipt \in Receipts
                                   /\ Final(row.receipt[1])
    PROVE  ReadsLow'
<1>1. \A v \in Slots : intake'[v] = IF v = w THEN row ELSE intake[v]
  BY TypesNow
<1> SUFFICES ASSUME NEW v \in Slots, intake'[v].step = "write"
             PROVE  LowRead(OrderOf(intake[v].receipt), intake[v].received)'
  BY DEF ReadsLow
<1>2. PICK old \in IntakeRows : intake'[v] = old
  BY <1>1, TypesNow
<1>3. /\ old.receipt \in Receipts /\ Final(old.receipt[1]) /\ old.receipt[1] \in Notes
      /\ LowRead(OrderOf(old.receipt), old.received)
  <2>1. CASE v = w
    BY <1>1, <1>2, <2>1, ReceiptFacts
  <2>2. CASE v # w
    <3>1. intake[v] = old
      BY <1>1, <1>2, <2>2
    <3> QED
      BY <1>2, <3>1, ReceiptFacts DEF IInv, IntakeInv, CreditInv, ReadsLow
  <2> QED
    BY <2>1, <2>2
<1>4. PICK o \in Orders : note[old.receipt[1]].order = <<o>>
  BY <1>3 DEF IInv, NotesInv, Opened, Final
<1>5. OrderOf(old.receipt) = o /\ OrderOf(old.receipt)' = o
  BY <1>3, <1>4 DEF OrderOf, Climbs, Grows, Opened, Final
<1>6. PICK received \in Quantities : received = old.received
  BY DEF IntakeRows
<1>7. LowRead(o, received)'
  BY <1>3, <1>5, <1>6, LowStays
<1>8. LowRead(o, old.received)'
  BY <1>6, <1>7 DEF LowRead
<1> QED
  BY <1>2, <1>5, <1>8

LEMMA InitCredit == Init => CreditInv
<1> SUFFICES ASSUME Init PROVE CreditInv
  OBVIOUS
<1>1. IInv
  BY InitIInv
<1>2. \A n \in Notes : note[n] = NoNote
  BY DEF Init, ReceivingInit
<1>3. NotesEmpty
  BY <1>2 DEF NotesEmpty, NoNote
<1>4. \A s \in Skus : Arrived(NoLines)[s] = 0
  BY DEF Arrived, NoLines, Nothing
<1>5. EventsLow
  <2>1. \A r \in Receipts : event[r] = NoLines /\ note[r[1]].lines = NoLines
    BY <1>2, ReceiptFacts DEF Init, ReceivingInit, NoNote
  <2> QED
    BY <1>4, <2>1 DEF EventsLow, LowLines, ArrivedOn
<1>6. DocksLow /\ ReadsLow
  BY DEF Init, ReceivingInit, ProcurementInit, DocksLow, ReadsLow, NoDock, NoIntake, Carries
<1>7. NeverMoreThanArrived
  <2> SUFFICES ASSUME NEW o \in Orders, NEW s \in LinesOf(o)
               PROVE  order[o].received[s] <= Total(CountedNotes(o), s)
    BY DEF NeverMoreThanArrived
  <2>1. s \in Skus /\ order[o].received[s] = 0
    BY DEF Init, ProcurementInit, Nothing, LinesOf
  <2>2. CountedNotes(o) \in SUBSET Notes
    BY DEF CountedNotes, NotesOf
  <2>3. Total(CountedNotes(o), s) \in Nat
    BY <1>1, <2>1, <2>2, NotesSum
  <2> QED
    BY <2>1, <2>3
<1> QED
  BY <1>3, <1>5, <1>6, <1>7 DEF CreditInv

(* Nothing is counted or unloaded, and no event is written.                 *)
LEMMA QuietCredit ==
    ASSUME IInv, IInv', CreditInv, UNCHANGED <<note, processed, event>>,
           \A o \in Orders : order'[o].received = order[o].received /\ (Approved(o) => Approved(o)'),
           dock' = dock \/ DocksLow', intake' = intake \/ ReadsLow'
    PROVE  CreditInv'
<1>1. Climbs
  BY SameClimbs DEF Grows, Opened, Final
<1> QED
  BY <1>1, LowKept DEF CreditInv

LEMMA OfficeCredit ==
    ASSUME IInv, IInv', CreditInv, NEW b \in Buyers, Office(b) \/ PublishApproval(b)
    PROVE  CreditInv'
<1>1. UNCHANGED <<note, processed, event, dock, intake>>
  BY DEF Office, PublishApproval, receivingVars, Draft, CheckOrder, WriteOrder
<1>2. ASSUME NEW o \in Orders
      PROVE  order'[o].received = order[o].received /\ (Approved(o) => Approved(o)')
  <2>1. CASE order' = order
    BY <2>1 DEF Approved
  <2>2. CASE \E p \in Orders : order' = [order EXCEPT ![p].status = "DRAFT"]
    BY <2>2, TypesNow DEF Approved
  <2>3. CASE WriteOrder(b)
    <3>1. PICK p \in Orders : desk[b].order = <<p>>
      BY <2>3 DEF IInv, DeskInv, WriteOrder
    <3> DEFINE row == [status |-> Writes(desk[b].op), received |-> order[p].received,
                       approver |-> IF desk[b].op = "approve" THEN Role[b] ELSE order[p].approver]
    <3>2. order' = [order EXCEPT ![p] = row]
      BY <2>3, <3>1 DEF WriteOrder
    <3>3. row.received = order[p].received
      OBVIOUS
    <3>4. desk[b].op = "approve" => Role[b] # "none"
      BY OrderAssumption
    <3>5. order[p].approver # "none" => row.approver # "none"
      BY <3>4
    <3> HIDE DEF row
    <3>6. order'[o] = IF o = p THEN row ELSE order[o]
      BY <3>2, TypesNow
    <3> QED
      BY <3>3, <3>5, <3>6 DEF Approved
  <2> QED
    BY <2>1, <2>2, <2>3 DEF Office, PublishApproval, Draft, CheckOrder
<1> QED
  BY <1>1, <1>2, QuietCredit

(* Requests at the dock that write no note.                                 *)
LEMMA DockQuiet ==
    ASSUME IInv, IInv', CreditInv, NEW k \in Docks, Unload(k), note' = note
    PROVE  CreditInv'
<1>1. UNCHANGED <<order, processed, intake, event>>
  BY DEF Unload, procurementVars, AskProcurement, FindExpected, SeedExpected, InsertNote, FinalizeRead,
         ScanRead, ScanUpsert, FinalizeTotal, FinalizeCommit
<1>2. Climbs
  BY <1>1, SameClimbs, Still
<1>3. ASSUME NEW row \in DockRows, dock' = [dock EXCEPT ![k] = row], row.step \notin Carries
      PROVE  DocksLow'
  BY <1>2, <1>3, DockLow
<1>5. DocksLow'
  <2>1. CASE \E o \in Orders : AskProcurement(k, o)
    <3>1. PICK o \in Orders : AskProcurement(k, o)
      BY <2>1
    <3> DEFINE row == [NoDock EXCEPT !.step = "expect", !.order = <<o>>]
    <3>2. row \in DockRows /\ row.step \notin Carries
      BY IdleRow DEF DockRows, NoDock, MaybeOrder, Carries
    <3>3. dock' = [dock EXCEPT ![k] = row]
      BY <3>1 DEF AskProcurement
    <3> QED
      BY <1>3, <3>2, <3>3
  <2>2. CASE FindExpected(k)
    <3>1. PICK o \in Orders : dock[k].order = <<o>>
      BY <2>2 DEF IInv, DockInv, FindExpected
    <3> DEFINE row == IF expected[o].status = "NONE"
                      THEN [NoDock EXCEPT !.step = "seed", !.order = <<o>>]
                      ELSE [NoDock EXCEPT !.step = "insert", !.order = <<o>>, !.base = expected[o].received]
    <3>2. row \in DockRows /\ row.step \notin Carries
      BY IdleRow, TypesNow DEF DockRows, NoDock, MaybeOrder, Carries
    <3>3. dock' = [dock EXCEPT ![k] = row]
      BY <2>2, <3>1 DEF FindExpected
    <3> QED
      BY <1>3, <3>2, <3>3
  <2>3. CASE SeedExpected(k)
    <3>1. PICK o \in Orders : dock[k].order = <<o>>
      BY <2>3 DEF IInv, DockInv, SeedExpected
    <3> DEFINE row == IF expected[o].status = "NONE"
                      THEN [NoDock EXCEPT !.step = "insert", !.order = <<o>>] ELSE NoDock
    <3>2. row \in DockRows /\ row.step \notin Carries
      BY IdleRow DEF DockRows, NoDock, MaybeOrder, Carries
    <3>3. dock' = [dock EXCEPT ![k] = row]
      BY <2>3, <3>1 DEF SeedExpected
    <3> QED
      BY <1>3, <3>2, <3>3
  <2>4. CASE (\E n \in Notes : InsertNote(k, n)) \/ ScanUpsert(k)
    <3>1. dock' = [dock EXCEPT ![k] = NoDock]
      BY <2>4 DEF InsertNote, ScanUpsert
    <3> QED
      BY <1>3, <3>1, IdleRow DEF Carries
  <2>5. CASE \E n \in Notes, scan \in Scannable : ScanRead(k, n, scan)
    <3>1. PICK n \in Notes, scan \in Scannable : ScanRead(k, n, scan)
      BY <2>5
    <3> DEFINE row == [NoDock EXCEPT !.step = "upsert", !.note = <<n>>, !.scan = scan]
    <3>2. row \in DockRows /\ row.step \notin Carries
      BY IdleRow DEF DockRows, NoDock, MaybeOrder, Carries
    <3>3. dock' = [dock EXCEPT ![k] = row]
      BY <3>1 DEF ScanRead
    <3> QED
      BY <1>3, <3>2, <3>3
  <2>6. CASE \E n \in Notes : FinalizeRead(k, n)
    <3>1. PICK n \in Notes : FinalizeRead(k, n)
      BY <2>6
    <3> DEFINE row == [NoDock EXCEPT !.step = "total", !.note = <<n>>,
                                     !.order = note[n].order, !.lines = note[n].lines]
    <3>2. row \in DockRows /\ row.note = <<n>> /\ row.lines = note[n].lines
      <4>1. note[n].order \in MaybeOrder /\ note[n].lines \in Lines
        BY DEF IInv, TypeOK, ReceivingTypeOK
      <4> QED
        BY <4>1, IdleRow DEF DockRows, NoDock
    <3>3. dock' = [dock EXCEPT ![k] = row]
      BY <3>1 DEF FinalizeRead
    <3>4. \A s \in Skus : Arrived(row.lines)[s] <= Arrived(note'[row.note[1]].lines)[s]
      <4>1. \A s \in Skus : Arrived(note[n].lines)[s] \in Nat
        BY ArrivedType DEF IInv, TypeOK, ReceivingTypeOK, Quantities
      <4> QED
        BY <3>2, <4>1
    <3> HIDE DEF row
    <3> QED
      BY <1>2, <3>2, <3>3, <3>4, DockLow
  <2>7. CASE FinalizeTotal(k) \/ FinalizeCommit(k)
    <3> DEFINE row == IF dock[k].step = "total"
                      THEN [dock[k] EXCEPT !.step = "commit", !.base = expected[dock[k].order[1]].received]
                      ELSE [dock[k] EXCEPT !.step = "publish"]
    <3>1. dock[k].step \in {"total", "commit"} /\ dock' = [dock EXCEPT ![k] = row]
      BY <2>7 DEF FinalizeTotal, FinalizeCommit
    <3>2. PICK o \in Orders : dock[k].order = <<o>>
      BY <3>1 DEF IInv, DockInv
    <3>3. dock[k] \in DockRows
      BY DEF DockRows, IInv, TypeOK, ReceivingTypeOK
    <3>4. row \in DockRows /\ row.note = dock[k].note /\ row.lines = dock[k].lines
      <4>1. ASSUME NEW d \in DockRows, NEW base \in Quantities
            PROVE  LET e == [d EXCEPT !.step = "commit", !.base = base]
                       f == [d EXCEPT !.step = "publish"]
                   IN  /\ e \in DockRows /\ e.note = d.note /\ e.lines = d.lines
                       /\ f \in DockRows /\ f.note = d.note /\ f.lines = d.lines
        BY DEF DockRows
      <4>2. expected[dock[k].order[1]].received \in Quantities
        BY <3>2, TypesNow
      <4> QED
        BY <3>3, <4>1, <4>2
    <3>5. LowLines(dock[k].lines, dock[k].note[1])
      BY <3>1 DEF CreditInv, DocksLow, Carries
    <3>6. \A s \in Skus : Arrived(row.lines)[s] <= Arrived(note'[row.note[1]].lines)[s]
      BY <3>4, <3>5 DEF LowLines, ArrivedOn
    <3> HIDE DEF row
    <3> QED
      BY <1>2, <3>1, <3>4, <3>6, DockLow
  <2> QED
    BY <2>1, <2>2, <2>3, <2>4, <2>5, <2>6, <2>7 DEF Unload
<1>6. \A o \in Orders : order'[o].received = order[o].received /\ (Approved(o) => Approved(o)')
  BY <1>1 DEF Approved
<1> QED
  BY <1>1, <1>5, <1>6, QuietCredit

(* Requests at the dock that write a note: none loses a unit.               *)
LEMMA NoteCredit ==
    ASSUME IInv, IInv', CreditInv, NEW k \in Docks, Unload(k)
    PROVE  CreditInv' /\ Climbs
<1>1. UNCHANGED <<order, processed, intake, event>>
  BY DEF Unload, procurementVars, AskProcurement, FindExpected, SeedExpected, InsertNote, FinalizeRead,
         ScanRead, ScanUpsert, FinalizeTotal, FinalizeCommit
<1>2. note \in [Notes -> [status : {"NONE", "DRAFT", "FINALIZED"}, order : MaybeOrder, lines : Lines]]
  BY DEF IInv, TypeOK, ReceivingTypeOK
<1>3. \A n \in Notes, s \in Skus : Arrived(note[n].lines)[s] \in Nat
  BY <1>2, ArrivedType DEF Quantities
<1>4. ASSUME NEW n \in Notes, NEW entry,
             note' = [note EXCEPT ![n] = entry],
             \A s \in Skus : Arrived(note[n].lines)[s] <= Arrived(entry.lines)[s],
             Opened(n) => entry.status # "NONE" /\ entry.order = note[n].order,
             Final(n) => entry.status = "FINALIZED",
             entry.status = "NONE" => entry.lines = NoLines,
             Climbs => DocksLow'
      PROVE  CreditInv' /\ Climbs
  <2>1. \A m \in Notes : note'[m] = IF m = n THEN entry ELSE note[m]
    BY <1>2, <1>4
  <2>2. Grows
    BY <1>1, <1>4, <2>1 DEF Grows, Approved, Opened, Final
  <2>3. Climbs
    BY <1>1, <1>3, <1>4, <2>1, <2>2 DEF Climbs, Counted
  <2>4. NotesEmpty'
    BY <1>4, <2>1 DEF CreditInv, NotesEmpty, Opened
  <2>5. DocksLow'
    BY <1>4, <2>3
  <2>6. CreditInv'
    BY <1>1, <2>3, <2>4, <2>5, LowKept DEF CreditInv
  <2> QED
    BY <2>3, <2>6
<1>5. ASSUME dock' = [dock EXCEPT ![k] = NoDock], Climbs PROVE DocksLow'
  BY <1>5, IdleRow, DockLow DEF Carries
<1>6. CASE note' = note
  BY <1>1, <1>6, DockQuiet, SameClimbs, Still
<1>7. CASE note' # note /\ \E n \in Notes : InsertNote(k, n)
  <2>1. PICK n \in Notes : InsertNote(k, n)
    BY <1>7
  <2> DEFINE entry == [status |-> "DRAFT", order |-> dock[k].order, lines |-> NoLines]
  <2>2. /\ note' = [note EXCEPT ![n] = entry] /\ dock' = [dock EXCEPT ![k] = NoDock]
        /\ note[n].status = "NONE"
    BY <1>7, <2>1 DEF InsertNote
  <2>3. note[n].lines = NoLines /\ ~ Opened(n) /\ ~ Final(n)
    BY <2>2 DEF CreditInv, NotesEmpty, Opened, Final
  <2>4. entry.status = "DRAFT" /\ entry.lines = NoLines
    OBVIOUS
  <2> HIDE DEF entry
  <2>5. \A s \in Skus : Arrived(note[n].lines)[s] <= Arrived(entry.lines)[s]
    BY <1>3, <2>3, <2>4
  <2> QED
    BY <1>4, <1>5, <2>2, <2>3, <2>4, <2>5
<1>8. CASE ScanUpsert(k)
  <2>1. PICK n \in Notes : dock[k].note = <<n>> /\ Opened(n)
    BY <1>8 DEF IInv, DockInv, ScanUpsert
  <2>2. dock[k].scan \in Scannable
    BY <1>8 DEF IInv, DockInv, ScanUpsert
  <2> DEFINE s == dock[k].scan[1]
             c == dock[k].scan[2]
  <2>3. s \in Skus /\ c \in {"good", "damaged"}
    BY <2>2, ScanAssumption
  <2>4. /\ note' = [note EXCEPT ![n].lines[c][s] = @ + 1]
        /\ dock' = [dock EXCEPT ![k] = NoDock]
    <3>1. PICK m \in Notes : m = dock[k].note[1] /\ m = n
      BY <2>1
    <3>2. note' = [note EXCEPT ![dock[k].note[1]].lines[c][s] = @ + 1]
      BY <1>8 DEF ScanUpsert
    <3>3. note' = [note EXCEPT ![m].lines[c][s] = @ + 1]
      BY <3>1, <3>2
    <3> QED
      BY <1>8, <3>1, <3>3 DEF ScanUpsert
  <2> HIDE DEF s, c
  <2> DEFINE counts == [note[n].lines[c] EXCEPT ![s] = @ + 1]
             filled == [note[n].lines EXCEPT ![c] = counts]
             row == [note[n] EXCEPT !.lines = filled]
  <2>5. note[n].lines \in Lines /\ note[n].lines[c] \in Quantities
    BY <1>2, <2>3 DEF Lines
  <2>6. \A t \in Skus : note[n].lines[c][t] \in Nat /\ counts[t] \in Nat /\ note[n].lines[c][t] <= counts[t]
    BY <2>3, <2>5 DEF Quantities
  <2>7. note' = [note EXCEPT ![n] = row]
    BY <2>4
  <2> HIDE DEF counts
  <2>8. \A t \in Skus : Arrived(note[n].lines)[t] <= Arrived(filled)[t]
    <3> SUFFICES ASSUME NEW t \in Skus PROVE Arrived(note[n].lines)[t] <= Arrived(filled)[t]
      OBVIOUS
    <3>1. note[n].lines.good[t] \in Nat /\ note[n].lines.damaged[t] \in Nat
      BY <2>5 DEF Lines, Quantities
    <3>2. CASE c = "good"
      <4>1. filled.good = counts /\ filled.damaged = note[n].lines.damaged
        BY <2>5, <3>2 DEF Lines
      <4>2. note[n].lines.good[t] <= counts[t] /\ counts[t] \in Nat
        BY <2>6, <3>2
      <4> QED
        BY <3>1, <4>1, <4>2 DEF Arrived
    <3>3. CASE c = "damaged"
      <4>1. filled.damaged = counts /\ filled.good = note[n].lines.good
        BY <2>5, <3>3 DEF Lines
      <4>2. note[n].lines.damaged[t] <= counts[t] /\ counts[t] \in Nat
        BY <2>6, <3>3
      <4> QED
        BY <3>1, <4>1, <4>2 DEF Arrived
    <3> QED
      BY <2>3, <3>2, <3>3
  <2> HIDE DEF filled
  <2>9. row.status = note[n].status /\ row.order = note[n].order /\ row.lines = filled
    BY <1>2
  <2> HIDE DEF row
  <2> QED
    BY <1>4, <1>5, <2>1, <2>4, <2>7, <2>8, <2>9 DEF Opened, Final
<1>9. CASE FinalizeCommit(k)
  <2>1. PICK n \in Notes : dock[k].note = <<n>> /\ Opened(n)
    BY <1>9 DEF IInv, DockInv, FinalizeCommit
  <2> DEFINE entry == [note[n] EXCEPT !.status = "FINALIZED"]
             row == [dock[k] EXCEPT !.step = "publish"]
  <2>2. /\ note' = [note EXCEPT ![n] = entry] /\ dock' = [dock EXCEPT ![k] = row]
        /\ dock[k].step = "commit"
    BY <1>9, <2>1 DEF FinalizeCommit
  <2>3. entry.status = "FINALIZED" /\ entry.lines = note[n].lines /\ entry.order = note[n].order
    BY <1>2
  <2>4. row \in DockRows /\ row.note = <<n>> /\ row.lines = dock[k].lines
    <3>1. dock[k] \in DockRows
      BY DEF DockRows, IInv, TypeOK, ReceivingTypeOK
    <3> QED
      BY <2>1, <3>1 DEF DockRows
  <2> HIDE DEF entry, row
  <2>5. note'[n] = entry
    BY <1>2, <2>2
  <2>6. \A s \in Skus : Arrived(row.lines)[s] <= Arrived(note'[row.note[1]].lines)[s]
    <3>1. LowLines(dock[k].lines, n)
      BY <2>1, <2>2 DEF CreditInv, DocksLow, Carries
    <3> QED
      BY <2>3, <2>4, <2>5, <3>1 DEF LowLines, ArrivedOn
  <2>7. ASSUME Climbs PROVE DocksLow'
    BY <2>2, <2>4, <2>6, <2>7, DockLow
  <2>8. \A s \in Skus : Arrived(note[n].lines)[s] <= Arrived(entry.lines)[s]
    BY <1>3, <2>3
  <2> QED
    BY <1>4, <2>2, <2>3, <2>7, <2>8
<1> QED
  BY <1>6, <1>7, <1>8, <1>9
     DEF Unload, AskProcurement, FindExpected, SeedExpected, FinalizeRead, ScanRead, FinalizeTotal

LEMMA AnnounceCredit ==
    ASSUME IInv, IInv', CreditInv, NEW k \in Docks, Announce(k)
    PROVE  CreditInv'
<1>1. PICK n \in Notes : dock[k].note = <<n>> /\ Final(n)
  BY DEF IInv, DockInv, Announce, FinalizePublish
<1> DEFINE r == <<n, k>>
<1>2. /\ event' = [event EXCEPT ![r] = dock[k].lines] /\ dock[k].step = "publish"
      /\ dock' = [dock EXCEPT ![k] = NoDock]
      /\ UNCHANGED <<order, processed, intake, note>>
  BY <1>1 DEF Announce, FinalizePublish, procurementVars
<1>3. r \in Receipts /\ r[1] = n
  BY ReceiptFacts
<1> HIDE DEF r
<1>4. Climbs
  BY <1>2, SameClimbs, Still
<1>5. DocksLow'
  BY <1>2, <1>4, IdleRow, DockLow DEF Carries
<1>6. EventsLow'
  <2> SUFFICES ASSUME NEW q \in Receipts PROVE LowLines(event[q], q[1])'
    BY DEF EventsLow
  <2>1. event'[q] = IF q = r THEN dock[k].lines ELSE event[q]
    BY <1>2, <1>3 DEF IInv, TypeOK, ReceivingTypeOK
  <2>2. LowLines(dock[k].lines, n)
    BY <1>1, <1>2 DEF CreditInv, DocksLow, Carries
  <2>3. LowLines(event[q], q[1])
    BY DEF CreditInv, EventsLow
  <2> QED
    BY <1>2, <1>3, <2>1, <2>2, <2>3 DEF LowLines, ArrivedOn
<1> QED
  BY <1>2, <1>4, <1>5, <1>6, LowKept DEF CreditInv

(* GoodsReceived is counted once, on top of totals that were low when read. *)
LEMMA ApplyCredit ==
    ASSUME IInv, IInv', CreditInv, NEW w \in Slots, intake[w].step # "idle",
           UNCHANGED <<receivingVars, mail, faults>>,
           ApplyWrite(w, OrderOf(intake[w].receipt), Arrived(event[intake[w].receipt]))
    PROVE  CreditInv'
<1> DEFINE r == intake[w].receipt
           o == OrderOf(r)
           was == intake[w]
           arrived == Arrived(event[r])
           after == [s \in Skus |-> was.received[s] + (IF s \in LinesOf(o) THEN arrived[s] ELSE 0)]
           row == [status |-> StatusAfter(o, was.status, after), received |-> after,
                   approver |-> order[o].approver]
           rest == [NoIntake EXCEPT !.step = "done", !.receipt = r]
<1>1. r \in Receipts /\ Final(r[1]) /\ r[1] \in Notes /\ r[2] \in Docks
  BY ReceiptFacts DEF IInv, IntakeInv
<1>2. o \in Orders /\ note[r[1]].order = <<o>>
  <2>1. NotesInv /\ Opened(r[1])
    BY <1>1 DEF IInv, Opened, Final
  <2>2. PICK q \in Orders : note[r[1]].order = <<q>>
    BY <1>1, <2>1 DEF NotesInv
  <2>3. o = q
    BY <2>2 DEF OrderOf
  <2> QED
    BY <2>2, <2>3
<1>3. /\ was.step = "write"
      /\ ~ Counted(r[1])
      /\ processed' = processed \cup {[note |-> r[1], by |-> r[2]]}
      /\ order' = [order EXCEPT ![o] = row]
      /\ intake' = [intake EXCEPT ![w] = rest]
      /\ UNCHANGED <<note, event, dock>>
  BY DEF ApplyWrite, Finished, receivingVars
<1>4. row.received = after /\ row.approver = order[o].approver
  OBVIOUS
<1>5. rest \in IntakeRows /\ rest.step = "done"
  BY <1>1, IdleHandlers DEF IntakeRows, NoIntake
<1>6. PICK n \in Notes : n = r[1]
  BY <1>1
<1>7. PICK p \in Orders : p = o
  BY <1>2
<1>8. note[n].order = <<p>> /\ Final(n) /\ ~ Counted(n)
  BY <1>1, <1>2, <1>3, <1>6, <1>7
<1>9. PICK t \in Lines : t = event[r]
  BY <1>1 DEF IInv, TypeOK, ReceivingTypeOK
<1>10. PICK seen \in Quantities : seen = was.received
  BY TypesNow DEF IntakeRows
<1>11. LowLines(t, n)
  BY <1>1, <1>6, <1>9 DEF CreditInv, EventsLow
<1>12. LowRead(p, seen)
  BY <1>3, <1>7, <1>10 DEF CreditInv, ReadsLow
<1>13. \A s \in LinesOf(p) : s \in Skus /\ row.received[s] = seen[s] + Arrived(t)[s]
  BY <1>4, <1>7, <1>9, <1>10 DEF LinesOf
<1>14. processed' = processed \cup {[note |-> n, by |-> r[2]]}
  BY <1>3, <1>6
<1> HIDE DEF row, rest, after, arrived
<1>15. \A q \in Orders : order'[q] = IF q = p THEN row ELSE order[q]
  BY <1>3, <1>4, <1>7, TypesNow
<1>16. Grows
  BY <1>3, <1>4, <1>7, <1>15 DEF Grows, Approved, Opened, Final
<1>17. Climbs
  BY <1>3, <1>16, SameClimbs
<1>18. ReadsLow'
  BY <1>3, <1>5, <1>17, IntakeLow
<1>19. \A m \in Notes : Counted(m)' <=> (Counted(m) \/ m = n)
  <2>1. PICK x : x = [note |-> n, by |-> r[2]]
    OBVIOUS
  <2>2. x.note = n
    BY <2>1
  <2>3. processed' = processed \cup {x}
    BY <1>14, <2>1
  <2> QED
    BY <2>2, <2>3 DEF Counted
<1>20. CountedNotes(p)' = CountedNotes(p) \cup {n} /\ n \notin CountedNotes(p)
  BY <1>3, <1>8, <1>19 DEF CountedNotes, NotesOf, Final
<1>21. ASSUME NEW s \in LinesOf(p) PROVE row.received[s] <= Total(CountedNotes(p), s)'
  <2>1. s \in Skus
    BY <1>13
  <2> DEFINE f == [m \in Notes |-> ArrivedOn(m)[s]]
             S == CountedNotes(p)
  <2>2. S \in SUBSET Notes
    BY DEF CountedNotes, NotesOf
  <2>3. IsFiniteSet(S) /\ (\A m \in Notes : ArrivedOn(m)[s] \in Nat) /\ Total(S, s) \in Nat
    BY <2>1, <2>2, NotesSum
  <2>4. Total(S, s) = SumFunctionOnSet(f, S)
    BY DEF Total
  <2>5. Total(S, s)' = SumFunctionOnSet(f, S \cup {n})
    BY <1>3, <1>20 DEF Total, ArrivedOn
  <2>6. \A m \in S \cup {n} : f[m] \in Int
    BY <2>2, <2>3
  <2>7. f[n] = ArrivedOn(n)[s]
    OBVIOUS
  <2>8. n \notin S
    BY <1>20
  <2> HIDE DEF f
  <2>9. Total(S, s)' = f[n] + Total(S, s)
    <3> HIDE DEF S
    <3>1. SumFunctionOnSet(f, S \cup {n}) = f[n] + SumFunctionOnSet(f, S)
      BY <2>3, <2>6, <2>8, SumInsert DEF Ints
    <3> QED
      BY <2>4, <2>5, <3>1 DEF S
  <2>10. Arrived(t)[s] \in Nat /\ seen[s] \in Nat
    BY <2>1, ArrivedType DEF Quantities
  <2>11. Arrived(t)[s] <= ArrivedOn(n)[s] /\ seen[s] <= Total(S, s)
    BY <1>11, <1>12, <2>1 DEF LowLines, LowRead
  <2>12. PICK total : total = Total(S, s)
    OBVIOUS
  <2>13. Total(CountedNotes(p), s)' = f[n] + total
    BY <2>9, <2>12
  <2>14. /\ total \in Nat /\ f[n] \in Nat /\ seen[s] <= total /\ Arrived(t)[s] <= f[n]
         /\ row.received[s] = seen[s] + Arrived(t)[s]
    BY <1>13, <2>3, <2>7, <2>11, <2>12
  <2>15. seen[s] + Arrived(t)[s] <= f[n] + total
    BY <2>10, <2>14
  <2> QED
    BY <2>13, <2>14, <2>15
<1>22. NeverMoreThanArrived'
  <2> SUFFICES ASSUME NEW q \in Orders, NEW s \in LinesOf(q)
               PROVE  order'[q].received[s] <= Total(CountedNotes(q), s)'
    BY DEF NeverMoreThanArrived
  <2>1. CASE q = p
    BY <1>15, <1>21, <2>1
  <2>2. CASE q # p
    <3>1. order'[q].received = order[q].received
      BY <1>15, <2>2
    <3>2. PICK received \in Quantities : received = order[q].received
      BY TypesNow
    <3>3. LowRead(q, received)
      BY <3>2 DEF CreditInv, NeverMoreThanArrived, LowRead
    <3>4. LowRead(q, received)'
      BY <1>17, <3>3, LowStays
    <3> QED
      BY <3>1, <3>2, <3>4 DEF LowRead
  <2> QED
    BY <2>1, <2>2
<1> QED
  BY <1>3, <1>17, <1>18, <1>22, LowKept DEF CreditInv

(* What the other steps of the handlers and of the queues do to a place of  *)
(* a GoodsReceived handler: it ends, begins, or reads the order.            *)
LEMMA HandlerCredit ==
    ASSUME IInv, IInv', CreditInv, NEW w \in Slots,
           Deliver(w) \/ Throws(w) \/ (Handle(w) /\ processed' = processed)
    PROVE  CreditInv'
<1>1. UNCHANGED <<note, processed, event, dock, order>>
  <2>1. CASE Deliver(w) \/ Throws(w)
    BY <2>1 DEF Deliver, Throws
  <2>2. CASE Handle(w) /\ processed' = processed
    <3>1. ASSUME ApplyWrite(w, OrderOf(intake[w].receipt), Arrived(event[intake[w].receipt])),
                 intake[w].step # "idle"
          PROVE  FALSE
      <4>1. intake[w].receipt \in Receipts /\ ~ Counted(intake[w].receipt[1])
        BY <3>1 DEF IInv, IntakeInv, ApplyWrite
      <4>2. [note |-> intake[w].receipt[1], by |-> intake[w].receipt[2]] \in processed
        BY <2>2, <3>1 DEF ApplyWrite
      <4> QED
        BY <4>1, <4>2 DEF Counted
    <3> QED
      BY <2>2, <3>1
         DEF Handle, Conflict, Ack, AwaitFind, AwaitCreate, ApplyRead, ApplySkip, procurementVars, receivingVars
  <2> QED
    BY <2>1, <2>2
<1>2. Climbs
  BY <1>1, SameClimbs, Still
<1>3. ASSUME NEW row \in IntakeRows, intake' = [intake EXCEPT ![w] = row], row.step # "write"
      PROVE  ReadsLow'
  BY <1>2, <1>3, IntakeLow
<1>4. ASSUME ApplyRead(w, OrderOf(intake[w].receipt)), intake[w].step # "idle" PROVE ReadsLow'
  <2> DEFINE r == intake[w].receipt
             row == [step |-> "write", receipt |-> r, status |-> order[OrderOf(r)].status,
                     received |-> order[OrderOf(r)].received]
  <2>1. r \in Receipts /\ Final(r[1]) /\ r[1] \in Notes
    BY <1>4, ReceiptFacts DEF IInv, IntakeInv
  <2>2. OrderOf(r) \in Orders
    BY <2>1 DEF IInv, NotesInv, OrderOf, Opened, Final
  <2>3. intake' = [intake EXCEPT ![w] = row]
    BY <1>4 DEF ApplyRead
  <2>4. row \in IntakeRows /\ row.receipt = r /\ row.received = order[OrderOf(r)].received
    BY <2>1, <2>2, TypesNow DEF IntakeRows
  <2>5. LowRead(OrderOf(r), order[OrderOf(r)].received)
    BY <2>2 DEF CreditInv, NeverMoreThanArrived, LowRead
  <2> HIDE DEF row, r
  <2> QED
    BY <1>2, <2>1, <2>3, <2>4, <2>5, IntakeLow
<1>5. ASSUME ApplySkip(w) PROVE ReadsLow'
  <2> DEFINE rest == [NoIntake EXCEPT !.step = "done", !.receipt = intake[w].receipt]
  <2>1. intake[w].receipt \in {<<>>} \cup Receipts
    BY TypesNow DEF IntakeRows
  <2>2. rest \in IntakeRows /\ rest.step = "done"
    BY <2>1, IdleHandlers DEF IntakeRows, NoIntake
  <2>3. intake' = [intake EXCEPT ![w] = rest]
    BY <1>5 DEF ApplySkip, Finished
  <2> QED
    BY <1>3, <2>2, <2>3
<1>6. ASSUME NEW r \in Receipts, intake' = [intake EXCEPT ![w] = [NoIntake EXCEPT !.step = "read", !.receipt = r]]
      PROVE  ReadsLow'
  <2> DEFINE row == [NoIntake EXCEPT !.step = "read", !.receipt = r]
  <2>1. row \in IntakeRows /\ row.step = "read"
    BY IdleHandlers DEF IntakeRows, NoIntake
  <2> QED
    BY <1>3, <1>6, <2>1
<1>7. ASSUME intake' = [intake EXCEPT ![w] = NoIntake] PROVE ReadsLow'
  BY <1>3, <1>7, IdleHandlers
<1>8. intake' = intake \/ ReadsLow'
  <2>1. CASE Deliver(w)
    BY <2>1, <1>6 DEF Deliver
  <2>2. CASE Throws(w)
    BY <2>2, <1>7 DEF Throws
  <2>3. CASE Handle(w) /\ processed' = processed
    <3>1. CASE Ack(w)
      BY <3>1, <1>7 DEF Ack
    <3>2. CASE ApplyWrite(w, OrderOf(intake[w].receipt), Arrived(event[intake[w].receipt]))
               /\ intake[w].step # "idle"
      <4>1. [note |-> intake[w].receipt[1], by |-> intake[w].receipt[2]] \in processed
        BY <2>3, <3>2 DEF ApplyWrite
      <4> QED
        BY <3>2, <4>1 DEF ApplyWrite, Counted
    <3>3. CASE intake' = intake
      BY <3>3
    <3> QED
      BY <2>3, <3>1, <3>2, <3>3, <1>4, <1>5 DEF Handle, Conflict, procurementVars
  <2> QED
    BY <2>1, <2>2, <2>3
<1>9. \A o \in Orders : order'[o].received = order[o].received /\ (Approved(o) => Approved(o)')
  BY <1>1 DEF Approved
<1> QED
  BY <1>1, <1>8, <1>9, QuietCredit

LEMMA LossCredit ==
    ASSUME IInv, IInv', CreditInv, NEW service, ChannelLost(service) \/ Crash(service)
    PROVE  CreditInv'
<1>1. /\ UNCHANGED <<order, processed, note, event>>
      /\ intake' = intake \/ intake' = [w \in Slots |-> NoIntake]
      /\ dock' = dock \/ dock' = [k \in Docks |-> NoDock]
  BY DEF ChannelLost, Crash, procurementVars, receivingVars
<1>2. dock' = dock \/ DocksLow'
  BY <1>1, IdleRow DEF DocksLow, Carries
<1>3. intake' = intake \/ ReadsLow'
  BY <1>1, IdleHandlers DEF ReadsLow
<1>4. \A o \in Orders : order'[o].received = order[o].received /\ (Approved(o) => Approved(o)')
  BY <1>1 DEF Approved
<1> QED
  BY <1>1, <1>2, <1>3, <1>4, QuietCredit

LEMMA StepCredit == IInv /\ IInv' /\ CreditInv /\ [Next]_vars => CreditInv'
<1> SUFFICES ASSUME IInv, IInv', CreditInv, [Next]_vars PROVE CreditInv'
  OBVIOUS
<1>1. CASE UNCHANGED vars
  <2>1. UNCHANGED <<order, processed, note, event, dock, intake>>
    BY <1>1 DEF vars, procurementVars, receivingVars
  <2>2. \A o \in Orders : order'[o].received = order[o].received /\ (Approved(o) => Approved(o)')
    BY <2>1 DEF Approved
  <2> QED
    BY <2>1, <2>2, QuietCredit
<1>2. ASSUME NEW b \in Buyers, Office(b) \/ PublishApproval(b) PROVE CreditInv'
  BY <1>2, OfficeCredit
<1>3. ASSUME NEW k \in Docks, Unload(k) \/ Announce(k) PROVE CreditInv'
  BY <1>3, NoteCredit, AnnounceCredit
<1>4. ASSUME NEW w \in Slots, Deliver(w) \/ Handle(w) \/ Throws(w) PROVE CreditInv'
  <2>1. CASE intake[w].step # "idle" /\ UNCHANGED <<receivingVars, mail, faults>>
             /\ ApplyWrite(w, OrderOf(intake[w].receipt), Arrived(event[intake[w].receipt]))
    BY <2>1, ApplyCredit
  <2>2. CASE processed' = processed
    BY <1>4, <2>2, HandlerCredit
  <2>3. Deliver(w) \/ Throws(w) => processed' = processed
    BY DEF Deliver, Throws
  <2>4. Handle(w) => \/ processed' = processed
                     \/ /\ intake[w].step # "idle" /\ UNCHANGED <<receivingVars, mail, faults>>
                        /\ ApplyWrite(w, OrderOf(intake[w].receipt), Arrived(event[intake[w].receipt]))
    BY DEF Handle, Conflict, Ack, AwaitFind, AwaitCreate, ApplyRead, ApplySkip, procurementVars
  <2> QED
    BY <1>4, <2>1, <2>2, <2>3, <2>4
<1>5. ASSUME NEW s \in Services, ChannelLost(s) \/ Crash(s) PROVE CreditInv'
  BY <1>5, LossCredit
<1> QED
  BY <1>1, <1>2, <1>3, <1>4, <1>5 DEF Next

(* Receipts that overlap, fail, arrive twice or find a stale order never    *)
(* add up to more than what was scanned on the notes counted for an order:  *)
(* what a handler read is a lower bound that counting can only raise.       *)
THEOREM CreditIsBacked == Spec => []NeverMoreThanArrived
<1>1. Init => IInv /\ CreditInv
  BY InitIInv, InitCredit
<1>2. IInv /\ CreditInv /\ [Next]_vars => (IInv /\ CreditInv)'
  BY StepIInv, StepCredit
<1>3. CreditInv => NeverMoreThanArrived
  BY DEF CreditInv
<1> QED
  BY <1>1, <1>2, <1>3, PTL DEF Spec

-----------------------------------------------------------------------------
(* Deliveries.  What Receiving counted, and what a dock worker read of it,  *)
(* is on the final notes of the order, unless two requests finalized one.   *)
Finals(o) == NotesOf(o, "FINALIZED")
Backed(o, quantities) == Finals(o) \cap twice = {} =>
    \A s \in LinesOf(o) : quantities[s] <= Total(Finals(o), s)
DockBacked(d) ==
    /\ d.step \in {"total", "commit"} => d.order = note[d.note[1]].order
    /\ d.step = "commit" => Backed(d.order[1], d.base)
FinalInv == /\ \A o \in Orders : Backed(o, expected[o].received)
            /\ \A k \in Docks : DockBacked(dock[k])

(* Notes keep their order and stay final, and their lines only grow.        *)
NotesGrow ==
    /\ \A n \in Notes : Opened(n) => note'[n].order = note[n].order
    /\ \A n \in Notes : Final(n) => Final(n)'
    /\ \A n \in Notes, s \in Skus : Arrived(note[n].lines)[s] <= Arrived(note'[n].lines)[s]

LEMMA SameGrow == ASSUME IInv, note' = note PROVE NotesGrow
<1>1. \A n \in Notes, s \in Skus : Arrived(note[n].lines)[s] \in Nat
  BY ArrivedType DEF IInv, TypeOK, ReceivingTypeOK, Quantities
<1> QED
  BY <1>1 DEF NotesGrow, Final

LEMMA FinalsGrow ==
    ASSUME IInv, IInv', NotesGrow, NEW o \in Orders, NEW s \in Skus
    PROVE  /\ Finals(o) \subseteq Finals(o)'
           /\ Total(Finals(o), s) \in Nat /\ Total(Finals(o), s)' \in Nat
           /\ Total(Finals(o), s) <= Total(Finals(o), s)'
<1> DEFINE f == [n \in Notes |-> ArrivedOn(n)[s]]
           g == [n \in Notes |-> Arrived(note'[n].lines)[s]]
<1>1. PICK S, T : S = Finals(o) /\ T = Finals(o)'
  OBVIOUS
<1>2. Total(Finals(o), s) = SumFunctionOnSet(f, S) /\ Total(Finals(o), s)' = SumFunctionOnSet(g, T)
  BY <1>1 DEF Total, ArrivedOn
<1>3. S \subseteq Notes /\ T \subseteq Notes /\ S \subseteq T
  BY <1>1 DEF Finals, NotesOf, NotesGrow, Opened, Final
<1>4. IsFiniteSet(S) /\ IsFiniteSet(T)
  BY <1>3, OrderAssumption, FS_Subset
<1>5. \A n \in Notes : f[n] \in Nat /\ g[n] \in Nat /\ f[n] <= g[n]
  <2>1. \A n \in Notes : Arrived(note[n].lines)[s] \in Nat /\ Arrived(note'[n].lines)[s] \in Nat
    BY ArrivedType DEF IInv, TypeOK, ReceivingTypeOK, Quantities
  <2> QED
    BY <2>1 DEF NotesGrow, ArrivedOn
<1> HIDE DEF f, g
<1>6. \A n \in S : f[n] \in Int /\ g[n] \in Int /\ f[n] <= g[n]
  BY <1>3, <1>5
<1>7. SumFunctionOnSet(f, S) <= SumFunctionOnSet(g, S)
  BY <1>4, <1>6, SumMonotone DEF Ints
<1>8. (\A n \in T : g[n] \in Nat) /\ (\A n \in S : f[n] \in Nat)
  BY <1>3, <1>5
<1>9. SumFunctionOnSet(g, S) <= SumFunctionOnSet(g, T)
  BY <1>3, <1>4, <1>8, SumFewer
<1>10. /\ SumFunctionOnSet(f, S) \in Nat /\ SumFunctionOnSet(g, T) \in Nat
       /\ SumFunctionOnSet(g, S) \in Int
  BY <1>4, <1>6, <1>8, SumNat, SumInt DEF Ints
<1>11. SumFunctionOnSet(f, S) <= SumFunctionOnSet(g, T)
  BY <1>7, <1>9, <1>10
<1> QED
  BY <1>1, <1>2, <1>3, <1>10, <1>11

(* What was backed stays backed, and nothing at all is backed from the start. *)
LEMMA BackedStays ==
    ASSUME IInv, IInv', NotesGrow, twice \subseteq twice', NEW o \in Orders, NEW quantities \in Quantities,
           Backed(o, quantities) \/ quantities = Nothing
    PROVE  Backed(o, quantities)'
<1> SUFFICES ASSUME Finals(o)' \cap twice' = {}, NEW s \in LinesOf(o)
             PROVE  quantities[s] <= Total(Finals(o), s)'
  BY DEF Backed
<1>1. s \in Skus /\ quantities[s] \in Nat
  BY DEF LinesOf, Quantities
<1>2. PICK S, T, before, after :
         /\ S = Finals(o) /\ T = Finals(o)'
         /\ before = Total(Finals(o), s) /\ after = Total(Finals(o), s)'
  OBVIOUS
<1>3. S \subseteq T /\ before \in Nat /\ after \in Nat /\ before <= after
  BY <1>1, <1>2, FinalsGrow
<1>4. CASE quantities = Nothing
  BY <1>1, <1>2, <1>3, <1>4 DEF Nothing
<1>5. CASE Backed(o, quantities)
  <2>1. S \cap twice = {}
    BY <1>2, <1>3
  <2>2. quantities[s] <= before
    BY <1>2, <1>5, <2>1 DEF Backed
  <2> QED
    BY <1>1, <1>2, <1>3, <2>2
<1> QED
  BY <1>4, <1>5

(* What a step has to see to.                                               *)
LEMMA FinalStays ==
    ASSUME IInv, IInv', FinalInv, NotesGrow, twice \subseteq twice',
           \A o \in Orders : \/ expected'[o].received \in {expected[o].received, Nothing}
                             \/ Backed(o, expected[o].received)',
           \A k \in Docks : \/ dock'[k] = dock[k]
                            \/ dock'[k].step \notin {"total", "commit"}
                            \/ DockBacked(dock[k])'
    PROVE  FinalInv'
<1>1. ASSUME NEW o \in Orders PROVE Backed(o, expected[o].received)'
  <2>1. PICK q \in Quantities : q = expected'[o].received
    BY DEF IInv, TypeOK, ReceivingTypeOK
  <2>2. Backed(o, expected[o].received)
    BY DEF FinalInv
  <2>3. CASE q \in {expected[o].received, Nothing}
    <3>1. Backed(o, q) \/ q = Nothing
      BY <2>2, <2>3
    <3> QED
      BY <2>1, <3>1, BackedStays
  <2>4. CASE Backed(o, expected[o].received)'
    BY <2>4
  <2> QED
    BY <2>1, <2>3, <2>4
<1>2. ASSUME NEW k \in Docks, dock'[k] = dock[k] PROVE DockBacked(dock[k])'
  <2>1. PICK d : d = dock[k]
    OBVIOUS
  <2>2. d \in DockRows /\ DockBacked(d) /\ d = dock'[k]
    BY <1>2, <2>1 DEF FinalInv, IInv, TypeOK, ReceivingTypeOK, DockRows
  <2>3. d.step \in {"total", "commit"} => \E o \in Orders, n \in Notes :
           d.order = <<o>> /\ d.note = <<n>> /\ Opened(n)
    BY <2>1 DEF IInv, DockInv
  <2>4. d.step \in {"total", "commit"} => d.order = note'[d.note[1]].order
    BY <2>2, <2>3 DEF DockBacked, NotesGrow
  <2>5. ASSUME d.step = "commit" PROVE Backed(d.order[1], d.base)'
    <3>1. PICK o \in Orders : d.order = <<o>>
      BY <2>3, <2>5
    <3>2. PICK q \in Quantities : q = d.base
      BY <2>2 DEF DockRows
    <3>3. Backed(o, q)
      BY <2>2, <2>5, <3>1, <3>2 DEF DockBacked
    <3>4. Backed(o, q)'
      BY <3>3, BackedStays
    <3> QED
      BY <3>1, <3>2, <3>4
  <2>6. d.step = "commit" => Backed(d.order[1], d.base)'
    BY <2>5
  <2> QED
    BY <2>2, <2>4, <2>6 DEF DockBacked
<1>3. ASSUME NEW k \in Docks PROVE DockBacked(dock[k])'
  BY <1>2 DEF DockBacked
<1> QED
  BY <1>1, <1>3 DEF FinalInv

LEMMA InitFinal == Init => FinalInv
<1> SUFFICES ASSUME Init PROVE FinalInv
  OBVIOUS
<1>1. IInv
  BY InitIInv
<1>2. ASSUME NEW o \in Orders PROVE Backed(o, expected[o].received)
  <2> SUFFICES ASSUME NEW s \in LinesOf(o) PROVE expected[o].received[s] <= Total(Finals(o), s)
    BY DEF Backed
  <2>1. s \in Skus /\ Finals(o) \in SUBSET Notes
    BY DEF LinesOf, Finals, NotesOf
  <2>2. Total(Finals(o), s) \in Nat
    BY <1>1, <2>1, NotesSum
  <2>3. expected[o].received[s] = 0
    BY <2>1 DEF Init, ReceivingInit, Nothing
  <2> QED
    BY <2>2, <2>3
<1>3. \A k \in Docks : DockBacked(dock[k])
  BY DEF Init, ReceivingInit, DockBacked, NoDock
<1> QED
  BY <1>2, <1>3 DEF FinalInv

(* Steps that finalize nothing: a delivery may be started at nothing.       *)
LEMMA QuietFinal ==
    ASSUME IInv, IInv', FinalInv, note' = note, twice' = twice,
           \A o \in Orders : expected'[o].received \in {expected[o].received, Nothing},
           \A k \in Docks : dock'[k] = dock[k] \/ dock'[k].step \notin {"total", "commit"}
    PROVE  FinalInv'
BY SameGrow, FinalStays

LEMMA AwaitFinal ==
    ASSUME IInv, IInv', FinalInv, NEW w \in Slots, AwaitFind(w) \/ AwaitCreate(w)
    PROVE  FinalInv'
<1>1. PICK o \in Orders : awaiting[w].order = <<o>>
  BY DEF IInv, AwaitInv, AwaitFind, AwaitCreate
<1>2. /\ expected' = expected \/ expected' = [expected EXCEPT ![o] = Fresh]
      /\ UNCHANGED <<note, dock, twice>>
  BY <1>1 DEF AwaitFind, AwaitCreate
<1>3. \A p \in Orders : expected'[p].received \in {expected[p].received, Nothing}
  BY <1>2 DEF IInv, TypeOK, ReceivingTypeOK, Fresh
<1> QED
  BY <1>2, <1>3, QuietFinal

(* The commit of a note that was a draft still adds to totals that were     *)
(* backed when read what is on the note by now.                             *)
LEMMA CommitFinal ==
    ASSUME IInv, IInv', CreditInv, FinalInv, NotesGrow, NEW k \in Docks, FinalizeCommit(k)
    PROVE  FinalInv'
<1>1. dock[k] \in DockRows /\ dock \in [Docks -> DockRows]
  BY DEF IInv, TypeOK, ReceivingTypeOK, DockRows
<1>2. note \in [Notes -> [status : {"NONE", "DRAFT", "FINALIZED"}, order : MaybeOrder, lines : Lines]]
  BY DEF IInv, TypeOK, ReceivingTypeOK
<1>3. PICK o \in Orders : dock[k].order = <<o>>
  BY DEF IInv, DockInv, FinalizeCommit
<1>4. PICK n \in Notes : dock[k].note = <<n>> /\ Opened(n)
  BY DEF IInv, DockInv, FinalizeCommit
<1>5. /\ dock[k].step = "commit" /\ DockBacked(dock[k]) /\ LowLines(dock[k].lines, n)
  BY <1>4 DEF FinalizeCommit, FinalInv, CreditInv, DocksLow, Carries
<1>6. note[n].order = <<o>> /\ Backed(o, dock[k].base)
  BY <1>3, <1>4, <1>5 DEF DockBacked
<1> DEFINE row == [dock[k] EXCEPT !.step = "publish"]
           entry == [note[n] EXCEPT !.status = "FINALIZED"]
           said == [status |-> IF Full(o, TotalAfter(k)) THEN "RECEIVED" ELSE "PARTIALLY_RECEIVED",
                    received |-> TotalAfter(k)]
<1>7. /\ note' = [note EXCEPT ![n] = entry]
      /\ expected' = [expected EXCEPT ![o] = said]
      /\ dock' = [dock EXCEPT ![k] = row]
      /\ twice' = IF note[n].status = "FINALIZED" THEN twice \cup {n} ELSE twice
  BY <1>3, <1>4 DEF FinalizeCommit
<1>8. row.step = "publish" /\ said.received = TotalAfter(k)
  BY <1>1 DEF DockRows
<1>9. entry.status = "FINALIZED" /\ entry.lines = note[n].lines /\ entry.order = <<o>>
  BY <1>2, <1>6
<1>10. \A s \in LinesOf(o) : s \in Skus /\ TotalAfter(k)[s] = dock[k].base[s] + Arrived(dock[k].lines)[s]
  BY <1>3 DEF TotalAfter, LinesOf
<1> HIDE DEF row, entry, said
<1>11. /\ \A m \in Notes : note'[m] = IF m = n THEN entry ELSE note[m]
       /\ \A p \in Orders : expected'[p] = IF p = o THEN said ELSE expected[p]
       /\ \A j \in Docks : dock'[j] = IF j = k THEN row ELSE dock[j]
  BY <1>1, <1>2, <1>7, TypesNow
<1>12. \A m \in Notes : ArrivedOn(m)' = ArrivedOn(m)
  BY <1>9, <1>11 DEF ArrivedOn
<1>13. ASSUME NEW s \in LinesOf(o), Finals(o)' \cap twice' = {}
       PROVE  TotalAfter(k)[s] <= Total(Finals(o), s)'
  <2> DEFINE f == [m \in Notes |-> ArrivedOn(m)[s]]
  <2>1. PICK S, T : S = Finals(o) /\ T = Finals(o)'
    OBVIOUS
  <2>2. n \in T
    BY <1>9, <1>11, <2>1 DEF Finals, NotesOf
  <2>3. note[n].status # "FINALIZED" /\ twice' = twice
    BY <1>7, <1>13, <2>1, <2>2
  <2>4. T = S \cup {n} /\ n \notin S /\ S \in SUBSET Notes
    BY <1>6, <1>9, <1>11, <2>1, <2>3 DEF Finals, NotesOf
  <2>5. S \cap twice = {}
    BY <1>13, <2>1, <2>3, <2>4
  <2>6. s \in Skus
    BY DEF LinesOf
  <2>7. IsFiniteSet(S) /\ \A m \in Notes : ArrivedOn(m)[s] \in Nat
    BY <2>4, <2>6, NotesSum
  <2>8. Total(Finals(o), s) = SumFunctionOnSet(f, S) /\ Total(Finals(o), s)' = SumFunctionOnSet(f, T)
    BY <1>12, <2>1 DEF Total
  <2>9. dock[k].base[s] <= Total(Finals(o), s)
    BY <1>6, <2>1, <2>5 DEF Backed
  <2>10. f[n] = ArrivedOn(n)[s] /\ \A m \in S \cup {n} : f[m] \in Int
    BY <2>4, <2>7
  <2> HIDE DEF f
  <2>11. SumFunctionOnSet(f, S \cup {n}) = f[n] + SumFunctionOnSet(f, S)
    BY <2>4, <2>7, <2>10, SumInsert DEF Ints
  <2>12. SumFunctionOnSet(f, S) \in Int
    BY <2>4, <2>7, <2>10, SumInt DEF Ints
  <2>13. PICK total \in Int : total = SumFunctionOnSet(f, S)
    BY <2>12
  <2>14. /\ Arrived(dock[k].lines)[s] <= ArrivedOn(n)[s]
         /\ Arrived(dock[k].lines)[s] \in Int /\ ArrivedOn(n)[s] \in Int /\ dock[k].base[s] \in Int
    <3>1. Arrived(dock[k].lines) \in Quantities /\ dock[k].base \in Quantities
      BY <1>1, ArrivedType DEF DockRows
    <3> QED
      BY <1>5, <2>6, <2>7, <3>1 DEF LowLines, Quantities
  <2>15. Total(Finals(o), s)' = ArrivedOn(n)[s] + total /\ dock[k].base[s] <= total
    BY <2>4, <2>8, <2>9, <2>10, <2>11, <2>13
  <2>16. TotalAfter(k)[s] = dock[k].base[s] + Arrived(dock[k].lines)[s]
    BY <1>10
  <2> QED
    BY <2>13, <2>14, <2>15, <2>16
<1>14. Backed(o, expected[o].received)'
  <2>1. expected'[o].received = TotalAfter(k)
    BY <1>8, <1>11
  <2> QED
    BY <1>13, <2>1 DEF Backed
<1>15. \A p \in Orders : \/ expected'[p].received \in {expected[p].received, Nothing}
                         \/ Backed(p, expected[p].received)'
  BY <1>11, <1>14
<1>16. \A j \in Docks : dock'[j] = dock[j] \/ dock'[j].step \notin {"total", "commit"}
  BY <1>8, <1>11
<1>17. twice \subseteq twice'
  BY <1>7
<1> QED
  BY <1>15, <1>16, <1>17, FinalStays

LEMMA DockFinal ==
    ASSUME IInv, IInv', CreditInv, FinalInv, NEW k \in Docks, Unload(k)
    PROVE  FinalInv'
<1>1. NotesGrow
  BY NoteCredit DEF Climbs, Grows, NotesGrow
<1>2. dock \in [Docks -> DockRows]
  BY DEF IInv, TypeOK, ReceivingTypeOK, DockRows
<1>3. ASSUME NEW row, dock' = [dock EXCEPT ![k] = row], twice' = twice,
             \A o \in Orders : expected'[o].received \in {expected[o].received, Nothing},
             row.step \notin {"total", "commit"} \/ DockBacked(row)'
      PROVE  FinalInv'
  <2>1. \A j \in Docks : dock'[j] = IF j = k THEN row ELSE dock[j]
    BY <1>2, <1>3
  <2>2. \A j \in Docks : \/ dock'[j] = dock[j]
                         \/ dock'[j].step \notin {"total", "commit"}
                         \/ DockBacked(dock[j])'
    BY <1>3, <2>1 DEF DockBacked
  <2> QED
    BY <1>1, <1>3, <2>2, FinalStays
<1>4. CASE \E o \in Orders : AskProcurement(k, o)
  <2>1. PICK o \in Orders : AskProcurement(k, o)
    BY <1>4
  <2>2. PICK row : row = [NoDock EXCEPT !.step = "expect", !.order = <<o>>]
    OBVIOUS
  <2>3. row.step = "expect"
    BY <2>2 DEF NoDock
  <2> QED
    BY <1>3, <2>1, <2>2, <2>3 DEF AskProcurement
<1>5. CASE FindExpected(k)
  <2>1. PICK row : row = IF expected[dock[k].order[1]].status = "NONE"
                         THEN [NoDock EXCEPT !.step = "seed", !.order = <<dock[k].order[1]>>]
                         ELSE [NoDock EXCEPT !.step = "insert", !.order = <<dock[k].order[1]>>,
                                             !.base = expected[dock[k].order[1]].received]
    OBVIOUS
  <2>2. row.step \in {"seed", "insert"}
    BY <2>1 DEF NoDock
  <2> QED
    BY <1>3, <1>5, <2>1, <2>2 DEF FindExpected
<1>6. CASE SeedExpected(k)
  <2>1. PICK o \in Orders : dock[k].order = <<o>>
    BY <1>6 DEF IInv, DockInv, SeedExpected
  <2>2. PICK row : row = IF expected[o].status = "NONE"
                         THEN [NoDock EXCEPT !.step = "insert", !.order = <<o>>] ELSE NoDock
    OBVIOUS
  <2>3. row.step \in {"insert", "idle"}
    BY <2>2 DEF NoDock
  <2>4. /\ dock' = [dock EXCEPT ![k] = row] /\ twice' = twice
        /\ expected' = expected \/ expected' = [expected EXCEPT ![o] = Fresh]
    BY <1>6, <2>1, <2>2 DEF SeedExpected
  <2>5. \A p \in Orders : expected'[p].received \in {expected[p].received, Nothing}
    <3>1. \A p \in Orders : expected'[p] \in {expected[p], Fresh}
      BY <2>4, TypesNow
    <3> QED
      BY <3>1 DEF Fresh
  <2> QED
    BY <1>3, <2>3, <2>4, <2>5
<1>7. CASE (\E n \in Notes : InsertNote(k, n)) \/ ScanUpsert(k)
  <2>1. dock' = [dock EXCEPT ![k] = NoDock] /\ UNCHANGED <<twice, expected>> /\ NoDock.step = "idle"
    BY <1>7 DEF InsertNote, ScanUpsert, NoDock
  <2> QED
    BY <1>3, <2>1
<1>8. CASE \E n \in Notes, scan \in Scannable : ScanRead(k, n, scan)
  <2>1. PICK n \in Notes, scan \in Scannable : ScanRead(k, n, scan)
    BY <1>8
  <2>2. PICK row : row = [NoDock EXCEPT !.step = "upsert", !.note = <<n>>, !.scan = scan]
    OBVIOUS
  <2>3. row.step = "upsert"
    BY <2>2 DEF NoDock
  <2> QED
    BY <1>3, <2>1, <2>2, <2>3 DEF ScanRead
<1>9. CASE \E n \in Notes : FinalizeRead(k, n)
  <2>1. PICK n \in Notes : FinalizeRead(k, n)
    BY <1>9
  <2>2. PICK row : row = [NoDock EXCEPT !.step = "total", !.note = <<n>>,
                                        !.order = note[n].order, !.lines = note[n].lines]
    OBVIOUS
  <2>3. row.step = "total" /\ row.note = <<n>> /\ row.order = note[n].order
    BY <2>2 DEF NoDock
  <2>4. dock' = [dock EXCEPT ![k] = row] /\ UNCHANGED <<note, expected, twice>>
    BY <2>1, <2>2 DEF FinalizeRead
  <2>5. DockBacked(row)'
    BY <2>3, <2>4 DEF DockBacked
  <2> QED
    BY <1>3, <2>4, <2>5
<1>10. CASE FinalizeTotal(k)
  <2>1. PICK o \in Orders : dock[k].order = <<o>>
    BY <1>10 DEF IInv, DockInv, FinalizeTotal
  <2>2. PICK row : row = [dock[k] EXCEPT !.step = "commit", !.base = expected[o].received]
    OBVIOUS
  <2>3. /\ dock[k].step = "total" /\ dock' = [dock EXCEPT ![k] = row]
        /\ UNCHANGED <<note, expected, twice>>
    BY <1>10, <2>1, <2>2 DEF FinalizeTotal
  <2>4. /\ row.step = "commit" /\ row.note = dock[k].note /\ row.order = <<o>>
        /\ row.base = expected[o].received
    <3>1. dock[k] \in DockRows
      BY <1>2
    <3> QED
      BY <2>1, <2>2, <3>1 DEF DockRows
  <2>5. row.order = note[row.note[1]].order
    BY <2>1, <2>3, <2>4 DEF FinalInv, DockBacked
  <2>6. PICK q \in Quantities : q = expected[o].received
    BY DEF IInv, TypeOK, ReceivingTypeOK
  <2>7. Backed(o, q)'
    BY <1>1, <2>3, <2>6, BackedStays DEF FinalInv
  <2>8. DockBacked(row)'
    BY <2>3, <2>4, <2>5, <2>6, <2>7 DEF DockBacked
  <2> QED
    BY <1>3, <2>3, <2>8
<1>11. CASE FinalizeCommit(k)
  BY <1>1, <1>11, CommitFinal
<1> QED
  BY <1>4, <1>5, <1>6, <1>7, <1>8, <1>9, <1>10, <1>11 DEF Unload

LEMMA StepFinal == IInv /\ IInv' /\ CreditInv /\ FinalInv /\ [Next]_vars => FinalInv'
<1> SUFFICES ASSUME IInv, IInv', CreditInv, FinalInv, [Next]_vars PROVE FinalInv'
  OBVIOUS
<1>1. ASSUME UNCHANGED <<note, expected, twice>>,
             \A k \in Docks : dock'[k] = dock[k] \/ dock'[k] = NoDock
      PROVE  FinalInv'
  BY <1>1, IdleRow, QuietFinal
<1>2. CASE UNCHANGED vars
  BY <1>1, <1>2 DEF vars, receivingVars
<1>3. ASSUME NEW b \in Buyers, Office(b) \/ PublishApproval(b) PROVE FinalInv'
  BY <1>1, <1>3 DEF Office, PublishApproval, receivingVars
<1>4. ASSUME NEW k \in Docks, Unload(k) PROVE FinalInv'
  BY <1>4, DockFinal
<1>5. ASSUME NEW k \in Docks, Announce(k) PROVE FinalInv'
  <2>1. UNCHANGED <<note, expected, twice>> /\ dock' = [dock EXCEPT ![k] = NoDock]
    BY <1>5 DEF Announce, FinalizePublish
  <2>2. \A j \in Docks : dock'[j] = dock[j] \/ dock'[j] = NoDock
    BY <2>1 DEF IInv, TypeOK, ReceivingTypeOK
  <2> QED
    BY <1>1, <2>1, <2>2
<1>6. ASSUME NEW w \in Slots, Deliver(w) \/ Handle(w) \/ Throws(w) PROVE FinalInv'
  <2>1. CASE AwaitFind(w) \/ AwaitCreate(w)
    BY <2>1, AwaitFinal
  <2>2. CASE UNCHANGED <<note, expected, dock, twice>>
    BY <1>1, <2>2
  <2> QED
    BY <1>6, <2>1, <2>2 DEF Deliver, Handle, Throws, Conflict, Ack, receivingVars
<1>7. ASSUME NEW s \in Services, ChannelLost(s) \/ Crash(s) PROVE FinalInv'
  <2>1. /\ UNCHANGED <<note, expected, twice>>
        /\ dock' = dock \/ dock' = [k \in Docks |-> NoDock]
    BY <1>7 DEF ChannelLost, Crash, receivingVars
  <2> QED
    BY <1>1, <2>1
<1> QED
  BY <1>2, <1>3, <1>4, <1>5, <1>6, <1>7 DEF Next

(* CLOSED is only said of orders that arrived in full on the notes counted  *)
(* for them, and RECEIVED of those whose final notes hold everything unless *)
(* two requests finalized one of them: totals and statuses written back     *)
(* from old reads never get ahead of the goods.                             *)
THEOREM ClosedIsReceived == Spec => []ClosedMeansReceived
<1>1. Init => IInv /\ CreditInv /\ FinalInv
  BY InitIInv, InitCredit, InitFinal
<1>2. IInv /\ CreditInv /\ FinalInv /\ [Next]_vars => (IInv /\ CreditInv /\ FinalInv)'
  BY StepIInv, StepCredit, StepFinal
<1>3. IInv /\ CreditInv /\ FinalInv => ClosedMeansReceived
  <2> SUFFICES ASSUME IInv, CreditInv, FinalInv, NEW o \in Orders
               PROVE  /\ order[o].status = "CLOSED" => Full(o, Totals(CountedNotes(o)))
                      /\ expected[o].status = "RECEIVED" /\ Finals(o) \cap twice = {} =>
                            Full(o, Totals(Finals(o)))
    BY DEF ClosedMeansReceived, Finals
  <2>1. ASSUME NEW quantities \in Quantities, NEW S \in SUBSET Notes, Full(o, quantities),
               \A s \in LinesOf(o) : quantities[s] <= Total(S, s)
        PROVE  Full(o, Totals(S))
    <3> SUFFICES ASSUME NEW s \in LinesOf(o) PROVE Totals(S)[s] >= Ordered[o][s]
      BY DEF Full
    <3>1. s \in Skus
      BY DEF LinesOf
    <3>2. Totals(S)[s] = Total(S, s) /\ Total(S, s) \in Nat
      BY <3>1, NotesSum DEF Totals
    <3>3. quantities[s] \in Nat /\ Ordered[o][s] \in Nat /\ quantities[s] >= Ordered[o][s]
      BY <2>1, <3>1, OrderAssumption DEF Quantities, Full
    <3> QED
      BY <2>1, <3>2, <3>3
  <2>2. order[o].received \in Quantities /\ expected[o].received \in Quantities
    BY TypesNow DEF IInv, TypeOK, ReceivingTypeOK
  <2>3. CountedNotes(o) \in SUBSET Notes /\ Finals(o) \in SUBSET Notes
    BY DEF CountedNotes, Finals, NotesOf
  <2>4. ASSUME order[o].status = "CLOSED" PROVE Full(o, Totals(CountedNotes(o)))
    <3>1. Full(o, order[o].received)
      BY <2>4 DEF IInv, SaidComplete
    <3>2. \A s \in LinesOf(o) : order[o].received[s] <= Total(CountedNotes(o), s)
      BY DEF CreditInv, NeverMoreThanArrived
    <3> QED
      BY <2>1, <2>2, <2>3, <3>1, <3>2
  <2>5. ASSUME expected[o].status = "RECEIVED", Finals(o) \cap twice = {} PROVE Full(o, Totals(Finals(o)))
    <3>1. Full(o, expected[o].received)
      BY <2>5 DEF IInv, SaidComplete
    <3>2. \A s \in LinesOf(o) : expected[o].received[s] <= Total(Finals(o), s)
      BY <2>5 DEF FinalInv, Backed
    <3> QED
      BY <2>1, <2>2, <2>3, <3>1, <3>2
  <2> QED
    BY <2>4, <2>5
<1> QED
  BY <1>1, <1>2, <1>3, PTL DEF Spec

-----------------------------------------------------------------------------
(* With one dock worker at a time, the note he finalizes is a draft and     *)
(* its lines and the totals are still the ones he read.                     *)
OneDock == \A j, k \in Docks : j = k
DockReads(d) ==
    /\ d.step \in {"upsert", "total", "commit"} => note[d.note[1]].status = "DRAFT"
    /\ d.step \in {"total", "commit"} =>
          d.order = note[d.note[1]].order /\ d.lines = note[d.note[1]].lines
    /\ d.step = "commit" => d.base = expected[d.order[1]].received
ExpectedInv ==
    /\ \A o \in Orders : expected[o].status = "NONE" => expected[o].received = Nothing
    /\ \A k \in Docks : DockReads(dock[k])
    /\ ExpectedTotals

Announced == \A o \in Orders : expected[o].status = "NONE" => expected[o].received = Nothing

LEMMA InitExpected == Init => ExpectedInv
<1> SUFFICES ASSUME Init PROVE ExpectedInv
  OBVIOUS
<1>1. IInv
  BY InitIInv
<1>2. Announced /\ \A k \in Docks : DockReads(dock[k])
  BY DEF Init, ReceivingInit, Announced, DockReads, NoDock
<1>3. ExpectedTotals
  <2> SUFFICES ASSUME NEW o \in Orders, NEW s \in LinesOf(o)
               PROVE  expected[o].received[s] = Total(NotesOf(o, "FINALIZED"), s)
    BY DEF ExpectedTotals
  <2>1. expected[o].received[s] = 0
    BY DEF Init, ReceivingInit, Nothing, LinesOf
  <2>2. NotesOf(o, "FINALIZED") = {}
    BY DEF NotesOf, Init, ReceivingInit, NoNote
  <2>3. Total({}, s) = 0
    BY SumEmpty DEF Total
  <2> QED
    BY <2>1, <2>2, <2>3
<1> QED
  BY <1>2, <1>3 DEF ExpectedInv, Announced

(* A step that finalizes nothing and leaves the totals and the final notes  *)
(* alone.                                                                   *)
FinalSame == \A n \in Notes : /\ Final(n)' <=> Final(n)
                              /\ Final(n) => note'[n] = note[n]
TotalsSame == \A o \in Orders : /\ expected'[o].received = expected[o].received
                                /\ expected'[o].status = "NONE" => expected[o].status = "NONE"

LEMMA ExpectedKept ==
    ASSUME IInv, ExpectedInv, FinalSame, TotalsSame,
           \A k \in Docks : DockReads(dock[k])'
    PROVE  ExpectedInv'
<1>1. Announced'
  BY DEF ExpectedInv, TotalsSame, Announced
<1>2. ASSUME NEW o \in Orders, NEW s \in LinesOf(o)
      PROVE  expected'[o].received[s] = Total(NotesOf(o, "FINALIZED"), s)'
  <2> DEFINE f == [n \in Notes |-> ArrivedOn(n)[s]]
             g == [n \in Notes |-> Arrived(note'[n].lines)[s]]
             S == NotesOf(o, "FINALIZED")
  <2>1. S' = S
    BY DEF FinalSame, NotesOf, Final
  <2>2. Total(S, s) = SumFunctionOnSet(f, S) /\ Total(S, s)' = SumFunctionOnSet(g, S)
    BY <2>1 DEF Total, ArrivedOn
  <2>3. \A n \in S : f[n] = g[n]
    BY DEF NotesOf, FinalSame, Final, ArrivedOn
  <2>4. IsFiniteSet(S)
    BY OrderAssumption, FS_Subset DEF NotesOf
  <2>5. expected'[o].received[s] = Total(S, s)
    BY DEF TotalsSame, ExpectedInv, ExpectedTotals
  <2> HIDE DEF f, g, S
  <2>6. SumFunctionOnSet(f, S) = SumFunctionOnSet(g, S)
    BY <2>3, <2>4, SumSame
  <2>7. expected'[o].received[s] = SumFunctionOnSet(g, S)
    BY <2>2, <2>5, <2>6
  <2> QED
    BY <2>2, <2>7 DEF S
<1> QED
  BY <1>1, <1>2 DEF ExpectedInv, Announced, ExpectedTotals

(* Neither the notes nor the totals changed: what was read still holds.     *)
LEMMA ReadsKept ==
    ASSUME IInv, ExpectedInv, note' = note, TotalsSame,
           NEW k \in Docks, dock'[k] = dock[k] \/ dock'[k] = NoDock
    PROVE  DockReads(dock[k])'
<1>1. CASE dock'[k] = NoDock
  BY <1>1 DEF DockReads, NoDock
<1>2. CASE dock'[k] = dock[k]
  <2>1. dock[k].step = "commit" => dock[k].base = expected'[dock[k].order[1]].received
    BY DEF IInv, DockInv, ExpectedInv, DockReads, TotalsSame
  <2> QED
    BY <1>2, <2>1 DEF ExpectedInv, DockReads
<1> QED
  BY <1>1, <1>2

LEMMA ExpectedStays ==
    ASSUME IInv, ExpectedInv, note' = note, expected' = expected,
           \A k \in Docks : dock'[k] = dock[k] \/ dock'[k] = NoDock
    PROVE  ExpectedInv'
<1>1. TotalsSame /\ FinalSame
  BY DEF TotalsSame, FinalSame, Final
<1> QED
  BY <1>1, ReadsKept, ExpectedKept

(* The handler that makes an expected delivery starts it at nothing.        *)
LEMMA AwaitExpected ==
    ASSUME IInv, ExpectedInv, NEW w \in Slots, AwaitFind(w) \/ AwaitCreate(w)
    PROVE  ExpectedInv'
<1>1. PICK o \in Orders : awaiting[w].order = <<o>>
  BY DEF IInv, AwaitInv, AwaitFind, AwaitCreate
<1>2. /\ \/ expected' = expected
         \/ expected[o].status = "NONE" /\ expected' = [expected EXCEPT ![o] = Fresh]
      /\ UNCHANGED <<note, dock>>
  BY <1>1 DEF AwaitFind, AwaitCreate
<1>3. TotalsSame
  <2>1. CASE expected' = expected
    BY <2>1 DEF TotalsSame
  <2>2. CASE expected[o].status = "NONE" /\ expected' = [expected EXCEPT ![o] = Fresh]
    <3>1. expected[o].received = Nothing
      BY <2>2 DEF ExpectedInv
    <3>2. \A p \in Orders : expected'[p] = IF p = o THEN Fresh ELSE expected[p]
      BY <2>2, TypesNow
    <3> QED
      BY <3>1, <3>2 DEF TotalsSame, Fresh
  <2> QED
    BY <1>2, <2>1, <2>2
<1>4. FinalSame
  BY <1>2 DEF FinalSame, Final
<1> QED
  BY <1>2, <1>3, <1>4, ReadsKept, ExpectedKept

(* The one dock worker at his steps, other than the commit.                 *)
LEMMA DockExpected ==
    ASSUME IInv, ExpectedInv, OneDock, NEW k \in Docks, Unload(k), ~ FinalizeCommit(k)
    PROVE  ExpectedInv'
<1>1. \A j \in Docks : j = k
  BY DEF OneDock
<1>2. dock \in [Docks -> DockRows]
  BY DEF IInv, TypeOK, ReceivingTypeOK, DockRows
<1>3. note \in [Notes -> [status : {"NONE", "DRAFT", "FINALIZED"}, order : MaybeOrder, lines : Lines]]
  BY DEF IInv, TypeOK, ReceivingTypeOK
<1>4. ASSUME NEW row, dock' = [dock EXCEPT ![k] = row], row.step \notin {"upsert", "total", "commit"},
             FinalSame, TotalsSame
      PROVE  ExpectedInv'
  <2>1. \A j \in Docks : dock'[j] = row
    BY <1>1, <1>2, <1>4
  <2>2. \A j \in Docks : DockReads(dock[j])'
    BY <1>4, <2>1 DEF DockReads
  <2> QED
    BY <1>4, <2>2, ExpectedKept
<1>5. ASSUME NEW row, dock' = [dock EXCEPT ![k] = row], UNCHANGED <<note, expected>>, DockReads(row)
      PROVE  ExpectedInv'
  <2>1. \A j \in Docks : dock'[j] = row
    BY <1>1, <1>2, <1>5
  <2>2. \A j \in Docks : DockReads(dock[j])'
    BY <1>5, <2>1 DEF DockReads
  <2>3. FinalSame /\ TotalsSame
    BY <1>5 DEF FinalSame, TotalsSame, Final
  <2> QED
    BY <2>2, <2>3, ExpectedKept
<1>6. CASE \E o \in Orders : AskProcurement(k, o)
  <2>1. PICK o \in Orders : AskProcurement(k, o)
    BY <1>6
  <2> DEFINE row == [NoDock EXCEPT !.step = "expect", !.order = <<o>>]
  <2>2. row.step = "expect"
    BY DEF NoDock
  <2>3. dock' = [dock EXCEPT ![k] = row] /\ FinalSame /\ TotalsSame
    BY <2>1 DEF AskProcurement, FinalSame, TotalsSame, Final
  <2> HIDE DEF row
  <2> QED
    BY <1>4, <2>2, <2>3
<1>7. CASE FindExpected(k)
  <2> DEFINE o == dock[k].order[1]
             row == IF expected[o].status = "NONE"
                    THEN [NoDock EXCEPT !.step = "seed", !.order = <<o>>]
                    ELSE [NoDock EXCEPT !.step = "insert", !.order = <<o>>, !.base = expected[o].received]
  <2>1. row.step \in {"seed", "insert"}
    BY DEF NoDock
  <2>2. dock' = [dock EXCEPT ![k] = row] /\ FinalSame /\ TotalsSame
    BY <1>7 DEF FindExpected, FinalSame, TotalsSame, Final
  <2> HIDE DEF row
  <2> QED
    BY <1>4, <2>1, <2>2
<1>8. CASE SeedExpected(k)
  <2>1. PICK o \in Orders : dock[k].order = <<o>>
    BY <1>8 DEF IInv, DockInv, SeedExpected
  <2> DEFINE row == IF expected[o].status = "NONE"
                    THEN [NoDock EXCEPT !.step = "insert", !.order = <<o>>] ELSE NoDock
  <2>2. row.step \in {"idle", "insert"}
    BY DEF NoDock
  <2>3. /\ dock' = [dock EXCEPT ![k] = row] /\ note' = note
        /\ \/ expected' = expected
           \/ expected[o].status = "NONE" /\ expected' = [expected EXCEPT ![o] = Fresh]
    BY <1>8, <2>1 DEF SeedExpected
  <2> HIDE DEF row
  <2>4. TotalsSame
    <3>1. CASE expected' = expected
      BY <3>1 DEF TotalsSame
    <3>2. CASE expected[o].status = "NONE" /\ expected' = [expected EXCEPT ![o] = Fresh]
      <4>1. expected[o].received = Nothing
        BY <3>2 DEF ExpectedInv
      <4>2. \A p \in Orders : expected'[p] = IF p = o THEN Fresh ELSE expected[p]
        BY <3>2, TypesNow
      <4> QED
        BY <4>1, <4>2 DEF TotalsSame, Fresh
    <3> QED
      BY <2>3, <3>1, <3>2
  <2>5. FinalSame
    BY <2>3 DEF FinalSame, Final
  <2> QED
    BY <1>4, <2>2, <2>3, <2>4, <2>5
<1>9. CASE \E n \in Notes : InsertNote(k, n)
  <2>1. PICK n \in Notes : InsertNote(k, n)
    BY <1>9
  <2>2. /\ dock' = [dock EXCEPT ![k] = NoDock] /\ expected' = expected /\ note[n].status = "NONE"
        /\ \/ note' = note
           \/ note' = [note EXCEPT ![n] = [status |-> "DRAFT", order |-> dock[k].order, lines |-> NoLines]]
    BY <2>1 DEF InsertNote
  <2>3. FinalSame
    BY <1>3, <2>2 DEF FinalSame, Final
  <2>4. TotalsSame /\ NoDock.step = "idle"
    BY <2>2 DEF TotalsSame, NoDock
  <2> QED
    BY <1>4, <2>2, <2>3, <2>4
<1>10. CASE \E n \in Notes, scan \in Scannable : ScanRead(k, n, scan)
  <2>1. PICK n \in Notes, scan \in Scannable : ScanRead(k, n, scan)
    BY <1>10
  <2> DEFINE row == [NoDock EXCEPT !.step = "upsert", !.note = <<n>>, !.scan = scan]
  <2>2. row.step = "upsert" /\ row.note = <<n>>
    BY DEF NoDock
  <2>3. dock' = [dock EXCEPT ![k] = row] /\ UNCHANGED <<note, expected>> /\ note[n].status = "DRAFT"
    BY <2>1 DEF ScanRead
  <2> HIDE DEF row
  <2>4. DockReads(row)
    BY <2>2, <2>3 DEF DockReads
  <2> QED
    BY <1>5, <2>3, <2>4
<1>11. CASE ScanUpsert(k)
  <2>1. PICK n \in Notes : dock[k].note = <<n>>
    BY <1>11 DEF IInv, DockInv, ScanUpsert
  <2>2. note[n].status = "DRAFT"
    <3>1. DockReads(dock[k])
      BY DEF ExpectedInv
    <3>2. dock[k].step = "upsert"
      BY <1>11 DEF ScanUpsert
    <3>3. dock[k].note[1] = n
      BY <2>1
    <3> QED
      BY <3>1, <3>2, <3>3 DEF DockReads
  <2> DEFINE s == dock[k].scan[1]
             c == dock[k].scan[2]
             row == [note[n] EXCEPT !.lines[c][s] = @ + 1]
  <2>3. /\ dock' = [dock EXCEPT ![k] = NoDock] /\ expected' = expected
        /\ note' = [note EXCEPT ![n] = row]
    <3>1. PICK m \in Notes : m = dock[k].note[1] /\ m = n
      BY <2>1
    <3>2. note' = [note EXCEPT ![dock[k].note[1]].lines[c][s] = @ + 1]
      BY <1>11 DEF ScanUpsert
    <3>3. note' = [note EXCEPT ![m].lines[c][s] = @ + 1]
      BY <3>1, <3>2
    <3> QED
      BY <1>11, <3>1, <3>3 DEF ScanUpsert
  <2>4. row.status = "DRAFT"
    BY <1>3, <2>2
  <2> HIDE DEF row
  <2>5. \A m \in Notes : note'[m] = IF m = n THEN row ELSE note[m]
    BY <1>3, <2>3
  <2>6. FinalSame
    BY <2>2, <2>4, <2>5 DEF FinalSame, Final
  <2>7. TotalsSame /\ NoDock.step = "idle"
    BY <2>3 DEF TotalsSame, NoDock
  <2> QED
    BY <1>4, <2>3, <2>6, <2>7
<1>12. CASE \E n \in Notes : FinalizeRead(k, n)
  <2>1. PICK n \in Notes : FinalizeRead(k, n)
    BY <1>12
  <2> DEFINE row == [NoDock EXCEPT !.step = "total", !.note = <<n>>,
                                   !.order = note[n].order, !.lines = note[n].lines]
  <2>2. /\ row.step = "total" /\ row.note = <<n>>
        /\ row.order = note[n].order /\ row.lines = note[n].lines
    BY DEF NoDock
  <2>3. dock' = [dock EXCEPT ![k] = row] /\ UNCHANGED <<note, expected>> /\ note[n].status = "DRAFT"
    BY <2>1 DEF FinalizeRead
  <2> HIDE DEF row
  <2>4. DockReads(row)
    BY <2>2, <2>3 DEF DockReads
  <2> QED
    BY <1>5, <2>3, <2>4
<1>13. CASE FinalizeTotal(k)
  <2> DEFINE row == [dock[k] EXCEPT !.step = "commit", !.base = expected[dock[k].order[1]].received]
  <2>1. dock[k].step = "total" /\ dock' = [dock EXCEPT ![k] = row] /\ UNCHANGED <<note, expected>>
    BY <1>13 DEF FinalizeTotal
  <2>2. /\ row.step = "commit" /\ row.note = dock[k].note /\ row.order = dock[k].order
        /\ row.lines = dock[k].lines /\ row.base = expected[dock[k].order[1]].received
    <3>1. ASSUME NEW d \in DockRows, NEW base
          PROVE  LET e == [d EXCEPT !.step = "commit", !.base = base]
                 IN  /\ e.step = "commit" /\ e.note = d.note /\ e.order = d.order
                     /\ e.lines = d.lines /\ e.base = base
      BY DEF DockRows
    <3> QED
      BY <1>2, <3>1
  <2> HIDE DEF row
  <2>3. DockReads(row)
    BY <2>1, <2>2 DEF ExpectedInv, DockReads
  <2> QED
    BY <1>5, <2>1, <2>3
<1> QED
  BY <1>6, <1>7, <1>8, <1>9, <1>10, <1>11, <1>12, <1>13 DEF Unload

(* The commit adds the note's lines to the totals its worker read.          *)
LEMMA CommitExpected ==
    ASSUME IInv, ExpectedInv, OneDock, NEW k \in Docks, FinalizeCommit(k)
    PROVE  ExpectedInv'
<1>1. \A j \in Docks : j = k
  BY DEF OneDock
<1>2. dock[k] \in DockRows /\ dock \in [Docks -> DockRows]
  BY DEF IInv, TypeOK, ReceivingTypeOK, DockRows
<1>3. note \in [Notes -> [status : {"NONE", "DRAFT", "FINALIZED"}, order : MaybeOrder, lines : Lines]]
  BY DEF IInv, TypeOK, ReceivingTypeOK
<1>4. PICK o \in Orders : dock[k].order = <<o>>
  BY DEF IInv, DockInv, FinalizeCommit
<1>5. PICK n \in Notes : dock[k].note = <<n>>
  BY DEF IInv, DockInv, FinalizeCommit
<1>6. /\ note[n].status = "DRAFT" /\ note[n].order = <<o>> /\ dock[k].lines = note[n].lines
      /\ dock[k].base = expected[o].received
  BY <1>4, <1>5 DEF ExpectedInv, DockReads, FinalizeCommit
<1> DEFINE row == [dock[k] EXCEPT !.step = "publish"]
           entry == [note[n] EXCEPT !.status = "FINALIZED"]
           said == [status |-> IF Full(o, TotalAfter(k)) THEN "RECEIVED" ELSE "PARTIALLY_RECEIVED",
                    received |-> TotalAfter(k)]
<1>7. /\ note' = [note EXCEPT ![n] = entry]
      /\ expected' = [expected EXCEPT ![o] = said]
      /\ dock' = [dock EXCEPT ![k] = row]
  BY <1>4, <1>5 DEF FinalizeCommit
<1>8. row.step = "publish"
  BY <1>2 DEF DockRows
<1>9. entry.status = "FINALIZED" /\ entry.lines = note[n].lines /\ entry.order = <<o>>
  BY <1>3, <1>6
<1>10. said.status # "NONE" /\ said.received = TotalAfter(k)
  OBVIOUS
<1>11. \A s \in LinesOf(o) : s \in Skus /\ TotalAfter(k)[s] = expected[o].received[s] + ArrivedOn(n)[s]
  BY <1>4, <1>6 DEF TotalAfter, LinesOf, ArrivedOn
<1> HIDE DEF row, entry, said
<1>12. /\ \A m \in Notes : note'[m] = IF m = n THEN entry ELSE note[m]
       /\ \A p \in Orders : expected'[p] = IF p = o THEN said ELSE expected[p]
       /\ \A j \in Docks : dock'[j] = row
  BY <1>1, <1>2, <1>3, <1>7, TypesNow
<1>13. Announced'
  BY <1>10, <1>12 DEF ExpectedInv, Announced
<1>14. \A j \in Docks : DockReads(dock[j])'
  BY <1>8, <1>12 DEF DockReads
<1>15. \A m \in Notes : ArrivedOn(m)' = ArrivedOn(m)
  BY <1>9, <1>12 DEF ArrivedOn
<1>16. ASSUME NEW p \in Orders, NEW s \in LinesOf(p)
       PROVE  expected'[p].received[s] = Total(NotesOf(p, "FINALIZED"), s)'
  <2> DEFINE f == [m \in Notes |-> ArrivedOn(m)[s]]
             S == NotesOf(p, "FINALIZED")
  <2>1. s \in Skus
    BY DEF LinesOf
  <2>2. S \in SUBSET Notes
    BY DEF NotesOf
  <2>3. IsFiniteSet(S) /\ \A m \in Notes : ArrivedOn(m)[s] \in Nat
    BY <2>1, <2>2, NotesSum
  <2>4. Total(S, s) = SumFunctionOnSet(f, S)
    BY DEF Total
  <2>5. Total(S, s)' = SumFunctionOnSet(f, S')
    BY <1>15 DEF Total
  <2>6. expected[p].received[s] = Total(S, s)
    BY DEF ExpectedInv, ExpectedTotals
  <2>7. CASE p = o
    <3>1. S' = S \cup {n} /\ n \notin S
      BY <1>6, <1>9, <1>12, <2>7 DEF NotesOf
    <3>2. \A m \in S \cup {n} : f[m] \in Int
      BY <2>2, <2>3
    <3>3. f[n] = ArrivedOn(n)[s]
      OBVIOUS
    <3> HIDE DEF f
    <3>4. SumFunctionOnSet(f, S \cup {n}) = f[n] + SumFunctionOnSet(f, S)
      <4> HIDE DEF S
      <4> QED
        BY <2>3, <3>1, <3>2, SumInsert DEF Ints
    <3>5. expected'[p].received[s] = expected[o].received[s] + ArrivedOn(n)[s]
      BY <1>10, <1>11, <1>12, <2>7
    <3>6. SumFunctionOnSet(f, S) \in Int /\ f[n] \in Int
      <4> HIDE DEF S
      <4>1. \A m \in S : f[m] \in Int
        BY <3>2
      <4> QED
        BY <2>3, <3>2, <4>1, SumInt DEF Ints
    <3>7. Total(S, s)' = f[n] + Total(S, s)
      BY <2>4, <2>5, <3>1, <3>4
    <3>8. PICK total \in Int : total = Total(S, s)
      BY <2>4, <3>6
    <3>9. Total(S, s)' = f[n] + total /\ expected'[p].received[s] = total + f[n]
      BY <2>6, <2>7, <3>3, <3>5, <3>7, <3>8
    <3> QED
      BY <3>6, <3>8, <3>9
  <2>8. CASE p # o
    <3>1. S' = S
      BY <1>6, <1>9, <1>12, <2>8 DEF NotesOf
    <3>2. expected'[p] = expected[p]
      BY <1>12, <2>8
    <3> QED
      BY <2>4, <2>5, <2>6, <3>1, <3>2
  <2> QED
    BY <2>7, <2>8
<1> QED
  BY <1>13, <1>14, <1>16 DEF ExpectedInv, Announced, ExpectedTotals

LEMMA StepExpected == OneDock /\ IInv /\ ExpectedInv /\ [Next]_vars => ExpectedInv'
<1> SUFFICES ASSUME OneDock, IInv, ExpectedInv, [Next]_vars PROVE ExpectedInv'
  OBVIOUS
<1>1. CASE UNCHANGED vars
  BY <1>1, ExpectedStays DEF vars, receivingVars
<1>2. ASSUME NEW b \in Buyers, Office(b) \/ PublishApproval(b) PROVE ExpectedInv'
  BY <1>2, ExpectedStays DEF Office, PublishApproval, receivingVars
<1>3. ASSUME NEW k \in Docks, Unload(k) PROVE ExpectedInv'
  BY <1>3, DockExpected, CommitExpected
<1>4. ASSUME NEW k \in Docks, Announce(k) PROVE ExpectedInv'
  <2>1. UNCHANGED <<note, expected>> /\ dock' = [dock EXCEPT ![k] = NoDock]
    BY <1>4 DEF Announce, FinalizePublish
  <2>2. \A j \in Docks : dock'[j] = dock[j] \/ dock'[j] = NoDock
    BY <2>1 DEF IInv, TypeOK, ReceivingTypeOK
  <2> QED
    BY <2>1, <2>2, ExpectedStays
<1>5. ASSUME NEW w \in Slots, Deliver(w) \/ Handle(w) \/ Throws(w) PROVE ExpectedInv'
  <2>1. CASE AwaitFind(w) \/ AwaitCreate(w)
    BY <2>1, AwaitExpected
  <2>2. CASE UNCHANGED <<note, expected, dock>>
    BY <2>2, ExpectedStays
  <2> QED
    BY <1>5, <2>1, <2>2 DEF Deliver, Handle, Throws, Conflict, Ack, receivingVars
<1>6. ASSUME NEW s \in Services, ChannelLost(s) \/ Crash(s) PROVE ExpectedInv'
  <2>1. /\ UNCHANGED <<note, expected>>
        /\ dock' = dock \/ dock' = [k \in Docks |-> NoDock]
    BY <1>6 DEF ChannelLost, Crash, receivingVars
  <2> QED
    BY <2>1, ExpectedStays
<1> QED
  BY <1>1, <1>2, <1>3, <1>4, <1>5, <1>6 DEF Next

(* With one dock worker at a time, what Receiving has counted for an order  *)
(* is what its final notes say, whatever arrives of events, handlers fail   *)
(* or services restart, and whether the event or the truck came first.      *)
THEOREM ReceivingCountsItsNotes == Spec => [](OneDock => ExpectedTotals)
<1> DEFINE Inv == IInv /\ (OneDock => ExpectedInv)
<1>1. Init => Inv
  BY InitIInv, InitExpected
<1>2. Inv /\ [Next]_vars => Inv'
  <2> SUFFICES ASSUME Inv, [Next]_vars PROVE Inv'
    OBVIOUS
  <2>1. IInv'
    BY StepIInv
  <2>2. OneDock' => OneDock
    BY DEF OneDock
  <2> QED
    BY <2>1, <2>2, StepExpected
<1>3. Inv => (OneDock => ExpectedTotals)
  BY DEF ExpectedInv
<1> QED
  BY <1>1, <1>2, <1>3, PTL DEF Spec
=============================================================================
