-------------------------- MODULE GoodsReceivedNotes --------------------------
(* Receiving (services/receiving): expected deliveries, and goods received  *)
(* notes from the arrival of a truck to GoodsReceived.  Requests of several *)
(* dock workers interleave between any two of their statements; a note is   *)
(* checked to be a DRAFT when it is read and never again.                   *)
(*                                                                          *)
(* A line of a note is a SKU and a condition.  What a line was expected to  *)
(* hold, its discrepancy and its text are annotations nothing depends on.   *)
EXTENDS PurchaseOrders

CONSTANTS
    Scannable,     \* bound: the <<SKU, condition>> pairs that are scanned
    MaxScans       \* bound: scans over all notes, of one unit each

ASSUME ScanAssumption ==
    /\ Scannable \subseteq Skus \X {"good", "damaged"}
    /\ MaxScans \in Nat

VARIABLES
    expected,      \* ExpectedDelivery: [status, received]
    note,          \* GoodsReceivedNote: [status, order, good, damaged]
    dock,          \* dock[k]: the request of dock worker k
    awaiting,      \* awaiting[w]: the PurchaseOrderApproved handler in slot w
    event,         \* event[r]: the lines GoodsReceived r carries
    scans,         \* scans so far, for the bound
    twice          \* history: notes a second request wrote FINALIZED

receivingVars == <<expected, note, dock, awaiting, event, scans, twice>>

NoLines == [good |-> Nothing, damaged |-> Nothing]
NoDock == [step |-> "idle", order |-> <<>>, note |-> <<>>, scan |-> <<>>,
           lines |-> NoLines, base |-> Nothing]
NoNote == [status |-> "NONE", order |-> <<>>, lines |-> NoLines]
NoAwaiting == [step |-> "idle", order |-> <<>>]

Lines == [good : Quantities, damaged : Quantities]
MaybeOrder == {<<>>} \cup {<<o>> : o \in Orders}

ReceivingTypeOK ==
    /\ expected \in [Orders -> [status : {"NONE", "EXPECTED", "PARTIALLY_RECEIVED", "RECEIVED"},
                                received : Quantities]]
    /\ note \in [Notes -> [status : {"NONE", "DRAFT", "FINALIZED"}, order : MaybeOrder, lines : Lines]]
    /\ dock \in [Docks -> [step : {"idle", "expect", "seed", "insert", "upsert",
                                   "total", "commit", "publish"},
                           order : MaybeOrder, note : {<<>>} \cup {<<n>> : n \in Notes},
                           scan : {<<>>} \cup Scannable,
                           lines : Lines, base : Quantities]]
    /\ awaiting \in [Slots -> [step : {"idle", "find", "create", "done", "failed"}, order : MaybeOrder]]
    /\ event \in [Receipts -> Lines]
    /\ scans \in Nat
    /\ twice \subseteq Notes

ReceivingInit ==
    /\ expected = [o \in Orders |-> [status |-> "NONE", received |-> Nothing]]
    /\ note = [n \in Notes |-> NoNote]
    /\ dock = [k \in Docks |-> NoDock]
    /\ awaiting = [w \in Slots |-> NoAwaiting]
    /\ event = [r \in Receipts |-> NoLines]
    /\ scans = 0
    /\ twice = {}

Arrived(lines) == [s \in Skus |-> lines.good[s] + lines.damaged[s]]

-----------------------------------------------------------------------------
(* record: find the expected delivery, or create it; poNumber is unique.    *)

Fresh == [status |-> "EXPECTED", received |-> Nothing]

AwaitFind(w) ==
    /\ awaiting[w].step = "find"
    /\ awaiting' = [awaiting EXCEPT ![w].step =
                      IF expected[awaiting[w].order[1]].status = "NONE" THEN "create" ELSE "done"]
    /\ UNCHANGED <<expected, note, dock, event, scans, twice>>

(* Mutant: an expected delivery found late is written over.                 *)
AwaitReplace(w) ==
    LET o == awaiting[w].order[1] IN
    /\ awaiting[w].step = "create"
    /\ expected' = [expected EXCEPT ![o] = Fresh]
    /\ awaiting' = [awaiting EXCEPT ![w].step = "done"]
    /\ UNCHANGED <<note, dock, event, scans, twice>>

AwaitCreate(w) ==
    LET o == awaiting[w].order[1] IN
    /\ awaiting[w].step = "create"
    /\ IF expected[o].status = "NONE"
       THEN /\ expected' = [expected EXCEPT ![o] = Fresh]
            /\ awaiting' = [awaiting EXCEPT ![w].step = "done"]
       ELSE /\ awaiting' = [awaiting EXCEPT ![w].step = "failed"]
            /\ UNCHANGED expected
    /\ UNCHANGED <<note, dock, event, scans, twice>>

-----------------------------------------------------------------------------
(* create: ask Procurement, find or seed the expected delivery, insert.     *)

AskProcurement(k, o) ==
    /\ dock[k] = NoDock
    /\ FoundOpenPo(o)
    /\ dock' = [dock EXCEPT ![k] = [NoDock EXCEPT !.step = "expect", !.order = <<o>>]]
    /\ UNCHANGED <<expected, note, awaiting, event, scans, twice>>

FindExpected(k) ==
    LET o == dock[k].order[1] IN
    /\ dock[k].step = "expect"
    /\ dock' = [dock EXCEPT ![k] =
                  IF expected[o].status = "NONE"
                  THEN [NoDock EXCEPT !.step = "seed", !.order = <<o>>]
                  ELSE [NoDock EXCEPT !.step = "insert", !.order = <<o>>, !.base = expected[o].received]]
    /\ UNCHANGED <<expected, note, awaiting, event, scans, twice>>

(* A delivery someone else created meanwhile fails the request.             *)
SeedExpected(k) ==
    LET o == dock[k].order[1] IN
    /\ dock[k].step = "seed"
    /\ IF expected[o].status = "NONE"
       THEN /\ expected' = [expected EXCEPT ![o] = Fresh]
            /\ dock' = [dock EXCEPT ![k] = [NoDock EXCEPT !.step = "insert", !.order = <<o>>]]
       ELSE /\ dock' = [dock EXCEPT ![k] = NoDock]
            /\ UNCHANGED expected
    /\ UNCHANGED <<note, awaiting, event, scans, twice>>

(* Refused when nothing was outstanding in the totals read before.          *)
InsertNote(k, n) ==
    /\ dock[k].step = "insert"
    /\ note[n].status = "NONE"
    /\ note' = IF Full(dock[k].order[1], dock[k].base) THEN note
               ELSE [note EXCEPT ![n] = [status |-> "DRAFT", order |-> dock[k].order, lines |-> NoLines]]
    /\ dock' = [dock EXCEPT ![k] = NoDock]
    /\ UNCHANGED <<expected, awaiting, event, scans, twice>>

-----------------------------------------------------------------------------
(* recordScan: read the note, then increment the line of the scan.          *)

ScanRead(k, n, scan) ==
    /\ dock[k] = NoDock
    /\ note[n].status = "DRAFT"
    /\ scans < MaxScans
    /\ scans' = scans + 1
    /\ dock' = [dock EXCEPT ![k] = [NoDock EXCEPT !.step = "upsert", !.note = <<n>>, !.scan = scan]]
    /\ UNCHANGED <<expected, note, awaiting, event, twice>>

ScanUpsert(k) ==
    LET n == dock[k].note[1]
        s == dock[k].scan[1]
        c == dock[k].scan[2] IN
    /\ dock[k].step = "upsert"
    /\ note' = [note EXCEPT ![n].lines[c][s] = @ + 1]
    /\ dock' = [dock EXCEPT ![k] = NoDock]
    /\ UNCHANGED <<expected, awaiting, event, scans, twice>>

-----------------------------------------------------------------------------
(* finalize: read the note, read the totals, write both, publish.           *)

FinalizeRead(k, n) ==
    /\ dock[k] = NoDock
    /\ note[n].status = "DRAFT"
    /\ note[n].lines # NoLines
    /\ dock' = [dock EXCEPT ![k] = [NoDock EXCEPT !.step = "total", !.note = <<n>>,
                                                  !.order = note[n].order, !.lines = note[n].lines]]
    /\ UNCHANGED <<expected, note, awaiting, event, scans, twice>>

FinalizeTotal(k) ==
    /\ dock[k].step = "total"
    /\ dock' = [dock EXCEPT ![k] =
                  [@ EXCEPT !.step = "commit", !.base = expected[dock[k].order[1]].received]]
    /\ UNCHANGED <<expected, note, awaiting, event, scans, twice>>

TotalAfter(k) ==
    LET o == dock[k].order[1] IN
    [s \in Skus |-> dock[k].base[s] + (IF s \in LinesOf(o) THEN Arrived(dock[k].lines)[s] ELSE 0)]

FinalizeCommit(k) ==
    LET o == dock[k].order[1]
        n == dock[k].note[1] IN
    /\ dock[k].step = "commit"
    /\ note' = [note EXCEPT ![n].status = "FINALIZED"]
    /\ twice' = IF note[n].status = "FINALIZED" THEN twice \cup {n} ELSE twice
    /\ expected' = [expected EXCEPT ![o] =
                      [status |-> IF Full(o, TotalAfter(k)) THEN "RECEIVED" ELSE "PARTIALLY_RECEIVED",
                       received |-> TotalAfter(k)]]
    /\ dock' = [dock EXCEPT ![k].step = "publish"]
    /\ UNCHANGED <<awaiting, event, scans>>

FinalizePublish(k) ==
    /\ dock[k].step = "publish"
    /\ event' = [event EXCEPT ![<<dock[k].note[1], k>>] = dock[k].lines]
    /\ dock' = [dock EXCEPT ![k] = NoDock]
    /\ UNCHANGED <<expected, note, awaiting, scans, twice>>
=============================================================================
