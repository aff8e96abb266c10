------------------------------ MODULE Warehouse ------------------------------
(* Warehouse Operations (services/warehouse-operations/src) at one location: *)
(* bins with limited room, putaway tasks made from goods received, transfers *)
(* with one pick per bin, and the copy of each bin's contents that Inventory *)
(* keeps (PUT /products/:sku/bin-locations/:bin, an absolute quantity).      *)
(* Volume and weight are one dimension, room.                                *)
EXTENDS Integers, FiniteSets, FiniteSetsExt, Sequences

CONSTANTS
    Bins, Capacity,     \* Capacity[b]: room of bin b
    Priority,           \* Priority[b]: pickPriority, with the bin code, as one order
    Goods, Size,        \* SKUs put away here; Size[s]: room one unit takes
    Fast,               \* SKUs that sell HIGH_VELOCITY_UNITS_PER_DAY or more
    Tasks, Task,        \* Task[t]: [sku, qty] of one GOOD line of a goods received note
    Transfers, Asked,   \* Asked[x]: [sku, qty] of a transfer
    Stored,             \* Stored[b][s]: units in the bins at the start
    Hands,              \* requests and event handlers that can run at a time
    Consumer,           \* the hand that runs the GoodsReceived handler
    MaxFailures         \* bound on failed calls, restarts and repeated events

Nowhere == "nowhere"

(* The room some units, a quantity by SKU, take.                            *)
Room(units) == SumFunctionOnSet([s \in Goods |-> units[s] * Size[s]], Goods)

ASSUME WarehouseAssumption ==
    /\ IsFiniteSet(Bins) /\ IsFiniteSet(Goods) /\ IsFiniteSet(Tasks) /\ IsFiniteSet(Transfers)
    /\ Nowhere \notin Bins \cup Tasks /\ Bins \cap Tasks = {}
    /\ Capacity \in [Bins -> Nat] /\ Size \in [Goods -> Nat]
    /\ Priority \in [Bins -> Int] /\ \A b, c \in Bins : Priority[b] = Priority[c] => b = c
    /\ Fast \subseteq Goods
    /\ Task \in [Tasks -> [sku : Goods, qty : Nat \ {0}]]
    /\ Asked \in [Transfers -> [sku : Goods, qty : Nat \ {0}]]
    /\ Stored \in [Bins -> [Goods -> Nat]] /\ \A b \in Bins : Room(Stored[b]) <= Capacity[b]
    /\ Consumer \in Hands /\ MaxFailures \in Nat

Picks == Transfers \X Bins

VARIABLES
    used,          \* used[b]: room taken or reserved (usedVolumeCm3)
    inBin,         \* inBin[b][s]: BinStock.quantity
    copy,          \* copy[b][s]: Inventory's BinLocation.quantity
    task,          \* task[t]: [status, bin, reserved] of a PutawayTask
    pick,          \* pick[<<x, b>>]: [status, qty] of a PickTask
    transfer,      \* transfer[x]: Transfer.status
    sent,          \* sent[x]: how often StockTransferred was published
    hand,          \* hand[h]: what a running request or handler remembers
    crossed,       \* history: bins and tasks two hands worked on at a time
    failures       \* history: failures so far

bins == <<used, inBin, copy>>
rows == <<task, pick, transfer, sent>>
houseVars == <<bins, rows, hand, crossed, failures>>

Free == [op |-> "free"]
HandSteps == {"free", "find", "choose", "assign", "stock", "confirm", "confirmed",
          "look", "insert", "take", "tell", "finish", "publish", "complete"}
NoTask == [status |-> "none", bin |-> Nowhere, reserved |-> 0]

HouseTypeOK ==
    /\ used \in [Bins -> Int]
    /\ inBin \in [Bins -> [Goods -> Int]] /\ copy \in [Bins -> [Goods -> Int]]
    /\ task \in [Tasks -> [status : {"none", "PENDING", "COMPLETED"},
                           bin : Bins \cup {Nowhere}, reserved : Nat]]
    /\ pick \in [Picks -> [status : {"none", "PENDING", "PICKED"}, qty : Nat]]
    /\ transfer \in [Transfers -> {"none", "PICKING", "COMPLETED"}]
    /\ sent \in [Transfers -> Nat]
    /\ \A h \in Hands : hand[h].op \in HandSteps
    /\ crossed \subseteq Bins \cup Tasks
    /\ failures \in 0..MaxFailures

HouseInit ==
    /\ inBin = Stored /\ copy = Stored
    /\ used = [b \in Bins |-> Room(Stored[b])]
    /\ task = [t \in Tasks |-> NoTask]
    /\ pick = [p \in Picks |-> [status |-> "none", qty |-> 0]]
    /\ transfer = [x \in Transfers |-> "none"]
    /\ sent = [x \in Transfers |-> 0]
    /\ hand = [h \in Hands |-> Free]
    /\ crossed = {} /\ failures = 0

-----------------------------------------------------------------------------
(* What a hand is working on, from its first read to its last write.        *)
Touches(r) ==
    CASE r.op = "free" -> {}
      [] r.op \in {"find", "choose"} -> {r.task, r.bin} \ {Nowhere}
      [] r.op = "assign" -> {r.task, r.bin, r.to} \ {Nowhere}
      [] r.op \in {"stock", "confirm", "confirmed"} -> {r.task, r.bin}
      [] r.op = "look" -> Bins
      [] r.op = "insert" -> {b \in Bins : r.take[b] > 0}
      [] r.op \in {"take", "tell"} -> {r.bin}
      [] OTHER -> {}

(* A hand goes on as r; whatever two hands touch at once is crossed, and so *)
(* is whatever a hand touches together with something already crossed.      *)
Proceed(h, r) ==
    /\ hand' = [hand EXCEPT ![h] = r]
    /\ LET Meets(g) == \/ Touches(hand'[g]) \cap crossed # {}
                       \/ \E k \in Hands \ {g} : Touches(hand'[g]) \cap Touches(hand'[k]) # {}
       IN  crossed' = crossed \cup UNION {Touches(hand'[g]) : g \in {g \in Hands : Meets(g)}}
Leave(h) == Proceed(h, Free)
IsAt(h, op) == hand[h].op = op
NothingElse == UNCHANGED <<bins, rows, failures>>
Fails == failures < MaxFailures /\ failures' = failures + 1

-----------------------------------------------------------------------------
(* createFromGoodsReceived: unless the task exists it is made, unassigned,  *)
(* and then directed to a bin; if that fails it stays unassigned.           *)
Receive(t) ==
    /\ hand[Consumer] = Free /\ task[t].status = "none"
    /\ Proceed(Consumer, [op |-> "find", task |-> t, bin |-> Nowhere])
    /\ NothingElse

CreateTask ==
    /\ IsAt(Consumer, "find")
    /\ LET t == hand[Consumer].task IN
       /\ task' = [task EXCEPT ![t].status = "PENDING"]
       /\ Proceed(Consumer, [op |-> "choose", task |-> t, bin |-> Nowhere, held |-> 0,
                             asked |-> Nowhere])
    /\ UNCHANGED <<bins, pick, transfer, sent, failures>>

(* assign, by a worker, to the bin asked for.                               *)
AskAssign(h, t, b) ==
    /\ hand[h] = Free /\ h # Consumer
    /\ task[t].status = "PENDING"
    /\ Proceed(h, [op |-> "choose", task |-> t, bin |-> task[t].bin,
                  held |-> task[t].reserved, asked |-> b])
    /\ NothingElse

(* footprintFor and selectBin: a bin with room for the whole quantity; the  *)
(* one nearest dispatch for a fast mover, the furthest for a slow one.  The *)
(* bin being replaced counts as if its reservation were free again.         *)
Footprint(t) == Size[Task[t].sku] * Task[t].qty
RoomIn(b, r) == Capacity[b] - used[b] + (IF b = r.bin THEN r.held ELSE 0)

(* Mutant: the room the task holds in its old bin is freed in every bin.    *)
WithRoomTwice(r) == {b \in Bins : /\ r.asked \in {Nowhere, b}
                                  /\ Capacity[b] - used[b] + Footprint(r.task) >= Footprint(r.task)}

WithRoom(r) == {b \in Bins : /\ r.asked \in {Nowhere, b}
                             /\ RoomIn(b, r) >= Footprint(r.task)}
Better(b, c, s) == IF s \in Fast THEN Priority[b] <= Priority[c] ELSE Priority[b] >= Priority[c]
SelectBin(r) == CHOOSE b \in WithRoom(r) : \A c \in WithRoom(r) : Better(b, c, Task[r.task].sku)

ChooseBin(h) ==
    /\ IsAt(h, "choose")
    /\ LET r == hand[h] IN
       IF WithRoom(r) = {} THEN Leave(h)
       ELSE Proceed(h, [op |-> "assign", task |-> r.task, bin |-> r.bin, held |-> r.held,
                        to |-> SelectBin(r)])
    /\ NothingElse

(* Mutant: the reservation of the task is changed by the wrong difference. *)
AssignShrunk(h) ==
    /\ IsAt(h, "assign")
    /\ LET r == hand[h] IN
       task' = [task EXCEPT ![r.task].bin = r.to, ![r.task].reserved = r.held - Footprint(r.task)]
    /\ Leave(h)
    /\ UNCHANGED <<bins, pick, transfer, sent, failures>>

(* The reservation moves from the old bin to the chosen one.                *)
AssignBin(h) ==
    /\ IsAt(h, "assign")
    /\ LET r == hand[h] IN
       /\ used' = IF r.bin = r.to THEN used ELSE [b \in Bins |->
             CASE b = r.to -> used[b] + Footprint(r.task)
               [] b = r.bin -> used[b] - r.held
               [] OTHER -> used[b]]
       /\ task' = [task EXCEPT ![r.task].bin = r.to, ![r.task].reserved = Footprint(r.task)]
    /\ Leave(h)
    /\ UNCHANGED <<inBin, copy, pick, transfer, sent, failures>>

-----------------------------------------------------------------------------
(* complete: the bin's new total goes to Inventory before it is written here. *)
AskComplete(h, t) ==
    /\ hand[h] = Free /\ h # Consumer
    /\ task[t].status = "PENDING" /\ task[t].bin # Nowhere
    /\ Proceed(h, [op |-> "stock", task |-> t, bin |-> task[t].bin])
    /\ NothingElse

ReadBinStock(h) ==
    /\ IsAt(h, "stock")
    /\ LET r == hand[h] IN
       Proceed(h, [op |-> "confirm", task |-> r.task, bin |-> r.bin,
                total |-> inBin[r.bin][Task[r.task].sku] + Task[r.task].qty])
    /\ NothingElse

(* Mutant: the task's quantity is sent, not the bin's total.                *)
ConfirmTask(h) ==
    /\ IsAt(h, "confirm")
    /\ LET r == hand[h] IN
       /\ copy' = [copy EXCEPT ![r.bin][Task[r.task].sku] = Task[r.task].qty]
       /\ Proceed(h, [op |-> "confirmed", task |-> r.task, bin |-> r.bin])
    /\ UNCHANGED <<used, inBin, rows, failures>>

Confirm(h) ==
    /\ IsAt(h, "confirm")
    /\ LET r == hand[h] IN
       /\ copy' = [copy EXCEPT ![r.bin][Task[r.task].sku] = r.total]
       /\ Proceed(h, [op |-> "confirmed", task |-> r.task, bin |-> r.bin])
    /\ UNCHANGED <<used, inBin, rows, failures>>

Shelve(h) ==
    /\ IsAt(h, "confirmed")
    /\ LET r == hand[h] IN
       /\ task' = [task EXCEPT ![r.task].status = "COMPLETED"]
       /\ inBin' = [inBin EXCEPT ![r.bin][Task[r.task].sku] = @ + Task[r.task].qty]
    /\ Leave(h)
    /\ UNCHANGED <<used, copy, pick, transfer, sent, failures>>

-----------------------------------------------------------------------------
(* create a transfer: the bins' stock and the open picks are read side by   *)
(* side, in either order; what a bin holds beyond its open picks is taken,  *)
(* nearest dispatch first.  (Bins of one priority are emptied smaller       *)
(* first; here no two have the same.)                                       *)
IsOpen(x, b) == pick[<<x, b>>].status = "PENDING"
Promised(b, s) == SumFunctionOnSet([x \in Transfers |->
    IF Asked[x].sku = s /\ IsOpen(x, b) THEN pick[<<x, b>>].qty ELSE 0], Transfers)
InBins(s) == [b \in Bins |-> inBin[b][s]]
OpenPicks(s) == [b \in Bins |-> Promised(b, s)]

(* Mutant: units promised to open picks are offered again.                  *)
SpareAll(held, open) == held

Spare(held, open) == [b \in Bins |-> Max({0, held[b] - open[b]})]
Take(x, spare) == [b \in Bins |->
    LET before == SumFunctionOnSet(spare, {c \in Bins : Priority[c] < Priority[b]})
    IN  Min({spare[b], Max({0, Asked[x].qty - before})})]

AskTransfer(h, x) ==
    /\ hand[h] = Free /\ h # Consumer
    /\ transfer[x] = "none" /\ \A g \in Hands : hand[g].op \in {"look", "insert"} => hand[g].transfer # x
    /\ \/ Proceed(h, [op |-> "look", transfer |-> x, first |-> "stock", seen |-> InBins(Asked[x].sku)])
       \/ Proceed(h, [op |-> "look", transfer |-> x, first |-> "picks", seen |-> OpenPicks(Asked[x].sku)])
    /\ NothingElse

FindSources(h) ==
    /\ IsAt(h, "look")
    /\ LET r == hand[h]
           s == Asked[r.transfer].sku
           take == Take(r.transfer, IF r.first = "stock" THEN Spare(r.seen, OpenPicks(s))
                                    ELSE Spare(InBins(s), r.seen)) IN
       IF SumFunctionOnSet(take, Bins) < Asked[r.transfer].qty THEN Leave(h)
       ELSE Proceed(h, [op |-> "insert", transfer |-> r.transfer, take |-> take])
    /\ NothingElse

InsertTransfer(h) ==
    /\ IsAt(h, "insert")
    /\ LET r == hand[h] IN
       /\ transfer' = [transfer EXCEPT ![r.transfer] = "PICKING"]
       /\ pick' = [p \in Picks |-> IF p[1] = r.transfer /\ r.take[p[2]] > 0
                                   THEN [status |-> "PENDING", qty |-> r.take[p[2]]]
                                   ELSE pick[p]]
    /\ Leave(h)
    /\ UNCHANGED <<bins, task, sent, failures>>

(* completePick: a pending pick is taken if the bin still holds it; a pick  *)
(* already taken, of a transfer still open, is a retry of its completion.   *)
AskPick(h, x, b) ==
    /\ hand[h] = Free /\ h # Consumer
    /\ \/ /\ pick[<<x, b>>].status = "PENDING"
          /\ inBin[b][Asked[x].sku] >= pick[<<x, b>>].qty
          /\ Proceed(h, [op |-> "take", transfer |-> x, bin |-> b, held |-> inBin[b][Asked[x].sku]])
       \/ /\ pick[<<x, b>>].status = "PICKED" /\ transfer[x] = "PICKING"
          /\ Proceed(h, [op |-> "finish", transfer |-> x])
    /\ NothingElse

TakePick(h) ==
    /\ IsAt(h, "take")
    /\ LET r == hand[h]
           p == <<r.transfer, r.bin>>
           s == Asked[r.transfer].sku IN
       /\ pick' = [pick EXCEPT ![p].status = "PICKED"]
       /\ inBin' = [inBin EXCEPT ![r.bin][s] = @ - pick[p].qty]
       /\ used' = [used EXCEPT ![r.bin] = @ - pick[p].qty * Size[s]]
       /\ Proceed(h, [op |-> "tell", transfer |-> r.transfer, bin |-> r.bin,
                   left |-> r.held - pick[p].qty])
    /\ UNCHANGED <<copy, task, transfer, sent, failures>>

(* Best effort: the call may fail and the pick goes on.                     *)
TellInventory(h) ==
    /\ IsAt(h, "tell")
    /\ LET r == hand[h] IN
       /\ \/ copy' = [copy EXCEPT ![r.bin][Asked[r.transfer].sku] = r.left] /\ UNCHANGED failures
          \/ Fails /\ UNCHANGED copy
       /\ Proceed(h, [op |-> "finish", transfer |-> r.transfer])
    /\ UNCHANGED <<used, inBin, rows>>

AllPicked(x) == \A b \in Bins : ~ IsOpen(x, b)

(* Mutant: the picker's own pick is taken for the last one.                 *)
CheckNothing(h) ==
    /\ IsAt(h, "finish")
    /\ LET x == hand[h].transfer IN
       IF transfer[x] = "PICKING"
       THEN Proceed(h, [op |-> "publish", transfer |-> x]) ELSE Leave(h)
    /\ NothingElse

CheckTransfer(h) ==
    /\ IsAt(h, "finish")
    /\ LET x == hand[h].transfer IN
       IF transfer[x] = "PICKING" /\ AllPicked(x)
       THEN Proceed(h, [op |-> "publish", transfer |-> x]) ELSE Leave(h)
    /\ NothingElse

PublishTransfer(h) ==
    /\ IsAt(h, "publish")
    /\ LET x == hand[h].transfer IN
       /\ sent' = [sent EXCEPT ![x] = @ + 1]
       /\ Proceed(h, [op |-> "complete", transfer |-> x])
    /\ UNCHANGED <<bins, task, pick, transfer, failures>>

CompleteTransfer(h) ==
    /\ IsAt(h, "complete")
    /\ transfer' = [transfer EXCEPT ![hand[h].transfer] = "COMPLETED"]
    /\ Leave(h)
    /\ UNCHANGED <<bins, task, pick, sent, failures>>

-----------------------------------------------------------------------------
(* A statement or a call fails; the request ends where it is.  Inventory may *)
(* have answered a confirmation that failed on the way back.                *)
HandFails(h) ==
    /\ Fails /\ hand[h] # Free
    /\ IF IsAt(h, "confirm")
       THEN \/ UNCHANGED copy
            \/ copy' = [copy EXCEPT ![hand[h].bin][Task[hand[h].task].sku] = hand[h].total]
       ELSE UNCHANGED copy
    /\ Leave(h)
    /\ UNCHANGED <<used, inBin, rows>>

HouseRestarts ==
    /\ Fails
    /\ hand' = [h \in Hands |-> Free]
    /\ UNCHANGED <<bins, rows, crossed>>

FloorStep(h) ==
    \/ ChooseBin(h) \/ AssignBin(h) \/ ReadBinStock(h) \/ Confirm(h) \/ Shelve(h)
    \/ FindSources(h) \/ InsertTransfer(h) \/ TakePick(h) \/ TellInventory(h) \/ CheckTransfer(h)
    \/ CompleteTransfer(h) \/ HandFails(h)

-----------------------------------------------------------------------------
(* Room is accounted for: in a bin that no two hands worked on at once, the *)
(* room used is what pending tasks reserve plus what the stock takes, and   *)
(* it never exceeds the capacity; assigning again, picking, failing between *)
(* statements and restarting neither lose nor invent room.                  *)
Reserved(b) == SumFunctionOnSet([t \in Tasks |->
    IF task[t].status = "PENDING" /\ task[t].bin = b THEN task[t].reserved ELSE 0], Tasks)
RoomIsAccounted == \A b \in Bins \ crossed :
    /\ used[b] = Reserved(b) + Room(inBin[b])
    /\ used[b] <= Capacity[b]

(* No unit is promised twice: what open picks still want from a bin that no *)
(* two hands worked on at once is there.                                    *)
PromisesAreKept == \A b \in Bins \ crossed : \A s \in Goods : Promised(b, s) <= inBin[b][s]

(* Inventory's copy of a bin no two hands worked on at once, and no call    *)
(* about failed, is the bin's content whenever nobody is about to tell it.  *)
CopyIsRight == failures = 0 => \A b \in Bins \ crossed :
    (\A h \in Hands : hand[h].op \in {"confirmed", "tell"} => hand[h].bin # b) => copy[b] = inBin[b]
=============================================================================
