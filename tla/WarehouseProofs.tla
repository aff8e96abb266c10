--------------------------- MODULE WarehouseProofs ---------------------------
(* Proofs about Distribution: the bins, putaways and transfers of the       *)
(* warehouse floor, for any bins, goods, tasks, transfers, hands and        *)
(* scenarios.                                                               *)
EXTENDS Distribution, Sums

-----------------------------------------------------------------------------
(* What a hand remembers, by the step it is at.                             *)
TaskOps == {"choose", "assign", "stock", "confirm", "confirmed"}
BinOps == {"stock", "confirm", "confirmed", "take", "tell"}
TransferOps == {"look", "insert", "take", "tell", "finish", "publish", "complete"}
Shape(r) ==
    /\ r.op \in HandSteps
    /\ r.op \in TaskOps \cup {"find"} => r.task \in Tasks
    /\ r.op \in {"choose", "assign"} => r.bin \in Bins \cup {Nowhere} /\ r.held \in Nat
    /\ r.op = "find" => r.bin = Nowhere
    /\ r.op = "assign" => r.to \in Bins
    /\ r.op \in BinOps => r.bin \in Bins
    /\ r.op = "confirm" => r.total \in Int
    /\ r.op \in TransferOps => r.transfer \in Transfers
    /\ r.op = "look" => r.seen \in [Bins -> Int] /\ r.first \in {"stock", "picks"}
    /\ r.op = "insert" => r.take \in [Bins -> Nat]
    /\ r.op = "take" => r.held \in Int
    /\ r.op = "tell" => r.left \in Int

(* A hand works on crossed things only, or alone.                           *)
Alone(g) == /\ Touches(hand[g]) \cap crossed = {}
            /\ \A k \in Hands \ {g} : Touches(hand[g]) \cap Touches(hand[k]) = {}
Apart == \A g \in Hands : Touches(hand[g]) \subseteq crossed \/ Alone(g)

SkuIn(r) == Task[r.task].sku
QtyIn(r) == Task[r.task].qty
SkuOut(r) == Asked[r.transfer].sku

(* What a hand alone at its task and bins can rely on: what it read is so.  *)
TaskView(r) == r.op \in {"choose", "assign"} /\ r.task \notin crossed =>
    /\ task[r.task].status = "PENDING" /\ task[r.task].bin = r.bin
    /\ task[r.task].reserved = r.held
RoomView(r) == r.op = "assign" /\ r.to \notin crossed => RoomIn(r.to, r) >= Footprint(r.task)
ShelfView(r) == r.op \in {"stock", "confirm", "confirmed"} /\ r.task \notin crossed =>
    task[r.task].status = "PENDING" /\ task[r.task].bin = r.bin
TotalView(r) == r.op = "confirm" /\ r.bin \notin crossed =>
    r.total = inBin[r.bin][SkuIn(r)] + QtyIn(r)
LookView(r) == r.op = "look" => \A b \in Bins \ crossed :
    r.seen[b] = IF r.first = "stock" THEN inBin[b][SkuOut(r)] ELSE Promised(b, SkuOut(r))
InsertView(r) == r.op = "insert" => \A b \in Bins \ crossed :
    r.take[b] > 0 => Promised(b, SkuOut(r)) + r.take[b] <= inBin[b][SkuOut(r)]
TakeView(r) == r.op = "take" /\ r.bin \notin crossed =>
    IsOpen(r.transfer, r.bin) /\ r.held = inBin[r.bin][SkuOut(r)]
CopyView(r) == failures = 0 =>
    /\ r.op = "confirmed" /\ r.bin \notin crossed =>
          copy[r.bin] = [inBin[r.bin] EXCEPT ![SkuIn(r)] = @ + QtyIn(r)]
    /\ r.op = "tell" /\ r.bin \notin crossed =>
          inBin[r.bin] = [copy[r.bin] EXCEPT ![SkuOut(r)] = r.left]
View(r) == /\ TaskView(r) /\ RoomView(r) /\ ShelfView(r) /\ TotalView(r)
           /\ LookView(r) /\ InsertView(r) /\ TakeView(r) /\ CopyView(r)

(* Tasks, and the hands at them.                                            *)
TaskRows == \A t \in Tasks :
    /\ task[t].status = "none" => task[t] = NoTask
    /\ task[t].reserved = IF task[t].bin = Nowhere THEN 0 ELSE Footprint(t)
TaskBins == \A t \in Tasks : t \in crossed => task[t].bin \in crossed \cup {Nowhere}
TaskHand(h, r) ==
    /\ r.op = "find" => h = Consumer /\ task[r.task].status = "none"
    /\ r.op \in TaskOps => task[r.task].status # "none"

(* Transfers, their picks, and the hands at them.                           *)
TransferRows == \A x \in Transfers :
    /\ transfer[x] = "none" => \A b \in Bins : pick[<<x, b>>] = [status |-> "none", qty |-> 0]
    /\ transfer[x] # "none" => Picked(x) = Asked[x].qty
    /\ sent[x] > 0 => transfer[x] # "none" /\ AllPicked(x)
    /\ transfer[x] = "COMPLETED" => sent[x] > 0
Planning(r) == r.op \in {"look", "insert"}
TransferHand(h, r) ==
    /\ Planning(r) => /\ transfer[r.transfer] = "none"
                      /\ \A g \in Hands \ {h} : Planning(hand[g]) => hand[g].transfer # r.transfer
    /\ r.op = "insert" => SumFunctionOnSet(r.take, Bins) = Asked[r.transfer].qty
    /\ r.op \in {"take", "tell", "finish", "publish", "complete"} => transfer[r.transfer] # "none"
    /\ r.op \in {"publish", "complete"} => AllPicked(r.transfer)
    /\ r.op = "complete" => sent[r.transfer] > 0

HandInv == /\ hand = [h \in Hands |-> hand[h]]
           /\ \A h \in Hands : \A r \in {hand[h]} : Shape(r) /\ View(r)
PlaceInv == \A h \in Hands : \A r \in {hand[h]} : TaskHand(h, r) /\ TransferHand(h, r)
HouseInv ==
    /\ HouseTypeOK /\ HandInv /\ Apart /\ PlaceInv
    /\ TaskRows /\ TaskBins /\ TransferRows
    /\ RoomIsAccounted /\ PromisesAreKept /\ CopyIsRight

-----------------------------------------------------------------------------
(* What a hand touches.                                                     *)
LEMMA TouchesOf ==
    ASSUME NEW r, Shape(r)
    PROVE  /\ r.op \in {"free", "finish", "publish", "complete"} => Touches(r) = {}
           /\ r.op \in {"find", "choose"} => Touches(r) = {r.task, r.bin} \ {Nowhere}
           /\ r.op = "assign" => Touches(r) = {r.task, r.bin, r.to} \ {Nowhere}
           /\ r.op \in {"stock", "confirm", "confirmed"} => Touches(r) = {r.task, r.bin}
           /\ r.op = "look" => Touches(r) = Bins
           /\ r.op = "insert" => Touches(r) = {b \in Bins : r.take[b] > 0}
           /\ r.op \in {"take", "tell"} => Touches(r) = {r.bin}
<1>1. CASE r.op \in {"free", "finish", "publish", "complete"}
  BY <1>1 DEF Touches
<1>2. CASE r.op \in {"find", "choose"}
  BY <1>2 DEF Touches
<1>3. CASE r.op = "assign"
  BY <1>3 DEF Touches
<1>4. CASE r.op \in {"stock", "confirm", "confirmed"}
  BY <1>4 DEF Touches
<1>5. CASE r.op = "look"
  BY <1>5 DEF Touches
<1>6. CASE r.op = "insert"
  BY <1>6 DEF Touches
<1>7. CASE r.op \in {"take", "tell"}
  BY <1>7 DEF Touches
<1> QED
  BY <1>1, <1>2, <1>3, <1>4, <1>5, <1>6, <1>7 DEF Shape, HandSteps

LEMMA TouchesTyped ==
    ASSUME NEW r, Shape(r)
    PROVE  /\ Touches(r) \subseteq Bins \cup Tasks
           /\ r.op \in TaskOps \cup {"find"} => r.task \in Touches(r)
           /\ r.op \in BinOps => r.bin \in Touches(r)
           /\ r.op = "assign" => r.to \in Touches(r)
           /\ r.op \in {"choose", "assign"} /\ r.bin # Nowhere => r.bin \in Touches(r)
<1> USE DEF TaskOps, BinOps
<1>1. CASE r.op \in {"free", "finish", "publish", "complete"}
  BY <1>1, TouchesOf
<1>2. CASE r.op \in {"find", "choose"}
  <2>1. Touches(r) = {r.task, r.bin} \ {Nowhere}
    BY <1>2, TouchesOf
  <2>2. r.task \in Tasks /\ r.bin \in Bins \cup {Nowhere} /\ Nowhere \notin Bins \cup Tasks
    BY <1>2, WarehouseAssumption DEF Shape
  <2> QED
    BY <1>2, <2>1, <2>2
<1>3. CASE r.op = "assign"
  <2>1. Touches(r) = {r.task, r.bin, r.to} \ {Nowhere}
    BY <1>3, TouchesOf
  <2>2. r.task \in Tasks /\ r.bin \in Bins \cup {Nowhere} /\ r.to \in Bins
        /\ Nowhere \notin Bins \cup Tasks
    BY <1>3, WarehouseAssumption DEF Shape
  <2> QED
    BY <1>3, <2>1, <2>2
<1>4. CASE r.op \in {"stock", "confirm", "confirmed"}
  BY <1>4, TouchesOf DEF Shape
<1>5. CASE r.op \in {"look", "insert"}
  BY <1>5, TouchesOf
<1>6. CASE r.op \in {"take", "tell"}
  BY <1>6, TouchesOf DEF Shape
<1> QED
  BY <1>1, <1>2, <1>3, <1>4, <1>5, <1>6 DEF Shape, HandSteps

(* After every step of a hand, each hand is alone or at crossed things.     *)
LEMMA ProceedParts ==
    ASSUME HandInv, NEW h \in Hands, NEW r, Shape(r), Proceed(h, r),
           crossed \subseteq Bins \cup Tasks
    PROVE  /\ hand' = [g \in Hands |-> hand'[g]] /\ hand'[h] = r
           /\ \A g \in Hands \ {h} : hand'[g] = hand[g]
           /\ crossed \subseteq crossed' /\ crossed' \subseteq Bins \cup Tasks
           /\ Apart'
           /\ \A e \in crossed' \ crossed : \E g \in Hands : e \in Touches(hand'[g])
                                            /\ Touches(hand'[g]) \subseteq crossed'
<1>1. /\ hand' = [g \in Hands |-> hand'[g]] /\ hand'[h] = r
      /\ \A g \in Hands \ {h} : hand'[g] = hand[g]
  BY DEF Proceed, HandInv
<1> DEFINE Meets(g) == \/ Touches(hand'[g]) \cap crossed # {}
                       \/ \E k \in Hands \ {g} : Touches(hand'[g]) \cap Touches(hand'[k]) # {}
           New == UNION {Touches(hand'[g]) : g \in {g \in Hands : Meets(g)}}
<1>2. crossed' = crossed \cup New
  BY DEF Proceed
<1>3. \A g \in Hands : Touches(hand'[g]) \subseteq Bins \cup Tasks
  BY <1>1, TouchesTyped DEF HandInv
<1>4. New \subseteq Bins \cup Tasks
  BY <1>3
<1>5. \A g \in Hands : Meets(g) => Touches(hand'[g]) \subseteq New
  OBVIOUS
<1>6. ASSUME NEW g \in Hands, ~ Meets(g)
      PROVE  /\ Touches(hand'[g]) \cap (crossed \cup New) = {}
             /\ \A k \in Hands \ {g} : Touches(hand'[g]) \cap Touches(hand'[k]) = {}
  BY <1>6
<1>7. \A g \in Hands : \/ Touches(hand'[g]) \subseteq crossed'
                       \/ /\ Touches(hand'[g]) \cap crossed' = {}
                          /\ \A k \in Hands \ {g} : Touches(hand'[g]) \cap Touches(hand'[k]) = {}
  <2> HIDE DEF Meets, New
  <2> QED
    BY <1>2, <1>5, <1>6
<1>8. Apart'
  <2>1. \A g \in Hands : Touches(hand[g])' = Touches(hand'[g])
    BY DEF Touches
  <2> QED
    BY <1>7 DEF Apart, Alone, Touches
<1>9. \A e \in New : \E g \in Hands : e \in Touches(hand'[g]) /\ Touches(hand'[g]) \subseteq crossed'
  BY <1>2, <1>5
<1> HIDE DEF Meets, New
<1> QED
  BY <1>1, <1>2, <1>4, <1>8, <1>9

(* What another hand touches and is not crossed after the step, the hand    *)
(* that moves did not touch before it.                                      *)
LEMMA NotMine ==
    ASSUME Apart, Apart', NEW h \in Hands, NEW g \in Hands \ {h}, hand'[g] = hand[g],
           crossed \subseteq crossed', NEW e \in Touches(hand[g]), e \notin crossed'
    PROVE  e \notin Touches(hand[h])
BY DEF Apart, Alone

(* A step of a hand leaves alone what the hand does not touch.              *)
Frame(h) ==
    /\ \A b \in Bins \ Touches(hand[h]) :
          /\ used'[b] = used[b] /\ inBin'[b] = inBin[b] /\ copy'[b] = copy[b]
          /\ \A x \in Transfers : pick'[<<x, b>>] = pick[<<x, b>>]
    /\ \A t \in Tasks \ Touches(hand[h]) : task'[t] = task[t]
    /\ failures' = 0 => failures = 0

LEMMA PromisedSame ==
    ASSUME NEW b, \A x \in Transfers : pick'[<<x, b>>] = pick[<<x, b>>], NEW s
    PROVE  Promised(b, s)' = Promised(b, s)
<1> DEFINE f == [x \in Transfers |->
                    IF Asked[x].sku = s /\ IsOpen(x, b) THEN pick[<<x, b>>].qty ELSE 0]
<1>1. f' = f
  BY DEF IsOpen
<1>2. Promised(b, s) = SumFunctionOnSet(f, Transfers)
  BY DEF Promised
<1>3. Promised(b, s)' = SumFunctionOnSet(f', Transfers)
  BY DEF Promised
<1> HIDE DEF f
<1> QED
  BY <1>1, <1>2, <1>3

LEMMA ViewsStay ==
    ASSUME HandInv, Apart, Apart', NEW h \in Hands, NEW g \in Hands \ {h}, hand'[g] = hand[g],
           crossed \subseteq crossed', Frame(h), NEW r, r = hand[g]
    PROVE  View(r)'
<1>1. Shape(r) /\ View(r)
  BY DEF HandInv
<1>2. \A e \in Touches(r) : e \notin crossed' => e \notin Touches(hand[h]) /\ e \notin crossed
  BY NotMine
<1>3. \A b \in Bins : b \in Touches(r) /\ b \notin crossed' =>
         /\ used'[b] = used[b] /\ inBin'[b] = inBin[b] /\ copy'[b] = copy[b]
         /\ \A x \in Transfers : pick'[<<x, b>>] = pick[<<x, b>>]
         /\ \A s : Promised(b, s)' = Promised(b, s)
  BY <1>2, PromisedSame DEF Frame
<1>4. \A t \in Tasks : t \in Touches(r) /\ t \notin crossed' => task'[t] = task[t]
  BY <1>2 DEF Frame
<1>5. TaskView(r)' /\ ShelfView(r)'
  BY <1>1, <1>2, <1>4, TouchesTyped DEF View, TaskView, ShelfView, Shape, TaskOps
<1>6. RoomView(r)'
  BY <1>1, <1>2, <1>3, TouchesTyped DEF View, RoomView, RoomIn, Shape
<1>7. TotalView(r)' /\ TakeView(r)' /\ CopyView(r)'
  <2>1. r.op \in BinOps /\ r.bin \notin crossed' =>
           /\ r.bin \in Bins /\ r.bin \notin crossed
           /\ inBin'[r.bin] = inBin[r.bin] /\ copy'[r.bin] = copy[r.bin]
           /\ \A x \in Transfers : pick'[<<x, r.bin>>] = pick[<<x, r.bin>>]
    BY <1>1, <1>2, <1>3, TouchesTyped DEF Shape
  <2>2. TotalView(r)'
    BY <1>1, <2>1 DEF View, TotalView, BinOps, SkuIn, QtyIn
  <2>3. TakeView(r)'
    BY <1>1, <2>1 DEF View, TakeView, BinOps, SkuOut, IsOpen, Shape, TransferOps
  <2>4. CopyView(r)'
    BY <1>1, <2>1 DEF View, CopyView, BinOps, SkuIn, QtyIn, SkuOut, Frame
  <2> QED
    BY <2>2, <2>3, <2>4
<1>8. LookView(r)'
  <2>1. r.op = "look" => Touches(r) = Bins
    BY <1>1, TouchesOf
  <2> QED
    BY <1>1, <1>2, <1>3, <2>1 DEF View, LookView, SkuOut
<1>9. InsertView(r)'
  <2>1. r.op = "insert" => Touches(r) = {b \in Bins : r.take[b] > 0}
    BY <1>1, TouchesOf
  <2> QED
    BY <1>1, <1>2, <1>3, <2>1 DEF View, InsertView, SkuOut
<1> QED
  BY <1>5, <1>6, <1>7, <1>8, <1>9 DEF View

LEMMA PickedSame ==
    ASSUME NEW y, \A b \in Bins : pick'[<<y, b>>] = pick[<<y, b>>]
    PROVE  AllPicked(y)' = AllPicked(y) /\ Picked(y)' = Picked(y)
<1>1. PICK f : f = [b \in Bins |-> pick[<<y, b>>].qty]
  OBVIOUS
<1>2. PICK g : g = [b \in Bins |-> pick'[<<y, b>>].qty]
  OBVIOUS
<1>3. f = g
  BY <1>1, <1>2
<1> QED
  BY <1>1, <1>2, <1>3 DEF AllPicked, IsOpen, Picked

(* What every step of a hand has to show.                                   *)
HandStep(h, r) == Shape(r) /\ Proceed(h, r) /\ Frame(h)
LEMMA HandsGoOn ==
    ASSUME HouseInv, NEW h \in Hands, NEW r, HandStep(h, r)
    PROVE  /\ Apart' /\ crossed \subseteq crossed' /\ crossed' \subseteq Bins \cup Tasks
           /\ hand'[h] = r /\ \A g \in Hands \ {h} : hand'[g] = hand[g]
           /\ \A g \in Hands : hand'[g].op \in HandSteps
           /\ \A e \in crossed' \ crossed : \E g \in Hands : e \in Touches(hand'[g])
                                            /\ Touches(hand'[g]) \subseteq crossed'
           /\ View(r)' => HandInv'
<1>1. crossed \subseteq Bins \cup Tasks /\ HandInv
  BY DEF HouseInv, HouseTypeOK
<1>2. /\ hand' = [g \in Hands |-> hand'[g]] /\ hand'[h] = r
      /\ \A g \in Hands \ {h} : hand'[g] = hand[g]
      /\ crossed \subseteq crossed' /\ crossed' \subseteq Bins \cup Tasks
      /\ Apart'
      /\ \A e \in crossed' \ crossed : \E g \in Hands : e \in Touches(hand'[g])
                                       /\ Touches(hand'[g]) \subseteq crossed'
  BY <1>1, ProceedParts DEF HandStep
<1>3. \A g \in Hands \ {h} : \A q \in {hand'[g]} : View(q)'
  BY <1>1, <1>2, ViewsStay DEF HandStep, HouseInv
<1>4. \A g \in Hands : Shape(hand'[g])
  BY <1>1, <1>2 DEF HandStep, HandInv
<1>5. ASSUME View(r)' PROVE HandInv'
  <2>1. \A g \in Hands : \A q \in {hand'[g]} : View(q)'
    BY <1>2, <1>3, <1>5
  <2>2. \A g \in Hands : \A q \in {hand'[g]} : Shape(q)'
    BY <1>4 DEF Shape
  <2> QED
    BY <1>2, <2>1, <2>2 DEF HandInv
<1> QED
  BY <1>2, <1>4, <1>5 DEF Shape

(* A task comes to be crossed together with the bin it is directed to.      *)
Linked(r) == r.op \in TaskOps /\ r.task \notin crossed => task'[r.task].bin = r.bin
LEMMA TaskBinsStay ==
    ASSUME HouseInv, NEW h \in Hands, NEW r, HandStep(h, r), Linked(r),
           r.op = "find" => task'[r.task].bin = Nowhere,
           \A t \in Tasks \cap crossed : task'[t].bin \in crossed' \cup {Nowhere}
    PROVE  TaskBins'
<1> SUFFICES ASSUME NEW t \in Tasks, t \in crossed', t \notin crossed
             PROVE  task'[t].bin \in crossed' \cup {Nowhere}
  BY DEF TaskBins
<1>1. PICK g \in Hands : t \in Touches(hand'[g]) /\ Touches(hand'[g]) \subseteq crossed'
  BY HandsGoOn
<1>2. hand'[h] = r /\ (g # h => hand'[g] = hand[g])
  BY HandsGoOn
<1>3. PICK q : q = hand'[g]
  OBVIOUS
<1>4. Shape(q)
  BY <1>2, <1>3 DEF HandStep, HouseInv, HandInv
<1>5. q.op \in TaskOps \cup {"find"} /\ q.task = t
  <2>1. t \notin Bins
    BY WarehouseAssumption
  <2>2. q.op \notin TaskOps \cup {"find"} => Touches(q) \subseteq Bins
    BY <1>4, TouchesOf DEF TaskOps, Shape, HandSteps, BinOps
  <2>3. q.op \in TaskOps \cup {"find"} => Touches(q) \subseteq Bins \cup {q.task}
    BY <1>4, TouchesOf DEF TaskOps, Shape, BinOps
  <2> QED
    BY <1>1, <1>3, <2>1, <2>2, <2>3
<1>6. task'[t].bin = q.bin \/ task'[t].bin = Nowhere
  <2>1. CASE g = h
    BY <1>2, <1>3, <1>5, <2>1 DEF Linked
  <2>2. CASE g # h
    <3>1. q = hand[g] /\ t \in Touches(hand[g])
      BY <1>1, <1>2, <1>3, <2>2
    <3>2. t \notin Touches(hand[h])
      BY <2>2, <3>1 DEF HouseInv, Apart, Alone
    <3>3. task'[t] = task[t]
      BY <3>2 DEF HandStep, Frame
    <3>4. TaskView(q) /\ ShelfView(q) /\ TaskHand(g, q)
      BY <3>1 DEF HouseInv, HandInv, View, PlaceInv
    <3>5. q.op = "find" => task[t] = NoTask
      BY <1>5, <3>4 DEF TaskHand, HouseInv, TaskRows
    <3>6. q.op \in TaskOps => task[t].bin = q.bin
      BY <1>5, <3>4 DEF TaskView, ShelfView, TaskOps
    <3> QED
      BY <1>5, <3>3, <3>5, <3>6 DEF NoTask
  <2> QED
    BY <2>1, <2>2
<1>7. q.bin \in Bins => q.bin \in crossed'
  <2>1. Nowhere \notin Bins
    BY WarehouseAssumption
  <2> QED
    BY <1>1, <1>3, <1>4, <1>5, <2>1, TouchesTyped DEF TaskOps, BinOps, Shape
<1>8. q.bin \in Bins \cup {Nowhere}
  BY <1>4, <1>5 DEF Shape, TaskOps, BinOps
<1> QED
  BY <1>6, <1>7, <1>8

(* How far a step may change statuses, and what the other hands make of it. *)
StatusMoves(h) == \A t \in Tasks :
    /\ task[t].status # "none" => task'[t].status # "none"
    /\ h # Consumer /\ task[t].status = "none" => task'[t].status = "none"
TransferMoves(h) == \A x \in Transfers :
    /\ transfer[x] # "none" => /\ transfer'[x] # "none"
                               /\ AllPicked(x) => AllPicked(x)'
                               /\ sent[x] > 0 => sent'[x] > 0
    /\ transfer[x] = "none" => transfer'[x] = "none"
                               \/ (hand[h].op = "insert" /\ hand[h].transfer = x)

LEMMA PlacesStay ==
    ASSUME HouseInv, NEW h \in Hands, NEW r, HandStep(h, r), TaskHand(h, r)', TransferHand(h, r)',
           StatusMoves(h), TransferMoves(h)
    PROVE  PlaceInv'
<1>1. hand'[h] = r /\ \A g \in Hands \ {h} : hand'[g] = hand[g]
  BY HandsGoOn
<1> SUFFICES ASSUME NEW g \in Hands \ {h}, NEW q, q = hand[g]
             PROVE  TaskHand(g, q)' /\ TransferHand(g, q)'
  BY <1>1 DEF PlaceInv
<1>2. Shape(q) /\ TaskHand(g, q) /\ TransferHand(g, q)
  BY DEF HouseInv, HandInv, PlaceInv
<1>3. TaskHand(g, q)'
  BY <1>2 DEF TaskHand, StatusMoves, Shape
<1>4. q.op \in TransferOps => q.transfer \in Transfers
  BY <1>2 DEF Shape
<1>5. Planning(q) => transfer'[q.transfer] = "none"
  BY <1>2, <1>4 DEF TransferHand, TransferMoves, Planning, TransferOps
<1>6. Planning(q) => \A k \in Hands \ {g} : Planning(hand'[k]) => hand'[k].transfer # q.transfer
  <2>1. Planning(q) /\ Planning(r) => r.transfer # q.transfer
    BY <1>1 DEF TransferHand
  <2> QED
    BY <1>1, <1>2, <2>1 DEF TransferHand
<1>7. q.op \in {"take", "tell", "finish", "publish", "complete"} =>
         /\ transfer'[q.transfer] # "none"
         /\ AllPicked(q.transfer) => AllPicked(q.transfer)'
         /\ sent[q.transfer] > 0 => sent'[q.transfer] > 0
  BY <1>2, <1>4 DEF TransferHand, TransferMoves, TransferOps
<1> QED
  BY <1>2, <1>3, <1>5, <1>6, <1>7 DEF TransferHand, Planning

-----------------------------------------------------------------------------
(* The model's own operators: which bin is chosen, what is taken.           *)
LEMMA SelectBinHasRoom ==
    ASSUME NEW r, WithRoom(r) # {}
    PROVE  SelectBin(r) \in WithRoom(r)
<1> DEFINE s == Task[r.task].sku
<1>1. IsFiniteSet(WithRoom(r)) /\ Ints(Priority, WithRoom(r))
  BY WarehouseAssumption, FS_Subset DEF WithRoom, Ints
<1>2. \E b \in WithRoom(r) : \A c \in WithRoom(r) : Better(b, c, s)
  <2>1. CASE s \in Fast
    BY <1>1, <2>1, LeastIn DEF Better
  <2>2. CASE s \notin Fast
    <3>1. PICK b \in WithRoom(r) : \A c \in WithRoom(r) : Priority[c] <= Priority[b]
      BY <1>1, GreatestIn
    <3>2. \A c \in WithRoom(r) : Priority[b] >= Priority[c]
      BY <1>1, <3>1 DEF Ints
    <3> QED
      BY <2>2, <3>2 DEF Better
  <2> QED
    BY <2>1, <2>2
<1> QED
  BY <1>2 DEF SelectBin

LEMMA MinOfTwo == \A a, b \in Int : Min({a, b}) = IF a <= b THEN a ELSE b
<1> SUFFICES ASSUME NEW a \in Int, NEW b \in Int PROVE Min({a, b}) = IF a <= b THEN a ELSE b
  OBVIOUS
<1>1. \E x \in {a, b} : \A y \in {a, b} : x =< y
  OBVIOUS
<1>2. Min({a, b}) \in {a, b} /\ \A y \in {a, b} : Min({a, b}) =< y
  BY <1>1 DEF Min
<1> QED
  BY <1>2

LEMMA MaxOfTwo == \A a, b \in Int : Max({a, b}) = IF a <= b THEN b ELSE a
<1> SUFFICES ASSUME NEW a \in Int, NEW b \in Int PROVE Max({a, b}) = IF a <= b THEN b ELSE a
  OBVIOUS
<1>1. \E x \in {a, b} : \A y \in {a, b} : x >= y
  OBVIOUS
<1>2. Max({a, b}) \in {a, b} /\ \A y \in {a, b} : Max({a, b}) >= y
  BY <1>1 DEF Max
<1> QED
  BY <1>2

LEMMA SpareOf ==
    ASSUME NEW held \in [Bins -> Int], NEW open \in [Bins -> Int]
    PROVE  /\ Spare(held, open) \in [Bins -> Nat]
           /\ \A b \in Bins : Spare(held, open)[b] > 0 => Spare(held, open)[b] = held[b] - open[b]
BY MaxOfTwo DEF Spare

(* The nearest bins are emptied first and no more than asked for is taken.  *)
LEMMA TakeIsEnough ==
    ASSUME NEW x \in Transfers, NEW spare \in [Bins -> Nat]
    PROVE  /\ Take(x, spare) \in [Bins -> Nat]
           /\ \A b \in Bins : Take(x, spare)[b] <= spare[b]
           /\ SumFunctionOnSet(Take(x, spare), Bins) <= Asked[x].qty
<1> DEFINE take == Take(x, spare)
           Q == Asked[x].qty
           Nearer(b) == {c \in Bins : Priority[c] < Priority[b]}
           Before(b) == SumFunctionOnSet(spare, Nearer(b))
<1>1. Q \in Nat
  BY WarehouseAssumption
<1>2. \A b \in Bins : Before(b) \in Nat
  <2> SUFFICES ASSUME NEW b \in Bins PROVE Before(b) \in Nat
    OBVIOUS
  <2>1. IsFiniteSet(Nearer(b)) /\ \A c \in Nearer(b) : spare[c] \in Nat
    BY WarehouseAssumption, FS_Subset
  <2> HIDE DEF Nearer
  <2> QED
    BY <2>1, SumNat
<1>3. \A b \in Bins : take[b] = IF Q - Before(b) <= 0 THEN 0
                                ELSE IF spare[b] <= Q - Before(b) THEN spare[b] ELSE Q - Before(b)
  <2> SUFFICES ASSUME NEW b \in Bins
               PROVE  take[b] = IF Q - Before(b) <= 0 THEN 0
                                ELSE IF spare[b] <= Q - Before(b) THEN spare[b] ELSE Q - Before(b)
    OBVIOUS
  <2>1. take[b] = Min({spare[b], Max({0, Q - Before(b)})})
    BY DEF Take
  <2>2. Before(b) \in Nat /\ spare[b] \in Nat
    BY <1>2
  <2> HIDE DEF take, Before, Q
  <2>3. Max({0, Q - Before(b)}) = IF Q - Before(b) <= 0 THEN 0 ELSE Q - Before(b)
    BY <1>1, <2>2, MaxOfTwo
  <2>4. PICK rest \in Int : rest = Max({0, Q - Before(b)})
    BY <1>1, <2>2, <2>3
  <2>5. PICK all \in Int : all = spare[b]
    BY <2>2
  <2>6. Min({all, rest}) = IF all <= rest THEN all ELSE rest
    BY MinOfTwo
  <2>7. take[b] = IF spare[b] <= rest THEN spare[b] ELSE rest
    BY <2>1, <2>4, <2>5, <2>6
  <2> QED
    BY <1>1, <2>2, <2>3, <2>4, <2>7
<1>4. take = [b \in Bins |-> take[b]] /\ \A b \in Bins : take[b] \in Nat /\ take[b] <= spare[b]
  <2>1. take = [b \in Bins |-> take[b]]
    BY DEF Take
  <2> HIDE DEF take, Before, Q
  <2> QED
    BY <1>1, <1>2, <1>3, <2>1
<1> DEFINE Down(D) == \A b \in D, c \in Bins : Priority[c] < Priority[b] => c \in D
           Fits(D) == SumFunctionOnSet(take, D) =
                         IF SumFunctionOnSet(spare, D) <= Q THEN SumFunctionOnSet(spare, D) ELSE Q
           C == {D \in SUBSET Bins : Down(D) /\ ~ Fits(D)}
<1>5. C = {}
  <2> SUFFICES ASSUME C # {} PROVE FALSE
    OBVIOUS
  <2>1. PICK T \in C : \A U \in C : U \subseteq T => U = T
    <3>1. C \subseteq SUBSET Bins
      OBVIOUS
    <3> HIDE DEF C
    <3> QED
      BY <3>1, Smallest, WarehouseAssumption
  <2>2. T \subseteq Bins /\ IsFiniteSet(T) /\ Down(T) /\ ~ Fits(T)
    BY <2>1, FS_Subset, WarehouseAssumption
  <2>3. T # {}
    BY <1>1, <2>2, SumEmpty
  <2>4. Ints(Priority, T) /\ \A b \in Bins : Priority[b] \in Int
    BY <2>2, WarehouseAssumption DEF Ints
  <2>5. PICK m \in T : \A c \in T : Priority[c] <= Priority[m]
    BY <2>2, <2>3, <2>4, GreatestIn
  <2> DEFINE R == T \ {m}
  <2>6. R = Nearer(m)
    <3>1. ASSUME NEW c \in R PROVE c \in Nearer(m)
      <4>1. c \in Bins /\ m \in Bins /\ Priority[c] <= Priority[m] /\ c # m
        BY <2>2, <2>5
      <4>2. Priority[c] # Priority[m]
        BY <4>1, WarehouseAssumption
      <4> QED
        BY <2>4, <4>1, <4>2
    <3>2. ASSUME NEW c \in Nearer(m) PROVE c \in R
      BY <2>2, <2>4, <2>5
    <3> QED
      BY <3>1, <3>2
  <2>7. Down(R) /\ R \subseteq T /\ R # T
    BY <2>2, <2>4, <2>5
  <2>8. Fits(R)
    BY <2>1, <2>2, <2>7
  <2>9. Before(m) = SumFunctionOnSet(spare, R)
    BY <2>6
  <2>10. Ints(take, T) /\ Ints(spare, T)
    BY <1>4, <2>2 DEF Ints
  <2>11. /\ SumFunctionOnSet(take, T) = take[m] + SumFunctionOnSet(take, R)
         /\ SumFunctionOnSet(spare, T) = spare[m] + SumFunctionOnSet(spare, R)
    BY <2>2, <2>5, <2>10, SumRemove
  <2>12. m \in Bins /\ spare[m] \in Nat /\ Before(m) \in Nat
    BY <1>2, <2>2, <2>5
  <2>13. ~ Fits(T)
    BY <2>2
  <2>14. take[m] = IF Q - Before(m) <= 0 THEN 0
                   ELSE IF spare[m] <= Q - Before(m) THEN spare[m] ELSE Q - Before(m)
    BY <1>3, <2>12
  <2> HIDE DEF take, Q, Before, R
  <2> QED
    BY <1>1, <2>8, <2>9, <2>11, <2>12, <2>13, <2>14
<1>6. Down(Bins)
  OBVIOUS
<1>7. Fits(Bins)
  BY <1>5, <1>6
<1>8. SumFunctionOnSet(spare, Bins) \in Nat
  BY WarehouseAssumption, SumNat
<1> HIDE DEF take, Q
<1>9. SumFunctionOnSet(take, Bins) <= Q
  BY <1>1, <1>7, <1>8
<1>10. take \in [Bins -> Nat]
  BY <1>4
<1> QED
  BY <1>4, <1>9, <1>10 DEF take, Q

-----------------------------------------------------------------------------
(* Steps that only read.                                                    *)
LEMMA QuietStep ==
    ASSUME HouseInv, NEW h \in Hands, NEW r, Shape(r), Proceed(h, r), NothingElse,
           View(r)', TaskHand(h, r), TransferHand(h, r), Linked(r),
           hand[h].op \notin {"confirmed", "tell"}
    PROVE  HouseInv'
<1> USE DEF NothingElse, bins, rows
<1>1. HandStep(h, r)
  BY DEF HandStep, Frame
<1>2. /\ Apart' /\ crossed \subseteq crossed' /\ crossed' \subseteq Bins \cup Tasks
      /\ hand'[h] = r /\ \A g \in Hands \ {h} : hand'[g] = hand[g]
      /\ \A g \in Hands : hand'[g].op \in HandSteps
      /\ HandInv'
  BY <1>1, HandsGoOn
<1>3. HouseTypeOK'
  BY <1>2 DEF HouseInv, HouseTypeOK
<1>4. TaskHand(h, r)'
  BY DEF TaskHand
<1>5. TransferHand(h, r)'
  BY <1>2 DEF TransferHand, AllPicked, IsOpen
<1>6. StatusMoves(h) /\ TransferMoves(h)
  BY DEF StatusMoves, TransferMoves, AllPicked, IsOpen
<1>7. PlaceInv'
  BY <1>1, <1>4, <1>5, <1>6, PlacesStay
<1>8. TaskBins'
  <2>1. r.op = "find" => task[r.task].bin = Nowhere
    BY DEF TaskHand, HouseInv, TaskRows, NoTask, Shape
  <2>2. \A t \in Tasks \cap crossed : task'[t].bin \in crossed' \cup {Nowhere}
    BY <1>2 DEF HouseInv, TaskBins
  <2> QED
    BY <1>1, <2>1, <2>2, TaskBinsStay
<1>9. TaskRows' /\ TransferRows'
  BY DEF HouseInv, TaskRows, TransferRows, AllPicked, IsOpen, Picked, Footprint
<1>10. RoomIsAccounted' /\ PromisesAreKept'
  BY <1>2 DEF HouseInv, RoomIsAccounted, PromisesAreKept, Reserved, Promised, IsOpen
<1>11. CopyIsRight'
  BY <1>2 DEF HouseInv, CopyIsRight
<1> QED
  BY <1>2, <1>3, <1>7, <1>8, <1>9, <1>10, <1>11 DEF HouseInv

(* The view of a hand that is free, or at a step without one.               *)
LEMMA NoView ==
    ASSUME NEW r, r.op \in {"free", "find", "finish", "publish", "complete"}
    PROVE  View(r)'
BY DEF View, TaskView, RoomView, ShelfView, TotalView, LookView, InsertView, TakeView, CopyView

LEMMA FreeHand ==
    ASSUME NEW h
    PROVE  /\ Free.op = "free" /\ Shape(Free) /\ TaskHand(h, Free) /\ TransferHand(h, Free)
           /\ Linked(Free) /\ View(Free)'
           /\ TaskHand(h, Free)' /\ TransferHand(h, Free)'
BY NoView DEF Free, Shape, TaskHand, TransferHand, Linked, TaskOps, BinOps, TransferOps, HandSteps,
              Planning

LEMMA ReceiveStep ==
    ASSUME HouseInv, NEW t \in Tasks, Receive(t)
    PROVE  HouseInv'
<1> DEFINE r == [op |-> "find", task |-> t, bin |-> Nowhere]
<1>1. /\ Consumer \in Hands /\ hand[Consumer] = Free /\ task[t].status = "none"
      /\ Proceed(Consumer, r) /\ NothingElse
  BY WarehouseAssumption DEF Receive
<1>2. Shape(r)
  BY DEF Shape, TaskOps, BinOps, TransferOps, HandSteps
<1>3. TaskHand(Consumer, r) /\ TransferHand(Consumer, r) /\ Linked(r)
  BY <1>1 DEF TaskHand, TransferHand, Linked, TaskOps, Planning
<1>4. View(r)' /\ hand[Consumer].op \notin {"confirmed", "tell"}
  BY <1>1, NoView DEF Free
<1> HIDE DEF r
<1> QED
  BY <1>1, <1>2, <1>3, <1>4, QuietStep

LEMMA AskAssignStep ==
    ASSUME HouseInv, NEW h \in Hands, NEW t \in Tasks, NEW b \in Bins, AskAssign(h, t, b)
    PROVE  HouseInv'
<1>0. PICK r : r = [op |-> "choose", task |-> t, bin |-> task[t].bin,
                 held |-> task[t].reserved, asked |-> b]
  OBVIOUS
<1>1. hand[h] = Free /\ task[t].status = "PENDING" /\ Proceed(h, r) /\ NothingElse
  BY <1>0 DEF AskAssign
<1>2. task[t].bin \in Bins \cup {Nowhere} /\ task[t].reserved \in Nat
  BY <1>0 DEF HouseInv, HouseTypeOK
<1>3. Shape(r)
  BY <1>0, <1>2 DEF Shape, TaskOps, BinOps, TransferOps, HandSteps
<1>4. TaskHand(h, r) /\ TransferHand(h, r) /\ Linked(r)
  BY <1>0, <1>1 DEF TaskHand, TransferHand, Linked, TaskOps, Planning, NothingElse, rows
<1>5. View(r)' /\ hand[h].op \notin {"confirmed", "tell"}
  BY <1>0, <1>1 DEF Free, View, TaskView, RoomView, ShelfView, TotalView, LookView, InsertView,
              TakeView, CopyView, NothingElse, rows
<1> QED
  BY <1>1, <1>3, <1>4, <1>5, QuietStep

LEMMA ChooseBinStep ==
    ASSUME HouseInv, NEW h \in Hands, ChooseBin(h)
    PROVE  HouseInv'
<1>1. PICK o : o = hand[h]
  OBVIOUS
<1>2. o.op = "choose" /\ Shape(o) /\ TaskView(o) /\ TaskHand(h, o) /\ NothingElse
  BY <1>1 DEF ChooseBin, IsAt, HouseInv, HandInv, View, PlaceInv
<1>3. hand[h].op \notin {"confirmed", "tell"}
  BY <1>1, <1>2
<1>4. CASE WithRoom(o) = {}
  <2>1. Proceed(h, Free)
    BY <1>1, <1>4 DEF ChooseBin, Leave
  <2> QED
    BY <1>2, <1>3, <2>1, FreeHand, QuietStep
<1>5. CASE WithRoom(o) # {}
  <2>0. PICK r : r = [op |-> "assign", task |-> o.task, bin |-> o.bin, held |-> o.held,
                   to |-> SelectBin(o)]
    OBVIOUS
  <2>1. Proceed(h, r)
    BY <1>1, <2>0, <1>5 DEF ChooseBin
  <2>2. SelectBin(o) \in Bins /\ RoomIn(SelectBin(o), o) >= Footprint(o.task)
    BY <1>5, <2>0, SelectBinHasRoom DEF WithRoom
  <2>3. Shape(r)
    BY <1>2, <2>0, <2>2 DEF Shape, TaskOps, BinOps, TransferOps, HandSteps
  <2>4. TaskHand(h, r) /\ TransferHand(h, r)
    BY <1>2, <2>0 DEF TaskHand, TransferHand, TaskOps, Planning
  <2>5. Linked(r)
    BY <1>2, <2>0 DEF Linked, TaskOps, TaskView, NothingElse, rows
  <2>6. crossed \subseteq crossed'
    BY <2>0, <2>1 DEF Proceed
  <2>7. TaskView(r)'
    BY <1>2, <2>0, <2>6 DEF TaskView, NothingElse, rows
  <2>8. RoomView(r)'
    BY <1>2, <2>0, <2>2 DEF RoomView, RoomIn, Footprint, NothingElse, bins
  <2>9. View(r)'
    BY <2>0, <2>7, <2>8 DEF View, ShelfView, TotalView, LookView, InsertView, TakeView, CopyView
  <2> QED
    BY <1>2, <1>3, <2>1, <2>3, <2>4, <2>5, <2>9, QuietStep
<1> QED
  BY <1>4, <1>5

LEMMA AskCompleteStep ==
    ASSUME HouseInv, NEW h \in Hands, NEW t \in Tasks, AskComplete(h, t)
    PROVE  HouseInv'
<1>0. PICK r : r = [op |-> "stock", task |-> t, bin |-> task[t].bin]
  OBVIOUS
<1>1. /\ hand[h] = Free /\ task[t].status = "PENDING" /\ task[t].bin # Nowhere
      /\ Proceed(h, r) /\ NothingElse
  BY <1>0 DEF AskComplete
<1>2. task[t].bin \in Bins
  BY <1>0, <1>1 DEF HouseInv, HouseTypeOK
<1>3. Shape(r)
  BY <1>0, <1>2 DEF Shape, TaskOps, BinOps, TransferOps, HandSteps
<1>4. TaskHand(h, r) /\ TransferHand(h, r) /\ Linked(r)
  BY <1>0, <1>1 DEF TaskHand, TransferHand, Linked, TaskOps, Planning, NothingElse, rows
<1>5. View(r)' /\ hand[h].op \notin {"confirmed", "tell"}
  BY <1>0, <1>1 DEF Free, View, TaskView, RoomView, ShelfView, TotalView, LookView, InsertView,
              TakeView, CopyView, NothingElse, rows
<1> QED
  BY <1>1, <1>3, <1>4, <1>5, QuietStep

LEMMA ReadBinStockStep ==
    ASSUME HouseInv, NEW h \in Hands, ReadBinStock(h)
    PROVE  HouseInv'
<1>1. PICK o : o = hand[h]
  OBVIOUS
<1>2. o.op = "stock" /\ Shape(o) /\ ShelfView(o) /\ TaskHand(h, o) /\ NothingElse
  BY <1>1 DEF ReadBinStock, IsAt, HouseInv, HandInv, View, PlaceInv
<1>0. PICK r : r = [op |-> "confirm", task |-> o.task, bin |-> o.bin,
                 total |-> inBin[o.bin][Task[o.task].sku] + Task[o.task].qty]
  OBVIOUS
<1>3. Proceed(h, r) /\ hand[h].op \notin {"confirmed", "tell"}
  BY <1>0, <1>1, <1>2 DEF ReadBinStock
<1>4. o.task \in Tasks /\ o.bin \in Bins
  BY <1>0, <1>2 DEF Shape, TaskOps, BinOps
<1>5. r.total \in Int
  BY <1>0, <1>4, WarehouseAssumption DEF HouseInv, HouseTypeOK
<1>6. Shape(r)
  BY <1>0, <1>4, <1>5 DEF Shape, TaskOps, BinOps, TransferOps, HandSteps
<1>7. TaskHand(h, r) /\ TransferHand(h, r) /\ Linked(r)
  BY <1>0, <1>2 DEF TaskHand, TransferHand, Linked, TaskOps, Planning, ShelfView, NothingElse, rows
<1>8. crossed \subseteq crossed'
  BY <1>0, <1>3 DEF Proceed
<1>9. ShelfView(r)' /\ TotalView(r)'
  BY <1>0, <1>2, <1>8 DEF ShelfView, TotalView, SkuIn, QtyIn, NothingElse, rows, bins
<1>10. View(r)'
  BY <1>0, <1>9 DEF View, TaskView, RoomView, LookView, InsertView, TakeView, CopyView
<1> QED
  BY <1>2, <1>3, <1>6, <1>7, <1>10, QuietStep

LEMMA AskTransferStep ==
    ASSUME HouseInv, NEW h \in Hands, NEW x \in Transfers, AskTransfer(h, x)
    PROVE  HouseInv'
<1>1. /\ hand[h] = Free /\ transfer[x] = "none" /\ NothingElse
      /\ \A g \in Hands : hand[g].op \in {"look", "insert"} => hand[g].transfer # x
  BY DEF AskTransfer
<1>2. PICK r : /\ r.op = "look" /\ r.transfer = x /\ Proceed(h, r)
               /\ \/ r.first = "stock" /\ r.seen = InBins(Asked[x].sku)
                  \/ r.first = "picks" /\ r.seen = OpenPicks(Asked[x].sku)
  BY DEF AskTransfer
<1>3. \A b \in Bins : inBin[b][Asked[x].sku] \in Int /\ Promised(b, Asked[x].sku) \in Int
  <2> SUFFICES ASSUME NEW b \in Bins
               PROVE  inBin[b][Asked[x].sku] \in Int /\ Promised(b, Asked[x].sku) \in Int
    OBVIOUS
  <2> DEFINE f == [y \in Transfers |-> IF Asked[y].sku = Asked[x].sku /\ IsOpen(y, b)
                                       THEN pick[<<y, b>>].qty ELSE 0]
  <2>1. Asked[x].sku \in Goods
    BY WarehouseAssumption
  <2>2. Ints(f, Transfers)
    BY DEF HouseInv, HouseTypeOK, Picks, Ints
  <2>3. Promised(b, Asked[x].sku) = SumFunctionOnSet(f, Transfers)
    BY DEF Promised
  <2> HIDE DEF f
  <2>4. Promised(b, Asked[x].sku) \in Int
    BY <2>2, <2>3, SumInt, WarehouseAssumption
  <2> QED
    BY <2>1, <2>4 DEF HouseInv, HouseTypeOK
<1>4. /\ r.seen \in [Bins -> Int] /\ r.first \in {"stock", "picks"}
      /\ \A b \in Bins : r.seen[b] = IF r.first = "stock" THEN inBin[b][Asked[x].sku]
                                     ELSE Promised(b, Asked[x].sku)
  BY <1>2, <1>3 DEF InBins, OpenPicks
<1>5. Shape(r)
  BY <1>2, <1>4 DEF Shape, TaskOps, BinOps, TransferOps, HandSteps
<1>6. TaskHand(h, r) /\ TransferHand(h, r) /\ Linked(r)
  BY <1>1, <1>2 DEF TaskHand, TransferHand, Linked, TaskOps, Planning
<1>7. \A b \in Bins : \A s : inBin'[b][s] = inBin[b][s] /\ Promised(b, s)' = Promised(b, s)
  BY <1>1, PromisedSame DEF NothingElse, bins, rows
<1>8. View(r)' /\ hand[h].op \notin {"confirmed", "tell"}
  BY <1>1, <1>2, <1>4, <1>7 DEF Free, View, TaskView, RoomView, ShelfView, TotalView, LookView,
              InsertView, TakeView, CopyView, SkuOut
<1> QED
  BY <1>1, <1>2, <1>5, <1>6, <1>8, QuietStep

(* What is read in two steps fits, if nobody else works on the bins.        *)
LEMMA FindSourcesStep ==
    ASSUME HouseInv, NEW h \in Hands, FindSources(h)
    PROVE  HouseInv'
<1>1. PICK o : o = hand[h]
  OBVIOUS
<1>2. /\ o.op = "look" /\ Shape(o) /\ LookView(o) /\ TransferHand(h, o) /\ NothingElse
      /\ hand[h].op \notin {"confirmed", "tell"}
  BY <1>1 DEF FindSources, IsAt, HouseInv, HandInv, View, PlaceInv
<1>3. PICK x \in Transfers : x = o.transfer
  BY <1>2 DEF Shape, TransferOps
<1>4. PICK s \in Goods : s = Asked[x].sku
  BY WarehouseAssumption
<1>5. /\ InBins(s) \in [Bins -> Int] /\ OpenPicks(s) \in [Bins -> Int] /\ o.seen \in [Bins -> Int]
      /\ o.first \in {"stock", "picks"}
  <2>1. \A b \in Bins : Promised(b, s) \in Int
    <3> SUFFICES ASSUME NEW b \in Bins PROVE Promised(b, s) \in Int
      OBVIOUS
    <3> DEFINE f == [y \in Transfers |-> IF Asked[y].sku = s /\ IsOpen(y, b)
                                         THEN pick[<<y, b>>].qty ELSE 0]
    <3>1. Ints(f, Transfers)
      BY DEF HouseInv, HouseTypeOK, Picks, Ints
    <3>2. Promised(b, s) = SumFunctionOnSet(f, Transfers)
      BY DEF Promised
    <3> HIDE DEF f
    <3> QED
      BY <3>1, <3>2, SumInt, WarehouseAssumption
  <2> QED
    BY <1>2, <2>1 DEF InBins, OpenPicks, HouseInv, HouseTypeOK, Shape
<1>6. PICK spare \in [Bins -> Nat] :
         /\ spare = IF o.first = "stock" THEN Spare(o.seen, OpenPicks(s)) ELSE Spare(InBins(s), o.seen)
         /\ \A b \in Bins \ crossed : spare[b] > 0 => spare[b] = inBin[b][s] - Promised(b, s)
  <2>1. CASE o.first = "stock"
    <3>1. Spare(o.seen, OpenPicks(s)) \in [Bins -> Nat]
          /\ \A b \in Bins : Spare(o.seen, OpenPicks(s))[b] > 0 =>
                Spare(o.seen, OpenPicks(s))[b] = o.seen[b] - OpenPicks(s)[b]
      BY <1>5, SpareOf
    <3>2. \A b \in Bins \ crossed : o.seen[b] = inBin[b][s]
      BY <1>2, <1>3, <1>4, <2>1 DEF LookView, SkuOut
    <3> QED
      BY <2>1, <3>1, <3>2 DEF OpenPicks
  <2>2. CASE o.first = "picks"
    <3>1. Spare(InBins(s), o.seen) \in [Bins -> Nat]
          /\ \A b \in Bins : Spare(InBins(s), o.seen)[b] > 0 =>
                Spare(InBins(s), o.seen)[b] = InBins(s)[b] - o.seen[b]
      BY <1>5, SpareOf
    <3>2. \A b \in Bins \ crossed : o.seen[b] = Promised(b, s)
      BY <1>2, <1>3, <1>4, <2>2 DEF LookView, SkuOut
    <3> QED
      BY <2>2, <3>1, <3>2 DEF InBins
  <2> QED
    BY <1>5, <2>1, <2>2
<1>7. PICK take : take = Take(x, spare)
  OBVIOUS
<1>8. /\ take \in [Bins -> Nat] /\ \A b \in Bins : take[b] <= spare[b]
      /\ SumFunctionOnSet(take, Bins) <= Asked[x].qty
  BY <1>7, TakeIsEnough
<1>9. /\ SumFunctionOnSet(take, Bins) < Asked[x].qty => Proceed(h, Free)
      /\ ~ (SumFunctionOnSet(take, Bins) < Asked[x].qty) =>
            Proceed(h, [op |-> "insert", transfer |-> x, take |-> take])
  BY <1>1, <1>3, <1>4, <1>6, <1>7 DEF FindSources, Leave
<1>10. CASE SumFunctionOnSet(take, Bins) < Asked[x].qty
  BY <1>2, <1>9, <1>10, FreeHand, QuietStep
<1>11. CASE ~ (SumFunctionOnSet(take, Bins) < Asked[x].qty)
  <2>1. PICK r : r = [op |-> "insert", transfer |-> x, take |-> take]
    OBVIOUS
  <2>2. Proceed(h, r) /\ crossed \subseteq crossed'
    BY <1>9, <1>11, <2>1 DEF Proceed
  <2>3. SumFunctionOnSet(take, Bins) = Asked[x].qty
    <3>1. SumFunctionOnSet(take, Bins) \in Nat /\ Asked[x].qty \in Nat
      BY <1>8, SumNat, WarehouseAssumption
    <3> QED
      BY <1>8, <1>11, <3>1
  <2>4. Shape(r)
    BY <1>8, <2>1 DEF Shape, TaskOps, BinOps, TransferOps, HandSteps
  <2>5. TaskHand(h, r) /\ TransferHand(h, r) /\ Linked(r)
    BY <1>2, <1>3, <2>1, <2>3 DEF TaskHand, TransferHand, Linked, TaskOps, Planning
  <2>6. InsertView(r)'
    <3> SUFFICES ASSUME NEW b \in Bins, b \notin crossed', take[b] > 0
                 PROVE  Promised(b, s)' + take[b] <= inBin'[b][s]
      BY <1>4, <2>1 DEF InsertView, SkuOut
    <3>1. spare[b] = inBin[b][s] - Promised(b, s)
      BY <1>6, <1>8, <2>2
    <3>2. Promised(b, s)' = Promised(b, s) /\ inBin' = inBin
      BY <1>2, PromisedSame DEF NothingElse, bins, rows
    <3>3. Promised(b, s) \in Int /\ inBin[b][s] \in Int /\ take[b] \in Nat /\ take[b] <= spare[b]
      BY <1>5, <1>8 DEF OpenPicks, InBins
    <3> QED
      BY <3>1, <3>2, <3>3
  <2>7. View(r)'
    BY <2>1, <2>6 DEF View, TaskView, RoomView, ShelfView, TotalView, LookView, TakeView, CopyView
  <2> QED
    BY <1>2, <2>2, <2>4, <2>5, <2>7, QuietStep
<1> QED
  BY <1>10, <1>11

LEMMA AskPickStep ==
    ASSUME HouseInv, NEW h \in Hands, NEW x \in Transfers, NEW b \in Bins, AskPick(h, x, b)
    PROVE  HouseInv'
<1>1. hand[h] = Free /\ NothingElse /\ hand[h].op \notin {"confirmed", "tell"}
  BY DEF AskPick, Free
<1>2. CASE pick[<<x, b>>].status = "PENDING" /\ Proceed(h,
             [op |-> "take", transfer |-> x, bin |-> b, held |-> inBin[b][Asked[x].sku]])
  <2>1. PICK r : r = [op |-> "take", transfer |-> x, bin |-> b, held |-> inBin[b][Asked[x].sku]]
    OBVIOUS
  <2>2. inBin[b][Asked[x].sku] \in Int
    BY WarehouseAssumption DEF HouseInv, HouseTypeOK
  <2>3. Shape(r)
    BY <2>1, <2>2 DEF Shape, TaskOps, BinOps, TransferOps, HandSteps
  <2>4. transfer[x] # "none"
    BY <1>2 DEF HouseInv, TransferRows
  <2>5. TaskHand(h, r) /\ TransferHand(h, r) /\ Linked(r)
    BY <2>1, <2>4 DEF TaskHand, TransferHand, Linked, TaskOps, Planning
  <2>6. View(r)'
    BY <1>1, <1>2, <2>1 DEF View, TaskView, RoomView, ShelfView, TotalView, LookView, InsertView,
                            TakeView, CopyView, IsOpen, SkuOut, NothingElse, bins, rows
  <2> QED
    BY <1>1, <1>2, <2>1, <2>3, <2>5, <2>6, QuietStep
<1>3. CASE transfer[x] = "PICKING" /\ Proceed(h, [op |-> "finish", transfer |-> x])
  <2>1. PICK r : r = [op |-> "finish", transfer |-> x]
    OBVIOUS
  <2>2. Shape(r)
    BY <2>1 DEF Shape, TaskOps, BinOps, TransferOps, HandSteps
  <2>3. TaskHand(h, r) /\ TransferHand(h, r) /\ Linked(r)
    BY <1>3, <2>1 DEF TaskHand, TransferHand, Linked, TaskOps, Planning
  <2> QED
    BY <1>1, <1>3, <2>1, <2>2, <2>3, NoView, QuietStep
<1> QED
  BY <1>2, <1>3 DEF AskPick

LEMMA CheckTransferStep ==
    ASSUME HouseInv, NEW h \in Hands, CheckTransfer(h)
    PROVE  HouseInv'
<1>1. PICK o : o = hand[h]
  OBVIOUS
<1>2. /\ o.op = "finish" /\ Shape(o) /\ TransferHand(h, o) /\ NothingElse
      /\ hand[h].op \notin {"confirmed", "tell"}
  BY <1>1 DEF CheckTransfer, IsAt, HouseInv, HandInv, PlaceInv
<1>3. CASE Proceed(h, Free)
  BY <1>2, <1>3, FreeHand, QuietStep
<1>4. CASE AllPicked(o.transfer) /\ Proceed(h, [op |-> "publish", transfer |-> o.transfer])
  <2>1. PICK r : r = [op |-> "publish", transfer |-> o.transfer]
    OBVIOUS
  <2>2. Shape(r)
    BY <1>2, <2>1 DEF Shape, TaskOps, BinOps, TransferOps, HandSteps
  <2>3. TaskHand(h, r) /\ TransferHand(h, r) /\ Linked(r)
    BY <1>2, <1>4, <2>1 DEF TaskHand, TransferHand, Linked, TaskOps, Planning
  <2> QED
    BY <1>2, <1>4, <2>1, <2>2, <2>3, NoView, QuietStep
<1> QED
  BY <1>1, <1>3, <1>4 DEF CheckTransfer, Leave

-----------------------------------------------------------------------------
(* Steps that write.  What the sums become when one of their terms does.    *)
RowsTyped ==
    /\ used \in [Bins -> Int]
    /\ inBin \in [Bins -> [Goods -> Int]] /\ copy \in [Bins -> [Goods -> Int]]
    /\ task \in [Tasks -> [status : {"none", "PENDING", "COMPLETED"},
                           bin : Bins \cup {Nowhere}, reserved : Nat]]
    /\ pick \in [Picks -> [status : {"none", "PENDING", "PICKED"}, qty : Nat]]
    /\ transfer \in [Transfers -> {"none", "PICKING", "COMPLETED"}]
    /\ sent \in [Transfers -> Nat]
    /\ failures \in 0..MaxFailures

Held(k, b) == IF k.status = "PENDING" /\ k.bin = b THEN k.reserved ELSE 0
LEMMA ReservedMoves ==
    ASSUME RowsTyped, RowsTyped', NEW t \in Tasks, \A u \in Tasks \ {t} : task'[u] = task[u],
           NEW b \in Bins
    PROVE  /\ Reserved(b) \in Int
           /\ Reserved(b)' = Reserved(b) - Held(task[t], b) + Held(task'[t], b)
<1>1. PICK f : f = [u \in Tasks |-> Held(task[u], b)]
  OBVIOUS
<1>2. PICK g : g = [u \in Tasks |-> Held(task'[u], b)]
  OBVIOUS
<1>3. Reserved(b) = SumFunctionOnSet(f, Tasks)
  BY <1>1 DEF Reserved, Held
<1>4. Reserved(b)' = SumFunctionOnSet(g, Tasks)
  BY <1>2 DEF Reserved, Held
<1>5. Ints(f, Tasks) /\ Ints(g, Tasks)
  BY <1>1, <1>2 DEF Ints, RowsTyped, Held
<1>6. \A u \in Tasks \ {t} : f[u] = g[u]
  BY <1>1, <1>2
<1>7. SumFunctionOnSet(g, Tasks) = SumFunctionOnSet(f, Tasks) - f[t] + g[t]
  BY <1>5, <1>6, SumChange, WarehouseAssumption
<1>8. SumFunctionOnSet(f, Tasks) \in Int
  BY <1>5, SumInt, WarehouseAssumption
<1> QED
  BY <1>1, <1>2, <1>3, <1>4, <1>7, <1>8

LEMMA RoomMoves ==
    ASSUME NEW units \in [Goods -> Int], NEW now \in [Goods -> Int], NEW s \in Goods,
           \A k \in Goods \ {s} : now[k] = units[k]
    PROVE  /\ Room(units) \in Int
           /\ Room(now) = Room(units) - units[s] * Size[s] + now[s] * Size[s]
<1>1. PICK f : f = [k \in Goods |-> units[k] * Size[k]]
  OBVIOUS
<1>2. PICK g : g = [k \in Goods |-> now[k] * Size[k]]
  OBVIOUS
<1>3. Ints(f, Goods) /\ Ints(g, Goods)
  BY <1>1, <1>2, WarehouseAssumption DEF Ints
<1>4. \A k \in Goods \ {s} : f[k] = g[k]
  BY <1>1, <1>2
<1>5. SumFunctionOnSet(g, Goods) = SumFunctionOnSet(f, Goods) - f[s] + g[s]
  BY <1>3, <1>4, SumChange, WarehouseAssumption
<1>6. SumFunctionOnSet(f, Goods) \in Int
  BY <1>3, SumInt, WarehouseAssumption
<1> QED
  BY <1>1, <1>2, <1>5, <1>6 DEF Room

LEMMA ReservedInt == ASSUME RowsTyped, NEW b \in Bins PROVE Reserved(b) \in Int
<1>1. PICK f : f = [u \in Tasks |-> Held(task[u], b)]
  OBVIOUS
<1>2. Ints(f, Tasks)
  BY <1>1 DEF Ints, RowsTyped, Held
<1> QED
  BY <1>1, <1>2, SumInt, WarehouseAssumption DEF Reserved, Held

LEMMA RoomInt == ASSUME NEW units \in [Goods -> Int] PROVE Room(units) \in Int
<1>1. PICK f : f = [k \in Goods |-> units[k] * Size[k]]
  OBVIOUS
<1>2. Ints(f, Goods)
  BY <1>1, WarehouseAssumption DEF Ints
<1> QED
  BY <1>1, <1>2, SumInt, WarehouseAssumption DEF Room

Due(x, b, s) == IF Asked[x].sku = s /\ IsOpen(x, b) THEN pick[<<x, b>>].qty ELSE 0
LEMMA PromisedMoves ==
    ASSUME RowsTyped, RowsTyped', NEW b \in Bins, NEW s \in Goods, NEW x \in Transfers,
           \A y \in Transfers \ {x} : pick'[<<y, b>>] = pick[<<y, b>>]
    PROVE  /\ Promised(b, s) \in Int
           /\ Promised(b, s)' = Promised(b, s) - Due(x, b, s) + Due(x, b, s)'
<1>1. PICK f : f = [y \in Transfers |-> Due(y, b, s)]
  OBVIOUS
<1>2. PICK g : g = [y \in Transfers |-> Due(y, b, s)']
  OBVIOUS
<1>3. Promised(b, s) = SumFunctionOnSet(f, Transfers)
  BY <1>1 DEF Promised, Due
<1>4. Promised(b, s)' = SumFunctionOnSet(g, Transfers)
  BY <1>2 DEF Promised, Due
<1>5. Ints(f, Transfers) /\ Ints(g, Transfers)
  BY <1>1, <1>2 DEF Ints, RowsTyped, Due, Picks
<1>6. \A y \in Transfers \ {x} : f[y] = g[y]
  BY <1>1, <1>2 DEF Due, IsOpen
<1>7. SumFunctionOnSet(g, Transfers) = SumFunctionOnSet(f, Transfers) - f[x] + g[x]
  BY <1>5, <1>6, SumChange, WarehouseAssumption
<1>8. SumFunctionOnSet(f, Transfers) \in Int
  BY <1>5, SumInt, WarehouseAssumption
<1> QED
  BY <1>1, <1>2, <1>3, <1>4, <1>7, <1>8

(* A hand at something crossed is at crossed things only; at anything else  *)
(* it is alone.                                                             *)
LEMMA AtCrossed ==
    ASSUME HouseInv, NEW h \in Hands, NEW e \in Touches(hand[h]), e \in crossed
    PROVE  Touches(hand[h]) \subseteq crossed
BY DEF HouseInv, Apart, Alone

LEMMA NoneBeside ==
    ASSUME HouseInv, NEW h \in Hands, NEW b \in Touches(hand[h]), b \notin crossed,
           NEW g \in Hands \ {h}
    PROVE  /\ b \notin Touches(hand[g])
           /\ hand[g].op \in BinOps => hand[g].bin # b
<1>1. b \notin Touches(hand[g])
  BY DEF HouseInv, Apart, Alone
<1>2. PICK q : q = hand[g]
  OBVIOUS
<1>3. Shape(q)
  BY <1>2 DEF HouseInv, HandInv
<1> QED
  BY <1>1, <1>2, <1>3, TouchesTyped

(* What nobody tells Inventory about and nobody else works on is as copied. *)
LEMMA CopyBefore ==
    ASSUME HouseInv, NEW h \in Hands, NEW b \in Bins, b \in Touches(hand[h]), b \notin crossed,
           hand[h].op \notin {"confirmed", "tell"}, failures = 0
    PROVE  copy[b] = inBin[b]
<1>1. \A g \in Hands : hand[g].op \in {"confirmed", "tell"} => hand[g].bin # b
  BY NoneBeside DEF BinOps
<1> QED
  BY <1>1 DEF HouseInv, CopyIsRight

LEMMA WriteStep ==
    ASSUME HouseInv, NEW h \in Hands, NEW r, HandStep(h, r), RowsTyped', View(r)', Linked(r),
           TaskHand(h, r)', TransferHand(h, r)', StatusMoves(h), TransferMoves(h),
           r.op # "find",
           \A t \in Tasks \cap crossed : task'[t].bin \in crossed' \cup {Nowhere},
           TaskRows', TransferRows', RoomIsAccounted', PromisesAreKept', CopyIsRight'
    PROVE  HouseInv'
<1>1. /\ Apart' /\ crossed' \subseteq Bins \cup Tasks
      /\ \A g \in Hands : hand'[g].op \in HandSteps
      /\ HandInv'
  BY HandsGoOn
<1>2. HouseTypeOK'
  BY <1>1 DEF HouseTypeOK, RowsTyped
<1>3. PlaceInv'
  BY PlacesStay
<1>4. TaskBins'
  BY TaskBinsStay
<1> QED
  BY <1>1, <1>2, <1>3, <1>4 DEF HouseInv

(* What a step that leaves the picks, or the tasks, alone keeps.            *)
LEMMA PicksAlone ==
    ASSUME HouseInv, NEW h, UNCHANGED <<pick, transfer, sent>>
    PROVE  /\ TransferRows' /\ TransferMoves(h) /\ \A x : AllPicked(x)' = AllPicked(x)
           /\ \A b, s : Promised(b, s)' = Promised(b, s)
           /\ \A b \in Bins : \A s \in Goods : Promised(b, s) \in Int
<1>1. TransferRows' /\ TransferMoves(h) /\ \A x : AllPicked(x)' = AllPicked(x)
  BY DEF HouseInv, TransferRows, TransferMoves, AllPicked, IsOpen, Picked
<1>2. \A b, s : Promised(b, s)' = Promised(b, s)
  BY PromisedSame
<1>3. ASSUME NEW b \in Bins, NEW s \in Goods PROVE Promised(b, s) \in Int
  <2>1. PICK f : f = [y \in Transfers |-> Due(y, b, s)]
    OBVIOUS
  <2>2. Promised(b, s) = SumFunctionOnSet(f, Transfers)
    BY <2>1 DEF Promised, Due
  <2>3. Ints(f, Transfers)
    BY <2>1 DEF Ints, HouseInv, HouseTypeOK, Due, Picks
  <2> QED
    BY <2>2, <2>3, SumInt, WarehouseAssumption
<1> QED
  BY <1>1, <1>2, <1>3

LEMMA TasksAlone ==
    ASSUME HouseInv, NEW h, UNCHANGED task, crossed \subseteq crossed'
    PROVE  /\ TaskRows' /\ StatusMoves(h)
           /\ \A t \in Tasks \cap crossed : task'[t].bin \in crossed' \cup {Nowhere}
           /\ \A b : Reserved(b)' = Reserved(b)
BY DEF HouseInv, TaskRows, TaskBins, StatusMoves, Reserved, Footprint

LEMMA CreateTaskStep ==
    ASSUME HouseInv, CreateTask
    PROVE  HouseInv'
<1>1. PICK h \in Hands : h = Consumer
  BY WarehouseAssumption
<1>2. PICK o : o = hand[h]
  OBVIOUS
<1>3. o.op = "find" /\ Shape(o) /\ TaskHand(h, o)
  BY <1>1, <1>2 DEF CreateTask, IsAt, HouseInv, HandInv, PlaceInv
<1>4. PICK t \in Tasks : t = o.task
  BY <1>3 DEF Shape
<1>5. PICK r : r = [op |-> "choose", task |-> t, bin |-> Nowhere, held |-> 0, asked |-> Nowhere]
  OBVIOUS
<1>6. /\ task' = [task EXCEPT ![t].status = "PENDING"] /\ Proceed(h, r)
      /\ UNCHANGED <<used, inBin, copy>> /\ UNCHANGED <<pick, transfer, sent>> /\ UNCHANGED failures
  <2>1. /\ UNCHANGED <<used, inBin, copy>> /\ UNCHANGED <<pick, transfer, sent>>
        /\ UNCHANGED failures
    BY <1>1 DEF CreateTask, bins
  <2>2. task' = [task EXCEPT ![t].status = "PENDING"]
    BY <1>1, <1>2, <1>4 DEF CreateTask
  <2>3. Proceed(h, r)
    <3>1. hand[Consumer].task = t
      BY <1>1, <1>2, <1>4
    <3>2. Proceed(Consumer, [op |-> "choose", task |-> hand[Consumer].task, bin |-> Nowhere,
                             held |-> 0, asked |-> Nowhere])
      BY <1>1 DEF CreateTask
    <3>3. Proceed(Consumer, r)
      BY <1>5, <3>1, <3>2
    <3> QED
      BY <1>1, <3>3
  <2> QED
    BY <2>1, <2>2, <2>3
<1>7. RowsTyped /\ RowsTyped'
  BY <1>6 DEF HouseInv, HouseTypeOK, RowsTyped
<1>8. task[t] = NoTask /\ task'[t] = [status |-> "PENDING", bin |-> Nowhere, reserved |-> 0]
  <2>1. task[t] = NoTask
    BY <1>3, <1>4 DEF TaskHand, HouseInv, TaskRows
  <2> QED
    BY <1>6, <1>7, <2>1 DEF NoTask, RowsTyped
<1>9. \A u \in Tasks \ {t} : task'[u] = task[u]
  BY <1>6, <1>7 DEF RowsTyped
<1>10. t \in Touches(o)
  BY <1>3, <1>4, TouchesTyped
<1>11. HandStep(h, r)
  BY <1>2, <1>5, <1>6, <1>9, <1>10 DEF HandStep, Frame, Shape, TaskOps, BinOps, TransferOps, HandSteps
<1>12. crossed \subseteq crossed'
  BY <1>11, HandsGoOn
<1>13. View(r)' /\ Linked(r) /\ TaskHand(h, r)' /\ TransferHand(h, r)'
  BY <1>5, <1>8 DEF View, TaskView, RoomView, ShelfView, TotalView, LookView, InsertView, TakeView,
                    CopyView, Linked, TaskHand, TransferHand, Planning
<1>14. StatusMoves(h) /\ TaskRows'
  BY <1>1, <1>8, <1>9 DEF StatusMoves, HouseInv, TaskRows, Footprint
<1>15. /\ TransferRows' /\ TransferMoves(h) /\ \A b, s : Promised(b, s)' = Promised(b, s)
  BY <1>6, PicksAlone
<1>16. \A u \in Tasks \cap crossed : task'[u].bin \in crossed' \cup {Nowhere}
  BY <1>8, <1>9, <1>12 DEF HouseInv, TaskBins
<1>17. \A b \in Bins : Reserved(b)' = Reserved(b)
  <2> SUFFICES ASSUME NEW b \in Bins PROVE Reserved(b)' = Reserved(b)
    OBVIOUS
  <2>1. /\ Reserved(b) \in Int
        /\ Reserved(b)' = Reserved(b) - Held(task[t], b) + Held(task'[t], b)
    BY <1>7, <1>9, ReservedMoves
  <2>2. Held(task[t], b) = 0 /\ Held(task'[t], b) = 0
    BY <1>8 DEF Held, NoTask
  <2> QED
    BY <2>1, <2>2
<1>18. RoomIsAccounted' /\ PromisesAreKept' /\ CopyIsRight'
  <2>1. RoomIsAccounted' /\ PromisesAreKept'
    BY <1>6, <1>12, <1>15, <1>17 DEF HouseInv, RoomIsAccounted, PromisesAreKept
  <2>2. \A g \in Hands \ {h} : hand'[g] = hand[g]
    BY <1>11, HandsGoOn
  <2>3. CopyIsRight'
    BY <1>2, <1>3, <1>6, <1>12, <2>2 DEF HouseInv, CopyIsRight
  <2> QED
    BY <2>1, <2>3
<1> QED
  BY <1>5, <1>7, <1>11, <1>13, <1>14, <1>15, <1>16, <1>18, WriteStep

(* The reservation moves with the task, and its new bin has room for it.    *)
LEMMA AssignBinStep ==
    ASSUME HouseInv, NEW h \in Hands, AssignBin(h)
    PROVE  HouseInv'
<1>1. PICK o : o = hand[h]
  OBVIOUS
<1>2. o.op = "assign" /\ Shape(o) /\ TaskHand(h, o) /\ TaskView(o) /\ RoomView(o)
  BY <1>1 DEF AssignBin, IsAt, HouseInv, HandInv, View, PlaceInv
<1>3. PICK t \in Tasks : t = o.task
  BY <1>2 DEF Shape, TaskOps
<1>4. PICK to \in Bins : to = o.to
  BY <1>2 DEF Shape
<1>5. o.bin \in Bins \cup {Nowhere} /\ o.held \in Nat /\ Footprint(t) \in Nat /\ to # Nowhere
  BY <1>2, WarehouseAssumption DEF Shape, Footprint
<1>6. /\ Proceed(h, Free)
      /\ used' = IF o.bin = to THEN used ELSE [b \in Bins |->
                    CASE b = to -> used[b] + Footprint(t)
                      [] b = o.bin -> used[b] - o.held
                      [] OTHER -> used[b]]
      /\ task' = [task EXCEPT ![t].bin = to, ![t].reserved = Footprint(t)]
      /\ UNCHANGED <<inBin, copy>> /\ UNCHANGED <<pick, transfer, sent>> /\ UNCHANGED failures
  BY <1>1, <1>3, <1>4 DEF AssignBin, Leave
<1>7. RowsTyped
  BY DEF HouseInv, HouseTypeOK, RowsTyped
<1>8. /\ task'[t] = [status |-> task[t].status, bin |-> to, reserved |-> Footprint(t)]
      /\ \A u \in Tasks \ {t} : task'[u] = task[u]
  <2>1. DOMAIN task = Tasks /\ task = [u \in Tasks |-> task[u]]
    BY <1>7 DEF RowsTyped
  <2>2. task[t] = [status |-> task[t].status, bin |-> task[t].bin, reserved |-> task[t].reserved]
    BY <1>7 DEF RowsTyped
  <2>3. task'[t] = [task[t] EXCEPT !.bin = to, !.reserved = Footprint(t)]
    BY <1>6, <2>1
  <2>4. \A u \in Tasks \ {t} : task'[u] = task[u]
    BY <1>6, <2>1
  <2> QED
    BY <2>2, <2>3, <2>4
<1>9. /\ used' \in [Bins -> Int]
      /\ \A b \in Bins : used'[b] = IF o.bin = to THEN used[b]
                                    ELSE IF b = to THEN used[b] + Footprint(t)
                                    ELSE IF b = o.bin THEN used[b] - o.held ELSE used[b]
  BY <1>5, <1>6, <1>7 DEF RowsTyped
<1>10. RowsTyped'
  <2>1. task' \in [Tasks -> [status : {"none", "PENDING", "COMPLETED"},
                           bin : Bins \cup {Nowhere}, reserved : Nat]]
    <3>1. task' = [u \in Tasks |-> task'[u]]
      BY <1>6, <1>7 DEF RowsTyped
    <3>2. task[t].status \in {"none", "PENDING", "COMPLETED"}
      BY <1>7 DEF RowsTyped
    <3>3. ASSUME NEW u \in Tasks
          PROVE  task'[u] \in [status : {"none", "PENDING", "COMPLETED"},
                               bin : Bins \cup {Nowhere}, reserved : Nat]
      <4>1. CASE u = t
        BY <1>5, <1>8, <3>2, <4>1
      <4>2. CASE u # t
        BY <1>7, <1>8, <4>2 DEF RowsTyped
      <4> QED
        BY <4>1, <4>2
    <3> QED
      BY <3>1, <3>3
  <2> QED
    BY <1>6, <1>7, <1>9, <2>1 DEF RowsTyped
<1>11. t \in Touches(o) /\ to \in Touches(o) /\ (o.bin # Nowhere => o.bin \in Touches(o))
  BY <1>2, <1>3, <1>4, TouchesTyped DEF TaskOps
<1>12. HandStep(h, Free)
  <2>1. ASSUME NEW b \in Bins \ Touches(o) PROVE used'[b] = used[b]
    <3>1. b # to /\ b # o.bin
      BY <1>11, WarehouseAssumption
    <3> QED
      BY <1>9, <3>1
  <2> QED
    BY <1>1, <1>6, <1>8, <1>11, <2>1, FreeHand DEF HandStep, Frame
<1>13. crossed \subseteq crossed' /\ \A g \in Hands \ {h} : hand'[g] = hand[g]
  BY <1>12, HandsGoOn
<1>14. task[t].status # "none"
  BY <1>2, <1>3 DEF TaskHand, TaskOps
<1>15. StatusMoves(h) /\ TaskRows'
  BY <1>5, <1>8, <1>14 DEF StatusMoves, HouseInv, TaskRows, Footprint
<1>16. TransferRows' /\ TransferMoves(h) /\ \A b, s : Promised(b, s)' = Promised(b, s)
  BY <1>6, PicksAlone
<1>17. t \in crossed => to \in crossed /\ o.bin \in crossed \cup {Nowhere}
                        /\ task[t].bin \in crossed \cup {Nowhere}
  BY <1>1, <1>11, AtCrossed DEF HouseInv, TaskBins
<1>18. \A u \in Tasks \cap crossed : task'[u].bin \in crossed' \cup {Nowhere}
  BY <1>8, <1>13, <1>17 DEF HouseInv, TaskBins
<1>19. RoomIsAccounted'
  <2> SUFFICES ASSUME NEW b \in Bins \ crossed'
               PROVE  used'[b] = Reserved(b)' + Room(inBin[b]) /\ used'[b] <= Capacity[b]
    BY <1>6 DEF RoomIsAccounted
  <2>1. used[b] = Reserved(b) + Room(inBin[b]) /\ used[b] <= Capacity[b]
    BY <1>13 DEF HouseInv, RoomIsAccounted
  <2>2. /\ Reserved(b) \in Int
        /\ Reserved(b)' = Reserved(b) - Held(task[t], b) + Held(task'[t], b)
    BY <1>7, <1>8, <1>10, ReservedMoves
  <2>3. Room(inBin[b]) \in Int /\ Capacity[b] \in Int /\ used[b] \in Int
    <3>1. inBin[b] \in [Goods -> Int]
      BY <1>7 DEF RowsTyped
    <3> QED
      BY <1>7, <3>1, WarehouseAssumption, RoomInt DEF RowsTyped
  <2>4. CASE t \in crossed
    <3>1. to # b /\ o.bin # b /\ task[t].bin # b
      <4>1. b \notin crossed /\ b # Nowhere
        BY <1>13, WarehouseAssumption
      <4> QED
        BY <1>17, <2>4, <4>1
    <3>2. Held(task[t], b) = 0 /\ Held(task'[t], b) = 0 /\ used'[b] = used[b]
      BY <1>8, <1>9, <3>1 DEF Held
    <3> QED
      BY <2>1, <2>2, <2>3, <3>2
  <2>5. CASE t \notin crossed
    <3>1. task[t].status = "PENDING" /\ task[t].bin = o.bin /\ task[t].reserved = o.held
      BY <1>2, <1>3, <2>5 DEF TaskView
    <3>2. o.bin = to => o.held = Footprint(t)
      BY <1>5, <3>1 DEF HouseInv, TaskRows
    <3>3. /\ Held(task[t], b) = IF b = o.bin THEN o.held ELSE 0
          /\ Held(task'[t], b) = IF b = to THEN Footprint(t) ELSE 0
      BY <1>8, <3>1 DEF Held
    <3>4. b = to /\ o.bin # to => used[b] + Footprint(t) <= Capacity[b]
      <4>1. o.to \notin crossed /\ b = to /\ o.bin # to => Capacity[b] - used[b] + 0 >= Footprint(t)
        BY <1>2, <1>3, <1>4 DEF RoomView, RoomIn
      <4> QED
        BY <1>4, <1>5, <1>13, <2>3, <4>1
    <3> QED
      BY <1>5, <1>9, <2>1, <2>2, <2>3, <3>2, <3>3, <3>4
  <2> QED
    BY <2>4, <2>5
<1>20. PromisesAreKept' /\ CopyIsRight'
  BY <1>1, <1>2, <1>6, <1>13, <1>16 DEF HouseInv, PromisesAreKept, CopyIsRight
<1> QED
  BY <1>10, <1>12, <1>15, <1>16, <1>18, <1>19, <1>20, WriteStep, FreeHand

LEMMA ConfirmStep ==
    ASSUME HouseInv, NEW h \in Hands, Confirm(h)
    PROVE  HouseInv'
<1>1. PICK o : o = hand[h]
  OBVIOUS
<1>2. o.op = "confirm" /\ Shape(o) /\ TaskHand(h, o) /\ ShelfView(o) /\ TotalView(o)
  BY <1>1 DEF Confirm, IsAt, HouseInv, HandInv, View, PlaceInv
<1>3. PICK b \in Bins : b = o.bin
  BY <1>2 DEF Shape, BinOps
<1>4. PICK s \in Goods : s = SkuIn(o)
  BY <1>2, WarehouseAssumption DEF Shape, TaskOps, SkuIn
<1>5. PICK r : r = [op |-> "confirmed", task |-> o.task, bin |-> b]
  OBVIOUS
<1>6. /\ copy' = [copy EXCEPT ![b][s] = o.total] /\ Proceed(h, r)
      /\ UNCHANGED <<used, inBin>> /\ UNCHANGED task /\ UNCHANGED <<pick, transfer, sent>>
      /\ UNCHANGED failures
  BY <1>1, <1>3, <1>4, <1>5 DEF Confirm, SkuIn, rows
<1>7. RowsTyped
  BY DEF HouseInv, HouseTypeOK, RowsTyped
<1>8. /\ copy' \in [Bins -> [Goods -> Int]] /\ copy'[b] = [copy[b] EXCEPT ![s] = o.total]
      /\ \A c \in Bins \ {b} : copy'[c] = copy[c]
  BY <1>2, <1>6, <1>7 DEF RowsTyped, Shape
<1>9. RowsTyped'
  BY <1>6, <1>7, <1>8 DEF RowsTyped
<1>10. b \in Touches(o) /\ o.task \in Tasks
  BY <1>2, <1>3, TouchesTyped DEF BinOps, Shape, TaskOps
<1>11. HandStep(h, r)
  <2>1. Shape(r)
    BY <1>5, <1>10 DEF Shape, TaskOps, BinOps, TransferOps, HandSteps
  <2> QED
    BY <1>1, <1>6, <1>8, <1>10, <2>1 DEF HandStep, Frame
<1>12. crossed \subseteq crossed' /\ hand'[h] = r /\ \A g \in Hands \ {h} : hand'[g] = hand[g]
  BY <1>11, HandsGoOn
<1>13. /\ TaskRows' /\ StatusMoves(h)
       /\ \A t \in Tasks \cap crossed : task'[t].bin \in crossed' \cup {Nowhere}
       /\ \A c : Reserved(c)' = Reserved(c)
  BY <1>6, <1>12, TasksAlone
<1>14. TransferRows' /\ TransferMoves(h) /\ \A c, k : Promised(c, k)' = Promised(c, k)
  BY <1>6, PicksAlone
<1>15. TaskHand(h, r)' /\ TransferHand(h, r)' /\ Linked(r)
  BY <1>2, <1>3, <1>5, <1>6, <1>12 DEF TaskHand, TransferHand, Linked, TaskOps, Planning, ShelfView
<1>16. View(r)'
  <2>1. ShelfView(r)'
    BY <1>2, <1>3, <1>5, <1>6, <1>12 DEF ShelfView
  <2>2. CopyView(r)'
    <3> SUFFICES ASSUME failures = 0, b \notin crossed'
                 PROVE  copy'[b] = [inBin[b] EXCEPT ![s] = @ + QtyIn(o)]
      BY <1>4, <1>5, <1>6 DEF CopyView, SkuIn, QtyIn
    <3>1. copy[b] = inBin[b]
      BY <1>1, <1>2, <1>10, <1>12, CopyBefore
    <3>2. o.total = inBin[b][s] + QtyIn(o)
      BY <1>2, <1>3, <1>4, <1>12 DEF TotalView
    <3> QED
      BY <1>8, <3>1, <3>2
  <2> QED
    BY <1>5, <2>1, <2>2 DEF View, TaskView, RoomView, TotalView, LookView, InsertView, TakeView
<1>17. RoomIsAccounted' /\ PromisesAreKept'
  BY <1>6, <1>12, <1>13, <1>14 DEF HouseInv, RoomIsAccounted, PromisesAreKept
<1>18. CopyIsRight'
  <2> SUFFICES ASSUME failures' = 0, NEW c \in Bins \ crossed',
                      \A g \in Hands : hand'[g].op \in {"confirmed", "tell"} => hand'[g].bin # c
               PROVE  copy'[c] = inBin'[c]
    BY DEF CopyIsRight
  <2>1. c # b
    BY <1>5, <1>12
  <2>2. \A g \in Hands : hand[g].op \in {"confirmed", "tell"} => hand[g].bin # c
    BY <1>1, <1>2, <1>12
  <2>3. copy[c] = inBin[c]
    BY <1>6, <1>12, <2>2 DEF HouseInv, CopyIsRight
  <2> QED
    BY <1>6, <1>8, <2>1, <2>3
<1> QED
  BY <1>5, <1>9, <1>11, <1>13, <1>14, <1>15, <1>16, <1>17, <1>18, WriteStep

(* What a task reserved becomes stock of its bin.                           *)
LEMMA ShelveStep ==
    ASSUME HouseInv, NEW h \in Hands, Shelve(h)
    PROVE  HouseInv'
<1>1. PICK o : o = hand[h]
  OBVIOUS
<1>2. o.op = "confirmed" /\ Shape(o) /\ TaskHand(h, o) /\ ShelfView(o) /\ CopyView(o)
  BY <1>1 DEF Shelve, IsAt, HouseInv, HandInv, View, PlaceInv
<1>3. PICK t \in Tasks : t = o.task
  BY <1>2 DEF Shape, TaskOps
<1>4. PICK b \in Bins : b = o.bin
  BY <1>2 DEF Shape, BinOps
<1>5. PICK s \in Goods : s = Task[t].sku
  BY WarehouseAssumption
<1>6. PICK q \in Nat : q = Task[t].qty
  BY WarehouseAssumption
<1>7. /\ task' = [task EXCEPT ![t].status = "COMPLETED"]
      /\ inBin' = [inBin EXCEPT ![b][s] = @ + q] /\ Proceed(h, Free)
      /\ UNCHANGED used /\ UNCHANGED copy /\ UNCHANGED <<pick, transfer, sent>> /\ UNCHANGED failures
  BY <1>1, <1>3, <1>4, <1>5, <1>6 DEF Shelve, Leave
<1>8. RowsTyped
  BY DEF HouseInv, HouseTypeOK, RowsTyped
<1>9. /\ task'[t] = [status |-> "COMPLETED", bin |-> task[t].bin, reserved |-> task[t].reserved]
      /\ \A u \in Tasks \ {t} : task'[u] = task[u]
  BY <1>7, <1>8 DEF RowsTyped
<1>10. /\ inBin' \in [Bins -> [Goods -> Int]] /\ inBin'[b] = [inBin[b] EXCEPT ![s] = @ + q]
       /\ \A c \in Bins \ {b} : inBin'[c] = inBin[c]
  BY <1>7, <1>8 DEF RowsTyped
<1>11. RowsTyped'
  <2>1. task' = [u \in Tasks |-> task'[u]]
    BY <1>7, <1>8 DEF RowsTyped
  <2>2. \A u \in Tasks : task'[u] \in [status : {"none", "PENDING", "COMPLETED"},
                                      bin : Bins \cup {Nowhere}, reserved : Nat]
    BY <1>8, <1>9 DEF RowsTyped
  <2>3. task' \in [Tasks -> [status : {"none", "PENDING", "COMPLETED"},
                           bin : Bins \cup {Nowhere}, reserved : Nat]]
    BY <2>1, <2>2
  <2> QED
    BY <1>7, <1>8, <1>10, <2>3 DEF RowsTyped
<1>12. b \in Touches(o) /\ t \in Touches(o)
  BY <1>2, <1>3, <1>4, TouchesTyped DEF BinOps, TaskOps
<1>13. HandStep(h, Free)
  BY <1>1, <1>7, <1>9, <1>10, <1>12, FreeHand DEF HandStep, Frame
<1>14. crossed \subseteq crossed' /\ \A g \in Hands \ {h} : hand'[g] = hand[g]
  BY <1>13, HandsGoOn
<1>15. task[t].status # "none"
  BY <1>2, <1>3 DEF TaskHand, TaskOps
<1>16. StatusMoves(h) /\ TaskRows'
  BY <1>9, <1>15 DEF StatusMoves, HouseInv, TaskRows, Footprint
<1>17. \A u \in Tasks \cap crossed : task'[u].bin \in crossed' \cup {Nowhere}
  BY <1>9, <1>14 DEF HouseInv, TaskBins
<1>18. /\ TransferRows' /\ TransferMoves(h) /\ \A c, k : Promised(c, k)' = Promised(c, k)
       /\ \A c \in Bins : \A k \in Goods : Promised(c, k) \in Int
  BY <1>7, PicksAlone
<1>19. b \notin crossed => /\ t \notin crossed /\ task[t].status = "PENDING" /\ task[t].bin = b
                           /\ task[t].reserved = q * Size[s]
  <2>1. b \notin crossed => t \notin crossed
    BY <1>1, <1>12, AtCrossed
  <2>2. t \notin crossed => task[t].status = "PENDING" /\ task[t].bin = b
    BY <1>2, <1>3, <1>4 DEF ShelfView
  <2>3. task[t].bin = b => task[t].reserved = Footprint(t)
    BY WarehouseAssumption DEF HouseInv, TaskRows
  <2>4. Footprint(t) = q * Size[s]
    <3>1. Size[s] \in Nat
      BY WarehouseAssumption
    <3> QED
      BY <1>5, <1>6, <3>1 DEF Footprint
  <2> QED
    BY <2>1, <2>2, <2>3, <2>4
<1>20. \A c \in Bins \ crossed : c # b => task[t].bin # c
  <2> SUFFICES ASSUME NEW c \in Bins \ crossed, c # b PROVE task[t].bin # c
    OBVIOUS
  <2>1. CASE t \in crossed
    <3>1. task[t].bin \in crossed \cup {Nowhere} /\ c # Nowhere
      BY <2>1, WarehouseAssumption DEF HouseInv, TaskBins
    <3> QED
      BY <3>1
  <2>2. CASE t \notin crossed
    BY <1>2, <1>3, <1>4, <2>2 DEF ShelfView
  <2> QED
    BY <2>1, <2>2
<1>21. RoomIsAccounted'
  <2> SUFFICES ASSUME NEW c \in Bins \ crossed'
               PROVE  used'[c] = Reserved(c)' + Room(inBin'[c]) /\ used'[c] <= Capacity[c]
    BY DEF RoomIsAccounted, Room
  <2>1. used[c] = Reserved(c) + Room(inBin[c]) /\ used[c] <= Capacity[c]
    BY <1>14 DEF HouseInv, RoomIsAccounted
  <2>2. /\ Reserved(c) \in Int
        /\ Reserved(c)' = Reserved(c) - Held(task[t], c) + Held(task'[t], c)
    BY <1>8, <1>9, <1>11, ReservedMoves
  <2>3. Held(task'[t], c) = 0
    BY <1>9 DEF Held
  <2>4. CASE c = b
    <3>1. Held(task[t], c) = q * Size[s]
      BY <1>14, <1>19, <2>4 DEF Held
    <3>2. /\ inBin[c] \in [Goods -> Int] /\ inBin'[c] \in [Goods -> Int]
          /\ \A k \in Goods \ {s} : inBin'[c][k] = inBin[c][k]
          /\ inBin'[c][s] = inBin[c][s] + q
      BY <1>8, <1>10, <2>4 DEF RowsTyped
    <3>3. /\ Room(inBin[c]) \in Int
          /\ Room(inBin'[c]) = Room(inBin[c]) - inBin[c][s] * Size[s] + inBin'[c][s] * Size[s]
      BY <3>2, RoomMoves
    <3>4. \A i, j, n \in Int : (i + j) * n = i * n + j * n /\ i * n \in Int
      OBVIOUS
    <3>5. Size[s] \in Int /\ inBin[c][s] \in Int /\ q \in Int
      BY <3>2, WarehouseAssumption
    <3>6. Room(inBin'[c]) = Room(inBin[c]) + q * Size[s] /\ q * Size[s] \in Int
      BY <3>2, <3>3, <3>4, <3>5
    <3> QED
      BY <1>7, <2>1, <2>2, <2>3, <3>1, <3>3, <3>6
  <2>5. CASE c # b
    <3>1. Held(task[t], c) = 0
      BY <1>14, <1>20, <2>5 DEF Held
    <3> QED
      BY <1>7, <1>10, <2>1, <2>2, <2>3, <2>5, <3>1
  <2> QED
    BY <2>4, <2>5
<1>22. PromisesAreKept'
  <2> SUFFICES ASSUME NEW c \in Bins \ crossed', NEW k \in Goods
               PROVE  Promised(c, k) <= inBin'[c][k]
    BY <1>18 DEF PromisesAreKept
  <2>1. Promised(c, k) <= inBin[c][k] /\ Promised(c, k) \in Int
    BY <1>14, <1>18 DEF HouseInv, PromisesAreKept
  <2>2. inBin[c][k] \in Int /\ inBin'[c][k] \in Int /\ inBin[c][k] <= inBin'[c][k]
    <3>1. inBin[c] \in [Goods -> Int]
      BY <1>8 DEF RowsTyped
    <3>2. inBin'[c] = inBin[c] \/ inBin'[c] = [inBin[c] EXCEPT ![s] = @ + q]
      BY <1>10
    <3> QED
      BY <3>1, <3>2
  <2> QED
    BY <2>1, <2>2
<1>23. CopyIsRight'
  <2> SUFFICES ASSUME failures' = 0, NEW c \in Bins \ crossed',
                      \A g \in Hands : hand'[g].op \in {"confirmed", "tell"} => hand'[g].bin # c
               PROVE  copy'[c] = inBin'[c]
    BY DEF CopyIsRight
  <2>1. CASE c = b
    <3>1. copy[b] = [inBin[b] EXCEPT ![s] = @ + q]
      BY <1>2, <1>3, <1>4, <1>5, <1>6, <1>7, <1>14, <2>1 DEF CopyView, SkuIn, QtyIn
    <3> QED
      BY <1>7, <1>10, <2>1, <3>1
  <2>2. CASE c # b
    <3>1. \A g \in Hands : hand[g].op \in {"confirmed", "tell"} => hand[g].bin # c
      BY <1>1, <1>4, <1>14, <2>2
    <3>2. copy[c] = inBin[c]
      BY <1>7, <1>14, <3>1 DEF HouseInv, CopyIsRight
    <3> QED
      BY <1>7, <1>10, <2>2, <3>2
  <2> QED
    BY <2>1, <2>2
<1> QED
  BY <1>11, <1>13, <1>16, <1>17, <1>18, <1>21, <1>22, <1>23, WriteStep, FreeHand

(* Picks are made where the stock has room for them beside the open ones.   *)
LEMMA InsertTransferStep ==
    ASSUME HouseInv, NEW h \in Hands, InsertTransfer(h)
    PROVE  HouseInv'
<1>1. PICK o : o = hand[h]
  OBVIOUS
<1>2. o.op = "insert" /\ Shape(o) /\ InsertView(o) /\ TransferHand(h, o)
  BY <1>1 DEF InsertTransfer, IsAt, HouseInv, HandInv, View, PlaceInv
<1>3. PICK x \in Transfers : x = o.transfer
  BY <1>2 DEF Shape, TransferOps
<1>4. PICK take \in [Bins -> Nat] : take = o.take
  BY <1>2 DEF Shape
<1>5. /\ transfer' = [transfer EXCEPT ![x] = "PICKING"]
      /\ pick' = [p \in Picks |-> IF p[1] = x /\ take[p[2]] > 0
                                  THEN [status |-> "PENDING", qty |-> take[p[2]]]
                                  ELSE pick[p]]
      /\ Proceed(h, Free)
      /\ UNCHANGED <<used, inBin, copy>> /\ UNCHANGED task /\ UNCHANGED sent /\ UNCHANGED failures
  BY <1>1, <1>3, <1>4 DEF InsertTransfer, Leave, bins
<1>6. RowsTyped
  BY DEF HouseInv, HouseTypeOK, RowsTyped
<1>7. transfer[x] = "none" /\ \A b \in Bins : pick[<<x, b>>] = [status |-> "none", qty |-> 0]
  BY <1>2, <1>3 DEF TransferHand, Planning, HouseInv, TransferRows
<1>8. \A y \in Transfers, b \in Bins :
         pick'[<<y, b>>] = IF y = x /\ take[b] > 0 THEN [status |-> "PENDING", qty |-> take[b]]
                           ELSE pick[<<y, b>>]
  BY <1>5 DEF Picks
<1>9. RowsTyped'
  <2>1. pick' \in [Picks -> [status : {"none", "PENDING", "PICKED"}, qty : Nat]]
    BY <1>5, <1>6 DEF RowsTyped, Picks
  <2> QED
    BY <1>5, <1>6, <2>1 DEF RowsTyped
<1>10. Touches(o) = {b \in Bins : take[b] > 0}
  BY <1>2, <1>4, TouchesOf
<1>11. HandStep(h, Free)
  <2>1. \A b \in Bins \ Touches(hand[h]), y \in Transfers : pick'[<<y, b>>] = pick[<<y, b>>]
    BY <1>1, <1>8, <1>10
  <2>2. Frame(h)
    BY <1>5, <2>1 DEF Frame
  <2> QED
    BY <1>5, <2>2, FreeHand DEF HandStep
<1>12. crossed \subseteq crossed' /\ \A g \in Hands \ {h} : hand'[g] = hand[g]
  BY <1>11, HandsGoOn
<1>13. /\ TaskRows' /\ StatusMoves(h)
       /\ \A t \in Tasks \cap crossed : task'[t].bin \in crossed' \cup {Nowhere}
       /\ \A c : Reserved(c)' = Reserved(c)
  BY <1>5, <1>12, TasksAlone
<1>14. \A y \in Transfers \ {x} : /\ \A b \in Bins : pick'[<<y, b>>] = pick[<<y, b>>]
                                  /\ transfer'[y] = transfer[y]
                                  /\ AllPicked(y)' = AllPicked(y) /\ Picked(y)' = Picked(y)
  <2> SUFFICES ASSUME NEW y \in Transfers \ {x}
               PROVE  /\ \A b \in Bins : pick'[<<y, b>>] = pick[<<y, b>>]
                      /\ transfer'[y] = transfer[y]
                      /\ AllPicked(y)' = AllPicked(y) /\ Picked(y)' = Picked(y)
    OBVIOUS
  <2>1. \A b \in Bins : pick'[<<y, b>>] = pick[<<y, b>>]
    BY <1>8
  <2>2. transfer'[y] = transfer[y]
    BY <1>5, <1>6 DEF RowsTyped
  <2> QED
    BY <2>1, <2>2, PickedSame
<1>15. transfer'[x] = "PICKING"
  BY <1>5, <1>6 DEF RowsTyped
<1>16. TransferMoves(h)
  BY <1>1, <1>2, <1>3, <1>5, <1>7, <1>14 DEF TransferMoves
<1>17. TransferRows'
  <2>1. Picked(x)' = Asked[x].qty
    <3>1. \A b \in Bins : pick'[<<x, b>>].qty = take[b]
      <4> SUFFICES ASSUME NEW b \in Bins PROVE pick'[<<x, b>>].qty = take[b]
        OBVIOUS
      <4>1. take[b] \in Nat
        OBVIOUS
      <4> QED
        <5>1. CASE take[b] > 0
          <6>1. pick'[<<x, b>>] = [status |-> "PENDING", qty |-> take[b]]
            BY <1>8, <5>1
          <6> QED
            BY <6>1
        <5>2. CASE ~ (take[b] > 0)
          <6>1. pick'[<<x, b>>] = pick[<<x, b>>]
            BY <1>8, <5>2
          <6> QED
            BY <1>7, <4>1, <5>2, <6>1
        <5> QED
          BY <5>1, <5>2
    <3>2. PICK f : f = [b \in Bins |-> pick'[<<x, b>>].qty]
      OBVIOUS
    <3>3. SumFunctionOnSet(f, Bins) = SumFunctionOnSet(take, Bins)
      <4>1. \A b \in Bins : f[b] = take[b]
        BY <3>1, <3>2
      <4> QED
        BY <4>1, SumSame, WarehouseAssumption
    <3> QED
      BY <1>2, <1>3, <1>4, <3>2, <3>3 DEF TransferHand, Picked
  <2>2. ~ (sent[x] > 0)
    BY <1>7 DEF HouseInv, TransferRows
  <2> QED
    BY <1>5, <1>14, <1>15, <2>1, <2>2 DEF HouseInv, TransferRows
<1>18. RoomIsAccounted'
  BY <1>5, <1>12, <1>13 DEF HouseInv, RoomIsAccounted
<1>19. PromisesAreKept'
  <2> SUFFICES ASSUME NEW b \in Bins \ crossed', NEW s \in Goods
               PROVE  Promised(b, s)' <= inBin[b][s]
    BY <1>5 DEF PromisesAreKept
  <2>1. /\ Promised(b, s) \in Int
        /\ Promised(b, s)' = Promised(b, s) - Due(x, b, s) + Due(x, b, s)'
    BY <1>6, <1>9, <1>14, PromisedMoves
  <2>2. Promised(b, s) <= inBin[b][s]
    BY <1>12 DEF HouseInv, PromisesAreKept
  <2>3. Due(x, b, s) = 0
    BY <1>7 DEF Due, IsOpen
  <2>4. Due(x, b, s)' = IF Asked[x].sku = s /\ take[b] > 0 THEN take[b] ELSE 0
    <3>1. pick'[<<x, b>>] = IF take[b] > 0 THEN [status |-> "PENDING", qty |-> take[b]]
                            ELSE [status |-> "none", qty |-> 0]
      BY <1>7, <1>8
    <3> QED
      BY <3>1 DEF Due, IsOpen
  <2>5. Asked[x].sku = s /\ take[b] > 0 => Promised(b, s) + take[b] <= inBin[b][s]
    BY <1>2, <1>3, <1>4, <1>12 DEF InsertView, SkuOut
  <2> QED
    BY <2>1, <2>2, <2>3, <2>4, <2>5
<1>20. CopyIsRight'
  BY <1>1, <1>2, <1>5, <1>12 DEF HouseInv, CopyIsRight
<1> QED
  BY <1>9, <1>11, <1>13, <1>16, <1>17, <1>18, <1>19, <1>20, WriteStep, FreeHand

LEMMA TakePickStep ==
    ASSUME HouseInv, NEW h \in Hands, TakePick(h)
    PROVE  HouseInv'
<1>1. PICK o : o = hand[h]
  OBVIOUS
<1>2. o.op = "take" /\ Shape(o) /\ TakeView(o) /\ TransferHand(h, o)
  BY <1>1 DEF TakePick, IsAt, HouseInv, HandInv, View, PlaceInv
<1>3. PICK x \in Transfers : x = o.transfer
  BY <1>2 DEF Shape, TransferOps
<1>4. PICK b \in Bins : b = o.bin
  BY <1>2 DEF Shape, BinOps
<1>5. PICK s \in Goods : s = Asked[x].sku
  BY WarehouseAssumption
<1>6. RowsTyped
  BY DEF HouseInv, HouseTypeOK, RowsTyped
<1>7. PICK q \in Nat : q = pick[<<x, b>>].qty
  BY <1>6 DEF RowsTyped, Picks
<1>8. PICK r : r = [op |-> "tell", transfer |-> x, bin |-> b, left |-> o.held - q]
  OBVIOUS
<1>9. /\ pick' = [pick EXCEPT ![<<x, b>>].status = "PICKED"]
      /\ inBin' = [inBin EXCEPT ![b][s] = @ - q]
      /\ used' = [used EXCEPT ![b] = @ - q * Size[s]] /\ Proceed(h, r)
      /\ UNCHANGED copy /\ UNCHANGED task /\ UNCHANGED <<transfer, sent>> /\ UNCHANGED failures
  BY <1>1, <1>3, <1>4, <1>5, <1>7, <1>8 DEF TakePick
<1>10. Size[s] \in Nat /\ q * Size[s] \in Nat
  <2>1. Size[s] \in Nat
    BY WarehouseAssumption
  <2>2. \A i, j \in Nat : i * j \in Nat
    OBVIOUS
  <2> QED
    BY <2>1, <2>2
<1>11. /\ pick'[<<x, b>>] = [status |-> "PICKED", qty |-> q]
       /\ \A p \in Picks \ {<<x, b>>} : pick'[p] = pick[p]
       /\ pick' \in [Picks -> [status : {"none", "PENDING", "PICKED"}, qty : Nat]]
  <2>1. <<x, b>> \in Picks
    BY DEF Picks
  <2>2. pick = [p \in Picks |-> pick[p]]
    BY <1>6 DEF RowsTyped
  <2>3. pick[<<x, b>>] = [status |-> pick[<<x, b>>].status, qty |-> q]
    BY <1>6, <1>7, <2>1 DEF RowsTyped
  <2>4. pick' = [p \in Picks |-> pick'[p]] /\ \A p \in Picks \ {<<x, b>>} : pick'[p] = pick[p]
    BY <1>9, <2>2
  <2>5. pick'[<<x, b>>] = [pick[<<x, b>>] EXCEPT !.status = "PICKED"]
    BY <1>9, <2>1, <2>2
  <2>6. pick'[<<x, b>>] = [status |-> "PICKED", qty |-> q]
    BY <2>3, <2>5
  <2>7. \A p \in Picks : pick'[p] \in [status : {"none", "PENDING", "PICKED"}, qty : Nat]
    <3>1. \A p \in Picks : pick[p] \in [status : {"none", "PENDING", "PICKED"}, qty : Nat]
      BY <1>6 DEF RowsTyped
    <3> QED
      BY <2>4, <2>6, <3>1
  <2> QED
    BY <2>4, <2>6, <2>7
<1>12. /\ inBin' \in [Bins -> [Goods -> Int]] /\ inBin'[b] = [inBin[b] EXCEPT ![s] = @ - q]
       /\ \A c \in Bins \ {b} : inBin'[c] = inBin[c]
  BY <1>6, <1>9 DEF RowsTyped
<1>13. /\ used' \in [Bins -> Int] /\ used'[b] = used[b] - q * Size[s]
       /\ \A c \in Bins \ {b} : used'[c] = used[c]
  BY <1>6, <1>9, <1>10 DEF RowsTyped
<1>14. RowsTyped'
  BY <1>6, <1>9, <1>11, <1>12, <1>13 DEF RowsTyped
<1>15. b \in Touches(o)
  BY <1>2, <1>4, TouchesTyped DEF BinOps
<1>16. HandStep(h, r)
  <2>1. o.held \in Int
    BY <1>2 DEF Shape
  <2>2. Shape(r)
    BY <1>8, <2>1 DEF Shape, TaskOps, BinOps, TransferOps, HandSteps
  <2>3. \A c \in Bins \ {b} : \A y \in Transfers : pick'[<<y, c>>] = pick[<<y, c>>]
    BY <1>11 DEF Picks
  <2> QED
    BY <1>1, <1>9, <1>12, <1>13, <1>15, <2>2, <2>3 DEF HandStep, Frame
<1>17. crossed \subseteq crossed' /\ hand'[h] = r /\ \A g \in Hands \ {h} : hand'[g] = hand[g]
  BY <1>16, HandsGoOn
<1>18. /\ TaskRows' /\ StatusMoves(h)
       /\ \A t \in Tasks \cap crossed : task'[t].bin \in crossed' \cup {Nowhere}
       /\ \A c : Reserved(c)' = Reserved(c)
  BY <1>9, <1>17, TasksAlone
<1>19. \A y \in Transfers : Picked(y)' = Picked(y) /\ (AllPicked(y) => AllPicked(y)')
  <2> SUFFICES ASSUME NEW y \in Transfers
               PROVE  Picked(y)' = Picked(y) /\ (AllPicked(y) => AllPicked(y)')
    OBVIOUS
  <2>1. \A c \in Bins : pick'[<<y, c>>].qty = pick[<<y, c>>].qty
                        /\ (IsOpen(y, c)' => IsOpen(y, c))
    BY <1>7, <1>11 DEF Picks, IsOpen
  <2>2. PICK f : f = [c \in Bins |-> pick[<<y, c>>].qty]
    OBVIOUS
  <2>3. PICK g : g = [c \in Bins |-> pick'[<<y, c>>].qty]
    OBVIOUS
  <2>4. f = g
    BY <2>1, <2>2, <2>3
  <2> QED
    BY <2>1, <2>2, <2>3, <2>4 DEF Picked, AllPicked
<1>20. transfer[x] # "none"
  BY <1>2, <1>3 DEF TransferHand
<1>21. TransferMoves(h)
  BY <1>9, <1>19 DEF TransferMoves
<1>22. TransferRows'
  <2>1. \A y \in Transfers : y # x => \A c \in Bins : pick'[<<y, c>>] = pick[<<y, c>>]
    BY <1>11 DEF Picks
  <2> QED
    BY <1>9, <1>19, <1>20, <2>1 DEF HouseInv, TransferRows
<1>23. TaskHand(h, r)' /\ TransferHand(h, r)' /\ Linked(r)
  BY <1>8, <1>9, <1>20 DEF TaskHand, TransferHand, Linked, TaskOps, Planning
<1>24. b \notin crossed => IsOpen(x, b) /\ o.held = inBin[b][s]
  BY <1>2, <1>3, <1>4, <1>5 DEF TakeView, SkuOut
<1>25. View(r)'
  <2>1. CopyView(r)'
    <3> SUFFICES ASSUME failures = 0, b \notin crossed'
                 PROVE  inBin'[b] = [copy[b] EXCEPT ![s] = o.held - q]
      BY <1>5, <1>8, <1>9 DEF CopyView, SkuOut
    <3>1. copy[b] = inBin[b]
      BY <1>1, <1>2, <1>15, <1>17, CopyBefore
    <3> QED
      BY <1>12, <1>17, <1>24, <3>1
  <2> QED
    BY <1>8, <2>1 DEF View, TaskView, RoomView, ShelfView, TotalView, LookView, InsertView, TakeView
<1>26. RoomIsAccounted'
  <2> SUFFICES ASSUME NEW c \in Bins \ crossed'
               PROVE  used'[c] = Reserved(c) + Room(inBin'[c]) /\ used'[c] <= Capacity[c]
    BY <1>18 DEF RoomIsAccounted, Room
  <2>1. used[c] = Reserved(c) + Room(inBin[c]) /\ used[c] <= Capacity[c]
    BY <1>17 DEF HouseInv, RoomIsAccounted
  <2>2. CASE c = b
    <3>1. /\ inBin[c] \in [Goods -> Int] /\ inBin'[c] \in [Goods -> Int]
          /\ \A k \in Goods \ {s} : inBin'[c][k] = inBin[c][k]
          /\ inBin'[c][s] = inBin[c][s] - q
      BY <1>6, <1>12, <2>2 DEF RowsTyped
    <3>2. /\ Room(inBin[c]) \in Int
          /\ Room(inBin'[c]) = Room(inBin[c]) - inBin[c][s] * Size[s] + inBin'[c][s] * Size[s]
      BY <3>1, RoomMoves
    <3>3. \A i, j, n \in Int : (i - j) * n = i * n - j * n /\ i * n \in Int
      OBVIOUS
    <3>4. inBin[c][s] \in Int
      BY <3>1
    <3>5. Room(inBin'[c]) = Room(inBin[c]) - q * Size[s]
      BY <1>10, <3>1, <3>2, <3>3, <3>4
    <3>6. Capacity[c] \in Int /\ used[c] \in Int /\ Reserved(c) \in Int
      <4>1. Reserved(c) \in Int
        BY <1>6, ReservedInt
      <4> QED
        BY <1>6, <4>1, WarehouseAssumption DEF RowsTyped
    <3> QED
      BY <1>10, <1>13, <2>1, <2>2, <3>2, <3>5, <3>6
  <2>3. CASE c # b
    BY <1>12, <1>13, <2>1, <2>3
  <2> QED
    BY <2>2, <2>3
<1>27. PromisesAreKept'
  <2> SUFFICES ASSUME NEW c \in Bins \ crossed', NEW k \in Goods
               PROVE  Promised(c, k)' <= inBin'[c][k]
    BY DEF PromisesAreKept
  <2>1. Promised(c, k) <= inBin[c][k] /\ inBin[c][k] \in Int
    BY <1>6, <1>17 DEF HouseInv, PromisesAreKept, RowsTyped
  <2>2. CASE c # b
    <3>1. Promised(c, k)' = Promised(c, k)
      BY <1>11, <2>2, PromisedSame DEF Picks
    <3> QED
      BY <1>12, <2>1, <2>2, <3>1
  <2>3. CASE c = b
    <3>1. \A y \in Transfers \ {x} : pick'[<<y, c>>] = pick[<<y, c>>]
      BY <1>11 DEF Picks
    <3>2. /\ Promised(c, k) \in Int
          /\ Promised(c, k)' = Promised(c, k) - Due(x, c, k) + Due(x, c, k)'
      BY <1>6, <1>14, <3>1, PromisedMoves
    <3>3. Due(x, c, k)' = 0
      BY <1>11, <2>3 DEF Due, IsOpen
    <3>4. Due(x, c, k) = IF k = s THEN q ELSE 0
      BY <1>5, <1>7, <1>17, <1>24, <2>3 DEF Due
    <3>5. inBin'[c][k] = IF k = s THEN inBin[c][k] - q ELSE inBin[c][k]
      BY <1>6, <1>12, <2>3 DEF RowsTyped
    <3> QED
      BY <2>1, <3>2, <3>3, <3>4, <3>5
  <2> QED
    BY <2>2, <2>3
<1>28. CopyIsRight'
  <2> SUFFICES ASSUME failures' = 0, NEW c \in Bins \ crossed',
                      \A g \in Hands : hand'[g].op \in {"confirmed", "tell"} => hand'[g].bin # c
               PROVE  copy'[c] = inBin'[c]
    BY DEF CopyIsRight
  <2>1. c # b
    BY <1>8, <1>17
  <2>2. \A g \in Hands : hand[g].op \in {"confirmed", "tell"} => hand[g].bin # c
    BY <1>1, <1>2, <1>17
  <2>3. copy[c] = inBin[c]
    BY <1>9, <1>17, <2>2 DEF HouseInv, CopyIsRight
  <2> QED
    BY <1>9, <1>12, <2>1, <2>3
<1> QED
  BY <1>8, <1>14, <1>16, <1>18, <1>21, <1>22, <1>23, <1>25, <1>26, <1>27, <1>28, WriteStep

LEMMA TellInventoryStep ==
    ASSUME HouseInv, NEW h \in Hands, TellInventory(h)
    PROVE  HouseInv'
<1>1. PICK o : o = hand[h]
  OBVIOUS
<1>2. o.op = "tell" /\ Shape(o) /\ CopyView(o) /\ TransferHand(h, o)
  BY <1>1 DEF TellInventory, IsAt, HouseInv, HandInv, View, PlaceInv
<1>3. PICK x \in Transfers : x = o.transfer
  BY <1>2 DEF Shape, TransferOps
<1>4. PICK b \in Bins : b = o.bin
  BY <1>2 DEF Shape, BinOps
<1>5. PICK s \in Goods : s = Asked[x].sku
  BY WarehouseAssumption
<1>6. RowsTyped
  BY DEF HouseInv, HouseTypeOK, RowsTyped
<1>7. PICK r : r = [op |-> "finish", transfer |-> x]
  OBVIOUS
<1>8. /\ \/ copy' = [copy EXCEPT ![b][s] = o.left] /\ failures' = failures
         \/ copy' = copy /\ failures < MaxFailures /\ failures' = failures + 1
      /\ Proceed(h, r) /\ UNCHANGED <<used, inBin>>
      /\ UNCHANGED task /\ UNCHANGED <<pick, transfer, sent>>
  BY <1>1, <1>3, <1>4, <1>5, <1>7 DEF TellInventory, Fails, rows
<1>9. /\ copy' \in [Bins -> [Goods -> Int]] /\ \A c \in Bins \ {b} : copy'[c] = copy[c]
      /\ failures' = failures => copy'[b] = [copy[b] EXCEPT ![s] = o.left]
  <2>1. o.left \in Int /\ copy \in [Bins -> [Goods -> Int]]
    BY <1>2, <1>6 DEF RowsTyped, Shape
  <2>2. CASE copy' = [copy EXCEPT ![b][s] = o.left]
    BY <2>1, <2>2
  <2>3. CASE copy' = copy /\ failures' = failures + 1
    <3>1. failures' # failures
      BY <1>6, <2>3 DEF RowsTyped
    <3> QED
      BY <2>1, <2>3, <3>1
  <2> QED
    BY <1>8, <2>2, <2>3
<1>10. failures' \in 0..MaxFailures /\ (failures' = 0 => failures = 0)
  BY <1>6, <1>8, WarehouseAssumption DEF RowsTyped
<1>11. RowsTyped'
  BY <1>6, <1>8, <1>9, <1>10 DEF RowsTyped
<1>12. b \in Touches(o)
  BY <1>2, <1>4, TouchesTyped DEF BinOps
<1>13. HandStep(h, r)
  <2>1. Shape(r)
    BY <1>7 DEF Shape, TaskOps, BinOps, TransferOps, HandSteps
  <2> QED
    BY <1>1, <1>8, <1>9, <1>10, <1>12, <2>1 DEF HandStep, Frame
<1>14. crossed \subseteq crossed' /\ hand'[h] = r /\ \A g \in Hands \ {h} : hand'[g] = hand[g]
  BY <1>13, HandsGoOn
<1>15. /\ TaskRows' /\ StatusMoves(h)
       /\ \A t \in Tasks \cap crossed : task'[t].bin \in crossed' \cup {Nowhere}
       /\ \A c : Reserved(c)' = Reserved(c)
  BY <1>8, <1>14, TasksAlone
<1>16. TransferRows' /\ TransferMoves(h) /\ \A c, k : Promised(c, k)' = Promised(c, k)
  BY <1>8, PicksAlone
<1>17. TaskHand(h, r)' /\ TransferHand(h, r)' /\ Linked(r)
  BY <1>2, <1>3, <1>7, <1>8 DEF TaskHand, TransferHand, Linked, TaskOps, Planning
<1>18. View(r)'
  BY <1>7, NoView
<1>19. RoomIsAccounted' /\ PromisesAreKept'
  BY <1>8, <1>14, <1>15, <1>16 DEF HouseInv, RoomIsAccounted, PromisesAreKept
<1>20. CopyIsRight'
  <2> SUFFICES ASSUME failures' = 0, NEW c \in Bins \ crossed',
                      \A g \in Hands : hand'[g].op \in {"confirmed", "tell"} => hand'[g].bin # c
               PROVE  copy'[c] = inBin'[c]
    BY DEF CopyIsRight
  <2>1. CASE c = b
    <3>1. failures = 0 /\ failures' = failures /\ c \notin crossed
      BY <1>10, <1>14
    <3> QED
      BY <1>2, <1>3, <1>4, <1>5, <1>8, <1>9, <2>1, <3>1 DEF CopyView, SkuOut
  <2>2. CASE c # b
    <3>1. \A g \in Hands : hand[g].op \in {"confirmed", "tell"} => hand[g].bin # c
      BY <1>1, <1>4, <1>14, <2>2
    <3>2. copy[c] = inBin[c]
      BY <1>10, <1>14, <3>1 DEF HouseInv, CopyIsRight
    <3> QED
      BY <1>8, <1>9, <2>2, <3>2
  <2> QED
    BY <2>1, <2>2
<1> QED
  BY <1>7, <1>11, <1>13, <1>15, <1>16, <1>17, <1>18, <1>19, <1>20, WriteStep

LEMMA PublishTransferStep ==
    ASSUME HouseInv, NEW h \in Hands, PublishTransfer(h)
    PROVE  HouseInv'
<1>1. PICK o : o = hand[h]
  OBVIOUS
<1>2. o.op = "publish" /\ Shape(o) /\ TransferHand(h, o)
  BY <1>1 DEF PublishTransfer, IsAt, HouseInv, HandInv, PlaceInv
<1>3. PICK x \in Transfers : x = o.transfer
  BY <1>2 DEF Shape, TransferOps
<1>4. RowsTyped
  BY DEF HouseInv, HouseTypeOK, RowsTyped
<1>5. PICK r : r = [op |-> "complete", transfer |-> x]
  OBVIOUS
<1>6. /\ sent' = [sent EXCEPT ![x] = @ + 1] /\ Proceed(h, r) /\ UNCHANGED <<used, inBin, copy>>
      /\ UNCHANGED task /\ UNCHANGED pick /\ UNCHANGED transfer /\ UNCHANGED failures
  BY <1>1, <1>3, <1>5 DEF PublishTransfer, bins
<1>7. RowsTyped' /\ sent'[x] > 0 /\ \A y \in Transfers \ {x} : sent'[y] = sent[y]
  BY <1>4, <1>6 DEF RowsTyped
<1>8. HandStep(h, r)
  <2>1. Shape(r)
    BY <1>5 DEF Shape, TaskOps, BinOps, TransferOps, HandSteps
  <2> QED
    BY <1>6, <2>1 DEF HandStep, Frame
<1>9. crossed \subseteq crossed' /\ \A g \in Hands \ {h} : hand'[g] = hand[g]
  BY <1>8, HandsGoOn
<1>10. /\ TaskRows' /\ StatusMoves(h)
       /\ \A t \in Tasks \cap crossed : task'[t].bin \in crossed' \cup {Nowhere}
       /\ \A c : Reserved(c)' = Reserved(c)
  BY <1>6, <1>9, TasksAlone
<1>11. \A c, k : Promised(c, k)' = Promised(c, k)
  BY <1>6, PromisedSame
<1>12. \A y : AllPicked(y)' = AllPicked(y) /\ Picked(y)' = Picked(y)
  BY <1>6 DEF AllPicked, IsOpen, Picked
<1>13. TransferMoves(h)
  BY <1>6, <1>7, <1>12 DEF TransferMoves
<1>14. transfer[x] # "none" /\ AllPicked(x)
  BY <1>2, <1>3 DEF TransferHand
<1>15. TransferRows'
  BY <1>6, <1>7, <1>12, <1>14 DEF HouseInv, TransferRows
<1>16. TaskHand(h, r)' /\ TransferHand(h, r)' /\ Linked(r)
  BY <1>5, <1>6, <1>7, <1>12, <1>14 DEF TaskHand, TransferHand, Linked, TaskOps, Planning
<1>17. View(r)'
  BY <1>5, NoView
<1>18. RoomIsAccounted' /\ PromisesAreKept' /\ CopyIsRight'
  BY <1>1, <1>2, <1>6, <1>9, <1>10, <1>11 DEF HouseInv, RoomIsAccounted, PromisesAreKept, CopyIsRight
<1> QED
  BY <1>5, <1>7, <1>8, <1>10, <1>13, <1>15, <1>16, <1>17, <1>18, WriteStep

LEMMA CompleteTransferStep ==
    ASSUME HouseInv, NEW h \in Hands, CompleteTransfer(h)
    PROVE  HouseInv'
<1>1. PICK o : o = hand[h]
  OBVIOUS
<1>2. o.op = "complete" /\ Shape(o) /\ TransferHand(h, o)
  BY <1>1 DEF CompleteTransfer, IsAt, HouseInv, HandInv, PlaceInv
<1>3. PICK x \in Transfers : x = o.transfer
  BY <1>2 DEF Shape, TransferOps
<1>4. RowsTyped
  BY DEF HouseInv, HouseTypeOK, RowsTyped
<1>6. /\ transfer' = [transfer EXCEPT ![x] = "COMPLETED"] /\ Proceed(h, Free)
      /\ UNCHANGED <<used, inBin, copy>>
      /\ UNCHANGED task /\ UNCHANGED pick /\ UNCHANGED sent /\ UNCHANGED failures
  BY <1>1, <1>3 DEF CompleteTransfer, bins, Leave
<1>7. /\ RowsTyped' /\ transfer'[x] = "COMPLETED"
      /\ \A y \in Transfers \ {x} : transfer'[y] = transfer[y]
  BY <1>4, <1>6 DEF RowsTyped
<1>8. HandStep(h, Free)
  BY <1>6, FreeHand DEF HandStep, Frame
<1>9. crossed \subseteq crossed' /\ \A g \in Hands \ {h} : hand'[g] = hand[g]
  BY <1>8, HandsGoOn
<1>10. /\ TaskRows' /\ StatusMoves(h)
       /\ \A t \in Tasks \cap crossed : task'[t].bin \in crossed' \cup {Nowhere}
       /\ \A c : Reserved(c)' = Reserved(c)
  BY <1>6, <1>9, TasksAlone
<1>11. \A c, k : Promised(c, k)' = Promised(c, k)
  BY <1>6, PromisedSame
<1>12. \A y : AllPicked(y)' = AllPicked(y) /\ Picked(y)' = Picked(y)
  BY <1>6 DEF AllPicked, IsOpen, Picked
<1>13. transfer[x] # "none" /\ sent[x] > 0
  BY <1>2, <1>3 DEF TransferHand
<1>14. TransferMoves(h)
  BY <1>6, <1>7, <1>12, <1>13 DEF TransferMoves
<1>15. TransferRows'
  BY <1>6, <1>7, <1>12, <1>13 DEF HouseInv, TransferRows
<1>18. RoomIsAccounted' /\ PromisesAreKept' /\ CopyIsRight'
  BY <1>1, <1>2, <1>6, <1>9, <1>10, <1>11 DEF HouseInv, RoomIsAccounted, PromisesAreKept, CopyIsRight
<1> QED
  BY <1>7, <1>8, <1>10, <1>14, <1>15, <1>18, FreeHand, WriteStep

(* A hand that fails leaves every sum as it is; the copy may be told, and   *)
(* nothing is promised about it from then on.                               *)
LEMMA HandFailsStep ==
    ASSUME HouseInv, NEW h \in Hands, HandFails(h)
    PROVE  HouseInv'
<1>1. PICK o : o = hand[h]
  OBVIOUS
<1>2. Shape(o)
  BY <1>1 DEF HouseInv, HandInv
<1>3. RowsTyped
  BY DEF HouseInv, HouseTypeOK, RowsTyped
<1>4. /\ failures' = failures + 1 /\ failures < MaxFailures /\ Proceed(h, Free)
      /\ UNCHANGED <<used, inBin>> /\ UNCHANGED task /\ UNCHANGED <<pick, transfer, sent>>
      /\ \/ copy' = copy
         \/ o.op = "confirm" /\ copy' = [copy EXCEPT ![o.bin][SkuIn(o)] = o.total]
  BY <1>1 DEF HandFails, Fails, Leave, IsAt, SkuIn, rows
<1>5. o.op = "confirm" => /\ o.bin \in Bins /\ o.bin \in Touches(o) /\ SkuIn(o) \in Goods
                          /\ o.total \in Int
  BY <1>2, TouchesTyped, WarehouseAssumption DEF BinOps, TaskOps, SkuIn, Shape
<1>6. copy' \in [Bins -> [Goods -> Int]] /\ \A b \in Bins \ Touches(o) : copy'[b] = copy[b]
  <2>1. CASE copy' = copy
    BY <1>3, <2>1 DEF RowsTyped
  <2>2. CASE o.op = "confirm" /\ copy' = [copy EXCEPT ![o.bin][SkuIn(o)] = o.total]
    <3>1. copy \in [Bins -> [Goods -> Int]]
      BY <1>3 DEF RowsTyped
    <3> QED
      BY <1>5, <2>2, <3>1
  <2> QED
    BY <1>4, <2>1, <2>2
<1>7. failures' \in 0..MaxFailures /\ failures' # 0
  BY <1>3, <1>4, WarehouseAssumption DEF RowsTyped
<1>8. RowsTyped'
  BY <1>3, <1>4, <1>6, <1>7 DEF RowsTyped
<1>9. HandStep(h, Free)
  BY <1>1, <1>4, <1>6, <1>7, FreeHand DEF HandStep, Frame
<1>10. crossed \subseteq crossed'
  BY <1>9, HandsGoOn
<1>11. /\ TaskRows' /\ StatusMoves(h)
       /\ \A t \in Tasks \cap crossed : task'[t].bin \in crossed' \cup {Nowhere}
       /\ \A c : Reserved(c)' = Reserved(c)
  BY <1>4, <1>10, TasksAlone
<1>12. TransferRows' /\ TransferMoves(h) /\ \A c, k : Promised(c, k)' = Promised(c, k)
  BY <1>4, PicksAlone
<1>13. RoomIsAccounted' /\ PromisesAreKept' /\ CopyIsRight'
  BY <1>4, <1>7, <1>10, <1>11, <1>12 DEF HouseInv, RoomIsAccounted, PromisesAreKept, CopyIsRight
<1> QED
  BY <1>8, <1>9, <1>11, <1>12, <1>13, FreeHand, WriteStep

LEMMA HouseRestartsStep ==
    ASSUME HouseInv, HouseRestarts
    PROVE  HouseInv'
<1>1. /\ hand' = [h \in Hands |-> Free] /\ failures < MaxFailures /\ failures' = failures + 1
      /\ UNCHANGED <<used, inBin, copy>> /\ UNCHANGED task /\ UNCHANGED <<pick, transfer, sent>>
      /\ UNCHANGED crossed
  BY DEF HouseRestarts, Fails, bins, rows
<1>2. failures' \in 0..MaxFailures /\ failures' # 0
  BY <1>1, WarehouseAssumption DEF HouseInv, HouseTypeOK
<1>3. \A h \in Hands : hand'[h] = Free
  BY <1>1
<1>4. \A h : Free.op = "free" /\ Shape(Free) /\ View(Free)' /\ TaskHand(h, Free)' /\ TransferHand(h, Free)'
  BY FreeHand
<1>5. HouseTypeOK'
  BY <1>1, <1>2, <1>3, <1>4 DEF HouseInv, HouseTypeOK, HandSteps
<1>6. HandInv'
  <2>1. Shape(Free)'
    BY <1>4 DEF Shape, Free
  <2>2. \A h \in Hands : \A r \in {hand'[h]} : View(r)' /\ Shape(r)'
    BY <1>3, <1>4, <2>1
  <2> QED
    BY <1>1, <2>2 DEF HandInv
<1>7. Apart'
  <2>1. Touches(Free) = {}
    BY <1>4, TouchesOf
  <2>2. \A h \in Hands : Touches(hand'[h]) = {}
    BY <1>3, <2>1
  <2>3. \A h \in Hands : Touches(hand[h])' = {}
    BY <2>2 DEF Touches
  <2> QED
    BY <2>3 DEF Apart
<1>8. PlaceInv'
  BY <1>3, <1>4 DEF PlaceInv
<1>9. TaskRows' /\ TaskBins' /\ TransferRows'
  BY <1>1 DEF HouseInv, TaskRows, TaskBins, TransferRows, Footprint, Picked, AllPicked, IsOpen
<1>10. RoomIsAccounted' /\ PromisesAreKept' /\ CopyIsRight'
  BY <1>1, <1>2 DEF HouseInv, RoomIsAccounted, PromisesAreKept, CopyIsRight, Reserved, Promised, IsOpen
<1> QED
  BY <1>5, <1>6, <1>7, <1>8, <1>9, <1>10 DEF HouseInv

LEMMA HouseUnchanged ==
    ASSUME HouseInv, UNCHANGED houseVars
    PROVE  HouseInv'
<1> USE DEF houseVars, bins, rows
<1>1. HandInv'
  <2> SUFFICES ASSUME NEW h \in Hands, NEW r, r = hand[h] PROVE Shape(r)' /\ View(r)'
    BY DEF HouseInv, HandInv
  <2>1. Shape(r) /\ View(r)
    BY DEF HouseInv, HandInv
  <2>2. \A b, s : Promised(b, s)' = Promised(b, s)
    BY PromisedSame
  <2>3. TaskView(r)' /\ RoomView(r)' /\ ShelfView(r)' /\ TotalView(r)'
    BY <2>1 DEF View, TaskView, RoomView, RoomIn, Footprint, ShelfView, TotalView, SkuIn, QtyIn
  <2>4. LookView(r)' /\ InsertView(r)' /\ TakeView(r)' /\ CopyView(r)'
    BY <2>1, <2>2 DEF View, LookView, InsertView, TakeView, CopyView, IsOpen, SkuIn, QtyIn, SkuOut
  <2> QED
    BY <2>1, <2>3, <2>4 DEF Shape, View
<1>2. HouseTypeOK' /\ Apart' /\ PlaceInv'
  <2>1. HouseTypeOK'
    BY DEF HouseInv, HouseTypeOK
  <2>2. Apart'
    BY DEF HouseInv, Apart, Alone, Touches
  <2>3. PlaceInv'
    BY DEF HouseInv, PlaceInv, TaskHand, TransferHand, Planning, AllPicked, IsOpen
  <2> QED
    BY <2>1, <2>2, <2>3
<1>3. TaskRows' /\ TaskBins' /\ TransferRows'
  BY DEF HouseInv, TaskRows, TaskBins, TransferRows, Footprint, Picked, AllPicked, IsOpen
<1>4. RoomIsAccounted' /\ PromisesAreKept' /\ CopyIsRight'
  BY DEF HouseInv, RoomIsAccounted, PromisesAreKept, CopyIsRight, Reserved, Promised, IsOpen
<1> QED
  BY <1>1, <1>2, <1>3, <1>4 DEF HouseInv

(* At the start nothing is reserved or promised, and what is stored fits.   *)
LEMMA HouseStarts ==
    ASSUME HouseInit
    PROVE  HouseInv
<1> USE DEF HouseInit
<1>1. \A h \in Hands : hand[h] = Free
  OBVIOUS
<1>2. Shape(Free) /\ View(Free) /\ Touches(Free) = {}
  BY TouchesOf DEF Free, Shape, HandSteps, TaskOps, BinOps, TransferOps, View, TaskView, RoomView,
                   ShelfView, TotalView, LookView, InsertView, TakeView, CopyView
<1>3. HandInv
  <2>1. hand = [h \in Hands |-> hand[h]]
    OBVIOUS
  <2> QED
    BY <1>1, <1>2, <2>1 DEF HandInv
<1>4. \A b \in Bins : Stored[b] \in [Goods -> Int] /\ Room(Stored[b]) \in Int
  <2>1. \A b \in Bins : Stored[b] \in [Goods -> Int]
    BY WarehouseAssumption
  <2> QED
    BY <2>1, RoomInt
<1>5. HouseTypeOK
  BY <1>1, <1>4, WarehouseAssumption DEF HouseTypeOK, NoTask, Free, HandSteps
<1>6. Apart /\ PlaceInv /\ TaskBins
  BY <1>1, <1>2 DEF Apart, Alone, PlaceInv, TaskHand, TransferHand, Planning, Free, TaskOps, TaskBins
<1>7. TaskRows /\ TransferRows
  BY DEF TaskRows, TransferRows, NoTask, Picks
<1>8. RoomIsAccounted
  <2> SUFFICES ASSUME NEW b \in Bins
               PROVE  used[b] = Reserved(b) + Room(inBin[b]) /\ used[b] <= Capacity[b]
    BY DEF RoomIsAccounted
  <2>1. PICK f : f = [u \in Tasks |-> Held(task[u], b)]
    OBVIOUS
  <2>2. \A u \in Tasks : f[u] = 0
    BY <2>1 DEF Held, NoTask
  <2>3. Reserved(b) = SumFunctionOnSet(f, Tasks)
    BY <2>1 DEF Reserved, Held
  <2>4. Reserved(b) = 0
    BY <2>2, <2>3, SumZero, WarehouseAssumption
  <2> QED
    BY <1>4, <2>4, WarehouseAssumption
<1>9. PromisesAreKept
  <2> SUFFICES ASSUME NEW b \in Bins, NEW s \in Goods PROVE Promised(b, s) <= inBin[b][s]
    BY DEF PromisesAreKept
  <2>1. PICK f : f = [y \in Transfers |-> Due(y, b, s)]
    OBVIOUS
  <2>2. \A y \in Transfers : f[y] = 0
    BY <2>1 DEF Due, IsOpen, Picks
  <2>3. Promised(b, s) = SumFunctionOnSet(f, Transfers)
    BY <2>1 DEF Promised, Due
  <2>4. Promised(b, s) = 0
    BY <2>2, <2>3, SumZero, WarehouseAssumption
  <2>5. inBin[b][s] \in Nat
    BY WarehouseAssumption
  <2> QED
    BY <2>4, <2>5
<1>10. CopyIsRight
  BY DEF CopyIsRight
<1> QED
  BY <1>3, <1>5, <1>6, <1>7, <1>8, <1>9, <1>10 DEF HouseInv

(* Every step of the whole system is one of the house or leaves it alone.   *)
LEMMA HouseStep ==
    ASSUME HouseInv, [Next]_vars
    PROVE  HouseInv'
<1>1. CASE UNCHANGED houseVars
  BY <1>1, HouseUnchanged
<1>2. CASE Floor
  <2>1. ASSUME NEW h \in Hands, FloorStep(h) PROVE HouseInv'
    BY <2>1, ChooseBinStep, AssignBinStep, ReadBinStockStep, ConfirmStep, ShelveStep, FindSourcesStep,
       InsertTransferStep, TakePickStep, TellInventoryStep, CheckTransferStep, CompleteTransferStep,
       HandFailsStep DEF FloorStep
  <2>2. ASSUME NEW h \in Hands, NEW t \in Tasks, AskComplete(h, t) \/ \E b \in Bins : AskAssign(h, t, b)
        PROVE HouseInv'
    BY <2>2, AskCompleteStep, AskAssignStep
  <2>3. ASSUME NEW h \in Hands, NEW x \in Transfers, AskTransfer(h, x) \/ \E b \in Bins : AskPick(h, x, b)
        PROVE HouseInv'
    BY <2>3, AskTransferStep, AskPickStep
  <2>4. ASSUME NEW t \in Tasks, Receive(t) PROVE HouseInv'
    BY <2>4, ReceiveStep
  <2> QED
    BY <1>2, <2>1, <2>2, <2>3, <2>4, CreateTaskStep, HouseRestartsStep DEF Floor, Arrived
<1>3. CASE Announce
  BY <1>3, PublishTransferStep DEF Announce
<1> QED
  BY <1>1, <1>2, <1>3 DEF Next, World, Bus, Clerks, InventoryRestarts, vars

(* The inductive invariant of the warehouse floor: what every hand read is  *)
(* still so as long as it is alone with it, tasks stay in bins as crossed   *)
(* as they are, transfers and their picks agree, and the three properties.  *)
THEOREM HouseInvariant == Spec => []HouseInv
<1>1. Init => HouseInv
  BY HouseStarts DEF Init
<1>2. HouseInv /\ [Next]_vars => HouseInv'
  BY HouseStep
<1> QED
  BY <1>1, <1>2, PTL DEF Spec

(* The room used in a bin that no two hands worked on at once is what its   *)
(* pending tasks reserve plus what its stock takes, and it fits: assign,    *)
(* complete and completePick (warehouse-operations) keep usedVolumeCm3 so.  *)
THEOREM RoomStaysAccounted == Spec => []RoomIsAccounted
<1>1. HouseInv => RoomIsAccounted
  BY DEF HouseInv
<1> QED
  BY <1>1, HouseInvariant, PTL

(* What open picks want from a bin that no two hands worked on at once is   *)
(* there, whichever of stock and picks findSources read first.              *)
THEOREM PromisesStayKept == Spec => []PromisesAreKept
<1>1. HouseInv => PromisesAreKept
  BY DEF HouseInv
<1> QED
  BY <1>1, HouseInvariant, PTL

(* Until a call fails, the copy Inventory keeps of a bin that no two hands  *)
(* worked on at once is the bin's content whenever nobody is to tell it.    *)
THEOREM CopyStaysRight == Spec => []CopyIsRight
<1>1. HouseInv => CopyIsRight
  BY DEF HouseInv
<1> QED
  BY <1>1, HouseInvariant, PTL
=============================================================================
