--------------------------- MODULE CheckoutProofs ---------------------------
(* Proofs about Checkout: its type invariant, the invariants behind its      *)
(* safety properties, and the implementation of ReservationBook.  Faults may *)
(* be of any kind and number; what holds only until one happens, or until a *)
(* channel is lost under a handler, says so in its theorem.                 *)
EXTENDS Checkout, Sums, TLAPS

-----------------------------------------------------------------------------
(* A reservation is named by a checkout and a position in its cart.         *)
LEMMA LinesFacts ==
    /\ \A r \in Lines : /\ r = <<r[1], r[2]>>
                        /\ r[1] \in Checkouts
                        /\ r[2] \in Nat \ {0}
                        /\ r[2] <= Len(Cart[r[1]])
                        /\ Sku(r) \in Skus
                        /\ Qty(r) \in Nat
    /\ \A c \in Checkouts : \A i \in Nat :
          1 <= i /\ i <= Len(Cart[c]) => <<c, i>> \in Lines
    /\ \A c \in Checkouts : Len(Cart[c]) \in Nat \ {0}
<1>1. \A c \in Checkouts : /\ Len(Cart[c]) \in Nat \ {0}
                           /\ DOMAIN Cart[c] = 1..Len(Cart[c])
                           /\ \A i \in DOMAIN Cart[c] : Cart[c][i] \in [sku : Skus, qty : Nat \ {0}]
  <2> DEFINE S == [sku : Skus, qty : Nat \ {0}]
  <2>1. \A c \in Checkouts : Cart[c] \in Seq(S) /\ Cart[c] # <<>>
    BY CartAssumption
  <2> HIDE DEF S
  <2>2. \A c \in Checkouts : /\ Len(Cart[c]) \in Nat \ {0}
                             /\ DOMAIN Cart[c] = 1..Len(Cart[c])
                             /\ \A i \in DOMAIN Cart[c] : Cart[c][i] \in S
    BY <2>1
  <2> QED
    BY <2>2 DEF S
<1>2. \A r \in Lines : \E c \in Checkouts : \E i \in DOMAIN Cart[c] : r = <<c, i>>
  BY DEF Lines
<1>3. \A c \in Checkouts : \A i \in DOMAIN Cart[c] : <<c, i>> \in Lines
  BY DEF Lines
<1>4. ASSUME NEW r \in Lines
      PROVE  /\ r = <<r[1], r[2]>>
             /\ r[1] \in Checkouts
             /\ r[2] \in Nat \ {0}
             /\ r[2] <= Len(Cart[r[1]])
             /\ Sku(r) \in Skus
             /\ Qty(r) \in Nat
  <2>1. PICK c \in Checkouts : \E i \in DOMAIN Cart[c] : r = <<c, i>>
    BY <1>2
  <2> PICK i \in DOMAIN Cart[c] : r = <<c, i>>
    BY <2>1
  <2>2. i \in 1..Len(Cart[c]) /\ Cart[c][i] \in [sku : Skus, qty : Nat \ {0}]
    BY <1>1
  <2> QED
    BY <1>1, <2>1, <2>2 DEF Sku, Qty
<1> QED
  BY <1>1, <1>3, <1>4

-----------------------------------------------------------------------------
(* Every handler statement keeps the types of Inventory's state.            *)
LEMMA ReserveType ==
    ASSUME StockTypeOK, NEW r \in Lines, Reserve(r)
    PROVE  StockTypeOK'
<1> USE LinesFacts DEF StockTypeOK, ReserveSteps
<1>1. CASE ReserveRead(r)
  BY <1>1 DEF ReserveRead
<1>2. CASE ReserveRefuse(r)
  BY <1>2 DEF ReserveRefuse
<1>3. CASE ReserveCreate(r)
  BY <1>3 DEF ReserveCreate, Statuses
<1>4. CASE ReserveAllocate(r)
  BY <1>4 DEF ReserveAllocate
<1>5. CASE ReserveRecord(r)
  BY <1>5 DEF ReserveRecord, Row, Rows
<1> QED
  BY <1>1, <1>2, <1>3, <1>4, <1>5 DEF Reserve

LEMMA ReleaseType ==
    ASSUME StockTypeOK, NEW r \in Lines, Release(r)
    PROVE  StockTypeOK'
<1> USE LinesFacts DEF StockTypeOK, ReleaseSteps
<1>1. CASE ReleaseRead(r)
  BY <1>1 DEF ReleaseRead
<1>2. CASE ReleaseMark(r)
  BY <1>2 DEF ReleaseMark, Statuses
<1>3. CASE ReleaseFree(r)
  BY <1>3 DEF ReleaseFree
<1>4. CASE ReleaseRecord(r)
  BY <1>4 DEF ReleaseRecord, Row, Rows
<1> QED
  BY <1>1, <1>2, <1>3, <1>4 DEF Release

LEMMA GoToType ==
    ASSUME StockTypeOK, NEW c \in Checkouts, NEW d \in Deliveries,
           NEW step \in ConsumeSteps, GoTo(c, d, step)
    PROVE  /\ con' \in [Checkouts -> [Deliveries -> Progress]]
           /\ con'[c][d].at = con[c][d].at
<1> DEFINE new == [con[c][d] EXCEPT !.step = step]
<1>1. con \in [Checkouts -> [Deliveries -> Progress]] /\ con[c][d] \in Progress
  BY DEF StockTypeOK
<1>2. new \in Progress /\ new.at = con[c][d].at
  BY <1>1 DEF Progress
<1>3. con' = [con EXCEPT ![c][d] = new]
  BY DEF GoTo
<1> QED
  BY <1>1, <1>2, <1>3

LEMMA ConsumeType ==
    ASSUME StockTypeOK, NEW c \in Checkouts, NEW d \in Deliveries,
           con[c][d].at >= 1, con[c][d].at <= Len(Cart[c]), Consume(c, d)
    PROVE  StockTypeOK' /\ con'[c][d].at >= 1 /\ con'[c][d].at <= Len(Cart[c])
<1> DEFINE k == con[c][d]
<1>1. k \in Progress /\ LineAt(c, d) \in Lines
  <2>1. k \in Progress
    BY DEF StockTypeOK
  <2> QED
    BY <2>1, LinesFacts DEF LineAt, Progress
<1>2. ASSUME NEW step \in ConsumeSteps, GoTo(c, d, step)
      PROVE  /\ con' \in [Checkouts -> [Deliveries -> Progress]]
             /\ con'[c][d].at = k.at
  BY <1>2, GoToType
<1>3. ASSUME NextLine(c, d)
      PROVE  /\ con' \in [Checkouts -> [Deliveries -> Progress]]
             /\ con'[c][d].at >= 1
             /\ con'[c][d].at <= Len(Cart[c])
  BY <1>1, <1>3, LinesFacts DEF NextLine, StockTypeOK, Progress, ConsumeSteps
<1>4. CASE ConsumeRead(c, d)
  BY <1>1, <1>2, <1>3, <1>4 DEF ConsumeRead, StockTypeOK, ConsumeSteps
<1>5. CASE ConsumeMark(c, d)
  BY <1>1, <1>2, <1>5 DEF ConsumeMark, StockTypeOK, Statuses, ConsumeSteps
<1>6. CASE ConsumeLevel(c, d)
  BY <1>1, <1>2, <1>6, LinesFacts DEF ConsumeLevel, StockTypeOK, ConsumeSteps
<1>7. CASE ConsumeRecord(c, d)
  BY <1>1, <1>2, <1>7 DEF ConsumeRecord, StockTypeOK, Row, Rows, ConsumeSteps
<1>8. CASE ConsumeCount(c, d)
  <2>1. SalesOf(Sku(LineAt(c, d))) \in SUBSET Rows
    BY DEF SalesOf, StockTypeOK
  <2>2. con' = [con EXCEPT ![c][d] = [at |-> k.at, step |-> "counted",
                                      counted |-> SalesOf(Sku(LineAt(c, d)))]]
    BY <1>8 DEF ConsumeCount
  <2>3. con' \in [Checkouts -> [Deliveries -> Progress]] /\ con'[c][d].at = k.at
    BY <1>1, <2>1, <2>2 DEF StockTypeOK, Progress, ConsumeSteps
  <2> QED
    BY <1>8, <2>3 DEF ConsumeCount, StockTypeOK
<1>9. CASE ConsumeReport(c, d)
  BY <1>1, <1>3, <1>9, LinesFacts DEF ConsumeReport, StockTypeOK
<1> QED
  BY <1>4, <1>5, <1>6, <1>7, <1>8, <1>9 DEF Consume

-----------------------------------------------------------------------------
(* The inductive invariant.  Read from the bottom: a released reservation   *)
(* has a release handler, that handler was started by a checkout that gave  *)
(* up before saving, and a checkout saves only with every line granted.     *)

DeliveriesInCart ==
    \A c \in Checkouts, d \in Deliveries :
        con[c][d].at >= 1 /\ con[c][d].at <= Len(Cart[c])

CartPlaces ==
    \A c \in Checkouts :
        /\ pc[c] \in {"idle", "line", "waiting"} => at[c] <= Len(Cart[c])
        /\ pc[c] \in {"paying", "saving"} => at[c] > Len(Cart[c])

SavedPlaces ==
    \A c \in Checkouts :
        /\ c \in sales => pc[c] \in {"publishing", "sold", "crashed"} /\ at[c] > Len(Cart[c])
        /\ pc[c] \in {"publishing", "sold"} => c \in sales

AskedInOrder ==
    \A r \in Lines :
        /\ r[2] < at[r[1]] => rsv[r] = "granted"
        /\ r[2] > at[r[1]] => rsv[r] = "none"
        /\ r[2] = at[r[1]] /\ pc[r[1]] \in {"idle", "line"} => rsv[r] = "none"

RowsOfHandlers ==
    \A r \in Lines :
        /\ rsv[r] \in {"none", "called", "read", "refused"} => resv[r] = "NONE"
        /\ rsv[r] \in {"created", "allocated", "granted"} => resv[r] # "NONE"
        /\ rel[r] = "read" => resv[r] = "ACTIVE"
        /\ resv[r] = "RELEASED" => rel[r] \notin {"none", "called", "read"}

ReleasesAreAbandoned ==
    \A r \in Lines :
        rel[r] # "none" => /\ pc[r[1]] \in {"releasing", "rejected", "crashed"}
                           /\ r[1] \notin sales

ConsumersOfSales ==
    /\ \A c \in Checkouts : msg[c].state # "none" => c \in sales
    /\ \A c \in Checkouts, d \in Deliveries : con[c][d].step # "none" => c \in sales
    /\ \A r \in Lines : resv[r] = "CONSUMED" => r[1] \in sales

IInv ==
    /\ TypeOK
    /\ DeliveriesInCart
    /\ CartPlaces
    /\ SavedPlaces
    /\ AskedInOrder
    /\ RowsOfHandlers
    /\ ReleasesAreAbandoned
    /\ ConsumersOfSales

LEMMA InitIInv == Init => IInv
<1> SUFFICES ASSUME Init PROVE IInv
  OBVIOUS
<1>1. TypeOK
  BY NumbersAssumption, LinesFacts
  DEF Init, StockInit, TypeOK, StockTypeOK, Statuses, ReserveSteps, ReleaseSteps,
      ConsumeSteps, Progress, Places, MsgStates
<1>2. DeliveriesInCart /\ CartPlaces /\ SavedPlaces
  BY LinesFacts DEF Init, StockInit, DeliveriesInCart, CartPlaces, SavedPlaces
<1>3. AskedInOrder /\ RowsOfHandlers /\ ReleasesAreAbandoned /\ ConsumersOfSales
  BY LinesFacts DEF Init, StockInit, AskedInOrder, RowsOfHandlers, ReleasesAreAbandoned,
                    ConsumersOfSales
<1> QED
  BY <1>1, <1>2, <1>3 DEF IInv

(* Inventory's statements.                                                  *)
LEMMA ReserveIInv ==
    ASSUME IInv, NEW r \in Lines, ReserveStep(r)
    PROVE  IInv'
<1> USE LinesFacts DEF IInv, ReserveStep, retailVars
<1>1. TypeOK'
  BY ReserveType DEF TypeOK
<1>2. DeliveriesInCart' /\ CartPlaces' /\ SavedPlaces' /\ ReleasesAreAbandoned'
  BY DEF Reserve, ReserveRead, ReserveRefuse, ReserveCreate, ReserveAllocate, ReserveRecord,
         DeliveriesInCart, CartPlaces, SavedPlaces, ReleasesAreAbandoned
<1>3. AskedInOrder' /\ RowsOfHandlers' /\ ConsumersOfSales'
  <2> USE DEF TypeOK, StockTypeOK, AskedInOrder, RowsOfHandlers, ConsumersOfSales
  <2>1. CASE ReserveRead(r)
    BY <2>1 DEF ReserveRead
  <2>2. CASE ReserveRefuse(r)
    BY <2>2 DEF ReserveRefuse
  <2>3. CASE ReserveCreate(r)
    BY <2>3 DEF ReserveCreate
  <2>4. CASE ReserveAllocate(r)
    BY <2>4 DEF ReserveAllocate
  <2>5. CASE ReserveRecord(r)
    BY <2>5 DEF ReserveRecord
  <2> QED
    BY <2>1, <2>2, <2>3, <2>4, <2>5 DEF Reserve
<1> QED
  BY <1>1, <1>2, <1>3

LEMMA ReleaseIInv ==
    ASSUME IInv, NEW r \in Lines, ReleaseStep(r)
    PROVE  IInv'
<1> USE LinesFacts DEF IInv, ReleaseStep, retailVars
<1>1. TypeOK'
  BY ReleaseType DEF TypeOK
<1>2. DeliveriesInCart' /\ CartPlaces' /\ SavedPlaces' /\ AskedInOrder'
  BY DEF Release, ReleaseRead, ReleaseMark, ReleaseFree, ReleaseRecord,
         DeliveriesInCart, CartPlaces, SavedPlaces, AskedInOrder
<1>3. RowsOfHandlers' /\ ReleasesAreAbandoned' /\ ConsumersOfSales'
  <2> USE DEF TypeOK, StockTypeOK, RowsOfHandlers, ReleasesAreAbandoned, ConsumersOfSales
  <2>1. CASE ReleaseRead(r)
    BY <2>1 DEF ReleaseRead
  <2>2. CASE ReleaseMark(r)
    BY <2>2 DEF ReleaseMark
  <2>3. CASE ReleaseFree(r)
    BY <2>3 DEF ReleaseFree
  <2>4. CASE ReleaseRecord(r)
    BY <2>4 DEF ReleaseRecord
  <2> QED
    BY <2>1, <2>2, <2>3, <2>4 DEF Release
<1> QED
  BY <1>1, <1>2, <1>3

(* What an abandoned or saved checkout says of the rows of its lines.       *)
LEMMA SoldRows == IInv => SoldLinesStayHeld
<1> SUFFICES ASSUME IInv, NEW r \in Lines, r[1] \in sales
             PROVE  resv[r] \in {"ACTIVE", "CONSUMED"}
  BY DEF SoldLinesStayHeld
<1>1. rsv[r] = "granted"
  <2>1. r[1] \in Checkouts /\ r[2] \in Nat /\ r[2] <= Len(Cart[r[1]]) /\ Len(Cart[r[1]]) \in Nat
    BY LinesFacts
  <2>2. at[r[1]] \in Nat /\ at[r[1]] > Len(Cart[r[1]])
    BY <2>1 DEF IInv, SavedPlaces, TypeOK
  <2>3. r[2] < at[r[1]]
    BY <2>1, <2>2
  <2> QED
    BY <2>3 DEF IInv, AskedInOrder
<1>2. resv[r] # "NONE" /\ rel[r] = "none"
  BY <1>1 DEF IInv, RowsOfHandlers, ReleasesAreAbandoned
<1> QED
  BY <1>2 DEF IInv, RowsOfHandlers, TypeOK, StockTypeOK, Statuses

LEMMA ConsumeIInv ==
    ASSUME IInv, NEW c \in Checkouts, NEW d \in Deliveries, ConsumeStep(c, d)
    PROVE  IInv'
<1> USE LinesFacts DEF IInv, ConsumeStep, retailVars
<1>1. TypeOK' /\ con'[c][d].at >= 1 /\ con'[c][d].at <= Len(Cart[c])
  BY ConsumeType DEF TypeOK, DeliveriesInCart
<1>2. /\ con[c][d].step # "none"
      /\ LineAt(c, d) \in Lines
      /\ UNCHANGED <<rsv, seen, rel>>
      /\ resv' = resv \/ resv' = [resv EXCEPT ![LineAt(c, d)] = "CONSUMED"]
      /\ \A x \in Checkouts, y \in Deliveries : x # c \/ y # d => con'[x][y] = con[x][y]
  <2>1. LineAt(c, d) \in Lines
    <3>1. con[c][d].at \in Nat /\ 1 <= con[c][d].at /\ con[c][d].at <= Len(Cart[c])
      BY DEF TypeOK, StockTypeOK, Progress, DeliveriesInCart
    <3> QED
      BY <3>1 DEF LineAt
  <2>2. con \in [Checkouts -> [Deliveries -> Progress]]
    BY DEF TypeOK, StockTypeOK
  <2>3. /\ con[c][d].step # "none"
        /\ UNCHANGED <<rsv, seen, rel>>
        /\ resv' = resv \/ resv' = [resv EXCEPT ![LineAt(c, d)] = "CONSUMED"]
        /\ (\E step \in ConsumeSteps : GoTo(c, d, step)) \/ NextLine(c, d) \/ ConsumeCount(c, d)
    <3>1. CASE ConsumeCount(c, d)
      BY <3>1 DEF ConsumeCount
    <3>2. CASE ~ConsumeCount(c, d)
      BY <3>2 DEF Consume, ConsumeRead, ConsumeMark, ConsumeLevel, ConsumeRecord, ConsumeReport,
                  ConsumeSteps
    <3> QED
      BY <3>1, <3>2
  <2>4. \A x \in Checkouts, y \in Deliveries : x # c \/ y # d => con'[x][y] = con[x][y]
    <3>1. \E new : con' = [con EXCEPT ![c][d] = new]
      <4>1. CASE NextLine(c, d)
        BY <4>1 DEF NextLine
      <4>2. CASE ConsumeCount(c, d)
        BY <4>2 DEF ConsumeCount
      <4>3. ASSUME NEW step \in ConsumeSteps, GoTo(c, d, step)
            PROVE  con' = [con EXCEPT ![c][d] = [con[c][d] EXCEPT !.step = step]]
        BY <4>3 DEF GoTo
      <4> QED
        BY <2>3, <4>1, <4>2, <4>3
    <3> QED
      BY <2>2, <3>1
  <2> QED
    BY <2>1, <2>3, <2>4
<1>3. c \in sales
  BY <1>2 DEF ConsumersOfSales
<1>4. \A r \in LinesOf(c) : resv[r] \in {"ACTIVE", "CONSUMED"} /\ rel[r] = "none"
  BY <1>3, SoldRows DEF SoldLinesStayHeld, LinesOf, ReleasesAreAbandoned
<1>5. DeliveriesInCart' /\ CartPlaces' /\ SavedPlaces' /\ ReleasesAreAbandoned' /\ AskedInOrder'
  BY <1>1, <1>2 DEF DeliveriesInCart, CartPlaces, SavedPlaces, ReleasesAreAbandoned, AskedInOrder
<1>6. LineAt(c, d) \in LinesOf(c)
  BY <1>2 DEF LinesOf, LineAt
<1>7. RowsOfHandlers'
  BY <1>2, <1>4, <1>6 DEF RowsOfHandlers, TypeOK, StockTypeOK
<1>8. ConsumersOfSales'
  <2>1. UNCHANGED <<msg, sales>>
    OBVIOUS
  <2>2. \A x \in Checkouts, y \in Deliveries : con'[x][y].step # "none" => x \in sales
    BY <1>2, <1>3 DEF ConsumersOfSales
  <2>3. \A r \in Lines : resv'[r] = "CONSUMED" => r[1] \in sales
    BY <1>2, <1>3, <1>6 DEF ConsumersOfSales, TypeOK, StockTypeOK, LinesOf
  <2> QED
    BY <2>1, <2>2, <2>3 DEF ConsumersOfSales
<1> QED
  BY <1>1, <1>5, <1>7, <1>8

(* One request of Retail Sales, its failures included.                      *)
RequestStep(c) == Start(c) \/ Retail(c) \/ ReplyLost(c) \/ RetailFails(c)

(* A step that leaves Inventory alone keeps what is said of it.             *)
LEMMA StockStutter ==
    ASSUME IInv, UNCHANGED stockVars, sales \subseteq sales'
    PROVE  /\ StockTypeOK' /\ DeliveriesInCart' /\ RowsOfHandlers'
           /\ \A c \in Checkouts, d \in Deliveries : con'[c][d].step # "none" => c \in sales'
           /\ \A r \in Lines : resv'[r] = "CONSUMED" => r[1] \in sales'
<1>1. StockTypeOK'
  BY DEF IInv, TypeOK, StockTypeOK, stockVars
<1>2. DeliveriesInCart' /\ RowsOfHandlers'
  BY DEF IInv, DeliveriesInCart, RowsOfHandlers, stockVars
<1> QED
  BY <1>1, <1>2 DEF IInv, ConsumersOfSales, stockVars

LEMMA AbandonIInv ==
    ASSUME IInv, NEW c \in Checkouts, pc[c] \in {"line", "waiting", "paying"}, Abandon(c),
           faults' \in Nat
    PROVE  IInv'
<1> USE LinesFacts DEF IInv, Abandon, Go
<1>1. TypeOK'
  BY DEF TypeOK, StockTypeOK, Places, ReleaseSteps
<1>2. c \notin sales
  BY DEF SavedPlaces
<1>3. DeliveriesInCart' /\ ConsumersOfSales'
  BY DEF DeliveriesInCart, ConsumersOfSales
<1>4. CartPlaces' /\ SavedPlaces' /\ AskedInOrder'
  BY <1>2 DEF CartPlaces, SavedPlaces, AskedInOrder, TypeOK
<1>5. RowsOfHandlers'
  <2>1. \A r \in Lines : rel'[r] = "read" => rel[r] = "read"
    OBVIOUS
  <2>2. \A r \in Lines : r[1] = c => rel[r] = "none"
    BY DEF ReleasesAreAbandoned
  <2>3. \A r \in Lines : rel'[r] # rel[r] => r[1] = c
    BY DEF Held, LinesOf
  <2> QED
    BY <2>1, <2>2, <2>3 DEF RowsOfHandlers
<1>6. ReleasesAreAbandoned'
  BY <1>2 DEF ReleasesAreAbandoned, Held, LinesOf, TypeOK
<1> QED
  BY <1>1, <1>3, <1>4, <1>5, <1>6

LEMMA RequestIInv ==
    ASSUME IInv, NEW c \in Checkouts, RequestStep(c)
    PROVE  IInv'
<1> USE DEF IInv, Go, Current
<1>1. CASE Start(c)
  <2> USE <1>1 DEF Start
  <2>1. TypeOK'
    BY StockStutter DEF TypeOK, Places, MsgStates
  <2>2. CartPlaces' /\ SavedPlaces'
    BY DEF CartPlaces, SavedPlaces, TypeOK
  <2>3. AskedInOrder' /\ ReleasesAreAbandoned'
    BY DEF AskedInOrder, ReleasesAreAbandoned, SavedPlaces, TypeOK, stockVars
  <2>4. ConsumersOfSales'
    BY StockStutter DEF ConsumersOfSales, TypeOK
  <2> QED
    BY <2>1, <2>2, <2>3, <2>4, StockStutter
<1>2. CASE CallReserve(c)
  <2> USE <1>2, LinesFacts DEF CallReserve
  <2>1. TypeOK'
    BY DEF TypeOK, StockTypeOK, Places, ReserveSteps
  <2>2. DeliveriesInCart' /\ CartPlaces' /\ SavedPlaces' /\ ReleasesAreAbandoned' /\ ConsumersOfSales'
    BY DEF DeliveriesInCart, CartPlaces, SavedPlaces, ReleasesAreAbandoned, ConsumersOfSales, TypeOK
  <2>3. AskedInOrder'
    BY DEF AskedInOrder, TypeOK, StockTypeOK
  <2>4. RowsOfHandlers'
    BY DEF AskedInOrder, RowsOfHandlers, TypeOK, StockTypeOK
  <2> QED
    BY <2>1, <2>2, <2>3, <2>4
<1>3. CASE Accept(c)
  <2> USE <1>3, LinesFacts DEF Accept, stockVars
  <2>1. TypeOK'
    BY DEF TypeOK, StockTypeOK, Places
  <2>2. DeliveriesInCart' /\ RowsOfHandlers' /\ ConsumersOfSales'
    BY DEF DeliveriesInCart, RowsOfHandlers, ConsumersOfSales
  <2>3. CartPlaces' /\ SavedPlaces' /\ ReleasesAreAbandoned'
    BY DEF CartPlaces, SavedPlaces, ReleasesAreAbandoned, TypeOK
  <2>4. AskedInOrder'
    <3>1. \A r \in Lines : r[1] = c /\ r[2] = at[c] => rsv[r] = "granted"
      OBVIOUS
    <3>2. /\ at' = [at EXCEPT ![c] = at[c] + 1]
          /\ rsv' = rsv
          /\ at \in [Checkouts -> Nat \ {0}]
          /\ \A x \in Checkouts : x # c => pc'[x] = pc[x]
      BY DEF TypeOK
    <3>3. ASSUME NEW r \in Lines
          PROVE  /\ r[2] < at'[r[1]] => rsv'[r] = "granted"
                 /\ r[2] > at'[r[1]] => rsv'[r] = "none"
                 /\ r[2] = at'[r[1]] /\ pc'[r[1]] \in {"idle", "line"} => rsv'[r] = "none"
      <4>1. CASE r[1] = c
        <5>1. at'[r[1]] = at[c] + 1 /\ at[c] \in Nat /\ r[2] \in Nat
          BY <3>2, <4>1
        <5>2. r[2] < at[c] \/ r[2] = at[c] \/ r[2] > at[c]
          BY <5>1
        <5> QED
          BY <3>1, <3>2, <4>1, <5>1, <5>2 DEF AskedInOrder
      <4>2. CASE r[1] # c
        BY <3>2, <4>2 DEF AskedInOrder
      <4> QED
        BY <4>1, <4>2
    <3> QED
      BY <3>3 DEF AskedInOrder
  <2> QED
    BY <2>1, <2>2, <2>3, <2>4
<1>4. CASE PriceFails(c)
  BY <1>4, AbandonIInv DEF PriceFails, TypeOK
<1>5. CASE Decline(c)
  BY <1>5, AbandonIInv DEF Decline, TypeOK
<1>6. CASE ReplyLost(c)
  BY <1>6, AbandonIInv DEF ReplyLost, Fault, TypeOK
<1>7. CASE PaymentsDiffer(c)
  BY <1>7, AbandonIInv DEF PaymentsDiffer, TypeOK
<1>8. CASE PaymentsMatch(c)
  <2> USE <1>8 DEF PaymentsMatch
  <2>1. TypeOK'
    BY StockStutter DEF TypeOK, Places, MsgStates
  <2>2. CartPlaces' /\ SavedPlaces'
    BY DEF CartPlaces, SavedPlaces, TypeOK
  <2>3. AskedInOrder' /\ ReleasesAreAbandoned'
    BY DEF AskedInOrder, ReleasesAreAbandoned, SavedPlaces, TypeOK, stockVars
  <2>4. ConsumersOfSales'
    BY StockStutter DEF ConsumersOfSales, TypeOK
  <2> QED
    BY <2>1, <2>2, <2>3, <2>4, StockStutter
<1>9. CASE Reject(c)
  <2> USE <1>9 DEF Reject
  <2>1. TypeOK'
    BY StockStutter DEF TypeOK, Places, MsgStates
  <2>2. CartPlaces' /\ SavedPlaces'
    BY DEF CartPlaces, SavedPlaces, TypeOK
  <2>3. AskedInOrder' /\ ReleasesAreAbandoned'
    BY DEF AskedInOrder, ReleasesAreAbandoned, SavedPlaces, TypeOK, stockVars
  <2>4. ConsumersOfSales'
    BY StockStutter DEF ConsumersOfSales, TypeOK
  <2> QED
    BY <2>1, <2>2, <2>3, <2>4, StockStutter
<1>10. CASE Save(c)
  <2> USE <1>10 DEF Save
  <2>1. TypeOK'
    BY StockStutter DEF TypeOK, Places, MsgStates
  <2>2. CartPlaces' /\ SavedPlaces'
    BY DEF CartPlaces, SavedPlaces, TypeOK
  <2>3. AskedInOrder' /\ ReleasesAreAbandoned'
    BY DEF AskedInOrder, ReleasesAreAbandoned, SavedPlaces, TypeOK, stockVars
  <2>4. ConsumersOfSales'
    BY StockStutter DEF ConsumersOfSales, TypeOK
  <2> QED
    BY <2>1, <2>2, <2>3, <2>4, StockStutter
<1>11. CASE Publish(c)
  <2> USE <1>11 DEF Publish
  <2>1. TypeOK'
    BY StockStutter DEF TypeOK, Places, MsgStates
  <2>2. CartPlaces' /\ SavedPlaces'
    BY DEF CartPlaces, SavedPlaces, TypeOK
  <2>3. AskedInOrder' /\ ReleasesAreAbandoned'
    BY DEF AskedInOrder, ReleasesAreAbandoned, SavedPlaces, TypeOK, stockVars
  <2>4. ConsumersOfSales'
    BY StockStutter DEF ConsumersOfSales, SavedPlaces, TypeOK
  <2> QED
    BY <2>1, <2>2, <2>3, <2>4, StockStutter
<1>12. CASE RetailFails(c)
  <2> USE <1>12 DEF RetailFails, Fault
  <2>1. TypeOK'
    BY StockStutter DEF TypeOK, Places, MsgStates
  <2>2. CartPlaces' /\ SavedPlaces'
    BY DEF CartPlaces, SavedPlaces, TypeOK
  <2>3. AskedInOrder' /\ ReleasesAreAbandoned'
    BY DEF AskedInOrder, ReleasesAreAbandoned, SavedPlaces, TypeOK, stockVars
  <2>4. ConsumersOfSales'
    BY StockStutter DEF ConsumersOfSales, TypeOK
  <2> QED
    BY <2>1, <2>2, <2>3, <2>4, StockStutter
<1> QED
  BY <1>1, <1>2, <1>3, <1>4, <1>5, <1>6, <1>7, <1>8, <1>9, <1>10, <1>11, <1>12
  DEF RequestStep, Retail

(* The queue, and the failures of Inventory and of its channel.             *)
QueueStep ==
    \/ \E c \in Checkouts : Deliver(c)
    \/ \E c \in Checkouts, d \in Deliveries : Ack(c, d) \/ Nack(c, d)
    \/ \E r \in Lines : ReserveFails(r) \/ ReleaseFails(r)
    \/ ChannelLost
    \/ InventoryCrash

LEMMA QueueIInv ==
    ASSUME IInv, QueueStep
    PROVE  IInv'
<1> DEFINE Messages == [Checkouts -> [state : MsgStates, redelivered : BOOLEAN, tries : Nat]]
           Consumers == [Checkouts -> [Deliveries -> Progress]]
<1> USE DEF IInv, Fault
<1>0. msg \in Messages /\ con \in Consumers
  BY DEF TypeOK, StockTypeOK
<1>1. ASSUME NEW c \in Checkouts, Deliver(c) PROVE IInv'
  <2> USE <1>1 DEF Deliver
  <2>1. msg' \in Messages
    BY <1>0 DEF MsgStates
  <2>2. con' \in Consumers
    BY <1>0 DEF ConsumeSteps, Progress
  <2>3. TypeOK'
    BY <2>1, <2>2 DEF TypeOK, StockTypeOK, retailVars
  <2>4. DeliveriesInCart' /\ ConsumersOfSales'
    BY <1>0, LinesFacts DEF DeliveriesInCart, ConsumersOfSales, retailVars
  <2>5. CartPlaces' /\ SavedPlaces' /\ AskedInOrder'
    BY DEF CartPlaces, SavedPlaces, AskedInOrder, retailVars
  <2>6. RowsOfHandlers' /\ ReleasesAreAbandoned'
    BY DEF RowsOfHandlers, ReleasesAreAbandoned, retailVars
  <2> QED
    BY <2>3, <2>4, <2>5, <2>6
<1>2. ASSUME NEW c \in Checkouts, NEW d \in Deliveries, Ack(c, d) PROVE IInv'
  <2> USE <1>2 DEF Ack, Awaited
  <2>1. msg' \in Messages
    BY <1>0 DEF MsgStates
  <2>2. TypeOK'
    BY <2>1, StockStutter DEF TypeOK, retailVars
  <2>3. CartPlaces' /\ SavedPlaces' /\ AskedInOrder' /\ ReleasesAreAbandoned'
    BY DEF CartPlaces, SavedPlaces, AskedInOrder, ReleasesAreAbandoned, retailVars, stockVars
  <2>4. ConsumersOfSales'
    BY <1>0, StockStutter DEF ConsumersOfSales, retailVars
  <2> QED
    BY <2>2, <2>3, <2>4, StockStutter DEF retailVars
<1>3. ASSUME NEW c \in Checkouts, NEW d \in Deliveries, Nack(c, d) PROVE IInv'
  <2> USE <1>3 DEF Nack
  <2>1. msg' \in Messages
    BY <1>0 DEF MsgStates, Requeue
  <2>2. con' \in Consumers
    <3>1. BrokenOff(con[c][d].step) \in ConsumeSteps
      BY DEF BrokenOff, ConsumeSteps
    <3> QED BY <3>1, GoToType DEF TypeOK
  <2>3. TypeOK'
    BY <2>1, <2>2 DEF TypeOK, StockTypeOK, retailVars
  <2>4. DeliveriesInCart' /\ ConsumersOfSales'
    BY <1>0 DEF DeliveriesInCart, ConsumersOfSales, ConsumeRunning, GoTo, Requeue, Awaited, retailVars
  <2>5. CartPlaces' /\ SavedPlaces' /\ AskedInOrder'
    BY DEF CartPlaces, SavedPlaces, AskedInOrder, retailVars
  <2>6. RowsOfHandlers' /\ ReleasesAreAbandoned'
    BY DEF RowsOfHandlers, ReleasesAreAbandoned, retailVars
  <2> QED
    BY <2>3, <2>4, <2>5, <2>6
<1>4. ASSUME NEW r \in Lines, ReserveFails(r) PROVE IInv'
  <2> USE <1>4 DEF ReserveFails, ReserveRunning
  <2>1. TypeOK'
    BY DEF TypeOK, StockTypeOK, ReserveSteps, retailVars
  <2>2. DeliveriesInCart' /\ CartPlaces' /\ SavedPlaces' /\ ConsumersOfSales' /\ ReleasesAreAbandoned'
    BY DEF DeliveriesInCart, CartPlaces, SavedPlaces, ConsumersOfSales, ReleasesAreAbandoned, retailVars
  <2>3. AskedInOrder' /\ RowsOfHandlers'
    BY DEF AskedInOrder, RowsOfHandlers, retailVars, TypeOK, StockTypeOK
  <2> QED
    BY <2>1, <2>2, <2>3
<1>5. ASSUME NEW r \in Lines, ReleaseFails(r) PROVE IInv'
  <2> USE <1>5 DEF ReleaseFails, ReleaseRunning
  <2>1. TypeOK'
    BY DEF TypeOK, StockTypeOK, ReleaseSteps, retailVars
  <2>2. DeliveriesInCart' /\ CartPlaces' /\ SavedPlaces' /\ ConsumersOfSales' /\ AskedInOrder'
    BY DEF DeliveriesInCart, CartPlaces, SavedPlaces, ConsumersOfSales, AskedInOrder, retailVars
  <2>3. RowsOfHandlers' /\ ReleasesAreAbandoned'
    BY DEF RowsOfHandlers, ReleasesAreAbandoned, retailVars, TypeOK, StockTypeOK
  <2> QED
    BY <2>1, <2>2, <2>3
<1>6. ASSUME RequeueUnacked
      PROVE  /\ msg' \in Messages
             /\ \A c \in Checkouts : msg'[c].state # "none" => msg[c].state # "none"
  BY <1>0, <1>6 DEF RequeueUnacked, Requeue, MsgStates
<1>7. CASE ChannelLost
  <2> USE <1>7 DEF ChannelLost
  <2>1. TypeOK'
    BY <1>6, StockStutter DEF TypeOK, retailVars
  <2>2. CartPlaces' /\ SavedPlaces' /\ AskedInOrder' /\ ReleasesAreAbandoned'
    BY DEF CartPlaces, SavedPlaces, AskedInOrder, ReleasesAreAbandoned, retailVars, stockVars
  <2>3. ConsumersOfSales'
    BY <1>6, StockStutter DEF ConsumersOfSales, retailVars
  <2> QED
    BY <2>1, <2>2, <2>3, StockStutter DEF retailVars
<1>8. CASE InventoryCrash
  <2> USE <1>8 DEF InventoryCrash
  <2>1. con' \in Consumers
    <3>1. \A c \in Checkouts, d \in Deliveries : BrokenOff(con[c][d].step) \in ConsumeSteps
      BY DEF BrokenOff, ConsumeSteps
    <3>2. \A c \in Checkouts, d \in Deliveries :
             [at |-> con[c][d].at, step |-> BrokenOff(con[c][d].step), counted |-> {}] \in Progress
      BY <1>0, <3>1 DEF Progress
    <3> QED BY <1>0, <3>2
  <2>2. rsv' \in [Lines -> ReserveSteps] /\ rel' \in [Lines -> ReleaseSteps]
    BY DEF TypeOK, StockTypeOK, ReserveSteps, ReleaseSteps
  <2>3. TypeOK'
    BY <1>6, <2>1, <2>2 DEF TypeOK, StockTypeOK, retailVars
  <2>4. DeliveriesInCart' /\ ConsumersOfSales'
    BY <1>0, <1>6 DEF DeliveriesInCart, ConsumersOfSales, ConsumeRunning, retailVars
  <2>5. CartPlaces' /\ SavedPlaces'
    BY DEF CartPlaces, SavedPlaces, retailVars
  <2>6. AskedInOrder'
    BY DEF AskedInOrder, ReserveRunning, retailVars
  <2>7. RowsOfHandlers' /\ ReleasesAreAbandoned'
    BY DEF RowsOfHandlers, ReleasesAreAbandoned, ReserveRunning, ReleaseRunning, retailVars
  <2> QED
    BY <2>3, <2>4, <2>5, <2>6, <2>7
<1> QED
  BY <1>1, <1>2, <1>3, <1>4, <1>5, <1>7, <1>8 DEF QueueStep

LEMMA StepSplit ==
    ASSUME Next
    PROVE  \/ \E c \in Checkouts : RequestStep(c)
           \/ \E r \in Lines : ReserveStep(r) \/ ReleaseStep(r)
           \/ \E c \in Checkouts, d \in Deliveries : ConsumeStep(c, d)
           \/ QueueStep
BY DEF Next, Failure, RequestStep, QueueStep

(* The invariant behind everything below holds in every reachable state.    *)
THEOREM Invariant == Spec => []IInv
<1>1. Init => IInv
  BY InitIInv
<1>2. IInv /\ [Next]_vars => IInv'
  <2> SUFFICES ASSUME IInv, [Next]_vars PROVE IInv'
    OBVIOUS
  <2>1. CASE Next
    BY <2>1, StepSplit, RequestIInv, ReserveIInv, ReleaseIInv, ConsumeIInv, QueueIInv
  <2>2. CASE UNCHANGED vars
    BY <2>2 DEF vars, stockVars, retailVars, IInv, TypeOK, StockTypeOK, DeliveriesInCart,
       CartPlaces, SavedPlaces, AskedInOrder, RowsOfHandlers, ReleasesAreAbandoned, ConsumersOfSales
  <2> QED
    BY <2>1, <2>2
<1> QED
  BY <1>1, <1>2, PTL DEF Spec

(* Every variable keeps its type in every reachable state.                  *)
THEOREM TypeCorrect == Spec => []TypeOK
<1>1. IInv => TypeOK
  BY DEF IInv
<1> QED
  BY <1>1, Invariant, PTL

(* Whatever fails and however requests interleave, the stock behind a saved *)
(* transaction is never released: checkout() releases only on paths that do *)
(* not reach transactions.create, and saves only after every reservation.   *)
THEOREM SoldStaysHeld == Spec => []SoldLinesStayHeld
BY Invariant, SoldRows, PTL

-----------------------------------------------------------------------------
(* The implementation of ReservationBook: reservations map to entries and   *)
(* saved transactions to commitments.                                       *)

LEMMA BookEntries == Book!AllEntries = Lines
<1>1. \A r \in Lines : r[1] \in Checkouts
  BY LinesFacts
<1> QED
  BY <1>1 DEF Book!AllEntries, LinesOf

LEMMA BookStart == Init => Book!BookInit
BY BookEntries DEF Init, StockInit, Book!BookInit

(* A step that changes neither a status nor the sales is a stutter.         *)
LEMMA BookStutter == UNCHANGED <<resv, sales>> => UNCHANGED Book!bookVars
BY DEF Book!bookVars

LEMMA BookStep == IInv /\ [Next]_vars => [Book!BookNext]_(Book!bookVars)
<1> SUFFICES ASSUME IInv, [Next]_vars, ~UNCHANGED Book!bookVars
             PROVE  Book!BookNext
  OBVIOUS
<1>1. ASSUME NEW r \in Lines PROVE r[1] \in Checkouts /\ r \in [c \in Checkouts |-> LinesOf(c)][r[1]]
  BY LinesFacts DEF LinesOf
<1>2. ASSUME NEW r \in Lines, r[1] \in sales
      PROVE  rsv[r] = "granted" /\ rel[r] = "none"
  <2>1. r[1] \in Checkouts /\ r[2] \in Nat /\ r[2] <= Len(Cart[r[1]]) /\ Len(Cart[r[1]]) \in Nat
    BY LinesFacts
  <2>2. at[r[1]] \in Nat /\ at[r[1]] > Len(Cart[r[1]])
    BY <1>2, <2>1 DEF IInv, SavedPlaces, TypeOK
  <2>3. r[2] < at[r[1]]
    BY <2>1, <2>2
  <2> QED
    BY <1>2, <2>3 DEF IInv, AskedInOrder, ReleasesAreAbandoned
<1>3. ASSUME NEW r \in Lines, ReserveStep(r) PROVE Book!BookNext
  <2>1. ReserveCreate(r) /\ sales' = sales
    BY <1>3, BookStutter DEF ReserveStep, Reserve, ReserveRead, ReserveRefuse, ReserveAllocate,
                             ReserveRecord, retailVars
  <2>2. resv[r] = "NONE" /\ r[1] \notin sales
    BY <1>2, <2>1 DEF ReserveCreate, IInv, RowsOfHandlers
  <2>3. Book!Open(r[1], r)
    BY <2>1, <2>2 DEF ReserveCreate, Book!Open
  <2> QED
    BY <1>1, <2>3 DEF Book!BookNext
<1>4. ASSUME NEW r \in Lines, ReleaseStep(r) PROVE Book!BookNext
  <2>1. ReleaseMark(r) /\ sales' = sales
    BY <1>4, BookStutter DEF ReleaseStep, Release, ReleaseRead, ReleaseFree, ReleaseRecord, retailVars
  <2>2. resv[r] = "ACTIVE" /\ r[1] \notin sales
    BY <1>2, <2>1 DEF ReleaseMark, IInv, RowsOfHandlers
  <2>3. Book!Drop(r[1], r)
    BY <2>1, <2>2 DEF ReleaseMark, Book!Drop
  <2> QED
    BY <1>1, <2>3 DEF Book!BookNext
<1>5. ASSUME NEW c \in Checkouts, NEW d \in Deliveries, ConsumeStep(c, d) PROVE Book!BookNext
  <2> DEFINE r == LineAt(c, d)
  <2>1. ConsumeMark(c, d) /\ sales' = sales
    BY <1>5, BookStutter DEF ConsumeStep, Consume, ConsumeRead, ConsumeLevel, ConsumeRecord,
                             ConsumeCount, ConsumeReport, retailVars
  <2>2. c \in sales
    BY <2>1 DEF ConsumeMark, IInv, ConsumersOfSales
  <2>3. r \in Lines /\ r[1] = c
    <3>1. con[c][d].at \in Nat /\ 1 <= con[c][d].at /\ con[c][d].at <= Len(Cart[c])
      BY DEF IInv, TypeOK, StockTypeOK, Progress, DeliveriesInCart
    <3> QED
      BY <3>1, LinesFacts DEF LineAt
  <2>4. resv[r] \in {"ACTIVE", "CONSUMED"}
    BY <2>2, <2>3, SoldRows DEF SoldLinesStayHeld
  <2>5. resv' = [resv EXCEPT ![r] = "CONSUMED"]
    BY <2>1 DEF ConsumeMark
  <2>6. resv[r] = "ACTIVE"
    <3>1. CASE resv[r] = "CONSUMED"
      <4>1. resv' = resv
        BY <2>3, <2>5, <3>1 DEF IInv, TypeOK, StockTypeOK
      <4> QED
        BY <2>1, <4>1, BookStutter
    <3> QED
      BY <2>4, <3>1
  <2>7. Book!Take(c, r)
    BY <2>1, <2>2, <2>5, <2>6 DEF Book!Take
  <2> HIDE DEF r
  <2> QED
    BY <1>1, <2>3, <2>7 DEF Book!BookNext
<1>6. ASSUME NEW c \in Checkouts, RequestStep(c) PROVE Book!BookNext
  <2>1. Save(c) /\ resv' = resv
    BY <1>6, BookStutter
    DEF RequestStep, Retail, Start, CallReserve, Accept, PriceFails, Decline, PaymentsMatch,
        PaymentsDiffer, Reject, Save, Publish, ReplyLost, RetailFails, Abandon, stockVars
  <2>2. c \notin sales
    BY <2>1 DEF Save, IInv, SavedPlaces
  <2>3. ASSUME NEW r \in LinesOf(c) PROVE resv[r] = "ACTIVE"
    <3>1. r \in Lines /\ r[1] = c
      BY DEF LinesOf
    <3>2. r[2] < at[c]
      <4>1. at[c] \in Nat /\ at[c] > Len(Cart[c])
        BY <2>1 DEF Save, IInv, CartPlaces, TypeOK
      <4>2. r[2] \in Nat /\ r[2] <= Len(Cart[c]) /\ Len(Cart[c]) \in Nat
        BY <3>1, LinesFacts
      <4> QED
        BY <4>1, <4>2
    <3>3. rsv[r] = "granted"
      BY <3>1, <3>2 DEF IInv, AskedInOrder
    <3>4. rel[r] = "none"
      BY <2>1, <3>1 DEF Save, IInv, ReleasesAreAbandoned
    <3>5. resv[r] \notin {"NONE", "RELEASED", "CONSUMED"}
      BY <2>2, <3>1, <3>3, <3>4 DEF IInv, RowsOfHandlers, ConsumersOfSales
    <3> QED
      BY <3>1, <3>5 DEF IInv, TypeOK, StockTypeOK, Statuses
  <2>4. Book!Commit(c)
    BY <2>1, <2>2, <2>3 DEF Save, Book!Commit
  <2> QED
    BY <2>4 DEF Book!BookNext
<1>7. CASE QueueStep
  BY <1>7, BookStutter
  DEF QueueStep, Deliver, Ack, Nack, ReserveFails, ReleaseFails, ChannelLost, InventoryCrash,
      stockVars, retailVars
<1>8. CASE UNCHANGED vars
  BY <1>8, BookStutter DEF vars, stockVars, retailVars
<1> QED
  BY <1>3, <1>4, <1>5, <1>6, <1>7, <1>8, StepSplit

(* Whatever fails, the interleaved statements of both services behave as    *)
(* the atomic reservation book.                                             *)
THEOREM ImplementsBook == Spec => BookSpec
<1>1. Init => Book!BookInit
  BY BookStart
<1>2. IInv /\ [Next]_vars => [Book!BookNext]_(Book!bookVars)
  BY BookStep
<1> QED
  BY <1>1, <1>2, Invariant, PTL DEF Spec, BookSpec, Book!BookSpec

-----------------------------------------------------------------------------
(* Units over sets of lines.                                                *)
LEMMA LinesFinite == IsFiniteSet(Lines)
<1> DEFINE len == [c \in Checkouts |-> Len(Cart[c])]
<1>1. IsFiniteSet(Checkouts) /\ Ints(len, Checkouts)
  BY LinesFacts, CartAssumption DEF Ints
<1>2. CASE Checkouts = {}
  <2>1. Lines = {}
    BY <1>2, LinesFacts
  <2> QED
    BY <2>1, FS_EmptySet
<1>3. CASE Checkouts # {}
  <2>1. PICK m \in Checkouts : \A c \in Checkouts : len[c] <= len[m]
    <3> HIDE DEF len
    <3> QED BY <1>1, <1>3, GreatestIn
  <2> DEFINE n == Len(Cart[m])
  <2>2. n \in Nat /\ IsFiniteSet(1..n)
    <3>1. n \in Nat
      BY LinesFacts
    <3> HIDE DEF n
    <3> QED BY <3>1, FS_Interval
  <2>3. IsFiniteSet(Checkouts \X (1..n))
    <3> HIDE DEF n
    <3> QED BY <1>1, <2>2, FS_Product
  <2>4. \A r \in Lines : r \in Checkouts \X (1..n)
    <3> SUFFICES ASSUME NEW r \in Lines PROVE r \in Checkouts \X (1..n)
      OBVIOUS
    <3>1. /\ r = <<r[1], r[2]>> /\ r[1] \in Checkouts
          /\ r[2] \in Nat \ {0} /\ r[2] <= Len(Cart[r[1]]) /\ Len(Cart[r[1]]) \in Nat
      BY LinesFacts
    <3>2. Len(Cart[r[1]]) <= n
      BY <2>1, <3>1
    <3>3. r[2] \in 1..n
      BY <2>2, <3>1, <3>2
    <3> HIDE DEF n
    <3> QED BY <3>1, <3>3
  <2>5. Lines \subseteq Checkouts \X (1..n)
    BY <2>4
  <2> HIDE DEF n
  <2> QED
    BY <2>3, <2>5, FS_Subset
<1> QED
  BY <1>2, <1>3

LEMMA UnitsFacts ==
    ASSUME NEW s, NEW S \in SUBSET Lines
    PROVE  /\ Units(s, S) \in Nat
           /\ \A T \in SUBSET S : Units(s, T) <= Units(s, S)
<1> DEFINE f == [r \in Lines |-> Qty(r)]
           Of(T) == {r \in T : Sku(r) = s}
<1>1. IsFiniteSet(Of(S)) /\ \A r \in Of(S) : f[r] \in Nat
  BY LinesFinite, LinesFacts, FS_Subset
<1>2. \A T \in SUBSET S : Of(T) \subseteq Of(S)
  OBVIOUS
<1>3. \A T : Units(s, T) = SumFunctionOnSet(f, Of(T))
  BY DEF Units
<1> HIDE DEF f, Of
<1>4. SumFunctionOnSet(f, Of(S)) \in Nat
  BY <1>1, SumNat
<1>5. \A T \in SUBSET S : SumFunctionOnSet(f, Of(T)) <= SumFunctionOnSet(f, Of(S))
  BY <1>1, <1>2, SumFewer
<1> QED
  BY <1>3, <1>4, <1>5

Portion(s, r) == IF Sku(r) = s THEN Qty(r) ELSE 0

LEMMA UnitsAdd ==
    ASSUME NEW s, NEW S \in SUBSET Lines, NEW r \in Lines, r \notin S
    PROVE  Units(s, S \cup {r}) = Units(s, S) + Portion(s, r)
<1> DEFINE f == [x \in Lines |-> Qty(x)]
           Of(T) == {x \in T : Sku(x) = s}
<1>1. IsFiniteSet(Of(S)) /\ Ints(f, Of(S) \cup {r}) /\ f[r] = Qty(r) /\ r \notin Of(S)
  BY LinesFinite, LinesFacts, FS_Subset DEF Ints
<1>2. CASE Sku(r) = s
  <2>1. Of(S \cup {r}) = Of(S) \cup {r}
    BY <1>2
  <2>2. Units(s, S \cup {r}) = SumFunctionOnSet(f, Of(S \cup {r}))
        /\ Units(s, S) = SumFunctionOnSet(f, Of(S))
    BY DEF Units
  <2> HIDE DEF f, Of
  <2>3. SumFunctionOnSet(f, Of(S) \cup {r}) = f[r] + SumFunctionOnSet(f, Of(S))
    BY <1>1, SumInsert
  <2>4. Units(s, S) \in Nat /\ Qty(r) \in Nat
    BY UnitsFacts, LinesFacts
  <2> QED
    BY <1>1, <1>2, <2>1, <2>2, <2>3, <2>4 DEF Portion
<1>3. CASE Sku(r) # s
  <2>1. Of(S \cup {r}) = Of(S)
    BY <1>3
  <2>2. Units(s, S \cup {r}) = Units(s, S) /\ Units(s, S) \in Nat
    BY <2>1, UnitsFacts DEF Units
  <2> QED
    BY <1>3, <2>2 DEF Portion
<1> QED
  BY <1>2, <1>3

(* What the reorder threshold is computed from is a number.                 *)
LEMMA ThresholdInt ==
    ASSUME NEW rows, IsFiniteSet(rows), \A row \in rows : row.line \in Lines
    PROVE  ReorderThreshold(rows) \in Int
<1> DEFINE f == [row \in rows |-> Qty(row.line)]
<1>1. Ints(f, rows) /\ UnitsSold(rows) = SumFunctionOnSet(f, rows)
  BY LinesFacts DEF Ints, UnitsSold
<1> HIDE DEF f
<1>2. UnitsSold(rows) \in Int
  BY <1>1, SumInt
<1>3. UnitsSold(rows) * LeadDays \in Int /\ WindowDays \in Nat \ {0}
  BY <1>2, NumbersAssumption
<1> QED
  BY <1>3 DEF ReorderThreshold

-----------------------------------------------------------------------------
(* Levels, journal and StockLow.  What a release handler has done and what  *)
(* a consumer has got through holds whatever fails.  One delivery of a      *)
(* message at a time is at work as long as no channel is lost, so that a    *)
(* line is taken once and on-hand has lost every CONSUMED row but those at  *)
(* or torn behind the mark; allocated adds up exactly until something       *)
(* fails.                                                                   *)
Calm == faults = 0 \/ "channel" \notin FaultKinds

ReleasesGetOn ==
    \A r \in Lines :
        /\ rel[r] # "none" => r[2] < at[r[1]]
        /\ rel[r] \in {"marked", "freed", "done"} => resv[r] = "RELEASED"

ConsumersGetOn ==
    /\ \A c \in Checkouts : msg[c].state # "none" => pc[c] = "sold"
    /\ \A c \in Checkouts, d \in Deliveries : con[c][d].step # "none" =>
          /\ msg[c].state # "none" /\ d <= msg[c].tries
          /\ \A r \in LinesOf(c) : r[2] < con[c][d].at => resv[r] = "CONSUMED"
          /\ con[c][d].step \in {"marked", "leveled", "recorded", "counted", "torn"} =>
                resv[LineAt(c, d)] = "CONSUMED"
          /\ con[c][d].step = "finished" => \A r \in LinesOf(c) : resv[r] = "CONSUMED"
    /\ \A r \in Lines : /\ resv[r] = "CONSUMED" => msg[r[1]].state # "none"
                        /\ msg[r[1]].state = "acked" => resv[r] = "CONSUMED"

SaleOf(r) == {row \in journal : row.type = "SALE" /\ row.line = r}
TakenOnce ==
    /\ \A c \in Checkouts, d \in Deliveries : ConsumeRunning(c, d) =>
          /\ msg[c].state = "inflight" /\ msg[c].tries = d
          /\ con[c][d].step = "read" => resv[LineAt(c, d)] = "ACTIVE"
          /\ con[c][d].step \in {"marked", "leveled"} => SaleOf(LineAt(c, d)) = {}
          /\ con[c][d].step \in {"marked", "leveled"} => LineAt(c, d) \notin TornLines
    /\ \A row \in journal : row.type = "SALE" => resv[row.line] = "CONSUMED"
    /\ \A x, y \in journal : x.type = "SALE" /\ y.type = "SALE" /\ x.line = y.line => x = y

(* A line marked CONSUMED whose units are still in the level.               *)
Marked(r) == \E d \in Deliveries :
                 con[r[1]][d].step \in {"marked", "torn"} /\ con[r[1]][d].at = r[2]
GoneLines == {r \in Lines : resv[r] = "CONSUMED" /\ ~ Marked(r)}
Allotted(r) == \/ resv[r] = "ACTIVE" /\ rsv[r] # "created"
               \/ resv[r] = "RELEASED" /\ rel[r] = "marked"
               \/ resv[r] = "CONSUMED" /\ Marked(r)
AllottedLines == {r \in Lines : Allotted(r)}

LevelsInv ==
    \A s \in Skus :
        /\ Calm => onHand[s] = Stock0[s] - Units(s, GoneLines)
        /\ faults = 0 => allocated[s] = Units(s, AllottedLines)

(* Until something fails.                                                   *)
NothingFailed ==
    /\ \A r \in Lines : rsv[r] # "failed" /\ rel[r] # "failed"
    /\ \A c \in Checkouts, d \in Deliveries : con[c][d].step \notin {"failed", "torn"}

GivenUp ==
    \A r \in Lines : pc[r[1]] \in {"releasing", "rejected"} =>
        /\ r[2] < at[r[1]] => rel[r] # "none"
        /\ r[2] >= at[r[1]] => resv[r] = "NONE" /\ ~ ReserveRunning(r)
        /\ pc[r[1]] = "rejected" => ~ ReleaseRunning(r)

(* Somebody is about to compare the level with a threshold that counts      *)
(* every sale there is.                                                     *)
Reporting(c, d, s) ==
    /\ Sku(LineAt(c, d)) = s
    /\ \/ con[c][d].step \in {"leveled", "recorded"}
       \/ con[c][d].step = "counted" /\ con[c][d].counted = SalesOf(s)
LowInv ==
    \A s \in Skus : SalesOf(s) # {} /\ onHand[s] <= ReorderThreshold(SalesOf(s)) /\ s \notin low =>
        \E c \in Checkouts, d \in Deliveries : Reporting(c, d, s)

LInv ==
    /\ IInv /\ IsFiniteSet(journal)
    /\ ReleasesGetOn /\ ConsumersGetOn
    /\ Calm => TakenOnce
    /\ LevelsInv
    /\ faults = 0 => NothingFailed /\ GivenUp /\ LowInv

LEMMA InitLInv == Init => LInv
<1> SUFFICES ASSUME Init PROVE LInv
  OBVIOUS
<1>1. IInv /\ IsFiniteSet(journal)
  BY InitIInv, FS_EmptySet DEF Init, StockInit
<1>2. ReleasesGetOn /\ ConsumersGetOn /\ TakenOnce
  BY LinesFacts DEF Init, StockInit, ReleasesGetOn, ConsumersGetOn, TakenOnce, ConsumeRunning
<1>3. LevelsInv
  <2>1. GoneLines = {} /\ AllottedLines = {}
    BY DEF Init, StockInit, GoneLines, AllottedLines, Allotted
  <2>2. \A s \in Skus : Units(s, {}) = 0
    BY SumEmpty DEF Units
  <2> QED
    BY <2>1, <2>2, NumbersAssumption DEF Init, StockInit, LevelsInv
<1>4. NothingFailed /\ GivenUp /\ LowInv
  BY LinesFacts DEF Init, StockInit, NothingFailed, GivenUp, LowInv, SalesOf
<1> QED
  BY <1>1, <1>2, <1>3, <1>4 DEF LInv

(* What one statement of a consumer does, by the step it is at.             *)
Advance(k, new, n) ==
    \/ k.at < n /\ new.at = k.at + 1 /\ new.step = "next"
    \/ k.at = n /\ new.at = k.at /\ new.step = "finished"
Onward(c, d) == Advance(con[c][d], con'[c][d], Len(Cart[c]))
Turn(c, d, from, to) ==
    /\ con[c][d].step = from
    /\ con'[c][d].step = to
    /\ con'[c][d].at = con[c][d].at
ConsumeMove(c, d) ==
    LET r == LineAt(c, d) IN
    /\ r \in Lines /\ r[1] = c /\ r[2] = con[c][d].at
    /\ UNCHANGED <<rsv, seen, rel, retailVars, msg, faults>>
    /\ \A x \in Checkouts, y \in Deliveries : x # c \/ y # d => con'[x][y] = con[x][y]
    /\ \/ /\ Turn(c, d, "next", "read") /\ resv[r] = "ACTIVE"
          /\ UNCHANGED <<onHand, allocated, resv, journal, low>>
       \/ /\ con[c][d].step = "next" /\ Onward(c, d) /\ resv[r] # "ACTIVE"
          /\ UNCHANGED <<onHand, allocated, resv, journal, low>>
       \/ /\ Turn(c, d, "read", "marked") /\ resv' = [resv EXCEPT ![r] = "CONSUMED"]
          /\ UNCHANGED <<onHand, allocated, journal, low>>
       \/ /\ Turn(c, d, "marked", "leveled")
          /\ onHand' = [onHand EXCEPT ![Sku(r)] = @ - Qty(r)]
          /\ allocated' = [allocated EXCEPT ![Sku(r)] = @ - Qty(r)]
          /\ UNCHANGED <<resv, journal, low>>
       \/ /\ Turn(c, d, "leveled", "recorded")
          /\ journal' = journal \cup {Row("SALE", r, d)}
          /\ UNCHANGED <<onHand, allocated, resv, low>>
       \/ /\ Turn(c, d, "recorded", "counted") /\ con'[c][d].counted = SalesOf(Sku(r))
          /\ UNCHANGED <<onHand, allocated, resv, journal, low>>
       \/ /\ con[c][d].step = "counted" /\ Onward(c, d)
          /\ low' = IF onHand[Sku(r)] - allocated[Sku(r)] <= ReorderThreshold(con[c][d].counted)
                    THEN low \cup {Sku(r)} ELSE low
          /\ UNCHANGED <<onHand, allocated, resv, journal>>

LEMMA ConsumeMoves ==
    ASSUME IInv, NEW c \in Checkouts, NEW d \in Deliveries, ConsumeStep(c, d)
    PROVE  ConsumeMove(c, d)
<1> DEFINE r == LineAt(c, d)
<1>0. con \in [Checkouts -> [Deliveries -> Progress]] /\ con[c][d] \in Progress
  BY DEF IInv, TypeOK, StockTypeOK
<1>1. /\ r \in Lines /\ r[1] = c /\ r[2] = con[c][d].at
      /\ con[c][d].at \in Nat /\ con[c][d].at <= Len(Cart[c]) /\ Len(Cart[c]) \in Nat
  <2>1. con[c][d].at \in Nat /\ 1 <= con[c][d].at /\ con[c][d].at <= Len(Cart[c])
    BY <1>0 DEF IInv, DeliveriesInCart, Progress
  <2>2. Len(Cart[c]) \in Nat /\ <<c, con[c][d].at>> \in Lines
    BY <2>1, LinesFacts
  <2> QED
    BY <2>1, <2>2 DEF LineAt
<1>2. ASSUME NEW new, con' = [con EXCEPT ![c][d] = new]
      PROVE  /\ con'[c][d] = new
             /\ \A x \in Checkouts, y \in Deliveries : x # c \/ y # d => con'[x][y] = con[x][y]
  BY <1>0, <1>2
<1>3. ASSUME NEW step, GoTo(c, d, step)
      PROVE  /\ con'[c][d].step = step /\ con'[c][d].at = con[c][d].at
             /\ \A x \in Checkouts, y \in Deliveries : x # c \/ y # d => con'[x][y] = con[x][y]
  <2> DEFINE new == [con[c][d] EXCEPT !.step = step]
  <2>1. con' = [con EXCEPT ![c][d] = new]
    BY <1>3 DEF GoTo
  <2>2. new.step = step /\ new.at = con[c][d].at
    BY <1>0 DEF Progress
  <2> HIDE DEF new
  <2> QED BY <1>2, <2>1, <2>2
<1>4. ASSUME NextLine(c, d)
      PROVE  /\ Onward(c, d)
             /\ \A x \in Checkouts, y \in Deliveries : x # c \/ y # d => con'[x][y] = con[x][y]
  <2> DEFINE new == IF con[c][d].at < Len(Cart[c])
                      THEN [at |-> con[c][d].at + 1, step |-> "next", counted |-> {}]
                      ELSE [at |-> con[c][d].at, step |-> "finished", counted |-> {}]
  <2>1. con' = [con EXCEPT ![c][d] = new]
    BY <1>4 DEF NextLine
  <2>2. Advance(con[c][d], new, Len(Cart[c]))
    BY <1>1 DEF Advance
  <2> HIDE DEF new
  <2> QED BY <1>2, <2>1, <2>2 DEF Onward
<1>5. UNCHANGED <<retailVars, msg, faults>>
  BY DEF ConsumeStep
<1> HIDE DEF r
<1> USE <1>1, <1>5
<1>6. CASE ConsumeRead(c, d)
  <2>1. CASE resv[r] = "ACTIVE"
    BY <1>3, <1>6, <2>1 DEF ConsumeRead, ConsumeMove, Turn, r
  <2>2. CASE resv[r] # "ACTIVE"
    BY <1>4, <1>6, <2>2 DEF ConsumeRead, ConsumeMove, r
  <2> QED BY <2>1, <2>2
<1>7. CASE ConsumeMark(c, d)
  BY <1>3, <1>7 DEF ConsumeMark, ConsumeMove, Turn, r
<1>8. CASE ConsumeLevel(c, d)
  BY <1>3, <1>8 DEF ConsumeLevel, ConsumeMove, Turn, r
<1>9. CASE ConsumeRecord(c, d)
  BY <1>3, <1>9 DEF ConsumeRecord, ConsumeMove, Turn, r
<1>10. CASE ConsumeCount(c, d)
  <2> DEFINE new == [at |-> con[c][d].at, step |-> "counted", counted |-> SalesOf(Sku(r))]
  <2>1. con' = [con EXCEPT ![c][d] = new]
    BY <1>10 DEF ConsumeCount, r
  <2>2. new.step = "counted" /\ new.at = con[c][d].at /\ new.counted = SalesOf(Sku(r))
    OBVIOUS
  <2> HIDE DEF new
  <2>3. /\ con'[c][d] = new
        /\ \A x \in Checkouts, y \in Deliveries : x # c \/ y # d => con'[x][y] = con[x][y]
    BY <1>2, <2>1
  <2> QED BY <1>10, <2>2, <2>3 DEF ConsumeCount, ConsumeMove, Turn, r
<1>11. CASE ConsumeReport(c, d)
  BY <1>4, <1>11 DEF ConsumeReport, ConsumeMove, r
<1> QED
  BY <1>6, <1>7, <1>8, <1>9, <1>10, <1>11 DEF ConsumeStep, Consume

(* A checkout request leaves levels, rows and consumers alone: only what it *)
(* called for and its own place change.                                     *)
LEMMA QuietLines ==
    ASSUME LInv, UNCHANGED <<onHand, allocated, resv, journal, con>>, faults' = 0 => faults = 0,
           \A r \in Lines : /\ resv[r] = "ACTIVE" => (rsv'[r] = "created" <=> rsv[r] = "created")
                            /\ resv[r] = "RELEASED" => (rel'[r] = "marked" <=> rel[r] = "marked")
    PROVE  LevelsInv'
<1>1. GoneLines' = GoneLines
  BY DEF GoneLines, Marked
<1>2. AllottedLines' = AllottedLines
  <2>1. \A r \in Lines : Allotted(r)' <=> Allotted(r)
    BY DEF Allotted, Marked
  <2> QED BY <2>1 DEF AllottedLines
<1>3. Calm' => Calm
  BY DEF Calm
<1> QED
  BY <1>1, <1>2, <1>3 DEF LInv, LevelsInv

LEMMA QuietLow ==
    ASSUME LInv, UNCHANGED <<onHand, low, con>>, faults = 0,
           \A s \in Skus : SalesOf(s)' = SalesOf(s)
    PROVE  LowInv'
BY DEF LInv, LowInv, Reporting, LineAt

LEMMA AbandonLInv ==
    ASSUME LInv, NEW c \in Checkouts, pc[c] \in {"line", "waiting", "paying"}, Abandon(c),
           faults' \in Nat, faults' = 0 => faults = 0,
           faults' = 0 => \A r \in Lines : r[1] = c /\ r[2] >= at[c] => resv[r] = "NONE" /\ ~ ReserveRunning(r)
    PROVE  LInv'
<1> USE LinesFacts DEF LInv
<1>0. /\ UNCHANGED <<onHand, allocated, resv, journal, low, rsv, seen, con, at, sales, msg>>
      /\ \A r \in Lines : r[1] # c => rel'[r] = rel[r]
      /\ \A r \in Lines : r[1] = c => /\ rel[r] = "none"
                                      /\ rel'[r] = IF r[2] < at[c] THEN "called" ELSE "none"
      /\ \A x \in Checkouts : pc'[x] = IF x = c THEN "releasing" ELSE pc[x]
  BY DEF Abandon, Held, LinesOf, Go, IInv, TypeOK, ReleasesAreAbandoned
<1>1. IInv' /\ IsFiniteSet(journal')
  BY <1>0, AbandonIInv
<1>2. ReleasesGetOn'
  BY <1>0 DEF ReleasesGetOn
<1>3. msg[c].state = "none"
  BY DEF ConsumersGetOn
<1>4. ConsumersGetOn' /\ (Calm => TakenOnce')
  BY <1>0, <1>3 DEF ConsumersGetOn, TakenOnce, LineAt, SaleOf, ConsumeRunning, TornLines
<1>5. LevelsInv'
  BY <1>0, QuietLines DEF IInv, RowsOfHandlers
<1>6. faults' = 0 => LowInv' /\ NothingFailed'
  BY <1>0, QuietLow DEF SalesOf, NothingFailed
<1>7. faults' = 0 => GivenUp'
  <2> SUFFICES ASSUME faults' = 0, NEW r \in Lines, pc'[r[1]] \in {"releasing", "rejected"}
               PROVE  /\ r[2] < at'[r[1]] => rel'[r] # "none"
                      /\ r[2] >= at'[r[1]] => resv'[r] = "NONE" /\ ~ ReserveRunning(r)'
                      /\ pc'[r[1]] = "rejected" => ~ ReleaseRunning(r)'
    BY DEF GivenUp
  <2>1. CASE r[1] = c
    BY <1>0, <2>1 DEF ReserveRunning
  <2>2. CASE r[1] # c
    BY <1>0, <2>2 DEF GivenUp, ReserveRunning, ReleaseRunning
  <2> QED BY <2>1, <2>2
<1>8. Calm' => Calm
  BY DEF Calm
<1> QED
  BY <1>1, <1>2, <1>4, <1>5, <1>6, <1>7, <1>8

LEMMA RequestLInv ==
    ASSUME LInv, NEW c \in Checkouts, RequestStep(c)
    PROVE  LInv'
<1> USE LinesFacts DEF LInv
<1>1. IInv'
  BY RequestIInv
<1>2. faults \in Nat /\ at[c] \in Nat /\ c \in Checkouts /\ pc[c] \in Places
  BY DEF IInv, TypeOK
<1>3. ASSUME NEW r \in Lines, r[1] = c, r[2] >= at[c], pc[c] \in {"line", "paying"}
      PROVE  resv[r] = "NONE" /\ ~ ReserveRunning(r)
  <2>1. rsv[r] = "none"
    <3>1. r[2] \in Nat /\ r[2] <= Len(Cart[c]) /\ Len(Cart[c]) \in Nat
      BY <1>3
    <3>2. pc[c] = "line"
      BY <1>2, <1>3, <3>1 DEF IInv, CartPlaces
    <3> QED BY <1>2, <1>3, <3>1, <3>2 DEF IInv, AskedInOrder
  <2> QED BY <2>1 DEF IInv, RowsOfHandlers, ReserveRunning
<1>4. CASE PriceFails(c)
  BY <1>2, <1>3, <1>4, AbandonLInv DEF PriceFails
<1>5. CASE PaymentsDiffer(c)
  BY <1>2, <1>3, <1>5, AbandonLInv DEF PaymentsDiffer
<1>6. CASE ReplyLost(c)
  BY <1>2, <1>6, AbandonLInv DEF ReplyLost, Fault
<1>7. CASE Decline(c)
  <2>1. faults = 0 => rsv[Current(c)] = "refused"
    <3>1. Current(c) \in Lines
      BY <1>2, <1>7 DEF Decline, IInv, CartPlaces, TypeOK, Current
    <3> QED BY <1>7, <3>1 DEF Decline, NothingFailed
  <2>2. ASSUME faults = 0, NEW r \in Lines, r[1] = c, r[2] >= at[c]
        PROVE  resv[r] = "NONE" /\ ~ ReserveRunning(r)
    <3>1. rsv[r] \in {"none", "refused"}
      <4>1. CASE r[2] = at[c]
        <5>1. r = Current(c)
          BY <2>2, <4>1 DEF Current
        <5> QED BY <2>1, <2>2, <5>1
      <4>2. CASE r[2] # at[c]
        <5>1. r[2] > at[c]
          BY <1>2, <2>2, <4>2
        <5> QED BY <2>2, <5>1 DEF IInv, AskedInOrder
      <4> QED BY <4>1, <4>2
    <3> QED BY <3>1 DEF IInv, RowsOfHandlers, ReserveRunning
  <2>3. pc[c] \in {"line", "waiting", "paying"} /\ Abandon(c) /\ faults' = faults
    BY <1>7 DEF Decline
  <2> QED BY <1>2, <2>2, <2>3, AbandonLInv
<1>8. CASE CallReserve(c)
  <2> USE <1>8 DEF CallReserve, Go
  <2>1. \A r \in Lines : r # Current(c) => rsv'[r] = rsv[r]
    BY DEF IInv, TypeOK, StockTypeOK
  <2>2. \A x \in Checkouts : pc'[x] = IF x = c THEN "waiting" ELSE pc[x]
    BY DEF IInv, TypeOK
  <2>3. Current(c) \in Lines /\ rsv[Current(c)] = "none" /\ rsv'[Current(c)] = "called"
        /\ Current(c)[1] = c
    <3>1. at[c] \in Nat \ {0} /\ at[c] <= Len(Cart[c]) /\ Len(Cart[c]) \in Nat
      BY DEF IInv, CartPlaces, TypeOK
    <3>2. Current(c) \in Lines /\ Current(c)[1] = c /\ Current(c)[2] = at[c]
      BY <3>1 DEF Current
    <3>3. rsv[Current(c)] = "none"
      BY <3>2 DEF IInv, AskedInOrder
    <3>4. rsv \in [Lines -> ReserveSteps]
      BY DEF IInv, TypeOK, StockTypeOK
    <3> QED BY <3>2, <3>3, <3>4
  <2>4. ReleasesGetOn' /\ IsFiniteSet(journal')
    BY DEF ReleasesGetOn
  <2>5. msg[c].state = "none"
    BY DEF ConsumersGetOn
  <2>6. ConsumersGetOn' /\ (Calm => TakenOnce')
    BY <2>2, <2>5 DEF ConsumersGetOn, TakenOnce, LineAt, SaleOf, ConsumeRunning, TornLines
  <2>7. LevelsInv'
    <3>1. \A r \in Lines : resv[r] = "ACTIVE" => (rsv'[r] = "created" <=> rsv[r] = "created")
      BY <2>1, <2>3 DEF IInv, RowsOfHandlers
    <3> QED BY <3>1, QuietLines
  <2>8. faults' = 0 => LowInv' /\ NothingFailed'
    BY <2>1, <2>3, QuietLow DEF SalesOf, NothingFailed
  <2>9. faults' = 0 => GivenUp'
    BY <2>1, <2>2, <2>3 DEF GivenUp, ReserveRunning, ReleaseRunning
  <2> QED BY <1>1, <2>4, <2>6, <2>7, <2>8, <2>9 DEF Calm
<1>9. ASSUME UNCHANGED <<stockVars, msg>>, faults' = 0 => faults = 0,
             \A x \in Checkouts : x # c => pc'[x] = pc[x] /\ at'[x] = at[x],
             at'[c] \in Nat, at'[c] >= at[c],
             pc[c] \notin {"sold", "rejected"},
             pc'[c] \notin {"releasing", "rejected"} \/
                (pc[c] = "releasing" /\ at'[c] = at[c] /\ \A r \in LinesOf(c) : ~ReleaseRunning(r))
      PROVE  LInv'
  <2>1. ReleasesGetOn' /\ IsFiniteSet(journal')
    BY <1>2, <1>9 DEF ReleasesGetOn, stockVars, IInv, TypeOK
  <2>2. msg[c].state = "none"
    BY <1>9 DEF ConsumersGetOn
  <2>3. ConsumersGetOn' /\ (Calm => TakenOnce')
    BY <1>9, <2>2 DEF ConsumersGetOn, TakenOnce, LineAt, SaleOf, ConsumeRunning, TornLines, stockVars
  <2>4. LevelsInv'
    BY <1>9, QuietLines DEF stockVars
  <2>5. faults' = 0 => LowInv' /\ NothingFailed'
    BY <1>9, QuietLow DEF SalesOf, NothingFailed, stockVars
  <2>6. faults' = 0 => GivenUp'
    BY <1>9 DEF GivenUp, ReserveRunning, ReleaseRunning, LinesOf, stockVars
  <2>7. Calm' => Calm
    BY <1>9 DEF Calm
  <2> QED BY <1>1, <2>1, <2>3, <2>4, <2>5, <2>6, <2>7
<1>10. CASE Accept(c)
  <2>1. UNCHANGED <<stockVars, msg, faults>> /\ pc[c] = "waiting"
    BY <1>10 DEF Accept
  <2>2. /\ pc'[c] \notin {"releasing", "rejected"} /\ at'[c] = at[c] + 1
        /\ \A x \in Checkouts : x # c => pc'[x] = pc[x] /\ at'[x] = at[x]
    BY <1>10 DEF Accept, Go, IInv, TypeOK
  <2> QED BY <1>2, <1>9, <2>1, <2>2
<1>11. CASE Start(c) \/ PaymentsMatch(c) \/ Save(c) \/ RetailFails(c)
  <2>1. UNCHANGED <<stockVars, msg, at>> /\ pc[c] \notin {"sold", "rejected"}
        /\ (faults' = 0 => faults = 0)
    BY <1>2, <1>11 DEF Start, PaymentsMatch, Save, RetailFails, Fault
  <2>2. /\ pc'[c] \notin {"releasing", "rejected"}
        /\ \A x \in Checkouts : x # c => pc'[x] = pc[x]
    BY <1>11 DEF Start, PaymentsMatch, Save, RetailFails, Go, IInv, TypeOK
  <2> QED BY <1>2, <1>9, <2>1, <2>2
<1>12. CASE Reject(c)
  <2>1. UNCHANGED <<stockVars, msg, at, faults>> /\ pc[c] = "releasing"
        /\ \A r \in LinesOf(c) : ~ReleaseRunning(r)
    BY <1>12 DEF Reject
  <2>2. \A x \in Checkouts : x # c => pc'[x] = pc[x]
    BY <1>12 DEF Reject, Go, IInv, TypeOK
  <2> QED BY <1>2, <1>9, <2>1, <2>2
<1>13. CASE Publish(c)
  <2>1. UNCHANGED <<stockVars, at, sales, faults>> /\ pc[c] = "publishing"
    BY <1>13 DEF Publish
  <2>2. /\ \A x \in Checkouts : x # c => pc'[x] = pc[x] /\ msg'[x] = msg[x]
        /\ pc'[c] = "sold" /\ msg'[c].state = "queued"
    BY <1>13 DEF Publish, Go, IInv, TypeOK
  <2>3. ReleasesGetOn' /\ IsFiniteSet(journal')
    BY <2>1 DEF ReleasesGetOn, stockVars
  <2>4. msg[c].state = "none"
    BY <2>1 DEF ConsumersGetOn
  <2>5. ConsumersGetOn' /\ (Calm => TakenOnce')
    BY <2>1, <2>2, <2>4 DEF ConsumersGetOn, TakenOnce, LineAt, SaleOf, ConsumeRunning, TornLines, stockVars, LinesOf
  <2>6. LevelsInv'
    BY <2>1, QuietLines DEF stockVars
  <2>7. faults' = 0 => LowInv' /\ NothingFailed'
    BY <2>1, QuietLow DEF SalesOf, NothingFailed, stockVars
  <2>8. faults' = 0 => GivenUp'
    BY <2>1, <2>2 DEF GivenUp, ReserveRunning, ReleaseRunning, stockVars
  <2>9. Calm' => Calm
    BY <2>1 DEF Calm
  <2> QED BY <1>1, <2>3, <2>5, <2>6, <2>7, <2>8, <2>9
<1> QED
  BY <1>4, <1>5, <1>6, <1>7, <1>8, <1>10, <1>11, <1>12, <1>13 DEF RequestStep, Retail

(* Inventory's reserve and release handlers.                                *)
LEMMA ConsumerLine ==
    ASSUME IInv, NEW c \in Checkouts, NEW d \in Deliveries
    PROVE  /\ LineAt(c, d) \in Lines /\ LineAt(c, d)[1] = c /\ LineAt(c, d)[2] = con[c][d].at
           /\ con[c][d].at \in Nat
<1>1. con[c][d].at \in Nat /\ 1 <= con[c][d].at /\ con[c][d].at <= Len(Cart[c])
  BY DEF IInv, TypeOK, StockTypeOK, Progress, DeliveriesInCart
<1> QED
  BY <1>1, LinesFacts DEF LineAt

LEMMA HandlerFrame ==
    ASSUME LInv, UNCHANGED <<onHand, low, con, retailVars, msg, faults>>,
           IsFiniteSet(journal'), \A row \in journal' \ journal : row.type # "SALE",
           journal \subseteq journal',
           \A r \in Lines : resv[r] = "CONSUMED" <=> resv'[r] = "CONSUMED",
           \A r \in Lines : r[1] \in sales => resv[r] = resv'[r]
    PROVE  /\ ConsumersGetOn' /\ (Calm => TakenOnce')
           /\ GoneLines' = GoneLines
           /\ faults = 0 => LowInv'
<1> USE LinesFacts DEF LInv
<1>0. UNCHANGED <<pc, at, sales, con, msg>>
  BY DEF retailVars
<1>1. GoneLines' = GoneLines
  BY DEF GoneLines, Marked
<1>2. ConsumersGetOn'
  <2>1. \A c \in Checkouts, d \in Deliveries : LineAt(c, d) \in Lines /\ LineAt(c, d)' = LineAt(c, d)
    BY ConsumerLine DEF LineAt
  <2> QED BY <1>0, <2>1 DEF ConsumersGetOn, LinesOf
<1>3. \A s \in Skus : SalesOf(s)' = SalesOf(s)
  BY DEF SalesOf
<1>4. \A r \in Lines : SaleOf(r)' = SaleOf(r)
  BY DEF SaleOf
<1>5. ASSUME Calm PROVE TakenOnce'
  <2>1. \A c \in Checkouts, d \in Deliveries : ConsumeRunning(c, d)' <=> ConsumeRunning(c, d)
    BY DEF ConsumeRunning
  <2>2. \A c \in Checkouts, d \in Deliveries : ConsumeRunning(c, d) =>
           LineAt(c, d) \in Lines /\ LineAt(c, d)[1] = c /\ c \in sales /\ LineAt(c, d)' = LineAt(c, d)
    <3> SUFFICES ASSUME NEW c \in Checkouts, NEW d \in Deliveries, ConsumeRunning(c, d)
                 PROVE  LineAt(c, d) \in Lines /\ LineAt(c, d)[1] = c /\ c \in sales
                        /\ LineAt(c, d)' = LineAt(c, d)
      OBVIOUS
    <3> QED BY ConsumerLine DEF LineAt, IInv, ConsumersOfSales, ConsumeRunning
  <2>3. ASSUME NEW c \in Checkouts, NEW d \in Deliveries, ConsumeRunning(c, d)'
        PROVE  (/\ msg[c].state = "inflight" /\ msg[c].tries = d
                /\ con[c][d].step = "read" => resv[LineAt(c, d)] = "ACTIVE"
                /\ con[c][d].step \in {"marked", "leveled"} => SaleOf(LineAt(c, d)) = {}
                /\ con[c][d].step \in {"marked", "leveled"} => LineAt(c, d) \notin TornLines)'
    <3>1. /\ msg[c].state = "inflight" /\ msg[c].tries = d
          /\ con[c][d].step = "read" => resv[LineAt(c, d)] = "ACTIVE"
          /\ con[c][d].step \in {"marked", "leveled"} => SaleOf(LineAt(c, d)) = {}
          /\ con[c][d].step \in {"marked", "leveled"} => LineAt(c, d) \notin TornLines
      BY <1>5, <2>1, <2>3 DEF TakenOnce
    <3>2. LineAt(c, d)' = LineAt(c, d) /\ LineAt(c, d) \in Lines
          /\ resv'[LineAt(c, d)] = resv[LineAt(c, d)]
      BY <2>1, <2>2, <2>3
    <3>3. con[c][d].step \in {"marked", "leveled"} => SaleOf(LineAt(c, d))' = {}
      BY <3>1, <3>2 DEF SaleOf
    <3>4. TornLines' = TornLines
      BY DEF TornLines
    <3> QED BY <3>1, <3>2, <3>3, <3>4
  <2>4. ASSUME NEW row \in journal', row.type = "SALE"
        PROVE  row \in journal /\ resv'[row.line] = "CONSUMED"
    <3>1. row \in journal /\ row.line \in Lines
      BY <2>4 DEF IInv, TypeOK, StockTypeOK, Rows
    <3> QED BY <1>5, <2>4, <3>1 DEF TakenOnce
  <2> QED BY <1>5, <2>3, <2>4 DEF TakenOnce
<1> QED
  BY <1>1, <1>2, <1>3, <1>5, QuietLow

LEMMA ReserveLInv ==
    ASSUME LInv, NEW r \in Lines, ReserveStep(r)
    PROVE  LInv'
<1> USE LinesFacts DEF LInv
<1>1. IInv'
  BY ReserveIInv
<1>2. /\ UNCHANGED <<onHand, low, rel, con, retailVars, msg, faults>>
      /\ UNCHANGED <<pc, at, sales>>
      /\ ReserveRunning(r) /\ resv[r] # "CONSUMED" /\ resv[r] # "RELEASED" /\ r[1] \notin sales
      /\ rsv'[r] # "failed" /\ rsv'[r] # rsv[r]
      /\ \A x \in Lines : x # r => rsv'[x] = rsv[x] /\ resv'[x] = resv[x]
  <2>1. ReserveRunning(r) /\ rsv'[r] # "failed" /\ rsv'[r] # rsv[r]
    BY DEF ReserveStep, Reserve, ReserveRead, ReserveRefuse, ReserveCreate, ReserveAllocate,
           ReserveRecord, ReserveRunning, IInv, TypeOK, StockTypeOK
  <2>2. \A x \in Lines : x # r => rsv'[x] = rsv[x] /\ resv'[x] = resv[x]
    BY DEF ReserveStep, Reserve, ReserveRead, ReserveRefuse, ReserveCreate, ReserveAllocate,
           ReserveRecord, IInv, TypeOK, StockTypeOK
  <2>3. UNCHANGED <<onHand, low, rel, con, retailVars, msg, faults>> /\ UNCHANGED <<pc, at, sales>>
    BY DEF ReserveStep, Reserve, ReserveRead, ReserveRefuse, ReserveCreate, ReserveAllocate,
           ReserveRecord, retailVars
  <2>4. r[2] >= at[r[1]]
    <3>1. at[r[1]] \in Nat /\ r[2] \in Nat
      BY DEF IInv, TypeOK
    <3> QED BY <2>1, <3>1 DEF IInv, AskedInOrder, ReserveRunning
  <2>5. rel[r] = "none"
    <3>1. at[r[1]] \in Nat /\ r[2] \in Nat
      BY DEF IInv, TypeOK
    <3> QED BY <2>4, <3>1 DEF ReleasesGetOn
  <2>6. r[1] \notin sales
    <3>1. at[r[1]] \in Nat /\ r[2] \in Nat /\ Len(Cart[r[1]]) \in Nat /\ r[2] <= Len(Cart[r[1]])
      BY DEF IInv, TypeOK
    <3> QED BY <2>4, <3>1 DEF IInv, SavedPlaces
  <2>7. resv[r] # "CONSUMED" /\ resv[r] # "RELEASED"
    BY <2>5, <2>6 DEF IInv, RowsOfHandlers, ConsumersOfSales
  <2> QED BY <2>1, <2>2, <2>3, <2>6, <2>7
<1>3. /\ journal \subseteq journal' /\ IsFiniteSet(journal')
      /\ \A row \in journal' \ journal : row.type # "SALE"
  <2>1. CASE ReserveRecord(r)
    <3>1. IsFiniteSet(journal \cup {Row("RESERVATION", r, 0)})
      BY FS_AddElement
    <3> QED BY <2>1, <3>1 DEF ReserveRecord, Row
  <2>2. CASE ~ ReserveRecord(r)
    BY <2>2 DEF ReserveStep, Reserve, ReserveRead, ReserveRefuse, ReserveCreate, ReserveAllocate
  <2> QED BY <2>1, <2>2
<1>4. resv'[r] \in {resv[r], "ACTIVE"}
  BY DEF ReserveStep, Reserve, ReserveRead, ReserveRefuse, ReserveCreate, ReserveAllocate,
         ReserveRecord, IInv, TypeOK, StockTypeOK
<1>5. /\ ConsumersGetOn' /\ (Calm => TakenOnce') /\ GoneLines' = GoneLines /\ (faults = 0 => LowInv')
  BY <1>2, <1>3, <1>4, HandlerFrame
<1>6. ReleasesGetOn'
  BY <1>2 DEF ReleasesGetOn, IInv, RowsOfHandlers
<1>7. faults' = 0 => NothingFailed'
  BY <1>2 DEF NothingFailed
<1>8. faults' = 0 => GivenUp'
  <2>1. pc[r[1]] \notin {"releasing", "rejected"} \/ faults # 0
    <3>1. at[r[1]] \in Nat /\ r[2] \in Nat
      BY DEF IInv, TypeOK
    <3> QED BY <1>2, <3>1 DEF GivenUp, ReserveRunning, IInv, AskedInOrder
  <2> QED BY <1>2, <2>1 DEF GivenUp, ReserveRunning, ReleaseRunning
<1>9. LevelsInv'
  <2>1. ASSUME faults = 0 PROVE \A s \in Skus : allocated'[s] = Units(s, AllottedLines')
    <3>1. CASE ReserveAllocate(r)
      <4>1. r \notin AllottedLines /\ resv' = resv /\ rsv'[r] = "allocated" /\ resv[r] = "ACTIVE"
        BY <1>2, <3>1 DEF ReserveAllocate, AllottedLines, Allotted, IInv, RowsOfHandlers, TypeOK,
                          StockTypeOK, Statuses
      <4>2. AllottedLines' = AllottedLines \cup {r}
        BY <1>2, <4>1 DEF AllottedLines, Allotted, Marked
      <4>3. \A s \in Skus : Units(s, AllottedLines \cup {r}) = Units(s, AllottedLines) + Portion(s, r)
                            /\ Units(s, AllottedLines) \in Nat
        BY <4>1, UnitsAdd, UnitsFacts DEF AllottedLines
      <4>4. \A s \in Skus : allocated'[s] = allocated[s] + Portion(s, r)
        BY <3>1 DEF ReserveAllocate, Portion, IInv, TypeOK, StockTypeOK
      <4> QED BY <2>1, <4>2, <4>3, <4>4 DEF LevelsInv
    <3>2. CASE ~ ReserveAllocate(r)
      <4>1. allocated' = allocated
        BY <3>2 DEF ReserveStep, Reserve, ReserveRead, ReserveRefuse, ReserveCreate, ReserveRecord
      <4>2. Allotted(r)' <=> Allotted(r)
        <5>1. CASE ReserveCreate(r)
          BY <1>2, <5>1 DEF ReserveCreate, Allotted, IInv, RowsOfHandlers, TypeOK, StockTypeOK
        <5>2. CASE ~ ReserveCreate(r)
          <6>1. resv' = resv /\ rsv[r] # "created" /\ rsv'[r] # "created"
            BY <1>2, <3>2, <5>2 DEF ReserveStep, Reserve, ReserveRead, ReserveRefuse, ReserveRecord,
                IInv, TypeOK, StockTypeOK
          <6> QED BY <1>2, <6>1 DEF Allotted, Marked
        <5> QED BY <5>1, <5>2
      <4>3. \A x \in Lines : x # r => (Allotted(x)' <=> Allotted(x))
        BY <1>2 DEF Allotted, Marked
      <4>4. AllottedLines' = AllottedLines
        BY <4>2, <4>3 DEF AllottedLines
      <4> QED BY <2>1, <4>1, <4>4 DEF LevelsInv
    <3> QED BY <3>1, <3>2
  <2> QED BY <1>2, <1>5, <2>1 DEF LevelsInv, Calm
<1> QED
  BY <1>1, <1>2, <1>3, <1>5, <1>6, <1>7, <1>8, <1>9 DEF Calm

LEMMA ReleaseLInv ==
    ASSUME LInv, NEW r \in Lines, ReleaseStep(r)
    PROVE  LInv'
<1> USE LinesFacts DEF LInv
<1>1. IInv'
  BY ReleaseIInv
<1>2. /\ UNCHANGED <<onHand, low, rsv, con, retailVars, msg, faults>>
      /\ UNCHANGED <<pc, at, sales>>
      /\ ReleaseRunning(r) /\ resv[r] \in {"ACTIVE", "RELEASED"} /\ r[1] \notin sales /\ rsv[r] = "granted"
      /\ rel'[r] # "failed" /\ rel'[r] # "none" /\ rel'[r] # rel[r]
      /\ \A x \in Lines : x # r => rel'[x] = rel[x] /\ resv'[x] = resv[x]
  <2>1. ReleaseRunning(r) /\ rel'[r] # "failed" /\ rel'[r] # "none" /\ rel'[r] # rel[r]
    BY DEF ReleaseStep, Release, ReleaseRead, ReleaseMark, ReleaseFree, ReleaseRecord,
           ReleaseRunning, IInv, TypeOK, StockTypeOK
  <2>2. \A x \in Lines : x # r => rel'[x] = rel[x] /\ resv'[x] = resv[x]
    BY DEF ReleaseStep, Release, ReleaseRead, ReleaseMark, ReleaseFree, ReleaseRecord,
           IInv, TypeOK, StockTypeOK
  <2>3. UNCHANGED <<onHand, low, rsv, con, retailVars, msg, faults>> /\ UNCHANGED <<pc, at, sales>>
    BY DEF ReleaseStep, Release, ReleaseRead, ReleaseMark, ReleaseFree, ReleaseRecord, retailVars
  <2>4. r[1] \notin sales /\ rsv[r] = "granted"
    BY <2>1 DEF IInv, ReleasesAreAbandoned, ReleasesGetOn, AskedInOrder, ReleaseRunning
  <2>5. resv[r] \in {"ACTIVE", "RELEASED"}
    BY <2>4 DEF IInv, RowsOfHandlers, ConsumersOfSales, TypeOK, StockTypeOK, Statuses
  <2> QED BY <2>1, <2>2, <2>3, <2>4, <2>5
<1>3. /\ journal \subseteq journal' /\ IsFiniteSet(journal')
      /\ \A row \in journal' \ journal : row.type # "SALE"
  <2>1. CASE ReleaseRecord(r)
    <3>1. IsFiniteSet(journal \cup {Row("RELEASE", r, 0)})
      BY FS_AddElement
    <3> QED BY <2>1, <3>1 DEF ReleaseRecord, Row
  <2>2. CASE ~ ReleaseRecord(r)
    BY <2>2 DEF ReleaseStep, Release, ReleaseRead, ReleaseMark, ReleaseFree
  <2> QED BY <2>1, <2>2
<1>4. resv'[r] \in {resv[r], "RELEASED"}
  BY DEF ReleaseStep, Release, ReleaseRead, ReleaseMark, ReleaseFree, ReleaseRecord,
         IInv, TypeOK, StockTypeOK
<1>5. /\ ConsumersGetOn' /\ (Calm => TakenOnce') /\ GoneLines' = GoneLines /\ (faults = 0 => LowInv')
  BY <1>2, <1>3, <1>4, HandlerFrame
<1>6. rel'[r] \in {"marked", "freed", "done"} => resv'[r] = "RELEASED"
  <2>1. CASE ReleaseRead(r)
    <3>1. resv[r] = "ACTIVE"
      BY <1>2, <2>1 DEF ReleaseRead, IInv, RowsOfHandlers
    <3> QED BY <2>1, <3>1 DEF ReleaseRead, IInv, TypeOK, StockTypeOK
  <2>2. CASE ReleaseMark(r)
    BY <2>2 DEF ReleaseMark, IInv, TypeOK, StockTypeOK
  <2>3. CASE ReleaseFree(r) \/ ReleaseRecord(r)
    BY <2>3 DEF ReleaseFree, ReleaseRecord, ReleasesGetOn
  <2> QED BY <2>1, <2>2, <2>3 DEF ReleaseStep, Release
<1>7. ReleasesGetOn'
  BY <1>2, <1>6 DEF ReleasesGetOn, ReleaseRunning
<1>8. faults' = 0 => NothingFailed'
  BY <1>2 DEF NothingFailed
<1>9. faults' = 0 => GivenUp'
  BY <1>2 DEF GivenUp, ReserveRunning, ReleaseRunning, IInv, RowsOfHandlers
<1>10. LevelsInv'
  <2>1. ASSUME faults = 0 PROVE \A s \in Skus : allocated'[s] = Units(s, AllottedLines')
    <3>1. CASE ReleaseFree(r)
      <4>1. r \in AllottedLines /\ resv' = resv /\ rel'[r] = "freed" /\ resv[r] = "RELEASED"
        BY <1>2, <3>1 DEF ReleaseFree, AllottedLines, Allotted, ReleasesGetOn, IInv, TypeOK, StockTypeOK
      <4>2. AllottedLines' = AllottedLines \ {r} /\ r \notin AllottedLines'
        BY <1>2, <4>1 DEF AllottedLines, Allotted, Marked
      <4>3. AllottedLines' \cup {r} = AllottedLines /\ AllottedLines' \in SUBSET Lines
        BY <4>1, <4>2 DEF AllottedLines
      <4>4. ASSUME NEW s \in Skus
            PROVE  /\ Units(s, AllottedLines) = Units(s, AllottedLines') + Portion(s, r)
                   /\ Units(s, AllottedLines') \in Nat
        <5>1. Units(s, AllottedLines' \cup {r}) = Units(s, AllottedLines') + Portion(s, r)
          BY <4>2, <4>3, UnitsAdd
        <5> QED BY <4>3, <5>1, UnitsFacts
      <4>5. \A s \in Skus : allocated'[s] = allocated[s] - Portion(s, r)
        BY <3>1 DEF ReleaseFree, Portion, IInv, TypeOK, StockTypeOK
      <4>6. \A s \in Skus : Portion(s, r) \in Nat /\ allocated[s] = Units(s, AllottedLines)
        BY <2>1 DEF Portion, LevelsInv
      <4> QED BY <4>4, <4>5, <4>6
    <3>2. CASE ~ ReleaseFree(r)
      <4>1. allocated' = allocated
        BY <3>2 DEF ReleaseStep, Release, ReleaseRead, ReleaseMark, ReleaseRecord
      <4>2. Allotted(r)' <=> Allotted(r)
        <5>1. CASE ReleaseRead(r)
          BY <1>2, <5>1 DEF ReleaseRead, Allotted, Marked, IInv, TypeOK, StockTypeOK
        <5>2. CASE ReleaseMark(r)
          <6>1. resv[r] = "ACTIVE"
            BY <5>2 DEF ReleaseMark, IInv, RowsOfHandlers
          <6> QED BY <1>2, <5>2, <6>1 DEF ReleaseMark, Allotted, Marked, IInv, TypeOK, StockTypeOK
        <5>3. CASE ReleaseRecord(r)
          BY <1>2, <5>3 DEF ReleaseRecord, Allotted, Marked, IInv, TypeOK, StockTypeOK
        <5> QED BY <3>2, <5>1, <5>2, <5>3 DEF ReleaseStep, Release
      <4>3. \A x \in Lines : x # r => (Allotted(x)' <=> Allotted(x))
        BY <1>2 DEF Allotted, Marked
      <4>4. AllottedLines' = AllottedLines
        BY <4>2, <4>3 DEF AllottedLines
      <4> QED BY <2>1, <4>1, <4>4 DEF LevelsInv
    <3> QED BY <3>1, <3>2
  <2> QED BY <1>2, <1>5, <2>1 DEF LevelsInv, Calm
<1> QED
  BY <1>1, <1>2, <1>3, <1>5, <1>7, <1>8, <1>9, <1>10 DEF Calm

(* The consumer of ItemSold.                                                *)
LEMMA ConsumeGetsOn ==
    ASSUME LInv, NEW c \in Checkouts, NEW d \in Deliveries, ConsumeMove(c, d)
    PROVE  /\ ReleasesGetOn' /\ ConsumersGetOn'
           /\ faults' = 0 => NothingFailed' /\ GivenUp'
           /\ c \in sales /\ resv[LineAt(c, d)] \in {"ACTIVE", "CONSUMED"}
           /\ \A x \in Lines : resv'[x] = resv[x] \/ (x = LineAt(c, d) /\ resv'[x] = "CONSUMED")
<1> USE LinesFacts DEF LInv
<1> PICK r \in Lines : r = LineAt(c, d)
  BY DEF ConsumeMove
<1>0. /\ r = LineAt(c, d) /\ r[1] = c /\ r[2] = con[c][d].at /\ con[c][d].at \in Nat
      /\ con[c][d].step # "none"
      /\ UNCHANGED <<rsv, rel, pc, at, sales, msg, faults>>
      /\ \A x \in Checkouts, y \in Deliveries : x # c \/ y # d => con'[x][y] = con[x][y]
      /\ resv' = resv \/ resv' = [resv EXCEPT ![r] = "CONSUMED"]
  BY ConsumerLine DEF ConsumeMove, Turn, retailVars
<1>1. c \in sales
  BY <1>0 DEF IInv, ConsumersOfSales
<1>2. \A x \in Lines : x[1] = c => resv[x] \in {"ACTIVE", "CONSUMED"} /\ rel[x] = "none"
  BY <1>1, SoldRows DEF SoldLinesStayHeld, IInv, ReleasesAreAbandoned
<1>3. \A x \in Lines : resv'[x] = resv[x] \/ (x = r /\ resv'[x] = "CONSUMED")
  BY <1>0 DEF IInv, TypeOK, StockTypeOK
<1>4. ReleasesGetOn'
  BY <1>0, <1>2, <1>3 DEF ReleasesGetOn
<1>5. faults' = 0 => NothingFailed' /\ GivenUp'
  <2>1. con'[c][d].step \notin {"failed", "torn"}
    BY DEF ConsumeMove, Turn, Onward, Advance
  <2>2. pc[c] \notin {"releasing", "rejected"}
    BY <1>1 DEF IInv, SavedPlaces
  <2> QED BY <1>0, <1>3, <2>1, <2>2 DEF NothingFailed, GivenUp, ReserveRunning, ReleaseRunning
<1>6. ConsumersGetOn'
  <2>1. \A x \in Checkouts : msg'[x].state # "none" => pc'[x] = "sold"
    BY <1>0 DEF ConsumersGetOn
  <2>2. ASSUME NEW x \in Checkouts, NEW y \in Deliveries, con'[x][y].step # "none"
        PROVE  (/\ msg[x].state # "none" /\ y <= msg[x].tries
                /\ \A l \in LinesOf(x) : l[2] < con[x][y].at => resv[l] = "CONSUMED"
                /\ con[x][y].step \in {"marked", "leveled", "recorded", "counted", "torn"} =>
                       resv[LineAt(x, y)] = "CONSUMED"
                /\ con[x][y].step = "finished" => \A l \in LinesOf(x) : resv[l] = "CONSUMED")'
    <3>1. CASE x # c \/ y # d
      <4>1. con'[x][y] = con[x][y] /\ LineAt(x, y) \in Lines /\ LineAt(x, y)' = LineAt(x, y)
        BY <1>0, <3>1, ConsumerLine DEF LineAt
      <4> QED BY <1>0, <1>3, <2>2, <4>1 DEF ConsumersGetOn, LinesOf
    <3>2. CASE x = c /\ y = d
      <4>1. /\ msg'[c].state # "none" /\ d <= msg'[c].tries
            /\ \A l \in LinesOf(c) : l[2] < con[c][d].at => resv'[l] = "CONSUMED"
        BY <1>0, <1>3 DEF ConsumersGetOn, LinesOf
      <4>2. CASE con'[c][d].at = con[c][d].at /\ con'[c][d].step \notin {"finished", "next"}
        <5>1. LineAt(c, d)' = r
          BY <1>0, <4>2 DEF LineAt
        <5>0. con'[c][d].step # "torn"
          BY DEF ConsumeMove, Turn, Onward, Advance
        <5>2. con'[c][d].step \in {"marked", "leveled", "recorded", "counted"} => resv'[r] = "CONSUMED"
          <6>1. CASE con[c][d].step \in {"marked", "leveled", "recorded", "counted"}
            BY <1>0, <1>3, <6>1 DEF ConsumersGetOn
          <6>2. CASE con[c][d].step \notin {"marked", "leveled", "recorded", "counted"}
            <7>1. CASE resv' = [resv EXCEPT ![r] = "CONSUMED"]
              BY <7>1 DEF IInv, TypeOK, StockTypeOK
            <7>2. CASE ~ (resv' = [resv EXCEPT ![r] = "CONSUMED"])
              BY <1>0, <4>2, <6>2, <7>2 DEF ConsumeMove, Turn, Onward, Advance
            <7> QED BY <7>1, <7>2
          <6> QED BY <6>1, <6>2
        <5> QED BY <3>2, <4>1, <4>2, <5>0, <5>1, <5>2
      <4>3. CASE Onward(c, d)
        <5>1. resv'[r] = "CONSUMED"
          <6>1. con[c][d].step = "next" => resv[r] # "ACTIVE"
            BY <1>0, <4>3 DEF ConsumeMove, Turn, Onward, Advance
          <6>2. con[c][d].step = "next" \/ con[c][d].step = "counted"
            BY <4>3 DEF ConsumeMove, Turn, Onward, Advance
          <6>3. resv[r] = "CONSUMED"
            BY <1>0, <1>2, <6>1, <6>2 DEF ConsumersGetOn
          <6> QED BY <1>3, <6>3
        <5>2. \A l \in LinesOf(c) : l[2] = con[c][d].at => l = r
          BY <1>0 DEF LinesOf
        <5>3. \A l \in LinesOf(c) : l[2] <= con[c][d].at => resv'[l] = "CONSUMED"
          <6> SUFFICES ASSUME NEW l \in LinesOf(c), l[2] <= con[c][d].at PROVE resv'[l] = "CONSUMED"
            OBVIOUS
          <6>1. l[2] \in Nat
            BY DEF LinesOf
          <6> QED BY <1>0, <4>1, <5>1, <5>2, <6>1
        <5>4. \A l \in LinesOf(c) : l[2] \in Nat /\ l[2] <= Len(Cart[c]) /\ Len(Cart[c]) \in Nat
          BY DEF LinesOf
        <5>5. \A l \in LinesOf(c) : l[2] < con'[c][d].at => resv'[l] = "CONSUMED"
          BY <1>0, <4>3, <5>3, <5>4 DEF Onward, Advance
        <5>6. con'[c][d].step = "finished" => \A l \in LinesOf(c) : resv'[l] = "CONSUMED"
          BY <1>0, <4>3, <5>3, <5>4 DEF Onward, Advance
        <5>7. con'[c][d].step \in {"next", "finished"}
          BY <4>3 DEF Onward, Advance
        <5> QED BY <3>2, <4>1, <5>5, <5>6, <5>7
      <4> QED BY <4>2, <4>3 DEF ConsumeMove, Turn
    <3> QED BY <3>1, <3>2
  <2>3. \A x \in Lines : /\ resv'[x] = "CONSUMED" => msg'[x[1]].state # "none"
                         /\ msg'[x[1]].state = "acked" => resv'[x] = "CONSUMED"
    <3>1. msg[c].state # "none"
      BY <1>0 DEF ConsumersGetOn
    <3> QED BY <1>0, <1>3, <3>1 DEF ConsumersGetOn
  <2> QED BY <2>1, <2>2, <2>3 DEF ConsumersGetOn
<1> QED
  BY <1>0, <1>1, <1>2, <1>3, <1>4, <1>5, <1>6

(* A torn line is CONSUMED.                                                 *)
LEMMA TornConsumed ==
    ASSUME LInv PROVE \A x \in TornLines : x \in Lines /\ resv[x] = "CONSUMED"
<1> SUFFICES ASSUME NEW x \in TornLines PROVE x \in Lines /\ resv[x] = "CONSUMED"
  OBVIOUS
<1>1. PICK d \in Deliveries : con[x[1]][d].step = "torn" /\ con[x[1]][d].at = x[2]
  BY DEF TornLines
<1>2. x \in Lines /\ x = <<x[1], x[2]>> /\ x[1] \in Checkouts
  BY LinesFacts DEF TornLines
<1>3. LineAt(x[1], d) = x
  BY <1>1, <1>2 DEF LineAt
<1> QED
  BY <1>1, <1>2, <1>3 DEF LInv, ConsumersGetOn

LEMMA ConsumeTakesOnce ==
    ASSUME LInv, NEW c \in Checkouts, NEW d \in Deliveries, ConsumeMove(c, d), Calm
    PROVE  /\ TakenOnce' /\ IsFiniteSet(journal')
           /\ \A y \in Deliveries : y # d => ~ ConsumeRunning(c, y)
<1> USE LinesFacts DEF LInv
<1> PICK r \in Lines : r = LineAt(c, d)
  BY DEF ConsumeMove
<1>0. /\ r = LineAt(c, d) /\ r[1] = c /\ r[2] = con[c][d].at
      /\ ConsumeRunning(c, d)
      /\ UNCHANGED <<rsv, rel, pc, at, sales, msg, faults>>
      /\ \A x \in Checkouts, y \in Deliveries : x # c \/ y # d => con'[x][y] = con[x][y]
  BY DEF ConsumeMove, Turn, retailVars, ConsumeRunning
<1>1. \A x \in Lines : resv'[x] = resv[x] \/ (x = r /\ resv'[x] = "CONSUMED")
  BY <1>0, ConsumeGetsOn
<1>2. msg[c].state = "inflight" /\ msg[c].tries = d
  BY <1>0 DEF TakenOnce
<1>3. \A y \in Deliveries : y # d => ~ ConsumeRunning(c, y)
  BY <1>2 DEF TakenOnce
<1>4. \/ journal' = journal
      \/ /\ con[c][d].step = "leveled" /\ Turn(c, d, "leveled", "recorded")
         /\ journal' = journal \cup {Row("SALE", r, d)}
  BY <1>0 DEF ConsumeMove, Turn
<1>5. IsFiniteSet(journal')
  <2>1. IsFiniteSet(journal \cup {Row("SALE", r, d)})
    BY FS_AddElement
  <2> QED BY <1>4, <2>1
<1>6. \A x \in Lines : x # r => SaleOf(x)' = SaleOf(x)
  <2> SUFFICES ASSUME NEW x \in Lines, x # r PROVE SaleOf(x)' = SaleOf(x)
    OBVIOUS
  <2>1. Row("SALE", r, d).line = r
    BY DEF Row
  <2> QED BY <1>4, <2>1 DEF SaleOf
<1>t. TornLines' = TornLines
  <2>1. con[c][d].step # "torn" /\ con'[c][d].step # "torn"
    BY DEF ConsumeMove, Turn, Onward, Advance
  <2>2. \A x \in Checkouts, y \in Deliveries : /\ con'[x][y].step = "torn" <=> con[x][y].step = "torn"
                                               /\ con[x][y].step = "torn" => con'[x][y] = con[x][y]
    BY <1>0, <2>1
  <2> QED BY <2>2 DEF TornLines
<1>7. ASSUME NEW x \in Checkouts, NEW y \in Deliveries, ConsumeRunning(x, y)'
      PROVE  (/\ msg[x].state = "inflight" /\ msg[x].tries = y
              /\ con[x][y].step = "read" => resv[LineAt(x, y)] = "ACTIVE"
              /\ con[x][y].step \in {"marked", "leveled"} => SaleOf(LineAt(x, y)) = {}
              /\ con[x][y].step \in {"marked", "leveled"} => LineAt(x, y) \notin TornLines)'
  <2>1. CASE x # c
    <3>1. con'[x][y] = con[x][y] /\ LineAt(x, y) \in Lines /\ LineAt(x, y)' = LineAt(x, y)
          /\ LineAt(x, y) # r
      BY <1>0, <2>1, ConsumerLine DEF LineAt
    <3>2. ConsumeRunning(x, y)
      BY <1>7, <3>1 DEF ConsumeRunning
    <3>3. SaleOf(LineAt(x, y))' = SaleOf(LineAt(x, y))
      BY <1>6, <3>1 DEF SaleOf
    <3>4. resv'[LineAt(x, y)] = resv[LineAt(x, y)]
      BY <1>1, <3>1
    <3> QED BY <1>0, <1>t, <3>1, <3>2, <3>3, <3>4 DEF TakenOnce
  <2>2. CASE x = c
    <3>1. y = d
      BY <1>0, <1>3, <1>7, <2>2 DEF ConsumeRunning
    <3>2. con'[c][d].step = "read" => resv'[LineAt(c, d)'] = "ACTIVE"
      <4> SUFFICES ASSUME con'[c][d].step = "read" PROVE resv'[LineAt(c, d)'] = "ACTIVE"
        OBVIOUS
      <4>1. Turn(c, d, "next", "read") /\ resv[r] = "ACTIVE" /\ resv' = resv
        BY <1>0 DEF ConsumeMove, Turn, Onward, Advance
      <4>2. LineAt(c, d)' = r
        BY <1>0, <4>1 DEF LineAt, Turn
      <4> QED BY <4>1, <4>2
    <3>3. con'[c][d].step \in {"marked", "leveled"} => SaleOf(LineAt(c, d))' = {}
      <4> SUFFICES ASSUME con'[c][d].step \in {"marked", "leveled"} PROVE SaleOf(LineAt(c, d))' = {}
        OBVIOUS
      <4>1. Turn(c, d, "read", "marked") \/ Turn(c, d, "marked", "leveled")
        BY <1>0 DEF ConsumeMove, Turn, Onward, Advance
      <4>2. journal' = journal
        BY <1>4, <4>1 DEF Turn
      <4>3. LineAt(c, d)' = r
        BY <1>0, <4>1 DEF LineAt, Turn
      <4>4. SaleOf(r) = {}
        <5>1. CASE con[c][d].step = "read"
          BY <1>0, <5>1 DEF TakenOnce, SaleOf
        <5>2. CASE con[c][d].step = "marked"
          BY <1>0, <5>2 DEF TakenOnce
        <5> QED BY <4>1, <5>1, <5>2 DEF Turn
      <4> QED BY <4>2, <4>3, <4>4 DEF SaleOf
    <3>4. con'[c][d].step \in {"marked", "leveled"} => LineAt(c, d)' \notin TornLines'
      <4> SUFFICES ASSUME con'[c][d].step \in {"marked", "leveled"} PROVE LineAt(c, d)' \notin TornLines
        BY <1>t
      <4>1. Turn(c, d, "read", "marked") \/ Turn(c, d, "marked", "leveled")
        BY <1>0 DEF ConsumeMove, Turn, Onward, Advance
      <4>2. LineAt(c, d)' = r
        BY <1>0, <4>1 DEF LineAt, Turn
      <4>3. CASE con[c][d].step = "read"
        <5>1. resv[r] = "ACTIVE"
          BY <1>0, <4>3 DEF TakenOnce
        <5>2. \A line \in TornLines : resv[line] = "CONSUMED"
          BY TornConsumed
        <5> QED BY <4>2, <5>1, <5>2
      <4>4. CASE con[c][d].step = "marked"
        BY <1>0, <4>2, <4>4 DEF TakenOnce
      <4> QED BY <4>1, <4>3, <4>4 DEF Turn
    <3> QED BY <1>0, <1>2, <2>2, <3>1, <3>2, <3>3, <3>4
  <2> QED BY <2>1, <2>2
<1>8. CASE journal' = journal
  <2>1. \A row \in journal : row.type = "SALE" => row.line \in Lines
    BY DEF IInv, TypeOK, StockTypeOK, Rows
  <2>2. \A row \in journal : row.type = "SALE" => resv'[row.line] = "CONSUMED"
    BY <1>1, <2>1 DEF TakenOnce
  <2> QED BY <1>3, <1>5, <1>7, <1>8, <2>2 DEF TakenOnce
<1>9. CASE con[c][d].step = "leveled" /\ journal' = journal \cup {Row("SALE", r, d)}
  <2>1. SaleOf(r) = {} /\ resv[r] = "CONSUMED"
    BY <1>0, <1>9 DEF TakenOnce, ConsumersGetOn
  <2>2. \A row \in journal : row.type = "SALE" => row.line \in Lines /\ row.line # r
    BY <2>1 DEF IInv, TypeOK, StockTypeOK, Rows, SaleOf
  <2>3. Row("SALE", r, d).line = r
    BY DEF Row
  <2>4. \A row \in journal' : row.type = "SALE" => resv'[row.line] = "CONSUMED"
    BY <1>1, <1>9, <2>1, <2>2, <2>3 DEF TakenOnce
  <2>5. \A x, y \in journal' : x.type = "SALE" /\ y.type = "SALE" /\ x.line = y.line => x = y
    BY <1>9, <2>2, <2>3 DEF TakenOnce
  <2> QED BY <1>3, <1>5, <1>7, <2>4, <2>5 DEF TakenOnce
<1> QED
  BY <1>4, <1>8, <1>9

LEMMA ConsumeLevels ==
    ASSUME LInv, NEW c \in Checkouts, NEW d \in Deliveries, ConsumeMove(c, d)
    PROVE  LevelsInv'
<1> USE LinesFacts DEF LInv
<1> SUFFICES ASSUME Calm PROVE LevelsInv'
  <2>1. faults' = faults
    BY DEF ConsumeMove
  <2>2. ~ Calm => ~ Calm' /\ faults' # 0
    BY <2>1 DEF Calm
  <2> QED BY <2>2 DEF LevelsInv
<1> PICK r \in Lines : r = LineAt(c, d)
  BY DEF ConsumeMove
<1>0. /\ r = LineAt(c, d) /\ r[1] = c /\ r[2] = con[c][d].at
      /\ ConsumeRunning(c, d)
      /\ UNCHANGED <<rsv, rel, pc, at, sales, msg, faults>>
      /\ \A x \in Checkouts, y \in Deliveries : x # c \/ y # d => con'[x][y] = con[x][y]
  BY DEF ConsumeMove, Turn, retailVars, ConsumeRunning
<1>1. \A x \in Lines : resv'[x] = resv[x] \/ (x = r /\ resv'[x] = "CONSUMED")
  BY <1>0, ConsumeGetsOn
<1>2. \A y \in Deliveries : y # d => ~ ConsumeRunning(c, y)
  BY ConsumeTakesOnce
<1>3. rsv[r] = "granted" /\ rel[r] = "none"
  <2>1. c \in sales
    BY ConsumeGetsOn
  <2>2. at[c] \in Nat /\ at[c] > Len(Cart[c]) /\ Len(Cart[c]) \in Nat /\ r[2] \in Nat /\ r[2] <= Len(Cart[c])
    BY <1>0, <2>1 DEF IInv, SavedPlaces, TypeOK
  <2> QED BY <1>0, <2>1, <2>2 DEF IInv, AskedInOrder, ReleasesAreAbandoned
<1>4. ASSUME NEW x \in Lines, x # r PROVE Marked(x)' <=> Marked(x)
  <2>1. CASE x[1] # c
    BY <1>0, <2>1 DEF Marked
  <2>2. CASE x[1] = c
    <3>1. x[2] # r[2]
      BY <1>0, <1>4, <2>2
    <3>2. ~ (con'[c][d].step \in {"marked", "torn"} /\ con'[c][d].at = x[2])
      BY <1>0, <3>1 DEF ConsumeMove, Turn, Onward, Advance
    <3> QED BY <1>0, <2>2, <3>1, <3>2 DEF Marked
  <2> QED BY <2>1, <2>2
<1> DEFINE torn == \E y \in Deliveries : con[c][y].step = "torn" /\ con[c][y].at = r[2]
<1>t. /\ torn <=> r \in TornLines
      /\ con[c][d].step \in {"read", "marked"} => ~ torn
      /\ con[c][d].step # "torn"
  <2>1. torn <=> r \in TornLines
    BY <1>0 DEF TornLines
  <2>2. con[c][d].step = "read" => r \notin TornLines
    BY <1>0, TornConsumed DEF TakenOnce
  <2>3. con[c][d].step = "marked" => r \notin TornLines
    BY <1>0 DEF TakenOnce
  <2>4. con[c][d].step # "torn"
    BY <1>0 DEF ConsumeRunning
  <2> QED BY <2>1, <2>2, <2>3, <2>4
<1>5. Marked(r) <=> con[c][d].step = "marked" \/ torn
  BY <1>0, <1>2 DEF Marked, ConsumeRunning
<1>6. Marked(r)' <=> Turn(c, d, "read", "marked") \/ torn
  <2>1. \A y \in Deliveries : y # d => con'[c][y] = con[c][y] /\ con'[c][y].step # "marked"
    BY <1>0, <1>2 DEF ConsumeRunning
  <2>2. con'[c][d].step \in {"marked", "torn"} <=> Turn(c, d, "read", "marked")
    BY DEF ConsumeMove, Turn, Onward, Advance
  <2>3. Marked(r)' <=> \/ con'[c][d].step \in {"marked", "torn"} /\ con'[c][d].at = r[2]
                       \/ \E y \in Deliveries : y # d /\ con[c][y].step = "torn" /\ con[c][y].at = r[2]
    BY <1>0, <2>1 DEF Marked
  <2>4. Turn(c, d, "read", "marked") => con'[c][d].at = r[2]
    BY <1>0 DEF Turn
  <2> QED BY <1>t, <2>2, <2>3, <2>4
<1>7. \A x \in Lines : x # r => /\ x \in GoneLines' <=> x \in GoneLines
                                /\ x \in AllottedLines' <=> x \in AllottedLines
  BY <1>0, <1>1, <1>4 DEF GoneLines, AllottedLines, Allotted
<1>8. CASE ~ Turn(c, d, "marked", "leveled")
  <2>1. onHand' = onHand /\ allocated' = allocated
    BY <1>8 DEF ConsumeMove
  <2>2. (r \in GoneLines' <=> r \in GoneLines) /\ (r \in AllottedLines' <=> r \in AllottedLines)
    <3>1. CASE Turn(c, d, "read", "marked")
      <4>1. resv[r] = "ACTIVE" /\ ~ Marked(r) /\ Marked(r)'
        BY <1>0, <1>t, <1>5, <1>6, <3>1 DEF TakenOnce, Turn
      <4>2. resv'[r] = "CONSUMED"
        BY <1>0, <3>1 DEF ConsumeMove, Turn, IInv, TypeOK, StockTypeOK
      <4> QED BY <1>3, <4>1, <4>2 DEF GoneLines, AllottedLines, Allotted
    <3>2. CASE ~ Turn(c, d, "read", "marked")
      <4>1. resv'[r] = resv[r]
        BY <1>0, <3>2 DEF ConsumeMove
      <4>2. Marked(r)' <=> Marked(r)
        BY <1>5, <1>6, <1>8, <3>2 DEF ConsumeMove, Turn
      <4> QED BY <1>0, <1>3, <4>1, <4>2 DEF GoneLines, AllottedLines, Allotted
    <3> QED BY <3>1, <3>2
  <2>3. GoneLines' = GoneLines /\ AllottedLines' = AllottedLines
    BY <1>7, <2>2 DEF GoneLines, AllottedLines
  <2> QED BY <1>0, <2>1, <2>3 DEF LevelsInv, Calm
<1>9. CASE Turn(c, d, "marked", "leveled")
  <2>1. /\ onHand' = [onHand EXCEPT ![Sku(r)] = @ - Qty(r)]
        /\ allocated' = [allocated EXCEPT ![Sku(r)] = @ - Qty(r)]
        /\ resv' = resv /\ resv[r] = "CONSUMED"
    BY <1>0, <1>9 DEF ConsumeMove, Turn, ConsumersGetOn
  <2>2. Marked(r) /\ ~ Marked(r)'
    BY <1>t, <1>5, <1>6, <1>9 DEF Turn
  <2>3. r \notin GoneLines /\ r \in GoneLines' /\ r \in AllottedLines /\ r \notin AllottedLines'
    BY <1>3, <2>1, <2>2 DEF GoneLines, AllottedLines, Allotted
  <2>4. GoneLines' = GoneLines \cup {r} /\ AllottedLines = AllottedLines' \cup {r}
    BY <1>7, <2>3 DEF GoneLines, AllottedLines
  <2>5. ASSUME NEW s \in Skus
        PROVE  /\ Units(s, GoneLines') = Units(s, GoneLines) + Portion(s, r)
               /\ Units(s, AllottedLines) = Units(s, AllottedLines') + Portion(s, r)
               /\ Units(s, GoneLines) \in Nat /\ Units(s, AllottedLines') \in Nat
    <3>1. GoneLines \in SUBSET Lines /\ AllottedLines' \in SUBSET Lines
      BY DEF GoneLines, AllottedLines
    <3>2. /\ Units(s, GoneLines \cup {r}) = Units(s, GoneLines) + Portion(s, r)
          /\ Units(s, AllottedLines' \cup {r}) = Units(s, AllottedLines') + Portion(s, r)
      BY <2>3, <3>1, UnitsAdd
    <3> QED BY <2>4, <3>1, <3>2, UnitsFacts
  <2>6. \A s \in Skus : /\ onHand'[s] = onHand[s] - Portion(s, r)
                        /\ allocated'[s] = allocated[s] - Portion(s, r)
                        /\ Portion(s, r) \in Nat
                        /\ onHand[s] \in Int /\ allocated[s] \in Int /\ Stock0[s] \in Int
    <3>1. /\ onHand \in [Skus -> Int] /\ allocated \in [Skus -> Int] /\ Stock0 \in [Skus -> Nat]
          /\ Sku(r) \in Skus /\ Qty(r) \in Nat
      BY NumbersAssumption DEF IInv, TypeOK, StockTypeOK
    <3> SUFFICES ASSUME NEW s \in Skus
                 PROVE  /\ onHand'[s] = onHand[s] - Portion(s, r)
                        /\ allocated'[s] = allocated[s] - Portion(s, r)
                        /\ Portion(s, r) \in Nat
                        /\ onHand[s] \in Int /\ allocated[s] \in Int /\ Stock0[s] \in Int
      OBVIOUS
    <3>2. CASE Sku(r) = s
      BY <2>1, <3>1, <3>2 DEF Portion
    <3>3. CASE Sku(r) # s
      BY <2>1, <3>1, <3>3 DEF Portion
    <3> QED BY <3>2, <3>3
  <2>7. ASSUME NEW s \in Skus
        PROVE  /\ onHand'[s] = Stock0[s] - Units(s, GoneLines')
               /\ faults = 0 => allocated'[s] = Units(s, AllottedLines')
    <3>1. /\ onHand[s] = Stock0[s] - Units(s, GoneLines)
          /\ faults = 0 => allocated[s] = Units(s, AllottedLines)
      BY DEF LevelsInv
    <3>2. /\ Units(s, GoneLines') = Units(s, GoneLines) + Portion(s, r)
          /\ Units(s, AllottedLines) = Units(s, AllottedLines') + Portion(s, r)
          /\ Units(s, GoneLines) \in Nat /\ Units(s, AllottedLines') \in Nat
      BY <2>5
    <3>3. /\ onHand'[s] = onHand[s] - Portion(s, r)
          /\ allocated'[s] = allocated[s] - Portion(s, r)
          /\ Portion(s, r) \in Nat
          /\ onHand[s] \in Int /\ allocated[s] \in Int /\ Stock0[s] \in Int
      BY <2>6
    <3>5. Units(s, GoneLines) \in Int /\ Units(s, GoneLines') \in Int /\ Portion(s, r) \in Int
          /\ Units(s, AllottedLines) \in Int /\ Units(s, AllottedLines') \in Int
          /\ onHand'[s] \in Int /\ allocated'[s] \in Int
      BY <3>2, <3>3
    <3>6. onHand'[s] = Stock0[s] - Units(s, GoneLines')
      <4>1. /\ onHand[s] = Stock0[s] - Units(s, GoneLines)
            /\ Units(s, GoneLines') = Units(s, GoneLines) + Portion(s, r)
            /\ onHand'[s] = onHand[s] - Portion(s, r)
        BY <3>1, <3>2, <3>3
      <4> QED BY ONLY <3>3, <3>5, <4>1
    <3>8. faults = 0 => allocated'[s] = Units(s, AllottedLines')
      BY <3>1, <3>2, <3>3, <3>5
    <3> QED BY <3>6, <3>8
  <2> QED BY <1>0, <2>7 DEF LevelsInv
<1> QED
  BY <1>8, <1>9

(* A statement of a consumer that reports nothing leaves those who do.      *)
LEMMA ConsumeLow ==
    ASSUME LInv, NEW c \in Checkouts, NEW d \in Deliveries, ConsumeMove(c, d), faults = 0
    PROVE  LowInv'
<1> USE LinesFacts DEF LInv
<1> PICK r \in Lines : r = LineAt(c, d)
  BY DEF ConsumeMove
<1>0. /\ r = LineAt(c, d) /\ r[1] = c /\ r[2] = con[c][d].at
      /\ \A x \in Checkouts, y \in Deliveries : x # c \/ y # d => con'[x][y] = con[x][y]
  BY DEF ConsumeMove
<1>1. ASSUME NEW to, con'[c][d].at = con[c][d].at, con'[c][d].step = to
      PROVE  LineAt(c, d)' = r
  BY <1>0, <1>1 DEF LineAt
<1>2. low \subseteq low'
  BY DEF ConsumeMove
<1> SUFFICES ASSUME NEW s \in Skus, SalesOf(s)' # {}, onHand'[s] <= ReorderThreshold(SalesOf(s)'), s \notin low'
             PROVE  \E x \in Checkouts, y \in Deliveries : Reporting(x, y, s)'
  BY DEF LowInv
<1>3. CASE s = Sku(r) /\ con'[c][d].step \in {"leveled", "recorded"}
  <2>1. LineAt(c, d)' = r
    BY <1>0, <1>3 DEF ConsumeMove, Turn, Onward, Advance, LineAt
  <2> QED BY <1>3, <2>1 DEF Reporting
<1>4. CASE s = Sku(r) /\ con'[c][d].step = "counted"
  <2>1. Turn(c, d, "recorded", "counted") /\ con'[c][d].counted = SalesOf(Sku(r)) /\ journal' = journal
    BY <1>0, <1>4 DEF ConsumeMove, Turn, Onward, Advance
  <2>2. LineAt(c, d)' = r
    BY <1>0, <2>1 DEF Turn, LineAt
  <2>3. con'[c][d].counted = SalesOf(s)'
    BY <1>4, <2>1 DEF SalesOf
  <2> QED BY <1>4, <2>2, <2>3 DEF Reporting
<1>5. CASE s # Sku(r) \/ con'[c][d].step \notin {"leveled", "recorded", "counted"}
  <2>1. SalesOf(s)' = SalesOf(s) /\ onHand'[s] = onHand[s]
    <3>1. CASE Turn(c, d, "marked", "leveled")
      <4>1. journal' = journal /\ onHand' = [onHand EXCEPT ![Sku(r)] = @ - Qty(r)] /\ s # Sku(r)
        BY <1>0, <1>5, <3>1 DEF ConsumeMove, Turn
      <4> QED BY <4>1 DEF SalesOf, IInv, TypeOK, StockTypeOK
    <3>2. CASE Turn(c, d, "leveled", "recorded")
      <4>1. journal' = journal \cup {Row("SALE", r, d)} /\ onHand' = onHand /\ s # Sku(r)
        BY <1>0, <1>5, <3>2 DEF ConsumeMove, Turn
      <4>2. Row("SALE", r, d).line = r
        BY DEF Row
      <4> QED BY <4>1, <4>2 DEF SalesOf
    <3>3. CASE ~ Turn(c, d, "marked", "leveled") /\ ~ Turn(c, d, "leveled", "recorded")
      <4>1. journal' = journal /\ onHand' = onHand
        BY <3>3 DEF ConsumeMove
      <4> QED BY <4>1 DEF SalesOf
    <3> QED BY <3>1, <3>2, <3>3
  <2>2. PICK x \in Checkouts, y \in Deliveries : Reporting(x, y, s)
    BY <1>2, <2>1 DEF LowInv
  <2>3. CASE x # c \/ y # d
    <3>1. con'[x][y] = con[x][y] /\ LineAt(x, y)' = LineAt(x, y)
      BY <1>0, <2>3 DEF LineAt
    <3> QED BY <2>1, <2>2, <3>1 DEF Reporting
  <2>4. CASE x = c /\ y = d
    <3>1. /\ s = Sku(r) /\ con[c][d].step \in {"leveled", "recorded", "counted"}
          /\ con[c][d].step = "counted" => con[c][d].counted = SalesOf(s)
      BY <1>0, <2>2, <2>4 DEF Reporting
    <3>2. con[c][d].step = "counted"
      BY <1>0, <1>5, <3>1 DEF ConsumeMove, Turn, Onward, Advance
    <3>3. low' = IF onHand[s] - allocated[s] <= ReorderThreshold(SalesOf(s)) THEN low \cup {s} ELSE low
      BY <1>0, <3>1, <3>2 DEF ConsumeMove, Turn
    <3>4. ReorderThreshold(SalesOf(s)) \in Int
      <4>1. IsFiniteSet(SalesOf(s)) /\ \A row \in SalesOf(s) : row.line \in Lines
        BY FS_Subset DEF SalesOf, IInv, TypeOK, StockTypeOK, Rows
      <4> QED BY <4>1, ThresholdInt
    <3>5. allocated[s] \in Nat /\ onHand[s] \in Int
      <4>1. AllottedLines \in SUBSET Lines
        BY DEF AllottedLines
      <4>2. Units(s, AllottedLines) \in Nat
        BY <4>1, UnitsFacts
      <4> QED BY <4>2 DEF LevelsInv, IInv, TypeOK, StockTypeOK
    <3>6. onHand[s] - allocated[s] <= ReorderThreshold(SalesOf(s))
      BY <2>1, <3>4, <3>5
    <3> QED BY <3>3, <3>6
  <2> QED BY <2>3, <2>4
<1> QED
  BY <1>3, <1>4, <1>5

LEMMA ConsumeLInv ==
    ASSUME LInv, NEW c \in Checkouts, NEW d \in Deliveries, ConsumeStep(c, d)
    PROVE  LInv'
<1>1. ConsumeMove(c, d) /\ IInv'
  BY ConsumeMoves, ConsumeIInv DEF LInv
<1>2. faults' = faults
  BY <1>1 DEF ConsumeMove
<1>3. IsFiniteSet(journal')
  <2>1. IsFiniteSet(journal \cup {Row("SALE", LineAt(c, d), d)})
    BY FS_AddElement DEF LInv
  <2>2. journal' = journal \/ journal' = journal \cup {Row("SALE", LineAt(c, d), d)}
    BY <1>1 DEF ConsumeMove
  <2> QED BY <2>1, <2>2 DEF LInv
<1> QED
  BY <1>1, <1>2, <1>3, ConsumeGetsOn, ConsumeTakesOnce, ConsumeLevels, ConsumeLow DEF LInv, Calm

(* The queue and the failures leave levels, rows and journal alone; they    *)
(* start consumers, stop them, and settle messages.                         *)
QueueMove(c, d) ==
    \/ con'[c][d] = con[c][d]
    \/ /\ ConsumeRunning(c, d) /\ con'[c][d].step = BrokenOff(con[c][d].step)
       /\ con'[c][d].at = con[c][d].at
    \/ /\ msg[c].state = "queued" /\ con[c][d].step = "none" /\ d <= msg'[c].tries
       /\ con'[c][d].step = "next" /\ con'[c][d].at = 1

LEMMA QueueFrame ==
    ASSUME LInv, UNCHANGED <<onHand, allocated, resv, journal, low, seen, retailVars>>,
           faults' = 0 => faults = 0, TypeOK',
           \A c \in Checkouts, d \in Deliveries : QueueMove(c, d),
           \A c \in Checkouts : /\ msg'[c].state = "none" <=> msg[c].state = "none"
                                /\ msg[c].tries <= msg'[c].tries
                                /\ msg'[c].state = "acked" =>
                                     \/ msg[c].state = "acked"
                                     \/ \E d \in Deliveries : con[c][d].step = "finished"
    PROVE  /\ ConsumersGetOn'
           /\ \A x \in Lines : Marked(x)' <=> Marked(x)
           /\ Calm' => \A s \in Skus : onHand'[s] = Stock0[s] - Units(s, GoneLines')
<1> USE LinesFacts DEF LInv
<1>0. UNCHANGED <<pc, at, sales>>
  BY DEF retailVars
<1>1. \A x \in Checkouts : msg'[x].state # "none" => pc'[x] = "sold"
  BY <1>0 DEF ConsumersGetOn
<1>y. \A x \in Checkouts : msg'[x].tries \in Nat
  BY DEF TypeOK
<1>n. ASSUME NEW x \in Checkouts, NEW n \in Nat, msg[x].tries \in Nat, n <= msg[x].tries
      PROVE  n <= msg'[x].tries
  BY <1>n, <1>y
<1>2. ASSUME NEW x \in Checkouts, NEW y \in Deliveries, con'[x][y].step # "none"
      PROVE  (/\ msg[x].state # "none" /\ y <= msg[x].tries
              /\ \A l \in LinesOf(x) : l[2] < con[x][y].at => resv[l] = "CONSUMED"
              /\ con[x][y].step \in {"marked", "leveled", "recorded", "counted", "torn"} =>
                     resv[LineAt(x, y)] = "CONSUMED"
              /\ con[x][y].step = "finished" => \A l \in LinesOf(x) : resv[l] = "CONSUMED")'
  <2>1. CASE con'[x][y] = con[x][y]
    <3>1. LineAt(x, y)' = LineAt(x, y)
      BY <2>1 DEF LineAt
    <3>2. y <= msg[x].tries /\ msg[x].tries \in Nat /\ y \in Nat
      BY <1>2, <2>1, NumbersAssumption DEF ConsumersGetOn, IInv, TypeOK
    <3>3. y <= msg'[x].tries
      BY <1>n, <3>2
    <3> QED BY <1>2, <2>1, <3>1, <3>3 DEF ConsumersGetOn
  <2>2. CASE ConsumeRunning(x, y) /\ con'[x][y].step = BrokenOff(con[x][y].step) /\ con'[x][y].at = con[x][y].at
    <3>1. LineAt(x, y)' = LineAt(x, y) /\ con[x][y].step # "none"
      BY <2>2 DEF LineAt, ConsumeRunning
    <3>2. y <= msg[x].tries /\ msg[x].tries \in Nat /\ y \in Nat
      BY <3>1, NumbersAssumption DEF ConsumersGetOn, IInv, TypeOK
    <3>3. y <= msg'[x].tries
      BY <1>n, <3>2
    <3>4. /\ con'[x][y].step \in {"failed", "torn"}
          /\ con'[x][y].step = "torn" => con[x][y].step = "marked"
      BY <2>2 DEF BrokenOff
    <3>5. /\ msg[x].state # "none"
          /\ \A l \in LinesOf(x) : l[2] < con[x][y].at => resv[l] = "CONSUMED"
          /\ con[x][y].step = "marked" => resv[LineAt(x, y)] = "CONSUMED"
      BY <3>1 DEF ConsumersGetOn
    <3>6. con'[x][y].step = "torn" => resv'[LineAt(x, y)'] = "CONSUMED"
      BY <3>1, <3>4, <3>5
    <3> QED BY <2>2, <3>3, <3>4, <3>5, <3>6 DEF LinesOf
  <2>3. CASE msg[x].state = "queued" /\ y <= msg'[x].tries /\ con'[x][y].step = "next" /\ con'[x][y].at = 1
    <3>1. \A l \in LinesOf(x) : ~ (l[2] < 1)
      BY DEF LinesOf
    <3> QED BY <2>3, <3>1 DEF LinesOf
  <2> QED BY <2>1, <2>2, <2>3 DEF QueueMove
<1>3. \A x \in Lines : /\ resv'[x] = "CONSUMED" => msg'[x[1]].state # "none"
                       /\ msg'[x[1]].state = "acked" => resv'[x] = "CONSUMED"
  <2> SUFFICES ASSUME NEW x \in Lines
               PROVE  /\ resv'[x] = "CONSUMED" => msg'[x[1]].state # "none"
                      /\ msg'[x[1]].state = "acked" => resv'[x] = "CONSUMED"
    OBVIOUS
  <2>1. x \in LinesOf(x[1]) /\ x[1] \in Checkouts
    BY DEF LinesOf
  <2> QED BY <2>1 DEF ConsumersGetOn
<1>4. ConsumersGetOn'
  BY <1>1, <1>2, <1>3 DEF ConsumersGetOn
<1>5. \A x \in Lines : Marked(x)' <=> Marked(x)
  <2>1. \A x \in Checkouts, y \in Deliveries :
           /\ con'[x][y].step \in {"marked", "torn"} <=> con[x][y].step \in {"marked", "torn"}
           /\ con[x][y].step \in {"marked", "torn"} => con'[x][y].at = con[x][y].at
    BY DEF QueueMove, BrokenOff, ConsumeRunning
  <2> QED BY <2>1 DEF Marked
<1>6. GoneLines' = GoneLines
  BY <1>5 DEF GoneLines
<1>7. ASSUME Calm', NEW s \in Skus PROVE onHand'[s] = Stock0[s] - Units(s, GoneLines')
  BY <1>6, <1>7 DEF Calm, LevelsInv
<1> QED
  BY <1>4, <1>5, <1>7

LEMMA QueueLInv ==
    ASSUME LInv, QueueStep
    PROVE  LInv'
<1> USE LinesFacts DEF LInv
<1>0. /\ IInv' /\ faults \in Nat
      /\ con \in [Checkouts -> [Deliveries -> Progress]]
      /\ msg \in [Checkouts -> [state : MsgStates, redelivered : BOOLEAN, tries : Nat]]
  BY QueueIInv DEF IInv, TypeOK, StockTypeOK
(* A failure: only what holds whatever fails is left to show.               *)
<1>1. ASSUME UNCHANGED <<onHand, allocated, resv, journal, low, seen, retailVars>>,
             faults' = faults + 1, ReleasesGetOn',
             \A c \in Checkouts, d \in Deliveries : QueueMove(c, d),
             \A c \in Checkouts : /\ msg'[c].state = "none" <=> msg[c].state = "none"
                                  /\ msg[c].tries <= msg'[c].tries
                                  /\ msg'[c].state = "acked" => msg[c].state = "acked",
             Calm' => Calm /\ \A c \in Checkouts, d \in Deliveries : ConsumeRunning(c, d)' =>
                         con'[c][d] = con[c][d] /\ msg'[c] = msg[c]
      PROVE  LInv'
  <2>1. faults' # 0
    BY <1>0, <1>1
  <2>2. ConsumersGetOn' /\ (Calm' => \A s \in Skus : onHand'[s] = Stock0[s] - Units(s, GoneLines'))
    <3>1. TypeOK'
      BY <1>0 DEF IInv
    <3> HIDE DEF LInv
    <3> QED BY <1>1, <2>1, <3>1, QueueFrame
  <2>3. ASSUME Calm' PROVE TakenOnce'
    <3>1. ASSUME NEW x \in Checkouts, NEW y \in Deliveries, ConsumeRunning(x, y)'
          PROVE  (/\ msg[x].state = "inflight" /\ msg[x].tries = y
                  /\ con[x][y].step = "read" => resv[LineAt(x, y)] = "ACTIVE"
                  /\ con[x][y].step \in {"marked", "leveled"} => SaleOf(LineAt(x, y)) = {}
                  /\ con[x][y].step \in {"marked", "leveled"} => LineAt(x, y) \notin TornLines)'
      <4>1. con'[x][y] = con[x][y] /\ msg'[x] = msg[x] /\ LineAt(x, y)' = LineAt(x, y)
        BY <1>1, <2>3, <3>1 DEF LineAt
      <4>2. ConsumeRunning(x, y) /\ SaleOf(LineAt(x, y))' = SaleOf(LineAt(x, y))
        BY <1>1, <3>1, <4>1 DEF ConsumeRunning, SaleOf
      <4>3. ASSUME con[x][y].step \in {"marked", "leveled"}, LineAt(x, y) \in TornLines' PROVE FALSE
        <5>1. PICK z \in Deliveries : con'[x][z].step = "torn" /\ con'[x][z].at = con[x][y].at
          BY <4>3, ConsumerLine DEF TornLines
        <5>2. LineAt(x, y) \notin TornLines
          BY <1>1, <2>3, <4>2, <4>3 DEF TakenOnce
        <5>3. con'[x][z] # con[x][z]
          BY <5>1, <5>2, ConsumerLine DEF TornLines
        <5>4. ConsumeRunning(x, z)
          BY <1>1, <5>1, <5>3 DEF QueueMove
        <5>5. z = y
          BY <1>1, <2>3, <4>2, <5>4 DEF TakenOnce
        <5> QED BY <4>1, <5>3, <5>5
      <4> QED BY <1>1, <2>3, <4>1, <4>2, <4>3 DEF TakenOnce
    <3> QED BY <1>1, <2>3, <3>1 DEF TakenOnce
  <2>4. LevelsInv'
    BY <2>1, <2>2 DEF LevelsInv
  <2> QED BY <1>0, <1>1, <2>1, <2>2, <2>3, <2>4
<1>2. ASSUME NEW c \in Checkouts, Deliver(c) PROVE LInv'
  <2> DEFINE e == msg[c].tries + 1
             new == [at |-> 1, step |-> "next", counted |-> {}]
  <2>1. /\ e \in Deliveries /\ con' = [con EXCEPT ![c][e] = new] /\ msg[c].state = "queued"
        /\ UNCHANGED <<onHand, allocated, resv, journal, low, rsv, seen, rel, retailVars, faults>>
        /\ UNCHANGED <<pc, at, sales>>
        /\ msg'[c].state = "inflight" /\ \A x \in Checkouts : x # c => msg'[x] = msg[x]
    BY <1>0, <1>2 DEF Deliver, retailVars
  <2>2. /\ con'[c][e].at = 1 /\ con'[c][e].step = "next"
        /\ \A x \in Checkouts, y \in Deliveries : x # c \/ y # e => con'[x][y] = con[x][y]
    BY <1>0, <2>1
  <2>3. msg'[c].tries = e
    BY <1>0, <1>2 DEF Deliver
  <2> HIDE DEF e, new
  <2>e. con[c][e].step = "none" /\ e \in Nat
    <3>1. e = msg[c].tries + 1 /\ msg[c].tries \in Nat /\ ~ (e <= msg[c].tries)
      BY <1>0 DEF e
    <3> QED BY <2>1, <3>1 DEF ConsumersGetOn
  <2>t. TornLines' = TornLines
    <3>1. \A x \in Checkouts, y \in Deliveries :
             /\ con'[x][y].step = "torn" <=> con[x][y].step = "torn"
             /\ con[x][y].step = "torn" => con'[x][y] = con[x][y]
      BY <2>2, <2>e
    <3> QED BY <3>1 DEF TornLines
  <2>4. ConsumersGetOn' /\ \A x \in Lines : Marked(x)' <=> Marked(x)
    <3>1. \A x \in Checkouts, y \in Deliveries : QueueMove(x, y)
      BY <2>1, <2>2, <2>3, <2>e DEF QueueMove
    <3>2. \A x \in Checkouts : /\ msg'[x].state = "none" <=> msg[x].state = "none"
                               /\ msg[x].tries <= msg'[x].tries
                               /\ msg'[x].state = "acked" => msg[x].state = "acked"
      <4>1. msg[c].tries <= e /\ \A x \in Checkouts : msg[x].tries \in Nat
        BY <1>0 DEF e
      <4> QED BY <2>1, <2>3, <4>1
    <3> QED BY <1>0, <2>1, <3>1, <3>2, QueueFrame DEF IInv
  <2>5. ReleasesGetOn' /\ (faults' = 0 => GivenUp')
    BY <2>1 DEF ReleasesGetOn, GivenUp, ReserveRunning, ReleaseRunning
  <2>6. faults' = 0 => NothingFailed'
    <3>1. \A x \in Checkouts, y \in Deliveries :
             con[x][y].step \notin {"failed", "torn"} => con'[x][y].step \notin {"failed", "torn"}
      BY <2>2
    <3> QED BY <2>1, <3>1 DEF NothingFailed
  <2>7. Calm => \A y \in Deliveries : ~ ConsumeRunning(c, y)
    BY <2>1 DEF TakenOnce
  <2>8. Calm => TakenOnce'
    <3> SUFFICES ASSUME Calm PROVE TakenOnce'
      OBVIOUS
    <3>1. ASSUME NEW x \in Checkouts, NEW y \in Deliveries, ConsumeRunning(x, y)'
          PROVE  (/\ msg[x].state = "inflight" /\ msg[x].tries = y
                  /\ con[x][y].step = "read" => resv[LineAt(x, y)] = "ACTIVE"
                  /\ con[x][y].step \in {"marked", "leveled"} => SaleOf(LineAt(x, y)) = {}
                  /\ con[x][y].step \in {"marked", "leveled"} => LineAt(x, y) \notin TornLines)'
      <4>1. CASE x = c
        <5>1. y = e
          BY <2>2, <2>7, <3>1, <4>1 DEF ConsumeRunning
        <5> QED BY <2>1, <2>2, <2>3, <4>1, <5>1
      <4>2. CASE x # c
        <5>1. con'[x][y] = con[x][y] /\ msg'[x] = msg[x] /\ LineAt(x, y)' = LineAt(x, y)
          BY <2>1, <2>2, <4>2 DEF LineAt
        <5>2. ConsumeRunning(x, y) /\ SaleOf(LineAt(x, y))' = SaleOf(LineAt(x, y))
          BY <2>1, <3>1, <5>1 DEF ConsumeRunning, SaleOf
        <5>3. TornLines' = TornLines
          BY <2>t
        <5> QED BY <2>1, <5>1, <5>2, <5>3 DEF TakenOnce
      <4> QED BY <4>1, <4>2
    <3> QED BY <2>1, <3>1 DEF TakenOnce
  <2>9. LevelsInv' /\ (faults' = 0 => LowInv')
    <3>1. ASSUME Calm, NEW x \in Lines PROVE Marked(x)' <=> Marked(x)
      BY <2>4
    <3>2. Calm => GoneLines' = GoneLines /\ AllottedLines' = AllottedLines
      BY <2>1, <3>1 DEF GoneLines, AllottedLines, Allotted
    <3>3. Calm' <=> Calm
      BY <2>1 DEF Calm
    <3>4. faults = 0 => Calm
      BY DEF Calm
    <3>5. LevelsInv'
      BY <2>1, <3>2, <3>3, <3>4 DEF LevelsInv
    <3>6. ASSUME faults = 0, NEW s \in Skus, NEW x \in Checkouts, NEW y \in Deliveries, Reporting(x, y, s)
          PROVE  Reporting(x, y, s)'
      <4>1. x # c
        BY <2>7, <3>4, <3>6 DEF Reporting, ConsumeRunning
      <4>2. con'[x][y] = con[x][y] /\ LineAt(x, y)' = LineAt(x, y) /\ SalesOf(s)' = SalesOf(s)
        BY <2>1, <2>2, <4>1 DEF LineAt, SalesOf
      <4> QED BY <3>6, <4>2 DEF Reporting
    <3>7. \A s \in Skus : SalesOf(s)' = SalesOf(s)
      BY <2>1 DEF SalesOf
    <3> QED BY <2>1, <3>5, <3>6, <3>7 DEF LowInv
  <2> QED BY <1>0, <2>1, <2>4, <2>5, <2>6, <2>8, <2>9 DEF Calm
<1>3. ASSUME NEW c \in Checkouts, NEW d \in Deliveries, Ack(c, d) PROVE LInv'
  <2>1. /\ msg[c].state = "inflight" /\ msg[c].tries = d /\ con[c][d].step = "finished"
        /\ UNCHANGED <<onHand, allocated, resv, journal, low, rsv, seen, rel, con, retailVars, faults>>
        /\ UNCHANGED <<pc, at, sales>>
        /\ msg'[c].state = "acked" /\ \A x \in Checkouts : x # c => msg'[x] = msg[x]
    BY <1>0, <1>3 DEF Ack, Awaited, retailVars, stockVars
  <2>2. ConsumersGetOn'
    <3>1. \A x \in Checkouts, y \in Deliveries : QueueMove(x, y)
      BY <2>1 DEF QueueMove
    <3>2. \A x \in Checkouts : msg[x].tries <= msg'[x].tries
      BY <1>0, <1>3 DEF Ack
    <3> QED BY <1>0, <2>1, <3>1, <3>2, QueueFrame DEF IInv
  <2>3. ReleasesGetOn' /\ (faults' = 0 => GivenUp' /\ NothingFailed')
    BY <2>1 DEF ReleasesGetOn, GivenUp, ReserveRunning, ReleaseRunning, NothingFailed
  <2>4. Calm => TakenOnce'
    <3> SUFFICES ASSUME Calm PROVE TakenOnce'
      OBVIOUS
    <3>1. ASSUME NEW x \in Checkouts, NEW y \in Deliveries, ConsumeRunning(x, y)'
          PROVE  (/\ msg[x].state = "inflight" /\ msg[x].tries = y
                  /\ con[x][y].step = "read" => resv[LineAt(x, y)] = "ACTIVE"
                  /\ con[x][y].step \in {"marked", "leveled"} => SaleOf(LineAt(x, y)) = {}
                  /\ con[x][y].step \in {"marked", "leveled"} => LineAt(x, y) \notin TornLines)'
      <4>1. ConsumeRunning(x, y)
        BY <2>1, <3>1 DEF ConsumeRunning
      <4>2. x # c
        BY <2>1, <4>1 DEF TakenOnce, ConsumeRunning
      <4>3. SaleOf(LineAt(x, y))' = SaleOf(LineAt(x, y)) /\ LineAt(x, y)' = LineAt(x, y)
        BY <2>1 DEF SaleOf, LineAt
      <4>4. TornLines' = TornLines
        BY <2>1 DEF TornLines
      <4> QED BY <2>1, <4>1, <4>2, <4>3, <4>4 DEF TakenOnce
    <3> QED BY <2>1, <3>1 DEF TakenOnce
  <2>5. LevelsInv' /\ (faults' = 0 => LowInv')
    BY <2>1, QuietLines, QuietLow DEF SalesOf
  <2> QED BY <1>0, <2>1, <2>2, <2>3, <2>4, <2>5 DEF Calm
<1>4. ASSUME NEW c \in Checkouts, NEW d \in Deliveries, Nack(c, d) PROVE LInv'
  <2>1. /\ ConsumeRunning(c, d) /\ faults' = faults + 1
        /\ UNCHANGED <<onHand, allocated, resv, journal, low, rsv, seen, rel, retailVars>>
        /\ UNCHANGED <<pc, at, sales>>
        /\ \A x \in Checkouts : x # c => msg'[x] = msg[x]
    BY <1>0, <1>4 DEF Nack, Fault, retailVars
  <2>2. /\ con'[c][d].step = BrokenOff(con[c][d].step) /\ con'[c][d].at = con[c][d].at
        /\ con'[c][d].step \in {"failed", "torn"}
        /\ \A x \in Checkouts, y \in Deliveries : x # c \/ y # d => con'[x][y] = con[x][y]
    <3> DEFINE new == [con[c][d] EXCEPT !.step = BrokenOff(con[c][d].step)]
    <3>1. con' = [con EXCEPT ![c][d] = new]
      BY <1>4 DEF Nack, GoTo
    <3>2. new.step = BrokenOff(con[c][d].step) /\ new.step \in {"failed", "torn"} /\ new.at = con[c][d].at
      BY <1>0 DEF Progress, BrokenOff
    <3> HIDE DEF new
    <3> QED BY <1>0, <3>1, <3>2
  <2>3. msg'[c].state \in {msg[c].state, "queued", "dropped"} /\ (msg'[c] # msg[c] => msg[c].state = "inflight")
        /\ msg'[c].tries = msg[c].tries
    <3>1. CASE ~ Awaited(c, d)
      BY <1>0, <1>4, <3>1 DEF Nack
    <3>2. CASE Awaited(c, d)
      BY <1>0, <1>4, <3>2 DEF Nack, Requeue, Awaited
    <3> QED BY <3>1, <3>2
  <2>4. \A x \in Checkouts, y \in Deliveries : QueueMove(x, y)
    BY <2>1, <2>2 DEF QueueMove, ConsumeRunning
  <2>5. \A x \in Checkouts : /\ msg'[x].state = "none" <=> msg[x].state = "none"
                             /\ msg[x].tries <= msg'[x].tries
                             /\ msg'[x].state = "acked" => msg[x].state = "acked"
    BY <1>0, <2>1, <2>3
  <2>6. ASSUME Calm' PROVE Calm /\ \A x \in Checkouts, y \in Deliveries : ConsumeRunning(x, y)' =>
                                      con'[x][y] = con[x][y] /\ msg'[x] = msg[x]
    <3>1. Calm
      BY <1>0, <2>1, <2>6 DEF Calm
    <3>2. ASSUME NEW x \in Checkouts, NEW y \in Deliveries, ConsumeRunning(x, y)'
          PROVE  con'[x][y] = con[x][y] /\ msg'[x] = msg[x]
      <4>1. x # c \/ y # d
        BY <2>2, <3>2 DEF ConsumeRunning
      <4>2. con'[x][y] = con[x][y] /\ ConsumeRunning(x, y)
        BY <2>2, <3>2, <4>1 DEF ConsumeRunning
      <4>3. x # c
        BY <2>1, <3>1, <4>1, <4>2 DEF TakenOnce
      <4> QED BY <2>1, <4>2, <4>3
    <3> QED BY <3>1, <3>2
  <2>7. ReleasesGetOn'
    BY <2>1 DEF ReleasesGetOn
  <2> QED BY <1>1, <2>1, <2>4, <2>5, <2>6, <2>7
<1>5. ASSUME NEW r \in Lines, ReserveFails(r) \/ ReleaseFails(r) PROVE LInv'
  <2>1. /\ UNCHANGED <<onHand, allocated, resv, journal, low, seen, con, retailVars, msg>>
        /\ UNCHANGED <<pc, at, sales>>
        /\ faults' = faults + 1
    BY <1>5 DEF ReserveFails, ReleaseFails, Fault, retailVars
  <2>2. ReleasesGetOn'
    BY <1>5, <2>1 DEF ReserveFails, ReleaseFails, ReleaseRunning, ReleasesGetOn, IInv, TypeOK, StockTypeOK
  <2>3. Calm' => Calm
    BY <1>0, <2>1 DEF Calm
  <2>4. \A x \in Checkouts, y \in Deliveries : QueueMove(x, y)
    BY <2>1 DEF QueueMove
  <2>5. \A x \in Checkouts : msg[x].tries <= msg'[x].tries
    BY <1>0, <2>1
  <2> QED BY <1>1, <2>1, <2>2, <2>3, <2>4, <2>5
<1>6. ASSUME RequeueUnacked
      PROVE  \A c \in Checkouts : /\ msg'[c].state = "none" <=> msg[c].state = "none"
                                  /\ msg[c].tries <= msg'[c].tries
                                  /\ msg'[c].state = "acked" => msg[c].state = "acked"
  <2> SUFFICES ASSUME NEW c \in Checkouts
               PROVE  /\ msg'[c].state = "none" <=> msg[c].state = "none"
                      /\ msg[c].tries <= msg'[c].tries
                      /\ msg'[c].state = "acked" => msg[c].state = "acked"
    OBVIOUS
  <2>1. msg'[c] = IF msg[c].state = "inflight" THEN Requeue(msg[c]) ELSE msg[c]
    BY <1>6 DEF RequeueUnacked
  <2>2. msg[c].tries \in Nat /\ Requeue(msg[c]).state = "queued" /\ Requeue(msg[c]).tries = msg[c].tries
    BY <1>0 DEF Requeue
  <2> QED BY <2>1, <2>2
<1>7. CASE ChannelLost
  <2>1. /\ UNCHANGED <<onHand, allocated, resv, journal, low, seen, rel, con, retailVars>>
        /\ UNCHANGED <<pc, at, sales>>
        /\ faults' = faults + 1 /\ "channel" \in FaultKinds /\ RequeueUnacked
    BY <1>7 DEF ChannelLost, Fault, retailVars, stockVars
  <2>2. ~ Calm'
    BY <1>0, <2>1 DEF Calm
  <2>3. ReleasesGetOn' /\ \A x \in Checkouts, y \in Deliveries : QueueMove(x, y)
    BY <2>1 DEF ReleasesGetOn, QueueMove
  <2> QED BY <1>1, <1>6, <2>1, <2>2, <2>3
<1>8. CASE InventoryCrash
  <2>1. /\ UNCHANGED <<onHand, allocated, resv, journal, low, seen, retailVars>>
        /\ UNCHANGED <<pc, at, sales>>
        /\ faults' = faults + 1 /\ RequeueUnacked
    BY <1>8 DEF InventoryCrash, Fault, retailVars
  <2>2. Calm' => Calm
    BY <1>0, <2>1 DEF Calm
  <2>3. ASSUME NEW x \in Checkouts, NEW y \in Deliveries
        PROVE  QueueMove(x, y) /\ ~ ConsumeRunning(x, y)'
    <3>1. con'[x][y] = IF ConsumeRunning(x, y)
                         THEN [at |-> con[x][y].at, step |-> BrokenOff(con[x][y].step), counted |-> {}]
                         ELSE con[x][y]
      BY <1>8 DEF InventoryCrash
    <3>2. CASE ConsumeRunning(x, y)
      BY <3>1, <3>2 DEF QueueMove, ConsumeRunning, BrokenOff
    <3>3. CASE ~ ConsumeRunning(x, y)
      BY <3>1, <3>3 DEF QueueMove, ConsumeRunning
    <3> QED BY <3>2, <3>3
  <2>4. ReleasesGetOn'
    BY <1>8, <2>1 DEF InventoryCrash, ReleasesGetOn, ReleaseRunning
  <2> QED BY <1>1, <1>6, <2>1, <2>2, <2>3, <2>4
<1> QED
  BY <1>2, <1>3, <1>4, <1>5, <1>7, <1>8 DEF QueueStep

(* Levels, journal and reservations together.                               *)
THEOREM LevelsInvariant == Spec => []LInv
<1>1. Init => LInv
  BY InitLInv
<1>2. LInv /\ [Next]_vars => LInv'
  <2> SUFFICES ASSUME LInv, [Next]_vars PROVE LInv'
    OBVIOUS
  <2>1. CASE Next
    BY <2>1, StepSplit, RequestLInv, ReserveLInv, ReleaseLInv, ConsumeLInv, QueueLInv
  <2>2. CASE UNCHANGED vars
    <3>1. UNCHANGED <<onHand, allocated, resv, journal, low, seen, rsv, rel, con, pc, at, sales, msg, faults>>
      BY <2>2 DEF vars, stockVars, retailVars
    <3>2. IInv'
      BY <3>1 DEF LInv, IInv, TypeOK, StockTypeOK, DeliveriesInCart, CartPlaces, SavedPlaces,
                  AskedInOrder, RowsOfHandlers, ReleasesAreAbandoned, ConsumersOfSales
    <3>3. ReleasesGetOn' /\ ConsumersGetOn' /\ (Calm' => TakenOnce')
      BY <3>1 DEF LInv, ReleasesGetOn, ConsumersGetOn, Calm, TakenOnce, LineAt, SaleOf, ConsumeRunning, TornLines
    <3>4. LevelsInv'
      BY <3>1, QuietLines
    <3>5. faults' = 0 => NothingFailed' /\ GivenUp' /\ LowInv'
      BY <3>1, QuietLow DEF LInv, NothingFailed, GivenUp, ReserveRunning, ReleaseRunning, SalesOf
    <3> QED BY <3>1, <3>2, <3>3, <3>4, <3>5 DEF LInv
  <2> QED BY <2>1, <2>2
<1> QED
  BY <1>1, <1>2, PTL DEF Spec

(* Until something fails, a checkout turned down keeps no stock: each line  *)
(* it was granted has been released by the time reject() answers.           *)
THEOREM RejectedKeepsNothing == Spec => [](faults = 0 => RejectedHoldsNothing)
<1>1. ASSUME LInv, faults = 0 PROVE RejectedHoldsNothing
  <2> SUFFICES ASSUME NEW r \in Lines, pc[r[1]] = "rejected"
               PROVE  resv[r] \in {"NONE", "RELEASED"}
    BY DEF RejectedHoldsNothing
  <2>1. GivenUp /\ NothingFailed
    BY <1>1 DEF LInv
  <2>2. CASE r[2] < at[r[1]]
    <3>1. rel[r] \notin {"none", "failed"} /\ ~ ReleaseRunning(r)
      BY <2>1, <2>2 DEF GivenUp, NothingFailed
    <3>2. rel[r] = "done"
      BY <1>1, <3>1 DEF ReleaseRunning, LInv, IInv, TypeOK, StockTypeOK, ReleaseSteps
    <3> QED BY <1>1, <3>2 DEF LInv, ReleasesGetOn
  <2>3. CASE r[2] >= at[r[1]]
    BY <2>1, <2>3 DEF GivenUp
  <2>4. r[2] \in Nat /\ at[r[1]] \in Nat
    BY <1>1, LinesFacts DEF LInv, IInv, TypeOK
  <2> QED BY <2>2, <2>3, <2>4
<1> QED
  BY <1>1, LevelsInvariant, PTL

(* Between the statements of all handlers the level is what the rows say,   *)
(* for any number of tills, carts and consumers, until something fails.     *)
THEOREM LevelsAlwaysMatch == Spec => [](faults = 0 => LevelsMatchReservations)
<1>1. ASSUME LInv, faults = 0 PROVE LevelsMatchReservations
  <2> SUFFICES ASSUME StockQuiet
               PROVE  \A s \in Skus : /\ allocated[s] = Units(s, WithStatus("ACTIVE"))
                                      /\ onHand[s] = Stock0[s] - Units(s, WithStatus("CONSUMED"))
    BY DEF LevelsMatchReservations
  <2>1. \A r \in Lines : ~ Marked(r) /\ rsv[r] # "created" /\ rel[r] # "marked"
    BY <1>1, LinesFacts DEF LInv, NothingFailed, StockQuiet, Marked, ConsumeRunning, ReserveRunning, ReleaseRunning
  <2>2. GoneLines = WithStatus("CONSUMED") /\ AllottedLines = WithStatus("ACTIVE")
    BY <2>1 DEF GoneLines, AllottedLines, Allotted, WithStatus
  <2>3. Calm /\ LevelsInv
    BY <1>1 DEF LInv, Calm
  <2> QED BY <1>1, <2>2, <2>3 DEF LevelsInv
<1> QED
  BY <1>1, LevelsInvariant, PTL

(* When every message is acknowledged, on-hand has lost what was sold, no   *)
(* more and no less, but for the lines a consumer left torn: whatever       *)
(* failed and for any number of redeliveries, as long as no channel is lost *)
(* under a running consumer.                                                *)
THEOREM AckedSalesLeave == Spec => [](Calm => AckedSalesLeftStock)
<1>1. ASSUME LInv, Calm PROVE AckedSalesLeftStock
  <2> SUFFICES ASSUME StockQuiet, \A c \in Checkouts : msg[c].state \in {"none", "acked"}, NEW s \in Skus
               PROVE  onHand[s] = Stock0[s] - Units(s, AckedLines \ TornLines)
    BY DEF AckedSalesLeftStock, Settled
  <2>1. \A r \in Lines : Marked(r) <=> r \in TornLines
    BY LinesFacts DEF StockQuiet, Marked, ConsumeRunning, TornLines
  <2>2. \A r \in Lines : resv[r] = "CONSUMED" <=> msg[r[1]].state = "acked"
    BY <1>1, LinesFacts DEF LInv, ConsumersGetOn
  <2>3. GoneLines = AckedLines \ TornLines
    BY <2>1, <2>2 DEF GoneLines, AckedLines
  <2> QED BY <1>1, <2>3 DEF LInv, LevelsInv
<1> QED
  BY <1>1, LevelsInvariant, PTL

(* Whichever consumer came last has seen every sale and a level at most as  *)
(* high as the last: a SKU at or below its threshold has been reported.     *)
THEOREM LowIsReported == Spec => [](faults = 0 => LowStockReported)
<1>1. ASSUME LInv, faults = 0 PROVE LowStockReported
  <2> SUFFICES ASSUME NEW s \in Skus, StockQuiet, SalesOf(s) # {}, Units(s, WithStatus("ACTIVE")) = 0,
                      onHand[s] - allocated[s] <= ReorderThreshold(SalesOf(s))
               PROVE  s \in low
    BY DEF LowStockReported
  <2>1. \A r \in Lines : ~ Marked(r) /\ rsv[r] # "created" /\ rel[r] # "marked"
    BY <1>1, LinesFacts DEF LInv, NothingFailed, StockQuiet, Marked, ConsumeRunning, ReserveRunning, ReleaseRunning
  <2>2. AllottedLines = WithStatus("ACTIVE")
    BY <2>1 DEF AllottedLines, Allotted, WithStatus
  <2>3. allocated[s] = 0 /\ onHand[s] \in Int
    BY <1>1, <2>2 DEF LInv, LevelsInv, IInv, TypeOK, StockTypeOK
  <2>4. onHand[s] <= ReorderThreshold(SalesOf(s))
    BY <2>3
  <2>5. \A c \in Checkouts, d \in Deliveries : ~ Reporting(c, d, s)
    BY DEF StockQuiet, Reporting, ConsumeRunning
  <2> QED BY <1>1, <2>4, <2>5 DEF LInv, LowInv
<1> QED
  BY <1>1, LevelsInvariant, PTL

(* Redelivery after failures and restarts takes no line twice, for any      *)
(* number of deliveries, as long as no channel is lost under a handler.     *)
THEOREM EachSoldOnce == Spec => [](Calm => SoldOnce)
<1>1. ASSUME LInv, Calm PROVE SoldOnce
  <2>1. \A x, y \in journal : x.type = "SALE" /\ y.type = "SALE" /\ x.line = y.line => x = y
    BY <1>1 DEF LInv, TakenOnce
  <2>2. ASSUME NEW s \in Skus PROVE onHand[s] >= Stock0[s] - Units(s, WithStatus("CONSUMED"))
    <3>1. GoneLines \in SUBSET WithStatus("CONSUMED") /\ WithStatus("CONSUMED") \in SUBSET Lines
      BY DEF GoneLines, WithStatus
    <3>2. Units(s, GoneLines) <= Units(s, WithStatus("CONSUMED"))
      BY <3>1, UnitsFacts
    <3>3. Units(s, WithStatus("CONSUMED")) \in Int /\ Units(s, GoneLines) \in Int
      BY <3>1, UnitsFacts
    <3>4. onHand[s] \in Int /\ Stock0[s] \in Int
      BY <1>1, NumbersAssumption DEF LInv, IInv, TypeOK, StockTypeOK
    <3>5. onHand[s] = Stock0[s] - Units(s, GoneLines)
      BY <1>1 DEF LInv, LevelsInv
    <3>6. Stock0[s] - Units(s, WithStatus("CONSUMED")) <= Stock0[s] - Units(s, GoneLines)
      BY ONLY <3>2, <3>3, <3>4
    <3> QED BY ONLY <3>3, <3>4, <3>5, <3>6
  <2> QED BY <2>1, <2>2 DEF SoldOnce
<1> QED
  BY <1>1, LevelsInvariant, PTL
=============================================================================
