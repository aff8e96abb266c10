------------------------- MODULE DistributionProofs -------------------------
(* Proofs about Distribution: the stock levels, the journal, the counts and *)
(* the messages of Inventory, and the transfers that join them to the       *)
(* warehouse floor, for any documents, counts, users and scenarios.         *)
EXTENDS WarehouseProofs

-----------------------------------------------------------------------------
(* The lines of a document, and what comes after one.                       *)
LEMMA LinesTyped ==
    ASSUME NEW d \in Documents
    PROVE  /\ Len(LinesOf[d]) \in Nat /\ DOMAIN LinesOf[d] = 1..Len(LinesOf[d])
           /\ \A i \in DOMAIN LinesOf[d] :
                 /\ LinesOf[d][i].place \in Places /\ LinesOf[d][i].delta \in Int \ {0}
                 /\ LinesOf[d][i].good \in BOOLEAN
                 /\ Kind[d] = "transfer" => LinesOf[d][i].good
<1>0. PICK R : R = [place : Places, delta : Int, good : BOOLEAN]
  OBVIOUS
<1>1. LinesOf[d] \in Seq(R)
  BY <1>0, DocumentAssumption
<1>2. /\ Len(LinesOf[d]) \in Nat /\ DOMAIN LinesOf[d] = 1..Len(LinesOf[d])
      /\ \A i \in DOMAIN LinesOf[d] : LinesOf[d][i] \in [place : Places, delta : Int, good : BOOLEAN]
  <2>1. /\ Len(LinesOf[d]) \in Nat /\ DOMAIN LinesOf[d] = 1..Len(LinesOf[d])
        /\ \A i \in DOMAIN LinesOf[d] : LinesOf[d][i] \in R
    BY <1>1
  <2> QED
    BY <1>0, <2>1
<1>3. \A i \in DOMAIN LinesOf[d] : LinesOf[d][i].delta # 0
  BY DocumentAssumption
<1>4. \A i \in DOMAIN LinesOf[d] : Kind[d] = "transfer" => LinesOf[d][i].good
  <2> SUFFICES ASSUME NEW i \in DOMAIN LinesOf[d], Kind[d] = "transfer" PROVE LinesOf[d][i].good
    OBVIOUS
  <2>1. d \in Transfers
    BY DistributionAssumption
  <2>2. PICK from \in Sites, to \in Sites :
           LinesOf[d] = <<[place |-> <<Asked[d].sku, from>>, delta |-> - Asked[d].qty, good |-> TRUE],
                          [place |-> <<Asked[d].sku, to>>, delta |-> Asked[d].qty, good |-> TRUE]>>
    BY <2>1, DistributionAssumption
  <2>3. i \in {1, 2}
    BY <1>2, <2>2
  <2> QED
    BY <2>2, <2>3
<1> QED
  BY <1>2, <1>3, <1>4

LEMMA LeastOf ==
    ASSUME NEW S, IsFiniteSet(S), S # {}, S \subseteq Int
    PROVE  Min(S) \in S /\ \A y \in S : Min(S) <= y
<1>1. PICK f : f = [x \in S |-> x]
  OBVIOUS
<1>2. Ints(f, S)
  BY <1>1 DEF Ints
<1>3. \E x \in S : \A y \in S : f[x] <= f[y]
  BY <1>2, LeastIn
<1>4. \E x \in S : \A y \in S : x <= y
  BY <1>1, <1>3
<1> QED
  BY <1>4 DEF Min

LEMMA AfterIs ==
    ASSUME NEW d \in Documents, NEW i \in Nat
    PROVE  /\ After(d, i) \in Starts(d) \cup {Len(LinesOf[d]) + 1}
           /\ After(d, i) \in Nat \ {0}
           /\ \A k \in Starts(d) : k < After(d, i) => k <= i
<1>1. PICK n \in Nat : n = Len(LinesOf[d]) /\ DOMAIN LinesOf[d] = 1..n
  BY LinesTyped
<1>2. PICK S : S = {j \in Starts(d) : j > i} \cup {n + 1}
  OBVIOUS
<1>3. Starts(d) \subseteq 1..n
  BY <1>1 DEF Starts
<1>4. S \subseteq 1..(n + 1) /\ n + 1 \in S
  BY <1>2, <1>3
<1>5. IsFiniteSet(S)
  <2>1. IsFiniteSet(1..(n + 1))
    BY FS_Interval
  <2> QED
    BY <1>4, <2>1, FS_Subset
<1>6. Min(S) \in S /\ \A y \in S : Min(S) <= y
  <2>1. S # {} /\ S \subseteq Int
    BY <1>4
  <2> QED
    BY <1>5, <2>1, LeastOf
<1>7. After(d, i) = Min(S)
  BY <1>1, <1>2 DEF After
<1>8. \A k \in Starts(d) : k < After(d, i) => k <= i
  <2> SUFFICES ASSUME NEW k \in Starts(d), k > i PROVE ~ (k < After(d, i))
    BY <1>3
  <2>1. k \in S /\ k \in Int
    BY <1>2, <1>3
  <2>2. After(d, i) <= k
    BY <1>6, <1>7, <2>1
  <2>3. After(d, i) \in Int
    <3>1. S \subseteq Int
      BY <1>4
    <3> HIDE DEF After
    <3> QED
      BY <1>6, <1>7, <3>1
  <2> QED
    BY <2>1, <2>2, <2>3
<1> QED
  BY <1>1, <1>2, <1>3, <1>4, <1>6, <1>7, <1>8

(* What a document adds at a place: nothing, or the quantity of its line.   *)
LEMMA DeltaIs ==
    ASSUME NEW d \in Documents, NEW p
    PROVE  /\ Delta(d, p) \in Int
           /\ (\E i \in DOMAIN LinesOf[d] : LinesOf[d][i].place = p /\ LinesOf[d][i].good) =>
                 Delta(d, p) # 0
           /\ Kind[d] = "receipt" => Delta(d, p) >= 0
<1>1. PICK good : good = {i \in DOMAIN LinesOf[d] : LinesOf[d][i].place = p /\ LinesOf[d][i].good}
  OBVIOUS
<1>2. Delta(d, p) = IF good = {} THEN 0 ELSE LinesOf[d][CHOOSE i \in good : TRUE].delta
  BY <1>1 DEF Delta
<1>3. CASE good = {}
  BY <1>1, <1>2, <1>3
<1>4. CASE good # {}
  <2>1. PICK c \in good : c = CHOOSE i \in good : TRUE
    BY <1>4
  <2>2. c \in DOMAIN LinesOf[d] /\ LinesOf[d][c].good /\ Delta(d, p) = LinesOf[d][c].delta
    BY <1>1, <1>2, <1>4, <2>1
  <2>3. Kind[d] = "receipt" => LinesOf[d][c].delta > 0
    BY <2>2, DocumentAssumption
  <2> QED
    BY <2>2, <2>3, LinesTyped
<1> QED
  BY <1>3, <1>4

LEMMA UnitIs ==
    ASSUME NEW d \in Documents, NEW k \in Starts(d)
    PROVE  /\ PlacesOf(UnitAt(d, k)) \subseteq Places /\ PlacesOf(UnitAt(d, k)) # {}
           /\ \A p \in PlacesOf(UnitAt(d, k)) : Delta(d, p) \in Int \ {0}
           /\ SkuOf(UnitAt(d, k)) \in Skus
<1>1. k \in DOMAIN LinesOf[d]
  BY DEF Starts
<1>2. CASE Kind[d] = "transfer"
  <2>1. UnitAt(d, k) = LinesOf[d] /\ k = 1
    BY <1>2 DEF UnitAt, Starts
  <2>2. PlacesOf(UnitAt(d, k)) = {LinesOf[d][i].place : i \in DOMAIN LinesOf[d]}
    BY <2>1 DEF PlacesOf
  <2>3. \A i \in DOMAIN LinesOf[d] : LinesOf[d][i].good /\ LinesOf[d][i].place \in Places
    BY <1>2, LinesTyped
  <2>4. LinesOf[d][1].place \in Places
    BY <1>1, <2>1, <2>3
  <2>5. SkuOf(UnitAt(d, k)) \in Skus
    BY <2>1, <2>4 DEF SkuOf, Places
  <2>6. \A p \in PlacesOf(UnitAt(d, k)) : Delta(d, p) \in Int \ {0}
    BY <2>2, <2>3, DeltaIs
  <2> QED
    BY <1>1, <2>2, <2>3, <2>5, <2>6
<1>3. CASE Kind[d] # "transfer"
  <2>1. UnitAt(d, k) = <<LinesOf[d][k]>> /\ LinesOf[d][k].good
    BY <1>3 DEF UnitAt, Starts
  <2>2. PlacesOf(UnitAt(d, k)) = {LinesOf[d][k].place}
    BY <2>1 DEF PlacesOf
  <2>3. LinesOf[d][k].place \in Places
    BY <1>1, LinesTyped
  <2>4. Delta(d, LinesOf[d][k].place) \in Int \ {0}
    BY <1>1, <2>1, DeltaIs
  <2>5. SkuOf(UnitAt(d, k)) \in Skus
    BY <2>1, <2>3 DEF SkuOf, Places
  <2> QED
    BY <2>2, <2>3, <2>4, <2>5
<1> QED
  BY <1>2, <1>3

LEMMA MovedIs ==
    ASSUME NEW d \in Documents, NEW unit, NEW level \in [Places -> Int]
    PROVE  /\ Moved(level, d, unit) \in [Places -> Int]
           /\ \A p \in Places : Moved(level, d, unit)[p] =
                 IF p \in PlacesOf(unit) THEN level[p] + Delta(d, p) ELSE level[p]
BY DeltaIs DEF Moved

-----------------------------------------------------------------------------
(* The messages of a document and their handlers.                           *)
JobRec == [step : Steps, at : Nat \ {0}, live : BOOLEAN]
End(d) == Len(LinesOf[d]) + 1
Booked(d, k) == LET u == UnitAt(d, k)
                IN  IF Kind[d] = "sale" THEN <<d, k>> \in consumed
                    ELSE (Kind[d] = "receipt" \/ SkuOf(u) \in Listed) => Applied(d, u)

(* What a handler of message m has behind it, and knows about its line.     *)
JobOK(m, r) ==
    /\ r.step # "off" => /\ mail[m] # "none"
                         /\ r.at \in Starts(m[1]) \cup {End(m[1])}
                         /\ \A k \in Starts(m[1]) : k < r.at => Booked(m[1], k)
    /\ r.step \in {"create", "mark", "level", "row", "apply"} => r.at \in Starts(m[1])
    /\ r.step = "create" => Kind[m[1]] = "receipt"
    /\ r.step = "mark" => Kind[m[1]] = "sale"
    /\ r.step \in {"level", "row"} => \/ Kind[m[1]] = "receipt"
                                      \/ Kind[m[1]] = "sale" /\ <<m[1], r.at>> \in consumed
    /\ r.step = "apply" => /\ Kind[m[1]] \notin {"receipt", "sale"}
                           /\ m[1] \notin overlapped => ~ Applied(m[1], UnitAt(m[1], r.at))
JobsInv == \A m \in Messages, i \in Slots : \A r \in {job[m][i]} : JobOK(m, r)

LettersInv == \A m \in Messages :
    /\ mail[m] # "none" => Kind[m[1]] # "adjustment"
    /\ mail[m] = "acked" => \A k \in Starts(m[1]) : Booked(m[1], k)
OneHandler == \A m, n \in Messages, i, j \in Slots :
    (m[1] = n[1] /\ m[1] \notin overlapped
     /\ job[m][i].step # "off" /\ job[n][j].step # "off") => m = n /\ i = j

(* Rows of a document only ever go its way, once where nobody overlapped.   *)
Towards(a, delta) == /\ delta > 0 => a >= 0
                     /\ delta < 0 => a <= 0
                     /\ delta = 0 => a = 0
RowsInv == \A d \in Documents, p \in Places :
    /\ Towards(journal[d][p], Delta(d, p))
    /\ d \notin overlapped /\ Kind[d] \notin {"receipt", "sale"} =>
          journal[d][p] \in {0, Delta(d, p)}
Whole(d) == Moved(NoDelta, d, LinesOf[d])
AdjustedInv == \A d \in Documents :
    /\ Kind[d] = "adjustment" => journal[d] \in {NoDelta, Whole(d)}
    /\ d \in adjusting => Kind[d] = "adjustment" /\ journal[d] = Whole(d)
    /\ faults = 0 /\ Kind[d] = "adjustment" =>
          told[d] = IF d \in adjusting THEN NoDelta ELSE journal[d]
BooksInv == /\ MoveTypeOK /\ Listed \subseteq listed
            /\ JobsInv /\ LettersInv /\ OneHandler /\ RowsInv /\ AdjustedInv

(* A row once written stays, and so does a reservation's mark.              *)
AppliedStays == /\ \A d \in Documents, p \in Places : journal[d][p] # 0 => journal'[d][p] # 0
                /\ consumed \subseteq consumed'
LEMMA BookedStays ==
    ASSUME AppliedStays, NEW d \in Documents, NEW k \in Starts(d), Booked(d, k)
    PROVE  Booked(d, k)'
<1>1. PICK u : u = UnitAt(d, k) /\ PlacesOf(u) \subseteq Places
  BY UnitIs
<1>2. Applied(d, u) => Applied(d, u)'
  BY <1>1 DEF Applied, AppliedStays
<1>3. <<d, k>> \in consumed => <<d, k>> \in consumed'
  BY DEF AppliedStays
<1> QED
  BY <1>1, <1>2, <1>3 DEF Booked

LEMMA JobStays ==
    ASSUME AppliedStays, NEW m \in Messages, NEW r, JobOK(m, r),
           mail[m] # "none" => mail'[m] # "none", overlapped \subseteq overlapped',
           r.step = "apply" => m[1] \in overlapped' \/ journal'[m[1]] = journal[m[1]]
    PROVE  JobOK(m, r)'
<1>1. m[1] \in Documents
  BY DEF Messages
<1>2. \A k \in Starts(m[1]) : Booked(m[1], k) => Booked(m[1], k)'
  BY <1>1, BookedStays
<1>3. journal'[m[1]] = journal[m[1]] => \A u : Applied(m[1], u)' = Applied(m[1], u)
  BY DEF Applied
<1>4. <<m[1], r.at>> \in consumed => <<m[1], r.at>> \in consumed'
  BY DEF AppliedStays
<1>5. r.step # "off" => /\ mail'[m] # "none"
                        /\ r.at \in Starts(m[1]) \cup {End(m[1])}
                        /\ \A k \in Starts(m[1]) : k < r.at => Booked(m[1], k)'
  BY <1>2 DEF JobOK
<1>6. r.step = "apply" => /\ Kind[m[1]] \notin {"receipt", "sale"}
                          /\ m[1] \notin overlapped' => ~ Applied(m[1], UnitAt(m[1], r.at))'
  <2>1. PICK u : u = UnitAt(m[1], r.at)
    OBVIOUS
  <2>2. overlapped \subseteq overlapped'
    OBVIOUS
  <2>3. r.step = "apply" => /\ Kind[m[1]] \notin {"receipt", "sale"}
                            /\ m[1] \notin overlapped => ~ Applied(m[1], u)
    BY <2>1 DEF JobOK
  <2>4. r.step = "apply" /\ m[1] \notin overlapped' => (Applied(m[1], u)' <=> Applied(m[1], u))
    BY <1>3
  <2>5. r.step = "apply" /\ m[1] \notin overlapped' => ~ Applied(m[1], UnitAt(m[1], r.at))'
    BY <2>1, <2>2, <2>3, <2>4
  <2> QED
    BY <2>3, <2>5
<1>7. /\ r.step \in {"create", "mark", "level", "row", "apply"} => r.at \in Starts(m[1])
      /\ r.step = "create" => Kind[m[1]] = "receipt"
      /\ r.step = "mark" => Kind[m[1]] = "sale"
      /\ r.step \in {"level", "row"} => \/ Kind[m[1]] = "receipt"
                                        \/ Kind[m[1]] = "sale" /\ <<m[1], r.at>> \in consumed'
  BY <1>4 DEF JobOK
<1> QED
  BY <1>5, <1>6, <1>7 DEF JobOK

(* Adding a unit to a row goes the document's way.                          *)
LEMMA RowGrows ==
    ASSUME MoveTypeOK, NEW d \in Documents, NEW k \in Starts(d),
           NEW u, u = UnitAt(d, k), journal' = [journal EXCEPT ![d] = Moved(@, d, u)],
           \A p \in Places : Towards(journal[d][p], Delta(d, p)), consumed' = consumed,
           Kind[d] = "sale" => <<d, k>> \in consumed
    PROVE  /\ journal' \in [References -> [Places -> Int]]
           /\ \A e \in References \ {d} : journal'[e] = journal[e]
           /\ \A p \in Places : journal'[d][p] =
                 IF p \in PlacesOf(u) THEN journal[d][p] + Delta(d, p) ELSE journal[d][p]
           /\ \A p \in Places : Towards(journal'[d][p], Delta(d, p))
           /\ AppliedStays /\ Booked(d, k)'
<1>1. d \in References /\ journal \in [References -> [Places -> Int]]
  BY DEF References, MoveTypeOK
<1>2. PICK row \in [Places -> Int] : row = Moved(journal[d], d, u)
  BY <1>1, MovedIs
<1>3. journal' = [journal EXCEPT ![d] = row]
  BY <1>2
<1>4. journal' \in [References -> [Places -> Int]] /\ journal'[d] = row
      /\ \A e \in References \ {d} : journal'[e] = journal[e]
  BY <1>1, <1>3
<1>5. \A p \in Places : row[p] =
         IF p \in PlacesOf(u) THEN journal[d][p] + Delta(d, p) ELSE journal[d][p]
  BY <1>1, <1>2, MovedIs
<1>6. ASSUME NEW p \in Places
      PROVE  /\ Towards(journal'[d][p], Delta(d, p))
             /\ journal[d][p] # 0 => journal'[d][p] # 0
             /\ p \in PlacesOf(u) => journal'[d][p] # 0
  <2>1. journal[d][p] \in Int /\ Delta(d, p) \in Int
    BY <1>1, DeltaIs
  <2>2. Towards(journal[d][p], Delta(d, p))
    OBVIOUS
  <2>3. p \in PlacesOf(u) => Delta(d, p) # 0
    BY UnitIs
  <2>4. journal'[d][p] = IF p \in PlacesOf(u) THEN journal[d][p] + Delta(d, p) ELSE journal[d][p]
    BY <1>4, <1>5
  <2> QED
    BY <2>1, <2>2, <2>3, <2>4 DEF Towards
<1>7. AppliedStays
  <2>1. \A e \in Documents : e \in References
    BY DEF References
  <2> QED
    BY <1>4, <1>6, <2>1 DEF AppliedStays
<1>8. Booked(d, k)'
  <2>1. PICK p : p \in PlacesOf(u) /\ p \in Places
    BY UnitIs
  <2>2. Applied(d, u)'
    BY <1>6, <2>1 DEF Applied
  <2> QED
    BY <2>2 DEF Booked
<1> QED
  BY <1>4, <1>5, <1>6, <1>7, <1>8

(* How one handler moves on.                                                *)
LEMMA JobMoves ==
    ASSUME MoveTypeOK, NEW m \in Messages, NEW i \in Slots, NEW r \in JobRec,
           job' = [job EXCEPT ![m][i] = r]
    PROVE  /\ job' \in [Messages -> [Slots -> JobRec]] /\ job'[m][i] = r
           /\ \A n \in Messages, j \in Slots : n # m \/ j # i => job'[n][j] = job[n][j]
<1>1. job \in [Messages -> [Slots -> JobRec]]
  BY DEF MoveTypeOK, JobRec
<1>2. PICK R : R = JobRec
  OBVIOUS
<1>3. job \in [Messages -> [Slots -> R]] /\ r \in R
  BY <1>1, <1>2
<1>4. /\ job' \in [Messages -> [Slots -> R]] /\ job'[m][i] = r
      /\ \A n \in Messages, j \in Slots : n # m \/ j # i => job'[n][j] = job[n][j]
  BY <1>3
<1> QED
  BY <1>2, <1>4

LEMMA JobEdits ==
    ASSUME MoveTypeOK, NEW m \in Messages, NEW i \in Slots, NEW step \in Steps
    PROVE  /\ job[m][i] \in JobRec
           /\ Goto(m, i, step) = [job EXCEPT ![m][i] =
                 [step |-> step, at |-> job[m][i].at, live |-> job[m][i].live]]
           /\ NextLine(m, i) = [job EXCEPT ![m][i] =
                 [step |-> "next", at |-> After(m[1], job[m][i].at), live |-> job[m][i].live]]
<1>1. job \in [Messages -> [Slots -> JobRec]]
  BY DEF MoveTypeOK, JobRec
<1>2. PICK j : j = job[m][i]
  OBVIOUS
<1>3. j \in JobRec
  BY <1>1, <1>2
<1>4. j = [step |-> j.step, at |-> j.at, live |-> j.live]
  BY <1>3 DEF JobRec
<1>5. [j EXCEPT !.step = step] = [step |-> step, at |-> j.at, live |-> j.live]
  BY <1>4
<1>6. [j EXCEPT !.step = "next", !.at = After(m[1], j.at)]
         = [step |-> "next", at |-> After(m[1], j.at), live |-> j.live]
  <2>1. PICK a : a = After(m[1], j.at)
    OBVIOUS
  <2>2. PICK l : l = j.live
    OBVIOUS
  <2>3. PICK n : n = [step |-> "next", at |-> j.at, live |-> l]
    OBVIOUS
  <2>4. [j EXCEPT !.step = "next"] = n
    BY <1>4, <2>2, <2>3
  <2>5. [n EXCEPT !.at = a] = [step |-> "next", at |-> a, live |-> l]
    BY <2>3
  <2>6. [j EXCEPT !.step = "next", !.at = a] = [[j EXCEPT !.step = "next"] EXCEPT !.at = a]
    OBVIOUS
  <2> QED
    BY <2>1, <2>2, <2>4, <2>5, <2>6
<1>7. Goto(m, i, step) = [job EXCEPT ![m][i] = [j EXCEPT !.step = step]]
  BY <1>2 DEF Goto
<1>8. NextLine(m, i) = [job EXCEPT ![m][i] = [j EXCEPT !.step = "next", !.at = After(m[1], j.at)]]
  BY <1>2 DEF NextLine
<1> QED
  BY <1>2, <1>3, <1>5, <1>6, <1>7, <1>8

(* What every step of a handler must see to, for the invariant to hold.     *)
LEMMA HandlerStep ==
    ASSUME BooksInv, NEW m \in Messages, NEW i \in Slots, NEW r \in JobRec,
           job' = [job EXCEPT ![m][i] = r], JobOK(m, r)', MoveTypeOK',
           AppliedStays, overlapped \subseteq overlapped', listed \subseteq listed',
           adjusting' = adjusting, told' = told, faults' = 0 => faults = 0,
           \A n \in Messages : /\ mail'[n] # "none" <=> mail[n] # "none"
                               /\ mail'[n] = "acked" =>
                                     mail[n] = "acked" \/ \A k \in Starts(n[1]) : Booked(n[1], k)',
           \A e \in References \ {m[1]} : journal'[e] = journal[e],
           journal'[m[1]] = journal[m[1]] \/ job[m][i].step # "off",
           \A p \in Places :
              /\ Towards(journal'[m[1]][p], Delta(m[1], p))
              /\ (m[1] \notin overlapped' /\ Kind[m[1]] \notin {"receipt", "sale"}) =>
                    journal'[m[1]][p] \in {0, Delta(m[1], p)},
           r.step = "off" \/ job[m][i].step # "off" \/ m[1] \in overlapped' \/ ~ Busy(m[1])
    PROVE  BooksInv'
<1>1. /\ m[1] \in Documents /\ \A n \in Messages : n[1] \in Documents
      /\ \A d \in Documents : d \in References
  BY DEF Messages, References
<1>2. /\ job'[m][i] = r
      /\ \A n \in Messages, j \in Slots : n # m \/ j # i => job'[n][j] = job[n][j]
  <2>1. job \in [Messages -> [Slots -> JobRec]]
    BY DEF BooksInv, MoveTypeOK, JobRec
  <2>2. PICK R : R = JobRec
    OBVIOUS
  <2>3. job \in [Messages -> [Slots -> R]]
    BY <2>1, <2>2
  <2> QED
    BY <2>3
<1>3. \A n \in Messages, j \in Slots : JobOK(n, job[n][j])
  BY DEF BooksInv, JobsInv
<1>4. \A n \in Messages, j \in Slots : job[n][j].step # "off" => Kind[n[1]] # "adjustment"
  BY <1>3 DEF JobOK, BooksInv, LettersInv
<1>5. JobsInv'
  <2> SUFFICES ASSUME NEW n \in Messages, NEW j \in Slots PROVE (\A q \in {job[n][j]} : JobOK(n, q))'
    BY DEF JobsInv
  <2>1. PICK q : q = job[n][j]
    OBVIOUS
  <2>2. CASE n = m /\ j = i
    BY <1>2, <2>2
  <2>3. CASE n # m \/ j # i
    <3>1. job'[n][j] = q /\ JobOK(n, q)
      BY <1>2, <1>3, <2>1, <2>3
    <3>2. q.step = "apply" => n[1] \in overlapped' \/ journal'[n[1]] = journal[n[1]]
      <4>1. CASE n[1] # m[1]
        BY <1>1, <4>1
      <4>2. CASE n[1] = m[1] /\ q.step = "apply" /\ job[m][i].step # "off"
        BY <2>1, <2>3, <4>2 DEF BooksInv, OneHandler
      <4> QED
        BY <4>1, <4>2
    <3>3. mail[n] # "none" => mail'[n] # "none"
      OBVIOUS
    <3>4. JobOK(n, q)'
      BY <3>1, <3>2, <3>3, JobStays
    <3> QED
      BY <3>1, <3>4
  <2> QED
    BY <2>2, <2>3
<1>6. LettersInv'
  <2> SUFFICES ASSUME NEW n \in Messages
               PROVE  /\ mail'[n] # "none" => Kind[n[1]] # "adjustment"
                      /\ mail'[n] = "acked" => \A k \in Starts(n[1]) : Booked(n[1], k)'
    BY DEF LettersInv
  <2>1. mail'[n] # "none" => Kind[n[1]] # "adjustment"
    BY DEF BooksInv, LettersInv
  <2>2. mail[n] = "acked" => \A k \in Starts(n[1]) : Booked(n[1], k)
    BY DEF BooksInv, LettersInv
  <2>3. \A k \in Starts(n[1]) : Booked(n[1], k) => Booked(n[1], k)'
    BY <1>1, BookedStays
  <2> QED
    BY <2>1, <2>2, <2>3
<1>7. OneHandler'
  <2> SUFFICES ASSUME NEW n \in Messages, NEW o \in Messages, NEW j \in Slots, NEW k \in Slots,
                      n[1] = o[1], n[1] \notin overlapped',
                      job'[n][j].step # "off", job'[o][k].step # "off"
               PROVE  n = o /\ j = k
    BY DEF OneHandler
  <2>1. OneHandler /\ n[1] \notin overlapped
    BY DEF BooksInv
  <2>2. CASE job[m][i].step = "off" /\ r.step # "off" /\ n[1] = m[1]
    <3>1. ~ Busy(m[1])
      BY <2>2
    <3>2. ASSUME NEW x \in Messages, NEW l \in Slots, x[1] = m[1] PROVE job[x][l].step = "off"
      <4>1. x = <<m[1], x[2]>> /\ x[2] \in Copies
        BY <3>2 DEF Messages
      <4> QED
        BY <3>1, <4>1 DEF Busy
    <3>3. n = m /\ j = i
      BY <1>2, <2>2, <3>2
    <3>4. o = m /\ k = i
      <4>1. o[1] = m[1] /\ job'[o][k].step # "off"
        BY <2>2
      <4>2. o # m \/ k # i => job'[o][k] = job[o][k]
        BY <1>2
      <4> QED
        BY <3>2, <4>1, <4>2
    <3> QED
      BY <3>3, <3>4
  <2>3. CASE job[m][i].step # "off"
    <3>1. job[n][j].step # "off" /\ job[o][k].step # "off"
      BY <1>2, <2>3
    <3> QED
      BY <2>1, <3>1 DEF OneHandler
  <2>4. CASE r.step = "off"
    <3>1. job[n][j].step # "off" /\ job[o][k].step # "off"
      BY <1>2, <2>4
    <3> QED
      BY <2>1, <3>1 DEF OneHandler
  <2>5. CASE n[1] # m[1]
    <3>1. job[n][j].step # "off" /\ job[o][k].step # "off"
      BY <1>2, <2>5
    <3> QED
      BY <2>1, <3>1 DEF OneHandler
  <2> QED
    BY <2>2, <2>3, <2>4, <2>5
<1>8. RowsInv'
  <2> SUFFICES ASSUME NEW d \in Documents, NEW p \in Places
               PROVE  /\ Towards(journal'[d][p], Delta(d, p))
                      /\ (d \notin overlapped' /\ Kind[d] \notin {"receipt", "sale"}) =>
                            journal'[d][p] \in {0, Delta(d, p)}
    BY DEF RowsInv
  <2>1. CASE d = m[1]
    BY <2>1
  <2>2. CASE d # m[1]
    <3>1. journal'[d] = journal[d] /\ (d \notin overlapped' => d \notin overlapped)
      BY <1>1, <2>2
    <3> QED
      BY <3>1 DEF BooksInv, RowsInv
  <2> QED
    BY <2>1, <2>2
<1>9. AdjustedInv'
  <2> SUFFICES ASSUME NEW d \in Documents
               PROVE  /\ Kind[d] = "adjustment" => journal'[d] \in {NoDelta, Whole(d)}
                      /\ d \in adjusting' => Kind[d] = "adjustment" /\ journal'[d] = Whole(d)
                      /\ (faults' = 0 /\ Kind[d] = "adjustment") =>
                            told'[d] = IF d \in adjusting' THEN NoDelta ELSE journal'[d]
    BY DEF AdjustedInv, Whole, NoDelta
  <2>1. AdjustedInv
    BY DEF BooksInv
  <2>2. Kind[d] = "adjustment" => journal'[d] = journal[d]
    BY <1>1, <1>4
  <2> QED
    BY <2>1, <2>2 DEF AdjustedInv
<1>10. (Listed \subseteq listed)'
  BY DEF BooksInv
<1> QED
  BY <1>5, <1>6, <1>7, <1>8, <1>9, <1>10 DEF BooksInv

(* The line a handler is at.                                                *)
LEMMA AtLine ==
    ASSUME BooksInv, NEW m \in Messages, NEW i \in Slots, job[m][i].step # "off"
    PROVE  /\ m[1] \in Documents /\ Kind[m[1]] # "adjustment" /\ mail[m] # "none"
           /\ job[m][i] \in JobRec /\ JobOK(m, job[m][i])
           /\ job[m][i].at <= Len(LinesOf[m[1]]) => job[m][i].at \in Starts(m[1])
           /\ job[m][i].at > Len(LinesOf[m[1]]) => \A k \in Starts(m[1]) : Booked(m[1], k)
<1>1. m[1] \in Documents
  BY DEF Messages
<1>2. job[m][i] \in JobRec /\ JobOK(m, job[m][i])
  BY DEF BooksInv, JobsInv, MoveTypeOK, JobRec
<1>3. mail[m] # "none" /\ Kind[m[1]] # "adjustment"
  BY <1>2 DEF JobOK, BooksInv, LettersInv
<1>4. PICK n \in Nat : n = Len(LinesOf[m[1]]) /\ DOMAIN LinesOf[m[1]] = 1..n
  BY <1>1, LinesTyped
<1>5. job[m][i].at \in Nat /\ Starts(m[1]) \subseteq 1..n
  BY <1>2, <1>4 DEF JobRec, Starts
<1>6. job[m][i].at \in Starts(m[1]) \cup {n + 1}
  BY <1>2, <1>4 DEF JobOK, End
<1>7. job[m][i].at <= n => job[m][i].at \in Starts(m[1])
  BY <1>5, <1>6
<1>8. job[m][i].at > n => \A k \in Starts(m[1]) : Booked(m[1], k)
  <2>1. job[m][i].at > n => \A k \in Starts(m[1]) : k < job[m][i].at
    BY <1>4, <1>5
  <2> QED
    BY <1>2, <2>1 DEF JobOK
<1> QED
  BY <1>1, <1>2, <1>3, <1>4, <1>7, <1>8

(* A step of a handler that writes no row and sends nothing.                *)
LEMMA QuietHandler ==
    ASSUME BooksInv, NEW m \in Messages, NEW i \in Slots, NEW r \in JobRec,
           job' = [job EXCEPT ![m][i] = r], JobOK(m, r)', MoveTypeOK', journal' = journal,
           consumed \subseteq consumed',
           overlapped \subseteq overlapped', listed \subseteq listed',
           adjusting' = adjusting, told' = told, faults' = 0 => faults = 0,
           \A n \in Messages : /\ mail'[n] # "none" <=> mail[n] # "none"
                               /\ mail'[n] = "acked" =>
                                     mail[n] = "acked" \/ \A k \in Starts(n[1]) : Booked(n[1], k)',
           r.step = "off" \/ job[m][i].step # "off" \/ m[1] \in overlapped' \/ ~ Busy(m[1])
    PROVE  BooksInv'
<1>1. AppliedStays
  BY DEF AppliedStays
<1>2. m[1] \in Documents
  BY DEF Messages
<1>3. \A p \in Places :
         /\ Towards(journal'[m[1]][p], Delta(m[1], p))
         /\ (m[1] \notin overlapped' /\ Kind[m[1]] \notin {"receipt", "sale"}) =>
               journal'[m[1]][p] \in {0, Delta(m[1], p)}
  BY <1>2 DEF BooksInv, RowsInv
<1> QED
  BY <1>1, <1>3, HandlerStep

LEMMA JobTyped ==
    ASSUME MoveTypeOK, NEW m \in Messages, NEW i \in Slots, NEW r \in JobRec,
           job' = [job EXCEPT ![m][i] = r],
           onHand' \in [Places -> Int], listed' \subseteq Skus,
           journal' \in [References -> [Places -> Int]], shelf' = shelf,
           mail' \in [Messages -> MailStates], UNCHANGED <<adjusting, told>>,
           overlapped' \subseteq Documents, faults' \in 0..MaxFaults
    PROVE  MoveTypeOK'
<1>1. job' \in [Messages -> [Slots -> JobRec]]
  BY JobMoves, ZenonT(30)
<1>2. PICK R : R = JobRec
  OBVIOUS
<1>3. job' \in [Messages -> [Slots -> R]]
  BY <1>1, <1>2
<1>4. R = [step : Steps, at : Nat \ {0}, live : BOOLEAN]
  BY <1>2 DEF JobRec
<1> QED
  BY <1>3, <1>4 DEF MoveTypeOK

(* A handler stays at its line, or goes on once the line is in the books.   *)
LEMMA SameLine ==
    ASSUME BooksInv, AppliedStays, NEW m \in Messages, NEW i \in Slots, NEW r,
           job[m][i].step # "off", job[m][i].at <= Len(LinesOf[m[1]]), mail'[m] # "none",
           r.at = job[m][i].at, r.step \in {"create", "mark", "level", "row", "apply"},
           r.step = "create" => Kind[m[1]] = "receipt", r.step = "mark" => Kind[m[1]] = "sale",
           r.step \in {"level", "row"} =>
              Kind[m[1]] = "receipt" \/ (Kind[m[1]] = "sale" /\ <<m[1], r.at>> \in consumed'),
           r.step = "apply" =>
              /\ Kind[m[1]] \notin {"receipt", "sale"}
              /\ m[1] \notin overlapped' => ~ Applied(m[1], UnitAt(m[1], r.at))'
    PROVE  JobOK(m, r)'
<1>1. /\ m[1] \in Documents /\ JobOK(m, job[m][i])
      /\ job[m][i].at \in Starts(m[1])
  BY AtLine
<1>2. \A k \in Starts(m[1]) : k < r.at => Booked(m[1], k)
  BY <1>1 DEF JobOK
<1>3. \A k \in Starts(m[1]) : k < r.at => Booked(m[1], k)'
  BY <1>1, <1>2, BookedStays
<1> QED
  BY <1>1, <1>3 DEF JobOK

LEMMA NextOne ==
    ASSUME BooksInv, AppliedStays, NEW m \in Messages, NEW i \in Slots, NEW r, NEW a,
           job[m][i].step # "off", a = job[m][i].at, a <= Len(LinesOf[m[1]]), mail'[m] # "none",
           r.step = "next", r.at = After(m[1], a), Booked(m[1], a)'
    PROVE  JobOK(m, r)'
<1>1. /\ m[1] \in Documents /\ JobOK(m, job[m][i]) /\ job[m][i] \in JobRec
      /\ job[m][i].at \in Starts(m[1])
  BY AtLine
<1>2. a \in Nat
  BY <1>1 DEF JobRec
<1>3. /\ r.at \in Starts(m[1]) \cup {End(m[1])}
      /\ \A k \in Starts(m[1]) : k < r.at => k <= a
  BY <1>1, <1>2, AfterIs DEF End
<1>4. \A k \in Starts(m[1]) : k < r.at => Booked(m[1], k)'
  <2> SUFFICES ASSUME NEW k \in Starts(m[1]), k < r.at PROVE Booked(m[1], k)'
    OBVIOUS
  <2>1. k \in Int /\ k <= a
    <3>1. Starts(m[1]) \subseteq Int
      BY <1>1, LinesTyped DEF Starts
    <3> QED
      BY <1>3, <3>1
  <2>2. CASE k = a
    BY <2>2
  <2>3. CASE k < a
    BY <1>1, <2>3, BookedStays DEF JobOK
  <2> QED
    BY <1>2, <2>1, <2>2, <2>3
<1> QED
  BY <1>3, <1>4 DEF JobOK, End

-----------------------------------------------------------------------------
(* The steps of the handlers keep the books.                                *)
LEMMA DeliverBooks ==
    ASSUME BooksInv, NEW m \in Messages, NEW i \in Slots, Deliver(m, i)
    PROVE  BooksInv'
<1>1. m[1] \in Documents /\ MoveTypeOK
  BY DEF Messages, BooksInv
<1>2. PICK r : r = [step |-> "next", at |-> After(m[1], 0), live |-> TRUE]
  OBVIOUS
<1>3. /\ After(m[1], 0) \in Starts(m[1]) \cup {End(m[1])} /\ After(m[1], 0) \in Nat \ {0}
      /\ \A k \in Starts(m[1]) : k < After(m[1], 0) => k <= 0
  BY <1>1, AfterIs DEF End
<1>4. r \in JobRec
  BY <1>2, <1>3 DEF JobRec, Steps
<1>5. /\ job' = [job EXCEPT ![m][i] = r] /\ mail[m] \in {"queued", "again"}
      /\ mail' = [mail EXCEPT ![m] = IF @ = "queued" THEN "taken" ELSE "retaken"]
      /\ overlapped' = IF Busy(m[1]) THEN overlapped \cup {m[1]} ELSE overlapped
      /\ UNCHANGED <<onHand, listed, journal, shelf>> /\ UNCHANGED <<adjusting, told, faults>>
      /\ UNCHANGED consumed
  BY <1>2 DEF Deliver, saleVars
<1>6. /\ mail' \in [Messages -> MailStates] /\ mail'[m] \in {"taken", "retaken"}
      /\ \A n \in Messages \ {m} : mail'[n] = mail[n]
  BY <1>1, <1>5 DEF MoveTypeOK, MailStates
<1>7. MoveTypeOK'
  <2>1. /\ onHand' \in [Places -> Int] /\ listed' \subseteq Skus /\ overlapped' \subseteq Documents
        /\ journal' \in [References -> [Places -> Int]] /\ faults' \in 0..MaxFaults
    BY <1>1, <1>5 DEF MoveTypeOK
  <2> QED
    BY <1>1, <1>4, <1>5, <1>6, <2>1, JobTyped
<1>8. JobOK(m, r)'
  <2>1. \A k \in Starts(m[1]) : ~ (k < After(m[1], 0))
    BY <1>1, <1>3, LinesTyped DEF Starts
  <2> QED
    BY <1>2, <1>3, <1>6, <2>1 DEF JobOK, End
<1>9. \A n \in Messages : /\ mail'[n] # "none" <=> mail[n] # "none"
                          /\ mail'[n] = "acked" => mail[n] = "acked"
  BY <1>5, <1>6
<1>10. m[1] \in overlapped' \/ ~ Busy(m[1])
  BY <1>5
<1> QED
  BY <1>4, <1>5, <1>7, <1>8, <1>9, <1>10, QuietHandler

LEMMA FindProductBooks ==
    ASSUME BooksInv, NEW m \in Messages, NEW i \in Slots, FindProduct(m, i)
    PROVE  BooksInv'
<1>1. /\ job[m][i].step = "next" /\ job[m][i].at <= Len(LinesOf[m[1]]) /\ Kind[m[1]] = "receipt"
      /\ UNCHANGED <<onHand, listed, journal, shelf>> /\ UNCHANGED mail
      /\ UNCHANGED <<adjusting, told, overlapped, faults>> /\ UNCHANGED consumed
  BY DEF FindProduct, At, saleVars
<1>2. PICK step \in {"level", "create"} :
         step = IF SkuOf(Unit(m, i)) \in listed THEN "level" ELSE "create"
  OBVIOUS
<1>3. PICK r : r = [step |-> step, at |-> job[m][i].at, live |-> job[m][i].live]
  OBVIOUS
<1>4. MoveTypeOK /\ job[m][i] \in JobRec /\ mail[m] # "none"
  BY <1>1, AtLine DEF BooksInv
<1>5. r \in JobRec /\ job' = [job EXCEPT ![m][i] = r]
  <2>1. step \in Steps /\ job' = Goto(m, i, step)
    BY <1>2 DEF FindProduct, Steps
  <2> QED
    BY <1>3, <1>4, <2>1, JobEdits DEF JobRec
<1>6. MoveTypeOK'
  BY <1>1, <1>4, <1>5, JobTyped DEF MoveTypeOK
<1>7. AppliedStays
  BY <1>1 DEF AppliedStays
<1>8. JobOK(m, r)'
  <2>1. r.step \in {"level", "create"} /\ r.at = job[m][i].at
    BY <1>3
  <2>2.  /\ r.at = job[m][i].at /\ r.step \in {"create", "mark", "level", "row", "apply"}
         /\ r.step = "create" => Kind[m[1]] = "receipt"
         /\ r.step = "mark" => Kind[m[1]] = "sale"
         /\ r.step \in {"level", "row"} =>
               Kind[m[1]] = "receipt" \/ (Kind[m[1]] = "sale" /\ <<m[1], r.at>> \in consumed')
         /\ r.step = "apply" => /\ Kind[m[1]] \notin {"receipt", "sale"}
                                /\ m[1] \notin overlapped' => ~ Applied(m[1], UnitAt(m[1], r.at))'
         /\ job[m][i].step # "off" /\ job[m][i].at <= Len(LinesOf[m[1]]) /\ mail'[m] # "none"
    BY <1>1, <1>4, <2>1
  <2> QED
    BY <1>7, <2>2, SameLine, ZenonT(60)
<1> QED
  BY <1>1, <1>5, <1>6, <1>8, QuietHandler

LEMMA CreateStubBooks ==
    ASSUME BooksInv, NEW m \in Messages, NEW i \in Slots, CreateStub(m, i)
    PROVE  BooksInv'
<1>1. /\ job[m][i].step = "create" /\ job[m][i].at <= Len(LinesOf[m[1]])
      /\ listed' = listed \cup {SkuOf(Unit(m, i))}
      /\ UNCHANGED <<onHand, journal, shelf>> /\ UNCHANGED mail
      /\ UNCHANGED <<adjusting, told, overlapped, faults>> /\ UNCHANGED consumed
  BY DEF CreateStub, At, saleVars
<1>2. PICK r : r = [step |-> "level", at |-> job[m][i].at, live |-> job[m][i].live]
  OBVIOUS
<1>3. /\ m[1] \in Documents /\ MoveTypeOK /\ job[m][i] \in JobRec /\ mail[m] # "none"
      /\ Kind[m[1]] = "receipt" /\ job[m][i].at \in Starts(m[1])
  BY <1>1, AtLine DEF BooksInv, JobOK
<1>4. r \in JobRec /\ job' = [job EXCEPT ![m][i] = r]
  <2>1. "level" \in Steps /\ job' = Goto(m, i, "level")
    BY DEF CreateStub, Steps
  <2> QED
    BY <1>2, <1>3, <2>1, JobEdits DEF JobRec
<1>5. MoveTypeOK'
  <2>1. SkuOf(Unit(m, i)) \in Skus
    BY <1>3, UnitIs DEF Unit
  <2>2. listed' \subseteq Skus
    BY <1>1, <1>3, <2>1 DEF MoveTypeOK
  <2> QED
    BY <1>1, <1>3, <1>4, <2>2, JobTyped DEF MoveTypeOK
<1>6. AppliedStays
  BY <1>1 DEF AppliedStays
<1>7. JobOK(m, r)'
  <2>1. r.step = "level" /\ r.at = job[m][i].at
    BY <1>2
  <2>2.  /\ r.at = job[m][i].at /\ r.step \in {"create", "mark", "level", "row", "apply"}
         /\ r.step = "create" => Kind[m[1]] = "receipt"
         /\ r.step = "mark" => Kind[m[1]] = "sale"
         /\ r.step \in {"level", "row"} =>
               Kind[m[1]] = "receipt" \/ (Kind[m[1]] = "sale" /\ <<m[1], r.at>> \in consumed')
         /\ r.step = "apply" => /\ Kind[m[1]] \notin {"receipt", "sale"}
                                /\ m[1] \notin overlapped' => ~ Applied(m[1], UnitAt(m[1], r.at))'
         /\ job[m][i].step # "off" /\ job[m][i].at <= Len(LinesOf[m[1]]) /\ mail'[m] # "none"
    BY <1>1, <1>3, <2>1
  <2> QED
    BY <1>6, <2>2, SameLine, ZenonT(60)
<1> QED
  BY <1>1, <1>4, <1>5, <1>7, QuietHandler

LEMMA RaiseLevelBooks ==
    ASSUME BooksInv, NEW m \in Messages, NEW i \in Slots, RaiseLevel(m, i)
    PROVE  BooksInv'
<1>1. /\ job[m][i].step = "level" /\ job[m][i].at <= Len(LinesOf[m[1]])
      /\ onHand' = Moved(onHand, m[1], Unit(m, i))
      /\ UNCHANGED <<listed, journal, shelf>> /\ UNCHANGED mail
      /\ UNCHANGED <<adjusting, told, overlapped, faults>> /\ UNCHANGED consumed
  BY DEF RaiseLevel, At, saleVars
<1>2. PICK r : r = [step |-> "row", at |-> job[m][i].at, live |-> job[m][i].live]
  OBVIOUS
<1>3. /\ m[1] \in Documents /\ MoveTypeOK /\ job[m][i] \in JobRec /\ mail[m] # "none"
      /\ Kind[m[1]] = "receipt" \/ (Kind[m[1]] = "sale" /\ <<m[1], job[m][i].at>> \in consumed)
  BY <1>1, AtLine DEF BooksInv, JobOK
<1>4. r \in JobRec /\ job' = [job EXCEPT ![m][i] = r]
  <2>1. "row" \in Steps /\ job' = Goto(m, i, "row")
    BY DEF RaiseLevel, Steps
  <2> QED
    BY <1>2, <1>3, <2>1, JobEdits DEF JobRec
<1>5. MoveTypeOK'
  <2>1. onHand \in [Places -> Int]
    BY <1>3 DEF MoveTypeOK
  <2>2. onHand' \in [Places -> Int]
    BY <1>1, <1>3, <2>1, MovedIs
  <2> QED
    BY <1>1, <1>3, <1>4, <2>2, JobTyped DEF MoveTypeOK
<1>6. AppliedStays
  BY <1>1 DEF AppliedStays
<1>7. JobOK(m, r)'
  BY <1>1, <1>2, <1>3, <1>6, SameLine
<1> QED
  BY <1>1, <1>4, <1>5, <1>7, QuietHandler

LEMMA WriteRowBooks ==
    ASSUME BooksInv, NEW m \in Messages, NEW i \in Slots, WriteRow(m, i)
    PROVE  BooksInv'
<1>1. /\ job[m][i].step = "row" /\ job[m][i].at <= Len(LinesOf[m[1]])
      /\ UNCHANGED <<onHand, listed, shelf>> /\ UNCHANGED mail
      /\ UNCHANGED <<adjusting, told, overlapped, faults>> /\ UNCHANGED consumed
  BY DEF WriteRow, At, saleVars
<1>2. PICK a : a = job[m][i].at
  OBVIOUS
<1>3. PICK u : u = UnitAt(m[1], a)
  OBVIOUS
<1>4. PICK r : r = [step |-> "next", at |-> After(m[1], a), live |-> job[m][i].live]
  OBVIOUS
<1>5. /\ m[1] \in Documents /\ MoveTypeOK /\ job[m][i] \in JobRec /\ mail[m] # "none"
      /\ Kind[m[1]] = "receipt" \/ (Kind[m[1]] = "sale" /\ <<m[1], a>> \in consumed)
      /\ a \in Starts(m[1]) /\ a \in Nat
  BY <1>1, <1>2, AtLine DEF BooksInv, JobOK, JobRec
<1>6. r \in JobRec /\ job' = [job EXCEPT ![m][i] = r]
  <2>1. job' = NextLine(m, i)
    BY DEF WriteRow
  <2>2. After(m[1], a) \in Nat \ {0} /\ "next" \in Steps
    BY <1>5, AfterIs DEF Steps
  <2>3. job' = [job EXCEPT ![m][i] = r]
    BY <1>2, <1>4, <1>5, <2>1, <2>2, JobEdits
  <2> QED
    BY <1>4, <1>5, <2>2, <2>3 DEF JobRec
<1>7. journal' = [journal EXCEPT ![m[1]] = Moved(@, m[1], u)]
  BY <1>2, <1>3 DEF WriteRow, Unit
<1>8. \A p \in Places : Towards(journal[m[1]][p], Delta(m[1], p))
  BY <1>5 DEF BooksInv, RowsInv
<1>9. /\ journal' \in [References -> [Places -> Int]]
      /\ \A e \in References \ {m[1]} : journal'[e] = journal[e]
      /\ \A p \in Places : Towards(journal'[m[1]][p], Delta(m[1], p))
      /\ AppliedStays /\ Booked(m[1], a)'
  BY <1>1, <1>3, <1>5, <1>7, <1>8, RowGrows
<1>10. MoveTypeOK'
  BY <1>1, <1>5, <1>6, <1>9, JobTyped DEF MoveTypeOK
<1>11. JobOK(m, r)'
  BY <1>1, <1>2, <1>4, <1>5, <1>9, NextOne
<1> QED
  BY <1>1, <1>5, <1>6, <1>9, <1>10, <1>11, HandlerStep

LEMMA FindReservationBooks ==
    ASSUME BooksInv, NEW m \in Messages, NEW i \in Slots, FindReservation(m, i)
    PROVE  BooksInv'
<1>1. /\ job[m][i].step = "next" /\ job[m][i].at <= Len(LinesOf[m[1]])
      /\ Kind[m[1]] = "sale"
      /\ UNCHANGED <<onHand, listed, journal, shelf>> /\ UNCHANGED mail
      /\ UNCHANGED <<adjusting, told, overlapped, faults>> /\ UNCHANGED consumed
  BY DEF FindReservation, At, saleVars
<1>2. PICK a : a = job[m][i].at
  OBVIOUS
<1>3. /\ m[1] \in Documents /\ MoveTypeOK /\ job[m][i] \in JobRec /\ mail[m] # "none"
      /\ a \in Starts(m[1]) /\ a \in Nat
  BY <1>1, <1>2, AtLine DEF BooksInv, JobRec
<1>4. AppliedStays
  BY <1>1 DEF AppliedStays
<1>5. CASE <<m[1], a>> \in consumed
  <2>1. PICK r : r = [step |-> "next", at |-> After(m[1], a), live |-> job[m][i].live]
    OBVIOUS
  <2>2. r \in JobRec /\ job' = [job EXCEPT ![m][i] = r]
    <3>1. job' = NextLine(m, i)
      BY <1>2, <1>5 DEF FindReservation, LineOf
    <3>2. After(m[1], a) \in Nat \ {0} /\ "next" \in Steps
      BY <1>3, AfterIs DEF Steps
    <3>3. job' = [job EXCEPT ![m][i] = r]
      BY <1>2, <1>3, <2>1, <3>1, <3>2, JobEdits
    <3> QED
      BY <1>3, <2>1, <3>2, <3>3 DEF JobRec
  <2>3. MoveTypeOK'
    BY <1>1, <1>3, <2>2, JobTyped DEF MoveTypeOK
  <2>4. Booked(m[1], a)'
    BY <1>1, <1>5 DEF Booked
  <2>5. JobOK(m, r)'
    BY <1>1, <1>2, <1>3, <1>4, <2>1, <2>4, NextOne
  <2> QED
    BY <1>1, <2>2, <2>3, <2>5, QuietHandler
<1>6. CASE <<m[1], a>> \notin consumed
  <2>1. PICK r : r = [step |-> "mark", at |-> a, live |-> job[m][i].live]
    OBVIOUS
  <2>2. r \in JobRec /\ job' = [job EXCEPT ![m][i] = r]
    <3>1. job' = Goto(m, i, "mark") /\ "mark" \in Steps
      BY <1>2, <1>6 DEF FindReservation, LineOf, Steps
    <3> QED
      BY <1>2, <1>3, <2>1, <3>1, JobEdits DEF JobRec
  <2>3. MoveTypeOK'
    BY <1>1, <1>3, <2>2, JobTyped DEF MoveTypeOK
  <2>4. JobOK(m, r)'
    <3>1. r.step = "mark" /\ r.at = job[m][i].at
      BY <1>2, <2>1
    <3>2.  /\ r.at = job[m][i].at /\ r.step \in {"create", "mark", "level", "row", "apply"}
           /\ r.step = "create" => Kind[m[1]] = "receipt"
           /\ r.step = "mark" => Kind[m[1]] = "sale"
           /\ r.step \in {"level", "row"} =>
                 Kind[m[1]] = "receipt" \/ (Kind[m[1]] = "sale" /\ <<m[1], r.at>> \in consumed')
           /\ r.step = "apply" => /\ Kind[m[1]] \notin {"receipt", "sale"}
                                  /\ m[1] \notin overlapped' => ~ Applied(m[1], UnitAt(m[1], r.at))'
           /\ job[m][i].step # "off" /\ job[m][i].at <= Len(LinesOf[m[1]]) /\ mail'[m] # "none"
      BY <1>1, <1>2, <1>3, <3>1
    <3> QED
      BY <1>4, <3>2, SameLine, ZenonT(60)
  <2> QED
    BY <1>1, <2>2, <2>3, <2>4, QuietHandler
<1> QED
  BY <1>5, <1>6

LEMMA MarkConsumedBooks ==
    ASSUME BooksInv, NEW m \in Messages, NEW i \in Slots, MarkConsumed(m, i)
    PROVE  BooksInv'
<1>1. /\ job[m][i].step = "mark" /\ job[m][i].at <= Len(LinesOf[m[1]])
      /\ consumed' = consumed \cup {<<m[1], job[m][i].at>>}
      /\ UNCHANGED <<onHand, listed, journal, shelf>> /\ UNCHANGED mail
      /\ UNCHANGED <<adjusting, told, overlapped, faults>>
  BY DEF MarkConsumed, At, LineOf
<1>2. PICK r : r = [step |-> "level", at |-> job[m][i].at, live |-> job[m][i].live]
  OBVIOUS
<1>3. /\ m[1] \in Documents /\ MoveTypeOK /\ job[m][i] \in JobRec /\ mail[m] # "none"
      /\ Kind[m[1]] = "sale"
  BY <1>1, AtLine DEF BooksInv, JobOK
<1>4. r \in JobRec /\ job' = [job EXCEPT ![m][i] = r]
  <2>1. "level" \in Steps /\ job' = Goto(m, i, "level")
    BY DEF MarkConsumed, Steps
  <2> QED
    BY <1>2, <1>3, <2>1, JobEdits DEF JobRec
<1>5. MoveTypeOK'
  BY <1>1, <1>3, <1>4, JobTyped DEF MoveTypeOK
<1>6. AppliedStays
  BY <1>1 DEF AppliedStays
<1>7. JobOK(m, r)'
  <2>1. r.step = "level" /\ r.at = job[m][i].at
    BY <1>2
  <2>2.  /\ r.at = job[m][i].at /\ r.step \in {"create", "mark", "level", "row", "apply"}
         /\ r.step = "create" => Kind[m[1]] = "receipt"
         /\ r.step = "mark" => Kind[m[1]] = "sale"
         /\ r.step \in {"level", "row"} =>
               Kind[m[1]] = "receipt" \/ (Kind[m[1]] = "sale" /\ <<m[1], r.at>> \in consumed')
         /\ r.step = "apply" => /\ Kind[m[1]] \notin {"receipt", "sale"}
                                /\ m[1] \notin overlapped' => ~ Applied(m[1], UnitAt(m[1], r.at))'
         /\ job[m][i].step # "off" /\ job[m][i].at <= Len(LinesOf[m[1]]) /\ mail'[m] # "none"
    BY <1>1, <1>3, <2>1
  <2> QED
    BY <1>6, <2>2, SameLine, ZenonT(60)
<1> QED
  BY <1>1, <1>4, <1>5, <1>7, QuietHandler

LEMMA LookBooks ==
    ASSUME BooksInv, NEW m \in Messages, NEW i \in Slots, Look(m, i)
    PROVE  BooksInv'
<1>1. /\ job[m][i].step = "next" /\ job[m][i].at <= Len(LinesOf[m[1]])
      /\ Kind[m[1]] \notin {"receipt", "sale"}
      /\ UNCHANGED <<onHand, listed, journal, shelf>> /\ UNCHANGED mail
      /\ UNCHANGED <<adjusting, told, overlapped, faults>> /\ UNCHANGED consumed
  BY DEF Look, At, saleVars
<1>2. PICK a : a = job[m][i].at
  OBVIOUS
<1>3. PICK u : u = UnitAt(m[1], a)
  OBVIOUS
<1>4. /\ m[1] \in Documents /\ MoveTypeOK /\ job[m][i] \in JobRec /\ mail[m] # "none"
      /\ a \in Starts(m[1]) /\ a \in Nat
  BY <1>1, <1>2, AtLine DEF BooksInv, JobRec
<1>5. AppliedStays
  BY <1>1 DEF AppliedStays
<1>6. CASE Applied(m[1], u) \/ SkuOf(u) \notin listed
  <2>1. PICK r : r = [step |-> "next", at |-> After(m[1], a), live |-> job[m][i].live]
    OBVIOUS
  <2>2. r \in JobRec /\ job' = [job EXCEPT ![m][i] = r]
    <3>1. job' = NextLine(m, i)
      BY <1>2, <1>3, <1>6 DEF Look, Unit
    <3>2. After(m[1], a) \in Nat \ {0} /\ "next" \in Steps
      BY <1>4, AfterIs DEF Steps
    <3>3. job' = [job EXCEPT ![m][i] = r]
      BY <1>2, <1>4, <2>1, <3>1, <3>2, JobEdits
    <3> QED
      BY <1>4, <2>1, <3>2, <3>3 DEF JobRec
  <2>3. MoveTypeOK'
    BY <1>1, <1>4, <2>2, JobTyped DEF MoveTypeOK
  <2>4. Booked(m[1], a)'
    <3>1. Listed \subseteq listed
      BY DEF BooksInv
    <3>2. Applied(m[1], u)' = Applied(m[1], u)
      BY <1>1 DEF Applied
    <3> QED
      BY <1>1, <1>3, <1>6, <3>1, <3>2 DEF Booked
  <2>5. JobOK(m, r)'
    BY <1>1, <1>2, <1>4, <1>5, <2>1, <2>4, NextOne
  <2> QED
    BY <1>1, <2>2, <2>3, <2>5, QuietHandler
<1>7. CASE ~ (Applied(m[1], u) \/ SkuOf(u) \notin listed)
  <2>1. PICK r : r = [step |-> "apply", at |-> a, live |-> job[m][i].live]
    OBVIOUS
  <2>2. r \in JobRec /\ job' = [job EXCEPT ![m][i] = r]
    <3>1. job' = Goto(m, i, "apply") /\ "apply" \in Steps
      BY <1>2, <1>3, <1>7 DEF Look, Unit, Steps
    <3> QED
      BY <1>2, <1>4, <2>1, <3>1, JobEdits DEF JobRec
  <2>3. MoveTypeOK'
    BY <1>1, <1>4, <2>2, JobTyped DEF MoveTypeOK
  <2>4. ~ Applied(m[1], UnitAt(m[1], r.at))'
    BY <1>1, <1>3, <1>7, <2>1 DEF Applied
  <2>5. JobOK(m, r)'
    <3>1. r.step = "apply" /\ r.at = job[m][i].at
      BY <1>2, <2>1
    <3>2.  /\ r.at = job[m][i].at /\ r.step \in {"create", "mark", "level", "row", "apply"}
           /\ r.step = "create" => Kind[m[1]] = "receipt"
           /\ r.step = "mark" => Kind[m[1]] = "sale"
           /\ r.step \in {"level", "row"} =>
                 Kind[m[1]] = "receipt" \/ (Kind[m[1]] = "sale" /\ <<m[1], r.at>> \in consumed')
           /\ r.step = "apply" => /\ Kind[m[1]] \notin {"receipt", "sale"}
                                  /\ m[1] \notin overlapped' => ~ Applied(m[1], UnitAt(m[1], r.at))'
           /\ job[m][i].step # "off" /\ job[m][i].at <= Len(LinesOf[m[1]]) /\ mail'[m] # "none"
      BY <1>1, <1>2, <1>4, <2>4, <3>1
    <3> QED
      BY <1>5, <3>2, SameLine, ZenonT(60)
  <2> QED
    BY <1>1, <2>2, <2>3, <2>5, QuietHandler
<1> QED
  BY <1>6, <1>7

LEMMA ApplyBooks ==
    ASSUME BooksInv, NEW m \in Messages, NEW i \in Slots, Apply(m, i)
    PROVE  BooksInv'
<1>1. /\ job[m][i].step = "apply" /\ job[m][i].at <= Len(LinesOf[m[1]])
      /\ UNCHANGED <<listed, shelf>> /\ UNCHANGED mail
      /\ UNCHANGED <<adjusting, told, overlapped, faults>> /\ UNCHANGED consumed
  BY DEF Apply, At, saleVars
<1>2. PICK a : a = job[m][i].at
  OBVIOUS
<1>3. PICK u : u = UnitAt(m[1], a)
  OBVIOUS
<1>4. PICK r : r = [step |-> "next", at |-> After(m[1], a), live |-> job[m][i].live]
  OBVIOUS
<1>5. /\ m[1] \in Documents /\ MoveTypeOK /\ job[m][i] \in JobRec /\ mail[m] # "none"
      /\ a \in Starts(m[1]) /\ a \in Nat
      /\ m[1] \notin overlapped => ~ Applied(m[1], u)
      /\ Kind[m[1]] \notin {"receipt", "sale"}
  BY <1>1, <1>2, <1>3, AtLine DEF BooksInv, JobOK, JobRec
<1>6. r \in JobRec /\ job' = [job EXCEPT ![m][i] = r]
  <2>1. job' = NextLine(m, i)
    BY DEF Apply
  <2>2. After(m[1], a) \in Nat \ {0} /\ "next" \in Steps
    BY <1>5, AfterIs DEF Steps
  <2>3. job' = [job EXCEPT ![m][i] = r]
    BY <1>2, <1>4, <1>5, <2>1, <2>2, JobEdits
  <2> QED
    BY <1>4, <1>5, <2>2, <2>3 DEF JobRec
<1>7. /\ journal' = [journal EXCEPT ![m[1]] = Moved(@, m[1], u)]
      /\ onHand' = Moved(onHand, m[1], u)
  BY <1>2, <1>3 DEF Apply, Unit
<1>8. \A p \in Places : Towards(journal[m[1]][p], Delta(m[1], p))
  BY <1>5 DEF BooksInv, RowsInv
<1>9. /\ journal' \in [References -> [Places -> Int]]
      /\ \A e \in References \ {m[1]} : journal'[e] = journal[e]
      /\ \A p \in Places : journal'[m[1]][p] =
            IF p \in PlacesOf(u) THEN journal[m[1]][p] + Delta(m[1], p) ELSE journal[m[1]][p]
      /\ \A p \in Places : Towards(journal'[m[1]][p], Delta(m[1], p))
      /\ AppliedStays /\ Booked(m[1], a)'
  <2>1. /\ journal' \in [References -> [Places -> Int]]
        /\ \A e \in References \ {m[1]} : journal'[e] = journal[e]
        /\ \A p \in Places : Towards(journal'[m[1]][p], Delta(m[1], p))
        /\ AppliedStays /\ Booked(m[1], a)'
    BY <1>1, <1>3, <1>5, <1>7, <1>8, RowGrows
  <2>2. \A p \in Places : journal'[m[1]][p] =
            IF p \in PlacesOf(u) THEN journal[m[1]][p] + Delta(m[1], p) ELSE journal[m[1]][p]
    <3>1. m[1] \in References /\ journal \in [References -> [Places -> Int]]
      BY <1>5 DEF References, MoveTypeOK
    <3>2. journal[m[1]] \in [Places -> Int] /\ journal'[m[1]] = Moved(journal[m[1]], m[1], u)
      BY <1>7, <3>1
    <3> QED
      BY <1>5, <3>2, MovedIs
  <2> QED
    BY <2>1, <2>2
<1>10. MoveTypeOK'
  <2>1. onHand \in [Places -> Int]
    BY <1>5 DEF MoveTypeOK
  <2>2. onHand' \in [Places -> Int]
    BY <1>5, <1>7, <2>1, MovedIs
  <2> QED
    BY <1>1, <1>5, <1>6, <1>9, <2>2, JobTyped DEF MoveTypeOK
<1>11. JobOK(m, r)'
  BY <1>1, <1>2, <1>4, <1>5, <1>9, NextOne
<1>12. ASSUME NEW p \in Places, m[1] \notin overlapped, Kind[m[1]] \notin {"receipt", "sale"}
       PROVE  journal'[m[1]][p] \in {0, Delta(m[1], p)}
  <2>1. journal[m[1]][p] \in {0, Delta(m[1], p)} /\ Delta(m[1], p) \in Int
    BY <1>5, <1>12, DeltaIs DEF BooksInv, RowsInv
  <2>2. p \in PlacesOf(u) => journal[m[1]][p] = 0
    BY <1>5, <1>12 DEF Applied
  <2> QED
    BY <1>9, <2>1, <2>2
<1> QED
  BY <1>1, <1>5, <1>6, <1>9, <1>10, <1>11, <1>12, HandlerStep

(* The end of a handler: what it had to do is booked if it is acknowledged. *)
LEMMA EndBooks ==
    ASSUME BooksInv, NEW m \in Messages, NEW i \in Slots,
           job[m][i].step # "off", job' = [job EXCEPT ![m][i] = Off],
           mail' \in [Messages -> MailStates], mail'[m] # "none",
           \A n \in Messages \ {m} : mail'[n] = mail[n],
           mail'[m] = "acked" => mail[m] = "acked" \/ \A k \in Starts(m[1]) : Booked(m[1], k),
           UNCHANGED <<onHand, listed, journal, shelf, adjusting, told, overlapped, consumed>>,
           faults' \in 0..MaxFaults, faults' = 0 => faults = 0
    PROVE  BooksInv'
<1>1. Off \in JobRec /\ Off.step = "off"
  BY DEF Off, JobRec, Steps
<1>2. m[1] \in Documents /\ MoveTypeOK /\ mail[m] # "none"
  BY AtLine DEF BooksInv
<1>3. MoveTypeOK'
  BY <1>1, <1>2, JobTyped DEF MoveTypeOK
<1>4. JobOK(m, Off)'
  BY DEF JobOK, Off
<1>5. AppliedStays
  BY DEF AppliedStays
<1>6. ASSUME NEW n \in Messages
      PROVE  /\ mail'[n] # "none" <=> mail[n] # "none"
             /\ mail'[n] = "acked" => mail[n] = "acked" \/ \A k \in Starts(n[1]) : Booked(n[1], k)'
  <2>1. CASE n # m
    BY <2>1
  <2>2. CASE n = m
    BY <1>2, <1>5, <2>2, BookedStays
  <2> QED
    BY <2>1, <2>2
<1> QED
  BY <1>1, <1>3, <1>4, <1>6, QuietHandler

LEMMA AckBooks ==
    ASSUME BooksInv, NEW m \in Messages, NEW i \in Slots, Ack(m, i)
    PROVE  BooksInv'
<1>1. /\ job[m][i].step = "next" /\ job[m][i].at > Len(LinesOf[m[1]])
      /\ mail' = IF job[m][i].live THEN [mail EXCEPT ![m] = "acked"] ELSE mail
      /\ job' = [job EXCEPT ![m][i] = Off]
      /\ UNCHANGED <<onHand, listed, journal, shelf, adjusting, told, overlapped, consumed>>
      /\ UNCHANGED faults
  BY DEF Ack, saleVars
<1>2. MoveTypeOK /\ mail[m] # "none" /\ \A k \in Starts(m[1]) : Booked(m[1], k)
  BY <1>1, AtLine DEF BooksInv
<1>3. /\ mail' \in [Messages -> MailStates] /\ mail'[m] # "none"
      /\ \A n \in Messages \ {m} : mail'[n] = mail[n]
  BY <1>1, <1>2 DEF MoveTypeOK, MailStates
<1>4. faults' \in 0..MaxFaults
  BY <1>1, <1>2 DEF MoveTypeOK
<1> QED
  BY <1>1, <1>2, <1>3, <1>4, EndBooks

LEMMA ThrowsBooks ==
    ASSUME BooksInv, NEW m \in Messages, NEW i \in Slots, Throws(m, i)
    PROVE  BooksInv'
<1>1. /\ job[m][i].step # "off"
      /\ mail' = IF job[m][i].live THEN [mail EXCEPT ![m] = Refused(@)] ELSE mail
      /\ job' = [job EXCEPT ![m][i] = Off]
      /\ UNCHANGED <<onHand, listed, journal, shelf, adjusting, told, overlapped, consumed>>
      /\ faults' = faults \/ (faults < MaxFaults /\ faults' = faults + 1)
  BY DEF Throws
<1>2. MoveTypeOK /\ mail[m] # "none"
  BY <1>1, AtLine DEF BooksInv
<1>3. /\ mail' \in [Messages -> MailStates]
      /\ mail'[m] \notin {"none", "acked"} \/ mail'[m] = mail[m]
      /\ \A n \in Messages \ {m} : mail'[n] = mail[n]
  BY <1>1, <1>2 DEF MoveTypeOK, MailStates, Refused
<1>4. faults' \in 0..MaxFaults /\ (faults' = 0 => faults = 0)
  BY <1>1, <1>2, DocumentAssumption DEF MoveTypeOK
<1> QED
  BY <1>1, <1>2, <1>3, <1>4, EndBooks

(* What is not a handler's step.                                            *)
LEMMA OthersBooks ==
    ASSUME BooksInv, MoveTypeOK', UNCHANGED <<listed, overlapped, consumed>>,
           \A m \in Messages, i \in Slots :
              \/ job'[m][i].step = "off"
              \/ job'[m][i].step = job[m][i].step /\ job'[m][i].at = job[m][i].at,
           \A m \in Messages : /\ mail[m] # "none" => mail'[m] # "none"
                               /\ mail'[m] # "none" => Kind[m[1]] # "adjustment"
                               /\ mail'[m] = "acked" => mail[m] = "acked",
           \A d \in Documents : \/ journal'[d] = journal[d]
                                \/ Kind[d] = "adjustment" /\ journal[d] = NoDelta
                                   /\ journal'[d] = Whole(d),
           AdjustedInv'
    PROVE  BooksInv'
<1>1. \A m \in Messages : m[1] \in Documents
  BY DEF Messages
<1>2. Documents \subseteq References
  BY DEF References
<1>3. AppliedStays
  <2> SUFFICES ASSUME NEW d \in Documents, NEW p \in Places, journal[d][p] # 0
               PROVE  journal'[d][p] # 0
    BY DEF AppliedStays
  <2> QED
    BY DEF NoDelta
<1>4. JobsInv'
  <2> SUFFICES ASSUME NEW m \in Messages, NEW i \in Slots PROVE (\A q \in {job[m][i]} : JobOK(m, q))'
    BY DEF JobsInv
  <2>1. PICK q : q = job'[m][i]
    OBVIOUS
  <2>2. CASE q.step = "off"
    <3>1. JobOK(m, q)'
      BY <2>2 DEF JobOK
    <3> QED
      BY <2>1, <3>1
  <2>3. CASE q.step # "off" /\ q.step = job[m][i].step /\ q.at = job[m][i].at
    <3>1. JobOK(m, job[m][i])
      BY DEF BooksInv, JobsInv
    <3>2. JobOK(m, q)
      BY <2>3, <3>1 DEF JobOK
    <3>3. Kind[m[1]] # "adjustment"
      BY <2>3, <3>2 DEF JobOK, BooksInv, LettersInv
    <3>4. journal'[m[1]] = journal[m[1]]
      BY <1>1, <3>3
    <3>5. JobOK(m, q)'
      BY <1>3, <3>2, <3>4, JobStays
    <3> QED
      BY <2>1, <3>5
  <2> QED
    BY <2>1, <2>2, <2>3
<1>5. LettersInv'
  <2>1. \A m \in Messages : \A k \in Starts(m[1]) : Booked(m[1], k) => Booked(m[1], k)'
    BY <1>1, <1>3, BookedStays
  <2> QED
    BY <2>1 DEF LettersInv, BooksInv
<1>6. OneHandler'
  BY DEF OneHandler, BooksInv
<1>7. RowsInv'
  <2> SUFFICES ASSUME NEW d \in Documents, NEW p \in Places
               PROVE  /\ Towards(journal'[d][p], Delta(d, p))
                      /\ (d \notin overlapped' /\ Kind[d] \notin {"receipt", "sale"}) =>
                            journal'[d][p] \in {0, Delta(d, p)}
    BY DEF RowsInv
  <2>1. CASE journal'[d] = journal[d]
    BY <2>1 DEF BooksInv, RowsInv
  <2>2. CASE journal'[d] = Whole(d)
    <3>1. NoDelta \in [Places -> Int] /\ NoDelta[p] = 0
      BY DEF NoDelta
    <3>2. journal'[d][p] = IF p \in PlacesOf(LinesOf[d]) THEN NoDelta[p] + Delta(d, p) ELSE NoDelta[p]
      BY <2>2, <3>1, MovedIs DEF Whole
    <3>3. Delta(d, p) \in Int
      BY DeltaIs
    <3>4. journal'[d][p] \in {0, Delta(d, p)}
      BY <3>1, <3>2, <3>3
    <3>5. Towards(journal'[d][p], Delta(d, p))
      <4>1. journal'[d][p] = 0 \/ journal'[d][p] = Delta(d, p)
        BY <3>4
      <4> QED
        BY <3>3, <4>1 DEF Towards
    <3> QED
      BY <3>4, <3>5
  <2> QED
    BY <2>1, <2>2
<1> QED
  BY <1>4, <1>5, <1>6, <1>7 DEF BooksInv

LEMMA Sent ==
    ASSUME BooksInv, NEW m, mail' = [mail EXCEPT ![m] = "queued"], mail[m] = "none" \/ m \notin Messages,
           m \in Messages => Kind[m[1]] # "adjustment", shelf' \in [Places -> Int],
           UNCHANGED <<onHand, listed, journal, job, adjusting, told, overlapped, faults, consumed>>
    PROVE  BooksInv'
<1>1. MoveTypeOK /\ AdjustedInv
  BY DEF BooksInv
<1>2. /\ mail' \in [Messages -> MailStates]
      /\ \A n \in Messages : mail'[n] = IF n = m THEN "queued" ELSE mail[n]
  BY <1>1 DEF MoveTypeOK, MailStates
<1>3. MoveTypeOK'
  BY <1>1, <1>2 DEF MoveTypeOK
<1>4. \A n \in Messages : /\ mail[n] # "none" => mail'[n] # "none"
                          /\ mail'[n] # "none" => Kind[n[1]] # "adjustment"
                          /\ mail'[n] = "acked" => mail[n] = "acked"
  BY <1>2 DEF BooksInv, LettersInv
<1>5. AdjustedInv'
  BY <1>1 DEF AdjustedInv, Whole, NoDelta
<1> QED
  BY <1>3, <1>4, <1>5, OthersBooks

LEMMA HappensBooks ==
    ASSUME BooksInv, NEW d \in Documents, Happens(d)
    PROVE  BooksInv'
<1>1. PICK m : m = <<d, Min(Copies)>>
  OBVIOUS
<1>2. MoveTypeOK
  BY DEF BooksInv
<1>3. mail' = [mail EXCEPT ![m] = "queued"] /\ shelf' = [p \in Places |-> shelf[p] + Delta(d, p)]
      /\ Kind[d] # "adjustment"
      /\ UNCHANGED <<onHand, listed, journal, job, adjusting, told, overlapped, faults, consumed>>
  BY <1>1 DEF Happens, saleVars
<1>4. mail[m] = "none" \/ m \notin Messages
  BY <1>1 DEF Happens, Messages
<1>5. shelf' \in [Places -> Int]
  BY <1>2, <1>3, DeltaIs DEF MoveTypeOK
<1>6. m \in Messages => Kind[m[1]] # "adjustment"
  BY <1>1, <1>3
<1> QED
  BY <1>3, <1>4, <1>5, <1>6, Sent

LEMMA AnnouncedAgainBooks ==
    ASSUME BooksInv, NEW d \in Documents, NEW k \in Copies, AnnouncedAgain(d, k)
    PROVE  BooksInv'
<1>1. PICK m : m = <<d, k>>
  OBVIOUS
<1>2. mail' = [mail EXCEPT ![m] = "queued"] /\ mail[m] = "none" /\ Kind[m[1]] # "adjustment"
      /\ UNCHANGED <<onHand, listed, journal, shelf, job, adjusting, told, overlapped, faults,
                     consumed>>
  BY <1>1 DEF AnnouncedAgain, saleVars
<1>3. shelf' \in [Places -> Int]
  BY <1>2 DEF BooksInv, MoveTypeOK
<1> QED
  BY <1>2, <1>3, Sent

LEMMA BackIs ==
    ASSUME MoveTypeOK, mail' = BackToQueue
    PROVE  /\ mail' \in [Messages -> MailStates]
           /\ \A m \in Messages : /\ mail'[m] # "none" <=> mail[m] # "none"
                                  /\ mail'[m] = "acked" <=> mail[m] = "acked"
BY DEF MoveTypeOK, MailStates, BackToQueue

LEMMA ChannelLostBooks ==
    ASSUME BooksInv, ChannelLost
    PROVE  BooksInv'
<1>1. MoveTypeOK /\ AdjustedInv
  BY DEF BooksInv
<1>2. /\ faults < MaxFaults /\ faults' = faults + 1 /\ mail' = BackToQueue
      /\ job' = [m \in Messages |-> [i \in Slots |-> [job[m][i] EXCEPT !.live = FALSE]]]
      /\ UNCHANGED <<onHand, listed, journal, shelf, adjusting, told, overlapped, consumed>>
  BY DEF ChannelLost, saleVars
<1>3. ASSUME NEW m \in Messages, NEW i \in Slots
      PROVE  job'[m][i] = [step |-> job[m][i].step, at |-> job[m][i].at, live |-> FALSE]
             /\ job'[m][i] \in JobRec
  <2>1. PICK q \in JobRec : q = job[m][i]
    BY <1>1 DEF MoveTypeOK, JobRec
  <2>2. job'[m][i] = [q EXCEPT !.live = FALSE]
    BY <1>2, <2>1
  <2>3. q = [step |-> q.step, at |-> q.at, live |-> q.live]
    BY DEF JobRec
  <2>4. job'[m][i] = [step |-> q.step, at |-> q.at, live |-> FALSE]
    BY <2>2, <2>3
  <2> QED
    BY <2>1, <2>4 DEF JobRec
<1>4. MoveTypeOK'
  <2>1. PICK R : R = [step : Steps, at : Nat \ {0}, live : BOOLEAN]
    OBVIOUS
  <2>2. \A m \in Messages, i \in Slots : job'[m][i] \in R
    BY <1>3, <2>1 DEF JobRec
  <2>3. job' = [m \in Messages |-> [i \in Slots |-> job'[m][i]]]
    BY <1>2
  <2>4. job' \in [Messages -> [Slots -> R]]
    BY <2>2, <2>3
  <2>5. faults' \in 0..MaxFaults
    BY <1>1, <1>2, DocumentAssumption DEF MoveTypeOK
  <2>6. mail' \in [Messages -> MailStates]
    BY <1>1, <1>2, BackIs
  <2> QED
    BY <1>1, <1>2, <2>1, <2>4, <2>5, <2>6 DEF MoveTypeOK
<1>5. \A m \in Messages : /\ mail[m] # "none" => mail'[m] # "none"
                          /\ mail'[m] # "none" => Kind[m[1]] # "adjustment"
                          /\ mail'[m] = "acked" => mail[m] = "acked"
  BY <1>1, <1>2, BackIs DEF BooksInv, LettersInv
<1>6. AdjustedInv'
  <2>1. faults' # 0
    BY <1>1, <1>2 DEF MoveTypeOK
  <2> QED
    BY <1>1, <1>2, <2>1 DEF AdjustedInv, Whole, NoDelta
<1>7. \A m \in Messages, i \in Slots : job'[m][i].step = job[m][i].step
                                       /\ job'[m][i].at = job[m][i].at
  <2> SUFFICES ASSUME NEW m \in Messages, NEW i \in Slots
               PROVE  job'[m][i].step = job[m][i].step /\ job'[m][i].at = job[m][i].at
    OBVIOUS
  <2>1. PICK step, at : step = job[m][i].step /\ at = job[m][i].at
    OBVIOUS
  <2>2. job'[m][i] = [step |-> step, at |-> at, live |-> FALSE]
    BY <1>3, <2>1
  <2> QED
    BY <2>1, <2>2
<1> QED
  BY <1>2, <1>4, <1>5, <1>6, <1>7, OthersBooks

LEMMA RestartBooks ==
    ASSUME BooksInv, Restart
    PROVE  BooksInv'
<1>1. MoveTypeOK /\ AdjustedInv
  BY DEF BooksInv
<1>2. /\ faults < MaxFaults /\ faults' = faults + 1 /\ mail' = BackToQueue
      /\ job' = [m \in Messages |-> [i \in Slots |-> Off]] /\ adjusting' = {}
      /\ UNCHANGED <<onHand, listed, journal, shelf, told, overlapped, consumed>>
  BY DEF Restart
<1>3. Off \in JobRec /\ Off.step = "off"
  BY DEF Off, JobRec, Steps
<1>4. MoveTypeOK'
  <2>1. PICK R : R = [step : Steps, at : Nat \ {0}, live : BOOLEAN]
    OBVIOUS
  <2>2. Off \in R
    BY <1>3, <2>1 DEF JobRec
  <2>3. job' \in [Messages -> [Slots -> R]]
    BY <1>2, <2>2
  <2>4. faults' \in 0..MaxFaults
    BY <1>1, <1>2, DocumentAssumption DEF MoveTypeOK
  <2>5. mail' \in [Messages -> MailStates]
    BY <1>1, <1>2, BackIs
  <2> QED
    BY <1>1, <1>2, <2>1, <2>3, <2>4, <2>5 DEF MoveTypeOK
<1>5. \A m \in Messages : /\ mail[m] # "none" => mail'[m] # "none"
                          /\ mail'[m] # "none" => Kind[m[1]] # "adjustment"
                          /\ mail'[m] = "acked" => mail[m] = "acked"
  BY <1>1, <1>2, BackIs DEF BooksInv, LettersInv
<1>6. AdjustedInv'
  <2>1. faults' # 0
    BY <1>1, <1>2 DEF MoveTypeOK
  <2> QED
    BY <1>1, <1>2, <2>1 DEF AdjustedInv, Whole, NoDelta
<1>7. \A m \in Messages, i \in Slots : job'[m][i].step = "off"
  BY <1>2, <1>3
<1> QED
  BY <1>2, <1>4, <1>5, <1>6, <1>7, OthersBooks

(* Adjustments.                                                             *)
LEMMA WholeIs ==
    ASSUME NEW d \in Documents
    PROVE  NoDelta \in [Places -> Int] /\ Whole(d) \in [Places -> Int]
<1>1. NoDelta \in [Places -> Int]
  BY DEF NoDelta
<1> QED
  BY <1>1, MovedIs DEF Whole

LEMMA AdjustBooks ==
    ASSUME BooksInv, NEW d \in Documents, Adjust(d)
    PROVE  BooksInv'
<1>1. MoveTypeOK /\ AdjustedInv /\ d \in References
  BY DEF BooksInv, References
<1>2. /\ Kind[d] = "adjustment" /\ journal[d] = NoDelta
      /\ onHand' = Moved(onHand, d, LinesOf[d])
      /\ journal' = [journal EXCEPT ![d] = Moved(@, d, LinesOf[d])]
      /\ adjusting' = adjusting \cup {d}
      /\ UNCHANGED <<listed, shelf, mail, job>> /\ UNCHANGED <<told, overlapped, faults, consumed>>
  BY DEF Adjust, saleVars
<1>3. journal' = [journal EXCEPT ![d] = Whole(d)]
  BY <1>2 DEF Whole
<1>4. /\ journal' \in [References -> [Places -> Int]] /\ journal'[d] = Whole(d)
      /\ \A e \in References \ {d} : journal'[e] = journal[e]
  BY <1>1, <1>3, WholeIs DEF MoveTypeOK
<1>5. MoveTypeOK'
  <2>1. onHand \in [Places -> Int]
    BY <1>1 DEF MoveTypeOK
  <2>2. onHand' \in [Places -> Int]
    BY <1>2, <2>1, MovedIs
  <2> QED
    BY <1>1, <1>2, <1>4, <2>2 DEF MoveTypeOK
<1>6. \A m \in Messages : /\ mail'[m] # "none" => Kind[m[1]] # "adjustment"
  BY <1>2 DEF BooksInv, LettersInv
<1>7. AdjustedInv'
  <2> SUFFICES ASSUME NEW e \in Documents
               PROVE  /\ Kind[e] = "adjustment" => journal'[e] \in {NoDelta, Whole(e)}
                      /\ e \in adjusting' => Kind[e] = "adjustment" /\ journal'[e] = Whole(e)
                      /\ (faults' = 0 /\ Kind[e] = "adjustment") =>
                            told'[e] = IF e \in adjusting' THEN NoDelta ELSE journal'[e]
    BY DEF AdjustedInv, Whole, NoDelta
  <2>1. CASE e = d
    <3>1. faults = 0 => told[d] = NoDelta
      BY <1>1, <1>2 DEF AdjustedInv
    <3> QED
      BY <1>2, <1>4, <2>1, <3>1
  <2>2. CASE e # d
    <3>1. journal'[e] = journal[e] /\ (e \in adjusting' <=> e \in adjusting)
      BY <1>2, <1>4, <2>2 DEF References
    <3> QED
      BY <1>1, <1>2, <3>1 DEF AdjustedInv
  <2> QED
    BY <2>1, <2>2
<1>8. \A e \in Documents : \/ journal'[e] = journal[e]
                           \/ Kind[e] = "adjustment" /\ journal[e] = NoDelta
                              /\ journal'[e] = Whole(e)
  BY <1>2, <1>4 DEF References
<1> QED
  BY <1>2, <1>5, <1>6, <1>7, <1>8, OthersBooks

LEMMA TellAdjustedBooks ==
    ASSUME BooksInv, NEW d \in Documents, TellAdjusted(d)
    PROVE  BooksInv'
<1>1. MoveTypeOK /\ AdjustedInv /\ d \in References
  BY DEF BooksInv, References
<1>2. /\ d \in adjusting /\ adjusting' = adjusting \ {d}
      /\ told' = [told EXCEPT ![d] = Moved(@, d, LinesOf[d])]
      /\ UNCHANGED <<onHand, listed, journal, shelf, mail, job, overlapped, faults, consumed>>
  BY DEF TellAdjusted, saleVars
<1>3. told[d] \in [Places -> Int]
  BY <1>1 DEF MoveTypeOK
<1>4. /\ told' \in [References -> [Places -> Int]] /\ told'[d] = Moved(told[d], d, LinesOf[d])
      /\ \A e \in References \ {d} : told'[e] = told[e]
  <2>1. Moved(told[d], d, LinesOf[d]) \in [Places -> Int]
    BY <1>3, MovedIs
  <2>2. PICK row : row = Moved(told[d], d, LinesOf[d])
    OBVIOUS
  <2>3. told' = [told EXCEPT ![d] = row]
    BY <1>2, <2>2
  <2> QED
    BY <1>1, <2>1, <2>2, <2>3 DEF MoveTypeOK
<1>5. MoveTypeOK'
  BY <1>1, <1>2, <1>4 DEF MoveTypeOK
<1>6. \A m \in Messages : /\ mail'[m] # "none" => Kind[m[1]] # "adjustment"
  BY <1>2 DEF BooksInv, LettersInv
<1>7. AdjustedInv'
  <2> SUFFICES ASSUME NEW e \in Documents
               PROVE  /\ Kind[e] = "adjustment" => journal'[e] \in {NoDelta, Whole(e)}
                      /\ e \in adjusting' => Kind[e] = "adjustment" /\ journal'[e] = Whole(e)
                      /\ (faults' = 0 /\ Kind[e] = "adjustment") =>
                            told'[e] = IF e \in adjusting' THEN NoDelta ELSE journal'[e]
    BY DEF AdjustedInv, Whole, NoDelta
  <2>1. CASE e = d
    <3>1. faults = 0 => told[d] = NoDelta
      BY <1>1, <1>2 DEF AdjustedInv
    <3>2. faults = 0 => told'[d] = Whole(d)
      BY <1>4, <3>1 DEF Whole
    <3> QED
      BY <1>1, <1>2, <2>1, <3>2 DEF AdjustedInv
  <2>2. CASE e # d
    <3>1. told'[e] = told[e] /\ (e \in adjusting' <=> e \in adjusting)
      BY <1>2, <1>4, <2>2 DEF References
    <3> QED
      BY <1>1, <1>2, <3>1 DEF AdjustedInv
  <2> QED
    BY <2>1, <2>2
<1> QED
  BY <1>2, <1>5, <1>6, <1>7, OthersBooks

(* What clerks do to the levels and the journal leaves the documents alone. *)
LEMMA AsideBooks ==
    ASSUME BooksInv, onHand' \in [Places -> Int],
           journal' \in [References -> [Places -> Int]], told' \in [References -> [Places -> Int]],
           \A d \in Documents : journal'[d] = journal[d] /\ told'[d] = told[d],
           UNCHANGED <<listed, shelf, mail, job, adjusting, overlapped, faults, consumed>>
    PROVE  BooksInv'
<1>1. MoveTypeOK /\ AdjustedInv
  BY DEF BooksInv
<1>2. MoveTypeOK'
  BY <1>1 DEF MoveTypeOK
<1>3. \A m \in Messages : /\ mail'[m] # "none" => Kind[m[1]] # "adjustment"
  BY DEF BooksInv, LettersInv
<1>4. AdjustedInv'
  BY <1>1 DEF AdjustedInv, Whole, NoDelta
<1> QED
  BY <1>2, <1>3, <1>4, OthersBooks

-----------------------------------------------------------------------------
(* On hand is the opening quantity, the rows, and what handlers have moved  *)
(* and have no row for: those still at it and those that broke off.         *)
Handlers == Messages \X Slots
Column(book, p) == [r \in References |-> book[r][p]]
Owes(jobs, x, p) == /\ jobs[x[1]][x[2]].step = "row"
                    /\ p \in PlacesOf(UnitAt(x[1][1], jobs[x[1]][x[2]].at))
Owing(jobs, gone, x, p) == gone[x[1]][x[2]][p] + IF Owes(jobs, x, p) THEN Delta(x[1][1], p) ELSE 0
Owings(jobs, gone, p) == [x \in Handlers |-> Owing(jobs, gone, x, p)]
Balance(p) == Opening[p] + SumFunctionOnSet(Column(journal, p), References)
                         + SumFunctionOnSet(Owings(job, lost, p), Handlers)
Ledgers == [Messages -> [Slots -> [Places -> Int]]]
BalanceInv == lost \in Ledgers /\ \A p \in Places : onHand[p] = Balance(p)

LEMMA FinitelyMany ==
    IsFiniteSet(Documents) /\ IsFiniteSet(Counts) /\ IsFiniteSet(Handlers)
<1>1. IsFiniteSet(Documents) /\ IsFiniteSet(Counts) /\ IsFiniteSet(Copies) /\ IsFiniteSet(Slots)
  BY DocumentAssumption, FS_Subset DEF References
<1>2. IsFiniteSet(Messages)
  BY <1>1, FS_Product DEF Messages
<1> QED
  BY <1>1, <1>2, FS_Product DEF Handlers

LEMMA OwingInt ==
    ASSUME NEW jobs, NEW gone \in Ledgers, NEW p \in Places
    PROVE  /\ \A x \in Handlers : Owing(jobs, gone, x, p) \in Int
           /\ Ints(Owings(jobs, gone, p), Handlers)
           /\ SumFunctionOnSet(Owings(jobs, gone, p), Handlers) \in Int
<1>1. ASSUME NEW x \in Handlers PROVE Owing(jobs, gone, x, p) \in Int
  <2>1. x[1] \in Messages /\ x[2] \in Slots /\ x[1][1] \in Documents
    BY DEF Handlers, Messages
  <2>2. gone[x[1]][x[2]][p] \in Int /\ Delta(x[1][1], p) \in Int
    BY <2>1, DeltaIs DEF Ledgers
  <2> QED
    BY <2>2 DEF Owing
<1>2. Ints(Owings(jobs, gone, p), Handlers)
  BY <1>1 DEF Ints, Owings
<1>3. SumFunctionOnSet(Owings(jobs, gone, p), Handlers) \in Int
  BY <1>2, FinitelyMany, SumInt
<1> QED
  BY <1>1, <1>2, <1>3

LEMMA DueMoves ==
    ASSUME NEW jobs, NEW next, NEW gone \in Ledgers, NEW p \in Places,
           NEW m \in Messages, NEW i \in Slots,
           \A n \in Messages, j \in Slots : n # m \/ j # i => next[n][j] = jobs[n][j]
    PROVE  SumFunctionOnSet(Owings(next, gone, p), Handlers)
             = SumFunctionOnSet(Owings(jobs, gone, p), Handlers)
               - Owing(jobs, gone, <<m, i>>, p) + Owing(next, gone, <<m, i>>, p)
<1>1. <<m, i>> \in Handlers
  BY DEF Handlers
<1>2. ASSUME NEW x \in Handlers \ {<<m, i>>} PROVE Owing(jobs, gone, x, p) = Owing(next, gone, x, p)
  <2>1. x[1] \in Messages /\ x[2] \in Slots /\ (x[1] # m \/ x[2] # i)
    BY DEF Handlers
  <2>2. next[x[1]][x[2]] = jobs[x[1]][x[2]]
    BY <2>1
  <2> QED
    BY <2>2 DEF Owing, Owes
<1>3. PICK f, g : f = Owings(jobs, gone, p) /\ g = Owings(next, gone, p)
  OBVIOUS
<1>4. Ints(f, Handlers) /\ Ints(g, Handlers) /\ \A x \in Handlers \ {<<m, i>>} : f[x] = g[x]
  <2>1. Ints(f, Handlers) /\ Ints(g, Handlers)
    BY <1>3, OwingInt
  <2>2. \A x \in Handlers \ {<<m, i>>} : f[x] = g[x]
    BY <1>2, <1>3 DEF Owings
  <2> QED
    BY <2>1, <2>2
<1>5. SumFunctionOnSet(g, Handlers) = SumFunctionOnSet(f, Handlers) - f[<<m, i>>] + g[<<m, i>>]
  BY <1>1, <1>4, FinitelyMany, SumChange
<1>6. f[<<m, i>>] = Owing(jobs, gone, <<m, i>>, p) /\ g[<<m, i>>] = Owing(next, gone, <<m, i>>, p)
  BY <1>1, <1>3 DEF Owings
<1> QED
  BY <1>3, <1>5, <1>6

LEMMA DueSame ==
    ASSUME NEW jobs, NEW next, NEW gone, NEW left, NEW p \in Places,
           \A x \in Handlers : Owing(next, left, x, p) = Owing(jobs, gone, x, p)
    PROVE  SumFunctionOnSet(Owings(next, left, p), Handlers)
             = SumFunctionOnSet(Owings(jobs, gone, p), Handlers)
<1>1. PICK f, g : f = Owings(jobs, gone, p) /\ g = Owings(next, left, p)
  OBVIOUS
<1>2. \A x \in Handlers : g[x] = f[x]
  BY <1>1 DEF Owings
<1>3. SumFunctionOnSet(g, Handlers) = SumFunctionOnSet(f, Handlers)
  BY <1>2, FinitelyMany, SumSame
<1> QED
  BY <1>1, <1>3

LEMMA ColumnMoves ==
    ASSUME NEW old \in [References -> [Places -> Int]], NEW new \in [References -> [Places -> Int]],
           NEW d \in References, \A e \in References \ {d} : new[e] = old[e], NEW p \in Places
    PROVE  /\ SumFunctionOnSet(Column(new, p), References)
                = SumFunctionOnSet(Column(old, p), References) - old[d][p] + new[d][p]
           /\ SumFunctionOnSet(Column(old, p), References) \in Int
<1>1. PICK f, g : f = Column(old, p) /\ g = Column(new, p)
  OBVIOUS
<1>2. \A r \in References : f[r] = old[r][p] /\ g[r] = new[r][p]
  BY <1>1 DEF Column
<1>3. Ints(f, References) /\ Ints(g, References)
  BY <1>2 DEF Ints
<1>4. \A r \in References \ {d} : f[r] = g[r]
  BY <1>2
<1>5. SumFunctionOnSet(g, References) = SumFunctionOnSet(f, References) - f[d] + g[d]
  BY <1>3, <1>4, DocumentAssumption, SumChange
<1>6. SumFunctionOnSet(f, References) \in Int
  BY <1>3, DocumentAssumption, SumInt
<1> QED
  BY <1>1, <1>2, <1>5, <1>6

LEMMA BookTypes ==
    /\ BooksInv => journal \in [References -> [Places -> Int]] /\ onHand \in [Places -> Int]
    /\ BooksInv' => journal' \in [References -> [Places -> Int]] /\ onHand' \in [Places -> Int]
BY DEF BooksInv, MoveTypeOK

(* A step that moves a level moves the rows, or what is owed, by as much.   *)
LEMMA BalanceMoves ==
    ASSUME BooksInv, BooksInv', BalanceInv, NEW d \in References, lost' \in Ledgers,
           \A e \in References \ {d} : journal'[e] = journal[e],
           \A p \in Places : SumFunctionOnSet(Owings(job', lost', p), Handlers)
                             = SumFunctionOnSet(Owings(job, lost, p), Handlers)
                               + (onHand'[p] - onHand[p]) - (journal'[d][p] - journal[d][p])
    PROVE  BalanceInv'
<1> SUFFICES ASSUME NEW p \in Places PROVE onHand'[p] = Balance(p)'
  BY DEF BalanceInv, Ledgers
<1>1. PICK C, D, O, P, h, k, a, b :
         /\ C = SumFunctionOnSet(Column(journal, p), References)
         /\ D = SumFunctionOnSet(Column(journal', p), References)
         /\ O = SumFunctionOnSet(Owings(job, lost, p), Handlers)
         /\ P = SumFunctionOnSet(Owings(job', lost', p), Handlers)
         /\ h = onHand[p] /\ k = onHand'[p] /\ a = journal[d][p] /\ b = journal'[d][p]
  OBVIOUS
<1>2. h \in Int /\ k \in Int /\ a \in Int /\ b \in Int /\ Opening[p] \in Int
  BY <1>1, BookTypes, DocumentAssumption
<1>3. O \in Int
  BY <1>1, OwingInt DEF BalanceInv
<1>4. C \in Int /\ D = C - a + b
  BY <1>1, BookTypes, ColumnMoves
<1>5. P = O + (k - h) - (b - a)
  BY <1>1
<1>6. Balance(p) = Opening[p] + C + O /\ Balance(p)' = Opening[p] + D + P
  BY <1>1 DEF Balance
<1>7. h = Balance(p)
  BY <1>1 DEF BalanceInv
<1>8. k = Opening[p] + D + P
  BY <1>2, <1>3, <1>4, <1>5, <1>6, <1>7
<1> QED
  BY <1>1, <1>6, <1>8

(* A step that moves no level, no row and nothing that is owed.             *)
LEMMA BalanceQuiet ==
    ASSUME BooksInv, BooksInv', BalanceInv, lost' \in Ledgers, onHand' = onHand, journal' = journal,
           \A x \in Handlers, p \in Places : Owing(job', lost', x, p) = Owing(job, lost, x, p)
    PROVE  BalanceInv'
<1> SUFFICES ASSUME NEW p \in Places PROVE onHand'[p] = Balance(p)'
  BY DEF BalanceInv, Ledgers
<1>1. PICK O, P :
         /\ O = SumFunctionOnSet(Owings(job, lost, p), Handlers)
         /\ P = SumFunctionOnSet(Owings(job', lost', p), Handlers)
  OBVIOUS
<1>2. P = O
  BY <1>1, DueSame
<1>3. Balance(p)' = Balance(p)
  BY <1>1, <1>2 DEF Balance
<1> QED
  BY <1>3 DEF BalanceInv

(* A handler that turns to another step, and neither to a row nor from one. *)
LEMMA TurnBalance ==
    ASSUME BooksInv, BooksInv', BalanceInv, NEW m \in Messages, NEW i \in Slots, NEW r \in JobRec,
           job' = [job EXCEPT ![m][i] = r], r.step # "row", job[m][i].step # "row",
           UNCHANGED <<onHand, journal, lost>>
    PROVE  BalanceInv'
<1>1. MoveTypeOK
  BY DEF BooksInv
<1>2. /\ job'[m][i] = r
      /\ \A n \in Messages, j \in Slots : n # m \/ j # i => job'[n][j] = job[n][j]
  BY <1>1, JobMoves, ZenonT(60)
<1>3. ASSUME NEW x \in Handlers, NEW p \in Places
      PROVE  Owing(job', lost', x, p) = Owing(job, lost, x, p)
  <2>1. x[1] \in Messages /\ x[2] \in Slots
    BY DEF Handlers
  <2>2. Owes(job', x, p) <=> Owes(job, x, p)
    <3>1. CASE x[1] = m /\ x[2] = i
      BY <1>2, <3>1 DEF Owes
    <3>2. CASE x[1] # m \/ x[2] # i
      BY <1>2, <2>1, <3>2 DEF Owes
    <3> QED
      BY <3>1, <3>2
  <2> QED
    BY <2>2 DEF Owing
<1>4. lost' \in Ledgers
  BY DEF BalanceInv
<1> QED
  BY <1>3, <1>4, BalanceQuiet

(* Where a handler's step changes what is owed.                             *)
LEMMA HandlerOwes ==
    ASSUME BalanceInv, NEW m \in Messages, NEW i \in Slots, NEW p \in Places, lost' = lost,
           \A n \in Messages, j \in Slots : n # m \/ j # i => job'[n][j] = job[n][j],
           NEW a, NEW b,
           a = IF Owes(job, <<m, i>>, p) THEN Delta(m[1], p) ELSE 0,
           b = IF Owes(job', <<m, i>>, p) THEN Delta(m[1], p) ELSE 0
    PROVE  /\ SumFunctionOnSet(Owings(job', lost', p), Handlers)
                = SumFunctionOnSet(Owings(job, lost, p), Handlers) - a + b
           /\ SumFunctionOnSet(Owings(job, lost, p), Handlers) \in Int
<1>1. PICK old, new : old = job /\ new = job'
  OBVIOUS
<1>2. PICK gone \in Ledgers : gone = lost
  BY DEF BalanceInv
<1>3. PICK O, P : /\ O = SumFunctionOnSet(Owings(old, gone, p), Handlers)
                  /\ P = SumFunctionOnSet(Owings(new, gone, p), Handlers)
  OBVIOUS
<1>4. P = O - Owing(old, gone, <<m, i>>, p) + Owing(new, gone, <<m, i>>, p) /\ O \in Int
  <2>1. \A n \in Messages, j \in Slots : n # m \/ j # i => new[n][j] = old[n][j]
    BY <1>1
  <2> QED
    BY <1>3, <2>1, DueMoves, OwingInt
<1>5. PICK z : z = gone[m][i][p]
  OBVIOUS
<1>6. z \in Int /\ Owing(old, gone, <<m, i>>, p) = z + a /\ Owing(new, gone, <<m, i>>, p) = z + b
  BY <1>1, <1>5 DEF Owing, Ledgers
<1>7. a \in Int /\ b \in Int
  <2>1. m[1] \in Documents
    BY DEF Messages
  <2> QED
    BY <2>1, DeltaIs
<1>8. P = O - a + b
  BY <1>4, <1>6, <1>7
<1> QED
  BY <1>1, <1>2, <1>3, <1>4, <1>8

(* What a unit adds to the rows of its document.                            *)
LEMMA RowIs ==
    ASSUME BooksInv, NEW d \in Documents, NEW u, journal'[d] = Moved(journal[d], d, u),
           NEW p \in Places, NEW delta, delta = IF p \in PlacesOf(u) THEN Delta(d, p) ELSE 0
    PROVE  delta \in Int /\ journal[d][p] \in Int /\ journal'[d][p] = journal[d][p] + delta
<1>1. d \in References /\ journal \in [References -> [Places -> Int]]
  BY BookTypes DEF References
<1>2. journal'[d][p] = IF p \in PlacesOf(u) THEN journal[d][p] + Delta(d, p) ELSE journal[d][p]
  BY <1>1, MovedIs
<1>3. Delta(d, p) \in Int /\ journal[d][p] \in Int
  BY <1>1, DeltaIs
<1> QED
  BY <1>2, <1>3

LEMMA LevelIs ==
    ASSUME BooksInv, NEW d \in Documents, NEW u, onHand' = Moved(onHand, d, u), NEW p \in Places,
           NEW delta, delta = IF p \in PlacesOf(u) THEN Delta(d, p) ELSE 0
    PROVE  onHand[p] \in Int /\ onHand'[p] = onHand[p] + delta
<1>1. onHand \in [Places -> Int]
  BY BookTypes
<1>2. onHand'[p] = IF p \in PlacesOf(u) THEN onHand[p] + Delta(d, p) ELSE onHand[p]
  BY <1>1, MovedIs
<1> QED
  BY <1>1, <1>2

LEMMA RaiseLevelBalance ==
    ASSUME BooksInv, BooksInv', BalanceInv, NEW m \in Messages, NEW i \in Slots, RaiseLevel(m, i)
    PROVE  BalanceInv'
<1>1. /\ job[m][i].step = "level" /\ onHand' = Moved(onHand, m[1], Unit(m, i))
      /\ job' = Goto(m, i, "row") /\ journal' = journal /\ lost' = lost
  BY DEF RaiseLevel, At, saleVars
<1>2. PICK a, u : a = job[m][i].at /\ u = UnitAt(m[1], a)
  OBVIOUS
<1>3. PICK r : r = [step |-> "row", at |-> a, live |-> job[m][i].live]
  OBVIOUS
<1>4. m[1] \in Documents /\ m[1] \in References /\ job[m][i] \in JobRec /\ MoveTypeOK
      /\ "row" \in Steps
  BY <1>1, AtLine DEF BooksInv, References, Steps
<1>5. r \in JobRec /\ job' = [job EXCEPT ![m][i] = r]
  BY <1>1, <1>2, <1>3, <1>4, JobEdits DEF JobRec
<1>6. /\ job'[m][i] = r
      /\ \A n \in Messages, j \in Slots : n # m \/ j # i => job'[n][j] = job[n][j]
  BY <1>4, <1>5, JobMoves
<1>7. ASSUME NEW p \in Places
      PROVE  SumFunctionOnSet(Owings(job', lost', p), Handlers)
               = SumFunctionOnSet(Owings(job, lost, p), Handlers)
                 + (onHand'[p] - onHand[p]) - (journal'[m[1]][p] - journal[m[1]][p])
  <2>1. PICK O, P, delta : /\ O = SumFunctionOnSet(Owings(job, lost, p), Handlers)
                           /\ P = SumFunctionOnSet(Owings(job', lost', p), Handlers)
                           /\ delta = IF p \in PlacesOf(u) THEN Delta(m[1], p) ELSE 0
    OBVIOUS
  <2>2. P = O - 0 + delta /\ O \in Int
    <3>1. 0 = IF Owes(job, <<m, i>>, p) THEN Delta(m[1], p) ELSE 0
      BY <1>1 DEF Owes
    <3>2. delta = IF Owes(job', <<m, i>>, p) THEN Delta(m[1], p) ELSE 0
      BY <1>2, <1>3, <1>6, <2>1 DEF Owes
    <3> QED
      BY <1>1, <1>6, <2>1, <3>1, <3>2, HandlerOwes
  <2>3. journal[m[1]][p] \in Int
    BY <1>4, BookTypes
  <2>4. onHand[p] \in Int /\ onHand'[p] = onHand[p] + delta
    BY <1>1, <1>2, <1>4, <2>1, LevelIs DEF Unit
  <2>5. delta \in Int
    BY <1>4, <2>1, DeltaIs
  <2>6. P = O + (onHand'[p] - onHand[p]) - (journal'[m[1]][p] - journal[m[1]][p])
    BY <1>1, <2>2, <2>3, <2>4, <2>5
  <2> QED
    BY <2>1, <2>6
<1>8. lost' \in Ledgers
  BY <1>1 DEF BalanceInv
<1> QED
  BY <1>1, <1>4, <1>7, <1>8, BalanceMoves

LEMMA WriteRowBalance ==
    ASSUME BooksInv, BooksInv', BalanceInv, NEW m \in Messages, NEW i \in Slots, WriteRow(m, i)
    PROVE  BalanceInv'
<1>1. /\ job[m][i].step = "row" /\ onHand' = onHand
      /\ job' = NextLine(m, i) /\ lost' = lost
      /\ journal' = [journal EXCEPT ![m[1]] = Moved(@, m[1], Unit(m, i))]
  BY DEF WriteRow, At, saleVars
<1>2. PICK a, u : a = job[m][i].at /\ u = UnitAt(m[1], a)
  OBVIOUS
<1>3. PICK r : r = [step |-> "next", at |-> After(m[1], a), live |-> job[m][i].live]
  OBVIOUS
<1>4. m[1] \in Documents /\ m[1] \in References /\ job[m][i] \in JobRec /\ MoveTypeOK
      /\ "next" \in Steps /\ a \in Nat
  BY <1>1, <1>2, AtLine DEF BooksInv, References, Steps, JobRec
<1>5. r \in JobRec /\ job' = [job EXCEPT ![m][i] = r]
  <2>1. After(m[1], a) \in Nat \ {0}
    BY <1>4, AfterIs
  <2>2. job' = [job EXCEPT ![m][i] = r]
    BY <1>1, <1>2, <1>3, <1>4, JobEdits
  <2> QED
    BY <1>3, <1>4, <2>1, <2>2 DEF JobRec
<1>6. /\ job'[m][i] = r
      /\ \A n \in Messages, j \in Slots : n # m \/ j # i => job'[n][j] = job[n][j]
  BY <1>4, <1>5, JobMoves, ZenonT(60)
<1>7. journal' = [journal EXCEPT ![m[1]] = Moved(@, m[1], u)]
  BY <1>1, <1>2 DEF Unit
<1>8. ASSUME NEW p \in Places
      PROVE  SumFunctionOnSet(Owings(job', lost', p), Handlers)
               = SumFunctionOnSet(Owings(job, lost, p), Handlers)
                 + (onHand'[p] - onHand[p]) - (journal'[m[1]][p] - journal[m[1]][p])
  <2>1. PICK O, P, delta : /\ O = SumFunctionOnSet(Owings(job, lost, p), Handlers)
                           /\ P = SumFunctionOnSet(Owings(job', lost', p), Handlers)
                           /\ delta = IF p \in PlacesOf(u) THEN Delta(m[1], p) ELSE 0
    OBVIOUS
  <2>2. P = O - delta + 0 /\ O \in Int
    <3>1. delta = IF Owes(job, <<m, i>>, p) THEN Delta(m[1], p) ELSE 0
      BY <1>1, <1>2, <2>1 DEF Owes
    <3>2. 0 = IF Owes(job', <<m, i>>, p) THEN Delta(m[1], p) ELSE 0
      BY <1>3, <1>6 DEF Owes
    <3> QED
      BY <1>1, <1>6, <2>1, <3>1, <3>2, HandlerOwes
  <2>3. onHand[p] \in Int
    BY <1>4, BookTypes
  <2>4. delta \in Int /\ journal[m[1]][p] \in Int /\ journal'[m[1]][p] = journal[m[1]][p] + delta
    <3>1. journal'[m[1]] = Moved(journal[m[1]], m[1], u)
      BY <1>4, <1>7 DEF MoveTypeOK
    <3> QED
      BY <1>4, <2>1, <3>1, RowIs
  <2>5. P = O + (onHand'[p] - onHand[p]) - (journal'[m[1]][p] - journal[m[1]][p])
    BY <1>1, <2>2, <2>3, <2>4
  <2> QED
    BY <2>1, <2>5
<1>9. \A e \in References \ {m[1]} : journal'[e] = journal[e]
  BY <1>4, <1>7 DEF MoveTypeOK
<1>10. lost' \in Ledgers
  BY <1>1 DEF BalanceInv
<1> QED
  BY <1>1, <1>4, <1>8, <1>9, <1>10, BalanceMoves

LEMMA ApplyBalance ==
    ASSUME BooksInv, BooksInv', BalanceInv, NEW m \in Messages, NEW i \in Slots, Apply(m, i)
    PROVE  BalanceInv'
<1>1. /\ job[m][i].step = "apply" /\ onHand' = Moved(onHand, m[1], Unit(m, i))
      /\ job' = NextLine(m, i) /\ lost' = lost
      /\ journal' = [journal EXCEPT ![m[1]] = Moved(@, m[1], Unit(m, i))]
  BY DEF Apply, At, saleVars
<1>2. PICK a, u : a = job[m][i].at /\ u = UnitAt(m[1], a)
  OBVIOUS
<1>3. PICK r : r = [step |-> "next", at |-> After(m[1], a), live |-> job[m][i].live]
  OBVIOUS
<1>4. m[1] \in Documents /\ m[1] \in References /\ job[m][i] \in JobRec /\ MoveTypeOK
      /\ "next" \in Steps /\ a \in Nat
  BY <1>1, <1>2, AtLine DEF BooksInv, References, Steps, JobRec
<1>5. r \in JobRec /\ job' = [job EXCEPT ![m][i] = r]
  <2>1. After(m[1], a) \in Nat \ {0}
    BY <1>4, AfterIs
  <2>2. job' = [job EXCEPT ![m][i] = r]
    BY <1>1, <1>2, <1>3, <1>4, JobEdits
  <2> QED
    BY <1>3, <1>4, <2>1, <2>2 DEF JobRec
<1>6. /\ job'[m][i] = r
      /\ \A n \in Messages, j \in Slots : n # m \/ j # i => job'[n][j] = job[n][j]
  BY <1>4, <1>5, JobMoves, ZenonT(60)
<1>7. /\ journal' = [journal EXCEPT ![m[1]] = Moved(@, m[1], u)]
      /\ onHand' = Moved(onHand, m[1], u)
  BY <1>1, <1>2 DEF Unit
<1>8. ASSUME NEW p \in Places
      PROVE  SumFunctionOnSet(Owings(job', lost', p), Handlers)
               = SumFunctionOnSet(Owings(job, lost, p), Handlers)
                 + (onHand'[p] - onHand[p]) - (journal'[m[1]][p] - journal[m[1]][p])
  <2>1. PICK O, P, delta : /\ O = SumFunctionOnSet(Owings(job, lost, p), Handlers)
                           /\ P = SumFunctionOnSet(Owings(job', lost', p), Handlers)
                           /\ delta = IF p \in PlacesOf(u) THEN Delta(m[1], p) ELSE 0
    OBVIOUS
  <2>2. P = O - 0 + 0 /\ O \in Int
    <3>1. 0 = IF Owes(job, <<m, i>>, p) THEN Delta(m[1], p) ELSE 0
      BY <1>1 DEF Owes
    <3>2. 0 = IF Owes(job', <<m, i>>, p) THEN Delta(m[1], p) ELSE 0
      BY <1>3, <1>6 DEF Owes
    <3> QED
      BY <1>1, <1>6, <2>1, <3>1, <3>2, HandlerOwes
  <2>3. onHand[p] \in Int /\ onHand'[p] = onHand[p] + delta
    BY <1>4, <1>7, <2>1, LevelIs
  <2>4. delta \in Int /\ journal[m[1]][p] \in Int /\ journal'[m[1]][p] = journal[m[1]][p] + delta
    <3>1. journal'[m[1]] = Moved(journal[m[1]], m[1], u)
      BY <1>4, <1>7 DEF MoveTypeOK
    <3> QED
      BY <1>4, <2>1, <3>1, RowIs
  <2>5. P = O + (onHand'[p] - onHand[p]) - (journal'[m[1]][p] - journal[m[1]][p])
    BY <2>2, <2>3, <2>4
  <2> QED
    BY <2>1, <2>5
<1>9. \A e \in References \ {m[1]} : journal'[e] = journal[e]
  BY <1>4, <1>7 DEF MoveTypeOK
<1>10. lost' \in Ledgers
  BY <1>1 DEF BalanceInv
<1> QED
  BY <1>1, <1>4, <1>8, <1>9, <1>10, BalanceMoves

(* Handlers that break off leave behind what they had moved.                *)
BreaksOff == \A m \in Messages, i \in Slots :
    \/ job'[m][i] = job[m][i] /\ lost'[m][i] = lost[m][i]
    \/ job'[m][i] = Off /\ lost'[m][i] = LostBy(m, i)

LEMMA UnwrittenIs ==
    \A x, p : /\ Unwritten(x, p) = Owing(job, lost, x, p)
              /\ OwesRow(x, p) <=> Owes(job, x, p)
BY DEF Unwritten, OwesRow, Owing, Owes, Unit

LEMMA LostByIs ==
    ASSUME lost \in Ledgers, NEW m \in Messages, NEW i \in Slots
    PROVE  LostBy(m, i) \in [Places -> Int]
           /\ \A p \in Places : LostBy(m, i)[p] = Owing(job, lost, <<m, i>>, p)
<1>1. \A p \in Places : Unwritten(<<m, i>>, p) = Owing(job, lost, <<m, i>>, p)
  BY UnwrittenIs
<1>2. <<m, i>> \in Handlers
  BY DEF Handlers
<1>3. PICK jobs, gone : jobs = job /\ gone = lost
  OBVIOUS
<1>4. \A p \in Places : Owing(jobs, gone, <<m, i>>, p) \in Int
  BY <1>2, <1>3, OwingInt
<1> QED
  BY <1>1, <1>3, <1>4 DEF LostBy

LEMMA BreaksBalance ==
    ASSUME BooksInv, BooksInv', BalanceInv, UNCHANGED <<onHand, journal>>, BreaksOff,
           lost' = [m \in Messages |-> [i \in Slots |-> lost'[m][i]]]
    PROVE  BalanceInv'
<1>1. lost \in Ledgers
  BY DEF BalanceInv
<1>2. ASSUME NEW m \in Messages, NEW i \in Slots PROVE lost'[m][i] \in [Places -> Int]
  <2>1. lost[m][i] \in [Places -> Int] /\ LostBy(m, i) \in [Places -> Int]
    BY <1>1, LostByIs DEF Ledgers
  <2> QED
    BY <2>1 DEF BreaksOff
<1>3. lost' \in Ledgers
  <2>1. PICK R : R = [Places -> Int]
    OBVIOUS
  <2>2. \A m \in Messages, i \in Slots : lost'[m][i] \in R
    BY <1>2, <2>1
  <2>3. lost' \in [Messages -> [Slots -> R]]
    BY <2>2
  <2> QED
    BY <2>1, <2>3 DEF Ledgers
<1>4. ASSUME NEW x \in Handlers, NEW p \in Places
      PROVE  Owing(job', lost', x, p) = Owing(job, lost, x, p)
  <2>1. PICK m \in Messages, i \in Slots : x = <<m, i>>
    BY DEF Handlers
  <2>2. CASE job'[m][i] = job[m][i] /\ lost'[m][i] = lost[m][i]
    BY <2>1, <2>2 DEF Owing, Owes
  <2>3. CASE job'[m][i] = Off /\ lost'[m][i] = LostBy(m, i)
    <3>1. ~ Owes(job', x, p)
      BY <2>1, <2>3 DEF Owes, Off
    <3>2. Owing(job', lost', x, p) = LostBy(m, i)[p] + 0
      BY <2>1, <2>3, <3>1 DEF Owing
    <3>3. LostBy(m, i)[p] \in Int /\ LostBy(m, i)[p] = Owing(job, lost, x, p)
      BY <1>1, <2>1, LostByIs
    <3> QED
      BY <3>2, <3>3
  <2> QED
    BY <2>2, <2>3 DEF BreaksOff
<1> QED
  BY <1>3, <1>4, BalanceQuiet

LEMMA BreakingOff ==
    ASSUME BooksInv, lost \in Ledgers, Restart \/ \E m \in Messages, i \in Slots : Throws(m, i)
    PROVE  BreaksOff /\ lost' = [m \in Messages |-> [i \in Slots |-> lost'[m][i]]]
<1>1. CASE Restart
  <2>1. /\ job' = [m \in Messages |-> [i \in Slots |-> Off]]
        /\ lost' = [m \in Messages |-> [i \in Slots |-> LostBy(m, i)]]
    BY <1>1 DEF Restart
  <2> QED
    BY <2>1 DEF BreaksOff
<1>2. ASSUME NEW m \in Messages, NEW i \in Slots, Throws(m, i)
      PROVE  BreaksOff /\ lost' = [n \in Messages |-> [j \in Slots |-> lost'[n][j]]]
  <2>1. PICK gone : gone = LostBy(m, i)
    OBVIOUS
  <2>2. job' = [job EXCEPT ![m][i] = Off] /\ lost' = [lost EXCEPT ![m][i] = gone]
    BY <1>2, <2>1 DEF Throws
  <2>3. MoveTypeOK /\ Off \in JobRec
    BY DEF BooksInv, Off, JobRec, Steps
  <2>4. /\ job'[m][i] = Off
        /\ \A n \in Messages, j \in Slots : n # m \/ j # i => job'[n][j] = job[n][j]
    BY <2>2, <2>3, JobMoves, ZenonT(60)
  <2>5. PICK R : R = [Places -> Int]
    OBVIOUS
  <2>6. lost \in [Messages -> [Slots -> R]]
    BY <2>5 DEF Ledgers
  <2>7. /\ lost'[m][i] = gone
        /\ \A n \in Messages, j \in Slots : n # m \/ j # i => lost'[n][j] = lost[n][j]
        /\ lost' = [n \in Messages |-> [j \in Slots |-> lost'[n][j]]]
    BY <2>2, <2>6
  <2> QED
    BY <2>1, <2>4, <2>7 DEF BreaksOff
<1> QED
  BY <1>1, <1>2

(* Levels and rows that move together: adjustments and posted counts.       *)
LEMMA TogetherBalance ==
    ASSUME BooksInv, BooksInv', BalanceInv, NEW d \in References, UNCHANGED <<job, lost>>,
           \A e \in References \ {d} : journal'[e] = journal[e],
           \A p \in Places : onHand'[p] - onHand[p] = journal'[d][p] - journal[d][p]
    PROVE  BalanceInv'
<1>1. ASSUME NEW p \in Places
      PROVE  SumFunctionOnSet(Owings(job', lost', p), Handlers)
               = SumFunctionOnSet(Owings(job, lost, p), Handlers)
                 + (onHand'[p] - onHand[p]) - (journal'[d][p] - journal[d][p])
  <2>1. PICK O, a, b : /\ O = SumFunctionOnSet(Owings(job, lost, p), Handlers)
                       /\ a = onHand'[p] - onHand[p] /\ b = journal'[d][p] - journal[d][p]
    OBVIOUS
  <2>2. O \in Int /\ a \in Int /\ a = b
    <3>1. O \in Int
      BY <2>1, OwingInt DEF BalanceInv
    <3>2. a \in Int /\ a = b
      BY <2>1, BookTypes
    <3> QED
      BY <3>1, <3>2
  <2>3. O = O + a - b
    BY <2>2
  <2>4. SumFunctionOnSet(Owings(job', lost', p), Handlers) = O
    BY <2>1
  <2> QED
    BY <2>1, <2>3, <2>4
<1>2. lost' \in Ledgers
  BY DEF BalanceInv
<1> QED
  BY <1>1, <1>2, BalanceMoves

LEMMA AdjustBalance ==
    ASSUME BooksInv, BooksInv', BalanceInv, NEW d \in Documents, Adjust(d)
    PROVE  BalanceInv'
<1>1. /\ onHand' = Moved(onHand, d, LinesOf[d]) /\ d \in References
      /\ journal' = [journal EXCEPT ![d] = Moved(@, d, LinesOf[d])]
      /\ UNCHANGED <<job, lost>>
  BY DEF Adjust, References, saleVars
<1>2. PICK u : u = LinesOf[d]
  OBVIOUS
<1>3. ASSUME NEW p \in Places PROVE onHand'[p] - onHand[p] = journal'[d][p] - journal[d][p]
  <2>1. PICK delta : delta = IF p \in PlacesOf(u) THEN Delta(d, p) ELSE 0
    OBVIOUS
  <2>2. onHand[p] \in Int /\ onHand'[p] = onHand[p] + delta
    BY <1>1, <1>2, <2>1, LevelIs
  <2>3. delta \in Int /\ journal[d][p] \in Int /\ journal'[d][p] = journal[d][p] + delta
    <3>1. journal'[d] = Moved(journal[d], d, u)
      BY <1>1, <1>2 DEF BooksInv, MoveTypeOK
    <3> QED
      BY <2>1, <3>1, RowIs
  <2> QED
    BY <2>2, <2>3
<1>4. \A e \in References \ {d} : journal'[e] = journal[e]
  BY <1>1 DEF BooksInv, MoveTypeOK
<1> QED
  BY <1>1, <1>3, <1>4, TogetherBalance

-----------------------------------------------------------------------------
(* All the steps of the levels, the journal and the messages.               *)
Moves ==
    \/ \E d \in Documents : Happens(d) \/ Adjust(d) \/ TellAdjusted(d)
    \/ \E d \in Documents, k \in Copies : AnnouncedAgain(d, k)
    \/ \E m \in Messages, i \in Slots : Deliver(m, i) \/ Handle(m, i) \/ Throws(m, i)
    \/ ChannelLost
    \/ Restart

LEMMA MovesBooks ==
    ASSUME BooksInv, Moves
    PROVE  BooksInv'
<1>1. ASSUME NEW d \in Documents, Happens(d) \/ Adjust(d) \/ TellAdjusted(d) PROVE BooksInv'
  BY <1>1, HappensBooks, AdjustBooks, TellAdjustedBooks
<1>2. ASSUME NEW d \in Documents, NEW k \in Copies, AnnouncedAgain(d, k) PROVE BooksInv'
  BY <1>2, AnnouncedAgainBooks
<1>3. ASSUME NEW m \in Messages, NEW i \in Slots, Deliver(m, i) \/ Handle(m, i) \/ Throws(m, i)
      PROVE  BooksInv'
  <2>1. CASE Deliver(m, i) \/ Throws(m, i)
    BY <2>1, DeliverBooks, ThrowsBooks
  <2>2. CASE FindProduct(m, i) \/ CreateStub(m, i) \/ RaiseLevel(m, i) \/ WriteRow(m, i)
    BY <2>2, FindProductBooks, CreateStubBooks, RaiseLevelBooks, WriteRowBooks
  <2>3. CASE Look(m, i) \/ Apply(m, i) \/ Ack(m, i)
    BY <2>3, LookBooks, ApplyBooks, AckBooks
  <2>4. CASE FindReservation(m, i) \/ MarkConsumed(m, i)
    BY <2>4, FindReservationBooks, MarkConsumedBooks
  <2> QED
    BY <1>3, <2>1, <2>2, <2>3, <2>4 DEF Handle
<1> QED
  BY <1>1, <1>2, <1>3, ChannelLostBooks, RestartBooks DEF Moves

LEMMA HandlersBalance ==
    ASSUME BooksInv, BooksInv', BalanceInv, NEW m \in Messages, NEW i \in Slots,
           Deliver(m, i) \/ Handle(m, i) \/ Throws(m, i)
    PROVE  BalanceInv'
<1>1. MoveTypeOK /\ job[m][i] \in JobRec /\ m[1] \in Documents
  BY DEF BooksInv, MoveTypeOK, JobRec, Messages
<1>2. job[m][i].at \in Nat /\ job[m][i].live \in BOOLEAN /\ job[m][i].at # 0
  BY <1>1 DEF JobRec
<1>3. PICK to : to = [step \in Steps |->
             [step |-> step, at |-> job[m][i].at, live |-> job[m][i].live]]
  OBVIOUS
<1>4. \A step \in Steps : to[step] \in JobRec /\ to[step].step = step
                          /\ Goto(m, i, step) = [job EXCEPT ![m][i] = to[step]]
  BY <1>1, <1>2, <1>3, JobEdits DEF JobRec
<1>5. PICK n : n = [step |-> "next", at |-> After(m[1], job[m][i].at), live |-> job[m][i].live]
  OBVIOUS
<1>6. n \in JobRec /\ n.step = "next" /\ NextLine(m, i) = [job EXCEPT ![m][i] = n]
  <2>1. After(m[1], job[m][i].at) \in Nat \ {0}
    BY <1>1, <1>2, AfterIs
  <2>2. "next" \in Steps
    BY DEF Steps
  <2>3. NextLine(m, i) = [job EXCEPT ![m][i] = n]
    BY <1>1, <1>5, <2>2, JobEdits
  <2> QED
    BY <1>2, <1>5, <2>1, <2>2, <2>3 DEF JobRec
<1>7. Off \in JobRec /\ Off.step = "off"
  BY DEF Off, JobRec, Steps
<1>8. CASE Deliver(m, i)
  <2>1. PICK r : r = [step |-> "next", at |-> After(m[1], 0), live |-> TRUE]
    OBVIOUS
  <2>2. r \in JobRec
    <3>1. After(m[1], 0) \in Nat \ {0}
      BY <1>1, AfterIs
    <3> QED
      BY <2>1, <3>1 DEF JobRec, Steps
  <2>3. /\ job' = [job EXCEPT ![m][i] = r] /\ job[m][i].step # "row"
        /\ UNCHANGED <<onHand, journal, lost>>
    BY <1>8, <2>1 DEF Deliver, saleVars
  <2> QED
    BY <2>1, <2>2, <2>3, TurnBalance
<1>9. CASE FindProduct(m, i)
  <2>1. PICK step \in {"level", "create"} : job' = Goto(m, i, step)
    BY <1>9 DEF FindProduct
  <2>2. job[m][i].step # "row" /\ UNCHANGED <<onHand, journal, lost>>
    BY <1>9 DEF FindProduct, At, saleVars
  <2>3. step \in Steps
    BY DEF Steps
  <2> QED
    BY <1>4, <2>1, <2>2, <2>3, TurnBalance
<1>10. CASE CreateStub(m, i)
  <2>1. job' = Goto(m, i, "level") /\ "level" \in Steps
    BY <1>10 DEF CreateStub, Steps
  <2>2. job[m][i].step # "row" /\ UNCHANGED <<onHand, journal, lost>>
    BY <1>10 DEF CreateStub, At, saleVars
  <2> QED
    BY <1>4, <2>1, <2>2, TurnBalance
<1>11. CASE Look(m, i)
  <2>1. job' = NextLine(m, i) \/ job' = Goto(m, i, "apply")
    BY <1>11 DEF Look
  <2>2. job[m][i].step # "row" /\ UNCHANGED <<onHand, journal, lost>>
    BY <1>11 DEF Look, At, saleVars
  <2>3. "apply" \in Steps
    BY DEF Steps
  <2>4. CASE job' = NextLine(m, i)
    BY <1>6, <2>2, <2>4, TurnBalance
  <2>5. CASE job' = Goto(m, i, "apply")
    BY <1>4, <2>2, <2>3, <2>5, TurnBalance
  <2> QED
    BY <2>1, <2>4, <2>5
<1>12. CASE Ack(m, i)
  <2>1. /\ job' = [job EXCEPT ![m][i] = Off] /\ job[m][i].step # "row"
        /\ UNCHANGED <<onHand, journal, lost>>
    BY <1>12 DEF Ack, saleVars
  <2> QED
    BY <1>7, <2>1, TurnBalance
<1>13. CASE Throws(m, i)
  <2>1. UNCHANGED <<onHand, journal>> /\ lost \in Ledgers
    BY <1>13 DEF Throws, BalanceInv
  <2> QED
    BY <1>13, <2>1, BreakingOff, BreaksBalance
<1>14. CASE FindReservation(m, i)
  <2>1. job' = NextLine(m, i) \/ job' = Goto(m, i, "mark")
    BY <1>14 DEF FindReservation
  <2>2. job[m][i].step # "row" /\ UNCHANGED <<onHand, journal, lost>>
    BY <1>14 DEF FindReservation, At, saleVars
  <2>3. "mark" \in Steps
    BY DEF Steps
  <2>4. CASE job' = NextLine(m, i)
    BY <1>6, <2>2, <2>4, TurnBalance
  <2>5. CASE job' = Goto(m, i, "mark")
    BY <1>4, <2>2, <2>3, <2>5, TurnBalance
  <2> QED
    BY <2>1, <2>4, <2>5
<1>15. CASE MarkConsumed(m, i)
  <2>1. job' = Goto(m, i, "level") /\ "level" \in Steps
    BY <1>15 DEF MarkConsumed, Steps
  <2>2. job[m][i].step # "row" /\ UNCHANGED <<onHand, journal, lost>>
    BY <1>15 DEF MarkConsumed, At
  <2> QED
    BY <1>4, <2>1, <2>2, TurnBalance
<1> QED
  BY <1>8, <1>9, <1>10, <1>11, <1>12, <1>13, <1>14, <1>15, RaiseLevelBalance, WriteRowBalance,
     ApplyBalance DEF Handle

LEMMA StillAt ==
    ASSUME BooksInv, ChannelLost, NEW m \in Messages, NEW i \in Slots
    PROVE  job'[m][i].step = job[m][i].step /\ job'[m][i].at = job[m][i].at
<1>1. PICK q \in JobRec : q = job[m][i]
  BY DEF BooksInv, MoveTypeOK, JobRec
<1>2. job'[m][i] = [q EXCEPT !.live = FALSE]
  BY <1>1 DEF ChannelLost
<1>3. q = [step |-> q.step, at |-> q.at, live |-> q.live]
  BY DEF JobRec
<1>4. job'[m][i] = [step |-> q.step, at |-> q.at, live |-> FALSE]
  BY <1>2, <1>3
<1> QED
  BY <1>1, <1>4

LEMMA MovesBalance ==
    ASSUME BooksInv, BooksInv', BalanceInv, Moves
    PROVE  BalanceInv'
<1>1. lost \in Ledgers
  BY DEF BalanceInv
<1>2. ASSUME UNCHANGED <<onHand, journal, job, lost>> PROVE BalanceInv'
  BY <1>1, <1>2, BalanceQuiet
<1>3. ASSUME NEW d \in Documents, Happens(d) \/ Adjust(d) \/ TellAdjusted(d) PROVE BalanceInv'
  <2>1. CASE Happens(d)
    BY <1>2, <2>1 DEF Happens, saleVars
  <2>2. CASE TellAdjusted(d)
    BY <1>2, <2>2 DEF TellAdjusted, saleVars
  <2> QED
    BY <1>3, <2>1, <2>2, AdjustBalance
<1>4. ASSUME NEW d \in Documents, NEW k \in Copies, AnnouncedAgain(d, k) PROVE BalanceInv'
  BY <1>2, <1>4 DEF AnnouncedAgain, saleVars
<1>5. CASE ChannelLost
  <2>1. UNCHANGED <<onHand, journal, lost>>
    BY <1>5 DEF ChannelLost, saleVars
  <2>2. ASSUME NEW x \in Handlers, NEW p \in Places
        PROVE  Owing(job', lost', x, p) = Owing(job, lost, x, p)
    <3>1. PICK m \in Messages, i \in Slots : x = <<m, i>>
      BY DEF Handlers
    <3>2. job'[m][i].step = job[m][i].step /\ job'[m][i].at = job[m][i].at
      BY <1>5, StillAt
    <3> QED
      BY <2>1, <3>1, <3>2 DEF Owing, Owes
  <2> QED
    BY <1>1, <2>1, <2>2, BalanceQuiet
<1>6. CASE Restart
  <2>1. UNCHANGED <<onHand, journal>>
    BY <1>6 DEF Restart
  <2> QED
    BY <1>1, <1>6, <2>1, BreakingOff, BreaksBalance
<1> QED
  BY <1>3, <1>4, <1>5, <1>6, HandlersBalance DEF Moves

-----------------------------------------------------------------------------
(* Sales.  A marked line is in the books, or a handler is still at it, or   *)
(* one broke off; and where no handlers overlapped a line is touched by     *)
(* nobody before its mark, and afterwards moves its place once.             *)
LinesInv == \A line \in consumed :
    /\ line[1] \in Documents /\ Kind[line[1]] = "sale" /\ line[2] \in Starts(line[1])
    /\ \/ Applied(line[1], UnitAt(line[1], line[2]))
       \/ line \in torn
       \/ \E m \in Messages, i \in Slots : UnderWay(m, i, line)
NoneLost == \A m \in Messages, i \in Slots, p \in Places :
    Kind[m[1]] \notin {"receipt", "sale"} => lost[m][i][p] = 0
MarkInv == \A m \in Messages, i \in Slots :
    job[m][i].step = "mark" /\ m[1] \notin overlapped => LineOf(m, i) \notin consumed
Clean(d, p) == /\ journal[d][p] = 0
               /\ \A n \in Messages, j \in Slots : n[1] = d => lost[n][j][p] = 0
Fresh(d, k) == \/ <<d, k>> \notin consumed
               \/ \E m \in Messages, i \in Slots : UnderWay(m, i, <<d, k>>)
Once(d, p) ==
    /\ journal[d][p] \in {0, Delta(d, p)}
    /\ \A n \in Messages, j \in Slots : n[1] = d /\ lost[n][j][p] # 0 =>
          /\ lost[n][j][p] = Delta(d, p) /\ journal[d][p] = 0
          /\ \A o \in Messages, k \in Slots : o[1] = d /\ lost[o][k][p] # 0 => o = n /\ k = j
OnceInv == \A d \in Documents \ overlapped : Kind[d] = "sale" =>
    /\ \A k \in Starts(d) : Fresh(d, k) => \A p \in PlacesOf(UnitAt(d, k)) : Clean(d, p)
    /\ \A p \in Places : Once(d, p)
SalesInv == SaleTypeOK /\ LinesInv /\ NoneLost /\ MarkInv /\ OnceInv
LevelsInv == BalanceInv /\ SalesInv

LEMMA OwnPlaces ==
    ASSUME NEW d \in Documents, Kind[d] = "sale", NEW k \in Starts(d), NEW l \in Starts(d), NEW p,
           p \in PlacesOf(UnitAt(d, k)), p \in PlacesOf(UnitAt(d, l))
    PROVE  k = l
<1>1. /\ k \in DOMAIN LinesOf[d] /\ l \in DOMAIN LinesOf[d]
      /\ LinesOf[d][k].good /\ LinesOf[d][l].good
      /\ UnitAt(d, k) = <<LinesOf[d][k]>> /\ UnitAt(d, l) = <<LinesOf[d][l]>>
  BY DEF Starts, UnitAt
<1>2. LinesOf[d][k].place = p /\ LinesOf[d][l].place = p
  BY <1>1 DEF PlacesOf
<1>3. LinesOf[d][k].good \in BOOLEAN /\ LinesOf[d][l].good \in BOOLEAN
  BY <1>1, LinesTyped
<1> QED
  BY <1>1, <1>2, <1>3, DocumentAssumption

(* What a handler at a line of a sale knows.                                *)
LEMMA AtSale ==
    ASSUME BooksInv, NEW m \in Messages, NEW i \in Slots, NEW line, UnderWay(m, i, line)
    PROVE  /\ m[1] \in Documents /\ Kind[m[1]] = "sale" /\ line = <<m[1], job[m][i].at>>
           /\ job[m][i].step \in {"level", "row"} /\ job[m][i].at \in Starts(m[1])
           /\ line \in consumed
<1>1. JobOK(m, job[m][i]) /\ m[1] \in Documents
  BY DEF BooksInv, JobsInv, Messages
<1> QED
  BY <1>1 DEF JobOK, UnderWay, LineOf

LEMMA AtRow ==
    ASSUME BooksInv, NEW m \in Messages, NEW i \in Slots, NEW p, Owes(job, <<m, i>>, p)
    PROVE  /\ m[1] \in Documents /\ Kind[m[1]] \in {"receipt", "sale"}
           /\ job[m][i].step = "row" /\ job[m][i].at \in Starts(m[1])
           /\ p \in PlacesOf(UnitAt(m[1], job[m][i].at))
           /\ Kind[m[1]] = "sale" => UnderWay(m, i, <<m[1], job[m][i].at>>)
<1>1. JobOK(m, job[m][i]) /\ m[1] \in Documents
  BY DEF BooksInv, JobsInv, Messages
<1> QED
  BY <1>1 DEF JobOK, Owes, UnderWay, LineOf

(* A step that is not about the lines of a sale.                            *)
LEMMA SalesQuiet ==
    ASSUME SalesInv, UNCHANGED <<consumed, torn, lost>>, overlapped \subseteq overlapped',
           \A d \in Documents : Kind[d] = "sale" => journal'[d] = journal[d],
           \A m \in Messages, i \in Slots : \A line :
              UnderWay(m, i, line)' <=> UnderWay(m, i, line),
           \A m \in Messages, i \in Slots : job'[m][i].step = "mark" /\ m[1] \notin overlapped' =>
              <<m[1], job'[m][i].at>> \notin consumed
    PROVE  SalesInv'
<1>1. SaleTypeOK' /\ NoneLost'
  BY DEF SalesInv, SaleTypeOK, NoneLost
<1>2. LinesInv'
  <2> SUFFICES ASSUME NEW line \in consumed
               PROVE  /\ line[1] \in Documents /\ Kind[line[1]] = "sale" /\ line[2] \in Starts(line[1])
                      /\ \/ Applied(line[1], UnitAt(line[1], line[2]))'
                         \/ line \in torn
                         \/ \E m \in Messages, i \in Slots : UnderWay(m, i, line)'
    BY DEF LinesInv
  <2>1. /\ line[1] \in Documents /\ Kind[line[1]] = "sale" /\ line[2] \in Starts(line[1])
        /\ \/ Applied(line[1], UnitAt(line[1], line[2]))
           \/ line \in torn
           \/ \E m \in Messages, i \in Slots : UnderWay(m, i, line)
    BY DEF SalesInv, LinesInv
  <2>2. \A u : Applied(line[1], u)' <=> Applied(line[1], u)
    BY <2>1 DEF Applied
  <2> QED
    BY <2>1, <2>2
<1>3. MarkInv'
  BY DEF MarkInv, LineOf
<1>4. OnceInv'
  <2> SUFFICES ASSUME NEW d \in Documents, d \notin overlapped', Kind[d] = "sale"
               PROVE  /\ \A k \in Starts(d) : Fresh(d, k)' =>
                             \A p \in PlacesOf(UnitAt(d, k)) : Clean(d, p)'
                      /\ \A p \in Places : Once(d, p)'
    BY DEF OnceInv
  <2>1. /\ \A k \in Starts(d) : Fresh(d, k) => \A p \in PlacesOf(UnitAt(d, k)) : Clean(d, p)
        /\ \A p \in Places : Once(d, p)
    BY DEF SalesInv, OnceInv
  <2>2. \A k : Fresh(d, k)' => Fresh(d, k)
    BY DEF Fresh
  <2>3. \A p : Clean(d, p) => Clean(d, p)'
    BY DEF Clean
  <2>4. \A p : Once(d, p) => Once(d, p)'
    BY DEF Once
  <2> QED
    BY <2>1, <2>2, <2>3, <2>4
<1> QED
  BY <1>1, <1>2, <1>3, <1>4 DEF SalesInv

LEMMA HandlerSales ==
    ASSUME BooksInv, SalesInv, NEW m \in Messages, NEW i \in Slots, NEW r \in JobRec,
           job' = [job EXCEPT ![m][i] = r], UNCHANGED <<consumed, torn, lost>>,
           overlapped \subseteq overlapped',
           \A d \in Documents : Kind[d] = "sale" => journal'[d] = journal[d],
           \/ Kind[m[1]] # "sale"
           \/ job[m][i].step \notin {"level", "row"} /\ r.step \notin {"level", "row"}
           \/ /\ job[m][i].step \in {"level", "row"} /\ r.step \in {"level", "row"}
              /\ r.at = job[m][i].at,
           r.step = "mark" => <<m[1], r.at>> \notin consumed
    PROVE  SalesInv'
<1>1. /\ job'[m][i] = r
      /\ \A n \in Messages, j \in Slots : n # m \/ j # i => job'[n][j] = job[n][j]
  BY JobMoves, ZenonT(60) DEF BooksInv
<1>2. ASSUME NEW n \in Messages, NEW j \in Slots, NEW line
      PROVE  UnderWay(n, j, line)' <=> UnderWay(n, j, line)
  <2>1. CASE n = m /\ j = i
    BY <1>1, <2>1 DEF UnderWay, LineOf
  <2>2. CASE n # m \/ j # i
    BY <1>1, <2>2 DEF UnderWay, LineOf
  <2> QED
    BY <2>1, <2>2
<1>3. ASSUME NEW n \in Messages, NEW j \in Slots, job'[n][j].step = "mark", n[1] \notin overlapped'
      PROVE  <<n[1], job'[n][j].at>> \notin consumed
  <2>1. CASE n = m /\ j = i
    BY <1>1, <1>3, <2>1
  <2>2. CASE n # m \/ j # i
    BY <1>1, <1>3, <2>2 DEF SalesInv, MarkInv, LineOf
  <2> QED
    BY <2>1, <2>2
<1> QED
  BY <1>2, <1>3, SalesQuiet

LEMMA SalesMark ==
    ASSUME BooksInv, SalesInv, NEW m \in Messages, NEW i \in Slots, MarkConsumed(m, i)
    PROVE  SalesInv'
<1>1. PICK d, a : d = m[1] /\ a = job[m][i].at
  OBVIOUS
<1>2. /\ d \in Documents /\ Kind[d] = "sale" /\ a \in Starts(d)
      /\ job[m][i].step = "mark" /\ job[m][i] \in JobRec /\ "level" \in Steps
      /\ consumed' = consumed \cup {<<d, a>>} /\ job' = Goto(m, i, "level")
      /\ UNCHANGED <<journal, overlapped, lost, torn>>
  <2>1. job[m][i].step = "mark" /\ job[m][i].step # "off"
    BY DEF MarkConsumed, At
  <2>2. JobOK(m, job[m][i]) /\ m[1] \in Documents /\ job[m][i] \in JobRec
    BY <2>1, AtLine
  <2> QED
    BY <1>1, <2>1, <2>2 DEF MarkConsumed, JobOK, LineOf, Steps
<1>3. PICK r : r = [step |-> "level", at |-> a, live |-> job[m][i].live]
  OBVIOUS
<1>4. r \in JobRec /\ job' = [job EXCEPT ![m][i] = r]
  BY <1>1, <1>2, <1>3, JobEdits DEF JobRec, BooksInv
<1>5. /\ job'[m][i] = r
      /\ \A n \in Messages, j \in Slots : n # m \/ j # i => job'[n][j] = job[n][j]
  BY <1>4, JobMoves, ZenonT(60) DEF BooksInv
<1>6. ASSUME NEW n \in Messages, NEW j \in Slots, NEW line
      PROVE  UnderWay(n, j, line)' <=> \/ UnderWay(n, j, line)
                                       \/ n = m /\ j = i /\ line = <<d, a>>
  <2>1. CASE n = m /\ j = i
    BY <1>1, <1>2, <1>3, <1>5, <2>1 DEF UnderWay, LineOf
  <2>2. CASE n # m \/ j # i
    BY <1>5, <2>2 DEF UnderWay, LineOf
  <2> QED
    BY <2>1, <2>2
<1>7. SaleTypeOK' /\ NoneLost'
  <2>1. <<d, a>> \in Documents \X Nat
    BY <1>1, <1>2 DEF JobRec
  <2> QED
    BY <1>2, <2>1 DEF SalesInv, SaleTypeOK, NoneLost
<1>8. LinesInv'
  <2> SUFFICES ASSUME NEW line \in consumed'
               PROVE  /\ line[1] \in Documents /\ Kind[line[1]] = "sale" /\ line[2] \in Starts(line[1])
                      /\ \/ Applied(line[1], UnitAt(line[1], line[2]))'
                         \/ line \in torn'
                         \/ \E n \in Messages, j \in Slots : UnderWay(n, j, line)'
    BY DEF LinesInv
  <2>1. CASE line = <<d, a>>
    BY <1>2, <1>6, <2>1
  <2>2. CASE line # <<d, a>>
    <3>1. line \in consumed
      BY <1>2, <2>2
    <3> QED
      BY <1>2, <1>6, <3>1 DEF SalesInv, LinesInv, Applied
  <2> QED
    BY <2>1, <2>2
<1>9. MarkInv'
  <2> SUFFICES ASSUME NEW n \in Messages, NEW j \in Slots, job'[n][j].step = "mark",
                      n[1] \notin overlapped
               PROVE  <<n[1], job'[n][j].at>> \notin consumed'
    BY <1>2 DEF MarkInv, LineOf
  <2>1. n # m \/ j # i
    BY <1>3, <1>5
  <2>2. job'[n][j] = job[n][j] /\ <<n[1], job[n][j].at>> \notin consumed
    BY <1>5, <2>1 DEF SalesInv, MarkInv, LineOf
  <2>3. n[1] # d
    BY <1>1, <1>2, <2>1, <2>2 DEF BooksInv, OneHandler
  <2> QED
    BY <1>2, <2>2, <2>3
<1>10. OnceInv'
  <2> SUFFICES ASSUME NEW e \in Documents, e \notin overlapped, Kind[e] = "sale"
               PROVE  /\ \A k \in Starts(e) : Fresh(e, k)' =>
                             \A p \in PlacesOf(UnitAt(e, k)) : Clean(e, p)'
                      /\ \A p \in Places : Once(e, p)'
    BY <1>2 DEF OnceInv
  <2>1. /\ \A k \in Starts(e) : Fresh(e, k) => \A p \in PlacesOf(UnitAt(e, k)) : Clean(e, p)
        /\ \A p \in Places : Once(e, p)
    BY DEF SalesInv, OnceInv
  <2>2. ASSUME NEW k, Fresh(e, k)' PROVE Fresh(e, k)
    <3>1. CASE <<e, k>> = <<d, a>>
      <4>1. <<e, k>> \notin consumed
        BY <1>1, <1>2, <3>1 DEF SalesInv, MarkInv, LineOf
      <4> QED
        BY <4>1 DEF Fresh
    <3>2. CASE <<e, k>> # <<d, a>>
      BY <1>2, <1>6, <2>2, <3>2 DEF Fresh
    <3> QED
      BY <3>1, <3>2
  <2>3. \A p : Clean(e, p) => Clean(e, p)'
    BY <1>2 DEF Clean
  <2>4. \A p : Once(e, p) => Once(e, p)'
    BY <1>2 DEF Once
  <2> QED
    BY <2>1, <2>2, <2>3, <2>4
<1> QED
  BY <1>7, <1>8, <1>9, <1>10 DEF SalesInv

LEMMA SalesRow ==
    ASSUME BooksInv, SalesInv, NEW m \in Messages, NEW i \in Slots, WriteRow(m, i),
           Kind[m[1]] = "sale"
    PROVE  SalesInv'
<1>1. PICK d, a : d = m[1] /\ a = job[m][i].at
  OBVIOUS
<1>2. /\ d \in Documents /\ d \in References /\ a \in Starts(d) /\ a \in Nat
      /\ job[m][i].step = "row" /\ job[m][i] \in JobRec /\ UnderWay(m, i, <<d, a>>)
      /\ <<d, a>> \in consumed /\ job' = NextLine(m, i)
      /\ journal' = [journal EXCEPT ![d] = Moved(@, d, UnitAt(d, a))]
      /\ UNCHANGED <<consumed, overlapped, lost, torn>>
  <2>1. job[m][i].step = "row" /\ job[m][i].step # "off"
    BY DEF WriteRow, At
  <2>2. JobOK(m, job[m][i]) /\ m[1] \in Documents /\ job[m][i] \in JobRec
    BY <2>1, AtLine
  <2>3. UnderWay(m, i, <<d, a>>)
    BY <1>1, <2>1 DEF UnderWay, LineOf
  <2> QED
    BY <1>1, <2>1, <2>2, <2>3 DEF WriteRow, JobOK, Unit, References, saleVars, JobRec
<1>3. PICK r : r = [step |-> "next", at |-> After(d, a), live |-> job[m][i].live]
  OBVIOUS
<1>4. r \in JobRec /\ job' = [job EXCEPT ![m][i] = r]
  <2>1. After(d, a) \in Nat \ {0} /\ "next" \in Steps
    BY <1>2, AfterIs DEF Steps
  <2> QED
    BY <1>1, <1>2, <1>3, <2>1, JobEdits DEF JobRec, BooksInv
<1>5. /\ job'[m][i] = r
      /\ \A n \in Messages, j \in Slots : n # m \/ j # i => job'[n][j] = job[n][j]
  BY <1>4, JobMoves, ZenonT(60) DEF BooksInv
<1>6. ASSUME NEW n \in Messages, NEW j \in Slots, NEW line
      PROVE  UnderWay(n, j, line)' <=> UnderWay(n, j, line) /\ ~ (n = m /\ j = i)
  <2>1. CASE n = m /\ j = i
    BY <1>3, <1>5, <2>1 DEF UnderWay
  <2>2. CASE n # m \/ j # i
    BY <1>5, <2>2 DEF UnderWay, LineOf
  <2> QED
    BY <2>1, <2>2
<1>7. PICK u : u = UnitAt(d, a)
  OBVIOUS
<1>8. /\ \A e \in References \ {d} : journal'[e] = journal[e]
      /\ journal'[d] = Moved(journal[d], d, u)
      /\ \A p \in Places : journal[d][p] \in Int /\ Delta(d, p) \in Int
      /\ \A p \in Places : journal'[d][p] =
            IF p \in PlacesOf(u) THEN journal[d][p] + Delta(d, p) ELSE journal[d][p]
  <2>1. journal \in [References -> [Places -> Int]]
    BY BookTypes
  <2>2. journal'[d] = Moved(journal[d], d, u) /\ \A e \in References \ {d} : journal'[e] = journal[e]
    BY <1>2, <1>7, <2>1
  <2> QED
    BY <1>2, <2>1, <2>2, DeltaIs, MovedIs
<1>9. SaleTypeOK' /\ NoneLost'
  BY <1>2 DEF SalesInv, SaleTypeOK, NoneLost
<1>10. PlacesOf(u) \subseteq Places /\ PlacesOf(u) # {} /\ \A p \in PlacesOf(u) : Delta(d, p) # 0
  BY <1>2, <1>7, UnitIs
<1>11. ASSUME NEW q, Applied(d, UnitAt(d, q)), q \in Starts(d) PROVE Applied(d, UnitAt(d, q))'
  <2>1. PICK p \in PlacesOf(UnitAt(d, q)) : journal[d][p] # 0
    BY <1>11 DEF Applied
  <2>2. p \in Places
    BY <1>2, <1>11, UnitIs
  <2>3. Towards(journal[d][p], Delta(d, p))
    BY <1>2, <2>2 DEF BooksInv, RowsInv
  <2>4. journal'[d][p] # 0
    BY <1>8, <2>1, <2>2, <2>3 DEF Towards
  <2> QED
    BY <2>1, <2>4 DEF Applied
<1>12. Applied(d, u)'
  <2>1. PICK p \in PlacesOf(u) : p \in Places /\ Delta(d, p) # 0
    BY <1>10
  <2>2. Towards(journal[d][p], Delta(d, p))
    BY <1>2, <2>1 DEF BooksInv, RowsInv
  <2>3. journal'[d][p] # 0
    BY <1>8, <2>1, <2>2 DEF Towards
  <2> QED
    BY <2>1, <2>3 DEF Applied
<1>13. LinesInv'
  <2> SUFFICES ASSUME NEW line \in consumed
               PROVE  /\ line[1] \in Documents /\ Kind[line[1]] = "sale" /\ line[2] \in Starts(line[1])
                      /\ \/ Applied(line[1], UnitAt(line[1], line[2]))'
                         \/ line \in torn
                         \/ \E n \in Messages, j \in Slots : UnderWay(n, j, line)'
    BY <1>2 DEF LinesInv
  <2>1. /\ line[1] \in Documents /\ Kind[line[1]] = "sale" /\ line[2] \in Starts(line[1])
        /\ \/ Applied(line[1], UnitAt(line[1], line[2]))
           \/ line \in torn
           \/ \E n \in Messages, j \in Slots : UnderWay(n, j, line)
    BY DEF SalesInv, LinesInv
  <2>2. CASE Applied(line[1], UnitAt(line[1], line[2]))
    <3>1. CASE line[1] = d
      BY <1>11, <2>1, <2>2, <3>1
    <3>2. CASE line[1] # d
      <4>1. journal'[line[1]] = journal[line[1]]
        BY <1>8, <2>1, <3>2 DEF References
      <4> QED
        BY <2>1, <2>2, <4>1 DEF Applied
    <3> QED
      BY <3>1, <3>2
  <2>3. ASSUME NEW n \in Messages, NEW j \in Slots, UnderWay(n, j, line)
        PROVE  Applied(line[1], UnitAt(line[1], line[2]))' \/ UnderWay(n, j, line)'
    <3>1. CASE n = m /\ j = i
      <4>1. line = <<d, a>>
        BY <1>1, <2>3, <3>1 DEF UnderWay, LineOf
      <4> QED
        BY <1>7, <1>12, <4>1
    <3>2. CASE ~ (n = m /\ j = i)
      BY <1>6, <2>3, <3>2
    <3> QED
      BY <3>1, <3>2
  <2> QED
    BY <2>1, <2>2, <2>3
<1>14. MarkInv'
  <2> SUFFICES ASSUME NEW n \in Messages, NEW j \in Slots, job'[n][j].step = "mark",
                      n[1] \notin overlapped
               PROVE  <<n[1], job'[n][j].at>> \notin consumed
    BY <1>2 DEF MarkInv, LineOf
  <2>1. n # m \/ j # i
    BY <1>3, <1>5
  <2>2. job'[n][j] = job[n][j]
    BY <1>5, <2>1
  <2> QED
    BY <2>2 DEF SalesInv, MarkInv, LineOf
<1>15. OnceInv'
  <2> SUFFICES ASSUME NEW e \in Documents, e \notin overlapped, Kind[e] = "sale"
               PROVE  /\ \A k \in Starts(e) : Fresh(e, k)' =>
                             \A p \in PlacesOf(UnitAt(e, k)) : Clean(e, p)'
                      /\ \A p \in Places : Once(e, p)'
    BY <1>2 DEF OnceInv
  <2>1. /\ \A k \in Starts(e) : Fresh(e, k) => \A p \in PlacesOf(UnitAt(e, k)) : Clean(e, p)
        /\ \A p \in Places : Once(e, p)
    BY DEF SalesInv, OnceInv
  <2>2. \A k : Fresh(e, k)' => Fresh(e, k)
    BY <1>2, <1>6 DEF Fresh
  <2>3. CASE e # d
    <3>1. journal'[e] = journal[e]
      BY <1>8, <2>3 DEF References
    <3>2. \A p : (Clean(e, p) => Clean(e, p)') /\ (Once(e, p) => Once(e, p)')
      BY <1>2, <3>1 DEF Clean, Once
    <3> QED
      BY <2>1, <2>2, <3>2
  <2>4. CASE e = d
    <3>1. \A p \in PlacesOf(u) : Clean(d, p)
      <4>1. Fresh(d, a)
        BY <1>2 DEF Fresh
      <4> QED
        BY <1>2, <1>7, <2>1, <2>4, <4>1
    <3>2. ~ Fresh(d, a)'
      <4>1. ASSUME NEW n \in Messages, NEW j \in Slots, UnderWay(n, j, <<d, a>>)' PROVE FALSE
        <5>1. UnderWay(n, j, <<d, a>>) /\ ~ (n = m /\ j = i)
          BY <1>6, <4>1
        <5>2. n[1] = m[1] /\ job[n][j].step # "off"
          BY <1>1, <5>1 DEF UnderWay, LineOf
        <5> QED
          BY <1>1, <1>2, <2>4, <5>1, <5>2 DEF BooksInv, OneHandler
      <4> QED
        BY <1>2, <4>1 DEF Fresh
    <3>3. ASSUME NEW k \in Starts(d), Fresh(d, k)', NEW p \in PlacesOf(UnitAt(d, k))
          PROVE  Clean(d, p)'
      <4>1. k # a
        BY <3>2, <3>3
      <4>2. p \in Places /\ p \notin PlacesOf(u)
        BY <1>2, <1>7, <2>4, <3>3, <4>1, OwnPlaces, UnitIs
      <4>3. journal'[d][p] = journal[d][p]
        BY <1>8, <4>2
      <4>4. Clean(d, p)
        BY <2>1, <2>2, <2>4, <3>3
      <4> QED
        BY <1>2, <4>3, <4>4 DEF Clean
    <3>4. ASSUME NEW p \in Places PROVE Once(d, p)'
      <4>1. Once(d, p)
        BY <2>1, <2>4
      <4>2. CASE p \in PlacesOf(u)
        <5>1. Clean(d, p)
          BY <3>1, <4>2
        <5>2. journal'[d][p] = Delta(d, p)
          BY <1>8, <4>2, <5>1 DEF Clean
        <5> QED
          BY <1>2, <5>1, <5>2 DEF Clean, Once
      <4>3. CASE p \notin PlacesOf(u)
        <5>1. journal'[d][p] = journal[d][p]
          BY <1>8, <4>3
        <5> QED
          BY <1>2, <4>1, <5>1 DEF Once
      <4> QED
        BY <4>2, <4>3
    <3> QED
      BY <2>4, <3>3, <3>4
  <2> QED
    BY <2>3, <2>4
<1> QED
  BY <1>9, <1>13, <1>14, <1>15 DEF SalesInv

(* Breaking off behind the mark: the line is torn, and what it moved lost.  *)
LEMMA SalesBreak ==
    ASSUME BooksInv, SalesInv, BreaksOff, lost \in Ledgers, lost' \in Ledgers,
           UNCHANGED <<journal, consumed, overlapped>>, torn \subseteq torn', torn' \subseteq consumed,
           \A m \in Messages, i \in Slots : \A line \in consumed :
              UnderWay(m, i, line) => UnderWay(m, i, line)' \/ line \in torn'
    PROVE  SalesInv'
<1>1. \A n \in Messages, j \in Slots : \A line : UnderWay(n, j, line)' =>
         UnderWay(n, j, line) /\ job'[n][j] = job[n][j]
  BY DEF BreaksOff, UnderWay, LineOf, Off
<1>2. ASSUME NEW n \in Messages, NEW j \in Slots, NEW p \in Places
      PROVE  \/ lost'[n][j][p] = lost[n][j][p]
             \/ /\ Owes(job, <<n, j>>, p) /\ job'[n][j] = Off
                /\ lost'[n][j][p] = lost[n][j][p] + Delta(n[1], p)
  <2>1. CASE job'[n][j] = job[n][j] /\ lost'[n][j] = lost[n][j]
    BY <2>1
  <2>2. CASE job'[n][j] = Off /\ lost'[n][j] = LostBy(n, j)
    <3>1. lost'[n][j][p] = Owing(job, lost, <<n, j>>, p) /\ lost[n][j][p] \in Int
      BY <2>2, LostByIs DEF Ledgers
    <3> QED
      BY <2>2, <3>1 DEF Owing
  <2> QED
    BY <2>1, <2>2 DEF BreaksOff
<1>3. SaleTypeOK'
  BY DEF SalesInv, SaleTypeOK, Ledgers
<1>4. LinesInv'
  <2> SUFFICES ASSUME NEW line \in consumed
               PROVE  /\ line[1] \in Documents /\ Kind[line[1]] = "sale" /\ line[2] \in Starts(line[1])
                      /\ \/ Applied(line[1], UnitAt(line[1], line[2]))'
                         \/ line \in torn'
                         \/ \E n \in Messages, j \in Slots : UnderWay(n, j, line)'
    BY DEF LinesInv
  <2>1. /\ line[1] \in Documents /\ Kind[line[1]] = "sale" /\ line[2] \in Starts(line[1])
        /\ \/ Applied(line[1], UnitAt(line[1], line[2]))
           \/ line \in torn
           \/ \E n \in Messages, j \in Slots : UnderWay(n, j, line)
    BY DEF SalesInv, LinesInv
  <2>2. \A u : Applied(line[1], u)' <=> Applied(line[1], u)
    BY DEF Applied
  <2> QED
    BY <2>1, <2>2
<1>5. NoneLost'
  <2> SUFFICES ASSUME NEW n \in Messages, NEW j \in Slots, NEW p \in Places,
                      Kind[n[1]] \notin {"receipt", "sale"}
               PROVE  lost'[n][j][p] = 0
    BY DEF NoneLost
  <2>1. ~ Owes(job, <<n, j>>, p) /\ lost[n][j][p] = 0
    BY AtRow DEF SalesInv, NoneLost
  <2> QED
    BY <1>2, <2>1
<1>6. MarkInv'
  BY DEF MarkInv, SalesInv, BreaksOff, LineOf, Off
<1>7. ASSUME NEW d \in Documents, d \notin overlapped, Kind[d] = "sale"
      PROVE  /\ \A k \in Starts(d) : Fresh(d, k)' =>
                    \A p \in PlacesOf(UnitAt(d, k)) : Clean(d, p)'
             /\ \A p \in Places : Once(d, p)'
  <2>1. /\ \A k \in Starts(d) : Fresh(d, k) => \A p \in PlacesOf(UnitAt(d, k)) : Clean(d, p)
        /\ \A p \in Places : Once(d, p)
    BY <1>7 DEF SalesInv, OnceInv
  <2>2. \A k : Fresh(d, k)' => Fresh(d, k)
    BY <1>1 DEF Fresh
  <2>3. \A k \in Starts(d) : PlacesOf(UnitAt(d, k)) \subseteq Places
    BY UnitIs
  <2>4. CASE ~ \E n \in Messages, j \in Slots :
                  n[1] = d /\ job[n][j].step = "row" /\ job'[n][j] = Off
    <3>1. \A n \in Messages, j \in Slots, p \in Places : n[1] = d => lost'[n][j][p] = lost[n][j][p]
      BY <1>2, <2>4 DEF Owes
    <3>2. \A p \in Places : (Clean(d, p) => Clean(d, p)') /\ (Once(d, p) => Once(d, p)')
      BY <3>1 DEF Clean, Once
    <3> QED
      BY <2>1, <2>2, <2>3, <3>2
  <2>5. ASSUME NEW n \in Messages, NEW j \in Slots,
               n[1] = d, job[n][j].step = "row", job'[n][j] = Off
        PROVE  /\ \A k \in Starts(d) : Fresh(d, k)' =>
                      \A p \in PlacesOf(UnitAt(d, k)) : Clean(d, p)'
               /\ \A p \in Places : Once(d, p)'
    <3>1. PICK a : a = job[n][j].at
      OBVIOUS
    <3>2. PICK u : u = UnitAt(d, a)
      OBVIOUS
    <3>3. UnderWay(n, j, <<d, a>>)
      BY <1>7, <2>5, <3>1 DEF UnderWay, LineOf
    <3>4. a \in Starts(d) /\ <<d, a>> \in consumed
      BY <2>5, <3>1, <3>3, AtSale
    <3>5. \A p \in PlacesOf(u) : Clean(d, p)
      BY <2>1, <3>2, <3>3, <3>4 DEF Fresh
    <3>6. \A o \in Messages, k \in Slots :
             o[1] = d /\ job[o][k].step # "off" => o = n /\ k = j
      BY <1>7, <2>5 DEF BooksInv, OneHandler
    <3>7. ASSUME NEW o \in Messages, NEW k \in Slots, NEW p \in Places, o[1] = d
          PROVE  /\ (o # n \/ k # j \/ p \notin PlacesOf(u)) => lost'[o][k][p] = lost[o][k][p]
                 /\ p \in PlacesOf(u) => lost'[o][k][p] \in {0, Delta(d, p)}
      <4>1. Owes(job, <<o, k>>, p) => o = n /\ k = j /\ p \in PlacesOf(u)
        BY <2>5, <3>1, <3>2, <3>6, <3>7 DEF Owes
      <4>2. p \in PlacesOf(u) => lost[o][k][p] = 0
        BY <3>5, <3>7 DEF Clean
      <4>3. Delta(d, p) \in Int
        BY DeltaIs
      <4> QED
        BY <1>2, <3>7, <4>1, <4>2, <4>3
    <3>8. ~ Fresh(d, a)'
      <4>1. ASSUME NEW o \in Messages, NEW k \in Slots, UnderWay(o, k, <<d, a>>)' PROVE FALSE
        <5>1. UnderWay(o, k, <<d, a>>) /\ job'[o][k] = job[o][k]
          BY <1>1, <4>1
        <5>2. o[1] = d /\ job[o][k].step \in {"level", "row"}
          BY <5>1 DEF UnderWay, LineOf
        <5>3. o = n /\ k = j
          BY <3>6, <5>2
        <5> QED
          BY <2>5, <5>1, <5>2, <5>3 DEF Off
      <4> QED
        BY <3>4, <4>1 DEF Fresh
    <3>9. ASSUME NEW k \in Starts(d), Fresh(d, k)', NEW p \in PlacesOf(UnitAt(d, k))
          PROVE  Clean(d, p)'
      <4>1. k # a
        BY <3>8, <3>9
      <4>2. p \in Places /\ p \notin PlacesOf(u)
        BY <1>7, <2>3, <3>2, <3>4, <3>9, <4>1, OwnPlaces
      <4>3. Clean(d, p)
        BY <2>1, <2>2, <3>9
      <4> QED
        BY <3>7, <4>2, <4>3 DEF Clean
    <3>10. ASSUME NEW p \in Places PROVE Once(d, p)'
      <4>1. CASE p \notin PlacesOf(u)
        <5>1. Once(d, p) /\ \A o \in Messages, k \in Slots : o[1] = d => lost'[o][k][p] = lost[o][k][p]
          BY <2>1, <3>7, <4>1
        <5> QED
          BY <5>1 DEF Once
      <4>2. CASE p \in PlacesOf(u)
        <5>1. journal'[d][p] = 0
          BY <3>5, <4>2 DEF Clean
        <5>2. ASSUME NEW o \in Messages, NEW k \in Slots, o[1] = d, lost'[o][k][p] # 0
              PROVE  lost'[o][k][p] = Delta(d, p) /\ o = n /\ k = j
          <6>1. lost[o][k][p] = 0
            BY <3>5, <4>2, <5>2 DEF Clean
          <6>2. o = n /\ k = j
            BY <3>7, <5>2, <6>1
          <6> QED
            BY <3>7, <4>2, <5>2, <6>2
        <5> QED
          BY <5>1, <5>2 DEF Once
      <4> QED
        BY <4>1, <4>2
    <3> QED
      BY <3>9, <3>10
  <2> QED
    BY <2>4, <2>5
<1>8. OnceInv'
  BY <1>7 DEF OnceInv
<1> QED
  BY <1>3, <1>4, <1>5, <1>6, <1>8 DEF SalesInv

LEMMA SalesBreaks ==
    ASSUME BooksInv, BalanceInv, BalanceInv', SalesInv,
           Restart \/ \E m \in Messages, i \in Slots : Throws(m, i)
    PROVE  SalesInv'
<1>1. lost \in Ledgers /\ lost' \in Ledgers
  BY DEF BalanceInv
<1>2. BreaksOff
  BY <1>1, BreakingOff
<1>3. torn \subseteq consumed
  BY DEF SalesInv, SaleTypeOK
<1>4. CASE Restart
  <2>1. /\ UNCHANGED <<journal, consumed, overlapped>>
        /\ torn' = torn \cup {line \in consumed : \E m \in Messages, i \in Slots : UnderWay(m, i, line)}
    BY <1>4 DEF Restart
  <2>2. torn \subseteq torn' /\ torn' \subseteq consumed
    BY <1>3, <2>1
  <2>3. \A m \in Messages, i \in Slots : \A line \in consumed :
           UnderWay(m, i, line) => line \in torn'
    BY <2>1
  <2> QED
    BY <1>1, <1>2, <2>1, <2>2, <2>3, SalesBreak
<1>5. ASSUME NEW m \in Messages, NEW i \in Slots, Throws(m, i) PROVE SalesInv'
  <2>1. /\ UNCHANGED <<journal, consumed, overlapped>>
        /\ torn' = torn \cup {line \in consumed : UnderWay(m, i, line)}
        /\ job' = [job EXCEPT ![m][i] = Off]
    BY <1>5 DEF Throws
  <2>2. torn \subseteq torn' /\ torn' \subseteq consumed
    BY <1>3, <2>1
  <2>3. MoveTypeOK /\ Off \in JobRec
    BY DEF BooksInv, Off, JobRec, Steps
  <2>4. \A n \in Messages, j \in Slots : n # m \/ j # i => job'[n][j] = job[n][j]
    BY <2>1, <2>3, JobMoves
  <2>5. \A n \in Messages, j \in Slots : \A line \in consumed :
           UnderWay(n, j, line) => UnderWay(n, j, line)' \/ line \in torn'
    BY <2>1, <2>4 DEF UnderWay, LineOf
  <2> QED
    BY <1>1, <1>2, <2>1, <2>2, <2>5, SalesBreak
<1> QED
  BY <1>4, <1>5

LEMMA HandlersSales ==
    ASSUME BooksInv, BalanceInv, BalanceInv', SalesInv, NEW m \in Messages, NEW i \in Slots,
           Deliver(m, i) \/ Handle(m, i) \/ Throws(m, i)
    PROVE  SalesInv'
<1>1. MoveTypeOK /\ job[m][i] \in JobRec /\ m[1] \in Documents /\ JobOK(m, job[m][i])
  BY DEF BooksInv, MoveTypeOK, JobRec, Messages, JobsInv
<1>2. job[m][i].at \in Nat /\ job[m][i].live \in BOOLEAN /\ job[m][i].at # 0
  BY <1>1 DEF JobRec
<1>3. PICK to : to = [step \in Steps |->
             [step |-> step, at |-> job[m][i].at, live |-> job[m][i].live]]
  OBVIOUS
<1>4. \A step \in Steps : /\ to[step] \in JobRec /\ to[step].step = step
                          /\ to[step].at = job[m][i].at
                          /\ Goto(m, i, step) = [job EXCEPT ![m][i] = to[step]]
  BY <1>1, <1>2, <1>3, JobEdits DEF JobRec
<1>5. PICK n : n = [step |-> "next", at |-> After(m[1], job[m][i].at), live |-> job[m][i].live]
  OBVIOUS
<1>6. n \in JobRec /\ n.step = "next" /\ NextLine(m, i) = [job EXCEPT ![m][i] = n]
  <2>1. After(m[1], job[m][i].at) \in Nat \ {0}
    BY <1>1, <1>2, AfterIs
  <2>2. "next" \in Steps
    BY DEF Steps
  <2>3. NextLine(m, i) = [job EXCEPT ![m][i] = n]
    BY <1>1, <1>5, <2>2, JobEdits
  <2> QED
    BY <1>2, <1>5, <2>1, <2>2, <2>3 DEF JobRec
<1>7. Off \in JobRec /\ Off.step = "off"
  BY DEF Off, JobRec, Steps
<1>8. journal \in [References -> [Places -> Int]] /\ Documents \subseteq References
  BY <1>1 DEF MoveTypeOK, References
<1>9. {"level", "create", "mark", "apply", "row"} \subseteq Steps
  BY DEF Steps
<1>aside. ASSUME NEW r \in JobRec, job' = [job EXCEPT ![m][i] = r], UNCHANGED <<consumed, torn, lost>>,
              overlapped \subseteq overlapped', Kind[m[1]] # "sale", r.step # "mark",
              \A d \in Documents : Kind[d] = "sale" => journal'[d] = journal[d]
       PROVE  SalesInv'
  BY <1>aside, HandlerSales, ZenonT(60)
<1>along. ASSUME NEW r \in JobRec, job' = [job EXCEPT ![m][i] = r], UNCHANGED <<consumed, torn, lost>>,
              overlapped \subseteq overlapped', journal' = journal,
              \/ job[m][i].step \notin {"level", "row"} /\ r.step \notin {"level", "row"}
              \/ /\ job[m][i].step \in {"level", "row"} /\ r.step \in {"level", "row"}
                 /\ r.at = job[m][i].at,
              r.step = "mark" => <<m[1], r.at>> \notin consumed
       PROVE  SalesInv'
  <2>1. \A d \in Documents : Kind[d] = "sale" => journal'[d] = journal[d]
    BY <1>along
  <2> QED
    BY <1>along, <2>1, HandlerSales, ZenonT(60)
<1>10. CASE Deliver(m, i)
  <2>1. PICK r : r = [step |-> "next", at |-> After(m[1], 0), live |-> TRUE]
    OBVIOUS
  <2>2. r \in JobRec
    <3>1. After(m[1], 0) \in Nat \ {0}
      BY <1>1, AfterIs
    <3> QED
      BY <2>1, <3>1 DEF JobRec, Steps
  <2>3. /\ job' = [job EXCEPT ![m][i] = r] /\ job[m][i].step = "off" /\ r.step = "next"
        /\ UNCHANGED <<journal, consumed, torn, lost>> /\ overlapped \subseteq overlapped'
    BY <1>10, <2>1 DEF Deliver, saleVars
  <2>4. job[m][i].step \notin {"level", "row"} /\ r.step \notin {"level", "row"} /\ r.step # "mark"
    BY <2>3
  <2> QED
    BY <1>along, <2>2, <2>3, <2>4
<1>11. CASE FindProduct(m, i)
  <2>1. PICK step \in {"level", "create"} : job' = Goto(m, i, step)
    BY <1>11 DEF FindProduct
  <2>2. Kind[m[1]] # "sale" /\ UNCHANGED <<journal, consumed, torn, lost, overlapped>>
    BY <1>11 DEF FindProduct, saleVars
  <2>3. PICK r \in JobRec : r.step = step /\ job' = [job EXCEPT ![m][i] = r]
    BY <1>4, <1>9, <2>1
  <2>4. r.step # "mark"
    BY <2>3
  <2> QED
    BY <1>aside, <2>2, <2>3, <2>4
<1>12. CASE CreateStub(m, i)
  <2>1. Kind[m[1]] # "sale"
    BY <1>1, <1>12 DEF CreateStub, At, JobOK
  <2>2. job' = Goto(m, i, "level") /\ UNCHANGED <<journal, consumed, torn, lost, overlapped>>
    BY <1>12 DEF CreateStub, saleVars
  <2>3. PICK r \in JobRec : r.step = "level" /\ job' = [job EXCEPT ![m][i] = r]
    BY <1>4, <1>9, <2>2
  <2> QED
    BY <1>aside, <2>1, <2>2, <2>3
<1>13. CASE RaiseLevel(m, i)
  <2>1. /\ job[m][i].step = "level" /\ job' = Goto(m, i, "row")
        /\ UNCHANGED <<journal, consumed, torn, lost, overlapped>>
    BY <1>13 DEF RaiseLevel, At, saleVars
  <2>2. PICK r \in JobRec : r.step = "row" /\ r.at = job[m][i].at /\ job' = [job EXCEPT ![m][i] = r]
    BY <1>4, <1>9, <2>1
  <2>3. job[m][i].step \in {"level", "row"} /\ r.step \in {"level", "row"} /\ r.step # "mark"
    BY <2>1, <2>2
  <2> QED
    BY <1>along, <2>1, <2>2, <2>3
<1>14. CASE WriteRow(m, i) /\ Kind[m[1]] # "sale"
  <2>1. /\ job' = NextLine(m, i) /\ UNCHANGED <<consumed, torn, lost, overlapped>>
        /\ journal' = [journal EXCEPT ![m[1]] = Moved(@, m[1], Unit(m, i))]
    BY <1>14 DEF WriteRow, saleVars
  <2>2. \A d \in Documents : Kind[d] = "sale" => journal'[d] = journal[d]
    BY <1>8, <1>14, <2>1
  <2>3. n \in JobRec /\ n.step # "mark" /\ job' = [job EXCEPT ![m][i] = n]
    BY <1>6, <2>1
  <2> QED
    BY <1>14, <1>aside, <2>1, <2>2, <2>3
<1>15. CASE FindReservation(m, i)
  <2>1. /\ job[m][i].step = "next" /\ UNCHANGED <<journal, consumed, torn, lost, overlapped>>
        /\ \/ job' = NextLine(m, i)
           \/ job' = Goto(m, i, "mark") /\ <<m[1], job[m][i].at>> \notin consumed
    BY <1>15 DEF FindReservation, At, saleVars, LineOf
  <2>2. PICK r \in JobRec : /\ job' = [job EXCEPT ![m][i] = r] /\ r.step \in {"next", "mark"}
                            /\ r.step = "mark" => <<m[1], r.at>> \notin consumed
    <3>1. CASE job' = NextLine(m, i)
      <4>1. n \in JobRec /\ n.step = "next" /\ job' = [job EXCEPT ![m][i] = n]
        BY <1>6, <3>1
      <4> QED
        BY <4>1
    <3>2. CASE job' = Goto(m, i, "mark") /\ <<m[1], job[m][i].at>> \notin consumed
      <4>1. PICK r \in JobRec : /\ r.step = "mark" /\ r.at = job[m][i].at
                                /\ job' = [job EXCEPT ![m][i] = r]
        BY <1>4, <1>9, <3>2
      <4> QED
        BY <3>2, <4>1
    <3> QED
      BY <2>1, <3>1, <3>2
  <2>3. job[m][i].step \notin {"level", "row"} /\ r.step \notin {"level", "row"}
    BY <2>1, <2>2
  <2> QED
    BY <1>along, <2>1, <2>2, <2>3
<1>16. CASE Look(m, i)
  <2>1. /\ Kind[m[1]] # "sale" /\ UNCHANGED <<journal, consumed, torn, lost, overlapped>>
        /\ job' = NextLine(m, i) \/ job' = Goto(m, i, "apply")
    BY <1>16 DEF Look, saleVars
  <2>2. PICK r \in JobRec : job' = [job EXCEPT ![m][i] = r] /\ r.step \in {"next", "apply"}
    <3>1. CASE job' = NextLine(m, i)
      BY <1>6, <3>1
    <3>2. CASE job' = Goto(m, i, "apply")
      <4>1. to["apply"] \in JobRec /\ to["apply"].step = "apply"
            /\ job' = [job EXCEPT ![m][i] = to["apply"]]
        BY <1>4, <1>9, <3>2
      <4> QED
        BY <4>1
    <3> QED
      BY <2>1, <3>1, <3>2
  <2>3. r.step # "mark"
    BY <2>2
  <2> QED
    BY <1>aside, <2>1, <2>2, <2>3
<1>17. CASE Apply(m, i)
  <2>1. Kind[m[1]] # "sale"
    BY <1>1, <1>17 DEF Apply, At, JobOK
  <2>2. /\ job' = NextLine(m, i) /\ UNCHANGED <<consumed, torn, lost, overlapped>>
        /\ journal' = [journal EXCEPT ![m[1]] = Moved(@, m[1], Unit(m, i))]
    BY <1>17 DEF Apply, saleVars
  <2>3. \A d \in Documents : Kind[d] = "sale" => journal'[d] = journal[d]
    BY <1>8, <2>1, <2>2
  <2>4. n \in JobRec /\ n.step # "mark" /\ job' = [job EXCEPT ![m][i] = n]
    BY <1>6, <2>2
  <2> QED
    BY <1>aside, <2>1, <2>2, <2>3, <2>4
<1>18. CASE Ack(m, i)
  <2>1. /\ job' = [job EXCEPT ![m][i] = Off] /\ job[m][i].step = "next"
        /\ UNCHANGED <<journal, consumed, torn, lost, overlapped>>
    BY <1>18 DEF Ack, saleVars
  <2>2. job[m][i].step \notin {"level", "row"} /\ Off.step \notin {"level", "row"} /\ Off.step # "mark"
    BY <1>7, <2>1
  <2> QED
    BY <1>7, <1>along, <2>1, <2>2
<1> QED
  BY <1>10, <1>11, <1>12, <1>13, <1>14, <1>15, <1>16, <1>17, <1>18, SalesMark, SalesRow, SalesBreaks
     DEF Handle

LEMMA MovesLevels ==
    ASSUME BooksInv, BooksInv', LevelsInv, Moves
    PROVE  LevelsInv'
<1>1. BalanceInv /\ SalesInv /\ BalanceInv'
  BY MovesBalance DEF LevelsInv
<1>2. ASSUME UNCHANGED <<consumed, torn, lost, overlapped, job>>,
             \A d \in Documents : Kind[d] = "sale" => journal'[d] = journal[d]
      PROVE  SalesInv'
  <2>1. \A m \in Messages, i \in Slots : \A line : UnderWay(m, i, line)' <=> UnderWay(m, i, line)
    BY <1>2 DEF UnderWay, LineOf
  <2>2. \A m \in Messages, i \in Slots : job'[m][i].step = "mark" /\ m[1] \notin overlapped' =>
           <<m[1], job'[m][i].at>> \notin consumed
    BY <1>1, <1>2 DEF SalesInv, MarkInv, LineOf
  <2> QED
    BY <1>1, <1>2, <2>1, <2>2, SalesQuiet
<1>3. ASSUME NEW d \in Documents, Happens(d) \/ Adjust(d) \/ TellAdjusted(d) PROVE SalesInv'
  <2>1. journal \in [References -> [Places -> Int]] /\ Documents \subseteq References
    BY DEF BooksInv, MoveTypeOK, References
  <2>2. CASE Happens(d) \/ TellAdjusted(d)
    BY <1>2, <2>2 DEF Happens, TellAdjusted, saleVars
  <2>3. CASE Adjust(d)
    <3>1. /\ UNCHANGED <<consumed, torn, lost, overlapped, job>> /\ Kind[d] = "adjustment"
          /\ journal' = [journal EXCEPT ![d] = Moved(@, d, LinesOf[d])]
      BY <2>3 DEF Adjust, saleVars
    <3>2. \A e \in Documents : Kind[e] = "sale" => journal'[e] = journal[e]
      BY <2>1, <3>1
    <3> QED
      BY <1>2, <3>1, <3>2
  <2> QED
    BY <1>3, <2>2, <2>3
<1>4. ASSUME NEW d \in Documents, NEW k \in Copies, AnnouncedAgain(d, k) PROVE SalesInv'
  BY <1>2, <1>4 DEF AnnouncedAgain, saleVars
<1>5. ASSUME NEW m \in Messages, NEW i \in Slots, Deliver(m, i) \/ Handle(m, i) \/ Throws(m, i)
      PROVE  SalesInv'
  BY <1>1, <1>5, HandlersSales
<1>6. ASSUME ChannelLost PROVE SalesInv'
  <2>1. UNCHANGED <<consumed, torn, lost, overlapped, journal>>
    BY <1>6 DEF ChannelLost, saleVars
  <2>2. \A m \in Messages, i \in Slots : \A line : UnderWay(m, i, line)' <=> UnderWay(m, i, line)
    BY <1>6, StillAt DEF UnderWay, LineOf
  <2>3. ASSUME NEW m \in Messages, NEW i \in Slots, job'[m][i].step = "mark", m[1] \notin overlapped
        PROVE  <<m[1], job'[m][i].at>> \notin consumed
    <3>1. job'[m][i].step = job[m][i].step /\ job'[m][i].at = job[m][i].at
      BY <1>6, StillAt
    <3> QED
      BY <1>1, <2>3, <3>1 DEF SalesInv, MarkInv, LineOf
  <2> QED
    BY <1>1, <2>1, <2>2, <2>3, SalesQuiet
<1>7. ASSUME Restart PROVE SalesInv'
  BY <1>1, <1>7, SalesBreaks
<1>8. SalesInv'
  BY <1>3, <1>4, <1>5, <1>6, <1>7 DEF Moves
<1> QED
  BY <1>1, <1>8 DEF LevelsInv

(* Levels and rows of something else than a document, moving together.      *)
LEMMA TogetherLevels ==
    ASSUME BooksInv, BooksInv', LevelsInv, NEW r \in References, r \notin Documents,
           UNCHANGED <<job, lost, consumed, torn, overlapped>>,
           \A e \in References \ {r} : journal'[e] = journal[e],
           \A p \in Places : onHand'[p] - onHand[p] = journal'[r][p] - journal[r][p]
    PROVE  LevelsInv'
<1>1. BalanceInv /\ SalesInv
  BY DEF LevelsInv
<1>2. BalanceInv'
  BY <1>1, TogetherBalance
<1>3. \A m \in Messages, i \in Slots : \A line : UnderWay(m, i, line)' <=> UnderWay(m, i, line)
  BY DEF UnderWay, LineOf
<1>4. \A m \in Messages, i \in Slots : job'[m][i].step = "mark" /\ m[1] \notin overlapped' =>
         <<m[1], job'[m][i].at>> \notin consumed
  BY <1>1 DEF SalesInv, MarkInv, LineOf
<1>5. \A d \in Documents : journal'[d] = journal[d]
  BY DEF References
<1>6. SalesInv'
  BY <1>1, <1>3, <1>4, <1>5, SalesQuiet
<1> QED
  BY <1>2, <1>6 DEF LevelsInv

LEMMA QuietLevels ==
    ASSUME BooksInv, BooksInv', LevelsInv,
           UNCHANGED <<onHand, journal, job, lost, consumed, torn, overlapped>>
    PROVE  LevelsInv'
<1>1. BalanceInv /\ SalesInv /\ lost \in Ledgers
  BY DEF LevelsInv, BalanceInv
<1>2. BalanceInv'
  BY <1>1, BalanceQuiet
<1>3. \A m \in Messages, i \in Slots : \A line : UnderWay(m, i, line)' <=> UnderWay(m, i, line)
  BY DEF UnderWay, LineOf
<1>4. \A m \in Messages, i \in Slots : job'[m][i].step = "mark" /\ m[1] \notin overlapped' =>
         <<m[1], job'[m][i].at>> \notin consumed
  BY <1>1 DEF SalesInv, MarkInv, LineOf
<1>5. SalesInv'
  BY <1>1, <1>3, <1>4, SalesQuiet
<1> QED
  BY <1>2, <1>5 DEF LevelsInv

-----------------------------------------------------------------------------
(* What a transfer has in the books comes after its announcement, and adds  *)
(* up to nothing.                                                           *)
Across(row, s) == [l \in Sites |-> row[<<s, l>>]]
AnnouncedInv == \A x \in Transfers :
    /\ \A k \in Copies : mail[<<x, k>>] # "none" => sent[x] > 0
    /\ journal[x] # NoDelta => \E k \in Copies : mail[<<x, k>>] # "none"
    /\ \A s \in Skus : SumFunctionOnSet(Across(journal[x], s), Sites) = 0

LEMMA TransferIs ==
    ASSUME NEW x \in Transfers
    PROVE  /\ x \in Documents /\ x \in References /\ Kind[x] = "transfer"
           /\ \A k \in Copies : <<x, k>> \in Messages
BY DistributionAssumption DEF Messages, References

(* The two lines of a transfer cancel out over the locations.               *)
LEMMA BothWays ==
    ASSUME NEW x \in Transfers, NEW row \in [Places -> Int], NEW s \in Skus,
           SumFunctionOnSet(Across(row, s), Sites) = 0
    PROVE  SumFunctionOnSet(Across(Moved(row, x, LinesOf[x]), s), Sites) = 0
<1>1. x \in Documents
  BY TransferIs
<1>2. PICK from \in Sites, to \in Sites : /\ from # to
         /\ LinesOf[x] = <<[place |-> <<Asked[x].sku, from>>, delta |-> - Asked[x].qty, good |-> TRUE],
                           [place |-> <<Asked[x].sku, to>>, delta |-> Asked[x].qty, good |-> TRUE]>>
  BY DistributionAssumption
<1>3. PICK t, q : t = Asked[x].sku /\ q = Asked[x].qty
  OBVIOUS
<1>4. PICK L : L = LinesOf[x]
  OBVIOUS
<1>5. /\ DOMAIN L = {1, 2} /\ L[1].place = <<t, from>> /\ L[1].delta = - q /\ L[1].good
      /\ L[2].place = <<t, to>> /\ L[2].delta = q /\ L[2].good
  <2>1. L = <<[place |-> <<t, from>>, delta |-> - q, good |-> TRUE],
              [place |-> <<t, to>>, delta |-> q, good |-> TRUE]>>
    BY <1>2, <1>3, <1>4
  <2> QED
    BY <2>1
<1>6. q \in Nat
  BY <1>3, WarehouseAssumption
<1>7. PlacesOf(L) = {<<t, from>>, <<t, to>>}
  BY <1>5 DEF PlacesOf
<1>8. Delta(x, <<t, from>>) = - q /\ Delta(x, <<t, to>>) = q
  <2>1. {i \in DOMAIN L : L[i].place = <<t, from>> /\ L[i].good} = {1}
    BY <1>2, <1>5
  <2>2. {i \in DOMAIN L : L[i].place = <<t, to>> /\ L[i].good} = {2}
    BY <1>2, <1>5
  <2>3. Delta(x, <<t, from>>) = L[1].delta
    BY <1>4, <2>1 DEF Delta
  <2>4. Delta(x, <<t, to>>) = L[2].delta
    BY <1>4, <2>2 DEF Delta
  <2> QED
    BY <1>5, <2>3, <2>4
<1>9. PICK new : new = Moved(row, x, L)
  OBVIOUS
<1>10. new \in [Places -> Int]
       /\ \A p \in Places : new[p] = IF p \in PlacesOf(L) THEN row[p] + Delta(x, p) ELSE row[p]
  BY <1>1, <1>9, MovedIs
<1>11. PICK f, g : f = Across(row, s) /\ g = Across(new, s)
  OBVIOUS
<1>12. \A l \in Sites : f[l] = row[<<s, l>>] /\ g[l] = new[<<s, l>>] /\ <<s, l>> \in Places
  BY <1>11 DEF Across, Places
<1>13. IsFiniteSet(Sites) /\ Ints(f, Sites) /\ Ints(g, Sites)
  BY <1>10, <1>12, DocumentAssumption DEF Ints
<1>14. CASE s # t
  <2>1. \A l \in Sites : f[l] = g[l]
    BY <1>7, <1>10, <1>12, <1>14
  <2> QED
    BY <1>4, <1>9, <1>11, <1>13, <2>1, SumSame
<1>15. CASE s = t
  <2>1. g[from] = f[from] - q /\ g[to] = f[to] + q
        /\ \A l \in Sites \ {from, to} : g[l] = f[l]
    <3>1. \A l \in Sites : g[l] = IF <<s, l>> \in PlacesOf(L) THEN f[l] + Delta(x, <<s, l>>) ELSE f[l]
      BY <1>10, <1>12
    <3> QED
      BY <1>6, <1>7, <1>8, <1>13, <1>15, <3>1 DEF Ints
  <2>2. PICK h : h = [l \in Sites |-> IF l = from THEN g[l] ELSE f[l]]
    OBVIOUS
  <2>3. Ints(h, Sites) /\ h[from] = g[from] /\ h[to] = f[to]
    BY <1>2, <1>13, <2>2 DEF Ints
  <2>4. SumFunctionOnSet(h, Sites) = SumFunctionOnSet(f, Sites) - f[from] + h[from]
    <3>1. \A l \in Sites \ {from} : f[l] = h[l]
      BY <2>2
    <3> QED
      BY <1>13, <2>3, <3>1, SumChange
  <2>5. SumFunctionOnSet(g, Sites) = SumFunctionOnSet(h, Sites) - h[to] + g[to]
    <3>1. \A l \in Sites \ {to} : h[l] = g[l]
      BY <2>1, <2>2
    <3> QED
      BY <1>13, <2>3, <3>1, SumChange
  <2>6. f[from] \in Int /\ f[to] \in Int
    BY <1>13 DEF Ints
  <2>7. SumFunctionOnSet(f, Sites) = 0
    BY <1>11
  <2> QED
    BY <1>4, <1>6, <1>9, <1>11, <2>1, <2>3, <2>4, <2>5, <2>6, <2>7
<1> QED
  BY <1>14, <1>15

(* No handler announces anything, and a transfer moves by handlers alone.   *)
LEMMA AnnouncedByHandlers ==
    ASSUME BooksInv, AnnouncedInv, NEW m \in Messages, NEW i \in Slots,
           Deliver(m, i) \/ Handle(m, i) \/ Throws(m, i), sent' = sent
    PROVE  AnnouncedInv'
<1>1. MoveTypeOK /\ m[1] \in Documents /\ m = <<m[1], m[2]>> /\ m[2] \in Copies
  BY DEF BooksInv, Messages
<1>2. \A n \in Messages : mail'[n] # "none" <=> mail[n] # "none"
  <2>1. mail' = mail \/ (mail[m] # "none" /\ \E v \in MailStates \ {"none"} : mail' = [mail EXCEPT ![m] = v])
    <3>1. CASE Deliver(m, i)
      BY <3>1 DEF Deliver, MailStates
    <3>2. CASE Throws(m, i)
      BY <3>2, AtLine DEF Throws, Refused, MailStates
    <3>3. CASE Ack(m, i)
      BY <3>3, AtLine DEF Ack, MailStates
    <3>4. CASE FindProduct(m, i) \/ CreateStub(m, i) \/ RaiseLevel(m, i) \/ WriteRow(m, i)
               \/ FindReservation(m, i) \/ MarkConsumed(m, i) \/ Look(m, i) \/ Apply(m, i)
      BY <3>4 DEF FindProduct, CreateStub, RaiseLevel, WriteRow, FindReservation, MarkConsumed, Look, Apply
    <3> QED
      BY <3>1, <3>2, <3>3, <3>4 DEF Handle
  <2> QED
    BY <1>1, <2>1 DEF MoveTypeOK
<1>3. ASSUME NEW x \in Transfers
      PROVE  \/ journal'[x] = journal[x]
             \/ /\ mail[m] # "none" /\ x = m[1]
                /\ journal'[x] = Moved(journal[x], x, LinesOf[x])
  <2>1. x \in References /\ Kind[x] = "transfer"
    BY TransferIs
  <2>2. CASE Apply(m, i)
    <3>1. journal' = [journal EXCEPT ![m[1]] = Moved(@, m[1], Unit(m, i))] /\ mail[m] # "none"
      BY <2>2, AtLine DEF Apply, At
    <3>2. CASE x # m[1]
      BY <1>1, <2>1, <3>1, <3>2 DEF MoveTypeOK
    <3>3. CASE x = m[1]
      <4>1. Unit(m, i) = LinesOf[x]
        BY <2>1, <3>3 DEF Unit, UnitAt
      <4> QED
        BY <1>1, <2>1, <3>1, <3>3, <4>1 DEF MoveTypeOK
    <3> QED
      BY <3>2, <3>3
  <2>3. CASE WriteRow(m, i)
    <3>1. journal' = [journal EXCEPT ![m[1]] = Moved(@, m[1], Unit(m, i))]
          /\ Kind[m[1]] \in {"receipt", "sale"}
      BY <2>3, AtLine DEF WriteRow, At, JobOK
    <3> QED
      BY <1>1, <2>1, <3>1 DEF MoveTypeOK
  <2>4. CASE Deliver(m, i) \/ Throws(m, i) \/ Ack(m, i) \/ FindProduct(m, i) \/ CreateStub(m, i)
             \/ RaiseLevel(m, i) \/ FindReservation(m, i) \/ MarkConsumed(m, i) \/ Look(m, i)
    BY <2>4 DEF Deliver, Throws, Ack, FindProduct, CreateStub, RaiseLevel, FindReservation,
                MarkConsumed, Look
  <2> QED
    BY <2>2, <2>3, <2>4 DEF Handle
<1> SUFFICES ASSUME NEW x \in Transfers
             PROVE  /\ \A k \in Copies : mail'[<<x, k>>] # "none" => sent'[x] > 0
                    /\ journal'[x] # NoDelta => \E k \in Copies : mail'[<<x, k>>] # "none"
                    /\ \A s \in Skus : SumFunctionOnSet(Across(journal'[x], s), Sites) = 0
  BY DEF AnnouncedInv, NoDelta
<1>4. /\ \A k \in Copies : mail[<<x, k>>] # "none" => sent[x] > 0
      /\ journal[x] # NoDelta => \E k \in Copies : mail[<<x, k>>] # "none"
      /\ \A s \in Skus : SumFunctionOnSet(Across(journal[x], s), Sites) = 0
  BY DEF AnnouncedInv
<1>5. \A k \in Copies : mail'[<<x, k>>] # "none" <=> mail[<<x, k>>] # "none"
  BY <1>2, TransferIs
<1>6. journal'[x] # NoDelta => \E k \in Copies : mail'[<<x, k>>] # "none"
  BY <1>1, <1>3, <1>4, <1>5
<1>7. \A s \in Skus : SumFunctionOnSet(Across(journal'[x], s), Sites) = 0
  <2>1. journal[x] \in [Places -> Int]
    BY <1>1, TransferIs DEF MoveTypeOK
  <2> QED
    BY <1>3, <1>4, <2>1, BothWays
<1> QED
  BY <1>4, <1>5, <1>6, <1>7

LEMMA AnnouncedElse ==
    ASSUME AnnouncedInv,
           \A x \in Transfers : /\ journal'[x] = journal[x]
                                /\ sent[x] > 0 => sent'[x] > 0
                                /\ \A k \in Copies : mail'[<<x, k>>] # "none"
                                                     <=> mail[<<x, k>>] # "none"
    PROVE  AnnouncedInv'
BY DEF AnnouncedInv, NoDelta

(* The last pick's announcement.                                            *)
LEMMA AnnouncedByPicker ==
    ASSUME BooksInv, AnnouncedInv, NEW x \in Transfers, sent \in [Transfers -> Nat],
           sent' = [sent EXCEPT ![x] = @ + 1],
           Happens(x) \/ \E k \in Copies : AnnouncedAgain(x, k)
    PROVE  AnnouncedInv'
<1>1. PICK m : mail' = [mail EXCEPT ![m] = "queued"] /\ journal' = journal
               /\ \E k : m = <<x, k>>
  BY DEF Happens, AnnouncedAgain
<1>2. mail \in [Messages -> MailStates]
  BY DEF BooksInv, MoveTypeOK
<1>3. ASSUME NEW y \in Transfers, NEW k \in Copies
      PROVE  /\ mail[<<y, k>>] # "none" => mail'[<<y, k>>] # "none"
             /\ y # x => mail'[<<y, k>>] = mail[<<y, k>>]
  <2>1. <<y, k>> \in Messages
    BY TransferIs
  <2> QED
    BY <1>1, <1>2, <2>1
<1>4. sent'[x] > 0 /\ \A y \in Transfers \ {x} : sent'[y] = sent[y]
  <2>1. sent[x] \in Nat /\ sent'[x] = sent[x] + 1
    OBVIOUS
  <2> QED
    BY <2>1
<1> SUFFICES ASSUME NEW y \in Transfers
             PROVE  /\ \A k \in Copies : mail'[<<y, k>>] # "none" => sent'[y] > 0
                    /\ journal'[y] # NoDelta => \E k \in Copies : mail'[<<y, k>>] # "none"
                    /\ \A s \in Skus : SumFunctionOnSet(Across(journal'[y], s), Sites) = 0
  BY DEF AnnouncedInv, NoDelta
<1>5. /\ \A k \in Copies : mail[<<y, k>>] # "none" => sent[y] > 0
      /\ journal[y] # NoDelta => \E k \in Copies : mail[<<y, k>>] # "none"
      /\ \A s \in Skus : SumFunctionOnSet(Across(journal[y], s), Sites) = 0
  BY DEF AnnouncedInv
<1>6. \A k \in Copies : mail'[<<y, k>>] # "none" => sent'[y] > 0
  BY <1>3, <1>4, <1>5
<1>7. journal'[y] # NoDelta => \E k \in Copies : mail'[<<y, k>>] # "none"
  BY <1>1, <1>3, <1>5
<1> QED
  BY <1>1, <1>5, <1>6, <1>7

-----------------------------------------------------------------------------
(* Counts.  What a request remembers, and what it can rely on.              *)
IsLines(f) == DOMAIN f \subseteq Skus /\ f \in [DOMAIN f -> Line]
ReqShape(r) ==
    /\ r.op \in Requests
    /\ r.op # "idle" => r.count \in Counts
    /\ r.op \in {"line", "find", "add"} => r.sku \in Skus /\ r.found \in Int
    /\ r.op = "insert" => /\ r.lines \in [Scope[r.count] -> Line]
                          /\ \A s \in Scope[r.count] : r.lines[s].counted = Uncounted
    /\ r.op = "add" => /\ r.expected \in Int /\ r.error \in Int /\ r.clean \in BOOLEAN
                       /\ r.clean => r.found - r.expected = r.error
    /\ r.op = "post" => IsLines(r.lines)
    /\ r.op = "tell" => r.change \in [Places -> Int]
    /\ r.op = "cancel" => r.seen \in Active
Still(c, s, expected) ==
    <<c, s>> \notin moved => shelf[Place(c, s)] - expected = error[c][s]
SoFound(c, s, found) ==
    <<c, s>> \notin disturbed => found - count[c].lines[s].expected = error[c][s]
ReqInv(r) ==
    /\ ReqShape(r)
    /\ r.op \in {"freeze", "insert"} => count[r.count].status = "none"
    /\ r.op \notin {"idle", "freeze", "insert"} => count[r.count].status # "none"
    /\ r.op = "insert" => \A s \in Scope[r.count] : Still(r.count, s, r.lines[s].expected)
    /\ r.op = "line" => /\ r.sku \in DOMAIN count[r.count].lines
                        /\ SoFound(r.count, r.sku, r.found)
    /\ r.op = "add" /\ <<r.count, r.sku>> \notin moved =>
                          shelf[Place(r.count, r.sku)] - r.expected = r.error
    /\ r.op = "post" => count[r.count].status # "OPEN"
    /\ r.op = "post" /\ r.count \notin stale /\ count[r.count].status = "SUBMITTED" =>
          r.lines = count[r.count].lines

(* What is so of a count: its lines as they were frozen and counted, and    *)
(* its rows.                                                                *)
LineInv(c, s) ==
    /\ count[c].status = "OPEN" => Still(c, s, count[c].lines[s].expected)
    /\ count[c].lines[s].counted # Uncounted => SoFound(c, s, count[c].lines[s].counted)
CountInv(c) ==
    /\ count[c] = [status |-> count[c].status, lines |-> count[c].lines]
    /\ count[c].status \in Statuses /\ IsLines(count[c].lines)
    /\ count[c].status = "none" => DOMAIN count[c].lines = {}
    /\ \A s \in DOMAIN count[c].lines : LineInv(c, s)
    /\ c \notin stale => journal[c] = IF count[c].status = "POSTED"
                                      THEN Variances(c, count[c].lines) ELSE NoDelta
Opens(r) == r.op \in {"freeze", "insert"}
OneOpens == \A u, v \in Users :
    (Opens(req[u]) /\ Opens(req[v]) /\ req[u].count = req[v].count) => u = v
GhostsOK == /\ stale \subseteq Counts
            /\ moved \subseteq Counts \X Skus /\ disturbed \subseteq Counts \X Skus
            /\ error \in [Counts -> [Skus -> Int]]
CountsInv ==
    /\ count = [c \in Counts |-> count[c]] /\ req = [u \in Users |-> req[u]] /\ GhostsOK
    /\ \A u \in Users : \A r \in {req[u]} : ReqInv(r)
    /\ \A c \in Counts : CountInv(c)
    /\ OneOpens

LEMMA PlaceIs == ASSUME NEW c \in Counts, NEW s \in Skus
                 PROVE  Place(c, s) \in Places
BY CountAssumption DEF Place, Places

(* History only grows, and notes what moves under a frozen line.            *)
Grows == moved \subseteq moved' /\ disturbed \subseteq disturbed' /\ stale \subseteq stale'
Noted == \A c \in Counts, s \in Skus :
    (Frozen(c, s) /\ <<c, s>> \notin moved') => shelf'[Place(c, s)] = shelf[Place(c, s)]
(* A step of another request or of the world leaves a count's lines, as far *)
(* as the requests that work on it rely on them.                            *)
Keeps(c) ==
    /\ count'[c].status = "none" <=> count[c].status = "none"
    /\ count[c].status \notin {"none", "OPEN"} => count'[c].status # "OPEN"
    /\ \A s \in DOMAIN count[c].lines : /\ s \in DOMAIN count'[c].lines
                                        /\ count'[c].lines[s].expected = count[c].lines[s].expected
                                        /\ error'[c][s] = error[c][s]
    /\ count[c].status = "none" => error'[c] = error[c]
    /\ c \notin stale' /\ count'[c].status = "SUBMITTED" =>
          \/ count[c].status = "OPEN"
          \/ count[c].status = "SUBMITTED" /\ count'[c].lines = count[c].lines

LEMMA ReqStays ==
    ASSUME CountsInv, Grows, Noted, NEW v \in Users, NEW q, q = req[v],
           q.op # "idle" => Keeps(q.count)
    PROVE  ReqInv(q)'
<1>1. ReqInv(q)
  BY DEF CountsInv
<1>2. ReqShape(q)'
  BY <1>1 DEF ReqInv, ReqShape, IsLines
<1>3. CASE q.op = "idle"
  BY <1>2, <1>3 DEF ReqInv
<1>4. CASE q.op # "idle"
  <2>1. PICK c \in Counts : c = q.count
    BY <1>1, <1>4 DEF ReqInv, ReqShape
  <2>2. Keeps(c)
    BY <1>4, <2>1
  <2>3. q.op = "insert" => \A s \in Scope[c] : Still(c, s, q.lines[s].expected)'
    <3> SUFFICES ASSUME q.op = "insert", NEW s \in Scope[c] PROVE Still(c, s, q.lines[s].expected)'
      OBVIOUS
    <3>1. s \in Skus /\ Frozen(c, s) /\ count[c].status = "none"
      BY <1>1, <2>1, CountAssumption DEF Frozen, ReqInv
    <3>2. Still(c, s, q.lines[s].expected)
      BY <1>1, <2>1 DEF ReqInv
    <3>3. error'[c] = error[c] /\ (<<c, s>> \notin moved' => shelf'[Place(c, s)] = shelf[Place(c, s)])
      BY <2>2, <3>1 DEF Keeps, Noted
    <3> QED
      BY <3>2, <3>3 DEF Still, Grows, Place
  <2>4. q.op = "line" => q.sku \in DOMAIN count'[c].lines /\ SoFound(c, q.sku, q.found)'
    <3> SUFFICES ASSUME q.op = "line" PROVE q.sku \in DOMAIN count'[c].lines /\ SoFound(c, q.sku, q.found)'
      OBVIOUS
    <3>1. q.sku \in DOMAIN count[c].lines /\ SoFound(c, q.sku, q.found)
      BY <1>1, <2>1 DEF ReqInv
    <3> QED
      BY <2>2, <3>1 DEF Keeps, SoFound, Grows
  <2>5. q.op = "add" /\ <<c, q.sku>> \notin moved' => shelf'[Place(c, q.sku)] - q.expected = q.error
    <3> SUFFICES ASSUME q.op = "add", <<c, q.sku>> \notin moved'
                 PROVE  shelf'[Place(c, q.sku)] - q.expected = q.error
      OBVIOUS
    <3>1. q.sku \in Skus /\ Frozen(c, q.sku)
      BY <1>1, <2>1 DEF Frozen, ReqInv, ReqShape
    <3>2. shelf[Place(c, q.sku)] - q.expected = q.error
      BY <1>1, <2>1 DEF ReqInv, Grows
    <3> QED
      BY <3>1, <3>2 DEF Noted
  <2>6. q.op = "post" => /\ count'[c].status # "OPEN"
                         /\ c \notin stale' /\ count'[c].status = "SUBMITTED" =>
                               q.lines = count'[c].lines
    <3> SUFFICES ASSUME q.op = "post"
                 PROVE  /\ count'[c].status # "OPEN"
                        /\ c \notin stale' /\ count'[c].status = "SUBMITTED" =>
                               q.lines = count'[c].lines
      OBVIOUS
    <3>1. count[c].status \notin {"none", "OPEN"}
      BY <1>1, <2>1 DEF ReqInv
    <3>2. c \notin stale /\ count[c].status = "SUBMITTED" => q.lines = count[c].lines
      BY <1>1, <2>1 DEF ReqInv
    <3> QED
      BY <2>2, <3>1, <3>2 DEF Keeps, Grows
  <2>7. count'[c].status = "none" <=> count[c].status = "none"
    BY <2>2 DEF Keeps
  <2>8. /\ q.op \in {"freeze", "insert"} => count'[c].status = "none"
        /\ q.op \notin {"idle", "freeze", "insert"} => count'[c].status # "none"
    BY <1>1, <2>1, <2>7 DEF ReqInv
  <2> QED
    BY <1>2, <2>1, <2>3, <2>4, <2>5, <2>6, <2>8 DEF ReqInv, Place
<1> QED
  BY <1>3, <1>4

LEMMA CountStays ==
    ASSUME CountsInv, Grows, Noted, NEW c \in Counts,
           count'[c] = count[c], error'[c] = error[c], journal'[c] = journal[c]
    PROVE  CountInv(c)' /\ Keeps(c)
<1>1. CountInv(c)
  BY DEF CountsInv
<1>2. ASSUME NEW s \in DOMAIN count[c].lines PROVE LineInv(c, s)'
  <2>1. LineInv(c, s) /\ s \in Skus
    BY <1>1 DEF CountInv, IsLines
  <2>2. count[c].status = "OPEN" => Frozen(c, s)
    BY DEF Frozen
  <2>3. count[c].status = "OPEN" => Still(c, s, count[c].lines[s].expected)'
    BY <2>1, <2>2 DEF LineInv, Still, Noted, Grows, Place
  <2>4. count[c].lines[s].counted # Uncounted => SoFound(c, s, count[c].lines[s].counted)'
    BY <2>1 DEF LineInv, SoFound, Grows
  <2> QED
    BY <2>3, <2>4 DEF LineInv
<1>3. CountInv(c)'
  <2>1. /\ count'[c] = [status |-> count'[c].status, lines |-> count'[c].lines]
        /\ count'[c].status \in Statuses /\ IsLines(count'[c].lines)
        /\ count'[c].status = "none" => DOMAIN count'[c].lines = {}
    BY <1>1 DEF CountInv
  <2>2. c \notin stale' => journal'[c] = IF count'[c].status = "POSTED"
                                         THEN Variances(c, count'[c].lines) ELSE NoDelta
    BY <1>1 DEF CountInv, Grows
  <2> QED
    BY <1>2, <2>1, <2>2 DEF CountInv, IsLines, Variances, NoDelta
<1>4. Keeps(c)
  BY DEF Keeps
<1> QED
  BY <1>3, <1>4

(* A clerk's step: it changes the request, and at most one count.           *)
LEMMA OneCount ==
    ASSUME CountsInv, Grows, GhostsOK', shelf' = shelf, NEW u \in Users, NEW r, NEW c \in Counts,
           req' = [req EXCEPT ![u] = r], count' = [d \in Counts |-> count'[d]],
           \A d \in Counts \ {c} : /\ count'[d] = count[d] /\ error'[d] = error[d]
                                   /\ journal'[d] = journal[d],
           ReqInv(r)', CountInv(c)',
           \A v \in Users \ {u} : req[v].op # "idle" /\ req[v].count = c => Keeps(c),
           Opens(r) => \A v \in Users \ {u} : Opens(req[v]) => req[v].count # r.count
    PROVE  CountsInv'
<1>1. Noted
  BY DEF Noted
<1>2. \A d \in Counts \ {c} : CountInv(d)' /\ Keeps(d)
  BY <1>1, CountStays
<1>3. req'[u] = r /\ (\A v \in Users \ {u} : req'[v] = req[v]) /\ req' = [v \in Users |-> req'[v]]
  BY DEF CountsInv
<1>4. ASSUME NEW v \in Users PROVE (\A q \in {req[v]} : ReqInv(q))'
  <2>1. CASE v = u
    BY <1>3, <2>1
  <2>2. CASE v # u
    <3>1. PICK q : q = req[v]
      OBVIOUS
    <3>2. q.op # "idle" => q.count \in Counts
      BY <3>1 DEF CountsInv, ReqInv, ReqShape
    <3>3. q.op # "idle" => Keeps(q.count)
      BY <1>2, <2>2, <3>1, <3>2
    <3>4. ReqInv(q)'
      BY <1>1, <3>1, <3>3, ReqStays
    <3> QED
      BY <1>3, <2>2, <3>1, <3>4
  <2> QED
    BY <2>1, <2>2
<1>5. OneOpens'
  <2> SUFFICES ASSUME NEW v \in Users, NEW w \in Users, Opens(req'[v]), Opens(req'[w]),
                      req'[v].count = req'[w].count
               PROVE  v = w
    BY DEF OneOpens, Opens
  <2>1. CASE v # u /\ w # u
    BY <1>3, <2>1 DEF CountsInv, OneOpens
  <2>2. CASE v = u \/ w = u
    BY <1>3, <2>2
  <2> QED
    BY <2>1, <2>2
<1>6. \A d \in Counts : CountInv(d)'
  BY <1>2
<1> QED
  BY <1>3, <1>4, <1>5, <1>6 DEF CountsInv

(* A clerk's step that changes no count.                                    *)
LEMMA NoCount ==
    ASSUME CountsInv, Grows, GhostsOK', shelf' = shelf, NEW u \in Users, NEW r,
           req' = [req EXCEPT ![u] = r], UNCHANGED <<count, error, journal>>, ReqInv(r)',
           Opens(r) => \A v \in Users \ {u} : Opens(req[v]) => req[v].count # r.count
    PROVE  CountsInv'
<1>1. Noted
  BY DEF Noted
<1>2. \A d \in Counts : CountInv(d)' /\ Keeps(d)
  BY <1>1, CountStays
<1>3. req'[u] = r /\ (\A v \in Users \ {u} : req'[v] = req[v]) /\ req' = [v \in Users |-> req'[v]]
  BY DEF CountsInv
<1>4. ASSUME NEW v \in Users PROVE (\A q \in {req[v]} : ReqInv(q))'
  <2>1. CASE v = u
    BY <1>3, <2>1
  <2>2. CASE v # u
    <3>1. PICK q : q = req[v]
      OBVIOUS
    <3>2. q.op # "idle" => q.count \in Counts
      BY <3>1 DEF CountsInv, ReqInv, ReqShape
    <3>3. ReqInv(q)'
      BY <1>1, <1>2, <3>1, <3>2, ReqStays
    <3> QED
      BY <1>3, <2>2, <3>1, <3>3
  <2> QED
    BY <2>1, <2>2
<1>5. OneOpens'
  <2> SUFFICES ASSUME NEW v \in Users, NEW w \in Users, Opens(req'[v]), Opens(req'[w]),
                      req'[v].count = req'[w].count
               PROVE  v = w
    BY DEF OneOpens, Opens
  <2>1. CASE v # u /\ w # u
    BY <1>3, <2>1 DEF CountsInv, OneOpens
  <2>2. CASE v = u \/ w = u
    BY <1>3, <2>2
  <2> QED
    BY <2>1, <2>2
<1>6. count' = [c \in Counts |-> count'[c]]
  BY DEF CountsInv
<1> QED
  BY <1>2, <1>3, <1>4, <1>5, <1>6 DEF CountsInv

LEMMA IdleOK == ReqInv(Idle)' /\ ~ Opens(Idle)
BY DEF ReqInv, ReqShape, Idle, Requests, Opens

LEMMA AnswerCounts ==
    ASSUME CountsInv, NEW u \in Users, Answer(u), UNCHANGED <<count, stale, ghostVars>>,
           UNCHANGED <<shelf, journal>>
    PROVE  CountsInv'
<1>1. req' = [req EXCEPT ![u] = Idle] /\ Grows /\ GhostsOK'
  BY DEF Answer, Grows, ghostVars, CountsInv, GhostsOK
<1> QED
  BY <1>1, IdleOK, NoCount DEF ghostVars

(* The request of a user, and the count it is about.                        *)
LEMMA Request ==
    ASSUME CountsInv, NEW u \in Users, req[u].op # "idle"
    PROVE  /\ req[u].count \in Counts /\ ReqInv(req[u])
           /\ count[req[u].count].status \in Statuses
           /\ CountInv(req[u].count) /\ IsLines(count[req[u].count].lines)
           /\ Opens(req[u]) => \A v \in Users \ {u} :
                 req[v].op # "idle" => req[v].count # req[u].count
<1>1. ReqInv(req[u]) /\ req[u].count \in Counts
  BY DEF CountsInv, ReqInv, ReqShape
<1>2. CountInv(req[u].count)
  BY <1>1 DEF CountsInv
<1>3. ASSUME Opens(req[u]), NEW v \in Users \ {u}, req[v].op # "idle"
      PROVE  req[v].count # req[u].count
  <2>1. ReqInv(req[v])
    BY DEF CountsInv
  <2>2. count[req[u].count].status = "none"
    BY <1>1, <1>3 DEF ReqInv, Opens
  <2>3. ~ Opens(req[v]) => count[req[v].count].status # "none"
    BY <1>3, <2>1 DEF ReqInv, Opens
  <2> QED
    BY <1>3, <2>2, <2>3 DEF CountsInv, OneOpens
<1> QED
  BY <1>1, <1>2, <1>3 DEF CountInv

LEMMA OpenCountCounts ==
    ASSUME CountsInv, NEW u \in Users, NEW c \in Counts, OpenCount(u, c)
    PROVE  CountsInv'
<1>1. PICK r : r = [op |-> "freeze", count |-> c]
  OBVIOUS
<1>2. /\ req' = [req EXCEPT ![u] = r] /\ count[c].status = "none"
      /\ \A v \in Users : req[v].op \in {"freeze", "insert"} => req[v].count # c
      /\ UNCHANGED <<count, stale, ghostVars>> /\ UNCHANGED <<shelf, journal>>
  BY <1>1 DEF OpenCount, Ask, MovesQuietly, moveVars
<1>3. Grows /\ GhostsOK'
  BY <1>2 DEF Grows, ghostVars, CountsInv, GhostsOK
<1>4. ReqInv(r)'
  BY <1>1, <1>2 DEF ReqInv, ReqShape, Requests
<1>5. \A v \in Users \ {u} : Opens(req[v]) => req[v].count # r.count
  BY <1>1, <1>2 DEF Opens
<1> QED
  BY <1>2, <1>3, <1>4, <1>5, NoCount DEF ghostVars

LEMMA FreezeLinesCounts ==
    ASSUME BooksInv, CountsInv, NEW u \in Users, FreezeLines(u)
    PROVE  CountsInv'
<1>1. req[u].op = "freeze" /\ UNCHANGED <<shelf, journal, onHand>>
  BY DEF FreezeLines, Doing, MovesQuietly, moveVars
<1>2. PICK c \in Counts : c = req[u].count
  BY <1>1, Request
<1>3. CASE Scope[c] = {} \/ ~ (Scope[c] \subseteq listed)
  <2>1. Answer(u) /\ UNCHANGED <<count, stale, ghostVars>>
    BY <1>2, <1>3 DEF FreezeLines
  <2> QED
    BY <1>1, <2>1, AnswerCounts
<1>4. CASE ~ (Scope[c] = {} \/ ~ (Scope[c] \subseteq listed))
  <2>1. PICK r : r = [op |-> "insert", count |-> c, lines |-> [s \in Scope[c] |-> Freeze(c, s)]]
    OBVIOUS
  <2>2. /\ req' = [req EXCEPT ![u] = r]
        /\ error' = [error EXCEPT ![c] = [s \in Skus |-> ErrorAt(c, s)]]
        /\ disturbed' = disturbed \cup
                  {<<c, s>> : s \in {x \in Scope[c] : Unbooked(Place(c, x))}}
        /\ UNCHANGED <<count, stale, moved>>
    BY <1>2, <1>4, <2>1 DEF FreezeLines, Then
  <2>3. shelf \in [Places -> Int] /\ onHand \in [Places -> Int]
    BY DEF BooksInv, MoveTypeOK
  <2>4. \A s \in Skus : ErrorAt(c, s) \in Int
    BY <2>3, PlaceIs DEF ErrorAt
  <2>5. Scope[c] \subseteq Skus
    BY CountAssumption
  <2>6. /\ error' \in [Counts -> [Skus -> Int]] /\ \A s \in Skus : error'[c][s] = ErrorAt(c, s)
        /\ \A d \in Counts \ {c} : error'[d] = error[d]
    <3>1. PICK e \in [Skus -> Int] : e = [s \in Skus |-> ErrorAt(c, s)]
      BY <2>4
    <3>2. error' = [error EXCEPT ![c] = e]
      BY <2>2, <3>1
    <3>3. error \in [Counts -> [Skus -> Int]]
      BY DEF CountsInv, GhostsOK
    <3> QED
      BY <3>1, <3>2, <3>3
  <2>7. Grows /\ GhostsOK'
    BY <2>2, <2>5, <2>6 DEF Grows, CountsInv, GhostsOK
  <2>8. /\ r.op = "insert" /\ r.count = c /\ r.lines \in [Scope[c] -> Line]
        /\ \A s \in Scope[c] : r.lines[s].counted = Uncounted /\ r.lines[s].expected = onHand[Place(c, s)]
    <3>1. \A s \in Scope[c] : Freeze(c, s) \in Line /\ Freeze(c, s).counted = Uncounted
                              /\ Freeze(c, s).expected = onHand[Place(c, s)]
      BY <2>3, <2>5, PlaceIs DEF Freeze, Line, Uncounted
    <3>2. PICK f : f = [s \in Scope[c] |-> Freeze(c, s)]
      OBVIOUS
    <3>3. f \in [Scope[c] -> Line]
      BY <3>1, <3>2
    <3> QED
      BY <2>1, <3>1, <3>2, <3>3
  <2>9. count[c].status = "none" /\ CountInv(c)
    BY <1>1, <1>2, Request DEF ReqInv
  <2>10. ReqInv(r)'
    <3>1. \A s \in Scope[c] : Still(c, s, r.lines[s].expected)'
      BY <1>1, <2>5, <2>6, <2>8 DEF Still, ErrorAt, Place
    <3> QED
      BY <2>2, <2>8, <2>9, <3>1 DEF ReqInv, ReqShape, Requests
  <2>11. CountInv(c)'
    BY <1>1, <2>2, <2>9 DEF CountInv, IsLines, Variances, NoDelta
  <2>12. \A v \in Users \ {u} : req[v].op # "idle" => req[v].count # c
    BY <1>1, <1>2, Request DEF Opens
  <2>13. \A v \in Users \ {u} : Opens(req[v]) => req[v].count # r.count
    BY <2>8, <2>12 DEF Opens
  <2>14. count' = [d \in Counts |-> count'[d]]
    BY <2>2 DEF CountsInv
  <2>15. \A d \in Counts \ {c} : /\ count'[d] = count[d] /\ error'[d] = error[d]
                                  /\ journal'[d] = journal[d]
    BY <1>1, <2>2, <2>6
  <2>16. \A v \in Users \ {u} : req[v].op # "idle" /\ req[v].count = c => Keeps(c)
    BY <2>12
  <2>17. Opens(r) => \A v \in Users \ {u} : Opens(req[v]) => req[v].count # r.count
    BY <2>13
  <2>18. shelf' = shelf /\ req' = [req EXCEPT ![u] = r]
    BY <1>1, <2>2
  <2> QED
    BY <2>7, <2>10, <2>11, <2>14, <2>15, <2>16, <2>17, <2>18, OneCount
<1> QED
  BY <1>3, <1>4

(* The value a clerk's statement writes into a count.                       *)
LEMMA Written ==
    ASSUME CountsInv, NEW c \in Counts, NEW k, count' = [count EXCEPT ![c] = k]
    PROVE  /\ count'[c] = k /\ \A d \in Counts \ {c} : count'[d] = count[d]
           /\ count' = [d \in Counts |-> count'[d]]
BY DEF CountsInv

LEMMA InsertCountCounts ==
    ASSUME CountsInv, NEW u \in Users, InsertCount(u)
    PROVE  CountsInv'
<1>1. req[u].op = "insert" /\ UNCHANGED <<shelf, journal, stale, moved, disturbed, error>>
  BY DEF InsertCount, Doing, MovesQuietly, moveVars, ghostVars
<1>2. PICK c \in Counts : c = req[u].count
  BY <1>1, Request
<1>3. PICK f : f = req[u].lines
  OBVIOUS
<1>4. PICK k : k = [status |-> "OPEN", lines |-> f]
  OBVIOUS
<1>5. count' = [count EXCEPT ![c] = k] /\ req' = [req EXCEPT ![u] = Idle]
  BY <1>2, <1>3, <1>4 DEF InsertCount, Answer
<1>6. k = [status |-> k.status, lines |-> k.lines] /\ k.status = "OPEN" /\ k.lines = f
  BY <1>4
<1>7. /\ f \in [Scope[c] -> Line] /\ \A s \in Scope[c] : f[s].counted = Uncounted /\ Still(c, s, f[s].expected)
      /\ count[c].status = "none" /\ CountInv(c)
      /\ \A v \in Users \ {u} : req[v].op # "idle" => req[v].count # c
  <2>1. ReqInv(req[u])
    BY <1>1, Request
  <2>2. ReqShape(req[u])
    BY <2>1 DEF ReqInv
  <2>3. f \in [Scope[c] -> Line] /\ \A s \in Scope[c] : f[s].counted = Uncounted
    BY <1>1, <1>2, <1>3, <2>2 DEF ReqShape
  <2>4. count[c].status = "none" /\ \A s \in Scope[c] : Still(c, s, f[s].expected)
    BY <1>1, <1>2, <1>3, <2>1 DEF ReqInv
  <2> QED
    BY <1>1, <1>2, <2>3, <2>4, Request DEF Opens
<1>8. /\ count'[c] = k /\ \A d \in Counts \ {c} : count'[d] = count[d]
      /\ count' = [d \in Counts |-> count'[d]]
  BY <1>5, Written
<1>9. Scope[c] \subseteq Skus
  BY CountAssumption
<1>10. CountInv(c)'
  <2>1. IsLines(f) /\ DOMAIN f = Scope[c]
    BY <1>7, <1>9 DEF IsLines
  <2>2. \A s \in Scope[c] : LineInv(c, s)'
    BY <1>1, <1>6, <1>7, <1>8 DEF LineInv, Still, SoFound, Place
  <2>3. c \notin stale' => journal'[c] = NoDelta
    BY <1>1, <1>7 DEF CountInv
  <2> QED
    BY <1>6, <1>8, <2>1, <2>2, <2>3 DEF CountInv, IsLines, Statuses, NoDelta
<1>11. Grows /\ GhostsOK'
  BY <1>1 DEF Grows, CountsInv, GhostsOK
<1>12. \A d \in Counts \ {c} : /\ count'[d] = count[d] /\ error'[d] = error[d]
                               /\ journal'[d] = journal[d]
  BY <1>1, <1>8
<1>13. \A v \in Users \ {u} : req[v].op # "idle" /\ req[v].count = c => Keeps(c)
  BY <1>7
<1>14. shelf' = shelf
  BY <1>1
<1> QED
  BY <1>5, <1>8, <1>10, <1>11, <1>12, <1>13, <1>14, IdleOK, OneCount

LEMMA RecordCountCounts ==
    ASSUME BooksInv, CountsInv, NEW u \in Users, NEW c \in Counts, NEW s \in Skus,
           RecordCount(u, c, s)
    PROVE  CountsInv'
<1>1. /\ count[c].status = "OPEN" /\ UNCHANGED <<count, stale, moved, error, shelf, journal>>
      /\ disturbed' = IF <<c, s>> \in moved THEN disturbed \cup {<<c, s>>} ELSE disturbed
  BY DEF RecordCount, MovesQuietly, moveVars
<1>2. PICK o, n : /\ o = IF s \in DOMAIN count[c].lines THEN "line" ELSE "find"
                  /\ n = shelf[Place(c, s)]
  OBVIOUS
<1>3. PICK r : r = [op |-> o, count |-> c, sku |-> s, found |-> n]
  OBVIOUS
<1>4. req' = [req EXCEPT ![u] = r]
  BY <1>2, <1>3 DEF RecordCount, Ask
<1>5. r.op = o /\ r.count = c /\ r.sku = s /\ r.found = n /\ o \in {"line", "find"}
  BY <1>2, <1>3
<1>6. n \in Int
  BY <1>2, PlaceIs DEF BooksInv, MoveTypeOK
<1>7. Grows /\ GhostsOK'
  BY <1>1 DEF Grows, CountsInv, GhostsOK
<1>8. CountInv(c)
  BY DEF CountsInv
<1>9. ReqInv(r)'
  <2>1. ReqShape(r)'
    BY <1>5, <1>6 DEF ReqShape, Requests
  <2>2. r.op = "line" => s \in DOMAIN count'[c].lines /\ SoFound(c, s, n)'
    <3> SUFFICES ASSUME r.op = "line" PROVE s \in DOMAIN count'[c].lines /\ SoFound(c, s, n)'
      OBVIOUS
    <3>1. s \in DOMAIN count[c].lines
      BY <1>2, <1>5
    <3>2. Still(c, s, count[c].lines[s].expected)
      BY <1>1, <1>8, <3>1 DEF CountInv, LineInv
    <3> QED
      BY <1>1, <1>2, <3>1, <3>2 DEF Still, SoFound
  <2>3. count'[c].status = "OPEN"
    BY <1>1
  <2> QED
    BY <1>5, <2>1, <2>2, <2>3 DEF ReqInv
<1>10. ~ Opens(r)
  BY <1>5 DEF Opens
<1>11. shelf' = shelf /\ UNCHANGED <<count, error, journal>>
  BY <1>1
<1> QED
  BY <1>4, <1>7, <1>9, <1>10, <1>11, NoCount

LEMMA UpdateLineCounts ==
    ASSUME CountsInv, NEW u \in Users, UpdateLine(u)
    PROVE  CountsInv'
<1>1. req[u].op = "line" /\ UNCHANGED <<shelf, journal, moved, disturbed, error>>
  BY DEF UpdateLine, Doing, MovesQuietly, moveVars, ghostVars
<1>2. PICK c \in Counts : c = req[u].count
  BY <1>1, Request
<1>3. PICK s, n : s = req[u].sku /\ n = req[u].found
  OBVIOUS
<1>4. ReqInv(req[u]) /\ CountInv(c)
  BY <1>1, <1>2, Request
<1>5. s \in Skus /\ n \in Int
  <2>1. ReqShape(req[u])
    BY <1>4 DEF ReqInv
  <2> QED
    BY <1>1, <1>3, <2>1 DEF ReqShape
<1>6. s \in DOMAIN count[c].lines /\ SoFound(c, s, n) /\ count[c].status # "none"
  BY <1>1, <1>2, <1>3, <1>4 DEF ReqInv
<1>7. PICK old, st : old = count[c].lines /\ st = count[c].status
  OBVIOUS
<1>8. count[c] = [status |-> st, lines |-> old] /\ old \in [DOMAIN old -> Line] /\ DOMAIN old \subseteq Skus
  BY <1>4, <1>7 DEF CountInv, IsLines
<1>9. PICK line : line = [expected |-> old[s].expected, counted |-> n]
  OBVIOUS
<1>10. line \in Line /\ line.expected = old[s].expected /\ line.counted = n
  <2>1. old[s] \in Line
    BY <1>6, <1>7, <1>8
  <2> QED
    BY <1>5, <1>9, <2>1 DEF Line
<1>11. PICK new : new = [old EXCEPT ![s] = line]
  OBVIOUS
<1>12. /\ new \in [DOMAIN old -> Line] /\ new[s] = line
       /\ \A x \in DOMAIN old \ {s} : new[x] = old[x]
  BY <1>6, <1>7, <1>8, <1>10, <1>11
<1>13. PICK k : k = [status |-> st, lines |-> new]
  OBVIOUS
<1>14. /\ count' = [count EXCEPT ![c] = k] /\ req' = [req EXCEPT ![u] = Idle]
       /\ stale' = Late(c, "OPEN")
  <2>1. /\ count' = [count EXCEPT ![c].lines[s].counted = n] /\ req' = [req EXCEPT ![u] = Idle]
        /\ stale' = Late(c, "OPEN")
    BY <1>2, <1>3 DEF UpdateLine, Answer
  <2>2. [old[s] EXCEPT !.counted = n] = line
    <3>1. old[s] \in Line
      BY <1>6, <1>7, <1>8
    <3> QED
      BY <1>9, <3>1 DEF Line
  <2>3. [count[c] EXCEPT !.lines[s].counted = n] = k
    <3>1. [count[c] EXCEPT !.lines[s].counted = n] = [count[c] EXCEPT !.lines = new]
      BY <1>7, <1>11, <2>2
    <3> QED
      BY <1>8, <1>13, <3>1
  <2> QED
    BY <2>1, <2>3
<1>15. k = [status |-> k.status, lines |-> k.lines] /\ k.status = st /\ k.lines = new
  BY <1>13
<1>16. /\ count'[c] = k /\ \A d \in Counts \ {c} : count'[d] = count[d]
       /\ count' = [d \in Counts |-> count'[d]]
  BY <1>14, Written
<1>17. Grows /\ GhostsOK' /\ (c \notin stale' => c \notin stale /\ st = "OPEN")
  BY <1>1, <1>7, <1>14 DEF Grows, CountsInv, GhostsOK, Late
<1>18. CountInv(c)'
  <2>1. ASSUME NEW x \in DOMAIN new PROVE LineInv(c, x)'
    <3>1. LineInv(c, x)
      BY <1>4, <1>7, <1>12, <2>1 DEF CountInv
    <3>2. count'[c].lines[x].expected = count[c].lines[x].expected
      BY <1>7, <1>10, <1>12, <1>15, <1>16
    <3>3. count'[c].status = "OPEN" => Still(c, x, count[c].lines[x].expected)'
      BY <1>1, <1>7, <1>15, <1>16, <3>1, <3>2 DEF LineInv, Still, Place
    <3>4. CASE x = s
      BY <1>1, <1>6, <1>10, <1>12, <1>15, <1>16, <3>2, <3>3, <3>4 DEF LineInv, SoFound
    <3>5. CASE x # s
      BY <1>1, <1>7, <1>12, <1>15, <1>16, <3>1, <3>2, <3>3, <3>5 DEF LineInv, SoFound
    <3> QED
      BY <3>4, <3>5
  <2>2. c \notin stale' => journal'[c] = NoDelta
    BY <1>1, <1>4, <1>7, <1>17 DEF CountInv
  <2>3. IsLines(new) /\ st \in Statuses /\ st # "none"
    BY <1>4, <1>6, <1>7, <1>8, <1>12 DEF IsLines, CountInv
  <2>4. c \notin stale' => journal'[c] = IF count'[c].status = "POSTED"
                                  THEN Variances(c, count'[c].lines) ELSE NoDelta
    BY <1>15, <1>16, <1>17, <2>2
  <2> QED
    BY <1>15, <1>16, <2>1, <2>3, <2>4 DEF CountInv, IsLines, Variances, NoDelta
<1>19. Keeps(c)
  BY <1>1, <1>6, <1>7, <1>10, <1>12, <1>15, <1>16, <1>17 DEF Keeps
<1>20. \A d \in Counts \ {c} : /\ count'[d] = count[d] /\ error'[d] = error[d]
                               /\ journal'[d] = journal[d]
  BY <1>1, <1>16
<1>21. \A v \in Users \ {u} : req[v].op # "idle" /\ req[v].count = c => Keeps(c)
  BY <1>19
<1>22. shelf' = shelf
  BY <1>1
<1> QED
  BY <1>14, <1>16, <1>17, <1>18, <1>20, <1>21, <1>22, IdleOK, OneCount

LEMMA FindAddedCounts ==
    ASSUME BooksInv, CountsInv, NEW u \in Users, FindAdded(u)
    PROVE  CountsInv'
<1>1. req[u].op = "find" /\ UNCHANGED <<shelf, journal, count, stale, ghostVars>>
  BY DEF FindAdded, Doing, MovesQuietly, moveVars
<1>2. PICK c \in Counts : c = req[u].count
  BY <1>1, Request
<1>3. PICK s, n : s = req[u].sku /\ n = req[u].found
  OBVIOUS
<1>4. ReqInv(req[u])
  BY <1>1, Request
<1>5. s \in Skus /\ n \in Int /\ count[c].status # "none"
  <2>1. ReqShape(req[u])
    BY <1>4 DEF ReqInv
  <2>2. count[c].status # "none"
    BY <1>1, <1>2, <1>4 DEF ReqInv
  <2> QED
    BY <1>1, <1>3, <2>1, <2>2 DEF ReqShape
<1>6. CASE s \notin listed
  <2>1. Answer(u)
    BY <1>3, <1>6 DEF FindAdded
  <2> QED
    BY <1>1, <2>1, AnswerCounts
<1>7. CASE s \in listed
  <2>1. PICK e, w, b : /\ e = onHand[Place(c, s)] /\ w = ErrorAt(c, s)
                       /\ b = (~ Unbooked(Place(c, s)) /\ n = shelf[Place(c, s)])
    OBVIOUS
  <2>2. PICK r : r = [op |-> "add", count |-> c, sku |-> s, found |-> n, expected |-> e,
                      error |-> w, clean |-> b]
    OBVIOUS
  <2>3. req' = [req EXCEPT ![u] = r]
    BY <1>2, <1>3, <1>7, <2>1, <2>2 DEF FindAdded, Then
  <2>4. /\ r.op = "add" /\ r.count = c /\ r.sku = s /\ r.found = n /\ r.expected = e
        /\ r.error = w /\ r.clean = b
    BY <2>2
  <2>5. e \in Int /\ w \in Int /\ b \in BOOLEAN /\ (b => n - e = w)
        /\ shelf[Place(c, s)] - e = w
    <3>1. shelf[Place(c, s)] \in Int /\ onHand[Place(c, s)] \in Int
      BY <1>5, PlaceIs DEF BooksInv, MoveTypeOK
    <3>2. b => n = shelf[Place(c, s)]
      BY <2>1
    <3>3. w = shelf[Place(c, s)] - e
      BY <2>1 DEF ErrorAt
    <3> QED
      BY <2>1, <3>1, <3>2, <3>3
  <2>6. ReqInv(r)'
    <3>1. ReqShape(r)'
      BY <1>5, <2>4, <2>5 DEF ReqShape, Requests
    <3> QED
      BY <1>1, <1>5, <2>4, <2>5, <3>1 DEF ReqInv, Place
  <2>7. Grows /\ GhostsOK' /\ shelf' = shelf /\ UNCHANGED <<count, error, journal>>
    BY <1>1 DEF Grows, CountsInv, GhostsOK, ghostVars
  <2>8. ~ Opens(r)
    BY <2>4 DEF Opens
  <2> QED
    BY <2>3, <2>6, <2>7, <2>8, NoCount
<1> QED
  BY <1>6, <1>7

LEMMA AddLineCounts ==
    ASSUME CountsInv, NEW u \in Users, AddLine(u)
    PROVE  CountsInv'
<1>1. req[u].op = "add" /\ UNCHANGED <<shelf, journal>> /\ Answer(u)
  BY DEF AddLine, Doing, MovesQuietly, moveVars
<1>2. PICK c \in Counts : c = req[u].count
  BY <1>1, Request
<1>3. PICK q : q = req[u]
  OBVIOUS
<1>4. PICK s : s = q.sku
  OBVIOUS
<1>5. ReqInv(q) /\ CountInv(c)
  BY <1>1, <1>2, <1>3, Request
<1>6. CASE s \in DOMAIN count[c].lines
  <2>1. UNCHANGED <<count, stale, ghostVars>>
    BY <1>2, <1>3, <1>4, <1>6 DEF AddLine
  <2> QED
    BY <1>1, <2>1, AnswerCounts
<1>7. CASE s \notin DOMAIN count[c].lines
  <2>1. /\ s \in Skus /\ q.found \in Int /\ q.expected \in Int /\ q.error \in Int
        /\ q.clean => q.found - q.expected = q.error
    <3>1. ReqShape(q)
      BY <1>5 DEF ReqInv
    <3> QED
      BY <1>1, <1>3, <1>4, <3>1 DEF ReqShape
  <2>2. /\ count[c].status # "none"
        /\ <<c, s>> \notin moved => shelf[Place(c, s)] - q.expected = q.error
    BY <1>1, <1>2, <1>3, <1>4, <1>5 DEF ReqInv
  <2>3. PICK old, st : old = count[c].lines /\ st = count[c].status
    OBVIOUS
  <2>4. count[c] = [status |-> st, lines |-> old] /\ old \in [DOMAIN old -> Line]
        /\ DOMAIN old \subseteq Skus
    BY <1>5, <2>3 DEF CountInv, IsLines
  <2>5. PICK line : line = [expected |-> q.expected, counted |-> q.found]
    OBVIOUS
  <2>6. line \in Line /\ line.expected = q.expected /\ line.counted = q.found
    BY <2>1, <2>5 DEF Line
  <2>7. PICK new : new = [x \in DOMAIN old \cup {s} |-> IF x = s THEN line ELSE old[x]]
    OBVIOUS
  <2>8. /\ DOMAIN new = DOMAIN old \cup {s} /\ new \in [DOMAIN new -> Line] /\ new[s] = line
        /\ \A x \in DOMAIN old : new[x] = old[x]
    BY <1>7, <2>3, <2>4, <2>6, <2>7
  <2>9. PICK k : k = [status |-> st, lines |-> new]
    OBVIOUS
  <2>10. /\ count' = [count EXCEPT ![c] = k] /\ stale' = Late(c, "OPEN")
         /\ error' = [error EXCEPT ![c][s] = q.error]
         /\ disturbed' = IF q.clean THEN disturbed ELSE disturbed \cup {<<c, s>>}
         /\ moved' = moved
    <3>1. /\ count' = [count EXCEPT ![c].lines = [x \in DOMAIN @ \cup {s} |->
                  IF x = s THEN [expected |-> q.expected, counted |-> q.found] ELSE @[x]]]
          /\ stale' = Late(c, "OPEN")
          /\ error' = [error EXCEPT ![c][s] = q.error]
          /\ disturbed' = IF q.clean THEN disturbed ELSE disturbed \cup {<<c, s>>}
          /\ moved' = moved
      BY <1>2, <1>3, <1>4, <1>7 DEF AddLine
    <3>2. count' = [count EXCEPT ![c].lines = new]
      BY <2>3, <2>5, <2>7, <3>1
    <3>3. [count[c] EXCEPT !.lines = new] = k
      BY <2>4, <2>9
    <3> QED
      BY <3>1, <3>2, <3>3
  <2>11. k = [status |-> k.status, lines |-> k.lines] /\ k.status = st /\ k.lines = new
    BY <2>9
  <2>12. /\ count'[c] = k /\ \A d \in Counts \ {c} : count'[d] = count[d]
         /\ count' = [d \in Counts |-> count'[d]]
    BY <2>10, Written
  <2>13. /\ error' \in [Counts -> [Skus -> Int]] /\ error'[c][s] = q.error
         /\ \A x \in Skus \ {s} : error'[c][x] = error[c][x]
         /\ \A d \in Counts \ {c} : error'[d] = error[d]
    <3>1. error \in [Counts -> [Skus -> Int]]
      BY DEF CountsInv, GhostsOK
    <3> QED
      BY <2>1, <2>10, <3>1
  <2>14. Grows /\ GhostsOK' /\ (c \notin stale' => c \notin stale /\ st = "OPEN")
    BY <2>1, <2>3, <2>10, <2>13 DEF Grows, CountsInv, GhostsOK, Late
  <2>15. CountInv(c)'
    <3>1. ASSUME NEW x \in DOMAIN new PROVE LineInv(c, x)'
      <4>1. CASE x = s
        <5>1. <<c, s>> \notin disturbed' => q.clean
          BY <2>10
        <5>2. SoFound(c, s, count[c].lines[s].counted)'
          BY <2>1, <2>6, <2>8, <2>11, <2>12, <2>13, <5>1 DEF SoFound
        <5>3. Still(c, s, count[c].lines[s].expected)'
          BY <1>1, <2>2, <2>6, <2>8, <2>10, <2>11, <2>12, <2>13 DEF Still, Place
        <5> QED
          BY <4>1, <5>2, <5>3 DEF LineInv
      <4>2. CASE x # s
        <5>1. x \in DOMAIN old /\ x \in Skus
          BY <2>4, <2>8, <4>2
        <5>2. LineInv(c, x)
          BY <1>5, <2>3, <5>1 DEF CountInv
        <5>3. count'[c].lines[x] = count[c].lines[x] /\ count'[c].status = count[c].status
          BY <2>3, <2>8, <2>11, <2>12, <5>1
        <5>4. error'[c][x] = error[c][x] /\ disturbed \subseteq disturbed'
          BY <2>13, <2>14, <4>2, <5>1 DEF Grows
        <5>5. count'[c].status = "OPEN" => Still(c, x, count[c].lines[x].expected)'
          BY <1>1, <2>10, <5>2, <5>3, <5>4 DEF LineInv, Still, Place
        <5>6. count'[c].lines[x].counted # Uncounted => SoFound(c, x, count[c].lines[x].counted)'
          BY <5>2, <5>3, <5>4 DEF LineInv, SoFound
        <5> QED
          BY <5>5, <5>6 DEF LineInv
      <4> QED
        BY <4>1, <4>2
    <3>2. c \notin stale' => journal'[c] = NoDelta
      BY <1>1, <1>5, <2>3, <2>14 DEF CountInv
    <3>3. IsLines(new) /\ st \in Statuses /\ st # "none"
      BY <1>5, <2>1, <2>2, <2>3, <2>4, <2>8 DEF IsLines, CountInv
    <3>4. c \notin stale' => journal'[c] = IF count'[c].status = "POSTED"
                                    THEN Variances(c, count'[c].lines) ELSE NoDelta
      BY <2>11, <2>12, <2>14, <3>2
    <3> QED
      BY <2>11, <2>12, <3>1, <3>3, <3>4 DEF CountInv, IsLines, Variances, NoDelta
  <2>16. Keeps(c)
    <3>1. \A x \in DOMAIN old : x # s /\ x \in Skus
      BY <1>7, <2>3, <2>4
    <3> QED
      BY <2>2, <2>3, <2>8, <2>11, <2>12, <2>13, <2>14, <3>1 DEF Keeps
  <2>17. \A d \in Counts \ {c} : /\ count'[d] = count[d] /\ error'[d] = error[d]
                                 /\ journal'[d] = journal[d]
    BY <1>1, <2>12, <2>13
  <2>18. \A v \in Users \ {u} : req[v].op # "idle" /\ req[v].count = c => Keeps(c)
    BY <2>16
  <2>19. shelf' = shelf /\ req' = [req EXCEPT ![u] = Idle]
    BY <1>1 DEF Answer
  <2> QED
    BY <2>12, <2>14, <2>15, <2>17, <2>18, <2>19, IdleOK, OneCount
<1> QED
  BY <1>6, <1>7

LEMMA SubmitCounts ==
    ASSUME CountsInv, NEW u \in Users, NEW c \in Counts, NEW h, Submit(u, c, h)
    PROVE  CountsInv'
<1>1. count[c].status = "OPEN" /\ UNCHANGED <<shelf, journal, count, stale, ghostVars>>
  BY DEF Submit, MovesQuietly, moveVars
<1>2. PICK o : o = IF h = "zero" /\ Missing(c) # {} THEN "zero" ELSE "submit"
  OBVIOUS
<1>3. PICK r : r = [op |-> o, count |-> c]
  OBVIOUS
<1>4. req' = [req EXCEPT ![u] = r]
  BY <1>2, <1>3 DEF Submit, Ask
<1>5. r.op \in {"submit", "zero"} /\ r.count = c
  BY <1>2, <1>3
<1>6. ReqInv(r)' /\ ~ Opens(r)
  BY <1>1, <1>5 DEF ReqInv, ReqShape, Requests, Opens
<1>7. Grows /\ GhostsOK' /\ shelf' = shelf /\ UNCHANGED <<count, error, journal>>
  BY <1>1 DEF Grows, CountsInv, GhostsOK, ghostVars
<1> QED
  BY <1>4, <1>6, <1>7, NoCount

LEMMA PostCounts ==
    ASSUME CountsInv, NEW u \in Users, NEW c \in Counts, Post(u, c)
    PROVE  CountsInv'
<1>1. count[c].status = "SUBMITTED" /\ UNCHANGED <<shelf, journal, count, stale, ghostVars>>
  BY DEF Post, MovesQuietly, moveVars
<1>2. PICK f : f = count[c].lines
  OBVIOUS
<1>3. PICK r : r = [op |-> "post", count |-> c, lines |-> f]
  OBVIOUS
<1>4. req' = [req EXCEPT ![u] = r]
  BY <1>2, <1>3 DEF Post, Ask
<1>5. r.op = "post" /\ r.count = c /\ r.lines = f /\ IsLines(f)
  <2>1. CountInv(c)
    BY DEF CountsInv
  <2> QED
    BY <1>2, <1>3, <2>1 DEF CountInv
<1>6. ReqInv(r)' /\ ~ Opens(r)
  BY <1>1, <1>2, <1>5 DEF ReqInv, ReqShape, Requests, Opens, IsLines
<1>7. Grows /\ GhostsOK' /\ shelf' = shelf /\ UNCHANGED <<count, error, journal>>
  BY <1>1 DEF Grows, CountsInv, GhostsOK, ghostVars
<1> QED
  BY <1>4, <1>6, <1>7, NoCount

LEMMA CancelCounts ==
    ASSUME CountsInv, NEW u \in Users, NEW c \in Counts, Cancel(u, c)
    PROVE  CountsInv'
<1>1. count[c].status \in Active /\ UNCHANGED <<shelf, journal, count, stale, ghostVars>>
  BY DEF Cancel, MovesQuietly, moveVars
<1>2. PICK seen : seen = count[c].status
  OBVIOUS
<1>3. PICK r : r = [op |-> "cancel", count |-> c, seen |-> seen]
  OBVIOUS
<1>4. req' = [req EXCEPT ![u] = r]
  BY <1>2, <1>3 DEF Cancel, Ask
<1>5. r.op = "cancel" /\ r.count = c /\ r.seen \in Active
  BY <1>1, <1>2, <1>3
<1>6. ReqInv(r)' /\ ~ Opens(r)
  BY <1>1, <1>5 DEF ReqInv, ReqShape, Requests, Opens, Active
<1>7. Grows /\ GhostsOK' /\ shelf' = shelf /\ UNCHANGED <<count, error, journal>>
  BY <1>1 DEF Grows, CountsInv, GhostsOK, ghostVars
<1> QED
  BY <1>4, <1>6, <1>7, NoCount

LEMMA TellPostedCounts ==
    ASSUME CountsInv, NEW u \in Users, TellPosted(u)
    PROVE  CountsInv'
BY AnswerCounts DEF TellPosted

LEMMA WriteSubmittedCounts ==
    ASSUME CountsInv, NEW u \in Users, WriteSubmitted(u)
    PROVE  CountsInv'
<1>1. req[u].op \in {"submit", "zero"} /\ UNCHANGED <<shelf, journal, moved, error>>
  BY DEF WriteSubmitted, MovesQuietly, moveVars
<1>2. PICK c \in Counts : c = req[u].count
  BY <1>1, Request
<1>3. PICK z : z = (req[u].op = "zero")
  OBVIOUS
<1>4. ReqInv(req[u]) /\ CountInv(c) /\ count[c].status # "none"
  BY <1>1, <1>2, Request DEF ReqInv
<1>5. PICK old, st : old = count[c].lines /\ st = count[c].status
  OBVIOUS
<1>6. count[c] = [status |-> st, lines |-> old] /\ old \in [DOMAIN old -> Line]
      /\ DOMAIN old \subseteq Skus
  BY <1>4, <1>5 DEF CountInv, IsLines
<1>7. PICK new : new = [s \in DOMAIN old |-> IF z /\ s \in Missing(c)
                                             THEN [old[s] EXCEPT !.counted = 0] ELSE old[s]]
  OBVIOUS
<1>8. \A s \in DOMAIN old :
         IF z /\ s \in Missing(c) THEN new[s] = [expected |-> old[s].expected, counted |-> 0]
                                  ELSE new[s] = old[s]
  <2>1. \A s \in DOMAIN old : [old[s] EXCEPT !.counted = 0] = [expected |-> old[s].expected, counted |-> 0]
    BY <1>6 DEF Line
  <2> QED
    BY <1>7, <2>1
<1>9. DOMAIN new = DOMAIN old /\ new \in [DOMAIN old -> Line]
      /\ \A s \in DOMAIN old : new[s].expected = old[s].expected
  <2>1. ASSUME NEW s \in DOMAIN old PROVE new[s] \in Line /\ new[s].expected = old[s].expected
    <3>1. PICK n \in Line : n = old[s]
      BY <1>6
    <3>2. [expected |-> n.expected, counted |-> 0] \in Line
      BY DEF Line
    <3>3. new[s] = [expected |-> n.expected, counted |-> 0] \/ new[s] = n
      BY <1>8, <3>1
    <3> QED
      BY <3>1, <3>2, <3>3
  <2>2. DOMAIN new = DOMAIN old /\ new = [s \in DOMAIN old |-> new[s]]
    BY <1>7
  <2> QED
    BY <2>1, <2>2
<1>10. PICK k : k = [status |-> "SUBMITTED", lines |-> new]
  OBVIOUS
<1>11. /\ count' = [count EXCEPT ![c] = k] /\ req' = [req EXCEPT ![u] = Idle]
       /\ stale' = Late(c, "OPEN")
       /\ disturbed' = IF ~ z THEN disturbed ELSE disturbed \cup {<<c, s>> : s \in Missing(c)}
  <2>1. count' = [count EXCEPT ![c] = [status |-> "SUBMITTED", lines |->
             [s \in DOMAIN @.lines |->
                 IF z /\ s \in Missing(c)
                 THEN [@.lines[s] EXCEPT !.counted = 0] ELSE @.lines[s]]]]
    BY <1>2, <1>3 DEF WriteSubmitted
  <2>2. count' = [count EXCEPT ![c] = [status |-> "SUBMITTED", lines |->
             [s \in DOMAIN old |->
                 IF z /\ s \in Missing(c)
                 THEN [old[s] EXCEPT !.counted = 0] ELSE old[s]]]]
    BY <1>5, <2>1
  <2>3. count' = [count EXCEPT ![c] = k]
    BY <1>7, <1>10, <2>2
  <2>4. /\ req' = [req EXCEPT ![u] = Idle] /\ stale' = Late(c, "OPEN")
        /\ disturbed' = IF req[u].op # "zero" THEN disturbed
                        ELSE disturbed \cup {<<c, s>> : s \in Missing(c)}
    BY <1>2 DEF WriteSubmitted, Answer
  <2> QED
    BY <1>3, <2>3, <2>4
<1>12. k = [status |-> k.status, lines |-> k.lines] /\ k.status = "SUBMITTED" /\ k.lines = new
  BY <1>10
<1>13. /\ count'[c] = k /\ \A d \in Counts \ {c} : count'[d] = count[d]
       /\ count' = [d \in Counts |-> count'[d]]
  BY <1>11, Written
<1>14. Missing(c) \subseteq Skus /\ \A s \in DOMAIN old : s \in Missing(c) <=> old[s].counted = Uncounted
  BY <1>5, <1>6 DEF Missing
<1>15. Grows /\ GhostsOK' /\ (c \notin stale' => c \notin stale /\ st = "OPEN")
  BY <1>1, <1>5, <1>11, <1>14 DEF Grows, CountsInv, GhostsOK, Late
<1>16. CountInv(c)'
  <2>1. ASSUME NEW s \in DOMAIN new PROVE LineInv(c, s)'
    <3>1. LineInv(c, s) /\ s \in DOMAIN old
      BY <1>4, <1>5, <1>9 DEF CountInv
    <3>2. CASE z /\ s \in Missing(c)
      <4>1. <<c, s>> \in disturbed'
        BY <1>11, <3>2
      <4> QED
        BY <1>12, <1>13, <4>1 DEF LineInv, SoFound
    <3>3. CASE ~ (z /\ s \in Missing(c))
      <4>1. count'[c].lines[s] = count[c].lines[s]
        BY <1>5, <1>8, <1>12, <1>13, <3>1, <3>3
      <4>2. count[c].lines[s].counted # Uncounted => SoFound(c, s, count[c].lines[s].counted)'
        BY <1>1, <1>15, <3>1, <4>1 DEF LineInv, SoFound, Grows
      <4> QED
        BY <1>12, <1>13, <4>1, <4>2 DEF LineInv
    <3> QED
      BY <3>2, <3>3
  <2>2. c \notin stale' => journal'[c] = NoDelta
    BY <1>1, <1>4, <1>5, <1>15 DEF CountInv
  <2>3. IsLines(new)
    BY <1>6, <1>9 DEF IsLines
  <2>4. c \notin stale' => journal'[c] = IF count'[c].status = "POSTED"
                                  THEN Variances(c, count'[c].lines) ELSE NoDelta
    BY <1>12, <1>13, <2>2
  <2> QED
    BY <1>12, <1>13, <2>1, <2>3, <2>4 DEF CountInv, IsLines, Variances, NoDelta, Statuses
<1>17. Keeps(c)
  BY <1>1, <1>4, <1>5, <1>9, <1>12, <1>13, <1>15 DEF Keeps
<1>18. \A d \in Counts \ {c} : /\ count'[d] = count[d] /\ error'[d] = error[d]
                               /\ journal'[d] = journal[d]
  BY <1>1, <1>13
<1>19. \A v \in Users \ {u} : req[v].op # "idle" /\ req[v].count = c => Keeps(c)
  BY <1>17
<1>20. shelf' = shelf
  BY <1>1
<1> QED
  BY <1>11, <1>13, <1>15, <1>16, <1>18, <1>19, <1>20, IdleOK, OneCount

LEMMA WriteCancelledCounts ==
    ASSUME CountsInv, NEW u \in Users, WriteCancelled(u)
    PROVE  CountsInv'
<1>1. req[u].op = "cancel" /\ UNCHANGED <<shelf, journal, moved, disturbed, error>>
  BY DEF WriteCancelled, Doing, MovesQuietly, moveVars, ghostVars
<1>2. PICK c \in Counts : c = req[u].count
  BY <1>1, Request
<1>3. ReqInv(req[u]) /\ CountInv(c) /\ count[c].status # "none" /\ req[u].seen \in Active
  BY <1>1, <1>2, Request DEF ReqInv, ReqShape
<1>4. PICK old, st : old = count[c].lines /\ st = count[c].status
  OBVIOUS
<1>5. count[c] = [status |-> st, lines |-> old] /\ IsLines(old)
  BY <1>3, <1>4 DEF CountInv
<1>6. PICK k : k = [status |-> "CANCELLED", lines |-> old]
  OBVIOUS
<1>7. /\ count' = [count EXCEPT ![c] = k] /\ req' = [req EXCEPT ![u] = Idle]
      /\ stale' = Late(c, req[u].seen)
  <2>1. count' = [count EXCEPT ![c].status = "CANCELLED"] /\ req' = [req EXCEPT ![u] = Idle]
        /\ stale' = Late(c, req[u].seen)
    BY <1>2 DEF WriteCancelled, Answer
  <2>2. [count[c] EXCEPT !.status = "CANCELLED"] = k
    BY <1>5, <1>6
  <2> QED
    BY <2>1, <2>2
<1>8. k = [status |-> k.status, lines |-> k.lines] /\ k.status = "CANCELLED" /\ k.lines = old
  BY <1>6
<1>9. /\ count'[c] = k /\ \A d \in Counts \ {c} : count'[d] = count[d]
      /\ count' = [d \in Counts |-> count'[d]]
  BY <1>7, Written
<1>10. Grows /\ GhostsOK' /\ (c \notin stale' => c \notin stale /\ st \in Active)
  BY <1>1, <1>3, <1>4, <1>7 DEF Grows, CountsInv, GhostsOK, Late
<1>11. CountInv(c)'
  <2>1. ASSUME NEW s \in DOMAIN old PROVE LineInv(c, s)'
    <3>1. LineInv(c, s) /\ count'[c].lines[s] = count[c].lines[s]
      BY <1>3, <1>4, <1>8, <1>9 DEF CountInv
    <3>2. count[c].lines[s].counted # Uncounted => SoFound(c, s, count[c].lines[s].counted)'
      BY <1>1, <3>1 DEF LineInv, SoFound
    <3> QED
      BY <1>8, <1>9, <3>1, <3>2 DEF LineInv
  <2>2. c \notin stale' => journal'[c] = NoDelta
    BY <1>1, <1>3, <1>4, <1>10 DEF CountInv, Active
  <2>3. c \notin stale' => journal'[c] = IF count'[c].status = "POSTED"
                                  THEN Variances(c, count'[c].lines) ELSE NoDelta
    BY <1>8, <1>9, <2>2
  <2> QED
    BY <1>5, <1>8, <1>9, <2>1, <2>3 DEF CountInv, IsLines, Variances, NoDelta, Statuses
<1>12. Keeps(c)
  BY <1>1, <1>3, <1>4, <1>8, <1>9 DEF Keeps
<1>13. \A d \in Counts \ {c} : /\ count'[d] = count[d] /\ error'[d] = error[d]
                               /\ journal'[d] = journal[d]
  BY <1>1, <1>9
<1>14. \A v \in Users \ {u} : req[v].op # "idle" /\ req[v].count = c => Keeps(c)
  BY <1>12
<1>15. shelf' = shelf
  BY <1>1
<1> QED
  BY <1>7, <1>9, <1>10, <1>11, <1>13, <1>14, <1>15, IdleOK, OneCount

LEMMA VariancesTyped ==
    ASSUME NEW c, NEW f, IsLines(f)
    PROVE  Variances(c, f) \in [Places -> Int]
<1>1. \A s \in DOMAIN f : f[s].counted \in Int /\ f[s].expected \in Int
  BY DEF IsLines, Line
<1>2. \A s : Variance(f, s) \in Int
  BY <1>1 DEF Variance
<1> QED
  BY <1>2 DEF Variances

LEMMA SumTyped ==
    ASSUME NEW f \in [Places -> Int], NEW g \in [Places -> Int]
    PROVE  Sum(f, g) \in [Places -> Int] /\ \A p \in Places : Sum(f, g)[p] = f[p] + g[p]
BY DEF Sum

(* Posting: refused, or every variance in the levels and in the journal.    *)
LEMMA CommitPostIs ==
    ASSUME BooksInv, CountsInv, NEW u \in Users, CommitPost(u)
    PROVE  \E c \in Counts : \E change \in [Places -> Int] :
              /\ req[u].op = "post" /\ c = req[u].count /\ change = Variances(c, req[u].lines)
              /\ UNCHANGED <<listed, shelf, mail, job, adjusting, told, overlapped, faults, saleVars>>
              /\ MarkMoved
              /\ \/ Answer(u) /\ UNCHANGED <<onHand, journal, count, stale>>
                 \/ /\ onHand' = Sum(onHand, change)
                    /\ journal' = [journal EXCEPT ![c] = Sum(journal[c], change)]
                    /\ count' = [count EXCEPT ![c].status = "POSTED"]
                    /\ stale' = Late(c, "SUBMITTED")
                    /\ \/ Answer(u) /\ change = NoDelta
                       \/ req' = [req EXCEPT ![u] = [op |-> "tell", count |-> c, change |-> change]]
<1>1. req[u].op = "post"
  BY DEF CommitPost, Doing
<1>2. PICK c \in Counts : c = req[u].count
  BY <1>1, Request
<1>3. IsLines(req[u].lines)
  <2>1. ReqShape(req[u])
    BY <1>1, Request DEF ReqInv
  <2> QED
    BY <1>1, <2>1 DEF ReqShape
<1>4. PICK change \in [Places -> Int] : change = Variances(c, req[u].lines)
  BY <1>3, VariancesTyped
<1>5. UNCHANGED <<listed, shelf, mail, job, adjusting, told, overlapped, faults, saleVars>> /\ MarkMoved
  BY DEF CommitPost
<1>6. CASE Refuses(c, req[u].lines)
  <2>1. Answer(u) /\ UNCHANGED <<onHand, journal, count, stale>>
    BY <1>2, <1>6 DEF CommitPost
  <2> QED
    BY <1>1, <1>2, <1>4, <1>5, <2>1
<1>7. CASE ~ Refuses(c, req[u].lines)
  <2>1. /\ onHand' = Sum(onHand, change)
        /\ journal' = [journal EXCEPT ![c] = Sum(journal[c], change)]
        /\ count' = [count EXCEPT ![c].status = "POSTED"]
        /\ stale' = Late(c, "SUBMITTED")
        /\ IF change = NoDelta THEN Answer(u)
           ELSE req' = [req EXCEPT ![u] = [op |-> "tell", count |-> c, change |-> change]]
    BY <1>2, <1>4, <1>7 DEF CommitPost, Then
  <2> QED
    BY <1>1, <1>2, <1>4, <1>5, <2>1
<1> QED
  BY <1>6, <1>7

LEMMA CommitPostBooks ==
    ASSUME BooksInv, CountsInv, LevelsInv, NEW u \in Users, CommitPost(u)
    PROVE  BooksInv' /\ LevelsInv' /\ \A d \in Documents : journal'[d] = journal[d]
<1>1. PICK c \in Counts : \E change \in [Places -> Int] :
         /\ UNCHANGED <<listed, shelf, mail, job, adjusting, told, overlapped, faults, saleVars>>
         /\ \/ UNCHANGED <<onHand, journal>>
            \/ /\ onHand' = Sum(onHand, change)
               /\ journal' = [journal EXCEPT ![c] = Sum(journal[c], change)]
  BY CommitPostIs
<1>2. PICK change \in [Places -> Int] :
         /\ UNCHANGED <<listed, shelf, mail, job, adjusting, told, overlapped, faults, saleVars>>
         /\ \/ UNCHANGED <<onHand, journal>>
            \/ /\ onHand' = Sum(onHand, change)
               /\ journal' = [journal EXCEPT ![c] = Sum(journal[c], change)]
  BY <1>1
<1>0. UNCHANGED <<consumed, lost, torn>>
  BY <1>2 DEF saleVars
<1>3. /\ onHand \in [Places -> Int] /\ journal \in [References -> [Places -> Int]]
      /\ told \in [References -> [Places -> Int]]
  BY DEF BooksInv, MoveTypeOK
<1>4. c \in References /\ Documents \subseteq References /\ c \notin Documents
  BY DocumentAssumption DEF References
<1>5. PICK new \in [Places -> Int] :
         new = Sum(journal[c], change) /\ \A p \in Places : new[p] = journal[c][p] + change[p]
  BY <1>3, <1>4, SumTyped
<1>6. CASE UNCHANGED <<onHand, journal>>
  <2>1. BooksInv'
    BY <1>0, <1>2, <1>3, <1>6, AsideBooks
  <2>2. \A p \in Places : onHand'[p] - onHand[p] = journal'[c][p] - journal[c][p]
    BY <1>3, <1>4, <1>6
  <2> QED
    BY <1>0, <1>2, <1>4, <1>6, <2>1, <2>2, TogetherLevels
<1>7. CASE onHand' = Sum(onHand, change) /\ journal' = [journal EXCEPT ![c] = Sum(journal[c], change)]
  <2>1. onHand' \in [Places -> Int] /\ \A p \in Places : onHand'[p] = onHand[p] + change[p]
    BY <1>3, <1>7, SumTyped
  <2>2. journal' \in [References -> [Places -> Int]] /\ journal'[c] = new
        /\ \A d \in References \ {c} : journal'[d] = journal[d]
    BY <1>3, <1>4, <1>5, <1>7
  <2>3. \A d \in Documents : journal'[d] = journal[d]
    BY <1>4, <2>2
  <2>4. BooksInv'
    BY <1>0, <1>2, <1>3, <2>1, <2>2, <2>3, AsideBooks
  <2>5. \A p \in Places : onHand'[p] - onHand[p] = journal'[c][p] - journal[c][p]
    BY <1>3, <1>4, <1>5, <2>1, <2>2
  <2>6. LevelsInv'
    BY <1>0, <1>2, <1>4, <2>2, <2>4, <2>5, TogetherLevels
  <2> QED
    BY <2>3, <2>4, <2>6
<1> QED
  BY <1>2, <1>6, <1>7

(* What a step notes of the goods and levels it moves.                      *)
LEMMA MarkedMoved ==
    ASSUME CountsInv, MarkMoved, stale \subseteq stale', stale' \subseteq Counts
    PROVE  Grows /\ GhostsOK' /\ Noted /\ UNCHANGED <<disturbed, error>>
<1>1. UNCHANGED <<disturbed, error>> /\ moved \subseteq moved'
  BY DEF MarkMoved
<1>2. moved' \subseteq Counts \X Skus
  BY DEF MarkMoved, CountsInv, GhostsOK
<1>3. ASSUME NEW c \in Counts, NEW s \in Skus, Frozen(c, s), <<c, s>> \notin moved'
      PROVE  shelf'[Place(c, s)] = shelf[Place(c, s)]
  BY <1>3 DEF MarkMoved
<1>4. Noted
  BY <1>3 DEF Noted
<1> QED
  BY <1>1, <1>2, <1>4 DEF Grows, GhostsOK, CountsInv

LEMMA CommitPostCounts ==
    ASSUME BooksInv, CountsInv, NEW u \in Users, CommitPost(u)
    PROVE  CountsInv'
<1>1. PICK c \in Counts : \E change \in [Places -> Int] :
              /\ req[u].op = "post" /\ c = req[u].count /\ change = Variances(c, req[u].lines)
              /\ UNCHANGED <<listed, shelf, mail, job, adjusting, told, overlapped, faults, saleVars>>
              /\ MarkMoved
              /\ \/ Answer(u) /\ UNCHANGED <<onHand, journal, count, stale>>
                 \/ /\ onHand' = Sum(onHand, change)
                    /\ journal' = [journal EXCEPT ![c] = Sum(journal[c], change)]
                    /\ count' = [count EXCEPT ![c].status = "POSTED"]
                    /\ stale' = Late(c, "SUBMITTED")
                    /\ \/ Answer(u) /\ change = NoDelta
                       \/ req' = [req EXCEPT ![u] = [op |-> "tell", count |-> c, change |-> change]]
  BY CommitPostIs
<1>2. PICK change \in [Places -> Int] :
              /\ req[u].op = "post" /\ c = req[u].count /\ change = Variances(c, req[u].lines)
              /\ UNCHANGED <<listed, shelf, mail, job, adjusting, told, overlapped, faults, saleVars>>
              /\ MarkMoved
              /\ \/ Answer(u) /\ UNCHANGED <<onHand, journal, count, stale>>
                 \/ /\ onHand' = Sum(onHand, change)
                    /\ journal' = [journal EXCEPT ![c] = Sum(journal[c], change)]
                    /\ count' = [count EXCEPT ![c].status = "POSTED"]
                    /\ stale' = Late(c, "SUBMITTED")
                    /\ \/ Answer(u) /\ change = NoDelta
                       \/ req' = [req EXCEPT ![u] = [op |-> "tell", count |-> c, change |-> change]]
  BY <1>1
<1>3. stale \subseteq stale' /\ stale' \subseteq Counts
  BY <1>2 DEF Late, CountsInv, GhostsOK
<1>4. Grows /\ GhostsOK' /\ Noted /\ UNCHANGED <<disturbed, error>> /\ shelf' = shelf
  BY <1>2, <1>3, MarkedMoved
<1>5. CASE Answer(u) /\ UNCHANGED <<onHand, journal, count, stale>>
  <2>1. req' = [req EXCEPT ![u] = Idle] /\ UNCHANGED <<count, error, journal>>
    BY <1>4, <1>5 DEF Answer
  <2> QED
    BY <1>4, <2>1, IdleOK, NoCount
<1>6. CASE /\ journal' = [journal EXCEPT ![c] = Sum(journal[c], change)]
           /\ count' = [count EXCEPT ![c].status = "POSTED"]
           /\ stale' = Late(c, "SUBMITTED")
           /\ \/ Answer(u) /\ change = NoDelta
              \/ req' = [req EXCEPT ![u] = [op |-> "tell", count |-> c, change |-> change]]
  <2>1. PICK r : /\ req' = [req EXCEPT ![u] = r]
                 /\ r = Idle \/ r = [op |-> "tell", count |-> c, change |-> change]
    BY <1>6 DEF Answer
  <2>2. ReqInv(req[u]) /\ CountInv(c)
    BY <1>2, Request
  <2>3. /\ count[c].status \notin {"none", "OPEN"}
        /\ c \notin stale /\ count[c].status = "SUBMITTED" => req[u].lines = count[c].lines
    BY <1>2, <2>2 DEF ReqInv
  <2>4. PICK old, st : old = count[c].lines /\ st = count[c].status
    OBVIOUS
  <2>5. count[c] = [status |-> st, lines |-> old] /\ IsLines(old)
    BY <2>2, <2>4 DEF CountInv
  <2>6. PICK k : k = [status |-> "POSTED", lines |-> old]
    OBVIOUS
  <2>7. count' = [count EXCEPT ![c] = k]
    <3>1. [count[c] EXCEPT !.status = "POSTED"] = k
      BY <2>5, <2>6
    <3> QED
      BY <1>6, <3>1
  <2>8. k = [status |-> k.status, lines |-> k.lines] /\ k.status = "POSTED" /\ k.lines = old
    BY <2>6
  <2>9. /\ count'[c] = k /\ \A d \in Counts \ {c} : count'[d] = count[d]
        /\ count' = [d \in Counts |-> count'[d]]
    BY <2>7, Written
  <2>10. ReqInv(r)' /\ ~ Opens(r)
    <3>1. CASE r = Idle
      BY <3>1, IdleOK
    <3>2. CASE r = [op |-> "tell", count |-> c, change |-> change]
      <4>1. r.op = "tell" /\ r.count = c /\ r.change = change
        BY <3>2
      <4> QED
        BY <2>8, <2>9, <4>1 DEF ReqInv, ReqShape, Requests, Opens
    <3> QED
      BY <2>1, <3>1, <3>2
  <2>11. journal \in [References -> [Places -> Int]] /\ c \in References
         /\ \A d \in Counts : d \in References
    BY DEF BooksInv, MoveTypeOK, References
  <2>12. journal'[c] = Sum(journal[c], change) /\ \A d \in Counts \ {c} : journal'[d] = journal[d]
    BY <1>6, <2>11
  <2>13. c \notin stale' => c \notin stale /\ st = "SUBMITTED"
    BY <1>6, <2>4 DEF Late
  <2>14. c \notin stale' => journal'[c] = Variances(c, old)
    <3> SUFFICES ASSUME c \notin stale' PROVE journal'[c] = Variances(c, old)
      OBVIOUS
    <3>1. change = Variances(c, old)
      BY <1>2, <2>3, <2>4, <2>13
    <3>2. journal[c] = NoDelta
      BY <2>2, <2>4, <2>13 DEF CountInv
    <3>3. Sum(NoDelta, change) = change
      BY DEF Sum, NoDelta
    <3> QED
      BY <2>12, <3>1, <3>2, <3>3
  <2>15. ASSUME NEW s \in DOMAIN old PROVE LineInv(c, s)'
    <3>1. LineInv(c, s) /\ count'[c].lines[s] = count[c].lines[s]
      BY <2>2, <2>4, <2>8, <2>9, <2>15 DEF CountInv
    <3>2. count[c].lines[s].counted # Uncounted => SoFound(c, s, count[c].lines[s].counted)'
      BY <1>4, <3>1 DEF LineInv, SoFound
    <3> QED
      BY <2>8, <2>9, <3>1, <3>2 DEF LineInv
  <2>16. CountInv(c)'
    BY <2>5, <2>8, <2>9, <2>14, <2>15 DEF CountInv, IsLines, Variances, Statuses
  <2>17. Keeps(c)
    BY <1>4, <2>3, <2>4, <2>8, <2>9 DEF Keeps
  <2>18. \A d \in Counts \ {c} : /\ count'[d] = count[d] /\ error'[d] = error[d]
                                 /\ journal'[d] = journal[d]
    BY <1>4, <2>9, <2>12
  <2>19. \A v \in Users \ {u} : req[v].op # "idle" /\ req[v].count = c => Keeps(c)
    BY <2>17
  <2>20. Grows /\ GhostsOK' /\ shelf' = shelf
    BY <1>4
  <2> QED
    BY <2>1, <2>9, <2>10, <2>16, <2>18, <2>19, <2>20, OneCount
<1> QED
  BY <1>2, <1>5, <1>6

-----------------------------------------------------------------------------
(* Requests and counts under the steps of the rest of the system.           *)
LEMMA CountsWatch ==
    ASSUME CountsInv, MarkMoved, UNCHANGED <<count, req, stale>>,
           \A c \in Counts : journal'[c] = journal[c]
    PROVE  CountsInv'
<1>1. stale \subseteq stale' /\ stale' \subseteq Counts
  BY DEF CountsInv, GhostsOK
<1>2. Grows /\ GhostsOK' /\ Noted /\ UNCHANGED <<disturbed, error>>
  BY <1>1, MarkedMoved
<1>3. \A c \in Counts : count'[c] = count[c] /\ error'[c] = error[c]
  BY <1>2
<1>4. \A c \in Counts : CountInv(c)' /\ Keeps(c)
  BY <1>2, <1>3, CountStays
<1>5. ASSUME NEW v \in Users PROVE (\A q \in {req[v]} : ReqInv(q))'
  <2>1. PICK q : q = req[v]
    OBVIOUS
  <2>2. q.op # "idle" => q.count \in Counts
    BY <2>1 DEF CountsInv, ReqInv, ReqShape
  <2>3. ReqInv(q)'
    BY <1>2, <1>4, <2>1, <2>2, ReqStays
  <2> QED
    BY <2>1, <2>3
<1>6. count' = [c \in Counts |-> count'[c]] /\ req' = [u \in Users |-> req'[u]]
  BY DEF CountsInv
<1>7. OneOpens'
  BY DEF OneOpens, Opens, CountsInv
<1> QED
  BY <1>2, <1>4, <1>5, <1>6, <1>7 DEF CountsInv

LEMMA RestartCounts ==
    ASSUME CountsInv, req' = [u \in Users |-> Idle], UNCHANGED <<count, stale, ghostVars>>,
           UNCHANGED <<shelf, journal>>
    PROVE  CountsInv'
<1>1. Grows /\ GhostsOK' /\ Noted
  BY DEF Grows, Noted, CountsInv, GhostsOK, ghostVars
<1>2. \A c \in Counts : count'[c] = count[c] /\ error'[c] = error[c] /\ journal'[c] = journal[c]
  BY DEF ghostVars
<1>3. \A c \in Counts : CountInv(c)' /\ Keeps(c)
  BY <1>1, <1>2, CountStays
<1>4. \A v \in Users : req'[v] = Idle
  OBVIOUS
<1>5. \A v \in Users : (\A q \in {req[v]} : ReqInv(q))'
  BY <1>4, IdleOK
<1>6. count' = [c \in Counts |-> count'[c]] /\ req' = [u \in Users |-> req'[u]]
  BY DEF CountsInv
<1>7. OneOpens'
  BY <1>4 DEF OneOpens, Opens, Idle
<1> QED
  BY <1>1, <1>3, <1>5, <1>6, <1>7 DEF CountsInv

-----------------------------------------------------------------------------
(* Until something fails, Financials has been told of a count's rows, or a  *)
(* request is about to tell it.                                             *)
ToTell(r, c, p) == IF r.op = "tell" /\ r.count = c THEN r.change[p] ELSE 0
Yet(reqs, c, p) == [u \in Users |-> ToTell(reqs[u], c, p)]
ToldInv == faults = 0 => \A c \in Counts, p \in Places :
    journal[c][p] = told[c][p] + SumFunctionOnSet(Yet(req, c, p), Users)

LEMMA DueInt ==
    ASSUME NEW c \in Counts, NEW p \in Places
    PROVE  /\ CountsInv => Ints(Yet(req, c, p), Users)
           /\ CountsInv' => Ints(Yet(req', c, p), Users)
<1>1. ASSUME CountsInv, NEW u \in Users PROVE ToTell(req[u], c, p) \in Int
  <2>1. PICK q : q = req[u]
    OBVIOUS
  <2>2. ReqShape(q)
    BY <1>1, <2>1 DEF CountsInv, ReqInv
  <2> QED
    BY <2>1, <2>2 DEF ReqShape, ToTell
<1>2. ASSUME CountsInv', NEW u \in Users PROVE ToTell(req'[u], c, p) \in Int
  <2>1. PICK q : q = req'[u]
    OBVIOUS
  <2>2. (\A x \in {req[u]} : ReqInv(x))'
    BY <1>2 DEF CountsInv
  <2>3. ReqInv(q)'
    BY <2>1, <2>2
  <2>4. ReqShape(q)'
    BY <2>3 DEF ReqInv
  <2> QED
    BY <2>1, <2>4 DEF ReqShape, ToTell
<1> QED
  BY <1>1, <1>2 DEF Ints, Yet

LEMMA ToldMoves ==
    ASSUME BooksInv, BooksInv', CountsInv, CountsInv', ToldInv, faults' = faults,
           NEW u \in Users, \A v \in Users \ {u} : req'[v] = req[v],
           \A c \in Counts, p \in Places :
              journal'[c][p] - told'[c][p]
                = journal[c][p] - told[c][p] + ToTell(req'[u], c, p) - ToTell(req[u], c, p)
    PROVE  ToldInv'
<1> SUFFICES ASSUME faults = 0, NEW c \in Counts, NEW p \in Places
             PROVE  journal'[c][p] = told'[c][p] + SumFunctionOnSet(Yet(req', c, p), Users)
  BY DEF ToldInv, Yet, ToTell
<1>1. journal[c][p] = told[c][p] + SumFunctionOnSet(Yet(req, c, p), Users)
  BY DEF ToldInv
<1>2. PICK f, g : f = Yet(req, c, p) /\ g = Yet(req', c, p)
  OBVIOUS
<1>3. /\ f[u] = ToTell(req[u], c, p) /\ g[u] = ToTell(req'[u], c, p)
      /\ \A v \in Users \ {u} : f[v] = g[v]
  BY <1>2 DEF Yet
<1>4. Ints(f, Users) /\ Ints(g, Users) /\ IsFiniteSet(Users)
  BY <1>2, DueInt, CountAssumption
<1>5. SumFunctionOnSet(g, Users) = SumFunctionOnSet(f, Users) - f[u] + g[u]
  BY <1>3, <1>4, SumChange
<1>6. SumFunctionOnSet(f, Users) \in Int /\ f[u] \in Int /\ g[u] \in Int
  BY <1>4, SumInt DEF Ints
<1>7. c \in References
  BY DEF References
<1>8. journal[c][p] \in Int /\ told[c][p] \in Int /\ journal'[c][p] \in Int /\ told'[c][p] \in Int
  BY <1>7 DEF BooksInv, MoveTypeOK
<1>9. journal'[c][p] - told'[c][p] = journal[c][p] - told[c][p] + g[u] - f[u]
  BY <1>3
<1> QED
  BY <1>1, <1>2, <1>5, <1>6, <1>8, <1>9

LEMMA ToldStays ==
    ASSUME BooksInv, CountsInv, ToldInv, faults' = 0 => faults = 0,
           \A c \in Counts : journal'[c] = journal[c] /\ told'[c] = told[c],
           faults' = 0 => req' = req
    PROVE  ToldInv'
<1> SUFFICES ASSUME faults' = 0, NEW c \in Counts, NEW p \in Places
             PROVE  journal'[c][p] = told'[c][p] + SumFunctionOnSet(Yet(req', c, p), Users)
  BY DEF ToldInv, Yet, ToTell
<1>1. journal[c][p] = told[c][p] + SumFunctionOnSet(Yet(req, c, p), Users)
  BY DEF ToldInv
<1> QED
  BY <1>1

(* A request that neither was about to tell nor is now.                     *)
LEMMA ToldQuiet ==
    ASSUME BooksInv, BooksInv', CountsInv, CountsInv', ToldInv, NEW u \in Users, NEW r,
           req' = [req EXCEPT ![u] = r], req[u].op # "tell", r.op # "tell",
           UNCHANGED <<journal, told, faults>>
    PROVE  ToldInv'
<1>1. req'[u] = r /\ \A v \in Users \ {u} : req'[v] = req[v]
  BY DEF CountsInv
<1>2. \A c, p : ToTell(req'[u], c, p) = 0 /\ ToTell(req[u], c, p) = 0
  BY <1>1 DEF ToTell
<1>3. ASSUME NEW c \in Counts, NEW p \in Places
      PROVE  journal'[c][p] - told'[c][p]
                = journal[c][p] - told[c][p] + ToTell(req'[u], c, p) - ToTell(req[u], c, p)
  <2>1. c \in References
    BY DEF References
  <2>2. journal[c][p] \in Int /\ told[c][p] \in Int
    BY <2>1 DEF BooksInv, MoveTypeOK
  <2> QED
    BY <1>2, <2>2
<1> QED
  BY <1>1, <1>3, ToldMoves

(* The world, the bus and the handlers write no row of a count.             *)
LEMMA MovesAside ==
    ASSUME BooksInv, Moves
    PROVE  /\ \A c \in Counts : journal'[c] = journal[c] /\ told'[c] = told[c]
           /\ faults' = 0 => faults = 0
<1>1. /\ journal \in [References -> [Places -> Int]] /\ told \in [References -> [Places -> Int]]
      /\ faults \in Nat
  BY DocumentAssumption DEF BooksInv, MoveTypeOK
<1>2. \A c \in Counts : c \in References /\ c \notin Documents
  BY DocumentAssumption DEF References
<1>3. ASSUME NEW d \in Documents, Happens(d) \/ Adjust(d) \/ TellAdjusted(d)
      PROVE  /\ \A c \in Counts : journal'[c] = journal[c] /\ told'[c] = told[c]
             /\ faults' = faults
  BY <1>1, <1>2, <1>3 DEF Happens, Adjust, TellAdjusted
<1>4. ASSUME NEW d \in Documents, NEW k \in Copies, AnnouncedAgain(d, k)
      PROVE  UNCHANGED <<journal, told, faults>>
  BY <1>4 DEF AnnouncedAgain
<1>5. ASSUME NEW m \in Messages, NEW i \in Slots, Deliver(m, i) \/ Handle(m, i) \/ Throws(m, i)
      PROVE  /\ \A c \in Counts : journal'[c] = journal[c] /\ told'[c] = told[c]
             /\ faults' = 0 => faults = 0
  <2>1. m[1] \in Documents
    BY DEF Messages
  <2>2. CASE Deliver(m, i) \/ FindProduct(m, i) \/ CreateStub(m, i) \/ RaiseLevel(m, i)
             \/ FindReservation(m, i) \/ MarkConsumed(m, i) \/ Look(m, i) \/ Ack(m, i)
    BY <2>2 DEF Deliver, FindProduct, CreateStub, RaiseLevel, FindReservation, MarkConsumed, Look, Ack
  <2>3. CASE Throws(m, i)
    BY <1>1, <2>3 DEF Throws
  <2>4. CASE WriteRow(m, i) \/ Apply(m, i)
    BY <1>1, <1>2, <2>1, <2>4 DEF WriteRow, Apply
  <2> QED
    BY <1>5, <2>2, <2>3, <2>4 DEF Handle
<1>6. CASE ChannelLost \/ Restart
  BY <1>1, <1>6 DEF ChannelLost, Restart
<1> QED
  BY <1>3, <1>4, <1>5, <1>6 DEF Moves

LEMMA BackKeepsNone ==
    ASSUME BooksInv, mail' = BackToQueue
    PROVE  \A m \in Messages : mail'[m] # "none" <=> mail[m] # "none"
BY DEF BackToQueue, BooksInv, MoveTypeOK

(* Every part of the system.                                                *)
DistInv == /\ BooksInv /\ LevelsInv /\ CountsInv /\ ToldInv /\ AnnouncedInv /\ HouseInv
           /\ plan \in Plans

LEMMA WorldStep ==
    ASSUME DistInv, World
    PROVE  BooksInv' /\ LevelsInv' /\ CountsInv' /\ ToldInv' /\ AnnouncedInv'
<1>0. BooksInv /\ LevelsInv /\ CountsInv /\ ToldInv /\ AnnouncedInv
  BY DEF DistInv
<1>1. PICK d \in Documents : (Happens(d) /\ d \notin Transfers) \/ Adjust(d)
  BY DEF World
<1>2. Moves
  BY <1>1 DEF Moves
<1>3. BooksInv' /\ LevelsInv'
  BY <1>0, <1>2, MovesBooks, MovesLevels
<1>4. MarkMoved /\ UNCHANGED <<count, req, stale>> /\ sent' = sent
  BY DEF World, houseVars, rows
<1>5. CountsInv' /\ ToldInv'
  BY <1>0, <1>2, <1>4, MovesAside, CountsWatch, ToldStays
<1>6. ASSUME NEW x \in Transfers
      PROVE  /\ journal'[x] = journal[x]
             /\ \A k \in Copies : mail'[<<x, k>>] # "none" <=> mail[<<x, k>>] # "none"
  <2>1. x \in References /\ Kind[x] = "transfer" /\ \A k \in Copies : <<x, k>> \in Messages
    BY TransferIs
  <2>2. journal \in [References -> [Places -> Int]] /\ mail \in [Messages -> MailStates]
    BY <1>0 DEF BooksInv, MoveTypeOK
  <2>3. CASE Happens(d) /\ d \notin Transfers
    <3>1. mail' = [mail EXCEPT ![<<d, Min(Copies)>>] = "queued"] /\ journal' = journal /\ x # d
      BY <2>3 DEF Happens
    <3>2. \A k \in Copies : <<x, k>> # <<d, Min(Copies)>>
      BY <3>1
    <3> QED
      BY <2>1, <2>2, <3>1, <3>2
  <2>4. CASE Adjust(d)
    <3>1. mail' = mail /\ x # d /\ journal' = [journal EXCEPT ![d] = Moved(@, d, LinesOf[d])]
      BY <2>1, <2>4 DEF Adjust
    <3> QED
      BY <2>1, <2>2, <3>1
  <2> QED
    BY <1>1, <2>3, <2>4
<1>7. AnnouncedInv'
  BY <1>0, <1>4, <1>6, AnnouncedElse
<1> QED
  BY <1>3, <1>5, <1>7

LEMMA BusStep ==
    ASSUME DistInv, Bus
    PROVE  BooksInv' /\ LevelsInv' /\ CountsInv' /\ ToldInv' /\ AnnouncedInv'
<1>0. BooksInv /\ LevelsInv /\ CountsInv /\ ToldInv /\ AnnouncedInv
  BY DEF DistInv
<1>1. MarkMoved /\ UNCHANGED <<count, req, stale>> /\ sent' = sent
  BY DEF Bus, houseVars, rows
<1>2. \/ \E m \in Messages, i \in Slots : Deliver(m, i) \/ Handle(m, i) \/ Throws(m, i)
      \/ ChannelLost
      \/ \E d \in Documents : TellAdjusted(d)
  <2>1. CASE \E d \in (Documents \cap plan.what) \ plan.late, k \in Copies, i \in Slots :
             LET m == <<d, k>> IN Deliver(m, i) \/ Handle(m, i) \/ Throws(m, i)
    <3>1. PICK d \in (Documents \cap plan.what) \ plan.late, k \in Copies, i \in Slots :
             Deliver(<<d, k>>, i) \/ Handle(<<d, k>>, i) \/ Throws(<<d, k>>, i)
      BY <2>1
    <3>2. <<d, k>> \in Messages
      BY DEF Messages
    <3> QED
      BY <3>1, <3>2
  <2>2. CASE (faults < plan.faults /\ ChannelLost) \/ \E d \in Documents : TellAdjusted(d)
    BY <2>2
  <2> QED
    BY <2>1, <2>2 DEF Bus
<1>3. Moves
  BY <1>2 DEF Moves
<1>4. BooksInv' /\ LevelsInv'
  BY <1>0, <1>3, MovesBooks, MovesLevels
<1>5. CountsInv' /\ ToldInv'
  BY <1>0, <1>1, <1>3, MovesAside, CountsWatch, ToldStays
<1>6. AnnouncedInv'
  <2>1. CASE \E m \in Messages, i \in Slots : Deliver(m, i) \/ Handle(m, i) \/ Throws(m, i)
    BY <1>0, <1>1, <2>1, AnnouncedByHandlers
  <2>2. CASE ChannelLost
    <3>1. \A m \in Messages : mail'[m] # "none" <=> mail[m] # "none"
      BY <1>0, <2>2, BackKeepsNone DEF ChannelLost
    <3>2. journal' = journal
      BY <2>2 DEF ChannelLost
    <3> QED
      BY <1>0, <1>1, <3>1, <3>2, TransferIs, AnnouncedElse
  <2>3. CASE \E d \in Documents : TellAdjusted(d)
    BY <1>0, <1>1, <2>3, AnnouncedElse DEF TellAdjusted
  <2> QED
    BY <1>2, <2>1, <2>2, <2>3
<1> QED
  BY <1>4, <1>5, <1>6

LEMMA RestartStep ==
    ASSUME DistInv, InventoryRestarts
    PROVE  BooksInv' /\ LevelsInv' /\ CountsInv' /\ ToldInv' /\ AnnouncedInv'
<1>0. BooksInv /\ LevelsInv /\ CountsInv /\ ToldInv /\ AnnouncedInv
  BY DEF DistInv
<1>1. /\ Restart /\ req' = [u \in Users |-> Idle] /\ UNCHANGED <<count, stale, ghostVars>>
      /\ sent' = sent
  BY DEF InventoryRestarts, houseVars, rows
<1>2. Moves
  BY <1>1 DEF Moves
<1>3. BooksInv' /\ LevelsInv'
  BY <1>0, <1>2, MovesBooks, MovesLevels
<1>4. UNCHANGED <<shelf, journal>> /\ faults' = faults + 1 /\ mail' = BackToQueue
  BY <1>1 DEF Restart
<1>5. CountsInv'
  BY <1>0, <1>1, <1>4, RestartCounts
<1>6. faults' # 0
  BY <1>0, <1>4, DocumentAssumption DEF BooksInv, MoveTypeOK
<1>7. ToldInv'
  BY <1>6 DEF ToldInv
<1>8. \A m \in Messages : mail'[m] # "none" <=> mail[m] # "none"
  BY <1>0, <1>4, BackKeepsNone
<1>9. AnnouncedInv'
  BY <1>0, <1>1, <1>4, <1>8, TransferIs, AnnouncedElse
<1> QED
  BY <1>3, <1>5, <1>7, <1>9

(* A step that moves nothing in the books.                                  *)
LEMMA MovesIdle ==
    ASSUME BooksInv, LevelsInv, AnnouncedInv, UNCHANGED moveVars, sent' = sent
    PROVE  BooksInv' /\ LevelsInv' /\ AnnouncedInv'
<1>1. /\ UNCHANGED <<onHand, listed, journal, shelf, mail, job, adjusting, told, overlapped, faults>>
      /\ UNCHANGED <<consumed, lost, torn>>
  BY DEF moveVars, saleVars
<1>2. MoveTypeOK
  BY DEF BooksInv
<1>3. BooksInv'
  BY <1>1, <1>2, AsideBooks DEF MoveTypeOK
<1>4. LevelsInv'
  BY <1>1, <1>3, QuietLevels
<1>5. AnnouncedInv'
  BY <1>1, AnnouncedElse
<1> QED
  BY <1>3, <1>4, <1>5

LEMMA SentKept ==
    ASSUME Floor \/ Clerks \/ UNCHANGED vars
    PROVE  sent' = sent
<1>1. CASE Clerks \/ UNCHANGED vars
  BY <1>1 DEF Clerks, vars, houseVars, rows
<1>2. CASE Floor
  <2>1. ASSUME NEW h \in Hands, FloorStep(h) PROVE sent' = sent
    BY <2>1 DEF FloorStep, ChooseBin, AssignBin, ReadBinStock, Confirm, Shelve, FindSources,
       InsertTransfer, TakePick, TellInventory, CheckTransfer, CompleteTransfer, HandFails,
       NothingElse, rows
  <2>2. ASSUME NEW h \in Hands,
               \/ \E t \in Tasks : AskComplete(h, t) \/ \E b \in Bins : AskAssign(h, t, b)
               \/ \E x \in Transfers : AskTransfer(h, x) \/ \E b \in Bins : AskPick(h, x, b)
        PROVE  sent' = sent
    BY <2>2 DEF AskComplete, AskAssign, AskTransfer, AskPick, NothingElse, rows
  <2>3. CASE (\E t \in Tasks : Receive(t)) \/ CreateTask \/ HouseRestarts
    BY <2>3 DEF Receive, CreateTask, HouseRestarts, NothingElse, rows
  <2>4. Arrived \subseteq Tasks
    BY DEF Arrived
  <2> QED
    BY <1>2, <2>1, <2>2, <2>3, <2>4 DEF Floor
<1> QED
  BY <1>1, <1>2

LEMMA FloorMoves ==
    ASSUME DistInv, Floor \/ UNCHANGED vars
    PROVE  BooksInv' /\ LevelsInv' /\ CountsInv' /\ ToldInv' /\ AnnouncedInv'
<1>0. BooksInv /\ LevelsInv /\ CountsInv /\ ToldInv /\ AnnouncedInv
  BY DEF DistInv
<1>1. UNCHANGED moveVars /\ UNCHANGED countVars /\ sent' = sent
  BY SentKept DEF Floor, vars
<1>2. BooksInv' /\ LevelsInv' /\ AnnouncedInv'
  BY <1>0, <1>1, MovesIdle
<1>3. UNCHANGED <<count, req, stale, moved, disturbed, error, onHand, shelf, journal, told, faults>>
  BY <1>1 DEF countVars, moveVars
<1>4. CountsInv'
  <2>1. Grows /\ GhostsOK' /\ Noted
    BY <1>0, <1>3 DEF Grows, Noted, CountsInv, GhostsOK
  <2>2. \A c \in Counts : CountInv(c)' /\ Keeps(c)
    BY <1>0, <1>3, <2>1, CountStays
  <2>3. ASSUME NEW v \in Users PROVE (\A q \in {req[v]} : ReqInv(q))'
    <3>1. PICK q : q = req[v]
      OBVIOUS
    <3>2. q.op # "idle" => q.count \in Counts
      BY <1>0, <3>1 DEF CountsInv, ReqInv, ReqShape
    <3>3. ReqInv(q)'
      BY <1>0, <2>1, <2>2, <3>1, <3>2, ReqStays
    <3> QED
      BY <1>3, <3>1, <3>3
  <2>4. count' = [c \in Counts |-> count'[c]] /\ req' = [u \in Users |-> req'[u]]
    BY <1>0, <1>3 DEF CountsInv
  <2>5. OneOpens'
    BY <1>0, <1>3 DEF OneOpens, Opens, CountsInv
  <2> QED
    BY <2>1, <2>2, <2>3, <2>4, <2>5 DEF CountsInv
<1>5. ToldInv'
  BY <1>0, <1>3, ToldStays
<1> QED
  BY <1>2, <1>4, <1>5

LEMMA AnnounceStep ==
    ASSUME DistInv, Announce
    PROVE  BooksInv' /\ LevelsInv' /\ CountsInv' /\ ToldInv' /\ AnnouncedInv'
<1>0. BooksInv /\ LevelsInv /\ CountsInv /\ ToldInv /\ AnnouncedInv /\ HouseInv
  BY DEF DistInv
<1>1. PICK h \in Hands, k \in Copies :
         /\ PublishTransfer(h)
         /\ IF sent[hand[h].transfer] = 0 THEN Happens(hand[h].transfer)
                                         ELSE AnnouncedAgain(hand[h].transfer, k)
         /\ MarkMoved /\ UNCHANGED <<count, req, stale>>
  BY DEF Announce
<1>2. PICK x : x = hand[h].transfer
  OBVIOUS
<1>3. x \in Transfers
  <2>1. PICK r : r = hand[h]
    OBVIOUS
  <2>2. Shape(r)
    BY <1>0, <2>1 DEF HouseInv, HandInv
  <2>3. r.op = "publish"
    BY <1>1, <2>1 DEF PublishTransfer, IsAt
  <2> QED
    BY <1>2, <2>1, <2>2, <2>3 DEF Shape, TransferOps
<1>4. Happens(x) \/ AnnouncedAgain(x, k)
  BY <1>1, <1>2
<1>5. Moves
  BY <1>3, <1>4, TransferIs DEF Moves
<1>6. BooksInv' /\ LevelsInv'
  BY <1>0, <1>5, MovesBooks, MovesLevels
<1>7. CountsInv' /\ ToldInv'
  BY <1>0, <1>1, <1>5, MovesAside, CountsWatch, ToldStays
<1>8. sent' = [sent EXCEPT ![x] = @ + 1] /\ sent \in [Transfers -> Nat]
  BY <1>0, <1>1, <1>2 DEF PublishTransfer, HouseInv, HouseTypeOK
<1>9. AnnouncedInv'
  BY <1>0, <1>3, <1>4, <1>8, AnnouncedByPicker
<1> QED
  BY <1>6, <1>7, <1>9

-----------------------------------------------------------------------------
(* The clerks' steps that move nothing.                                     *)
Looking(u) ==
    \/ \E c \in Counts :
          \/ OpenCount(u, c) \/ Post(u, c) \/ Cancel(u, c)
          \/ \E s \in Skus : RecordCount(u, c, s)
          \/ \E h \in {"reject", "skip", "zero"} : Submit(u, c, h)
    \/ FreezeLines(u) \/ InsertCount(u) \/ UpdateLine(u) \/ FindAdded(u) \/ AddLine(u)
    \/ WriteSubmitted(u) \/ WriteCancelled(u)

LEMMA LookingCounts ==
    ASSUME BooksInv, CountsInv, NEW u \in Users, Looking(u)
    PROVE  CountsInv'
<1>1. ASSUME NEW c \in Counts, OpenCount(u, c) \/ Post(u, c) \/ Cancel(u, c) PROVE CountsInv'
  BY <1>1, OpenCountCounts, PostCounts, CancelCounts
<1>2. ASSUME NEW c \in Counts, NEW s \in Skus, RecordCount(u, c, s) PROVE CountsInv'
  BY <1>2, RecordCountCounts
<1>3. ASSUME NEW c \in Counts, NEW h, Submit(u, c, h) PROVE CountsInv'
  BY <1>3, SubmitCounts
<1>4. CASE FreezeLines(u) \/ InsertCount(u) \/ UpdateLine(u) \/ FindAdded(u) \/ AddLine(u)
           \/ WriteSubmitted(u) \/ WriteCancelled(u)
  BY <1>4, FreezeLinesCounts, InsertCountCounts, UpdateLineCounts, FindAddedCounts, AddLineCounts,
     WriteSubmittedCounts, WriteCancelledCounts
<1> QED
  BY <1>1, <1>2, <1>3, <1>4 DEF Looking

LEMMA LookingMoves ==
    ASSUME NEW u \in Users, Looking(u)
    PROVE  /\ UNCHANGED moveVars /\ req[u].op # "tell"
           /\ \E r : req' = [req EXCEPT ![u] = r] /\ r.op # "tell"
<1>1. ASSUME NEW r, Ask(u, r), r.op # "tell"
      PROVE  req[u].op # "tell" /\ \E q : req' = [req EXCEPT ![u] = q] /\ q.op # "tell"
  BY <1>1 DEF Ask
<1>2. Idle.op # "tell"
  BY DEF Idle
<1>3. ASSUME NEW c \in Counts, OpenCount(u, c) \/ Post(u, c) \/ Cancel(u, c)
      PROVE  \E r : Ask(u, r) /\ r.op # "tell" /\ UNCHANGED moveVars
  BY <1>3 DEF OpenCount, Post, Cancel, MovesQuietly
<1>4. ASSUME NEW c \in Counts, NEW s \in Skus, RecordCount(u, c, s)
      PROVE  \E r : Ask(u, r) /\ r.op # "tell" /\ UNCHANGED moveVars
  <2>1. PICK o : o = IF s \in DOMAIN count[c].lines THEN "line" ELSE "find"
    OBVIOUS
  <2>2. Ask(u, [op |-> o, count |-> c, sku |-> s, found |-> shelf[Place(c, s)]])
        /\ UNCHANGED moveVars
    BY <1>4, <2>1 DEF RecordCount, MovesQuietly
  <2> QED
    BY <2>1, <2>2
<1>5. ASSUME NEW c \in Counts, NEW h, Submit(u, c, h)
      PROVE  \E r : Ask(u, r) /\ r.op # "tell" /\ UNCHANGED moveVars
  <2>1. PICK o : o = IF h = "zero" /\ Missing(c) # {} THEN "zero" ELSE "submit"
    OBVIOUS
  <2>2. Ask(u, [op |-> o, count |-> c]) /\ UNCHANGED moveVars
    BY <1>5, <2>1 DEF Submit, MovesQuietly
  <2> QED
    BY <2>1, <2>2
<1>6. CASE InsertCount(u) \/ UpdateLine(u) \/ AddLine(u) \/ WriteSubmitted(u) \/ WriteCancelled(u)
  <2>1. req' = [req EXCEPT ![u] = Idle] /\ UNCHANGED moveVars
    BY <1>6 DEF InsertCount, UpdateLine, AddLine, WriteSubmitted, WriteCancelled, Answer, MovesQuietly
  <2>2. req[u].op # "tell"
    BY <1>6 DEF InsertCount, UpdateLine, AddLine, WriteSubmitted, WriteCancelled, Doing
  <2> QED
    BY <1>2, <2>1, <2>2
<1>7. CASE FreezeLines(u) \/ FindAdded(u)
  <2>1. UNCHANGED moveVars /\ req[u].op # "tell"
    BY <1>7 DEF FreezeLines, FindAdded, Doing, MovesQuietly
  <2>2. PICK q : q = req[u]
    OBVIOUS
  <2>3. CASE FreezeLines(u)
    <3>1. PICK r : r = [op |-> "insert", count |-> q.count,
                        lines |-> [s \in Scope[q.count] |-> Freeze(q.count, s)]]
      OBVIOUS
    <3>2. req' = [req EXCEPT ![u] = Idle] \/ req' = [req EXCEPT ![u] = r]
      BY <2>2, <2>3, <3>1 DEF FreezeLines, Answer, Then
    <3> QED
      BY <1>2, <2>1, <3>1, <3>2
  <2>4. CASE FindAdded(u)
    <3>1. PICK b : b = (/\ ~ Unbooked(Place(q.count, q.sku))
                        /\ q.found = shelf[Place(q.count, q.sku)])
      OBVIOUS
    <3>2. PICK r : r = [op |-> "add", count |-> q.count, sku |-> q.sku, found |-> q.found,
                        expected |-> onHand[Place(q.count, q.sku)],
                        error |-> ErrorAt(q.count, q.sku), clean |-> b]
      OBVIOUS
    <3>3. req' = [req EXCEPT ![u] = Idle] \/ req' = [req EXCEPT ![u] = r]
      BY <2>2, <2>4, <3>1, <3>2 DEF FindAdded, Answer, Then
    <3> QED
      BY <1>2, <2>1, <3>2, <3>3
  <2> QED
    BY <1>7, <2>3, <2>4
<1> QED
  BY <1>1, <1>3, <1>4, <1>5, <1>6, <1>7 DEF Looking

LEMMA PostedTold ==
    ASSUME BooksInv, BooksInv', CountsInv, CountsInv', ToldInv, NEW u \in Users, CommitPost(u)
    PROVE  ToldInv'
<1>1. PICK c \in Counts : \E change \in [Places -> Int] :
              /\ req[u].op = "post" /\ c = req[u].count /\ change = Variances(c, req[u].lines)
              /\ UNCHANGED <<listed, shelf, mail, job, adjusting, told, overlapped, faults, saleVars>>
              /\ MarkMoved
              /\ \/ Answer(u) /\ UNCHANGED <<onHand, journal, count, stale>>
                 \/ /\ onHand' = Sum(onHand, change)
                    /\ journal' = [journal EXCEPT ![c] = Sum(journal[c], change)]
                    /\ count' = [count EXCEPT ![c].status = "POSTED"]
                    /\ stale' = Late(c, "SUBMITTED")
                    /\ \/ Answer(u) /\ change = NoDelta
                       \/ req' = [req EXCEPT ![u] = [op |-> "tell", count |-> c, change |-> change]]
  BY CommitPostIs
<1>2. PICK change \in [Places -> Int] :
              /\ req[u].op = "post" /\ UNCHANGED <<told, faults>>
              /\ \/ Answer(u) /\ UNCHANGED journal
                 \/ /\ journal' = [journal EXCEPT ![c] = Sum(journal[c], change)]
                    /\ \/ Answer(u) /\ change = NoDelta
                       \/ req' = [req EXCEPT ![u] = [op |-> "tell", count |-> c, change |-> change]]
  BY <1>1
<1>3. /\ journal \in [References -> [Places -> Int]] /\ told \in [References -> [Places -> Int]]
      /\ \A d \in Counts : d \in References
  BY DEF BooksInv, MoveTypeOK, References
<1>4. \A v \in Users \ {u} : req'[v] = req[v]
  BY <1>2 DEF Answer, CountsInv
<1>5. \A d, p : ToTell(req[u], d, p) = 0
  BY <1>2 DEF ToTell
<1>6. ASSUME NEW d \in Counts, NEW p \in Places
      PROVE  journal'[d][p] - told'[d][p]
                = journal[d][p] - told[d][p] + ToTell(req'[u], d, p) - ToTell(req[u], d, p)
  <2>1. journal[d][p] \in Int /\ told'[d][p] = told[d][p] /\ told[d][p] \in Int /\ change[p] \in Int
    BY <1>2, <1>3
  <2>2. Answer(u) => ToTell(req'[u], d, p) = 0
    BY DEF Answer, ToTell, Idle, CountsInv
  <2>3. CASE Answer(u) /\ UNCHANGED journal
    BY <1>5, <2>1, <2>2, <2>3
  <2>4. CASE /\ journal' = [journal EXCEPT ![c] = Sum(journal[c], change)]
             /\ \/ Answer(u) /\ change = NoDelta
                \/ req' = [req EXCEPT ![u] = [op |-> "tell", count |-> c, change |-> change]]
    <3>1. journal'[d][p] = IF d = c THEN journal[d][p] + change[p] ELSE journal[d][p]
      BY <1>3, <2>4 DEF Sum
    <3>2. ToTell(req'[u], d, p) = IF d = c THEN change[p] ELSE 0
      <4>1. CASE Answer(u) /\ change = NoDelta
        BY <2>2, <4>1 DEF NoDelta
      <4>2. CASE req' = [req EXCEPT ![u] = [op |-> "tell", count |-> c, change |-> change]]
        <5>1. PICK r : r = [op |-> "tell", count |-> c, change |-> change]
          OBVIOUS
        <5>2. req'[u] = r /\ r.op = "tell" /\ r.count = c /\ r.change = change
          BY <4>2, <5>1 DEF CountsInv
        <5> QED
          BY <5>2 DEF ToTell
      <4> QED
        BY <2>4, <4>1, <4>2
    <3> QED
      BY <1>5, <2>1, <3>1, <3>2
  <2> QED
    BY <1>2, <2>3, <2>4
<1> QED
  BY <1>2, <1>4, <1>6, ToldMoves

LEMMA TellPostedTold ==
    ASSUME BooksInv, BooksInv', CountsInv, CountsInv', ToldInv, NEW u \in Users, TellPosted(u)
    PROVE  ToldInv'
<1>1. req[u].op = "tell" /\ UNCHANGED <<journal, faults>> /\ req' = [req EXCEPT ![u] = Idle]
  BY DEF TellPosted, Doing, Answer
<1>2. PICK c \in Counts : c = req[u].count
  BY <1>1, Request
<1>3. PICK q : q = req[u]
  OBVIOUS
<1>4. q.change \in [Places -> Int] /\ q.op = "tell" /\ q.count = c
  <2>1. ReqShape(q)
    BY <1>1, <1>3, Request DEF ReqInv
  <2> QED
    BY <1>1, <1>2, <1>3, <2>1 DEF ReqShape
<1>5. told' = [told EXCEPT ![c] = Sum(told[c], q.change)]
  BY <1>2, <1>3 DEF TellPosted
<1>6. /\ journal \in [References -> [Places -> Int]] /\ told \in [References -> [Places -> Int]]
      /\ \A d \in Counts : d \in References
  BY DEF BooksInv, MoveTypeOK, References
<1>7. req'[u] = Idle /\ \A v \in Users \ {u} : req'[v] = req[v]
  BY <1>1 DEF CountsInv
<1>8. ASSUME NEW d \in Counts, NEW p \in Places
      PROVE  journal'[d][p] - told'[d][p]
                = journal[d][p] - told[d][p] + ToTell(req'[u], d, p) - ToTell(req[u], d, p)
  <2>1. journal[d][p] \in Int /\ told[d][p] \in Int /\ journal'[d][p] = journal[d][p]
        /\ q.change[p] \in Int
    BY <1>1, <1>4, <1>6
  <2>2. told'[d][p] = IF d = c THEN told[d][p] + q.change[p] ELSE told[d][p]
    BY <1>5, <1>6 DEF Sum
  <2>3. ToTell(req[u], d, p) = IF d = c THEN q.change[p] ELSE 0
    BY <1>3, <1>4 DEF ToTell
  <2>4. ToTell(req'[u], d, p) = 0
    BY <1>7 DEF ToTell, Idle
  <2> QED
    BY <2>1, <2>2, <2>3, <2>4
<1> QED
  BY <1>1, <1>7, <1>8, ToldMoves

LEMMA ClerksStep ==
    ASSUME DistInv, Clerks
    PROVE  BooksInv' /\ LevelsInv' /\ CountsInv' /\ ToldInv' /\ AnnouncedInv'
<1>0. BooksInv /\ LevelsInv /\ CountsInv /\ ToldInv /\ AnnouncedInv
  BY DEF DistInv
<1>1. sent' = sent
  BY SentKept
<1>2. PICK u \in Users : Looking(u) \/ CommitPost(u) \/ TellPosted(u)
  BY DEF Clerks, Looking
<1>3. CASE Looking(u)
  <2>1. CountsInv'
    BY <1>0, <1>3, LookingCounts
  <2>2. UNCHANGED moveVars /\ req[u].op # "tell"
    BY <1>3, LookingMoves
  <2>3. PICK r : req' = [req EXCEPT ![u] = r] /\ r.op # "tell"
    BY <1>3, LookingMoves
  <2>4. BooksInv' /\ LevelsInv' /\ AnnouncedInv'
    BY <1>0, <1>1, <2>2, MovesIdle
  <2>5. UNCHANGED <<journal, told, faults>>
    BY <2>2 DEF moveVars
  <2>6. ToldInv'
    BY <1>0, <2>1, <2>2, <2>3, <2>4, <2>5, ToldQuiet
  <2> QED
    BY <2>1, <2>4, <2>6
<1>4. CASE CommitPost(u)
  <2>1. BooksInv' /\ LevelsInv' /\ \A d \in Documents : journal'[d] = journal[d]
    BY <1>0, <1>4, CommitPostBooks
  <2>2. CountsInv'
    BY <1>0, <1>4, CommitPostCounts
  <2>3. ToldInv'
    BY <1>0, <1>4, <2>1, <2>2, PostedTold
  <2>4. mail' = mail
    BY <1>4 DEF CommitPost
  <2>5. AnnouncedInv'
    BY <1>0, <1>1, <2>1, <2>4, TransferIs, AnnouncedElse
  <2> QED
    BY <2>1, <2>2, <2>3, <2>5
<1>5. CASE TellPosted(u)
  <2>1. /\ UNCHANGED <<onHand, listed, journal, shelf, mail, job, adjusting, overlapped, faults>>
        /\ UNCHANGED <<consumed, lost, torn>>
        /\ told' = [told EXCEPT ![req[u].count] = Sum(@, req[u].change)]
    BY <1>5 DEF TellPosted, saleVars
  <2>2. MoveTypeOK /\ req[u].count \in Counts /\ req[u].change \in [Places -> Int]
    <3>1. ReqInv(req[u]) /\ req[u].op = "tell" /\ req[u].count \in Counts
      BY <1>0, <1>5, Request DEF TellPosted, Doing
    <3>2. ReqShape(req[u])
      BY <3>1 DEF ReqInv
    <3> QED
      BY <1>0, <3>1, <3>2 DEF ReqShape, BooksInv
  <2>3. told' \in [References -> [Places -> Int]] /\ \A d \in Documents : told'[d] = told[d]
    <3>1. told \in [References -> [Places -> Int]]
      BY <2>2 DEF MoveTypeOK
    <3>2. PICK c, f : c = req[u].count /\ f = Sum(told[c], req[u].change)
      OBVIOUS
    <3>3. c \in References /\ c \notin Documents /\ Documents \subseteq References
      BY <2>2, <3>2, DocumentAssumption DEF References
    <3>4. f \in [Places -> Int]
      BY <2>2, <3>1, <3>2, <3>3, SumTyped
    <3>5. told' = [told EXCEPT ![c] = f]
      BY <2>1, <3>2
    <3> QED
      BY <3>1, <3>3, <3>4, <3>5
  <2>4. BooksInv'
    BY <1>0, <2>1, <2>2, <2>3, AsideBooks DEF MoveTypeOK
  <2>5. LevelsInv'
    BY <1>0, <2>1, <2>4, QuietLevels
  <2>6. AnnouncedInv'
    BY <1>0, <1>1, <2>1, AnnouncedElse
  <2>7. CountsInv'
    BY <1>0, <1>5, TellPostedCounts
  <2>8. ToldInv'
    BY <1>0, <1>5, <2>4, <2>7, TellPostedTold
  <2> QED
    BY <2>4, <2>5, <2>6, <2>7, <2>8
<1> QED
  BY <1>2, <1>3, <1>4, <1>5

LEMMA DistStep ==
    ASSUME DistInv, [Next]_vars
    PROVE  DistInv'
<1>1. HouseInv'
  BY HouseStep DEF DistInv
<1>2. plan' \in Plans
  BY DEF DistInv, Next, Within, vars
<1>3. BooksInv' /\ LevelsInv' /\ CountsInv' /\ ToldInv' /\ AnnouncedInv'
  BY WorldStep, BusStep, ClerksStep, RestartStep, FloorMoves, AnnounceStep DEF Next
<1> QED
  BY <1>1, <1>2, <1>3 DEF DistInv

-----------------------------------------------------------------------------
(* The beginning.                                                           *)
LEMMA BooksStart ==
    ASSUME MoveInit
    PROVE  BooksInv
<1>1. /\ onHand = Opening /\ shelf = Found /\ listed = Listed
      /\ journal = [r \in References |-> NoDelta] /\ told = journal
      /\ mail = [m \in Messages |-> "none"]
      /\ job = [m \in Messages |-> [i \in Slots |-> Off]]
      /\ adjusting = {} /\ overlapped = {} /\ faults = 0
  BY DEF MoveInit
<1>2. MoveTypeOK
  <2>1. NoDelta \in [Places -> Int] /\ Off \in JobRec
    BY DEF NoDelta, Off, JobRec, Steps
  <2>2. journal \in [References -> [Places -> Int]] /\ told \in [References -> [Places -> Int]]
    BY <1>1, <2>1
  <2>3. job \in [Messages -> [Slots -> JobRec]] /\ mail \in [Messages -> MailStates]
    BY <1>1, <2>1 DEF MailStates
  <2>4. onHand \in [Places -> Int] /\ shelf \in [Places -> Int]
    BY <1>1, DocumentAssumption
  <2>5. listed \in SUBSET Skus /\ adjusting \in SUBSET Documents /\ overlapped \in SUBSET Documents
        /\ faults \in 0..MaxFaults
    BY <1>1, DocumentAssumption
  <2> QED
    BY <2>2, <2>3, <2>4, <2>5 DEF MoveTypeOK, JobRec
<1>3. \A m \in Messages, i \in Slots : job[m][i].step = "off" /\ mail[m] = "none"
  BY <1>1 DEF Off
<1>4. JobsInv /\ LettersInv /\ OneHandler
  <2>1. ASSUME NEW m \in Messages, NEW i \in Slots, NEW r \in {job[m][i]} PROVE JobOK(m, r)
    <3>1. r.step = "off"
      BY <1>3
    <3> QED
      BY <3>1 DEF JobOK
  <2>2. LettersInv
    BY <1>1 DEF LettersInv
  <2>3. OneHandler
    BY <1>3 DEF OneHandler
  <2> QED
    BY <2>1, <2>2, <2>3 DEF JobsInv
<1>5. \A d \in Documents : journal[d] = NoDelta /\ told[d] = NoDelta
  BY <1>1 DEF References
<1>6. RowsInv
  BY <1>5 DEF RowsInv, Towards, NoDelta
<1>7. AdjustedInv
  BY <1>1, <1>5 DEF AdjustedInv
<1> QED
  BY <1>1, <1>2, <1>4, <1>6, <1>7 DEF BooksInv

LEMMA RestStarts ==
    ASSUME MoveInit, CountInit, HouseInit, BooksInv
    PROVE  LevelsInv /\ CountsInv /\ ToldInv /\ AnnouncedInv
<1>1. /\ onHand = Opening /\ journal = [r \in References |-> NoDelta] /\ told = journal
      /\ mail = [m \in Messages |-> "none"]
      /\ job = [m \in Messages |-> [i \in Slots |-> Off]]
      /\ faults = 0
  BY DEF MoveInit
<1>2. /\ count = [c \in Counts |-> [status |-> "none", lines |-> NoLines]]
      /\ req = [u \in Users |-> Idle]
      /\ stale = {} /\ disturbed = {} /\ moved = {}
      /\ error = [c \in Counts |-> [s \in Skus |-> 0]]
  BY DEF CountInit
<1>3. sent = [x \in Transfers |-> 0]
  BY DEF HouseInit
<1>4. \A r \in References : \A p \in Places : journal[r][p] = 0 /\ told[r][p] = 0
  BY <1>1 DEF NoDelta
<1>5. LevelsInv
  <2>0. /\ consumed = {} /\ torn = {} /\ overlapped = {}
        /\ lost = [m \in Messages |-> [i \in Slots |-> NoDelta]]
    BY DEF MoveInit
  <2>1. lost \in Ledgers /\ \A m \in Messages, i \in Slots, p \in Places : lost[m][i][p] = 0
    BY <2>0 DEF NoDelta, Ledgers
  <2>2. \A m \in Messages, i \in Slots : job[m][i] = Off
    BY <1>1
  <2>3. ASSUME NEW p \in Places PROVE Balance(p) = Opening[p]
    <3>1. PICK f, g : f = Column(journal, p) /\ g = Owings(job, lost, p)
      OBVIOUS
    <3>2. \A r \in References : f[r] = 0
      BY <1>4, <3>1 DEF Column
    <3>3. \A x \in Handlers : g[x] = 0
      BY <2>1, <2>2, <3>1 DEF Owings, Owing, Owes, Off, Handlers
    <3>4. SumFunctionOnSet(f, References) = 0 /\ SumFunctionOnSet(g, Handlers) = 0
      BY <3>2, <3>3, SumZero, FinitelyMany, DocumentAssumption
    <3>5. Opening[p] \in Nat
      BY DocumentAssumption
    <3> QED
      BY <3>1, <3>4, <3>5 DEF Balance
  <2>4. BalanceInv
    BY <1>1, <2>1, <2>3 DEF BalanceInv
  <2>5. SaleTypeOK /\ LinesInv /\ NoneLost
    BY <2>0, <2>1 DEF SaleTypeOK, LinesInv, NoneLost, Ledgers
  <2>6. MarkInv
    BY <2>0 DEF MarkInv
  <2>7. OnceInv
    <3> SUFFICES ASSUME NEW d \in Documents
                 PROVE  /\ \A k \in Starts(d) : \A p \in PlacesOf(UnitAt(d, k)) : Clean(d, p)
                        /\ \A p \in Places : Once(d, p)
      BY DEF OnceInv
    <3>1. \A p \in Places : journal[d][p] = 0
      BY <1>4 DEF References
    <3>2. \A p \in Places : Clean(d, p) /\ Once(d, p)
      BY <2>1, <3>1 DEF Clean, Once
    <3> QED
      BY <3>2, UnitIs
  <2> QED
    BY <2>4, <2>5, <2>6, <2>7 DEF LevelsInv, SalesInv
<1>6. CountsInv
  <2>1. \A u \in Users : req[u].op = "idle"
    BY <1>2 DEF Idle
  <2>2. \A u \in Users : \A r \in {req[u]} : ReqInv(r)
    BY <2>1 DEF ReqInv, ReqShape, Requests
  <2>3. ASSUME NEW c \in Counts PROVE CountInv(c)
    <3>1. count[c] = [status |-> "none", lines |-> NoLines]
      BY <1>2
    <3>2. count[c].status = "none" /\ count[c].lines = NoLines /\ DOMAIN NoLines = {}
      BY <3>1 DEF NoLines
    <3>3. IsLines(NoLines)
      <4>1. NoLines = [s \in {} |-> NoLines[s]]
        BY DEF NoLines
      <4> QED
        BY <3>2, <4>1 DEF IsLines
    <3>4. journal[c] = NoDelta
      BY <1>1 DEF References
    <3> QED
      BY <3>1, <3>2, <3>3, <3>4 DEF CountInv, Statuses
  <2>4. GhostsOK
    BY <1>2 DEF GhostsOK
  <2>5. OneOpens
    BY <2>1 DEF OneOpens, Opens
  <2>6. count = [c \in Counts |-> count[c]] /\ req = [u \in Users |-> req[u]]
    BY <1>2
  <2> QED
    BY <2>2, <2>3, <2>4, <2>5, <2>6 DEF CountsInv
<1>7. ToldInv
  <2>1. ASSUME NEW c \in Counts, NEW p \in Places
        PROVE  SumFunctionOnSet(Yet(req, c, p), Users) = 0
    <3>1. PICK f : f = Yet(req, c, p)
      OBVIOUS
    <3>2. \A u \in Users : f[u] = 0
      BY <1>2, <3>1 DEF Yet, ToTell, Idle
    <3> QED
      BY <3>1, <3>2, SumZero, CountAssumption
  <2>2. \A c \in Counts : c \in References
    BY DEF References
  <2> QED
    BY <1>4, <2>1, <2>2 DEF ToldInv
<1>8. AnnouncedInv
  <2>1. ASSUME NEW x \in Transfers, NEW s \in Skus
        PROVE  SumFunctionOnSet(Across(journal[x], s), Sites) = 0
    <3>1. PICK f : f = Across(journal[x], s)
      OBVIOUS
    <3>2. \A l \in Sites : f[l] = 0
      BY <1>4, <3>1, TransferIs DEF Across, Places
    <3> QED
      BY <3>1, <3>2, SumZero, DocumentAssumption
  <2>2. \A x \in Transfers : journal[x] = NoDelta /\ \A k \in Copies : mail[<<x, k>>] = "none"
    BY <1>1, TransferIs
  <2> QED
    BY <2>1, <2>2 DEF AnnouncedInv
<1> QED
  BY <1>5, <1>6, <1>7, <1>8

(* The inductive invariant of goods, books, counts and bins together.       *)
THEOREM DistributionInvariant == Spec => []DistInv
<1>1. Init => DistInv
  BY BooksStart, RestStarts, HouseStarts DEF Init, DistInv
<1>2. DistInv /\ [Next]_vars => DistInv'
  BY DistStep
<1> QED
  BY <1>1, <1>2, PTL DEF Spec

(* Every variable of the books, the counts and the floor keeps its type.    *)
THEOREM DistributionTyped == Spec => []TypeOK
<1>1. ASSUME DistInv PROVE TypeOK
  <2>1. MoveTypeOK /\ SaleTypeOK /\ HouseTypeOK /\ plan \in Plans
    BY <1>1 DEF DistInv, BooksInv, HouseInv, LevelsInv, SalesInv
  <2>2. CountsInv
    BY <1>1 DEF DistInv
  <2>3. \A c \in Counts : count[c].status \in Statuses /\ DOMAIN count[c].lines \subseteq Skus
    BY <2>2 DEF CountsInv, CountInv, IsLines
  <2>4. \A u \in Users : req[u].op \in Requests
    BY <2>2 DEF CountsInv, ReqInv, ReqShape
  <2>5. CountTypeOK
    BY <2>2, <2>3, <2>4 DEF CountTypeOK, CountsInv, GhostsOK
  <2> QED
    BY <2>1, <2>5 DEF TypeOK
<1> QED
  BY <1>1, DistributionInvariant, PTL

(* A transfer, return or sale whose handlers never overlapped moves each    *)
(* place at most once, written down or broken off before, under redelivery, *)
(* failures and restarts; and an acknowledged message has been applied, but *)
(* for lines of a sale torn behind their mark (stock.service.ts:299-451).   *)
THEOREM AnnouncedMovesOnce == Spec => []MovedOnce
<1>1. ASSUME DistInv PROVE MovedOnce
  <2>1. BooksInv /\ SalesInv /\ lost \in Ledgers
    BY <1>1 DEF DistInv, LevelsInv, BalanceInv
  <2>2. ASSUME NEW d \in Documents \ overlapped, Kind[d] # "receipt", NEW p \in Places,
               NEW holds, holds = {x \in Handlers : x[1][1] = d /\ Unwritten(x, p) # 0}
        PROVE  /\ journal[d][p] \in {0, Delta(d, p)}
               /\ \A x \in holds : /\ Unwritten(x, p) = Delta(d, p) /\ journal[d][p] = 0
                                   /\ holds = {x}
    <3>1. \A m \in Messages, i \in Slots : m[1] = d =>
             Unwritten(<<m, i>>, p) = lost[m][i][p] + IF Owes(job, <<m, i>>, p) THEN Delta(d, p) ELSE 0
      BY UnwrittenIs DEF Owing
    <3>2. Delta(d, p) \in Int /\ \A m \in Messages, i \in Slots : lost[m][i][p] \in Int
      BY <2>1, DeltaIs DEF Ledgers
    <3>3. CASE Kind[d] # "sale"
      <4>1. \A m \in Messages, i \in Slots : m[1] = d =>
               lost[m][i][p] = 0 /\ ~ Owes(job, <<m, i>>, p)
        BY <2>1, <2>2, <3>3, AtRow DEF SalesInv, NoneLost
      <4>2. holds = {}
        BY <2>2, <3>1, <4>1 DEF Handlers
      <4> QED
        BY <2>1, <2>2, <3>3, <4>2 DEF BooksInv, RowsInv
    <3>4. CASE Kind[d] = "sale"
      <4>1. /\ \A k \in Starts(d) : Fresh(d, k) => \A q \in PlacesOf(UnitAt(d, k)) : Clean(d, q)
            /\ Once(d, p)
        BY <2>1, <2>2, <3>4 DEF SalesInv, OnceInv
      <4>2. CASE ~ \E m \in Messages, i \in Slots : m[1] = d /\ Owes(job, <<m, i>>, p)
        <5>1. \A m \in Messages, i \in Slots : m[1] = d => Unwritten(<<m, i>>, p) = lost[m][i][p]
          BY <3>1, <3>2, <4>2
        <5>2. ASSUME NEW x \in holds
              PROVE  Unwritten(x, p) = Delta(d, p) /\ journal[d][p] = 0 /\ holds = {x}
          <6>1. PICK m \in Messages, i \in Slots : x = <<m, i>> /\ m[1] = d /\ lost[m][i][p] # 0
            BY <2>2, <5>1, <5>2 DEF Handlers
          <6>2. \A y \in holds : y = x
            <7> SUFFICES ASSUME NEW y \in holds PROVE y = x
              OBVIOUS
            <7>1. PICK n \in Messages, j \in Slots : y = <<n, j>> /\ n[1] = d /\ lost[n][j][p] # 0
              BY <2>2, <5>1 DEF Handlers
            <7> QED
              BY <4>1, <6>1, <7>1 DEF Once
          <6> QED
            BY <4>1, <5>1, <5>2, <6>1, <6>2 DEF Once
        <5> QED
          BY <4>1, <5>2 DEF Once
      <4>3. ASSUME NEW m \in Messages, NEW i \in Slots, m[1] = d, Owes(job, <<m, i>>, p)
            PROVE  /\ journal[d][p] = 0 /\ holds \subseteq {<<m, i>>}
                   /\ Unwritten(<<m, i>>, p) = Delta(d, p)
        <5>1. /\ p \in PlacesOf(UnitAt(d, job[m][i].at)) /\ job[m][i].at \in Starts(d)
              /\ UnderWay(m, i, <<d, job[m][i].at>>) /\ job[m][i].step = "row"
          BY <2>1, <3>4, <4>3, AtRow
        <5>2. Clean(d, p)
          BY <4>1, <5>1 DEF Fresh
        <5>3. \A n \in Messages, j \in Slots : n[1] = d /\ Owes(job, <<n, j>>, p) => n = m /\ j = i
          BY <2>1, <2>2, <4>3, <5>1 DEF BooksInv, OneHandler, Owes
        <5>4. \A n \in Messages, j \in Slots : n[1] = d => lost[n][j][p] = 0
          BY <5>2 DEF Clean
        <5>5. \A n \in Messages, j \in Slots :
                 n[1] = d /\ Unwritten(<<n, j>>, p) # 0 => n = m /\ j = i
          BY <3>1, <5>3, <5>4
        <5>6. Unwritten(<<m, i>>, p) = Delta(d, p)
          BY <3>1, <3>2, <4>3, <5>4
        <5> QED
          BY <2>2, <5>2, <5>5, <5>6 DEF Clean, Handlers
      <4> QED
        BY <4>2, <4>3
    <3> QED
      BY <3>3, <3>4
  <2>3. ASSUME NEW m \in Messages, mail[m] = "acked", NEW j \in Starts(m[1])
        PROVE  LET u == UnitAt(m[1], j)
               IN  \/ Applied(m[1], u)
                   \/ Kind[m[1]] \in {"transfer", "return"} /\ SkuOf(u) \notin Listed
                   \/ /\ Kind[m[1]] = "sale"
                      /\ \/ <<m[1], j>> \in torn
                         \/ \E k \in Copies, i \in Slots : UnderWay(<<m[1], k>>, i, <<m[1], j>>)
    <3>1. Booked(m[1], j) /\ Kind[m[1]] # "adjustment" /\ m[1] \in Documents
      BY <2>1, <2>3 DEF BooksInv, LettersInv, Messages
    <3>2. Kind[m[1]] \in Kinds
      BY <3>1, DocumentAssumption
    <3>3. CASE Kind[m[1]] # "sale"
      BY <3>1, <3>2, <3>3 DEF Booked, Kinds
    <3>4. CASE Kind[m[1]] = "sale"
      <4>1. \/ Applied(m[1], UnitAt(m[1], j))
            \/ <<m[1], j>> \in torn
            \/ \E n \in Messages, i \in Slots : UnderWay(n, i, <<m[1], j>>)
        BY <2>1, <3>1, <3>4 DEF Booked, SalesInv, LinesInv
      <4>2. ASSUME NEW n \in Messages, NEW i \in Slots, UnderWay(n, i, <<m[1], j>>)
            PROVE  \E k \in Copies : n = <<m[1], k>>
        BY <4>2 DEF UnderWay, LineOf, Messages
      <4> QED
        BY <3>4, <4>1, <4>2
    <3> QED
      BY <3>3, <3>4
  <2>4. \A d \in Documents \ overlapped : Kind[d] # "receipt" => \A p \in Places :
           /\ journal[d][p] \in {0, Delta(d, p)}
           /\ LET holds == {x \in Messages \X Slots : x[1][1] = d /\ Unwritten(x, p) # 0}
              IN  \A x \in holds : /\ Unwritten(x, p) = Delta(d, p)
                                   /\ journal[d][p] = 0
                                   /\ holds = {x}
    <3> SUFFICES ASSUME NEW d \in Documents \ overlapped, Kind[d] # "receipt", NEW p \in Places
                 PROVE  /\ journal[d][p] \in {0, Delta(d, p)}
                        /\ LET holds == {x \in Messages \X Slots : x[1][1] = d /\ Unwritten(x, p) # 0}
                           IN  \A x \in holds : /\ Unwritten(x, p) = Delta(d, p)
                                                /\ journal[d][p] = 0
                                                /\ holds = {x}
      OBVIOUS
    <3>1. PICK holds : holds = {x \in Handlers : x[1][1] = d /\ Unwritten(x, p) # 0}
      OBVIOUS
    <3>2. holds = {x \in Messages \X Slots : x[1][1] = d /\ Unwritten(x, p) # 0}
      BY <3>1 DEF Handlers
    <3>3. /\ journal[d][p] \in {0, Delta(d, p)}
          /\ \A x \in holds : /\ Unwritten(x, p) = Delta(d, p) /\ journal[d][p] = 0
                              /\ holds = {x}
      BY <2>2, <3>1
    <3> QED
      BY <3>2, <3>3
  <2>5. \A d \in Documents \ overlapped : Kind[d] # "receipt" => \A p \in Places :
           LET holds == {x \in Messages \X Slots : x[1][1] = d /\ Unwritten(x, p) # 0}
           IN  /\ journal[d][p] \in {0, Delta(d, p)}
               /\ \A x \in holds : /\ Unwritten(x, p) = Delta(d, p) /\ journal[d][p] = 0
                                   /\ holds = {x}
    BY <2>4
  <2> QED
    BY <2>3, <2>5 DEF MovedOnce
<1> QED
  BY <1>1, DistributionInvariant, PTL

(* A count nobody wrote over moves stock if and only if it is posted, by    *)
(* the variances of its lines; and an undisturbed line's variance is what   *)
(* the books were wrong by when it was frozen (stock-counts.service.ts).    *)
THEOREM CountsCorrectTheBooks == Spec => []CountCorrects
<1>1. ASSUME DistInv PROVE CountCorrects
  <2> SUFFICES ASSUME NEW c \in Counts \ stale
               PROVE  /\ journal[c] = IF count[c].status = "POSTED"
                                      THEN Variances(c, count[c].lines) ELSE NoDelta
                      /\ count[c].status = "POSTED" => \A s \in DOMAIN count[c].lines :
                            <<c, s>> \notin disturbed /\ count[c].lines[s].counted # Uncounted =>
                                journal[c][Place(c, s)] = error[c][s]
    BY DEF CountCorrects
  <2>1. CountInv(c)
    BY <1>1 DEF DistInv, CountsInv
  <2>2. journal[c] = IF count[c].status = "POSTED" THEN Variances(c, count[c].lines) ELSE NoDelta
    BY <2>1 DEF CountInv
  <2>3. ASSUME count[c].status = "POSTED", NEW s \in DOMAIN count[c].lines,
               <<c, s>> \notin disturbed, count[c].lines[s].counted # Uncounted
        PROVE  journal[c][Place(c, s)] = error[c][s]
    <3>1. PICK f : f = count[c].lines
      OBVIOUS
    <3>2. LineInv(c, s) /\ s \in Skus
      BY <2>1 DEF CountInv, IsLines
    <3>3. f[s].counted - f[s].expected = error[c][s]
      BY <2>3, <3>1, <3>2 DEF LineInv, SoFound
    <3>4. Place(c, s) \in Places
      BY <3>2, PlaceIs
    <3>5. Variances(c, f)[Place(c, s)] = Variance(f, s)
      BY <3>4 DEF Variances, Place
    <3>6. Variance(f, s) = f[s].counted - f[s].expected
      BY <2>3, <3>1 DEF Variance
    <3> QED
      BY <2>2, <2>3, <3>1, <3>3, <3>5, <3>6
  <2> QED
    BY <2>2, <2>3
<1> QED
  BY <1>1, DistributionInvariant, PTL

(* A transfer is announced when everything asked for has been picked, moves *)
(* stock in the books only after that, and takes out of one location what   *)
(* it puts into the other (transfers.service.ts, applyTransfer).            *)
THEOREM TransfersKeepTheirOrder == Spec => []TransfersInOrder
<1>1. ASSUME DistInv PROVE TransfersInOrder
  <2> SUFFICES ASSUME NEW x \in Transfers
               PROVE  /\ sent[x] > 0 => AllPicked(x) /\ Picked(x) = Asked[x].qty
                      /\ transfer[x] = "COMPLETED" \/ journal[x] # NoDelta => sent[x] > 0
                      /\ \A s \in Skus :
                            SumFunctionOnSet([l \in Sites |-> journal[x][<<s, l>>]], Sites) = 0
    BY DEF TransfersInOrder
  <2>1. TransferRows /\ AnnouncedInv
    BY <1>1 DEF DistInv, HouseInv
  <2>2. sent[x] > 0 => AllPicked(x) /\ Picked(x) = Asked[x].qty
    BY <2>1 DEF TransferRows
  <2>3. (transfer[x] = "COMPLETED" \/ journal[x] # NoDelta) => sent[x] > 0
    BY <2>1 DEF TransferRows, AnnouncedInv
  <2>4. \A s \in Skus : SumFunctionOnSet([l \in Sites |-> journal[x][<<s, l>>]], Sites) = 0
    BY <2>1 DEF AnnouncedInv, Across
  <2> QED
    BY <2>2, <2>3, <2>4
<1> QED
  BY <1>1, DistributionInvariant, PTL

(* On hand is the opening quantity plus the journal's rows, plus what the    *)
(* handlers of receipts and sales moved without a row, at it still or broken *)
(* off (stock.service.ts:345-451); and until something fails Financials is   *)
(* told of every unit an adjustment or a count moved.                        *)
THEOREM LevelsAreExplained == Spec => []JournalExplains
<1>1. ASSUME DistInv PROVE JournalExplains
  <2>0. BooksInv /\ BalanceInv /\ ToldInv /\ CountsInv
    BY <1>1 DEF DistInv, LevelsInv
  <2>1. ASSUME NEW p \in Places
        PROVE  SumFunctionOnSet([x \in RowsOwed(p) |-> Unwritten(x, p)], RowsOwed(p))
                  = SumFunctionOnSet(Owings(job, lost, p), Handlers)
    <3>1. PICK T : T = RowsOwed(p)
      OBVIOUS
    <3>2. \A x : Unwritten(x, p) = Owing(job, lost, x, p)
      BY UnwrittenIs
    <3>3. T = {x \in Handlers : Owing(job, lost, x, p) # 0}
      BY <3>1, <3>2 DEF RowsOwed, Handlers
    <3>4. PICK f, g : f = [x \in T |-> Unwritten(x, p)] /\ g = Owings(job, lost, p)
      OBVIOUS
    <3>5. \A x \in Handlers : g[x] = IF x \in T THEN f[x] ELSE 0
      BY <3>2, <3>3, <3>4 DEF Owings
    <3>6. Ints(g, Handlers) /\ T \in SUBSET Handlers /\ IsFiniteSet(Handlers)
      BY <2>0, <3>3, <3>4, OwingInt, FinitelyMany DEF BalanceInv
    <3>7. Ints(f, T)
      BY <3>5, <3>6 DEF Ints
    <3>8. SumFunctionOnSet(f, T) = SumFunctionOnSet(g, Handlers)
      BY <3>5, <3>6, <3>7, SumOver
    <3> QED
      BY <3>1, <3>4, <3>8
  <2>2. ASSUME NEW c \in Counts, NEW p \in Places
        PROVE  SumFunctionOnSet([u \in Telling(c) |-> req[u].change[p]], Telling(c))
                  = SumFunctionOnSet(Yet(req, c, p), Users)
    <3>1. PICK T : T = Telling(c)
      OBVIOUS
    <3>2. PICK f, g : f = [u \in T |-> req[u].change[p]] /\ g = Yet(req, c, p)
      OBVIOUS
    <3>3. \A u \in Users : g[u] = IF u \in T THEN f[u] ELSE 0
      BY <3>1, <3>2 DEF Yet, ToTell, Telling
    <3>4. Ints(g, Users) /\ T \in SUBSET Users /\ IsFiniteSet(Users)
      BY <2>0, <3>1, <3>2, DueInt, CountAssumption DEF Telling
    <3>5. Ints(f, T)
      BY <3>3, <3>4 DEF Ints
    <3>6. SumFunctionOnSet(f, T) = SumFunctionOnSet(g, Users)
      BY <3>3, <3>4, <3>5, SumOver
    <3> QED
      BY <3>1, <3>2, <3>6
  <2>3. ASSUME faults = 0, NEW d \in Documents, Kind[d] = "adjustment"
        PROVE  told[d] = IF d \in adjusting THEN NoDelta ELSE journal[d]
    BY <2>0, <2>3 DEF BooksInv, AdjustedInv
  <2>4. ASSUME NEW p \in Places
        PROVE  Opening[p] + SumFunctionOnSet([r \in References |-> journal[r][p]], References)
                  + SumFunctionOnSet([x \in RowsOwed(p) |-> Unwritten(x, p)], RowsOwed(p))
               = Balance(p)
    BY <2>1 DEF Balance, Column
  <2>5. \A p \in Places : onHand[p] = Balance(p)
    BY <2>0 DEF BalanceInv
  <2>6. ASSUME faults = 0, NEW c \in Counts, NEW p \in Places
        PROVE  journal[c][p] = told[c][p]
                  + SumFunctionOnSet([u \in Telling(c) |-> req[u].change[p]], Telling(c))
    BY <2>0, <2>2, <2>6 DEF ToldInv
  <2> QED
    BY <2>3, <2>4, <2>5, <2>6 DEF JournalExplains
<1> QED
  BY <1>1, DistributionInvariant, PTL
=============================================================================
