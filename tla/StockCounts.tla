----------------------------- MODULE StockCounts -----------------------------
(* Stocktakes and cycle counts (services/inventory/src/stock-counts) on top *)
(* of the levels StockMovements moves.  A request of a signed-in user runs  *)
(* statement by statement: it checks what it read and writes afterwards,    *)
(* and only posting runs in a transaction, whose first read takes no lock.  *)
EXTENDS StockMovements

CONSTANTS
    Managers,      \* users who may open, post and cancel counts
    Staff,         \* users who may only count and submit
    Site,          \* Site[c]: the location count c covers
    Scope          \* Scope[c]: the SKUs it is opened for

Users == Managers \cup Staff

ASSUME CountAssumption ==
    /\ Managers \cap Staff = {} /\ IsFiniteSet(Users)
    /\ Site \in [Counts -> Sites]
    /\ Scope \in [Counts -> SUBSET Skus]

VARIABLES
    count,         \* count[c]: status and lines of a StockCount
    req,           \* req[u]: what the running request of user u remembers
    stale,         \* history: counts written over a status not looked at
    moved,         \* history: lines whose goods or level moved since the freeze
    disturbed,     \* history: lines not counted as they were when frozen
    error          \* history: what the books were wrong by when a line was frozen

ghostVars == <<moved, disturbed, error>>
countVars == <<count, req, stale, moved, disturbed, error>>

Statuses == {"none", "OPEN", "SUBMITTED", "POSTED", "CANCELLED"}
Active == {"OPEN", "SUBMITTED"}
Uncounted == -1
Line == [expected : Int, counted : Int]
NoLines == <<>>
CountLines == UNION {[S -> Line] : S \in SUBSET Skus}
Requests == {"idle", "freeze", "insert", "line", "find", "add", "submit", "zero",
             "post", "tell", "cancel"}
Idle == [op |-> "idle"]

CountTypeOK ==
    /\ \A c \in Counts : count[c].status \in Statuses /\ DOMAIN count[c].lines \subseteq Skus
    /\ \A u \in Users : req[u].op \in Requests
    /\ stale \in SUBSET Counts
    /\ disturbed \in SUBSET (Counts \X Skus) /\ moved \in SUBSET (Counts \X Skus)
    /\ error \in [Counts -> [Skus -> Int]]

CountInit ==
    /\ count = [c \in Counts |-> [status |-> "none", lines |-> NoLines]]
    /\ req = [u \in Users |-> Idle]
    /\ stale = {} /\ disturbed = {} /\ moved = {}
    /\ error = [c \in Counts |-> [s \in Skus |-> 0]]

-----------------------------------------------------------------------------
Place(c, s) == <<s, Site[c]>>
Ask(u, r) == req[u].op = "idle" /\ req' = [req EXCEPT ![u] = r]
Answer(u) == req' = [req EXCEPT ![u] = Idle]
Then(u, r) == req' = [req EXCEPT ![u] = r]
Doing(u, op) == req[u].op = op
Late(c, seen) == IF count[c].status = seen THEN stale ELSE stale \cup {c}
MovesQuietly == UNCHANGED moveVars

(* What has physically happened at a place and is not in the books yet.     *)
Unbooked(p) == \E m \in Messages : mail[m] # "none" /\ journal[m[1]][p] # Delta(m[1], p)
Freeze(c, s) == [expected |-> onHand[Place(c, s)], counted |-> Uncounted]
ErrorAt(c, s) == shelf[Place(c, s)] - onHand[Place(c, s)]

(* create: no active count at the location, then the products with their    *)
(* levels, then the insert that freezes the expected quantities.            *)
OpenCount(u, c) ==
    /\ u \in Managers /\ count[c].status = "none"
    /\ \A v \in Users : req[v].op \in {"freeze", "insert"} => req[v].count # c
    /\ \A d \in Counts : Site[d] = Site[c] => count[d].status \notin Active
    /\ Ask(u, [op |-> "freeze", count |-> c])
    /\ UNCHANGED <<count, stale, ghostVars>> /\ MovesQuietly

FreezeLines(u) ==
    /\ Doing(u, "freeze")
    /\ LET c == req[u].count IN
       IF Scope[c] = {} \/ ~ (Scope[c] \subseteq listed)
       THEN Answer(u) /\ UNCHANGED <<count, stale, ghostVars>>
       ELSE /\ Then(u, [op |-> "insert", count |-> c,
                        lines |-> [s \in Scope[c] |-> Freeze(c, s)]])
            /\ error' = [error EXCEPT ![c] = [s \in Skus |-> ErrorAt(c, s)]]
            /\ disturbed' = disturbed \cup
                  {<<c, s>> : s \in {x \in Scope[c] : Unbooked(Place(c, x))}}
            /\ UNCHANGED <<count, stale, moved>>
    /\ MovesQuietly

InsertCount(u) ==
    /\ Doing(u, "insert")
    /\ count' = [count EXCEPT ![req[u].count] = [status |-> "OPEN", lines |-> req[u].lines]]
    /\ Answer(u)
    /\ UNCHANGED <<stale, ghostVars>> /\ MovesQuietly

(* recordCount: the user has counted what is on the shelf; a line that is   *)
(* there is updated, a SKU that is not on the count is added.               *)
RecordCount(u, c, s) ==
    /\ count[c].status = "OPEN"
    /\ Ask(u, [op |-> IF s \in DOMAIN count[c].lines THEN "line" ELSE "find",
               count |-> c, sku |-> s, found |-> shelf[Place(c, s)]])
    /\ disturbed' = IF <<c, s>> \in moved THEN disturbed \cup {<<c, s>>} ELSE disturbed
    /\ UNCHANGED <<count, stale, moved, error>> /\ MovesQuietly

UpdateLine(u) ==
    /\ Doing(u, "line")
    /\ LET r == req[u] IN
       /\ count' = [count EXCEPT ![r.count].lines[r.sku].counted = r.found]
       /\ stale' = Late(r.count, "OPEN")
    /\ Answer(u)
    /\ UNCHANGED ghostVars /\ MovesQuietly

FindAdded(u) ==
    /\ Doing(u, "find")
    /\ LET r == req[u] IN
       IF r.sku \notin listed THEN Answer(u)
       ELSE Then(u, [op |-> "add", count |-> r.count, sku |-> r.sku, found |-> r.found,
                     expected |-> onHand[Place(r.count, r.sku)],
                     error |-> ErrorAt(r.count, r.sku),
                     clean |-> /\ ~ Unbooked(Place(r.count, r.sku))
                               /\ r.found = shelf[Place(r.count, r.sku)]])
    /\ UNCHANGED <<count, stale, ghostVars>> /\ MovesQuietly

AddLine(u) ==
    /\ Doing(u, "add")
    /\ LET r == req[u] IN
       IF r.sku \in DOMAIN count[r.count].lines
       THEN UNCHANGED <<count, stale, ghostVars>>
       ELSE /\ count' = [count EXCEPT ![r.count].lines = [s \in DOMAIN @ \cup {r.sku} |->
                  IF s = r.sku THEN [expected |-> r.expected, counted |-> r.found] ELSE @[s]]]
            /\ stale' = Late(r.count, "OPEN")
            /\ error' = [error EXCEPT ![r.count][r.sku] = r.error]
            /\ disturbed' = IF r.clean THEN disturbed ELSE disturbed \cup {<<r.count, r.sku>>}
            /\ UNCHANGED moved
    /\ Answer(u) /\ MovesQuietly

-----------------------------------------------------------------------------
Missing(c) == {s \in DOMAIN count[c].lines : count[c].lines[s].counted = Uncounted}

(* submit: lines nobody counted are refused, left out, or recorded as zero. *)
Submit(u, c, handling) ==
    /\ count[c].status = "OPEN"
    /\ handling = "reject" => Missing(c) = {}
    /\ Missing(c) = DOMAIN count[c].lines => handling = "zero"
    /\ Ask(u, [op |-> IF handling = "zero" /\ Missing(c) # {} THEN "zero" ELSE "submit",
               count |-> c])
    /\ UNCHANGED <<count, stale, ghostVars>> /\ MovesQuietly

WriteSubmitted(u) ==
    /\ req[u].op \in {"submit", "zero"}
    /\ LET c == req[u].count IN
       /\ count' = [count EXCEPT ![c] = [status |-> "SUBMITTED", lines |->
             [s \in DOMAIN @.lines |->
                 IF req[u].op = "zero" /\ s \in Missing(c)
                 THEN [@.lines[s] EXCEPT !.counted = 0] ELSE @.lines[s]]]]
       /\ stale' = Late(c, "OPEN")
       /\ disturbed' = IF req[u].op # "zero" THEN disturbed
                       ELSE disturbed \cup {<<c, s>> : s \in Missing(c)}
    /\ Answer(u)
    /\ UNCHANGED <<moved, error>> /\ MovesQuietly

(* Every step that moves goods or a level is noted at the lines it concerns. *)
Frozen(c, s) ==
    \/ count[c].status = "OPEN" /\ s \in DOMAIN count[c].lines
    \/ \E u \in Users : /\ req[u].op \in {"insert", "add"} /\ req[u].count = c
                        /\ req[u].op = "insert" \/ req[u].sku = s
MarkMoved ==
    /\ moved' = moved \cup {cs \in Counts \X Skus :
          Frozen(cs[1], cs[2]) /\ LET p == Place(cs[1], cs[2])
                                  IN  onHand'[p] # onHand[p] \/ shelf'[p] # shelf[p]}
    /\ UNCHANGED <<disturbed, error>>

(* post: status and lines are read, then every variance is added to the     *)
(* level and written to the journal, all of it or nothing.                  *)
Post(u, c) ==
    /\ u \in Managers /\ count[c].status = "SUBMITTED"
    /\ Ask(u, [op |-> "post", count |-> c, lines |-> count[c].lines])
    /\ UNCHANGED <<count, stale, ghostVars>> /\ MovesQuietly

Variance(lines, s) == IF s \notin DOMAIN lines \/ lines[s].counted = Uncounted THEN 0
                      ELSE lines[s].counted - lines[s].expected
Variances(c, lines) == [p \in Places |->
    IF p[2] = Site[c] THEN Variance(lines, p[1]) ELSE 0]
Sum(f, g) == [p \in Places |-> f[p] + g[p]]
Refuses(c, lines) == \E p \in Places :
    Variances(c, lines)[p] # 0 /\ onHand[p] + Variances(c, lines)[p] < 0

(* Mutant: the variance is measured against the level at the time of posting. *)
CommitPostNow(u) ==
    /\ Doing(u, "post")
    /\ LET c == req[u].count
           lines == [s \in DOMAIN req[u].lines |->
                        [req[u].lines[s] EXCEPT !.expected = onHand[Place(c, s)]]]
           change == Variances(c, lines) IN
       /\ onHand' = Sum(onHand, change)
       /\ journal' = [journal EXCEPT ![c] = Sum(@, change)]
       /\ count' = [count EXCEPT ![c].status = "POSTED"]
       /\ stale' = Late(c, "SUBMITTED")
       /\ IF change = NoDelta THEN Answer(u)
          ELSE Then(u, [op |-> "tell", count |-> c, change |-> change])
    /\ MarkMoved
    /\ UNCHANGED <<listed, shelf, mail, job, adjusting, told, overlapped, faults, saleVars>>

CommitPost(u) ==
    /\ Doing(u, "post")
    /\ LET c == req[u].count
           change == Variances(c, req[u].lines) IN
       IF Refuses(c, req[u].lines)
       THEN Answer(u) /\ UNCHANGED <<onHand, journal, count, stale>>
       ELSE /\ onHand' = Sum(onHand, change)
            /\ journal' = [journal EXCEPT ![c] = Sum(@, change)]
            /\ count' = [count EXCEPT ![c].status = "POSTED"]
            /\ stale' = Late(c, "SUBMITTED")
            /\ IF change = NoDelta THEN Answer(u)
               ELSE Then(u, [op |-> "tell", count |-> c, change |-> change])
    /\ MarkMoved
    /\ UNCHANGED <<listed, shelf, mail, job, adjusting, told, overlapped, faults, saleVars>>

(* Mutant: StockAdjusted is sent with the lines the count has by then.      *)
TellCurrent(u) ==
    /\ Doing(u, "tell")
    /\ told' = [told EXCEPT ![req[u].count] =
                   Sum(@, Variances(req[u].count, count[req[u].count].lines))]
    /\ Answer(u)
    /\ UNCHANGED <<onHand, listed, journal, shelf, mail, job, adjusting, overlapped, faults, saleVars,
                   count, stale, ghostVars>>

TellPosted(u) ==
    /\ Doing(u, "tell")
    /\ told' = [told EXCEPT ![req[u].count] = Sum(@, req[u].change)]
    /\ Answer(u)
    /\ UNCHANGED <<onHand, listed, journal, shelf, mail, job, adjusting, overlapped, faults, saleVars,
                   count, stale, ghostVars>>

Cancel(u, c) ==
    /\ u \in Managers /\ count[c].status \in Active
    /\ Ask(u, [op |-> "cancel", count |-> c, seen |-> count[c].status])
    /\ UNCHANGED <<count, stale, ghostVars>> /\ MovesQuietly

WriteCancelled(u) ==
    /\ Doing(u, "cancel")
    /\ count' = [count EXCEPT ![req[u].count].status = "CANCELLED"]
    /\ stale' = Late(req[u].count, req[u].seen)
    /\ Answer(u)
    /\ UNCHANGED ghostVars /\ MovesQuietly

-----------------------------------------------------------------------------
(* A count corrects what was wrong.  Unless somebody wrote over a status    *)
(* meanwhile, it moves stock if and only if it is posted, once, by the      *)
(* variance of its lines; and the variance of a line is exactly what the    *)
(* books were wrong by when it was frozen, provided the goods did not move  *)
(* until they were counted: sales and adjustments before and after do not   *)
(* count twice.                                                             *)
CountCorrects == \A c \in Counts \ stale :
    /\ journal[c] = IF count[c].status = "POSTED" THEN Variances(c, count[c].lines) ELSE NoDelta
    /\ count[c].status = "POSTED" => \A s \in DOMAIN count[c].lines :
          <<c, s>> \notin disturbed /\ count[c].lines[s].counted # Uncounted =>
              journal[c][Place(c, s)] = error[c][s]

(* The journal explains every level: on hand is the opening quantity plus   *)
(* the rows, plus what a handler of a receipt or sale has moved and not     *)
(* written down yet, or lost when it broke off in between; and              *)
(* until something fails, Financials is told of every unit an               *)
(* adjustment or a count put into the journal, and of no other.             *)
Telling(r) == {u \in Users : req[u].op = "tell" /\ req[u].count = r}
RowsOwed(p) == {x \in Messages \X Slots : Unwritten(x, p) # 0}
JournalExplains == \A p \in Places :
    /\ onHand[p] = Opening[p] + SumFunctionOnSet([r \in References |-> journal[r][p]], References)
                  + SumFunctionOnSet([x \in RowsOwed(p) |-> Unwritten(x, p)], RowsOwed(p))
    /\ faults = 0 =>
          /\ \A c \in Counts : journal[c][p] =
                told[c][p] + SumFunctionOnSet([u \in Telling(c) |-> req[u].change[p]], Telling(c))
          /\ \A d \in Documents : Kind[d] = "adjustment" =>
                told[d] = IF d \in adjusting THEN NoDelta ELSE journal[d]
=============================================================================
