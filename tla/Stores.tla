------------------------------- MODULE Stores -------------------------------
(* A store, its people and its days.  Directory takes a store out of use    *)
(* only after asking Sales Audit for its unclosed days and Inventory for    *)
(* its stock, while its tills, the ledger and the daily close go on.        *)
EXTENDS StoreDay, Directory

CONSTANTS
    Store,     \* the place the days belong to
    Boss,      \* BOOTSTRAP_OWNER_ID
    Plans      \* which of this happens in a behaviour, and how often

ASSUME StoresAssumption ==
    /\ Store \in Places /\ Boss \in People
    /\ Plans \subseteq [sales : SUBSET Sales, returns : SUBSET Returns, days : 0..LastDay,
                        users : SUBSET Users, counts : Nat, mishaps : 0..MaxMishaps,
                        people : SUBSET People, acts : SUBSET People,
                        admin : SUBSET {"role", "active", "reset", "change", "create", "close"},
                        wrong : BOOLEAN, tries : Nat, versions : 0..MaxVersion, tokens : Nat]

VARIABLES
    onShelf,   \* does Inventory show stock on hand in the store
    late,      \* history: a day opened, or stock came, after it was asked for
    unasked,   \* history: the store was closed by a request that asked nobody
    plan       \* the bounds of this behaviour, chosen at the start

vars == <<dayVars, directoryVars, onShelf, late, unasked, plan>>

TypeOK == /\ DayTypeOK /\ DirectoryTypeOK
          /\ {onShelf, late, unasked} \subseteq BOOLEAN /\ plan \in Plans

Init == /\ DayInit /\ DirectoryInit /\ plan \in Plans
        /\ onShelf = FALSE /\ late = FALSE /\ unasked = FALSE

Closing(what) == \E a \in People :
    admin[a].op = "close" /\ admin[a].asks /\ what \in admin[a].heard
Watched(what) == ~ place[Store] \/ Closing(what)
Notes(opens, arrives) ==
    late' = IF \/ opens /\ Watched("days")
               \/ arrives /\ Watched("stock")
            THEN TRUE ELSE late

Shop == /\ plan.sales \cup plan.users # {} /\ DayStep
        /\ Notes(~ (OpenDays' \subseteq OpenDays), FALSE)
        /\ UNCHANGED <<directoryVars, onShelf, unasked>>

StockMoves == /\ "close" \in plan.admin /\ onShelf' = ~ onShelf
              /\ Notes(FALSE, onShelf')
              /\ UNCHANGED <<dayVars, directoryVars, unasked>>

(* The request that is written in this step had asked nobody.               *)
WritesUnasked == \E a \in People :
    admin[a].op = "close" /\ ~ admin[a].asks /\ admin'[a].op = "idle"

Office == /\ plan.people # {} /\ (DirectoryStep \/ DirectoryRestarts(Boss))
          /\ late' = IF place'[Store] /\ ~ place[Store] /\ ~ Closing("days") /\ ~ Closing("stock")
                     THEN FALSE ELSE late
          /\ unasked' = IF place'[Store] THEN FALSE
                        ELSE unasked \/ (place[Store] /\ WritesUnasked)
          /\ UNCHANGED <<dayVars, onShelf>>

(* stockOnHand and unclosedBusinessDates, side by side.                     *)
AskAround == \E a \in People, answered \in BOOLEAN :
    /\ admin[a].op = "close"
    /\ \/ Hear(a, "stock", answered, admin[a].who = Store /\ onShelf)
       \/ Hear(a, "days", answered, admin[a].who = Store /\ OpenDays # {})
    /\ UNCHANGED <<dayVars, onShelf, late, unasked>>

Within ==
    /\ today' <= plan.days \/ UNCHANGED today
    /\ mishaps' <= plan.mishaps
    /\ \A t \in Sales \ plan.sales : sale'[t].status = "none"
    /\ \A r \in Returns \ plan.returns : desk'[r].step = "idle"
    /\ \A u \in Users \ plan.users : ask'[u] = Idle
    /\ \A d \in Days : close'[d].nth <= plan.counts /\ Len(log'[d]) <= plan.counts + 1
    /\ Cardinality(sessions') <= plan.tokens
    /\ \A p \in People :
          /\ staff'[p].version <= plan.versions
          /\ Cardinality(Busy(p)') <= (IF p \in plan.people THEN plan.tries ELSE 0)
          /\ \A k \in Tries : trying'[p][k].op = "wrong" => plan.wrong
          /\ admin'[p].op # "idle" => p \in plan.acts /\ admin'[p].op \in plan.admin
    /\ "close" \notin plan.admin => UNCHANGED <<onShelf, place>>
    /\ UNCHANGED plan

Next == (Shop \/ StockMoves \/ Office \/ AskAround) /\ Within

Spec == Init /\ [][Next]_vars

(* A store that was taken out of use has no day left to close and no stock  *)
(* on hand, unless a day opened or stock came after they were asked for: a  *)
(* service that did not answer, the order of the answers and a second owner *)
(* at it make no difference.  The one way around the questions is a request *)
(* that found the store inactive and is written after somebody reopened it. *)
SettledBeforeClosed == ~ place[Store] /\ ~ late /\ ~ unasked => OpenDays = {} /\ ~ onShelf
=============================================================================
