---------------------------- MODULE Distribution ----------------------------
(* Goods between the dock, the bins and the books: Warehouse Operations and *)
(* Inventory joined by their events.  A goods received note announces the   *)
(* same delivery to Inventory, which raises levels, and to Warehouse        *)
(* Operations, which makes putaway tasks; the last pick of a transfer is    *)
(* announced to Inventory, which moves the stock; counts, returns, sales    *)
(* and adjustments go on at the same time over the same levels.             *)
EXTENDS StockCounts, Warehouse

CONSTANTS
    ReceiptOf,     \* ReceiptOf[t]: the goods received note task t comes from
    Plans          \* what happens in a behaviour, whose messages are too late to
                   \* arrive in it, who is at work, how much goes wrong

ASSUME DistributionAssumption ==
    /\ Transfers = {d \in Documents : Kind[d] = "transfer"}
    /\ \A x \in Transfers : \E from, to \in Sites : /\ from # to
          /\ LinesOf[x] = <<[place |-> <<Asked[x].sku, from>>, delta |-> - Asked[x].qty, good |-> TRUE],
                            [place |-> <<Asked[x].sku, to>>, delta |-> Asked[x].qty, good |-> TRUE]>>
    /\ ReceiptOf \in [Tasks -> {d \in Documents : Kind[d] = "receipt"}]
    /\ Plans \subseteq [what : SUBSET References, late : SUBSET Documents,
                    who : SUBSET (Users \cup Hands),
                    faults : 0..MaxFaults, failures : 0..MaxFailures]

VARIABLE plan      \* the bounds of this behaviour, chosen at the start

vars == <<moveVars, countVars, houseVars, plan>>

TypeOK == MoveTypeOK /\ SaleTypeOK /\ CountTypeOK /\ HouseTypeOK /\ plan \in Plans

Init == MoveInit /\ CountInit /\ HouseInit /\ plan \in Plans

(* Receipts, returns and sales are announced by Receiving and Retail Sales. *)
World ==
    /\ \/ \E d \in (Documents \cap plan.what) \ Transfers : Happens(d)
       \/ \E d \in Documents \cap plan.what : Adjust(d)
    /\ MarkMoved /\ UNCHANGED <<count, req, stale, houseVars>>

Bus ==
    /\ \/ \E d \in (Documents \cap plan.what) \ plan.late, k \in Copies, i \in Slots :
             LET m == <<d, k>> IN Deliver(m, i) \/ Handle(m, i) \/ Throws(m, i)
       \/ faults < plan.faults /\ ChannelLost
       \/ \E d \in Documents : TellAdjusted(d)
    /\ MarkMoved /\ UNCHANGED <<count, req, stale, houseVars>>

Clerks ==
    /\ \E u \in Users \cap plan.who :
          \/ \E c \in Counts \cap plan.what :
                \/ OpenCount(u, c) \/ Post(u, c) \/ Cancel(u, c)
                \/ \E s \in Skus : RecordCount(u, c, s)
                \/ \E h \in {"reject", "skip", "zero"} : Submit(u, c, h)
          \/ FreezeLines(u) \/ InsertCount(u) \/ UpdateLine(u) \/ FindAdded(u) \/ AddLine(u)
          \/ WriteSubmitted(u) \/ CommitPost(u) \/ TellPosted(u) \/ WriteCancelled(u)
    /\ UNCHANGED houseVars

InventoryRestarts ==
    /\ faults < plan.faults /\ Restart
    /\ req' = [u \in Users |-> Idle]
    /\ UNCHANGED <<count, stale, ghostVars, houseVars>>

Arrived == {t \in Tasks : \E k \in Copies : mail[<<ReceiptOf[t], k>>] # "none"}

Floor ==
    /\ \/ \E t \in Arrived : Receive(t)
       \/ CreateTask
       \/ \E h \in Hands \cap plan.who :
             \/ \E t \in Tasks : AskComplete(h, t) \/ \E b \in Bins : AskAssign(h, t, b)
             \/ \E x \in Transfers \cap plan.what : AskTransfer(h, x) \/ \E b \in Bins : AskPick(h, x, b)
             \/ FloorStep(h)
       \/ HouseRestarts
    /\ UNCHANGED <<moveVars, countVars>>

(* The pickers' announcement reaches Inventory's queue; only Copies bounds  *)
(* how often a transfer is announced.                                       *)
Announce == \E h \in Hands \cap plan.who, k \in Copies :
    /\ PublishTransfer(h)
    /\ LET x == hand[h].transfer
       IN  IF sent[x] = 0 THEN Happens(x) ELSE AnnouncedAgain(x, k)
    /\ MarkMoved /\ UNCHANGED <<count, req, stale>>

Within ==
    /\ faults' <= plan.faults /\ failures' <= plan.failures
    /\ \A h \in Hands : hand'[h] = Free \/ h \in plan.who
    /\ \A u \in Users : req'[u] = Idle \/ u \in plan.who
    /\ UNCHANGED plan

Next == (World \/ Bus \/ Clerks \/ InventoryRestarts \/ Floor \/ Announce) /\ Within

Spec == Init /\ [][Next]_vars

(* A transfer is announced only when everything it asked for has been       *)
(* picked, is completed only when it has been announced, moves stock in the *)
(* books only after that, and puts into one location what it takes out of   *)
(* the other: whichever pickers finish it, whatever fails or restarts, and  *)
(* however often it is announced, delivered and retried.                    *)
Picked(x) == SumFunctionOnSet([b \in Bins |-> pick[<<x, b>>].qty], Bins)
TransfersInOrder == \A x \in Transfers :
    /\ sent[x] > 0 => /\ AllPicked(x)
                      /\ Picked(x) = Asked[x].qty
    /\ transfer[x] = "COMPLETED" \/ journal[x] # NoDelta => sent[x] > 0
    /\ \A s \in Skus : SumFunctionOnSet([l \in Sites |-> journal[x][<<s, l>>]], Sites) = 0
=============================================================================
