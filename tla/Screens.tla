------------------------------- MODULE Screens -------------------------------
(***************************************************************************)
(* One open screen of one browser tab: a read it keeps on show, the calls   *)
(* of its buttons and the services answering in any order, while other      *)
(* people change the same data.                                             *)
(*                                                                          *)
(* The reads of a screen do not look at each other, so a behaviour follows  *)
(* one of them with one of the calls that touch it (a pane).  Data is       *)
(* represented by a version per kind.                                       *)
(***************************************************************************)
EXTENDS SalesScreens, StockScreens, OfficeScreens, Naturals, Sequences, FiniteSets, FiniteSetsExt

CONSTANTS
  MaxAsked,   \* requests of the read in flight at once
  MaxChanges, \* changes of other people and clicks on the button, together
  MaxTurns,   \* times the person chooses something else
  MaxFailures \* failed reads

AllScreens == SalesScreens ++ StockScreens ++ OfficeScreens

NoAct == [Does({}) EXCEPT !.needs = {"nothing"}]
Touches(act, name, kinds) ==
  \/ act.writes \cap kinds # {}
  \/ name \in UNION {act.again, act.fills, act.clears, act.orElse, act.closes, act.shares}
ActsOn(screen, name, kinds) ==
  LET touching == {a \in {screen.acts[x] : x \in DOMAIN screen.acts} : Touches(a, name, kinds)}
  IN  IF touching = {} THEN {NoAct} ELSE touching

Pane(read, name, act) ==
  LET kinds == UNION read.parts
  IN  [read |-> read, kinds |-> kinds, writes |-> act.writes \cap kinds,
       again |-> name \in act.again, fills |-> name \in act.fills,
       clears |-> name \in act.clears, orElse |-> name \in act.orElse,
       needs |-> name \in act.needs, about |-> name \in act.about,
       shares |-> name \in act.shares, held |-> act.held,
       leaves |-> act.leaves \/ name \in act.closes,
       shrugs |-> act.shrugs, clickable |-> act # NoAct]
Panes ==
  UNION {UNION {{Pane(s.reads[r], r, a) : a \in ActsOn(s, r, UNION s.reads[r].parts)}
                : r \in DOMAIN s.reads}
         : s \in {AllScreens[n] : n \in DOMAIN AllScreens}}

VARIABLES
  pane,     \* the pane this behaviour follows
  version,  \* the server's data, by kind
  sel,      \* what is chosen on the screen, 0 when nothing is
  shown,    \* what is on show: Blank, or by kind its version and the choice it is for
  failed,   \* the read's last outcome on show is an error
  asked,    \* its requests in flight, oldest first
  calls,    \* the button's calls in flight
  own,      \* the newest versions this screen has been told it made
  crossed,  \* an answer older than what was shown replaced it
  astray,   \* what is on show was asked for another choice than the one on the screen
  gone,     \* the page was left, or the form closed
  edits, turns, clicks, failures

vars == <<pane, version, sel, shown, failed, asked, calls, own, crossed, astray, gone,
          edits, turns, clicks, failures>>

Blank == [for |-> "nothing"]
For(choice) == [k \in pane.kinds |-> choice]
Unserved == 0
Newest == pane.read.how = "newest"
Bump(kinds) == [k \in pane.kinds |-> IF k \in kinds THEN version[k] + 1 ELSE version[k]]

Request(choice, now) ==
  [for |-> choice, saw |-> For(Unserved), dropped |-> FALSE, late |-> FALSE, stray |-> choice # now]
(* Mutant: answers to older requests are shown too.                         *)
AskForgettingNothing(before, choice, now) == Append(before, Request(choice, now))

(* A new request: a component that keeps the newest answer only forgets     *)
(* about the requests before it.  It is stray when it is made for another   *)
(* choice than the one on the screen now.                                   *)
Ask(before, choice, now) ==
  Append([i \in DOMAIN before |-> [before[i] EXCEPT !.dropped = Newest]], Request(choice, now))
CanAsk == Len(asked) < MaxAsked
(* Some components clear the last error when they ask.                      *)
StillFailed == failed /\ pane.read.errorGoes # "asked"

Init ==
  /\ pane \in Panes
  /\ version = For(1)
  /\ \/ sel = 1 /\ asked = Ask(<< >>, sel, sel)
     \/ pane.read.unchosen # "never" /\ sel = 0 /\ asked = << >>
  /\ shown = Blank
  /\ failed = FALSE
  /\ calls = {}
  /\ own = For(0)
  /\ crossed = FALSE /\ astray = FALSE
  /\ gone = FALSE
  /\ edits = 0 /\ turns = 0 /\ clicks = 0 /\ failures = 0

-----------------------------------------------------------------------------
(* The person chooses another store, date, filter or row: the effect that   *)
(* depends on the choice asks at once.                                      *)
Choose ==
  /\ ~gone /\ pane.read.chosen /\ turns < MaxTurns /\ CanAsk
  /\ sel' \in {1, 2} \ {sel}
  /\ asked' = Ask(asked, sel', sel')
  /\ shown' = IF pane.read.clears THEN Blank ELSE shown
  /\ failed' = StillFailed
  /\ turns' = turns + 1
  /\ UNCHANGED <<pane, version, calls, own, crossed, astray, gone, edits, clicks, failures>>

(* The person takes the choice back: what was on show goes, and nothing is  *)
(* asked; the requests in flight are for a choice that is no longer on the  *)
(* screen.                                                                  *)
AllStray == [i \in DOMAIN asked |-> [asked[i] EXCEPT !.stray = TRUE, !.dropped = @ \/ Newest]]
Unchoose ==
  /\ ~gone /\ pane.read.unchosen = "ever" /\ sel # 0 /\ turns < MaxTurns
  /\ sel' = 0
  /\ asked' = AllStray
  /\ shown' = Blank
  /\ failed' = StillFailed
  /\ turns' = turns + 1
  /\ UNCHANGED <<pane, version, calls, own, crossed, astray, gone, edits, clicks, failures>>

(* Mutant: the interval keeps calling the first render's                    *)
(* function, which reads for the choice of that time.                       *)
PollFirstChoice ==
  /\ ~gone /\ pane.read.polled /\ CanAsk /\ sel # 0
  /\ asked' = Ask(asked, 1, sel)
  /\ failed' = StillFailed
  /\ UNCHANGED <<pane, version, sel, shown, calls, own, crossed, astray, gone, edits, turns, clicks, failures>>

(* usePolling's interval, which calls the newest render's function.  A poll  *)
(* with nothing in flight, nothing failed and nothing changed reads the same *)
(* again, and is left out.                                                   *)
UpToDate == shown = [for |-> For(sel), saw |-> version]
Poll ==
  /\ ~gone /\ pane.read.polled /\ sel # 0 /\ CanAsk
  /\ ~(UpToDate /\ asked = << >> /\ calls = {} /\ ~failed)
  /\ asked' = Ask(asked, sel, sel)
  /\ failed' = StillFailed
  /\ UNCHANGED <<pane, version, sel, shown, calls, own, crossed, astray, gone, edits, turns, clicks, failures>>

(* A service answers one part of a request from the data it has now.        *)
Reach(i) ==
  /\ \E part \in pane.read.parts :
       /\ \A k \in part : asked[i].saw[k] = Unserved
       /\ asked' = [asked EXCEPT ![i].saw = [k \in pane.kinds |-> IF k \in part THEN version[k] ELSE @[k]]]
  /\ UNCHANGED <<pane, version, sel, shown, failed, calls, own, crossed, astray, gone, edits, turns, clicks, failures>>

Serve == \E i \in DOMAIN asked : Reach(i)

(* The requests still in flight after the outcome of request i is on show:  *)
(* the ones asked before it are late from now on.                           *)
Without(i) ==
  [j \in 1..(Len(asked) - 1) |-> IF j < i THEN [asked[j] EXCEPT !.late = TRUE] ELSE asked[j + 1]]
Forget(i) == [j \in 1..(Len(asked) - 1) |-> IF j < i THEN asked[j] ELSE asked[j + 1]]
AllLate == [i \in DOMAIN asked |-> [asked[i] EXCEPT !.late = TRUE]]
Served(i) == \A k \in pane.kinds : asked[i].saw[k] # Unserved

Show(i) ==
  /\ shown' = [for |-> For(asked[i].for), saw |-> asked[i].saw]
  /\ failed' = (failed /\ pane.read.errorGoes # "answered")
  /\ crossed' = asked[i].late
  /\ astray' = asked[i].stray
Arrive(i) ==
  /\ ~gone /\ Served(i)
  /\ IF asked[i].dropped
     THEN asked' = Forget(i) /\ UNCHANGED <<shown, failed, crossed, astray>>
     ELSE asked' = Without(i) /\ Show(i)
  /\ UNCHANGED <<pane, version, sel, calls, own, gone, edits, turns, clicks, failures>>
Answer == \E i \in DOMAIN asked : Arrive(i)

(* A read fails: the error is shown, and what was shown stays, goes blank   *)
(* or gives way to "not found".                                             *)
Fail ==
  /\ ~gone /\ failures < MaxFailures
  /\ \E i \in DOMAIN asked :
       IF asked[i].dropped
       THEN asked' = Forget(i) /\ UNCHANGED <<shown, failed>>
       ELSE /\ asked' = Without(i)
            /\ shown' = IF pane.read.onFailure = "blank" THEN Blank ELSE shown
            /\ failed' = TRUE
  /\ failures' = failures + 1
  /\ UNCHANGED <<pane, version, sel, calls, own, crossed, astray, gone, edits, turns, clicks>>

(* Somebody else, another app or an event changes the data.                 *)
Edit ==
  /\ ~gone /\ edits + clicks < MaxChanges
  /\ \E part \in pane.read.parts : version' = Bump(part)
  /\ edits' = edits + 1
  /\ UNCHANGED <<pane, sel, shown, failed, asked, calls, own, crossed, astray, gone, turns, clicks, failures>>

-----------------------------------------------------------------------------
(* The button: disabled while its call runs, and not there before what it   *)
(* is about is on show, or something is chosen.                             *)
Enabled ==
  /\ pane.clickable
  /\ pane.held => calls = {}
  /\ IF pane.needs THEN shown # Blank ELSE sel # 0
  /\ ~(failed /\ pane.read.onFailure = "wall")
(* The call is made, and its answer handled, by the render that was clicked. *)
Click ==
  /\ ~gone /\ edits + clicks < MaxChanges /\ Enabled
  /\ LET about == IF pane.about /\ shown # Blank THEN shown.for ELSE For(sel)
     IN  calls' = calls \union {[no |-> clicks, at |-> "sent", for |-> sel, about |-> about, made |-> version]}
  /\ failed' = (failed /\ ~pane.shares)
  /\ clicks' = clicks + 1
  /\ UNCHANGED <<pane, version, sel, shown, asked, own, crossed, astray, gone, edits, turns, failures>>

(* The service commits the call or refuses it.                              *)
Commit ==
  /\ \E c \in calls :
       /\ c.at = "sent"
       /\ \/ /\ version' = Bump(pane.writes)
             /\ calls' = (calls \ {c}) \union {[c EXCEPT !.at = "done", !.made = version']}
          \/ /\ calls' = (calls \ {c}) \union {[c EXCEPT !.at = "refused"]}
             /\ UNCHANGED version
  /\ UNCHANGED <<pane, sel, shown, failed, asked, own, crossed, astray, gone, edits, turns, clicks, failures>>

(* A component that shows any answer asks again with the load of the render *)
(* that was clicked, for the choice of that time; one that keeps the newest *)
(* answer bumps a version, and its effect reads for the choice of now.      *)
AskAgain(before, c, now) == Ask(before, IF Newest THEN now ELSE c.for, now)

(* What the component does with the answer of a call that went well.  The   *)
(* answer takes the place of the data it is; the rest stays as it was.      *)
Filled(c) ==
  LET of(k, new, old) == IF k \in pane.writes THEN new ELSE IF shown = Blank THEN 0 ELSE old
  IN  [for |-> [k \in pane.kinds |-> of(k, c.about[k], shown.for[k])],
       saw |-> [k \in pane.kinds |-> of(k, c.made[k], shown.saw[k])]]
Elsewhere(view) == \E k \in pane.kinds : view.for[k] \notin {0, sel}
Succeed(c) ==
  /\ own' = [k \in pane.kinds |-> IF k \in pane.writes THEN Max({own[k], c.made[k]}) ELSE own[k]]
  /\ shown' = IF pane.fills THEN Filled(c) ELSE IF pane.clears THEN Blank ELSE shown
  /\ crossed' = IF pane.fills THEN \E k \in pane.writes : own[k] > c.made[k] ELSE crossed
  /\ astray' = IF pane.fills THEN Elsewhere(Filled(c)) ELSE astray
  /\ sel' = IF pane.clears /\ pane.read.unchosen = "ever" THEN 0 ELSE sel
  /\ asked' = LET rest == IF pane.fills \/ pane.clears THEN AllLate ELSE asked
              IN  IF pane.again THEN AskAgain(rest, c, sel') ELSE rest
  /\ failed' = IF pane.again THEN StillFailed ELSE failed
  /\ gone' = pane.leaves

(* ... and of one that was refused, or whose answer was lost on the way.    *)
Complain(c) ==
  /\ asked' = IF pane.orElse THEN AskAgain(asked, c, sel) ELSE asked
  /\ shown' = IF pane.shrugs THEN Blank ELSE shown
  /\ failed' = (pane.shares \/ IF pane.orElse THEN StillFailed ELSE failed)
  /\ UNCHANGED <<sel, own, crossed, astray, gone>>

Hear ==
  /\ ~gone
  /\ \E c \in calls :
       /\ c.at \in {"done", "refused"}
       /\ pane.again \/ pane.orElse => CanAsk
       /\ \/ c.at = "done" /\ Succeed(c)
          \/ Complain(c)
       /\ calls' = calls \ {c}
  /\ UNCHANGED <<pane, version, edits, turns, clicks, failures>>

Next == Choose \/ Unchoose \/ Poll \/ Serve \/ Answer \/ Fail \/ Edit \/ Click \/ Commit \/ Hear

(* The interval fires for ever while the page is open and visible; what was *)
(* asked is served, and the oldest request is answered in the end.  A       *)
(* request is not for ever overtaken by the next poll before its answer     *)
(* comes: answers take less than the interval, though not every time.       *)
Spec ==
  /\ Init /\ [][Next]_vars
  /\ WF_vars(Poll) /\ WF_vars(Commit) /\ SF_vars(Hear)
  /\ WF_vars(asked # << >> /\ (Reach(1) \/ Arrive(1)))
  /\ SF_vars(asked # << >> /\ Reach(Len(asked))) /\ SF_vars(asked # << >> /\ Arrive(Len(asked)))

-----------------------------------------------------------------------------
(* A page that is left alone shows what its own calls have done: every call *)
(* that changes what a read shows asks for it again or puts the answer in   *)
(* its place, on every screen.  Only an error on show, a blank or an        *)
(* overtaken answer of a component that shows any answer excuses it, and a  *)
(* component that keeps the newest answer only is never excused by the last.*)
(* A polled read nobody asks again for may wait for its next poll.          *)
Still == asked = << >> /\ calls = {} /\ ~gone
Clear == Still /\ shown # Blank /\ ~failed /\ ~crossed
OwnWritesShown ==
  Clear /\ (pane.read.polled => pane.again \/ pane.fills) =>
    \A k \in pane.kinds : shown.saw[k] >= own[k]

(* What is on show belongs to what is chosen: the store, the date, the      *)
(* filter, the row.  In a component that shows any answer, the reload of a  *)
(* button pressed before the choice changed may bring the old choice back,  *)
(* an answer may come for a choice taken back, and a call's answer may be   *)
(* put beside another day's data; in one that keeps the newest answer       *)
(* nothing of the kind happens.                                             *)
ChosenIsShown ==
  /\ Clear /\ ~astray => \A k \in pane.kinds : shown.for[k] \in {0, sel}
  /\ Newest /\ ~pane.fills => ~crossed /\ ~astray

(* Whatever answers crossed, a screen that polls ends up showing the data   *)
(* there is, for what is chosen; the session every app checks again is one  *)
(* such read.                                                               *)
PolledCatchUp == pane.read.polled => <>[](UpToDate \/ gone \/ sel = 0)
=============================================================================
