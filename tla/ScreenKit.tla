------------------------------ MODULE ScreenKit ------------------------------
(***************************************************************************)
(* What a screen of the frontends is made of: the reads it keeps on show   *)
(* and the calls its buttons send.  A read or a call is described by the   *)
(* kinds of server data it touches and by what the component does with     *)
(* the answer; the columns, labels and styles are left out.  Screens.tla   *)
(* gives the descriptions their behaviour.                                 *)
(***************************************************************************)

(* A read: `parts` are its requests, each served at its own moment.  "how"  *)
(* is "newest" when the component drops every answer but the newest         *)
(* request's, and "any" when it shows whatever answer arrives.              *)
Read(how, parts) ==
  [how |-> how, parts |-> parts, chosen |-> FALSE, unchosen |-> "never", polled |-> FALSE,
   clears |-> FALSE, onFailure |-> "keep", errorGoes |-> "answered"]

Fetched(kinds) == Read("newest", {kinds})
Loaded(kinds) == Read("any", {kinds})
LoadedTogether(parts) == Read("any", parts)

(* The read depends on something chosen on the screen: a search, a filter,  *)
(* a store, a date, the row of the page's address.                          *)
Chosen(read) == [read EXCEPT !.chosen = TRUE]
Cleared(read) == [read EXCEPT !.chosen = TRUE, !.clears = TRUE]
Polled(read) == [read EXCEPT !.polled = TRUE]

(* Nothing may be chosen when the page opens, or the choice may be taken    *)
(* back: then nothing is asked.                                             *)
ChosenLater(read) == [read EXCEPT !.chosen = TRUE, !.unchosen = "first"]
Optional(read) == [read EXCEPT !.chosen = TRUE, !.unchosen = "ever"]

(* What a failed read leaves: the last answer, nothing, or a page that only *)
(* says that the thing was not found.                                       *)
BlankOnFailure(read) == [read EXCEPT !.onFailure = "blank"]
WallOnFailure(read) == [read EXCEPT !.onFailure = "wall"]

(* A read's error goes with the next answer, unless the component clears it *)
(* already when it asks, or nowhere.                                        *)
ForgivenWhenAsked(read) == [read EXCEPT !.errorGoes = "asked"]
NotForgiven(read) == [read EXCEPT !.errorGoes = "stays"]

Paged(kinds) == Chosen(Fetched(kinds))
Live(kinds) == Polled(Loaded(kinds))
LiveBy(kinds) == Chosen(Live(kinds))

(* A call: the kinds of data it changes on the server; its button is        *)
(* disabled while it runs (held).  On success the component asks again for  *)
(* some reads, puts the answer in the place of others (fills), clears       *)
(* others, leaves the page or closes the form; after an error it may ask    *)
(* again too.  A component with one place for errors shows the call's error *)
(* where its reads show theirs, and clears it when the button is pressed.   *)
(* A call is for what is chosen, or about the thing that is on show.        *)
Does(kinds) ==
  [writes |-> kinds, held |-> TRUE, again |-> {}, fills |-> {}, clears |-> {},
   orElse |-> {}, needs |-> {}, about |-> {}, closes |-> {}, shares |-> {},
   leaves |-> FALSE, shrugs |-> FALSE]

Then(act, reads) == [act EXCEPT !.again = reads]
Filling(act, reads) == [act EXCEPT !.fills = reads]
Clearing(act, reads) == [act EXCEPT !.clears = reads]
OrElse(act, reads) == [act EXCEPT !.orElse = reads]
On(act, reads) == [act EXCEPT !.needs = reads]
About(act, reads) == [act EXCEPT !.needs = reads, !.about = reads]
Closing(act, reads) == [act EXCEPT !.closes = reads]
SharingError(act, reads) == [act EXCEPT !.shares = reads]
Leaving(act) == [act EXCEPT !.leaves = TRUE]
Unheld(act) == [act EXCEPT !.held = FALSE]
Shrugging(act) == [act EXCEPT !.shrugs = TRUE]

Screen(reads, acts) == [reads |-> reads, acts |-> acts]
NoActs == << >>

(* The reads, or the calls, of two components on one screen.                *)
f ++ g == [x \in DOMAIN f \union DOMAIN g |-> IF x \in DOMAIN f THEN f[x] ELSE g[x]]

(* The pickers of libs/ui, which every form uses.                           *)
StaffPicker == Fetched({"staff"})
LocationPicker == Fetched({"locations"})
RegisterPicker == Fetched({"locations"})
ProductPicker == Fetched({"products"})
PurchaseOrderPicker == Fetched({"orders"})
useStaffNames == Fetched({"staff"})
=============================================================================
