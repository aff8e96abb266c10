---------------------------- MODULE ScreensProofs ----------------------------
(* Proofs about Screens: for every screen and button of the apps, any number *)
(* of requests in flight, calls, changes by others, choices and failures, a  *)
(* page left alone shows what its own calls did, for what is chosen.         *)
EXTENDS Screens, SequenceTheorems, TLAPS

(* A request is fresh while its answer will be shown and is not overtaken.  *)
Fresh(r) == ~ r.dropped /\ ~ r.late

(* A read whose owner sees to it that own changes are read again at once.   *)
Concerned == pane.read.polled => pane.again \/ pane.fills

Sels == {0, 1, 2}
Requests(kinds) ==
  [for : Sels, saw : [kinds -> Nat], dropped : BOOLEAN, late : BOOLEAN, stray : BOOLEAN]
Views(kinds) == [for : [kinds -> Sels], saw : [kinds -> Nat]]
Sent(kinds) ==
  [no : Nat, at : {"sent", "done", "refused"}, for : Sels, about : [kinds -> Sels],
   made : [kinds -> Nat]]
TypesInv ==
  /\ pane \in Panes
  /\ version \in [pane.kinds -> Nat] /\ own \in [pane.kinds -> Nat]
  /\ sel \in Sels
  /\ shown \in {Blank} \cup Views(pane.kinds)
  /\ asked \in Seq(Requests(pane.kinds))
  /\ calls \subseteq Sent(pane.kinds)
  /\ clicks \in Nat

(* What the page was told, the service had done by then.                    *)
OwnInv ==
  /\ \A k \in pane.kinds : own[k] <= version[k] /\ (k \notin pane.writes => own[k] = 0)
  /\ \A c \in calls, k \in pane.kinds : c.made[k] <= version[k]

(* A component that keeps the newest answer only has dropped the others.    *)
NewestInv ==
  Newest =>
    /\ \A i \in DOMAIN asked : (i < Len(asked) => asked[i].dropped) /\ (asked[i].stray => asked[i].dropped)
    /\ ~ pane.fills => ~ crossed /\ ~ astray /\ \A i \in DOMAIN asked : asked[i].late => asked[i].dropped

(* If any request is fresh the last one is, made for what is chosen now     *)
(* unless a button of an older choice made it, and sure to bring what the   *)
(* page has been told; when no answer is to come, what is shown has it.  A  *)
(* call that shares the read's place for errors may hide one meanwhile.     *)
Current(r) ==
  /\ r.stray \/ r.for = sel
  /\ Concerned => \A k \in pane.kinds : r.saw[k] = Unserved \/ r.saw[k] >= own[k]
AskedInv ==
  \A i \in DOMAIN asked : Fresh(asked[i]) =>
    Fresh(asked[Len(asked)]) /\ Current(asked[Len(asked)])
Settled == (\A i \in DOMAIN asked : asked[i].dropped) /\ (pane.shares => calls = {})
ShownInv ==
  Settled /\ shown # Blank /\ ~ failed /\ ~ crossed =>
    /\ ~ astray => \A k \in pane.kinds : shown.for[k] \in {0, sel}
    /\ Concerned => \A k \in pane.kinds : shown.saw[k] >= own[k]
PageInv == ~ gone => AskedInv /\ ShownInv

IInv == TypesInv /\ OwnInv /\ NewestInv /\ PageInv

-----------------------------------------------------------------------------
(* The tables of the screens.                                               *)

(* A call that changes some kinds of data and asks for some reads again, or *)
(* puts its answer in their place, or leaves the page; a read that shows    *)
(* none of those kinds or is polled.                                        *)
Covers(act, names, kinds) ==
  /\ act.clears = {} /\ act.writes \subseteq kinds
  /\ act.shares \subseteq act.fills \/ act.leaves \/ act.shares \subseteq act.closes
  /\ act.leaves \/ names \subseteq act.again \/ names \subseteq act.fills
Away(read, kinds) == read.polled \/ \A part \in read.parts, k \in kinds : k \notin part
Calls(acts, names, kinds) == \A x \in DOMAIN acts : Covers(acts[x], names, kinds)
Reads(reads, names, kinds) == \A r \in DOMAIN reads : r \in names \/ Away(reads[r], kinds)

(* What a call does for a read: if it changes what the read shows, it asks  *)
(* again, fills, clears or leaves, unless the read is polled; what it       *)
(* clears it does not fill, and shows any answer; and if it shares the      *)
(* read's place for errors, it fills the read or leaves it.                 *)
Answering(read, name, act) ==
  /\ act.writes \cap UNION read.parts # {} =>
        read.polled \/ act.leaves \/ name \in act.again \/ name \in act.fills \/ name \in act.clears
  /\ name \in act.clears => read.how # "newest" /\ name \notin act.fills
  /\ name \in act.shares => name \in act.fills \/ act.leaves \/ name \in act.closes
Answered(screen) ==
  \A r \in DOMAIN screen.reads, x \in DOMAIN screen.acts : Answering(screen.reads[r], r, screen.acts[x])

(* A screen whose calls ask again for every read that shows what they       *)
(* change is answered.                                                      *)
LEMMA CoveredScreen ==
    ASSUME NEW screen, NEW names, NEW kinds,
           Calls(screen.acts, names, kinds), Reads(screen.reads, names, kinds)
    PROVE  Answered(screen)
BY DEF Answered, Answering, Calls, Reads, Covers, Away

(* Components side by side.                                                 *)
LEMMA MergedCalls ==
    ASSUME NEW f, NEW g, NEW names, NEW kinds, Calls(f, names, kinds), Calls(g, names, kinds)
    PROVE  Calls(f ++ g, names, kinds)
BY DEF Calls, ++

LEMMA MergedReads ==
    ASSUME NEW f, NEW g, NEW names, NEW kinds, Reads(f, names, kinds), Reads(g, names, kinds)
    PROVE  Reads(f ++ g, names, kinds)
BY DEF Reads, ++

(* The forms of a call.                                                     *)
LEMMA Asking ==
  \A names, kinds : \A some \in SUBSET kinds : Covers(Then(Does(some), names), names, kinds)
BY DEF Covers, Then, Does
LEMMA AskingOn ==
  \A names, kinds, more : \A some \in SUBSET kinds :
    Covers(On(Then(Does(some), names), more), names, kinds)
BY DEF Covers, On, Then, Does
LEMMA AskingUnheld ==
  \A names, kinds, more : \A some \in SUBSET kinds :
    Covers(On(Unheld(Then(Does(some), names)), more), names, kinds)
BY DEF Covers, On, Unheld, Then, Does
LEMMA FillingCall ==
  \A names, kinds : \A some \in SUBSET kinds : Covers(Filling(Does(some), names), names, kinds)
BY DEF Covers, Filling, Does
LEMMA FillingOn ==
  \A names, kinds, more : \A some \in SUBSET kinds :
    Covers(On(Filling(Does(some), names), more), names, kinds)
BY DEF Covers, On, Filling, Does
LEMMA FillingAbout ==
  \A names, kinds, more : \A some \in SUBSET kinds :
    Covers(About(Filling(Does(some), names), more), names, kinds)
BY DEF Covers, About, Filling, Does
LEMMA FillingOrElse ==
  \A names, kinds, more : \A some \in SUBSET kinds :
    Covers(About(OrElse(Filling(Does(some), names), more), more), names, kinds)
BY DEF Covers, About, OrElse, Filling, Does
LEMMA FillingSharing ==
  \A names, kinds, more : \A some \in SUBSET kinds :
    /\ Covers(SharingError(Filling(Does(some), names), names), names, kinds)
    /\ Covers(On(SharingError(Filling(Does(some), names), names), more), names, kinds)
BY DEF Covers, SharingError, On, Filling, Does
LEMMA AskingClosing ==
  \A names, kinds, form : \A some \in SUBSET kinds :
    Covers(Closing(SharingError(Then(Does(some), names), form), form), names, kinds)
BY DEF Covers, Closing, SharingError, Then, Does

(* A polled read that is blank after a failure; a screen without buttons.   *)
LEMMA LiveAway == \A some, kinds : Away(BlankOnFailure(Live(some)), kinds)
BY DEF Away, BlankOnFailure, Live, Polled, Loaded, Read

LEMMA QuietScreen == ASSUME NEW reads PROVE Answered(Screen(reads, NoActs))
BY DEF Answered, Screen, NoActs

(* Screen by screen.                                                        *)
LEMMA TillAnswered == Answered(TillPage)
<1> DEFINE names == {"available"}
           kinds == {"sales", "levels"}
<1>1. posApi.checkout \in SUBSET kinds
  BY DEF posApi
<1>2. Calls(TillPage.acts, names, kinds)
  BY <1>1, AskingOn DEF Calls, TillPage, Screen
<1>3. Reads(TillPage.reads, names, kinds)
  BY DEF Reads, Away, TillPage, Screen, Read, ChosenLater, Live, Polled, Loaded, NotForgiven,
         BlankOnFailure, RegisterPicker, Fetched, posApi, lookupApi
<1> QED
  BY <1>2, <1>3, CoveredScreen

LEMMA PricesAnswered == Answered(PricesPage)
<1> DEFINE names == {"products", "catalog", "stock"}
           kinds == {"prices"}
<1>1. /\ posApi.createProduct \in SUBSET kinds
      /\ posApi.updateProduct \in SUBSET kinds
      /\ posApi.addPromotion \in SUBSET kinds
  BY DEF posApi
<1>2. Calls(PricesPage.acts, names, kinds)
  BY <1>1, Asking, AskingOn DEF Calls, PricesPage, Screen, PriceModal, PromotionsModal, ++
<1>3. Reads(PricesPage.reads, names, kinds)
  BY DEF Reads, Away, PricesPage, Screen, Read, Loaded, BlankOnFailure, LocationPicker,
         ProductPicker, Fetched, posApi, lookupApi
<1> QED
  BY <1>2, <1>3, CoveredScreen

LEMMA CloseAnswered == Answered(ClosePage)
<1> DEFINE names == {"day"}
           kinds == {"close"}
<1>1. /\ storeApi.recordCount \in SUBSET kinds
      /\ storeApi.explainDiscrepancy \in SUBSET kinds
      /\ storeApi.closeDay \in SUBSET kinds
  BY DEF storeApi
<1>2. Calls(ClosePage.acts, names, kinds)
  BY <1>1, FillingSharing DEF Calls, ClosePage, Screen
<1>3. Reads(ClosePage.reads, names, kinds)
  BY DEF Reads, Away, ClosePage, Screen, Read, LoadedTogether, ChosenLater, ForgivenWhenAsked, LocationPicker,
         useStaffNames, Fetched, storeApi
<1> QED
  BY <1>2, <1>3, CoveredScreen

LEMMA StaffAnswered == Answered(StaffPage)
<1> DEFINE names == {"staff"}
           kinds == {"staff"}
<1>1. /\ directoryApi.updateStaff \in SUBSET kinds
      /\ directoryApi.resetPassword \in SUBSET kinds
      /\ directoryApi.createStaff \in SUBSET kinds
  BY DEF directoryApi
<1>2. Calls(StaffPage.acts, names, kinds)
  BY <1>1, Asking, AskingOn, AskingUnheld
     DEF Calls, StaffPage, Screen, ChangeRoleModal, AddStaffModal, ++
<1>3. Reads(StaffPage.reads, names, kinds)
  BY DEF Reads, Away, StaffPage, Screen, Read, LocationPicker, Fetched, directoryApi
<1> QED
  BY <1>2, <1>3, CoveredScreen

LEMMA StoresAnswered == Answered(StoresPage)
<1> DEFINE names == {"locations"}
           kinds == {"locations"}
<1>1. /\ directoryApi.createLocation \in SUBSET kinds
      /\ directoryApi.updateLocation \in SUBSET kinds
      /\ directoryApi.addRegister \in SUBSET kinds
  BY DEF directoryApi
<1>2. Calls(StoresPage.acts, names, kinds)
  BY <1>1, Asking, AskingOn DEF Calls, StoresPage, Screen, AddLocationModal,
                                RenameLocationModal, AddRegisterModal, ToggleActiveModal, ++
<1>3. Reads(StoresPage.reads, names, kinds)
  BY DEF Reads, Away, StoresPage, Screen, Read, Chosen, Fetched, directoryApi
<1> QED
  BY <1>2, <1>3, CoveredScreen

LEMMA ProductsAnswered == Answered(ProductsPage)
<1> DEFINE names == {"list"}
           kinds == {"products"}
<1>1. inventoryApi.createProduct \in SUBSET kinds
  BY DEF inventoryApi
<1>2. Calls(ProductsPage.acts, names, kinds)
  BY <1>1, Asking DEF Calls, ProductsPage, Screen, NewProductForm
<1>3. Reads(ProductsPage.reads, names, kinds)
  <2>1. Reads([list |-> Polled(Paged(inventoryApi.listProducts)), locations |-> Fetched({"locations"})], names, kinds)
    BY DEF Reads, Away, Read, Polled, Paged, Chosen, Fetched, inventoryApi
  <2>2. Reads(ValuationSummary, names, kinds)
    BY LiveAway DEF Reads, ValuationSummary
  <2>3. Reads(InventoryCharts, names, kinds)
    BY LiveAway DEF Reads, InventoryCharts
  <2> QED
    BY <2>1, <2>2, <2>3, MergedReads DEF ProductsPage, Screen
<1> QED
  BY <1>2, <1>3, CoveredScreen

LEMMA ProductAnswered == Answered(ProductPage)
<1> DEFINE names == {"product"}
           kinds == {"products", "levels"}
<1>1. /\ inventoryApi.updateProduct \in SUBSET kinds
      /\ inventoryApi.adjustStock \in SUBSET kinds
  BY DEF inventoryApi
<1>2. Calls(ProductPage.acts, names, kinds)
  BY <1>1, AskingOn DEF Calls, ProductPage, Screen, EditProductForm, StockLevelsSection, ++
<1>3. Reads(ProductPage.reads, names, kinds)
  BY DEF Reads, Away, ProductPage, Screen, Read, WallOnFailure, LiveBy, Live, Chosen, Polled,
         Loaded, LocationPicker, Fetched, inventoryApi
<1> QED
  BY <1>2, <1>3, CoveredScreen

LEMMA StockCountAnswered == Answered(StockCountPage)
<1> DEFINE names == {"count"}
           kinds == {"counts", "levels"}
<1>1. /\ inventoryApi.submitStockCount \in SUBSET kinds
      /\ inventoryApi.postStockCount \in SUBSET kinds
      /\ inventoryApi.cancelStockCount \in SUBSET kinds
      /\ inventoryApi.recordCount \in SUBSET kinds
  BY DEF inventoryApi
<1>2. Calls(StockCountPage.acts, names, kinds)
  BY <1>1, FillingAbout, FillingOrElse DEF Calls, StockCountPage, Screen, SubmitModal,
                                        CountEntry, ++
<1>3. Reads(StockCountPage.reads, names, kinds)
  BY DEF Reads, Away, StockCountPage, Screen, Read, Chosen, Loaded, LocationPicker,
         useStaffNames, Fetched, inventoryApi
<1> QED
  BY <1>2, <1>3, CoveredScreen

LEMMA PutawaysAnswered == Answered(PutawaysPage)
<1> DEFINE names == {"list", "bins"}
           kinds == {"putaways", "bins"}
<1>1. /\ floorApi.completePutaway \in SUBSET kinds
      /\ floorApi.assignBin \in SUBSET kinds
  BY DEF floorApi
<1>2. Calls(PutawaysPage.acts, names, kinds)
  BY <1>1, AskingOn DEF Calls, PutawaysPage, Screen, PutawayCard
<1>3. Reads(PutawaysPage.reads, names, kinds)
  BY DEF Reads, Away, PutawaysPage, Screen, Read, Paged, Chosen, Fetched, BlankOnFailure,
         Loaded, LocationPicker, useStaffNames, floorApi
<1> QED
  BY <1>2, <1>3, CoveredScreen

LEMMA BinsAnswered == Answered(BinsPage)
<1> DEFINE names == {"load"}
           kinds == {"bins"}
<1>1. floorApi.createBin \in SUBSET kinds
  BY DEF floorApi
<1>2. Calls(BinsPage.acts, names, kinds)
  BY <1>1, Asking DEF Calls, BinsPage, Screen, NewBinForm
<1>3. Reads(BinsPage.reads, names, kinds)
  BY DEF Reads, Away, BinsPage, Screen, Read, Chosen, LoadedTogether, ForgivenWhenAsked, LocationPicker, Fetched,
         floorApi
<1> QED
  BY <1>2, <1>3, CoveredScreen

LEMMA TransferAnswered == Answered(TransferPage)
<1> DEFINE names == {"transfer"}
           kinds == {"transfers", "bins"}
<1>1. floorApi.completePick \in SUBSET kinds
  BY DEF floorApi
<1>2. Calls(TransferPage.acts, names, kinds)
  BY <1>1, AskingOn DEF Calls, TransferPage, Screen, PickCard
<1>3. Reads(TransferPage.reads, names, kinds)
  BY DEF Reads, Away, TransferPage, Screen, Read, ForgivenWhenAsked, WallOnFailure, Chosen, Loaded, LocationPicker,
         useStaffNames, Fetched, floorApi
<1> QED
  BY <1>2, <1>3, CoveredScreen

LEMMA GoodsReceivedNoteAnswered == Answered(GoodsReceivedNotePage)
<1> DEFINE names == {"note"}
           kinds == {"notes"}
<1>1. /\ receivingApi.recordScan \in SUBSET kinds
      /\ receivingApi.finalizeGoodsReceivedNote \in SUBSET kinds
  BY DEF receivingApi
<1>2. Calls(GoodsReceivedNotePage.acts, names, kinds)
  BY <1>1, FillingAbout DEF Calls, GoodsReceivedNotePage, Screen
<1>3. Reads(GoodsReceivedNotePage.reads, names, kinds)
  BY DEF Reads, Away, GoodsReceivedNotePage, Screen, Read, ForgivenWhenAsked, WallOnFailure, Chosen, Loaded,
         LocationPicker, useStaffNames, Fetched, receivingApi
<1> QED
  BY <1>2, <1>3, CoveredScreen

LEMMA SuppliersAnswered == Answered(SuppliersPage)
<1> DEFINE names == {"list"}
           kinds == {"suppliers"}
<1>1. vendorApi.createSupplier \in SUBSET kinds
  BY DEF vendorApi
<1>2. Calls(SuppliersPage.acts, names, kinds)
  BY <1>1, Asking DEF Calls, SuppliersPage, Screen, NewSupplierForm
<1>3. Reads(SuppliersPage.reads, names, kinds)
  BY DEF Reads, Away, SuppliersPage, Screen, Read, Paged, Chosen, Fetched, vendorApi
<1> QED
  BY <1>2, <1>3, CoveredScreen

LEMMA SupplierAnswered == Answered(SupplierPage)
<1> DEFINE names == {"supplier"}
           kinds == {"suppliers", "records"}
<1>1. /\ vendorApi.archiveSupplier \in SUBSET kinds
      /\ vendorApi.updateSupplier \in SUBSET kinds
      /\ vendorApi.addProduct \in SUBSET kinds
      /\ vendorApi.updateProduct \in SUBSET kinds
      /\ vendorApi.addDeliveryRecord \in SUBSET kinds
  BY DEF vendorApi
<1>2. Calls(SupplierPage.acts, names, kinds)
  <2>1. Calls([archive |-> On(Unheld(Then(Does(vendorApi.archiveSupplier), names)), names)], names, kinds)
    BY <1>1, AskingUnheld DEF Calls
  <2>2. Calls(EditSupplierForm(names), names, kinds)
    BY <1>1, AskingOn DEF Calls, EditSupplierForm
  <2>3. Calls([addProduct |-> On(Then(Does(vendorApi.addProduct), names), names)], names, kinds)
    BY <1>1, AskingOn DEF Calls
  <2>4. Calls(EditProductModal(names), names, kinds)
    BY <1>1, AskingOn DEF Calls, EditProductModal
  <2>5. Calls(ProductsSection(names), names, kinds)
    BY <2>3, <2>4, MergedCalls DEF ProductsSection
  <2>6. Calls(DeliveryRecordsSection(names), names, kinds)
    BY <1>1, AskingOn DEF Calls, DeliveryRecordsSection
  <2> QED
    BY <2>1, <2>2, <2>5, <2>6, MergedCalls DEF SupplierPage, Screen
<1>3. Reads(SupplierPage.reads, names, kinds)
  BY DEF Reads, Away, SupplierPage, Screen, Read, ForgivenWhenAsked, WallOnFailure, Chosen, LoadedTogether,
         PurchaseOrderPicker, Fetched, vendorApi
<1> QED
  BY <1>2, <1>3, CoveredScreen

LEMMA PurchaseOrdersAnswered == Answered(PurchaseOrdersPage)
<1> DEFINE names == {"list", "allOrders"}
           kinds == {"orders"}
<1>1. procurementApi.createPurchaseOrder \in SUBSET kinds
  BY DEF procurementApi
<1>2. Calls(PurchaseOrdersPage.acts, names, kinds)
  BY <1>1, AskingClosing DEF Calls, PurchaseOrdersPage, Screen, NewPurchaseOrderForm
<1>3. Reads(PurchaseOrdersPage.reads, names, kinds)
  <2>1. Reads([list |-> Paged(procurementApi.listPurchaseOrders)], names, kinds)
    BY DEF Reads, Away, Read, Paged, Chosen, Fetched, procurementApi
  <2>2. Reads(ProcurementCharts, names, kinds)
    BY DEF Reads, Away, Read, ProcurementCharts, BlankOnFailure, Loaded, procurementApi
  <2>3. Reads(NewPurchaseOrderForm({"list", "allOrders"}).reads, names, kinds)
    <3>1. NewPurchaseOrderForm({"list", "allOrders"}).reads =
            [suppliers |-> NotForgiven(Loaded(procurementApi.listActiveSuppliers)),
             supplierProducts |-> NotForgiven(ChosenLater(Loaded(procurementApi.getSupplierProducts)))]
      BY DEF NewPurchaseOrderForm, Screen
    <3>2. Away(NotForgiven(Loaded(procurementApi.listActiveSuppliers)), kinds)
      BY DEF Away, Read, NotForgiven, Loaded, procurementApi
    <3>3. Away(NotForgiven(ChosenLater(Loaded(procurementApi.getSupplierProducts))), kinds)
      BY DEF Away, Read, NotForgiven, ChosenLater, Loaded, procurementApi
    <3> QED
      BY <3>1, <3>2, <3>3 DEF Reads
  <2> QED
    BY <2>1, <2>2, <2>3, MergedReads DEF PurchaseOrdersPage, Screen
<1> QED
  BY <1>2, <1>3, CoveredScreen

LEMMA PurchaseOrderAnswered == Answered(PurchaseOrderPage)
<1> DEFINE names == {"po"}
           kinds == {"orders"}
<1>1. /\ procurementApi.submit \in SUBSET kinds
      /\ procurementApi.approve \in SUBSET kinds
      /\ procurementApi.markSent \in SUBSET kinds
  BY DEF procurementApi
<1>2. Calls(PurchaseOrderPage.acts, names, kinds)
  BY <1>1, AskingOn DEF Calls, PurchaseOrderPage, Screen, ApproveButton
<1>3. Reads(PurchaseOrderPage.reads, names, kinds)
  BY DEF Reads, Away, PurchaseOrderPage, Screen, Read, ForgivenWhenAsked, WallOnFailure, Chosen, Loaded,
         useStaffNames, Fetched, procurementApi
<1> QED
  BY <1>2, <1>3, CoveredScreen

LEMMA ReorderSuggestionsAnswered == Answered(ReorderSuggestionsPage)
<1> DEFINE names == {"list"}
           kinds == {"reorders"}
<1>1. procurementApi.dismissReorderSuggestion \in SUBSET kinds
  BY DEF procurementApi
<1>2. Calls(ReorderSuggestionsPage.acts, names, kinds)
  BY <1>1, AskingUnheld DEF Calls, ReorderSuggestionsPage, Screen
<1>3. Reads(ReorderSuggestionsPage.reads, names, kinds)
  BY DEF Reads, Away, ReorderSuggestionsPage, Screen, Read, Paged, Chosen, Fetched,
         procurementApi
<1> QED
  BY <1>2, <1>3, CoveredScreen

LEMMA PayablesAnswered == Answered(PayablesPage)
<1> DEFINE names == {"list", "aging"}
           kinds == {"bills", "books"}
<1>1. financialsApi.payBill \in SUBSET kinds
  BY DEF financialsApi
<1>2. Calls(PayablesPage.acts, names, kinds)
  BY <1>1, AskingOn DEF Calls, PayablesPage, Screen, PayModal
<1>3. Reads(PayablesPage.reads, names, kinds)
  BY DEF Reads, Away, PayablesPage, Screen, Read, Paged, Chosen, Fetched, Loaded, financialsApi
<1> QED
  BY <1>2, <1>3, CoveredScreen

LEMMA EventsAnswered == Answered(EventsPage)
<1> DEFINE names == {"list"}
           kinds == {"inbox", "books"}
<1>1. financialsApi.retryEvent \in SUBSET kinds
  BY DEF financialsApi
<1>2. Calls(EventsPage.acts, names, kinds)
  BY <1>1, AskingUnheld DEF Calls, EventsPage, Screen
<1>3. Reads(EventsPage.reads, names, kinds)
  BY DEF Reads, Away, EventsPage, Screen, Read, Polled, Paged, Chosen, Fetched, financialsApi
<1> QED
  BY <1>2, <1>3, CoveredScreen

LEMMA AuthAnswered == Answered(AuthProvider)
<1>1. \A some, more :
         /\ Filling(Does(some), more).shares = {} /\ Filling(Does(some), more).clears = {}
         /\ LET act == On(Filling(Does(some), more), more) IN act.shares = {} /\ act.clears = {}
         /\ LET act == On(Unheld(Shrugging(Filling(Does(some), more))), more)
            IN  act.shares = {} /\ act.clears = {}
  BY DEF Filling, On, Unheld, Shrugging, Does
<1>2. Live(authApi.me).polled
  BY DEF Live, Polled, Loaded, Read
<1>3. /\ signIn.shares = {} /\ signIn.clears = {}
      /\ changePassword.shares = {} /\ changePassword.clears = {}
      /\ signOut.shares = {} /\ signOut.clears = {}
  BY <1>1 DEF signIn, changePassword, signOut
<1>4. AuthProvider.reads = [session |-> Live(authApi.me)]
      /\ AuthProvider.acts = [signIn |-> signIn, changePassword |-> changePassword, signOut |-> signOut]
  BY DEF AuthProvider, Screen
<1> QED
  BY <1>2, <1>3, <1>4 DEF Answered, Answering

(* A return reads the recent sales again and clears the sale it was for.    *)
LEMMA ReturnsAnswered == Answered(ReturnsPage)
<1> DEFINE act == On(Clearing(Then(Does(posApi.processReturn), {"recent"}), {"transaction"}), {"transaction"})
<1>1. /\ act.writes = posApi.processReturn /\ act.again = {"recent"} /\ act.clears = {"transaction"}
      /\ act.shares = {} /\ act.fills = {}
  BY DEF On, Clearing, Then, Does
<1>2. ReturnsPage.acts = [submitReturn |-> act]
  BY DEF ReturnsPage, Screen
<1>3. Away(RegisterPicker, posApi.processReturn)
  BY DEF Away, RegisterPicker, Fetched, Read, posApi
<1>4. /\ DOMAIN ReturnsPage.reads = {"recent", "transaction", "registers"}
      /\ ReturnsPage.reads.recent = ChosenLater(Loaded(posApi.listRecentTransactions))
      /\ ReturnsPage.reads.transaction =
            ForgivenWhenAsked(BlankOnFailure(Optional(Loaded(posApi.getTransaction))))
      /\ ReturnsPage.reads.registers = RegisterPicker
  BY DEF ReturnsPage, Screen
<1>5. Answering(ChosenLater(Loaded(posApi.listRecentTransactions)), "recent", act)
  BY <1>1 DEF Answering, ChosenLater, Loaded, Read
<1>6. Answering(ForgivenWhenAsked(BlankOnFailure(Optional(Loaded(posApi.getTransaction)))), "transaction", act)
  BY <1>1 DEF Answering, ForgivenWhenAsked, BlankOnFailure, Optional, Loaded, Read
<1>7. Answering(RegisterPicker, "registers", act)
  BY <1>1, <1>3 DEF Answering, Away
<1> HIDE DEF act
<1> QED
  BY <1>2, <1>4, <1>5, <1>6, <1>7 DEF Answered

(* Making a count, a transfer or a note opens its own page.                 *)
LEMMA LeavingAnswered ==
    Answered(NewCountForm) /\ Answered(StockCountsPage) /\ Answered(TransfersPage) /\ Answered(DeliveriesPage)
<1>1. \A some, more : LET act == Leaving(On(Does(some), more)) IN act.clears = {} /\ act.leaves
  BY DEF Leaving, On, Does
<1>2. \A some, more : /\ Leaving(Does(some)).clears = {} /\ Leaving(Does(some)).leaves
                     /\ SharingError(Leaving(Does(some)), more).clears = {}
                     /\ SharingError(Leaving(Does(some)), more).leaves
  BY DEF Leaving, SharingError, Does
<1>3. ASSUME NEW screen, \A x \in DOMAIN screen.acts : screen.acts[x].clears = {} /\ screen.acts[x].leaves
      PROVE  Answered(screen)
  BY <1>3 DEF Answered, Answering
<1>4. Answered(NewCountForm) /\ Answered(StockCountsPage)
  BY <1>2, <1>3 DEF NewCountForm, StockCountsPage, Screen
<1>5. Answered(TransfersPage)
  BY <1>2, <1>3 DEF TransfersPage, NewTransferForm, Screen
<1>6. Answered(DeliveriesPage)
  BY <1>1, <1>3 DEF DeliveriesPage, StartReceivingForm, Screen
<1> QED
  BY <1>4, <1>5, <1>6

(* All screens of the apps.                                                 *)
LEMMA SalesAnswered == \A n \in DOMAIN SalesScreens : Answered(SalesScreens[n])
BY AuthAnswered, ReturnsAnswered, TillAnswered, PricesAnswered, CloseAnswered, StaffAnswered,
   StoresAnswered, QuietScreen DEF SalesScreens, StorePage, SalesAnalytics, SalesReportsPage
LEMMA StockAnswered == \A n \in DOMAIN StockScreens : Answered(StockScreens[n])
BY LeavingAnswered, ProductsAnswered, ProductAnswered, StockCountAnswered, PutawaysAnswered,
   BinsAnswered, TransferAnswered, GoodsReceivedNoteAnswered, QuietScreen
   DEF StockScreens, StockLevelsPage, StockMovementPage, GoodsReceivedNotesPage
LEMMA OfficeAnswered == \A n \in DOMAIN OfficeScreens : Answered(OfficeScreens[n])
BY SuppliersAnswered, SupplierAnswered, PurchaseOrdersAnswered, PurchaseOrderAnswered,
   ReorderSuggestionsAnswered, PayablesAnswered, EventsAnswered, QuietScreen
   DEF OfficeScreens, SupplierScorecardPage, FinanceSummaryPage, ProfitabilityPage, VatPage, LedgerPage,
       OverviewPage, SalesPage, InventoryPage, PurchasingPage, SuppliersPanel, WarehousePage,
       StoreClosesPage, FinancePage

(* No call of any screen changes what a read of it shows and leaves it so.  *)
LEMMA PanesAnswer ==
  \A p \in Panes :
    /\ p.writes # {} => p.read.polled \/ p.again \/ p.fills \/ p.clears \/ p.leaves
    /\ p.clears => p.read.how # "newest" /\ ~ p.fills
    /\ p.shares => p.fills \/ p.leaves
<1>1. \A n \in DOMAIN AllScreens : Answered(AllScreens[n])
  BY SalesAnswered, StockAnswered, OfficeAnswered DEF AllScreens, ++
<1>2. NoAct.writes = {} /\ NoAct.clears = {} /\ NoAct.shares = {}
  BY DEF NoAct, Does
<1>3. SUFFICES ASSUME NEW p \in Panes
               PROVE  /\ p.writes # {} => p.read.polled \/ p.again \/ p.fills \/ p.clears \/ p.leaves
                      /\ p.clears => p.read.how # "newest" /\ ~ p.fills
                      /\ p.shares => p.fills \/ p.leaves
  OBVIOUS
<1>4. PICK s \in {AllScreens[n] : n \in DOMAIN AllScreens} :
        p \in UNION {{Pane(s.reads[r], r, a) : a \in ActsOn(s, r, UNION s.reads[r].parts)} : r \in DOMAIN s.reads}
  BY DEF Panes
<1>5. PICK r \in DOMAIN s.reads : p \in {Pane(s.reads[r], r, a) : a \in ActsOn(s, r, UNION s.reads[r].parts)}
  BY <1>4
<1>6. PICK act \in ActsOn(s, r, UNION s.reads[r].parts) : p = Pane(s.reads[r], r, act)
  BY <1>5
<1>7. act = NoAct \/ \E x \in DOMAIN s.acts : act = s.acts[x]
  BY DEF ActsOn
<1>8. act = NoAct \/ Answering(s.reads[r], r, act)
  BY <1>1, <1>7 DEF Answered
<1> QED
  BY <1>2, <1>8, <1>6 DEF Pane, Answering

-----------------------------------------------------------------------------
(* Sequences of requests.                                                   *)

LEMMA TableIsSeq ==
    ASSUME NEW S, NEW n \in Nat, NEW q \in [1..n -> S]
    PROVE  q \in Seq(S) /\ Len(q) = n /\ DOMAIN q = 1..n
<1>1. q \in Seq(S)
  BY SeqDef
<1>2. DOMAIN q = 1..n /\ DOMAIN q = 1..Len(q) /\ Len(q) \in Nat
  BY <1>1, LenProperties
<1>3. Len(q) = n
  BY <1>2
<1> QED
  BY <1>1, <1>2, <1>3

LEMMA MaxPair ==
    ASSUME NEW a \in Nat, NEW b \in Nat
    PROVE  Max({a, b}) \in {a, b} /\ Max({a, b}) >= a /\ Max({a, b}) >= b
<1> DEFINE S == {a, b}
           IsMax(x) == \A y \in S : x >= y
<1>1. \E x \in S : IsMax(x)
  <2>1. CASE a >= b
    BY <2>1
  <2>2. CASE ~ (a >= b)
    BY <2>2
  <2> QED
    BY <2>1, <2>2
<1>2. Max(S) = CHOOSE x \in S : IsMax(x)
  BY DEF Max
<1>3. Max(S) \in S /\ IsMax(Max(S))
  <2> HIDE DEF S, IsMax
  <2> QED
    BY <1>1, <1>2
<1> QED
  BY <1>3

(* A new request is the last one, and fresh.                                *)
LEMMA AskFacts ==
    ASSUME NEW before \in Seq(Requests(pane.kinds)), NEW choice \in Sels, NEW now \in Sels
    PROVE  /\ Ask(before, choice, now) \in Seq(Requests(pane.kinds))
           /\ Len(Ask(before, choice, now)) = Len(before) + 1
           /\ Ask(before, choice, now)[Len(before) + 1] = Request(choice, now)
           /\ \A i \in 1..Len(before) : Ask(before, choice, now)[i].dropped = Newest
<1> DEFINE old == [i \in DOMAIN before |-> [before[i] EXCEPT !.dropped = Newest]]
           new == Request(choice, now)
<1>1. PICK kinds : kinds = pane.kinds
  OBVIOUS
<1>2. Len(before) \in Nat /\ before \in [1..Len(before) -> Requests(kinds)] /\ DOMAIN before = 1..Len(before)
  BY <1>1, LenProperties
<1>3. Newest \in BOOLEAN
  BY DEF Newest
<1>4. \A r \in Requests(kinds), b \in BOOLEAN :
         /\ [r EXCEPT !.dropped = b] \in Requests(kinds)
         /\ [r EXCEPT !.dropped = b].dropped = b
  BY DEF Requests
<1>5. \A i \in 1..Len(before) : old[i] \in Requests(kinds) /\ old[i].dropped = Newest
  <2> SUFFICES ASSUME NEW i \in 1..Len(before)
               PROVE  old[i] \in Requests(kinds) /\ old[i].dropped = Newest
    OBVIOUS
  <2>1. old[i] = [before[i] EXCEPT !.dropped = Newest] /\ before[i] \in Requests(kinds)
    BY <1>2
  <2> HIDE DEF old
  <2> QED
    BY <1>3, <1>4, <2>1
<1>6. DOMAIN old = 1..Len(before) /\ old = [i \in 1..Len(before) |-> old[i]]
  BY <1>2
<1>7. Ask(before, choice, now) = Append(old, new)
  BY DEF Ask
<1>8. new \in Requests(kinds)
  BY <1>1 DEF Requests, Request, For, Unserved
<1> HIDE DEF old, new
<1>9. old \in [1..Len(before) -> Requests(kinds)]
  BY <1>5, <1>6
<1>10. old \in Seq(Requests(kinds)) /\ Len(old) = Len(before)
  BY <1>2, <1>9, TableIsSeq
<1>11. /\ Append(old, new) \in Seq(Requests(kinds)) /\ Len(Append(old, new)) = Len(before) + 1
       /\ Append(old, new)[Len(before) + 1] = new
       /\ \A i \in 1..Len(before) : Append(old, new)[i] = old[i]
  BY <1>8, <1>10
<1> QED
  BY <1>1, <1>5, <1>7, <1>11 DEF new

(* A new request is fresh, unserved, and stray unless it is for the choice  *)
(* of now.                                                                  *)
LEMMA RequestFacts ==
    ASSUME NEW choice \in Sels, NEW now \in Sels
    PROVE  LET new == Request(choice, now)
           IN  /\ ~ new.dropped /\ ~ new.late /\ (new.stray <=> choice # now) /\ new.for = choice
               /\ \A k \in pane.kinds : new.saw[k] = Unserved
BY DEF Request, For

(* What is left when request i is answered or failed: the requests after it *)
(* as they were, those before it too unless they are late now.              *)
LEMMA LeftFacts ==
    ASSUME NEW kinds, asked \in Seq(Requests(kinds)), NEW i \in DOMAIN asked,
           NEW q, q = Without(i) \/ q = Forget(i)
    PROVE  /\ q \in Seq(Requests(kinds))
           /\ Len(asked) \in Nat \ {0} /\ Len(q) = Len(asked) - 1
           /\ i \in 1..Len(asked)
           /\ i # Len(asked) => Len(q) > 0 /\ q[Len(q)] = asked[Len(asked)]
           /\ \A j \in 1..Len(q) : /\ j >= i => q[j] = asked[j + 1]
                                   /\ j < i => /\ q[j].dropped = asked[j].dropped
                                               /\ q[j].stray = asked[j].stray
                                   /\ j < i /\ q = Without(i) => q[j].late
                                   /\ j < i /\ q = Forget(i) => q[j] = asked[j]
                                   /\ j < i => j < Len(asked)
                                   /\ j + 1 \in 1..Len(asked) /\ j \in 1..Len(asked)
<1>1. /\ Len(asked) \in Nat /\ asked \in [1..Len(asked) -> Requests(kinds)]
      /\ DOMAIN asked = 1..Len(asked)
  BY LenProperties
<1>2. i \in 1..Len(asked) /\ Len(asked) \in Nat \ {0} /\ Len(asked) - 1 \in Nat
  BY <1>1
<1>3. PICK n \in Nat : n = Len(asked) - 1
  BY <1>2
<1>4. \A r \in Requests(kinds) : /\ [r EXCEPT !.late = TRUE] \in Requests(kinds)
                                 /\ [r EXCEPT !.late = TRUE].late
                                 /\ [r EXCEPT !.late = TRUE].dropped = r.dropped
                                 /\ [r EXCEPT !.late = TRUE].stray = r.stray
  BY DEF Requests
<1>5. q = [j \in 1..n |-> IF j < i THEN IF q = Without(i) THEN [asked[j] EXCEPT !.late = TRUE] ELSE asked[j]
                                   ELSE asked[j + 1]]
  BY <1>3 DEF Without, Forget
<1>6. \A j \in 1..n : j \in 1..Len(asked) /\ j + 1 \in 1..Len(asked) /\ (j < i => j < Len(asked))
  BY <1>2, <1>3
<1>7. \A j \in 1..n : q[j] = IF j < i
                             THEN IF q = Without(i) THEN [asked[j] EXCEPT !.late = TRUE] ELSE asked[j]
                             ELSE asked[j + 1]
  BY <1>5
<1>8. \A j \in 1..n : q[j] \in Requests(kinds)
  BY <1>1, <1>4, <1>6, <1>7
<1>9. q \in [1..n -> Requests(kinds)]
  BY <1>5, <1>8
<1>10. q \in Seq(Requests(kinds)) /\ Len(q) = n
  BY <1>9, TableIsSeq
<1>11. \A j \in 1..n : /\ j >= i => q[j] = asked[j + 1]
                       /\ j < i => q[j].dropped = asked[j].dropped /\ q[j].stray = asked[j].stray
                       /\ j < i /\ q = Without(i) => q[j].late
  <2> SUFFICES ASSUME NEW j \in 1..n
               PROVE  /\ j >= i => q[j] = asked[j + 1]
                      /\ j < i => q[j].dropped = asked[j].dropped /\ q[j].stray = asked[j].stray
                      /\ j < i /\ q = Without(i) => q[j].late
    OBVIOUS
  <2>1. asked[j] \in Requests(kinds)
    BY <1>1, <1>6
  <2>2. CASE j < i
    <3>1. q[j] = IF q = Without(i) THEN [asked[j] EXCEPT !.late = TRUE] ELSE asked[j]
      BY <1>7, <2>2
    <3>2. ~ (j >= i)
      BY <1>2, <2>2
    <3> QED
      BY <1>4, <2>1, <3>1, <3>2
  <2>3. CASE ~ (j < i)
    BY <1>7, <2>3
  <2> QED
    BY <2>2, <2>3
<1>12. \A j \in 1..n : j < i /\ q = Forget(i) => q[j] = asked[j]
  <2> SUFFICES ASSUME NEW j \in 1..n, j < i, q = Forget(i) PROVE q[j] = asked[j]
    OBVIOUS
  <2> QED
    BY <1>3 DEF Forget
<1>13. i # Len(asked) => n \in 1..n /\ n > 0 /\ n >= i /\ n + 1 = Len(asked)
  BY <1>2, <1>3
<1> QED
  BY <1>2, <1>3, <1>6, <1>10, <1>11, <1>12, <1>13

-----------------------------------------------------------------------------
(* What a step does to the requests.                                        *)

LEMMA AskedTypes ==
    ASSUME TypesInv
    PROVE  /\ Len(asked) \in Nat /\ DOMAIN asked = 1..Len(asked)
           /\ asked \in [1..Len(asked) -> Requests(pane.kinds)]
BY LenProperties DEF TypesInv

(* Asking: whatever was in flight, the new request is the last one.         *)
LEMMA AskStep ==
    ASSUME TypesInv, pane' = pane, NEW before \in Seq(Requests(pane.kinds)), sel' \in Sels,
           NEW choice \in Sels, Newest => choice = sel', asked' = Ask(before, choice, sel')
    PROVE  /\ asked' \in Seq(Requests(pane.kinds))
           /\ AskedInv' /\ ShownInv'
           /\ (Newest /\ ~ pane.fills => ~ crossed' /\ ~ astray') => NewestInv'
<1>1. PICK kinds : kinds = pane.kinds
  OBVIOUS
<1>2. PICK now \in Sels : now = sel'
  OBVIOUS
<1> DEFINE n == Len(before) + 1
           q == Ask(before, choice, now)
           new == Request(choice, now)
<1>3. /\ q \in Seq(Requests(kinds)) /\ Len(q) = n /\ q[n] = new
      /\ \A i \in 1..Len(before) : q[i].dropped = Newest
  <2>1. /\ Ask(before, choice, now) \in Seq(Requests(pane.kinds))
        /\ Len(Ask(before, choice, now)) = Len(before) + 1
        /\ Ask(before, choice, now)[Len(before) + 1] = Request(choice, now)
        /\ \A i \in 1..Len(before) : Ask(before, choice, now)[i].dropped = Newest
    BY AskFacts
  <2> QED
    BY <1>1, <2>1
<1>4. Len(before) \in Nat /\ DOMAIN q = 1..n /\ n \in DOMAIN q
  BY <1>3, LenProperties
<1>5. /\ ~ new.dropped /\ ~ new.late /\ (new.stray <=> choice # now) /\ new.for = choice
      /\ \A k \in kinds : new.saw[k] = Unserved
  BY <1>1, RequestFacts
<1>6. asked' = q
  BY <1>2
<1>7. \A i \in DOMAIN q : i # n => i \in 1..Len(before)
  BY <1>4
<1> HIDE DEF q, n, new
<1>8. AskedInv'
  <2>1. Fresh(new)
    BY <1>5 DEF Fresh
  <2>2. new.stray \/ new.for = sel'
    BY <1>2, <1>5
  <2> QED
    BY <1>1, <1>3, <1>5, <1>6, <2>1, <2>2 DEF AskedInv, Fresh, Current, Concerned
<1>9. ShownInv'
  BY <1>3, <1>4, <1>5, <1>6 DEF ShownInv, Settled
<1>10. Newest => \A i \in DOMAIN q : /\ i < Len(q) => q[i].dropped
                                     /\ q[i].late => q[i].dropped
                                     /\ q[i].stray => q[i].dropped
  <2> SUFFICES ASSUME Newest, NEW i \in DOMAIN q
               PROVE  /\ i < Len(q) => q[i].dropped
                      /\ q[i].late => q[i].dropped
                      /\ q[i].stray => q[i].dropped
    OBVIOUS
  <2>1. CASE i = n
    <3>1. ~ (i < Len(q))
      BY <1>3, <1>4, <2>1
    <3>2. ~ new.stray
      BY <1>2, <1>5
    <3> QED
      BY <1>3, <1>5, <2>1, <3>1, <3>2
  <2>2. CASE i # n
    BY <1>3, <1>7, <2>2
  <2> QED
    BY <2>1, <2>2
<1>11. (Newest /\ ~ pane.fills => ~ crossed' /\ ~ astray') => NewestInv'
  BY <1>6, <1>10 DEF NewestInv, Newest
<1> QED
  BY <1>1, <1>3, <1>6, <1>8, <1>9, <1>11

(* An answer or a failure: a fresh last request stays, unless it is the one *)
(* that has come.                                                           *)
LEMMA LeftStep ==
    ASSUME TypesInv, AskedInv, NewestInv, pane' = pane, sel' = sel, own' = own, NEW i \in DOMAIN asked,
           asked' = Without(i) \/ (asked[i].dropped /\ asked' = Forget(i))
    PROVE  /\ asked' \in Seq(Requests(pane.kinds))
           /\ AskedInv'
           /\ (Newest /\ ~ pane.fills => ~ crossed' /\ ~ astray') => NewestInv'
           /\ (\A j \in DOMAIN asked' : asked'[j].dropped) =>
                 \A j \in DOMAIN asked : j = i \/ asked[j].dropped
           /\ i \in 1..Len(asked) /\ Len(asked) \in DOMAIN asked
<1>1. PICK kinds : kinds = pane.kinds
  OBVIOUS
<1>2. PICK q : q = asked'
  OBVIOUS
<1>3. asked \in Seq(Requests(kinds))
  BY <1>1 DEF TypesInv
<1>4. q = Without(i) \/ (asked[i].dropped /\ q = Forget(i))
  BY <1>2
<1>5. /\ q \in Seq(Requests(kinds))
      /\ Len(asked) \in Nat \ {0} /\ Len(q) = Len(asked) - 1
      /\ i \in 1..Len(asked)
      /\ i # Len(asked) => Len(q) > 0 /\ q[Len(q)] = asked[Len(asked)]
      /\ \A j \in 1..Len(q) : /\ j >= i => q[j] = asked[j + 1]
                              /\ j < i => /\ q[j].dropped = asked[j].dropped
                                          /\ q[j].stray = asked[j].stray
                              /\ j < i /\ q = Without(i) => q[j].late
                              /\ j < i /\ q = Forget(i) => q[j] = asked[j]
                              /\ j < i => j < Len(asked)
                              /\ j + 1 \in 1..Len(asked) /\ j \in 1..Len(asked)
  BY <1>3, <1>4, LeftFacts
<1>6. DOMAIN q = 1..Len(q) /\ DOMAIN asked = 1..Len(asked) /\ Len(q) \in Nat
  BY <1>3, <1>5, LenProperties
<1>7. asked[i].dropped => ~ Fresh(asked[i])
  BY DEF Fresh
<1>8. ASSUME NEW j \in 1..Len(q), Fresh(q[j])
      PROVE  i # Len(asked) /\ Fresh(asked[Len(asked)]) /\ Current(asked[Len(asked)])
  <2>1. CASE j >= i
    <3>1. Fresh(asked[j + 1]) /\ j + 1 \in DOMAIN asked
      BY <1>5, <1>6, <1>8, <2>1
    <3>2. i # Len(asked)
      BY <1>5, <2>1
    <3> QED
      BY <3>1, <3>2 DEF AskedInv
  <2>2. CASE ~ (j >= i)
    <3>1. j < i
      BY <1>5, <2>2
    <3>2. ~ q[j].late
      BY <1>8 DEF Fresh
    <3>3. asked[i].dropped /\ q[j] = asked[j]
      BY <1>4, <1>5, <3>1, <3>2
    <3>4. Fresh(asked[j]) /\ j \in DOMAIN asked
      BY <1>5, <1>6, <1>8, <3>3
    <3>5. Fresh(asked[Len(asked)]) /\ Current(asked[Len(asked)])
      BY <3>4 DEF AskedInv
    <3> QED
      BY <1>7, <3>3, <3>5
  <2> QED
    BY <2>1, <2>2
<1>9. AskedInv'
  <2>1. ASSUME NEW j \in DOMAIN q, Fresh(q[j]) PROVE Fresh(q[Len(q)]) /\ Current(q[Len(q)])
    BY <1>5, <1>6, <1>8, <2>1
  <2> QED
    BY <1>2, <2>1 DEF AskedInv, Fresh, Current, Concerned
<1>10. ASSUME Newest, NEW j \in DOMAIN q
       PROVE  (j < Len(q) => q[j].dropped) /\ (q[j].stray => q[j].dropped)
  <2>1. CASE j >= i
    <3>1. j + 1 \in DOMAIN asked /\ q[j] = asked[j + 1]
      BY <1>5, <1>6, <2>1
    <3>2. j < Len(q) => j + 1 < Len(asked)
      BY <1>5, <1>6
    <3> QED
      BY <1>10, <3>1, <3>2 DEF NewestInv
  <2>2. CASE ~ (j >= i)
    <3>1. j < i
      BY <1>5, <1>6, <2>2
    <3>2. j < Len(asked) /\ j \in DOMAIN asked /\ q[j].dropped = asked[j].dropped
      BY <1>5, <1>6, <3>1
    <3> QED
      BY <1>10, <3>2 DEF NewestInv
  <2> QED
    BY <2>1, <2>2
<1>11. ASSUME Newest, ~ pane.fills, NEW j \in DOMAIN q PROVE q[j].late => q[j].dropped
  <2>1. CASE j >= i
    <3>1. q[j] = asked[j + 1] /\ j + 1 \in DOMAIN asked
      BY <1>5, <1>6, <2>1
    <3> QED
      BY <1>11, <3>1 DEF NewestInv
  <2>2. CASE ~ (j >= i)
    <3>1. j < i
      BY <1>5, <1>6, <2>2
    <3>2. j < Len(asked) /\ j \in DOMAIN asked /\ q[j].dropped = asked[j].dropped
      BY <1>5, <1>6, <3>1
    <3> QED
      BY <1>11, <3>2 DEF NewestInv
  <2> QED
    BY <2>1, <2>2
<1>12. (Newest /\ ~ pane.fills => ~ crossed' /\ ~ astray') => NewestInv'
  BY <1>2, <1>10, <1>11 DEF NewestInv, Newest
<1>13. ASSUME \A j \in DOMAIN q : q[j].dropped, NEW m \in DOMAIN asked, m # i PROVE asked[m].dropped
  <2>1. CASE m < i
    <3>1. m \in 1..Len(q)
      BY <1>5, <1>6, <2>1
    <3> QED
      BY <1>5, <1>6, <1>13, <2>1, <3>1
  <2>2. CASE m > i
    <3>1. m - 1 \in 1..Len(q) /\ m - 1 >= i /\ (m - 1) + 1 = m
      BY <1>5, <1>6, <2>2
    <3>2. q[m - 1] = asked[m]
      BY <1>5, <3>1
    <3> QED
      BY <1>6, <1>13, <3>1, <3>2
  <2> QED
    BY <1>5, <1>6, <1>13, <2>1, <2>2
<1> QED
  BY <1>1, <1>2, <1>5, <1>6, <1>9, <1>12, <1>13

-----------------------------------------------------------------------------
(* The actions.                                                             *)

LEMMA InitScreen == Init => IInv
<1> SUFFICES ASSUME Init PROVE IInv
  OBVIOUS
<1>1. PICK kinds : kinds = pane.kinds
  OBVIOUS
<1>2. << >> \in Seq(Requests(kinds)) /\ Len(<< >>) = 0
  BY EmptySeq
<1>3. crossed = FALSE /\ astray = FALSE /\ calls = {} /\ shown = Blank
  BY DEF Init
<1>4. sel \in Sels
  BY DEF Init, Sels
<1>5. OwnInv
  BY <1>3 DEF OwnInv, Init, For
<1>6. ShownInv
  BY <1>3 DEF ShownInv
<1>7. asked \in Seq(Requests(kinds)) => TypesInv
  <2>1. version \in [kinds -> Nat] /\ own \in [kinds -> Nat]
    BY <1>1 DEF Init, For
  <2> QED
    BY <1>1, <1>3, <1>4, <2>1 DEF TypesInv, Init
<1>8. CASE asked = << >>
  <2>1. DOMAIN asked = {}
    BY <1>2, <1>8, LenProperties
  <2>2. NewestInv /\ AskedInv
    BY <1>3, <2>1 DEF NewestInv, AskedInv
  <2> QED
    BY <1>2, <1>5, <1>6, <1>7, <1>8, <2>2 DEF IInv, PageInv
<1>9. CASE sel = 1 /\ asked = Ask(<< >>, sel, sel)
  <2>1. PICK q : q = asked
    OBVIOUS
  <2>2. q \in Seq(Requests(kinds)) /\ Len(q) = 1 /\ q[1] = Request(1, 1)
    <3>1. PICK none \in Seq(Requests(kinds)) : none = << >> /\ Len(none) = 0
      BY <1>2
    <3>2. PICK choice \in Sels : choice = 1
      BY DEF Sels
    <3>3. q = Ask(none, choice, choice)
      BY <1>9, <2>1, <3>1, <3>2
    <3>4. /\ Ask(none, choice, choice) \in Seq(Requests(kinds))
          /\ Len(Ask(none, choice, choice)) = Len(none) + 1
          /\ Ask(none, choice, choice)[Len(none) + 1] = Request(choice, choice)
      BY <1>1, AskFacts
    <3>5. Len(none) + 1 = 1
      BY <3>1
    <3> QED
      BY <3>2, <3>3, <3>4, <3>5
  <2>3. DOMAIN q = {1}
    BY <2>2, LenProperties
  <2>4. /\ ~ q[1].dropped /\ ~ q[1].late /\ ~ q[1].stray /\ q[1].for = 1
        /\ \A k \in kinds : q[1].saw[k] = Unserved
    BY <1>1, <2>2, RequestFacts DEF Sels
  <2>5. NewestInv
    <3>1. ~ (1 < Len(q))
      BY <2>2
    <3> QED
      BY <1>3, <2>1, <2>3, <2>4, <3>1 DEF NewestInv
  <2>6. AskedInv
    <3> SUFFICES Fresh(q[1]) /\ Current(q[1])
      BY <2>1, <2>2 DEF AskedInv
    <3> QED
      BY <1>1, <1>9, <2>4 DEF Fresh, Current
  <2> QED
    BY <1>5, <1>6, <1>7, <2>1, <2>2, <2>5, <2>6 DEF IInv, PageInv
<1> QED
  BY <1>8, <1>9 DEF Init

(* A step that leaves the page and its requests alone, but may hide an      *)
(* error until its call is answered.                                        *)
LEMMA QuietStep ==
    ASSUME IInv, UNCHANGED <<pane, sel, shown, asked, own, crossed, astray, gone>>,
           (pane.shares => calls' = {}) => (pane.shares => calls = {}) /\ (~ failed' => ~ failed)
    PROVE  NewestInv' /\ PageInv'
<1>1. NewestInv'
  BY DEF IInv, NewestInv, Newest
<1>2. AskedInv => AskedInv'
  BY DEF AskedInv, Current, Concerned, Fresh
<1>3. ShownInv => ShownInv'
  BY DEF ShownInv, Settled, Concerned
<1> QED
  BY <1>1, <1>2, <1>3 DEF IInv, PageInv

LEMMA ChooseStep == IInv /\ (Choose \/ Poll) => IInv'
<1> SUFFICES ASSUME IInv, Choose \/ Poll PROVE IInv'
  OBVIOUS
<1>1. /\ UNCHANGED <<pane, version, calls, own, crossed, astray, gone, clicks>>
      /\ ~ gone /\ asked' = Ask(asked, sel', sel')
  BY DEF Choose, Poll
<1>2. sel' \in Sels
  BY DEF Choose, Poll, IInv, TypesInv, Sels
<1>3. shown' \in {Blank} \cup Views(pane.kinds)
  BY DEF Choose, Poll, IInv, TypesInv
<1>4. asked \in Seq(Requests(pane.kinds))
  BY DEF IInv, TypesInv
<1>5. Newest /\ ~ pane.fills => ~ crossed' /\ ~ astray'
  BY <1>1 DEF IInv, NewestInv
<1>6. asked' \in Seq(Requests(pane.kinds)) /\ AskedInv' /\ ShownInv' /\ NewestInv'
  BY <1>1, <1>2, <1>4, <1>5, AskStep DEF IInv
<1>7. TypesInv'
  BY <1>1, <1>2, <1>3, <1>6 DEF IInv, TypesInv
<1>8. OwnInv'
  BY <1>1 DEF IInv, OwnInv
<1> QED
  BY <1>6, <1>7, <1>8 DEF IInv, PageInv

(* The choice is taken back: the requests in flight are stray, and nothing  *)
(* is on show.                                                              *)
LEMMA UnchooseStep == IInv /\ Unchoose => IInv'
<1> SUFFICES ASSUME IInv, Unchoose PROVE IInv'
  OBVIOUS
<1>1. /\ UNCHANGED <<pane, version, calls, own, crossed, astray, gone, clicks>>
      /\ ~ gone /\ asked' = AllStray /\ sel' = 0 /\ shown' = Blank
  BY DEF Unchoose
<1>2. PICK kinds : kinds = pane.kinds
  OBVIOUS
<1>3. PICK n \in Nat : n = Len(asked) /\ DOMAIN asked = 1..n /\ asked \in [1..n -> Requests(kinds)]
  BY <1>2, AskedTypes DEF IInv
<1>4. PICK q : q = asked'
  OBVIOUS
<1>5. PICK newest \in BOOLEAN : newest = Newest
  BY DEF Newest
<1>6. ASSUME NEW i \in 1..n
      PROVE  /\ q[i] \in Requests(kinds) /\ q[i].stray /\ q[i].saw = asked[i].saw
             /\ q[i].late = asked[i].late /\ (q[i].dropped <=> asked[i].dropped \/ newest)
  <2>1. PICK r \in Requests(kinds) : r = asked[i]
    BY <1>3
  <2>2. q[i] = [r EXCEPT !.stray = TRUE, !.dropped = r.dropped \/ newest]
    BY <1>1, <1>3, <1>4, <1>5, <2>1 DEF AllStray
  <2>3. PICK e : e = [r EXCEPT !.stray = TRUE, !.dropped = r.dropped \/ newest]
    OBVIOUS
  <2>4. e \in Requests(kinds) /\ e.stray /\ e.saw = r.saw /\ e.late = r.late
        /\ (e.dropped <=> r.dropped \/ newest)
    BY <2>3 DEF Requests
  <2> QED
    BY <2>1, <2>2, <2>3, <2>4
<1>7. q \in Seq(Requests(kinds)) /\ Len(q) = n /\ DOMAIN q = 1..n
  <2>1. q = [i \in 1..n |-> q[i]]
    BY <1>1, <1>3, <1>4 DEF AllStray
  <2>2. q \in [1..n -> Requests(kinds)]
    BY <1>6, <2>1
  <2> QED
    BY <2>2, TableIsSeq
<1>8. TypesInv' /\ OwnInv'
  BY <1>1, <1>2, <1>4, <1>7 DEF IInv, TypesInv, OwnInv, Sels
<1>9. NewestInv'
  <2>1. ASSUME newest, NEW i \in 1..n PROVE q[i].dropped
    BY <1>6, <2>1
  <2> QED
    BY <1>1, <1>4, <1>5, <1>7, <2>1 DEF IInv, NewestInv, Newest
<1>10. AskedInv'
  <2>1. ASSUME NEW i \in 1..n, Fresh(q[i]) PROVE Fresh(q[n]) /\ Current(q[n])
    <3>1. Fresh(asked[i]) /\ ~ newest /\ n \in 1..n
      BY <1>6, <2>1 DEF Fresh
    <3>2. Fresh(asked[n]) /\ Current(asked[n])
      BY <1>1, <1>3, <3>1 DEF IInv, PageInv, AskedInv
    <3>3. /\ q[n].stray /\ q[n].saw = asked[n].saw
          /\ q[n].late = asked[n].late /\ (q[n].dropped <=> asked[n].dropped \/ newest)
      BY <1>6, <3>1
    <3> QED
      BY <3>1, <3>2, <3>3 DEF Fresh, Current
  <2>2. ASSUME NEW i \in 1..n, Fresh(q[i])
        PROVE  /\ Fresh(q[n]) /\ q[n].stray
               /\ Concerned => \A k \in pane.kinds : q[n].saw[k] = Unserved \/ q[n].saw[k] >= own[k]
    <3>1. n \in 1..n
      OBVIOUS
    <3> QED
      BY <1>6, <2>1, <2>2, <3>1 DEF Current
  <2> QED
    BY <1>1, <1>4, <1>7, <2>2 DEF AskedInv, Fresh, Current, Concerned
<1>11. ShownInv'
  BY <1>1 DEF ShownInv
<1> QED
  BY <1>8, <1>9, <1>10, <1>11 DEF IInv, PageInv

(* A request is served: only what it saw changes, to what there is now.     *)
LEMMA ServeStep == ASSUME IInv, NEW i \in DOMAIN asked, Reach(i) PROVE IInv'
<1>1. UNCHANGED <<pane, version, sel, shown, failed, calls, own, crossed, astray, gone, clicks>>
  BY DEF Reach
<1>2. PICK kinds : kinds = pane.kinds
  OBVIOUS
<1>3. PICK part : asked' = [asked EXCEPT ![i].saw = [k \in kinds |-> IF k \in part THEN version[k] ELSE @[k]]]
  BY <1>2 DEF Reach
<1> DEFINE r == asked[i]
           seen == [k \in kinds |-> IF k \in part THEN version[k] ELSE r.saw[k]]
           e == [r EXCEPT !.saw = seen]
<1>4. /\ asked \in Seq(Requests(kinds)) /\ r \in Requests(kinds)
      /\ Len(asked) \in Nat /\ DOMAIN asked = 1..Len(asked) /\ i \in 1..Len(asked)
  BY <1>2, AskedTypes DEF IInv, TypesInv
<1>5. seen \in [kinds -> Nat]
  BY <1>2, <1>4 DEF Requests, IInv, TypesInv
<1>6. \A k \in kinds : seen[k] = version[k] \/ seen[k] = r.saw[k]
  OBVIOUS
<1>7. asked' = [asked EXCEPT ![i] = e]
  BY <1>3
<1> HIDE DEF seen
<1>8. e \in Requests(kinds) /\ e.for = r.for /\ e.dropped = r.dropped /\ e.late = r.late /\ e.stray = r.stray /\ e.saw = seen
  BY <1>4, <1>5 DEF Requests
<1> HIDE DEF e
<1>9. PICK q : q = [asked EXCEPT ![i] = e]
  OBVIOUS
<1>10. /\ q \in Seq(Requests(kinds)) /\ Len(q) = Len(asked) /\ DOMAIN q = DOMAIN asked
       /\ \A j \in 1..Len(asked) : q[j] = IF j = i THEN e ELSE asked[j]
  BY <1>4, <1>8, <1>9, ExceptSeq
<1>11. asked' = q
  BY <1>7, <1>9
<1>12. \A j \in DOMAIN asked : /\ q[j].for = asked[j].for /\ q[j].dropped = asked[j].dropped
                               /\ q[j].late = asked[j].late /\ q[j].stray = asked[j].stray
                               /\ \A k \in kinds : q[j].saw[k] = version[k] \/ q[j].saw[k] = asked[j].saw[k]
  BY <1>4, <1>6, <1>8, <1>10
<1>13. \A j \in DOMAIN asked : Fresh(q[j]) <=> Fresh(asked[j])
  BY <1>12 DEF Fresh
<1>14. \A j \in DOMAIN asked : Current(asked[j]) => Current(q[j])
  <2>1. \A k \in kinds : version[k] \in Nat /\ own[k] \in Nat /\ version[k] >= own[k]
    BY <1>2 DEF IInv, TypesInv, OwnInv
  <2> QED
    BY <1>2, <1>12, <2>1 DEF Current
<1>15. NewestInv'
  BY <1>1, <1>10, <1>11, <1>12 DEF IInv, NewestInv, Newest
<1>16. ASSUME AskedInv PROVE AskedInv'
  <2>1. ASSUME NEW j \in DOMAIN q, Fresh(q[j]) PROVE Fresh(q[Len(q)]) /\ Current(q[Len(q)])
    <3>1. Fresh(asked[j]) /\ j \in DOMAIN asked
      BY <1>10, <1>13, <2>1
    <3>2. Fresh(asked[Len(asked)]) /\ Current(asked[Len(asked)])
      BY <1>16, <3>1 DEF AskedInv
    <3>3. Len(asked) \in DOMAIN asked
      BY <1>4
    <3> QED
      BY <1>10, <1>13, <1>14, <3>2, <3>3
  <2> QED
    BY <1>1, <1>11, <2>1 DEF AskedInv, Fresh, Current, Concerned
<1>17. ShownInv => ShownInv'
  <2>1. (\A j \in DOMAIN q : q[j].dropped) => \A j \in DOMAIN asked : asked[j].dropped
    BY <1>10, <1>12
  <2> QED
    BY <1>1, <1>11, <2>1 DEF ShownInv, Settled, Concerned
<1>18. TypesInv' /\ OwnInv'
  BY <1>1, <1>2, <1>10, <1>11 DEF IInv, TypesInv, OwnInv
<1> QED
  BY <1>1, <1>15, <1>16, <1>17, <1>18 DEF IInv, PageInv

(* An answer is shown; or a failure is; or it was dropped long ago.         *)
LEMMA AnswerStep == ASSUME IInv, NEW i \in DOMAIN asked, Arrive(i) PROVE IInv'
<1>1. UNCHANGED <<pane, version, sel, calls, own, gone, clicks>> /\ ~ gone /\ Served(i)
  BY DEF Arrive
<1>2. AskedInv /\ ShownInv
  BY <1>1 DEF IInv, PageInv
<1>3. asked[i] \in Requests(pane.kinds) /\ DOMAIN asked = 1..Len(asked) /\ Len(asked) \in Nat
  BY AskedTypes DEF IInv
<1>4. asked' = Without(i) \/ (asked[i].dropped /\ asked' = Forget(i))
  BY DEF Arrive
<1>5. Newest /\ ~ pane.fills => ~ crossed' /\ ~ astray'
  <2>1. CASE asked[i].dropped
    BY <2>1 DEF Arrive, IInv, NewestInv
  <2>2. CASE ~ asked[i].dropped
    BY <2>2 DEF Arrive, Show, IInv, NewestInv
  <2> QED
    BY <2>1, <2>2
<1>6. /\ asked' \in Seq(Requests(pane.kinds)) /\ AskedInv' /\ NewestInv'
      /\ (\A j \in DOMAIN asked' : asked'[j].dropped) =>
            \A j \in DOMAIN asked : j = i \/ asked[j].dropped
      /\ i \in 1..Len(asked) /\ Len(asked) \in DOMAIN asked
  BY <1>1, <1>2, <1>4, <1>5, LeftStep DEF IInv
<1>7. shown' \in {Blank} \cup Views(pane.kinds)
  <2>1. CASE asked[i].dropped
    BY <2>1 DEF Arrive, IInv, TypesInv
  <2>2. CASE ~ asked[i].dropped
    <3>1. shown' = [for |-> For(asked[i].for), saw |-> asked[i].saw]
      BY <2>2 DEF Arrive, Show
    <3>2. asked[i].for \in Sels /\ asked[i].saw \in [pane.kinds -> Nat]
      BY <1>3 DEF Requests
    <3>3. For(asked[i].for) \in [pane.kinds -> Sels]
      BY <3>2 DEF For
    <3> QED
      BY <3>1, <3>2, <3>3 DEF Views
  <2> QED
    BY <2>1, <2>2
<1>8. TypesInv' /\ OwnInv'
  BY <1>1, <1>6, <1>7 DEF IInv, TypesInv, OwnInv
<1>9. ShownInv'
  <2> SUFFICES ASSUME \A j \in DOMAIN asked' : asked'[j].dropped, pane.shares => calls = {},
                      shown' # Blank, ~ failed', ~ crossed'
               PROVE  /\ ~ astray' => \A k \in pane.kinds : shown'.for[k] \in {0, sel}
                      /\ Concerned => \A k \in pane.kinds : shown'.saw[k] >= own[k]
    BY <1>1 DEF ShownInv, Settled, Concerned
  <2>1. CASE asked[i].dropped
    <3>1. UNCHANGED <<shown, failed, crossed, astray>>
      BY <2>1 DEF Arrive
    <3>2. \A j \in DOMAIN asked : asked[j].dropped
      BY <1>6, <2>1
    <3> QED
      BY <1>2, <3>1, <3>2 DEF ShownInv, Settled
  <2>2. CASE ~ asked[i].dropped
    <3>1. /\ shown' = [for |-> For(asked[i].for), saw |-> asked[i].saw]
          /\ crossed' = asked[i].late /\ astray' = asked[i].stray
      BY <2>2 DEF Arrive, Show
    <3>2. Fresh(asked[i])
      BY <2>2, <3>1 DEF Fresh
    <3>3. Fresh(asked[Len(asked)]) /\ Current(asked[Len(asked)])
      BY <1>2, <3>2 DEF AskedInv
    <3>4. i = Len(asked)
      BY <1>6, <3>3 DEF Fresh
    <3>5. \A k \in pane.kinds : asked[i].saw[k] # Unserved /\ For(asked[i].for)[k] = asked[i].for
      BY <1>1 DEF Served, For
    <3>6. Current(asked[i])
      BY <3>3, <3>4
    <3> QED
      BY <3>1, <3>5, <3>6 DEF Current
  <2> QED
    BY <2>1, <2>2
<1> QED
  BY <1>6, <1>8, <1>9 DEF IInv, PageInv

LEMMA FailStep == IInv /\ Fail => IInv'
<1> SUFFICES ASSUME IInv, Fail PROVE IInv'
  OBVIOUS
<1>1. UNCHANGED <<pane, version, sel, calls, own, crossed, astray, gone, clicks>> /\ ~ gone
  BY DEF Fail
<1>2. AskedInv /\ ShownInv
  BY <1>1 DEF IInv, PageInv
<1>3. PICK i \in DOMAIN asked :
         IF asked[i].dropped
         THEN asked' = Forget(i) /\ UNCHANGED <<shown, failed>>
         ELSE /\ asked' = Without(i)
              /\ shown' = IF pane.read.onFailure = "blank" THEN Blank ELSE shown
              /\ failed' = TRUE
  BY DEF Fail
<1>4. asked' = Without(i) \/ (asked[i].dropped /\ asked' = Forget(i))
  BY <1>3
<1>5. Newest /\ ~ pane.fills => ~ crossed' /\ ~ astray'
  BY <1>1 DEF IInv, NewestInv
<1>6. /\ asked' \in Seq(Requests(pane.kinds)) /\ AskedInv' /\ NewestInv'
      /\ (\A j \in DOMAIN asked' : asked'[j].dropped) =>
            \A j \in DOMAIN asked : j = i \/ asked[j].dropped
  BY <1>1, <1>2, <1>4, <1>5, LeftStep DEF IInv
<1>7. shown' \in {Blank} \cup Views(pane.kinds)
  BY <1>3 DEF IInv, TypesInv
<1>8. TypesInv' /\ OwnInv'
  BY <1>1, <1>6, <1>7 DEF IInv, TypesInv, OwnInv
<1>9. ShownInv'
  <2>1. CASE asked[i].dropped
    <3>1. UNCHANGED <<shown, failed>>
      BY <1>3, <2>1
    <3>2. (\A j \in DOMAIN asked' : asked'[j].dropped) => \A j \in DOMAIN asked : asked[j].dropped
      BY <1>6, <2>1
    <3> QED
      BY <1>1, <1>2, <3>1, <3>2 DEF ShownInv, Settled, Concerned
  <2>2. CASE ~ asked[i].dropped
    BY <1>3, <2>2 DEF ShownInv
  <2> QED
    BY <2>1, <2>2
<1> QED
  BY <1>6, <1>8, <1>9 DEF IInv, PageInv

LEMMA BumpFacts ==
    ASSUME TypesInv, NEW kinds
    PROVE  /\ Bump(kinds) \in [pane.kinds -> Nat]
           /\ \A k \in pane.kinds : version[k] \in Nat /\ Bump(kinds)[k] \in Nat /\ version[k] <= Bump(kinds)[k]
<1>1. \A k \in pane.kinds : version[k] \in Nat
  BY DEF TypesInv
<1> QED
  BY <1>1 DEF Bump

(* Somebody changes the data, the button is pressed, the service commits.   *)
LEMMA ServiceStep == IInv /\ (Edit \/ Click \/ Commit) => IInv'
<1> SUFFICES ASSUME IInv, Edit \/ Click \/ Commit PROVE IInv'
  OBVIOUS
<1>1. UNCHANGED <<pane, sel, shown, asked, own, crossed, astray, gone>>
  BY DEF Edit, Click, Commit
<1>2. NewestInv' /\ PageInv'
  <2>1. (pane.shares => calls' = {}) => (pane.shares => calls = {}) /\ (~ failed' => ~ failed)
    BY DEF Edit, Click, Commit
  <2> QED
    BY <1>1, <2>1, QuietStep
<1>3. PICK kinds : kinds = pane.kinds
  OBVIOUS
<1>4. PICK news : news = version'
  OBVIOUS
<1>5. news \in [kinds -> Nat] /\ \A k \in kinds : news[k] \in Nat /\ version[k] \in Nat /\ version[k] <= news[k]
  <2>1. ASSUME version' = version PROVE news \in [kinds -> Nat] /\ \A k \in kinds : news[k] \in Nat /\ version[k] \in Nat /\ version[k] <= news[k]
    BY <1>3, <1>4, <2>1 DEF IInv, TypesInv
  <2>2. ASSUME NEW part, version' = Bump(part)
        PROVE  news \in [kinds -> Nat] /\ \A k \in kinds : news[k] \in Nat /\ version[k] \in Nat /\ version[k] <= news[k]
    BY <1>3, <1>4, <2>2, BumpFacts DEF IInv
  <2> QED
    BY <2>1, <2>2 DEF Edit, Click, Commit
<1>6. clicks' \in Nat
  <2>1. clicks \in Nat
    BY DEF IInv, TypesInv
  <2>2. clicks' = clicks \/ clicks' = clicks + 1
    BY DEF Edit, Click, Commit
  <2> QED
    BY <2>1, <2>2
<1>7. \A c \in calls : c \in Sent(kinds) /\ \A k \in kinds : c.made[k] \in Nat /\ c.made[k] <= version[k]
  BY <1>3 DEF IInv, TypesInv, OwnInv, Sent
<1>8. ASSUME NEW c \in calls', NEW old \in calls, c = old
      PROVE  c \in Sent(kinds) /\ \A k \in kinds : c.made[k] <= news[k]
  BY <1>5, <1>7, <1>8
<1>9. ASSUME NEW c \in calls' PROVE c \in Sent(kinds) /\ \A k \in kinds : c.made[k] <= news[k]
  <2>1. CASE Edit
    <3>1. calls' = calls
      BY <2>1 DEF Edit
    <3> QED
      BY <1>8, <1>9, <3>1
  <2>2. CASE Click
    <3>1. PICK about : /\ about = IF pane.about /\ shown # Blank THEN shown.for ELSE For(sel)
                       /\ calls' = calls \cup {[no |-> clicks, at |-> "sent", for |-> sel, about |-> about,
                                               made |-> version]}
                       /\ version' = version
      BY <2>2 DEF Click
    <3> DEFINE new == [no |-> clicks, at |-> "sent", for |-> sel, about |-> about, made |-> version]
    <3>2. new \in Sent(kinds) /\ new.made = version
      <4>1. sel \in Sels /\ (shown # Blank => shown.for \in [kinds -> Sels])
        BY <1>3 DEF IInv, TypesInv, Views
      <4>2. For(sel) \in [kinds -> Sels]
        BY <1>3, <4>1 DEF For
      <4>3. about \in [kinds -> Sels]
        BY <3>1, <4>1, <4>2
      <4> QED
        BY <1>3, <4>1, <4>3 DEF Sent, IInv, TypesInv
    <3> HIDE DEF new
    <3>3. CASE c = new
      BY <1>5, <3>2, <3>3
    <3>4. CASE c \in calls
      BY <1>8, <1>9, <3>4
    <3>5. c = new \/ c \in calls
      BY <1>9, <3>1 DEF new
    <3> QED
      BY <3>3, <3>4, <3>5
  <2>3. CASE Commit
    <3>1. PICK b \in calls :
             \/ calls' = (calls \ {b}) \cup {[b EXCEPT !.at = "done", !.made = version']}
             \/ calls' = (calls \ {b}) \cup {[b EXCEPT !.at = "refused"]}
      BY <2>3 DEF Commit
    <3>2. ASSUME NEW d \in Sent(kinds)
          PROVE  /\ [d EXCEPT !.at = "done", !.made = news] \in Sent(kinds)
                 /\ [d EXCEPT !.at = "done", !.made = news].made = news
                 /\ [d EXCEPT !.at = "refused"] \in Sent(kinds)
                 /\ [d EXCEPT !.at = "refused"].made = d.made
      BY <1>5 DEF Sent
    <3>3. b \in Sent(kinds)
      BY <1>7
    <3>4. CASE c = [b EXCEPT !.at = "done", !.made = news]
      <4>1. c \in Sent(kinds) /\ c.made = news
        BY <3>2, <3>3, <3>4
      <4> QED
        BY <1>5, <4>1
    <3>5. CASE c = [b EXCEPT !.at = "refused"]
      <4>1. c \in Sent(kinds) /\ c.made = b.made
        BY <3>2, <3>3, <3>5
      <4> QED
        BY <1>5, <1>7, <4>1
    <3>6. CASE c \in calls
      BY <1>8, <3>6
    <3> QED
      BY <1>4, <3>1, <3>4, <3>5, <3>6
  <2> QED
    BY <2>1, <2>2, <2>3
<1>10. TypesInv'
  BY <1>1, <1>3, <1>4, <1>5, <1>6, <1>9 DEF IInv, TypesInv
<1>11. OwnInv'
  <2>1. \A k \in kinds : own[k] \in Nat /\ own[k] <= version[k]
    BY <1>3 DEF IInv, OwnInv, TypesInv
  <2>2. \A k \in kinds : own[k] <= news[k]
    BY <1>5, <2>1
  <2> QED
    BY <1>1, <1>3, <1>4, <1>9, <2>2 DEF IInv, OwnInv
<1> QED
  BY <1>2, <1>10, <1>11 DEF IInv

LEMMA AllLateFacts ==
    ASSUME TypesInv
    PROVE  /\ AllLate \in Seq(Requests(pane.kinds)) /\ Len(AllLate) = Len(asked)
           /\ DOMAIN AllLate = DOMAIN asked
           /\ \A i \in DOMAIN asked : /\ AllLate[i].late /\ AllLate[i].dropped = asked[i].dropped
                                      /\ AllLate[i].stray = asked[i].stray
<1>1. PICK kinds : kinds = pane.kinds
  OBVIOUS
<1>2. PICK n \in Nat : n = Len(asked) /\ DOMAIN asked = 1..n /\ asked \in [1..n -> Requests(kinds)]
  BY <1>1, AskedTypes
<1>3. \A r \in Requests(kinds) : /\ [r EXCEPT !.late = TRUE] \in Requests(kinds)
                                 /\ [r EXCEPT !.late = TRUE].late
                                 /\ [r EXCEPT !.late = TRUE].dropped = r.dropped
                                 /\ [r EXCEPT !.late = TRUE].stray = r.stray
  BY DEF Requests
<1>4. AllLate = [i \in 1..n |-> [asked[i] EXCEPT !.late = TRUE]]
  BY <1>2 DEF AllLate
<1>5. ASSUME NEW i \in 1..n
      PROVE  /\ AllLate[i] \in Requests(kinds) /\ AllLate[i].late
             /\ AllLate[i].dropped = asked[i].dropped /\ AllLate[i].stray = asked[i].stray
  <2>1. asked[i] \in Requests(kinds) /\ AllLate[i] = [asked[i] EXCEPT !.late = TRUE]
    BY <1>2, <1>4
  <2> QED
    BY <1>3, <2>1
<1>6. AllLate \in [1..n -> Requests(kinds)]
  BY <1>4, <1>5
<1> QED
  BY <1>1, <1>2, <1>5, <1>6, TableIsSeq

(* The answer of a call: the service refused it, or it was lost.            *)
LEMMA ComplainStep ==
    ASSUME IInv, ~ gone, NEW c \in calls, Complain(c), calls' \subseteq calls,
           UNCHANGED <<pane, version, clicks>>
    PROVE  IInv'
<1>1. UNCHANGED <<pane, version, sel, own, crossed, astray, gone, clicks>>
  BY DEF Complain
<1>2. shown' = Blank \/ shown' = shown
  BY DEF Complain
<1>3. shown' \in {Blank} \cup Views(pane.kinds)
  BY <1>2 DEF IInv, TypesInv
<1>4. asked \in Seq(Requests(pane.kinds)) /\ sel' \in Sels /\ c.for \in Sels
  BY <1>1 DEF IInv, TypesInv, Sent
<1>5. Newest /\ ~ pane.fills => ~ crossed' /\ ~ astray'
  BY <1>1 DEF IInv, NewestInv
<1>6. asked' \in Seq(Requests(pane.kinds)) /\ AskedInv' /\ ShownInv' /\ NewestInv'
  <2>1. CASE pane.orElse
    <3>1. PICK choice \in Sels : choice = IF Newest THEN sel' ELSE c.for
      BY <1>4
    <3>2. asked' = Ask(asked, choice, sel')
      BY <1>1, <2>1, <3>1 DEF Complain, AskAgain
    <3>3. Newest => choice = sel'
      BY <3>1
    <3> QED
      BY <1>1, <1>4, <1>5, <3>2, <3>3, AskStep DEF IInv
  <2>2. CASE ~ pane.orElse
    <3>1. asked' = asked
      BY <2>2 DEF Complain
    <3>2. AskedInv' /\ NewestInv'
      BY <1>1, <3>1 DEF IInv, PageInv, AskedInv, NewestInv, Newest, Fresh, Current, Concerned
    <3>3. ShownInv'
      <4>1. CASE shown' = Blank
        BY <4>1 DEF ShownInv
      <4>2. CASE pane.shares
        <5>1. failed'
          BY <4>2 DEF Complain
        <5> QED
          BY <5>1 DEF ShownInv
      <4>3. CASE shown' = shown /\ ~ pane.shares
        <5>1. failed' <=> failed
          BY <2>2, <4>3 DEF Complain
        <5> QED
          BY <1>1, <3>1, <4>3, <5>1 DEF IInv, PageInv, ShownInv, Settled, Concerned
      <4> QED
        BY <1>2, <4>1, <4>2, <4>3
    <3> QED
      BY <1>4, <3>1, <3>2, <3>3
  <2> QED
    BY <2>1, <2>2
<1>7. TypesInv'
  BY <1>1, <1>3, <1>4, <1>6 DEF IInv, TypesInv
<1>8. OwnInv'
  BY <1>1 DEF IInv, OwnInv
<1> QED
  BY <1>6, <1>7, <1>8 DEF IInv, PageInv

(* A call went well: what the page is told it made is asked for again, put  *)
(* in place, cleared away or left behind with the page.                     *)
LEMMA SucceedStep ==
    ASSUME IInv, ~ gone, NEW c \in calls, Succeed(c), calls' \subseteq calls,
           UNCHANGED <<pane, version, clicks>>
    PROVE  IInv'
<1>1. PICK kinds : kinds = pane.kinds
  OBVIOUS
<1>2. /\ c \in Sent(kinds) /\ c.for \in Sels /\ c.made \in [kinds -> Nat]
      /\ c.about \in [kinds -> Sels]
      /\ \A k \in kinds : c.made[k] <= version[k]
  BY <1>1 DEF IInv, TypesInv, OwnInv, Sent
<1>3. PICK told : told = own'
  OBVIOUS
<1>4. told = [k \in kinds |-> IF k \in pane.writes THEN Max({own[k], c.made[k]}) ELSE own[k]]
  BY <1>1, <1>3 DEF Succeed
<1>5. own \in [kinds -> Nat] /\ version \in [kinds -> Nat]
      /\ \A k \in kinds : own[k] <= version[k] /\ (k \notin pane.writes => own[k] = 0)
  BY <1>1 DEF IInv, TypesInv, OwnInv
<1>6. ASSUME NEW k \in kinds
      PROVE  /\ told[k] \in Nat /\ told[k] <= version[k]
             /\ told[k] \in {own[k], c.made[k]}
             /\ k \notin pane.writes => told[k] = 0
             /\ k \in pane.writes /\ ~ (own[k] > c.made[k]) => told[k] <= c.made[k]
  <2>1. own[k] \in Nat /\ c.made[k] \in Nat /\ version[k] \in Nat
    BY <1>2, <1>5
  <2>2. CASE k \in pane.writes
    <3>1. PICK m : m = Max({own[k], c.made[k]})
      OBVIOUS
    <3>2. m \in {own[k], c.made[k]} /\ m >= own[k] /\ m >= c.made[k]
      BY <2>1, <3>1, MaxPair
    <3>3. told[k] = m
      BY <1>4, <2>2, <3>1
    <3> QED
      BY <1>2, <1>5, <2>1, <2>2, <3>2, <3>3
  <2>3. CASE k \notin pane.writes
    <3>1. told[k] = own[k]
      BY <1>4, <2>3
    <3> QED
      BY <1>5, <2>1, <2>3, <3>1
  <2> QED
    BY <2>2, <2>3
<1>7. told \in [kinds -> Nat]
  BY <1>4, <1>6
<1>8. OwnInv'
  BY <1>1, <1>3, <1>6 DEF IInv, OwnInv
<1> DEFINE rest == IF pane.fills \/ pane.clears THEN AllLate ELSE asked
<1>9. asked' = IF pane.again THEN Ask(rest, IF Newest THEN sel' ELSE c.for, sel') ELSE rest
  BY DEF Succeed, AskAgain
<1>10. rest \in Seq(Requests(kinds))
  BY <1>1, AllLateFacts DEF IInv, TypesInv
<1>11. UNCHANGED <<pane, version>> /\ gone' = pane.leaves /\ sel' \in Sels
       /\ (~ pane.clears => sel' = sel) /\ (~ pane.again => failed' = failed)
  BY DEF Succeed, IInv, TypesInv, Sels
<1>12. /\ pane.fills => shown' = Filled(c)
       /\ ~ pane.fills /\ pane.clears => shown' = Blank
       /\ ~ pane.fills /\ ~ pane.clears => shown' = shown
  BY DEF Succeed
<1>13. /\ pane.fills => /\ crossed' <=> \E k \in pane.writes : own[k] > c.made[k]
                        /\ astray' <=> \E k \in kinds : shown'.for[k] \notin {0, sel}
       /\ ~ pane.fills => crossed' = crossed /\ astray' = astray
  BY <1>1, <1>12 DEF Succeed, Elsewhere
<1>14. pane.fills => /\ shown' \in Views(kinds)
                     /\ \A k \in kinds : shown'.saw[k] \in Nat /\ (k \in pane.writes => shown'.saw[k] = c.made[k])
  <2> SUFFICES ASSUME pane.fills
               PROVE  /\ shown' \in Views(kinds)
                      /\ \A k \in kinds : shown'.saw[k] \in Nat /\ (k \in pane.writes => shown'.saw[k] = c.made[k])
    OBVIOUS
  <2> DEFINE seen == [k \in kinds |-> IF k \in pane.writes THEN c.made[k]
                                      ELSE IF shown = Blank THEN 0 ELSE shown.saw[k]]
             whose == [k \in kinds |-> IF k \in pane.writes THEN c.about[k]
                                       ELSE IF shown = Blank THEN 0 ELSE shown.for[k]]
  <2>1. shown' = [for |-> whose, saw |-> seen]
    BY <1>1, <1>12 DEF Filled
  <2>2. shown # Blank => shown.saw \in [kinds -> Nat] /\ shown.for \in [kinds -> Sels]
    BY <1>1 DEF IInv, TypesInv, Views
  <2>3. \A k \in kinds : seen[k] \in Nat /\ (k \in pane.writes => seen[k] = c.made[k])
    BY <1>2, <2>2
  <2>4. seen \in [kinds -> Nat]
    BY <2>3
  <2>5. whose \in [kinds -> Sels]
    BY <1>2, <2>2 DEF Sels
  <2> HIDE DEF seen, whose
  <2> QED
    BY <2>1, <2>3, <2>4, <2>5 DEF Views
<1>15. shown' \in {Blank} \cup Views(kinds)
  BY <1>1, <1>12, <1>14 DEF IInv, TypesInv
<1>16. Newest /\ ~ pane.fills => ~ crossed' /\ ~ astray'
  BY <1>13 DEF IInv, NewestInv
<1>17. sel' \in Sels
  BY <1>11
<1>18. CASE pane.again
  <2>1. PICK choice \in Sels : choice = IF Newest THEN sel' ELSE c.for
    BY <1>2, <1>17
  <2> HIDE DEF rest
  <2>2. asked' \in Seq(Requests(kinds)) /\ AskedInv' /\ ShownInv' /\ NewestInv'
    <3>1. asked' = Ask(rest, choice, sel') /\ (Newest => choice = sel')
      BY <1>9, <1>18, <2>1
    <3> QED
      BY <1>1, <1>10, <1>16, <1>17, <3>1, AskStep DEF IInv
  <2>3. TypesInv'
    BY <1>1, <1>3, <1>7, <1>15, <1>17, <2>2 DEF IInv, TypesInv
  <2> QED
    BY <1>8, <2>2, <2>3 DEF IInv, PageInv
<1>19. CASE ~ pane.again /\ (pane.fills \/ pane.clears)
  <2>1. asked' = AllLate
    BY <1>9, <1>19
  <2>2. PICK q : q = asked'
    OBVIOUS
  <2>3. /\ q \in Seq(Requests(kinds)) /\ Len(q) = Len(asked) /\ DOMAIN q = DOMAIN asked
        /\ \A i \in DOMAIN asked : /\ q[i].late /\ q[i].dropped = asked[i].dropped
                                   /\ q[i].stray = asked[i].stray
    BY <1>1, <2>1, <2>2, AllLateFacts DEF IInv
  <2>4. \A i \in DOMAIN q : ~ Fresh(q[i])
    BY <2>3 DEF Fresh
  <2>5. TypesInv'
    BY <1>1, <1>3, <1>7, <1>15, <1>17, <2>2, <2>3 DEF IInv, TypesInv
  <2>6. Newest => pane.fills
    BY <1>19, PanesAnswer DEF IInv, TypesInv, Newest
  <2>7. NewestInv'
    BY <2>2, <2>3, <2>6 DEF IInv, NewestInv, Newest
  <2>8. AskedInv'
    BY <2>2, <2>4 DEF AskedInv, Fresh
  <2>9. ShownInv'
    <3>1. ~ (pane.fills /\ pane.clears)
      BY PanesAnswer DEF IInv, TypesInv
    <3>2. CASE pane.fills /\ ~ pane.clears
      <4> SUFFICES ASSUME ~ crossed'
                   PROVE  /\ ~ astray' => \A k \in kinds : shown'.for[k] \in {0, sel}
                          /\ \A k \in kinds : shown'.saw[k] >= told[k]
        BY <1>1, <1>3, <1>11, <3>2 DEF ShownInv
      <4>1. \A k \in pane.writes : ~ (own[k] > c.made[k])
        BY <1>13, <3>2
      <4>2. ASSUME NEW k \in kinds PROVE shown'.saw[k] >= told[k]
        <5>1. shown'.saw[k] \in Nat /\ (k \in pane.writes => shown'.saw[k] = c.made[k])
          BY <1>14, <3>2
        <5>2. CASE k \in pane.writes
          BY <1>2, <1>6, <4>1, <5>1, <5>2
        <5>3. CASE k \notin pane.writes
          BY <1>6, <5>1, <5>3
        <5> QED
          BY <5>2, <5>3
      <4> QED
        BY <1>13, <3>2, <4>2
    <3>3. CASE ~ pane.fills
      <4>1. shown' = Blank
        BY <1>12, <1>19, <3>3
      <4> QED
        BY <4>1 DEF ShownInv
    <3> QED
      BY <3>1, <3>2, <3>3
  <2> QED
    BY <1>8, <2>5, <2>7, <2>8, <2>9 DEF IInv, PageInv
<1>20. CASE ~ pane.again /\ ~ pane.fills /\ ~ pane.clears
  <2>1. /\ asked' = asked /\ shown' = shown /\ crossed' = crossed /\ astray' = astray
        /\ sel' = sel /\ failed' = failed
    BY <1>9, <1>11, <1>12, <1>13, <1>20
  <2>2. TypesInv'
    BY <1>1, <1>3, <1>7, <1>17, <2>1 DEF IInv, TypesInv
  <2>3. NewestInv'
    BY <2>1 DEF IInv, NewestInv, Newest
  <2>4. CASE pane.leaves
    BY <1>8, <1>11, <2>2, <2>3, <2>4 DEF IInv, PageInv
  <2>5. CASE ~ pane.leaves
    <3>1. Concerned => pane.writes = {}
      BY <1>20, <2>5, PanesAnswer DEF IInv, TypesInv, Concerned
    <3>2. Concerned => own' = own
      <4>1. ASSUME pane.writes = {} PROVE told = own
        BY <1>4, <1>5, <4>1
      <4> QED
        BY <1>3, <3>1, <4>1
    <3>3. AskedInv' /\ ShownInv'
      <4>1. AskedInv /\ ShownInv
        BY DEF IInv, PageInv
      <4>2. AskedInv'
        BY <1>11, <2>1, <3>2, <4>1 DEF AskedInv, Fresh, Current, Concerned
      <4>3. ShownInv'
        <5>1. ~ pane.shares
          BY <1>20, <2>5, PanesAnswer DEF IInv, TypesInv
        <5> QED
          BY <1>11, <2>1, <3>2, <4>1, <5>1 DEF ShownInv, Settled, Concerned
      <4> QED
        BY <4>2, <4>3
    <3> QED
      BY <1>8, <2>2, <2>3, <3>3 DEF IInv, PageInv
  <2> QED
    BY <2>4, <2>5
<1> QED
  BY <1>18, <1>19, <1>20

LEMMA StepScreen == IInv /\ [Next]_vars => IInv'
<1> SUFFICES ASSUME IInv, [Next]_vars PROVE IInv'
  OBVIOUS
<1>1. CASE UNCHANGED vars
  <2>1. UNCHANGED <<pane, version, sel, shown, failed, asked, calls, own, crossed, astray, gone, clicks>>
    BY <1>1 DEF vars
  <2>2. NewestInv' /\ PageInv'
    <3>1. (pane.shares => calls' = {}) => (pane.shares => calls = {}) /\ (~ failed' => ~ failed)
      BY <2>1
    <3> QED
      BY <2>1, <3>1, QuietStep
  <2> QED
    BY <2>1, <2>2 DEF IInv, TypesInv, OwnInv
<1>2. CASE Choose \/ Poll
  BY <1>2, ChooseStep
<1>8. CASE Unchoose
  BY <1>8, UnchooseStep
<1>3. CASE Serve
  BY <1>3, ServeStep DEF Serve
<1>4. CASE Answer
  BY <1>4, AnswerStep DEF Answer
<1>5. CASE Fail
  BY <1>5, FailStep
<1>6. CASE Edit \/ Click \/ Commit
  BY <1>6, ServiceStep
<1>7. CASE Hear
  <2>1. PICK c \in calls : (Succeed(c) \/ Complain(c)) /\ calls' = calls \ {c}
    BY <1>7 DEF Hear
  <2>2. ~ gone /\ UNCHANGED <<pane, version, clicks>> /\ calls' \subseteq calls
    BY <1>7, <2>1 DEF Hear
  <2> QED
    BY <2>1, <2>2, ComplainStep, SucceedStep
<1> QED
  BY <1>1, <1>2, <1>3, <1>4, <1>5, <1>6, <1>7, <1>8 DEF Next

(* The inductive invariant holds in every reachable state of every screen.  *)
THEOREM Invariant == Spec => []IInv
BY InitScreen, StepScreen, PTL DEF Spec

LEMMA StillMeans == ASSUME IInv, Still PROVE ShownInv /\ Settled
<1>1. DOMAIN asked = {}
  <2>1. asked = << >> /\ Len(<< >>) = 0
    BY EmptySeq DEF Still
  <2>2. DOMAIN asked = 1..Len(asked)
    BY AskedTypes DEF IInv
  <2> QED
    BY <2>1, <2>2
<1> QED
  BY <1>1 DEF IInv, PageInv, Still, Settled

(* A page left alone shows what its own calls have done: whatever requests, *)
(* calls and failures crossed, the last request that may still be shown was *)
(* made after the page was told, and otherwise it is on show.               *)
THEOREM OwnWritesAreShown == Spec => []OwnWritesShown
<1>1. IInv => OwnWritesShown
  BY StillMeans DEF OwnWritesShown, Clear, ShownInv, Concerned
<1> QED
  BY <1>1, Invariant, PTL

(* What is on show is for what is chosen, and a component that keeps the    *)
(* newest answer only never lets an older one replace it.                   *)
THEOREM ChosenStaysShown == Spec => []ChosenIsShown
<1>1. IInv => ChosenIsShown
  BY StillMeans DEF ChosenIsShown, Clear, ShownInv, IInv, NewestInv
<1> QED
  BY <1>1, Invariant, PTL
=============================================================================
