---------------------------- MODULE SalesScreens ----------------------------
(***************************************************************************)
(* The session every app keeps, the till (pos-terminal-app) and the store  *)
(* manager's dashboard.  One definition per component: its reads and the   *)
(* calls of its buttons.                                                   *)
(***************************************************************************)
EXTENDS ScreenKit

(* Which data each call of an app's client reads or changes.                *)
authApi ==
  [login |-> {"session"}, logout |-> {"session"}, me |-> {"session"},
   changePassword |-> {"session"}]
directoryApi ==
  [listStaff |-> {"staff"}, createStaff |-> {"staff"}, resetPassword |-> {"staff"},
   updateStaff |-> {"staff"}, listLocations |-> {"locations"},
   createLocation |-> {"locations"}, deactivationCheck |-> {"blockers"},
   updateLocation |-> {"locations"}, addRegister |-> {"locations"}]
lookupApi ==
  [listCatalogProducts |-> {"products"}, listStockLevels |-> {"levels"},
   listPurchaseOrders |-> {"orders"}]
posApi ==
  [listProducts |-> {"prices"}, createProduct |-> {"prices"},
   updateProduct |-> {"prices"}, addPromotion |-> {"prices"},
   listRecentTransactions |-> {"sales"}, getTransaction |-> {"sales"},
   checkout |-> {"sales", "levels"}, processReturn |-> {"sales"}]
storeApi ==
  [getLedger |-> {"ledger"}, getDailyClose |-> {"close"}, recordCount |-> {"close"},
   explainDiscrepancy |-> {"close"}, closeDay |-> {"close"}]

-----------------------------------------------------------------------------
(* Signing in and out: every answer of /auth/me is shown, in whatever order *)
(* the answers come; signing out shows the sign-in form even when the call  *)
(* failed; a 401 of any call fires the same way.                            *)
signIn == Filling(Does(authApi.login), {"session"})
changePassword == On(Filling(Does(authApi.changePassword), {"session"}), {"session"})
signOut == On(Unheld(Shrugging(Filling(Does(authApi.logout), {"session"}))), {"session"})

AuthProvider ==
  Screen([session |-> Live(authApi.me)],
         [signIn |-> signIn, changePassword |-> changePassword, signOut |-> signOut])

-----------------------------------------------------------------------------
(* The till.  The price list is read once; the shelf is read again after a  *)
(* sale and every 15 seconds.                                               *)
TillPage ==
  Screen([products |-> NotForgiven(Loaded(posApi.listProducts)),
          available |-> BlankOnFailure(ChosenLater(Live(lookupApi.listStockLevels))),
          registers |-> RegisterPicker],
         [completeSale |-> On(Then(Does(posApi.checkout), {"available"}), {"products"})])

(* The sale can be taken back from the screen without choosing another: by  *)
(* clearing the box, with another store and after the return.               *)
ReturnsPage ==
  Screen([recent |-> ChosenLater(Loaded(posApi.listRecentTransactions)),
          transaction |-> ForgivenWhenAsked(BlankOnFailure(Optional(Loaded(posApi.getTransaction)))),
          registers |-> RegisterPicker],
         [submitReturn |-> On(Clearing(Then(Does(posApi.processReturn), {"recent"}),
                                       {"transaction"}), {"transaction"})])

(* A price, a new priced product or a promotion reloads the three lists the *)
(* page compares.                                                           *)
PriceModal(onSaved) ==
  [create |-> Then(Does(posApi.createProduct), onSaved),
   update |-> On(Then(Does(posApi.updateProduct), onSaved), {"products"})]
PromotionsModal(onAdded) ==
  [promote |-> On(Then(Does(posApi.addPromotion), onAdded), {"products"})]

PricesPage ==
  LET load == {"products", "catalog", "stock"}
  IN  Screen([products |-> Loaded(posApi.listProducts),
              catalog |-> BlankOnFailure(Loaded(lookupApi.listCatalogProducts)),
              stock |-> BlankOnFailure(Loaded(lookupApi.listStockLevels)),
              stores |-> LocationPicker, picker |-> ProductPicker],
             PriceModal(load) ++ PromotionsModal(load))

-----------------------------------------------------------------------------
(* The store manager's dashboard.                                           *)
StorePage ==
  Screen([ledger |-> ChosenLater(Live(storeApi.getLedger)), stores |-> LocationPicker,
          names |-> useStaffNames], NoActs)
SalesAnalytics == Screen([summary |-> LiveBy({"sales"})], NoActs)
SalesReportsPage ==
  Screen([rows |-> ForgivenWhenAsked(Cleared(Loaded({"sales"}))),
          categories |-> NotForgiven(Loaded(lookupApi.listCatalogProducts)),
          stores |-> LocationPicker, names |-> useStaffNames], NoActs)

(* The day of the chosen store and date: the close and the ledger are read  *)
(* together; a count, an explanation and the close put their answer in the  *)
(* place of the close alone, without reading again, and have one place for  *)
(* errors with the read.                                                    *)
ClosePage ==
  LET day == {"day"}
      acts(call) == SharingError(Filling(Does(call), day), day)
  IN  Screen([day |-> ForgivenWhenAsked(ChosenLater(LoadedTogether(
                {storeApi.getDailyClose, storeApi.getLedger}))),
              stores |-> LocationPicker, names |-> useStaffNames],
             [recordCount |-> acts(storeApi.recordCount),
              submitExplanation |-> On(acts(storeApi.explainDiscrepancy), day),
              closeDay |-> On(acts(storeApi.closeDay), day)])

ChangeRoleModal(onSaved) == [changeRole |-> On(Then(Does(directoryApi.updateStaff), onSaved), onSaved)]
AddStaffModal(onSaved) == [addStaff |-> Then(Does(directoryApi.createStaff), onSaved)]

StaffPage ==
  LET reload == {"staff"}
  IN  Screen([staff |-> Fetched(directoryApi.listStaff), locations |-> LocationPicker],
             [toggleActive |-> On(Unheld(Then(Does(directoryApi.updateStaff), reload)), reload),
              resetPassword |-> On(Unheld(Then(Does(directoryApi.resetPassword), reload)), reload)]
             ++ ChangeRoleModal(reload) ++ AddStaffModal(reload))

AddLocationModal(onSaved) == [addLocation |-> Then(Does(directoryApi.createLocation), onSaved)]
RenameLocationModal(onSaved) ==
  [rename |-> On(Then(Does(directoryApi.updateLocation), onSaved), onSaved)]
AddRegisterModal(onSaved) ==
  [addRegister |-> On(Then(Does(directoryApi.addRegister), onSaved), onSaved)]
(* Deactivating waits for the check of what is still open at the location.  *)
ToggleActiveModal(onSaved) ==
  [confirm |-> On(Then(Does(directoryApi.updateLocation), onSaved), onSaved \union {"check"})]

StoresPage ==
  LET reload == {"locations"}
  IN  Screen([locations |-> Fetched(directoryApi.listLocations),
              check |-> Chosen(Fetched(directoryApi.deactivationCheck))],
             AddLocationModal(reload) ++ RenameLocationModal(reload)
             ++ AddRegisterModal(reload) ++ ToggleActiveModal(reload))

SalesScreens ==
  [session |-> AuthProvider, till |-> TillPage, returns |-> ReturnsPage,
   prices |-> PricesPage, store |-> StorePage, analytics |-> SalesAnalytics,
   salesReports |-> SalesReportsPage, close |-> ClosePage, staff |-> StaffPage,
   stores |-> StoresPage]
=============================================================================
