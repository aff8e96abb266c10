---------------------------- MODULE OfficeScreens ----------------------------
(***************************************************************************)
(* The apps of the office: suppliers, purchase orders, the books and the   *)
(* owner's dashboard, which only reads.                                    *)
(***************************************************************************)
EXTENDS ScreenKit

vendorApi ==
  [listSuppliers |-> {"suppliers"}, createSupplier |-> {"suppliers"},
   getSupplier |-> {"suppliers"}, updateSupplier |-> {"suppliers"},
   archiveSupplier |-> {"suppliers"}, addProduct |-> {"suppliers"},
   updateProduct |-> {"suppliers"}, listDeliveryRecords |-> {"records"},
   addDeliveryRecord |-> {"records"}]
procurementApi ==
  [listPurchaseOrders |-> {"orders"}, allPurchaseOrders |-> {"orders"},
   getPurchaseOrder |-> {"orders"}, createPurchaseOrder |-> {"orders"},
   submit |-> {"orders"}, approve |-> {"orders"}, markSent |-> {"orders"},
   listReorderSuggestions |-> {"reorders"}, dismissReorderSuggestion |-> {"reorders"},
   supplierPerformance |-> {"orders"}, supplierOnTime |-> {"records"},
   listActiveSuppliers |-> {"suppliers"}, getSupplierProducts |-> {"suppliers"}]
financialsApi ==
  [summary |-> {"books"}, profitability |-> {"books"}, accounts |-> {"accounts"},
   vat |-> {"books"}, entries |-> {"books"}, trialBalance |-> {"books"},
   payables |-> {"bills"}, aging |-> {"bills"}, payBill |-> {"bills", "books"},
   inbox |-> {"inbox"}, retryEvent |-> {"inbox", "books"}]
services ==
  [salesReport |-> {"sales"}, stockMovement |-> {"levels"}, supplierPerformance |-> {"orders"},
   salesSummary |-> {"sales"}, valuation |-> {"levels", "products"}, stockLevels |-> {"levels"},
   purchaseOrders |-> {"orders"}, reorderSuggestions |-> {"reorders"},
   expectedDeliveries |-> {"expected"}, goodsReceivedNotes |-> {"notes"},
   pendingPutaways |-> {"putaways"}, transfersPicking |-> {"transfers"},
   utilization |-> {"bins"}, suppliers |-> {"suppliers"}, supplier |-> {"suppliers"},
   dailyClose |-> {"close"}, storeLedger |-> {"ledger"}, financeSummary |-> {"books"},
   aging |-> {"bills"}]

-----------------------------------------------------------------------------
(* vendor-management-portal                                                 *)
NewSupplierForm(onCreated) == [createSupplier |-> Then(Does(vendorApi.createSupplier), onCreated)]
SuppliersPage ==
  Screen([list |-> Paged(vendorApi.listSuppliers)], NewSupplierForm({"list"}))

EditSupplierForm(onSaved) == [updateSupplier |-> On(Then(Does(vendorApi.updateSupplier), onSaved), onSaved)]
EditProductModal(onSaved) == [updateProduct |-> On(Then(Does(vendorApi.updateProduct), onSaved), onSaved)]
ProductsSection(onChange) ==
  [addProduct |-> On(Then(Does(vendorApi.addProduct), onChange), onChange)] ++ EditProductModal(onChange)
DeliveryRecordsSection(onChange) ==
  [addRecord |-> On(Then(Does(vendorApi.addDeliveryRecord), onChange), onChange)]

(* The supplier and its deliveries are read together; a failed read leaves  *)
(* the page with nothing but "not found".                                   *)
SupplierPage ==
  LET load == {"supplier"}
  IN  Screen([supplier |-> ForgivenWhenAsked(WallOnFailure(Chosen(LoadedTogether(
                {vendorApi.getSupplier, vendorApi.listDeliveryRecords})))),
              orders |-> PurchaseOrderPicker],
             [archive |-> On(Unheld(Then(Does(vendorApi.archiveSupplier), load)), load)]
             ++ EditSupplierForm(load) ++ ProductsSection(load) ++ DeliveryRecordsSection(load))

-----------------------------------------------------------------------------
(* procurement-dashboard                                                    *)
NewPurchaseOrderForm(onCreated) ==
  LET form == {"suppliers", "supplierProducts"}
      create == Then(Does(procurementApi.createPurchaseOrder), onCreated)
  IN  Screen([suppliers |-> NotForgiven(Loaded(procurementApi.listActiveSuppliers)),
              supplierProducts |->
                NotForgiven(ChosenLater(Loaded(procurementApi.getSupplierProducts)))],
             [create |-> Closing(SharingError(create, form), form)])
ProcurementCharts == [allOrders |-> BlankOnFailure(Loaded(procurementApi.allPurchaseOrders))]
PurchaseOrdersPage ==
  LET form == NewPurchaseOrderForm({"list", "allOrders"})
  IN  Screen([list |-> Paged(procurementApi.listPurchaseOrders)] ++ ProcurementCharts ++ form.reads,
             form.acts)

(* Submit, approve and mark as sent share one busy flag and read the order  *)
(* again when they succeed.                                                 *)
ApproveButton(onApprove) == onApprove
PurchaseOrderPage ==
  LET run(call) == On(Then(Does(call), {"po"}), {"po"})
  IN  Screen([po |-> ForgivenWhenAsked(WallOnFailure(Chosen(Loaded(procurementApi.getPurchaseOrder)))),
              names |-> useStaffNames],
             [submit |-> run(procurementApi.submit),
              approve |-> ApproveButton(run(procurementApi.approve)),
              markSent |-> run(procurementApi.markSent)])

ReorderSuggestionsPage ==
  Screen([list |-> Paged(procurementApi.listReorderSuggestions)],
         [dismiss |-> On(Unheld(Then(Does(procurementApi.dismissReorderSuggestion), {"list"})), {"list"})])
SupplierScorecardPage ==
  Screen([rows |-> ForgivenWhenAsked(Cleared(LoadedTogether(
            {procurementApi.supplierPerformance, procurementApi.supplierOnTime})))], NoActs)

-----------------------------------------------------------------------------
(* finance-portal                                                           *)
FinanceSummaryPage == Screen([summary |-> LiveBy(financialsApi.summary)], NoActs)
ProfitabilityPage ==
  Screen([report |-> Chosen(Loaded(financialsApi.profitability)), stores |-> LocationPicker], NoActs)
VatPage == Screen([report |-> ForgivenWhenAsked(Cleared(Loaded(financialsApi.vat)))], NoActs)
Journal == [list |-> Paged(financialsApi.entries)]
TrialBalanceView == [tb |-> Chosen(Loaded(financialsApi.trialBalance))]
LedgerPage ==
  Screen([accounts |-> BlankOnFailure(Loaded(financialsApi.accounts))] ++ Journal ++ TrialBalanceView,
         NoActs)

PayModal(onPaid) == [pay |-> On(Then(Does(financialsApi.payBill), onPaid), {"list"})]
(* Mutant: a payment reloads the bills and not their ageing.                *)
PayablesWithoutAging ==
  Screen([list |-> Paged(financialsApi.payables), aging |-> Loaded(financialsApi.aging)],
         PayModal({"list"}))
PayablesPage ==
  Screen([list |-> Paged(financialsApi.payables), aging |-> Loaded(financialsApi.aging)],
         PayModal({"list", "aging"}))

(* The busy flag names one event: a second retry releases the first.        *)
EventsPage ==
  Screen([list |-> Polled(Paged(financialsApi.inbox))],
         [retry |-> On(Unheld(Then(Does(financialsApi.retryEvent), {"list"})), {"list"})])

-----------------------------------------------------------------------------
(* executive-dashboard: every panel reads on its own and once a minute.     *)
OverviewPage ==
  Screen([sales |-> LiveBy(services.salesSummary), finance |-> LiveBy(services.financeSummary),
          valuation |-> Live(services.valuation), orders |-> Live(services.purchaseOrders),
          reorders |-> Live(services.reorderSuggestions),
          deliveries |-> Live(services.expectedDeliveries),
          putaways |-> Live(services.pendingPutaways), closes |-> LiveBy(services.dailyClose),
          stores |-> LocationPicker], NoActs)
SalesPage ==
  Screen([sales |-> LiveBy(services.salesSummary), hours |-> LiveBy(services.salesReport),
          categories |-> Polled(Chosen(LoadedTogether({services.salesReport, {"products"}}))),
          stores |-> LocationPicker], NoActs)
InventoryPage ==
  Screen([valuation |-> Live(services.valuation), levels |-> Live(services.stockLevels),
          reorders |-> Live(services.reorderSuggestions), movement |-> Live(services.stockMovement),
          locations |-> LocationPicker], NoActs)
PurchasingPage == Screen([orders |-> Live(services.purchaseOrders)], NoActs)
SuppliersPanel ==
  Screen([suppliers |-> Polled(LoadedTogether({services.suppliers})),
          orders |-> Live(services.purchaseOrders), fill |-> Live(services.supplierPerformance)], NoActs)
WarehousePage ==
  Screen([deliveries |-> Live(services.expectedDeliveries),
          receipts |-> Live(services.goodsReceivedNotes), putaways |-> Live(services.pendingPutaways),
          transfers |-> Live(services.transfersPicking), utilization |-> Live(services.utilization),
          locations |-> LocationPicker], NoActs)
StoreClosesPage ==
  Screen([rows |-> Polled(Chosen(LoadedTogether({services.dailyClose, services.storeLedger}))),
          stores |-> LocationPicker, names |-> useStaffNames], NoActs)
FinancePage ==
  Screen([summary |-> LiveBy(services.financeSummary), aging |-> Live(services.aging)], NoActs)

OfficeScreens ==
  [suppliers |-> SuppliersPage, supplier |-> SupplierPage, orders |-> PurchaseOrdersPage,
   order |-> PurchaseOrderPage, reorders |-> ReorderSuggestionsPage,
   scorecard |-> SupplierScorecardPage, financeSummary |-> FinanceSummaryPage,
   profitability |-> ProfitabilityPage, vat |-> VatPage, books |-> LedgerPage,
   payables |-> PayablesPage, events |-> EventsPage, overview |-> OverviewPage,
   execSales |-> SalesPage, execInventory |-> InventoryPage, execPurchasing |-> PurchasingPage,
   execSuppliers |-> SuppliersPanel, execWarehouse |-> WarehousePage,
   execCloses |-> StoreClosesPage, execFinance |-> FinancePage]
=============================================================================
