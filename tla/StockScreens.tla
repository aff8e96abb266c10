---------------------------- MODULE StockScreens ----------------------------
(***************************************************************************)
(* The apps around the goods: inventory-control-center, the warehouse      *)
(* floor and the receiving dock.                                           *)
(***************************************************************************)
EXTENDS ScreenKit

inventoryApi ==
  [listStockCounts |-> {"counts"}, getStockCount |-> {"counts"},
   createStockCount |-> {"counts"}, recordCount |-> {"counts"},
   submitStockCount |-> {"counts"}, postStockCount |-> {"counts", "levels"},
   cancelStockCount |-> {"counts"}, stockMovement |-> {"levels"},
   countSuggestions |-> {"levels"}, listProducts |-> {"products"},
   getProduct |-> {"products", "levels"}, createProduct |-> {"products"},
   updateProduct |-> {"products"}, adjustStock |-> {"levels"},
   listStockLevels |-> {"levels"}, allStockLevels |-> {"levels"},
   valuationReport |-> {"products", "levels"}]
floorApi ==
  [listPutawayTasks |-> {"putaways"}, assignBin |-> {"putaways"},
   completePutaway |-> {"putaways", "bins"}, listTransfers |-> {"transfers"},
   getTransfer |-> {"transfers"}, createTransfer |-> {"transfers"},
   completePick |-> {"transfers", "bins"}, listBins |-> {"bins"},
   createBin |-> {"bins"}, getUtilization |-> {"bins"}]
receivingApi ==
  [listExpectedDeliveries |-> {"expected"}, listGoodsReceivedNotes |-> {"notes"},
   getGoodsReceivedNote |-> {"notes"}, createGoodsReceivedNote |-> {"notes"},
   recordScan |-> {"notes"}, finalizeGoodsReceivedNote |-> {"notes"}]

-----------------------------------------------------------------------------
(* inventory-control-center                                                 *)
NewProductForm(onCreated) == [createProduct |-> Then(Does(inventoryApi.createProduct), onCreated)]
ValuationSummary == [report |-> BlankOnFailure(Live(inventoryApi.valuationReport))]
InventoryCharts ==
  [chart |-> BlankOnFailure(Live(inventoryApi.valuationReport)),
   levels |-> BlankOnFailure(Live(inventoryApi.allStockLevels))]

(* A new product reloads the list; the summary and the charts catch up at   *)
(* their next poll.                                                         *)
ProductsPage ==
  Screen([list |-> Polled(Paged(inventoryApi.listProducts)), locations |-> Fetched({"locations"})]
         ++ ValuationSummary ++ InventoryCharts,
         NewProductForm({"list"}))

EditProductForm(onSaved) ==
  [updateProduct |-> On(Then(Does(inventoryApi.updateProduct), onSaved), onSaved)]
StockLevelsSection(onChange) ==
  [adjustStock |-> On(Then(Does(inventoryApi.adjustStock), onChange), onChange)]
ProductPage ==
  Screen([product |-> WallOnFailure(LiveBy(inventoryApi.getProduct)), locations |-> LocationPicker],
         EditProductForm({"product"}) ++ StockLevelsSection({"product"}))

StockLevelsPage ==
  Screen([list |-> Polled(Paged(inventoryApi.listStockLevels)), locations |-> LocationPicker], NoActs)
StockMovementPage ==
  Screen([rows |-> ForgivenWhenAsked(Cleared(Loaded(inventoryApi.stockMovement)))], NoActs)

(* The new count's own page opens when it is made.  A full stocktake takes  *)
(* the suggestions away.                                                    *)
NewCountForm ==
  Screen([suggestions |-> NotForgiven(Optional(Cleared(Loaded(inventoryApi.countSuggestions)))),
          locations |-> LocationPicker],
         [submit |-> SharingError(Leaving(Does(inventoryApi.createStockCount)), {"suggestions"})])
StockCountsPage ==
  Screen([list |-> Paged(inventoryApi.listStockCounts), locations |-> LocationPicker,
          names |-> useStaffNames], NewCountForm.acts)

(* Every answer of the count's own calls is put on show; after an error the *)
(* page reads the count again.  It is polled only while it is OPEN.         *)
CountEntry(onRecorded) ==
  [record |-> About(Filling(Does(inventoryApi.recordCount), onRecorded), onRecorded)]
SubmitModal(act) == act
StockCountPage ==
  LET act(call) == About(OrElse(Filling(Does(call), {"count"}), {"count"}), {"count"})
  IN  Screen([count |-> Chosen(Loaded(inventoryApi.getStockCount)), locations |-> LocationPicker,
              names |-> useStaffNames],
             [submitCount |-> SubmitModal(act(inventoryApi.submitStockCount)),
              post |-> act(inventoryApi.postStockCount),
              cancel |-> act(inventoryApi.cancelStockCount)]
             ++ CountEntry({"count"}))

-----------------------------------------------------------------------------
(* warehouse-floor-app                                                      *)
PutawayCard(onChanged) ==
  [complete |-> On(Then(Does(floorApi.completePutaway), onChanged), {"list"}),
   assign |-> On(Then(Does(floorApi.assignBin), onChanged), {"list"})]
PutawaysPage ==
  Screen([list |-> Paged(floorApi.listPutawayTasks), bins |-> BlankOnFailure(Loaded(floorApi.listBins)),
          locations |-> LocationPicker, names |-> useStaffNames],
         PutawayCard({"list", "bins"}))

NewBinForm(onCreated) == [createBin |-> Then(Does(floorApi.createBin), onCreated)]
BinsPage ==
  Screen([load |-> ForgivenWhenAsked(Chosen(LoadedTogether({floorApi.listBins, floorApi.getUtilization}))),
          locations |-> LocationPicker],
         NewBinForm({"load"}))

NewTransferForm == [createTransfer |-> Leaving(Does(floorApi.createTransfer))]
TransfersPage ==
  Screen([list |-> Paged(floorApi.listTransfers), locations |-> LocationPicker,
          picker |-> ProductPicker], NewTransferForm)

PickCard(onChanged) == [completePick |-> On(Then(Does(floorApi.completePick), onChanged), onChanged)]
TransferPage ==
  Screen([transfer |-> ForgivenWhenAsked(WallOnFailure(Chosen(Loaded(floorApi.getTransfer)))),
          locations |-> LocationPicker, names |-> useStaffNames],
         PickCard({"transfer"}))

-----------------------------------------------------------------------------
(* warehouse-receiving-app                                                  *)
StartReceivingForm == [start |-> Leaving(On(Does(receivingApi.createGoodsReceivedNote), {"list"}))]
DeliveriesPage ==
  Screen([list |-> Paged(receivingApi.listExpectedDeliveries), locations |-> LocationPicker],
         StartReceivingForm)
GoodsReceivedNotesPage ==
  Screen([list |-> Paged(receivingApi.listGoodsReceivedNotes), locations |-> LocationPicker], NoActs)
GoodsReceivedNotePage ==
  LET shows(call) == About(Filling(Does(call), {"note"}), {"note"})
  IN  Screen([note |-> ForgivenWhenAsked(WallOnFailure(Chosen(Loaded(receivingApi.getGoodsReceivedNote)))),
              locations |-> LocationPicker, names |-> useStaffNames],
             [scan |-> shows(receivingApi.recordScan),
              finalize |-> shows(receivingApi.finalizeGoodsReceivedNote)])

StockScreens ==
  [products |-> ProductsPage, product |-> ProductPage, levels |-> StockLevelsPage,
   movement |-> StockMovementPage, newCount |-> NewCountForm, counts |-> StockCountsPage,
   count |-> StockCountPage, putaways |-> PutawaysPage, bins |-> BinsPage,
   transfers |-> TransfersPage, transfer |-> TransferPage, deliveries |-> DeliveriesPage,
   notes |-> GoodsReceivedNotesPage, note |-> GoodsReceivedNotePage]
=============================================================================
