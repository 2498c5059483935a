------------------------------ MODULE OrderViews -------------------------------
(***************************************************************************)
(* What is reported of a stored order: its money, computed by the pages,   *)
(* by the export, by the refund and by the dashboard, each on its own; and *)
(* the fields that the four pages of details and the export show.  Money   *)
(* is in 50ths of a cent, so that a fee of 2 % is exact.                   *)
(***************************************************************************)
EXTENDS OrderForms, FulfilmentForms

\* A stored amount; a missing or negative one counts as 0.
Money(m) == IF m = Blank THEN 0 ELSE Max({5 * m, 0})

Cents(x) == 50 * ((x + 25) \div 50)
Distance(x, y) == IF x > y THEN x - y ELSE y - x

PaymentProcessingFeeMethods == {"CREDIT_CARD", "INVOICE"}
ResolvedStatuses == {"CANCELLED", "REFUNDED"}

PartlyRefunded(row) == row.status = "REFUNDED" /\ row.refundType = "PARTIAL"

-----------------------------------------------------------------------------
(* order-financials.ts, of all pages.                                       *)

getPaymentProcessingFee(row) ==
    IF row.paymentMethod \in PaymentProcessingFeeMethods
    THEN Cents(Money(row.total) \div 50) ELSE 0

getOriginalPaidAmount(row) ==
    IF Money(row.partialPayment) > 0 THEN Min({Money(row.partialPayment), Money(row.total)})
    ELSE IF \/ row.paymentMethod # ""
            \/ row.status \in {"CONFIRMED", "PROCESSING", "SHIPPED", "DELIVERED", "CANCELLED",
                               "REFUNDED"}
    THEN Money(row.total)
    ELSE 0

getRefundedAmount(row) ==
    IF row.status # "REFUNDED" THEN 0
    ELSE IF PartlyRefunded(row)
    THEN getOriginalPaidAmount(row)
           - Min({Money(row.refundDeductionAmount), getOriginalPaidAmount(row)})
    ELSE getOriginalPaidAmount(row)

getOrderFinancialSummary(row) ==
    LET paid      == getOriginalPaidAmount(row)
        deduction == Min({Money(row.refundDeductionAmount), paid})
        basis     == IF PartlyRefunded(row) THEN deduction
                     ELSE IF row.status = "REFUNDED" THEN 0 ELSE Money(row.total)
    IN  [retained  |-> IF PartlyRefunded(row) THEN deduction
                       ELSE paid - getRefundedAmount(row),
         remaining |-> IF row.status \in ResolvedStatuses THEN 0
                       ELSE Max({Money(row.total) - paid, 0}),
         basis     |-> Max({Cents(basis - getPaymentProcessingFee(row)), 0})]

-----------------------------------------------------------------------------
(* Costs of the latest shipment: sheets is empty before there are costs.    *)

\* The amount that counts of a sheet: the actual one, else its estimate.
Counted(sheet, actual, estimated) ==
    Money(IF actual \in sheet.hasActual THEN sheet[actual] ELSE sheet[estimated])

AdditionalCosts(sheet) ==
    IF sheet.extras = <<>> THEN Money(sheet.additionalAmount)
    ELSE MapThenSumSet(LAMBDA i : Money(sheet.extras[i]), DOMAIN sheet.extras)

TotalCosts(sheet) ==
    Counted(sheet, "purchaseAmount", "estimatedPurchaseAmount")
    + Counted(sheet, "shippingAmount", "estimatedShippingAmount")
    + AdditionalCosts(sheet)

\* What stands for a missing sheet.
SheetOf(sheets) == IF sheets = <<>> THEN NoCosts ELSE Head(sheets)

calculateOrderActualGp(row, sheets) ==
    getOrderFinancialSummary(row).basis - TotalCosts(SheetOf(sheets))

\* The page of a shipment, whose order may not be loaded yet: the shipment
\* knows the sale and the status of its order, but neither fee nor refund.
calculateShipmentActualGp(orders, shipmentOrder, sheets) ==
    LET retained == IF orders # <<>> THEN getOrderFinancialSummary(Head(orders)).basis
                    ELSE IF shipmentOrder.status = "REFUNDED" THEN 0
                    ELSE Money(shipmentOrder.total)
    IN  retained - TotalCosts(SheetOf(sheets))

\* The card of the gross profit, given the basis by each page.
cardGrossProfit(row, sheets) ==
    LET sheet == SheetOf(sheets)
        effectivePurchaseAmount ==
            Counted(sheet, "purchaseAmount", "estimatedPurchaseAmount")
        effectiveShippingAmount ==
            Counted(sheet, "shippingAmount", "estimatedShippingAmount")
    IN  getOrderFinancialSummary(row).basis
          - (effectivePurchaseAmount + effectiveShippingAmount + 5 * cardAdditional(sheet))

\* What the open card lists, top to bottom.
GpMetrics(row, sheets) ==
    LET sheet == SheetOf(sheets)
        fee   == getPaymentProcessingFee(row)
        basis == getOrderFinancialSummary(row).basis
    IN  [sale |-> Money(row.total), costs |-> TotalCosts(sheet)]
        @@ (IF row.refundType # ""
            THEN [refund |-> getRefundedAmount(row), retained |-> basis] ELSE <<>>)
        @@ (IF fee > 0 THEN [fee |-> fee] ELSE <<>>)
        @@ (IF fee > 0 /\ row.refundType = "" THEN [basis |-> basis] ELSE <<>>)

\* OrdersService: the note that a refund leaves.
refundNote(row, sheets) ==
    LET retained == IF row.refundType = "PARTIAL" THEN Money(row.refundDeductionAmount) ELSE 0
        paid     == Money(OriginalPaidAmount(row))
    IN  [retained |-> retained,
         customer |-> Max({paid - retained, 0}),
         profit   |-> retained - TotalCosts(SheetOf(sheets))]

\* OrdersService: the basis of the export, whose fee is not rounded itself.
\* Mutant: the fee is forgotten.
resolveGpSaleBasisWhole(row) ==
    Max({IF PartlyRefunded(row) THEN Money(row.refundDeductionAmount)
         ELSE IF row.status = "REFUNDED" THEN 0 ELSE Money(row.total), 0})

resolveGpSaleBasis(row) ==
    LET base == IF PartlyRefunded(row) THEN Money(row.refundDeductionAmount)
                ELSE IF row.status = "REFUNDED" THEN 0 ELSE Money(row.total)
        fee  == IF row.paymentMethod \in PaymentProcessingFeeMethods
                THEN Money(row.total) \div 50 ELSE 0
    IN  Max({Cents(base - fee), 0})

resolveAdditionalCost(sheets) ==
    IF sheets = <<>> THEN 0 ELSE AdditionalCosts(Head(sheets))

formatExportOrderStatus(status) ==
    IF status = "PARTIALLY_PAID" THEN status
    ELSE IF status \in {"CONFIRMED", "PROCESSING", "SHIPPED", "DELIVERED"} THEN "paid"
    ELSE ""

\* The columns of the export, by the field that each header names.
ExportColumns ==
    <<"orderNumber", "salesNumber", "orderDate", "createdAt", "updatedAt", "status",
      "customerName", "customerPhone", "customerEmail", "billingAddress", "shippingAddress",
      "vehicleYear", "vehicleMake", "vehicleModel", "vehicleVin", "partDescription",
      "quantity", "price", "total", "currency", "paymentMethod", "shippingStatus",
      "bolNumber", "pickupNumber", "proNumber", "carrierName", "shippedAt", "deliveredAt",
      "advisorName", "advisorEmail", "advisorRole", "estimatedPurchaseAmount",
      "purchaseAmount", "estimatedShippingAmount", "shippingAmount", "additionalAmount",
      "totalCost", "grossProfit">>

\* The account that created the order, and when.
Entered == [orderNumber |-> 14, createdAt |-> -1, updatedAt |-> 0, advisorName |-> 7,
            advisorEmail |-> 9, advisorRole |-> "SALES"]

\* A row of the export: its cells in the order in which they are written.
buildOrderExportRow(row, shipments, sheets) ==
    LET shipped(f) == IF shipments = <<>> THEN Blank ELSE Head(shipments)[f]
        estimate(f) == IF sheets = <<>> THEN Blank ELSE Money(Head(sheets)[f])
        actual(f) == IF sheets # <<>> /\ f \in Head(sheets).hasActual
                     THEN Money(Head(sheets)[f]) ELSE Blank
        effective(f, e) == IF actual(f) # Blank THEN actual(f)
                           ELSE IF estimate(e) # Blank THEN estimate(e) ELSE 0
        totalCost == effective("purchaseAmount", "estimatedPurchaseAmount")
                       + effective("shippingAmount", "estimatedShippingAmount")
                       + resolveAdditionalCost(sheets)
    IN  <<Entered.orderNumber, row.salesNumber, row.orderDate, Entered.createdAt,
          Entered.updatedAt, formatExportOrderStatus(row.status), row.customerName,
          row.customerPhone, row.customerEmail, row.billingAddress, row.shippingAddress,
          row.vehicleYear, row.vehicleMake, row.vehicleModel, row.vehicleVin,
          row.partDescription, row.quantity, row.price, row.total, row.currency,
          row.paymentMethod, IF shipments = <<>> THEN "" ELSE Head(shipments).status,
          shipped("bolNumber"), shipped("pickupNumber"), shipped("proNumber"),
          shipped("carrierName"), shipped("shippedAt"), shipped("deliveredAt"),
          Entered.advisorName, Entered.advisorEmail, Entered.advisorRole,
          estimate("estimatedPurchaseAmount"), actual("purchaseAmount"),
          estimate("estimatedShippingAmount"), actual("shippingAmount"),
          resolveAdditionalCost(sheets), totalCost, resolveGpSaleBasis(row) - totalCost>>

\* The cell below a header.
ExportedCell(header, row, shipments, sheets) ==
    LET cells == buildOrderExportRow(row, shipments, sheets)
    IN  cells[CHOOSE i \in DOMAIN cells : ExportColumns[i] = header]

-----------------------------------------------------------------------------
(* The four pages of details.  A field that is empty reads "Not provided".  *)

VehicleShown == {"partDescription", "vehicleMake", "vehicleModel", "vehicleYear", "vehicleVin"}
BillingShown == {"billingAddress", "billingPerson", "billingPhone"}
RecipientShown == {"shippingPerson", "shippingPhone"}
CustomerShown == {"customerName", "customerPhone", "customerEmail"}
ChargesShown == {"milesOffered", "price", "basePrice", "salesTax", "shippingCharges", "profit"}

\* The address that is shown is that of a business, its name above it.
ShippingAddressValue(row) == Only(row, {"companyName", "shippingAddress"})

\* Paid is what was kept of the payment, and what is still to pay.
PaymentShown(row) ==
    [paid |-> getOrderFinancialSummary(row).retained,
     remaining |-> getOrderFinancialSummary(row).remaining]
        @@ Only(row, {"total", "paymentMethod"})

ShippingStatusValue(status, shipments) ==
    IF status \in ResolvedStatuses THEN status
    ELSE IF shipments = <<>> THEN "none" ELSE Head(shipments).status

\* Mutant: one address is shown for both.
OrderDetailsOneAddress(row, shipments) ==
    Only(row, {"salesNumber", "advisorName", "orderDate", "vehicleVariant", "vehicleNotes"}
                \union CustomerShown \union VehicleShown \union BillingShown
                \union RecipientShown \union ChargesShown)
    @@ [companyName |-> row.companyName, shippingAddress |-> row.billingAddress]
    @@ PaymentShown(row)
    @@ [shippingStatus |-> ShippingStatusValue(row.status, shipments)]

\* The page of an order.
OrderDetails(row, shipments) ==
    Only(row, {"salesNumber", "advisorName", "orderDate", "vehicleVariant", "vehicleNotes"}
                \union CustomerShown \union VehicleShown \union BillingShown
                \union RecipientShown \union ChargesShown)
    @@ ShippingAddressValue(row) @@ PaymentShown(row)
    @@ [shippingStatus |-> ShippingStatusValue(row.status, shipments)]
    @@ (IF shipments = <<>> THEN <<>>
        ELSE Only(Head(shipments), {"proNumber", "carrierName"}))

\* The workspace in which its shipment is created.
ShipmentOrderDetailsPanel(row, shipments) ==
    Only(row, {"salesNumber", "advisorName", "orderDate", "vehicleVariant", "vehicleNotes",
               "quantity"} \union CustomerShown \union VehicleShown \union BillingShown
                \union RecipientShown \union ChargesShown)
    @@ ShippingAddressValue(row) @@ PaymentShown(row)
    @@ [shippingStatus |-> ShippingStatusValue(row.status, shipments)]

\* The page of its shipment.
FullOrderDetailsModal(row) ==
    Only(row, {"salesNumber", "advisorName", "orderDate", "status", "milesOffered",
               "vehicleVariant", "vehicleNotes"} \union CustomerShown \union VehicleShown
                \union BillingShown \union RecipientShown)
    @@ ShippingAddressValue(row) @@ PaymentShown(row)

\* The page of its replacement r.
ReplacementOrderDetails(row, r, shipments) ==
    Only(row, {"salesNumber", "advisorName", "orderDate", "status"} \union CustomerShown
                \union VehicleShown \union BillingShown \union RecipientShown)
    @@ ShippingAddressValue(row) @@ PaymentShown(row)
    @@ Only(r, {"replacementStatus", "customerReason", "yardUpdate",
                "replacementCarrierName", "replacementProNumber"})
    @@ (IF shipments = <<>> THEN <<>>
        ELSE Only(Head(shipments), {"bolNumber", "pickupNumber", "proNumber", "carrierName"})
               @@ [shippingStatus |-> Head(shipments).status])

\* The box of a resolved order on all of them.
OrderResolutionDetails(row) ==
    (IF row.status = "CANCELLED" \/ row.cancellationReason # Blank
     THEN Only(row, {"cancellationReason"}) ELSE <<>>)
    @@ (IF row.refundType = "PARTIAL"
        THEN [refund |-> "PARTIAL", customer |-> getRefundedAmount(row),
              retained |-> Money(row.refundDeductionAmount)]
               @@ Only(row, {"refundDeductionReason"})
        ELSE IF row.status = "REFUNDED" \/ row.refundType # ""
        THEN [refund |-> "FULL"] ELSE <<>>)

-----------------------------------------------------------------------------
(* Properties.                                                              *)

ShipmentSamples ==
    {<<>>, <<[status |-> "IN_TRANSIT", bolNumber |-> 6, pickupNumber |-> 7, proNumber |-> 8,
              carrierName |-> 9, shippedAt |-> -2, deliveredAt |-> Blank]>>}

\* Nothing yet, only estimates, and actual costs with an additional one.
SheetSamples ==
    {<<>>} \union {<<c>> : c \in {s \in StoredCosts : s.hasActual = {} \/ s.extras # <<>>}}

\* The profit of an order is the same to a cent on the pages, their card and
\* in the export, and without a fee in the note of the refund; the customer
\* gets back what is not retained; and what is paid and remains is the sale.
\* An edit can also set the status REFUNDED, which records no refund.
ReportsAgreeOn(row, shipments, sheets) ==
    LET profit  == calculateOrderActualGp(row, sheets)
        summary == getOrderFinancialSummary(row)
        note    == refundNote(row, sheets)
        metrics == GpMetrics(row, sheets)
    IN  /\ Distance(profit, ExportedCell("grossProfit", row, shipments, sheets)) <= 50
        /\ profit = cardGrossProfit(row, sheets)
        /\ profit = calculateShipmentActualGp(<<row>>, row, sheets)
        /\ row.refundType # "PARTIAL" => profit <= calculateShipmentActualGp(<<>>, row, sheets)
        /\ ExportedCell("totalCost", row, shipments, sheets) = metrics.costs
        /\ row.refundType # "" =>
              /\ note.retained = summary.retained /\ note.customer = metrics.refund
              /\ note.retained + note.customer = getOriginalPaidAmount(row)
              /\ row.paymentMethod \notin PaymentProcessingFeeMethods => note.profit = profit
              /\ row.refundType = "PARTIAL" =>
                   /\ OrderResolutionDetails(row).retained = note.retained
                   /\ OrderResolutionDetails(row).customer = note.customer
        /\ row.status \notin ResolvedStatuses =>
              summary.retained + summary.remaining = Money(row.total)

\* What the pages and the export show under a name is the one field that is
\* stored under it, whatever the row.
ShowsItsFields(row, shipments, sheets) ==
    LET order == OrderDetails(row, shipments)
        views == {order, ShipmentOrderDetailsPanel(row, shipments),
                  FullOrderDetailsModal(row), OrderResolutionDetails(row),
                  ReplacementOrderDetails(row, FilledReplacement, shipments)}
    IN  /\ Len(buildOrderExportRow(row, shipments, sheets)) = Len(ExportColumns)
        /\ \A view \in views : \A f \in DOMAIN view \cap DOMAIN row : view[f] = row[f]
        /\ \A f \in {ExportColumns[i] : i \in DOMAIN ExportColumns} \cap DOMAIN order :
              \/ f \in {"status", "advisorName"}
              \/ ExportedCell(f, row, shipments, sheets) = order[f]
              \/ f = "shippingStatus" /\ (shipments = <<>> \/ row.status \in ResolvedStatuses)

\* A saved form is read again under the fields that were typed into it, but
\* for the configuration of the vehicle, which no page shows.
TypedIsShown(row, typed) ==
    \A f \in Given(typed) \ {"orderNumber", "salePrice", "partialPayment", "note", "status",
                             "currency", "vehicleConfiguration"} :
       f \in DOMAIN ShipmentOrderDetailsPanel(row, <<>>)
=============================================================================
