--------------------------- MODULE FulfilmentForms ----------------------------
(***************************************************************************)
(* The forms of what follows a sale: costs, shipment and replacement.      *)
(***************************************************************************)
EXTENDS Forms, Sequences

-------------------------------------------------------------------------------
\* The forms of a shipment's costs: the sheet on the costs page, the base,
\* estimated and additional costs on the card of the gross profit.

CostCurrencies == {"USD", "CAD", "EUR", "GBP"}

\* The order that the costs belong to was sold for this.
SaleAmount == 90000

CostTexts == {Blank, Malformed, 0, 290, 12345, 20000}

\* parseAmountInput: what is no number is 0.
parseAmountInput(m) == IF m \in {Blank, Malformed} THEN 0 ELSE m

buildDefaultShipmentCostFormValues ==
    [purchaseAmount |-> Blank, shippingCharges |-> 0, estimatedPurchaseAmount |-> 0,
     estimatedShippingCharges |-> 0, additionalCharges |-> 0, currency |-> "USD"]

hydrateShipmentCostFormValues(cost) == Only(cost, DOMAIN buildDefaultShipmentCostFormValues)

CostsFormInputs ==
    [purchaseAmount |-> CostTexts, shippingCharges |-> CostTexts,
     additionalCharges |-> CostTexts, currency |-> CostCurrencies]

\* createShipmentCostSchema and updateShipmentCostSchema, parsed by the API
\* client and again by the proxy.
ShipmentCostSchema(v) ==
    Fits([purchaseAmount |-> WholeCents, shippingCharges |-> WholeCents,
      estimatedPurchaseAmount |-> WholeCents, estimatedShippingCharges |-> WholeCents,
      additionalCharges |-> WholeCents, currency |-> CostCurrencies,
      notes |-> Optional(1000)], v)

\* A pattern for each text, then pipe(createShipmentCostSchema).
shipmentCostFormSchema(v) ==
    /\ Fits([purchaseAmount |-> TwoDecimals, shippingCharges |-> TwoDecimals,
         estimatedPurchaseAmount |-> TwoDecimals, estimatedShippingCharges |-> TwoDecimals,
         additionalCharges |-> TwoDecimals, currency |-> CostCurrencies], v)
    /\ ShipmentCostSchema(v)

\* handleSubmit of useCostsWorkspace: estimates are shown only.
SubmittedCosts(v) ==
    [purchaseAmount |-> parseAmountInput(v.purchaseAmount),
     shippingCharges |-> parseAmountInput(v.shippingCharges),
     additionalCharges |-> parseAmountInput(v.additionalCharges), currency |-> v.currency]

\* What the backend calls a field of the front end.
BackendName ==
    [shippingCharges |-> "shippingAmount",
     estimatedShippingCharges |-> "estimatedShippingAmount",
     additionalCharges |-> "additionalAmount"]
        @@ [f \in {"purchaseAmount", "estimatedPurchaseAmount", "currency", "notes"} |-> f]

\* toBackendCreateShipmentCostPayload and toBackendUpdateShipmentCostPayload.
toBackendShipmentCostPayload(v) ==
    [g \in {BackendName[f] : f \in DOMAIN v} |->
        v[CHOOSE f \in DOMAIN v : BackendName[f] = g]]

\* CreateCostDto and UpdateCostDto.
CostDto(p) ==
    Fits([purchaseAmount |-> TwoDecimals, shippingAmount |-> TwoDecimals,
      estimatedPurchaseAmount |-> TwoDecimals, estimatedShippingAmount |-> TwoDecimals,
      additionalAmount |-> TwoDecimals, currency |-> CostCurrencies,
      notes |-> Optional(1000)], p)

NoCosts ==
    [purchaseAmount |-> 0, shippingAmount |-> 0, estimatedPurchaseAmount |-> 0,
     estimatedShippingAmount |-> 0, additionalAmount |-> 0, currency |-> "USD",
     hasActual |-> {}, notes |-> Blank, extras |-> <<>>]

\* The amounts of a sheet as the pages call them, shipmentCostSchema.
shipmentCostSchema(row) ==
    [f \in (DOMAIN BackendName) \union {"hasActual"} |->
        IF f = "hasActual" THEN row.hasActual ELSE row[BackendName[f]]]

\* What GP is taken from: actual costs, else their estimates.
calculateTotalCosts(draft) ==
    (IF "purchaseAmount" \in draft.hasActual THEN draft.purchaseAmount
     ELSE draft.estimatedPurchaseAmount)
    + (IF "shippingAmount" \in draft.hasActual THEN draft.shippingCharges
       ELSE draft.estimatedShippingCharges)
    + draft.additionalCharges

\* The profit the costs page shows while the user types: every amount of the
\* form counts as actual.
liveGrossProfit(v) ==
    SaleAmount - calculateTotalCosts(
        SubmittedCosts(v) @@ [hasActual |-> {"purchaseAmount", "shippingAmount"}])

\* Mutant: what is given does not become actual, and its estimate counts.
storedCostsEstimated(row, p) ==
    LET sheet == [f \in DOMAIN row |->
            IF f # "hasActual" /\ f \in DOMAIN p /\ f \in Given(p) THEN p[f] ELSE row[f]]
    IN  [grossProfit |-> SaleAmount - calculateTotalCosts(shipmentCostSchema(sheet))] @@ sheet

\* CostsService: what is given is actual, and the profit of the result.
storedCosts(row, p) ==
    LET sheet == [f \in DOMAIN row |->
            IF f = "hasActual"
            THEN row.hasActual \union (DOMAIN p \cap {"purchaseAmount", "shippingAmount"})
            ELSE IF f \in DOMAIN p /\ f \in Given(p) THEN p[f] ELSE row[f]]
    IN  [grossProfit |-> SaleAmount - calculateTotalCosts(shipmentCostSchema(sheet))] @@ sheet

-----------------------------------------------------------------------------
(* The card of the gross profit.                                            *)

\* additionalAmount of the card: the entries, else the amount of the sheet.
cardAdditional(row) ==
    IF row.extras = <<>> THEN row.additionalAmount
    ELSE MapThenSumSet(LAMBDA i : row.extras[i], DOMAIN row.extras)

openBaseEditForm(row) ==
    [purchaseAmount |-> row.purchaseAmount, shippingCharges |-> row.shippingAmount,
     currency |-> row.currency, notes |-> Blank]

openEstimatedCostForm(row) ==
    [estimatedPurchaseAmount |-> row.estimatedPurchaseAmount,
     estimatedShippingCharges |-> row.estimatedShippingAmount,
     currency |-> row.currency, notes |-> Blank]

\* Number('') is 0 and a number input gives no other text.
CardAmounts == {Blank, 0, 290, 12345, 20000}

BaseCostInputs ==
    [purchaseAmount |-> CardAmounts, shippingCharges |-> CardAmounts,
     currency |-> {"USD", "$"}, notes |-> Texts(1000)]

\* An estimate is disabled once its actual amount is saved.
EstimatedCostInputs(row) ==
    [f \in {"currency", "notes"}
        \union {e \in {"estimatedPurchaseAmount", "estimatedShippingCharges"} :
                  (IF e = "estimatedPurchaseAmount" THEN "purchaseAmount"
                   ELSE "shippingAmount") \notin row.hasActual} |->
        IF f \in DOMAIN BaseCostInputs THEN BaseCostInputs[f] ELSE CardAmounts]

\* The checks of handleBaseCostSubmit and handleEstimatedCostSubmit.
CardAccepts(v) == v.currency # "$" /\ v.notes # Blank

SubmittedBase(row, v) ==
    [purchaseAmount |-> parseAmountInput(v.purchaseAmount),
     shippingCharges |-> parseAmountInput(v.shippingCharges),
     additionalCharges |-> cardAdditional(row), currency |-> v.currency, notes |-> v.notes]

\* Only the estimates that still count are sent.
SubmittedEstimates(row, v) ==
    [f \in DOMAIN EstimatedCostInputs(row) |->
        IF f \in {"currency", "notes"} THEN v[f] ELSE parseAmountInput(v[f])]

AdditionalCostInputs == [amount |-> CardAmounts \union {350}, reason |-> Texts(1000)]

\* The checks of handleAdditionalCostSubmit.
AdditionalAccepts(v) == parseAmountInput(v.amount) > 0 /\ v.reason # Blank

createShipmentAdditionalCostSchema(v) ==
    Fits([amount |-> WholeCents \ 0 .. 9, reason |-> Required(1000)], v)

CreateAdditionalCostDto(p) ==
    Fits([amount |-> TwoDecimals \ 0 .. 9, reason |-> Required(1000)], p)

\* createAdditionalCost and the recalculation that follows it.
withAdditionalCost(row, p) ==
    LET extras == Append(row.extras, p.amount)
    IN  storedCosts([row EXCEPT !.extras = extras],
                    [additionalAmount |-> MapThenSumSet(LAMBDA i : extras[i], DOMAIN extras)])

FilledCosts == [purchaseAmount |-> 20000] @@ buildDefaultShipmentCostFormValues

\* Sheets as stored: by the costs page, by estimates, with an additional cost,
\* and with two whose sum the schemas refuse, 0.2 + 0.35.
StoredCosts ==
    LET sheet == storedCosts(NoCosts, toBackendShipmentCostPayload(SubmittedCosts(FilledCosts)))
        none  == [grossProfit |-> SaleAmount] @@ NoCosts
        small == withAdditionalCost(sheet, [amount |-> 200])
    IN  {sheet, withAdditionalCost(sheet, [amount |-> 12340]),
         small, withAdditionalCost(small, [amount |-> 350]),
         storedCosts(none, [estimatedPurchaseAmount |-> 30000, notes |-> 4])}

-------------------------------------------------------------------------------
\* The form that creates the shipment of an order, and afterwards changes
\* its status and its costs (CreateShipmentForm).

WorkflowStatuses == {"PENDING", "LOCATING", "PRE_PROCESSING", "PURCHASE", "SHIPPED"}

EmptyShipment == [status |-> "", bolNumber |-> Blank, pickupNumber |-> Blank,
               carrierName |-> Blank, costs |-> <<>>]

ShippedFields == {"bolNumber", "pickupNumber", "carrierName", "shippingAmount"}
AmountFields == {"purchaseAmount", "shippingAmount", "estimatedPurchaseAmount",
                 "estimatedShippingAmount", "additionalAmount"}
CostFields == AmountFields \union {"costNotes"}

HasActual(row, amount) == row.costs # <<>> /\ amount \in row.costs[1].hasActual

\* buildShipmentFormValues.
buildShipmentFormValues(row) ==
    [status |-> IF row.status = "" THEN "PENDING" ELSE row.status]
        @@ Only(row, {"bolNumber", "pickupNumber", "carrierName"})
        @@ [f \in CostFields |-> IF row.costs = <<>> THEN Blank ELSE row.costs[1][f]]

\* The effects on a status without shipping: its fields are emptied.
ShippedOnly(v) ==
    IF v.status = "SHIPPED" THEN v
    ELSE [f \in DOMAIN v |-> IF f \in ShippedFields THEN Blank ELSE v[f]]

\* The effects when the form is mounted: the first render knows no status
\* yet, and what is for shipped ones only is emptied after the reset.
ShipmentMounted(row) ==
    [f \in DOMAIN buildShipmentFormValues(row) |->
        IF f \in ShippedFields THEN Blank ELSE buildShipmentFormValues(row)[f]]

\* The amounts that are shown.
AmountsShown(row, v) ==
    {f \in {"estimatedPurchaseAmount"} : ~HasActual(row, "purchaseAmount")}
      \union {f \in {"estimatedShippingAmount"} : ~HasActual(row, "shippingAmount")}
      \union {f \in {"purchaseAmount"} : v.status \in {"PURCHASE", "SHIPPED"}
                                           /\ ~HasActual(row, "purchaseAmount")}
      \union {f \in {"shippingAmount"} : v.status = "SHIPPED"}

ShippedTexts ==
    [bolNumber |-> Texts(50), pickupNumber |-> Texts(50), carrierName |-> Texts(120)]

\* What the fields that are shown let a user type.
ShipmentInputs(row, v) ==
    [status |-> WorkflowStatuses] @@ [f \in AmountsShown(row, v) |-> Amounts]
        @@ IF v.status = "SHIPPED" THEN ShippedTexts ELSE <<>>

\* optionalAmountInputSchema.
OptionalAmount == OrBlank(Nat)

createShipmentSchema(v) ==
    /\ Fits([status |-> WorkflowStatuses, bolNumber |-> Optional(50),
             pickupNumber |-> Optional(50), carrierName |-> Optional(120),
             costNotes |-> Optional(1000)] @@ [f \in AmountFields |-> OptionalAmount], v)
    /\ v.status \in {"PURCHASE", "SHIPPED"} => v.purchaseAmount # Blank
    /\ v.status = "SHIPPED" => v.carrierName # Blank /\ v.shippingAmount # Blank
    /\ v.additionalAmount > 0 => v.costNotes # Blank

updateShipmentStatusSchema(v) ==
    /\ Fits([status |-> WorkflowStatuses, bolNumber |-> Optional(50),
             pickupNumber |-> Optional(50), proNumber |-> Optional(50),
             carrierName |-> Optional(120), costNotes |-> Optional(1000)]
                @@ [f \in AmountFields |-> OptionalAmount], v)
    /\ v.status = "SHIPPED" => v.carrierName # Blank

\* The resolver, and the browser, which takes no fraction of a cent in a
\* number input that is shown.
ShipmentFormAccepts(row, v) ==
    /\ createShipmentSchema(v)
    /\ \A f \in AmountsShown(row, v) : v[f] = Blank \/ v[f] \in TwoDecimals

\* onSubmit: an amount that is empty or 0 is the one saved as actual.
SubmittedShipment(row, v) ==
    LET amount(f) == IF v[f] \notin {Blank, 0} THEN v[f]
                     ELSE IF HasActual(row, f) THEN row.costs[1][f] ELSE Blank
    IN  [v EXCEPT !.purchaseAmount = amount("purchaseAmount"),
                  !.shippingAmount = amount("shippingAmount")]

\* createShipmentSchema in onSubmit, and the schema of the API and the proxy.
ShipmentClientAccepts(row, v) ==
    createShipmentSchema(v) /\ (row.status # "" => updateShipmentStatusSchema(v))

\* What is undefined is not sent.
toUpdateShipmentStatusPayload(v) == Only(v, Given(v))

\* Mutant: the DTO takes shorter names than the schemas before it.
ShipmentDtoShorter(p) ==
    Fits([status |-> WorkflowStatuses, bolNumber |-> Required(50),
          pickupNumber |-> Required(50), carrierName |-> Required(80),
          costNotes |-> Required(1000)] @@ [f \in AmountFields |-> TwoDecimals], p)

\* CreateShipmentDto and UpdateShipmentStatusDto.
ShipmentDto(p) ==
    /\ Fits([status |-> WorkflowStatuses, bolNumber |-> Required(50),
             pickupNumber |-> Required(50), carrierName |-> Required(120),
             costNotes |-> Required(1000)] @@ [f \in AmountFields |-> TwoDecimals], p)
    /\ p.status = "SHIPPED" => "carrierName" \in DOMAIN p

\* ensureCostPayloadForStatus.
ensureCostPayloadForStatus(row, p) ==
    /\ p.status \in {"PURCHASE", "SHIPPED"} /\ row.costs = <<>>
         => "purchaseAmount" \in DOMAIN p
    /\ p.status = "SHIPPED" /\ row.status # p.status => "shippingAmount" \in DOMAIN p
    /\ "additionalAmount" \in DOMAIN p /\ "costNotes" \notin DOMAIN p =>
         \/ p.additionalAmount = 0
         \/ row.costs # <<>> /\ row.costs[1].costNotes # Blank

\* The checks of create and updateStatus: these users override transitions.
mayShip(row, p) ==
    /\ row.status = p.status => DOMAIN p # {"status"}
    /\ p.status = "SHIPPED" => "carrierName" \in DOMAIN p \/ row.carrierName # Blank
    /\ ensureCostPayloadForStatus(row, p)

\* resolveCostAmount: a purchase that has an amount does not lose it.
resolveCostAmount(next, existing) ==
    IF existing > 0 /\ next \in {Blank, 0} THEN existing
    ELSE IF next = Blank THEN existing ELSE next

\* upsertShipmentCostIfNeeded.
upsertShipmentCost(costs, p) ==
    LET old == IF costs # <<>> THEN costs[1]
               ELSE [f \in AmountFields |-> 0] @@ [costNotes |-> Blank, hasActual |-> {}]
    IN  IF DOMAIN p \cap CostFields = {} THEN costs
        ELSE <<[f \in CostFields |->
                    IF f \notin DOMAIN p THEN old[f]
                    ELSE IF f = "purchaseAmount" THEN resolveCostAmount(p[f], old[f])
                    ELSE p[f]]
                 @@ [hasActual |-> old.hasActual \union
                        (DOMAIN p \cap {"purchaseAmount", "shippingAmount"})]>>

\* The shipment after create or updateStatus.
shippedRow(row, p) ==
    [f \in DOMAIN row |-> IF f = "costs" THEN upsertShipmentCost(row.costs, p)
                          ELSE IF f \in DOMAIN p THEN p[f] ELSE row[f]]

FilledShipment(row) ==
    [f \in DOMAIN buildShipmentFormValues(row) |->
        CASE f = "status" -> "SHIPPED"
          [] f = "carrierName" -> 120
          [] f \in {"purchaseAmount", "shippingAmount"} -> 12340
          [] OTHER -> ShipmentMounted(row)[f]]

StoredShipments ==
    LET shipment(v) == shippedRow(EmptyShipment, toUpdateShipmentStatusPayload(v))
        filled == FilledShipment(EmptyShipment)
    IN  {shipment(ShippedOnly([filled EXCEPT !.status = "LOCATING", !.purchaseAmount = Blank,
                                             !.estimatedPurchaseAmount = 20000])),
         shipment(ShippedOnly([filled EXCEPT !.status = "PURCHASE"])),
         shipment([filled EXCEPT !.bolNumber = 50, !.additionalAmount = 1000, !.costNotes = 5])}

-------------------------------------------------------------------------------
\* The popup that requests a replacement or changes a request, and the
\* card that changes it on its own page.

ReplacementStatuses ==
    {"WAITING_YARD_RESPONSE", "YARD_CONTACTED", "AGREED", "DISAGREED", "YARD_REFUNDING",
     "YARD_DOESNT_HAVE_REPLACEMENT", "SHIPPED", "IN_TRANSIT", "DELIVERED"}

NoReplacement == [customerReason |-> Blank, yardUpdate |-> Blank,
                  replacementStatus |-> "WAITING_YARD_RESPONSE",
                  replacementProNumber |-> Blank, replacementCarrierName |-> Blank]

\* The popup and the card show the request as it is stored.
ReplacementShown(row) == row

ReplacementInputs ==
    [customerReason |-> Texts(2000), yardUpdate |-> Texts(3000),
     replacementStatus |-> ReplacementStatuses, replacementProNumber |-> Texts(50),
     replacementCarrierName |-> Texts(120)]

\* What goes by truck has a carrier and a number.
HasTransitDetails(v) ==
    v.replacementStatus = "IN_TRANSIT" =>
        v.replacementCarrierName # Blank /\ v.replacementProNumber # Blank

\* handleSubmit of the popup.
PopupAccepts(v) == v.customerReason # Blank /\ HasTransitDetails(v)

\* handleUpdate of the page, which takes an empty reason.
CardTakes(v) == HasTransitDetails(v)

createReplacementSchema(v) ==
    /\ Fits([customerReason |-> Required(2000), yardUpdate |-> Optional(3000),
             replacementStatus |-> ReplacementStatuses,
             replacementProNumber |-> Optional(50),
             replacementCarrierName |-> Optional(120)], v)
    /\ HasTransitDetails(v)

\* An empty text stays one here: it removes what is stored.
updateReplacementSchema(v) ==
    /\ Fits([customerReason |-> Optional(2000), yardUpdate |-> Optional(3000),
             replacementStatus |-> ReplacementStatuses,
             replacementProNumber |-> Optional(50),
             replacementCarrierName |-> Optional(120)], v)
    /\ HasTransitDetails(v)

CreateReplacementDto(p) ==
    Fits([customerReason |-> Required(2000), yardUpdate |-> Optional(3000),
          replacementStatus |-> ReplacementStatuses, replacementProNumber |-> Optional(50),
          replacementCarrierName |-> Optional(120)], p)

UpdateReplacementDto(p) ==
    Fits([customerReason |-> Optional(2000), yardUpdate |-> Optional(3000),
          replacementStatus |-> ReplacementStatuses, replacementProNumber |-> Optional(50),
          replacementCarrierName |-> Optional(120)], p)

\* ensureTransitDetails: of what will be stored.
ensureTransitDetails(row, p) == HasTransitDetails(p @@ row)

\* The checks of create and of update.
mayRequest(p) == p.customerReason # Blank /\ HasTransitDetails(p)

\* buildUpdateSummary: null when nothing changes.
buildUpdateSummary(row, p) == {f \in DOMAIN p : p[f] # row[f]}

mayUpdateReplacement(row, p) ==
    /\ DOMAIN p # {}
    /\ "customerReason" \in DOMAIN p => p.customerReason # Blank
    /\ ensureTransitDetails(row, p)
    /\ buildUpdateSummary(row, p) # {}

requestedReplacement(p) == p

\* What is given replaces what is stored, an empty text by null.
updatedReplacement(row, p) == p @@ row

FilledReplacement == [customerReason |-> 5] @@ NoReplacement

StoredReplacements ==
    {requestedReplacement(FilledReplacement),
     requestedReplacement([FilledReplacement EXCEPT !.yardUpdate = 3000,
         !.replacementStatus = "IN_TRANSIT", !.replacementProNumber = 50,
         !.replacementCarrierName = 120])}
===============================================================================
