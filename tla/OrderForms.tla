------------------------------ MODULE OrderForms ------------------------------
(***************************************************************************)
(* The forms of an order: creating it, editing it, cancelling and          *)
(* refunding it.  The fields are those of the code.                        *)
(***************************************************************************)
EXTENDS Forms

NeedsMethod(status) == status \in {"PARTIALLY_PAID", "CONFIRMED"}

Statuses == {"DRAFT", "PARTIALLY_PAID", "CONFIRMED", "PROCESSING", "SHIPPED",
             "DELIVERED", "CANCELLED", "REFUNDED"}
Methods == {"WIRE_TRANSFER", "CREDIT_CARD", "INVOICE", "OTHER"}
MethodOrNone == Methods \union {""}
Currencies == {"USD", "CAD"}

-----------------------------------------------------------------------------
(* Creating.                                                                *)

defaultValues ==
    [advisorName |-> Blank, orderNumber |-> Blank, salesNumber |-> Blank,
     orderDate |-> Blank, customerName |-> Blank, partDescription |-> Blank,
     customerEmail |-> Blank, customerPhone |-> Blank, vehicleMake |-> Blank,
     vehicleModel |-> Blank, vehicleYear |-> Blank, vehicleVariant |-> Blank,
     vehicleVin |-> Blank, vehicleNotes |-> Blank, vehicleConfiguration |-> Blank,
     billingAddress |-> Blank, billingPerson |-> Blank, billingPhone |-> Blank,
     shippingAddress |-> Blank, shippingPerson |-> Blank, shippingPhone |-> Blank,
     shippingAt |-> Blank, companyName |-> Blank, milesOffered |-> Blank,
     salePrice |-> Blank, basePrice |-> Blank, salesTax |-> 0,
     shippingCharges |-> 0, profit |-> 0, total |-> Blank, currency |-> "USD",
     partialPayment |-> Blank, quantity |-> 1, status |-> "CONFIRMED",
     paymentMethod |-> "", note |-> Blank]

\* What the sections of the page let a user type; the number of the order,
\* the description of the part and the sums are shown only.
CustomerInputs ==
    [advisorName |-> Texts(120), salesNumber |-> Texts(80), orderDate |-> Dates,
     customerName |-> Texts(160), customerPhone |-> Phones,
     customerEmail |-> Texts(160) \union {Malformed}]

VehicleInputs ==
    [vehicleYear |-> Texts(20), vehicleMake |-> Texts(120), vehicleModel |-> Texts(120),
     vehicleVariant |-> Texts(120), vehicleVin |-> Vins, vehicleNotes |-> Texts(1000)]

AddressInputs ==
    [billingAddress |-> Texts(500), billingPerson |-> Texts(160), billingPhone |-> Phones,
     shippingAddress |-> Texts(500), companyName |-> Texts(160),
     shippingPerson |-> Texts(160), shippingPhone |-> Phones]

CommercialInputs ==
    [status |-> {"CONFIRMED", "PARTIALLY_PAID", "DRAFT"},
     paymentMethod |-> {"", "CREDIT_CARD"}, milesOffered |-> Texts(120),
     currency |-> Currencies, basePrice |-> Amounts, partialPayment |-> Amounts,
     note |-> Texts(1000)]

CreateOrderInputs == CustomerInputs @@ VehicleInputs @@ AddressInputs @@ CommercialInputs

\* The description of the part: year, make, model and part with a blank
\* between each two, or "Auto part", and no more than 255 characters.
buildGeneratedPartDescription(v) ==
    LET given == {f \in {"vehicleYear", "vehicleMake", "vehicleModel", "vehicleVariant"} :
                    v[f] # Blank}
    IN  IF given = {} THEN 9
        ELSE Min({255, MapThenSumSet(LAMBDA f : v[f], given) + Cardinality(given) - 1})

parseAmount(m) == IF m = Blank THEN 0 ELSE m

\* formatAmountInput: toFixed(2) rounds a sum that is not whole.
formatAmountInput(m) == IF m % 1000 = 0 THEN m ELSE ((m + 5) \div 10) * 10

\* The effects of the form after a change: sums, and fields that a status
\* does not have.
Derived(v) ==
    LET sum   == parseAmount(v.basePrice) + parseAmount(v.salesTax)
                   + parseAmount(v.shippingCharges) + parseAmount(v.profit)
        total == IF sum > 0 THEN formatAmountInput(sum) ELSE Blank
    IN  [v EXCEPT !.total = total, !.salePrice = total,
           !.partDescription = buildGeneratedPartDescription(v),
           !.paymentMethod = IF NeedsMethod(v.status) THEN @ ELSE "",
           !.partialPayment = IF v.status = "CONFIRMED" THEN Blank ELSE @]

createOrderFormSchema(v) ==
    /\ Fits([advisorName |-> Required(120), orderNumber |-> Optional(50),
         salesNumber |-> Optional(80), orderDate |-> PastOrToday,
         customerName |-> Required(160), partDescription |-> Required(255),
         customerEmail |-> OrBlank(Required(160)), customerPhone |-> Phone,
         vehicleMake |-> Required(120), vehicleModel |-> Required(120),
         vehicleYear |-> Required(20), vehicleVariant |-> Required(120),
         vehicleVin |-> OrBlank(Vin), vehicleNotes |-> Optional(1000),
         vehicleConfiguration |-> Optional(255), billingAddress |-> Required(500),
         billingPerson |-> Required(160), billingPhone |-> Phone,
         shippingAddress |-> Optional(500), shippingPerson |-> Optional(160),
         shippingPhone |-> OrBlank(Phone), shippingAt |-> Optional(40),
         companyName |-> Optional(160), milesOffered |-> Required(120),
         salePrice |-> TwoDecimals, basePrice |-> WholeCents, salesTax |-> WholeCents,
         shippingCharges |-> WholeCents, profit |-> WholeCents, total |-> TwoDecimals,
         currency |-> Currencies, partialPayment |-> OrBlank(WholeCents),
         quantity |-> Nat \ {0}, status |-> Statuses, paymentMethod |-> MethodOrNone,
         note |-> Optional(1000)], v)
    /\ NeedsMethod(v.status) = (v.paymentMethod # "")
    /\ v.status = "PARTIALLY_PAID" => v.partialPayment \in 1 .. v.total

createOrderSchema(v) ==
    /\ Fits([advisorName |-> Required(120), orderNumber |-> Optional(50),
         salesNumber |-> Optional(80), orderDate |-> PastOrToday,
         customerName |-> Required(160), partDescription |-> Required(255),
         customerEmail |-> OrBlank(Required(160)), customerPhone |-> Phone,
         vehicleMake |-> Required(120), vehicleModel |-> Required(120),
         vehicleYear |-> Required(20), vehicleVariant |-> Required(120),
         vehicleVin |-> OrBlank(Vin), vehicleNotes |-> Optional(1000),
         vehicleConfiguration |-> Optional(255), billingAddress |-> Required(500),
         billingPerson |-> Required(160), billingPhone |-> Phone,
         shippingAddress |-> Optional(500), shippingPerson |-> Optional(160),
         shippingPhone |-> OrBlank(Phone), shippingAt |-> Optional(40),
         companyName |-> Optional(160), milesOffered |-> Required(120),
         salePrice |-> WholeCents \ {0}, basePrice |-> WholeCents,
         salesTax |-> WholeCents, shippingCharges |-> WholeCents,
         profit |-> WholeCents, total |-> WholeCents \ {0}, currency |-> Currencies,
         partialPayment |-> OrBlank(WholeCents), quantity |-> Nat \ {0},
         status |-> Statuses, paymentMethod |-> MethodOrNone, note |-> Optional(1000)], v)
    /\ NeedsMethod(v.status) = (v.paymentMethod # "")

\* onSubmit: only a partly paid order has a partial payment.
SubmittedOrder(v) ==
    [v EXCEPT !.partDescription = buildGeneratedPartDescription(v),
              !.partialPayment = IF v.status = "PARTIALLY_PAID" THEN @ ELSE Blank]

\* The sale price is called price; a blank number is "AUTO_GENERATED".
toBackendCreateOrderPayload(v) ==
    [f \in DOMAIN v \ {"salePrice"} |-> IF f = "orderNumber" THEN Max({14, v[f]}) ELSE v[f]]
        @@ [price |-> v.salePrice]

CreateOrderDto(p) ==
    Fits([advisorName |-> Required(120), orderNumber |-> Required(50),
     salesNumber |-> Optional(80), orderDate |-> OrBlank(PastOrToday \union {1}),
     customerName |-> Required(160), partDescription |-> Required(255),
     customerEmail |-> OrBlank(Required(160)), customerPhone |-> Phone,
     vehicleMake |-> Required(120), vehicleModel |-> Required(120),
     vehicleYear |-> Required(20), vehicleVariant |-> Required(120),
     vehicleVin |-> OrBlank(Vin), vehicleNotes |-> Optional(1000),
     vehicleConfiguration |-> Optional(255), billingAddress |-> Required(500),
     billingPerson |-> Required(160), billingPhone |-> Phone,
     shippingAddress |-> Optional(500), shippingPerson |-> Optional(160),
     shippingPhone |-> OrBlank(Phone), shippingAt |-> Optional(40),
     companyName |-> Optional(160), milesOffered |-> Required(120),
     price |-> TwoDecimals \ {0}, basePrice |-> TwoDecimals, salesTax |-> TwoDecimals,
     shippingCharges |-> TwoDecimals, profit |-> TwoDecimals, quantity |-> Nat \ {0},
     total |-> TwoDecimals \ {0}, currency |-> Currencies,
     partialPayment |-> OrBlank(TwoDecimals), status |-> Statuses,
     paymentMethod |-> MethodOrNone, note |-> Optional(1000)], p)

\* The checks of OrdersService.create.
mayCreate(p) ==
    p.orderDate <= 0 /\ NeedsMethod(p.status) = (p.paymentMethod # "")

\* The row: the service's own number, and the columns a later cancellation
\* or refund fills; the note is a row of its own.
createdOrder(p) ==
    [f \in DOMAIN p \ {"note", "orderNumber"} |->
        IF f = "partialPayment" /\ p.status = "CONFIRMED" THEN Blank ELSE p[f]]
        @@ [cancellationReason |-> Blank, refundType |-> "", refundDeductionAmount |-> Blank,
            refundDeductionReason |-> Blank]

-----------------------------------------------------------------------------
(* Editing.                                                                 *)

\* form.reset with the loaded order: a new note, everything else as stored.
OrderLoadedInForm(row) ==
    [f \in (DOMAIN row \ {"quantity", "currency", "cancellationReason", "refundType",
                          "refundDeductionAmount", "refundDeductionReason"})
             \union {"note"} |-> IF f = "note" THEN Blank ELSE row[f]]

\* What the sections of the editor let a user type.
EditedOrderInputs ==
    [customerName |-> Texts(160), advisorName |-> Texts(120), orderDate |-> Dates,
     price |-> Amounts, total |-> Amounts, status |-> Statuses,
     paymentMethod |-> {"", "CREDIT_CARD"}]

EditedVehicleInputs ==
    [f \in {"vehicleMake", "vehicleModel", "vehicleYear", "vehicleVariant",
            "vehicleVin", "vehicleNotes"} |-> VehicleInputs[f]]
        @@ [vehicleConfiguration |-> Texts(255)]

EditedAmountInputs == [milesOffered |-> Texts(120), basePrice |-> Amounts]

\* What every user may edit.
EditedContactInputs ==
    [salesNumber |-> Texts(80), customerPhone |-> Phones,
     customerEmail |-> Texts(160) \union {Malformed}, note |-> Texts(1000)]

EditedShippingInputs ==
    [f \in {"shippingPerson", "shippingPhone", "shippingAddress", "companyName"} |->
        AddressInputs[f]]

\* A sales user may fill in what is missing.
MissingVehicleInputs(row) ==
    [f \in {g \in {"vehicleVin", "vehicleNotes"} : row[g] = Blank} |-> VehicleInputs[f]]

UpdateOrderInputs(role, row) ==
    EditedContactInputs
      @@ IF role = "SALES" THEN MissingVehicleInputs(row) @@ EditedShippingInputs
         ELSE EditedOrderInputs @@ EditedVehicleInputs @@ AddressInputs @@ EditedAmountInputs

updateOrderFormSchema(v) ==
    Fits([salesNumber |-> Optional(80), customerName |-> Optional(160),
      partDescription |-> Optional(255), customerEmail |-> Optional(160) \union {Malformed},
      customerPhone |-> OrBlank(Phone), price |-> OrBlank(Nat \ {0}),
      total |-> OrBlank(Nat \ {0}), status |-> Statuses, paymentMethod |-> MethodOrNone,
      advisorName |-> Optional(120), orderDate |-> OrBlank(PastOrToday),
      vehicleMake |-> Optional(120), vehicleModel |-> Optional(120),
      vehicleYear |-> Optional(20), vehicleVariant |-> Optional(120),
      vehicleVin |-> OrBlank(Vin), vehicleNotes |-> Optional(1000),
      vehicleConfiguration |-> Optional(255), billingAddress |-> Optional(500),
      billingPerson |-> Optional(160), billingPhone |-> OrBlank(Phone),
      shippingAddress |-> Optional(500), shippingPerson |-> Optional(160),
      shippingPhone |-> OrBlank(Phone), shippingAt |-> Optional(40),
      companyName |-> Optional(160), milesOffered |-> Optional(120),
      basePrice |-> OrBlank(Nat), salesTax |-> OrBlank(Nat),
      shippingCharges |-> OrBlank(Nat), profit |-> OrBlank(Nat),
      partialPayment |-> OrBlank(Nat), note |-> Optional(1000)], v)

updateOrderSchema(v) ==
    Fits([salesNumber |-> Optional(80), customerName |-> Optional(160),
      partDescription |-> Optional(255), customerEmail |-> Optional(160),
      customerPhone |-> OrBlank(Phone), quantity |-> OrBlank(Nat \ {0}),
      price |-> OrBlank(WholeCents), total |-> OrBlank(WholeCents),
      currency |-> Currencies, status |-> Statuses, paymentMethod |-> MethodOrNone,
      advisorName |-> Optional(120), orderDate |-> OrBlank(PastOrToday),
      vehicleMake |-> Optional(120), vehicleModel |-> Optional(120),
      vehicleYear |-> Optional(20), vehicleVariant |-> Optional(120),
      vehicleVin |-> OrBlank(Vin), vehicleNotes |-> Optional(1000),
      vehicleConfiguration |-> Optional(255), billingAddress |-> Optional(500),
      billingPerson |-> Optional(160), billingPhone |-> OrBlank(Phone),
      shippingAddress |-> Optional(500), shippingPerson |-> Optional(160),
      shippingPhone |-> OrBlank(Phone), shippingAt |-> Optional(40),
      companyName |-> Optional(160), milesOffered |-> Optional(120),
      basePrice |-> OrBlank(WholeCents), salesTax |-> OrBlank(WholeCents),
      shippingCharges |-> OrBlank(WholeCents), profit |-> OrBlank(WholeCents),
      partialPayment |-> OrBlank(WholeCents), note |-> Optional(1000)], v)

\* onSubmit: a sales user sends the fields that the form lets them change.
SubmittedEdit(role, row, v) ==
    IF role # "SALES" THEN v
    ELSE [f \in {"salesNumber", "customerEmail", "customerPhone", "shippingAddress",
                 "shippingPerson", "shippingPhone", "shippingAt", "companyName", "note"}
                \union {f \in {"vehicleVin", "vehicleNotes"} : row[f] = Blank} |-> v[f]]

\* Quantity is not passed on, and neither is what is undefined; an empty
\* payment method is null, which is.
toBackendUpdateOrderPayload(v) ==
    [f \in Given(v) \ {"quantity"} |-> v[f]]

UpdateOrderDto(p) ==
    Fits([salesNumber |-> Required(80), customerName |-> Required(160),
      partDescription |-> Required(255), customerEmail |-> Required(160),
      customerPhone |-> Phone, quantity |-> Nat \ {0}, price |-> TwoDecimals \ {0},
      total |-> TwoDecimals \ {0}, currency |-> Currencies, status |-> Statuses,
      paymentMethod |-> MethodOrNone, advisorName |-> Required(120),
      orderDate |-> PastOrToday \union {1}, vehicleMake |-> Required(120),
      vehicleModel |-> Required(120), vehicleYear |-> Required(20),
      vehicleVariant |-> Required(120), vehicleVin |-> Vin, vehicleNotes |-> Required(1000),
      vehicleConfiguration |-> Required(255), billingAddress |-> Required(500),
      billingPerson |-> Required(160), billingPhone |-> Phone,
      shippingAddress |-> Required(500), shippingPerson |-> Required(160),
      shippingPhone |-> Phone, shippingAt |-> Required(40), companyName |-> Required(160),
      milesOffered |-> Required(120), basePrice |-> TwoDecimals, salesTax |-> TwoDecimals,
      shippingCharges |-> TwoDecimals, profit |-> TwoDecimals,
      partialPayment |-> TwoDecimals, note |-> Required(1000)], p)

\* validateUpdateAccess.
mayChange(role, row, p) ==
    role = "SALES" =>
      \A f \in DOMAIN p :
        \/ f \in {"salesNumber", "customerEmail", "customerPhone", "note",
                  "shippingAddress", "shippingPerson", "shippingPhone", "shippingAt",
                  "companyName"}
        \/ f \in {"vehicleVin", "vehicleNotes"} /\ row[f] = Blank

\* buildOrderUpdateHistoryMessage: the fields the note "Order updated" names.
ChangedFields(row, p) == {f \in DOMAIN p \ {"note"} : p[f] # row[f]}

\* The checks of OrdersService.update.
mayUpdate(role, row, p) ==
    LET next == p @@ row
    IN  /\ DOMAIN p # {}
        /\ mayChange(role, row, p)
        /\ "orderDate" \in DOMAIN p => p.orderDate <= 0
        /\ role # "ADMIN" => NeedsMethod(next.status) = (next.paymentMethod # "")
        /\ next.status = "PARTIALLY_PAID" /\ "partialPayment" \in DOMAIN p
             => p.partialPayment > 0
        /\ ChangedFields(row, p) # {} \/ "note" \in DOMAIN p

\* OrdersRepository.update: what is given replaces what is stored.
updatedOrder(row, p) == [f \in DOMAIN row |-> IF f \in DOMAIN p THEN p[f] ELSE row[f]]

-----------------------------------------------------------------------------
(* Cancelling and refunding (OrderResolutionActions).                       *)

\* getOriginalPaidAmount of the page and of the service.
OriginalPaidAmount(row) ==
    IF row.partialPayment > 0 THEN Min({row.partialPayment, row.total})
    ELSE IF row.paymentMethod # "" \/ row.status \notin {"DRAFT", "PARTIALLY_PAID"}
    THEN row.total ELSE 0

openCancellationModal(row) == [cancellationReason |-> row.cancellationReason]

\* The amount of a partial refund is what was not retained.
openRefundModal(row) ==
    [refundType |-> IF row.refundType = "" THEN "FULL" ELSE row.refundType,
     refundAmount |-> IF row.refundType = "PARTIAL"
                      THEN Max({OriginalPaidAmount(row)
                                  - parseAmount(row.refundDeductionAmount), 0})
                      ELSE Blank,
     refundDeductionReason |-> row.refundDeductionReason]

CancelOrderInputs == [cancellationReason |-> Texts(1000)]

RefundOrderInputs ==
    [refundType |-> {"FULL", "PARTIAL"}, refundAmount |-> Amounts,
     refundDeductionReason |-> Texts(1000)]

cancelOrderSchema(v) == Fits([cancellationReason |-> Required(1000)], v)

\* handleRefundSubmit: Number('') is 0.
SubmittedRefund(v) ==
    IF v.refundType = "FULL"
    THEN [v EXCEPT !.refundAmount = Blank, !.refundDeductionReason = Blank]
    ELSE [v EXCEPT !.refundAmount = parseAmount(@)]

refundOrderSchema(v) ==
    /\ Fits([refundType |-> {"FULL", "PARTIAL"}, refundAmount |-> OrBlank(WholeCents),
             refundDeductionReason |-> Optional(1000)], v)
    /\ v.refundType = "PARTIAL" => v.refundAmount > 0 /\ v.refundDeductionReason # Blank

CancelOrderDto(p) == Fits([cancellationReason |-> Required(1000)], p)

RefundOrderDto(p) ==
    IF p.refundType = "PARTIAL"
    THEN Fits([refundType |-> {"PARTIAL"}, refundAmount |-> TwoDecimals,
               refundDeductionReason |-> Required(1000)], p)
    ELSE p.refundType = "FULL"

cancelledOrder(row, p) ==
    [row EXCEPT !.status = "CANCELLED", !.cancellationReason = p.cancellationReason]

\* The checks of OrdersService.refund.
mayRefund(row, p) ==
    p.refundType = "PARTIAL" =>
        p.refundAmount > 0 /\ p.refundAmount <= OriginalPaidAmount(row)

\* Mutant: what is given back is stored as what is retained.
refundedOrderSwapped(row, p) ==
    [row EXCEPT !.status = "REFUNDED", !.refundType = p.refundType,
       !.refundDeductionAmount = IF p.refundType = "PARTIAL" THEN p.refundAmount ELSE Blank,
       !.refundDeductionReason = p.refundDeductionReason]

refundedOrder(row, p) ==
    [row EXCEPT !.status = "REFUNDED", !.refundType = p.refundType,
       !.refundDeductionAmount = IF p.refundType = "PARTIAL"
                                 THEN OriginalPaidAmount(row) - p.refundAmount ELSE Blank,
       !.refundDeductionReason = p.refundDeductionReason]
=============================================================================
