------------------------------- MODULE FormPage -------------------------------
(***************************************************************************)
(* A form on its way to the row it stores: what a user types is checked by *)
(* the schema of the page and its API client, by the proxy route, by the   *)
(* DTO of the controller and by the service, four places that are written  *)
(* by hand and must agree.                                                 *)
(***************************************************************************)
EXTENDS Browser

LOCAL INSTANCE OrderViews
LOCAL INSTANCE PeopleForms
LOCAL INSTANCE InvoiceForms
LOCAL INSTANCE FiniteSets
LOCAL INSTANCE TLC

OrderCreating == {"create order", "convert lead"}
LeadCreating == {"create lead", "convert inquiry"}
CostSheets == {"create cost", "edit cost"}
CardForms == {"base costs", "estimated costs"}
ShipmentEditing == {"create shipment", "edit shipment"}
InvoiceEditing == {"generate invoice", "edit invoice", "clone invoice"}
ReplacementChanges == {"update replacement", "edit replacement"}

Forms == OrderCreating \union LeadCreating \union CostSheets \union CardForms
    \union ShipmentEditing \union ReplacementChanges \union InvoiceEditing
    \union {"edit order", "cancel order", "refund order", "edit lead", "additional cost",
            "request replacement", "create user", "edit user", "password", "note"}

\* Who sees a form.
Roles(form) ==
    IF form \in OrderCreating \union LeadCreating \union {"edit lead"}
    THEN {"SALES"}
    ELSE IF form = "edit order" THEN {"ADMIN", "SHIPPING", "SALES"}
    ELSE IF form \in {"create user", "edit user", "password"} THEN {"ADMIN"}
    ELSE {"ADMIN", "SHIPPING"}

\* Fields that rules relate: two of them are typed together.
Coupled == {"carrierName", "shippingAmount", "purchaseAmount", "replacementStatus",
            "replacementProNumber", "replacementCarrierName", "password", "confirmPassword",
            "status", "paymentMethod", "partialPayment", "basePrice", "refundType",
            "refundAmount", "refundDeductionReason", "vehicleYear", "vehicleMake",
            "vehicleModel"}

-----------------------------------------------------------------------------
(* The layers of each form.                                                 *)

\* The form as it opens.
InitialValues(form, row) ==
    CASE form = "create order" -> Derived(defaultValues)
      [] form = "convert lead" -> Derived(buildOrderInitialValues(row, defaultValues))
      [] form = "edit order" -> OrderLoadedInForm(row)
      [] form = "cancel order" -> openCancellationModal(row)
      [] form = "refund order" -> openRefundModal(row)
      [] form = "create lead" -> createDefaultValues
      [] form = "convert inquiry" -> conversionValues(row)
      [] form = "edit lead" -> LeadLoadedInForm(row)
      [] form = "create cost" -> buildDefaultShipmentCostFormValues
      [] form = "edit cost" -> hydrateShipmentCostFormValues(shipmentCostSchema(row))
      [] form = "base costs" -> openBaseEditForm(row)
      [] form = "estimated costs" -> openEstimatedCostForm(row)
      [] form = "additional cost" -> [amount |-> Blank, reason |-> Blank]
      [] form \in ShipmentEditing -> ShipmentMounted(row)
      [] form = "request replacement" -> NoReplacement
      [] form \in ReplacementChanges -> ReplacementShown(row)
      [] form = "generate invoice" -> defaultsToDraft(getDefaults(row))
      [] form = "edit invoice" -> invoiceToDraft(row)
      [] form = "clone invoice" -> invoiceToCloneDraft(row)
      [] form = "create user" -> NewAccount
      [] form = "edit user" -> AccountShown(row)
      [] form = "password" -> NewPassword
      [] form = "note" -> [message |-> Blank]

\* What a user can type into its fields.
Inputs(form, role, row, v) ==
    CASE form \in OrderCreating -> CreateOrderInputs
      [] form = "edit order" -> UpdateOrderInputs(role, row)
      [] form = "cancel order" -> CancelOrderInputs
      [] form = "refund order" -> RefundOrderInputs
      [] form \in LeadCreating \union {"edit lead"} -> LeadInputs
      [] form \in CostSheets -> CostsFormInputs
      [] form = "base costs" -> BaseCostInputs
      [] form = "estimated costs" -> EstimatedCostInputs(row)
      [] form = "additional cost" -> AdditionalCostInputs
      [] form \in ShipmentEditing -> ShipmentInputs(row, v)
      [] form \in ReplacementChanges \union {"request replacement"} -> ReplacementInputs
      [] form \in InvoiceEditing -> InvoiceInputs
      [] form = "create user" -> AccountInputs
      [] form = "edit user" -> Only(AccountInputs, DOMAIN v)
      [] form = "password" -> PasswordInputs
      [] form = "note" -> NoteInputs

\* The form v after field f was typed, and the effects of that.
After(form, f, v) ==
    CASE form \in OrderCreating -> Derived(VehicleTyped(f, v))
      [] form \in LeadCreating \union {"edit lead"} -> VehicleTyped(f, v)
      [] form \in ShipmentEditing -> ShippedOnly(v)
      [] OTHER -> v

\* What the handler of the submission makes of the form.
ValuesSent(form, role, row, v) ==
    CASE form \in OrderCreating -> SubmittedOrder(v)
      [] form = "edit order" -> SubmittedEdit(role, row, v)
      [] form = "refund order" -> SubmittedRefund(v)
      [] form \in CostSheets -> SubmittedCosts(v)
      [] form = "base costs" -> SubmittedBase(row, v)
      [] form = "estimated costs" -> SubmittedEstimates(row, v)
      [] form = "additional cost" -> [v EXCEPT !.amount = parseAmountInput(@)]
      [] form \in ShipmentEditing -> SubmittedShipment(row, v)
      [] form \in InvoiceEditing -> draftToPayload(v)
      [] form = "password" -> SentPassword(v)
      [] OTHER -> v

\* The schema of the form, or the checks of its handler.
FormAccepts(form, row, v) ==
    CASE form \in OrderCreating -> createOrderFormSchema(v)
      [] form = "edit order" -> updateOrderFormSchema(v)
      [] form \in LeadCreating \union {"edit lead"} -> createLeadFormSchema(v)
      [] form \in CostSheets -> shipmentCostFormSchema(v)
      [] form \in CardForms -> CardAccepts(v)
      [] form = "additional cost" -> AdditionalAccepts(v)
      [] form \in ShipmentEditing -> ShipmentFormAccepts(row, v)
      [] form \in {"request replacement", "update replacement"} -> PopupAccepts(v)
      [] form = "edit replacement" -> CardTakes(v)
      [] form \in InvoiceEditing -> InvoiceFormAccepts(v)
      [] form = "create user" -> createUserSchema(v)
      [] form = "password" -> updateUserPasswordSchema(v)
      [] OTHER -> TRUE

\* The schema of the API client, which the proxy route parses with again.
ClientAccepts(form, row, v) ==
    CASE form \in OrderCreating -> createOrderSchema(v)
      [] form = "edit order" -> updateOrderSchema(v)
      [] form = "cancel order" -> cancelOrderSchema(v)
      [] form = "refund order" -> refundOrderSchema(v)
      [] form \in LeadCreating \union {"edit lead"} -> createLeadSchema(v)
      [] form \in CostSheets \union CardForms -> ShipmentCostSchema(v)
      [] form = "additional cost" -> createShipmentAdditionalCostSchema(v)
      [] form \in ShipmentEditing -> ShipmentClientAccepts(row, v)
      [] form = "request replacement" -> createReplacementSchema(v)
      [] form \in ReplacementChanges -> updateReplacementSchema(v)
      [] form \in InvoiceEditing -> createInvoiceSchema(v)
      [] form = "create user" -> createUserSchema(v)
      [] form = "edit user" -> updateUserSchema(v)
      [] form = "password" -> updateUserPasswordPayloadSchema(v)
      [] form = "note" -> createNoteSchema(v)

\* What the proxy route sends on.
Payload(form, v) ==
    CASE form \in OrderCreating -> toBackendCreateOrderPayload(v)
      [] form = "edit order" -> toBackendUpdateOrderPayload(v)
      [] form = "create lead" -> toBackendCreateLeadPayload(v)
      [] form \in CostSheets \union CardForms -> toBackendShipmentCostPayload(v)
      [] form \in ShipmentEditing -> toUpdateShipmentStatusPayload(v)
      [] form \in InvoiceEditing -> toInvoicePayload(v)
      [] form = "note" -> toBackendCreateNotePayload(v)
      [] OTHER -> v

DtoAccepts(form, p) ==
    CASE form \in OrderCreating -> CreateOrderDto(p)
      [] form = "edit order" -> UpdateOrderDto(p)
      [] form = "cancel order" -> CancelOrderDto(p)
      [] form = "refund order" -> RefundOrderDto(p)
      [] form \in LeadCreating -> CreateLeadDto(p)
      [] form = "edit lead" -> UpdateLeadDto(p)
      [] form \in CostSheets \union CardForms -> CostDto(p)
      [] form = "additional cost" -> CreateAdditionalCostDto(p)
      [] form \in ShipmentEditing -> ShipmentDto(p)
      [] form = "request replacement" -> CreateReplacementDto(p)
      [] form \in ReplacementChanges -> UpdateReplacementDto(p)
      [] form \in InvoiceEditing -> CreateInvoiceDto(p)
      [] form = "create user" -> CreateUserDto(p)
      [] form = "edit user" -> UpdateUserDto(p)
      [] form = "password" -> UpdateUserPasswordDto(p)
      [] form = "note" -> CreateNoteDto(p)

ServiceAllows(form, role, row, p) ==
    CASE form \in OrderCreating -> mayCreate(p)
      [] form = "edit order" -> mayUpdate(role, row, p)
      [] form = "refund order" -> mayRefund(row, p)
      [] form \in LeadCreating \union {"edit lead"} -> LeadDateAllowed(p)
      [] form \in ShipmentEditing -> mayShip(row, p)
      [] form = "request replacement" -> mayRequest(p)
      [] form \in ReplacementChanges -> mayUpdateReplacement(row, p)
      [] form = "generate invoice" -> assertOrderCanGenerateInvoice(row)
      [] form = "edit invoice" -> ~row.signed
      [] form = "clone invoice" -> row.signed
      [] form = "edit user" -> mayUpdateUser(row, p)
      [] OTHER -> TRUE

Stored(form, row, p) ==
    CASE form \in OrderCreating -> createdOrder(p)
      [] form = "edit order" -> updatedOrder(row, p)
      [] form = "cancel order" -> cancelledOrder(row, p)
      [] form = "refund order" -> refundedOrder(row, p)
      [] form \in LeadCreating -> createdLead(p)
      [] form = "edit lead" -> updatedLead(row, p)
      [] form \in CostSheets \union CardForms -> storedCosts(row, p)
      [] form = "additional cost" -> withAdditionalCost(row, p)
      [] form \in ShipmentEditing -> shippedRow(row, p)
      [] form = "request replacement" -> requestedReplacement(p)
      [] form \in ReplacementChanges -> updatedReplacement(row, p)
      [] form = "generate invoice" -> createdInvoice(row, p)
      [] form = "edit invoice" -> updatedInvoice(row, p)
      [] form = "clone invoice" -> clonedInvoice(row, p)
      [] form = "create user" -> createdUser(p)
      [] form \in {"edit user", "password"} -> updatedUser(row, p)
      [] form = "note" -> storedNote(p)

\* Whether one who changes nothing else passes every layer, and what is sent.
Passes(form, role, row, v) ==
    LET sent == ValuesSent(form, role, row, v)
        p == Payload(form, sent)
    IN  /\ FormAccepts(form, row, v) /\ ClientAccepts(form, row, sent)
        /\ DtoAccepts(form, p) /\ ServiceAllows(form, role, row, p)

-----------------------------------------------------------------------------
(* Rows that the program stores, and new forms filled with what they need.  *)

FilledOrder ==
    Derived([advisorName |-> 5, orderDate |-> 0, customerName |-> 5, customerPhone |-> 10,
             vehicleMake |-> 120, vehicleModel |-> 120, vehicleYear |-> 4,
             vehicleVariant |-> 5, billingAddress |-> 9, billingPerson |-> 5,
             billingPhone |-> 10, milesOffered |-> 3, basePrice |-> 20250,
             paymentMethod |-> "CREDIT_CARD"] @@ defaultValues)

StoredOrders ==
    LET order(v) == createdOrder(toBackendCreateOrderPayload(SubmittedOrder(Derived(v))))
    IN  {order(FilledOrder),
         order([FilledOrder EXCEPT !.status = "PARTIALLY_PAID", !.partialPayment = 12340,
                                   !.vehicleVin = 17, !.customerEmail = 9])}

\* Orders that give an invoice; the notes of one are too long for it.
InvoicedOrders ==
    LET order(v) == createdOrder(toBackendCreateOrderPayload(SubmittedOrder(Derived(v))))
        short == [FilledOrder EXCEPT !.vehicleMake = 5, !.vehicleModel = 5]
        orders ==
          {order([short EXCEPT !.vehicleVin = 17, !.companyName = 5, !.shippingAddress = 9,
                               !.currency = "CAD"]),
           order([short EXCEPT !.vehicleNotes = 300, !.status = "DRAFT",
                               !.paymentMethod = ""]),
           order([short EXCEPT !.status = "PARTIALLY_PAID", !.partialPayment = 12340])}
    IN  {o \in orders : assertOrderCanGenerateInvoice(o)}

Rows(form) ==
    CASE form \in {"create order", "create lead", "request replacement", "create user",
                  "note"} -> {<<>>}
      [] form = "create shipment" -> {EmptyShipment}
      [] form = "edit shipment" -> StoredShipments
      [] form \in ReplacementChanges -> StoredReplacements
      [] form \in {"edit user", "password"} -> StoredAccounts
      [] form \in {"edit order", "cancel order", "refund order"} -> StoredOrders
      [] form \in {"edit lead", "convert lead"} -> StoredLeads
      [] form = "convert inquiry" -> Inquiries
      [] form = "generate invoice" -> InvoicedOrders
      [] form = "edit invoice" -> UNION {StoredInvoices(o) : o \in InvoicedOrders}
      [] form = "clone invoice" -> UNION {SignedInvoices(o) : o \in InvoicedOrders}
      [] form = "create cost" -> {[grossProfit |-> SaleAmount] @@ NoCosts}
      [] OTHER -> StoredCosts

\* The filled form, as far as the form that opens leaves fields empty.
Filled(form, row, v) ==
    LET full == CASE form \in OrderCreating -> FilledOrder
                  [] form \in LeadCreating -> FilledLead
                  [] form = "create cost" -> FilledCosts
                  [] form = "additional cost" -> [amount |-> 20000, reason |-> 5]
                  [] form = "request replacement" -> FilledReplacement
                  [] form = "create user" -> [name |-> 5, email |-> 9, role |-> "SALES",
                                              password |-> 8]
                  [] form = "password" -> [password |-> 9, confirmPassword |-> 9]
                  [] OTHER -> v
        left == {f \in DOMAIN v : IF f \in ChoiceFields THEN v[f] = "" ELSE v[f] = Blank}
    IN  IF form \in ShipmentEditing THEN FilledShipment(row)
        ELSE IF form = "refund order"
        THEN [refundType |-> "PARTIAL", refundAmount |-> 12340, refundDeductionReason |-> 5]
        ELSE After(form, "all", [f \in DOMAIN v |-> IF f \in left THEN full[f] ELSE v[f]])

-----------------------------------------------------------------------------
FormInit ==
    \E form \in Forms : \E role \in Roles(form), row \in Rows(form) :
       Mount("form",
             [form |-> form, role |-> role, v |-> InitialValues(form, row),
              typed |-> {}, open |-> TRUE, error |-> FALSE, busy |-> {}],
             [row |-> row])

\* A new form is filled with what it needs.
FillForm ==
    /\ At("form") /\ page.typed = {} /\ page.busy = {}
    /\ LET v == Filled(page.form, server.row, page.v)
       IN  v # page.v /\ Become([page EXCEPT !.v = v, !.typed = {"all"}, !.error = FALSE])

\* A field is typed: one, or two that a rule relates.
TypeField ==
    /\ At("form") /\ page.open /\ page.busy = {} /\ CanCall(1)
    /\ LET inputs == Inputs(page.form, page.role, server.row, page.v)
           typed  == page.typed \ {"all"}
       IN  \E f \in DOMAIN inputs \ typed :
             /\ typed # {} => Cardinality(typed) = 1 /\ typed \union {f} \subseteq Coupled
             /\ \E x \in inputs[f] :
                  Become([page EXCEPT !.v = After(page.form, f, [@ EXCEPT ![f] = x]),
                            !.typed = @ \union {f}, !.error = FALSE])

SaveForm ==
    /\ At("form") /\ page.open /\ page.busy = {}
    /\ LET v == ValuesSent(page.form, page.role, server.row, page.v)
       IN  IF /\ FormAccepts(page.form, server.row, page.v)
              /\ ClientAccepts(page.form, server.row, v)
           THEN Ask([page EXCEPT !.busy = {"saving"}, !.error = FALSE],
                    <<Call("save", v, page.v)>>)
           ELSE ~page.error /\ Become([page EXCEPT !.error = TRUE])

FormServe(i) ==
    /\ At("form") /\ Asked(i, "save")
    /\ LET p == Payload(page.form, calls[i].arg)
       IN  IF /\ ClientAccepts(page.form, server.row, calls[i].arg)
              /\ DtoAccepts(page.form, p) /\ ServiceAllows(page.form, page.role, server.row, p)
           THEN Perform(i, [server EXCEPT !.row = Stored(page.form, @, p)], TRUE, <<>>)
           ELSE Refuse(i)

\* A saved form is closed, a refused one keeps what was typed.
FormSaved(i) ==
    /\ At("form") /\ calls[i].op = "save" /\ calls[i].state # "sent"
    /\ Continue(i, [page EXCEPT !.busy = {}, !.error = calls[i].state = "failed",
                                !.open = calls[i].state = "failed"], <<>>)

FormStep == FillForm \/ TypeField \/ SaveForm

FormReturn(i) == FormSaved(i)

-----------------------------------------------------------------------------
(* Properties.                                                              *)

\* What only the service knows: that nothing changed, the payment method of
\* an order that is past payment, which only admins may leave there, what was
\* paid; and what a page forgot: an address of more than 160 characters, a
\* reason that is emptied on the page of a replacement, and a fraction of a
\* cent in a purchase amount whose input is hidden by another status.
KnownRefusal(form, role, row, v) ==
    LET p == Payload(form, v)
    IN  \/ /\ form = "edit order"
           /\ LET next == p @@ row
              IN  \/ updatedOrder(row, p) = row /\ "note" \notin DOMAIN p
                  \/ role # "ADMIN" /\ NeedsMethod(next.status) # (next.paymentMethod # "")
        \/ form = "refund order" /\ v.refundAmount > OriginalPaidAmount(row)
        \/ form = "edit shipment" /\ shippedRow(row, p) = row
        \/ /\ form \in ShipmentEditing /\ v.status \notin {"PURCHASE", "SHIPPED"}
           /\ v.purchaseAmount # Blank /\ v.purchaseAmount \notin TwoDecimals
        \/ form \in ReplacementChanges /\ (buildUpdateSummary(row, p) = {}
                                             \/ p.customerReason = Blank)
        \/ form \in InvoiceEditing /\ v.quantity > 9999
        \/ form = "edit user" /\ v.email > 160

\* What the form lets pass no later layer refuses, but for rules that need
\* the stored row.
LayersAgree ==
    At("form") =>
        \A i \in DOMAIN calls : Failed(i, "save") =>
            lost > 0 \/ KnownRefusal(page.form, page.role, server.row, calls[i].arg)

\* The form in which a stored row is edited.
Editor(form) ==
    CASE form \in OrderCreating -> "edit order"
      [] form \in LeadCreating -> "edit lead"
      [] form = "create cost" -> "edit cost"
      [] form = "create shipment" -> "edit shipment"
      [] form = "request replacement" -> "edit replacement"
      [] form \in InvoiceEditing -> "edit invoice"
      [] form = "create user" -> "edit user"
      [] OTHER -> form

\* The form that shows a row that was saved; the form of a shipment stays
\* open and is reset.
ShownAgain(form, row) ==
    IF form \in ShipmentEditing THEN buildShipmentFormValues(row)
    ELSE IF form = "note" THEN row ELSE InitialValues(Editor(form), row)

\* The form after what changes nothing but the note, or what stands for one.
NoteAdded(form, row) ==
    LET shown == ShownAgain(form, row)
    IN  [f \in DOMAIN shown |->
            IF f \in {"note", "notes"} THEN 1
            ELSE IF f = "yardUpdate" THEN (IF shown[f] = 1 THEN 2 ELSE 1)
            ELSE IF f = "estimatedShippingAmount" /\ form \in ShipmentEditing
                    /\ ~HasActual(row, "shippingAmount") THEN 1000
            ELSE shown[f]]

\* A row that a form stored can be edited: its editor, opened again and
\* given nothing but the note it may ask for, passes every layer, unless its
\* additional costs, each of whole cents, have a sum that is not taken for
\* one.  An account can sign in.
StoredFitsForm ==
    At("form") =>
        \A i \in DOMAIN calls : Succeeded(i, "save") =>
            CASE page.form \in {"cancel order", "refund order", "note"} -> TRUE
              [] page.form = "additional cost" ->
                   server.row.additionalAmount \in WholeCents =>
                       Passes("base costs", "ADMIN", server.row,
                              NoteAdded("base costs", server.row))
              [] page.form \in {"create user", "edit user", "password"} -> CanSignIn(server.row)
              [] OTHER -> Passes(Editor(page.form), "ADMIN", server.row,
                                 NoteAdded(page.form, server.row))

\* What of a saved form is shown again: an emptied field keeps what is
\* stored, but on a replacement.
Kept(form, v) ==
    IF form \in ReplacementChanges THEN DOMAIN v
    ELSE IF form \in InvoiceEditing
    THEN DOMAIN v \ {f \in InvoiceAmounts \union {"warrantyPartsOnly", "cancellationPolicy"} :
                        v[f] = Blank}
    ELSE Given(v) \ {"note", "notes", "amount", "reason", "password", "confirmPassword"}

\* A form opened after it was saved shows what was typed.
SavedFormIsShownAgain ==
    At("form") =>
        \A i \in DOMAIN calls : Succeeded(i, "save") =>
            LET shown == calls[i].kept
                again == ShownAgain(page.form, server.row)
            IN  \A f \in Kept(page.form, shown) \cap DOMAIN again :
                    \/ again[f] = shown[f]
                    \/ f = "partialPayment" /\ shown.status # "PARTIALLY_PAID"
                    \/ f \in {"refundAmount", "refundDeductionReason"}
                         /\ shown.refundType = "FULL"
                    \/ page.form \in ShipmentEditing /\ shown[f] = 0

\* The profit shown below the cost form while it is typed is the profit the
\* backend stores, and the preview beside the form of an invoice is the
\* document of the stored one, on the pages and in the mail.
PreviewIsStored ==
    At("form") =>
        \A i \in DOMAIN calls : Succeeded(i, "save") =>
            /\ page.form \in CostSheets =>
                  server.row.grossProfit = liveGrossProfit(calls[i].kept)
            /\ page.form \in InvoiceEditing =>
                  LET document == InvoiceDocument(server.row)
                  IN  /\ InvoiceDocument(draftToInvoicePreview(calls[i].kept)) = document
                      /\ buildSignedInvoicePdf(server.row) = document

\* A form has just stored an order.
OrderStored ==
    /\ At("form") /\ "refundDeductionAmount" \in DOMAIN server.row
    /\ \E i \in DOMAIN calls : Succeeded(i, "save")

SalePrice == Money(server.row.total)

\* The basis of the profit, up to half a cent.
NearSaleBasis(basis) ==
    Distance(getOrderFinancialSummary(server.row).basis, basis) <= 25

PagesAgree ==
    \A shipments \in ShipmentSamples, sheets \in SheetSamples :
        ReportsAgreeOn(server.row, shipments, sheets)

\* The pages of details and the export show each field of an order below its
\* own name, and every text and amount typed into a saved form of one.
DetailsShowWhatIsStored ==
    OrderStored =>
        /\ \A shipments \in ShipmentSamples, sheets \in SheetSamples :
              ShowsItsFields(server.row, shipments, sheets)
        /\ \A i \in DOMAIN calls :
              (Succeeded(i, "save") /\ page.form \in OrderCreating \union {"edit order"}) =>
                TypedIsShown(server.row, calls[i].kept)
=============================================================================
