----------------------------- MODULE InvoiceForms -----------------------------
(***************************************************************************)
(* The form of an invoice, opened to generate one from its order, to edit  *)
(* one that is not signed and to clone one that is, and the documents that *)
(* show an invoice: the preview, the page and the PDF that is mailed.      *)
(***************************************************************************)
EXTENDS Forms

InvoiceAmounts == {"saleAmount", "shippingCost", "salesTaxes", "coreCharge"}

\* The lengths of DEFAULT_WARRANTY_PARTS_ONLY and DEFAULT_CANCELLATION_POLICY.
DefaultWarranty == 556
DefaultCancellation == 263

NoSignature == [customerSignature |-> Blank, customerSignatureImage |-> Blank,
                signatureDate |-> Blank]

-----------------------------------------------------------------------------
(* The draft.                                                               *)

Joined(texts, gap) ==
    LET given == {i \in DOMAIN texts : texts[i] # Blank}
    IN  IF given = {} THEN Blank
        ELSE MapThenSumSet(LAMBDA i : texts[i], given) + gap * (Cardinality(given) - 1)

buildInvoiceItemTitle(order) ==
    LET parts == Joined(<<order.vehicleYear, order.vehicleMake, order.vehicleModel,
                          order.vehicleVariant>>, 1)
    IN  IF parts = Blank THEN order.partDescription ELSE parts

\* The title and the notes a line each, and after an empty line the VIN.
buildInvoiceItemDescription(order) ==
    Joined(<<Joined(<<buildInvoiceItemTitle(order), order.vehicleNotes>>, 1),
             IF order.vehicleVin = Blank THEN Blank ELSE 5 + order.vehicleVin>>, 2)

FirstGiven(a, b, c) == IF a # Blank THEN a ELSE IF b # Blank THEN b ELSE c

\* getDefaults, "LTL" and "9-14 Business Days" among them.
getDefaults(order) ==
    NoSignature @@
    [invoiceNumber |-> 10, invoiceDate |-> 0, salesAssistant |-> order.advisorName,
     customerName |-> order.customerName,
     contactNumber |-> FirstGiven(order.billingPhone, order.shippingPhone,
                                  order.customerPhone),
     billingAddress |-> order.billingAddress,
     shippingAddress |-> Joined(<<order.companyName, order.shippingAddress>>, 1),
     shippingVendor |-> 3, deliveryTimeline |-> 18,
     itemDescription |-> buildInvoiceItemDescription(order),
     warrantyPartsOnly |-> DefaultWarranty, cancellationPolicy |-> DefaultCancellation,
     quantity |-> order.quantity, saleAmount |-> order.total, currency |-> order.currency,
     paymentStatus |-> Blank, paymentDate |-> Blank, paymentSource |-> Blank,
     shippingCost |-> 0, salesTaxes |-> 0, coreCharge |-> 0]

defaultsToDraft(defaults) ==
    [defaults EXCEPT !.contactNumber = IF @ = Blank THEN Blank ELSE formatUsPhoneNumber(@),
                     !.warrantyPartsOnly = IF @ = Blank THEN DefaultWarranty ELSE @,
                     !.cancellationPolicy = IF @ = Blank THEN DefaultCancellation ELSE @]

invoiceToDraft(invoice) ==
    [f \in DOMAIN invoice \ {"totalAmount", "signed", "vehiclePartDescription"} |->
        CASE f = "warrantyPartsOnly" /\ invoice[f] = Blank -> DefaultWarranty
          [] f = "cancellationPolicy" /\ invoice[f] = Blank -> DefaultCancellation
          [] OTHER -> invoice[f]]

invoiceToCloneDraft(invoice) == NoSignature @@ invoiceToDraft(invoice)

\* What the sections of the form let a user type.
InformationInputs ==
    [invoiceNumber |-> Texts(50), invoiceDate |-> Dates, salesAssistant |-> Texts(120)]
InvoiceCustomerInputs ==
    [customerName |-> Texts(160), contactNumber |-> Phones, billingAddress |-> Texts(1000)]
ShippingInputs ==
    [shippingAddress |-> Texts(1000), shippingVendor |-> Texts(80),
     deliveryTimeline |-> Texts(120)]
ProductInputs ==
    [itemDescription |-> Texts(255), quantity |-> {Blank, 0, 1, 9999, 10000},
     saleAmount |-> Amounts]
TermsInputs == [warrantyPartsOnly |-> Texts(3000), cancellationPolicy |-> Texts(3000)]
PaymentInputs ==
    [paymentStatus |-> Texts(80), paymentDate |-> Dates, paymentSource |-> Texts(160)]
ChargeInputs == [f \in InvoiceAmounts \ {"saleAmount"} |-> Amounts]

InvoiceInputs ==
    InformationInputs @@ InvoiceCustomerInputs @@ ShippingInputs @@ ProductInputs
        @@ TermsInputs @@ PaymentInputs @@ ChargeInputs

\* What the inputs themselves refuse: their min, max and step.
InvoiceFormAccepts(draft) ==
    /\ draft.invoiceDate \in OrBlank(PastOrToday)
    /\ draft.quantity \in OrBlank(Nat \ {0})
    /\ \A f \in InvoiceAmounts : draft[f] \in OrBlank(TwoDecimals)

\* An amount that is no number is sent as 0.
toAmount(m) == IF m = Blank THEN 0 ELSE m

draftToPayload(draft) ==
    [f \in (DOMAIN draft \ {"currency", "customerSignatureImage"})
              \union {"vehiclePartDescription"} |->
        CASE f = "vehiclePartDescription" -> Blank
          [] f = "quantity" \/ f \in InvoiceAmounts -> toAmount(draft[f])
          [] OTHER -> draft[f]]

calculateInvoiceTotal(draft) ==
    toAmount(draft.saleAmount) + toAmount(draft.shippingCost)
        + toAmount(draft.salesTaxes) + toAmount(draft.coreCharge)

draftToInvoicePreview(draft) ==
    [draftToPayload(draft) EXCEPT
        !.warrantyPartsOnly = IF @ = Blank THEN DefaultWarranty ELSE @,
        !.cancellationPolicy = IF @ = Blank THEN DefaultCancellation ELSE @]
    @@ [customerSignatureImage |-> draft.customerSignatureImage,
        totalAmount |-> calculateInvoiceTotal(draft), currency |-> draft.currency]

-----------------------------------------------------------------------------
(* The layers below the form.                                               *)

createInvoiceSchema(v) ==
    Fits([invoiceNumber |-> Required(50), invoiceDate |-> PastOrToday,
      salesAssistant |-> Optional(120), customerName |-> Required(160),
      contactNumber |-> OrBlank(Phone), billingAddress |-> Optional(1000),
      shippingAddress |-> Optional(1000), shippingVendor |-> Required(80),
      deliveryTimeline |-> Required(120), itemDescription |-> Required(255),
      vehiclePartDescription |-> Optional(255), warrantyPartsOnly |-> Optional(3000),
      cancellationPolicy |-> Optional(3000), quantity |-> Nat \ {0},
      saleAmount |-> WholeCents, paymentStatus |-> Optional(80),
      paymentDate |-> OrBlank(Int), paymentSource |-> Optional(160),
      shippingCost |-> WholeCents, salesTaxes |-> WholeCents, coreCharge |-> WholeCents,
      customerSignature |-> Optional(160), signatureDate |-> OrBlank(Int)], v)

\* An empty optional text is undefined once parsed.
toInvoicePayload(v) == Only(v, Given(v))

CreateInvoiceDto(p) ==
    Fits([invoiceNumber |-> 0 .. 50, invoiceDate |-> Int,
      salesAssistant |-> 0 .. 120, customerName |-> 0 .. 160, contactNumber |-> Phone,
      billingAddress |-> 0 .. 1000, shippingAddress |-> 0 .. 1000, shippingVendor |-> 0 .. 80,
      deliveryTimeline |-> 0 .. 120, itemDescription |-> 0 .. 255,
      vehiclePartDescription |-> 0 .. 255, warrantyPartsOnly |-> 0 .. 3000,
      cancellationPolicy |-> 0 .. 3000, quantity |-> 1 .. 9999,
      saleAmount |-> TwoDecimals, paymentStatus |-> 0 .. 80, paymentDate |-> Int,
      paymentSource |-> 0 .. 160, shippingCost |-> TwoDecimals, salesTaxes |-> TwoDecimals,
      coreCharge |-> TwoDecimals, customerSignature |-> 0 .. 160, signatureDate |-> Int], p)

assertOrderCanGenerateInvoice(order) == order.status # "PARTIALLY_PAID"

calculateTotalAmount(p) == p.saleAmount + p.shippingCost + p.salesTaxes + p.coreCharge

OptionalText(p, f) == IF f \in DOMAIN p THEN p[f] ELSE Blank

Terms(p, f, default) == IF OptionalText(p, f) = Blank THEN default ELSE p[f]

\* What create, update and cloneSignedInvoice write alike.
invoiceData(p) ==
    [f \in {"invoiceNumber", "invoiceDate", "salesAssistant", "customerName",
            "contactNumber", "billingAddress", "shippingAddress", "shippingVendor",
            "deliveryTimeline", "itemDescription", "vehiclePartDescription", "quantity",
            "paymentStatus", "paymentDate", "paymentSource"} \union InvoiceAmounts |->
        OptionalText(p, f)]
    @@ [warrantyPartsOnly |-> Terms(p, "warrantyPartsOnly", DefaultWarranty),
        cancellationPolicy |-> Terms(p, "cancellationPolicy", DefaultCancellation),
        totalAmount |-> calculateTotalAmount(p)]

createdInvoice(order, p) ==
    invoiceData(p) @@ [currency |-> order.currency, signed |-> FALSE,
                       customerSignature |-> OptionalText(p, "customerSignature"),
                       customerSignatureImage |-> Blank,
                       signatureDate |-> OptionalText(p, "signatureDate")]

\* Mutant: the total of an edited invoice stays the one it had.
updatedInvoiceTotalKept(row, p) == [invoiceData(p) EXCEPT !.totalAmount = row.totalAmount] @@ row

\* A name and a date of signature are kept: only signing writes them.
updatedInvoice(row, p) == invoiceData(p) @@ row

clonedInvoice(row, p) == invoiceData(p) @@ NoSignature @@ [row EXCEPT !.signed = FALSE]

-----------------------------------------------------------------------------
(* The documents: what is read under each of their headings.                *)

InvoiceMoney(invoice, f) == <<invoice[f], invoice.currency>>
Lines(text, default) == IF text = Blank THEN default ELSE text
InvoiceSignature(invoice) ==
    <<IF invoice.customerSignatureImage # Blank THEN invoice.customerSignatureImage
      ELSE invoice.customerSignature, invoice.signatureDate>>

InvoiceTemplateHeader(invoice) == Only(invoice, {"invoiceNumber", "invoiceDate", "salesAssistant"})

WarrantyTerms(invoice) ==
    [warranty |-> Lines(invoice.warrantyPartsOnly, DefaultWarranty),
     cancellation |-> Lines(invoice.cancellationPolicy, DefaultCancellation)]

PurchasePage(invoice) ==
    Only(invoice, {"shippingAddress", "shippingVendor", "customerName", "billingAddress",
                   "contactNumber", "deliveryTimeline", "itemDescription", "quantity",
                   "paymentStatus", "paymentDate", "paymentSource"})
    @@ [f \in InvoiceAmounts \union {"totalAmount"} |-> InvoiceMoney(invoice, f)]

InvoiceDocument(invoice) ==
    [header |-> InvoiceTemplateHeader(invoice), purchase |-> PurchasePage(invoice),
     terms |-> WarrantyTerms(invoice), signature |-> InvoiceSignature(invoice)]

\* The PDF of the backend, which also prints the description of the vehicle,
\* a text that no form sends.
startInvoicePage(invoice) == Only(invoice, {"invoiceNumber", "invoiceDate", "salesAssistant"})

drawAddresses(invoice) ==
    Only(invoice, {"shippingAddress", "shippingVendor", "customerName", "billingAddress",
                   "contactNumber", "deliveryTimeline"})

drawItems(invoice) ==
    Only(invoice, {"itemDescription", "quantity"}
                    \union {f \in {"vehiclePartDescription"} : invoice[f] # Blank})
    @@ [saleAmount |-> InvoiceMoney(invoice, "saleAmount")]

drawPayment(invoice) ==
    Only(invoice, {"paymentStatus", "paymentDate", "paymentSource"})
    @@ [f \in {"shippingCost", "salesTaxes", "coreCharge", "totalAmount"} |->
            InvoiceMoney(invoice, f)]

drawWarrantyPage(invoice) ==
    [warranty |-> Lines(invoice.warrantyPartsOnly, DefaultWarranty),
     cancellation |-> Lines(invoice.cancellationPolicy, DefaultCancellation)]

drawSignature(invoice) ==
    <<IF invoice.customerSignatureImage # Blank THEN invoice.customerSignatureImage
      ELSE invoice.customerSignature, invoice.signatureDate>>

buildSignedInvoicePdf(invoice) ==
    [header |-> startInvoicePage(invoice),
     purchase |-> drawAddresses(invoice) @@ drawItems(invoice) @@ drawPayment(invoice),
     terms |-> drawWarrantyPage(invoice), signature |-> drawSignature(invoice)]

-----------------------------------------------------------------------------
(* Invoices that the program stores.                                        *)

StoredInvoices(order) ==
    LET stored(draft) == createdInvoice(order, toInvoicePayload(draftToPayload(draft)))
        draft == defaultsToDraft(getDefaults(order))
    IN  {stored(draft),
         stored([draft EXCEPT !.paymentStatus = 80, !.paymentDate = 1, !.shippingCost = 12340])}

SignedInvoices(order) ==
    {[i EXCEPT !.signed = TRUE, !.customerSignature = 5, !.customerSignatureImage = 20,
               !.signatureDate = 0] : i \in StoredInvoices(order)}
=============================================================================
