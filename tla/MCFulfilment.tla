----------------------------- MODULE MCFulfilment -----------------------------
(* Instances of Fulfilment for TLC. *)
EXTENDS Fulfilment, TLC

\* Requests are interchangeable.
Symmetry == Permutations(Requests)

Of(fields, value) == [f \in fields |-> value]

Edit(role, columns, intake, note) ==
    [role |-> role, columns |-> columns, intake |-> intake, note |-> note]

MCEditInputs ==
    {Edit("ADMIN", Of({"totalSaleAmount"}, 50), Of({}, 0), FALSE),
     Edit("ADMIN", Of({"status"}, "CONFIRMED"), Of({}, 0), TRUE),
     Edit("SHIPPING", Of({}, 0), Of({"partialPayment"}, 30), FALSE),
     Edit("SALES", Of({}, 0), Of({"vehicleVin"}, 1), FALSE),
     Edit("SALES", Of({}, 0), Of({"vehicleVin"}, 2), FALSE)}

MCCostInputs ==
    {Of({}, 0), Of({"purchaseAmount"}, 0), Of({"estimatedPurchaseAmount"}, 20),
     Of({"additionalAmount"}, 4),
     [f \in {"purchaseAmount", "shippingAmount"} |->
        IF f = "purchaseAmount" THEN 10 ELSE 5],
     [f \in {"additionalAmount", "notes"} |->
        IF f = "notes" THEN TRUE ELSE 3]}

\* With a carrier or a PRO number, either no costs or both amounts.
MCStatusInputs ==
    {in \in [status : ShipmentStatus, carrierName : BOOLEAN, proNumber : BOOLEAN,
             costs : MCCostInputs] :
        /\ in.status = "SHIPPED" => in.carrierName
        /\ in.carrierName \/ in.proNumber =>
              DOMAIN in.costs \in {{}, {"purchaseAmount", "shippingAmount"}}}

EmptyIntake ==
    [vehicleVin |-> 0, partialPayment |-> 0, cancelledAt |-> FALSE,
     refundType |-> "NONE", refundDeductionAmount |-> NoAmount]

Sold(method) ==
    [status |-> "CONFIRMED", paymentMethod |-> method, totalSaleAmount |-> 100,
     intake |-> EmptyIntake]

Refunded ==
    [Sold("WIRE_TRANSFER") EXCEPT
        !.status = "REFUNDED",
        !.intake = [EmptyIntake EXCEPT !.refundType = "PARTIAL",
                                       !.refundDeductionAmount = 60]]

Row(status, carrier, date) ==
    [status |-> status, carrierName |-> carrier, proNumber |-> FALSE,
     shippedAt |-> date, deliveredAt |-> Nobody, born |-> "PENDING"]

\* cost: the sheets of the first shipment, at most one.
Start(o, rows, cost, amounts) ==
    [order |-> o, shipments |-> rows,
     sheets |-> [s \in {t \in {1} : cost # {}} |-> CHOOSE sheet \in cost : TRUE],
     extras |-> [s \in ShipmentIds |-> IF s = 1 THEN amounts ELSE <<>>]]

Sheet1 ==
    [NoSheet EXCEPT !.estimatedPurchaseAmount = 20, !.shippingAmount = 5,
                    !.hasActual = {"shippingAmount"}, !.additionalAmount = 3,
                    !.grossProfit = 70]

MCInitialOrders ==
    {Start(Sold("CREDIT_CARD"), <<>>, {}, <<>>),
     Start(Sold("CREDIT_CARD"), <<Row("PENDING", FALSE, Nobody)>>, {}, <<>>),
     Start(Refunded, <<Row("PURCHASE", FALSE, Nobody)>>, {Sheet1}, <<3>>)}

MCInitialReplacements ==
    {NoReplacement, [status |-> "IN_TRANSIT", proNumber |-> TRUE, carrierName |-> TRUE]}
=============================================================================
