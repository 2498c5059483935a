----------------------------- MODULE ShipmentCosts -----------------------------
(***************************************************************************)
(* The cost sheet of a shipment and its two writers.  CostsService reads   *)
(* the amounts, computes the gross profit of what it read and writes the   *)
(* given amounts with that profit; a change of the additional costs stores *)
(* their row first and then recalculates their total.  ShipmentsService    *)
(* (module Shipments) upserts every amount at once.  The two compute the   *)
(* profit from different bases: only the upsert takes off the fee.         *)
(***************************************************************************)
EXTENDS FulfilmentRows, Folds

CONSTANTS
    CostInputs,    \* amounts that may be given together
    ExtraAmounts   \* amounts of additional costs

CostAmounts == {"purchaseAmount", "shippingAmount", "estimatedPurchaseAmount",
                "estimatedShippingAmount", "additionalAmount"}

\* A body names some of the amounts and the notes; no amount is negative.
IsCostInput(in) ==
    /\ DOMAIN in \subseteq CostAmounts \union {"notes"}
    /\ \A f \in DOMAIN in \intersect CostAmounts : in[f] \in Nat
    /\ "notes" \in DOMAIN in => in.notes \in BOOLEAN

ASSUME CostInputsAssumption ==
    /\ \A in \in CostInputs : IsCostInput(in)
    /\ ExtraAmounts \subseteq Nat

Effective(sheet) ==
    (IF "purchaseAmount" \in sheet.hasActual
     THEN sheet.purchaseAmount ELSE sheet.estimatedPurchaseAmount)
    + (IF "shippingAmount" \in sheet.hasActual
       THEN sheet.shippingAmount ELSE sheet.estimatedShippingAmount)
    + sheet.additionalAmount

\* What a sheet becomes when the amounts of in are given.
resolveCostAmounts(in, sheet) ==
    [Merge(sheet, in) EXCEPT
        !.hasActual = @ \union (DOMAIN in \intersect {"purchaseAmount", "shippingAmount"})]

\* The sale amount, less the fee of a card or invoice payment.
resolveGpSaleBasis ==
    IF order.paymentMethod = "CREDIT_CARD"
    THEN order.totalSaleAmount - (order.totalSaleAmount * 2) \div 100
    ELSE order.totalSaleAmount

HasSheet(s) == s \in DOMAIN sheets

SheetOf(s) == IF HasSheet(s) THEN sheets[s] ELSE NoSheet

\* The row of s is stored, whether it is new or not.
StoreSheet(s, sheet) ==
    sheets' = [t \in DOMAIN sheets \union {s} |-> IF t = s THEN sheet ELSE sheets[t]]

SumOf(amounts) == MapThenFoldSet(LAMBDA x, y : x + y, 0, LAMBDA i : amounts[i],
                                 LAMBDA S : CHOOSE i \in S : TRUE, DOMAIN amounts)

-----------------------------------------------------------------------------
(* CostsService.create; in names the shipment, basis the order's amount.    *)

BeginCreateCost(r) ==
    /\ req[r].step = "idle"
    /\ \E s \in DOMAIN shipments, in \in CostInputs :
          Arrive(r, Slot("create cost", "exists", [id |-> s, costs |-> in],
                         [basis |-> order.totalSaleAmount]))
    /\ UNCHANGED <<order, shipments, sheets, extras, replacement, recorded, faults>>

ensureShipmentCostDoesNotExist(r) ==
    /\ At(r, "create cost", "exists")
    /\ Goto(r, IF HasSheet(req[r].in.id) THEN "rejected" ELSE "insert")
    /\ UNCHANGED <<order, shipments, sheets, extras, replacement, recorded, faults>>

\* shipmentId is unique: a row stored meanwhile is an error.
InsertCost(r) ==
    /\ At(r, "create cost", "insert")
    /\ LET s == req[r].in.id
           sheet == resolveCostAmounts(req[r].in.costs, NoSheet)
       IN  IF HasSheet(s)
           THEN /\ Goto(r, "rejected")
                /\ UNCHANGED sheets
           ELSE /\ StoreSheet(s, [sheet EXCEPT !.grossProfit =
                                      req[r].seen.basis - Effective(sheet)])
                /\ Goto(r, "history")
    /\ UNCHANGED <<order, shipments, extras, replacement, recorded, faults>>

-----------------------------------------------------------------------------
(* CostsService.updateByShipmentId *)

BeginUpdateCost(r) ==
    /\ req[r].step = "idle"
    /\ \E s \in DOMAIN shipments, in \in CostInputs :
          /\ DOMAIN in # {}
          /\ Arrive(r, Slot("update cost", "amounts", [id |-> s, costs |-> in],
                            [basis |-> order.totalSaleAmount]))
    /\ UNCHANGED <<order, shipments, sheets, extras, replacement, recorded, faults>>

ReadAmounts(r) ==
    /\ At(r, "update cost", "amounts")
    /\ LET s == req[r].in.id
       IN  IF HasSheet(s)
           THEN Read(r, "write", [basis |-> req[r].seen.basis, sheet |-> sheets[s]])
           ELSE Goto(r, "rejected")
    /\ UNCHANGED <<order, shipments, sheets, extras, replacement, recorded, faults>>

\* Mutant: the additional amount is left out of the comparison.
CostChangesPartial(in, sheet) ==
    \E f \in DOMAIN in \ {"notes", "additionalAmount"} : in[f] # sheet[f]

\* buildBaseCostChanges: compared with the amounts as read, estimates only
\* while there is no actual amount; notes are not compared.
CostChanges(in, sheet) ==
    \E f \in DOMAIN in \ {"notes"} :
        /\ in[f] # sheet[f]
        /\ f = "estimatedPurchaseAmount" => "purchaseAmount" \notin sheet.hasActual
        /\ f = "estimatedShippingAmount" => "shippingAmount" \notin sheet.hasActual

\* Mutant: the profit of the amounts as they were before the update.
UpdateCostStale(r) ==
    /\ At(r, "update cost", "write")
    /\ LET s == req[r].in.id
           in == req[r].in.costs
           seen == req[r].seen
       IN  /\ sheets' = [sheets EXCEPT ![s] =
                 [resolveCostAmounts(in, sheets[s]) EXCEPT
                    !.grossProfit = seen.basis - Effective(seen.sheet)]]
           /\ Goto(r, IF CostChanges(in, seen.sheet) THEN "history" ELSE "done")
    /\ UNCHANGED <<order, shipments, extras, replacement, recorded, faults>>

UpdateCost(r) ==
    /\ At(r, "update cost", "write")
    /\ LET s == req[r].in.id
           in == req[r].in.costs
           seen == req[r].seen
       IN  /\ sheets' = [sheets EXCEPT ![s] =
                 [resolveCostAmounts(in, sheets[s]) EXCEPT
                    !.grossProfit = seen.basis
                        - Effective(resolveCostAmounts(in, seen.sheet))]]
           /\ Goto(r, IF CostChanges(in, seen.sheet) THEN "history" ELSE "done")
    /\ UNCHANGED <<order, shipments, extras, replacement, recorded, faults>>

\* recordCostHistory, and the notification.
RecordCostHistory(r) ==
    /\ \E kind \in {"create cost", "update cost"} : At(r, kind, "history")
    /\ Record(r)
    /\ Goto(r, "done")
    /\ UNCHANGED <<order, shipments, sheets, extras, replacement, faults>>

-----------------------------------------------------------------------------
(* Additional costs: the row, its history entry, the recalculation.         *)

BeginCreateExtra(r) ==
    /\ req[r].step = "idle"
    /\ \E s \in DOMAIN shipments, amount \in ExtraAmounts :
          Arrive(r, Slot("add extra", "insert", [id |-> s, amount |-> amount], Nothing))
    /\ UNCHANGED <<order, shipments, sheets, extras, replacement, recorded, faults>>

InsertExtra(r) ==
    /\ At(r, "add extra", "insert")
    /\ LET s == req[r].in.id
       IN  /\ Len(extras[s]) < MaxExtras
           /\ extras' = [extras EXCEPT ![s] = Append(@, req[r].in.amount)]
    /\ Goto(r, "history")
    /\ UNCHANGED <<order, shipments, sheets, replacement, recorded, faults>>

\* findAdditionalCostById follows the read of the shipment.
BeginUpdateExtra(r) ==
    /\ req[r].step = "idle"
    /\ \E s \in DOMAIN shipments, amount \in ExtraAmounts : \E i \in DOMAIN extras[s] :
          Arrive(r, Slot("update extra", "write",
                         [id |-> s, extra |-> i, amount |-> amount],
                         [amount |-> extras[s][i]]))
    /\ UNCHANGED <<order, shipments, sheets, extras, replacement, recorded, faults>>

UpdateExtra(r) ==
    /\ At(r, "update extra", "write")
    /\ LET in == req[r].in
       IN  /\ extras' = [extras EXCEPT ![in.id][in.extra] = in.amount]
           /\ Goto(r, IF in.amount # req[r].seen.amount THEN "history" ELSE "order")
    /\ UNCHANGED <<order, shipments, sheets, replacement, recorded, faults>>

RecordExtraHistory(r) ==
    /\ \E kind \in {"add extra", "update extra"} : At(r, kind, "history")
    /\ recorded' = recorded \union {r}
    /\ Goto(r, "order")
    /\ UNCHANGED <<order, shipments, sheets, extras, replacement, faults>>

\* recalculateShipmentCostTotals reads the order, the sum of the rows and the
\* amounts of the sheet in turn; without a sheet it throws.
ReadForTotals(r) ==
    /\ req[r].kind \in {"add extra", "update extra"}
    /\ LET s == req[r].in.id
       IN  \/ /\ req[r].step = "order"
              /\ Read(r, "sum", [basis |-> order.totalSaleAmount])
           \/ /\ req[r].step = "sum"
              /\ Read(r, "read", [basis |-> req[r].seen.basis, sum |-> SumOf(extras[s])])
           \/ /\ req[r].step = "read"
              /\ IF HasSheet(s)
                 THEN Read(r, "total", [basis |-> req[r].seen.basis,
                                        sum |-> req[r].seen.sum, sheet |-> sheets[s]])
                 ELSE Goto(r, "rejected")
    /\ UNCHANGED <<order, shipments, sheets, extras, replacement, recorded, faults>>

WriteTotals(r) ==
    /\ req[r].kind \in {"add extra", "update extra"}
    /\ req[r].step = "total"
    /\ LET s == req[r].in.id
           seen == req[r].seen
           sheet == [seen.sheet EXCEPT !.additionalAmount = seen.sum]
       IN  sheets' = [sheets EXCEPT
                        ![s].additionalAmount = seen.sum,
                        ![s].grossProfit = seen.basis - Effective(sheet)]
    /\ Goto(r, "done")
    /\ UNCHANGED <<order, shipments, extras, replacement, recorded, faults>>

KeepCosts(r) ==
    \/ BeginCreateCost(r) \/ ensureShipmentCostDoesNotExist(r) \/ InsertCost(r)
    \/ BeginUpdateCost(r) \/ ReadAmounts(r) \/ UpdateCost(r)
    \/ RecordCostHistory(r)
    \/ BeginCreateExtra(r) \/ InsertExtra(r)
    \/ BeginUpdateExtra(r) \/ UpdateExtra(r)
    \/ RecordExtraHistory(r) \/ ReadForTotals(r) \/ WriteTotals(r)
=============================================================================
