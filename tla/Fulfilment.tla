------------------------------ MODULE Fulfilment ------------------------------
(***************************************************************************)
(* Everything that happens to one sold order: edits, cancellation and      *)
(* refund, its shipments, their costs, a replacement.  The requests share  *)
(* the rows and hold no locks between their awaits.  Some promises survive *)
(* any overlap; the others are stated for a request that met no other, so  *)
(* what is left over is exactly what overlapping requests may break.       *)
(***************************************************************************)
EXTENDS OrderEdits, Shipments, Replacements

CONSTANTS
    InitialOrders,    \* order, shipments, sheets and extras to begin with
    InitialReplacements

\* What a status requires of its shipment.  One that is created beyond
\* SHIPPED is not asked for a PRO number or dates.
MeetsRequirements(row) ==
    /\ row.status = "SHIPPED" => row.carrierName
    /\ row.status = "IN_TRANSIT" => row.proNumber \/ row.born = "IN_TRANSIT"
    /\ row.status \in {"SHIPPED", "IN_TRANSIT", "DELIVERED"} =>
          row.shippedAt # Nobody \/ row.born \in {"IN_TRANSIT", "DELIVERED"}
    /\ row.status = "DELIVERED" =>
          row.deliveredAt # Nobody \/ row.born = "DELIVERED"

\* The statuses whose shipments have a cost sheet.
IsBought(row) == row.status \in {"PURCHASE", "SHIPPED"}

RefundAgrees(intake) ==
    intake.refundType = "PARTIAL" <=> intake.refundDeductionAmount # NoAmount

\* What earlier requests left behind, none of them cut.
ASSUME InitialAssumption ==
    /\ InitialReplacements \subseteq Replacement
    /\ \A start \in InitialOrders :
          /\ start.order \in Order /\ RefundAgrees(start.order.intake)
          /\ start.shipments \in Seq(Shipment)
          /\ Len(start.shipments) <= MaxShipments
          /\ DOMAIN start.sheets \subseteq DOMAIN start.shipments
          /\ \A s \in DOMAIN start.sheets : start.sheets[s] \in Sheet
          /\ start.extras \in [ShipmentIds -> Seq(Nat)]
          /\ \A s \in DOMAIN start.shipments :
                /\ MeetsRequirements(start.shipments[s])
                /\ IsBought(start.shipments[s]) => s \in DOMAIN start.sheets

TypeOK ==
    /\ order \in Order
    /\ shipments \in Seq(Shipment)
    /\ Len(shipments) <= MaxShipments
    /\ DOMAIN sheets \subseteq ShipmentIds
    /\ \A s \in DOMAIN sheets : sheets[s] \in Sheet
    /\ extras \in [ShipmentIds -> Seq(Nat)]
    /\ replacement \in Replacement
    /\ \A r \in Requests : req[r].kind \in Kind /\ req[r].step \in Step
    /\ recorded \subseteq Requests
    /\ faults \in 0 .. MaxFaults

Init ==
    /\ \E start \in InitialOrders :
          /\ order = start.order
          /\ shipments = start.shipments
          /\ sheets = start.sheets
          /\ extras = start.extras
    /\ replacement \in InitialReplacements
    /\ req = [r \in Requests |-> Slot("none", "idle", Nothing, Nothing)]
    /\ recorded = {}
    /\ faults = 0

Next ==
    \E r \in Requests :
        EditOrder(r) \/ MoveShipment(r) \/ KeepCosts(r) \/ KeepReplacement(r)
            \/ Fail(r)

Spec == Init /\ [][Next]_vars

-----------------------------------------------------------------------------
(* Properties *)

\* Whatever overlaps or fails, a shipment carries what its status requires,
\* although every check was made on a row read before: what a check saw is
\* never taken away again.
RequirementsMet == \A s \in DOMAIN shipments : MeetsRequirements(shipments[s])

\* A bought part has a cost sheet, or the request that brings it is still to
\* store it or was cut before it did: the status is written first.
BoughtPartHasSheet ==
    \A s \in DOMAIN shipments :
        IsBought(shipments[s]) =>
            \/ HasSheet(s)
            \/ \E r \in Requests :
                  /\ req[r].kind \in {"create shipment", "shipment status"}
                  /\ req[r].step \in {"cost", "cut"}
                  /\ req[r].seen.id = s

\* A retained amount belongs to a partial refund and to nothing else, however
\* refunds, cancellations and edits merge into the one JSON column.
RefundDetailsAgree == RefundAgrees(order.intake)

-----------------------------------------------------------------------------
(* What a request that met no other leaves behind *)

\* A step of r, after its arrival, that while no other request ran.
Lone(r) == ~Ended(r) /\ req'[r].step # req[r].step /\ req'[r].alone

\* The sheet of s is stored or changed.
Stored(s) == s \in DOMAIN sheets' /\ (HasSheet(s) => sheets'[s] # sheets[s])

Balanced(s) ==
    sheets'[s].grossProfit + Effective(sheets'[s])
        \in {order.totalSaleAmount, resolveGpSaleBasis}

\* Whatever the sheet was before, once a lone request has stored costs the
\* gross profit is the sale less the effective costs, and an additional cost
\* is in the total.
Balances ==
    \A r \in Requests, s \in ShipmentIds :
        Lone(r) /\ Stored(s) =>
            /\ Balanced(s)
            /\ req[r].kind \in {"add extra", "update extra"} =>
                  sheets'[s].additionalAmount = SumOf(extras[s])

LoneRequestBalances == [][Balances]_vars

Given(r) == DOMAIN req[r].in.costs

\* A lone request changes the fields it gives and what is computed from
\* them: an edit of the order leaves the other fields of the JSON column, a
\* change of status the costs it does not name and a date that is set.
TouchesOnlyGiven ==
    \A r \in Requests : Lone(r) =>
        /\ req[r].kind = "order" =>
              \A f \in DOMAIN order.intake \ DOMAIN req[r].in.intake :
                  order'.intake[f] = order.intake[f]
        /\ req[r].kind \in {"create shipment", "shipment status", "update cost"} =>
              \A s \in DOMAIN sheets :
                  /\ \A f \in DOMAIN sheets[s] \ ({"grossProfit", "hasActual"} \union Given(r)) :
                        sheets'[s][f] = sheets[s][f]
                  /\ sheets[s].hasActual \subseteq sheets'[s].hasActual
        /\ \A s \in DOMAIN shipments :
              shipments[s].shippedAt # Nobody =>
                  shipments'[s].shippedAt = shipments[s].shippedAt

LoneRequestTouchesOnlyGiven == [][TouchesOnlyGiven]_vars

\* The rules that are checked on rows read before hold of what a lone request
\* stores: one shipment for an order, nothing that was filled in is changed
\* by a sales user, a retained amount within the sale, carrier and number of
\* a replacement in transit.
KeepsRules ==
    \A r \in Requests : Lone(r) =>
        /\ Len(shipments') > Len(shipments) => shipments = <<>>
        /\ req[r].kind = "order" /\ order' # order =>
              /\ req[r].in.role = "SALES" =>
                    order.intake.vehicleVin \in {0, order'.intake.vehicleVin}
              /\ order'.intake.refundDeductionAmount # order.intake.refundDeductionAmount =>
                    order'.intake.refundDeductionAmount <= order.totalSaleAmount
        /\ replacement' # replacement => ensureTransitDetails(replacement')

LoneRequestKeepsRules == [][KeepsRules]_vars

\* A change of the effective costs is in the history of the sheet, which is
\* decided by a comparison with amounts read before.  The code misses one
\* case: an actual amount that replaces an estimate, equal to the unused
\* actual amount stored (0, as a rule), counts as no change.
UnusedAmountGiven(in, sheet) ==
    \E f \in {"purchaseAmount", "shippingAmount"} \ sheet.hasActual :
        f \in DOMAIN in /\ in[f] = sheet[f]

ChangeIsLogged ==
    \A r \in Requests, s \in DOMAIN sheets :
        /\ Lone(r)
        /\ At(r, "update cost", "write")
        /\ Effective(sheets'[s]) # Effective(sheets[s])
        => req'[r].step = "history" \/ UnusedAmountGiven(req[r].in.costs, sheets[s])

LoneCostChangeIsLogged == [][ChangeIsLogged]_vars
=============================================================================
