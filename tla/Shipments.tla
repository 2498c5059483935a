------------------------------- MODULE Shipments -------------------------------
(***************************************************************************)
(* ShipmentsService.create and updateStatus.  The controller admits admins *)
(* and the shipping team only, who may move a shipment to any status: the  *)
(* table ALLOWED_STATUS_TRANSITIONS binds nobody, the requirements of the  *)
(* status reached do.                                                      *)
(***************************************************************************)
EXTENDS ShipmentCosts

CONSTANT StatusInputs  \* bodies: a status, a carrier?, a PRO number?, costs

\* For SHIPPED the validation of the body itself asks for the carrier.
ASSUME StatusInputsAssumption ==
    \A in \in StatusInputs :
        /\ in.status \in ShipmentStatus
        /\ in.carrierName \in BOOLEAN /\ in.proNumber \in BOOLEAN
        /\ IsCostInput(in.costs)
        /\ in.status = "SHIPPED" => in.carrierName

hasCostPayload(in) == DOMAIN in.costs # {}

\* Mutant: a part cost is asked for on the way to PURCHASE alone.
ensureCostPayloadLax(in, hasSheet, sheet, isStatusChange) ==
    in.status = "PURCHASE" /\ ~hasSheet => "purchaseAmount" \in DOMAIN in.costs

ensureCostPayloadForStatus(in, hasSheet, sheet, isStatusChange) ==
    /\ in.status \in {"PURCHASE", "SHIPPED"} /\ ~hasSheet =>
          "purchaseAmount" \in DOMAIN in.costs
    /\ in.status = "SHIPPED" /\ isStatusChange => "shippingAmount" \in DOMAIN in.costs
    /\ Merge([additionalAmount |-> 0], in.costs).additionalAmount > 0 =>
          Merge(sheet, in.costs).notes

ensureCarrierNameForShipped(in, carrier) ==
    in.status = "SHIPPED" => carrier \/ in.carrierName

\* Mutant: the PRO number is not asked for.
ensureProNumberLax(in, pro) == TRUE

ensureProNumberForInTransit(in, pro) ==
    in.status = "IN_TRANSIT" => pro \/ in.proNumber

\* Every amount: the given one, else that of the snapshot.  A part cost once
\* entered is not reset to 0.
upserted(in, sheet) ==
    LET next == resolveCostAmounts(in, sheet)
    IN  [next EXCEPT !.purchaseAmount =
            IF @ = 0 THEN sheet.purchaseAmount ELSE @]

\* upsertShipmentCostIfNeeded; notes not given stay as they are stored.
Upsert(s, in, sheet, basis) ==
    LET next == upserted(in, sheet)
    IN  StoreSheet(s, [next EXCEPT !.grossProfit = basis - Effective(next),
                                   !.notes = Merge(SheetOf(s), in).notes])

-----------------------------------------------------------------------------
(* create *)

\* Mutant: the count is not looked at.
BeginCreateShipmentUnchecked(r) ==
    /\ req[r].step = "idle"
    /\ \E in \in StatusInputs :
          /\ ~in.proNumber
          /\ ensureCostPayloadForStatus(in, FALSE, NoSheet, TRUE)
          /\ Arrive(r, Slot("create shipment", "insert", in, Nothing))
    /\ UNCHANGED <<order, shipments, sheets, extras, replacement, recorded, faults>>

\* ensureOrderCanCreateShipment: the count of the order's shipments.
BeginCreateShipment(r) ==
    /\ req[r].step = "idle"
    /\ shipments = <<>>
    /\ \E in \in StatusInputs :
          /\ ~in.proNumber
          /\ ensureCarrierNameForShipped(in, FALSE)
          /\ ensureCostPayloadForStatus(in, FALSE, NoSheet, TRUE)
          /\ Arrive(r, Slot("create shipment", "insert", in, Nothing))
    /\ UNCHANGED <<order, shipments, sheets, extras, replacement, recorded, faults>>

InsertShipment(r) ==
    /\ At(r, "create shipment", "insert")
    /\ Len(shipments) < MaxShipments
    /\ LET in == req[r].in
       IN  /\ shipments' = Append(shipments,
                 [status |-> in.status, carrierName |-> in.carrierName,
                  proNumber |-> FALSE,
                  shippedAt |-> IF in.status = "SHIPPED" THEN r ELSE Nobody,
                  deliveredAt |-> Nobody, born |-> in.status])
           /\ Read(r, IF hasCostPayload(in) THEN "cost" ELSE "note",
                   [id |-> Len(shipments) + 1, basis |-> resolveGpSaleBasis,
                    sheet |-> NoSheet])
    /\ UNCHANGED <<order, sheets, extras, replacement, recorded, faults>>

-----------------------------------------------------------------------------
(* updateStatus *)

\* findOne and the checks.  A shipment that stays in its status needs costs
\* or other data to store, and skips the row when only costs are given.
BeginUpdateStatus(r) ==
    /\ req[r].step = "idle"
    /\ \E s \in DOMAIN shipments, in \in StatusInputs :
          LET row == shipments[s]
              isStatusChange == row.status # in.status
              hasShipmentDataPayload == in.carrierName \/ in.proNumber
          IN  /\ isStatusChange \/ hasCostPayload(in) \/ hasShipmentDataPayload
              /\ ensureCostPayloadForStatus(in, HasSheet(s), SheetOf(s), isStatusChange)
              /\ ensureCarrierNameForShipped(in, row.carrierName)
              /\ isStatusChange => ensureProNumberForInTransit(in, row.proNumber)
              /\ Arrive(r, Slot("shipment status",
                    IF isStatusChange \/ hasShipmentDataPayload THEN "write" ELSE "cost",
                    in, [id |-> s, row |-> row, sheet |-> SheetOf(s),
                         basis |-> resolveGpSaleBasis]))
    /\ UNCHANGED <<order, shipments, sheets, extras, replacement, recorded, faults>>

\* The row that r stores; a date is set when the row that was read had none.
Updated(row, in, seenRow, r) ==
    LET isStatusChange == seenRow.status # in.status
    IN  [row EXCEPT
            !.status = in.status,
            !.carrierName = @ \/ in.carrierName,
            !.proNumber = @ \/ in.proNumber,
            !.shippedAt =
                IF /\ isStatusChange
                   /\ in.status \in {"SHIPPED", "IN_TRANSIT", "DELIVERED"}
                   /\ seenRow.shippedAt = Nobody
                THEN r ELSE @,
            !.deliveredAt =
                IF isStatusChange /\ in.status = "DELIVERED" THEN r ELSE @]

\* ShipmentsRepository.updateStatus, by id.  A change of status takes the
\* costs of the updated row.
WriteStatus(r) ==
    /\ At(r, "shipment status", "write")
    /\ LET in == req[r].in
           seen == req[r].seen
           s == seen.id
           isStatusChange == seen.row.status # in.status
       IN  /\ shipments' = [shipments EXCEPT ![s] = Updated(shipments[s], in, seen.row, r)]
           /\ Read(r, IF hasCostPayload(in) THEN "cost" ELSE "note",
                   [id |-> s, row |-> seen.row, basis |-> resolveGpSaleBasis,
                    sheet |-> IF isStatusChange /\ HasSheet(s) THEN sheets[s]
                              ELSE seen.sheet])
    /\ UNCHANGED <<order, sheets, extras, replacement, recorded, faults>>

-----------------------------------------------------------------------------
(* Both *)

UpsertCost(r) ==
    /\ req[r].kind \in {"create shipment", "shipment status"}
    /\ req[r].step = "cost"
    /\ Upsert(req[r].seen.id, req[r].in.costs, req[r].seen.sheet, req[r].seen.basis)
    /\ Goto(r, "note")
    /\ UNCHANGED <<order, shipments, extras, replacement, recorded, faults>>

\* The history note of the order, the cache and the notification.
NoteShipment(r) ==
    /\ req[r].kind \in {"create shipment", "shipment status"}
    /\ req[r].step = "note"
    /\ Record(r)
    /\ Goto(r, "done")
    /\ UNCHANGED <<order, shipments, sheets, extras, replacement, faults>>

MoveShipment(r) ==
    \/ BeginCreateShipment(r) \/ InsertShipment(r)
    \/ BeginUpdateStatus(r) \/ WriteStatus(r)
    \/ UpsertCost(r) \/ NoteShipment(r)
=============================================================================
