--------------------------- MODULE FulfilmentProofs ---------------------------
(***************************************************************************)
(* What survives any overlap of the requests on one sold order: the        *)
(* requirements of a shipment's status, the cost sheet of a bought part,   *)
(* the agreement of the two fields of a refund, and the types of the rows  *)
(* and of what each request carries, the sum of additional costs included; *)
(* and what a request that ran alone may have changed.                     *)
(***************************************************************************)
EXTENDS Fulfilment, FiniteSetTheorems, WellFoundedInduction, TLAPS

-----------------------------------------------------------------------------
(* How a step changes the requests.                                         *)

ReqShape ==
    /\ DOMAIN req = Requests
    /\ \A r \in Requests : DOMAIN req[r] = {"kind", "step", "in", "seen", "alone"}

SameCall(q) == /\ req'[q].kind = req[q].kind
               /\ req'[q].in = req[q].in

\* Request q stands where it stood.
Stays(q) == /\ SameCall(q)
            /\ req'[q].step = req[q].step
            /\ req'[q].seen = req[q].seen

LEMMA GotoStep ==
    ASSUME ReqShape, NEW r \in Requests, NEW step, Goto(r, step)
    PROVE  /\ ReqShape'
           /\ \A q \in Requests \ {r} : Stays(q)
           /\ SameCall(r) /\ req'[r].step = step /\ req'[r].seen = req[r].seen
  BY DEF ReqShape, Goto, Stays, SameCall

LEMMA ReadStep ==
    ASSUME ReqShape, NEW r \in Requests, NEW step, NEW seen, Read(r, step, seen)
    PROVE  /\ ReqShape'
           /\ \A q \in Requests \ {r} : Stays(q)
           /\ SameCall(r) /\ req'[r].step = step /\ req'[r].seen = seen
  BY DEF ReqShape, Read, Stays, SameCall

LEMMA ArriveStep ==
    ASSUME ReqShape, NEW r \in Requests, NEW kind, NEW step, NEW in, NEW seen,
           Arrive(r, Slot(kind, step, in, seen))
    PROVE  /\ ReqShape'
           /\ \A q \in Requests \ {r} : Stays(q)
           /\ req'[r].kind = kind /\ req'[r].step = step
           /\ req'[r].in = in /\ req'[r].seen = seen
  BY DEF ReqShape, Arrive, Slot, Stays, SameCall

LEMMA FailStep ==
    ASSUME ReqShape, NEW r \in Requests, Fail(r)
    PROVE  /\ ReqShape'
           /\ \A q \in Requests \ {r} : Stays(q)
           /\ SameCall(r) /\ req'[r].step = "cut" /\ req'[r].seen = req[r].seen
           /\ ~Ended(r)
           /\ UNCHANGED <<order, shipments, sheets>>
  BY GotoStep DEF Fail

-----------------------------------------------------------------------------
(* Shipments: the inductive invariant.                                      *)

ShipmentsTyped == shipments \in Seq(Shipment) /\ Len(shipments) <= MaxShipments

Moving == {"create shipment", "shipment status"}

\* What was filled in stays filled in.
Later(old, new) ==
    /\ old.carrierName => new.carrierName
    /\ old.proNumber => new.proNumber
    /\ old.shippedAt # Nobody => new.shippedAt # Nobody
    /\ old.deliveredAt # Nobody => new.deliveredAt # Nobody
    /\ old.born = new.born

\* r is still to store a cost sheet, or was cut.
Brings(r) == req[r].kind \in Moving /\ req[r].step \in {"cost", "cut"}

InsertChecked(r) ==
    At(r, "create shipment", "insert") =>
        /\ req[r].in \in StatusInputs
        /\ IsBought(req[r].in) => hasCostPayload(req[r].in)

WriteChecked(r) ==
    At(r, "shipment status", "write") =>
        LET in == req[r].in
            seen == req[r].seen
        IN  /\ in \in StatusInputs
            /\ seen.id \in DOMAIN shipments
            /\ MeetsRequirements(seen.row)
            /\ Later(seen.row, shipments[seen.id])
            /\ in.status = "IN_TRANSIT" /\ seen.row.status # in.status =>
                  seen.row.proNumber \/ in.proNumber
            /\ IsBought(in) => HasSheet(seen.id) \/ hasCostPayload(in)

ShipmentInv ==
    /\ ReqShape /\ ShipmentsTyped
    /\ RequirementsMet /\ BoughtPartHasSheet
    /\ \A r \in Requests : InsertChecked(r) /\ WriteChecked(r)

LEMMA LaterTransitive ==
    ASSUME NEW a, NEW b, NEW c, Later(a, b), Later(b, c)
    PROVE  Later(a, c)
  BY Zenon DEF Later

\* A step of r that takes nothing away from the shipments keeps the
\* invariant when r itself is in order.
LEMMA ShipmentStep ==
    ASSUME ShipmentInv, NEW r \in Requests, ReqShape', ShipmentsTyped',
           \A q \in Requests \ {r} : Stays(q),
           DOMAIN sheets \subseteq DOMAIN sheets',
           DOMAIN shipments \subseteq DOMAIN shipments',
           \A s \in DOMAIN shipments : Later(shipments[s], shipments'[s]),
           RequirementsMet',
           Brings(r) => \/ Brings(r)' /\ req'[r].seen = req[r].seen
                        \/ req[r].seen.id \in DOMAIN sheets',
           \A s \in DOMAIN shipments' :
               IsBought(shipments'[s]) =>
                   \/ s \in DOMAIN shipments /\ IsBought(shipments[s])
                   \/ s \in DOMAIN sheets'
                   \/ Brings(r)' /\ req'[r].seen.id = s,
           InsertChecked(r)', WriteChecked(r)'
    PROVE  ShipmentInv'
<1>1. BoughtPartHasSheet'
  <2> SUFFICES ASSUME NEW s \in DOMAIN shipments', IsBought(shipments'[s]),
                      s \notin DOMAIN sheets'
               PROVE  \E q \in Requests : Brings(q)' /\ req'[q].seen.id = s
    BY DEF BoughtPartHasSheet, Brings, Moving, IsBought, HasSheet
  <2>1. CASE s \in DOMAIN shipments /\ IsBought(shipments[s])
    <3>1. ~HasSheet(s)
      BY DEF HasSheet
    <3>2. PICK q \in Requests : Brings(q) /\ req[q].seen.id = s
      BY <2>1, <3>1 DEF ShipmentInv, BoughtPartHasSheet, Brings, Moving
    <3>3. CASE q = r
      BY <3>2, <3>3
    <3>4. CASE q # r
      <4>1. Stays(q)
        BY <3>4
      <4> QED
        BY <3>2, <4>1 DEF Brings, Stays, SameCall
    <3> QED
      BY <3>3, <3>4
  <2>2. CASE Brings(r)' /\ req'[r].seen.id = s
    BY <2>2
  <2> QED
    BY <2>1, <2>2
<1>2. ASSUME NEW q \in Requests \ {r}
      PROVE  InsertChecked(q)' /\ WriteChecked(q)'
  <2>1. InsertChecked(q) /\ WriteChecked(q) /\ Stays(q)
    BY DEF ShipmentInv
  <2>2. InsertChecked(q)'
    BY <2>1 DEF InsertChecked, Stays, SameCall, At
  <2>3. WriteChecked(q)'
    <3> SUFFICES ASSUME At(q, "shipment status", "write")
                 PROVE  WriteChecked(q)'
      BY <2>1 DEF WriteChecked, Stays, SameCall, At
    <3> DEFINE in == req[q].in
               seen == req[q].seen
    <3>1. /\ in \in StatusInputs /\ seen.id \in DOMAIN shipments
          /\ MeetsRequirements(seen.row)
          /\ Later(seen.row, shipments[seen.id])
          /\ in.status = "IN_TRANSIT" /\ seen.row.status # in.status =>
                seen.row.proNumber \/ in.proNumber
          /\ IsBought(in) => HasSheet(seen.id) \/ hasCostPayload(in)
      BY <2>1 DEF WriteChecked
    <3>2. Later(seen.row, shipments'[seen.id])
      BY <3>1, LaterTransitive
    <3>3. HasSheet(seen.id) => seen.id \in DOMAIN sheets'
      BY DEF HasSheet
    <3>4. req'[q].in = in /\ req'[q].seen = seen
      BY <2>1 DEF Stays, SameCall
    <3> HIDE DEF in, seen
    <3> QED
      BY <3>1, <3>2, <3>3, <3>4
      DEF WriteChecked, Later, MeetsRequirements, IsBought, hasCostPayload, HasSheet
  <2> QED
    BY <2>2, <2>3
<1> QED
  BY <1>1, <1>2 DEF ShipmentInv
-----------------------------------------------------------------------------
(* The other services leave the shipments alone.                            *)

Aside(r) ==
    /\ ReqShape'
    /\ \A q \in Requests \ {r} : Stays(q)
    /\ shipments' = shipments
    /\ DOMAIN sheets \subseteq DOMAIN sheets'
    /\ req'[r].kind \notin Moving
    /\ ~Brings(r)

LEMMA ArrivalAside ==
    ASSUME ReqShape, NEW r \in Requests, NEW kind, NEW step, NEW in, NEW seen,
           req[r].step = "idle", Arrive(r, Slot(kind, step, in, seen)),
           kind \notin Moving, shipments' = shipments, sheets' = sheets
    PROVE  Aside(r)
  BY ArriveStep DEF Aside, Brings

LEMMA NotMoving ==
    /\ "order" \notin Moving
    /\ "create cost" \notin Moving /\ "update cost" \notin Moving
    /\ "add extra" \notin Moving /\ "update extra" \notin Moving
    /\ "create replacement" \notin Moving /\ "update replacement" \notin Moving
  BY DEF Moving

LEMMA OrdersAside ==
    ASSUME ReqShape, NEW r \in Requests, EditOrder(r)
    PROVE  Aside(r)
  <1>1. CASE BeginUpdate(r)
    BY <1>1, ArrivalAside, NotMoving, Zenon DEF BeginUpdate
  <1>2. CASE BeginCancel(r)
    BY <1>2, ArrivalAside, NotMoving, Zenon DEF BeginCancel
  <1>3. CASE BeginRefund(r)
    BY <1>3, ArrivalAside, NotMoving, Zenon DEF BeginRefund
  <1>4. CASE ReadIntake(r)
    BY <1>4, ReadStep DEF ReadIntake, Aside, Moving, Brings, At, SameCall
  <1>5. CASE WriteOrder(r)
    BY <1>5, GotoStep DEF WriteOrder, Aside, Moving, Brings, At, SameCall
  <1>6. CASE NoteOrder(r)
    BY <1>6, GotoStep DEF NoteOrder, Aside, Moving, Brings, At, SameCall
  <1> QED
    BY <1>1, <1>2, <1>3, <1>4, <1>5, <1>6 DEF EditOrder

LEMMA CostsAside ==
    ASSUME ReqShape, NEW r \in Requests, KeepCosts(r)
    PROVE  Aside(r)
  <1>1. CASE BeginCreateCost(r)
    BY <1>1, ArrivalAside, NotMoving, Zenon DEF BeginCreateCost
  <1>2. CASE ensureShipmentCostDoesNotExist(r)
    BY <1>2, GotoStep DEF ensureShipmentCostDoesNotExist, Aside, Moving, Brings, At, SameCall
  <1>3. CASE InsertCost(r)
    BY <1>3, GotoStep DEF InsertCost, Aside, Moving, Brings, StoreSheet, At, SameCall
  <1>4. CASE BeginUpdateCost(r)
    BY <1>4, ArrivalAside, NotMoving, Zenon DEF BeginUpdateCost
  <1>5. CASE ReadAmounts(r)
    BY <1>5, ReadStep, GotoStep DEF ReadAmounts, Aside, Moving, Brings, At, SameCall
  <1>6. CASE UpdateCost(r)
    BY <1>6, GotoStep DEF UpdateCost, Aside, Moving, Brings, At, SameCall
  <1>7. CASE RecordCostHistory(r)
    BY <1>7, GotoStep DEF RecordCostHistory, Aside, Moving, Brings, At, SameCall
  <1>8. CASE BeginCreateExtra(r)
    BY <1>8, ArrivalAside, NotMoving, Zenon DEF BeginCreateExtra
  <1>9. CASE InsertExtra(r)
    BY <1>9, GotoStep DEF InsertExtra, Aside, Moving, Brings, At, SameCall
  <1>10. CASE BeginUpdateExtra(r)
    BY <1>10, ArrivalAside, NotMoving, Zenon DEF BeginUpdateExtra
  <1>11. CASE UpdateExtra(r)
    BY <1>11, GotoStep DEF UpdateExtra, Aside, Moving, Brings, At, SameCall
  <1>12. CASE RecordExtraHistory(r)
    BY <1>12, GotoStep DEF RecordExtraHistory, Aside, Moving, Brings, At, SameCall
  <1>13. CASE ReadForTotals(r)
    BY <1>13, ReadStep, GotoStep DEF ReadForTotals, Aside, Moving, Brings, SameCall
  <1>14. CASE WriteTotals(r)
    BY <1>14, GotoStep DEF WriteTotals, Aside, Moving, Brings, SameCall
  <1> QED
    BY <1>1, <1>2, <1>3, <1>4, <1>5, <1>6, <1>7, <1>8, <1>9, <1>10, <1>11, <1>12, <1>13, <1>14 DEF KeepCosts

LEMMA ReplacementsAside ==
    ASSUME ReqShape, NEW r \in Requests, KeepReplacement(r)
    PROVE  Aside(r)
  <1>1. CASE BeginCreateReplacement(r)
    BY <1>1, ArrivalAside, NotMoving, Zenon DEF BeginCreateReplacement
  <1>2. CASE InsertReplacement(r)
    BY <1>2, GotoStep DEF InsertReplacement, Aside, Moving, Brings, At, SameCall
  <1>3. CASE BeginUpdateReplacement(r)
    BY <1>3, ArrivalAside, NotMoving, Zenon DEF BeginUpdateReplacement
  <1>4. CASE WriteReplacement(r)
    BY <1>4, GotoStep DEF WriteReplacement, Aside, Moving, Brings, At, SameCall
  <1>5. CASE NoteReplacement(r)
    BY <1>5, GotoStep DEF NoteReplacement, Aside, Moving, Brings, SameCall
  <1> QED
    BY <1>1, <1>2, <1>3, <1>4, <1>5 DEF KeepReplacement

LEMMA AsideKeeps ==
    ASSUME ShipmentInv, NEW r \in Requests, Aside(r)
    PROVE  ShipmentInv'
<1>1. ShipmentsTyped' /\ RequirementsMet'
  BY DEF ShipmentInv, Aside, ShipmentsTyped, RequirementsMet, MeetsRequirements
<1>2. \A s \in DOMAIN shipments : Later(shipments[s], shipments'[s])
  BY DEF Aside, Later
<1>3. InsertChecked(r)' /\ WriteChecked(r)'
  BY DEF Aside, InsertChecked, WriteChecked, At, Moving
<1>4. DOMAIN shipments \subseteq DOMAIN shipments'
  BY DEF Aside
<1>5. \A s \in DOMAIN shipments' :
         IsBought(shipments'[s]) => s \in DOMAIN shipments /\ IsBought(shipments[s])
  BY DEF Aside
<1> QED
  BY <1>1, <1>2, <1>3, <1>4, <1>5, ShipmentStep DEF Aside

\* A step of r that leaves shipments and requests other than r as they are.
LEMMA RowsKept ==
    ASSUME ShipmentInv, NEW r \in Requests, ReqShape',
           \A q \in Requests \ {r} : Stays(q),
           shipments' = shipments, DOMAIN sheets \subseteq DOMAIN sheets',
           Brings(r) => \/ Brings(r)' /\ req'[r].seen = req[r].seen
                        \/ req[r].seen.id \in DOMAIN sheets',
           InsertChecked(r)', WriteChecked(r)'
    PROVE  ShipmentInv'
<1>1. ShipmentsTyped' /\ RequirementsMet'
  BY DEF ShipmentInv, ShipmentsTyped, RequirementsMet, MeetsRequirements
<1>2. \A s \in DOMAIN shipments : Later(shipments[s], shipments'[s])
  BY DEF Later
<1>3. DOMAIN shipments \subseteq DOMAIN shipments'
  OBVIOUS
<1>4. \A s \in DOMAIN shipments' :
         IsBought(shipments'[s]) => s \in DOMAIN shipments /\ IsBought(shipments[s])
  OBVIOUS
<1> QED
  BY <1>1, <1>2, <1>3, <1>4, ShipmentStep

LEMMA FailKeeps ==
    ASSUME ShipmentInv, NEW r \in Requests, Fail(r)
    PROVE  ShipmentInv'
<1>1. /\ ReqShape'
      /\ \A q \in Requests \ {r} : Stays(q)
      /\ SameCall(r) /\ req'[r].step = "cut" /\ req'[r].seen = req[r].seen
      /\ UNCHANGED <<order, shipments, sheets>>
  BY FailStep DEF ShipmentInv
<1>2. InsertChecked(r)' /\ WriteChecked(r)'
  BY <1>1 DEF InsertChecked, WriteChecked, At
<1>3. Brings(r) => Brings(r)'
  BY <1>1 DEF Brings, SameCall
<1> QED
  BY <1>1, <1>2, <1>3, RowsKept

LEMMA NoteShipmentKeeps ==
    ASSUME ShipmentInv, NEW r \in Requests, NoteShipment(r)
    PROVE  ShipmentInv'
<1>1. /\ ReqShape'
      /\ \A q \in Requests \ {r} : Stays(q)
      /\ req'[r].step = "done" /\ req[r].step = "note"
      /\ UNCHANGED <<shipments, sheets>>
  BY GotoStep DEF ShipmentInv, NoteShipment
<1>2. InsertChecked(r)' /\ WriteChecked(r)' /\ ~Brings(r)
  BY <1>1 DEF InsertChecked, WriteChecked, At, Brings
<1> QED
  BY <1>1, <1>2, RowsKept

LEMMA UpsertKeeps ==
    ASSUME ShipmentInv, NEW r \in Requests, UpsertCost(r)
    PROVE  ShipmentInv'
<1>1. /\ ReqShape'
      /\ \A q \in Requests \ {r} : Stays(q)
      /\ req'[r].step = "note" /\ shipments' = shipments
  BY GotoStep DEF ShipmentInv, UpsertCost
<1>2. DOMAIN sheets' = DOMAIN sheets \union {req[r].seen.id}
  BY DEF UpsertCost, Upsert, StoreSheet
<1>3. InsertChecked(r)' /\ WriteChecked(r)'
  BY <1>1 DEF InsertChecked, WriteChecked, At
<1> QED
  BY <1>1, <1>2, <1>3, RowsKept

LEMMA BeginCreateKeeps ==
    ASSUME ShipmentInv, NEW r \in Requests, BeginCreateShipment(r)
    PROVE  ShipmentInv'
<1>1. PICK in \in StatusInputs :
         /\ ensureCostPayloadForStatus(in, FALSE, NoSheet, TRUE)
         /\ Arrive(r, Slot("create shipment", "insert", in, Nothing))
  BY DEF BeginCreateShipment
<1>2. /\ ReqShape'
      /\ \A q \in Requests \ {r} : Stays(q)
      /\ req'[r].step = "insert" /\ req'[r].in = in
      /\ req'[r].kind = "create shipment"
  BY <1>1, ArriveStep DEF ShipmentInv
<1>3. IsBought(in) => hasCostPayload(in)
  BY <1>1 DEF IsBought, hasCostPayload, ensureCostPayloadForStatus
<1>4. InsertChecked(r)' /\ WriteChecked(r)'
  BY <1>2, <1>3 DEF InsertChecked, WriteChecked, At, IsBought, hasCostPayload
<1>5. ~Brings(r) /\ UNCHANGED <<shipments, sheets>>
  BY DEF BeginCreateShipment, Brings
<1> QED
  BY <1>2, <1>4, <1>5, RowsKept

LEMMA BeginStatusKeeps ==
    ASSUME ShipmentInv, NEW r \in Requests, BeginUpdateStatus(r)
    PROVE  ShipmentInv'
<1>1. PICK s \in DOMAIN shipments, in \in StatusInputs :
         LET row == shipments[s]
             isStatusChange == row.status # in.status
         IN  /\ ensureCostPayloadForStatus(in, HasSheet(s), SheetOf(s), isStatusChange)
             /\ isStatusChange => ensureProNumberForInTransit(in, row.proNumber)
             /\ Arrive(r, Slot("shipment status",
                   IF isStatusChange \/ in.carrierName \/ in.proNumber THEN "write"
                   ELSE "cost",
                   in, [id |-> s, row |-> row, sheet |-> SheetOf(s),
                        basis |-> resolveGpSaleBasis]))
  BY DEF BeginUpdateStatus
<1> DEFINE change == shipments[s].status # in.status
           step == IF change \/ in.carrierName \/ in.proNumber THEN "write"
                   ELSE "cost"
           seen == [id |-> s, row |-> shipments[s], sheet |-> SheetOf(s),
                    basis |-> resolveGpSaleBasis]
<1>2. step \in {"write", "cost"} /\ seen.id = s /\ seen.row = shipments[s]
  OBVIOUS
<1>3. Arrive(r, Slot("shipment status", step, in, seen))
  BY <1>1
<1> HIDE DEF step, seen
<1>4. /\ ReqShape'
      /\ \A q \in Requests \ {r} : Stays(q)
      /\ req'[r].step = step /\ req'[r].in = in /\ req'[r].seen = seen
      /\ req'[r].kind = "shipment status"
  <2>1. ReqShape
    BY DEF ShipmentInv
  <2> QED
    BY <1>3, <2>1, ArriveStep
<1>5. UNCHANGED <<shipments, sheets>> /\ ~Brings(r)
  BY DEF BeginUpdateStatus, Brings
<1>6. IsBought(in) => HasSheet(s) \/ hasCostPayload(in)
  BY <1>1 DEF IsBought, hasCostPayload, ensureCostPayloadForStatus
<1>7. MeetsRequirements(shipments[s]) /\ Later(shipments[s], shipments[s])
  BY DEF ShipmentInv, RequirementsMet, Later
<1>8. in.status = "IN_TRANSIT" /\ shipments[s].status # in.status =>
         shipments[s].proNumber \/ in.proNumber
  BY <1>1 DEF ensureProNumberForInTransit
<1>9. WriteChecked(r)'
  BY <1>2, <1>4, <1>5, <1>6, <1>7, <1>8
  DEF WriteChecked, IsBought, hasCostPayload, HasSheet, MeetsRequirements, Later
<1>10. InsertChecked(r)'
  BY <1>4 DEF InsertChecked, At
<1> QED
  BY <1>4, <1>5, <1>9, <1>10, RowsKept

LEMMA InsertKeeps ==
    ASSUME ShipmentInv, NEW r \in Requests, InsertShipment(r)
    PROVE  ShipmentInv'
<1> DEFINE in == req[r].in
           n == Len(shipments)
           row == [status |-> in.status, carrierName |-> in.carrierName,
                   proNumber |-> FALSE,
                   shippedAt |-> IF in.status = "SHIPPED" THEN r ELSE Nobody,
                   deliveredAt |-> Nobody, born |-> in.status]
           step == IF hasCostPayload(in) THEN "cost" ELSE "note"
           seen == [id |-> n + 1, basis |-> resolveGpSaleBasis, sheet |-> NoSheet]
<1>1. At(r, "create shipment", "insert") /\ n < MaxShipments
  BY DEF InsertShipment
<1>2. shipments' = Append(shipments, row) /\ Read(r, step, seen)
  BY DEF InsertShipment
<1>3. sheets' = sheets
  BY DEF InsertShipment
<1>4. in \in StatusInputs /\ (IsBought(in) => hasCostPayload(in))
  BY <1>1 DEF ShipmentInv, InsertChecked
<1>5. row \in Shipment /\ MeetsRequirements(row)
  BY <1>4, StatusInputsAssumption, FulfilmentAssumption
  DEF Shipment, MeetsRequirements, ShipmentStatus
<1>6. row.status = in.status /\ seen.id = n + 1
  OBVIOUS
<1> HIDE DEF row, seen
<1>7. /\ ReqShape'
      /\ \A q \in Requests \ {r} : Stays(q)
      /\ SameCall(r) /\ req'[r].step = step /\ req'[r].seen = seen
  BY <1>2, ReadStep DEF ShipmentInv
<1>8. /\ shipments \in Seq(Shipment) /\ n \in Nat
      /\ DOMAIN shipments = 1 .. n
  BY DEF ShipmentInv, ShipmentsTyped
<1>9. /\ shipments' \in Seq(Shipment) /\ Len(shipments') = n + 1
      /\ DOMAIN shipments' = 1 .. n + 1
      /\ shipments'[n + 1] = row
      /\ \A s \in 1 .. n : shipments'[s] = shipments[s]
  BY <1>2, <1>5, <1>8
<1>10. ShipmentsTyped'
  <2>1. MaxShipments \in Nat
    BY FulfilmentAssumption
  <2>2. n < MaxShipments /\ n \in Nat
    BY <1>1, <1>8
  <2> HIDE DEF n
  <2>3. n + 1 <= MaxShipments
    BY <2>1, <2>2
  <2> QED
    BY <1>9, <2>3 DEF ShipmentsTyped
<1>11. RequirementsMet'
  <2> SUFFICES ASSUME NEW s \in 1 .. n + 1
               PROVE  MeetsRequirements(shipments'[s])
    BY <1>9 DEF RequirementsMet, MeetsRequirements
  <2>1. CASE s = n + 1
    BY <2>1, <1>5, <1>9
  <2>2. CASE s \in 1 .. n
    BY <2>2, <1>8, <1>9 DEF ShipmentInv, RequirementsMet
  <2> QED
    BY <1>8, <2>1, <2>2
<1>12. \A s \in DOMAIN shipments : Later(shipments[s], shipments'[s])
  BY <1>8, <1>9 DEF Later
<1>13. DOMAIN shipments \subseteq DOMAIN shipments'
  BY <1>8, <1>9
<1>14. InsertChecked(r)' /\ WriteChecked(r)' /\ ~Brings(r)
  BY <1>1, <1>7 DEF InsertChecked, WriteChecked, At, Brings, SameCall
<1>15. ASSUME NEW s \in DOMAIN shipments', IsBought(shipments'[s])
       PROVE  \/ s \in DOMAIN shipments /\ IsBought(shipments[s])
              \/ s \in DOMAIN sheets'
              \/ Brings(r)' /\ req'[r].seen.id = s
  <2>1. CASE s = n + 1
    <3>1. IsBought(in)
      BY <2>1, <1>6, <1>9, <1>15 DEF IsBought
    <3>2. req'[r].step = "cost" /\ req'[r].kind = "create shipment"
      BY <3>1, <1>1, <1>4, <1>7 DEF SameCall, At
    <3> QED
      BY <2>1, <3>2, <1>6, <1>7 DEF Brings, Moving
  <2>2. CASE s \in 1 .. n
    BY <2>2, <1>8, <1>9, <1>15
  <2> QED
    BY <1>8, <1>9, <2>1, <2>2
<1> QED
  BY <1>3, <1>7, <1>10, <1>11, <1>12, <1>13, <1>14, <1>15, ShipmentStep

LEMMA UpdatedRow ==
    ASSUME NEW row \in Shipment, NEW in \in StatusInputs, NEW seenRow,
           NEW r \in Requests, MeetsRequirements(seenRow), Later(seenRow, row),
           in.status = "IN_TRANSIT" /\ seenRow.status # in.status =>
               seenRow.proNumber \/ in.proNumber
    PROVE  /\ Updated(row, in, seenRow, r) \in Shipment
           /\ Updated(row, in, seenRow, r).status = in.status
           /\ MeetsRequirements(Updated(row, in, seenRow, r))
           /\ Later(row, Updated(row, in, seenRow, r))
<1> DEFINE new == Updated(row, in, seenRow, r)
           change == seenRow.status # in.status
           leaves == change /\ in.status \in {"SHIPPED", "IN_TRANSIT", "DELIVERED"}
                            /\ seenRow.shippedAt = Nobody
           arrives == change /\ in.status = "DELIVERED"
<1>1. /\ in.status \in ShipmentStatus
      /\ in.carrierName \in BOOLEAN /\ in.proNumber \in BOOLEAN
      /\ in.status = "SHIPPED" => in.carrierName
  BY StatusInputsAssumption
<1>2. /\ row.carrierName \in BOOLEAN /\ row.proNumber \in BOOLEAN
      /\ row.shippedAt \in Requests \union {Nobody}
      /\ row.deliveredAt \in Requests \union {Nobody}
      /\ row.born \in ShipmentStatus
  BY DEF Shipment
<1>3. new \in Shipment
  BY ZenonT(60), <1>1, <1>2 DEF Updated, Shipment
<1>4. /\ new.status = in.status
      /\ new.carrierName = (row.carrierName \/ in.carrierName)
      /\ new.proNumber = (row.proNumber \/ in.proNumber)
      /\ new.shippedAt = IF leaves THEN r ELSE row.shippedAt
      /\ new.deliveredAt = IF arrives THEN r ELSE row.deliveredAt
      /\ new.born = row.born
  BY DEF Updated, Shipment
<1>5. r # Nobody
  BY FulfilmentAssumption
<1> HIDE DEF new
<1>6. Later(row, new)
  BY <1>4, <1>5 DEF Later
<1>7. MeetsRequirements(new)
  BY <1>1, <1>4, <1>5 DEF MeetsRequirements, Later
<1> QED
  BY <1>3, <1>4, <1>6, <1>7 DEF new

LEMMA WriteStatusKeeps ==
    ASSUME ShipmentInv, NEW r \in Requests, WriteStatus(r)
    PROVE  ShipmentInv'
<1> DEFINE in == req[r].in
           s == req[r].seen.id
           seenRow == req[r].seen.row
           new == Updated(shipments[s], in, seenRow, r)
           step == IF hasCostPayload(in) THEN "cost" ELSE "note"
           seen == [id |-> s, row |-> seenRow, basis |-> resolveGpSaleBasis,
                    sheet |-> IF seenRow.status # in.status /\ HasSheet(s)
                              THEN sheets[s] ELSE req[r].seen.sheet]
<1>1. At(r, "shipment status", "write")
  BY DEF WriteStatus
<1>2. shipments' = [shipments EXCEPT ![s] = new]
  BY DEF WriteStatus
<1>3. Read(r, step, seen)
  BY DEF WriteStatus
<1>4. sheets' = sheets
  BY DEF WriteStatus
<1>5. /\ in \in StatusInputs
      /\ s \in DOMAIN shipments
      /\ MeetsRequirements(seenRow)
      /\ Later(seenRow, shipments[s])
      /\ in.status = "IN_TRANSIT" /\ seenRow.status # in.status =>
            seenRow.proNumber \/ in.proNumber
      /\ IsBought(in) => HasSheet(s) \/ hasCostPayload(in)
  BY <1>1 DEF ShipmentInv, WriteChecked
<1>6. seen.id = s
  OBVIOUS
<1> HIDE DEF new, seen, s, seenRow
<1>7. shipments \in Seq(Shipment)
  BY DEF ShipmentInv, ShipmentsTyped
<1>8. shipments[s] \in Shipment
  BY <1>5, <1>7
<1>9. /\ new \in Shipment /\ new.status = in.status
      /\ MeetsRequirements(new) /\ Later(shipments[s], new)
  BY <1>5, <1>8, UpdatedRow DEF new
<1>10. ReqShape
  BY DEF ShipmentInv
<1>11. /\ ReqShape'
       /\ \A q \in Requests \ {r} : Stays(q)
       /\ SameCall(r) /\ req'[r].step = step /\ req'[r].seen = seen
  BY <1>3, <1>10, ReadStep
<1>12. /\ shipments' \in Seq(Shipment) /\ Len(shipments') = Len(shipments)
       /\ DOMAIN shipments' = DOMAIN shipments
       /\ shipments'[s] = new
       /\ \A t \in DOMAIN shipments : t # s => shipments'[t] = shipments[t]
  BY <1>2, <1>5, <1>7, <1>9
<1>13. ShipmentsTyped'
  BY <1>12 DEF ShipmentInv, ShipmentsTyped
<1>14. RequirementsMet'
  <2> SUFFICES ASSUME NEW t \in DOMAIN shipments
               PROVE  MeetsRequirements(shipments'[t])
    BY <1>12 DEF RequirementsMet, MeetsRequirements
  <2>1. CASE t = s
    BY <2>1, <1>9, <1>12
  <2>2. CASE t # s
    BY <2>2, <1>12 DEF ShipmentInv, RequirementsMet
  <2> QED
    BY <2>1, <2>2
<1>15. ASSUME NEW t \in DOMAIN shipments
       PROVE  Later(shipments[t], shipments'[t])
  <2>1. CASE t = s
    BY <2>1, <1>9, <1>12
  <2>2. CASE t # s
    BY <2>2, <1>12 DEF Later
  <2> QED
    BY <2>1, <2>2
<1>16. InsertChecked(r)' /\ WriteChecked(r)' /\ ~Brings(r)
  BY <1>1, <1>11 DEF InsertChecked, WriteChecked, At, Brings, SameCall
<1>17. ASSUME NEW t \in DOMAIN shipments', IsBought(shipments'[t])
       PROVE  \/ t \in DOMAIN shipments /\ IsBought(shipments[t])
              \/ t \in DOMAIN sheets'
              \/ Brings(r)' /\ req'[r].seen.id = t
  <2>1. CASE t = s
    <3>1. IsBought(in)
      BY <2>1, <1>9, <1>12, <1>17 DEF IsBought
    <3>2. CASE HasSheet(s)
      BY <2>1, <3>2, <1>4 DEF HasSheet
    <3>3. CASE hasCostPayload(in)
      <4>1. req'[r].step = "cost" /\ req'[r].kind = "shipment status"
        BY <3>3, <1>1, <1>11 DEF SameCall, At
      <4> QED
        BY <2>1, <4>1, <1>6, <1>11 DEF Brings, Moving
    <3> QED
      BY <3>1, <3>2, <3>3, <1>5
  <2>2. CASE t # s
    BY <2>2, <1>12, <1>17
  <2> QED
    BY <2>1, <2>2
<1> QED
  BY <1>4, <1>11, <1>12, <1>13, <1>14, <1>15, <1>16, <1>17, ShipmentStep

LEMMA ShipmentStart == Init => ShipmentInv
<1> SUFFICES ASSUME Init
             PROVE  ShipmentInv
  OBVIOUS
<1>1. PICK start \in InitialOrders :
         shipments = start.shipments /\ sheets = start.sheets
  BY DEF Init
<1>2. /\ start.shipments \in Seq(Shipment)
      /\ Len(start.shipments) <= MaxShipments
      /\ \A s \in DOMAIN start.shipments :
            /\ MeetsRequirements(start.shipments[s])
            /\ IsBought(start.shipments[s]) => s \in DOMAIN start.sheets
  BY InitialAssumption
<1>3. ShipmentsTyped /\ RequirementsMet
  BY <1>1, <1>2 DEF ShipmentsTyped, RequirementsMet
<1>4. BoughtPartHasSheet
  BY <1>1, <1>2 DEF BoughtPartHasSheet, HasSheet
<1>5. req = [r \in Requests |-> Slot("none", "idle", Nothing, Nothing)]
  BY DEF Init
<1>6. ReqShape
  BY <1>5 DEF ReqShape, Slot
<1>7. \A r \in Requests : req[r].kind = "none"
  BY <1>5 DEF Slot
<1>8. \A r \in Requests : InsertChecked(r) /\ WriteChecked(r)
  BY <1>7 DEF InsertChecked, WriteChecked, At
<1> QED
  BY <1>3, <1>4, <1>6, <1>8 DEF ShipmentInv

LEMMA ShipmentNext == ShipmentInv /\ [Next]_vars => ShipmentInv'
<1> SUFFICES ASSUME ShipmentInv, [Next]_vars
             PROVE  ShipmentInv'
  OBVIOUS
<1>1. ASSUME NEW r \in Requests, EditOrder(r) \/ KeepCosts(r) \/ KeepReplacement(r)
      PROVE  ShipmentInv'
  <2>1. ReqShape
    BY DEF ShipmentInv
  <2> QED
    BY <1>1, <2>1, OrdersAside, CostsAside, ReplacementsAside, AsideKeeps
<1>2. ASSUME NEW r \in Requests, MoveShipment(r)
      PROVE  ShipmentInv'
  BY <1>2, BeginCreateKeeps, InsertKeeps, BeginStatusKeeps, WriteStatusKeeps,
     UpsertKeeps, NoteShipmentKeeps DEF MoveShipment
<1>3. ASSUME NEW r \in Requests, Fail(r)
      PROVE  ShipmentInv'
  BY <1>3, FailKeeps
<1>4. CASE UNCHANGED vars
  <2>1. ReqShape' /\ ShipmentsTyped'
    BY <1>4 DEF vars, ShipmentInv, ReqShape, ShipmentsTyped
  <2>2. RequirementsMet'
    BY <1>4 DEF vars, ShipmentInv, RequirementsMet, MeetsRequirements
  <2>3. BoughtPartHasSheet'
    BY ZenonT(60), <1>4 DEF vars, ShipmentInv, BoughtPartHasSheet, HasSheet, IsBought
  <2>4. ASSUME NEW r \in Requests
        PROVE  InsertChecked(r)' /\ WriteChecked(r)'
    <3>1. InsertChecked(r) /\ WriteChecked(r)
      BY DEF ShipmentInv
    <3>2. InsertChecked(r)'
      BY <1>4, <3>1 DEF vars, InsertChecked, At
    <3>3. WriteChecked(r)'
      BY <1>4, <3>1 DEF vars, WriteChecked, At, HasSheet, MeetsRequirements, Later
    <3> QED
      BY <3>2, <3>3
  <2> QED
    BY <2>1, <2>2, <2>3, <2>4 DEF ShipmentInv
<1> QED
  BY <1>1, <1>2, <1>3, <1>4 DEF Next

LEMMA ShipmentInvariant == Spec => []ShipmentInv
  BY ShipmentStart, ShipmentNext, PTL DEF Spec

\* A shipment carries what its status requires, however many requests of
\* ShipmentsService.updateStatus check the row of one and write another.
THEOREM RequirementsAlwaysMet == Spec => []RequirementsMet
<1>1. ShipmentInv => RequirementsMet
  BY DEF ShipmentInv
<1> QED
  BY <1>1, ShipmentInvariant, PTL

\* No overlap of ShipmentsService.create and updateStatus with each other or
\* with CostsService leaves a bought part without a cost sheet; only a call
\* cut between its two writes does.
THEOREM BoughtPartsHaveSheets == Spec => []BoughtPartHasSheet
<1>1. ShipmentInv => BoughtPartHasSheet
  BY DEF ShipmentInv
<1> QED
  BY <1>1, ShipmentInvariant, PTL

-----------------------------------------------------------------------------
(* The other services leave the order alone.                                *)

OrderAside(r) ==
    /\ ReqShape'
    /\ \A q \in Requests \ {r} : Stays(q)
    /\ order' = order
    /\ req'[r].kind # "order"

LEMMA ArrivalOrderAside ==
    ASSUME ReqShape, NEW r \in Requests, NEW kind, NEW step, NEW in, NEW seen,
           Arrive(r, Slot(kind, step, in, seen)), kind # "order", order' = order
    PROVE  OrderAside(r)
  BY ArriveStep DEF OrderAside

LEMMA ShipmentsOrderAside ==
    ASSUME ReqShape, NEW r \in Requests, MoveShipment(r)
    PROVE  OrderAside(r)
  <1>1. CASE BeginCreateShipment(r)
    BY <1>1, ArrivalOrderAside, Zenon DEF BeginCreateShipment
  <1>2. CASE InsertShipment(r)
    BY <1>2, ReadStep DEF InsertShipment, OrderAside, SameCall, At
  <1>3. CASE BeginUpdateStatus(r)
    BY <1>3, ArrivalOrderAside, Zenon DEF BeginUpdateStatus
  <1>4. CASE WriteStatus(r)
    BY <1>4, ReadStep DEF WriteStatus, OrderAside, SameCall, At
  <1>5. CASE UpsertCost(r)
    BY <1>5, GotoStep DEF UpsertCost, OrderAside, SameCall
  <1>6. CASE NoteShipment(r)
    BY <1>6, GotoStep DEF NoteShipment, OrderAside, SameCall
  <1> QED
    BY <1>1, <1>2, <1>3, <1>4, <1>5, <1>6 DEF MoveShipment

LEMMA CostsOrderAside ==
    ASSUME ReqShape, NEW r \in Requests, KeepCosts(r)
    PROVE  OrderAside(r)
  <1>1. CASE BeginCreateCost(r)
    BY <1>1, ArrivalOrderAside, Zenon DEF BeginCreateCost
  <1>2. CASE ensureShipmentCostDoesNotExist(r)
    BY <1>2, GotoStep DEF ensureShipmentCostDoesNotExist, OrderAside, SameCall, At
  <1>3. CASE InsertCost(r)
    BY <1>3, GotoStep DEF InsertCost, OrderAside, SameCall, At
  <1>4. CASE BeginUpdateCost(r)
    BY <1>4, ArrivalOrderAside, Zenon DEF BeginUpdateCost
  <1>5. CASE ReadAmounts(r)
    BY <1>5, ReadStep, GotoStep DEF ReadAmounts, OrderAside, SameCall, At
  <1>6. CASE UpdateCost(r)
    BY <1>6, GotoStep DEF UpdateCost, OrderAside, SameCall, At
  <1>7. CASE RecordCostHistory(r)
    BY <1>7, GotoStep DEF RecordCostHistory, OrderAside, SameCall, At
  <1>8. CASE BeginCreateExtra(r)
    BY <1>8, ArrivalOrderAside, Zenon DEF BeginCreateExtra
  <1>9. CASE InsertExtra(r)
    BY <1>9, GotoStep DEF InsertExtra, OrderAside, SameCall, At
  <1>10. CASE BeginUpdateExtra(r)
    BY <1>10, ArrivalOrderAside, Zenon DEF BeginUpdateExtra
  <1>11. CASE UpdateExtra(r)
    BY <1>11, GotoStep DEF UpdateExtra, OrderAside, SameCall, At
  <1>12. CASE RecordExtraHistory(r)
    BY <1>12, GotoStep DEF RecordExtraHistory, OrderAside, SameCall, At
  <1>13. CASE ReadForTotals(r)
    BY <1>13, ReadStep, GotoStep DEF ReadForTotals, OrderAside, SameCall
  <1>14. CASE WriteTotals(r)
    BY <1>14, GotoStep DEF WriteTotals, OrderAside, SameCall
  <1> QED
    BY <1>1, <1>2, <1>3, <1>4, <1>5, <1>6, <1>7, <1>8, <1>9, <1>10, <1>11, <1>12, <1>13, <1>14 DEF KeepCosts

LEMMA ReplacementsOrderAside ==
    ASSUME ReqShape, NEW r \in Requests, KeepReplacement(r)
    PROVE  OrderAside(r)
  <1>1. CASE BeginCreateReplacement(r)
    BY <1>1, ArrivalOrderAside, Zenon DEF BeginCreateReplacement
  <1>2. CASE InsertReplacement(r)
    BY <1>2, GotoStep DEF InsertReplacement, OrderAside, SameCall, At
  <1>3. CASE BeginUpdateReplacement(r)
    BY <1>3, ArrivalOrderAside, Zenon DEF BeginUpdateReplacement
  <1>4. CASE WriteReplacement(r)
    BY <1>4, GotoStep DEF WriteReplacement, OrderAside, SameCall, At
  <1>5. CASE NoteReplacement(r)
    BY <1>5, GotoStep DEF NoteReplacement, OrderAside, SameCall
  <1> QED
    BY <1>1, <1>2, <1>3, <1>4, <1>5 DEF KeepReplacement

-----------------------------------------------------------------------------
(* The order: the inductive invariant.                                      *)

\* Columns and fields an edit may give: both fields of a refund or none.
ColumnsTyped(columns) ==
    /\ DOMAIN columns \subseteq {"status", "paymentMethod", "totalSaleAmount"}
    /\ "status" \in DOMAIN columns => columns.status \in OrderStatus
    /\ "paymentMethod" \in DOMAIN columns => columns.paymentMethod \in PaymentMethod
    /\ "totalSaleAmount" \in DOMAIN columns => columns.totalSaleAmount \in Nat

FieldsAgree(fields) ==
    /\ DOMAIN fields \subseteq {"vehicleVin", "partialPayment", "cancelledAt",
                                "refundType", "refundDeductionAmount"}
    /\ "vehicleVin" \in DOMAIN fields => fields.vehicleVin \in Nat
    /\ "partialPayment" \in DOMAIN fields => fields.partialPayment \in Nat
    /\ "cancelledAt" \in DOMAIN fields => fields.cancelledAt \in BOOLEAN
    /\ "refundType" \in DOMAIN fields <=> "refundDeductionAmount" \in DOMAIN fields
    /\ "refundType" \in DOMAIN fields =>
          /\ fields.refundType \in {"NONE", "FULL", "PARTIAL"}
          /\ fields.refundDeductionAmount \in Amount
          /\ RefundAgrees(fields)

EditChecked(r) ==
    req[r].kind = "order" =>
        /\ ColumnsTyped(req[r].in.columns) /\ FieldsAgree(req[r].in.intake)
        /\ req[r].step = "write" /\ DOMAIN req[r].in.intake # {} =>
              req[r].seen \in Intake /\ RefundAgrees(req[r].seen)

OrderInv ==
    /\ ReqShape /\ order \in Order /\ RefundDetailsAgree
    /\ \A r \in Requests : EditChecked(r)

LEMMA MergedIntake ==
    ASSUME NEW old \in Intake, RefundAgrees(old), NEW fields, FieldsAgree(fields)
    PROVE  Merge(old, fields) \in Intake /\ RefundAgrees(Merge(old, fields))
<1> DEFINE new == Merge(old, fields)
<1>1. /\ DOMAIN old = {"vehicleVin", "partialPayment", "cancelledAt",
                        "refundType", "refundDeductionAmount"}
      /\ old.vehicleVin \in Nat /\ old.partialPayment \in Nat
      /\ old.cancelledAt \in BOOLEAN /\ old.refundType \in {"NONE", "FULL", "PARTIAL"}
      /\ old.refundDeductionAmount \in Amount
  BY DEF Intake
<1>2. /\ new.vehicleVin \in Nat /\ new.partialPayment \in Nat
      /\ new.cancelledAt \in BOOLEAN
  BY <1>1 DEF Merge, FieldsAgree
<1>3. /\ new.refundType \in {"NONE", "FULL", "PARTIAL"}
      /\ new.refundDeductionAmount \in Amount
      /\ RefundAgrees(new)
  <2>1. CASE "refundType" \in DOMAIN fields
    BY <2>1, <1>1 DEF Merge, FieldsAgree, RefundAgrees
  <2>2. CASE "refundType" \notin DOMAIN fields
    BY <2>2, <1>1 DEF Merge, FieldsAgree, RefundAgrees
  <2> QED
    BY <2>1, <2>2
<1>4. new = [f \in {"vehicleVin", "partialPayment", "cancelledAt",
                    "refundType", "refundDeductionAmount"} |-> new[f]]
  BY <1>1 DEF Merge
<1> HIDE DEF new
<1>5. new \in Intake
  BY <1>2, <1>3, <1>4 DEF Intake
<1> QED
  BY <1>3, <1>5 DEF new

LEMMA MergedOrder ==
    ASSUME order \in Order, NEW columns, ColumnsTyped(columns), NEW i \in Intake
    PROVE  /\ [Merge(order, columns) EXCEPT !.intake = i] \in Order
           /\ [Merge(order, columns) EXCEPT !.intake = i].intake = i
<1> DEFINE merged == Merge(order, columns)
<1>1. /\ DOMAIN order = {"status", "paymentMethod", "totalSaleAmount", "intake"}
      /\ order.status \in OrderStatus /\ order.paymentMethod \in PaymentMethod
      /\ order.totalSaleAmount \in Nat /\ order.intake \in Intake
  BY DEF Order
<1>2. merged \in Order
  <2>1. /\ merged.status \in OrderStatus /\ merged.paymentMethod \in PaymentMethod
        /\ merged.totalSaleAmount \in Nat /\ merged.intake \in Intake
    BY <1>1 DEF Merge, ColumnsTyped
  <2>2. merged = [f \in {"status", "paymentMethod", "totalSaleAmount", "intake"} |->
                    merged[f]]
    BY <1>1 DEF Merge
  <2> HIDE DEF merged
  <2> QED
    BY <2>1, <2>2 DEF Order
<1> HIDE DEF merged
<1>3. [merged EXCEPT !.intake = i] \in Order /\ [merged EXCEPT !.intake = i].intake = i
  BY <1>2 DEF Order
<1> QED
  BY <1>3 DEF merged

LEMMA PaidAmount ==
    ASSUME order \in Order
    PROVE  getOriginalPaidAmount \in Nat
  BY DEF getOriginalPaidAmount, Order, Intake, Min

LEMMA RefundFieldsAgree ==
    ASSUME order \in Order, NEW type \in {"FULL", "PARTIAL"},
           NEW amount \in RefundAmounts,
           type = "PARTIAL" => amount <= getOriginalPaidAmount
    PROVE  FieldsAgree(RefundFields(type, amount))
<1> DEFINE fields == RefundFields(type, amount)
<1>1. amount \in Nat /\ getOriginalPaidAmount \in Nat
  BY PaidAmount, EditInputsAssumption
<1>2. /\ DOMAIN fields = {"refundType", "refundDeductionAmount"}
      /\ fields.refundType = type
      /\ fields.refundDeductionAmount =
            IF type = "FULL" THEN NoAmount ELSE getOriginalPaidAmount - amount
  BY DEF RefundFields
<1> HIDE DEF fields
<1>3. type = "PARTIAL" => getOriginalPaidAmount - amount \in Nat
  BY <1>1
<1>4. fields.refundDeductionAmount \in Amount /\ RefundAgrees(fields)
  BY <1>2, <1>3 DEF Amount, NoAmount, RefundAgrees
<1>5. FieldsAgree(fields)
  BY <1>2, <1>4 DEF FieldsAgree
<1> QED
  BY <1>5 DEF fields

LEMMA OrderStep ==
    ASSUME OrderInv, NEW r \in Requests, ReqShape',
           \A q \in Requests \ {r} : Stays(q),
           order' \in Order, RefundAgrees(order'.intake), EditChecked(r)'
    PROVE  OrderInv'
<1>1. ASSUME NEW q \in Requests \ {r}
      PROVE  EditChecked(q)'
  <2>1. EditChecked(q) /\ Stays(q)
    BY DEF OrderInv
  <2> QED
    BY <2>1 DEF EditChecked, Stays, SameCall, ColumnsTyped, FieldsAgree, RefundAgrees
<1>2. RefundDetailsAgree'
  BY DEF RefundDetailsAgree, RefundAgrees
<1> QED
  BY <1>1, <1>2 DEF OrderInv

LEMMA OrderAsideKeeps ==
    ASSUME OrderInv, NEW r \in Requests, OrderAside(r)
    PROVE  OrderInv'
<1>1. order' \in Order /\ RefundAgrees(order'.intake)
  BY DEF OrderInv, OrderAside, RefundDetailsAgree
<1>2. EditChecked(r)'
  BY DEF OrderAside, EditChecked
<1> QED
  BY <1>1, <1>2, OrderStep DEF OrderAside

\* An edit arrives with what it may give.
LEMMA EditArrives ==
    ASSUME OrderInv, NEW r \in Requests, NEW in, NEW step \in {"intake", "write", "note"},
           ColumnsTyped(in.columns), FieldsAgree(in.intake),
           step = "write" => DOMAIN in.intake = {},
           Arrive(r, Slot("order", step, in, Nothing)), order' = order
    PROVE  OrderInv'
<1>1. /\ ReqShape'
      /\ \A q \in Requests \ {r} : Stays(q)
      /\ req'[r].kind = "order" /\ req'[r].step = step
      /\ req'[r].in = in
  BY ArriveStep DEF OrderInv
<1>2. EditChecked(r)'
  BY <1>1 DEF EditChecked, ColumnsTyped, FieldsAgree, RefundAgrees
<1>3. order' \in Order /\ RefundAgrees(order'.intake)
  BY DEF OrderInv, RefundDetailsAgree
<1> QED
  BY <1>1, <1>2, <1>3, OrderStep

LEMMA OrderEditKeeps ==
    ASSUME OrderInv, NEW r \in Requests, EditOrder(r)
    PROVE  OrderInv'
<1>1. CASE BeginUpdate(r)
  <2>1. PICK in \in EditInputs :
           Arrive(r, Slot("order", IF Changes(in) THEN FirstStatement(in) ELSE "note",
                          in, Nothing))
    BY <1>1 DEF BeginUpdate
  <2> DEFINE step == IF Changes(in) THEN FirstStatement(in) ELSE "note"
  <2>2. step \in {"intake", "write", "note"} /\ (step = "write" => DOMAIN in.intake = {})
    BY DEF FirstStatement
  <2>3. ColumnsTyped(in.columns) /\ FieldsAgree(in.intake)
    BY EditInputsAssumption DEF ColumnsTyped, FieldsAgree
  <2>4. order' = order
    BY <1>1 DEF BeginUpdate
  <2> HIDE DEF step
  <2>5. Arrive(r, Slot("order", step, in, Nothing))
    BY <2>1 DEF step
  <2> QED
    BY <2>2, <2>3, <2>4, <2>5, EditArrives
<1>2. ASSUME NEW status \in {"CANCELLED", "REFUNDED"}, NEW fields, FieldsAgree(fields),
             Arrive(r, Slot("order", "intake", Resolution(status, fields), Nothing)),
             order' = order
      PROVE  OrderInv'
  <2> DEFINE in == Resolution(status, fields)
  <2>1. in.columns = [f \in {"status"} |-> status] /\ in.intake = fields
    BY DEF Resolution
  <2> HIDE DEF in
  <2>2. ColumnsTyped(in.columns) /\ FieldsAgree(in.intake)
    BY <2>1, <1>2 DEF ColumnsTyped, OrderStatus
  <2> QED
    BY <1>2, <2>2, EditArrives DEF in
<1>3. CASE BeginCancel(r)
  <2> DEFINE fields == [f \in {"cancelledAt"} |-> TRUE]
  <2>1. FieldsAgree(fields)
    BY DEF FieldsAgree
  <2> HIDE DEF fields
  <2>2. Arrive(r, Slot("order", "intake", Resolution("CANCELLED", fields), Nothing))
    BY <1>3 DEF BeginCancel, fields
  <2>3. order' = order
    BY <1>3 DEF BeginCancel
  <2> QED
    BY <1>2, <2>1, <2>2, <2>3
<1>4. CASE BeginRefund(r)
  <2>1. PICK type \in {"FULL", "PARTIAL"}, amount \in RefundAmounts :
           /\ type = "PARTIAL" => 0 < amount /\ amount <= getOriginalPaidAmount
           /\ Arrive(r, Slot("order", "intake",
                             Resolution("REFUNDED", RefundFields(type, amount)),
                             Nothing))
    BY <1>4 DEF BeginRefund
  <2>2. FieldsAgree(RefundFields(type, amount))
    BY <2>1, RefundFieldsAgree DEF OrderInv
  <2>3. order' = order
    BY <1>4 DEF BeginRefund
  <2> QED
    BY <1>2, <2>1, <2>2, <2>3
<1>5. CASE ReadIntake(r)
  <2>1. At(r, "order", "intake") /\ Read(r, "write", order.intake) /\ order' = order
    BY <1>5 DEF ReadIntake
  <2>2. /\ ReqShape'
        /\ \A q \in Requests \ {r} : Stays(q)
        /\ SameCall(r) /\ req'[r].step = "write" /\ req'[r].seen = order.intake
    BY <2>1, ReadStep DEF OrderInv
  <2>3. order.intake \in Intake /\ RefundAgrees(order.intake)
    BY DEF OrderInv, Order, RefundDetailsAgree
  <2>4. EditChecked(r)
    BY DEF OrderInv
  <2>5. EditChecked(r)'
    BY <2>1, <2>2, <2>3, <2>4
    DEF EditChecked, SameCall, At, ColumnsTyped, FieldsAgree, RefundAgrees
  <2>6. order' \in Order /\ RefundAgrees(order'.intake)
    BY <2>1, <2>3 DEF OrderInv
  <2> QED
    BY <2>2, <2>5, <2>6, OrderStep
<1>6. CASE WriteOrder(r)
  <2> DEFINE in == req[r].in
             i == IF DOMAIN in.intake = {} THEN order.intake
                  ELSE Merge(req[r].seen, in.intake)
  <2>1. /\ At(r, "order", "write") /\ Goto(r, "note")
        /\ order' = [Merge(order, in.columns) EXCEPT !.intake = i]
    BY <1>6 DEF WriteOrder
  <2>2. EditChecked(r)
    BY DEF OrderInv
  <2>3. ColumnsTyped(in.columns) /\ FieldsAgree(in.intake)
    BY <2>1, <2>2 DEF EditChecked, At
  <2>4. DOMAIN in.intake # {} => req[r].seen \in Intake /\ RefundAgrees(req[r].seen)
    BY <2>1, <2>2 DEF EditChecked, At
  <2>5. order.intake \in Intake /\ RefundAgrees(order.intake)
    BY DEF OrderInv, Order, RefundDetailsAgree
  <2>6. i \in Intake /\ RefundAgrees(i)
    BY <2>3, <2>4, <2>5, MergedIntake
  <2> HIDE DEF i
  <2>7. order' \in Order /\ order'.intake = i
    BY <2>1, <2>3, <2>6, MergedOrder DEF OrderInv
  <2>8. /\ ReqShape'
        /\ \A q \in Requests \ {r} : Stays(q)
        /\ SameCall(r) /\ req'[r].step = "note"
    BY <2>1, GotoStep DEF OrderInv
  <2>9. EditChecked(r)'
    BY <2>1, <2>2, <2>8
    DEF EditChecked, SameCall, At, ColumnsTyped, FieldsAgree, RefundAgrees
  <2> QED
    BY <2>6, <2>7, <2>8, <2>9, OrderStep
<1>7. CASE NoteOrder(r)
  <2>1. /\ ReqShape'
        /\ \A q \in Requests \ {r} : Stays(q)
        /\ SameCall(r) /\ req'[r].step = "done" /\ order' = order
    BY <1>7, GotoStep DEF NoteOrder, OrderInv
  <2>2. EditChecked(r)
    BY DEF OrderInv
  <2>3. EditChecked(r)'
    BY <2>1, <2>2 DEF EditChecked, SameCall, ColumnsTyped, FieldsAgree, RefundAgrees
  <2>4. order' \in Order /\ RefundAgrees(order'.intake)
    BY <2>1 DEF OrderInv, RefundDetailsAgree
  <2> QED
    BY <2>1, <2>3, <2>4, OrderStep
<1> QED
  BY <1>1, <1>3, <1>4, <1>5, <1>6, <1>7 DEF EditOrder

LEMMA OrderStart == Init => OrderInv
<1> SUFFICES ASSUME Init
             PROVE  OrderInv
  OBVIOUS
<1>1. order \in Order /\ RefundDetailsAgree
  BY InitialAssumption DEF Init, RefundDetailsAgree
<1>2. req = [r \in Requests |-> Slot("none", "idle", Nothing, Nothing)]
  BY DEF Init
<1>3. ReqShape /\ \A r \in Requests : EditChecked(r)
  BY <1>2 DEF ReqShape, Slot, EditChecked
<1> QED
  BY <1>1, <1>3 DEF OrderInv

LEMMA OrderNext == OrderInv /\ [Next]_vars => OrderInv'
<1> SUFFICES ASSUME OrderInv, [Next]_vars
             PROVE  OrderInv'
  OBVIOUS
<1>1. ASSUME NEW r \in Requests, EditOrder(r)
      PROVE  OrderInv'
  BY <1>1, OrderEditKeeps
<1>2. ASSUME NEW r \in Requests, MoveShipment(r) \/ KeepCosts(r) \/ KeepReplacement(r)
      PROVE  OrderInv'
  <2>1. ReqShape
    BY DEF OrderInv
  <2> QED
    BY <1>2, <2>1, ShipmentsOrderAside, CostsOrderAside, ReplacementsOrderAside,
       OrderAsideKeeps
<1>3. ASSUME NEW r \in Requests, Fail(r)
      PROVE  OrderInv'
  <2>1. /\ ReqShape'
        /\ \A q \in Requests \ {r} : Stays(q)
        /\ SameCall(r) /\ req'[r].step = "cut" /\ order' = order
    BY <1>3, FailStep DEF OrderInv
  <2>2. EditChecked(r)
    BY DEF OrderInv
  <2>3. EditChecked(r)'
    BY <2>1, <2>2 DEF EditChecked, SameCall, ColumnsTyped, FieldsAgree, RefundAgrees
  <2>4. order' \in Order /\ RefundAgrees(order'.intake)
    BY <2>1 DEF OrderInv, RefundDetailsAgree
  <2> QED
    BY <2>1, <2>3, <2>4, OrderStep
<1>4. CASE UNCHANGED vars
  <2>1. ReqShape' /\ order' \in Order /\ RefundDetailsAgree'
    BY <1>4 DEF vars, OrderInv, ReqShape, RefundDetailsAgree, RefundAgrees
  <2>2. ASSUME NEW r \in Requests
        PROVE  EditChecked(r)'
    BY <1>4 DEF vars, OrderInv, EditChecked, ColumnsTyped, FieldsAgree, RefundAgrees
  <2> QED
    BY <2>1, <2>2 DEF OrderInv
<1> QED
  BY <1>1, <1>2, <1>3, <1>4 DEF Next

\* Whatever OrdersRepository.update merges, in whatever order two edits read
\* and write the JSON column, a retained amount belongs to a partial refund.
THEOREM RefundDetailsAlwaysAgree == Spec => []RefundDetailsAgree
<1>1. Spec => []OrderInv
  BY OrderStart, OrderNext, PTL DEF Spec
<1>2. OrderInv => RefundDetailsAgree
  BY DEF OrderInv
<1> QED
  BY <1>1, <1>2, PTL

-----------------------------------------------------------------------------
(* The sum of additional costs.  Induction is on the least counterexample.  *)

LEMMA Least ==
    ASSUME NEW T, T \subseteq Nat, T # {}
    PROVE  \E m \in T : \A k \in Nat : k < m => k \notin T
<1>1. PICK m \in T : \A k \in T : <<k, m>> \notin OpToRel(<, Nat)
  BY NatLessThanWellFounded, WFMin, Zenon
<1> QED
  BY <1>1 DEF OpToRel

Pick(S) == CHOOSE i \in S : TRUE

\* g is the sum of each set of entries.
Sums(g, amounts) ==
    g = [s \in SUBSET DOMAIN amounts |->
           IF s = {} THEN 0 ELSE amounts[Pick(s)] + g[s \ {Pick(s)}]]

LEMMA SumOfSums ==
    ASSUME NEW amounts
    PROVE  SumOf(amounts) = (CHOOSE g : Sums(g, amounts))[DOMAIN amounts]
  BY DEF SumOf, MapThenFoldSet, Sums, Pick

\* The subsets of at most k elements.
Upto(k, S) == {s \in SUBSET S : Cardinality(s) <= k}

SumsUpto(g, k, amounts) ==
    g = [s \in Upto(k, DOMAIN amounts) |->
           IF s = {} THEN 0 ELSE amounts[Pick(s)] + g[s \ {Pick(s)}]]

LEMMA Smaller ==
    ASSUME NEW S, IsFiniteSet(S), NEW s \in SUBSET S, s # {}
    PROVE  /\ Pick(s) \in s
           /\ s \ {Pick(s)} \in SUBSET S
           /\ Cardinality(s) \in Nat \ {0}
           /\ Cardinality(s \ {Pick(s)}) = Cardinality(s) - 1
<1>1. Pick(s) \in s
  BY DEF Pick
<1>2. IsFiniteSet(s)
  BY FS_Subset
<1>3. Cardinality(s) \in Nat \ {0}
  BY <1>2, FS_CardinalityType, FS_EmptySet
<1> QED
  BY <1>1, <1>2, <1>3, FS_RemoveElement

LEMMA SumsExist ==
    ASSUME NEW amounts, IsFiniteSet(DOMAIN amounts)
    PROVE  \E g : Sums(g, amounts)
<1> DEFINE S == DOMAIN amounts
           Bad == {k \in Nat : ~\E g : SumsUpto(g, k, amounts)}
<1>1. Bad = {}
  <2> SUFFICES ASSUME Bad # {} PROVE FALSE
    OBVIOUS
  <2>1. PICK m \in Bad : \A k \in Nat : k < m => k \notin Bad
    BY Least, Zenon
  <2>2. m \in Nat
    OBVIOUS
  <2>3. \A g : ~SumsUpto(g, m, amounts)
    OBVIOUS
  <2>4. PICK g : m # 0 => SumsUpto(g, m - 1, amounts)
    <3>1. CASE m = 0
      BY <3>1
    <3>2. CASE m # 0
      <4>1. m - 1 \in Nat /\ m - 1 < m
        BY <2>2, <3>2
      <4>2. m - 1 \notin Bad
        BY <2>1, <4>1
      <4> QED
        BY <4>1, <4>2
    <3> QED
      BY <3>1, <3>2
  <2> HIDE DEF Bad
  <2> DEFINE h == [s \in Upto(m, S) |->
                     IF s = {} THEN 0 ELSE amounts[Pick(s)] + g[s \ {Pick(s)}]]
  <2>5. ASSUME NEW s \in Upto(m, S), s # {}
        PROVE  h[s \ {Pick(s)}] = g[s \ {Pick(s)}]
    <3> DEFINE t == s \ {Pick(s)}
    <3>1. /\ t \in SUBSET S /\ Cardinality(s) \in Nat \ {0}
          /\ Cardinality(t) = Cardinality(s) - 1 /\ Cardinality(s) <= m
      BY <2>5, Smaller DEF Upto
    <3>2. t \in Upto(m, S) /\ t \in Upto(m - 1, S) /\ m # 0
      BY <3>1, <2>2 DEF Upto
    <3>3. SumsUpto(g, m - 1, amounts)
      BY <2>4, <3>2
    <3> HIDE DEF t
    <3>4. h[t] = IF t = {} THEN 0 ELSE amounts[Pick(t)] + g[t \ {Pick(t)}]
      BY <3>2
    <3>5. g[t] = IF t = {} THEN 0 ELSE amounts[Pick(t)] + g[t \ {Pick(t)}]
      BY <3>2, <3>3 DEF SumsUpto
    <3>6. h[t] = g[t]
      BY <3>4, <3>5
    <3> QED
      BY <3>6 DEF t
  <2>6. h = [s \in Upto(m, S) |->
               IF s = {} THEN 0 ELSE amounts[Pick(s)] + h[s \ {Pick(s)}]]
    <3> DEFINE h2 == [s \in Upto(m, S) |->
               IF s = {} THEN 0 ELSE amounts[Pick(s)] + h[s \ {Pick(s)}]]
    <3>1. \A s \in Upto(m, S) : h[s] = h2[s]
      BY <2>5
    <3> QED
      BY <3>1
  <2> HIDE DEF h
  <2>7. SumsUpto(h, m, amounts)
    BY <2>6 DEF SumsUpto
  <2> QED
    BY <2>3, <2>7
<1>2. Cardinality(S) \in Nat
  BY FS_CardinalityType
<1>3. PICK g : SumsUpto(g, Cardinality(S), amounts)
  BY <1>1, <1>2
<1>4. Upto(Cardinality(S), S) = SUBSET S
  BY FS_Subset DEF Upto
<1> QED
  BY <1>3, <1>4 DEF Sums, SumsUpto

LEMMA SumIsNatural ==
    ASSUME NEW amounts \in Seq(Nat)
    PROVE  SumOf(amounts) \in Nat
<1> DEFINE S == DOMAIN amounts
           g == CHOOSE f : Sums(f, amounts)
           Bad == {k \in Nat : \E s \in SUBSET S : Cardinality(s) = k /\ g[s] \notin Nat}
<1>1. IsFiniteSet(S) /\ \A i \in S : amounts[i] \in Nat
  <2>1. S = 1 .. Len(amounts) /\ Len(amounts) \in Nat
    OBVIOUS
  <2>2. 1 \in Int /\ Len(amounts) \in Int
    BY <2>1
  <2>3. IsFiniteSet(1 .. Len(amounts))
    BY <2>2, FS_Interval
  <2> QED
    BY <2>1, <2>3
<1>2. Sums(g, amounts)
  BY <1>1, SumsExist
<1> HIDE DEF g
<1>3. \A s \in SUBSET S :
         g[s] = IF s = {} THEN 0 ELSE amounts[Pick(s)] + g[s \ {Pick(s)}]
  BY <1>2 DEF Sums
<1>4. Bad = {}
  <2> SUFFICES ASSUME Bad # {} PROVE FALSE
    OBVIOUS
  <2>1. PICK m \in Bad : \A k \in Nat : k < m => k \notin Bad
    BY Least, Zenon
  <2>2. PICK s \in SUBSET S : Cardinality(s) = m /\ g[s] \notin Nat
    OBVIOUS
  <2>3. s # {}
    <3>1. s = {} => g[s] = 0
      BY <1>3
    <3>2. g[s] # 0
      BY <2>2
    <3> QED
      BY <3>1, <3>2
  <2> DEFINE t == s \ {Pick(s)}
  <2>4. /\ Pick(s) \in s /\ t \in SUBSET S
        /\ m \in Nat \ {0} /\ Cardinality(t) = m - 1
    BY <1>1, <2>2, <2>3, Smaller
  <2>5. g[s] = amounts[Pick(s)] + g[t]
    BY <1>3, <2>3
  <2> HIDE DEF t
  <2>6. g[t] \in Nat
    <3>1. m - 1 \in Nat /\ m - 1 < m
      BY <2>4
    <3>2. m - 1 \notin Bad
      BY <2>1, <3>1
    <3> QED
      BY <2>4, <3>1, <3>2
  <2>7. amounts[Pick(s)] \in Nat
    BY <1>1, <2>4
  <2> QED
    BY <2>2, <2>5, <2>6, <2>7
<1>5. S \in SUBSET S /\ Cardinality(S) \in Nat
  BY <1>1, FS_CardinalityType
<1>6. g[S] \in Nat
  BY <1>4, <1>5
<1> QED
  BY <1>6, SumOfSums DEF g

-----------------------------------------------------------------------------
(* Amounts                                                                  *)

SheetFields == CostAmounts \union {"notes", "hasActual", "grossProfit"}

LEMMA SheetType ==
    ASSUME NEW sheet
    PROVE  sheet \in Sheet <=>
             /\ sheet = [f \in SheetFields |-> sheet[f]]
             /\ sheet.purchaseAmount \in Nat /\ sheet.shippingAmount \in Nat
             /\ sheet.estimatedPurchaseAmount \in Nat
             /\ sheet.estimatedShippingAmount \in Nat
             /\ sheet.additionalAmount \in Nat /\ sheet.notes \in BOOLEAN
             /\ sheet.hasActual \in SUBSET {"purchaseAmount", "shippingAmount"}
             /\ sheet.grossProfit \in Int
  BY DEF Sheet, SheetFields, CostAmounts

LEMMA NoSheetTyped == NoSheet \in Sheet
  BY DEF NoSheet, Sheet, NoAmount

LEMMA EffectiveTyped ==
    ASSUME NEW sheet \in Sheet
    PROVE  Effective(sheet) \in Nat
  BY DEF Effective, Sheet

LEMMA MergedSheet ==
    ASSUME NEW sheet \in Sheet, NEW in, IsCostInput(in)
    PROVE  /\ Merge(sheet, in) \in Sheet
           /\ Merge(sheet, in).hasActual = sheet.hasActual
           /\ \A f \in SheetFields :
                 Merge(sheet, in)[f] = IF f \in DOMAIN in THEN in[f] ELSE sheet[f]
<1> DEFINE new == Merge(sheet, in)
<1>1. DOMAIN sheet = SheetFields
  BY DEF Sheet, SheetFields, CostAmounts
<1>2. new = [f \in SheetFields |-> IF f \in DOMAIN in THEN in[f] ELSE sheet[f]]
  BY <1>1 DEF Merge
<1>3. new = [f \in SheetFields |-> new[f]]
  BY <1>2
<1> HIDE DEF new
<1>4. \A f \in SheetFields : new[f] = IF f \in DOMAIN in THEN in[f] ELSE sheet[f]
  BY <1>2
<1>5. /\ "purchaseAmount" \in SheetFields /\ "shippingAmount" \in SheetFields
      /\ "estimatedPurchaseAmount" \in SheetFields
      /\ "estimatedShippingAmount" \in SheetFields
      /\ "additionalAmount" \in SheetFields /\ "notes" \in SheetFields
      /\ "hasActual" \in SheetFields /\ "grossProfit" \in SheetFields
  BY DEF SheetFields, CostAmounts
<1>6. \A f \in CostAmounts : sheet[f] \in Nat
  BY DEF CostAmounts, Sheet
<1>7. \A f \in CostAmounts : new[f] \in Nat
  BY <1>4, <1>6 DEF IsCostInput, SheetFields
<1>8. new.notes \in BOOLEAN
  BY <1>4, <1>5 DEF IsCostInput, Sheet
<1>9. new.hasActual = sheet.hasActual /\ new.grossProfit = sheet.grossProfit
  BY <1>4, <1>5 DEF IsCostInput, CostAmounts
<1>10. sheet.hasActual \in SUBSET {"purchaseAmount", "shippingAmount"}
       /\ sheet.grossProfit \in Int
  BY DEF Sheet
<1>11. new \in Sheet
  BY <1>3, <1>7, <1>8, <1>9, <1>10, SheetType DEF CostAmounts
<1> QED
  BY <1>4, <1>9, <1>11 DEF new

LEMMA ResolvedSheet ==
    ASSUME NEW sheet \in Sheet, NEW in, IsCostInput(in)
    PROVE  /\ resolveCostAmounts(in, sheet) \in Sheet
           /\ resolveCostAmounts(in, sheet).hasActual =
                 sheet.hasActual \union (DOMAIN in \intersect {"purchaseAmount", "shippingAmount"})
           /\ \A f \in SheetFields \ {"hasActual"} :
                 resolveCostAmounts(in, sheet)[f] =
                    IF f \in DOMAIN in THEN in[f] ELSE sheet[f]
<1> DEFINE merged == Merge(sheet, in)
           actual == sheet.hasActual \union (DOMAIN in \intersect {"purchaseAmount", "shippingAmount"})
<1>1. /\ merged \in Sheet /\ merged.hasActual = sheet.hasActual
      /\ \A f \in SheetFields :
            merged[f] = IF f \in DOMAIN in THEN in[f] ELSE sheet[f]
  BY MergedSheet, Zenon
<1> HIDE DEF merged
<1>2. resolveCostAmounts(in, sheet) = [merged EXCEPT !.hasActual = actual]
  BY <1>1 DEF resolveCostAmounts, merged
<1>3. actual \in SUBSET {"purchaseAmount", "shippingAmount"}
  BY DEF Sheet
<1> HIDE DEF actual
<1>4. /\ [merged EXCEPT !.hasActual = actual] \in Sheet
      /\ [merged EXCEPT !.hasActual = actual].hasActual = actual
      /\ \A f \in SheetFields \ {"hasActual"} :
            [merged EXCEPT !.hasActual = actual][f] = merged[f]
  BY <1>1, <1>3 DEF Sheet, SheetFields, CostAmounts
<1> QED
  BY <1>1, <1>2, <1>4 DEF actual

\* Whatever is stored for the gross profit and the notes.
LEMMA ProfitStored ==
    ASSUME NEW sheet \in Sheet, NEW profit \in Int, NEW notes \in BOOLEAN
    PROVE  LET new == [sheet EXCEPT !.grossProfit = profit, !.notes = notes]
           IN  /\ new \in Sheet /\ Effective(new) = Effective(sheet)
               /\ new.grossProfit = profit /\ new.notes = notes
               /\ new.hasActual = sheet.hasActual
               /\ \A f \in CostAmounts : new[f] = sheet[f]
  BY DEF Sheet, Effective, CostAmounts

LEMMA ProfitOnlyStored ==
    ASSUME NEW sheet \in Sheet, NEW profit \in Int
    PROVE  LET new == [sheet EXCEPT !.grossProfit = profit]
           IN  /\ new \in Sheet /\ Effective(new) = Effective(sheet)
               /\ new.grossProfit = profit /\ new.notes = sheet.notes
               /\ new.hasActual = sheet.hasActual
               /\ \A f \in CostAmounts : new[f] = sheet[f]
  BY DEF Sheet, Effective, CostAmounts

LEMMA UpsertedSheet ==
    ASSUME NEW sheet \in Sheet, NEW in, IsCostInput(in)
    PROVE  /\ upserted(in, sheet) \in Sheet
           /\ sheet.hasActual \subseteq upserted(in, sheet).hasActual
           /\ \A f \in CostAmounts \ DOMAIN in : upserted(in, sheet)[f] = sheet[f]
<1> DEFINE next == resolveCostAmounts(in, sheet)
           amount == IF next.purchaseAmount = 0 THEN sheet.purchaseAmount
                     ELSE next.purchaseAmount
<1>1. /\ next \in Sheet /\ sheet.hasActual \subseteq next.hasActual
      /\ \A f \in SheetFields \ {"hasActual"} :
            next[f] = IF f \in DOMAIN in THEN in[f] ELSE sheet[f]
  BY ResolvedSheet
<1> HIDE DEF next
<1>2. upserted(in, sheet) = [next EXCEPT !.purchaseAmount = amount]
  BY <1>1 DEF upserted, next, Sheet
<1>3. amount \in Nat
  BY <1>1 DEF Sheet
<1>4. "purchaseAmount" \notin DOMAIN in => amount = sheet.purchaseAmount
  BY <1>1 DEF SheetFields, CostAmounts
<1> HIDE DEF amount
<1>5. /\ [next EXCEPT !.purchaseAmount = amount] \in Sheet
      /\ [next EXCEPT !.purchaseAmount = amount].hasActual = next.hasActual
      /\ [next EXCEPT !.purchaseAmount = amount].purchaseAmount = amount
      /\ \A f \in CostAmounts \ {"purchaseAmount"} :
            [next EXCEPT !.purchaseAmount = amount][f] = next[f]
  BY <1>1, <1>3 DEF Sheet, CostAmounts
<1>6. \A f \in CostAmounts \ DOMAIN in :
         [next EXCEPT !.purchaseAmount = amount][f] = sheet[f]
  BY <1>1, <1>4, <1>5 DEF SheetFields, CostAmounts
<1> QED
  BY <1>1, <1>2, <1>5, <1>6

LEMMA BasisTyped ==
    ASSUME order \in Order
    PROVE  /\ order.totalSaleAmount \in Nat
           /\ resolveGpSaleBasis \in Int
<1>1. order.totalSaleAmount \in Nat
  BY DEF Order
<1>2. (order.totalSaleAmount * 2) \div 100 \in Int
  BY <1>1
<1> QED
  BY <1>1, <1>2 DEF resolveGpSaleBasis

-----------------------------------------------------------------------------
(* Types: the inductive invariant, with what each request carries.          *)

CostKinds == {"create cost", "update cost"}

ExtraKinds == {"add extra", "update extra"}

ReplacementKinds == {"create replacement", "update replacement"}

MovingTyped(r) ==
    req[r].kind \in Moving =>
        /\ req[r].in \in StatusInputs
        /\ req[r].step \in {"write", "cost"} =>
              /\ req[r].seen.id \in DOMAIN shipments
              /\ req[r].seen.sheet \in Sheet
              /\ req[r].seen.basis \in Int

CostTyped(r) ==
    req[r].kind \in CostKinds =>
        /\ req[r].in.id \in DOMAIN shipments
        /\ IsCostInput(req[r].in.costs)
        /\ req[r].step \in {"exists", "insert", "amounts", "write"} =>
              req[r].seen.basis \in Nat
        /\ req[r].step = "write" =>
              /\ req[r].in.id \in DOMAIN sheets
              /\ req[r].seen.sheet \in Sheet

ExtraTyped(r) ==
    req[r].kind \in ExtraKinds =>
        /\ req[r].in.id \in DOMAIN shipments
        /\ req[r].in.amount \in Nat
        /\ req[r].step = "write" => req[r].in.extra \in DOMAIN extras[req[r].in.id]
        /\ req[r].step \in {"sum", "read", "total"} => req[r].seen.basis \in Nat
        /\ req[r].step \in {"read", "total"} => req[r].seen.sum \in Nat
        /\ req[r].step = "total" =>
              /\ req[r].in.id \in DOMAIN sheets
              /\ req[r].seen.sheet \in Sheet

CallTyped(r) ==
    /\ req[r].kind \in Kind /\ req[r].step \in Step
    /\ MovingTyped(r) /\ CostTyped(r) /\ ExtraTyped(r)
    /\ req[r].kind \in ReplacementKinds => req[r].in \in ReplacementInputs

SheetsTyped ==
    /\ DOMAIN sheets \subseteq DOMAIN shipments
    /\ \A s \in DOMAIN sheets : sheets[s] \in Sheet

RowsTyped ==
    /\ SheetsTyped
    /\ extras \in [ShipmentIds -> Seq(Nat)]
    /\ replacement \in Replacement
    /\ recorded \subseteq Requests
    /\ faults \in 0 .. MaxFaults

\* ShipmentInv and OrderInv type the shipments and the order.
TypeInv ==
    /\ ShipmentInv /\ OrderInv /\ RowsTyped
    /\ \A r \in Requests : CallTyped(r)

LEMMA IdsAreShipmentIds ==
    ASSUME ShipmentsTyped
    PROVE  DOMAIN shipments \subseteq ShipmentIds
<1>1. DOMAIN shipments = 1 .. Len(shipments) /\ Len(shipments) \in Nat
  BY DEF ShipmentsTyped
<1>2. Len(shipments) <= MaxShipments /\ MaxShipments \in Nat
  BY FulfilmentAssumption DEF ShipmentsTyped
<1> HIDE DEF ShipmentsTyped
<1> QED
  BY <1>1, <1>2 DEF ShipmentIds

\* Rows are never removed, so what other requests carry stays well typed.
Grows ==
    /\ DOMAIN shipments \subseteq DOMAIN shipments'
    /\ DOMAIN sheets \subseteq DOMAIN sheets'
    /\ \A s \in DOMAIN shipments : DOMAIN extras[s] \subseteq DOMAIN extras'[s]

LEMMA OthersTyped ==
    ASSUME NEW q \in Requests, CallTyped(q), Stays(q), Grows
    PROVE  CallTyped(q)'
<1>1. /\ req'[q].kind = req[q].kind /\ req'[q].step = req[q].step
      /\ req'[q].in = req[q].in /\ req'[q].seen = req[q].seen
  BY DEF Stays, SameCall
<1>2. MovingTyped(q)'
  BY <1>1 DEF CallTyped, MovingTyped, Grows
<1>3. CostTyped(q)'
  BY <1>1 DEF CallTyped, CostTyped, Grows, IsCostInput
<1>4. ExtraTyped(q)'
  BY <1>1 DEF CallTyped, ExtraTyped, Grows
<1> QED
  BY <1>1, <1>2, <1>3, <1>4 DEF CallTyped

LEMMA TypeStep ==
    ASSUME TypeInv, [Next]_vars, NEW r \in Requests, RowsTyped', Grows,
           \A q \in Requests \ {r} : Stays(q), CallTyped(r)'
    PROVE  TypeInv'
<1>1. \A q \in Requests \ {r} : CallTyped(q)'
  BY OthersTyped DEF TypeInv
<1>2. ShipmentInv' /\ OrderInv'
  BY ShipmentNext, OrderNext DEF TypeInv
<1> QED
  BY <1>1, <1>2 DEF TypeInv

\* Steps before which a request carries nothing more than its body.
Bare == {"idle", "intake", "history", "order", "note", "done", "rejected", "cut"}

LEMMA MovesOn ==
    ASSUME NEW r \in Requests, CallTyped(r), SameCall(r), Grows,
           req'[r].step \in Bare
    PROVE  CallTyped(r)'
<1>1. req'[r].step \in Step
  BY DEF Bare, Step
<1>2. MovingTyped(r)'
  BY DEF CallTyped, MovingTyped, Grows, SameCall, Bare
<1>3. CostTyped(r)'
  BY DEF CallTyped, CostTyped, Grows, SameCall, Bare, IsCostInput
<1>4. ExtraTyped(r)'
  BY DEF CallTyped, ExtraTyped, Grows, SameCall, Bare
<1> QED
  BY <1>1, <1>2, <1>3, <1>4 DEF CallTyped, SameCall

RowsKeptAsIs == UNCHANGED <<shipments, sheets, extras, replacement, recorded, faults>>

LEMMA SameRows ==
    ASSUME RowsTyped, RowsKeptAsIs
    PROVE  RowsTyped' /\ Grows
  BY DEF RowsTyped, SheetsTyped, RowsKeptAsIs, Grows

LEMMA TypeInvParts ==
    ASSUME TypeInv
    PROVE  /\ ReqShape /\ ShipmentsTyped /\ order \in Order /\ RowsTyped
           /\ \A r \in Requests : CallTyped(r)
  BY DEF TypeInv, ShipmentInv, OrderInv

\* Steps that change no row but the order, and leave the request bare.
LEMMA BareStepTyped ==
    ASSUME TypeInv, [Next]_vars, NEW r \in Requests, RowsKeptAsIs,
           NEW step \in Bare, Goto(r, step)
    PROVE  TypeInv'
<1>1. /\ \A q \in Requests \ {r} : Stays(q)
      /\ SameCall(r) /\ req'[r].step = step
  BY TypeInvParts, GotoStep
<1>2. RowsTyped' /\ Grows
  BY TypeInvParts, SameRows
<1>3. CallTyped(r)'
  BY <1>1, <1>2, TypeInvParts, MovesOn
<1> QED
  BY <1>1, <1>2, <1>3, TypeStep

LEMMA NotesTyped ==
    ASSUME TypeInv, [Next]_vars, NEW r \in Requests, NEW step \in Bare, Goto(r, step),
           UNCHANGED <<shipments, sheets, extras, replacement, faults>>,
           recorded' = recorded \union {r}
    PROVE  TypeInv'
<1>1. /\ \A q \in Requests \ {r} : Stays(q)
      /\ SameCall(r) /\ req'[r].step = step
  BY TypeInvParts, GotoStep
<1>2. RowsTyped' /\ Grows
  BY TypeInvParts DEF RowsTyped, SheetsTyped, Grows
<1>3. CallTyped(r)'
  BY <1>1, <1>2, TypeInvParts, MovesOn
<1> QED
  BY <1>1, <1>2, <1>3, TypeStep

\* An arrival that carries rows, or none.
LEMMA ArrivalTyped ==
    ASSUME TypeInv, [Next]_vars, NEW r \in Requests, NEW kind, NEW step, NEW in, NEW seen,
           Arrive(r, Slot(kind, step, in, seen)), RowsKeptAsIs,
           kind \in Kind, step \in Step,
           kind \in Moving =>
               /\ in \in StatusInputs
               /\ step \in {"write", "cost"} =>
                     /\ seen.id \in DOMAIN shipments
                     /\ seen.sheet \in Sheet /\ seen.basis \in Int,
           kind \in CostKinds =>
               /\ in.id \in DOMAIN shipments /\ IsCostInput(in.costs)
               /\ seen.basis \in Nat /\ step \in {"exists", "amounts"},
           kind \in ExtraKinds =>
               /\ in.id \in DOMAIN shipments /\ in.amount \in Nat
               /\ step \in {"insert", "write"}
               /\ step = "write" => in.extra \in DOMAIN extras[in.id],
           kind \in ReplacementKinds => in \in ReplacementInputs
    PROVE  TypeInv'
<1>1. /\ \A q \in Requests \ {r} : Stays(q)
      /\ req'[r].kind = kind /\ req'[r].step = step
      /\ req'[r].in = in /\ req'[r].seen = seen
  BY TypeInvParts, ArriveStep
<1>2. RowsTyped' /\ Grows
  BY TypeInvParts, SameRows
<1>3. shipments' = shipments /\ sheets' = sheets /\ extras' = extras
  BY DEF RowsKeptAsIs
<1>4. MovingTyped(r)'
  BY <1>1, <1>3 DEF MovingTyped
<1>5. CostTyped(r)'
  BY <1>1, <1>3 DEF CostTyped, IsCostInput
<1>6. ExtraTyped(r)'
  BY <1>1, <1>3 DEF ExtraTyped
<1>7. CallTyped(r)'
  BY <1>1, <1>4, <1>5, <1>6 DEF CallTyped
<1> QED
  BY <1>1, <1>2, <1>7, TypeStep

LEMMA KindsDiffer ==
    /\ Moving = {"create shipment", "shipment status"}
    /\ CostKinds = {"create cost", "update cost"}
    /\ ExtraKinds = {"add extra", "update extra"}
    /\ ReplacementKinds = {"create replacement", "update replacement"}
  BY DEF Moving, CostKinds, ExtraKinds, ReplacementKinds

LEMMA EditsTyped ==
    ASSUME TypeInv, [Next]_vars, NEW r \in Requests, EditOrder(r)
    PROVE  TypeInv'
<1>1. ASSUME NEW step \in {"intake", "write", "note"}, NEW in,
             Arrive(r, Slot("order", step, in, Nothing)), RowsKeptAsIs
      PROVE  TypeInv'
  <2>1. "order" \in Kind /\ step \in Step
    BY DEF Kind, Step
  <2>2. "order" \notin Moving /\ "order" \notin CostKinds /\ "order" \notin ExtraKinds
        /\ "order" \notin ReplacementKinds
    BY KindsDiffer
  <2> QED
    BY <1>1, <2>1, <2>2, ArrivalTyped
<1>2. CASE BeginUpdate(r)
  <2>1. PICK in \in EditInputs :
           Arrive(r, Slot("order", IF Changes(in) THEN FirstStatement(in) ELSE "note",
                          in, Nothing))
    BY <1>2 DEF BeginUpdate
  <2> DEFINE step == IF Changes(in) THEN FirstStatement(in) ELSE "note"
  <2>2. step \in {"intake", "write", "note"}
    BY DEF FirstStatement
  <2> HIDE DEF step
  <2>3. Arrive(r, Slot("order", step, in, Nothing))
    BY <2>1 DEF step
  <2>4. RowsKeptAsIs
    BY <1>2 DEF BeginUpdate, RowsKeptAsIs
  <2> QED
    BY <1>1, <2>2, <2>3, <2>4
<1>3. CASE BeginCancel(r)
  <2>1. RowsKeptAsIs
    BY <1>3 DEF BeginCancel, RowsKeptAsIs
  <2> QED
    BY <1>1, <1>3, <2>1, Zenon DEF BeginCancel
<1>4. CASE BeginRefund(r)
  <2>1. RowsKeptAsIs
    BY <1>4 DEF BeginRefund, RowsKeptAsIs
  <2> QED
    BY <1>1, <1>4, <2>1, Zenon DEF BeginRefund
<1>5. CASE ReadIntake(r)
  <2>1. RowsKeptAsIs
    BY <1>5 DEF ReadIntake, RowsKeptAsIs
  <2>2. /\ \A q \in Requests \ {r} : Stays(q)
        /\ SameCall(r) /\ req'[r].step = "write" /\ req[r].kind = "order"
    BY <1>5, TypeInvParts, ReadStep DEF ReadIntake, At
  <2>3. RowsTyped' /\ Grows
    BY <2>1, TypeInvParts, SameRows
  <2>4. req'[r].kind = "order"
    BY <2>2 DEF SameCall
  <2>5. CallTyped(r)'
    BY <2>2, <2>4, KindsDiffer
    DEF CallTyped, MovingTyped, CostTyped, ExtraTyped, Kind, Step
  <2> QED
    BY <2>2, <2>3, <2>5, TypeStep
<1>6. CASE WriteOrder(r)
  BY <1>6, BareStepTyped DEF WriteOrder, RowsKeptAsIs, Bare
<1>7. CASE NoteOrder(r)
  BY <1>7, NotesTyped DEF NoteOrder, Record, Bare
<1> QED
  BY <1>2, <1>3, <1>4, <1>5, <1>6, <1>7 DEF EditOrder

LEMMA ReplacementMerged ==
    ASSUME NEW old \in Replacement, NEW in \in ReplacementInputs
    PROVE  Merge(old, in) \in Replacement
<1> DEFINE new == Merge(old, in)
           Fields == {"status", "proNumber", "carrierName"}
<1>1. PICK given \in SUBSET Fields,
           value \in [status : {"AGREED", "IN_TRANSIT"}, proNumber : BOOLEAN,
                      carrierName : BOOLEAN] :
         in = [f \in given |-> value[f]]
  BY DEF ReplacementInputs
<1>2. DOMAIN old = Fields
  BY DEF Replacement
<1>3. new = [f \in Fields |-> new[f]]
  BY <1>2 DEF Merge
<1>4. /\ new.status \in {"NONE", "AGREED", "IN_TRANSIT"}
      /\ new.proNumber \in BOOLEAN /\ new.carrierName \in BOOLEAN
  BY <1>1, <1>2 DEF Merge, Replacement
<1> HIDE DEF new
<1>5. new \in Replacement
  BY <1>3, <1>4 DEF Replacement
<1> QED
  BY <1>5 DEF new

LEMMA ReplacementStored ==
    ASSUME TypeInv, [Next]_vars, NEW r \in Requests, Goto(r, "note"),
           replacement' \in Replacement,
           UNCHANGED <<order, shipments, sheets, extras, recorded, faults>>
    PROVE  TypeInv'
<1>1. /\ \A q \in Requests \ {r} : Stays(q)
      /\ SameCall(r) /\ req'[r].step = "note"
  BY TypeInvParts, GotoStep
<1>2. RowsTyped' /\ Grows
  BY TypeInvParts DEF RowsTyped, SheetsTyped, Grows
<1>3. CallTyped(r)'
  BY <1>1, <1>2, TypeInvParts, MovesOn DEF Bare
<1> QED
  BY <1>1, <1>2, <1>3, TypeStep

LEMMA ReplacementsTyped ==
    ASSUME TypeInv, [Next]_vars, NEW r \in Requests, KeepReplacement(r)
    PROVE  TypeInv'
<1>1. ASSUME NEW kind \in ReplacementKinds, NEW step \in {"insert", "write"},
             NEW in \in ReplacementInputs,
             Arrive(r, Slot(kind, step, in, Nothing)), RowsKeptAsIs
      PROVE  TypeInv'
  <2>1. kind \in Kind /\ step \in Step
    BY KindsDiffer DEF Kind, Step
  <2>2. kind \notin Moving /\ kind \notin CostKinds /\ kind \notin ExtraKinds
    BY KindsDiffer
  <2> QED
    BY <1>1, <2>1, <2>2, ArrivalTyped
<1>2. CASE BeginCreateReplacement(r)
  <2>1. RowsKeptAsIs
    BY <1>2 DEF BeginCreateReplacement, RowsKeptAsIs
  <2> QED
    BY <1>1, <1>2, <2>1, KindsDiffer DEF BeginCreateReplacement
<1>3. CASE BeginUpdateReplacement(r)
  <2>1. RowsKeptAsIs
    BY <1>3 DEF BeginUpdateReplacement, RowsKeptAsIs
  <2> QED
    BY <1>1, <1>3, <2>1, KindsDiffer DEF BeginUpdateReplacement
<1>4. CASE InsertReplacement(r)
  <2>1. req[r].in \in ReplacementInputs
    BY <1>4, TypeInvParts, KindsDiffer DEF InsertReplacement, At, CallTyped
  <2>2. [NoReplacement EXCEPT !.status = "AGREED"] \in Replacement
    BY DEF NoReplacement, Replacement
  <2>3. replacement' \in Replacement
    BY <1>4, <2>1, <2>2, ReplacementMerged DEF InsertReplacement
  <2> QED
    BY <1>4, <2>3, ReplacementStored DEF InsertReplacement
<1>5. CASE WriteReplacement(r)
  <2>1. req[r].in \in ReplacementInputs
    BY <1>5, TypeInvParts, KindsDiffer DEF WriteReplacement, At, CallTyped
  <2>2. replacement' \in Replacement
    BY <1>5, <2>1, ReplacementMerged, TypeInvParts DEF WriteReplacement, RowsTyped
  <2> QED
    BY <1>5, <2>2, ReplacementStored DEF WriteReplacement
<1>6. CASE NoteReplacement(r)
  BY <1>6, NotesTyped DEF NoteReplacement, Record, Bare
<1> QED
  BY <1>2, <1>3, <1>4, <1>5, <1>6 DEF KeepReplacement

LEMMA FailTyped ==
    ASSUME TypeInv, [Next]_vars, NEW r \in Requests, Fail(r)
    PROVE  TypeInv'
<1>1. /\ \A q \in Requests \ {r} : Stays(q)
      /\ SameCall(r) /\ req'[r].step = "cut"
  BY TypeInvParts, FailStep
<1>2. faults' \in 0 .. MaxFaults
  BY TypeInvParts, FulfilmentAssumption DEF Fail, RowsTyped
<1>3. RowsTyped' /\ Grows
  BY <1>2, TypeInvParts DEF RowsTyped, SheetsTyped, Grows, Fail
<1>4. CallTyped(r)'
  BY <1>1, <1>3, TypeInvParts, MovesOn DEF Bare
<1> QED
  BY <1>1, <1>3, <1>4, TypeStep

\* A sheet is stored or replaced, and the request is bare afterwards.
LEMMA SheetStored ==
    ASSUME TypeInv, [Next]_vars, NEW r \in Requests, NEW s \in DOMAIN shipments,
           NEW sheet \in Sheet, NEW step \in Bare, Goto(r, step),
           \/ StoreSheet(s, sheet)
           \/ s \in DOMAIN sheets /\ sheets' = [sheets EXCEPT ![s] = sheet],
           UNCHANGED <<shipments, extras, replacement, recorded, faults>>
    PROVE  TypeInv'
<1>1. /\ \A q \in Requests \ {r} : Stays(q)
      /\ SameCall(r) /\ req'[r].step = step
  BY TypeInvParts, GotoStep
<1>2. RowsTyped
  BY TypeInvParts
<1>3. /\ DOMAIN sheets \subseteq DOMAIN sheets'
      /\ DOMAIN sheets' \subseteq DOMAIN sheets \union {s}
      /\ \A t \in DOMAIN sheets' : sheets'[t] \in Sheet
  BY <1>2 DEF RowsTyped, SheetsTyped, StoreSheet
<1>4. RowsTyped' /\ Grows
  BY <1>2, <1>3 DEF RowsTyped, SheetsTyped, Grows
<1>5. CallTyped(r)'
  BY <1>1, <1>4, TypeInvParts, MovesOn
<1> QED
  BY <1>1, <1>4, <1>5, TypeStep

\* A read changes no row; the request is typed with what it read.
LEMMA ReadTyped ==
    ASSUME TypeInv, [Next]_vars, NEW r \in Requests, NEW step, NEW seen,
           Read(r, step, seen), RowsKeptAsIs, CallTyped(r)'
    PROVE  TypeInv'
<1>1. \A q \in Requests \ {r} : Stays(q)
  BY TypeInvParts, ReadStep
<1>2. RowsTyped' /\ Grows
  BY TypeInvParts, SameRows
<1> QED
  BY <1>1, <1>2, TypeStep

LEMMA CreateCostTyped ==
    ASSUME TypeInv, [Next]_vars, NEW r \in Requests,
           \/ BeginCreateCost(r) \/ ensureShipmentCostDoesNotExist(r)
           \/ InsertCost(r)
    PROVE  TypeInv'
<1>1. CASE BeginCreateCost(r)
  <2>1. PICK s \in DOMAIN shipments, in \in CostInputs :
           Arrive(r, Slot("create cost", "exists", [id |-> s, costs |-> in],
                          [basis |-> order.totalSaleAmount]))
    BY <1>1 DEF BeginCreateCost
  <2> DEFINE body == [id |-> s, costs |-> in]
             seen == [basis |-> order.totalSaleAmount]
  <2>2. body.id \in DOMAIN shipments /\ IsCostInput(body.costs) /\ seen.basis \in Nat
    BY CostInputsAssumption, TypeInvParts, BasisTyped
  <2>3. Arrive(r, Slot("create cost", "exists", body, seen))
    BY <2>1
  <2>4. RowsKeptAsIs
    BY <1>1 DEF BeginCreateCost, RowsKeptAsIs
  <2> HIDE DEF body, seen
  <2>5. /\ "create cost" \in Kind /\ "exists" \in Step
        /\ "create cost" \notin Moving /\ "create cost" \notin ExtraKinds
        /\ "create cost" \notin ReplacementKinds
    BY KindsDiffer DEF Kind, Step
  <2> QED
    BY <2>2, <2>3, <2>4, <2>5, ArrivalTyped
<1>2. CASE ensureShipmentCostDoesNotExist(r)
  <2>1. RowsKeptAsIs /\ At(r, "create cost", "exists")
    BY <1>2 DEF ensureShipmentCostDoesNotExist, RowsKeptAsIs
  <2>2. CASE Goto(r, "rejected")
    BY <2>1, <2>2, BareStepTyped DEF Bare
  <2>3. CASE Goto(r, "insert")
    <3>1. /\ \A q \in Requests \ {r} : Stays(q)
          /\ SameCall(r) /\ req'[r].step = "insert" /\ req'[r].seen = req[r].seen
      BY <2>3, TypeInvParts, GotoStep
    <3>2. RowsTyped' /\ Grows
      BY <2>1, TypeInvParts, SameRows
    <3>3. CallTyped(r)
      BY TypeInvParts
    <3>4. /\ req'[r].kind = "create cost" /\ req'[r].in = req[r].in
          /\ shipments' = shipments
      BY <2>1, <3>1 DEF SameCall, At, RowsKeptAsIs
    <3>5. CostTyped(r)'
      BY <2>1, <3>1, <3>3, <3>4, KindsDiffer DEF CallTyped, CostTyped, At, IsCostInput
    <3>6. CallTyped(r)'
      BY <3>1, <3>4, <3>5, KindsDiffer
      DEF CallTyped, MovingTyped, ExtraTyped, Kind, Step
    <3> QED
      BY <3>1, <3>2, <3>6, TypeStep
  <2> QED
    BY <1>2, <2>2, <2>3 DEF ensureShipmentCostDoesNotExist
<1>3. CASE InsertCost(r)
  <2> DEFINE s == req[r].in.id
             sheet == resolveCostAmounts(req[r].in.costs, NoSheet)
             profit == req[r].seen.basis - Effective(sheet)
             new == [sheet EXCEPT !.grossProfit = profit]
  <2>1. /\ At(r, "create cost", "insert")
        /\ UNCHANGED <<order, shipments, extras, replacement, recorded, faults>>
    BY <1>3 DEF InsertCost
  <2>2. /\ s \in DOMAIN shipments /\ IsCostInput(req[r].in.costs)
        /\ req[r].seen.basis \in Nat
    BY <2>1, TypeInvParts, KindsDiffer DEF CallTyped, CostTyped, At
  <2>3. sheet \in Sheet
    BY <2>2, ResolvedSheet, NoSheetTyped
  <2> HIDE DEF sheet
  <2>4. profit \in Int
    BY <2>2, <2>3, EffectiveTyped
  <2> HIDE DEF profit
  <2>5. new \in Sheet
    BY <2>3, <2>4, ProfitOnlyStored
  <2>6. CASE HasSheet(s)
    <3>1. Goto(r, "rejected") /\ RowsKeptAsIs
      BY <1>3, <2>1, <2>6 DEF InsertCost, RowsKeptAsIs
    <3> QED
      BY <3>1, BareStepTyped DEF Bare
  <2>7. CASE ~HasSheet(s)
    <3>1. StoreSheet(s, new) /\ Goto(r, "history")
      BY <1>3, <2>7 DEF InsertCost, new, profit, sheet
    <3> HIDE DEF new, s
    <3> QED
      BY <2>1, <2>2, <2>5, <3>1, SheetStored DEF Bare, s
  <2> QED
    BY <2>6, <2>7
<1> QED
  BY <1>1, <1>2, <1>3

LEMMA UpdateCostTyped ==
    ASSUME TypeInv, [Next]_vars, NEW r \in Requests,
           \/ BeginUpdateCost(r) \/ ReadAmounts(r) \/ UpdateCost(r)
           \/ RecordCostHistory(r)
    PROVE  TypeInv'
<1>1. CASE BeginUpdateCost(r)
  <2>1. PICK s \in DOMAIN shipments, in \in CostInputs :
           Arrive(r, Slot("update cost", "amounts", [id |-> s, costs |-> in],
                          [basis |-> order.totalSaleAmount]))
    BY <1>1 DEF BeginUpdateCost
  <2> DEFINE body == [id |-> s, costs |-> in]
             seen == [basis |-> order.totalSaleAmount]
  <2>2. body.id \in DOMAIN shipments /\ IsCostInput(body.costs) /\ seen.basis \in Nat
    BY CostInputsAssumption, TypeInvParts, BasisTyped
  <2>3. Arrive(r, Slot("update cost", "amounts", body, seen))
    BY <2>1
  <2>4. RowsKeptAsIs
    BY <1>1 DEF BeginUpdateCost, RowsKeptAsIs
  <2> HIDE DEF body, seen
  <2>5. /\ "update cost" \in Kind /\ "amounts" \in Step
        /\ "update cost" \notin Moving /\ "update cost" \notin ExtraKinds
        /\ "update cost" \notin ReplacementKinds
    BY KindsDiffer DEF Kind, Step
  <2> QED
    BY <2>2, <2>3, <2>4, <2>5, ArrivalTyped
<1>2. CASE ReadAmounts(r)
  <2>1. RowsKeptAsIs /\ At(r, "update cost", "amounts")
    BY <1>2 DEF ReadAmounts, RowsKeptAsIs
  <2>2. CASE Goto(r, "rejected")
    BY <2>1, <2>2, BareStepTyped DEF Bare
  <2>3. CASE ~Goto(r, "rejected")
    <3> DEFINE s == req[r].in.id
               seen == [basis |-> req[r].seen.basis, sheet |-> sheets[s]]
    <3>1. HasSheet(s) /\ Read(r, "write", seen)
      BY <1>2, <2>3 DEF ReadAmounts
    <3>2. seen.basis = req[r].seen.basis /\ seen.sheet = sheets[s]
      OBVIOUS
    <3> HIDE DEF seen
    <3>3. SameCall(r) /\ req'[r].step = "write" /\ req'[r].seen = seen
      BY <3>1, TypeInvParts, ReadStep
    <3>4. /\ s \in DOMAIN shipments /\ IsCostInput(req[r].in.costs)
          /\ req[r].seen.basis \in Nat
      BY <2>1, TypeInvParts, KindsDiffer DEF CallTyped, CostTyped, At
    <3>5. s \in DOMAIN sheets /\ sheets[s] \in Sheet
      BY <3>1, TypeInvParts DEF HasSheet, RowsTyped, SheetsTyped
    <3>6. /\ req'[r].kind = "update cost" /\ req'[r].in = req[r].in
          /\ shipments' = shipments /\ sheets' = sheets
      BY <2>1, <3>3 DEF SameCall, At, RowsKeptAsIs
    <3>7. CostTyped(r)'
      BY <3>2, <3>3, <3>4, <3>5, <3>6 DEF CostTyped, IsCostInput
    <3>8. CallTyped(r)'
      BY <3>3, <3>6, <3>7, KindsDiffer
      DEF CallTyped, MovingTyped, ExtraTyped, Kind, Step
    <3> QED
      BY <2>1, <3>1, <3>8, ReadTyped
  <2> QED
    BY <2>2, <2>3
<1>3. CASE UpdateCost(r)
  <2> DEFINE s == req[r].in.id
             in == req[r].in.costs
             profit == req[r].seen.basis
                         - Effective(resolveCostAmounts(in, req[r].seen.sheet))
             new == [resolveCostAmounts(in, sheets[s]) EXCEPT !.grossProfit = profit]
             step == IF CostChanges(in, req[r].seen.sheet) THEN "history" ELSE "done"
  <2>1. /\ At(r, "update cost", "write") /\ Goto(r, step)
        /\ sheets' = [sheets EXCEPT ![s] = new]
        /\ UNCHANGED <<order, shipments, extras, replacement, recorded, faults>>
    BY <1>3 DEF UpdateCost
  <2>2. /\ s \in DOMAIN shipments /\ IsCostInput(in) /\ req[r].seen.basis \in Nat
        /\ s \in DOMAIN sheets /\ req[r].seen.sheet \in Sheet
    BY <2>1, TypeInvParts, KindsDiffer DEF CallTyped, CostTyped, At
  <2>3. sheets[s] \in Sheet
    BY <2>2, TypeInvParts DEF RowsTyped, SheetsTyped
  <2>4. profit \in Int
    BY <2>2, ResolvedSheet, EffectiveTyped
  <2> HIDE DEF profit
  <2>5. new \in Sheet
    BY <2>2, <2>3, <2>4, ResolvedSheet, ProfitOnlyStored
  <2>6. step \in Bare
    BY DEF Bare
  <2> HIDE DEF new, s, step
  <2> QED
    BY <2>1, <2>2, <2>5, <2>6, SheetStored
<1>4. CASE RecordCostHistory(r)
  BY <1>4, NotesTyped DEF RecordCostHistory, Record, Bare
<1> QED
  BY <1>1, <1>2, <1>3, <1>4

LEMMA ExtrasStored ==
    ASSUME TypeInv, [Next]_vars, NEW r \in Requests, NEW step \in Bare, Goto(r, step),
           extras' \in [ShipmentIds -> Seq(Nat)],
           \A s \in DOMAIN shipments : DOMAIN extras[s] \subseteq DOMAIN extras'[s],
           UNCHANGED <<shipments, sheets, replacement, recorded, faults>>
    PROVE  TypeInv'
<1>1. /\ \A q \in Requests \ {r} : Stays(q)
      /\ SameCall(r) /\ req'[r].step = step
  BY TypeInvParts, GotoStep
<1>2. RowsTyped' /\ Grows
  BY TypeInvParts DEF RowsTyped, SheetsTyped, Grows
<1>3. CallTyped(r)'
  BY <1>1, <1>2, TypeInvParts, MovesOn
<1> QED
  BY <1>1, <1>2, <1>3, TypeStep

LEMMA ExtrasTyped ==
    ASSUME TypeInv, [Next]_vars, NEW r \in Requests,
           \/ BeginCreateExtra(r) \/ InsertExtra(r) \/ BeginUpdateExtra(r)
           \/ UpdateExtra(r) \/ RecordExtraHistory(r)
    PROVE  TypeInv'
<1>1. /\ extras \in [ShipmentIds -> Seq(Nat)] /\ DOMAIN shipments \subseteq ShipmentIds
      /\ ExtraAmounts \subseteq Nat
  BY TypeInvParts, IdsAreShipmentIds, CostInputsAssumption DEF RowsTyped
<1>2. CASE BeginCreateExtra(r)
  <2>1. PICK s \in DOMAIN shipments, amount \in ExtraAmounts :
           Arrive(r, Slot("add extra", "insert", [id |-> s, amount |-> amount], Nothing))
    BY <1>2 DEF BeginCreateExtra
  <2> DEFINE body == [id |-> s, amount |-> amount]
  <2>2. body.id \in DOMAIN shipments /\ body.amount \in Nat
    BY <1>1
  <2>3. Arrive(r, Slot("add extra", "insert", body, Nothing))
    BY <2>1
  <2>4. RowsKeptAsIs
    BY <1>2 DEF BeginCreateExtra, RowsKeptAsIs
  <2> HIDE DEF body
  <2>5. /\ "add extra" \in Kind /\ "insert" \in Step
        /\ "add extra" \notin Moving /\ "add extra" \notin CostKinds
        /\ "add extra" \notin ReplacementKinds
    BY KindsDiffer DEF Kind, Step
  <2> QED
    BY <2>2, <2>3, <2>4, <2>5, ArrivalTyped
<1>3. CASE BeginUpdateExtra(r)
  <2>0. PICK s \in DOMAIN shipments, amount \in ExtraAmounts :
           \E i \in DOMAIN extras[s] :
              Arrive(r, Slot("update extra", "write",
                             [id |-> s, extra |-> i, amount |-> amount],
                             [amount |-> extras[s][i]]))
    BY <1>3 DEF BeginUpdateExtra
  <2>1. PICK i \in DOMAIN extras[s] :
           Arrive(r, Slot("update extra", "write",
                          [id |-> s, extra |-> i, amount |-> amount],
                          [amount |-> extras[s][i]]))
    BY <2>0
  <2> DEFINE body == [id |-> s, extra |-> i, amount |-> amount]
             seen == [amount |-> extras[s][i]]
  <2>2. body.id \in DOMAIN shipments /\ body.amount \in Nat
        /\ body.extra \in DOMAIN extras[body.id]
    BY <1>1
  <2>3. Arrive(r, Slot("update extra", "write", body, seen))
    BY <2>1
  <2>4. RowsKeptAsIs
    BY <1>3 DEF BeginUpdateExtra, RowsKeptAsIs
  <2> HIDE DEF body, seen
  <2>5. /\ "update extra" \in Kind /\ "write" \in Step
        /\ "update extra" \notin Moving /\ "update extra" \notin CostKinds
        /\ "update extra" \notin ReplacementKinds
    BY KindsDiffer DEF Kind, Step
  <2> QED
    BY <2>2, <2>3, <2>4, <2>5, ArrivalTyped
<1>4. CASE InsertExtra(r)
  <2> DEFINE s == req[r].in.id
             amount == req[r].in.amount
  <2>1. s \in DOMAIN shipments /\ amount \in Nat
    BY <1>4, TypeInvParts, KindsDiffer DEF InsertExtra, At, CallTyped, ExtraTyped
  <2>2. /\ extras' = [extras EXCEPT ![s] = Append(extras[s], amount)]
        /\ Goto(r, "history")
        /\ UNCHANGED <<shipments, sheets, replacement, recorded, faults>>
    BY <1>4 DEF InsertExtra
  <2> HIDE DEF s, amount
  <2>3. s \in ShipmentIds /\ extras[s] \in Seq(Nat)
    BY <1>1, <2>1
  <2>4. /\ Append(extras[s], amount) \in Seq(Nat)
        /\ DOMAIN extras[s] \subseteq DOMAIN Append(extras[s], amount)
    BY <2>1, <2>3
  <2>5. /\ extras' \in [ShipmentIds -> Seq(Nat)]
        /\ \A t \in DOMAIN shipments : DOMAIN extras[t] \subseteq DOMAIN extras'[t]
    BY <1>1, <2>2, <2>3, <2>4
  <2> QED
    BY <2>2, <2>5, ExtrasStored DEF Bare
<1>5. CASE UpdateExtra(r)
  <2> DEFINE s == req[r].in.id
             i == req[r].in.extra
             amount == req[r].in.amount
             step == IF amount # req[r].seen.amount THEN "history" ELSE "order"
  <2>1. s \in DOMAIN shipments /\ amount \in Nat /\ i \in DOMAIN extras[s]
    BY <1>5, TypeInvParts, KindsDiffer DEF UpdateExtra, At, CallTyped, ExtraTyped
  <2>2. /\ extras' = [extras EXCEPT ![s] = [extras[s] EXCEPT ![i] = amount]]
        /\ Goto(r, step)
        /\ UNCHANGED <<shipments, sheets, replacement, recorded, faults>>
    BY <1>5 DEF UpdateExtra
  <2>3. step \in Bare
    BY DEF Bare
  <2> HIDE DEF s, i, amount, step
  <2>4. s \in ShipmentIds /\ extras[s] \in Seq(Nat)
    BY <1>1, <2>1
  <2>5. /\ [extras[s] EXCEPT ![i] = amount] \in Seq(Nat)
        /\ DOMAIN [extras[s] EXCEPT ![i] = amount] = DOMAIN extras[s]
    BY <2>1, <2>4
  <2>6. /\ extras' \in [ShipmentIds -> Seq(Nat)]
        /\ \A t \in DOMAIN shipments : DOMAIN extras[t] \subseteq DOMAIN extras'[t]
    BY <1>1, <2>2, <2>4, <2>5
  <2> QED
    BY <2>2, <2>3, <2>6, ExtrasStored
<1>6. CASE RecordExtraHistory(r)
  BY <1>6, NotesTyped DEF RecordExtraHistory, Bare
<1> QED
  BY <1>2, <1>3, <1>4, <1>5, <1>6

\* What recalculateShipmentCostTotals read is typed as it will be written.
LEMMA TotalsReadTyped ==
    ASSUME TypeInv, [Next]_vars, NEW r \in Requests,
           NEW step \in {"sum", "read", "total"}, NEW seen,
           req[r].kind \in ExtraKinds, Read(r, step, seen), RowsKeptAsIs,
           seen.basis \in Nat,
           step \in {"read", "total"} => seen.sum \in Nat,
           step = "total" => req[r].in.id \in DOMAIN sheets /\ seen.sheet \in Sheet
    PROVE  TypeInv'
<1>1. SameCall(r) /\ req'[r].step = step /\ req'[r].seen = seen
  BY TypeInvParts, ReadStep
<1>2. /\ req'[r].kind = req[r].kind /\ req'[r].in = req[r].in
      /\ shipments' = shipments /\ sheets' = sheets
  BY <1>1 DEF SameCall, RowsKeptAsIs
<1>3. req[r].in.id \in DOMAIN shipments /\ req[r].in.amount \in Nat
  BY TypeInvParts DEF CallTyped, ExtraTyped
<1>4. ExtraTyped(r)'
  BY <1>1, <1>2, <1>3 DEF ExtraTyped
<1>5. CallTyped(r)'
  BY <1>1, <1>2, <1>4, KindsDiffer DEF CallTyped, MovingTyped, CostTyped, Kind, Step
<1> QED
  BY <1>5, ReadTyped

LEMMA TotalsTyped ==
    ASSUME TypeInv, [Next]_vars, NEW r \in Requests, ReadForTotals(r) \/ WriteTotals(r)
    PROVE  TypeInv'
<1> DEFINE s == req[r].in.id
<1>1. req[r].kind \in ExtraKinds
  BY DEF ReadForTotals, WriteTotals, ExtraKinds
<1>2. ExtraTyped(r) /\ s \in DOMAIN shipments
  BY <1>1, TypeInvParts DEF CallTyped, ExtraTyped
<1>3. extras \in [ShipmentIds -> Seq(Nat)] /\ DOMAIN shipments \subseteq ShipmentIds
  BY TypeInvParts, IdsAreShipmentIds DEF RowsTyped
<1>4. CASE ReadForTotals(r)
  <2>1. RowsKeptAsIs
    BY <1>4 DEF ReadForTotals, RowsKeptAsIs
  <2>2. CASE req[r].step = "order"
    <3> DEFINE seen == [basis |-> order.totalSaleAmount]
    <3>1. seen.basis \in Nat
      BY TypeInvParts, BasisTyped
    <3>2. Read(r, "sum", seen)
      BY <1>4, <2>2 DEF ReadForTotals
    <3> HIDE DEF seen
    <3> QED
      BY <1>1, <2>1, <3>1, <3>2, TotalsReadTyped
  <2>3. CASE req[r].step = "sum"
    <3> DEFINE seen == [basis |-> req[r].seen.basis, sum |-> SumOf(extras[s])]
    <3>1. SumOf(extras[s]) \in Nat
      <4>1. extras[s] \in Seq(Nat)
        BY <1>2, <1>3
      <4> QED
        BY <4>1, SumIsNatural
    <3>2. seen.basis \in Nat /\ seen.sum \in Nat
      BY <1>1, <1>2, <2>3, <3>1 DEF ExtraTyped
    <3>3. Read(r, "read", seen)
      BY <1>4, <2>3 DEF ReadForTotals
    <3> HIDE DEF seen
    <3> QED
      BY <1>1, <2>1, <3>2, <3>3, TotalsReadTyped
  <2>4. CASE req[r].step = "read"
    <3> DEFINE seen == [basis |-> req[r].seen.basis,
                        sum |-> req[r].seen.sum, sheet |-> sheets[s]]
    <3>1. CASE HasSheet(s)
      <4>1. seen.basis \in Nat /\ seen.sum \in Nat
        BY <1>1, <1>2, <2>4 DEF ExtraTyped
      <4>2. s \in DOMAIN sheets /\ seen.sheet \in Sheet
        BY <3>1, TypeInvParts DEF HasSheet, RowsTyped, SheetsTyped
      <4>3. Read(r, "total", seen)
        BY <1>4, <2>4, <3>1 DEF ReadForTotals
      <4> HIDE DEF seen
      <4> QED
        BY <1>1, <2>1, <4>1, <4>2, <4>3, TotalsReadTyped
    <3>2. CASE ~HasSheet(s)
      <4>1. Goto(r, "rejected")
        BY <1>4, <2>4, <3>2 DEF ReadForTotals
      <4> QED
        BY <2>1, <4>1, BareStepTyped DEF Bare
    <3> QED
      BY <3>1, <3>2
  <2> QED
    BY <1>4, <2>2, <2>3, <2>4 DEF ReadForTotals
<1>5. CASE WriteTotals(r)
  <2> DEFINE seen == req[r].seen
             sheet == [seen.sheet EXCEPT !.additionalAmount = seen.sum]
             profit == seen.basis - Effective(sheet)
             new == [sheets[s] EXCEPT !.additionalAmount = seen.sum,
                                      !.grossProfit = profit]
  <2>1. /\ s \in DOMAIN sheets /\ seen.sheet \in Sheet
        /\ seen.sum \in Nat /\ seen.basis \in Nat
    BY <1>1, <1>2, <1>5 DEF WriteTotals, ExtraTyped
  <2>2. sheets' = [sheets EXCEPT ![s].additionalAmount = seen.sum,
                                 ![s].grossProfit = profit]
    BY <1>5 DEF WriteTotals
  <2>3. sheet \in Sheet
    BY <2>1 DEF Sheet
  <2> HIDE DEF sheet
  <2>4. profit \in Int
    BY <2>1, <2>3, EffectiveTyped
  <2> HIDE DEF profit
  <2>5. sheets' = [sheets EXCEPT ![s] = new]
    BY <2>1, <2>2
  <2>6. sheets[s] \in Sheet
    BY <2>1, TypeInvParts DEF RowsTyped, SheetsTyped
  <2>7. new \in Sheet
    BY <2>1, <2>4, <2>6 DEF Sheet
  <2>8. /\ Goto(r, "done")
        /\ UNCHANGED <<shipments, extras, replacement, recorded, faults>>
    BY <1>5 DEF WriteTotals
  <2> HIDE DEF new, s, seen
  <2> QED
    BY <1>2, <2>1, <2>5, <2>7, <2>8, SheetStored DEF Bare
<1> QED
  BY <1>4, <1>5

\* A shipment is stored; the request goes on with the costs, or is bare.
LEMMA ShipmentStored ==
    ASSUME TypeInv, [Next]_vars, NEW r \in Requests, NEW step \in {"cost", "note"},
           NEW seen, req[r].kind \in Moving, Read(r, step, seen),
           DOMAIN shipments \subseteq DOMAIN shipments',
           seen.id \in DOMAIN shipments', seen.sheet \in Sheet, seen.basis \in Int,
           UNCHANGED <<sheets, extras, replacement, recorded, faults>>
    PROVE  TypeInv'
<1>1. /\ \A q \in Requests \ {r} : Stays(q)
      /\ SameCall(r) /\ req'[r].step = step /\ req'[r].seen = seen
  BY TypeInvParts, ReadStep
<1>2. RowsTyped' /\ Grows
  BY TypeInvParts DEF RowsTyped, SheetsTyped, Grows
<1>3. req'[r].kind = req[r].kind /\ req'[r].in = req[r].in
  BY <1>1 DEF SameCall
<1>4. MovingTyped(r)'
  BY <1>1, <1>3, TypeInvParts DEF CallTyped, MovingTyped
<1>5. CallTyped(r)'
  BY <1>1, <1>3, <1>4, KindsDiffer DEF CallTyped, CostTyped, ExtraTyped, Kind, Step
<1> QED
  BY <1>1, <1>2, <1>5, TypeStep

LEMMA SheetOfTyped ==
    ASSUME RowsTyped, NEW s
    PROVE  SheetOf(s) \in Sheet
  BY NoSheetTyped DEF SheetOf, HasSheet, RowsTyped, SheetsTyped

LEMMA ShipmentsAreTyped ==
    ASSUME TypeInv, [Next]_vars, NEW r \in Requests, MoveShipment(r)
    PROVE  TypeInv'
<1>1. CASE BeginCreateShipment(r)
  <2>1. PICK in \in StatusInputs : Arrive(r, Slot("create shipment", "insert", in, Nothing))
    BY <1>1 DEF BeginCreateShipment
  <2>2. RowsKeptAsIs
    BY <1>1 DEF BeginCreateShipment, RowsKeptAsIs
  <2>3. /\ "create shipment" \in Kind /\ "insert" \in Step
        /\ "create shipment" \notin CostKinds /\ "create shipment" \notin ExtraKinds
        /\ "create shipment" \notin ReplacementKinds
    BY KindsDiffer DEF Kind, Step
  <2> QED
    BY <2>1, <2>2, <2>3, ArrivalTyped
<1>2. CASE BeginUpdateStatus(r)
  <2>1. PICK s \in DOMAIN shipments, in \in StatusInputs :
           Arrive(r, Slot("shipment status",
                 IF shipments[s].status # in.status \/ in.carrierName \/ in.proNumber
                 THEN "write" ELSE "cost",
                 in, [id |-> s, row |-> shipments[s], sheet |-> SheetOf(s),
                      basis |-> resolveGpSaleBasis]))
    BY <1>2 DEF BeginUpdateStatus
  <2> DEFINE step == IF shipments[s].status # in.status \/ in.carrierName \/ in.proNumber
                     THEN "write" ELSE "cost"
             seen == [id |-> s, row |-> shipments[s], sheet |-> SheetOf(s),
                      basis |-> resolveGpSaleBasis]
  <2>2. step \in Step
    BY DEF Step
  <2>3. seen.id \in DOMAIN shipments /\ seen.sheet \in Sheet /\ seen.basis \in Int
    BY TypeInvParts, SheetOfTyped, BasisTyped
  <2>4. Arrive(r, Slot("shipment status", step, in, seen))
    BY <2>1
  <2>5. RowsKeptAsIs
    BY <1>2 DEF BeginUpdateStatus, RowsKeptAsIs
  <2> HIDE DEF step, seen
  <2>6. /\ "shipment status" \in Kind
        /\ "shipment status" \notin CostKinds /\ "shipment status" \notin ExtraKinds
        /\ "shipment status" \notin ReplacementKinds
    BY KindsDiffer DEF Kind
  <2> QED
    BY <2>2, <2>3, <2>4, <2>5, <2>6, ArrivalTyped
<1>3. CASE InsertShipment(r)
  <2> DEFINE n == Len(shipments)
             step == IF hasCostPayload(req[r].in) THEN "cost" ELSE "note"
             seen == [id |-> n + 1, basis |-> resolveGpSaleBasis, sheet |-> NoSheet]
  <2>1. /\ Read(r, step, seen) /\ At(r, "create shipment", "insert")
        /\ UNCHANGED <<sheets, extras, replacement, recorded, faults>>
    BY <1>3 DEF InsertShipment
  <2>2. PICK row : shipments' = Append(shipments, row)
    BY <1>3 DEF InsertShipment
  <2>3. /\ n \in Nat /\ DOMAIN shipments = 1 .. n /\ shipments \in Seq(Shipment)
    BY TypeInvParts DEF ShipmentsTyped
  <2>4. DOMAIN shipments' = 1 .. n + 1
    BY <2>2, <2>3
  <2>5. DOMAIN shipments \subseteq DOMAIN shipments' /\ n + 1 \in DOMAIN shipments'
    BY <2>3, <2>4
  <2>6. seen.id \in DOMAIN shipments' /\ seen.sheet \in Sheet /\ seen.basis \in Int
    BY <2>5, TypeInvParts, BasisTyped, NoSheetTyped
  <2>7. step \in {"cost", "note"} /\ req[r].kind \in Moving
    BY <2>1, KindsDiffer DEF At
  <2> HIDE DEF seen, step
  <2> QED
    BY <2>1, <2>5, <2>6, <2>7, ShipmentStored
<1>4. CASE WriteStatus(r)
  <2> DEFINE in == req[r].in
             s == req[r].seen.id
             seenRow == req[r].seen.row
             step == IF hasCostPayload(in) THEN "cost" ELSE "note"
             seen == [id |-> s, row |-> seenRow, basis |-> resolveGpSaleBasis,
                      sheet |-> IF seenRow.status # in.status /\ HasSheet(s)
                                THEN sheets[s] ELSE req[r].seen.sheet]
  <2>1. /\ Read(r, step, seen) /\ At(r, "shipment status", "write")
        /\ UNCHANGED <<sheets, extras, replacement, recorded, faults>>
    BY <1>4 DEF WriteStatus
  <2>2. DOMAIN shipments' = DOMAIN shipments
    BY <1>4 DEF WriteStatus
  <2>3. s \in DOMAIN shipments /\ req[r].seen.sheet \in Sheet
    BY <2>1, TypeInvParts, KindsDiffer DEF At, CallTyped, MovingTyped
  <2>4. HasSheet(s) => sheets[s] \in Sheet
    BY TypeInvParts DEF HasSheet, RowsTyped, SheetsTyped
  <2>5. seen.id \in DOMAIN shipments' /\ seen.sheet \in Sheet /\ seen.basis \in Int
    BY <2>2, <2>3, <2>4, TypeInvParts, BasisTyped
  <2>6. step \in {"cost", "note"} /\ req[r].kind \in Moving
    BY <2>1, KindsDiffer DEF At
  <2> HIDE DEF seen, step
  <2> QED
    BY <2>1, <2>2, <2>5, <2>6, ShipmentStored
<1>5. CASE UpsertCost(r)
  <2> DEFINE in == req[r].in.costs
             s == req[r].seen.id
             next == upserted(in, req[r].seen.sheet)
             profit == req[r].seen.basis - Effective(next)
             notes == Merge(SheetOf(s), in).notes
             new == [next EXCEPT !.grossProfit = profit, !.notes = notes]
  <2>1. /\ StoreSheet(s, new) /\ Goto(r, "note")
        /\ UNCHANGED <<shipments, extras, replacement, recorded, faults>>
    BY <1>5 DEF UpsertCost, Upsert
  <2>2. /\ req[r].in \in StatusInputs /\ s \in DOMAIN shipments
        /\ req[r].seen.sheet \in Sheet /\ req[r].seen.basis \in Int
    BY <1>5, TypeInvParts, KindsDiffer DEF UpsertCost, CallTyped, MovingTyped
  <2>3. IsCostInput(in)
    BY <2>2, StatusInputsAssumption
  <2>4. next \in Sheet
    BY <2>2, <2>3, UpsertedSheet
  <2> HIDE DEF next
  <2>5. profit \in Int
    BY <2>2, <2>4, EffectiveTyped
  <2>6. notes \in BOOLEAN
    <3>1. Merge(SheetOf(s), in) \in Sheet
      BY <2>3, TypeInvParts, SheetOfTyped, MergedSheet
    <3> QED
      BY <3>1 DEF Sheet
  <2> HIDE DEF profit, notes
  <2>7. new \in Sheet
    BY <2>4, <2>5, <2>6, ProfitStored
  <2> HIDE DEF new, s
  <2> QED
    BY <2>1, <2>2, <2>7, SheetStored DEF Bare
<1>6. CASE NoteShipment(r)
  BY <1>6, NotesTyped DEF NoteShipment, Record, Bare
<1> QED
  BY <1>1, <1>2, <1>3, <1>4, <1>5, <1>6 DEF MoveShipment

LEMMA TypeInvStart == Init => TypeInv
<1> SUFFICES ASSUME Init
             PROVE  TypeInv
  OBVIOUS
<1>1. PICK start \in InitialOrders :
         shipments = start.shipments /\ sheets = start.sheets /\ extras = start.extras
  BY DEF Init
<1>2. SheetsTyped /\ extras \in [ShipmentIds -> Seq(Nat)]
  BY <1>1, InitialAssumption DEF SheetsTyped
<1>3. replacement \in Replacement /\ recorded \subseteq Requests /\ faults \in 0 .. MaxFaults
  BY InitialAssumption, FulfilmentAssumption DEF Init
<1>4. \A r \in Requests : req[r].kind = "none" /\ req[r].step = "idle"
  BY DEF Init, Slot
<1>5. \A r \in Requests : CallTyped(r)
  BY <1>4, KindsDiffer DEF CallTyped, MovingTyped, CostTyped, ExtraTyped, Kind, Step
<1> QED
  BY <1>2, <1>3, <1>5, ShipmentStart, OrderStart DEF TypeInv, RowsTyped

LEMMA TypeInvNext == TypeInv /\ [Next]_vars => TypeInv'
<1> SUFFICES ASSUME TypeInv, [Next]_vars
             PROVE  TypeInv'
  OBVIOUS
<1>1. ASSUME NEW r \in Requests, KeepCosts(r)
      PROVE  TypeInv'
  BY <1>1, CreateCostTyped, UpdateCostTyped, ExtrasTyped, TotalsTyped DEF KeepCosts
<1>2. ASSUME NEW r \in Requests,
             EditOrder(r) \/ MoveShipment(r) \/ KeepReplacement(r) \/ Fail(r)
      PROVE  TypeInv'
  BY <1>2, EditsTyped, ShipmentsAreTyped, ReplacementsTyped, FailTyped
<1>3. CASE UNCHANGED vars
  <2>1. RowsTyped' /\ Grows
    BY <1>3, TypeInvParts, SameRows DEF vars, RowsKeptAsIs
  <2>2. \A q \in Requests : Stays(q)
    BY <1>3 DEF vars, Stays, SameCall
  <2>3. \A q \in Requests : CallTyped(q)'
    BY <2>1, <2>2, TypeInvParts, OthersTyped
  <2> QED
    BY <2>1, <2>3, ShipmentNext, OrderNext DEF TypeInv
<1> QED
  BY <1>1, <1>2, <1>3 DEF Next

LEMMA TypeInvariant == Spec => []TypeInv
  BY TypeInvStart, TypeInvNext, PTL DEF Spec

\* The rows of an order and what its requests carry are well typed: no
\* service stores a negative amount, sheets belong to shipments, and every
\* sum of additional costs is a number.
THEOREM FulfilmentTypeCorrect == Spec => []TypeOK
<1>1. TypeInv => TypeOK
  <2> SUFFICES ASSUME TypeInv
               PROVE  TypeOK
    OBVIOUS
  <2>1. /\ order \in Order /\ ShipmentsTyped /\ RowsTyped
        /\ \A r \in Requests : CallTyped(r)
    BY TypeInvParts
  <2>2. DOMAIN sheets \subseteq ShipmentIds
    BY <2>1, IdsAreShipmentIds DEF RowsTyped, SheetsTyped
  <2> QED
    BY <2>1, <2>2 DEF TypeOK, ShipmentsTyped, RowsTyped, SheetsTyped, CallTyped
<1> QED
  BY <1>1, TypeInvariant, PTL
-----------------------------------------------------------------------------
(* What a request on a sold order leaves behind when it meets no other:     *)
(* while it is alone, what it has read is what is stored.                   *)

Alone(r) == req[r].alone /\ ~Ended(r)

\* Every other request has ended, or is still to come.
Sole(r) == \A q \in Requests \ {r} : Ended(q)

Solitary == \A r \in Requests : Alone(r) => Sole(r)

-----------------------------------------------------------------------------
(* How a step changes who is alone.                                         *)

\* r, under way, takes a step.
Moves(r) ==
    /\ ~Ended(r)
    /\ \A q \in Requests : req'[q].alone = req[q].alone
    /\ \A q \in Requests \ {r} : req'[q].step = req[q].step

\* r arrives.
Comes(r) ==
    /\ req[r].step = "idle"
    /\ req'[r].alone => Sole(r)
    /\ \A q \in Requests \ {r} :
          /\ req'[q].step = req[q].step
          /\ Ended(q) \/ ~req'[q].alone

LEMMA GotoMoves ==
    ASSUME ReqShape, NEW r \in Requests, ~Ended(r), NEW step, Goto(r, step)
    PROVE  Moves(r)
  BY DEF ReqShape, Goto, Moves

LEMMA ReadMoves ==
    ASSUME ReqShape, NEW r \in Requests, ~Ended(r), NEW step, NEW seen,
           Read(r, step, seen)
    PROVE  Moves(r)
  BY DEF ReqShape, Read, Moves

LEMMA ArriveComes ==
    ASSUME ReqShape, NEW r \in Requests, req[r].step = "idle",
           NEW kind, NEW step, NEW in, NEW seen, Arrive(r, Slot(kind, step, in, seen))
    PROVE  Comes(r)
  BY DEF ReqShape, Arrive, Slot, Comes, Sole, Ended

LEMMA MoverIsAlone ==
    ASSUME Solitary, NEW r \in Requests, Moves(r)
    PROVE  /\ Solitary'
           /\ \A q \in Requests \ {r} : ~Alone(q)'
           /\ Alone(r)' => Alone(r)
           /\ \A q \in Requests : Lone(q) => q = r /\ Alone(r)
<1>1. \A q \in Requests \ {r} : ~Alone(q)
  BY DEF Solitary, Sole, Moves
<1>2. \A q \in Requests \ {r} : ~Alone(q)'
  BY <1>1 DEF Moves, Alone, Ended
<1>3. Alone(r)' => Alone(r)
  BY DEF Moves, Alone
<1>4. Alone(r) => Sole(r)'
  BY DEF Solitary, Sole, Moves, Ended
<1>5. \A q \in Requests : Lone(q) => q = r /\ Alone(r)
  BY DEF Lone, Moves, Alone
<1> QED
  BY <1>2, <1>3, <1>4, <1>5 DEF Solitary

LEMMA NewcomerIsAlone ==
    ASSUME NEW r \in Requests, Comes(r)
    PROVE  /\ Solitary'
           /\ \A q \in Requests \ {r} : ~Alone(q)'
           /\ \A q \in Requests : ~Lone(q)
<1>1. \A q \in Requests \ {r} : ~Alone(q)'
  BY DEF Comes, Alone, Ended
<1>2. Alone(r)' => Sole(r)'
  BY DEF Comes, Alone, Sole, Ended
<1>3. \A q \in Requests : ~Lone(q)
  BY DEF Comes, Lone, Ended
<1> QED
  BY <1>1, <1>2, <1>3 DEF Solitary

-----------------------------------------------------------------------------
(* What a request that is alone knows.                                      *)

OrderKnown(r) ==
    req[r].kind = "order" =>
        LET given == req[r].in.intake
        IN  /\ req[r].step \in {"intake", "write"} =>
                  /\ req[r].in.role = "SALES" /\ "vehicleVin" \in DOMAIN given =>
                        order.intake.vehicleVin = 0
                  /\ "refundDeductionAmount" \in DOMAIN given =>
                        given.refundDeductionAmount <= order.totalSaleAmount
            /\ req[r].step = "write" /\ DOMAIN given # {} =>
                  req[r].seen = order.intake

ShipmentKnown(r) ==
    req[r].kind \in Moving =>
        /\ req[r].step = "insert" => shipments = <<>>
        /\ req[r].step = "write" => req[r].seen.row = shipments[req[r].seen.id]
        /\ req[r].step \in {"write", "cost"} =>
              /\ req[r].seen.sheet = SheetOf(req[r].seen.id)
              /\ req[r].seen.basis = resolveGpSaleBasis

CostKnown(r) ==
    req[r].kind \in CostKinds =>
        /\ req[r].step \in {"exists", "insert", "amounts", "write"} =>
              req[r].seen.basis = order.totalSaleAmount
        /\ req[r].step = "write" => req[r].seen.sheet = sheets[req[r].in.id]

TotalsKnown(r) ==
    req[r].kind \in ExtraKinds =>
        /\ req[r].step \in {"sum", "read", "total"} =>
              req[r].seen.basis = order.totalSaleAmount
        /\ req[r].step \in {"read", "total"} =>
              req[r].seen.sum = SumOf(extras[req[r].in.id])
        /\ req[r].step = "total" => req[r].seen.sheet = sheets[req[r].in.id]

TransitKnown(r) ==
    /\ At(r, "create replacement", "insert") =>
          ensureTransitDetails(Merge([NoReplacement EXCEPT !.status = "AGREED"], req[r].in))
    /\ At(r, "update replacement", "write") =>
          ensureTransitDetails(Merge(replacement, req[r].in))

Informed(r) ==
    OrderKnown(r) /\ ShipmentKnown(r) /\ CostKnown(r) /\ TotalsKnown(r) /\ TransitKnown(r)

LoneInv ==
    /\ TypeInv /\ Solitary
    /\ \A r \in Requests : Alone(r) => Informed(r)

LEMMA LoneParts ==
    ASSUME LoneInv
    PROVE  /\ TypeInv /\ ReqShape /\ order \in Order /\ RowsTyped /\ ShipmentsTyped
           /\ Solitary
           /\ \A r \in Requests : CallTyped(r)
  BY TypeInvParts DEF LoneInv

LEMMA LoneMove ==
    ASSUME LoneInv, [Next]_vars, NEW r \in Requests, Moves(r),
           Alone(r) /\ Informed(r) => Informed(r)'
    PROVE  LoneInv'
<1>1. TypeInv'
  BY LoneParts, TypeInvNext
<1>2. Solitary' /\ \A q \in Requests \ {r} : ~Alone(q)'
  BY LoneParts, MoverIsAlone
<1>3. Alone(r)' => Informed(r)'
  BY LoneParts, MoverIsAlone DEF LoneInv
<1> QED
  BY <1>1, <1>2, <1>3 DEF LoneInv

LEMMA LoneCome ==
    ASSUME LoneInv, [Next]_vars, NEW r \in Requests, Comes(r), Informed(r)'
    PROVE  LoneInv'
<1>1. TypeInv'
  BY LoneParts, TypeInvNext
<1>2. Solitary' /\ \A q \in Requests \ {r} : ~Alone(q)'
  BY NewcomerIsAlone
<1> QED
  BY <1>1, <1>2 DEF LoneInv

\* Steps before which nothing that was read is used any more, or yet.
Silent == {"history", "order", "note", "done", "rejected", "cut"}

LEMMA SilentInformed ==
    ASSUME NEW r \in Requests, req'[r].step \in Silent
    PROVE  Informed(r)'
<1>1. OrderKnown(r)' /\ ShipmentKnown(r)' /\ CostKnown(r)' /\ TotalsKnown(r)'
  BY DEF Silent, OrderKnown, ShipmentKnown, CostKnown, TotalsKnown
<1>2. TransitKnown(r)'
  BY DEF Silent, TransitKnown, At
<1> QED
  BY <1>1, <1>2 DEF Informed

LEMMA SilentMove ==
    ASSUME LoneInv, [Next]_vars, NEW r \in Requests, ~Ended(r),
           NEW step \in Silent, Goto(r, step)
    PROVE  LoneInv'
<1>1. Moves(r) /\ req'[r].step = step
  BY LoneParts, GotoMoves, GotoStep
<1>2. Informed(r)'
  BY <1>1, SilentInformed
<1> QED
  BY <1>1, <1>2, LoneMove

LEMMA FailLone ==
    ASSUME LoneInv, [Next]_vars, NEW r \in Requests, Fail(r)
    PROVE  LoneInv'
  BY SilentMove DEF Fail, Silent

-----------------------------------------------------------------------------
(* Edits of the order                                                       *)

\* What is given by an edit that arrives fits the order.
EditFits(in) ==
    /\ in.role = "SALES" /\ "vehicleVin" \in DOMAIN in.intake =>
          order.intake.vehicleVin = 0
    /\ "refundDeductionAmount" \in DOMAIN in.intake =>
          in.intake.refundDeductionAmount <= order.totalSaleAmount

LEMMA EditComes ==
    ASSUME LoneInv, [Next]_vars, NEW r \in Requests, req[r].step = "idle", NEW in,
           NEW step \in {"intake", "write", "note"},
           Arrive(r, Slot("order", step, in, Nothing)), order' = order, EditFits(in),
           step = "write" => DOMAIN in.intake = {}
    PROVE  LoneInv'
<1>1. Comes(r)
  BY LoneParts, ArriveComes
<1>2. /\ req'[r].kind = "order" /\ req'[r].step = step
      /\ req'[r].in = in
  BY LoneParts, ArriveStep
<1>3. OrderKnown(r)'
  BY <1>2 DEF OrderKnown, EditFits
<1>4. ShipmentKnown(r)' /\ CostKnown(r)' /\ TotalsKnown(r)' /\ TransitKnown(r)'
  BY <1>2, KindsDiffer DEF ShipmentKnown, CostKnown, TotalsKnown, TransitKnown, At
<1> QED
  BY <1>1, <1>3, <1>4, LoneCome DEF Informed

\* What is retained is at most what was paid, which is at most the sale.
LEMMA RetainedWithinSale ==
    ASSUME order \in Order, NEW type \in {"FULL", "PARTIAL"},
           NEW amount \in RefundAmounts
    PROVE  RefundFields(type, amount).refundDeductionAmount <= order.totalSaleAmount
<1>1. /\ amount \in Nat /\ getOriginalPaidAmount \in Nat
      /\ order.totalSaleAmount \in Nat
  BY PaidAmount, EditInputsAssumption DEF Order
<1>2. getOriginalPaidAmount <= order.totalSaleAmount
  BY DEF getOriginalPaidAmount, Order, Intake, Min
<1>3. RefundFields(type, amount).refundDeductionAmount =
         IF type = "FULL" THEN NoAmount ELSE getOriginalPaidAmount - amount
  BY DEF RefundFields
<1>4. NoAmount <= order.totalSaleAmount
      /\ getOriginalPaidAmount - amount <= order.totalSaleAmount
  BY <1>1, <1>2 DEF NoAmount
<1> QED
  BY <1>3, <1>4

LEMMA EditsLone ==
    ASSUME LoneInv, [Next]_vars, NEW r \in Requests, EditOrder(r)
    PROVE  LoneInv'
<1>1. CASE BeginUpdate(r)
  <2>1. PICK in \in EditInputs :
           /\ validateUpdateAccess(in)
           /\ Arrive(r, Slot("order", IF Changes(in) THEN FirstStatement(in) ELSE "note",
                             in, Nothing))
    BY <1>1 DEF BeginUpdate
  <2> DEFINE step == IF Changes(in) THEN FirstStatement(in) ELSE "note"
  <2>2. step \in {"intake", "write", "note"} /\ (step = "write" => DOMAIN in.intake = {})
    BY DEF FirstStatement
  <2>3. EditFits(in)
    BY <2>1, EditInputsAssumption DEF EditFits, validateUpdateAccess
  <2>4. order' = order /\ req[r].step = "idle"
    BY <1>1 DEF BeginUpdate
  <2> HIDE DEF step
  <2>5. Arrive(r, Slot("order", step, in, Nothing))
    BY <2>1 DEF step
  <2> QED
    BY <2>2, <2>3, <2>4, <2>5, EditComes
<1>2. ASSUME NEW status, NEW fields, "vehicleVin" \notin DOMAIN fields,
             "refundDeductionAmount" \in DOMAIN fields =>
                 fields.refundDeductionAmount <= order.totalSaleAmount,
             Arrive(r, Slot("order", "intake", Resolution(status, fields), Nothing)),
             order' = order, req[r].step = "idle"
      PROVE  LoneInv'
  <2> DEFINE in == Resolution(status, fields)
  <2>1. EditFits(in)
    BY <1>2 DEF EditFits, Resolution
  <2> HIDE DEF in
  <2>2. Arrive(r, Slot("order", "intake", in, Nothing))
    BY <1>2 DEF in
  <2> QED
    BY <1>2, <2>1, <2>2, EditComes
<1>3. CASE BeginCancel(r)
  <2> DEFINE fields == [f \in {"cancelledAt"} |-> TRUE]
  <2>1. "vehicleVin" \notin DOMAIN fields /\ "refundDeductionAmount" \notin DOMAIN fields
    OBVIOUS
  <2> HIDE DEF fields
  <2>2. /\ Arrive(r, Slot("order", "intake", Resolution("CANCELLED", fields), Nothing))
        /\ order' = order /\ req[r].step = "idle"
    BY <1>3 DEF BeginCancel, fields
  <2> QED
    BY <1>2, <2>1, <2>2
<1>4. CASE BeginRefund(r)
  <2>1. PICK type \in {"FULL", "PARTIAL"}, amount \in RefundAmounts :
           Arrive(r, Slot("order", "intake",
                          Resolution("REFUNDED", RefundFields(type, amount)), Nothing))
    BY <1>4 DEF BeginRefund
  <2> DEFINE fields == RefundFields(type, amount)
  <2>2. "vehicleVin" \notin DOMAIN fields
    BY DEF RefundFields
  <2>3. fields.refundDeductionAmount <= order.totalSaleAmount
    BY LoneParts, RetainedWithinSale
  <2>4. order' = order /\ req[r].step = "idle"
    BY <1>4 DEF BeginRefund
  <2> HIDE DEF fields
  <2>5. Arrive(r, Slot("order", "intake", Resolution("REFUNDED", fields), Nothing))
    BY <2>1 DEF fields
  <2> QED
    BY <1>2, <2>2, <2>3, <2>4, <2>5
<1>5. CASE ReadIntake(r)
  <2>1. At(r, "order", "intake") /\ Read(r, "write", order.intake) /\ order' = order
    BY <1>5 DEF ReadIntake
  <2>2. Moves(r)
    BY <2>1, LoneParts, ReadMoves DEF At, Ended
  <2>3. /\ req'[r].kind = "order" /\ req'[r].step = "write"
        /\ req'[r].in = req[r].in /\ req'[r].seen = order.intake
    BY <2>1, LoneParts, ReadStep DEF SameCall, At
  <2>4. OrderKnown(r) => OrderKnown(r)'
    BY <2>1, <2>3 DEF OrderKnown, At
  <2>5. ShipmentKnown(r)' /\ CostKnown(r)' /\ TotalsKnown(r)' /\ TransitKnown(r)'
    BY <2>3, KindsDiffer DEF ShipmentKnown, CostKnown, TotalsKnown, TransitKnown, At
  <2>6. Alone(r) /\ Informed(r) => Informed(r)'
    BY <2>4, <2>5 DEF Informed
  <2> QED
    BY <2>2, <2>6, LoneMove
<1>6. CASE WriteOrder(r)
  BY <1>6, SilentMove DEF WriteOrder, At, Ended, Silent
<1>7. CASE NoteOrder(r)
  BY <1>7, SilentMove DEF NoteOrder, At, Ended, Silent
<1> QED
  BY <1>1, <1>3, <1>4, <1>5, <1>6, <1>7 DEF EditOrder

-----------------------------------------------------------------------------
(* Replacements                                                             *)

LEMMA ReplacementsLone ==
    ASSUME LoneInv, [Next]_vars, NEW r \in Requests, KeepReplacement(r)
    PROVE  LoneInv'
<1>1. ASSUME NEW kind, NEW step, NEW in, req[r].step = "idle",
             Arrive(r, Slot(kind, step, in, Nothing)), replacement' = replacement,
             \/ /\ kind = "create replacement" /\ step = "insert"
                /\ ensureTransitDetails(
                       Merge([NoReplacement EXCEPT !.status = "AGREED"], in))
             \/ /\ kind = "update replacement" /\ step = "write"
                /\ ensureTransitDetails(Merge(replacement, in))
      PROVE  LoneInv'
  <2>1. Comes(r)
    BY <1>1, LoneParts, ArriveComes
  <2>2. /\ req'[r].kind = kind /\ req'[r].step = step
        /\ req'[r].in = in
    BY <1>1, LoneParts, ArriveStep
  <2>3. TransitKnown(r)'
    BY <1>1, <2>2 DEF TransitKnown, At, ensureTransitDetails, Merge
  <2>4. OrderKnown(r)' /\ ShipmentKnown(r)' /\ CostKnown(r)' /\ TotalsKnown(r)'
    BY <1>1, <2>2, KindsDiffer DEF OrderKnown, ShipmentKnown, CostKnown, TotalsKnown
  <2> QED
    BY <2>1, <2>3, <2>4, LoneCome DEF Informed
<1>2. CASE BeginCreateReplacement(r)
  BY <1>1, <1>2, Zenon DEF BeginCreateReplacement
<1>3. CASE BeginUpdateReplacement(r)
  BY <1>1, <1>3, Zenon DEF BeginUpdateReplacement
<1>4. CASE InsertReplacement(r)
  BY <1>4, SilentMove DEF InsertReplacement, At, Ended, Silent
<1>5. CASE WriteReplacement(r)
  BY <1>5, SilentMove DEF WriteReplacement, At, Ended, Silent
<1>6. CASE NoteReplacement(r)
  BY <1>6, SilentMove DEF NoteReplacement, Ended, Silent
<1> QED
  BY <1>2, <1>3, <1>4, <1>5, <1>6 DEF KeepReplacement

-----------------------------------------------------------------------------
(* Costs                                                                    *)

\* A request of CostsService arrives.
LEMMA CostComes ==
    ASSUME LoneInv, [Next]_vars, NEW r \in Requests, req[r].step = "idle",
           NEW kind, NEW step, NEW in, NEW seen, Arrive(r, Slot(kind, step, in, seen)),
           order' = order,
           \/ /\ kind \in CostKinds /\ step \in {"exists", "amounts"}
              /\ seen.basis = order.totalSaleAmount
           \/ kind \in ExtraKinds /\ step \in {"insert", "write"}
    PROVE  LoneInv'
<1>1. Comes(r)
  BY LoneParts, ArriveComes
<1>2. /\ req'[r].kind = kind /\ req'[r].step = step /\ req'[r].seen = seen
  BY LoneParts, ArriveStep
<1>3. kind \in CostKinds \union ExtraKinds
  OBVIOUS
<1>4. CostKnown(r)' /\ TotalsKnown(r)'
  BY <1>2, KindsDiffer DEF CostKnown, TotalsKnown
<1>5. OrderKnown(r)' /\ ShipmentKnown(r)' /\ TransitKnown(r)'
  BY <1>2, <1>3, KindsDiffer DEF OrderKnown, ShipmentKnown, TransitKnown, At
<1> QED
  BY <1>1, <1>4, <1>5, LoneCome DEF Informed

\* It reads, and what it knows afterwards is known.
LEMMA CostReads ==
    ASSUME LoneInv, [Next]_vars, NEW r \in Requests, ~Ended(r), NEW step, NEW seen,
           (Goto(r, step) /\ seen = req[r].seen) \/ Read(r, step, seen),
           UNCHANGED <<order, sheets, extras>>,
           req[r].kind \in CostKinds \union ExtraKinds,
           Alone(r) /\ Informed(r) /\ req[r].kind \in CostKinds =>
               /\ step \in {"insert", "write"}
               /\ seen.basis = order.totalSaleAmount
               /\ step = "write" => seen.sheet = sheets[req[r].in.id],
           Alone(r) /\ Informed(r) /\ req[r].kind \in ExtraKinds =>
               /\ step \in {"sum", "read", "total"}
               /\ seen.basis = order.totalSaleAmount
               /\ step \in {"read", "total"} => seen.sum = SumOf(extras[req[r].in.id])
               /\ step = "total" => seen.sheet = sheets[req[r].in.id]
    PROVE  LoneInv'
<1>1. Moves(r)
  BY LoneParts, GotoMoves, ReadMoves
<1>2. /\ req'[r].kind = req[r].kind /\ req'[r].in = req[r].in
      /\ req'[r].step = step /\ req'[r].seen = seen
  BY LoneParts, GotoStep, ReadStep DEF SameCall
<1>3. ASSUME Alone(r), Informed(r)
      PROVE  CostKnown(r)' /\ TotalsKnown(r)'
  <2>1. CostKnown(r)'
    BY <1>2, <1>3 DEF CostKnown
  <2>2. req[r].kind \in ExtraKinds =>
            /\ step \in {"sum", "read", "total"}
            /\ seen.basis = order'.totalSaleAmount
            /\ step \in {"read", "total"} => seen.sum = SumOf(extras[req[r].in.id])
            /\ step = "total" => seen.sheet = sheets'[req[r].in.id]
    BY <1>3
  <2>3. extras'[req'[r].in.id] = extras[req[r].in.id]
    BY <1>2
  <2>4. SumOf(extras[req[r].in.id])' = SumOf(extras[req[r].in.id])
    BY SMTT(60), <2>3 DEF SumOf, MapThenFoldSet
  <2>5. TotalsKnown(r)'
    BY <1>2, <2>2, <2>4 DEF TotalsKnown
  <2> QED
    BY <2>1, <2>5
<1>4. OrderKnown(r)' /\ ShipmentKnown(r)' /\ TransitKnown(r)'
  BY <1>2, KindsDiffer DEF OrderKnown, ShipmentKnown, TransitKnown, At
<1> QED
  BY <1>1, <1>3, <1>4, LoneMove DEF Informed

LEMMA CostsLone ==
    ASSUME LoneInv, [Next]_vars, NEW r \in Requests, KeepCosts(r)
    PROVE  LoneInv'
<1>1. CASE BeginCreateCost(r)
  <2>1. PICK in : Arrive(r, Slot("create cost", "exists", in,
                                 [basis |-> order.totalSaleAmount]))
    BY <1>1, Zenon DEF BeginCreateCost
  <2> DEFINE seen == [basis |-> order.totalSaleAmount]
  <2>2. seen.basis = order.totalSaleAmount
    OBVIOUS
  <2>3. req[r].step = "idle" /\ order' = order
    BY <1>1 DEF BeginCreateCost
  <2>4. Arrive(r, Slot("create cost", "exists", in, seen))
    BY <2>1
  <2> HIDE DEF seen
  <2> QED
    BY <2>2, <2>3, <2>4, CostComes DEF CostKinds
<1>2. CASE BeginUpdateCost(r)
  <2>1. PICK in : Arrive(r, Slot("update cost", "amounts", in,
                                 [basis |-> order.totalSaleAmount]))
    BY <1>2, Zenon DEF BeginUpdateCost
  <2> DEFINE seen == [basis |-> order.totalSaleAmount]
  <2>2. seen.basis = order.totalSaleAmount
    OBVIOUS
  <2>3. req[r].step = "idle" /\ order' = order
    BY <1>2 DEF BeginUpdateCost
  <2>4. Arrive(r, Slot("update cost", "amounts", in, seen))
    BY <2>1
  <2> HIDE DEF seen
  <2> QED
    BY <2>2, <2>3, <2>4, CostComes DEF CostKinds
<1>3. CASE BeginCreateExtra(r)
  <2>1. PICK in : Arrive(r, Slot("add extra", "insert", in, Nothing))
    BY <1>3, Zenon DEF BeginCreateExtra
  <2>2. req[r].step = "idle" /\ order' = order
    BY <1>3 DEF BeginCreateExtra
  <2> QED
    BY <2>1, <2>2, CostComes DEF ExtraKinds
<1>4. CASE BeginUpdateExtra(r)
  <2>1. PICK in, seen : Arrive(r, Slot("update extra", "write", in, seen))
    BY <1>4, Zenon DEF BeginUpdateExtra
  <2>2. req[r].step = "idle" /\ order' = order
    BY <1>4 DEF BeginUpdateExtra
  <2> QED
    BY <2>1, <2>2, CostComes DEF ExtraKinds
<1>5. CASE ensureShipmentCostDoesNotExist(r)
  <2>1. /\ At(r, "create cost", "exists") /\ ~Ended(r)
        /\ UNCHANGED <<order, sheets, extras>>
    BY <1>5 DEF ensureShipmentCostDoesNotExist, At, Ended
  <2>2. CASE Goto(r, "rejected")
    BY <2>1, <2>2, SilentMove DEF Silent
  <2>3. CASE Goto(r, "insert")
    <3>1. Informed(r) => req[r].seen.basis = order.totalSaleAmount
      BY <2>1 DEF Informed, CostKnown, CostKinds, At
    <3>2. req[r].kind = "create cost"
      BY <2>1 DEF At
    <3> QED
      BY <2>1, <2>3, <3>1, <3>2, KindsDiffer, CostReads
  <2> QED
    BY <1>5, <2>2, <2>3 DEF ensureShipmentCostDoesNotExist
<1>6. CASE ReadAmounts(r)
  <2> DEFINE seen == [basis |-> req[r].seen.basis, sheet |-> sheets[req[r].in.id]]
  <2>1. /\ At(r, "update cost", "amounts") /\ ~Ended(r)
        /\ UNCHANGED <<order, sheets, extras>>
        /\ Goto(r, "rejected") \/ Read(r, "write", seen)
    BY <1>6 DEF ReadAmounts, At, Ended
  <2>2. CASE Goto(r, "rejected")
    BY <2>1, <2>2, SilentMove DEF Silent
  <2>3. CASE Read(r, "write", seen)
    <3>1. Informed(r) => seen.basis = order.totalSaleAmount
      BY <2>1 DEF Informed, CostKnown, CostKinds, At
    <3>2. req[r].kind = "update cost" /\ seen.sheet = sheets[req[r].in.id]
      BY <2>1 DEF At
    <3> HIDE DEF seen
    <3> QED
      BY <2>1, <2>3, <3>1, <3>2, KindsDiffer, CostReads
  <2> HIDE DEF seen
  <2> QED
    BY <2>1, <2>2, <2>3
<1>7. CASE ReadForTotals(r)
  <2> DEFINE s == req[r].in.id
  <2>1. /\ req[r].kind \in ExtraKinds /\ req[r].kind \notin CostKinds /\ ~Ended(r)
        /\ UNCHANGED <<order, sheets, extras>>
    BY <1>7 DEF ReadForTotals, ExtraKinds, CostKinds, Ended
  <2>2. CASE req[r].step = "order"
    <3> DEFINE seen == [basis |-> order.totalSaleAmount]
    <3>1. Read(r, "sum", seen) /\ seen.basis = order.totalSaleAmount
      BY <1>7, <2>2 DEF ReadForTotals
    <3> HIDE DEF seen
    <3> QED
      BY <2>1, <3>1, CostReads
  <2>3. CASE req[r].step = "sum"
    <3> DEFINE seen == [basis |-> req[r].seen.basis, sum |-> SumOf(extras[s])]
    <3>1. Read(r, "read", seen) /\ seen.sum = SumOf(extras[s])
      BY <1>7, <2>3 DEF ReadForTotals
    <3>2. Informed(r) => seen.basis = order.totalSaleAmount
      BY <2>1, <2>3 DEF Informed, TotalsKnown
    <3> HIDE DEF seen
    <3> QED
      BY <2>1, <3>1, <3>2, CostReads
  <2>4. CASE req[r].step = "read"
    <3> DEFINE seen == [basis |-> req[r].seen.basis, sum |-> req[r].seen.sum,
                        sheet |-> sheets[s]]
    <3>1. CASE HasSheet(s)
      <4>1. Read(r, "total", seen)
        BY <1>7, <2>4, <3>1 DEF ReadForTotals
      <4>2. /\ seen.sheet = sheets[s]
            /\ Informed(r) => /\ seen.basis = order.totalSaleAmount
                              /\ seen.sum = SumOf(extras[s])
        BY <2>1, <2>4 DEF Informed, TotalsKnown
      <4> HIDE DEF seen
      <4> QED
        BY <2>1, <4>1, <4>2, CostReads
    <3>2. CASE ~HasSheet(s)
      <4>1. Goto(r, "rejected")
        BY <1>7, <2>4, <3>2 DEF ReadForTotals
      <4> QED
        BY <2>1, <4>1, SilentMove DEF Silent
    <3> QED
      BY <3>1, <3>2
  <2> QED
    BY <1>7, <2>2, <2>3, <2>4 DEF ReadForTotals
<1>8. CASE InsertCost(r)
  BY <1>8, SilentMove DEF InsertCost, At, Ended, Silent
<1>9. CASE UpdateCost(r)
  BY <1>9, SilentMove DEF UpdateCost, At, Ended, Silent
<1>10. CASE RecordCostHistory(r)
  BY <1>10, SilentMove DEF RecordCostHistory, At, Ended, Silent
<1>11. CASE InsertExtra(r)
  BY <1>11, SilentMove DEF InsertExtra, At, Ended, Silent
<1>12. CASE UpdateExtra(r)
  BY <1>12, SilentMove DEF UpdateExtra, At, Ended, Silent
<1>13. CASE RecordExtraHistory(r)
  BY <1>13, SilentMove DEF RecordExtraHistory, At, Ended, Silent
<1>14. CASE WriteTotals(r)
  BY <1>14, SilentMove DEF WriteTotals, Ended, Silent
<1> QED
  BY <1>1, <1>2, <1>3, <1>4, <1>5, <1>6, <1>7, <1>8, <1>9, <1>10, <1>11, <1>12,
     <1>13, <1>14 DEF KeepCosts

-----------------------------------------------------------------------------
(* Shipments                                                                *)

LEMMA BasisKept ==
    ASSUME UNCHANGED <<order, sheets>>, NEW s
    PROVE  /\ resolveGpSaleBasis' = resolveGpSaleBasis
           /\ SheetOf(s)' = SheetOf(s)
  BY DEF resolveGpSaleBasis, SheetOf, HasSheet

\* After a step of r that reads, what it has seen is what is stored.
LEMMA ShipmentReads ==
    ASSUME LoneInv, NEW r \in Requests, NEW kind \in Moving, NEW step, NEW seen,
           req'[r].kind = kind, req'[r].step = step, req'[r].seen = seen,
           UNCHANGED <<order, sheets>>,
           step = "insert" => shipments' = <<>>,
           step = "write" => seen.row = shipments'[seen.id],
           step \in {"write", "cost"} =>
               seen.sheet = SheetOf(seen.id) /\ seen.basis = resolveGpSaleBasis
    PROVE  Informed(r)'
<1>1. ShipmentKnown(r)'
  BY BasisKept DEF ShipmentKnown, SheetOf, HasSheet
<1>2. OrderKnown(r)' /\ CostKnown(r)' /\ TotalsKnown(r)' /\ TransitKnown(r)'
  BY KindsDiffer DEF OrderKnown, CostKnown, TotalsKnown, TransitKnown, At
<1> QED
  BY <1>1, <1>2 DEF Informed

LEMMA ShipmentsLone ==
    ASSUME LoneInv, [Next]_vars, NEW r \in Requests, MoveShipment(r)
    PROVE  LoneInv'
<1>1. CASE BeginCreateShipment(r)
  <2>1. PICK in : Arrive(r, Slot("create shipment", "insert", in, Nothing))
    BY <1>1, Zenon DEF BeginCreateShipment
  <2>2. /\ req[r].step = "idle" /\ shipments' = <<>>
        /\ UNCHANGED <<order, sheets>>
    BY <1>1 DEF BeginCreateShipment
  <2>3. Comes(r)
    BY <2>1, <2>2, LoneParts, ArriveComes
  <2>4. /\ req'[r].kind = "create shipment" /\ req'[r].step = "insert"
        /\ req'[r].seen = Nothing
    BY <2>1, LoneParts, ArriveStep
  <2>5. Informed(r)'
    BY <2>2, <2>4, KindsDiffer, ShipmentReads
  <2> QED
    BY <2>3, <2>5, LoneCome
<1>2. CASE BeginUpdateStatus(r)
  <2>1. PICK s \in DOMAIN shipments, in \in StatusInputs :
           Arrive(r, Slot("shipment status",
                 IF shipments[s].status # in.status \/ in.carrierName \/ in.proNumber
                 THEN "write" ELSE "cost",
                 in, [id |-> s, row |-> shipments[s], sheet |-> SheetOf(s),
                      basis |-> resolveGpSaleBasis]))
    BY <1>2 DEF BeginUpdateStatus
  <2> DEFINE step == IF shipments[s].status # in.status \/ in.carrierName \/ in.proNumber
                     THEN "write" ELSE "cost"
             seen == [id |-> s, row |-> shipments[s], sheet |-> SheetOf(s),
                      basis |-> resolveGpSaleBasis]
  <2>2. step \in {"write", "cost"}
    OBVIOUS
  <2>3. /\ seen.row = shipments[seen.id] /\ seen.sheet = SheetOf(seen.id)
        /\ seen.basis = resolveGpSaleBasis
    OBVIOUS
  <2>4. Arrive(r, Slot("shipment status", step, in, seen))
    BY <2>1
  <2>5. req[r].step = "idle" /\ UNCHANGED <<order, sheets, shipments>>
    BY <1>2 DEF BeginUpdateStatus
  <2> HIDE DEF step, seen
  <2>6. Comes(r)
    BY <2>4, <2>5, LoneParts, ArriveComes
  <2>7. /\ req'[r].kind = "shipment status" /\ req'[r].step = step
        /\ req'[r].seen = seen
    BY <2>4, LoneParts, ArriveStep
  <2>8. Informed(r)'
    BY <2>2, <2>3, <2>5, <2>7, KindsDiffer, ShipmentReads
  <2> QED
    BY <2>6, <2>8, LoneCome
<1>3. CASE InsertShipment(r)
  <2> DEFINE n == Len(shipments)
             step == IF hasCostPayload(req[r].in) THEN "cost" ELSE "note"
             seen == [id |-> n + 1, basis |-> resolveGpSaleBasis, sheet |-> NoSheet]
  <2>1. /\ Read(r, step, seen) /\ At(r, "create shipment", "insert")
        /\ UNCHANGED <<order, sheets>>
    BY <1>3 DEF InsertShipment
  <2>2. n + 1 \notin DOMAIN sheets
    <3>1. DOMAIN shipments = 1 .. n /\ n \in Nat
      BY LoneParts DEF ShipmentsTyped
    <3>2. DOMAIN sheets \subseteq DOMAIN shipments
      BY LoneParts DEF RowsTyped, SheetsTyped
    <3> HIDE DEF n
    <3> QED
      BY <3>1, <3>2
  <2>3. seen.sheet = SheetOf(seen.id) /\ seen.basis = resolveGpSaleBasis
    BY <2>2 DEF SheetOf, HasSheet
  <2>4. step \in {"cost", "note"}
    OBVIOUS
  <2> HIDE DEF seen, step
  <2>5. Moves(r)
    BY <2>1, LoneParts, ReadMoves DEF At, Ended
  <2>6. /\ req'[r].kind = "create shipment" /\ req'[r].step = step
        /\ req'[r].seen = seen
    BY ZenonT(60), <2>1, LoneParts, ReadStep DEF SameCall, At
  <2>7. Informed(r)'
    BY <2>1, <2>3, <2>4, <2>6, KindsDiffer, ShipmentReads
  <2> QED
    BY <2>5, <2>7, LoneMove
<1>4. CASE WriteStatus(r)
  <2> DEFINE in == req[r].in
             s == req[r].seen.id
             seenRow == req[r].seen.row
             step == IF hasCostPayload(in) THEN "cost" ELSE "note"
             seen == [id |-> s, row |-> seenRow, basis |-> resolveGpSaleBasis,
                      sheet |-> IF seenRow.status # in.status /\ HasSheet(s)
                                THEN sheets[s] ELSE req[r].seen.sheet]
  <2>1. /\ Read(r, step, seen) /\ At(r, "shipment status", "write")
        /\ UNCHANGED <<order, sheets>>
    BY <1>4 DEF WriteStatus
  <2>2. ASSUME Informed(r)
        PROVE  seen.sheet = SheetOf(seen.id) /\ seen.basis = resolveGpSaleBasis
    <3>1. req[r].seen.sheet = SheetOf(s)
      BY <2>1, <2>2, KindsDiffer DEF Informed, ShipmentKnown, At
    <3> QED
      BY <3>1 DEF SheetOf
  <2>3. step \in {"cost", "note"}
    OBVIOUS
  <2> HIDE DEF seen, step
  <2>4. Moves(r)
    BY <2>1, LoneParts, ReadMoves DEF At, Ended
  <2>5. /\ req'[r].kind = "shipment status" /\ req'[r].step = step
        /\ req'[r].seen = seen
    BY ZenonT(60), <2>1, LoneParts, ReadStep DEF SameCall, At
  <2>6. Informed(r) => Informed(r)'
    BY <2>1, <2>2, <2>3, <2>5, KindsDiffer, ShipmentReads
  <2> QED
    BY <2>4, <2>6, LoneMove
<1>5. CASE UpsertCost(r)
  BY <1>5, SilentMove DEF UpsertCost, Ended, Silent
<1>6. CASE NoteShipment(r)
  BY <1>6, SilentMove DEF NoteShipment, Ended, Silent
<1> QED
  BY <1>1, <1>2, <1>3, <1>4, <1>5, <1>6 DEF MoveShipment

LEMMA LoneStart == Init => LoneInv
<1> SUFFICES ASSUME Init
             PROVE  LoneInv
  OBVIOUS
<1>1. \A r \in Requests : Ended(r)
  BY DEF Init, Slot, Ended
<1> QED
  BY <1>1, TypeInvStart DEF LoneInv, Solitary, Alone

LEMMA LoneNext == LoneInv /\ [Next]_vars => LoneInv'
<1> SUFFICES ASSUME LoneInv, [Next]_vars
             PROVE  LoneInv'
  OBVIOUS
<1>1. ASSUME NEW r \in Requests,
             EditOrder(r) \/ MoveShipment(r) \/ KeepCosts(r) \/ KeepReplacement(r)
                 \/ Fail(r)
      PROVE  LoneInv'
  BY <1>1, EditsLone, ShipmentsLone, CostsLone, ReplacementsLone, FailLone
<1>2. CASE UNCHANGED vars
  <2>1. TypeInv'
    BY LoneParts, TypeInvNext
  <2>2. Solitary'
    BY <1>2, LoneParts DEF vars, Solitary, Sole, Alone, Ended
  <2>3. ASSUME NEW r \in Requests
        PROVE  (Alone(r) => Informed(r))'
    <3>1. Alone(r)' => Informed(r)
      BY <1>2 DEF vars, LoneInv, Alone, Ended
    <3>2. OrderKnown(r) => OrderKnown(r)'
      BY <1>2 DEF vars, OrderKnown
    <3>3. ShipmentKnown(r) => ShipmentKnown(r)'
      BY <1>2 DEF vars, ShipmentKnown, SheetOf, HasSheet, resolveGpSaleBasis
    <3>4. CostKnown(r) => CostKnown(r)'
      BY <1>2 DEF vars, CostKnown
    <3>5. TotalsKnown(r) => TotalsKnown(r)'
      <4>1. SumOf(extras[req[r].in.id])' = SumOf(extras[req[r].in.id])
        BY <1>2 DEF vars, SumOf, MapThenFoldSet
      <4> QED
        BY <1>2, <4>1 DEF vars, TotalsKnown
    <3>6. TransitKnown(r) => TransitKnown(r)'
      BY <1>2 DEF vars, TransitKnown, At, ensureTransitDetails, Merge, NoReplacement
    <3> QED
      BY <3>1, <3>2, <3>3, <3>4, <3>5, <3>6 DEF Informed
  <2> QED
    BY <2>1, <2>2, <2>3 DEF LoneInv
<1> QED
  BY <1>1, <1>2 DEF Next

LEMMA LoneInvariant == Spec => []LoneInv
  BY LoneStart, LoneNext, PTL DEF Spec

-----------------------------------------------------------------------------
(* Who writes what, and who is the lone request of a step.                  *)

\* r arrives or takes a step, and writes what its service writes.
Acts(r) ==
    /\ Moves(r) \/ Comes(r)
    /\ UNCHANGED order \/ WriteOrder(r)
    /\ UNCHANGED shipments \/ InsertShipment(r) \/ WriteStatus(r)
    /\ UNCHANGED sheets \/ InsertCost(r) \/ UpdateCost(r) \/ WriteTotals(r) \/ UpsertCost(r)
    /\ UNCHANGED replacement \/ InsertReplacement(r) \/ WriteReplacement(r)

LEMMA EditActs ==
    ASSUME ReqShape, NEW r \in Requests, EditOrder(r)
    PROVE  Acts(r)
<1>1. CASE BeginUpdate(r)
  <2>1. Comes(r)
    BY <1>1, ArriveComes, Zenon DEF BeginUpdate
  <2> QED
    BY <1>1, <2>1 DEF BeginUpdate, Acts
<1>2. CASE BeginCancel(r)
  <2>1. Comes(r)
    BY <1>2, ArriveComes, Zenon DEF BeginCancel
  <2> QED
    BY <1>2, <2>1 DEF BeginCancel, Acts
<1>3. CASE BeginRefund(r)
  <2>1. Comes(r)
    BY <1>3, ArriveComes, Zenon DEF BeginRefund
  <2> QED
    BY <1>3, <2>1 DEF BeginRefund, Acts
<1>4. CASE ReadIntake(r)
  <2>1. Moves(r)
    BY <1>4, GotoMoves, ReadMoves DEF ReadIntake, At, Ended
  <2> QED
    BY <1>4, <2>1 DEF ReadIntake, Acts
<1>5. CASE WriteOrder(r)
  <2>1. Moves(r)
    BY <1>5, GotoMoves, ReadMoves DEF WriteOrder, At, Ended
  <2> QED
    BY <1>5, <2>1 DEF WriteOrder, Acts
<1>6. CASE NoteOrder(r)
  <2>1. Moves(r)
    BY <1>6, GotoMoves, ReadMoves DEF NoteOrder, At, Ended
  <2> QED
    BY <1>6, <2>1 DEF NoteOrder, Acts
<1> QED
  BY <1>1, <1>2, <1>3, <1>4, <1>5, <1>6 DEF EditOrder

LEMMA ShipmentActs ==
    ASSUME ReqShape, NEW r \in Requests, MoveShipment(r)
    PROVE  Acts(r)
<1>1. CASE BeginCreateShipment(r)
  <2>1. Comes(r)
    BY <1>1, ArriveComes, Zenon DEF BeginCreateShipment
  <2> QED
    BY <1>1, <2>1 DEF BeginCreateShipment, Acts
<1>2. CASE InsertShipment(r)
  <2>1. Moves(r)
    BY <1>2, GotoMoves, ReadMoves DEF InsertShipment, At, Ended
  <2> QED
    BY <1>2, <2>1 DEF InsertShipment, Acts
<1>3. CASE BeginUpdateStatus(r)
  <2>1. Comes(r)
    BY <1>3, ArriveComes, Zenon DEF BeginUpdateStatus
  <2> QED
    BY <1>3, <2>1 DEF BeginUpdateStatus, Acts
<1>4. CASE WriteStatus(r)
  <2>1. Moves(r)
    BY <1>4, GotoMoves, ReadMoves DEF WriteStatus, At, Ended
  <2> QED
    BY <1>4, <2>1 DEF WriteStatus, Acts
<1>5. CASE UpsertCost(r)
  <2>1. Moves(r)
    BY <1>5, GotoMoves, ReadMoves DEF UpsertCost, At, Ended
  <2> QED
    BY <1>5, <2>1 DEF UpsertCost, Acts
<1>6. CASE NoteShipment(r)
  <2>1. Moves(r)
    BY <1>6, GotoMoves, ReadMoves DEF NoteShipment, At, Ended
  <2> QED
    BY <1>6, <2>1 DEF NoteShipment, Acts
<1> QED
  BY <1>1, <1>2, <1>3, <1>4, <1>5, <1>6 DEF MoveShipment

LEMMA CostActs ==
    ASSUME ReqShape, NEW r \in Requests, KeepCosts(r)
    PROVE  Acts(r)
<1>1. CASE BeginCreateCost(r)
  <2>1. Comes(r)
    BY <1>1, ArriveComes, Zenon DEF BeginCreateCost
  <2> QED
    BY <1>1, <2>1 DEF BeginCreateCost, Acts
<1>2. CASE ensureShipmentCostDoesNotExist(r)
  <2>1. Moves(r)
    BY <1>2, GotoMoves, ReadMoves DEF ensureShipmentCostDoesNotExist, At, Ended
  <2> QED
    BY <1>2, <2>1 DEF ensureShipmentCostDoesNotExist, Acts
<1>3. CASE InsertCost(r)
  <2>1. Moves(r)
    BY <1>3, GotoMoves, ReadMoves DEF InsertCost, At, Ended
  <2> QED
    BY <1>3, <2>1 DEF InsertCost, Acts
<1>4. CASE BeginUpdateCost(r)
  <2>1. Comes(r)
    BY <1>4, ArriveComes, Zenon DEF BeginUpdateCost
  <2> QED
    BY <1>4, <2>1 DEF BeginUpdateCost, Acts
<1>5. CASE ReadAmounts(r)
  <2>1. Moves(r)
    BY <1>5, GotoMoves, ReadMoves DEF ReadAmounts, At, Ended
  <2> QED
    BY <1>5, <2>1 DEF ReadAmounts, Acts
<1>6. CASE UpdateCost(r)
  <2>1. Moves(r)
    BY <1>6, GotoMoves, ReadMoves DEF UpdateCost, At, Ended
  <2> QED
    BY <1>6, <2>1 DEF UpdateCost, Acts
<1>7. CASE RecordCostHistory(r)
  <2>1. Moves(r)
    BY <1>7, GotoMoves, ReadMoves DEF RecordCostHistory, At, Ended
  <2> QED
    BY <1>7, <2>1 DEF RecordCostHistory, Acts
<1>8. CASE BeginCreateExtra(r)
  <2>1. Comes(r)
    BY <1>8, ArriveComes, Zenon DEF BeginCreateExtra
  <2> QED
    BY <1>8, <2>1 DEF BeginCreateExtra, Acts
<1>9. CASE InsertExtra(r)
  <2>1. Moves(r)
    BY <1>9, GotoMoves, ReadMoves DEF InsertExtra, At, Ended
  <2> QED
    BY <1>9, <2>1 DEF InsertExtra, Acts
<1>10. CASE BeginUpdateExtra(r)
  <2>1. Comes(r)
    BY <1>10, ArriveComes, Zenon DEF BeginUpdateExtra
  <2> QED
    BY <1>10, <2>1 DEF BeginUpdateExtra, Acts
<1>11. CASE UpdateExtra(r)
  <2>1. Moves(r)
    BY <1>11, GotoMoves, ReadMoves DEF UpdateExtra, At, Ended
  <2> QED
    BY <1>11, <2>1 DEF UpdateExtra, Acts
<1>12. CASE RecordExtraHistory(r)
  <2>1. Moves(r)
    BY <1>12, GotoMoves, ReadMoves DEF RecordExtraHistory, At, Ended
  <2> QED
    BY <1>12, <2>1 DEF RecordExtraHistory, Acts
<1>13. CASE ReadForTotals(r)
  <2>1. Moves(r)
    BY <1>13, GotoMoves, ReadMoves DEF ReadForTotals, At, Ended
  <2> QED
    BY <1>13, <2>1 DEF ReadForTotals, Acts
<1>14. CASE WriteTotals(r)
  <2>1. Moves(r)
    BY <1>14, GotoMoves, ReadMoves DEF WriteTotals, At, Ended
  <2> QED
    BY <1>14, <2>1 DEF WriteTotals, Acts
<1> QED
  BY <1>1, <1>2, <1>3, <1>4, <1>5, <1>6, <1>7, <1>8, <1>9, <1>10, <1>11, <1>12, <1>13, <1>14 DEF KeepCosts

LEMMA ReplacementActs ==
    ASSUME ReqShape, NEW r \in Requests, KeepReplacement(r)
    PROVE  Acts(r)
<1>1. CASE BeginCreateReplacement(r)
  <2>1. Comes(r)
    BY <1>1, ArriveComes, Zenon DEF BeginCreateReplacement
  <2> QED
    BY <1>1, <2>1 DEF BeginCreateReplacement, Acts
<1>2. CASE InsertReplacement(r)
  <2>1. Moves(r)
    BY <1>2, GotoMoves, ReadMoves DEF InsertReplacement, At, Ended
  <2> QED
    BY <1>2, <2>1 DEF InsertReplacement, Acts
<1>3. CASE BeginUpdateReplacement(r)
  <2>1. Comes(r)
    BY <1>3, ArriveComes, Zenon DEF BeginUpdateReplacement
  <2> QED
    BY <1>3, <2>1 DEF BeginUpdateReplacement, Acts
<1>4. CASE WriteReplacement(r)
  <2>1. Moves(r)
    BY <1>4, GotoMoves, ReadMoves DEF WriteReplacement, At, Ended
  <2> QED
    BY <1>4, <2>1 DEF WriteReplacement, Acts
<1>5. CASE NoteReplacement(r)
  <2>1. Moves(r)
    BY <1>5, GotoMoves, ReadMoves DEF NoteReplacement, At, Ended
  <2> QED
    BY <1>5, <2>1 DEF NoteReplacement, Acts
<1> QED
  BY <1>1, <1>2, <1>3, <1>4, <1>5 DEF KeepReplacement

LEMMA SomeoneActs ==
    ASSUME ReqShape, Next
    PROVE  \E r \in Requests : Acts(r)
<1>1. PICK r \in Requests :
         EditOrder(r) \/ MoveShipment(r) \/ KeepCosts(r) \/ KeepReplacement(r)
             \/ Fail(r)
  BY DEF Next
<1>2. Fail(r) => Acts(r)
  BY GotoMoves DEF Fail, Acts
<1> QED
  BY <1>1, <1>2, EditActs, ShipmentActs, CostActs, ReplacementActs

LEMMA LoneActs ==
    ASSUME LoneInv, NEW r \in Requests, Acts(r), NEW q \in Requests, Lone(q)
    PROVE  q = r /\ Informed(r) /\ CallTyped(r)
<1>1. Moves(r)
  BY NewcomerIsAlone DEF Acts
<1>2. q = r /\ Alone(r)
  BY <1>1, LoneParts, MoverIsAlone
<1> QED
  BY <1>2, LoneParts DEF LoneInv

-----------------------------------------------------------------------------
(* What each write stores.                                                  *)

\* Only the sheet of s changes; what it becomes is balanced.
SheetWritten(s, new) ==
    /\ s \in DOMAIN shipments /\ new \in Sheet
    /\ DOMAIN sheets \subseteq DOMAIN sheets'
    /\ DOMAIN sheets' \subseteq DOMAIN sheets \union {s}
    /\ sheets'[s] = new
    /\ \A t \in DOMAIN sheets : t # s => sheets'[t] = sheets[t]

BalancedAs(new, basis) == new.grossProfit + Effective(new) = basis

LEMMA ProfitBalances ==
    ASSUME NEW sheet \in Sheet, NEW basis \in Int, NEW notes \in BOOLEAN
    PROVE  LET profit == basis - Effective(sheet)
               one == [sheet EXCEPT !.grossProfit = profit]
               two == [sheet EXCEPT !.grossProfit = profit, !.notes = notes]
           IN  /\ one \in Sheet /\ BalancedAs(one, basis)
               /\ two \in Sheet /\ BalancedAs(two, basis)
<1> DEFINE profit == basis - Effective(sheet)
           one == [sheet EXCEPT !.grossProfit = profit]
           two == [sheet EXCEPT !.grossProfit = profit, !.notes = notes]
<1>1. Effective(sheet) \in Nat
  BY EffectiveTyped
<1>2. profit \in Int /\ profit + Effective(sheet) = basis
  BY <1>1
<1> HIDE DEF profit
<1>3. /\ one \in Sheet /\ Effective(one) = Effective(sheet) /\ one.grossProfit = profit
      /\ two \in Sheet /\ Effective(two) = Effective(sheet) /\ two.grossProfit = profit
  BY <1>2 DEF Sheet, Effective
<1> HIDE DEF one, two
<1>4. BalancedAs(one, basis) /\ BalancedAs(two, basis)
  BY <1>2, <1>3 DEF BalancedAs
<1> QED
  BY <1>3, <1>4 DEF one, two, profit

LEMMA InsertCostStores ==
    ASSUME LoneInv, NEW r \in Requests, InsertCost(r), Informed(r)
    PROVE  \/ sheets' = sheets
           \/ \E new : /\ SheetWritten(req[r].in.id, new)
                       /\ BalancedAs(new, order.totalSaleAmount)
                       /\ req[r].in.id \notin DOMAIN sheets
<1> DEFINE s == req[r].in.id
           sheet == resolveCostAmounts(req[r].in.costs, NoSheet)
           basis == req[r].seen.basis
           new == [sheet EXCEPT !.grossProfit = basis - Effective(sheet)]
<1>1. At(r, "create cost", "insert")
  BY DEF InsertCost
<1>2. /\ s \in DOMAIN shipments /\ IsCostInput(req[r].in.costs) /\ basis \in Nat
  BY <1>1, LoneParts, KindsDiffer DEF CallTyped, CostTyped, At
<1>3. basis = order.totalSaleAmount
  BY <1>1, KindsDiffer DEF Informed, CostKnown, At
<1>4. CASE HasSheet(s)
  BY <1>4 DEF InsertCost
<1>5. CASE ~HasSheet(s)
  <2>1. StoreSheet(s, new)
    BY <1>5 DEF InsertCost
  <2>2. sheet \in Sheet
    BY <1>2, ResolvedSheet, NoSheetTyped
  <2> HIDE DEF sheet
  <2>3. basis \in Int /\ TRUE \in BOOLEAN
    BY <1>2
  <2>4. new \in Sheet /\ BalancedAs(new, basis)
    BY <2>2, <2>3, ProfitBalances
  <2> HIDE DEF new, s, basis
  <2>5. SheetWritten(s, new)
    BY <1>2, <2>1, <2>4 DEF SheetWritten, StoreSheet, s
  <2> QED
    BY <1>3, <1>5, <2>4, <2>5 DEF HasSheet, s
<1> QED
  BY <1>4, <1>5

\* The sheet that updateByShipmentId stores.
Resolved(r) == resolveCostAmounts(req[r].in.costs, sheets[req[r].in.id])

LEMMA UpdateCostStores ==
    ASSUME LoneInv, NEW r \in Requests, UpdateCost(r), Informed(r)
    PROVE  LET s == req[r].in.id
               new == [Resolved(r) EXCEPT !.grossProfit =
                          order.totalSaleAmount - Effective(Resolved(r))]
           IN  /\ SheetWritten(s, new) /\ s \in DOMAIN sheets
               /\ BalancedAs(new, order.totalSaleAmount)
               /\ Resolved(r) \in Sheet /\ sheets[s] \in Sheet
               /\ IsCostInput(req[r].in.costs)
               /\ req[r].seen.sheet = sheets[s]
<1> DEFINE s == req[r].in.id
           in == req[r].in.costs
           sheet == resolveCostAmounts(in, sheets[s])
           basis == order.totalSaleAmount
           new == [sheet EXCEPT !.grossProfit = basis - Effective(sheet)]
<1>1. At(r, "update cost", "write")
  BY DEF UpdateCost
<1>2. /\ s \in DOMAIN shipments /\ IsCostInput(in) /\ s \in DOMAIN sheets
  BY <1>1, LoneParts, KindsDiffer DEF CallTyped, CostTyped, At
<1>3. req[r].seen.basis = basis /\ req[r].seen.sheet = sheets[s]
  BY <1>1, KindsDiffer DEF Informed, CostKnown, At
<1>4. sheets' = [sheets EXCEPT ![s] = new]
  BY <1>3 DEF UpdateCost
<1>5. sheets[s] \in Sheet
  BY <1>2, LoneParts DEF RowsTyped, SheetsTyped
<1>6. sheet \in Sheet
  BY <1>2, <1>5, ResolvedSheet
<1>7. basis \in Int /\ TRUE \in BOOLEAN
  BY LoneParts, BasisTyped
<1> HIDE DEF sheet, basis
<1>8. new \in Sheet /\ BalancedAs(new, basis)
  BY <1>6, <1>7, ProfitBalances
<1> HIDE DEF new
<1>9. SheetWritten(s, new)
  BY <1>2, <1>4, <1>8 DEF SheetWritten
<1> QED
  BY <1>2, <1>3, <1>5, <1>6, <1>8, <1>9 DEF Resolved, sheet, new, basis

LEMMA WriteTotalsStores ==
    ASSUME LoneInv, NEW r \in Requests, WriteTotals(r), Informed(r)
    PROVE  \E new : /\ SheetWritten(req[r].in.id, new)
                    /\ BalancedAs(new, order.totalSaleAmount)
                    /\ new.additionalAmount = SumOf(extras[req[r].in.id])
<1> DEFINE s == req[r].in.id
           basis == order.totalSaleAmount
           sum == SumOf(extras[s])
           sheet == [sheets[s] EXCEPT !.additionalAmount = sum]
           profit == basis - Effective(sheet)
           new == [sheet EXCEPT !.grossProfit = profit]
<1>1. req[r].kind \in ExtraKinds /\ req[r].step = "total"
  BY DEF WriteTotals, ExtraKinds
<1>2. s \in DOMAIN shipments /\ s \in DOMAIN sheets /\ sum \in Nat
  BY <1>1, LoneParts DEF CallTyped, ExtraTyped, Informed, TotalsKnown
<1>3. /\ req[r].seen.basis = basis /\ req[r].seen.sheet = sheets[s]
      /\ req[r].seen.sum = sum
  BY <1>1 DEF Informed, TotalsKnown
<1>4. sheets' = [sheets EXCEPT ![s].additionalAmount = sum, ![s].grossProfit = profit]
  BY <1>3 DEF WriteTotals
<1>5. sheets[s] \in Sheet
  BY <1>2, LoneParts DEF RowsTyped, SheetsTyped
<1>6. sheets' = [sheets EXCEPT ![s] = new]
  <2> HIDE DEF profit, sum
  <2> QED
    BY <1>2, <1>4, <1>5
<1>7. sheet \in Sheet /\ sheet.additionalAmount = sum
  <2> HIDE DEF sum
  <2> QED
    BY <1>2, <1>5 DEF Sheet
<1>8. basis \in Int /\ TRUE \in BOOLEAN
  BY LoneParts, BasisTyped
<1> HIDE DEF sheet, sum
<1>9. new \in Sheet /\ BalancedAs(new, basis)
  BY <1>7, <1>8, ProfitBalances
<1>10. new.additionalAmount = sum
  BY <1>7 DEF Sheet
<1> HIDE DEF new, basis
<1>11. SheetWritten(s, new)
  BY <1>2, <1>6, <1>9 DEF SheetWritten
<1> QED
  BY <1>9, <1>10, <1>11 DEF basis, sum

LEMMA UpsertCostStores ==
    ASSUME LoneInv, NEW r \in Requests, UpsertCost(r), Informed(r)
    PROVE  LET s == req[r].seen.id
               in == req[r].in.costs
           IN  \E new : /\ SheetWritten(s, new)
                        /\ BalancedAs(new, resolveGpSaleBasis)
                        /\ SheetOf(s).hasActual \subseteq new.hasActual
                        /\ \A f \in CostAmounts \ DOMAIN in : new[f] = SheetOf(s)[f]
                        /\ "notes" \notin DOMAIN in => new.notes = SheetOf(s).notes
<1> DEFINE s == req[r].seen.id
           in == req[r].in.costs
           sheet == upserted(in, SheetOf(s))
           basis == resolveGpSaleBasis
           profit == basis - Effective(sheet)
           notes == Merge(SheetOf(s), in).notes
           new == [sheet EXCEPT !.grossProfit = profit, !.notes = notes]
<1>1. req[r].kind \in Moving /\ req[r].step = "cost"
  BY DEF UpsertCost, Moving
<1>2. /\ s \in DOMAIN shipments /\ req[r].in \in StatusInputs
  BY <1>1, LoneParts DEF CallTyped, MovingTyped
<1>3. req[r].seen.sheet = SheetOf(s) /\ req[r].seen.basis = basis
  BY <1>1 DEF Informed, ShipmentKnown
<1>4. StoreSheet(s, new)
  BY <1>3 DEF UpsertCost, Upsert
<1>5. IsCostInput(in) /\ SheetOf(s) \in Sheet
  BY <1>2, StatusInputsAssumption, LoneParts, SheetOfTyped
<1>6. /\ sheet \in Sheet /\ SheetOf(s).hasActual \subseteq sheet.hasActual
      /\ \A f \in CostAmounts \ DOMAIN in : sheet[f] = SheetOf(s)[f]
  BY <1>5, UpsertedSheet
<1>7. /\ notes \in BOOLEAN
      /\ "notes" \notin DOMAIN in => notes = SheetOf(s).notes
  <2>1. /\ Merge(SheetOf(s), in) \in Sheet
        /\ \A f \in SheetFields :
              Merge(SheetOf(s), in)[f] = IF f \in DOMAIN in THEN in[f] ELSE SheetOf(s)[f]
    BY <1>5, MergedSheet
  <2>2. Merge(SheetOf(s), in).notes \in BOOLEAN
    BY <2>1 DEF Sheet
  <2>3. "notes" \in SheetFields
    BY DEF SheetFields
  <2> QED
    BY <2>1, <2>2, <2>3
<1>8. basis \in Int
  BY LoneParts, BasisTyped
<1> HIDE DEF sheet, notes, basis
<1>9. new \in Sheet /\ BalancedAs(new, basis)
  BY <1>6, <1>7, <1>8, ProfitBalances
<1>10. profit \in Int
  BY <1>6, <1>8, EffectiveTyped
<1> HIDE DEF profit
<1>11. /\ new.hasActual = sheet.hasActual /\ new.notes = notes
       /\ \A f \in CostAmounts : new[f] = sheet[f]
  BY <1>6, <1>7, <1>10 DEF Sheet, CostAmounts
<1> HIDE DEF new, s
<1>12. SheetWritten(s, new)
  BY <1>2, <1>4, <1>9 DEF SheetWritten, StoreSheet, s
<1> QED
  BY <1>6, <1>7, <1>9, <1>11, <1>12 DEF s, basis

-----------------------------------------------------------------------------
(* The action properties, step by step.                                     *)

LEMMA StoredIsWritten ==
    ASSUME NEW s, NEW new, SheetWritten(s, new), NEW t, Stored(t)
    PROVE  t = s /\ sheets'[t] = new
  BY DEF SheetWritten, Stored, HasSheet

LEMMA BalancesStep == LoneInv /\ [Next]_vars => [Balances]_vars
<1> SUFFICES ASSUME LoneInv, Next, NEW q \in Requests, NEW t \in ShipmentIds,
                    Lone(q), Stored(t)
             PROVE  /\ Balanced(t)
                    /\ req[q].kind \in {"add extra", "update extra"} =>
                          sheets'[t].additionalAmount = SumOf(extras[t])
  BY DEF Balances
<1>1. PICK r \in Requests : Acts(r)
  BY LoneParts, SomeoneActs
<1>2. q = r /\ Informed(r)
  BY <1>1, LoneActs
<1>3. sheets' # sheets
  BY DEF Stored, HasSheet
<1>4. CASE InsertCost(r)
  <2>1. PICK new : /\ SheetWritten(req[r].in.id, new)
                   /\ BalancedAs(new, order.totalSaleAmount)
    BY <1>2, <1>3, <1>4, InsertCostStores
  <2>2. sheets'[t] = new
    BY <2>1, StoredIsWritten
  <2>3. req[r].kind = "create cost"
    BY <1>4 DEF InsertCost, At
  <2> QED
    BY <1>2, <2>1, <2>2, <2>3 DEF Balanced, BalancedAs
<1>5. CASE UpdateCost(r)
  <2> DEFINE new == [Resolved(r) EXCEPT !.grossProfit =
                        order.totalSaleAmount - Effective(Resolved(r))]
  <2>1. SheetWritten(req[r].in.id, new) /\ BalancedAs(new, order.totalSaleAmount)
    BY <1>2, <1>5, UpdateCostStores
  <2> HIDE DEF new
  <2>2. sheets'[t] = new
    BY <2>1, StoredIsWritten
  <2>3. req[r].kind = "update cost"
    BY <1>5 DEF UpdateCost, At
  <2> QED
    BY <1>2, <2>1, <2>2, <2>3 DEF Balanced, BalancedAs
<1>6. CASE WriteTotals(r)
  <2>1. PICK new : /\ SheetWritten(req[r].in.id, new)
                   /\ BalancedAs(new, order.totalSaleAmount)
                   /\ new.additionalAmount = SumOf(extras[req[r].in.id])
    BY <1>2, <1>6, WriteTotalsStores
  <2>2. t = req[r].in.id /\ sheets'[t] = new
    BY <2>1, StoredIsWritten
  <2> QED
    BY <2>1, <2>2 DEF Balanced, BalancedAs
<1>7. CASE UpsertCost(r)
  <2>1. PICK new : /\ SheetWritten(req[r].seen.id, new)
                   /\ BalancedAs(new, resolveGpSaleBasis)
    BY <1>2, <1>7, UpsertCostStores
  <2>2. sheets'[t] = new
    BY <2>1, StoredIsWritten
  <2>3. req[r].kind \notin {"add extra", "update extra"}
    BY <1>7 DEF UpsertCost
  <2> QED
    BY <1>2, <2>1, <2>2, <2>3 DEF Balanced, BalancedAs
<1> QED
  BY <1>1, <1>3, <1>4, <1>5, <1>6, <1>7 DEF Acts

\* Whatever was stored before, and whatever other requests did to it, costs
\* that CostsService or ShipmentsService stores while no other request runs
\* leave the gross profit that the sale and the costs then amount to.
THEOREM LoneRequestsBalance == Spec => LoneRequestBalances
  BY LoneInvariant, BalancesStep, PTL DEF Spec, LoneRequestBalances

LEMMA OrderWritten ==
    ASSUME LoneInv, NEW r \in Requests, WriteOrder(r), Informed(r)
    PROVE  LET given == req[r].in.intake
           IN  /\ order'.intake \in Intake
               /\ \A f \in DOMAIN order.intake :
                     order'.intake[f] = IF f \in DOMAIN given THEN given[f]
                                        ELSE order.intake[f]
               /\ req[r].kind = "order" /\ req[r].step = "write"
               /\ OrderKnown(r)
<1> DEFINE given == req[r].in.intake
           i == IF DOMAIN given = {} THEN order.intake ELSE Merge(req[r].seen, given)
<1>1. At(r, "order", "write") /\ order' = [Merge(order, req[r].in.columns) EXCEPT !.intake = i]
  BY DEF WriteOrder
<1>2. OrderKnown(r) /\ (DOMAIN given # {} => req[r].seen = order.intake)
  BY <1>1 DEF Informed, OrderKnown, At
<1>3. /\ order.intake \in Intake /\ RefundAgrees(order.intake)
      /\ ColumnsTyped(req[r].in.columns) /\ FieldsAgree(given)
  BY <1>1 DEF LoneInv, TypeInv, OrderInv, EditChecked, At, Order, RefundDetailsAgree
<1>4. i = Merge(order.intake, given)
  <2>1. CASE DOMAIN given = {}
    <3>1. order.intake = [f \in DOMAIN order.intake |-> order.intake[f]]
      BY <1>3 DEF Intake
    <3> QED
      BY <2>1, <3>1 DEF Merge
  <2>2. CASE DOMAIN given # {}
    BY <1>2, <2>2
  <2> QED
    BY <2>1, <2>2
<1>5. i \in Intake
  BY <1>3, <1>4, MergedIntake
<1> HIDE DEF i
<1>6. order'.intake = i
  BY <1>1, <1>3, <1>5, LoneParts, MergedOrder
<1> QED
  BY <1>1, <1>2, <1>4, <1>5, <1>6 DEF Merge, At

LEMMA SheetDomain ==
    ASSUME NEW sheet \in Sheet
    PROVE  DOMAIN sheet = SheetFields
  BY DEF Sheet, SheetFields, CostAmounts

\* The sheets, after a step of a request that moves a shipment or its costs.
SheetsTouched(r) ==
    \A s \in DOMAIN sheets :
        /\ \A f \in DOMAIN sheets[s] \ ({"grossProfit", "hasActual"} \union Given(r)) :
              sheets'[s][f] = sheets[s][f]
        /\ sheets[s].hasActual \subseteq sheets'[s].hasActual

LEMMA UpdateTouches ==
    ASSUME LoneInv, NEW r \in Requests, UpdateCost(r), Informed(r)
    PROVE  SheetsTouched(r)
<1> SUFFICES ASSUME NEW s \in DOMAIN sheets
             PROVE  /\ \A f \in DOMAIN sheets[s]
                              \ ({"grossProfit", "hasActual"} \union Given(r)) :
                          sheets'[s][f] = sheets[s][f]
                    /\ sheets[s].hasActual \subseteq sheets'[s].hasActual
  BY DEF SheetsTouched
<1> DEFINE t == req[r].in.id
           in == req[r].in.costs
           profit == order.totalSaleAmount - Effective(Resolved(r))
           new == [Resolved(r) EXCEPT !.grossProfit = profit]
<1>1. /\ SheetWritten(t, new) /\ t \in DOMAIN sheets
      /\ Resolved(r) \in Sheet /\ sheets[t] \in Sheet /\ IsCostInput(in)
  BY UpdateCostStores
<1>2. CASE s # t
  BY <1>1, <1>2 DEF SheetWritten
<1>3. CASE s = t
  <2>1. /\ Resolved(r).hasActual = sheets[t].hasActual
              \union (DOMAIN in \intersect {"purchaseAmount", "shippingAmount"})
        /\ \A f \in SheetFields \ {"hasActual"} :
              Resolved(r)[f] = IF f \in DOMAIN in THEN in[f] ELSE sheets[t][f]
    BY <1>1, ResolvedSheet DEF Resolved
  <2>2. DOMAIN sheets[t] = SheetFields /\ DOMAIN Resolved(r) = SheetFields
    BY <1>1, SheetDomain
  <2>3. sheets'[t] = new
    BY <1>1 DEF SheetWritten
  <2> HIDE DEF profit
  <2>4. /\ new.hasActual = Resolved(r).hasActual
        /\ \A f \in SheetFields \ {"grossProfit"} : new[f] = Resolved(r)[f]
    BY <2>2 DEF SheetFields
  <2> HIDE DEF new, in
  <2> QED
    BY <1>3, <2>1, <2>2, <2>3, <2>4 DEF Given, in
<1> QED
  BY <1>2, <1>3

LEMMA UpsertTouches ==
    ASSUME LoneInv, NEW r \in Requests, UpsertCost(r), Informed(r)
    PROVE  SheetsTouched(r)
<1> SUFFICES ASSUME NEW s \in DOMAIN sheets
             PROVE  /\ \A f \in DOMAIN sheets[s]
                              \ ({"grossProfit", "hasActual"} \union Given(r)) :
                          sheets'[s][f] = sheets[s][f]
                    /\ sheets[s].hasActual \subseteq sheets'[s].hasActual
  BY DEF SheetsTouched
<1> DEFINE t == req[r].seen.id
           in == req[r].in.costs
<1>1. PICK new : /\ SheetWritten(t, new)
                 /\ SheetOf(t).hasActual \subseteq new.hasActual
                 /\ \A f \in CostAmounts \ DOMAIN in : new[f] = SheetOf(t)[f]
                 /\ "notes" \notin DOMAIN in => new.notes = SheetOf(t).notes
  BY UpsertCostStores
<1>2. CASE s # t
  BY <1>1, <1>2 DEF SheetWritten
<1>3. CASE s = t
  <2>1. SheetOf(t) = sheets[s]
    BY <1>3 DEF SheetOf, HasSheet
  <2>2. DOMAIN sheets[s] = SheetFields
    BY LoneParts, SheetDomain DEF RowsTyped, SheetsTyped
  <2>3. sheets'[s] = new
    BY <1>1, <1>3 DEF SheetWritten
  <2> HIDE DEF in, t
  <2>4. ASSUME NEW f \in SheetFields \ ({"grossProfit", "hasActual"} \union DOMAIN in)
        PROVE  new[f] = sheets[s][f]
    <3>1. f \in CostAmounts \/ f = "notes"
      BY DEF SheetFields
    <3> QED
      BY <1>1, <2>1, <3>1
  <2> QED
    BY <1>1, <2>1, <2>2, <2>3, <2>4 DEF Given, in
<1> QED
  BY <1>2, <1>3

LEMMA DatesKept ==
    ASSUME LoneInv, NEW r \in Requests, Acts(r), Informed(r),
           NEW s \in DOMAIN shipments, shipments[s].shippedAt # Nobody
    PROVE  shipments'[s].shippedAt = shipments[s].shippedAt
<1>1. shipments \in Seq(Shipment)
  BY LoneParts DEF ShipmentsTyped
<1>2. CASE InsertShipment(r)
  <2>1. PICK row : shipments' = Append(shipments, row)
    BY <1>2 DEF InsertShipment
  <2> QED
    BY <1>1, <2>1
<1>3. CASE WriteStatus(r)
  <2> DEFINE t == req[r].seen.id
             in == req[r].in
             new == Updated(shipments[t], in, req[r].seen.row, r)
  <2>1. /\ shipments' = [shipments EXCEPT ![t] = new]
        /\ At(r, "shipment status", "write")
    BY <1>3 DEF WriteStatus
  <2>2. req[r].seen.row = shipments[t]
    BY <2>1, KindsDiffer DEF Informed, ShipmentKnown, At
  <2>3. CASE s = t
    <3>1. shipments[s] \in Shipment
      BY <1>1
    <3>2. Updated(shipments[s], in, shipments[s], r).shippedAt = shipments[s].shippedAt
      BY <3>1 DEF Updated, Shipment
    <3> QED
      BY <2>1, <2>2, <2>3, <3>2
  <2>4. CASE s # t
    BY <2>1, <2>4
  <2> QED
    BY <2>3, <2>4
<1> QED
  BY <1>2, <1>3 DEF Acts

LEMMA TouchesOnlyGivenStep == LoneInv /\ [Next]_vars => [TouchesOnlyGiven]_vars
<1> SUFFICES ASSUME LoneInv, Next, NEW q \in Requests, Lone(q)
             PROVE  /\ req[q].kind = "order" =>
                          \A f \in DOMAIN order.intake \ DOMAIN req[q].in.intake :
                              order'.intake[f] = order.intake[f]
                    /\ req[q].kind \in {"create shipment", "shipment status", "update cost"} =>
                          SheetsTouched(q)
                    /\ \A s \in DOMAIN shipments :
                          shipments[s].shippedAt # Nobody =>
                              shipments'[s].shippedAt = shipments[s].shippedAt
  BY DEF TouchesOnlyGiven, SheetsTouched
<1>1. PICK r \in Requests : Acts(r)
  BY LoneParts, SomeoneActs
<1>2. q = r /\ Informed(r)
  BY <1>1, LoneActs
<1>3. \A f \in DOMAIN order.intake \ DOMAIN req[r].in.intake :
         order'.intake[f] = order.intake[f]
  BY <1>1, <1>2, OrderWritten DEF Acts
<1>4. ASSUME req[r].kind \in {"create shipment", "shipment status", "update cost"}
      PROVE  SheetsTouched(r)
  <2>1. CASE UNCHANGED sheets
    BY <2>1 DEF SheetsTouched
  <2>2. ~InsertCost(r) /\ ~WriteTotals(r)
    BY <1>4 DEF InsertCost, WriteTotals, At
  <2> QED
    BY <1>1, <1>2, <2>1, <2>2, UpdateTouches, UpsertTouches DEF Acts
<1> QED
  BY <1>1, <1>2, <1>3, <1>4, DatesKept

\* OrdersRepository.update rewrites the JSON column and upsertShipmentCost
\* every amount; a lone request still changes nothing that it does not give.
THEOREM LoneRequestsTouchOnlyGiven == Spec => LoneRequestTouchesOnlyGiven
  BY LoneInvariant, TouchesOnlyGivenStep, PTL DEF Spec, LoneRequestTouchesOnlyGiven

LEMMA KeepsRulesStep == LoneInv /\ [Next]_vars => [KeepsRules]_vars
<1> SUFFICES ASSUME LoneInv, Next, NEW q \in Requests, Lone(q)
             PROVE  /\ Len(shipments') > Len(shipments) => shipments = <<>>
                    /\ req[q].kind = "order" /\ order' # order =>
                          /\ req[q].in.role = "SALES" =>
                                order.intake.vehicleVin \in {0, order'.intake.vehicleVin}
                          /\ order'.intake.refundDeductionAmount
                                   # order.intake.refundDeductionAmount =>
                                order'.intake.refundDeductionAmount <= order.totalSaleAmount
                    /\ replacement' # replacement => ensureTransitDetails(replacement')
  BY DEF KeepsRules, ensureTransitDetails
<1>1. PICK r \in Requests : Acts(r)
  BY LoneParts, SomeoneActs
<1>2. q = r /\ Informed(r)
  BY <1>1, LoneActs
<1>3. Len(shipments') > Len(shipments) => shipments = <<>>
  <2>1. shipments \in Seq(Shipment)
    BY LoneParts DEF ShipmentsTyped
  <2>2. CASE UNCHANGED shipments
    BY <2>1, <2>2
  <2>3. CASE InsertShipment(r)
    BY <1>2, <2>3, KindsDiffer DEF InsertShipment, Informed, ShipmentKnown, At
  <2>4. CASE WriteStatus(r)
    <3>1. PICK t, new : shipments' = [shipments EXCEPT ![t] = new]
      BY <2>4 DEF WriteStatus
    <3>2. Len(shipments') = Len(shipments)
      BY <2>1, <3>1
    <3> QED
      BY <2>1, <3>2
  <2> QED
    BY <1>1, <2>2, <2>3, <2>4 DEF Acts
<1>4. ASSUME order' # order
      PROVE  /\ req[r].in.role = "SALES" =>
                   order.intake.vehicleVin \in {0, order'.intake.vehicleVin}
             /\ order'.intake.refundDeductionAmount
                      # order.intake.refundDeductionAmount =>
                   order'.intake.refundDeductionAmount <= order.totalSaleAmount
  <2>1. WriteOrder(r)
    BY <1>1, <1>4 DEF Acts
  <2> DEFINE given == req[r].in.intake
  <2>2. /\ \A f \in DOMAIN order.intake :
              order'.intake[f] = IF f \in DOMAIN given THEN given[f] ELSE order.intake[f]
        /\ req[r].kind = "order" /\ req[r].step = "write" /\ OrderKnown(r)
    BY <1>2, <2>1, OrderWritten
  <2>3. "vehicleVin" \in DOMAIN order.intake /\ "refundDeductionAmount" \in DOMAIN order.intake
    BY LoneParts DEF Order, Intake
  <2>4. /\ req[r].in.role = "SALES" /\ "vehicleVin" \in DOMAIN given =>
              order.intake.vehicleVin = 0
        /\ "refundDeductionAmount" \in DOMAIN given =>
              given.refundDeductionAmount <= order.totalSaleAmount
    BY <2>2 DEF OrderKnown
  <2> HIDE DEF given
  <2> QED
    BY <2>2, <2>3, <2>4
<1>5. replacement' # replacement => ensureTransitDetails(replacement)'
  <2>1. CASE InsertReplacement(r)
    BY <1>2, <2>1 DEF InsertReplacement, Informed, TransitKnown, ensureTransitDetails
  <2>2. CASE WriteReplacement(r)
    BY <1>2, <2>2 DEF WriteReplacement, Informed, TransitKnown, ensureTransitDetails
  <2> QED
    BY <1>1, <2>1, <2>2 DEF Acts
<1> QED
  BY <1>2, <1>3, <1>4, <1>5 DEF ensureTransitDetails

\* The rules that OrdersService, ShipmentsService and ReplacementsService
\* check on rows they read hold of what a lone request stores.
THEOREM LoneRequestsKeepRules == Spec => LoneRequestKeepsRules
  BY LoneInvariant, KeepsRulesStep, PTL DEF Spec, LoneRequestKeepsRules

\* What buildBaseCostChanges does not count as a change leaves the effective
\* costs, but for an actual amount equal to the unused one stored.
LEMMA UnchangedCosts ==
    ASSUME NEW sheet \in Sheet, NEW in, IsCostInput(in), ~CostChanges(in, sheet),
           ~UnusedAmountGiven(in, sheet)
    PROVE  Effective(resolveCostAmounts(in, sheet)) = Effective(sheet)
<1> DEFINE new == resolveCostAmounts(in, sheet)
           Actual == {"purchaseAmount", "shippingAmount"}
<1>1. /\ new.hasActual = sheet.hasActual \union (DOMAIN in \intersect Actual)
      /\ \A f \in SheetFields \ {"hasActual"} :
            new[f] = IF f \in DOMAIN in THEN in[f] ELSE sheet[f]
  BY ResolvedSheet
<1> HIDE DEF new
<1>2. \A f \in DOMAIN in \ {"notes"} :
         \/ in[f] = sheet[f]
         \/ f = "estimatedPurchaseAmount" /\ "purchaseAmount" \in sheet.hasActual
         \/ f = "estimatedShippingAmount" /\ "shippingAmount" \in sheet.hasActual
  BY DEF CostChanges
<1>3. \A f \in Actual : f \in DOMAIN in => in[f] = sheet[f]
  BY <1>2
<1>4. \A f \in Actual : f \in DOMAIN in => f \in sheet.hasActual
  BY <1>3 DEF UnusedAmountGiven
<1>5. new.hasActual = sheet.hasActual
  BY <1>1, <1>4 DEF Sheet
<1>6. /\ new.purchaseAmount = sheet.purchaseAmount
      /\ new.shippingAmount = sheet.shippingAmount
      /\ new.additionalAmount = sheet.additionalAmount
  BY <1>1, <1>2 DEF SheetFields, CostAmounts
<1>7. "purchaseAmount" \notin sheet.hasActual =>
         new.estimatedPurchaseAmount = sheet.estimatedPurchaseAmount
  BY <1>1, <1>2 DEF SheetFields, CostAmounts
<1>8. "shippingAmount" \notin sheet.hasActual =>
         new.estimatedShippingAmount = sheet.estimatedShippingAmount
  BY <1>1, <1>2 DEF SheetFields, CostAmounts
<1>9. Effective(new) = Effective(sheet)
  BY <1>5, <1>6, <1>7, <1>8 DEF Effective
<1> QED
  BY <1>9 DEF new

LEMMA ChangeIsLoggedStep == LoneInv /\ [Next]_vars => [ChangeIsLogged]_vars
<1> SUFFICES ASSUME LoneInv, Next, NEW q \in Requests, NEW s \in DOMAIN sheets,
                    Lone(q), At(q, "update cost", "write"),
                    Effective(sheets'[s]) # Effective(sheets[s]),
                    ~UnusedAmountGiven(req[q].in.costs, sheets[s])
             PROVE  req'[q].step = "history"
  BY DEF ChangeIsLogged
<1>1. PICK r \in Requests : Acts(r)
  BY LoneParts, SomeoneActs
<1>2. q = r /\ Informed(r)
  BY <1>1, LoneActs
<1>3. sheets' # sheets
  OBVIOUS
<1>4. UpdateCost(r)
  BY <1>1, <1>2, <1>3 DEF Acts, InsertCost, WriteTotals, UpsertCost, At
<1> DEFINE t == req[r].in.id
           in == req[r].in.costs
           profit == order.totalSaleAmount - Effective(Resolved(r))
           new == [Resolved(r) EXCEPT !.grossProfit = profit]
<1>5. /\ SheetWritten(t, new) /\ t \in DOMAIN sheets
      /\ Resolved(r) \in Sheet /\ sheets[t] \in Sheet /\ IsCostInput(in)
      /\ req[r].seen.sheet = sheets[t]
  BY <1>2, <1>4, UpdateCostStores
<1> HIDE DEF profit
<1>6. Effective(new) = Effective(Resolved(r))
  BY <1>5 DEF Sheet, Effective
<1> HIDE DEF new
<1>7. s = t /\ sheets'[t] = new
  BY <1>5 DEF SheetWritten
<1>8. Effective(Resolved(r)) # Effective(sheets[t])
  BY <1>6, <1>7
<1>9. ~UnusedAmountGiven(in, sheets[t])
  BY <1>2, <1>7
<1>10. CostChanges(in, sheets[t])
  BY <1>5, <1>8, <1>9, UnchangedCosts DEF Resolved
<1>11. Goto(r, IF CostChanges(in, req[r].seen.sheet) THEN "history" ELSE "done")
  BY <1>4 DEF UpdateCost
<1>12. Goto(r, "history")
  BY <1>5, <1>10, <1>11
<1> QED
  BY <1>2, <1>12, LoneParts, GotoStep

\* updateByShipmentId decides by a comparison with amounts read before; of a
\* lone request it misses no change of the effective costs but the one named.
THEOREM LoneCostChangesAreLogged == Spec => LoneCostChangeIsLogged
  BY LoneInvariant, ChangeIsLoggedStep, PTL DEF Spec, LoneCostChangeIsLogged
=============================================================================
