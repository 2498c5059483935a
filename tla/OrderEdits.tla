------------------------------ MODULE OrderEdits ------------------------------
(***************************************************************************)
(* OrdersService.update, cancel and refund.  All three read the order,     *)
(* decide, and write it through OrdersRepository.update, which reads the   *)
(* JSON column a second time, merges the given fields into it and writes   *)
(* it whole.                                                               *)
(***************************************************************************)
EXTENDS FulfilmentRows

CONSTANTS
    EditInputs,     \* PATCH /orders/:id: role, columns, intake fields, a note?
    RefundAmounts   \* amounts of partial refunds

\* A body of UpdateOrderDto has no field of a cancellation or a refund.
ASSUME EditInputsAssumption ==
    /\ RefundAmounts \subseteq Nat
    /\ \A in \in EditInputs :
          /\ DOMAIN in.columns \subseteq {"status", "paymentMethod", "totalSaleAmount"}
          /\ "status" \in DOMAIN in.columns => in.columns.status \in OrderStatus
          /\ "paymentMethod" \in DOMAIN in.columns =>
                in.columns.paymentMethod \in PaymentMethod
          /\ "totalSaleAmount" \in DOMAIN in.columns =>
                in.columns.totalSaleAmount \in Nat
          /\ DOMAIN in.intake \subseteq {"vehicleVin", "partialPayment"}
          /\ \A f \in DOMAIN in.intake : in.intake[f] \in Nat

Min(a, b) == IF a < b THEN a ELSE b

paymentRequiredStatuses == {"PARTIALLY_PAID", "CONFIRMED"}

validatePaymentMethodForStatus(status, method) ==
    status \in paymentRequiredStatuses <=> method # "NONE"

\* Sales users fill in what was left empty; vehicleVin stands for the fields
\* of emptyOnlySalesFields, a note for those that are always allowed.
validateUpdateAccess(in) ==
    in.role = "SALES" =>
        /\ DOMAIN in.columns = {}
        /\ DOMAIN in.intake \subseteq {"vehicleVin"}
        /\ "vehicleVin" \in DOMAIN in.intake => order.intake.vehicleVin = 0

\* buildOrderUpdateHistoryMessage: what differs from the order as read.
Changes(in) ==
    \/ Merge(order, in.columns) # order
    \/ Merge(order.intake, in.intake) # order.intake

getOriginalPaidAmount ==
    IF order.intake.partialPayment > 0
    THEN Min(order.intake.partialPayment, order.totalSaleAmount)
    ELSE IF order.paymentMethod # "NONE" \/ order.status \notin {"DRAFT", "PARTIALLY_PAID"}
    THEN order.totalSaleAmount
    ELSE 0

\* The step before the statements of OrdersRepository.update.
FirstStatement(in) == IF DOMAIN in.intake = {} THEN "write" ELSE "intake"

BeginUpdate(r) ==
    /\ req[r].step = "idle"
    /\ \E in \in EditInputs :
          /\ validateUpdateAccess(in)
          /\ LET next == Merge(order, in.columns)
             IN  /\ in.role # "ADMIN" =>
                       validatePaymentMethodForStatus(next.status, next.paymentMethod)
                 /\ next.status = "PARTIALLY_PAID" =>
                       Merge([partialPayment |-> 1], in.intake).partialPayment > 0
          /\ Changes(in) \/ in.note
          /\ Arrive(r, Slot("order", IF Changes(in) THEN FirstStatement(in)
                                     ELSE "note", in, Nothing))
    /\ UNCHANGED <<order, shipments, sheets, extras, replacement, recorded, faults>>

\* cancel and refund leave every other column and field alone.
Resolution(status, fields) ==
    [role |-> "ADMIN", columns |-> [f \in {"status"} |-> status],
     intake |-> fields, note |-> FALSE]

BeginCancel(r) ==
    /\ req[r].step = "idle"
    /\ Arrive(r, Slot("order", "intake",
                      Resolution("CANCELLED", [f \in {"cancelledAt"} |-> TRUE]),
                      Nothing))
    /\ UNCHANGED <<order, shipments, sheets, extras, replacement, recorded, faults>>

\* Mutant: a full refund leaves the deduction of an earlier partial one.
RefundFieldsKept(type, amount) ==
    IF type = "FULL"
    THEN [f \in {"refundType"} |-> "FULL"]
    ELSE [f \in {"refundType", "refundDeductionAmount"} |->
            IF f = "refundType" THEN "PARTIAL" ELSE getOriginalPaidAmount - amount]

\* Mutant: the difference is taken the wrong way round.
RefundFieldsSwapped(type, amount) ==
    [f \in {"refundType", "refundDeductionAmount"} |->
        IF f = "refundType" THEN type
        ELSE IF type = "FULL" THEN NoAmount ELSE amount - getOriginalPaidAmount]

\* What is not given back of the amount paid, for a partial refund only.
RefundFields(type, amount) ==
    [f \in {"refundType", "refundDeductionAmount"} |->
        IF f = "refundType" THEN type
        ELSE IF type = "FULL" THEN NoAmount ELSE getOriginalPaidAmount - amount]

BeginRefund(r) ==
    /\ req[r].step = "idle"
    /\ \E type \in {"FULL", "PARTIAL"}, amount \in RefundAmounts :
          /\ type = "PARTIAL" => 0 < amount /\ amount <= getOriginalPaidAmount
          /\ Arrive(r, Slot("order", "intake",
                            Resolution("REFUNDED", RefundFields(type, amount)),
                            Nothing))
    /\ UNCHANGED <<order, shipments, sheets, extras, replacement, recorded, faults>>

ReadIntake(r) ==
    /\ At(r, "order", "intake")
    /\ Read(r, "write", order.intake)
    /\ UNCHANGED <<order, shipments, sheets, extras, replacement, recorded, faults>>

\* Mutant: only the given fields are kept in the JSON column.
WriteOrderWhole(r) ==
    /\ At(r, "order", "write")
    /\ LET in == req[r].in
       IN  order' = [Merge(order, in.columns) EXCEPT !.intake =
                       IF DOMAIN in.intake = {} THEN order.intake
                       ELSE Merge([vehicleVin |-> 0, partialPayment |-> 0,
                                   cancelledAt |-> FALSE, refundType |-> "NONE",
                                   refundDeductionAmount |-> NoAmount], in.intake)]
    /\ Goto(r, "note")
    /\ UNCHANGED <<shipments, sheets, extras, replacement, recorded, faults>>

\* One UPDATE: the given columns, and the whole JSON column.
WriteOrder(r) ==
    /\ At(r, "order", "write")
    /\ LET in == req[r].in
       IN  order' = [Merge(order, in.columns) EXCEPT !.intake =
                       IF DOMAIN in.intake = {} THEN order.intake
                       ELSE Merge(req[r].seen, in.intake)]
    /\ Goto(r, "note")
    /\ UNCHANGED <<shipments, sheets, extras, replacement, recorded, faults>>

\* The notes, afterMutation and the notification; a refund's note also tells
\* the gross profit computed from the latest shipment, which is not stored.
NoteOrder(r) ==
    /\ At(r, "order", "note")
    /\ Record(r)
    /\ Goto(r, "done")
    /\ UNCHANGED <<order, shipments, sheets, extras, replacement, faults>>

EditOrder(r) ==
    \/ BeginUpdate(r) \/ BeginCancel(r) \/ BeginRefund(r)
    \/ ReadIntake(r) \/ WriteOrder(r) \/ NoteOrder(r)
=============================================================================
