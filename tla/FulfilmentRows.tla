---------------------------- MODULE FulfilmentRows ----------------------------
(***************************************************************************)
(* What the services behind one sold order share: the rows of the order,   *)
(* its shipments, their cost sheets and additional costs, a replacement,   *)
(* and the requests that work on them.  Modules OrderEdits, Shipments,     *)
(* ShipmentCosts and Replacements hold the operations; Fulfilment composes *)
(* them.  No operation holds a transaction over more than one statement,   *)
(* so every await is a place where other requests may run.                 *)
(***************************************************************************)
EXTENDS Integers, Sequences

CONSTANTS
    Requests,      \* the requests; each is handled once
    Nobody,        \* stands for an absent date
    MaxShipments,  \* bound on the shipments of the order
    MaxExtras,     \* bound on the additional costs of a shipment
    MaxFaults      \* bound on failing calls

ASSUME FulfilmentAssumption ==
    /\ Nobody \notin Requests
    /\ MaxShipments \in Nat \ {0}
    /\ MaxExtras \in Nat
    /\ MaxFaults \in Nat

VARIABLES
    order,        \* the row of the order
    shipments,    \* the rows of its shipments, in the order of createdAt
    sheets,       \* sheets[s]: the ShipmentCost row of shipment s, if it has one
    extras,       \* extras[s]: its ShipmentAdditionalCost rows, their amounts
    replacement,  \* the row of a ReplacementRequest
    req,          \* req[r]: where request r stands and what it carries
    recorded,     \* requests whose note or cost history entry is stored
    faults        \* calls that failed so far

vars == <<order, shipments, sheets, extras, replacement, req, recorded, faults>>

ShipmentIds == 1 .. MaxShipments

\* Amounts are in whole dollars; NoAmount stands for null.
NoAmount == -1

Amount == Nat \union {NoAmount}

\* The columns of an order the services read; intake is its JSON column.
\* A vehicleVin of 0 is empty.
Intake == [vehicleVin : Nat, partialPayment : Nat, cancelledAt : BOOLEAN,
           refundType : {"NONE", "FULL", "PARTIAL"},
           refundDeductionAmount : Amount]

OrderStatus == {"DRAFT", "PARTIALLY_PAID", "CONFIRMED", "CANCELLED", "REFUNDED"}

PaymentMethod == {"NONE", "CREDIT_CARD", "WIRE_TRANSFER"}

Order == [status : OrderStatus, paymentMethod : PaymentMethod,
          totalSaleAmount : Nat, intake : Intake]

\* PENDING stands for every status without a requirement of its own.
ShipmentStatus == {"PENDING", "PURCHASE", "SHIPPED", "IN_TRANSIT", "DELIVERED"}

\* shippedAt and deliveredAt name the request that set the date; born, a
\* history variable, is the status it was created with.
Shipment == [status : ShipmentStatus, carrierName : BOOLEAN,
             proNumber : BOOLEAN, shippedAt : Requests \union {Nobody},
             deliveredAt : Requests \union {Nobody}, born : ShipmentStatus]

\* hasActual: the amounts that are not estimates.
Sheet == [purchaseAmount : Nat, shippingAmount : Nat,
          estimatedPurchaseAmount : Nat, estimatedShippingAmount : Nat,
          additionalAmount : Nat, notes : BOOLEAN,
          hasActual : SUBSET {"purchaseAmount", "shippingAmount"},
          grossProfit : Int]

\* The defaults of the amounts, for a shipment without a cost row.
NoSheet == [purchaseAmount |-> 0, shippingAmount |-> 0,
            estimatedPurchaseAmount |-> 0, estimatedShippingAmount |-> 0,
            additionalAmount |-> 0, notes |-> FALSE, hasActual |-> {},
            grossProfit |-> NoAmount]

\* AGREED stands for every status without a requirement; NONE for no row.
Replacement == [status : {"NONE", "AGREED", "IN_TRANSIT"},
                proNumber : BOOLEAN, carrierName : BOOLEAN]

-----------------------------------------------------------------------------
(* Requests.  A request carries its input (in), the rows it read (seen) and *)
(* alone, a history variable: no other request ran during its life.         *)

Kind == {"none", "order", "create shipment", "shipment status", "create cost",
         "update cost", "add extra", "update extra", "create replacement",
         "update replacement"}

Step == {"idle", "intake", "write", "cost", "exists", "amounts", "insert",
         "history", "order", "sum", "read", "total", "note", "done",
         "rejected", "cut"}

Ended(r) == req[r].step \in {"idle", "done", "rejected", "cut"}

At(r, kind, step) == req[r].kind = kind /\ req[r].step = step

Slot(kind, step, in, seen) ==
    [kind |-> kind, step |-> step, in |-> in, seen |-> seen, alone |-> TRUE]

Nothing == [id |-> 0]

\* r arrives, with its first read; the requests under way are not alone.
Arrive(r, slot) ==
    req' = [q \in Requests |->
              IF q = r
              THEN [slot EXCEPT !.alone = \A p \in Requests : Ended(p)]
              ELSE IF Ended(q) THEN req[q] ELSE [req[q] EXCEPT !.alone = FALSE]]

Goto(r, step) == req' = [req EXCEPT ![r].step = step]

\* The same, keeping what r has read.
Read(r, step, seen) == req' = [req EXCEPT ![r].step = step, ![r].seen = seen]

Record(r) == recorded' = recorded \union {r}

\* The fields of old, with those given by new.
Merge(old, new) ==
    [f \in DOMAIN old |-> IF f \in DOMAIN new THEN new[f] ELSE old[f]]

\* A call fails or the server stops: what was stored stays.
Fail(r) ==
    /\ faults < MaxFaults
    /\ ~Ended(r)
    /\ faults' = faults + 1
    /\ Goto(r, "cut")
    /\ UNCHANGED <<order, shipments, sheets, extras, replacement, recorded>>
=============================================================================
