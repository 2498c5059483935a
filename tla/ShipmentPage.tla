----------------------------- MODULE ShipmentPage -----------------------------
(***************************************************************************)
(* ShipmentDetailsView of a user who may override (ADMIN or SHIPPING): the *)
(* shipment with its status form, the cost card below it and the order     *)
(* that locks the form.  Status answers and reloads of the shipment have   *)
(* trackers of their own, so neither knows of the other.                   *)
(***************************************************************************)
EXTENDS Browser

\* The statuses whose rules differ; the carrier of the shipment is known.
ShipmentStatuses == {"PENDING", "SHIPPED", "IN_TRANSIT"}

\* A shipment with its cost sheet: base stands for its amounts, extra for
\* the sum of the additional costs, stored for their sum in the sheet.
NoShipment == [status |-> "NONE", pro |-> 0, base |-> 0, extra |-> 0,
               stored |-> 0, order |-> "NONE"]

ShipmentOf(s) == [f \in DOMAIN NoShipment |-> s[f]]

ShipmentInit ==
    Mount("shipment",
          [row |-> NoShipment, order |-> "NONE",
           reload |-> FALSE, tracker |-> 0, busy |-> {}, mixed |-> FALSE],
          [status |-> "PENDING", pro |-> 0, base |-> 1, extra |-> 0,
           stored |-> 0, order |-> "CONFIRMED", others |-> 0])

UnderWay(op) == \E i \in DOMAIN calls : calls[i].op = op

\* loadShipment.  mixed remembers that a reload and a status call, or their
\* answers, were under way together.
loadShipment(p) == [p EXCEPT !.tracker = BeginRequest(@),
                             !.mixed = @ \/ UnderWay("status")]

ShipmentLoad(p, then) == Call("shipment", then, BeginRequest(p.tracker))

\* useOrderDetailWithRefresh.  Only its last load counts and only the status
\* matters here, so a load is a request and one step that answers it.
OrderReload(p) == [p EXCEPT !.reload = TRUE]

OrderLoaded ==
    /\ At("shipment") /\ page.reload
    /\ \/ Become([page EXCEPT !.order = server.order, !.reload = FALSE])
       \/ /\ CanDisturb
          /\ page' = [page EXCEPT !.order = "NONE", !.reload = FALSE]
          /\ lost' = lost + 1
          /\ UNCHANGED <<mounted, server, calls, made>>

resolvedOrderStatus == IF page.order # "NONE" THEN page.order ELSE page.row.order

OpenShipment ==
    /\ At("shipment") /\ page.tracker = 0
    /\ Ask([loadShipment(page) EXCEPT !.busy = {"loading"}],
           <<ShipmentLoad(page, "opened")>>)

\* The answer: after a cost was saved, the order is loaded again as well and
\* the form is free again.  A failure leaves an error and no shipment.
ShipmentLoaded(i) ==
    /\ At("shipment") /\ calls[i].op = "shipment" /\ calls[i].state # "sent"
    /\ LET last == IsCurrentRequest(calls[i].kept, page.tracker)
           ok   == calls[i].state = "ok"
           p    == [page EXCEPT
                      !.row = IF ~last THEN @ ELSE IF ok THEN Body(i)
                              ELSE NoShipment,
                      !.busy = IF calls[i].arg = "saved" THEN @ \ {"saving"}
                               ELSE IF last THEN @ \ {"loading"} ELSE @]
       IN  IF calls[i].arg = "saved" \/ (last /\ ok)
           THEN Continue(i, OrderReload(p), <<>>)
           ELSE Continue(i, p, <<>>)

Shown == At("shipment") /\ page.row.status # "NONE"

\* handleStatusSubmit and updateStatus: status and PRO number as the form
\* holds them, loaded or typed, are shown at once.
ProGiven(status, pro) == status = "IN_TRANSIT" => pro # 0

updateStatus ==
    /\ Shown /\ resolvedOrderStatus # "CANCELLED" /\ "updating" \notin page.busy
    /\ \E status \in ShipmentStatuses, pro \in {page.row.pro, 1} :
         /\ ProGiven(status, pro)
         /\ Ask([page EXCEPT !.row = [@ EXCEPT !.status = status, !.pro = pro],
                             !.busy = @ \union {"updating"},
                             !.mixed = @ \/ UnderWay("shipment")],
                <<Call("status", [status |-> status, pro |-> pro], page.row)>>)

\* Mutant: a refused status stays on the screen.
StatusKept(i) ==
    /\ At("shipment") /\ calls[i].op = "status" /\ calls[i].state # "sent"
    /\ LET row == IF calls[i].state = "failed" \/ page.row = NoShipment
                  THEN page.row ELSE Body(i)
           p == [page EXCEPT !.row = row, !.busy = @ \ {"updating"}]
       IN  Continue(i, OrderReload(p), <<>>)

\* The answer replaces the whole row, costs included; a failure puts the
\* row of the time of the click back.  Either way the order is loaded again.
StatusUpdated(i) ==
    /\ At("shipment") /\ calls[i].op = "status" /\ calls[i].state # "sent"
    /\ LET row == IF calls[i].state = "failed" THEN calls[i].kept
                  ELSE IF page.row = NoShipment THEN NoShipment
                  ELSE Body(i)
           p == [page EXCEPT !.row = row, !.busy = @ \ {"updating"}]
       IN  Continue(i, OrderReload(p), <<>>)

\* The forms of the cost card are opened, filled and submitted in one step.
handleAdditionalCostSubmit ==
    /\ Shown /\ "saving" \notin page.busy
    /\ Ask([page EXCEPT !.busy = @ \union {"saving"}], <<Call("extra", 1, 0)>>)

\* Mutant: the page sends no additional amount along.
additionalAmountUnset(row) == 0

additionalAmount(row) == IF row.extra > 0 THEN row.extra ELSE row.stored

\* An amount is changed or only the note; the additional amount goes along.
handleBaseCostSubmit ==
    /\ Shown /\ "saving" \notin page.busy
    /\ \E base \in {page.row.base, 2} :
         Ask([page EXCEPT !.busy = @ \union {"saving"}],
             <<Call("base", [base |-> base,
                             additional |-> additionalAmount(page.row)], 0)>>)

\* The toast; then the card waits for the reload.
CostSaved(i) ==
    /\ At("shipment") /\ calls[i].op \in {"extra", "base"}
    /\ \/ /\ calls[i].state = "ok"
          /\ Continue(i, loadShipment(page), <<ShipmentLoad(page, "saved")>>)
       \/ /\ calls[i].state = "failed"
          /\ Continue(i, [page EXCEPT !.busy = @ \ {"saving"}], <<>>)

-----------------------------------------------------------------------------
(* The backend's side.                                                      *)

\* updateStatus of the service: the PRO number is given or stored, and the
\* actual shipping cost, which this page never sends, is required.
StatusAllowed(given) ==
    /\ given.status = "IN_TRANSIT" => given.pro # 0 \/ server.pro # 0
    /\ given.status = "SHIPPED" => server.status = "SHIPPED"

WithStatus(given) ==
    [server EXCEPT !.status = given.status,
                   !.pro = IF given.pro # 0 THEN given.pro ELSE @]

WithExtra(s) == [s EXCEPT !.extra = @ + 1, !.stored = s.extra + 1]

ShipmentServe(i) ==
    /\ At("shipment")
    /\ \/ Asked(i, "shipment") /\ Perform(i, server, TRUE, ShipmentOf(server))
       \/ /\ Asked(i, "status")
          /\ LET s == WithStatus(calls[i].arg)
             IN  IF StatusAllowed(calls[i].arg)
                 THEN Perform(i, s, TRUE, ShipmentOf(s)) ELSE Refuse(i)
       \/ Asked(i, "extra") /\ Perform(i, WithExtra(server), TRUE, <<>>)
       \/ /\ Asked(i, "base")
          /\ Perform(i, [server EXCEPT !.base = calls[i].arg.base,
                                       !.stored = calls[i].arg.additional],
                     TRUE, <<>>)

OtherShipping ==
    /\ At("shipment") /\ CanDisturb
    /\ LET s == [server EXCEPT !.others = @ + 1]
       IN  \/ Elsewhere([s EXCEPT !.status = "SHIPPED"])
           \/ Elsewhere(WithExtra(s))
           \/ Elsewhere([s EXCEPT !.order = "CANCELLED"])

ShipmentStep ==
    \/ OpenShipment \/ OrderLoaded \/ updateStatus 
    \/ handleAdditionalCostSubmit \/ handleBaseCostSubmit \/ OtherShipping

ShipmentReturn(i) ==
    ShipmentLoaded(i) \/ StatusUpdated(i) \/ CostSaved(i)

-----------------------------------------------------------------------------
(* Properties.                                                              *)

\* Nobody else wrote, no answer was lost, and no reload met a status call.
Undisturbed == server.others = 0 /\ lost = 0 /\ ~page.mixed

\* Once it has settled, the page shows the shipment and the costs as stored,
\* whichever statuses were refused and costs saved before: the optimistic
\* status and the row it remembers never outlive their call.
SettledShipmentIsCurrent ==
    (Shown /\ Undisturbed /\ calls = <<>>) => page.row = ShipmentOf(server)

\* The cost sheet holds the sum of the additional costs, although an edit of
\* the base amounts sends the sum that the page computed along.
StoredAdditionalIsSum ==
    (At("shipment") /\ Undisturbed) => server.stored = server.extra
=============================================================================
