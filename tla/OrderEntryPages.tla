---------------------------- MODULE OrderEntryPages ----------------------------
(***************************************************************************)
(* The pages an order is entered on: the form of a new order or lead, and  *)
(* the popup that edits an order.                                          *)
(***************************************************************************)
EXTENDS Browser, FiniteSets

-------------------------------------------------------------------------------
\* The form of a new order or lead (CreateOrderForm, CreateLeadForm).
\* Choosing a make or a year runs an effect that looks up the models, and
\* the answer to an ended run is dropped; an order form also asks for the
\* next order number.  Saving stores the record once and closes the form.

Makes == {"m1", "m2"}

\* A form just mounted.  Years, makes and parts are loaded once and have no
\* effect on each other: they are left out.
NewForm(kind, mount) ==
    [kind |-> kind, open |-> TRUE, mount |-> mount, make |-> "",
     models |-> "", run |-> 0, number |-> 0, busy |-> {}, unknown |-> FALSE]

CreateInit ==
    \E kind \in {"order", "lead"} :
        Mount("create", [NewForm(kind, 0) EXCEPT !.open = FALSE], [next |-> 1, others |-> 0])

\* loadNextOrderNumber runs once for each mounted order form.  A lead form
\* makes no call here: two are the bound.
MountForm ==
    /\ At("create") /\ ~page.open /\ (page.kind = "lead" => page.mount < 2)
    /\ LET p == NewForm(page.kind, page.mount + 1)
       IN  IF page.kind = "lead" THEN Become(p)
           ELSE Ask([p EXCEPT !.busy = {"number"}],
                    <<Call("number", 0, [mount |-> p.mount, run |-> 0])>>)

NumberLoaded(i) ==
    /\ At("create") /\ calls[i].op = "number" /\ calls[i].state # "sent"
    /\ LET p == [page EXCEPT !.busy = @ \ {"number"}]
       IN  Continue(i, IF calls[i].kept.mount # page.mount \/ ~page.open THEN page
                       ELSE IF calls[i].state = "failed" THEN p
                       ELSE [p EXCEPT !.number = Body(i)], <<>>)

\* Without a make the effect only empties the models.
ChooseMake ==
    /\ At("create") /\ page.open /\ "saving" \notin page.busy
    /\ \E make \in (Makes \union {""}) \ {page.make} :
         LET p == [page EXCEPT !.make = make, !.run = @ + 1]
         IN  IF make = "" THEN Become([p EXCEPT !.models = "", !.unknown = FALSE])
             ELSE Ask([p EXCEPT !.busy = @ \union {"models"}],
                      <<Call("models", make, [mount |-> p.mount, run |-> p.run])>>)

\* Mutant: only the form must be the one that asked.
ModelsLoadedLate(i) ==
    /\ At("create") /\ calls[i].op = "models" /\ calls[i].state # "sent"
    /\ LET p == [page EXCEPT !.busy = @ \ {"models"}]
       IN  Continue(i, IF ~page.open \/ calls[i].kept.mount # page.mount THEN page
                       ELSE IF calls[i].state = "failed" THEN [p EXCEPT !.unknown = TRUE]
                       ELSE [p EXCEPT !.models = Body(i), !.unknown = FALSE], <<>>)

\* A failed lookup keeps the models shown before it, of whatever make.
ModelsLoaded(i) ==
    /\ At("create") /\ calls[i].op = "models" /\ calls[i].state # "sent"
    /\ LET p == [page EXCEPT !.busy = @ \ {"models"}]
       IN  Continue(i, IF \/ ~page.open
                          \/ calls[i].kept # [mount |-> page.mount, run |-> page.run]
                       THEN page
                       ELSE IF calls[i].state = "failed" THEN [p EXCEPT !.unknown = TRUE]
                       ELSE [p EXCEPT !.models = Body(i), !.unknown = FALSE], <<>>)

DismissForm ==
    /\ At("create") /\ page.open
    /\ Become([page EXCEPT !.open = FALSE, !.busy = {}])

SubmitNew ==
    /\ At("create") /\ page.open /\ "saving" \notin page.busy
    /\ Ask([page EXCEPT !.busy = @ \union {"saving"}], <<Call("create", 0, [mount |-> page.mount, run |-> 0])>>)

\* Mutant: success closes the form that was saved only.
CreateAnsweredOwn(i) ==
    /\ At("create") /\ calls[i].op = "create" /\ calls[i].state # "sent"
    /\ Continue(i, IF calls[i].kept.mount # page.mount THEN page
                   ELSE IF calls[i].state = "ok"
                   THEN [page EXCEPT !.open = FALSE, !.busy = {}]
                   ELSE [page EXCEPT !.busy = @ \ {"saving"}], <<>>)

\* Success closes the popup that is open, even one opened after it.
CreateAnswered(i) ==
    /\ At("create") /\ calls[i].op = "create" /\ calls[i].state # "sent"
    /\ Continue(i, IF calls[i].state = "ok"
                   THEN [page EXCEPT !.open = FALSE, !.busy = {}]
                   ELSE IF calls[i].kept.mount # page.mount THEN page
                   ELSE [page EXCEPT !.busy = @ \ {"saving"}], <<>>)

CreateServe(i) ==
    /\ At("create")
    /\ \/ Asked(i, "number") /\ Perform(i, server, TRUE, server.next)
       \/ Asked(i, "models") /\ Perform(i, server, TRUE, calls[i].arg)
       \/ Asked(i, "create") /\ Perform(i, [server EXCEPT !.next = @ + 1], TRUE, <<>>)

\* An order created elsewhere takes the next number.
OtherOrder ==
    /\ At("create") /\ CanDisturb
    /\ Elsewhere([next |-> server.next + 1, others |-> server.others + 1])

CreateStep == MountForm \/ ChooseMake \/ DismissForm \/ SubmitNew \/ OtherOrder

CreateReturn(i) == NumberLoaded(i) \/ ModelsLoaded(i) \/ CreateAnswered(i)

-----------------------------------------------------------------------------
(* Properties.                                                              *)

\* However fast makes are chosen and forms closed and opened, the models
\* offered once no lookup is shown as running are those of the chosen make,
\* unless their lookup failed.
ModelsBelongToMake ==
    (At("create") /\ page.open /\ "models" \notin page.busy /\ ~page.unknown) =>
        page.models = page.make

\* While nobody else creates orders and no call is lost, an order form at
\* rest shows the number that comes next: one opened during the save of
\* another may have read an older number, but that save closes it.
NumberShownIsNext ==
    (At("create") /\ page.open /\ page.kind = "order" /\ calls = <<>>
       /\ server.others = 0 /\ lost = 0) => page.number = server.next

-------------------------------------------------------------------------------
\* The popup that edits an order (UpdateOrderForm over OrdersPageContent).
\* The form is filled from a load of its own; shipping staff and admins
\* send all of it, sales users the fields they may change and those that
\* were empty in the loaded copy.  OrdersService.update decides again,
\* from the stored row, what the user may change.

\* contact stands for the fields sales users may always change, vin for
\* those they may fill while empty (0), price for the others.
OrderFields == {"contact", "vin", "price"}

EditInit ==
    \E role \in {"ADMIN", "SHIPPING", "SALES"}, vin \in {0, 1},
       status \in {"CONFIRMED", "REFUNDED"} :
      LET row == [f \in OrderFields |-> IF f = "vin" THEN vin ELSE 1]
      IN  Mount("edit",
                [role |-> role, open |-> FALSE, row |-> row,
                 tracker |-> 0, busy |-> {}, error |-> FALSE, mixed |-> FALSE],
                [row |-> row, status |-> status, others |-> 0])

\* A form that is opened, or retried after its load failed.
OpenEditor ==
    /\ At("edit") /\ (~page.open \/ page.error)
    /\ Ask([page EXCEPT !.open = TRUE, !.error = FALSE, !.tracker = BeginRequest(@),
                        !.busy = {"order"}, !.mixed = @ \/ calls # <<>>],
           <<Call("order", 0, BeginRequest(page.tracker))>>)

EditorLoaded(i) ==
    /\ At("edit") /\ calls[i].op = "order" /\ calls[i].state # "sent"
    /\ LET p == [page EXCEPT !.busy = @ \ {"order"}]
       IN  Continue(i, IF ~page.open \/ ~IsCurrentRequest(calls[i].kept, page.tracker)
                       THEN page
                       ELSE IF calls[i].state = "failed" THEN [p EXCEPT !.error = TRUE]
                       ELSE [p EXCEPT !.row = Body(i)], <<>>)

CloseEditor ==
    /\ At("edit") /\ page.open
    /\ Become([page EXCEPT !.open = FALSE, !.error = FALSE, !.busy = {}])

\* Mutant: a field filled meanwhile is sent as well.
SentWhole(role, row) ==
    IF role \in {"ADMIN", "SHIPPING"} THEN OrderFields ELSE {"contact", "vin"}

\* The fields the form sends for a role.
Sent(role, row) ==
    IF role \in {"ADMIN", "SHIPPING"} THEN OrderFields
    ELSE {"contact"} \union {f \in {"vin"} : row[f] = 0}

\* One field is typed.
SubmitEdit ==
    /\ At("edit") /\ page.open /\ ~page.error /\ page.busy = {}
    /\ \E typed \in Sent(page.role, page.row) :
         Ask([page EXCEPT !.busy = {"saving"}],
             <<Call("update", [f \in Sent(page.role, page.row) |->
                                 IF f = typed THEN 2 ELSE page.row[f]],
                    page.tracker)>>)

\* Success closes the popup that is open, even one opened after it.
OrderEdited(i) ==
    /\ At("edit") /\ calls[i].op = "update" /\ calls[i].state # "sent"
    /\ Continue(i, IF calls[i].state = "ok"
                   THEN [page EXCEPT !.open = FALSE, !.error = FALSE, !.busy = {}]
                   ELSE IF calls[i].kept = page.tracker
                   THEN [page EXCEPT !.busy = @ \ {"saving"}] ELSE page, <<>>)

-----------------------------------------------------------------------------
\* validateUpdateAccess, on the stored row.
Allowed(role, row, fields) ==
    role = "SALES" => fields \subseteq {"contact"} \union {f \in {"vin"} : row[f] = 0}

\* The order keeps its payment method, which validatePaymentMethodForStatus
\* lets only admins edit once the order is no longer in a paid status.
PaymentFits(role, status) == role = "ADMIN" \/ status = "CONFIRMED"

EditServe(i) ==
    /\ At("edit")
    /\ \/ Asked(i, "order") /\ Perform(i, server, TRUE, server.row)
       \/ /\ Asked(i, "update")
          /\ LET given == calls[i].arg
                 new == [f \in OrderFields |-> IF f \in DOMAIN given THEN given[f]
                                               ELSE server.row[f]]
             IN  IF /\ Allowed(page.role, server.row, DOMAIN given)
                    /\ PaymentFits(page.role, server.status) /\ new # server.row
                 THEN Perform(i, [server EXCEPT !.row = new], TRUE, <<>>)
                 ELSE Refuse(i)

\* Others fill the empty field, change the price or refund the order.
OtherEdit ==
    /\ At("edit") /\ CanDisturb
    /\ LET s == [server EXCEPT !.others = @ + 1]
       IN  \/ server.row["vin"] = 0 /\ Elsewhere([s EXCEPT !.row["vin"] = 3])
           \/ Elsewhere([s EXCEPT !.row["price"] = 3])
           \/ Elsewhere([s EXCEPT !.status = "REFUNDED"])

EditStep == OpenEditor \/ CloseEditor \/ SubmitEdit \/ OtherEdit

EditReturn(i) == EditorLoaded(i) \/ OrderEdited(i)

-----------------------------------------------------------------------------
(* Properties.                                                              *)

\* The form and the service decide separately what a user may change.  While
\* nobody else edits, no call is lost and no form is opened during the save
\* of another, they agree: only orders that are past payment are refused,
\* those to everybody but admins, and no edit takes back a stored field that
\* was not typed.
FormAgreesWithService ==
    (At("edit") /\ server.others = 0 /\ lost = 0 /\ ~page.mixed) =>
        \A i \in DOMAIN calls :
            /\ Failed(i, "update") =>
                 (server.status = "REFUNDED" /\ page.role # "ADMIN")
                   \/ \A f \in DOMAIN calls[i].arg : calls[i].arg[f] = server.row[f]
            /\ Asked(i, "update") => \A f \in DOMAIN calls[i].arg :
                 calls[i].arg[f] \in {server.row[f], 2}
===============================================================================
