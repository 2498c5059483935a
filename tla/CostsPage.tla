------------------------------ MODULE CostsPage ------------------------------
(***************************************************************************)
(* The costs workspace (useCostsWorkspace): choosing a shipment loads its  *)
(* cost sheet into the form, and saving the form creates the sheet or      *)
(* writes all of it.  The choice stays open while a save is under way.     *)
(***************************************************************************)
EXTENDS Browser

CostShipments == {"s1", "s2"}

\* A form: the shipment it names and the amounts, with the shipment that
\* they were loaded from or typed for.
EmptyForm == [of |-> "", amounts |-> 0]

CostsInit ==
    \E sheet \in {0, 1} :
        Mount("costs",
              [offered |-> FALSE, shipment |-> "",
               existing |-> FALSE, form |-> EmptyForm, busy |-> {},
               error |-> FALSE, tracker |-> 0, moved |-> FALSE],
              [sheets |-> [s \in CostShipments |-> IF s = "s1" THEN 1 ELSE sheet],
               others |-> 0])

\* The effect on the chosen shipment.
ChooseShipment(p, s) ==
    IF s = p.shipment THEN p
    ELSE IF s = "" THEN [p EXCEPT !.shipment = "", !.existing = FALSE,
                                  !.error = FALSE, !.busy = @ \ {"context"}]
    ELSE [p EXCEPT !.shipment = s, !.tracker = BeginRequest(@),
                   !.error = FALSE, !.busy = @ \union {"context"}]

ContextLoad(p, q) ==
    IF q.tracker = p.tracker THEN <<>>
    ELSE <<Call("cost", q.shipment, q.tracker)>>

OpenCosts ==
    /\ At("costs") /\ made = 0
    /\ Ask([page EXCEPT !.busy = {"shipments"}], <<Call("shipments", 0, 0)>>)

retryShipments ==
    /\ At("costs") /\ made > 0 /\ ~page.offered /\ page.busy = {}
    /\ Ask([page EXCEPT !.busy = {"shipments"}], <<Call("shipments", 0, 0)>>)

ShipmentsLoaded(i) ==
    /\ At("costs")
    /\ LET p == [page EXCEPT !.busy = @ \ {"shipments"}]
       IN  \/ Failed(i, "shipments") /\ Continue(i, p, <<>>)
           \/ /\ Succeeded(i, "shipments")
              /\ LET q == ChooseShipment([p EXCEPT !.offered = TRUE], "s1")
                 IN  Continue(i, q, ContextLoad(p, q))

\* moved remembers a choice that was made while a save was under way.
handleShipmentChange ==
    /\ At("costs") /\ page.offered /\ "context" \notin page.busy
    /\ \E s \in (CostShipments \union {""}) \ {page.shipment} :
         LET p == [ChooseShipment(page, s) EXCEPT
                     !.moved = @ \/ "saving" \in page.busy]
         IN  Ask(p, ContextLoad(page, p))

retryContext ==
    /\ At("costs") /\ page.error /\ "context" \notin page.busy
    /\ Ask([page EXCEPT !.tracker = BeginRequest(@), !.error = FALSE,
                        !.busy = @ \union {"context"}],
           <<Call("cost", page.shipment, BeginRequest(page.tracker))>>)

\* No sheet (404) or a failure: the form of a new sheet.
ContextLoaded(i) ==
    /\ At("costs") /\ calls[i].op = "cost" /\ calls[i].state # "sent"
    /\ LET amounts == IF calls[i].state = "ok" THEN Body(i) ELSE 0
       IN  Continue(i, IF ~IsCurrentRequest(calls[i].kept, page.tracker) THEN page
                       ELSE [page EXCEPT !.busy = @ \ {"context"},
                                         !.existing = amounts # 0,
                                         !.error = calls[i].state = "failed",
                                         !.form = [of |-> calls[i].arg,
                                                   amounts |-> amounts]], <<>>)

\* Mutant: the form is not locked while the sheet is loaded.
handleCostSubmitEarly ==
    /\ At("costs") /\ page.offered /\ page.shipment # "" /\ "saving" \notin page.busy
    /\ \E typed \in BOOLEAN :
         /\ typed \/ page.form.amounts # 0
         /\ Ask([page EXCEPT !.busy = @ \union {"saving"}],
                <<Call("save", [to |-> page.shipment, update |-> page.existing,
                                of |-> IF typed THEN page.shipment ELSE page.form.of,
                                amounts |-> IF typed THEN 2 ELSE page.form.amounts],
                       page.existing)>>)

\* What is typed is typed for the shipment that the form names.
handleCostSubmit ==
    /\ At("costs") /\ page.offered /\ page.shipment # ""
    /\ page.busy \intersect {"context", "saving"} = {}
    /\ \E typed \in BOOLEAN :
         /\ typed \/ page.form.amounts # 0
         /\ Ask([page EXCEPT !.busy = @ \union {"saving"}],
                <<Call("save", [to |-> page.shipment, update |-> page.existing,
                                of |-> IF typed THEN page.shipment ELSE page.form.of,
                                amounts |-> IF typed THEN 2 ELSE page.form.amounts],
                       page.existing)>>)

\* Mutant: a created sheet is not remembered as existing.
CostsSavedNew(i) ==
    /\ At("costs") /\ calls[i].op = "save" /\ calls[i].state # "sent"
    /\ LET p == [page EXCEPT !.busy = @ \ {"saving"}]
           to == calls[i].arg.to
           q == ChooseShipment([p EXCEPT !.error = FALSE,
                                  !.form = [of |-> to, amounts |-> Body(i)]], to)
       IN  IF calls[i].state = "ok" THEN Continue(i, q, ContextLoad(p, q))
           ELSE Continue(i, p, <<>>)

\* The saved sheet fills the form, which names its shipment again.
CostsSaved(i) ==
    /\ At("costs") /\ calls[i].op = "save" /\ calls[i].state # "sent"
    /\ LET p == [page EXCEPT !.busy = @ \ {"saving"}]
           to == calls[i].arg.to
           q == ChooseShipment([p EXCEPT !.existing = TRUE, !.error = FALSE,
                                  !.form = [of |-> to, amounts |-> Body(i)]], to)
       IN  IF calls[i].state = "ok" THEN Continue(i, q, ContextLoad(p, q))
           ELSE Continue(i, p, <<>>)

-----------------------------------------------------------------------------
CostsServe(i) ==
    /\ At("costs")
    /\ \/ Asked(i, "shipments") /\ Perform(i, server, TRUE, <<>>)
       \/ /\ Asked(i, "cost")
          /\ Perform(i, server, TRUE, server.sheets[calls[i].arg])
       \/ /\ Asked(i, "save")
          /\ LET a == calls[i].arg
             IN  IF a.update = (server.sheets[a.to] # 0)
                 THEN Perform(i, [server EXCEPT !.sheets[a.to] = a.amounts], TRUE,
                              a.amounts)
                 ELSE Refuse(i)

OtherCosts ==
    /\ At("costs") /\ CanDisturb
    /\ \E s \in CostShipments :
         Elsewhere([sheets |-> [server.sheets EXCEPT ![s] = 3],
                    others |-> server.others + 1])

CostsStep ==
    \/ OpenCosts \/ retryShipments \/ handleShipmentChange \/ retryContext
    \/ handleCostSubmit \/ OtherCosts

CostsReturn(i) == ShipmentsLoaded(i) \/ ContextLoaded(i) \/ CostsSaved(i)

-----------------------------------------------------------------------------
(* Properties.                                                              *)

\* Amounts of one shipment are never saved for another, although answers
\* move the choice back while the user has moved it on.
AmountsStayWithShipment ==
    At("costs") => \A i \in DOMAIN calls :
        calls[i].op = "save" => calls[i].arg.of = calls[i].arg.to

\* Unless the choice moved during a save, which may leave a form from before
\* it, a lone user sees the sheet as stored, never creates one twice and
\* never updates a missing one.
LoneCostsAreCurrent ==
    (At("costs") /\ server.others = 0 /\ lost = 0 /\ ~page.moved) =>
        /\ \A i \in DOMAIN calls : calls[i].state # "failed"
        /\ (page.offered /\ page.shipment # "" /\ page.busy = {}) =>
             page.form = [of |-> page.shipment,
                          amounts |-> server.sheets[page.shipment]]
=============================================================================
