------------------------------ MODULE OrderPage ------------------------------
(***************************************************************************)
(* The page of one order (OrderDetailsView) with its invoice panel         *)
(* (InvoiceActions) and the cancellation and refund popups                 *)
(* (OrderResolutionActions), as staff see it.  Every change reloads the    *)
(* order, and while it reloads a skeleton replaces panel and popups: what  *)
(* they held is gone, and answers to the calls of an unmounted panel no    *)
(* longer reach the screen.                                                *)
(***************************************************************************)
EXTENDS Browser, Integers

Paid == 2 \* what the customer paid; a partial refund is 1

NoInvoice == [state |-> "NONE", terms |-> 0]

\* What the order's answer holds.
StoredOrder(s) == [invoice |-> s.invoice, status |-> s.status, refund |-> s.refund]

OrderInit ==
    \E invoice \in {NoInvoice} \union [state : {"OPEN", "SIGNED"}, terms : {1}],
       status \in {"CONFIRMED", "PARTIALLY_PAID"} :
      LET s == [invoice |-> invoice, status |-> status,
                refund |-> [type |-> "NONE", deduction |-> 0], others |-> 0]
      IN  /\ status = "PARTIALLY_PAID" => invoice = NoInvoice
          /\ Mount("order",
                   [tracker |-> 0, order |-> StoredOrder(s),
                    panel |-> invoice, full |-> FALSE, form |-> "none",
                    draft |-> 0, popup |-> "none", busy |-> {},
                    failed |-> FALSE, mixed |-> FALSE], s)

\* Mutant: the locks of the panel that goes away are kept.
ReloadLocked(p) ==
    [p EXCEPT !.tracker = BeginRequest(@), !.busy = @ \union {"order"},
              !.form = "none", !.popup = "none", !.full = FALSE]

\* The effect of useOrderDetailWithRefresh, and the skeleton while it loads.
Reload(p) ==
    [p EXCEPT !.tracker = BeginRequest(@), !.busy = {"order"}, !.form = "none",
              !.popup = "none", !.full = FALSE]

SaveOps == {"create", "edit", "clone"}

\* The reload that follows answer i; mixed remembers one that took away a
\* form whose own call was still under way.
ReloadAfter(i) ==
    [Reload(page) EXCEPT !.mixed = @ \/ \E j \in DOMAIN calls \ {i} :
                            calls[j].op \in SaveOps \union {"cancel", "refund"}]

ReloadCall(p) == <<Call("order", 0, BeginRequest(p.tracker))>>

OpenOrder ==
    /\ At("order") /\ made = 0
    /\ Ask(Reload(page), ReloadCall(page))

OrderAnswered(i) ==
    /\ At("order") /\ calls[i].op = "order" /\ calls[i].state # "sent"
    /\ LET p == [page EXCEPT !.busy = @ \ {"order"}]
       IN  IF ~IsCurrentRequest(calls[i].kept, page.tracker)
           THEN Continue(i, page, <<>>)
           ELSE IF calls[i].state = "failed"
           THEN Continue(i, [p EXCEPT !.failed = TRUE], <<>>)
           ELSE Continue(i, [p EXCEPT !.order = Body(i),
                                      !.panel = Body(i).invoice], <<>>)

\* The panel and the popups are mounted and nothing covers them.
Free ==
    /\ At("order") /\ made > 0 /\ "order" \notin page.busy /\ ~page.failed
    /\ page.form = "none" /\ page.popup = "none"

\* Mutant: answers reach the panel that took the place of theirs.
MountedAlways(i) == TRUE

\* A panel is the one of the order's load, which the call remembers.
Mounted(i) == calls[i].kept = page.tracker

loadFullInvoice ==
    /\ Free /\ page.panel # NoInvoice /\ ~page.full
    /\ \E lock \in {"details", "downloading"} :
         /\ lock \notin page.busy
         /\ Ask([page EXCEPT !.busy = @ \union {"details", lock}],
                <<Call("full", lock, page.tracker)>>)

InvoiceLoaded(i) ==
    /\ At("order") /\ calls[i].op = "full" /\ calls[i].state # "sent"
    /\ LET p == [page EXCEPT !.busy = @ \ {"details", calls[i].arg}]
       IN  Continue(i, IF ~Mounted(i) THEN page
                       ELSE IF calls[i].state = "failed" THEN p
                       ELSE [p EXCEPT !.panel = Body(i), !.full = TRUE], <<>>)

openGenerateModal ==
    /\ Free /\ page.panel = NoInvoice /\ "defaults" \notin page.busy
    /\ page.order.status # "PARTIALLY_PAID"
    /\ Ask([page EXCEPT !.busy = @ \union {"defaults"}],
           <<Call("defaults", 0, page.tracker)>>)

DefaultsLoaded(i) ==
    /\ At("order") /\ calls[i].op = "defaults" /\ calls[i].state # "sent"
    /\ LET p == [page EXCEPT !.busy = @ \ {"defaults"}]
       IN  Continue(i, IF ~Mounted(i) THEN page
                       ELSE IF calls[i].state = "failed" THEN p
                       ELSE [p EXCEPT !.form = "create", !.draft = 1], <<>>)

openEditModal ==
    /\ Free /\ page.panel.state = "OPEN" /\ "defaults" \notin page.busy
    /\ Become([page EXCEPT !.form = "edit", !.draft = page.panel.terms])

openCloneModal ==
    /\ Free /\ page.panel.state = "SIGNED"
    /\ Become([page EXCEPT !.form = "clone", !.draft = page.panel.terms])

\* The form closes at any time, also while it is being saved.
CloseInvoiceForm ==
    /\ At("order") /\ page.form # "none"
    /\ Become([page EXCEPT !.form = "none",
                           !.mixed = @ \/ "saving" \in page.busy])

\* The form sends all of its fields, the typed ones (terms 2) and the others.
handleSaveInvoice ==
    /\ At("order") /\ page.form # "none" /\ "saving" \notin page.busy
    /\ \E terms \in {page.draft, 2} :
         Ask([page EXCEPT !.busy = @ \union {"saving"}],
             <<Call(page.form, [terms |-> terms, typed |-> terms # page.draft],
                    page.tracker)>>)

\* The parent reloads the order even when the panel that saved is gone.
InvoiceSaved(i) ==
    /\ At("order") /\ calls[i].op \in SaveOps \union {"resend"}
    /\ calls[i].state # "sent"
    /\ LET lock == IF calls[i].op = "resend" THEN "resending" ELSE "saving"
       IN  IF calls[i].state = "ok" THEN Continue(i, ReloadAfter(i), ReloadCall(page))
           ELSE Continue(i, IF Mounted(i) THEN [page EXCEPT !.busy = @ \ {lock}]
                            ELSE page, <<>>)

handleSignatureAction ==
    /\ Free /\ page.panel.state = "OPEN" /\ "resending" \notin page.busy
    /\ Ask([page EXCEPT !.busy = @ \union {"resending"}],
           <<Call("resend", 0, page.tracker)>>)

openResolution ==
    /\ Free /\ "resolving" \notin page.busy
    /\ \E popup \in {"cancel", "refund"} :
         /\ popup = "cancel" => page.order.status # "CANCELLED"
         /\ Become([page EXCEPT !.popup = popup])

resetModal ==
    /\ At("order") /\ page.popup # "none" /\ "resolving" \notin page.busy
    /\ Become([page EXCEPT !.popup = "none"])

\* Mutant: the stored refund is not looked at.
existingRefundFull == Paid

\* A stored partial refund fills the form with the amount it refunded.
existingRefundAmount ==
    IF page.order.refund.type = "PARTIAL" THEN Paid - page.order.refund.deduction
    ELSE Paid

handleResolutionSubmit ==
    /\ At("order") /\ page.popup # "none" /\ "resolving" \notin page.busy
    /\ \E type \in {"FULL", "PARTIAL"}, typed \in BOOLEAN :
         LET amount == IF type = "FULL" THEN Paid
                       ELSE IF typed THEN 1 ELSE existingRefundAmount
         IN  /\ ~typed => type = "PARTIAL" /\ page.order.refund.type = "PARTIAL"
             /\ page.popup = "cancel" => type = "FULL"
             /\ Ask([page EXCEPT !.busy = @ \union {"resolving"}],
                    <<Call(page.popup, [type |-> type, amount |-> amount,
                                        typed |-> typed], page.tracker)>>)

Resolved(i) ==
    /\ At("order") /\ calls[i].op \in {"cancel", "refund"}
    /\ calls[i].state # "sent"
    /\ IF calls[i].state = "ok" THEN Continue(i, ReloadAfter(i), ReloadCall(page))
       ELSE Continue(i, IF Mounted(i) THEN [page EXCEPT !.busy = @ \ {"resolving"}]
                        ELSE page, <<>>)

-----------------------------------------------------------------------------
\* Which saves the backend takes.
SaveAllowed(op) ==
    CASE op = "create" -> server.invoice = NoInvoice /\ server.status # "PARTIALLY_PAID"
      [] op = "edit" -> server.invoice.state = "OPEN"
      [] op = "clone" -> server.invoice.state = "SIGNED"

OrderServe(i) ==
    /\ At("order")
    /\ \/ Asked(i, "order") /\ Perform(i, server, TRUE, StoredOrder(server))
       \/ Asked(i, "full") /\ Perform(i, server, TRUE, server.invoice)
       \/ Asked(i, "defaults") /\ Perform(i, server, TRUE, <<>>)
       \/ /\ Asked(i, calls[i].op) /\ calls[i].op \in SaveOps
          /\ IF ~SaveAllowed(calls[i].op) THEN Refuse(i)
             ELSE Perform(i, [server EXCEPT !.invoice =
                                [state |-> "OPEN", terms |-> calls[i].arg.terms]],
                          TRUE, <<>>)
       \/ /\ Asked(i, "resend")
          /\ IF server.invoice.state = "OPEN" THEN Perform(i, server, TRUE, <<>>)
             ELSE Refuse(i)
       \/ /\ Asked(i, "cancel")
          /\ Perform(i, [server EXCEPT !.status = "CANCELLED"], TRUE, <<>>)
       \/ /\ Asked(i, "refund")
          /\ LET a == calls[i].arg
             IN  Perform(i, [server EXCEPT !.status = "REFUNDED",
                               !.refund = [type |-> a.type,
                                           deduction |-> Paid - a.amount]], TRUE, <<>>)

\* The customer signs the invoice.
OtherInvoice ==
    /\ At("order") /\ CanDisturb /\ server.invoice.state = "OPEN"
    /\ Elsewhere([server EXCEPT !.invoice.state = "SIGNED", !.others = @ + 1])

OrderStep ==
    \/ OpenOrder \/ loadFullInvoice \/ openGenerateModal \/ openEditModal
    \/ openCloneModal \/ CloseInvoiceForm \/ handleSaveInvoice
    \/ handleSignatureAction \/ openResolution \/ resetModal
    \/ handleResolutionSubmit \/ OtherInvoice

OrderReturn(i) ==
    \/ OrderAnswered(i) \/ InvoiceLoaded(i) \/ DefaultsLoaded(i)
    \/ InvoiceSaved(i) \/ Resolved(i)

-----------------------------------------------------------------------------
(* Properties.                                                              *)

\* When nobody else touched the order and no call got lost, the page that
\* has come to rest shows order and invoice as stored, in whatever order the
\* answers of saves, resends, views and reloads came in.
SettledOrderIsCurrent ==
    (At("order") /\ server.others = 0 /\ lost = 0 /\ calls = <<>>) =>
        page.order = StoredOrder(server) /\ page.panel = server.invoice

\* While no form is closed or taken away during its own save, no request of
\* a lone user is refused, and a form sent as it was opened stores again
\* what is stored.
LoneOrderWork ==
    (At("order") /\ server.others = 0 /\ lost = 0 /\ ~page.mixed) =>
        \A i \in DOMAIN calls :
            /\ calls[i].state # "failed"
            /\ (Asked(i, "edit") /\ ~calls[i].arg.typed) =>
                 calls[i].arg.terms = server.invoice.terms
            /\ (Asked(i, "refund") /\ ~calls[i].arg.typed) =>
                 Paid - calls[i].arg.amount = server.refund.deduction
=============================================================================
