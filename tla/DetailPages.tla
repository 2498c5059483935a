------------------------------ MODULE DetailPages ------------------------------
(***************************************************************************)
(* The four pages of details that show the notes of an order and of its    *)
(* shipment as three timelines: OrderDetailsView, the page of a shipment   *)
(* order (ShipmentOrderWorkspacePage), ShipmentDetailsView and             *)
(* ReplacementDetailsView, for staff who may ship.  Each has its own       *)
(* loading of notes, its own note form and its own rules, which sort       *)
(* texts by how they begin and whether they speak of a status.             *)
(***************************************************************************)
EXTENDS Browser, FiniteSets

\* How the texts of programs begin: changes of the order, steps of its
\* invoice, a new signing link, the end of an order, its shipment and its
\* replacement.
InvoiceSteps == {"Invoice generated", "Invoice updated", "signature request sent",
                 "signature request resent", "Signed invoice cloned"}

OlderTexts ==
    <<<<"typed", FALSE, FALSE>>, <<"Order updated", FALSE, FALSE>>,
      <<"Order updated", TRUE, FALSE>>, <<"Invoice generated", FALSE, FALSE>>,
      <<"Invoice updated", FALSE, FALSE>>, <<"signature request sent", FALSE, FALSE>>,
      <<"signature request resent", FALSE, FALSE>>,
      <<"Signed invoice cloned", FALSE, FALSE>>, <<"New signing link", FALSE, FALSE>>,
      <<"Order refunded", FALSE, FALSE>>, <<"Replacement", TRUE, TRUE>>>>

\* A note: what it begins with, whether it has the words of a status change
\* (says), and whether one of its lines begins with "- Status:" (line).
NoteOf(notes, by, says, line) ==
    [n |-> Len(OlderTexts) + Cardinality(notes) + 1, by |-> by, says |-> says, line |-> line]

WithNote(notes, by, says, line) == notes \union {NoteOf(notes, by, says, line)}

\* One note of each beginning; that of an edited order may name a status.
\* They never change, so the rows below hold only the notes after them.
OlderNotes ==
    {[n |-> n, by |-> OlderTexts[n][1], says |-> OlderTexts[n][2],
      line |-> OlderTexts[n][3]] : n \in DOMAIN OlderTexts}

OlderShipmentNotes ==
    {[n |-> 1, by |-> "typed", says |-> FALSE, line |-> FALSE],
     [n |-> 2, by |-> "Replacement", says |-> TRUE, line |-> TRUE]}

NoOrderShown == [status |-> "NONE", ship |-> "NONE", notes |-> {}]

StoredDetail(s) == [status |-> s.status, ship |-> s.ship, notes |-> s.notes]

ResolvedForShipment == {"CANCELLED", "REFUNDED"}

\* The rows behind the page when it is opened.
DetailRows(kind) ==
    CASE kind = "order"       -> {<<"CONFIRMED", "NONE">>, <<"CONFIRMED", "DELIVERED">>,
                                  <<"CANCELLED", "DELIVERED">>}
      [] kind = "workspace"   -> {<<"CONFIRMED", "NONE">>, <<"CONFIRMED", "PENDING">>,
                                  <<"CANCELLED", "PENDING">>}
      [] kind = "shipment"    -> {<<"CONFIRMED", "IN_TRANSIT">>, <<"CANCELLED", "DELIVERED">>}
      [] kind = "replacement" -> {<<"CONFIRMED", "DELIVERED">>}

\* What the page of a shipment knows of it: status and that of its order.
NoOrderShipment == <<"NONE", "NONE">>

NoReplacementRow == [status |-> "NONE", yard |-> 0, histories |-> <<>>]

\* The page of a shipment has its shipment, whose load ShipmentPage has.
DetailInit ==
    \E kind \in {"order", "workspace", "shipment", "replacement"} :
      \E row \in DetailRows(kind) :
        Mount("detail",
              [kind |-> kind, tracker |-> 0, order |-> NoOrderShown,
               ship |-> IF kind = "shipment" THEN row ELSE NoOrderShipment,
               rep |-> NoReplacementRow, run |-> 0, notes |-> {},
               refreshes |-> 0, offered |-> FALSE, listing |-> FALSE, mount |-> 0,
               busy |-> {},
               mixed |-> FALSE],
              [status |-> row[1], ship |-> row[2], notes |-> {},
               shipmentNotes |-> OlderShipmentNotes,
               replacements |-> IF kind = "replacement" THEN 1 ELSE 0,
               rep |-> [status |-> "WAITING", yard |-> 0, histories |-> <<"edit">>],
               others |-> 0])

OnDetail(kind) == At("detail") /\ page.kind = kind

-----------------------------------------------------------------------------
(* The pages' parts come and go: a loading order covers the first two with  *)
(* a skeleton, and the button for a replacement appears with a delivery.    *)

IsCovered(p) == p.kind \in {"order", "workspace"} /\ "order" \in p.busy

HasOrder(p) == p.order # NoOrderShown /\ ~IsCovered(p)

\* Order and shipment page decide separately when a replacement may be asked
\* for: only the first looks at CANCELLED, or at an order's own DELIVERED.
canShowReplacement(p) ==
    /\ p.kind = "order" /\ HasOrder(p)
    /\ p.order.status \notin ResolvedForShipment
    /\ p.order.status = "DELIVERED" \/ p.order.ship = "DELIVERED"

canCreateReplacementFromShipment(p) ==
    /\ p.kind = "shipment" /\ HasOrder(p)
    /\ p.ship[2] = "DELIVERED" /\ p.order.status # "REFUNDED"

HasTracker(p) == canShowReplacement(p) \/ canCreateReplacementFromShipment(p)

\* Page p becomes q: a ReplacementTracker that is mounted lists whether there
\* is a replacement; one that goes takes its lock along.  mixed remembers one
\* that went during its own save.
Remounted(p, q) ==
    IF HasTracker(q) /\ ~HasTracker(p)
    THEN [q EXCEPT !.offered = FALSE, !.listing = TRUE]
    ELSE IF HasTracker(p) /\ ~HasTracker(q)
    THEN [q EXCEPT !.mount = @ + 1, !.listing = FALSE, !.busy = @ \ {"replacing"},
                   !.mixed = @ \/ "replacing" \in q.busy]
    ELSE q

GoOn(i, q, new) == Continue(i, Remounted(page, q), new)

\* A new run of an effect drops the answer to the older one.
BeginNotes(p) == [p EXCEPT !.run = @ + 1, !.busy = @ \union {"notes"}]
NotesCall(p) == <<Call("notes", 0, p.run + 1)>>
EndNotes(p) == [p EXCEPT !.run = @ + 1, !.notes = {}, !.busy = @ \ {"notes"}]

\* The order is loaded again: the page of an order has only the tracker
\* inside of what the skeleton replaces, that of a shipment order its note
\* card and its form as well.
OrderPageReloads(p) ==
    [p EXCEPT !.tracker = BeginRequest(@), !.busy = @ \union {"order"}]

ShipmentOrderReloads(p) ==
    [EndNotes(OrderPageReloads(p)) EXCEPT
        !.mount = @ + 1, !.busy = @ \ {"saving", "shipping"},
        !.mixed = @ \/ "shipping" \in p.busy]

\* The other two keep what they show.
OrderReloads(p) ==
    IF p.kind = "workspace" THEN ShipmentOrderReloads(p) ELSE OrderPageReloads(p)

OrderLoadCall(p) == <<Call("order", 0, BeginRequest(p.tracker))>>

OpenOrderDetail ==
    /\ At("detail") /\ page.kind \in {"order", "workspace"} /\ made = 0
    /\ Ask(OrderReloads(page), OrderLoadCall(page))

OpenShipmentCard ==
    /\ OnDetail("shipment") /\ made = 0
    /\ Ask(BeginNotes(OrderReloads(page)), OrderLoadCall(page) \o NotesCall(page))

OpenReplacement ==
    /\ OnDetail("replacement") /\ made = 0
    /\ Ask([page EXCEPT !.busy = {"loading"}], <<Call("replacement", 0, 0)>>)

\* The order of an answer, none after a failure; an overtaken answer is
\* dropped.
OrderAnswer(i) ==
    [page EXCEPT !.busy = @ \ {"order"},
                 !.order = IF calls[i].state = "ok" THEN Body(i) ELSE NoOrderShown]

OrderReturned(i, kinds) ==
    /\ At("detail") /\ page.kind \in kinds
    /\ calls[i].op = "order" /\ calls[i].state # "sent"

IsLast(i) == page.kind # "left" /\ IsCurrentRequest(calls[i].kept, page.tracker)

OrderDropped(i) ==
    OrderReturned(i, {page.kind}) /\ ~IsLast(i) /\ Continue(i, page, <<>>)

\* On the page of an order every answer loads the notes of its shipments.
OrderPageLoaded(i) ==
    /\ OrderReturned(i, {"order"}) /\ IsLast(i)
    /\ LET p == OrderAnswer(i)
       IN  IF p.order.ship = "NONE" THEN GoOn(i, EndNotes(p), <<>>)
           ELSE GoOn(i, BeginNotes(p), NotesCall(p))

\* On the page of a shipment order the card is mounted anew.
ShipmentOrderLoaded(i) ==
    /\ OrderReturned(i, {"workspace"}) /\ IsLast(i)
    /\ LET p == OrderAnswer(i)
       IN  IF p.order.ship = "NONE" THEN Continue(i, EndNotes(p), <<>>)
           ELSE Continue(i, BeginNotes(p), NotesCall(p))

InvoiceOrderLoaded(i) ==
    /\ OrderReturned(i, {"shipment", "replacement"}) /\ IsLast(i)
    /\ GoOn(i, OrderAnswer(i), <<>>)

\* A failure leaves the notes of before, and an error.
ShipmentNotesLoaded(i) ==
    /\ At("detail") /\ calls[i].op = "notes" /\ calls[i].state # "sent"
    /\ LET free == [page EXCEPT !.busy = @ \ {"notes"}]
       IN  Continue(i, IF calls[i].kept # page.run THEN page
                       ELSE IF calls[i].state = "failed" THEN free
                       ELSE [free EXCEPT !.notes = Body(i)], <<>>)

-----------------------------------------------------------------------------
(* The note form.                                                           *)

HasNoteCard ==
    /\ At("detail")
    /\ \/ page.kind \in {"order", "workspace"} /\ HasOrder(page)
       \/ page.kind = "shipment" /\ made > 0
       \/ page.kind = "replacement" /\ page.rep # NoReplacementRow

\* Only the page of a shipment writes the note to the shipment.
NoteEntity(kind) == IF kind = "shipment" THEN "SHIPMENT" ELSE "ORDER"

\* The form is opened, filled and submitted in one step; it may be closed
\* while it is saved, but is locked until then.  A note to the order may
\* speak of a status.
handleAddNoteSubmit ==
    /\ HasNoteCard /\ "saving" \notin page.busy
    /\ \E says \in {FALSE, NoteEntity(page.kind) = "ORDER"} :
         Ask([page EXCEPT !.busy = @ \union {"saving"}],
             <<Call("note", [entity |-> NoteEntity(page.kind), says |-> says],
                    IF page.kind = "workspace" THEN page.mount ELSE 0)>>)

NoteFormDone(p) == [p EXCEPT !.busy = @ \ {"saving"}]

NoteReturned(i, kind) ==
    /\ At("detail") /\ page.kind = kind
    /\ calls[i].op = "note" /\ calls[i].state # "sent"

NoteRefused(i, kind, mine) ==
    /\ NoteReturned(i, kind) /\ calls[i].state = "failed"
    /\ Continue(i, IF mine THEN [page EXCEPT !.busy = @ \ {"saving"}] ELSE page, <<>>)

OrderPageNoteAdded(i) ==
    \/ NoteRefused(i, "order", TRUE)
    \/ /\ NoteReturned(i, "order") /\ calls[i].state = "ok"
       /\ GoOn(i, OrderPageReloads(NoteFormDone(page)), OrderLoadCall(page))

\* The page of a shipment order is loaded again also when the card that
\* asked for the note has gone.
ShipmentOrderNoteAdded(i) ==
    LET mine == calls[i].kept = page.mount
    IN  \/ NoteRefused(i, "workspace", mine)
        \/ /\ NoteReturned(i, "workspace") /\ calls[i].state = "ok"
           /\ Continue(i, ShipmentOrderReloads(IF mine THEN NoteFormDone(page) ELSE page),
                       OrderLoadCall(page))
        \/ NoteReturned(i, "left") /\ Continue(i, page, <<>>)

\* On the page of a shipment the stored note is put first; a first load that
\* is still under way will replace the list by an older one (mixed).
ShipmentPageNoteAdded(i) ==
    \/ NoteRefused(i, "shipment", TRUE)
    \/ /\ NoteReturned(i, "shipment") /\ calls[i].state = "ok"
       /\ Continue(i, [NoteFormDone(page) EXCEPT
                          !.notes = @ \union {Body(i)},
                          !.mixed = @ \/ "notes" \in page.busy], <<>>)

ReplacementPageNoteAdded(i) ==
    \/ NoteRefused(i, "replacement", TRUE)
    \/ /\ NoteReturned(i, "replacement") /\ calls[i].state = "ok"
       /\ Continue(i, OrderReloads(NoteFormDone(page)), OrderLoadCall(page))

-----------------------------------------------------------------------------
(* ReplacementTracker, a button with a popup.                               *)

\* Only the last list counts, so it is a flag and one step that answers it;
\* a failed list shows no replacement.
ReplacementsListed ==
    /\ At("detail") /\ page.listing
    /\ \/ Become([page EXCEPT !.listing = FALSE, !.offered = server.replacements > 0])
       \/ /\ CanDisturb
          /\ page' = [page EXCEPT !.listing = FALSE, !.offered = FALSE]
          /\ lost' = lost + 1
          /\ UNCHANGED <<mounted, server, calls, made>>

\* Opened and submitted in one step: the button waits for the list and is
\* disabled once there is a replacement.
SubmitReplacement ==
    /\ At("detail") /\ HasTracker(page) /\ ~page.offered /\ ~page.listing
    /\ "replacing" \notin page.busy
    /\ Ask([page EXCEPT !.busy = @ \union {"replacing"}],
           <<Call("replace", page.kind = "shipment" \/ page.order.ship # "NONE", page.mount)>>)

\* On the page of an order the order is loaded again, which covers tracker
\* and list.  On the page of a shipment the list is loaded again, and the
\* lock waits for the shipment.
ReplacementCreated(i) ==
    /\ At("detail") /\ calls[i].op = "replace" /\ calls[i].state # "sent"
    /\ LET mine == calls[i].kept = page.mount
           free == IF mine THEN [page EXCEPT !.busy = @ \ {"replacing"}] ELSE page
       IN  IF page.kind = "left" THEN Continue(i, page, <<>>)
           ELSE IF calls[i].state = "failed" THEN Continue(i, free, <<>>)
           ELSE IF page.kind = "order"
           THEN GoOn(i, OrderReloads(free), OrderLoadCall(free))
           ELSE Continue(i, [page EXCEPT
                   !.listing = @ \/ mine,
                   !.refreshes = BeginRequest(@),
                   !.mixed = @ \/ "updating" \in page.busy],
                 <<Call("refresh", BeginRequest(page.refreshes), calls[i].kept)>>)

\* The order follows, also when a later load of the shipment has overtaken
\* this one.  A failure puts an error in place of the page.
ShipmentRefreshed(i) ==
    /\ At("detail") /\ calls[i].op = "refresh" /\ calls[i].state # "sent"
    /\ LET free == IF calls[i].kept = page.mount
                   THEN [page EXCEPT !.busy = @ \ {"replacing"}] ELSE page
           last == IsCurrentRequest(calls[i].arg, page.refreshes)
           q == [free EXCEPT !.ship = IF last THEN Body(i) ELSE @]
       IN  IF page.kind = "left" THEN Continue(i, page, <<>>)
           ELSE IF last /\ calls[i].state = "failed"
           THEN Continue(i, [page EXCEPT !.kind = "left", !.busy = {}], <<>>)
           ELSE GoOn(i, OrderReloads(q), OrderLoadCall(q))

-----------------------------------------------------------------------------
(* What else the pages change.                                              *)

\* CreateShipmentForm of the page of a shipment order.
SaveShipment ==
    /\ OnDetail("workspace") /\ HasOrder(page) /\ "shipping" \notin page.busy
    /\ page.order.status \notin ResolvedForShipment
    /\ \E status \in {"PENDING", "SHIPPED"} :
         Ask([page EXCEPT !.busy = @ \union {"shipping"}],
             <<Call("ship", [status |-> status, creates |-> page.order.ship = "NONE"],
                    page.mount)>>)

\* A shipped order moves on to another list, and the user with it.
handleShipmentCreated(i) ==
    /\ At("detail") /\ calls[i].op = "ship" /\ calls[i].state # "sent"
    /\ LET free == IF calls[i].kept = page.mount
                   THEN [page EXCEPT !.busy = @ \ {"shipping"}] ELSE page
       IN  IF page.kind = "left" THEN Continue(i, page, <<>>)
           ELSE IF calls[i].state = "failed" THEN Continue(i, free, <<>>)
           ELSE IF Body(i) = "SHIPPED"
           THEN Continue(i, [page EXCEPT !.kind = "left", !.busy = {}], <<>>)
           ELSE GoOn(i, OrderReloads(free), OrderLoadCall(free))

resolvedStatus ==
    IF page.order # NoOrderShown THEN page.order.status ELSE page.ship[1]

\* The status of the shipment is shown at once.  Both roles that may ship
\* choose any status.
submitStatus ==
    /\ OnDetail("shipment") /\ made > 0 /\ "updating" \notin page.busy
    /\ resolvedStatus \notin ResolvedForShipment
    /\ \E status \in {"IN_TRANSIT", "DELIVERED"} \ {page.ship[2]} :
         LET q == [page EXCEPT !.ship[2] = status, !.busy = @ \union {"updating"},
                     !.mixed = @ \/ \E i \in DOMAIN calls : calls[i].op = "refresh"]
         IN  Ask(Remounted(page, q),
                 <<Call("status", status, page.ship)>>)

\* A failure takes the status back; either way the order is loaded again.
StatusAnswered(i) ==
    /\ At("detail") /\ calls[i].op = "status" /\ calls[i].state # "sent"
    /\ LET q == [page EXCEPT !.busy = @ \ {"updating"},
                             !.ship = IF calls[i].state = "ok" THEN Body(i)
                                      ELSE calls[i].kept]
       IN  IF page.kind = "left" THEN Continue(i, page, <<>>)
           ELSE GoOn(i, OrderReloads(q), OrderLoadCall(q))

\* The page of a replacement loads order and notes once it knows them.
ReplacementLoaded(i) ==
    /\ At("detail") /\ calls[i].op = "replacement" /\ calls[i].state # "sent"
    /\ LET free == [page EXCEPT !.busy = @ \ {"loading"}]
       IN  IF calls[i].state = "failed" THEN Continue(i, free, <<>>)
           ELSE Continue(i, BeginNotes(OrderReloads([free EXCEPT !.rep = Body(i)])),
                         OrderLoadCall(free) \o NotesCall(free))

\* The card holds the row as it was loaded or last stored, or what is typed.
handleUpdate ==
    /\ OnDetail("replacement") /\ page.rep # NoReplacementRow
    /\ "updating" \notin page.busy
    /\ \E status \in {"WAITING", "IN_TRANSIT"}, yard \in {page.rep.yard, 1} :
         Ask([page EXCEPT !.busy = @ \union {"updating"}],
             <<Call("update", [status |-> status, yard |-> yard],
                    <<status, yard>> # <<page.rep.status, page.rep.yard>>)>>)

\* The answer is shown; a failure leaves its error and skips the reload.
updateReplacement(i) ==
    /\ At("detail") /\ calls[i].op = "update" /\ calls[i].state # "sent"
    /\ LET free == [page EXCEPT !.busy = @ \ {"updating"}]
       IN  IF calls[i].state = "failed" THEN Continue(i, free, <<>>)
           ELSE Continue(i, OrderReloads([free EXCEPT !.rep = Body(i)]),
                         OrderLoadCall(free))

-----------------------------------------------------------------------------
(* The backend's side.                                                      *)

\* A replacement is noted at the order and at its shipment.
TrackingNotes(s, status, shipment) ==
    [s EXCEPT !.notes = WithNote(@, "Replacement", status, status),
              !.shipmentNotes = IF shipment THEN WithNote(@, "Replacement", status, status)
                                ELSE @]

StatusNoted(s) == [s EXCEPT !.notes = WithNote(@, "Shipment status updated", TRUE, FALSE)]

\* An update that changes nothing is refused.
UpdatedReplacement(s, given) ==
    LET moved == given.status # s.rep.status
    IN  TrackingNotes([s EXCEPT
           !.rep = [status |-> given.status, yard |-> given.yard,
                    histories |-> Append(@.histories, IF moved THEN "status" ELSE "edit")]],
           moved, TRUE)

DetailServe(i) ==
    /\ At("detail")
    /\ \/ Asked(i, "order") /\ Perform(i, server, TRUE, StoredDetail(server))
       \/ Asked(i, "notes") /\ Perform(i, server, TRUE, server.shipmentNotes)
       \/ Asked(i, "refresh") /\ Perform(i, server, TRUE, <<server.status, server.ship>>)
       \/ Asked(i, "replacement") /\ Perform(i, server, TRUE, server.rep)
       \/ /\ Asked(i, "note")
          /\ LET says == calls[i].arg.says
             IN  IF calls[i].arg.entity = "ORDER"
                 THEN Perform(i, [server EXCEPT !.notes =
                        WithNote(@, "typed", says, FALSE)], TRUE, <<>>)
                 ELSE Perform(i, [server EXCEPT !.shipmentNotes =
                        WithNote(@, "typed", says, FALSE)], TRUE,
                        NoteOf(server.shipmentNotes, "typed", says, FALSE))
       \/ /\ Asked(i, "replace")
          /\ Perform(i, TrackingNotes([server EXCEPT !.replacements = @ + 1], TRUE,
                                      calls[i].arg), TRUE, <<>>)
       \/ /\ Asked(i, "ship")
          /\ IF calls[i].arg.creates /\ server.ship # "NONE" THEN Refuse(i)
             ELSE Perform(i, StatusNoted([server EXCEPT !.ship = calls[i].arg.status]),
                          TRUE, calls[i].arg.status)
       \/ /\ Asked(i, "status")
          /\ Perform(i, StatusNoted([server EXCEPT !.ship = calls[i].arg]), TRUE,
                     <<server.status, calls[i].arg>>)
       \/ /\ Asked(i, "update")
          /\ LET given == calls[i].arg
                 s == UpdatedReplacement(server, given)
             IN  IF given = [status |-> server.rep.status, yard |-> server.rep.yard]
                 THEN Refuse(i) ELSE Perform(i, s, TRUE, s.rep)

OthersDetail ==
    /\ At("detail") /\ CanDisturb /\ page.kind # "left"
    /\ LET s == [server EXCEPT !.others = @ + 1]
       IN  \/ Elsewhere([s EXCEPT !.notes = WithNote(@, "Order updated", TRUE, FALSE),
                                  !.status = "CANCELLED"])
           \/ /\ server.ship # "NONE"
              /\ Elsewhere(TrackingNotes([s EXCEPT !.replacements = @ + 1], TRUE, TRUE))

DetailStep ==
    \/ OpenOrderDetail \/ OpenShipmentCard \/ OpenReplacement
    \/ handleAddNoteSubmit \/ ReplacementsListed \/ SubmitReplacement
    \/ SaveShipment \/ submitStatus \/ handleUpdate \/ OthersDetail

DetailReturn(i) ==
    \/ OrderDropped(i) \/ OrderPageLoaded(i) \/ ShipmentOrderLoaded(i)
    \/ InvoiceOrderLoaded(i) \/ ShipmentNotesLoaded(i)
    \/ OrderPageNoteAdded(i) \/ ShipmentOrderNoteAdded(i)
    \/ ShipmentPageNoteAdded(i) \/ ReplacementPageNoteAdded(i)
    \/ ReplacementCreated(i) \/ ShipmentRefreshed(i)
    \/ handleShipmentCreated(i) \/ StatusAnswered(i) \/ ReplacementLoaded(i)
    \/ updateReplacement(i)

-----------------------------------------------------------------------------
(* The timelines: the same regular expressions in three wordings.           *)

\* OrderDetailsView: the words of a status win over every beginning.
isInvoiceActivityNote(n) == n.by \in InvoiceSteps
isPlainUserNoteContent(n) ==
    /\ n.by \notin {"Order updated", "Shipment status updated", "Replacement"}
    /\ ~isInvoiceActivityNote(n) /\ ~n.says

buildNoteTimeline(notes) ==
    {n \in notes : n.by # "Order updated" /\ ~isInvoiceActivityNote(n) /\ ~n.says}
buildEditHistoryTimeline(notes) ==
    {n \in notes : (n.by = "Order updated" \/ isInvoiceActivityNote(n)) /\ ~n.says}
buildStatusTimeline(notes) == {n \in notes : n.says}

OrderPageTimelines(notes) ==
    <<buildNoteTimeline(notes), buildEditHistoryTimeline(notes), buildStatusTimeline(notes)>>

\* CreateShipmentWorkspace: the beginnings win.
ShipmentOrderInvoiceNote(n) == n.by \in InvoiceSteps
isOrderStatusHistoryNote(n) ==
    n.says /\ n.by \notin {"Shipment status updated", "Order updated"}
isPlainOrderNote(n) ==
    /\ n.by \notin {"Shipment status updated", "Order updated", "Replacement"}
    /\ ~isOrderStatusHistoryNote(n) /\ ~ShipmentOrderInvoiceNote(n)

ShipmentOrderNotes(notes) == {n \in notes : isPlainOrderNote(n)}
ShipmentOrderEdits(notes) ==
    {n \in notes : n.by = "Order updated" \/ ShipmentOrderInvoiceNote(n)}
ShipmentOrderStatuses(notes) ==
    {n \in notes : isOrderStatusHistoryNote(n) \/ n.by = "Shipment status updated"}

ShipmentOrderTimelines(notes) ==
    <<ShipmentOrderNotes(notes), ShipmentOrderEdits(notes), ShipmentOrderStatuses(notes)>>

\* ShipmentDetailsView: the same in a copy of its own.
ShipmentInvoiceNote(n) == n.by \in InvoiceSteps
ShipmentStatusNote(n) ==
    n.by = "Shipment status updated" \/ (n.says /\ n.by # "Order updated")
ShipmentPlainNote(n) ==
    /\ n.by \notin {"Order updated", "Replacement"}
    /\ ~ShipmentStatusNote(n) /\ ~ShipmentInvoiceNote(n)

ShipmentPageTimelines(notes) ==
    <<{n \in notes : ShipmentPlainNote(n)},
      {n \in notes : n.by = "Order updated" \/ ShipmentInvoiceNote(n)},
      {n \in notes : ShipmentStatusNote(n)}>>

\* ReplacementDetailsView: only notes of programs are history.
isReplacementStatusNote(n) ==
    (n.by = "Replacement" /\ n.line) \/ n.by = "Shipment status updated"
isEditHistoryNote(n) ==
    \/ n.by \in {"Order updated"} \union InvoiceSteps
    \/ n.by = "Replacement" /\ ~isReplacementStatusNote(n)
isPlainReplacementNote(n) ==
    ~isEditHistoryNote(n) /\ ~isReplacementStatusNote(n) /\ n.by # "Replacement"

buildReplacementNoteEntries(notes) == {n \in notes : isPlainReplacementNote(n)}
buildReplacementEditHistoryEntries(notes) == {n \in notes : isEditHistoryNote(n)}
buildReplacementStatusHistoryEntries(notes) == {n \in notes : isReplacementStatusNote(n)}

ReplacementTimelines(notes) ==
    <<buildReplacementNoteEntries(notes), buildReplacementEditHistoryEntries(notes),
      buildReplacementStatusHistoryEntries(notes)>>

Timelines(kind, notes) ==
    CASE kind = "order"       -> OrderPageTimelines(notes)
      [] kind = "workspace"   -> ShipmentOrderTimelines(notes)
      [] kind = "shipment"    -> ShipmentPageTimelines(notes)
      [] kind = "replacement" -> ReplacementTimelines(notes)

\* The notes of the shipment among the plain ones.
ShipmentNotesShown(kind, notes) ==
    CASE kind = "order"       -> {n \in notes : isPlainUserNoteContent(n)}
      [] kind = "workspace"   -> ShipmentOrderNotes(notes)
      [] kind = "shipment"    -> {n \in notes : ShipmentPlainNote(n)}
      [] kind = "replacement" -> buildReplacementNoteEntries(notes)

-----------------------------------------------------------------------------
(* Properties.                                                              *)

LoneDetail == At("detail") /\ server.others = 0 /\ lost = 0 /\ ~page.mixed

AtRest == page.kind # "left" /\ made > 0 /\ calls = <<>> /\ ~page.listing

\* Two pages leave out a change of a replacement that keeps its status.
Omitted(kind, n) ==
    kind \in {"workspace", "shipment"} /\ n.by = "Replacement" /\ ~n.says

\* Left to itself a page at rest shows every note of the order, also those
\* that its own operations made the backend write, in exactly one timeline,
\* and the notes that users wrote at the shipment.
SettledNotesAreShown ==
    (LoneDetail /\ AtRest) =>
        LET shown == Timelines(page.kind, OlderNotes \union page.order.notes)
        IN  /\ page.order = StoredDetail(server)
            /\ \A n \in OlderNotes \union server.notes :
                 Cardinality({t \in 1..3 : n \in shown[t]})
                     = IF Omitted(page.kind, n) THEN 0 ELSE 1
            /\ server.ship # "NONE" =>
                 ShipmentNotesShown(page.kind, page.notes)
                     = ShipmentNotesShown(page.kind, server.shipmentNotes)
            /\ page.kind = "shipment" => page.ship = <<server.status, server.ship>>
            /\ page.kind = "replacement" => page.rep = server.rep
            /\ HasTracker(page) => (page.offered <=> server.replacements > 0)

\* Nor is a lone user refused anything but an update without a change, and
\* one part is not replaced twice.
LoneDetailWork ==
    LoneDetail =>
        /\ \A i \in DOMAIN calls :
             calls[i].state = "failed" => calls[i].op = "update" /\ ~calls[i].kept
        /\ server.replacements <= 1
=============================================================================
