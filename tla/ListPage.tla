------------------------------ MODULE ListPage -------------------------------
(***************************************************************************)
(* The five table pages (orders, shipments, leads, replacement orders and  *)
(* website leads): filter and page number live in the address, every       *)
(* change of them loads the list again, and the answer to any load but the *)
(* last is dropped.  A page holds one row.                                 *)
(***************************************************************************)
EXTENDS Browser, FiniteSets

\* The filters that the tables treat differently.  A narrow filter matches
\* some of the rows, whatever it is.
TableFilters(table) ==
    CASE table = "orders"       -> {"ALL", "REFUNDED", "REPLACEMENT", "SHIPPED"}
      [] table = "shipments"    -> {"ALL", "REPLACEMENT"}
      [] table = "leads"        -> {"ALL", "OPEN", "CONVERTED"}
      [] table = "replacements" -> {"ALL", "IN_TRANSIT"}
      [] table = "website"      -> {"ALL", "MINE"}

Tables == {"orders", "shipments", "leads", "replacements", "website"}

NothingShown == [where |-> {}, page |-> 0, rows |-> 0, total |-> 0, version |-> 0]

\* The address may name a later page.
ListInit ==
    \E table \in Tables : \E f \in TableFilters(table), n \in 1..2 :
      /\ f # "ALL" => n = 1
      /\ Mount("list",
               [table |-> table, filter |-> f, number |-> n,
                tracker |-> 0, busy |-> {}, shown |-> NothingShown,
                error |-> FALSE, form |-> "none", forms |-> 0, saved |-> 0],
               [all |-> 2, some |-> 1, version |-> 1])

\* What each list asks for, as the parameters it adds to the page number.
useOrdersList(f) ==
    IF f \in {"CANCELLED", "REFUNDED"} THEN {<<"status", f>>}
    ELSE IF f = "REPLACEMENT" THEN {<<"hasReplacement", "true">>}
    ELSE {<<"shipmentStatus", f>>} \ {<<"shipmentStatus", "ALL">>}

useShipmentsList(f) == {<<"status", f>>} \ {<<"status", "ALL">>}

useLeadsList(f) ==
    {<<"converted", IF f = "CONVERTED" THEN "true" ELSE "false">> :
        c \in {f} \ {"ALL"}}

useReplacementsList(f) == {<<"status", f>>} \ {<<"status", "ALL">>}

useWebsiteLeads(f) == {<<"assignment", f>>} \ {<<"assignment", "ALL">>}

Where(p) ==
    CASE p.table = "orders"       -> useOrdersList(p.filter)
      [] p.table = "shipments"    -> useShipmentsList(p.filter)
      [] p.table = "leads"        -> useLeadsList(p.filter)
      [] p.table = "replacements" -> useReplacementsList(p.filter)
      [] p.table = "website"      -> useWebsiteLeads(p.filter)

\* The effect of a changed filter, page number or refresh key.
Loading(p) == [p EXCEPT !.tracker = BeginRequest(@),
                        !.busy = @ \union {"loading"}, !.error = FALSE]

Load(p) == Call("list", [where |-> Where(p), page |-> p.number],
                BeginRequest(p.tracker))

OpenList ==
    /\ At("list") /\ page.tracker = 0
    /\ Ask(Loading(page), <<Load(page)>>)

\* Another filter starts at the first page.
ChangeFilter ==
    /\ At("list") /\ page.tracker > 0
    /\ \E f \in TableFilters(page.table) \ {page.filter} :
         LET p == [page EXCEPT !.filter = f, !.number = 1]
         IN  Ask(Loading(p), <<Load(p)>>)

HasPage(step) == IF step > 0 THEN page.shown.page < page.shown.total
                             ELSE page.shown.page > 1

\* Previous and Next: all tables but the replacements lock them while they
\* load; those count from the number in the address, as website leads do,
\* the others from the answer.
TurnPage ==
    /\ At("list") /\ page.tracker > 0
    /\ page.table # "replacements" => "loading" \notin page.busy
    /\ page.table = "website" => ~page.error
    /\ \E step \in {-1, 1} :
         LET from == IF page.table \in {"replacements", "website"}
                     THEN page.number ELSE page.shown.page
             p == [page EXCEPT !.number = IF from + step > 1 THEN from + step
                                          ELSE 1]
         IN  /\ HasPage(step)
             /\ p.number # page.number
             /\ Ask(Loading(p), <<Load(p)>>)

handleRetry ==
    /\ At("list") /\ page.error /\ page.table # "website"
    /\ Ask(Loading(page), <<Load(page)>>)

\* The effect after a load: a number past the last page is set to the last.
LastPage(p) == IF p.shown.total > 1 THEN p.shown.total ELSE 1

\* Mutant: the number in the address is left alone.
NoClamp(i, p) == Continue(i, p, <<>>)

ClampPage(i, p) ==
    IF p.table # "website" /\ p.number > LastPage(p)
    THEN LET q == [p EXCEPT !.number = LastPage(p)]
         IN  Continue(i, Loading(q), <<Load(q)>>)
    ELSE Continue(i, p, <<>>)

\* The answer.  A failure empties all tables but the website leads'.
Loaded(i) ==
    /\ At("list") /\ calls[i].op = "list" /\ calls[i].state # "sent"
    /\ IF ~IsCurrentRequest(calls[i].kept, page.tracker)
       THEN Continue(i, page, <<>>)
       ELSE LET p == [page EXCEPT !.busy = @ \ {"loading"}]
            IN  IF Succeeded(i, "list")
                THEN ClampPage(i, [p EXCEPT !.shown = Body(i)])
                ELSE ClampPage(i, [p EXCEPT !.error = TRUE, !.shown =
                         IF page.table = "website" THEN @ ELSE NothingShown])

\* The popups of the orders and the leads page.  Closing one does not stop
\* the call of its form.
MaxForms == 1 \* bound on the popups opened

TableForms == CASE page.table = "orders" -> {"edit"}
                [] page.table = "leads"  -> {"create", "edit", "convert"}
                [] OTHER -> {}

OpenForm ==
    /\ At("list") /\ page.form = "none" /\ page.forms < MaxForms
    /\ \E f \in TableForms :
         /\ f = "create" \/ page.shown.rows > 0
         /\ Become([page EXCEPT !.form = f, !.forms = @ + 1])

CloseForm ==
    /\ At("list") /\ page.form # "none"
    /\ Become([page EXCEPT !.form = "none"])

SubmitForm ==
    /\ At("list") /\ page.form # "none"
    /\ \A i \in DOMAIN calls : calls[i].op = "save" => calls[i].kept # page.forms
    /\ Ask(page, <<Call("save", page.form, page.forms)>>)

\* Every success closes the popup that is open, its own or not.
handleUpdated(p) == Loading([p EXCEPT !.form = "none"])

handleLeadSaved(p) == Loading([p EXCEPT
    !.form = IF p.form = "convert" THEN @ ELSE "none", !.filter = "ALL",
    !.number = 1])

handleOrderCreated(p) == Loading([p EXCEPT
    !.form = IF p.form = "convert" THEN "none" ELSE @])

Saved(i) ==
    /\ At("list") /\ calls[i].op = "save"
    /\ \/ Failed(i, "save") /\ Continue(i, page, <<>>)
       \/ /\ Succeeded(i, "save")
          /\ LET p == [page EXCEPT !.saved = Body(i)]
                 q == IF page.table = "orders" THEN handleUpdated(p)
                      ELSE IF calls[i].arg = "convert" THEN handleOrderCreated(p)
                      ELSE handleLeadSaved(p)
             IN  Continue(i, q, <<[Load(q) EXCEPT !.kept = q.tracker]>>)

\* Mutant: every filter is taken for a status of the order.
exportOrdersByStatus(f) == {<<"status", f>>} \ {<<"status", "ALL">>}

\* The exports build their own query from the same filters.
exportOrders(f) ==
    {<<"status", f>> : r \in {f} \intersect {"CANCELLED", "REFUNDED"}}
      \union {<<"shipmentStatus", f>> :
                r \in {f} \ {"ALL", "CANCELLED", "REFUNDED", "REPLACEMENT"}}
      \union {<<"hasReplacement", "true">> : r \in {f} \intersect {"REPLACEMENT"}}

exportLeads(f) ==
    IF f = "CONVERTED" THEN {<<"converted", "true">>}
    ELSE IF f = "OPEN" THEN {<<"converted", "false">>} ELSE {}

handleExportExcel ==
    /\ At("list") /\ page.table \in {"orders", "leads"}
    /\ "exporting" \notin page.busy /\ page.tracker > 0
    /\ LET where == IF page.table = "orders" THEN exportOrders(page.filter)
                    ELSE exportLeads(page.filter)
       IN  Ask([page EXCEPT !.busy = @ \union {"exporting"}],
               <<Call("export", where, Where(page))>>)

Exported(i) ==
    /\ At("list")
    /\ Succeeded(i, "export") \/ Failed(i, "export")
    /\ Continue(i, [page EXCEPT !.busy = @ \ {"exporting"}], <<>>)

-----------------------------------------------------------------------------
(* The backend's side.                                                       *)

Matching(where) == IF where = {} THEN server.all ELSE server.some

ListServe(i) ==
    /\ At("list")
    /\ \/ /\ Asked(i, "list")
          /\ LET q == calls[i].arg
                 total == Matching(q.where)
             IN  Perform(i, server, TRUE,
                   [where |-> q.where, page |-> q.page, total |-> total,
                    rows |-> IF q.page <= total THEN 1 ELSE 0,
                    version |-> server.version])
       \/ /\ Asked(i, "save") /\ server.version < MaxWrites
          /\ Perform(i, [server EXCEPT !.version = @ + 1,
                           !.all = @ + (IF calls[i].arg = "create" THEN 1 ELSE 0)],
                     TRUE, server.version + 1)
       \/ Asked(i, "save") /\ Refuse(i)
       \/ Asked(i, "export") /\ Perform(i, server, TRUE, <<>>)

\* Other users edit rows, which may leave or join the lists.
OtherRows ==
    /\ At("list") /\ server.version < MaxWrites
    /\ \E rows \in {<<2, 1>>, <<1, 0>>} :
         Elsewhere([all |-> rows[1], some |-> rows[2],
                    version |-> server.version + 1])

ListStep ==
    \/ OpenList \/ ChangeFilter \/ TurnPage \/ handleRetry \/ OpenForm
    \/ CloseForm \/ SubmitForm \/ handleExportExcel \/ OtherRows

ListReturn(i) == Loaded(i) \/ Saved(i) \/ Exported(i)

-----------------------------------------------------------------------------
(* Properties.                                                              *)

Settled == At("list") /\ page.busy = {} /\ page.tracker > 0 /\ ~page.error

\* Whatever the order of the answers, a table that has settled shows the
\* answer to its filter and page number of that moment, and no older than
\* the last save it reported: "The leads table has been refreshed".
SettledTableIsCurrent ==
    (Settled /\ calls = <<>>) =>
        /\ page.shown.where = Where(page)
        /\ page.shown.page = page.number
        /\ page.shown.version >= page.saved

\* A table with a clamp never rests on an empty page of a list that has
\* rows, however often Next was clicked while the rows went away.
NoEmptyPage ==
    (Settled /\ page.table # "website" /\ page.shown.total > 0) =>
        page.shown.rows > 0

\* The export, whose query is built apart from the list's, selects the same
\* rows: "The Excel file includes all orders matching the current filters."
ExportSelectsTheList ==
    At("list") => \A i \in DOMAIN calls :
        calls[i].op = "export" => calls[i].arg = calls[i].kept
=============================================================================
