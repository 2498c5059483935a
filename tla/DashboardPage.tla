---------------------------- MODULE DashboardPage -----------------------------
(***************************************************************************)
(* The dashboard: what the service reports, and the page that asks for it. *)
(***************************************************************************)
EXTENDS Browser, Integers, FiniteSets, FiniteSetsExt, Sequences, SequencesExt

-------------------------------------------------------------------------------
\* DashboardService: which orders and leads a period selects, and what the
\* three views count in them.  An instant is an hour of UTC, hour 0 opens
\* day 1, and Pacific time is 8 hours behind, or 7 in summer.

\* The clocks change in the night of day 3: forward at 2 h, or back.
Change(zone) == 24 * 2 + (IF zone = "spring" THEN 10 ELSE 9)

\* getTimeZoneOffsetMs
Offset(zone, t) ==
    IF (t < Change(zone)) = (zone = "spring") THEN -8 ELSE -7

getPacificDateParts(zone, t) == (t + Offset(zone, t)) \div 24 + 1

\* Mutant: the offset of winter at all times.
zonedTimeFixed(zone, day) == 24 * (day - 1) + 8

\* The first instant of a Pacific day: the offset is looked up twice.
zonedTimeToUtc(zone, day) ==
    LET utc == 24 * (day - 1)
        firstPass == utc - Offset(zone, utc)
    IN  utc - Offset(zone, firstPass)

\* Months have three days; only their ends matter.
MonthOf(day) == (day - 1) \div 3 + 1
FirstDay(month) == 3 * (month - 1) + 1

\* What a range that is refused is taken for.
NoPeriod == [start |-> 0, end |-> 0]

resolveCustomDashboardPeriod(s, from, to) ==
    LET start == zonedTimeToUtc(s.zone, from)
        uncappedEnd == zonedTimeToUtc(s.zone, to + 1)
    IN  IF uncappedEnd <= start THEN NoPeriod
        ELSE [start |-> start,
              end |-> IF start <= s.now /\ uncappedEnd > s.now THEN s.now
                      ELSE uncappedEnd]

\* A query of the page names a month, or its first and last day.
resolveDashboardPeriod(s, q) ==
    IF "from" \in DOMAIN q THEN resolveCustomDashboardPeriod(s, q.from, q.to)
    ELSE LET nextMonthStart == zonedTimeToUtc(s.zone, FirstDay(q.month + 1))
             current == MonthOf(getPacificDateParts(s.zone, s.now))
         IN  [start |-> zonedTimeToUtc(s.zone, FirstDay(q.month)),
              end |-> IF q.month = current /\ s.now < nextMonthStart THEN s.now
                      ELSE nextMonthStart]

Within(t, period) == t >= period.start /\ t < period.end

-----------------------------------------------------------------------------
(* getSalesOverview                                                         *)

CompletedSaleStatuses == {"CONFIRMED", "SHIPPED", "DELIVERED"}

\* Cards and invoices cost a fee of 2 %; amounts are multiples of 50.
getGpSaleBasis(order) ==
    IF order.paymentMethod \in {"CREDIT_CARD", "INVOICE"}
    THEN order.sale - order.sale \div 50
    ELSE order.sale

\* Of the cost sheet: the amount that is actual, else its estimate, and the
\* additional costs, else the total stored for them.
calculateOrderGrossProfit(order) ==
    LET c == order.sheet[1]
    IN  IF order.sheet = <<>> THEN getGpSaleBasis(order)
        ELSE getGpSaleBasis(order)
             - (IF c.hasActual THEN c.actual ELSE c.estimated)
             - (IF order.extras # <<>> THEN FoldSeq(+, 0, order.extras)
                ELSE c.additional)

\* An order or a lead of a user without a row of his own adds a row.
getSalesOverview(s, q) ==
    LET period == resolveDashboardPeriod(s, q)
        sales  == {i \in DOMAIN s.orders :
                     /\ Within(s.orders[i].at, period)
                     /\ s.orders[i].status \in CompletedSaleStatuses}
        leads  == {i \in DOMAIN s.leads : Within(s.leads[i].at, period)}
        metric == [a \in DOMAIN s.users |->
            LET mine == {i \in sales : s.orders[i].by = a}
            IN  [calls    |-> Cardinality({i \in leads : s.leads[i].by = a}),
                 sales    |-> Cardinality(mine),
                 charging |-> MapThenSumSet(LAMBDA i : s.orders[i].sale, mine),
                 profit   |-> MapThenSumSet(
                     LAMBDA i : calculateOrderGrossProfit(s.orders[i]), mine)]]
        agents == {a \in DOMAIN s.users :
                     \E f \in DOMAIN metric[a] : metric[a][f] # 0}
        total(f) == MapThenSumSet(LAMBDA a : metric[a][f], agents)
    IN  [agents |-> [a \in agents |-> metric[a]],
         totals |-> [f \in {"calls", "sales", "charging", "profit"} |-> total(f)]]

-----------------------------------------------------------------------------
(* getOrderStatus                                                           *)

resolveCurrentOrderFulfillmentStatus(order) ==
    IF order.status \in {"CANCELLED", "REFUNDED"} THEN order.status
    ELSE IF order.shipment # "NONE" THEN order.shipment
    ELSE "PENDING"

isPendingFulfillmentStatus(status) ==
    status \notin {"DELIVERED", "CANCELLED", "REFUNDED"}

calculatePacificAgeingDays(s, order) ==
    Max({0, getPacificDateParts(s.zone, s.now) - getPacificDateParts(s.zone, order.at)})

matchesAgeingRange(days, range) ==
    CASE range = "0-7"   -> days \in 0..7
      [] range = "8-14"  -> days \in 8..14
      [] range = "15-30" -> days \in 15..30
      [] range = "31+"   -> days >= 31
      [] OTHER -> TRUE

\* The row of order i.  An order that is delivered without a shipment was
\* delivered when it was changed last; here both are its own time.
StatusRow(s, i, overdueDays) ==
    LET status == resolveCurrentOrderFulfillmentStatus(s.orders[i])
        days   == calculatePacificAgeingDays(s, s.orders[i])
    IN  [id |-> i, status |-> status, ageingDays |-> days,
         isPending |-> isPendingFulfillmentStatus(status),
         isOverdue |-> isPendingFulfillmentStatus(status) /\ days > overdueDays,
         deliveredAt |-> s.orders[i].deliveredAt]

PageSize == 1 \* rows on a page of the table of orders

\* The rows newest first; the counts are of all that match, the rows of one
\* page.
getOrderStatus(s, q) ==
    LET period == resolveDashboardPeriod(s, q)
        mine   == {i \in DOMAIN s.orders :
                     /\ Within(s.orders[i].at, period)
                     /\ q.agentId \in {"ALL", s.orders[i].by}}
        newest == SortSeq(SetToSeq(mine),
                          LAMBDA i, j : s.orders[i].at > s.orders[j].at)
        all    == [k \in DOMAIN newest |-> StatusRow(s, newest[k], q.overdueDays)]
        rows   == SelectSeq(all, LAMBDA row :
                     /\ q.status \in {"ALL", row.status}
                     /\ matchesAgeingRange(row.ageingDays, q.ageingRange))
        of(P(_)) == {k \in DOMAIN rows : P(rows[k])}
        pending == of(LAMBDA row : row.isPending)
        ages    == MapThenSumSet(LAMBDA k : rows[k].ageingDays, pending)
    IN  [rows |-> SubSeq(rows, (q.page - 1) * PageSize + 1,
                         Min({q.page * PageSize, Len(rows)})),
         page |-> q.page, total |-> Len(rows),
         pendingOrders |-> Cardinality(pending),
         averageAgeing |-> IF pending = {} THEN 0
                           ELSE (2 * ages + Cardinality(pending))
                                   \div (2 * Cardinality(pending)),
         delivered |-> Cardinality(of(LAMBDA row :
                          /\ row.status = "DELIVERED"
                          /\ Within(row.deliveredAt, period))),
         overdueOrders |-> Cardinality(of(LAMBDA row : row.isOverdue))]

-----------------------------------------------------------------------------
(* getAgentLeads                                                            *)

\* A note with the text of the lead's comment, at most a minute after the
\* lead; minute counts from there.
isLeadCreationCommentNote(note) == note.isComment /\ note.minute \in 0..1

\* Leads and their activity count for the listed agents only.  A lead is
\* updated once, whether it was edited, got notes, or both.
getAgentLeads(s, q) ==
    LET period == resolveDashboardPeriod(s, q)
        agents == {a \in DOMAIN s.users : s.users[a] \in {"ADMIN", "SALES"}}
        asked  == {i \in DOMAIN s.leads : q.status \in {"ALL", s.leads[i].status}}
        new    == {i \in asked : Within(s.leads[i].at, period)}
        edited == {i \in asked : /\ Within(s.leads[i].updatedAt, period)
                                 /\ s.leads[i].updatedAt > s.leads[i].at}
        noted  == {i \in asked : \E k \in DOMAIN s.leads[i].notes :
                     /\ Within(s.leads[i].notes[k].at, period)
                     /\ ~isLeadCreationCommentNote(s.leads[i].notes[k])}
        count(S, a) == Cardinality({i \in S : s.leads[i].by = a})
        metric == [a \in agents |->
            [leads     |-> count(new, a),
             prospects |-> count({i \in new : s.leads[i].status = "PROSPECT"}, a),
             updated   |-> count(edited \union noted, a)]]
    IN  [agents |-> metric,
         totals |-> [f \in {"leads", "prospects", "updated"} |->
                       MapThenSumSet(LAMBDA a : metric[a][f], agents)]]

-------------------------------------------------------------------------------
\* DashboardWorkspace: three tabs over one choice of a period.  The effect
\* of a tab asks again whenever the period or one of its filters changes,
\* and the cleanup of the effect before drops its answer; a tab that is
\* left keeps its data and its spinner.

Tabs == {"sales-overview", "order-status", "agent-leads"}

NoFilter == [status |-> "ALL", agentId |-> "ALL", ageingRange |-> "ALL",
             overdueDays |-> 14, page |-> 1]

\* The rows: users, an order and a lead next to the midnight of day 3 or 4,
\* and others.  It is noon of day 4.
DashboardRows(zone, at) ==
    [zone |-> zone, now |-> zonedTimeToUtc(zone, 4) + 12, others |-> 0,
     users |-> [ann |-> "SALES", sam |-> "SHIPPING"],
     orders |->
       <<[at |-> at, by |-> "ann", status |-> "CONFIRMED", shipment |-> "NONE",
          deliveredAt |-> -1000, sale |-> 100, paymentMethod |-> "CREDIT_CARD",
          sheet |-> <<>>, extras |-> <<>>],
         [at |-> -300, by |-> "sam", status |-> "DELIVERED",
          shipment |-> "DELIVERED", deliveredAt |-> at, sale |-> 200,
          paymentMethod |-> "INVOICE",
          sheet |-> <<[hasActual |-> TRUE, actual |-> 90, estimated |-> 80,
                       additional |-> 7]>>, extras |-> <<3, 4>>],
         [at |-> at + 6, by |-> "ann", status |-> "PARTIALLY_PAID",
          shipment |-> "PURCHASE", deliveredAt |-> -1000, sale |-> 50,
          paymentMethod |-> "NONE", sheet |-> <<>>, extras |-> <<>>]>>,
     leads |->
       <<[at |-> at, by |-> "ann", status |-> "PROSPECT", updatedAt |-> at + 1,
          notes |-> <<[at |-> at, isComment |-> TRUE, minute |-> 0]>>],
         [at |-> at - 24, by |-> "ann", status |-> "QUOTED",
          updatedAt |-> at - 24,
          notes |-> <<[at |-> at, isComment |-> TRUE, minute |-> 2]>>]>>]

\* The page opens on the current month; today is day 4.
DashboardInit ==
    \E zone \in {"spring", "autumn"}, day \in {3, 4}, before \in {0, 1} :
      Mount("dashboard",
            [tab |-> "sales-overview", mode |-> "month",
             month |-> MonthOf(4), from |-> 4, to |-> 4, filter |-> NoFilter,
             leadStatus |-> "ALL", tracker |-> 0, data |-> [t \in Tabs |-> <<>>],
             busy |-> {}, error |-> {}],
            DashboardRows(zone, zonedTimeToUtc(zone, day) - before))

Today == getPacificDateParts(server.zone, server.now)

buildDashboardPeriodQuery(p) ==
    CASE p.mode = "month"     -> [month |-> p.month]
      [] p.mode = "yesterday" -> [from |-> Today - 1, to |-> Today - 1]
      [] p.mode = "last-week" -> [from |-> Today - 6, to |-> Today]
      [] p.mode = "custom"    -> [from |-> p.from, to |-> p.to]
      [] p.mode = "today"     -> [from |-> Today, to |-> Today]

\* What the effect of the open tab asks for.
TabQuery(p) ==
    CASE p.tab = "sales-overview" -> buildDashboardPeriodQuery(p)
      [] p.tab = "order-status"   -> buildDashboardPeriodQuery(p) @@ p.filter
      [] p.tab = "agent-leads"    ->
            buildDashboardPeriodQuery(p) @@ [status |-> p.leadStatus]

\* Cleanup and effect after a change that left p.
LoadTab(p) ==
    Ask([p EXCEPT !.tracker = BeginRequest(@), !.busy = @ \union {p.tab},
                  !.error = @ \ {p.tab}],
        <<Call(p.tab, TabQuery(p), BeginRequest(p.tracker))>>)

OpenDashboard == At("dashboard") /\ page.tracker = 0 /\ LoadTab(page)

DashboardOpen == At("dashboard") /\ page.tracker > 0

ChooseTab ==
    /\ DashboardOpen
    /\ \E tab \in Tabs \ {page.tab} : LoadTab([page EXCEPT !.tab = tab])

\* Every change of the period goes back to the first page of orders.
FirstPage(p) == [p EXCEPT !.filter.page = 1]

ChoosePeriod ==
    /\ DashboardOpen
    /\ \/ \E mode \in {"today", "yesterday", "last-week", "month", "custom"} \ {page.mode} :
             LoadTab(FirstPage([page EXCEPT !.mode = mode]))
       \/ /\ page.mode = "month"
          /\ LoadTab(FirstPage([page EXCEPT !.month = 3 - page.month]))

SomeDays == {-13, 3, 5} \* days a user picks

\* Mutant: the other end of the range is left alone.
ChooseStartOnly ==
    /\ DashboardOpen /\ page.mode = "custom"
    /\ \E day \in SomeDays \ {page.from} :
         LoadTab(FirstPage([page EXCEPT !.from = day]))

\* A first day after the last one takes the last one along.
ChooseStart ==
    /\ DashboardOpen /\ page.mode = "custom"
    /\ \E day \in SomeDays \ {page.from} :
         LoadTab(FirstPage([page EXCEPT !.from = day, !.to = Max({@, day})]))

ChooseEnd ==
    /\ DashboardOpen /\ page.mode = "custom"
    /\ \E day \in SomeDays \ {page.to} :
         LoadTab(FirstPage([page EXCEPT !.to = day, !.from = Min({@, day})]))

Updating(tab) == tab \in page.busy

\* Each tab draws its data, a skeleton or an error with a button; only the
\* sales tab hides its data while it loads.
SalesShown ==
    /\ DashboardOpen /\ page.tab = "sales-overview" /\ ~Updating(page.tab)
    /\ page.tab \notin page.error /\ page.data[page.tab] # <<>>

OrdersShown ==
    /\ DashboardOpen /\ page.tab = "order-status"
    /\ page.tab \notin page.error /\ page.data[page.tab] # <<>>

LeadsShown ==
    /\ DashboardOpen /\ page.tab = "agent-leads"
    /\ page.tab \notin page.error /\ page.data[page.tab] # <<>>

Shows(tab) == Head(page.data[tab]).body

\* The agents as they are listed at first, and the rows the pager says it
\* shows of how many.
SalesTable ==
    LET metric == Shows(page.tab).agents
    IN  SortSeq(SetToSeq(DOMAIN metric),
                LAMBDA a, b : metric[a].charging > metric[b].charging)

LeadsTable ==
    LET metric == Shows(page.tab).agents
    IN  SortSeq(SetToSeq(DOMAIN metric),
                LAMBDA a, b : metric[a].leads > metric[b].leads)

OrdersRange ==
    LET shown == Shows(page.tab)
    IN  [start |-> IF shown.total = 0 THEN 0 ELSE (shown.page - 1) * PageSize + 1,
         end   |-> Min({shown.page * PageSize, shown.total})]

RetryDashboard == DashboardOpen /\ page.tab \in page.error /\ LoadTab(page)

\* The filters above the table; each goes back to the first page.
FilterOrders ==
    /\ OrdersShown
    /\ \E change \in {[status |-> "DELIVERED"], [status |-> "PENDING"],
                      [agentId |-> "ann"], [ageingRange |-> "0-7"],
                      [overdueDays |-> 1]} :
         LET p == FirstPage([page EXCEPT !.filter = change @@ @])
         IN  p.filter # page.filter /\ LoadTab(p)

\* The pager of the table counts from the answer.
TurnOrders ==
    /\ OrdersShown /\ ~Updating(page.tab)
    /\ LET shown == Shows(page.tab)
       IN  \E to \in {shown.page - 1, shown.page + 1} :
             /\ to >= 1 /\ (to - 1) * PageSize < shown.total
             /\ LoadTab([page EXCEPT !.filter.page = to])

FilterLeads ==
    /\ LeadsShown /\ page.leadStatus = "ALL"
    /\ LoadTab([page EXCEPT !.leadStatus = "PROSPECT"])

\* Mutant: the answer of an effect that was cleaned up is taken.
DashboardAnsweredLate(i) ==
    /\ At("dashboard") /\ calls[i].op \in Tabs /\ calls[i].state # "sent"
    /\ LET tab == calls[i].op
           p   == [page EXCEPT !.busy = @ \ {tab}]
       IN  IF calls[i].state = "ok"
           THEN Continue(i, [p EXCEPT !.data[tab] =
                    <<[query |-> calls[i].arg, body |-> Body(i)]>>], <<>>)
           ELSE Continue(i, [p EXCEPT !.error = @ \union {tab}], <<>>)

DashboardAnswered(i) ==
    /\ At("dashboard") /\ calls[i].op \in Tabs /\ calls[i].state # "sent"
    /\ LET tab == calls[i].op
           p   == [page EXCEPT !.busy = @ \ {tab}]
       IN  IF ~IsCurrentRequest(calls[i].kept, page.tracker)
           THEN Continue(i, page, <<>>)
           ELSE IF calls[i].state = "ok"
           THEN Continue(i, [p EXCEPT !.data[tab] =
                    <<[query |-> calls[i].arg, body |-> Body(i)]>>], <<>>)
           ELSE Continue(i, [p EXCEPT !.error = @ \union {tab}], <<>>)

\* The three handlers of the controller; a reversed range is refused.
DashboardServe(i) ==
    /\ At("dashboard")
    /\ LET q == calls[i].arg
       IN  \/ /\ \E tab \in Tabs : Asked(i, tab)
              /\ resolveDashboardPeriod(server, q) = NoPeriod
              /\ Refuse(i)
           \/ /\ resolveDashboardPeriod(server, q) # NoPeriod
              /\ \/ /\ Asked(i, "sales-overview")
                    /\ Perform(i, server, TRUE, getSalesOverview(server, q))
                 \/ /\ Asked(i, "order-status")
                    /\ Perform(i, server, TRUE, getOrderStatus(server, q))
                 \/ /\ Asked(i, "agent-leads")
                    /\ Perform(i, server, TRUE, getAgentLeads(server, q))

\* Somebody else delivers the first order.
OtherDelivery ==
    /\ At("dashboard") /\ CanDisturb
    /\ Elsewhere([server EXCEPT !.others = @ + 1, !.orders[1].status = "DELIVERED",
                                !.orders[1].deliveredAt = server.now])

DashboardStep ==
    \/ OpenDashboard \/ ChooseTab \/ ChoosePeriod \/ ChooseStart \/ ChooseEnd
    \/ RetryDashboard \/ FilterOrders \/ TurnOrders \/ FilterLeads
    \/ OtherDelivery

DashboardReturn(i) == DashboardAnswered(i)

-----------------------------------------------------------------------------
(* Properties.                                                              *)

\* The days the user chose, and the rows of those days: a definition by the
\* Pacific calendar and not by instants.
ChosenDays ==
    LET q == buildDashboardPeriodQuery(page)
    IN  IF "month" \in DOMAIN q THEN FirstDay(q.month) .. FirstDay(q.month + 1) - 1
        ELSE q.from .. q.to

OfChosenDays(rows) ==
    {i \in DOMAIN rows : getPacificDateParts(server.zone, rows[i].at) \in ChosenDays}

\* What a tab shows while it is not marked as updating answers the period
\* and the filters as they stand, however answers overtook each other and
\* however often the tab was left.
DashboardShowsChoice ==
    (DashboardOpen /\ ~Updating(page.tab) /\ page.tab \notin page.error) =>
        Head(page.data[page.tab]).query = TabQuery(page)

\* The counts are of exactly the rows of the chosen Pacific days, also where
\* the clocks change and where the day is not over: every completed sale is
\* in one agent's row, and an order is on one page of the table.
SettledDashboardIsCurrent ==
    (At("dashboard") /\ server.others = 0) =>
        /\ SalesShown =>
              LET sales == {i \in OfChosenDays(server.orders) :
                              server.orders[i].status \in CompletedSaleStatuses}
                  metric == Shows(page.tab).agents
              IN  /\ Shows(page.tab).totals.sales = Cardinality(sales)
                  /\ \A f \in {"calls", "sales", "charging", "profit"} :
                        FoldSeq(+, 0, [k \in DOMAIN SalesTable |-> metric[SalesTable[k]][f]])
                            = Shows(page.tab).totals[f]
                  /\ Shows(page.tab).totals.charging =
                        MapThenSumSet(LAMBDA i : server.orders[i].sale, sales)
                  /\ Shows(page.tab).totals.calls =
                        Cardinality(OfChosenDays(server.leads))
        /\ (OrdersShown /\ ~Updating(page.tab)) =>
              LET shown == Shows(page.tab)
              IN  /\ \A k \in DOMAIN shown.rows :
                        shown.rows[k].id \in OfChosenDays(server.orders)
                  /\ (page.filter = [NoFilter EXCEPT !.page = page.filter.page]) =>
                        shown.total = Cardinality(OfChosenDays(server.orders))
                  /\ shown.total > 0 =>
                        /\ shown.rows # <<>>
                        /\ OrdersRange.end - OrdersRange.start + 1 = Len(shown.rows)
        /\ (LeadsShown /\ ~Updating(page.tab) /\ page.leadStatus = "ALL") =>
              LET metric == Shows(page.tab).agents
              IN  FoldSeq(+, 0, [k \in DOMAIN LeadsTable |-> metric[LeadsTable[k]].leads])
                      = Cardinality(OfChosenDays(server.leads))

\* The page never asks for a range that the service refuses.
DashboardIsAnswered == (At("dashboard") /\ lost = 0) => page.error = {}
===============================================================================
