----------------------------- MODULE ListQueries -----------------------------
(***************************************************************************)
(* Which rows the six tables list: the filters of a page become the        *)
(* parameters of a query, which its API client and the proxy take apart    *)
(* and build again, and the repository makes a condition of them.  A page  *)
(* holds a table with its filters; the backend holds one row, which is     *)
(* listed or not.  The instants are those of DashboardPage.                *)
(***************************************************************************)
EXTENDS DashboardPage

LOCAL INSTANCE TLC

OrderTables == {"orders", "shipment orders"}
QueryTables == OrderTables \union {"shipments", "leads", "replacements", "website"}

SHIPMENT_WORKFLOW_STATUSES == {"PENDING", "LOCATING", "PRE_PROCESSING", "PURCHASE"}
OPERATIONAL_SHIPMENT_STATUSES ==
    {"SHIPPED", "IN_TRANSIT", "DISPUTED", "DELAYED", "DELIVERED", "CANCELLED"}
UNTOUCHED_LEAD_EXCLUDED_STATUSES == {"SHOPPING_AROUND", "NOT_INTERESTED", "WE_DONT_SALE"}
LEAD_STATUSES == UNTOUCHED_LEAD_EXCLUDED_STATUSES \union
    {"PROSPECT", "QUOTED", "CALL_BACK_LATER", "NEEDS_LOCALLY"}
WEBSITE_LEAD_STATUSES == {"NEW", "CONTACTED", "CLOSED", "CONVERTED"}
REPLACEMENT_STATUSES ==
    {"WAITING_YARD_RESPONSE", "YARD_CONTACTED", "AGREED", "DISAGREED", "YARD_REFUNDING",
     "YARD_DOESNT_HAVE_REPLACEMENT", "SHIPPED", "IN_TRANSIT", "DELIVERED"}

-----------------------------------------------------------------------------
(* The address of a page keeps its filters, and anything may be typed there: *)
(* what a filter does not know is its default.                               *)

parseShipmentStatusFilter(v) ==
    IF v \in SHIPMENT_WORKFLOW_STATUSES \union OPERATIONAL_SHIPMENT_STATUSES
             \union {"REFUNDED", "REPLACEMENT"} THEN v ELSE "ALL"

parseOrderAgeingFilter(v) == IF v \in {"0-7", "8-14", "15-30", "31+"} THEN v ELSE "ALL"

parseLeadConversionFilter(v) == IF v \in {"OPEN", "CONVERTED"} THEN v ELSE "ALL"

parseLeadStatusFilter(v) == IF v \in LEAD_STATUSES THEN v ELSE "ALL"

\* A number of days; 0 stands for no such filter.
parseUntouchedLeadsFilter(v) == IF v \in 1..365 THEN v ELSE 0

StatusFilter(table, v) ==
    CASE table \in OrderTables \union {"shipments"} -> parseShipmentStatusFilter(v)
      [] table = "leads" -> parseLeadStatusFilter(v)
      [] table = "replacements" -> IF v \in REPLACEMENT_STATUSES THEN v ELSE "ALL"
      [] table = "website" -> IF v \in WEBSITE_LEAD_STATUSES THEN v ELSE "ALL"

useTableDateRange(v) ==
    IF v \in {"TODAY", "YESTERDAY", "LAST_7_DAYS", "LAST_30_DAYS", "CUSTOM"} THEN v ELSE "ALL"

\* The filters as the controls of the page show them.
useTableQueryParam(p) ==
    [p.address EXCEPT !.status = StatusFilter(p.table, @),
                      !.ageing = parseOrderAgeingFilter(@),
                      !.conversion = parseLeadConversionFilter(@),
                      !.untouched = parseUntouchedLeadsFilter(@),
                      !.preset = useTableDateRange(@)]

-----------------------------------------------------------------------------
(* Days become instants in the time zone of the browser, for website leads  *)
(* in Pacific time.  A day ends with the last instant before the next one.  *)

\* A browser ahead is 9 hours before UTC.
LocalDayStart(s, day) ==
    IF s.browser = "Pacific" THEN zonedTimeToUtc(s.zone, day) ELSE 24 * (day - 1) - 9

LocalDay(s, t) ==
    IF s.browser = "Pacific" THEN getPacificDateParts(s.zone, t) ELSE (t + 9) \div 24 + 1

NoParams == [name \in {} |-> name]

When(given, name, value) == IF given THEN name :> value ELSE NoParams

\* Day 0 is an empty input.
normalizeLocalDateValue(s, day, boundary) ==
    IF boundary = "start" THEN LocalDayStart(s, day) ELSE LocalDayStart(s, day + 1) - 1

buildTimestampRangeQuery(s, c) ==
    LET today == LocalDay(s, s.now)
        from(t, u) == [createdFrom |-> t, createdTo |-> u]
    IN  CASE c.preset = "ALL"          -> NoParams
          [] c.preset = "TODAY"        -> from(LocalDayStart(s, today), s.now)
          [] c.preset = "YESTERDAY"    -> from(LocalDayStart(s, today - 1),
                                               LocalDayStart(s, today) - 1)
          [] c.preset = "LAST_7_DAYS"  -> from(s.now - 24 * 7, s.now)
          [] c.preset = "LAST_30_DAYS" -> from(s.now - 24 * 30, s.now)
          [] c.preset = "CUSTOM"       ->
                When(c.from > 0, "createdFrom", normalizeLocalDateValue(s, c.from, "start"))
                @@ When(c.to > 0, "createdTo", normalizeLocalDateValue(s, c.to, "end"))

\* Midnight is approached from UTC in two steps.
pacificDayStart(s, day) ==
    LET midnightUtc == 24 * (day - 1)
        toMidnight(t) == t + (midnightUtc - (t + Offset(s.zone, t)))
    IN  toMidnight(toMidnight(midnightUtc))

buildWebsiteLeadSubmittedRangeQuery(s, c) ==
    LET today == getPacificDateParts(s.zone, s.now)
        day(chosen) == CASE c.preset = "TODAY" -> today
                         [] c.preset = "YESTERDAY" -> today - 1
                         [] OTHER -> chosen
        end == IF c.preset = "TODAY" THEN s.now
               ELSE pacificDayStart(s, day(c.to) + 1) - 1
    IN  IF c.preset \in {"ALL", "LAST_7_DAYS", "LAST_30_DAYS"}
        THEN buildTimestampRangeQuery(s, c)
        ELSE When(day(c.from) > 0, "createdFrom", pacificDayStart(s, day(c.from)))
             @@ When(day(c.to) > 0, "createdTo", end)

-----------------------------------------------------------------------------
(* The queries.  A text is known by the field of the row it was copied from  *)
(* and by how it is typed: as stored, in other letters, a phone number by    *)
(* its ten digits, a few of its digits, or more than 160 characters.         *)

NoText == [field |-> "", typed |-> "stored"]

\* The search of the orders writes ten digits as a phone number is stored.
handleSearchChange(table, text) ==
    IF table = "orders" /\ text.typed = "plain" THEN [text EXCEPT !.typed = "stored"]
    ELSE text

\* Sales users see their own rows until they choose somebody.
selectedAgentFilter(role, agent) ==
    IF agent # "" THEN agent ELSE IF role = "SALES" THEN "me" ELSE "ALL"

Search(table, c) == When(c.search # NoText, "search", handleSearchChange(table, c.search))

\* The filters Cancelled and Refunded are about the order, and so is
\* Replacement.  The orders to ship are those that are not shipped, unless a
\* status is chosen.
useOrdersListQuery(table, s, c) ==
    LET resolution == c.status \in {"CANCELLED", "REFUNDED"}
        agent == selectedAgentFilter(s.role, c.agent)
    IN  When(resolution, "status", c.status)
        @@ When(c.status # "ALL" /\ c.status # "REPLACEMENT" /\ ~resolution,
                "shipmentStatus", c.status)
        @@ When(c.status = "REPLACEMENT", "hasReplacement", TRUE)
        @@ When(table = "shipment orders" /\ c.status = "ALL", "hasShipment", FALSE)
        @@ When(table = "orders" /\ c.ageing # "ALL", "ageingRange", c.ageing)
        @@ When(table = "orders" /\ agent # "ALL", "createdById", agent)
        @@ buildTimestampRangeQuery(s, c) @@ Search(table, c)

useLeadsListQuery(s, c) ==
    LET agent == selectedAgentFilter(s.role, c.agent)
    IN  When(c.conversion # "ALL", "converted", c.conversion = "CONVERTED")
        @@ When(c.status # "ALL", "status", c.status)
        @@ When(agent # "ALL", "createdById", agent)
        @@ When(c.untouched > 0, "untouchedDays", c.untouched)
        @@ buildTimestampRangeQuery(s, c) @@ Search("leads", c)

\* Applied by the hook, the API client and the proxy, each to the result of
\* the one before.
normalizeShipmentsListQuery(q) ==
    LET given(name) == IF name \in DOMAIN q THEN q[name] ELSE "ALL"
        orderStatus == IF given("status") \in {"REFUNDED", "CANCELLED"} THEN given("status")
                       ELSE given("orderStatus")
        replacement == given("status") = "REPLACEMENT" \/ "hasReplacement" \in DOMAIN q
    IN  When(orderStatus # "ALL", "orderStatus", orderStatus)
        @@ When(replacement, "hasReplacement", TRUE)
        @@ When(orderStatus = "ALL" /\ ~replacement /\ given("status") # "ALL",
                "status", given("status"))
        @@ [name \in DOMAIN q \ {"status", "orderStatus", "hasReplacement"} |-> q[name]]

useShipmentsListQuery(s, c) ==
    normalizeShipmentsListQuery(normalizeShipmentsListQuery(normalizeShipmentsListQuery(
        When(c.status # "ALL", "status", c.status)
        @@ buildTimestampRangeQuery(s, c) @@ Search("shipments", c))))

useReplacementsListQuery(s, c) ==
    When(c.status # "ALL", "status", c.status)
    @@ buildTimestampRangeQuery(s, c) @@ Search("replacements", c)

\* An administrator's choice of an agent counts under All visible.
websiteLeadsQuery(s, c) ==
    When(c.assignment # "ALL", "assignment", c.assignment)
    @@ When(s.role = "ADMIN" /\ c.assignment = "ALL" /\ c.agent # "", "assignedToId", c.agent)
    @@ When(c.status # "ALL", "status", c.status)
    @@ buildWebsiteLeadSubmittedRangeQuery(s, c) @@ Search("website", c)

\* The proxies of three tables drop a text that is too long; the proxy of
\* the website leads passes everything on.
searchTermSchema(table, q) ==
    IF table \in {"replacements", "website"} \/ "search" \notin DOMAIN q THEN q
    ELSE IF q.search.typed = "long" THEN [name \in DOMAIN q \ {"search"} |-> q[name]]
    ELSE q

\* The page builds the query, the API client and the proxy pass it on by name.
ListQuery(p, s) ==
    LET c == useTableQueryParam(p)
    IN  searchTermSchema(p.table,
          CASE p.table \in OrderTables -> useOrdersListQuery(p.table, s, c)
            [] p.table = "leads" -> useLeadsListQuery(s, c)
            [] p.table = "shipments" -> useShipmentsListQuery(s, c)
            [] p.table = "replacements" -> useReplacementsListQuery(s, c)
            [] p.table = "website" -> websiteLeadsQuery(s, c))

-----------------------------------------------------------------------------
(* What the repositories make of a query.                                   *)

\* A range that ends before it begins is refused, and a long text by the
\* website leads.
QueryRefused(table, q) ==
    \/ {"createdFrom", "createdTo"} \subseteq DOMAIN q /\ q.createdFrom > q.createdTo
    \/ table = "website" /\ "search" \in DOMAIN q /\ q.search.typed = "long"

buildCreatedAtFilter(q) ==
    When("createdFrom" \in DOMAIN q, "gte", q.createdFrom)
    @@ When("createdTo" \in DOMAIN q, "lte", q.createdTo)

\* The first instant of the Pacific day so many days before today.
getPacificStartOfDayUtc(s, days) ==
    zonedTimeToUtc(s.zone, getPacificDateParts(s.zone, s.now) - days)

\* Mutant: a range begins a day late.
buildAgeingCreatedAtFilterLate(s, range) ==
    CASE range = "0-7"   -> [gte |-> getPacificStartOfDayUtc(s, 7), lte |-> s.now]
      [] range = "8-14"  -> [gte |-> getPacificStartOfDayUtc(s, 13),
                             lt  |-> getPacificStartOfDayUtc(s, 7)]
      [] range = "15-30" -> [gte |-> getPacificStartOfDayUtc(s, 30),
                             lt  |-> getPacificStartOfDayUtc(s, 14)]
      [] range = "31+"   -> [lt |-> getPacificStartOfDayUtc(s, 30)]

buildAgeingCreatedAtFilter(s, range) ==
    CASE range = "0-7"   -> [gte |-> getPacificStartOfDayUtc(s, 7), lte |-> s.now]
      [] range = "8-14"  -> [gte |-> getPacificStartOfDayUtc(s, 14),
                             lt  |-> getPacificStartOfDayUtc(s, 7)]
      [] range = "15-30" -> [gte |-> getPacificStartOfDayUtc(s, 30),
                             lt  |-> getPacificStartOfDayUtc(s, 14)]
      [] range = "31+"   -> [lt |-> getPacificStartOfDayUtc(s, 30)]

\* The later of two beginnings and the earlier of two ends.
mergeDateTimeFilters(first, second) ==
    [bound \in DOMAIN first \union DOMAIN second |->
        LET both == {f[bound] : f \in {g \in {first, second} : bound \in DOMAIN g}}
        IN  IF bound = "gte" THEN Max(both) ELSE Min(both)]

MeetsFilter(t, f) ==
    /\ "gte" \in DOMAIN f => t >= f.gte
    /\ "lte" \in DOMAIN f => t <= f.lte
    /\ "lt"  \in DOMAIN f => t < f.lt

ShipmentFields == {"bolNumber", "proNumber", "pickupNumber", "carrierName"}

SearchedFields(table) ==
    CASE table \in OrderTables \union {"shipments"} ->
            {"orderNumber", "salesNumber", "customerName", "partDescription",
             "creator", "advisorName"}
            \union (IF table = "shipments" THEN ShipmentFields
                    ELSE {"customerEmail", "customerPhone"})
      [] table = "leads" ->
            {"advisorName", "cmpt", "customerPhone", "customerName", "customerEmail",
             "state", "partDescription", "vehicleMake", "vehicleModel", "prospects"}
      [] table = "replacements" ->
            {"customerReason", "yardUpdate", "proNumber", "carrierName", "orderNumber",
             "salesNumber", "customerName", "customerPhone", "partDescription", "bolNumber"}
      [] table = "website" ->
            {"customerName", "customerPhone", "customerEmail", "partDescription",
             "vehicleMake"}

\* Orders and shipments take one to nine digits for a whole sales number,
\* and compare the name of the advisor letter by letter; orders know phone
\* numbers by their digits.
FoundBy(table, text) ==
    /\ text.field \in SearchedFields(table)
    /\ table \in OrderTables \union {"shipments"} =>
          /\ text.typed # "digits"
          /\ text.typed = "folded" => text.field # "advisorName"
    /\ text.typed = "plain" => table \in OrderTables

\* The row has the status of an order, a lead, an inquiry or a replacement,
\* and orders at most one shipment; it is by its creator or assignee.
OrderWhere(s, q) ==
    LET asks(name) == name \in DOMAIN q
        row == s.row
    IN  /\ asks("createdById") => row.by = q.createdById
        /\ asks("status") => row.status = q.status
        /\ asks("shipmentStatus") =>
              \/ row.shipment = q.shipmentStatus
              \/ q.shipmentStatus = "PENDING" /\ row.shipment = "NONE"
        /\ asks("hasReplacement") => row.replacement
        /\ asks("hasShipment") => row.shipment \in SHIPMENT_WORKFLOW_STATUSES \union {"NONE"}
        /\ MeetsFilter(row.at, mergeDateTimeFilters(buildCreatedAtFilter(q),
              IF asks("ageingRange") THEN buildAgeingCreatedAtFilter(s, q.ageingRange)
              ELSE NoParams))

ShipmentWhere(s, q) ==
    /\ IF "status" \in DOMAIN q
       THEN s.row.shipment = q.status /\ q.status \in OPERATIONAL_SHIPMENT_STATUSES
       ELSE s.row.shipment \in OPERATIONAL_SHIPMENT_STATUSES
    /\ "orderStatus" \in DOMAIN q => s.row.status = q.orderStatus
    /\ "hasReplacement" \in DOMAIN q => s.row.replacement
    /\ MeetsFilter(s.row.at, buildCreatedAtFilter(q))

\* The filter of untouched leads replaces the one of converted leads.
buildLeadListWhere(s, q) ==
    LET asks(name) == name \in DOMAIN q
        row == s.row
    IN  /\ asks("createdById") => row.by = q.createdById
        /\ asks("status") => row.status = q.status
        /\ MeetsFilter(row.at, buildCreatedAtFilter(q))
        /\ IF asks("untouchedDays")
           THEN /\ ~row.converted
                /\ row.changed <= s.now - 24 * q.untouchedDays
                /\ row.status \notin UNTOUCHED_LEAD_EXCLUDED_STATUSES
           ELSE asks("converted") => row.converted = q.converted

ReplacementWhere(s, q) ==
    /\ "status" \in DOMAIN q => s.row.status = q.status
    /\ MeetsFilter(s.row.at, buildCreatedAtFilter(q))

\* Sales users see what is theirs or free to take.
visibleWhere(s) ==
    \/ s.role = "ADMIN"
    \/ s.row.by = "me"
    \/ s.row.by = "" /\ s.row.status # "CONVERTED"

assignmentWhere(s, q) ==
    CASE "assignment" \in DOMAIN q ->
            s.row.by = (IF q.assignment = "UNASSIGNED" THEN "" ELSE "me")
      [] "assignedToId" \in DOMAIN q /\ s.role = "ADMIN" -> s.row.by = q.assignedToId
      [] OTHER -> TRUE

WebsiteWhere(s, q) ==
    /\ visibleWhere(s) /\ assignmentWhere(s, q)
    /\ "status" \in DOMAIN q => s.row.status = q.status
    /\ MeetsFilter(s.row.at, buildCreatedAtFilter(q))

\* The tabs above the website leads whose numbers count the row.
websiteSummary(s) ==
    IF ~visibleWhere(s) THEN {}
    ELSE {"ALL"} \union (CASE s.row.by = "" -> {"UNASSIGNED"}
                           [] s.row.by = "me" -> {"MINE"}
                           [] OTHER -> {})

Lists(table, s, q) ==
    /\ CASE table \in OrderTables    -> OrderWhere(s, q)
         [] table = "shipments"      -> ShipmentWhere(s, q)
         [] table = "leads"          -> buildLeadListWhere(s, q)
         [] table = "replacements"   -> ReplacementWhere(s, q)
         [] table = "website"        -> WebsiteWhere(s, q)
    /\ "search" \in DOMAIN q => FoundBy(table, q.search)

-----------------------------------------------------------------------------
(* A table is opened under a choice of its filters and asks for its rows.   *)

NoChoice ==
    [status |-> "ALL", ageing |-> "ALL", conversion |-> "ALL", untouched |-> 0,
     preset |-> "ALL", from |-> 0, to |-> 0, agent |-> "", assignment |-> "ALL",
     search |-> NoText]

\* A row of day 4; it is noon of day 10.
ALead == [by |-> "me", status |-> "PROSPECT", converted |-> FALSE, at |-> 84, changed |-> 84]
AnOrder == [by |-> "me", status |-> "CONFIRMED", shipment |-> "NONE",
            replacement |-> FALSE, at |-> 90]
ADelivery == [status |-> "DELIVERED", at |-> 90]
AnInquiry == [by |-> "", status |-> "NEW", at |-> 90]

RowOf(table) ==
    CASE table \in OrderTables -> AnOrder
      [] table = "shipments" -> [AnOrder EXCEPT !.shipment = "SHIPPED"]
      [] table = "leads" -> ALead
      [] table = "replacements" -> ADelivery
      [] table = "website" -> AnInquiry

Facing(row) == [row |-> row, now |-> 24 * 9 + 20, zone |-> "spring",
                browser |-> "Pacific", role |-> "ADMIN"]

OpenTable(table, choice, s) ==
    Mount("query",
          [table |-> table, address |-> choice, listed |-> "unknown",
           busy |-> {}], s)

\* Every state of an order under every filter of its three tables.
StatusInit ==
    \E table \in OrderTables \union {"shipments"},
       status \in {"CONFIRMED", "CANCELLED", "REFUNDED"},
       shipment \in {"NONE"} \union SHIPMENT_WORKFLOW_STATUSES
                      \union OPERATIONAL_SHIPMENT_STATUSES,
       replacement \in BOOLEAN,
       filter \in {"ALL", "REFUNDED", "REPLACEMENT", "UNKNOWN"}
                    \union SHIPMENT_WORKFLOW_STATUSES \union OPERATIONAL_SHIPMENT_STATUSES :
      OpenTable(table, [NoChoice EXCEPT !.status = filter],
                Facing([AnOrder EXCEPT !.status = status, !.shipment = shipment,
                                       !.replacement = replacement]))

LeadFilterInit ==
    \E status \in {"PROSPECT", "NOT_INTERESTED"}, converted \in BOOLEAN,
       quiet \in {1, 2, 3}, filter \in {"ALL", "PROSPECT", "NOT_INTERESTED"},
       conversion \in {"ALL", "OPEN", "CONVERTED"}, untouched \in {0, 2, 400} :
      OpenTable("leads",
                [NoChoice EXCEPT !.status = filter, !.conversion = conversion,
                                 !.untouched = untouched],
                Facing([ALead EXCEPT !.status = status, !.converted = converted,
                                     !.changed = 24 * 9 + 20 - 24 * quiet]))

\* Who asks, whose row it is and whose rows are chosen.
PeopleInit ==
    \E role \in {"ADMIN", "SALES"} :
      \/ \E table \in {"orders", "leads"}, by \in {"me", "other"},
            agent \in {"", "ALL", "me", "other"} :
           OpenTable(table, [NoChoice EXCEPT !.agent = agent],
                     [Facing([RowOf(table) EXCEPT !.by = by]) EXCEPT !.role = role])
      \/ \E by \in {"", "me", "other"}, status \in {"NEW", "CONVERTED"},
            assignment \in {"ALL", "UNASSIGNED", "MINE"}, filter \in {"ALL", "NEW"},
            agent \in {"", "me", "other"} :
           OpenTable("website",
                     [NoChoice EXCEPT !.agent = agent, !.assignment = assignment,
                                      !.status = filter],
                     [Facing([AnInquiry EXCEPT !.by = by, !.status = status])
                         EXCEPT !.role = role])

\* The hours around the ends of days 3 and 4; the ages of an order at them
\* are around the ends of the ranges.
NearMidnight == {55, 56, 57, 78, 79, 80, 81, 103, 104}

AgeingInit ==
    \E zone \in {"spring", "autumn"}, today \in {10, 11, 17, 18, 33, 34},
       at \in NearMidnight, ageing \in {"ALL", "0-7", "8-14", "15-30", "31+"},
       from \in {0, 4} :
      OpenTable("orders",
                [NoChoice EXCEPT !.ageing = ageing, !.from = from,
                                 !.preset = IF from = 0 THEN "ALL" ELSE "CUSTOM"],
                [Facing([AnOrder EXCEPT !.at = at])
                    EXCEPT !.zone = zone, !.now = 24 * (today - 1) + 20])

\* A lead is dated to a day, which is stored as the noon of it in UTC.
DatesInit ==
    \E zone \in {"spring", "autumn"}, browser \in {"Pacific", "ahead"},
       today \in {3, 4, 5}, from \in {0, 3, 4}, to \in {0, 3, 4},
       preset \in {"TODAY", "YESTERDAY", "LAST_7_DAYS", "LAST_30_DAYS", "CUSTOM"},
       table \in {"leads", "replacements", "website"} :
      \E at \in IF table = "leads" THEN {24 * day + 12 : day \in 1..4} ELSE NearMidnight :
        /\ preset # "CUSTOM" => from = 0 /\ to = 0
        /\ OpenTable(table, [NoChoice EXCEPT !.preset = preset, !.from = from, !.to = to],
                     [Facing([RowOf(table) EXCEPT !.at = at])
                         EXCEPT !.zone = zone, !.browser = browser,
                                !.now = 24 * (today - 1) + 20])

TextFields ==
    ShipmentFields \union
    {"orderNumber", "salesNumber", "customerName", "customerEmail", "customerPhone",
     "partDescription", "creator", "advisorName", "cmpt", "state", "vehicleMake",
     "vehicleModel", "prospects", "customerReason", "yardUpdate"}

SearchInit ==
    \E table \in QueryTables, typed \in {"stored", "folded", "plain", "digits", "long"},
       role \in {"ADMIN", "SALES"} :
      \E field \in TextFields :
        /\ typed = "plain" => field = "customerPhone"
        /\ typed = "long" => field \in {"partDescription", "customerReason", "yardUpdate"}
        /\ OpenTable(table, [NoChoice EXCEPT !.search = [field |-> field, typed |-> typed]],
                     [Facing(RowOf(table)) EXCEPT !.role = role])

QueryInit ==
    \/ StatusInit \/ LeadFilterInit \/ PeopleInit \/ AgeingInit \/ DatesInit
    \/ SearchInit

AskForRows ==
    /\ At("query") /\ page.listed = "unknown" /\ page.busy = {}
    /\ Ask([page EXCEPT !.busy = {"loading"}],
           <<Call("rows", ListQuery(page, server), <<>>)>>)

QueryStep == AskForRows

QueryServe(i) ==
    /\ At("query") /\ Asked(i, "rows")
    /\ LET q == calls[i].arg
       IN  IF QueryRefused(page.table, q) THEN Refuse(i)
           ELSE Perform(i, server, TRUE, Lists(page.table, server, q))

QueryReturn(i) ==
    /\ At("query")
    /\ \/ /\ Succeeded(i, "rows")
          /\ Continue(i, [page EXCEPT !.busy = {},
                                      !.listed = IF Body(i) THEN "yes" ELSE "no"], <<>>)
       \/ /\ Failed(i, "rows")
          /\ Continue(i, [page EXCEPT !.busy = {}, !.listed = "error"], <<>>)

-----------------------------------------------------------------------------
(* Properties.                                                              *)

\* What the table shows of a row, beside what was chosen.

\* ShippingStatusCell; an order without a shipment is pending.
getDisplayStatus(row) ==
    CASE row.replacement -> "REPLACEMENT"
      [] ~row.replacement /\ row.status \in {"REFUNDED", "CANCELLED"} -> row.status
      [] ~row.replacement /\ row.status = "CONFIRMED" ->
            IF row.shipment = "NONE" THEN "PENDING" ELSE row.shipment

formatAgingDays(s) == calculatePacificAgeingDays(s, s.row)

Answered == At("query") /\ page.listed \in {"yes", "no"}

IsListed == page.listed = "yes"

Choice == useTableQueryParam(page)

\* Nothing but these filters is chosen.
OnlyBy(filters) == \A f \in DOMAIN NoChoice \ filters : Choice[f] = NoChoice[f]

\* What the shipping cell of a row reads is the filter the row is found
\* under, and an order that is neither cancelled, refunded nor replaced is
\* found under no other.  A cancelled shipment of a live order is found under
\* none.  An order is among the orders to ship or in the table of shipments,
\* never in both: "The order remains in Shipment orders until it is marked
\* shipped."
ListedByStatus ==
    (Answered /\ page.table \in OrderTables \union {"shipments"}
              /\ OnlyBy({"status"}) /\ server.role = "ADMIN") =>
        LET row == server.row
            other == IF page.table = "shipments" THEN "shipment orders" ELSE "shipments"
            shown == getDisplayStatus(row)
        IN  IF Choice.status = "ALL"
            THEN page.table # "orders" =>
                    (IsListed <=> ~Lists(other, server,
                                       ListQuery([page EXCEPT !.table = other], server)))
            ELSE /\ (/\ shown = Choice.status
                     /\ shown = "CANCELLED" => row.status = "CANCELLED"
                     /\ page.table = "shipments" =>
                           row.shipment \in OPERATIONAL_SHIPMENT_STATUSES) => IsListed
                 /\ (/\ IsListed /\ row.status = "CONFIRMED" /\ ~row.replacement)
                       => shown = Choice.status

\* The days a user chose, by the calendar of the browser, for website leads
\* by the Pacific one; 0 leaves an end open.
DayOf(t) ==
    IF page.table = "leads" THEN t \div 24 + 1
    ELSE IF page.table = "website" THEN getPacificDateParts(server.zone, t)
    ELSE LocalDay(server, t)

ThisDay == IF page.table = "website" THEN getPacificDateParts(server.zone, server.now)
           ELSE LocalDay(server, server.now)

OnChosenDays ==
    LET day == DayOf(server.row.at)
    IN  CASE Choice.preset = "ALL" -> TRUE
          [] Choice.preset = "TODAY" -> day = ThisDay
          [] Choice.preset = "YESTERDAY" -> day = ThisDay - 1
          [] Choice.preset = "CUSTOM" ->
                (Choice.from = 0 \/ Choice.from <= day) /\ (Choice.to = 0 \/ day <= Choice.to)
          [] OTHER -> IsListed

\* A filter of days lists exactly the rows of those days, also where the
\* clocks change, and the lead of a day in every time zone; a filter of ages
\* lists the orders whose cell reads such an age.
ListedByDay ==
    (Answered /\ OnlyBy({"preset", "from", "to", "ageing"})
              /\ page.table \notin {"shipment orders", "shipments"}
              /\ server.role = "ADMIN" /\ server.row.at <= server.now) =>
        (IsListed <=>
            /\ OnChosenDays
            /\ Choice.ageing # "ALL" =>
                  matchesAgeingRange(formatAgingDays(server), Choice.ageing))

\* The fields that the search of a table names.
Promised(table) ==
    CASE table = "orders" -> {"orderNumber", "salesNumber", "customerName",
                              "customerPhone", "customerEmail", "partDescription"}
      [] table = "shipment orders" -> {"orderNumber", "customerName", "partDescription",
                                       "advisorName"}
      [] table = "shipments" -> {"pickupNumber", "proNumber", "carrierName", "orderNumber",
                                 "customerName", "partDescription", "advisorName"}
      [] table = "leads" -> {"customerName", "customerEmail", "customerPhone", "advisorName",
                             "state", "vehicleMake", "vehicleModel"}
      [] table = "replacements" ->
            {"salesNumber", "orderNumber", "customerName", "customerPhone",
             "partDescription", "carrierName", "proNumber", "yardUpdate"}
      [] table = "website" -> {"customerName", "customerPhone", "customerEmail",
                               "vehicleMake", "partDescription"}

\* A row is found by each field that the search names, typed as it is
\* stored, an order also by the digits of its customer's phone.
ListedBySearch ==
    (Answered /\ OnlyBy({"search"}) /\ Choice.search.field \in Promised(page.table)
              /\ Choice.search.typed \in
                    (IF page.table = "orders" THEN {"stored", "plain"} ELSE {"stored"})) =>
        IsListed

\* Sales users who chose nobody see their own rows; a converted lead is
\* listed among the open ones under no filter, and a tab of the website
\* leads lists the rows that its number counts.
ListedByOwner ==
    Answered =>
        /\ (page.table \in {"orders", "leads"} /\ server.role = "SALES"
               /\ Choice.agent = "" /\ IsListed) => server.row.by = "me"
        /\ (page.table = "leads" /\ IsListed /\ server.row.converted) =>
              Choice.conversion # "OPEN" /\ Choice.untouched = 0
        /\ (page.table = "website" /\ OnlyBy({"assignment"})) =>
              (IsListed <=> Choice.assignment \in websiteSummary(server))

ListedMatchesChoice == ListedByStatus /\ ListedByDay /\ ListedBySearch /\ ListedByOwner
=============================================================================
