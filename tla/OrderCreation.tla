---------------------------- MODULE OrderCreation ----------------------------
(***************************************************************************)
(* Creating orders, converting leads and editing leads at the same time    *)
(* (OrdersService.create, LeadsService.update).  The order number, the row *)
(* of the order and the conversion of its lead are one SERIALIZABLE        *)
(* transaction, tried at most MaxAttempts times; the note, the cache bump  *)
(* and the notification follow it, outside of any transaction.             *)
(*                                                                         *)
(* PostgreSQL is modelled by what its documentation promises the code: a   *)
(* transaction reads the state committed when it began; a row or a key     *)
(* that another transaction holds is waited for; a write of what another   *)
(* transaction changed since is refused.                                   *)
(***************************************************************************)
EXTENDS Naturals, FiniteSetsExt

LOCAL INSTANCE TLC

CONSTANTS
    Requests,     \* the requests; each is handled once
    Leads,        \* the leads
    NoLead,       \* stands for an absent leadId
    MaxAttempts,  \* OrdersService.maxOrderNumberAttempts, 5 in the code
    MaxDay,       \* bound on the calendar
    MaxFaults     \* bound on failing database and network calls

ASSUME LeadAssumption == NoLead \notin Leads

ASSUME BoundsAssumption ==
    /\ MaxAttempts \in Nat \ {0}
    /\ MaxDay \in Nat
    /\ MaxFaults \in Nat

VARIABLES
    orders,   \* committed rows of table Order
    lead,     \* lead[l]: the row of lead l
    notes,    \* requests whose order note is stored
    notified, \* requests whose order was announced
    req,      \* req[r]: where request r stands and what it carries
    today,    \* the servers' date
    commits,  \* transactions committed so far: the database's own clock
    faults    \* calls that failed so far

vars == <<orders, lead, notes, notified, req, today, commits, faults>>

None == <<>>

\* An order is named by its number; at is the commit that wrote it.
Order == [number : Nat \X Nat, lead : Leads \union {NoLead}, by : Requests,
          at : Nat]

\* order is the number of the converting order; at the last commit to it.
Lead == [order : {None} \union (Nat \X Nat), text : Nat, at : Nat]

Step == {"idle", "begin", "insert", "mark", "commit", "note", "invalidate",
         "notify", "edit", "done", "rejected", "cut"}

\* An order may come with a note.
NoteField == {"absent", "given"}

\* number and began, the commits at its snapshot, are the transaction's.
Request == [step : Step, lead : Leads \union {NoLead}, note : NoteField,
            attempt : Nat, number : Nat \X Nat, began : Nat]

Slot(s, l, note, a, n, b) ==
    [step |-> s, lead |-> l, note |-> note, attempt |-> a, number |-> n,
     began |-> b]

TypeOK ==
    /\ orders \subseteq Order
    /\ lead \in [Leads -> Lead]
    /\ notes \subseteq Requests
    /\ notified \subseteq Requests
    /\ req \in [Requests -> Request]
    /\ today \in Nat
    /\ commits \in Nat
    /\ faults \in Nat

Init ==
    /\ orders = {}
    /\ lead = [l \in Leads |-> [order |-> None, text |-> 0, at |-> 0]]
    /\ notes = {}
    /\ notified = {}
    /\ req = [r \in Requests |-> Slot("idle", NoLead, "absent", 0, <<0, 0>>, 0)]
    /\ today = 0
    /\ commits = 0
    /\ faults = 0

-----------------------------------------------------------------------------
(* Helpers *)

At(r, s) == req[r].step = s

Goto(r, s) == req' = [req EXCEPT ![r].step = s]

\* The transaction of r ends; its locks are released.
Leave(r, s, attempt) ==
    req' = [req EXCEPT ![r] =
              Slot(s, req[r].lead, req[r].note, attempt, <<0, 0>>, 0)]

Rollback(r) == Leave(r, "rejected", req[r].attempt)

Numbers == {o.number : o \in orders}

Suffixes(day) == {o.number[2] : o \in {p \in orders : p.number[1] = day}}

\* Mutant: the SQL NULL of a day without orders is not read as 0.
getNextOrderNumberNull(day) ==
    IF Suffixes(day) = {} THEN None ELSE <<day, Max(Suffixes(day)) + 1>>

\* MAX of the suffixes with the prefix of the day, plus one.
getNextOrderNumber(day) == <<day, Max(Suffixes(day) \union {0}) + 1>>

\* Transactions that have inserted, or also marked their lead, and are open.
Inserted(r) == req[r].step \in {"mark", "commit"}

Marked(r) == At(r, "commit") /\ req[r].lead # NoLead

KeyHeld(r) == \E q \in Requests \ {r} :
                  Inserted(q) /\ req[q].number = req[r].number

LeadHeld(l) == \E q \in Requests : Marked(q) /\ req[q].lead = l

\* Another order was committed since the snapshot of r.
OrdersChanged(r) == \E o \in orders : o.at > req[r].began

\* Mutant: the number is read before the loop, and the loop has no bound.
RetryForever(r) ==
    req' = [req EXCEPT ![r].step = "insert", ![r].began = commits]

\* The loop's catch: a conflict starts the next attempt, the last one throws.
RetryOrThrow(r) ==
    IF req[r].attempt < MaxAttempts
    THEN Leave(r, "begin", req[r].attempt + 1)
    ELSE Rollback(r)

-----------------------------------------------------------------------------
(* OrdersService.create *)

\* findConvertibleById: an order of a converted lead is refused at once.
BeginCreate(r) ==
    /\ At(r, "idle")
    /\ \E l \in Leads \union {NoLead}, note \in NoteField :
          /\ l # NoLead => lead[l].order = None
          /\ req' = [req EXCEPT ![r] =
                       Slot("begin", l, note, 1, <<0, 0>>, 0)]
    /\ UNCHANGED <<orders, lead, notes, notified, today, commits, faults>>

\* The snapshot is taken by the transaction's first statement.
ReadNumber(r) ==
    /\ At(r, "begin")
    /\ req' = [req EXCEPT ![r] =
                 Slot("insert", req[r].lead, req[r].note, req[r].attempt,
                      getNextOrderNumber(today), commits)]
    /\ UNCHANGED <<orders, lead, notes, notified, today, commits, faults>>

\* Mutant: the row is written outside of the transaction.
InsertAutocommitted(r) ==
    /\ At(r, "insert")
    /\ ~KeyHeld(r)
    /\ IF req[r].number \in Numbers
       THEN /\ RetryOrThrow(r)
            /\ UNCHANGED <<orders, commits>>
       ELSE /\ Goto(r, IF req[r].lead = NoLead THEN "commit" ELSE "mark")
            /\ commits' = commits + 1
            /\ orders' = orders \union
                  {[number |-> req[r].number, lead |-> NoLead, by |-> r,
                    at |-> commits + 1]}
    /\ UNCHANGED <<lead, notes, notified, today, faults>>

\* order.create.  A number committed meanwhile is reported as a duplicate
\* key (P2002, rethrown as a ConflictException) or as a serialization failure
\* (P2034, which handlePrismaError turns into an InternalServerErrorException
\* that is not retried); the latter may also befall a free number.
InsertOrder(r) ==
    /\ At(r, "insert")
    /\ ~KeyHeld(r)
    /\ \/ /\ req[r].number \in Numbers
          /\ RetryOrThrow(r)
       \/ /\ OrdersChanged(r)
          /\ Rollback(r)
       \/ /\ req[r].number \notin Numbers
          /\ Goto(r, IF req[r].lead = NoLead THEN "commit" ELSE "mark")
    /\ UNCHANGED <<orders, lead, notes, notified, today, commits, faults>>

\* A serialization failure outside of order.create keeps its code, P2034.
SerializationFailure(r) ==
    /\ At(r, "mark") \/ At(r, "commit")
    /\ OrdersChanged(r)
    /\ RetryOrThrow(r)
    /\ UNCHANGED <<orders, lead, notes, notified, today, commits, faults>>

\* Mutant: the lost race for the lead is thrown as a ConflictException.
MarkRetried(r) ==
    /\ At(r, "mark")
    /\ ~LeadHeld(req[r].lead)
    /\ LET row == lead[req[r].lead]
       IN  IF row.at > req[r].began \/ row.order # None
           THEN RetryOrThrow(r)
           ELSE Goto(r, "commit")
    /\ UNCHANGED <<orders, lead, notes, notified, today, commits, faults>>

\* updateMany where convertedOrderId is null.  A lead changed since the
\* snapshot is a write conflict (P2034).
MarkConverted(r) ==
    /\ At(r, "mark")
    /\ ~LeadHeld(req[r].lead)
    /\ LET row == lead[req[r].lead]
       IN  IF row.at > req[r].began THEN RetryOrThrow(r)
           ELSE IF row.order = None THEN Goto(r, "commit") ELSE Rollback(r)
    /\ UNCHANGED <<orders, lead, notes, notified, today, commits, faults>>

Commit(r) ==
    /\ At(r, "commit")
    /\ commits' = commits + 1
    /\ orders' = orders \union
          {[number |-> req[r].number, lead |-> req[r].lead, by |-> r,
            at |-> commits + 1]}
    /\ lead' = [l \in Leads |->
                  IF l = req[r].lead
                  THEN [lead[l] EXCEPT !.order = req[r].number,
                                       !.at = commits + 1]
                  ELSE lead[l]]
    /\ Leave(r, IF req[r].note = "given" THEN "note" ELSE "invalidate", req[r].attempt)
    /\ UNCHANGED <<notes, notified, today, faults>>

StoreNote(r) ==
    /\ At(r, "note")
    /\ notes' = notes \union {r}
    /\ Goto(r, "invalidate")
    /\ UNCHANGED <<orders, lead, notified, today, commits, faults>>

\* afterMutation: the bump of the cache (OrdersListCache) and the job, which
\* is not awaited, never throw.
AfterMutation(r) ==
    /\ At(r, "invalidate")
    /\ Goto(r, "notify")
    /\ UNCHANGED <<orders, lead, notes, notified, today, commits, faults>>

NotifyOrderCreated(r) ==
    /\ At(r, "notify")
    /\ notified' = notified \union {r}
    /\ Goto(r, "done")
    /\ UNCHANGED <<orders, lead, notes, today, commits, faults>>

-----------------------------------------------------------------------------
(* LeadsService.update *)

BeginEdit(r) ==
    /\ At(r, "idle")
    /\ \E l \in Leads :
          /\ lead[l].order = None
          /\ req' = [req EXCEPT ![r] = Slot("edit", l, "absent", 0, <<0, 0>>, 0)]
    /\ UNCHANGED <<orders, lead, notes, notified, today, commits, faults>>

\* Mutant: the update names the lead by its id alone.
UpdateAnyLead(r) ==
    /\ At(r, "edit")
    /\ LET l == req[r].lead
       IN  /\ ~LeadHeld(l)
           /\ lead' = [lead EXCEPT ![l].text = lead[l].text + 1,
                                  ![l].at = commits + 1]
    /\ commits' = commits + 1
    /\ Goto(r, "done")
    /\ UNCHANGED <<orders, notes, notified, today, faults>>

\* updateMany where convertedAt is null, by itself a transaction.
UpdateLead(r) ==
    /\ At(r, "edit")
    /\ LET l == req[r].lead
       IN  /\ ~LeadHeld(l)
           /\ IF lead[l].order = None
              THEN /\ lead' = [lead EXCEPT ![l] =
                                 [order |-> None, text |-> lead[l].text + 1,
                                  at |-> commits + 1]]
                   /\ commits' = commits + 1
                   /\ Goto(r, "done")
              ELSE /\ Goto(r, "rejected")
                   /\ UNCHANGED <<lead, commits>>
    /\ UNCHANGED <<orders, notes, notified, today, faults>>

-----------------------------------------------------------------------------
(* Environment *)

\* A call rejects for another reason, a transaction exceeds its time limit
\* or the server crashes: an open transaction is rolled back, a request cut
\* after its commit leaves its order.
Fault(r) ==
    /\ faults < MaxFaults
    /\ faults' = faults + 1
    /\ \/ /\ req[r].step \in {"begin", "insert", "mark", "commit", "edit"}
          /\ Rollback(r)
       \/ /\ req[r].step \in {"note", "invalidate", "notify"}
          /\ Goto(r, "cut")
    /\ UNCHANGED <<orders, lead, notes, notified, today, commits>>

Midnight ==
    /\ today < MaxDay
    /\ today' = today + 1
    /\ UNCHANGED <<orders, lead, notes, notified, req, commits, faults>>

Handle(r) ==
    \/ ReadNumber(r) \/ InsertOrder(r) \/ SerializationFailure(r)
    \/ MarkConverted(r) \/ Commit(r)
    \/ StoreNote(r) \/ AfterMutation(r) \/ NotifyOrderCreated(r)
    \/ UpdateLead(r)

Next ==
    \/ \E r \in Requests : BeginCreate(r) \/ BeginEdit(r) \/ Handle(r)
                           \/ Fault(r)
    \/ Midnight

\* An accepted request is run to its end: the event loop and the database
\* serve every request, and a lock is released to one of its waiters.
Fairness == \A r \in Requests : WF_vars(Handle(r))

SafetySpec == Init /\ [][Next]_vars

Spec == SafetySpec /\ Fairness

-----------------------------------------------------------------------------
(* Properties *)

\* However creations and edits overlap, fail and retry, each step of the
\* database is one of OrderBook: numbers of a day leave no gap and are given
\* once, an order and the conversion of its lead appear together, a lead is
\* converted once and not edited afterwards.
Book == INSTANCE OrderBook WITH
    numbers <- Numbers,
    converted <- [l \in Leads |-> lead[l].order],
    text <- [l \in Leads |-> lead[l].text]

ImplementsOrderBook == Book!Spec

\* A request answered with an error before its commit (a lost race for the
\* lead, exhausted attempts) leaves neither order nor conversion nor note,
\* so the user may send it again; one that succeeds leaves all of them.
Stored(r) == \E o \in orders : o.by = r

AllOrNothing ==
    \A r \in Requests :
        /\ At(r, "rejected") =>
              /\ ~Stored(r)
              /\ r \notin notes \union notified
        /\ At(r, "done") /\ req[r].attempt # 0 =>
              /\ Stored(r)
              /\ req[r].note = "given" => r \in notes
              /\ r \in notified
        /\ \A o \in orders : o.lead # NoLead => lead[o.lead].order = o.number

\* An attempt is retried only after a commit that it overlapped: the loop
\* never spins against attempts that all fail, nor against an error that
\* would repeat itself (a converted lead).
AnotherCommitted ==
    \A r \in Requests :
        At(r, "begin")' /\ req'[r].attempt > 1 /\ ~At(r, "begin")
            => commits > req[r].began

RetryMeansProgress == [][AnotherCommitted]_vars

\* Every accepted request is answered: waiting for locks never deadlocks and
\* the retries end.
EveryRequestAnswered ==
    \A r \in Requests :
        ~At(r, "idle") ~> req[r].step \in {"done", "rejected", "cut"}

-----------------------------------------------------------------------------
(* For model checking *)

\* Requests are interchangeable, and so are leads.
Symmetry == Permutations(Requests) \union Permutations(Leads)
=============================================================================
