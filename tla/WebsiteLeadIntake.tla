--------------------------- MODULE WebsiteLeadIntake ---------------------------
(***************************************************************************)
(* Arrival of inquiries (WebsiteLeadsService.ingest,                       *)
(* WebsiteLeadsRepository.ingest).  The website keeps each submission in   *)
(* an outbox and sends it, under one submission id, until an answer comes; *)
(* an attempt given up may still run when the next one arrives.  An upsert *)
(* is a SELECT and an INSERT; the unique index refuses a second row, and   *)
(* the loser of that race reads the row of the winner.                     *)
(***************************************************************************)
EXTENDS Naturals

CONSTANTS
    Submissions,  \* (source, externalSubmissionId) of the submissions
    Attempts,     \* POST requests at a time
    MaxLosses     \* bound on losses: requests, answers, failing calls, crashes

ASSUME IntakeAssumption == MaxLosses \in Nat

VARIABLES
    rows,     \* committed rows of table WebsiteLead
    lastId,   \* the last id drawn for a row
    outbox,   \* outbox[s]: what the website knows of submission s
    attempt,  \* attempt[a]: where a request stands
    answers,  \* the answers that reached the website (history)
    losses    \* losses so far

intakeVars == <<rows, lastId, outbox, attempt, answers, losses>>

Record == [id : Nat \ {0}, sub : Submissions]

\* id is the row inserted or found.
Attempt ==
    [step : {"idle", "select", "insert", "commit", "find", "answer", "lost",
             "error"},
     sub : Submissions, id : Nat]

IntakeTypeOK ==
    /\ rows \subseteq Record
    /\ lastId \in Nat
    /\ outbox \in [Submissions -> {"none", "queued", "delivered"}]
    /\ attempt \in [Attempts -> Attempt]
    /\ answers \subseteq Record
    /\ losses \in 0 .. MaxLosses

AttemptAt(step, s, id) == [step |-> step, sub |-> s, id |-> id]

IntakeInit ==
    /\ rows = {}
    /\ lastId = 0
    /\ outbox = [s \in Submissions |-> "none"]
    /\ \E s \in Submissions : attempt = [a \in Attempts |-> AttemptAt("idle", s, 0)]
    /\ answers = {}
    /\ losses = 0

-----------------------------------------------------------------------------

Stands(a, step) == attempt[a].step = step

Move(a, step, id) ==
    attempt' = [attempt EXCEPT ![a] = AttemptAt(step, attempt[a].sub, id)]

RowsOf(s) == {row \in rows : row.sub = s}

\* Another transaction has inserted the key and not committed yet.
KeyHeld(a) ==
    \E b \in Attempts \ {a} : Stands(b, "commit") /\ attempt[b].sub = attempt[a].sub

\* The website stores a submission before it sends it.
Enqueue(s) ==
    /\ outbox[s] = "none"
    /\ outbox' = [outbox EXCEPT ![s] = "queued"]
    /\ UNCHANGED <<rows, lastId, attempt, answers, losses>>

\* A request, with a fresh timestamp, passes the signature guard and ingest's
\* checks of its fields.
Send(a) ==
    /\ attempt[a].step \in {"idle", "lost", "error"}
    /\ \E s \in Submissions :
          /\ outbox[s] = "queued"
          /\ attempt' = [attempt EXCEPT ![a] = AttemptAt("select", s, 0)]
    /\ UNCHANGED <<rows, lastId, outbox, answers, losses>>

\* Mutant: a miss is answered as it is.
SelectNull(a) ==
    /\ Stands(a, "select")
    /\ \/ \E row \in RowsOf(attempt[a].sub) : Move(a, "answer", row.id)
       \/ /\ RowsOf(attempt[a].sub) = {}
          /\ Move(a, "answer", 0)
    /\ UNCHANGED <<rows, lastId, outbox, answers, losses>>

\* The first statement of the upsert; its update changes nothing.
Select(a) ==
    /\ Stands(a, "select")
    /\ \/ \E row \in RowsOf(attempt[a].sub) : Move(a, "answer", row.id)
       \/ /\ RowsOf(attempt[a].sub) = {}
          /\ Move(a, "insert", 0)
    /\ UNCHANGED <<rows, lastId, outbox, answers, losses>>

\* Mutant: a duplicate key is thrown.
InsertUncaught(a) ==
    /\ Stands(a, "insert")
    /\ ~KeyHeld(a)
    /\ IF RowsOf(attempt[a].sub) # {}
       THEN /\ Move(a, "error", 0)
            /\ UNCHANGED lastId
       ELSE /\ Move(a, "commit", lastId + 1)
            /\ lastId' = lastId + 1
    /\ UNCHANGED <<rows, outbox, answers, losses>>

\* The INSERT waits for another one of its key; a committed one is P2002.
Insert(a) ==
    /\ Stands(a, "insert")
    /\ ~KeyHeld(a)
    /\ IF RowsOf(attempt[a].sub) # {}
       THEN /\ Move(a, "find", 0)
            /\ UNCHANGED lastId
       ELSE /\ Move(a, "commit", lastId + 1)
            /\ lastId' = lastId + 1
    /\ UNCHANGED <<rows, outbox, answers, losses>>

CommitInsert(a) ==
    /\ Stands(a, "commit")
    /\ rows' = rows \union {[id |-> attempt[a].id, sub |-> attempt[a].sub]}
    /\ Move(a, "answer", attempt[a].id)
    /\ UNCHANGED <<lastId, outbox, answers, losses>>

\* Mutant: the loser of the race looks for the latest row.
FindLatest(a) ==
    /\ Stands(a, "find")
    /\ \E row \in rows :
          /\ \A other \in rows : other.id <= row.id
          /\ Move(a, "answer", row.id)
    /\ UNCHANGED <<rows, lastId, outbox, answers, losses>>

\* findUniqueOrThrow; no operation deletes a row.
Find(a) ==
    /\ Stands(a, "find")
    /\ \E row \in RowsOf(attempt[a].sub) : Move(a, "answer", row.id)
    /\ UNCHANGED <<rows, lastId, outbox, answers, losses>>

Answer(a) ==
    /\ Stands(a, "answer")
    /\ answers' = answers \union {[id |-> attempt[a].id, sub |-> attempt[a].sub]}
    /\ outbox' = [outbox EXCEPT ![attempt[a].sub] = "delivered"]
    /\ Move(a, "idle", 0)
    /\ UNCHANGED <<rows, lastId, losses>>

\* The request or its answer is lost, a call fails or the server crashes.
Lose(a) ==
    /\ losses < MaxLosses
    /\ losses' = losses + 1
    /\ attempt[a].step \in {"select", "insert", "commit", "find", "answer"}
    /\ Move(a, "lost", 0)
    /\ UNCHANGED <<rows, lastId, outbox, answers>>

Handle(a) == Select(a) \/ Insert(a) \/ CommitInsert(a) \/ Find(a) \/ Answer(a)

IntakeNext ==
    \/ \E s \in Submissions : Enqueue(s)
    \/ \E a \in Attempts : Send(a) \/ Handle(a) \/ Lose(a)

\* A request that arrived is handled; the website need not send again.
IntakeFairness == \A a \in Attempts : WF_intakeVars(Handle(a))

IntakeSafety == IntakeInit /\ [][IntakeNext]_intakeVars

IntakeSpec == IntakeSafety /\ IntakeFairness

-----------------------------------------------------------------------------
(* Properties *)

\* "A retry with the same (source, externalSubmissionId) must not create a
\* second CRM record": one row each, and all answers name it.
OneRecordPerSubmission ==
    /\ \A x, y \in rows : x.sub = y.sub => x = y
    /\ answers \subseteq rows

\* "Concurrent retries can race the unique index; both must resolve to one
\* record": an attempt that is not lost is delivered, never refused.
EveryAttemptDelivers ==
    \A a \in Attempts, s \in Submissions :
        Stands(a, "select") /\ attempt[a].sub = s
            ~> outbox[s] = "delivered" \/ Stands(a, "lost")
=============================================================================
