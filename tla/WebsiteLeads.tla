------------------------------ MODULE WebsiteLeads ------------------------------
(***************************************************************************)
(* Work on the inquiries that the website delivered (WebsiteLeadsService,  *)
(* WebsiteLeadsRepository; their arrival is WebsiteLeadIntake): sales      *)
(* agents claim them, admins assign them, and both edit them, comment on   *)
(* them and convert them into leads.  Requests overlap: a check reads a    *)
(* row in one step and the write follows in a later one.  Every write is a *)
(* conditional UPDATE; a conversion is one READ COMMITTED transaction,     *)
(* which holds its row from that UPDATE to its commit.                     *)
(***************************************************************************)
EXTENDS Naturals, FiniteSets

LOCAL INSTANCE TLC

CONSTANTS
    Inquiries,  \* rows of table WebsiteLead
    Agents,     \* users of role SALES
    Admins,     \* users of role ADMIN
    Nobody,     \* a null assignedToId
    Keep,       \* a field an edit does not name
    Requests,   \* requests of users at a time
    MaxNotes    \* bound on the notes

\* CLOSED stands for CONTACTED too: no check tells them apart.
Status == {"NEW", "CLOSED", "CONVERTED"}

ASSUME InboxAssumption ==
    /\ Agents \intersect Admins = {}
    /\ {Nobody, Keep} \intersect (Agents \union Admins) = {}
    /\ Nobody # Keep /\ Keep \notin Status
    /\ IsFiniteSet(Inquiries)
    /\ MaxNotes \in Nat

Users == Agents \union Admins

VARIABLES
    inquiry,  \* inquiry[i]: the row of inquiry i
    leads,    \* leads made from inquiries
    notes,    \* notes on inquiries
    account,  \* account[u]: the state of the account of user u
    req       \* req[r]: where request r stands and what it carries

vars == <<inquiry, leads, notes, account, req>>

\* lead is the number of the lead it became (convertedLeadId), 0 for none.
Inquiry == [status : Status, assigned : Users \union {Nobody}, lead : Nat]

\* A lead, numbered in the order of the commits.
Lead == [id : Nat, from : Inquiries, by : Users]

Note == [id : Nat, on : Inquiries, by : Users]

Step == {"idle", "claim", "readEdit", "agent", "write", "readNote", "note",
         "readConvert", "select", "create", "mark", "commit"}

\* status and to are the fields of an edit.
Request == [step : Step, user : Users \union {Nobody},
            on : Inquiries \union {Nobody}, status : Status \union {Keep},
            to : Users \union {Nobody, Keep}]

TypeOK ==
    /\ inquiry \in [Inquiries -> Inquiry]
    /\ leads \subseteq Lead
    /\ notes \subseteq Note
    /\ account \in [Users -> {"active", "disabled", "deleted"}]
    /\ req \in [Requests -> Request]
    /\ Admins \subseteq {u \in Users : account[u] = "active"}

Slot(s, u, i, status, to) ==
    [step |-> s, user |-> u, on |-> i, status |-> status, to |-> to]

NoRequest == Slot("idle", Nobody, Nobody, Keep, Keep)

Init ==
    /\ inquiry = [i \in Inquiries |->
                    [status |-> "NEW", assigned |-> Nobody, lead |-> 0]]
    /\ leads = {}
    /\ notes = {}
    /\ account = [u \in Users |-> "active"]
    /\ req = [r \in Requests |-> NoRequest]

-----------------------------------------------------------------------------
(* Helpers *)

At(r, s) == req[r].step = s

Goto(r, s) == req' = [req EXCEPT ![r].step = s]

\* The request is answered, with a result or an error.
Finish(r) == req' = [req EXCEPT ![r] = NoRequest]

IsAdmin(r) == req[r].user \in Admins

Row(r) == inquiry[req[r].on]

Converted(row) == row.lead # 0 \/ row.status = "CONVERTED"

\* findAccessible: an inquiry of another agent, and a converted one of
\* nobody, are not found.
visibleWhere(r) ==
    \/ IsAdmin(r)
    \/ Row(r).assigned = Nobody /\ Row(r).status # "CONVERTED"
    \/ Row(r).assigned = req[r].user

ownedWhere(r) == IsAdmin(r) \/ Row(r).assigned = req[r].user

requireOwnership(r) == IsAdmin(r) \/ Row(r).assigned = req[r].user

\* A row of table User that a foreign key may name.
Exists(u) == u \notin Users \/ account[u] # "deleted"

\* A conversion that has updated its inquiry holds the row.
RowHeld(i) == \E q \in Requests : At(q, "commit") /\ req[q].on = i

-----------------------------------------------------------------------------
(* A request arrives; JwtStrategy.validate reads the account *)

Begin(r, s, status, to) ==
    /\ At(r, "idle")
    /\ \E u \in Users, i \in Inquiries :
          /\ account[u] = "active"
          /\ s = "claim" => u \in Agents
          /\ to # Keep => u \in Admins
          /\ req' = [req EXCEPT ![r] = Slot(s, u, i, status, to)]
    /\ UNCHANGED <<inquiry, leads, notes, account>>

BeginClaim(r) == Begin(r, "claim", Keep, Keep)

BeginAddNote(r) == Begin(r, "readNote", Keep, Keep)

BeginConvert(r) == Begin(r, "readConvert", Keep, Keep)

\* An edit names a status, an assignee or both, and never CONVERTED.
BeginUpdate(r) ==
    \E status \in (Status \ {"CONVERTED"}) \union {Keep},
       to \in Users \union {Nobody, Keep} :
          /\ <<status, to>> # <<Keep, Keep>>
          /\ Begin(r, "readEdit", status, to)

-----------------------------------------------------------------------------
(* WebsiteLeadsService.claim *)

\* Mutant: the row is named by its id and its conversion alone.
ClaimAny(r) ==
    /\ At(r, "claim")
    /\ ~RowHeld(req[r].on)
    /\ IF ~Converted(Row(r)) /\ Exists(req[r].user)
       THEN inquiry' = [inquiry EXCEPT ![req[r].on].assigned = req[r].user]
       ELSE UNCHANGED inquiry
    /\ Finish(r)
    /\ UNCHANGED <<leads, notes, account>>

Claim(r) ==
    /\ At(r, "claim")
    /\ ~RowHeld(req[r].on)
    /\ IF /\ Row(r).assigned = Nobody
          /\ ~Converted(Row(r))
          /\ Exists(req[r].user)
       THEN inquiry' = [inquiry EXCEPT ![req[r].on].assigned = req[r].user]
       ELSE UNCHANGED inquiry
    /\ Finish(r)
    /\ UNCHANGED <<leads, notes, account>>

-----------------------------------------------------------------------------
(* WebsiteLeadsService.update *)

ReadForUpdate(r) ==
    /\ At(r, "readEdit")
    /\ IF visibleWhere(r) /\ requireOwnership(r) /\ ~Converted(Row(r))
       THEN Goto(r, IF req[r].to \in {Keep, Nobody} THEN "write" ELSE "agent")
       ELSE Finish(r)
    /\ UNCHANGED <<inquiry, leads, notes, account>>

isActiveAgent(r) ==
    /\ At(r, "agent")
    /\ IF account[req[r].to] = "active" THEN Goto(r, "write") ELSE Finish(r)
    /\ UNCHANGED <<inquiry, leads, notes, account>>

\* Mutant: an absent field is written like the others.
OtherRaw(field, old) == field

Other(field, old) == IF field = Keep THEN old ELSE field

\* Mutant: the update relies on the check of ReadForUpdate.
UpdateUnchecked(r) ==
    /\ At(r, "write")
    /\ ~RowHeld(req[r].on)
    /\ IF ownedWhere(r) /\ Exists(req[r].to)
       THEN inquiry' = [inquiry EXCEPT ![req[r].on] =
                          [status |-> Other(req[r].status, Row(r).status),
                           assigned |-> Other(req[r].to, Row(r).assigned),
                           lead |-> Row(r).lead]]
       ELSE UNCHANGED inquiry
    /\ Finish(r)
    /\ UNCHANGED <<leads, notes, account>>

\* updateMany where the inquiry is still owned and not converted
Update(r) ==
    /\ At(r, "write")
    /\ ~RowHeld(req[r].on)
    /\ IF ownedWhere(r) /\ ~Converted(Row(r)) /\ Exists(req[r].to)
       THEN inquiry' = [inquiry EXCEPT ![req[r].on] =
                          [status |-> Other(req[r].status, Row(r).status),
                           assigned |-> Other(req[r].to, Row(r).assigned),
                           lead |-> Row(r).lead]]
       ELSE UNCHANGED inquiry
    /\ Finish(r)
    /\ UNCHANGED <<leads, notes, account>>

-----------------------------------------------------------------------------
(* WebsiteLeadsService.addNote *)

ReadForNote(r) ==
    /\ At(r, "readNote")
    /\ IF visibleWhere(r) /\ requireOwnership(r) THEN Goto(r, "note")
                                                 ELSE Finish(r)
    /\ UNCHANGED <<inquiry, leads, notes, account>>

AddNote(r) ==
    /\ At(r, "note")
    /\ \/ /\ Exists(req[r].user)
          /\ Cardinality(notes) < MaxNotes
          /\ notes' = notes \union {[id |-> Cardinality(notes) + 1,
                                     on |-> req[r].on, by |-> req[r].user]}
       \/ /\ ~Exists(req[r].user)
          /\ UNCHANGED notes
    /\ Finish(r)
    /\ UNCHANGED <<inquiry, leads, account>>

-----------------------------------------------------------------------------
(* WebsiteLeadsService.convert *)

ReadForConvert(r) ==
    /\ At(r, "readConvert")
    /\ IF visibleWhere(r) /\ requireOwnership(r) THEN Goto(r, "select")
                                                 ELSE Finish(r)
    /\ UNCHANGED <<inquiry, leads, notes, account>>

SelectOriginal(r) ==
    /\ At(r, "select")
    /\ IF ownedWhere(r) /\ ~Converted(Row(r)) THEN Goto(r, "create")
                                              ELSE Finish(r)
    /\ UNCHANGED <<inquiry, leads, notes, account>>

\* The lead is inserted, and seen by others after the commit only.
CreateLead(r) ==
    /\ At(r, "create")
    /\ IF Exists(req[r].user) THEN Goto(r, "mark") ELSE Finish(r)
    /\ UNCHANGED <<inquiry, leads, notes, account>>

\* Mutant: the number of updated rows is not looked at.
MarkUncounted(r) ==
    /\ At(r, "mark")
    /\ ~RowHeld(req[r].on)
    /\ Goto(r, "commit")
    /\ UNCHANGED <<inquiry, leads, notes, account>>

\* updateMany; when it matches no row the transaction is rolled back.
MarkConverted(r) ==
    /\ At(r, "mark")
    /\ ~RowHeld(req[r].on)
    /\ IF ownedWhere(r) /\ ~Converted(Row(r)) THEN Goto(r, "commit")
                                              ELSE Finish(r)
    /\ UNCHANGED <<inquiry, leads, notes, account>>

\* The note from the comments belongs to the lead and is not modelled.
Commit(r) ==
    /\ At(r, "commit")
    /\ LET id == Cardinality(leads) + 1
       IN  /\ leads' = leads \union
                 {[id |-> id, from |-> req[r].on, by |-> req[r].user]}
           /\ inquiry' = [inquiry EXCEPT ![req[r].on] =
                            [status |-> "CONVERTED",
                             assigned |-> Row(r).assigned, lead |-> id]]
    /\ Finish(r)
    /\ UNCHANGED <<notes, account>>

-----------------------------------------------------------------------------
(* Environment *)

\* A call rejects or the server crashes; an open transaction is rolled back.
RequestFails(r) ==
    /\ ~At(r, "idle")
    /\ Finish(r)
    /\ UNCHANGED <<inquiry, leads, notes, account>>

\* AuthService.updateUser; admins cannot be disabled.
SetAccount(u) ==
    /\ u \in Agents
    /\ account[u] # "deleted"
    /\ \E s \in {"active", "disabled"} : account' = [account EXCEPT ![u] = s]
    /\ UNCHANGED <<inquiry, leads, notes, req>>

\* AuthService.deleteUser: foreign keys keep a user with leads or notes, and
\* set the assignee of inquiries to null.
DeleteUser(u) ==
    /\ u \in Agents
    /\ account[u] # "deleted"
    /\ \A l \in leads : l.by # u
    /\ \A n \in notes : n.by # u
    /\ \A r \in Requests : req[r].user = u => req[r].step \notin {"mark", "commit"}
    /\ \A i \in Inquiries : inquiry[i].assigned = u => ~RowHeld(i)
    /\ account' = [account EXCEPT ![u] = "deleted"]
    /\ inquiry' = [i \in Inquiries |->
                     [inquiry[i] EXCEPT !.assigned = IF @ = u THEN Nobody ELSE @]]
    /\ UNCHANGED <<leads, notes, req>>

Serve(r) ==
    \/ BeginClaim(r) \/ BeginUpdate(r) \/ BeginAddNote(r) \/ BeginConvert(r)
    \/ Claim(r)
    \/ ReadForUpdate(r) \/ isActiveAgent(r) \/ Update(r)
    \/ ReadForNote(r) \/ AddNote(r)
    \/ ReadForConvert(r) \/ SelectOriginal(r) \/ CreateLead(r)
    \/ MarkConverted(r) \/ Commit(r)
    \/ RequestFails(r)

Next ==
    \/ \E r \in Requests : Serve(r)
    \/ \E u \in Users : SetAccount(u) \/ DeleteUser(u)

Spec == Init /\ [][Next]_vars

-----------------------------------------------------------------------------
(* Properties *)

\* However requests overlap, an inquiry is converted once, into a lead of its
\* own, and neither edited nor reassigned afterwards.
Inbox == INSTANCE WebsiteInbox WITH
    owner <- [i \in Inquiries |-> inquiry[i].assigned],
    lead <- [i \in Inquiries |-> inquiry[i].lead],
    made <- Cardinality(leads)

ImplementsInbox == Inbox!Spec

\* Each lead is the one its inquiry names, made by an admin or by the agent
\* the inquiry belongs to, and each converted inquiry names its lead.
ConvertedByOwner ==
    /\ \A l \in leads :
          /\ inquiry[l.from].lead = l.id
          /\ l.by \in Admins \/ inquiry[l.from].assigned = l.by
    /\ \A i \in Inquiries :
          inquiry[i].status = "CONVERTED"
              <=> \E l \in leads : l.from = i /\ l.id = inquiry[i].lead

\* An inquiry an agent works on leaves this agent by an admin's edit or with
\* the agent's account, never by another agent's late claim.
LeavesAgent(i) ==
    /\ inquiry[i].assigned \in Agents
    /\ inquiry'[i].assigned # inquiry[i].assigned

NeverTakenAway ==
    \A i \in Inquiries :
        LeavesAgent(i) =>
            \/ account'[inquiry[i].assigned] = "deleted"
            \/ \E r \in Requests : /\ At(r, "write")
                                   /\ ~At(r, "write")'
                                   /\ IsAdmin(r)

InquiryIsKept == [][NeverTakenAway]_vars

-----------------------------------------------------------------------------
(* For model checking *)

\* Inquiries, requests and agents are interchangeable.
Symmetry ==
    Permutations(Inquiries) \union Permutations(Requests)
        \union Permutations(Agents)
=============================================================================
