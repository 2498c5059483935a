--------------------------- MODULE WebsiteLeadsProofs ---------------------------
(***************************************************************************)
(* Conversions and edits of inquiries implement WebsiteInbox, a lead is    *)
(* made by the owner of its inquiry, and agents keep what they claimed.    *)
(***************************************************************************)
EXTENDS WebsiteLeads, WebsiteLeadIntake, FiniteSetTheorems, TLAPS

ReqType == req \in [Requests -> Request]

RowType == inquiry \in [Inquiries -> Inquiry]

Requesting(r) ==
    /\ ~At(r, "idle") => req[r].user \in Users /\ req[r].on \in Inquiries
    /\ req[r].status # "CONVERTED"
    /\ req[r].to # Keep => IsAdmin(r)

-----------------------------------------------------------------------------
(* The invariant *)

\* The leads and the rows they were made from name each other.
LeadsNameRows ==
    \A l \in leads :
        /\ l.id # 0
        /\ inquiry[l.from].lead = l.id
        /\ l.by \in Admins \/ inquiry[l.from].assigned = l.by

RowsNameLeads ==
    \A i \in Inquiries :
        /\ inquiry[i].status = "CONVERTED" <=> inquiry[i].lead # 0
        /\ inquiry[i].lead # 0 =>
              \E l \in leads : l.from = i /\ l.id = inquiry[i].lead

\* A conversion about to commit holds an open row that its user owns.
CommitsOwnRow ==
    \A r \in Requests : At(r, "commit") =>
        /\ inquiry[req[r].on].lead = 0
        /\ IsAdmin(r) \/ inquiry[req[r].on].assigned = req[r].user
        /\ \A q \in Requests : At(q, "commit") /\ q # r => req[q].on # req[r].on

InboxInv ==
    /\ TypeOK
    /\ IsFiniteSet(leads) /\ IsFiniteSet(notes)
    /\ \A r \in Requests : Requesting(r)
    /\ LeadsNameRows
    /\ RowsNameLeads
    /\ CommitsOwnRow

\* The two ways in which most requests change the state: r moves and no row
\* changes, or r is answered after it wrote an open row.
MovesOnly(r) ==
    /\ ReqType'
    /\ Requesting(r)'
    /\ req'[r].step # "commit"
    /\ \A q \in Requests : q # r => req'[q] = req[q]

Quiet(r) ==
    /\ MovesOnly(r)
    /\ UNCHANGED <<inquiry, leads, account>>
    /\ notes' \subseteq Note
    /\ IsFiniteSet(notes')

Writes(r, i, row) ==
    /\ MovesOnly(r)
    /\ i \in Inquiries /\ row \in Inquiry
    /\ inquiry[i].lead = 0
    /\ ~RowHeld(i)
    /\ row.lead = 0 /\ row.status # "CONVERTED"
    /\ inquiry' = [inquiry EXCEPT ![i] = row]
    /\ UNCHANGED <<leads, notes, account>>

-----------------------------------------------------------------------------
(* Moves of a request *)

LEMMA GotoLemma ==
  ASSUME ReqType, NEW r \in Requests, NEW s \in Step, Goto(r, s)
  PROVE  /\ ReqType'
         /\ req'[r].step = s
         /\ req'[r].user = req[r].user
         /\ req'[r].on = req[r].on
         /\ req'[r].status = req[r].status
         /\ req'[r].to = req[r].to
         /\ \A q \in Requests : q # r => req'[q] = req[q]
<1>1. req' = [req EXCEPT ![r] = [req[r] EXCEPT !.step = s]]
  BY DEF Goto, ReqType
<1>2. req[r] \in Request
  BY DEF ReqType
<1>3. [req[r] EXCEPT !.step = s] \in Request
  BY <1>2 DEF Request
<1> QED
  BY <1>1, <1>2, <1>3 DEF ReqType, Request

LEMMA GotoMoves ==
  ASSUME ReqType, NEW r \in Requests, NEW s \in Step, Goto(r, s),
         Requesting(r), ~At(r, "idle"), s # "commit"
  PROVE  MovesOnly(r)
BY GotoLemma DEF MovesOnly, Requesting, At, IsAdmin

LEMMA FinishMoves ==
  ASSUME ReqType, NEW r \in Requests, Finish(r)
  PROVE  MovesOnly(r) /\ req'[r].step = "idle"
<1>1. NoRequest \in Request
  BY DEF NoRequest, Slot, Request, Step
<1>2. req'[r] = NoRequest /\ \A q \in Requests : q # r => req'[q] = req[q]
  BY DEF Finish, ReqType
<1>3. ReqType'
  BY <1>1 DEF Finish, ReqType
<1>4. Requesting(r)'
  BY <1>2, InboxAssumption DEF Requesting, NoRequest, Slot, At, Status
<1> QED
  BY <1>2, <1>3, <1>4 DEF MovesOnly, NoRequest, Slot

LEMMA BeginMoves ==
  ASSUME TypeOK, NEW r \in Requests,
         NEW s \in {"claim", "readNote", "readConvert", "readEdit"},
         NEW status \in (Status \ {"CONVERTED"}) \union {Keep},
         NEW to \in Users \union {Nobody, Keep}, Begin(r, s, status, to),
         IsFiniteSet(notes)
  PROVE  Quiet(r)
<1>1. PICK u \in Users, i \in Inquiries :
           /\ req' = [req EXCEPT ![r] = Slot(s, u, i, status, to)]
           /\ to # Keep => u \in Admins
  BY DEF Begin
<1>2. Slot(s, u, i, status, to) \in Request
  BY DEF Slot, Request, Step
<1>3. /\ ReqType'
      /\ req'[r] = Slot(s, u, i, status, to)
      /\ \A q \in Requests : q # r => req'[q] = req[q]
  BY <1>1, <1>2 DEF ReqType, TypeOK
<1>4. Requesting(r)' /\ req'[r].step # "commit"
  BY <1>1, <1>3, InboxAssumption DEF Requesting, Slot, At, IsAdmin, Status
<1>5. /\ UNCHANGED <<inquiry, leads, account>>
      /\ notes' \subseteq Note /\ IsFiniteSet(notes')
  BY DEF Begin, TypeOK
<1> QED
  BY <1>3, <1>4, <1>5 DEF Quiet, MovesOnly

-----------------------------------------------------------------------------
(* What each request does *)

LEMMA QuietSteps ==
  ASSUME InboxInv, NEW r \in Requests,
         \/ BeginClaim(r) \/ BeginUpdate(r) \/ BeginAddNote(r)
         \/ BeginConvert(r) \/ ReadForUpdate(r) \/ isActiveAgent(r)
         \/ ReadForNote(r) \/ AddNote(r) \/ ReadForConvert(r)
         \/ SelectOriginal(r) \/ CreateLead(r) \/ RequestFails(r)
  PROVE  Quiet(r)
<1>0. ReqType /\ TypeOK /\ Requesting(r) /\ IsFiniteSet(notes)
  BY DEF InboxInv, TypeOK, ReqType
<1>1. CASE BeginClaim(r) \/ BeginAddNote(r) \/ BeginConvert(r)
  BY <1>0, <1>1, BeginMoves DEF BeginClaim, BeginAddNote, BeginConvert
<1>2. CASE BeginUpdate(r)
  BY <1>0, <1>2, BeginMoves DEF BeginUpdate
<1>3. CASE \/ ReadForUpdate(r) \/ isActiveAgent(r) \/ ReadForNote(r)
           \/ ReadForConvert(r) \/ SelectOriginal(r) \/ CreateLead(r)
           \/ RequestFails(r)
  <2>1. /\ UNCHANGED <<inquiry, leads, notes, account>>
        /\ ~At(r, "idle")
        /\ \/ \E s \in {"write", "agent", "note", "select", "create", "mark"} :
                 Goto(r, s)
           \/ Finish(r)
    BY <1>3 DEF ReadForUpdate, isActiveAgent, ReadForNote, ReadForConvert,
                SelectOriginal, CreateLead, RequestFails, At
  <2>2. MovesOnly(r)
    BY <1>0, <2>1, GotoMoves, FinishMoves DEF Step
  <2> QED
    BY <1>0, <2>1, <2>2 DEF Quiet, TypeOK
<1>4. CASE AddNote(r)
  <2>1. req[r].on \in Inquiries /\ req[r].user \in Users
    BY <1>0, <1>4 DEF AddNote, Requesting, At
  <2>2. notes' \subseteq Note /\ IsFiniteSet(notes')
    <3>1. CASE UNCHANGED notes
      BY <1>0, <3>1 DEF TypeOK
    <3>2. CASE notes' = notes \union {[id |-> Cardinality(notes) + 1,
                                     on |-> req[r].on, by |-> req[r].user]}
      <4>1. Cardinality(notes) + 1 \in Nat
        BY <1>0, FS_CardinalityType
      <4>2. IsFiniteSet(notes')
        BY <1>0, <3>2, FS_AddElement
      <4> QED
        BY <1>0, <2>1, <3>2, <4>1, <4>2 DEF TypeOK, Note
    <3> QED
      BY <1>4, <3>1, <3>2 DEF AddNote
  <2> QED
    BY <1>0, <1>4, <2>2, FinishMoves DEF AddNote, Quiet
<1> QED
  BY <1>1, <1>2, <1>3, <1>4

LEMMA ClaimEffect ==
  ASSUME InboxInv, NEW r \in Requests, Claim(r)
  PROVE  \/ Quiet(r)
         \/ \E i \in Inquiries, row \in Inquiry :
               /\ Writes(r, i, row)
               /\ inquiry[i].assigned = Nobody
<1>0. /\ ReqType /\ TypeOK /\ Requesting(r) /\ IsFiniteSet(notes)
      /\ req[r].on \in Inquiries /\ req[r].user \in Users
  BY DEF InboxInv, TypeOK, ReqType, Requesting, Claim, At
<1>1. MovesOnly(r) /\ UNCHANGED <<leads, notes, account>>
  BY <1>0, FinishMoves DEF Claim
<1>2. CASE UNCHANGED inquiry
  BY <1>0, <1>1, <1>2 DEF Quiet, TypeOK
<1>3. CASE inquiry' # inquiry
  <2> DEFINE i == req[r].on
             row == [inquiry[i] EXCEPT !.assigned = req[r].user]
  <2>1. /\ ~RowHeld(i)
        /\ inquiry[i].assigned = Nobody
        /\ ~Converted(inquiry[i])
        /\ inquiry' = [inquiry EXCEPT ![i] = row]
    BY <1>3 DEF Claim, Row
  <2>2. inquiry[i] \in Inquiry
    BY <1>0 DEF TypeOK
  <2>3. row \in Inquiry /\ row.lead = 0 /\ row.status # "CONVERTED"
    BY <1>0, <2>1, <2>2 DEF Inquiry, Converted
  <2>4. Writes(r, i, row)
    BY <1>0, <1>1, <2>1, <2>3 DEF Writes, Converted
  <2> QED
    BY <1>0, <2>1, <2>3, <2>4
<1> QED
  BY <1>2, <1>3

LEMMA UpdateEffect ==
  ASSUME InboxInv, NEW r \in Requests, Update(r)
  PROVE  \/ Quiet(r)
         \/ \E i \in Inquiries, row \in Inquiry :
               /\ Writes(r, i, row)
               /\ \/ IsAdmin(r) /\ At(r, "write") /\ ~At(r, "write")'
                  \/ row.assigned = inquiry[i].assigned
<1>0. /\ ReqType /\ TypeOK /\ Requesting(r) /\ IsFiniteSet(notes)
      /\ req[r].on \in Inquiries
      /\ At(r, "write") /\ req[r] \in Request
  BY DEF InboxInv, TypeOK, ReqType, Requesting, Update, At
<1>1. /\ MovesOnly(r) /\ UNCHANGED <<leads, notes, account>>
      /\ ~At(r, "write")'
  BY <1>0, FinishMoves DEF Update, At
<1>2. CASE UNCHANGED inquiry
  BY <1>0, <1>1, <1>2 DEF Quiet, TypeOK
<1>3. CASE inquiry' # inquiry
  <2> DEFINE i == req[r].on
             row == [status |-> Other(req[r].status, inquiry[i].status),
                     assigned |-> Other(req[r].to, inquiry[i].assigned),
                     lead |-> inquiry[i].lead]
  <2>1. /\ ~RowHeld(i)
        /\ ~Converted(inquiry[i])
        /\ inquiry' = [inquiry EXCEPT ![i] = row]
    BY <1>3 DEF Update, Row
  <2>2. inquiry[i] \in Inquiry
    BY <1>0 DEF TypeOK
  <2>3. /\ Other(req[r].status, inquiry[i].status) \in Status \ {"CONVERTED"}
        /\ Other(req[r].to, inquiry[i].assigned) \in Users \union {Nobody}
    BY <1>0, <2>1, <2>2 DEF Other, Request, Inquiry, Converted, Requesting
  <2>4. row \in Inquiry /\ row.lead = 0 /\ row.status # "CONVERTED"
    BY <2>1, <2>2, <2>3 DEF Inquiry, Converted
  <2>5. Writes(r, i, row)
    BY <1>0, <1>1, <2>1, <2>4 DEF Writes, Converted
  <2>6. IsAdmin(r) \/ row.assigned = inquiry[i].assigned
    BY <1>0 DEF Requesting, Other
  <2> QED
    BY <1>0, <1>1, <2>4, <2>5, <2>6
<1> QED
  BY <1>2, <1>3

-----------------------------------------------------------------------------
(* The invariant is kept *)

LEMMA QuietKeepsInv ==
  ASSUME InboxInv, NEW r \in Requests, Quiet(r)
  PROVE  InboxInv'
<1>0. TypeOK /\ IsFiniteSet(leads) /\ LeadsNameRows /\ RowsNameLeads
  BY DEF InboxInv
<1>1. /\ UNCHANGED <<inquiry, leads, account>>
      /\ notes' \subseteq Note /\ IsFiniteSet(notes') /\ ReqType'
      /\ req'[r].step # "commit"
      /\ \A q \in Requests : q # r => req'[q] = req[q]
  BY DEF Quiet, MovesOnly
<1>2. TypeOK'
  BY <1>0, <1>1 DEF TypeOK, ReqType
<1>3. \A q \in Requests : Requesting(q)'
  BY <1>1 DEF InboxInv, Quiet, MovesOnly, Requesting, At, IsAdmin
<1>4. LeadsNameRows' /\ RowsNameLeads'
  BY <1>0, <1>1 DEF LeadsNameRows, RowsNameLeads
<1>5. CommitsOwnRow'
  BY <1>1 DEF InboxInv, CommitsOwnRow, At, IsAdmin
<1> QED
  BY <1>0, <1>1, <1>2, <1>3, <1>4, <1>5 DEF InboxInv

LEMMA WritesKeepInv ==
  ASSUME InboxInv, NEW r \in Requests,
         NEW i \in Inquiries, NEW row \in Inquiry, Writes(r, i, row)
  PROVE  InboxInv'
<1>0. TypeOK /\ LeadsNameRows /\ RowsNameLeads /\ CommitsOwnRow
  BY DEF InboxInv
<1>1. /\ UNCHANGED <<leads, notes, account>> /\ ReqType'
      /\ req'[r].step # "commit"
      /\ \A q \in Requests : q # r => req'[q] = req[q]
      /\ inquiry[i].lead = 0 /\ row.lead = 0 /\ row.status # "CONVERTED"
      /\ ~RowHeld(i)
  BY DEF Writes, MovesOnly
<1>2. /\ inquiry' \in [Inquiries -> Inquiry]
      /\ inquiry'[i] = row
      /\ \A j \in Inquiries : j # i => inquiry'[j] = inquiry[j]
  BY <1>0 DEF Writes, TypeOK
<1>3. TypeOK'
  BY <1>0, <1>1, <1>2 DEF TypeOK, ReqType
<1>4. \A q \in Requests : Requesting(q)'
  BY <1>1 DEF InboxInv, Writes, MovesOnly, Requesting, At, IsAdmin
<1>5. LeadsNameRows'
  <2> SUFFICES ASSUME NEW l \in leads
               PROVE  /\ l.id # 0
                      /\ inquiry'[l.from].lead = l.id
                      /\ l.by \in Admins \/ inquiry'[l.from].assigned = l.by
    BY <1>1 DEF LeadsNameRows
  <2>1. l.from \in Inquiries
    BY <1>0 DEF TypeOK, Lead
  <2>2. l.from # i
    BY <1>0, <1>1 DEF LeadsNameRows
  <2> QED
    BY <1>0, <1>2, <2>1, <2>2 DEF LeadsNameRows
<1>6. RowsNameLeads'
  BY <1>0, <1>1, <1>2 DEF RowsNameLeads
<1>7. CommitsOwnRow'
  <2>1. ASSUME NEW q \in Requests, At(q, "commit")'
        PROVE  /\ At(q, "commit") /\ req'[q] = req[q] /\ q # r
               /\ req[q].on # i /\ req[q].on \in Inquiries
    BY <1>1, <2>1 DEF At, RowHeld, InboxInv, Requesting
  <2> QED
    BY <1>0, <1>2, <2>1 DEF CommitsOwnRow, At, IsAdmin
<1> QED
  BY <1>1, <1>3, <1>4, <1>5, <1>6, <1>7 DEF InboxInv

LEMMA MarkKeepsInv ==
  ASSUME InboxInv, NEW r \in Requests, MarkConverted(r)
  PROVE  InboxInv' /\ UNCHANGED <<inquiry, leads>>
<1>0. /\ ReqType /\ TypeOK /\ Requesting(r)
      /\ IsFiniteSet(leads) /\ IsFiniteSet(notes)
      /\ LeadsNameRows /\ RowsNameLeads /\ CommitsOwnRow
      /\ UNCHANGED <<inquiry, leads, notes, account>>
  BY DEF InboxInv, TypeOK, ReqType, MarkConverted
<1>1. CASE Finish(r)
  <2>1. Quiet(r)
    BY <1>0, <1>1, FinishMoves DEF Quiet, TypeOK
  <2> QED
    BY <1>0, <2>1, QuietKeepsInv
<1>2. CASE /\ ownedWhere(r) /\ ~Converted(Row(r)) /\ ~RowHeld(req[r].on)
           /\ Goto(r, "commit") /\ At(r, "mark")
  <2>1. /\ ReqType'
        /\ req'[r].step = "commit"
        /\ req'[r].user = req[r].user
        /\ req'[r].on = req[r].on
        /\ req'[r].status = req[r].status
        /\ req'[r].to = req[r].to
        /\ \A q \in Requests : q # r => req'[q] = req[q]
    BY <1>0, <1>2, GotoLemma DEF Step
  <2>2. TypeOK'
    BY <1>0, <2>1 DEF TypeOK, ReqType
  <2>3. \A q \in Requests : Requesting(q)'
    BY <1>2, <2>1 DEF InboxInv, Requesting, At, IsAdmin
  <2>4. LeadsNameRows' /\ RowsNameLeads'
    BY <1>0 DEF LeadsNameRows, RowsNameLeads
  <2>5. CommitsOwnRow'
    <3>1. /\ inquiry[req[r].on].lead = 0
          /\ IsAdmin(r) \/ inquiry[req[r].on].assigned = req[r].user
          /\ \A q \in Requests : At(q, "commit") => req[q].on # req[r].on
      BY <1>2 DEF ownedWhere, Converted, Row, RowHeld
    <3>2. ASSUME NEW q \in Requests, At(q, "commit")', q # r
          PROVE  At(q, "commit") /\ req'[q] = req[q]
      BY <2>1, <3>2 DEF At
    <3> QED
      BY <1>0, <2>1, <3>1, <3>2 DEF CommitsOwnRow, IsAdmin, At
  <2> QED
    BY <1>0, <2>2, <2>3, <2>4, <2>5 DEF InboxInv
<1> QED
  BY <1>1, <1>2 DEF MarkConverted

LEMMA CommitEffect ==
  ASSUME InboxInv, NEW r \in Requests, Commit(r)
  PROVE  /\ InboxInv'
         /\ \E i \in Inquiries :
               /\ inquiry[i].lead = 0
               /\ inquiry' = [inquiry EXCEPT ![i] =
                    [status |-> "CONVERTED", assigned |-> inquiry[i].assigned,
                     lead |-> Cardinality(leads) + 1]]
         /\ Cardinality(leads') = Cardinality(leads) + 1
<1> DEFINE i == req[r].on
           id == Cardinality(leads) + 1
           new == [id |-> id, from |-> i, by |-> req[r].user]
           row == [status |-> "CONVERTED", assigned |-> inquiry[i].assigned,
                   lead |-> id]
<1>0. /\ ReqType /\ TypeOK /\ i \in Inquiries /\ req[r].user \in Users
      /\ IsFiniteSet(leads) /\ IsFiniteSet(notes)
      /\ LeadsNameRows /\ RowsNameLeads /\ CommitsOwnRow
  BY DEF InboxInv, TypeOK, ReqType, Commit, Requesting, At
<1>1. /\ leads' = leads \union {new}
      /\ inquiry' = [inquiry EXCEPT ![i] = row]
      /\ Finish(r) /\ At(r, "commit")
      /\ UNCHANGED <<notes, account>>
  BY DEF Commit, Row
<1>2. /\ inquiry[i].lead = 0
      /\ IsAdmin(r) \/ inquiry[i].assigned = req[r].user
      /\ \A q \in Requests : At(q, "commit") /\ q # r => req[q].on # i
  BY <1>0, <1>1 DEF CommitsOwnRow
<1>3. id \in Nat /\ id # 0
  BY <1>0, FS_CardinalityType
<1>4. \A l \in leads : l.from # i /\ l.from \in Inquiries
  BY <1>0, <1>2 DEF LeadsNameRows, TypeOK, Lead
<1>5. new \notin leads
  BY <1>4
<1>6. IsFiniteSet(leads') /\ Cardinality(leads') = id
  BY <1>0, <1>1, <1>5, FS_AddElement
<1>7. inquiry[i] \in Inquiry
  BY <1>0 DEF TypeOK
<1>8. new \in Lead /\ row \in Inquiry
  BY <1>0, <1>3, <1>7 DEF Lead, Inquiry, Status
<1>9. /\ inquiry' \in [Inquiries -> Inquiry]
      /\ inquiry'[i] = row
      /\ \A j \in Inquiries : j # i => inquiry'[j] = inquiry[j]
  BY <1>0, <1>1, <1>8 DEF TypeOK
<1>10. /\ ReqType' /\ req'[r].step = "idle" /\ Requesting(r)'
       /\ \A q \in Requests : q # r => req'[q] = req[q]
  BY <1>0, <1>1, FinishMoves DEF MovesOnly
<1>11. TypeOK'
  BY <1>0, <1>1, <1>8, <1>9, <1>10 DEF TypeOK, ReqType
<1>12. \A q \in Requests : Requesting(q)'
  BY <1>10 DEF InboxInv, Requesting, At, IsAdmin
<1>13. LeadsNameRows'
  <2>1. ASSUME NEW l \in leads
        PROVE  /\ l.id # 0
               /\ inquiry'[l.from].lead = l.id
               /\ l.by \in Admins \/ inquiry'[l.from].assigned = l.by
    BY <1>0, <1>4, <1>9 DEF LeadsNameRows
  <2>2. /\ new.id # 0
        /\ inquiry'[new.from].lead = new.id
        /\ new.by \in Admins \/ inquiry'[new.from].assigned = new.by
    BY <1>2, <1>3, <1>9 DEF IsAdmin
  <2> QED
    BY <1>1, <2>1, <2>2 DEF LeadsNameRows
<1>14. RowsNameLeads'
  <2>1. ASSUME NEW j \in Inquiries, j # i
        PROVE  /\ inquiry'[j].status = "CONVERTED" <=> inquiry'[j].lead # 0
               /\ inquiry'[j].lead # 0 =>
                     \E l \in leads' : l.from = j /\ l.id = inquiry'[j].lead
    BY <1>0, <1>1, <1>9, <2>1 DEF RowsNameLeads
  <2>2. /\ inquiry'[i].status = "CONVERTED" /\ inquiry'[i].lead # 0
        /\ new \in leads' /\ new.from = i /\ new.id = inquiry'[i].lead
    BY <1>1, <1>3, <1>9
  <2> QED
    BY <2>1, <2>2 DEF RowsNameLeads
<1>15. CommitsOwnRow'
  <2>1. ASSUME NEW q \in Requests, At(q, "commit")'
        PROVE  /\ At(q, "commit") /\ req'[q] = req[q]
               /\ req[q].on # i /\ req[q].on \in Inquiries
    BY <1>2, <1>10, <2>1 DEF At, InboxInv, Requesting
  <2> QED
    BY <1>0, <1>9, <2>1 DEF CommitsOwnRow, At, IsAdmin
<1>16. InboxInv'
  BY <1>0, <1>1, <1>6, <1>11, <1>12, <1>13, <1>14, <1>15 DEF InboxInv
<1> QED
  BY <1>0, <1>1, <1>2, <1>6, <1>16

LEMMA SetAccountKeepsInv ==
  ASSUME InboxInv, NEW u \in Users, SetAccount(u)
  PROVE  InboxInv' /\ UNCHANGED <<inquiry, leads>>
<1>1. UNCHANGED <<inquiry, leads, notes, req>> /\ u \notin Admins
  BY InboxAssumption DEF SetAccount
<1>2. TypeOK'
  <2>1. account' \in [Users -> {"active", "disabled", "deleted"}]
    BY DEF SetAccount, InboxInv, TypeOK
  <2>2. Admins \subseteq {v \in Users : account'[v] = "active"}
    BY <1>1 DEF SetAccount, InboxInv, TypeOK
  <2> QED
    BY <1>1, <2>1, <2>2 DEF InboxInv, TypeOK
<1>3. /\ \A q \in Requests : Requesting(q)'
      /\ LeadsNameRows' /\ RowsNameLeads' /\ CommitsOwnRow'
  BY <1>1 DEF InboxInv, Requesting, LeadsNameRows, RowsNameLeads,
              CommitsOwnRow, At, IsAdmin
<1> QED
  BY <1>1, <1>2, <1>3 DEF InboxInv

LEMMA DeleteUserKeepsInv ==
  ASSUME InboxInv, NEW u \in Users, DeleteUser(u)
  PROVE  InboxInv' /\ leads' = leads
<1>0. TypeOK /\ LeadsNameRows /\ RowsNameLeads /\ CommitsOwnRow
  BY DEF InboxInv
<1>1. /\ UNCHANGED <<leads, notes, req>> /\ u \notin Admins
      /\ \A l \in leads : l.by # u
      /\ \A r \in Requests : At(r, "commit") => req[r].user # u
  BY InboxAssumption DEF DeleteUser, At
<1>2. \A i \in Inquiries :
         /\ inquiry'[i].status = inquiry[i].status
         /\ inquiry'[i].lead = inquiry[i].lead
         /\ inquiry'[i].assigned =
              IF inquiry[i].assigned = u THEN Nobody ELSE inquiry[i].assigned
  BY <1>0 DEF DeleteUser, TypeOK, Inquiry
<1>3. TypeOK'
  <2>1. inquiry' \in [Inquiries -> Inquiry]
    <3>1. ASSUME NEW i \in Inquiries
          PROVE  [inquiry[i] EXCEPT !.assigned = IF @ = u THEN Nobody ELSE @]
                   \in Inquiry
      BY <1>0 DEF TypeOK, Inquiry
    <3> QED
      BY <3>1 DEF DeleteUser
  <2>2. account' \in [Users -> {"active", "disabled", "deleted"}]
    BY <1>0 DEF DeleteUser, TypeOK
  <2>3. Admins \subseteq {v \in Users : account'[v] = "active"}
    BY <1>0, <1>1 DEF DeleteUser, TypeOK
  <2> QED
    BY <1>0, <1>1, <2>1, <2>2, <2>3 DEF TypeOK
<1>4. \A q \in Requests : Requesting(q)'
  BY <1>1 DEF InboxInv, Requesting, At, IsAdmin
<1>5. LeadsNameRows'
  BY <1>0, <1>1, <1>2 DEF LeadsNameRows, TypeOK, Lead
<1>6. RowsNameLeads'
  BY <1>0, <1>1, <1>2 DEF RowsNameLeads
<1>7. CommitsOwnRow'
  <2>1. \A r \in Requests : At(r, "commit") => req[r].on \in Inquiries
    BY DEF InboxInv, Requesting, At
  <2> QED
    BY <1>0, <1>1, <1>2, <2>1 DEF CommitsOwnRow, At, IsAdmin
<1> QED
  BY <1>1, <1>3, <1>4, <1>5, <1>6, <1>7 DEF InboxInv

\* What a step does, as far as rows and leads are concerned.
Effect ==
    \/ UNCHANGED <<inquiry, leads>>
    \/ \E r \in Requests, i \in Inquiries, row \in Inquiry :
          /\ Writes(r, i, row)
          /\ \/ inquiry[i].assigned = Nobody
             \/ IsAdmin(r) /\ At(r, "write") /\ ~At(r, "write")'
             \/ row.assigned = inquiry[i].assigned
    \/ /\ \E i \in Inquiries :
             /\ inquiry[i].lead = 0
             /\ inquiry' = [inquiry EXCEPT ![i] =
                  [status |-> "CONVERTED", assigned |-> inquiry[i].assigned,
                   lead |-> Cardinality(leads) + 1]]
       /\ Cardinality(leads') = Cardinality(leads) + 1
    \/ leads' = leads /\ \E u \in Users : DeleteUser(u)

LEMMA StepEffect ==
  ASSUME InboxInv, [Next]_vars
  PROVE  InboxInv' /\ Effect
<1>1. CASE UNCHANGED vars
  <2>1. UNCHANGED <<inquiry, leads, notes, account, req>>
    BY <1>1 DEF vars
  <2> QED
    BY <2>1 DEF Effect, InboxInv, TypeOK, Requesting, LeadsNameRows,
                RowsNameLeads, CommitsOwnRow, At, IsAdmin
<1>2. ASSUME NEW r \in Requests, Quiet(r)
      PROVE  InboxInv' /\ Effect
  BY <1>2, QuietKeepsInv DEF Effect, Quiet
<1>3. ASSUME NEW r \in Requests,
             \/ BeginClaim(r) \/ BeginUpdate(r) \/ BeginAddNote(r)
             \/ BeginConvert(r) \/ ReadForUpdate(r) \/ isActiveAgent(r)
             \/ ReadForNote(r) \/ AddNote(r) \/ ReadForConvert(r)
             \/ SelectOriginal(r) \/ CreateLead(r) \/ RequestFails(r)
      PROVE  InboxInv' /\ Effect
  BY <1>2, <1>3, QuietSteps
<1>4. ASSUME NEW r \in Requests, Claim(r)
      PROVE  InboxInv' /\ Effect
  BY <1>2, <1>4, ClaimEffect, WritesKeepInv DEF Effect
<1>5. ASSUME NEW r \in Requests, Update(r)
      PROVE  InboxInv' /\ Effect
  BY <1>2, <1>5, UpdateEffect, WritesKeepInv DEF Effect
<1>6. ASSUME NEW r \in Requests, MarkConverted(r)
      PROVE  InboxInv' /\ Effect
  BY <1>6, MarkKeepsInv DEF Effect
<1>7. ASSUME NEW r \in Requests, Commit(r)
      PROVE  InboxInv' /\ Effect
  BY <1>7, CommitEffect DEF Effect
<1>8. ASSUME NEW u \in Users, SetAccount(u)
      PROVE  InboxInv' /\ Effect
  BY <1>8, SetAccountKeepsInv DEF Effect
<1>9. ASSUME NEW u \in Users, DeleteUser(u)
      PROVE  InboxInv' /\ Effect
  BY <1>9, DeleteUserKeepsInv DEF Effect
<1> QED
  BY <1>1, <1>3, <1>4, <1>5, <1>6, <1>7, <1>8, <1>9 DEF Next, Serve

LEMMA InvHoldsAtFirst == Init => InboxInv
<1> SUFFICES ASSUME Init PROVE InboxInv
  OBVIOUS
<1>1. NoRequest \in Request
  BY DEF NoRequest, Slot, Request, Step
<1>2. TypeOK
  BY <1>1, InboxAssumption DEF Init, TypeOK, Inquiry, Status, Users
<1>3. IsFiniteSet(leads) /\ IsFiniteSet(notes)
  BY FS_EmptySet DEF Init
<1>4. ASSUME NEW r \in Requests PROVE Requesting(r) /\ ~At(r, "commit")
  BY InboxAssumption DEF Init, Requesting, At, NoRequest, Slot, Status
<1>5. CommitsOwnRow
  BY <1>4 DEF CommitsOwnRow
<1>6. LeadsNameRows /\ RowsNameLeads
  BY DEF Init, LeadsNameRows, RowsNameLeads
<1> QED
  BY <1>2, <1>3, <1>4, <1>5, <1>6 DEF InboxInv

LEMMA InboxInvHolds == Spec => []InboxInv
<1>1. InboxInv /\ [Next]_vars => InboxInv'
  BY StepEffect
<1> QED
  BY InvHoldsAtFirst, <1>1, PTL DEF Spec

-----------------------------------------------------------------------------
(* The theorems *)

\* Requests, rows, leads and notes have their types, and admins stay active
\* (WebsiteLeadsService, AuthService).
THEOREM LeadsTypeCorrect == Spec => []TypeOK
BY InboxInvHolds, PTL DEF InboxInv

\* Each lead and the inquiry it was made from name each other, and the lead
\* was made by an admin or the owner (convert in WebsiteLeadsRepository).
THEOREM LeadsMadeByOwner == Spec => []ConvertedByOwner
<1>1. InboxInv => ConvertedByOwner
  <2> SUFFICES ASSUME InboxInv PROVE ConvertedByOwner
    OBVIOUS
  <2>1. LeadsNameRows /\ RowsNameLeads
    BY DEF InboxInv
  <2> QED
    BY <2>1 DEF LeadsNameRows, RowsNameLeads, ConvertedByOwner
<1> QED
  BY InboxInvHolds, <1>1, PTL

\* Overlapping claims, edits, conversions and deletions of users are steps of
\* WebsiteInbox: one conversion for an inquiry, and no change after it.
THEOREM InboxImplemented == Spec => ImplementsInbox
<1> DEFINE owner == [i \in Inquiries |-> inquiry[i].assigned]
           lead == [i \in Inquiries |-> inquiry[i].lead]
<1>1. Init => Inbox!Init
  BY FS_EmptySet DEF Init, Inbox!Init
<1>2. InboxInv /\ [Next]_vars => [Inbox!Next]_(Inbox!vars)
  <2> SUFFICES ASSUME InboxInv, [Next]_vars
               PROVE  Inbox!Next \/ UNCHANGED Inbox!vars
    OBVIOUS
  <2>0. Effect /\ TypeOK
    BY StepEffect DEF InboxInv
  <2>1. CASE UNCHANGED <<inquiry, leads>>
    BY <2>1 DEF Inbox!vars
  <2>2. ASSUME NEW r \in Requests, NEW i \in Inquiries, NEW row \in Inquiry,
               Writes(r, i, row)
        PROVE  Inbox!Next
    <3>1. /\ inquiry' = [inquiry EXCEPT ![i] = row] /\ leads' = leads
          /\ inquiry[i].lead = 0 /\ row.lead = 0
          /\ row.assigned \in Users \union {Nobody}
      BY <2>2 DEF Writes, Inquiry
    <3>2. owner' = [owner EXCEPT ![i] = row.assigned] /\ lead' = lead
      BY <2>0, <3>1 DEF TypeOK
    <3>3. Inbox!Assign(i, row.assigned)
      BY <3>1, <3>2 DEF Inbox!Assign
    <3> QED
      BY <3>1, <3>3 DEF Inbox!Next
  <2>3. ASSUME NEW i \in Inquiries, inquiry[i].lead = 0,
               inquiry' = [inquiry EXCEPT ![i] =
                 [status |-> "CONVERTED", assigned |-> inquiry[i].assigned,
                  lead |-> Cardinality(leads) + 1]],
               Cardinality(leads') = Cardinality(leads) + 1
        PROVE  Inbox!Next
    <3>1. /\ owner' = owner
          /\ lead' = [lead EXCEPT ![i] = Cardinality(leads) + 1]
      BY <2>0, <2>3 DEF TypeOK
    <3>2. Inbox!Convert(i)
      BY <2>3, <3>1 DEF Inbox!Convert
    <3> QED
      BY <3>2 DEF Inbox!Next
  <2>4. ASSUME NEW u \in Users, DeleteUser(u), leads' = leads
        PROVE  Inbox!Next
    <3>1. \A i \in Inquiries :
             /\ inquiry'[i].lead = inquiry[i].lead
             /\ inquiry'[i].assigned =
                  IF inquiry[i].assigned = u THEN Nobody
                                             ELSE inquiry[i].assigned
      BY <2>0, <2>4 DEF DeleteUser, TypeOK, Inquiry
    <3>2. /\ owner' = [i \in Inquiries |->
                         IF owner[i] = u THEN Nobody ELSE owner[i]]
          /\ lead' = lead
      BY <3>1
    <3>3. Inbox!Leave(u)
      BY <2>4, <3>2 DEF Inbox!Leave
    <3> QED
      BY <3>3 DEF Inbox!Next
  <2> QED
    BY <2>0, <2>1, <2>2, <2>3, <2>4 DEF Effect
<1> QED
  BY InboxInvHolds, <1>1, <1>2, PTL DEF Spec, ImplementsInbox, Inbox!Spec

\* An inquiry leaves the agent who works on it by an admin's edit or with the
\* agent's account (claim, update, deleteUser), however requests overlap.
THEOREM AgentsKeepInquiries == Spec => InquiryIsKept
<1>1. InboxInv /\ [Next]_vars => [NeverTakenAway]_vars
  <2> SUFFICES ASSUME InboxInv, [Next]_vars, NEW i \in Inquiries, LeavesAgent(i)
               PROVE  \/ account'[inquiry[i].assigned] = "deleted"
                      \/ \E r \in Requests : /\ At(r, "write")
                                             /\ ~At(r, "write")'
                                             /\ IsAdmin(r)
    BY DEF NeverTakenAway
  <2>0. Effect /\ TypeOK
    BY StepEffect DEF InboxInv
  <2>1. CASE UNCHANGED <<inquiry, leads>>
    BY <2>1 DEF LeavesAgent
  <2>2. ASSUME NEW r \in Requests, NEW j \in Inquiries, NEW row \in Inquiry,
               Writes(r, j, row),
               \/ inquiry[j].assigned = Nobody
               \/ IsAdmin(r) /\ At(r, "write") /\ ~At(r, "write")'
               \/ row.assigned = inquiry[j].assigned
        PROVE  /\ IsAdmin(r) /\ At(r, "write") /\ ~At(r, "write")'
    <3>1. inquiry' = [inquiry EXCEPT ![j] = row]
      BY <2>2 DEF Writes
    <3>2. i = j /\ row.assigned # inquiry[j].assigned
      BY <2>0, <3>1 DEF LeavesAgent, TypeOK
    <3>3. inquiry[j].assigned # Nobody
      BY <3>2, InboxAssumption DEF LeavesAgent
    <3> QED
      BY <2>2, <3>2, <3>3
  <2>3. ASSUME NEW j \in Inquiries,
               inquiry' = [inquiry EXCEPT ![j] =
                 [status |-> "CONVERTED", assigned |-> inquiry[j].assigned,
                  lead |-> Cardinality(leads) + 1]]
        PROVE  FALSE
    BY <2>0, <2>3 DEF LeavesAgent, TypeOK
  <2>4. ASSUME NEW u \in Users, DeleteUser(u)
        PROVE  account'[inquiry[i].assigned] = "deleted"
    <3>1. inquiry[i].assigned = u
      BY <2>0, <2>4 DEF DeleteUser, TypeOK, LeavesAgent, Inquiry
    <3> QED
      BY <2>0, <2>4, <3>1 DEF DeleteUser, TypeOK
  <2> QED
    BY <2>0, <2>1, <2>2, <2>3, <2>4 DEF Effect
<1> QED
  BY InboxInvHolds, <1>1, PTL DEF Spec, InquiryIsKept

-----------------------------------------------------------------------------
(* The intake: however often the website repeats a submission, and however  *)
(* its attempts overlap, get lost or stop half-way, there is one record of   *)
(* it and every answer names it.                                            *)

\* An attempt that is about to commit holds its key: no row has it yet and
\* no other attempt is about to commit it.
HoldsKey(a) ==
    /\ attempt[a].id \in Nat \ {0}
    /\ \A row \in rows : row.sub # attempt[a].sub
    /\ \A b \in Attempts \ {a} : Stands(b, "commit") => attempt[b].sub # attempt[a].sub

\* An attempt that answers knows a committed row of its submission.
KnowsRow(a) ==
    /\ attempt[a].id \in Nat \ {0}
    /\ [id |-> attempt[a].id, sub |-> attempt[a].sub] \in rows

IntakeInv ==
    /\ IntakeTypeOK
    /\ OneRecordPerSubmission
    /\ \A a \in Attempts : Stands(a, "commit") => HoldsKey(a)
    /\ \A a \in Attempts : Stands(a, "answer") => KnowsRow(a)

\* Attempts move by themselves; the moved record, field by field.
LEMMA MoveLemma ==
    ASSUME IntakeTypeOK, NEW a \in Attempts, NEW id \in Nat,
           NEW step \in {"idle", "select", "insert", "commit", "find",
                         "answer", "lost", "error"},
           NEW s \in Submissions,
           attempt' = [attempt EXCEPT ![a] = AttemptAt(step, s, id)]
    PROVE  /\ attempt' \in [Attempts -> Attempt]
           /\ attempt'[a].step = step
           /\ attempt'[a].sub = s
           /\ attempt'[a].id = id
           /\ \A b \in Attempts \ {a} : attempt'[b] = attempt[b]
  BY DEF IntakeTypeOK, Attempt, AttemptAt

\* A step that changes no row and brings no attempt to its commit, and to an
\* answer only with a row it knows, keeps the invariant.
LEMMA QuietKeepsIntake ==
    ASSUME IntakeInv, NEW a \in Attempts,
           IntakeTypeOK', rows' = rows, answers' = answers,
           attempt'[a].step # "commit",
           attempt'[a].step = "answer" => KnowsRow(a)',
           \A b \in Attempts \ {a} : attempt'[b] = attempt[b]
    PROVE  IntakeInv'
  BY DEF IntakeInv, OneRecordPerSubmission, Stands, HoldsKey, KnowsRow

LEMMA IntakeAtFirst == IntakeInit => IntakeInv
  BY IntakeAssumption
  DEF IntakeInit, IntakeInv, IntakeTypeOK, Attempt, AttemptAt, Stands, OneRecordPerSubmission

LEMMA IntakeIsInductive == IntakeInv /\ [IntakeNext]_intakeVars => IntakeInv'
<1> SUFFICES ASSUME IntakeInv, [IntakeNext]_intakeVars
             PROVE  IntakeInv'
    OBVIOUS
<1> USE IntakeAssumption
<1>a. IntakeTypeOK
    BY DEF IntakeInv
<1>b. ASSUME NEW a \in Attempts
      PROVE  attempt[a] \in Attempt
    BY <1>a DEF IntakeTypeOK
<1>1. ASSUME NEW s \in Submissions, Enqueue(s)
      PROVE  IntakeInv'
    BY <1>1 DEF Enqueue, IntakeInv, IntakeTypeOK, OneRecordPerSubmission, Stands,
                HoldsKey, KnowsRow
<1>2. ASSUME NEW a \in Attempts, Send(a)
      PROVE  IntakeInv'
  <2>1. PICK s \in Submissions : attempt' = [attempt EXCEPT ![a] = AttemptAt("select", s, 0)]
      BY <1>2 DEF Send
  <2>2. attempt' \in [Attempts -> Attempt] /\ attempt'[a].step = "select"
          /\ \A b \in Attempts \ {a} : attempt'[b] = attempt[b]
      BY <2>1, <1>a, MoveLemma
  <2>3. IntakeTypeOK'
      BY <1>2, <1>a, <2>2 DEF Send, IntakeTypeOK
  <2> QED
      BY <1>2, <2>2, <2>3, QuietKeepsIntake DEF Send
<1>3. ASSUME NEW a \in Attempts, Select(a)
      PROVE  IntakeInv'
  <2>1. CASE \E row \in RowsOf(attempt[a].sub) : Move(a, "answer", row.id)
    <3>1. PICK row \in RowsOf(attempt[a].sub) : Move(a, "answer", row.id)
        BY <2>1
    <3>2. row \in rows /\ row \in Record /\ row.sub = attempt[a].sub
        BY <3>1, <1>a DEF RowsOf, IntakeTypeOK
    <3>3. row = [id |-> row.id, sub |-> attempt[a].sub] /\ row.id \in Nat \ {0}
        BY <3>2 DEF Record
    <3>4. /\ attempt' \in [Attempts -> Attempt]
          /\ attempt'[a].step = "answer"
          /\ attempt'[a].sub = attempt[a].sub
          /\ attempt'[a].id = row.id
          /\ \A b \in Attempts \ {a} : attempt'[b] = attempt[b]
        BY <3>1, <3>3, <1>a, <1>b, MoveLemma DEF Move, Attempt
    <3>5. KnowsRow(a)' /\ IntakeTypeOK'
        BY <1>3, <1>a, <3>2, <3>3, <3>4 DEF Select, IntakeTypeOK, KnowsRow
    <3> QED
        BY <1>3, <3>4, <3>5, QuietKeepsIntake DEF Select
  <2>2. CASE Move(a, "insert", 0)
    <3>1. /\ attempt' \in [Attempts -> Attempt] /\ attempt'[a].step = "insert"
          /\ \A b \in Attempts \ {a} : attempt'[b] = attempt[b]
        BY <2>2, <1>a, <1>b, MoveLemma DEF Move, Attempt
    <3>2. IntakeTypeOK'
        BY <1>3, <1>a, <3>1 DEF Select, IntakeTypeOK
    <3> QED
        BY <1>3, <3>1, <3>2, QuietKeepsIntake DEF Select
  <2> QED
      BY <1>3, <2>1, <2>2 DEF Select
<1>4. ASSUME NEW a \in Attempts, Insert(a)
      PROVE  IntakeInv'
  <2>1. CASE RowsOf(attempt[a].sub) # {}
    <3>1. /\ attempt' \in [Attempts -> Attempt] /\ attempt'[a].step = "find"
          /\ \A b \in Attempts \ {a} : attempt'[b] = attempt[b]
        BY <1>4, <2>1, <1>a, <1>b, MoveLemma DEF Insert, Move, Attempt
    <3>2. IntakeTypeOK'
        BY <1>4, <2>1, <1>a, <3>1 DEF Insert, IntakeTypeOK
    <3> QED
        BY <1>4, <3>1, <3>2, QuietKeepsIntake DEF Insert
  <2>2. CASE RowsOf(attempt[a].sub) = {}
    <3>1. lastId \in Nat /\ lastId + 1 \in Nat \ {0}
        BY <1>a DEF IntakeTypeOK
    <3>2. /\ attempt' \in [Attempts -> Attempt] /\ attempt'[a].step = "commit"
          /\ attempt'[a].sub = attempt[a].sub /\ attempt'[a].id = lastId + 1
          /\ \A b \in Attempts \ {a} : attempt'[b] = attempt[b]
        BY <1>4, <2>2, <3>1, <1>a, <1>b, MoveLemma DEF Insert, Move, Attempt
    <3>3. IntakeTypeOK'
        BY <1>4, <2>2, <1>a, <3>1, <3>2 DEF Insert, IntakeTypeOK
    <3>4. HoldsKey(a)'
        BY <1>4, <2>2, <3>1, <3>2 DEF Insert, KeyHeld, RowsOf, HoldsKey, Stands
    <3>5. ASSUME NEW b \in Attempts \ {a}, Stands(b, "commit")'
          PROVE  HoldsKey(b)'
      <4>1. HoldsKey(b) /\ attempt[b].sub # attempt[a].sub
          BY <1>4, <3>2, <3>5 DEF Insert, KeyHeld, IntakeInv, Stands
      <4> QED
          BY <1>4, <3>2, <4>1 DEF Insert, HoldsKey, Stands
    <3> QED
        BY <1>4, <3>2, <3>3, <3>4, <3>5
        DEF Insert, IntakeInv, OneRecordPerSubmission, Stands, KnowsRow
  <2> QED
      BY <2>1, <2>2
<1>5. ASSUME NEW a \in Attempts, CommitInsert(a)
      PROVE  IntakeInv'
  <2> DEFINE new == [id |-> attempt[a].id, sub |-> attempt[a].sub]
  <2>1. HoldsKey(a) /\ new \in Record
      BY <1>5, <1>b DEF CommitInsert, IntakeInv, HoldsKey, Attempt, Record
  <2>2. /\ attempt' \in [Attempts -> Attempt] /\ attempt'[a].step = "answer"
        /\ attempt'[a].sub = attempt[a].sub /\ attempt'[a].id = attempt[a].id
        /\ \A b \in Attempts \ {a} : attempt'[b] = attempt[b]
      BY ZenonT(60), <1>5, <1>a, <1>b, MoveLemma DEF CommitInsert, Move, Attempt
  <2>3. IntakeTypeOK'
      BY <1>5, <1>a, <2>1, <2>2 DEF CommitInsert, IntakeTypeOK
  <2>4. OneRecordPerSubmission'
    <3>1. rows' = rows \union {new} /\ answers' = answers
        BY <1>5 DEF CommitInsert
    <3>2. new.sub = attempt[a].sub
        OBVIOUS
    <3> HIDE DEF new
    <3> QED
        BY <2>1, <3>1, <3>2 DEF IntakeInv, OneRecordPerSubmission, HoldsKey
  <2>5. KnowsRow(a)'
      BY <1>5, <2>1, <2>2 DEF CommitInsert, KnowsRow, HoldsKey
  <2>6. ASSUME NEW b \in Attempts \ {a}, Stands(b, "commit")'
        PROVE  HoldsKey(b)'
    <3>1. HoldsKey(b) /\ attempt[b].sub # attempt[a].sub
        BY <1>5, <2>2, <2>6 DEF CommitInsert, IntakeInv, HoldsKey, Stands
    <3> QED
        BY <1>5, <2>2, <3>1 DEF CommitInsert, HoldsKey, Stands
  <2>7. ASSUME NEW b \in Attempts \ {a}, Stands(b, "answer")'
        PROVE  KnowsRow(b)'
      BY <1>5, <2>2, <2>7 DEF CommitInsert, IntakeInv, KnowsRow, Stands
  <2> QED
      BY <2>2, <2>3, <2>4, <2>5, <2>6, <2>7 DEF IntakeInv, Stands
<1>6. ASSUME NEW a \in Attempts, Find(a)
      PROVE  IntakeInv'
  <2>1. PICK row \in RowsOf(attempt[a].sub) : Move(a, "answer", row.id)
      BY <1>6 DEF Find
  <2>2. row \in rows /\ row \in Record /\ row.sub = attempt[a].sub
      BY <2>1, <1>a DEF RowsOf, IntakeTypeOK
  <2>3. row = [id |-> row.id, sub |-> attempt[a].sub] /\ row.id \in Nat \ {0}
      BY <2>2 DEF Record
  <2>4. /\ attempt' \in [Attempts -> Attempt] /\ attempt'[a].step = "answer"
        /\ attempt'[a].sub = attempt[a].sub /\ attempt'[a].id = row.id
        /\ \A b \in Attempts \ {a} : attempt'[b] = attempt[b]
    <3>1. row.id \in Nat /\ attempt[a].sub \in Submissions
        BY <2>3, <1>b DEF Attempt
    <3>2. attempt' = [attempt EXCEPT ![a] = AttemptAt("answer", attempt[a].sub, row.id)]
        BY <2>1 DEF Move
    <3> QED
        BY <3>1, <3>2, <1>a, MoveLemma
  <2>5. KnowsRow(a)' /\ IntakeTypeOK'
      BY <1>6, <1>a, <2>2, <2>3, <2>4 DEF Find, IntakeTypeOK, KnowsRow
  <2> QED
      BY <1>6, <2>4, <2>5, QuietKeepsIntake DEF Find
<1>7. ASSUME NEW a \in Attempts, Answer(a)
      PROVE  IntakeInv'
  <2> DEFINE named == [id |-> attempt[a].id, sub |-> attempt[a].sub]
  <2>1. named \in rows
      BY <1>7 DEF Answer, IntakeInv, KnowsRow
  <2>2. /\ attempt' \in [Attempts -> Attempt] /\ attempt'[a].step = "idle"
        /\ \A b \in Attempts \ {a} : attempt'[b] = attempt[b]
      BY <1>7, <1>a, <1>b, MoveLemma DEF Answer, Move, Attempt
  <2>3. IntakeTypeOK'
      BY <1>7, <1>a, <2>1, <2>2 DEF Answer, IntakeTypeOK
  <2> QED
      BY <1>7, <2>1, <2>2, <2>3
      DEF Answer, IntakeInv, OneRecordPerSubmission, Stands, HoldsKey, KnowsRow
<1>8. ASSUME NEW a \in Attempts, Lose(a)
      PROVE  IntakeInv'
  <2>1. /\ attempt' \in [Attempts -> Attempt] /\ attempt'[a].step = "lost"
        /\ \A b \in Attempts \ {a} : attempt'[b] = attempt[b]
      BY <1>8, <1>a, <1>b, MoveLemma DEF Lose, Move, Attempt
  <2>2. IntakeTypeOK'
      BY <1>8, <1>a, <2>1 DEF Lose, IntakeTypeOK
  <2> QED
      BY <1>8, <2>1, <2>2, QuietKeepsIntake DEF Lose
<1>9. CASE UNCHANGED intakeVars
    BY <1>9 DEF intakeVars, IntakeInv, IntakeTypeOK, OneRecordPerSubmission, Stands,
                HoldsKey, KnowsRow
<1> QED
    BY <1>1, <1>2, <1>3, <1>4, <1>5, <1>6, <1>7, <1>8, <1>9 DEF IntakeNext, Handle

\* Every reachable state of the intake is well typed, for any number of
\* attempts and submissions.
THEOREM IntakeTypeCorrect == IntakeSafety => []IntakeTypeOK
<1>1. IntakeInv => IntakeTypeOK
    BY DEF IntakeInv
<1> QED
    BY <1>1, IntakeAtFirst, IntakeIsInductive, PTL DEF IntakeSafety

\* One row for each submission, and every answer names a stored row: the
\* idempotence that ingest promises to the website.
THEOREM OneRecord == IntakeSafety => []OneRecordPerSubmission
<1>1. IntakeInv => OneRecordPerSubmission
    BY DEF IntakeInv
<1> QED
    BY <1>1, IntakeAtFirst, IntakeIsInductive, PTL DEF IntakeSafety
=============================================================================
