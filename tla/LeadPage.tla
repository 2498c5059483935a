------------------------------ MODULE LeadPage -------------------------------
(***************************************************************************)
(* The two detail pages of inquiries, with the notes of each.  That of a   *)
(* CRM lead loads the lead and its notes again after a note; that of a     *)
(* website lead loads once, works on the answers of its calls, and shows   *)
(* the actions that its own copy of the backend's rules allows.            *)
(***************************************************************************)
EXTENDS Browser

\* assigned and converted: of a CRM lead only converted is used.
NoLead == [status |-> "NONE", assigned |-> "nobody", converted |-> FALSE]

LeadOf(s) == [f \in DOMAIN NoLead |-> s[f]]

\* ADMIN, or the sales user "me".
LeadInit ==
    \E kind \in {"lead", "website"}, role \in {"ADMIN", "SALES"} :
        Mount("lead",
              [kind |-> kind, role |-> role, row |-> NoLead,
               notes |-> 0, generation |-> 0, busy |-> {}, mixed |-> FALSE,
               left |-> FALSE],
              [status |-> "NEW", assigned |-> "nobody", converted |-> FALSE,
               notes |-> 0, others |-> 0])

AtLead(kind) == At("lead") /\ page.kind = kind /\ ~page.left

\* The effects on [leadId, refreshKey]: each load forgets the one before.
\* mixed remembers that a reload and a status call were under way together.
Reloading(p) ==
    [p EXCEPT !.generation = @ + 1, !.busy = @ \union {"lead", "notes"},
              !.mixed = @ \/ "status" \in p.busy]

Loads(p) == <<Call("lead", 0, p.generation), Call("notes", 0, p.generation)>>

OpenLead ==
    /\ AtLead("lead") /\ page.generation = 0
    /\ LET p == Reloading(page) IN Ask(p, Loads(p))

OpenWebsiteLead ==
    /\ AtLead("website") /\ page.generation = 0
    /\ Ask([page EXCEPT !.generation = 1, !.busy = {"lead"}],
           <<Call("open", 0, 1)>>)

\* A failed load of the lead shows an error and keeps the old lead unseen.
LeadLoaded(i) ==
    /\ AtLead("lead") /\ calls[i].op = "lead" /\ calls[i].state # "sent"
    /\ Continue(i, IF calls[i].kept # page.generation THEN page
                   ELSE IF calls[i].state = "ok"
                   THEN [page EXCEPT !.row = Body(i), !.busy = @ \ {"lead"}]
                   ELSE [page EXCEPT !.row = NoLead, !.busy = @ \ {"lead"}], <<>>)

NotesLoaded(i) ==
    /\ AtLead("lead") /\ calls[i].op = "notes" /\ calls[i].state # "sent"
    /\ Continue(i, IF calls[i].kept # page.generation THEN page
                   ELSE IF calls[i].state = "ok"
                   THEN [page EXCEPT !.notes = Body(i), !.busy = @ \ {"notes"}]
                   ELSE [page EXCEPT !.busy = @ \ {"notes"}], <<>>)

WebsiteLeadLoaded(i) ==
    /\ AtLead("website")
    /\ \/ /\ Succeeded(i, "open")
          /\ Continue(i, [page EXCEPT !.row = Body(i).row,
                            !.notes = Body(i).notes, !.busy = {}], <<>>)
       \/ Failed(i, "open") /\ Continue(i, [page EXCEPT !.busy = {}], <<>>)

\* The page of a CRM lead shows a skeleton while the lead is loaded.
Ready(kind) == AtLead(kind) /\ page.row # NoLead /\ "lead" \notin page.busy

handleStatusChange ==
    /\ Ready("lead") /\ ~page.row.converted /\ "status" \notin page.busy
    /\ \E status \in {"NEW", "WORKED"} \ {page.row.status} :
         Ask([page EXCEPT !.busy = @ \union {"status"}],
             <<Call("update", [status |-> status, to |-> "keep"], 0)>>)

handleAddComment ==
    /\ Ready("lead") /\ "note" \notin page.busy
    /\ Ask([page EXCEPT !.busy = @ \union {"note"}], <<Call("note", 0, 0)>>)

\* Mutant: an unassigned lead counts as one's own.
canManageFree == page.role = "ADMIN" \/ page.row.assigned # "other"

\* The website lead: canManage and canClaim, and the lock saving.
canManage == \/ page.role = "ADMIN" \/ page.row.assigned = "me"

canClaim == /\ page.role = "SALES" /\ page.row.assigned = "nobody"
            /\ ~page.row.converted

update ==
    /\ Ready("website") /\ canManage /\ "saving" \notin page.busy
    /\ ~page.row.converted
    /\ \E to \in {"keep", "nobody", "me", "other"}, status \in {"keep", "WORKED"} :
         /\ (to = "keep") # (status = "keep")
         /\ to # "keep" => page.role = "ADMIN" /\ to # page.row.assigned
         /\ status # page.row.status
         /\ Ask([page EXCEPT !.busy = @ \union {"saving"}],
                <<Call("update", [status |-> status, to |-> to], 0)>>)

addNote ==
    /\ Ready("website") /\ canManage /\ "saving" \notin page.busy
    /\ Ask([page EXCEPT !.busy = @ \union {"saving"}], <<Call("note", 0, 0)>>)

claim ==
    /\ Ready("website") /\ canClaim /\ "saving" \notin page.busy
    /\ Ask([page EXCEPT !.busy = @ \union {"saving"}], <<Call("claim", 0, 0)>>)

\* The conversion form has a lock of its own; success leaves the page.
convert ==
    /\ Ready("website") /\ canManage /\ ~page.row.converted
    /\ "converting" \notin page.busy
    /\ Ask([page EXCEPT !.busy = @ \union {"converting"},
                        !.mixed = @ \/ "saving" \in page.busy],
           <<Call("convert", 0, 0)>>)

LeadConverted(i) ==
    /\ AtLead("website") /\ calls[i].op = "convert" /\ calls[i].state # "sent"
    /\ Continue(i, [page EXCEPT !.busy = @ \ {"converting"},
                                !.left = calls[i].state = "ok"], <<>>)

\* Mutant: the answer is not put on the screen.
LeadSavedUnseen(i) ==
    /\ At("lead") /\ ~page.left /\ calls[i].op \in {"update", "claim"}
    /\ calls[i].state # "sent"
    /\ Continue(i, [page EXCEPT !.busy = @ \ {"saving", "status"}], <<>>)

\* The answer is the new lead; a note is put first or loads all again.
LeadSaved(i) ==
    /\ At("lead") /\ ~page.left /\ calls[i].op \in {"update", "claim"}
    /\ calls[i].state # "sent"
    /\ LET p == [page EXCEPT !.busy = @ \ {"saving", "status"}]
       IN  Continue(i, IF calls[i].state = "ok"
                       THEN [p EXCEPT !.row = Body(i)] ELSE p, <<>>)

NoteSaved(i) ==
    /\ At("lead") /\ ~page.left
    /\ LET p == [page EXCEPT !.busy = @ \ {"saving", "note"}]
       IN  \/ Failed(i, "note") /\ Continue(i, p, <<>>)
           \/ /\ Succeeded(i, "note") /\ page.kind = "website"
              /\ Continue(i, [p EXCEPT !.notes = @ + 1], <<>>)
           \/ /\ Succeeded(i, "note") /\ page.kind = "lead"
              /\ LET q == Reloading(p) IN Continue(i, q, Loads(q))

-----------------------------------------------------------------------------
(* The backend's side, one request at a time; the CRM lead is the user's.   *)

Owns == page.role = "ADMIN" \/ server.assigned = "me"
Sees == Owns \/ server.assigned = "nobody" \/ page.kind = "lead"

With(given) ==
    [server EXCEPT !.status = IF given.status = "keep" THEN @ ELSE given.status,
                   !.assigned = IF given.to = "keep" THEN @ ELSE given.to]

LeadServe(i) ==
    /\ At("lead")
    /\ \/ Asked(i, "lead") /\ Perform(i, server, TRUE, LeadOf(server))
       \/ Asked(i, "notes") /\ Perform(i, server, TRUE, server.notes)
       \/ /\ Asked(i, "open")
          /\ IF Sees THEN Perform(i, server, TRUE, [row |-> LeadOf(server),
                                                    notes |-> server.notes])
             ELSE Refuse(i)
       \/ /\ Asked(i, "update")
          /\ IF (page.kind = "lead" \/ Owns) /\ ~server.converted
             THEN LET s == With(calls[i].arg)
                  IN  Perform(i, s, TRUE, LeadOf(s))
             ELSE Refuse(i)
       \/ /\ Asked(i, "claim")
          /\ IF server.assigned = "nobody" /\ ~server.converted
             THEN LET s == [server EXCEPT !.assigned = "me"]
                  IN  Perform(i, s, TRUE, LeadOf(s))
             ELSE Refuse(i)
       \/ /\ Asked(i, "note")
          /\ IF page.kind = "lead" \/ Owns
             THEN Perform(i, [server EXCEPT !.notes = @ + 1], TRUE, <<>>)
             ELSE Refuse(i)
       \/ /\ Asked(i, "convert")
          /\ IF Owns /\ ~server.converted
             THEN Perform(i, [server EXCEPT !.converted = TRUE], TRUE, <<>>)
             ELSE Refuse(i)

OtherSales ==
    /\ At("lead") /\ CanDisturb
    /\ LET s == [server EXCEPT !.others = @ + 1]
       IN  \/ Elsewhere([s EXCEPT !.status = "WORKED"])
           \/ Elsewhere([s EXCEPT !.assigned = "other"])
           \/ Elsewhere([s EXCEPT !.converted = TRUE])
           \/ Elsewhere([s EXCEPT !.notes = @ + 1])

LeadStep ==
    \/ OpenLead \/ OpenWebsiteLead \/ handleStatusChange \/ handleAddComment
    \/ update \/ addNote \/ claim \/ convert \/ OtherSales

LeadReturn(i) ==
    \/ LeadLoaded(i) \/ NotesLoaded(i) \/ WebsiteLeadLoaded(i) \/ LeadSaved(i)
    \/ NoteSaved(i) \/ LeadConverted(i)

-----------------------------------------------------------------------------
(* Properties.                                                              *)

\* Once it has settled, a page that nobody interfered with shows the lead
\* and every note as stored.  Only a reload that meets a status call may
\* leave an older lead, never older notes.
SettledLeadIsCurrent ==
    (At("lead") /\ Ready(page.kind) /\ page.busy = {} /\ lost = 0
       /\ server.others = 0) =>
        /\ page.notes = server.notes
        /\ ~page.mixed => page.row = LeadOf(server)

\* The page offers what the backend allows: nothing that a lone user clicks
\* is refused, whatever was claimed, assigned or given away before.
LoneRequestAllowed ==
    (At("lead") /\ ~page.left /\ lost = 0 /\ server.others = 0 /\ ~page.mixed
       /\ "converting" \notin page.busy) =>
        \A i \in DOMAIN calls : calls[i].state # "failed"
=============================================================================
