------------------------------ MODULE NotesPage ------------------------------
(***************************************************************************)
(* The notes workspace (useNotesWorkspace): a search loads the orders and  *)
(* shipments to choose from, the choice loads the notes of the entity, and *)
(* a new note is shown at once and then loaded with the others.  Both      *)
(* loads drop the answers to all but their last request.                   *)
(***************************************************************************)
EXTENDS Browser, FiniteSets

\* One order, and two shipments that the search "narrow" does not match.
Entities == [ORDER |-> <<"o1">>, SHIPMENT |-> <<"s1", "s2">>]

Options(type, search) ==
    IF type = "SHIPMENT" /\ search = "narrow" THEN <<>> ELSE Entities[type]

NotesInit ==
    Mount("notes",
          [search |-> "", offered |-> "none", type |-> "ORDER",
           entity |-> "", key |-> "", notes |-> {}, busy |-> {},
           entitiesTracker |-> 0, notesTracker |-> 0, failed |-> FALSE],
          [notes |-> {<<"o1", 1>>, <<"s1", 1>>, <<"s2", 1>>}, others |-> 0])

\* The effect on the selected entity and the refresh key: an empty choice
\* empties the list and leaves the tracker alone; else the notes are loaded,
\* and those of another choice are removed first.
Choose(p, type, entity, refresh) ==
    LET q == [p EXCEPT !.type = type, !.entity = entity]
        changed == p.key # entity
    IN  IF entity = ""
        THEN [q EXCEPT !.key = "", !.notes = {}, !.busy = @ \ {"notes"},
                       !.failed = FALSE]
        ELSE IF <<p.type, p.entity>> = <<type, entity>> /\ ~refresh THEN q
        ELSE [q EXCEPT !.key = entity, !.busy = @ \union {"notes"},
                       !.notesTracker = BeginRequest(@), !.failed = FALSE,
                       !.notes = IF changed THEN {} ELSE @]

NotesLoad(p, q) ==
    IF q.notesTracker = p.notesTracker THEN <<>>
    ELSE <<Call("notes", q.entity, [id |-> q.notesTracker, changed |-> p.key # q.key])>>

EntitiesLoad(p) ==
    Ask([p EXCEPT !.busy = @ \union {"entities"},
                  !.entitiesTracker = BeginRequest(@)],
        <<Call("entities", p.search, BeginRequest(p.entitiesTracker))>>)

OpenNotes ==
    At("notes") /\ page.entitiesTracker = 0 /\ EntitiesLoad(page)

\* The page is a skeleton before the first entities, a card after a failure.
Browsing == At("notes") /\ page.offered \notin {"none", "failed"}

ChangeSearch ==
    /\ Browsing
    /\ \E search \in {"", "narrow"} \ {page.search} :
         EntitiesLoad([page EXCEPT !.search = search])

retryEntities ==
    /\ At("notes") /\ page.offered = "failed" /\ "entities" \notin page.busy
    /\ EntitiesLoad(page)

resolveNextNoteEntityId(type, current, search) ==
    LET options == Options(type, search)
    IN  IF Contains(options, current) THEN current
        ELSE IF options = <<>> THEN "" ELSE options[1]

EntitiesLoaded(i) ==
    /\ At("notes") /\ calls[i].op = "entities" /\ calls[i].state # "sent"
    /\ LET p == [page EXCEPT !.busy = @ \ {"entities"}]
           q == Choose([p EXCEPT !.offered = calls[i].arg], p.type,
                       resolveNextNoteEntityId(p.type, p.entity, calls[i].arg),
                       FALSE)
       IN  IF ~IsCurrentRequest(calls[i].kept, page.entitiesTracker)
           THEN Continue(i, page, <<>>)
           ELSE IF calls[i].state = "ok" THEN Continue(i, q, NotesLoad(p, q))
           ELSE Continue(i, [p EXCEPT !.offered = "failed", !.notes = {}], <<>>)

\* The two selects, locked while the entities are loaded.
handleEntityChange ==
    /\ Browsing /\ "entities" \notin page.busy
    /\ \E type \in DOMAIN Entities :
         LET options == Options(type, page.offered)
             choices == IF type = page.type THEN ToSet(options)
                        ELSE {resolveNextNoteEntityId(type, "", page.offered)}
         IN  \E entity \in choices :
               LET p == Choose(page, type, entity, FALSE)
               IN  /\ <<type, entity>> # <<page.type, page.entity>>
                   /\ Ask(p, NotesLoad(page, p))

\* A failure keeps the notes of a choice that did not change.
NotesAnswered(i) ==
    /\ At("notes") /\ calls[i].op = "notes" /\ calls[i].state # "sent"
    /\ LET p == [page EXCEPT !.busy = @ \ {"notes"},
                              !.failed = calls[i].state = "failed"]
       IN  Continue(i,
             IF ~IsCurrentRequest(calls[i].kept.id, page.notesTracker) THEN page
             ELSE IF calls[i].state = "ok" THEN [p EXCEPT !.notes = Body(i)]
             ELSE IF calls[i].kept.changed THEN [p EXCEPT !.notes = {}]
             ELSE p, <<>>)

\* The button of the error that a failed load leaves.
retryNotes ==
    /\ Browsing /\ page.failed
    /\ LET p == Choose(page, page.type, page.entity, TRUE)
       IN  Ask(p, NotesLoad(page, p))

handleSubmit ==
    /\ Browsing /\ page.busy \intersect {"entities", "submitting"} = {}
    /\ page.entity # ""
    /\ Ask([page EXCEPT !.busy = @ \union {"submitting"}],
           <<Call("create", page.entity, page.type)>>)

\* Mutant: the list is not loaded again.
NoteCreatedOnly(i) ==
    /\ At("notes") /\ calls[i].op = "create" /\ calls[i].state # "sent"
    /\ LET p == [page EXCEPT !.busy = @ \ {"submitting"}]
           q == Choose([p EXCEPT !.notes = @ \union {Body(i)}],
                       calls[i].kept, calls[i].arg, FALSE)
       IN  IF calls[i].state = "ok" THEN Continue(i, q, NotesLoad(p, q))
           ELSE Continue(i, p, <<>>)

\* The note is put first, and the form returns to the entity it was for.
NoteCreated(i) ==
    /\ At("notes") /\ calls[i].op = "create" /\ calls[i].state # "sent"
    /\ LET p == [page EXCEPT !.busy = @ \ {"submitting"}]
           q == Choose([p EXCEPT !.notes = @ \union {Body(i)}],
                       calls[i].kept, calls[i].arg, TRUE)
       IN  IF calls[i].state = "ok" THEN Continue(i, q, NotesLoad(p, q))
           ELSE Continue(i, p, <<>>)

-----------------------------------------------------------------------------
NotesOf(entity) == {n \in server.notes : n[1] = entity}

NextNote(entity) == <<entity, Cardinality(NotesOf(entity)) + 1>>

NotesServe(i) ==
    /\ At("notes")
    /\ \/ Asked(i, "entities") /\ Perform(i, server, TRUE, <<>>)
       \/ Asked(i, "notes") /\ Perform(i, server, TRUE, NotesOf(calls[i].arg))
       \/ /\ Asked(i, "create")
          /\ LET n == NextNote(calls[i].arg)
             IN  Perform(i, [server EXCEPT !.notes = @ \union {n}], TRUE, n)

OtherNotes ==
    /\ At("notes") /\ CanDisturb
    /\ Elsewhere([notes |-> server.notes \union {NextNote("s1")},
                  others |-> server.others + 1])

NotesStep ==
    \/ OpenNotes \/ ChangeSearch \/ retryEntities \/ handleEntityChange
    \/ retryNotes \/ handleSubmit \/ OtherNotes

NotesReturn(i) == EntitiesLoaded(i) \/ NotesAnswered(i) \/ NoteCreated(i)

-----------------------------------------------------------------------------
(* Properties.                                                              *)

\* However choices, searches and new notes overlap, a list that has settled
\* shows notes of the chosen entity only.  Not so without a choice: the load
\* of the last one may still fill the list under "No record selected".
NotesBelong ==
    (Browsing /\ page.busy = {} /\ page.entity # "") =>
        \A n \in page.notes : n[1] = page.entity

\* Undisturbed and without failures, it shows all of them: also those that
\* were added while the list was being loaded.
NotesComplete ==
    (Browsing /\ page.busy = {} /\ page.entity # "" /\ server.others = 0
       /\ lost = 0) => page.notes = NotesOf(page.entity)
=============================================================================
