----------------------------- MODULE Replacements -----------------------------
(***************************************************************************)
(* ReplacementsService.create and update.  The details that a replacement  *)
(* in transit needs are checked on the merge of the update with the row as *)
(* read; the update then writes the given fields alone.                    *)
(***************************************************************************)
EXTENDS FulfilmentRows

\* The fields given; an empty text clears its field (FALSE).
ReplacementInputs ==
    {[f \in given |-> value[f]] :
        given \in SUBSET {"status", "proNumber", "carrierName"},
        value \in [status : {"AGREED", "IN_TRANSIT"}, proNumber : BOOLEAN,
                   carrierName : BOOLEAN]}

NoReplacement == [status |-> "NONE", proNumber |-> FALSE, carrierName |-> FALSE]

ensureTransitDetails(row) ==
    row.status = "IN_TRANSIT" => row.carrierName /\ row.proNumber

\* create; the reads of the order and the shipment cannot fail, as neither is
\* ever deleted.  One replacement is modelled.
BeginCreateReplacement(r) ==
    /\ req[r].step = "idle"
    /\ replacement = NoReplacement
    /\ \E in \in ReplacementInputs :
          /\ ensureTransitDetails(Merge([NoReplacement EXCEPT !.status = "AGREED"], in))
          /\ Arrive(r, Slot("create replacement", "insert", in, Nothing))
    /\ UNCHANGED <<order, shipments, sheets, extras, replacement, recorded, faults>>

InsertReplacement(r) ==
    /\ At(r, "create replacement", "insert")
    /\ replacement = NoReplacement
    /\ replacement' = Merge([NoReplacement EXCEPT !.status = "AGREED"], req[r].in)
    /\ Goto(r, "note")
    /\ UNCHANGED <<order, shipments, sheets, extras, recorded, faults>>

\* update: findOne, the merge, and buildUpdateSummary, which refuses an update
\* that changes nothing.
BeginUpdateReplacement(r) ==
    /\ req[r].step = "idle"
    /\ replacement # NoReplacement
    /\ \E in \in ReplacementInputs :
          /\ ensureTransitDetails(Merge(replacement, in))
          /\ Merge(replacement, in) # replacement
          /\ Arrive(r, Slot("update replacement", "write", in, Nothing))
    /\ UNCHANGED <<order, shipments, sheets, extras, replacement, recorded, faults>>

\* One UPDATE of the given fields, with its history row.
WriteReplacement(r) ==
    /\ At(r, "update replacement", "write")
    /\ replacement' = Merge(replacement, req[r].in)
    /\ Goto(r, "note")
    /\ UNCHANGED <<order, shipments, sheets, extras, recorded, faults>>

\* recordTrackingNotes and the cache.
NoteReplacement(r) ==
    /\ req[r].kind \in {"create replacement", "update replacement"}
    /\ req[r].step = "note"
    /\ Record(r)
    /\ Goto(r, "done")
    /\ UNCHANGED <<order, shipments, sheets, extras, replacement, faults>>

KeepReplacement(r) ==
    \/ BeginCreateReplacement(r) \/ InsertReplacement(r)
    \/ BeginUpdateReplacement(r) \/ WriteReplacement(r)
    \/ NoteReplacement(r)
=============================================================================
