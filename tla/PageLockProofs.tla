---------------------------- MODULE PageLockProofs ----------------------------
(***************************************************************************)
(* No lock outlives its call: whatever a page disables or shows as loading *)
(* while it waits belongs to a call under way whose continuation releases  *)
(* it.  Every page of Workspace keeps this for each of its locks.          *)
(***************************************************************************)
EXTENDS WorkspaceProofs, SequenceTheorems

-----------------------------------------------------------------------------
(* Locks.  A lock is opened by the continuation of a call under way, if the *)
(* page still is as that continuation remembers it.                         *)

SigningOpens(c, l, p) ==
    \/ l = "loading" /\ c.op = "view"
    \/ l = "accepting" /\ c.op = "accept"
    \/ l = "submitting" /\ c.op \in {"sign", "look"}

ListOpens(c, l, p) ==
    \/ l = "loading" /\ c.op = "list" /\ c.kept = p.tracker
    \/ l = "exporting" /\ c.op = "export"

ShipmentOpens(c, l, p) ==
    \/ l = "loading" /\ c.op = "shipment" /\ c.arg = "opened" /\ c.kept = p.tracker
    \/ l = "updating" /\ c.op = "status"
    \/ l = "saving" /\ (c.op \in {"extra", "base"} \/ (c.op = "shipment" /\ c.arg = "saved"))

LeadOpens(c, l, p) ==
    \/ l = "lead" /\ (c.op = "open" \/ (c.op = "lead" /\ c.kept = p.generation))
    \/ l = "notes" /\ c.op = "notes" /\ c.kept = p.generation
    \/ l = "status" /\ c.op \in {"update", "claim"}
    \/ l = "saving" /\ c.op \in {"update", "claim", "note"}
    \/ l = "note" /\ c.op = "note"
    \/ l = "converting" /\ c.op = "convert"

NotesOpens(c, l, p) ==
    \/ l = "entities" /\ c.op = "entities" /\ c.kept = p.entitiesTracker
    \/ l = "notes" /\ c.op = "notes" /\ c.kept.id = p.notesTracker
    \/ l = "submitting" /\ c.op = "create"

CostsOpens(c, l, p) ==
    \/ l = "shipments" /\ c.op = "shipments"
    \/ l = "context" /\ c.op = "cost" /\ c.kept = p.tracker
    \/ l = "saving" /\ c.op = "save"

\* The panel that made the call is still on the screen.
OrderOpens(c, l, p) ==
    /\ c.kept = p.tracker
    /\ \/ l = "order" /\ c.op = "order"
       \/ l = "details" /\ c.op = "full"
       \/ l = "downloading" /\ c.op = "full" /\ c.arg = "downloading"
       \/ l = "defaults" /\ c.op = "defaults"
       \/ l = "saving" /\ c.op \in SaveOps
       \/ l = "resending" /\ c.op = "resend"
       \/ l = "resolving" /\ c.op \in {"cancel", "refund"}

BellOpens(c, l, p) ==
    \/ c.op = "refresh" /\ l = c.kept.lock
    \/ l = "mutating" /\ c.op \in {"markAll", "clearAll", "clearGroup", "markGroup"}

AccountOps == {"create", "update", "access", "delete"}

UsersOpens(c, l, p) ==
    \/ c.op = "users" /\ l \in {c.kept, "users"}
    \/ c.op \in AccountOps /\ l = c.kept

CreateOpens(c, l, p) ==
    /\ c.kept.mount = p.mount
    /\ (l = "number" /\ c.op = "number") \/ (l = "saving" /\ c.op = "create")

EditOpens(c, l, p) ==
    /\ c.kept = p.tracker
    /\ (l = "order" /\ c.op = "order") \/ (l = "saving" /\ c.op = "update")

DashboardOpens(c, l, p) == l \in Tabs /\ l = p.tab /\ c.op = l /\ c.kept = p.tracker

FormOpens(c, l, p) == l = "saving" /\ c.op = "save"

DetailOpens(c, l, p) ==
    /\ p.kind # "left"
    /\ \/ l = "order" /\ c.op = "order" /\ c.kept = p.tracker
       \/ l = "notes" /\ c.op = "notes" /\ c.kept = p.run
       \/ l = "saving" /\ c.op = "note" /\ (p.kind = "workspace" => c.kept = p.mount)
       \/ /\ l = "replacing" /\ c.op \in {"replace", "refresh"} /\ c.kept = p.mount
          /\ p.kind \in {"order", "shipment"}
       \/ l = "shipping" /\ c.op = "ship" /\ c.kept = p.mount /\ p.kind = "workspace"
       \/ l = "updating" /\ c.op \in {"status", "update"}
       \/ l = "loading" /\ c.op = "replacement"

QueryOpens(c, l, p) == l = "loading" /\ c.op = "rows"

Opens(m, c, l, p) ==
    \/ m = "signing" /\ SigningOpens(c, l, p)
    \/ m = "list" /\ ListOpens(c, l, p)
    \/ m = "shipment" /\ ShipmentOpens(c, l, p)
    \/ m = "lead" /\ LeadOpens(c, l, p)
    \/ m = "notes" /\ NotesOpens(c, l, p)
    \/ m = "costs" /\ CostsOpens(c, l, p)
    \/ m = "order" /\ OrderOpens(c, l, p)
    \/ m = "bell" /\ BellOpens(c, l, p)
    \/ m = "users" /\ UsersOpens(c, l, p)
    \/ m = "create" /\ CreateOpens(c, l, p)
    \/ m = "edit" /\ EditOpens(c, l, p)
    \/ m = "dashboard" /\ DashboardOpens(c, l, p)
    \/ m = "form" /\ FormOpens(c, l, p)
    \/ m = "detail" /\ DetailOpens(c, l, p)
    \/ m = "query" /\ QueryOpens(c, l, p)

\* Locks that need no call.
Alone(m, p) ==
    IF m = "signing" THEN {"photo"}
    ELSE IF m = "create" THEN {"models"}
    ELSE IF m = "dashboard" THEN Tabs \ {p.tab} ELSE {}

Locked(m, p, H) ==
    \A l \in p.busy : l \in Alone(m, p) \/ \E c \in H : Opens(m, c, l, p)

LocksOf(m, fields) ==
    At(m) => Known(calls) /\ fields \subseteq DOMAIN page /\ Locked(m, page, Held(calls))

SigningLocks == LocksOf("signing", {"busy"})

ListParts == {"busy", "tracker"}

ListLocks == LocksOf("list", ListParts)

ShipmentParts == {"busy", "tracker", "row"}

\* Nothing else is done before the page has been loaded.
ShipmentRest(p, H) ==
    /\ p.tracker \in Nat
    /\ p.tracker = 0 => p.row = NoShipment /\ H = {}
    /\ "loading" \in p.busy =>
          p.row = NoShipment /\ \A c \in H : c.op = "shipment" /\ c.arg = "opened"

ShipmentLocks ==
    /\ LocksOf("shipment", ShipmentParts)
    /\ At("shipment") => ShipmentRest(page, Held(calls))

LeadParts == {"busy", "generation", "kind"}

LeadLocks == LocksOf("lead", LeadParts)

NotesParts == {"busy", "entitiesTracker", "notesTracker"}

NotesLocks ==
    /\ LocksOf("notes", NotesParts)
    /\ At("notes") => page.notesTracker \in Nat

CostsParts == {"busy", "tracker"}

CostsLocks ==
    /\ LocksOf("costs", CostsParts)
    /\ At("costs") => page.tracker \in Nat

OrderParts == {"busy", "tracker", "form", "popup"}

OrderLocks ==
    /\ LocksOf("order", OrderParts)
    /\ At("order") => /\ page.form \in SaveOps \union {"none"}
                      /\ page.popup \in {"cancel", "refund", "none"}

BellLocks == LocksOf("bell", {"busy"})

AccountLocks == {"account", "status", "deleting", "creating"}

AccountsCall(c) == c.op = "users" \/ (c.op \in AccountOps /\ c.kept \in AccountLocks)

UsersLocks ==
    /\ LocksOf("users", {"busy"})
    /\ At("users") => \A c \in Held(calls) : AccountsCall(c)

CreateParts == {"busy", "mount", "open"}

CreateLocks ==
    /\ LocksOf("create", CreateParts)
    /\ At("create") => page.open \/ page.busy = {}

EditParts == {"busy", "tracker", "open"}

EditLocks ==
    /\ LocksOf("edit", EditParts)
    /\ At("edit") => page.open \/ page.busy = {}

DashboardParts == {"busy", "tracker", "tab"}

DashboardLocks ==
    /\ LocksOf("dashboard", DashboardParts)
    /\ At("dashboard") => page.tab \in Tabs /\ page.busy \subseteq Tabs

FormLocks == LocksOf("form", {"busy"})

\* The calls that only one kind of page makes.
KindFits(op, kind) ==
    /\ op \in {"replacement", "update"} => kind = "replacement"
    /\ op = "ship" => kind \in {"workspace", "left"}
    /\ op \in {"replace", "refresh"} => kind \in {"order", "shipment", "left"}

DetailParts == {"busy", "kind", "tracker", "run", "mount"}

DetailLocks ==
    /\ LocksOf("detail", DetailParts)
    /\ At("detail") => \A c \in Held(calls) : KindFits(c.op, page.kind)

QueryLocks == LocksOf("query", {"busy"})

-----------------------------------------------------------------------------
(* A lock stays held while its call is under way, or a new one opens it.    *)

\* The locks of the page q that p becomes: each needs no call, is opened by
\* one of the new calls N, or was one of p that none of the calls G that are
\* gone opened and those of H still open.
Passed(m, p, q, H, N, G) ==
    \A l \in q.busy :
        \/ l \in Alone(m, q)
        \/ \E c \in N : Opens(m, c, l, q)
        \/ /\ l \in p.busy /\ l \notin Alone(m, p)
           /\ \A c \in G : ~Opens(m, c, l, p)
           /\ \A c \in H : Opens(m, c, l, p) => Opens(m, c, l, q)

LEMMA LocksPass ==
    ASSUME NEW m, NEW p, NEW q, NEW H, NEW N, NEW G, NEW J, Locked(m, p, H),
           Passed(m, p, q, H, N, G), N \subseteq J, \A c \in H : c \in G \/ c \in J
    PROVE  Locked(m, q, J)
  BY DEF Locked, Passed

\* How far a call is does not matter.
LEMMA SameOpens ==
    ASSUME NEW c, NEW d, Same(c, d), NEW m, NEW l, NEW p, Opens(m, c, l, p)
    PROVE  Opens(m, d, l, p)
<1>1. ListOpens(c, l, p) => ListOpens(d, l, p)
  BY DEF Same, ListOpens
<1>2. ShipmentOpens(c, l, p) => ShipmentOpens(d, l, p)
  BY DEF Same, ShipmentOpens
<1>3. LeadOpens(c, l, p) => LeadOpens(d, l, p)
  BY DEF Same, LeadOpens
<1>4. NotesOpens(c, l, p) => NotesOpens(d, l, p)
  BY DEF Same, NotesOpens
<1>5. CostsOpens(c, l, p) => CostsOpens(d, l, p)
  BY DEF Same, CostsOpens
<1>6. OrderOpens(c, l, p) => OrderOpens(d, l, p)
  BY DEF Same, OrderOpens
<1>7. BellOpens(c, l, p) => BellOpens(d, l, p)
  BY DEF Same, BellOpens
<1>8. UsersOpens(c, l, p) => UsersOpens(d, l, p)
  BY DEF Same, UsersOpens
<1>9. CreateOpens(c, l, p) => CreateOpens(d, l, p)
  BY DEF Same, CreateOpens
<1>10. EditOpens(c, l, p) => EditOpens(d, l, p)
  BY DEF Same, EditOpens
<1>11. DashboardOpens(c, l, p) => DashboardOpens(d, l, p)
  BY DEF Same, DashboardOpens
<1>12. FormOpens(c, l, p) => FormOpens(d, l, p)
  BY DEF Same, FormOpens
<1>13. DetailOpens(c, l, p) => DetailOpens(d, l, p)
  BY DEF Same, DetailOpens
<1>14. QueryOpens(c, l, p) => QueryOpens(d, l, p)
  BY DEF Same, QueryOpens
<1>15. SigningOpens(c, l, p) => SigningOpens(d, l, p)
  BY DEF Same, SigningOpens
<1> QED
  BY <1>1, <1>2, <1>3, <1>4, <1>5, <1>6, <1>7, <1>8, <1>9, <1>10, <1>11, <1>12, <1>13,
     <1>14, <1>15 DEF Opens

\* What was performed or lost.
Performed(i) == \E s, ok, b : Perform(i, s, ok, b)

\* The calls are the same, however far they are.
Unmoved(H, J) ==
    /\ \A d \in J : \E c \in H : Same(c, d)
    /\ \A c \in H : \E d \in J : Same(c, d)

LEMMA UnmovedLocks ==
    ASSUME NEW m, NEW p, NEW H, NEW J, Locked(m, p, H), Unmoved(H, J)
    PROVE  Locked(m, p, J)
<1>1. \A l, c, d : Same(c, d) /\ Opens(m, c, l, p) => Opens(m, d, l, p)
  BY SameOpens
<1> QED
  BY <1>1 DEF Locked, Unmoved

\* The call i gets further.
Advances(i) ==
    /\ \E d : /\ IsCall(d) /\ Same(calls[i], d)
             /\ calls' = [calls EXCEPT ![i] = d]
    /\ page' = page /\ mounted' = mounted

LEMMA AdvancedUnmoved ==
    ASSUME Known(calls), NEW i \in DOMAIN calls, Advances(i)
    PROVE  /\ Known(calls') /\ page' = page /\ mounted' = mounted
           /\ Unmoved(Held(calls), Held(calls'))
<1>1. PICK d : IsCall(d) /\ Same(calls[i], d) /\ calls' = [calls EXCEPT ![i] = d]
  BY DEF Advances
<1>2. Known(calls')
  BY <1>1, ReplacedCall
<1>3. PICK S : calls \in Seq(S)
  BY DEF Known, IsCalls
<1>4. /\ DOMAIN calls' = DOMAIN calls
      /\ \A j \in DOMAIN calls : calls'[j] = IF j = i THEN d ELSE calls[j]
  BY <1>1, <1>3
<1>5. \A c : Same(c, c)
  BY DEF Same
<1>6. Unmoved(Held(calls), Held(calls'))
  BY <1>1, <1>4, <1>5 DEF Unmoved, Held
<1> QED
  BY <1>2, <1>6 DEF Advances

LEMMA AnswerAdvances ==
    ASSUME Known(calls), NEW i \in DOMAIN calls, NEW state, NEW body,
           calls' = AnsweredAt(calls, i, state, body), page' = page, mounted' = mounted
    PROVE  Advances(i)
<1>1. IsCalls(calls) /\ IsCall(calls[i])
  BY DEF Known
<1>2. PICK d : /\ calls' = [calls EXCEPT ![i] = d] /\ IsCall(d)
               /\ d.op = calls[i].op /\ d.arg = calls[i].arg
               /\ d.kept = calls[i].kept
  BY <1>1, AnsweredCall
<1>3. Same(calls[i], d)
  BY <1>2 DEF Same
<1> QED
  BY <1>2, <1>3 DEF Advances

LEMMA PerformedAdvances ==
    ASSUME Known(calls), NEW i \in DOMAIN calls, Performed(i)
    PROVE  Advances(i)
<1>1. PICK s, ok, b : Perform(i, s, ok, b)
  BY DEF Performed
<1>2. PICK state, body : /\ state = IF ok THEN "ok" ELSE "failed"
                         /\ body = IF ok THEN <<b>> ELSE <<>>
  OBVIOUS
<1>3. /\ calls' = AnsweredAt(calls, i, state, body) /\ page' = page
      /\ mounted' = mounted
  BY <1>1, <1>2 DEF Perform, AnsweredAt
<1> QED
  BY <1>3, AnswerAdvances

LEMMA LostAdvances ==
    ASSUME Known(calls), NEW i \in DOMAIN calls, LoseCall(i)
    PROVE  Advances(i)
<1>1. PICK state, body : state = "failed" /\ body = <<>>
  OBVIOUS
<1>2. /\ calls' = AnsweredAt(calls, i, state, body) /\ page' = page
      /\ mounted' = mounted
  BY <1>1 DEF LoseCall, AnsweredAt
<1> QED
  BY <1>2, AnswerAdvances

\* Only the state of the call is set.
LEMMA MarkAdvances ==
    ASSUME Known(calls), NEW i \in DOMAIN calls, NEW state,
           calls' = [calls EXCEPT ![i].state = state], page' = page, mounted' = mounted
    PROVE  Advances(i)
<1>1. PICK op, arg, kept, before, body :
         calls[i] = [op |-> op, arg |-> arg, kept |-> kept, state |-> before, body |-> body]
  BY DEF Known, IsCall
<1>2. PICK d : d = [op |-> op, arg |-> arg, kept |-> kept, state |-> state, body |-> body]
  OBVIOUS
<1>3. d = [calls[i] EXCEPT !.state = state]
  BY <1>1, <1>2
<1>4. calls' = [calls EXCEPT ![i] = d]
  BY <1>3
<1>5. IsCall(d) /\ Same(calls[i], d)
  BY <1>1, <1>2 DEF IsCall, Same
<1> QED
  BY <1>4, <1>5 DEF Advances

\* The page becomes q, the call i is gone if it is continued.
Turns(q, N, G) ==
    /\ Known(calls') /\ page' = q /\ mounted' = mounted
    /\ Held(calls') \subseteq Held(calls) \union N
    /\ N \subseteq Held(calls')
    /\ \A c \in Held(calls) : c \in G \/ c \in Held(calls')

LEMMA TurnedLocks ==
    ASSUME NEW m, NEW q, NEW N, NEW G, Turns(q, N, G), Locked(m, page, Held(calls)),
           Passed(m, page, q, Held(calls), N, G)
    PROVE  Locked(m, q, Held(calls'))
<1>1. PICK p, H : p = page /\ H = Held(calls)
  OBVIOUS
<1> QED
  BY <1>1, LocksPass DEF Turns

LEMMA OneAsked ==
    ASSUME Known(calls), NEW q, NEW c, IsCall(c), Ask(q, <<c>>)
    PROVE  Turns(q, {c}, {})
<1>1. PICK new : new = <<c>>
  OBVIOUS
<1>2. new \in Seq({c}) /\ Held(new) = {c}
  BY <1>1, HeldOne
<1>3. \A x \in Held(new) : IsCall(x)
  BY <1>2
<1>4. Ask(q, new)
  BY <1>1
<1>5. /\ Known(calls') /\ Held(calls') = Held(calls) \union Held(new)
      /\ page' = q /\ mounted' = mounted
  BY <1>2, <1>3, <1>4, HeldAsked
<1> QED
  BY <1>2, <1>5 DEF Turns

LEMMA NoneAsked ==
    ASSUME Known(calls), NEW q, Become(q)
    PROVE  Turns(q, {}, {})
<1>1. calls' = calls /\ page' = q /\ mounted' = mounted
  BY DEF Become
<1> QED
  BY <1>1 DEF Turns, Held, Known, IsCalls

LEMMA OneContinued ==
    ASSUME Known(calls), NEW i \in DOMAIN calls, NEW q, NEW c, IsCall(c),
           Continue(i, q, <<c>>)
    PROVE  Turns(q, {c}, {calls[i]})
<1>1. PICK new : new = <<c>>
  OBVIOUS
<1>2. new \in Seq({c}) /\ Held(new) = {c}
  BY <1>1, HeldOne
<1>3. \A x \in Held(new) : IsCall(x)
  BY <1>2
<1>4. Continue(i, q, new)
  BY <1>1
<1>5. /\ Known(calls') /\ Held(calls') \subseteq Held(calls) \union Held(new)
      /\ Held(new) \subseteq Held(calls')
      /\ \A x \in Held(calls) : x = calls[i] \/ x \in Held(calls')
      /\ page' = q /\ mounted' = mounted
  BY <1>2, <1>3, <1>4, HeldContinued
<1> QED
  BY <1>2, <1>5 DEF Turns

LEMMA NoneContinued ==
    ASSUME Known(calls), NEW i \in DOMAIN calls, NEW q, Continue(i, q, <<>>)
    PROVE  Turns(q, {}, {calls[i]})
<1>1. PICK new : new = <<>>
  OBVIOUS
<1>2. new \in Seq({}) /\ Held(new) = {}
  BY <1>1, HeldNone
<1>3. \A x \in Held(new) : IsCall(x)
  BY <1>2
<1>4. Continue(i, q, new)
  BY <1>1
<1>5. /\ Known(calls') /\ Held(calls') \subseteq Held(calls) \union Held(new)
      /\ Held(new) \subseteq Held(calls')
      /\ \A x \in Held(calls) : x = calls[i] \/ x \in Held(calls')
      /\ page' = q /\ mounted' = mounted
  BY <1>2, <1>3, <1>4, HeldContinued
<1> QED
  BY <1>2, <1>5 DEF Turns

LEMMA ElsewhereTurns ==
    ASSUME Known(calls), NEW s, Elsewhere(s)
    PROVE  Turns(page, {}, {})
<1>1. calls' = calls /\ page' = page /\ mounted' = mounted
  BY DEF Elsewhere
<1> QED
  BY <1>1 DEF Turns, Held, Known, IsCalls

LEMMA CallSays ==
    \A op, arg, kept : /\ IsCall(Call(op, arg, kept))
                       /\ Call(op, arg, kept).op = op
                       /\ Call(op, arg, kept).arg = arg
                       /\ Call(op, arg, kept).kept = kept
  BY DEF Call, IsCall

\* The page p is left as it is, but for fields that no lock is about.
LEMMA StillPassed ==
    ASSUME NEW m, NEW p, NEW H, NEW N, Locked(m, p, H)
    PROVE  Passed(m, p, p, H, N, {})
  BY DEF Locked, Passed

Goes(m, fields) ==
    \E q, N, G : /\ Turns(q, N, G) /\ fields \subseteq DOMAIN q
                 /\ Passed(m, page, q, Held(calls), N, G)

LEMMA LocksGo ==
    ASSUME NEW m, NEW fields, At(m), LocksOf(m, fields), Goes(m, fields)
    PROVE  LocksOf(m, fields)'
<1>1. PICK q, N, G : /\ Turns(q, N, G) /\ fields \subseteq DOMAIN q
                     /\ Passed(m, page, q, Held(calls), N, G)
  BY DEF Goes
<1>2. Locked(m, q, Held(calls'))
  BY <1>1, TurnedLocks DEF LocksOf
<1>3. Known(calls') /\ page' = q
  BY <1>1 DEF Turns
<1> QED
  BY <1>1, <1>2, <1>3 DEF LocksOf

LEMMA LocksStay ==
    ASSUME NEW m, NEW fields, At(m), LocksOf(m, fields), NEW i \in DOMAIN calls,
           Advances(i)
    PROVE  LocksOf(m, fields)' /\ page' = page /\ Unmoved(Held(calls), Held(calls'))
<1>1. /\ Known(calls') /\ page' = page /\ mounted' = mounted
      /\ Unmoved(Held(calls), Held(calls'))
  BY AdvancedUnmoved DEF LocksOf
<1>2. Locked(m, page, Held(calls'))
  BY <1>1, UnmovedLocks DEF LocksOf
<1> QED
  BY <1>1, <1>2 DEF LocksOf

LEMMA LocksRest ==
    ASSUME NEW m, NEW fields, LocksOf(m, fields), UNCHANGED vars
    PROVE  LocksOf(m, fields)'
  BY DEF LocksOf, vars, At, Known, IsCalls, Held, Locked, Opens

\* The ways in which a page goes on.
LEMMA AskGoes ==
    ASSUME NEW m, NEW fields, Known(calls), NEW q, NEW c, IsCall(c), Ask(q, <<c>>),
           fields \subseteq DOMAIN q, NEW p, NEW H, p = page, H = Held(calls),
           Passed(m, p, q, H, {c}, {})
    PROVE  /\ Goes(m, fields) /\ page' = q
           /\ Held(calls') \subseteq Held(calls) \union {c}
<1>1. Turns(q, {c}, {})
  BY OneAsked
<1> QED
  BY <1>1 DEF Goes, Turns

LEMMA BecomeGoes ==
    ASSUME NEW m, NEW fields, Known(calls), NEW q, Become(q),
           fields \subseteq DOMAIN q, NEW p, NEW H, p = page, H = Held(calls),
           Passed(m, p, q, H, {}, {})
    PROVE  /\ Goes(m, fields) /\ page' = q
           /\ Held(calls') \subseteq Held(calls)
<1>1. Turns(q, {}, {})
  BY NoneAsked
<1> QED
  BY <1>1 DEF Goes, Turns

LEMMA AskNoneGoes ==
    ASSUME NEW m, NEW fields, Known(calls), NEW q, Ask(q, <<>>),
           fields \subseteq DOMAIN q, NEW p, NEW H, p = page, H = Held(calls),
           Passed(m, p, q, H, {}, {})
    PROVE  /\ Goes(m, fields) /\ page' = q
           /\ Held(calls') \subseteq Held(calls)
<1>1. PICK new : new = <<>>
  OBVIOUS
<1>2. new \in Seq({}) /\ Held(new) = {}
  BY <1>1, HeldNone
<1>3. \A x \in Held(new) : IsCall(x)
  BY <1>2
<1>4. Ask(q, new)
  BY <1>1
<1>5. /\ Known(calls') /\ Held(calls') = Held(calls) \union Held(new)
      /\ page' = q /\ mounted' = mounted
  BY <1>2, <1>3, <1>4, HeldAsked
<1>6. Turns(q, {}, {})
  BY <1>2, <1>5 DEF Turns
<1> QED
  BY <1>6 DEF Goes, Turns

LEMMA ContinueGoes ==
    ASSUME NEW m, NEW fields, Known(calls), NEW i \in DOMAIN calls, NEW q, Continue(i, q, <<>>),
           fields \subseteq DOMAIN q, NEW p, NEW H, NEW g, p = page, H = Held(calls),
           g = calls[i], Passed(m, p, q, H, {}, {g})
    PROVE  /\ Goes(m, fields) /\ page' = q
           /\ Held(calls') \subseteq Held(calls)
<1>1. Turns(q, {}, {g})
  BY NoneContinued
<1> QED
  BY <1>1 DEF Goes, Turns

LEMMA ContinueOneGoes ==
    ASSUME NEW m, NEW fields, Known(calls), NEW i \in DOMAIN calls, NEW q, NEW c, IsCall(c),
           Continue(i, q, <<c>>),
           fields \subseteq DOMAIN q, NEW p, NEW H, NEW g, p = page, H = Held(calls),
           g = calls[i], Passed(m, p, q, H, {c}, {g})
    PROVE  /\ Goes(m, fields) /\ page' = q
           /\ Held(calls') \subseteq Held(calls) \union {c}
<1>1. Turns(q, {c}, {g})
  BY OneContinued
<1> QED
  BY <1>1 DEF Goes, Turns

LEMMA AskTwoGoes ==
    ASSUME NEW m, NEW fields, Known(calls), NEW q, NEW c, NEW d, IsCall(c), IsCall(d),
           Ask(q, <<c, d>>), fields \subseteq DOMAIN q, NEW p, NEW H, p = page,
           H = Held(calls), Passed(m, p, q, H, {c, d}, {})
    PROVE  /\ Goes(m, fields) /\ page' = q
           /\ Held(calls') \subseteq Held(calls) \union {c, d}
<1>1. PICK new : new = <<c, d>>
  OBVIOUS
<1>2. new \in Seq({c, d}) /\ Held(new) = {c, d}
  <2>1. DOMAIN new = {1, 2} /\ new[1] = c /\ new[2] = d
    BY <1>1
  <2> QED
    BY <1>1, <2>1 DEF Held
<1>3. \A x \in Held(new) : IsCall(x)
  BY <1>2
<1>4. Ask(q, new)
  BY <1>1
<1>5. /\ Known(calls') /\ Held(calls') = Held(calls) \union Held(new)
      /\ page' = q /\ mounted' = mounted
  BY <1>2, <1>3, <1>4, HeldAsked
<1>6. Turns(q, {c, d}, {})
  BY <1>2, <1>5 DEF Turns
<1> QED
  BY <1>6 DEF Goes, Turns

LEMMA ContinueTwoGoes ==
    ASSUME NEW m, NEW fields, Known(calls), NEW i \in DOMAIN calls, NEW q, NEW c, NEW d,
           IsCall(c), IsCall(d), Continue(i, q, <<c, d>>),
           fields \subseteq DOMAIN q, NEW p, NEW H, NEW g, p = page, H = Held(calls),
           g = calls[i], Passed(m, p, q, H, {c, d}, {g})
    PROVE  /\ Goes(m, fields) /\ page' = q
           /\ Held(calls') \subseteq Held(calls) \union {c, d}
<1>1. PICK new : new = <<c, d>>
  OBVIOUS
<1>2. new \in Seq({c, d}) /\ Held(new) = {c, d}
  <2>1. DOMAIN new = {1, 2} /\ new[1] = c /\ new[2] = d
    BY <1>1
  <2> QED
    BY <1>1, <2>1 DEF Held
<1>3. \A x \in Held(new) : IsCall(x)
  BY <1>2
<1>4. Continue(i, q, new)
  BY <1>1
<1>5. /\ Known(calls') /\ Held(calls') \subseteq Held(calls) \union Held(new)
      /\ Held(new) \subseteq Held(calls')
      /\ \A x \in Held(calls) : x = calls[i] \/ x \in Held(calls')
      /\ page' = q /\ mounted' = mounted
  BY <1>2, <1>3, <1>4, HeldContinued
<1>6. Turns(q, {c, d}, {g})
  BY <1>2, <1>5 DEF Turns
<1> QED
  BY <1>6 DEF Goes, Turns

LEMMA ElsewhereGoes ==
    ASSUME NEW m, NEW fields, LocksOf(m, fields), At(m), NEW s, Elsewhere(s)
    PROVE  Goes(m, fields) /\ page' = page /\ Held(calls') = Held(calls)
<1>1. Turns(page, {}, {}) /\ fields \subseteq DOMAIN page /\ Locked(m, page, Held(calls))
  BY ElsewhereTurns DEF LocksOf
<1>2. PICK p, H : p = page /\ H = Held(calls)
  OBVIOUS
<1>3. Passed(m, p, p, H, {}, {})
  BY <1>1, <1>2, StillPassed
<1>4. page' = page /\ Held(calls') = Held(calls)
  BY DEF Elsewhere, Held
<1> QED
  BY <1>1, <1>2, <1>3, <1>4 DEF Goes

-----------------------------------------------------------------------------
(* The signing page.                                                        *)

LEMMA SigningLockSteps ==
    ASSUME At("signing"), SigningLocks, SigningStep
    PROVE  Goes("signing", {"busy"})
<1>1. {"busy"} \subseteq DOMAIN page /\ Known(calls) /\ Locked("signing", page, Held(calls))
  BY DEF SigningLocks, LocksOf
<1>2. PICK r, H : r = page /\ H = Held(calls)
  OBVIOUS
<1>3. ASSUME NEW q, Become(q), {"busy"} \subseteq DOMAIN q,
             q.busy \subseteq r.busy \union {"photo"}
      PROVE  Goes("signing", {"busy"})
  <2>1. Passed("signing", r, q, H, {}, {})
    BY <1>3 DEF Passed, Opens, SigningOpens, Alone
  <2> QED
    BY <1>1, <1>2, <1>3, <2>1, BecomeGoes
\* A handler that makes a call and sets the lock l for it.
<1>4. ASSUME NEW q, NEW c, NEW l, IsCall(c), Ask(q, <<c>>), {"busy"} \subseteq DOMAIN q,
             q.busy \subseteq r.busy \union {l}, SigningOpens(c, l, q)
      PROVE  Goes("signing", {"busy"})
  <2>1. Passed("signing", r, q, H, {c}, {})
    BY <1>4 DEF Passed, Opens, SigningOpens, Alone
  <2> QED
    BY <1>1, <1>2, <1>4, <2>1, AskGoes
<1>5. ASSUME OpenLink PROVE Goes("signing", {"busy"})
  <2>1. PICK c, q : /\ c = Call("view", server.link, 0) /\ Ask(q, <<c>>)
                    /\ q = [page EXCEPT !.token = server.link, !.invoice = NothingLoaded,
                                        !.busy = {"loading"}, !.terms = FALSE,
                                        !.image = FALSE, !.photo = FALSE,
                                        !.told = "nothing", !.opened = TRUE]
    BY <1>5 DEF OpenLink
  <2>2. IsCall(c) /\ SigningOpens(c, "loading", q)
    BY <2>1, CallSays DEF SigningOpens
  <2>3. q.busy = {"loading"} /\ {"busy"} \subseteq DOMAIN q
    BY <1>1, <2>1
  <2> QED
    BY <1>4, <2>1, <2>2, <2>3
<1>6. ASSUME CheckTerms PROVE Goes("signing", {"busy"})
  <2>1. PICK c, q : /\ c = Call("accept", page.token, 0) /\ Ask(q, <<c>>)
                    /\ q = [page EXCEPT !.busy = @ \union {"accepting"}]
    BY <1>6 DEF CheckTerms
  <2>2. IsCall(c) /\ SigningOpens(c, "accepting", q)
    BY <2>1, CallSays DEF SigningOpens
  <2>3. q.busy = r.busy \union {"accepting"} /\ {"busy"} \subseteq DOMAIN q
    BY <1>1, <1>2, <2>1
  <2> QED
    BY <1>4, <2>1, <2>2, <2>3
<1>7. ASSUME submitSignature PROVE Goes("signing", {"busy"})
  <2>1. PICK c, q, a : /\ c = Call("sign", a, page.invoice) /\ Ask(q, <<c>>)
                       /\ q = [page EXCEPT !.busy = {"submitting"}, !.told = "nothing",
                                           !.invoice.status = "SIGNED"]
    BY <1>7 DEF submitSignature
  <2>2. IsCall(c) /\ SigningOpens(c, "submitting", q)
    BY <2>1, CallSays DEF SigningOpens
  <2>3. q.busy = {"submitting"} /\ {"busy"} \subseteq DOMAIN q
    BY <1>1, <2>1
  <2> QED
    BY <1>4, <2>1, <2>2, <2>3
<1>8. ASSUME Uncheck \/ saveSignatureFromModal \/ handlePhotoIdFile \/ PhotoIdReady
               \/ RemovePhotoId
      PROVE  Goes("signing", {"busy"})
  <2>1. PICK q : Become(q) /\ \/ \E a : q = [page EXCEPT !.terms = a]
                              \/ \E a : q = [page EXCEPT !.image = a]
                              \/ \E a : q = [page EXCEPT !.photo = a]
                              \/ q = [page EXCEPT !.busy = {"photo"}]
                              \/ \E a : q = [page EXCEPT !.photo = a,
                                                         !.busy = @ \ {"photo"}]
    BY <1>8 DEF Uncheck, saveSignatureFromModal, handlePhotoIdFile, PhotoIdReady,
       RemovePhotoId
  <2>2. {"busy"} \subseteq DOMAIN q /\ q.busy \subseteq r.busy \union {"photo"}
    BY <1>1, <1>2, <2>1
  <2> QED
    BY <1>3, <2>1, <2>2
<1>9. ASSUME Staff \/ OtherDevice PROVE Goes("signing", {"busy"})
  BY <1>9, ElsewhereGoes DEF Staff, OtherDevice, SigningLocks
<1> QED
  BY <1>5, <1>6, <1>7, <1>8, <1>9 DEF SigningStep

LEMMA SigningPerforms ==
    ASSUME NEW i, SigningServe(i)
    PROVE  Performed(i)
<1>1. Refuse(i) => Performed(i)
  BY DEF Performed, Refuse
<1>2. \A s, b : Perform(i, s, TRUE, b) => Performed(i)
  BY DEF Performed
<1> QED
  BY <1>1, <1>2 DEF SigningServe

LEMMA SigningLockReturns ==
    ASSUME At("signing"), SigningLocks, NEW i \in DOMAIN calls, SigningReturn(i)
    PROVE  Goes("signing", {"busy"})
<1>1. {"busy"} \subseteq DOMAIN page /\ Known(calls)
  BY DEF SigningLocks, LocksOf
<1>2. PICK r, H, g : r = page /\ H = Held(calls) /\ g = calls[i]
  OBVIOUS
<1>3. ASSUME NEW q, Continue(i, q, <<>>), {"busy"} \subseteq DOMAIN q,
             q.busy \subseteq r.busy, \A l \in q.busy : ~SigningOpens(g, l, r)
      PROVE  Goes("signing", {"busy"})
  <2>1. Passed("signing", r, q, H, {}, {g})
    BY <1>3 DEF Passed, Opens, SigningOpens, Alone
  <2> QED
    BY <1>1, <1>2, <1>3, <2>1, ContinueGoes
<1>4. \A row : "busy" \in DOMAIN syncInvoiceState(row)
               /\ syncInvoiceState(row).busy = page.busy
  BY <1>1 DEF syncInvoiceState
<1>5. ASSUME NEW q, Continue(i, q, <<>>), {"busy"} \subseteq DOMAIN q, q.busy = {}
      PROVE  Goes("signing", {"busy"})
  BY <1>3, <1>5
<1>6. ASSUME Opened(i) \/ Submitted(i) \/ Looked(i) PROVE Goes("signing", {"busy"})
  <2>1. PICK p, q : /\ Continue(i, q, <<>>) /\ "busy" \in DOMAIN p
                    /\ \/ q = [p EXCEPT !.busy = {}]
                       \/ \E a, b : q = [p EXCEPT !.invoice = a, !.told = b, !.busy = {}]
                       \/ \E a : q = [p EXCEPT !.told = a, !.busy = {}]
    BY ZenonT(60), <1>1, <1>4, <1>6 DEF Opened, Submitted, Looked
  <2>2. q.busy = {} /\ {"busy"} \subseteq DOMAIN q
    BY <2>1
  <2> QED
    BY <1>5, <2>1, <2>2
<1>7. ASSUME TermsAccepted(i) PROVE Goes("signing", {"busy"})
  <2>1. g.op = "accept"
    BY <1>2, <1>7 DEF TermsAccepted, Succeeded, Failed
  <2>2. PICK q : /\ Continue(i, q, <<>>)
                 /\ \/ \E row : q = [syncInvoiceState(row) EXCEPT
                                       !.terms = TRUE, !.busy = @ \ {"accepting"}]
                    \/ q = [page EXCEPT !.terms = FALSE, !.busy = @ \ {"accepting"}]
    BY <1>7 DEF TermsAccepted
  <2>3. q.busy = r.busy \ {"accepting"} /\ {"busy"} \subseteq DOMAIN q
    BY <1>1, <1>2, <1>4, <2>2
  <2>4. \A l \in q.busy : ~SigningOpens(g, l, r)
    BY <2>1, <2>3 DEF SigningOpens
  <2> QED
    BY <1>3, <2>2, <2>3, <2>4
<1>8. ASSUME SubmitFailed(i) PROVE Goes("signing", {"busy"})
  <2>1. PICK c : c = Call("look", page.token, calls[i].kept) /\ Continue(i, page, <<c>>)
    BY <1>8 DEF SubmitFailed
  <2>2. IsCall(c) /\ c.op = "look" /\ g.op = "sign"
    BY <1>2, <1>8, <2>1, CallSays DEF SubmitFailed, Failed
  <2>3. Passed("signing", r, r, H, {c}, {g})
    BY <2>2 DEF Passed, Opens, SigningOpens, Alone
  <2> QED
    BY <1>1, <1>2, <2>1, <2>2, <2>3, ContinueOneGoes
<1> QED
  BY <1>6, <1>7, <1>8 DEF SigningReturn

-----------------------------------------------------------------------------
(* The list page.                                                           *)

LEMMA ListReloads ==
    ASSUME NEW p, NEW q, NEW H, NEW G, NEW c, c.op = "list", c.kept = q.tracker,
           q.busy \subseteq p.busy \union {"loading"},
           \A g \in G : g.op # "export"
    PROVE  Passed("list", p, q, H, {c}, G)
  BY DEF Passed, Opens, ListOpens, Alone

LEMMA ListStays ==
    ASSUME NEW p, NEW q, NEW H, NEW N, NEW G, q.busy \subseteq p.busy,
           q.tracker = p.tracker,
           \A g \in G : \A l \in q.busy : ~ListOpens(g, l, p)
    PROVE  Passed("list", p, q, H, N, G)
  BY DEF Passed, Opens, ListOpens, Alone

\* The page that loads, and its call.
LEMMA ListLoads ==
    ASSUME NEW p, ListParts \subseteq DOMAIN p
    PROVE  /\ Loading(p).busy = p.busy \union {"loading"}
           /\ Loading(p).tracker = p.tracker + 1
           /\ ListParts \subseteq DOMAIN Loading(p)
           /\ IsCall(Load(p)) /\ Load(p).op = "list" /\ Load(p).kept = p.tracker + 1
  BY CallSays DEF ListParts, Loading, Load, BeginRequest

\* The same locks, the same tracker.
LikeList(p, q) ==
    ListParts \subseteq DOMAIN p =>
        ListParts \subseteq DOMAIN q /\ q.busy = p.busy /\ q.tracker = p.tracker

LEMMA ListFields ==
    /\ \A p, a, b : LikeList(p, [p EXCEPT !.filter = a, !.number = b])
    /\ \A p, a : LikeList(p, [p EXCEPT !.number = a])
    /\ \A p, a, b : LikeList(p, [p EXCEPT !.form = a, !.forms = b])
    /\ \A p, a : LikeList(p, [p EXCEPT !.form = a])
    /\ \A p, a : LikeList(p, [p EXCEPT !.saved = a])
    /\ \A p, a, b, c : LikeList(p, [p EXCEPT !.form = a, !.filter = b, !.number = c])
    /\ \A p, a : LikeList(p, [p EXCEPT !.shown = a])
    /\ \A p, a, b : LikeList(p, [p EXCEPT !.error = a, !.shown = b])
  BY DEF LikeList, ListParts

\* A page like p loads again.
LEMMA ListAgain ==
    ASSUME At("list"), ListLocks, NEW p, LikeList(page, p), Ask(Loading(p), <<Load(p)>>)
    PROVE  Goes("list", ListParts)
<1>1. ListParts \subseteq DOMAIN page /\ Known(calls)
  BY DEF ListLocks, LocksOf, ListParts
<1>2. ListParts \subseteq DOMAIN p /\ p.busy = page.busy
  BY <1>1 DEF LikeList
<1>3. PICK q, c : q = Loading(p) /\ c = Load(p)
  OBVIOUS
<1>4. /\ q.busy = p.busy \union {"loading"} /\ q.tracker = p.tracker + 1
      /\ ListParts \subseteq DOMAIN q
      /\ IsCall(c) /\ c.op = "list" /\ c.kept = p.tracker + 1
  BY <1>2, <1>3, ListLoads
<1>5. Turns(q, {c}, {})
  BY <1>1, <1>3, <1>4, OneAsked
<1>6. PICK r, H : r = page /\ H = Held(calls)
  OBVIOUS
<1>7. Passed("list", r, q, H, {c}, {})
  BY <1>2, <1>4, <1>6, ListReloads
<1> QED
  BY <1>4, <1>5, <1>6, <1>7 DEF Goes

LEMMA ListLockSteps ==
    ASSUME At("list"), ListLocks, ListStep
    PROVE  Goes("list", ListParts)
<1>1. ListParts \subseteq DOMAIN page /\ Known(calls) /\ Locked("list", page, Held(calls))
  BY DEF ListLocks, LocksOf, ListParts
<1>2. PICK r, H : r = page /\ H = Held(calls)
  OBVIOUS
<1>3. LikeList(page, page)
  BY DEF LikeList
<1>4. ASSUME NEW q, Become(q), LikeList(page, q)
      PROVE  Goes("list", ListParts)
  <2>1. Turns(q, {}, {})
    BY <1>1, <1>4, NoneAsked
  <2>2. q.busy = r.busy /\ q.tracker = r.tracker /\ ListParts \subseteq DOMAIN q
    BY <1>1, <1>2, <1>4 DEF LikeList
  <2>3. Passed("list", r, q, H, {}, {})
    BY <2>2, ListStays
  <2> QED
    BY <1>2, <2>1, <2>2, <2>3 DEF Goes
<1>5. ASSUME NEW q, NEW c, IsCall(c), Ask(q, <<c>>), ListParts \subseteq DOMAIN q,
             Passed("list", r, q, H, {c}, {})
      PROVE  Goes("list", ListParts)
  <2>1. Turns(q, {c}, {})
    BY <1>1, <1>5, OneAsked
  <2> QED
    BY <1>2, <1>5, <2>1 DEF Goes
<1>6. OpenList \/ handleRetry => Goes("list", ListParts)
  BY <1>3, ListAgain DEF OpenList, handleRetry
<1>7. ChangeFilter => Goes("list", ListParts)
  BY ListFields, ListAgain DEF ChangeFilter
<1>8. TurnPage => Goes("list", ListParts)
  BY ListFields, ListAgain DEF TurnPage
<1>9. OpenForm \/ CloseForm => Goes("list", ListParts)
  BY <1>4, ListFields DEF OpenForm, CloseForm
<1>10. ASSUME SubmitForm PROVE Goes("list", ListParts)
  <2>1. PICK c : IsCall(c) /\ Ask(page, <<c>>)
    BY <1>10, CallSays DEF SubmitForm
  <2>2. Passed("list", r, r, H, {c}, {})
    BY <1>1, <1>2, StillPassed
  <2> QED
    BY <1>1, <1>2, <1>5, <2>1, <2>2
<1>11. ASSUME handleExportExcel PROVE Goes("list", ListParts)
  <2>1. PICK q, c : /\ q = [page EXCEPT !.busy = @ \union {"exporting"}]
                    /\ IsCall(c) /\ c.op = "export" /\ Ask(q, <<c>>)
    BY <1>11, CallSays DEF handleExportExcel
  <2>2. /\ q.busy = r.busy \union {"exporting"} /\ q.tracker = r.tracker
        /\ ListParts \subseteq DOMAIN q
    BY <1>1, <1>2, <2>1 DEF ListParts
  <2>3. Passed("list", r, q, H, {c}, {})
    BY <2>1, <2>2 DEF Passed, Opens, ListOpens, Alone
  <2> QED
    BY <1>5, <2>1, <2>2, <2>3
<1>12. ASSUME OtherRows PROVE Goes("list", ListParts)
  <2>1. Turns(page, {}, {})
    BY <1>1, <1>12, ElsewhereTurns DEF OtherRows
  <2>2. Passed("list", r, r, H, {}, {})
    BY <1>1, <1>2, StillPassed
  <2> QED
    BY <1>1, <1>2, <2>1, <2>2 DEF Goes
<1> QED
  BY <1>6, <1>7, <1>8, <1>9, <1>10, <1>11, <1>12 DEF ListStep

LEMMA ListPerforms ==
    ASSUME NEW i, ListServe(i)
    PROVE  Performed(i)
  BY DEF ListServe, Performed, Refuse

\* The answers: a page that loads again, or one with less locks.
LEMMA ListLockReturns ==
    ASSUME At("list"), ListLocks, NEW i \in DOMAIN calls, ListReturn(i)
    PROVE  Goes("list", ListParts)
<1>1. ListParts \subseteq DOMAIN page /\ Known(calls) /\ Locked("list", page, Held(calls))
  BY DEF ListLocks, LocksOf, ListParts
<1>2. PICK r, H, g : r = page /\ H = Held(calls) /\ g = calls[i]
  OBVIOUS
<1>3. ASSUME NEW p, LikeList(page, p) \/ (p.busy = r.busy \ {"loading"}), g.op # "export",
             ListParts \subseteq DOMAIN p, NEW c, IsCall(c), c.op = "list",
             c.kept = p.tracker + 1, Continue(i, Loading(p), <<c>>)
      PROVE  Goes("list", ListParts)
  <2>1. PICK q : q = Loading(p)
    OBVIOUS
  <2>2. q.busy = p.busy \union {"loading"} /\ q.tracker = p.tracker + 1 /\ ListParts \subseteq DOMAIN q
    BY <1>3, <2>1, ListLoads
  <2>3. q.busy \subseteq r.busy \union {"loading"}
    BY <1>1, <1>2, <1>3, <2>2 DEF LikeList
  <2>4. Turns(q, {c}, {g})
    BY <1>1, <1>2, <1>3, <2>1, OneContinued
  <2>5. Passed("list", r, q, H, {c}, {g})
    BY <1>3, <2>2, <2>3, ListReloads
  <2> QED
    BY <1>2, <2>2, <2>4, <2>5 DEF Goes
<1>4. ASSUME NEW q, q.busy \subseteq r.busy, q.tracker = r.tracker, ListParts \subseteq DOMAIN q,
             \A l \in q.busy : ~ListOpens(g, l, r), Continue(i, q, <<>>)
      PROVE  Goes("list", ListParts)
  <2>1. Turns(q, {}, {g})
    BY <1>1, <1>2, <1>4, NoneContinued
  <2>2. Passed("list", r, q, H, {}, {g})
    BY <1>4, ListStays
  <2> QED
    BY <1>2, <1>4, <2>1, <2>2 DEF Goes
<1>5. ASSUME NEW p, p.busy = r.busy \ {"loading"}, p.tracker = r.tracker,
             ListParts \subseteq DOMAIN p, g.op = "list", ClampPage(i, p)
      PROVE  Goes("list", ListParts)
  <2>1. CASE Continue(i, p, <<>>)
    <3>1. \A l \in p.busy : ~ListOpens(g, l, r)
      BY <1>5 DEF ListOpens
    <3> QED
      BY <1>4, <1>5, <2>1, <3>1
  <2>2. CASE ~Continue(i, p, <<>>)
    <3>1. PICK q : q = [p EXCEPT !.number = LastPage(p)] /\ Continue(i, Loading(q), <<Load(q)>>)
      BY <1>5, <2>2 DEF ClampPage
    <3>2. LikeList(p, q)
      BY <3>1, ListFields
    <3>3. q.busy = r.busy \ {"loading"} /\ ListParts \subseteq DOMAIN q
      BY <1>5, <3>2 DEF LikeList
    <3>4. IsCall(Load(q)) /\ Load(q).op = "list" /\ Load(q).kept = q.tracker + 1
      BY <3>3, ListLoads
    <3>5. PICK c : c = Load(q)
      OBVIOUS
    <3> QED
      BY <1>3, <1>5, <3>1, <3>3, <3>4, <3>5
  <2> QED
    BY <2>1, <2>2
<1>6. ASSUME Loaded(i) PROVE Goes("list", ListParts)
  <2>1. g.op = "list"
    BY <1>2, <1>6 DEF Loaded
  <2>2. CASE g.kept # r.tracker
    <3>1. Continue(i, page, <<>>)
      BY <1>2, <1>6, <2>2 DEF Loaded, IsCurrentRequest
    <3>2. \A l \in r.busy : ~ListOpens(g, l, r)
      BY <2>1, <2>2 DEF ListOpens
    <3> QED
      BY <1>1, <1>2, <1>4, <3>1, <3>2
  <2>3. CASE g.kept = r.tracker
    <3>1. PICK p : p = [page EXCEPT !.busy = @ \ {"loading"}]
      OBVIOUS
    <3>2. /\ p.busy = r.busy \ {"loading"} /\ p.tracker = r.tracker
          /\ ListParts \subseteq DOMAIN p
      BY <1>1, <1>2, <3>1 DEF ListParts
    <3>3. PICK q : LikeList(p, q) /\ ClampPage(i, q)
      <4>1. CASE Succeeded(i, "list")
        BY <1>2, <1>6, <2>3, <3>1, <4>1, ListFields DEF Loaded, IsCurrentRequest
      <4>2. CASE ~Succeeded(i, "list")
        BY <1>2, <1>6, <2>3, <3>1, <4>2, ListFields DEF Loaded, IsCurrentRequest
      <4> QED
        BY <4>1, <4>2
    <3>4. q.busy = r.busy \ {"loading"} /\ q.tracker = r.tracker /\ ListParts \subseteq DOMAIN q
      BY <3>2, <3>3 DEF LikeList
    <3> QED
      BY <1>5, <2>1, <3>3, <3>4
  <2> QED
    BY <2>2, <2>3
<1>7. ASSUME Saved(i) PROVE Goes("list", ListParts)
  <2>1. g.op = "save"
    BY <1>2, <1>7 DEF Saved
  <2>2. CASE Continue(i, page, <<>>)
    <3>1. \A l \in r.busy : ~ListOpens(g, l, r)
      BY <2>1 DEF ListOpens
    <3> QED
      BY <1>1, <1>2, <1>4, <2>2, <3>1
  <2>3. CASE ~Continue(i, page, <<>>)
    <3>1. PICK p : p = [page EXCEPT !.saved = Body(i)]
      OBVIOUS
    <3>2. LikeList(page, p)
      BY <3>1, ListFields
    <3>3. PICK q, s : /\ LikeList(p, q) /\ s = Loading(q)
                      /\ Continue(i, s, <<[Load(s) EXCEPT !.kept = s.tracker]>>)
      <4>1. /\ LikeList(p, [p EXCEPT !.form = "none"])
            /\ LikeList(p, [p EXCEPT !.form = IF p.form = "convert" THEN "none" ELSE @])
            /\ LikeList(p, [p EXCEPT !.form = IF p.form = "convert" THEN @ ELSE "none",
                                     !.filter = "ALL", !.number = 1])
        BY ListFields
      <4> QED
        BY <1>7, <2>3, <3>1, <4>1 DEF Saved, handleUpdated, handleOrderCreated, handleLeadSaved
    <3>4. LikeList(page, q) /\ ListParts \subseteq DOMAIN q
      BY <1>1, <3>2, <3>3 DEF LikeList
    <3>5. s.tracker = q.tracker + 1 /\ ListParts \subseteq DOMAIN s
      BY <3>3, <3>4, ListLoads
    <3>6. PICK c : c = [Load(s) EXCEPT !.kept = s.tracker]
      OBVIOUS
    <3>7. IsCall(c) /\ c.op = "list" /\ c.kept = q.tracker + 1
      BY <3>5, <3>6 DEF Load, Call, IsCall
    <3> QED
      BY <1>2, <1>3, <2>1, <3>3, <3>4, <3>6, <3>7
  <2> QED
    BY <2>2, <2>3
<1>8. ASSUME Exported(i) PROVE Goes("list", ListParts)
  <2>1. PICK q : q = [page EXCEPT !.busy = @ \ {"exporting"}] /\ Continue(i, q, <<>>)
    BY <1>8 DEF Exported
  <2>2. g.op = "export"
    BY <1>2, <1>8 DEF Exported, Succeeded, Failed
  <2>3. /\ q.busy = r.busy \ {"exporting"} /\ q.tracker = r.tracker
        /\ ListParts \subseteq DOMAIN q
    BY <1>1, <1>2, <2>1 DEF ListParts
  <2>4. \A l \in q.busy : ~ListOpens(g, l, r)
    BY <2>2, <2>3 DEF ListOpens
  <2> QED
    BY <1>4, <2>1, <2>3, <2>4
<1> QED
  BY <1>6, <1>7, <1>8 DEF ListReturn

-----------------------------------------------------------------------------
(* The shipment page.                                                       *)

LEMMA ShipmentStays ==
    ASSUME NEW p, NEW q, NEW H, NEW N, NEW G, q.busy \subseteq p.busy,
           "loading" \in q.busy => q.tracker = p.tracker,
           \A g \in G : \A l \in q.busy : ~ShipmentOpens(g, l, p)
    PROVE  Passed("shipment", p, q, H, N, G)
  BY DEF Passed, Opens, ShipmentOpens, Alone

LEMMA ShipmentLocksMore ==
    ASSUME NEW p, NEW q, NEW H, NEW c, NEW G, NEW l, q.busy \subseteq p.busy \union {l},
           "loading" \in q.busy => q.tracker = p.tracker, ShipmentOpens(c, l, q),
           \A g \in G : \A k \in q.busy : k # l => ~ShipmentOpens(g, k, p)
    PROVE  Passed("shipment", p, q, H, {c}, G)
<1>1. \A k \in q.busy : k # l => k \in p.busy
  OBVIOUS
<1>2. \A d, k : k \in q.busy /\ ShipmentOpens(d, k, p) => ShipmentOpens(d, k, q)
  BY DEF ShipmentOpens
<1> QED
  BY <1>1, <1>2 DEF Passed, Opens, Alone

\* What holds after a step of the page.
ShipmentGoes ==
    /\ Goes("shipment", ShipmentParts)
    /\ ShipmentParts \subseteq DOMAIN page' /\ ShipmentRest(page', Held(calls'))

LEMMA RestAsks ==
    ASSUME NEW p, NEW q, NEW H, NEW J, NEW c, ShipmentRest(p, H), "loading" \notin q.busy,
           q.tracker = p.tracker, p.tracker # 0, J \subseteq H \union {c}
    PROVE  ShipmentRest(q, J)
  BY DEF ShipmentRest

LEMMA RestStays ==
    ASSUME NEW p, NEW q, NEW H, NEW J, ShipmentRest(p, H), q.tracker = p.tracker,
           q.row = p.row \/ ("loading" \notin q.busy /\ p.tracker # 0),
           q.busy \subseteq p.busy, J \subseteq H
    PROVE  ShipmentRest(q, J)
  BY DEF ShipmentRest

LEMMA ShipmentLockSteps ==
    ASSUME At("shipment"), ShipmentLocks, ShipmentStep
    PROVE  ShipmentGoes
<1>1. ShipmentParts \subseteq DOMAIN page /\ Known(calls) /\ ShipmentRest(page, Held(calls))
  BY DEF ShipmentLocks, LocksOf, ShipmentParts
<1>2. PICK r, H : r = page /\ H = Held(calls)
  OBVIOUS
<1>3. ASSUME OpenShipment PROVE ShipmentGoes
  <2>1. PICK p, q, n, a, c : /\ p = [page EXCEPT !.tracker = n, !.mixed = a]
                             /\ q = [p EXCEPT !.busy = {"loading"}]
                             /\ n = page.tracker + 1 /\ page.tracker = 0
                             /\ c = Call("shipment", "opened", n) /\ Ask(q, <<c>>)
    BY <1>3 DEF OpenShipment, loadShipment, ShipmentLoad, BeginRequest
  <2>2. /\ p.tracker = 1 /\ p.row = r.row /\ ShipmentParts \subseteq DOMAIN p
    BY <1>1, <1>2, <2>1 DEF ShipmentParts
  <2>3. /\ q.busy = {"loading"} /\ q.tracker = 1 /\ q.row = r.row
        /\ ShipmentParts \subseteq DOMAIN q
    BY <2>1, <2>2 DEF ShipmentParts
  <2>4. IsCall(c) /\ c.op = "shipment" /\ c.arg = "opened" /\ c.kept = q.tracker
    BY <2>1, <2>3, CallSays
  <2>5. Passed("shipment", r, q, H, {c}, {})
    BY <2>3, <2>4 DEF Passed, Opens, ShipmentOpens
  <2>6. Ask(q, <<c>>) /\ IsCall(c) /\ ShipmentParts \subseteq DOMAIN q
    BY <2>1, <2>3, <2>4
  <2>7. /\ Goes("shipment", ShipmentParts) /\ page' = q
        /\ Held(calls') \subseteq Held(calls) \union {c}
    BY <1>1, <1>2, <2>5, <2>6, AskGoes
  <2>8. H = {} /\ r.row = NoShipment
    BY <1>1, <1>2, <2>1 DEF ShipmentRest
  <2>9. ShipmentRest(q, Held(calls'))
    BY <1>2, <2>3, <2>4, <2>7, <2>8 DEF ShipmentRest
  <2> QED
    BY <2>3, <2>7, <2>9 DEF ShipmentGoes
\* Only fields that no lock is about are set.
<1>4. ASSUME NEW q, page' = q, calls' = calls, mounted' = mounted,
             ShipmentParts \subseteq DOMAIN q, q.busy = r.busy, q.tracker = r.tracker,
             q.row = r.row
      PROVE  ShipmentGoes
  <2>1. Passed("shipment", r, q, H, {}, {})
    BY <1>4, ShipmentStays
  <2>2. Turns(q, {}, {})
    BY <1>1, <1>4 DEF Turns, Held, Known, IsCalls
  <2>3. Goes("shipment", ShipmentParts)
    BY <1>2, <1>4, <2>1, <2>2 DEF Goes
  <2>4. Held(calls') = H
    BY <1>2, <1>4 DEF Held
  <2>5. ShipmentRest(q, Held(calls'))
    BY <1>1, <1>2, <1>4, <2>4, RestStays
  <2> QED
    BY <1>4, <2>3, <2>5 DEF ShipmentGoes
<1>5. ASSUME OrderLoaded PROVE ShipmentGoes
  <2>1. PICK q, a : /\ q = [page EXCEPT !.order = a, !.reload = FALSE]
                    /\ page' = q /\ calls' = calls /\ mounted' = mounted
    BY <1>5 DEF OrderLoaded, Become
  <2>2. /\ ShipmentParts \subseteq DOMAIN q /\ q.busy = r.busy /\ q.tracker = r.tracker
        /\ q.row = r.row
    BY <1>1, <1>2, <2>1 DEF ShipmentParts
  <2> QED
    BY <1>4, <2>1, <2>2
\* A row is shown: nothing is being loaded.
<1>6. ASSUME NEW l, NEW q, NEW c, IsCall(c), Ask(q, <<c>>), ShipmentParts \subseteq DOMAIN q,
             q.busy = r.busy \union {l}, q.tracker = r.tracker, ShipmentOpens(c, l, q),
             l # "loading", r.row # NoShipment
      PROVE  ShipmentGoes
  <2>1. Passed("shipment", r, q, H, {c}, {})
    BY <1>6, ShipmentLocksMore
  <2>2. /\ Goes("shipment", ShipmentParts) /\ page' = q
        /\ Held(calls') \subseteq Held(calls) \union {c}
    BY <1>1, <1>2, <1>6, <2>1, AskGoes
  <2>3. "loading" \notin q.busy /\ r.tracker # 0
    BY <1>1, <1>2, <1>6 DEF ShipmentRest
  <2>4. PICK J : J = Held(calls')
    OBVIOUS
  <2>5. ShipmentRest(r, H) /\ J \subseteq H \union {c}
    BY <1>1, <1>2, <2>2, <2>4
  <2>6. ShipmentRest(q, J)
    BY ZenonT(60), <1>6, <2>3, <2>5, RestAsks
  <2> QED
    BY <1>6, <2>2, <2>4, <2>6 DEF ShipmentGoes
<1>7. Shown => r.row # NoShipment
  BY <1>2 DEF Shown, NoShipment
<1>8. ASSUME updateStatus PROVE ShipmentGoes
  <2>1. PICK q, o, m, a, b : /\ q = [page EXCEPT !.row = o, !.busy = @ \union {"updating"},
                                                 !.mixed = m]
                             /\ Ask(q, <<Call("status", a, b)>>) /\ Shown
    BY <1>8 DEF updateStatus
  <2>2. PICK c : c = Call("status", a, b)
    OBVIOUS
  <2>3. IsCall(c) /\ c.op = "status"
    BY <2>2, CallSays
  <2>4. /\ ShipmentParts \subseteq DOMAIN q /\ q.busy = r.busy \union {"updating"}
        /\ q.tracker = r.tracker
    BY <1>1, <1>2, <2>1 DEF ShipmentParts
  <2>5. ShipmentOpens(c, "updating", q)
    BY <2>3 DEF ShipmentOpens
  <2> QED
    BY <1>6, <1>7, <2>1, <2>2, <2>3, <2>4, <2>5
<1>9. ASSUME handleAdditionalCostSubmit \/ handleBaseCostSubmit PROVE ShipmentGoes
  <2>1. PICK q, op, a, b : /\ q = [page EXCEPT !.busy = @ \union {"saving"}]
                           /\ op \in {"extra", "base"}
                           /\ Ask(q, <<Call(op, a, b)>>) /\ Shown
    BY <1>9 DEF handleAdditionalCostSubmit, handleBaseCostSubmit
  <2>2. PICK c : c = Call(op, a, b)
    OBVIOUS
  <2>3. IsCall(c) /\ c.op = op
    BY <2>2, CallSays
  <2>4. /\ ShipmentParts \subseteq DOMAIN q /\ q.busy = r.busy \union {"saving"}
        /\ q.tracker = r.tracker
    BY <1>1, <1>2, <2>1 DEF ShipmentParts
  <2>5. ShipmentOpens(c, "saving", q)
    BY <2>1, <2>3 DEF ShipmentOpens
  <2> QED
    BY <1>6, <1>7, <2>1, <2>2, <2>3, <2>4, <2>5
<1>10. ASSUME OtherShipping PROVE ShipmentGoes
  <2>1. page' = page /\ calls' = calls /\ mounted' = mounted
    BY <1>10 DEF OtherShipping, Elsewhere
  <2> QED
    BY <1>1, <1>2, <1>4, <2>1
<1> QED
  BY <1>3, <1>5, <1>8, <1>9, <1>10 DEF ShipmentStep

LEMMA ShipmentPerforms ==
    ASSUME NEW i, ShipmentServe(i)
    PROVE  Performed(i)
<1>1. Refuse(i) => Performed(i)
  BY DEF Performed, Refuse
<1>2. \A s, b : Perform(i, s, TRUE, b) => Performed(i)
  BY DEF Performed
<1> QED
  BY <1>1, <1>2 DEF ShipmentServe

LEMMA ShipmentLockReturns ==
    ASSUME At("shipment"), ShipmentLocks, NEW i \in DOMAIN calls, ShipmentReturn(i)
    PROVE  ShipmentGoes
<1>1. ShipmentParts \subseteq DOMAIN page /\ Known(calls) /\ ShipmentRest(page, Held(calls))
  BY DEF ShipmentLocks, LocksOf, ShipmentParts
<1>2. PICK r, H, g : r = page /\ H = Held(calls) /\ g = calls[i]
  OBVIOUS
<1>3. g \in H /\ r.tracker \in Nat /\ r.tracker # 0
  BY <1>1, <1>2 DEF Held, ShipmentRest
\* Any call but one of the opening says that the page was loaded before.
<1>4. g.op # "shipment" \/ g.arg # "opened" => "loading" \notin r.busy
  BY <1>1, <1>2, <1>3 DEF ShipmentRest
<1>5. ASSUME NEW p, NEW q, ShipmentParts \subseteq DOMAIN p,
             q = [p EXCEPT !.reload = TRUE] \/ q = p, p.busy \subseteq r.busy,
             p.tracker = r.tracker, p.row = r.row \/ "loading" \notin p.busy,
             \A l \in p.busy : ~ShipmentOpens(g, l, r), Continue(i, q, <<>>)
      PROVE  ShipmentGoes
  <2>1. /\ ShipmentParts \subseteq DOMAIN q /\ q.busy = p.busy /\ q.tracker = p.tracker
        /\ q.row = p.row
    BY <1>5 DEF ShipmentParts
  <2>2. Passed("shipment", r, q, H, {}, {g})
    BY <1>5, <2>1, ShipmentStays
  <2>3. /\ Goes("shipment", ShipmentParts) /\ page' = q
        /\ Held(calls') \subseteq Held(calls)
    BY <1>1, <1>2, <1>5, <2>1, <2>2, ContinueGoes
  <2>4. ShipmentRest(q, Held(calls'))
    BY <1>1, <1>2, <1>3, <1>5, <2>1, <2>3, RestStays
  <2> QED
    BY <2>1, <2>3, <2>4 DEF ShipmentGoes
<1>6. ASSUME ShipmentLoaded(i) PROVE ShipmentGoes
  <2>1. PICK p, q, last, o, b :
           /\ last = (g.kept = r.tracker)
           /\ o = IF ~last THEN r.row ELSE IF g.state = "ok" THEN Body(i) ELSE NoShipment
           /\ b = IF g.arg = "saved" THEN r.busy \ {"saving"}
                  ELSE IF last THEN r.busy \ {"loading"} ELSE r.busy
           /\ p = [r EXCEPT !.row = o, !.busy = b]
           /\ q = [p EXCEPT !.reload = TRUE] \/ q = p
           /\ Continue(i, q, <<>>)
    BY <1>2, <1>6 DEF ShipmentLoaded, OrderReload, IsCurrentRequest
  <2>2. g.op = "shipment"
    BY <1>2, <1>6 DEF ShipmentLoaded
  <2>3. /\ ShipmentParts \subseteq DOMAIN p /\ p.busy = b /\ p.tracker = r.tracker
        /\ p.row = o
    BY <1>1, <1>2, <2>1 DEF ShipmentParts
  <2>4. b \subseteq r.busy /\ (o = r.row \/ "loading" \notin b)
    BY <1>4, <2>1
  <2>5. \A l \in b : ~ShipmentOpens(g, l, r)
    BY <2>1, <2>2 DEF ShipmentOpens
  <2>6. /\ q = [p EXCEPT !.reload = TRUE] \/ q = p
        /\ Continue(i, q, <<>>)
    BY <2>1
  <2>7. /\ p.busy \subseteq r.busy /\ (p.row = r.row \/ "loading" \notin p.busy)
        /\ \A l \in p.busy : ~ShipmentOpens(g, l, r)
    BY <2>3, <2>4, <2>5
  <2> QED
    BY <1>5, <2>3, <2>6, <2>7
<1>7. ASSUME StatusUpdated(i) PROVE ShipmentGoes
  <2>1. PICK p, q, o : /\ p = [page EXCEPT !.row = o, !.busy = @ \ {"updating"}]
                       /\ q = [p EXCEPT !.reload = TRUE] /\ Continue(i, q, <<>>)
    BY <1>7 DEF StatusUpdated, OrderReload
  <2>2. g.op = "status"
    BY <1>2, <1>7 DEF StatusUpdated
  <2>3. /\ ShipmentParts \subseteq DOMAIN p /\ p.busy = r.busy \ {"updating"}
        /\ p.tracker = r.tracker
    BY <1>1, <1>2, <2>1 DEF ShipmentParts
  <2>4. \A l \in p.busy : ~ShipmentOpens(g, l, r)
    BY <2>2, <2>3 DEF ShipmentOpens
  <2> QED
    BY <1>4, <1>5, <2>1, <2>2, <2>3, <2>4
<1>8. ASSUME CostSaved(i) PROVE ShipmentGoes
  <2>1. g.op \in {"extra", "base"} /\ "loading" \notin r.busy
    BY <1>2, <1>4, <1>8 DEF CostSaved
  <2>2. \A l : l # "saving" => ~ShipmentOpens(g, l, r)
    BY <2>1 DEF ShipmentOpens
  <2>3. CASE Continue(i, [page EXCEPT !.busy = @ \ {"saving"}], <<>>)
    <3>1. PICK p : p = [page EXCEPT !.busy = @ \ {"saving"}] /\ Continue(i, p, <<>>)
      BY <2>3
    <3>2. /\ ShipmentParts \subseteq DOMAIN p /\ p.busy = r.busy \ {"saving"}
          /\ p.tracker = r.tracker /\ p.row = r.row
      BY <1>1, <1>2, <3>1 DEF ShipmentParts
    <3> QED
      BY <1>5, <2>2, <3>1, <3>2
  <2>4. CASE Continue(i, loadShipment(page), <<ShipmentLoad(page, "saved")>>)
    <3>1. PICK q, n, a, c : /\ q = [page EXCEPT !.tracker = n, !.mixed = a]
                            /\ n = r.tracker + 1 /\ c = Call("shipment", "saved", n)
                            /\ Continue(i, q, <<c>>)
      BY <1>2, <2>4 DEF loadShipment, ShipmentLoad, BeginRequest
    <3>2. /\ ShipmentParts \subseteq DOMAIN q /\ q.busy = r.busy /\ q.tracker = n
          /\ q.row = r.row
      BY <1>1, <1>2, <3>1 DEF ShipmentParts
    <3>3. IsCall(c) /\ c.op = "shipment" /\ c.arg = "saved"
      BY <3>1, CallSays
    <3>4. ShipmentOpens(c, "saving", q)
      BY <3>3 DEF ShipmentOpens
    <3>5. Passed("shipment", r, q, H, {c}, {g})
      BY <2>1, <2>2, <3>2, <3>4, ShipmentLocksMore
    <3>6. Continue(i, q, <<c>>) /\ IsCall(c) /\ ShipmentParts \subseteq DOMAIN q
      BY <3>1, <3>2, <3>3
    <3>7. /\ Goes("shipment", ShipmentParts) /\ page' = q
          /\ Held(calls') \subseteq Held(calls) \union {c}
      BY ZenonT(60), <1>1, <1>2, <3>5, <3>6, ContinueOneGoes
    <3>8. n \in Nat /\ n # 0
      BY <1>3, <3>1
    <3>9. ShipmentRest(q, Held(calls'))
      BY <2>1, <3>2, <3>8 DEF ShipmentRest
    <3> QED
      BY <3>2, <3>7, <3>9 DEF ShipmentGoes
  <2> QED
    BY <1>8, <2>3, <2>4 DEF CostSaved
<1> QED
  BY <1>6, <1>7, <1>8 DEF ShipmentReturn

-----------------------------------------------------------------------------
(* The lead pages.                                                          *)

LEMMA LeadStays ==
    ASSUME NEW p, NEW q, NEW H, NEW N, NEW G, q.busy \subseteq p.busy,
           q.generation = p.generation,
           \A g \in G : \A l \in q.busy : ~LeadOpens(g, l, p)
    PROVE  Passed("lead", p, q, H, N, G)
  BY DEF Passed, Opens, LeadOpens, Alone

\* One more lock, that its call c opens.
LEMMA LeadLocksMore ==
    ASSUME NEW p, NEW q, NEW H, NEW c, NEW l, q.busy = p.busy \union {l},
           q.generation = p.generation, LeadOpens(c, l, q)
    PROVE  Passed("lead", p, q, H, {c}, {})
  BY DEF Passed, Opens, LeadOpens, Alone

\* A reload.
LEMMA LeadReloads ==
    ASSUME NEW p, LeadParts \subseteq DOMAIN p, NEW q, q = Reloading(p)
    PROVE  /\ LeadParts \subseteq DOMAIN q /\ q.busy = p.busy \union {"lead", "notes"}
           /\ \E c, d : /\ IsCall(c) /\ c.op = "lead" /\ c.kept = q.generation
                        /\ IsCall(d) /\ d.op = "notes" /\ d.kept = q.generation
                        /\ Loads(q) = <<c, d>>
<1>1. LeadParts \subseteq DOMAIN q /\ q.busy = p.busy \union {"lead", "notes"}
  BY DEF Reloading, LeadParts
<1>2. PICK c, d : c = Call("lead", 0, q.generation) /\ d = Call("notes", 0, q.generation)
  OBVIOUS
<1>3. /\ IsCall(c) /\ c.op = "lead" /\ c.kept = q.generation
      /\ IsCall(d) /\ d.op = "notes" /\ d.kept = q.generation
  BY <1>2, CallSays
<1> QED
  BY <1>1, <1>2, <1>3 DEF Loads

LEMMA LeadReloadPasses ==
    ASSUME NEW p, NEW q, NEW H, NEW G, NEW c, NEW d, c.op = "lead", c.kept = q.generation,
           d.op = "notes", d.kept = q.generation,
           q.busy \subseteq p.busy \union {"lead", "notes"},
           \A g \in G : \A l \in q.busy \ {"lead", "notes"} : ~LeadOpens(g, l, p)
    PROVE  Passed("lead", p, q, H, {c, d}, G)
  BY DEF Passed, Opens, LeadOpens, Alone

LEMMA LeadLockSteps ==
    ASSUME At("lead"), LeadLocks, LeadStep
    PROVE  Goes("lead", LeadParts)
<1>1. LeadParts \subseteq DOMAIN page /\ Known(calls)
  BY DEF LeadLocks, LocksOf, LeadParts
<1>2. PICK r, H : r = page /\ H = Held(calls)
  OBVIOUS
<1>3. ASSUME OpenLead PROVE Goes("lead", LeadParts)
  <2>1. PICK q : q = Reloading(r) /\ Ask(q, Loads(q))
    BY <1>2, <1>3 DEF OpenLead
  <2>2. LeadParts \subseteq DOMAIN q /\ q.busy = r.busy \union {"lead", "notes"}
    BY <1>1, <1>2, <2>1, LeadReloads
  <2>3. PICK c, d : /\ IsCall(c) /\ c.op = "lead" /\ c.kept = q.generation
                    /\ IsCall(d) /\ d.op = "notes" /\ d.kept = q.generation
                    /\ Loads(q) = <<c, d>>
    BY <1>1, <1>2, <2>1, LeadReloads
  <2>4. Passed("lead", r, q, H, {c, d}, {})
    BY <2>2, <2>3, LeadReloadPasses
  <2>5. Ask(q, <<c, d>>) /\ IsCall(c) /\ IsCall(d)
    BY <2>1, <2>3
  <2> QED
    BY <1>1, <1>2, <2>2, <2>4, <2>5, AskTwoGoes
<1>4. ASSUME OpenWebsiteLead PROVE Goes("lead", LeadParts)
  <2>1. PICK q, c : /\ q = [page EXCEPT !.generation = 1, !.busy = {"lead"}]
                    /\ IsCall(c) /\ c.op = "open" /\ Ask(q, <<c>>)
    BY <1>4, CallSays DEF OpenWebsiteLead
  <2>2. q.busy = {"lead"} /\ LeadParts \subseteq DOMAIN q
    BY <1>1, <2>1 DEF LeadParts
  <2>3. Passed("lead", r, q, H, {c}, {})
    BY <2>1, <2>2 DEF Passed, Opens, LeadOpens
  <2> QED
    BY <1>1, <1>2, <2>1, <2>2, <2>3, AskGoes
<1>5. ASSUME NEW l, NEW op, NEW a, NEW q, Ask(q, <<Call(op, a, 0)>>),
             q.busy = page.busy \union {l}, q.generation = page.generation,
             LeadParts \subseteq DOMAIN q,
             \A c, p : c.op = op => LeadOpens(c, l, p)
      PROVE  Goes("lead", LeadParts)
  <2>1. PICK c : c = Call(op, a, 0)
    OBVIOUS
  <2>2. IsCall(c) /\ c.op = op
    BY <2>1, CallSays
  <2>3. LeadOpens(c, l, q)
    BY <1>5, <2>2
  <2>4. Passed("lead", r, q, H, {c}, {})
    BY <1>2, <1>5, <2>3, LeadLocksMore
  <2> QED
    BY <1>1, <1>2, <1>5, <2>1, <2>2, <2>4, AskGoes
<1>6. ASSUME handleStatusChange PROVE Goes("lead", LeadParts)
  <2>1. PICK a, q : /\ q = [page EXCEPT !.busy = @ \union {"status"}]
                    /\ Ask(q, <<Call("update", a, 0)>>)
    BY <1>6 DEF handleStatusChange
  <2>2. /\ q.busy = page.busy \union {"status"} /\ q.generation = page.generation
        /\ LeadParts \subseteq DOMAIN q
    BY <1>1, <2>1 DEF LeadParts
  <2>3. \A c, p : c.op = "update" => LeadOpens(c, "status", p)
    BY DEF LeadOpens
  <2> QED
    BY <1>5, <2>1, <2>2, <2>3
<1>7. ASSUME handleAddComment PROVE Goes("lead", LeadParts)
  <2>1. PICK q : /\ q = [page EXCEPT !.busy = @ \union {"note"}]
                 /\ Ask(q, <<Call("note", 0, 0)>>)
    BY <1>7 DEF handleAddComment
  <2>2. /\ q.busy = page.busy \union {"note"} /\ q.generation = page.generation
        /\ LeadParts \subseteq DOMAIN q
    BY <1>1, <2>1 DEF LeadParts
  <2>3. \A c, p : c.op = "note" => LeadOpens(c, "note", p)
    BY DEF LeadOpens
  <2> QED
    BY <1>5, <2>1, <2>2, <2>3
<1>8. ASSUME update PROVE Goes("lead", LeadParts)
  <2>1. PICK a, q : /\ q = [page EXCEPT !.busy = @ \union {"saving"}]
                    /\ Ask(q, <<Call("update", a, 0)>>)
    BY <1>8 DEF update
  <2>2. /\ q.busy = page.busy \union {"saving"} /\ q.generation = page.generation
        /\ LeadParts \subseteq DOMAIN q
    BY <1>1, <2>1 DEF LeadParts
  <2>3. \A c, p : c.op = "update" => LeadOpens(c, "saving", p)
    BY DEF LeadOpens
  <2> QED
    BY <1>5, <2>1, <2>2, <2>3
<1>9. ASSUME addNote PROVE Goes("lead", LeadParts)
  <2>1. PICK q : /\ q = [page EXCEPT !.busy = @ \union {"saving"}]
                 /\ Ask(q, <<Call("note", 0, 0)>>)
    BY <1>9 DEF addNote
  <2>2. /\ q.busy = page.busy \union {"saving"} /\ q.generation = page.generation
        /\ LeadParts \subseteq DOMAIN q
    BY <1>1, <2>1 DEF LeadParts
  <2>3. \A c, p : c.op = "note" => LeadOpens(c, "saving", p)
    BY DEF LeadOpens
  <2> QED
    BY <1>5, <2>1, <2>2, <2>3
<1>10. ASSUME claim PROVE Goes("lead", LeadParts)
  <2>1. PICK q : /\ q = [page EXCEPT !.busy = @ \union {"saving"}]
                 /\ Ask(q, <<Call("claim", 0, 0)>>)
    BY <1>10 DEF claim
  <2>2. /\ q.busy = page.busy \union {"saving"} /\ q.generation = page.generation
        /\ LeadParts \subseteq DOMAIN q
    BY <1>1, <2>1 DEF LeadParts
  <2>3. \A c, p : c.op = "claim" => LeadOpens(c, "saving", p)
    BY DEF LeadOpens
  <2> QED
    BY <1>5, <2>1, <2>2, <2>3
<1>11. ASSUME convert PROVE Goes("lead", LeadParts)
  <2>1. PICK a, q : /\ q = [page EXCEPT !.busy = @ \union {"converting"}, !.mixed = a]
                    /\ Ask(q, <<Call("convert", 0, 0)>>)
    BY <1>11 DEF convert
  <2>2. /\ q.busy = page.busy \union {"converting"} /\ q.generation = page.generation
        /\ LeadParts \subseteq DOMAIN q
    BY <1>1, <2>1 DEF LeadParts
  <2>3. \A c, p : c.op = "convert" => LeadOpens(c, "converting", p)
    BY DEF LeadOpens
  <2> QED
    BY <1>5, <2>1, <2>2, <2>3
<1>12. ASSUME OtherSales PROVE Goes("lead", LeadParts)
  <2>1. PICK s : Elsewhere(s)
    BY <1>12 DEF OtherSales
  <2> QED
    BY <2>1, ElsewhereGoes DEF LeadLocks, LeadParts
<1> QED
  BY <1>3, <1>4, <1>6, <1>7, <1>8, <1>9, <1>10, <1>11, <1>12 DEF LeadStep

LEMMA LeadPerforms ==
    ASSUME NEW i, LeadServe(i)
    PROVE  Performed(i)
<1>1. Refuse(i) => Performed(i)
  BY DEF Performed, Refuse
<1>2. \A s, b : Perform(i, s, TRUE, b) => Performed(i)
  BY DEF Performed
<1> QED
  BY <1>1, <1>2 DEF LeadServe

LEMMA LeadLockReturns ==
    ASSUME At("lead"), LeadLocks, NEW i \in DOMAIN calls, LeadReturn(i)
    PROVE  Goes("lead", LeadParts)
<1>1. LeadParts \subseteq DOMAIN page /\ Known(calls)
  BY DEF LeadLocks, LocksOf, LeadParts
<1>2. PICK r, H, g : r = page /\ H = Held(calls) /\ g = calls[i]
  OBVIOUS
<1>3. ASSUME NEW q, LeadParts \subseteq DOMAIN q, q.generation = r.generation,
             q.busy \subseteq r.busy, \A l \in q.busy : ~LeadOpens(g, l, r),
             Continue(i, q, <<>>)
      PROVE  Goes("lead", LeadParts)
  <2>1. Passed("lead", r, q, H, {}, {g})
    BY <1>3, LeadStays
  <2> QED
    BY <1>1, <1>2, <1>3, <2>1, ContinueGoes
\* The locks S are released, and the rest is none of the page's.
<1>4. ASSUME NEW S, NEW q, LeadParts \subseteq DOMAIN q, q.generation = r.generation,
             q.busy = r.busy \ S, \A l : l \notin S => ~LeadOpens(g, l, r),
             Continue(i, q, <<>>)
      PROVE  Goes("lead", LeadParts)
  <2>1. q.busy \subseteq r.busy /\ \A l \in q.busy : ~LeadOpens(g, l, r)
    BY <1>4
  <2> QED
    BY <1>3, <1>4, <2>1
<1>5. ASSUME NEW op \in {"lead", "notes"}, g.op = op,
             \/ Continue(i, page, <<>>) /\ g.kept # r.generation
             \/ \E a : Continue(i, [page EXCEPT !.row = a, !.busy = @ \ {op}], <<>>)
             \/ \E a : Continue(i, [page EXCEPT !.notes = a, !.busy = @ \ {op}], <<>>)
             \/ Continue(i, [page EXCEPT !.busy = @ \ {op}], <<>>)
      PROVE  Goes("lead", LeadParts)
  <2>1. CASE Continue(i, page, <<>>) /\ g.kept # r.generation
    <3>1. \A l \in r.busy : ~LeadOpens(g, l, r)
      BY <1>5, <2>1 DEF LeadOpens
    <3> QED
      BY <1>1, <1>2, <1>3, <2>1, <3>1
  <2>2. CASE ~(Continue(i, page, <<>>) /\ g.kept # r.generation)
    <3>1. PICK q, S, a : /\ Continue(i, q, <<>>) /\ S = {op}
                         /\ \/ q = [page EXCEPT !.row = a, !.busy = @ \ {op}]
                            \/ q = [page EXCEPT !.notes = a, !.busy = @ \ {op}]
                            \/ q = [page EXCEPT !.busy = @ \ {op}]
      BY <1>5, <2>2
    <3>2. /\ LeadParts \subseteq DOMAIN q /\ q.generation = r.generation
          /\ q.busy = r.busy \ {op}
      BY <1>1, <1>2, <3>1 DEF LeadParts
    <3>3. \A l : l # op => ~LeadOpens(g, l, r)
      <4>1. g.op = op /\ op \in {"lead", "notes"}
        BY <1>5
      <4> QED
        BY <4>1 DEF LeadOpens
    <3> QED
      BY <1>4, <3>1, <3>2, <3>3
  <2> QED
    BY <2>1, <2>2
<1>6. LeadLoaded(i) => Goes("lead", LeadParts)
  BY <1>2, <1>5 DEF LeadLoaded
<1>7. NotesLoaded(i) => Goes("lead", LeadParts)
  BY <1>2, <1>5 DEF NotesLoaded
<1>8. ASSUME WebsiteLeadLoaded(i) PROVE Goes("lead", LeadParts)
  <2>1. PICK q, a, b : /\ Continue(i, q, <<>>)
                       /\ \/ q = [page EXCEPT !.row = a, !.notes = b, !.busy = {}]
                          \/ q = [page EXCEPT !.busy = {}]
    BY <1>8 DEF WebsiteLeadLoaded
  <2>2. q.busy = {} /\ LeadParts \subseteq DOMAIN q /\ q.generation = r.generation
    BY <1>1, <1>2, <2>1 DEF LeadParts
  <2> QED
    BY <1>3, <2>1, <2>2
<1>9. ASSUME LeadSaved(i) PROVE Goes("lead", LeadParts)
  <2>1. PICK p, q, a, S : /\ S = {"saving", "status"} /\ p = [page EXCEPT !.busy = @ \ S]
                          /\ q = [p EXCEPT !.row = a] \/ q = p
                          /\ Continue(i, q, <<>>)
    BY <1>9 DEF LeadSaved
  <2>2. /\ q.busy = r.busy \ S /\ LeadParts \subseteq DOMAIN q
        /\ q.generation = r.generation
    <3>1. /\ p.busy = r.busy \ S /\ LeadParts \subseteq DOMAIN p
          /\ p.generation = r.generation
      BY <1>1, <1>2, <2>1 DEF LeadParts
    <3> QED
      BY <2>1, <3>1 DEF LeadParts
  <2>3. \A l : l \notin S => ~LeadOpens(g, l, r)
    BY <1>2, <1>9, <2>1 DEF LeadSaved, LeadOpens
  <2> QED
    BY <1>4, <2>1, <2>2, <2>3
<1>10. ASSUME NoteSaved(i) PROVE Goes("lead", LeadParts)
  <2>1. PICK p, S : S = {"saving", "note"} /\ p = [page EXCEPT !.busy = @ \ S]
    OBVIOUS
  <2>2. /\ p.busy = r.busy \ S /\ LeadParts \subseteq DOMAIN p
        /\ p.generation = r.generation
    BY <1>1, <1>2, <2>1 DEF LeadParts
  <2>3. g.op = "note"
    BY <1>2, <1>10 DEF NoteSaved, Succeeded, Failed
  <2>4. \A l : l \notin S => ~LeadOpens(g, l, r)
    BY <2>1, <2>3 DEF LeadOpens
  <2>5. CASE \E a : Continue(i, [p EXCEPT !.notes = a], <<>>)
    <3>1. PICK q, a : Continue(i, q, <<>>) /\ q = [p EXCEPT !.notes = a]
      BY <2>5
    <3>2. /\ q.busy = r.busy \ S /\ LeadParts \subseteq DOMAIN q
          /\ q.generation = r.generation
      BY <2>2, <3>1 DEF LeadParts
    <3> QED
      BY <1>4, <2>4, <3>1, <3>2
  <2>6. CASE Continue(i, p, <<>>)
    BY <1>4, <2>2, <2>4, <2>6
  <2>7. ASSUME NEW q, q = Reloading(p), Continue(i, q, Loads(q))
        PROVE  Goes("lead", LeadParts)
    <3>1. LeadParts \subseteq DOMAIN q /\ q.busy = p.busy \union {"lead", "notes"}
      BY <2>2, <2>7, LeadReloads
    <3>2. PICK c, d : /\ IsCall(c) /\ c.op = "lead" /\ c.kept = q.generation
                      /\ IsCall(d) /\ d.op = "notes" /\ d.kept = q.generation
                      /\ Loads(q) = <<c, d>>
      BY <2>2, <2>7, LeadReloads
    <3>3. /\ q.busy \subseteq r.busy \union {"lead", "notes"}
          /\ \A l \in q.busy \ {"lead", "notes"} : ~LeadOpens(g, l, r)
      BY <2>2, <2>4, <3>1
    <3>4. Passed("lead", r, q, H, {c, d}, {g})
      BY <3>2, <3>3, LeadReloadPasses
    <3>5. Continue(i, q, <<c, d>>) /\ IsCall(c) /\ IsCall(d)
      BY <2>7, <3>2
    <3> QED
      BY <1>1, <1>2, <3>1, <3>4, <3>5, ContinueTwoGoes
  <2> QED
    BY <1>10, <2>1, <2>5, <2>6, <2>7 DEF NoteSaved
<1>11. ASSUME LeadConverted(i) PROVE Goes("lead", LeadParts)
  <2>1. PICK q, a, S : /\ S = {"converting"} /\ q = [page EXCEPT !.busy = @ \ S, !.left = a]
                       /\ Continue(i, q, <<>>)
    BY <1>11 DEF LeadConverted
  <2>2. /\ q.busy = r.busy \ S /\ LeadParts \subseteq DOMAIN q
        /\ q.generation = r.generation
    BY <1>1, <1>2, <2>1 DEF LeadParts
  <2>3. \A l : l \notin S => ~LeadOpens(g, l, r)
    BY <1>2, <1>11, <2>1 DEF LeadConverted, LeadOpens
  <2> QED
    BY <1>4, <2>1, <2>2, <2>3
<1> QED
  BY <1>6, <1>7, <1>8, <1>9, <1>10, <1>11 DEF LeadReturn

-----------------------------------------------------------------------------
(* The notes page.                                                          *)

LEMMA NotesStays ==
    ASSUME NEW p, NEW q, NEW H, NEW N, NEW G, q.busy \subseteq p.busy,
           q.entitiesTracker = p.entitiesTracker, q.notesTracker = p.notesTracker,
           \A g \in G : \A l \in q.busy : ~NotesOpens(g, l, p)
    PROVE  Passed("notes", p, q, H, N, G)
  BY DEF Passed, Opens, NotesOpens, Alone

LEMMA NotesReloads ==
    ASSUME NEW p, NEW q, NEW H, NEW G, NEW c, c.op = "notes", c.kept.id = q.notesTracker,
           q.entitiesTracker = p.entitiesTracker,
           q.busy \subseteq p.busy \union {"notes"},
           \A g \in G : \A l \in q.busy \ {"notes"} : ~NotesOpens(g, l, p)
    PROVE  Passed("notes", p, q, H, {c}, G)
  BY DEF Passed, Opens, NotesOpens, Alone

LEMMA EntitiesReload ==
    ASSUME NEW p, NEW q, NEW H, NEW c, c.op = "entities", c.kept = q.entitiesTracker,
           q.notesTracker = p.notesTracker, q.busy \subseteq p.busy \union {"entities"}
    PROVE  Passed("notes", p, q, H, {c}, {})
  BY DEF Passed, Opens, NotesOpens, Alone

LikeNotes(p, q) ==
    NotesParts \subseteq DOMAIN p =>
        /\ NotesParts \subseteq DOMAIN q /\ q.busy = p.busy
        /\ q.entitiesTracker = p.entitiesTracker /\ q.notesTracker = p.notesTracker

LEMMA NotesFields ==
    /\ \A p, a, b : LikeNotes(p, [p EXCEPT !.type = a, !.entity = b])
    /\ \A p, a : LikeNotes(p, [p EXCEPT !.search = a])
    /\ \A p, a : LikeNotes(p, [p EXCEPT !.offered = a])
    /\ \A p, a : LikeNotes(p, [p EXCEPT !.notes = a])
    /\ \A p, a, b : LikeNotes(p, [p EXCEPT !.offered = a, !.notes = b])
  BY DEF LikeNotes, NotesParts

\* Another choice: its notes are loaded, or nothing is to be loaded.
NotesChosen(p, q) ==
    /\ NotesParts \subseteq DOMAIN q /\ q.entitiesTracker = p.entitiesTracker
    /\ q.notesTracker \in Nat
    /\ \/ /\ q.notesTracker = p.notesTracker /\ q.busy \subseteq p.busy
          /\ NotesLoad(p, q) = <<>>
       \/ /\ q.busy = p.busy \union {"notes"}
          /\ \E c : /\ IsCall(c) /\ c.op = "notes" /\ c.kept.id = q.notesTracker
                    /\ NotesLoad(p, q) = <<c>>

LEMMA NotesAreChosen ==
    ASSUME NEW p, NotesParts \subseteq DOMAIN p, p.notesTracker \in Nat,
           NEW type, NEW entity, NEW refresh, NEW q, q = Choose(p, type, entity, refresh)
    PROVE  NotesChosen(p, q)
<1>1. PICK r : r = [p EXCEPT !.type = type, !.entity = entity]
  OBVIOUS
<1>2. /\ NotesParts \subseteq DOMAIN r /\ r.busy = p.busy
      /\ r.entitiesTracker = p.entitiesTracker /\ r.notesTracker = p.notesTracker
  BY <1>1, NotesFields DEF LikeNotes
<1>3. PICK n : \/ q = [r EXCEPT !.key = "", !.notes = {}, !.busy = @ \ {"notes"},
                                !.failed = FALSE]
               \/ q = r
               \/ q = [r EXCEPT !.key = entity, !.busy = @ \union {"notes"},
                                !.notesTracker = @ + 1, !.failed = FALSE, !.notes = n]
  BY <1>1 DEF Choose, BeginRequest
<1>4. CASE q.notesTracker = p.notesTracker /\ q.busy \subseteq p.busy
  <2>1. NotesParts \subseteq DOMAIN q /\ q.entitiesTracker = p.entitiesTracker
    BY <1>2, <1>3 DEF NotesParts
  <2> QED
    BY <1>4, <2>1 DEF NotesChosen, NotesLoad
<1>5. CASE q = [r EXCEPT !.key = entity, !.busy = @ \union {"notes"},
                         !.notesTracker = @ + 1, !.failed = FALSE, !.notes = n]
  <2>1. /\ q.notesTracker = p.notesTracker + 1 /\ q.busy = p.busy \union {"notes"}
        /\ NotesParts \subseteq DOMAIN q /\ q.entitiesTracker = p.entitiesTracker
    BY <1>2, <1>5 DEF NotesParts
  <2>2. PICK c, k : /\ k = [id |-> q.notesTracker, changed |-> p.key # q.key]
                    /\ c = Call("notes", q.entity, k)
    OBVIOUS
  <2>3. IsCall(c) /\ c.op = "notes" /\ c.kept = k /\ k.id = q.notesTracker
    BY <2>2, CallSays
  <2>4. q.notesTracker # p.notesTracker /\ q.notesTracker \in Nat
    BY <2>1
  <2> QED
    BY <2>1, <2>2, <2>3, <2>4 DEF NotesChosen, NotesLoad
<1>6. CASE \/ q = [r EXCEPT !.key = "", !.notes = {}, !.busy = @ \ {"notes"},
                            !.failed = FALSE]
           \/ q = r
  <2>1. q.notesTracker = p.notesTracker /\ q.busy \subseteq p.busy
    BY <1>2, <1>6 DEF NotesParts
  <2> QED
    BY <1>4, <2>1
<1> QED
  BY <1>3, <1>5, <1>6

LEMMA NotesLockSteps ==
    ASSUME At("notes"), NotesLocks, NotesStep
    PROVE  Goes("notes", NotesParts) /\ page'.notesTracker \in Nat
<1>1. NotesParts \subseteq DOMAIN page /\ Known(calls) /\ page.notesTracker \in Nat
  BY DEF NotesLocks, LocksOf, NotesParts
<1>2. PICK r, H : r = page /\ H = Held(calls)
  OBVIOUS
<1>3. ASSUME NEW q, NEW c, IsCall(c), Ask(q, <<c>>), NotesParts \subseteq DOMAIN q,
             q.notesTracker \in Nat, Passed("notes", r, q, H, {c}, {})
      PROVE  Goes("notes", NotesParts) /\ page'.notesTracker \in Nat
  <2>1. Goes("notes", NotesParts) /\ page' = q
    BY <1>1, <1>2, <1>3, AskGoes
  <2> QED
    BY <1>3, <2>1
<1>4. ASSUME NEW p, LikeNotes(page, p), EntitiesLoad(p)
      PROVE  Goes("notes", NotesParts) /\ page'.notesTracker \in Nat
  <2>1. PICK q, t : /\ t = p.entitiesTracker + 1
                    /\ q = [p EXCEPT !.busy = @ \union {"entities"}, !.entitiesTracker = t]
                    /\ Ask(q, <<Call("entities", p.search, t)>>)
    BY <1>4 DEF EntitiesLoad, BeginRequest
  <2>2. PICK c : IsCall(c) /\ c.op = "entities" /\ c.kept = t /\ Ask(q, <<c>>)
    BY <2>1, CallSays
  <2>3. /\ NotesParts \subseteq DOMAIN p /\ p.busy = r.busy
        /\ p.notesTracker = r.notesTracker
    BY <1>1, <1>2, <1>4 DEF LikeNotes
  <2>4. /\ NotesParts \subseteq DOMAIN q /\ q.busy = p.busy \union {"entities"}
        /\ q.entitiesTracker = t /\ q.notesTracker = p.notesTracker
    BY <2>1, <2>3 DEF NotesParts
  <2>5. Passed("notes", r, q, H, {c}, {})
    BY <2>2, <2>3, <2>4, EntitiesReload
  <2> QED
    BY <1>1, <1>2, <1>3, <2>2, <2>3, <2>4, <2>5
<1>5. ASSUME NEW q, NotesChosen(r, q), Ask(q, NotesLoad(r, q))
      PROVE  Goes("notes", NotesParts) /\ page'.notesTracker \in Nat
  <2>1. /\ NotesParts \subseteq DOMAIN q /\ q.entitiesTracker = r.entitiesTracker
        /\ q.notesTracker \in Nat
    BY <1>5 DEF NotesChosen
  <2>2. CASE /\ q.notesTracker = r.notesTracker /\ q.busy \subseteq r.busy
             /\ NotesLoad(r, q) = <<>>
    <3>1. Passed("notes", r, q, H, {}, {})
      BY <2>1, <2>2, NotesStays
    <3>2. Ask(q, <<>>)
      BY <1>5, <2>2
    <3>3. Goes("notes", NotesParts) /\ page' = q
      BY <1>1, <1>2, <2>1, <3>1, <3>2, AskNoneGoes
    <3> QED
      BY <2>1, <3>3
  <2>3. ASSUME NEW c, IsCall(c), c.op = "notes", c.kept.id = q.notesTracker,
               NotesLoad(r, q) = <<c>>, q.busy = r.busy \union {"notes"}
        PROVE  Goes("notes", NotesParts) /\ page'.notesTracker \in Nat
    <3>1. Passed("notes", r, q, H, {c}, {})
      BY <2>1, <2>3, NotesReloads
    <3>2. Ask(q, <<c>>)
      BY <1>5, <2>3
    <3> QED
      BY <1>3, <2>1, <2>3, <3>1, <3>2
  <2> QED
    BY <1>5, <2>2, <2>3 DEF NotesChosen
<1>6. OpenNotes \/ retryEntities
      => Goes("notes", NotesParts) /\ page'.notesTracker \in Nat
  <2>1. LikeNotes(page, page)
    BY DEF LikeNotes
  <2> QED
    BY <1>4, <2>1 DEF OpenNotes, retryEntities
<1>7. ChangeSearch => Goes("notes", NotesParts) /\ page'.notesTracker \in Nat
  BY <1>4, NotesFields DEF ChangeSearch
<1>8. ASSUME handleEntityChange \/ retryNotes
      PROVE  Goes("notes", NotesParts) /\ page'.notesTracker \in Nat
  <2>1. PICK type, entity, refresh, q :
           q = Choose(r, type, entity, refresh) /\ Ask(q, NotesLoad(r, q))
    BY <1>2, <1>8 DEF handleEntityChange, retryNotes
  <2>2. NotesChosen(r, q)
    BY <1>1, <1>2, <2>1, NotesAreChosen
  <2> QED
    BY <1>5, <2>1, <2>2
<1>9. ASSUME handleSubmit
      PROVE  Goes("notes", NotesParts) /\ page'.notesTracker \in Nat
  <2>1. PICK q, c : /\ q = [page EXCEPT !.busy = @ \union {"submitting"}]
                    /\ IsCall(c) /\ c.op = "create" /\ Ask(q, <<c>>)
    BY ZenonT(60), <1>9, CallSays DEF handleSubmit
  <2>2. /\ q.busy = r.busy \union {"submitting"} /\ q.notesTracker = r.notesTracker
        /\ NotesParts \subseteq DOMAIN q /\ q.entitiesTracker = r.entitiesTracker
    BY <1>1, <1>2, <2>1 DEF NotesParts
  <2>3. Passed("notes", r, q, H, {c}, {})
    BY <2>1, <2>2 DEF Passed, Opens, NotesOpens, Alone
  <2> QED
    BY <1>1, <1>2, <1>3, <2>1, <2>2, <2>3
<1>10. ASSUME OtherNotes
       PROVE  Goes("notes", NotesParts) /\ page'.notesTracker \in Nat
  <2>1. Goes("notes", NotesParts) /\ page' = page
    BY <1>10, ElsewhereGoes DEF OtherNotes, NotesLocks, NotesParts
  <2> QED
    BY <1>1, <2>1
<1> QED
  BY <1>6, <1>7, <1>8, <1>9, <1>10 DEF NotesStep

LEMMA NotesPerforms ==
    ASSUME NEW i, NotesServe(i)
    PROVE  Performed(i)
  BY DEF NotesServe, Performed

LEMMA NotesLockReturns ==
    ASSUME At("notes"), NotesLocks, NEW i \in DOMAIN calls, NotesReturn(i)
    PROVE  Goes("notes", NotesParts) /\ page'.notesTracker \in Nat
<1>1. NotesParts \subseteq DOMAIN page /\ Known(calls) /\ page.notesTracker \in Nat
  BY DEF NotesLocks, LocksOf, NotesParts
<1>2. PICK r, H, g : r = page /\ H = Held(calls) /\ g = calls[i]
  OBVIOUS
<1>3. ASSUME NEW q, NotesParts \subseteq DOMAIN q, q.notesTracker = r.notesTracker,
             q.entitiesTracker = r.entitiesTracker,
             q.busy \subseteq r.busy, \A l \in q.busy : ~NotesOpens(g, l, r),
             Continue(i, q, <<>>)
      PROVE  Goes("notes", NotesParts) /\ page'.notesTracker \in Nat
  <2>1. Passed("notes", r, q, H, {}, {g})
    BY <1>3, NotesStays
  <2>2. Goes("notes", NotesParts) /\ page' = q
    BY <1>1, <1>2, <1>3, <2>1, ContinueGoes
  <2> QED
    BY <1>1, <1>2, <1>3, <2>2
\* A page p whose lock the answer released, and the choice made in o, which
\* is like it.
<1>4. ASSUME NEW p, NotesParts \subseteq DOMAIN p, p.notesTracker = r.notesTracker,
             p.entitiesTracker = r.entitiesTracker,
             p.busy \subseteq r.busy, \A l \in p.busy : ~NotesOpens(g, l, r),
             NEW o, LikeNotes(p, o), o.key = p.key,
             NEW type, NEW entity, NEW refresh, NEW q,
             q = Choose(o, type, entity, refresh), Continue(i, q, NotesLoad(p, q))
      PROVE  Goes("notes", NotesParts) /\ page'.notesTracker \in Nat
  <2>1. /\ NotesParts \subseteq DOMAIN o /\ o.busy = p.busy
        /\ o.entitiesTracker = p.entitiesTracker /\ o.notesTracker = p.notesTracker
    BY <1>4 DEF LikeNotes
  <2>2. NotesChosen(o, q)
    BY <1>1, <1>2, <1>4, <2>1, NotesAreChosen
  <2>3. Continue(i, q, NotesLoad(o, q))
    BY <1>4, <2>1 DEF NotesLoad
  <2>4. /\ NotesParts \subseteq DOMAIN q /\ q.entitiesTracker = r.entitiesTracker
        /\ q.notesTracker \in Nat
    BY <1>4, <2>1, <2>2 DEF NotesChosen
  <2>5. CASE /\ q.notesTracker = o.notesTracker /\ q.busy \subseteq o.busy
             /\ NotesLoad(o, q) = <<>>
    <3>1. Continue(i, q, <<>>)
      BY <2>3, <2>5
    <3>2. q.busy \subseteq p.busy /\ q.notesTracker = r.notesTracker
      BY <1>4, <2>1, <2>5
    <3>3. q.busy \subseteq r.busy /\ \A l \in q.busy : ~NotesOpens(g, l, r)
      BY <1>4, <3>2
    <3> QED
      BY <1>3, <2>4, <3>1, <3>2, <3>3
  <2>6. ASSUME NEW c, IsCall(c), c.op = "notes", c.kept.id = q.notesTracker,
               NotesLoad(o, q) = <<c>>, q.busy = o.busy \union {"notes"}
        PROVE  Goes("notes", NotesParts) /\ page'.notesTracker \in Nat
    <3>1. /\ q.busy \subseteq r.busy \union {"notes"}
          /\ \A l \in q.busy \ {"notes"} : ~NotesOpens(g, l, r)
      BY <1>4, <2>1, <2>6
    <3>2. Passed("notes", r, q, H, {c}, {g})
      BY <2>4, <2>6, <3>1, NotesReloads
    <3>3. Continue(i, q, <<c>>)
      BY <2>3, <2>6
    <3>4. Known(calls) /\ IsCall(c) /\ NotesParts \subseteq DOMAIN q
      BY <1>1, <2>4, <2>6
    <3>5. Goes("notes", NotesParts) /\ page' = q
      BY <1>2, <3>2, <3>3, <3>4, ContinueOneGoes
    <3> QED
      BY <2>4, <3>5
  <2> QED
    BY <2>2, <2>5, <2>6 DEF NotesChosen
<1>5. ASSUME EntitiesLoaded(i)
      PROVE  Goes("notes", NotesParts) /\ page'.notesTracker \in Nat
  <2>1. g.op = "entities"
    BY <1>2, <1>5 DEF EntitiesLoaded
  <2>2. CASE g.kept # r.entitiesTracker
    <3>1. Continue(i, page, <<>>)
      BY <1>2, <1>5, <2>2 DEF EntitiesLoaded, IsCurrentRequest
    <3>2. \A l \in r.busy : ~NotesOpens(g, l, r)
      BY <2>1, <2>2 DEF NotesOpens
    <3> QED
      BY <1>1, <1>2, <1>3, <3>1, <3>2
  <2>3. CASE g.kept = r.entitiesTracker
    <3>1. PICK p : p = [page EXCEPT !.busy = @ \ {"entities"}]
      OBVIOUS
    <3>2. \A l : l # "entities" => ~NotesOpens(g, l, r)
      BY <2>1 DEF NotesOpens
    <3>3. /\ NotesParts \subseteq DOMAIN p /\ p.notesTracker = r.notesTracker
          /\ p.entitiesTracker = r.entitiesTracker /\ p.busy = r.busy \ {"entities"}
      BY <1>1, <1>2, <3>1 DEF NotesParts
    <3>4. p.busy \subseteq r.busy /\ \A l \in p.busy : ~NotesOpens(g, l, r)
      BY <3>2, <3>3
    <3>5. CASE Continue(i, [p EXCEPT !.offered = "failed", !.notes = {}], <<>>)
      <4>1. PICK q : /\ q = [p EXCEPT !.offered = "failed", !.notes = {}]
                     /\ Continue(i, q, <<>>)
        BY <3>5
      <4>2. LikeNotes(p, q)
        BY <4>1, NotesFields
      <4> QED
        BY <1>3, <3>3, <3>4, <4>1, <4>2 DEF LikeNotes
    <3>6. ASSUME NEW o, NEW a, o = [p EXCEPT !.offered = a], NEW q, NEW entity,
                 q = Choose(o, p.type, entity, FALSE), Continue(i, q, NotesLoad(p, q))
          PROVE  Goes("notes", NotesParts) /\ page'.notesTracker \in Nat
      <4>1. LikeNotes(p, o)
        BY <3>6, NotesFields
      <4>2. o.key = p.key
        BY <3>6
      <4> QED
        BY <1>4, <3>3, <3>4, <3>6, <4>1, <4>2
    <3> QED
      BY <1>2, <1>5, <2>3, <3>1, <3>5, <3>6 DEF EntitiesLoaded, IsCurrentRequest
  <2> QED
    BY <2>2, <2>3
<1>6. ASSUME NotesAnswered(i)
      PROVE  Goes("notes", NotesParts) /\ page'.notesTracker \in Nat
  <2>1. g.op = "notes"
    BY <1>2, <1>6 DEF NotesAnswered
  <2>2. CASE g.kept.id # r.notesTracker
    <3>1. Continue(i, page, <<>>)
      BY <1>2, <1>6, <2>2 DEF NotesAnswered, IsCurrentRequest
    <3>2. \A l \in r.busy : ~NotesOpens(g, l, r)
      BY <2>1, <2>2 DEF NotesOpens
    <3> QED
      BY <1>1, <1>2, <1>3, <3>1, <3>2
  <2>3. CASE g.kept.id = r.notesTracker
    <3>1. PICK p, f : p = [page EXCEPT !.busy = @ \ {"notes"}, !.failed = f]
                      /\ \/ \E n : Continue(i, [p EXCEPT !.notes = n], <<>>)
                         \/ Continue(i, p, <<>>)
      BY <1>2, <1>6, <2>3 DEF NotesAnswered, IsCurrentRequest
    <3>2. \A l : l # "notes" => ~NotesOpens(g, l, r)
      BY <2>1 DEF NotesOpens
    <3>3. /\ NotesParts \subseteq DOMAIN p /\ p.notesTracker = r.notesTracker
          /\ p.entitiesTracker = r.entitiesTracker /\ p.busy = r.busy \ {"notes"}
      BY <1>1, <1>2, <3>1 DEF NotesParts
    <3>4. p.busy \subseteq r.busy /\ \A l \in p.busy : ~NotesOpens(g, l, r)
      BY <3>2, <3>3
    <3>5. LikeNotes(p, p) /\ \A n : LikeNotes(p, [p EXCEPT !.notes = n])
      BY NotesFields DEF LikeNotes
    <3>6. PICK q : Continue(i, q, <<>>) /\ LikeNotes(p, q)
      BY <3>1, <3>5
    <3> QED
      BY <1>3, <3>3, <3>4, <3>6 DEF LikeNotes
  <2> QED
    BY <2>2, <2>3
<1>7. ASSUME NoteCreated(i)
      PROVE  Goes("notes", NotesParts) /\ page'.notesTracker \in Nat
  <2>1. g.op = "create"
    BY <1>2, <1>7 DEF NoteCreated
  <2>2. PICK p : p = [page EXCEPT !.busy = @ \ {"submitting"}]
    OBVIOUS
  <2>3. \A l : l # "submitting" => ~NotesOpens(g, l, r)
    BY <2>1 DEF NotesOpens
  <2>4. /\ NotesParts \subseteq DOMAIN p /\ p.notesTracker = r.notesTracker
        /\ p.entitiesTracker = r.entitiesTracker /\ p.busy = r.busy \ {"submitting"}
    BY <1>1, <1>2, <2>2 DEF NotesParts
  <2>5. p.busy \subseteq r.busy /\ \A l \in p.busy : ~NotesOpens(g, l, r)
    BY <2>3, <2>4
  <2>6. CASE Continue(i, p, <<>>)
    BY <1>3, <2>4, <2>5, <2>6
  <2>7. ASSUME NEW o, NEW n, o = [p EXCEPT !.notes = n], NEW q, NEW type, NEW entity,
               q = Choose(o, type, entity, TRUE), Continue(i, q, NotesLoad(p, q))
        PROVE  Goes("notes", NotesParts) /\ page'.notesTracker \in Nat
    <3>1. LikeNotes(p, o)
      BY <2>7, NotesFields
    <3>2. o.key = p.key
      BY <2>7
    <3> QED
      BY <1>4, <2>4, <2>5, <2>7, <3>1, <3>2
  <2> QED
    BY <1>7, <2>2, <2>6, <2>7 DEF NoteCreated
<1> QED
  BY <1>5, <1>6, <1>7 DEF NotesReturn

-----------------------------------------------------------------------------
(* The costs page.                                                          *)

LEMMA CostsLocksStay ==
    ASSUME NEW p, NEW q, NEW H, NEW N, NEW G, q.busy \subseteq p.busy,
           q.tracker = p.tracker,
           \A g \in G : \A l \in q.busy : ~CostsOpens(g, l, p)
    PROVE  Passed("costs", p, q, H, N, G)
  BY DEF Passed, Opens, CostsOpens, Alone

LEMMA CostsReloads ==
    ASSUME NEW p, NEW q, NEW H, NEW G, NEW c, c.op = "cost", c.kept = q.tracker,
           q.busy \subseteq p.busy \union {"context"},
           \A g \in G : \A l \in q.busy \ {"context"} : ~CostsOpens(g, l, p)
    PROVE  Passed("costs", p, q, H, {c}, G)
  BY DEF Passed, Opens, CostsOpens, Alone

\* Another choice: its sheet is loaded, or nothing is to be loaded.
LEMMA ChoiceLoads ==
    ASSUME NEW p, CostsParts \subseteq DOMAIN p, p.tracker \in Nat, NEW s,
           NEW q, q = ChooseShipment(p, s)
    PROVE  /\ CostsParts \subseteq DOMAIN q /\ q.tracker \in Nat
           /\ \/ /\ q.tracker = p.tracker /\ q.busy \subseteq p.busy
                 /\ ContextLoad(p, q) = <<>>
              \/ /\ q.busy = p.busy \union {"context"}
                 /\ \E c : /\ IsCall(c) /\ c.op = "cost" /\ c.kept = q.tracker
                           /\ ContextLoad(p, q) = <<c>>
<1>1. CASE s = p.shipment
  BY <1>1 DEF ChooseShipment, ContextLoad
<1>2. CASE s # p.shipment /\ s = ""
  <2>1. q.tracker = p.tracker /\ q.busy \subseteq p.busy /\ CostsParts \subseteq DOMAIN q
    BY <1>2 DEF ChooseShipment, CostsParts
  <2> QED
    BY <2>1 DEF ContextLoad
<1>3. CASE s # p.shipment /\ s # ""
  <2>1. /\ q.tracker = p.tracker + 1 /\ q.busy = p.busy \union {"context"}
        /\ CostsParts \subseteq DOMAIN q
    BY <1>3 DEF ChooseShipment, CostsParts, BeginRequest
  <2>2. PICK c : c = Call("cost", q.shipment, q.tracker)
    OBVIOUS
  <2>3. IsCall(c) /\ c.op = "cost" /\ c.kept = q.tracker
    BY <2>2, CallSays
  <2>4. q.tracker # p.tracker /\ q.tracker \in Nat
    BY <2>1
  <2> QED
    BY <2>1, <2>2, <2>3, <2>4 DEF ContextLoad
<1> QED
  BY <1>1, <1>2, <1>3

LEMMA CostsLockSteps ==
    ASSUME At("costs"), CostsLocks, CostsStep
    PROVE  Goes("costs", CostsParts) /\ page'.tracker \in Nat
<1>1. CostsParts \subseteq DOMAIN page /\ Known(calls) /\ page.tracker \in Nat
  BY DEF CostsLocks, LocksOf, CostsParts
<1>2. PICK r, H : r = page /\ H = Held(calls)
  OBVIOUS
<1>3. ASSUME NEW q, NEW c, IsCall(c), Ask(q, <<c>>), CostsParts \subseteq DOMAIN q,
             q.tracker \in Nat, Passed("costs", r, q, H, {c}, {})
      PROVE  Goes("costs", CostsParts) /\ page'.tracker \in Nat
  <2>1. Goes("costs", CostsParts) /\ page' = q
    BY <1>1, <1>2, <1>3, AskGoes
  <2> QED
    BY <1>3, <2>1
<1>4. ASSUME OpenCosts \/ retryShipments
      PROVE  Goes("costs", CostsParts) /\ page'.tracker \in Nat
  <2>1. PICK q, c : /\ q = [page EXCEPT !.busy = {"shipments"}]
                    /\ IsCall(c) /\ c.op = "shipments" /\ Ask(q, <<c>>)
    BY <1>4, CallSays DEF OpenCosts, retryShipments
  <2>2. q.busy = {"shipments"} /\ q.tracker = r.tracker /\ CostsParts \subseteq DOMAIN q
    BY <1>1, <1>2, <2>1 DEF CostsParts
  <2>3. Passed("costs", r, q, H, {c}, {})
    BY <2>1, <2>2 DEF Passed, Opens, CostsOpens
  <2> QED
    BY <1>1, <1>2, <1>3, <2>1, <2>2, <2>3
<1>5. ASSUME handleShipmentChange
      PROVE  Goes("costs", CostsParts) /\ page'.tracker \in Nat
  <2>1. PICK s, p, q, v : /\ p = ChooseShipment(page, s) /\ q = [p EXCEPT !.moved = v]
                          /\ Ask(q, ContextLoad(page, q))
    BY <1>5 DEF handleShipmentChange
  <2>2. /\ CostsParts \subseteq DOMAIN p /\ p.tracker \in Nat
        /\ \/ /\ p.tracker = r.tracker /\ p.busy \subseteq r.busy
              /\ ContextLoad(r, p) = <<>>
           \/ /\ p.busy = r.busy \union {"context"}
              /\ \E c : /\ IsCall(c) /\ c.op = "cost" /\ c.kept = p.tracker
                        /\ ContextLoad(r, p) = <<c>>
    BY <1>1, <1>2, <2>1, ChoiceLoads
  <2>3. /\ q.tracker = p.tracker /\ q.busy = p.busy /\ CostsParts \subseteq DOMAIN q
        /\ q.shipment = p.shipment
    BY <2>1, <2>2 DEF CostsParts
  <2>4. ContextLoad(r, q) = ContextLoad(r, p)
    BY <2>3 DEF ContextLoad
  <2>5. CASE q.tracker = r.tracker /\ q.busy \subseteq r.busy /\ ContextLoad(r, q) = <<>>
    <3>1. Ask(q, <<>>)
      BY <1>2, <2>1, <2>5
    <3>2. Passed("costs", r, q, H, {}, {})
      BY <2>5, CostsLocksStay
    <3>3. Goes("costs", CostsParts) /\ page' = q
      BY <1>1, <1>2, <2>3, <3>1, <3>2, AskNoneGoes
    <3> QED
      BY <2>2, <2>3, <3>3
  <2>6. ASSUME NEW c, IsCall(c), c.op = "cost", c.kept = q.tracker,
               ContextLoad(r, q) = <<c>>, q.busy = r.busy \union {"context"}
        PROVE  Goes("costs", CostsParts) /\ page'.tracker \in Nat
    <3>1. Passed("costs", r, q, H, {c}, {})
      BY <2>6, CostsReloads
    <3> QED
      BY <1>2, <1>3, <2>1, <2>2, <2>3, <2>6, <3>1
  <2> QED
    BY <2>2, <2>3, <2>4, <2>5, <2>6
<1>6. ASSUME retryContext
      PROVE  Goes("costs", CostsParts) /\ page'.tracker \in Nat
  <2>0. PICK q, a, b : /\ q = [page EXCEPT !.tracker = b, !.error = FALSE,
                                           !.busy = @ \union {"context"}]
                       /\ b = page.tracker + 1 /\ Ask(q, <<Call("cost", a, b)>>)
    BY <1>6 DEF retryContext, BeginRequest
  <2>1. PICK c : IsCall(c) /\ c.op = "cost" /\ c.kept = b /\ Ask(q, <<c>>)
    BY <2>0, CallSays
  <2>2. /\ q.busy = r.busy \union {"context"} /\ q.tracker = r.tracker + 1
        /\ CostsParts \subseteq DOMAIN q
    BY <1>1, <1>2, <2>0 DEF CostsParts
  <2>3. c.kept = q.tracker /\ q.tracker \in Nat
    BY <1>1, <1>2, <2>0, <2>1, <2>2
  <2>4. Passed("costs", r, q, H, {c}, {})
    BY <2>1, <2>2, <2>3, CostsReloads
  <2> QED
    BY <1>3, <2>1, <2>2, <2>3, <2>4
<1>7. ASSUME handleCostSubmit
      PROVE  Goes("costs", CostsParts) /\ page'.tracker \in Nat
  <2>0. PICK q, a, b : /\ q = [page EXCEPT !.busy = @ \union {"saving"}]
                       /\ Ask(q, <<Call("save", a, b)>>)
    BY <1>7 DEF handleCostSubmit
  <2>1. PICK c : IsCall(c) /\ c.op = "save" /\ Ask(q, <<c>>)
    BY <2>0, CallSays
  <2>2. /\ q.busy = r.busy \union {"saving"} /\ q.tracker = r.tracker
        /\ CostsParts \subseteq DOMAIN q
    BY <1>1, <1>2, <2>0 DEF CostsParts
  <2>3. Passed("costs", r, q, H, {c}, {})
    BY <2>1, <2>2 DEF Passed, Opens, CostsOpens, Alone
  <2> QED
    BY <1>1, <1>2, <1>3, <2>1, <2>2, <2>3
<1>8. ASSUME OtherCosts
      PROVE  Goes("costs", CostsParts) /\ page'.tracker \in Nat
  <2>1. Goes("costs", CostsParts) /\ page' = page
    BY <1>8, ElsewhereGoes DEF OtherCosts, CostsLocks, CostsParts
  <2> QED
    BY <1>1, <2>1
<1> QED
  BY <1>4, <1>5, <1>6, <1>7, <1>8 DEF CostsStep

LEMMA CostsPerforms ==
    ASSUME NEW i, CostsServe(i)
    PROVE  Performed(i)
  BY DEF CostsServe, Performed, Refuse

LEMMA CostsLockReturns ==
    ASSUME At("costs"), CostsLocks, NEW i \in DOMAIN calls, CostsReturn(i)
    PROVE  Goes("costs", CostsParts) /\ page'.tracker \in Nat
<1>1. CostsParts \subseteq DOMAIN page /\ Known(calls) /\ page.tracker \in Nat
  BY DEF CostsLocks, LocksOf, CostsParts
<1>2. PICK r, H, g : r = page /\ H = Held(calls) /\ g = calls[i]
  OBVIOUS
<1>3. ASSUME NEW q, CostsParts \subseteq DOMAIN q, q.tracker = r.tracker,
             q.busy \subseteq r.busy, \A l \in q.busy : ~CostsOpens(g, l, r),
             Continue(i, q, <<>>)
      PROVE  Goes("costs", CostsParts) /\ page'.tracker \in Nat
  <2>1. Passed("costs", r, q, H, {}, {g})
    BY <1>3, CostsLocksStay
  <2>2. Goes("costs", CostsParts) /\ page' = q
    BY <1>1, <1>2, <1>3, <2>1, ContinueGoes
  <2> QED
    BY <1>1, <1>2, <1>3, <2>2
\* A page p whose lock d the answer released, and the choice after it.
<1>4. ASSUME NEW p, CostsParts \subseteq DOMAIN p, p.tracker = r.tracker,
             p.busy \subseteq r.busy, \A l \in p.busy : ~CostsOpens(g, l, r),
             NEW o, o.tracker = r.tracker,
             NEW s, NEW q, q = ChooseShipment(p, s), Continue(i, q, ContextLoad(o, q))
      PROVE  Goes("costs", CostsParts) /\ page'.tracker \in Nat
  <2>1. /\ CostsParts \subseteq DOMAIN q /\ q.tracker \in Nat
        /\ \/ /\ q.tracker = p.tracker /\ q.busy \subseteq p.busy
              /\ ContextLoad(p, q) = <<>>
           \/ /\ q.busy = p.busy \union {"context"}
              /\ \E c : /\ IsCall(c) /\ c.op = "cost" /\ c.kept = q.tracker
                        /\ ContextLoad(p, q) = <<c>>
    BY <1>1, <1>2, <1>4, ChoiceLoads
  <2>2. Continue(i, q, ContextLoad(p, q))
    BY <1>4 DEF ContextLoad
  <2>3. CASE q.tracker = p.tracker /\ q.busy \subseteq p.busy /\ ContextLoad(p, q) = <<>>
    BY <1>3, <1>4, <2>1, <2>2, <2>3
  <2>4. ASSUME NEW c, IsCall(c), c.op = "cost", c.kept = q.tracker,
               ContextLoad(p, q) = <<c>>, q.busy = p.busy \union {"context"}
        PROVE  Goes("costs", CostsParts) /\ page'.tracker \in Nat
    <3>1. Passed("costs", r, q, H, {c}, {g})
      BY <1>4, <2>4, CostsReloads
    <3>2. Continue(i, q, <<c>>)
      BY <2>2, <2>4
    <3>3. CostsParts \subseteq DOMAIN q
      BY <2>1
    <3>4. Goes("costs", CostsParts) /\ page' = q
      BY <1>1, <1>2, <2>4, <3>1, <3>2, <3>3, ContinueOneGoes
    <3> QED
      BY <2>1, <3>4
  <2> QED
    BY <2>1, <2>3, <2>4
<1>5. ASSUME NEW p, NEW d, p.busy = r.busy \ {d}, \A l : l # d => ~CostsOpens(g, l, r)
      PROVE  p.busy \subseteq r.busy /\ \A l \in p.busy : ~CostsOpens(g, l, r)
  BY <1>5
<1>6. ASSUME ShipmentsLoaded(i)
      PROVE  Goes("costs", CostsParts) /\ page'.tracker \in Nat
  <2>1. g.op = "shipments"
    BY <1>2, <1>6 DEF ShipmentsLoaded, Failed, Succeeded
  <2>2. PICK p : p = [page EXCEPT !.busy = @ \ {"shipments"}]
    OBVIOUS
  <2>8. \A l : l # "shipments" => ~CostsOpens(g, l, r)
    BY <2>1 DEF CostsOpens
  <2>9. /\ CostsParts \subseteq DOMAIN p /\ p.tracker = r.tracker
        /\ p.busy = r.busy \ {"shipments"}
    BY <1>1, <1>2, <2>2 DEF CostsParts
  <2>3. /\ CostsParts \subseteq DOMAIN p /\ p.tracker = r.tracker
        /\ p.busy \subseteq r.busy /\ \A l \in p.busy : ~CostsOpens(g, l, r)
    BY <1>5, <2>8, <2>9
  <2>4. PICK o : o = [p EXCEPT !.offered = TRUE]
    OBVIOUS
  <2>5. CostsParts \subseteq DOMAIN o /\ o.tracker = p.tracker /\ o.busy = p.busy
    BY <2>3, <2>4 DEF CostsParts
  <2>6. CASE Continue(i, p, <<>>)
    BY <1>3, <2>3, <2>6
  <2>7. ASSUME NEW q, q = ChooseShipment(o, "s1"), Continue(i, q, ContextLoad(p, q))
        PROVE  Goes("costs", CostsParts) /\ page'.tracker \in Nat
    BY <1>4, <2>3, <2>5, <2>7
  <2> QED
    BY <1>6, <2>2, <2>4, <2>6, <2>7 DEF ShipmentsLoaded
<1>7. ASSUME ContextLoaded(i)
      PROVE  Goes("costs", CostsParts) /\ page'.tracker \in Nat
  <2>1. g.op = "cost"
    BY <1>2, <1>7 DEF ContextLoaded
  <2>2. CASE g.kept # r.tracker
    <3>1. Continue(i, page, <<>>)
      BY <1>2, <1>7, <2>2 DEF ContextLoaded, IsCurrentRequest
    <3>2. \A l \in r.busy : ~CostsOpens(g, l, r)
      BY <2>1, <2>2 DEF CostsOpens
    <3> QED
      BY <1>1, <1>2, <1>3, <3>1, <3>2
  <2>3. CASE g.kept = r.tracker
    <3>1. PICK q, a, b, f : /\ q = [page EXCEPT !.busy = @ \ {"context"}, !.existing = a,
                                                !.error = b, !.form = f]
                            /\ Continue(i, q, <<>>)
      BY <1>2, <1>7, <2>3 DEF ContextLoaded, IsCurrentRequest
    <3>2. /\ CostsParts \subseteq DOMAIN q /\ q.tracker = r.tracker
          /\ q.busy = r.busy \ {"context"}
      BY <1>1, <1>2, <3>1 DEF CostsParts
    <3>3. \A l \in q.busy : ~CostsOpens(g, l, r)
      BY <2>1, <3>2 DEF CostsOpens
    <3> QED
      BY <1>3, <3>1, <3>2, <3>3
  <2> QED
    BY <2>2, <2>3
<1>8. ASSUME CostsSaved(i)
      PROVE  Goes("costs", CostsParts) /\ page'.tracker \in Nat
  <2>1. g.op = "save"
    BY <1>2, <1>8 DEF CostsSaved
  <2>2. PICK p : p = [page EXCEPT !.busy = @ \ {"saving"}]
    OBVIOUS
  <2>8. \A l : l # "saving" => ~CostsOpens(g, l, r)
    BY <2>1 DEF CostsOpens
  <2>9. /\ CostsParts \subseteq DOMAIN p /\ p.tracker = r.tracker
        /\ p.busy = r.busy \ {"saving"}
    BY <1>1, <1>2, <2>2 DEF CostsParts
  <2>3. /\ CostsParts \subseteq DOMAIN p /\ p.tracker = r.tracker
        /\ p.busy \subseteq r.busy /\ \A l \in p.busy : ~CostsOpens(g, l, r)
    BY <1>5, <2>8, <2>9
  <2>4. PICK s, o, f : /\ o = [p EXCEPT !.existing = TRUE, !.error = FALSE, !.form = f]
                       /\ \/ Continue(i, ChooseShipment(o, s), ContextLoad(p, ChooseShipment(o, s)))
                          \/ Continue(i, p, <<>>)
    BY <1>8, <2>2 DEF CostsSaved
  <2>5. CostsParts \subseteq DOMAIN o /\ o.tracker = p.tracker /\ o.busy = p.busy
    BY <2>3, <2>4 DEF CostsParts
  <2>6. CASE Continue(i, p, <<>>)
    BY <1>3, <2>3, <2>6
  <2>7. ASSUME NEW q, q = ChooseShipment(o, s), Continue(i, q, ContextLoad(p, q))
        PROVE  Goes("costs", CostsParts) /\ page'.tracker \in Nat
    BY <1>4, <2>3, <2>5, <2>7
  <2> QED
    BY <2>4, <2>6, <2>7
<1> QED
  BY <1>6, <1>7, <1>8 DEF CostsReturn

-----------------------------------------------------------------------------
(* The order page.                                                          *)

\* A page whose form and popup are ones of the order page.
OrderKinds(p) ==
    /\ OrderParts \subseteq DOMAIN p /\ p.form \in SaveOps \union {"none"}
    /\ p.popup \in {"cancel", "refund", "none"}

LEMMA OrderStays ==
    ASSUME NEW p, NEW q, NEW H, NEW N, NEW G, q.busy \subseteq p.busy,
           q.tracker = p.tracker,
           \A g \in G : \A l \in q.busy : ~OrderOpens(g, l, p)
    PROVE  Passed("order", p, q, H, N, G)
  BY DEF Passed, Opens, OrderOpens, Alone

LEMMA OrderLocksMore ==
    ASSUME NEW p, NEW q, NEW H, NEW c, NEW S, q.busy = p.busy \union S,
           q.tracker = p.tracker, \A l \in S : OrderOpens(c, l, q)
    PROVE  Passed("order", p, q, H, {c}, {})
  BY DEF Passed, Opens, OrderOpens, Alone

LEMMA OrderLockReloads ==
    ASSUME NEW p, NEW q, NEW H, NEW G, NEW c, c.op = "order", c.kept = q.tracker,
           q.busy = {"order"}
    PROVE  Passed("order", p, q, H, {c}, G)
  BY DEF Passed, Opens, OrderOpens

LEMMA ReloadedKinds ==
    ASSUME NEW p, OrderKinds(p), NEW q, q = Reload(p)
    PROVE  OrderKinds(q) /\ q.busy = {"order"} /\ q.tracker = p.tracker + 1
  BY DEF OrderKinds, OrderParts, Reload, BeginRequest

LEMMA ReloadIsCalled ==
    ASSUME NEW p
    PROVE  \E c : /\ IsCall(c) /\ c.op = "order" /\ c.kept = p.tracker + 1
                  /\ ReloadCall(p) = <<c>>
<1>1. PICK c : c = Call("order", 0, p.tracker + 1)
  OBVIOUS
<1>2. IsCall(c) /\ c.op = "order" /\ c.kept = p.tracker + 1
  BY <1>1, CallSays
<1> QED
  BY <1>1, <1>2 DEF ReloadCall, BeginRequest

LEMMA OrderLockSteps ==
    ASSUME At("order"), OrderLocks, OrderStep
    PROVE  Goes("order", OrderParts) /\ OrderKinds(page')
<1>1. OrderKinds(page) /\ Known(calls)
  BY DEF OrderLocks, LocksOf, OrderKinds, OrderParts
<1>2. PICK r, H : r = page /\ H = Held(calls)
  OBVIOUS
<1>3. ASSUME NEW q, OrderKinds(q), q.busy = r.busy, q.tracker = r.tracker, Become(q)
      PROVE  Goes("order", OrderParts) /\ OrderKinds(page')
  <2>1. Passed("order", r, q, H, {}, {})
    BY <1>3, OrderStays
  <2>2. OrderParts \subseteq DOMAIN q
    BY <1>3 DEF OrderKinds
  <2>3. Goes("order", OrderParts) /\ page' = q
    BY <1>1, <1>2, <1>3, <2>1, <2>2, BecomeGoes
  <2> QED
    BY <1>3, <2>3
<1>4. ASSUME NEW q, OrderKinds(q), NEW c, IsCall(c), Ask(q, <<c>>),
             Passed("order", r, q, H, {c}, {})
      PROVE  Goes("order", OrderParts) /\ OrderKinds(page')
  <2>1. OrderParts \subseteq DOMAIN q
    BY <1>4 DEF OrderKinds
  <2>2. Goes("order", OrderParts) /\ page' = q
    BY <1>1, <1>2, <1>4, <2>1, AskGoes
  <2> QED
    BY <1>4, <2>2
<1>5. ASSUME NEW S, NEW q, q = [page EXCEPT !.busy = @ \union S], NEW op, NEW a,
             Ask(q, <<Call(op, a, page.tracker)>>),
             \A c, p : c.op = op /\ c.arg = a /\ c.kept = p.tracker
                       => \A l \in S : OrderOpens(c, l, p)
      PROVE  Goes("order", OrderParts) /\ OrderKinds(page')
  <2>1. q.busy = r.busy \union S /\ q.tracker = r.tracker /\ OrderKinds(q)
    BY <1>1, <1>2, <1>5 DEF OrderKinds, OrderParts
  <2>2. PICK c, k : k = r.tracker /\ c = Call(op, a, k)
    OBVIOUS
  <2>3. IsCall(c) /\ c.op = op /\ c.arg = a /\ c.kept = q.tracker
    BY <2>1, <2>2, CallSays
  <2>4. Passed("order", r, q, H, {c}, {})
    BY <1>5, <2>1, <2>3, OrderLocksMore
  <2>5. Ask(q, <<c>>)
    BY <1>2, <1>5, <2>2
  <2> QED
    BY <1>4, <2>1, <2>3, <2>4, <2>5
<1>6. ASSUME OpenOrder PROVE Goes("order", OrderParts) /\ OrderKinds(page')
  <2>1. PICK q : q = Reload(r) /\ Ask(q, ReloadCall(r))
    BY <1>2, <1>6 DEF OpenOrder
  <2>2. PICK c : /\ IsCall(c) /\ c.op = "order" /\ c.kept = r.tracker + 1
                 /\ ReloadCall(r) = <<c>>
    BY ReloadIsCalled
  <2>3. OrderKinds(q) /\ q.busy = {"order"} /\ q.tracker = r.tracker + 1
    BY <1>1, <1>2, <2>1, ReloadedKinds
  <2>4. Passed("order", r, q, H, {c}, {})
    BY <2>2, <2>3, OrderLockReloads
  <2> QED
    BY <1>4, <2>1, <2>2, <2>3, <2>4
<1>7. ASSUME loadFullInvoice PROVE Goes("order", OrderParts) /\ OrderKinds(page')
  <2>1. PICK lock, S, q : /\ S = {"details", lock} /\ q = [page EXCEPT !.busy = @ \union S]
                          /\ lock \in {"details", "downloading"}
                          /\ Ask(q, <<Call("full", lock, page.tracker)>>)
    BY <1>7 DEF loadFullInvoice
  <2>2. \A c, p : c.op = "full" /\ c.arg = lock /\ c.kept = p.tracker
                  => \A l \in S : OrderOpens(c, l, p)
    BY <2>1 DEF OrderOpens
  <2> QED
    BY <1>5, <2>1, <2>2
<1>8. ASSUME openGenerateModal PROVE Goes("order", OrderParts) /\ OrderKinds(page')
  <2>1. PICK S, q : /\ S = {"defaults"} /\ q = [page EXCEPT !.busy = @ \union S]
                    /\ Ask(q, <<Call("defaults", 0, page.tracker)>>)
    BY <1>8 DEF openGenerateModal
  <2>2. \A c, p : c.op = "defaults" /\ c.arg = 0 /\ c.kept = p.tracker
                  => \A l \in S : OrderOpens(c, l, p)
    BY <2>1 DEF OrderOpens
  <2> QED
    BY <1>5, <2>1, <2>2
<1>9. ASSUME openEditModal \/ openCloneModal \/ CloseInvoiceForm
      PROVE  Goes("order", OrderParts) /\ OrderKinds(page')
  <2>1. PICK q, a, b, f : /\ Become(q) /\ f \in SaveOps \union {"none"}
                          /\ \/ q = [page EXCEPT !.form = f, !.draft = a]
                             \/ q = [page EXCEPT !.form = f, !.mixed = b]
    BY <1>9 DEF openEditModal, openCloneModal, CloseInvoiceForm, SaveOps
  <2>2. OrderKinds(q) /\ q.busy = r.busy /\ q.tracker = r.tracker
    BY <1>1, <1>2, <2>1 DEF OrderKinds, OrderParts
  <2> QED
    BY <1>3, <2>1, <2>2
<1>10. ASSUME handleSaveInvoice PROVE Goes("order", OrderParts) /\ OrderKinds(page')
  <2>1. PICK S, q, a, op : /\ S = {"saving"} /\ q = [page EXCEPT !.busy = @ \union S]
                           /\ op = page.form /\ op # "none"
                           /\ Ask(q, <<Call(op, a, page.tracker)>>)
    BY <1>10 DEF handleSaveInvoice
  <2>2. op \in SaveOps
    BY <1>1, <2>1 DEF OrderKinds
  <2>3. \A c, p : c.op = op /\ c.arg = a /\ c.kept = p.tracker
                  => \A l \in S : OrderOpens(c, l, p)
    BY <2>1, <2>2 DEF OrderOpens
  <2> QED
    BY <1>5, <2>1, <2>3
<1>11. ASSUME handleSignatureAction
       PROVE  Goes("order", OrderParts) /\ OrderKinds(page')
  <2>1. PICK S, q : /\ S = {"resending"} /\ q = [page EXCEPT !.busy = @ \union S]
                    /\ Ask(q, <<Call("resend", 0, page.tracker)>>)
    BY <1>11 DEF handleSignatureAction
  <2>2. \A c, p : c.op = "resend" /\ c.arg = 0 /\ c.kept = p.tracker
                  => \A l \in S : OrderOpens(c, l, p)
    BY <2>1 DEF OrderOpens
  <2> QED
    BY <1>5, <2>1, <2>2
<1>12. ASSUME openResolution \/ resetModal
       PROVE  Goes("order", OrderParts) /\ OrderKinds(page')
  <2>1. PICK q, f : /\ Become(q) /\ f \in {"cancel", "refund", "none"}
                    /\ q = [page EXCEPT !.popup = f]
    BY <1>12 DEF openResolution, resetModal
  <2>2. OrderKinds(q) /\ q.busy = r.busy /\ q.tracker = r.tracker
    BY <1>1, <1>2, <2>1 DEF OrderKinds, OrderParts
  <2> QED
    BY <1>3, <2>1, <2>2
<1>13. ASSUME handleResolutionSubmit
       PROVE  Goes("order", OrderParts) /\ OrderKinds(page')
  <2>1. PICK S, q, a, op : /\ S = {"resolving"} /\ q = [page EXCEPT !.busy = @ \union S]
                           /\ op = page.popup /\ op # "none"
                           /\ Ask(q, <<Call(op, a, page.tracker)>>)
    BY <1>13 DEF handleResolutionSubmit
  <2>2. op \in {"cancel", "refund"}
    BY <1>1, <2>1 DEF OrderKinds
  <2>3. \A c, p : c.op = op /\ c.arg = a /\ c.kept = p.tracker
                  => \A l \in S : OrderOpens(c, l, p)
    BY <2>1, <2>2 DEF OrderOpens
  <2> QED
    BY <1>5, <2>1, <2>3
<1>14. ASSUME OtherInvoice PROVE Goes("order", OrderParts) /\ OrderKinds(page')
  <2>1. Goes("order", OrderParts) /\ page' = page
    BY <1>14, ElsewhereGoes DEF OtherInvoice, OrderLocks, OrderParts
  <2> QED
    BY <1>1, <2>1
<1> QED
  BY <1>6, <1>7, <1>8, <1>9, <1>10, <1>11, <1>12, <1>13, <1>14 DEF OrderStep

LEMMA OrderPerforms ==
    ASSUME NEW i, OrderServe(i)
    PROVE  Performed(i)
<1>1. Refuse(i) => Performed(i)
  BY DEF Performed, Refuse
<1>2. \A s, b : Perform(i, s, TRUE, b) => Performed(i)
  BY DEF Performed
<1> QED
  BY <1>1, <1>2 DEF OrderServe

LEMMA OrderLockReturns ==
    ASSUME At("order"), OrderLocks, NEW i \in DOMAIN calls, OrderReturn(i)
    PROVE  Goes("order", OrderParts) /\ OrderKinds(page')
<1>1. OrderKinds(page) /\ Known(calls)
  BY DEF OrderLocks, LocksOf, OrderKinds, OrderParts
<1>2. PICK r, H, g : r = page /\ H = Held(calls) /\ g = calls[i]
  OBVIOUS
\* The locks S are released, and the rest is none of the call's.
<1>3. ASSUME NEW S, NEW q, OrderKinds(q), q.tracker = r.tracker, q.busy = r.busy \ S,
             \A l : l \notin S => ~OrderOpens(g, l, r), Continue(i, q, <<>>)
      PROVE  Goes("order", OrderParts) /\ OrderKinds(page')
  <2>1. q.busy \subseteq r.busy /\ \A l \in q.busy : ~OrderOpens(g, l, r)
    BY <1>3
  <2>2. Passed("order", r, q, H, {}, {g})
    BY <1>3, <2>1, OrderStays
  <2>3. OrderParts \subseteq DOMAIN q
    BY <1>3 DEF OrderKinds
  <2>4. Goes("order", OrderParts) /\ page' = q
    BY <1>1, <1>2, <1>3, <2>2, <2>3, ContinueGoes
  <2> QED
    BY <1>3, <2>4
\* The panel is gone.
<1>4. ASSUME g.kept # r.tracker, Continue(i, page, <<>>)
      PROVE  Goes("order", OrderParts) /\ OrderKinds(page')
  <2>1. PICK S : S = {}
    OBVIOUS
  <2>2. r.busy = r.busy \ S /\ \A l : ~OrderOpens(g, l, r)
    BY <1>4, <2>1 DEF OrderOpens
  <2> QED
    BY <1>1, <1>2, <1>3, <1>4, <2>2
<1>5. ASSUME Continue(i, ReloadAfter(i), ReloadCall(page))
      PROVE  Goes("order", OrderParts) /\ OrderKinds(page')
  <2>1. PICK o, q, a : /\ o = Reload(r) /\ q = [o EXCEPT !.mixed = a]
                       /\ Continue(i, q, ReloadCall(r))
    BY <1>2, <1>5 DEF ReloadAfter
  <2>2. PICK c : /\ IsCall(c) /\ c.op = "order" /\ c.kept = r.tracker + 1
                 /\ ReloadCall(r) = <<c>>
    BY ReloadIsCalled
  <2>3. OrderKinds(o) /\ o.busy = {"order"} /\ o.tracker = r.tracker + 1
    BY <1>1, <1>2, <2>1, ReloadedKinds
  <2>4. OrderKinds(q) /\ q.busy = {"order"} /\ q.tracker = r.tracker + 1
    BY <2>1, <2>3 DEF OrderKinds, OrderParts
  <2>5. Passed("order", r, q, H, {c}, {g})
    BY <2>2, <2>4, OrderLockReloads
  <2>6. Continue(i, q, <<c>>) /\ IsCall(c) /\ OrderParts \subseteq DOMAIN q
    BY <2>1, <2>2, <2>4 DEF OrderKinds
  <2>7. Goes("order", OrderParts) /\ page' = q
    BY <1>1, <1>2, <2>5, <2>6, ContinueOneGoes
  <2> QED
    BY <2>4, <2>7
<1>6. ASSUME NEW S, NEW p, p = [page EXCEPT !.busy = @ \ S]
      PROVE  p.busy = r.busy \ S /\ p.tracker = r.tracker /\ OrderKinds(p)
  BY <1>1, <1>2, <1>6 DEF OrderKinds, OrderParts
<1>7. ASSUME OrderAnswered(i) PROVE Goes("order", OrderParts) /\ OrderKinds(page')
  <2>1. g.op = "order"
    BY <1>2, <1>7 DEF OrderAnswered
  <2>2. CASE g.kept # r.tracker
    BY <1>2, <1>4, <1>7, <2>2 DEF OrderAnswered, IsCurrentRequest
  <2>3. CASE g.kept = r.tracker
    <3>1. PICK S, p, q, a, b : /\ S = {"order"} /\ p = [page EXCEPT !.busy = @ \ S]
                               /\ \/ q = [p EXCEPT !.failed = TRUE]
                                  \/ q = [p EXCEPT !.order = a, !.panel = b]
                               /\ Continue(i, q, <<>>)
      BY <1>2, <1>7, <2>3 DEF OrderAnswered, IsCurrentRequest
    <3>2. p.busy = r.busy \ S /\ p.tracker = r.tracker /\ OrderKinds(p)
      BY <1>6, <3>1
    <3>3. q.busy = r.busy \ S /\ q.tracker = r.tracker /\ OrderKinds(q)
      BY <3>1, <3>2 DEF OrderKinds, OrderParts
    <3>4. \A l : l \notin S => ~OrderOpens(g, l, r)
      BY <2>1, <3>1 DEF OrderOpens, SaveOps
    <3> QED
      BY <1>3, <3>1, <3>3, <3>4
  <2> QED
    BY <2>2, <2>3
<1>8. ASSUME InvoiceLoaded(i) PROVE Goes("order", OrderParts) /\ OrderKinds(page')
  <2>1. g.op = "full"
    BY <1>2, <1>8 DEF InvoiceLoaded
  <2>2. CASE g.kept # r.tracker
    BY <1>2, <1>4, <1>8, <2>2 DEF InvoiceLoaded, Mounted
  <2>3. CASE g.kept = r.tracker
    <3>1. PICK S, p, q, a : /\ S = {"details", g.arg} /\ p = [page EXCEPT !.busy = @ \ S]
                            /\ q = p \/ q = [p EXCEPT !.panel = a, !.full = TRUE]
                            /\ Continue(i, q, <<>>)
      BY <1>2, <1>8, <2>3 DEF InvoiceLoaded, Mounted
    <3>2. p.busy = r.busy \ S /\ p.tracker = r.tracker /\ OrderKinds(p)
      BY <1>6, <3>1
    <3>3. q.busy = r.busy \ S /\ q.tracker = r.tracker /\ OrderKinds(q)
      BY <3>1, <3>2 DEF OrderKinds, OrderParts
    <3>4. \A l : l \notin S => ~OrderOpens(g, l, r)
      BY <2>1, <3>1 DEF OrderOpens, SaveOps
    <3> QED
      BY <1>3, <3>1, <3>3, <3>4
  <2> QED
    BY <2>2, <2>3
<1>9. ASSUME DefaultsLoaded(i) PROVE Goes("order", OrderParts) /\ OrderKinds(page')
  <2>1. g.op = "defaults"
    BY <1>2, <1>9 DEF DefaultsLoaded
  <2>2. CASE g.kept # r.tracker
    BY <1>2, <1>4, <1>9, <2>2 DEF DefaultsLoaded, Mounted
  <2>3. CASE g.kept = r.tracker
    <3>1. PICK S, p, q : /\ S = {"defaults"} /\ p = [page EXCEPT !.busy = @ \ S]
                         /\ q = p \/ q = [p EXCEPT !.form = "create", !.draft = 1]
                         /\ Continue(i, q, <<>>)
      BY <1>2, <1>9, <2>3 DEF DefaultsLoaded, Mounted
    <3>2. p.busy = r.busy \ S /\ p.tracker = r.tracker /\ OrderKinds(p)
      BY <1>6, <3>1
    <3>3. q.busy = r.busy \ S /\ q.tracker = r.tracker /\ OrderKinds(q)
      BY <3>1, <3>2 DEF OrderKinds, OrderParts, SaveOps
    <3>4. \A l : l \notin S => ~OrderOpens(g, l, r)
      BY <2>1, <3>1 DEF OrderOpens, SaveOps
    <3> QED
      BY <1>3, <3>1, <3>3, <3>4
  <2> QED
    BY <2>2, <2>3
\* A failed save: its lock is released if its panel is mounted.
<1>10. ASSUME NEW lock, \A l : l # lock => ~OrderOpens(g, l, r),
              \/ g.kept # r.tracker /\ Continue(i, page, <<>>)
              \/ Continue(i, [page EXCEPT !.busy = @ \ {lock}], <<>>)
       PROVE  Goes("order", OrderParts) /\ OrderKinds(page')
  <2>1. CASE g.kept # r.tracker /\ Continue(i, page, <<>>)
    BY <1>4, <2>1
  <2>2. CASE Continue(i, [page EXCEPT !.busy = @ \ {lock}], <<>>)
    <3>1. PICK S, p : /\ S = {lock} /\ p = [page EXCEPT !.busy = @ \ S]
                      /\ Continue(i, p, <<>>)
      BY <2>2
    <3>2. p.busy = r.busy \ S /\ p.tracker = r.tracker /\ OrderKinds(p)
      BY <1>6, <3>1
    <3>3. \A l : l \notin S => ~OrderOpens(g, l, r)
      BY <1>10, <3>1
    <3> QED
      BY <1>3, <3>1, <3>2, <3>3
  <2> QED
    BY <1>10, <2>1, <2>2
<1>11. ASSUME InvoiceSaved(i) PROVE Goes("order", OrderParts) /\ OrderKinds(page')
  <2>1. PICK lock : lock = IF g.op = "resend" THEN "resending" ELSE "saving"
    OBVIOUS
  <2>2. g.op \in SaveOps \union {"resend"}
    BY <1>2, <1>11 DEF InvoiceSaved
  <2>3. \A l : l # lock => ~OrderOpens(g, l, r)
    BY <2>1, <2>2 DEF OrderOpens, SaveOps
  <2>4. \/ Continue(i, ReloadAfter(i), ReloadCall(page))
        \/ g.kept # r.tracker /\ Continue(i, page, <<>>)
        \/ Continue(i, [page EXCEPT !.busy = @ \ {lock}], <<>>)
    BY <1>2, <1>11, <2>1 DEF InvoiceSaved, Mounted
  <2> QED
    BY <1>5, <1>10, <2>3, <2>4
<1>12. ASSUME Resolved(i) PROVE Goes("order", OrderParts) /\ OrderKinds(page')
  <2>1. g.op \in {"cancel", "refund"}
    BY <1>2, <1>12 DEF Resolved
  <2>2. \A l : l # "resolving" => ~OrderOpens(g, l, r)
    BY <2>1 DEF OrderOpens, SaveOps
  <2>3. \/ Continue(i, ReloadAfter(i), ReloadCall(page))
        \/ g.kept # r.tracker /\ Continue(i, page, <<>>)
        \/ Continue(i, [page EXCEPT !.busy = @ \ {"resolving"}], <<>>)
    BY <1>2, <1>12 DEF Resolved, Mounted
  <2> QED
    BY <1>5, <1>10, <2>2, <2>3
<1> QED
  BY <1>7, <1>8, <1>9, <1>11, <1>12 DEF OrderReturn

-----------------------------------------------------------------------------
(* The notification bell.                                                   *)

\* Its locks do not depend on the page: those of q are p's, without those
\* that a call that is gone opened, or opened by a new call.
LEMMA BellPasses ==
    ASSUME NEW p, NEW q, NEW H, NEW N, NEW G,
           \A l \in q.busy : \/ l \in p.busy /\ \A g \in G : ~BellOpens(g, l, p)
                             \/ \E c \in N : BellOpens(c, l, q)
    PROVE  Passed("bell", p, q, H, N, G)
<1>1. \A c, l : BellOpens(c, l, p) <=> BellOpens(c, l, q)
  BY DEF BellOpens
<1>2. \A c, l, o : Opens("bell", c, l, o) <=> BellOpens(c, l, o)
  BY DEF Opens
<1>3. \A o : Alone("bell", o) = {}
  BY DEF Alone
<1> QED
  BY <1>1, <1>2, <1>3 DEF Passed

LEMMA RefreshIsCalled ==
    ASSUME NEW p, NEW lock, NEW close
    PROVE  \E c : /\ IsCall(c) /\ c.op = "refresh" /\ c.kept.lock = lock
                  /\ refreshNotifications(p, lock, close) = <<c>>
<1>1. PICK k, c : /\ k = [lock |-> lock, close |-> close]
                  /\ c = Call("refresh", [unreadOnly |-> p.unreadOnly], k)
  OBVIOUS
<1>2. IsCall(c) /\ c.op = "refresh" /\ c.kept = k /\ k.lock = lock
  BY <1>1, CallSays
<1> QED
  BY <1>1, <1>2 DEF refreshNotifications

LEMMA MixedBell ==
    ASSUME NEW p, "busy" \in DOMAIN p, NEW q, q = Mix(p)
    PROVE  "busy" \in DOMAIN q /\ q.busy = p.busy /\ DOMAIN q = DOMAIN p
  BY DEF Mix

\* The screen before the backend has answered is locked.
LEMMA OptimisticLocks ==
    ASSUME NEW p, "busy" \in DOMAIN p, NEW ids, NEW stage, NEW q,
           q = Optimistic(p, ids, stage)
    PROVE  "busy" \in DOMAIN q /\ q.busy = p.busy \union {"mutating"}
<1>1. PICK o, a, b : /\ o = Mix(p)
                     /\ q = [o EXCEPT !.list = a, !.badge = b, !.busy = @ \union {"mutating"}]
  BY DEF Optimistic
<1>2. "busy" \in DOMAIN o /\ o.busy = p.busy
  BY <1>1, MixedBell
<1> QED
  BY <1>1, <1>2

LEMMA BellLockSteps ==
    ASSUME At("bell"), BellLocks, BellStep
    PROVE  Goes("bell", {"busy"})
<1>1. "busy" \in DOMAIN page /\ Known(calls)
  BY DEF BellLocks, LocksOf
<1>2. PICK r, H : r = page /\ H = Held(calls)
  OBVIOUS
<1>3. ASSUME NEW l, NEW q, "busy" \in DOMAIN q, q.busy = r.busy \union {l},
             NEW c, IsCall(c), BellOpens(c, l, q), Ask(q, <<c>>)
      PROVE  Goes("bell", {"busy"})
  <2>1. Passed("bell", r, q, H, {c}, {})
    BY <1>3, BellPasses
  <2> QED
    BY <1>1, <1>2, <1>3, <2>1, AskGoes
<1>4. ASSUME BellPoll PROVE Goes("bell", {"busy"})
  <2>1. PICK c, q, a : /\ c = Call("count", <<>>, <<>>) /\ q = [page EXCEPT !.mixed = a]
                       /\ calls' = Append(calls, c) /\ page' = q /\ mounted' = mounted
    BY <1>4 DEF BellPoll
  <2>2. PICK new, S : new = <<c>> /\ calls \in Seq(S)
    BY <1>1 DEF Known, IsCalls
  <2>3. new \in Seq({c}) /\ Held(new) = {c} /\ calls' = calls \o new
    BY <2>1, <2>2, HeldOne
  <2>4. Held(calls') = Held(calls) \union {c}
    BY ZenonT(60), <2>2, <2>3, HeldJoined
  <2>5. IsCall(c)
    BY <2>1, CallSays
  <2>6. Known(calls')
    <3>1. calls' \in Seq(S \union {c})
      BY <2>2, <2>3
    <3>2. \A x \in Held(calls') : IsCall(x)
      BY <1>1, <2>4, <2>5 DEF Known, Held
    <3> QED
      BY <3>1, <3>2 DEF Known, IsCalls, Held
  <2>7. Turns(q, {c}, {})
    BY <2>1, <2>4, <2>6 DEF Turns
  <2>8. q.busy = r.busy /\ "busy" \in DOMAIN q
    BY <1>1, <1>2, <2>1
  <2>9. Passed("bell", r, q, H, {c}, {})
    BY <2>8, BellPasses
  <2> QED
    BY <1>2, <2>7, <2>8, <2>9 DEF Goes
<1>5. ASSUME handleToggle PROVE Goes("bell", {"busy"})
  <2>1. CASE Become([page EXCEPT !.open = FALSE])
    <3>1. PICK q : q = [page EXCEPT !.open = FALSE] /\ Become(q)
      BY <2>1
    <3>2. q.busy = r.busy /\ {"busy"} \subseteq DOMAIN q
      BY <1>1, <1>2, <3>1
    <3>3. Passed("bell", r, q, H, {}, {})
      BY <3>2, BellPasses
    <3> QED
      BY <1>1, <1>2, <3>1, <3>2, <3>3, BecomeGoes
  <2>2. CASE ~Become([page EXCEPT !.open = FALSE])
    <3>1. PICK q, a : /\ q = [page EXCEPT !.open = TRUE, !.busy = @ \union {"loading"},
                                          !.mixed = a]
                      /\ Ask(q, refreshNotifications(q, "loading", FALSE))
      BY <1>5, <2>2 DEF handleToggle
    <3>2. PICK c : /\ IsCall(c) /\ c.op = "refresh" /\ c.kept.lock = "loading"
                   /\ refreshNotifications(q, "loading", FALSE) = <<c>>
      BY RefreshIsCalled
    <3>3. q.busy = r.busy \union {"loading"} /\ "busy" \in DOMAIN q
      BY <1>1, <1>2, <3>1
    <3>4. BellOpens(c, "loading", q)
      BY <3>2 DEF BellOpens
    <3> QED
      BY <1>3, <3>1, <3>2, <3>3, <3>4
  <2> QED
    BY <2>1, <2>2
<1>6. ASSUME handleFilterChange PROVE Goes("bell", {"busy"})
  <2>1. PICK u, o, q : /\ o = Mix(r)
                    /\ q = [o EXCEPT !.unreadOnly = u, !.busy = @ \union {"loading"}]
                    /\ Ask(q, refreshNotifications(q, "loading", FALSE))
    BY <1>2, <1>6 DEF handleFilterChange
  <2>2. PICK c : /\ IsCall(c) /\ c.op = "refresh" /\ c.kept.lock = "loading"
                 /\ refreshNotifications(q, "loading", FALSE) = <<c>>
    BY RefreshIsCalled
  <2>3. o.busy = r.busy /\ "busy" \in DOMAIN o
    BY <1>1, <1>2, <2>1, MixedBell
  <2>4. q.busy = r.busy \union {"loading"} /\ "busy" \in DOMAIN q
    BY <2>1, <2>3
  <2>5. BellOpens(c, "loading", q)
    BY <2>2 DEF BellOpens
  <2> QED
    BY ZenonT(60), <1>3, <2>1, <2>2, <2>4, <2>5
<1>7. ASSUME RefreshButton PROVE Goes("bell", {"busy"})
  <2>1. PICK o, q : /\ o = Mix(r) /\ q = [o EXCEPT !.busy = @ \union {"refreshing"}]
                    /\ Ask(q, refreshNotifications(r, "refreshing", FALSE))
    BY <1>2, <1>7 DEF RefreshButton
  <2>2. PICK c : /\ IsCall(c) /\ c.op = "refresh" /\ c.kept.lock = "refreshing"
                 /\ refreshNotifications(r, "refreshing", FALSE) = <<c>>
    BY RefreshIsCalled
  <2>3. o.busy = r.busy /\ "busy" \in DOMAIN o
    BY <1>1, <1>2, <2>1, MixedBell
  <2>4. q.busy = r.busy \union {"refreshing"} /\ "busy" \in DOMAIN q
    BY <2>1, <2>3
  <2>5. BellOpens(c, "refreshing", q)
    BY <2>2 DEF BellOpens
  <2> QED
    BY ZenonT(60), <1>3, <2>1, <2>2, <2>4, <2>5
<1>8. ASSUME NEW p, NEW ids, NEW stage, p = Optimistic(r, ids, stage), NEW q,
             q = p \/ q = [p EXCEPT !.badge = 0], NEW op, NEW a, NEW k,
             op \in {"markAll", "clearAll", "clearGroup", "markGroup"},
             Ask(q, <<Call(op, a, k)>>)
      PROVE  Goes("bell", {"busy"})
  <2>1. "busy" \in DOMAIN p /\ p.busy = r.busy \union {"mutating"}
    BY <1>1, <1>2, <1>8, OptimisticLocks
  <2>2. "busy" \in DOMAIN q /\ q.busy = r.busy \union {"mutating"}
    BY <1>8, <2>1
  <2>3. PICK c : c = Call(op, a, k)
    OBVIOUS
  <2>4. IsCall(c) /\ c.op = op
    BY <2>3, CallSays
  <2>5. BellOpens(c, "mutating", q)
    BY <1>8, <2>4 DEF BellOpens
  <2>6. Ask(q, <<c>>)
    BY <1>8, <2>3
  <2> QED
    BY <1>3, <2>2, <2>4, <2>5, <2>6
<1>9. handleMarkAllRead => Goes("bell", {"busy"})
  BY <1>2, <1>8 DEF handleMarkAllRead
<1>10. handleClearAll => Goes("bell", {"busy"})
  BY <1>2, <1>8 DEF handleClearAll
<1>11. markGroupRead => Goes("bell", {"busy"})
  BY <1>2, <1>8 DEF markGroupRead
<1>12. handleClearGroup => Goes("bell", {"busy"})
  BY <1>2, <1>8 DEF handleClearGroup
<1>13. createForRecipients => Goes("bell", {"busy"})
  BY ElsewhereGoes DEF createForRecipients, BellLocks
<1> QED
  BY <1>4, <1>5, <1>6, <1>7, <1>9, <1>10, <1>11, <1>12, <1>13 DEF BellStep

LEMMA BellPerforms ==
    ASSUME NEW i, BellServe(i)
    PROVE  Performed(i)
  BY DEF BellServe, Performed

\* The refresh after a change takes the place of its call.
LEMMA RefreshGoes ==
    ASSUME Known(calls), "busy" \in DOMAIN page, NEW i \in DOMAIN calls, NEW close,
           RefreshAfter(i, close), \A l : l # "mutating" => ~BellOpens(calls[i], l, page)
    PROVE  Goes("bell", {"busy"})
<1>1. PICK r, H, g, p : r = page /\ H = Held(calls) /\ g = calls[i]
                        /\ p = [page EXCEPT !.unreadOnly = calls[i].arg.unreadOnly]
  OBVIOUS
<1>2. PICK c : /\ IsCall(c) /\ c.op = "refresh" /\ c.kept.lock = "mutating"
               /\ refreshNotifications(p, "mutating", close) = <<c>>
  BY RefreshIsCalled
<1>3. PICK S : calls \in Seq(S)
  BY DEF Known, IsCalls
<1>4. PICK rest, new : rest = RemoveAt(calls, i) /\ new = <<c>>
  OBVIOUS
<1>5. calls' = rest \o new /\ page' = r /\ mounted' = mounted
  BY <1>1, <1>2, <1>4 DEF RefreshAfter
<1>6. rest \in Seq(S)
  BY <1>3, <1>4, RemovedCalls
<1>7. new \in Seq({c}) /\ Held(new) = {c}
  BY <1>4, HeldOne
<1>8. Held(rest \o new) = Held(rest) \union Held(new)
  BY <1>6, <1>7, HeldJoined
<1>9. Held(calls') = Held(rest) \union {c}
  BY <1>5, <1>7, <1>8
<1>10. /\ \A k \in DOMAIN rest : \E m \in DOMAIN calls : rest[k] = calls[m]
       /\ \A n \in DOMAIN calls : n = i \/ \E k \in DOMAIN rest : rest[k] = calls[n]
  BY <1>3, <1>4, OthersMoveUp
<1>11. /\ Held(rest) \subseteq Held(calls)
       /\ \A x \in Held(calls) : x = calls[i] \/ x \in Held(rest)
  BY <1>10 DEF Held
<1>12. Known(calls')
  <2>1. calls' \in Seq(S \union {c})
    BY <1>5, <1>6, <1>7
  <2>2. \A x \in Held(calls') : IsCall(x)
    BY <1>2, <1>9, <1>11 DEF Known, Held
  <2> QED
    BY <2>1, <2>2 DEF Known, IsCalls, Held
<1>13. Turns(r, {c}, {g})
  BY <1>1, <1>5, <1>9, <1>11, <1>12 DEF Turns
<1>14. BellOpens(c, "mutating", r)
  BY <1>2 DEF BellOpens
<1>15. Passed("bell", r, r, H, {c}, {g})
  BY <1>1, <1>14, BellPasses
<1> QED
  BY <1>1, <1>13, <1>15 DEF Goes

LEMMA BellLockReturns ==
    ASSUME At("bell"), BellLocks, NEW i \in DOMAIN calls, BellReturn(i)
    PROVE  Goes("bell", {"busy"})
<1>1. "busy" \in DOMAIN page /\ Known(calls)
  BY DEF BellLocks, LocksOf
<1>2. PICK r, H, g : r = page /\ H = Held(calls) /\ g = calls[i]
  OBVIOUS
<1>3. ASSUME NEW q, "busy" \in DOMAIN q, Continue(i, q, <<>>), q.busy \subseteq r.busy,
             \A l \in q.busy : ~BellOpens(g, l, r)
      PROVE  Goes("bell", {"busy"})
  <2>1. Passed("bell", r, q, H, {}, {g})
    BY <1>3, BellPasses
  <2> QED
    BY <1>1, <1>2, <1>3, <2>1, ContinueGoes
<1>4. ASSUME NEW close, RefreshAfter(i, close),
             \A l : l # "mutating" => ~BellOpens(g, l, r)
      PROVE  Goes("bell", {"busy"})
  BY <1>1, <1>2, <1>4, RefreshGoes
<1>5. ASSUME refreshUnreadCount(i) PROVE Goes("bell", {"busy"})
  <2>1. PICK q, a : /\ q = [page EXCEPT !.badge = a] \/ q = page
                    /\ Continue(i, q, <<>>)
    BY <1>5 DEF refreshUnreadCount
  <2>2. q.busy = r.busy /\ "busy" \in DOMAIN q
    BY <1>1, <1>2, <2>1
  <2>3. \A l : ~BellOpens(g, l, r)
    BY <1>2, <1>5 DEF refreshUnreadCount, BellOpens
  <2> QED
    BY <1>3, <2>1, <2>2, <2>3
<1>6. ASSUME NotificationsLoaded(i) PROVE Goes("bell", {"busy"})
  <2>1. PICK p, q, a, b, o : /\ p = [page EXCEPT !.busy = @ \ {g.kept.lock}, !.open = o]
                             /\ q = p \/ q = [p EXCEPT !.list = a, !.badge = b]
                             /\ Continue(i, q, <<>>)
    BY <1>2, <1>6 DEF NotificationsLoaded
  <2>2. p.busy = r.busy \ {g.kept.lock} /\ "busy" \in DOMAIN p
    BY <1>1, <1>2, <2>1
  <2>3. q.busy = r.busy \ {g.kept.lock} /\ "busy" \in DOMAIN q
    BY <2>1, <2>2
  <2>4. \A l : l # g.kept.lock => ~BellOpens(g, l, r)
    BY <1>2, <1>6 DEF NotificationsLoaded, BellOpens
  <2> QED
    BY <1>3, <2>1, <2>3, <2>4
<1>7. ASSUME NEW p, NEW q, NEW a, NEW b, p = [page EXCEPT !.busy = @ \ {"mutating"}],
             q = p \/ q = [p EXCEPT !.list = a, !.badge = b] \/ q = [p EXCEPT !.open = a],
             Continue(i, q, <<>>), \A l : l # "mutating" => ~BellOpens(g, l, r)
      PROVE  Goes("bell", {"busy"})
  <2>1. p.busy = r.busy \ {"mutating"} /\ "busy" \in DOMAIN p
    BY <1>1, <1>2, <1>7
  <2>2. q.busy = r.busy \ {"mutating"} /\ "busy" \in DOMAIN q
    BY <1>7, <2>1
  <2> QED
    BY <1>3, <1>7, <2>2
<1>8. ASSUME ClearAnswered(i) PROVE Goes("bell", {"busy"})
  <2>1. \A l : l # "mutating" => ~BellOpens(g, l, r)
    BY <1>2, <1>8 DEF ClearAnswered, BellOpens
  <2>2. PICK p, a, b :
           /\ p = [page EXCEPT !.busy = @ \ {"mutating"}]
           /\ \/ Continue(i, [p EXCEPT !.list = a, !.badge = b], <<>>)
              \/ Continue(i, p, <<>>)
              \/ RefreshAfter(i, FALSE)
    BY <1>8 DEF ClearAnswered
  <2> QED
    BY <1>2, <1>4, <1>7, <2>1, <2>2
<1>9. ASSUME GroupMarked(i) PROVE Goes("bell", {"busy"})
  <2>1. \A l : l # "mutating" => ~BellOpens(g, l, r)
    BY <1>2, <1>9 DEF GroupMarked, BellOpens
  <2>2. CASE Continue(i, [page EXCEPT !.busy = @ \ {"mutating"}, !.open = FALSE], <<>>)
    <3>1. PICK q : /\ q = [page EXCEPT !.busy = @ \ {"mutating"}, !.open = FALSE]
                   /\ Continue(i, q, <<>>)
      BY <2>2
    <3>2. q.busy = r.busy \ {"mutating"} /\ "busy" \in DOMAIN q
      BY <1>1, <1>2, <3>1
    <3> QED
      BY <1>3, <2>1, <3>1, <3>2
  <2>3. CASE ~Continue(i, [page EXCEPT !.busy = @ \ {"mutating"}, !.open = FALSE], <<>>)
    <3>1. PICK close : RefreshAfter(i, close)
      BY <1>9, <2>3 DEF GroupMarked
    <3> QED
      BY <1>2, <1>4, <2>1, <3>1
  <2> QED
    BY <2>2, <2>3
<1> QED
  BY <1>5, <1>6, <1>8, <1>9 DEF BellReturn

-----------------------------------------------------------------------------
(* The accounts page.                                                       *)

\* Its locks do not depend on the page either.
LEMMA UsersPasses ==
    ASSUME NEW p, NEW q, NEW H, NEW N, NEW G,
           \A l \in q.busy : \/ l \in p.busy /\ \A g \in G : ~UsersOpens(g, l, p)
                             \/ \E c \in N : UsersOpens(c, l, q)
    PROVE  Passed("users", p, q, H, N, G)
<1>1. \A c, l : UsersOpens(c, l, p) <=> UsersOpens(c, l, q)
  BY DEF UsersOpens
<1>2. \A c, l, o : Opens("users", c, l, o) <=> UsersOpens(c, l, o)
  BY DEF Opens
<1>3. \A o : Alone("users", o) = {}
  BY DEF Alone
<1> QED
  BY <1>1, <1>2, <1>3 DEF Passed

LEMMA MixedUsers ==
    ASSUME NEW p, "busy" \in DOMAIN p, NEW q, q = Mixed(p)
    PROVE  "busy" \in DOMAIN q /\ q.busy = p.busy
  BY DEF Mixed

LEMMA UsersAreLoaded ==
    ASSUME NEW lock
    PROVE  \E c : /\ IsCall(c) /\ c.op = "users" /\ c.kept = lock
                  /\ loadUsers(lock) = <<c>>
<1>1. PICK c : c = Call("users", 0, lock)
  OBVIOUS
<1>2. IsCall(c) /\ c.op = "users" /\ c.kept = lock
  BY <1>1, CallSays
<1> QED
  BY <1>1, <1>2 DEF loadUsers

\* What holds after a step of the page.
AccountsGo == Goes("users", {"busy"}) /\ \A c \in Held(calls') : AccountsCall(c)

LEMMA UsersLockSteps ==
    ASSUME At("users"), UsersLocks, UsersStep
    PROVE  AccountsGo
<1>1. /\ "busy" \in DOMAIN page /\ Known(calls)
      /\ \A c \in Held(calls) : AccountsCall(c)
  BY DEF UsersLocks, LocksOf
<1>2. PICK r, H : r = page /\ H = Held(calls)
  OBVIOUS
<1>3. ASSUME NEW q, "busy" \in DOMAIN q, NEW c, IsCall(c), AccountsCall(c), Ask(q, <<c>>),
             \A l \in q.busy : l \in r.busy \/ UsersOpens(c, l, q)
      PROVE  AccountsGo
  <2>1. Passed("users", r, q, H, {c}, {})
    BY <1>3, UsersPasses
  <2>2. Goes("users", {"busy"}) /\ Held(calls') \subseteq Held(calls) \union {c}
    BY <1>1, <1>2, <1>3, <2>1, AskGoes
  <2> QED
    BY <1>1, <1>3, <2>2 DEF AccountsGo
<1>4. ASSUME NEW q, "busy" \in DOMAIN q, Become(q), q.busy \subseteq r.busy
      PROVE  AccountsGo
  <2>1. Passed("users", r, q, H, {}, {})
    BY <1>4, UsersPasses
  <2>2. Goes("users", {"busy"}) /\ Held(calls') \subseteq Held(calls)
    BY <1>1, <1>2, <1>4, <2>1, BecomeGoes
  <2> QED
    BY <1>1, <2>2 DEF AccountsGo
<1>5. ASSUME OpenUsers PROVE AccountsGo
  <2>1. PICK q : q = [page EXCEPT !.busy = {"users"}] /\ Ask(q, loadUsers("users"))
    BY <1>5 DEF OpenUsers
  <2>2. PICK c : /\ IsCall(c) /\ c.op = "users" /\ c.kept = "users"
                 /\ loadUsers("users") = <<c>>
    BY UsersAreLoaded
  <2>3. "busy" \in DOMAIN q /\ q.busy = {"users"}
    BY <1>1, <2>1
  <2>4. AccountsCall(c) /\ UsersOpens(c, "users", q)
    BY <2>2 DEF AccountsCall, UsersOpens
  <2> QED
    BY <1>3, <2>1, <2>2, <2>3, <2>4
<1>6. ASSUME SelectUser PROVE AccountsGo
  <2>1. PICK p : /\ Become(Mixed(p))
                 /\ \/ \E u : p = Selected(r, u, r.users[u])
                    \/ p = [r EXCEPT !.selected = ""]
    BY ZenonT(60), <1>2, <1>6 DEF SelectUser
  <2>2. "busy" \in DOMAIN p /\ p.busy \subseteq r.busy
    BY <1>1, <1>2, <2>1 DEF Selected
  <2>3. PICK q : q = Mixed(p)
    OBVIOUS
  <2>4. "busy" \in DOMAIN q /\ q.busy = p.busy
    BY <2>2, <2>3, MixedUsers
  <2> QED
    BY <1>4, <2>1, <2>2, <2>3, <2>4
<1>7. ASSUME NEW op \in AccountOps, NEW lock \in AccountLocks, NEW a,
             Ask(Mixed([page EXCEPT !.busy = @ \union {lock}]), <<Call(op, a, lock)>>)
      PROVE  AccountsGo
  <2>1. PICK p, q, c : /\ p = [page EXCEPT !.busy = @ \union {lock}] /\ q = Mixed(p)
                       /\ c = Call(op, a, lock) /\ Ask(q, <<c>>)
    BY <1>7
  <2>2. "busy" \in DOMAIN p /\ p.busy = r.busy \union {lock}
    BY <1>1, <1>2, <2>1
  <2>3. "busy" \in DOMAIN q /\ q.busy = r.busy \union {lock}
    BY <2>1, <2>2, MixedUsers
  <2>4. IsCall(c) /\ c.op = op /\ c.kept = lock
    BY <2>1, CallSays
  <2>5. AccountsCall(c) /\ UsersOpens(c, lock, q)
    BY <1>7, <2>4 DEF AccountsCall, UsersOpens
  <2> QED
    BY <1>3, <2>1, <2>3, <2>4, <2>5
<1>8. CreateUser => AccountsGo
  BY <1>7 DEF CreateUser, AccountOps, AccountLocks
<1>9. ASSUME handleAccountUpdate PROVE AccountsGo
  <2>1. PICK a : Ask(Mixed([page EXCEPT !.busy = @ \union {"account"}]),
                     <<Call("update", a, "account")>>)
    BY <1>9 DEF handleAccountUpdate
  <2> QED
    BY <1>7, <2>1 DEF AccountOps, AccountLocks
<1>10. ASSUME handleUserStatusUpdate PROVE AccountsGo
  <2>1. PICK a : Ask(Mixed([page EXCEPT !.busy = @ \union {"status"}]),
                     <<Call("access", a, "status")>>)
    BY <1>10 DEF handleUserStatusUpdate
  <2> QED
    BY <1>7, <2>1 DEF AccountOps, AccountLocks
<1>11. ASSUME handleDeleteUser PROVE AccountsGo
  <2>1. PICK a : Ask(Mixed([page EXCEPT !.busy = @ \union {"deleting"}]),
                     <<Call("delete", a, "deleting")>>)
    BY <1>11 DEF handleDeleteUser
  <2> QED
    BY <1>7, <2>1 DEF AccountOps, AccountLocks
<1>12. ASSUME OtherAdmin PROVE AccountsGo
  <2>1. PICK s : Elsewhere(s)
    BY <1>12 DEF OtherAdmin
  <2>2. Goes("users", {"busy"}) /\ Held(calls') = Held(calls)
    BY <2>1, ElsewhereGoes DEF UsersLocks
  <2> QED
    BY <1>1, <2>2 DEF AccountsGo
<1> QED
  BY <1>5, <1>6, <1>8, <1>9, <1>10, <1>11, <1>12 DEF UsersStep

\* An operation on an account is performed in two halves.
LEMMA UsersAdvance ==
    ASSUME Known(calls), NEW i \in DOMAIN calls, UsersServe(i)
    PROVE  Advances(i)
<1>1. \A s, ok, b : Perform(i, s, ok, b) => Advances(i)
  BY PerformedAdvances DEF Performed
<1>2. Refuse(i) => Advances(i)
  BY <1>1 DEF Refuse
<1>3. Checked(i) => Advances(i)
  BY MarkAdvances DEF Checked
<1>4. GoneMeanwhile(i) => Advances(i)
  BY MarkAdvances DEF GoneMeanwhile
<1>5. ASSUME NEW u, NEW row, Written(i, u, row) PROVE Advances(i)
  <2>1. PICK state, body : state = "ok" /\ body = <<row>>
    OBVIOUS
  <2>2. /\ calls' = AnsweredAt(calls, i, state, body) /\ page' = page
        /\ mounted' = mounted
    BY <1>5, <2>1 DEF Written, AnsweredAt
  <2> QED
    BY <2>2, AnswerAdvances
<1>6. UserChecked(i) => Advances(i)
  BY <1>2, <1>3 DEF UserChecked
<1>7. ASSUME UserWritten(i) PROVE Advances(i)
  <2>1. GoneMeanwhile(i) \/ \E u, row : Written(i, u, row)
    BY <1>7, Zenon DEF UserWritten
  <2> QED
    BY <1>4, <1>5, <2>1
<1> QED
  BY <1>1, <1>6, <1>7 DEF UsersServe

LEMMA UsersLockReturns ==
    ASSUME At("users"), UsersLocks, NEW i \in DOMAIN calls, UsersReturn(i)
    PROVE  AccountsGo
<1>1. /\ "busy" \in DOMAIN page /\ Known(calls)
      /\ \A c \in Held(calls) : AccountsCall(c)
  BY DEF UsersLocks, LocksOf
<1>2. PICK r, H, g : r = page /\ H = Held(calls) /\ g = calls[i]
  OBVIOUS
<1>3. ASSUME NEW q, "busy" \in DOMAIN q, Continue(i, q, <<>>),
             \A l \in q.busy : l \in r.busy /\ ~UsersOpens(g, l, r)
      PROVE  AccountsGo
  <2>1. Passed("users", r, q, H, {}, {g})
    BY <1>3, UsersPasses
  <2>2. Goes("users", {"busy"}) /\ Held(calls') \subseteq Held(calls)
    BY <1>1, <1>2, <1>3, <2>1, ContinueGoes
  <2> QED
    BY <1>1, <2>2 DEF AccountsGo
<1>4. ASSUME UsersLoaded(i) PROVE AccountsGo
  <2>1. PICK q, a : /\ q = [page EXCEPT !.users = a, !.busy = @ \ {g.kept, "users"}]
                    /\ Continue(i, q, <<>>)
    BY <1>2, <1>4 DEF UsersLoaded
  <2>2. "busy" \in DOMAIN q /\ q.busy = r.busy \ {g.kept, "users"}
    BY <1>1, <1>2, <2>1
  <2>3. \A l : UsersOpens(g, l, r) => l \in {g.kept, "users"}
    BY DEF UsersOpens
  <2> QED
    BY <1>3, <2>1, <2>2, <2>3
<1>5. ASSUME AccountAnswered(i) PROVE AccountsGo
  <2>1. PICK lock : lock = g.kept
    OBVIOUS
  <2>2. lock \in AccountLocks /\ g.op \in AccountOps /\ g.op # "users"
    <3>1. AccountsCall(g)
      BY <1>1, <1>2 DEF Held
    <3> QED
      BY <1>2, <1>5, <2>1, <3>1 DEF AccountsCall, AccountAnswered
  <2>3. \A l : l # lock => ~UsersOpens(g, l, r)
    BY <2>1, <2>2 DEF UsersOpens
  <2>4. CASE calls[i].state = "failed"
    <3>1. PICK q : q = [page EXCEPT !.busy = @ \ {lock}] /\ Continue(i, q, <<>>)
      BY <1>2, <1>5, <2>1, <2>4 DEF AccountAnswered
    <3>2. "busy" \in DOMAIN q /\ q.busy = r.busy \ {lock}
      BY <1>1, <1>2, <3>1
    <3> QED
      BY <1>3, <2>3, <3>1, <3>2
  <2>5. CASE calls[i].state # "failed"
    <3>1. PICK p, q, u, a : /\ p = [page EXCEPT !.busy = @ \union {"users"}]
                            /\ \/ q = Selected(p, u, a)
                               \/ q = [p EXCEPT !.selected = ""]
                               \/ q = p
                            /\ Continue(i, q, loadUsers(lock))
      BY <1>2, <1>5, <2>1, <2>2, <2>5 DEF AccountAnswered, AccountLocks
    <3>2. "busy" \in DOMAIN p /\ p.busy = r.busy \union {"users"}
      BY <1>1, <1>2, <3>1
    <3>3. "busy" \in DOMAIN q /\ q.busy \subseteq r.busy \union {"users"}
      BY ZenonT(60), <3>1, <3>2 DEF Selected
    <3>4. PICK c : /\ IsCall(c) /\ c.op = "users" /\ c.kept = lock
                   /\ loadUsers(lock) = <<c>>
      BY UsersAreLoaded
    <3>5. UsersOpens(c, lock, q) /\ UsersOpens(c, "users", q) /\ AccountsCall(c)
      BY <3>4 DEF UsersOpens, AccountsCall
    <3>6. Passed("users", r, q, H, {c}, {g})
      BY <2>3, <3>3, <3>5, UsersPasses
    <3>7. Continue(i, q, <<c>>)
      BY <3>1, <3>4
    <3>8. Goes("users", {"busy"}) /\ Held(calls') \subseteq Held(calls) \union {c}
      BY <1>1, <1>2, <3>3, <3>4, <3>6, <3>7, ContinueOneGoes
    <3> QED
      BY <1>1, <3>5, <3>8 DEF AccountsGo
  <2> QED
    BY <2>4, <2>5
<1> QED
  BY <1>4, <1>5 DEF UsersReturn

-----------------------------------------------------------------------------
(* The pages an order is entered on.                                        *)

\* A form that is closed waits for nothing.
CreateFits(p) == CreateParts \subseteq DOMAIN p /\ (p.open \/ p.busy = {})

LEMMA CreateStays ==
    ASSUME NEW p, NEW q, NEW H, NEW N, NEW G, q.busy \subseteq p.busy \union {"models"},
           q.mount = p.mount,
           \A g \in G : \A l \in q.busy : ~CreateOpens(g, l, p)
    PROVE  Passed("create", p, q, H, N, G)
  BY DEF Passed, Opens, CreateOpens, Alone

LEMMA CreateLockSteps ==
    ASSUME At("create"), CreateLocks, CreateStep
    PROVE  Goes("create", CreateParts) /\ CreateFits(page')
<1>1. CreateFits(page) /\ Known(calls)
  BY DEF CreateLocks, LocksOf, CreateFits, CreateParts
<1>2. PICK r, H : r = page /\ H = Held(calls)
  OBVIOUS
<1>3. ASSUME NEW q, CreateFits(q), Become(q), Passed("create", r, q, H, {}, {})
      PROVE  Goes("create", CreateParts) /\ CreateFits(page')
  <2>1. CreateParts \subseteq DOMAIN q
    BY <1>3 DEF CreateFits
  <2>2. Goes("create", CreateParts) /\ page' = q
    BY <1>1, <1>2, <1>3, <2>1, BecomeGoes
  <2> QED
    BY <1>3, <2>2
<1>4. ASSUME NEW q, CreateFits(q), NEW c, IsCall(c), Ask(q, <<c>>),
             Passed("create", r, q, H, {c}, {})
      PROVE  Goes("create", CreateParts) /\ CreateFits(page')
  <2>1. CreateParts \subseteq DOMAIN q
    BY <1>4 DEF CreateFits
  <2>2. Goes("create", CreateParts) /\ page' = q
    BY <1>1, <1>2, <1>4, <2>1, AskGoes
  <2> QED
    BY <1>4, <2>2
<1>5. ASSUME MountForm PROVE Goes("create", CreateParts) /\ CreateFits(page')
  <2>1. PICK p : /\ p = NewForm(page.kind, page.mount + 1)
                 /\ \/ Become(p)
                    \/ Ask([p EXCEPT !.busy = {"number"}],
                           <<Call("number", 0, [mount |-> p.mount, run |-> 0])>>)
    BY <1>5, Zenon DEF MountForm
  <2>2. CreateParts \subseteq DOMAIN p /\ p.open /\ p.busy = {}
    BY <2>1 DEF NewForm, CreateParts
  <2>3. CASE Become(p)
    <3>1. Passed("create", r, p, H, {}, {}) /\ CreateFits(p)
      BY <2>2 DEF Passed, CreateFits
    <3> QED
      BY <1>3, <2>3, <3>1
  <2>4. CASE ~Become(p)
    <3>1. PICK q, k, c : /\ q = [p EXCEPT !.busy = {"number"}]
                         /\ k = [mount |-> p.mount, run |-> 0]
                         /\ c = Call("number", 0, k) /\ Ask(q, <<c>>)
      BY <2>1, <2>4
    <3>2. q.busy = {"number"} /\ q.mount = p.mount /\ CreateFits(q)
      BY <2>2, <3>1 DEF CreateFits, CreateParts
    <3>3. IsCall(c) /\ c.op = "number" /\ c.kept = k
      BY <3>1, CallSays
    <3>4. CreateOpens(c, "number", q)
      BY <3>1, <3>2, <3>3 DEF CreateOpens
    <3>5. Passed("create", r, q, H, {c}, {})
      BY <3>2, <3>4 DEF Passed, Opens
    <3> QED
      BY <1>4, <3>1, <3>2, <3>3, <3>5
  <2> QED
    BY <2>3, <2>4
<1>6. ASSUME ChooseMake PROVE Goes("create", CreateParts) /\ CreateFits(page')
  <2>1. PICK p, make, n :
           /\ p = [page EXCEPT !.make = make, !.run = n] /\ page.open
           /\ \/ Become([p EXCEPT !.models = "", !.unknown = FALSE])
              \/ Ask([p EXCEPT !.busy = @ \union {"models"}],
                     <<Call("models", make, [mount |-> p.mount, run |-> p.run])>>)
    BY <1>6, Zenon DEF ChooseMake
  <2>2. /\ p.busy = r.busy /\ p.mount = r.mount /\ p.open /\ CreateParts \subseteq DOMAIN p
    BY <1>1, <1>2, <2>1 DEF CreateFits, CreateParts
  <2>3. CASE Become([p EXCEPT !.models = "", !.unknown = FALSE])
    <3>1. PICK q : q = [p EXCEPT !.models = "", !.unknown = FALSE] /\ Become(q)
      BY <2>3
    <3>2. q.busy = r.busy /\ q.mount = r.mount /\ CreateFits(q)
      BY <2>2, <3>1 DEF CreateFits, CreateParts
    <3>3. Passed("create", r, q, H, {}, {})
      BY <3>2, CreateStays
    <3> QED
      BY <1>3, <3>1, <3>2, <3>3
  <2>4. CASE ~Become([p EXCEPT !.models = "", !.unknown = FALSE])
    <3>1. PICK q, k : /\ q = [p EXCEPT !.busy = @ \union {"models"}]
                      /\ Ask(q, <<Call("models", make, k)>>)
      BY <2>1, <2>4
    <3>2. PICK c : IsCall(c) /\ Ask(q, <<c>>)
      BY <3>1, CallSays
    <3>3. q.busy = r.busy \union {"models"} /\ q.mount = r.mount /\ CreateFits(q)
      BY <2>2, <3>1 DEF CreateFits, CreateParts
    <3>4. Passed("create", r, q, H, {c}, {})
      BY <3>3, CreateStays
    <3> QED
      BY <1>4, <3>2, <3>3, <3>4
  <2> QED
    BY <2>3, <2>4
<1>7. ASSUME DismissForm PROVE Goes("create", CreateParts) /\ CreateFits(page')
  <2>1. PICK q : q = [page EXCEPT !.open = FALSE, !.busy = {}] /\ Become(q)
    BY <1>7 DEF DismissForm
  <2>2. q.busy = {} /\ CreateFits(q)
    BY <1>1, <2>1 DEF CreateFits, CreateParts
  <2>3. Passed("create", r, q, H, {}, {})
    BY <2>2 DEF Passed
  <2> QED
    BY <1>3, <2>1, <2>2, <2>3
<1>8. ASSUME SubmitNew PROVE Goes("create", CreateParts) /\ CreateFits(page')
  <2>1. PICK q, k, c : /\ q = [page EXCEPT !.busy = @ \union {"saving"}]
                       /\ k = [mount |-> page.mount, run |-> 0] /\ page.open
                       /\ c = Call("create", 0, k) /\ Ask(q, <<c>>)
    BY <1>8 DEF SubmitNew
  <2>2. q.busy = r.busy \union {"saving"} /\ q.mount = r.mount /\ CreateFits(q)
    BY <1>1, <1>2, <2>1 DEF CreateFits, CreateParts
  <2>3. IsCall(c) /\ c.op = "create" /\ c.kept = k
    BY <2>1, CallSays
  <2>4. CreateOpens(c, "saving", q)
    BY <1>2, <2>1, <2>2, <2>3 DEF CreateOpens
  <2>5. Passed("create", r, q, H, {c}, {})
    BY <2>2, <2>4 DEF Passed, Opens, CreateOpens, Alone
  <2> QED
    BY <1>4, <2>1, <2>2, <2>3, <2>5
<1>9. ASSUME OtherOrder PROVE Goes("create", CreateParts) /\ CreateFits(page')
  <2>1. PICK s : Elsewhere(s)
    BY <1>9 DEF OtherOrder
  <2>2. Goes("create", CreateParts) /\ page' = page
    BY <2>1, ElsewhereGoes DEF CreateLocks, CreateParts
  <2> QED
    BY <1>1, <2>2
<1> QED
  BY <1>5, <1>6, <1>7, <1>8, <1>9 DEF CreateStep

LEMMA CreatePerforms ==
    ASSUME NEW i, CreateServe(i)
    PROVE  Performed(i)
  BY DEF CreateServe, Performed

LEMMA CreateLockReturns ==
    ASSUME At("create"), CreateLocks, NEW i \in DOMAIN calls, CreateReturn(i)
    PROVE  Goes("create", CreateParts) /\ CreateFits(page')
<1>1. CreateFits(page) /\ Known(calls)
  BY DEF CreateLocks, LocksOf, CreateFits, CreateParts
<1>2. PICK r, H, g : r = page /\ H = Held(calls) /\ g = calls[i]
  OBVIOUS
<1>3. ASSUME NEW q, CreateFits(q), q.busy \subseteq r.busy, q.mount = r.mount,
             \A l \in q.busy : ~CreateOpens(g, l, r), Continue(i, q, <<>>)
      PROVE  Goes("create", CreateParts) /\ CreateFits(page')
  <2>1. Passed("create", r, q, H, {}, {g})
    BY <1>3, CreateStays
  <2>2. CreateParts \subseteq DOMAIN q
    BY <1>3 DEF CreateFits
  <2>3. Goes("create", CreateParts) /\ page' = q
    BY <1>1, <1>2, <1>3, <2>1, <2>2, ContinueGoes
  <2> QED
    BY <1>3, <2>3
\* The answer to a form that is gone.
<1>4. ASSUME Continue(i, page, <<>>), ~page.open \/ \A l : ~CreateOpens(g, l, r)
      PROVE  Goes("create", CreateParts) /\ CreateFits(page')
  <2>1. \A l \in r.busy : ~CreateOpens(g, l, r)
    BY <1>1, <1>2, <1>4 DEF CreateFits
  <2> QED
    BY <1>1, <1>2, <1>3, <1>4, <2>1
<1>5. ASSUME NEW d, NEW p, p = [page EXCEPT !.busy = @ \ {d}]
      PROVE  p.busy = r.busy \ {d} /\ p.mount = r.mount /\ CreateFits(p)
  BY <1>1, <1>2, <1>5 DEF CreateFits, CreateParts
<1>6. ASSUME NumberLoaded(i) PROVE Goes("create", CreateParts) /\ CreateFits(page')
  <2>1. PICK p, q, a : /\ p = [page EXCEPT !.busy = @ \ {"number"}]
                       /\ \/ /\ g.kept.mount # page.mount \/ ~page.open
                             /\ Continue(i, page, <<>>)
                          \/ /\ q = p \/ q = [p EXCEPT !.number = a]
                             /\ Continue(i, q, <<>>)
    BY <1>2, <1>6 DEF NumberLoaded
  <2>2. g.op = "number"
    BY <1>2, <1>6 DEF NumberLoaded
  <2>3. \A l : l # "number" => ~CreateOpens(g, l, r)
    BY <2>2 DEF CreateOpens
  <2>4. p.busy = r.busy \ {"number"} /\ p.mount = r.mount /\ CreateFits(p)
    BY <1>5, <2>1
  <2>5. CASE (g.kept.mount # page.mount \/ ~page.open) /\ Continue(i, page, <<>>)
    <3>1. g.kept.mount # r.mount => \A l : ~CreateOpens(g, l, r)
      BY DEF CreateOpens
    <3> QED
      BY <1>2, <1>4, <2>5, <3>1
  <2>6. CASE (q = p \/ q = [p EXCEPT !.number = a]) /\ Continue(i, q, <<>>)
    <3>1. q.busy = r.busy \ {"number"} /\ q.mount = r.mount /\ CreateFits(q)
      BY <2>4, <2>6 DEF CreateFits, CreateParts
    <3> QED
      BY <1>3, <2>3, <2>6, <3>1
  <2> QED
    BY <2>1, <2>5, <2>6
<1>7. ASSUME ModelsLoaded(i) PROVE Goes("create", CreateParts) /\ CreateFits(page')
  <2>1. PICK p, q, a, b : /\ p = [page EXCEPT !.busy = @ \ {"models"}]
                          /\ \/ q = page \/ q = [p EXCEPT !.unknown = TRUE]
                             \/ q = [p EXCEPT !.models = a, !.unknown = FALSE]
                          /\ Continue(i, q, <<>>)
    BY <1>7 DEF ModelsLoaded
  <2>2. g.op = "models"
    BY <1>2, <1>7 DEF ModelsLoaded
  <2>3. \A l : ~CreateOpens(g, l, r)
    BY <2>2 DEF CreateOpens
  <2>4. p.busy = r.busy \ {"models"} /\ p.mount = r.mount /\ CreateFits(p)
    BY <1>5, <2>1
  <2>5. q.busy \subseteq r.busy /\ q.mount = r.mount /\ CreateFits(q)
    BY <1>1, <1>2, <2>1, <2>4 DEF CreateFits, CreateParts
  <2> QED
    BY <1>3, <2>1, <2>3, <2>5
<1>8. ASSUME CreateAnswered(i) PROVE Goes("create", CreateParts) /\ CreateFits(page')
  <2>1. g.op = "create"
    BY <1>2, <1>8 DEF CreateAnswered
  <2>2. \/ Continue(i, [page EXCEPT !.open = FALSE, !.busy = {}], <<>>)
        \/ g.kept.mount # page.mount /\ Continue(i, page, <<>>)
        \/ Continue(i, [page EXCEPT !.busy = @ \ {"saving"}], <<>>)
    BY <1>2, <1>8 DEF CreateAnswered
  <2>3. CASE Continue(i, [page EXCEPT !.open = FALSE, !.busy = {}], <<>>)
    <3>1. PICK q : q = [page EXCEPT !.open = FALSE, !.busy = {}] /\ Continue(i, q, <<>>)
      BY <2>3
    <3>2. q.busy = {} /\ q.mount = r.mount /\ CreateFits(q)
      BY <1>1, <1>2, <3>1 DEF CreateFits, CreateParts
    <3> QED
      BY <1>3, <3>1, <3>2
  <2>4. CASE g.kept.mount # page.mount /\ Continue(i, page, <<>>)
    <3>1. \A l : ~CreateOpens(g, l, r)
      BY <1>2, <2>4 DEF CreateOpens
    <3> QED
      BY <1>4, <2>4, <3>1
  <2>5. CASE Continue(i, [page EXCEPT !.busy = @ \ {"saving"}], <<>>)
    <3>1. PICK q : q = [page EXCEPT !.busy = @ \ {"saving"}] /\ Continue(i, q, <<>>)
      BY <2>5
    <3>2. q.busy = r.busy \ {"saving"} /\ q.mount = r.mount /\ CreateFits(q)
      BY <1>5, <3>1
    <3>3. \A l : l # "saving" => ~CreateOpens(g, l, r)
      BY <2>1 DEF CreateOpens
    <3> QED
      BY <1>3, <3>1, <3>2, <3>3
  <2> QED
    BY <2>2, <2>3, <2>4, <2>5
<1> QED
  BY <1>6, <1>7, <1>8 DEF CreateReturn

EditFits(p) == EditParts \subseteq DOMAIN p /\ (p.open \/ p.busy = {})

LEMMA EditStays ==
    ASSUME NEW p, NEW q, NEW H, NEW N, NEW G, q.busy \subseteq p.busy,
           q.tracker = p.tracker,
           \A g \in G : \A l \in q.busy : ~EditOpens(g, l, p)
    PROVE  Passed("edit", p, q, H, N, G)
  BY DEF Passed, Opens, EditOpens, Alone

LEMMA EditLockSteps ==
    ASSUME At("edit"), EditLocks, EditStep
    PROVE  Goes("edit", EditParts) /\ EditFits(page')
<1>1. EditFits(page) /\ Known(calls)
  BY DEF EditLocks, LocksOf, EditFits, EditParts
<1>2. PICK r, H : r = page /\ H = Held(calls)
  OBVIOUS
\* The only lock is that of the new call.
<1>3. ASSUME NEW q, EditFits(q), NEW c, IsCall(c), Ask(q, <<c>>),
             \A l \in q.busy : EditOpens(c, l, q)
      PROVE  Goes("edit", EditParts) /\ EditFits(page')
  <2>1. EditParts \subseteq DOMAIN q
    BY <1>3 DEF EditFits
  <2>2. Passed("edit", r, q, H, {c}, {})
    BY <1>3 DEF Passed, Opens
  <2>3. Goes("edit", EditParts) /\ page' = q
    BY <1>1, <1>2, <1>3, <2>1, <2>2, AskGoes
  <2> QED
    BY <1>3, <2>3
<1>4. ASSUME OpenEditor PROVE Goes("edit", EditParts) /\ EditFits(page')
  <2>1. PICK q, n, a, c : /\ q = [page EXCEPT !.open = TRUE, !.error = FALSE, !.tracker = n,
                                              !.busy = {"order"}, !.mixed = a]
                          /\ n = page.tracker + 1 /\ c = Call("order", 0, n)
                          /\ Ask(q, <<c>>)
    BY <1>4 DEF OpenEditor, BeginRequest
  <2>2. q.busy = {"order"} /\ q.tracker = n /\ EditFits(q)
    BY <1>1, <2>1 DEF EditFits, EditParts
  <2>3. IsCall(c) /\ c.op = "order" /\ c.kept = n
    BY <2>1, CallSays
  <2>4. \A l \in q.busy : EditOpens(c, l, q)
    BY <2>2, <2>3 DEF EditOpens
  <2> QED
    BY <1>3, <2>1, <2>2, <2>3, <2>4
<1>5. ASSUME CloseEditor PROVE Goes("edit", EditParts) /\ EditFits(page')
  <2>1. PICK q : q = [page EXCEPT !.open = FALSE, !.error = FALSE, !.busy = {}] /\ Become(q)
    BY <1>5 DEF CloseEditor
  <2>2. q.busy = {} /\ EditFits(q)
    BY <1>1, <2>1 DEF EditFits, EditParts
  <2>3. Passed("edit", r, q, H, {}, {}) /\ EditParts \subseteq DOMAIN q
    BY <2>2 DEF Passed, EditFits
  <2>4. Goes("edit", EditParts) /\ page' = q
    BY <1>1, <1>2, <2>1, <2>3, BecomeGoes
  <2> QED
    BY <2>2, <2>4
<1>6. ASSUME SubmitEdit PROVE Goes("edit", EditParts) /\ EditFits(page')
  <2>1. PICK q, a, c : /\ q = [page EXCEPT !.busy = {"saving"}] /\ page.open
                       /\ c = Call("update", a, page.tracker) /\ Ask(q, <<c>>)
    BY <1>6 DEF SubmitEdit
  <2>2. q.busy = {"saving"} /\ q.tracker = r.tracker /\ EditFits(q)
    BY <1>1, <1>2, <2>1 DEF EditFits, EditParts
  <2>3. IsCall(c) /\ c.op = "update" /\ c.kept = r.tracker
    BY <1>2, <2>1, CallSays
  <2>4. \A l \in q.busy : EditOpens(c, l, q)
    BY <2>2, <2>3 DEF EditOpens
  <2> QED
    BY <1>3, <2>1, <2>2, <2>3, <2>4
<1>7. ASSUME OtherEdit PROVE Goes("edit", EditParts) /\ EditFits(page')
  <2>1. PICK s : Elsewhere(s)
    BY <1>7 DEF OtherEdit
  <2>2. Goes("edit", EditParts) /\ page' = page
    BY <2>1, ElsewhereGoes DEF EditLocks, EditParts
  <2> QED
    BY <1>1, <2>2
<1> QED
  BY <1>4, <1>5, <1>6, <1>7 DEF EditStep

LEMMA EditPerforms ==
    ASSUME NEW i, EditServe(i)
    PROVE  Performed(i)
<1>1. Refuse(i) => Performed(i)
  BY DEF Performed, Refuse
<1>2. \A s, b : Perform(i, s, TRUE, b) => Performed(i)
  BY DEF Performed
<1> QED
  BY <1>1, <1>2 DEF EditServe

LEMMA EditLockReturns ==
    ASSUME At("edit"), EditLocks, NEW i \in DOMAIN calls, EditReturn(i)
    PROVE  Goes("edit", EditParts) /\ EditFits(page')
<1>1. EditFits(page) /\ Known(calls)
  BY DEF EditLocks, LocksOf, EditFits, EditParts
<1>2. PICK r, H, g : r = page /\ H = Held(calls) /\ g = calls[i]
  OBVIOUS
<1>3. ASSUME NEW q, EditFits(q), q.busy \subseteq r.busy, q.tracker = r.tracker,
             \A l \in q.busy : ~EditOpens(g, l, r), Continue(i, q, <<>>)
      PROVE  Goes("edit", EditParts) /\ EditFits(page')
  <2>1. Passed("edit", r, q, H, {}, {g})
    BY <1>3, EditStays
  <2>2. EditParts \subseteq DOMAIN q
    BY <1>3 DEF EditFits
  <2>3. Goes("edit", EditParts) /\ page' = q
    BY <1>1, <1>2, <1>3, <2>1, <2>2, ContinueGoes
  <2> QED
    BY <1>3, <2>3
\* The answer to an editor that is gone.
<1>4. ASSUME Continue(i, page, <<>>), ~page.open \/ g.kept # r.tracker
      PROVE  Goes("edit", EditParts) /\ EditFits(page')
  <2>1. \A l \in r.busy : ~EditOpens(g, l, r)
    BY <1>1, <1>2, <1>4 DEF EditFits, EditOpens
  <2> QED
    BY <1>1, <1>2, <1>3, <1>4, <2>1
<1>5. ASSUME NEW d, NEW p, p = [page EXCEPT !.busy = @ \ {d}]
      PROVE  p.busy = r.busy \ {d} /\ p.tracker = r.tracker /\ EditFits(p)
  BY <1>1, <1>2, <1>5 DEF EditFits, EditParts
<1>6. ASSUME EditorLoaded(i) PROVE Goes("edit", EditParts) /\ EditFits(page')
  <2>1. PICK p, q, a : /\ p = [page EXCEPT !.busy = @ \ {"order"}]
                       /\ \/ /\ ~page.open \/ g.kept # page.tracker
                             /\ Continue(i, page, <<>>)
                          \/ /\ q = [p EXCEPT !.error = TRUE] \/ q = [p EXCEPT !.row = a]
                             /\ Continue(i, q, <<>>)
    BY <1>2, <1>6 DEF EditorLoaded, IsCurrentRequest
  <2>2. g.op = "order"
    BY <1>2, <1>6 DEF EditorLoaded
  <2>3. \A l : l # "order" => ~EditOpens(g, l, r)
    BY <2>2 DEF EditOpens
  <2>4. p.busy = r.busy \ {"order"} /\ p.tracker = r.tracker /\ EditFits(p)
    BY <1>5, <2>1
  <2>5. CASE (~page.open \/ g.kept # page.tracker) /\ Continue(i, page, <<>>)
    BY <1>2, <1>4, <2>5
  <2>6. CASE (q = [p EXCEPT !.error = TRUE] \/ q = [p EXCEPT !.row = a]) /\ Continue(i, q, <<>>)
    <3>1. q.busy = r.busy \ {"order"} /\ q.tracker = r.tracker /\ EditFits(q)
      BY <2>4, <2>6 DEF EditFits, EditParts
    <3> QED
      BY <1>3, <2>3, <2>6, <3>1
  <2> QED
    BY <2>1, <2>5, <2>6
<1>7. ASSUME OrderEdited(i) PROVE Goes("edit", EditParts) /\ EditFits(page')
  <2>1. g.op = "update"
    BY <1>2, <1>7 DEF OrderEdited
  <2>2. \/ Continue(i, [page EXCEPT !.open = FALSE, !.error = FALSE, !.busy = {}], <<>>)
        \/ g.kept # page.tracker /\ Continue(i, page, <<>>)
        \/ Continue(i, [page EXCEPT !.busy = @ \ {"saving"}], <<>>)
    BY <1>2, <1>7 DEF OrderEdited
  <2>3. CASE Continue(i, [page EXCEPT !.open = FALSE, !.error = FALSE, !.busy = {}], <<>>)
    <3>1. PICK q : /\ q = [page EXCEPT !.open = FALSE, !.error = FALSE, !.busy = {}]
                   /\ Continue(i, q, <<>>)
      BY <2>3
    <3>2. q.busy = {} /\ q.tracker = r.tracker /\ EditFits(q)
      BY <1>1, <1>2, <3>1 DEF EditFits, EditParts
    <3> QED
      BY <1>3, <3>1, <3>2
  <2>4. CASE g.kept # page.tracker /\ Continue(i, page, <<>>)
    BY <1>2, <1>4, <2>4
  <2>5. CASE Continue(i, [page EXCEPT !.busy = @ \ {"saving"}], <<>>)
    <3>1. PICK q : q = [page EXCEPT !.busy = @ \ {"saving"}] /\ Continue(i, q, <<>>)
      BY <2>5
    <3>2. q.busy = r.busy \ {"saving"} /\ q.tracker = r.tracker /\ EditFits(q)
      BY <1>5, <3>1
    <3>3. \A l : l # "saving" => ~EditOpens(g, l, r)
      BY <2>1 DEF EditOpens
    <3> QED
      BY <1>3, <3>1, <3>2, <3>3
  <2> QED
    BY <2>2, <2>3, <2>4, <2>5
<1> QED
  BY <1>6, <1>7 DEF EditReturn

-----------------------------------------------------------------------------
(* The dashboard.                                                           *)

DashboardFits(p) ==
    DashboardParts \subseteq DOMAIN p /\ p.tab \in Tabs /\ p.busy \subseteq Tabs

DashboardGoes == Goes("dashboard", DashboardParts) /\ DashboardFits(page')

LEMMA TabLoadLocks ==
    ASSUME Known(calls), NEW p, DashboardFits(p), LoadTab(p)
    PROVE  DashboardGoes
<1>1. PICK q, n, e, a, c : /\ q = [p EXCEPT !.tracker = n, !.busy = @ \union {p.tab}, !.error = e]
                           /\ n = p.tracker + 1 /\ c = Call(p.tab, a, n) /\ Ask(q, <<c>>)
  BY DEF LoadTab, BeginRequest
<1>2. /\ q.busy = p.busy \union {p.tab} /\ q.tracker = n /\ q.tab = p.tab /\ DashboardFits(q)
  BY <1>1 DEF DashboardFits, DashboardParts
<1>3. IsCall(c) /\ c.op = p.tab /\ c.kept = n
  BY <1>1, CallSays
<1>4. PICK r, H : r = page /\ H = Held(calls)
  OBVIOUS
<1>5. DashboardOpens(c, q.tab, q)
  BY <1>2, <1>3 DEF DashboardOpens, DashboardFits
<1>6. \A l \in q.busy : l = q.tab \/ l \in Alone("dashboard", q)
  BY <1>2 DEF DashboardFits, Alone
<1>7. Passed("dashboard", r, q, H, {c}, {})
  BY <1>5, <1>6 DEF Passed, Opens
<1>8. Ask(q, <<c>>) /\ DashboardParts \subseteq DOMAIN q
  BY <1>1, <1>2 DEF DashboardFits
<1>9. Goes("dashboard", DashboardParts) /\ page' = q
  BY <1>3, <1>4, <1>7, <1>8, AskGoes
<1> QED
  BY <1>2, <1>9 DEF DashboardGoes

LEMMA FirstPageFits ==
    ASSUME NEW p, DashboardFits(p)
    PROVE  DashboardFits(FirstPage(p))
  BY DEF FirstPage, DashboardFits, DashboardParts

LEMMA DashboardLockSteps ==
    ASSUME At("dashboard"), DashboardLocks, DashboardStep
    PROVE  DashboardGoes
<1>1. DashboardFits(page) /\ Known(calls)
  BY DEF DashboardLocks, LocksOf, DashboardFits, DashboardParts
<1>2. \A p : DashboardFits(p) /\ LoadTab(p) => DashboardGoes
  BY <1>1, TabLoadLocks
<1>3. \A p : DashboardFits(p) /\ LoadTab(FirstPage(p)) => DashboardGoes
  BY <1>2, FirstPageFits
<1>4. OpenDashboard \/ RetryDashboard => DashboardGoes
  BY <1>1, <1>2 DEF OpenDashboard, RetryDashboard
<1>5. ASSUME ChooseTab PROVE DashboardGoes
  <2>1. PICK p, tab : p = [page EXCEPT !.tab = tab] /\ tab \in Tabs /\ LoadTab(p)
    BY <1>5 DEF ChooseTab
  <2>2. DashboardFits(p)
    BY <1>1, <2>1 DEF DashboardFits, DashboardParts
  <2> QED
    BY <1>2, <2>1, <2>2
<1>6. ASSUME ChoosePeriod \/ ChooseStart \/ ChooseEnd PROVE DashboardGoes
  <2>1. PICK p, a, b, c, d, e, f :
           /\ \/ p = [page EXCEPT !.mode = a] \/ p = [page EXCEPT !.month = b]
              \/ p = [page EXCEPT !.from = c, !.to = d]
              \/ p = [page EXCEPT !.to = e, !.from = f]
           /\ LoadTab(FirstPage(p))
    BY <1>6 DEF ChoosePeriod, ChooseStart, ChooseEnd
  <2>2. DashboardFits(p)
    BY <1>1, <2>1 DEF DashboardFits, DashboardParts
  <2> QED
    BY <1>3, <2>1, <2>2
<1>7. ASSUME FilterOrders \/ TurnOrders \/ FilterLeads PROVE DashboardGoes
  <2>1. PICK p, a, b, c, d :
           \/ p = [page EXCEPT !.filter = a] /\ d = FirstPage(p) /\ LoadTab(d)
           \/ p = [page EXCEPT !.filter.page = b] /\ LoadTab(p)
           \/ p = [page EXCEPT !.leadStatus = c] /\ LoadTab(p)
    BY <1>7 DEF FilterOrders, TurnOrders, FilterLeads
  <2>2. DashboardFits(p)
    BY <1>1, <2>1 DEF DashboardFits, DashboardParts
  <2> QED
    BY <1>2, <1>3, <2>1, <2>2
<1>8. ASSUME OtherDelivery PROVE DashboardGoes
  <2>1. PICK s : Elsewhere(s)
    BY <1>8 DEF OtherDelivery
  <2>2. Goes("dashboard", DashboardParts) /\ page' = page
    BY <2>1, ElsewhereGoes DEF DashboardLocks, DashboardParts
  <2> QED
    BY <1>1, <2>2 DEF DashboardGoes
<1> QED
  BY <1>4, <1>5, <1>6, <1>7, <1>8 DEF DashboardStep

LEMMA DashboardPerforms ==
    ASSUME NEW i, DashboardServe(i)
    PROVE  Performed(i)
<1>1. Refuse(i) => Performed(i)
  BY DEF Performed, Refuse
<1>2. \A s, b : Perform(i, s, TRUE, b) => Performed(i)
  BY DEF Performed
<1> QED
  BY <1>1, <1>2 DEF DashboardServe

LEMMA DashboardLockReturns ==
    ASSUME At("dashboard"), DashboardLocks, NEW i \in DOMAIN calls, DashboardReturn(i)
    PROVE  DashboardGoes
<1>1. DashboardFits(page) /\ Known(calls)
  BY DEF DashboardLocks, LocksOf, DashboardFits, DashboardParts
<1>2. PICK r, H, g, tab : r = page /\ H = Held(calls) /\ g = calls[i] /\ tab = g.op
  OBVIOUS
<1>3. ASSUME NEW q, DashboardFits(q), q.busy \subseteq r.busy, q.tracker = r.tracker,
             q.tab = r.tab, \A l \in q.busy : ~DashboardOpens(g, l, r),
             Continue(i, q, <<>>)
      PROVE  DashboardGoes
  <2>1. Passed("dashboard", r, q, H, {}, {g})
    BY <1>3 DEF Passed, Opens, DashboardOpens, Alone
  <2>2. DashboardParts \subseteq DOMAIN q
    BY <1>3 DEF DashboardFits
  <2>3. Goes("dashboard", DashboardParts) /\ page' = q
    BY <1>1, <1>2, <1>3, <2>1, <2>2, ContinueGoes
  <2> QED
    BY <1>3, <2>3 DEF DashboardGoes
<1>4. PICK p, q, a, e :
         /\ p = [page EXCEPT !.busy = @ \ {tab}]
         /\ \/ g.kept # page.tracker /\ Continue(i, page, <<>>)
            \/ /\ q = [p EXCEPT !.data[tab] = a] \/ q = [p EXCEPT !.error = e]
               /\ Continue(i, q, <<>>)
  BY <1>2 DEF DashboardReturn, DashboardAnswered, IsCurrentRequest
<1>5. CASE g.kept # page.tracker /\ Continue(i, page, <<>>)
  <2>1. \A l : ~DashboardOpens(g, l, r)
    BY <1>2, <1>5 DEF DashboardOpens
  <2> QED
    BY <1>1, <1>2, <1>3, <1>5, <2>1
<1>6. CASE (q = [p EXCEPT !.data[tab] = a] \/ q = [p EXCEPT !.error = e]) /\ Continue(i, q, <<>>)
  <2>1. /\ p.busy = r.busy \ {tab} /\ p.tracker = r.tracker /\ p.tab = r.tab
        /\ DashboardFits(p)
    BY <1>1, <1>2, <1>4 DEF DashboardFits, DashboardParts
  <2>2. /\ q.busy = r.busy \ {tab} /\ q.tracker = r.tracker /\ q.tab = r.tab
        /\ DashboardFits(q)
    BY <1>6, <2>1 DEF DashboardFits, DashboardParts
  <2>3. \A l \in q.busy : ~DashboardOpens(g, l, r)
    BY <1>2, <2>2 DEF DashboardOpens
  <2> QED
    BY <1>3, <1>6, <2>2, <2>3
<1> QED
  BY <1>4, <1>5, <1>6

-----------------------------------------------------------------------------
(* The forms, and the queries of the lists.                                 *)

\* A form whose lock is its call's, or that has none.
LEMMA FormLockSteps ==
    ASSUME At("form"), FormLocks, FormStep
    PROVE  Goes("form", {"busy"})
<1>1. {"busy"} \subseteq DOMAIN page /\ Known(calls) /\ Locked("form", page, Held(calls))
  BY DEF FormLocks, LocksOf
<1>2. PICK r, H : r = page /\ H = Held(calls)
  OBVIOUS
<1>3. ASSUME NEW q, Become(q), q.busy = r.busy, {"busy"} \subseteq DOMAIN q
      PROVE  Goes("form", {"busy"})
  <2>1. Passed("form", r, q, H, {}, {})
    BY <1>3 DEF Passed, Opens, FormOpens, Alone
  <2> QED
    BY <1>1, <1>2, <1>3, <2>1, BecomeGoes
<1>4. \A a, b, c : LET q == [page EXCEPT !.v = a, !.typed = b, !.error = c]
                   IN  q.busy = r.busy /\ {"busy"} \subseteq DOMAIN q
  BY <1>1, <1>2
<1>5. FillForm \/ TypeField => Goes("form", {"busy"})
  BY <1>3, <1>4 DEF FillForm, TypeField
<1>6. ASSUME SaveForm PROVE Goes("form", {"busy"})
  <2>1. CASE \E v : Become([page EXCEPT !.error = v])
    BY <1>1, <1>2, <1>3, <2>1
  <2>2. CASE \E c : /\ IsCall(c) /\ c.op = "save"
                    /\ Ask([page EXCEPT !.busy = {"saving"}, !.error = FALSE], <<c>>)
    <3>1. PICK c, q : /\ IsCall(c) /\ c.op = "save" /\ Ask(q, <<c>>)
                      /\ q = [page EXCEPT !.busy = {"saving"}, !.error = FALSE]
      BY <2>2
    <3>2. q.busy = {"saving"} /\ {"busy"} \subseteq DOMAIN q
      BY <1>1, <3>1
    <3>3. Passed("form", r, q, H, {c}, {})
      BY <3>1, <3>2 DEF Passed, Opens, FormOpens
    <3> QED
      BY <1>1, <1>2, <3>1, <3>2, <3>3, AskGoes
  <2>3. PICK v : \/ Ask([page EXCEPT !.busy = {"saving"}, !.error = FALSE],
                        <<Call("save", v, page.v)>>)
                 \/ Become([page EXCEPT !.error = TRUE])
    BY <1>6 DEF SaveForm
  <2>4. PICK c : c = Call("save", v, page.v)
    OBVIOUS
  <2>5. IsCall(c) /\ c.op = "save"
    BY <2>4, CallSays
  <2> QED
    BY <2>1, <2>2, <2>3, <2>4, <2>5
<1> QED
  BY <1>5, <1>6 DEF FormStep

LEMMA FormPerforms ==
    ASSUME NEW i, FormServe(i)
    PROVE  Performed(i)
  BY DEF FormServe, Performed, Refuse

LEMMA FormLockReturns ==
    ASSUME At("form"), FormLocks, NEW i \in DOMAIN calls, FormReturn(i)
    PROVE  Goes("form", {"busy"})
<1>1. {"busy"} \subseteq DOMAIN page /\ Known(calls)
  BY DEF FormLocks, LocksOf
<1>2. PICK r, H, g : r = page /\ H = Held(calls) /\ g = calls[i]
  OBVIOUS
<1>3. PICK q, a, b : Continue(i, q, <<>>) /\ q = [page EXCEPT !.busy = {}, !.error = a, !.open = b]
  BY ZenonT(60) DEF FormReturn, FormSaved
<1>4. q.busy = {} /\ {"busy"} \subseteq DOMAIN q
  BY <1>1, <1>3
<1>5. Passed("form", r, q, H, {}, {g})
  BY <1>4 DEF Passed
<1> QED
  BY <1>1, <1>2, <1>3, <1>4, <1>5, ContinueGoes

LEMMA QueryLockSteps ==
    ASSUME At("query"), QueryLocks, QueryStep
    PROVE  Goes("query", {"busy"})
<1>1. {"busy"} \subseteq DOMAIN page /\ Known(calls)
  BY DEF QueryLocks, LocksOf
<1>2. PICK r, H : r = page /\ H = Held(calls)
  OBVIOUS
<1>3. PICK c, q : /\ IsCall(c) /\ c.op = "rows" /\ Ask(q, <<c>>)
                  /\ q = [page EXCEPT !.busy = {"loading"}]
  BY CallSays DEF QueryStep, AskForRows
<1>4. q.busy = {"loading"} /\ {"busy"} \subseteq DOMAIN q
  BY <1>1, <1>3
<1>5. Passed("query", r, q, H, {c}, {})
  BY <1>3, <1>4 DEF Passed, Opens, QueryOpens
<1> QED
  BY <1>1, <1>2, <1>3, <1>4, <1>5, AskGoes

LEMMA QueryPerforms ==
    ASSUME NEW i, QueryServe(i)
    PROVE  Performed(i)
<1>1. Refuse(i) => Performed(i)
  BY DEF Performed, Refuse
<1>2. \A s, b : Perform(i, s, TRUE, b) => Performed(i)
  BY DEF Performed
<1> QED
  BY <1>1, <1>2 DEF QueryServe

LEMMA QueryLockReturns ==
    ASSUME At("query"), QueryLocks, NEW i \in DOMAIN calls, QueryReturn(i)
    PROVE  Goes("query", {"busy"})
<1>1. {"busy"} \subseteq DOMAIN page /\ Known(calls)
  BY DEF QueryLocks, LocksOf
<1>2. PICK r, H, g : r = page /\ H = Held(calls) /\ g = calls[i]
  OBVIOUS
<1>3. PICK q, a : Continue(i, q, <<>>) /\ q = [page EXCEPT !.busy = {}, !.listed = a]
  BY DEF QueryReturn
<1>4. q.busy = {} /\ {"busy"} \subseteq DOMAIN q
  BY <1>1, <1>3
<1>5. Passed("query", r, q, H, {}, {g})
  BY <1>4 DEF Passed
<1> QED
  BY <1>1, <1>2, <1>3, <1>4, <1>5, ContinueGoes

-----------------------------------------------------------------------------
(* The pages of details.                                                    *)

\* What the lock l is about is as it was.
Keeps(l, p, q) ==
    /\ l = "order" => q.tracker = p.tracker
    /\ l = "notes" => q.run = p.run
    /\ l \in {"saving", "shipping"} /\ p.kind = "workspace" => q.mount = p.mount
    /\ l = "replacing" /\ p.kind \in {"order", "shipment"} => q.mount = p.mount

LEMMA DetailPasses ==
    ASSUME NEW p, NEW q, NEW H, NEW N, NEW G, q.kind = p.kind,
           \A l \in q.busy :
              \/ \E c \in N : DetailOpens(c, l, q)
              \/ l \in p.busy /\ Keeps(l, p, q) /\ \A g \in G : ~DetailOpens(g, l, p)
    PROVE  Passed("detail", p, q, H, N, G)
<1>1. \A c, l : Keeps(l, p, q) /\ DetailOpens(c, l, p) => DetailOpens(c, l, q)
  BY DEF Keeps, DetailOpens
<1>2. \A c, l, o : Opens("detail", c, l, o) <=> DetailOpens(c, l, o)
  BY DEF Opens
<1>3. \A o : Alone("detail", o) = {}
  BY DEF Alone
<1> QED
  BY <1>1, <1>2, <1>3 DEF Passed

\* A tracker that goes takes its lock along.
LEMMA RemountPasses ==
    ASSUME NEW p, NEW q, NEW H, NEW N, NEW G, DetailParts \subseteq DOMAIN q,
           q.kind = p.kind, Passed("detail", p, q, H, N, G), NEW t, t = Remounted(p, q)
    PROVE  /\ DetailParts \subseteq DOMAIN t /\ t.kind = p.kind
           /\ Passed("detail", p, t, H, N, G)
<1>1. \A c, l, o : Opens("detail", c, l, o) <=> DetailOpens(c, l, o)
  BY DEF Opens
<1>2. \A o : Alone("detail", o) = {}
  BY DEF Alone
<1>3. ASSUME DetailParts \subseteq DOMAIN t, t.kind = q.kind, t.busy \subseteq q.busy,
             \A c : \A l \in t.busy : DetailOpens(c, l, q) => DetailOpens(c, l, t)
      PROVE  /\ DetailParts \subseteq DOMAIN t /\ t.kind = p.kind
             /\ Passed("detail", p, t, H, N, G)
  BY <1>1, <1>2, <1>3 DEF Passed
<1>4. CASE t = q
  BY <1>3, <1>4
<1>5. CASE t = [q EXCEPT !.offered = FALSE, !.listing = TRUE]
  <2>1. /\ DetailParts \subseteq DOMAIN t /\ t.kind = q.kind /\ t.busy = q.busy
        /\ t.tracker = q.tracker /\ t.run = q.run /\ t.mount = q.mount
    BY <1>5 DEF DetailParts
  <2>2. \A c, l : DetailOpens(c, l, q) => DetailOpens(c, l, t)
    BY <2>1 DEF DetailOpens
  <2> QED
    BY <1>3, <2>1, <2>2
<1>6. CASE HasTracker(p) /\ t # q /\ t # [q EXCEPT !.offered = FALSE, !.listing = TRUE]
  <2>1. PICK n, x : t = [q EXCEPT !.mount = n, !.listing = FALSE,
                                  !.busy = @ \ {"replacing"}, !.mixed = x]
    BY <1>6 DEF Remounted
  <2>2. /\ DetailParts \subseteq DOMAIN t /\ t.kind = q.kind
        /\ t.busy = q.busy \ {"replacing"} /\ t.tracker = q.tracker /\ t.run = q.run
    BY <2>1 DEF DetailParts
  <2>3. t.kind \in {"order", "shipment"}
    BY <1>6, <2>2 DEF HasTracker, canShowReplacement, canCreateReplacementFromShipment
  <2>4. \A c : \A l \in t.busy : DetailOpens(c, l, q) => DetailOpens(c, l, t)
    BY <2>2, <2>3 DEF DetailOpens
  <2> QED
    BY <1>3, <2>2, <2>4
<1> QED
  BY <1>4, <1>5, <1>6 DEF Remounted

\* o is the page r, but for fields that no lock is about and locks.
AsPage(o, r) ==
    /\ DetailParts \subseteq DOMAIN o /\ o.kind = r.kind /\ o.tracker = r.tracker
    /\ o.run = r.run /\ o.mount = r.mount

LEMMA BeginNotesIs ==
    ASSUME NEW o, DetailParts \subseteq DOMAIN o, NEW q, q = BeginNotes(o)
    PROVE  /\ DetailParts \subseteq DOMAIN q /\ q.kind = o.kind /\ q.tracker = o.tracker
           /\ q.mount = o.mount /\ q.run = o.run + 1 /\ q.busy = o.busy \union {"notes"}
  BY DEF BeginNotes, DetailParts

LEMMA EndNotesIs ==
    ASSUME NEW o, DetailParts \subseteq DOMAIN o, NEW q, q = EndNotes(o)
    PROVE  /\ DetailParts \subseteq DOMAIN q /\ q.kind = o.kind /\ q.tracker = o.tracker
           /\ q.mount = o.mount /\ q.run = o.run + 1 /\ q.busy = o.busy \ {"notes"}
  BY DEF EndNotes, DetailParts

LEMMA OrderReloadsIs ==
    ASSUME NEW o, DetailParts \subseteq DOMAIN o, NEW q, q = OrderReloads(o)
    PROVE  /\ DetailParts \subseteq DOMAIN q /\ q.kind = o.kind
           /\ q.tracker = o.tracker + 1 /\ q.busy \subseteq o.busy \union {"order"}
           /\ o.kind # "workspace" => q.run = o.run /\ q.mount = o.mount
           /\ o.kind = "workspace" => q.busy \intersect {"notes", "saving", "shipping"} = {}
<1>1. PICK a : a = OrderPageReloads(o)
  OBVIOUS
<1>2. /\ DetailParts \subseteq DOMAIN a /\ a.kind = o.kind /\ a.tracker = o.tracker + 1
      /\ a.busy = o.busy \union {"order"} /\ a.run = o.run /\ a.mount = o.mount
  BY <1>1 DEF OrderPageReloads, BeginRequest, DetailParts
<1>3. CASE o.kind # "workspace"
  BY <1>1, <1>2, <1>3 DEF OrderReloads
<1>4. CASE o.kind = "workspace"
  <2>1. PICK b : b = EndNotes(a)
    OBVIOUS
  <2>2. /\ DetailParts \subseteq DOMAIN b /\ b.kind = o.kind /\ b.tracker = o.tracker + 1
        /\ b.busy = (o.busy \union {"order"}) \ {"notes"}
    BY <1>2, <2>1, EndNotesIs
  <2>3. PICK n, x : q = [b EXCEPT !.mount = n, !.busy = @ \ {"saving", "shipping"}, !.mixed = x]
    <3>1. q = ShipmentOrderReloads(o)
      BY <1>4 DEF OrderReloads
    <3> QED
      BY <1>1, <2>1, <3>1 DEF ShipmentOrderReloads
  <2>4. /\ DetailParts \subseteq DOMAIN q /\ q.kind = o.kind /\ q.tracker = o.tracker + 1
        /\ q.busy = b.busy \ {"saving", "shipping"}
    BY <2>2, <2>3 DEF DetailParts
  <2> QED
    BY <1>4, <2>2, <2>4
<1> QED
  BY <1>3, <1>4

LEMMA OrderReloadPasses ==
    ASSUME NEW r, NEW o, AsPage(o, r), r.kind # "left", o.busy \subseteq r.busy, NEW G,
           \A g \in G : \A l \in o.busy : ~DetailOpens(g, l, r),
           NEW c, c.op = "order", c.kept = r.tracker + 1, NEW H, NEW q, q = OrderReloads(o)
    PROVE  /\ DetailParts \subseteq DOMAIN q /\ q.kind = r.kind
           /\ Passed("detail", r, q, H, {c}, G)
<1>1. /\ DetailParts \subseteq DOMAIN q /\ q.kind = r.kind
      /\ q.tracker = r.tracker + 1 /\ q.busy \subseteq o.busy \union {"order"}
      /\ r.kind # "workspace" => q.run = r.run /\ q.mount = r.mount
      /\ r.kind = "workspace" => q.busy \intersect {"notes", "saving", "shipping"} = {}
  BY OrderReloadsIs DEF AsPage
<1>2. DetailOpens(c, "order", q)
  BY <1>1 DEF DetailOpens
<1>3. \A l \in q.busy : l = "order" \/ (l \in o.busy /\ Keeps(l, r, q))
  BY <1>1 DEF Keeps
<1> QED
  BY <1>1, <1>2, <1>3, DetailPasses

LEMMA OrderIsCalled ==
    ASSUME NEW p
    PROVE  \E c : /\ IsCall(c) /\ c.op = "order" /\ c.kept = p.tracker + 1
                  /\ OrderLoadCall(p) = <<c>>
<1>1. PICK c : c = Call("order", 0, p.tracker + 1)
  OBVIOUS
<1>2. IsCall(c) /\ c.op = "order" /\ c.kept = p.tracker + 1
  BY <1>1, CallSays
<1> QED
  BY <1>1, <1>2 DEF OrderLoadCall, BeginRequest

LEMMA NotesAreCalled ==
    ASSUME NEW p
    PROVE  \E c : /\ IsCall(c) /\ c.op = "notes" /\ c.kept = p.run + 1
                  /\ NotesCall(p) = <<c>>
<1>1. PICK c : c = Call("notes", 0, p.run + 1)
  OBVIOUS
<1>2. IsCall(c) /\ c.op = "notes" /\ c.kept = p.run + 1
  BY <1>1, CallSays
<1> QED
  BY <1>1, <1>2 DEF NotesCall

LEMMA TwoCalls ==
    ASSUME NEW c, NEW d
    PROVE  <<c>> \o <<d>> = <<c, d>>
<1>1. PICK S : S = {c, d}
  OBVIOUS
<1>2. PICK s : s = <<c>>
  OBVIOUS
<1>3. PICK t : t = <<d>>
  OBVIOUS
<1>4. PICK u : u = <<c, d>>
  OBVIOUS
<1>5. s \in Seq(S) /\ Len(s) = 1 /\ s[1] = c
  BY <1>1, <1>2
<1>6. t \in Seq(S) /\ Len(t) = 1 /\ t[1] = d
  BY <1>1, <1>3
<1>7. u \in Seq(S) /\ Len(u) = 2 /\ u[1] = c /\ u[2] = d
  BY <1>1, <1>4
<1>8. PICK v : v = s \o t
  OBVIOUS
<1>9. v \in Seq(S)
  BY <1>5, <1>6, <1>8
<1>10. Len(v) = 2 /\ v[2] = t[1]
  BY <1>5, <1>6, <1>8, ConcatProperties
<1>11. v[1] = c
  BY <1>5, <1>6, <1>8
<1>12. v[2] = d
  BY <1>6, <1>10
<1>13. v = u
  BY <1>7, <1>9, <1>10, <1>11, <1>12
<1> QED
  BY <1>2, <1>3, <1>4, <1>8, <1>13

\* Order and notes are loaded.
LEMMA BothReloadPasses ==
    ASSUME NEW r, NEW o, AsPage(o, r), r.kind \in {"shipment", "replacement"},
           o.busy \subseteq r.busy, NEW G, \A g \in G : \A l \in o.busy : ~DetailOpens(g, l, r),
           NEW c, c.op = "order", c.kept = r.tracker + 1,
           NEW d, d.op = "notes", d.kept = r.run + 1, NEW H,
           NEW q, q = BeginNotes(OrderReloads(o))
    PROVE  /\ DetailParts \subseteq DOMAIN q /\ q.kind = r.kind
           /\ Passed("detail", r, q, H, {c, d}, G)
<1>1. PICK a : a = OrderReloads(o)
  OBVIOUS
<1>2. /\ DetailParts \subseteq DOMAIN a /\ a.kind = r.kind
      /\ a.tracker = r.tracker + 1 /\ a.busy \subseteq o.busy \union {"order"}
      /\ a.run = r.run /\ a.mount = r.mount
  BY <1>1, OrderReloadsIs DEF AsPage
<1>3. /\ DetailParts \subseteq DOMAIN q /\ q.kind = r.kind /\ q.tracker = r.tracker + 1
      /\ q.mount = r.mount /\ q.run = r.run + 1
      /\ q.busy \subseteq o.busy \union {"order", "notes"}
  BY <1>1, <1>2, BeginNotesIs
<1>4. DetailOpens(c, "order", q) /\ DetailOpens(d, "notes", q)
  BY <1>3 DEF DetailOpens
<1>5. \A l \in q.busy : l \in {"order", "notes"} \/ (l \in o.busy /\ Keeps(l, r, q))
  BY <1>3 DEF Keeps
<1> QED
  BY <1>3, <1>4, <1>5, DetailPasses

\* What holds after a step of the page.
DetailGoes ==
    /\ Goes("detail", DetailParts)
    /\ \A c \in Held(calls') : KindFits(c.op, page'.kind)

LEMMA DetailLockSteps ==
    ASSUME At("detail"), DetailLocks, DetailStep
    PROVE  DetailGoes
<1>1. /\ DetailParts \subseteq DOMAIN page /\ Known(calls)
      /\ \A c \in Held(calls) : KindFits(c.op, page.kind)
  BY DEF DetailLocks, LocksOf, DetailParts
<1>2. PICK r, H : r = page /\ H = Held(calls)
  OBVIOUS
<1>3. AsPage(r, r)
  BY <1>1, <1>2 DEF AsPage
<1>4. ASSUME NEW q, DetailParts \subseteq DOMAIN q, q.kind = r.kind, NEW c, IsCall(c),
             KindFits(c.op, r.kind), Ask(q, <<c>>), Passed("detail", r, q, H, {c}, {})
      PROVE  DetailGoes
  <2>1. /\ Goes("detail", DetailParts) /\ page' = q
        /\ Held(calls') \subseteq Held(calls) \union {c}
    BY <1>1, <1>2, <1>4, AskGoes
  <2>2. \A x \in Held(calls') : KindFits(x.op, r.kind)
    BY <1>1, <1>2, <1>4, <2>1
  <2> QED
    BY <1>4, <2>1, <2>2 DEF DetailGoes
\* One more lock, for a call that opens it.
<1>5. ASSUME NEW l, NEW q, AsPage(q, r), q.busy \subseteq r.busy \union {l}, NEW c, IsCall(c),
             KindFits(c.op, r.kind), DetailOpens(c, l, q), Ask(q, <<c>>)
      PROVE  DetailGoes
  <2>1. DetailParts \subseteq DOMAIN q /\ q.kind = r.kind /\ \A k : Keeps(k, r, q)
    BY <1>5 DEF AsPage, Keeps
  <2>2. Passed("detail", r, q, H, {c}, {})
    BY <1>5, <2>1, DetailPasses
  <2> QED
    BY <1>4, <1>5, <2>1, <2>2
<1>6. ASSUME OpenOrderDetail PROVE DetailGoes
  <2>1. PICK q : q = OrderReloads(r) /\ Ask(q, OrderLoadCall(r)) /\ r.kind \in {"order", "workspace"}
    BY <1>2, <1>6 DEF OpenOrderDetail
  <2>2. PICK c : /\ IsCall(c) /\ c.op = "order" /\ c.kept = r.tracker + 1
                 /\ OrderLoadCall(r) = <<c>>
    BY OrderIsCalled
  <2>3. PICK G : G = {}
    OBVIOUS
  <2>4. /\ DetailParts \subseteq DOMAIN q /\ q.kind = r.kind
        /\ Passed("detail", r, q, H, {c}, G)
    BY <1>3, <2>1, <2>2, <2>3, OrderReloadPasses
  <2>5. KindFits(c.op, r.kind) /\ Ask(q, <<c>>)
    BY <2>1, <2>2 DEF KindFits
  <2> QED
    BY <1>4, <2>2, <2>3, <2>4, <2>5
<1>7. ASSUME OpenShipmentCard PROVE DetailGoes
  <2>1. PICK q : /\ q = BeginNotes(OrderReloads(r)) /\ r.kind = "shipment"
                 /\ Ask(q, OrderLoadCall(r) \o NotesCall(r))
    BY <1>2, <1>7 DEF OpenShipmentCard, OnDetail
  <2>2. PICK c : /\ IsCall(c) /\ c.op = "order" /\ c.kept = r.tracker + 1
                 /\ OrderLoadCall(r) = <<c>>
    BY OrderIsCalled
  <2>3. PICK d : /\ IsCall(d) /\ d.op = "notes" /\ d.kept = r.run + 1
                 /\ NotesCall(r) = <<d>>
    BY NotesAreCalled
  <2>4. <<c>> \o <<d>> = <<c, d>>
    BY TwoCalls
  <2>5. PICK G : G = {}
    OBVIOUS
  <2>6. /\ DetailParts \subseteq DOMAIN q /\ q.kind = r.kind
        /\ Passed("detail", r, q, H, {c, d}, G)
    BY <1>3, <2>1, <2>2, <2>3, <2>5, BothReloadPasses
  <2>7. Ask(q, <<c, d>>)
    BY <2>1, <2>2, <2>3, <2>4
  <2>8. /\ Goes("detail", DetailParts) /\ page' = q
        /\ Held(calls') \subseteq Held(calls) \union {c, d}
    BY <1>1, <1>2, <2>2, <2>3, <2>5, <2>6, <2>7, AskTwoGoes
  <2>9. KindFits(c.op, r.kind) /\ KindFits(d.op, r.kind)
    BY <2>2, <2>3 DEF KindFits
  <2>10. \A x \in Held(calls') : KindFits(x.op, r.kind)
    BY <1>1, <1>2, <2>8, <2>9
  <2> QED
    BY <2>6, <2>8, <2>10 DEF DetailGoes
<1>8. \A l, q : q = [page EXCEPT !.busy = @ \union {l}] =>
          AsPage(q, r) /\ q.busy \subseteq r.busy \union {l}
  BY <1>1, <1>2 DEF AsPage, DetailParts
<1>9. ASSUME OpenReplacement PROVE DetailGoes
  <2>1. PICK q, c : /\ q = [page EXCEPT !.busy = {"loading"}]
                    /\ c = Call("replacement", 0, 0) /\ Ask(q, <<c>>)
                    /\ r.kind = "replacement"
    BY <1>2, <1>9 DEF OpenReplacement, OnDetail
  <2>2. AsPage(q, r) /\ q.busy \subseteq r.busy \union {"loading"}
    BY <1>1, <1>2, <2>1 DEF AsPage, DetailParts
  <2>3. IsCall(c) /\ c.op = "replacement"
    BY <2>1, CallSays
  <2>4. KindFits(c.op, r.kind) /\ DetailOpens(c, "loading", q)
    BY <2>1, <2>2, <2>3 DEF KindFits, DetailOpens, AsPage
  <2> QED
    BY <1>5, <2>1, <2>2, <2>3, <2>4
<1>10. ASSUME handleAddNoteSubmit PROVE DetailGoes
  <2>1. PICK q, a, k, c :
           /\ q = [page EXCEPT !.busy = @ \union {"saving"}]
           /\ k = IF r.kind = "workspace" THEN r.mount ELSE 0
           /\ c = Call("note", a, k) /\ Ask(q, <<c>>) /\ r.kind # "left"
    BY <1>2, <1>10 DEF handleAddNoteSubmit, HasNoteCard
  <2>2. AsPage(q, r) /\ q.busy \subseteq r.busy \union {"saving"}
    BY <1>8, <2>1
  <2>3. IsCall(c) /\ c.op = "note" /\ c.kept = k
    BY <2>1, CallSays
  <2>4. KindFits(c.op, r.kind) /\ DetailOpens(c, "saving", q)
    BY <2>1, <2>2, <2>3 DEF KindFits, DetailOpens, AsPage
  <2> QED
    BY <1>5, <2>1, <2>2, <2>3, <2>4
<1>11. ASSUME NEW q, page' = q, calls' = calls, mounted' = mounted, AsPage(q, r),
              q.busy = r.busy
       PROVE  DetailGoes
  <2>1. \A k : Keeps(k, r, q)
    BY <1>11 DEF AsPage, Keeps
  <2>2. Passed("detail", r, q, H, {}, {})
    BY <1>11, <2>1, DetailPasses DEF AsPage
  <2>3. Turns(q, {}, {})
    BY <1>1, <1>11 DEF Turns, Held, Known, IsCalls
  <2>4. Goes("detail", DetailParts)
    BY <1>2, <1>11, <2>2, <2>3 DEF Goes, AsPage
  <2>5. Held(calls') = H
    BY <1>2, <1>11 DEF Held
  <2> QED
    BY <1>1, <1>2, <1>11, <2>4, <2>5 DEF DetailGoes, AsPage
<1>12. ASSUME ReplacementsListed PROVE DetailGoes
  <2>1. PICK q, a : /\ q = [page EXCEPT !.listing = FALSE, !.offered = a]
                    /\ page' = q /\ calls' = calls /\ mounted' = mounted
    BY <1>12 DEF ReplacementsListed, Become
  <2>2. AsPage(q, r) /\ q.busy = r.busy
    BY <1>1, <1>2, <2>1 DEF AsPage, DetailParts
  <2> QED
    BY <1>11, <2>1, <2>2
<1>13. ASSUME SubmitReplacement PROVE DetailGoes
  <2>1. PICK q, a, k, c :
           /\ q = [page EXCEPT !.busy = @ \union {"replacing"}]
           /\ k = r.mount /\ c = Call("replace", a, k) /\ Ask(q, <<c>>)
           /\ r.kind \in {"order", "shipment"}
    BY <1>2, <1>13 DEF SubmitReplacement, HasTracker, canShowReplacement,
                       canCreateReplacementFromShipment
  <2>2. AsPage(q, r) /\ q.busy \subseteq r.busy \union {"replacing"}
    BY <1>8, <2>1
  <2>3. IsCall(c) /\ c.op = "replace" /\ c.kept = k
    BY <2>1, CallSays
  <2>4. KindFits(c.op, r.kind) /\ DetailOpens(c, "replacing", q)
    BY <2>1, <2>2, <2>3 DEF KindFits, DetailOpens, AsPage
  <2> QED
    BY <1>5, <2>1, <2>2, <2>3, <2>4
<1>14. ASSUME SaveShipment PROVE DetailGoes
  <2>1. PICK q, a, k, c :
           /\ q = [page EXCEPT !.busy = @ \union {"shipping"}]
           /\ k = r.mount /\ c = Call("ship", a, k) /\ Ask(q, <<c>>)
           /\ r.kind = "workspace"
    BY <1>2, <1>14 DEF SaveShipment, OnDetail
  <2>2. AsPage(q, r) /\ q.busy \subseteq r.busy \union {"shipping"}
    BY <1>8, <2>1
  <2>3. IsCall(c) /\ c.op = "ship" /\ c.kept = k
    BY <2>1, CallSays
  <2>4. KindFits(c.op, r.kind) /\ DetailOpens(c, "shipping", q)
    BY <2>1, <2>2, <2>3 DEF KindFits, DetailOpens, AsPage
  <2> QED
    BY <1>5, <2>1, <2>2, <2>3, <2>4
<1>15. ASSUME submitStatus PROVE DetailGoes
  <2>1. PICK q, t, a, b, m, s, c :
           /\ q = [page EXCEPT !.ship[2] = s, !.busy = @ \union {"updating"}, !.mixed = m]
           /\ t = Remounted(r, q) /\ c = Call("status", a, b) /\ Ask(t, <<c>>)
           /\ r.kind = "shipment"
    BY <1>2, <1>15 DEF submitStatus, OnDetail
  <2>2. AsPage(q, r) /\ q.busy = r.busy \union {"updating"}
    BY <1>1, <1>2, <2>1 DEF AsPage, DetailParts
  <2>3. IsCall(c) /\ c.op = "status"
    BY <2>1, CallSays
  <2>4. KindFits(c.op, r.kind) /\ DetailOpens(c, "updating", q)
    BY <2>1, <2>2, <2>3 DEF KindFits, DetailOpens, AsPage
  <2>5. \A k : Keeps(k, r, q)
    BY <2>2 DEF AsPage, Keeps
  <2>6. PICK N, G : N = {c} /\ G = {}
    OBVIOUS
  <2>7. DetailParts \subseteq DOMAIN q /\ q.kind = r.kind
    BY <2>2 DEF AsPage
  <2>8. Passed("detail", r, q, H, N, G)
    BY <2>2, <2>4, <2>5, <2>6, <2>7, DetailPasses
  <2>9. t = Remounted(r, q) /\ Ask(t, <<c>>)
    BY <2>1
  <2>10. /\ DetailParts \subseteq DOMAIN t /\ t.kind = r.kind
         /\ Passed("detail", r, t, H, N, G)
    BY <2>7, <2>8, <2>9, RemountPasses
  <2> QED
    BY <1>4, <2>3, <2>4, <2>6, <2>9, <2>10
<1>16. ASSUME handleUpdate PROVE DetailGoes
  <2>1. PICK q, a, k, c :
           /\ q = [page EXCEPT !.busy = @ \union {"updating"}]
           /\ c = Call("update", a, k) /\ Ask(q, <<c>>) /\ r.kind = "replacement"
    BY <1>2, <1>16 DEF handleUpdate, OnDetail
  <2>2. AsPage(q, r) /\ q.busy \subseteq r.busy \union {"updating"}
    BY <1>8, <2>1
  <2>3. IsCall(c) /\ c.op = "update"
    BY <2>1, CallSays
  <2>4. KindFits(c.op, r.kind) /\ DetailOpens(c, "updating", q)
    BY <2>1, <2>2, <2>3 DEF KindFits, DetailOpens, AsPage
  <2> QED
    BY <1>5, <2>1, <2>2, <2>3, <2>4
<1>17. ASSUME OthersDetail PROVE DetailGoes
  <2>1. page' = page /\ calls' = calls /\ mounted' = mounted
    BY <1>17 DEF OthersDetail, Elsewhere
  <2> QED
    BY <1>2, <1>3, <1>11, <2>1
<1> QED
  BY <1>6, <1>7, <1>9, <1>10, <1>12, <1>13, <1>14, <1>15, <1>16, <1>17 DEF DetailStep

LEMMA DetailPerforms ==
    ASSUME NEW i, DetailServe(i)
    PROVE  Performed(i)
<1>1. Refuse(i) => Performed(i)
  BY DEF Performed, Refuse
<1>2. \A s, b : Perform(i, s, TRUE, b) => Performed(i)
  BY DEF Performed
<1> QED
  BY <1>1, <1>2 DEF DetailServe

LEMMA DetailLockReturns ==
    ASSUME At("detail"), DetailLocks, NEW i \in DOMAIN calls, DetailReturn(i)
    PROVE  DetailGoes
<1>1. /\ DetailParts \subseteq DOMAIN page /\ Known(calls)
      /\ \A c \in Held(calls) : KindFits(c.op, page.kind)
  BY DEF DetailLocks, LocksOf, DetailParts
<1>2. PICK r, H, g, G : r = page /\ H = Held(calls) /\ g = calls[i] /\ G = {g}
  OBVIOUS
<1>3. AsPage(r, r) /\ KindFits(g.op, r.kind)
  BY <1>1, <1>2 DEF AsPage, Held
<1>4. ASSUME NEW q, DetailParts \subseteq DOMAIN q, q.kind = r.kind, NEW c, IsCall(c),
             KindFits(c.op, r.kind), Continue(i, q, <<c>>),
             Passed("detail", r, q, H, {c}, G)
      PROVE  DetailGoes
  <2>1. /\ Goes("detail", DetailParts) /\ page' = q
        /\ Held(calls') \subseteq Held(calls) \union {c}
    BY <1>1, <1>2, <1>4, ContinueOneGoes
  <2>2. \A x \in Held(calls') : KindFits(x.op, r.kind)
    BY <1>1, <1>2, <1>4, <2>1
  <2> QED
    BY <1>4, <2>1, <2>2 DEF DetailGoes
<1>5. ASSUME NEW q, DetailParts \subseteq DOMAIN q, q.kind = r.kind, Continue(i, q, <<>>),
             NEW N, N = {}, Passed("detail", r, q, H, N, G)
      PROVE  DetailGoes
  <2>1. /\ Goes("detail", DetailParts) /\ page' = q
        /\ Held(calls') \subseteq Held(calls)
    BY <1>1, <1>2, <1>5, ContinueGoes
  <2>2. \A x \in Held(calls') : KindFits(x.op, r.kind)
    BY <1>1, <1>2, <2>1
  <2> QED
    BY <1>5, <2>1, <2>2 DEF DetailGoes
<1>6. ASSUME NEW q, DetailParts \subseteq DOMAIN q, q.kind = r.kind,
             Continue(i, q, <<>>) \/ GoOn(i, q, <<>>),
             NEW N, N = {}, Passed("detail", r, q, H, N, G)
      PROVE  DetailGoes
  <2>1. CASE Continue(i, q, <<>>)
    BY <1>5, <1>6, <2>1
  <2>2. CASE GoOn(i, q, <<>>)
    <3>1. PICK t : t = Remounted(r, q) /\ Continue(i, t, <<>>)
      BY <1>2, <2>2 DEF GoOn
    <3>2. /\ DetailParts \subseteq DOMAIN t /\ t.kind = r.kind
          /\ Passed("detail", r, t, H, N, G)
      BY <1>6, <3>1, RemountPasses
    <3> QED
      BY <1>5, <1>6, <3>1, <3>2
  <2> QED
    BY <1>6, <2>1, <2>2
<1>7. ASSUME NEW q, DetailParts \subseteq DOMAIN q, q.kind = r.kind, NEW c, IsCall(c),
             KindFits(c.op, r.kind), Continue(i, q, <<c>>) \/ GoOn(i, q, <<c>>),
             NEW N, N = {c}, Passed("detail", r, q, H, N, G)
      PROVE  DetailGoes
  <2>1. CASE Continue(i, q, <<c>>)
    BY <1>4, <1>7, <2>1
  <2>2. CASE GoOn(i, q, <<c>>)
    <3>1. PICK t : t = Remounted(r, q) /\ Continue(i, t, <<c>>)
      BY <1>2, <2>2 DEF GoOn
    <3>2. /\ DetailParts \subseteq DOMAIN t /\ t.kind = r.kind
          /\ Passed("detail", r, t, H, N, G)
      BY <1>7, <3>1, RemountPasses
    <3> QED
      BY <1>4, <1>7, <3>1, <3>2
  <2> QED
    BY <1>7, <2>1, <2>2
\* The call's lock is released and nothing else changes.
<1>8. ASSUME NEW q, AsPage(q, r), q.busy \subseteq r.busy,
             \A l \in q.busy : ~DetailOpens(g, l, r),
             Continue(i, q, <<>>) \/ GoOn(i, q, <<>>)
      PROVE  DetailGoes
  <2>1. DetailParts \subseteq DOMAIN q /\ q.kind = r.kind /\ \A k : Keeps(k, r, q)
    BY <1>8 DEF AsPage, Keeps
  <2>2. PICK N : N = {}
    OBVIOUS
  <2>3. \A l \in q.busy : l \in r.busy /\ Keeps(l, r, q) /\ \A d \in G : ~DetailOpens(d, l, r)
    BY <1>2, <1>8, <2>1
  <2>4. Passed("detail", r, q, H, N, G)
    BY <2>1, <2>3, DetailPasses
  <2> QED
    BY <1>6, <1>8, <2>1, <2>2, <2>4
\* A call that opens nothing any more.
<1>9. ASSUME Continue(i, page, <<>>), \A l \in r.busy : ~DetailOpens(g, l, r) PROVE DetailGoes
  BY <1>2, <1>3, <1>8, <1>9
\* The same, and the order is loaded again.
<1>10. ASSUME NEW o, AsPage(o, r), r.kind # "left", o.busy \subseteq r.busy,
              \A l \in o.busy : ~DetailOpens(g, l, r), NEW x, x.tracker = r.tracker,
              \/ Continue(i, OrderReloads(o), OrderLoadCall(x))
              \/ GoOn(i, OrderReloads(o), OrderLoadCall(x))
       PROVE  DetailGoes
  <2>1. PICK q : /\ q = OrderReloads(o)
                 /\ Continue(i, q, OrderLoadCall(x)) \/ GoOn(i, q, OrderLoadCall(x))
    BY <1>10
  <2>2. PICK c : /\ IsCall(c) /\ c.op = "order" /\ c.kept = r.tracker + 1
                 /\ OrderLoadCall(x) = <<c>>
    BY <1>10, OrderIsCalled
  <2>3. PICK N : N = {c}
    OBVIOUS
  <2>4. \A d \in G : \A l \in o.busy : ~DetailOpens(d, l, r)
    BY <1>2, <1>10
  <2>5. /\ DetailParts \subseteq DOMAIN q /\ q.kind = r.kind
        /\ Passed("detail", r, q, H, N, G)
    BY ZenonT(60), <1>10, <2>1, <2>2, <2>3, <2>4, OrderReloadPasses
  <2>6. KindFits(c.op, r.kind)
    BY <2>2 DEF KindFits
  <2>7. Continue(i, q, <<c>>) \/ GoOn(i, q, <<c>>)
    BY <2>1, <2>2
  <2> QED
    BY <1>7, <2>2, <2>3, <2>5, <2>6, <2>7
\* Staff is taken to another page.
<1>11. ASSUME Continue(i, [page EXCEPT !.kind = "left", !.busy = {}], <<>>),
              r.kind # "replacement"
       PROVE  DetailGoes
  <2>1. PICK q : q = [page EXCEPT !.kind = "left", !.busy = {}] /\ Continue(i, q, <<>>)
    BY <1>11
  <2>2. DetailParts \subseteq DOMAIN q /\ q.busy = {} /\ q.kind = "left"
    BY <1>1, <2>1 DEF DetailParts
  <2>3. Passed("detail", r, q, H, {}, {g})
    BY <2>2 DEF Passed
  <2>4. /\ Goes("detail", DetailParts) /\ page' = q
        /\ Held(calls') \subseteq Held(calls)
    BY <1>1, <1>2, <2>1, <2>2, <2>3, ContinueGoes
  <2>5. \A x \in Held(calls') : KindFits(x.op, "left")
    BY <1>1, <1>2, <1>11, <2>4 DEF KindFits
  <2> QED
    BY <2>2, <2>4, <2>5 DEF DetailGoes
<1>12. ASSUME OrderDropped(i) PROVE DetailGoes
  <2>1. g.op = "order" /\ (r.kind = "left" \/ g.kept # r.tracker) /\ Continue(i, page, <<>>)
    BY <1>2, <1>12 DEF OrderDropped, OrderReturned, IsLast, IsCurrentRequest
  <2>2. \A l \in r.busy : ~DetailOpens(g, l, r)
    BY <2>1 DEF DetailOpens
  <2> QED
    BY <1>9, <2>1, <2>2
\* The answer of the order, with the notes after it or none.
<1>13. ASSUME NEW p, p = OrderAnswer(i), g.op = "order"
       PROVE  /\ AsPage(p, r) /\ p.busy = r.busy \ {"order"}
              /\ \A l \in p.busy : ~DetailOpens(g, l, r)
  <2>1. PICK a : p = [page EXCEPT !.busy = @ \ {"order"}, !.order = a]
    BY <1>13 DEF OrderAnswer
  <2>2. AsPage(p, r) /\ p.busy = r.busy \ {"order"}
    BY <1>1, <1>2, <2>1 DEF AsPage, DetailParts
  <2> QED
    BY <1>13, <2>2 DEF DetailOpens
<1>14. ASSUME OrderPageLoaded(i) \/ ShipmentOrderLoaded(i) PROVE DetailGoes
  <2>1. PICK p : /\ p = OrderAnswer(i) /\ g.op = "order" /\ r.kind # "left"
                 /\ \/ Continue(i, EndNotes(p), <<>>) \/ GoOn(i, EndNotes(p), <<>>)
                    \/ Continue(i, BeginNotes(p), NotesCall(p))
                    \/ GoOn(i, BeginNotes(p), NotesCall(p))
    BY <1>2, <1>14 DEF OrderPageLoaded, ShipmentOrderLoaded, OrderReturned, IsLast
  <2>2. /\ AsPage(p, r) /\ p.busy = r.busy \ {"order"}
        /\ \A l \in p.busy : ~DetailOpens(g, l, r)
    BY <1>13, <2>1
  <2>3. CASE Continue(i, EndNotes(p), <<>>) \/ GoOn(i, EndNotes(p), <<>>)
    <3>1. PICK q, N : q = EndNotes(p) /\ N = {}
      OBVIOUS
    <3>2. /\ DetailParts \subseteq DOMAIN q /\ q.kind = r.kind /\ q.tracker = r.tracker
          /\ q.mount = r.mount /\ q.busy = p.busy \ {"notes"}
      BY <2>2, <3>1, EndNotesIs DEF AsPage
    <3>3. \A l \in q.busy : l \in r.busy /\ Keeps(l, r, q) /\ \A d \in G : ~DetailOpens(d, l, r)
      BY <1>2, <2>2, <3>2 DEF Keeps
    <3>4. Passed("detail", r, q, H, N, G)
      BY <3>2, <3>3, DetailPasses
    <3> QED
      BY <1>6, <2>3, <3>1, <3>2, <3>4
  <2>4. CASE Continue(i, BeginNotes(p), NotesCall(p)) \/ GoOn(i, BeginNotes(p), NotesCall(p))
    <3>1. PICK c : /\ IsCall(c) /\ c.op = "notes" /\ c.kept = p.run + 1
                   /\ NotesCall(p) = <<c>>
      BY NotesAreCalled
    <3>2. PICK q, N : q = BeginNotes(p) /\ N = {c}
      OBVIOUS
    <3>3. /\ DetailParts \subseteq DOMAIN q /\ q.kind = r.kind /\ q.tracker = r.tracker
          /\ q.mount = r.mount /\ q.run = r.run + 1 /\ q.busy = p.busy \union {"notes"}
      BY <2>2, <3>2, BeginNotesIs DEF AsPage
    <3>4. DetailOpens(c, "notes", q)
      BY <2>1, <2>2, <3>1, <3>3 DEF DetailOpens, AsPage
    <3>5. \A l \in q.busy : \/ l = "notes"
                            \/ /\ l \in r.busy /\ Keeps(l, r, q)
                               /\ \A d \in G : ~DetailOpens(d, l, r)
      BY <1>2, <2>2, <3>3 DEF Keeps
    <3>6. Passed("detail", r, q, H, N, G)
      BY <3>2, <3>3, <3>4, <3>5, DetailPasses
    <3>7. KindFits(c.op, r.kind) /\ (Continue(i, q, <<c>>) \/ GoOn(i, q, <<c>>))
      BY <2>4, <3>1, <3>2 DEF KindFits
    <3> QED
      BY <1>7, <3>1, <3>2, <3>3, <3>6, <3>7
  <2> QED
    BY <2>1, <2>3, <2>4
<1>15. ASSUME InvoiceOrderLoaded(i) PROVE DetailGoes
  <2>1. PICK p : p = OrderAnswer(i) /\ g.op = "order" /\ GoOn(i, p, <<>>)
    BY <1>2, <1>15 DEF InvoiceOrderLoaded, OrderReturned
  <2>2. /\ AsPage(p, r) /\ p.busy = r.busy \ {"order"}
        /\ \A l \in p.busy : ~DetailOpens(g, l, r)
    BY <1>13, <2>1
  <2> QED
    BY <1>8, <2>1, <2>2
\* A page without the lock d, of whatever order, shipment and notes.
<1>16. ASSUME NEW d, NEW q, NEW a, NEW b,
              \/ q = [page EXCEPT !.busy = @ \ {d}]
              \/ q = [page EXCEPT !.busy = @ \ {d}, !.ship = a]
              \/ q = [page EXCEPT !.busy = @ \ {d}, !.notes = a]
              \/ q = [page EXCEPT !.busy = @ \ {d}, !.notes = a, !.mixed = b]
              \/ q = [page EXCEPT !.busy = @ \ {d}, !.rep = a]
       PROVE  AsPage(q, r) /\ q.busy = r.busy \ {d}
  BY <1>1, <1>2, <1>16 DEF AsPage, DetailParts
<1>17. ASSUME ShipmentNotesLoaded(i) PROVE DetailGoes
  <2>1. g.op = "notes"
    BY <1>2, <1>17 DEF ShipmentNotesLoaded
  <2>2. CASE g.kept # page.run
    <3>1. Continue(i, page, <<>>)
      BY <1>2, <1>17, <2>2 DEF ShipmentNotesLoaded
    <3>2. \A l \in r.busy : ~DetailOpens(g, l, r)
      BY <1>2, <2>1, <2>2 DEF DetailOpens
    <3> QED
      BY <1>9, <3>1, <3>2
  <2>3. CASE g.kept = page.run
    <3>1. PICK p, q, a : /\ p = [page EXCEPT !.busy = @ \ {"notes"}]
                         /\ q = p \/ q = [p EXCEPT !.notes = a]
                         /\ Continue(i, q, <<>>)
      BY <1>2, <1>17, <2>3 DEF ShipmentNotesLoaded
    <3>2. AsPage(p, r) /\ p.busy = r.busy \ {"notes"}
      BY <1>16, <3>1
    <3>3. AsPage(q, r) /\ q.busy = r.busy \ {"notes"}
      BY <3>1, <3>2 DEF AsPage, DetailParts
    <3>4. \A l \in q.busy : ~DetailOpens(g, l, r)
      BY <2>1, <3>3 DEF DetailOpens
    <3> QED
      BY <1>8, <3>1, <3>3, <3>4
  <2> QED
    BY <2>2, <2>3
\* The form of notes: its lock is the call's, unless its card has gone.
<1>18. ASSUME g.op = "note", NEW q, AsPage(q, r), q.busy = r.busy \ {"saving"}
       PROVE  q.busy \subseteq r.busy /\ \A l \in q.busy : ~DetailOpens(g, l, r)
  BY <1>18 DEF DetailOpens
<1>19. ASSUME g.op = "note", r.kind = "workspace", g.kept # r.mount
       PROVE  \A l \in r.busy : ~DetailOpens(g, l, r)
  BY <1>19 DEF DetailOpens
<1>20. ASSUME NEW q, q = NoteFormDone(page)
       PROVE  AsPage(q, r) /\ q.busy = r.busy \ {"saving"}
  BY <1>16, <1>20 DEF NoteFormDone
<1>21. ASSUME OrderPageNoteAdded(i) PROVE DetailGoes
  <2>1. g.op = "note" /\ r.kind = "order"
    BY <1>2, <1>21 DEF OrderPageNoteAdded, NoteRefused, NoteReturned
  <2>2. CASE NoteRefused(i, "order", TRUE)
    <3>1. PICK q : q = [page EXCEPT !.busy = @ \ {"saving"}] /\ Continue(i, q, <<>>)
      BY <2>2 DEF NoteRefused
    <3>2. AsPage(q, r) /\ q.busy = r.busy \ {"saving"}
      BY <1>16, <3>1
    <3> QED
      BY <1>8, <1>18, <2>1, <3>1, <3>2
  <2>3. CASE GoOn(i, OrderPageReloads(NoteFormDone(page)), OrderLoadCall(page))
    <3>1. PICK o : o = NoteFormDone(page)
      OBVIOUS
    <3>2. AsPage(o, r) /\ o.busy = r.busy \ {"saving"}
      BY <1>20, <3>1
    <3>3. OrderReloads(o) = OrderPageReloads(o)
      BY <2>1, <3>2 DEF OrderReloads, AsPage
    <3>4. GoOn(i, OrderReloads(o), OrderLoadCall(r))
      BY <1>2, <2>3, <3>1, <3>3
    <3> QED
      BY <1>10, <1>18, <2>1, <3>2, <3>4
  <2> QED
    BY <1>21, <2>2, <2>3 DEF OrderPageNoteAdded
<1>22. ASSUME ShipmentOrderNoteAdded(i) PROVE DetailGoes
  <2>1. g.op = "note" /\ r.kind \in {"workspace", "left"}
    BY <1>2, <1>22 DEF ShipmentOrderNoteAdded, NoteRefused, NoteReturned
  <2>2. ASSUME NEW o, \/ g.kept = r.mount /\ o = NoteFormDone(page)
                      \/ g.kept # r.mount /\ o = page,
               r.kind = "workspace"
        PROVE  /\ AsPage(o, r) /\ o.busy \subseteq r.busy
               /\ \A l \in o.busy : ~DetailOpens(g, l, r)
    <3>1. CASE g.kept = r.mount
      <4>1. AsPage(o, r) /\ o.busy = r.busy \ {"saving"}
        BY <1>20, <2>2, <3>1
      <4> QED
        BY <1>18, <2>1, <4>1
    <3>2. CASE g.kept # r.mount
      BY <1>2, <1>3, <1>19, <2>1, <2>2, <3>2
    <3> QED
      BY <3>1, <3>2
  <2>3. CASE NoteRefused(i, "workspace", calls[i].kept = page.mount)
    <3>1. PICK q : /\ \/ g.kept = r.mount /\ q = NoteFormDone(page)
                      \/ g.kept # r.mount /\ q = page
                   /\ Continue(i, q, <<>>) /\ r.kind = "workspace"
      BY <1>2, <2>3 DEF NoteRefused, NoteReturned, NoteFormDone
    <3>2. /\ AsPage(q, r) /\ q.busy \subseteq r.busy
          /\ \A l \in q.busy : ~DetailOpens(g, l, r)
      BY <2>2, <3>1
    <3> QED
      BY <1>8, <3>1, <3>2
  <2>4. CASE /\ r.kind = "workspace"
             /\ Continue(i, ShipmentOrderReloads(IF calls[i].kept = page.mount
                                                 THEN NoteFormDone(page) ELSE page),
                         OrderLoadCall(page))
    <3>1. PICK o : /\ \/ g.kept = r.mount /\ o = NoteFormDone(page)
                      \/ g.kept # r.mount /\ o = page
                   /\ Continue(i, ShipmentOrderReloads(o), OrderLoadCall(r))
      BY <1>2, <2>4
    <3>2. /\ AsPage(o, r) /\ o.busy \subseteq r.busy
          /\ \A l \in o.busy : ~DetailOpens(g, l, r)
      BY <2>2, <2>4, <3>1
    <3>3. OrderReloads(o) = ShipmentOrderReloads(o)
      BY <2>4, <3>2 DEF OrderReloads, AsPage
    <3>4. Continue(i, OrderReloads(o), OrderLoadCall(r))
      BY <3>1, <3>3
    <3> QED
      BY <1>10, <2>4, <3>2, <3>4
  <2>5. CASE r.kind = "left" /\ Continue(i, page, <<>>)
    <3>1. \A l \in r.busy : ~DetailOpens(g, l, r)
      BY <2>5 DEF DetailOpens
    <3> QED
      BY <1>9, <2>5, <3>1
  <2> QED
    BY <1>2, <1>22, <2>3, <2>4, <2>5 DEF ShipmentOrderNoteAdded, NoteReturned
<1>23. ASSUME ShipmentPageNoteAdded(i) PROVE DetailGoes
  <2>1. PICK q, a, b :
           /\ \/ q = [page EXCEPT !.busy = @ \ {"saving"}]
              \/ q = [page EXCEPT !.busy = @ \ {"saving"}, !.notes = a, !.mixed = b]
           /\ Continue(i, q, <<>>) /\ g.op = "note"
    BY <1>2, <1>23 DEF ShipmentPageNoteAdded, NoteRefused, NoteReturned, NoteFormDone
  <2>2. AsPage(q, r) /\ q.busy = r.busy \ {"saving"}
    BY <1>16, <2>1
  <2> QED
    BY <1>8, <1>18, <2>1, <2>2
<1>24. ASSUME ReplacementPageNoteAdded(i) PROVE DetailGoes
  <2>1. g.op = "note" /\ r.kind = "replacement"
    BY <1>2, <1>24 DEF ReplacementPageNoteAdded, NoteRefused, NoteReturned
  <2>2. PICK o : /\ o = NoteFormDone(page)
                 /\ \/ Continue(i, o, <<>>)
                    \/ Continue(i, OrderReloads(o), OrderLoadCall(r))
    BY <1>2, <1>24 DEF ReplacementPageNoteAdded, NoteRefused, NoteFormDone
  <2>3. AsPage(o, r) /\ o.busy = r.busy \ {"saving"}
    BY <1>20, <2>2
  <2>4. o.busy \subseteq r.busy /\ \A l \in o.busy : ~DetailOpens(g, l, r)
    BY <1>18, <2>1, <2>3
  <2>5. CASE Continue(i, o, <<>>)
    BY <1>8, <2>3, <2>4, <2>5
  <2>6. CASE Continue(i, OrderReloads(o), OrderLoadCall(r))
    BY <1>10, <2>1, <2>3, <2>4, <2>6
  <2> QED
    BY <2>2, <2>5, <2>6
\* The page without the lock of the call, which a component had that may have
\* gone since.
<1>25. ASSUME NEW free, NEW d,
              \/ g.op \in {"replace", "refresh"} /\ d = "replacing"
              \/ g.op = "ship" /\ d = "shipping",
              \/ g.kept = r.mount /\ free = [page EXCEPT !.busy = @ \ {d}]
              \/ g.kept # r.mount /\ free = page
       PROVE  /\ AsPage(free, r) /\ free.busy \subseteq r.busy /\ free.tracker = r.tracker
              /\ \A l \in free.busy : ~DetailOpens(g, l, r)
  <2>1. AsPage(free, r) /\ free.busy \subseteq r.busy
        /\ (g.kept = r.mount => free.busy = r.busy \ {d})
    BY <1>1, <1>2, <1>3, <1>25 DEF AsPage, DetailParts
  <2>2. \A l \in free.busy : ~DetailOpens(g, l, r)
    BY <1>25, <2>1 DEF DetailOpens
  <2> QED
    BY <2>1, <2>2 DEF AsPage
<1>26. ASSUME r.kind = "left" PROVE \A l \in r.busy : ~DetailOpens(g, l, r)
  BY <1>26 DEF DetailOpens
<1>27. ASSUME ReplacementCreated(i) PROVE DetailGoes
  <2>1. g.op = "replace" /\ r.kind \in {"order", "shipment", "left"}
    BY <1>2, <1>3, <1>27 DEF ReplacementCreated, KindFits
  <2>2. PICK free, q, n, c :
           /\ \/ g.kept = r.mount /\ free = [page EXCEPT !.busy = @ \ {"replacing"}]
              \/ g.kept # r.mount /\ free = page
           /\ \E a, b : q = [page EXCEPT !.listing = a, !.refreshes = n, !.mixed = b]
           /\ c = Call("refresh", n, g.kept)
           /\ \/ r.kind = "left" /\ Continue(i, page, <<>>)
              \/ Continue(i, free, <<>>)
              \/ r.kind = "order" /\ GoOn(i, OrderReloads(free), OrderLoadCall(free))
              \/ r.kind = "shipment" /\ Continue(i, q, <<c>>)
    <3>1. PICK free : free = IF g.kept = r.mount THEN [page EXCEPT !.busy = @ \ {"replacing"}]
                             ELSE page
      OBVIOUS
    <3>2. PICK n, q, c :
             /\ n = BeginRequest(page.refreshes)
             /\ q = [page EXCEPT !.listing = @ \/ g.kept = r.mount,
                       !.refreshes = BeginRequest(@), !.mixed = @ \/ "updating" \in page.busy]
             /\ c = Call("refresh", n, g.kept)
      OBVIOUS
    <3>3. \/ r.kind = "left" /\ Continue(i, page, <<>>)
          \/ Continue(i, free, <<>>)
          \/ r.kind = "order" /\ GoOn(i, OrderReloads(free), OrderLoadCall(free))
          \/ r.kind \notin {"left", "order"} /\ Continue(i, q, <<c>>)
      BY <1>2, <1>27, <3>1, <3>2 DEF ReplacementCreated
    <3>4. \E a, b : q = [page EXCEPT !.listing = a, !.refreshes = n, !.mixed = b]
      BY <3>2
    <3> QED
      BY <2>1, <3>1, <3>2, <3>3, <3>4
  <2>3. /\ AsPage(free, r) /\ free.busy \subseteq r.busy /\ free.tracker = r.tracker
        /\ \A l \in free.busy : ~DetailOpens(g, l, r)
    BY <1>25, <2>1, <2>2
  <2>4. CASE r.kind = "left" /\ Continue(i, page, <<>>)
    BY <1>9, <1>26, <2>4
  <2>5. CASE Continue(i, free, <<>>)
    BY <1>8, <2>3, <2>5
  <2>6. CASE r.kind = "order" /\ GoOn(i, OrderReloads(free), OrderLoadCall(free))
    BY <1>10, <2>3, <2>6
  <2>7. CASE r.kind = "shipment" /\ Continue(i, q, <<c>>)
    <3>1. IsCall(c) /\ c.op = "refresh" /\ c.kept = g.kept
      BY <2>2, CallSays
    <3>2. AsPage(q, r) /\ q.busy = r.busy
      BY <1>1, <1>2, <2>2 DEF AsPage, DetailParts
    <3>3. \A l : DetailOpens(g, l, r) => l = "replacing" /\ DetailOpens(c, l, q)
      BY <2>1, <2>7, <3>1, <3>2 DEF DetailOpens, AsPage
    <3>4. PICK N : N = {c}
      OBVIOUS
    <3>5. \A l \in q.busy : \/ \E x \in N : DetailOpens(x, l, q)
                            \/ /\ l \in r.busy /\ Keeps(l, r, q)
                               /\ \A x \in G : ~DetailOpens(x, l, r)
      BY <1>2, <3>2, <3>3, <3>4 DEF Keeps, AsPage
    <3>6. DetailParts \subseteq DOMAIN q /\ q.kind = r.kind
      BY <3>2 DEF AsPage
    <3>7. Passed("detail", r, q, H, N, G)
      BY <3>5, <3>6, DetailPasses
    <3>8. KindFits(c.op, r.kind)
      BY <2>7, <3>1 DEF KindFits
    <3> QED
      BY <1>7, <2>7, <3>1, <3>4, <3>6, <3>7, <3>8
  <2> QED
    BY <2>2, <2>4, <2>5, <2>6, <2>7
<1>28. ASSUME ShipmentRefreshed(i) PROVE DetailGoes
  <2>1. g.op = "refresh" /\ r.kind \in {"order", "shipment", "left"}
    BY <1>2, <1>3, <1>28 DEF ShipmentRefreshed, KindFits
  <2>2. PICK free, q :
           /\ \/ g.kept = r.mount /\ free = [page EXCEPT !.busy = @ \ {"replacing"}]
              \/ g.kept # r.mount /\ free = page
           /\ \E a : q = [free EXCEPT !.ship = a]
           /\ \/ r.kind = "left" /\ Continue(i, page, <<>>)
              \/ Continue(i, [page EXCEPT !.kind = "left", !.busy = {}], <<>>)
              \/ r.kind # "left" /\ GoOn(i, OrderReloads(q), OrderLoadCall(q))
    <3>1. PICK free : free = IF g.kept = r.mount THEN [page EXCEPT !.busy = @ \ {"replacing"}]
                             ELSE page
      OBVIOUS
    <3>2. PICK q : q = [free EXCEPT !.ship = IF IsCurrentRequest(calls[i].arg, page.refreshes)
                                             THEN Body(i) ELSE @]
      OBVIOUS
    <3>3. \/ r.kind = "left" /\ Continue(i, page, <<>>)
          \/ Continue(i, [page EXCEPT !.kind = "left", !.busy = {}], <<>>)
          \/ r.kind # "left" /\ GoOn(i, OrderReloads(q), OrderLoadCall(q))
      BY <1>2, <1>28, <3>1, <3>2 DEF ShipmentRefreshed
    <3>4. \E a : q = [free EXCEPT !.ship = a]
      BY <3>2
    <3> QED
      BY <3>1, <3>3, <3>4
  <2>3. /\ AsPage(free, r) /\ free.busy \subseteq r.busy /\ free.tracker = r.tracker
        /\ \A l \in free.busy : ~DetailOpens(g, l, r)
    BY <1>25, <2>1, <2>2
  <2>4. CASE r.kind = "left" /\ Continue(i, page, <<>>)
    BY <1>9, <1>26, <2>4
  <2>5. CASE Continue(i, [page EXCEPT !.kind = "left", !.busy = {}], <<>>)
    BY <1>11, <2>1, <2>5
  <2>6. CASE r.kind # "left" /\ GoOn(i, OrderReloads(q), OrderLoadCall(q))
    <3>1. PICK a : q = [free EXCEPT !.ship = a]
      BY <2>2
    <3>2. AsPage(q, r) /\ q.busy = free.busy /\ q.tracker = r.tracker
      BY <2>3, <3>1 DEF AsPage, DetailParts
    <3> QED
      BY <1>10, <2>3, <2>6, <3>2
  <2> QED
    BY <2>2, <2>4, <2>5, <2>6
<1>29. ASSUME handleShipmentCreated(i) PROVE DetailGoes
  <2>1. g.op = "ship" /\ r.kind \in {"workspace", "left"}
    BY <1>2, <1>3, <1>29 DEF handleShipmentCreated, KindFits
  <2>2. PICK free :
           /\ \/ g.kept = r.mount /\ free = [page EXCEPT !.busy = @ \ {"shipping"}]
              \/ g.kept # r.mount /\ free = page
           /\ \/ r.kind = "left" /\ Continue(i, page, <<>>)
              \/ Continue(i, free, <<>>)
              \/ Continue(i, [page EXCEPT !.kind = "left", !.busy = {}], <<>>)
              \/ r.kind # "left" /\ GoOn(i, OrderReloads(free), OrderLoadCall(free))
    <3>1. PICK free : free = IF g.kept = r.mount THEN [page EXCEPT !.busy = @ \ {"shipping"}]
                             ELSE page
      OBVIOUS
    <3>2. \/ r.kind = "left" /\ Continue(i, page, <<>>)
          \/ Continue(i, free, <<>>)
          \/ Continue(i, [page EXCEPT !.kind = "left", !.busy = {}], <<>>)
          \/ r.kind # "left" /\ GoOn(i, OrderReloads(free), OrderLoadCall(free))
      BY <1>2, <1>29, <3>1 DEF handleShipmentCreated
    <3> QED
      BY <3>1, <3>2
  <2>3. /\ AsPage(free, r) /\ free.busy \subseteq r.busy /\ free.tracker = r.tracker
        /\ \A l \in free.busy : ~DetailOpens(g, l, r)
    BY <1>25, <2>1, <2>2
  <2>4. CASE r.kind = "left" /\ Continue(i, page, <<>>)
    BY <1>9, <1>26, <2>4
  <2>5. CASE Continue(i, free, <<>>)
    BY <1>8, <2>3, <2>5
  <2>6. CASE Continue(i, [page EXCEPT !.kind = "left", !.busy = {}], <<>>)
    BY <1>11, <2>1, <2>6
  <2>7. CASE r.kind # "left" /\ GoOn(i, OrderReloads(free), OrderLoadCall(free))
    BY <1>10, <2>3, <2>7
  <2> QED
    BY <2>2, <2>4, <2>5, <2>6, <2>7
<1>30. ASSUME StatusAnswered(i) PROVE DetailGoes
  <2>1. g.op = "status"
    BY <1>2, <1>30 DEF StatusAnswered
  <2>2. PICK q, a :
           /\ q = [page EXCEPT !.busy = @ \ {"updating"}, !.ship = a]
           /\ \/ r.kind = "left" /\ Continue(i, page, <<>>)
              \/ r.kind # "left" /\ GoOn(i, OrderReloads(q), OrderLoadCall(q))
    BY <1>2, <1>30 DEF StatusAnswered
  <2>3. CASE r.kind = "left" /\ Continue(i, page, <<>>)
    BY <1>9, <1>26, <2>3
  <2>4. CASE r.kind # "left" /\ GoOn(i, OrderReloads(q), OrderLoadCall(q))
    <3>1. AsPage(q, r) /\ q.busy = r.busy \ {"updating"}
      BY <1>16, <2>2
    <3>2. \A l \in q.busy : ~DetailOpens(g, l, r)
      BY <2>1, <3>1 DEF DetailOpens
    <3>3. q.tracker = r.tracker /\ q.busy \subseteq r.busy
      BY <3>1 DEF AsPage
    <3> QED
      BY <1>10, <2>4, <3>1, <3>2, <3>3
  <2> QED
    BY <2>2, <2>3, <2>4
<1>31. ASSUME ReplacementLoaded(i) PROVE DetailGoes
  <2>1. g.op = "replacement" /\ r.kind = "replacement"
    BY <1>2, <1>3, <1>31 DEF ReplacementLoaded, KindFits
  <2>2. PICK free, o, a :
           /\ free = [page EXCEPT !.busy = @ \ {"loading"}]
           /\ o = [free EXCEPT !.rep = a]
           /\ \/ Continue(i, free, <<>>)
              \/ Continue(i, BeginNotes(OrderReloads(o)), OrderLoadCall(free) \o NotesCall(free))
    BY <1>31 DEF ReplacementLoaded
  <2>3. AsPage(free, r) /\ free.busy = r.busy \ {"loading"}
    BY <1>16, <2>2
  <2>4. AsPage(o, r) /\ o.busy = r.busy \ {"loading"}
    BY <2>2, <2>3 DEF AsPage, DetailParts
  <2>5. \A l \in free.busy : ~DetailOpens(g, l, r)
    BY <2>1, <2>3 DEF DetailOpens
  <2>6. CASE Continue(i, free, <<>>)
    BY <1>8, <2>3, <2>5, <2>6
  <2>7. CASE Continue(i, BeginNotes(OrderReloads(o)), OrderLoadCall(free) \o NotesCall(free))
    <3>1. PICK c : /\ IsCall(c) /\ c.op = "order" /\ c.kept = free.tracker + 1
                   /\ OrderLoadCall(free) = <<c>>
      BY OrderIsCalled
    <3>2. PICK d : /\ IsCall(d) /\ d.op = "notes" /\ d.kept = free.run + 1
                   /\ NotesCall(free) = <<d>>
      BY NotesAreCalled
    <3>3. <<c>> \o <<d>> = <<c, d>>
      BY TwoCalls
    <3>4. PICK q : q = BeginNotes(OrderReloads(o)) /\ Continue(i, q, <<c, d>>)
      BY <2>7, <3>1, <3>2, <3>3
    <3>5. c.kept = r.tracker + 1 /\ d.kept = r.run + 1
      BY <2>3, <3>1, <3>2 DEF AsPage
    <3>6. /\ o.busy \subseteq r.busy
          /\ \A x \in G : \A l \in o.busy : ~DetailOpens(x, l, r)
      BY <1>2, <2>3, <2>4, <2>5
    <3>7. /\ DetailParts \subseteq DOMAIN q /\ q.kind = r.kind
          /\ Passed("detail", r, q, H, {c, d}, G)
      BY <2>1, <2>4, <3>1, <3>2, <3>4, <3>5, <3>6, BothReloadPasses
    <3>8. /\ Goes("detail", DetailParts) /\ page' = q
          /\ Held(calls') \subseteq Held(calls) \union {c, d}
      <4>1. /\ IsCall(c) /\ IsCall(d) /\ Continue(i, q, <<c, d>>)
            /\ DetailParts \subseteq DOMAIN q
        BY <3>1, <3>2, <3>4, <3>7
      <4>2. Passed("detail", r, q, H, {c, d}, {g})
        BY <1>2, <3>7
      <4>3. r = page /\ H = Held(calls) /\ g = calls[i] /\ Known(calls)
        BY <1>1, <1>2
      <4> QED
        BY <4>1, <4>2, <4>3, ContinueTwoGoes
    <3>9. KindFits(c.op, r.kind) /\ KindFits(d.op, r.kind)
      BY <3>1, <3>2 DEF KindFits
    <3>10. \A x \in Held(calls') : KindFits(x.op, r.kind)
      BY <1>1, <1>2, <3>8, <3>9
    <3> QED
      BY <3>7, <3>8, <3>10 DEF DetailGoes
  <2> QED
    BY <2>2, <2>6, <2>7
<1>32. ASSUME updateReplacement(i) PROVE DetailGoes
  <2>1. g.op = "update" /\ r.kind = "replacement"
    BY <1>2, <1>3, <1>32 DEF updateReplacement, KindFits
  <2>2. PICK free, o, a :
           /\ free = [page EXCEPT !.busy = @ \ {"updating"}]
           /\ o = [free EXCEPT !.rep = a]
           /\ \/ Continue(i, free, <<>>)
              \/ Continue(i, OrderReloads(o), OrderLoadCall(free))
    BY <1>32 DEF updateReplacement
  <2>3. AsPage(free, r) /\ free.busy = r.busy \ {"updating"}
    BY <1>16, <2>2
  <2>4. AsPage(o, r) /\ o.busy = r.busy \ {"updating"}
    BY <2>2, <2>3 DEF AsPage, DetailParts
  <2>5. \A l \in free.busy : ~DetailOpens(g, l, r)
    BY <2>1, <2>3 DEF DetailOpens
  <2>6. CASE Continue(i, free, <<>>)
    BY <1>8, <2>3, <2>5, <2>6
  <2>7. CASE Continue(i, OrderReloads(o), OrderLoadCall(free))
    <3>1. /\ free.tracker = r.tracker /\ o.busy \subseteq r.busy
          /\ \A l \in o.busy : ~DetailOpens(g, l, r)
      BY <2>3, <2>4, <2>5 DEF AsPage
    <3> QED
      BY <1>10, <2>1, <2>4, <2>7, <3>1
  <2> QED
    BY <2>2, <2>6, <2>7
<1> QED
  BY <1>12, <1>14, <1>15, <1>17, <1>21, <1>22, <1>23, <1>24, <1>27, <1>28, <1>29, <1>30,
     <1>31, <1>32 DEF DetailReturn

-----------------------------------------------------------------------------
(* Every page keeps its locks' invariant.                                   *)

LEMMA SigningLocksKept ==
    ASSUME SigningLocks, [Next]_vars
    PROVE  SigningLocks'
<1>1. CASE ~At("signing")
  BY <1>1, StaysMounted DEF SigningLocks, LocksOf, At
<1>2. CASE At("signing") /\ (SigningStep \/ \E i \in DOMAIN calls : SigningReturn(i))
  <2>1. Goes("signing", {"busy"})
    BY <1>2, SigningLockSteps, SigningLockReturns
  <2>2. LocksOf("signing", {"busy"})
    BY DEF SigningLocks
  <2>3. LocksOf("signing", {"busy"})'
    BY <1>2, <2>1, <2>2, LocksGo
  <2> QED
    BY <2>1, <2>3 DEF SigningLocks
<1>3. ASSUME At("signing"), NEW i \in DOMAIN calls, SigningServe(i) \/ LoseCall(i)
      PROVE  SigningLocks'
  <2>1. LocksOf("signing", {"busy"}) /\ Known(calls)
    BY <1>3 DEF SigningLocks, LocksOf
  <2>2. Advances(i)
    BY <1>3, <2>1, SigningPerforms, PerformedAdvances, LostAdvances
  <2>3. /\ LocksOf("signing", {"busy"})' /\ page' = page
        /\ Unmoved(Held(calls), Held(calls'))
    BY <1>3, <2>1, <2>2, LocksStay
  <2> QED
    BY <1>3, <2>3 DEF SigningLocks
<1>4. CASE UNCHANGED vars
  BY <1>4, LocksRest DEF SigningLocks
<1> QED
  BY <1>1, <1>2, <1>3, <1>4, OnSigning

LEMMA ListLocksKept ==
    ASSUME ListLocks, [Next]_vars
    PROVE  ListLocks'
<1>1. CASE ~At("list")
  BY <1>1, StaysMounted DEF ListLocks, LocksOf, At
<1>2. CASE At("list") /\ (ListStep \/ \E i \in DOMAIN calls : ListReturn(i))
  <2>1. Goes("list", ListParts)
    BY <1>2, ListLockSteps, ListLockReturns
  <2>2. LocksOf("list", ListParts)
    BY DEF ListLocks, ListParts
  <2>3. LocksOf("list", ListParts)'
    BY <1>2, <2>1, <2>2, LocksGo
  <2> QED
    BY <2>1, <2>3 DEF ListLocks, ListParts
<1>3. ASSUME At("list"), NEW i \in DOMAIN calls, ListServe(i) \/ LoseCall(i)
      PROVE  ListLocks'
  <2>1. LocksOf("list", ListParts) /\ Known(calls)
    BY <1>3 DEF ListLocks, ListParts, LocksOf
  <2>2. Advances(i)
    BY <1>3, <2>1, ListPerforms, PerformedAdvances, LostAdvances
  <2>3. /\ LocksOf("list", ListParts)' /\ page' = page
        /\ Unmoved(Held(calls), Held(calls'))
    BY <1>3, <2>1, <2>2, LocksStay
  <2> QED
    BY <1>3, <2>3 DEF ListLocks, ListParts
<1>4. CASE UNCHANGED vars
  BY <1>4, LocksRest DEF ListLocks, ListParts
<1> QED
  BY <1>1, <1>2, <1>3, <1>4, OnList

LEMMA ShipmentLocksKept ==
    ASSUME ShipmentLocks, [Next]_vars
    PROVE  ShipmentLocks'
<1>1. CASE ~At("shipment")
  BY <1>1, StaysMounted DEF ShipmentLocks, LocksOf, At
<1>2. CASE At("shipment") /\ (ShipmentStep \/ \E i \in DOMAIN calls : ShipmentReturn(i))
  <2>1. /\ Goes("shipment", ShipmentParts)
               /\ ShipmentRest(page', Held(calls'))
    BY <1>2, ShipmentLockSteps, ShipmentLockReturns DEF ShipmentGoes
  <2>2. LocksOf("shipment", ShipmentParts)
    BY DEF ShipmentLocks, ShipmentParts
  <2>3. LocksOf("shipment", ShipmentParts)'
    BY <1>2, <2>1, <2>2, LocksGo
  <2> QED
    BY <2>1, <2>3 DEF ShipmentLocks, ShipmentParts
<1>3. ASSUME At("shipment"), NEW i \in DOMAIN calls, ShipmentServe(i) \/ LoseCall(i)
      PROVE  ShipmentLocks'
  <2>1. LocksOf("shipment", ShipmentParts) /\ Known(calls)
    BY <1>3 DEF ShipmentLocks, ShipmentParts, LocksOf
  <2>2. Advances(i)
    BY <1>3, <2>1, ShipmentPerforms, PerformedAdvances, LostAdvances
  <2>3. /\ LocksOf("shipment", ShipmentParts)' /\ page' = page
        /\ Unmoved(Held(calls), Held(calls'))
    BY <1>3, <2>1, <2>2, LocksStay
  <2> QED
    BY <1>3, <2>3 DEF ShipmentLocks, ShipmentParts, ShipmentRest, Unmoved, Same
<1>4. CASE UNCHANGED vars
  <2>1. LocksOf("shipment", ShipmentParts)'
    BY <1>4, LocksRest DEF ShipmentLocks, ShipmentParts
  <2> QED
    BY <1>4, <2>1 DEF ShipmentLocks, ShipmentParts, At, vars, Held
<1> QED
  BY <1>1, <1>2, <1>3, <1>4, OnShipment

LEMMA LeadLocksKept ==
    ASSUME LeadLocks, [Next]_vars
    PROVE  LeadLocks'
<1>1. CASE ~At("lead")
  BY <1>1, StaysMounted DEF LeadLocks, LocksOf, At
<1>2. CASE At("lead") /\ (LeadStep \/ \E i \in DOMAIN calls : LeadReturn(i))
  <2>1. Goes("lead", LeadParts)
    BY <1>2, LeadLockSteps, LeadLockReturns
  <2>2. LocksOf("lead", LeadParts)
    BY DEF LeadLocks, LeadParts
  <2>3. LocksOf("lead", LeadParts)'
    BY <1>2, <2>1, <2>2, LocksGo
  <2> QED
    BY <2>1, <2>3 DEF LeadLocks, LeadParts
<1>3. ASSUME At("lead"), NEW i \in DOMAIN calls, LeadServe(i) \/ LoseCall(i)
      PROVE  LeadLocks'
  <2>1. LocksOf("lead", LeadParts) /\ Known(calls)
    BY <1>3 DEF LeadLocks, LeadParts, LocksOf
  <2>2. Advances(i)
    BY <1>3, <2>1, LeadPerforms, PerformedAdvances, LostAdvances
  <2>3. /\ LocksOf("lead", LeadParts)' /\ page' = page
        /\ Unmoved(Held(calls), Held(calls'))
    BY <1>3, <2>1, <2>2, LocksStay
  <2> QED
    BY <1>3, <2>3 DEF LeadLocks, LeadParts
<1>4. CASE UNCHANGED vars
  BY <1>4, LocksRest DEF LeadLocks, LeadParts
<1> QED
  BY <1>1, <1>2, <1>3, <1>4, OnLead

LEMMA NotesLocksKept ==
    ASSUME NotesLocks, [Next]_vars
    PROVE  NotesLocks'
<1>1. CASE ~At("notes")
  BY <1>1, StaysMounted DEF NotesLocks, LocksOf, At
<1>2. CASE At("notes") /\ (NotesStep \/ \E i \in DOMAIN calls : NotesReturn(i))
  <2>1. Goes("notes", NotesParts) /\ page'.notesTracker \in Nat
    BY <1>2, NotesLockSteps, NotesLockReturns
  <2>2. LocksOf("notes", NotesParts)
    BY DEF NotesLocks, NotesParts
  <2>3. LocksOf("notes", NotesParts)'
    BY <1>2, <2>1, <2>2, LocksGo
  <2> QED
    BY <2>1, <2>3 DEF NotesLocks, NotesParts
<1>3. ASSUME At("notes"), NEW i \in DOMAIN calls, NotesServe(i) \/ LoseCall(i)
      PROVE  NotesLocks'
  <2>1. LocksOf("notes", NotesParts) /\ Known(calls)
    BY <1>3 DEF NotesLocks, NotesParts, LocksOf
  <2>2. Advances(i)
    BY <1>3, <2>1, NotesPerforms, PerformedAdvances, LostAdvances
  <2>3. /\ LocksOf("notes", NotesParts)' /\ page' = page
        /\ Unmoved(Held(calls), Held(calls'))
    BY <1>3, <2>1, <2>2, LocksStay
  <2> QED
    BY <1>3, <2>3 DEF NotesLocks, NotesParts
<1>4. CASE UNCHANGED vars
  <2>1. LocksOf("notes", NotesParts)'
    BY <1>4, LocksRest DEF NotesLocks, NotesParts
  <2> QED
    BY <1>4, <2>1 DEF NotesLocks, NotesParts, At, vars, Held
<1> QED
  BY <1>1, <1>2, <1>3, <1>4, OnNotes

LEMMA CostsLocksKept ==
    ASSUME CostsLocks, [Next]_vars
    PROVE  CostsLocks'
<1>1. CASE ~At("costs")
  BY <1>1, StaysMounted DEF CostsLocks, LocksOf, At
<1>2. CASE At("costs") /\ (CostsStep \/ \E i \in DOMAIN calls : CostsReturn(i))
  <2>1. Goes("costs", CostsParts) /\ page'.tracker \in Nat
    BY <1>2, CostsLockSteps, CostsLockReturns
  <2>2. LocksOf("costs", CostsParts)
    BY DEF CostsLocks, CostsParts
  <2>3. LocksOf("costs", CostsParts)'
    BY <1>2, <2>1, <2>2, LocksGo
  <2> QED
    BY <2>1, <2>3 DEF CostsLocks, CostsParts
<1>3. ASSUME At("costs"), NEW i \in DOMAIN calls, CostsServe(i) \/ LoseCall(i)
      PROVE  CostsLocks'
  <2>1. LocksOf("costs", CostsParts) /\ Known(calls)
    BY <1>3 DEF CostsLocks, CostsParts, LocksOf
  <2>2. Advances(i)
    BY <1>3, <2>1, CostsPerforms, PerformedAdvances, LostAdvances
  <2>3. /\ LocksOf("costs", CostsParts)' /\ page' = page
        /\ Unmoved(Held(calls), Held(calls'))
    BY <1>3, <2>1, <2>2, LocksStay
  <2> QED
    BY <1>3, <2>3 DEF CostsLocks, CostsParts
<1>4. CASE UNCHANGED vars
  <2>1. LocksOf("costs", CostsParts)'
    BY <1>4, LocksRest DEF CostsLocks, CostsParts
  <2> QED
    BY <1>4, <2>1 DEF CostsLocks, CostsParts, At, vars, Held
<1> QED
  BY <1>1, <1>2, <1>3, <1>4, OnCosts

LEMMA OrderLocksKept ==
    ASSUME OrderLocks, [Next]_vars
    PROVE  OrderLocks'
<1>1. CASE ~At("order")
  BY <1>1, StaysMounted DEF OrderLocks, LocksOf, At
<1>2. CASE At("order") /\ (OrderStep \/ \E i \in DOMAIN calls : OrderReturn(i))
  <2>1. Goes("order", OrderParts) /\ OrderKinds(page')
    BY <1>2, OrderLockSteps, OrderLockReturns
  <2>2. LocksOf("order", OrderParts)
    BY DEF OrderLocks, OrderParts
  <2>3. LocksOf("order", OrderParts)'
    BY <1>2, <2>1, <2>2, LocksGo
  <2> QED
    BY <2>1, <2>3 DEF OrderLocks, OrderParts, OrderKinds
<1>3. ASSUME At("order"), NEW i \in DOMAIN calls, OrderServe(i) \/ LoseCall(i)
      PROVE  OrderLocks'
  <2>1. LocksOf("order", OrderParts) /\ Known(calls)
    BY <1>3 DEF OrderLocks, OrderParts, LocksOf
  <2>2. Advances(i)
    BY <1>3, <2>1, OrderPerforms, PerformedAdvances, LostAdvances
  <2>3. /\ LocksOf("order", OrderParts)' /\ page' = page
        /\ Unmoved(Held(calls), Held(calls'))
    BY <1>3, <2>1, <2>2, LocksStay
  <2> QED
    BY <1>3, <2>3 DEF OrderLocks, OrderParts
<1>4. CASE UNCHANGED vars
  <2>1. LocksOf("order", OrderParts)'
    BY <1>4, LocksRest DEF OrderLocks, OrderParts
  <2> QED
    BY <1>4, <2>1 DEF OrderLocks, OrderParts, At, vars, Held
<1> QED
  BY <1>1, <1>2, <1>3, <1>4, OnOrder

LEMMA BellLocksKept ==
    ASSUME BellLocks, [Next]_vars
    PROVE  BellLocks'
<1>1. CASE ~At("bell")
  BY <1>1, StaysMounted DEF BellLocks, LocksOf, At
<1>2. CASE At("bell") /\ (BellStep \/ \E i \in DOMAIN calls : BellReturn(i))
  <2>1. Goes("bell", {"busy"})
    BY <1>2, BellLockSteps, BellLockReturns
  <2>2. LocksOf("bell", {"busy"})
    BY DEF BellLocks
  <2>3. LocksOf("bell", {"busy"})'
    BY <1>2, <2>1, <2>2, LocksGo
  <2> QED
    BY <2>1, <2>3 DEF BellLocks
<1>3. ASSUME At("bell"), NEW i \in DOMAIN calls, BellServe(i) \/ LoseCall(i)
      PROVE  BellLocks'
  <2>1. LocksOf("bell", {"busy"}) /\ Known(calls)
    BY <1>3 DEF BellLocks, LocksOf
  <2>2. Advances(i)
    BY <1>3, <2>1, BellPerforms, PerformedAdvances, LostAdvances
  <2>3. /\ LocksOf("bell", {"busy"})' /\ page' = page
        /\ Unmoved(Held(calls), Held(calls'))
    BY <1>3, <2>1, <2>2, LocksStay
  <2> QED
    BY <1>3, <2>3 DEF BellLocks
<1>4. CASE UNCHANGED vars
  BY <1>4, LocksRest DEF BellLocks
<1> QED
  BY <1>1, <1>2, <1>3, <1>4, OnBell

LEMMA UsersLocksKept ==
    ASSUME UsersLocks, [Next]_vars
    PROVE  UsersLocks'
<1>1. CASE ~At("users")
  BY <1>1, StaysMounted DEF UsersLocks, LocksOf, At
<1>2. CASE At("users") /\ (UsersStep \/ \E i \in DOMAIN calls : UsersReturn(i))
  <2>1. /\ Goes("users", {"busy"})
               /\ \A c \in Held(calls') : AccountsCall(c)
    BY <1>2, UsersLockSteps, UsersLockReturns DEF AccountsGo
  <2>2. LocksOf("users", {"busy"})
    BY DEF UsersLocks
  <2>3. LocksOf("users", {"busy"})'
    BY <1>2, <2>1, <2>2, LocksGo
  <2> QED
    BY <2>1, <2>3 DEF UsersLocks
<1>3. ASSUME At("users"), NEW i \in DOMAIN calls, UsersServe(i) \/ LoseCall(i)
      PROVE  UsersLocks'
  <2>1. LocksOf("users", {"busy"}) /\ Known(calls)
    BY <1>3 DEF UsersLocks, LocksOf
  <2>2. Advances(i)
    BY <1>3, <2>1, UsersAdvance, LostAdvances
  <2>3. /\ LocksOf("users", {"busy"})' /\ page' = page
        /\ Unmoved(Held(calls), Held(calls'))
    BY <1>3, <2>1, <2>2, LocksStay
  <2> QED
    BY <1>3, <2>3 DEF UsersLocks, Unmoved, Same, AccountsCall
<1>4. CASE UNCHANGED vars
  <2>1. LocksOf("users", {"busy"})'
    BY <1>4, LocksRest DEF UsersLocks
  <2> QED
    BY <1>4, <2>1 DEF UsersLocks, At, vars, Held
<1> QED
  BY <1>1, <1>2, <1>3, <1>4, OnUsers

LEMMA CreateLocksKept ==
    ASSUME CreateLocks, [Next]_vars
    PROVE  CreateLocks'
<1>1. CASE ~At("create")
  BY <1>1, StaysMounted DEF CreateLocks, LocksOf, At
<1>2. CASE At("create") /\ (CreateStep \/ \E i \in DOMAIN calls : CreateReturn(i))
  <2>1. Goes("create", CreateParts) /\ CreateFits(page')
    BY <1>2, CreateLockSteps, CreateLockReturns
  <2>2. LocksOf("create", CreateParts)
    BY DEF CreateLocks, CreateParts
  <2>3. LocksOf("create", CreateParts)'
    BY <1>2, <2>1, <2>2, LocksGo
  <2> QED
    BY <2>1, <2>3 DEF CreateLocks, CreateParts, CreateFits
<1>3. ASSUME At("create"), NEW i \in DOMAIN calls, CreateServe(i) \/ LoseCall(i)
      PROVE  CreateLocks'
  <2>1. LocksOf("create", CreateParts) /\ Known(calls)
    BY <1>3 DEF CreateLocks, CreateParts, LocksOf
  <2>2. Advances(i)
    BY <1>3, <2>1, CreatePerforms, PerformedAdvances, LostAdvances
  <2>3. /\ LocksOf("create", CreateParts)' /\ page' = page
        /\ Unmoved(Held(calls), Held(calls'))
    BY <1>3, <2>1, <2>2, LocksStay
  <2> QED
    BY <1>3, <2>3 DEF CreateLocks, CreateParts
<1>4. CASE UNCHANGED vars
  <2>1. LocksOf("create", CreateParts)'
    BY <1>4, LocksRest DEF CreateLocks, CreateParts
  <2> QED
    BY <1>4, <2>1 DEF CreateLocks, CreateParts, At, vars, Held
<1> QED
  BY <1>1, <1>2, <1>3, <1>4, OnCreate

LEMMA EditLocksKept ==
    ASSUME EditLocks, [Next]_vars
    PROVE  EditLocks'
<1>1. CASE ~At("edit")
  BY <1>1, StaysMounted DEF EditLocks, LocksOf, At
<1>2. CASE At("edit") /\ (EditStep \/ \E i \in DOMAIN calls : EditReturn(i))
  <2>1. Goes("edit", EditParts) /\ EditFits(page')
    BY <1>2, EditLockSteps, EditLockReturns
  <2>2. LocksOf("edit", EditParts)
    BY DEF EditLocks, EditParts
  <2>3. LocksOf("edit", EditParts)'
    BY <1>2, <2>1, <2>2, LocksGo
  <2> QED
    BY <2>1, <2>3 DEF EditLocks, EditParts, EditFits
<1>3. ASSUME At("edit"), NEW i \in DOMAIN calls, EditServe(i) \/ LoseCall(i)
      PROVE  EditLocks'
  <2>1. LocksOf("edit", EditParts) /\ Known(calls)
    BY <1>3 DEF EditLocks, EditParts, LocksOf
  <2>2. Advances(i)
    BY <1>3, <2>1, EditPerforms, PerformedAdvances, LostAdvances
  <2>3. /\ LocksOf("edit", EditParts)' /\ page' = page
        /\ Unmoved(Held(calls), Held(calls'))
    BY <1>3, <2>1, <2>2, LocksStay
  <2> QED
    BY <1>3, <2>3 DEF EditLocks, EditParts
<1>4. CASE UNCHANGED vars
  <2>1. LocksOf("edit", EditParts)'
    BY <1>4, LocksRest DEF EditLocks, EditParts
  <2> QED
    BY <1>4, <2>1 DEF EditLocks, EditParts, At, vars, Held
<1> QED
  BY <1>1, <1>2, <1>3, <1>4, OnEdit

LEMMA DashboardLocksKept ==
    ASSUME DashboardLocks, [Next]_vars
    PROVE  DashboardLocks'
<1>1. CASE ~At("dashboard")
  BY <1>1, StaysMounted DEF DashboardLocks, LocksOf, At
<1>2. CASE At("dashboard") /\ (DashboardStep \/ \E i \in DOMAIN calls : DashboardReturn(i))
  <2>1. Goes("dashboard", DashboardParts) /\ DashboardFits(page')
    BY <1>2, DashboardLockSteps, DashboardLockReturns DEF DashboardGoes
  <2>2. LocksOf("dashboard", DashboardParts)
    BY DEF DashboardLocks, DashboardParts
  <2>3. LocksOf("dashboard", DashboardParts)'
    BY <1>2, <2>1, <2>2, LocksGo
  <2> QED
    BY <2>1, <2>3 DEF DashboardLocks, DashboardParts, DashboardFits
<1>3. ASSUME At("dashboard"), NEW i \in DOMAIN calls, DashboardServe(i) \/ LoseCall(i)
      PROVE  DashboardLocks'
  <2>1. LocksOf("dashboard", DashboardParts) /\ Known(calls)
    BY <1>3 DEF DashboardLocks, DashboardParts, LocksOf
  <2>2. Advances(i)
    BY <1>3, <2>1, DashboardPerforms, PerformedAdvances, LostAdvances
  <2>3. /\ LocksOf("dashboard", DashboardParts)' /\ page' = page
        /\ Unmoved(Held(calls), Held(calls'))
    BY <1>3, <2>1, <2>2, LocksStay
  <2> QED
    BY <1>3, <2>3 DEF DashboardLocks, DashboardParts
<1>4. CASE UNCHANGED vars
  <2>1. LocksOf("dashboard", DashboardParts)'
    BY <1>4, LocksRest DEF DashboardLocks, DashboardParts
  <2> QED
    BY <1>4, <2>1 DEF DashboardLocks, DashboardParts, At, vars, Held
<1> QED
  BY <1>1, <1>2, <1>3, <1>4, OnDashboard

LEMMA FormLocksKept ==
    ASSUME FormLocks, [Next]_vars
    PROVE  FormLocks'
<1>1. CASE ~At("form")
  BY <1>1, StaysMounted DEF FormLocks, LocksOf, At
<1>2. CASE At("form") /\ (FormStep \/ \E i \in DOMAIN calls : FormReturn(i))
  <2>1. Goes("form", {"busy"})
    BY <1>2, FormLockSteps, FormLockReturns
  <2>2. LocksOf("form", {"busy"})
    BY DEF FormLocks
  <2>3. LocksOf("form", {"busy"})'
    BY <1>2, <2>1, <2>2, LocksGo
  <2> QED
    BY <2>1, <2>3 DEF FormLocks
<1>3. ASSUME At("form"), NEW i \in DOMAIN calls, FormServe(i) \/ LoseCall(i)
      PROVE  FormLocks'
  <2>1. LocksOf("form", {"busy"}) /\ Known(calls)
    BY <1>3 DEF FormLocks, LocksOf
  <2>2. Advances(i)
    BY <1>3, <2>1, FormPerforms, PerformedAdvances, LostAdvances
  <2>3. /\ LocksOf("form", {"busy"})' /\ page' = page
        /\ Unmoved(Held(calls), Held(calls'))
    BY <1>3, <2>1, <2>2, LocksStay
  <2> QED
    BY <1>3, <2>3 DEF FormLocks
<1>4. CASE UNCHANGED vars
  BY <1>4, LocksRest DEF FormLocks
<1> QED
  BY <1>1, <1>2, <1>3, <1>4, OnForm

LEMMA DetailLocksKept ==
    ASSUME DetailLocks, [Next]_vars
    PROVE  DetailLocks'
<1>1. CASE ~At("detail")
  BY <1>1, StaysMounted DEF DetailLocks, LocksOf, At
<1>2. CASE At("detail") /\ (DetailStep \/ \E i \in DOMAIN calls : DetailReturn(i))
  <2>1. /\ Goes("detail", DetailParts)
               /\ \A c \in Held(calls') : KindFits(c.op, page'.kind)
    BY <1>2, DetailLockSteps, DetailLockReturns DEF DetailGoes
  <2>2. LocksOf("detail", DetailParts)
    BY DEF DetailLocks, DetailParts
  <2>3. LocksOf("detail", DetailParts)'
    BY <1>2, <2>1, <2>2, LocksGo
  <2> QED
    BY <2>1, <2>3 DEF DetailLocks, DetailParts
<1>3. ASSUME At("detail"), NEW i \in DOMAIN calls, DetailServe(i) \/ LoseCall(i)
      PROVE  DetailLocks'
  <2>1. LocksOf("detail", DetailParts) /\ Known(calls)
    BY <1>3 DEF DetailLocks, DetailParts, LocksOf
  <2>2. Advances(i)
    BY <1>3, <2>1, DetailPerforms, PerformedAdvances, LostAdvances
  <2>3. /\ LocksOf("detail", DetailParts)' /\ page' = page
        /\ Unmoved(Held(calls), Held(calls'))
    BY <1>3, <2>1, <2>2, LocksStay
  <2> QED
    BY <1>3, <2>3 DEF DetailLocks, DetailParts, Unmoved, Same
<1>4. CASE UNCHANGED vars
  <2>1. LocksOf("detail", DetailParts)'
    BY <1>4, LocksRest DEF DetailLocks, DetailParts
  <2> QED
    BY <1>4, <2>1 DEF DetailLocks, DetailParts, At, vars, Held
<1> QED
  BY <1>1, <1>2, <1>3, <1>4, OnDetails

LEMMA QueryLocksKept ==
    ASSUME QueryLocks, [Next]_vars
    PROVE  QueryLocks'
<1>1. CASE ~At("query")
  BY <1>1, StaysMounted DEF QueryLocks, LocksOf, At
<1>2. CASE At("query") /\ (QueryStep \/ \E i \in DOMAIN calls : QueryReturn(i))
  <2>1. Goes("query", {"busy"})
    BY <1>2, QueryLockSteps, QueryLockReturns
  <2>2. LocksOf("query", {"busy"})
    BY DEF QueryLocks
  <2>3. LocksOf("query", {"busy"})'
    BY <1>2, <2>1, <2>2, LocksGo
  <2> QED
    BY <2>1, <2>3 DEF QueryLocks
<1>3. ASSUME At("query"), NEW i \in DOMAIN calls, QueryServe(i) \/ LoseCall(i)
      PROVE  QueryLocks'
  <2>1. LocksOf("query", {"busy"}) /\ Known(calls)
    BY <1>3 DEF QueryLocks, LocksOf
  <2>2. Advances(i)
    BY <1>3, <2>1, QueryPerforms, PerformedAdvances, LostAdvances
  <2>3. /\ LocksOf("query", {"busy"})' /\ page' = page
        /\ Unmoved(Held(calls), Held(calls'))
    BY <1>3, <2>1, <2>2, LocksStay
  <2> QED
    BY <1>3, <2>3 DEF QueryLocks
<1>4. CASE UNCHANGED vars
  BY <1>4, LocksRest DEF QueryLocks
<1> QED
  BY <1>1, <1>2, <1>3, <1>4, OnQuery

-----------------------------------------------------------------------------
(* The locks of the workspace.                                              *)

StaffPages ==
    {"signing", "list", "shipment", "lead", "notes", "costs", "order", "bell", "users",
     "create", "edit", "dashboard", "form", "detail", "query"}

LocksInv ==
    /\ \E m \in StaffPages : At(m)
    /\ SigningLocks /\ ListLocks /\ ShipmentLocks /\ LeadLocks /\ NotesLocks /\ CostsLocks
    /\ OrderLocks /\ BellLocks /\ UsersLocks /\ CreateLocks /\ EditLocks
    /\ DashboardLocks /\ FormLocks /\ DetailLocks /\ QueryLocks

\* A page that has just been mounted has neither locks nor calls.
LEMMA Unlocked ==
    ASSUME NEW m, NEW fields, calls = <<>>, fields \subseteq DOMAIN page, page.busy = {}
    PROVE  LocksOf(m, fields) /\ Held(calls) = {}
<1>1. IsCalls(calls) /\ DOMAIN calls = {}
  <2>1. calls \in Seq({})
    OBVIOUS
  <2> QED
    BY <2>1 DEF IsCalls
<1>2. Known(calls) /\ Held(calls) = {}
  BY <1>1 DEF Known, Held
<1> QED
  BY <1>2 DEF LocksOf, Locked

LEMMA NewPages ==
    ASSUME Init
    PROVE  /\ At("signing") => SigningInit
           /\ At("list") => ListInit
           /\ At("shipment") => ShipmentInit
           /\ At("lead") => LeadInit
           /\ At("notes") => NotesInit
           /\ At("costs") => CostsInit
           /\ At("order") => OrderInit
           /\ At("bell") => BellInit
           /\ At("users") => UsersInit
           /\ At("create") => CreateInit
           /\ At("edit") => EditInit
           /\ At("dashboard") => DashboardInit
           /\ At("form") => FormInit
           /\ At("detail") => DetailInit
           /\ At("query") => QueryInit
           /\ \E m \in StaffPages : At(m)
<1>1. (\E m \in StaffPages : At(m))
  BY MountedAtStart DEF Init, StaffPages
<1>2. At("list") => ListInit
  BY MountedAtStart DEF Init, At
<1>3. At("shipment") => ShipmentInit
  BY MountedAtStart DEF Init, At
<1>4. At("lead") => LeadInit
  BY MountedAtStart DEF Init, At
<1>5. At("notes") => NotesInit
  BY MountedAtStart DEF Init, At
<1>6. At("costs") => CostsInit
  BY MountedAtStart DEF Init, At
<1>7. At("order") => OrderInit
  BY MountedAtStart DEF Init, At
<1>8. At("bell") => BellInit
  BY MountedAtStart DEF Init, At
<1>9. At("users") => UsersInit
  BY MountedAtStart DEF Init, At
<1>10. At("create") => CreateInit
  BY MountedAtStart DEF Init, At
<1>11. At("edit") => EditInit
  BY MountedAtStart DEF Init, At
<1>12. At("dashboard") => DashboardInit
  BY MountedAtStart DEF Init, At
<1>13. At("form") => FormInit
  BY MountedAtStart DEF Init, At
<1>14. At("detail") => DetailInit
  BY MountedAtStart DEF Init, At
<1>15. At("query") => QueryInit
  BY MountedAtStart DEF Init, At
<1>16. At("signing") => SigningInit
  BY MountedAtStart DEF Init, At
<1> QED
  BY <1>1, <1>2, <1>3, <1>4, <1>5, <1>6, <1>7, <1>8, <1>9, <1>10, <1>11, <1>12, <1>13,
     <1>14, <1>15, <1>16

LEMMA LocksStart ==
    Init => LocksInv
<1> SUFFICES ASSUME Init PROVE LocksInv
  OBVIOUS
<1>1. ListLocks
  <2>1. At("list") => calls = <<>> /\ ListParts \subseteq DOMAIN page /\ page.busy = {}
    BY NewPages DEF ListInit, Mount, ListParts
  <2> QED
    BY <2>1, Unlocked DEF ListLocks, LocksOf
<1>2. ShipmentLocks
  <2>1. At("shipment") => /\ calls = <<>> /\ ShipmentParts \subseteq DOMAIN page
                          /\ page.busy = {} /\ page.tracker = 0 /\ page.row = NoShipment
    BY NewPages DEF ShipmentInit, Mount, ShipmentParts
  <2>2. LocksOf("shipment", ShipmentParts)
    BY <2>1, Unlocked DEF LocksOf
  <2>3. At("shipment") => Held(calls) = {}
    BY <2>1, HeldNone
  <2> QED
    BY <2>1, <2>2, <2>3 DEF ShipmentLocks, ShipmentRest
<1>3. LeadLocks
  <2>1. At("lead") => calls = <<>> /\ LeadParts \subseteq DOMAIN page /\ page.busy = {}
    BY NewPages DEF LeadInit, Mount, LeadParts
  <2> QED
    BY <2>1, Unlocked DEF LeadLocks, LocksOf
<1>4. NotesLocks
  <2>1. At("notes") => NotesInit
    BY NewPages
  <2>2. ASSUME NotesInit
        PROVE  /\ calls = <<>> /\ NotesParts \subseteq DOMAIN page
               /\ page.busy = {} /\ page.notesTracker = 0
    BY <2>2 DEF NotesInit, Mount, NotesParts
  <2>3. LocksOf("notes", NotesParts)
    BY <2>1, <2>2, Unlocked DEF LocksOf
  <2>4. At("notes") => page.notesTracker \in Nat
    BY <2>1, <2>2
  <2> QED
    BY <2>3, <2>4 DEF NotesLocks
<1>5. CostsLocks
  <2>1. At("costs") => CostsInit
    BY NewPages
  <2>2. ASSUME CostsInit
        PROVE  /\ calls = <<>> /\ CostsParts \subseteq DOMAIN page
               /\ page.busy = {} /\ page.tracker = 0
    <3>1. PICK f, s : Mount("costs", [offered |-> FALSE, shipment |-> "",
                                      existing |-> FALSE, form |-> f, busy |-> {},
                                      error |-> FALSE, tracker |-> 0, moved |-> FALSE], s)
      BY <2>2 DEF CostsInit
    <3>2. page = [offered |-> FALSE, shipment |-> "", existing |-> FALSE, form |-> f,
                  busy |-> {}, error |-> FALSE, tracker |-> 0, moved |-> FALSE]
      BY <3>1 DEF Mount
    <3>3. calls = <<>>
      BY <3>1 DEF Mount
    <3> QED
      BY <3>2, <3>3 DEF CostsParts
  <2>3. LocksOf("costs", CostsParts)
    BY <2>1, <2>2, Unlocked DEF LocksOf
  <2>4. At("costs") => page.tracker \in Nat
    BY <2>1, <2>2
  <2> QED
    BY <2>3, <2>4 DEF CostsLocks
<1>6. OrderLocks
  <2>1. At("order") => OrderInit
    BY NewPages
  <2>2. OrderInit => /\ calls = <<>>
                     /\ OrderParts \subseteq DOMAIN page
                     /\ page.busy = {}
                     /\ page.form = "none"
                     /\ page.popup = "none"
    BY DEF OrderInit, Mount, OrderParts
  <2>3. LocksOf("order", OrderParts)
    BY <2>1, <2>2, Unlocked DEF LocksOf
  <2>4. At("order") => /\ page.form \in SaveOps \union {"none"}
                       /\ page.popup \in {"cancel", "refund", "none"}
    BY <2>1, <2>2
  <2> QED
    BY <2>3, <2>4 DEF OrderLocks
<1>7. BellLocks
  <2>1. At("bell") => calls = <<>> /\ {"busy"} \subseteq DOMAIN page /\ page.busy = {}
    BY NewPages DEF BellInit, Mount
  <2> QED
    BY <2>1, Unlocked DEF BellLocks, LocksOf
<1>8. UsersLocks
  <2>1. At("users") => UsersInit
    BY NewPages
  <2>2. ASSUME UsersInit
        PROVE  calls = <<>> /\ {"busy"} \subseteq DOMAIN page /\ page.busy = {}
    <3>1. PICK u, a, e, s :
            Mount("users", [users |-> u, selected |-> "", panel |-> a, email |-> e,
                            busy |-> {}, mixed |-> FALSE], s)
      BY <2>2 DEF UsersInit
    <3>2. page = [users |-> u, selected |-> "", panel |-> a, email |-> e,
                  busy |-> {}, mixed |-> FALSE]
      BY <3>1 DEF Mount
    <3>3. calls = <<>>
      BY <3>1 DEF Mount
    <3> QED
      BY <3>2, <3>3
  <2>3. LocksOf("users", {"busy"})
    BY <2>1, <2>2, Unlocked DEF LocksOf
  <2>4. At("users") => \A c \in Held(calls) : AccountsCall(c)
    BY <2>1, <2>2, HeldNone
  <2> QED
    BY <2>3, <2>4 DEF UsersLocks
<1>9. CreateLocks
  <2>1. At("create") => calls = <<>> /\ CreateParts \subseteq DOMAIN page /\ page.busy = {}
    BY NewPages DEF CreateInit, Mount, NewForm, CreateParts
  <2> QED
    BY <2>1, Unlocked DEF CreateLocks, LocksOf
<1>10. EditLocks
  <2>1. At("edit") => calls = <<>> /\ EditParts \subseteq DOMAIN page /\ page.busy = {}
    BY NewPages DEF EditInit, Mount, EditParts
  <2> QED
    BY <2>1, Unlocked DEF EditLocks, LocksOf
<1>11. DashboardLocks
  <2>1. At("dashboard") => /\ calls = <<>> /\ DashboardParts \subseteq DOMAIN page
                           /\ page.busy = {} /\ page.tab = "sales-overview"
    BY NewPages DEF DashboardInit, Mount, DashboardParts
  <2> QED
    BY <2>1, Unlocked DEF DashboardLocks, Tabs, LocksOf
<1>12. FormLocks
  <2>1. At("form") => calls = <<>> /\ {"busy"} \subseteq DOMAIN page /\ page.busy = {}
    BY NewPages DEF FormInit, Mount
  <2> QED
    BY <2>1, Unlocked DEF FormLocks, LocksOf
<1>13. DetailLocks
  <2>1. At("detail") => calls = <<>> /\ DetailParts \subseteq DOMAIN page /\ page.busy = {}
    BY NewPages DEF DetailInit, Mount, DetailParts
  <2> QED
    BY <2>1, Unlocked DEF DetailLocks, LocksOf
<1>14. QueryLocks
  <2>1. \A t, x, s : OpenTable(t, x, s) =>
            calls = <<>> /\ {"busy"} \subseteq DOMAIN page /\ page.busy = {}
    BY DEF OpenTable, Mount
  <2>2. QueryInit => calls = <<>> /\ {"busy"} \subseteq DOMAIN page /\ page.busy = {}
    <3>1. StatusInit => \E t, x, s : OpenTable(t, x, s)
      BY DEF StatusInit
    <3>2. LeadFilterInit => \E t, x, s : OpenTable(t, x, s)
      BY DEF LeadFilterInit
    <3>3. PeopleInit => \E t, x, s : OpenTable(t, x, s)
      BY DEF PeopleInit
    <3>4. AgeingInit => \E t, x, s : OpenTable(t, x, s)
      BY DEF AgeingInit
    <3>5. DatesInit => \E t, x, s : OpenTable(t, x, s)
      BY DEF DatesInit
    <3>6. SearchInit => \E t, x, s : OpenTable(t, x, s)
      BY DEF SearchInit
    <3> QED
      BY <2>1, <3>1, <3>2, <3>3, <3>4, <3>5, <3>6 DEF QueryInit
  <2> QED
    BY <2>2, NewPages, Unlocked DEF QueryLocks, LocksOf
<1>15. SigningLocks
  <2>1. At("signing") => calls = <<>> /\ {"busy"} \subseteq DOMAIN page /\ page.busy = {}
    BY NewPages DEF SigningInit, Mount
  <2> QED
    BY <2>1, Unlocked DEF SigningLocks, LocksOf
<1> QED
  BY <1>1, <1>2, <1>3, <1>4, <1>5, <1>6, <1>7, <1>8, <1>9, <1>10, <1>11, <1>12, <1>13,
     <1>14, <1>15, NewPages DEF LocksInv

LEMMA LocksNext ==
    LocksInv /\ [Next]_vars => LocksInv'
<1>1. (\E m \in StaffPages : At(m)) /\ [Next]_vars => (\E m \in StaffPages : At(m))'
  BY StaysMounted DEF At
<1> QED
  BY <1>1, SigningLocksKept, ListLocksKept, ShipmentLocksKept, LeadLocksKept, NotesLocksKept,
     CostsLocksKept, OrderLocksKept, BellLocksKept, UsersLocksKept, CreateLocksKept,
     EditLocksKept, DashboardLocksKept, FormLocksKept, DetailLocksKept, QueryLocksKept
     DEF LocksInv

LEMMA LocksAlways == Spec => []LocksInv
  BY LocksStart, LocksNext, PTL DEF Spec

\* The interval of the bell asks for the number of unread notifications
\* without a lock.
LEMMA CountOpensNothing ==
    \A c, m, l, p : c.op = "count" => ~Opens(m, c, l, p)
<1> SUFFICES ASSUME NEW c, c.op = "count", NEW m, NEW l, NEW p PROVE ~Opens(m, c, l, p)
  OBVIOUS
<1>1. ~ListOpens(c, l, p) /\ ~ShipmentOpens(c, l, p) /\ ~LeadOpens(c, l, p)
  BY DEF ListOpens, ShipmentOpens, LeadOpens
<1>2. ~NotesOpens(c, l, p) /\ ~CostsOpens(c, l, p) /\ ~OrderOpens(c, l, p)
  BY DEF NotesOpens, CostsOpens, OrderOpens, SaveOps
<1>3. ~BellOpens(c, l, p) /\ ~UsersOpens(c, l, p) /\ ~CreateOpens(c, l, p)
  BY DEF BellOpens, UsersOpens, AccountOps, CreateOpens
<1>4. ~EditOpens(c, l, p) /\ ~DashboardOpens(c, l, p) /\ ~FormOpens(c, l, p)
  BY DEF EditOpens, DashboardOpens, Tabs, FormOpens
<1>5. ~DetailOpens(c, l, p) /\ ~QueryOpens(c, l, p)
  BY DEF DetailOpens, QueryOpens
<1>6. ~SigningOpens(c, l, p)
  BY DEF SigningOpens
<1> QED
  BY <1>1, <1>2, <1>3, <1>4, <1>5, <1>6 DEF Opens

LEMMA OnlyCounts ==
    ASSUME NEW m, NEW fields, LocksOf(m, fields), At(m),
           \A i \in DOMAIN calls : calls[i].op = "count"
    PROVE  page.busy \subseteq Alone(m, page)
<1>1. \A c \in Held(calls) : c.op = "count"
  BY DEF Held
<1> QED
  BY <1>1, CountOpensNothing DEF LocksOf, Locked

\* Every lock and spinner belongs to a call under way, on each of the fifteen
\* pages: once no call is left but the poll of the bell, nothing stays
\* disabled, whatever answers, reloads and unmounts overtook each other.
THEOREM NoLocksOutliveTheirCalls ==
    Spec => []NoLockOutlivesItsCall
<1>1. LocksInv => NoLockOutlivesItsCall
  <2> SUFFICES ASSUME LocksInv, \A i \in DOMAIN calls : calls[i].op = "count"
               PROVE  page.busy \subseteq
                          (IF At("signing") THEN {"photo"}
                           ELSE IF At("create") THEN {"models"}
                           ELSE IF At("dashboard") THEN Tabs \ {page.tab} ELSE {})
    BY DEF NoLockOutlivesItsCall
  <2>1. PICK m \in StaffPages : At(m)
    BY DEF LocksInv
  <2>2. \E fields : LocksOf(m, fields)
    BY <2>1 DEF StaffPages, LocksInv, SigningLocks, ListLocks, ShipmentLocks, LeadLocks,
       NotesLocks, CostsLocks, OrderLocks, BellLocks, UsersLocks, CreateLocks,
       EditLocks, DashboardLocks, FormLocks, DetailLocks, QueryLocks
  <2>3. page.busy \subseteq Alone(m, page)
    BY <2>1, <2>2, OnlyCounts
  <2> QED
    BY <2>1, <2>3 DEF Alone, At
<1> QED
  BY <1>1, LocksAlways, PTL
================================================================================
