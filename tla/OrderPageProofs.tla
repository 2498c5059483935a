---------------------------- MODULE OrderPageProofs ----------------------------
(***************************************************************************)
(* What the pages of one order, of one shipment and of one lead, the form  *)
(* of a new order or lead and the dashboard claim in Workspace, for any    *)
(* number of calls, rows and faults.  As in StaffPageProofs, each page     *)
(* keeps an invariant of its own.                                          *)
(***************************************************************************)
EXTENDS WorkspaceProofs

-----------------------------------------------------------------------------
(* The shipment page.                                                       *)

CostOps == {"shipment", "extra", "base"}

IsShipment(row) ==
    row = [status |-> row.status, pro |-> row.pro, base |-> row.base,
           extra |-> row.extra, stored |-> row.stored, order |-> row.order]

IsShipmentRows(s) ==
    /\ s = [status |-> s.status, pro |-> s.pro, base |-> s.base, extra |-> s.extra,
            stored |-> s.stored, order |-> s.order, others |-> s.others]
    /\ s.extra \in Nat /\ s.others \in Nat

IsShipmentPage(p) ==
    /\ p = [row |-> p.row, order |-> p.order, reload |-> p.reload,
            tracker |-> p.tracker, busy |-> p.busy, mixed |-> p.mixed]
    /\ p.tracker \in Nat /\ p.mixed \in BOOLEAN

\* A load finds what is stored, since nothing that writes is under way with
\* it; a call that saves costs keeps the card locked until it was reloaded;
\* an edit of the base amounts carries the sum that is stored; a change of
\* the status ends with the stored row, whether it is refused or not, unless
\* a reload is to follow.
ShipmentCallSound(c, p, s) ==
    /\ IsCall(c) /\ c.op \in CostOps \union {"status"}
    /\ c.state \in {"sent", "ok", "failed"}
    /\ c.op = "shipment" =>
          /\ c.kept = p.tracker /\ c.state # "failed"
          /\ IF c.arg = "opened" THEN p.row.status = "NONE" /\ "saving" \notin p.busy
             ELSE c.arg = "saved" /\ "saving" \in p.busy
          /\ c.state = "ok" => Head(c.body) = ShipmentOf(s)
    /\ c.op \in {"extra", "base"} => c.state # "failed" /\ "saving" \in p.busy
    /\ (c.op = "base" /\ c.state = "sent") => c.arg.additional = s.extra
    /\ c.op = "status" =>
          /\ "updating" \in p.busy /\ IsShipment(c.kept)
          /\ c.state = "ok" => IsShipment(Head(c.body))
          /\ "saving" \notin p.busy =>
                IF c.state = "ok" THEN Head(c.body) = ShipmentOf(s)
                ELSE c.kept = ShipmentOf(s)

\* The row on the screen, once no save of costs is under way.
ShownRowSound(p, s, cs) ==
    /\ IsShipment(p.row)
    /\ (p.row.status # "NONE" /\ "saving" \notin p.busy) =>
          /\ p.row.extra = s.extra /\ p.row.stored = s.stored
          /\ NoneOf(cs, {"status"}) => p.row = ShipmentOf(s)

\* Nobody else wrote, no answer was lost, and no reload met a status call.
Quiet(p, s, cs) ==
    /\ s.stored = s.extra
    /\ ShownRowSound(p, s, cs)
    /\ p.tracker = 0 => cs = <<>> /\ p.row.status = "NONE"
    /\ OnceOf(cs, CostOps) /\ OnceOf(cs, {"status"})
    /\ NoneOf(cs, {"shipment"}) \/ NoneOf(cs, {"status"})
    /\ "saving" \in p.busy => ~NoneOf(cs, CostOps)
    /\ \A i \in DOMAIN cs : ShipmentCallSound(cs[i], p, s)

ShipmentInv ==
    At("shipment") =>
        /\ IsShipmentRows(server) /\ IsShipmentPage(page) /\ Known(calls) /\ lost \in Nat
        /\ Undisturbed => Quiet(page, server, calls)

LEMMA ShipmentGoesOn ==
    ASSUME NEW t, IsShipmentRows(t), server' = t, NEW q, IsShipmentPage(q), page' = q,
           Known(calls'), lost' \in Nat,
           t.others = 0 /\ lost' = 0 /\ ~q.mixed => Quiet(q, t, calls')
    PROVE  ShipmentInv'
  BY DEF ShipmentInv, Undisturbed

LEMMA ShipmentOfIs ==
    ASSUME NEW s
    PROVE  ShipmentOf(s) = [status |-> s.status, pro |-> s.pro, base |-> s.base,
                            extra |-> s.extra, stored |-> s.stored, order |-> s.order]
  BY DEF ShipmentOf, NoShipment

LEMMA ShipmentOfFields ==
    ASSUME NEW s
    PROVE  /\ IsShipment(ShipmentOf(s)) /\ ShipmentOf(s).extra = s.extra
           /\ ShipmentOf(s).stored = s.stored /\ ShipmentOf(s).status = s.status
<1>1. PICK row : row = ShipmentOf(s)
  OBVIOUS
<1>2. row = [status |-> s.status, pro |-> s.pro, base |-> s.base,
             extra |-> s.extra, stored |-> s.stored, order |-> s.order]
  BY <1>1, ShipmentOfIs
<1> QED
  BY <1>1, <1>2 DEF IsShipment

\* The parts of a page that its steps look at.
LEMMA ShipmentPageIs ==
    ASSUME NEW p, IsShipmentPage(p)
    PROVE  \E row, order, reload, busy : \E tracker \in Nat, mixed \in BOOLEAN :
             p = [row |-> row, order |-> order, reload |-> reload,
                  tracker |-> tracker, busy |-> busy, mixed |-> mixed]
  BY DEF IsShipmentPage

LEMMA UnderWayIs ==
    ASSUME NEW op
    PROVE  UnderWay(op) <=> ~NoneOf(calls, {op})
  BY DEF UnderWay, NoneOf

\* A call that is made by the page q.
LEMMA ShipmentAsks ==
    ASSUME ShipmentInv, At("shipment"), NEW q, IsShipmentPage(q),
           q.mixed = FALSE => page.mixed = FALSE,
           NEW c, IsCall(c), Ask(q, <<c>>),
           Undisturbed /\ ~q.mixed =>
              /\ q.tracker # 0
              /\ ShownRowSound(q, server, calls \o <<c>>)
              /\ c.op \in CostOps => NoneOf(calls, CostOps)
              /\ c.op = "status" => NoneOf(calls, {"status", "shipment"})
              /\ c.op = "shipment" => NoneOf(calls, {"status"})
              /\ ("saving" \in q.busy /\ c.op \notin CostOps) => "saving" \in page.busy
              /\ \A i \in DOMAIN calls : ShipmentCallSound(calls[i], q, server)
              /\ ShipmentCallSound(c, q, server)
    PROVE  ShipmentInv'
<1>1. /\ IsShipmentRows(server) /\ Known(calls) /\ lost \in Nat
      /\ page' = q /\ server' = server /\ lost' = lost /\ calls' = calls \o <<c>>
  BY DEF ShipmentInv, Ask
<1>2. PICK t, cs : t = server /\ cs = calls \o <<c>>
  OBVIOUS
<1>3. PICK S : calls \in Seq(S)
  BY <1>1 DEF Known, IsCalls
<1>4. /\ <<c>> \in Seq({c}) /\ Known(calls')
  <2>1. PICK new : new = <<c>>
    OBVIOUS
  <2>2. new \in Seq({c}) /\ \A k \in DOMAIN new : IsCall(new[k])
    BY <2>1
  <2>3. Ask(q, new)
    BY <2>1
  <2> QED
    BY <1>1, <2>1, <2>2, <2>3, AskedMore
<1>5. /\ DOMAIN cs = DOMAIN calls \union {Len(calls) + 1}
      /\ cs[Len(calls) + 1] = c
      /\ \A i \in DOMAIN calls : cs[i] = calls[i]
  BY <1>2, <1>3
<1>6. ASSUME t.others = 0, lost' = 0, ~q.mixed PROVE Quiet(q, t, cs)
  <2>1. Undisturbed /\ Quiet(page, server, calls)
    BY <1>1, <1>2, <1>6 DEF Undisturbed, ShipmentInv, IsShipmentPage
  <2>2. OnceOf(cs, CostOps) /\ OnceOf(cs, {"status"})
    <3>1. c.op = "status" => NoneOf(calls, {"status"})
      BY <1>6, <2>1 DEF NoneOf
    <3> QED
      BY <1>2, <1>3, <1>6, <2>1, <3>1, WithOneMore DEF Quiet
  <2>3. NoneOf(cs, {"shipment"}) \/ NoneOf(cs, {"status"})
    <3>1. /\ c.op = "status" => NoneOf(calls, {"shipment"})
          /\ c.op = "shipment" => NoneOf(calls, {"status"})
          /\ NoneOf(calls, {"shipment"}) \/ NoneOf(calls, {"status"})
      BY <1>6, <2>1 DEF NoneOf, Quiet
    <3>2. \A ops : NoneOf(cs, ops) <=> NoneOf(calls, ops) /\ c.op \notin ops
      BY <1>2, <1>3, WithOneMore
    <3> QED
      BY <3>1, <3>2
  <2>4. "saving" \in q.busy => ~NoneOf(cs, CostOps)
    BY <1>2, <1>3, <1>6, <2>1, WithOneMore DEF Quiet
  <2>5. \A i \in DOMAIN cs : ShipmentCallSound(cs[i], q, t)
    BY <1>2, <1>5, <1>6, <2>1
  <2> QED
    BY <1>2, <1>6, <2>1, <2>2, <2>3, <2>4, <2>5 DEF Quiet
<1> QED
  BY <1>1, <1>2, <1>4, <1>6, ShipmentGoesOn

\* A load that a page without a shipment makes.
LEMMA OpenShipmentSound ==
    ASSUME ShipmentInv, At("shipment"), OpenShipment
    PROVE  ShipmentInv'
<1>1. IsShipmentPage(page) /\ IsShipmentRows(server) /\ page.tracker = 0
  BY DEF ShipmentInv, OpenShipment
<1>2. PICK row, order, reload, busy, tracker, mixed :
         /\ tracker \in Nat /\ mixed \in BOOLEAN
         /\ page = [row |-> row, order |-> order, reload |-> reload,
                    tracker |-> tracker, busy |-> busy, mixed |-> mixed]
  BY <1>1, ShipmentPageIs
<1>3. PICK c, q : /\ c = ShipmentLoad(page, "opened")
                  /\ q = [loadShipment(page) EXCEPT !.busy = {"loading"}]
  OBVIOUS
<1>4. Ask(q, <<c>>)
  BY <1>3 DEF OpenShipment
<1>5. q = [row |-> row, order |-> order, reload |-> reload, tracker |-> tracker + 1,
           busy |-> {"loading"}, mixed |-> (mixed \/ UnderWay("status"))]
  BY <1>2, <1>3 DEF loadShipment, BeginRequest
<1>6. /\ c.op = "shipment" /\ c.arg = "opened" /\ c.kept = tracker + 1 /\ c.state = "sent"
      /\ IsCall(c)
  BY <1>2, <1>3 DEF ShipmentLoad, Call, BeginRequest, IsCall
<1>7. /\ IsShipmentPage(q) /\ q.tracker # 0 /\ q.row = page.row
      /\ q.tracker = tracker + 1
      /\ q.mixed = (mixed \/ UnderWay("status")) /\ q.busy = {"loading"}
  BY <1>2, <1>5 DEF IsShipmentPage
<1>8. ASSUME Undisturbed, ~q.mixed
      PROVE  /\ ShownRowSound(q, server, calls \o <<c>>)
             /\ calls = <<>> /\ ShipmentCallSound(c, q, server)
  <2>1. calls = <<>> /\ page.row.status = "NONE" /\ IsShipment(page.row)
    BY <1>1, <1>8 DEF ShipmentInv, Quiet, ShownRowSound
  <2>2. ShownRowSound(q, server, calls \o <<c>>)
    BY <1>7, <2>1 DEF ShownRowSound
  <2>3. ShipmentCallSound(c, q, server)
    BY <1>6, <1>7, <2>1 DEF ShipmentCallSound, CostOps
  <2> QED
    BY <2>1, <2>2, <2>3
<1>9. calls = <<>> => DOMAIN calls = {} /\ \A ops : NoneOf(calls, ops)
  BY DEF NoneOf
<1>10. q.mixed = FALSE => page.mixed = FALSE
  BY <1>2, <1>7
<1> QED
  BY <1>4, <1>6, <1>7, <1>8, <1>9, <1>10, ShipmentAsks DEF CostOps

LEMMA updateStatusSound ==
    ASSUME ShipmentInv, At("shipment"), updateStatus
    PROVE  ShipmentInv'
<1>1. IsShipmentPage(page) /\ IsShipmentRows(server) /\ page.row.status # "NONE"
  BY DEF ShipmentInv, updateStatus, Shown
<1>2. PICK row, order, reload, busy, tracker, mixed :
         /\ tracker \in Nat /\ mixed \in BOOLEAN
         /\ page = [row |-> row, order |-> order, reload |-> reload,
                    tracker |-> tracker, busy |-> busy, mixed |-> mixed]
  BY <1>1, ShipmentPageIs
<1>3. PICK status, pro :
         Ask([page EXCEPT !.row = [@ EXCEPT !.status = status, !.pro = pro],
                          !.busy = @ \union {"updating"},
                          !.mixed = @ \/ UnderWay("shipment")],
             <<Call("status", [status |-> status, pro |-> pro], page.row)>>)
  BY DEF updateStatus
<1>4. PICK given : given = [status |-> status, pro |-> pro]
  OBVIOUS
<1>5. PICK c, q : /\ c = Call("status", given, page.row)
                  /\ q = [page EXCEPT !.row = [@ EXCEPT !.status = status, !.pro = pro],
                                      !.busy = @ \union {"updating"},
                                      !.mixed = @ \/ UnderWay("shipment")]
  OBVIOUS
<1>6. PICK new : new = [row EXCEPT !.status = status, !.pro = pro]
  OBVIOUS
<1>7. q = [row |-> new, order |-> order, reload |-> reload, tracker |-> tracker,
           busy |-> busy \union {"updating"}, mixed |-> (mixed \/ UnderWay("shipment"))]
  BY <1>2, <1>5, <1>6
<1>8. Ask(q, <<c>>)
  BY <1>3, <1>4, <1>5
<1>9. /\ c.op = "status" /\ c.arg = given /\ c.kept = row /\ c.state = "sent" /\ IsCall(c)
  BY <1>2, <1>5 DEF Call, IsCall
<1>10. /\ IsShipmentPage(q) /\ q.row = new /\ q.tracker = page.tracker
       /\ q.mixed = (mixed \/ UnderWay("shipment")) /\ q.busy = busy \union {"updating"}
  BY <1>2, <1>7 DEF IsShipmentPage
<1>11. ASSUME Undisturbed, ~q.mixed
       PROVE  /\ ShownRowSound(q, server, calls \o <<c>>) /\ q.tracker # 0
              /\ NoneOf(calls, {"status", "shipment"})
              /\ \A i \in DOMAIN calls : ShipmentCallSound(calls[i], q, server)
              /\ ShipmentCallSound(c, q, server)
  <2>1. Quiet(page, server, calls)
    BY <1>11 DEF ShipmentInv
  <2>2. IsShipment(row) /\ "updating" \notin busy /\ row.status # "NONE"
    BY <1>1, <1>2, <2>1 DEF Quiet, ShownRowSound, updateStatus
  <2>3. new = [status |-> status, pro |-> pro, base |-> row.base, extra |-> row.extra,
               stored |-> row.stored, order |-> row.order]
    BY <1>6, <2>2 DEF IsShipment
  <2>4. IsShipment(new) /\ new.extra = row.extra /\ new.stored = row.stored
    BY <2>3 DEF IsShipment
  <2>5. NoneOf(calls, {"shipment"})
    BY <1>10, <1>11, UnderWayIs
  <2>6. NoneOf(calls, {"status"})
    BY <1>2, <2>1, <2>2 DEF NoneOf, Quiet, ShipmentCallSound
  <2>7. ~NoneOf(calls \o <<c>>, {"status"})
    <3>1. PICK S : calls \in Seq(S)
      BY DEF ShipmentInv, Known, IsCalls
    <3> QED
      BY <1>9, <3>1, WithOneMore
  <2>8. ShownRowSound(q, server, calls \o <<c>>)
    BY <1>2, <1>10, <2>1, <2>2, <2>4, <2>7 DEF ShownRowSound, Quiet
  <2>9. \A i \in DOMAIN calls : ShipmentCallSound(calls[i], q, server)
    <3> SUFFICES ASSUME NEW i \in DOMAIN calls PROVE ShipmentCallSound(calls[i], q, server)
      OBVIOUS
    <3>1. /\ ShipmentCallSound(calls[i], page, server)
          /\ calls[i].op # "shipment" /\ calls[i].op # "status"
      BY <2>1, <2>5, <2>6 DEF Quiet, NoneOf
    <3> QED
      BY <1>2, <1>10, <3>1 DEF ShipmentCallSound
  <2>10. ShipmentCallSound(c, q, server)
    <3>1. "saving" \notin q.busy => c.kept = ShipmentOf(server)
      BY <1>2, <1>9, <1>10, <2>1, <2>2, <2>6 DEF Quiet, ShownRowSound
    <3> QED
      BY <1>9, <1>10, <2>2, <3>1 DEF ShipmentCallSound, CostOps
  <2> QED
    BY <1>1, <1>10, <2>1, <2>5, <2>6, <2>8, <2>9, <2>10 DEF NoneOf, Quiet
<1>12. q.mixed = FALSE => page.mixed = FALSE
  BY <1>2, <1>10
<1> QED
  BY <1>2, <1>8, <1>9, <1>10, <1>11, <1>12, ShipmentAsks DEF CostOps

\* A save of costs locks the card; what it carries is what is stored.
LEMMA SavesCosts ==
    ASSUME ShipmentInv, At("shipment"), page.row.status # "NONE", "saving" \notin page.busy,
           NEW c, IsCall(c), c.op \in {"extra", "base"}, c.state = "sent",
           Ask([page EXCEPT !.busy = @ \union {"saving"}], <<c>>),
           c.op = "base" => c.arg.additional = additionalAmount(page.row)
    PROVE  ShipmentInv'
<1>1. IsShipmentPage(page) /\ IsShipmentRows(server)
  BY DEF ShipmentInv
<1>2. PICK row, order, reload, busy, tracker, mixed :
         /\ tracker \in Nat /\ mixed \in BOOLEAN
         /\ page = [row |-> row, order |-> order, reload |-> reload,
                    tracker |-> tracker, busy |-> busy, mixed |-> mixed]
  BY <1>1, ShipmentPageIs
<1>3. PICK q : q = [page EXCEPT !.busy = @ \union {"saving"}]
  OBVIOUS
<1>4. q = [row |-> row, order |-> order, reload |-> reload, tracker |-> tracker,
           busy |-> busy \union {"saving"}, mixed |-> mixed]
  BY <1>2, <1>3
<1>5. /\ IsShipmentPage(q) /\ q.row = row /\ q.tracker = page.tracker
      /\ q.mixed = page.mixed /\ q.busy = busy \union {"saving"}
  BY <1>2, <1>4 DEF IsShipmentPage
<1>6. ASSUME Undisturbed
      PROVE  /\ ShownRowSound(q, server, calls \o <<c>>) /\ q.tracker # 0
             /\ NoneOf(calls, CostOps)
             /\ \A i \in DOMAIN calls : ShipmentCallSound(calls[i], q, server)
             /\ ShipmentCallSound(c, q, server)
  <2>1. Quiet(page, server, calls)
    BY <1>6 DEF ShipmentInv
  <2>2. NoneOf(calls, CostOps)
    <3> SUFFICES ASSUME NEW i \in DOMAIN calls, calls[i].op \in CostOps PROVE FALSE
      BY DEF NoneOf
    <3> QED
      BY <2>1 DEF Quiet, ShipmentCallSound, CostOps
  <2>3. /\ IsShipment(row) /\ row.extra = server.extra /\ row.stored = server.extra
    BY <1>2, <2>1 DEF Quiet, ShownRowSound
  <2>4. c.op = "base" => c.arg.additional = server.extra
    BY <1>2, <2>3 DEF additionalAmount
  <2>5. ShipmentCallSound(c, q, server)
    BY <1>5, <2>4 DEF ShipmentCallSound, CostOps
  <2>6. \A i \in DOMAIN calls : ShipmentCallSound(calls[i], q, server)
    <3> SUFFICES ASSUME NEW i \in DOMAIN calls PROVE ShipmentCallSound(calls[i], q, server)
      OBVIOUS
    <3>1. ShipmentCallSound(calls[i], page, server) /\ calls[i].op \notin CostOps
      BY <2>1, <2>2 DEF Quiet, NoneOf
    <3> QED
      BY <1>2, <1>5, <3>1 DEF ShipmentCallSound, CostOps
  <2> QED
    BY <1>1, <1>5, <2>1, <2>2, <2>3, <2>5, <2>6 DEF Quiet, ShownRowSound
<1>7. Ask(q, <<c>>)
  BY <1>3
<1> QED
  BY <1>5, <1>6, <1>7, ShipmentAsks DEF CostOps

LEMMA CostSubmitSound ==
    ASSUME ShipmentInv, At("shipment"),
           handleAdditionalCostSubmit \/ handleBaseCostSubmit
    PROVE  ShipmentInv'
<1>1. CASE handleAdditionalCostSubmit
  <2>1. PICK c : c = Call("extra", 1, 0)
    OBVIOUS
  <2>2. c.op = "extra" /\ c.state = "sent" /\ IsCall(c)
    BY <2>1 DEF Call, IsCall
  <2> QED
    BY <1>1, <2>1, <2>2, SavesCosts DEF handleAdditionalCostSubmit, Shown
<1>2. CASE handleBaseCostSubmit
  <2>1. PICK base : Ask([page EXCEPT !.busy = @ \union {"saving"}],
                        <<Call("base", [base |-> base,
                                        additional |-> additionalAmount(page.row)], 0)>>)
    BY <1>2 DEF handleBaseCostSubmit
  <2>2. PICK amount : amount = additionalAmount(page.row)
    OBVIOUS
  <2>3. PICK c : c = Call("base", [base |-> base, additional |-> amount], 0)
    OBVIOUS
  <2>4. c.op = "base" /\ c.state = "sent" /\ c.arg.additional = amount /\ IsCall(c)
    BY <2>3 DEF Call, IsCall
  <2> QED
    BY <1>2, <2>1, <2>2, <2>3, <2>4, SavesCosts DEF handleBaseCostSubmit, Shown
<1> QED
  BY <1>1, <1>2

\* The order is loaded again and again; no row depends on it.
LEMMA SameRowSound ==
    ASSUME NEW p, NEW q, NEW s, NEW cs, Quiet(p, s, cs),
           q.row = p.row, q.tracker = p.tracker, q.busy = p.busy
    PROVE  Quiet(q, s, cs)
  BY DEF Quiet, ShownRowSound, ShipmentCallSound

LEMMA OrderLoadedSound ==
    ASSUME ShipmentInv, At("shipment"), OrderLoaded
    PROVE  ShipmentInv'
<1>1. /\ IsShipmentPage(page) /\ IsShipmentRows(server) /\ Known(calls) /\ lost \in Nat
      /\ server.others \in Nat
  BY DEF ShipmentInv, IsShipmentRows
<1>2. PICK row, order, reload, busy, tracker, mixed :
         /\ tracker \in Nat /\ mixed \in BOOLEAN
         /\ page = [row |-> row, order |-> order, reload |-> reload,
                    tracker |-> tracker, busy |-> busy, mixed |-> mixed]
  BY <1>1, ShipmentPageIs
<1>3. PICK now : page' = [page EXCEPT !.order = now, !.reload = FALSE]
  BY DEF OrderLoaded, Become
<1>4. server' = server /\ calls' = calls /\ (lost' = lost \/ lost' = lost + 1)
  BY DEF OrderLoaded, Become
<1>5. PICK q : q = [page EXCEPT !.order = now, !.reload = FALSE]
  OBVIOUS
<1>6. q = [row |-> row, order |-> now, reload |-> FALSE, tracker |-> tracker,
           busy |-> busy, mixed |-> mixed]
  BY <1>2, <1>5
<1>7. /\ IsShipmentPage(q) /\ q.row = page.row /\ q.tracker = page.tracker
      /\ q.busy = page.busy /\ q.mixed = page.mixed
  BY <1>2, <1>6 DEF IsShipmentPage
<1>8. lost' \in Nat /\ (lost' = 0 => lost = 0)
  BY <1>1, <1>4
<1>9. server.others = 0 /\ lost' = 0 /\ ~q.mixed => Quiet(q, server, calls)
  BY <1>7, <1>8, SameRowSound DEF ShipmentInv, Undisturbed
<1> QED
  BY <1>1, <1>3, <1>4, <1>5, <1>7, <1>8, <1>9, ShipmentGoesOn

LEMMA OtherShippingSound ==
    ASSUME ShipmentInv, At("shipment"), OtherShipping
    PROVE  ShipmentInv'
<1>1. IsShipmentPage(page) /\ IsShipmentRows(server) /\ Known(calls) /\ lost \in Nat
  BY DEF ShipmentInv
<1>2. PICK status, pro, base, extra, stored, order, others :
         /\ extra \in Nat /\ others \in Nat
         /\ server = [status |-> status, pro |-> pro, base |-> base, extra |-> extra,
                      stored |-> stored, order |-> order, others |-> others]
  BY <1>1 DEF IsShipmentRows
<1>3. PICK s : s = [server EXCEPT !.others = @ + 1]
  OBVIOUS
<1>4. s = [status |-> status, pro |-> pro, base |-> base, extra |-> extra,
           stored |-> stored, order |-> order, others |-> others + 1]
  BY <1>2, <1>3
<1>5. PICK t : /\ t \in {[s EXCEPT !.status = "SHIPPED"], WithExtra(s),
                         [s EXCEPT !.order = "CANCELLED"]}
               /\ server' = t /\ UNCHANGED <<page, calls, lost>>
  BY <1>3 DEF OtherShipping, Elsewhere
<1>6. extra + 1 \in Nat /\ others + 1 \in Nat /\ others + 1 # 0
  BY <1>2
<1>7. IsShipmentRows(t) /\ t.others = others + 1
  <2>1. CASE t = [s EXCEPT !.status = "SHIPPED"]
    <3>1. t = [status |-> "SHIPPED", pro |-> pro, base |-> base, extra |-> extra,
               stored |-> stored, order |-> order, others |-> others + 1]
      BY <1>4, <2>1
    <3> QED
      BY <1>2, <1>6, <3>1 DEF IsShipmentRows
  <2>2. CASE t = WithExtra(s)
    <3>1. t = [status |-> status, pro |-> pro, base |-> base, extra |-> extra + 1,
               stored |-> extra + 1, order |-> order, others |-> others + 1]
      BY <1>4, <2>2 DEF WithExtra
    <3> QED
      BY <1>6, <3>1 DEF IsShipmentRows
  <2>3. CASE t = [s EXCEPT !.order = "CANCELLED"]
    <3>1. t = [status |-> status, pro |-> pro, base |-> base, extra |-> extra,
               stored |-> stored, order |-> "CANCELLED", others |-> others + 1]
      BY <1>4, <2>3
    <3> QED
      BY <1>2, <1>6, <3>1 DEF IsShipmentRows
  <2> QED
    BY <1>5, <2>1, <2>2, <2>3
<1> QED
  BY <1>1, <1>5, <1>6, <1>7, ShipmentGoesOn

\* The backend answers call i with b, or refuses it, and leaves the rows t.
ServesQuietly(i, t, ok, b) ==
    /\ t.stored = t.extra /\ ShownRowSound(page, t, calls)
    /\ \A j \in DOMAIN calls : j # i => ShipmentCallSound(calls[j], page, t)
    /\ \A d : (/\ IsCall(d) /\ Same(calls[i], d)
               /\ ok => d.state = "ok" /\ d.body = <<b>>
               /\ ~ok => d.state = "failed")
              => ShipmentCallSound(d, page, t)

LEMMA ShipmentServes ==
    ASSUME ShipmentInv, At("shipment"), NEW i \in DOMAIN calls, NEW t, IsShipmentRows(t),
           NEW ok \in BOOLEAN, NEW b, Perform(i, t, ok, b), t.others = server.others,
           Undisturbed => ServesQuietly(i, t, ok, b)
    PROVE  ShipmentInv'
<1>1. IsShipmentPage(page) /\ IsShipmentRows(server) /\ Known(calls) /\ lost \in Nat
  BY DEF ShipmentInv
<1>2. /\ Known(calls') /\ page' = page /\ server' = t /\ lost' = lost
      /\ DOMAIN calls' = DOMAIN calls
      /\ \A j \in DOMAIN calls : calls'[j].op = calls[j].op
  BY <1>1, ServedAt
<1>3. PICK d : AnsweredWith(i, d, ok, b)
  BY <1>1, ServedAt
<1>4. PICK cs : cs = calls'
  OBVIOUS
<1>5. ASSUME Undisturbed PROVE Quiet(page, t, cs)
  <2>1. Quiet(page, server, calls)
    BY <1>5 DEF ShipmentInv
  <2>2. \A ops : /\ OnceOf(calls, ops) => OnceOf(cs, ops)
                 /\ NoneOf(cs, ops) <=> NoneOf(calls, ops)
    BY <1>2, <1>4, WithAnswer
  <2>3. \A j \in DOMAIN cs : ShipmentCallSound(cs[j], page, t)
    BY <1>2, <1>3, <1>4, <1>5 DEF ServesQuietly, AnsweredWith
  <2>4. page.tracker = 0 => FALSE
    BY <2>1 DEF Quiet
  <2>5. ShownRowSound(page, t, cs)
    BY <1>5, <2>2 DEF ServesQuietly, ShownRowSound
  <2> QED
    BY <1>5, <2>1, <2>2, <2>3, <2>4, <2>5 DEF ServesQuietly, Quiet
<1> QED
  BY <1>1, <1>2, <1>4, <1>5, ShipmentGoesOn DEF Undisturbed

LEMMA ShipmentServeSound ==
    ASSUME ShipmentInv, At("shipment"), NEW i \in DOMAIN calls, ShipmentServe(i)
    PROVE  ShipmentInv'
<1>1. IsShipmentPage(page) /\ IsShipmentRows(server) /\ Known(calls)
  BY DEF ShipmentInv
<1>2. PICK status, pro, base, extra, stored, order, others :
         /\ extra \in Nat /\ others \in Nat
         /\ server = [status |-> status, pro |-> pro, base |-> base, extra |-> extra,
                      stored |-> stored, order |-> order, others |-> others]
  BY <1>1 DEF IsShipmentRows
<1>3. PICK c : c = calls[i] /\ IsCall(c) /\ c.state = "sent"
  BY <1>1 DEF Known, ShipmentServe, Asked
<1>4. /\ Undisturbed => Quiet(page, server, calls)
      /\ Undisturbed => ShipmentCallSound(c, page, server) /\ ShownRowSound(page, server, calls)
  BY <1>3 DEF ShipmentInv, Quiet
\* A call that saves costs is the only one, so whatever else was read may
\* be out of date without harm.
<1>5. ASSUME Undisturbed, c.op \in {"extra", "base"}, NEW t
      PROVE  /\ ShownRowSound(page, t, calls)
             /\ \A j \in DOMAIN calls : j # i => ShipmentCallSound(calls[j], page, t)
             /\ \A d : IsCall(d) /\ Same(c, d) /\ d.state = "ok" =>
                          ShipmentCallSound(d, page, t)
  <2>1. Quiet(page, server, calls) /\ "saving" \in page.busy
    BY <1>4, <1>5 DEF ShipmentCallSound
  <2>2. \A j \in DOMAIN calls : j # i => calls[j].op \notin CostOps
    BY <1>3, <1>5, <2>1 DEF Quiet, OnceOf, CostOps
  <2>3. \A j \in DOMAIN calls : j # i => ShipmentCallSound(calls[j], page, t)
    BY <2>1, <2>2 DEF Quiet, ShipmentCallSound, CostOps
  <2>4. ShownRowSound(page, t, calls)
    BY <2>1 DEF Quiet, ShownRowSound
  <2>5. ASSUME NEW d, IsCall(d), Same(c, d), d.state = "ok"
        PROVE  ShipmentCallSound(d, page, t)
    BY <1>5, <2>1, <2>5 DEF ShipmentCallSound, Same, CostOps
  <2> QED
    BY <2>3, <2>4, <2>5
<1>6. CASE Asked(i, "shipment") /\ Perform(i, server, TRUE, ShipmentOf(server))
  <2>1. PICK ok, b : ok \in BOOLEAN /\ ok = TRUE /\ b = ShipmentOf(server)
    OBVIOUS
  <2>2. Perform(i, server, ok, b) /\ c.op = "shipment"
    BY <1>3, <1>6, <2>1 DEF Asked
  <2>3. ASSUME Undisturbed, NEW d, IsCall(d), Same(c, d), d.state = "ok", d.body = <<b>>
        PROVE  ShipmentCallSound(d, page, server)
    <3>1. Head(d.body) = ShipmentOf(server)
      BY <2>1, <2>3
    <3>2. ShipmentCallSound(c, page, server)
      BY <1>4, <2>3
    <3> QED
      BY <2>2, <2>3, <3>1, <3>2 DEF ShipmentCallSound, Same
  <2>4. Undisturbed =>
           /\ server.stored = server.extra
           /\ \A j \in DOMAIN calls : j # i => ShipmentCallSound(calls[j], page, server)
    BY <1>4 DEF Quiet
  <2> QED
    BY <1>1, <1>3, <1>4, <2>1, <2>2, <2>3, <2>4, ShipmentServes DEF ServesQuietly
<1>7. CASE /\ Asked(i, "status") /\ StatusAllowed(c.arg)
           /\ Perform(i, WithStatus(c.arg), TRUE, ShipmentOf(WithStatus(c.arg)))
  <2>1. PICK t : t = WithStatus(c.arg)
    OBVIOUS
  <2>2. PICK ok, b : ok \in BOOLEAN /\ ok = TRUE /\ b = ShipmentOf(t)
    OBVIOUS
  <2>3. Perform(i, t, ok, b) /\ c.op = "status"
    BY <1>3, <1>7, <2>1, <2>2 DEF Asked
  <2>4. PICK newStatus, newPro :
           t = [status |-> newStatus, pro |-> newPro, base |-> base, extra |-> extra,
                stored |-> stored, order |-> order, others |-> others]
    BY <1>2, <2>1 DEF WithStatus
  <2>5. /\ IsShipmentRows(t) /\ t.others = server.others /\ t.extra = server.extra
        /\ t.stored = server.stored
    BY <1>2, <2>4 DEF IsShipmentRows
  <2>6. ASSUME Undisturbed, NEW d, IsCall(d), Same(c, d), d.state = "ok", d.body = <<b>>
        PROVE  ShipmentCallSound(d, page, t)
    <3>1. Head(d.body) = ShipmentOf(t) /\ IsShipment(ShipmentOf(t))
      BY <2>2, <2>6, ShipmentOfFields
    <3>2. ShipmentCallSound(c, page, server)
      BY <1>4, <2>6
    <3> QED
      BY <2>3, <2>6, <3>1, <3>2 DEF ShipmentCallSound, Same, CostOps
  <2>7. ASSUME Undisturbed
        PROVE  /\ t.stored = t.extra /\ ShownRowSound(page, t, calls)
               /\ \A j \in DOMAIN calls : j # i => ShipmentCallSound(calls[j], page, t)
    <3>1. Quiet(page, server, calls)
      BY <1>4, <2>7
    <3>2. ~NoneOf(calls, {"status"})
      BY <1>3, <2>3 DEF NoneOf
    <3>3. ShownRowSound(page, t, calls)
      BY <2>5, <3>1, <3>2 DEF Quiet, ShownRowSound
    <3>4. NoneOf(calls, {"shipment"})
      BY <3>1, <3>2 DEF Quiet
    <3>5. \A j \in DOMAIN calls : j # i => calls[j].op \notin {"status", "shipment"}
      BY <1>3, <2>3, <3>1, <3>4 DEF Quiet, OnceOf, NoneOf
    <3>6. \A j \in DOMAIN calls : j # i => ShipmentCallSound(calls[j], page, t)
      BY <2>5, <3>1, <3>5 DEF Quiet, ShipmentCallSound
    <3> QED
      BY <2>5, <3>1, <3>3, <3>6 DEF Quiet
  <2> QED
    BY <1>3, <2>2, <2>3, <2>5, <2>6, <2>7, ShipmentServes DEF ServesQuietly
<1>8. CASE Asked(i, "status") /\ Refuse(i)
  <2>1. PICK ok, b : ok \in BOOLEAN /\ ok = FALSE /\ b = <<>>
    OBVIOUS
  <2>2. Perform(i, server, ok, b) /\ c.op = "status"
    BY <1>3, <1>8, <2>1 DEF Asked, Refuse
  <2>3. ASSUME Undisturbed, NEW d, IsCall(d), Same(c, d), d.state = "failed"
        PROVE  ShipmentCallSound(d, page, server)
    <3>1. ShipmentCallSound(c, page, server)
      BY <1>4, <2>3
    <3> QED
      BY <1>3, <2>2, <2>3, <3>1 DEF ShipmentCallSound, Same, CostOps
  <2>4. Undisturbed =>
           /\ server.stored = server.extra
           /\ \A j \in DOMAIN calls : j # i => ShipmentCallSound(calls[j], page, server)
    BY <1>4 DEF Quiet
  <2> QED
    BY <1>1, <1>3, <1>4, <2>1, <2>2, <2>3, <2>4, ShipmentServes DEF ServesQuietly
<1>9. CASE Asked(i, "extra") /\ Perform(i, WithExtra(server), TRUE, <<>>)
  <2>1. PICK t, ok, b : t = WithExtra(server) /\ ok \in BOOLEAN /\ ok = TRUE /\ b = <<>>
    OBVIOUS
  <2>2. Perform(i, t, ok, b) /\ c.op = "extra"
    BY <1>3, <1>9, <2>1 DEF Asked
  <2>3. t = [status |-> status, pro |-> pro, base |-> base, extra |-> extra + 1,
             stored |-> extra + 1, order |-> order, others |-> others]
    BY <1>2, <2>1 DEF WithExtra
  <2>4. IsShipmentRows(t) /\ t.others = server.others /\ t.stored = t.extra
    BY <1>2, <2>3 DEF IsShipmentRows
  <2> QED
    BY <1>3, <1>5, <2>1, <2>2, <2>4, ShipmentServes DEF ServesQuietly
<1>10. CASE /\ Asked(i, "base")
            /\ Perform(i, [server EXCEPT !.base = c.arg.base, !.stored = c.arg.additional],
                       TRUE, <<>>)
  <2>1. PICK newBase, amount : newBase = c.arg.base /\ amount = c.arg.additional
    OBVIOUS
  <2>2. PICK t, ok, b : /\ t = [server EXCEPT !.base = newBase, !.stored = amount]
                        /\ ok \in BOOLEAN /\ ok = TRUE /\ b = <<>>
    OBVIOUS
  <2>3. Perform(i, t, ok, b) /\ c.op = "base"
    BY <1>3, <1>10, <2>1, <2>2 DEF Asked
  <2>4. t = [status |-> status, pro |-> pro, base |-> newBase, extra |-> extra,
             stored |-> amount, order |-> order, others |-> others]
    BY <1>2, <2>2
  <2>5. /\ IsShipmentRows(t) /\ t.others = server.others /\ t.extra = server.extra
        /\ t.stored = amount
    BY <1>2, <2>4 DEF IsShipmentRows
  <2>6. Undisturbed => t.stored = t.extra
    BY <1>3, <1>4, <2>1, <2>3, <2>5 DEF ShipmentCallSound
  <2> QED
    BY <1>3, <1>5, <2>2, <2>3, <2>5, <2>6, ShipmentServes DEF ServesQuietly
<1> QED
  BY <1>3, <1>6, <1>7, <1>8, <1>9, <1>10 DEF ShipmentServe

LEMMA ShipmentLoseSound ==
    ASSUME ShipmentInv, At("shipment"), NEW i \in DOMAIN calls, LoseCall(i)
    PROVE  ShipmentInv'
<1>1. /\ IsShipmentPage(page) /\ IsShipmentRows(server) /\ Known(calls) /\ lost \in Nat
      /\ lost' = lost + 1
  BY DEF ShipmentInv, LoseCall
<1>2. Known(calls') /\ page' = page /\ server' = server
  BY <1>1, LostCalls
<1>3. lost' \in Nat /\ lost' # 0
  BY <1>1
<1> QED
  BY <1>1, <1>2, <1>3, ShipmentGoesOn

\* The page goes on as q after call i, without a call of its own.
LEMMA ShipmentContinues ==
    ASSUME ShipmentInv, At("shipment"), NEW i \in DOMAIN calls, NEW q, IsShipmentPage(q),
           Continue(i, q, <<>>), q.mixed = page.mixed,
           q.tracker = page.tracker,
           Undisturbed =>
              /\ ShownRowSound(q, server, RemoveAt(calls, i))
              /\ "saving" \in q.busy => "saving" \in page.busy /\ calls[i].op \notin CostOps
              /\ \A j \in DOMAIN calls : j # i => ShipmentCallSound(calls[j], q, server)
    PROVE  ShipmentInv'
<1>1. /\ IsShipmentPage(page) /\ IsShipmentRows(server) /\ Known(calls) /\ lost \in Nat
      /\ page' = q /\ server' = server /\ lost' = lost
  BY DEF ShipmentInv, Continue
<1>2. PICK cs, new : cs = RemoveAt(calls, i) /\ new = <<>>
  OBVIOUS
<1>3. PICK S : calls \in Seq(S)
  BY <1>1 DEF Known, IsCalls
<1>4. cs \in Seq(S)
  BY <1>2, <1>3, RemovedCalls
<1>5. Known(calls') /\ calls' = cs
  <2>1. Continue(i, q, new) /\ new \in Seq({}) /\ DOMAIN new = {}
    BY <1>2, NoCall
  <2>2. calls' = cs \o new /\ \A k \in DOMAIN new : IsCall(new[k])
    BY <1>2, <2>1 DEF Continue
  <2>3. Known(calls')
    BY <1>1, <2>1, <2>2, SpokenCalls
  <2>4. calls' = cs
    BY <1>2, <1>4, <2>2
  <2> QED
    BY <2>3, <2>4
<1>6. ASSUME Undisturbed PROVE Quiet(q, server, cs)
  <2>1. Quiet(page, server, calls)
    BY <1>6 DEF ShipmentInv
  <2>2. \A ops : /\ OnceOf(calls, ops) => OnceOf(cs, ops)
                 /\ NoneOf(calls, ops) => NoneOf(cs, ops)
                 /\ NoneOf(cs, ops) /\ calls[i].op \notin ops => NoneOf(calls, ops)
    BY <1>2, <1>3, WithoutOne
  <2>3. \A j \in DOMAIN cs : ShipmentCallSound(cs[j], q, server)
    <3>1. \A k \in DOMAIN cs : \E m \in DOMAIN calls : m # i /\ cs[k] = calls[m]
      BY <1>2, <1>3, WithoutOne
    <3> QED
      BY <1>6, <3>1
  <2>4. q.tracker # 0
    BY <2>1 DEF Quiet
  <2>5. "saving" \in q.busy => ~NoneOf(cs, CostOps)
    BY <1>6, <2>1, <2>2 DEF Quiet
  <2>6. ShownRowSound(q, server, cs)
    BY <1>2, <1>6
  <2> QED
    BY <2>1, <2>2, <2>3, <2>4, <2>5, <2>6 DEF Quiet
<1> QED
  BY <1>1, <1>5, <1>6, ShipmentGoesOn DEF Undisturbed

LEMMA ShipmentLoadedSound ==
    ASSUME ShipmentInv, At("shipment"), NEW i \in DOMAIN calls, ShipmentLoaded(i)
    PROVE  ShipmentInv'
<1>1. IsShipmentPage(page) /\ IsShipmentRows(server) /\ Known(calls)
  BY DEF ShipmentInv
<1>2. PICK row, order, reload, busy, tracker, mixed :
         /\ tracker \in Nat /\ mixed \in BOOLEAN
         /\ page = [row |-> row, order |-> order, reload |-> reload,
                    tracker |-> tracker, busy |-> busy, mixed |-> mixed]
  BY <1>1, ShipmentPageIs
<1>3. PICK c : c = calls[i] /\ c.op = "shipment" /\ c.state # "sent"
  BY DEF ShipmentLoaded
<1>4. PICK last, ok : /\ last = IsCurrentRequest(c.kept, page.tracker)
                      /\ ok = (c.state = "ok")
  OBVIOUS
<1>5. PICK now, work : /\ now = IF ~last THEN row ELSE IF ok THEN Head(c.body) ELSE NoShipment
                       /\ work = IF c.arg = "saved" THEN busy \ {"saving"}
                                 ELSE IF last THEN busy \ {"loading"} ELSE busy
  OBVIOUS
<1>6. PICK p : p = [page EXCEPT !.row = now, !.busy = work]
  OBVIOUS
<1>7. p = [row |-> now, order |-> order, reload |-> reload, tracker |-> tracker,
           busy |-> work, mixed |-> mixed]
  BY <1>2, <1>6
<1>8. PICK q : /\ q = OrderReload(p) \/ q = p
               /\ Continue(i, q, <<>>)
  BY <1>2, <1>3, <1>4, <1>5, <1>6 DEF ShipmentLoaded, Body
<1>9. /\ IsShipmentPage(q) /\ q.row = now /\ q.tracker = page.tracker
      /\ q.busy = work /\ q.mixed = page.mixed
  <2>1. PICK r, yes : r = OrderReload(p) /\ yes = TRUE
    OBVIOUS
  <2>2. r = [p EXCEPT !.reload = yes]
    BY <2>1 DEF OrderReload
  <2>3. r = [row |-> now, order |-> order, reload |-> yes, tracker |-> tracker,
             busy |-> work, mixed |-> mixed]
    BY <1>7, <2>2
  <2> QED
    BY <1>2, <1>7, <1>8, <2>1, <2>3 DEF IsShipmentPage
<1>10. ASSUME Undisturbed
       PROVE  /\ ShownRowSound(q, server, RemoveAt(calls, i))
              /\ "saving" \notin q.busy
              /\ \A j \in DOMAIN calls : j # i => ShipmentCallSound(calls[j], q, server)
  <2>1. Quiet(page, server, calls) /\ ShipmentCallSound(c, page, server)
    BY <1>3, <1>10 DEF ShipmentInv, Quiet
  <2>2. /\ c.kept = page.tracker /\ c.state = "ok" /\ Head(c.body) = ShipmentOf(server)
        /\ c.arg \in {"opened", "saved"} /\ (c.arg = "opened" => row.status = "NONE")
    <3>1. IsCall(c) /\ c.state # "failed"
      BY <1>3, <2>1 DEF ShipmentCallSound
    <3>2. c.state = "ok"
      BY <1>3, <2>1 DEF ShipmentCallSound
    <3> QED
      BY <1>2, <1>3, <2>1, <3>2 DEF ShipmentCallSound
  <2>3. now = ShipmentOf(server)
    BY <1>4, <1>5, <2>2 DEF IsCurrentRequest
  <2>4. \A j \in DOMAIN calls : j # i => calls[j].op \notin CostOps \union {"status"}
    <3>1. NoneOf(calls, {"status"})
      BY <1>3, <2>1 DEF Quiet, NoneOf
    <3> QED
      BY <1>3, <2>1, <3>1 DEF Quiet, OnceOf, NoneOf, CostOps
  <2>5. \A j \in DOMAIN calls : j # i => ShipmentCallSound(calls[j], q, server)
    BY <2>1, <2>4 DEF Quiet, ShipmentCallSound
  <2>6. "saving" \notin work
    <3>1. CASE c.arg = "saved"
      BY <1>5, <3>1
    <3>2. CASE c.arg = "opened"
      <4>1. "saving" \notin busy
        BY <1>2, <1>3, <2>1, <3>2 DEF ShipmentCallSound
      <4> QED
        BY <1>4, <1>5, <2>2, <3>2, <4>1 DEF IsCurrentRequest
    <3> QED
      BY <2>2, <3>1, <3>2
  <2>7. ShownRowSound(q, server, RemoveAt(calls, i))
    BY <1>9, <2>3, ShipmentOfFields DEF ShownRowSound
  <2> QED
    BY <1>9, <2>5, <2>6, <2>7
<1> QED
  BY <1>8, <1>9, <1>10, ShipmentContinues

LEMMA StatusUpdatedSound ==
    ASSUME ShipmentInv, At("shipment"), NEW i \in DOMAIN calls, StatusUpdated(i)
    PROVE  ShipmentInv'
<1>1. IsShipmentPage(page) /\ IsShipmentRows(server) /\ Known(calls)
  BY DEF ShipmentInv
<1>2. PICK row, order, reload, busy, tracker, mixed :
         /\ tracker \in Nat /\ mixed \in BOOLEAN
         /\ page = [row |-> row, order |-> order, reload |-> reload,
                    tracker |-> tracker, busy |-> busy, mixed |-> mixed]
  BY <1>1, ShipmentPageIs
<1>3. PICK c : c = calls[i] /\ c.op = "status" /\ c.state # "sent"
  BY DEF StatusUpdated
<1>4. PICK now : now = IF c.state = "failed" THEN c.kept
                       ELSE IF row = NoShipment THEN NoShipment ELSE Head(c.body)
  OBVIOUS
<1>5. PICK p, q : /\ p = [page EXCEPT !.row = now, !.busy = busy \ {"updating"}]
                  /\ q = OrderReload(p)
  OBVIOUS
<1>6. Continue(i, q, <<>>)
  BY <1>2, <1>3, <1>4, <1>5 DEF StatusUpdated, Body
<1>7. p = [row |-> now, order |-> order, reload |-> reload, tracker |-> tracker,
           busy |-> busy \ {"updating"}, mixed |-> mixed]
  BY <1>2, <1>5
<1>8. PICK yes : q = [row |-> now, order |-> order, reload |-> yes, tracker |-> tracker,
                      busy |-> busy \ {"updating"}, mixed |-> mixed]
  <2>1. PICK yes : yes = TRUE
    OBVIOUS
  <2>2. q = [p EXCEPT !.reload = yes]
    BY <1>5, <2>1 DEF OrderReload
  <2>3. q = [row |-> now, order |-> order, reload |-> yes, tracker |-> tracker,
             busy |-> busy \ {"updating"}, mixed |-> mixed]
    BY <1>7, <2>2
  <2> QED
    BY <2>3
<1>9. /\ IsShipmentPage(q) /\ q.row = now /\ q.tracker = page.tracker
      /\ q.busy = busy \ {"updating"} /\ q.mixed = page.mixed
  BY <1>2, <1>8 DEF IsShipmentPage
<1>10. ASSUME Undisturbed
       PROVE  /\ ShownRowSound(q, server, RemoveAt(calls, i))
              /\ \A j \in DOMAIN calls : j # i => ShipmentCallSound(calls[j], q, server)
  <2>1. Quiet(page, server, calls) /\ ShipmentCallSound(c, page, server)
    BY <1>3, <1>10 DEF ShipmentInv, Quiet
  <2>2. NoneOf(calls, {"shipment"})
    BY <1>3, <2>1 DEF Quiet, NoneOf
  <2>3. \A j \in DOMAIN calls : j # i => calls[j].op \notin {"shipment", "status"}
    BY <1>3, <2>1, <2>2 DEF Quiet, OnceOf, NoneOf
  <2>4. \A j \in DOMAIN calls : j # i => ShipmentCallSound(calls[j], q, server)
    BY <1>2, <1>9, <2>1, <2>3 DEF Quiet, ShipmentCallSound
  <2>5. IsShipment(NoShipment) /\ NoShipment.status = "NONE"
    BY DEF IsShipment, NoShipment
  <2>6. /\ IsShipment(now)
        /\ (now.status # "NONE" /\ "saving" \notin busy) => now = ShipmentOf(server)
    <3>1. CASE c.state = "failed"
      BY <1>2, <1>3, <1>4, <2>1, <3>1 DEF ShipmentCallSound
    <3>2. CASE c.state # "failed" /\ row = NoShipment
      BY <1>4, <2>5, <3>2
    <3>3. CASE c.state = "ok" /\ row # NoShipment
      BY <1>2, <1>3, <1>4, <2>1, <3>3 DEF ShipmentCallSound
    <3>4. c.state \in {"ok", "failed"}
      BY <1>3, <2>1 DEF ShipmentCallSound
    <3> QED
      BY <3>1, <3>2, <3>3, <3>4
  <2>7. ShownRowSound(q, server, RemoveAt(calls, i))
    <3>1. /\ ShipmentOf(server).extra = server.extra
          /\ ShipmentOf(server).stored = server.stored
      BY ShipmentOfFields
    <3> QED
      BY <1>9, <2>6, <3>1 DEF ShownRowSound
  <2> QED
    BY <2>4, <2>7
<1>11. "saving" \in q.busy => "saving" \in page.busy /\ calls[i].op \notin CostOps
  BY <1>2, <1>3, <1>9 DEF CostOps
<1> QED
  BY <1>6, <1>9, <1>10, <1>11, ShipmentContinues

LEMMA CostSavedSound ==
    ASSUME ShipmentInv, At("shipment"), NEW i \in DOMAIN calls, CostSaved(i)
    PROVE  ShipmentInv'
<1>1. IsShipmentPage(page) /\ IsShipmentRows(server) /\ Known(calls) /\ lost \in Nat
  BY DEF ShipmentInv
<1>2. PICK row, order, reload, busy, tracker, mixed :
         /\ tracker \in Nat /\ mixed \in BOOLEAN
         /\ page = [row |-> row, order |-> order, reload |-> reload,
                    tracker |-> tracker, busy |-> busy, mixed |-> mixed]
  BY <1>1, ShipmentPageIs
<1>3. calls[i].op \in {"extra", "base"} /\ calls[i].state \in {"ok", "failed"}
  BY DEF CostSaved
<1>4. Undisturbed => Quiet(page, server, calls)
  BY DEF ShipmentInv
\* Only the network makes it fail.
<1>5. CASE calls[i].state = "failed"
  <2>1. PICK q : q = [page EXCEPT !.busy = busy \ {"saving"}]
    OBVIOUS
  <2>2. Continue(i, q, <<>>)
    BY <1>2, <1>5, <2>1 DEF CostSaved
  <2>3. q = [row |-> row, order |-> order, reload |-> reload, tracker |-> tracker,
             busy |-> busy \ {"saving"}, mixed |-> mixed]
    BY <1>2, <2>1
  <2>4. IsShipmentPage(q) /\ q.tracker = page.tracker /\ q.mixed = page.mixed
    BY <1>2, <2>3 DEF IsShipmentPage
  <2>5. ~Undisturbed
    BY <1>3, <1>4, <1>5 DEF Quiet, ShipmentCallSound
  <2> QED
    BY <2>2, <2>4, <2>5, ShipmentContinues
<1>6. CASE calls[i].state = "ok"
  <2>1. PICK c, q : c = ShipmentLoad(page, "saved") /\ q = loadShipment(page)
    OBVIOUS
  <2>2. Continue(i, q, <<c>>)
    BY <1>6, <2>1 DEF CostSaved
  <2>3. q = [row |-> row, order |-> order, reload |-> reload, tracker |-> tracker + 1,
             busy |-> busy, mixed |-> (mixed \/ UnderWay("status"))]
    BY <1>2, <2>1 DEF loadShipment, BeginRequest
  <2>4. /\ IsShipmentPage(q) /\ q.row = row /\ q.tracker = tracker + 1 /\ q.tracker # 0
        /\ q.busy = busy /\ q.mixed = (mixed \/ UnderWay("status"))
    BY <1>2, <2>3 DEF IsShipmentPage
  <2>5. /\ c.op = "shipment" /\ c.arg = "saved" /\ c.kept = tracker + 1
        /\ c.state = "sent" /\ IsCall(c)
    BY <1>2, <2>1 DEF ShipmentLoad, Call, BeginRequest, IsCall
  <2>6. PICK left, new, cs : left = RemoveAt(calls, i) /\ new = <<c>> /\ cs = left \o <<c>>
    OBVIOUS
  <2>7. PICK S : calls \in Seq(S)
    BY <1>1 DEF Known, IsCalls
  <2>8. left \in Seq(S)
    BY <2>6, <2>7, RemovedCalls
  <2>9. Known(calls') /\ page' = q /\ server' = server /\ calls' = cs /\ lost' = lost
    <3>1. new \in Seq({c}) /\ \A k \in DOMAIN new : IsCall(new[k])
      BY <2>5, <2>6
    <3>2. Continue(i, q, new)
      BY <2>2, <2>6
    <3>3. calls' = cs /\ lost' = lost
      BY <2>2, <2>6 DEF Continue
    <3> QED
      BY <1>1, <3>1, <3>2, <3>3, SpokenCalls
  <2>10. ASSUME Undisturbed, ~q.mixed PROVE Quiet(q, server, cs)
    <3>1. Quiet(page, server, calls) /\ "saving" \in busy
      BY <1>2, <1>3, <1>4, <2>10 DEF Quiet, ShipmentCallSound
    <3>2. NoneOf(calls, {"status"})
      BY <2>4, <2>10, UnderWayIs
    <3>3. NoneOf(left, CostOps) /\ NoneOf(left, {"status"})
      <4>1. calls[i].op \in CostOps
        BY <1>3 DEF CostOps
      <4>2. OnceOf(calls, CostOps)
        BY <3>1 DEF Quiet
      <4>3. \A ops : /\ OnceOf(calls, ops) /\ calls[i].op \in ops => NoneOf(left, ops)
                     /\ NoneOf(calls, ops) => NoneOf(left, ops)
        BY <2>6, <2>7, WithoutOne
      <4> QED
        BY <3>2, <4>1, <4>2, <4>3
    <3>4. DOMAIN left = {}
      <4>1. \A k \in DOMAIN left : left[k].op \in CostOps \union {"status"}
        <5>1. \A k \in DOMAIN left : \E m \in DOMAIN calls : m # i /\ left[k] = calls[m]
          BY <2>6, <2>7, WithoutOne
        <5> QED
          BY <3>1, <5>1 DEF Quiet, ShipmentCallSound
      <4> QED
        BY <3>3, <4>1 DEF NoneOf
    <3>5. /\ OnceOf(cs, CostOps) /\ OnceOf(cs, {"status"})
          /\ NoneOf(cs, {"status"}) /\ ~NoneOf(cs, CostOps)
      <4>1. OnceOf(left, CostOps) /\ OnceOf(left, {"status"})
        BY <3>4 DEF OnceOf
      <4>2. \A ops : /\ OnceOf(left, ops) /\ (c.op \in ops => NoneOf(left, ops))
                           => OnceOf(cs, ops)
                     /\ NoneOf(cs, ops) <=> NoneOf(left, ops) /\ c.op \notin ops
        BY <2>6, <2>8, WithOneMore
      <4>3. c.op \in CostOps /\ c.op \notin {"status"}
        BY <2>5 DEF CostOps
      <4> QED
        BY <3>3, <4>1, <4>2, <4>3
    <3>6. ShipmentCallSound(c, q, server)
      BY <2>4, <2>5, <3>1 DEF ShipmentCallSound, CostOps
    <3>7. \A j \in DOMAIN cs : cs[j] = c
      BY <2>6, <2>8, <3>4
    <3>8. ShownRowSound(q, server, cs)
      BY <1>2, <2>4, <3>1 DEF Quiet, ShownRowSound
    <3> QED
      BY <2>4, <3>1, <3>5, <3>6, <3>7, <3>8 DEF Quiet
  <2>11. ~q.mixed => ~page.mixed
    BY <1>2, <2>4
  <2> QED
    BY <1>1, <2>4, <2>9, <2>10, <2>11, ShipmentGoesOn DEF Undisturbed
<1> QED
  BY <1>3, <1>5, <1>6

LEMMA ShipmentStart ==
    ASSUME ShipmentInit
    PROVE  ShipmentInv
<1>1. PICK p, s : /\ p = [row |-> NoShipment, order |-> "NONE", reload |-> FALSE,
                          tracker |-> 0, busy |-> {}, mixed |-> FALSE]
                  /\ s = [status |-> "PENDING", pro |-> 0, base |-> 1, extra |-> 0,
                          stored |-> 0, order |-> "CONFIRMED", others |-> 0]
                  /\ page = p /\ server = s /\ calls = <<>> /\ lost = 0
  BY DEF ShipmentInit, Mount
<1>2. IsShipmentPage(p) /\ p.row = NoShipment /\ p.busy = {}
  BY <1>1 DEF IsShipmentPage
<1>3. IsShipmentRows(s) /\ s.stored = s.extra
  BY <1>1 DEF IsShipmentRows
<1>4. IsShipment(NoShipment) /\ NoShipment.status = "NONE"
  BY DEF IsShipment, NoShipment
<1>5. Known(calls) /\ DOMAIN calls = {}
  BY <1>1, NoCalls
<1>6. Quiet(p, s, calls)
  BY <1>1, <1>2, <1>3, <1>4, <1>5 DEF Quiet, ShownRowSound, OnceOf, NoneOf
<1> QED
  BY <1>1, <1>2, <1>3, <1>5, <1>6 DEF ShipmentInv

LEMMA ShipmentAlways == Spec => []ShipmentInv
<1>1. Init => ShipmentInv
  <2>1. Init /\ At("shipment") => ShipmentInit
    BY MountedAtStart DEF Init, At
  <2> QED
    BY <2>1, ShipmentStart DEF ShipmentInv
<1>2. ShipmentInv /\ [Next]_vars => ShipmentInv'
  <2> SUFFICES ASSUME ShipmentInv, [Next]_vars PROVE ShipmentInv'
    OBVIOUS
  <2>1. CASE ~At("shipment")
    BY <2>1, StaysMounted DEF ShipmentInv, At
  <2>2. CASE At("shipment") /\ ShipmentStep
    BY <2>2, OpenShipmentSound, OrderLoadedSound, updateStatusSound, CostSubmitSound,
       OtherShippingSound DEF ShipmentStep
  <2>3. ASSUME At("shipment"), NEW i \in DOMAIN calls, ShipmentReturn(i) PROVE ShipmentInv'
    BY <2>3, ShipmentLoadedSound, StatusUpdatedSound, CostSavedSound DEF ShipmentReturn
  <2>4. CASE At("shipment") /\ Next
    BY <2>2, <2>3, <2>4, OnShipment, ShipmentServeSound, ShipmentLoseSound
  <2>5. CASE UNCHANGED vars
    BY <2>5 DEF vars, ShipmentInv, At, Known, IsCalls, Undisturbed
  <2> QED
    BY <2>1, <2>4, <2>5
<1> QED
  BY <1>1, <1>2, PTL DEF Spec

\* An edit of the base amounts sends the sum of the additional costs that the
\* page computed along, and the service stores it as it is; the card is locked
\* from any save of costs until it was reloaded, so the sum is the right one.
THEOREM StoredAdditionalStaysSum ==
    Spec => []StoredAdditionalIsSum
<1>1. ShipmentInv => StoredAdditionalIsSum
  BY DEF ShipmentInv, Quiet, StoredAdditionalIsSum
<1> QED
  BY <1>1, ShipmentAlways, PTL

\* The status shown before its answer and the row that is put back when it is
\* refused never outlive their call: at rest the page shows the stored
\* shipment, with every cost that was saved meanwhile.
THEOREM SettledShipmentsAreCurrent ==
    Spec => []SettledShipmentIsCurrent
<1>1. ShipmentInv => SettledShipmentIsCurrent
  <2> SUFFICES ASSUME ShipmentInv, Shown, Undisturbed, calls = <<>>
               PROVE  page.row = ShipmentOf(server)
    BY DEF SettledShipmentIsCurrent
  <2>1. Quiet(page, server, calls) /\ page.row.status # "NONE"
    BY DEF ShipmentInv, Shown
  <2>2. \A ops : NoneOf(calls, ops)
    BY DEF NoneOf
  <2> QED
    BY <2>1, <2>2 DEF Quiet, ShownRowSound
<1> QED
  BY <1>1, ShipmentAlways, PTL

-----------------------------------------------------------------------------
(* The form of a new order or lead.                                         *)

IsCreateRows(s) == s = [next |-> s.next, others |-> s.others] /\ s.others \in Nat

IsCreatePage(p) ==
    /\ p = [kind |-> p.kind, open |-> p.open, mount |-> p.mount, make |-> p.make,
            models |-> p.models, run |-> p.run, number |-> p.number, busy |-> p.busy,
            unknown |-> p.unknown]
    /\ p.mount \in Nat /\ p.run \in Nat

ModelsOffered(p) ==
    (p.open /\ "models" \notin p.busy /\ ~p.unknown) => p.models = p.make

\* The last lookup of the present form is for the make it shows.
LookupSound(c, p) ==
    /\ c.kept.mount \in Nat /\ c.kept.run \in Nat /\ c.kept.mount <= p.mount
    /\ c.kept.mount = p.mount =>
          /\ c.kept.run <= p.run
          /\ (c.op = "models" /\ c.kept.run = p.run) => c.arg = p.make
    /\ c.state \in {"sent", "ok", "failed"}
    /\ (c.op = "models" /\ c.state = "ok") => Head(c.body) = c.arg

\* A save that succeeded will close the form, whichever is open by then.
StoredNew(c) == c.op = "create" /\ c.state = "ok"

\* An order form has the next number or has asked for it, unless a save that
\* moved the number on is going to close it.
NumberKnown(p, s, cs) ==
    /\ \A i \in DOMAIN cs : cs[i].op = "number" => cs[i].state \in {"sent", "ok"}
    /\ (p.open /\ p.kind = "order" /\ \A i \in DOMAIN cs : ~StoredNew(cs[i])) =>
          /\ \A i \in DOMAIN cs :
                (cs[i].op = "number" /\ cs[i].kept.mount = p.mount /\ cs[i].state = "ok")
                    => Head(cs[i].body) = s.next
          /\ \/ p.number = s.next
             \/ \E i \in DOMAIN cs : cs[i].op = "number" /\ cs[i].kept.mount = p.mount

CreateInv ==
    At("create") =>
        /\ IsCreateRows(server) /\ IsCreatePage(page) /\ Known(calls) /\ lost \in Nat
        /\ ModelsOffered(page) /\ \A i \in DOMAIN calls : LookupSound(calls[i], page)
        /\ (server.others = 0 /\ lost = 0) => NumberKnown(page, server, calls)

\* The form goes on, looks up another make, or is a new one.
Remounts(p, q) ==
    \/ q.mount = p.mount /\ q.run = p.run /\ q.make = p.make
    \/ q.mount = p.mount /\ q.run = p.run + 1
    \/ q.mount = p.mount + 1

LEMMA LookupStays ==
    ASSUME NEW p, IsCreatePage(p), NEW q, IsCreatePage(q), Remounts(p, q),
           NEW c, LookupSound(c, p)
    PROVE  LookupSound(c, q)
<1>1. PICK m \in Nat, r \in Nat, a \in Nat, b \in Nat :
         m = p.mount /\ r = p.run /\ a = c.kept.mount /\ b = c.kept.run
  BY DEF IsCreatePage, LookupSound
<1>2. a <= m /\ (a = m => b <= r)
  BY <1>1 DEF LookupSound
<1>3. CASE q.mount = p.mount /\ q.run = p.run /\ q.make = p.make
  BY <1>3 DEF LookupSound
<1>4. CASE q.mount = p.mount /\ q.run = p.run + 1
  <2>1. a = m => b <= r + 1 /\ b # r + 1
    BY <1>2
  <2>2. c.kept.mount = q.mount => c.kept.run <= q.run /\ c.kept.run # q.run
    BY <1>1, <1>4, <2>1
  <2> QED
    BY <1>4, <2>2 DEF LookupSound
<1>5. CASE q.mount = p.mount + 1
  <2>1. a <= m + 1 /\ a # m + 1
    BY <1>2
  <2>2. c.kept.mount <= q.mount /\ c.kept.mount # q.mount
    BY <1>1, <1>5, <2>1
  <2> QED
    BY <2>2 DEF LookupSound
<1> QED
  BY <1>3, <1>4, <1>5 DEF Remounts

LEMMA CreateGoesOn ==
    ASSUME CreateInv, At("create"), NEW q, IsCreatePage(q), page' = q, ModelsOffered(q),
           Remounts(page, q), Known(calls'), NEW new, OnlyFrom(calls', calls, new),
           \A k \in DOMAIN new : LookupSound(new[k], q),
           NEW t, IsCreateRows(t), server' = t, lost' \in Nat,
           (t.others = 0 /\ lost' = 0) => NumberKnown(q, t, calls')
    PROVE  CreateInv'
<1>1. \A c : LookupSound(c, page) => LookupSound(c, q)
  BY LookupStays DEF CreateInv
<1>2. \A i \in DOMAIN calls : LookupSound(calls[i], page)
  BY DEF CreateInv
<1>3. \A j \in DOMAIN calls' : LookupSound(calls'[j], q)
  BY <1>1, <1>2 DEF OnlyFrom
<1> QED
  BY <1>3 DEF CreateInv

\* What is asked or answered has nothing to do with the number.
LEMMA NumberStays ==
    ASSUME NEW p, NEW q, NEW s, NEW cs, NEW ds, NumberKnown(p, s, cs),
           \A j \in DOMAIN ds : \/ \E i \in DOMAIN cs : ds[j] = cs[i]
                                \/ ds[j].op # "number" /\ ds[j].state = "sent",
           q.open =>
              /\ p.open /\ q.kind = p.kind /\ q.mount = p.mount /\ q.number = p.number
              /\ \A i \in DOMAIN cs : \/ \E j \in DOMAIN ds : ds[j] = cs[i]
                                      \/ cs[i].op = "number" /\ cs[i].kept.mount # p.mount
                                      \/ cs[i].op # "number" /\ ~StoredNew(cs[i])
    PROVE  NumberKnown(q, s, ds)
<1>1. \A j \in DOMAIN ds : ds[j].op = "number" => ds[j].state \in {"sent", "ok"}
  BY DEF NumberKnown
<1>2. ASSUME q.open, q.kind = "order", \A j \in DOMAIN ds : ~StoredNew(ds[j])
      PROVE  /\ \A j \in DOMAIN ds :
                   (ds[j].op = "number" /\ ds[j].kept.mount = q.mount /\ ds[j].state = "ok")
                       => Head(ds[j].body) = s.next
             /\ \/ q.number = s.next
                \/ \E j \in DOMAIN ds : ds[j].op = "number" /\ ds[j].kept.mount = q.mount
  <2>1. \A i \in DOMAIN cs : ~StoredNew(cs[i])
    BY <1>2 DEF StoredNew
  <2>2. /\ \A i \in DOMAIN cs :
              (cs[i].op = "number" /\ cs[i].kept.mount = p.mount /\ cs[i].state = "ok")
                  => Head(cs[i].body) = s.next
        /\ \/ p.number = s.next
           \/ \E i \in DOMAIN cs : cs[i].op = "number" /\ cs[i].kept.mount = p.mount
    BY <1>2, <2>1 DEF NumberKnown
  <2>3. \A j \in DOMAIN ds :
           (ds[j].op = "number" /\ ds[j].kept.mount = q.mount /\ ds[j].state = "ok")
               => Head(ds[j].body) = s.next
    BY <1>2, <2>2
  <2>4. \/ q.number = s.next
        \/ \E j \in DOMAIN ds : ds[j].op = "number" /\ ds[j].kept.mount = q.mount
    <3>1. CASE p.number = s.next
      BY <1>2, <3>1
    <3>2. ASSUME NEW i \in DOMAIN cs, cs[i].op = "number", cs[i].kept.mount = p.mount
          PROVE  \E j \in DOMAIN ds : ds[j].op = "number" /\ ds[j].kept.mount = q.mount
      BY <1>2, <3>2
    <3> QED
      BY <2>2, <3>1, <3>2
  <2> QED
    BY <2>3, <2>4
<1> QED
  BY <1>1, <1>2 DEF NumberKnown

LEMMA CreatePageIs ==
    ASSUME NEW p, IsCreatePage(p)
    PROVE  \E kind, open, make, models, number, busy, unknown :
           \E mount \in Nat, run \in Nat :
             p = [kind |-> kind, open |-> open, mount |-> mount, make |-> make,
                  models |-> models, run |-> run, number |-> number, busy |-> busy,
                  unknown |-> unknown]
  BY DEF IsCreatePage

\* A call of the present form is added at the end.
LEMMA CreateAsks ==
    ASSUME CreateInv, At("create"), NEW q, IsCreatePage(q), ModelsOffered(q),
           Remounts(page, q), NEW op, op # "number", NEW arg, NEW kept,
           kept = [mount |-> q.mount, run |-> kept.run], kept.run \in Nat,
           kept.run <= q.run, (op = "models" /\ kept.run = q.run) => arg = q.make,
           page.open, q.kind = page.kind, q.mount = page.mount, q.number = page.number,
           Ask(q, <<Call(op, arg, kept)>>)
    PROVE  CreateInv'
<1>1. /\ IsCreatePage(page) /\ IsCreateRows(server) /\ Known(calls) /\ lost \in Nat
      /\ q.mount \in Nat
  BY DEF CreateInv, IsCreatePage
<1>2. PICK c, new : c = Call(op, arg, kept) /\ new = <<c>>
  OBVIOUS
<1>3. c.op = op /\ c.arg = arg /\ c.kept = kept /\ c.state = "sent"
  BY <1>2 DEF Call
<1>4. c.kept.mount = q.mount /\ c.kept.run = kept.run
  BY <1>3
<1>5. LookupSound(c, q)
  BY <1>1, <1>3, <1>4 DEF LookupSound
<1>6. /\ \E T : new \in Seq(T)
      /\ \A k \in DOMAIN new : new[k] = c /\ IsCall(new[k])
  BY <1>2, OneCall
<1>7. /\ Known(calls') /\ OnlyFrom(calls', calls, new) /\ page' = q
      /\ server' = server /\ lost' = lost
  BY <1>1, <1>2, <1>6, AskedMore DEF Ask
<1>8. PICK ds : ds = calls'
  OBVIOUS
<1>9. \A i \in DOMAIN calls : \E j \in DOMAIN ds : ds[j] = calls[i]
  <2>1. PICK S : calls \in Seq(S)
    BY <1>1 DEF Known, IsCalls
  <2>2. ds = calls \o new /\ new \in Seq({c})
    BY <1>2, <1>8 DEF Ask
  <2>3. \A i \in DOMAIN calls : i \in DOMAIN ds /\ ds[i] = calls[i]
    BY <2>1, <2>2
  <2> QED
    BY <2>3
<1>10. \A j \in DOMAIN ds : \/ \E i \in DOMAIN calls : ds[j] = calls[i]
                            \/ ds[j].op # "number" /\ ds[j].state = "sent"
  BY <1>3, <1>6, <1>7, <1>8 DEF OnlyFrom
<1>11. (server.others = 0 /\ lost = 0) => NumberKnown(q, server, ds)
  BY <1>9, <1>10, NumberStays DEF CreateInv
<1> QED
  BY <1>1, <1>5, <1>6, <1>7, <1>8, <1>11, CreateGoesOn

\* The page goes on as q without a call; call i may be answered.
LEMMA CreateContinues ==
    ASSUME CreateInv, At("create"), NEW q, IsCreatePage(q), ModelsOffered(q),
           Remounts(page, q), NEW i \in DOMAIN calls, Continue(i, q, <<>>),
           NumberKnown(page, server, calls) => NumberKnown(q, server, RemoveAt(calls, i))
    PROVE  CreateInv'
<1>1. IsCreateRows(server) /\ Known(calls) /\ lost \in Nat
  BY DEF CreateInv
<1>2. PICK cs, new : cs = RemoveAt(calls, i) /\ new = <<>>
  OBVIOUS
<1>3. PICK S : calls \in Seq(S)
  BY <1>1 DEF Known, IsCalls
<1>4. cs \in Seq(S)
  BY <1>2, <1>3, RemovedCalls
<1>5. Continue(i, q, new) /\ new \in Seq({}) /\ DOMAIN new = {}
  BY <1>2, NoCall
<1>6. calls' = cs \o new /\ server' = server /\ lost' = lost /\ page' = q
  BY <1>2, <1>5 DEF Continue
<1>7. calls' = cs
  BY <1>2, <1>4, <1>6
<1>8. Known(calls') /\ OnlyFrom(calls', calls, new)
  BY <1>1, <1>5, SpokenCalls
<1>9. (server.others = 0 /\ lost = 0) => NumberKnown(q, server, cs)
  BY <1>2 DEF CreateInv
<1> QED
  BY <1>1, <1>5, <1>6, <1>7, <1>8, <1>9, CreateGoesOn

LEMMA CreateBecomes ==
    ASSUME CreateInv, At("create"), NEW q, IsCreatePage(q), ModelsOffered(q),
           Remounts(page, q), Become(q),
           NumberKnown(page, server, calls) => NumberKnown(q, server, calls)
    PROVE  CreateInv'
<1>1. IsCreateRows(server) /\ Known(calls) /\ lost \in Nat
  BY DEF CreateInv
<1>2. PICK new : new = <<>> /\ DOMAIN new = {}
  BY NoCall
<1>3. calls' = calls /\ page' = q /\ server' = server /\ lost' = lost
  BY DEF Become
<1>4. Known(calls') /\ OnlyFrom(calls', calls, new)
  BY <1>1, <1>3 DEF OnlyFrom
<1>5. (server.others = 0 /\ lost = 0) => NumberKnown(q, server, calls)
  BY DEF CreateInv
<1> QED
  BY <1>1, <1>2, <1>3, <1>4, <1>5, CreateGoesOn

LEMMA MountFormSound ==
    ASSUME CreateInv, At("create"), MountForm
    PROVE  CreateInv'
<1>1. /\ IsCreatePage(page) /\ IsCreateRows(server) /\ Known(calls) /\ lost \in Nat
      /\ \A i \in DOMAIN calls : LookupSound(calls[i], page)
  BY DEF CreateInv
<1>2. PICK kind, m : kind = page.kind /\ m = page.mount
  OBVIOUS
<1>3. m \in Nat /\ m + 1 \in Nat
  BY <1>1, <1>2 DEF IsCreatePage
<1>4. PICK n \in Nat : n = m + 1
  BY <1>3
<1>5. PICK p : p = NewForm(kind, n)
  OBVIOUS
<1>6. p = [kind |-> kind, open |-> TRUE, mount |-> n, make |-> "", models |-> "",
           run |-> 0, number |-> 0, busy |-> {}, unknown |-> FALSE]
  BY <1>5 DEF NewForm
<1>7. \A i \in DOMAIN calls : calls[i].kept.mount # n
  <2>1. ASSUME NEW i \in DOMAIN calls PROVE calls[i].kept.mount # n
    <3>1. PICK a \in Nat : a = calls[i].kept.mount
      BY <1>1 DEF LookupSound
    <3>2. a <= m
      BY <1>1, <1>2, <3>1 DEF LookupSound
    <3>3. a # n
      BY <1>3, <1>4, <3>2
    <3> QED
      BY <3>1, <3>3
  <2> QED
    BY <2>1
<1>8. Remounts(page, p)
  BY <1>2, <1>4, <1>6 DEF Remounts
<1>9. IsCreatePage(p) /\ ModelsOffered(p) /\ p.kind = kind
  BY <1>6 DEF IsCreatePage, ModelsOffered
<1>10. CASE kind = "lead"
  <2>1. Become(p)
    BY <1>2, <1>4, <1>5, <1>10 DEF MountForm
  <2>2. NumberKnown(page, server, calls) => NumberKnown(p, server, calls)
    BY <1>9, <1>10 DEF NumberKnown
  <2> QED
    BY <1>8, <1>9, <2>1, <2>2, CreateBecomes
<1>11. CASE kind # "lead"
  <2>1. PICK q, kept : /\ q = [p EXCEPT !.busy = {"number"}]
                       /\ kept = [mount |-> n, run |-> 0]
    OBVIOUS
  <2>2. q = [kind |-> kind, open |-> TRUE, mount |-> n, make |-> "", models |-> "",
             run |-> 0, number |-> 0, busy |-> {"number"}, unknown |-> FALSE]
    BY <1>6, <2>1
  <2>3. PICK c, new : c = Call("number", 0, kept) /\ new = <<c>>
    OBVIOUS
  <2>4. Ask(q, new)
    <3>1. kept = [mount |-> p.mount, run |-> 0]
      BY <1>6, <2>1
    <3> QED
      BY <1>2, <1>4, <1>5, <1>11, <2>1, <2>3, <3>1 DEF MountForm
  <2>5. c.op = "number" /\ c.kept = kept /\ c.state = "sent"
    BY <2>3 DEF Call
  <2>6. c.kept.mount = n /\ c.kept.run = 0 /\ q.mount = n /\ q.run = 0
    <3>1. kept.mount = n /\ kept.run = 0
      BY <2>1
    <3>2. q.mount = n /\ q.run = 0
      BY <2>2
    <3> QED
      BY <2>5, <3>1, <3>2
  <2>7. LookupSound(c, q)
    BY <2>5, <2>6 DEF LookupSound
  <2>8. IsCreatePage(q) /\ ModelsOffered(q) /\ Remounts(page, q)
    BY <1>2, <1>4, <2>2 DEF IsCreatePage, ModelsOffered, Remounts
  <2>9. /\ \E T : new \in Seq(T)
        /\ \A k \in DOMAIN new : new[k] = c /\ IsCall(new[k])
    BY <2>3, OneCall
  <2>10. /\ Known(calls') /\ OnlyFrom(calls', calls, new) /\ page' = q
         /\ server' = server /\ lost' = lost
    BY <1>1, <2>4, <2>9, AskedMore DEF Ask
  <2>11. PICK ds : ds = calls'
    OBVIOUS
  <2>12. \E j \in DOMAIN ds : ds[j] = c
    <3>1. PICK S : calls \in Seq(S)
      BY <1>1 DEF Known, IsCalls
    <3>2. ds = calls \o <<c>> /\ <<c>> \in Seq({c})
      BY <2>3, <2>4, <2>11 DEF Ask
    <3>3. Len(calls) + 1 \in DOMAIN ds /\ ds[Len(calls) + 1] = c
      BY <3>1, <3>2
    <3> QED
      BY <3>3
  <2>13. \A j \in DOMAIN ds : ds[j] = c \/ \E i \in DOMAIN calls : ds[j] = calls[i]
    BY <2>9, <2>10, <2>11 DEF OnlyFrom
  <2>14. NumberKnown(page, server, calls) => NumberKnown(q, server, ds)
    <3> SUFFICES ASSUME NumberKnown(page, server, calls)
                 PROVE  NumberKnown(q, server, ds)
      OBVIOUS
    <3>1. \A j \in DOMAIN ds : ds[j].op = "number" => ds[j].state \in {"sent", "ok"}
      BY <2>5, <2>13 DEF NumberKnown
    <3>2. \A j \in DOMAIN ds :
             ~(ds[j].op = "number" /\ ds[j].kept.mount = q.mount /\ ds[j].state = "ok")
      BY <1>7, <2>5, <2>6, <2>13
    <3>3. \E j \in DOMAIN ds : ds[j].op = "number" /\ ds[j].kept.mount = q.mount
      BY <2>5, <2>6, <2>12
    <3> QED
      BY <3>1, <3>2, <3>3 DEF NumberKnown
  <2>15. (server.others = 0 /\ lost = 0) => NumberKnown(q, server, ds)
    BY <2>14 DEF CreateInv
  <2> QED
    BY <1>1, <2>7, <2>8, <2>9, <2>10, <2>11, <2>15, CreateGoesOn
<1> QED
  BY <1>10, <1>11

LEMMA ChooseMakeSound ==
    ASSUME CreateInv, At("create"), ChooseMake
    PROVE  CreateInv'
<1>1. IsCreatePage(page) /\ page.open
  BY DEF CreateInv, ChooseMake
<1>2. PICK kind, open, old, models, number, busy, unknown, mount, run :
         /\ mount \in Nat /\ run \in Nat
         /\ page = [kind |-> kind, open |-> open, mount |-> mount, make |-> old,
                    models |-> models, run |-> run, number |-> number, busy |-> busy,
                    unknown |-> unknown]
  BY <1>1, CreatePageIs
<1>3. PICK n \in Nat : n = run + 1
  BY <1>2
<1>4. PICK make : LET p == [page EXCEPT !.make = make, !.run = @ + 1]
                  IN  IF make = "" THEN Become([p EXCEPT !.models = "", !.unknown = FALSE])
                      ELSE Ask([p EXCEPT !.busy = @ \union {"models"}],
                               <<Call("models", make, [mount |-> p.mount, run |-> p.run])>>)
  BY DEF ChooseMake
<1>5. PICK p : p = [page EXCEPT !.make = make, !.run = @ + 1]
  OBVIOUS
<1>6. p = [kind |-> kind, open |-> open, mount |-> mount, make |-> make,
           models |-> models, run |-> n, number |-> number, busy |-> busy,
           unknown |-> unknown]
  BY <1>2, <1>3, <1>5
<1>7. CASE make = ""
  <2>1. PICK q : q = [p EXCEPT !.models = "", !.unknown = FALSE]
    OBVIOUS
  <2>2. q = [kind |-> kind, open |-> open, mount |-> mount, make |-> make,
             models |-> "", run |-> n, number |-> number, busy |-> busy,
             unknown |-> FALSE]
    BY <1>6, <2>1
  <2>3. IsCreatePage(q) /\ ModelsOffered(q) /\ Remounts(page, q)
    BY <1>2, <1>3, <1>7, <2>2 DEF IsCreatePage, ModelsOffered, Remounts
  <2>4. q.kind = page.kind /\ q.mount = page.mount /\ q.number = page.number
    BY <1>2, <2>2
  <2>5. NumberKnown(page, server, calls) => NumberKnown(q, server, calls)
    BY <1>1, <2>4, NumberStays
  <2> QED
    BY <1>4, <1>5, <1>7, <2>1, <2>3, <2>5, CreateBecomes
<1>8. CASE make # ""
  <2>1. PICK q, b, kept : /\ b = busy \union {"models"}
                          /\ q = [p EXCEPT !.busy = b]
                          /\ kept = [mount |-> mount, run |-> n]
    OBVIOUS
  <2>2. q = [kind |-> kind, open |-> open, mount |-> mount, make |-> make,
             models |-> models, run |-> n, number |-> number, busy |-> b,
             unknown |-> unknown]
    BY <1>6, <2>1
  <2>3. IsCreatePage(q) /\ ModelsOffered(q) /\ Remounts(page, q)
    <3>0. IsCreatePage(q) /\ q.busy = b
      BY <1>2, <2>2 DEF IsCreatePage
    <3>1. "models" \in q.busy
      BY <2>1, <3>0
    <3>2. q.mount = page.mount /\ q.run = page.run + 1
      BY <1>2, <1>3, <2>2
    <3> QED
      BY <3>0, <3>1, <3>2 DEF ModelsOffered, Remounts
  <2>4. /\ q.kind = page.kind /\ q.mount = page.mount /\ q.number = page.number
        /\ kept = [mount |-> q.mount, run |-> kept.run] /\ kept.run = q.run
        /\ kept.run \in Nat /\ q.make = make
    BY <1>2, <2>1, <2>2
  <2>5. Ask(q, <<Call("models", make, kept)>>)
    <3>1. q = [p EXCEPT !.busy = @ \union {"models"}]
      BY <1>6, <2>1
    <3>2. kept = [mount |-> p.mount, run |-> p.run]
      BY <1>6, <2>1
    <3> QED
      BY <1>4, <1>5, <1>8, <3>1, <3>2
  <2>6. kept.run <= q.run
    BY <2>4
  <2>7. PICK op : op = "models"
    OBVIOUS
  <2>8. Ask(q, <<Call(op, make, kept)>>) /\ op # "number"
    BY <2>5, <2>7
  <2> QED
    BY <1>1, <2>3, <2>4, <2>6, <2>8, CreateAsks
<1> QED
  BY <1>7, <1>8

LEMMA CreateStepSound ==
    ASSUME CreateInv, At("create"), CreateStep
    PROVE  CreateInv'
<1>1. IsCreatePage(page) /\ ModelsOffered(page)
  BY DEF CreateInv
<1>2. PICK kind, open, make, models, number, busy, unknown, mount, run :
         /\ mount \in Nat /\ run \in Nat
         /\ page = [kind |-> kind, open |-> open, mount |-> mount, make |-> make,
                    models |-> models, run |-> run, number |-> number, busy |-> busy,
                    unknown |-> unknown]
  BY <1>1, CreatePageIs
<1>3. CASE DismissForm
  <2>1. PICK q : q = [page EXCEPT !.open = FALSE, !.busy = {}]
    OBVIOUS
  <2>2. q = [kind |-> kind, open |-> FALSE, mount |-> mount, make |-> make,
             models |-> models, run |-> run, number |-> number, busy |-> {},
             unknown |-> unknown]
    BY <1>2, <2>1
  <2>3. IsCreatePage(q) /\ ModelsOffered(q) /\ Remounts(page, q) /\ ~q.open
    BY <1>2, <2>2 DEF IsCreatePage, ModelsOffered, Remounts
  <2>4. NumberKnown(page, server, calls) => NumberKnown(q, server, calls)
    BY <2>3 DEF NumberKnown
  <2> QED
    BY <1>3, <2>1, <2>3, <2>4, CreateBecomes DEF DismissForm
<1>4. CASE SubmitNew
  <2>1. PICK q, b, kept : /\ b = busy \union {"saving"}
                          /\ q = [page EXCEPT !.busy = b]
                          /\ kept = [mount |-> mount, run |-> 0]
    OBVIOUS
  <2>2. q = [kind |-> kind, open |-> open, mount |-> mount, make |-> make,
             models |-> models, run |-> run, number |-> number, busy |-> b,
             unknown |-> unknown]
    BY <1>2, <2>1
  <2>3. IsCreatePage(q) /\ ModelsOffered(q) /\ Remounts(page, q)
    BY <1>1, <1>2, <2>1, <2>2 DEF IsCreatePage, ModelsOffered, Remounts
  <2>4. /\ q.kind = page.kind /\ q.mount = page.mount /\ q.number = page.number
        /\ kept = [mount |-> q.mount, run |-> kept.run] /\ kept.run = 0
        /\ q.run \in Nat
    BY <1>2, <2>1, <2>2
  <2>5. page.open /\ Ask(q, <<Call("create", 0, kept)>>)
    <3>1. q = [page EXCEPT !.busy = @ \union {"saving"}]
      BY <1>2, <2>1
    <3>2. kept = [mount |-> page.mount, run |-> 0]
      BY <1>2, <2>1
    <3> QED
      BY <1>4, <3>1, <3>2 DEF SubmitNew
  <2>6. kept.run <= q.run /\ kept.run \in Nat
    BY <2>4
  <2>7. PICK op, arg : op = "create" /\ arg = 0
    OBVIOUS
  <2>8. Ask(q, <<Call(op, arg, kept)>>) /\ op # "number" /\ op # "models"
    BY <2>5, <2>7
  <2> QED
    BY <2>3, <2>4, <2>5, <2>6, <2>8, CreateAsks
<1>5. CASE OtherOrder
  <2>1. IsCreateRows(server) /\ Known(calls) /\ lost \in Nat
    BY DEF CreateInv
  <2>2. PICK m \in Nat : m = server.others
    BY <2>1 DEF IsCreateRows
  <2>3. m + 1 \in Nat /\ m + 1 # 0
    BY <2>2
  <2>4. PICK next, t : /\ next = server.next + 1
                       /\ t = [next |-> next, others |-> m + 1]
    OBVIOUS
  <2>5. IsCreateRows(t) /\ t.others # 0
    BY <2>3, <2>4 DEF IsCreateRows
  <2>6. server' = t /\ page' = page /\ calls' = calls /\ lost' = lost
    BY <1>5, <2>2, <2>4 DEF OtherOrder, Elsewhere
  <2>7. PICK new : new = <<>> /\ DOMAIN new = {}
    BY NoCall
  <2>8. OnlyFrom(calls', calls, new) /\ Known(calls') /\ Remounts(page, page)
    BY <2>1, <2>6 DEF OnlyFrom, Remounts
  <2> QED
    BY <1>1, <2>1, <2>5, <2>6, <2>7, <2>8, CreateGoesOn
<1> QED
  BY <1>3, <1>4, <1>5, MountFormSound, ChooseMakeSound DEF CreateStep

LEMMA CreateServeSound ==
    ASSUME CreateInv, At("create"), NEW i \in DOMAIN calls, CreateServe(i)
    PROVE  CreateInv'
<1>1. /\ IsCreatePage(page) /\ IsCreateRows(server) /\ Known(calls) /\ lost \in Nat
      /\ ModelsOffered(page) /\ Remounts(page, page)
      /\ \A j \in DOMAIN calls : LookupSound(calls[j], page)
  BY DEF CreateInv, Remounts
\* The answer is b, and the rows become t.
<1>2. ASSUME NEW t, IsCreateRows(t), t.others = server.others, NEW b, Perform(i, t, TRUE, b),
             calls[i].op = "models" => b = calls[i].arg,
             calls[i].op = "number" => b = t.next,
             calls[i].op # "create" => t.next = server.next
      PROVE  CreateInv'
  <2>1. PICK ok \in BOOLEAN : ok = TRUE
    OBVIOUS
  <2>2. Perform(i, t, ok, b)
    BY <1>2, <2>1
  <2>3. /\ Known(calls') /\ page' = page /\ server' = t /\ lost' = lost
        /\ DOMAIN calls' = DOMAIN calls
    BY <1>1, <2>2, ServedAt
  <2>4. PICK d : AnsweredWith(i, d, ok, b)
    BY <1>1, <2>2, ServedAt
  <2>5. /\ d.op = calls[i].op /\ d.kept = calls[i].kept /\ d.arg = calls[i].arg
        /\ d.state = "ok" /\ Head(d.body) = b
    BY <2>1, <2>4 DEF AnsweredWith, Same
  <2>6. PICK ds, new : ds = calls' /\ new = <<d>>
    OBVIOUS
  <2>7. \A j \in DOMAIN ds : ds[j] = IF j = i THEN d ELSE calls[j]
    BY <2>3, <2>4, <2>6 DEF AnsweredWith
  <2>8. OnlyFrom(calls', calls, new)
    <3>1. new[1] = d /\ 1 \in DOMAIN new
      BY <2>6
    <3> QED
      BY <2>3, <2>6, <2>7, <3>1 DEF OnlyFrom
  <2>9. LookupSound(d, page)
    <3>1. LookupSound(calls[i], page)
      BY <1>1
    <3> QED
      BY <1>2, <2>5, <3>1 DEF LookupSound
  <2>10. \A k \in DOMAIN new : LookupSound(new[k], page)
    BY <2>6, <2>9
  <2>11. NumberKnown(page, server, calls) => NumberKnown(page, t, ds)
    <3> SUFFICES ASSUME NumberKnown(page, server, calls)
                 PROVE  NumberKnown(page, t, ds)
      OBVIOUS
    <3>1. \A j \in DOMAIN ds : ds[j].op = "number" => ds[j].state \in {"sent", "ok"}
      BY <2>3, <2>5, <2>6, <2>7 DEF NumberKnown
    <3>2. CASE calls[i].op = "create"
      <4>1. i \in DOMAIN ds /\ StoredNew(ds[i])
        BY <2>3, <2>5, <2>6, <2>7, <3>2 DEF StoredNew
      <4> QED
        BY <3>1, <4>1 DEF NumberKnown
    <3>3. CASE calls[i].op # "create"
      <4>1. (\A j \in DOMAIN ds : ~StoredNew(ds[j]))
               => \A j \in DOMAIN calls : ~StoredNew(calls[j])
        BY <2>3, <2>6, <2>7, <3>3 DEF StoredNew
      <4>2. t.next = server.next
        BY <1>2, <3>3
      <4>3. \A j \in DOMAIN ds : j \in DOMAIN calls /\ ds[j].op = calls[j].op
                                 /\ ds[j].kept = calls[j].kept
        BY <2>3, <2>5, <2>6, <2>7
      <4>4. ASSUME page.open, page.kind = "order", \A j \in DOMAIN ds : ~StoredNew(ds[j])
            PROVE  /\ \A j \in DOMAIN ds :
                         (ds[j].op = "number" /\ ds[j].kept.mount = page.mount
                            /\ ds[j].state = "ok") => Head(ds[j].body) = t.next
                   /\ \/ page.number = t.next
                      \/ \E j \in DOMAIN ds :
                            ds[j].op = "number" /\ ds[j].kept.mount = page.mount
        <5>1. /\ \A j \in DOMAIN calls :
                    (calls[j].op = "number" /\ calls[j].kept.mount = page.mount
                       /\ calls[j].state = "ok") => Head(calls[j].body) = server.next
              /\ \/ page.number = server.next
                 \/ \E j \in DOMAIN calls :
                       calls[j].op = "number" /\ calls[j].kept.mount = page.mount
          BY <4>1, <4>4 DEF NumberKnown
        <5>2. ASSUME NEW j \in DOMAIN ds, ds[j].op = "number",
                     ds[j].kept.mount = page.mount, ds[j].state = "ok"
              PROVE  Head(ds[j].body) = t.next
          <6>1. CASE j = i
            BY <1>2, <2>5, <2>7, <5>2, <6>1
          <6>2. CASE j # i
            BY <2>7, <4>2, <4>3, <5>1, <5>2, <6>2
          <6> QED
            BY <6>1, <6>2
        <5>3. \/ page.number = t.next
              \/ \E j \in DOMAIN ds : ds[j].op = "number" /\ ds[j].kept.mount = page.mount
          BY <2>3, <2>6, <4>2, <4>3, <5>1
        <5> QED
          BY <5>2, <5>3
      <4> QED
        BY <3>1, <4>4 DEF NumberKnown
    <3> QED
      BY <3>2, <3>3
  <2>12. (t.others = 0 /\ lost' = 0) => NumberKnown(page, t, ds)
    BY <1>2, <2>3, <2>11 DEF CreateInv
  <2> QED
    BY <1>1, <1>2, <2>3, <2>6, <2>8, <2>10, <2>12, CreateGoesOn
<1>3. CASE Asked(i, "number") /\ Perform(i, server, TRUE, server.next)
  <2>1. calls[i].op = "number"
    BY <1>3 DEF Asked
  <2> QED
    BY <1>1, <1>2, <1>3, <2>1
<1>4. CASE Asked(i, "models") /\ Perform(i, server, TRUE, calls[i].arg)
  <2>1. calls[i].op = "models"
    BY <1>4 DEF Asked
  <2> QED
    BY <1>1, <1>2, <1>4, <2>1
<1>5. CASE Asked(i, "create") /\ Perform(i, [server EXCEPT !.next = @ + 1], TRUE, <<>>)
  <2>1. PICK next, others : server = [next |-> next, others |-> others] /\ others \in Nat
    BY <1>1 DEF IsCreateRows
  <2>2. PICK m, t : m = next + 1 /\ t = [server EXCEPT !.next = @ + 1]
    OBVIOUS
  <2>3. t = [next |-> m, others |-> others]
    BY <2>1, <2>2
  <2>4. IsCreateRows(t) /\ t.others = server.others
    BY <2>1, <2>3 DEF IsCreateRows
  <2>5. calls[i].op = "create"
    BY <1>5 DEF Asked
  <2> QED
    BY <1>2, <1>5, <2>2, <2>4, <2>5
<1> QED
  BY <1>3, <1>4, <1>5 DEF CreateServe

LEMMA CreateLoseSound ==
    ASSUME CreateInv, At("create"), NEW i \in DOMAIN calls, LoseCall(i)
    PROVE  CreateInv'
<1>1. /\ IsCreatePage(page) /\ IsCreateRows(server) /\ Known(calls) /\ lost \in Nat
      /\ ModelsOffered(page) /\ Remounts(page, page) /\ LookupSound(calls[i], page)
      /\ lost' = lost + 1
  BY DEF CreateInv, LoseCall, Remounts
<1>2. PICK d : /\ Same(calls[i], d) /\ d.state = "failed"
               /\ OnlyFrom(calls', calls, <<d>>)
  BY <1>1, LostCalls
<1>3. Known(calls') /\ page' = page /\ server' = server
  BY <1>1, LostCalls
<1>4. lost' \in Nat /\ lost' # 0
  BY <1>1
<1>5. PICK new : new = <<d>>
  OBVIOUS
<1>6. LookupSound(d, page)
  BY <1>1, <1>2 DEF LookupSound, Same
<1>7. \A k \in DOMAIN new : LookupSound(new[k], page)
  BY <1>5, <1>6
<1> QED
  BY <1>1, <1>2, <1>3, <1>4, <1>5, <1>7, CreateGoesOn

\* A call is gone, the others stand.
LEMMA OthersStand ==
    ASSUME Known(calls), NEW i \in DOMAIN calls, NEW ds, ds = RemoveAt(calls, i)
    PROVE  /\ \A j \in DOMAIN ds : \E k \in DOMAIN calls : ds[j] = calls[k]
           /\ \A k \in DOMAIN calls : k = i \/ \E j \in DOMAIN ds : ds[j] = calls[k]
<1>1. PICK S : calls \in Seq(S)
  BY DEF Known, IsCalls
<1> QED
  BY <1>1, OthersMoveUp

LEMMA NumberLoadedSound ==
    ASSUME CreateInv, At("create"), NEW i \in DOMAIN calls, NumberLoaded(i)
    PROVE  CreateInv'
<1>1. /\ IsCreatePage(page) /\ Known(calls) /\ ModelsOffered(page)
      /\ Remounts(page, page)
  BY DEF CreateInv, Remounts
<1>2. calls[i].op = "number" /\ calls[i].state # "sent"
  BY DEF NumberLoaded
<1>3. PICK kind, open, make, models, number, busy, unknown, mount, run :
         /\ mount \in Nat /\ run \in Nat
         /\ page = [kind |-> kind, open |-> open, mount |-> mount, make |-> make,
                    models |-> models, run |-> run, number |-> number, busy |-> busy,
                    unknown |-> unknown]
  BY <1>1, CreatePageIs
<1>4. PICK ds : ds = RemoveAt(calls, i)
  OBVIOUS
<1>5. /\ \A j \in DOMAIN ds : \E k \in DOMAIN calls : ds[j] = calls[k]
      /\ \A k \in DOMAIN calls : k = i \/ \E j \in DOMAIN ds : ds[j] = calls[k]
  BY <1>1, <1>4, OthersStand
<1>6. CASE calls[i].kept.mount # page.mount \/ ~page.open
  <2>1. Continue(i, page, <<>>)
    BY <1>6 DEF NumberLoaded
  <2>2. NumberKnown(page, server, calls) => NumberKnown(page, server, ds)
    BY <1>2, <1>5, <1>6, NumberStays
  <2> QED
    BY <1>1, <1>4, <2>1, <2>2, CreateContinues
<1>7. CASE ~(calls[i].kept.mount # page.mount \/ ~page.open)
  <2>1. PICK p, b : /\ b = busy \ {"number"}
                    /\ p = [page EXCEPT !.busy = b]
    OBVIOUS
  <2>2. p = [page EXCEPT !.busy = @ \ {"number"}]
    BY <1>3, <2>1
  <2>3. p = [kind |-> kind, open |-> open, mount |-> mount, make |-> make,
             models |-> models, run |-> run, number |-> number, busy |-> b,
             unknown |-> unknown]
    BY <1>3, <2>1
  <2>4. "models" \in b <=> "models" \in busy
    BY <2>1
  <2>5. CASE calls[i].state = "failed"
    <3>1. Continue(i, p, <<>>)
      BY <1>7, <2>2, <2>5 DEF NumberLoaded
    <3>2. ~NumberKnown(page, server, calls)
      BY <1>2, <2>5 DEF NumberKnown
    <3>3. IsCreatePage(p) /\ ModelsOffered(p) /\ Remounts(page, p)
      BY <1>1, <1>3, <2>3, <2>4 DEF IsCreatePage, ModelsOffered, Remounts
    <3> QED
      BY <3>1, <3>2, <3>3, CreateContinues
  <2>6. CASE calls[i].state # "failed"
    <3>1. PICK n, q : n = Body(i) /\ q = [p EXCEPT !.number = Body(i)]
      OBVIOUS
    <3>2. Continue(i, q, <<>>)
      BY <1>7, <2>2, <2>6, <3>1 DEF NumberLoaded
    <3>3. q = [kind |-> kind, open |-> open, mount |-> mount, make |-> make,
               models |-> models, run |-> run, number |-> n, busy |-> b,
               unknown |-> unknown]
      BY <2>3, <3>1
    <3>4. IsCreatePage(q) /\ ModelsOffered(q) /\ Remounts(page, q)
      BY <1>1, <1>3, <2>4, <3>3 DEF IsCreatePage, ModelsOffered, Remounts
    <3>5. q.kind = page.kind /\ q.mount = page.mount /\ q.number = n /\ q.open = page.open
      BY <1>3, <3>3
    <3>6. NumberKnown(page, server, calls) => NumberKnown(q, server, ds)
      <4> SUFFICES ASSUME NumberKnown(page, server, calls)
                   PROVE  NumberKnown(q, server, ds)
        OBVIOUS
      <4>1. \A j \in DOMAIN ds : ds[j].op = "number" => ds[j].state \in {"sent", "ok"}
        BY <1>5 DEF NumberKnown
      <4>2. (\A j \in DOMAIN ds : ~StoredNew(ds[j]))
               => \A k \in DOMAIN calls : ~StoredNew(calls[k])
        BY <1>2, <1>5 DEF StoredNew
      <4>3. ASSUME q.open, q.kind = "order", \A j \in DOMAIN ds : ~StoredNew(ds[j])
            PROVE  /\ \A j \in DOMAIN ds :
                         (ds[j].op = "number" /\ ds[j].kept.mount = q.mount
                            /\ ds[j].state = "ok") => Head(ds[j].body) = server.next
                   /\ q.number = server.next
        <5>1. \A j \in DOMAIN calls :
                 (calls[j].op = "number" /\ calls[j].kept.mount = page.mount
                    /\ calls[j].state = "ok") => Head(calls[j].body) = server.next
          BY <3>5, <4>2, <4>3 DEF NumberKnown
        <5>2. calls[i].state = "ok" /\ calls[i].kept.mount = page.mount
          BY <1>2, <1>7, <2>6 DEF NumberKnown
        <5>3. n = server.next
          BY <1>2, <3>1, <5>1, <5>2 DEF Body
        <5> QED
          BY <1>5, <3>5, <5>1, <5>3
      <4> QED
        BY <4>1, <4>3 DEF NumberKnown
    <3> QED
      BY <1>4, <3>2, <3>4, <3>6, CreateContinues
  <2> QED
    BY <2>5, <2>6
<1> QED
  BY <1>6, <1>7

LEMMA ModelsLoadedSound ==
    ASSUME CreateInv, At("create"), NEW i \in DOMAIN calls, ModelsLoaded(i)
    PROVE  CreateInv'
<1>1. /\ IsCreatePage(page) /\ Known(calls) /\ ModelsOffered(page)
      /\ Remounts(page, page) /\ LookupSound(calls[i], page)
  BY DEF CreateInv, Remounts
<1>2. calls[i].op = "models" /\ calls[i].state # "sent"
  BY DEF ModelsLoaded
<1>3. PICK kind, open, make, models, number, busy, unknown, mount, run :
         /\ mount \in Nat /\ run \in Nat
         /\ page = [kind |-> kind, open |-> open, mount |-> mount, make |-> make,
                    models |-> models, run |-> run, number |-> number, busy |-> busy,
                    unknown |-> unknown]
  BY <1>1, CreatePageIs
<1>4. PICK ds : ds = RemoveAt(calls, i)
  OBVIOUS
<1>5. /\ \A j \in DOMAIN ds : \E k \in DOMAIN calls : ds[j] = calls[k]
      /\ \A k \in DOMAIN calls : k = i \/ \E j \in DOMAIN ds : ds[j] = calls[k]
  BY <1>1, <1>4, OthersStand
\* The page goes on as q, with the form and its number as they are.
<1>6. ASSUME NEW q, IsCreatePage(q), ModelsOffered(q), Remounts(page, q),
             q.open = page.open, q.kind = page.kind, q.mount = page.mount,
             q.number = page.number, Continue(i, q, <<>>)
      PROVE  CreateInv'
  <2>1. calls[i].op # "number" /\ ~StoredNew(calls[i])
    BY <1>2 DEF StoredNew
  <2>2. NumberKnown(page, server, calls) => NumberKnown(q, server, ds)
    BY <1>5, <1>6, <2>1, NumberStays
  <2> QED
    BY <1>4, <1>6, <2>2, CreateContinues
<1>7. PICK present : present = [mount |-> mount, run |-> run]
  OBVIOUS
<1>8. CASE ~page.open \/ calls[i].kept # present
  <2>1. Continue(i, page, <<>>)
    BY <1>3, <1>7, <1>8 DEF ModelsLoaded
  <2> QED
    BY <1>1, <1>6, <2>1
<1>9. CASE ~(~page.open \/ calls[i].kept # present)
  <2>1. PICK p, b : /\ b = busy \ {"models"}
                    /\ p = [page EXCEPT !.busy = b]
    OBVIOUS
  <2>2. p = [page EXCEPT !.busy = @ \ {"models"}]
    BY <1>3, <2>1
  <2>3. p = [kind |-> kind, open |-> open, mount |-> mount, make |-> make,
             models |-> models, run |-> run, number |-> number, busy |-> b,
             unknown |-> unknown]
    BY <1>3, <2>1
  <2>4. CASE calls[i].state = "failed"
    <3>1. PICK q, yes : yes = TRUE /\ q = [p EXCEPT !.unknown = yes]
      OBVIOUS
    <3>2. Continue(i, q, <<>>)
      BY <1>3, <1>7, <1>9, <2>2, <2>4, <3>1 DEF ModelsLoaded
    <3>3. q = [kind |-> kind, open |-> open, mount |-> mount, make |-> make,
               models |-> models, run |-> run, number |-> number, busy |-> b,
               unknown |-> yes]
      BY <2>3, <3>1
    <3>4. /\ IsCreatePage(q) /\ q.unknown = yes /\ Remounts(page, q)
          /\ q.open = page.open /\ q.kind = page.kind /\ q.mount = page.mount
          /\ q.number = page.number
      BY <1>3, <3>3 DEF IsCreatePage, Remounts
    <3>5. ModelsOffered(q)
      BY <3>1, <3>4 DEF ModelsOffered
    <3> QED
      BY <1>6, <3>2, <3>4, <3>5
  <2>5. CASE calls[i].state # "failed"
    <3>1. PICK q, m, no : no = FALSE /\ m = Body(i) /\ q = [p EXCEPT !.models = m, !.unknown = no]
      OBVIOUS
    <3>2. Continue(i, q, <<>>)
      BY <1>3, <1>7, <1>9, <2>2, <2>5, <3>1 DEF ModelsLoaded
    <3>3. q = [kind |-> kind, open |-> open, mount |-> mount, make |-> make,
               models |-> m, run |-> run, number |-> number, busy |-> b,
               unknown |-> no]
      BY <2>3, <3>1
    <3>4. m = make
      <4>1. calls[i].kept.mount = page.mount /\ calls[i].kept.run = page.run
        BY <1>3, <1>7, <1>9
      <4>2. calls[i].arg = make
        BY <1>1, <1>2, <1>3, <4>1 DEF LookupSound
      <4> QED
        BY <1>1, <1>2, <2>5, <3>1, <4>2 DEF LookupSound, Body
    <3>5. /\ IsCreatePage(q) /\ ModelsOffered(q) /\ Remounts(page, q)
          /\ q.open = page.open /\ q.kind = page.kind /\ q.mount = page.mount
          /\ q.number = page.number
      BY <1>3, <3>3, <3>4 DEF IsCreatePage, ModelsOffered, Remounts
    <3> QED
      BY <1>6, <3>2, <3>5
  <2> QED
    BY <2>4, <2>5
<1> QED
  BY <1>8, <1>9

LEMMA CreateAnsweredSound ==
    ASSUME CreateInv, At("create"), NEW i \in DOMAIN calls, CreateAnswered(i)
    PROVE  CreateInv'
<1>1. /\ IsCreatePage(page) /\ Known(calls) /\ ModelsOffered(page)
      /\ Remounts(page, page)
  BY DEF CreateInv, Remounts
<1>2. calls[i].op = "create" /\ calls[i].state # "sent"
  BY DEF CreateAnswered
<1>3. PICK kind, open, make, models, number, busy, unknown, mount, run :
         /\ mount \in Nat /\ run \in Nat
         /\ page = [kind |-> kind, open |-> open, mount |-> mount, make |-> make,
                    models |-> models, run |-> run, number |-> number, busy |-> busy,
                    unknown |-> unknown]
  BY <1>1, CreatePageIs
<1>4. PICK ds : ds = RemoveAt(calls, i)
  OBVIOUS
<1>5. /\ \A j \in DOMAIN ds : \E k \in DOMAIN calls : ds[j] = calls[k]
      /\ \A k \in DOMAIN calls : k = i \/ \E j \in DOMAIN ds : ds[j] = calls[k]
  BY <1>1, <1>4, OthersStand
<1>6. CASE calls[i].state = "ok"
  <2>1. PICK q, no, none : no = FALSE /\ none = {}
                           /\ q = [page EXCEPT !.open = no, !.busy = none]
    OBVIOUS
  <2>2. Continue(i, q, <<>>)
    BY <1>6, <2>1 DEF CreateAnswered
  <2>3. q = [kind |-> kind, open |-> no, mount |-> mount, make |-> make,
             models |-> models, run |-> run, number |-> number, busy |-> none,
             unknown |-> unknown]
    BY <1>3, <2>1
  <2>4. IsCreatePage(q) /\ q.open = no /\ Remounts(page, q)
    BY <1>3, <2>3 DEF IsCreatePage, Remounts
  <2>5. ~q.open
    BY <2>1, <2>4
  <2>6. ModelsOffered(q)
    BY <2>5 DEF ModelsOffered
  <2>7. NumberKnown(page, server, calls) => NumberKnown(q, server, ds)
    BY <1>5, <2>5, NumberStays
  <2> QED
    BY <1>4, <2>2, <2>4, <2>6, <2>7, CreateContinues
<1>7. ASSUME NEW q, IsCreatePage(q), ModelsOffered(q), Remounts(page, q),
             q.open = page.open, q.kind = page.kind, q.mount = page.mount,
             q.number = page.number, Continue(i, q, <<>>), calls[i].state # "ok"
      PROVE  CreateInv'
  <2>1. calls[i].op # "number" /\ ~StoredNew(calls[i])
    BY <1>2, <1>7 DEF StoredNew
  <2>2. NumberKnown(page, server, calls) => NumberKnown(q, server, ds)
    BY <1>5, <1>7, <2>1, NumberStays
  <2> QED
    BY <1>4, <1>7, <2>2, CreateContinues
<1>8. CASE calls[i].state # "ok" /\ calls[i].kept.mount # page.mount
  <2>1. Continue(i, page, <<>>)
    BY <1>8 DEF CreateAnswered
  <2> QED
    BY <1>1, <1>7, <1>8, <2>1
<1>9. CASE calls[i].state # "ok" /\ calls[i].kept.mount = page.mount
  <2>1. PICK q, b : b = busy \ {"saving"} /\ q = [page EXCEPT !.busy = b]
    OBVIOUS
  <2>2. q = [page EXCEPT !.busy = @ \ {"saving"}]
    BY <1>3, <2>1
  <2>3. Continue(i, q, <<>>)
    BY <1>9, <2>2 DEF CreateAnswered
  <2>4. q = [kind |-> kind, open |-> open, mount |-> mount, make |-> make,
             models |-> models, run |-> run, number |-> number, busy |-> b,
             unknown |-> unknown]
    BY <1>3, <2>1
  <2>5. "models" \in b <=> "models" \in busy
    BY <2>1
  <2>6. /\ IsCreatePage(q) /\ ModelsOffered(q) /\ Remounts(page, q)
        /\ q.open = page.open /\ q.kind = page.kind /\ q.mount = page.mount
        /\ q.number = page.number
    BY <1>1, <1>3, <2>4, <2>5 DEF IsCreatePage, ModelsOffered, Remounts
  <2> QED
    BY <1>7, <1>9, <2>3, <2>6
<1> QED
  BY <1>6, <1>8, <1>9

\* A form that is mounted is open, and knows its kind and its mount only.
LEMMA FirstForm ==
    ASSUME NEW kind
    PROVE  \E yes, no, zero, nil, none :
             /\ yes = TRUE /\ no = FALSE /\ zero = 0 /\ nil = "" /\ none = {}
             /\ NewForm(kind, 0) =
                  [kind |-> kind, open |-> yes, mount |-> zero, make |-> nil,
                   models |-> nil, run |-> zero, number |-> zero, busy |-> none,
                   unknown |-> no]
<1>1. WITNESS TRUE, FALSE, 0, "", {}
<1> QED
  BY DEF NewForm

LEMMA CreateStart ==
    ASSUME CreateInit
    PROVE  CreateInv
<1>1. PICK kind, s : /\ s = [next |-> 1, others |-> 0]
                     /\ page = [NewForm(kind, 0) EXCEPT !.open = FALSE]
                     /\ server = s /\ calls = <<>> /\ lost = 0
  BY DEF CreateInit, Mount
<1>a. PICK f : f = NewForm(kind, 0)
  OBVIOUS
<1>b. PICK yes, no, zero, nil, none :
        /\ yes = TRUE /\ no = FALSE /\ zero = 0 /\ nil = "" /\ none = {}
        /\ f = [kind |-> kind, open |-> yes, mount |-> zero, make |-> nil,
                models |-> nil, run |-> zero, number |-> zero, busy |-> none,
                unknown |-> no]
  BY <1>a, FirstForm
<1>2. PICK p : p = [kind |-> kind, open |-> no, mount |-> zero, make |-> nil,
                    models |-> nil, run |-> zero, number |-> zero, busy |-> none,
                    unknown |-> no]
  OBVIOUS
<1>3. page = p
  <2>1. page = [f EXCEPT !.open = no]
    BY <1>1, <1>a, <1>b, Zenon
  <2>2. f = [kind |-> kind, open |-> yes, mount |-> zero, make |-> nil,
             models |-> nil, run |-> zero, number |-> zero, busy |-> none,
             unknown |-> no]
    BY <1>b, Zenon
  <2> QED
    BY <1>2, <2>1, <2>2
<1>4. IsCreatePage(p) /\ p.open = no
  BY <1>b, <1>2 DEF IsCreatePage
<1>5. ~p.open
  BY <1>b, <1>4
<1>6. ModelsOffered(p)
  BY <1>5 DEF ModelsOffered
<1>7. IsCreateRows(s)
  BY <1>1 DEF IsCreateRows
<1>8. Known(calls) /\ DOMAIN calls = {}
  BY <1>1, NoCalls
<1>9. NumberKnown(p, s, calls)
  BY <1>5, <1>8 DEF NumberKnown
<1> QED
  BY <1>1, <1>3, <1>4, <1>6, <1>7, <1>8, <1>9 DEF CreateInv

LEMMA CreateAlways == Spec => []CreateInv
<1>1. Init => CreateInv
  <2>1. Init /\ At("create") => CreateInit
    BY MountedAtStart DEF Init, At
  <2> QED
    BY <2>1, CreateStart DEF CreateInv
<1>2. CreateInv /\ [Next]_vars => CreateInv'
  <2> SUFFICES ASSUME CreateInv, [Next]_vars PROVE CreateInv'
    OBVIOUS
  <2>1. CASE ~At("create")
    BY <2>1, StaysMounted DEF CreateInv, At
  <2>2. ASSUME At("create"), NEW i \in DOMAIN calls, CreateReturn(i) PROVE CreateInv'
    BY <2>2, NumberLoadedSound, ModelsLoadedSound, CreateAnsweredSound DEF CreateReturn
  <2>3. CASE At("create") /\ Next
    BY <2>2, <2>3, OnCreate, CreateStepSound, CreateServeSound, CreateLoseSound
  <2>4. CASE UNCHANGED vars
    BY <2>4 DEF vars, CreateInv, At, Known, IsCalls
  <2> QED
    BY <2>1, <2>3, <2>4
<1> QED
  BY <1>1, <1>2, PTL DEF Spec

\* However fast makes are chosen and forms closed and opened again, the
\* models that are offered are those of the make: the run of the effect is
\* numbered within its form, and only the answer to the last one is taken.
THEOREM OfferedModelsBelong ==
    Spec => []ModelsBelongToMake
<1>1. CreateInv => ModelsBelongToMake
  BY DEF CreateInv, ModelsOffered, ModelsBelongToMake
<1> QED
  BY <1>1, CreateAlways, PTL

\* An order form at rest shows the number that comes next, although a form
\* may be opened while the save of another is under way: the answer to that
\* save closes it.
THEOREM NextNumberIsShown ==
    Spec => []NumberShownIsNext
<1>1. CreateInv => NumberShownIsNext
  <2> SUFFICES ASSUME CreateInv, At("create"), page.open, page.kind = "order",
                      calls = <<>>, server.others = 0, lost = 0
               PROVE  page.number = server.next
    BY DEF NumberShownIsNext
  <2>1. DOMAIN calls = {} /\ NumberKnown(page, server, calls)
    BY NoCalls DEF CreateInv
  <2> QED
    BY <2>1 DEF NumberKnown
<1> QED
  BY <1>1, CreateAlways, PTL

-----------------------------------------------------------------------------
(* The dashboard.                                                           *)

IsDashboard(p) ==
    /\ p = [tab |-> p.tab, mode |-> p.mode, month |-> p.month, from |-> p.from,
            to |-> p.to, filter |-> p.filter, leadStatus |-> p.leadStatus,
            tracker |-> p.tracker, data |-> p.data, busy |-> p.busy, error |-> p.error]
    /\ p.tracker \in Nat /\ p.tab \in Tabs /\ p.data = [tab \in Tabs |-> p.data[tab]]

\* The effect of the open tab is the last one that asked.
EffectSound(c, p) ==
    /\ c.kept \in Nat /\ c.kept <= p.tracker
    /\ c.kept = p.tracker => c.op = p.tab /\ c.arg = TabQuery(p)

TabSound(p) ==
    (p.tracker > 0 /\ p.tab \notin p.busy /\ p.tab \notin p.error) =>
        Head(p.data[p.tab]).query = TabQuery(p)

\* The rows say what day it is.
DayKnown(s) == "zone" \in DOMAIN s /\ "now" \in DOMAIN s

DashboardInv ==
    At("dashboard") =>
        /\ DayKnown(server)
        /\ IsDashboard(page) /\ Known(calls) /\ TabSound(page)
        /\ \A i \in DOMAIN calls : EffectSound(calls[i], page)

\* A query depends on the choices of the page and on the day.
LEMMA QueryOnly ==
    ASSUME NEW p, NEW q, q.tab = p.tab, q.mode = p.mode, q.month = p.month,
           q.from = p.from, q.to = p.to, q.filter = p.filter,
           q.leadStatus = p.leadStatus
    PROVE  TabQuery(q) = TabQuery(p)
  BY DEF TabQuery, buildDashboardPeriodQuery

LEMMA DayStands ==
    ASSUME server'.zone = server.zone, server'.now = server.now, NEW p
    PROVE  TabQuery(p)' = TabQuery(p)
<1>1. Today' = Today
  BY DEF Today
<1>2. buildDashboardPeriodQuery(p)' = buildDashboardPeriodQuery(p)
  BY <1>1 DEF buildDashboardPeriodQuery
<1> QED
  BY <1>2 DEF TabQuery

LEMMA DashboardGoesOn ==
    ASSUME server'.zone = server.zone, server'.now = server.now,
           DayKnown(server'), NEW q, IsDashboard(q), page' = q, Known(calls'), TabSound(q),
           \A j \in DOMAIN calls' : EffectSound(calls'[j], q)
    PROVE  DashboardInv'
<1>1. TabQuery(q)' = TabQuery(q)
  BY DayStands
<1>2. TabSound(page)'
  BY <1>1 DEF TabSound
<1>3. (\A i \in DOMAIN calls : EffectSound(calls[i], page))'
  BY <1>1 DEF EffectSound
<1> QED
  BY <1>2, <1>3 DEF DashboardInv

LEMMA DashboardIs ==
    ASSUME NEW p, IsDashboard(p)
    PROVE  \E mode, month, from, to, filter, leadStatus, data, busy, error :
           \E tab \in Tabs, tracker \in Nat :
             /\ p = [tab |-> tab, mode |-> mode, month |-> month, from |-> from,
                     to |-> to, filter |-> filter, leadStatus |-> leadStatus,
                     tracker |-> tracker, data |-> data, busy |-> busy, error |-> error]
             /\ data = [t \in Tabs |-> data[t]]
  BY DEF IsDashboard

\* The effect of the open tab runs on the page p, which differs from the
\* present one in its choices only.
LEMMA LoadTabSound ==
    ASSUME DashboardInv, At("dashboard"), NEW p, IsDashboard(p),
           p.tracker = page.tracker, LoadTab(p)
    PROVE  DashboardInv'
<1>1. IsDashboard(page) /\ Known(calls) /\ DayKnown(server)
  BY DEF DashboardInv
<1>2. PICK mode, month, from, to, filter, leadStatus, data, busy, error, tab, tracker :
         /\ tab \in Tabs /\ tracker \in Nat
         /\ p = [tab |-> tab, mode |-> mode, month |-> month, from |-> from,
                 to |-> to, filter |-> filter, leadStatus |-> leadStatus,
                 tracker |-> tracker, data |-> data, busy |-> busy, error |-> error]
         /\ data = [t \in Tabs |-> data[t]]
  BY DashboardIs
<1>3. PICK n, b, e : n = tracker + 1 /\ b = busy \union {tab} /\ e = error \ {tab}
  OBVIOUS
<1>4. n \in Nat
  BY <1>2, <1>3
<1>5. PICK q : q = [p EXCEPT !.tracker = n, !.busy = b, !.error = e]
  OBVIOUS
<1>6. q = [tab |-> tab, mode |-> mode, month |-> month, from |-> from,
           to |-> to, filter |-> filter, leadStatus |-> leadStatus,
           tracker |-> n, data |-> data, busy |-> b, error |-> e]
  BY <1>2, <1>5
<1>7. PICK query : query = TabQuery(p)
  OBVIOUS
<1>8. TabQuery(q) = query
  <2>1. /\ q.tab = p.tab /\ q.mode = p.mode /\ q.month = p.month
        /\ q.from = p.from /\ q.to = p.to /\ q.filter = p.filter
        /\ q.leadStatus = p.leadStatus
    BY <1>2, <1>6
  <2> QED
    BY <1>7, <2>1, QueryOnly
<1>9. PICK c, new : c = Call(tab, query, n) /\ new = <<c>>
  OBVIOUS
<1>10. Ask(q, new)
  <2>1. q = [p EXCEPT !.tracker = BeginRequest(@), !.busy = @ \union {p.tab},
                      !.error = @ \ {p.tab}]
    BY <1>2, <1>3, <1>5 DEF BeginRequest
  <2>2. c = Call(p.tab, TabQuery(p), BeginRequest(p.tracker))
    BY <1>2, <1>3, <1>7, <1>9 DEF BeginRequest
  <2> QED
    BY <1>9, <2>1, <2>2 DEF LoadTab
<1>11. /\ \E T : new \in Seq(T)
       /\ \A k \in DOMAIN new : new[k] = c /\ IsCall(new[k])
  BY <1>9, OneCall
<1>12. /\ Known(calls') /\ OnlyFrom(calls', calls, new) /\ page' = q
       /\ server' = server
  BY <1>1, <1>10, <1>11, AskedMore
<1>13. q.tracker = n /\ q.tab = tab /\ tab \in q.busy /\ IsDashboard(q)
  <2>1. q.busy = b /\ q.tracker = n /\ q.tab = tab /\ q.data = data
    BY <1>6
  <2> QED
    BY <1>2, <1>3, <1>4, <1>6, <2>1 DEF IsDashboard
<1>14. EffectSound(c, q)
  <2>1. c.op = tab /\ c.arg = query /\ c.kept = n
    BY <1>9 DEF Call
  <2> QED
    BY <1>4, <1>8, <1>13, <2>1 DEF EffectSound
<1>15. ASSUME NEW i \in DOMAIN calls PROVE EffectSound(calls[i], q)
  <2>1. EffectSound(calls[i], page)
    BY DEF DashboardInv
  <2>2. PICK a \in Nat : a = calls[i].kept /\ a <= tracker
    BY <1>2, <2>1 DEF EffectSound
  <2>3. a <= n /\ a # n
    BY <1>2, <1>3, <2>2
  <2> QED
    BY <1>13, <2>2, <2>3 DEF EffectSound
<1>16. \A j \in DOMAIN calls' : EffectSound(calls'[j], q)
  BY <1>11, <1>12, <1>14, <1>15 DEF OnlyFrom
<1>17. TabSound(q)
  BY <1>13 DEF TabSound
<1> QED
  BY <1>1, <1>12, <1>13, <1>16, <1>17, DashboardGoesOn


\* Going back to the first page changes the filter only.
LEMMA FirstPageIs ==
    ASSUME NEW p, IsDashboard(p)
    PROVE  IsDashboard(FirstPage(p)) /\ FirstPage(p).tracker = p.tracker
<1>1. PICK mode, month, from, to, filter, leadStatus, data, busy, error, tab, tracker :
         /\ tab \in Tabs /\ tracker \in Nat
         /\ p = [tab |-> tab, mode |-> mode, month |-> month, from |-> from,
                 to |-> to, filter |-> filter, leadStatus |-> leadStatus,
                 tracker |-> tracker, data |-> data, busy |-> busy, error |-> error]
         /\ data = [t \in Tabs |-> data[t]]
  BY DashboardIs
<1>2. PICK f, q : f = [p.filter EXCEPT !.page = 1] /\ q = FirstPage(p)
  OBVIOUS
<1>3. q = [p EXCEPT !.filter = f]
  BY <1>1, <1>2 DEF FirstPage
<1>4. q = [tab |-> tab, mode |-> mode, month |-> month, from |-> from,
           to |-> to, filter |-> f, leadStatus |-> leadStatus,
           tracker |-> tracker, data |-> data, busy |-> busy, error |-> error]
  BY <1>1, <1>3
<1>5. q.tracker = tracker /\ q.tab = tab /\ q.data = data
  BY <1>4
<1> QED
  BY <1>1, <1>2, <1>4, <1>5 DEF IsDashboard

\* What the user chooses keeps the rest of the page.
LEMMA ChoicesStand ==
    ASSUME NEW p, IsDashboard(p), NEW q, NEW t \in Tabs, NEW x, NEW y,
           \/ q = [p EXCEPT !.tab = t]
           \/ q = [p EXCEPT !.mode = x]
           \/ q = [p EXCEPT !.month = x]
           \/ q = [p EXCEPT !.from = x, !.to = y]
           \/ q = [p EXCEPT !.to = x, !.from = y]
           \/ q = [p EXCEPT !.filter = x]
           \/ q = [p EXCEPT !.leadStatus = x]
    PROVE  IsDashboard(q) /\ q.tracker = p.tracker
<1>1. PICK mode, month, from, to, filter, leadStatus, data, busy, error, tab, tracker :
         /\ tab \in Tabs /\ tracker \in Nat
         /\ p = [tab |-> tab, mode |-> mode, month |-> month, from |-> from,
                 to |-> to, filter |-> filter, leadStatus |-> leadStatus,
                 tracker |-> tracker, data |-> data, busy |-> busy, error |-> error]
         /\ data = [u \in Tabs |-> data[u]]
  BY DashboardIs
<1> DEFINE Chosen(tb, mo, mn, fr, o, fi, ls) ==
             [tab |-> tb, mode |-> mo, month |-> mn, from |-> fr, to |-> o,
              filter |-> fi, leadStatus |-> ls, tracker |-> tracker,
              data |-> data, busy |-> busy, error |-> error]
<1>2. PICK tb, mo, mn, fr, o, fi, ls : tb \in Tabs /\ q = Chosen(tb, mo, mn, fr, o, fi, ls)
  <2> HIDE DEF Chosen
  <2>1. CASE q = [p EXCEPT !.tab = t]
    <3>1. q = Chosen(t, mode, month, from, to, filter, leadStatus)
      BY <1>1, <2>1 DEF Chosen
    <3> QED
      BY <1>1, <3>1
  <2>2. CASE q = [p EXCEPT !.mode = x]
    <3>1. q = Chosen(tab, x, month, from, to, filter, leadStatus)
      BY <1>1, <2>2 DEF Chosen
    <3> QED
      BY <1>1, <3>1
  <2>3. CASE q = [p EXCEPT !.month = x]
    <3>1. q = Chosen(tab, mode, x, from, to, filter, leadStatus)
      BY <1>1, <2>3 DEF Chosen
    <3> QED
      BY <1>1, <3>1
  <2>4. CASE q = [p EXCEPT !.from = x, !.to = y]
    <3>1. q = Chosen(tab, mode, month, x, y, filter, leadStatus)
      BY <1>1, <2>4 DEF Chosen
    <3> QED
      BY <1>1, <3>1
  <2>5. CASE q = [p EXCEPT !.to = x, !.from = y]
    <3>1. q = Chosen(tab, mode, month, y, x, filter, leadStatus)
      BY <1>1, <2>5 DEF Chosen
    <3> QED
      BY <1>1, <3>1
  <2>6. CASE q = [p EXCEPT !.filter = x]
    <3>1. q = Chosen(tab, mode, month, from, to, x, leadStatus)
      BY <1>1, <2>6 DEF Chosen
    <3> QED
      BY <1>1, <3>1
  <2>7. CASE q = [p EXCEPT !.leadStatus = x]
    <3>1. q = Chosen(tab, mode, month, from, to, filter, x)
      BY <1>1, <2>7 DEF Chosen
    <3> QED
      BY <1>1, <3>1
  <2> QED
    BY <2>1, <2>2, <2>3, <2>4, <2>5, <2>6, <2>7
<1>3. q.tracker = tracker /\ q.tab = tb /\ q.data = data /\ p.tracker = tracker
  BY <1>1, <1>2
<1> QED
  BY <1>1, <1>2, <1>3 DEF IsDashboard

LEMMA ChoosesSound ==
    ASSUME DashboardInv, At("dashboard"), NEW p, NEW t \in Tabs, NEW x, NEW y,
           \/ p = [page EXCEPT !.tab = t]
           \/ p = [page EXCEPT !.mode = x]
           \/ p = [page EXCEPT !.month = x]
           \/ p = [page EXCEPT !.from = x, !.to = y]
           \/ p = [page EXCEPT !.to = x, !.from = y]
           \/ p = [page EXCEPT !.filter = x]
           \/ p = [page EXCEPT !.leadStatus = x],
           LoadTab(p) \/ LoadTab(FirstPage(p))
    PROVE  DashboardInv'
<1>1. IsDashboard(page)
  BY DEF DashboardInv
<1>2. PICK r : r = page
  OBVIOUS
<1>3. IsDashboard(p) /\ p.tracker = page.tracker
  BY <1>1, <1>2, ChoicesStand
<1>4. PICK f : f = FirstPage(p)
  OBVIOUS
<1>5. IsDashboard(f) /\ f.tracker = page.tracker
  BY <1>3, <1>4, FirstPageIs
<1> QED
  BY <1>3, <1>4, <1>5, LoadTabSound, Zenon


\* A delivery leaves the day as it is.
LEMMA SameDay ==
    ASSUME NEW s, DayKnown(s), NEW t, NEW n, NEW x, NEW y,
           t = [s EXCEPT !.others = n, !.orders[1].status = x,
                         !.orders[1].deliveredAt = y]
    PROVE  t.zone = s.zone /\ t.now = s.now /\ DOMAIN t = DOMAIN s
  BY DEF DayKnown

LEMMA DashboardStepSound ==
    ASSUME DashboardInv, At("dashboard"), DashboardStep
    PROVE  DashboardInv'
<1>1. IsDashboard(page) /\ Known(calls) /\ DayKnown(server)
  BY DEF DashboardInv
<1>2. PICK any \in Tabs : TRUE
  BY DEF Tabs
<1>3. CASE LoadTab(page)
  <2>1. PICK p : p = page
    OBVIOUS
  <2> QED
    BY <1>1, <1>3, <2>1, LoadTabSound
<1>4. CASE ChooseTab
  <2>1. PICK tab \in Tabs : LoadTab([page EXCEPT !.tab = tab])
    BY <1>4 DEF ChooseTab
  <2>2. PICK p : p = [page EXCEPT !.tab = tab]
    OBVIOUS
  <2> QED
    BY <2>1, <2>2, ChoosesSound, Zenon
<1>5. CASE ChoosePeriod
  <2>1. CASE \E mode : LoadTab(FirstPage([page EXCEPT !.mode = mode]))
    <3>1. PICK mode : LoadTab(FirstPage([page EXCEPT !.mode = mode]))
      BY <2>1
    <3>2. PICK p : p = [page EXCEPT !.mode = mode]
      OBVIOUS
    <3> QED
      BY <1>2, <3>1, <3>2, ChoosesSound, Zenon
  <2>2. CASE LoadTab(FirstPage([page EXCEPT !.month = 3 - page.month]))
    <3>1. PICK p, x : x = 3 - page.month /\ p = [page EXCEPT !.month = x]
      OBVIOUS
    <3> QED
      BY <1>2, <2>2, <3>1, ChoosesSound, Zenon
  <2> QED
    BY <1>5, <2>1, <2>2 DEF ChoosePeriod
<1>6. CASE ChooseStart
  <2>1. PICK day, y : LoadTab(FirstPage([page EXCEPT !.from = day, !.to = y]))
    BY <1>6 DEF ChooseStart
  <2>2. PICK p : p = [page EXCEPT !.from = day, !.to = y]
    OBVIOUS
  <2> QED
    BY <1>2, <2>1, <2>2, ChoosesSound, Zenon
<1>7. CASE ChooseEnd
  <2>1. PICK day, y : LoadTab(FirstPage([page EXCEPT !.to = day, !.from = y]))
    BY <1>7 DEF ChooseEnd
  <2>2. PICK p : p = [page EXCEPT !.to = day, !.from = y]
    OBVIOUS
  <2> QED
    BY <1>2, <2>1, <2>2, ChoosesSound, Zenon
<1>8. CASE FilterOrders
  <2>1. PICK change : LoadTab(FirstPage([page EXCEPT !.filter = change @@ @]))
    BY <1>8 DEF FilterOrders
  <2>2. PICK p, f : /\ f = change @@ page.filter
                    /\ p = [page EXCEPT !.filter = change @@ @]
    OBVIOUS
  <2>3. p = [page EXCEPT !.filter = f]
    BY <2>2
  <2> QED
    BY <1>2, <2>1, <2>2, <2>3, ChoosesSound, Zenon
<1>9. CASE TurnOrders
  <2>1. PICK to : LoadTab([page EXCEPT !.filter.page = to])
    BY <1>9 DEF TurnOrders
  <2>2. PICK p, f : /\ f = [page.filter EXCEPT !.page = to]
                    /\ p = [page EXCEPT !.filter.page = to]
    OBVIOUS
  <2>3. p = [page EXCEPT !.filter = f]
    BY <2>2
  <2> QED
    BY <1>2, <2>1, <2>2, <2>3, ChoosesSound, Zenon
<1>10. CASE FilterLeads
  <2>1. PICK p, x : x = "PROSPECT" /\ p = [page EXCEPT !.leadStatus = x]
    OBVIOUS
  <2> QED
    BY <1>2, <1>10, <2>1, ChoosesSound, Zenon DEF FilterLeads
<1>11. CASE OtherDelivery
  <2>1. PICK n, x, y : n = server.others + 1 /\ x = "DELIVERED" /\ y = server.now
    OBVIOUS
  <2>2. /\ server' = [server EXCEPT !.others = n, !.orders[1].status = x,
                                    !.orders[1].deliveredAt = y]
        /\ page' = page /\ calls' = calls
    BY <1>11, <2>1 DEF OtherDelivery, Elsewhere
  <2>3. PICK t : t = server'
    OBVIOUS
  <2>4. t.zone = server.zone /\ t.now = server.now /\ DOMAIN t = DOMAIN server
    BY <1>1, <2>2, <2>3, SameDay
  <2>5. PICK p : p = page
    OBVIOUS
  <2>6. DayKnown(t) /\ TabSound(p) /\ \A j \in DOMAIN calls : EffectSound(calls[j], p)
    BY <1>1, <2>4, <2>5 DEF DayKnown, DashboardInv
  <2> QED
    BY <1>1, <2>2, <2>3, <2>4, <2>5, <2>6, DashboardGoesOn
<1> QED
  BY <1>3, <1>4, <1>5, <1>6, <1>7, <1>8, <1>9, <1>10, <1>11
     DEF DashboardStep, OpenDashboard, RetryDashboard

LEMMA DashboardServeSound ==
    ASSUME DashboardInv, At("dashboard"), NEW i \in DOMAIN calls,
           DashboardServe(i) \/ LoseCall(i)
    PROVE  DashboardInv'
<1>1. IsDashboard(page) /\ Known(calls) /\ DayKnown(server) /\ TabSound(page)
  BY DEF DashboardInv
<1>2. PICK none : none = <<>>
  OBVIOUS
<1>3. DOMAIN none = {}
  BY <1>2, NoCall
<1>4. CASE Known(calls') /\ FurtherOn(calls', calls, none) /\ page' = page /\ server' = server
  <2>1. PICK p : p = page
    OBVIOUS
  <2>2. \A j \in DOMAIN calls' : EffectSound(calls'[j], p)
    BY <1>3, <1>4, <2>1 DEF FurtherOn, Same, EffectSound, DashboardInv
  <2> QED
    BY <1>1, <1>4, <2>1, <2>2, DashboardGoesOn
<1>5. ASSUME NEW ok \in BOOLEAN, NEW b, Perform(i, server, ok, b)
      PROVE  DashboardInv'
  <2>1. PICK s : s = server
    OBVIOUS
  <2> QED
    BY <1>1, <1>2, <1>4, <1>5, <2>1, ServedCalls
<1>6. ASSUME NEW b, Perform(i, server, TRUE, b)
      PROVE  DashboardInv'
  <2>1. PICK yes \in BOOLEAN : yes = TRUE
    OBVIOUS
  <2> QED
    BY <1>5, <1>6, <2>1
<1>7. CASE Refuse(i)
  <2>1. PICK no, b : no \in BOOLEAN /\ no = FALSE /\ b = <<>>
    OBVIOUS
  <2> QED
    BY <1>5, <1>7, <2>1 DEF Refuse
<1>8. CASE LoseCall(i)
  BY <1>1, <1>2, <1>4, <1>8, LostCalls
<1>9. CASE DashboardServe(i)
  <2>1. PICK a, b, c : /\ a = getSalesOverview(server, calls[i].arg)
                       /\ b = getOrderStatus(server, calls[i].arg)
                       /\ c = getAgentLeads(server, calls[i].arg)
    OBVIOUS
  <2> QED
    BY <1>6, <1>7, <1>9, <2>1 DEF DashboardServe
<1> QED
  BY <1>8, <1>9


\* The continuation of a call makes no call of its own.
LEMMA DashboardContinues ==
    ASSUME DashboardInv, At("dashboard"), NEW i \in DOMAIN calls, NEW q,
           Continue(i, q, <<>>), IsDashboard(q), TabSound(q),
           q.tracker = page.tracker, TabQuery(q) = TabQuery(page), q.tab = page.tab
    PROVE  DashboardInv'
<1>1. Known(calls) /\ DayKnown(server)
  BY DEF DashboardInv
<1>2. PICK none : none = <<>>
  OBVIOUS
<1>3. none \in Seq({}) /\ DOMAIN none = {}
  BY <1>2, NoCall
<1>4. /\ Known(calls') /\ FurtherOn(calls', calls, none)
      /\ page' = q /\ server' = server
  BY <1>1, <1>2, <1>3, SpokenCalls
<1>5. \A j \in DOMAIN calls' : EffectSound(calls'[j], q)
  BY <1>3, <1>4 DEF FurtherOn, Same, EffectSound, DashboardInv
<1> QED
  BY <1>1, <1>4, <1>5, DashboardGoesOn

LEMMA DashboardReturnSound ==
    ASSUME DashboardInv, At("dashboard"), NEW i \in DOMAIN calls, DashboardReturn(i)
    PROVE  DashboardInv'
<1>1. /\ IsDashboard(page) /\ Known(calls) /\ TabSound(page)
      /\ EffectSound(calls[i], page)
  BY DEF DashboardInv
<1>2. PICK mode, month, from, to, filter, leadStatus, data, busy, error, tab, tracker :
         /\ tab \in Tabs /\ tracker \in Nat
         /\ page = [tab |-> tab, mode |-> mode, month |-> month, from |-> from,
                    to |-> to, filter |-> filter, leadStatus |-> leadStatus,
                    tracker |-> tracker, data |-> data, busy |-> busy, error |-> error]
         /\ data = [t \in Tabs |-> data[t]]
  BY <1>1, DashboardIs
<1>3. CASE calls[i].kept # page.tracker
  <2>1. Continue(i, page, <<>>)
    BY <1>3 DEF DashboardReturn, DashboardAnswered, IsCurrentRequest
  <2>2. PICK p : p = page
    OBVIOUS
  <2> QED
    BY <1>1, <2>1, <2>2, DashboardContinues
<1>4. CASE calls[i].kept = page.tracker
  <2>1. calls[i].op = tab /\ calls[i].arg = TabQuery(page)
    <3>1. page.tab = tab
      BY <1>2
    <3> QED
      BY <1>1, <1>4, <3>1 DEF EffectSound
  <2>2. PICK query : query = TabQuery(page)
    OBVIOUS
  <2>3. PICK b, e, entry, d, p : /\ b = busy \ {tab} /\ e = error \union {tab}
                              /\ entry = <<[query |-> query, body |-> Body(i)]>>
                              /\ d = [data EXCEPT ![tab] = entry]
                              /\ p = [page EXCEPT !.busy = b]
    OBVIOUS
  <2>4. p = [tab |-> tab, mode |-> mode, month |-> month, from |-> from,
             to |-> to, filter |-> filter, leadStatus |-> leadStatus,
             tracker |-> tracker, data |-> data, busy |-> b, error |-> error]
    BY <1>2, <2>3
  <2>5. p = [page EXCEPT !.busy = @ \ {calls[i].op}]
    BY <1>2, <2>1, <2>3
  \* The page goes on as q, with its choices as they are.
  <2>6. ASSUME NEW q, NEW d1, NEW e1, d1 = [t \in Tabs |-> d1[t]],
               q = [tab |-> tab, mode |-> mode, month |-> month, from |-> from,
                    to |-> to, filter |-> filter, leadStatus |-> leadStatus,
                    tracker |-> tracker, data |-> d1, busy |-> b, error |-> e1],
               Continue(i, q, <<>>),
               tab \in e1 \/ Head(d1[tab]).query = query
        PROVE  DashboardInv'
    <3>1. /\ q.tab = tab /\ q.mode = mode /\ q.month = month
          /\ q.from = from /\ q.to = to /\ q.filter = filter
          /\ q.leadStatus = leadStatus /\ q.tracker = tracker
          /\ q.data = d1 /\ q.error = e1
      BY <2>6
    <3>2. /\ page.tab = tab /\ page.mode = mode /\ page.month = month
          /\ page.from = from /\ page.to = to /\ page.filter = filter
          /\ page.leadStatus = leadStatus /\ page.tracker = tracker
      BY <1>2
    <3>3. PICK r : r = page
      OBVIOUS
    <3>4. TabQuery(q) = query
      BY <2>2, <3>1, <3>2, <3>3, QueryOnly
    <3>5. IsDashboard(q)
      BY <1>2, <2>6, <3>1 DEF IsDashboard
    <3>6. TabSound(q)
      BY <2>6, <3>1, <3>4 DEF TabSound
    <3> QED
      BY <2>2, <2>6, <3>1, <3>2, <3>4, <3>5, <3>6, DashboardContinues
  <2>7. CASE calls[i].state = "ok"
    <3>1. PICK q : q = [p EXCEPT !.data[tab] = entry]
      OBVIOUS
    <3>2. Continue(i, q, <<>>)
      BY <1>4, <2>1, <2>2, <2>3, <2>5, <2>7, <3>1
         DEF DashboardReturn, DashboardAnswered, IsCurrentRequest
    <3>3. q = [p EXCEPT !.data = d]
      <4>1. p.data = data
        BY <2>4
      <4>2. d = [p.data EXCEPT ![tab] = entry]
        BY <2>3, <4>1
      <4> QED
        BY <3>1, <4>2
    <3>4. q = [tab |-> tab, mode |-> mode, month |-> month, from |-> from,
               to |-> to, filter |-> filter, leadStatus |-> leadStatus,
               tracker |-> tracker, data |-> d, busy |-> b, error |-> error]
      BY <2>4, <3>3
    <3>5. d = [t \in Tabs |-> d[t]] /\ d[tab] = entry
      BY <1>2, <2>3
    <3>6. Head(entry).query = query
      BY <2>3
    <3> QED
      BY <2>6, <3>2, <3>4, <3>5, <3>6
  <2>8. CASE calls[i].state # "ok"
    <3>1. PICK q : q = [p EXCEPT !.error = e]
      OBVIOUS
    <3>2. q = [p EXCEPT !.error = @ \union {tab}]
      <4>1. p.error = error
        BY <2>4
      <4>2. e = p.error \union {tab}
        BY <2>3, <4>1
      <4> QED
        BY <3>1, <4>2
    <3>3. Continue(i, q, <<>>)
      BY <1>4, <2>1, <2>5, <2>8, <3>2
         DEF DashboardReturn, DashboardAnswered, IsCurrentRequest
    <3>4. q = [tab |-> tab, mode |-> mode, month |-> month, from |-> from,
               to |-> to, filter |-> filter, leadStatus |-> leadStatus,
               tracker |-> tracker, data |-> data, busy |-> b, error |-> e]
      BY <2>4, <3>1
    <3>5. tab \in e
      BY <2>3
    <3> QED
      BY <1>2, <2>6, <3>3, <3>4, <3>5
  <2> QED
    BY <2>7, <2>8
<1> QED
  BY <1>3, <1>4

LEMMA DashboardStart ==
    ASSUME DashboardInit
    PROVE  DashboardInv
<1>1. PICK zone, at :
        /\ page = [tab |-> "sales-overview", mode |-> "month",
                   month |-> MonthOf(4), from |-> 4, to |-> 4, filter |-> NoFilter,
                   leadStatus |-> "ALL", tracker |-> 0,
                   data |-> [t \in Tabs |-> <<>>], busy |-> {}, error |-> {}]
        /\ server = DashboardRows(zone, at) /\ calls = <<>>
  BY DEF DashboardInit, Mount
<1>2. page.tracker = 0 /\ page.tab = "sales-overview" /\ page.data = [t \in Tabs |-> <<>>]
  BY <1>1
<1>3. /\ page = [tab |-> page.tab, mode |-> page.mode, month |-> page.month,
                 from |-> page.from, to |-> page.to, filter |-> page.filter,
                 leadStatus |-> page.leadStatus, tracker |-> page.tracker,
                 data |-> page.data, busy |-> page.busy, error |-> page.error]
      /\ page.data = [t \in Tabs |-> page.data[t]]
  BY <1>1, <1>2
<1>4. IsDashboard(page) /\ TabSound(page)
  BY <1>2, <1>3 DEF IsDashboard, TabSound, Tabs
<1>5. DayKnown(server)
  BY <1>1 DEF DayKnown, DashboardRows
<1>6. Known(calls) /\ DOMAIN calls = {}
  BY <1>1, NoCalls
<1> QED
  BY <1>4, <1>5, <1>6 DEF DashboardInv

LEMMA DashboardAlways == Spec => []DashboardInv
<1>1. Init => DashboardInv
  <2>1. Init /\ At("dashboard") => DashboardInit
    BY MountedAtStart DEF Init, At
  <2> QED
    BY <2>1, DashboardStart DEF DashboardInv
<1>2. DashboardInv /\ [Next]_vars => DashboardInv'
  <2> SUFFICES ASSUME DashboardInv, [Next]_vars PROVE DashboardInv'
    OBVIOUS
  <2>1. CASE ~At("dashboard")
    BY <2>1, StaysMounted DEF DashboardInv, At
  <2>2. CASE At("dashboard") /\ Next
    BY <2>2, OnDashboard, DashboardStepSound, DashboardServeSound, DashboardReturnSound
  <2>3. CASE At("dashboard") /\ UNCHANGED vars
    <3>1. PICK p : p = page
      OBVIOUS
    <3>2. /\ page' = p /\ calls' = calls /\ server' = server
          /\ DayKnown(server) /\ IsDashboard(p) /\ TabSound(p) /\ Known(calls)
          /\ \A j \in DOMAIN calls : EffectSound(calls[j], p)
      BY <2>3, <3>1 DEF vars, DashboardInv
    <3>3. DayKnown(server') /\ Known(calls') /\ \A j \in DOMAIN calls' : EffectSound(calls'[j], p)
      BY <3>2
    <3> QED
      BY <3>2, <3>3, DashboardGoesOn
  <2> QED
    BY <2>1, <2>2, <2>3
<1> QED
  BY <1>1, <1>2, PTL DEF Spec

\* However fast tabs, periods and filters are chosen, a tab that neither
\* loads nor failed shows the answer to what its choices ask for: the cleanup
\* of an effect drops its answer before the next effect asks.
THEOREM DashboardAlwaysShowsChoice ==
    Spec => []DashboardShowsChoice
<1>1. DashboardInv => DashboardShowsChoice
  BY DEF DashboardInv, TabSound, DashboardShowsChoice, DashboardOpen, Updating
<1> QED
  BY <1>1, DashboardAlways, PTL

-----------------------------------------------------------------------------
(* The page of one order.                                                   *)

IsOrderRows(s) ==
    /\ s = [invoice |-> s.invoice, status |-> s.status, refund |-> s.refund,
            others |-> s.others]
    /\ s.others \in Nat

IsOrderPage(p) ==
    /\ p = [tracker |-> p.tracker, order |-> p.order, panel |-> p.panel, full |-> p.full,
            form |-> p.form, draft |-> p.draft, popup |-> p.popup, busy |-> p.busy,
            failed |-> p.failed, mixed |-> p.mixed]
    /\ p.tracker \in Nat

OrderCallSound(c, p) ==
    /\ c.kept \in Nat /\ c.kept <= p.tracker
    /\ c.state \in {"sent", "ok", "failed"}

ChangeOps == SaveOps \union {"cancel", "refund"}

\* A change is stored whose answer will reload the order.
Unreported(H) == \E c \in H : c.op \in ChangeOps /\ c.state = "ok"

ShownOrder(p, s) == p.order = StoredOrder(s) /\ p.panel = s.invoice

Reloaded(p, H) == \E c \in H : c.op = "order" /\ c.kept = p.tracker

\* The answers that the panel now on the screen will take.
AnswersCurrent(p, s, H) ==
    \A c \in H : (c.state = "ok" /\ c.kept = p.tracker) =>
        /\ c.op = "order" => Head(c.body) = StoredOrder(s)
        /\ c.op = "full" => Head(c.body) = s.invoice

NoLoadFailed(H) == \A c \in H : c.op = "order" => c.state # "failed"

OrderQuiet(p, s, H) ==
    /\ NoLoadFailed(H)
    /\ \/ Unreported(H)
       \/ AnswersCurrent(p, s, H) /\ (ShownOrder(p, s) \/ Reloaded(p, H))

OrderInv ==
    At("order") =>
        /\ IsOrderPage(page) /\ IsOrderRows(server) /\ Known(calls) /\ lost \in Nat
        /\ \A c \in Held(calls) : OrderCallSound(c, page)
        /\ (server.others = 0 /\ lost = 0) => OrderQuiet(page, server, Held(calls))

\* The page keeps what it shows of the order.
KeepsOrder(p, q) ==
    IsOrderPage(q) /\ q.tracker = p.tracker /\ q.order = p.order /\ q.panel = p.panel

LEMMA OrderPageIs ==
    ASSUME NEW p, IsOrderPage(p)
    PROVE  \E order, panel, full, form, draft, popup, busy, failed, mixed :
           \E tracker \in Nat :
             p = [tracker |-> tracker, order |-> order, panel |-> panel, full |-> full,
                  form |-> form, draft |-> draft, popup |-> popup, busy |-> busy,
                  failed |-> failed, mixed |-> mixed]
  BY DEF IsOrderPage

LEMMA KeptField ==
    ASSUME NEW p, IsOrderPage(p), NEW a
    PROVE  /\ KeepsOrder(p, [p EXCEPT !.busy = a])
           /\ KeepsOrder(p, [p EXCEPT !.popup = a])
           /\ KeepsOrder(p, [p EXCEPT !.form = a])
           /\ KeepsOrder(p, [p EXCEPT !.draft = a])
           /\ KeepsOrder(p, [p EXCEPT !.mixed = a])
           /\ KeepsOrder(p, [p EXCEPT !.failed = a])
<1>1. PICK order, panel, full, form, draft, popup, busy, failed, mixed, tracker :
         /\ tracker \in Nat
         /\ p = [tracker |-> tracker, order |-> order, panel |-> panel, full |-> full,
                 form |-> form, draft |-> draft, popup |-> popup, busy |-> busy,
                 failed |-> failed, mixed |-> mixed]
  BY OrderPageIs
<1> DEFINE R(fo, dr, po, bu, fa, mi) ==
             [tracker |-> tracker, order |-> order, panel |-> panel, full |-> full,
              form |-> fo, draft |-> dr, popup |-> po, busy |-> bu, failed |-> fa,
              mixed |-> mi]
<1>2. \A fo, dr, po, bu, fa, mi : KeepsOrder(p, R(fo, dr, po, bu, fa, mi))
  BY <1>1 DEF KeepsOrder, IsOrderPage
<1>3. [p EXCEPT !.busy = a] = R(form, draft, popup, a, failed, mixed)
  BY <1>1
<1>4. [p EXCEPT !.popup = a] = R(form, draft, a, busy, failed, mixed)
  BY <1>1
<1>5. [p EXCEPT !.form = a] = R(a, draft, popup, busy, failed, mixed)
  BY <1>1
<1>6. [p EXCEPT !.draft = a] = R(form, a, popup, busy, failed, mixed)
  BY <1>1
<1>7. [p EXCEPT !.mixed = a] = R(form, draft, popup, busy, failed, a)
  BY <1>1
<1>8. [p EXCEPT !.failed = a] = R(form, draft, popup, busy, a, mixed)
  BY <1>1
<1> HIDE DEF R
<1> QED
  BY <1>2, <1>3, <1>4, <1>5, <1>6, <1>7, <1>8

LEMMA KeptOrder ==
    ASSUME NEW p, IsOrderPage(p), NEW a, NEW b
    PROVE  /\ KeepsOrder(p, [p EXCEPT !.form = a, !.draft = b])
           /\ KeepsOrder(p, [p EXCEPT !.form = a, !.mixed = b])
<1>1. PICK r : r = [p EXCEPT !.form = a]
  OBVIOUS
<1>2. KeepsOrder(p, r) /\ IsOrderPage(r)
  BY <1>1, KeptField DEF KeepsOrder
<1>3. KeepsOrder(r, [r EXCEPT !.draft = b]) /\ KeepsOrder(r, [r EXCEPT !.mixed = b])
  BY <1>2, KeptField
<1>4. /\ [p EXCEPT !.form = a, !.draft = b] = [r EXCEPT !.draft = b]
      /\ [p EXCEPT !.form = a, !.mixed = b] = [r EXCEPT !.mixed = b]
  BY <1>1
<1> QED
  BY <1>2, <1>3, <1>4 DEF KeepsOrder

\* The page shows the order a and the invoice b.
ShowsOrder(p, q, a, b) ==
    IsOrderPage(q) /\ q.tracker = p.tracker /\ q.order = a /\ q.panel = b

LEMMA OrderShownAs ==
    ASSUME NEW p, IsOrderPage(p), NEW a, NEW b
    PROVE  /\ ShowsOrder(p, [p EXCEPT !.order = a, !.panel = b], a, b)
           /\ ShowsOrder(p, [p EXCEPT !.panel = a, !.full = b], p.order, a)
<1>1. PICK q, r : /\ q = [p EXCEPT !.order = a, !.panel = b]
                  /\ r = [p EXCEPT !.panel = a, !.full = b]
  OBVIOUS
<1>2. ShowsOrder(p, q, a, b)
  BY <1>1, OrderPageIs DEF IsOrderPage, ShowsOrder
<1>3. ShowsOrder(p, r, p.order, a)
  BY <1>1, OrderPageIs DEF IsOrderPage, ShowsOrder
<1> QED
  BY <1>1, <1>2, <1>3

LEMMA ReloadOrder ==
    ASSUME NEW p, IsOrderPage(p), NEW m
    PROVE  /\ IsOrderPage(Reload(p)) /\ Reload(p).tracker = p.tracker + 1
           /\ IsOrderPage([Reload(p) EXCEPT !.mixed = m])
           /\ [Reload(p) EXCEPT !.mixed = m].tracker = p.tracker + 1
<1>1. PICK order, panel, full, form, draft, popup, busy, failed, mixed, tracker :
         /\ tracker \in Nat
         /\ p = [tracker |-> tracker, order |-> order, panel |-> panel, full |-> full,
                 form |-> form, draft |-> draft, popup |-> popup, busy |-> busy,
                 failed |-> failed, mixed |-> mixed]
  BY OrderPageIs
<1>2. PICK n, b, none, no : n = tracker + 1 /\ b = {"order"} /\ none = "none" /\ no = FALSE
  OBVIOUS
<1>3. Reload(p) = [p EXCEPT !.tracker = n, !.busy = b, !.form = none, !.popup = none,
                            !.full = no]
  <2>1. p.tracker = tracker
    BY <1>1
  <2> QED
    BY <1>2, <2>1 DEF Reload, BeginRequest
<1>4. PICK r : r = [tracker |-> n, order |-> order, panel |-> panel, full |-> no,
                    form |-> none, draft |-> draft, popup |-> none, busy |-> b,
                    failed |-> failed, mixed |-> mixed]
  OBVIOUS
<1>6. Reload(p) = r
  BY ZenonT(60), <1>1, <1>3, <1>4
<1>7. [r EXCEPT !.mixed = m]
         = [tracker |-> n, order |-> order, panel |-> panel, full |-> no,
            form |-> none, draft |-> draft, popup |-> none, busy |-> b,
            failed |-> failed, mixed |-> m]
  BY <1>4
<1>5. n \in Nat /\ n = p.tracker + 1
  BY <1>1, <1>2
<1> QED
  BY <1>4, <1>5, <1>6, <1>7 DEF IsOrderPage

\* What was asked meanwhile changes nothing, nor does a call that goes and
\* neither announces a change nor loads the order that is shown.
LEMMA QuietStays ==
    ASSUME NEW p, NEW q, q.tracker = p.tracker, q.order = p.order, q.panel = p.panel,
           NEW s, NEW H, OrderQuiet(p, s, H), NEW J,
           \A c \in J : c \in H \/ c.state = "sent",
           \A c \in H : \/ c \in J
                        \/ c.op # "order" /\ (c.op \notin ChangeOps \/ c.state # "ok")
                        \/ c.op = "order" /\ c.kept # p.tracker
    PROVE  OrderQuiet(q, s, J)
<1>1. NoLoadFailed(J)
  BY DEF OrderQuiet, NoLoadFailed
<1>2. Unreported(H) => Unreported(J)
  BY DEF Unreported, ChangeOps, SaveOps
<1>3. AnswersCurrent(p, s, H) => AnswersCurrent(q, s, J)
  BY DEF AnswersCurrent
<1>4. ShownOrder(p, s) => ShownOrder(q, s)
  BY DEF ShownOrder
<1>5. Reloaded(p, H) => Reloaded(q, J)
  BY DEF Reloaded
<1> QED
  BY <1>1, <1>2, <1>3, <1>4, <1>5 DEF OrderQuiet

\* A reload forgets every answer that is still to come.
LEMMA QuietReloads ==
    ASSUME NEW p, p.tracker \in Nat, NEW q, q.tracker = p.tracker + 1,
           NEW s, NEW H, OrderQuiet(p, s, H), \A c \in H : OrderCallSound(c, p),
           NEW n, n.op = "order", n.kept = q.tracker, n.state = "sent",
           NEW J, n \in J, \A c \in J : c \in H \/ c = n
    PROVE  OrderQuiet(q, s, J)
<1>1. NoLoadFailed(J)
  BY DEF OrderQuiet, NoLoadFailed
<1>2. Reloaded(q, J)
  BY DEF Reloaded
<1>3. \A c \in H : c.kept # q.tracker
  BY DEF OrderCallSound
<1>4. AnswersCurrent(q, s, J)
  BY <1>3 DEF AnswersCurrent
<1> QED
  BY <1>1, <1>2, <1>4 DEF OrderQuiet

LEMMA OrderGoesOn ==
    ASSUME OrderInv, At("order"), NEW q, IsOrderPage(q), page' = q,
           q.tracker = page.tracker \/ q.tracker = page.tracker + 1,
           Known(calls'), NEW new, \A c \in new : OrderCallSound(c, q),
           Held(calls') \subseteq Held(calls) \union new,
           NEW t, IsOrderRows(t), server' = t, lost' \in Nat,
           (t.others = 0 /\ lost' = 0) => OrderQuiet(q, t, Held(calls'))
    PROVE  OrderInv'
<1>1. \A c \in Held(calls) : OrderCallSound(c, page)
  BY DEF OrderInv
<1>2. page.tracker \in Nat
  BY DEF OrderInv, IsOrderPage
<1>3. \A c \in Held(calls) : OrderCallSound(c, q)
  BY <1>1, <1>2 DEF OrderCallSound
<1>4. \A c \in Held(calls') : OrderCallSound(c, q)
  BY <1>3
<1> QED
  BY <1>4 DEF OrderInv

LEMMA OrderKnows ==
    ASSUME OrderInv, At("order")
    PROVE  /\ IsOrderPage(page) /\ page.tracker \in Nat /\ IsOrderRows(server)
           /\ Known(calls) /\ lost \in Nat
           /\ \A c \in Held(calls) : OrderCallSound(c, page)
           /\ (server.others = 0 /\ lost = 0) => OrderQuiet(page, server, Held(calls))
  BY DEF OrderInv, IsOrderPage

\* A call of the panel on the screen.
LEMMA OrderAsks ==
    ASSUME OrderInv, At("order"), NEW q, KeepsOrder(page, q), NEW op, NEW arg,
           Ask(q, <<Call(op, arg, page.tracker)>>)
    PROVE  OrderInv'
<1>1. PICK c, new : c = Call(op, arg, page.tracker) /\ new = <<c>>
  OBVIOUS
<1>2. /\ \E T : new \in Seq(T)
      /\ Held(new) = {c} /\ IsCall(c)
  BY <1>1, OneCall, HeldOne
<1>3. c.kept = page.tracker /\ c.state = "sent"
  BY <1>1 DEF Call
<1>4. Ask(q, new)
  BY <1>1
<1>5. /\ Known(calls') /\ Held(calls') = Held(calls) \union {c}
      /\ page' = q /\ server' = server /\ lost' = lost
  BY <1>2, <1>4, OrderKnows, HeldAsked
<1>6. OrderCallSound(c, q)
  BY <1>3, OrderKnows DEF OrderCallSound, KeepsOrder
<1>7. (server.others = 0 /\ lost = 0) => OrderQuiet(q, server, Held(calls'))
  BY <1>3, <1>5, OrderKnows, QuietStays DEF KeepsOrder
<1>8. IsOrderPage(q) /\ q.tracker = page.tracker
  BY DEF KeepsOrder
<1> QED
  BY <1>5, <1>6, <1>7, <1>8, OrderKnows, OrderGoesOn

LEMMA OrderBecomes ==
    ASSUME OrderInv, At("order"), NEW q, KeepsOrder(page, q), Become(q)
    PROVE  OrderInv'
<1>1. calls' = calls /\ page' = q /\ server' = server /\ lost' = lost
  BY DEF Become
<1>2. IsOrderPage(q) /\ q.tracker = page.tracker
  BY DEF KeepsOrder
<1>3. PICK H : H = Held(calls)
  OBVIOUS
<1>4. Held(calls') = H
  BY <1>1, <1>3
<1>5. (server.others = 0 /\ lost = 0) => OrderQuiet(q, server, H)
  BY <1>3, OrderKnows, QuietStays DEF KeepsOrder
<1>6. Known(calls')
  BY <1>1, OrderKnows
<1>7. PICK none : none = {}
  OBVIOUS
<1> QED
  BY <1>1, <1>2, <1>3, <1>4, <1>5, <1>6, <1>7, OrderKnows, OrderGoesOn

LEMMA OpenOrderSound ==
    ASSUME OrderInv, At("order"), OpenOrder
    PROVE  OrderInv'
<1>1. PICK q, n, c, new : /\ q = Reload(page) /\ n = page.tracker + 1
                          /\ c = Call("order", 0, n) /\ new = <<c>>
  OBVIOUS
<1>2. Ask(q, new)
  BY <1>1 DEF OpenOrder, ReloadCall, BeginRequest
<1>3. IsOrderPage(q) /\ q.tracker = n /\ n \in Nat
  <2>1. \A m : IsOrderPage(Reload(page)) /\ Reload(page).tracker = page.tracker + 1
    BY OrderKnows, ReloadOrder
  <2> QED
    BY <1>1, <2>1, OrderKnows
<1>4. /\ \E T : new \in Seq(T)
      /\ Held(new) = {c} /\ IsCall(c)
  BY <1>1, OneCall, HeldOne
<1>5. c.op = "order" /\ c.kept = n /\ c.state = "sent"
  BY <1>1 DEF Call
<1>6. /\ Known(calls') /\ Held(calls') = Held(calls) \union {c}
      /\ page' = q /\ server' = server /\ lost' = lost
  BY <1>2, <1>4, OrderKnows, HeldAsked
<1>7. OrderCallSound(c, q)
  BY <1>3, <1>5 DEF OrderCallSound
<1>8. (server.others = 0 /\ lost = 0) => OrderQuiet(q, server, Held(calls'))
  BY <1>1, <1>3, <1>5, <1>6, OrderKnows, QuietReloads
<1>9. q.tracker = page.tracker + 1
  BY <1>1, <1>3
<1> QED
  BY <1>3, <1>6, <1>7, <1>8, <1>9, OrderKnows, OrderGoesOn

LEMMA OtherInvoiceSound ==
    ASSUME OrderInv, At("order"), OtherInvoice
    PROVE  OrderInv'
<1>1. PICK invoice, status, refund, others :
         /\ server = [invoice |-> invoice, status |-> status, refund |-> refund,
                      others |-> others]
         /\ others \in Nat
  BY OrderKnows DEF IsOrderRows
<1>2. PICK signed, n, t : /\ signed = [invoice EXCEPT !.state = "SIGNED"]
                          /\ n = others + 1
                          /\ t = [server EXCEPT !.invoice.state = "SIGNED",
                                                !.others = @ + 1]
  OBVIOUS
<1>3. t = [invoice |-> signed, status |-> status, refund |-> refund, others |-> n]
  BY <1>1, <1>2
<1>4. n \in Nat /\ n # 0
  BY <1>1, <1>2
<1>5. IsOrderRows(t) /\ t.others # 0
  BY <1>3, <1>4 DEF IsOrderRows
<1>6. server' = t /\ page' = page /\ calls' = calls /\ lost' = lost
  BY <1>2 DEF OtherInvoice, Elsewhere
<1>7. Known(calls') /\ Held(calls') = Held(calls)
  BY <1>6, OrderKnows
<1>8. PICK none : none = {}
  OBVIOUS
<1> QED
  BY <1>5, <1>6, <1>7, <1>8, OrderKnows, OrderGoesOn

LEMMA OrderStepSound ==
    ASSUME OrderInv, At("order"), OrderStep
    PROVE  OrderInv'
<1>1. IsOrderPage(page)
  BY OrderKnows
<1>2. CASE loadFullInvoice
  <2>1. PICK lock, b : /\ b = page.busy \union {"details", lock}
                       /\ Ask([page EXCEPT !.busy = b],
                              <<Call("full", lock, page.tracker)>>)
    BY <1>2 DEF loadFullInvoice
  <2> QED
    BY <1>1, <2>1, KeptField, OrderAsks
<1>3. CASE openGenerateModal
  <2>1. PICK b : Ask([page EXCEPT !.busy = b], <<Call("defaults", 0, page.tracker)>>)
    BY <1>3 DEF openGenerateModal
  <2> QED
    BY <1>1, <2>1, KeptField, OrderAsks
<1>4. CASE openEditModal \/ openCloneModal
  <2>1. PICK form, draft : Become([page EXCEPT !.form = form, !.draft = draft])
    BY <1>4 DEF openEditModal, openCloneModal
  <2> QED
    BY <1>1, <2>1, KeptOrder, OrderBecomes
<1>5. CASE CloseInvoiceForm
  <2>1. PICK form, m : Become([page EXCEPT !.form = form, !.mixed = m])
    BY <1>5 DEF CloseInvoiceForm
  <2> QED
    BY <1>1, <2>1, KeptOrder, OrderBecomes
<1>6. CASE handleSaveInvoice
  <2>1. PICK b, op, arg : Ask([page EXCEPT !.busy = b], <<Call(op, arg, page.tracker)>>)
    BY <1>6 DEF handleSaveInvoice
  <2> QED
    BY <1>1, <2>1, KeptField, OrderAsks
<1>7. CASE handleSignatureAction
  <2>1. PICK b : Ask([page EXCEPT !.busy = b], <<Call("resend", 0, page.tracker)>>)
    BY <1>7 DEF handleSignatureAction
  <2> QED
    BY <1>1, <2>1, KeptField, OrderAsks
<1>8. CASE openResolution \/ resetModal
  <2>1. PICK popup : Become([page EXCEPT !.popup = popup])
    BY <1>8 DEF openResolution, resetModal
  <2> QED
    BY <1>1, <2>1, KeptField, OrderBecomes
<1>9. CASE handleResolutionSubmit
  <2>1. PICK b, op, arg : Ask([page EXCEPT !.busy = b], <<Call(op, arg, page.tracker)>>)
    BY <1>9 DEF handleResolutionSubmit
  <2> QED
    BY <1>1, <2>1, KeptField, OrderAsks
<1> QED
  BY <1>2, <1>3, <1>4, <1>5, <1>6, <1>7, <1>8, <1>9, OpenOrderSound, OtherInvoiceSound
     DEF OrderStep

\* The backend answers with the rows t; what it changed is unreported.
LEMMA OrderServes ==
    ASSUME OrderInv, At("order"), NEW i \in DOMAIN calls, NEW t, IsOrderRows(t),
           t.others = server.others, NEW ok \in BOOLEAN, NEW b, Perform(i, t, ok, b),
           \/ t = server \/ (ok /\ calls[i].op \in ChangeOps),
           calls[i].op = "order" => ok /\ b = StoredOrder(t),
           calls[i].op = "full" => b = t.invoice
    PROVE  OrderInv'
<1>1. /\ Known(calls') /\ page' = page /\ server' = t /\ lost' = lost
      /\ \E d : /\ AnsweredBy(calls[i], d, ok, b)
                /\ Replaces(Held(calls), Held(calls'), calls[i], d)
  BY OrderKnows, HeldServed
<1>2. PICK c, H, d : /\ c = calls[i] /\ H = Held(calls) /\ AnsweredBy(c, d, ok, b)
                     /\ Replaces(H, Held(calls'), c, d)
  BY <1>1
<1>3. PICK J : J = Held(calls') /\ Replaces(H, J, c, d)
  BY <1>2
<1>4. /\ d.op = c.op /\ d.kept = c.kept /\ c.state = "sent"
      /\ ok => d.state = "ok" /\ Head(d.body) = b
      /\ ~ok => d.state = "failed"
  BY <1>2 DEF AnsweredBy, Same
<1>5. d \in J /\ J \subseteq H \union {d} /\ \A x \in H : x = c \/ x \in J
  BY <1>3 DEF Replaces
<1>6. c \in H /\ OrderCallSound(c, page)
  BY <1>2, OrderKnows DEF Held
<1>7. OrderCallSound(d, page)
  BY <1>4, <1>6 DEF OrderCallSound
<1>8. ASSUME OrderQuiet(page, server, H) PROVE OrderQuiet(page, t, J)
  <2>1. NoLoadFailed(J)
    BY <1>2, <1>4, <1>5, <1>8 DEF OrderQuiet, NoLoadFailed
  <2>2. CASE Unreported(H)
    BY <1>4, <1>5, <2>1, <2>2 DEF OrderQuiet, Unreported
  <2>3. CASE ok /\ c.op \in ChangeOps
    BY <1>4, <1>5, <2>1, <2>3 DEF OrderQuiet, Unreported
  <2>4. CASE ~Unreported(H) /\ t = server
    <3>1. AnswersCurrent(page, t, H) /\ (ShownOrder(page, t) \/ Reloaded(page, H))
      BY <1>8, <2>4 DEF OrderQuiet
    <3>2. AnswersCurrent(page, t, J)
      BY <1>2, <1>4, <1>5, <3>1 DEF AnswersCurrent
    <3>3. Reloaded(page, H) => Reloaded(page, J)
      BY <1>4, <1>5 DEF Reloaded
    <3> QED
      BY <2>1, <3>1, <3>2, <3>3 DEF OrderQuiet
  <2> QED
    BY <1>2, <2>2, <2>3, <2>4
<1>9. (t.others = 0 /\ lost' = 0) => OrderQuiet(page, t, J)
  BY <1>1, <1>2, <1>8, OrderKnows
<1>10. PICK new : new = {d}
  OBVIOUS
<1> QED
  BY <1>1, <1>2, <1>3, <1>5, <1>7, <1>9, <1>10, OrderKnows, OrderGoesOn

LEMMA OrderServeSound ==
    ASSUME OrderInv, At("order"), NEW i \in DOMAIN calls, OrderServe(i)
    PROVE  OrderInv'
<1>1. PICK invoice, status, refund, others :
         /\ server = [invoice |-> invoice, status |-> status, refund |-> refund,
                      others |-> others]
         /\ others \in Nat
  BY OrderKnows DEF IsOrderRows
<1>2. PICK yes \in BOOLEAN, no \in BOOLEAN : yes = TRUE /\ no = FALSE
  OBVIOUS
<1>3. ASSUME NEW op, Asked(i, op) PROVE calls[i].op = op
  BY <1>3 DEF Asked
<1>4. CASE Asked(i, "order") /\ Perform(i, server, TRUE, StoredOrder(server))
  <2>1. PICK s, b : s = server /\ b = StoredOrder(s)
    OBVIOUS
  <2> QED
    BY <1>2, <1>3, <1>4, <2>1, OrderKnows, OrderServes
<1>5. CASE Asked(i, "full") /\ Perform(i, server, TRUE, server.invoice)
  <2>1. PICK s, b : s = server /\ b = s.invoice
    OBVIOUS
  <2> QED
    BY <1>2, <1>3, <1>5, <2>1, OrderKnows, OrderServes
<1>6. CASE Asked(i, "defaults") /\ Perform(i, server, TRUE, <<>>)
  BY <1>2, <1>3, <1>6, OrderKnows, OrderServes
<1>7. ASSUME calls[i].op \in SaveOps,
             \/ Refuse(i)
             \/ Perform(i, [server EXCEPT !.invoice =
                              [state |-> "OPEN", terms |-> calls[i].arg.terms]],
                        TRUE, <<>>)
      PROVE  OrderInv'
  <2>1. calls[i].op \in ChangeOps /\ calls[i].op # "order" /\ calls[i].op # "full"
    BY <1>7 DEF ChangeOps, SaveOps
  <2>2. CASE Refuse(i)
    BY <1>2, <2>1, <2>2, OrderKnows, OrderServes DEF Refuse
  <2>3. PICK v, t : /\ v = [state |-> "OPEN", terms |-> calls[i].arg.terms]
                    /\ t = [server EXCEPT !.invoice = v]
    OBVIOUS
  <2>4. t = [invoice |-> v, status |-> status, refund |-> refund, others |-> others]
    BY <1>1, <2>3
  <2>5. IsOrderRows(t) /\ t.others = server.others
    BY <1>1, <2>4 DEF IsOrderRows
  <2> QED
    BY <1>2, <1>7, <2>1, <2>2, <2>3, <2>5, OrderServes
<1>8. CASE /\ Asked(i, "resend")
           /\ Perform(i, server, TRUE, <<>>) \/ Refuse(i)
  BY <1>2, <1>3, <1>8, OrderKnows, OrderServes DEF Refuse
<1>9. ASSUME calls[i].op = "cancel",
             Perform(i, [server EXCEPT !.status = "CANCELLED"], TRUE, <<>>)
      PROVE  OrderInv'
  <2>1. PICK v, t : v = "CANCELLED" /\ t = [server EXCEPT !.status = v]
    OBVIOUS
  <2>2. t = [invoice |-> invoice, status |-> v, refund |-> refund, others |-> others]
    BY <1>1, <2>1
  <2>3. IsOrderRows(t) /\ t.others = server.others
    BY <1>1, <2>2 DEF IsOrderRows
  <2>4. calls[i].op \in ChangeOps
    BY <1>9 DEF ChangeOps
  <2> QED
    BY <1>2, <1>9, <2>1, <2>3, <2>4, OrderServes
<1>10. ASSUME calls[i].op = "refund", NEW a,
              Perform(i, [server EXCEPT !.status = "REFUNDED",
                            !.refund = [type |-> a.type, deduction |-> Paid - a.amount]],
                      TRUE, <<>>)
       PROVE  OrderInv'
  <2>1. PICK v, r, t : /\ v = "REFUNDED"
                       /\ r = [type |-> a.type, deduction |-> Paid - a.amount]
                       /\ t = [server EXCEPT !.status = v, !.refund = r]
    OBVIOUS
  <2>2. t = [invoice |-> invoice, status |-> v, refund |-> r, others |-> others]
    BY <1>1, <2>1
  <2>3. IsOrderRows(t) /\ t.others = server.others
    BY <1>1, <2>2 DEF IsOrderRows
  <2>4. calls[i].op \in ChangeOps
    BY <1>10 DEF ChangeOps
  <2> QED
    BY <1>2, <1>10, <2>1, <2>3, <2>4, OrderServes
<1> QED
  BY <1>3, <1>4, <1>5, <1>6, <1>7, <1>8, <1>9, <1>10 DEF OrderServe

LEMMA OrderLoseSound ==
    ASSUME OrderInv, At("order"), NEW i \in DOMAIN calls, LoseCall(i)
    PROVE  OrderInv'
<1>1. /\ Known(calls') /\ page' = page /\ server' = server /\ lost' \in Nat /\ lost' # 0
      /\ \E d : /\ Same(calls[i], d) /\ d.state = "failed"
                /\ Held(calls') \subseteq Held(calls) \union {d}
  BY OrderKnows, HeldLost
<1>2. PICK d, c : /\ c = calls[i] /\ Same(c, d) /\ d.state = "failed"
                  /\ Held(calls') \subseteq Held(calls) \union {d}
  BY <1>1
<1>3. OrderCallSound(c, page)
  BY <1>2, OrderKnows DEF Held
<1>4. OrderCallSound(d, page)
  BY <1>2, <1>3 DEF OrderCallSound, Same
<1>5. PICK new : new = {d}
  OBVIOUS
<1> QED
  BY <1>1, <1>2, <1>4, <1>5, OrderKnows, OrderGoesOn

\* Call i goes without a new one.
LEMMA OrderContinues ==
    ASSUME OrderInv, At("order"), NEW i \in DOMAIN calls, NEW q, IsOrderPage(q),
           q.tracker = page.tracker, Continue(i, q, <<>>),
           \A J : (/\ J \subseteq Held(calls)
                   /\ \A c \in Held(calls) : c = calls[i] \/ c \in J
                   /\ OrderQuiet(page, server, Held(calls)))
                  => OrderQuiet(q, server, J)
    PROVE  OrderInv'
<1>1. PICK new : new = <<>> /\ new \in Seq({}) /\ Held(new) = {}
  BY NoCall, HeldNone
<1>2. Continue(i, q, new)
  BY <1>1
<1>3. /\ Known(calls') /\ Held(calls') \subseteq Held(calls)
      /\ \A c \in Held(calls) : c = calls[i] \/ c \in Held(calls')
      /\ page' = q /\ server' = server /\ lost' = lost
  BY <1>1, <1>2, OrderKnows, HeldContinued
<1>4. (server.others = 0 /\ lost = 0) => OrderQuiet(q, server, Held(calls'))
  BY <1>3, OrderKnows
<1>5. PICK none : none = {}
  OBVIOUS
<1>6. /\ \A c \in none : OrderCallSound(c, q)
      /\ Held(calls') \subseteq Held(calls) \union none
  BY <1>3, <1>5
<1> QED
  BY <1>3, <1>4, <1>6, OrderKnows, OrderGoesOn

\* A call that is no longer of interest goes.
LEMMA OrderIgnores ==
    ASSUME OrderInv, At("order"), NEW i \in DOMAIN calls, NEW q, KeepsOrder(page, q),
           Continue(i, q, <<>>),
           \/ calls[i].op # "order" /\ (calls[i].op \notin ChangeOps \/ calls[i].state # "ok")
           \/ calls[i].op = "order" /\ calls[i].kept # page.tracker
    PROVE  OrderInv'
<1>1. /\ IsOrderPage(q) /\ q.tracker = page.tracker /\ q.order = page.order
      /\ q.panel = page.panel
  BY DEF KeepsOrder
<1>2. ASSUME NEW J, J \subseteq Held(calls), OrderQuiet(page, server, Held(calls)),
             \A c \in Held(calls) : c = calls[i] \/ c \in J
      PROVE  OrderQuiet(q, server, J)
  <2>1. /\ \A c \in J : c \in Held(calls) \/ c.state = "sent"
        /\ \A c \in Held(calls) :
              \/ c \in J
              \/ c.op # "order" /\ (c.op \notin ChangeOps \/ c.state # "ok")
              \/ c.op = "order" /\ c.kept # page.tracker
    BY <1>2
  <2> QED
    BY <1>1, <1>2, <2>1, QuietStays
<1> QED
  BY <1>1, <1>2, OrderContinues

LEMMA OrderAnsweredSound ==
    ASSUME OrderInv, At("order"), NEW i \in DOMAIN calls, OrderAnswered(i)
    PROVE  OrderInv'
<1>1. calls[i].op = "order" /\ calls[i].state # "sent" /\ calls[i] \in Held(calls)
  BY DEF OrderAnswered, Held
<1>2. CASE calls[i].kept # page.tracker
  <2>1. Continue(i, page, <<>>)
    BY <1>2 DEF OrderAnswered, IsCurrentRequest
  <2> QED
    BY <1>1, <1>2, <2>1, OrderKnows, KeptField, OrderIgnores DEF KeepsOrder
<1>3. PICK b, p : b = page.busy \ {"order"} /\ p = [page EXCEPT !.busy = b]
  OBVIOUS
<1>7. KeepsOrder(page, p)
  BY <1>3, OrderKnows, KeptField
<1>4. KeepsOrder(page, p) /\ IsOrderPage(p)
  BY <1>7 DEF KeepsOrder
<1>5. CASE calls[i].kept = page.tracker /\ calls[i].state = "failed"
  <2>1. PICK q, yes : yes = TRUE /\ q = [p EXCEPT !.failed = yes]
    OBVIOUS
  <2>2. Continue(i, q, <<>>)
    BY <1>3, <1>5, <2>1 DEF OrderAnswered, IsCurrentRequest
  <2>3. KeepsOrder(p, q)
    BY <1>4, <2>1, KeptField
  <2>4. IsOrderPage(q) /\ q.tracker = page.tracker
    BY <1>4, <2>3 DEF KeepsOrder, ShowsOrder
  <2>5. ~OrderQuiet(page, server, Held(calls))
    BY <1>1, <1>5 DEF OrderQuiet, NoLoadFailed
  <2> QED
    BY <2>2, <2>4, <2>5, OrderContinues
<1>6. CASE calls[i].kept = page.tracker /\ calls[i].state # "failed"
  <2>1. PICK o, v, q : o = Body(i) /\ v = o.invoice /\ q = [p EXCEPT !.order = o, !.panel = v]
    OBVIOUS
  <2>2. Continue(i, q, <<>>)
    BY <1>3, <1>6, <2>1 DEF OrderAnswered, IsCurrentRequest
  <2>3. ShowsOrder(p, q, o, v)
    BY <1>4, <2>1, OrderShownAs
  <2>4. IsOrderPage(q) /\ q.tracker = page.tracker /\ q.order = o /\ q.panel = v
    BY <1>4, <2>3 DEF KeepsOrder, ShowsOrder
  <2>5. ASSUME NEW J, J \subseteq Held(calls), OrderQuiet(page, server, Held(calls)),
               \A c \in Held(calls) : c = calls[i] \/ c \in J
        PROVE  OrderQuiet(q, server, J)
    <3>1. NoLoadFailed(J)
      BY <2>5 DEF OrderQuiet, NoLoadFailed
    <3>2. CASE Unreported(Held(calls))
      <4>1. calls[i].op \notin ChangeOps
        BY <1>1 DEF ChangeOps, SaveOps
      <4>2. Unreported(J)
        BY <2>5, <3>2, <4>1 DEF Unreported
      <4> QED
        BY <3>1, <4>2 DEF OrderQuiet
    <3>3. CASE ~Unreported(Held(calls))
      <4>1. AnswersCurrent(page, server, Held(calls)) /\ NoLoadFailed(Held(calls))
        BY <2>5, <3>3 DEF OrderQuiet
      <4>2. AnswersCurrent(q, server, J)
        BY <2>4, <2>5, <4>1 DEF AnswersCurrent
      <4>3. o = StoredOrder(server) /\ v = server.invoice
        <5>1. calls[i].state = "ok"
          BY <1>1, <1>6, OrderKnows DEF OrderCallSound
        <5>2. o = StoredOrder(server)
          BY <1>1, <1>6, <2>1, <4>1, <5>1 DEF AnswersCurrent, Body
        <5> QED
          BY <2>1, <5>2 DEF StoredOrder
      <4>4. ShownOrder(q, server)
        BY <2>4, <4>3 DEF ShownOrder
      <4> QED
        BY <3>1, <4>2, <4>4 DEF OrderQuiet
    <3> QED
      BY <3>2, <3>3
  <2> QED
    BY <2>2, <2>4, <2>5, OrderContinues
<1> QED
  BY <1>2, <1>5, <1>6

LEMMA InvoiceLoadedSound ==
    ASSUME OrderInv, At("order"), NEW i \in DOMAIN calls, InvoiceLoaded(i)
    PROVE  OrderInv'
<1>1. calls[i].op = "full" /\ calls[i].state # "sent" /\ calls[i] \in Held(calls)
  BY DEF InvoiceLoaded, Held
<1>2. calls[i].op # "order" /\ calls[i].op \notin ChangeOps
  BY <1>1 DEF ChangeOps, SaveOps
<1>3. CASE calls[i].kept # page.tracker
  <2>1. Continue(i, page, <<>>)
    BY <1>3 DEF InvoiceLoaded, Mounted
  <2> QED
    BY <1>2, <2>1, OrderKnows, KeptField, OrderIgnores DEF KeepsOrder
<1>4. PICK b, p : /\ b = page.busy \ {"details", calls[i].arg}
                  /\ p = [page EXCEPT !.busy = b]
  OBVIOUS
<1>8. KeepsOrder(page, p)
  BY <1>4, OrderKnows, KeptField
<1>5. KeepsOrder(page, p) /\ IsOrderPage(p)
  BY <1>8 DEF KeepsOrder
<1>6. CASE calls[i].kept = page.tracker /\ calls[i].state = "failed"
  <2>1. Continue(i, p, <<>>)
    BY <1>4, <1>6 DEF InvoiceLoaded, Mounted
  <2> QED
    BY <1>2, <1>5, <2>1, OrderIgnores
<1>7. CASE calls[i].kept = page.tracker /\ calls[i].state # "failed"
  <2>1. PICK v, yes, q : /\ v = Body(i) /\ yes = TRUE
                         /\ q = [p EXCEPT !.panel = v, !.full = yes]
    OBVIOUS
  <2>2. Continue(i, q, <<>>)
    BY <1>4, <1>7, <2>1 DEF InvoiceLoaded, Mounted
  <2>a. ShowsOrder(p, q, p.order, v)
    BY <1>5, <2>1, OrderShownAs
  <2>3. /\ IsOrderPage(q) /\ q.tracker = page.tracker /\ q.order = page.order
        /\ q.panel = v
    BY <1>5, <2>a DEF KeepsOrder, ShowsOrder
  <2>4. ASSUME NEW J, J \subseteq Held(calls), OrderQuiet(page, server, Held(calls)),
               \A c \in Held(calls) : c = calls[i] \/ c \in J
        PROVE  OrderQuiet(q, server, J)
    <3>1. NoLoadFailed(J)
      BY <2>4 DEF OrderQuiet, NoLoadFailed
    <3>2. CASE Unreported(Held(calls))
      <4>1. Unreported(J)
        BY <1>2, <2>4, <3>2 DEF Unreported
      <4> QED
        BY <3>1, <4>1 DEF OrderQuiet
    <3>3. CASE ~Unreported(Held(calls))
      <4>1. /\ AnswersCurrent(page, server, Held(calls))
            /\ ShownOrder(page, server) \/ Reloaded(page, Held(calls))
        BY <2>4, <3>3 DEF OrderQuiet
      <4>2. AnswersCurrent(q, server, J)
        BY <2>3, <2>4, <4>1 DEF AnswersCurrent
      <4>3. v = server.invoice
        <5>1. calls[i].state = "ok"
          BY <1>1, <1>7, OrderKnows DEF OrderCallSound
        <5> QED
          BY <1>1, <1>7, <2>1, <4>1, <5>1 DEF AnswersCurrent, Body
      <4>4. ShownOrder(page, server) => ShownOrder(q, server)
        BY <2>3, <4>3 DEF ShownOrder
      <4>5. Reloaded(page, Held(calls)) => Reloaded(q, J)
        BY <1>2, <2>3, <2>4 DEF Reloaded
      <4> QED
        BY <3>1, <4>1, <4>2, <4>4, <4>5 DEF OrderQuiet
    <3> QED
      BY <3>2, <3>3
  <2> QED
    BY <2>2, <2>3, <2>4, OrderContinues
<1> QED
  BY <1>3, <1>6, <1>7

LEMMA DefaultsLoadedSound ==
    ASSUME OrderInv, At("order"), NEW i \in DOMAIN calls, DefaultsLoaded(i)
    PROVE  OrderInv'
<1>1. calls[i].op # "order" /\ calls[i].op \notin ChangeOps
  BY DEF DefaultsLoaded, ChangeOps, SaveOps
<1>2. PICK p : p = [page EXCEPT !.busy = @ \ {"defaults"}]
  OBVIOUS
<1>3. KeepsOrder(page, p) /\ IsOrderPage(p)
  BY <1>2, OrderKnows, KeptField DEF KeepsOrder
<1>4. PICK form, draft, q : /\ form = "create" /\ draft = 1
                            /\ q = [p EXCEPT !.form = form, !.draft = draft]
  OBVIOUS
<1>5. KeepsOrder(page, q)
  <2>1. KeepsOrder(p, q)
    BY <1>3, <1>4, KeptOrder
  <2> QED
    BY <1>3, <2>1 DEF KeepsOrder
<1>6. KeepsOrder(page, page)
  BY OrderKnows DEF KeepsOrder
<1>7. Continue(i, page, <<>>) \/ Continue(i, p, <<>>) \/ Continue(i, q, <<>>)
  BY <1>2, <1>4 DEF DefaultsLoaded
<1> QED
  BY <1>1, <1>3, <1>5, <1>6, <1>7, OrderIgnores

\* A change is reported: the order is loaded again.
LEMMA ReloadReported ==
    ASSUME OrderInv, At("order"), NEW i \in DOMAIN calls,
           Continue(i, ReloadAfter(i), ReloadCall(page))
    PROVE  OrderInv'
<1>1. PICK m, q, n, c, new :
         /\ m = (page.mixed \/ \E j \in DOMAIN calls \ {i} :
                                 calls[j].op \in SaveOps \union {"cancel", "refund"})
         /\ q = ReloadAfter(i) /\ n = page.tracker + 1
         /\ c = Call("order", 0, n) /\ new = <<c>>
  OBVIOUS
<1>2. Continue(i, q, new)
  BY <1>1 DEF ReloadCall, BeginRequest
<1>3. /\ IsOrderPage(q) /\ q.tracker = n /\ n \in Nat
  <2>1. Reload(page).mixed = page.mixed
    <3>1. PICK p : p = page /\ IsOrderPage(p)
      BY OrderKnows
    <3> QED
      BY <3>1, ReloadOrder DEF Reload, IsOrderPage
  <2>2. q = [Reload(page) EXCEPT !.mixed = m]
    BY <1>1, <2>1 DEF ReloadAfter
  <2> QED
    BY <1>1, <2>2, OrderKnows, ReloadOrder
<1>4. /\ \E T : new \in Seq(T)
      /\ Held(new) = {c} /\ IsCall(c)
  BY <1>1, OneCall, HeldOne
<1>5. c.op = "order" /\ c.kept = n /\ c.state = "sent"
  BY <1>1 DEF Call
<1>6. /\ Known(calls') /\ Held(calls') \subseteq Held(calls) \union {c}
      /\ {c} \subseteq Held(calls')
      /\ page' = q /\ server' = server /\ lost' = lost
  BY <1>2, <1>4, OrderKnows, HeldContinued
<1>7. OrderCallSound(c, q)
  BY <1>3, <1>5 DEF OrderCallSound
<1>8. (server.others = 0 /\ lost = 0) => OrderQuiet(q, server, Held(calls'))
  BY <1>1, <1>3, <1>5, <1>6, OrderKnows, QuietReloads
<1>9. q.tracker = page.tracker + 1
  BY <1>1, <1>3
<1>10. PICK fresh : fresh = {c}
  OBVIOUS
<1>11. /\ \A x \in fresh : OrderCallSound(x, q)
       /\ Held(calls') \subseteq Held(calls) \union fresh
  BY <1>6, <1>7, <1>10
<1> QED
  BY <1>3, <1>6, <1>8, <1>9, <1>11, OrderKnows, OrderGoesOn

LEMMA ChangeReportedSound ==
    ASSUME OrderInv, At("order"), NEW i \in DOMAIN calls, InvoiceSaved(i) \/ Resolved(i)
    PROVE  OrderInv'
<1>1. calls[i].op # "order"
  BY DEF InvoiceSaved, Resolved, SaveOps
<1>2. CASE calls[i].state = "ok"
  BY <1>2, ReloadReported DEF InvoiceSaved, Resolved
<1>3. CASE calls[i].state # "ok"
  <2>1. PICK b : Continue(i, page, <<>>) \/ Continue(i, [page EXCEPT !.busy = b], <<>>)
    BY <1>3 DEF InvoiceSaved, Resolved
  <2> QED
    BY <1>1, <1>3, <2>1, OrderKnows, KeptField, OrderIgnores DEF KeepsOrder
<1> QED
  BY <1>2, <1>3

LEMMA OrderStart ==
    ASSUME OrderInit
    PROVE  OrderInv
<1>1. PICK invoice, status, s, p :
         /\ s = [invoice |-> invoice, status |-> status,
                 refund |-> [type |-> "NONE", deduction |-> 0], others |-> 0]
         /\ p = [tracker |-> 0, order |-> StoredOrder(s),
                 panel |-> invoice, full |-> FALSE, form |-> "none",
                 draft |-> 0, popup |-> "none", busy |-> {},
                 failed |-> FALSE, mixed |-> FALSE]
         /\ page = p /\ server = s /\ calls = <<>> /\ lost = 0
  BY DEF OrderInit, Mount
<1>2. IsOrderPage(p) /\ p.order = StoredOrder(s) /\ p.panel = invoice
  BY <1>1 DEF IsOrderPage
<1>3. IsOrderRows(s) /\ s.invoice = invoice
  BY <1>1 DEF IsOrderRows
<1>4. Known(calls) /\ Held(calls) = {}
  BY <1>1, NoCalls, HeldNone
<1>5. OrderQuiet(p, s, {})
  BY <1>2, <1>3 DEF OrderQuiet, NoLoadFailed, AnswersCurrent, ShownOrder
<1> QED
  BY <1>1, <1>2, <1>3, <1>4, <1>5 DEF OrderInv

LEMMA OrderAlways == Spec => []OrderInv
<1>1. Init => OrderInv
  <2>1. Init /\ At("order") => OrderInit
    BY MountedAtStart DEF Init, At
  <2> QED
    BY <2>1, OrderStart DEF OrderInv
<1>2. OrderInv /\ [Next]_vars => OrderInv'
  <2> SUFFICES ASSUME OrderInv, [Next]_vars PROVE OrderInv'
    OBVIOUS
  <2>1. CASE ~At("order")
    BY <2>1, StaysMounted DEF OrderInv, At
  <2>2. CASE At("order") /\ Next
    <3>1. ASSUME NEW i \in DOMAIN calls, OrderReturn(i) PROVE OrderInv'
      BY <2>2, <3>1, OrderAnsweredSound, InvoiceLoadedSound, DefaultsLoadedSound,
         ChangeReportedSound DEF OrderReturn
    <3> QED
      BY <2>2, <3>1, OnOrder, OrderStepSound, OrderServeSound, OrderLoseSound
  <2>3. CASE UNCHANGED vars
    <3>1. PICK p, s, h, l : p = page /\ s = server /\ h = calls /\ l = lost
      OBVIOUS
    <3>2. page' = p /\ server' = s /\ calls' = h /\ lost' = l /\ mounted' = mounted
      BY <2>3, <3>1 DEF vars
    <3> QED
      BY <3>1, <3>2 DEF OrderInv, At, Known, IsCalls
  <2> QED
    BY <2>1, <2>2, <2>3
<1> QED
  BY <1>1, <1>2, PTL DEF Spec

\* An order whose calls have all been answered shows what the backend
\* stores, its invoice as well: reloads overtake each other and the answers
\* of panels they have replaced, and the newest of them is taken last.
THEOREM SettledOrdersAreCurrent ==
    Spec => []SettledOrderIsCurrent
<1>1. OrderInv => SettledOrderIsCurrent
  <2> SUFFICES ASSUME OrderInv, At("order"), calls = <<>>, lost = 0, server.others = 0
               PROVE  ShownOrder(page, server)
    BY DEF SettledOrderIsCurrent, ShownOrder
  <2>1. Held(calls) = {}
    BY HeldNone
  <2>2. OrderQuiet(page, server, Held(calls))
    BY DEF OrderInv
  <2> QED
    BY <2>1, <2>2 DEF OrderQuiet, Unreported, Reloaded
<1> QED
  BY <1>1, OrderAlways, PTL

-----------------------------------------------------------------------------
(* Calls of which at most one carries a number.                             *)

OnceLoad(s, op, n) ==
    \A a, b \in DOMAIN s :
        (s[a].op = op /\ s[a].kept = n /\ s[b].op = op /\ s[b].kept = n) => a = b

NoLoad(s, op, n) == \A a \in DOMAIN s : ~(s[a].op = op /\ s[a].kept = n)

LEMMA LoadsWithoutOne ==
    ASSUME NEW S, NEW s \in Seq(S), NEW i \in DOMAIN s, NEW t, t = RemoveAt(s, i),
           NEW op, NEW n
    PROVE  /\ OnceLoad(s, op, n) => OnceLoad(t, op, n)
           /\ (OnceLoad(s, op, n) /\ s[i].op = op /\ s[i].kept = n) => NoLoad(t, op, n)
<1>1. /\ i \in Nat
      /\ \A k \in DOMAIN t : k \in Nat /\ \E m \in DOMAIN s :
             /\ m # i /\ t[k] = s[m]
             /\ (k < i /\ m = k) \/ (~(k < i) /\ m = k + 1)
  BY OthersMoveUp
<1>2. OnceLoad(s, op, n) => OnceLoad(t, op, n)
  <2> SUFFICES ASSUME OnceLoad(s, op, n), NEW c \in DOMAIN t, NEW d \in DOMAIN t,
                      t[c].op = op, t[c].kept = n, t[d].op = op, t[d].kept = n
               PROVE  c = d
    BY DEF OnceLoad
  <2>1. PICK m \in DOMAIN s : /\ t[c] = s[m] /\ m # i
                              /\ (c < i /\ m = c) \/ (~(c < i) /\ m = c + 1)
    BY <1>1
  <2>2. PICK o \in DOMAIN s : /\ t[d] = s[o]
                              /\ (d < i /\ o = d) \/ (~(d < i) /\ o = d + 1)
    BY <1>1
  <2>3. m = o
    BY <2>1, <2>2 DEF OnceLoad
  <2>4. i \in Nat /\ c \in Nat /\ d \in Nat
    BY <1>1
  <2>5. (d < i /\ m = d) \/ (~(d < i) /\ m = d + 1)
    BY <2>2, <2>3
  <2> QED
    BY <2>1, <2>4, <2>5, NotMovedTogether
<1>3. (OnceLoad(s, op, n) /\ s[i].op = op /\ s[i].kept = n) => NoLoad(t, op, n)
  <2> SUFFICES ASSUME OnceLoad(s, op, n), s[i].op = op, s[i].kept = n,
                      NEW c \in DOMAIN t, t[c].op = op, t[c].kept = n
               PROVE  FALSE
    BY DEF NoLoad
  <2>1. PICK m \in DOMAIN s : m # i /\ t[c] = s[m]
    BY <1>1
  <2> QED
    BY <2>1 DEF OnceLoad
<1> QED
  BY <1>2, <1>3

\* Calls that are made come behind the others.
LEMMA WithMore ==
    ASSUME NEW S, NEW s \in Seq(S), NEW T, NEW new \in Seq(T), NEW t, t = s \o new
    PROVE  /\ \A ops : NoneOf(new, ops) /\ OnceOf(s, ops) => OnceOf(t, ops)
           /\ \A ops : NoneOf(new, ops) /\ NoneOf(s, ops) => NoneOf(t, ops)
           /\ \A op, n : NoLoad(new, op, n) /\ OnceLoad(s, op, n) => OnceLoad(t, op, n)
           /\ \A op, n : OnceLoad(new, op, n) /\ NoLoad(s, op, n) => OnceLoad(t, op, n)
<1>1. /\ Len(s) \in Nat /\ Len(new) \in Nat
      /\ DOMAIN t = 1..(Len(s) + Len(new)) /\ DOMAIN s = 1..Len(s)
      /\ DOMAIN new = 1..Len(new)
      /\ \A k \in DOMAIN t : t[k] = IF k <= Len(s) THEN s[k] ELSE new[k - Len(s)]
  OBVIOUS
<1>2. ASSUME NEW k \in DOMAIN t
      PROVE  \/ k \in DOMAIN s /\ t[k] = s[k]
             \/ \E j \in DOMAIN new : t[k] = new[j] /\ k = Len(s) + j
  <2>1. CASE k <= Len(s)
    BY <1>1, <2>1
  <2>2. CASE ~(k <= Len(s))
    <3>1. k - Len(s) \in DOMAIN new /\ k = Len(s) + (k - Len(s))
      BY <1>1, <2>2
    <3> QED
      BY <1>1, <2>2, <3>1
  <2> QED
    BY <2>1, <2>2
<1>3. ASSUME NEW ops, NoneOf(new, ops), OnceOf(s, ops) PROVE OnceOf(t, ops)
  BY <1>2, <1>3 DEF NoneOf, OnceOf
<1>4. ASSUME NEW ops, NoneOf(new, ops), NoneOf(s, ops) PROVE NoneOf(t, ops)
  BY <1>2, <1>4 DEF NoneOf
<1>5. ASSUME NEW op, NEW n, NoLoad(new, op, n), OnceLoad(s, op, n) PROVE OnceLoad(t, op, n)
  BY <1>2, <1>5 DEF NoLoad, OnceLoad
<1>6. ASSUME NEW op, NEW n, OnceLoad(new, op, n), NoLoad(s, op, n) PROVE OnceLoad(t, op, n)
  BY <1>2, <1>6 DEF NoLoad, OnceLoad
<1> QED
  BY <1>3, <1>4, <1>5, <1>6

\* A call that is performed or lost keeps its number.
LEMMA LoadsWithAnswer ==
    ASSUME NEW s, NEW t, DOMAIN t = DOMAIN s,
           \A k \in DOMAIN s : t[k].op = s[k].op /\ t[k].kept = s[k].kept
    PROVE  /\ \A op, n : OnceLoad(s, op, n) => OnceLoad(t, op, n)
           /\ \A ops : OnceOf(s, ops) => OnceOf(t, ops)
           /\ \A ops : NoneOf(t, ops) <=> NoneOf(s, ops)
  BY DEF OnceLoad, OnceOf, NoneOf

LEMMA NoneHeld ==
    ASSUME NEW s, NEW ops
    PROVE  NoneOf(s, ops) <=> \A c \in Held(s) : c.op \notin ops
  BY DEF NoneOf, Held

-----------------------------------------------------------------------------
(* The detail pages of inquiries.                                           *)

IsLeadRows(s) ==
    /\ s = [status |-> s.status, assigned |-> s.assigned, converted |-> s.converted,
            notes |-> s.notes, others |-> s.others]
    /\ s.others \in Nat

IsLeadPage(p) ==
    /\ p = [kind |-> p.kind, role |-> p.role, row |-> p.row, notes |-> p.notes,
            generation |-> p.generation, busy |-> p.busy, mixed |-> p.mixed,
            left |-> p.left]
    /\ p.generation \in Nat

\* A write of one of the kinds is stored whose answer the page has not taken.
Unheard(H, ops) == \E c \in H : c.op \in ops /\ c.state = "ok"

\* The CRM lead.  Only the loads of the last generation count; what they
\* bring is the stored row, unless a change of the status met them.
CrmCallSound(c, p, s) ==
    /\ c.op \in {"lead", "notes", "update", "note"} /\ c.state \in {"sent", "ok"}
    /\ c.op \in {"lead", "notes"} => c.kept \in Nat /\ c.kept <= p.generation
    /\ (c.op = "lead" /\ c.kept = p.generation) =>
          "lead" \in p.busy /\ ((c.state = "ok" /\ ~p.mixed) => Head(c.body) = LeadOf(s))
    /\ (c.op = "notes" /\ c.kept = p.generation) => "notes" \in p.busy
    /\ c.op = "update" =>
          "status" \in p.busy /\ (c.state = "ok" => Head(c.body) = LeadOf(s))
    /\ c.op = "note" => "note" \in p.busy

CrmRow(p, s, cs) ==
    /\ ~s.converted
    /\ OnceOf(cs, {"update"}) /\ OnceOf(cs, {"note"})
    /\ OnceLoad(cs, "lead", p.generation)
    /\ \A c \in Held(cs) : CrmCallSound(c, p, s)
    /\ ~p.mixed =>
          /\ "lead" \in p.busy => NoneOf(cs, {"update"})
          /\ ("lead" \notin p.busy /\ p.row # NoLead /\ ~Unheard(Held(cs), {"update"}))
                => p.row = LeadOf(s)

\* Every note is shown, or a note or a load of them is still to be answered.
CrmNotes(p, s, cs) ==
    /\ OnceLoad(cs, "notes", p.generation)
    /\ ~Unheard(Held(cs), {"note"}) =>
          /\ \A c \in Held(cs) :
                (c.op = "notes" /\ c.kept = p.generation /\ c.state = "ok")
                   => Head(c.body) = s.notes
          /\ "notes" \notin p.busy => p.notes = s.notes

SavingOps == {"update", "claim", "note"}

\* The website lead before it is shown.
InquiryUnseen(p, s, cs) ==
    /\ p.row = NoLead /\ p.notes = s.notes /\ s.assigned = "nobody" /\ ~s.converted
    /\ p.generation = 0 => cs = <<>>
    /\ OnceOf(cs, {"open"})
    /\ \A c \in Held(cs) :
          /\ c.op = "open" /\ c.state \in {"sent", "ok"}
          /\ c.state = "ok" => Head(c.body).row = LeadOf(s) /\ Head(c.body).notes = s.notes

OwnedBy(p, s) == p.role = "ADMIN" \/ s.assigned = "me"

InquiryCallSound(c, p) ==
    /\ c.op \in SavingOps \union {"convert"}
    /\ c.op \in SavingOps => "saving" \in p.busy
    /\ c.op = "convert" => "converting" \in p.busy /\ c.state \in {"sent", "ok"}
    /\ c.op = "update" => c.arg.to = "keep" \/ p.role = "ADMIN"

\* What is under way will be allowed, and the row that is shown, or that the
\* answer of a save brings, is the stored one.
InquirySound(p, s, H) ==
    /\ ~s.converted
    /\ OwnedBy(p, s) \/ p.row.assigned # "me"
    /\ \A c \in H :
          /\ c.state \in {"sent", "ok"}
          /\ (c.op = "claim" /\ c.state = "sent") => s.assigned = "nobody"
          /\ c.op \in {"update", "note", "convert"} => OwnedBy(p, s)
          /\ (c.op \in {"update", "claim"} /\ c.state = "ok") => Head(c.body) = LeadOf(s)
    /\ ~Unheard(H, {"update", "claim"}) => p.row = LeadOf(s)
    /\ s.notes = IF Unheard(H, {"note"}) THEN p.notes + 1 ELSE p.notes

\* A conversion that is stored makes the page leave when it is answered.
InquiryShown(p, s, cs) ==
    /\ p.generation # 0
    /\ OnceOf(cs, SavingOps) /\ OnceOf(cs, {"convert"})
    /\ \A c \in Held(cs) : InquiryCallSound(c, p)
    /\ Unheard(Held(cs), {"convert"}) \/ InquirySound(p, s, Held(cs))

LeadQuiet(p, s, cs) ==
    \/ p.left
    \/ p.kind = "lead" /\ CrmRow(p, s, cs) /\ CrmNotes(p, s, cs)
    \/ p.kind = "website" /\ (InquiryUnseen(p, s, cs) \/ InquiryShown(p, s, cs))

LeadInv ==
    At("lead") =>
        /\ IsLeadPage(page) /\ IsLeadRows(server) /\ Known(calls) /\ lost \in Nat
        /\ page.kind \in {"lead", "website"}
        /\ (server.others = 0 /\ lost = 0) => LeadQuiet(page, server, calls)

\* The page p has become q, of the same lead.
LeadBecomes(p, q, row, notes, generation, busy, mixed, left) ==
    /\ IsLeadPage(q) /\ q.kind = p.kind /\ q.role = p.role /\ q.row = row
    /\ q.notes = notes /\ q.generation = generation /\ q.busy = busy
    /\ q.mixed = mixed /\ q.left = left

LEMMA LeadField ==
    ASSUME NEW p, IsLeadPage(p), NEW a
    PROVE  /\ LeadBecomes(p, [p EXCEPT !.busy = a],
                          p.row, p.notes, p.generation, a, p.mixed, p.left)
           /\ LeadBecomes(p, [p EXCEPT !.row = a],
                          a, p.notes, p.generation, p.busy, p.mixed, p.left)
           /\ LeadBecomes(p, [p EXCEPT !.notes = a],
                          p.row, a, p.generation, p.busy, p.mixed, p.left)
<1>1. PICK kind, role, row, notes, busy, mixed, left : \E n \in Nat :
        p = [kind |-> kind, role |-> role, row |-> row, notes |-> notes,
             generation |-> n, busy |-> busy, mixed |-> mixed, left |-> left]
  BY DEF IsLeadPage
<1>2. PICK n \in Nat :
        p = [kind |-> kind, role |-> role, row |-> row, notes |-> notes,
             generation |-> n, busy |-> busy, mixed |-> mixed, left |-> left]
  BY <1>1
<1> DEFINE R(ro, no, bu) ==
             [kind |-> kind, role |-> role, row |-> ro, notes |-> no, generation |-> n,
              busy |-> bu, mixed |-> mixed, left |-> left]
<1>3. \A ro, no, bu :
         LeadBecomes(p, R(ro, no, bu), ro, no, p.generation, bu, p.mixed, p.left)
  BY <1>2 DEF LeadBecomes, IsLeadPage
<1>4. p.row = row /\ p.notes = notes /\ p.busy = busy
  BY <1>2
<1>5. [p EXCEPT !.busy = a] = R(row, notes, a)
  BY <1>2
<1>6. [p EXCEPT !.row = a] = R(a, notes, busy)
  BY <1>2
<1>7. [p EXCEPT !.notes = a] = R(row, a, busy)
  BY <1>2
<1> HIDE DEF R
<1> QED
  BY <1>3, <1>4, <1>5, <1>6, <1>7

LEMMA LeadFlag ==
    ASSUME NEW p, IsLeadPage(p), NEW a
    PROVE  /\ LeadBecomes(p, [p EXCEPT !.mixed = a],
                          p.row, p.notes, p.generation, p.busy, a, p.left)
           /\ LeadBecomes(p, [p EXCEPT !.left = a],
                          p.row, p.notes, p.generation, p.busy, p.mixed, a)
           /\ \A n \in Nat : LeadBecomes(p, [p EXCEPT !.generation = n],
                          p.row, p.notes, n, p.busy, p.mixed, p.left)
<1>1. PICK kind, role, row, notes, busy, mixed, left : \E m \in Nat :
        p = [kind |-> kind, role |-> role, row |-> row, notes |-> notes,
             generation |-> m, busy |-> busy, mixed |-> mixed, left |-> left]
  BY DEF IsLeadPage
<1>2. PICK m \in Nat :
        p = [kind |-> kind, role |-> role, row |-> row, notes |-> notes,
             generation |-> m, busy |-> busy, mixed |-> mixed, left |-> left]
  BY <1>1
<1> DEFINE R(n, mi, le) ==
             [kind |-> kind, role |-> role, row |-> row, notes |-> notes,
              generation |-> n, busy |-> busy, mixed |-> mi, left |-> le]
<1>3. \A n \in Nat : \A mi, le :
         LeadBecomes(p, R(n, mi, le), p.row, p.notes, n, p.busy, mi, le)
  BY <1>2 DEF LeadBecomes, IsLeadPage
<1>4. p.generation = m /\ p.mixed = mixed /\ p.left = left
  BY <1>2
<1>5. [p EXCEPT !.mixed = a] = R(m, a, left)
  BY <1>2
<1>6. [p EXCEPT !.left = a] = R(m, mixed, a)
  BY <1>2
<1>7. \A n : [p EXCEPT !.generation = n] = R(n, mixed, left)
  BY <1>2
<1> HIDE DEF R
<1> QED
  BY <1>2, <1>3, <1>4, <1>5, <1>6, <1>7

LEMMA LeadChanged ==
    ASSUME NEW p, IsLeadPage(p), NEW a, NEW b, NEW c
    PROVE  /\ LeadBecomes(p, [p EXCEPT !.busy = a],
                          p.row, p.notes, p.generation, a, p.mixed, p.left)
           /\ LeadBecomes(p, [p EXCEPT !.row = b, !.busy = a],
                          b, p.notes, p.generation, a, p.mixed, p.left)
           /\ LeadBecomes(p, [p EXCEPT !.notes = b, !.busy = a],
                          p.row, b, p.generation, a, p.mixed, p.left)
           /\ LeadBecomes(p, [p EXCEPT !.row = b, !.notes = c, !.busy = a],
                          b, c, p.generation, a, p.mixed, p.left)
           /\ LeadBecomes(p, [p EXCEPT !.busy = a, !.mixed = b],
                          p.row, p.notes, p.generation, a, b, p.left)
           /\ LeadBecomes(p, [p EXCEPT !.busy = a, !.left = b],
                          p.row, p.notes, p.generation, a, p.mixed, b)
<1>1. PICK x, y, z, v, q, r, s, t, w :
         /\ x = [p EXCEPT !.busy = a] /\ y = [p EXCEPT !.row = b] /\ z = [p EXCEPT !.notes = b]
         /\ v = [y EXCEPT !.notes = c] /\ q = [y EXCEPT !.busy = a]
         /\ r = [z EXCEPT !.busy = a] /\ s = [v EXCEPT !.busy = a]
         /\ t = [x EXCEPT !.mixed = b] /\ w = [x EXCEPT !.left = b]
  OBVIOUS
<1>2. /\ q = [p EXCEPT !.row = b, !.busy = a] /\ r = [p EXCEPT !.notes = b, !.busy = a]
      /\ s = [p EXCEPT !.row = b, !.notes = c, !.busy = a]
      /\ t = [p EXCEPT !.busy = a, !.mixed = b] /\ w = [p EXCEPT !.busy = a, !.left = b]
  BY <1>1
<1>3. /\ LeadBecomes(p, x, p.row, p.notes, p.generation, a, p.mixed, p.left)
      /\ LeadBecomes(p, y, b, p.notes, p.generation, p.busy, p.mixed, p.left)
      /\ LeadBecomes(p, z, p.row, b, p.generation, p.busy, p.mixed, p.left)
  BY <1>1, LeadField
<1>4. IsLeadPage(x) /\ IsLeadPage(y) /\ IsLeadPage(z)
  BY <1>3 DEF LeadBecomes
<1>5. LeadBecomes(p, v, b, c, p.generation, p.busy, p.mixed, p.left)
  <2>1. LeadBecomes(y, v, y.row, c, y.generation, y.busy, y.mixed, y.left)
    BY <1>1, <1>4, LeadField
  <2> QED
    BY <1>3, <2>1 DEF LeadBecomes
<1>6. LeadBecomes(p, q, b, p.notes, p.generation, a, p.mixed, p.left)
  <2>1. LeadBecomes(y, q, y.row, y.notes, y.generation, a, y.mixed, y.left)
    BY <1>1, <1>4, LeadField
  <2> QED
    BY <1>3, <2>1 DEF LeadBecomes
<1>7. LeadBecomes(p, r, p.row, b, p.generation, a, p.mixed, p.left)
  <2>1. LeadBecomes(z, r, z.row, z.notes, z.generation, a, z.mixed, z.left)
    BY <1>1, <1>4, LeadField
  <2> QED
    BY <1>3, <2>1 DEF LeadBecomes
<1>8. LeadBecomes(p, s, b, c, p.generation, a, p.mixed, p.left)
  <2>1. IsLeadPage(v)
    BY <1>5 DEF LeadBecomes
  <2>2. LeadBecomes(v, s, v.row, v.notes, v.generation, a, v.mixed, v.left)
    BY <1>1, <2>1, LeadField
  <2> QED
    BY <1>5, <2>2 DEF LeadBecomes
<1>9. LeadBecomes(p, t, p.row, p.notes, p.generation, a, b, p.left)
  <2>1. LeadBecomes(x, t, x.row, x.notes, x.generation, x.busy, b, x.left)
    BY <1>1, <1>4, LeadFlag
  <2> QED
    BY <1>3, <2>1 DEF LeadBecomes
<1>10. LeadBecomes(p, w, p.row, p.notes, p.generation, a, p.mixed, b)
  <2>1. LeadBecomes(x, w, x.row, x.notes, x.generation, x.busy, x.mixed, b)
    BY <1>1, <1>4, LeadFlag
  <2> QED
    BY <1>3, <2>1 DEF LeadBecomes
<1> QED
  BY <1>1, <1>2, <1>3, <1>6, <1>7, <1>8, <1>9, <1>10

LEMMA LeadReloads ==
    ASSUME NEW p, IsLeadPage(p)
    PROVE  LeadBecomes(p, Reloading(p), p.row, p.notes, p.generation + 1,
                       p.busy \union {"lead", "notes"},
                       p.mixed \/ "status" \in p.busy, p.left)
<1>1. PICK n, b, m : /\ n = p.generation + 1 /\ b = p.busy \union {"lead", "notes"}
                     /\ m = (p.mixed \/ "status" \in p.busy)
  OBVIOUS
<1>2. PICK x, y : x = [p EXCEPT !.generation = n] /\ y = [x EXCEPT !.busy = b, !.mixed = m]
  OBVIOUS
<1>3. Reloading(p) = y
  BY <1>1, <1>2 DEF Reloading
<1>4. n \in Nat
  BY <1>1 DEF IsLeadPage
<1>5. LeadBecomes(p, x, p.row, p.notes, n, p.busy, p.mixed, p.left)
  BY <1>2, <1>4, LeadFlag
<1>6. IsLeadPage(x)
  BY <1>5 DEF LeadBecomes
<1>7. LeadBecomes(x, y, x.row, x.notes, x.generation, b, m, x.left)
  BY <1>2, <1>6, LeadChanged
<1> QED
  BY <1>1, <1>3, <1>5, <1>7 DEF LeadBecomes

LEMMA LeadOfIs ==
    ASSUME NEW s
    PROVE  LeadOf(s) = [status |-> s.status, assigned |-> s.assigned,
                        converted |-> s.converted]
  BY DEF LeadOf, NoLead

LEMMA LeadGoesOn ==
    ASSUME LeadInv, At("lead"), NEW q, IsLeadPage(q), page' = q, q.kind = page.kind,
           NEW t, IsLeadRows(t), server' = t, Known(calls'), lost' \in Nat,
           (t.others = 0 /\ lost' = 0) => LeadQuiet(q, t, calls')
    PROVE  LeadInv'
  BY DEF LeadInv

LEMMA LeadKnows ==
    ASSUME LeadInv, At("lead")
    PROVE  /\ IsLeadPage(page) /\ page.generation \in Nat /\ IsLeadRows(server)
           /\ server.others \in Nat /\ Known(calls) /\ lost \in Nat
           /\ page.kind \in {"lead", "website"}
           /\ (server.others = 0 /\ lost = 0) => LeadQuiet(page, server, calls)
           /\ \E S : calls \in Seq(S)
  BY DEF LeadInv, IsLeadPage, IsLeadRows, Known, IsCalls

LEMMA LoadsAre ==
    ASSUME NEW p, NEW new, new = Loads(p)
    PROVE  /\ \E T : new \in Seq(T)
           /\ Held(new) = {Call("lead", 0, p.generation), Call("notes", 0, p.generation)}
           /\ \A c \in Held(new) : IsCall(c)
           /\ NoneOf(new, {"update"}) /\ NoneOf(new, {"note"})
           /\ OnceLoad(new, "lead", p.generation) /\ OnceLoad(new, "notes", p.generation)
<1>1. PICK a, b : /\ a = Call("lead", 0, p.generation) /\ b = Call("notes", 0, p.generation)
  OBVIOUS
<1>2. new = <<a, b>>
  BY <1>1 DEF Loads
<1>3. new \in Seq({a, b}) /\ DOMAIN new = {1, 2} /\ new[1] = a /\ new[2] = b
  BY <1>2
<1>4. a.op = "lead" /\ b.op = "notes" /\ IsCall(a) /\ IsCall(b)
  BY <1>1 DEF Call, IsCall
<1>5. Held(new) = {a, b}
  BY <1>3 DEF Held
<1>6. NoneOf(new, {"update"}) /\ NoneOf(new, {"note"})
  BY <1>3, <1>4 DEF NoneOf
<1>7. OnceLoad(new, "lead", p.generation) /\ OnceLoad(new, "notes", p.generation)
  BY <1>3, <1>4 DEF OnceLoad
<1> QED
  BY <1>1, <1>3, <1>4, <1>5, <1>6, <1>7

\* The lead is loaded again: what was loading is forgotten.
LEMMA CrmReloaded ==
    ASSUME NEW p, IsLeadPage(p), NEW s, NEW S, NEW rest \in Seq(S), CrmRow(p, s, rest),
           NEW q, q = Reloading(p), NEW cs, cs = rest \o Loads(q)
    PROVE  CrmRow(q, s, cs) /\ CrmNotes(q, s, cs)
<1>1. PICK new : new = Loads(q)
  OBVIOUS
<1>2. PICK T : new \in Seq(T)
  BY <1>1, LoadsAre
<1>3. /\ q.row = p.row /\ q.generation = p.generation + 1
      /\ q.busy = p.busy \union {"lead", "notes"}
      /\ q.mixed = (p.mixed \/ "status" \in p.busy)
      /\ p.generation \in Nat
  BY LeadReloads DEF LeadBecomes, IsLeadPage
<1>4. PICK a, b : /\ a = Call("lead", 0, q.generation) /\ b = Call("notes", 0, q.generation)
  OBVIOUS
<1>5. Held(new) = {a, b}
  BY <1>1, <1>4, LoadsAre
<1>6. Held(cs) = Held(rest) \union {a, b}
  BY <1>1, <1>2, <1>5, HeldJoined
<1>7. /\ a.op = "lead" /\ a.kept = q.generation /\ a.state = "sent"
      /\ b.op = "notes" /\ b.kept = q.generation /\ b.state = "sent"
  BY <1>4 DEF Call
<1>8. \A c \in Held(rest) : CrmCallSound(c, p, s)
  BY DEF CrmRow
<1>9. \A c \in Held(rest) : c.op \in {"lead", "notes"} => c.kept # q.generation
  BY <1>3, <1>8 DEF CrmCallSound
<1>10. \A c \in Held(cs) : CrmCallSound(c, q, s)
  <2>1. CrmCallSound(a, q, s) /\ CrmCallSound(b, q, s)
    BY <1>3, <1>7 DEF CrmCallSound
  <2>2. ASSUME NEW c \in Held(rest) PROVE CrmCallSound(c, q, s)
    BY <1>3, <1>8, <1>9 DEF CrmCallSound
  <2> QED
    BY <1>6, <2>1, <2>2
<1>11. /\ NoneOf(new, {"update"}) /\ NoneOf(new, {"note"})
       /\ OnceLoad(new, "lead", q.generation) /\ OnceLoad(new, "notes", q.generation)
  BY <1>1, LoadsAre
<1>12. NoLoad(rest, "lead", q.generation) /\ NoLoad(rest, "notes", q.generation)
  BY <1>9 DEF NoLoad, Held
<1>13. /\ OnceOf(cs, {"update"}) /\ OnceOf(cs, {"note"})
       /\ OnceLoad(cs, "lead", q.generation) /\ OnceLoad(cs, "notes", q.generation)
  BY <1>1, <1>2, <1>11, <1>12, WithMore DEF CrmRow
<1>14. ~q.mixed => NoneOf(cs, {"update"})
  <2> SUFFICES ASSUME ~q.mixed PROVE NoneOf(cs, {"update"})
    OBVIOUS
  <2>1. NoneOf(rest, {"update"})
    BY <1>3, <1>8, NoneHeld DEF CrmCallSound
  <2> QED
    BY <1>1, <1>2, <1>11, <2>1, WithMore
<1>15. CrmRow(q, s, cs)
  BY <1>3, <1>10, <1>13, <1>14 DEF CrmRow
<1>16. CrmNotes(q, s, cs)
  BY <1>3, <1>6, <1>7, <1>9, <1>13 DEF CrmNotes
<1> QED
  BY <1>15, <1>16

\* A change of the status or a note is sent, which nothing overtakes.
LEMMA CrmAsked ==
    ASSUME NEW p, NEW s, NEW S, NEW rest \in Seq(S), CrmRow(p, s, rest), CrmNotes(p, s, rest),
           NEW c, c.state = "sent", NEW l, l \notin p.busy,
           \/ c.op = "update" /\ l = "status" /\ "lead" \notin p.busy
           \/ c.op = "note" /\ l = "note",
           NEW q, q.row = p.row, q.notes = p.notes, q.generation = p.generation,
           q.busy = p.busy \union {l}, q.mixed = p.mixed,
           NEW cs, cs = rest \o <<c>>
    PROVE  CrmRow(q, s, cs) /\ CrmNotes(q, s, cs)
<1>1. PICK new : new = <<c>>
  OBVIOUS
<1>2. new \in Seq({c}) /\ Held(new) = {c} /\ DOMAIN new = {1} /\ new[1] = c
  BY <1>1, HeldOne
<1>3. Held(cs) = Held(rest) \union {c}
  <2>1. Held(rest \o new) = Held(rest) \union Held(new)
    BY <1>2, HeldJoined
  <2> QED
    BY <1>1, <1>2, <2>1
<1>4. \A d \in Held(rest) : CrmCallSound(d, p, s)
  BY DEF CrmRow
<1>5. l \notin {"lead", "notes"}
  OBVIOUS
<1>6. \A d \in Held(cs) : CrmCallSound(d, q, s)
  <2>1. CrmCallSound(c, q, s)
    BY DEF CrmCallSound
  <2>2. ASSUME NEW d \in Held(rest) PROVE CrmCallSound(d, q, s)
    BY <1>4 DEF CrmCallSound
  <2> QED
    BY <1>3, <2>1, <2>2
<1>7. NoneOf(rest, {c.op})
  BY <1>4, NoneHeld DEF CrmCallSound
<1>8. OnceOf(cs, {"update"}) /\ OnceOf(cs, {"note"})
  <2>1. c.op \in {"update"} => NoneOf(rest, {"update"})
    BY <1>7
  <2>2. c.op \in {"note"} => NoneOf(rest, {"note"})
    BY <1>7
  <2> QED
    BY <2>1, <2>2, WithOneMore DEF CrmRow
<1>9. OnceLoad(cs, "lead", q.generation) /\ OnceLoad(cs, "notes", q.generation)
  <2>1. NoLoad(new, "lead", q.generation) /\ NoLoad(new, "notes", q.generation)
    BY <1>2 DEF NoLoad
  <2> QED
    BY <1>1, <1>2, <2>1, WithMore DEF CrmRow, CrmNotes
<1>10. /\ Unheard(Held(cs), {"update"}) <=> Unheard(Held(rest), {"update"})
       /\ Unheard(Held(cs), {"note"}) <=> Unheard(Held(rest), {"note"})
  BY <1>3 DEF Unheard
<1>11. (~q.mixed /\ "lead" \in q.busy) => NoneOf(cs, {"update"})
  <2> SUFFICES ASSUME ~q.mixed, "lead" \in q.busy PROVE NoneOf(cs, {"update"})
    OBVIOUS
  <2>1. NoneOf(rest, {"update"}) /\ c.op = "note"
    BY <1>5 DEF CrmRow
  <2> QED
    BY <2>1, WithOneMore
<1>12. (~q.mixed /\ "lead" \notin q.busy /\ q.row # NoLead /\ ~Unheard(Held(cs), {"update"}))
          => q.row = LeadOf(s)
  BY <1>10 DEF CrmRow
<1>13. CrmRow(q, s, cs)
  BY <1>6, <1>8, <1>9, <1>11, <1>12 DEF CrmRow
<1>14. CrmNotes(q, s, cs)
  BY <1>3, <1>5, <1>9, <1>10 DEF CrmNotes
<1> QED
  BY <1>13, <1>14

\* What a call that goes leaves of the others.
LEMMA CrmWithout ==
    ASSUME NEW p, NEW s, NEW S, NEW cs \in Seq(S), CrmRow(p, s, cs), CrmNotes(p, s, cs),
           NEW i \in DOMAIN cs, NEW rest, rest = RemoveAt(cs, i)
    PROVE  /\ OnceOf(rest, {"update"}) /\ OnceOf(rest, {"note"})
           /\ OnceLoad(rest, "lead", p.generation) /\ OnceLoad(rest, "notes", p.generation)
           /\ Held(rest) \subseteq Held(cs) /\ cs[i] \in Held(cs)
           /\ \A c \in Held(cs) : c = cs[i] \/ c \in Held(rest)
           /\ \A c \in Held(rest) : CrmCallSound(c, p, s)
           /\ NoneOf(cs, {"update"}) => NoneOf(rest, {"update"})
           /\ cs[i].op = "update" => \A c \in Held(rest) : c.op # "update"
           /\ cs[i].op = "note" => \A c \in Held(rest) : c.op # "note"
           /\ (cs[i].op \in {"lead", "notes"} /\ cs[i].kept = p.generation) =>
                 \A c \in Held(rest) : ~(c.op = cs[i].op /\ c.kept = p.generation)
<1>1. \A ops : /\ OnceOf(cs, ops) => OnceOf(rest, ops)
               /\ OnceOf(cs, ops) /\ cs[i].op \in ops => NoneOf(rest, ops)
               /\ NoneOf(cs, ops) => NoneOf(rest, ops)
  BY WithoutOne
<1>2. \A op, n :
         /\ OnceLoad(cs, op, n) => OnceLoad(rest, op, n)
         /\ (OnceLoad(cs, op, n) /\ cs[i].op = op /\ cs[i].kept = n) => NoLoad(rest, op, n)
  BY LoadsWithoutOne
<1>3. /\ \A k \in DOMAIN rest : \E m \in DOMAIN cs : rest[k] = cs[m]
      /\ \A n \in DOMAIN cs : n = i \/ \E k \in DOMAIN rest : rest[k] = cs[n]
  BY OthersMoveUp
<1>4. /\ Held(rest) \subseteq Held(cs) /\ cs[i] \in Held(cs)
      /\ \A c \in Held(cs) : c = cs[i] \/ c \in Held(rest)
  BY <1>3 DEF Held
<1>5. OnceOf(cs, {"update"}) /\ OnceOf(cs, {"note"})
  BY DEF CrmRow
<1>6. OnceLoad(cs, "lead", p.generation) /\ OnceLoad(cs, "notes", p.generation)
  BY DEF CrmRow, CrmNotes
<1>7. \A c \in Held(rest) : CrmCallSound(c, p, s)
  BY <1>4 DEF CrmRow
<1>8. cs[i].op = "update" => \A c \in Held(rest) : c.op # "update"
  BY <1>1, <1>5, NoneHeld
<1>9. cs[i].op = "note" => \A c \in Held(rest) : c.op # "note"
  BY <1>1, <1>5, NoneHeld
<1>10. (cs[i].op \in {"lead", "notes"} /\ cs[i].kept = p.generation) =>
          \A c \in Held(rest) : ~(c.op = cs[i].op /\ c.kept = p.generation)
  <2>1. (cs[i].op \in {"lead", "notes"} /\ cs[i].kept = p.generation)
           => NoLoad(rest, cs[i].op, p.generation)
    BY <1>2, <1>6
  <2> QED
    BY <2>1 DEF NoLoad, Held
<1> QED
  BY <1>1, <1>2, <1>4, <1>5, <1>6, <1>7, <1>8, <1>9, <1>10

\* The answer of call i is taken: by a load that is forgotten, or by the last.
LEMMA CrmLoaded ==
    ASSUME NEW p, NEW s, NEW S, NEW cs \in Seq(S), CrmRow(p, s, cs), CrmNotes(p, s, cs),
           NEW i \in DOMAIN cs, NEW g, g = cs[i], g.state # "sent", NEW q,
           q.generation = p.generation, q.mixed = p.mixed,
           \/ /\ g.op \in {"lead", "notes"} /\ g.kept # p.generation
              /\ q.row = p.row /\ q.notes = p.notes /\ q.busy = p.busy
           \/ /\ g.op = "lead" /\ g.kept = p.generation /\ q.row = Head(g.body)
              /\ q.notes = p.notes /\ q.busy = p.busy \ {"lead"}
           \/ /\ g.op = "notes" /\ g.kept = p.generation /\ q.row = p.row
              /\ q.notes = Head(g.body) /\ q.busy = p.busy \ {"notes"},
           NEW rest, rest = RemoveAt(cs, i)
    PROVE  CrmRow(q, s, rest) /\ CrmNotes(q, s, rest)
<1>1. /\ OnceOf(rest, {"update"}) /\ OnceOf(rest, {"note"})
      /\ OnceLoad(rest, "lead", p.generation) /\ OnceLoad(rest, "notes", p.generation)
      /\ Held(rest) \subseteq Held(cs) /\ g \in Held(cs)
      /\ \A c \in Held(cs) : c = g \/ c \in Held(rest)
      /\ \A c \in Held(rest) : CrmCallSound(c, p, s)
      /\ NoneOf(cs, {"update"}) => NoneOf(rest, {"update"})
      /\ (g.op \in {"lead", "notes"} /\ g.kept = p.generation) =>
            \A c \in Held(rest) : ~(c.op = g.op /\ c.kept = p.generation)
  BY CrmWithout
<1>2. g.state = "ok" /\ CrmCallSound(g, p, s) /\ g.op \in {"lead", "notes"}
  BY <1>1 DEF CrmRow, CrmCallSound
<1>3. /\ Unheard(Held(cs), {"update"}) <=> Unheard(Held(rest), {"update"})
      /\ Unheard(Held(cs), {"note"}) <=> Unheard(Held(rest), {"note"})
  BY <1>1, <1>2 DEF Unheard
<1>4. \A c \in Held(rest) : CrmCallSound(c, q, s)
  <2> SUFFICES ASSUME NEW c \in Held(rest) PROVE CrmCallSound(c, q, s)
    OBVIOUS
  <2>1. /\ CrmCallSound(c, p, s)
        /\ g.kept = p.generation => ~(c.op = g.op /\ c.kept = p.generation)
    BY <1>1, <1>2
  <2> QED
    BY <2>1 DEF CrmCallSound
<1>5. (~q.mixed /\ "lead" \in q.busy) => NoneOf(rest, {"update"})
  BY <1>1 DEF CrmRow
<1>6. (~q.mixed /\ "lead" \notin q.busy /\ q.row # NoLead
         /\ ~Unheard(Held(rest), {"update"})) => q.row = LeadOf(s)
  BY <1>2, <1>3 DEF CrmRow, CrmCallSound
<1>7. CrmRow(q, s, rest)
  <2>1. ~s.converted
    BY DEF CrmRow
  <2> QED
    BY <1>1, <1>4, <1>5, <1>6, <2>1 DEF CrmRow
<1>8. CrmNotes(q, s, rest)
  BY <1>1, <1>2, <1>3 DEF CrmNotes
<1> QED
  BY <1>7, <1>8

LEMMA CrmSaved ==
    ASSUME NEW p, NEW s, NEW S, NEW cs \in Seq(S), CrmRow(p, s, cs), CrmNotes(p, s, cs),
           NEW i \in DOMAIN cs, NEW g, g = cs[i], g.state # "sent", g.op = "update",
           NEW q, q.generation = p.generation, q.mixed = p.mixed, q.notes = p.notes,
           q.row = Head(g.body), q.busy = p.busy \ {"saving", "status"},
           NEW rest, rest = RemoveAt(cs, i)
    PROVE  CrmRow(q, s, rest) /\ CrmNotes(q, s, rest)
<1>1. /\ OnceOf(rest, {"update"}) /\ OnceOf(rest, {"note"})
      /\ OnceLoad(rest, "lead", p.generation) /\ OnceLoad(rest, "notes", p.generation)
      /\ Held(rest) \subseteq Held(cs) /\ g \in Held(cs)
      /\ \A c \in Held(cs) : c = g \/ c \in Held(rest)
      /\ \A c \in Held(rest) : CrmCallSound(c, p, s)
      /\ \A c \in Held(rest) : c.op # "update"
  BY CrmWithout
<1>2. g.state = "ok" /\ CrmCallSound(g, p, s)
  BY <1>1 DEF CrmRow, CrmCallSound
<1>3. Unheard(Held(cs), {"note"}) <=> Unheard(Held(rest), {"note"})
  BY <1>1 DEF Unheard
<1>4. \A c \in Held(rest) : CrmCallSound(c, q, s)
  BY <1>1 DEF CrmCallSound
<1>5. NoneOf(rest, {"update"})
  BY <1>1, NoneHeld
<1>6. q.row = LeadOf(s)
  BY <1>2 DEF CrmCallSound
<1>7. CrmRow(q, s, rest)
  <2>1. ~s.converted
    BY DEF CrmRow
  <2> QED
    BY <1>1, <1>4, <1>5, <1>6, <2>1 DEF CrmRow
<1>8. CrmNotes(q, s, rest)
  BY <1>1, <1>3 DEF CrmNotes
<1> QED
  BY <1>7, <1>8

\* A note is reported: the row is as sound as before, and the lead is to be
\* loaded again.
LEMMA CrmNoteSaved ==
    ASSUME NEW p, NEW s, NEW S, NEW cs \in Seq(S), CrmRow(p, s, cs), CrmNotes(p, s, cs),
           NEW i \in DOMAIN cs, cs[i].op = "note",
           NEW q, q.generation = p.generation, q.mixed = p.mixed,
           q.row = p.row, q.busy = p.busy \ {"saving", "note"},
           NEW rest, rest = RemoveAt(cs, i)
    PROVE  CrmRow(q, s, rest)
<1>1. /\ OnceOf(rest, {"update"}) /\ OnceOf(rest, {"note"})
      /\ OnceLoad(rest, "lead", p.generation)
      /\ Held(rest) \subseteq Held(cs)
      /\ \A c \in Held(cs) : c = cs[i] \/ c \in Held(rest)
      /\ \A c \in Held(rest) : CrmCallSound(c, p, s)
      /\ NoneOf(cs, {"update"}) => NoneOf(rest, {"update"})
      /\ \A c \in Held(rest) : c.op # "note"
  BY CrmWithout
<1>2. Unheard(Held(cs), {"update"}) <=> Unheard(Held(rest), {"update"})
  BY <1>1 DEF Unheard
<1>3. \A c \in Held(rest) : CrmCallSound(c, q, s)
  BY <1>1 DEF CrmCallSound
<1>4. ~s.converted
  BY DEF CrmRow
<1>5. (~q.mixed /\ "lead" \in q.busy) => NoneOf(rest, {"update"})
  BY <1>1 DEF CrmRow
<1>6. (~q.mixed /\ "lead" \notin q.busy /\ q.row # NoLead
         /\ ~Unheard(Held(rest), {"update"})) => q.row = LeadOf(s)
  BY <1>2 DEF CrmRow
<1> QED
  BY <1>1, <1>3, <1>4, <1>5, <1>6 DEF CrmRow

\* The backend performs the call c, which becomes d.
LEMMA CrmServed ==
    ASSUME NEW p, NEW s, NEW cs, CrmRow(p, s, cs), CrmNotes(p, s, cs),
           NEW t, NEW ds, DOMAIN ds = DOMAIN cs,
           \A k \in DOMAIN cs : ds[k].op = cs[k].op /\ ds[k].kept = cs[k].kept,
           NEW c \in Held(cs), NEW d, d \in Held(ds), Held(ds) \subseteq Held(cs) \union {d},
           \A x \in Held(cs) : x = c \/ x \in Held(ds),
           d.op = c.op, d.kept = c.kept, c.state = "sent", d.state = "ok", ~t.converted,
           \/ c.op = "lead" /\ t = s /\ Head(d.body) = LeadOf(t)
           \/ c.op = "notes" /\ t = s /\ Head(d.body) = s.notes
           \/ c.op = "update" /\ t.notes = s.notes /\ Head(d.body) = LeadOf(t)
           \/ c.op = "note" /\ LeadOf(t) = LeadOf(s)
    PROVE  CrmRow(p, t, ds) /\ CrmNotes(p, t, ds)
<1>1. \A x \in Held(cs) : CrmCallSound(x, p, s)
  BY DEF CrmRow
<1>2. /\ OnceOf(ds, {"update"}) /\ OnceOf(ds, {"note"})
      /\ OnceLoad(ds, "lead", p.generation) /\ OnceLoad(ds, "notes", p.generation)
      /\ NoneOf(ds, {"update"}) <=> NoneOf(cs, {"update"})
  BY LoadsWithAnswer DEF CrmRow, CrmNotes
<1>3. /\ c.op = "update" => Unheard(Held(ds), {"update"})
      /\ c.op = "note" => Unheard(Held(ds), {"note"})
  BY DEF Unheard
<1>4. /\ c.op # "update" =>
            (Unheard(Held(ds), {"update"}) <=> Unheard(Held(cs), {"update"}))
      /\ c.op # "note" => (Unheard(Held(ds), {"note"}) <=> Unheard(Held(cs), {"note"}))
  BY DEF Unheard
\* While a change of the status is under way, no load counts, nor is another.
<1>5. c.op = "update" => \A x \in Held(cs) :
         /\ x.op = "update" => x.state = "sent"
         /\ (x.op = "lead" /\ x.kept = p.generation) => p.mixed
  <2> SUFFICES ASSUME c.op = "update", NEW x \in Held(cs)
               PROVE  /\ x.op = "update" => x.state = "sent"
                      /\ (x.op = "lead" /\ x.kept = p.generation) => p.mixed
    OBVIOUS
  <2>1. PICK a \in DOMAIN cs, b \in DOMAIN cs : cs[a] = c /\ cs[b] = x
    BY DEF Held
  <2>2. x.op = "update" => x = c
    BY <2>1 DEF CrmRow, OnceOf
  <2>3. ~NoneOf(cs, {"update"})
    BY <2>1 DEF NoneOf
  <2>4. (x.op = "lead" /\ x.kept = p.generation) => "lead" \in p.busy
    BY <1>1 DEF CrmCallSound
  <2> QED
    BY <2>2, <2>3, <2>4 DEF CrmRow
<1>6. c.op \in {"lead", "notes", "note"} => LeadOf(t) = LeadOf(s)
  OBVIOUS
<1>7. ASSUME NEW x \in Held(ds) PROVE CrmCallSound(x, p, t)
  <2>1. CASE x = d
    <3>1. CrmCallSound(c, p, s)
      BY <1>1
    <3> QED
      BY <2>1, <3>1 DEF CrmCallSound
  <2>2. CASE x \in Held(cs)
    <3>1. CrmCallSound(x, p, s)
      BY <1>1, <2>2
    <3>2. CASE c.op = "update"
      BY <1>5, <2>2, <3>1, <3>2 DEF CrmCallSound
    <3>3. CASE c.op # "update"
      BY <1>6, <3>1, <3>3 DEF CrmCallSound
    <3> QED
      BY <3>2, <3>3
  <2> QED
    BY <2>1, <2>2
<1>8. ~p.mixed =>
        /\ "lead" \in p.busy => NoneOf(ds, {"update"})
        /\ ("lead" \notin p.busy /\ p.row # NoLead /\ ~Unheard(Held(ds), {"update"}))
              => p.row = LeadOf(t)
  BY <1>2, <1>3, <1>4, <1>6 DEF CrmRow
<1>9. CrmRow(p, t, ds)
  BY <1>2, <1>7, <1>8 DEF CrmRow
<1>10. CrmNotes(p, t, ds)
  <2>1. CASE c.op = "note"
    BY <1>2, <1>3, <2>1 DEF CrmNotes
  <2>2. CASE c.op # "note"
    <3>1. t.notes = s.notes
      BY <2>2
    <3> QED
      BY <1>2, <1>4, <2>2, <3>1 DEF CrmNotes
  <2> QED
    BY <2>1, <2>2
<1> QED
  BY <1>9, <1>10

-----------------------------------------------------------------------------
(* The website lead.                                                        *)

\* What a call that goes leaves of the others.
LEMMA OthersLeft ==
    ASSUME NEW S, NEW cs \in Seq(S), NEW i \in DOMAIN cs, NEW rest, rest = RemoveAt(cs, i)
    PROVE  /\ Held(rest) \subseteq Held(cs) /\ cs[i] \in Held(cs)
           /\ \A c \in Held(cs) : c = cs[i] \/ c \in Held(rest)
           /\ \A ops : /\ OnceOf(cs, ops) => OnceOf(rest, ops)
                       /\ OnceOf(cs, ops) /\ cs[i].op \in ops
                             => \A c \in Held(rest) : c.op \notin ops
<1>1. \A ops : /\ OnceOf(cs, ops) => OnceOf(rest, ops)
               /\ OnceOf(cs, ops) /\ cs[i].op \in ops => NoneOf(rest, ops)
  BY WithoutOne
<1>2. /\ \A k \in DOMAIN rest : \E m \in DOMAIN cs : rest[k] = cs[m]
      /\ \A n \in DOMAIN cs : n = i \/ \E k \in DOMAIN rest : rest[k] = cs[n]
  BY OthersMoveUp
<1>3. /\ Held(rest) \subseteq Held(cs) /\ cs[i] \in Held(cs)
      /\ \A c \in Held(cs) : c = cs[i] \/ c \in Held(rest)
  BY <1>2 DEF Held
<1> QED
  BY <1>1, <1>3, NoneHeld

LEMMA InquiryOpened ==
    ASSUME NEW p, NEW s, NEW cs, InquiryUnseen(p, s, cs) \/ InquiryShown(p, s, cs),
           p.generation = 0, NEW q, q.row = p.row, q.notes = p.notes, q.generation = 1,
           NEW c, c.op = "open", c.state = "sent", NEW new, new = cs \o <<c>>
    PROVE  InquiryUnseen(q, s, new)
<1>1. InquiryUnseen(p, s, cs) /\ cs = <<>>
  BY DEF InquiryUnseen, InquiryShown
<1>2. new = <<c>>
  BY <1>1
<1>3. Held(new) = {c} /\ DOMAIN new = {1}
  <2>1. DOMAIN new = {1}
    BY <1>2
  <2> QED
    BY <1>2, <2>1, HeldOne
<1>4. OnceOf(new, {"open"})
  BY <1>3 DEF OnceOf
<1> QED
  BY <1>1, <1>3, <1>4 DEF InquiryUnseen

\* With the answer of call g, and the rest, the page of p is sound.
InquiryLoads(p, s, g, rest) ==
    \A q : (/\ q.role = p.role /\ q.generation = p.generation
            /\ q.row = Head(g.body).row /\ q.notes = Head(g.body).notes)
           => InquiryShown(q, s, rest)

LEMMA InquiryLoaded ==
    ASSUME NEW p, NEW s, NEW S, NEW cs \in Seq(S),
           InquiryUnseen(p, s, cs) \/ InquiryShown(p, s, cs),
           NEW i \in DOMAIN cs, NEW g, g = cs[i], g.op = "open", g.state # "sent",
           NEW rest, rest = RemoveAt(cs, i)
    PROVE  /\ g.state = "ok"
           /\ InquiryLoads(p, s, g, rest)
<1>1. g \in Held(cs)
  BY DEF Held
<1>2. InquiryUnseen(p, s, cs)
  BY <1>1 DEF InquiryShown, InquiryCallSound, SavingOps
<1>3. /\ g.state = "ok" /\ Head(g.body).row = LeadOf(s) /\ Head(g.body).notes = s.notes
      /\ OnceOf(cs, {"open"}) /\ s.assigned = "nobody" /\ ~s.converted
      /\ p.generation # 0
  <2>1. cs # <<>>
    BY <1>1, HeldNone
  <2> QED
    BY <1>1, <1>2, <2>1 DEF InquiryUnseen
<1>4. Held(rest) = {}
  BY <1>2, <1>3, OthersLeft DEF InquiryUnseen
<1>5. \A ops : OnceOf(rest, ops)
  BY <1>4 DEF Held, OnceOf
<1>6. LeadOf(s).assigned = s.assigned
  BY LeadOfIs
<1>7. ASSUME NEW q, q.role = p.role, q.generation = p.generation,
             q.row = Head(g.body).row, q.notes = Head(g.body).notes
      PROVE  InquiryShown(q, s, rest)
  <2>1. InquirySound(q, s, {})
    BY <1>3, <1>6, <1>7 DEF InquirySound, Unheard
  <2> QED
    BY <1>3, <1>4, <1>5, <1>7, <2>1 DEF InquiryShown
<1> QED
  BY <1>3, <1>7 DEF InquiryLoads

\* A request is made with its lock, when the row on the screen offers it.
LEMMA InquiryAsked ==
    ASSUME NEW p, NEW s, NEW S, NEW cs \in Seq(S), InquiryShown(p, s, cs),
           NEW c, c.state = "sent", NEW l, l \notin p.busy,
           \/ c.op \in SavingOps /\ l = "saving"
           \/ c.op = "convert" /\ l = "converting",
           c.op = "claim" => p.row.assigned = "nobody",
           c.op # "claim" => p.role = "ADMIN" \/ p.row.assigned = "me",
           c.op = "update" => c.arg.to = "keep" \/ p.role = "ADMIN",
           NEW q, q.row = p.row, q.notes = p.notes, q.generation = p.generation,
           q.busy = p.busy \union {l}, q.role = p.role,
           NEW new, new = cs \o <<c>>
    PROVE  InquiryShown(q, s, new)
<1>1. PICK one : one = <<c>>
  OBVIOUS
<1>2. one \in Seq({c}) /\ Held(one) = {c}
  BY <1>1, HeldOne
<1>3. Held(new) = Held(cs) \union {c}
  <2>1. Held(cs \o one) = Held(cs) \union Held(one)
    BY <1>2, HeldJoined
  <2> QED
    BY <1>1, <1>2, <2>1
<1>4. \A d \in Held(cs) : InquiryCallSound(d, p)
  BY DEF InquiryShown
<1>5. /\ c.op \in SavingOps => \A d \in Held(cs) : d.op \notin SavingOps
      /\ c.op = "convert" => \A d \in Held(cs) : d.op # "convert"
  BY <1>4 DEF InquiryCallSound, SavingOps
<1>6. OnceOf(new, SavingOps) /\ OnceOf(new, {"convert"})
  <2>1. c.op \in SavingOps => NoneOf(cs, SavingOps)
    BY <1>5, NoneHeld
  <2>2. c.op \in {"convert"} => NoneOf(cs, {"convert"})
    BY <1>5, NoneHeld
  <2> QED
    BY <2>1, <2>2, WithOneMore DEF InquiryShown
<1>7. \A d \in Held(new) : InquiryCallSound(d, q)
  <2>1. InquiryCallSound(c, q)
    BY DEF InquiryCallSound, SavingOps
  <2>2. ASSUME NEW d \in Held(cs) PROVE InquiryCallSound(d, q)
    BY <1>4 DEF InquiryCallSound
  <2> QED
    BY <1>3, <2>1, <2>2
<1>8. \A ops : Unheard(Held(new), ops) <=> Unheard(Held(cs), ops)
  BY <1>3 DEF Unheard
<1>9. ASSUME InquirySound(p, s, Held(cs)) PROVE InquirySound(q, s, Held(new))
  <2>1. c.op \in SavingOps => p.row = LeadOf(s)
    BY <1>5, <1>9 DEF InquirySound, Unheard, SavingOps
  <2>2. c.op = "claim" => s.assigned = "nobody"
    BY <2>1, LeadOfIs DEF SavingOps
  <2>3. c.op # "claim" => OwnedBy(p, s)
    BY <1>9 DEF InquirySound, OwnedBy
  <2>4. OwnedBy(q, s) <=> OwnedBy(p, s)
    BY DEF OwnedBy
  <2>5. \A d \in Held(new) :
          /\ d.state \in {"sent", "ok"}
          /\ (d.op = "claim" /\ d.state = "sent") => s.assigned = "nobody"
          /\ d.op \in {"update", "note", "convert"} => OwnedBy(q, s)
          /\ (d.op \in {"update", "claim"} /\ d.state = "ok") => Head(d.body) = LeadOf(s)
    BY <1>3, <1>9, <2>2, <2>3, <2>4 DEF InquirySound
  <2> QED
    BY <1>8, <1>9, <2>4, <2>5 DEF InquirySound
<1> QED
  BY <1>6, <1>7, <1>8, <1>9 DEF InquiryShown

\* A save, a claim or a note is answered.
LEMMA InquiryAnswered ==
    ASSUME NEW p, NEW s, NEW S, NEW cs \in Seq(S), InquiryShown(p, s, cs),
           NEW i \in DOMAIN cs, NEW g, g = cs[i], g.state # "sent", NEW lock,
           NEW q, q.generation = p.generation, q.role = p.role,
           q.busy = p.busy \ {"saving", lock}, lock \notin {"converting"},
           \/ g.op \in {"update", "claim"} /\ q.notes = p.notes
              /\ q.row = (IF g.state = "ok" THEN Head(g.body) ELSE p.row)
           \/ g.op = "note" /\ q.row = p.row
              /\ q.notes = (IF g.state = "ok" THEN p.notes + 1 ELSE p.notes),
           NEW rest, rest = RemoveAt(cs, i)
    PROVE  InquiryShown(q, s, rest)
<1>1. /\ Held(rest) \subseteq Held(cs) /\ g \in Held(cs)
      /\ \A c \in Held(cs) : c = g \/ c \in Held(rest)
      /\ \A ops : /\ OnceOf(cs, ops) => OnceOf(rest, ops)
                  /\ OnceOf(cs, ops) /\ g.op \in ops
                        => \A c \in Held(rest) : c.op \notin ops
  BY OthersLeft
<1>2. g.op \in SavingOps
  BY DEF SavingOps
<1>3. /\ OnceOf(rest, SavingOps) /\ OnceOf(rest, {"convert"})
      /\ \A c \in Held(rest) : c.op \notin SavingOps
  BY <1>1, <1>2 DEF InquiryShown
<1>4. \A c \in Held(rest) : InquiryCallSound(c, q)
  <2> SUFFICES ASSUME NEW c \in Held(rest) PROVE InquiryCallSound(c, q)
    OBVIOUS
  <2>1. InquiryCallSound(c, p) /\ c.op \notin SavingOps
    BY <1>1, <1>3 DEF InquiryShown
  <2> QED
    BY <2>1 DEF InquiryCallSound, SavingOps
<1>5. Unheard(Held(cs), {"convert"}) => Unheard(Held(rest), {"convert"})
  BY <1>1, <1>2 DEF Unheard, SavingOps
<1>6. ASSUME InquirySound(p, s, Held(cs)) PROVE InquirySound(q, s, Held(rest))
  <2>1. g.state = "ok"
    BY <1>1, <1>6 DEF InquirySound
  <2>2. q.row = LeadOf(s)
    <3>1. CASE g.op = "note"
      <4>1. ~Unheard(Held(cs), {"update", "claim"})
        BY <1>1, <1>3, <3>1 DEF Unheard, SavingOps
      <4> QED
        BY <1>6, <3>1, <4>1 DEF InquirySound
    <3>2. CASE g.op # "note"
      BY <1>1, <1>6, <2>1, <3>2 DEF InquirySound
    <3> QED
      BY <3>1, <3>2
  <2>3. s.notes = q.notes
    <3>1. Unheard(Held(cs), {"note"}) <=> g.op = "note"
      BY <1>1, <1>3, <2>1 DEF Unheard, SavingOps
    <3> QED
      BY <1>6, <2>1, <3>1 DEF InquirySound
  <2>4. OwnedBy(q, s) \/ q.row.assigned # "me"
    BY <2>2, LeadOfIs DEF OwnedBy
  <2>5. OwnedBy(q, s) <=> OwnedBy(p, s)
    BY DEF OwnedBy
  <2>6. \A c \in Held(rest) :
          /\ c.state \in {"sent", "ok"}
          /\ (c.op = "claim" /\ c.state = "sent") => s.assigned = "nobody"
          /\ c.op \in {"update", "note", "convert"} => OwnedBy(q, s)
          /\ (c.op \in {"update", "claim"} /\ c.state = "ok") => Head(c.body) = LeadOf(s)
    BY <1>1, <1>6, <2>5 DEF InquirySound
  <2>7. ~Unheard(Held(rest), {"note"}) /\ ~s.converted
    BY <1>3, <1>6 DEF Unheard, SavingOps, InquirySound
  <2> QED
    BY <2>2, <2>3, <2>4, <2>6, <2>7 DEF InquirySound
<1>7. q.generation # 0
  BY DEF InquiryShown
<1> QED
  BY <1>3, <1>4, <1>5, <1>6, <1>7 DEF InquiryShown

\* The backend performs the call c, which becomes d.
LEMMA InquiryServed ==
    ASSUME NEW p, NEW s, NEW cs, InquiryShown(p, s, cs),
           NEW t, NEW ds, \A ops : OnceOf(cs, ops) => OnceOf(ds, ops),
           NEW c \in Held(cs), NEW d, d \in Held(ds), Held(ds) \subseteq Held(cs) \union {d},
           \A x \in Held(cs) : x = c \/ x \in Held(ds),
           \A x \in Held(ds) : x = d \/ x.op \notin SavingOps \/ d.op \notin SavingOps,
           d.op = c.op, d.arg = c.arg, c.state = "sent",
           InquirySound(p, s, Held(cs)) =>
              /\ d.state = "ok"
              /\ \/ c.op = "convert"
                 \/ /\ c.op \in {"update", "claim"} /\ Head(d.body) = LeadOf(t)
                    /\ t.notes = s.notes /\ ~t.converted
                    /\ (c.op = "claim" \/ c.arg.to # "keep") \/ t.assigned = s.assigned
                    /\ c.op = "claim" => t.assigned = "me"
                 \/ /\ c.op = "note" /\ t.notes = s.notes + 1 /\ LeadOf(t) = LeadOf(s)
                    /\ ~t.converted /\ t.assigned = s.assigned
    PROVE  InquiryShown(p, t, ds)
<1>1. \A x \in Held(cs) : InquiryCallSound(x, p)
  BY DEF InquiryShown
<1>2. ASSUME Unheard(Held(cs), {"convert"}) PROVE c.op # "convert"
  <2>1. PICK a \in DOMAIN cs, b \in DOMAIN cs :
          cs[a] = c /\ cs[b].op = "convert" /\ cs[b].state = "ok"
    BY <1>2 DEF Unheard, Held
  <2> QED
    BY <2>1 DEF InquiryShown, OnceOf
<1>3. CASE Unheard(Held(cs), {"convert"})
  <2>1. InquiryCallSound(d, p)
    BY <1>1, <1>2, <1>3 DEF InquiryCallSound, SavingOps
  <2>2. Unheard(Held(ds), {"convert"})
    BY <1>3 DEF Unheard
  <2> QED
    BY <1>1, <2>1, <2>2 DEF InquiryShown
<1>4. CASE InquirySound(p, s, Held(cs))
  <2>1. d.state = "ok"
    BY <1>4
  <2>2. InquiryCallSound(d, p)
    BY <1>1, <2>1 DEF InquiryCallSound, SavingOps
  <2>3. \A x \in Held(ds) : InquiryCallSound(x, p)
    BY <1>1, <2>2
  <2>4. CASE c.op = "convert"
    <3>1. Unheard(Held(ds), {"convert"})
      BY <2>1, <2>4 DEF Unheard
    <3> QED
      BY <2>3, <3>1 DEF InquiryShown
  <2>5. ASSUME c.op \in SavingOps PROVE InquirySound(p, t, Held(ds))
    <3>1. \A x \in Held(ds) : x = d \/ (x \in Held(cs) /\ x.op = "convert")
      BY <1>1, <2>5 DEF InquiryCallSound, SavingOps
    <3>2. OwnedBy(p, s) => OwnedBy(p, t)
      BY <1>1, <1>4, <2>5 DEF OwnedBy, SavingOps, InquiryCallSound
    <3>3. OwnedBy(p, t) \/ p.row.assigned # "me"
      BY <1>4, <3>2 DEF InquirySound
    <3>4. c.op \in {"update", "note"} => OwnedBy(p, t)
      BY <1>4, <3>2 DEF InquirySound
    <3>5. \A x \in Held(ds) :
            /\ x.state \in {"sent", "ok"}
            /\ (x.op = "claim" /\ x.state = "sent") => t.assigned = "nobody"
            /\ x.op \in {"update", "note", "convert"} => OwnedBy(p, t)
            /\ (x.op \in {"update", "claim"} /\ x.state = "ok") => Head(x.body) = LeadOf(t)
      <4>1. /\ d.op = "claim" => d.state = "ok"
            /\ d.op \in {"update", "claim"} => Head(d.body) = LeadOf(t)
        BY <1>4, <2>1, <2>5 DEF SavingOps
      <4>2. ASSUME NEW x \in Held(cs), x.op = "convert"
            PROVE  x.state \in {"sent", "ok"} /\ OwnedBy(p, t)
        BY <1>4, <3>2, <4>2 DEF InquirySound
      <4> QED
        BY <2>1, <2>5, <3>1, <3>4, <4>1, <4>2 DEF SavingOps
    <3>6. /\ Unheard(Held(ds), {"update", "claim"}) <=> c.op \in {"update", "claim"}
          /\ Unheard(Held(ds), {"note"}) <=> c.op = "note"
      BY <2>1, <3>1 DEF Unheard
    <3>7. /\ ~Unheard(Held(cs), {"note"})
          /\ ~Unheard(Held(cs), {"update", "claim"})
      <4>1. ASSUME NEW x \in Held(cs), x.op \in SavingOps PROVE x.state = "sent"
        <5>1. PICK a \in DOMAIN cs, b \in DOMAIN cs : cs[a] = c /\ cs[b] = x
          BY DEF Held
        <5>2. x = c
          BY <2>5, <4>1, <5>1 DEF InquiryShown, OnceOf
        <5> QED
          BY <5>2
      <4> QED
        BY <4>1 DEF Unheard, SavingOps
    <3>8. s.notes = p.notes /\ p.row = LeadOf(s)
      BY <1>4, <3>7 DEF InquirySound
    <3>9. ~t.converted
      BY <1>4, <2>5 DEF SavingOps
    <3>10. c.op = "note" => t.notes = p.notes + 1 /\ p.row = LeadOf(t)
      BY <1>4, <3>8
    <3>11. c.op # "note" => t.notes = p.notes
      BY <1>4, <2>5, <3>8 DEF SavingOps
    <3>12. t.notes = IF Unheard(Held(ds), {"note"}) THEN p.notes + 1 ELSE p.notes
      BY <3>6, <3>10, <3>11
    <3>13. ~Unheard(Held(ds), {"update", "claim"}) => p.row = LeadOf(t)
      BY <2>5, <3>6, <3>10 DEF SavingOps
    <3> QED
      BY <3>3, <3>5, <3>9, <3>12, <3>13 DEF InquirySound
  <2>6. c.op \in SavingOps \/ c.op = "convert"
    BY <1>1 DEF InquiryCallSound
  <2> QED
    BY <2>3, <2>4, <2>5, <2>6 DEF InquiryShown
<1> QED
  BY <1>3, <1>4 DEF InquiryShown
-----------------------------------------------------------------------------
(* The actions of the lead pages.                                           *)

LEMMA NothingJoined ==
    ASSUME NEW S, NEW s \in Seq(S), NEW none, none = <<>>
    PROVE  s \o none = s
  OBVIOUS

\* The page becomes q and makes calls.
LEMMA LeadAsks ==
    ASSUME LeadInv, At("lead"), NEW q, IsLeadPage(q), q.kind = page.kind,
           NEW T, NEW new \in Seq(T), \A c \in Held(new) : IsCall(c), Ask(q, new),
           LeadQuiet(page, server, calls) => LeadQuiet(q, server, calls \o new)
    PROVE  LeadInv'
<1>1. /\ Known(calls') /\ page' = q /\ server' = server /\ lost' = lost
  BY LeadKnows, HeldAsked
<1>2. calls' = calls \o new
  BY DEF Ask
<1>3. (server.others = 0 /\ lost = 0) => LeadQuiet(q, server, calls')
  BY <1>2, LeadKnows
<1> QED
  BY <1>1, <1>3, LeadKnows, LeadGoesOn

LEMMA LeadAsksOne ==
    ASSUME LeadInv, At("lead"), NEW q, IsLeadPage(q), q.kind = page.kind,
           NEW c, IsCall(c), Ask(q, <<c>>),
           LeadQuiet(page, server, calls) => LeadQuiet(q, server, calls \o <<c>>)
    PROVE  LeadInv'
<1>1. PICK new : new = <<c>>
  OBVIOUS
<1>2. new \in Seq({c}) /\ Held(new) = {c}
  BY <1>1, HeldOne
<1>3. \A x \in Held(new) : IsCall(x)
  BY <1>2
<1>4. LeadQuiet(page, server, calls) => LeadQuiet(q, server, calls \o new)
  BY <1>1
<1> QED
  BY <1>1, <1>2, <1>3, <1>4, LeadAsks

\* Call i goes, and the page becomes q.
LEMMA LeadContinues ==
    ASSUME LeadInv, At("lead"), NEW q, IsLeadPage(q), q.kind = page.kind,
           NEW i \in DOMAIN calls, Continue(i, q, <<>>),
           LeadQuiet(page, server, calls) => LeadQuiet(q, server, RemoveAt(calls, i))
    PROVE  LeadInv'
<1>1. PICK new : new = <<>> /\ new \in Seq({}) /\ Held(new) = {}
  BY NoCall, HeldNone
<1>2. Continue(i, q, new)
  BY <1>1
<1>3. /\ Known(calls') /\ page' = q /\ server' = server /\ lost' = lost
  BY <1>1, <1>2, LeadKnows, HeldContinued
<1>4. PICK S : calls \in Seq(S)
  BY LeadKnows
<1>5. PICK rest : rest = RemoveAt(calls, i) /\ rest \in Seq(S)
  BY <1>4, RemovedCalls
<1>6. calls' = rest \o new
  BY <1>2, <1>5 DEF Continue
<1>7. calls' = rest
  BY <1>1, <1>5, <1>6, NothingJoined
<1>8. (server.others = 0 /\ lost = 0) => LeadQuiet(q, server, calls')
  BY <1>5, <1>7, LeadKnows
<1> QED
  BY <1>3, <1>8, LeadKnows, LeadGoesOn

LEMMA OpenLeadSound ==
    ASSUME LeadInv, At("lead"), OpenLead
    PROVE  LeadInv'
<1>1. PICK q, new : q = Reloading(page) /\ new = Loads(q)
  OBVIOUS
<1>2. /\ Ask(q, new) /\ page.kind = "lead" /\ ~page.left
  BY <1>1 DEF OpenLead, AtLead
<1>3. IsLeadPage(q) /\ q.kind = page.kind
  BY <1>1, LeadKnows, LeadReloads DEF LeadBecomes
<1>4. /\ \E T : new \in Seq(T)
      /\ \A c \in Held(new) : IsCall(c)
  BY <1>1, LoadsAre
<1>5. PICK S : calls \in Seq(S)
  BY LeadKnows
<1>6. ASSUME LeadQuiet(page, server, calls) PROVE LeadQuiet(q, server, calls \o new)
  <2>1. CrmRow(page, server, calls)
    BY <1>2, <1>6 DEF LeadQuiet
  <2>2. CrmRow(q, server, calls \o new) /\ CrmNotes(q, server, calls \o new)
    BY <1>1, <1>5, <2>1, LeadKnows, CrmReloaded
  <2> QED
    BY <1>2, <1>3, <2>2 DEF LeadQuiet
<1> QED
  BY <1>2, <1>3, <1>4, <1>6, LeadAsks

LEMMA CrmAsksSound ==
    ASSUME LeadInv, At("lead"), handleStatusChange \/ handleAddComment
    PROVE  LeadInv'
<1>1. PICK c, l, b, q :
         /\ \/ c.op = "update" /\ l = "status"
            \/ c.op = "note" /\ l = "note"
         /\ c.state = "sent" /\ IsCall(c) /\ l \notin page.busy
         /\ b = page.busy \union {l} /\ q = [page EXCEPT !.busy = b]
         /\ Ask(q, <<c>>) /\ page.kind = "lead" /\ ~page.left /\ "lead" \notin page.busy
  <2>1. CASE handleStatusChange
    <3>1. PICK arg : /\ "status" \notin page.busy
                     /\ Ask([page EXCEPT !.busy = @ \union {"status"}],
                            <<Call("update", arg, 0)>>)
      BY <2>1 DEF handleStatusChange
    <3>2. PICK c : c = Call("update", arg, 0)
      OBVIOUS
    <3>3. c.op = "update" /\ c.state = "sent" /\ IsCall(c)
      BY <3>2 DEF Call, IsCall
    <3>4. page.kind = "lead" /\ ~page.left /\ "lead" \notin page.busy
      BY <2>1 DEF handleStatusChange, Ready, AtLead
    <3> QED
      BY <3>1, <3>2, <3>3, <3>4
  <2>2. CASE handleAddComment
    <3>1. /\ "note" \notin page.busy
          /\ Ask([page EXCEPT !.busy = @ \union {"note"}], <<Call("note", 0, 0)>>)
      BY <2>2 DEF handleAddComment
    <3>2. PICK c : c = Call("note", 0, 0)
      OBVIOUS
    <3>3. c.op = "note" /\ c.state = "sent" /\ IsCall(c)
      BY <3>2 DEF Call, IsCall
    <3>4. page.kind = "lead" /\ ~page.left /\ "lead" \notin page.busy
      BY <2>2 DEF handleAddComment, Ready, AtLead
    <3> QED
      BY <3>1, <3>2, <3>3, <3>4
  <2> QED
    BY <2>1, <2>2
<1>2. LeadBecomes(page, q, page.row, page.notes, page.generation, b, page.mixed, page.left)
  BY <1>1, LeadKnows, LeadChanged
<1>3. /\ IsLeadPage(q) /\ q.kind = page.kind /\ q.row = page.row /\ q.notes = page.notes
      /\ q.generation = page.generation /\ q.busy = page.busy \union {l}
      /\ q.mixed = page.mixed /\ q.left = page.left
  BY <1>1, <1>2 DEF LeadBecomes
<1>4. PICK S : calls \in Seq(S)
  BY LeadKnows
<1>5. ASSUME LeadQuiet(page, server, calls) PROVE LeadQuiet(q, server, calls \o <<c>>)
  <2>1. CrmRow(page, server, calls) /\ CrmNotes(page, server, calls)
    BY <1>1, <1>5 DEF LeadQuiet
  <2>2. PICK cs : cs = calls \o <<c>>
    OBVIOUS
  <2>3. CrmRow(q, server, cs) /\ CrmNotes(q, server, cs)
    BY ZenonT(60), <1>1, <1>3, <1>4, <2>1, <2>2, CrmAsked
  <2> QED
    BY <1>1, <1>3, <2>2, <2>3 DEF LeadQuiet
<1> QED
  BY <1>1, <1>3, <1>5, LeadAsksOne

LEMMA OpenWebsiteLeadSound ==
    ASSUME LeadInv, At("lead"), OpenWebsiteLead
    PROVE  LeadInv'
<1>1. PICK c, n, b, p, q : /\ c = Call("open", 0, 1) /\ n = 1 /\ b = {"lead"}
                           /\ p = [page EXCEPT !.generation = n]
                           /\ q = [p EXCEPT !.busy = b]
  OBVIOUS
<1>2. /\ Ask(q, <<c>>) /\ page.kind = "website" /\ ~page.left /\ page.generation = 0
  <2>1. /\ page.kind = "website" /\ ~page.left /\ page.generation = 0
        /\ Ask([page EXCEPT !.generation = n, !.busy = b], <<c>>)
    BY <1>1 DEF OpenWebsiteLead, AtLead
  <2>2. q = [page EXCEPT !.generation = n, !.busy = b]
    BY <1>1
  <2> QED
    BY <2>1, <2>2
<1>3. LeadBecomes(page, p, page.row, page.notes, n, page.busy, page.mixed, page.left)
  BY <1>1, LeadKnows, LeadFlag
<1>4. LeadBecomes(p, q, p.row, p.notes, p.generation, b, p.mixed, p.left)
  <2>1. IsLeadPage(p)
    BY <1>3 DEF LeadBecomes
  <2> QED
    BY <1>1, <2>1, LeadField
<1>5. /\ IsLeadPage(q) /\ q.kind = page.kind /\ q.row = page.row /\ q.notes = page.notes
      /\ q.generation = 1
  BY <1>1, <1>3, <1>4 DEF LeadBecomes
<1>6. IsCall(c) /\ c.op = "open" /\ c.state = "sent"
  BY <1>1 DEF Call, IsCall
<1>7. ASSUME LeadQuiet(page, server, calls) PROVE LeadQuiet(q, server, calls \o <<c>>)
  <2>1. InquiryUnseen(page, server, calls) \/ InquiryShown(page, server, calls)
    BY <1>2, <1>7 DEF LeadQuiet
  <2>2. PICK cs : cs = calls \o <<c>>
    OBVIOUS
  <2>3. InquiryUnseen(q, server, cs)
    BY <1>2, <1>5, <1>6, <2>1, <2>2, InquiryOpened
  <2> QED
    BY <1>2, <1>5, <2>2, <2>3 DEF LeadQuiet
<1> QED
  BY <1>2, <1>5, <1>6, <1>7, LeadAsksOne

\* What the page of a website lead sends is offered by the row it shows.
LEMMA InquiryAsks ==
    ASSUME LeadInv, At("lead"), Ready("website"), NEW q, IsLeadPage(q),
           q.kind = page.kind, q.role = page.role, q.row = page.row, q.notes = page.notes,
           q.generation = page.generation, NEW c, IsCall(c), c.state = "sent",
           NEW l, l \notin page.busy, q.busy = page.busy \union {l},
           \/ c.op \in SavingOps /\ l = "saving"
           \/ c.op = "convert" /\ l = "converting",
           c.op = "claim" => canClaim, c.op # "claim" => canManage,
           c.op = "update" => c.arg.to = "keep" \/ page.role = "ADMIN",
           Ask(q, <<c>>)
    PROVE  LeadInv'
<1>1. page.kind = "website" /\ ~page.left /\ page.row # NoLead
  BY DEF Ready, AtLead
<1>2. PICK S : calls \in Seq(S)
  BY LeadKnows
<1>3. ASSUME LeadQuiet(page, server, calls) PROVE LeadQuiet(q, server, calls \o <<c>>)
  <2>1. InquiryShown(page, server, calls)
    BY <1>1, <1>3 DEF LeadQuiet, InquiryUnseen
  <2>2. PICK cs : cs = calls \o <<c>>
    OBVIOUS
  <2>3. InquiryShown(q, server, cs)
    BY <1>2, <2>1, <2>2, InquiryAsked DEF canClaim, canManage
  <2> QED
    BY <1>1, <2>2, <2>3 DEF LeadQuiet
<1> QED
  BY <1>3, LeadAsksOne

LEMMA InquiryAsksSound ==
    ASSUME LeadInv, At("lead"), update \/ addNote \/ claim \/ convert
    PROVE  LeadInv'
<1>1. CASE update \/ addNote \/ claim
  <2>1. PICK c, b, q :
          /\ c.op \in SavingOps /\ c.state = "sent" /\ IsCall(c)
          /\ c.op = "claim" => canClaim
          /\ c.op # "claim" => canManage
          /\ c.op = "update" => c.arg.to = "keep" \/ page.role = "ADMIN"
          /\ "saving" \notin page.busy /\ b = page.busy \union {"saving"}
          /\ q = [page EXCEPT !.busy = b]
          /\ Ask(q, <<c>>) /\ Ready("website")
    <3>1. CASE update
      <4>1. PICK to, status :
              /\ to # "keep" => page.role = "ADMIN"
              /\ Ask([page EXCEPT !.busy = @ \union {"saving"}],
                     <<Call("update", [status |-> status, to |-> to], 0)>>)
        BY <3>1 DEF update
      <4>2. PICK arg, c : arg = [status |-> status, to |-> to] /\ c = Call("update", arg, 0)
        OBVIOUS
      <4>3. /\ c.op = "update" /\ c.state = "sent" /\ IsCall(c) /\ c.arg.to = to
        BY <4>2 DEF Call, IsCall
      <4>4. Ready("website") /\ canManage /\ "saving" \notin page.busy
        BY <3>1 DEF update
      <4> QED
        BY <4>1, <4>2, <4>3, <4>4 DEF SavingOps
    <3>2. CASE addNote
      <4>1. PICK c : c = Call("note", 0, 0)
        OBVIOUS
      <4>2. c.op = "note" /\ c.state = "sent" /\ IsCall(c)
        BY <4>1 DEF Call, IsCall
      <4> QED
        BY <3>2, <4>1, <4>2 DEF addNote, SavingOps
    <3>3. CASE claim
      <4>1. PICK c : c = Call("claim", 0, 0)
        OBVIOUS
      <4>2. c.op = "claim" /\ c.state = "sent" /\ IsCall(c)
        BY <4>1 DEF Call, IsCall
      <4> QED
        BY <3>3, <4>1, <4>2 DEF claim, SavingOps
    <3> QED
      BY <1>1, <3>1, <3>2, <3>3
  <2>2. LeadBecomes(page, q, page.row, page.notes, page.generation, b, page.mixed,
                    page.left)
    BY <2>1, LeadKnows, LeadChanged
  <2>3. /\ IsLeadPage(q) /\ q.kind = page.kind /\ q.role = page.role /\ q.row = page.row
        /\ q.notes = page.notes /\ q.generation = page.generation
        /\ q.busy = page.busy \union {"saving"}
    BY <2>1, <2>2 DEF LeadBecomes
  <2> QED
    BY <2>1, <2>3, InquiryAsks
<1>2. CASE convert
  <2>1. PICK c, b, m, q :
          /\ c = Call("convert", 0, 0) /\ b = page.busy \union {"converting"}
          /\ m = (page.mixed \/ "saving" \in page.busy)
          /\ q = [page EXCEPT !.busy = b, !.mixed = m]
    OBVIOUS
  <2>2. c.op = "convert" /\ c.state = "sent" /\ IsCall(c)
    BY <2>1 DEF Call, IsCall
  <2>3. /\ Ready("website") /\ canManage /\ "converting" \notin page.busy
        /\ Ask(q, <<c>>)
    BY <1>2, <2>1 DEF convert
  <2>4. LeadBecomes(page, q, page.row, page.notes, page.generation, b, m, page.left)
    BY <2>1, LeadKnows, LeadChanged
  <2>5. /\ IsLeadPage(q) /\ q.kind = page.kind /\ q.role = page.role /\ q.row = page.row
        /\ q.notes = page.notes /\ q.generation = page.generation
        /\ q.busy = page.busy \union {"converting"}
    BY <2>1, <2>4 DEF LeadBecomes
  <2> QED
    BY <2>2, <2>3, <2>5, InquiryAsks
<1> QED
  BY <1>1, <1>2

LEMMA OtherSalesSound ==
    ASSUME LeadInv, At("lead"), OtherSales
    PROVE  LeadInv'
<1>1. PICK status, assigned, converted, notes, others :
         /\ server = [status |-> status, assigned |-> assigned, converted |-> converted,
                      notes |-> notes, others |-> others]
         /\ others \in Nat
  BY LeadKnows DEF IsLeadRows
<1>2. PICK n, s : n = others + 1 /\ s = [server EXCEPT !.others = @ + 1]
  OBVIOUS
<1>3. s = [status |-> status, assigned |-> assigned, converted |-> converted,
           notes |-> notes, others |-> n]
  BY <1>1, <1>2
<1>4. n \in Nat /\ n # 0
  BY <1>1, <1>2
<1>5. PICK t : /\ Elsewhere(t)
               /\ \/ t = [s EXCEPT !.status = "WORKED"]
                  \/ t = [s EXCEPT !.assigned = "other"]
                  \/ t = [s EXCEPT !.converted = TRUE]
                  \/ t = [s EXCEPT !.notes = @ + 1]
  BY <1>2 DEF OtherSales
<1>6. IsLeadRows(t) /\ t.others # 0
  <2>1. PICK a, b, c, e :
          t = [status |-> a, assigned |-> b, converted |-> c, notes |-> e, others |-> n]
    <3>1. CASE t = [s EXCEPT !.status = "WORKED"]
      BY <1>3, <3>1
    <3>2. CASE t = [s EXCEPT !.assigned = "other"]
      BY <1>3, <3>2
    <3>3. CASE t = [s EXCEPT !.converted = TRUE]
      BY <1>3, <3>3
    <3>4. CASE t = [s EXCEPT !.notes = @ + 1]
      BY <1>3, <3>4
    <3> QED
      BY <1>5, <3>1, <3>2, <3>3, <3>4
  <2> QED
    BY <1>4, <2>1 DEF IsLeadRows
<1>7. server' = t /\ page' = page /\ calls' = calls /\ lost' = lost
  BY <1>5 DEF Elsewhere
<1>8. Known(calls')
  BY <1>7, LeadKnows
<1> QED
  BY <1>6, <1>7, <1>8, LeadKnows, LeadGoesOn

LEMMA LeadStepSound ==
    ASSUME LeadInv, At("lead"), LeadStep
    PROVE  LeadInv'
  BY OpenLeadSound, OpenWebsiteLeadSound, CrmAsksSound, InquiryAsksSound, OtherSalesSound
     DEF LeadStep
\* A load is answered.
LEMMA LeadLoadedSound ==
    ASSUME LeadInv, At("lead"), NEW i \in DOMAIN calls, LeadLoaded(i) \/ NotesLoaded(i)
    PROVE  LeadInv'
<1>1. /\ page.kind = "lead" /\ ~page.left
      /\ calls[i].op \in {"lead", "notes"} /\ calls[i].state # "sent"
      /\ calls[i] \in Held(calls)
  BY DEF LeadLoaded, NotesLoaded, AtLead, Held
<1>2. PICK S : calls \in Seq(S)
  BY LeadKnows
<1>3. PICK g, rest : g = calls[i] /\ rest = RemoveAt(calls, i)
  OBVIOUS
<1>4. LeadQuiet(page, server, calls) => g.state = "ok"
  BY <1>1, <1>3 DEF LeadQuiet, CrmRow, CrmCallSound
<1>5. ASSUME NEW q, IsLeadPage(q), q.kind = page.kind, q.left = page.left,
             q.generation = page.generation, q.mixed = page.mixed, Continue(i, q, <<>>),
             g.state = "ok" =>
               \/ /\ g.kept # page.generation
                  /\ q.row = page.row /\ q.notes = page.notes /\ q.busy = page.busy
               \/ /\ g.op = "lead" /\ g.kept = page.generation /\ q.row = Head(g.body)
                  /\ q.notes = page.notes /\ q.busy = page.busy \ {"lead"}
               \/ /\ g.op = "notes" /\ g.kept = page.generation /\ q.row = page.row
                  /\ q.notes = Head(g.body) /\ q.busy = page.busy \ {"notes"}
      PROVE  LeadInv'
  <2>1. ASSUME LeadQuiet(page, server, calls) PROVE LeadQuiet(q, server, rest)
    <3>1. CrmRow(page, server, calls) /\ CrmNotes(page, server, calls)
      BY <1>1, <2>1 DEF LeadQuiet
    <3>2. CrmRow(q, server, rest) /\ CrmNotes(q, server, rest)
      BY <1>1, <1>2, <1>3, <1>4, <1>5, <2>1, <3>1, CrmLoaded
    <3> QED
      BY <1>1, <1>5, <3>2 DEF LeadQuiet
  <2> QED
    BY <1>3, <1>5, <2>1, LeadContinues
<1>6. CASE g.kept # page.generation
  <2>1. Continue(i, page, <<>>)
    BY <1>3, <1>6 DEF LeadLoaded, NotesLoaded
  <2> QED
    BY <1>5, <1>6, <2>1, LeadKnows
<1>7. CASE g.kept = page.generation /\ g.op = "lead"
  <2>1. PICK b, row, q : /\ b = page.busy \ {"lead"}
                         /\ row = (IF g.state = "ok" THEN Head(g.body) ELSE NoLead)
                         /\ q = [page EXCEPT !.row = row, !.busy = b]
    OBVIOUS
  <2>2. Continue(i, q, <<>>)
    BY <1>1, <1>3, <1>7, <2>1 DEF LeadLoaded, NotesLoaded, Body
  <2>3. LeadBecomes(page, q, row, page.notes, page.generation, b, page.mixed, page.left)
    BY <2>1, LeadKnows, LeadChanged
  <2> QED
    BY <1>5, <1>7, <2>1, <2>2, <2>3 DEF LeadBecomes
<1>8. CASE g.kept = page.generation /\ g.op = "notes"
  <2>1. PICK b, n, q, r : /\ b = page.busy \ {"notes"} /\ n = Head(g.body)
                          /\ q = [page EXCEPT !.notes = n, !.busy = b]
                          /\ r = [page EXCEPT !.busy = b]
    OBVIOUS
  <2>2. \/ g.state = "ok" /\ Continue(i, q, <<>>)
        \/ g.state # "ok" /\ Continue(i, r, <<>>)
    BY <1>1, <1>3, <1>8, <2>1 DEF LeadLoaded, NotesLoaded, Body
  <2>3. LeadBecomes(page, q, page.row, n, page.generation, b, page.mixed, page.left)
    BY <2>1, LeadKnows, LeadChanged
  <2>4. LeadBecomes(page, r, page.row, page.notes, page.generation, b, page.mixed,
                    page.left)
    BY <2>1, LeadKnows, LeadChanged
  <2>5. CASE g.state = "ok" /\ Continue(i, q, <<>>)
    BY <1>5, <1>8, <2>1, <2>3, <2>5 DEF LeadBecomes
  <2>6. CASE g.state # "ok" /\ Continue(i, r, <<>>)
    BY <1>5, <2>4, <2>6 DEF LeadBecomes
  <2> QED
    BY <2>2, <2>5, <2>6
<1> QED
  BY <1>1, <1>3, <1>6, <1>7, <1>8

LEMMA WebsiteLeadLoadedSound ==
    ASSUME LeadInv, At("lead"), NEW i \in DOMAIN calls, WebsiteLeadLoaded(i)
    PROVE  LeadInv'
<1>1. /\ page.kind = "website" /\ ~page.left /\ calls[i].op = "open"
      /\ calls[i].state # "sent"
  BY DEF WebsiteLeadLoaded, AtLead, Succeeded, Failed
<1>2. PICK S : calls \in Seq(S)
  BY LeadKnows
<1>3. PICK g, rest : g = calls[i] /\ rest = RemoveAt(calls, i)
  OBVIOUS
<1>4. ASSUME LeadQuiet(page, server, calls)
      PROVE  g.state = "ok" /\ InquiryLoads(page, server, g, rest)
  <2>1. InquiryUnseen(page, server, calls) \/ InquiryShown(page, server, calls)
    BY <1>1, <1>4 DEF LeadQuiet
  <2>2. g = calls[i] /\ g.op = "open" /\ g.state # "sent" /\ rest = RemoveAt(calls, i)
    BY <1>1, <1>3
  <2> QED
    BY <1>2, <2>1, <2>2, InquiryLoaded
<1>5. PICK b, row, n, q, r :
        /\ b = {} /\ row = Head(g.body).row /\ n = Head(g.body).notes
        /\ q = [page EXCEPT !.row = row, !.notes = n, !.busy = b]
        /\ r = [page EXCEPT !.busy = b]
  OBVIOUS
<1>6. \/ g.state = "ok" /\ Continue(i, q, <<>>)
      \/ g.state # "ok" /\ Continue(i, r, <<>>)
  BY <1>1, <1>3, <1>5 DEF WebsiteLeadLoaded, Succeeded, Failed, Body
<1>7. LeadBecomes(page, q, row, n, page.generation, b, page.mixed, page.left)
  BY <1>5, LeadKnows, LeadChanged
<1>8. LeadBecomes(page, r, page.row, page.notes, page.generation, b, page.mixed, page.left)
  BY <1>5, LeadKnows, LeadChanged
<1>9. CASE g.state = "ok" /\ Continue(i, q, <<>>)
  <2>1. IsLeadPage(q) /\ q.kind = page.kind
    BY <1>7 DEF LeadBecomes
  <2>2. LeadQuiet(page, server, calls) => LeadQuiet(q, server, rest)
    BY <1>1, <1>4, <1>5, <1>7 DEF LeadBecomes, LeadQuiet, InquiryLoads
  <2> QED
    BY <1>3, <1>9, <2>1, <2>2, LeadContinues
<1>10. CASE g.state # "ok" /\ Continue(i, r, <<>>)
  <2>1. IsLeadPage(r) /\ r.kind = page.kind
    BY <1>8 DEF LeadBecomes
  <2>2. LeadQuiet(page, server, calls) => LeadQuiet(r, server, rest)
    BY <1>4, <1>10
  <2> QED
    BY <1>3, <1>10, <2>1, <2>2, LeadContinues
<1> QED
  BY <1>6, <1>9, <1>10

LEMMA LeadSavedSound ==
    ASSUME LeadInv, At("lead"), NEW i \in DOMAIN calls, LeadSaved(i)
    PROVE  LeadInv'
<1>1. /\ ~page.left /\ calls[i].op \in {"update", "claim"} /\ calls[i].state # "sent"
      /\ calls[i] \in Held(calls)
  BY DEF LeadSaved, Held
<1>2. PICK S : calls \in Seq(S)
  BY LeadKnows
<1>3. PICK g, rest, b, row, p, q :
        /\ g = calls[i] /\ rest = RemoveAt(calls, i) /\ b = page.busy \ {"saving", "status"}
        /\ row = (IF g.state = "ok" THEN Head(g.body) ELSE page.row)
        /\ p = [page EXCEPT !.busy = b]
        /\ q = IF g.state = "ok" THEN [p EXCEPT !.row = row] ELSE p
  OBVIOUS
<1>4. Continue(i, q, <<>>)
  BY <1>3 DEF LeadSaved, Body
<1>5. LeadBecomes(page, p, page.row, page.notes, page.generation, b, page.mixed, page.left)
  BY <1>3, LeadKnows, LeadChanged
<1>6. LeadBecomes(page, q, row, page.notes, page.generation, b, page.mixed, page.left)
  <2>1. IsLeadPage(p)
    BY <1>5 DEF LeadBecomes
  <2>2. CASE g.state = "ok"
    <3>1. LeadBecomes(p, q, row, p.notes, p.generation, p.busy, p.mixed, p.left)
      BY <1>3, <2>1, <2>2, LeadField
    <3> QED
      BY <1>5, <3>1 DEF LeadBecomes
  <2>3. CASE g.state # "ok"
    BY <1>3, <1>5, <2>3
  <2> QED
    BY <2>2, <2>3
<1>7. /\ IsLeadPage(q) /\ q.kind = page.kind /\ q.role = page.role /\ q.row = row
      /\ q.notes = page.notes /\ q.generation = page.generation /\ q.busy = b
      /\ q.mixed = page.mixed /\ q.left = page.left
  BY <1>6 DEF LeadBecomes
<1>8. ASSUME LeadQuiet(page, server, calls) PROVE LeadQuiet(q, server, rest)
  <2>1. CASE page.kind = "lead"
    <3>1. CrmRow(page, server, calls) /\ CrmNotes(page, server, calls)
      BY <1>1, <1>8, <2>1 DEF LeadQuiet
    <3>2. g.op = "update" /\ row = Head(g.body)
      BY <1>1, <1>3, <3>1 DEF CrmRow, CrmCallSound
    <3>3. g = calls[i] /\ g.state # "sent" /\ rest = RemoveAt(calls, i)
      BY <1>1, <1>3
    <3>4. /\ q.generation = page.generation /\ q.mixed = page.mixed /\ q.notes = page.notes
          /\ q.row = Head(g.body) /\ q.busy = page.busy \ {"saving", "status"}
      BY <1>3, <1>7, <3>2
    <3>5. CrmRow(q, server, rest) /\ CrmNotes(q, server, rest)
      BY <1>2, <3>1, <3>2, <3>3, <3>4, CrmSaved
    <3> QED
      BY <1>7, <2>1, <3>5 DEF LeadQuiet
  <2>2. CASE page.kind = "website"
    <3>1. InquiryShown(page, server, calls)
      BY <1>1, <1>8, <2>2 DEF LeadQuiet, InquiryUnseen
    <3>2. PICK lock : lock = "status"
      OBVIOUS
    <3>3. g = calls[i] /\ g.state # "sent" /\ rest = RemoveAt(calls, i)
      BY <1>1, <1>3
    <3>4. /\ q.generation = page.generation /\ q.role = page.role
          /\ q.busy = page.busy \ {"saving", lock} /\ lock \notin {"converting"}
      BY <1>3, <1>7, <3>2
    <3>5. /\ g.op \in {"update", "claim"} /\ q.notes = page.notes
          /\ q.row = (IF g.state = "ok" THEN Head(g.body) ELSE page.row)
      BY <1>1, <1>3, <1>7
    <3>6. InquiryShown(q, server, rest)
      BY <1>2, <3>1, <3>3, <3>4, <3>5, InquiryAnswered
    <3> QED
      BY <1>7, <2>2, <3>6 DEF LeadQuiet
  <2> QED
    BY <2>1, <2>2, LeadKnows
<1> QED
  BY <1>3, <1>4, <1>7, <1>8, LeadContinues

LEMMA NoteSavedSound ==
    ASSUME LeadInv, At("lead"), NEW i \in DOMAIN calls, NoteSaved(i)
    PROVE  LeadInv'
<1>1. /\ ~page.left /\ calls[i].op = "note" /\ calls[i].state # "sent"
      /\ calls[i] \in Held(calls)
  BY DEF NoteSaved, Held, Succeeded, Failed
<1>2. PICK S : calls \in Seq(S)
  BY LeadKnows
<1>3. PICK g, rest, b, p : /\ g = calls[i] /\ rest = RemoveAt(calls, i)
                           /\ b = page.busy \ {"saving", "note"}
                           /\ p = [page EXCEPT !.busy = b]
  OBVIOUS
<1>4. LeadBecomes(page, p, page.row, page.notes, page.generation, b, page.mixed, page.left)
  BY <1>3, LeadKnows, LeadChanged
<1>5. /\ IsLeadPage(p) /\ p.kind = page.kind /\ p.role = page.role /\ p.row = page.row
      /\ p.notes = page.notes /\ p.generation = page.generation /\ p.busy = b
      /\ p.mixed = page.mixed /\ p.left = page.left
  BY <1>4 DEF LeadBecomes
<1>6. \/ g.state = "failed" /\ Continue(i, p, <<>>)
      \/ /\ g.state = "ok" /\ page.kind = "website"
         /\ Continue(i, [p EXCEPT !.notes = @ + 1], <<>>)
      \/ /\ g.state = "ok" /\ page.kind = "lead"
         /\ Continue(i, Reloading(p), Loads(Reloading(p)))
  BY <1>3 DEF NoteSaved, Succeeded, Failed
<1>7. ASSUME NEW q, LeadQuiet(page, server, calls), page.kind = "website",
             q.kind = page.kind, q.role = page.role, q.row = page.row,
             q.notes = (IF g.state = "ok" THEN page.notes + 1 ELSE page.notes),
             q.generation = page.generation, q.busy = b, q.left = page.left
      PROVE  LeadQuiet(q, server, rest)
  <2>1. InquiryShown(page, server, calls)
    BY <1>1, <1>7 DEF LeadQuiet, InquiryUnseen
  <2>2. PICK lock : lock = "note"
    OBVIOUS
  <2>3. InquiryShown(q, server, rest)
    BY <1>1, <1>2, <1>3, <1>7, <2>1, <2>2, InquiryAnswered
  <2> QED
    BY <1>7, <2>3 DEF LeadQuiet
<1>8. CASE g.state = "failed" /\ Continue(i, p, <<>>)
  <2>1. ASSUME LeadQuiet(page, server, calls) PROVE LeadQuiet(p, server, rest)
    <3>1. page.kind # "lead"
      BY <1>1, <1>3, <1>8, <2>1 DEF LeadQuiet, CrmRow, CrmCallSound
    <3> QED
      BY <1>5, <1>7, <1>8, <2>1, <3>1, LeadKnows
  <2> QED
    BY <1>3, <1>5, <1>8, <2>1, LeadContinues
<1>9. CASE /\ g.state = "ok" /\ page.kind = "website"
           /\ Continue(i, [p EXCEPT !.notes = @ + 1], <<>>)
  <2>1. PICK n, q : n = p.notes + 1 /\ q = [p EXCEPT !.notes = n]
    OBVIOUS
  <2>2. LeadBecomes(p, q, p.row, n, p.generation, p.busy, p.mixed, p.left)
    BY <1>5, <2>1, LeadField
  <2>3. /\ IsLeadPage(q) /\ q.kind = page.kind /\ q.role = page.role /\ q.row = page.row
        /\ q.notes = page.notes + 1 /\ q.generation = page.generation /\ q.busy = b
        /\ q.left = page.left
    BY <1>5, <2>1, <2>2 DEF LeadBecomes
  <2>4. LeadQuiet(page, server, calls) => LeadQuiet(q, server, rest)
    BY <1>7, <1>9, <2>3
  <2>5. Continue(i, q, <<>>)
    BY <1>9, <2>1
  <2> QED
    BY <1>3, <2>3, <2>4, <2>5, LeadContinues
<1>10. CASE /\ g.state = "ok" /\ page.kind = "lead"
            /\ Continue(i, Reloading(p), Loads(Reloading(p)))
  <2>1. PICK q, new : q = Reloading(p) /\ new = Loads(q)
    OBVIOUS
  <2>2. Continue(i, q, new)
    BY <1>10, <2>1
  <2>3. IsLeadPage(q) /\ q.kind = page.kind
    BY <1>5, <2>1, LeadReloads DEF LeadBecomes
  <2>4. /\ \E T : new \in Seq(T)
        /\ \A c \in Held(new) : IsCall(c)
    BY <2>1, LoadsAre
  <2>5. /\ Known(calls') /\ page' = q /\ server' = server /\ lost' = lost
    BY <2>2, <2>4, LeadKnows, HeldContinued
  <2>6. calls' = rest \o new
    BY <1>3, <2>2 DEF Continue
  <2>7. rest \in Seq(S)
    BY <1>2, <1>3, RemovedCalls
  <2>8. ASSUME LeadQuiet(page, server, calls) PROVE LeadQuiet(q, server, calls')
    <3>1. CrmRow(page, server, calls) /\ CrmNotes(page, server, calls)
      BY <1>1, <1>10, <2>8 DEF LeadQuiet
    <3>2. CrmRow(p, server, rest)
      BY <1>1, <1>2, <1>3, <1>5, <3>1, CrmNoteSaved
    <3>3. CrmRow(q, server, calls') /\ CrmNotes(q, server, calls')
      BY <1>5, <2>1, <2>6, <2>7, <3>2, CrmReloaded
    <3> QED
      BY <1>10, <2>3, <3>3 DEF LeadQuiet
  <2>9. (server.others = 0 /\ lost = 0) => LeadQuiet(q, server, calls')
    BY <2>8, LeadKnows
  <2> QED
    BY <2>3, <2>5, <2>9, LeadKnows, LeadGoesOn
<1> QED
  BY <1>6, <1>8, <1>9, <1>10

LEMMA LeadConvertedSound ==
    ASSUME LeadInv, At("lead"), NEW i \in DOMAIN calls, LeadConverted(i)
    PROVE  LeadInv'
<1>1. /\ page.kind = "website" /\ ~page.left /\ calls[i].op = "convert"
      /\ calls[i].state # "sent" /\ calls[i] \in Held(calls)
  BY DEF LeadConverted, AtLead, Held
<1>2. PICK g, b, left, q : /\ g = calls[i] /\ b = page.busy \ {"converting"}
                           /\ left = (g.state = "ok")
                           /\ q = [page EXCEPT !.busy = b, !.left = left]
  OBVIOUS
<1>3. Continue(i, q, <<>>)
  BY <1>2 DEF LeadConverted
<1>4. LeadBecomes(page, q, page.row, page.notes, page.generation, b, page.mixed, left)
  BY <1>2, LeadKnows, LeadChanged
<1>5. IsLeadPage(q) /\ q.kind = page.kind /\ q.left = left
  BY <1>4 DEF LeadBecomes
<1>6. ASSUME LeadQuiet(page, server, calls) PROVE q.left
  <2>1. InquiryShown(page, server, calls)
    BY <1>1, <1>6 DEF LeadQuiet, InquiryUnseen
  <2> QED
    BY <1>1, <1>2, <1>5, <2>1 DEF InquiryShown, InquiryCallSound
<1>7. PICK rest : rest = RemoveAt(calls, i)
  OBVIOUS
<1>8. LeadQuiet(page, server, calls) => LeadQuiet(q, server, rest)
  BY <1>6 DEF LeadQuiet
<1> QED
  BY <1>3, <1>5, <1>7, <1>8, LeadContinues

LEMMA LeadReturnSound ==
    ASSUME LeadInv, At("lead"), NEW i \in DOMAIN calls, LeadReturn(i)
    PROVE  LeadInv'
  BY LeadLoadedSound, WebsiteLeadLoadedSound, LeadSavedSound, NoteSavedSound,
     LeadConvertedSound DEF LeadReturn

LEMMA LeadLoseSound ==
    ASSUME LeadInv, At("lead"), NEW i \in DOMAIN calls, LoseCall(i)
    PROVE  LeadInv'
<1>1. /\ Known(calls') /\ page' = page /\ server' = server /\ lost' \in Nat /\ lost' # 0
  BY LeadKnows, HeldLost
<1> QED
  BY <1>1, LeadKnows, LeadGoesOn
-----------------------------------------------------------------------------
(* The backend answers the lead pages.                                      *)

\* The answer b to call i, which was c, leaves the other calls alone.
LeadAnswered(i, c, t, ok, b) ==
    /\ Known(calls') /\ page' = page /\ server' = t /\ lost' = lost
    /\ DOMAIN calls' = DOMAIN calls
    /\ \A k \in DOMAIN calls :
          calls'[k].op = calls[k].op /\ calls'[k].kept = calls[k].kept
    /\ c.state = "sent" /\ c \in Held(calls)
    /\ \E d : /\ d.op = c.op /\ d.arg = c.arg /\ d.kept = c.kept
              /\ ok => d.state = "ok" /\ Head(d.body) = b
              /\ ~ok => d.state = "failed"
              /\ d = calls'[i] /\ d \in Held(calls')
              /\ Held(calls') \subseteq Held(calls) \union {d}
              /\ \A x \in Held(calls) : x = c \/ x \in Held(calls')

LEMMA LeadServed ==
    ASSUME LeadInv, At("lead"), NEW i \in DOMAIN calls, NEW t, NEW ok \in BOOLEAN, NEW b,
           Perform(i, t, ok, b), NEW c, c = calls[i]
    PROVE  LeadAnswered(i, c, t, ok, b)
<1>0. Known(calls)
  BY LeadKnows
<1>1. /\ Known(calls') /\ page' = page /\ server' = t /\ lost' = lost
      /\ calls[i].state = "sent" /\ DOMAIN calls' = DOMAIN calls
  BY <1>0, ServedAt
<1>2. PICK d : AnsweredWith(i, d, ok, b)
  BY <1>0, ServedAt
<1>3. /\ \A j \in DOMAIN calls : calls'[j] = IF j = i THEN d ELSE calls[j]
      /\ Same(calls[i], d)
      /\ ok => d.state = "ok" /\ d.body = <<b>>
      /\ ~ok => d.state = "failed"
  BY <1>2 DEF AnsweredWith
<1>4. /\ d.op = c.op /\ d.arg = c.arg /\ d.kept = c.kept
      /\ ok => d.state = "ok" /\ Head(d.body) = b
      /\ ~ok => d.state = "failed"
  BY <1>3 DEF Same
<1>5. /\ d = calls'[i] /\ d \in Held(calls')
      /\ Held(calls') \subseteq Held(calls) \union {d} /\ c \in Held(calls)
      /\ \A x \in Held(calls) : x = c \/ x \in Held(calls')
  BY <1>1, <1>3 DEF Held
<1>6. \A k \in DOMAIN calls :
         calls'[k].op = calls[k].op /\ calls'[k].kept = calls[k].kept
  BY <1>3, <1>4
<1> QED
  BY <1>1, <1>4, <1>5, <1>6 DEF LeadAnswered

LEMMA LeadServes ==
    ASSUME LeadInv, At("lead"), NEW i \in DOMAIN calls, NEW t, IsLeadRows(t),
           t.others = server.others, NEW ok \in BOOLEAN, NEW b, Perform(i, t, ok, b),
           NEW c, c = calls[i],
           (page.kind = "lead" /\ CrmRow(page, server, calls)) =>
              /\ ok /\ ~t.converted
              /\ \/ c.op = "lead" /\ t = server /\ b = LeadOf(t)
                 \/ c.op = "notes" /\ t = server /\ b = server.notes
                 \/ c.op = "update" /\ t.notes = server.notes /\ b = LeadOf(t)
                 \/ c.op = "note" /\ LeadOf(t) = LeadOf(server),
           (c.op = "open" /\ server.assigned = "nobody") =>
              /\ ok /\ t = server
              /\ b = [row |-> LeadOf(server), notes |-> server.notes],
           (page.kind = "website" /\ InquirySound(page, server, Held(calls))
              /\ c.op \in SavingOps \union {"convert"}) =>
              /\ ok
              /\ \/ c.op = "convert"
                 \/ /\ c.op \in {"update", "claim"} /\ b = LeadOf(t)
                    /\ t.notes = server.notes /\ ~t.converted
                    /\ (c.op = "claim" \/ c.arg.to # "keep") \/ t.assigned = server.assigned
                    /\ c.op = "claim" => t.assigned = "me"
                 \/ /\ c.op = "note" /\ t.notes = server.notes + 1
                    /\ LeadOf(t) = LeadOf(server)
                    /\ ~t.converted /\ t.assigned = server.assigned
    PROVE  LeadInv'
<1>0. LeadAnswered(i, c, t, ok, b)
  BY LeadServed
<1>1. /\ Known(calls') /\ page' = page /\ server' = t /\ lost' = lost
      /\ DOMAIN calls' = DOMAIN calls
      /\ \A k \in DOMAIN calls :
            calls'[k].op = calls[k].op /\ calls'[k].kept = calls[k].kept
      /\ c.state = "sent" /\ c \in Held(calls)
  BY <1>0 DEF LeadAnswered
<1>2. PICK d : /\ d.op = c.op /\ d.arg = c.arg /\ d.kept = c.kept
               /\ ok => d.state = "ok" /\ Head(d.body) = b
               /\ ~ok => d.state = "failed"
               /\ d = calls'[i] /\ d \in Held(calls')
               /\ Held(calls') \subseteq Held(calls) \union {d}
               /\ \A x \in Held(calls) : x = c \/ x \in Held(calls')
  BY <1>0 DEF LeadAnswered
<1>3. PICK p, s, cs, ds : p = page /\ s = server /\ cs = calls /\ ds = calls'
  OBVIOUS
<1>4. /\ DOMAIN ds = DOMAIN cs
      /\ \A k \in DOMAIN cs : ds[k].op = cs[k].op /\ ds[k].kept = cs[k].kept
      /\ c \in Held(cs) /\ d \in Held(ds) /\ Held(ds) \subseteq Held(cs) \union {d}
      /\ \A x \in Held(cs) : x = c \/ x \in Held(ds)
      /\ i \in DOMAIN ds /\ d = ds[i]
  BY <1>1, <1>2, <1>3
<1>5. \A ops : OnceOf(cs, ops) => OnceOf(ds, ops)
  BY <1>4, LoadsWithAnswer
<1>6. ASSUME p.kind = "lead", CrmRow(p, s, cs), CrmNotes(p, s, cs)
      PROVE  CrmRow(p, t, ds) /\ CrmNotes(p, t, ds)
  <2>1. /\ ok /\ ~t.converted
        /\ \/ c.op = "lead" /\ t = s /\ b = LeadOf(t)
           \/ c.op = "notes" /\ t = s /\ b = s.notes
           \/ c.op = "update" /\ t.notes = s.notes /\ b = LeadOf(t)
           \/ c.op = "note" /\ LeadOf(t) = LeadOf(s)
    BY <1>3, <1>6
  <2>2. d.state = "ok" /\ Head(d.body) = b /\ d.op = c.op /\ d.kept = c.kept
    BY <1>2, <2>1
  <2>3. \/ c.op = "lead" /\ t = s /\ Head(d.body) = LeadOf(t)
        \/ c.op = "notes" /\ t = s /\ Head(d.body) = s.notes
        \/ c.op = "update" /\ t.notes = s.notes /\ Head(d.body) = LeadOf(t)
        \/ c.op = "note" /\ LeadOf(t) = LeadOf(s)
    BY <2>1, <2>2
  <2> QED
    BY <1>1, <1>4, <1>6, <2>1, <2>2, <2>3, CrmServed
<1>7. ASSUME InquiryUnseen(p, s, cs) PROVE InquiryUnseen(p, t, ds)
  <2>1. c.op = "open" /\ s.assigned = "nobody" /\ OnceOf(cs, {"open"})
    BY <1>4, <1>7 DEF InquiryUnseen
  <2>2. ok /\ t = s /\ b = [row |-> LeadOf(s), notes |-> s.notes]
    BY <1>3, <2>1
  <2>3. d.op = "open" /\ d.state = "ok" /\ Head(d.body).row = LeadOf(s)
        /\ Head(d.body).notes = s.notes
    BY <1>2, <2>1, <2>2
  <2>4. OnceOf(ds, {"open"})
    BY <1>5, <2>1
  <2>5. p.generation # 0
    BY <1>4, <1>7, HeldNone DEF InquiryUnseen
  <2> QED
    BY <1>4, <1>7, <2>2, <2>3, <2>4, <2>5 DEF InquiryUnseen
<1>8. ASSUME p.kind = "website", InquiryShown(p, s, cs) PROVE InquiryShown(p, t, ds)
  <2>1. c.op \in SavingOps \union {"convert"}
    BY <1>4, <1>8 DEF InquiryShown, InquiryCallSound
  <2>2. ASSUME NEW x \in Held(ds), x.op \in SavingOps, d.op \in SavingOps PROVE x = d
    <3>1. PICK k \in DOMAIN ds : ds[k] = x
      BY DEF Held
    <3>2. OnceOf(ds, SavingOps)
      BY <1>5, <1>8 DEF InquiryShown
    <3> QED
      BY <1>4, <2>2, <3>1, <3>2 DEF OnceOf
  <2>3. ASSUME InquirySound(p, s, Held(cs))
        PROVE  /\ d.state = "ok"
               /\ \/ c.op = "convert"
                  \/ /\ c.op \in {"update", "claim"} /\ Head(d.body) = LeadOf(t)
                     /\ t.notes = s.notes /\ ~t.converted
                     /\ (c.op = "claim" \/ c.arg.to # "keep") \/ t.assigned = s.assigned
                     /\ c.op = "claim" => t.assigned = "me"
                  \/ /\ c.op = "note" /\ t.notes = s.notes + 1 /\ LeadOf(t) = LeadOf(s)
                     /\ ~t.converted /\ t.assigned = s.assigned
    <3>1. /\ ok
          /\ \/ c.op = "convert"
             \/ /\ c.op \in {"update", "claim"} /\ b = LeadOf(t)
                /\ t.notes = s.notes /\ ~t.converted
                /\ (c.op = "claim" \/ c.arg.to # "keep") \/ t.assigned = s.assigned
                /\ c.op = "claim" => t.assigned = "me"
             \/ /\ c.op = "note" /\ t.notes = s.notes + 1 /\ LeadOf(t) = LeadOf(s)
                /\ ~t.converted /\ t.assigned = s.assigned
      BY <1>3, <1>8, <2>1, <2>3
    <3>2. d.state = "ok" /\ Head(d.body) = b
      BY <1>2, <3>1
    <3> QED
      BY <3>1, <3>2
  <2>4. /\ \A x \in Held(ds) : x = d \/ x.op \notin SavingOps \/ d.op \notin SavingOps
        /\ d.op = c.op /\ d.arg = c.arg /\ c.state = "sent"
    BY <1>1, <1>2, <2>2
  <2> QED
    BY <1>4, <1>5, <1>8, <2>3, <2>4, InquiryServed
<1>9. LeadQuiet(p, s, cs) => LeadQuiet(p, t, ds)
  BY <1>6, <1>7, <1>8 DEF LeadQuiet
<1>10. (t.others = 0 /\ lost = 0) => LeadQuiet(page, t, calls')
  BY <1>3, <1>9, LeadKnows
<1> QED
  BY <1>1, <1>10, LeadKnows, LeadGoesOn

LEMMA LeadServeSound ==
    ASSUME LeadInv, At("lead"), NEW i \in DOMAIN calls, LeadServe(i)
    PROVE  LeadInv'
<1>1. PICK status, assigned, converted, notes, others :
         /\ server = [status |-> status, assigned |-> assigned, converted |-> converted,
                      notes |-> notes, others |-> others]
         /\ others \in Nat
  BY LeadKnows DEF IsLeadRows
<1>2. PICK yes \in BOOLEAN, no \in BOOLEAN : yes = TRUE /\ no = FALSE
  OBVIOUS
<1>3. PICK c : c = calls[i] /\ c \in Held(calls)
  BY DEF Held
<1>4. ASSUME page.kind = "lead", CrmRow(page, server, calls)
      PROVE  c.op \in {"lead", "notes", "update", "note"} /\ ~server.converted
  BY <1>3, <1>4 DEF CrmRow, CrmCallSound
<1>5. ASSUME InquirySound(page, server, Held(calls)), c.state = "sent"
      PROVE  /\ ~server.converted
             /\ c.op \in {"update", "note", "convert"} => Owns
             /\ c.op = "claim" => server.assigned = "nobody"
  BY <1>3, <1>5 DEF InquirySound, OwnedBy, Owns
<1>6. CASE Asked(i, "lead") /\ Perform(i, server, TRUE, LeadOf(server))
  <2>1. PICK b : b = LeadOf(server)
    OBVIOUS
  <2>2. c.op = "lead"
    BY <1>3, <1>6 DEF Asked
  <2> QED
    BY <1>2, <1>3, <1>4, <1>6, <2>1, <2>2, LeadKnows, LeadServes DEF SavingOps
<1>7. CASE Asked(i, "notes") /\ Perform(i, server, TRUE, server.notes)
  <2>1. PICK b : b = server.notes
    OBVIOUS
  <2>2. c.op = "notes"
    BY <1>3, <1>7 DEF Asked
  <2> QED
    BY <1>2, <1>3, <1>4, <1>7, <2>1, <2>2, LeadKnows, LeadServes DEF SavingOps
<1>8. CASE /\ Asked(i, "open")
           /\ IF Sees THEN Perform(i, server, TRUE, [row |-> LeadOf(server),
                                                     notes |-> server.notes])
              ELSE Refuse(i)
  <2>1. PICK b, none : /\ b = [row |-> LeadOf(server), notes |-> server.notes]
                       /\ none = <<>>
    OBVIOUS
  <2>2. c.op = "open"
    BY <1>3, <1>8 DEF Asked
  <2>3. CASE Sees
    BY <1>2, <1>3, <1>4, <1>8, <2>1, <2>2, <2>3, LeadKnows, LeadServes DEF SavingOps
  <2>4. CASE ~Sees
    <3>1. server.assigned # "nobody"
      BY <2>4 DEF Sees
    <3>2. Perform(i, server, no, none)
      BY <1>2, <1>8, <2>1, <2>4 DEF Refuse
    <3> QED
      BY <1>3, <1>4, <2>2, <3>1, <3>2, LeadKnows, LeadServes DEF SavingOps
  <2> QED
    BY <2>3, <2>4
<1>9. CASE /\ Asked(i, "update")
           /\ IF (page.kind = "lead" \/ Owns) /\ ~server.converted
              THEN LET s == With(calls[i].arg)
                   IN  Perform(i, s, TRUE, LeadOf(s))
              ELSE Refuse(i)
  <2>1. c.op = "update" /\ c.state = "sent"
    BY <1>3, <1>9 DEF Asked
  <2>2. CASE (page.kind = "lead" \/ Owns) /\ ~server.converted
    <3>1. PICK x, y : /\ x = (IF c.arg.status = "keep" THEN status ELSE c.arg.status)
                      /\ y = (IF c.arg.to = "keep" THEN assigned ELSE c.arg.to)
      OBVIOUS
    <3>2. PICK t, b : t = With(c.arg) /\ b = LeadOf(t)
      OBVIOUS
    <3>3. t = [status |-> x, assigned |-> y, converted |-> converted, notes |-> notes,
               others |-> others]
      BY <1>1, <3>1, <3>2 DEF With
    <3>4. /\ IsLeadRows(t) /\ t.others = server.others /\ ~t.converted
          /\ t.notes = server.notes /\ (c.arg.to # "keep" \/ t.assigned = server.assigned)
      BY <1>1, <2>2, <3>1, <3>3 DEF IsLeadRows
    <3>5. Perform(i, t, yes, b)
      BY <1>2, <1>3, <1>9, <2>2, <3>2
    <3> QED
      BY ZenonT(60), <1>2, <1>3, <2>1, <3>2, <3>4, <3>5, LeadServes
  <2>3. CASE ~((page.kind = "lead" \/ Owns) /\ ~server.converted)
    <3>1. PICK none : none = <<>>
      OBVIOUS
    <3>2. Perform(i, server, no, none)
      BY <1>2, <1>9, <2>3, <3>1 DEF Refuse
    <3>3. ~(page.kind = "lead" /\ CrmRow(page, server, calls))
      BY <1>4, <2>3
    <3>4. ~InquirySound(page, server, Held(calls))
      BY <1>5, <2>1, <2>3
    <3> QED
      BY <1>3, <2>1, <3>2, <3>3, <3>4, LeadKnows, LeadServes
  <2> QED
    BY <2>2, <2>3
<1>10. CASE /\ Asked(i, "claim")
            /\ IF server.assigned = "nobody" /\ ~server.converted
               THEN LET s == [server EXCEPT !.assigned = "me"]
                    IN  Perform(i, s, TRUE, LeadOf(s))
               ELSE Refuse(i)
  <2>1. c.op = "claim" /\ c.state = "sent"
    BY <1>3, <1>10 DEF Asked
  <2>2. ~(page.kind = "lead" /\ CrmRow(page, server, calls))
    BY <1>4, <2>1
  <2>3. CASE server.assigned = "nobody" /\ ~server.converted
    <3>1. PICK y, t, b : y = "me" /\ t = [server EXCEPT !.assigned = y] /\ b = LeadOf(t)
      OBVIOUS
    <3>2. t = [status |-> status, assigned |-> y, converted |-> converted,
               notes |-> notes, others |-> others]
      BY <1>1, <3>1
    <3>3. /\ IsLeadRows(t) /\ t.others = server.others /\ ~t.converted
          /\ t.notes = server.notes /\ t.assigned = "me"
      BY <1>1, <2>3, <3>1, <3>2 DEF IsLeadRows
    <3>4. Perform(i, t, yes, b)
      BY <1>2, <1>10, <2>3, <3>1
    <3> QED
      BY ZenonT(60), <1>2, <1>3, <2>1, <2>2, <3>1, <3>3, <3>4, LeadServes
  <2>4. CASE ~(server.assigned = "nobody" /\ ~server.converted)
    <3>1. PICK none : none = <<>>
      OBVIOUS
    <3>2. Perform(i, server, no, none)
      BY <1>2, <1>10, <2>4, <3>1 DEF Refuse
    <3>3. ~InquirySound(page, server, Held(calls))
      BY <1>5, <2>1, <2>4
    <3> QED
      BY <1>3, <2>1, <2>2, <3>2, <3>3, LeadKnows, LeadServes
  <2> QED
    BY <2>3, <2>4
<1>11. CASE /\ Asked(i, "note")
            /\ IF page.kind = "lead" \/ Owns
               THEN Perform(i, [server EXCEPT !.notes = @ + 1], TRUE, <<>>)
               ELSE Refuse(i)
  <2>1. c.op = "note" /\ c.state = "sent"
    BY <1>3, <1>11 DEF Asked
  <2>2. PICK none : none = <<>>
    OBVIOUS
  <2>3. CASE page.kind = "lead" \/ Owns
    <3>1. PICK n, t : n = notes + 1 /\ t = [server EXCEPT !.notes = @ + 1]
      OBVIOUS
    <3>2. t = [status |-> status, assigned |-> assigned, converted |-> converted,
               notes |-> n, others |-> others]
      BY <1>1, <3>1
    <3>3. /\ IsLeadRows(t) /\ t.others = server.others
          /\ t.converted = server.converted
          /\ t.notes = server.notes + 1 /\ t.assigned = server.assigned
      BY <1>1, <3>1, <3>2 DEF IsLeadRows
    <3>4. LeadOf(t) = LeadOf(server)
      BY <1>1, <3>2, LeadOfIs
    <3>5. Perform(i, t, yes, none)
      BY <1>2, <1>11, <2>2, <2>3, <3>1
    <3>6. (page.kind = "lead" /\ CrmRow(page, server, calls)) => ~t.converted
      BY <1>4, <3>3
    <3>7. InquirySound(page, server, Held(calls)) => ~t.converted
      BY <1>5, <2>1, <3>3
    <3> QED
      BY ZenonT(60), <1>2, <1>3, <2>1, <3>3, <3>4, <3>5, <3>6, <3>7, LeadServes
  <2>4. CASE ~(page.kind = "lead" \/ Owns)
    <3>1. Perform(i, server, no, none)
      BY <1>2, <1>11, <2>2, <2>4 DEF Refuse
    <3>2. ~InquirySound(page, server, Held(calls))
      BY <1>5, <2>1, <2>4
    <3> QED
      BY <1>3, <2>1, <2>4, <3>1, <3>2, LeadKnows, LeadServes
  <2> QED
    BY <2>3, <2>4
<1>12. CASE /\ Asked(i, "convert")
            /\ IF Owns /\ ~server.converted
               THEN Perform(i, [server EXCEPT !.converted = TRUE], TRUE, <<>>)
               ELSE Refuse(i)
  <2>1. c.op = "convert" /\ c.state = "sent"
    BY <1>3, <1>12 DEF Asked
  <2>2. ~(page.kind = "lead" /\ CrmRow(page, server, calls))
    BY <1>4, <2>1
  <2>3. PICK none : none = <<>>
    OBVIOUS
  <2>4. CASE Owns /\ ~server.converted
    <3>1. PICK y, t : y = TRUE /\ t = [server EXCEPT !.converted = y]
      OBVIOUS
    <3>2. t = [status |-> status, assigned |-> assigned, converted |-> y,
               notes |-> notes, others |-> others]
      BY <1>1, <3>1
    <3>3. IsLeadRows(t) /\ t.others = server.others
      BY <1>1, <3>2 DEF IsLeadRows
    <3>4. Perform(i, t, yes, none)
      BY <1>2, <1>12, <2>3, <2>4, <3>1
    <3> QED
      BY <1>2, <1>3, <2>1, <2>2, <3>3, <3>4, LeadServes
  <2>5. CASE ~(Owns /\ ~server.converted)
    <3>1. Perform(i, server, no, none)
      BY <1>2, <1>12, <2>3, <2>5 DEF Refuse
    <3>2. ~InquirySound(page, server, Held(calls))
      BY <1>5, <2>1, <2>5
    <3> QED
      BY <1>3, <2>1, <2>2, <3>1, <3>2, LeadKnows, LeadServes
  <2> QED
    BY <2>4, <2>5
<1> QED
  BY <1>6, <1>7, <1>8, <1>9, <1>10, <1>11, <1>12 DEF LeadServe

LEMMA LeadStart ==
    ASSUME LeadInit
    PROVE  LeadInv
<1>1. PICK kind, role, p, s :
         /\ kind \in {"lead", "website"}
         /\ p = [kind |-> kind, role |-> role, row |-> NoLead,
                 notes |-> 0, generation |-> 0, busy |-> {}, mixed |-> FALSE,
                 left |-> FALSE]
         /\ s = [status |-> "NEW", assigned |-> "nobody", converted |-> FALSE,
                 notes |-> 0, others |-> 0]
         /\ page = p /\ server = s /\ calls = <<>> /\ lost = 0
  BY DEF LeadInit, Mount
<1>2. IsLeadPage(p) /\ IsLeadRows(s)
  BY <1>1 DEF IsLeadPage, IsLeadRows
<1>3. Known(calls) /\ DOMAIN calls = {} /\ Held(calls) = {}
  BY <1>1, NoCalls, HeldNone
<1>4. /\ \A ops : OnceOf(calls, ops)
      /\ \A op, n : OnceLoad(calls, op, n)
  BY <1>3 DEF OnceOf, OnceLoad
<1>5. p.row = NoLead /\ p.notes = s.notes /\ p.busy = {} /\ ~s.converted
  BY <1>1
<1>6. CrmRow(p, s, calls) /\ CrmNotes(p, s, calls)
  BY <1>3, <1>4, <1>5 DEF CrmRow, CrmNotes
<1>7. InquiryUnseen(p, s, calls)
  BY <1>1, <1>3, <1>4, <1>5 DEF InquiryUnseen
<1>8. LeadQuiet(p, s, calls) /\ p.kind \in {"lead", "website"}
  BY <1>1, <1>6, <1>7 DEF LeadQuiet
<1> QED
  BY <1>1, <1>2, <1>3, <1>8 DEF LeadInv

LEMMA LeadAlways == Spec => []LeadInv
<1>1. Init => LeadInv
  <2>1. Init /\ At("lead") => LeadInit
    BY MountedAtStart DEF Init, At
  <2> QED
    BY <2>1, LeadStart DEF LeadInv
<1>2. LeadInv /\ [Next]_vars => LeadInv'
  <2> SUFFICES ASSUME LeadInv, [Next]_vars PROVE LeadInv'
    OBVIOUS
  <2>1. CASE ~At("lead")
    BY <2>1, StaysMounted DEF LeadInv, At
  <2>2. CASE At("lead") /\ Next
    BY <2>2, OnLead, LeadStepSound, LeadServeSound, LeadReturnSound, LeadLoseSound
  <2>3. CASE UNCHANGED vars
    <3>1. PICK p, s, h, l : p = page /\ s = server /\ h = calls /\ l = lost
      OBVIOUS
    <3>2. page' = p /\ server' = s /\ calls' = h /\ lost' = l /\ mounted' = mounted
      BY <2>3, <3>1 DEF vars
    <3> QED
      BY <3>1, <3>2 DEF LeadInv, At, Known, IsCalls
  <2> QED
    BY <2>1, <2>2, <2>3
<1> QED
  BY <1>1, <1>2, PTL DEF Spec

\* Once it has settled, the page of an inquiry that nobody interfered with
\* shows the lead and its notes as stored: of overlapping loads only the last
\* is taken, saves put their answers on the screen, and a conversion leaves
\* the page.  Only a status that was saved during a reload may show late.
THEOREM SettledLeadsAreCurrent ==
    Spec => []SettledLeadIsCurrent
<1>1. LeadInv => SettledLeadIsCurrent
  <2> SUFFICES ASSUME LeadInv, At("lead"), Ready(page.kind), page.busy = {}, lost = 0,
                      server.others = 0
               PROVE  /\ page.notes = server.notes
                      /\ ~page.mixed => page.row = LeadOf(server)
    BY DEF SettledLeadIsCurrent
  <2>1. /\ LeadQuiet(page, server, calls) /\ ~page.left /\ page.row # NoLead
        /\ "lead" \notin page.busy
    BY LeadKnows DEF Ready, AtLead
  <2>2. CASE page.kind = "lead"
    <3>1. CrmRow(page, server, calls) /\ CrmNotes(page, server, calls)
      BY <2>1, <2>2 DEF LeadQuiet
    <3>2. \A c \in Held(calls) : CrmCallSound(c, page, server)
      BY <3>1 DEF CrmRow
    <3>3. ~Unheard(Held(calls), {"update"}) /\ ~Unheard(Held(calls), {"note"})
      BY <3>2 DEF Unheard, CrmCallSound
    <3> QED
      BY <2>1, <3>1, <3>3 DEF CrmRow, CrmNotes
  <2>3. CASE page.kind = "website"
    <3>1. InquiryShown(page, server, calls)
      BY <2>1, <2>3 DEF LeadQuiet, InquiryUnseen
    <3>2. \A c \in Held(calls) : InquiryCallSound(c, page)
      BY <3>1 DEF InquiryShown
    <3>3. \A c \in Held(calls) : FALSE
      BY <3>2 DEF InquiryCallSound
    <3>4. InquirySound(page, server, {})
      BY <3>1, <3>3 DEF InquiryShown, Unheard
    <3> QED
      BY <3>4 DEF InquirySound, Unheard
  <2> QED
    BY <2>2, <2>3, LeadKnows
<1> QED
  BY <1>1, LeadAlways, PTL

\* Nothing that a lone user is offered is refused: the page's own copy of the
\* rules of ownership, worked on the row it shows, stays within those of the
\* backend whatever was claimed, assigned or given away before.
THEOREM LoneLeadRequestsSucceed ==
    Spec => []LoneRequestAllowed
<1>1. LeadInv => LoneRequestAllowed
  <2> SUFFICES ASSUME LeadInv, At("lead"), ~page.left, lost = 0, server.others = 0,
                      "converting" \notin page.busy, NEW i \in DOMAIN calls
               PROVE  calls[i].state # "failed"
    BY DEF LoneRequestAllowed
  <2>1. LeadQuiet(page, server, calls) /\ calls[i] \in Held(calls)
    BY LeadKnows DEF Held
  <2>2. CASE page.kind = "lead"
    BY <2>1, <2>2 DEF LeadQuiet, CrmRow, CrmCallSound
  <2>3. CASE page.kind = "website" /\ InquiryUnseen(page, server, calls)
    BY <2>1, <2>3 DEF InquiryUnseen
  <2>4. CASE page.kind = "website" /\ InquiryShown(page, server, calls)
    <3>1. ~Unheard(Held(calls), {"convert"})
      BY <2>4 DEF InquiryShown, Unheard, InquiryCallSound
    <3> QED
      BY <2>1, <2>4, <3>1 DEF InquiryShown, InquirySound
  <2> QED
    BY <2>1, <2>2, <2>3, <2>4, LeadKnows DEF LeadQuiet
<1> QED
  BY <1>1, LeadAlways, PTL
================================================================================
