------------------------ MODULE OrderCreationProofs -------------------------
(* Theorems about OrderCreation, for every value of its constants. *)
EXTENDS OrderCreation, OrdersListCache, TLAPS

-----------------------------------------------------------------------------
(* What the helpers do to the slot of a request *)

ReqType == req \in [Requests -> Request]

LEMMA SlotLemma ==
  ASSUME ReqType, NEW r \in Requests, NEW s \in Step,
         NEW l \in Leads \union {NoLead}, NEW note \in NoteField, NEW a \in Nat,
         NEW n \in Nat \X Nat, NEW b \in Nat,
         req' = [req EXCEPT ![r] = Slot(s, l, note, a, n, b)]
  PROVE  /\ ReqType'
         /\ req'[r] = Slot(s, l, note, a, n, b)
         /\ \A q \in Requests : q # r => req'[q] = req[q]
BY DEF ReqType, Request, Slot

LEMMA GotoLemma ==
  ASSUME ReqType, NEW r \in Requests, NEW s \in Step, Goto(r, s)
  PROVE  /\ ReqType'
         /\ req'[r].step = s
         /\ req'[r].lead = req[r].lead
         /\ req'[r].note = req[r].note
         /\ req'[r].attempt = req[r].attempt
         /\ req'[r].number = req[r].number
         /\ req'[r].began = req[r].began
         /\ \A q \in Requests : q # r => req'[q] = req[q]
BY DEF ReqType, Goto, Request

LEMMA LeaveLemma ==
  ASSUME ReqType, NEW r \in Requests, NEW s \in Step, NEW a \in Nat,
         Leave(r, s, a)
  PROVE  /\ ReqType'
         /\ req'[r].step = s
         /\ req'[r].lead = req[r].lead
         /\ req'[r].note = req[r].note
         /\ req'[r].attempt = a
         /\ \A q \in Requests : q # r => req'[q] = req[q]
<1>1. DEFINE rec == Slot(s, req[r].lead, req[r].note, a, <<0, 0>>, 0)
<1>2. rec \in Request
  BY DEF ReqType, Request, Slot
<1>3. /\ rec.step = s /\ rec.lead = req[r].lead
      /\ rec.note = req[r].note /\ rec.attempt = a
  BY DEF Slot
<1>4. req' = [req EXCEPT ![r] = rec]
  BY DEF Leave
<1> HIDE DEF rec
<1> QED
  BY <1>2, <1>3, <1>4 DEF ReqType

LEMMA RetryLemma ==
  ASSUME ReqType, NEW r \in Requests, RetryOrThrow(r)
  PROVE  /\ ReqType'
         /\ req'[r].step \in {"begin", "rejected"}
         /\ req'[r].lead = req[r].lead
         /\ req'[r].note = req[r].note
         /\ req'[r].attempt >= req[r].attempt
         /\ \A q \in Requests : q # r => req'[q] = req[q]
<1>1. req[r].attempt \in Nat /\ req[r].attempt + 1 \in Nat
  BY DEF ReqType, Request
<1>2. \/ Leave(r, "begin", req[r].attempt + 1)
      \/ Leave(r, "rejected", req[r].attempt)
  BY DEF RetryOrThrow, Rollback
<1>3. "begin" \in Step /\ "rejected" \in Step
  BY DEF Step
<1> QED
  BY <1>1, <1>2, <1>3, LeaveLemma

LEMMA RollbackLemma ==
  ASSUME ReqType, NEW r \in Requests, Rollback(r)
  PROVE  /\ ReqType'
         /\ req'[r].step = "rejected"
         /\ req'[r].lead = req[r].lead
         /\ req'[r].note = req[r].note
         /\ req'[r].attempt = req[r].attempt
         /\ \A q \in Requests : q # r => req'[q] = req[q]
<1>1. req[r].attempt \in Nat
  BY DEF ReqType, Request
<1> QED
  BY <1>1, LeaveLemma DEF Rollback, Step

-----------------------------------------------------------------------------
(* The inductive invariant *)

\* The suffixes in use on a day are 1 .. n.
NoGap == \A d \in Nat : \E n \in Nat : Suffixes(d) = 1 .. n

\* A transaction's number is the first of its day or follows one in use.
Follows(n) == n[2] # 0 /\ (n[2] = 1 \/ <<n[1], n[2] - 1>> \in Numbers)

NumberDrawn ==
    \A r \in Requests :
        req[r].step \in {"insert", "mark", "commit"} => Follows(req[r].number)

\* An inserted number is in no committed order and in no other transaction.
KeyLocked ==
    \A r \in Requests :
        Inserted(r) =>
            /\ req[r].number \notin Numbers
            /\ \A q \in Requests \ {r} :
                  Inserted(q) => req[q].number # req[r].number

\* A marked lead has no order and is marked by no other transaction.
LeadLocked ==
    \A r \in Requests :
        /\ At(r, "mark") => req[r].lead \in Leads
        /\ Marked(r) =>
              /\ lead[req[r].lead].order = None
              /\ \A q \in Requests \ {r} :
                    Marked(q) => req[q].lead # req[r].lead

Locks == NumberDrawn /\ KeyLocked /\ LeadLocked

BookInv == TypeOK /\ NoGap /\ Locks

\* MAX + 1 is the successor of the last suffix in use.
LEMMA NextNumberLemma ==
  ASSUME NoGap, today \in Nat
  PROVE  \E n \in Nat : /\ Suffixes(today) = 1 .. n
                        /\ getNextOrderNumber(today) = <<today, n + 1>>
<1>1. PICK n \in Nat : Suffixes(today) = 1 .. n
  BY DEF NoGap
<1>2. DEFINE T == (1 .. n) \union {0}
<1>3. n \in T /\ \A y \in T : y \in Int /\ n >= y
  OBVIOUS
<1>4. \A x \in T : (\A y \in T : x >= y) => x = n
  BY <1>3
<1>5. Max(T) = n
  BY <1>3, <1>4 DEF Max
<1> QED
  BY <1>1, <1>5 DEF getNextOrderNumber

LEMMA NumberIsNotNone ==
  ASSUME NEW n \in Nat \X Nat
  PROVE  n # None
<1>1. PICK a \in Nat, b \in Nat : n = <<a, b>>
  OBVIOUS
<1>2. <<a, b>> # <<>>
  OBVIOUS
<1> QED
  BY <1>1, <1>2 DEF None

LEMMA NumberInUse ==
  ASSUME orders \subseteq Order, NEW d, NEW s
  PROVE  <<d, s>> \in Numbers <=> s \in Suffixes(d)
BY DEF Numbers, Suffixes, Order

\* A step by which a transaction ends or has not begun, and nothing is
\* committed, keeps the locks of the others.
LEMMA QuietLemma ==
  ASSUME Locks, NoGap, NEW r \in Requests, orders' = orders, lead' = lead,
         req'[r].step \notin {"insert", "mark", "commit"},
         \A q \in Requests : q # r => req'[q] = req[q]
  PROVE  Locks' /\ NoGap'
<1>1. NoGap'
  BY DEF NoGap, Suffixes
<1>2. Numbers' = Numbers
  BY DEF Numbers
<1>3. NumberDrawn'
  BY <1>2 DEF Locks, NumberDrawn, Follows
<1>4. KeyLocked'
  BY <1>2 DEF Locks, KeyLocked, Inserted
<1>5. LeadLocked'
  BY DEF Locks, LeadLocked, Marked, At
<1> QED
  BY <1>1, <1>3, <1>4, <1>5 DEF Locks

LEMMA BookInvInit == Init => BookInv
<1> SUFFICES ASSUME Init PROVE BookInv
  OBVIOUS
<1>1. <<0, 0>> \in Nat \X Nat
  OBVIOUS
<1>2. TypeOK
  BY <1>1 DEF Init, TypeOK, Lead, None, Request, Slot, Step, NoteField
<1>3. \A r \in Requests : req[r].step = "idle"
  BY DEF Init, Slot
<1>4. NoGap
  <2>1. \A d : Suffixes(d) = 1 .. 0
    BY DEF Init, Suffixes
  <2> QED
    BY <2>1 DEF NoGap
<1>5. Locks
  BY <1>3 DEF Locks, NumberDrawn, KeyLocked, LeadLocked, Inserted, Marked, At
<1> QED
  BY <1>2, <1>4, <1>5 DEF BookInv

\* The handlers and events that commit nothing and take no lock.
LEMMA QuietSteps ==
  ASSUME BookInv, NEW r \in Requests,
         \/ BeginCreate(r) \/ SerializationFailure(r) \/ StoreNote(r)
         \/ AfterMutation(r) \/ NotifyOrderCreated(r) \/ BeginEdit(r)
         \/ Fault(r)
  PROVE  BookInv' /\ UNCHANGED <<orders, lead>>
<1> USE DEF BookInv
<1>0. ReqType
  BY DEF TypeOK, ReqType
<1>1. UNCHANGED <<orders, lead>>
  BY DEF BeginCreate, SerializationFailure, StoreNote, AfterMutation,
     NotifyOrderCreated, BeginEdit, Fault
<1>2. /\ ReqType'
      /\ req'[r].step \notin {"insert", "mark", "commit"}
      /\ \A q \in Requests : q # r => req'[q] = req[q]
  <2>1. CASE BeginCreate(r)
    <3>1. PICK l \in Leads \union {NoLead}, note \in NoteField :
             req' = [req EXCEPT ![r] = Slot("begin", l, note, 1, <<0, 0>>, 0)]
      BY <2>1 DEF BeginCreate
    <3>2. Slot("begin", l, note, 1, <<0, 0>>, 0) \in Request
      BY DEF Slot, Request, Step
    <3> QED
      BY <1>0, <3>1, <3>2 DEF ReqType, Slot
  <2>2. CASE SerializationFailure(r)
    BY <1>0, <2>2, RetryLemma DEF SerializationFailure
  <2>3. CASE StoreNote(r)
    BY <1>0, <2>3, GotoLemma DEF StoreNote, Step, Slot
  <2>4. CASE AfterMutation(r)
    BY <1>0, <2>4, GotoLemma DEF AfterMutation, Step, Slot
  <2>5. CASE NotifyOrderCreated(r)
    BY <1>0, <2>5, GotoLemma DEF NotifyOrderCreated, Step, Slot
  <2>6. CASE BeginEdit(r)
    <3>1. PICK l \in Leads :
             req' = [req EXCEPT ![r] = Slot("edit", l, "absent", 0, <<0, 0>>, 0)]
      BY <2>6 DEF BeginEdit
    <3>2. Slot("edit", l, "absent", 0, <<0, 0>>, 0) \in Request
      BY DEF Slot, Request, Step, NoteField
    <3> QED
      BY <1>0, <3>1, <3>2 DEF ReqType, Slot
  <2>7. CASE Fault(r)
    BY <1>0, <2>7, GotoLemma, RollbackLemma DEF Fault, Step, Slot
  <2> QED
    BY <2>1, <2>2, <2>3, <2>4, <2>5, <2>6, <2>7
<1>3. TypeOK'
  BY <1>1, <1>2 DEF TypeOK, ReqType, BeginCreate, SerializationFailure,
     StoreNote, AfterMutation, NotifyOrderCreated, BeginEdit, Fault
<1> QED
  BY <1>1, <1>2, <1>3, QuietLemma

LEMMA ReadNumberStep ==
  ASSUME BookInv, NEW r \in Requests, ReadNumber(r)
  PROVE  BookInv'
<1> USE DEF BookInv
<1>0. ReqType /\ today \in Nat /\ orders \subseteq Order
  BY DEF TypeOK, ReqType
<1>1. PICK n \in Nat : /\ Suffixes(today) = 1 .. n
                      /\ getNextOrderNumber(today) = <<today, n + 1>>
  BY <1>0, NextNumberLemma
<1>2. /\ ReqType'
      /\ req'[r].step = "insert"
      /\ req'[r].number = <<today, n + 1>>
      /\ \A q \in Requests : q # r => req'[q] = req[q]
  <2>1. Slot("insert", req[r].lead, req[r].note, req[r].attempt,
             <<today, n + 1>>, commits) \in Request
    BY <1>0 DEF TypeOK, ReqType, Request, Slot, Step
  <2> QED
    BY <1>0, <1>1, <2>1 DEF ReadNumber, ReqType, Slot
<1>3. TypeOK'
  BY <1>2 DEF ReadNumber, TypeOK, ReqType
<1>4. Numbers' = Numbers /\ NoGap'
  BY DEF ReadNumber, Numbers, NoGap, Suffixes
<1>5. Follows(<<today, n + 1>>)
  <2>1. n # 0 => n \in 1 .. n
    OBVIOUS
  <2> QED
    BY <1>0, <1>1, <2>1, NumberInUse DEF Follows
<1>6. NumberDrawn'
  BY <1>2, <1>4, <1>5 DEF Locks, NumberDrawn, Follows
<1>7. KeyLocked'
  BY <1>2, <1>4 DEF Locks, KeyLocked, Inserted
<1>8. LeadLocked'
  BY <1>2 DEF ReadNumber, Locks, LeadLocked, Marked, At
<1> QED
  BY <1>3, <1>4, <1>6, <1>7, <1>8 DEF Locks

LEMMA InsertOrderStep ==
  ASSUME BookInv, NEW r \in Requests, InsertOrder(r)
  PROVE  BookInv' /\ UNCHANGED <<orders, lead>>
<1> USE DEF BookInv
<1>0. ReqType
  BY DEF TypeOK, ReqType
<1>1. UNCHANGED <<orders, lead, notes, notified, today, commits, faults>>
  BY DEF InsertOrder
<1>2. CASE RetryOrThrow(r) \/ Rollback(r)
  <2>1. /\ ReqType'
        /\ req'[r].step \notin {"insert", "mark", "commit"}
        /\ \A q \in Requests : q # r => req'[q] = req[q]
    BY <1>0, <1>2, RetryLemma, RollbackLemma
  <2>2. TypeOK'
    BY <1>1, <2>1 DEF TypeOK, ReqType
  <2> QED
    BY <1>1, <2>1, <2>2, QuietLemma
<1>3. CASE /\ req[r].number \notin Numbers
           /\ Goto(r, IF req[r].lead = NoLead THEN "commit" ELSE "mark")
  <2>1. /\ ReqType'
        /\ req'[r].step \in {"mark", "commit"}
        /\ req'[r].step = "mark" <=> req[r].lead # NoLead
        /\ req'[r].lead = req[r].lead
        /\ req'[r].number = req[r].number
        /\ \A q \in Requests : q # r => req'[q] = req[q]
    BY <1>0, <1>3, GotoLemma DEF Step
  <2>2. At(r, "insert") /\ ~KeyHeld(r)
    BY DEF InsertOrder
  <2>3. TypeOK'
    BY <1>1, <2>1 DEF TypeOK, ReqType
  <2>4. Numbers' = Numbers /\ NoGap'
    BY <1>1 DEF Numbers, NoGap, Suffixes
  <2>5. NumberDrawn'
    BY <2>1, <2>2, <2>4 DEF Locks, NumberDrawn, Follows, At
  <2>6. KeyLocked'
    BY <1>3, <2>1, <2>2, <2>4 DEF Locks, KeyLocked, KeyHeld, Inserted
  <2>7. LeadLocked'
    <3>1. req[r].lead \in Leads \union {NoLead}
      BY <1>0 DEF ReqType, Request
    <3>2. ~Marked(r)'
      BY <2>1 DEF Marked, At
    <3>3. \A q \in Requests \ {r} : Marked(q)' <=> Marked(q)
      BY <2>1 DEF Marked, At
    <3> QED
      BY <1>1, <2>1, <3>1, <3>2, <3>3 DEF Locks, LeadLocked, At
  <2> QED
    BY <1>1, <2>3, <2>4, <2>5, <2>6, <2>7 DEF Locks
<1> QED
  BY <1>2, <1>3 DEF InsertOrder

LEMMA MarkConvertedStep ==
  ASSUME BookInv, NEW r \in Requests, MarkConverted(r)
  PROVE  BookInv' /\ UNCHANGED <<orders, lead>>
<1> USE DEF BookInv
<1>0. ReqType
  BY DEF TypeOK, ReqType
<1>1. UNCHANGED <<orders, lead, notes, notified, today, commits, faults>>
  BY DEF MarkConverted
<1>2. CASE RetryOrThrow(r) \/ Rollback(r)
  <2>1. /\ ReqType'
        /\ req'[r].step \notin {"insert", "mark", "commit"}
        /\ \A q \in Requests : q # r => req'[q] = req[q]
    BY <1>0, <1>2, RetryLemma, RollbackLemma
  <2>2. TypeOK'
    BY <1>1, <2>1 DEF TypeOK, ReqType
  <2> QED
    BY <1>1, <2>1, <2>2, QuietLemma
<1>3. CASE lead[req[r].lead].order = None /\ Goto(r, "commit")
  <2>1. /\ ReqType'
        /\ req'[r].step = "commit"
        /\ req'[r].lead = req[r].lead
        /\ req'[r].number = req[r].number
        /\ \A q \in Requests : q # r => req'[q] = req[q]
    BY <1>0, <1>3, GotoLemma DEF Step
  <2>2. At(r, "mark") /\ ~LeadHeld(req[r].lead)
    BY DEF MarkConverted
  <2>3. TypeOK'
    BY <1>1, <2>1 DEF TypeOK, ReqType
  <2>4. Numbers' = Numbers /\ NoGap'
    BY <1>1 DEF Numbers, NoGap, Suffixes
  <2>5. NumberDrawn'
    BY <2>1, <2>2, <2>4 DEF Locks, NumberDrawn, Follows, At
  <2>6. KeyLocked'
    BY <2>1, <2>2, <2>4 DEF Locks, KeyLocked, Inserted, At
  <2>7. LeadLocked'
    <3>1. \A q \in Requests \ {r} : Marked(q)' <=> Marked(q)
      BY <2>1 DEF Marked, At
    <3> QED
      BY <1>1, <1>3, <2>1, <2>2, <3>1
      DEF Locks, LeadLocked, LeadHeld, Marked, At
  <2> QED
    BY <1>1, <2>3, <2>4, <2>5, <2>6, <2>7 DEF Locks
<1> QED
  BY <1>2, <1>3 DEF MarkConverted

\* A commit adds the next number of its day and converts a free lead.
LEMMA CommitStep ==
  ASSUME BookInv, NEW r \in Requests, Commit(r)
  PROVE  /\ BookInv'
         /\ Numbers' = Numbers \union {req[r].number}
         /\ req[r].number \in (Nat \X Nat) \ Numbers
         /\ Follows(req[r].number)
         /\ req[r].lead # NoLead => lead[req[r].lead].order = None
<1> USE DEF BookInv
<1> DEFINE num == req[r].number
           order == [number |-> num, lead |-> req[r].lead, by |-> r,
                     at |-> commits + 1]
<1>0. ReqType /\ orders \subseteq Order /\ commits + 1 \in Nat
  BY DEF TypeOK, ReqType
<1>1. /\ req[r] \in Request
      /\ num \in Nat \X Nat
      /\ req[r].lead \in Leads \union {NoLead}
      /\ req[r].attempt \in Nat
  BY <1>0 DEF ReqType, Request
<1>2. /\ At(r, "commit") /\ Inserted(r)
      /\ num \notin Numbers
      /\ Follows(num)
      /\ req[r].lead # NoLead => lead[req[r].lead].order = None
  BY DEF Commit, Inserted, At, Marked, Locks, NumberDrawn, KeyLocked,
     LeadLocked
<1>3. /\ ReqType'
      /\ req'[r].step \in {"note", "invalidate"}
      /\ \A q \in Requests : q # r => req'[q] = req[q]
  <2>1. PICK s \in {"note", "invalidate"} : Leave(r, s, req[r].attempt)
    BY DEF Commit
  <2>2. s \in Step
    BY DEF Step
  <2> QED
    BY <1>0, <1>1, <2>1, <2>2, LeaveLemma
<1>4. orders' = orders \union {order} /\ order \in Order
  BY <1>0, <1>1 DEF Commit, Order
<1>5. Numbers' = Numbers \union {num}
  <2> HIDE DEF num
  <2>1. order.number = num
    OBVIOUS
  <2> HIDE DEF order
  <2> QED
    BY <1>4, <2>1 DEF Numbers
<1>6. lead' \in [Leads -> Lead]
  BY <1>0, <1>1 DEF Commit, TypeOK, Lead
<1>7. TypeOK'
  BY <1>0, <1>3, <1>4, <1>6 DEF Commit, TypeOK, ReqType
<1>8. NoGap'
  <2> SUFFICES ASSUME NEW d \in Nat PROVE \E n \in Nat : Suffixes(d)' = 1 .. n
    BY DEF NoGap
  <2>1. PICK n \in Nat : Suffixes(d) = 1 .. n
    BY DEF NoGap
  <2>2. PICK e \in Nat, s \in Nat : num = <<e, s>>
    BY <1>1
  <2>3. \A x : x \in Suffixes(d)' <=> x \in Suffixes(d) \/ <<d, x>> = num
    <3>1. (orders \subseteq Order)'
      BY <1>7 DEF TypeOK
    <3>2. \A x : <<d, x>> \in Numbers <=> x \in Suffixes(d)
      BY <1>0, NumberInUse
    <3>3. \A x : <<d, x>> \in Numbers' <=> x \in Suffixes(d)'
      BY <3>1 DEF Numbers, Suffixes, Order
    <3> HIDE DEF num
    <3> QED
      BY <1>5, <3>2, <3>3
  <2>4. CASE e = d
    <3>1. s \notin 1 .. n
      BY <1>0, <1>2, <2>1, <2>2, <2>4, NumberInUse
    <3>2. s # 0 /\ (s = 1 \/ s - 1 \in 1 .. n)
      BY <1>0, <1>2, <2>1, <2>2, <2>4, NumberInUse DEF Follows
    <3>3. s = n + 1
      BY <2>1, <2>2, <3>1, <3>2
    <3>4. \A x : x \in Suffixes(d)' <=> x \in 1 .. (n + 1)
      BY <2>1, <2>2, <2>3, <2>4, <3>3
    <3>5. Suffixes(d)' = 1 .. (n + 1)
      BY <3>4
    <3> QED
      BY <3>5
  <2>5. CASE e # d
    <3>1. \A x : <<d, x>> # num
      BY <2>2, <2>5
    <3> HIDE DEF num
    <3>2. \A x : x \in Suffixes(d)' <=> x \in 1 .. n
      BY <2>1, <2>3, <3>1
    <3>3. Suffixes(d)' = 1 .. n
      BY <3>2
    <3> QED
      BY <3>3
  <2> QED
    BY <2>4, <2>5
<1>9. NumberDrawn'
  BY <1>3, <1>5 DEF Locks, NumberDrawn, Follows
<1>10. KeyLocked'
  <2>1. ~Inserted(r)'
    BY <1>3 DEF Inserted
  <2>2. \A q \in Requests \ {r} : Inserted(q)' <=> Inserted(q)
    BY <1>3 DEF Inserted
  <2> QED
    BY <1>2, <1>3, <1>5, <2>1, <2>2 DEF Locks, KeyLocked
<1>11. LeadLocked'
  <2>1. ~Marked(r)' /\ ~At(r, "mark")'
    BY <1>3 DEF Marked, At
  <2>2. \A q \in Requests \ {r} :
           (Marked(q)' <=> Marked(q)) /\ (At(q, "mark")' <=> At(q, "mark"))
    BY <1>3 DEF Marked, At
  <2>3. \A q \in Requests \ {r} :
           Marked(q) => req[q].lead # req[r].lead /\ req[q].lead \in Leads
    <3> TAKE q \in Requests \ {r}
    <3> HAVE Marked(q)
    <3>1. req[q].lead # NoLead /\ req[q].lead \in Leads \union {NoLead}
      BY <1>0 DEF Marked, ReqType, Request
    <3>2. req[r].lead # NoLead => Marked(r)
      BY <1>2 DEF Marked
    <3> QED
      BY <3>1, <3>2 DEF Locks, LeadLocked
  <2>4. \A l \in Leads : l # req[r].lead => lead'[l] = lead[l]
    BY DEF Commit
  <2> QED
    BY <1>3, <2>1, <2>2, <2>3, <2>4 DEF Locks, LeadLocked
<1> QED
  BY <1>1, <1>2, <1>5, <1>7, <1>8, <1>9, <1>10, <1>11 DEF Locks

LEMMA UpdateLeadStep ==
  ASSUME BookInv, NEW r \in Requests, UpdateLead(r)
  PROVE  /\ BookInv'
         /\ orders' = orders
         /\ \/ lead' = lead
            \/ /\ req[r].lead \in Leads
               /\ lead[req[r].lead].order = None
               /\ \E t \in Nat : lead' = [lead EXCEPT ![req[r].lead] =
                     [order |-> None, text |-> t, at |-> commits + 1]]
<1> USE DEF BookInv
<1> DEFINE l == req[r].lead
           row == [order |-> None, text |-> lead[l].text + 1,
                   at |-> commits + 1]
<1>0. /\ ReqType /\ lead \in [Leads -> Lead] /\ commits + 1 \in Nat
      /\ l \in Leads \union {NoLead}
  BY DEF TypeOK, ReqType, Request
<1>1. /\ ReqType'
      /\ req'[r].step \in {"done", "rejected"}
      /\ \A q \in Requests : q # r => req'[q] = req[q]
  BY <1>0, GotoLemma DEF UpdateLead, Step
<1>2. orders' = orders /\ Numbers' = Numbers /\ NoGap'
  BY DEF UpdateLead, Numbers, NoGap, Suffixes
<1>3. CASE lead' = lead
  <2>1. TypeOK'
    BY <1>0, <1>1, <1>3 DEF UpdateLead, TypeOK, ReqType
  <2> QED
    BY <1>1, <1>2, <1>3, <2>1, QuietLemma
<1>4. CASE lead' # lead
  <2>1. lead[l].order = None /\ lead' = [lead EXCEPT ![l] = row]
    BY <1>4 DEF UpdateLead
  <2>2. l \in Leads
    <3> HIDE DEF l, row
    <3> QED
      BY <1>0, <1>4, <2>1
  <2>3. row \in Lead /\ row.order = None /\ row.text \in Nat
    BY <1>0, <2>2 DEF Lead
  <2>4. TypeOK'
    <3>1. lead' \in [Leads -> Lead]
      BY <1>0, <2>1, <2>3
    <3> QED
      BY <1>0, <1>1, <1>2, <3>1 DEF UpdateLead, TypeOK, ReqType
  <2>5. \A k \in Leads : lead'[k].order = lead[k].order
    BY <1>0, <2>1, <2>2, <2>3
  <2>6. NumberDrawn'
    BY <1>1, <1>2 DEF Locks, NumberDrawn, Follows
  <2>7. KeyLocked'
    BY <1>1, <1>2 DEF Locks, KeyLocked, Inserted
  <2>8. LeadLocked'
    <3>1. ~Marked(r)' /\ ~At(r, "mark")'
      BY <1>1 DEF Marked, At
    <3>2. \A q \in Requests \ {r} :
             (Marked(q)' <=> Marked(q)) /\ (At(q, "mark")' <=> At(q, "mark"))
      BY <1>1 DEF Marked, At
    <3>3. \A q \in Requests : Marked(q) => req[q].lead \in Leads
      BY <1>0 DEF Marked, ReqType, Request
    <3> QED
      BY <1>1, <2>5, <3>1, <3>2, <3>3 DEF Locks, LeadLocked
  <2>9. \E t \in Nat : lead' = [lead EXCEPT ![l] =
                     [order |-> None, text |-> t, at |-> commits + 1]]
    BY <2>1, <2>3
  <2> QED
    BY <1>2, <2>1, <2>2, <2>4, <2>6, <2>7, <2>8, <2>9 DEF Locks
<1> QED
  BY <1>3, <1>4

LEMMA IdleStep ==
  ASSUME BookInv, Midnight \/ UNCHANGED vars
  PROVE  BookInv' /\ UNCHANGED <<orders, lead>>
<1>1. UNCHANGED <<orders, lead, notes, notified, req, commits, faults>>
  BY DEF Midnight, vars
<1>2. today' \in Nat
  BY DEF Midnight, vars, BookInv, TypeOK
<1>3. TypeOK'
  BY <1>1, <1>2 DEF BookInv, TypeOK
<1>4. NoGap'
  BY <1>1 DEF BookInv, NoGap, Suffixes
<1>5. Locks'
  BY <1>1 DEF BookInv, Locks, NumberDrawn, Follows, KeyLocked, LeadLocked,
     Inserted, Marked, At, Numbers
<1> QED
  BY <1>1, <1>3, <1>4, <1>5 DEF BookInv

LEMMA BookInvInductive == BookInv /\ [Next]_vars => BookInv'
<1> SUFFICES ASSUME BookInv, [Next]_vars PROVE BookInv'
  OBVIOUS
<1>1. ASSUME NEW r \in Requests,
             BeginCreate(r) \/ BeginEdit(r) \/ Handle(r) \/ Fault(r)
      PROVE  BookInv'
  BY <1>1, QuietSteps, ReadNumberStep, InsertOrderStep, MarkConvertedStep,
     CommitStep, UpdateLeadStep DEF Handle
<1>2. CASE Midnight \/ UNCHANGED vars
  BY <1>2, IdleStep
<1> QED
  BY <1>1, <1>2 DEF Next

-----------------------------------------------------------------------------
(* The theorems *)

\* Every reachable state is well typed.
THEOREM OrderTypeCorrect == SafetySpec => []TypeOK
<1>1. BookInv => TypeOK
  BY DEF BookInv
<1> QED
  BY <1>1, BookInvInit, BookInvInductive, PTL DEF SafetySpec

\* Creations, conversions and edits of leads, in any number and interleaved,
\* implement OrderBook: the transaction, its retries and the conditional
\* updates make each of them one atomic step.
THEOREM OrderBookImplemented == SafetySpec => ImplementsOrderBook
<1>1. Init => Book!Init
  <2> SUFFICES ASSUME Init PROVE Book!Init
    OBVIOUS
  <2> QED
    BY DEF Init, Book!Init, Numbers, None
<1>2. BookInv /\ [Next]_vars => [Book!Next]_Book!vars
  <2> SUFFICES ASSUME BookInv, [Next]_vars PROVE [Book!Next]_Book!vars
    OBVIOUS
  <2>0. /\ orders \subseteq Order /\ lead \in [Leads -> Lead] /\ ReqType
        /\ commits \in Nat
    BY DEF BookInv, TypeOK, ReqType
  <2>1. ASSUME UNCHANGED <<orders, lead>> PROVE UNCHANGED Book!vars
    BY <2>1 DEF Book!vars, Numbers
  <2>2. ASSUME NEW r \in Requests, Commit(r) PROVE Book!Next
    <3> DEFINE num == req[r].number
               l == req[r].lead
    <3>1. /\ Numbers' = Numbers \union {num}
          /\ num \in (Nat \X Nat) \ Numbers
          /\ Follows(num)
          /\ l # NoLead => lead[l].order = None
      BY <2>2, CommitStep
    <3>2. l \in Leads \union {NoLead}
      BY <2>0 DEF ReqType, Request
    <3>3. lead' = [k \in Leads |->
                     IF k = l THEN [lead[k] EXCEPT !.order = num,
                                                   !.at = commits + 1]
                              ELSE lead[k]]
      BY <2>2 DEF Commit
    <3>4. \A k \in Leads : /\ lead'[k].text = lead[k].text
                           /\ lead'[k].order = IF k = l THEN num
                                               ELSE lead[k].order
      <4> HIDE DEF num, l
      <4> QED
        BY <2>0, <3>3 DEF Lead
    <3>5. num \in Numbers' \ Numbers
      BY <3>1
    <3>6. num[2] = 1 \/ <<num[1], num[2] - 1>> \in Numbers
      BY <3>1 DEF Follows
    <3>7. Book!Place(l)
      <4> HIDE DEF num, l
      <4>1. [k \in Leads |-> lead[k].text]' = [k \in Leads |-> lead[k].text]
        BY <3>4
      <4>2. CASE l = NoLead
        <5>1. [k \in Leads |-> lead[k].order]' = [k \in Leads |-> lead[k].order]
          BY <3>4, <4>2, LeadAssumption
        <5> QED
          BY <3>1, <3>5, <3>6, <4>1, <4>2, <5>1 DEF Book!Place, Book!IsNext
      <4>3. CASE l # NoLead
        <5>1. l \in Leads /\ lead[l].order = <<>>
          BY <3>1, <3>2, <4>3 DEF None
        <5>2. [k \in Leads |-> lead[k].order]'
                = [[k \in Leads |-> lead[k].order] EXCEPT ![l] = num]
          BY <3>4, <5>1
        <5> QED
          BY <3>1, <3>5, <3>6, <4>1, <4>3, <5>1, <5>2
          DEF Book!Place, Book!IsNext
      <4> QED
        BY <4>2, <4>3
    <3>8. \E k \in Leads \union {NoLead} : Book!Place(k)
      BY <3>2, <3>7, Zenon DEF Book!Place, Book!IsNext
    <3> QED
      BY <3>8, Zenon DEF Book!Next
  <2>3. ASSUME NEW r \in Requests, UpdateLead(r)
        PROVE  Book!Next \/ UNCHANGED Book!vars
    <3> DEFINE l == req[r].lead
    <3>1. CASE lead' = lead
      BY <2>1, <2>3, <3>1, UpdateLeadStep
    <3>2. CASE lead' # lead
      <4>1. PICK t \in Nat :
               /\ l \in Leads /\ lead[l].order = None /\ orders' = orders
               /\ lead' = [lead EXCEPT ![l] =
                     [order |-> None, text |-> t, at |-> commits + 1]]
        BY <2>3, <3>2, UpdateLeadStep
      <4> HIDE DEF l
      <4>2. \A k \in Leads :
               /\ lead'[k].order = lead[k].order
               /\ lead'[k].text = IF k = l THEN t ELSE lead[k].text
        BY <2>0, <4>1
      <4>3. Numbers' = Numbers
        BY <4>1 DEF Numbers
      <4>4. [k \in Leads |-> lead[k].order]' = [k \in Leads |-> lead[k].order]
        BY <4>2
      <4>5. [k \in Leads |-> lead[k].text]'
              = [[k \in Leads |-> lead[k].text] EXCEPT ![l] = t]
        BY <4>1, <4>2
      <4>6. [k \in Leads |-> lead[k].text]'[l] = t
        BY <4>1, <4>2
      <4>7. Book!EditLead(l)
        BY <4>1, <4>3, <4>4, <4>5, <4>6 DEF Book!EditLead, None
      <4>8. \E k \in Leads : Book!EditLead(k)
        BY <4>1, <4>7, Zenon DEF Book!EditLead
      <4> QED
        BY <4>8, Zenon DEF Book!Next
    <3> QED
      BY <3>1, <3>2
  <2>4. ASSUME NEW r \in Requests,
               BeginCreate(r) \/ BeginEdit(r) \/ Handle(r) \/ Fault(r)
        PROVE  Book!Next \/ UNCHANGED Book!vars
    <3>1. CASE Commit(r)
      BY <2>2, <3>1
    <3>2. CASE UpdateLead(r)
      BY <2>3, <3>2
    <3>3. CASE ReadNumber(r)
      BY <2>1, <3>3 DEF ReadNumber
    <3>4. CASE InsertOrder(r)
      BY <2>1, <3>4, InsertOrderStep
    <3>5. CASE MarkConverted(r)
      BY <2>1, <3>5, MarkConvertedStep
    <3>6. CASE \/ BeginCreate(r) \/ SerializationFailure(r) \/ StoreNote(r)
               \/ AfterMutation(r) \/ NotifyOrderCreated(r) \/ BeginEdit(r)
               \/ Fault(r)
      BY <2>1, <3>6, QuietSteps
    <3> QED
      BY <2>4, <3>1, <3>2, <3>3, <3>4, <3>5, <3>6 DEF Handle
  <2>5. CASE Midnight \/ UNCHANGED vars
    BY <2>1, <2>5, IdleStep
  <2> QED
    BY <2>4, <2>5 DEF Next
<1> QED
  BY <1>1, <1>2, BookInvInit, BookInvInductive, PTL
  DEF SafetySpec, ImplementsOrderBook, Book!Spec

-----------------------------------------------------------------------------
(* What a request leaves behind *)

Committed == {"note", "invalidate", "notify", "done", "cut"}

\* A request handles an order, not a lead edit, once it has an attempt.
Succeeded(r) == At(r, "done") /\ req[r].attempt # 0

AnswerOf(r) ==
    /\ r \in notes \union notified => req[r].step \in Committed
    /\ At(r, "edit") => req[r].attempt = 0
    /\ req[r].step \in {"note", "invalidate", "notify"} \/ Succeeded(r)
          => Stored(r)
    /\ req[r].note = "given" =>
          (req[r].step \in {"invalidate", "notify"} \/ Succeeded(r)
             => r \in notes)
    /\ Succeeded(r) => r \in notified

AnswerInv ==
    /\ \A o \in orders : req[o.by].step \in Committed
    /\ \A o \in orders : o.lead # NoLead => lead[o.lead].order = o.number
    /\ \A r \in Requests : AnswerOf(r)

\* A request that has not committed and does not commit now.
LEMMA UncommittedLemma ==
  ASSUME AnswerInv, NEW r \in Requests, orders \subseteq Order,
         UNCHANGED <<orders, lead, notes, notified>>,
         req[r].step \notin Committed, req'[r].step \notin Committed,
         At(r, "edit")' => req'[r].attempt = 0,
         \A q \in Requests : q # r => req'[q] = req[q]
  PROVE  AnswerInv'
<1>1. \A o \in orders : o.by \in Requests /\ o.by # r
  BY DEF AnswerInv, Order
<1>2. \A q \in Requests : Stored(q)' <=> Stored(q)
  BY DEF Stored
<1> QED
  BY <1>1, <1>2 DEF AnswerInv, AnswerOf, Committed, Succeeded, At

LEMMA AnswerInvInductive ==
  BookInv /\ AnswerInv /\ [Next]_vars => AnswerInv'
<1> SUFFICES ASSUME BookInv, AnswerInv, [Next]_vars PROVE AnswerInv'
  OBVIOUS
<1>0. ReqType /\ orders \subseteq Order
  BY DEF BookInv, TypeOK, ReqType
<1>1. ASSUME NEW r \in Requests, BeginCreate(r) PROVE AnswerInv'
  <2>1. PICK l \in Leads \union {NoLead}, note \in NoteField :
             req' = [req EXCEPT ![r] = Slot("begin", l, note, 1, <<0, 0>>, 0)]
    BY <1>1 DEF BeginCreate
  <2>2. /\ req'[r].step = "begin"
        /\ \A q \in Requests : q # r => req'[q] = req[q]
    BY <1>0, <2>1 DEF ReqType, Slot
  <2> QED
    BY <1>0, <1>1, <2>2, UncommittedLemma DEF BeginCreate, At, Committed
<1>2. ASSUME NEW r \in Requests, BeginEdit(r) PROVE AnswerInv'
  <2>1. PICK l \in Leads :
             req' = [req EXCEPT ![r] = Slot("edit", l, "absent", 0, <<0, 0>>, 0)]
    BY <1>2 DEF BeginEdit
  <2>2. /\ req'[r].step = "edit" /\ req'[r].attempt = 0
        /\ \A q \in Requests : q # r => req'[q] = req[q]
    BY <1>0, <2>1 DEF ReqType, Slot
  <2> QED
    BY <1>0, <1>2, <2>2, UncommittedLemma DEF BeginEdit, At, Committed
<1>3. ASSUME NEW r \in Requests, ReadNumber(r) PROVE AnswerInv'
  <2>1. /\ req'[r].step = "insert"
        /\ \A q \in Requests : q # r => req'[q] = req[q]
    BY <1>0, <1>3 DEF ReadNumber, ReqType, Slot
  <2> QED
    BY <1>0, <1>3, <2>1, UncommittedLemma DEF ReadNumber, At, Committed
<1>4. ASSUME NEW r \in Requests,
             InsertOrder(r) \/ SerializationFailure(r) \/ MarkConverted(r)
      PROVE  AnswerInv'
  <2>1. \/ RetryOrThrow(r) \/ Rollback(r)
        \/ \E s \in {"mark", "commit"} : Goto(r, s)
    BY <1>4 DEF InsertOrder, SerializationFailure, MarkConverted
  <2>2. /\ req'[r].step \in {"begin", "rejected", "mark", "commit"}
        /\ \A q \in Requests : q # r => req'[q] = req[q]
    BY <1>0, <2>1, RetryLemma, RollbackLemma, GotoLemma DEF Step
  <2>3. /\ req[r].step \in {"insert", "mark", "commit"}
        /\ UNCHANGED <<orders, lead, notes, notified>>
    BY <1>4 DEF InsertOrder, SerializationFailure, MarkConverted, At
  <2> QED
    BY <1>0, <2>2, <2>3, UncommittedLemma DEF At, Committed
<1>5. ASSUME NEW r \in Requests, Commit(r) PROVE AnswerInv'
  <2> DEFINE order == [number |-> req[r].number, lead |-> req[r].lead,
                       by |-> r, at |-> commits + 1]
  <2>1. /\ orders' = orders \union {order}
        /\ UNCHANGED <<notes, notified>>
        /\ At(r, "commit")
    BY <1>5 DEF Commit
  <2>2. /\ req'[r].step = IF req[r].note = "given" THEN "note" ELSE "invalidate"
        /\ req'[r].note = req[r].note
        /\ \A q \in Requests : q # r => req'[q] = req[q]
    <3>1. req[r].attempt \in Nat
      BY <1>0 DEF ReqType, Request
    <3> QED
      BY ZenonT(60), <1>0, <1>5, <3>1, LeaveLemma DEF Commit, Step
  <2>3. req[r].number \in Nat \X Nat /\ req[r].number # None
    BY <1>5, CommitStep, NumberIsNotNone
  <2>4. \A o \in orders : o.by \in Requests /\ o.lead \in Leads \union {NoLead}
    BY <1>0 DEF Order
  <2>5. order.by = r /\ order.lead = req[r].lead /\ order.number = req[r].number
    OBVIOUS
  <2>6. \A l \in Leads : lead'[l].order = IF l = req[r].lead
                                          THEN req[r].number
                                          ELSE lead[l].order
    BY <1>5 DEF Commit, BookInv, TypeOK, Lead
  <2>7. req[r].lead # NoLead => lead[req[r].lead].order = None
    BY <1>5, CommitStep
  <2> HIDE DEF order
  <2>8. \A o \in orders' : req'[o.by].step \in Committed
    BY <2>1, <2>2, <2>4, <2>5 DEF AnswerInv, Committed
  <2>9. \A o \in orders' : o.lead # NoLead => lead'[o.lead].order = o.number
    <3>1. \A o \in orders : o.lead # NoLead => o.lead # req[r].lead
      <4>1. \A o \in orders : o.number # None
        BY <1>0, NumberIsNotNone DEF Order
      <4> QED
        BY <2>7, <4>1 DEF AnswerInv
    <3>2. req[r].lead \in Leads \union {NoLead}
      BY <1>0 DEF ReqType, Request
    <3> QED
      BY <2>1, <2>4, <2>5, <2>6, <3>1, <3>2 DEF AnswerInv
  <2>10. Stored(r)' /\ \A q \in Requests : Stored(q) => Stored(q)'
    BY <2>1, <2>5 DEF Stored
  <2> QED
    BY <2>1, <2>2, <2>8, <2>9, <2>10 DEF AnswerInv, AnswerOf, Committed, Succeeded, At
<1>6. ASSUME NEW r \in Requests, StoreNote(r) PROVE AnswerInv'
  <2>1. /\ req'[r].step = "invalidate" /\ req'[r].note = req[r].note
        /\ \A q \in Requests : q # r => req'[q] = req[q]
    BY <1>0, <1>6, GotoLemma DEF StoreNote, Step
  <2>2. Stored(r) /\ \A q \in Requests : Stored(q)' <=> Stored(q)
    BY <1>6 DEF StoreNote, Stored, AnswerInv, AnswerOf, At
  <2>3. \A o \in orders : o.by \in Requests
    BY <1>0 DEF Order
  <2> QED
    BY <1>6, <2>1, <2>2, <2>3 DEF StoreNote, AnswerInv, AnswerOf, Committed,
     Succeeded, At
<1>7. ASSUME NEW r \in Requests, AfterMutation(r) PROVE AnswerInv'
  <2>1. /\ req'[r].step = "notify" /\ req'[r].note = req[r].note
        /\ \A q \in Requests : q # r => req'[q] = req[q]
    BY <1>0, <1>7, GotoLemma DEF AfterMutation, Step
  <2>2. Stored(r) /\ \A q \in Requests : Stored(q)' <=> Stored(q)
    BY <1>7 DEF AfterMutation, Stored, AnswerInv, AnswerOf, At
  <2>3. \A o \in orders : o.by \in Requests
    BY <1>0 DEF Order
  <2> QED
    BY <1>7, <2>1, <2>2, <2>3
    DEF AfterMutation, AnswerInv, AnswerOf, Committed, Succeeded, At
<1>8. ASSUME NEW r \in Requests, NotifyOrderCreated(r) PROVE AnswerInv'
  <2>1. /\ req'[r].step = "done" /\ req'[r].note = req[r].note
        /\ \A q \in Requests : q # r => req'[q] = req[q]
    BY <1>0, <1>8, GotoLemma DEF NotifyOrderCreated, Step
  <2>2. Stored(r) /\ \A q \in Requests : Stored(q)' <=> Stored(q)
    BY <1>8 DEF NotifyOrderCreated, Stored, AnswerInv, AnswerOf, At
  <2>3. \A o \in orders : o.by \in Requests
    BY <1>0 DEF Order
  <2> QED
    <3>1. /\ UNCHANGED <<orders, lead, notes>>
          /\ notified' = notified \union {r}
          /\ At(r, "notify")
      BY <1>8 DEF NotifyOrderCreated
    <3>2. \A q \in Requests : q # r => (Succeeded(q)' <=> Succeeded(q))
      BY <2>1 DEF Succeeded, At
    <3>3. \A o \in orders : req'[o.by].step \in Committed
      BY <2>1, <2>3 DEF AnswerInv, Committed
    <3>5. req[r].note = "given" => r \in notes
      BY <3>1 DEF AnswerInv, AnswerOf, At
    <3>6. \A o \in orders' : o.lead # NoLead => lead'[o.lead].order = o.number
      BY <3>1 DEF AnswerInv
    <3>7. AnswerOf(r)'
      <4>1. req'[r].step \in Committed /\ ~At(r, "edit")'
        BY <2>1 DEF Committed, At
      <4>2. Stored(r)' /\ r \in notified'
        BY <2>2, <3>1
      <4>3. req'[r].note = "given" => r \in notes'
        BY <2>1, <3>1, <3>5
      <4> QED
        BY <4>1, <4>2, <4>3, Zenon DEF AnswerOf
    <3>8. ASSUME NEW q \in Requests, q # r PROVE AnswerOf(q)'
      <4>1. AnswerOf(q) /\ req'[q] = req[q]
        BY <2>1, <3>8 DEF AnswerInv
      <4>2. (q \in notified') <=> (q \in notified)
        BY <3>1, <3>8
      <4>3. Stored(q)' <=> Stored(q)
        BY <2>2
      <4> QED
        BY <3>1, <4>1, <4>2, <4>3 DEF AnswerOf, Succeeded, At
    <3> QED
      BY <3>1, <3>3, <3>6, <3>7, <3>8 DEF AnswerInv
<1>9. ASSUME NEW r \in Requests, UpdateLead(r) PROVE AnswerInv'
  <2>1. /\ req'[r].step \in {"done", "rejected"}
        /\ req'[r].attempt = req[r].attempt
        /\ \A q \in Requests : q # r => req'[q] = req[q]
    BY <1>0, <1>9, GotoLemma DEF UpdateLead, Step
  <2>2. At(r, "edit") /\ UNCHANGED <<orders, notes, notified>>
    BY <1>9 DEF UpdateLead
  <2>3. \A q \in Requests : Stored(q)' <=> Stored(q)
    BY <2>2 DEF Stored
  <2>4. \A o \in orders : o.by \in Requests /\ o.lead \in Leads \union {NoLead}
    BY <1>0 DEF Order
  <2>5. \A l \in Leads : lead'[l].order = lead[l].order
    <3>1. lead \in [Leads -> Lead]
      BY DEF BookInv, TypeOK
    <3>2. CASE lead' = lead
      BY <3>2
    <3>3. CASE lead' # lead
      <4>1. PICK t \in Nat :
               /\ req[r].lead \in Leads /\ lead[req[r].lead].order = None
               /\ lead' = [lead EXCEPT ![req[r].lead] =
                     [order |-> None, text |-> t, at |-> commits + 1]]
        BY <1>9, <3>3, UpdateLeadStep
      <4> QED
        BY <3>1, <4>1
    <3> QED
      BY <3>2, <3>3
  <2> QED
    BY <2>1, <2>2, <2>3, <2>4, <2>5 DEF AnswerInv, AnswerOf, Committed, Succeeded, At
<1>10. ASSUME NEW r \in Requests, Fault(r) PROVE AnswerInv'
  <2>1. UNCHANGED <<orders, lead, notes, notified>>
    BY <1>10 DEF Fault
  <2>2. CASE /\ req[r].step \in {"begin", "insert", "mark", "commit", "edit"}
             /\ Rollback(r)
    <3>1. /\ req'[r].step = "rejected"
          /\ \A q \in Requests : q # r => req'[q] = req[q]
      BY <1>0, <2>2, RollbackLemma
    <3> QED
      BY <1>0, <2>1, <2>2, <3>1, UncommittedLemma DEF At, Committed
  <2>3. CASE /\ req[r].step \in {"note", "invalidate", "notify"}
             /\ Goto(r, "cut")
    <3>1. /\ req'[r].step = "cut"
          /\ \A q \in Requests : q # r => req'[q] = req[q]
      BY <1>0, <2>3, GotoLemma DEF Step
    <3>2. \A q \in Requests : Stored(q)' <=> Stored(q)
      BY <2>1 DEF Stored
    <3>3. \A o \in orders : o.by \in Requests
      BY <1>0 DEF Order
    <3> QED
      <4>1. \A o \in orders : req'[o.by].step \in Committed
        BY <2>3, <3>1, <3>3 DEF AnswerInv, Committed
      <4>2. \A q \in Requests : q # r => (Succeeded(q)' <=> Succeeded(q))
        BY <3>1 DEF Succeeded, At
      <4>3. ~Succeeded(r)'
        BY <3>1 DEF Succeeded, At
      <4>4. AnswerOf(r)'
        BY <3>1, <4>3, Zenon DEF AnswerOf, Committed, At
      <4>5. ASSUME NEW q \in Requests, q # r PROVE AnswerOf(q)'
        <5>1. AnswerOf(q) /\ req'[q] = req[q]
          BY <3>1, <4>5 DEF AnswerInv
        <5> QED
          BY <2>1, <3>2, <5>1 DEF AnswerOf, Succeeded, At
      <4> QED
        BY <2>1, <4>1, <4>4, <4>5 DEF AnswerInv
  <2> QED
    BY <1>10, <2>2, <2>3 DEF Fault
<1>11. CASE Midnight \/ UNCHANGED vars
  BY <1>11 DEF Midnight, vars, AnswerInv, AnswerOf, Committed, Succeeded,
     Stored, At
<1> QED
  BY <1>1, <1>2, <1>3, <1>4, <1>5, <1>6, <1>7, <1>8, <1>9, <1>10, <1>11
  DEF Next, Handle

\* An order request that fails before its commit leaves nothing, one that
\* succeeds has stored its note and announced its order, and each order of a
\* lead is the one the lead names.
THEOREM CreationAllOrNothing == SafetySpec => []AllOrNothing
<1>1. Init => AnswerInv
  <2> SUFFICES ASSUME Init PROVE AnswerInv
    OBVIOUS
  <2>1. orders = {} /\ notes = {} /\ notified = {}
        /\ \A r \in Requests : req[r].step = "idle"
    BY DEF Init, Slot
  <2>2. ASSUME NEW r \in Requests PROVE AnswerOf(r)
    <3>1. /\ ~Succeeded(r) /\ ~At(r, "edit")
          /\ req[r].step \notin {"note", "invalidate", "notify"}
      BY <2>1 DEF Succeeded, At
    <3> QED
      BY <2>1, <3>1 DEF AnswerOf
  <2> QED
    BY <2>1, <2>2 DEF AnswerInv
<1>2. AnswerInv => AllOrNothing
  <2> SUFFICES ASSUME AnswerInv PROVE AllOrNothing
    OBVIOUS
  <2>1. \A r \in Requests : Stored(r) => req[r].step \in Committed
    BY DEF Stored, AnswerInv
  <2> QED
    BY <2>1 DEF AnswerInv, AnswerOf, AllOrNothing, Committed, Succeeded, At
<1> QED
  BY <1>1, <1>2, BookInvInit, BookInvInductive, AnswerInvInductive, PTL
  DEF SafetySpec

-----------------------------------------------------------------------------
(* Retries *)

\* The clock is not behind any row or snapshot, and a number read by a
\* transaction that is in use by now was committed after its snapshot.
ProgressInv ==
    /\ \A o \in orders : o.at <= commits
    /\ \A l \in Leads : lead[l].at <= commits
    /\ \A r \in Requests :
          At(r, "insert") =>
              /\ req[r].began <= commits
              /\ req[r].number \in Numbers => commits > req[r].began

\* A step of r that commits nothing and does not end at "insert".
LEMMA NoCommitLemma ==
  ASSUME ProgressInv, NEW r \in Requests, UNCHANGED <<orders, lead, commits>>,
         req'[r].step # "insert",
         \A q \in Requests : q # r => req'[q] = req[q]
  PROVE  ProgressInv'
<1>1. Numbers' = Numbers
  BY DEF Numbers
<1>2. ASSUME NEW q \in Requests, At(q, "insert")'
      PROVE  q # r /\ At(q, "insert") /\ req'[q] = req[q]
  BY <1>2 DEF At
<1>3. \A q \in Requests :
         At(q, "insert")' =>
             /\ req'[q].began <= commits'
             /\ req'[q].number \in Numbers' => commits' > req'[q].began
  BY <1>1, <1>2 DEF ProgressInv
<1> QED
  BY <1>3 DEF ProgressInv

\* A commit advances the clock past every snapshot.
LEMMA CommitLemma ==
  ASSUME ProgressInv, TypeOK, NEW r \in Requests, commits' = commits + 1,
         req'[r].step # "insert",
         \A q \in Requests : q # r => req'[q] = req[q],
         \A o \in orders' : o \in orders \/ o.at = commits + 1,
         \A l \in Leads : lead'[l].at = lead[l].at \/ lead'[l].at = commits + 1
  PROVE  ProgressInv'
<1>1. commits \in Nat
  BY DEF TypeOK
<1>2. \A o \in orders : o.at \in Nat
  BY DEF TypeOK, Order
<1>3. \A l \in Leads : lead[l].at \in Nat
  BY DEF TypeOK, Lead
<1>4. \A o \in orders' : o.at <= commits'
  BY <1>1, <1>2 DEF ProgressInv
<1>5. \A l \in Leads : lead'[l].at <= commits'
  BY <1>1, <1>3 DEF ProgressInv
<1>6. ASSUME NEW q \in Requests, At(q, "insert")'
      PROVE  req'[q].began <= commits' /\ commits' > req'[q].began
  <2>1. At(q, "insert") /\ req'[q] = req[q]
    BY <1>6 DEF At
  <2>2. req[q].began \in Nat /\ req[q].began <= commits
    BY <2>1 DEF TypeOK, Request, ProgressInv
  <2> QED
    BY <1>1, <2>1, <2>2
<1> QED
  BY <1>4, <1>5, <1>6 DEF ProgressInv

\* A step that retries has seen another commit; no other step of r ends at
\* "begin" with an attempt after the first.
LEMMA ProgressStep ==
  ASSUME BookInv, ProgressInv, NEW r \in Requests,
         BeginCreate(r) \/ BeginEdit(r) \/ Handle(r) \/ Fault(r)
  PROVE  /\ ProgressInv'
         /\ \A q \in Requests : q # r => req'[q] = req[q]
         /\ At(r, "begin")' /\ req'[r].attempt > 1 /\ ~At(r, "begin")
                => commits > req[r].began
<1> USE DEF BookInv
<1>1. ReqType /\ TypeOK /\ commits \in Nat /\ req[r] \in Request
  BY DEF TypeOK, ReqType
<1>2. CASE BeginCreate(r)
  <2>1. PICK l \in Leads \union {NoLead}, note \in NoteField :
           req' = [req EXCEPT ![r] = Slot("begin", l, note, 1, <<0, 0>>, 0)]
    BY <1>2 DEF BeginCreate
  <2>3. /\ req'[r] = Slot("begin", l, note, 1, <<0, 0>>, 0)
        /\ \A q \in Requests : q # r => req'[q] = req[q]
    BY <1>1, <2>1 DEF ReqType
  <2>4. req'[r].step = "begin" /\ req'[r].attempt = 1
    BY <2>3 DEF Slot
  <2>5. UNCHANGED <<orders, lead, commits>>
    BY <1>2 DEF BeginCreate
  <2> QED
    BY <2>3, <2>4, <2>5, NoCommitLemma
<1>3. CASE BeginEdit(r)
  <2>1. PICK l \in Leads :
           req' = [req EXCEPT ![r] = Slot("edit", l, "absent", 0, <<0, 0>>, 0)]
    BY <1>3 DEF BeginEdit
  <2>3. /\ req'[r] = Slot("edit", l, "absent", 0, <<0, 0>>, 0)
        /\ \A q \in Requests : q # r => req'[q] = req[q]
    BY <1>1, <2>1 DEF ReqType
  <2>4. req'[r].step = "edit"
    BY <2>3 DEF Slot
  <2>5. UNCHANGED <<orders, lead, commits>>
    BY <1>3 DEF BeginEdit
  <2> QED
    BY <2>3, <2>4, <2>5, NoCommitLemma DEF At
<1>4. CASE ReadNumber(r)
  <2>1. PICK n \in Nat : /\ Suffixes(today) = 1 .. n
                         /\ getNextOrderNumber(today) = <<today, n + 1>>
    BY NextNumberLemma DEF TypeOK
  <2>2. <<today, n + 1>> \in Nat \X Nat /\ <<today, n + 1>> \notin Numbers
    BY <2>1, NumberInUse DEF TypeOK
  <2>4. /\ req'[r] = Slot("insert", req[r].lead, req[r].note, req[r].attempt,
                          <<today, n + 1>>, commits)
        /\ \A q \in Requests : q # r => req'[q] = req[q]
    BY <1>1, <1>4, <2>1 DEF ReadNumber, ReqType
  <2>5. /\ req'[r].step = "insert" /\ req'[r].began = commits
        /\ req'[r].number = <<today, n + 1>>
    BY <2>4 DEF Slot
  <2>6. UNCHANGED <<orders, lead, commits>>
    BY <1>4 DEF ReadNumber
  <2>7. Numbers' = Numbers
    BY <2>6 DEF Numbers
  <2>8. ASSUME NEW q \in Requests, At(q, "insert")'
        PROVE  /\ req'[q].began <= commits'
               /\ req'[q].number \in Numbers' => commits' > req'[q].began
    <3>1. CASE q = r
      BY <1>1, <2>2, <2>5, <2>6, <2>7, <3>1
    <3>2. CASE q # r
      BY <2>4, <2>6, <2>7, <2>8, <3>2 DEF ProgressInv, At
    <3> QED
      BY <3>1, <3>2
  <2>9. ProgressInv'
    BY <2>6, <2>8 DEF ProgressInv
  <2> QED
    BY <2>4, <2>5, <2>9 DEF At
<1>5. CASE InsertOrder(r)
  <2>1. UNCHANGED <<orders, lead, commits>> /\ At(r, "insert")
    BY <1>5 DEF InsertOrder
  <2>2. CASE req[r].number \in Numbers /\ RetryOrThrow(r)
    BY <1>1, <2>1, <2>2, RetryLemma, NoCommitLemma DEF ProgressInv, At
  <2>3. CASE Rollback(r)
    BY <1>1, <2>1, <2>3, RollbackLemma, NoCommitLemma DEF At
  <2>4. CASE Goto(r, IF req[r].lead = NoLead THEN "commit" ELSE "mark")
    <3>1. PICK s \in {"commit", "mark"} : Goto(r, s)
      BY <2>4
    <3>2. s \in Step /\ s # "insert" /\ s # "begin"
      BY <3>1 DEF Step
    <3> QED
      BY <1>1, <2>1, <3>1, <3>2, GotoLemma, NoCommitLemma DEF At
  <2> QED
    BY <1>5, <2>2, <2>3, <2>4 DEF InsertOrder
<1>6. CASE SerializationFailure(r)
  <2>1. UNCHANGED <<orders, lead, commits>> /\ RetryOrThrow(r)
    BY <1>6 DEF SerializationFailure
  <2>2. PICK o \in orders : o.at > req[r].began
    BY <1>6 DEF SerializationFailure, OrdersChanged
  <2>3. o.at \in Nat /\ req[r].began \in Nat /\ o.at <= commits
    BY <1>1 DEF TypeOK, Order, Request, ProgressInv
  <2>4. commits > req[r].began
    BY <1>1, <2>2, <2>3
  <2> QED
    BY <1>1, <2>1, <2>4, RetryLemma, NoCommitLemma
<1>7. CASE MarkConverted(r)
  <2>1. UNCHANGED <<orders, lead, commits>> /\ At(r, "mark")
    BY <1>7 DEF MarkConverted
  <2>2. req[r].lead \in Leads
    BY <2>1 DEF Locks, LeadLocked
  <2>3. CASE lead[req[r].lead].at > req[r].began /\ RetryOrThrow(r)
    <3>1. /\ lead[req[r].lead].at \in Nat /\ req[r].began \in Nat
          /\ lead[req[r].lead].at <= commits
      BY <1>1, <2>2 DEF TypeOK, Lead, Request, ProgressInv
    <3>2. commits > req[r].began
      BY <1>1, <2>3, <3>1
    <3> QED
      BY <1>1, <2>1, <2>3, <3>2, RetryLemma, NoCommitLemma
  <2>4. CASE Goto(r, "commit")
    BY <1>1, <2>1, <2>4, GotoLemma, NoCommitLemma DEF At, Step
  <2>5. CASE Rollback(r)
    BY <1>1, <2>1, <2>5, RollbackLemma, NoCommitLemma DEF At
  <2> QED
    BY <1>7, <2>3, <2>4, <2>5 DEF MarkConverted
<1>8. CASE Commit(r)
  <2>1. /\ commits' = commits + 1
        /\ \A o \in orders' : o \in orders \/ o.at = commits + 1
        /\ \A l \in Leads :
              lead'[l].at = lead[l].at \/ lead'[l].at = commits + 1
    <3>1. commits' = commits + 1 /\ \A o \in orders' : o \in orders \/ o.at = commits + 1
      <4> DEFINE new == [number |-> req[r].number, lead |-> req[r].lead, by |-> r,
                         at |-> commits + 1]
      <4>1. new.at = commits + 1
        OBVIOUS
      <4>2. commits' = commits + 1 /\ orders' = orders \union {new}
        BY <1>8 DEF Commit
      <4> HIDE DEF new
      <4> QED
        BY <4>1, <4>2
    <3>2. ASSUME NEW l \in Leads
          PROVE  lead'[l].at = lead[l].at \/ lead'[l].at = commits + 1
      <4>1. lead[l] \in Lead
        BY <1>1 DEF TypeOK
      <4>2. CASE l = req[r].lead
        BY <1>8, <4>1, <4>2 DEF Commit, Lead
      <4>3. CASE l # req[r].lead
        BY <1>8, <4>3 DEF Commit
      <4> QED
        BY <4>2, <4>3
    <3> QED
      BY <3>1, <3>2
  <2>2. PICK s \in {"note", "invalidate"} : Leave(r, s, req[r].attempt)
    BY <1>8 DEF Commit
  <2>3. s \in Step /\ s # "insert" /\ s # "begin" /\ req[r].attempt \in Nat
    BY <1>1, <2>2 DEF Step, Request
  <2>4. /\ req'[r].step = s
        /\ \A q \in Requests : q # r => req'[q] = req[q]
    BY <1>1, <2>2, <2>3, LeaveLemma
  <2>5. ProgressInv'
    BY <1>1, <2>1, <2>3, <2>4, CommitLemma
  <2> QED
    BY <2>3, <2>4, <2>5 DEF At
<1>9. CASE StoreNote(r) \/ AfterMutation(r) \/ NotifyOrderCreated(r)
  <2>1. UNCHANGED <<orders, lead, commits>>
    BY <1>9 DEF StoreNote, AfterMutation, NotifyOrderCreated
  <2>2. PICK s \in {"invalidate", "notify", "done"} : Goto(r, s)
    BY <1>9 DEF StoreNote, AfterMutation, NotifyOrderCreated
  <2>3. s \in Step /\ s # "insert" /\ s # "begin"
    BY <2>2 DEF Step
  <2> QED
    BY <1>1, <2>1, <2>2, <2>3, GotoLemma, NoCommitLemma DEF At
<1>10. CASE UpdateLead(r)
  <2>1. orders' = orders /\ At(r, "edit")
    BY <1>10 DEF UpdateLead
  <2>2. CASE Goto(r, "done") /\ commits' = commits + 1
             /\ lead' = [lead EXCEPT ![req[r].lead] =
                           [order |-> None, text |-> lead[req[r].lead].text + 1,
                            at |-> commits + 1]]
    <3>1. \A l \in Leads : lead'[l].at = lead[l].at \/ lead'[l].at = commits + 1
      BY <1>1, <2>2 DEF TypeOK, Lead
    <3>2. /\ req'[r].step = "done"
          /\ \A q \in Requests : q # r => req'[q] = req[q]
      BY <1>1, <2>2, GotoLemma DEF Step
    <3>3. ProgressInv'
      BY <1>1, <2>1, <2>2, <3>1, <3>2, CommitLemma
    <3> QED
      BY <3>2, <3>3 DEF At
  <2>3. CASE Goto(r, "rejected") /\ UNCHANGED <<lead, commits>>
    BY <1>1, <2>1, <2>3, GotoLemma, NoCommitLemma DEF At, Step
  <2> QED
    BY <1>10, <2>2, <2>3 DEF UpdateLead
<1>11. CASE Fault(r)
  <2>1. UNCHANGED <<orders, lead, commits>>
    BY <1>11 DEF Fault
  <2>2. CASE Rollback(r)
    BY <1>1, <2>1, <2>2, RollbackLemma, NoCommitLemma DEF At
  <2>3. CASE Goto(r, "cut")
    BY <1>1, <2>1, <2>3, GotoLemma, NoCommitLemma DEF At, Step
  <2> QED
    BY <1>11, <2>2, <2>3 DEF Fault
<1> QED
  BY <1>2, <1>3, <1>4, <1>5, <1>6, <1>7, <1>8, <1>9, <1>10, <1>11 DEF Handle

LEMMA ProgressInductive ==
  BookInv /\ ProgressInv /\ [Next]_vars
      => ProgressInv' /\ [AnotherCommitted]_vars
<1> SUFFICES ASSUME BookInv, ProgressInv, [Next]_vars
             PROVE  ProgressInv' /\ [AnotherCommitted]_vars
  OBVIOUS
<1>1. CASE \E r \in Requests :
              BeginCreate(r) \/ BeginEdit(r) \/ Handle(r) \/ Fault(r)
  <2>1. PICK r \in Requests :
                BeginCreate(r) \/ BeginEdit(r) \/ Handle(r) \/ Fault(r)
    BY <1>1
  <2>2. /\ ProgressInv'
        /\ \A q \in Requests : q # r => req'[q] = req[q]
        /\ At(r, "begin")' /\ req'[r].attempt > 1 /\ ~At(r, "begin")
               => commits > req[r].began
    BY <2>1, ProgressStep
  <2>3. ASSUME NEW q \in Requests,
               At(q, "begin")' /\ req'[q].attempt > 1 /\ ~At(q, "begin")
        PROVE  commits > req[q].began
    <3>1. q = r
      BY <2>2, <2>3 DEF At
    <3> QED
      BY <2>2, <2>3, <3>1
  <2> QED
    BY <2>2, <2>3 DEF AnotherCommitted
<1>2. CASE Midnight \/ UNCHANGED vars
  <2>1. UNCHANGED <<orders, lead, req, commits>>
    BY <1>2 DEF Midnight, vars
  <2>2. ProgressInv'
    BY <2>1 DEF ProgressInv, At, Numbers
  <2>3. AnotherCommitted
    BY <2>1 DEF AnotherCommitted, At
  <2> QED
    BY <2>2, <2>3
<1> QED
  BY <1>1, <1>2 DEF Next

\* An attempt is repeated only after a commit that it overlapped: for any
\* number of requests and attempts, the loop makes progress for somebody.
THEOREM RetriesMeanProgress == SafetySpec => RetryMeansProgress
<1>1. Init => ProgressInv
  <2> SUFFICES ASSUME Init PROVE ProgressInv
    OBVIOUS
  <2>1. /\ orders = {} /\ commits = 0
        /\ \A r \in Requests : req[r].step = "idle"
        /\ \A l \in Leads : lead[l].at = 0
    BY DEF Init, Slot
  <2> QED
    BY <2>1 DEF ProgressInv, At
<1>2. BookInv /\ ProgressInv /\ [Next]_vars
         => ProgressInv' /\ [AnotherCommitted]_vars
  BY ProgressInductive
<1> QED
  BY <1>1, <1>2, BookInvInit, BookInvInductive, PTL
  DEF SafetySpec, RetryMeansProgress

-----------------------------------------------------------------------------
(* While the version of the namespace can be read and is not lost, a list  *)
(* answered to a read that began after a bump shows every write before it. *)

\* The part of Redis that the argument needs.
VersionIsReliable == "version" \notin Unreliable /\ "memory" \notin Unreliable

ReaderType == reader \in [Readers -> Reader]

HasVersion(r) == reader[r].step \in {"get", "load", "set"}

Loaded(r) == reader[r].step = "set"

\* Under a version nobody can have anything older than what the readers that
\* took this version must see; under the current one, than the floor.
FreshEntries ==
    \A e \in entries :
        /\ e.version <= counter
        /\ e.version = counter => e.list >= floor
        /\ \A r \in Readers :
              HasVersion(r) /\ reader[r].version = e.version
                  => e.list >= reader[r].since

FreshLoads ==
    \A q \in Readers : Loaded(q) =>
        /\ reader[q].version = counter => reader[q].list >= floor
        /\ \A r \in Readers :
              HasVersion(r) /\ reader[r].version = reader[q].version
                  => reader[q].list >= reader[r].since

VersionsExist ==
    /\ \A r \in Readers : HasVersion(r) => reader[r].version <= counter
    /\ \A r \in Readers : reader[r].step = "version" => counter # 0
    /\ \A w \in Writers : writer[w] = "incr" => counter # 0

FloorsAreKept ==
    /\ floor <= writes
    /\ \A r \in Readers : reader[r].since <= floor

FreshInv ==
    /\ FreshEntries
    /\ FreshLoads
    /\ VersionsExist
    /\ FloorsAreKept
    /\ InvalidatedWritesAreSeen

\* A step of one reader, field by field.
LEMMA MoveLemma ==
  ASSUME ReaderType, NEW r \in Readers, NEW s, NEW v, NEW l, Move(r, s, v, l)
  PROVE  /\ reader'[r].step = s
         /\ reader'[r].version = v
         /\ reader'[r].list = l
         /\ reader'[r].since = reader[r].since
         /\ \A q \in Readers : q # r => reader'[q] = reader[q]
<1>1. reader'[r] = ReadAt(s, v, l, reader[r].since)
  BY DEF Move, ReaderType
<1>2. \A q \in Readers : q # r => reader'[q] = reader[q]
  BY DEF Move, ReaderType
<1> QED
  BY <1>1, <1>2 DEF ReadAt

LEMMA MoveType ==
  ASSUME ReaderType, NEW r \in Readers, NEW v \in Version, NEW l \in Nat,
         NEW s \in {"idle", "exists", "version", "get", "load", "set",
                    "answered"},
         Move(r, s, v, l)
  PROVE  ReaderType'
<1>1. reader[r].since \in Nat
  BY DEF ReaderType, Reader
<1>2. ReadAt(s, v, l, reader[r].since) \in Reader
  BY <1>1 DEF ReadAt, Reader
<1> QED
  BY <1>2 DEF Move, ReaderType

LEMMA TypeInit == CacheInit => CacheTypeOK
<1> SUFFICES ASSUME CacheInit PROVE CacheTypeOK
  OBVIOUS
<1>1. ReadAt("idle", 1, 0, 0) \in Reader
  BY DEF ReadAt, Reader, Version
<1>2. reader \in [Readers -> Reader]
  BY <1>1 DEF CacheInit, DEFAULT_CACHE_NAMESPACE_VERSION
<1> QED
  BY <1>2 DEF CacheInit, CacheTypeOK

LEMMA TypeInductive == CacheTypeOK /\ [CacheNext]_cacheVars => CacheTypeOK'
<1> SUFFICES ASSUME CacheTypeOK, [CacheNext]_cacheVars PROVE CacheTypeOK'
  OBVIOUS
<1>0. ReaderType /\ 1 \in Version
  BY DEF CacheTypeOK, ReaderType, Version
<1>1. ASSUME NEW r \in Readers, BeginRead(r) PROVE CacheTypeOK'
  <2>1. ReadAt("exists", 1, 0, floor) \in Reader
    BY <1>0 DEF ReadAt, Reader, CacheTypeOK
  <2>2. reader' \in [Readers -> Reader]
    BY <1>1, <2>1 DEF BeginRead, CacheTypeOK, DEFAULT_CACHE_NAMESPACE_VERSION
  <2> QED
    BY <1>1, <2>2 DEF BeginRead, CacheTypeOK
<1>2. ASSUME NEW r \in Readers, ReadVersion(r) PROVE CacheTypeOK'
  <2>1. counter' \in Nat
    BY <1>2 DEF ReadVersion, EnsureVersion, CacheTypeOK
  <2>2. parseVersion(counter) \in Version
    BY DEF parseVersion, DEFAULT_CACHE_NAMESPACE_VERSION, Version, CacheTypeOK
  <2>3. ReaderType'
    BY <1>0, <1>2, <2>2, MoveType
    DEF ReadVersion, DEFAULT_CACHE_NAMESPACE_VERSION
  <2> QED
    BY <1>2, <2>1, <2>3 DEF ReadVersion, ReaderType, CacheTypeOK
<1>3. ASSUME NEW r \in Readers, GetList(r) PROVE CacheTypeOK'
  <2>1. reader[r].version \in Version
    BY <1>0 DEF ReaderType, Reader
  <2>2. \A e \in entries : e.version \in Version /\ e.list \in Nat
    BY DEF CacheTypeOK, Entry
  <2>3. ReaderType'
    BY <1>0, <1>3, <2>1, <2>2, MoveType DEF GetList
  <2> QED
    BY <1>3, <2>3 DEF GetList, ReaderType, CacheTypeOK
<1>4. ASSUME NEW r \in Readers, LoadList(r) PROVE CacheTypeOK'
  <2>1. reader[r].version \in Version
    BY <1>0 DEF ReaderType, Reader
  <2>2. ReaderType'
    BY <1>0, <1>4, <2>1, MoveType DEF LoadList, CacheTypeOK
  <2> QED
    BY <1>4, <2>2 DEF LoadList, ReaderType, CacheTypeOK
<1>5. ASSUME NEW r \in Readers, StoreList(r) PROVE CacheTypeOK'
  <2>1. reader[r].version \in Version /\ reader[r].list \in Nat
    BY <1>0 DEF ReaderType, Reader
  <2>2. ReaderType'
    BY <1>0, <1>5, <2>1, MoveType DEF StoreList
  <2>3. TTL \in 1 .. TTL
    BY CacheAssumption
  <2>4. entries' \subseteq Entry
    BY <1>5, <2>1, <2>3 DEF StoreList, Store, Entry, CacheTypeOK
  <2>5. \A e, f \in entries' : e.version = f.version => e = f
    BY <1>5 DEF StoreList, Store, CacheTypeOK
  <2> QED
    BY <1>5, <2>2, <2>4, <2>5 DEF StoreList, ReaderType, CacheTypeOK
<1>6. ASSUME NEW w \in Writers, Write(w) \/ BumpVersion(w) \/ AbandonWrite(w)
      PROVE  CacheTypeOK'
  BY <1>6 DEF Write, BumpVersion, EnsureVersion, AbandonWrite, CacheTypeOK
<1>7. CASE Tick
  <2>1. \A e \in entries : e.left > 1 => [e EXCEPT !.left = @ - 1] \in Entry
    BY CacheAssumption DEF CacheTypeOK, Entry
  <2>2. entries' \subseteq Entry
    BY <1>7, <2>1 DEF Tick
  <2>3. ASSUME NEW e \in entries', NEW f \in entries', e.version = f.version
        PROVE  e = f
    <3>1. PICK d \in entries : e = [d EXCEPT !.left = @ - 1]
      BY <1>7 DEF Tick
    <3>2. PICK g \in entries : f = [g EXCEPT !.left = @ - 1]
      BY <1>7 DEF Tick
    <3>3. d.version = e.version /\ g.version = f.version
      BY <3>1, <3>2 DEF CacheTypeOK, Entry
    <3> QED
      BY <2>3, <3>1, <3>2, <3>3 DEF CacheTypeOK
  <2> QED
    BY <1>7, <2>2, <2>3 DEF Tick, CacheTypeOK
<1>8. CASE WriteCosts \/ LoseMemory \/ UNCHANGED cacheVars
  BY <1>8 DEF WriteCosts, LoseMemory, cacheVars, CacheTypeOK
<1> QED
  BY <1>1, <1>2, <1>3, <1>4, <1>5, <1>6, <1>7, <1>8 DEF CacheNext, ContinueRead

\* Every reachable state is well typed, and a version has one list.
THEOREM CacheTypeCorrect == CacheSafety => []CacheTypeOK
<1> QED
  BY TypeInit, TypeInductive, PTL DEF CacheSafety

-----------------------------------------------------------------------------
(* Freshness *)

\* The sets of the invariant as numbers, which arithmetic needs.
LEMMA Numeric ==
  ASSUME CacheTypeOK
  PROVE  /\ writes \in Nat /\ counter \in Nat /\ floor \in Nat
         /\ \A e \in entries : e.version \in Version /\ e.list \in Nat
         /\ \A r \in Readers : /\ reader[r].version \in Version
                               /\ reader[r].list \in Nat
                               /\ reader[r].since \in Nat
BY DEF CacheTypeOK, Entry, Reader

LEMMA BeginReadFresh ==
  ASSUME CacheTypeOK, FreshInv, NEW r \in Readers, BeginRead(r)
  PROVE  FreshInv'
<1>1. /\ reader'[r].step = "exists"
      /\ reader'[r].since = floor
      /\ \A q \in Readers : q # r => reader'[q] = reader[q]
  BY DEF BeginRead, ReadAt, CacheTypeOK
<1>2. UNCHANGED <<writes, counter, entries, writer, floor>>
  BY DEF BeginRead
<1>3. ~HasVersion(r)' /\ ~Loaded(r)'
  BY <1>1 DEF HasVersion, Loaded
<1>4. FreshEntries'
  BY <1>1, <1>2, <1>3 DEF FreshInv, FreshEntries, HasVersion
<1>5. FreshLoads'
  BY <1>1, <1>2, <1>3 DEF FreshInv, FreshLoads, HasVersion, Loaded
<1>6. VersionsExist'
  BY <1>1, <1>2, <1>3 DEF FreshInv, VersionsExist, HasVersion
<1>7. FloorsAreKept'
  BY <1>1, <1>2, Numeric DEF FreshInv, FloorsAreKept
<1>8. InvalidatedWritesAreSeen'
  BY <1>1 DEF FreshInv, InvalidatedWritesAreSeen
<1> QED
  BY <1>4, <1>5, <1>6, <1>7, <1>8 DEF FreshInv

\* The first command of a read: the version exists from now on.
LEMMA EnsureFresh ==
  ASSUME CacheTypeOK, FreshInv, EnsureVersion
  PROVE  /\ counter' # 0
         /\ counter # 0 => counter' = counter
         /\ counter = 0 =>
              /\ entries = {}
              /\ \A r \in Readers : ~HasVersion(r)
<1>1. counter = 0 => entries = {}
  BY Numeric DEF FreshInv, FreshEntries, Version
<1>2. ASSUME counter = 0, NEW r \in Readers PROVE ~HasVersion(r)
  <2>1. ~(reader[r].version <= counter)
    BY <1>2, Numeric DEF Version
  <2> QED
    BY <2>1 DEF FreshInv, VersionsExist
<1> QED
  BY <1>1, <1>2 DEF EnsureVersion

LEMMA ReadVersionFresh ==
  ASSUME CacheTypeOK, FreshInv, VersionIsReliable, NEW r \in Readers, ReadVersion(r)
  PROVE  FreshInv'
<1>0. ReaderType /\ UNCHANGED <<writes, entries, writer, floor>>
  BY DEF ReadVersion, CacheTypeOK, ReaderType
<1>1. CASE /\ reader[r].step = "exists"
           /\ EnsureVersion
           /\ Move(r, "version", DEFAULT_CACHE_NAMESPACE_VERSION, 0)
  <2>1. /\ reader'[r].step = "version"
        /\ reader'[r].since = reader[r].since
        /\ \A q \in Readers : q # r => reader'[q] = reader[q]
    BY <1>0, <1>1, MoveLemma
  <2>2. ~HasVersion(r)' /\ ~Loaded(r)'
    BY <2>1 DEF HasVersion, Loaded
  <2>3. FreshEntries'
    BY <1>0, <1>1, <2>1, <2>2, EnsureFresh
    DEF FreshInv, FreshEntries, HasVersion
  <2>4. FreshLoads'
    BY <1>0, <1>1, <2>1, <2>2, EnsureFresh
    DEF FreshInv, FreshLoads, HasVersion, Loaded
  <2>5. VersionsExist'
    BY <1>0, <1>1, <2>1, <2>2, EnsureFresh
    DEF FreshInv, VersionsExist, HasVersion
  <2>6. FloorsAreKept'
    BY <1>0, <2>1 DEF FreshInv, FloorsAreKept
  <2>7. InvalidatedWritesAreSeen'
    BY <2>1 DEF FreshInv, InvalidatedWritesAreSeen
  <2> QED
    BY <2>3, <2>4, <2>5, <2>6, <2>7 DEF FreshInv
<1>2. CASE /\ reader[r].step = "version"
           /\ Move(r, "get", parseVersion(counter), 0)
           /\ UNCHANGED counter
  <2>1. counter # 0
    BY <1>2 DEF FreshInv, VersionsExist
  <2>2. /\ reader'[r].step = "get"
        /\ reader'[r].version = counter
        /\ reader'[r].since = reader[r].since
        /\ \A q \in Readers : q # r => reader'[q] = reader[q]
    BY <1>0, <1>2, <2>1, MoveLemma DEF parseVersion
  <2>3. HasVersion(r)' /\ ~Loaded(r)'
    BY <2>2 DEF HasVersion, Loaded
  <2>4. reader[r].since <= floor
    BY DEF FreshInv, FloorsAreKept
  <2>5. FreshEntries'
    BY <1>0, <1>2, <2>2, <2>4, Numeric DEF FreshInv, FreshEntries, HasVersion
  <2>6. FreshLoads'
    BY <1>0, <1>2, <2>2, <2>3, <2>4, Numeric
    DEF FreshInv, FreshLoads, HasVersion, Loaded
  <2>7. VersionsExist'
    BY <1>0, <1>2, <2>2, Numeric DEF FreshInv, VersionsExist, HasVersion
  <2>8. FloorsAreKept'
    BY <1>0, <2>2 DEF FreshInv, FloorsAreKept
  <2>9. InvalidatedWritesAreSeen'
    BY <2>2 DEF FreshInv, InvalidatedWritesAreSeen
  <2> QED
    BY <2>5, <2>6, <2>7, <2>8, <2>9 DEF FreshInv
<1> QED
  BY <1>1, <1>2 DEF ReadVersion, VersionIsReliable

LEMMA GetListFresh ==
  ASSUME CacheTypeOK, FreshInv, NEW r \in Readers, GetList(r)
  PROVE  FreshInv'
<1>0. /\ ReaderType
      /\ UNCHANGED <<writes, counter, entries, writer, floor>>
      /\ HasVersion(r)
  BY DEF GetList, CacheTypeOK, ReaderType, HasVersion
<1>1. PICK s, l : /\ Move(r, s, reader[r].version, l)
                  /\ \/ s = "load"
                     \/ s = "answered" /\ l >= reader[r].since
  BY <1>0 DEF GetList, FreshInv, FreshEntries
<1>2. /\ reader'[r].step = s
      /\ reader'[r].version = reader[r].version
      /\ reader'[r].list = l
      /\ reader'[r].since = reader[r].since
      /\ \A q \in Readers : q # r => reader'[q] = reader[q]
  BY <1>0, <1>1, MoveLemma
<1>3. \A q \in Readers : HasVersion(q)' =>
         HasVersion(q) /\ reader'[q].version = reader[q].version
                       /\ reader'[q].since = reader[q].since
  BY <1>0, <1>2 DEF HasVersion
<1>4. ~Loaded(r)'
  BY <1>1, <1>2 DEF Loaded
<1>5. FreshEntries'
  BY <1>0, <1>3 DEF FreshInv, FreshEntries
<1>6. FreshLoads'
  <2>1. \A q \in Readers : Loaded(q)' => Loaded(q) /\ reader'[q] = reader[q]
    BY <1>2, <1>4 DEF Loaded
  <2> QED
    BY <1>0, <1>3, <2>1 DEF FreshInv, FreshLoads
<1>7. VersionsExist'
  <2>1. \A q \in Readers : reader'[q].step = "version"
                              => reader[q].step = "version"
    BY <1>1, <1>2
  <2> QED
    BY <1>0, <1>3, <2>1 DEF FreshInv, VersionsExist
<1>8. FloorsAreKept'
  BY <1>0, <1>2 DEF FreshInv, FloorsAreKept
<1>9. InvalidatedWritesAreSeen'
  BY <1>1, <1>2 DEF FreshInv, InvalidatedWritesAreSeen
<1> QED
  BY <1>5, <1>6, <1>7, <1>8, <1>9 DEF FreshInv

LEMMA LoadListFresh ==
  ASSUME CacheTypeOK, FreshInv, NEW r \in Readers, LoadList(r)
  PROVE  FreshInv'
<1>0. /\ ReaderType
      /\ UNCHANGED <<writes, counter, entries, writer, floor>>
      /\ HasVersion(r)
  BY DEF LoadList, CacheTypeOK, ReaderType, HasVersion
<1>2. /\ reader'[r].step = "set"
      /\ reader'[r].version = reader[r].version
      /\ reader'[r].list = writes
      /\ reader'[r].since = reader[r].since
      /\ \A q \in Readers : q # r => reader'[q] = reader[q]
  BY <1>0, MoveLemma DEF LoadList
<1>3. \A q \in Readers : /\ HasVersion(q)' => HasVersion(q)
                         /\ reader'[q].version = reader[q].version
                         /\ reader'[q].since = reader[q].since
  BY <1>0, <1>2 DEF HasVersion
<1>4. floor <= writes /\ \A q \in Readers : reader[q].since <= writes
  BY Numeric DEF FreshInv, FloorsAreKept
<1>5. FreshEntries'
  BY <1>0, <1>3 DEF FreshInv, FreshEntries
<1>6. FreshLoads'
  <2>1. \A q \in Readers : q # r => (Loaded(q)' => Loaded(q))
    BY <1>2 DEF Loaded
  <2> QED
    BY <1>0, <1>2, <1>3, <1>4, <2>1, Numeric DEF FreshInv, FreshLoads
<1>7. VersionsExist'
  <2>1. \A q \in Readers : reader'[q].step = "version"
                              => reader[q].step = "version"
    BY <1>2
  <2> QED
    BY <1>0, <1>3, <2>1 DEF FreshInv, VersionsExist
<1>8. FloorsAreKept'
  BY <1>0, <1>2 DEF FreshInv, FloorsAreKept
<1>9. InvalidatedWritesAreSeen'
  BY <1>2 DEF FreshInv, InvalidatedWritesAreSeen
<1> QED
  BY <1>5, <1>6, <1>7, <1>8, <1>9 DEF FreshInv

LEMMA StoreListFresh ==
  ASSUME CacheTypeOK, FreshInv, NEW r \in Readers, StoreList(r)
  PROVE  FreshInv'
<1>0. /\ ReaderType
      /\ UNCHANGED <<writes, counter, writer, floor>>
      /\ HasVersion(r) /\ Loaded(r)
  BY DEF StoreList, CacheTypeOK, ReaderType, HasVersion, Loaded
<1>1. \A e \in entries' : \/ e \in entries
                          \/ /\ e.version = reader[r].version
                             /\ e.list = reader[r].list
  BY DEF StoreList, Store
<1>2. /\ reader'[r].step = "answered"
      /\ reader'[r].list = reader[r].list
      /\ reader'[r].since = reader[r].since
      /\ \A q \in Readers : q # r => reader'[q] = reader[q]
  BY <1>0, MoveLemma DEF StoreList
<1>3. \A q \in Readers : /\ HasVersion(q)' => HasVersion(q)
                         /\ q # r => reader'[q] = reader[q]
                         /\ reader'[q].since = reader[q].since
  BY <1>0, <1>2 DEF HasVersion
<1>4. ~HasVersion(r)' /\ ~Loaded(r)'
  BY <1>2 DEF HasVersion, Loaded
<1>5. FreshEntries'
  <2>1. ASSUME NEW e \in entries'
        PROVE  /\ e.version <= counter
               /\ e.version = counter => e.list >= floor
               /\ \A q \in Readers :
                     HasVersion(q) /\ reader[q].version = e.version
                         => e.list >= reader[q].since
    <3>1. CASE e \in entries
      BY <3>1 DEF FreshInv, FreshEntries
    <3>2. CASE e.version = reader[r].version /\ e.list = reader[r].list
      BY <1>0, <3>2 DEF FreshInv, FreshLoads, VersionsExist
    <3> QED
      BY <1>1, <3>1, <3>2
  <2> QED
    BY <1>0, <1>3, <1>4, <2>1 DEF FreshEntries
<1>6. FreshLoads'
  <2>1. \A q \in Readers : Loaded(q)' => Loaded(q) /\ q # r
    BY <1>2, <1>4 DEF Loaded
  <2> QED
    BY <1>0, <1>3, <1>4, <2>1 DEF FreshInv, FreshLoads
<1>7. VersionsExist'
  <2>1. \A q \in Readers : reader'[q].step = "version"
                              => reader[q].step = "version"
    BY <1>2
  <2> QED
    BY <1>0, <1>3, <1>4, <2>1 DEF FreshInv, VersionsExist
<1>8. FloorsAreKept'
  BY <1>0, <1>2 DEF FreshInv, FloorsAreKept
<1>9. InvalidatedWritesAreSeen'
  <2>1. reader[r].list >= reader[r].since
    BY <1>0 DEF FreshInv, FreshLoads
  <2> QED
    BY <1>2, <2>1 DEF FreshInv, InvalidatedWritesAreSeen
<1> QED
  BY <1>5, <1>6, <1>7, <1>8, <1>9 DEF FreshInv

\* A bump retires every list and every reader of the old version.
LEMMA BumpVersionFresh ==
  ASSUME CacheTypeOK, FreshInv, NEW w \in Writers, BumpVersion(w)
  PROVE  FreshInv'
<1>0. UNCHANGED <<writes, entries, reader>>
  BY DEF BumpVersion
<1>1. CASE /\ EnsureVersion
           /\ writer' = [writer EXCEPT ![w] = "incr"]
           /\ UNCHANGED floor
  <2>1. FreshEntries'
    BY <1>0, <1>1, EnsureFresh DEF FreshInv, FreshEntries, HasVersion
  <2>2. FreshLoads'
    BY <1>0, <1>1, EnsureFresh DEF FreshInv, FreshLoads, HasVersion, Loaded
  <2>3. VersionsExist'
    BY <1>0, <1>1, EnsureFresh DEF FreshInv, VersionsExist, HasVersion
  <2>4. FloorsAreKept' /\ InvalidatedWritesAreSeen'
    BY <1>0, <1>1 DEF FreshInv, FloorsAreKept, InvalidatedWritesAreSeen
  <2> QED
    BY <2>1, <2>2, <2>3, <2>4 DEF FreshInv
<1>2. CASE /\ counter' = counter + 1
           /\ floor' = writes
           /\ writer' = [writer EXCEPT ![w] = "idle"]
  <2>1. FreshEntries'
    BY <1>0, <1>2, Numeric DEF FreshInv, FreshEntries, HasVersion, Version
  <2>2. FreshLoads'
    <3>1. \A r \in Readers : Loaded(r) => reader[r].version # counter'
      BY <1>2, Numeric
      DEF FreshInv, VersionsExist, HasVersion, Loaded, Version
    <3> QED
      BY <1>0, <3>1 DEF FreshInv, FreshLoads, HasVersion, Loaded
  <2>3. VersionsExist'
    BY <1>0, <1>2, Numeric DEF FreshInv, VersionsExist, HasVersion, Version
  <2>4. FloorsAreKept' /\ InvalidatedWritesAreSeen'
    BY <1>0, <1>2, Numeric DEF FreshInv, FloorsAreKept, InvalidatedWritesAreSeen
  <2> QED
    BY <2>1, <2>2, <2>3, <2>4 DEF FreshInv
<1>3. CASE /\ writer' = [writer EXCEPT ![w] = "idle"]
           /\ UNCHANGED <<counter, floor>>
  BY <1>0, <1>3
  DEF FreshInv, FreshEntries, FreshLoads, VersionsExist, FloorsAreKept,
      InvalidatedWritesAreSeen, HasVersion, Loaded
<1> QED
  BY <1>1, <1>2, <1>3 DEF BumpVersion

\* The other steps change no version and no list.
LEMMA OtherStepsFresh ==
  ASSUME CacheTypeOK, FreshInv, VersionIsReliable,
         \/ \E w \in Writers : Write(w) \/ AbandonWrite(w)
         \/ WriteCosts \/ Tick \/ LoseMemory \/ UNCHANGED cacheVars
  PROVE  FreshInv'
<1>1. UNCHANGED <<counter, reader, floor>> /\ writes' \in {writes, writes + 1}
  BY DEF Write, AbandonWrite, WriteCosts, Tick, LoseMemory, VersionIsReliable,
         cacheVars
<1>2. \A e \in entries' : \E f \in entries : e.version = f.version
                                            /\ e.list = f.list
  BY DEF Write, AbandonWrite, WriteCosts, Tick, LoseMemory, VersionIsReliable,
         cacheVars, CacheTypeOK, Entry
<1>3. \A w \in Writers : writer'[w] = "incr" => writer[w] = "incr"
  BY DEF Write, AbandonWrite, WriteCosts, Tick, LoseMemory, VersionIsReliable,
         cacheVars, CacheTypeOK
<1>4. FreshEntries'
  BY <1>1, <1>2 DEF FreshInv, FreshEntries, HasVersion
<1>5. FreshLoads' /\ VersionsExist' /\ InvalidatedWritesAreSeen'
  BY <1>1, <1>3 DEF FreshInv, FreshLoads, VersionsExist,
                    InvalidatedWritesAreSeen, HasVersion, Loaded
<1>6. FloorsAreKept'
  BY <1>1, Numeric DEF FreshInv, FloorsAreKept
<1> QED
  BY <1>4, <1>5, <1>6 DEF FreshInv

\* Any number of readers and writers, and any failure of a read of a list, a
\* store, a bump or a writer: an answered list shows the invalidated writes.
THEOREM ListsAreFresh ==
  ASSUME VersionIsReliable
  PROVE  CacheSafety => []InvalidatedWritesAreSeen
<1>1. CacheInit => FreshInv
  <2> SUFFICES ASSUME CacheInit PROVE FreshInv
    OBVIOUS
  <2>1. \A r \in Readers : reader[r].step = "idle" /\ reader[r].since = 0
    BY DEF CacheInit, ReadAt
  <2>2. FreshEntries /\ FreshLoads /\ InvalidatedWritesAreSeen
    BY <2>1 DEF CacheInit, FreshEntries, FreshLoads, InvalidatedWritesAreSeen, Loaded
  <2>3. VersionsExist /\ FloorsAreKept
    BY <2>1 DEF CacheInit, VersionsExist, FloorsAreKept, HasVersion
  <2> QED
    BY <2>2, <2>3 DEF FreshInv
<1>2. CacheTypeOK /\ FreshInv /\ [CacheNext]_cacheVars => FreshInv'
  <2> SUFFICES ASSUME CacheTypeOK, FreshInv, [CacheNext]_cacheVars PROVE FreshInv'
    OBVIOUS
  <2>1. ASSUME NEW r \in Readers, BeginRead(r) \/ ContinueRead(r)
        PROVE  FreshInv'
    BY <2>1, VersionIsReliable, BeginReadFresh, ReadVersionFresh, GetListFresh,
       LoadListFresh, StoreListFresh DEF ContinueRead
  <2>2. ASSUME NEW w \in Writers, BumpVersion(w) PROVE FreshInv'
    BY <2>2, BumpVersionFresh
  <2>3. CASE \/ \E w \in Writers : Write(w) \/ AbandonWrite(w)
             \/ WriteCosts \/ Tick \/ LoseMemory \/ UNCHANGED cacheVars
    BY <2>3, VersionIsReliable, OtherStepsFresh
  <2> QED
    BY <2>1, <2>2, <2>3 DEF CacheNext
<1>3. FreshInv => InvalidatedWritesAreSeen
  BY DEF FreshInv
<1> QED
  BY <1>1, <1>2, <1>3, CacheTypeCorrect, PTL DEF CacheSafety
=============================================================================
