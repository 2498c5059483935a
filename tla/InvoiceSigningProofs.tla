------------------------ MODULE InvoiceSigningProofs ------------------------
(* Theorems about InvoiceSigning, for every value of its constants. *)
EXTENDS InvoiceSigning, TLAPS

-----------------------------------------------------------------------------
(* What the helpers do to the slot of a request and to the trail *)

ReqType == req \in [Requests -> Request]

LEMMA GotoLemma ==
  ASSUME ReqType, NEW r \in Requests, NEW s \in Step, Goto(r, s)
  PROVE  /\ ReqType'
         /\ req'[r] = Carry(s, req[r].content, req[r].token, req[r].signature)
         /\ \A q \in Requests : q # r => req'[q] = req[q]
BY DEF ReqType, Goto, Request, Carry

LEMMA FinishLemma ==
  ASSUME ReqType, NEW r \in Requests, Finish(r)
  PROVE  /\ ReqType'
         /\ req'[r] = Idle
         /\ \A q \in Requests : q # r => req'[q] = req[q]
BY DEF ReqType, Finish, Request, Idle, Carry, Step

LEMMA SubmitLemma ==
  ASSUME ReqType, versions \in Nat, NEW r \in Requests, NEW s \in Step,
         Submit(r, s)
  PROVE  /\ ReqType'
         /\ req'[r] = Carry(s, versions + 1, 0, 0)
         /\ \A q \in Requests : q # r => req'[q] = req[q]
         /\ versions' = versions + 1
BY DEF ReqType, Submit, Request, Idle, Carry, Step

LEMMA CarryLemma ==
  ASSUME ReqType, NEW r \in Requests, NEW s \in Step,
         NEW c \in Nat, NEW t \in Nat, NEW g \in Nat,
         req' = [req EXCEPT ![r] = Carry(s, c, t, g)]
  PROVE  /\ ReqType'
         /\ req'[r] = Carry(s, c, t, g)
         /\ \A q \in Requests : q # r => req'[q] = req[q]
BY DEF ReqType, Request, Carry

LEMMA AuditLemma ==
  ASSUME audit \subseteq AuditEvent, now \in Nat,
         NEW type \in AuditType, NEW ref \in Nat, createAuditEvent(type, ref)
  PROVE  audit' \subseteq AuditEvent
BY DEF createAuditEvent, AuditEvent

-----------------------------------------------------------------------------
(* Type correctness *)

\* Every reachable state is well typed: rows, events and slots of requests.
THEOREM TypeCorrect == Spec => []TypeOK
<1>1. Init => TypeOK
  BY DEF Init, TypeOK, Unsigned, Invoice, NotCreated, Idle, Carry, Request,
     Step
<1>2. TypeOK /\ [Next]_vars => TypeOK'
  <2> SUFFICES ASSUME TypeOK, [Next]_vars PROVE TypeOK'
    OBVIOUS
  <2> USE DEF TypeOK, ReqType
  <2>1. ASSUME NEW r \in Requests, Staff(r) PROVE TypeOK'
    <3>1. CASE BeginCreate(r)
      BY <3>1, SubmitLemma DEF BeginCreate, Step
    <3>2. CASE CreateInvoice(r)
      <4>1. ReqType'
        BY <3>2, GotoLemma, FinishLemma DEF CreateInvoice, Step
      <4>2. invoice' \in Invoice
        BY <3>2 DEF CreateInvoice, Unsigned, Invoice, Created, NotCreated,
           Request
      <4> QED
        BY <3>2, <4>1, <4>2 DEF CreateInvoice
    <3>3. CASE CreateAudit(r)
      <4>1. ReqType'
        BY <3>3, GotoLemma, FinishLemma DEF CreateAudit, Step
      <4>2. audit' \subseteq AuditEvent
        BY <3>3, AuditLemma DEF CreateAudit, AuditType, Request
      <4> QED
        BY <3>3, <4>1, <4>2 DEF CreateAudit
    <3>4. CASE BeginEdit(r)
      BY <3>4, SubmitLemma DEF BeginEdit, Step
    <3>5. CASE EditInvoice(r)
      <4>1. ReqType'
        BY <3>5, GotoLemma, FinishLemma DEF EditInvoice, Step
      <4>2. invoice' \in Invoice
        BY <3>5 DEF EditInvoice, Unsigned, Invoice, Created, NotCreated,
           Request
      <4> QED
        BY <3>5, <4>1, <4>2 DEF EditInvoice
    <3>6. CASE EditAudit(r)
      <4>1. ReqType'
        BY <3>6, GotoLemma, FinishLemma DEF EditAudit, Step
      <4>2. audit' \subseteq AuditEvent
        BY <3>6, AuditLemma DEF EditAudit, AuditType, Request
      <4> QED
        BY <3>6, <4>1, <4>2 DEF EditAudit
    <3>7. CASE BeginClone(r)
      BY <3>7, SubmitLemma DEF BeginClone, Step
    <3>8. CASE CloneInvoice(r)
      <4>1. ReqType'
        BY <3>8, GotoLemma, FinishLemma DEF CloneInvoice, Step
      <4>2. invoice' \in Invoice
        BY <3>8 DEF CloneInvoice, Unsigned, Invoice, Created, NotCreated,
           Request
      <4> QED
        BY <3>8, <4>1, <4>2 DEF CloneInvoice
    <3>9. CASE CloneAudit(r)
      <4>1. ReqType'
        BY <3>9, GotoLemma, FinishLemma DEF CloneAudit, Step
      <4>2. audit' \subseteq AuditEvent
        BY <3>9, AuditLemma DEF CloneAudit, AuditType, Request
      <4> QED
        BY <3>9, <4>1, <4>2 DEF CloneAudit
    <3>10. CASE BeginResend(r)
      BY <3>10, GotoLemma, FinishLemma DEF BeginResend, Step
    <3>11. CASE IssueCheck(r)
      BY <3>11, GotoLemma, FinishLemma DEF IssueCheck, Step
    <3>12. CASE IssueToken(r)
      <4>1. ReqType'
        <5>1. /\ tokens + 1 \in Nat
              /\ (IF "email" \in Channels THEN "sendEmail" ELSE "sendSms") \in Step
          BY DEF Step
        <5> QED
          BY <3>12, <5>1, CarryLemma DEF IssueToken
      <4>2. invoice' \in Invoice
        <5>1. tokens + 1 \in Nat /\ now + TokenTTL \in Nat
          BY BoundsAssumption
        <5> QED
          BY <3>12, <5>1 DEF IssueToken, Invoice, Requested
      <4> QED
        BY <3>12, <4>1, <4>2 DEF IssueToken
    <3>13. CASE SendEmail(r)
      <4>1. ReqType'
        BY <3>13, GotoLemma DEF SendEmail, Step
      <4>2. links' \subseteq Nat
        BY <3>13 DEF SendEmail, Request
      <4> QED
        BY <3>13, <4>1, <4>2 DEF SendEmail
    <3>14. CASE SendSms(r)
      <4>1. ReqType'
        BY <3>14, GotoLemma DEF SendSms, Step
      <4>2. links' \subseteq Nat
        BY <3>14 DEF SendSms, Request
      <4> QED
        BY <3>14, <4>1, <4>2 DEF SendSms
    <3>15. CASE SentAudit(r)
      <4>1. ReqType'
        BY <3>15, GotoLemma, FinishLemma DEF SentAudit, Step
      <4>2. audit' \subseteq AuditEvent
        BY <3>15, AuditLemma DEF SentAudit, AuditType, Request
      <4> QED
        BY <3>15, <4>1, <4>2 DEF SentAudit
    <3> QED
      BY <3>1, <3>2, <3>3, <3>4, <3>5, <3>6, <3>7, <3>8, <3>9, <3>10, <3>11,
         <3>12, <3>13, <3>14, <3>15,
         <2>1 DEF Staff
  <2>2. ASSUME NEW r \in Requests, Customer(r) PROVE TypeOK'
    <3>1. CASE BeginView(r)
      BY <3>1, GotoLemma, FinishLemma DEF BeginView, Step
    <3>2. CASE ViewAudit(r)
      <4>1. ReqType'
        BY <3>2, GotoLemma, FinishLemma DEF ViewAudit, Step
      <4>2. audit' \subseteq AuditEvent
        BY <3>2, AuditLemma DEF ViewAudit, AuditType, Request
      <4> QED
        BY <3>2, <4>1, <4>2 DEF ViewAudit
    <3>3. CASE BeginAcceptTerms(r)
      BY <3>3, CarryLemma DEF BeginAcceptTerms, Step, Invoice
    <3>4. CASE AcceptCheck(r)
      BY <3>4, GotoLemma, FinishLemma DEF AcceptCheck, Step
    <3>5. CASE AcceptAudit(r)
      <4>1. ReqType'
        BY <3>5, GotoLemma, FinishLemma DEF AcceptAudit, Step
      <4>2. audit' \subseteq AuditEvent
        BY <3>5, AuditLemma DEF AcceptAudit, AuditType, Request
      <4> QED
        BY <3>5, <4>1, <4>2 DEF AcceptAudit
    <3>6. CASE BeginSign(r)
      BY <3>6, GotoLemma, FinishLemma DEF BeginSign, Step
    <3>7. CASE SignCheck(r)
      BY <3>7, GotoLemma, FinishLemma DEF SignCheck, Step
    <3>8. CASE SignInvoice(r)
      <4>1. ReqType'
        <5>1. signs + 1 \in Nat /\ "attachedAudit" \in Step
          BY DEF Step
        <5> QED
          BY <3>8, <5>1, CarryLemma DEF SignInvoice
      <4>2. invoice' \in Invoice
        <5>1. signs + 1 \in Nat
          OBVIOUS
        <5> QED
          BY <3>8, <5>1 DEF SignInvoice, Invoice, Signed
      <4> QED
        BY <3>8, <4>1, <4>2 DEF SignInvoice
    <3>9. CASE AttachedAudit(r)
      <4>1. ReqType'
        BY <3>9, GotoLemma, FinishLemma DEF AttachedAudit, SignAudit, Step
      <4>2. audit' \subseteq AuditEvent
        BY <3>9, AuditLemma DEF AttachedAudit, SignAudit, AuditType, Request
      <4> QED
        BY <3>9, <4>1, <4>2 DEF AttachedAudit, SignAudit
    <3>10. CASE SignedAudit(r)
      <4>1. ReqType'
        BY <3>10, GotoLemma, FinishLemma DEF SignedAudit, SignAudit, Step
      <4>2. audit' \subseteq AuditEvent
        BY <3>10, AuditLemma DEF SignedAudit, SignAudit, AuditType, Request
      <4> QED
        BY <3>10, <4>1, <4>2 DEF SignedAudit, SignAudit
    <3>11. CASE CompletedAudit(r)
      <4>1. ReqType'
        BY <3>11, GotoLemma, FinishLemma DEF CompletedAudit, SignAudit, Step
      <4>2. audit' \subseteq AuditEvent
        BY <3>11, AuditLemma DEF CompletedAudit, SignAudit, AuditType, Request
      <4> QED
        BY <3>11, <4>1, <4>2 DEF CompletedAudit, SignAudit
    <3>12. CASE Confirm(r)
      BY <3>12, GotoLemma, FinishLemma DEF Confirm, Step
    <3> QED
      BY <3>1, <3>2, <3>3, <3>4, <3>5, <3>6, <3>7, <3>8, <3>9, <3>10, <3>11,
         <3>12,
         <2>2 DEF Customer
  <2>3. ASSUME NEW r \in Requests, RequestFails(r) PROVE TypeOK'
    BY <2>3, FinishLemma DEF RequestFails
  <2>4. CASE UpdateOrderStatus
    BY <2>4 DEF UpdateOrderStatus
  <2>5. CASE Tick
    BY <2>5 DEF Tick
  <2>6. CASE UNCHANGED vars
    BY <2>6 DEF vars
  <2>. QED
    BY <2>1, <2>2, <2>3, <2>4, <2>5, <2>6 DEF Next
<1>. QED
  BY <1>1, <1>2, PTL DEF Spec

-----------------------------------------------------------------------------
(* A signed invoice is backed by a signature and by accepted terms *)

\* The row exists, with a text, for whoever works on it, and a request about
\* to sign has seen an acceptance, which no later step removes.
Working(r) ==
    /\ req[r].step \notin {"idle", "create"} => invoice.status # NotCreated
    /\ req[r].step \in {"create", "edit", "clone"} => req[r].content # 0
    /\ req[r].step = "sign" => \E a \in audit : a.type = "TERMS_ACCEPTED"

RowInv ==
    /\ invoice.status = NotCreated => invoice.token = 0
    /\ invoice.status # NotCreated => invoice.content # 0
    /\ invoice.token <= tokens

BackedInv ==
    /\ TypeOK
    /\ RowInv
    /\ \A r \in Requests : Working(r)
    /\ \A a \in audit : a.at <= now
    /\ SignedIsBacked

LEMMA BackedInvInductive == Spec => []BackedInv
<1>1. Init => BackedInv
  BY DEF Init, BackedInv, TypeOK, RowInv, Working, SignedIsBacked, Unsigned,
         Idle, Carry, NotCreated, Signed, Invoice, Request, Step
<1>2. TypeOK' /\ BackedInv /\ [Next]_vars => BackedInv'
  <2> SUFFICES ASSUME TypeOK', BackedInv, [Next]_vars PROVE BackedInv'
    OBVIOUS
  <2> USE DEF BackedInv, TypeOK, ReqType, RowInv, Working, SignedIsBacked,
              At, Carry, Idle, Step, Invoice, AuditEvent, Unsigned,
              NotCreated, Created, Requested, Signed
  <2>1. ASSUME NEW r \in Requests, Staff(r) PROVE BackedInv'
    <3>1. CASE BeginCreate(r)
      BY <3>1, SubmitLemma DEF BeginCreate
    <3>2. CASE CreateInvoice(r)
      BY <3>2, GotoLemma, FinishLemma DEF CreateInvoice
    <3>3. CASE CreateAudit(r)
      BY <3>3, GotoLemma, FinishLemma DEF CreateAudit, createAuditEvent
    <3>4. CASE BeginEdit(r)
      BY <3>4, SubmitLemma DEF BeginEdit
    <3>5. CASE EditInvoice(r)
      BY <3>5, GotoLemma DEF EditInvoice
    <3>6. CASE EditAudit(r)
      BY <3>6, FinishLemma DEF EditAudit, createAuditEvent
    <3>7. CASE BeginClone(r)
      BY <3>7, SubmitLemma DEF BeginClone
    <3>8. CASE CloneInvoice(r)
      BY <3>8, GotoLemma DEF CloneInvoice
    <3>9. CASE CloneAudit(r)
      BY <3>9, GotoLemma DEF CloneAudit, createAuditEvent
    <3>10. CASE BeginResend(r)
      BY <3>10, GotoLemma DEF BeginResend
    <3>11. CASE IssueCheck(r)
      BY <3>11, GotoLemma, FinishLemma DEF IssueCheck
    <3>12. CASE IssueToken(r)
      <4>1. PICK s \in {"sendEmail", "sendSms"} :
              req' = [req EXCEPT ![r] = Carry(s, 0, tokens + 1, 0)]
        BY <3>12 DEF IssueToken
      <4>2. /\ req'[r].step \in {"sendEmail", "sendSms"}
            /\ \A q \in Requests : q # r => req'[q] = req[q]
        BY <4>1
      <4>3. tokens + 1 \in Nat
        OBVIOUS
      <4> QED
        BY <3>12, <4>2, <4>3 DEF IssueToken
    <3>13. CASE SendEmail(r)
      BY <3>13, GotoLemma DEF SendEmail
    <3>14. CASE SendSms(r)
      BY <3>14, GotoLemma DEF SendSms
    <3>15. CASE SentAudit(r)
      BY <3>15, FinishLemma DEF SentAudit, createAuditEvent
    <3> QED
      BY <3>1, <3>2, <3>3, <3>4, <3>5, <3>6, <3>7, <3>8, <3>9, <3>10, <3>11,
         <3>12, <3>13, <3>14, <3>15,
         <2>1 DEF Staff
  <2>2. ASSUME NEW r \in Requests, Customer(r) PROVE BackedInv'
    <3>1. CASE BeginView(r)
      BY <3>1, GotoLemma DEF BeginView, findInvoiceForToken
    <3>2. CASE ViewAudit(r)
      BY <3>2, FinishLemma DEF ViewAudit, createAuditEvent
    <3>3. CASE BeginAcceptTerms(r)
      <4>1. /\ req'[r].step = "checkTerms"
            /\ \A q \in Requests : q # r => req'[q] = req[q]
        BY <3>3 DEF BeginAcceptTerms
      <4> QED
        BY <3>3, <4>1 DEF BeginAcceptTerms, findInvoiceForToken
    <3>4. CASE AcceptCheck(r)
      BY <3>4, GotoLemma, FinishLemma DEF AcceptCheck
    <3>5. CASE AcceptAudit(r)
      BY <3>5, FinishLemma DEF AcceptAudit, createAuditEvent
    <3>6. CASE BeginSign(r)
      BY <3>6, GotoLemma DEF BeginSign, findInvoiceForToken
    <3>7. CASE SignCheck(r)
      BY <3>7, GotoLemma, FinishLemma DEF SignCheck,
         hasAcceptedTermsForCurrentInvoice
    <3>8. CASE SignInvoice(r)
      <4>1. /\ req'[r].step = "attachedAudit"
            /\ \A q \in Requests : q # r => req'[q] = req[q]
        BY <3>8 DEF SignInvoice
      <4>2. signs + 1 \in 1 .. signs + 1
        OBVIOUS
      <4>3. \E a \in audit : a.type = "TERMS_ACCEPTED" /\ a.at <= now
        BY <3>8 DEF SignInvoice
      <4> QED
        BY <3>8, <4>1, <4>2, <4>3 DEF SignInvoice
    <3>9. CASE AttachedAudit(r)
      BY <3>9, GotoLemma DEF AttachedAudit, SignAudit, createAuditEvent
    <3>10. CASE SignedAudit(r)
      BY <3>10, GotoLemma DEF SignedAudit, SignAudit, createAuditEvent
    <3>11. CASE CompletedAudit(r)
      BY <3>11, GotoLemma DEF CompletedAudit, SignAudit, createAuditEvent
    <3>12. CASE Confirm(r)
      BY <3>12, FinishLemma DEF Confirm
    <3> QED
      BY <3>1, <3>2, <3>3, <3>4, <3>5, <3>6, <3>7, <3>8, <3>9, <3>10, <3>11,
         <3>12,
         <2>2 DEF Customer
  <2>3. ASSUME NEW r \in Requests, RequestFails(r) PROVE BackedInv'
    BY <2>3, FinishLemma DEF RequestFails
  <2>4. CASE UpdateOrderStatus
    BY <2>4 DEF UpdateOrderStatus
  <2>5. CASE Tick
    BY <2>5 DEF Tick
  <2>6. CASE UNCHANGED vars
    BY <2>6 DEF vars
  <2> QED
    BY <2>1, <2>2, <2>3, <2>4, <2>5, <2>6 DEF Next
<1>. QED
  BY <1>1, <1>2, TypeCorrect, PTL DEF Spec

\* A signed invoice carries a committed signature given after the terms were
\* accepted, however requests overlap or fail.
THEOREM SignedBacked == Spec => []SignedIsBacked
<1>1. BackedInv => SignedIsBacked
  BY DEF BackedInv
<1>. QED
  BY <1>1, BackedInvInductive, PTL

-----------------------------------------------------------------------------
(* The audit trail is written in the order of the signature *)

Recorded(type, g) == \E a \in audit : a.type = type /\ a.ref = g

\* A request in the tail of signWithToken holds a committed signature and has
\* left the events of the stages it passed.
Signing(r) ==
    /\ req[r].step \in {"attachedAudit", "signedAudit", "completedAudit"}
         => req[r].signature \in 1 .. signs
    /\ req[r].step = "signedAudit" => Recorded("ATTACHED", req[r].signature)
    /\ req[r].step = "completedAudit" => Recorded("SIGNED", req[r].signature)

TrailInv ==
    /\ TypeOK
    /\ \A r \in Requests : Signing(r)
    /\ \A a \in audit : a.at <= now
    /\ AuditTrailOrder

LEMMA TrailInvInductive == Spec => []TrailInv
<1>1. Init => TrailInv
  BY DEF Init, TrailInv, TypeOK, Signing, AuditTrailOrder, Unsigned,
         Idle, Carry, NotCreated, Invoice, Request, Step
<1>2. TypeOK' /\ TrailInv /\ [Next]_vars => TrailInv'
  <2> SUFFICES ASSUME TypeOK', TrailInv, [Next]_vars PROVE TrailInv'
    OBVIOUS
  <2> USE DEF TrailInv, TypeOK, ReqType, Signing, Recorded, AuditTrailOrder,
              Precedes, At, Carry, Idle, Step, AuditEvent, Timed
  <2>1. ASSUME NEW r \in Requests, Staff(r) PROVE TrailInv'
    <3>1. CASE BeginCreate(r)
      BY <3>1, SubmitLemma DEF BeginCreate
    <3>2. CASE CreateInvoice(r)
      BY <3>2, GotoLemma, FinishLemma DEF CreateInvoice
    <3>3. CASE CreateAudit(r)
      BY <3>3, GotoLemma, FinishLemma DEF CreateAudit, createAuditEvent
    <3>4. CASE BeginEdit(r)
      BY <3>4, SubmitLemma DEF BeginEdit
    <3>5. CASE EditInvoice(r)
      BY <3>5, GotoLemma DEF EditInvoice
    <3>6. CASE EditAudit(r)
      BY <3>6, FinishLemma DEF EditAudit, createAuditEvent
    <3>7. CASE BeginClone(r)
      BY <3>7, SubmitLemma DEF BeginClone
    <3>8. CASE CloneInvoice(r)
      BY <3>8, GotoLemma DEF CloneInvoice
    <3>9. CASE CloneAudit(r)
      BY <3>9, GotoLemma DEF CloneAudit, createAuditEvent
    <3>10. CASE BeginResend(r)
      BY <3>10, GotoLemma DEF BeginResend
    <3>11. CASE IssueCheck(r)
      BY <3>11, GotoLemma, FinishLemma DEF IssueCheck
    <3>12. CASE IssueToken(r)
      <4>1. /\ req'[r].step \in {"sendEmail", "sendSms"}
            /\ \A q \in Requests : q # r => req'[q] = req[q]
        BY <3>12 DEF IssueToken
      <4> QED
        BY <3>12, <4>1 DEF IssueToken
    <3>13. CASE SendEmail(r)
      BY <3>13, GotoLemma DEF SendEmail
    <3>14. CASE SendSms(r)
      BY <3>14, GotoLemma DEF SendSms
    <3>15. CASE SentAudit(r)
      BY <3>15, FinishLemma DEF SentAudit, createAuditEvent
    <3> QED
      BY <3>1, <3>2, <3>3, <3>4, <3>5, <3>6, <3>7, <3>8, <3>9, <3>10, <3>11,
         <3>12, <3>13, <3>14, <3>15,
         <2>1 DEF Staff
  <2>2. ASSUME NEW r \in Requests, Customer(r) PROVE TrailInv'
    <3>1. CASE BeginView(r)
      BY <3>1, GotoLemma DEF BeginView, findInvoiceForToken
    <3>2. CASE ViewAudit(r)
      BY <3>2, FinishLemma DEF ViewAudit, createAuditEvent
    <3>3. CASE BeginAcceptTerms(r)
      <4>1. /\ req'[r].step = "checkTerms"
            /\ \A q \in Requests : q # r => req'[q] = req[q]
        BY <3>3 DEF BeginAcceptTerms
      <4> QED
        BY <3>3, <4>1 DEF BeginAcceptTerms
    <3>4. CASE AcceptCheck(r)
      BY <3>4, GotoLemma, FinishLemma DEF AcceptCheck
    <3>5. CASE AcceptAudit(r)
      BY <3>5, FinishLemma DEF AcceptAudit, createAuditEvent
    <3>6. CASE BeginSign(r)
      BY <3>6, GotoLemma DEF BeginSign, findInvoiceForToken
    <3>7. CASE SignCheck(r)
      BY <3>7, GotoLemma, FinishLemma DEF SignCheck,
         hasAcceptedTermsForCurrentInvoice
    <3>8. CASE SignInvoice(r)
      <4>1. /\ req'[r].step = "attachedAudit"
            /\ req'[r].signature = signs + 1
            /\ \A q \in Requests : q # r => req'[q] = req[q]
        BY <3>8 DEF SignInvoice
      <4>2. signs + 1 \in 1 .. signs + 1 /\ 1 .. signs \subseteq 1 .. signs + 1
        OBVIOUS
      <4> QED
        BY <3>8, <4>1, <4>2 DEF SignInvoice
    <3>9. CASE AttachedAudit(r)
      <4> DEFINE e == [type |-> "ATTACHED", at |-> now,
      ref |-> req[r].signature]
      <4>1. audit' = audit \union {e} /\ now' = now /\ signs' = signs
        BY <3>9 DEF AttachedAudit, SignAudit, createAuditEvent
      <4>2. /\ req'[r].step = "signedAudit"
            /\ req'[r].signature = req[r].signature
            /\ \A q \in Requests : q # r => req'[q] = req[q]
        BY <3>9, GotoLemma DEF AttachedAudit, SignAudit
      <4>3. \A q \in Requests : Signing(q)'
        <5>1. Recorded("ATTACHED", req[r].signature)'
          <6>1. e \in audit' /\ e.type = "ATTACHED" /\ e.ref = req'[r].signature
            BY <4>1, <4>2
          <6> HIDE DEF e
          <6> QED
            BY <6>1
        <5>2. req[r].step = "attachedAudit"
          BY <3>9 DEF AttachedAudit, SignAudit
        <5>3. Signing(r)'
          BY <4>1, <4>2, <5>1, <5>2
        <5>4. ASSUME NEW q \in Requests, q # r PROVE Signing(q)'
          BY <4>1, <4>2, <5>4
        <5> QED
          BY <5>3, <5>4
      <4>4. e.ref \in 1 .. signs
        BY <3>9 DEF AttachedAudit, SignAudit
      <4>5. AuditTrailOrder'
        BY <4>1, <4>4
      <4> QED
        BY <4>1, <4>3, <4>5
    <3>10. CASE SignedAudit(r)
      <4> DEFINE e == [type |-> "SIGNED", at |-> now, ref |-> req[r].signature]
      <4>1. audit' = audit \union {e} /\ now' = now /\ signs' = signs
        BY <3>10 DEF SignedAudit, SignAudit, createAuditEvent
      <4>2. /\ req'[r].step = "completedAudit"
            /\ req'[r].signature = req[r].signature
            /\ \A q \in Requests : q # r => req'[q] = req[q]
        BY <3>10, GotoLemma DEF SignedAudit, SignAudit
      <4>3. \A q \in Requests : Signing(q)'
        <5>1. Recorded("SIGNED", req[r].signature)'
          <6>1. e \in audit' /\ e.type = "SIGNED" /\ e.ref = req'[r].signature
            BY <4>1, <4>2
          <6> HIDE DEF e
          <6> QED
            BY <6>1
        <5>2. req[r].step = "signedAudit"
          BY <3>10 DEF SignedAudit, SignAudit
        <5>3. Signing(r)'
          BY <4>1, <4>2, <5>1, <5>2
        <5>4. ASSUME NEW q \in Requests, q # r PROVE Signing(q)'
          BY <4>1, <4>2, <5>4
        <5> QED
          BY <5>3, <5>4
      <4>4. Precedes("ATTACHED", e)
        BY <3>10 DEF SignedAudit, SignAudit
      <4>5. AuditTrailOrder'
        BY <4>1, <4>4
      <4> QED
        BY <4>1, <4>3, <4>5
    <3>11. CASE CompletedAudit(r)
      <4> DEFINE e == [type |-> "COMPLETED", at |-> now,
      ref |-> req[r].signature]
      <4>1. audit' = audit \union {e} /\ now' = now /\ signs' = signs
        BY <3>11 DEF CompletedAudit, SignAudit, createAuditEvent
      <4>2. /\ req'[r].step = "confirm"
            /\ req'[r].signature = req[r].signature
            /\ \A q \in Requests : q # r => req'[q] = req[q]
        BY <3>11, GotoLemma DEF CompletedAudit, SignAudit
      <4>3. \A q \in Requests : Signing(q)'
        <5>1. Recorded("COMPLETED", req[r].signature)'
          <6>1. e \in audit' /\ e.type = "COMPLETED" /\ e.ref = req'[r].signature
            BY <4>1, <4>2
          <6> HIDE DEF e
          <6> QED
            BY <6>1
        <5>2. req[r].step = "completedAudit"
          BY <3>11 DEF CompletedAudit, SignAudit
        <5>3. Signing(r)'
          BY <4>1, <4>2, <5>1, <5>2
        <5>4. ASSUME NEW q \in Requests, q # r PROVE Signing(q)'
          BY <4>1, <4>2, <5>4
        <5> QED
          BY <5>3, <5>4
      <4>4. Precedes("SIGNED", e)
        BY <3>11 DEF CompletedAudit, SignAudit
      <4>5. AuditTrailOrder'
        BY <4>1, <4>4
      <4> QED
        BY <4>1, <4>3, <4>5
    <3>12. CASE Confirm(r)
      BY <3>12, FinishLemma DEF Confirm
    <3> QED
      BY <3>1, <3>2, <3>3, <3>4, <3>5, <3>6, <3>7, <3>8, <3>9, <3>10, <3>11,
         <3>12,
         <2>2 DEF Customer
  <2>3. ASSUME NEW r \in Requests, RequestFails(r) PROVE TrailInv'
    BY <2>3, FinishLemma DEF RequestFails
  <2>4. CASE UpdateOrderStatus
    BY <2>4 DEF UpdateOrderStatus
  <2>5. CASE Tick
    BY <2>5 DEF Tick
  <2>6. CASE UNCHANGED vars
    BY <2>6 DEF vars
  <2> QED
    BY <2>1, <2>2, <2>3, <2>4, <2>5, <2>6 DEF Next
<1>. QED
  BY <1>1, <1>2, TypeCorrect, PTL DEF Spec

\* The events of a signature are recorded in order, whatever fails.
THEOREM TrailOrdered == Spec => []AuditTrailOrder
<1>1. TrailInv => AuditTrailOrder
  BY DEF TrailInv
<1>. QED
  BY <1>1, TrailInvInductive, PTL

-----------------------------------------------------------------------------
(* One order, one invoice *)

\* Only the request whose insert succeeded records CREATED, and it has not
\* recorded it yet.
OnceInv ==
    /\ TypeOK
    /\ invoice.status = NotCreated => \A a \in audit : a.type # "CREATED"
    /\ \A r \in Requests : req[r].step = "createAudit" =>
          /\ invoice.status # NotCreated
          /\ \A a \in audit : a.type # "CREATED"
          /\ \A q \in Requests : req[q].step = "createAudit" => q = r
    /\ OneInvoicePerOrder

\* Every order has at most one invoice, however many requests create it.
THEOREM OneInvoice == Spec => []OneInvoicePerOrder
<1>1. Init => OnceInv
  BY DEF Init, OnceInv, TypeOK, OneInvoicePerOrder, Unsigned,
         Idle, Carry, NotCreated, Invoice, Request, Step
<1>2. TypeOK' /\ OnceInv /\ [Next]_vars => OnceInv'
  <2> SUFFICES ASSUME TypeOK', OnceInv, [Next]_vars PROVE OnceInv'
    OBVIOUS
  <2> USE DEF OnceInv, TypeOK, ReqType, OneInvoicePerOrder, At, Carry, Idle,
              Step, AuditEvent, Invoice, Unsigned, NotCreated, Created,
              Requested, Signed
  <2>1. ASSUME NEW r \in Requests, Staff(r) PROVE OnceInv'
    <3>1. CASE BeginCreate(r)
      BY <3>1, SubmitLemma DEF BeginCreate
    <3>2. CASE CreateInvoice(r)
      BY <3>2, GotoLemma, FinishLemma DEF CreateInvoice
    <3>3. CASE CreateAudit(r)
      BY <3>3, GotoLemma, FinishLemma DEF CreateAudit, createAuditEvent
    <3>4. CASE BeginEdit(r)
      BY <3>4, SubmitLemma DEF BeginEdit
    <3>5. CASE EditInvoice(r)
      BY <3>5, GotoLemma DEF EditInvoice
    <3>6. CASE EditAudit(r)
      BY <3>6, FinishLemma DEF EditAudit, createAuditEvent
    <3>7. CASE BeginClone(r)
      BY <3>7, SubmitLemma DEF BeginClone
    <3>8. CASE CloneInvoice(r)
      BY <3>8, GotoLemma DEF CloneInvoice
    <3>9. CASE CloneAudit(r)
      BY <3>9, GotoLemma DEF CloneAudit, createAuditEvent
    <3>10. CASE BeginResend(r)
      BY <3>10, GotoLemma DEF BeginResend
    <3>11. CASE IssueCheck(r)
      BY <3>11, GotoLemma, FinishLemma DEF IssueCheck
    <3>12. CASE IssueToken(r)
      <4>1. /\ req'[r].step \in {"sendEmail", "sendSms"}
            /\ \A q \in Requests : q # r => req'[q] = req[q]
        BY <3>12 DEF IssueToken
      <4> QED
        BY <3>12, <4>1 DEF IssueToken
    <3>13. CASE SendEmail(r)
      BY <3>13, GotoLemma DEF SendEmail
    <3>14. CASE SendSms(r)
      BY <3>14, GotoLemma DEF SendSms
    <3>15. CASE SentAudit(r)
      BY <3>15, FinishLemma DEF SentAudit, createAuditEvent
    <3> QED
      BY <3>1, <3>2, <3>3, <3>4, <3>5, <3>6, <3>7, <3>8, <3>9, <3>10, <3>11,
         <3>12, <3>13, <3>14, <3>15,
         <2>1 DEF Staff
  <2>2. ASSUME NEW r \in Requests, Customer(r) PROVE OnceInv'
    <3>1. CASE BeginView(r)
      BY <3>1, GotoLemma DEF BeginView, findInvoiceForToken
    <3>2. CASE ViewAudit(r)
      BY <3>2, FinishLemma DEF ViewAudit, createAuditEvent
    <3>3. CASE BeginAcceptTerms(r)
      <4>1. /\ req'[r].step = "checkTerms"
            /\ \A q \in Requests : q # r => req'[q] = req[q]
        BY <3>3 DEF BeginAcceptTerms
      <4> QED
        BY <3>3, <4>1 DEF BeginAcceptTerms
    <3>4. CASE AcceptCheck(r)
      BY <3>4, GotoLemma, FinishLemma DEF AcceptCheck
    <3>5. CASE AcceptAudit(r)
      BY <3>5, FinishLemma DEF AcceptAudit, createAuditEvent
    <3>6. CASE BeginSign(r)
      BY <3>6, GotoLemma DEF BeginSign, findInvoiceForToken
    <3>7. CASE SignCheck(r)
      BY <3>7, GotoLemma, FinishLemma DEF SignCheck,
         hasAcceptedTermsForCurrentInvoice
    <3>8. CASE SignInvoice(r)
      <4>1. /\ req'[r].step = "attachedAudit"
            /\ \A q \in Requests : q # r => req'[q] = req[q]
        BY <3>8 DEF SignInvoice
      <4> QED
        BY <3>8, <4>1 DEF SignInvoice
    <3>9. CASE AttachedAudit(r)
      BY <3>9, GotoLemma DEF AttachedAudit, SignAudit, createAuditEvent
    <3>10. CASE SignedAudit(r)
      BY <3>10, GotoLemma DEF SignedAudit, SignAudit, createAuditEvent
    <3>11. CASE CompletedAudit(r)
      BY <3>11, GotoLemma DEF CompletedAudit, SignAudit, createAuditEvent
    <3>12. CASE Confirm(r)
      BY <3>12, FinishLemma DEF Confirm
    <3> QED
      BY <3>1, <3>2, <3>3, <3>4, <3>5, <3>6, <3>7, <3>8, <3>9, <3>10, <3>11,
         <3>12,
         <2>2 DEF Customer
  <2>3. ASSUME NEW r \in Requests, RequestFails(r) PROVE OnceInv'
    BY <2>3, FinishLemma DEF RequestFails
  <2>4. CASE UpdateOrderStatus
    BY <2>4 DEF UpdateOrderStatus
  <2>5. CASE Tick
    BY <2>5 DEF Tick
  <2>6. CASE UNCHANGED vars
    BY <2>6 DEF vars
  <2> QED
    BY <2>1, <2>2, <2>3, <2>4, <2>5, <2>6 DEF Next
<1>3. OnceInv => OneInvoicePerOrder
  BY DEF OnceInv
<1>. QED
  BY <1>1, <1>2, <1>3, TypeCorrect, PTL DEF Spec

-----------------------------------------------------------------------------
(* A replaced link stays dead *)

\* Five steps write the invoice row; every other step leaves it alone.
LEMMA InvoiceWriters ==
  ASSUME [Next]_vars
  PROVE  \/ UNCHANGED invoice
         \/ \E r \in Requests : \/ CreateInvoice(r) \/ EditInvoice(r)
                                \/ CloneInvoice(r) \/ IssueToken(r)
                                \/ SignInvoice(r)
<1>1. ASSUME NEW r \in Requests, Staff(r)
      PROVE  \/ UNCHANGED invoice
             \/ CreateInvoice(r) \/ EditInvoice(r) \/ CloneInvoice(r)
             \/ IssueToken(r)
  BY <1>1 DEF Staff, BeginCreate, CreateAudit, BeginEdit, EditAudit,
     BeginClone,
              CloneAudit, BeginResend, IssueCheck, SendEmail, SendSms,
                 SentAudit
<1>2. ASSUME NEW r \in Requests, Customer(r)
      PROVE  UNCHANGED invoice \/ SignInvoice(r)
  BY <1>2 DEF Customer, BeginView, ViewAudit, BeginAcceptTerms, AcceptCheck,
              AcceptAudit, BeginSign, SignCheck, AttachedAudit, SignedAudit,
              CompletedAudit, SignAudit, Confirm
<1>3. ASSUME NEW r \in Requests, RequestFails(r) PROVE UNCHANGED invoice
  BY <1>3 DEF RequestFails
<1>4. CASE UpdateOrderStatus \/ Tick \/ UNCHANGED vars
  BY <1>4 DEF UpdateOrderStatus, Tick, vars
<1> QED
  BY <1>1, <1>2, <1>3, <1>4 DEF Next

\* Tokens are numbered in the order of their issue, so a token that is in the
\* row is never stored again once another value took its place.
THEOREM ReplacedLink == Spec => ReplacedLinkStaysDead
<1>1. BackedInv /\ [Next]_vars => [NoLinkRevives]_vars
  <2> SUFFICES ASSUME BackedInv, [Next]_vars PROVE [NoLinkRevives]_vars
    OBVIOUS
  <2> USE DEF BackedInv, TypeOK, RowInv, Invoice, Unsigned, NoLinkRevives
  <2>1. ASSUME NEW r \in Requests, CreateInvoice(r) \/ CloneInvoice(r)
        PROVE  NoLinkRevives
    BY <2>1 DEF CreateInvoice, CloneInvoice
  <2>2. ASSUME NEW r \in Requests, IssueToken(r) PROVE NoLinkRevives
    BY <2>2 DEF IssueToken
  <2>3. ASSUME NEW r \in Requests, EditInvoice(r) \/ SignInvoice(r)
        PROVE  NoLinkRevives
    BY <2>3 DEF EditInvoice, SignInvoice
  <2>4. CASE UNCHANGED invoice
    BY <2>4
  <2> QED
    BY <2>1, <2>2, <2>3, <2>4, InvoiceWriters
<1> QED
  BY <1>1, BackedInvInductive, PTL DEF Spec, ReplacedLinkStaysDead

-----------------------------------------------------------------------------
(* A link that was reported as sent was mailed *)

\* The request passed the mail gateway, which comes before the others.
Mailed(r) == req[r].step \in {"sendSms", "sentAudit"} => req[r].token \in links

DeliveredInv ==
    /\ TypeOK
    /\ "email" \in Channels => \A r \in Requests : Mailed(r)
    /\ SentIsTrue

\* A step that sends nothing, reports nothing and leaves its request
\* elsewhere than behind the mail gateway.
LEMMA QuietStep ==
  ASSUME DeliveredInv, TypeOK', NEW r \in Requests,
         req'[r].step \notin {"sendSms", "sentAudit"},
         \A q \in Requests : q # r => req'[q] = req[q],
         links' = links,
         \A e \in audit' : e \in audit \/ e.type # "SENT"
  PROVE  DeliveredInv'
BY DEF DeliveredInv, Mailed, SentIsTrue

\* Whoever is told that a link went out by e-mail can rely on it, however
\* resends overlap and gateways fail.
THEOREM SentTrue == Spec => []SentIsTrue
<1>1. Init => DeliveredInv
  BY DEF Init, DeliveredInv, TypeOK, Mailed, SentIsTrue, Unsigned, Idle, Carry,
         NotCreated, Invoice, Request, Step
<1>2. TypeOK' /\ DeliveredInv /\ [Next]_vars => DeliveredInv'
  <2> SUFFICES ASSUME TypeOK', DeliveredInv, [Next]_vars PROVE DeliveredInv'
    OBVIOUS
  <2>0. TypeOK /\ ReqType
    BY DEF DeliveredInv, TypeOK, ReqType
  <2> USE <2>0 DEF TypeOK, At, Carry, Idle, Step
  <2>1. ASSUME NEW r \in Requests, Staff(r) PROVE DeliveredInv'
    <3>1. CASE BeginCreate(r)
      BY <3>1, SubmitLemma, QuietStep DEF BeginCreate
    <3>2. CASE CreateInvoice(r)
      BY <3>2, GotoLemma, FinishLemma, QuietStep DEF CreateInvoice
    <3>3. CASE CreateAudit(r)
      BY <3>3, GotoLemma, FinishLemma, QuietStep DEF CreateAudit, createAuditEvent
    <3>4. CASE BeginEdit(r)
      BY <3>4, SubmitLemma, QuietStep DEF BeginEdit
    <3>5. CASE EditInvoice(r)
      BY <3>5, GotoLemma, QuietStep DEF EditInvoice
    <3>6. CASE EditAudit(r)
      BY <3>6, FinishLemma, QuietStep DEF EditAudit, createAuditEvent
    <3>7. CASE BeginClone(r)
      BY <3>7, SubmitLemma, QuietStep DEF BeginClone
    <3>8. CASE CloneInvoice(r)
      BY <3>8, GotoLemma, QuietStep DEF CloneInvoice
    <3>9. CASE CloneAudit(r)
      BY <3>9, GotoLemma, QuietStep DEF CloneAudit, createAuditEvent
    <3>10. CASE BeginResend(r)
      BY <3>10, GotoLemma, QuietStep DEF BeginResend
    <3>11. CASE IssueCheck(r)
      BY <3>11, GotoLemma, FinishLemma, QuietStep DEF IssueCheck
    <3>12. CASE IssueToken(r)
      <4>1. CASE "email" \in Channels
        <5>1. /\ req'[r].step = "sendEmail"
              /\ \A q \in Requests : q # r => req'[q] = req[q]
          BY <3>12, <4>1 DEF IssueToken
        <5> QED
          BY <3>12, <5>1, QuietStep DEF IssueToken
      <4>2. CASE "email" \notin Channels
        BY <4>2 DEF DeliveredInv, SentIsTrue
      <4> QED
        BY <4>1, <4>2
    <3>13. CASE SendEmail(r)
      BY <3>13, GotoLemma DEF SendEmail, DeliveredInv, Mailed, SentIsTrue
    <3>14. CASE SendSms(r)
      BY <3>14, GotoLemma DEF SendSms, DeliveredInv, Mailed, SentIsTrue
    <3>15. CASE SentAudit(r)
      BY <3>15, FinishLemma DEF SentAudit, createAuditEvent, DeliveredInv, Mailed,
         SentIsTrue
    <3> QED
      BY <3>1, <3>2, <3>3, <3>4, <3>5, <3>6, <3>7, <3>8, <3>9, <3>10, <3>11,
         <3>12, <3>13, <3>14, <3>15,
         <2>1 DEF Staff
  <2>2. ASSUME NEW r \in Requests, Customer(r) PROVE DeliveredInv'
    <3>1. CASE BeginView(r)
      BY <3>1, GotoLemma, QuietStep DEF BeginView
    <3>2. CASE ViewAudit(r)
      BY <3>2, FinishLemma, QuietStep DEF ViewAudit, createAuditEvent
    <3>3. CASE BeginAcceptTerms(r)
      <4>1. /\ req'[r].step = "checkTerms"
            /\ \A q \in Requests : q # r => req'[q] = req[q]
        BY <3>3 DEF BeginAcceptTerms
      <4> QED
        BY <3>3, <4>1, QuietStep DEF BeginAcceptTerms
    <3>4. CASE AcceptCheck(r)
      BY <3>4, GotoLemma, FinishLemma, QuietStep DEF AcceptCheck
    <3>5. CASE AcceptAudit(r)
      BY <3>5, FinishLemma, QuietStep DEF AcceptAudit, createAuditEvent
    <3>6. CASE BeginSign(r)
      BY <3>6, GotoLemma, QuietStep DEF BeginSign
    <3>7. CASE SignCheck(r)
      BY <3>7, GotoLemma, FinishLemma, QuietStep DEF SignCheck
    <3>8. CASE SignInvoice(r)
      <4>1. /\ req'[r].step = "attachedAudit"
            /\ \A q \in Requests : q # r => req'[q] = req[q]
        BY <3>8 DEF SignInvoice
      <4> QED
        BY <3>8, <4>1, QuietStep DEF SignInvoice
    <3>9. CASE AttachedAudit(r)
      BY <3>9, GotoLemma, QuietStep DEF AttachedAudit, SignAudit, createAuditEvent
    <3>10. CASE SignedAudit(r)
      BY <3>10, GotoLemma, QuietStep DEF SignedAudit, SignAudit, createAuditEvent
    <3>11. CASE CompletedAudit(r)
      BY <3>11, GotoLemma, QuietStep DEF CompletedAudit, SignAudit, createAuditEvent
    <3>12. CASE Confirm(r)
      BY <3>12, FinishLemma, QuietStep DEF Confirm
    <3> QED
      BY <3>1, <3>2, <3>3, <3>4, <3>5, <3>6, <3>7, <3>8, <3>9, <3>10, <3>11,
         <3>12,
         <2>2 DEF Customer
  <2>3. ASSUME NEW r \in Requests, RequestFails(r) PROVE DeliveredInv'
    BY <2>3, FinishLemma, QuietStep DEF RequestFails
  <2>4. CASE UpdateOrderStatus
    BY <2>4 DEF UpdateOrderStatus, DeliveredInv, Mailed, SentIsTrue
  <2>5. CASE Tick
    BY <2>5 DEF Tick, DeliveredInv, Mailed, SentIsTrue
  <2>6. CASE UNCHANGED vars
    BY <2>6 DEF vars, DeliveredInv, Mailed, SentIsTrue
  <2>. QED
    BY <2>1, <2>2, <2>3, <2>4, <2>5, <2>6 DEF Next
<1>3. DeliveredInv => SentIsTrue
  BY DEF DeliveredInv
<1>. QED
  BY <1>1, <1>2, <1>3, TypeCorrect, PTL DEF Spec

-----------------------------------------------------------------------------
(* One request at a time: the contract is kept *)

\* What the only request in flight read is still so when it writes.
Current(r) ==
    /\ req[r].content <= versions
    /\ req[r].step = "create" => /\ invoice.status = NotCreated
                                /\ req[r].content > 0
    /\ req[r].step = "edit" => /\ invoice.status \in {Created, Requested}
                              /\ req[r].content > invoice.content
    /\ req[r].step = "clone" => /\ invoice.status = Signed
                               /\ req[r].content > invoice.content
    /\ req[r].step \in {"createAudit",
       "cloneAudit"} => invoice.status = Created
    /\ req[r].step = "issue" => invoice.status # NotCreated
    /\ req[r].step = "issueToken" => invoice.status \in {Created, Requested}
    /\ req[r].step \in {"checkSign", "sign"} => invoice.status = Requested

SerialInv ==
    /\ TypeOK
    /\ \A r \in Requests : Current(r)
    /\ invoice.content <= versions
    /\ invoice.token <= tokens
    /\ invoice.status = NotCreated => /\ invoice.content = 0
                                     /\ invoice.signedContent = 0
    /\ invoice.status \in {NotCreated, Created} => invoice.token = 0
    /\ invoice.status \in {Requested, Signed} => invoice.token # 0

LEMMA SerialInvInductive ==
  ASSUME \A r, q \in Requests : r = q
  PROVE  Spec => []SerialInv
<1>1. Init => SerialInv
  BY DEF Init, SerialInv, TypeOK, Current, Unsigned, Idle, Carry, NotCreated,
         Created, Requested, Signed, Invoice, Request, Step
<1>2. TypeOK' /\ SerialInv /\ [Next]_vars => SerialInv'
  <2> SUFFICES ASSUME TypeOK', SerialInv, [Next]_vars PROVE SerialInv'
    OBVIOUS
  <2> USE DEF SerialInv, TypeOK, ReqType, Current, At, Carry, Idle, Step,
              Request, Invoice, Unsigned, NotCreated, Created, Requested,
                 Signed
  <2>1. ASSUME NEW r \in Requests, Staff(r) PROVE SerialInv'
    <3>1. CASE BeginCreate(r)
      BY <3>1, SubmitLemma DEF BeginCreate
    <3>2. CASE CreateInvoice(r)
      BY <3>2, GotoLemma, FinishLemma DEF CreateInvoice
    <3>3. CASE CreateAudit(r)
      BY <3>3, GotoLemma, FinishLemma DEF CreateAudit, createAuditEvent
    <3>4. CASE BeginEdit(r)
      BY <3>4, SubmitLemma DEF BeginEdit
    <3>5. CASE EditInvoice(r)
      BY <3>5, GotoLemma DEF EditInvoice
    <3>6. CASE EditAudit(r)
      BY <3>6, FinishLemma DEF EditAudit, createAuditEvent
    <3>7. CASE BeginClone(r)
      BY <3>7, SubmitLemma DEF BeginClone
    <3>8. CASE CloneInvoice(r)
      BY <3>8, GotoLemma DEF CloneInvoice
    <3>9. CASE CloneAudit(r)
      BY <3>9, GotoLemma DEF CloneAudit, createAuditEvent
    <3>10. CASE BeginResend(r)
      BY <3>10, GotoLemma DEF BeginResend
    <3>11. CASE IssueCheck(r)
      BY <3>11, GotoLemma, FinishLemma DEF IssueCheck
    <3>12. CASE IssueToken(r)
      <4>1. /\ req'[r].step \in {"sendEmail", "sendSms"}
            /\ req'[r].content = 0
        BY <3>12 DEF IssueToken
      <4> QED
        BY <3>12, <4>1 DEF IssueToken
    <3>13. CASE SendEmail(r)
      BY <3>13, GotoLemma DEF SendEmail
    <3>14. CASE SendSms(r)
      BY <3>14, GotoLemma DEF SendSms
    <3>15. CASE SentAudit(r)
      BY <3>15, FinishLemma DEF SentAudit, createAuditEvent
    <3> QED
      BY <3>1, <3>2, <3>3, <3>4, <3>5, <3>6, <3>7, <3>8, <3>9, <3>10, <3>11,
         <3>12, <3>13, <3>14, <3>15,
         <2>1 DEF Staff
  <2>2. ASSUME NEW r \in Requests, Customer(r) PROVE SerialInv'
    <3>1. CASE BeginView(r)
      BY <3>1, GotoLemma DEF BeginView, findInvoiceForToken
    <3>2. CASE ViewAudit(r)
      BY <3>2, FinishLemma DEF ViewAudit, createAuditEvent
    <3>3. CASE BeginAcceptTerms(r)
      <4>1. req'[r] = Carry("checkTerms", invoice.content, 0, 0)
        BY <3>3 DEF BeginAcceptTerms
      <4> QED
        BY <3>3, <4>1 DEF BeginAcceptTerms
    <3>4. CASE AcceptCheck(r)
      BY <3>4, GotoLemma, FinishLemma DEF AcceptCheck
    <3>5. CASE AcceptAudit(r)
      BY <3>5, FinishLemma DEF AcceptAudit, createAuditEvent
    <3>6. CASE BeginSign(r)
      BY <3>6, GotoLemma DEF BeginSign, findInvoiceForToken
    <3>7. CASE SignCheck(r)
      BY <3>7, GotoLemma, FinishLemma DEF SignCheck,
         hasAcceptedTermsForCurrentInvoice
    <3>8. CASE SignInvoice(r)
      <4>1. req'[r] = Carry("attachedAudit", 0, 0, signs + 1)
        BY <3>8 DEF SignInvoice
      <4> QED
        BY <3>8, <4>1 DEF SignInvoice
    <3>9. CASE AttachedAudit(r)
      BY <3>9, GotoLemma DEF AttachedAudit, SignAudit, createAuditEvent
    <3>10. CASE SignedAudit(r)
      BY <3>10, GotoLemma DEF SignedAudit, SignAudit, createAuditEvent
    <3>11. CASE CompletedAudit(r)
      BY <3>11, GotoLemma DEF CompletedAudit, SignAudit, createAuditEvent
    <3>12. CASE Confirm(r)
      BY <3>12, FinishLemma DEF Confirm
    <3> QED
      BY <3>1, <3>2, <3>3, <3>4, <3>5, <3>6, <3>7, <3>8, <3>9, <3>10, <3>11,
         <3>12,
         <2>2 DEF Customer
  <2>3. ASSUME NEW r \in Requests, RequestFails(r) PROVE SerialInv'
    BY <2>3, FinishLemma DEF RequestFails
  <2>4. CASE UpdateOrderStatus
    BY <2>4 DEF UpdateOrderStatus
  <2>5. CASE Tick
    BY <2>5 DEF Tick
  <2>6. CASE UNCHANGED vars
    BY <2>6 DEF vars
  <2> QED
    BY <2>1, <2>2, <2>3, <2>4, <2>5, <2>6 DEF Next
<1>. QED
  BY <1>1, <1>2, TypeCorrect, PTL DEF Spec

\* A server that handles one request at a time implements InvoiceContract:
\* signed invoices are frozen until cloned and signed once.
THEOREM SerialContract ==
  ASSUME \A r, q \in Requests : r = q
  PROVE  Spec => ImplementsContract
<1>1. Init => Contract!Init
  BY DEF Init, Contract!Init, Unsigned, NotCreated
<1>2. SerialInv /\ [Next]_vars => [Contract!Next]_(Contract!vars)
  <2> SUFFICES ASSUME SerialInv, [Next]_vars
               PROVE  [Contract!Next]_(Contract!vars)
    OBVIOUS
  <2> USE DEF SerialInv, TypeOK, Current, At, Invoice, Request, Unsigned,
              NotCreated, Created, Requested, Signed, Contract!NewText
  <2>1. ASSUME NEW r \in Requests, CreateInvoice(r)
        PROVE  Contract!Create \/ UNCHANGED invoice
    BY <2>1 DEF CreateInvoice, Contract!Create
  <2>2. ASSUME NEW r \in Requests, EditInvoice(r) PROVE Contract!Edit
    BY <2>2 DEF EditInvoice, Contract!Edit
  <2>3. ASSUME NEW r \in Requests, CloneInvoice(r) PROVE Contract!Clone
    BY <2>3 DEF CloneInvoice, Contract!Clone
  <2>4. ASSUME NEW r \in Requests, IssueToken(r)
        PROVE  Contract!RequestSignature
    BY <2>4 DEF IssueToken, Contract!RequestSignature
  <2>5. ASSUME NEW r \in Requests, SignInvoice(r) PROVE Contract!Sign
    BY <2>5 DEF SignInvoice, Contract!Sign
  <2>6. CASE UNCHANGED invoice
    BY <2>6 DEF Contract!vars
  <2> QED
    BY <2>1, <2>2, <2>3, <2>4, <2>5, <2>6, InvoiceWriters
    DEF Contract!Next, Contract!vars
<1> QED
  BY <1>1, <1>2, SerialInvInductive, PTL
  DEF Spec, ImplementsContract, Contract!Spec
=============================================================================
