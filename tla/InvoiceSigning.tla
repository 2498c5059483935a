--------------------------- MODULE InvoiceSigning ---------------------------
(***************************************************************************)
(* The invoice of one order and the e-signature workflow on it             *)
(* (modules/invoices).  Every HTTP request is an asynchronous function:    *)
(* each await on the database or on a mail or SMS gateway is one step, and *)
(* the steps of concurrent requests interleave.  No transaction spans two  *)
(* awaits, and every update of the invoice row is by primary key alone, so *)
(* a request acts on what it read some steps earlier.                      *)
(*                                                                         *)
(* Staff requests create, edit, clone the invoice and (re)send its signing *)
(* link; the customer's requests view it, accept the terms and sign it.    *)
(* A request that the code rejects on its first read changes nothing: it   *)
(* is a stuttering step and has no action.  An edited text is a version    *)
(* number, a signing token the number of its issue; 0 is SQL's NULL.       *)
(***************************************************************************)
EXTENDS Naturals
LOCAL INSTANCE TLC

CONSTANTS
    Requests,    \* the requests the servers have in flight at one time
    Channels,    \* ways to reach the customer: addresses known, gateways set up
    TokenTTL,    \* clock ticks a signing link stays active
    MaxTime,     \* bound on the clock
    MaxContent,  \* bound on create, edit and clone requests
    MaxTokens,   \* bound on issued signing links
    MaxSigns     \* bound on committed signatures

ASSUME ChannelsAssumption == Channels \subseteq {"email", "sms"}

ASSUME BoundsAssumption ==
    /\ TokenTTL \in Nat
    /\ MaxTime \in Nat
    /\ MaxContent \in Nat
    /\ MaxTokens \in Nat
    /\ MaxSigns \in Nat

VARIABLES
    orderStatus, \* status of the order the invoice is for
    invoice,     \* the row of table Invoice
    audit,       \* the rows of table InvoiceAuditEvent
    links,       \* tokens delivered to the customer
    req,         \* req[r]: where request r stands and what it carries
    now,         \* the servers' clock
    versions,    \* texts submitted so far
    tokens,      \* tokens issued so far
    signs        \* signatures committed so far

vars == <<orderStatus, invoice, audit, links, req, now,
          versions, tokens, signs>>

NotCreated == "NOT_CREATED"  \* the table has no row for the order
Created    == "CREATED"
Requested  == "SIGNATURE_REQUESTED"
Signed     == "SIGNED"

AuditType == {"CREATED", "EDITED", "CLONED", "SENT", "VIEWED",
              "TERMS_ACCEPTED", "ATTACHED", "SIGNED", "COMPLETED"}

\* ref: the version, token or signature the event is about.
AuditEvent == [type : AuditType, at : Nat, ref : Nat]

\* signedContent is the version in the row when the signature was written.
Invoice == [status : {NotCreated, Created, Requested, Signed},
            content : Nat, token : Nat, expiresAt : Nat,
            signature : Nat, signedAt : Nat, signedContent : Nat]

Step == {"idle",
         "create", "createAudit", "edit", "editAudit", "clone", "cloneAudit",
         "issue", "issueToken", "sendEmail", "sendSms", "sentAudit",
         "viewAudit", "checkTerms", "acceptAudit",
         "checkSign", "sign", "attachedAudit", "signedAudit",
         "completedAudit", "confirm"}

Request == [step : Step, content : Nat, token : Nat, signature : Nat]

Carry(s, c, t, g) == [step |-> s, content |-> c, token |-> t, signature |-> g]

Idle == Carry("idle", 0, 0, 0)

\* A row without link and without signature.  The payload of the staff's form
\* has fields for a signature but the form no input for them.
Unsigned(s, c) == [status |-> s, content |-> c, token |-> 0, expiresAt |-> 0,
                   signature |-> 0, signedAt |-> 0, signedContent |-> 0]

TypeOK ==
    /\ orderStatus \in {"PARTIALLY_PAID", "CONFIRMED"}
    /\ invoice \in Invoice
    /\ audit \subseteq AuditEvent
    /\ links \subseteq Nat
    /\ req \in [Requests -> Request]
    /\ now \in Nat
    /\ versions \in Nat
    /\ tokens \in Nat
    /\ signs \in Nat

Init ==
    /\ orderStatus \in {"PARTIALLY_PAID", "CONFIRMED"}
    /\ invoice = Unsigned(NotCreated, 0)
    /\ audit = {}
    /\ links = {}
    /\ req = [r \in Requests |-> Idle]
    /\ now = 0
    /\ versions = 0
    /\ tokens = 0
    /\ signs = 0

-----------------------------------------------------------------------------
(* Helpers *)

At(r, s) == req[r].step = s

Goto(r, s) == req' = [req EXCEPT ![r].step = s]

Finish(r) == req' = [req EXCEPT ![r] = Idle]

\* An idle slot takes a request whose body carries a new text.
Submit(r, s) ==
    /\ At(r, "idle")
    /\ versions < MaxContent
    /\ versions' = versions + 1
    /\ req' = [req EXCEPT ![r] = Carry(s, versions + 1, 0, 0)]

\* occurredAt is kept for the events whose times the code or a property
\* compares, and is 0 for the others.
Timed == {"EDITED", "TERMS_ACCEPTED", "ATTACHED", "SIGNED", "COMPLETED"}

createAuditEvent(type, ref) ==
    audit' = audit \union
        {[type |-> type, at |-> IF type \in Timed THEN now ELSE 0, ref |-> ref]}

\* The latest acceptance is no older than the latest edit.
hasAcceptedTermsForCurrentInvoice ==
    \E a \in audit :
        /\ a.type = "TERMS_ACCEPTED"
        /\ \A e \in audit : e.type = "EDITED" => a.at >= e.at

assertTokenIsActive == invoice.expiresAt >= now

\* The customer holds the link whose token the row stores.
findInvoiceForToken == invoice.token # 0 /\ invoice.token \in links

-----------------------------------------------------------------------------
(* Staff: create *)

BeginCreate(r) ==
    /\ orderStatus # "PARTIALLY_PAID"
    /\ invoice.status = NotCreated
    /\ Submit(r, "create")
    /\ UNCHANGED <<orderStatus, invoice, audit, links, now, tokens, signs>>

\* Mutant: no unique index on orderId.
CreateInvoiceTwice(r) ==
    /\ At(r, "create")
    /\ invoice' = Unsigned(Created, req[r].content)
    /\ Goto(r, "createAudit")
    /\ UNCHANGED <<orderStatus, audit, links, now, versions, tokens, signs>>

\* The unique index on orderId turns the later of two inserts into a
\* conflict (P2002).
CreateInvoice(r) ==
    /\ At(r, "create")
    /\ IF invoice.status = NotCreated
       THEN /\ invoice' = Unsigned(Created, req[r].content)
            /\ Goto(r, "createAudit")
       ELSE /\ Finish(r)
            /\ UNCHANGED invoice
    /\ UNCHANGED <<orderStatus, audit, links, now, versions, tokens, signs>>

CreateAudit(r) ==
    /\ At(r, "createAudit")
    /\ createAuditEvent("CREATED", req[r].content)
    /\ IF Channels = {} THEN Finish(r) ELSE Goto(r, "issue")
    /\ UNCHANGED <<orderStatus, invoice, links, now, versions, tokens, signs>>

-----------------------------------------------------------------------------
(* Staff: edit *)

\* Mutant: signed invoices may be edited.
BeginEditSigned(r) ==
    /\ invoice.status # NotCreated
    /\ Submit(r, "edit")
    /\ UNCHANGED <<orderStatus, invoice, audit, links, now, tokens, signs>>

BeginEdit(r) ==
    /\ invoice.status \notin {NotCreated, Signed}
    /\ Submit(r, "edit")
    /\ UNCHANGED <<orderStatus, invoice, audit, links, now, tokens, signs>>

\* The update names the row and the columns of the text, nothing else.
EditInvoice(r) ==
    /\ At(r, "edit")
    /\ invoice' = [invoice EXCEPT !.content = req[r].content]
    /\ Goto(r, "editAudit")
    /\ UNCHANGED <<orderStatus, audit, links, now, versions, tokens, signs>>

\* The order note is written first; the event only after it.
EditAudit(r) ==
    /\ At(r, "editAudit")
    /\ createAuditEvent("EDITED", req[r].content)
    /\ Finish(r)
    /\ UNCHANGED <<orderStatus, invoice, links, now, versions, tokens, signs>>

-----------------------------------------------------------------------------
(* Staff: clone a signed invoice (in place) *)

BeginClone(r) ==
    /\ invoice.status = Signed
    /\ Submit(r, "clone")
    /\ UNCHANGED <<orderStatus, invoice, audit, links, now, tokens, signs>>

\* Mutant: a status the workflow does not know.
CloneInvoiceUnknownStatus(r) ==
    /\ At(r, "clone")
    /\ invoice' = Unsigned("CLONED", req[r].content)
    /\ Goto(r, "cloneAudit")
    /\ UNCHANGED <<orderStatus, audit, links, now, versions, tokens, signs>>

CloneInvoice(r) ==
    /\ At(r, "clone")
    /\ invoice' = Unsigned(Created, req[r].content)
    /\ Goto(r, "cloneAudit")
    /\ UNCHANGED <<orderStatus, audit, links, now, versions, tokens, signs>>

CloneAudit(r) ==
    /\ At(r, "cloneAudit")
    /\ createAuditEvent("CLONED", req[r].content)
    /\ Goto(r, "issue")
    /\ UNCHANGED <<orderStatus, invoice, links, now, versions, tokens, signs>>

-----------------------------------------------------------------------------
(* Staff: send or resend the signing link *)

\* resendSignatureRequest and generateNewSigningLink differ in the note only.
BeginResend(r) ==
    /\ At(r, "idle")
    /\ invoice.status # NotCreated
    /\ Goto(r, "issue")
    /\ UNCHANGED <<orderStatus, invoice, audit, links, now, versions, tokens,
                   signs>>

IssueCheck(r) ==
    /\ At(r, "issue")
    /\ IF invoice.status = Signed \/ Channels = {}
       THEN Finish(r)
       ELSE Goto(r, "issueToken")
    /\ UNCHANGED <<orderStatus, invoice, audit, links, now, versions, tokens,
                   signs>>

\* Mutant: the token is derived from the invoice instead of drawn at random.
IssueDerivedToken(r) ==
    /\ At(r, "issueToken")
    /\ tokens < MaxTokens
    /\ tokens' = tokens + 1
    /\ invoice' = [invoice EXCEPT !.status = Requested, !.token = 1,
                                  !.expiresAt = now + TokenTTL]
    /\ req' = [req EXCEPT ![r] =
                 Carry(IF "email" \in Channels THEN "sendEmail" ELSE "sendSms",
                       0, 1, 0)]
    /\ UNCHANGED <<orderStatus, audit, links, now, versions, signs>>

IssueToken(r) ==
    /\ At(r, "issueToken")
    /\ tokens < MaxTokens
    /\ tokens' = tokens + 1
    /\ invoice' = [invoice EXCEPT !.status = Requested,
                                  !.token = tokens + 1,
                                  !.expiresAt = now + TokenTTL]
    /\ req' = [req EXCEPT ![r] =
                 Carry(IF "email" \in Channels THEN "sendEmail" ELSE "sendSms",
                       0, tokens + 1, 0)]
    /\ UNCHANGED <<orderStatus, audit, links, now, versions, signs>>

\* Mutant: a mail failure is swallowed the way an SMS failure is.
SendEmailSwallowed(r) ==
    /\ At(r, "sendEmail")
    /\ \E delivered \in BOOLEAN :
          links' = IF delivered THEN links \union {req[r].token} ELSE links
    /\ Goto(r, IF "sms" \in Channels THEN "sendSms" ELSE "sentAudit")
    /\ UNCHANGED <<orderStatus, invoice, audit, now, versions, tokens, signs>>

\* A gateway error, before or after the mail left, is RequestFails.
SendEmail(r) ==
    /\ At(r, "sendEmail")
    /\ links' = links \union {req[r].token}
    /\ Goto(r, IF "sms" \in Channels THEN "sendSms" ELSE "sentAudit")
    /\ UNCHANGED <<orderStatus, invoice, audit, now, versions, tokens, signs>>

\* A failed SMS is logged and the request goes on.
SendSms(r) ==
    /\ At(r, "sendSms")
    /\ \E delivered \in BOOLEAN :
          links' = IF delivered THEN links \union {req[r].token} ELSE links
    /\ Goto(r, "sentAudit")
    /\ UNCHANGED <<orderStatus, invoice, audit, now, versions, tokens, signs>>

SentAudit(r) ==
    /\ At(r, "sentAudit")
    /\ createAuditEvent("SENT", req[r].token)
    /\ Finish(r)
    /\ UNCHANGED <<orderStatus, invoice, links, now, versions, tokens, signs>>

-----------------------------------------------------------------------------
(* Customer: view, accept the terms, sign *)

BeginView(r) ==
    /\ At(r, "idle")
    /\ findInvoiceForToken
    /\ invoice.status # Signed => assertTokenIsActive
    /\ Goto(r, "viewAudit")
    /\ UNCHANGED <<orderStatus, invoice, audit, links, now, versions, tokens,
                   signs>>

ViewAudit(r) ==
    /\ At(r, "viewAudit")
    /\ createAuditEvent("VIEWED", 0)
    /\ Finish(r)
    /\ UNCHANGED <<orderStatus, invoice, links, now, versions, tokens, signs>>

\* The row is read here, its audit events by a second query.
BeginAcceptTerms(r) ==
    /\ At(r, "idle")
    /\ findInvoiceForToken
    /\ invoice.status # Signed
    /\ assertTokenIsActive
    /\ req' = [req EXCEPT ![r] = Carry("checkTerms", invoice.content, 0, 0)]
    /\ UNCHANGED <<orderStatus, invoice, audit, links, now, versions, tokens,
                   signs>>

AcceptCheck(r) ==
    /\ At(r, "checkTerms")
    /\ IF hasAcceptedTermsForCurrentInvoice
       THEN Finish(r)
       ELSE Goto(r, "acceptAudit")
    /\ UNCHANGED <<orderStatus, invoice, audit, links, now, versions, tokens,
                   signs>>

AcceptAudit(r) ==
    /\ At(r, "acceptAudit")
    /\ createAuditEvent("TERMS_ACCEPTED", req[r].content)
    /\ Finish(r)
    /\ UNCHANGED <<orderStatus, invoice, links, now, versions, tokens, signs>>

BeginSign(r) ==
    /\ At(r, "idle")
    /\ findInvoiceForToken
    /\ invoice.status # Signed
    /\ assertTokenIsActive
    /\ Goto(r, "checkSign")
    /\ UNCHANGED <<orderStatus, invoice, audit, links, now, versions, tokens,
                   signs>>

\* Mutant: the terms are not checked.
SignUnchecked(r) ==
    /\ At(r, "checkSign")
    /\ Goto(r, "sign")
    /\ UNCHANGED <<orderStatus, invoice, audit, links, now, versions, tokens,
                   signs>>

SignCheck(r) ==
    /\ At(r, "checkSign")
    /\ IF hasAcceptedTermsForCurrentInvoice
       THEN Goto(r, "sign")
       ELSE Finish(r)
    /\ UNCHANGED <<orderStatus, invoice, audit, links, now, versions, tokens,
                   signs>>

\* Photo ID, signature and status are one update of the row by its id.
SignInvoice(r) ==
    /\ At(r, "sign")
    /\ signs < MaxSigns
    /\ signs' = signs + 1
    /\ invoice' = [invoice EXCEPT !.status = Signed,
                                  !.signature = signs + 1,
                                  !.signedAt = now,
                                  !.signedContent = invoice.content]
    /\ req' = [req EXCEPT ![r] = Carry("attachedAudit", 0, 0, signs + 1)]
    /\ UNCHANGED <<orderStatus, audit, links, now, versions, tokens>>

SignAudit(r, step, type, next) ==
    /\ At(r, step)
    /\ createAuditEvent(type, req[r].signature)
    /\ Goto(r, next)
    /\ UNCHANGED <<orderStatus, invoice, links, now, versions, tokens, signs>>

\* Mutant: SIGNED is recorded in place of the attachment.
AttachedAuditSkipped(r) ==
    SignAudit(r, "attachedAudit", "SIGNED", "signedAudit")

AttachedAudit(r) == SignAudit(r, "attachedAudit", "ATTACHED", "signedAudit")

SignedAudit(r) == SignAudit(r, "signedAudit", "SIGNED", "completedAudit")

CompletedAudit(r) == SignAudit(r, "completedAudit", "COMPLETED", "confirm")

\* sendSignedConfirmation and the final re-read change nothing stored here.
Confirm(r) ==
    /\ At(r, "confirm")
    /\ Finish(r)
    /\ UNCHANGED <<orderStatus, invoice, audit, links, now, versions, tokens,
                   signs>>

-----------------------------------------------------------------------------
(* Environment *)

\* Any await may reject, and a server may crash: the request ends there and
\* nothing it wrote is undone.
RequestFails(r) ==
    /\ ~At(r, "idle")
    /\ Finish(r)
    /\ UNCHANGED <<orderStatus, invoice, audit, links, now, versions, tokens,
                   signs>>

\* OrdersService.update: the rest of the order is paid, or was not after all.
UpdateOrderStatus ==
    /\ orderStatus' \in {"PARTIALLY_PAID", "CONFIRMED"} \ {orderStatus}
    /\ UNCHANGED <<invoice, audit, links, req, now, versions, tokens, signs>>

Tick ==
    /\ now < MaxTime
    /\ now' = now + 1
    /\ UNCHANGED <<orderStatus, invoice, audit, links, req, versions, tokens,
                   signs>>

Staff(r) ==
    \/ BeginCreate(r) \/ CreateInvoice(r) \/ CreateAudit(r)
    \/ BeginEdit(r) \/ EditInvoice(r) \/ EditAudit(r)
    \/ BeginClone(r) \/ CloneInvoice(r) \/ CloneAudit(r)
    \/ BeginResend(r) \/ IssueCheck(r) \/ IssueToken(r)
    \/ SendEmail(r) \/ SendSms(r) \/ SentAudit(r)

Customer(r) ==
    \/ BeginView(r) \/ ViewAudit(r)
    \/ BeginAcceptTerms(r) \/ AcceptCheck(r) \/ AcceptAudit(r)
    \/ BeginSign(r) \/ SignCheck(r) \/ SignInvoice(r)
    \/ AttachedAudit(r) \/ SignedAudit(r) \/ CompletedAudit(r) \/ Confirm(r)

Next ==
    \/ \E r \in Requests : Staff(r) \/ Customer(r) \/ RequestFails(r)
    \/ UpdateOrderStatus
    \/ Tick

Spec == Init /\ [][Next]_vars

-----------------------------------------------------------------------------
(* What holds whatever the interleaving and wherever requests fail *)

\* A signed invoice carries a committed signature, and the terms had been
\* accepted at the latest when it was written (signWithToken), however
\* edits, clones, resends and other signatures overlapped it.
SignedIsBacked ==
    invoice.status = Signed =>
        /\ invoice.signature \in 1 .. signs
        /\ invoice.signedContent # 0
        /\ \E a \in audit : /\ a.type = "TERMS_ACCEPTED"
                            /\ a.at <= invoice.signedAt

\* The audit trail never claims a later stage of a signature without the
\* earlier ones: COMPLETED follows SIGNED, which follows ATTACHED, which
\* follows the signature in the row, in the times the trail is sorted by.
Precedes(earlier, e) ==
    \E a \in audit : a.type = earlier /\ a.ref = e.ref /\ a.at <= e.at

AuditTrailOrder ==
    \A e \in audit :
        /\ e.type = "ATTACHED" => e.ref \in 1 .. signs
        /\ e.type = "SIGNED" => Precedes("ATTACHED", e)
        /\ e.type = "COMPLETED" => Precedes("SIGNED", e)

\* A resend that reaches its SENT event, and so reports success to the
\* staff, has mailed its link when the customer has an e-mail address: a
\* gateway failure never passes for a delivery (the SMS path may).
SentIsTrue ==
    "email" \in Channels =>
        \A e \in audit : e.type = "SENT" => e.ref \in links

\* Two requests creating the invoice of one order leave one invoice and one
\* CREATED event (the unique index on orderId).
OneInvoicePerOrder ==
    \A d, e \in audit : d.type = "CREATED" /\ e.type = "CREATED" => d = e

\* A link that was replaced, by a resend or a clone, never opens the
\* invoice again.
NoLinkRevives ==
    \A t \in 1 .. tokens : invoice.token # t => invoice'.token # t

ReplacedLinkStaysDead == [][NoLinkRevives]_vars

-----------------------------------------------------------------------------
(* What the code's messages say and overlapping requests break *)

IsClone == invoice'.status = Created

\* "Signed invoices are read-only." (update): the text of a signed invoice
\* changes by a clone only.
SignedIsReadOnly ==
    [][invoice.status = Signed /\ ~IsClone
         => invoice'.content = invoice.content]_vars

\* "Terms & Conditions must be accepted before signing.": the text of a
\* clone, too, is signed only after an acceptance recorded for it.
ClonedTextNeedsTerms ==
    [][(signs' # signs /\ \E c \in audit : /\ c.type = "CLONED"
                                           /\ c.ref = invoice'.signedContent)
         => \E a \in audit : /\ a.type = "TERMS_ACCEPTED"
                             /\ a.ref = invoice'.signedContent]_vars

-----------------------------------------------------------------------------
(* With one request at a time the invoice keeps its contract *)

Contract == INSTANCE InvoiceContract WITH
    status <- invoice.status, content <- invoice.content,
    link <- invoice.token, signed <- invoice.signedContent

ImplementsContract == Contract!Spec

-----------------------------------------------------------------------------
(* For model checking: requests are interchangeable. *)

Symmetry == Permutations(Requests)
=============================================================================
