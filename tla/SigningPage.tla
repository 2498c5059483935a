---------------------------- MODULE SigningPage ------------------------------
(***************************************************************************)
(* InvoiceSigningPage: the customer opens a signing link, accepts the      *)
(* terms, adds signature and photo ID and submits them with a PDF of the   *)
(* invoice as the page shows it.  Meanwhile the staff edits, resends and   *)
(* clones the invoice, and the customer may use the link elsewhere too.    *)
(***************************************************************************)
EXTENDS Browser

\* The invoice as the backend stores it; texts and links are numbered.
\* accepted and edited are the texts of the last such audit events.
InvoiceRow == [status : {"SIGNATURE_REQUESTED", "SIGNED"}, content : Nat,
               edited : Nat, accepted : Nat, acceptedHere : BOOLEAN,
               link : Nat, signer : {"nobody", "page", "elsewhere"},
               document : Nat]

\* hasAcceptedTermsForCurrentInvoice, the same in page and backend.
AcceptedTerms(row) ==
    row.status = "SIGNED" \/ (row.accepted # 0 /\ row.accepted >= row.edited)

NothingLoaded == [status |-> "NONE", content |-> 0, edited |-> 0, accepted |-> 0,
              signer |-> "nobody"]

Public(row) == [f \in DOMAIN NothingLoaded |-> row[f]]

SigningInit ==
    Mount("signing",
          [token |-> 1, invoice |-> NothingLoaded,
           busy |-> {}, terms |-> FALSE, image |-> FALSE, photo |-> FALSE,
           told |-> "nothing", opened |-> FALSE],
          [status |-> "SIGNATURE_REQUESTED", content |-> 1, edited |-> 0,
           accepted |-> 0, acceptedHere |-> FALSE, link |-> 1,
           signer |-> "nobody", document |-> 0])

\* Mutant: the text that was shown first stays.
syncKeepsText(row) ==
    [page EXCEPT !.invoice = [row EXCEPT !.content =
                     IF page.invoice.content = 0 THEN @ ELSE page.invoice.content],
                 !.terms = AcceptedTerms(row),
                 !.image = row.status = "SIGNED", !.photo = row.status = "SIGNED"]

\* syncInvoiceState: the answer replaces all that was entered.
syncInvoiceState(row) ==
    [page EXCEPT !.invoice = row, !.terms = AcceptedTerms(row),
                 !.image = row.status = "SIGNED",
                 !.photo = row.status = "SIGNED"]

\* The effect of mounting.  Opening the link again is a new page.
OpenLink ==
    /\ At("signing") /\ calls = <<>> /\ page.busy = {}
    /\ ~page.opened \/ page.token # server.link
    /\ Ask([page EXCEPT !.token = server.link, !.invoice = NothingLoaded,
                        !.busy = {"loading"}, !.terms = FALSE,
                        !.image = FALSE, !.photo = FALSE,
                        !.told = "nothing", !.opened = TRUE],
           <<Call("view", server.link, 0)>>)

Opened(i) ==
    /\ At("signing")
    /\ \/ Succeeded(i, "view") /\ Continue(i, [syncInvoiceState(Body(i))
                                               EXCEPT !.busy = {}], <<>>)
       \/ Failed(i, "view") /\ Continue(i, [page EXCEPT !.busy = {}], <<>>)

\* What the page lets the customer do: nothing before it is loaded or when
\* it shows SIGNED, and the evidence only after the terms.
CanWork == At("signing") /\ page.invoice.status = "SIGNATURE_REQUESTED"

Uncheck ==
    /\ CanWork /\ page.terms /\ page.busy \subseteq {"photo"}
    /\ Become([page EXCEPT !.terms = FALSE])

CheckTerms ==
    /\ CanWork /\ ~page.terms /\ page.busy \subseteq {"photo"}
    /\ Ask([page EXCEPT !.busy = @ \union {"accepting"}],
           <<Call("accept", page.token, 0)>>)

TermsAccepted(i) ==
    /\ At("signing")
    /\ \/ /\ Succeeded(i, "accept")
          /\ Continue(i, [syncInvoiceState(Body(i)) EXCEPT
                            !.terms = TRUE, !.busy = @ \ {"accepting"}], <<>>)
       \/ /\ Failed(i, "accept")
          /\ Continue(i, [page EXCEPT !.terms = FALSE,
                                      !.busy = @ \ {"accepting"}], <<>>)

\* The modal: typed, drawn or uploaded, an image is saved or is refused.
saveSignatureFromModal ==
    /\ CanWork /\ page.terms /\ "submitting" \notin page.busy /\ ~page.image
    /\ Become([page EXCEPT !.image = TRUE])

\* A file is compressed in the background.
handlePhotoIdFile ==
    /\ CanWork /\ page.terms /\ page.busy = {} /\ ~page.photo
    /\ Become([page EXCEPT !.busy = {"photo"}])

PhotoIdReady ==
    /\ At("signing") /\ "photo" \in page.busy
    /\ \E ok \in BOOLEAN :
         Become([page EXCEPT !.photo = @ \/ ok, !.busy = @ \ {"photo"}])

RemovePhotoId ==
    /\ CanWork /\ page.terms /\ page.photo /\ page.busy = {}
    /\ Become([page EXCEPT !.photo = FALSE])

\* submitSignature: its checks, the preview and the PDF of it.
submitSignature ==
    /\ CanWork /\ page.terms /\ page.busy = {}
    /\ page.image /\ page.photo
    /\ Ask([page EXCEPT !.busy = {"submitting"}, !.told = "nothing",
                        !.invoice.status = "SIGNED"],
           <<Call("sign", [token |-> page.token,
                           document |-> page.invoice.content], page.invoice)>>)

\* Success; or a failure, after which the page looks whether the invoice is
\* signed all the same, and only else takes the preview back.
Submitted(i) ==
    /\ At("signing") /\ Succeeded(i, "sign")
    /\ Continue(i, [page EXCEPT !.invoice = Body(i),
                                !.told = "signed", !.busy = {}], <<>>)

SubmitFailed(i) ==
    /\ At("signing") /\ Failed(i, "sign")
    /\ Continue(i, page, <<Call("look", page.token, calls[i].kept)>>)

\* Mutant: any answer of the look counts as the success.
LookedTrusting(i) ==
    /\ At("signing")
    /\ \/ /\ Succeeded(i, "look")
          /\ Continue(i, [syncInvoiceState(Body(i)) EXCEPT
                            !.told = "signed", !.busy = {}], <<>>)
       \/ /\ Failed(i, "look")
          /\ Continue(i, [page EXCEPT !.invoice = calls[i].kept,
                                      !.told = "failed", !.busy = {}], <<>>)

Looked(i) ==
    /\ At("signing")
    /\ \/ /\ Succeeded(i, "look") /\ Body(i).status = "SIGNED"
          /\ Continue(i, [syncInvoiceState(Body(i)) EXCEPT
                            !.told = "signed", !.busy = {}], <<>>)
       \/ /\ Succeeded(i, "look") => Body(i).status # "SIGNED"
          /\ Succeeded(i, "look") \/ Failed(i, "look")
          /\ Continue(i, [page EXCEPT !.invoice = calls[i].kept,
                                      !.told = "failed", !.busy = {}], <<>>)

-----------------------------------------------------------------------------
(* The backend's side, one request at a time (InvoiceSigning shows what      *)
(* overlapping ones do).                                                     *)

LinkWorks(token) == token = server.link

Accepted(row, here) ==
    IF AcceptedTerms(row) THEN row
    ELSE [row EXCEPT !.accepted = row.content, !.acceptedHere = here]

Signed(row, who, document) ==
    [row EXCEPT !.status = "SIGNED", !.signer = who, !.document = document]

SigningServe(i) ==
    /\ At("signing")
    /\ \/ /\ Asked(i, "view") \/ Asked(i, "look")
          /\ IF LinkWorks(calls[i].arg)
             THEN Perform(i, server, TRUE, Public(server)) ELSE Refuse(i)
       \/ /\ Asked(i, "accept")
          /\ IF LinkWorks(calls[i].arg) /\ server.status # "SIGNED"
             THEN LET row == Accepted(server, TRUE)
                  IN  Perform(i, row, TRUE, Public(row))
             ELSE Refuse(i)
       \/ /\ Asked(i, "sign")
          /\ IF /\ LinkWorks(calls[i].arg.token)
                /\ server.status # "SIGNED" /\ AcceptedTerms(server)
             THEN LET row == Signed(server, "page", calls[i].arg.document)
                  IN  Perform(i, row, TRUE, Public(row))
             ELSE Refuse(i)

\* Staff: edit an unsigned text, send a new link, clone a signed invoice
\* with a new text and link.
Staff ==
    /\ At("signing")
    /\ \/ /\ server.status # "SIGNED" /\ server.content < MaxWrites
          /\ Elsewhere([server EXCEPT !.content = @ + 1,
                                      !.edited = server.content + 1])
       \/ /\ server.status # "SIGNED" /\ server.link < MaxWrites
          /\ Elsewhere([server EXCEPT !.link = @ + 1])
       \/ /\ server.status = "SIGNED"
          /\ server.content < MaxWrites /\ server.link < MaxWrites
          /\ Elsewhere([server EXCEPT !.status = "SIGNATURE_REQUESTED",
                                      !.content = @ + 1, !.link = @ + 1,
                                      !.signer = "nobody"])

\* The customer on another device, with the link in force.
OtherDevice ==
    /\ At("signing") /\ server.status # "SIGNED"
    /\ \/ ~AcceptedTerms(server) /\ Elsewhere(Accepted(server, FALSE))
       \/ /\ AcceptedTerms(server)
          /\ Elsewhere(Signed(server, "elsewhere", server.content))

SigningStep ==
    \/ OpenLink \/ Uncheck \/ CheckTerms \/ saveSignatureFromModal
    \/ handlePhotoIdFile \/ PhotoIdReady \/ RemovePhotoId \/ submitSignature
    \/ Staff \/ OtherDevice

SigningReturn(i) ==
    Opened(i) \/ TermsAccepted(i) \/ Submitted(i) \/ SubmitFailed(i) \/ Looked(i)

-----------------------------------------------------------------------------
(* Properties.                                                               *)
\* The PDF that is mailed as the signed invoice shows the text that was
\* signed, when the terms were accepted on this page: submitSignature prints
\* what the page holds, which the backend does not compare with its row.
SignedDocumentIsCurrent ==
    (At("signing") /\ server.signer = "page" /\ server.acceptedHere)
        => server.document = server.content

\* "Submitted Successfully" is shown only for an invoice that is or was
\* signed, and an invoice shown as signed, unless it is being submitted,
\* names the signature that the backend stored for that text.
SuccessIsTrue ==
    (At("signing") /\ "submitting" \notin page.busy) =>
        /\ page.told = "signed" => page.invoice.status = "SIGNED"
        /\ page.invoice.status = "SIGNED" =>
             /\ page.invoice.signer # "nobody"
             /\ server.content = page.invoice.content =>
                  server.signer = page.invoice.signer
=============================================================================
