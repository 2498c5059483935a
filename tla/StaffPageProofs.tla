---------------------------- MODULE StaffPageProofs ----------------------------
(***************************************************************************)
(* What the signing page, the tables and the pages of accounts, costs and  *)
(* notes claim in Workspace, for any number of calls, rows and faults.     *)
(* Each page keeps an invariant of its own: it holds when the page is      *)
(* mounted, and every step of the page, of the backend for it and of the   *)
(* network keeps it.                                                       *)
(***************************************************************************)
EXTENDS WorkspaceProofs

-----------------------------------------------------------------------------
(* The signing page.                                                        *)

ShownInvoice ==
    [status : {"NONE", "SIGNATURE_REQUESTED", "SIGNED"}, content : Nat, edited : Nat,
     accepted : Nat, signer : {"nobody", "page", "elsewhere"}]

SigningState ==
    [token : Nat, invoice : ShownInvoice,
     busy : SUBSET {"loading", "accepting", "submitting", "photo"}, terms : BOOLEAN,
     image : BOOLEAN, photo : BOOLEAN, told : {"nothing", "signed", "failed"},
     opened : BOOLEAN]

RowSound(row) ==
    /\ row \in InvoiceRow
    /\ row.accepted <= row.content /\ row.edited <= row.content /\ row.content > 0
    /\ row.status = "SIGNED" <=> row.signer # "nobody"
    /\ (row.signer = "page" /\ row.acceptedHere) => row.document = row.content

\* Whoever signs the text content through the link token, having accepted
\* the terms on this page, signs the text in the row.
Current(row, token, content) ==
    (/\ token = row.link /\ row.status # "SIGNED"
     /\ row.acceptedHere /\ AcceptedTerms(row)) => content = row.content

\* An invoice that was answered is signed when it says so.
Honest(row, invoice) ==
    /\ invoice \in ShownInvoice /\ invoice.content <= row.content
    /\ invoice.status = "SIGNED" =>
          /\ invoice.signer # "nobody"
          /\ row.content = invoice.content => row.signer = invoice.signer

SigningPageSound ==
    /\ page \in SigningState /\ page.token <= server.link
    /\ page.invoice.content <= server.content
    /\ page.terms => Current(server, page.token, page.invoice.content)
    /\ "submitting" \notin page.busy =>
          /\ Honest(server, page.invoice)
          /\ page.told = "signed" => page.invoice.status = "SIGNED"

\* The page waits for the answer to c.
Waits(c) ==
    \/ /\ c.op = "view" /\ c.arg = page.token
       /\ page.busy = {"loading"} /\ page.invoice.status = "NONE"
    \/ /\ c.op = "accept" /\ c.arg = page.token
       /\ page.busy \in {{"accepting"}, {"accepting", "photo"}} /\ ~page.terms
       /\ page.invoice.status = "SIGNATURE_REQUESTED"
    \/ /\ c.op \in {"sign", "look"} /\ page.busy = {"submitting"} /\ page.terms
       /\ page.invoice.status = "SIGNED"
       /\ c.kept = [page.invoice EXCEPT !.status = "SIGNATURE_REQUESTED"]
       /\ IF c.op = "look" THEN c.arg = page.token
          ELSE c.arg = [token |-> page.token, document |-> page.invoice.content]

SigningCallSound(c) ==
    /\ IsCall(c) /\ Waits(c) /\ page.told # "signed"
    /\ c.state = "ok" =>
          /\ c.body = <<c.body[1]>>
          /\ Honest(server, c.body[1])
          /\ Current(server, page.token, c.body[1].content)
          /\ c.op = "sign" => c.body[1].status = "SIGNED"

SigningInv ==
    At("signing") =>
        /\ RowSound(server) /\ SigningPageSound
        /\ calls = <<>> => page.busy \subseteq {"photo"}
        /\ calls # <<>> => calls = <<calls[1]>> /\ SigningCallSound(calls[1])

\* What is true of an answer or of the page stays so when the row changes.
Follows(old, new) ==
    /\ RowSound(new) /\ old.link <= new.link /\ old.content <= new.content
    /\ \A invoice : Honest(old, invoice) => Honest(new, invoice)
    /\ \A token, content \in Nat :
          token <= old.link /\ content <= old.content /\ Current(old, token, content)
              => Current(new, token, content)

LEMMA PublicInvoice ==
    ASSUME NEW row, RowSound(row)
    PROVE  /\ Public(row) \in ShownInvoice /\ Public(row).status = row.status
           /\ Public(row).content = row.content
           /\ Honest(row, Public(row))
           /\ \A token : Current(row, token, Public(row).content)
<1> DEFINE public == Public(row)
<1>1. /\ public = [f \in {"status", "content", "edited", "accepted", "signer"} |-> row[f]]
      /\ row.status \in {"SIGNATURE_REQUESTED", "SIGNED"} /\ row.content \in Nat
      /\ row.edited \in Nat /\ row.accepted \in Nat
      /\ row.signer \in {"nobody", "page", "elsewhere"}
  BY DEF Public, NothingLoaded, RowSound, InvoiceRow
<1> HIDE DEF public
<1>2. /\ public.status = row.status /\ public.content = row.content
      /\ public.edited = row.edited /\ public.accepted = row.accepted
      /\ public.signer = row.signer
  BY <1>1
<1>3. public \in ShownInvoice
  BY <1>1, <1>2 DEF ShownInvoice
<1>4. Honest(row, public)
  BY <1>1, <1>2, <1>3 DEF Honest, RowSound
<1> QED
  BY <1>2, <1>3, <1>4 DEF Current, public

LEMMA EditFollows ==
    ASSUME NEW row, RowSound(row), row.status # "SIGNED"
    PROVE  Follows(row, [row EXCEPT !.content = row.content + 1,
                                    !.edited = row.content + 1])
<1> DEFINE new == [row EXCEPT !.content = row.content + 1, !.edited = row.content + 1]
<1>0. row.content + 1 \in Nat /\ row.link + 1 \in Nat /\ row \in InvoiceRow
  BY DEF RowSound, InvoiceRow
<1>1. /\ new \in InvoiceRow /\ new.content = row.content + 1
      /\ new.edited = row.content + 1 /\ new.status = row.status
      /\ new.accepted = row.accepted /\ new.acceptedHere = row.acceptedHere
      /\ new.link = row.link /\ new.signer = row.signer /\ new.document = row.document
  BY <1>0 DEF RowSound, InvoiceRow
<1> HIDE DEF new
<1>2. /\ row.content \in Nat /\ row.link \in Nat /\ row.accepted \in Nat
      /\ row.accepted <= row.content
  BY DEF RowSound, InvoiceRow
<1>3. row.signer = "nobody" /\ RowSound(new)
  BY <1>1, <1>2 DEF RowSound
<1>4. ~AcceptedTerms(new)
  BY <1>1, <1>2 DEF AcceptedTerms
<1>5. \A invoice : Honest(row, invoice) => Honest(new, invoice)
  BY <1>1, <1>2 DEF Honest, ShownInvoice
<1> QED
  BY <1>1, <1>2, <1>3, <1>4, <1>5 DEF Follows, Current, new

LEMMA ResendFollows ==
    ASSUME NEW row, RowSound(row)
    PROVE  Follows(row, [row EXCEPT !.link = row.link + 1])
<1> DEFINE new == [row EXCEPT !.link = row.link + 1]
<1>1. /\ new \in InvoiceRow /\ new.content = row.content
      /\ new.edited = row.edited /\ new.status = row.status
      /\ new.accepted = row.accepted /\ new.acceptedHere = row.acceptedHere
      /\ new.link = row.link + 1 /\ new.signer = row.signer /\ new.document = row.document
      /\ row.content \in Nat /\ row.link \in Nat
  BY DEF RowSound, InvoiceRow
<1> HIDE DEF new
<1>2. RowSound(new)
  BY <1>1 DEF RowSound
<1>3. \A invoice : Honest(row, invoice) => Honest(new, invoice)
  BY <1>1 DEF Honest
<1> QED
  BY <1>1, <1>2, <1>3 DEF Follows, Current, new

LEMMA CloneFollows ==
    ASSUME NEW row, RowSound(row)
    PROVE  Follows(row, [row EXCEPT !.status = "SIGNATURE_REQUESTED",
                                    !.content = row.content + 1,
                                    !.link = row.link + 1, !.signer = "nobody"])
<1> DEFINE new == [row EXCEPT !.status = "SIGNATURE_REQUESTED",
                              !.content = row.content + 1,
                              !.link = row.link + 1, !.signer = "nobody"]
<1>0. row.content + 1 \in Nat /\ row.link + 1 \in Nat /\ row \in InvoiceRow
  BY DEF RowSound, InvoiceRow
<1>1. /\ new \in InvoiceRow /\ new.content = row.content + 1
      /\ new.edited = row.edited /\ new.status = "SIGNATURE_REQUESTED"
      /\ new.accepted = row.accepted
      /\ new.link = row.link + 1 /\ new.signer = "nobody"
      /\ row.content \in Nat /\ row.link \in Nat
      /\ row.edited \in Nat /\ row.accepted \in Nat
  BY <1>0 DEF RowSound, InvoiceRow
<1> HIDE DEF new
<1>2. RowSound(new)
  BY <1>1 DEF RowSound
<1>3. \A invoice : Honest(row, invoice) => Honest(new, invoice)
  BY <1>1 DEF Honest, ShownInvoice
<1> QED
  BY <1>1, <1>2, <1>3 DEF Follows, Current, new

\* What it signs was not signed, so no answer said that it was.
LEMMA SigningFollows ==
    ASSUME NEW row, RowSound(row), row.status # "SIGNED",
           NEW who \in {"page", "elsewhere"}, NEW document \in Nat,
           who = "page" /\ row.acceptedHere => document = row.content
    PROVE  Follows(row, Signed(row, who, document))
<1> DEFINE new == Signed(row, who, document)
<1>1. /\ new \in InvoiceRow /\ new.content = row.content
      /\ new.edited = row.edited /\ new.status = "SIGNED"
      /\ new.accepted = row.accepted /\ new.acceptedHere = row.acceptedHere
      /\ new.link = row.link /\ new.signer = who /\ new.document = document
      /\ row.content \in Nat /\ row.link \in Nat
  BY DEF RowSound, InvoiceRow, Signed
<1> HIDE DEF new
<1>2. row.signer = "nobody" /\ RowSound(new)
  BY <1>1 DEF RowSound
<1>3. \A invoice : Honest(row, invoice) => Honest(new, invoice)
  BY <1>1, <1>2 DEF Honest
<1> QED
  BY <1>1, <1>2, <1>3 DEF Follows, Current, new

LEMMA AcceptedRow ==
    ASSUME NEW row, RowSound(row), NEW here \in BOOLEAN
    PROVE  /\ RowSound(Accepted(row, here))
           /\ AcceptedTerms(Accepted(row, here))
           /\ Accepted(row, here).link = row.link
           /\ Accepted(row, here).content = row.content
           /\ Accepted(row, here).status = row.status
           /\ ~AcceptedTerms(row) => Accepted(row, here).acceptedHere = here
           /\ \A invoice : Honest(row, invoice) => Honest(Accepted(row, here), invoice)
<1> DEFINE new == Accepted(row, here)
<1>1. CASE AcceptedTerms(row)
  <2>1. new = row
    BY <1>1 DEF Accepted
  <2> HIDE DEF new
  <2> QED
    BY <1>1, <2>1 DEF new
<1>2. CASE ~AcceptedTerms(row)
  <2>1. /\ new \in InvoiceRow /\ new.content = row.content
        /\ new.edited = row.edited /\ new.status = row.status
        /\ new.accepted = row.content /\ new.acceptedHere = here
        /\ new.link = row.link /\ new.signer = row.signer /\ new.document = row.document
        /\ row.content \in Nat /\ row.edited \in Nat /\ row.edited <= row.content
        /\ row.content > 0
    BY <1>2 DEF RowSound, InvoiceRow, Accepted
  <2>2. row.status # "SIGNED"
    BY <1>2 DEF AcceptedTerms
  <2> HIDE DEF new
  <2>3. RowSound(new)
    BY <2>1, <2>2 DEF RowSound
  <2>4. AcceptedTerms(new)
    BY <2>1 DEF AcceptedTerms
  <2>5. \A invoice : Honest(row, invoice) => Honest(new, invoice)
    BY <2>1 DEF Honest
  <2> QED
    BY <2>1, <2>3, <2>4, <2>5 DEF new
<1> QED
  BY <1>1, <1>2

LEMMA AcceptElsewhereFollows ==
    ASSUME NEW row, RowSound(row), ~AcceptedTerms(row)
    PROVE  Follows(row, Accepted(row, FALSE))
<1> DEFINE new == Accepted(row, FALSE)
<1>1. /\ RowSound(new) /\ new.link = row.link /\ new.content = row.content
      /\ new.acceptedHere = FALSE
      /\ \A invoice : Honest(row, invoice) => Honest(new, invoice)
  BY AcceptedRow
<1>2. row.link \in Nat /\ row.content \in Nat
  BY DEF RowSound, InvoiceRow
<1> HIDE DEF new
<1>3. Follows(row, new)
  BY <1>1, <1>2 DEF Follows, Current
<1> QED
  BY <1>3 DEF new

\* Somebody else changes the row.
LEMMA RowMoves ==
    ASSUME SigningInv, At("signing"), Follows(server, server'), UNCHANGED <<page, calls>>
    PROVE  SigningInv'
<1>1. /\ RowSound(server) /\ SigningPageSound
      /\ calls # <<>> => SigningCallSound(calls[1])
  BY DEF SigningInv
<1>2. /\ server.link \in Nat /\ server.content \in Nat /\ server'.link \in Nat
      /\ server'.content \in Nat /\ page.token \in Nat /\ page.token <= server.link
      /\ page.invoice.content \in Nat /\ page.invoice.content <= server.content
  BY <1>1 DEF Follows, RowSound, InvoiceRow, SigningPageSound, SigningState, ShownInvoice
<1>3. SigningPageSound'
  BY <1>1, <1>2 DEF SigningPageSound, Follows
<1>4. ASSUME calls # <<>> PROVE SigningCallSound(calls[1])'
  <2> DEFINE c == calls[1]
  <2>1. SigningCallSound(c) /\ Waits(c)' = Waits(c)
    BY <1>1, <1>4 DEF SigningCallSound, Waits
  <2>2. c.state = "ok" => /\ Honest(server', c.body[1])
                          /\ Current(server', page.token, c.body[1].content)
    <3>1. c.state = "ok" => c.body[1].content \in Nat /\ c.body[1].content <= server.content
      BY <2>1 DEF SigningCallSound, Honest, ShownInvoice
    <3> QED
      BY <1>2, <2>1, <3>1 DEF SigningCallSound, Follows
  <2> QED
    BY <2>1, <2>2 DEF SigningCallSound
<1> QED
  BY <1>1, <1>3, <1>4 DEF SigningInv, Follows

LEMMA StaffSound ==
    ASSUME SigningInv, Staff
    PROVE  SigningInv'
<1>1. At("signing") /\ RowSound(server) /\ UNCHANGED <<page, calls>>
  BY DEF Staff, Elsewhere, SigningInv
<1>2. Follows(server, server')
  BY <1>1, EditFollows, ResendFollows, CloneFollows DEF Staff, Elsewhere
<1> QED
  BY <1>1, <1>2, RowMoves

LEMMA OtherDeviceSound ==
    ASSUME SigningInv, OtherDevice
    PROVE  SigningInv'
<1>1. At("signing") /\ RowSound(server) /\ UNCHANGED <<page, calls>> /\ server.content \in Nat
  BY DEF OtherDevice, Elsewhere, SigningInv, RowSound, InvoiceRow
<1>2. \/ ~AcceptedTerms(server) /\ server' = Accepted(server, FALSE)
      \/ server.status # "SIGNED" /\ server' = Signed(server, "elsewhere", server.content)
  BY DEF OtherDevice, Elsewhere
<1>3. Follows(server, server')
  BY <1>1, <1>2, AcceptElsewhereFollows, SigningFollows
<1> QED
  BY <1>1, <1>3, RowMoves

\* What the customer does between the calls.
LEMMA PageMoves ==
    ASSUME SigningInv, At("signing"), UNCHANGED <<server, calls>>,
           page' \in SigningState, page'.token = page.token, page'.told = page.told,
           page'.invoice = page.invoice, page'.terms => page.terms,
           calls = <<>> => page.busy \subseteq {"photo"} /\ page'.busy \subseteq {"photo"},
           "submitting" \in page'.busy <=> "submitting" \in page.busy,
           calls # <<>> => Waits(calls[1])'
    PROVE  SigningInv'
<1>1. /\ RowSound(server) /\ SigningPageSound
      /\ calls # <<>> => calls = <<calls[1]>> /\ SigningCallSound(calls[1])
  BY DEF SigningInv
<1>2. SigningPageSound'
  BY <1>1 DEF SigningPageSound
<1>3. calls # <<>> => SigningCallSound(calls[1])'
  BY <1>1 DEF SigningCallSound
<1> QED
  BY <1>1, <1>2, <1>3 DEF SigningInv

LEMMA EnteringSound ==
    ASSUME SigningInv,
           \/ Uncheck \/ saveSignatureFromModal \/ handlePhotoIdFile \/ PhotoIdReady
           \/ RemovePhotoId
    PROVE  SigningInv'
<1>1. /\ At("signing") /\ UNCHANGED <<server, calls>> /\ page \in SigningState
      /\ calls = <<>> => page.busy \subseteq {"photo"}
      /\ calls # <<>> => Waits(calls[1])
  BY DEF SigningInv, SigningPageSound, SigningCallSound, Uncheck, saveSignatureFromModal,
         handlePhotoIdFile, PhotoIdReady, RemovePhotoId, Become, CanWork
<1> DEFINE Working == page.terms /\ page.invoice.status = "SIGNATURE_REQUESTED"
           Entered ==
             /\ page' \in SigningState /\ page'.token = page.token
             /\ page'.told = page.told /\ page'.invoice = page.invoice
             /\ \/ page'.busy = page.busy
                \/ page'.busy = page.busy \ {"photo"}
                \/ Working /\ page.busy = {} /\ page'.busy = {"photo"}
             /\ \/ page'.terms = page.terms
                \/ Working /\ ~page'.terms
<1>2. Entered
  <2>1. CASE Uncheck
    BY <1>1, <2>1 DEF SigningState, Uncheck, Become, CanWork
  <2>2. CASE saveSignatureFromModal
    BY <1>1, <2>2 DEF SigningState, saveSignatureFromModal, Become, CanWork
  <2>3. CASE handlePhotoIdFile
    BY <1>1, <2>3 DEF SigningState, handlePhotoIdFile, Become, CanWork
  <2>4. CASE PhotoIdReady
    <3>1. PICK photo \in BOOLEAN :
             page' = [page EXCEPT !.photo = photo, !.busy = page.busy \ {"photo"}]
      <4>1. PICK ok \in BOOLEAN :
               page' = [page EXCEPT !.photo = page.photo \/ ok,
                                    !.busy = page.busy \ {"photo"}]
        BY <2>4 DEF PhotoIdReady, Become
      <4>2. (page.photo \/ ok) \in BOOLEAN
        OBVIOUS
      <4> QED
        BY <4>1, <4>2
    <3> QED
      BY <1>1, <3>1 DEF SigningState
  <2>5. CASE RemovePhotoId
    BY <1>1, <2>5 DEF SigningState, RemovePhotoId, Become, CanWork
  <2> QED
    BY <2>1, <2>2, <2>3, <2>4, <2>5
<1>3. calls # <<>> => Waits(calls[1])'
  <2> SUFFICES ASSUME calls # <<>> PROVE Waits(calls[1])'
    OBVIOUS
  <2> DEFINE c == calls[1]
  <2>1. Waits(c) /\ c' = c
    BY <1>1
  <2> HIDE DEF c
  <2>2. page'.busy = page.busy \/ page'.busy = page.busy \ {"photo"}
    BY <1>2, <2>1 DEF Waits
  <2>3. page'.terms = page.terms
    BY <1>2, <2>1 DEF Waits
  <2>4. Waits(c)'
    BY <1>2, <2>1, <2>2, <2>3 DEF Waits
  <2> QED
    BY <2>4 DEF c
<1>4. calls = <<>> => page'.busy \subseteq {"photo"}
  BY <1>1, <1>2
<1>5. "submitting" \in page'.busy <=> "submitting" \in page.busy
  BY <1>1, <1>2
<1> QED
  BY <1>1, <1>2, <1>3, <1>4, <1>5, PageMoves

\* A call is made while none is under way.
LEMMA CallMade ==
    ASSUME SigningInv, At("signing"), calls = <<>>, NEW op, NEW arg, NEW kept,
           calls' = <<Call(op, arg, kept)>>, server' = server,
           SigningPageSound', Waits(Call(op, arg, kept))', page'.told # "signed"
    PROVE  SigningInv'
<1> DEFINE c == Call(op, arg, kept)
<1>1. calls' # <<>> /\ calls'[1] = c /\ calls' = <<calls'[1]>>
  OBVIOUS
<1>2. IsCall(c) /\ c.state # "ok"
  BY DEF Call, IsCall
<1> HIDE DEF c
<1>3. SigningCallSound(calls[1])'
  BY <1>1, <1>2 DEF SigningCallSound, c
<1> QED
  BY <1>1, <1>3 DEF SigningInv

LEMMA Asking ==
    ASSUME NEW p, NEW c, calls = <<>>, Ask(p, <<c>>)
    PROVE  page' = p /\ calls' = <<c>> /\ server' = server
<1>1. <<>> \o <<c>> = <<c>>
  OBVIOUS
<1> QED
  BY <1>1 DEF Ask

LEMMA NothingHonest ==
    ASSUME RowSound(server)
    PROVE  /\ NothingLoaded \in ShownInvoice /\ NothingLoaded.status = "NONE"
           /\ NothingLoaded.content = 0 /\ Honest(server, NothingLoaded)
  BY DEF NothingLoaded, ShownInvoice, Honest, RowSound, InvoiceRow

LEMMA OpenLinkSound ==
    ASSUME SigningInv, OpenLink
    PROVE  SigningInv'
<1> DEFINE p == [page EXCEPT !.token = server.link, !.invoice = NothingLoaded,
                             !.busy = {"loading"}, !.terms = FALSE,
                             !.image = FALSE, !.photo = FALSE,
                             !.told = "nothing", !.opened = TRUE]
<1>1. /\ At("signing") /\ calls = <<>> /\ RowSound(server) /\ page \in SigningState
      /\ server.link \in Nat /\ server.content \in Nat
  BY DEF OpenLink, SigningInv, SigningPageSound, RowSound, InvoiceRow
<1>2. page' = p /\ calls' = <<Call("view", server.link, 0)>> /\ server' = server
  BY <1>1, Asking DEF OpenLink
<1>3. /\ p \in SigningState /\ p.token = server.link /\ p.busy = {"loading"}
      /\ p.invoice = NothingLoaded /\ p.terms = FALSE /\ p.told = "nothing"
  BY <1>1, NothingHonest DEF SigningState
<1> HIDE DEF p
<1>4. SigningPageSound'
  BY <1>1, <1>2, <1>3, NothingHonest DEF SigningPageSound
<1>5. PICK link : link = server.link
  OBVIOUS
<1>6. Waits(Call("view", link, 0))'
  BY <1>1, <1>2, <1>3, <1>5, NothingHonest DEF Waits, Call
<1> QED
  BY <1>1, <1>2, <1>3, <1>4, <1>5, <1>6, CallMade

LEMMA CheckTermsSound ==
    ASSUME SigningInv, CheckTerms
    PROVE  SigningInv'
<1> DEFINE p == [page EXCEPT !.busy = page.busy \union {"accepting"}]
<1>1. /\ At("signing") /\ RowSound(server) /\ SigningPageSound /\ page \in SigningState
      /\ page.invoice.status = "SIGNATURE_REQUESTED" /\ ~page.terms
      /\ page.busy \subseteq {"photo"}
  BY DEF CheckTerms, CanWork, SigningInv, SigningPageSound
<1>2. calls = <<>>
  <2>1. "accepting" \notin page.busy /\ "submitting" \notin page.busy
    BY <1>1
  <2>2. \A c : ~Waits(c)
    BY <1>1, <2>1 DEF Waits
  <2> QED
    BY <1>1, <2>2 DEF SigningInv, SigningCallSound
<1>3. page' = p /\ calls' = <<Call("accept", page.token, 0)>> /\ server' = server
  BY <1>2, Asking DEF CheckTerms
<1>4. /\ p \in SigningState /\ p.token = page.token /\ p.invoice = page.invoice
      /\ p.busy = page.busy \union {"accepting"} /\ p.terms = page.terms
      /\ p.told = page.told
  BY <1>1 DEF SigningState
<1> HIDE DEF p
<1>5. SigningPageSound'
  BY <1>1, <1>3, <1>4 DEF SigningPageSound
<1>6. p.busy \in {{"accepting"}, {"accepting", "photo"}}
  BY <1>1, <1>4
<1>7. PICK token : token = page.token
  OBVIOUS
<1>8. Waits(Call("accept", token, 0))'
  BY <1>1, <1>3, <1>4, <1>6, <1>7 DEF Waits, Call
<1>9. page.told # "signed"
  BY <1>1 DEF SigningPageSound
<1> QED
  BY <1>1, <1>2, <1>3, <1>4, <1>5, <1>7, <1>8, <1>9, CallMade

\* The preview, and what is put back when it was wrong.
LEMMA Preview ==
    ASSUME NEW invoice \in ShownInvoice, invoice.status = "SIGNATURE_REQUESTED",
           NEW signed, signed = [invoice EXCEPT !.status = "SIGNED"]
    PROVE  /\ signed \in ShownInvoice /\ signed.status = "SIGNED"
           /\ signed.content = invoice.content
           /\ invoice = [signed EXCEPT !.status = "SIGNATURE_REQUESTED"]
  BY DEF ShownInvoice

LEMMA submitSignatureSound ==
    ASSUME SigningInv, submitSignature
    PROVE  SigningInv'
<1>1. /\ At("signing") /\ RowSound(server) /\ SigningPageSound /\ page \in SigningState
      /\ page.invoice.status = "SIGNATURE_REQUESTED" /\ page.terms
      /\ page.invoice \in ShownInvoice /\ page.busy = {}
  BY DEF submitSignature, CanWork, SigningInv, SigningPageSound, SigningState
<1>2. calls = <<>>
  BY <1>1 DEF SigningInv, SigningCallSound, Waits
<1>3. PICK invoice : invoice = page.invoice
  OBVIOUS
<1>4. PICK signed : signed = [invoice EXCEPT !.status = "SIGNED"]
  OBVIOUS
<1>5. /\ signed \in ShownInvoice /\ signed.status = "SIGNED"
      /\ signed.content = invoice.content
      /\ invoice = [signed EXCEPT !.status = "SIGNATURE_REQUESTED"]
  <2>1. invoice \in ShownInvoice /\ invoice.status = "SIGNATURE_REQUESTED"
    BY <1>1, <1>3
  <2> QED
    BY <1>4, <2>1, Preview, Zenon
<1>6. PICK arg : arg = [token |-> page.token, document |-> page.invoice.content]
  OBVIOUS
<1> DEFINE p == [page EXCEPT !.busy = {"submitting"}, !.told = "nothing",
                             !.invoice = signed]
<1>7. page' = p /\ calls' = <<Call("sign", arg, invoice)>> /\ server' = server
  <2>1. Ask(p, <<Call("sign", arg, invoice)>>)
    BY <1>3, <1>4, <1>6 DEF submitSignature
  <2> QED
    BY <1>2, <2>1, Asking
<1>8. /\ p \in SigningState /\ p.token = page.token /\ p.invoice = signed
      /\ p.busy = {"submitting"} /\ p.terms = page.terms /\ p.told = "nothing"
  BY <1>1, <1>5 DEF SigningState
<1> HIDE DEF p
<1>9. SigningPageSound'
  BY <1>1, <1>3, <1>5, <1>7, <1>8 DEF SigningPageSound
<1>10. Waits(Call("sign", arg, invoice))'
  BY <1>1, <1>3, <1>5, <1>6, <1>7, <1>8 DEF Waits, Call
<1> QED
  BY <1>1, <1>2, <1>7, <1>8, <1>9, <1>10, CallMade

\* The backend performs the call and leaves the row s, with the same text
\* and link.
LEMMA Served ==
    ASSUME SigningInv, At("signing"), NEW s, NEW ok \in BOOLEAN, NEW b, calls # <<>>,
           Perform(1, s, ok, b),
           RowSound(s), s.link = server.link, s.content = server.content,
           \A invoice : Honest(server, invoice) => Honest(s, invoice),
           page.terms => Current(s, page.token, page.invoice.content),
           ok => /\ Honest(s, b) /\ Current(s, page.token, b.content)
                 /\ calls[1].op = "sign" => b.status = "SIGNED"
    PROVE  SigningInv'
<1>0. PICK c : c = calls[1]
  OBVIOUS
<1>1. /\ calls = <<c>> /\ SigningCallSound(c) /\ SigningPageSound
  BY <1>0 DEF SigningInv
<1>2. PICK state : state = IF ok THEN "ok" ELSE "failed"
  OBVIOUS
<1>3. PICK body : body = IF ok THEN <<b>> ELSE <<>>
  OBVIOUS
<1>4. PICK d : d = [c EXCEPT !.state = state, !.body = body]
  OBVIOUS
<1>5. calls' = <<d>> /\ server' = s /\ page' = page
  BY <1>1, <1>2, <1>3, <1>4 DEF SigningCallSound, IsCall, Perform
<1>6. IsCall(c)
  BY <1>1 DEF SigningCallSound
<1>7. /\ d.op = c.op /\ d.arg = c.arg /\ d.kept = c.kept /\ IsCall(d)
      /\ d.state = state /\ d.body = body
  <2>1. PICK op, arg, kept, old, answer :
           c = [op |-> op, arg |-> arg, kept |-> kept, state |-> old, body |-> answer]
    BY <1>6 DEF IsCall
  <2>2. d = [op |-> op, arg |-> arg, kept |-> kept, state |-> state, body |-> body]
    BY <1>4, <2>1
  <2> QED
    BY <2>1, <2>2 DEF IsCall
<1>8. SigningPageSound'
  BY <1>1, <1>5 DEF SigningPageSound
<1>9. SigningCallSound(d)'
  <2>1. Waits(d)'
    BY <1>1, <1>5, <1>7 DEF SigningCallSound, Waits
  <2>2. d.state = "ok" => ok /\ d.body[1] = b /\ d.body = <<d.body[1]>>
    BY <1>2, <1>3, <1>7
  <2> QED
    BY <1>0, <1>1, <1>5, <1>7, <2>1, <2>2 DEF SigningCallSound
<1>10. calls' # <<>> /\ calls'[1] = d
  BY <1>5
<1> QED
  BY <1>5, <1>8, <1>9, <1>10 DEF SigningInv

LEMMA SigningServeSound ==
    ASSUME SigningInv, NEW i \in DOMAIN calls, SigningServe(i)
    PROVE  SigningInv'
<1> PICK c : c = calls[1]
  OBVIOUS
<1>1. /\ At("signing") /\ RowSound(server) /\ SigningPageSound
      /\ calls = <<c>> /\ SigningCallSound(c) /\ calls # <<>>
  BY DEF SigningServe, SigningInv
<1>2. i = 1
  BY <1>1
<1>3. \A invoice : Honest(server, invoice) => Honest(server, invoice)
  OBVIOUS
<1>4. page.terms => Current(server, page.token, page.invoice.content)
  BY <1>1 DEF SigningPageSound
<1>5. CASE Refuse(1)
  BY <1>1, <1>3, <1>4, <1>5, Served DEF Refuse
<1>6. CASE c.op \in {"view", "look"} /\ Perform(1, server, TRUE, Public(server))
  <2>1. /\ Honest(server, Public(server))
        /\ Current(server, page.token, Public(server).content)
    BY <1>1, PublicInvoice
  <2>2. calls[1].op # "sign"
    BY <1>6
  <2>3. PICK b : b = Public(server)
    OBVIOUS
  <2> QED
    BY <1>1, <1>3, <1>4, <1>6, <2>1, <2>2, <2>3, Served
<1>7. CASE /\ c.op = "accept" /\ server.status # "SIGNED"
           /\ Perform(1, Accepted(server, TRUE), TRUE, Public(Accepted(server, TRUE)))
  <2>1. PICK s : s = Accepted(server, TRUE)
    OBVIOUS
  <2>2. /\ RowSound(s) /\ s.link = server.link /\ s.content = server.content
        /\ \A invoice : Honest(server, invoice) => Honest(s, invoice)
    BY <1>1, <2>1, AcceptedRow
  <2>3. PICK b : b = Public(s)
    OBVIOUS
  <2>4. Honest(s, b) /\ Current(s, page.token, b.content)
    BY <2>2, <2>3, PublicInvoice
  <2>5. ~page.terms /\ calls[1].op # "sign"
    BY <1>1, <1>7 DEF SigningCallSound, Waits
  <2>6. Perform(1, s, TRUE, b)
    BY <1>7, <2>1, <2>3
  <2> QED
    BY <1>1, <2>2, <2>4, <2>5, <2>6, Served
<1>8. CASE /\ c.op = "sign" /\ c.arg.token = server.link
           /\ server.status # "SIGNED" /\ AcceptedTerms(server)
           /\ LET s == Signed(server, "page", c.arg.document)
              IN  Perform(1, s, TRUE, Public(s))
  <2>1. PICK s : s = Signed(server, "page", c.arg.document)
    OBVIOUS
  <2>2. /\ page.terms /\ c.arg.token = page.token /\ c.arg.document = page.invoice.content
    BY <1>1, <1>8 DEF SigningCallSound, Waits
  <2>3. page.invoice.content \in Nat
    BY <1>1 DEF SigningPageSound, SigningState, ShownInvoice
  <2>4. server.acceptedHere => c.arg.document = server.content
    BY <1>1, <1>8, <2>2 DEF SigningPageSound, Current
  <2>5. Follows(server, s)
    BY <1>1, <1>8, <2>1, <2>2, <2>3, <2>4, SigningFollows
  <2>6. s.link = server.link /\ s.content = server.content /\ s.status = "SIGNED"
    BY <1>1, <2>1 DEF Signed, RowSound, InvoiceRow
  <2>7. PICK b : b = Public(s)
    OBVIOUS
  <2>8. Honest(s, b) /\ Current(s, page.token, b.content) /\ b.status = "SIGNED"
    BY <2>5, <2>6, <2>7, PublicInvoice DEF Follows
  <2>9. Current(s, page.token, page.invoice.content)
    BY <2>6 DEF Current
  <2>10. Perform(1, s, TRUE, b)
    BY <1>8, <2>1, <2>7
  <2> QED
    BY <1>1, <2>5, <2>6, <2>8, <2>9, <2>10, Served DEF Follows
<1> QED
  BY <1>1, <1>2, <1>5, <1>6, <1>7, <1>8 DEF SigningServe, Asked, LinkWorks

LEMMA SigningLoseSound ==
    ASSUME SigningInv, At("signing"), NEW i \in DOMAIN calls, LoseCall(i)
    PROVE  SigningInv'
<1>0. PICK c : c = calls[1]
  OBVIOUS
<1>1. calls = <<c>> /\ SigningCallSound(c) /\ SigningPageSound /\ RowSound(server)
  BY <1>0 DEF SigningInv
<1>2. i = 1
  BY <1>1
<1>3. PICK d : d = [c EXCEPT !.state = "failed", !.body = <<>>]
  OBVIOUS
<1>4. calls' = <<d>> /\ UNCHANGED <<page, server>>
  BY <1>1, <1>2, <1>3, OnlyLost DEF SigningCallSound
<1>5. d.op = c.op /\ d.arg = c.arg /\ d.kept = c.kept /\ IsCall(d) /\ d.state = "failed"
  <2>1. PICK op, arg, kept, old, answer :
           c = [op |-> op, arg |-> arg, kept |-> kept, state |-> old, body |-> answer]
    BY <1>1 DEF IsCall, SigningCallSound
  <2>2. d = [op |-> op, arg |-> arg, kept |-> kept, state |-> "failed", body |-> <<>>]
    BY <1>3, <2>1
  <2> QED
    BY <2>1, <2>2 DEF IsCall
<1>6. SigningPageSound'
  BY <1>1, <1>4 DEF SigningPageSound
<1>7. SigningCallSound(d)'
  BY <1>1, <1>4, <1>5 DEF SigningCallSound, Waits
<1>8. calls' # <<>> /\ calls'[1] = d
  BY <1>4
<1> QED
  BY <1>1, <1>4, <1>6, <1>7, <1>8 DEF SigningInv

LEMMA Settles ==
    ASSUME SigningInv, At("signing"), NEW c, calls = <<c>>, NEW p, Continue(1, p, <<>>),
           p \in SigningState, p.token = page.token, p.busy \subseteq {"photo"},
           Honest(server, p.invoice),
           p.terms => Current(server, p.token, p.invoice.content),
           p.told = "signed" => p.invoice.status = "SIGNED"
    PROVE  SigningInv'
<1>1. page' = p /\ calls' = <<>> /\ server' = server
  <2>1. RemoveAt(calls, 1) = <<>>
    BY OnlyReturn
  <2>2. <<>> \o <<>> = <<>>
    OBVIOUS
  <2> QED
    BY <2>1, <2>2 DEF Continue
<1>2. RowSound(server) /\ page.token <= server.link
  BY DEF SigningInv, SigningPageSound
<1>3. SigningPageSound'
  BY <1>1, <1>2 DEF SigningPageSound, Honest
<1> QED
  BY <1>1, <1>2, <1>3 DEF SigningInv

\* What the continuation of the call c knows.
LEMMA ReturnKnows ==
    ASSUME SigningInv, At("signing"), NEW i \in DOMAIN calls
    PROVE  /\ i = 1 /\ calls = <<calls[1]>> /\ Waits(calls[1])
           /\ RowSound(server) /\ SigningPageSound /\ page \in SigningState
           /\ page.invoice \in ShownInvoice /\ page.told # "signed"
           /\ calls[1].state = "ok" =>
                 /\ Body(1) \in ShownInvoice /\ Honest(server, Body(1))
                 /\ Current(server, page.token, Body(1).content)
                 /\ calls[1].op = "sign" => Body(1).status = "SIGNED"
<1>1. /\ i = 1 /\ calls = <<calls[1]>> /\ SigningCallSound(calls[1])
      /\ RowSound(server) /\ SigningPageSound
  BY DEF SigningInv
<1>2. calls[1].state = "ok" => Body(1) = calls[1].body[1]
  BY <1>1 DEF SigningCallSound, Body
<1> QED
  BY <1>1, <1>2 DEF SigningCallSound, SigningPageSound, SigningState, Honest

LEMMA Synced ==
    ASSUME page \in SigningState, NEW row \in ShownInvoice
    PROVE  LET p == syncInvoiceState(row)
           IN  /\ p \in SigningState /\ p.token = page.token /\ p.invoice = row
               /\ p.told = page.told /\ p.busy = page.busy
<1>1. PICK terms \in BOOLEAN : terms = AcceptedTerms(row)
  BY DEF AcceptedTerms
<1>2. PICK signed \in BOOLEAN : signed = (row.status = "SIGNED")
  OBVIOUS
<1>3. syncInvoiceState(row) = [page EXCEPT !.invoice = row, !.terms = terms,
                                           !.image = signed, !.photo = signed]
  BY <1>1, <1>2 DEF syncInvoiceState
<1> QED
  BY ZenonT(60), <1>3 DEF SigningState

LEMMA OpenedSound ==
    ASSUME SigningInv, NEW i \in DOMAIN calls, Opened(i)
    PROVE  SigningInv'
<1>1. At("signing") /\ i = 1 /\ calls[1].op = "view"
  BY ReturnKnows DEF Opened, Succeeded, Failed
<1>2. page.busy = {"loading"} /\ page.invoice.status = "NONE" /\ page.told # "signed"
  BY <1>1, ReturnKnows DEF Waits
<1>3. CASE calls[1].state = "ok"
  <2> DEFINE q == syncInvoiceState(Body(1))
             p == [q EXCEPT !.busy = {}]
  <2>1. q \in SigningState /\ q.token = page.token /\ q.invoice = Body(1) /\ q.told = page.told
    BY <1>1, <1>3, ReturnKnows, Synced
  <2>2. Continue(1, p, <<>>)
    BY <1>1, <1>3 DEF Opened, Succeeded, Failed
  <2> HIDE DEF q
  <2>3. /\ p \in SigningState /\ p.token = q.token /\ p.invoice = q.invoice
        /\ p.told = q.told /\ p.busy = {}
    BY <2>1 DEF SigningState
  <2> HIDE DEF p
  <2> QED
    BY <1>1, <1>2, <1>3, <2>1, <2>2, <2>3, ReturnKnows, Settles
<1>4. CASE calls[1].state # "ok"
  <2> DEFINE p == [page EXCEPT !.busy = {}]
  <2>1. Continue(1, p, <<>>)
    BY <1>1, <1>4 DEF Opened, Succeeded, Failed
  <2>2. page \in SigningState /\ SigningPageSound
    BY <1>1, ReturnKnows
  <2>3. /\ p \in SigningState /\ p.token = page.token /\ p.invoice = page.invoice
        /\ p.told = page.told /\ p.busy = {} /\ p.terms = page.terms
    BY <2>2 DEF SigningState
  <2> HIDE DEF p
  <2>4. Honest(server, p.invoice) /\ (p.terms => Current(server, p.token, p.invoice.content))
    BY <1>2, <2>2, <2>3 DEF SigningPageSound
  <2> QED
    BY <1>1, <1>2, <2>1, <2>3, <2>4, ReturnKnows, Settles
<1> QED
  BY <1>3, <1>4

LEMMA TermsAcceptedSound ==
    ASSUME SigningInv, NEW i \in DOMAIN calls, TermsAccepted(i)
    PROVE  SigningInv'
<1>1. At("signing") /\ i = 1 /\ calls[1].op = "accept" /\ calls = <<calls[1]>>
  BY ReturnKnows DEF TermsAccepted, Succeeded, Failed
<1>2. page.busy \in {{"accepting"}, {"accepting", "photo"}} /\ page.told # "signed"
  BY <1>1, ReturnKnows DEF Waits
<1>3. page.busy \ {"accepting"} \subseteq {"photo"} /\ "submitting" \notin page.busy
  BY <1>2
<1>4. CASE calls[1].state = "ok"
  <2> DEFINE q == syncInvoiceState(Body(1))
             p == [q EXCEPT !.terms = TRUE, !.busy = q.busy \ {"accepting"}]
  <2>1. /\ q \in SigningState /\ q.token = page.token /\ q.invoice = Body(1)
        /\ q.told = page.told /\ q.busy = page.busy
    BY <1>1, <1>4, ReturnKnows, Synced
  <2>2. Continue(1, p, <<>>)
    BY <1>1, <1>4 DEF TermsAccepted, Succeeded, Failed
  <2> HIDE DEF q
  <2>3. /\ p \in SigningState /\ p.token = q.token /\ p.invoice = q.invoice
        /\ p.told = q.told /\ p.busy = q.busy \ {"accepting"}
    BY <2>1 DEF SigningState
  <2> HIDE DEF p
  <2> QED
    BY <1>1, <1>2, <1>3, <1>4, <2>1, <2>2, <2>3, ReturnKnows, Settles
<1>5. CASE calls[1].state # "ok"
  <2> DEFINE p == [page EXCEPT !.terms = FALSE, !.busy = page.busy \ {"accepting"}]
  <2>1. Continue(1, p, <<>>)
    BY <1>1, <1>5 DEF TermsAccepted, Succeeded, Failed
  <2>2. page \in SigningState /\ SigningPageSound
    BY <1>1, ReturnKnows
  <2>3. /\ p \in SigningState /\ p.token = page.token /\ p.invoice = page.invoice
        /\ p.told = page.told /\ p.busy = page.busy \ {"accepting"} /\ ~p.terms
    BY <2>2 DEF SigningState
  <2> HIDE DEF p
  <2>4. Honest(server, p.invoice)
    BY <1>3, <2>2, <2>3 DEF SigningPageSound
  <2> QED
    BY <1>1, <1>2, <1>3, <2>1, <2>3, <2>4, ReturnKnows, Settles
<1> QED
  BY <1>4, <1>5

LEMMA SubmittedSound ==
    ASSUME SigningInv, NEW i \in DOMAIN calls, Submitted(i)
    PROVE  SigningInv'
<1>1. /\ At("signing") /\ i = 1 /\ calls[1].op = "sign" /\ calls = <<calls[1]>>
      /\ calls[1].state = "ok"
  BY ReturnKnows DEF Submitted, Succeeded
<1> DEFINE p == [page EXCEPT !.invoice = Body(1), !.told = "signed", !.busy = {}]
<1>2. Continue(1, p, <<>>)
  BY <1>1 DEF Submitted
<1>3. /\ p \in SigningState /\ p.token = page.token /\ p.invoice = Body(1)
      /\ p.busy = {} /\ p.told = "signed"
  BY <1>1, ReturnKnows DEF SigningState
<1> HIDE DEF p
<1> QED
  BY <1>1, <1>2, <1>3, ReturnKnows, Settles

LEMMA SubmitFailedSound ==
    ASSUME SigningInv, NEW i \in DOMAIN calls, SubmitFailed(i)
    PROVE  SigningInv'
<1>1. /\ At("signing") /\ i = 1 /\ calls[1].op = "sign" /\ calls = <<calls[1]>>
  BY ReturnKnows DEF SubmitFailed, Failed
<1>2. /\ SigningPageSound /\ RowSound(server) /\ Waits(calls[1]) /\ page.told # "signed"
  BY <1>1, ReturnKnows
<1>3. PICK token, kept : token = page.token /\ kept = calls[1].kept
  OBVIOUS
<1>4. page' = page /\ server' = server /\ calls' = <<Call("look", token, kept)>>
  <2>1. RemoveAt(calls, 1) = <<>>
    BY <1>1, OnlyReturn
  <2>2. <<>> \o <<Call("look", token, kept)>> = <<Call("look", token, kept)>>
    OBVIOUS
  <2> QED
    BY <1>1, <1>3, <2>1, <2>2 DEF SubmitFailed, Continue
<1>5. SigningPageSound'
  BY <1>2, <1>4 DEF SigningPageSound
<1>6. Waits(Call("look", token, kept))'
  BY <1>1, <1>2, <1>3, <1>4 DEF Waits, Call
<1>7. PICK c : c = Call("look", token, kept)
  OBVIOUS
<1>8. IsCall(c) /\ c.state # "ok"
  BY <1>7 DEF Call, IsCall
<1>9. SigningCallSound(c)'
  BY <1>2, <1>4, <1>6, <1>7, <1>8 DEF SigningCallSound
<1>10. calls' = <<c>> /\ calls'[1] = c
  BY <1>4, <1>7
<1> QED
  BY <1>2, <1>4, <1>5, <1>9, <1>10 DEF SigningInv

LEMMA LookedSound ==
    ASSUME SigningInv, NEW i \in DOMAIN calls, Looked(i)
    PROVE  SigningInv'
<1>1. /\ At("signing") /\ i = 1 /\ calls[1].op = "look" /\ calls = <<calls[1]>>
  BY ReturnKnows DEF Looked, Succeeded, Failed
<1>2. CASE calls[1].state = "ok" /\ Body(1).status = "SIGNED"
  <2> DEFINE q == syncInvoiceState(Body(1))
             p == [q EXCEPT !.told = "signed", !.busy = {}]
  <2>1. q \in SigningState /\ q.token = page.token /\ q.invoice = Body(1)
    BY <1>1, <1>2, ReturnKnows, Synced
  <2>2. Continue(1, p, <<>>)
    BY <1>1, <1>2 DEF Looked, Succeeded, Failed
  <2> HIDE DEF q
  <2>3. /\ p \in SigningState /\ p.token = q.token /\ p.invoice = q.invoice
        /\ p.told = "signed" /\ p.busy = {}
    BY <2>1 DEF SigningState
  <2> HIDE DEF p
  <2> QED
    BY <1>1, <1>2, <2>1, <2>2, <2>3, ReturnKnows, Settles
<1>3. CASE ~(calls[1].state = "ok" /\ Body(1).status = "SIGNED")
  <2>1. PICK kept : kept = calls[1].kept
    OBVIOUS
  <2> DEFINE p == [page EXCEPT !.invoice = kept, !.told = "failed", !.busy = {}]
  <2>2. Continue(1, p, <<>>)
    BY <1>1, <1>3, <2>1 DEF Looked, Succeeded, Failed
  <2>3. /\ page \in SigningState /\ SigningPageSound /\ RowSound(server)
        /\ page.invoice \in ShownInvoice
        /\ kept = [page.invoice EXCEPT !.status = "SIGNATURE_REQUESTED"]
    BY <1>1, <2>1, ReturnKnows DEF Waits
  <2>4. /\ kept \in ShownInvoice /\ kept.status = "SIGNATURE_REQUESTED"
        /\ kept.content = page.invoice.content
    BY <2>3 DEF ShownInvoice
  <2>5. /\ p \in SigningState /\ p.token = page.token /\ p.invoice = kept
        /\ p.told = "failed" /\ p.busy = {} /\ p.terms = page.terms
    BY <2>3, <2>4 DEF SigningState
  <2> HIDE DEF p
  <2>6. /\ Honest(server, p.invoice)
        /\ p.terms => Current(server, p.token, p.invoice.content)
    BY <2>3, <2>4, <2>5 DEF SigningPageSound, Honest
  <2> QED
    BY <1>1, <2>2, <2>5, <2>6, Settles
<1> QED
  BY <1>2, <1>3

LEMMA SigningStart ==
    Init => SigningInv
<1>1. Init /\ At("signing") => SigningInit
  BY MountedAtStart DEF Init, At
<1>2. SigningInit => /\ RowSound(server) /\ SigningPageSound /\ calls = <<>>
                     /\ page.busy = {}
  <2> SUFFICES ASSUME SigningInit PROVE /\ RowSound(server) /\ SigningPageSound
                                        /\ calls = <<>> /\ page.busy = {}
    OBVIOUS
  <2>1. RowSound(server)
    BY DEF SigningInit, Mount, RowSound, InvoiceRow
  <2>2. SigningPageSound
    BY DEF SigningInit, Mount, SigningPageSound, SigningState, ShownInvoice, Honest,
           NothingLoaded
  <2> QED
    BY <2>1, <2>2 DEF SigningInit, Mount
<1> QED
  BY <1>1, <1>2 DEF SigningInv

LEMMA SigningNext ==
    ASSUME SigningInv, [Next]_vars
    PROVE  SigningInv'
<1>1. CASE ~At("signing")
  BY <1>1, StaysMounted DEF SigningInv, At
<1>2. CASE At("signing") /\ Next
  BY <1>2, OnSigning, OpenLinkSound, EnteringSound, CheckTermsSound,
     submitSignatureSound, StaffSound, OtherDeviceSound, OpenedSound,
     TermsAcceptedSound, SubmittedSound, SubmitFailedSound, LookedSound,
     SigningServeSound, SigningLoseSound
     DEF SigningStep, SigningReturn
<1>3. CASE UNCHANGED vars
  BY <1>3 DEF vars, SigningInv, At, SigningPageSound, SigningCallSound, Waits
<1> QED
  BY <1>1, <1>2, <1>3

LEMMA SigningAlways == Spec => []SigningInv
  BY SigningStart, SigningNext, PTL DEF Spec

\* The PDF that submitSignature mails shows the text that the customer signed,
\* when the terms were accepted on this page, whatever staff did to the
\* invoice between the two calls and however often the link was opened.
THEOREM SignedDocumentAlwaysCurrent ==
    Spec => []SignedDocumentIsCurrent
<1>1. SigningInv => SignedDocumentIsCurrent
  BY DEF SigningInv, RowSound, SignedDocumentIsCurrent
<1> QED
  BY <1>1, SigningAlways, PTL

\* The page never reports a signature that the backend did not store: the
\* preview of submitSignature is taken back when its call fails or is lost.
THEOREM SuccessAlwaysTrue ==
    Spec => []SuccessIsTrue
<1>1. SigningInv => SuccessIsTrue
  BY DEF SigningInv, SigningPageSound, Honest, SuccessIsTrue
<1> QED
  BY <1>1, SigningAlways, PTL

-----------------------------------------------------------------------------
(* The table pages.                                                         *)

IsAnswer(a) == a.page \in Nat /\ a.total \in Nat /\ a.version \in Nat

TableRows == [all : Nat, some : Nat, version : Nat]

IsTable(p) ==
    /\ p = [table |-> p.table, filter |-> p.filter, number |-> p.number,
            tracker |-> p.tracker, busy |-> p.busy, shown |-> p.shown,
            error |-> p.error, form |-> p.form, forms |-> p.forms, saved |-> p.saved]
    /\ p.table \in Tables /\ p.filter \in TableFilters(p.table)
    /\ p.number \in Nat \ {0} /\ p.tracker \in Nat /\ p.saved \in Nat
    /\ p.error \in BOOLEAN /\ IsAnswer(p.shown)

\* What the page p rests on once its last load has been answered.
Fresh(p) ==
    /\ p.shown.where = Where(p) /\ p.shown.page = p.number
    /\ p.shown.version >= p.saved
    /\ p.table # "website" /\ p.shown.total > 0 => p.shown.rows > 0

TableSound(p) ==
    /\ IsTable(p) /\ p.saved <= server.version
    /\ ("loading" \notin p.busy /\ p.tracker > 0 /\ ~p.error) => Fresh(p)

\* The last load asks for what the page p shows next, and its answer knows
\* the last save that was reported.
TableCallSound(c, p, version) ==
    /\ IsCall(c)
    /\ c.op = "list" =>
          /\ c.kept \in Nat /\ c.kept <= p.tracker /\ c.arg.page \in Nat
          /\ c.kept = p.tracker => /\ c.arg.where = Where(p) /\ c.arg.page = p.number
          /\ c.state = "ok" =>
                /\ c.body = <<c.body[1]>> /\ IsAnswer(c.body[1])
                /\ c.body[1].where = c.arg.where /\ c.body[1].page = c.arg.page
                /\ c.body[1].page <= c.body[1].total => c.body[1].rows = 1
                /\ c.kept = p.tracker => c.body[1].version >= p.saved
    /\ (c.op = "save" /\ c.state = "ok") =>
          c.body = <<c.body[1]>> /\ c.body[1] \in Nat /\ c.body[1] <= version
    /\ c.op = "export" => c.arg = c.kept

ListInv ==
    At("list") =>
        /\ server \in TableRows /\ TableSound(page) /\ IsCalls(calls)
        /\ \A i \in DOMAIN calls : TableCallSound(calls[i], page, server.version)

\* What a page asks for depends on its table and its filter.
LEMMA SameWhere ==
    ASSUME NEW p, NEW q, q.table = p.table, q.filter = p.filter
    PROVE  Where(q) = Where(p)
  BY DEF Where

LEMMA LoadTyped ==
    ASSUME NEW p, IsTable(p)
    PROVE  /\ Load(p) = [op |-> "list", arg |-> [where |-> Where(p), page |-> p.number],
                         kept |-> p.tracker + 1, state |-> "sent", body |-> <<>>]
           /\ LET q == Loading(p)
              IN  /\ IsTable(q) /\ q.table = p.table /\ q.filter = p.filter
                  /\ q.number = p.number /\ q.tracker = p.tracker + 1
                  /\ q.saved = p.saved /\ "loading" \in q.busy /\ Where(q) = Where(p)
<1>1. Load(p) = [op |-> "list", arg |-> [where |-> Where(p), page |-> p.number],
                 kept |-> p.tracker + 1, state |-> "sent", body |-> <<>>]
  BY DEF Load, Call, BeginRequest
<1> DEFINE q == Loading(p)
<1>2. q = [p EXCEPT !.tracker = p.tracker + 1, !.busy = p.busy \union {"loading"},
                    !.error = FALSE]
  BY DEF Loading, BeginRequest
<1> HIDE DEF q
<1>3. q = [table |-> p.table, filter |-> p.filter, number |-> p.number,
           tracker |-> p.tracker + 1, busy |-> p.busy \union {"loading"},
           shown |-> p.shown, error |-> FALSE, form |-> p.form, forms |-> p.forms,
           saved |-> p.saved]
  BY <1>2 DEF IsTable
<1>4. /\ q.table = p.table /\ q.filter = p.filter /\ q.number = p.number
      /\ q.tracker = p.tracker + 1 /\ q.saved = p.saved /\ "loading" \in q.busy
  BY <1>3
<1>5. IsTable(q)
  BY <1>3 DEF IsTable
<1>6. Where(q) = Where(p)
  BY <1>4, SameWhere
<1> QED
  BY <1>1, <1>4, <1>5, <1>6 DEF q

\* A load that begins makes every earlier one too old.
LEMMA LoadBegins ==
    ASSUME ListInv, At("list"), NEW p, IsTable(p),
           p.tracker = page.tracker, p.saved <= server.version,
           page' = Loading(p), server' = server, IsCalls(calls'),
           OnlyFrom(calls', calls, <<Load(p)>>)
    PROVE  ListInv'
<1>1. PICK q : q = Loading(p)
  OBVIOUS
<1>2. /\ IsTable(q) /\ q.table = p.table /\ q.filter = p.filter
      /\ q.number = p.number /\ q.tracker = p.tracker + 1 /\ q.saved = p.saved
      /\ "loading" \in q.busy /\ Where(q) = Where(p)
  BY <1>1, LoadTyped
<1>3. PICK v : v = server.version
  OBVIOUS
<1>4. TableSound(page)'
  BY <1>1, <1>2 DEF TableSound
<1>5. TableCallSound(Load(p), q, v)
  <2>1. PICK c : c = Load(p)
    OBVIOUS
  <2>2. /\ c = [op |-> "list", arg |-> [where |-> Where(p), page |-> p.number],
                kept |-> p.tracker + 1, state |-> "sent", body |-> <<>>]
        /\ q.tracker \in Nat
    BY <1>2, <2>1, LoadTyped DEF IsTable
  <2>3. /\ IsCall(c) /\ c.op = "list" /\ c.kept = q.tracker /\ c.state = "sent"
        /\ c.arg.where = Where(q) /\ c.arg.page = q.number /\ c.arg.page \in Nat
    BY <1>2, <2>2 DEF IsCall, IsTable
  <2>4. TableCallSound(c, q, v)
    BY <2>2, <2>3 DEF TableCallSound
  <2> QED
    BY <2>1, <2>4
<1>6. ASSUME NEW i \in DOMAIN calls PROVE TableCallSound(calls[i], q, v)
  <2>1. TableCallSound(calls[i], page, v) /\ page.tracker \in Nat
    BY <1>3 DEF ListInv, TableSound, IsTable
  <2> QED
    BY <1>2, <2>1 DEF TableCallSound
<1>7. \A j \in DOMAIN calls' : TableCallSound(calls'[j], q, v)
  BY <1>5, <1>6 DEF OnlyFrom
<1> QED
  BY <1>1, <1>3, <1>4, <1>7 DEF ListInv

\* The page goes on without another load.
LEMMA PageRests ==
    ASSUME ListInv, At("list"), NEW p, IsTable(p), page' = p, server' = server,
           p.table = page.table, p.filter = page.filter, p.number = page.number,
           p.tracker = page.tracker, p.saved = page.saved,
           ("loading" \notin p.busy /\ p.tracker > 0 /\ ~p.error) => Fresh(p),
           IsCalls(calls'),
           NEW new, OnlyFrom(calls', calls, new),
           \A k \in DOMAIN new : TableCallSound(new[k], p, server.version)
    PROVE  ListInv'
<1>1. PICK v : v = server.version
  OBVIOUS
<1>2. TableSound(page)'
  BY DEF ListInv, TableSound
<1>3. Where(p) = Where(page)
  BY SameWhere
<1>4. \A i \in DOMAIN calls : TableCallSound(calls[i], p, v)
  BY <1>1, <1>3 DEF ListInv, TableCallSound
<1>5. \A j \in DOMAIN calls' : TableCallSound(calls'[j], p, v)
  BY <1>1, <1>4 DEF OnlyFrom
<1> QED
  BY <1>1, <1>2, <1>5 DEF ListInv

\* The rows move on, and call i may be answered.
LEMMA RowsMove ==
    ASSUME ListInv, At("list"), server' \in TableRows, server'.version >= server.version,
           page' = page,
           \/ calls' = calls
           \/ \E d : \E i \in DOMAIN calls :
                /\ calls' = [calls EXCEPT ![i] = d]
                /\ TableCallSound(d, page, server'.version)
    PROVE  ListInv'
<1>1. PICK v \in Nat, w \in Nat : v = server.version /\ w = server'.version
  BY DEF ListInv, TableRows
<1>2. TableSound(page)'
  BY <1>1 DEF ListInv, TableSound, IsTable
<1>3. ASSUME NEW i \in DOMAIN calls PROVE TableCallSound(calls[i], page, w)
  <2>1. TableCallSound(calls[i], page, v)
    BY <1>1 DEF ListInv
  <2> QED
    BY <1>1, <2>1 DEF TableCallSound
<1>4. IsCalls(calls')
  <2>1. PICK S : calls \in Seq(S)
    BY DEF ListInv, IsCalls
  <2>2. ASSUME NEW i \in DOMAIN calls, NEW d, calls' = [calls EXCEPT ![i] = d]
        PROVE  calls' \in Seq(S \union {d})
    BY <2>1, <2>2
  <2> QED
    BY <2>1, <2>2 DEF IsCalls
<1>5. \A i \in DOMAIN calls' : TableCallSound(calls'[i], page, w)
  <2>1. CASE calls' = calls
    BY <1>3, <2>1
  <2>2. ASSUME NEW i \in DOMAIN calls, NEW d,
               calls' = [calls EXCEPT ![i] = d], TableCallSound(d, page, server'.version)
        PROVE  \A j \in DOMAIN calls' : TableCallSound(calls'[j], page, w)
    BY <1>1, <1>3, <2>2
  <2> QED
    BY <2>1, <2>2
<1> QED
  BY <1>1, <1>2, <1>4, <1>5 DEF ListInv

LEMMA ListKnows ==
    ASSUME ListInv, At("list")
    PROVE  /\ server \in TableRows /\ TableSound(page) /\ IsTable(page) /\ IsCalls(calls)
           /\ page.saved <= server.version /\ page.tracker \in Nat
  BY DEF ListInv, TableSound, IsTable

LEMMA FirstFilter ==
    ASSUME NEW table \in Tables
    PROVE  "ALL" \in TableFilters(table)
  BY DEF Tables, TableFilters

LEMMA OpenListSound ==
    ASSUME ListInv, OpenList \/ handleRetry
    PROVE  ListInv'
<1>1. At("list") /\ Ask(Loading(page), <<Load(page)>>)
  BY DEF OpenList, handleRetry
<1>2. PICK p : p = page
  OBVIOUS
<1>3. PICK q, c : q = Loading(p) /\ c = Load(p)
  OBVIOUS
<1>4. IsCalls(calls') /\ OnlyFrom(calls', calls, <<c>>) /\ page' = q /\ server' = server
  BY <1>1, <1>2, <1>3, MoreCalls, ListKnows
<1> QED
  BY <1>1, <1>2, <1>3, <1>4, ListKnows, LoadBegins

\* The filter or the number changes, and the list is loaded again.
LEMMA AskAgain ==
    ASSUME ListInv, At("list"), NEW f \in TableFilters(page.table), NEW n \in Nat \ {0},
           NEW p, p = [page EXCEPT !.filter = f, !.number = n],
           Ask(Loading(p), <<Load(p)>>)
    PROVE  ListInv'
<1>1. p = [table |-> page.table, filter |-> f, number |-> n, tracker |-> page.tracker,
           busy |-> page.busy, shown |-> page.shown, error |-> page.error,
           form |-> page.form, forms |-> page.forms, saved |-> page.saved]
  BY ListKnows DEF IsTable
<1>2. IsTable(p) /\ p.tracker = page.tracker /\ p.saved = page.saved
  BY <1>1, ListKnows DEF IsTable
<1>3. PICK q, c : q = Loading(p) /\ c = Load(p)
  OBVIOUS
<1>4. IsCalls(calls') /\ OnlyFrom(calls', calls, <<c>>) /\ page' = q /\ server' = server
  BY <1>3, MoreCalls, ListKnows
<1> QED
  BY <1>2, <1>3, <1>4, ListKnows, LoadBegins

LEMMA ChangeFilterSound ==
    ASSUME ListInv, ChangeFilter
    PROVE  ListInv'
<1>1. At("list") /\ IsTable(page)
  BY ListKnows DEF ChangeFilter
<1>2. PICK f \in TableFilters(page.table) :
         LET p == [page EXCEPT !.filter = f, !.number = 1]
         IN  Ask(Loading(p), <<Load(p)>>)
  BY DEF ChangeFilter
<1>3. PICK n \in Nat \ {0} : n = 1
  OBVIOUS
<1>4. PICK p : p = [page EXCEPT !.filter = f, !.number = n]
  OBVIOUS
<1>5. Ask(Loading(p), <<Load(p)>>)
  BY <1>2, <1>3, <1>4
<1> QED
  BY <1>1, <1>4, <1>5, AskAgain

LEMMA TurnPageSound ==
    ASSUME ListInv, TurnPage
    PROVE  ListInv'
<1>1. At("list") /\ IsTable(page)
  BY ListKnows DEF TurnPage
<1>2. /\ page.filter \in TableFilters(page.table)
      /\ page.shown.page \in Nat /\ page.number \in Nat
  BY <1>1 DEF IsTable, IsAnswer
<1>3. PICK step \in {-1, 1} :
         LET from == IF page.table \in {"replacements", "website"}
                     THEN page.number ELSE page.shown.page
             p == [page EXCEPT !.number = IF from + step > 1 THEN from + step ELSE 1]
         IN  Ask(Loading(p), <<Load(p)>>)
  BY DEF TurnPage
<1>4. PICK from \in Nat :
         LET p == [page EXCEPT !.number = IF from + step > 1 THEN from + step ELSE 1]
         IN  Ask(Loading(p), <<Load(p)>>)
  BY <1>2, <1>3
<1>5. PICK n \in Nat \ {0} : n = IF from + step > 1 THEN from + step ELSE 1
  OBVIOUS
<1>6. PICK p : p = [page EXCEPT !.number = n]
  OBVIOUS
<1>7. Ask(Loading(p), <<Load(p)>>)
  BY <1>4, <1>5, <1>6
<1>8. PICK f : f = page.filter
  OBVIOUS
<1>9. p = [page EXCEPT !.filter = f, !.number = n]
  BY <1>1, <1>6, <1>8 DEF IsTable
<1> QED
  BY <1>1, <1>2, <1>7, <1>8, <1>9, AskAgain

\* The page goes on, and its table stays as it is.
LEMMA TableStays ==
    ASSUME ListInv, At("list"), NEW p, NEW form, NEW forms, NEW busy,
           p = [page EXCEPT !.form = form, !.forms = forms, !.busy = busy],
           "loading" \in busy <=> "loading" \in page.busy
    PROVE  /\ IsTable(p) /\ p.table = page.table /\ p.filter = page.filter
           /\ p.number = page.number /\ p.tracker = page.tracker /\ p.saved = page.saved
           /\ ("loading" \notin p.busy /\ p.tracker > 0 /\ ~p.error) => Fresh(p)
<1>1. p = [table |-> page.table, filter |-> page.filter, number |-> page.number,
           tracker |-> page.tracker, busy |-> busy, shown |-> page.shown,
           error |-> page.error, form |-> form, forms |-> forms, saved |-> page.saved]
  BY ListKnows DEF IsTable
<1>2. IsTable(p) /\ Where(p) = Where(page)
  BY <1>1, ListKnows, SameWhere DEF IsTable
<1> QED
  BY <1>1, <1>2, ListKnows DEF TableSound, Fresh

LEMMA FormsSound ==
    ASSUME ListInv, OpenForm \/ CloseForm
    PROVE  ListInv'
<1>1. At("list") /\ IsTable(page) /\ IsCalls(calls)
  BY ListKnows DEF OpenForm, CloseForm
<1>2. PICK form, forms :
         /\ page' = [page EXCEPT !.form = form, !.forms = forms]
         /\ server' = server /\ calls' = calls
  <2>1. CASE OpenForm
    BY <2>1 DEF OpenForm, Become
  <2>2. CASE CloseForm
    <3>1. page' = [page EXCEPT !.form = "none", !.forms = page.forms]
      BY <1>1, <2>2 DEF CloseForm, Become, IsTable
    <3> QED
      BY <2>2, <3>1 DEF CloseForm, Become
  <2> QED
    BY <2>1, <2>2
<1>3. PICK busy : busy = page.busy
  OBVIOUS
<1>4. PICK p : p = [page EXCEPT !.form = form, !.forms = forms, !.busy = busy]
  OBVIOUS
<1>5. page' = p
  BY <1>1, <1>2, <1>3, <1>4 DEF IsTable
<1>6. OnlyFrom(calls', calls, <<>>) /\ DOMAIN <<>> = {}
  BY <1>2 DEF OnlyFrom
<1> QED
  BY <1>1, <1>2, <1>3, <1>4, <1>5, <1>6, TableStays, PageRests

LEMMA SubmitFormSound ==
    ASSUME ListInv, SubmitForm
    PROVE  ListInv'
<1>1. At("list") /\ IsTable(page) /\ IsCalls(calls) /\ TableSound(page)
  BY ListKnows DEF SubmitForm
<1>2. PICK p, form, forms : p = page /\ form = page.form /\ forms = page.forms
  OBVIOUS
<1>3. PICK c : c = Call("save", form, forms)
  OBVIOUS
<1>4. /\ IsCalls(calls') /\ OnlyFrom(calls', calls, <<c>>) /\ page' = p
      /\ server' = server
  BY <1>1, <1>2, <1>3, MoreCalls DEF SubmitForm
<1>5. c.op = "save" /\ c.state = "sent" /\ IsCall(c)
  BY <1>3 DEF Call, IsCall
<1>6. TableCallSound(c, p, server.version)
  BY <1>5 DEF TableCallSound
<1> QED
  BY <1>1, <1>2, <1>4, <1>6, PageRests DEF TableSound

\* The two functions that build a query from the filter agree.
LEMMA SameSelection ==
    ASSUME NEW p, NEW f \in TableFilters(p.table), p.filter = f
    PROVE  /\ p.table = "orders" => exportOrders(f) = Where(p)
           /\ p.table = "leads" => exportLeads(f) = Where(p)
<1>1. ASSUME p.table = "orders" PROVE exportOrders(f) = useOrdersList(f)
  <2>1. f \in {"ALL", "REFUNDED", "REPLACEMENT", "SHIPPED"}
    BY <1>1 DEF TableFilters
  <2>2. CASE f = "ALL"
    BY <2>2 DEF exportOrders, useOrdersList
  <2>3. CASE f = "REFUNDED"
    BY <2>3 DEF exportOrders, useOrdersList
  <2>4. CASE f = "REPLACEMENT"
    BY <2>4 DEF exportOrders, useOrdersList
  <2>5. CASE f = "SHIPPED"
    <3>1. <<"shipmentStatus", f>> # <<"shipmentStatus", "ALL">>
      BY <2>5
    <3> QED
      BY <2>5, <3>1 DEF exportOrders, useOrdersList
  <2> QED
    BY <2>1, <2>2, <2>3, <2>4, <2>5
<1>2. ASSUME p.table = "leads" PROVE exportLeads(f) = useLeadsList(f)
  <2>1. f \in {"ALL", "OPEN", "CONVERTED"}
    BY <1>2 DEF TableFilters
  <2> QED
    BY <2>1 DEF exportLeads, useLeadsList
<1> QED
  BY <1>1, <1>2 DEF Where

LEMMA ExportSound ==
    ASSUME ListInv, handleExportExcel
    PROVE  ListInv'
<1>1. /\ At("list") /\ IsTable(page) /\ IsCalls(calls) /\ TableSound(page)
      /\ page.table \in {"orders", "leads"}
  BY ListKnows DEF handleExportExcel
<1>2. PICK where, kept, form, forms, busy :
         /\ where = IF page.table = "orders" THEN exportOrders(page.filter)
                    ELSE exportLeads(page.filter)
         /\ kept = Where(page) /\ form = page.form /\ forms = page.forms
         /\ busy = page.busy \union {"exporting"}
  OBVIOUS
<1>3. where = kept
  <2>1. PICK p : p = page
    OBVIOUS
  <2> QED
    BY <1>1, <1>2, <2>1, SameSelection DEF IsTable
<1>4. PICK p, c : /\ p = [page EXCEPT !.form = form, !.forms = forms, !.busy = busy]
                  /\ c = Call("export", where, kept)
  OBVIOUS
<1>5. p = [page EXCEPT !.busy = busy]
  BY <1>1, <1>2, <1>4 DEF IsTable
<1>6. Ask(p, <<c>>)
  BY <1>2, <1>4, <1>5 DEF handleExportExcel
<1>7. /\ IsCalls(calls') /\ OnlyFrom(calls', calls, <<c>>) /\ page' = p
      /\ server' = server
  BY <1>1, <1>6, MoreCalls
<1>8. c.op = "export" /\ c.state = "sent" /\ IsCall(c) /\ c.arg = c.kept
  BY <1>3, <1>4 DEF Call, IsCall
<1>9. TableCallSound(c, p, server.version)
  BY <1>8 DEF TableCallSound
<1>10. /\ IsTable(p) /\ p.table = page.table /\ p.filter = page.filter
       /\ p.number = page.number /\ p.tracker = page.tracker /\ p.saved = page.saved
       /\ ("loading" \notin p.busy /\ p.tracker > 0 /\ ~p.error) => Fresh(p)
  <2>1. "loading" \in busy <=> "loading" \in page.busy
    BY <1>2
  <2> QED
    BY <1>1, <1>4, <2>1, TableStays
<1>11. \A k \in DOMAIN <<c>> : TableCallSound(<<c>>[k], p, server.version)
  BY <1>9
<1> QED
  BY <1>1, <1>7, <1>10, <1>11, PageRests

LEMMA OtherRowsSound ==
    ASSUME ListInv, OtherRows
    PROVE  ListInv'
<1>1. At("list") /\ server \in TableRows
  BY ListKnows DEF OtherRows
<1>2. /\ server' \in TableRows /\ server'.version >= server.version
      /\ UNCHANGED <<page, calls>>
  BY <1>1 DEF OtherRows, Elsewhere, TableRows
<1> QED
  BY <1>1, <1>2, RowsMove

LEMMA ListLoseSound ==
    ASSUME ListInv, At("list"), NEW i \in DOMAIN calls, LoseCall(i)
    PROVE  ListInv'
<1>1. /\ server \in TableRows /\ IsCalls(calls)
      /\ TableCallSound(calls[i], page, server.version)
  BY DEF ListInv
<1>2. IsCall(calls[i])
  BY <1>1 DEF TableCallSound
<1>3. /\ server' = server /\ page' = page
      /\ calls' = AnsweredAt(calls, i, "failed", <<>>)
  BY DEF LoseCall, AnsweredAt
<1>4. PICK d : /\ calls' = [calls EXCEPT ![i] = d] /\ IsCall(d)
               /\ d.op = calls[i].op /\ d.arg = calls[i].arg
               /\ d.kept = calls[i].kept /\ d.state = "failed"
  BY <1>1, <1>2, <1>3, AnsweredCall
<1>5. TableCallSound(d, page, server.version)
  BY <1>1, <1>4 DEF TableCallSound
<1>6. server.version >= server.version
  BY <1>1 DEF TableRows
<1> QED
  BY <1>1, <1>3, <1>4, <1>5, <1>6, RowsMove

LEMMA ListServeSound ==
    ASSUME ListInv, NEW i \in DOMAIN calls, ListServe(i)
    PROVE  ListInv'
<1>1. /\ At("list") /\ server \in TableRows /\ IsCalls(calls)
      /\ TableCallSound(calls[i], page, server.version) /\ TableSound(page)
  BY DEF ListInv, ListServe
<1>2. IsCall(calls[i])
  BY <1>1 DEF TableCallSound
<1>3. /\ server.all \in Nat /\ server.some \in Nat /\ server.version \in Nat
      /\ page.saved \in Nat /\ page.saved <= server.version
  BY <1>1 DEF TableRows, TableSound, IsTable
\* What makes an answered call sound.
<1>4. ASSUME NEW s \in TableRows, s.version >= server.version, NEW ok \in BOOLEAN, NEW b,
             Perform(i, s, ok, b),
             ok /\ calls[i].op = "list" =>
                 /\ IsAnswer(b) /\ b.where = calls[i].arg.where
                 /\ b.page = calls[i].arg.page
                 /\ b.page <= b.total => b.rows = 1
                 /\ b.version >= page.saved,
             ok /\ calls[i].op = "save" => b \in Nat /\ b <= s.version
      PROVE  ListInv'
  <2>0. PICK state, body : /\ state = IF ok THEN "ok" ELSE "failed"
                           /\ body = IF ok THEN <<b>> ELSE <<>>
    OBVIOUS
  <2>1. /\ server' = s /\ page' = page
        /\ calls' = AnsweredAt(calls, i, state, body)
    BY <1>4, <2>0 DEF Perform, AnsweredAt
  <2>2. PICK d : /\ calls' = [calls EXCEPT ![i] = d] /\ IsCall(d)
                 /\ d.op = calls[i].op /\ d.arg = calls[i].arg
                 /\ d.kept = calls[i].kept
                 /\ d.state = state /\ d.body = body
    BY <1>1, <1>2, <2>1, AnsweredCall
  <2>3. d.state = "ok" => ok /\ d.body = <<d.body[1]>> /\ d.body[1] = b
    BY <2>0, <2>2
  <2>4. TableCallSound(d, page, s.version)
    BY <1>1, <1>4, <2>2, <2>3 DEF TableCallSound
  <2> QED
    BY <1>1, <1>4, <2>1, <2>2, <2>4, RowsMove
<1>5. server \in TableRows /\ server.version >= server.version
  BY <1>1, <1>3
<1>6. CASE Asked(i, "list")
  <2>1. PICK where, number, total, rows :
           /\ where = calls[i].arg.where /\ number = calls[i].arg.page
           /\ total = Matching(where) /\ rows = IF number <= total THEN 1 ELSE 0
    OBVIOUS
  <2>2. PICK b : b = [where |-> where, page |-> number, total |-> total, rows |-> rows,
                      version |-> server.version]
    OBVIOUS
  <2>3. Perform(i, server, TRUE, b)
    BY <1>6, <2>1, <2>2 DEF ListServe, Asked
  <2>4. total \in Nat
    BY <1>3, <2>1 DEF Matching
  <2>5. number \in Nat
    BY <1>1, <1>6, <2>1 DEF TableCallSound, Asked
  <2>6. /\ IsAnswer(b) /\ b.where = calls[i].arg.where /\ b.page = calls[i].arg.page
        /\ b.page <= b.total => b.rows = 1
        /\ b.version >= page.saved
    BY <1>3, <2>1, <2>2, <2>4, <2>5 DEF IsAnswer
  <2>7. calls[i].op # "save"
    BY <1>6 DEF Asked
  <2> QED
    BY <1>4, <1>5, <2>3, <2>6, <2>7
<1>7. CASE Asked(i, "save")
  <2>1. CASE Refuse(i)
    BY <1>4, <1>5, <2>1 DEF Refuse
  <2>2. CASE ~Refuse(i)
    <3>1. PICK s, v : /\ v = server.version + 1
                      /\ s = [server EXCEPT !.version = server.version + 1,
                               !.all = server.all
                                       + (IF calls[i].arg = "create" THEN 1 ELSE 0)]
      OBVIOUS
    <3>2. Perform(i, s, TRUE, v)
      BY <1>7, <2>2, <3>1 DEF ListServe, Asked
    <3>3. s \in TableRows /\ s.version = v /\ v \in Nat /\ v >= server.version
      <4>1. PICK all \in Nat :
               all = server.all + (IF calls[i].arg = "create" THEN 1 ELSE 0)
        BY <1>3
      <4>2. s = [all |-> all, some |-> server.some, version |-> v]
        BY <1>1, <3>1, <4>1 DEF TableRows
      <4> QED
        BY <1>3, <3>1, <4>2 DEF TableRows
    <3>4. s.version >= server.version /\ v <= s.version /\ calls[i].op # "list"
      BY <1>7, <3>3 DEF Asked
    <3> QED
      BY <1>4, <3>2, <3>3, <3>4
  <2> QED
    BY <2>1, <2>2
<1>8. CASE Asked(i, "export")
  <2>1. Perform(i, server, TRUE, <<>>) /\ calls[i].op = "export"
    BY <1>8 DEF ListServe, Asked
  <2> QED
    BY <1>4, <1>5, <2>1
<1> QED
  BY <1>6, <1>7, <1>8 DEF ListServe

\* The page goes on after call i, without a load.
LEMMA PageGoesOn ==
    ASSUME ListInv, At("list"), NEW i \in DOMAIN calls, NEW p, Continue(i, p, <<>>),
           IsTable(p), p.table = page.table, p.filter = page.filter,
           p.number = page.number, p.tracker = page.tracker, p.saved = page.saved,
           ("loading" \notin p.busy /\ p.tracker > 0 /\ ~p.error) => Fresh(p)
    PROVE  ListInv'
<1>1. <<>> \in Seq({}) /\ IsCalls(calls)
  BY ListKnows
<1>2. /\ IsCalls(calls') /\ OnlyFrom(calls', calls, <<>>) /\ page' = p
      /\ server' = server
  BY <1>1, ContinuedCalls
<1>3. \A k \in DOMAIN <<>> : TableCallSound(<<>>[k], p, server.version)
  OBVIOUS
<1> QED
  BY <1>2, <1>3, PageRests

\* It goes on after call i and loads again.
LEMMA PageReloads ==
    ASSUME ListInv, At("list"), NEW i \in DOMAIN calls, NEW p, IsTable(p),
           p.tracker = page.tracker, p.saved <= server.version,
           Continue(i, Loading(p), <<Load(p)>>)
    PROVE  ListInv'
<1>1. PICK q, c : q = Loading(p) /\ c = Load(p)
  OBVIOUS
<1>2. <<c>> \in Seq({c}) /\ IsCalls(calls)
  BY ListKnows
<1>3. /\ IsCalls(calls') /\ OnlyFrom(calls', calls, <<c>>) /\ page' = q
      /\ server' = server
  BY <1>1, <1>2, ContinuedCalls
<1> QED
  BY <1>1, <1>3, LoadBegins

LEMMA ClampSound ==
    ASSUME ListInv, At("list"), NEW i \in DOMAIN calls, NEW p, IsTable(p),
           p.table = page.table, p.filter = page.filter, p.number = page.number,
           p.tracker = page.tracker, p.saved = page.saved,
           (~p.error /\ (p.table = "website" \/ p.number <= LastPage(p))) => Fresh(p),
           ClampPage(i, p)
    PROVE  ListInv'
<1>1. /\ p.number \in Nat /\ p.shown.total \in Nat /\ page.saved <= server.version
  BY ListKnows DEF IsTable, IsAnswer
<1>2. PICK last \in Nat \ {0} : last = LastPage(p)
  BY <1>1 DEF LastPage
<1>3. CASE p.table # "website" /\ p.number > last
  <2>1. PICK q : q = [p EXCEPT !.number = last]
    OBVIOUS
  <2>2. q = [table |-> p.table, filter |-> p.filter, number |-> last,
             tracker |-> p.tracker, busy |-> p.busy, shown |-> p.shown,
             error |-> p.error, form |-> p.form, forms |-> p.forms, saved |-> p.saved]
    BY <2>1 DEF IsTable
  <2>3. IsTable(q) /\ q.tracker = page.tracker /\ q.saved <= server.version
    BY <1>1, <2>2 DEF IsTable
  <2>4. Continue(i, Loading(q), <<Load(q)>>)
    BY <1>2, <1>3, <2>1 DEF ClampPage
  <2> QED
    BY <2>3, <2>4, PageReloads
<1>4. CASE ~(p.table # "website" /\ p.number > last)
  <2>1. Continue(i, p, <<>>)
    BY <1>2, <1>4 DEF ClampPage
  <2>2. ~p.error => Fresh(p)
    BY <1>1, <1>2, <1>4
  <2> QED
    BY <2>1, <2>2, PageGoesOn
<1> QED
  BY <1>3, <1>4

LEMMA LoadedSound ==
    ASSUME ListInv, NEW i \in DOMAIN calls, Loaded(i)
    PROVE  ListInv'
<1>1. /\ At("list") /\ IsTable(page) /\ TableSound(page)
      /\ TableCallSound(calls[i], page, server.version)
      /\ calls[i].op = "list"
  BY ListKnows DEF Loaded, ListInv
<1>2. CASE calls[i].kept # page.tracker
  <2>1. PICK p : p = page
    OBVIOUS
  <2>2. Continue(i, p, <<>>)
    BY <1>2, <2>1 DEF Loaded, IsCurrentRequest
  <2> QED
    BY <1>1, <2>1, <2>2, PageGoesOn DEF TableSound
<1>3. CASE calls[i].kept = page.tracker
  <2>1. PICK busy : busy = page.busy \ {"loading"}
    OBVIOUS
  <2>2. CASE Succeeded(i, "list")
    <3>1. PICK shown : shown = Body(i)
      OBVIOUS
    <3>2. PICK p : p = [page EXCEPT !.busy = busy, !.shown = shown]
      OBVIOUS
    <3>3. ClampPage(i, p)
      <4>1. p = [[page EXCEPT !.busy = page.busy \ {"loading"}] EXCEPT !.shown = Body(i)]
        BY <2>1, <3>1, <3>2
      <4> QED
        BY <1>3, <2>2, <4>1 DEF Loaded, IsCurrentRequest
    <3>4. /\ shown.where = Where(page) /\ shown.page = page.number
          /\ shown.version >= page.saved /\ IsAnswer(shown)
          /\ shown.page <= shown.total => shown.rows = 1
      <4>1. shown = calls[i].body[1]
        BY <1>1, <2>2, <3>1 DEF TableCallSound, Body, Succeeded
      <4> QED
        BY <1>1, <1>3, <2>2, <4>1 DEF TableCallSound, Succeeded
    <3>5. p = [table |-> page.table, filter |-> page.filter, number |-> page.number,
               tracker |-> page.tracker, busy |-> busy, shown |-> shown,
               error |-> page.error, form |-> page.form, forms |-> page.forms,
               saved |-> page.saved]
      BY <1>1, <3>2 DEF IsTable
    <3>6. IsTable(p) /\ Where(p) = Where(page)
      BY <1>1, <3>4, <3>5, SameWhere DEF IsTable
    <3>7. (p.table = "website" \/ p.number <= LastPage(p)) => Fresh(p)
      BY <1>1, <3>4, <3>5, <3>6 DEF Fresh, LastPage, IsTable, IsAnswer
    <3> QED
      BY <1>1, <3>3, <3>5, <3>6, <3>7, ClampSound
  <2>3. CASE ~Succeeded(i, "list")
    <3>1. PICK shown : shown = IF page.table = "website" THEN page.shown ELSE NothingShown
      OBVIOUS
    <3>2. PICK p : p = [page EXCEPT !.busy = busy, !.error = TRUE, !.shown = shown]
      OBVIOUS
    <3>3. p = [table |-> page.table, filter |-> page.filter, number |-> page.number,
               tracker |-> page.tracker, busy |-> busy, shown |-> shown,
               error |-> TRUE, form |-> page.form, forms |-> page.forms,
               saved |-> page.saved]
      BY <1>1, <3>2 DEF IsTable
    <3>4. ClampPage(i, p)
      <4>1. PICK r : r = [page EXCEPT !.busy = page.busy \ {"loading"}]
        OBVIOUS
      <4>2. r = [table |-> page.table, filter |-> page.filter, number |-> page.number,
                 tracker |-> page.tracker, busy |-> busy, shown |-> page.shown,
                 error |-> page.error, form |-> page.form, forms |-> page.forms,
                 saved |-> page.saved]
        BY <1>1, <2>1, <4>1 DEF IsTable
      <4>3. p = [r EXCEPT !.error = TRUE, !.shown =
                     IF page.table = "website" THEN r.shown ELSE NothingShown]
        <5>1. shown = IF page.table = "website" THEN r.shown ELSE NothingShown
          BY <3>1, <4>2
        <5>2. PICK q : q = [r EXCEPT !.error = TRUE, !.shown = shown]
          OBVIOUS
        <5>3. q = [table |-> page.table, filter |-> page.filter, number |-> page.number,
                   tracker |-> page.tracker, busy |-> busy, shown |-> shown,
                   error |-> TRUE, form |-> page.form, forms |-> page.forms,
                   saved |-> page.saved]
          BY <4>2, <5>2
        <5> QED
          BY <3>3, <5>1, <5>2, <5>3
      <4> QED
        BY <1>3, <2>3, <4>1, <4>3 DEF Loaded, IsCurrentRequest
    <3>5. IsAnswer(shown)
      BY <1>1, <3>1 DEF IsTable, IsAnswer, NothingShown
    <3>6. IsTable(p)
      BY <1>1, <3>3, <3>5 DEF IsTable
    <3> QED
      BY <1>1, <3>3, <3>4, <3>6, ClampSound
  <2> QED
    BY <2>2, <2>3
<1> QED
  BY <1>2, <1>3

LEMMA ExportedSound ==
    ASSUME ListInv, NEW i \in DOMAIN calls, Exported(i)
    PROVE  ListInv'
<1>1. At("list") /\ IsTable(page)
  BY ListKnows DEF Exported
<1>2. PICK form, forms, busy : /\ form = page.form /\ forms = page.forms
                               /\ busy = page.busy \ {"exporting"}
  OBVIOUS
<1>3. PICK p : p = [page EXCEPT !.form = form, !.forms = forms, !.busy = busy]
  OBVIOUS
<1>4. p = [page EXCEPT !.busy = page.busy \ {"exporting"}]
  BY <1>1, <1>2, <1>3 DEF IsTable
<1>5. Continue(i, p, <<>>)
  BY <1>4 DEF Exported
<1>6. "loading" \in busy <=> "loading" \in page.busy
  BY <1>2
<1>7. /\ IsTable(p) /\ p.table = page.table /\ p.filter = page.filter
      /\ p.number = page.number /\ p.tracker = page.tracker /\ p.saved = page.saved
      /\ ("loading" \notin p.busy /\ p.tracker > 0 /\ ~p.error) => Fresh(p)
  BY <1>1, <1>3, <1>6, TableStays
<1> QED
  BY <1>1, <1>5, <1>7, PageGoesOn

LEMMA SavedSound ==
    ASSUME ListInv, NEW i \in DOMAIN calls, Saved(i)
    PROVE  ListInv'
<1>1. /\ At("list") /\ IsTable(page) /\ TableSound(page)
      /\ TableCallSound(calls[i], page, server.version)
  BY ListKnows, Zenon DEF Saved, ListInv
<1>2. CASE Failed(i, "save")
  <2>1. PICK p : p = page
    OBVIOUS
  <2>2. Continue(i, p, <<>>)
    BY <1>2, <2>1 DEF Saved, Failed, Succeeded
  <2> QED
    BY <1>1, <2>1, <2>2, PageGoesOn DEF TableSound
<1>3. CASE Succeeded(i, "save")
  <2>1. PICK v, p, table : /\ v = Body(i) /\ p = [page EXCEPT !.saved = v]
                           /\ table = page.table
    OBVIOUS
  <2>2. v \in Nat /\ v <= server.version
    BY <1>1, <1>3, <2>1 DEF TableCallSound, Body, Succeeded
  <2>3. p = [table |-> table, filter |-> page.filter, number |-> page.number,
             tracker |-> page.tracker, busy |-> page.busy, shown |-> page.shown,
             error |-> page.error, form |-> page.form, forms |-> page.forms,
             saved |-> v]
    BY <1>1, <2>1 DEF IsTable
\* What the handlers of a success make of the page.
  <2>4. PICK r, form :
           /\ \/ r = [p EXCEPT !.form = form]
              \/ r = [p EXCEPT !.form = form, !.filter = "ALL", !.number = 1]
           /\ Continue(i, Loading(r),
                       <<[Load(Loading(r)) EXCEPT !.kept = Loading(r).tracker]>>)
    <3>1. CASE page.table = "orders"
      BY <1>3, <2>1, <3>1 DEF Saved, Failed, Succeeded, handleUpdated
    <3>2. CASE page.table # "orders" /\ calls[i].arg = "convert"
      BY <1>3, <2>1, <3>2 DEF Saved, Failed, Succeeded, handleOrderCreated
    <3>3. CASE page.table # "orders" /\ calls[i].arg # "convert"
      BY <1>3, <2>1, <3>3 DEF Saved, Failed, Succeeded, handleLeadSaved
    <3> QED
      BY <3>1, <3>2, <3>3
  <2>5. /\ page.filter \in TableFilters(table) /\ "ALL" \in TableFilters(table)
        /\ page.number \in Nat \ {0} /\ 1 \in Nat \ {0}
    BY <1>1, <2>1, FirstFilter DEF IsTable
  <2>6. PICK f \in TableFilters(table), n \in Nat \ {0} :
        r = [table |-> table, filter |-> f, number |-> n,
             tracker |-> page.tracker, busy |-> page.busy, shown |-> page.shown,
             error |-> page.error, form |-> form, forms |-> page.forms, saved |-> v]
    <3>1. CASE r = [p EXCEPT !.form = form]
      BY <2>3, <2>5, <3>1
    <3>2. CASE r = [p EXCEPT !.form = form, !.filter = "ALL", !.number = 1]
      BY <2>3, <2>5, <3>2
    <3> QED
      BY <2>4, <3>1, <3>2
  <2>7. IsTable(r) /\ r.tracker = page.tracker /\ r.saved <= server.version
    BY <1>1, <2>1, <2>2, <2>6 DEF IsTable
  <2>8. Continue(i, Loading(r), <<Load(r)>>)
    BY <2>4, <2>7, LoadTyped
  <2> QED
    BY <1>1, <2>7, <2>8, PageReloads
<1> QED
  BY <1>2, <1>3, Zenon DEF Saved

LEMMA ListStart ==
    Init => ListInv
<1>1. Init /\ At("list") => ListInit
  BY MountedAtStart DEF Init, At
<1>2. ASSUME ListInit PROVE ListInv
  <2>1. PICK table \in Tables : \E f \in TableFilters(table), n \in 1..2 :
           Mount("list",
                 [table |-> table, filter |-> f, number |-> n,
                  tracker |-> 0, busy |-> {}, shown |-> NothingShown,
                  error |-> FALSE, form |-> "none", forms |-> 0, saved |-> 0],
                 [all |-> 2, some |-> 1, version |-> 1])
    BY <1>2 DEF ListInit
  <2>2. PICK f \in TableFilters(table), n \in 1..2 :
           /\ page = [table |-> table, filter |-> f, number |-> n,
                      tracker |-> 0, busy |-> {}, shown |-> NothingShown,
                      error |-> FALSE, form |-> "none", forms |-> 0, saved |-> 0]
           /\ server = [all |-> 2, some |-> 1, version |-> 1]
           /\ calls = <<>>
    BY <2>1 DEF Mount
  <2>3. IsTable(page)
    BY <2>2 DEF IsTable, IsAnswer, NothingShown
  <2>4. server \in TableRows /\ TableSound(page)
    BY <2>2, <2>3 DEF TableRows, TableSound
  <2>5. IsCalls(calls)
    <3>1. calls \in Seq({})
      BY <2>2
    <3> QED
      BY <3>1 DEF IsCalls
  <2> QED
    BY <2>2, <2>4, <2>5 DEF ListInv
<1> QED
  BY <1>1, <1>2 DEF ListInv

LEMMA ListNext ==
    ASSUME ListInv, [Next]_vars
    PROVE  ListInv'
<1>1. CASE ~At("list")
  BY <1>1, StaysMounted DEF ListInv, At
<1>2. CASE At("list") /\ Next
  <2>1. CASE ListStep
    BY <2>1, OpenListSound, ChangeFilterSound, TurnPageSound, FormsSound, SubmitFormSound,
       ExportSound, OtherRowsSound
       DEF ListStep
  <2>2. ASSUME NEW i \in DOMAIN calls, ListServe(i) \/ ListReturn(i) \/ LoseCall(i)
        PROVE  ListInv'
    BY <1>2, <2>2, ListServeSound, ListLoseSound, LoadedSound, SavedSound, ExportedSound
       DEF ListReturn
  <2> QED
    BY <1>2, <2>1, <2>2, OnList
<1>3. CASE UNCHANGED vars
  BY <1>3 DEF vars, ListInv, At, TableSound
<1> QED
  BY <1>1, <1>2, <1>3

LEMMA ListAlways == Spec => []ListInv
  BY ListStart, ListNext, PTL DEF Spec

\* A list page never comes to rest on a page behind the last row: the clamp
\* asks again, whatever the order of the answers and of Next and Previous.
THEOREM NeverAnEmptyPage ==
    Spec => []NoEmptyPage
<1>1. ListInv => NoEmptyPage
  BY DEF ListInv, TableSound, Fresh, NoEmptyPage, Settled
<1> QED
  BY <1>1, ListAlways, PTL

\* A table that has settled shows the answer to its filter and page number
\* and knows the last save it reported: the tracker drops every older answer.
THEOREM SettledTablesAreCurrent ==
    Spec => []SettledTableIsCurrent
<1>1. ListInv => SettledTableIsCurrent
  BY DEF ListInv, TableSound, Fresh, SettledTableIsCurrent, Settled
<1> QED
  BY <1>1, ListAlways, PTL

\* The query of the export and that of the list select the same rows in
\* every state of the filter.
THEOREM ExportsSelectTheList ==
    Spec => []ExportSelectsTheList
<1>1. ListInv => ExportSelectsTheList
  BY DEF ListInv, TableCallSound, ExportSelectsTheList
<1> QED
  BY <1>1, ListAlways, PTL

-----------------------------------------------------------------------------
(* The accounts page.                                                       *)

IsUsersPage(p) ==
    p = [users |-> p.users, selected |-> p.selected, panel |-> p.panel,
         email |-> p.email, busy |-> p.busy, mixed |-> p.mixed]

\* The form holds the email of the account that is selected.
UsersPageSound(p) ==
    IsUsersPage(p) /\ (p.selected # "" => p.email.of = p.selected)

UsersCallSound(c) ==
    /\ c.op = "update" => c.arg.of = c.arg.to
    /\ c.op # "users" => c.kept \in {"account", "status", "deleting", "creating"}

UsersInv ==
    At("users") =>
        /\ Known(calls) /\ UsersPageSound(page)
        /\ \A i \in DOMAIN calls : UsersCallSound(calls[i])

LEMMA UsersGoOn ==
    ASSUME UsersInv, At("users"), Known(calls'), UsersPageSound(page'),
           NEW new, FurtherOn(calls', calls, new),
           \A k \in DOMAIN new : UsersCallSound(new[k])
    PROVE  UsersInv'
  BY DEF UsersInv, FurtherOn, Same, UsersCallSound

LEMMA MixedSound ==
    ASSUME NEW p, UsersPageSound(p)
    PROVE  UsersPageSound(Mixed(p))
<1>1. PICK users, selected, panel, email, busy, mixed :
         p = [users |-> users, selected |-> selected, panel |-> panel,
              email |-> email, busy |-> busy, mixed |-> mixed]
  BY DEF UsersPageSound, IsUsersPage
<1>2. PICK q : q = Mixed(p)
  OBVIOUS
<1>3. q = [users |-> users, selected |-> selected, panel |-> panel,
            email |-> email, busy |-> busy, mixed |-> (mixed \/ calls # <<>>)]
  BY <1>1, <1>2 DEF Mixed
<1>4. UsersPageSound(q)
  BY <1>1, <1>3 DEF UsersPageSound, IsUsersPage
<1> QED
  BY <1>2, <1>4

\* The work that is under way changes.
LEMMA BusySound ==
    ASSUME NEW p, UsersPageSound(p), NEW others
    PROVE  UsersPageSound([p EXCEPT !.busy = others])
<1>1. PICK users, selected, panel, email, busy, mixed :
         p = [users |-> users, selected |-> selected, panel |-> panel,
              email |-> email, busy |-> busy, mixed |-> mixed]
  BY DEF UsersPageSound, IsUsersPage
<1>2. PICK q : q = [p EXCEPT !.busy = others]
  OBVIOUS
<1>3. q = [users |-> users, selected |-> selected, panel |-> panel,
            email |-> email, busy |-> others, mixed |-> mixed]
  BY <1>1, <1>2
<1>4. UsersPageSound(q)
  BY <1>1, <1>3 DEF UsersPageSound, IsUsersPage
<1> QED
  BY <1>2, <1>4

LEMMA SelectedSound ==
    ASSUME NEW p, UsersPageSound(p), NEW u, NEW row
    PROVE  UsersPageSound(Selected(p, u, row))
<1>1. PICK users, selected, panel, email, busy, mixed :
         p = [users |-> users, selected |-> selected, panel |-> panel,
              email |-> email, busy |-> busy, mixed |-> mixed]
  BY DEF UsersPageSound, IsUsersPage
<1>2. PICK q : q = Selected(p, u, row)
  OBVIOUS
<1>3. q = [users |-> users, selected |-> u, panel |-> row,
            email |-> [of |-> u, v |-> row.email], busy |-> busy \ {"status"}, mixed |-> mixed]
  BY <1>1, <1>2 DEF Selected
<1>4. UsersPageSound(q)
  BY <1>1, <1>3 DEF UsersPageSound, IsUsersPage
<1> QED
  BY <1>2, <1>4

LEMMA DeselectedSound ==
    ASSUME NEW p, UsersPageSound(p)
    PROVE  UsersPageSound([p EXCEPT !.selected = ""])
<1>1. PICK users, selected, panel, email, busy, mixed :
         p = [users |-> users, selected |-> selected, panel |-> panel,
              email |-> email, busy |-> busy, mixed |-> mixed]
  BY DEF UsersPageSound, IsUsersPage
<1>2. PICK q : q = [p EXCEPT !.selected = ""]
  OBVIOUS
<1>3. q = [users |-> users, selected |-> "", panel |-> panel,
            email |-> email, busy |-> busy, mixed |-> mixed]
  BY <1>1, <1>2
<1>4. UsersPageSound(q)
  BY <1>1, <1>3 DEF UsersPageSound, IsUsersPage
<1> QED
  BY <1>2, <1>4

LEMMA ListedSound ==
    ASSUME NEW p, UsersPageSound(p), NEW rows, NEW others
    PROVE  UsersPageSound([p EXCEPT !.users = rows, !.busy = others])
<1>1. PICK users, selected, panel, email, busy, mixed :
         p = [users |-> users, selected |-> selected, panel |-> panel,
              email |-> email, busy |-> busy, mixed |-> mixed]
  BY DEF UsersPageSound, IsUsersPage
<1>2. PICK q : q = [p EXCEPT !.users = rows, !.busy = others]
  OBVIOUS
<1>3. q = [users |-> rows, selected |-> selected, panel |-> panel,
            email |-> email, busy |-> others, mixed |-> mixed]
  BY <1>1, <1>2
<1>4. UsersPageSound(q)
  BY <1>1, <1>3 DEF UsersPageSound, IsUsersPage
<1> QED
  BY <1>2, <1>4

\* A handler that makes one call, or none.
LEMMA UsersAsk ==
    ASSUME UsersInv, At("users"), NEW p, UsersPageSound(p), NEW op, NEW arg, NEW kept,
           Ask(p, <<Call(op, arg, kept)>>), UsersCallSound(Call(op, arg, kept))
    PROVE  UsersInv'
<1>1. Known(calls)
  BY DEF UsersInv
<1>2. /\ Known(calls') /\ FurtherOn(calls', calls, <<Call(op, arg, kept)>>)
      /\ page' = p
  BY <1>1, AskedCalls
<1>3. PICK new : new = <<Call(op, arg, kept)>>
  OBVIOUS
<1>4. \A k \in DOMAIN new : UsersCallSound(new[k])
  BY <1>3
<1> QED
  BY <1>2, <1>3, <1>4, UsersGoOn

LEMMA UsersBecome ==
    ASSUME UsersInv, At("users"), UsersPageSound(page'), UNCHANGED calls
    PROVE  UsersInv'
  BY DEF UsersInv

LEMMA UsersStepSound ==
    ASSUME UsersInv, At("users"), UsersStep
    PROVE  UsersInv'
<1>1. UsersPageSound(page)
  BY DEF UsersInv
<1>2. CASE OpenUsers
  <2>1. PICK p : p = [page EXCEPT !.busy = {"users"}]
    OBVIOUS
  <2>2. UsersPageSound(p)
    BY <1>1, <2>1, BusySound
  <2>3. Ask(p, <<Call("users", 0, "users")>>)
    BY <1>2, <2>1 DEF OpenUsers, loadUsers
  <2>4. UsersCallSound(Call("users", 0, "users"))
    BY DEF UsersCallSound, Call
  <2> QED
    BY <2>2, <2>3, <2>4, UsersAsk
<1>3. CASE SelectUser
  <2>1. CASE page.selected # ""
    <3>1. page' = Mixed([page EXCEPT !.selected = ""]) /\ UNCHANGED calls
      BY <1>3, <2>1 DEF SelectUser, Become
    <3>2. PICK p : p = [page EXCEPT !.selected = ""]
      OBVIOUS
    <3>3. UsersPageSound(Mixed(p))
      BY <1>1, <3>2, DeselectedSound, MixedSound
    <3> QED
      BY <3>1, <3>2, <3>3, UsersBecome
  <2>2. CASE page.selected = ""
    <3>1. PICK u \in Accounts : Become(Mixed(Selected(page, u, page.users[u])))
      BY <1>3, <2>2 DEF SelectUser
    <3>2. PICK p, row : row = page.users[u] /\ p = Selected(page, u, row)
      OBVIOUS
    <3>3. UsersPageSound(Mixed(p))
      BY <1>1, <3>2, SelectedSound, MixedSound
    <3>4. page' = Mixed(p) /\ UNCHANGED calls
      BY <3>1, <3>2 DEF Become
    <3> QED
      BY <3>3, <3>4, UsersBecome
  <2> QED
    BY <2>1, <2>2
\* Each of the other handlers takes a lock, notes what is under way and calls.
<1>4. ASSUME NEW lock, NEW op, NEW arg,
             Ask(Mixed([page EXCEPT !.busy = @ \union {lock}]), <<Call(op, arg, lock)>>),
             op # "users" => lock \in {"account", "status", "deleting", "creating"},
             op = "update" => arg.of = arg.to
      PROVE  UsersInv'
  <2>1. PICK p : p = [page EXCEPT !.busy = @ \union {lock}]
    OBVIOUS
  <2>2. p = [page EXCEPT !.busy = page.busy \union {lock}]
    BY <2>1
  <2>3. UsersPageSound(p)
    BY <1>1, <2>2, BusySound
  <2>4. PICK q : q = Mixed(p)
    OBVIOUS
  <2>5. UsersPageSound(q) /\ Ask(q, <<Call(op, arg, lock)>>)
    BY <1>4, <2>1, <2>3, <2>4, MixedSound
  <2>6. UsersCallSound(Call(op, arg, lock))
    BY <1>4 DEF UsersCallSound, Call
  <2> QED
    BY <2>5, <2>6, UsersAsk
<1>5. CASE CreateUser
  <2>1. PICK lock, op, arg : lock = "creating" /\ op = "create" /\ arg = "u2"
    OBVIOUS
  <2>2. Ask(Mixed([page EXCEPT !.busy = @ \union {lock}]), <<Call(op, arg, lock)>>)
    BY <1>5, <2>1 DEF CreateUser
  <2> QED
    BY <1>4, <2>1, <2>2
<1>6. CASE handleAccountUpdate
  <2>1. page.selected # ""
    BY <1>6 DEF handleAccountUpdate, Panel
  <2>2. PICK email, role :
          Ask(Mixed([page EXCEPT !.busy = @ \union {"account"}]),
              <<Call("update", [to |-> page.selected, of |-> page.email.of,
                                email |-> email, role |-> role], "account")>>)
    BY <1>6 DEF handleAccountUpdate
  <2>3. PICK arg : arg = [to |-> page.selected, of |-> page.email.of,
                          email |-> email, role |-> role]
    OBVIOUS
  <2>4. arg.of = arg.to
    BY <1>1, <2>1, <2>3 DEF UsersPageSound
  <2> QED
    BY <1>4, <2>2, <2>3, <2>4
<1>7. CASE handleUserStatusUpdate
  <2>1. PICK arg : arg = [to |-> page.selected, active |-> ~page.panel.active]
    OBVIOUS
  <2>2. Ask(Mixed([page EXCEPT !.busy = @ \union {"status"}]),
            <<Call("access", arg, "status")>>)
    BY <1>7, <2>1 DEF handleUserStatusUpdate
  <2> QED
    BY <1>4, <2>2
<1>8. CASE handleDeleteUser
  <2>1. PICK arg : arg = [to |-> page.selected]
    OBVIOUS
  <2>2. Ask(Mixed([page EXCEPT !.busy = @ \union {"deleting"}]),
            <<Call("delete", arg, "deleting")>>)
    BY <1>8, <2>1 DEF handleDeleteUser
  <2> QED
    BY <1>4, <2>2
<1>9. CASE OtherAdmin
  <2>1. page' = page /\ calls' = calls
    BY <1>9 DEF OtherAdmin, Elsewhere
  <2> QED
    BY <1>1, <2>1, UsersBecome
<1> QED
  BY <1>2, <1>3, <1>5, <1>6, <1>7, <1>8, <1>9 DEF UsersStep

LEMMA UsersServeSound ==
    ASSUME UsersInv, At("users"), NEW i \in DOMAIN calls, UsersServe(i) \/ LoseCall(i)
    PROVE  UsersInv'
<1>1. UsersPageSound(page) /\ Known(calls)
  BY DEF UsersInv
<1>2. PICK none : none = <<>>
  OBVIOUS
<1>3. (page' = page /\ Known(calls') /\ FurtherOn(calls', calls, none)) => UsersInv'
  BY <1>1, <1>2, UsersGoOn
<1>4. CASE LoseCall(i)
  BY <1>1, <1>2, <1>3, <1>4, LostCalls
<1>5. ASSUME NEW s, NEW ok \in BOOLEAN, NEW b, Perform(i, s, ok, b) PROVE UsersInv'
  BY <1>1, <1>2, <1>3, <1>5, ServedCalls
<1>6. ASSUME Checked(i) \/ GoneMeanwhile(i) PROVE UsersInv'
  <2>1. page' = page
    BY <1>6 DEF Checked, GoneMeanwhile
  <2>2. PICK state : calls' = [calls EXCEPT ![i].state = state]
    BY <1>6 DEF Checked, GoneMeanwhile
  <2> QED
    BY <1>1, <1>2, <1>3, <2>1, <2>2, MarkedCalls
<1>7. ASSUME NEW u, NEW row, Written(i, u, row) PROVE UsersInv'
  <2>1. page' = page /\ calls' = AnsweredAt(calls, i, "ok", <<row>>)
    BY <1>7 DEF Written, AnsweredAt
  <2>2. IsCalls(calls) /\ IsCall(calls[i])
    BY <1>1 DEF Known
  <2>3. PICK d : /\ calls' = [calls EXCEPT ![i] = d] /\ IsCall(d)
                 /\ d.op = calls[i].op /\ d.arg = calls[i].arg
                 /\ d.kept = calls[i].kept
    BY <2>1, <2>2, AnsweredCall
  <2>4. Same(calls[i], d)
    BY <2>3 DEF Same
  <2> QED
    BY <1>1, <1>2, <1>3, <2>1, <2>3, <2>4, ReplacedCall
<1>8. CASE UserChecked(i)
  <2>1. CASE Refuse(i)
    BY <1>5, <2>1 DEF Refuse
  <2> QED
    BY <1>6, <1>8, <2>1 DEF UserChecked
<1>9. CASE UserWritten(i)
  BY <1>6, <1>7, <1>9 DEF UserWritten
<1>10. CASE At("users") /\ Asked(i, "users") /\ Perform(i, server, TRUE, server.rows)
  BY <1>5, <1>10
<1> QED
  BY <1>4, <1>8, <1>9, <1>10 DEF UsersServe

LEMMA UsersReturnSound ==
    ASSUME UsersInv, At("users"), NEW i \in DOMAIN calls, UsersReturn(i)
    PROVE  UsersInv'
<1>1. UsersPageSound(page) /\ Known(calls) /\ UsersCallSound(calls[i])
  BY DEF UsersInv
<1>2. PICK none : none = <<>>
  OBVIOUS
<1>20. none \in Seq({}) /\ DOMAIN none = {}
  BY <1>2
<1>3. ASSUME NEW p, UsersPageSound(p), Continue(i, p, <<>>) PROVE UsersInv'
  <2>1. Continue(i, p, none)
    BY <1>2, <1>3
  <2>2. Known(calls') /\ FurtherOn(calls', calls, none) /\ page' = p
    BY <1>1, <1>20, <2>1, SpokenCalls
  <2> QED
    BY <1>20, <1>3, <2>2, UsersGoOn
<1>4. ASSUME NEW p, UsersPageSound(p), NEW lock, Continue(i, p, loadUsers(lock))
      PROVE  UsersInv'
  <2>1. PICK c : c = Call("users", 0, lock)
    OBVIOUS
  <2>2. PICK new : new = <<c>>
    OBVIOUS
  <2>3. new \in Seq({c}) /\ \A k \in DOMAIN new : new[k] = c
    BY <2>2
  <2>4. IsCall(c) /\ UsersCallSound(c)
    BY <2>1 DEF Call, IsCall, UsersCallSound
  <2>5. Continue(i, p, new)
    BY <1>4, <2>1, <2>2 DEF loadUsers
  <2>6. Known(calls') /\ FurtherOn(calls', calls, new) /\ page' = p
    BY <1>1, <2>3, <2>4, <2>5, SpokenCalls
  <2> QED
    BY <1>4, <2>3, <2>4, <2>6, UsersGoOn
<1>5. CASE UsersLoaded(i)
  <2>1. PICK rows, others :
           /\ rows = IF calls[i].state = "ok" THEN Body(i)
                     ELSE [u \in Accounts |-> NoAccount]
           /\ others = page.busy \ {calls[i].kept, "users"}
    OBVIOUS
  <2>2. PICK p : p = [page EXCEPT !.users = rows, !.busy = others]
    OBVIOUS
  <2>3. Continue(i, p, <<>>)
    BY <1>5, <2>1, <2>2 DEF UsersLoaded
  <2>4. UsersPageSound(p)
    BY <1>1, <2>2, ListedSound
  <2> QED
    BY <1>3, <2>3, <2>4
<1>6. CASE AccountAnswered(i)
  <2>1. PICK lock : lock = calls[i].kept
    OBVIOUS
  <2>2. lock \in {"account", "status", "deleting", "creating"}
    BY <1>1, <1>6, <2>1 DEF AccountAnswered, UsersCallSound
  <2>3. CASE calls[i].state = "failed"
    <3>1. PICK p : p = [page EXCEPT !.busy = page.busy \ {lock}]
      OBVIOUS
    <3>2. UsersPageSound(p)
      BY <1>1, <3>1, BusySound
    <3>3. Continue(i, p, <<>>)
      BY <1>6, <2>1, <2>3, <3>1 DEF AccountAnswered
    <3> QED
      BY <1>3, <3>2, <3>3
  <2>4. CASE calls[i].state # "failed"
    <3>4. PICK b, p : b = page.busy \union {"users"} /\ p = [page EXCEPT !.busy = b]
      OBVIOUS
    <3>5. p = [page EXCEPT !.busy = @ \union {"users"}]
      BY <3>4
    <3>6. UsersPageSound(p)
      BY <1>1, <3>4, BusySound
    <3>1. CASE lock \in {"account", "status"}
      <4>1. PICK u, row : u = calls[i].arg.to /\ row = Body(i)
        OBVIOUS
      <4>2. PICK q : q = Selected(p, u, row)
        OBVIOUS
      <4>3. UsersPageSound(q)
        BY <3>6, <4>2, SelectedSound
      <4>4. Continue(i, q, loadUsers(lock))
        BY <1>6, <2>1, <2>4, <3>1, <3>5, <4>1, <4>2 DEF AccountAnswered
      <4> QED
        BY <1>4, <4>3, <4>4
    <3>2. CASE lock = "deleting"
      <4>1. PICK q : q = [p EXCEPT !.selected = ""]
        OBVIOUS
      <4>2. UsersPageSound(q)
        BY <3>6, <4>1, DeselectedSound
      <4>3. Continue(i, q, loadUsers(lock))
        BY <1>6, <2>1, <2>4, <3>2, <3>5, <4>1 DEF AccountAnswered
      <4> QED
        BY <1>4, <4>2, <4>3
    <3>3. CASE lock = "creating"
      <4>1. Continue(i, p, loadUsers(lock))
        BY <1>6, <2>1, <2>4, <3>3, <3>5 DEF AccountAnswered
      <4> QED
        BY <1>4, <3>6, <4>1
    <3> QED
      BY <2>2, <3>1, <3>2, <3>3
  <2> QED
    BY <2>3, <2>4
<1> QED
  BY <1>5, <1>6 DEF UsersReturn

LEMMA UsersStart ==
    ASSUME UsersInit
    PROVE  UsersInv
<1>1. PICK rows, p :
         /\ p = [users |-> rows, selected |-> "", panel |-> NoAccount,
                 email |-> [of |-> "", v |-> 0], busy |-> {}, mixed |-> FALSE]
         /\ page = p /\ calls = <<>>
  BY DEF UsersInit, Mount
<1>2. UsersPageSound(p)
  BY <1>1 DEF UsersPageSound, IsUsersPage
<1>3. calls = <<>>
  BY <1>1
<1>4. \A i \in DOMAIN calls : UsersCallSound(calls[i])
  BY <1>3
<1> QED
  BY <1>1, <1>2, <1>4, NoCalls DEF UsersInv

LEMMA UsersAlways == Spec => []UsersInv
<1>1. Init => UsersInv
  <2>1. Init /\ At("users") => UsersInit
    BY MountedAtStart DEF Init, At
  <2> QED
    BY <2>1, UsersStart DEF UsersInv
<1>2. UsersInv /\ [Next]_vars => UsersInv'
  <2> SUFFICES ASSUME UsersInv, [Next]_vars PROVE UsersInv'
    OBVIOUS
  <2>1. CASE ~At("users")
    BY <2>1, StaysMounted DEF UsersInv, At
  <2>2. CASE At("users") /\ Next
    BY <2>2, OnUsers, UsersStepSound, UsersServeSound, UsersReturnSound
  <2>3. CASE UNCHANGED vars
    BY <2>3 DEF vars, UsersInv, At, Known, IsCalls
  <2> QED
    BY <2>1, <2>2, <2>3
<1> QED
  BY <1>1, <1>2, PTL DEF Spec

\* The email that the administrator sees or types for one account is never
\* saved for another, although the answers of earlier changes move the
\* selection of the panel while the form is open.
THEOREM EmailsStayWithAccount ==
    Spec => []EmailStaysWithAccount
<1>1. UsersInv => EmailStaysWithAccount
  BY DEF UsersInv, UsersCallSound, EmailStaysWithAccount
<1> QED
  BY <1>1, UsersAlways, PTL

-----------------------------------------------------------------------------
(* The costs workspace.                                                     *)

IsCostsPage(p) ==
    /\ p = [offered |-> p.offered, shipment |-> p.shipment, existing |-> p.existing,
            form |-> p.form, busy |-> p.busy, error |-> p.error,
            tracker |-> p.tracker, moved |-> p.moved]
    /\ p.tracker \in Nat

\* Unless a sheet is being loaded, the form holds the chosen shipment's.
CostsPageSound(p) ==
    /\ IsCostsPage(p)
    /\ (p.shipment # "" /\ "context" \notin p.busy) => p.form.of = p.shipment

\* The last load is about the shipment that is chosen, if one is.
CostsCallSound(c, p) ==
    /\ c.op = "cost" =>
          /\ c.kept \in Nat /\ c.kept <= p.tracker
          /\ (c.kept = p.tracker /\ p.shipment # "") => c.arg = p.shipment
    /\ c.op = "save" => c.arg.of = c.arg.to

\* Nothing is chosen before the first call.
CostsMade ==
    /\ made \in Nat
    /\ made = 0 => calls = <<>> /\ ~page.offered /\ page.shipment = ""

CostsInv ==
    At("costs") =>
        /\ Known(calls) /\ CostsPageSound(page) /\ CostsMade
        /\ \A i \in DOMAIN calls : CostsCallSound(calls[i], page)

\* The page p moves on to q: it stays with its choice and its last load, it
\* drops the choice, or it loads anew.
GoesOnTo(p, q) ==
    \/ q.tracker = p.tracker /\ q.shipment \in {p.shipment, ""}
    \/ q.tracker = p.tracker + 1

LEMMA CostsGoOn ==
    ASSUME CostsInv, At("costs"), NEW q, page' = q, CostsPageSound(q), GoesOnTo(page, q),
           Known(calls'), NEW new, FurtherOn(calls', calls, new),
           \A k \in DOMAIN new : CostsCallSound(new[k], q), CostsMade'
    PROVE  CostsInv'
<1>1. PICK p : p = page /\ CostsPageSound(p) /\ GoesOnTo(p, q)
  BY DEF CostsInv
<1>2. p.tracker \in Nat /\ q.tracker \in Nat
  BY <1>1 DEF CostsPageSound, IsCostsPage
<1>3. ASSUME NEW c, NEW d, CostsCallSound(c, p), Same(c, d) PROVE CostsCallSound(d, q)
  <2>1. d.op = "save" => d.arg.of = d.arg.to
    BY <1>3 DEF CostsCallSound, Same
  <2>2. CASE d.op = "cost"
    <3>1. /\ d.kept \in Nat /\ d.kept <= p.tracker
          /\ (d.kept = p.tracker /\ p.shipment # "") => d.arg = p.shipment
      BY <1>3, <2>2 DEF CostsCallSound, Same
    <3>2. CASE q.tracker = p.tracker /\ q.shipment \in {p.shipment, ""}
      BY <2>1, <2>2, <3>1, <3>2 DEF CostsCallSound
    <3>3. CASE q.tracker = p.tracker + 1
      <4>1. PICK a \in Nat, b \in Nat : a = p.tracker /\ b = d.kept
        BY <1>2, <3>1
      <4>2. b <= a
        BY <3>1, <4>1
      <4>3. b <= a + 1 /\ b # a + 1
        BY <4>2
      <4>4. d.kept <= q.tracker /\ d.kept # q.tracker
        BY <3>3, <4>1, <4>3
      <4> QED
        BY <2>1, <2>2, <3>1, <4>4 DEF CostsCallSound
    <3> QED
      BY <1>1, <3>2, <3>3 DEF GoesOnTo
  <2> QED
    BY <2>1, <2>2 DEF CostsCallSound
<1>4. \A i \in DOMAIN calls : CostsCallSound(calls[i], p)
  BY <1>1 DEF CostsInv
<1>5. \A j \in DOMAIN calls' : CostsCallSound(calls'[j], q)
  BY <1>3, <1>4 DEF FurtherOn
<1> QED
  BY <1>5 DEF CostsInv

LEMMA CostsPageIs ==
    ASSUME NEW p, CostsPageSound(p)
    PROVE  \E offered, shipment, existing, form, busy, error, moved : \E tracker \in Nat :
             p = [offered |-> offered, shipment |-> shipment, existing |-> existing,
                  form |-> form, busy |-> busy, error |-> error,
                  tracker |-> tracker, moved |-> moved]
  BY DEF CostsPageSound, IsCostsPage

\* The effect on the choice, from a page p whose form may hold anything: it
\* loads the sheet of the shipment that is chosen anew.
LEMMA ChoosingSound ==
    ASSUME NEW p, IsCostsPage(p), NEW s,
           s = p.shipment => CostsPageSound(p)
    PROVE  LET q == ChooseShipment(p, s)
           IN  /\ CostsPageSound(q) /\ GoesOnTo(p, q)
               /\ q.tracker # p.tracker => q.shipment = s /\ q.tracker = p.tracker + 1
<1>1. PICK offered, shipment, existing, form, busy, error, tracker, moved :
         /\ tracker \in Nat
         /\ p = [offered |-> offered, shipment |-> shipment, existing |-> existing,
                 form |-> form, busy |-> busy, error |-> error,
                 tracker |-> tracker, moved |-> moved]
  BY DEF IsCostsPage
<1>2. PICK q : q = ChooseShipment(p, s)
  OBVIOUS
<1>3. CASE s = p.shipment
  <2>1. q = p
    BY <1>2, <1>3 DEF ChooseShipment
  <2> QED
    BY <1>2, <1>3, <2>1 DEF GoesOnTo
<1>4. CASE s # p.shipment /\ s = ""
  <2>1. q = [p EXCEPT !.shipment = "", !.existing = FALSE, !.error = FALSE,
                      !.busy = p.busy \ {"context"}]
    BY <1>2, <1>4 DEF ChooseShipment
  <2>2. q = [offered |-> offered, shipment |-> "", existing |-> FALSE, form |-> form,
             busy |-> busy \ {"context"}, error |-> FALSE, tracker |-> tracker,
             moved |-> moved]
    BY <1>1, <2>1
  <2>3. CostsPageSound(q) /\ q.tracker = p.tracker /\ q.shipment = ""
    BY <1>1, <2>2 DEF CostsPageSound, IsCostsPage
  <2> QED
    BY <1>2, <2>3 DEF GoesOnTo
<1>5. CASE s # p.shipment /\ s # ""
  <2>1. q = [p EXCEPT !.shipment = s, !.tracker = p.tracker + 1, !.error = FALSE,
                      !.busy = p.busy \union {"context"}]
    BY <1>2, <1>5 DEF ChooseShipment, BeginRequest
  <2>2. q = [offered |-> offered, shipment |-> s, existing |-> existing, form |-> form,
             busy |-> busy \union {"context"}, error |-> FALSE, tracker |-> tracker + 1,
             moved |-> moved]
    BY <1>1, <2>1
  <2>3. q.tracker = tracker + 1 /\ q.shipment = s /\ "context" \in q.busy
    BY <2>2
  <2>4. tracker + 1 \in Nat /\ p.tracker = tracker
    BY <1>1
  <2>5. IsCostsPage(q)
    BY <2>2, <2>3, <2>4 DEF IsCostsPage
  <2>6. CostsPageSound(q) /\ q.tracker = p.tracker + 1 /\ q.shipment = s
    BY <2>3, <2>4, <2>5 DEF CostsPageSound
  <2> QED
    BY <1>2, <2>6 DEF GoesOnTo
<1> QED
  BY <1>3, <1>4, <1>5

LEMMA LoadCallSound ==
    ASSUME NEW q, IsCostsPage(q), NEW arg, arg = q.shipment, NEW kept, kept = q.tracker
    PROVE  CostsCallSound(Call("cost", arg, kept), q)
<1>1. PICK c : c = Call("cost", arg, kept)
  OBVIOUS
<1>2. c.op = "cost" /\ c.arg = arg /\ c.kept = kept /\ c.op # "save"
  BY <1>1 DEF Call
<1>3. PICK n \in Nat : n = q.tracker
  BY DEF IsCostsPage
<1>4. c.kept \in Nat /\ c.kept <= q.tracker
  BY <1>2, <1>3
<1>5. CostsCallSound(c, q)
  BY <1>2, <1>4 DEF CostsCallSound
<1> QED
  BY <1>1, <1>5

\* The load that a choice makes, if it makes one.
LEMMA ContextLoadSound ==
    ASSUME NEW p, NEW q, CostsPageSound(q), NEW new, new = ContextLoad(p, q)
    PROVE  /\ \E T : new \in Seq(T)
           /\ \A k \in DOMAIN new : IsCall(new[k]) /\ CostsCallSound(new[k], q)
<1>1. CASE q.tracker = p.tracker
  BY <1>1, NoCall DEF ContextLoad
<1>2. CASE q.tracker # p.tracker
  <2>1. PICK arg, kept : arg = q.shipment /\ kept = q.tracker
    OBVIOUS
  <2>2. new = <<Call("cost", arg, kept)>>
    BY <1>2, <2>1 DEF ContextLoad
  <2>3. IsCostsPage(q)
    BY DEF CostsPageSound
  <2>4. CostsCallSound(Call("cost", arg, kept), q)
    BY <2>1, <2>3, LoadCallSound
  <2> QED
    BY <2>2, <2>4, OneCall
<1> QED
  BY <1>1, <1>2

\* The page asks for, or goes on after call i with, the calls of new.
LEMMA CostsProceed ==
    ASSUME CostsInv, At("costs"), NEW q, CostsPageSound(q), GoesOnTo(page, q),
           NEW new, \E T : new \in Seq(T),
           \A k \in DOMAIN new : IsCall(new[k]) /\ CostsCallSound(new[k], q),
           \/ Ask(q, new) /\ (made # 0 \/ Len(new) # 0)
           \/ \E i \in DOMAIN calls : Continue(i, q, new)
    PROVE  CostsInv'
<1>1. Known(calls) /\ CostsMade
  BY DEF CostsInv
<1>2. Known(calls') /\ FurtherOn(calls', calls, new) /\ page' = q
  BY <1>1, AskedMore, SpokenCalls
<1>3. made # 0 \/ Len(new) # 0
  <2>1. made = 0 => DOMAIN calls = {}
    BY <1>1, NoCalls DEF CostsMade
  <2> QED
    BY <2>1
<1>4. made' \in Nat /\ made' # 0
  <2>1. PICK T : new \in Seq(T)
    OBVIOUS
  <2>2. made \in Nat /\ (Ask(q, new) \/ \E i \in DOMAIN calls : Continue(i, q, new))
    BY <1>1 DEF CostsMade
  <2> QED
    BY <1>3, <2>1, <2>2, MadeCalls
<1>5. CostsMade'
  BY <1>4 DEF CostsMade
<1> QED
  BY <1>2, <1>5, CostsGoOn

LEMMA CostsStays ==
    ASSUME CostsInv, At("costs"), NEW q, IsCostsPage(q), NEW i \in DOMAIN calls,
           q.tracker = page.tracker, q.shipment = page.shipment,
           CostsPageSound(q), Continue(i, q, <<>>)
    PROVE  CostsInv'
<1>1. PICK new : new = <<>>
  OBVIOUS
<1>2. Continue(i, q, new) /\ GoesOnTo(page, q)
  BY <1>1 DEF GoesOnTo
<1> QED
  BY <1>1, <1>2, NoCall, CostsProceed

LEMMA MovedSound ==
    ASSUME NEW p, CostsPageSound(p), NEW more, NEW q, q = [p EXCEPT !.moved = more]
    PROVE  CostsPageSound(q) /\ q.tracker = p.tracker /\ q.shipment = p.shipment
<1>1. PICK offered, shipment, existing, form, busy, error, tracker, moved :
         /\ tracker \in Nat
         /\ p = [offered |-> offered, shipment |-> shipment, existing |-> existing,
                 form |-> form, busy |-> busy, error |-> error,
                 tracker |-> tracker, moved |-> moved]
  BY CostsPageIs
<1>2. q = [offered |-> offered, shipment |-> shipment, existing |-> existing,
           form |-> form, busy |-> busy, error |-> error,
           tracker |-> tracker, moved |-> more]
  BY <1>1
<1> QED
  BY <1>1, <1>2 DEF CostsPageSound, IsCostsPage

LEMMA CostsStepSound ==
    ASSUME CostsInv, At("costs"), CostsStep
    PROVE  CostsInv'
<1>1. CostsPageSound(page) /\ Known(calls)
  BY DEF CostsInv
<1>2. PICK offered, shipment, existing, form, busy, error, tracker, moved :
         /\ tracker \in Nat
         /\ page = [offered |-> offered, shipment |-> shipment, existing |-> existing,
                    form |-> form, busy |-> busy, error |-> error,
                    tracker |-> tracker, moved |-> moved]
  BY <1>1, CostsPageIs
<1>3. CASE OpenCosts \/ retryShipments
  <2>1. PICK q, new : /\ q = [page EXCEPT !.busy = {"shipments"}]
                      /\ new = <<Call("shipments", 0, 0)>>
    OBVIOUS
  <2>2. Ask(q, new) /\ (made = 0 \/ page.busy = {})
    BY <1>3, <2>1 DEF OpenCosts, retryShipments
  <2>3. q = [offered |-> offered, shipment |-> shipment, existing |-> existing,
             form |-> form, busy |-> {"shipments"}, error |-> error,
             tracker |-> tracker, moved |-> moved]
    BY <1>2, <2>1
  <2>4. shipment = "" \/ form.of = shipment
    BY <1>1, <1>2, <2>2 DEF CostsPageSound, CostsMade, CostsInv
  <2>5. CostsPageSound(q) /\ GoesOnTo(page, q)
    BY <1>2, <2>3, <2>4 DEF CostsPageSound, IsCostsPage, GoesOnTo
  <2>6. CostsCallSound(Call("shipments", 0, 0), q)
    BY DEF CostsCallSound, Call
  <2> QED
    BY <2>1, <2>2, <2>5, <2>6, OneCall, CostsProceed
<1>4. CASE handleShipmentChange
  <2>1. PICK s : LET p == [ChooseShipment(page, s) EXCEPT
                             !.moved = @ \/ "saving" \in page.busy]
                 IN  s # page.shipment /\ Ask(p, ContextLoad(page, p))
    BY <1>4 DEF handleShipmentChange
  <2>2. PICK p, more : /\ p = ChooseShipment(page, s)
                       /\ more = (p.moved \/ "saving" \in page.busy)
    OBVIOUS
  <2>3. PICK q : q = [p EXCEPT !.moved = more]
    OBVIOUS
  <2>4. Ask(q, ContextLoad(page, q))
    BY <2>1, <2>2, <2>3
  <2>5. CostsPageSound(p) /\ GoesOnTo(page, p)
    BY <1>1, <2>2, ChoosingSound DEF CostsPageSound
  <2>6. CostsPageSound(q) /\ q.tracker = p.tracker /\ q.shipment = p.shipment
    BY <2>3, <2>5, MovedSound
  <2>7. GoesOnTo(page, q)
    BY <2>5, <2>6 DEF GoesOnTo
  <2>8. made # 0
    BY <1>4 DEF CostsInv, CostsMade, handleShipmentChange
  <2>9. PICK new : new = ContextLoad(page, q)
    OBVIOUS
  <2>10. /\ \E T : new \in Seq(T)
         /\ \A k \in DOMAIN new : IsCall(new[k]) /\ CostsCallSound(new[k], q)
    BY <1>1, <2>6, <2>9, ContextLoadSound
  <2> QED
    BY <2>4, <2>6, <2>7, <2>8, <2>9, <2>10, CostsProceed
<1>5. CASE retryContext
  <2>1. PICK q, new :
          /\ q = [page EXCEPT !.tracker = tracker + 1, !.error = FALSE,
                              !.busy = busy \union {"context"}]
          /\ new = <<Call("cost", shipment, tracker + 1)>>
    OBVIOUS
  <2>2. Ask(q, new)
    BY <1>2, <1>5, <2>1 DEF retryContext, BeginRequest
  <2>3. q = [offered |-> offered, shipment |-> shipment, existing |-> existing,
             form |-> form, busy |-> busy \union {"context"}, error |-> FALSE,
             tracker |-> tracker + 1, moved |-> moved]
    BY <1>2, <2>1
  <2>4. CostsPageSound(q) /\ GoesOnTo(page, q)
    BY <1>2, <2>3 DEF CostsPageSound, IsCostsPage, GoesOnTo
  <2>5. PICK kept : kept = tracker + 1
    OBVIOUS
  <2>6. shipment = q.shipment /\ kept = q.tracker /\ IsCostsPage(q)
    BY <2>3, <2>4, <2>5 DEF CostsPageSound
  <2>7. CostsCallSound(Call("cost", shipment, kept), q)
    BY <2>6, LoadCallSound
  <2> QED
    BY <2>1, <2>2, <2>4, <2>5, <2>6, <2>7, OneCall, CostsProceed
<1>6. CASE handleCostSubmit
  <2>1. PICK typed \in BOOLEAN :
          Ask([page EXCEPT !.busy = @ \union {"saving"}],
              <<Call("save", [to |-> page.shipment, update |-> page.existing,
                              of |-> IF typed THEN page.shipment ELSE page.form.of,
                              amounts |-> IF typed THEN 2 ELSE page.form.amounts],
                     page.existing)>>)
    BY <1>6 DEF handleCostSubmit
  <2>2. PICK of, amounts : /\ of = IF typed THEN shipment ELSE form.of
                           /\ amounts = IF typed THEN 2 ELSE form.amounts
    OBVIOUS
  <2>3. PICK arg : arg = [to |-> shipment, update |-> existing, of |-> of,
                          amounts |-> amounts]
    OBVIOUS
  <2>4. PICK q, new : /\ q = [page EXCEPT !.busy = busy \union {"saving"}]
                      /\ new = <<Call("save", arg, existing)>>
    OBVIOUS
  <2>5. Ask(q, new)
    BY <1>2, <2>1, <2>2, <2>3, <2>4
  <2>6. q = [offered |-> offered, shipment |-> shipment, existing |-> existing,
             form |-> form, busy |-> busy \union {"saving"}, error |-> error,
             tracker |-> tracker, moved |-> moved]
    BY <1>2, <2>4
  <2>7. shipment # "" /\ "context" \notin busy /\ form.of = shipment
    BY <1>1, <1>2, <1>6 DEF handleCostSubmit, CostsPageSound
  <2>8. CostsPageSound(q) /\ GoesOnTo(page, q)
    BY <1>2, <2>6, <2>7 DEF CostsPageSound, IsCostsPage, GoesOnTo
  <2>9. of = shipment /\ arg.of = arg.to
    BY <2>2, <2>3, <2>7
  <2>10. CostsCallSound(Call("save", arg, existing), q)
    BY <2>9 DEF CostsCallSound, Call
  <2> QED
    BY <2>4, <2>5, <2>8, <2>9, <2>10, OneCall, CostsProceed
<1>7. CASE OtherCosts
  <2>1. page' = page /\ calls' = calls /\ made' = made
    BY <1>7 DEF OtherCosts, Elsewhere
  <2> QED
    BY <2>1 DEF CostsInv, CostsMade
<1> QED
  BY <1>3, <1>4, <1>5, <1>6, <1>7 DEF CostsStep

LEMMA CostsServeSound ==
    ASSUME CostsInv, At("costs"), NEW i \in DOMAIN calls, CostsServe(i) \/ LoseCall(i)
    PROVE  CostsInv'
<1>1. CostsPageSound(page) /\ Known(calls) /\ CostsMade
  BY DEF CostsInv
<1>2. PICK none : none = <<>>
  OBVIOUS
<1>3. ASSUME page' = page, Known(calls'), FurtherOn(calls', calls, none), made' = made
      PROVE  CostsInv'
  <2>1. CostsMade'
    <3>1. made = 0 => DOMAIN calls = {}
      BY <1>1, NoCalls DEF CostsMade
    <3>2. made # 0
      BY <3>1
    <3> QED
      BY <1>1, <1>3, <3>2 DEF CostsMade
  <2>2. GoesOnTo(page, page) /\ DOMAIN none = {}
    BY <1>2, NoCall DEF GoesOnTo
  <2> QED
    BY <1>1, <1>3, <2>1, <2>2, CostsGoOn
<1>4. CASE LoseCall(i)
  <2>1. made' = made
    BY <1>4 DEF LoseCall
  <2> QED
    BY <1>1, <1>2, <1>3, <1>4, <2>1, LostCalls
<1>5. ASSUME NEW s, NEW ok \in BOOLEAN, NEW b, Perform(i, s, ok, b) PROVE CostsInv'
  <2>1. made' = made
    BY <1>5 DEF Perform
  <2> QED
    BY <1>1, <1>2, <1>3, <1>5, <2>1, ServedCalls
<1>6. CASE CostsServe(i)
  <2>1. CASE Asked(i, "shipments")
    BY <1>5, <1>6, <2>1 DEF CostsServe, Asked
  <2>2. CASE Asked(i, "cost")
    BY <1>5, <1>6, <2>2 DEF CostsServe, Asked
  <2>3. CASE Asked(i, "save")
    <3>1. CASE Refuse(i)
      BY <1>5, <3>1 DEF Refuse
    <3>2. CASE ~Refuse(i)
      <4>1. PICK s, b : /\ s = [server EXCEPT !.sheets[calls[i].arg.to]
                                                  = calls[i].arg.amounts]
                        /\ b = calls[i].arg.amounts
        OBVIOUS
      <4>2. Perform(i, s, TRUE, b)
        BY <1>6, <2>3, <3>2, <4>1 DEF CostsServe, Asked
      <4> QED
        BY <1>5, <4>2
    <3> QED
      BY <3>1, <3>2
  <2> QED
    BY <1>6, <2>1, <2>2, <2>3 DEF CostsServe
<1> QED
  BY <1>4, <1>6

LEMMA CostsReturnSound ==
    ASSUME CostsInv, At("costs"), NEW i \in DOMAIN calls, CostsReturn(i)
    PROVE  CostsInv'
<1>1. CostsPageSound(page) /\ Known(calls) /\ CostsCallSound(calls[i], page)
  BY DEF CostsInv
<1>2. PICK offered, shipment, existing, form, busy, error, tracker, moved :
         /\ tracker \in Nat
         /\ page = [offered |-> offered, shipment |-> shipment, existing |-> existing,
                    form |-> form, busy |-> busy, error |-> error,
                    tracker |-> tracker, moved |-> moved]
  BY <1>1, CostsPageIs
\* The page goes on as p, and makes the choice s.
<1>3. ASSUME NEW p, IsCostsPage(p), p.tracker = page.tracker, p.shipment = page.shipment,
             NEW s, s = p.shipment => CostsPageSound(p), NEW base, base.tracker = p.tracker,
             Continue(i, ChooseShipment(p, s), ContextLoad(base, ChooseShipment(p, s)))
      PROVE  CostsInv'
  <2>1. PICK q, new : q = ChooseShipment(p, s) /\ new = ContextLoad(base, q)
    OBVIOUS
  <2>2. CostsPageSound(q) /\ GoesOnTo(p, q)
    BY <1>3, <2>1, ChoosingSound
  <2>3. GoesOnTo(page, q)
    BY <1>3, <2>2 DEF GoesOnTo
  <2>4. /\ \E T : new \in Seq(T)
        /\ \A k \in DOMAIN new : IsCall(new[k]) /\ CostsCallSound(new[k], q)
    BY <2>1, <2>2, ContextLoadSound
  <2>5. Continue(i, q, new)
    BY <1>3, <2>1
  <2> QED
    BY <2>2, <2>3, <2>4, <2>5, CostsProceed
<1>4. CASE ShipmentsLoaded(i)
  <2>1. PICK p, q : /\ p = [page EXCEPT !.busy = busy \ {"shipments"}]
                    /\ q = [p EXCEPT !.offered = TRUE]
    OBVIOUS
  <2>2. /\ p = [offered |-> offered, shipment |-> shipment, existing |-> existing,
                form |-> form, busy |-> busy \ {"shipments"}, error |-> error,
                tracker |-> tracker, moved |-> moved]
        /\ q = [offered |-> TRUE, shipment |-> shipment, existing |-> existing,
                form |-> form, busy |-> busy \ {"shipments"}, error |-> error,
                tracker |-> tracker, moved |-> moved]
    BY <1>2, <2>1
  <2>3. shipment # "" /\ "context" \notin busy => form.of = shipment
    BY <1>1, <1>2 DEF CostsPageSound
  <2>4. /\ IsCostsPage(p) /\ CostsPageSound(p) /\ IsCostsPage(q) /\ CostsPageSound(q)
        /\ p.tracker = page.tracker /\ q.tracker = page.tracker
        /\ p.shipment = page.shipment /\ q.shipment = page.shipment
    BY <1>2, <2>2, <2>3 DEF CostsPageSound, IsCostsPage
  <2>5. CASE Continue(i, p, <<>>)
    BY <2>4, <2>5, CostsStays
  <2>6. CASE Continue(i, ChooseShipment(q, "s1"), ContextLoad(p, ChooseShipment(q, "s1")))
    BY <1>3, <2>4, <2>6
  <2> QED
    BY <1>2, <1>4, <2>1, <2>5, <2>6 DEF ShipmentsLoaded
<1>5. CASE ContextLoaded(i)
  <2>1. CASE ~IsCurrentRequest(calls[i].kept, page.tracker)
    <3>1. Continue(i, page, <<>>) /\ IsCostsPage(page)
      BY <1>1, <1>5, <2>1 DEF ContextLoaded, CostsPageSound
    <3> QED
      BY <1>1, <3>1, CostsStays
  <2>2. CASE IsCurrentRequest(calls[i].kept, page.tracker)
    <3>1. PICK amounts, failed, of :
             /\ amounts = IF calls[i].state = "ok" THEN Body(i) ELSE 0
             /\ failed = (calls[i].state = "failed")
             /\ of = calls[i].arg
      OBVIOUS
    <3>2. PICK q : q = [page EXCEPT !.busy = busy \ {"context"},
                                    !.existing = (amounts # 0), !.error = failed,
                                    !.form = [of |-> of, amounts |-> amounts]]
      OBVIOUS
    <3>3. Continue(i, q, <<>>)
      BY <1>2, <1>5, <2>2, <3>1, <3>2 DEF ContextLoaded
    <3>4. q = [offered |-> offered, shipment |-> shipment, existing |-> (amounts # 0),
               form |-> [of |-> of, amounts |-> amounts], busy |-> busy \ {"context"},
               error |-> failed, tracker |-> tracker, moved |-> moved]
      BY <1>2, <3>2
    <3>5. shipment # "" => of = shipment
      BY <1>1, <1>2, <1>5, <2>2, <3>1 DEF CostsCallSound, ContextLoaded, IsCurrentRequest
    <3>6. /\ IsCostsPage(q) /\ CostsPageSound(q) /\ q.tracker = page.tracker
          /\ q.shipment = page.shipment
      BY <1>2, <3>4, <3>5 DEF CostsPageSound, IsCostsPage
    <3> QED
      BY <3>3, <3>6, CostsStays
  <2> QED
    BY <2>1, <2>2
<1>6. CASE CostsSaved(i)
  <2>1. PICK p : p = [page EXCEPT !.busy = busy \ {"saving"}]
    OBVIOUS
  <2>2. p = [offered |-> offered, shipment |-> shipment, existing |-> existing,
             form |-> form, busy |-> busy \ {"saving"}, error |-> error,
             tracker |-> tracker, moved |-> moved]
    BY <1>2, <2>1
  <2>3. shipment # "" /\ "context" \notin busy => form.of = shipment
    BY <1>1, <1>2 DEF CostsPageSound
  <2>4. /\ IsCostsPage(p) /\ CostsPageSound(p) /\ p.tracker = page.tracker
        /\ p.shipment = page.shipment
    BY <1>2, <2>2, <2>3 DEF CostsPageSound, IsCostsPage
  <2>5. CASE calls[i].state # "ok"
    <3>1. Continue(i, p, <<>>)
      BY <1>2, <1>6, <2>1, <2>5 DEF CostsSaved
    <3> QED
      BY <2>4, <3>1, CostsStays
  <2>6. CASE calls[i].state = "ok"
    <3>1. PICK to, amounts : to = calls[i].arg.to /\ amounts = Body(i)
      OBVIOUS
    <3>2. PICK saved : saved = [p EXCEPT !.existing = TRUE, !.error = FALSE,
                                         !.form = [of |-> to, amounts |-> amounts]]
      OBVIOUS
    <3>3. Continue(i, ChooseShipment(saved, to),
                   ContextLoad(p, ChooseShipment(saved, to)))
      BY <1>2, <1>6, <2>1, <2>6, <3>1, <3>2 DEF CostsSaved
    <3>4. saved = [offered |-> offered, shipment |-> shipment, existing |-> TRUE,
                   form |-> [of |-> to, amounts |-> amounts], busy |-> busy \ {"saving"},
                   error |-> FALSE, tracker |-> tracker, moved |-> moved]
      BY <2>2, <3>2
    <3>5. /\ IsCostsPage(saved) /\ saved.tracker = page.tracker
          /\ saved.shipment = page.shipment /\ p.tracker = saved.tracker
          /\ to = saved.shipment => CostsPageSound(saved)
      BY <1>2, <2>4, <3>4 DEF CostsPageSound, IsCostsPage
    <3> QED
      BY <1>3, <3>3, <3>5
  <2> QED
    BY <2>5, <2>6
<1> QED
  BY <1>4, <1>5, <1>6 DEF CostsReturn

LEMMA CostsStart ==
    ASSUME CostsInit
    PROVE  CostsInv
<1>1. PICK p : /\ p = [offered |-> FALSE, shipment |-> "", existing |-> FALSE,
                       form |-> EmptyForm, busy |-> {}, error |-> FALSE,
                       tracker |-> 0, moved |-> FALSE]
               /\ page = p /\ calls = <<>> /\ made = 0
  BY DEF CostsInit, Mount
<1>2. CostsPageSound(p) /\ ~p.offered /\ p.shipment = ""
  BY <1>1 DEF CostsPageSound, IsCostsPage
<1>3. calls = <<>> /\ made = 0 /\ page = p
  BY <1>1
<1>4. CostsMade
  BY <1>2, <1>3 DEF CostsMade
<1> QED
  BY <1>2, <1>3, <1>4, NoCalls DEF CostsInv

LEMMA CostsAlways == Spec => []CostsInv
<1>1. Init => CostsInv
  <2>1. Init /\ At("costs") => CostsInit
    BY MountedAtStart DEF Init, At
  <2> QED
    BY <2>1, CostsStart DEF CostsInv
<1>2. CostsInv /\ [Next]_vars => CostsInv'
  <2> SUFFICES ASSUME CostsInv, [Next]_vars PROVE CostsInv'
    OBVIOUS
  <2>1. CASE ~At("costs")
    BY <2>1, StaysMounted DEF CostsInv, At
  <2>2. CASE At("costs") /\ Next
    BY <2>2, OnCosts, CostsStepSound, CostsServeSound, CostsReturnSound
  <2>3. CASE UNCHANGED vars
    BY <2>3 DEF vars, CostsInv, At, Known, IsCalls, CostsMade
  <2> QED
    BY <2>1, <2>2, <2>3
<1> QED
  BY <1>1, <1>2, PTL DEF Spec

\* The amounts that were loaded or typed for one shipment are never saved in
\* the sheet of another, although the answer to a save moves the choice back
\* while the user has moved it on.
THEOREM AmountsAlwaysStay ==
    Spec => []AmountsStayWithShipment
<1>1. CostsInv => AmountsStayWithShipment
  BY DEF CostsInv, CostsCallSound, AmountsStayWithShipment
<1> QED
  BY <1>1, CostsAlways, PTL

-----------------------------------------------------------------------------
(* The notes workspace.                                                     *)

IsNotesPage(p) ==
    /\ p = [search |-> p.search, offered |-> p.offered, type |-> p.type,
            entity |-> p.entity, key |-> p.key, notes |-> p.notes, busy |-> p.busy,
            entitiesTracker |-> p.entitiesTracker, notesTracker |-> p.notesTracker,
            failed |-> p.failed]
    /\ p.notesTracker \in Nat

AllOf(notes, entity) == \A n \in notes : n[1] = entity

\* The list was loaded for the entity that is chosen, if one is.
NotesPageSound(p) ==
    /\ IsNotesPage(p) /\ p.key = p.entity
    /\ p.key # "" => AllOf(p.notes, p.key)

\* The last load is for that entity too, unless the choice was emptied.
NotesCallSound(c, p) ==
    /\ c.op = "notes" =>
          /\ c.kept.id \in Nat /\ c.kept.id <= p.notesTracker
          /\ (c.kept.id = p.notesTracker /\ p.key # "") => c.arg = p.key
          /\ c.state = "ok" => AllOf(Head(c.body), c.arg)
    /\ (c.op = "create" /\ c.state = "ok") => Head(c.body)[1] = c.arg

NotesInv ==
    At("notes") =>
        /\ Known(calls) /\ NotesPageSound(page)
        /\ \A i \in DOMAIN calls : NotesCallSound(calls[i], page)

\* The page p moves on to q: with its list and last load, without a choice,
\* or with a new load.
TurnsTo(p, q) ==
    \/ q.notesTracker = p.notesTracker /\ q.key \in {p.key, ""}
    \/ q.notesTracker = p.notesTracker + 1

LEMMA NotesGoOn ==
    ASSUME NotesInv, At("notes"), NEW q, page' = q, NotesPageSound(q), TurnsTo(page, q),
           Known(calls'), NEW new, OnlyFrom(calls', calls, new),
           \A k \in DOMAIN new : NotesCallSound(new[k], q)
    PROVE  NotesInv'
<1>1. PICK p : p = page /\ NotesPageSound(p) /\ TurnsTo(p, q)
  BY DEF NotesInv
<1>2. p.notesTracker \in Nat /\ q.notesTracker \in Nat
  BY <1>1 DEF NotesPageSound, IsNotesPage
<1>3. ASSUME NEW c, NotesCallSound(c, p) PROVE NotesCallSound(c, q)
  <2>1. CASE c.op = "notes"
    <3>1. /\ c.kept.id \in Nat /\ c.kept.id <= p.notesTracker
          /\ (c.kept.id = p.notesTracker /\ p.key # "") => c.arg = p.key
      BY <1>3, <2>1 DEF NotesCallSound
    <3>2. CASE q.notesTracker = p.notesTracker /\ q.key \in {p.key, ""}
      BY <1>3, <2>1, <3>1, <3>2 DEF NotesCallSound
    <3>3. CASE q.notesTracker = p.notesTracker + 1
      <4>1. PICK a \in Nat, b \in Nat : a = p.notesTracker /\ b = c.kept.id
        BY <1>2, <3>1
      <4>2. b <= a
        BY <3>1, <4>1
      <4>3. b <= a + 1 /\ b # a + 1
        BY <4>2
      <4>4. c.kept.id <= q.notesTracker /\ c.kept.id # q.notesTracker
        BY <3>3, <4>1, <4>3
      <4> QED
        BY <1>3, <2>1, <3>1, <4>4 DEF NotesCallSound
    <3> QED
      BY <1>1, <3>2, <3>3 DEF TurnsTo
  <2> QED
    BY <1>3, <2>1 DEF NotesCallSound
<1>4. \A i \in DOMAIN calls : NotesCallSound(calls[i], p)
  BY <1>1 DEF NotesInv
<1>5. \A j \in DOMAIN calls' : NotesCallSound(calls'[j], q)
  BY <1>3, <1>4 DEF OnlyFrom
<1> QED
  BY <1>5 DEF NotesInv

LEMMA NextRequest ==
    ASSUME NEW n \in Nat
    PROVE  n + 1 \in Nat
  OBVIOUS

LEMMA NotesPageIs ==
    ASSUME NEW p, IsNotesPage(p)
    PROVE  \E search, offered, type, entity, key, notes, busy, asked, failed :
           \E tracker \in Nat :
             p = [search |-> search, offered |-> offered, type |-> type,
                  entity |-> entity, key |-> key, notes |-> notes, busy |-> busy,
                  entitiesTracker |-> asked, notesTracker |-> tracker,
                  failed |-> failed]
  BY DEF IsNotesPage

\* The effect on the choice.
LEMMA ChooseSound ==
    ASSUME NEW p, IsNotesPage(p), p.key = p.entity, NEW type, NEW entity, NEW refresh,
           (entity = p.key /\ entity # "") => AllOf(p.notes, entity)
    PROVE  LET q == Choose(p, type, entity, refresh)
           IN  NotesPageSound(q) /\ TurnsTo(p, q)
<1>1. PICK search, offered, chosen, notes, busy, asked, failed, old, tracker :
         /\ tracker \in Nat
         /\ p = [search |-> search, offered |-> offered, type |-> chosen,
                 entity |-> old, key |-> old, notes |-> notes, busy |-> busy,
                 entitiesTracker |-> asked, notesTracker |-> tracker,
                 failed |-> failed]
  BY DEF IsNotesPage
<1>2. PICK q, r : /\ q = [p EXCEPT !.type = type, !.entity = entity]
                  /\ r = Choose(p, type, entity, refresh)
  OBVIOUS
<1>3. q = [search |-> search, offered |-> offered, type |-> type,
           entity |-> entity, key |-> old, notes |-> notes, busy |-> busy,
           entitiesTracker |-> asked, notesTracker |-> tracker, failed |-> failed]
  BY <1>1, <1>2
<1>4. CASE entity = ""
  <2>1. r = [q EXCEPT !.key = "", !.notes = {}, !.busy = @ \ {"notes"}, !.failed = FALSE]
    BY <1>2, <1>4 DEF Choose
  <2>2. r = [search |-> search, offered |-> offered, type |-> type,
             entity |-> entity, key |-> "", notes |-> {}, busy |-> busy \ {"notes"},
             entitiesTracker |-> asked, notesTracker |-> tracker, failed |-> FALSE]
    BY <1>3, <2>1
  <2>3. NotesPageSound(r) /\ TurnsTo(p, r)
    BY <1>1, <1>4, <2>2 DEF NotesPageSound, IsNotesPage, TurnsTo
  <2> QED
    BY <1>2, <2>3
<1>5. CASE entity # "" /\ <<p.type, p.entity>> = <<type, entity>> /\ ~refresh
  <2>1. r = q
    BY <1>2, <1>5 DEF Choose
  <2>2. old = entity
    BY <1>1, <1>5
  <2>3. NotesPageSound(q) /\ TurnsTo(p, q)
    BY <1>1, <1>3, <1>5, <2>2 DEF NotesPageSound, IsNotesPage, TurnsTo
  <2> QED
    BY <1>2, <2>1, <2>3
<1>6. CASE entity # "" /\ ~(<<p.type, p.entity>> = <<type, entity>> /\ ~refresh)
  <2>1. PICK shown : shown = IF p.key # entity THEN {} ELSE notes
    OBVIOUS
  <2>0. r = [q EXCEPT !.key = entity, !.busy = @ \union {"notes"},
                      !.notesTracker = BeginRequest(@), !.failed = FALSE,
                      !.notes = IF p.key # entity THEN {} ELSE @]
    BY <1>2, <1>6 DEF Choose
  <2>2. r = [q EXCEPT !.key = entity, !.busy = busy \union {"notes"},
                      !.notesTracker = tracker + 1, !.failed = FALSE, !.notes = shown]
    BY <1>3, <2>0, <2>1 DEF BeginRequest
  <2>3. r = [search |-> search, offered |-> offered, type |-> type,
             entity |-> entity, key |-> entity, notes |-> shown,
             busy |-> busy \union {"notes"}, entitiesTracker |-> asked,
             notesTracker |-> tracker + 1, failed |-> FALSE]
    BY <1>3, <2>2
  <2>4. AllOf(shown, entity)
    BY <1>1, <1>6, <2>1 DEF AllOf
  <2>5. tracker + 1 \in Nat
    <3>1. PICK n \in Nat : n = tracker
      BY <1>1
    <3>2. n + 1 \in Nat
      BY NextRequest
    <3> QED
      BY <3>1, <3>2
  <2>6. tracker + 1 \in Nat /\ p.notesTracker = tracker
    BY <1>1, <2>5
  <2>7. IsNotesPage(r) /\ r.key = entity /\ r.entity = entity /\ r.notes = shown
        /\ r.notesTracker = tracker + 1
    BY <2>3, <2>6 DEF IsNotesPage
  <2>8. NotesPageSound(r) /\ TurnsTo(p, r)
    BY <2>4, <2>6, <2>7 DEF NotesPageSound, TurnsTo
  <2> QED
    BY <1>2, <2>8
<1> QED
  BY <1>4, <1>5, <1>6

LEMMA NotesLoadSound ==
    ASSUME NEW p, NEW q, NotesPageSound(q), NEW new, new = NotesLoad(p, q)
    PROVE  /\ \E T : new \in Seq(T)
           /\ \A k \in DOMAIN new : IsCall(new[k]) /\ NotesCallSound(new[k], q)
<1>1. CASE q.notesTracker = p.notesTracker
  BY <1>1, NoCall DEF NotesLoad
<1>2. CASE q.notesTracker # p.notesTracker
  <2>1. PICK n \in Nat : n = q.notesTracker
    BY DEF NotesPageSound, IsNotesPage
  <2>2. PICK arg, kept : /\ arg = q.entity
                         /\ kept = [id |-> n, changed |-> p.key # q.key]
    OBVIOUS
  <2>3. new = <<Call("notes", arg, kept)>>
    BY <1>2, <2>1, <2>2 DEF NotesLoad
  <2>4. PICK c : c = Call("notes", arg, kept)
    OBVIOUS
  <2>5. /\ c.op = "notes" /\ c.op # "create" /\ c.state # "ok" /\ c.arg = q.key
        /\ c.kept.id = n
    BY <2>2, <2>4 DEF Call, NotesPageSound
  <2>6. n <= q.notesTracker
    BY <2>1
  <2>7. NotesCallSound(c, q)
    BY <2>1, <2>5, <2>6 DEF NotesCallSound
  <2> QED
    BY <2>3, <2>4, <2>7, OneCall
<1> QED
  BY <1>1, <1>2

\* The page asks for, or goes on after call i with, the calls of new.
LEMMA NotesProceed ==
    ASSUME NotesInv, At("notes"), NEW q, NotesPageSound(q), TurnsTo(page, q),
           NEW new, \E T : new \in Seq(T),
           \A k \in DOMAIN new : IsCall(new[k]) /\ NotesCallSound(new[k], q),
           Ask(q, new) \/ \E i \in DOMAIN calls : Continue(i, q, new)
    PROVE  NotesInv'
<1>1. Known(calls)
  BY DEF NotesInv
<1>2. Known(calls') /\ OnlyFrom(calls', calls, new) /\ page' = q
  BY <1>1, AskedMore, SpokenCalls
<1> QED
  BY <1>2, NotesGoOn

LEMMA NotesStay ==
    ASSUME NotesInv, At("notes"), NEW q, NotesPageSound(q), NEW i \in DOMAIN calls,
           q.notesTracker = page.notesTracker, q.key = page.key, Continue(i, q, <<>>)
    PROVE  NotesInv'
<1>1. PICK new : new = <<>>
  OBVIOUS
<1>2. Continue(i, q, new) /\ TurnsTo(page, q)
  BY <1>1 DEF TurnsTo
<1> QED
  BY <1>1, <1>2, NoCall, NotesProceed

\* A choice on the page p, which is the page but for its notes, its lock and
\* the entities offered.
LEMMA NotesChoose ==
    ASSUME NotesInv, At("notes"), NEW p, IsNotesPage(p), p.key = p.entity,
           p.key = page.key, p.notesTracker = page.notesTracker,
           NEW base, NEW type, NEW entity, NEW refresh,
           (entity = p.key /\ entity # "") => AllOf(p.notes, entity),
           \/ Ask(Choose(p, type, entity, refresh),
                  NotesLoad(base, Choose(p, type, entity, refresh)))
           \/ \E i \in DOMAIN calls :
                Continue(i, Choose(p, type, entity, refresh),
                         NotesLoad(base, Choose(p, type, entity, refresh)))
    PROVE  NotesInv'
<1>1. PICK q, new : q = Choose(p, type, entity, refresh) /\ new = NotesLoad(base, q)
  OBVIOUS
<1>2. NotesPageSound(q) /\ TurnsTo(p, q)
  BY <1>1, ChooseSound
<1>3. TurnsTo(page, q)
  BY <1>2 DEF TurnsTo
<1>4. /\ \E T : new \in Seq(T)
      /\ \A k \in DOMAIN new : IsCall(new[k]) /\ NotesCallSound(new[k], q)
  BY <1>1, <1>2, NotesLoadSound
<1>5. Ask(q, new) \/ \E i \in DOMAIN calls : Continue(i, q, new)
  BY <1>1
<1> QED
  BY <1>2, <1>3, <1>4, <1>5, NotesProceed

LEMMA NotesStepSound ==
    ASSUME NotesInv, At("notes"), NotesStep
    PROVE  NotesInv'
<1>1. NotesPageSound(page) /\ IsNotesPage(page) /\ Known(calls)
  BY DEF NotesInv, NotesPageSound
<1>2. PICK search, offered, type, entity, key, notes, busy, asked, failed, tracker :
         /\ tracker \in Nat
         /\ page = [search |-> search, offered |-> offered, type |-> type,
                    entity |-> entity, key |-> key, notes |-> notes, busy |-> busy,
                    entitiesTracker |-> asked, notesTracker |-> tracker,
                    failed |-> failed]
  BY <1>1, NotesPageIs
\* The entities are loaded for the search s.
<1>3. ASSUME NEW p, NEW s,
             p = [search |-> s, offered |-> offered, type |-> type,
                  entity |-> entity, key |-> key, notes |-> notes, busy |-> busy,
                  entitiesTracker |-> asked, notesTracker |-> tracker,
                  failed |-> failed],
             EntitiesLoad(p)
      PROVE  NotesInv'
  <2>1. PICK q, new : /\ q = [p EXCEPT !.busy = @ \union {"entities"},
                                       !.entitiesTracker = BeginRequest(@)]
                      /\ new = <<Call("entities", p.search, BeginRequest(p.entitiesTracker))>>
    OBVIOUS
  <2>2. Ask(q, new)
    BY <1>3, <2>1 DEF EntitiesLoad
  <2>3. PICK b, n : b = busy \union {"entities"} /\ n = BeginRequest(asked)
    OBVIOUS
  <2>4. q = [search |-> s, offered |-> offered, type |-> type, entity |-> entity,
             key |-> key, notes |-> notes, busy |-> b, entitiesTracker |-> n,
             notesTracker |-> tracker, failed |-> failed]
    BY <1>3, <2>1, <2>3
  <2>5. NotesPageSound(q) /\ TurnsTo(page, q)
    BY <1>1, <1>2, <2>4 DEF NotesPageSound, IsNotesPage, TurnsTo
  <2>6. PICK c : c = Call("entities", p.search, BeginRequest(p.entitiesTracker))
    OBVIOUS
  <2>7. c.op = "entities"
    BY <2>6 DEF Call
  <2>8. NotesCallSound(c, q)
    BY <2>7 DEF NotesCallSound
  <2> QED
    BY <2>1, <2>2, <2>5, <2>6, <2>8, OneCall, NotesProceed
<1>4. CASE OpenNotes \/ retryEntities
  <2>1. EntitiesLoad(page)
    BY <1>4 DEF OpenNotes, retryEntities
  <2> QED
    BY <1>2, <1>3, <2>1
<1>5. CASE ChangeSearch
  <2>1. PICK s : EntitiesLoad([page EXCEPT !.search = s])
    BY <1>5 DEF ChangeSearch
  <2>2. PICK p : p = [page EXCEPT !.search = s]
    OBVIOUS
  <2>3. p = [search |-> s, offered |-> offered, type |-> type,
             entity |-> entity, key |-> key, notes |-> notes, busy |-> busy,
             entitiesTracker |-> asked, notesTracker |-> tracker, failed |-> failed]
    BY <1>2, <2>2
  <2> QED
    BY <1>3, <2>1, <2>2, <2>3
<1>6. CASE handleEntityChange \/ retryNotes
  <2>1. PICK t, e, refresh :
          Ask(Choose(page, t, e, refresh), NotesLoad(page, Choose(page, t, e, refresh)))
    <3>1. CASE handleEntityChange
      <4>1. PICK t, e : LET p == Choose(page, t, e, FALSE)
                        IN  Ask(p, NotesLoad(page, p))
        BY <3>1 DEF handleEntityChange
      <4> QED
        BY <4>1
    <3>2. CASE retryNotes
      BY <3>2 DEF retryNotes
    <3> QED
      BY <1>6, <3>1, <3>2
  <2>2. PICK p : p = page
    OBVIOUS
  <2>3. /\ IsNotesPage(p) /\ p.key = p.entity /\ p.key = page.key
        /\ p.notesTracker = page.notesTracker
        /\ (e = p.key /\ e # "") => AllOf(p.notes, e)
        /\ Ask(Choose(p, t, e, refresh), NotesLoad(p, Choose(p, t, e, refresh)))
    BY <1>1, <2>1, <2>2 DEF NotesPageSound
  <2> QED
    BY <2>3, NotesChoose
<1>7. CASE handleSubmit
  <2>1. PICK q, new : /\ q = [page EXCEPT !.busy = busy \union {"submitting"}]
                      /\ new = <<Call("create", entity, type)>>
    OBVIOUS
  <2>2. Ask(q, new)
    BY <1>2, <1>7, <2>1 DEF handleSubmit
  <2>3. q = [search |-> search, offered |-> offered, type |-> type, entity |-> entity,
             key |-> key, notes |-> notes, busy |-> busy \union {"submitting"},
             entitiesTracker |-> asked, notesTracker |-> tracker, failed |-> failed]
    BY <1>2, <2>1
  <2>4. NotesPageSound(q) /\ TurnsTo(page, q)
    BY <1>1, <1>2, <2>3 DEF NotesPageSound, IsNotesPage, TurnsTo
  <2>5. PICK c : c = Call("create", entity, type)
    OBVIOUS
  <2>6. c.op = "create" /\ c.state # "ok"
    BY <2>5 DEF Call
  <2>7. NotesCallSound(c, q)
    BY <2>6 DEF NotesCallSound
  <2> QED
    BY <2>1, <2>2, <2>4, <2>5, <2>7, OneCall, NotesProceed
<1>8. CASE OtherNotes
  <2>1. page' = page /\ calls' = calls
    BY <1>8 DEF OtherNotes, Elsewhere
  <2> QED
    BY <2>1 DEF NotesInv
<1> QED
  BY <1>4, <1>5, <1>6, <1>7, <1>8 DEF NotesStep

LEMMA NotesServeSound ==
    ASSUME NotesInv, At("notes"), NEW i \in DOMAIN calls, NotesServe(i) \/ LoseCall(i)
    PROVE  NotesInv'
<1>1. /\ NotesPageSound(page) /\ Known(calls) /\ NotesCallSound(calls[i], page)
      /\ TurnsTo(page, page)
  BY DEF NotesInv, TurnsTo
\* The call i becomes d.
<1>2. ASSUME page' = page, Known(calls'), NEW d, OnlyFrom(calls', calls, <<d>>),
             NotesCallSound(d, page)
      PROVE  NotesInv'
  <2>1. PICK new : new = <<d>>
    OBVIOUS
  <2>2. \A k \in DOMAIN new : NotesCallSound(new[k], page)
    BY <1>2, <2>1
  <2> QED
    BY <1>1, <1>2, <2>1, <2>2, NotesGoOn
<1>3. CASE LoseCall(i)
  <2>1. PICK d : /\ Same(calls[i], d) /\ d.state = "failed"
                 /\ OnlyFrom(calls', calls, <<d>>)
    BY <1>1, <1>3, LostCalls
  <2>2. page' = page /\ Known(calls')
    BY <1>1, <1>3, LostCalls
  <2>3. NotesCallSound(d, page)
    BY <1>1, <2>1 DEF NotesCallSound, Same
  <2> QED
    BY <1>2, <2>1, <2>2, <2>3
<1>4. ASSUME NEW s, NEW b, Perform(i, s, TRUE, b),
             calls[i].op = "notes" => AllOf(b, calls[i].arg),
             calls[i].op = "create" => b[1] = calls[i].arg
      PROVE  NotesInv'
  <2>0. PICK ok \in BOOLEAN : ok = TRUE
    OBVIOUS
  <2>5. Perform(i, s, ok, b)
    BY <1>4, <2>0
  <2>6. PICK d : /\ Same(calls[i], d) /\ d.body = (IF ok THEN <<b>> ELSE <<>>)
                 /\ OnlyFrom(calls', calls, <<d>>)
    BY <1>1, <2>5, ServedCalls
  <2>1. Same(calls[i], d) /\ d.body = <<b>> /\ OnlyFrom(calls', calls, <<d>>)
    BY <2>0, <2>6
  <2>2. page' = page /\ Known(calls')
    BY <1>1, <1>4, ServedCalls
  <2>3. Head(d.body) = b
    BY <2>1
  <2>4. NotesCallSound(d, page)
    BY <1>1, <1>4, <2>1, <2>3 DEF NotesCallSound, Same
  <2> QED
    BY <1>2, <2>1, <2>2, <2>4
<1>5. CASE Asked(i, "entities")
  <2>1. Perform(i, server, TRUE, <<>>) \/ ~NotesServe(i)
    BY <1>5 DEF NotesServe, Asked
  <2>2. calls[i].op = "entities"
    BY <1>5 DEF Asked
  <2> QED
    BY <1>3, <1>4, <2>1, <2>2
<1>6. CASE NotesServe(i) /\ Asked(i, "notes")
  <2>1. PICK b : b = NotesOf(calls[i].arg)
    OBVIOUS
  <2>2. AllOf(b, calls[i].arg)
    BY <2>1 DEF NotesOf, AllOf
  <2>3. Perform(i, server, TRUE, b) /\ calls[i].op = "notes"
    BY <1>6, <2>1 DEF NotesServe, Asked
  <2> QED
    BY <1>4, <2>2, <2>3
<1>7. CASE NotesServe(i) /\ Asked(i, "create")
  <2>1. PICK b, s : /\ b = NextNote(calls[i].arg)
                    /\ s = [server EXCEPT !.notes = @ \union {b}]
    OBVIOUS
  <2>2. b[1] = calls[i].arg
    BY <2>1 DEF NextNote
  <2>3. Perform(i, s, TRUE, b) /\ calls[i].op = "create"
    BY <1>7, <2>1 DEF NotesServe, Asked
  <2> QED
    BY <1>4, <2>2, <2>3
<1> QED
  BY <1>3, <1>5, <1>6, <1>7 DEF NotesServe

LEMMA NotesReturnSound ==
    ASSUME NotesInv, At("notes"), NEW i \in DOMAIN calls, NotesReturn(i)
    PROVE  NotesInv'
<1>1. /\ NotesPageSound(page) /\ IsNotesPage(page) /\ Known(calls)
      /\ NotesCallSound(calls[i], page)
  BY DEF NotesInv, NotesPageSound
<1>2. PICK search, offered, type, entity, key, notes, busy, asked, failed, tracker :
         /\ tracker \in Nat
         /\ page = [search |-> search, offered |-> offered, type |-> type,
                    entity |-> entity, key |-> key, notes |-> notes, busy |-> busy,
                    entitiesTracker |-> asked, notesTracker |-> tracker,
                    failed |-> failed]
  BY <1>1, NotesPageIs
\* The page changes in what the notes do not depend on, and in its notes.
<1>3. ASSUME NEW q, NEW o, NEW n, NEW b, NEW f,
             q = [search |-> search, offered |-> o, type |-> type,
                  entity |-> entity, key |-> key, notes |-> n, busy |-> b,
                  entitiesTracker |-> asked, notesTracker |-> tracker, failed |-> f]
      PROVE  /\ IsNotesPage(q) /\ q.key = q.entity /\ q.key = page.key
             /\ q.notesTracker = page.notesTracker /\ q.notes = n
             /\ (key # "" => AllOf(n, key)) => NotesPageSound(q)
  BY <1>1, <1>2, <1>3 DEF NotesPageSound, IsNotesPage
<1>4. key # "" => AllOf(notes, key)
  BY <1>1, <1>2 DEF NotesPageSound
<1>5. CASE EntitiesLoaded(i)
  <2>1. PICK p, b : /\ p = [page EXCEPT !.busy = busy \ {"entities"}]
                    /\ b = busy \ {"entities"}
    OBVIOUS
  <2>2. p = [search |-> search, offered |-> offered, type |-> type,
             entity |-> entity, key |-> key, notes |-> notes, busy |-> b,
             entitiesTracker |-> asked, notesTracker |-> tracker, failed |-> failed]
    BY <1>2, <2>1
  <2>3. CASE Continue(i, page, <<>>)
    BY <1>1, <2>3, NotesStay
  <2>4. CASE Continue(i, [p EXCEPT !.offered = "failed", !.notes = {}], <<>>)
    <3>1. PICK q : q = [p EXCEPT !.offered = "failed", !.notes = {}]
      OBVIOUS
    <3>2. PICK o, n : o = "failed" /\ n = {}
      OBVIOUS
    <3>3. q = [search |-> search, offered |-> o, type |-> type,
               entity |-> entity, key |-> key, notes |-> n, busy |-> b,
               entitiesTracker |-> asked, notesTracker |-> tracker, failed |-> failed]
      BY <2>2, <3>1, <3>2
    <3>4. AllOf(n, key)
      BY <3>2 DEF AllOf
    <3>5. NotesPageSound(q) /\ q.key = page.key /\ q.notesTracker = page.notesTracker
      BY <1>3, <3>3, <3>4
    <3> QED
      BY <2>4, <3>1, <3>5, NotesStay
  <2>5. ASSUME NEW e, LET q == Choose([p EXCEPT !.offered = calls[i].arg], p.type, e, FALSE)
                      IN  Continue(i, q, NotesLoad(p, q))
        PROVE  NotesInv'
    <3>1. PICK r, o : r = [p EXCEPT !.offered = calls[i].arg] /\ o = calls[i].arg
      OBVIOUS
    <3>2. r = [search |-> search, offered |-> o, type |-> type,
               entity |-> entity, key |-> key, notes |-> notes, busy |-> b,
               entitiesTracker |-> asked, notesTracker |-> tracker, failed |-> failed]
      BY <2>2, <3>1
    <3>3. /\ IsNotesPage(r) /\ r.key = r.entity /\ r.key = page.key
          /\ r.notesTracker = page.notesTracker /\ NotesPageSound(r)
      BY <1>3, <1>4, <3>2
    <3>4. (e = r.key /\ e # "") => AllOf(r.notes, e)
      BY <3>3 DEF NotesPageSound
    <3>5. PICK t, refresh : t = p.type /\ refresh = FALSE
      OBVIOUS
    <3>6. Continue(i, Choose(r, t, e, refresh),
                   NotesLoad(p, Choose(r, t, e, refresh)))
      BY <2>5, <3>1, <3>5
    <3> QED
      BY <3>3, <3>4, <3>6, NotesChoose
  <2>6. PICK e : e = resolveNextNoteEntityId(p.type, p.entity, calls[i].arg)
    OBVIOUS
  <2>7. \/ Continue(i, page, <<>>)
        \/ Continue(i, [p EXCEPT !.offered = "failed", !.notes = {}], <<>>)
        \/ LET q == Choose([p EXCEPT !.offered = calls[i].arg], p.type, e, FALSE)
           IN  Continue(i, q, NotesLoad(p, q))
    BY <1>2, <1>5, <2>1, <2>6 DEF EntitiesLoaded
  <2> QED
    BY <2>3, <2>4, <2>5, <2>7
<1>6. CASE NotesAnswered(i)
  <2>1. CASE ~IsCurrentRequest(calls[i].kept.id, page.notesTracker)
    <3>1. Continue(i, page, <<>>)
      BY <1>6, <2>1 DEF NotesAnswered
    <3> QED
      BY <1>1, <3>1, NotesStay
  <2>2. CASE IsCurrentRequest(calls[i].kept.id, page.notesTracker)
    <3>1. PICK b, f : b = busy \ {"notes"} /\ f = (calls[i].state = "failed")
      OBVIOUS
    <3>2. PICK p : p = [page EXCEPT !.busy = b, !.failed = f]
      OBVIOUS
    <3>3. PICK n : n = IF calls[i].state = "ok" THEN Body(i)
                       ELSE IF calls[i].kept.changed THEN {} ELSE notes
      OBVIOUS
    <3>4. PICK q : q = [p EXCEPT !.notes = n]
      OBVIOUS
    <3>5. p = [search |-> search, offered |-> offered, type |-> type,
               entity |-> entity, key |-> key, notes |-> notes, busy |-> b,
               entitiesTracker |-> asked, notesTracker |-> tracker, failed |-> f]
      BY <1>2, <3>2
    <3>6. q = [search |-> search, offered |-> offered, type |-> type,
               entity |-> entity, key |-> key, notes |-> n, busy |-> b,
               entitiesTracker |-> asked, notesTracker |-> tracker, failed |-> f]
      BY <3>4, <3>5
    <3>7. n = notes => q = p
      BY <3>5, <3>6
    <3>8. Continue(i, q, <<>>)
      <4>1. p = [page EXCEPT !.busy = @ \ {"notes"}, !.failed = calls[i].state = "failed"]
        BY <1>2, <3>1, <3>2
      <4>2. CASE calls[i].state = "ok"
        BY <1>6, <2>2, <3>3, <3>4, <4>1, <4>2 DEF NotesAnswered
      <4>3. CASE calls[i].state # "ok" /\ calls[i].kept.changed
        BY <1>6, <2>2, <3>3, <3>4, <4>1, <4>3 DEF NotesAnswered
      <4>4. CASE calls[i].state # "ok" /\ ~calls[i].kept.changed
        <5>1. Continue(i, p, <<>>)
          BY <1>6, <2>2, <4>1, <4>4 DEF NotesAnswered
        <5> QED
          BY <3>3, <3>7, <4>4, <5>1
      <4> QED
        BY <4>2, <4>3, <4>4
    <3>9. key # "" => AllOf(n, key)
      <4>1. AllOf({}, key)
        BY DEF AllOf
      <4>2. (calls[i].state = "ok" /\ key # "") => AllOf(Body(i), key)
        BY <1>1, <1>2, <1>6, <2>2
           DEF NotesCallSound, NotesAnswered, IsCurrentRequest, Body
      <4> QED
        BY <1>4, <3>3, <4>1, <4>2
    <3>10. NotesPageSound(q) /\ q.key = page.key /\ q.notesTracker = page.notesTracker
      BY <1>3, <3>6, <3>9
    <3> QED
      BY <3>8, <3>10, NotesStay
  <2> QED
    BY <2>1, <2>2
<1>7. CASE NoteCreated(i)
  <2>1. PICK p, b : /\ p = [page EXCEPT !.busy = busy \ {"submitting"}]
                    /\ b = busy \ {"submitting"}
    OBVIOUS
  <2>2. p = [search |-> search, offered |-> offered, type |-> type,
             entity |-> entity, key |-> key, notes |-> notes, busy |-> b,
             entitiesTracker |-> asked, notesTracker |-> tracker, failed |-> failed]
    BY <1>2, <2>1
  <2>3. CASE calls[i].state # "ok"
    <3>1. Continue(i, p, <<>>)
      BY <1>2, <1>7, <2>1, <2>3 DEF NoteCreated
    <3>2. NotesPageSound(p) /\ p.key = page.key /\ p.notesTracker = page.notesTracker
      BY <1>3, <1>4, <2>2
    <3> QED
      BY <3>1, <3>2, NotesStay
  <2>4. CASE calls[i].state = "ok"
    <3>1. PICK n, r, t, e, refresh :
            /\ n = notes \union {Body(i)}
            /\ r = [p EXCEPT !.notes = notes \union {Body(i)}]
            /\ t = calls[i].kept /\ e = calls[i].arg /\ refresh = TRUE
      OBVIOUS
    <3>2. r = [search |-> search, offered |-> offered, type |-> type,
               entity |-> entity, key |-> key, notes |-> n, busy |-> b,
               entitiesTracker |-> asked, notesTracker |-> tracker, failed |-> failed]
      BY <2>2, <3>1
    <3>3. r = [p EXCEPT !.notes = @ \union {Body(i)}]
      BY <2>2, <3>1
    <3>4. Continue(i, Choose(r, t, e, refresh),
                   NotesLoad(p, Choose(r, t, e, refresh)))
      BY <1>2, <1>7, <2>1, <2>4, <3>1, <3>3 DEF NoteCreated
    <3>5. /\ IsNotesPage(r) /\ r.key = r.entity /\ r.key = page.key
          /\ r.notesTracker = page.notesTracker /\ r.notes = n
      BY <1>3, <3>2
    <3>6. Body(i)[1] = e
      BY <1>1, <1>7, <2>4, <3>1 DEF NotesCallSound, NoteCreated, Body
    <3>7. (e = r.key /\ e # "") => AllOf(r.notes, e)
      <4>1. page.key = key
        BY <1>2
      <4> QED
        BY <1>4, <3>1, <3>5, <3>6, <4>1 DEF AllOf
    <3> QED
      BY <3>4, <3>5, <3>7, NotesChoose
  <2> QED
    BY <2>3, <2>4
<1> QED
  BY <1>5, <1>6, <1>7 DEF NotesReturn

LEMMA NotesStart ==
    ASSUME NotesInit
    PROVE  NotesInv
<1>1. PICK p : /\ p = [search |-> "", offered |-> "none", type |-> "ORDER",
                       entity |-> "", key |-> "", notes |-> {}, busy |-> {},
                       entitiesTracker |-> 0, notesTracker |-> 0, failed |-> FALSE]
               /\ page = p /\ calls = <<>>
  BY DEF NotesInit, Mount
<1>2. NotesPageSound(p)
  BY <1>1 DEF NotesPageSound, IsNotesPage
<1>3. calls = <<>> /\ page = p
  BY <1>1
<1> QED
  BY <1>2, <1>3, NoCalls DEF NotesInv

LEMMA NotesAlways == Spec => []NotesInv
<1>1. Init => NotesInv
  <2>1. Init /\ At("notes") => NotesInit
    BY MountedAtStart DEF Init, At
  <2> QED
    BY <2>1, NotesStart DEF NotesInv
<1>2. NotesInv /\ [Next]_vars => NotesInv'
  <2> SUFFICES ASSUME NotesInv, [Next]_vars PROVE NotesInv'
    OBVIOUS
  <2>1. CASE ~At("notes")
    BY <2>1, StaysMounted DEF NotesInv, At
  <2>2. CASE At("notes") /\ Next
    BY <2>2, OnNotes, NotesStepSound, NotesServeSound, NotesReturnSound
  <2>3. CASE UNCHANGED vars
    BY <2>3 DEF vars, NotesInv, At, Known, IsCalls
  <2> QED
    BY <2>1, <2>2, <2>3
<1> QED
  BY <1>1, <1>2, PTL DEF Spec

\* The list under a chosen order or shipment holds its notes only, also while
\* it is loading: the key remembers what the list was loaded for, and the
\* tracker drops the answers to every load but the last.
THEOREM NotesAlwaysBelong ==
    Spec => []NotesBelong
<1>1. NotesInv => NotesBelong
  BY DEF NotesInv, NotesPageSound, AllOf, NotesBelong, Browsing
<1> QED
  BY <1>1, NotesAlways, PTL
================================================================================
