-------------------------- MODULE InvoiceContract ---------------------------
(***************************************************************************)
(* What the invoice workflow promises its two parties, one atomic step per *)
(* operation: the text may change until it is signed; a signature covers   *)
(* the text in force and is given once, over a live link; a signed invoice *)
(* changes only by being cloned, which drops the signature and the link.   *)
(***************************************************************************)
EXTENDS Naturals

VARIABLES
    status,   \* stage of the workflow
    content,  \* version of the text, 0 before the invoice exists
    link,     \* number of the signing link in force, 0 for none
    signed    \* version the signature covers, 0 when unsigned

vars == <<status, content, link, signed>>

Init ==
    /\ status = "NOT_CREATED"
    /\ content = 0
    /\ link = 0
    /\ signed = 0

NewText == content' \in Nat /\ content' > content

Create ==
    /\ status = "NOT_CREATED"
    /\ status' = "CREATED"
    /\ NewText
    /\ UNCHANGED <<link, signed>>

Edit ==
    /\ status \in {"CREATED", "SIGNATURE_REQUESTED"}
    /\ NewText
    /\ UNCHANGED <<status, link, signed>>

RequestSignature ==
    /\ status \in {"CREATED", "SIGNATURE_REQUESTED"}
    /\ status' = "SIGNATURE_REQUESTED"
    /\ link' \in Nat /\ link' > link
    /\ UNCHANGED <<content, signed>>

Sign ==
    /\ status = "SIGNATURE_REQUESTED"
    /\ link # 0
    /\ status' = "SIGNED"
    /\ signed' = content
    /\ UNCHANGED <<content, link>>

Clone ==
    /\ status = "SIGNED"
    /\ status' = "CREATED"
    /\ NewText
    /\ link' = 0
    /\ signed' = 0

Next == Create \/ Edit \/ RequestSignature \/ Sign \/ Clone

Spec == Init /\ [][Next]_vars
=============================================================================
