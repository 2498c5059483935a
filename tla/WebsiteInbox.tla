------------------------------ MODULE WebsiteInbox ------------------------------
(***************************************************************************)
(* What the inbox of website leads promises: an inquiry changes hands until *)
(* it is converted, is converted once, into a lead of its own, and keeps    *)
(* that lead.                                                               *)
(***************************************************************************)
EXTENDS Naturals

CONSTANTS Inquiries, Users, Nobody

VARIABLES
    owner,  \* owner[i]: who works on inquiry i
    lead,   \* lead[i]: the lead that i became, 0 before
    made    \* leads made from inquiries so far

vars == <<owner, lead, made>>

Init ==
    /\ owner = [i \in Inquiries |-> Nobody]
    /\ lead = [i \in Inquiries |-> 0]
    /\ made = 0

Assign(i, u) ==
    /\ lead[i] = 0
    /\ owner' = [owner EXCEPT ![i] = u]
    /\ UNCHANGED <<lead, made>>

Convert(i) ==
    /\ lead[i] = 0
    /\ lead' = [lead EXCEPT ![i] = made + 1]
    /\ made' = made + 1
    /\ UNCHANGED owner

\* The account of u is deleted.
Leave(u) ==
    /\ owner' = [i \in Inquiries |-> IF owner[i] = u THEN Nobody ELSE owner[i]]
    /\ UNCHANGED <<lead, made>>

Next ==
    \/ \E i \in Inquiries : Convert(i) \/ \E u \in Users \union {Nobody} : Assign(i, u)
    \/ \E u \in Users : Leave(u)

Spec == Init /\ [][Next]_vars
=============================================================================
