------------------------------ MODULE OrderBook ------------------------------
(***************************************************************************)
(* What order creation promises, one atomic step per order: an order takes *)
(* the next number of its day, the order of a lead converts that lead in   *)
(* the same step and at most once, and a converted lead is frozen.         *)
(***************************************************************************)
EXTENDS Naturals

CONSTANTS
    Leads,   \* the leads
    NoLead   \* what an order that comes from no lead names

VARIABLES
    numbers,    \* order numbers in use, <<day, suffix>>
    converted,  \* converted[l]: number of the order of lead l, <<>> for none
    text        \* text[l]: what the lead says

vars == <<numbers, converted, text>>

Init ==
    /\ numbers = {}
    /\ converted = [l \in Leads |-> <<>>]
    /\ text = [l \in Leads |-> 0]

\* The first of its day, or the successor of one in use.
IsNext(number) ==
    number[2] = 1 \/ <<number[1], number[2] - 1>> \in numbers

Place(l) ==
    \E number \in numbers' \ numbers :
        /\ number \in Nat \X Nat
        /\ IsNext(number)
        /\ numbers' = numbers \union {number}
        /\ IF l = NoLead
           THEN UNCHANGED converted
           ELSE /\ converted[l] = <<>>
                /\ converted' = [converted EXCEPT ![l] = number]
        /\ UNCHANGED text

EditLead(l) ==
    /\ converted[l] = <<>>
    /\ text' = [text EXCEPT ![l] = text'[l]]
    /\ text'[l] \in Nat
    /\ UNCHANGED <<numbers, converted>>

Next ==
    \/ \E l \in Leads \union {NoLead} : Place(l)
    \/ \E l \in Leads : EditLead(l)

Spec == Init /\ [][Next]_vars
=============================================================================
