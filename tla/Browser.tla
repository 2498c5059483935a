------------------------------- MODULE Browser -------------------------------
(***************************************************************************)
(* One tab of the front end: the page that is mounted, with its React      *)
(* state, the calls it has under way, and the rows of the backend they are *)
(* about.  A handler of a page runs to its next await in one step; a call  *)
(* is performed by the backend in one step, at any later time, and its     *)
(* answer returns to the page at any time after that, in any order.  The   *)
(* interleavings inside of the backend are the subject of the modules of   *)
(* its services.                                                           *)
(***************************************************************************)
EXTENDS Naturals, Sequences, SequencesExt

CONSTANTS
    MaxCalls,  \* bound on the calls a page makes, for each page
    MaxFaults, \* bound on the calls that fail on the network and, where the
               \* rows count them, the changes by others, together
    MaxWrites  \* bound on the versions of a row

ASSUME BrowserAssumption ==
    /\ \A name \in DOMAIN MaxCalls : MaxCalls[name] \in Nat
    /\ MaxFaults \in Nat /\ MaxWrites \in Nat

VARIABLES
    mounted, \* the page the tab is on; a behaviour ends when it is left
    page,    \* the React state of that page, a record
    server,  \* the rows of the backend the page works on, a record
    calls,   \* calls under way, in the order they were made
    made,    \* calls made so far
    lost     \* calls that failed on the network so far

vars == <<mounted, page, server, calls, made, lost>>

Mount(name, p, s) ==
    /\ mounted = name /\ page = p /\ server = s
    /\ calls = <<>> /\ made = 0 /\ lost = 0

At(name) == mounted = name

\* A call: what it asks for, what its continuation remembers (kept), how
\* far it is, and the answer when it succeeded.
Call(op, arg, kept) ==
    [op |-> op, arg |-> arg, kept |-> kept, state |-> "sent", body |-> <<>>]

CanCall(n) == made + n <= MaxCalls[mounted]

\* The page continues as p and makes the calls of the sequence new.
Ask(p, new) ==
    /\ CanCall(Len(new))
    /\ page' = p
    /\ calls' = calls \o new
    /\ made' = made + Len(new)
    /\ UNCHANGED <<mounted, server, lost>>

\* A handler without a call.
Become(p) == page' = p /\ UNCHANGED <<mounted, server, calls, made, lost>>

\* The backend performs call i, which leaves the rows s and answers b.
Perform(i, s, ok, b) ==
    /\ calls[i].state = "sent"
    /\ server' = s
    /\ calls' = [calls EXCEPT ![i].state = IF ok THEN "ok" ELSE "failed",
                              ![i].body = IF ok THEN <<b>> ELSE <<>>]
    /\ UNCHANGED <<mounted, page, made, lost>>

Refuse(i) == Perform(i, server, FALSE, <<>>)

Body(i) == Head(calls[i].body)

Asked(i, op) == calls[i].op = op /\ calls[i].state = "sent"
Succeeded(i, op) == calls[i].op = op /\ calls[i].state = "ok"
Failed(i, op) == calls[i].op = op /\ calls[i].state = "failed"

\* The continuation of call i runs, leaves the page p and makes new calls.
Continue(i, p, new) ==
    /\ CanCall(Len(new))
    /\ page' = p
    /\ calls' = RemoveAt(calls, i) \o new
    /\ made' = made + Len(new)
    /\ UNCHANGED <<mounted, server, lost>>

CanDisturb ==
    lost + (IF "others" \in DOMAIN server THEN server.others ELSE 0) < MaxFaults

\* The network loses a call or the answer to it: the promise is rejected.
LoseCall(i) ==
    /\ CanDisturb
    /\ calls[i].state # "failed"
    /\ lost' = lost + 1
    /\ calls' = [calls EXCEPT ![i].state = "failed", ![i].body = <<>>]
    /\ UNCHANGED <<mounted, page, server, made>>

\* Somebody else changes the rows.
Elsewhere(s) == server' = s /\ UNCHANGED <<mounted, page, calls, made, lost>>

-----------------------------------------------------------------------------
(* useRequestTracker: a ref numbers the requests, and the answer to any but *)
(* the last is dropped.                                                     *)

BeginRequest(tracker) == tracker + 1

\* Mutant: no answer is dropped.
IsAnyRequest(request, tracker) == TRUE

IsCurrentRequest(request, tracker) == request = tracker
=============================================================================
