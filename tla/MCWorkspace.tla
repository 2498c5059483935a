------------------------------ MODULE MCWorkspace ------------------------------
EXTENDS Workspace

\* Calls for each page: enough for an operation, the reload that follows it
\* and two more that meet them.
MCCalls == [signing |-> 6, list |-> 3, shipment |-> 4, lead |-> 6, notes |-> 5,
            costs |-> 6, order |-> 4, bell |-> 3, users |-> 3, create |-> 3,
            edit |-> 3, dashboard |-> 3, form |-> 1, detail |-> 5, query |-> 1]
=============================================================================
