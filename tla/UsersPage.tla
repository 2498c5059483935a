------------------------------ MODULE UsersPage ------------------------------
(***************************************************************************)
(* The accounts page of an administrator (UserManagement) and the          *)
(* operations on accounts (AuthService), each of which looks at the row    *)
(* first and then writes it by id.  A panel edits the selected account;    *)
(* every success loads the list again.                                     *)
(***************************************************************************)
EXTENDS Browser, FiniteSets

Accounts == {"u1", "u2"}

\* An account: its own email (0) or the one both may be given (1).
Account(role) == [role |-> role, email |-> 0, active |-> TRUE]

NoAccount == [Account("NONE") EXCEPT !.active = FALSE]

UsersInit ==
    \E second \in {NoAccount, Account("ADMIN")} :
      LET rows == [u \in Accounts |-> IF u = "u1" THEN Account("SALES") ELSE second]
      IN  Mount("users",
                [users |-> [u \in Accounts |-> NoAccount],
                 selected |-> "", panel |-> NoAccount, email |-> [of |-> "", v |-> 0],
                 busy |-> {}, mixed |-> FALSE],
                [rows |-> rows, others |-> 0])

\* mixed remembers what was begun or selected while a call was under way:
\* the answers of two changes may come in either order.
Mixed(p) == [p EXCEPT !.mixed = @ \/ calls # <<>>]

\* A load of the list, which ends the work that holds the lock.  Loads that
\* overlap share the lock of the list.
loadUsers(lock) == <<Call("users", 0, lock)>>

OpenUsers ==
    /\ At("users") /\ made = 0
    /\ Ask([page EXCEPT !.busy = {"users"}], loadUsers("users"))

UsersLoaded(i) ==
    /\ At("users") /\ calls[i].op = "users" /\ calls[i].state # "sent"
    /\ Continue(i, [page EXCEPT
           !.users = IF calls[i].state = "ok" THEN Body(i)
                     ELSE [u \in Accounts |-> NoAccount],
           !.busy = @ \ {calls[i].kept, "users"}], <<>>)

\* Mutant: the form keeps the email that was typed.
SelectedTyped(p, u, row) ==
    [p EXCEPT !.selected = u, !.panel = row, !.busy = @ \ {"status"},
              !.email = IF @.of = "" THEN [of |-> u, v |-> row.email] ELSE @]

\* Mutant: the panel of the account that is selected already stays.
SelectedOnce(p, u, row) ==
    IF p.selected = u THEN p
    ELSE [p EXCEPT !.selected = u, !.panel = row, !.busy = @ \ {"status"},
                   !.email = [of |-> u, v |-> row.email]]

\* The effect on the selected account: its form, and the lock of a change of
\* status is dropped.
Selected(p, u, row) ==
    [p EXCEPT !.selected = u, !.panel = row, !.email = [of |-> u, v |-> row.email],
              !.busy = @ \ {"status"}]

\* A row of the list, which is hidden while it is loading, or the button
\* that closes the panel.
SelectUser ==
    /\ At("users") /\ made > 0
    /\ \/ /\ page.selected = "" /\ "users" \notin page.busy
          /\ \E u \in Accounts :
               /\ page.users[u].role # "NONE"
               /\ Become(Mixed(Selected(page, u, page.users[u])))
       \/ /\ page.selected # ""
          /\ Become(Mixed([page EXCEPT !.selected = ""]))

CreateUser ==
    /\ At("users") /\ made > 0 /\ page.selected = "" /\ "creating" \notin page.busy
    /\ Ask(Mixed([page EXCEPT !.busy = @ \union {"creating"}]),
           <<Call("create", "u2", "creating")>>)

Panel == /\ At("users") /\ page.selected # ""
         /\ page.busy \intersect {"account", "deleting", "status"} = {}

handleAccountUpdate ==
    /\ Panel
    /\ \E email \in {page.email.v, 1}, role \in {"SALES", "SHIPPING", "KEEP"} :
         /\ (page.panel.role = "ADMIN") = (role = "KEEP")
         /\ Ask(Mixed([page EXCEPT !.busy = @ \union {"account"}]),
                <<Call("update", [to |-> page.selected, of |-> page.email.of,
                                  email |-> email, role |-> role], "account")>>)

handleUserStatusUpdate ==
    /\ Panel /\ page.panel.role # "ADMIN"
    /\ Ask(Mixed([page EXCEPT !.busy = @ \union {"status"}]),
           <<Call("access", [to |-> page.selected, active |-> ~page.panel.active],
                  "status")>>)

handleDeleteUser ==
    /\ Panel /\ page.panel.role # "ADMIN"
    /\ Ask(Mixed([page EXCEPT !.busy = @ \union {"deleting"}]),
           <<Call("delete", [to |-> page.selected], "deleting")>>)

\* An answer selects the account that it is about, or none when it is gone.
AccountAnswered(i) ==
    /\ At("users") /\ calls[i].op # "users" /\ calls[i].state \in {"ok", "failed"}
    /\ LET lock == calls[i].kept
       IN  IF calls[i].state = "failed"
           THEN Continue(i, [page EXCEPT !.busy = @ \ {lock}], <<>>)
           ELSE LET p == [page EXCEPT !.busy = @ \union {"users"}]
                IN  Continue(i, CASE lock \in {"account", "status"} ->
                                       Selected(p, calls[i].arg.to, Body(i))
                                  [] lock = "deleting" -> [p EXCEPT !.selected = ""]
                                  [] lock = "creating" -> p, loadUsers(lock))

-----------------------------------------------------------------------------
(* The first half of an operation looks at the row, the second writes it.   *)

Taken(rows, u) == \E other \in Accounts \ {u} :
    rows[other].role # "NONE" /\ rows[other].email = 1

Checked(i) ==
    /\ calls' = [calls EXCEPT ![i].state = "checked"]
    /\ UNCHANGED <<mounted, page, server, made, lost>>

UserChecked(i) ==
    /\ At("users") /\ calls[i].state = "sent"
    /\ LET rows == server.rows
       IN  \/ /\ calls[i].op = "create"
              /\ IF rows["u2"].role = "NONE" THEN Checked(i) ELSE Refuse(i)
           \/ /\ calls[i].op \in {"update", "access", "delete"}
              /\ LET u == calls[i].arg.to
                     admin == rows[u].role = "ADMIN"
                 IN  IF \/ rows[u].role = "NONE"
                        \/ calls[i].op # "update" /\ admin
                        \/ /\ calls[i].op = "update"
                           /\ \/ admin /\ calls[i].arg.role # "KEEP"
                              \/ calls[i].arg.email # rows[u].email /\ Taken(rows, u)
                     THEN Refuse(i) ELSE Checked(i)

\* The second half of call i writes the row of u.
Written(i, u, row) ==
    /\ server' = [server EXCEPT !.rows[u] = row]
    /\ calls' = [calls EXCEPT ![i].state = "ok", ![i].body = <<row>>]
    /\ UNCHANGED <<mounted, page, made, lost>>

GoneMeanwhile(i) ==
    /\ calls' = [calls EXCEPT ![i].state = "failed"]
    /\ UNCHANGED <<mounted, page, server, made, lost>>

\* The unique index refuses an email given to another account meanwhile.
UserWritten(i) ==
    /\ At("users") /\ calls[i].state = "checked"
    /\ LET u == IF calls[i].op = "create" THEN "u2" ELSE calls[i].arg.to
           row == server.rows[u]
           a == calls[i].arg
       IN  IF (row.role = "NONE") # (calls[i].op = "create") THEN GoneMeanwhile(i)
           ELSE CASE calls[i].op = "create" -> Written(i, u, Account("SALES"))
                  [] calls[i].op = "delete" -> Written(i, u, NoAccount)
                  [] calls[i].op = "access" -> Written(i, u, [row EXCEPT !.active = a.active])
                  [] OTHER ->  \* an update
                       IF a.email = 1 /\ Taken(server.rows, u) THEN GoneMeanwhile(i)
                       ELSE Written(i, u, [row EXCEPT !.email = a.email,
                              !.role = IF a.role = "KEEP" THEN @ ELSE a.role])

UsersServe(i) ==
    \/ /\ At("users") /\ Asked(i, "users")
       /\ Perform(i, server, TRUE, server.rows)
    \/ UserChecked(i) \/ UserWritten(i)

\* Another administrator disables, deletes or promotes an account, or gives
\* it the email.
OtherAdmin ==
    /\ At("users") /\ CanDisturb /\ server.rows["u1"].role \in {"SALES", "SHIPPING"}
    /\ \E row \in {NoAccount, [server.rows["u1"] EXCEPT !.active = FALSE],
                   [server.rows["u1"] EXCEPT !.role = "ADMIN"],
                   [server.rows["u1"] EXCEPT !.email = 1]} :
         /\ row.email = 1 => ~Taken(server.rows, "u1")
         /\ Elsewhere([server EXCEPT !.rows["u1"] = row, !.others = @ + 1])

UsersStep ==
    \/ OpenUsers \/ SelectUser \/ CreateUser \/ handleAccountUpdate
    \/ handleUserStatusUpdate \/ handleDeleteUser \/ OtherAdmin

UsersReturn(i) == UsersLoaded(i) \/ AccountAnswered(i)

-----------------------------------------------------------------------------
(* Properties.                                                              *)

\* Answers move the selection from one account to another, yet the email of
\* one account is never saved for another.
EmailStaysWithAccount ==
    At("users") => \A i \in DOMAIN calls :
        calls[i].op = "update" => calls[i].arg.of = calls[i].arg.to

\* With no other administrator, no lost call, and no change that met another
\* call, list and panel at rest show the accounts as stored.
SettledAccountsAreCurrent ==
    (At("users") /\ calls = <<>> /\ made > 0 /\ server.others = 0 /\ lost = 0
       /\ ~page.mixed) =>
        /\ page.users = server.rows
        /\ page.selected # "" => page.panel = server.rows[page.selected]
=============================================================================
