------------------------------- MODULE BellPage -------------------------------
(***************************************************************************)
(* The notification bell (NotificationBell) and the notifications of its   *)
(* user (NotificationsService): closed it polls the number of unread       *)
(* notifications, open it loads the list, and what the user marks or       *)
(* clears is shown before the backend answers and taken back when it       *)
(* fails.  No request tracker orders the answers.                          *)
(***************************************************************************)
EXTENDS Browser, Integers, FiniteSets

\* Two notifications, each a group of its own, with their stages.
Notes == {"order", "shipment"}

Visible(rows, unreadOnly) ==
    {n \in Notes : rows[n] = "unread" \/ (rows[n] = "read" /\ ~unreadOnly)}

Unread(rows) == Cardinality({n \in Notes : rows[n] = "unread"})

BellInit ==
    LET rows == [n \in Notes |-> IF n = "order" THEN "unread" ELSE "none"] IN
        Mount("bell",
              [open |-> FALSE, unreadOnly |-> FALSE,
               list |-> [n \in Notes |-> "none"], badge |-> 0, busy |-> {},
               mixed |-> FALSE],
              [rows |-> rows, others |-> 0])

\* The rows an answer lists.
Listed(rows, unreadOnly) ==
    [n \in Notes |-> IF n \in Visible(rows, unreadOnly) THEN rows[n] ELSE "none"]

\* mixed remembers that a change met another call.
Mix(p) == [p EXCEPT !.mixed = @ \/ calls # <<>>]

\* Mutant: a badge that counts nothing is not polled for.
PollWhileUnread ==
    /\ At("bell") /\ ~page.open /\ page.badge > 0
    /\ \A i \in DOMAIN calls : calls[i].op # "count"
    /\ calls' = Append(calls, Call("count", <<>>, <<>>))
    /\ page' = [page EXCEPT !.mixed = @ \/ "mutating" \in page.busy]
    /\ UNCHANGED <<mounted, server, made, lost>>

\* Every 45 s, when the bell closes and when the tab becomes visible.  The
\* bound is one poll under way.
BellPoll ==
    /\ At("bell") /\ ~page.open
    /\ \A i \in DOMAIN calls : calls[i].op # "count"
    /\ calls' = Append(calls, Call("count", <<>>, <<>>))
    /\ page' = [page EXCEPT !.mixed = @ \/ "mutating" \in page.busy]
    /\ UNCHANGED <<mounted, server, made, lost>>

refreshUnreadCount(i) ==
    /\ At("bell") /\ calls[i].op = "count" /\ calls[i].state # "sent"
    /\ Continue(i, IF calls[i].state = "ok"
                   THEN [page EXCEPT !.badge = Body(i).count] ELSE page, <<>>)

\* A refresh: the filter it asks for, the lock it holds, and whether the
\* bell closes after it.
refreshNotifications(p, lock, close) ==
    <<Call("refresh", [unreadOnly |-> p.unreadOnly],
           [lock |-> lock, close |-> close])>>

handleToggle ==
    /\ At("bell")
    /\ \/ /\ page.open
          /\ Become([page EXCEPT !.open = FALSE])
       \/ /\ ~page.open
          /\ LET p == [page EXCEPT !.open = TRUE, !.busy = @ \union {"loading"},
                                   !.mixed = @ \/ "mutating" \in page.busy]
             IN  Ask(p, refreshNotifications(p, "loading", FALSE))

\* Every other filter loads the list again; one of them asks for the unread
\* notifications only.
handleFilterChange ==
    /\ At("bell") /\ page.open
    /\ \E unreadOnly \in BOOLEAN :
         /\ ~(unreadOnly /\ page.unreadOnly)
         /\ LET p == [Mix(page) EXCEPT !.unreadOnly = unreadOnly,
                                       !.busy = @ \union {"loading"}]
            IN  Ask(p, refreshNotifications(p, "loading", FALSE))

RefreshButton ==
    /\ At("bell") /\ page.open /\ page.busy \intersect {"loading", "refreshing"} = {}
    /\ Ask([Mix(page) EXCEPT !.busy = @ \union {"refreshing"}],
           refreshNotifications(page, "refreshing", FALSE))

NotificationsLoaded(i) ==
    /\ At("bell") /\ calls[i].op = "refresh" /\ calls[i].state # "sent"
    /\ LET p == [page EXCEPT !.busy = @ \ {calls[i].kept.lock},
                             !.open = @ /\ ~calls[i].kept.close]
           b == Body(i)
       IN  Continue(i, IF calls[i].state = "failed" THEN p
                       ELSE [p EXCEPT !.list = b.list, !.badge = b.count], <<>>)

\* Mutant: the badge keeps counting what was marked or cleared.
OptimisticRows(p, ids, stage) ==
    [Mix(p) EXCEPT
       !.list = [n \in Notes |-> IF n \in ids THEN stage ELSE @[n]],
       !.busy = @ \union {"mutating"}]

\* The screen before the backend has answered.
Optimistic(p, ids, stage) ==
    [Mix(p) EXCEPT
       !.list = [n \in Notes |-> IF n \in ids THEN stage ELSE @[n]],
       !.badge = LET gone == Cardinality({n \in ids : p.list[n] = "unread"})
                 IN  IF @ > gone THEN @ - gone ELSE 0,
       !.busy = @ \union {"mutating"}]

Snapshot(p) == [list |-> p.list, badge |-> p.badge]

Usable == At("bell") /\ page.open /\ "mutating" \notin page.busy

handleMarkAllRead ==
    /\ Usable /\ page.badge # 0
    /\ LET shown == {n \in Notes : page.list[n] # "none"}
       IN  Ask([Optimistic(page, shown, "read") EXCEPT !.badge = 0],
               <<Call("markAll", [unreadOnly |-> page.unreadOnly], Snapshot(page))>>)

handleClearAll ==
    /\ Usable /\ \E n \in Notes : page.list[n] # "none"
    /\ Ask([Optimistic(page, Notes, "none") EXCEPT !.badge = 0],
           <<Call("clearAll", <<>>, Snapshot(page))>>)

\* The groups on the screen: none while the list is loading.
Groups == IF page.open /\ "loading" \notin page.busy
          THEN Visible(page.list, page.unreadOnly) ELSE {}

\* silent: the card is opened, which marks its group and then closes the
\* bell.  Only the buttons of a card wait for a change under way.
markGroupRead ==
    /\ At("bell")
    /\ \E n \in Groups, silent \in BOOLEAN :
         /\ page.list[n] = "unread" /\ (silent \/ "mutating" \notin page.busy)
         /\ Ask(Optimistic(page, {n}, "read"),
                <<Call("markGroup", [group |-> n, unreadOnly |-> page.unreadOnly],
                       [silent |-> silent])>>)

handleClearGroup ==
    /\ Usable
    /\ \E n \in Groups :
         Ask(Optimistic(page, {n}, "none"),
             <<Call("clearGroup", [group |-> n], Snapshot(page))>>)

\* The answer i of a change is followed by a refresh, which holds its lock.
\* The bound on calls leaves these out: every change has at most one.
RefreshAfter(i, close) ==
    /\ page' = page
    /\ calls' = RemoveAt(calls, i) \o refreshNotifications(
           [page EXCEPT !.unreadOnly = calls[i].arg.unreadOnly], "mutating", close)
    /\ UNCHANGED <<mounted, server, made, lost>>

\* Clearing and marking all take the snapshot back when they fail.
ClearAnswered(i) ==
    /\ At("bell") /\ calls[i].op \in {"markAll", "clearAll", "clearGroup"}
    /\ calls[i].state # "sent"
    /\ LET p == [page EXCEPT !.busy = @ \ {"mutating"}]
           s == calls[i].kept
       IN  IF calls[i].state = "failed"
           THEN Continue(i, [p EXCEPT !.list = s.list, !.badge = s.badge], <<>>)
           ELSE IF calls[i].op # "markAll" THEN Continue(i, p, <<>>)
           ELSE RefreshAfter(i, FALSE)

GroupMarked(i) ==
    /\ At("bell") /\ calls[i].op = "markGroup" /\ calls[i].state # "sent"
    /\ IF calls[i].state = "ok" /\ calls[i].kept.silent
       THEN Continue(i, [page EXCEPT !.busy = @ \ {"mutating"}, !.open = FALSE], <<>>)
       ELSE RefreshAfter(i, calls[i].kept.silent)

-----------------------------------------------------------------------------
\* markAllRead, markGroupRead, clearAll and clearGroup are one updateMany.
UpdateMany(ids, stage) ==
    [server EXCEPT !.rows = [n \in Notes |->
        IF n \in ids /\ @[n] \in {"unread", "read"} THEN stage ELSE @[n]]]

\* The list and the count of a refresh are read in one step.
BellServe(i) ==
    /\ At("bell")
    /\ \/ /\ Asked(i, "count")
          /\ Perform(i, server, TRUE, [count |-> Unread(server.rows)])
       \/ /\ Asked(i, "refresh")
          /\ Perform(i, server, TRUE, [list |-> Listed(server.rows, calls[i].arg.unreadOnly),
                                       count |-> Unread(server.rows)])
       \/ Asked(i, "markAll") /\ Perform(i, UpdateMany(Notes, "read"), TRUE, <<>>)
       \/ /\ Asked(i, "markGroup")
          /\ Perform(i, UpdateMany({calls[i].arg.group}, "read"), TRUE, <<>>)
       \/ Asked(i, "clearAll") /\ Perform(i, UpdateMany(Notes, "cleared"), TRUE, <<>>)
       \/ /\ Asked(i, "clearGroup")
          /\ Perform(i, UpdateMany({calls[i].arg.group}, "cleared"), TRUE, <<>>)

\* createForRecipients, for an event anywhere in the system.
createForRecipients ==
    /\ At("bell") /\ CanDisturb
    /\ \E n \in Notes : /\ server.rows[n] = "none"
                        /\ Elsewhere([server EXCEPT !.rows[n] = "unread",
                                                    !.others = @ + 1])

BellStep ==
    \/ BellPoll \/ handleToggle \/ handleFilterChange \/ RefreshButton
    \/ handleMarkAllRead \/ handleClearAll \/ markGroupRead \/ handleClearGroup
    \/ createForRecipients

BellReturn(i) ==
    \/ refreshUnreadCount(i) \/ NotificationsLoaded(i) \/ ClearAnswered(i)
    \/ GroupMarked(i)

\* A call under way is performed and answered, or fails.
BellAnswer == \E i \in DOMAIN calls : BellServe(i) \/ BellReturn(i)

-----------------------------------------------------------------------------
(* Properties.                                                              *)

\* While nothing arrives and nothing gets lost, an open bell at rest shows
\* what the user left there: what was shown early, loaded again or filtered
\* agrees with the rows, unless a change met another call.
SettledBellIsCurrent ==
    (At("bell") /\ page.open /\ calls = <<>> /\ server.others = 0 /\ lost = 0
       /\ ~page.mixed) =>
        /\ page.badge = Unread(server.rows)
        /\ \A n \in Notes : /\ n \in Visible(server.rows, page.unreadOnly) =>
                                 page.list[n] = server.rows[n]
                            /\ page.list[n] = "unread" => server.rows[n] = "unread"
                            /\ page.list[n] # "none" => server.rows[n] # "cleared"

\* Whatever was taken back wrongly, overtaken or lost: when the bell stays
\* closed, its badge becomes the number of unread notifications and stays it.
BadgeCatchesUp ==
    <>[](At("bell") /\ ~page.open) =>
        <>[](At("bell") /\ page.badge = Unread(server.rows))
=============================================================================
