------------------------------- MODULE Workspace -------------------------------
(***************************************************************************)
(* The front end: a tab is on one of the pages, and a behaviour is one of  *)
(* that page, its backend rows and its calls.  Pages share no state but    *)
(* the backend's, whose changes by others each page's module has.          *)
(***************************************************************************)
EXTENDS SigningPage, ListPage, ShipmentPage, LeadPage, NotesPage, CostsPage,
        OrderPage, BellPage, UsersPage, OrderEntryPages,
        DashboardPage, FormPage, DetailPages, ListQueries

Init ==
    \/ SigningInit \/ ListInit \/ ShipmentInit \/ LeadInit \/ NotesInit
    \/ CostsInit \/ OrderInit \/ BellInit \/ UsersInit \/ CreateInit
    \/ EditInit \/ DashboardInit \/ FormInit \/ DetailInit
    \/ QueryInit

\* What a user or somebody else does.
Step ==
    \/ SigningStep \/ ListStep \/ ShipmentStep \/ LeadStep \/ NotesStep
    \/ CostsStep \/ OrderStep \/ BellStep \/ UsersStep \/ CreateStep
    \/ EditStep \/ DashboardStep \/ FormStep \/ DetailStep
    \/ QueryStep

\* The backend performs a call.
Serve(i) ==
    \/ SigningServe(i) \/ ListServe(i) \/ ShipmentServe(i) \/ LeadServe(i)
    \/ NotesServe(i) \/ CostsServe(i) \/ OrderServe(i) \/ BellServe(i)
    \/ UsersServe(i) \/ CreateServe(i) \/ EditServe(i)
    \/ DashboardServe(i) \/ FormServe(i) \/ DetailServe(i)
    \/ QueryServe(i)

\* The page takes its answer.
Return(i) ==
    \/ SigningReturn(i) \/ ListReturn(i) \/ ShipmentReturn(i) \/ LeadReturn(i)
    \/ NotesReturn(i) \/ CostsReturn(i) \/ OrderReturn(i) \/ BellReturn(i)
    \/ UsersReturn(i) \/ CreateReturn(i) \/ EditReturn(i)
    \/ DashboardReturn(i) \/ FormReturn(i) \/ DetailReturn(i)
    \/ QueryReturn(i)

Next == Step \/ \E i \in DOMAIN calls : Serve(i) \/ Return(i) \/ LoseCall(i)

\* The interval of the bell keeps firing, and the promises of its calls
\* settle; other pages need no progress for what is claimed of them.
Spec == Init /\ [][Next]_vars /\ WF_vars(BellPoll) /\ WF_vars(BellAnswer)

-----------------------------------------------------------------------------
(* Properties of all pages; their conjuncts are stated in the pages' modules *)

\* Whatever was saved of an order, the pages, the card of its profit, the
\* export, the note of a refund and the dashboard report the same money, but
\* for how they round the fee.
ReportsAgree ==
    OrderStored =>
        /\ PagesAgree
        /\ server.row.status \in CompletedSaleStatuses =>
              NearSaleBasis(getGpSaleBasis([paymentMethod |-> server.row.paymentMethod,
                                            sale |-> SalePrice]))

\* However answers, reloads, optimistic changes and their rollbacks overtook
\* each other, a page at rest shows what the backend stores: tables the rows
\* of their filter and page, details and accounts their rows, the bell its
\* unread notifications, the order form the number that comes next.
SettledPagesAreCurrent ==
    /\ SettledTableIsCurrent
    /\ SettledShipmentIsCurrent
    /\ SettledLeadIsCurrent
    /\ SettledOrderIsCurrent
    /\ SettledBellIsCurrent
    /\ SettledAccountsAreCurrent
    /\ NotesComplete
    /\ NumberShownIsNext
    /\ SettledDashboardIsCurrent
    /\ ReportsAgree
    /\ SettledNotesAreShown

\* What is sent is about the record that the user was shown, although
\* answers move the choice and two functions build one query.
SendsWhatIsShown ==
    /\ AmountsStayWithShipment /\ EmailStaysWithAccount
    /\ ExportSelectsTheList /\ SavedFormIsShownAgain
    /\ PreviewIsStored /\ DetailsShowWhatIsStored

\* What is listed under a choice belongs to it, however fast choices change
\* and through however many layers a filter is passed on.
ShownBelongsToChoice ==
    NotesBelong /\ ModelsBelongToMake /\ DashboardShowsChoice /\ ListedMatchesChoice

\* Pages and services decide separately what is allowed: a user whom nobody
\* interferes with is refused nothing the page offers, creates nothing twice
\* and takes nothing back.
LoneWorkSucceeds ==
    /\ LoneRequestAllowed
    /\ LoneCostsAreCurrent
    /\ LoneOrderWork
    /\ FormAgreesWithService
    /\ DashboardIsAnswered
    /\ LayersAgree
    /\ StoredFitsForm
    /\ LoneDetailWork

\* Every lock and spinner belongs to a call under way: once only the poll
\* of the bell is left nothing stays disabled, although most locks are
\* released by continuations that other answers, reloads and unmounts may
\* overtake.  The photo is compressed without a call, and a make that is
\* emptied during its lookup leaves the select of models locked.
\* A tab of the dashboard that is left keeps its spinner until it is opened.
NoLockOutlivesItsCall ==
    (\A i \in DOMAIN calls : calls[i].op = "count") => page.busy \subseteq
        (IF At("signing") THEN {"photo"}
         ELSE IF At("create") THEN {"models"}
         ELSE IF At("dashboard") THEN Tabs \ {page.tab} ELSE {})
=============================================================================
