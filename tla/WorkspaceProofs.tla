---------------------------- MODULE WorkspaceProofs ----------------------------
(***************************************************************************)
(* What the proofs about the pages share: the calls under way and what a   *)
(* step does to them, and that a tab stays on its page, so that the steps  *)
(* of the workspace are those of the page that is mounted and the calls    *)
(* that are lost.  StaffPageProofs draws the theorems about single pages   *)
(* from it, PageLockProofs the one about the locks of all of them.         *)
(***************************************************************************)
EXTENDS Workspace, TLAPS

-----------------------------------------------------------------------------
(* A step of the workspace is one of the page that is mounted.              *)

Moves(step, serve(_), return(_)) ==
    step \/ \E i \in DOMAIN calls : serve(i) \/ return(i)

\* Whatever a page or the backend does, the page stays mounted.
LEMMA Steady ==
    /\ \A p, new : Ask(p, new) => UNCHANGED mounted
    /\ \A p : Become(p) => UNCHANGED mounted
    /\ \A i, s, ok, b : Perform(i, s, ok, b) => UNCHANGED mounted
    /\ \A i : Refuse(i) => UNCHANGED mounted
    /\ \A i, p, new : Continue(i, p, new) => UNCHANGED mounted
    /\ \A s : Elsewhere(s) => UNCHANGED mounted
  BY DEF Ask, Become, Perform, Refuse, Continue, Elsewhere

LEMMA SigningMoves ==
    Moves(SigningStep, SigningServe, SigningReturn) => At("signing") /\ UNCHANGED mounted
<1>1. SigningStep => At("signing") /\ UNCHANGED mounted
  BY Steady DEF SigningStep, OpenLink, Uncheck, CheckTerms, saveSignatureFromModal,
         handlePhotoIdFile, PhotoIdReady, RemovePhotoId, submitSignature, Staff,
         OtherDevice, CanWork
<1>2. ASSUME NEW i
      PROVE  SigningServe(i) \/ SigningReturn(i) => At("signing") /\ UNCHANGED mounted
  BY Steady DEF SigningServe, SigningReturn, Opened, TermsAccepted, Submitted, SubmitFailed,
         Looked
<1> QED
  BY <1>1, <1>2 DEF Moves

LEMMA ListMoves ==
    Moves(ListStep, ListServe, ListReturn)
    => At("list") /\ UNCHANGED mounted
<1>1. ListStep => At("list") /\ UNCHANGED mounted
  BY Steady DEF ListStep, OpenList, ChangeFilter, TurnPage, handleRetry, OpenForm,
         CloseForm, SubmitForm, handleExportExcel, OtherRows
<1>2. ASSUME NEW i PROVE ListServe(i) => At("list") /\ UNCHANGED mounted
  BY Steady DEF ListServe
<1>3. ASSUME NEW i PROVE Loaded(i) \/ Exported(i) => At("list") /\ UNCHANGED mounted
  BY Steady DEF Loaded, Exported, ClampPage
<1>4. ASSUME NEW i PROVE Saved(i) => At("list") /\ UNCHANGED mounted
  BY Steady DEF Saved
<1> QED
  BY <1>1, <1>2, <1>3, <1>4 DEF Moves, ListReturn

LEMMA ShipmentMoves ==
    Moves(ShipmentStep, ShipmentServe, ShipmentReturn)
    => At("shipment") /\ UNCHANGED mounted
<1>1. ShipmentStep => At("shipment") /\ UNCHANGED mounted
  BY Steady DEF ShipmentStep, OpenShipment, OrderLoaded, updateStatus,
         handleAdditionalCostSubmit, handleBaseCostSubmit, OtherShipping, Shown
<1>2. ASSUME NEW i
      PROVE  ShipmentServe(i) \/ ShipmentReturn(i) => At("shipment") /\ UNCHANGED mounted
  BY Steady DEF ShipmentServe, ShipmentReturn, ShipmentLoaded, StatusUpdated, CostSaved
<1> QED
  BY <1>1, <1>2 DEF Moves

LEMMA LeadMoves ==
    Moves(LeadStep, LeadServe, LeadReturn)
    => At("lead") /\ UNCHANGED mounted
<1>1. LeadStep => At("lead") /\ UNCHANGED mounted
  BY Steady DEF LeadStep, OpenLead, OpenWebsiteLead, handleStatusChange, handleAddComment,
         update, addNote, claim, convert, OtherSales, AtLead, Ready
<1>2. ASSUME NEW i PROVE LeadServe(i) \/ LeadReturn(i) => At("lead") /\ UNCHANGED mounted
  BY Steady DEF LeadServe, LeadReturn, LeadLoaded, NotesLoaded, WebsiteLeadLoaded,
         LeadSaved, NoteSaved, LeadConverted, AtLead
<1> QED
  BY <1>1, <1>2 DEF Moves

LEMMA NotesMoves ==
    Moves(NotesStep, NotesServe, NotesReturn)
    => At("notes") /\ UNCHANGED mounted
<1>1. NotesStep => At("notes") /\ UNCHANGED mounted
  BY Steady DEF NotesStep, EntitiesLoad, OpenNotes, ChangeSearch, retryEntities,
         handleEntityChange, retryNotes, handleSubmit, OtherNotes, Browsing
<1>2. ASSUME NEW i PROVE NotesServe(i) \/ NotesReturn(i) => At("notes") /\ UNCHANGED mounted
  BY Steady DEF NotesServe, NotesReturn, EntitiesLoaded, NotesAnswered, NoteCreated
<1> QED
  BY <1>1, <1>2 DEF Moves

LEMMA CostsMoves ==
    Moves(CostsStep, CostsServe, CostsReturn)
    => At("costs") /\ UNCHANGED mounted
<1>1. CostsStep => At("costs") /\ UNCHANGED mounted
  BY Steady DEF CostsStep, OpenCosts, retryShipments, handleShipmentChange, retryContext,
         handleCostSubmit, OtherCosts
<1>2. ASSUME NEW i PROVE CostsServe(i) \/ CostsReturn(i) => At("costs") /\ UNCHANGED mounted
  BY Steady DEF CostsServe, CostsReturn, ShipmentsLoaded, ContextLoaded, CostsSaved
<1> QED
  BY <1>1, <1>2 DEF Moves

LEMMA OrderMoves ==
    Moves(OrderStep, OrderServe, OrderReturn)
    => At("order") /\ UNCHANGED mounted
<1>1. OrderStep => At("order") /\ UNCHANGED mounted
  BY Steady DEF OrderStep, OpenOrder, loadFullInvoice, openGenerateModal, openEditModal,
         openCloneModal, CloseInvoiceForm, handleSaveInvoice, handleSignatureAction,
         openResolution, resetModal, handleResolutionSubmit, OtherInvoice, Free
<1>2. ASSUME NEW i PROVE OrderServe(i) \/ OrderReturn(i) => At("order") /\ UNCHANGED mounted
  BY Steady DEF OrderServe, OrderReturn, OrderAnswered, InvoiceLoaded, DefaultsLoaded,
         InvoiceSaved, Resolved
<1> QED
  BY <1>1, <1>2 DEF Moves

LEMMA BellMoves ==
    Moves(BellStep, BellServe, BellReturn)
    => At("bell") /\ UNCHANGED mounted
<1>1. BellStep => At("bell") /\ UNCHANGED mounted
  BY Steady DEF BellStep, BellPoll, handleToggle, handleFilterChange, RefreshButton,
         handleMarkAllRead, handleClearAll, markGroupRead, handleClearGroup,
         createForRecipients, Usable
<1>2. ASSUME NEW i PROVE BellServe(i) \/ BellReturn(i) => At("bell") /\ UNCHANGED mounted
  BY Steady DEF BellServe, BellReturn, refreshUnreadCount, NotificationsLoaded,
         ClearAnswered, GroupMarked, RefreshAfter
<1> QED
  BY <1>1, <1>2 DEF Moves

LEMMA UsersMoves ==
    Moves(UsersStep, UsersServe, UsersReturn)
    => At("users") /\ UNCHANGED mounted
<1>1. UsersStep => At("users") /\ UNCHANGED mounted
  BY Steady DEF UsersStep, OpenUsers, SelectUser, CreateUser, handleAccountUpdate,
         handleUserStatusUpdate, handleDeleteUser, OtherAdmin, Panel
<1>2. /\ \A i : Checked(i) => UNCHANGED mounted
      /\ \A i : GoneMeanwhile(i) => UNCHANGED mounted
      /\ \A i, u, row : Written(i, u, row) => UNCHANGED mounted
  BY DEF Checked, GoneMeanwhile, Written
<1>3. ASSUME NEW i PROVE UsersServe(i) => At("users") /\ UNCHANGED mounted
  BY <1>2, Steady DEF UsersServe, UserChecked, UserWritten
<1>4. ASSUME NEW i PROVE UsersReturn(i) => At("users") /\ UNCHANGED mounted
  BY Steady DEF UsersReturn, UsersLoaded, AccountAnswered
<1> QED
  BY <1>1, <1>3, <1>4 DEF Moves

LEMMA CreateMoves ==
    Moves(CreateStep, CreateServe, CreateReturn)
    => At("create") /\ UNCHANGED mounted
<1>1. CreateStep => At("create") /\ UNCHANGED mounted
  BY Steady DEF CreateStep, MountForm, ChooseMake, DismissForm, SubmitNew, OtherOrder
<1>2. ASSUME NEW i
      PROVE  CreateServe(i) \/ CreateReturn(i) => At("create") /\ UNCHANGED mounted
  BY Steady DEF CreateServe, CreateReturn, NumberLoaded, ModelsLoaded, CreateAnswered
<1> QED
  BY <1>1, <1>2 DEF Moves

LEMMA EditMoves ==
    Moves(EditStep, EditServe, EditReturn)
    => At("edit") /\ UNCHANGED mounted
<1>1. EditStep => At("edit") /\ UNCHANGED mounted
  BY Steady DEF EditStep, OpenEditor, CloseEditor, SubmitEdit, OtherEdit
<1>2. ASSUME NEW i PROVE EditServe(i) \/ EditReturn(i) => At("edit") /\ UNCHANGED mounted
  BY Steady DEF EditServe, EditReturn, EditorLoaded, OrderEdited
<1> QED
  BY <1>1, <1>2 DEF Moves

LEMMA DashboardMoves ==
    Moves(DashboardStep, DashboardServe, DashboardReturn)
    => At("dashboard") /\ UNCHANGED mounted
<1>1. DashboardStep => At("dashboard") /\ UNCHANGED mounted
  BY Steady DEF DashboardStep, LoadTab, OpenDashboard, ChooseTab, ChoosePeriod,
         ChooseStart, ChooseEnd, RetryDashboard, FilterOrders, TurnOrders, FilterLeads,
         OtherDelivery, DashboardOpen, OrdersShown, LeadsShown
<1>2. ASSUME NEW i
      PROVE  DashboardServe(i) \/ DashboardReturn(i) => At("dashboard") /\ UNCHANGED mounted
  BY Steady DEF DashboardServe, DashboardReturn, DashboardAnswered
<1> QED
  BY <1>1, <1>2 DEF Moves

LEMMA FormMoves ==
    Moves(FormStep, FormServe, FormReturn)
    => At("form") /\ UNCHANGED mounted
<1>1. FormStep => At("form") /\ UNCHANGED mounted
  BY Steady DEF FormStep, FillForm, TypeField, SaveForm
<1>2. ASSUME NEW i PROVE FormServe(i) \/ FormReturn(i) => At("form") /\ UNCHANGED mounted
  BY Steady DEF FormServe, FormReturn, FormSaved
<1> QED
  BY <1>1, <1>2 DEF Moves

LEMMA DetailMoves ==
    Moves(DetailStep, DetailServe, DetailReturn)
    => At("detail") /\ UNCHANGED mounted
<1>1. DetailStep => At("detail") /\ UNCHANGED mounted
  BY Steady DEF DetailStep, OpenOrderDetail, OpenShipmentCard, OpenReplacement,
         handleAddNoteSubmit, ReplacementsListed, SubmitReplacement, SaveShipment,
         submitStatus, handleUpdate, OthersDetail, OnDetail, HasNoteCard
<1>2. ASSUME NEW i
      PROVE  DetailServe(i) \/ DetailReturn(i) => At("detail") /\ UNCHANGED mounted
  BY Steady DEF GoOn, DetailServe, DetailReturn, OrderDropped, OrderPageLoaded,
         ShipmentOrderLoaded, InvoiceOrderLoaded, ShipmentNotesLoaded, OrderPageNoteAdded,
         ShipmentOrderNoteAdded, ShipmentPageNoteAdded, ReplacementPageNoteAdded,
         ReplacementCreated, ShipmentRefreshed, handleShipmentCreated, StatusAnswered,
         ReplacementLoaded, updateReplacement, OnDetail, OrderReturned, NoteReturned,
         NoteRefused
<1> QED
  BY <1>1, <1>2 DEF Moves

LEMMA QueryMoves ==
    Moves(QueryStep, QueryServe, QueryReturn)
    => At("query") /\ UNCHANGED mounted
<1>1. QueryStep => At("query") /\ UNCHANGED mounted
  BY Steady DEF QueryStep, AskForRows
<1>2. ASSUME NEW i PROVE QueryServe(i) \/ QueryReturn(i) => At("query") /\ UNCHANGED mounted
  BY Steady DEF QueryServe, QueryReturn
<1> QED
  BY <1>1, <1>2 DEF Moves

LEMMA OneMoves ==
    ASSUME Next
    PROVE  \/ Moves(SigningStep, SigningServe, SigningReturn)
           \/ Moves(ListStep, ListServe, ListReturn)
           \/ Moves(ShipmentStep, ShipmentServe, ShipmentReturn)
           \/ Moves(LeadStep, LeadServe, LeadReturn)
           \/ Moves(NotesStep, NotesServe, NotesReturn)
           \/ Moves(CostsStep, CostsServe, CostsReturn)
           \/ Moves(OrderStep, OrderServe, OrderReturn)
           \/ Moves(BellStep, BellServe, BellReturn)
           \/ Moves(UsersStep, UsersServe, UsersReturn)
           \/ Moves(CreateStep, CreateServe, CreateReturn)
           \/ Moves(EditStep, EditServe, EditReturn)
           \/ Moves(DashboardStep, DashboardServe, DashboardReturn)
           \/ Moves(FormStep, FormServe, FormReturn)
           \/ Moves(DetailStep, DetailServe, DetailReturn)
           \/ Moves(QueryStep, QueryServe, QueryReturn)
           \/ \E i \in DOMAIN calls : LoseCall(i)
  BY DEF Next, Step, Serve, Return, Moves

LEMMA OnSigning ==
    ASSUME At("signing"), Next
    PROVE  \/ SigningStep
           \/ \E i \in DOMAIN calls : SigningServe(i) \/ SigningReturn(i) \/ LoseCall(i)
  BY OneMoves, ListMoves, ShipmentMoves, LeadMoves, NotesMoves, CostsMoves, OrderMoves,
     BellMoves, UsersMoves, CreateMoves, EditMoves, DashboardMoves, FormMoves,
     DetailMoves, QueryMoves
     DEF At, Moves

LEMMA OnList ==
    ASSUME At("list"), Next
    PROVE  \/ ListStep
           \/ \E i \in DOMAIN calls : ListServe(i) \/ ListReturn(i) \/ LoseCall(i)
  BY OneMoves, SigningMoves, ShipmentMoves, LeadMoves, NotesMoves, CostsMoves, OrderMoves,
     BellMoves, UsersMoves, CreateMoves, EditMoves, DashboardMoves, FormMoves,
     DetailMoves, QueryMoves
     DEF At, Moves

LEMMA OnShipment ==
    ASSUME At("shipment"), Next
    PROVE  \/ ShipmentStep
           \/ \E i \in DOMAIN calls :
                 ShipmentServe(i) \/ ShipmentReturn(i) \/ LoseCall(i)
  BY OneMoves, SigningMoves, ListMoves, LeadMoves, NotesMoves, CostsMoves, OrderMoves,
     BellMoves, UsersMoves, CreateMoves, EditMoves, DashboardMoves, FormMoves,
     DetailMoves, QueryMoves
     DEF At, Moves

LEMMA OnUsers ==
    ASSUME At("users"), Next
    PROVE  \/ UsersStep
           \/ \E i \in DOMAIN calls : UsersServe(i) \/ UsersReturn(i) \/ LoseCall(i)
  BY OneMoves, SigningMoves, ListMoves, ShipmentMoves, LeadMoves, NotesMoves, CostsMoves,
     OrderMoves, BellMoves, CreateMoves, EditMoves, DashboardMoves, FormMoves,
     DetailMoves, QueryMoves
     DEF At, Moves

LEMMA OnCosts ==
    ASSUME At("costs"), Next
    PROVE  \/ CostsStep
           \/ \E i \in DOMAIN calls : CostsServe(i) \/ CostsReturn(i) \/ LoseCall(i)
  BY OneMoves, SigningMoves, ListMoves, ShipmentMoves, LeadMoves, NotesMoves, UsersMoves,
     OrderMoves, BellMoves, CreateMoves, EditMoves, DashboardMoves, FormMoves,
     DetailMoves, QueryMoves
     DEF At, Moves

LEMMA OnNotes ==
    ASSUME At("notes"), Next
    PROVE  \/ NotesStep
           \/ \E i \in DOMAIN calls : NotesServe(i) \/ NotesReturn(i) \/ LoseCall(i)
  BY OneMoves, SigningMoves, ListMoves, ShipmentMoves, LeadMoves, CostsMoves, UsersMoves,
     OrderMoves, BellMoves, CreateMoves, EditMoves, DashboardMoves, FormMoves,
     DetailMoves, QueryMoves
     DEF At, Moves

LEMMA OnCreate ==
    ASSUME At("create"), Next
    PROVE  \/ CreateStep
           \/ \E i \in DOMAIN calls : CreateServe(i) \/ CreateReturn(i) \/ LoseCall(i)
  BY OneMoves, SigningMoves, ListMoves, ShipmentMoves, LeadMoves, NotesMoves, CostsMoves,
     OrderMoves, BellMoves, UsersMoves, EditMoves, DashboardMoves, FormMoves,
     DetailMoves, QueryMoves
     DEF At, Moves

LEMMA OnDashboard ==
    ASSUME At("dashboard"), Next
    PROVE  \/ DashboardStep
           \/ \E i \in DOMAIN calls :
                 DashboardServe(i) \/ DashboardReturn(i) \/ LoseCall(i)
  BY OneMoves, SigningMoves, ListMoves, ShipmentMoves, LeadMoves, NotesMoves, CostsMoves,
     OrderMoves, BellMoves, UsersMoves, CreateMoves, EditMoves, FormMoves, DetailMoves,
     QueryMoves
     DEF At, Moves

LEMMA OnOrder ==
    ASSUME At("order"), Next
    PROVE  \/ OrderStep
           \/ \E i \in DOMAIN calls : OrderServe(i) \/ OrderReturn(i) \/ LoseCall(i)
  BY OneMoves, SigningMoves, ListMoves, ShipmentMoves, LeadMoves, NotesMoves, UsersMoves,
     CostsMoves, BellMoves, CreateMoves, EditMoves, DashboardMoves, FormMoves,
     DetailMoves, QueryMoves
     DEF At, Moves

LEMMA OnLead ==
    ASSUME At("lead"), Next
    PROVE  \/ LeadStep
           \/ \E i \in DOMAIN calls : LeadServe(i) \/ LeadReturn(i) \/ LoseCall(i)
  BY OneMoves, SigningMoves, ListMoves, ShipmentMoves, NotesMoves, CostsMoves,
     OrderMoves, BellMoves, UsersMoves, CreateMoves, EditMoves, DashboardMoves,
     FormMoves, DetailMoves, QueryMoves
     DEF At, Moves

LEMMA OnBell ==
    ASSUME At("bell"), Next
    PROVE  \/ BellStep
           \/ \E i \in DOMAIN calls : BellServe(i) \/ BellReturn(i) \/ LoseCall(i)
  BY OneMoves, SigningMoves, ListMoves, ShipmentMoves, LeadMoves, NotesMoves, CostsMoves,
     OrderMoves, UsersMoves, CreateMoves, EditMoves, DashboardMoves, FormMoves,
     DetailMoves, QueryMoves
     DEF At, Moves

LEMMA OnEdit ==
    ASSUME At("edit"), Next
    PROVE  \/ EditStep
           \/ \E i \in DOMAIN calls : EditServe(i) \/ EditReturn(i) \/ LoseCall(i)
  BY OneMoves, SigningMoves, ListMoves, ShipmentMoves, LeadMoves, NotesMoves, CostsMoves,
     OrderMoves, BellMoves, UsersMoves, CreateMoves, DashboardMoves, FormMoves,
     DetailMoves, QueryMoves
     DEF At, Moves

LEMMA OnForm ==
    ASSUME At("form"), Next
    PROVE  \/ FormStep
           \/ \E i \in DOMAIN calls : FormServe(i) \/ FormReturn(i) \/ LoseCall(i)
  BY OneMoves, SigningMoves, ListMoves, ShipmentMoves, LeadMoves, NotesMoves, CostsMoves,
     OrderMoves, BellMoves, UsersMoves, CreateMoves, EditMoves, DashboardMoves,
     DetailMoves, QueryMoves
     DEF At, Moves

LEMMA OnDetails ==
    ASSUME At("detail"), Next
    PROVE  \/ DetailStep
           \/ \E i \in DOMAIN calls : DetailServe(i) \/ DetailReturn(i) \/ LoseCall(i)
  BY OneMoves, SigningMoves, ListMoves, ShipmentMoves, LeadMoves, NotesMoves, CostsMoves,
     OrderMoves, BellMoves, UsersMoves, CreateMoves, EditMoves, DashboardMoves,
     FormMoves, QueryMoves
     DEF At, Moves

LEMMA OnQuery ==
    ASSUME At("query"), Next
    PROVE  \/ QueryStep
           \/ \E i \in DOMAIN calls : QueryServe(i) \/ QueryReturn(i) \/ LoseCall(i)
  BY OneMoves, SigningMoves, ListMoves, ShipmentMoves, LeadMoves, NotesMoves, CostsMoves,
     OrderMoves, BellMoves, UsersMoves, CreateMoves, EditMoves, DashboardMoves,
     FormMoves, DetailMoves
     DEF At, Moves

LEMMA StaysMounted ==
    [Next]_vars => UNCHANGED mounted
<1>1. (\E i \in DOMAIN calls : LoseCall(i)) => UNCHANGED mounted
  BY DEF LoseCall
<1> QED
  BY <1>1, OneMoves, SigningMoves, ListMoves, ShipmentMoves, LeadMoves, NotesMoves,
     CostsMoves, OrderMoves, BellMoves, UsersMoves, CreateMoves, EditMoves,
     DashboardMoves, FormMoves, DetailMoves, QueryMoves
     DEF vars

\* The page that is mounted is the one whose initial state this is.
LEMMA MountedAtStart ==
    /\ SigningInit => At("signing")
    /\ ListInit => At("list")
    /\ ShipmentInit => At("shipment")
    /\ LeadInit => At("lead")
    /\ NotesInit => At("notes")
    /\ CostsInit => At("costs")
    /\ OrderInit => At("order")
    /\ BellInit => At("bell")
    /\ UsersInit => At("users")
    /\ CreateInit => At("create")
    /\ EditInit => At("edit")
    /\ DashboardInit => At("dashboard")
    /\ FormInit => At("form")
    /\ DetailInit => At("detail")
    /\ QueryInit => At("query")
<1>1. \A name, p, s : Mount(name, p, s) => At(name)
  BY DEF Mount, At
<1>2. SigningInit => At("signing")
  BY <1>1 DEF SigningInit
<1>3. ListInit => At("list")
  BY <1>1 DEF ListInit
<1>4. ShipmentInit => At("shipment")
  BY <1>1 DEF ShipmentInit
<1>5. LeadInit => At("lead")
  BY <1>1 DEF LeadInit
<1>6. NotesInit => At("notes")
  BY <1>1 DEF NotesInit
<1>7. CostsInit => At("costs")
  BY <1>1 DEF CostsInit
<1>8. OrderInit => At("order")
  BY <1>1 DEF OrderInit
<1>9. BellInit => At("bell")
  BY <1>1 DEF BellInit
<1>10. UsersInit => At("users")
  BY <1>1 DEF UsersInit
<1>11. CreateInit => At("create")
  BY <1>1 DEF CreateInit
<1>12. EditInit => At("edit")
  BY <1>1 DEF EditInit
<1>13. DashboardInit => At("dashboard")
  BY <1>1 DEF DashboardInit
<1>14. FormInit => At("form")
  BY <1>1 DEF FormInit
<1>15. DetailInit => At("detail")
  BY <1>1 DEF DetailInit
<1>16. QueryInit => At("query")
  <2>1. \A table, choice, s : OpenTable(table, choice, s) => At("query")
    BY <1>1 DEF OpenTable
  <2>2. StatusInit => At("query")
    BY <2>1 DEF StatusInit
  <2>3. LeadFilterInit => At("query")
    BY <2>1 DEF LeadFilterInit
  <2>4. PeopleInit => At("query")
    BY <2>1 DEF PeopleInit
  <2>5. AgeingInit => At("query")
    BY <2>1 DEF AgeingInit
  <2>6. DatesInit => At("query")
    BY <2>1 DEF DatesInit
  <2>7. SearchInit => At("query")
    BY <2>1 DEF SearchInit
  <2> QED
    BY <2>2, <2>3, <2>4, <2>5, <2>6, <2>7 DEF QueryInit
<1> QED
  BY <1>2, <1>3, <1>4, <1>5, <1>6, <1>7, <1>8, <1>9, <1>10, <1>11, <1>12, <1>13,
     <1>14, <1>15, <1>16

-----------------------------------------------------------------------------
(* Calls.                                                                   *)

IsCall(c) ==
    c = [op |-> c.op, arg |-> c.arg, kept |-> c.kept, state |-> c.state, body |-> c.body]

\* The call of a page that makes one at a time.
LEMMA OnlyCall ==
    ASSUME NEW c, calls = <<c>>, NEW i \in DOMAIN calls
    PROVE  i = 1 /\ calls[i] = c
  OBVIOUS

LEMMA OnlyReturn ==
    ASSUME NEW c, calls = <<c>>
    PROVE  RemoveAt(calls, 1) = <<>>
  BY DEF RemoveAt

LEMMA OnlyServed ==
    ASSUME NEW c, IsCall(c), calls = <<c>>, NEW s,
           NEW ok \in BOOLEAN, NEW b, Perform(1, s, ok, b)
    PROVE  /\ c.state = "sent"
           /\ calls' = <<[c EXCEPT !.state = IF ok THEN "ok" ELSE "failed",
                                 !.body = IF ok THEN <<b>> ELSE <<>>]>>
           /\ server' = s
           /\ UNCHANGED <<page, made, lost>>
  BY DEF Perform, IsCall

LEMMA OnlyLost ==
    ASSUME NEW c, IsCall(c), calls = <<c>>, LoseCall(1)
    PROVE  /\ calls' = <<[c EXCEPT !.state = "failed", !.body = <<>>]>>
           /\ UNCHANGED <<page, made, server>>
  BY DEF LoseCall, IsCall

-----------------------------------------------------------------------------
(* Calls of pages that may make several at a time.                          *)

IsCalls(s) == \E S : s \in Seq(S)

\* Each call of the sequence after is one of before or one of new.
OnlyFrom(after, before, new) ==
    \A j \in DOMAIN after :
        \/ \E i \in DOMAIN before : after[j] = before[i]
        \/ \E k \in DOMAIN new : after[j] = new[k]

LEMMA RemovedCalls ==
    ASSUME NEW S, NEW s \in Seq(S), NEW i \in DOMAIN s
    PROVE  RemoveAt(s, i) \in Seq(S) /\ OnlyFrom(RemoveAt(s, i), s, <<>>)
<1> DEFINE a == SubSeq(s, 1, i - 1)
           b == SubSeq(s, i + 1, Len(s))
<1>1. i \in 1..Len(s) /\ Len(s) \in Nat
  OBVIOUS
<1>2. a \in Seq(S) /\ Len(a) = i - 1 /\ \A k \in 1..(i - 1) : a[k] = s[k]
  BY <1>1
<1>3. b \in Seq(S) /\ Len(b) = Len(s) - i /\ \A k \in 1..(Len(s) - i) : b[k] = s[i + k]
  BY <1>1
<1>4. RemoveAt(s, i) = a \o b
  BY DEF RemoveAt
<1> HIDE DEF a, b
<1>5. a \o b \in Seq(S) /\ Len(a \o b) = Len(s) - 1
  BY <1>1, <1>2, <1>3
<1>6. ASSUME NEW j \in DOMAIN (a \o b) PROVE \E k \in DOMAIN s : (a \o b)[j] = s[k]
  <2>1. j \in 1..(Len(s) - 1)
    BY <1>5
  <2>2. CASE j <= Len(a)
    BY <1>1, <1>2, <1>3, <2>1, <2>2
  <2>3. CASE j > Len(a)
    <3>1. (a \o b)[j] = b[j - Len(a)]
      BY <1>1, <1>2, <1>3, <2>1, <2>3
    <3>2. j - Len(a) \in 1..(Len(s) - i) /\ j + 1 \in DOMAIN s
      BY <1>1, <1>2, <2>1, <2>3
    <3>3. b[j - Len(a)] = s[i + (j - Len(a))]
      BY <1>3, <3>2
    <3>4. i + (j - Len(a)) = j + 1
      BY <1>1, <1>2, <2>1
    <3> QED
      BY <3>1, <3>2, <3>3, <3>4
  <2> QED
    BY <1>2, <2>1, <2>2, <2>3
<1> QED
  BY <1>4, <1>5, <1>6 DEF OnlyFrom

LEMMA JoinedCalls ==
    ASSUME NEW S, NEW s \in Seq(S), NEW T, NEW new \in Seq(T)
    PROVE  s \o new \in Seq(S \union T) /\ OnlyFrom(s \o new, s, new)
<1>1. s \in Seq(S \union T) /\ new \in Seq(S \union T)
  OBVIOUS
<1> QED
  BY <1>1 DEF OnlyFrom

LEMMA MoreCalls ==
    ASSUME IsCalls(calls), NEW c, NEW p, Ask(p, <<c>>)
    PROVE  /\ IsCalls(calls') /\ OnlyFrom(calls', calls, <<c>>)
           /\ page' = p /\ server' = server
<1>1. PICK S : calls \in Seq(S)
  BY DEF IsCalls
<1>2. <<c>> \in Seq({c})
  OBVIOUS
<1>3. calls' = calls \o <<c>> /\ page' = p /\ server' = server
  BY DEF Ask
<1> QED
  BY <1>1, <1>2, <1>3, JoinedCalls DEF IsCalls

LEMMA ContinuedCalls ==
    ASSUME IsCalls(calls), NEW T, NEW new \in Seq(T), NEW p, NEW i \in DOMAIN calls,
           Continue(i, p, new)
    PROVE  /\ IsCalls(calls') /\ OnlyFrom(calls', calls, new)
           /\ page' = p /\ server' = server
<1>1. PICK S : calls \in Seq(S)
  BY DEF IsCalls
<1>2. RemoveAt(calls, i) \in Seq(S) /\ OnlyFrom(RemoveAt(calls, i), calls, <<>>)
  BY <1>1, RemovedCalls
<1>3. /\ RemoveAt(calls, i) \o new \in Seq(S \union T)
      /\ OnlyFrom(RemoveAt(calls, i) \o new, RemoveAt(calls, i), new)
  BY <1>2, JoinedCalls
<1>4. OnlyFrom(RemoveAt(calls, i) \o new, calls, new)
  BY <1>2, <1>3 DEF OnlyFrom
<1>5. calls' = RemoveAt(calls, i) \o new /\ page' = p /\ server' = server
  BY DEF Continue
<1> QED
  BY <1>3, <1>4, <1>5 DEF IsCalls

AnsweredAt(s, i, state, body) == [s EXCEPT ![i].state = state, ![i].body = body]

\* A call whose state and answer are set is replaced by one with the rest.
LEMMA AnsweredCall ==
    ASSUME IsCalls(calls), NEW i \in DOMAIN calls, IsCall(calls[i]), NEW state, NEW body,
           calls' = AnsweredAt(calls, i, state, body)
    PROVE  \E d : /\ calls' = [calls EXCEPT ![i] = d] /\ IsCall(d)
                  /\ d.op = calls[i].op /\ d.arg = calls[i].arg
                  /\ d.kept = calls[i].kept /\ d.state = state /\ d.body = body
<1>1. PICK S, old : old = calls /\ old \in Seq(S) /\ i \in DOMAIN old
  BY DEF IsCalls
<1>2. PICK op, arg, kept, before, answer :
         old[i] = [op |-> op, arg |-> arg, kept |-> kept, state |-> before,
                   body |-> answer]
  BY <1>1 DEF IsCall
<1>3. PICK c : c = [op |-> op, arg |-> arg, kept |-> kept, state |-> state,
                    body |-> answer]
  OBVIOUS
<1>4. PICK d : d = [op |-> op, arg |-> arg, kept |-> kept, state |-> state,
                    body |-> body]
  OBVIOUS
<1>5. PICK mid : mid = [old EXCEPT ![i] = c]
  OBVIOUS
<1>6. mid = [old EXCEPT ![i].state = state]
  <2>1. c = [old[i] EXCEPT !.state = state]
    BY <1>2, <1>3
  <2> QED
    BY <1>5, <2>1
<1>7. [mid EXCEPT ![i].body = body] = [mid EXCEPT ![i] = d]
  <2>1. mid[i] = c
    BY <1>1, <1>5
  <2>2. d = [mid[i] EXCEPT !.body = body]
    BY <1>3, <1>4, <2>1
  <2> QED
    BY <2>2
<1>8. [mid EXCEPT ![i].body = body] = [old EXCEPT ![i].state = state, ![i].body = body]
  BY <1>6
<1>9. [mid EXCEPT ![i] = d] = [old EXCEPT ![i] = d]
  BY <1>1, <1>5
<1>10. calls' = [calls EXCEPT ![i] = d]
  BY <1>1, <1>7, <1>8, <1>9 DEF AnsweredAt
<1>11. IsCall(d)
  BY <1>4 DEF IsCall
<1>12. /\ d.op = calls[i].op /\ d.arg = calls[i].arg /\ d.kept = calls[i].kept
       /\ d.state = state /\ d.body = body
  BY <1>1, <1>2, <1>4
<1> QED
  BY <1>10, <1>11, <1>12

-----------------------------------------------------------------------------
(* Calls whose answers the proof does not look into.                        *)

Known(s) == IsCalls(s) /\ \A i \in DOMAIN s : IsCall(s[i])

\* The call d is c, further on.
Same(c, d) == d.op = c.op /\ d.arg = c.arg /\ d.kept = c.kept

\* Each call of after is one of before, perhaps further on, or one of new.
FurtherOn(after, before, new) ==
    \A j \in DOMAIN after :
        \/ \E i \in DOMAIN before : Same(before[i], after[j])
        \/ \E k \in DOMAIN new : after[j] = new[k]

LEMMA ReplacedCall ==
    ASSUME Known(calls), NEW i \in DOMAIN calls, NEW d, IsCall(d), Same(calls[i], d),
           calls' = [calls EXCEPT ![i] = d]
    PROVE  /\ Known(calls') /\ FurtherOn(calls', calls, <<>>)
           /\ OnlyFrom(calls', calls, <<d>>)
<1>1. PICK S : calls \in Seq(S)
  BY DEF Known, IsCalls
<1>2. calls' \in Seq(S \union {d}) /\ DOMAIN calls' = DOMAIN calls
  BY <1>1
<1>3. \A j \in DOMAIN calls : calls'[j] = IF j = i THEN d ELSE calls[j]
  BY <1>1
<1>4. Known(calls')
  BY <1>2, <1>3 DEF Known, IsCalls
<1>5. FurtherOn(calls', calls, <<>>)
  BY <1>2, <1>3 DEF FurtherOn, Same
<1>6. OnlyFrom(calls', calls, <<d>>)
  <2>0. PICK new : new = <<d>>
    OBVIOUS
  <2>1. new = <<d>> /\ new[1] = d /\ 1 \in DOMAIN new
    BY <2>0
  <2>2. \A k \in DOMAIN calls' : calls'[k] = d \/ calls'[k] = calls[k]
    BY <1>2, <1>3
  <2>3. OnlyFrom(calls', calls, new)
    BY <1>2, <2>1, <2>2 DEF OnlyFrom
  <2> QED
    BY <2>1, <2>3
<1> QED
  BY <1>4, <1>5, <1>6

LEMMA ServedCalls ==
    ASSUME Known(calls), NEW i \in DOMAIN calls, NEW s, NEW ok \in BOOLEAN, NEW b,
           Perform(i, s, ok, b)
    PROVE  /\ Known(calls') /\ FurtherOn(calls', calls, <<>>)
           /\ page' = page /\ server' = s
           /\ \E d : /\ IsCall(d) /\ Same(calls[i], d)
                     /\ d.state = (IF ok THEN "ok" ELSE "failed")
                     /\ d.body = (IF ok THEN <<b>> ELSE <<>>)
                     /\ OnlyFrom(calls', calls, <<d>>)
<1>1. PICK state, body : /\ state = IF ok THEN "ok" ELSE "failed"
                         /\ body = IF ok THEN <<b>> ELSE <<>>
  OBVIOUS
<1>2. /\ server' = s /\ page' = page
      /\ calls' = AnsweredAt(calls, i, state, body)
  BY <1>1 DEF Perform, AnsweredAt
<1>3. IsCalls(calls) /\ IsCall(calls[i])
  BY DEF Known
<1>4. PICK d : /\ calls' = [calls EXCEPT ![i] = d] /\ IsCall(d)
               /\ d.op = calls[i].op /\ d.arg = calls[i].arg
               /\ d.kept = calls[i].kept
               /\ d.state = state /\ d.body = body
  BY <1>2, <1>3, AnsweredCall
<1>5. Same(calls[i], d)
  BY <1>4 DEF Same
<1> QED
  BY <1>1, <1>2, <1>4, <1>5, ReplacedCall

LEMMA LostCalls ==
    ASSUME Known(calls), NEW i \in DOMAIN calls, LoseCall(i)
    PROVE  /\ Known(calls') /\ FurtherOn(calls', calls, <<>>)
           /\ page' = page /\ server' = server
           /\ \E d : /\ IsCall(d) /\ Same(calls[i], d) /\ d.state = "failed"
                     /\ OnlyFrom(calls', calls, <<d>>)
<1>1. /\ server' = server /\ page' = page
      /\ calls' = AnsweredAt(calls, i, "failed", <<>>)
  BY DEF LoseCall, AnsweredAt
<1>2. IsCalls(calls) /\ IsCall(calls[i])
  BY DEF Known
<1>3. PICK d : /\ calls' = [calls EXCEPT ![i] = d] /\ IsCall(d)
               /\ d.op = calls[i].op /\ d.arg = calls[i].arg
               /\ d.kept = calls[i].kept /\ d.state = "failed"
  BY <1>1, <1>2, AnsweredCall
<1>4. Same(calls[i], d)
  BY <1>3 DEF Same
<1> QED
  BY <1>1, <1>3, <1>4, ReplacedCall

\* Only the state of a call changes.
LEMMA MarkedCalls ==
    ASSUME Known(calls), NEW i \in DOMAIN calls, NEW state,
           calls' = [calls EXCEPT ![i].state = state]
    PROVE  Known(calls') /\ FurtherOn(calls', calls, <<>>)
<1>1. PICK op, arg, kept, before, body :
         calls[i] = [op |-> op, arg |-> arg, kept |-> kept, state |-> before, body |-> body]
  BY DEF Known, IsCall
<1>2. PICK d : d = [op |-> op, arg |-> arg, kept |-> kept, state |-> state, body |-> body]
  OBVIOUS
<1>3. d = [calls[i] EXCEPT !.state = state]
  BY <1>1, <1>2
<1>4. calls' = [calls EXCEPT ![i] = d]
  BY <1>3
<1>5. IsCall(d) /\ Same(calls[i], d)
  BY <1>1, <1>2 DEF IsCall, Same
<1> QED
  BY <1>4, <1>5, ReplacedCall

LEMMA AskedMore ==
    ASSUME Known(calls), NEW T, NEW new \in Seq(T), \A k \in DOMAIN new : IsCall(new[k]),
           NEW p, Ask(p, new)
    PROVE  /\ Known(calls') /\ FurtherOn(calls', calls, new)
           /\ OnlyFrom(calls', calls, new)
           /\ page' = p /\ server' = server
<1>1. PICK S : calls \in Seq(S)
  BY DEF Known, IsCalls
<1>2. calls' = calls \o new /\ page' = p /\ server' = server
  BY DEF Ask
<1>3. IsCalls(calls') /\ OnlyFrom(calls', calls, new)
  BY <1>1, <1>2, JoinedCalls DEF IsCalls
<1>4. Known(calls') /\ FurtherOn(calls', calls, new)
  BY <1>3 DEF Known, FurtherOn, OnlyFrom, Same
<1> QED
  BY <1>2, <1>3, <1>4

\* The calls are counted.
LEMMA MadeCalls ==
    ASSUME made \in Nat, NEW T, NEW new \in Seq(T), NEW p,
           Ask(p, new) \/ \E i \in DOMAIN calls : Continue(i, p, new)
    PROVE  made' \in Nat /\ (made # 0 \/ Len(new) # 0 => made' # 0)
<1>1. made' = made + Len(new)
  BY DEF Ask, Continue
<1>2. Len(new) \in Nat
  OBVIOUS
<1> QED
  BY <1>1, <1>2

\* A sequence of one new call, and the empty one.
LEMMA OneCall ==
    ASSUME NEW op, NEW arg, NEW kept, NEW new, new = <<Call(op, arg, kept)>>
    PROVE  /\ \E T : new \in Seq(T)
           /\ Len(new) = 1
           /\ \A k \in DOMAIN new : new[k] = Call(op, arg, kept) /\ IsCall(new[k])
<1>1. PICK c : c = Call(op, arg, kept)
  OBVIOUS
<1>2. IsCall(c)
  BY <1>1 DEF Call, IsCall
<1>3. new \in Seq({c}) /\ Len(new) = 1 /\ \A k \in DOMAIN new : new[k] = c
  BY <1>1
<1> QED
  BY <1>1, <1>2, <1>3

LEMMA NoCall ==
    ASSUME NEW new, new = <<>>
    PROVE  new \in Seq({}) /\ DOMAIN new = {}
  OBVIOUS

LEMMA NoCalls ==
    ASSUME calls = <<>>
    PROVE  Known(calls) /\ DOMAIN calls = {}
  BY NoCall DEF Known, IsCalls

LEMMA AskedCalls ==
    ASSUME Known(calls), NEW op, NEW arg, NEW kept, NEW p,
           Ask(p, <<Call(op, arg, kept)>>)
    PROVE  /\ Known(calls') /\ FurtherOn(calls', calls, <<Call(op, arg, kept)>>)
           /\ page' = p /\ server' = server
<1>1. PICK new : new = <<Call(op, arg, kept)>>
  OBVIOUS
<1> QED
  BY <1>1, OneCall, AskedMore

LEMMA SpokenCalls ==
    ASSUME Known(calls), NEW T, NEW new \in Seq(T), \A k \in DOMAIN new : IsCall(new[k]),
           NEW p, NEW i \in DOMAIN calls, Continue(i, p, new)
    PROVE  /\ Known(calls') /\ FurtherOn(calls', calls, new)
           /\ OnlyFrom(calls', calls, new)
           /\ page' = p /\ server' = server
<1>1. IsCalls(calls)
  BY DEF Known
<1>2. /\ IsCalls(calls') /\ OnlyFrom(calls', calls, new)
      /\ page' = p /\ server' = server
  BY <1>1, ContinuedCalls
<1>3. Known(calls') /\ FurtherOn(calls', calls, new)
  BY <1>2 DEF Known, FurtherOn, OnlyFrom, Same
<1> QED
  BY <1>2, <1>3

-----------------------------------------------------------------------------
(* Calls of which at most one is under way.                                 *)

OnceOf(s, ops) ==
    \A a, b \in DOMAIN s : s[a].op \in ops /\ s[b].op \in ops => a = b

NoneOf(s, ops) == \A a \in DOMAIN s : s[a].op \notin ops

\* A call that goes leaves the others, those behind it one place up.
LEMMA OthersMoveUp ==
    ASSUME NEW S, NEW s \in Seq(S), NEW i \in DOMAIN s, NEW t, t = RemoveAt(s, i)
    PROVE  /\ i \in Nat
           /\ \A k \in DOMAIN t : k \in Nat /\ \E m \in DOMAIN s :
                  /\ m # i /\ t[k] = s[m]
                  /\ (k < i /\ m = k) \/ (~(k < i) /\ m = k + 1)
           /\ \A n \in DOMAIN s : n = i \/ \E k \in DOMAIN t : t[k] = s[n]
<1> DEFINE a == SubSeq(s, 1, i - 1)
           b == SubSeq(s, i + 1, Len(s))
<1>1. i \in 1..Len(s) /\ Len(s) \in Nat
  OBVIOUS
<1>2. a \in Seq(S) /\ Len(a) = i - 1 /\ \A k \in 1..(i - 1) : a[k] = s[k]
  BY <1>1
<1>3. b \in Seq(S) /\ Len(b) = Len(s) - i /\ \A k \in 1..(Len(s) - i) : b[k] = s[i + k]
  BY <1>1
<1>4. t = a \o b
  BY DEF RemoveAt
<1> HIDE DEF a, b
<1>5. t \in Seq(S) /\ Len(t) = Len(s) - 1 /\ DOMAIN t = 1..(Len(s) - 1)
  BY <1>1, <1>2, <1>3, <1>4
<1>6. ASSUME NEW k \in DOMAIN t PROVE t[k] = IF k < i THEN s[k] ELSE s[k + 1]
  <2>1. CASE k < i
    BY <1>1, <1>2, <1>3, <1>4, <1>5, <2>1
  <2>2. CASE ~(k < i)
    <3>1. k \in Nat /\ k - Len(a) \in 1..(Len(s) - i) /\ k > Len(a)
      BY <1>1, <1>2, <1>5, <2>2
    <3>2. t[k] = b[k - Len(a)]
      BY <1>1, <1>2, <1>3, <1>4, <1>5, <3>1
    <3>3. b[k - Len(a)] = s[i + (k - Len(a))] /\ i + (k - Len(a)) = k + 1
      BY SMTT(60), <1>1, <1>2, <1>3, <3>1
    <3> QED
      BY <2>2, <3>2, <3>3
  <2> QED
    BY <2>1, <2>2
<1>7. \A k \in DOMAIN t : /\ k \in Nat
                          /\ k < i => k \in DOMAIN s /\ k # i
                          /\ ~(k < i) => k + 1 \in DOMAIN s /\ k + 1 # i
  BY <1>1, <1>5
<1>8. ASSUME NEW k \in DOMAIN t
      PROVE  \E m \in DOMAIN s : /\ m # i /\ t[k] = s[m]
                                 /\ (k < i /\ m = k) \/ (~(k < i) /\ m = k + 1)
  <2>1. CASE k < i
    BY <1>1, <1>6, <1>7, <2>1
  <2>2. CASE ~(k < i)
    BY <1>6, <1>7, <2>2
  <2> QED
    BY <2>1, <2>2
<1>9. \A n \in DOMAIN s : n # i =>
         /\ n < i => n \in DOMAIN t
         /\ ~(n < i) => n - 1 \in DOMAIN t /\ ~(n - 1 < i) /\ (n - 1) + 1 = n
  BY <1>1, <1>5
<1>10. ASSUME NEW n \in DOMAIN s, n # i
       PROVE  \E c \in DOMAIN t : t[c] = s[n]
  <2>1. CASE n < i
    BY <1>6, <1>9, <1>10, <2>1
  <2>2. CASE ~(n < i)
    BY <1>6, <1>9, <1>10, <2>2
  <2> QED
    BY <2>1, <2>2
<1> QED
  BY <1>1, <1>7, <1>8, <1>10

LEMMA NotMovedTogether ==
    ASSUME NEW i \in Nat, NEW c \in Nat, NEW d \in Nat, NEW m,
           (c < i /\ m = c) \/ (~(c < i) /\ m = c + 1), m # i,
           (d < i /\ m = d) \/ (~(d < i) /\ m = d + 1)
    PROVE  c = d
  OBVIOUS

LEMMA WithoutOne ==
    ASSUME NEW S, NEW s \in Seq(S), NEW i \in DOMAIN s, NEW t, t = RemoveAt(s, i), NEW ops
    PROVE  /\ OnceOf(s, ops) => OnceOf(t, ops)
           /\ OnceOf(s, ops) /\ s[i].op \in ops => NoneOf(t, ops)
           /\ NoneOf(s, ops) => NoneOf(t, ops)
           /\ NoneOf(t, ops) /\ s[i].op \notin ops => NoneOf(s, ops)
           /\ \A k \in DOMAIN t : \E m \in DOMAIN s : m # i /\ t[k] = s[m]
<1>1. /\ i \in Nat
      /\ \A k \in DOMAIN t : k \in Nat /\ \E m \in DOMAIN s :
             /\ m # i /\ t[k] = s[m]
             /\ (k < i /\ m = k) \/ (~(k < i) /\ m = k + 1)
      /\ \A n \in DOMAIN s : n = i \/ \E k \in DOMAIN t : t[k] = s[n]
  BY OthersMoveUp
<1>2. OnceOf(s, ops) => OnceOf(t, ops)
  <2> SUFFICES ASSUME OnceOf(s, ops), NEW c \in DOMAIN t, NEW d \in DOMAIN t,
                      t[c].op \in ops, t[d].op \in ops
               PROVE  c = d
    BY DEF OnceOf
  <2>1. PICK m \in DOMAIN s : /\ t[c] = s[m] /\ m # i
                              /\ (c < i /\ m = c) \/ (~(c < i) /\ m = c + 1)
    BY <1>1
  <2>2. PICK n \in DOMAIN s : /\ t[d] = s[n]
                              /\ (d < i /\ n = d) \/ (~(d < i) /\ n = d + 1)
    BY <1>1
  <2>3. m = n
    BY <2>1, <2>2 DEF OnceOf
  <2>4. i \in Nat /\ c \in Nat /\ d \in Nat
    BY <1>1
  <2>5. (d < i /\ m = d) \/ (~(d < i) /\ m = d + 1)
    BY <2>2, <2>3
  <2> QED
    BY <2>1, <2>4, <2>5, NotMovedTogether
<1>3. OnceOf(s, ops) /\ s[i].op \in ops => NoneOf(t, ops)
  <2> SUFFICES ASSUME OnceOf(s, ops), s[i].op \in ops, NEW c \in DOMAIN t, t[c].op \in ops
               PROVE  FALSE
    BY DEF NoneOf
  <2>1. PICK m \in DOMAIN s : m # i /\ t[c] = s[m]
    BY <1>1
  <2> QED
    BY <2>1 DEF OnceOf
<1>4. NoneOf(s, ops) => NoneOf(t, ops)
  BY <1>1 DEF NoneOf
<1>5. NoneOf(t, ops) /\ s[i].op \notin ops => NoneOf(s, ops)
  <2> SUFFICES ASSUME NoneOf(t, ops), NEW n \in DOMAIN s, n # i
               PROVE  s[n].op \notin ops
    BY DEF NoneOf
  <2> QED
    BY <1>1 DEF NoneOf
<1> QED
  BY <1>1, <1>2, <1>3, <1>4, <1>5

\* A call that is made is the last one.
LEMMA WithOneMore ==
    ASSUME NEW S, NEW s \in Seq(S), NEW c, NEW t, t = s \o <<c>>, NEW ops
    PROVE  /\ OnceOf(s, ops) /\ (c.op \in ops => NoneOf(s, ops)) => OnceOf(t, ops)
           /\ NoneOf(t, ops) <=> NoneOf(s, ops) /\ c.op \notin ops
<1>1. /\ DOMAIN t = 1..(Len(s) + 1) /\ Len(s) \in Nat /\ DOMAIN s = 1..Len(s)
      /\ \A k \in DOMAIN s : k \in DOMAIN t /\ t[k] = s[k]
      /\ t[Len(s) + 1] = c /\ Len(s) + 1 \in DOMAIN t
  <2>1. <<c>> \in Seq({c}) /\ Len(<<c>>) = 1 /\ <<c>>[1] = c
    OBVIOUS
  <2> QED
    BY <2>1
<1>2. \A k \in DOMAIN t : k \in DOMAIN s \/ k = Len(s) + 1
  BY <1>1
<1> QED
  BY ZenonT(60), <1>1, <1>2 DEF OnceOf, NoneOf

\* A call that is performed or lost keeps what it asks for.
LEMMA WithAnswer ==
    ASSUME NEW s, NEW t, DOMAIN t = DOMAIN s, \A k \in DOMAIN s : t[k].op = s[k].op,
           NEW ops
    PROVE  /\ OnceOf(s, ops) => OnceOf(t, ops)
           /\ NoneOf(t, ops) <=> NoneOf(s, ops)
  BY DEF OnceOf, NoneOf

\* Call i has become d, with the answer b or refused.
AnsweredWith(i, d, ok, b) ==
    /\ IsCall(d) /\ Same(calls[i], d)
    /\ ok => d.state = "ok" /\ d.body = <<b>>
    /\ ~ok => d.state = "failed"
    /\ \A j \in DOMAIN calls : calls'[j] = IF j = i THEN d ELSE calls[j]

LEMMA ServedAt ==
    ASSUME Known(calls), NEW i \in DOMAIN calls, NEW s, NEW ok \in BOOLEAN, NEW b,
           Perform(i, s, ok, b)
    PROVE  /\ Known(calls') /\ page' = page /\ server' = s /\ lost' = lost
           /\ calls[i].state = "sent" /\ DOMAIN calls' = DOMAIN calls
           /\ \A j \in DOMAIN calls : calls'[j].op = calls[j].op
           /\ \E d : AnsweredWith(i, d, ok, b)
<1>1. PICK state, body : /\ state = IF ok THEN "ok" ELSE "failed"
                         /\ body = IF ok THEN <<b>> ELSE <<>>
  OBVIOUS
<1>2. /\ server' = s /\ page' = page /\ lost' = lost /\ calls[i].state = "sent"
      /\ calls' = AnsweredAt(calls, i, state, body)
  BY <1>1 DEF Perform, AnsweredAt
<1>3. IsCalls(calls) /\ IsCall(calls[i])
  BY DEF Known
<1>4. PICK d : /\ calls' = [calls EXCEPT ![i] = d] /\ IsCall(d)
               /\ d.op = calls[i].op /\ d.arg = calls[i].arg
               /\ d.kept = calls[i].kept
               /\ d.state = state /\ d.body = body
  BY <1>2, <1>3, AnsweredCall
<1>5. /\ Same(calls[i], d) /\ DOMAIN calls' = DOMAIN calls
      /\ \A j \in DOMAIN calls : calls'[j] = IF j = i THEN d ELSE calls[j]
  BY <1>3, <1>4 DEF Same, IsCalls
<1>6. \A j \in DOMAIN calls : calls'[j].op = calls[j].op
  BY <1>4, <1>5
<1>7. Known(calls')
  BY <1>4, <1>5, ReplacedCall
<1>8. /\ ok => d.state = "ok" /\ d.body = <<b>>
      /\ ~ok => d.state = "failed"
  BY <1>1, <1>4
<1> QED
  BY <1>2, <1>4, <1>5, <1>6, <1>7, <1>8 DEF AnsweredWith

-----------------------------------------------------------------------------
(* The calls under way, without their order.                                *)

Held(s) == {s[i] : i \in DOMAIN s}

LEMMA HeldOne ==
    ASSUME NEW c, NEW new, new = <<c>>
    PROVE  Held(new) = {c} /\ Len(new) = 1
<1>1. DOMAIN new = {1} /\ new[1] = c /\ Len(new) = 1
  OBVIOUS
<1> QED
  BY <1>1 DEF Held

LEMMA HeldNone ==
    ASSUME NEW s, s = <<>>
    PROVE  Held(s) = {}
  BY NoCall DEF Held

\* The calls of two sequences, one after the other.
LEMMA HeldJoined ==
    ASSUME NEW S, NEW s \in Seq(S), NEW T, NEW new \in Seq(T)
    PROVE  Held(s \o new) = Held(s) \union Held(new)
<1>1. PICK t : t = s \o new
  OBVIOUS
<1>2. /\ \A k \in DOMAIN s : k \in DOMAIN t /\ t[k] = s[k]
      /\ \A k \in DOMAIN new : Len(s) + k \in DOMAIN t /\ t[Len(s) + k] = new[k]
  BY <1>1
<1>3. \A j \in DOMAIN t : \/ \E k \in DOMAIN s : t[j] = s[k]
                          \/ \E k \in DOMAIN new : t[j] = new[k]
  <2>1. OnlyFrom(t, s, new)
    BY <1>1, JoinedCalls
  <2> QED
    BY <2>1 DEF OnlyFrom
<1>4. \A x : x \in Held(t) <=> x \in Held(s) \/ x \in Held(new)
  BY <1>2, <1>3 DEF Held
<1> QED
  BY <1>1, <1>4

LEMMA HeldAsked ==
    ASSUME Known(calls), NEW T, NEW new \in Seq(T), \A c \in Held(new) : IsCall(c),
           NEW p, Ask(p, new)
    PROVE  /\ Known(calls') /\ Held(calls') = Held(calls) \union Held(new)
           /\ page' = p /\ server' = server /\ lost' = lost /\ mounted' = mounted
<1>1. PICK S : calls \in Seq(S)
  BY DEF Known, IsCalls
<1>2. /\ calls' = calls \o new /\ page' = p /\ server' = server /\ lost' = lost
      /\ mounted' = mounted
  BY DEF Ask
<1>3. Held(calls') = Held(calls) \union Held(new)
  BY <1>1, <1>2, HeldJoined
<1>4. \A k \in DOMAIN new : IsCall(new[k])
  BY DEF Held
<1> QED
  BY <1>2, <1>3, <1>4, AskedMore

\* A call is gone and new ones are made; its like may still be under way.
LEMMA HeldContinued ==
    ASSUME Known(calls), NEW T, NEW new \in Seq(T), \A c \in Held(new) : IsCall(c),
           NEW p, NEW i \in DOMAIN calls, Continue(i, p, new)
    PROVE  /\ Known(calls') /\ Held(calls') \subseteq Held(calls) \union Held(new)
           /\ Held(new) \subseteq Held(calls')
           /\ \A c \in Held(calls) : c = calls[i] \/ c \in Held(calls')
           /\ page' = p /\ server' = server /\ lost' = lost /\ mounted' = mounted
<1>1. PICK S : calls \in Seq(S)
  BY DEF Known, IsCalls
<1>2. PICK rest : rest = RemoveAt(calls, i)
  OBVIOUS
<1>3. /\ calls' = rest \o new /\ page' = p /\ server' = server /\ lost' = lost
      /\ mounted' = mounted
  BY <1>2 DEF Continue
<1>4. rest \in Seq(S) /\ OnlyFrom(rest, calls, <<>>)
  BY <1>1, <1>2, RemovedCalls
<1>5. Held(calls') = Held(rest) \union Held(new)
  BY <1>3, <1>4, HeldJoined
<1>6. /\ \A k \in DOMAIN rest : \E m \in DOMAIN calls : rest[k] = calls[m]
      /\ \A n \in DOMAIN calls : n = i \/ \E k \in DOMAIN rest : rest[k] = calls[n]
  BY <1>1, <1>2, OthersMoveUp
<1>7. /\ Held(rest) \subseteq Held(calls)
      /\ \A c \in Held(calls) : c = calls[i] \/ c \in Held(rest)
  BY <1>6 DEF Held
<1>8. \A k \in DOMAIN new : IsCall(new[k])
  BY DEF Held
<1>9. Known(calls')
  BY <1>8, SpokenCalls
<1> QED
  BY <1>3, <1>5, <1>7, <1>9

\* A call becomes d, with the answer b or refused.
AnsweredBy(c, d, ok, b) ==
    /\ Same(c, d) /\ c.state = "sent"
    /\ ok => d.state = "ok" /\ d.body = <<b>>
    /\ ~ok => d.state = "failed"

Replaces(H, J, c, d) ==
    /\ d \in J /\ J \subseteq H \union {d}
    /\ \A x \in H : x = c \/ x \in J

LEMMA HeldServed ==
    ASSUME Known(calls), NEW i \in DOMAIN calls, NEW s, NEW ok \in BOOLEAN, NEW b,
           Perform(i, s, ok, b)
    PROVE  /\ Known(calls') /\ page' = page /\ server' = s /\ lost' = lost
           /\ \E d : /\ AnsweredBy(calls[i], d, ok, b)
                     /\ Replaces(Held(calls), Held(calls'), calls[i], d)
<1>1. /\ Known(calls') /\ page' = page /\ server' = s /\ lost' = lost
      /\ calls[i].state = "sent" /\ DOMAIN calls' = DOMAIN calls
  BY ServedAt
<1>2. PICK d : AnsweredWith(i, d, ok, b)
  BY ServedAt
<1>3. \A j \in DOMAIN calls : calls'[j] = IF j = i THEN d ELSE calls[j]
  BY <1>2 DEF AnsweredWith
<1>4. Replaces(Held(calls), Held(calls'), calls[i], d)
  BY <1>1, <1>3 DEF Replaces, Held
<1>5. AnsweredBy(calls[i], d, ok, b)
  BY <1>1, <1>2 DEF AnsweredWith, AnsweredBy
<1> QED
  BY <1>1, <1>4, <1>5

LEMMA HeldLost ==
    ASSUME Known(calls), lost \in Nat, NEW i \in DOMAIN calls, LoseCall(i)
    PROVE  /\ Known(calls') /\ page' = page /\ server' = server
           /\ lost' \in Nat /\ lost' # 0
           /\ \E d : /\ Same(calls[i], d) /\ d.state = "failed"
                     /\ Held(calls') \subseteq Held(calls) \union {d}
<1>1. PICK d : /\ Same(calls[i], d) /\ d.state = "failed"
               /\ OnlyFrom(calls', calls, <<d>>)
  BY LostCalls
<1>2. PICK new : new = <<d>>
  OBVIOUS
<1>3. DOMAIN new = {1} /\ new[1] = d
  BY <1>2
<1>4. Held(calls') \subseteq Held(calls) \union {d}
  BY <1>1, <1>2, <1>3 DEF OnlyFrom, Held
<1>5. lost' = lost + 1
  BY DEF LoseCall
<1> QED
  BY <1>1, <1>4, <1>5, LostCalls
================================================================================
