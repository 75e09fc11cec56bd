----------------------------- MODULE ListPages -----------------------------
(***************************************************************************)
(* The list pages of the web console (pages/*.tsx) over the API client     *)
(* (api/client.ts).  They are one machine with differences: where the list *)
(* is kept (the page's state, or the resource store of                     *)
(* stores/resourceStore.ts), what a finished mutation does to it, which    *)
(* buttons a request in flight locks, whether the page has filters or      *)
(* pages, whether it polls.  Each page is a record of those choices, read  *)
(* from its handlers (...Page), its view (...View) and its dialog          *)
(* (...Dialog); pages with the same choices are checked once.              *)
(***************************************************************************)
EXTENDS Integers, FiniteSets

CONSTANTS
    Items,       \* names or ids a row of the list can have
    Queries,     \* filters or pages of a list
    None,        \* stands for null
    MaxChanges,  \* bound: changes of the rows on the server
    MaxFaults,   \* bound: requests that fail
    MaxLooks     \* bound: loads the user or a timer starts

\* What the proofs assume: null is neither a list nor a request.
ListAssumption ==
    None \notin [rows : [Items -> Nat], at : [Items -> Nat]] \union [answer : {None}]
\* The bounds are numbers, and so is what a list has.
ListBounds == MaxChanges \in Nat /\ MaxLooks \in Nat /\ IsFiniteSet(Items)

VARIABLES
    listPage,    \* the page that is open
    rows,        \* the server's rows: 0 when absent, else a version
    changes,     \* changes of the rows so far, the clock of the model
    query,       \* the filter or page chosen
    list,        \* what the page shows: its query, rows, and for each row
                 \* the clock at which the server had it so
    known,       \* getCache, by query
    asked,       \* inflightGets, by query: the answer, once the server read it
    waiting,     \* what waits for those answers, <<query, "fetch" or "poll">>
    loading,     \* the loading flag of the page or of the store
    failed,      \* the page shows that its list could not be loaded
    ops,         \* mutations in flight
    dialog,      \* the add dialog: open, submitting; the row a delete asks for
    busy,        \* items whose button is locked by a test, toggle or install
    batch,       \* the import and the bulk delete under way: what is left to do
    report,      \* how they ended
    own,         \* clock of the user's own finished changes, by item
    told,        \* notifications of the end of an execution, by item
    before,      \* prevStatuses
    rewinds,     \* times the list went back to an older answer
    crossed,     \* the query was changed while an answer was awaited
    looks, listFaults

listVars == <<listPage, rows, changes, query, list, known, asked, waiting, loading, failed,
            ops, dialog, busy, batch, report, own, told, before, rewinds, crossed, looks, listFaults>>

(***************************************************************************)
(* The pages.  store: the resource store keeps the list, else the page     *)
(* does and loads it again after a change; all: the page loads every kind, *)
(* again after a creation, and works on several rows at once.  filters:    *)
(* the list depends on a query.  polls: a timer loads it past the cache.   *)
(* tells: the end of an execution is announced.  creates, deletes: what a  *)
(* row can go through.  locked: a dialog waits for its request in flight;  *)
(* keeps: a confirmation stays open when the delete fails; closes: the     *)
(* dialog closes after a creation.  acts: how a button of a row is locked: *)
(* "no" button, one "name" at a time, a "set" of them, or "once" and for   *)
(* all.  reloads: the action changes the row.                              *)
(***************************************************************************)
ReadOnlyView == [creates |-> FALSE, deletes |-> FALSE, locked |-> TRUE, keeps |-> TRUE,
    acts |-> "no"]
LockedDialog == [locked |-> TRUE, closes |-> TRUE]

ModelsView == [creates |-> TRUE, deletes |-> TRUE, locked |-> TRUE, keeps |-> FALSE,
    acts |-> "set"]
AddModelDialog == LockedDialog
ModelsPage == [view |-> ModelsView, dialog |-> AddModelDialog, store |-> TRUE, all |-> FALSE,
               filters |-> FALSE, polls |-> FALSE, tells |-> FALSE, reloads |-> FALSE]

KnowledgeSourcesView == [creates |-> TRUE, deletes |-> TRUE, locked |-> TRUE, keeps |-> FALSE,
    acts |-> "no"]
AddKnowledgeSourceDialog == LockedDialog
KnowledgeSourcesPage == [view |-> KnowledgeSourcesView, dialog |-> AddKnowledgeSourceDialog,
    store |-> TRUE, all |-> FALSE, filters |-> FALSE, polls |-> FALSE, tells |-> FALSE, reloads |-> FALSE]

ServiceAccountsPage == [view |-> ReadOnlyView, dialog |-> LockedDialog, store |-> TRUE, all |-> FALSE,
    filters |-> FALSE, polls |-> FALSE, tells |-> FALSE, reloads |-> FALSE]

ToolsPage == ServiceAccountsPage
DashboardPage == ServiceAccountsPage

AutomationsView == [creates |-> TRUE, deletes |-> TRUE, locked |-> TRUE, keeps |-> TRUE,
    acts |-> "name"]
CreateAutomationDialog == LockedDialog
AutomationsPage == [view |-> AutomationsView, dialog |-> CreateAutomationDialog,
    store |-> FALSE, all |-> FALSE, filters |-> FALSE, polls |-> FALSE, tells |-> FALSE, reloads |-> TRUE]

WebhooksView == [creates |-> TRUE, deletes |-> TRUE, locked |-> TRUE, keeps |-> FALSE,
    acts |-> "name"]
\* The dialog stays to show the secret.
AddWebhookDialog == [LockedDialog EXCEPT !.closes = FALSE]
WebhooksPage == [view |-> WebhooksView, dialog |-> AddWebhookDialog, store |-> FALSE, all |-> FALSE,
    filters |-> FALSE, polls |-> FALSE, tells |-> FALSE, reloads |-> FALSE]

\* The role select of the panel is locked by the panel's own flag.
UsersView == [creates |-> TRUE, deletes |-> TRUE, locked |-> TRUE, keeps |-> TRUE,
    acts |-> "name"]
UserDetailPanel == [reloads |-> TRUE]
InviteDialog == LockedDialog
UsersPage == [view |-> UsersView, dialog |-> InviteDialog, store |-> FALSE, all |-> FALSE,
    filters |-> FALSE, polls |-> FALSE, tells |-> FALSE, reloads |-> UserDetailPanel.reloads]

RolesView == [creates |-> TRUE, deletes |-> TRUE, locked |-> TRUE, keeps |-> TRUE,
    acts |-> "no"]
CreateRoleDialog == LockedDialog
RolesPage == [view |-> RolesView, dialog |-> CreateRoleDialog, store |-> FALSE, all |-> FALSE,
    filters |-> FALSE, polls |-> FALSE, tells |-> FALSE, reloads |-> FALSE]

CredentialsView == [creates |-> TRUE, deletes |-> TRUE, locked |-> TRUE, keeps |-> TRUE,
    acts |-> "no"]
CreateCredentialDialog == LockedDialog
CredentialsPage == [view |-> CredentialsView, dialog |-> CreateCredentialDialog,
    store |-> FALSE, all |-> FALSE, filters |-> FALSE, polls |-> FALSE, tells |-> FALSE, reloads |-> FALSE]

\* The confirmation of a delete is not told that one is in flight.
ProjectsView == [creates |-> TRUE, deletes |-> TRUE, locked |-> FALSE, keeps |-> TRUE,
    acts |-> "no"]
CreateProjectDialog == LockedDialog
ProjectsPage == [view |-> ProjectsView, dialog |-> CreateProjectDialog, store |-> FALSE, all |-> FALSE,
    filters |-> FALSE, polls |-> FALSE, tells |-> FALSE, reloads |-> FALSE]

\* A category is part of the path; an installed tool stays locked.
ToolsLibraryView == [creates |-> FALSE, deletes |-> FALSE, locked |-> TRUE, keeps |-> TRUE,
    acts |-> "once"]
ToolsLibraryPage == [view |-> ToolsLibraryView, dialog |-> LockedDialog, store |-> FALSE, all |-> FALSE,
    filters |-> TRUE, polls |-> FALSE, tells |-> FALSE, reloads |-> FALSE]

\* Pages of 25 rows, with automatic refresh or because one is running.
AuditLogsView == ReadOnlyView
AuditLogsPage == [view |-> AuditLogsView, dialog |-> LockedDialog, store |-> FALSE, all |-> FALSE,
    filters |-> TRUE, polls |-> TRUE, tells |-> FALSE, reloads |-> FALSE]

ExecutionsView == ReadOnlyView
ExecutionsPage == [view |-> ExecutionsView, dialog |-> LockedDialog, store |-> FALSE, all |-> FALSE,
    filters |-> TRUE, polls |-> TRUE, tells |-> TRUE, reloads |-> FALSE]

\* Two executions, asked for together, are the row of the query ?a=&b=.
ExecutionComparePage == [ExecutionsPage EXCEPT !.polls = FALSE, !.tells = FALSE]

\* The page of all resources: import of several documents, bulk delete.
ResourcesView == [creates |-> TRUE, deletes |-> FALSE, locked |-> TRUE, keeps |-> FALSE,
    acts |-> "no"]
NewResourceDialog == LockedDialog
ResourcesPage == [view |-> ResourcesView, dialog |-> NewResourceDialog, store |-> TRUE,
    all |-> TRUE, filters |-> FALSE, polls |-> FALSE, tells |-> FALSE, reloads |-> FALSE]

AllPages == {ResourcesPage, ModelsPage, KnowledgeSourcesPage, ServiceAccountsPage, AutomationsPage,
             WebhooksPage, UsersPage, RolesPage, CredentialsPage, ProjectsPage,
             ToolsLibraryPage, AuditLogsPage, ExecutionsPage, ExecutionComparePage, ToolsPage,
             DashboardPage}

(***************************************************************************)
(* A list as an answer holds it, and the API client.                       *)
(***************************************************************************)
Held == [rows |-> rows, at |-> [i \in Items |-> changes]]
ListOf(q, answer) == [q |-> q, rows |-> answer.rows, at |-> answer.at]
Empty == [q |-> None, rows |-> [i \in Items |-> 0], at |-> [i \in Items |-> 0]]

Batches == {"create", "delete"}
Over == 2   \* an execution is absent (0), running (1) or over
Ended(i, was, now) == was[i] = 1 /\ now[i] = Over

\* Mutant: what was seen first is kept.
Announce_Forgets(shown) ==
    IF ~listPage.tells THEN UNCHANGED <<told, before>>
    ELSE /\ told' = [i \in Items |-> IF Ended(i, before, shown.rows) THEN told[i] + 1 ELSE told[i]]
         /\ before' = [i \in Items |-> IF before[i] # 0 THEN before[i] ELSE shown.rows[i]]

\* The rows on display are replaced.  The effect of the executions page sees
\* every such change: it announces the executions that were not over when it
\* last looked.
Announce(shown) ==
    IF ~listPage.tells THEN UNCHANGED <<told, before>>
    ELSE /\ told' = [i \in Items |-> IF Ended(i, before, shown.rows) THEN told[i] + 1 ELSE told[i]]
         /\ before' = [i \in Items |-> IF shown.rows[i] = 0 THEN before[i] ELSE shown.rows[i]]

Show(shown) ==
    /\ list' = shown
    /\ rewinds' = IF \E i \in Items : shown.at[i] < list.at[i] THEN rewinds + 1 ELSE rewinds
    /\ Announce(shown)

\* Nothing on display changes.
Same == UNCHANGED <<list, rewinds, told, before>>

\* get(): a cached answer is shown at once, unless the caller skips the
\* cache; a request already in flight for the path is shared.
Ask(q, who) ==
    /\ asked' = [asked EXCEPT ![q] = IF @ = None THEN [answer |-> None] ELSE @]
    /\ waiting' = waiting \union {<<q, who>>}
    /\ UNCHANGED known

\* What is on display until then is "shown".
Fetch(q, shown) ==
    IF known[q] # None
    THEN /\ Show(ListOf(q, known[q]))
         /\ loading' = FALSE
         /\ UNCHANGED <<known, asked, waiting>>
    ELSE Ask(q, "fetch") /\ loading' = TRUE /\ Show(shown)

\* Every mutation drops the cached lists of its collection before it is sent;
\* the test of a model is of another collection.
Invalidate == [q \in Queries |-> None]

\* No list was asked for, or cached, since the request was sent.
Undisturbed(o) == \A q \in Queries : asked[q] = None /\ known[q] \in {None, o.had[q]}

(***************************************************************************)
(* A page is opened and loads its list.                                    *)
(***************************************************************************)
ListInitOf(pages) ==
    /\ listPage \in pages
    /\ rows = [i \in Items |-> IF listPage.view.creates THEN 0 ELSE 1]
    /\ changes = 0
    /\ query \in Queries /\ query = CHOOSE q \in Queries : TRUE
    /\ list = Empty
    /\ known = Invalidate
    /\ asked = [Invalidate EXCEPT ![query] = [answer |-> None]]
    /\ waiting = {<<query, "fetch">>}
    /\ loading = TRUE /\ failed = FALSE
    /\ ops = {}
    /\ dialog = [open |-> FALSE, submitting |-> FALSE, target |-> None, deleting |-> FALSE]
    /\ busy = {}
    /\ batch = [k \in Batches |-> None] /\ report = batch
    /\ own = [i \in Items |-> 0] /\ told = [i \in Items |-> 0]
    /\ before = [i \in Items |-> 0]
    /\ rewinds = 0 /\ crossed = FALSE
    /\ looks = 0 /\ listFaults = 0

serverSide == <<listPage, rows, changes, own, listFaults>>
userSide == <<query, ops, dialog, busy, batch, report, crossed, looks>>
loadSide == <<list, known, asked, waiting, loading, failed, told, before, rewinds>>

batchSide == <<batch, report>>

Look == looks < MaxLooks /\ looks' = looks + 1
Fault == listFaults < MaxFaults /\ listFaults' = listFaults + 1

(***************************************************************************)
(* Loads.                                                                  *)
(***************************************************************************)
Load(q, shown) == Fetch(q, shown) /\ failed' = FALSE

\* Nothing is loaded again while it is being loaded.
Refresh ==
    /\ ~loading /\ Look
    /\ Load(query, list)
    /\ UNCHANGED <<serverSide, batchSide, query, ops, dialog, busy, crossed>>

\* Mutant: the effect does not depend on the filter.
ChangeQuery_NoReload(q) ==
    /\ listPage.filters /\ q # query /\ Look
    /\ query' = q
    /\ UNCHANGED <<serverSide, batchSide, loadSide, ops, dialog, busy, crossed>>

\* The effect that loads depends on the filters and the page number.
ChangeQuery(q) ==
    /\ listPage.filters /\ q # query /\ Look
    /\ query' = q
    /\ crossed' = (crossed \/ waiting # {})
    /\ Load(q, list)
    /\ UNCHANGED <<serverSide, batchSide, ops, dialog, busy>>

\* usePolling: the next timer is set when the last call has ended.
Poll ==
    /\ listPage.polls /\ Look
    /\ \A q \in Queries : <<q, "poll">> \notin waiting
    /\ listPage.tells => \E i \in Items : list.rows[i] \in 1..(Over - 1)
    /\ Ask(query, "poll")
    /\ Same
    /\ UNCHANGED <<serverSide, batchSide, query, ops, dialog, busy, crossed, loading, failed>>

ServerReads(q) ==
    /\ asked[q] # None /\ asked[q].answer = None
    /\ asked' = [asked EXCEPT ![q].answer = Held]
    /\ UNCHANGED <<serverSide, userSide, list, known, waiting, loading, failed, told, before,
                   rewinds>>

\* No page compares the query of an answer with the one it shows by now.
Answer(q) ==
    /\ asked[q] # None /\ asked[q].answer # None
    /\ Show(ListOf(q, asked[q].answer))
    /\ known' = [known EXCEPT ![q] = asked[q].answer]
    /\ asked' = [asked EXCEPT ![q] = None]
    /\ waiting' = waiting \ {<<q, "fetch">>, <<q, "poll">>}
    /\ loading' = (loading /\ <<q, "fetch">> \notin waiting)
    /\ UNCHANGED <<serverSide, userSide, failed>>

FailLoad(q) ==
    /\ asked[q] # None /\ Fault
    /\ asked' = [asked EXCEPT ![q] = None]
    /\ waiting' = waiting \ {<<q, "fetch">>, <<q, "poll">>}
    /\ loading' = (loading /\ <<q, "fetch">> \notin waiting)
    /\ failed' = (failed \/ <<q, "fetch">> \in waiting)
    /\ Same
    /\ UNCHANGED <<listPage, rows, changes, own, userSide, known>>

\* Five seconds pass.
Expire(q) ==
    /\ known[q] # None
    /\ known' = [known EXCEPT ![q] = None]
    /\ UNCHANGED <<serverSide, userSide, list, asked, waiting, loading, failed, told, before,
                   rewinds>>

(***************************************************************************)
(* Mutations.                                                              *)
(***************************************************************************)
Request(by, kind, i, had) ==
    [by |-> by, kind |-> kind, item |-> i, n |-> looks, st |-> "sent",
     val |-> 0, at |-> 0, had |-> had, alone |-> FALSE]

\* Mutant: the cached lists survive.
Send_KeepsCache(by, kind, i) ==
    /\ looks' = IF by = "batch" THEN looks ELSE looks + 1
    /\ ops' = ops \union {Request(by, kind, i, known)}
    /\ Same
    /\ UNCHANGED <<serverSide, query, crossed, known, asked, waiting, loading, failed>>

\* A request is sent; "had" is what is cached from then on.
Send(by, kind, i) ==
    LET had == IF kind = "act" /\ listPage.store THEN known ELSE Invalidate
    IN  /\ looks' = IF by = "batch" THEN looks ELSE looks + 1
        /\ ops' = ops \union {Request(by, kind, i, had)}
        /\ known' = had
        /\ Same
        /\ UNCHANGED <<serverSide, query, crossed, asked, waiting, loading, failed>>

OpenAdd ==
    /\ listPage.view.creates /\ ~dialog.open /\ dialog.target = None
    /\ dialog' = [dialog EXCEPT !.open = TRUE]
    /\ UNCHANGED <<serverSide, batchSide, loadSide, query, ops, busy, crossed, looks>>

CloseAdd ==
    /\ dialog.open
    /\ dialog' = [dialog EXCEPT !.open = FALSE]
    /\ UNCHANGED <<serverSide, batchSide, loadSide, query, ops, busy, crossed, looks>>

Submit(i) ==
    /\ looks < MaxLooks
    /\ dialog.open /\ (listPage.dialog.locked => ~dialog.submitting)
    /\ dialog' = [dialog EXCEPT !.submitting = TRUE]
    /\ Send("dialog", "create", i)
    /\ UNCHANGED <<batchSide, busy>>

AskDelete(i) ==
    /\ listPage.view.deletes /\ dialog.target = None /\ ~dialog.open /\ list.rows[i] # 0
    /\ dialog' = [dialog EXCEPT !.target = i]
    /\ UNCHANGED <<serverSide, batchSide, loadSide, query, ops, busy, crossed, looks>>

CancelDelete ==
    /\ dialog.target # None
    /\ dialog' = [dialog EXCEPT !.target = None]
    /\ UNCHANGED <<serverSide, batchSide, loadSide, query, ops, busy, crossed, looks>>

ConfirmDelete ==
    /\ looks < MaxLooks
    /\ dialog.target # None /\ (listPage.view.locked => ~dialog.deleting)
    /\ dialog' = [dialog EXCEPT !.deleting = TRUE]
    /\ Send("dialog", "delete", dialog.target)
    /\ UNCHANGED <<batchSide, busy>>

\* Test, toggle, trigger, change of a role, install.
Act(i) ==
    /\ looks < MaxLooks
    /\ listPage.view.acts # "no" /\ list.rows[i] # 0 /\ i \notin busy
    /\ busy' = IF listPage.view.acts = "name" THEN {i} ELSE busy \union {i}
    /\ Send("row", "act", i)
    /\ UNCHANGED <<batchSide, dialog>>

\* The end of an action unlocks its button, or every button.
Unlock(i, ok) ==
    CASE listPage.view.acts = "name" -> {}
      [] listPage.view.acts = "once" /\ ok -> busy
      [] OTHER -> busy \ {i}

Changing(o) == o.kind # "act" \/ listPage.reloads
Next_(v) == IF v = Over THEN Over ELSE v + 1

\* The server carries a request out.
ServerDoes(o) ==
    /\ o \in ops /\ o.st = "sent" /\ changes < MaxChanges
    /\ LET v == IF o.kind = "delete" THEN 0
                ELSE IF Changing(o) THEN Next_(rows[o.item]) ELSE rows[o.item]
       IN  /\ o.kind = "act" => rows[o.item] # 0
           /\ rows' = [rows EXCEPT ![o.item] = v]
           /\ changes' = changes + 1
           /\ ops' = (ops \ {o}) \union
                     {[o EXCEPT !.st = "done", !.val = v, !.at = changes + 1, !.alone = Undisturbed(o)]}
    /\ UNCHANGED <<batchSide, listPage, own, listFaults, loadSide, query, dialog, busy, crossed, looks>>

\* What the dialogs do when their request has ended.
Closed(o, ok) ==
    IF o.by # "dialog" THEN dialog
    ELSE IF o.kind = "create"
    THEN [dialog EXCEPT !.submitting = FALSE,
                        !.open = @ /\ ~(ok /\ listPage.dialog.closes)]
    ELSE [dialog EXCEPT !.deleting = FALSE,
                        !.target = IF ok \/ ~listPage.view.keeps THEN None ELSE @]

\* A step of a batch has ended; after the last one the user is told.
Step(o, ok) ==
    IF o.by # "batch" THEN UNCHANGED batchSide
    ELSE LET b == [batch[o.kind] EXCEPT !.waits = FALSE, !.ok = IF ok THEN @ + 1 ELSE @,
                                        !.done = IF o.st = "done" THEN @ + 1 ELSE @]
         IN  IF b.left # {}
             THEN batch' = [batch EXCEPT ![o.kind] = b] /\ UNCHANGED report
             ELSE /\ batch' = [batch EXCEPT ![o.kind] = None]
                  /\ report' = [report EXCEPT ![o.kind] = b]

\* A page of its own list loads it again after a change, and the page of all
\* resources after a creation or at the end of an import.
Reloads(o, ok) ==
    IF o.by = "batch"
    THEN o.kind = "create" /\ batch["create"].left = {} /\ (ok \/ batch["create"].ok > 0)
    ELSE ok /\ IF listPage.store THEN listPage.all /\ o.kind = "create" ELSE Changing(o)

\* The store puts the answer of a change in its list.
Applied(o) == IF listPage.store /\ Changing(o)
              THEN [list EXCEPT !.rows[o.item] = o.val, !.at[o.item] = o.at] ELSE list

Refreshed(o, ok, shown) ==
    IF Reloads(o, ok) THEN Load(query, shown)
    ELSE Show(shown) /\ UNCHANGED <<known, asked, waiting, loading, failed>>

AnswerOp(o) ==
    /\ o \in ops /\ o.st = "done"
    /\ ops' = ops \ {o}
    /\ dialog' = Closed(o, TRUE)
    /\ busy' = IF o.kind = "act" THEN Unlock(o.item, TRUE) ELSE busy
    /\ own' = IF Changing(o) /\ o.alone /\ \A p \in ops \ {o} : p.item # o.item
              THEN [own EXCEPT ![o.item] = o.at] ELSE own
    /\ Refreshed(o, TRUE, Applied(o))
    /\ Step(o, TRUE)
    /\ UNCHANGED <<listPage, rows, changes, listFaults, query, crossed, looks>>

\* The server refuses, or its answer is lost.
FailOp(o) ==
    /\ o \in ops /\ Fault
    /\ ops' = ops \ {o}
    /\ dialog' = Closed(o, FALSE)
    /\ busy' = IF o.kind = "act" THEN Unlock(o.item, FALSE) ELSE busy
    /\ Refreshed(o, FALSE, list)
    /\ Step(o, FALSE)
    /\ UNCHANGED <<listPage, rows, changes, own, query, crossed, looks>>

(***************************************************************************)
(* Several documents are imported, or the selected rows deleted, one       *)
(* request after the other; an import and a bulk delete may overlap.       *)
(***************************************************************************)
StartBatch(kind, chosen) ==
    /\ listPage.all /\ batch[kind] = None /\ report[kind] = None /\ chosen # {}
    /\ looks' = looks + Cardinality(chosen) /\ looks' <= MaxLooks
    /\ kind = "delete" => \A i \in chosen : list.rows[i] # 0
    /\ batch' = [batch EXCEPT ![kind] = [left |-> chosen, all |-> chosen, tried |-> {},
                                         ok |-> 0, done |-> 0, waits |-> FALSE]]
    /\ UNCHANGED <<serverSide, loadSide, query, ops, dialog, busy, crossed, report>>

NextOfBatch(kind, i) ==
    /\ batch[kind] # None /\ ~batch[kind].waits /\ i \in batch[kind].left
    /\ batch' = [batch EXCEPT ![kind].left = @ \ {i}, ![kind].tried = @ \union {i},
                              ![kind].waits = TRUE]
    /\ Send("batch", kind, i)
    /\ UNCHANGED <<report, dialog, busy>>

(***************************************************************************)
(* Others change rows too: a user, or an execution that ends.              *)
(***************************************************************************)
OthersChange(i) ==
    /\ changes < MaxChanges
    /\ changes' = changes + 1
    /\ rows' = [rows EXCEPT ![i] = IF @ = Over /\ ~listPage.tells THEN 0 ELSE Next_(@)]
    /\ rows' # rows
    /\ UNCHANGED <<listPage, own, listFaults, loadSide, userSide>>

ListNext ==
    \/ Refresh \/ Poll \/ OpenAdd \/ CloseAdd \/ CancelDelete \/ ConfirmDelete
    \/ \E q \in Queries : ChangeQuery(q) \/ ServerReads(q) \/ Answer(q) \/ FailLoad(q) \/ Expire(q)
    \/ \E i \in Items : Submit(i) \/ AskDelete(i) \/ Act(i) \/ OthersChange(i)
    \/ \E kind \in Batches :
         \/ \E chosen \in SUBSET Items : StartBatch(kind, chosen)
         \/ \E i \in Items : NextOfBatch(kind, i)
    \/ \E o \in ops : ServerDoes(o) \/ AnswerOp(o) \/ FailOp(o)

ListInit == ListInitOf(AllPages)
ListSpec == ListInit /\ [][ListNext]_listVars

(***************************************************************************)
(* Properties.                                                             *)
(***************************************************************************)
ListTypeOK ==
    /\ listPage \in AllPages /\ rows \in [Items -> 0..Over] /\ changes \in 0..MaxChanges
    /\ query \in Queries /\ list.q \in Queries \union {None} /\ busy \subseteq Items
    /\ dialog.target \in Items \union {None} /\ looks \in 0..MaxLooks

\* A user sees what she changed: once a change is answered the list is not
\* older than it, unless it is being loaded or could not be, or a list was
\* cached or in flight when the server made the change, or another change of
\* hers to the same row was still in flight.
ReadYourWrites ==
    \A i \in Items : list.at[i] >= own[i] \/ loading \/ failed

\* The list is that of the filter chosen, unless the filter was changed
\* while another answer was awaited.
ListOfQuery == loading \/ failed \/ crossed \/ list.q = query

\* The end of an execution is announced once, and once more at most for each
\* time the list went back to an older answer.
AnnouncedOnce == \A i \in Items : told[i] <= 1 + rewinds

=============================================================================
