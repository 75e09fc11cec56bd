------------------------------ MODULE MCConsole ------------------------------
(***************************************************************************)
(* The web console and the SDK clients in one run.  Its parts meet in the  *)
(* server only, so the run takes them one at a time: "part" is the one     *)
(* that moves, the others rest in an initial state.                        *)
(***************************************************************************)
EXTENDS Integers, Sequences, FiniteSets

CONSTANTS
    None,
    Execs, First, EventsLimit, MaxEvents, Views,
    Items, Queries, MaxChanges, MaxFaults, MaxLooks,
    Names, CopyOf, Scopes,
    Runs, MaxInst, MaxLostCalls,
    MAX_HISTORY, MaxDocs,
    Crews, Users,
    Tabs, Rooms, Nodes, MAX_RECONNECT_ATTEMPTS, Sessions,
    People, MaxTokens, MaxUpsets,
    MaxTurns, MaxChunks,
    n1, n2

VARIABLES
    part,
    srv, route, seen, client, sse, disc, poll, ref, mut, visits, faults, tab,
    listPage, rows, changes, query, list, known, asked, waiting, loading, failed, ops, dialog,
    busy, batch, report, own, told, before, rewinds, crossed, looks, listFaults,
    store, writes, page, reads, cached, sent, visited, sends, lost, overlapped, accepted, acted,
    scope,
    use, runs, runner, widget, waiter, reported, lostCalls,
    st, recent, gesture, docs, recorded,
    canvas, name, dirty, settings, saved, ui, flights, crewPoll, ended, ran, revived,
    edits, started, crewRuns, drops, user,
    room, effect, socks, wsRef, connected, attempts, timer, graph, made, late, parted, mingled,
    session, madeSocks, moved, changed, broke,
    auth, stored, issued, stale, me, meCache, calls, logins, seenToken, data, leaving, overlap,
    upsets,
    talk, sending, streams, abortRef, turns

pageVars == <<srv, route, seen, client, sse, disc, poll, ref, mut, visits, faults, tab>>
listVars == <<listPage, rows, changes, query, list, known, asked, waiting, loading, failed, ops, dialog,
    busy, batch, report, own, told, before, rewinds, crossed, looks, listFaults>>
editorVars == <<store, writes, page, reads, cached, sent, visited, sends, lost, overlapped, accepted, acted,
    scope>>
sdkVars == <<use, runs, runner, widget, waiter, reported, lostCalls>>
historyVars == <<st, recent, gesture, docs, recorded>>
studioVars == <<canvas, name, dirty, settings, saved, ui, flights, crewPoll, ended, ran, revived,
    edits, started, crewRuns, drops, user>>
roomVars == <<room, effect, socks, wsRef, connected, attempts, timer, graph, made, late, parted, mingled,
    session, madeSocks, moved, changed, broke>>
sessionVars == <<auth, stored, issued, stale, me, meCache, calls, logins, seenToken, data, leaving, overlap,
    upsets>>
chatVars == <<talk, sending, streams, abortRef, turns>>

Page == INSTANCE ExecutionPage
Lists == INSTANCE ListPages
Editor == INSTANCE ResourceEditor
Sdk == INSTANCE SdkClients
History == INSTANCE StudioHistory
Studio == INSTANCE StudioEditor WITH poll <- crewPoll, runs <- crewRuns
Room == INSTANCE StudioRoom
Session == INSTANCE ConsoleSession
Chat == INSTANCE ChatPage

\* What the proofs about the parts assume of the constants.
ASSUME PageAssumption == Page!PageAssumption
ASSUME RoomAssumption == Room!NoneIsNone
ASSUME EditorAssumption == Editor!CopiesNamed
ASSUME StudioAssumption == Studio!StudioAssumption
ASSUME HistoryAssumption == History!HistoryAssumption
ASSUME SessionAssumption == Session!SessionAssumption
ASSUME ListAssumption == Lists!ListAssumption
ASSUME SdkAssumption == Sdk!SdkAssumption
\* What their types assume of the bounds.
ASSUME BoundsAssumption ==
    /\ Page!PageBounds
    /\ Editor!EditorBounds /\ Room!RoomBounds /\ Session!SessionBounds /\ Sdk!SdkBounds
    /\ Chat!ChatBounds /\ Lists!ListBounds
\* A part that rests has a state to rest in.
ASSUME RestAssumption == n1 \in Names /\ {} \notin {Scopes, Users, Crews, Sessions}

(***************************************************************************)
(* The bounds.                                                             *)
(***************************************************************************)
\* TabOf, ScopeOf, UserOf and SessionOf as in the modules: what a constant is
\* given cannot refer to an instance that the constant is given to.
TabOf(row, log, nvisits, nfaults, mutates) ==
    [rows |-> row, log |-> log, visits |-> nvisits, faults |-> nfaults, mutates |-> mutates]
ScopeOf(nwrites, nvisits, nsends, nlost) ==
    [writes |-> nwrites, visits |-> nvisits, sends |-> nsends, lost |-> nlost]
UserOf(does, nedits, nflights, nruns, ndrops) ==
    [does |-> does, edits |-> nedits, flights |-> nflights, runs |-> nruns, drops |-> ndrops]
SessionOf(hook, nmoves, nchanges, nbreaks) ==
    [hook |-> hook, moves |-> nmoves, changes |-> nchanges, breaks |-> nbreaks]

ExecRow(s, n) == [st |-> s, n |-> n]
TabCancels == TabOf([Execs -> {ExecRow("running", 0), ExecRow("absent", 0)}], 0, 1, 0, TRUE)
TabRetries == TabOf([Execs -> {ExecRow("completed", 0), ExecRow("absent", 0)}], 0, 2, 0, TRUE)
TabMoves == TabOf([Execs -> {ExecRow("running", 1), ExecRow("completed", 1)}], 1, 2, 0, FALSE)
TabLoses == TabOf([Execs -> {ExecRow("running", 0), ExecRow("absent", 0)}], 1, 1, 3, FALSE)
TabStrays == TabOf({[e \in Execs |-> ExecRow(IF e = First THEN "running" ELSE "completed", 0)]},
                   0, 2, 3, FALSE)
TabLogs == TabOf([Execs -> {ExecRow("running", 0), ExecRow("absent", 0)}], 4, 1, 0, FALSE)
SomeViews == {TabCancels, TabRetries, TabMoves, TabLoses, TabStrays, TabLogs}

SomeScopes == {ScopeOf(2, 2, 1, 0), ScopeOf(1, 2, 1, 1), ScopeOf(2, 1, 2, 0)}
Copies == [n \in Names |-> IF n = n1 THEN n2 ELSE None]

SomeUsers == {UserOf({"edit", "load", "save", "run"}, 2, 2, 1, 1),
              UserOf({"yaml", "layout", "load", "name", "others"}, 2, 2, 0, 0),
              UserOf({"load", "run", "leave"}, 1, 2, 2, 0),
              UserOf({"assistant", "layout", "load", "settings", "save"}, 1, 3, 0, 1)}

SomeSessions == {SessionOf("collab", 2, 0, 1), SessionOf("collab", 0, 4, 0),
                 SessionOf("presence", 1, 0, 2)}

(***************************************************************************)
(* One part at a time.                                                     *)
(***************************************************************************)
Parts == {"execution page", "list pages", "resource page", "sdk clients", "studio history",
          "studio", "studio room", "session", "chat"}

Any(set) == CHOOSE x \in set : TRUE

Init ==
    /\ part \in Parts
    /\ Page!PageInitOf(IF part = "execution page" THEN Views
                       ELSE {TabOf([Execs -> {ExecRow("running", 0)}], 0, 1, 0, FALSE)})
    /\ Lists!ListInitOf(IF part = "list pages" THEN Lists!AllPages
                        ELSE {Lists!ServiceAccountsPage})
    /\ IF part = "resource page" THEN \E s \in Scopes : Editor!EditorInitOf({n1}, Editor!Rows, s)
                                 ELSE Editor!EditorInitOf({n1}, {None}, Any(Scopes))
    /\ Sdk!SdkInitOf(IF part = "sdk clients" THEN Sdk!Uses ELSE {"wait"})
    /\ History!HistoryInit
    /\ IF part = "studio" THEN Studio!StudioInit ELSE Studio!StudioInitOf(Any(Users), Any(Crews))
    /\ IF part = "studio room" THEN Room!RoomInit ELSE Room!RoomInitOf(Any(Sessions))
    /\ Session!SessionInit
    /\ Chat!ChatInit

Next ==
    /\ IF part = "execution page" THEN Page!PageNext ELSE UNCHANGED pageVars
    /\ IF part = "list pages" THEN Lists!ListNext ELSE UNCHANGED listVars
    /\ IF part = "resource page" THEN Editor!EditorNext ELSE UNCHANGED editorVars
    /\ IF part = "sdk clients" THEN Sdk!SdkNext ELSE UNCHANGED sdkVars
    /\ IF part = "studio history" THEN History!HistoryNext ELSE UNCHANGED historyVars
    /\ IF part = "studio" THEN Studio!StudioNext ELSE UNCHANGED studioVars
    /\ IF part = "studio room" THEN Room!RoomNext ELSE UNCHANGED roomVars
    /\ IF part = "session" THEN Session!SessionNext ELSE UNCHANGED sessionVars
    /\ IF part = "chat" THEN Chat!ChatNext ELSE UNCHANGED chatVars
    /\ UNCHANGED part

vars == <<part, pageVars, listVars, editorVars, sdkVars,
          historyVars, studioVars, roomVars, sessionVars,
          chatVars>>

Spec == Init /\ [][Next]_vars

(***************************************************************************)
(* The properties of the parts.                                            *)
(***************************************************************************)
\* The part that moves keeps its types.
ConsoleTypeOK ==
    CASE part = "execution page" -> Page!PageTypeOK
      [] part = "list pages" -> Lists!ListTypeOK
      [] part = "resource page" -> Editor!EditorTypeOK
      [] part = "sdk clients" -> Sdk!SdkTypeOK
      [] part = "studio history" -> History!HistoryTypeOK
      [] part = "studio" -> Studio!StudioTypeOK
      [] part = "studio room" -> Room!RoomTypeOK
      [] part = "session" -> Session!SessionTypeOK
      [] part = "chat" -> Chat!ChatTypeOK

\* The page of an execution (ExecutionPage): its log is in order; at rest it
\* shows how the execution ended, and the whole log.
LogInOrder == Page!LogInOrder
ShowsOutcome == Page!ShowsOutcome
FinalLog == Page!FinalLog

\* The lists (ListPages): a user sees what she changed, and the filter she
\* chose; the end of an execution is announced once.
ReadYourWrites == Lists!ReadYourWrites
ListOfQuery == Lists!ListOfQuery
AnnouncedOnce == Lists!AnnouncedOnce

\* The page of a resource (ResourceEditor): no update is lost, texts go to
\* the resource they describe, dialogs act on the resource they name.
NoLostUpdate == Editor!NoLostUpdate
SavedWhereItBelongs == Editor!SavedWhereItBelongs
ActsOnWhatIsShown == Editor!ActsOnWhatIsShown

\* The SDK clients (SdkClients): a widget shows its prop, a run is reported.
ShowsItsProp == Sdk!ShowsItsProp
RunIsReported == Sdk!RunIsReported

\* The studio's history (StudioHistory) implements UndoStack.
IsUndoStack == History!IsUndoStack

\* The studio (StudioEditor): a run executes what was on the canvas, the
\* results are of the execution followed, and nothing stays locked.
RunsWhatWasSaved == Studio!RunsWhatWasSaved
ResultsOfLastRun == Studio!ResultsOfLastRun
LockedOnlyWhileBusy == Studio!LockedOnlyWhileBusy

\* A room (StudioRoom): no socket is left in another room, canvases agree.
NoGhostInTime == Room!NoGhostInTime
TabsConverge == Room!TabsConverge

\* A session (ConsoleSession): the user shown is the user of the token.
UserOfToken == Session!UserOfToken

\* A chat (ChatPage): turns end with the form unlocked and nothing lost.
TurnsSettle == Chat!TurnsSettle
=============================================================================
