# A verification of Blackbeard

Blackbeard runs crews of LLM agents. A client posts a *kickoff*; the server
stores an execution row, runs the crew on a pool thread, and writes the crew's
events into a log that clients read while it grows. A web console edits crews
on a canvas, alone or in a room with others, runs them and shows their logs; two
SDKs embed runs in other programs. This directory holds TLA+ models of the
execution engine, of the console and of the SDK clients, the TLC runs that
check them, and proofs of their main properties for all values of the constants.

Paths below are relative to `src/backend/blackbeard/` for Python files and to
`src/frontend/src/` for TypeScript files, unless they start with `src/`.
`PROJECT.json` maps every definition to the lines it models.

| module | what it is |
| --- | --- |
| `ExecutionStatus` | the promise: the status machine of one execution |
| `ExecutionLifecycle` | rows, pool threads, virtual keys, cancels, recovery |
| `MCExecutionLifecycle` | its instances for TLC |
| `ExecutionLifecycleProofs` | theorems about it |
| `EventLog` | the event listener, the other writers of the log, the stream |
| `EventLogProofs` | theorems about it |
| `MCEventLog` | its instances for TLC |
| `ExecutionPage` | the page of an execution, its store, its stream and polls |
| `ListPages` | the sixteen list pages and the store they share |
| `ResourceEditor` | the page of a resource over the versioned endpoints |
| `ResourceEditorProofs` | theorems about it |
| `SdkClients` | the React widgets and the `wait` of the TypeScript client |
| `UndoStack` | the promise: what undo and redo do in any editor |
| `StudioHistory` | the studio's history of snapshots |
| `StudioHistoryProofs` | theorems about it |
| `StudioEditor` | the studio: load, edit, save, run, results |
| `StudioEditorProofs` | theorems about it |
| `StudioRoom` | several tabs on one crew over sockets |
| `StudioRoomProofs` | theorems about it |
| `ConsoleSession` | login, refresh, logout, the user shown |
| `ChatPage` | a turn of the chat and its stream |
| `MCConsole`, `MCStudioRoom` | their instances for TLC |
| `ConsolePageProofs` | theorems about the execution page in it |
| `ConsoleProofs` | theorems about sessions, lists, SDK clients and the chat in it, those about the other parts, of the whole console, and the types of all |

The state modules put a mutated form (named `Operation_Change`, with a comment
that begins "Mutant") before an operation where a plausible slip would break a
property. No specification uses them; they show that the property notices.

## 1. Inventory

### The processes

One or more *replicas* (containers) each run `uvicorn` with one or more worker
processes (`src/backend/entrypoint.sh`). A process has one event loop for
requests, and a pool of threads, each of which runs one crew with an event loop
of its own. All share a PostgreSQL database; there is a LiteLLM proxy for
models and spending, and optionally Valkey and Temporal.

### Components, their state, operations and hard behaviours

**Executor** (`engine/executor.py`, `models/execution.py`). State: the
execution row (status, start and end, outputs, error, `litellm_key`,
`worker_id`, `updated_at`), its tasks, the process's table of futures.
Operations: submit, run, cancel, mark failed, retry, recover at start-up, shut
down. Hard: the run, the request that cancels, the retention purge and another
process's recovery all change one row in transactions of their own, and a
process may die between any two. Correct if: the status moves along allowed
edges only; what is cancelled stays so; every accepted execution settles; no
task of a failed execution stays open; recovery spares what is alive.

**Virtual keys** (`litellm/key_manager.py`). State: keys at the proxy, one per
budgeted run, named in memory and in the row. Hard: remote calls whose answers
get lost, crashes between a call and the commit that records it. Correct if: a
budgeted crew never runs without a key; a key that exists can be found and is
deleted in the end.

**Event listener** (`engine/execution_listener.py`). State: a buffer, a
sequence counter, a flush timer, two locks. Operations: write an event, write
an event together with a task update, flush, put back a batch that failed,
renumber, final flush. Hard: crew threads, timers and the closing thread
interleave; others take numbers of the same log. Correct if: the log has the
events in the order they were emitted, none is lost except by the overflow
that is logged, none is left in the buffer.

**Human input** (`engine/hitl.py`, the respond endpoint). State: request and
answer rows in the same log. Hard: numbers taken concurrently; answers that are
late or for another round. Correct if: an answer belongs to the round that
consumes it, once.

**Event stream** (`api/executions.py`, `sse.py`). State: the last number it
yielded, the last status. Hard: it reads "what follows this number" while rows
with lower numbers may be uncommitted, and stops at a terminal status. Correct
if: it skips no event and ends only when it has given all there was.

**Temporal dispatch** (`engine/temporal.py`). The same run as an activity.
Hard: a crash between commit and dispatch, retries of an activity whose row
is already running.

**Cron scheduler** (`engine/scheduler.py`, `models/automation_run.py`).
State: a task per automation and replica; a row per claimed firing. Hard:
replicas race for a firing; a reload cancels tasks; a claim may fail. Correct
if: each firing triggers once.

**Flow runner, loader, budget, policy** (`engine/flow_runner.py`,
`loader.py`, `budget.py`, `policy.py`). Mostly algorithms over a snapshot of
resources: routing with a cap on visits, the most restrictive of policies.

**Sandboxes** (`engine/sandbox/`). Runs tools in containers or virtual
machines; the selector picks the stricter of tool tier and policy floor.

**Resource store** (`resources/`, `api/resources.py`, `api/mutations.py`).
State: versioned documents, references, earlier versions; after a mutation
pushes to LiteLLM, a scheduler reload, an authorisation cache. Hard: optimistic
locking, creation races, hooks in no particular order.

**Collaboration** (`api/collaboration.py`). State: rooms of WebSockets, a
Valkey listener per room. Hard: joins and leaves between awaits, listeners that
die. **Webhooks, rate limiters, stream slots, retention**: small shared state
with caps, caches or windows. **Authentication, the other endpoints, plugins,
plumbing**: decisions over one request, or wiring.

**API client** (`api/client.ts`). State: a cache of GET answers (five seconds),
GETs in flight by path. Operations: get, with or without the cache; a mutation,
which first drops the cached answers of its collection. Hard: a GET in flight
since before a mutation is shared with whoever asks next, and cached. Correct
if: after her own change a user is not shown what was there before.

**Execution page** (`pages/ExecutionDetail.tsx`, `stores/executionStore.ts`,
`hooks/usePolling.ts`). State: execution, log, spend, an EventSource, a
polling chain, the effects' last inputs. Hard: five sources of events
overlap; late answers come after navigation; the stream breaks or is refused.
Correct if: the log is in order and has no hole, and a page where nothing moves
any more shows how the execution ended.

**List pages, resource store** (`pages/*.tsx`, `stores/resourceStore.ts`).
State: list, filter, dialogs, locks of buttons. Hard: polls, filters and own
changes answered in any order; batches where some steps fail. Correct if: the
list is of the chosen filter, knows the user's changes, announces each end once.

**Resource page** (`pages/ResourceDetail.tsx`). State: the resource, the text,
dialogs. Hard: the URL changes under the page; others write too. Correct
if: no update is lost, and actions hit the resource they name.

**Studio** (`pages/Studio.tsx`, `stores/studioStore.ts`). State: graph,
history, name and mark of the crew, results. Hard: loads, two-phase saves,
layouts, polls and edits overlap and nothing cancels them. Correct if: a run
executes what was on the canvas, nothing stays locked, and undo goes back through
what was on display.

**Room of a crew** (`hooks/useCollaboration.ts`, `hooks/usePresence.ts`).
State: a socket and timers per tab, refs that outlive effects. Hard: closes that
are delivered late, concurrent changes. Correct if: no socket stays in another
room; canvases that have heard everything agree.

**Session** (`stores/authStore.ts`, `App.tsx`). State: tokens in memory and in
localStorage, the user. Hard: refresh, logout, login and the fetch of the user
overtake each other. Correct if: the user shown is the user of the token.

**Chat** (`pages/Chat.tsx`). State: messages, a stream, a frame. Correct if: a
turn ends with the form unlocked and nothing lost.

**SDK clients** (`src/sdks/react`, `src/sdks/typescript`). State: timers, flags.
Correct if: the end of a run is reported, once, and a widget shows its prop.

**Other pages and views, command line, Python SDK, deployment**: forms over
one request, tours, formats, or clients of the HTTP interface.

`PROJECT.json` lists them all with what is modelled, and the hazards with the
line where each bites.

### How they interact

    client --kickoff/cancel/respond--> API process --row, future--> pool thread
    pool thread --create/delete key--> LiteLLM     pool thread --> crew --> listener
    listener, respond, human input --rows--> execution_events <--poll-- stream
    starting process --recover--> rows and keys of the process that died
    pages, widgets --GET (cached, shared), polls, EventSource--> API process
    pages --mutations--> API process        studio tabs <--sockets--> room of the crew

The parts of the console share no state with each other except through the
server: each page has its own, the stores belong to one page or to pages that
are never open together, and what the API client caches is per path. The
session is the exception, and it only adds that every page may be left at any
time, which the modules of the pages allow.

## 2. What is modelled, and how it corresponds to the code

### ExecutionLifecycle

State: one function per column of the row that a guard reads; per run its
place `pc`, whether it holds a key, what its `finally` block owes, whether its
future is still watched; the keys that exist at the proxy; the processes. A
behaviour starts with no rows and no process up.

Grain: one action per database transaction or remote call. Within one the row
is locked, so nobody else can act; between two, anybody can. `CancelFlush` and
`CancelCommit` are two actions because the future is dropped between them.
A run that holds the row uncommitted (`pending = "dirty"`) locks it as well.

| code | actions |
| --- | --- |
| `_submit_execution` | `Submit`, `Enqueue`, `TakeThread` |
| `run_crew_async`, head | `StartRun`, `StartFails` |
| key set-up | `CreateKey`, `CreateKeyFails`, `NeedsNoKey`, `PersistKey` |
| second check, crew | `Recheck`, `TaskEvent`, `RunRaises`, `CrewReturns` |
| outcome | `Finish`, `RedactorFails`, `FailRun`, `TransactionFails` |
| `finally` | `LeaveKeyless`, `DeleteKey`, `ClearKey` |
| `_on_thread_done` | `MarkFailed` |
| `cancel_execution` and its endpoint | `CancelFlush`, `CancelCommit`, `CancelRollback` |
| `recover_stale_executions` | `Boot`, `RecoverKeys`, `RecoverRows` |
| `shutdown_executor`, crash | `ShutDown`, `Exited`, `Crash` |
| the clock, `purge_expired_data` | `GoIdle`, `Purge` |

*The re-locked row.* The run loads its row once, and locks it again before each
later decision. Its session is made with `expire_on_commit=False`
(`executor.py:268`) and the query does not ask for `populate_existing`; SQLAlchemy
then returns the object of the identity map with the attributes of the first
load. So the lock is real, and the status it shows is not: `View` is "running"
whatever the row says, unless the row is gone. The constant `RelockRefreshes`
chooses: FALSE is the code, TRUE what its comments suppose. With FALSE a
constraint of the table still stops some of it: a row that has an error cannot
get another status (`ErrorForbids`), so a recovered row is not resurrected.

*Faults.* `Env` names those that may happen: `audit_fails` (the cancel's
transaction), `proxy_fails`, `redactor_fails`, `db_fails`, `db_stays_down` (the
callback's transaction too), and `long_run`, `orphan_ages` (a row passes the
two-hour cutoff with its run alive or dead), `purge`.

*Abstractions.* One task per execution; outputs are "raw" or "redacted"; the
two columns cost and tokens, the error texts and timestamps are left out.
`worker_id` is derived from the accepting process. Rows without `worker_id`
(written before the column existed) and rows of Temporal are left out.
`db_fails` and `TransactionFails` stand for any failure of a transaction of
the run; the session is unusable after it, so the handler raises as well.

### ExecutionStatus

The abstract specification: one variable, the allowed edges, terminal statuses
without exits, and purging. Its parameter `Displaced` is the set of
terminal statuses that a stale run may replace: empty if the lock re-read the
row, `{"cancelled"}` as the code is. `KeepsPromise` says ExecutionLifecycle
implements it, execution by execution; it is model-checked and proved. The
exception is exactly what the run CancelOverwritten exhibits.

### EventLog

State: committed rows; the listener's counter, buffer, batch, `_io_lock`,
`_flushing`, timer; a place per thread; other writers; a stream. Threads are
the crew's writers, the timers and the closing thread.

| code | actions |
| --- | --- |
| `_write_event` | `WriteEvent`, `ScheduleFlush` |
| `_write_event_with_task_update` | `WriteTaskEvent`, `Drain` |
| timer, `_flush_buffer` | `Fire`, `TakeBuffer`, `CommitBatch`, `Collide`, `Outage` |
| `_renumber_events`, `_requeue_locked` | `Renumber`, `RenumberFails`, `Requeue` |
| `flush`, outcome | `Close`, `FinalFlush`, `Flushed`, `Complete` |
| `record_hitl_response`, `_write_request` | `AppendRead`, `AppendInsert`, `AppendCommit` |
| `_poll_execution` | `PollStatus`, `PollEvents` |

The unique constraint is modelled as PostgreSQL enforces it: an insert waits
for an uncommitted row with its number (`Held`) and fails if one is committed
(`Taken`). `_lock` sections are single actions; `_io_lock` is a variable,
because database work happens under it. The wait of up to five seconds for a
flush in flight is left out: it only delays what `_io_lock` serialises
anyway. Timers bounds how many timer threads there are; when all are
busy each is about to flush, so one more would find an empty buffer. `passed`
is a history variable for the properties: the number that was next when a batch
with higher ones was committed. A request or an answer with such a number is
`Overtaken` (section 4). The
content of events, webhooks and the event bus are left out, as is the cap on
the number of polls.

### ExecutionPage

State: the rows and logs of the server, the URL, the store with the cache and
the requests in flight (`client`), the EventSource, the polling chain, the
inputs the effects last ran with. A request in flight keeps what the server held
when it was sent, and its answer is that or what the server holds now.

Grain: JavaScript runs one callback at a time, so an action is a callback with
everything it calls: a click, an answer, a timer, a message of the stream, or
`Commit`, the effects after a render with their cleanups, in the order of the
file. Between a change of the store and `Commit` anything may happen.

| code | actions |
| --- | --- |
| effects of `ExecutionDetail` | `Commit`, `Navigate`, `Reload` |
| cancel, retry | `AskCancel`, `DismissCancel`, `SendMutation`, `ServerCancel`, `ServerRetry`, `AnswerCancel`, `AnswerRetry`, `MutationFails` |
| `executionStore`, `api/client.ts` | operators on `client`; `AnswerExecution`, `AnswerEvents`, `AnswerSpend`, their failures, `CacheExpires` |
| EventSource | `StreamOpens`, `StreamSends`, `StreamDelivers`, `StreamEnds`, `StreamBreaks`, `StreamRefused` |
| `usePolling` | `Tick`, `OnVisible`, `PollEvents` |

### ListPages

Sixteen pages are one machine with differences. Each page is a record of
choices read from its view, its handlers and its dialog: where the list is kept,
what a finished change does to it, what a request in flight locks, whether it
filters or polls. TLC starts from each record; equal ones are checked once.
Rows are versions; a list carries the moment the server held each row, so that
"older than the user's own change" can be said.

| code | actions |
| --- | --- |
| loads, filters, polls | `Refresh`, `ChangeQuery`, `Poll`, `ServerReads`, `Answer`, `FailLoad`, `Expire` |
| dialogs | `OpenAdd`, `CloseAdd`, `Submit`, `AskDelete`, `CancelDelete`, `ConfirmDelete` |
| buttons of a row | `Act` |
| import, bulk delete | `StartBatch`, `NextOfBatch` |
| the answers of mutations | `ServerDoes`, `AnswerOp`, `FailOp` |
| notifications (`Executions.tsx`) | `Announce`, in every step that replaces the rows |

### ResourceEditor

State: the rows (version, body, birth), the page with its URL, GETs in flight
and cached, mutations in flight. A body is the moment of the write that made it,
so bodies are equal only if they are the same. `update_resource` compares the
version and the name in the text; `create_resource` updates what is there;
`delete_resource` succeeds on nothing (`resources/service.py`,
`api/resources.py`). Other clients write at any time.

| code | actions |
| --- | --- |
| `loadResource` | `Open`, `Reload`, `ServerGets`, `AnswerGet`, `FailGet`, `CacheExpires` |
| handlers | `HandleEdit`, `HandleCancelEdit`, `HandleSave`, `AskDelete`, `DismissDelete`, `HandleDelete`, `HandleRun`, `HandleClone` |
| endpoints | `ServerHandles`; `OthersUpdate`, `OthersCreate`, `OthersDelete` |
| answers | `AnswerOp`, `FailOp` |

### SdkClients

`CrewRunner` is a form and a chain of timers and calls per run; `ExecutionStatus`
and `CrewViewer` are effects with an `active` flag; `wait` is a loop. One of them
is in use. Actions are their clicks, timers and answers, and the host's change
of a prop or unmount.

### UndoStack and StudioHistory

`UndoStack` is the promise: undo goes back through the documents that were on
display, redo comes back, a full history forgets its oldest. `StudioHistory` is
`studioStore.ts` as it is: snapshots taken before a change, an index, a live
document that may have left them, a capture at the tip. The refinement mapping
takes the past and the future from the snapshots on both sides of the index
without repetitions; `IsUndoStack` says that every step of the store is a step
of the stack or shows nothing. Gestures (a drag, half a second of typing, the
Delete key, which removes edges and then the node) are actions.

### StudioEditor

A graph is a pair, the edit that made its resources and the one that made its
crew, because the server writes and reads the two apart. A save, load, kickoff,
layout or generation is a record in `flights`, with the graph it started from.

| code | actions |
| --- | --- |
| edits | `Edit`, `SelectNode`, `SetCrewName`, `SetCrewSettings`, `TypeYaml`, `ParseYaml`, `HandleLoadExample` |
| layout, assistant | `HandleAutoLayout`, `LayoutEnds`, `OpenAssistant`, `HandleGenerate`, `Generated`, `HandleAssistantApply` |
| load | `HandleLoadCrew`, `ConfirmDiscard`, `LoadReads`, `LoadEnds` |
| save, run | `HandleSave`, `HandleRun`, `ServerSaves`, `SaveAnswers`, `ServerKicksOff`, `KickoffAnswers`, `RequestFails` |
| results | `PollFires`, `PollAnswers`, `PollFails`, `ClearExecResults` |
| leaving, others | `Leave`, `OthersSave` |

### StudioRoom

State: the sockets with what is on its way to each, the references and timers
of a tab, the nodes of each canvas. `Enter` is the cleanup of an effect and the
next effect; `Opens`, `Closes`, `Breaks` the socket's events; `ChangeNode` a
change and its broadcast, `Receives` its application. The room itself
(`api/collaboration.py`) passes a message on to its other members in order.
Cursors and names are left out, and the subscription between replicas.

### ConsoleSession

`Login` to `LoginFails` are the forms, `TokenEffect` the effect of `App`,
`MeAnswer` to `RefreshFails` the steps of `fetchMe`, `PageIsAnswered` a request
of a page (a 401 ends the session), `PageLoads` a reload, `OtherTab` another
tab's localStorage. A token is its number and its user.

### ChatPage

One turn: `HandleSend`, `Chunk`, `FlushContent` (the frame), `DoneEvent`,
`BodyEnds`, `TurnFails`, `HandleStop`, `HandleClear`. An abort rejects the
awaited read before any other callback, so the catch and finally blocks are part
of it.

## 3. Runs

Model values are few on purpose: two executions already interleave through
the pool (size one), the recovery and the key set-up; two processes are the
one that works and the one that starts; the event log needs two writers for a
batch to overtake another and one foreign row for a collision.

| run | shows | instance |
| --- | --- | --- |
| LifecycleSafety | tasks, keys, budgets, queued cancels and other replicas' work are safe | 2 executions (one budgeted, one redacted), 2 processes with ids of their own, 1 stop, all faults but the two-hour delays; 1.9 million states |
| LifecycleShared | what still holds with a shared `WORKER_ID`, long runs and ageing orphans | 2 executions, 2 processes, 1 stop; 1.2 million states |
| LifecycleReread | with a lock that re-reads the row a cancel is final, and no crew starts after it | as above, `RelockRefreshes = TRUE`; 1 million states |
| LifecycleLiveness | every execution settles and every key goes | 2 executions, 1 process, 2 stops, proxy and database failures; 130 thousand states |
| EventLogSafety | no batch overtakes, no reader skips, the final flush empties the buffer, a finished stream is complete | 2 writers, 1 timer, 1 answer, 3 events, batches of 1 for the reader; 720 thousand states |
| EventLogLiveness | every event is logged or dropped, even if the crew never returns | 1 writer, 2 events, an outage, a failed renumbering, a cap of 1; 250 thousand states |
| CancelOverwritten | finding 1 | 1 execution, 1 process, no faults |
| UnredactedStored | finding 2 | 1 execution, 1 process, a failing redactor |
| SharedWorkerId | finding 3 | 1 execution, 2 processes of one container |
| EventLogVanishes | finding 4 | an empty log, 1 event, 1 answer |
| ConsoleSafety | the properties of all nine parts of the console and the SDKs | below; 630 thousand states |
| GhostRoom | finding 5 | 2 tabs, 2 rooms, no change of the canvas |

Bounds: `MaxStops` (crashes and shutdowns together), `MaxEvents`,
`MaxFails` (outages). One stop is enough for safety because recovery forgets
nothing between two of them; the liveness run has two so that a recovery can
itself be interrupted. `Logged = 2` in the passing EventLog runs starts them
from a log with two rows: with fewer, the highest number may be 0 and finding 4
strikes. No answer is overtaken with one answer, so the properties are met there
without the exception; the theorems are about any number of them. Three events fill a buffer of two and leave one for after the flush.
Lifecycle runs switch off deadlock checking: when all
executions have settled and no stops are left, nothing is to be done. EventLog
has it on; `Over` is the one place to rest.

Symmetry is used for processes, writers, timers and answers in safety runs
only, never with liveness.

### ConsoleSafety

One run checks the nine parts. They do not interact (section 1), so the variable
`part` chooses the one that moves, and the others rest in an initial state: the
reachable states are those of nine runs side by side. A property of one part is
a property of the whole. The bounds of each:

| part | bounds | why they are enough |
| --- | --- | --- |
| execution page | two executions; six tabs (`SomeViews`): one cancels, one retries, one moves, one loses three requests, one moves while it polls, to an execution that is over, one has a log of four | each tab has what its behaviours need, so that cancels, navigation and broken streams do not multiply; a log of four is longer than the three events a tab keeps and the two a fetch gets (2000 and 200 in the code, in the same order); the fallback to polling needs three errors, and a poll answered on another page a move after them |
| list pages | two rows, two filters, two changes, two loads, one failure, all sixteen pages | a race is between two answers of two requests; a batch has two steps, of which one may fail |
| resource page | two resources, one the clone of the other; three scopes: two writes and a send, a failure, two sends | a lost update needs two writers, an overtaken save two sends, a delete under another URL two resources |
| SDK clients | two executions or crews, three props, two lost calls | a stale answer needs two props, and a third one that returns to the first |
| studio history | `MAX_HISTORY` 3, four documents | the oldest snapshot is dropped and the index moves over all of the history |
| studio | two crews; four users, each with a part of the operations, up to three requests at once, two runs | a user who runs needs no YAML, and so on; an overlap is of two requests, or of a save, a kickoff and a load |
| room | two tabs, rooms, nodes, one reconnection; moves, changes or breaks | a ghost needs two changes of room; two tabs already cross their changes |
| session | two people, three tokens, one upset | login, refresh and login of the other use three tokens |
| chat | three turns of two parts | a stopped turn, one that fails and the one after |

`MCConsole` states what the proofs assume of the constants (`RoomAssumption`,
`EditorAssumption`, `StudioAssumption`, `SessionAssumption`, `ListAssumption`,
`SdkAssumption`, `RestAssumption`, and `BoundsAssumption` for the types), and TLC
evaluates them.

### Fairness

*Console*: none. Browsers throttle timers of hidden tabs, users close them, and
networks may never answer. What would be liveness is stated at quiescence
instead: *when* nothing is in flight and no timer is set, the page shows the
outcome, the form is unlocked, a run was reported. Deadlock checking is off
there, because a user may do nothing more and the bounds run out.

*Lifecycle*: weak fairness of each run's next step, of a cancel that holds a
row (requests end), and of the start of a process that is down (the
orchestrator restarts it). Nothing forces a crew to be cancelled, rows to
age, or faults. A crew returns or raises in the end: that is an assumption
about CrewAI, which has an iteration cap; without it `Settles` is only about the
runs that do. `audit_fails` is not in that run: a cancel that drops a queued
future and then rolls back leaves a QUEUED row which nobody runs until a
restart, and `Settles` fails. It is listed as a hazard.

*EventLog*: weak fairness of each thread that has work (the operating system
schedules threads, timers fire, database calls return), of requests, of the
closing sequence and of the stream. None for the crew: it may emit no more and
never return, and what it has emitted is still logged.

## 4. Findings

1. **A run overwrites CANCELLED.** `models/execution.py:58` calls terminal
   states immutable, and comments at `executor.py:1142` and `:1181` expect the
   re-locked row to show a cancel. It shows the first load, and the outcome of
   the run replaces CANCELLED. The same staleness lets a crew start after a
   cancel, or a cancel during key creation go unseen.
2. **Unredacted outputs stored.** The redactor raises "to prevent unredacted
   PII" (`pii.py:344`), but after COMPLETED and the raw outputs were assigned;
   the key cleanup of the `finally` block commits them.
3. **Recovery fails a sibling's work.** Workers of one container share the
   host name as `WORKER_ID`; one that starts fails what the others run, which
   `executor.py:1916` and `src/CHANGELOG.md:51` exclude for replicas.
4. **Renumbering to zero.** `(max or -1) + 1` is 0 when the maximum is 0
   (`execution_listener.py:733`), so a batch that collides with a log of one
   row collides for ever and is given up at the end.

5. **A ghost in the room.** `hooks/useCollaboration.ts:93-96` guards "against
   zombie reconnects" that leak "a ghost connection to the old room". The guard
   stops the reconnect, but `onclose` (`:119`) sets `wsRef.current = null`
   whichever socket the reference holds by then. If the socket of room A closes
   after the one of room B was made, the cleanup of B finds null, closes
   nothing, and the tab stays a member of B while it edits C: it goes on
   applying B's changes to C's canvas.

### Behaviours the properties make room for

Several properties hold with an exception that names a state the code really
reaches. They are behaviours a maintainer should know of; none contradicts a
statement of the repository.

*Session.* `UserOfToken` excepts `overlap`: a call of `fetchMe` in flight
across a logout and a login shows, and caches, the earlier user; a refresh
answered after a logout signs in again; a 401 of a page logs out although
`fetchMe` would refresh. Another tab's login goes unnoticed until a reload.

*Lifecycle.* `KeysAccounted` does not follow from the recovery alone. It reads
the dead executions twice, once for their keys (`executor.py:1816`) and again, in
a session of its own, for their rows (`:1935`), and a row that is only in the
second answer is failed without its key being returned. One gets there between
the two if a sibling with the same `WORKER_ID` records a key and dies, or if a
dead run's row passes the two-hour cutoff just then. With recognisable workers,
or without these two, every key has a holder or a process that still has to
visit it, which is what is proved (`NoLateRow`, section 5).

*Event log.* `NothingSkipped` and `StreamComplete` except what is `Overtaken`.
The listener's counter may be beyond the next number of the log: events were
dropped on overflow, a renumbering failed, or events were buffered across two
collisions in a row. A request or answer then takes a number the counter has
passed; if the listener's batch commits between its insert and its commit,
a stream reads past it, and `after_sequence` never returns to it. The comment
on `_io_lock` (`execution_listener.py:557`) promises the order of batches, and
for events it holds: an event is never passed over.

*Execution page.* `ShowsOutcome` excepts a refused stream: an HTTP error is one
`onerror`, and polling waits for three. It also excepts `strayed`: a page that
polls, left for another one, whose last poll is answered when the other
execution is already on display. `pollExecution` (`executionStore.ts:108`)
compares no ids and has no token like `fetchExecution` (`:44`), so the
execution that was left replaces it; if both are over, no stream, poll or fetch
brings the other back. The proof found this: one tab had moves, and
another had the three errors polling needs. `LogInOrder` speaks of numbers only: a
late answer appends events of the execution the user left, and then hides
lower numbers of the new one. `FinalLog` is about the first page of a tab,
because `terminalFetchedRef` is spent by navigation, and about completed
executions, because a crew may emit after a cancel. It promises the whole log
only to 200 events: the stream is closed when the status says that the execution
is over, with what it still had to deliver, and the last fetch gets 200. The
status may go back for a moment to what a cached answer said.

*List pages.* `ListOfQuery` excepts `crossed` (no page compares the filter of
an answer with its own), `AnnouncedOnce` counts once more for each answer out
of order, `ReadYourWrites` excepts two changes of one row answered out of
order, or a list in flight when the change was made.

*Resource page.* `NoLostUpdate` excepts a row deleted and created again: its
versions start at 1, and no client compares ids. `ActsOnWhatIsShown` excepts
`overlapped`: the late answer for A shows A under the URL of B, the dialog names
A (`ResourceDetail.tsx:1065`) and the handler deletes B (`:620`). Ctrl+S saves
again while a save is in flight.

*SDK.* The runner that leaves a run between two polls never calls `onComplete`
for it, and with a poll in flight it does: `RunIsReported` is about runs on
display. A lost kickoff answer leaves a run nobody follows. One lost poll ends
`wait`.

*Studio.* `IsUndoStack` excepts an unrecorded change after an undo (a drag in
the middle of the history), which redo loses. `RunsWhatWasSaved` excepts
overlapping saves; `ResultsOfLastRun` a poll in flight when the next run began
(`pollCancelledRef` is one for all) and a layout in flight. No property is about
`dirty`: selecting a node makes the canvas clean (`studioStore.ts:116`), edits
made during a save are marked clean with it (`Studio.tsx:530`), and a load in
flight overwrites them. The settings are read in the second phase of a save, the
graph at the click.

*Room.* `TabsConverge` excepts tabs that left or were away (nothing is sent
again to those who join), and places, when two changes crossed. The socket of
presence reconnects to the room it left, because its guard is one for all effects
of the tab; so `NoGhost` is about collaboration.

*Chat.* `TurnsSettle` excepts a body that ends without `done` (the cursor stays)
and what came after the last frame before Stop.

*Not modelled, seen while reading.* The sign-in with OIDC loses its tokens: the
redirect carries them in the hash (`oidc.py:241`), `AuthGuard` (`App.tsx:43`)
navigates to the login page without it, and `App.tsx:96` strips it before
`Login.tsx:42` looks.

## 5. Proofs

`ExecutionLifecycleProofs` proves, for any sets of executions and processes,
pool size, faults and number of stops, from `LifecycleAssumption` alone:

| theorem | states |
| --- | --- |
| `TypeCorrect` | `[]TypeOK` |
| `TasksAreSettled` | `[]TasksSettled` |
| `QueuedCancelStays` | `QueuedCancelIsFinal` |
| `LifecycleKeepsPromise` | `KeepsPromise`, the refinement of `ExecutionStatus` |

and, from `Recognisable` (worker ids are distinct and no run outlasts the
cutoff, the deployment that the documentation describes):

| theorem | states |
| --- | --- |
| `RecoverySpares` | `RecoverySparesHealthy` |
| `BudgetIsEnforced` | `[]BudgetEnforced` |
| `RecognisedKeysAreAccounted` | `[]KeysAccounted`, if rows do not pass the cutoff meanwhile either |

These say what would be enough where the code as it is falls short (findings 1
and 2, and the keys of section 4):

| theorem | states |
| --- | --- |
| `RereadStopsCrews` | `NoCrewAfterCancel`, if the row lock re-reads the row (`RelockRefreshes`) |
| `RereadKeepsCancels` | `CancelIsFinal`, under the same condition |
| `KeysAreAccounted` | `[]KeysAccounted`, of the behaviours in which every step satisfies `NoLateRow` |
| `RedactorAloneLeaks` | `[]StoredRedacted`, if the redactor never raises |

`TypeOK` and, with it, `TasksSettled` are inductive: what makes the second one
hold in a step of a run that goes on is the table's CHECK, which lets a failed
task keep no other status. The others need strengthenings, each with a meaning
of its own:

- `StatusInv` (`RowInv` of every execution) ties the place of a run to the
  status of its row: absent before submission, never queued again once the run
  has begun, and locked in a known status while a cancel or an outcome is
  uncommitted. With it a step of a run whose view is stale is an edge
  of the promise or displaces CANCELLED. It is inductive with `TypeOK`.
- `StartedInv`: a run past its head has `started_at` set. So an execution
  cancelled unstarted has no run past the head, and the check at the head sees
  the row as it is.
- `HomeInv`: the process of a live run is up or draining, and its row has not
  passed the cutoff. With distinct ids a process that starts then recognises
  only rows of dead runs.
- `KeyInv`: a run with a budget holds its key, and the key exists, from its
  creation to the end of the crew. Nobody else deletes it, by `HomeInv`.
- `HolderInv`: a run has no key before its set-up, and one that clears its key
  or has been told that it has none has given it up: the proxy lost or deleted
  it. `RecoveryInv`: a process that has looked for the keys of the rows it
  will fail has given up all those still in their column. `KeysAccounted` is
  inductive with these, but for `NoLateRow`; TLC gave the two ways in which it
  is not (section 4), and with `Recognisable` only the cutoff remains.
- `RedactInv`: raw outputs of a redacted execution are in no row and no session.

Each is proved to hold initially and to survive each action, one step per
action; the theorems follow by PTL.

`EventLogProofs` proves, for any threads, timers, requests, buffer, cap and
number of outages, and an initial log of any length, from `EventLogAssumption` alone:

| theorem | states |
| --- | --- |
| `TypeCorrect` | `[]TypeOK`, and with it that `_io_lock` has one holder |
| `NothingIsSkipped` | `[]NothingSkipped` |
| `WrittenInOrder` | `[]WriteOrder` |
| `StreamsComplete` | `[]StreamComplete` |

They share one inductive invariant, `IInv`, checked by TLC before it was proved:

- `NumberInv`: a number that is yet to be written, by the listener or (unless
  it is in `passed`) by a request, is `Safe`: in the log, or beyond all of it. A
  batch that does not collide is thus beyond the whole log when it commits
  (`BatchIsBeyond`), which is why a stream cannot have passed it.
- `QueueInv`: batch and buffer rise in ids and numbers, and the batch comes
  before the buffer in ids. In numbers that is so but between a collision, when
  `Renumber` moves the batch beyond the buffer, and `Requeue`, which renumbers
  the buffer as well.
- `OrderInv`: every event is in the log, dropped, or queued, and what is in the
  log precedes what is queued. `WriteOrder` follows.
- `AppenderInv`: a request's number is one beyond a row of the log, or 0, so
  that a batch that leaves it out records it in `passed`; two never hold one.
- `StreamInv`: the stream's place is a row's number, and it saw the end only
  after the outcome. A poll yields the lowest rows beyond its place
  (`BatchProps`), so it leaves none below the new one.

About the console, each from no assumption but the one named:

| theorem | states | assumption |
| --- | --- | --- |
| `NoUpdateIsLost` | `[]NoLostUpdate` | `CopiesNamed` |
| `SavesWhereItBelongs` | `[]SavedWhereItBelongs` | `CopiesNamed` |
| `ActionsAreOnWhatIsShown` | `[]ActsOnWhatIsShown` | `CopiesNamed` |
| `EditorTypeCorrect` | `[]EditorTypeOK` | `CopiesNamed`, `EditorBounds` |
| `NoGhostInTimeHolds` | `[]NoGhostInTime` | `NoneIsNone` |
| `TabsAgree` | `[]TabsConverge` | `NoneIsNone` |
| `RoomTypeCorrect` | `[]RoomTypeOK` | `NoneIsNone`, `RoomBounds` |
| `HistoryTypeCorrect` | `[]HistoryTypeOK` | `HistoryAssumption` |
| `StoreIsUndoStack` | `IsUndoStack`, the refinement of `UndoStack` | `HistoryAssumption` |
| `StudioTypeCorrect` | `[]StudioTypeOK` | `StudioAssumption` |
| `NothingStaysLocked` | `[]LockedOnlyWhileBusy` | `StudioAssumption` |
| `RunsAreOfTheClick` | `[]RunsWhatWasSaved` | `StudioAssumption` |
| `ResultsAreOfTheRun` | `ResultsOfLastRun` | `StudioAssumption` |

`CopiesNamed` says that a clone has a name of the model or none; `NoneIsNone`
and `StudioAssumption` that null is nothing of the model (no number, room, crew,
request or result); `HistoryAssumption` that the history keeps at least one
document and that the bound on documents is a number; `RoomBounds` and
`EditorBounds` that what is counted is bounded by numbers. All are evaluated by TLC
as assumptions of `MCConsole`.

- `ResourceEditorProofs`: the inductive invariant is `Known`, that every row
  anybody holds (the page, a GET, the cache, a mutation) is `Seen`: one the
  server held, so that the row it holds now is of another birth, or has a later
  version, or is the same. A write keeps this for all rows at once
  (`WriteKeeps`), whoever made it; then an accepted save, whose version equals
  the row's, has its body. `Here` adds that everything in flight is for the URL
  until the URL changes under it, which gives the third theorem.
- `StudioRoomProofs`: until a late close, a socket that is not closing is the
  one its tab refers to, made by its present effect for its present room
  (`Followed`), and a timer waits only where there is no such socket
  (`Waiting`). Numbers of sockets are needed because a tab refers to its socket
  by identity. `TabsAgree` is of any number of tabs that stay (`ConvergeInv`):
  each has the one socket it refers to, so a change goes to every other tab
  (`BroadcastReaches`). Of a node made so far, every tab `Lives` or every tab is
  `Gone`: with what is on its way to it, it will have the node (it has it and
  only moves come, or the addition comes before all else), or it will not (a
  deletion comes, after any addition). A deletion turns the first into the
  second for all tabs at once, no move turns it back, and a deleted node is
  never added again. Until changes mingle there is one canvas that every tab
  has or is one message away from (`PlacesInv`).
- `StudioHistoryProofs`: the refinement mapping reads the undo stack off the
  store: what undo would bring back is the history up to the index (`Before`)
  without repetitions (`Behind`), what redo would is the rest (`After`, `Ahead`).
  The invariant says of the index that it is one of the history, which fits its
  cap (`WellFormed`) and, while every change is recorded, that the document on
  display is the one at the index but at the end of the history (`Exact`). A step of the store is then the step
  of the stack with the same name: `SameStep`, `EditStep`, `AmendStep` (a
  keystroke merged into the last entry), `UndoStep`, `RedoStep`; when the history
  is full its cut forgets the oldest document, as `UndoStack` allows. What the
  mapping makes of one document more is a lemma about `Dedup`, a recursive
  function; it is proved for all documents by induction over sets (below).
- `StudioEditorProofs`: `StudioInv` has five parts. `LockInv`: a status that
  locks has a request of the open page behind it that will release it. `SaveInv`:
  what the server holds of a crew is what the last save of it put there, and a
  kickoff that waits goes with the graph its click saw, until saves overlap.
  `PollInv`: one effect polls, for the execution followed, and what is in flight
  for another is marked. `CountInv`: flights out and flights started agree.

`ConsoleProofs` composes: a step of the console is a step of a part or leaves
its variables alone, so that its behaviours are behaviours of each part's own
specification, in which a resting part never moves. By it all of these hold of
the `Spec` of `MCConsole`, which the run checks.
`RestAssumption` says that a part that rests has a state to rest in.

Five more parts are proved in `MCConsole` itself, the page of an execution in
`ConsolePageProofs`, the others in `ConsoleProofs`:

| theorem | states | assumption |
| --- | --- | --- |
| `ConsoleUserOfToken` | `[]UserOfToken` | `SessionAssumption` |
| `ConsoleRunIsReported`, `ConsoleShowsItsProp` | `[]RunIsReported`, `[]ShowsItsProp` | `SdkAssumption` |
| `ConsoleListOfQuery` | `[]ListOfQuery` | `ListAssumption` |
| `ConsoleReadYourWrites` | `[]ReadYourWrites` | `ListAssumption` |
| `ConsoleAnnouncedOnce` | `[]AnnouncedOnce` | `ListAssumption` |
| `ConsoleTurnsSettle` | `[]TurnsSettle` | none |
| `ConsoleShowsOutcome` | `[]ShowsOutcome` | `PageAssumption` |
| `ConsoleLogInOrder` | `[]LogInOrder` | `PageAssumption` |
| `ConsoleFinalLog` | `[]FinalLog` | `PageAssumption` |
| `ConsoleTypeCorrect` | `[]ConsoleTypeOK`, of all nine parts | all of these, and `BoundsAssumption` |

The assumptions say that null is nobody, no run, no list, no request and no
stream, and `PageAssumption` also that a tab starts with rows a server may hold
and that the two limits on events are positive (`MAX_EVENTS` is 2000 and `EVENTS_FETCH_LIMIT` 200).

- Session: `CallsKeyed`, every call of `fetchMe` is of a token whose effect
  ran, one for each; `OneUser`, until the session changes under a call, what
  knows a user (the store, the cache, the shared GET, the refreshes) knows the
  token's.
- SDK: `PolledOnce`, an execution has one chain of polls, and one that is not
  over is not reported; `ActiveForProp`, a call whose `active` flag is up is for
  the prop of now.
- Lists: `WritesInv` follows a list from the server's answer to the display.
  None on the way (cached, or in flight) is older than a change its user was
  told of, or of one that met none on the way (`ComingFresh`), because every
  mutation drops the cached lists before it is sent (`ChangesLater`). What a
  step shows is what was shown, or was on the way (`Came`, `ComesFromBefore`),
  so that one lemma (`WritesKept`) serves all actions but the answer to a
  mutation, where the page reloads or its store applies the answer; that one of
  the two happens is a fact about the sixteen pages (`PagesAre`). `EndsInv` has a
  witness: the moment at which each execution was over. A list tells of an end
  exactly from that moment on (`TellsOf`), so an end that disappears from the
  display proves that the list went back, which is what the notifications are
  counted against. The witness moves when an execution ends.
- Execution page: an end is final, so whoever says how an execution ended (the
  display, the cache, a GET in flight, a message of the stream, a cancel that was
  accepted) says it for good (`StoreTrue`, `StreamInv`, `MutationInv`).
  `StoreFollows`: of the page's execution there is the display, an error, or a
  GET that `fetchExecution` waits for; what is on display is of that execution
  unless a poll strayed. The log and the spend disturb none of it (`Core`), so
  their steps need one lemma. At rest no GET is left; if what is on display is
  not over, the page has a stream, and one that rests open has told the status.

- Log (`LogInv`): the numbers on display rise (`Ordered`), and what an open
  stream has queued counts up to what it has read (`QueueOf`). On the first page
  of a tab they have no gap (`Whole`) and no batch can begin beyond them: no
  request in flight asks for what follows an event that is not shown yet
  (`Covers`), and the event a stream delivers next is shown already or is the
  next one (`Due`, `Meets`). So `addEvents`, whatever it is given, makes of the
  log a longer one that rises and, there, has no gap (`IsGrown`); what its filter
  leaves of a batch is `NewerOfBatch`, by induction on the batch.
- End of the log (`FinalInv`): until a fault or a second page, the store is
  `Calm` (no error, nothing strayed), and once the page has rendered the end,
  `Fetched`: the spend shown is final or on its way, and of a completed
  execution the events are there, as many as the last fetch is given are there,
  or a request for the rest is in flight that was sent after the end
  (`IsLast`, `IsFinal`): its answer cannot miss anything, as a completed
  execution emits nothing more. Steps that leave the log keep this (`Keeps`);
  of those that add to it, `FinalGrows` says that no event of the end is lost
  to another batch that comes first.
- Types (`ConsoleTypeCorrect`): the bounds are as good as invariants, and need
  one each of what is counted. `Counted` (resource page): a row has as many
  versions as there were writes, and a clone in flight is a visit that may come.
  `SessionCounted`: tokens are numbered in the order they are issued, so none
  that is stored, sent or expired is beyond the last. `SdkCounted`: a widget has
  an effect for each prop it was given. `PageCounted`: the timers and the
  calls of a polling loop are two together, which is what keeps their sum in
  bounds when the calls that wait arm a timer each. `ChatCounted`: no part of an
  answer is shown before it came. `BoundsAssumption` says that the bounds are
  numbers, that the lists are finite and that a tab starts within its own.
- Chat: there is one handler at most, of the last turn, and it is the one that
  Stop aborts (`OneStream`); what it has accumulated is on display but for a
  pending frame (`UnderWay`).

The library's theorems of induction take an operator, which the prover cannot
instantiate. Where a proof needs one (`Dedup`, `Newer`), it takes the set of the
numbers, or sequences, of which the claim holds and shows that it is all of
them, by the theorem that a well-founded relation has a minimum in every set
(`NatSetInduction`, `SequenceSetInduction`).

Two definitions were made exact on the way: `Closed` and `Reloads` of `ListPages`
and `UndoOf` of `StudioHistory` had a `CASE` whose guards overlap, of which TLC
takes the first, but TLA+ leaves the choice open.

Only model-checked: the liveness properties (`Settles`, `KeysReclaimed`,
`EventuallyLogged`; ENABLED and fairness are beyond the prover);
and `FinalFlushEmpties` (it is about a database that answers, `fails = 0`, and a
log of two rows). The runs that find a
violation have no theorem for their property, but for the conditional ones above.

## 6. Plan

In this order; each module is written with its constants' assumptions and
without recursive operators, so that it can be proved about.

1. `HumanInput`: rounds, answers, timeout, cancel; abstract specification: a
   sequence of questions each answered at most once by an answer that was given
   to it. Uses the numbering that EventLog has checked.
2. `Collaboration`: rooms across replicas; every member of a room receives from
   other replicas, in the end. Composed with `StudioRoom`, which takes the room
   as one.
3. `ResourceStore` with its hooks, over the endpoints of `ResourceEditor`: two
   creations of one name (`resources/service.py:148`), pushes to LiteLLM in no
   order (`api/mutations.py:86`), cached webhooks (`execution_listener.py:277`).
4. `Scheduler`: replicas, claims, reloads; abstract specification: each firing
   triggers at most once.
5. `TemporalDispatch`, composed with `ExecutionStatus`.
6. Algorithms as operators with reference definitions: policies, routing with
   its cap, the sliding window of `rate_limiter.py:131`.

## 7. Not modelled

Of the backend, what the plan lists, and besides: prompts and their validation
(pure functions over documents), memory, spend and discovery (clients of other
services without state of their own), the process control of sandboxes.
Of the console: the guardrail playground, the marketplace, settings, onboarding,
the forms of the property panel, palettes, the layout shell, and formats; each
is a form over one request or a view of a prop. The Python SDK and the command
line make one request per call. `PROJECT.json` gives the reason for each.
