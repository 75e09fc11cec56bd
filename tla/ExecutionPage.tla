--------------------------- MODULE ExecutionPage ---------------------------
(***************************************************************************)
(* The page of one execution in the web console: the Zustand store it      *)
(* reads (stores/executionStore.ts), the GET cache and request sharing of  *)
(* the API client (api/client.ts), the effects of the page                 *)
(* (pages/ExecutionDetail.tsx) with its EventSource, and the polling loop  *)
(* it falls back to (hooks/usePolling.ts).  The server is the rows and the *)
(* event log the other modules describe, seen only through its answers.    *)
(*                                                                         *)
(* An answer may describe any moment between the request and its delivery: *)
(* a request in flight keeps what the server held when it was sent, and    *)
(* delivery chooses between that and what it holds now.                    *)
(***************************************************************************)
EXTENDS Integers, Sequences, SequencesExt, FiniteSets

CONSTANTS
    Execs,         \* ids of the executions a tab visits
    First,         \* the execution whose page is opened first
    None,          \* stands for null
    EventsLimit,   \* EVENTS_FETCH_LIMIT
    MaxEvents,     \* MAX_EVENTS, the events a tab keeps
    Views          \* the tabs checked: how a tab starts and its bounds (TabOf)

\* The bounds of a tab: what the server may hold at the start, events per execution, pages
\* opened, faults, and whether the user cancels and retries.
TabOf(rows, log, nvisits, nfaults, mutates) ==
    [rows |-> rows, log |-> log, visits |-> nvisits, faults |-> nfaults, mutates |-> mutates]

VARIABLES
    srv,      \* srv[x]: status of the row and number of events in its log
    route,    \* the id in the URL
    seen,     \* what the effects last ran with
    client,   \* the store, the cache and the requests in flight
    sse,      \* the EventSource of the page
    disc,     \* sseDisconnected
    poll,     \* the polling chain: timers armed and calls in flight
    ref,      \* terminalFetchedRef
    mut,      \* the cancel dialog, or the cancel or retry in flight
    visits, faults,
    tab       \* the bounds of this tab, fixed at the start

pageState == <<srv, route, seen, client, sse, disc, poll, ref, mut, visits, faults, tab>>

TERMINAL_STATUSES == {"completed", "cancelled"}
Statuses == {"absent", "running"} \union TERMINAL_STATUSES

\* An execution on display, a message of the stream, and an EventSource.
Statused == [id : Execs, st : Statuses]
Messages == [type : {"status"}, st : Statuses] \union [type : {"event"}, n : Nat]
Streams == [id : Execs, last : Statuses \union {None}, n : Nat, q : Seq(Messages),
            errs : 0..3, state : {"down", "open", "ended", "dead"}]

\* Null is none of them, and a tab starts with rows the server may hold.
PageAssumption ==
    /\ EventsLimit \in Nat \ {0} /\ MaxEvents \in Nat \ {0}
    /\ First \in Execs
    /\ None \notin Execs \union Statuses \union Statused \union Streams
    /\ \A v \in Views : v.rows \subseteq [Execs -> [st : Statuses, n : Nat]]

\* The bounds of a tab are numbers, and its logs start within them.
PageBounds ==
    \A v \in Views :
      /\ v.log \in Nat /\ v.visits \in Nat \ {0} /\ v.faults \in Nat
      /\ v.rows \subseteq [Execs -> [st : Statuses, n : 0..v.log]]

(***************************************************************************)
(* The store and the API client, as functions of the record client:        *)
(*   cur      currentExecution, an id and a status                         *)
(*   strayed  a poll of an execution that was left put it on display       *)
(*   error    the page shows the error view                                *)
(*   fetchOn  the GET the newest fetchExecution waits for; an older one    *)
(*            finds its token outdated and does nothing                    *)
(*   events   the log shown, the execution of each event with its sequence *)
(*   spend    spendData: the execution and whether it was over             *)
(*   cache    getCache of the paths /executions/x                          *)
(*   gets     inflightGets of those paths, the status when it was sent     *)
(*   polls    the GETs a call of the polling loop waits for                *)
(*   evs      GETs of /executions/x/events?after=n                         *)
(*   spends   GETs of /executions/x/spend                                  *)
(***************************************************************************)
IsTerminal(c) == c.cur # None /\ c.cur.st \in TERMINAL_STATUSES
IsActive(c) == c.cur # None /\ c.cur.st \notin TERMINAL_STATUSES

LastSeq(events) == IF events = <<>> THEN -1 ELSE Last(events).n

\* What of a batch of events is newer than the event n.
Newer(new, n) ==
    LET upto[i \in 0..Len(new)] ==
            IF i = 0 THEN <<>>
            ELSE IF new[i].n > n THEN Append(upto[i - 1], new[i]) ELSE upto[i - 1]
    IN  upto[Len(new)]

\* Mutant: the last event shown counts as new.
AddEvents_NotNewer(c, new) == [c EXCEPT !.events = @ \o Newer(new, LastSeq(c.events) - 1)]

\* Mutant: the log shown is not cut.
AddEvents_Uncut(c, new) == [c EXCEPT !.events = @ \o Newer(new, LastSeq(c.events))]

\* addEvents: what is not newer than the last event shown is dropped.
AddEvents(c, new) ==
    LET combined == c.events \o Newer(new, LastSeq(c.events))
    IN  [c EXCEPT !.events =
            SubSeq(combined, IF Len(combined) > MaxEvents
                             THEN Len(combined) - MaxEvents + 1 ELSE 1, Len(combined))]

\* get(): a request for the same path is shared, even by a caller that skips
\* the cache.
Get(c, x) == IF c.gets[x] = None THEN [c EXCEPT !.gets[x] = srv[x].st] ELSE c

\* Mutant: the answer is applied without the comparison of tokens, that is,
\* an older call still waits after a newer one for another execution.
FetchExecution_FirstWins(c, x) ==
    LET d == [c EXCEPT !.cur = IF @ # None /\ @.id = x THEN @ ELSE None]
    IN  IF c.fetchOn # None THEN Get(d, x) ELSE [Get(d, x) EXCEPT !.fetchOn = x]

\* fetchExecution: another execution on display is cleared first; a cached
\* answer is applied at once.
FetchExecution(c, x) ==
    LET same == c.cur # None /\ c.cur.id = x
        d == [c EXCEPT !.error = FALSE, !.strayed = FALSE,
                       !.cur = IF same THEN @ ELSE None,
                       !.spend = IF same THEN @ ELSE None]
    IN  IF c.cache[x] # None
        THEN [d EXCEPT !.cur = [id |-> x, st |-> c.cache[x]], !.fetchOn = None]
        ELSE [Get(d, x) EXCEPT !.fetchOn = x]

\* Mutant: an empty log asks for what follows event 0.
FetchEvents_AfterZero(c, x) ==
    LET after == IF c.events = <<>> THEN 0 ELSE LastSeq(c.events)
    IN  [c EXCEPT !.evs = @ \union {[id |-> x, after |-> after, sent |-> srv[x].n]}]

\* fetchEvents: asks for what follows the last event shown when it is called.
FetchEvents(c, x) ==
    LET after == LastSeq(c.events)
    IN  IF \E g \in c.evs : g.id = x /\ g.after = after THEN c
        ELSE [c EXCEPT !.evs = @ \union {[id |-> x, after |-> after, sent |-> srv[x].n]}]

FetchSpend(c, x) ==
    IF \E g \in c.spends : g.id = x THEN c
    ELSE [c EXCEPT !.spends = @ \union {[id |-> x, over |-> srv[x].st \in TERMINAL_STATUSES]}]

PollExecution(c, x) == [Get(c, x) EXCEPT !.polls = @ \union {x}]

\* A mutation drops the cached answers of its collection before it is sent.
InvalidateForMutation(c) == [c EXCEPT !.cache = [x \in Execs |-> None]]

ClearEvents(c) == [c EXCEPT !.events = <<>>]

\* The answer of GET /executions/x, for the fetch and the poll that wait: a
\* poll puts it on display whichever execution the page is of by then.
Resolve(c, x, st) ==
    [c EXCEPT !.gets[x] = None,
              !.cache[x] = st,
              !.cur = IF c.fetchOn = x \/ x \in c.polls THEN [id |-> x, st |-> st] ELSE @,
              !.strayed = IF x \in c.polls THEN x # seen.id ELSE @,
              !.fetchOn = IF @ = x THEN None ELSE @,
              !.polls = @ \ {x}]

Reject(c, x) ==
    [c EXCEPT !.gets[x] = None,
              !.error = IF c.fetchOn = x THEN TRUE ELSE @,
              !.fetchOn = IF @ = x THEN None ELSE @,
              !.polls = @ \ {x}]

PageInitOf(views) ==
    /\ tab \in views
    /\ srv \in tab.rows
    /\ srv[First].st # "absent"
    /\ route = First
    /\ seen = [id |-> None, active |-> FALSE, terminal |-> FALSE, polling |-> FALSE]
    /\ client = [cur |-> None, strayed |-> FALSE, error |-> FALSE, fetchOn |-> None,
                 events |-> <<>>, spend |-> None, cache |-> [x \in Execs |-> None],
                 gets |-> [x \in Execs |-> None], polls |-> {}, evs |-> {}, spends |-> {}]
    /\ sse = None
    /\ disc = FALSE
    /\ poll = [timers |-> 0, calls |-> 0]
    /\ ref = None
    /\ mut = None
    /\ visits = 1
    /\ faults = 0

(***************************************************************************)
(* The server.                                                             *)
(***************************************************************************)
serverVars == <<srv, route, visits, tab>>
pageVars == <<seen, client, sse, disc, poll, ref, mut, faults, tab>>

\* A crew emits; it may still do so for a while after a cancel.
ServerEmit(x) ==
    /\ srv[x].st \in {"running", "cancelled"} /\ srv[x].n < tab.log
    /\ srv' = [srv EXCEPT ![x].n = @ + 1]
    /\ UNCHANGED <<route, visits, pageVars>>

ServerFinish(x) ==
    /\ srv[x].st = "running"
    /\ srv' = [srv EXCEPT ![x].st = "completed"]
    /\ UNCHANGED <<route, visits, pageVars>>

(***************************************************************************)
(* The page.  A change of the URL or of the store is rendered and its      *)
(* effects run some time later, with what was rendered.                    *)
(***************************************************************************)
Rendered == [id |-> route, active |-> IsActive(client), terminal |-> IsTerminal(client),
             polling |-> IsActive(client) /\ disc]

NewStream(x) == [id |-> x, last |-> None, n |-> 0, q |-> <<>>, errs |-> 0,
                 state |-> "down"]

\* The effects of the page, cleanups first and then in the order of the file:
\* the stream is closed and the events since the last one are asked for;
\* a new id clears the events and fetches; an active execution opens a
\* stream; a terminal one is fetched for the last time, once per id.
Commit ==
    LET idNew == route # seen.id
        streamNew == idNew \/ Rendered.active # seen.active
        final == /\ idNew \/ Rendered.terminal # seen.terminal
                 /\ Rendered.terminal /\ ref # route
        c1 == IF streamNew /\ sse # None THEN FetchEvents(client, sse.id) ELSE client
        c2 == IF idNew THEN FetchExecution(ClearEvents(c1), route) ELSE c1
        c3 == IF final THEN FetchSpend(FetchEvents(FetchExecution(c2, route), route), route)
                       ELSE c2
    IN  /\ Rendered # seen
        /\ seen' = Rendered
        /\ client' = c3
        /\ sse' = IF ~streamNew THEN sse ELSE IF Rendered.active THEN NewStream(route) ELSE None
        /\ disc' = (disc /\ ~(streamNew /\ Rendered.active))
        /\ ref' = IF final THEN route ELSE ref
        /\ poll' = IF Rendered.polling = seen.polling THEN poll
                   ELSE [timers |-> IF Rendered.polling THEN 1 ELSE 0, calls |-> 0]
        /\ UNCHANGED <<serverVars, mut, faults>>

\* Another execution is opened in the same tab, or the first one again.
Navigate(x) ==
    /\ x # route /\ srv[x].st # "absent" /\ visits < tab.visits
    /\ route' = x
    /\ visits' = visits + 1
    /\ UNCHANGED <<srv, pageVars>>

\* Cancel Execution opens a dialog; nothing but the user closes it.
AskCancel ==
    /\ tab.mutates /\ mut = None /\ IsActive(client) /\ ~client.error
    /\ mut' = [op |-> "asking", id |-> route, ok |-> FALSE]
    /\ UNCHANGED <<serverVars, seen, client, sse, disc, poll, ref, faults>>

DismissCancel ==
    /\ mut # None /\ mut.op = "asking"
    /\ mut' = None
    /\ UNCHANGED <<serverVars, seen, client, sse, disc, poll, ref, faults>>

\* cancelExecution(id), with the id of the page at that time; handleRetry is
\* offered for a terminal execution only.
SendMutation(op) ==
    /\ \/ op = "cancel" /\ mut # None /\ mut.op = "asking"
       \/ op = "retry" /\ tab.mutates /\ mut = None /\ IsTerminal(client) /\ ~client.error
    /\ mut' = [op |-> op, id |-> seen.id, ok |-> FALSE]
    /\ client' = InvalidateForMutation(client)
    /\ UNCHANGED <<serverVars, seen, sse, disc, poll, ref, faults>>

\* The server carries it out: a cancel of a running execution, or a new
\* execution for a retry.
ServerCancel ==
    /\ mut # None /\ mut.op = "cancel" /\ ~mut.ok /\ srv[mut.id].st = "running"
    /\ srv' = [srv EXCEPT ![mut.id].st = "cancelled"]
    /\ mut' = [mut EXCEPT !.ok = TRUE]
    /\ UNCHANGED <<route, visits, tab, seen, client, sse, disc, poll, ref, faults>>

ServerRetry(x) ==
    /\ mut # None /\ mut.op = "retry" /\ ~mut.ok /\ srv[x].st = "absent"
    /\ srv' = [srv EXCEPT ![x].st = "running"]
    /\ mut' = [op |-> "retry", id |-> x, ok |-> TRUE]
    /\ UNCHANGED <<route, visits, tab, seen, client, sse, disc, poll, ref, faults>>

AnswerCancel ==
    /\ mut # None /\ mut.op = "cancel" /\ mut.ok
    /\ client' = [client EXCEPT !.cur = IF @ # None /\ @.id = mut.id
                                        THEN [id |-> mut.id, st |-> "cancelled"] ELSE @]
    /\ mut' = None
    /\ UNCHANGED <<serverVars, seen, sse, disc, poll, ref, faults>>

\* The answer of a retry navigates, wherever the page is by then.
AnswerRetry ==
    /\ mut # None /\ mut.op = "retry" /\ mut.ok /\ visits < tab.visits
    /\ route' = mut.id
    /\ visits' = visits + 1
    /\ mut' = None
    /\ UNCHANGED <<srv, tab, seen, client, sse, disc, poll, ref, faults>>

\* An error answer (the execution is over, or has none to retry) or none:
\* the page shows a message.
MutationFails ==
    /\ mut # None /\ mut.op \in {"cancel", "retry"}
    /\ ~mut.ok \/ visits = tab.visits
    /\ mut' = None
    /\ UNCHANGED <<serverVars, seen, client, sse, disc, poll, ref, faults>>

\* The error view offers to load again.
Reload ==
    /\ client.error \/ client.cur = None
    /\ client.fetchOn = None
    /\ seen.id = route
    /\ client' = FetchExecution(client, route)
    /\ UNCHANGED <<serverVars, seen, sse, disc, poll, ref, mut, faults>>

(***************************************************************************)
(* Answers.                                                                *)
(***************************************************************************)
\* The calls of the polling loop that waited arm a timer each.
Rearm(x) == IF x = seen.id
            THEN [timers |-> poll.timers + poll.calls, calls |-> 0] ELSE poll

AnswerExecution(x) ==
    /\ client.gets[x] # None
    /\ \E st \in {client.gets[x], srv[x].st} : client' = Resolve(client, x, st)
    /\ poll' = Rearm(x)
    /\ UNCHANGED <<serverVars, seen, sse, disc, ref, mut, faults>>

FailExecution(x) ==
    /\ client.gets[x] # None /\ faults < tab.faults
    /\ client' = Reject(client, x)
    /\ poll' = Rearm(x)
    /\ faults' = faults + 1
    /\ UNCHANGED <<serverVars, seen, sse, disc, ref, mut>>

Batch(x, after, upto) ==
    [i \in 1..(IF upto - after - 1 > EventsLimit THEN EventsLimit ELSE upto - after - 1) |->
        [id |-> x, n |-> after + i]]

AnswerEvents(g) ==
    /\ g \in client.evs
    /\ \E upto \in g.sent..srv[g.id].n :
         client' = AddEvents([client EXCEPT !.evs = @ \ {g}],
                             IF upto > g.after + 1 THEN Batch(g.id, g.after, upto) ELSE <<>>)
    /\ UNCHANGED <<serverVars, seen, sse, disc, poll, ref, mut, faults>>

FailEvents(g) ==
    /\ g \in client.evs /\ faults < tab.faults
    /\ client' = [client EXCEPT !.evs = @ \ {g}]
    /\ faults' = faults + 1
    /\ UNCHANGED <<serverVars, seen, sse, disc, poll, ref, mut>>

\* The spend is set whichever execution is on display by then.
AnswerSpend(g) ==
    /\ g \in client.spends
    /\ \E over \in {g.over, srv[g.id].st \in TERMINAL_STATUSES} :
         client' = [client EXCEPT !.spends = @ \ {g}, !.spend = [id |-> g.id, over |-> over]]
    /\ UNCHANGED <<serverVars, seen, sse, disc, poll, ref, mut, faults>>

FailSpend(g) ==
    /\ g \in client.spends /\ faults < tab.faults
    /\ client' = [client EXCEPT !.spends = @ \ {g}]
    /\ faults' = faults + 1
    /\ UNCHANGED <<serverVars, seen, sse, disc, poll, ref, mut>>

\* Five seconds pass: the entry is too old to be used.
CacheExpires(x) ==
    /\ client.cache[x] # None
    /\ client' = [client EXCEPT !.cache[x] = None]
    /\ UNCHANGED <<serverVars, seen, sse, disc, poll, ref, mut, faults>>

(***************************************************************************)
(* The EventSource.  The browser reconnects after a broken connection and  *)
(* after the end of the stream, and gives up on an HTTP error.             *)
(***************************************************************************)
sseOthers == <<serverVars, seen, poll, ref, mut>>

\* onopen; the server starts from the first event again.
StreamOpens ==
    /\ sse # None /\ sse.state = "down"
    /\ sse' = [NewStream(sse.id) EXCEPT !.state = "open"]
    /\ disc' = FALSE
    /\ UNCHANGED <<sseOthers, client, faults>>

\* A round of the server: the status if it is the first or a new or a final
\* one, and the events it has not sent.
StreamSends ==
    /\ sse # None /\ sse.state = "open" /\ sse.q = <<>>
    /\ LET row == srv[sse.id]
           status == IF row.st # sse.last \/ row.st \in TERMINAL_STATUSES
                     THEN <<[type |-> "status", st |-> row.st]>> ELSE <<>>
           events == [i \in 1..(row.n - sse.n) |->
                        [type |-> "event", n |-> sse.n + i - 1]]
       IN  /\ status \o events # <<>>
           /\ sse' = [sse EXCEPT !.q = status \o events, !.last = row.st, !.n = row.n,
                                 !.state = IF row.st \in TERMINAL_STATUSES THEN "ended" ELSE @]
    /\ UNCHANGED <<sseOthers, client, disc, faults>>

\* The status handler puts the execution of the stream on display, and
\* fetches for the last time when it is over.
OnStatus(c, x, st) ==
    LET d == [c EXCEPT !.cur = [id |-> x, st |-> st], !.strayed = FALSE]
    IN  IF st \in TERMINAL_STATUSES THEN FetchEvents(FetchExecution(d, x), x) ELSE d

StreamDelivers ==
    /\ sse # None /\ sse.q # <<>>
    /\ LET m == Head(sse.q)
       IN  client' = IF m.type = "status" THEN OnStatus(client, sse.id, m.st)
                     ELSE AddEvents(client, <<[id |-> sse.id, n |-> m.n]>>)
    /\ sse' = [sse EXCEPT !.q = Tail(@)]
    /\ UNCHANGED <<sseOthers, disc, faults>>

\* onerror: the stream ended, broke, or could not be opened again; the third
\* error in a row starts the polling.
OnError ==
    /\ sse' = [sse EXCEPT !.state = "down", !.q = <<>>, !.errs = IF @ < 3 THEN @ + 1 ELSE @]
    /\ disc' = (disc \/ sse.errs >= 2)

StreamEnds ==
    /\ sse # None /\ sse.state = "ended" /\ sse.q = <<>>
    /\ OnError
    /\ UNCHANGED <<sseOthers, client, faults>>

StreamBreaks ==
    /\ sse # None /\ sse.state \in {"down", "open"} /\ sse.errs < 3
    /\ faults < tab.faults /\ faults' = faults + 1
    /\ OnError
    /\ UNCHANGED <<sseOthers, client>>

\* An HTTP error ends the EventSource for good after one error.
StreamRefused ==
    /\ sse # None /\ sse.state = "down" /\ faults < tab.faults
    /\ sse' = [sse EXCEPT !.state = "dead"]
    /\ disc' = (disc \/ sse.errs >= 2)
    /\ faults' = faults + 1
    /\ UNCHANGED <<sseOthers, client>>

(***************************************************************************)
(* Polling (usePolling), for the execution every three seconds and for its *)
(* events every five.                                                      *)
(***************************************************************************)
MaxCalls == 2   \* bound: overlapping calls of one polling loop

Tick ==
    /\ seen.polling /\ poll.timers > 0 /\ poll.calls < MaxCalls
    /\ poll' = [timers |-> poll.timers - 1, calls |-> poll.calls + 1]
    /\ client' = PollExecution(client, seen.id)
    /\ UNCHANGED <<serverVars, seen, sse, disc, ref, mut, faults>>

\* The tab becomes visible: the timer set last is cleared and a call is made
\* at once, also while another is in flight.
OnVisible ==
    /\ seen.polling /\ poll.calls < MaxCalls
    /\ poll' = [timers |-> IF poll.timers > 0 THEN poll.timers - 1 ELSE 0,
                calls |-> poll.calls + 1]
    /\ client' = PollExecution(client, seen.id)
    /\ UNCHANGED <<serverVars, seen, sse, disc, ref, mut, faults>>

PollEvents ==
    /\ seen.polling
    /\ client' = FetchEvents(client, seen.id)
    /\ client' # client
    /\ UNCHANGED <<serverVars, seen, sse, disc, poll, ref, mut, faults>>

ServerNext ==
    \/ \E x \in Execs : ServerEmit(x) \/ ServerFinish(x) \/ ServerRetry(x)
    \/ ServerCancel

UserNext ==
    \/ \E x \in Execs : Navigate(x)
    \/ AskCancel \/ DismissCancel \/ Reload
    \/ \E op \in {"cancel", "retry"} : SendMutation(op)
    \/ OnVisible

NetworkNext ==
    \/ \E x \in Execs : AnswerExecution(x) \/ FailExecution(x) \/ CacheExpires(x)
    \/ \E g \in client.evs : AnswerEvents(g) \/ FailEvents(g)
    \/ \E g \in client.spends : AnswerSpend(g) \/ FailSpend(g)
    \/ AnswerCancel \/ AnswerRetry \/ MutationFails
    \/ StreamOpens \/ StreamSends \/ StreamDelivers \/ StreamEnds \/ StreamBreaks
    \/ StreamRefused

PageNext == ServerNext \/ UserNext \/ NetworkNext \/ Commit \/ Tick \/ PollEvents
PageInit == PageInitOf(Views)
PageSpec == PageInit /\ [][PageNext]_pageState

(***************************************************************************)
(* Properties.                                                             *)
(***************************************************************************)
PageTypeOK ==
    /\ srv \in [Execs -> [st : Statuses, n : 0..tab.log]]
    /\ route \in Execs /\ visits \in 1..tab.visits /\ faults \in 0..tab.faults
    /\ client.fetchOn \in Execs \union {None} /\ client.polls \subseteq Execs
    /\ Len(client.events) <= MaxEvents
    /\ poll.timers \in 0..MaxCalls /\ poll.calls \in 0..MaxCalls
    /\ ref \in Execs \union {None}
    /\ sse \in Streams \union {None}

\* The log shown is in the order of the events, each once, whatever the
\* stream, its reconnections, the polls and the last fetch bring at the same
\* time; on the first page a tab opens it has no gap (addEvents).
LogInOrder ==
    \A i \in DOMAIN client.events : i > 1 =>
      LET before == client.events[i - 1].n
      IN  client.events[i].n > before /\ (visits = 1 => client.events[i].n = before + 1)

(***************************************************************************)
(* The tab is at rest when all it waits for has come: what is left are     *)
(* steps of users, of crews, and faults.  React has run the effects, no    *)
(* request is in flight, no timer is set, the stream is closed, refused,   *)
(* or open with nothing to say.                                            *)
(***************************************************************************)
StreamAtRest ==
    \/ sse = None
    \/ sse.state = "dead" /\ sse.q = <<>>
    \/ /\ sse.state = "open" /\ sse.q = <<>>
       /\ srv[sse.id].st = sse.last /\ sse.last \notin TERMINAL_STATUSES
       /\ srv[sse.id].n = sse.n

AtRest ==
    /\ Rendered = seen /\ StreamAtRest
    /\ \A x \in Execs : client.gets[x] = None
    /\ client.evs = {} /\ client.spends = {}
    /\ poll.timers = 0 /\ poll.calls = 0
    /\ mut = None \/ mut.op = "asking"

Over == srv[route].st \in TERMINAL_STATUSES

\* A page at rest shows the end of an execution that is over, however the
\* user moved between executions and whatever was lost on the way: unless it
\* shows an error, or the server refused the stream (an HTTP error is one
\* onerror, and polling waits for the third), or a poll of the execution that
\* the user left was answered last (pollExecution does not compare ids).
ShowsOutcome ==
    AtRest /\ Over =>
      \/ client.cur = [id |-> route, st |-> srv[route].st]
      \/ client.error \/ client.strayed
      \/ sse # None /\ sse.state = "dead"

\* When nothing failed, the first page of a tab at rest shows the log of an
\* execution that completed, from its first event, or from as far back as it
\* keeps: all of it, or at least as many events as the last fetch is given;
\* and its final spend.
FinalLog ==
    AtRest /\ Over /\ visits = 1 /\ faults = 0 /\ srv[First].st = "completed"
      => LET upto == LastSeq(client.events) + 1
         IN  /\ upto = srv[First].n \/ upto >= EventsLimit
             /\ Len(client.events) = IF upto > MaxEvents THEN MaxEvents ELSE upto
             /\ client.spend = [id |-> First, over |-> TRUE]
=============================================================================
