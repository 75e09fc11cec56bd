-------------------------- MODULE ConsolePageProofs --------------------------
(***************************************************************************)
(* Proofs about the page of an execution, in the console that MCConsole    *)
(* checks: how the execution ended is on display when the page is at rest  *)
(* (first part), the log is in order (second part), and the end of the     *)
(* log is there when nothing failed (third part); and the types.           *)
(***************************************************************************)
EXTENDS MCConsole, SequenceTheorems, WellFoundedInduction, TLAPS

(***************************************************************************)
(* The page of an execution (ExecutionPage).                               *)
(***************************************************************************)
Requests == [Execs -> Page!Statuses \union {None}]

\* The store is a record; which events and spends it holds says nothing.
IsStore(c) ==
    c = [cur |-> c.cur, strayed |-> c.strayed, error |-> c.error, fetchOn |-> c.fetchOn,
         events |-> c.events, spend |-> c.spend, cache |-> c.cache, gets |-> c.gets,
         polls |-> c.polls, evs |-> c.evs, spends |-> c.spends]

StoreTyped(c) ==
    /\ c.cur \in Page!Statused \union {None} /\ c.strayed \in BOOLEAN /\ c.error \in BOOLEAN
    /\ c.fetchOn \in Execs \union {None} /\ c.polls \subseteq Execs
    /\ c.cache \in Requests /\ c.gets \in Requests

\* Who says that an execution is over says how it ended.
Tells(s, x) == s \in Page!TERMINAL_STATUSES => srv[x].st = s

\* So do the execution on display, the cached answers and those in flight.
StoreTrue(c) ==
    /\ c.cur # None => Tells(c.cur.st, c.cur.id)
    /\ \A x \in Execs : Tells(c.cache[x], x) /\ Tells(c.gets[x], x)

\* The page of x shows x unless a poll strayed, or it waits for x, or shows
\* an error.
StoreFollows(c, x) ==
    /\ c.cur # None => x # None /\ (c.strayed \/ c.cur.id = x)
    /\ c.cur = None /\ x # None => c.error \/ c.fetchOn = x
    /\ c.fetchOn \in {None, x}
    /\ c.fetchOn # None => c.gets[c.fetchOn] # None
    /\ x = None => \A y \in Execs : c.gets[y] = None

StoreInv(c, x) == IsStore(c) /\ StoreTyped(c) /\ StoreTrue(c) /\ StoreFollows(c, x)

\* What the variables hold that the rest speaks of.
PageTyped ==
    /\ srv \in [Execs -> [st : Page!Statuses, n : Nat]] /\ route \in Execs
    /\ seen \in [id : Execs \union {None}, active : BOOLEAN, terminal : BOOLEAN,
                 polling : BOOLEAN]
    /\ seen.polling => seen.id # None

\* A cancel that the server has carried out ended the execution it names.
MutationInv ==
    mut # None =>
      /\ mut \in [op : {"asking", "cancel", "retry"}, id : Execs, ok : BOOLEAN]
      /\ seen.id # None
      /\ mut.op = "cancel" /\ mut.ok => srv[mut.id].st = "cancelled"

\* A stream is that of the page, and there is one for an active execution.
StreamInv ==
    /\ seen.active <=> sse # None
    /\ sse # None =>
         /\ sse \in Page!Streams /\ sse.id = seen.id /\ sse.id # None
         /\ sse.n <= srv[sse.id].n
         /\ \A i \in 1..Len(sse.q) :
              sse.q[i].type = "status" => Tells(sse.q[i].st, sse.id)

PageInv == PageTyped /\ MutationInv /\ StreamInv /\ StoreInv(client, seen.id)

\* What the log and the spend of the page leave alone.
Core(c) == <<c.cur, c.strayed, c.error, c.fetchOn, c.cache, c.gets, c.polls>>

LEMMA CoreKept ==
    ASSUME NEW c, NEW d, NEW x, StoreInv(c, x), IsStore(d), Core(d) = Core(c)
    PROVE  StoreInv(d, x)
BY DEF StoreInv, StoreTyped, StoreTrue, StoreFollows, Core

LEMMA EventsLeaveCore ==
    ASSUME NEW c, IsStore(c), NEW e
    PROVE  /\ IsStore([c EXCEPT !.events = e]) /\ Core([c EXCEPT !.events = e]) = Core(c)
           /\ IsStore([c EXCEPT !.evs = e]) /\ Core([c EXCEPT !.evs = e]) = Core(c)
           /\ IsStore([c EXCEPT !.spends = e]) /\ Core([c EXCEPT !.spends = e]) = Core(c)
           /\ IsStore([c EXCEPT !.spend = e]) /\ Core([c EXCEPT !.spend = e]) = Core(c)
BY DEF IsStore, Core

LEMMA FetchExecutionStore ==
    ASSUME NEW c, NEW y, StoreInv(c, y), NEW x \in Execs,
           srv \in [Execs -> [st : Page!Statuses, n : Nat]]
    PROVE  StoreInv(Page!FetchExecution(c, x), x)
<1>0. PICK d : d = Page!FetchExecution(c, x)
  OBVIOUS
<1>1. IsStore(c)
  BY DEF StoreInv
<1>2. x # None /\ None \notin Page!Statused
  BY PageAssumption DEF Page!PageAssumption
<1>3. d.error = FALSE /\ d.strayed = FALSE /\ d.polls = c.polls /\ d.cache = c.cache
  BY <1>0, <1>1 DEF IsStore, Page!FetchExecution, Page!Get
<1>4. IsStore(d)
  BY <1>0, <1>1 DEF IsStore, Page!FetchExecution, Page!Get
<1>5. CASE c.cache[x] # None
  <2>1. d.cur = [id |-> x, st |-> c.cache[x]] /\ d.fetchOn = None /\ d.gets = c.gets
    BY <1>0, <1>1, <1>5 DEF IsStore, Page!FetchExecution
  <2>2. d.cur \in Page!Statused /\ d.cur.id = x /\ d.cur.st = c.cache[x]
    BY <2>1, <1>5 DEF StoreInv, StoreTyped, Requests, Page!Statused
  <2> QED
    BY <1>0, <1>2, <1>3, <1>4, <2>1, <2>2 DEF StoreInv, StoreTyped, StoreTrue, StoreFollows
<1>6. CASE c.cache[x] = None
  <2>1. d.cur \in {c.cur, None} /\ (d.cur # None => d.cur.id = x) /\ d.fetchOn = x
    BY <1>0, <1>1, <1>6 DEF IsStore, Page!FetchExecution, Page!Get
  <2>2. d.gets = IF c.gets[x] = None THEN [c.gets EXCEPT ![x] = srv[x].st] ELSE c.gets
    BY <1>0, <1>1, <1>6 DEF IsStore, Page!FetchExecution, Page!Get
  <2>3. /\ d.gets \in Requests /\ d.gets[x] # None
        /\ \A z \in Execs : Tells(d.gets[z], z)
    BY <2>2, PageAssumption DEF Page!PageAssumption, StoreInv, StoreTyped, StoreTrue, Requests, Tells
  <2> QED
    BY <1>0, <1>2, <1>3, <1>4, <2>1, <2>3 DEF StoreInv, StoreTyped, StoreTrue, StoreFollows
<1> QED
  BY <1>5, <1>6

LEMMA ServerMoves ==
    ASSUME PageInv, UNCHANGED <<route, seen, client, sse>>, MutationInv',
           srv' \in [Execs -> [st : Page!Statuses, n : Nat]],
           \A x \in Execs : /\ srv[x].st \in Page!TERMINAL_STATUSES => srv'[x].st = srv[x].st
                            /\ srv[x].n <= srv'[x].n
    PROVE  PageInv'
<1>1. \A s, x : x \in Execs /\ Tells(s, x) => Tells(s, x)'
  BY DEF Tells
<1>2. PageTyped'
  BY DEF PageInv, PageTyped
<1>3. StoreInv(client, seen.id)'
  <2>1. IsStore(client)' /\ StoreTyped(client)' /\ StoreFollows(client, seen.id)'
    BY DEF PageInv, StoreInv, IsStore, StoreTyped, StoreFollows
  <2>2. StoreTrue(client)'
    BY <1>1, PageAssumption DEF PageInv, StoreInv, StoreTyped, StoreTrue, Page!Statused
  <2> QED
    BY <2>1, <2>2 DEF StoreInv
<1>4. StreamInv'
  <2>1. CASE sse = None
    BY <2>1 DEF PageInv, StreamInv
  <2>2. CASE sse # None
    <3>1. /\ sse \in Page!Streams /\ sse.id \in Execs /\ sse.n \in Nat
          /\ srv[sse.id].n \in Nat /\ srv'[sse.id].n \in Nat
      BY <2>2 DEF PageInv, PageTyped, StreamInv, Page!Streams
    <3>2. sse.n <= srv'[sse.id].n
      BY <2>2, <3>1 DEF PageInv, StreamInv
    <3>3. \A i \in 1..Len(sse.q) : sse.q[i].type = "status" => Tells(sse.q[i].st, sse.id)'
      BY <1>1, <2>2, <3>1 DEF PageInv, StreamInv
    <3> QED
      BY <2>2, <3>2, <3>3 DEF PageInv, StreamInv
  <2> QED
    BY <2>1, <2>2
<1> QED
  BY <1>2, <1>3, <1>4 DEF PageInv

LEMMA ServerEmitStep ==
    ASSUME PageInv, NEW x \in Execs, Page!ServerEmit(x)
    PROVE  PageInv'
<1>1. /\ srv' = [srv EXCEPT ![x].n = @ + 1]
      /\ UNCHANGED <<route, seen, client, sse, mut>>
  BY DEF Page!ServerEmit, Page!pageVars
<1>2. /\ srv' \in [Execs -> [st : Page!Statuses, n : Nat]]
      /\ \A y \in Execs : srv'[y].st = srv[y].st /\ srv[y].n <= srv'[y].n
  BY <1>1 DEF PageInv, PageTyped
<1>3. MutationInv'
  BY <1>1, <1>2 DEF PageInv, MutationInv
<1> QED
  BY <1>1, <1>2, <1>3, ServerMoves

LEMMA ServerFinishStep ==
    ASSUME PageInv, NEW x \in Execs, Page!ServerFinish(x)
    PROVE  PageInv'
<1>1. /\ srv' = [srv EXCEPT ![x].st = "completed"] /\ srv[x].st = "running"
      /\ UNCHANGED <<route, seen, client, sse, mut>>
  BY DEF Page!ServerFinish, Page!pageVars
<1>2. /\ srv' \in [Execs -> [st : Page!Statuses, n : Nat]]
      /\ \A y \in Execs : /\ srv'[y].st = IF y = x THEN "completed" ELSE srv[y].st
                          /\ srv[y].n <= srv'[y].n
  BY <1>1 DEF PageInv, PageTyped, Page!Statuses, Page!TERMINAL_STATUSES
<1>3. MutationInv'
  BY <1>1, <1>2 DEF PageInv, MutationInv
<1> QED
  BY <1>1, <1>2, <1>3, ServerMoves DEF Page!TERMINAL_STATUSES

LEMMA ServerCancelStep ==
    ASSUME PageInv, Page!ServerCancel
    PROVE  PageInv'
<1>1. /\ mut # None /\ srv[mut.id].st = "running" /\ srv' = [srv EXCEPT ![mut.id].st = "cancelled"]
      /\ mut' = [mut EXCEPT !.ok = TRUE]
      /\ UNCHANGED <<route, seen, client, sse>>
  BY DEF Page!ServerCancel
<1>2. mut \in [op : {"asking", "cancel", "retry"}, id : Execs, ok : BOOLEAN] /\ seen.id # None
  BY <1>1 DEF PageInv, MutationInv
<1>3. /\ srv' \in [Execs -> [st : Page!Statuses, n : Nat]]
      /\ \A y \in Execs : /\ srv'[y].st = IF y = mut.id THEN "cancelled" ELSE srv[y].st
                          /\ srv[y].n <= srv'[y].n
  BY <1>1, <1>2 DEF PageInv, PageTyped, Page!Statuses, Page!TERMINAL_STATUSES
<1>4. MutationInv'
  BY <1>1, <1>2, <1>3 DEF MutationInv
<1> QED
  BY <1>1, <1>2, <1>3, <1>4, ServerMoves DEF Page!TERMINAL_STATUSES

LEMMA ServerRetryStep ==
    ASSUME PageInv, NEW x \in Execs, Page!ServerRetry(x)
    PROVE  PageInv'
<1>1. /\ mut # None /\ srv[x].st = "absent" /\ srv' = [srv EXCEPT ![x].st = "running"]
      /\ mut' = [op |-> "retry", id |-> x, ok |-> TRUE]
      /\ UNCHANGED <<route, seen, client, sse>>
  BY DEF Page!ServerRetry
<1>2. /\ srv' \in [Execs -> [st : Page!Statuses, n : Nat]]
      /\ \A y \in Execs : /\ srv'[y].st = IF y = x THEN "running" ELSE srv[y].st
                          /\ srv[y].n <= srv'[y].n
  BY <1>1 DEF PageInv, PageTyped, Page!Statuses
<1>3. MutationInv'
  BY <1>1 DEF PageInv, MutationInv
<1> QED
  BY <1>1, <1>2, <1>3, ServerMoves DEF Page!TERMINAL_STATUSES

LEMMA ClientMoves ==
    ASSUME PageInv, UNCHANGED <<srv, route, seen, sse>>, mut' \in {mut, None},
           StoreInv(client', seen.id)
    PROVE  PageInv'
<1>1. PageTyped'
  BY DEF PageInv, PageTyped
<1>2. MutationInv'
  BY DEF PageInv, MutationInv
<1>3. StreamInv'
  BY DEF PageInv, StreamInv, Tells
<1>4. StoreInv(client, seen.id)'
  BY DEF StoreInv, IsStore, StoreTyped, StoreTrue, StoreFollows, Tells
<1> QED
  BY <1>1, <1>2, <1>3, <1>4 DEF PageInv

LEMMA FetchEventsCore ==
    ASSUME NEW c, IsStore(c), NEW x
    PROVE  IsStore(Page!FetchEvents(c, x)) /\ Core(Page!FetchEvents(c, x)) = Core(c)
BY EventsLeaveCore DEF Page!FetchEvents

LEMMA FetchSpendCore ==
    ASSUME NEW c, IsStore(c), NEW x
    PROVE  IsStore(Page!FetchSpend(c, x)) /\ Core(Page!FetchSpend(c, x)) = Core(c)
BY EventsLeaveCore DEF Page!FetchSpend

LEMMA AddEventsCore ==
    ASSUME NEW c, IsStore(c), NEW new
    PROVE  IsStore(Page!AddEvents(c, new)) /\ Core(Page!AddEvents(c, new)) = Core(c)
BY EventsLeaveCore DEF Page!AddEvents

LEMMA LogAnswers ==
    ASSUME PageInv,
           \/ \E g \in client.evs : Page!AnswerEvents(g) \/ Page!FailEvents(g)
           \/ \E g \in client.spends : Page!AnswerSpend(g) \/ Page!FailSpend(g)
           \/ Page!PollEvents
    PROVE  PageInv'
<1>1. UNCHANGED <<srv, route, seen, sse, mut>>
  BY DEF Page!AnswerEvents, Page!FailEvents, Page!AnswerSpend, Page!FailSpend, Page!PollEvents,
     Page!serverVars
<1>2. IsStore(client)
  BY DEF PageInv, StoreInv
<1>3. IsStore(client') /\ Core(client') = Core(client)
  <2>1. CASE \E g \in client.evs : Page!AnswerEvents(g)
    <3>1. PICK g, new : client' = Page!AddEvents([client EXCEPT !.evs = @ \ {g}], new)
      BY <2>1 DEF Page!AnswerEvents
    <3>2. PICK c : c = [client EXCEPT !.evs = @ \ {g}]
      OBVIOUS
    <3>3. IsStore(c) /\ Core(c) = Core(client)
      BY <1>2, <3>2, EventsLeaveCore
    <3> QED
      BY <3>1, <3>2, <3>3, AddEventsCore
  <2>2. CASE \E g \in client.evs : Page!FailEvents(g)
    <3>1. PICK e : client' = [client EXCEPT !.evs = e]
      BY <2>2 DEF Page!FailEvents
    <3> QED
      BY <1>2, <3>1, EventsLeaveCore
  <2>3. CASE \E g \in client.spends : Page!AnswerSpend(g)
    <3>1. PICK e, v : client' = [client EXCEPT !.spends = e, !.spend = v]
      BY <2>3 DEF Page!AnswerSpend
    <3>2. /\ client'.cur = client.cur /\ client'.strayed = client.strayed
          /\ client'.error = client.error /\ client'.fetchOn = client.fetchOn
          /\ client'.cache = client.cache /\ client'.gets = client.gets
          /\ client'.polls = client.polls /\ IsStore(client')
      BY <1>2, <3>1 DEF IsStore
    <3> QED
      BY <3>2 DEF Core
  <2>4. CASE \E g \in client.spends : Page!FailSpend(g)
    <3>1. PICK e : client' = [client EXCEPT !.spends = e]
      BY <2>4 DEF Page!FailSpend
    <3> QED
      BY <1>2, <3>1, EventsLeaveCore
  <2>5. CASE Page!PollEvents
    BY <1>2, <2>5, FetchEventsCore DEF Page!PollEvents
  <2> QED
    BY <2>1, <2>2, <2>3, <2>4, <2>5
<1>4. StoreInv(client', seen.id)
  BY <1>3, CoreKept DEF PageInv
<1> QED
  BY <1>1, <1>4, ClientMoves

LEMMA CacheExpiresStep ==
    ASSUME PageInv, NEW x \in Execs, Page!CacheExpires(x)
    PROVE  PageInv'
<1>1. client' = [client EXCEPT !.cache[x] = None] /\ UNCHANGED <<srv, route, seen, sse, mut>>
  BY DEF Page!CacheExpires, Page!serverVars
<1>2. /\ client'.cache = [client.cache EXCEPT ![x] = None]
      /\ client'.cur = client.cur /\ client'.strayed = client.strayed
      /\ client'.error = client.error /\ client'.fetchOn = client.fetchOn
      /\ client'.gets = client.gets /\ client'.polls = client.polls
      /\ IsStore(client')
  BY <1>1 DEF PageInv, StoreInv, IsStore
<1>3. /\ client'.cache \in Requests
      /\ \A y \in Execs : Tells(client'.cache[y], y)
  BY <1>2, PageAssumption DEF Page!PageAssumption, PageInv, StoreInv, StoreTyped, StoreTrue,
     Requests, Tells, Page!Statuses
<1>4. StoreInv(client', seen.id)
  BY <1>2, <1>3 DEF PageInv, StoreInv, StoreTyped, StoreTrue, StoreFollows
<1> QED
  BY <1>1, <1>4, ClientMoves

LEMMA ReloadStep ==
    ASSUME PageInv, Page!Reload
    PROVE  PageInv'
<1>1. /\ client' = Page!FetchExecution(client, route) /\ seen.id = route
      /\ UNCHANGED <<srv, route, seen, sse, mut>>
  BY DEF Page!Reload, Page!serverVars
<1>2. StoreInv(client', seen.id)
  BY <1>1, FetchExecutionStore DEF PageInv, PageTyped
<1> QED
  BY <1>1, <1>2, ClientMoves

LEMMA PollStepOfPage ==
    ASSUME PageInv, Page!Tick \/ Page!OnVisible
    PROVE  PageInv'
<1>1. /\ client' = Page!PollExecution(client, seen.id) /\ seen.polling
      /\ UNCHANGED <<srv, route, seen, sse, mut>>
  BY DEF Page!Tick, Page!OnVisible, Page!serverVars
<1>2. PICK x : x = seen.id
  OBVIOUS
<1>3. x \in Execs /\ x # None /\ IsStore(client) /\ srv \in [Execs -> [st : Page!Statuses, n : Nat]]
  BY <1>1, <1>2 DEF PageInv, PageTyped, StoreInv
<1>4. /\ client'.cache = client.cache
      /\ client'.cur = client.cur /\ client'.strayed = client.strayed
      /\ client'.error = client.error /\ client'.fetchOn = client.fetchOn
      /\ client'.gets = IF client.gets[x] = None THEN [client.gets EXCEPT ![x] = srv[x].st]
                        ELSE client.gets
      /\ client'.polls = client.polls \union {x}
      /\ IsStore(client')
  BY <1>1, <1>2, <1>3 DEF IsStore, Page!PollExecution, Page!Get
<1>5. /\ client'.gets \in Requests
      /\ \A y \in Execs : Tells(client'.gets[y], y)
      /\ \A y \in Execs : client.gets[y] # None => client'.gets[y] # None
  BY <1>3, <1>4, PageAssumption DEF Page!PageAssumption, PageInv, StoreInv, StoreTyped, StoreTrue,
     Requests, Tells
<1>6. StoreInv(client', seen.id)
  BY <1>2, <1>3, <1>4, <1>5 DEF PageInv, StoreInv, StoreTyped, StoreTrue, StoreFollows
<1> QED
  BY <1>1, <1>6, ClientMoves

LEMMA AnswerCancelStep ==
    ASSUME PageInv, Page!AnswerCancel
    PROVE  PageInv'
<1>1. /\ mut # None /\ mut.op = "cancel" /\ mut.ok
      /\ client' = [client EXCEPT !.cur = IF @ # None /\ @.id = mut.id
                                          THEN [id |-> mut.id, st |-> "cancelled"] ELSE @]
      /\ mut' = None /\ UNCHANGED <<srv, route, seen, sse>>
  BY DEF Page!AnswerCancel, Page!serverVars
<1>2. mut.id \in Execs /\ srv[mut.id].st = "cancelled"
  BY <1>1 DEF PageInv, MutationInv
<1>3. /\ client'.cache = client.cache /\ client'.strayed = client.strayed
      /\ client'.error = client.error /\ client'.fetchOn = client.fetchOn
      /\ client'.gets = client.gets /\ client'.polls = client.polls
      /\ client'.cur = IF client.cur # None /\ client.cur.id = mut.id
                       THEN [id |-> mut.id, st |-> "cancelled"] ELSE client.cur
      /\ IsStore(client')
  BY <1>1 DEF PageInv, StoreInv, IsStore
<1>4. CASE client.cur # None /\ client.cur.id = mut.id
  <2>1. client'.cur = [id |-> mut.id, st |-> "cancelled"] /\ client.cur # None
    BY <1>3, <1>4
  <2>2. /\ client'.cur \in Page!Statused /\ client'.cur # None /\ client'.cur.id = client.cur.id
        /\ Tells(client'.cur.st, client'.cur.id)
    BY <1>2, <1>4, <2>1, PageAssumption DEF Page!PageAssumption, Page!Statused, Page!Statuses,
       Page!TERMINAL_STATUSES, Tells
  <2>3. StoreInv(client', seen.id)
    BY <1>3, <2>1, <2>2 DEF PageInv, StoreInv, StoreTyped, StoreTrue, StoreFollows
  <2> QED
    BY <1>1, <2>3, ClientMoves
<1>5. CASE ~(client.cur # None /\ client.cur.id = mut.id)
  <2>1. StoreInv(client', seen.id)
    BY <1>3, <1>5, CoreKept DEF Core, PageInv
  <2> QED
    BY <1>1, <2>1, ClientMoves
<1> QED
  BY <1>4, <1>5

LEMMA FailExecutionStep ==
    ASSUME PageInv, NEW x \in Execs, Page!FailExecution(x)
    PROVE  PageInv'
<1>1. client' = Page!Reject(client, x) /\ UNCHANGED <<srv, route, seen, sse, mut>>
  BY DEF Page!FailExecution, Page!serverVars
<1>2. /\ client'.cache = client.cache /\ client'.strayed = client.strayed
      /\ client'.error = IF client.fetchOn = x THEN TRUE ELSE client.error
      /\ client'.fetchOn = IF client.fetchOn = x THEN None ELSE client.fetchOn
      /\ client'.gets = [client.gets EXCEPT ![x] = None] /\ client'.polls = client.polls \ {x}
      /\ client'.cur = client.cur /\ IsStore(client')
  BY <1>1 DEF PageInv, StoreInv, IsStore, Page!Reject
<1>3. /\ client'.gets \in Requests
      /\ \A y \in Execs : /\ Tells(client'.gets[y], y)
                          /\ client'.gets[y] = IF y = x THEN None ELSE client.gets[y]
  BY <1>2, PageAssumption DEF Page!PageAssumption, PageInv, StoreInv, StoreTyped, StoreTrue,
     Requests, Tells, Page!Statuses
<1>4. CASE client.fetchOn = x
  BY <1>1, <1>2, <1>3, <1>4, ClientMoves DEF PageInv, StoreInv, StoreTyped, StoreTrue, StoreFollows
<1>5. CASE client.fetchOn # x
  BY <1>1, <1>2, <1>3, <1>5, ClientMoves DEF PageInv, StoreInv, StoreTyped, StoreTrue, StoreFollows
<1> QED
  BY <1>4, <1>5

LEMMA AnswerExecutionStep ==
    ASSUME PageInv, NEW x \in Execs, Page!AnswerExecution(x)
    PROVE  PageInv'
<1>1. PICK s \in {client.gets[x], srv[x].st} : client' = Page!Resolve(client, x, s)
  BY DEF Page!AnswerExecution
<1>2. client.gets[x] # None /\ UNCHANGED <<srv, route, seen, sse, mut>>
  BY DEF Page!AnswerExecution, Page!serverVars
<1>3. /\ s \in Page!Statuses /\ Tells(s, x) /\ seen.id # None /\ x # None
      /\ [id |-> x, st |-> s] \in Page!Statused /\ [id |-> x, st |-> s] # None
  BY <1>1, <1>2, PageAssumption DEF Page!PageAssumption, PageInv, PageTyped, StoreInv, StoreTyped,
     StoreTrue, StoreFollows, Requests, Tells, Page!Statused
<1>4. /\ client'.cache = [client.cache EXCEPT ![x] = s]
      /\ client'.error = client.error
      /\ client'.fetchOn = IF client.fetchOn = x THEN None ELSE client.fetchOn
      /\ client'.gets = [client.gets EXCEPT ![x] = None] /\ client'.polls = client.polls \ {x}
      /\ client'.cur = IF client.fetchOn = x \/ x \in client.polls THEN [id |-> x, st |-> s]
                       ELSE client.cur
      /\ IsStore(client')
  BY <1>1 DEF PageInv, StoreInv, IsStore, Page!Resolve
<1>5. /\ client'.strayed \in BOOLEAN
      /\ x \in client.polls => (client'.strayed <=> x # seen.id)
      /\ x \notin client.polls => (client'.strayed <=> client.strayed)
  <2>1. client'.strayed = IF x \in client.polls THEN x # seen.id ELSE client.strayed
    BY <1>1 DEF PageInv, StoreInv, IsStore, Page!Resolve
  <2>2. client.strayed \in BOOLEAN
    BY DEF PageInv, StoreInv, StoreTyped
  <2> QED
    BY <2>1, <2>2, Zenon
<1>6. /\ client'.gets \in Requests /\ client'.cache \in Requests
      /\ \A y \in Execs : /\ Tells(client'.gets[y], y) /\ Tells(client'.cache[y], y)
                          /\ client'.gets[y] = IF y = x THEN None ELSE client.gets[y]
  BY <1>3, <1>4, PageAssumption DEF Page!PageAssumption, PageInv, StoreInv, StoreTyped, StoreTrue,
     Requests, Tells, Page!Statuses
<1>7. /\ client'.fetchOn \in {None, seen.id}
      /\ client'.fetchOn \in Execs \union {None} /\ client'.polls \subseteq Execs
      /\ client'.fetchOn # None => client'.gets[client'.fetchOn] # None
  <2>1. /\ client.fetchOn \in {None, seen.id}
        /\ client.fetchOn \in Execs \union {None} /\ client.polls \subseteq Execs
        /\ client.fetchOn # None => client.gets[client.fetchOn] # None
    BY DEF PageInv, StoreInv, StoreTyped, StoreFollows
  <2> QED
    BY <1>4, <1>6, <2>1
<1>8. CASE client.fetchOn = x \/ x \in client.polls
  <2>1. /\ client'.cur = [id |-> x, st |-> s] /\ client'.cur.id = x /\ client'.cur.st = s
        /\ client'.strayed \/ x = seen.id
    <3>1. client.fetchOn \in {None, seen.id}
      BY DEF PageInv, StoreInv, StoreFollows
    <3> QED
      BY <1>3, <1>4, <1>8, <1>5, <3>1
  <2>2. StoreInv(client', seen.id)
    BY <1>3, <1>4, <1>6, <1>7, <1>5, <2>1 DEF PageInv, StoreInv, StoreTyped, StoreTrue, StoreFollows
  <2> QED
    BY <1>2, <2>2, ClientMoves
<1>9. CASE ~(client.fetchOn = x \/ x \in client.polls)
  <2>1. /\ client'.cur = client.cur /\ (client'.strayed <=> client.strayed)
        /\ client'.fetchOn = client.fetchOn
    BY <1>4, <1>9, <1>5
  <2>2. StoreInv(client', seen.id)
    BY <1>3, <1>4, <1>6, <1>7, <1>5, <2>1 DEF PageInv, StoreInv, StoreTyped, StoreTrue, StoreFollows
  <2> QED
    BY <1>2, <2>2, ClientMoves
<1> QED
  BY <1>8, <1>9

LEMMA MutationStep ==
    ASSUME PageInv,
           \/ \E x \in Execs : Page!Navigate(x)
           \/ Page!AskCancel \/ Page!DismissCancel \/ Page!MutationFails \/ Page!AnswerRetry
    PROVE  PageInv'
<1>1. UNCHANGED <<srv, seen, sse, client>>
  BY DEF Page!Navigate, Page!AskCancel, Page!DismissCancel, Page!MutationFails,
     Page!AnswerRetry, Page!serverVars, Page!pageVars
<1>2. /\ route' \in Execs
      /\ mut' # None => \/ mut' = mut
                        \/ /\ mut' = [op |-> "asking", id |-> route, ok |-> FALSE]
                           /\ client.cur # None
  <2>1. route \in Execs /\ (mut # None => mut.id \in Execs)
    BY DEF PageInv, PageTyped, MutationInv
  <2>2. CASE \E x \in Execs : Page!Navigate(x)
    BY <2>2 DEF Page!Navigate, Page!pageVars
  <2>3. CASE Page!AskCancel \/ Page!DismissCancel \/ Page!MutationFails
    BY <2>1, <2>3 DEF Page!AskCancel, Page!DismissCancel, Page!MutationFails, Page!serverVars,
       Page!IsActive
  <2>4. CASE Page!AnswerRetry
    BY <2>1, <2>4 DEF Page!AnswerRetry
  <2> QED
    BY <2>2, <2>3, <2>4
<1>3. PageTyped'
  BY <1>1, <1>2 DEF PageInv, PageTyped
<1>4. MutationInv'
  <2>1. route \in Execs /\ (client.cur # None => seen.id # None)
    BY DEF PageInv, PageTyped, StoreInv, StoreFollows
  <2>2. CASE mut' = None
    BY <2>2 DEF MutationInv
  <2>3. CASE mut' = mut
    BY <1>1, <2>3 DEF PageInv, MutationInv
  <2>4. CASE /\ mut' = [op |-> "asking", id |-> route, ok |-> FALSE]
             /\ client.cur # None
    BY <1>1, <2>1, <2>4 DEF MutationInv
  <2> QED
    BY <1>2, <2>2, <2>3, <2>4
<1>5. StreamInv'
  BY <1>1 DEF PageInv, StreamInv, Tells
<1>6. StoreInv(client, seen.id)'
  BY <1>1 DEF PageInv, StoreInv, IsStore, StoreTyped, StoreTrue, StoreFollows, Tells
<1> QED
  BY <1>3, <1>4, <1>5, <1>6 DEF PageInv

LEMMA SendMutationStep ==
    ASSUME PageInv, NEW op \in {"cancel", "retry"}, Page!SendMutation(op)
    PROVE  PageInv'
<1>1. /\ client' = Page!InvalidateForMutation(client)
      /\ mut' = [op |-> op, id |-> seen.id, ok |-> FALSE]
      /\ mut # None \/ client.cur # None
      /\ UNCHANGED <<srv, route, seen, sse>>
  BY DEF Page!SendMutation, Page!serverVars, Page!IsTerminal
<1>2. seen.id \in Execs /\ seen.id # None
  BY <1>1 DEF PageInv, PageTyped, MutationInv, StoreInv, StoreFollows
<1>3. /\ client'.cache = [x \in Execs |-> None]
      /\ client'.cur = client.cur /\ client'.strayed = client.strayed
      /\ client'.error = client.error /\ client'.fetchOn = client.fetchOn
      /\ client'.gets = client.gets /\ client'.polls = client.polls
      /\ IsStore(client')
  BY <1>1 DEF PageInv, StoreInv, IsStore, Page!InvalidateForMutation
<1>4. client'.cache \in Requests /\ \A y \in Execs : Tells(client'.cache[y], y)
  BY <1>3, PageAssumption DEF Page!PageAssumption, Requests, Tells, Page!Statuses
<1>5. StoreInv(client', seen.id)
  BY <1>3, <1>4 DEF PageInv, StoreInv, StoreTyped, StoreTrue, StoreFollows
<1>6. PageTyped'
  BY <1>1 DEF PageInv, PageTyped
<1>7. MutationInv'
  BY <1>1, <1>2 DEF MutationInv
<1>8. StreamInv'
  BY <1>1 DEF PageInv, StreamInv, Tells
<1>9. StoreInv(client, seen.id)'
  BY <1>1, <1>5 DEF StoreInv, IsStore, StoreTyped, StoreTrue, StoreFollows, Tells
<1> QED
  BY <1>6, <1>7, <1>8, <1>9 DEF PageInv

(* The effects of the page, composed as Commit composes them.              *)
LEMMA NewStreamFacts ==
    ASSUME NEW x \in Execs
    PROVE  /\ Page!NewStream(x) \in Page!Streams /\ Page!NewStream(x) # None
           /\ Page!NewStream(x).id = x /\ Page!NewStream(x).n = 0
           /\ Page!NewStream(x).q = <<>>
<1>1. Page!NewStream(x) \in Page!Streams
  BY DEF Page!NewStream, Page!Streams
<1> QED
  BY <1>1, PageAssumption DEF Page!PageAssumption, Page!NewStream

LEMMA CommitStore ==
    ASSUME PageInv, Page!Commit
    PROVE  StoreInv(client', route)
<1>1. srv \in [Execs -> [st : Page!Statuses, n : Nat]] /\ route \in Execs /\ IsStore(client)
      /\ StoreInv(client, seen.id)
  BY DEF PageInv, PageTyped, StoreInv
<1>2. PICK c1 : /\ c1 = IF (route # seen.id \/ Page!Rendered.active # seen.active) /\ sse # None
                        THEN Page!FetchEvents(client, sse.id) ELSE client
  OBVIOUS
<1>3. StoreInv(c1, seen.id) /\ IsStore(c1)
  BY <1>1, <1>2, FetchEventsCore, CoreKept
<1>4. PICK c2 : c2 = IF route # seen.id THEN Page!FetchExecution(Page!ClearEvents(c1), route)
                     ELSE c1
  OBVIOUS
<1>5. StoreInv(c2, route)
  <2>1. CASE route # seen.id
    <3>1. PICK d : d = Page!ClearEvents(c1)
      OBVIOUS
    <3>2. StoreInv(d, seen.id)
      BY <1>3, <3>1, EventsLeaveCore, CoreKept DEF Page!ClearEvents
    <3> QED
      BY <1>1, <1>4, <2>1, <3>1, <3>2, FetchExecutionStore
  <2>2. CASE route = seen.id
    BY <1>3, <1>4, <2>2
  <2> QED
    BY <2>1, <2>2
<1>6. client' \in {c2, Page!FetchSpend(Page!FetchEvents(Page!FetchExecution(c2, route), route), route)}
  BY <1>2, <1>4 DEF Page!Commit
<1>7. CASE client' = c2
  BY <1>5, <1>7
<1>8. CASE client' = Page!FetchSpend(Page!FetchEvents(Page!FetchExecution(c2, route), route), route)
  <2>1. PICK d : d = Page!FetchExecution(c2, route)
    OBVIOUS
  <2>2. StoreInv(d, route) /\ IsStore(d)
    BY <1>1, <1>5, <2>1, FetchExecutionStore DEF StoreInv
  <2>3. PICK e : e = Page!FetchEvents(d, route)
    OBVIOUS
  <2>4. StoreInv(e, route) /\ IsStore(e)
    BY <2>2, <2>3, FetchEventsCore, CoreKept
  <2> QED
    BY <1>8, <2>1, <2>3, <2>4, FetchSpendCore, CoreKept
<1> QED
  BY <1>6, <1>7, <1>8

LEMMA CommitStep ==
    ASSUME PageInv, Page!Commit
    PROVE  PageInv'
<1>1. /\ seen' = Page!Rendered /\ UNCHANGED <<srv, route, mut>>
      /\ sse' = IF ~(route # seen.id \/ Page!Rendered.active # seen.active) THEN sse
                ELSE IF Page!Rendered.active THEN Page!NewStream(route) ELSE None
  BY DEF Page!Commit, Page!serverVars
<1>2. route \in Execs /\ route # None
  BY PageAssumption DEF Page!PageAssumption, PageInv, PageTyped
<1>3. /\ seen'.id = route /\ seen'.active = Page!Rendered.active
      /\ seen' \in [id : Execs \union {None}, active : BOOLEAN, terminal : BOOLEAN,
                    polling : BOOLEAN]
  <2>1. /\ Page!IsActive(client) \in BOOLEAN /\ Page!IsTerminal(client) \in BOOLEAN
        /\ (Page!IsActive(client) /\ disc) \in BOOLEAN
    BY DEF Page!IsActive, Page!IsTerminal
  <2> QED
    BY <1>1, <1>2, <2>1 DEF Page!Rendered
<1>4. PageTyped'
  BY <1>1, <1>2, <1>3 DEF PageInv, PageTyped
<1>5. MutationInv'
  BY <1>1, <1>2, <1>3 DEF PageInv, MutationInv
<1>6. StoreInv(client, seen.id)'
  BY <1>1, <1>3, CommitStore DEF StoreInv, IsStore, StoreTyped, StoreTrue, StoreFollows, Tells
<1>7. StreamInv'
  <2>1. CASE route = seen.id /\ Page!Rendered.active = seen.active
    <3>1. sse' = sse /\ seen'.id = seen.id /\ seen'.active = seen.active
      BY <1>1, <1>3, <2>1
    <3> QED
      BY <1>1, <3>1 DEF PageInv, StreamInv, Tells
  <2>2. CASE ~(route = seen.id /\ Page!Rendered.active = seen.active) /\ Page!Rendered.active
    <3>1. sse' = Page!NewStream(route) /\ seen'.active
      BY <1>1, <1>3, <2>2
    <3>2. /\ sse' \in Page!Streams /\ sse' # None /\ sse'.id = route /\ sse'.n = 0
          /\ sse'.q = <<>>
      BY <1>2, <3>1, NewStreamFacts
    <3>3. srv'[route].n \in Nat
      BY <1>1, <1>2 DEF PageInv, PageTyped
    <3> QED
      BY <1>2, <1>3, <3>1, <3>2, <3>3 DEF StreamInv
  <2>3. CASE ~(route = seen.id /\ Page!Rendered.active = seen.active) /\ ~Page!Rendered.active
    <3>1. sse' = None /\ ~seen'.active
      BY <1>1, <1>3, <2>3
    <3> QED
      BY <3>1 DEF StreamInv
  <2> QED
    BY <2>1, <2>2, <2>3
<1> QED
  BY <1>4, <1>5, <1>6, <1>7 DEF PageInv

(* The stream.                                                             *)
LEMMA StreamMoves ==
    ASSUME PageInv, UNCHANGED <<srv, route, seen, mut>>, sse # None,
           IsStore(client'), Core(client') = Core(client),
           sse' \in Page!Streams, sse'.id = sse.id, sse'.n <= srv[sse.id].n,
           \A i \in 1..Len(sse'.q) : sse'.q[i].type = "status" => Tells(sse'.q[i].st, sse.id)
    PROVE  PageInv'
<1>1. sse' # None
  BY PageAssumption DEF Page!PageAssumption
<1>2. PageTyped'
  BY DEF PageInv, PageTyped
<1>3. MutationInv'
  BY DEF PageInv, MutationInv
<1>4. StreamInv'
  BY <1>1 DEF PageInv, StreamInv, Tells
<1>5. StoreInv(client', seen.id)
  BY CoreKept DEF PageInv
<1>6. StoreInv(client, seen.id)'
  BY <1>5 DEF StoreInv, IsStore, StoreTyped, StoreTrue, StoreFollows, Tells
<1> QED
  BY <1>2, <1>3, <1>4, <1>6 DEF PageInv

LEMMA StreamFacts ==
    ASSUME PageInv, sse # None
    PROVE  /\ sse \in Page!Streams /\ sse.id = seen.id /\ sse.id \in Execs /\ sse.id # None
           /\ sse.n \in Nat /\ srv[sse.id].n \in Nat /\ sse.n <= srv[sse.id].n
           /\ srv[sse.id].st \in Page!Statuses /\ sse.q \in Seq(Page!Messages)
           /\ \A i \in 1..Len(sse.q) :
                sse.q[i].type = "status" => Tells(sse.q[i].st, sse.id)
           /\ IsStore(client)
BY DEF PageInv, PageTyped, StreamInv, StoreInv, Page!Streams

LEMMA StreamChanges ==
    ASSUME PageInv,
           Page!StreamOpens \/ Page!StreamEnds \/ Page!StreamBreaks \/ Page!StreamRefused
    PROVE  PageInv'
<1>1. sse # None /\ UNCHANGED <<srv, route, seen, mut, client>>
  BY DEF Page!StreamOpens, Page!StreamEnds, Page!StreamBreaks, Page!StreamRefused, Page!OnError,
     Page!sseOthers, Page!serverVars
<1>2. /\ sse' \in Page!Streams /\ sse'.id = sse.id /\ sse'.n \in {0, sse.n}
      /\ sse'.q \in {sse.q, <<>>}
  <2>1. <<>> \in Seq(Page!Messages)
    OBVIOUS
  <2>2. CASE Page!StreamOpens
    <3>1. sse' = [id |-> sse.id, last |-> None, n |-> 0, q |-> <<>>, errs |-> 0,
                  state |-> "open"]
      BY <2>2 DEF Page!StreamOpens, Page!NewStream
    <3> QED
      BY <1>1, <2>1, <3>1, StreamFacts DEF Page!Streams
  <2>3. CASE Page!StreamEnds \/ Page!StreamBreaks
    <3>1. PICK e : e = IF sse.errs < 3 THEN sse.errs + 1 ELSE sse.errs
      OBVIOUS
    <3>2. e \in 0..3
      BY <1>1, <3>1, StreamFacts DEF Page!Streams
    <3>3. sse' = [sse EXCEPT !.state = "down", !.q = <<>>, !.errs = e]
      BY <2>3, <3>1 DEF Page!StreamEnds, Page!StreamBreaks, Page!OnError
    <3>4. sse \in Page!Streams
      BY <1>1, StreamFacts
    <3> QED
      BY <2>1, <3>2, <3>3, <3>4 DEF Page!Streams
  <2>4. CASE Page!StreamRefused
    BY <1>1, <2>4, StreamFacts DEF Page!StreamRefused, Page!Streams
  <2> QED
    BY <2>2, <2>3, <2>4
<1>3. sse'.n <= srv[sse.id].n
  BY <1>1, <1>2, StreamFacts
<1>4. \A i \in 1..Len(sse'.q) : sse'.q[i].type = "status" => Tells(sse'.q[i].st, sse.id)
  BY <1>1, <1>2, StreamFacts
<1> QED
  BY <1>1, <1>2, <1>3, <1>4, StreamFacts, StreamMoves

LEMMA StreamSendsStep ==
    ASSUME PageInv, Page!StreamSends
    PROVE  PageInv'
<1> DEFINE row == srv[sse.id]
           status == IF row.st # sse.last \/ row.st \in Page!TERMINAL_STATUSES
                     THEN <<[type |-> "status", st |-> row.st]>> ELSE <<>>
           events == [i \in 1..(row.n - sse.n) |-> [type |-> "event", n |-> sse.n + i - 1]]
<1>1. sse # None /\ UNCHANGED <<srv, route, seen, mut, client>>
  BY DEF Page!StreamSends, Page!sseOthers, Page!serverVars
<1>2. sse' = [sse EXCEPT !.q = status \o events, !.last = row.st, !.n = row.n,
                         !.state = IF row.st \in Page!TERMINAL_STATUSES THEN "ended" ELSE @]
  BY DEF Page!StreamSends
<1>3. status \in Seq(Page!Messages) /\ \A i \in 1..Len(status) : status[i].st = row.st
  <2>1. PICK m : m = [type |-> "status", st |-> row.st]
    OBVIOUS
  <2>2. m \in Page!Messages /\ m.st = row.st
    BY <1>1, <2>1, StreamFacts DEF Page!Messages
  <2>3. status \in {<<m>>, <<>>}
    BY <2>1
  <2> QED
    BY <2>2, <2>3
<1>4. /\ events \in Seq(Page!Messages) /\ \A i \in 1..Len(events) : events[i].type = "event"
  <2>1. row.n - sse.n \in Nat
    BY <1>1, StreamFacts
  <2>2. \A i \in 1..(row.n - sse.n) : sse.n + i - 1 \in Nat
    BY <1>1, StreamFacts
  <2>3. \A i \in 1..(row.n - sse.n) : [type |-> "event", n |-> sse.n + i - 1] \in Page!Messages
    BY <2>2 DEF Page!Messages
  <2> QED
    BY <2>1, <2>3
<1> HIDE DEF status, events
<1>5. PICK q : q = status \o events
  OBVIOUS
<1>6. q \in Seq(Page!Messages)
  BY <1>3, <1>4, <1>5
<1>7. \A i \in 1..Len(q) : q[i].type = "status" => Tells(q[i].st, sse.id)
  <2> SUFFICES ASSUME NEW i \in 1..Len(q), q[i].type = "status"
               PROVE  Tells(q[i].st, sse.id)
    OBVIOUS
  <2>1. CASE i <= Len(status)
    <3>1. q[i] = status[i] /\ i \in 1..Len(status)
      BY <1>3, <1>4, <1>5, <2>1
    <3> QED
      BY <1>3, <3>1 DEF Tells
  <2>2. CASE i > Len(status)
    <3>1. q[i] = events[i - Len(status)] /\ i - Len(status) \in 1..Len(events)
      BY <1>3, <1>4, <1>5, <2>2
    <3> QED
      BY <1>4, <3>1
  <2> QED
    BY <1>3, <2>1, <2>2
<1>8. /\ sse' \in Page!Streams /\ sse'.id = sse.id /\ sse'.n = row.n /\ sse'.q = q
  BY <1>1, <1>2, <1>5, <1>6, StreamFacts DEF Page!Streams
<1>9. sse'.n <= srv[sse.id].n
  BY <1>1, <1>8, StreamFacts
<1> QED
  BY <1>1, <1>7, <1>8, <1>9, StreamFacts, StreamMoves

LEMMA OnStatusStore ==
    ASSUME NEW c, NEW x \in Execs, NEW s \in Page!Statuses, Tells(s, x), StoreInv(c, x),
           srv \in [Execs -> [st : Page!Statuses, n : Nat]]
    PROVE  StoreInv(Page!OnStatus(c, x, s), x)
<1>1. PICK d : d = [c EXCEPT !.cur = [id |-> x, st |-> s], !.strayed = FALSE]
  OBVIOUS
<1>2. /\ d.cur = [id |-> x, st |-> s] /\ d.strayed = FALSE /\ d.error = c.error
      /\ d.fetchOn = c.fetchOn /\ d.gets = c.gets /\ d.polls = c.polls /\ d.cache = c.cache
      /\ IsStore(d)
  BY <1>1 DEF StoreInv, IsStore
<1>3. d.cur \in Page!Statused /\ d.cur # None /\ d.cur.id = x /\ d.cur.st = s /\ x # None
  BY <1>2, PageAssumption DEF Page!PageAssumption, Page!Statused
<1>4. StoreInv(d, x)
  BY <1>2, <1>3 DEF StoreInv, StoreTyped, StoreTrue, StoreFollows
<1>5. PICK e : e = Page!FetchExecution(d, x)
  OBVIOUS
<1>6. StoreInv(e, x) /\ IsStore(e)
  BY <1>4, <1>5, FetchExecutionStore DEF StoreInv
<1>7. StoreInv(Page!FetchEvents(e, x), x)
  BY <1>6, FetchEventsCore, CoreKept
<1> QED
  BY <1>1, <1>4, <1>5, <1>7 DEF Page!OnStatus

LEMMA StreamDeliversStep ==
    ASSUME PageInv, Page!StreamDelivers
    PROVE  PageInv'
<1>1. sse # None /\ sse.q # <<>> /\ UNCHANGED <<srv, route, seen, mut>>
      /\ sse' = [sse EXCEPT !.q = Tail(@)]
  BY DEF Page!StreamDelivers, Page!sseOthers, Page!serverVars
<1>2. PICK m : m = Head(sse.q)
  OBVIOUS
<1>3. client' = IF m.type = "status" THEN Page!OnStatus(client, sse.id, m.st)
                ELSE Page!AddEvents(client, <<[id |-> sse.id, n |-> m.n]>>)
  BY <1>2 DEF Page!StreamDelivers
<1>4. sse.q \in Seq(Page!Messages) /\ Len(sse.q) > 0 /\ m = sse.q[1] /\ m \in Page!Messages
  BY <1>1, <1>2, StreamFacts
<1>5. m.type = "status" => m.st \in Page!Statuses /\ Tells(m.st, sse.id)
  <2>1. m.type = "status" => m.st \in Page!Statuses
    BY <1>4 DEF Page!Messages
  <2>2. m.type = "status" => Tells(m.st, sse.id)
    BY <1>1, <1>4, StreamFacts
  <2> QED
    BY <2>1, <2>2
<1>6. StoreInv(client', seen.id)
  <2>1. CASE m.type = "status"
    BY <1>1, <1>3, <1>5, <2>1, StreamFacts, OnStatusStore DEF PageInv, PageTyped
  <2>2. CASE m.type # "status"
    BY <1>1, <1>3, <2>2, StreamFacts, AddEventsCore, CoreKept DEF PageInv
  <2> QED
    BY <2>1, <2>2
<1>7. PICK q : q = Tail(sse.q)
  OBVIOUS
<1>8. q \in Seq(Page!Messages) /\ \A i \in 1..Len(q) : i + 1 \in 1..Len(sse.q) /\ q[i] = sse.q[i + 1]
  BY <1>4, <1>7
<1>9. /\ sse' \in Page!Streams /\ sse'.id = sse.id /\ sse'.n = sse.n /\ sse'.q = q
  BY <1>1, <1>7, <1>8, StreamFacts DEF Page!Streams
<1>10. StreamInv'
  <2>1. sse' # None
    BY <1>9, PageAssumption DEF Page!PageAssumption
  <2>2. \A i \in 1..Len(sse'.q) : sse'.q[i].type = "status" => Tells(sse'.q[i].st, sse.id)
    BY <1>1, <1>8, <1>9, StreamFacts
  <2> QED
    BY <1>1, <1>9, <2>1, <2>2 DEF PageInv, StreamInv, Tells
<1>11. PageTyped' /\ MutationInv'
  BY <1>1 DEF PageInv, PageTyped, MutationInv
<1>12. StoreInv(client, seen.id)'
  BY <1>1, <1>6 DEF StoreInv, IsStore, StoreTyped, StoreTrue, StoreFollows, Tells
<1> QED
  BY <1>10, <1>11, <1>12 DEF PageInv

LEMMA PageStep == PageInv /\ [Next]_vars => PageInv'
<1> SUFFICES ASSUME PageInv, [Next]_vars
             PROVE  PageInv'
  OBVIOUS
<1>1. CASE UNCHANGED pageVars
  BY <1>1 DEF pageVars, PageInv, PageTyped, MutationInv, StreamInv, StoreInv, IsStore,
     StoreTyped, StoreTrue, StoreFollows, Tells
<1>2. CASE Page!PageNext
  <2>1. CASE Page!ServerNext
    BY <2>1, ServerEmitStep, ServerFinishStep, ServerRetryStep, ServerCancelStep
       DEF Page!ServerNext
  <2>2. CASE Page!UserNext
    BY <2>2, MutationStep, ReloadStep, SendMutationStep, PollStepOfPage DEF Page!UserNext
  <2>3. CASE Page!NetworkNext
    BY <2>3, AnswerExecutionStep, FailExecutionStep, CacheExpiresStep, LogAnswers,
       AnswerCancelStep, MutationStep, StreamChanges, StreamSendsStep, StreamDeliversStep
       DEF Page!NetworkNext
  <2>4. CASE Page!Commit \/ Page!Tick \/ Page!PollEvents
    BY <2>4, CommitStep, PollStepOfPage, LogAnswers
  <2> QED
    BY <1>2, <2>1, <2>2, <2>3, <2>4 DEF Page!PageNext
<1> QED
  BY <1>1, <1>2 DEF Next, vars

LEMMA PageInitInv ==
    ASSUME NEW views, \A v \in views : v.rows \subseteq [Execs -> [st : Page!Statuses, n : Nat]],
           Page!PageInitOf(views)
    PROVE  PageInv
<1>1. /\ seen = [id |-> None, active |-> FALSE, terminal |-> FALSE, polling |-> FALSE]
      /\ sse = None /\ mut = None /\ route = First
      /\ srv \in tab.rows /\ tab \in views
      /\ client = [cur |-> None, strayed |-> FALSE, error |-> FALSE, fetchOn |-> None,
                   events |-> <<>>, spend |-> None, cache |-> [x \in Execs |-> None],
                   gets |-> [x \in Execs |-> None], polls |-> {}, evs |-> {}, spends |-> {}]
  BY DEF Page!PageInitOf
<1>2. PageTyped
  BY <1>1, PageAssumption DEF Page!PageAssumption, PageTyped
<1>3. MutationInv /\ StreamInv
  BY <1>1 DEF MutationInv, StreamInv
<1>4. /\ client.cur = None /\ client.strayed = FALSE /\ client.error = FALSE
      /\ client.fetchOn = None /\ client.cache = [x \in Execs |-> None]
      /\ client.gets = [x \in Execs |-> None] /\ client.polls = {} /\ IsStore(client)
      /\ seen.id = None
  BY <1>1 DEF IsStore
<1>5. StoreInv(client, seen.id)
  BY <1>4, PageAssumption DEF Page!PageAssumption, StoreInv, StoreTyped, StoreTrue, StoreFollows,
     Requests, Tells, Page!Statuses
<1> QED
  BY <1>2, <1>3, <1>5 DEF PageInv

LEMMA AtRestShowsOutcome ==
    ASSUME PageInv, Page!AtRest, Page!Over, ~client.error, ~client.strayed,
           ~(sse # None /\ sse.state = "dead")
    PROVE  client.cur = [id |-> route, st |-> srv[route].st]
<1>1. /\ seen.id = route /\ seen.active = Page!IsActive(client)
      /\ \A x \in Execs : client.gets[x] = None
  BY DEF Page!AtRest, Page!Rendered
<1>2. route \in Execs /\ route # None
  BY PageAssumption DEF Page!PageAssumption, PageInv, PageTyped
<1>3. client.cur # None /\ client.cur \in Page!Statused /\ client.cur.id = route
  BY <1>1, <1>2 DEF PageInv, StoreInv, StoreTyped, StoreFollows
<1>4. CASE client.cur.st \in Page!TERMINAL_STATUSES
  BY <1>3, <1>4 DEF PageInv, StoreInv, StoreTrue, Tells, Page!Statused
<1>5. CASE client.cur.st \notin Page!TERMINAL_STATUSES
  <2>1. seen.active
    BY <1>1, <1>3, <1>5 DEF Page!IsActive
  <2>2. sse # None /\ sse.id = route
    BY <1>1, <2>1 DEF PageInv, StreamInv
  <2>3. srv[sse.id].st \notin Page!TERMINAL_STATUSES
    BY <2>2 DEF Page!AtRest, Page!StreamAtRest
  <2> QED
    BY <2>2, <2>3 DEF Page!Over
<1> QED
  BY <1>4, <1>5

(***************************************************************************)
(* The log of an execution: what addEvents makes of a batch.               *)
(***************************************************************************)
Logged == [id : Execs, n : Nat]

\* What of a batch that starts after event a is not newer than the event n.
Stale(a, n) == IF n > a THEN n - a ELSE 0
Longer(n, k) == IF n > k THEN n - k ELSE 0

\* Events in the order of their numbers, without a gap, and all that follow
\* event x.
Rising(ev) == \A i \in 2..Len(ev) : ev[i - 1].n < ev[i].n
Gapless(ev) == \A i \in 2..Len(ev) : ev[i].n = ev[i - 1].n + 1
Follows(k, x) == \A j \in 1..Len(k) : k[j].n = x + j

\* A batch: the events that follow event a, one after the other.
IsBatch(new, a) ==
    /\ new \in Seq(Logged) /\ a \in Int /\ a >= -1
    /\ Follows(new, a)

\* The recursive function of Newer.
IsNewer(u, new, n) ==
    u = [i \in 0..Len(new) |->
            IF i = 0 THEN <<>>
            ELSE IF new[i].n > n THEN Append(u[i - 1], new[i]) ELSE u[i - 1]]

\* That the first i events of the batch leave all but the stale ones.
Leaves(s, new, a, n, i) ==
    /\ s \in Seq(Logged) /\ Len(s) = Longer(i, Stale(a, n))
    /\ \A j \in 1..Len(s) : s[j] = new[Stale(a, n) + j]

LEMMA PartIsSeq ==
    ASSUME NEW S, NEW s \in Seq(S), NEW d \in Nat, NEW k \in Nat, d + k <= Len(s),
           NEW p, p = [j \in 1..k |-> s[d + j]]
    PROVE  p \in Seq(S) /\ Len(p) = k /\ \A j \in 1..k : p[j] = s[d + j]
<1>1. \A j \in 1..k : d + j \in 1..Len(s) /\ s[d + j] \in S
  <2>1. Len(s) \in Nat
    OBVIOUS
  <2>2. \A j \in 1..k : d + j \in 1..Len(s)
    BY <2>1
  <2> QED
    BY <2>2, ElementOfSeq
<1> QED
  BY <1>1

LEMMA NewerExists ==
    ASSUME NEW new, NEW a, IsBatch(new, a), NEW n \in Int
    PROVE  \E u : IsNewer(u, new, n)
<1> DEFINE d == Stale(a, n)
           w == [i \in 0..Len(new) |-> [j \in 1..Longer(i, d) |-> new[d + j]]]
<1>1. d \in Nat /\ Len(new) \in Nat /\ a \in Int /\ new \in Seq(Logged)
  BY DEF IsBatch, Stale
<1>2. \A i \in 0..Len(new) :
        w[i] = IF i = 0 THEN <<>>
               ELSE IF new[i].n > n THEN Append(w[i - 1], new[i]) ELSE w[i - 1]
  <2> SUFFICES ASSUME NEW i \in 0..Len(new)
               PROVE  w[i] = IF i = 0 THEN <<>>
                             ELSE IF new[i].n > n THEN Append(w[i - 1], new[i]) ELSE w[i - 1]
    OBVIOUS
  <2>1. w[i] = [j \in 1..Longer(i, d) |-> new[d + j]]
    OBVIOUS
  <2>2. CASE i = 0
    <3>1. Longer(i, d) = 0
      BY <1>1, <2>2 DEF Longer
    <3> QED
      BY <2>1, <2>2, <3>1
  <2>3. CASE i # 0
    <3>1. i - 1 \in 0..Len(new) /\ i \in 1..Len(new)
      BY <1>1, <2>3
    <3>2. w[i - 1] = [j \in 1..Longer(i - 1, d) |-> new[d + j]]
      BY <3>1
    <3>3. new[i].n = a + i
      BY <3>1 DEF IsBatch, Follows
    <3> HIDE DEF w
    <3>4. new[i].n > n <=> i > d
      BY <1>1, <3>1, <3>3 DEF Stale
    <3>5. CASE i > d
      <4>1. Longer(i, d) = Longer(i - 1, d) + 1 /\ Longer(i, d) = i - d /\ Longer(i - 1, d) \in Nat
        BY <1>1, <3>1, <3>5 DEF Longer
      <4> HIDE DEF d
      <4>2. PICK k \in Nat : k = Longer(i - 1, d)
        BY <4>1
      <4>3. \A j \in 1..(k + 1) : d + j \in 1..Len(new)
        BY <1>1, <3>1, <4>1, <4>2
      <4>4. w[i] = [j \in 1..(k + 1) |-> new[d + j]] /\ w[i - 1] = [j \in 1..k |-> new[d + j]]
        BY <2>1, <3>2, <4>1, <4>2
      <4>5. d + (k + 1) = i
        BY <1>1, <3>1, <4>1, <4>2
      <4>6. w[i - 1] \in Seq(Logged) /\ Len(w[i - 1]) = k /\ w[i] \in Seq(Logged) /\ Len(w[i]) = k + 1
        <5>1. d + k <= Len(new) /\ d + (k + 1) <= Len(new) /\ d \in Nat /\ k + 1 \in Nat
          BY <1>1, <3>1, <4>5
        <5> QED
          BY <1>1, <4>4, <5>1, PartIsSeq
      <4>7. w[i] = Append(w[i - 1], new[i])
        <5>1. PICK e \in Logged : e = new[i]
          BY <1>1, <3>1
        <5>2. /\ Append(w[i - 1], e) \in Seq(Logged) /\ Len(Append(w[i - 1], e)) = k + 1
              /\ \A j \in 1..k : Append(w[i - 1], e)[j] = new[d + j]
              /\ Append(w[i - 1], e)[k + 1] = e
          BY <4>4, <4>6, AppendProperties
        <5>3. \A j \in 1..(k + 1) : w[i][j] = Append(w[i - 1], e)[j]
          BY <4>4, <4>5, <5>1, <5>2
        <5> QED
          BY <4>6, <5>1, <5>2, <5>3, SeqEqual
      <4> QED
        BY <2>3, <3>4, <3>5, <4>7
    <3>6. CASE i <= d
      <4>1. Longer(i, d) = 0 /\ Longer(i - 1, d) = 0
        BY <1>1, <3>1, <3>6 DEF Longer
      <4>2. ~ (i > d)
        BY <1>1, <3>1, <3>6
      <4> QED
        BY <2>1, <2>3, <3>2, <3>4, <4>1, <4>2
    <3> QED
      BY <1>1, <3>1, <3>5, <3>6
  <2> QED
    BY <2>2, <2>3
<1>3. w = [i \in 0..Len(new) |-> w[i]]
  OBVIOUS
<1>4. IsNewer(w, new, n)
  <2> HIDE DEF w
  <2> QED
    BY <1>2, <1>3 DEF IsNewer
<1> QED
  BY <1>4

(* The induction over the naturals that the history of the studio rests on *)
(* too (StudioHistoryProofs).                                              *)
LEMMA LessIsWellFounded == IsWellFoundedOn({p \in Nat \X Nat : p[1] < p[2]}, Nat)
BY NatLessThanWellFounded DEF OpToRel

LEMMA NatSetInduction ==
    ASSUME NEW T \in SUBSET Nat, 0 \in T, \A n \in T : n + 1 \in T
    PROVE  T = Nat
<1> DEFINE R == {p \in Nat \X Nat : p[1] < p[2]}
<1> SUFFICES ASSUME Nat \ T # {}
             PROVE  FALSE
  OBVIOUS
<1>1. PICK n \in Nat \ T : \A m \in Nat \ T : ~ (<<m, n>> \in R)
  <2>1. IsWellFoundedOn(R, Nat)
    BY LessIsWellFounded
  <2> HIDE DEF R
  <2> QED
    BY <2>1, WFMin
<1>2. n # 0 /\ n - 1 \in Nat /\ <<n - 1, n>> \in R
  OBVIOUS
<1>3. (n - 1) + 1 \in T
  <2> HIDE DEF R
  <2>1. n - 1 \in T
    BY <1>1, <1>2
  <2> QED
    BY <2>1
<1> QED
  BY <1>3

LEMMA NewerOfBatch ==
    ASSUME NEW new, NEW a, IsBatch(new, a), NEW n \in Int
    PROVE  Leaves(Page!Newer(new, n), new, a, n, Len(new))
<1>1. PICK u : IsNewer(u, new, n) /\ Page!Newer(new, n) = u[Len(new)]
  <2>1. PICK v : v = CHOOSE x : IsNewer(x, new, n)
    OBVIOUS
  <2>2. IsNewer(v, new, n)
    BY <2>1, NewerExists
  <2>3. Page!Newer(new, n) = v[Len(new)]
    BY <2>1 DEF Page!Newer, IsNewer
  <2> QED
    BY <2>2, <2>3
<1>2. /\ Stale(a, n) \in Nat /\ Len(new) \in Nat /\ a \in Int /\ new \in Seq(Logged)
      /\ \A j \in 1..Len(new) : new[j].n = a + j
  BY DEF IsBatch, Stale, Follows
<1> DEFINE after(i) == IF new[i].n > n THEN Append(u[i - 1], new[i]) ELSE u[i - 1]
<1>3. PICK k \in Nat : k = Len(new)
  BY <1>2
<1>4. u[0] = <<>> /\ \A i \in 1..k : u[i] = after(i)
  <2>1. u = [i \in 0..k |-> IF i = 0 THEN <<>> ELSE after(i)]
    BY <1>1, <1>3 DEF IsNewer
  <2> HIDE DEF after
  <2> QED
    BY <2>1
<1> DEFINE T == {i \in Nat : i <= Len(new) => Leaves(u[i], new, a, n, i)}
<1>5. 0 \in T
  <2>1. Longer(0, Stale(a, n)) = 0 /\ u[0] \in Seq(Logged) /\ Len(u[0]) = 0
    BY <1>2, <1>4, EmptySeq DEF Longer
  <2> QED
    BY <2>1 DEF Leaves
<1>6. ASSUME NEW i \in T
      PROVE  i + 1 \in T
  <2> SUFFICES ASSUME i + 1 <= Len(new)
               PROVE  Leaves(u[i + 1], new, a, n, i + 1)
    OBVIOUS
  <2>1. Leaves(u[i], new, a, n, i) /\ i + 1 \in 1..Len(new) /\ i \in Nat
    BY <1>2
  <2>2. PICK d \in Nat : d = Stale(a, n)
    BY <1>2
  <2>3. new[i + 1].n > n <=> i + 1 > d
    BY <1>2, <2>1, <2>2 DEF Stale
  <2>4. PICK s : s = u[i]
    OBVIOUS
  <2>5. u[i + 1] = IF i + 1 > d THEN Append(s, new[i + 1]) ELSE s
    BY <1>3, <1>4, <2>1, <2>3, <2>4
  <2>6. /\ s \in Seq(Logged) /\ Len(s) = Longer(i, d)
        /\ \A j \in 1..Len(s) : s[j] = new[d + j]
    BY <2>1, <2>2, <2>4 DEF Leaves
  <2>7. CASE i + 1 > d
    <3>1. Len(s) = i - d /\ Longer(i + 1, d) = i + 1 - d
      BY <2>1, <2>6, <2>7 DEF Longer
    <3>2. PICK e \in Logged : e = new[i + 1]
      BY <1>2, <2>1
    <3>3. u[i + 1] = Append(s, e)
      BY <2>5, <2>7, <3>2
    <3>4. /\ Append(s, e) \in Seq(Logged) /\ Len(Append(s, e)) = i + 1 - d
          /\ \A j \in 1..Len(Append(s, e)) : Append(s, e)[j] = new[d + j]
      <4>1. /\ Append(s, e) \in Seq(Logged) /\ Len(Append(s, e)) = Len(s) + 1
            /\ \A j \in 1..Len(s) : Append(s, e)[j] = s[j]
            /\ Append(s, e)[Len(s) + 1] = e
        BY <2>6, AppendProperties
      <4>2. Len(s) + 1 = i + 1 - d /\ d + (Len(s) + 1) = i + 1 /\ Len(s) \in Nat
        BY <2>1, <2>6, <3>1
      <4> QED
        BY <2>6, <3>2, <4>1, <4>2
    <3> QED
      BY <2>2, <3>1, <3>3, <3>4 DEF Leaves
  <2>8. CASE ~ (i + 1 > d)
    BY <2>1, <2>2, <2>5, <2>6, <2>8 DEF Leaves, Longer
  <2> QED
    BY <2>7, <2>8
<1>7. T = Nat
  <2> HIDE DEF T
  <2>1. T \subseteq Nat
    BY DEF T
  <2> QED
    BY <1>5, <1>6, <2>1, NatSetInduction
<1>8. Leaves(u[Len(new)], new, a, n, Len(new))
  BY <1>2, <1>7
<1> QED
  BY <1>1, <1>8

\* The log shown is in order and no longer than what a tab keeps.
Ordered(ev) == ev \in Seq(Logged) /\ Len(ev) <= MaxEvents /\ Rising(ev)

\* It has no gap, and begins with the first event or as far back as it may.
Kept(n) == IF n > MaxEvents THEN MaxEvents ELSE n
Whole(ev) == Gapless(ev) /\ Len(ev) = Kept(Page!LastSeq(ev) + 1)

LEMMA LastSeqOf ==
    ASSUME NEW ev \in Seq(Logged)
    PROVE  /\ Page!LastSeq(ev) \in Int /\ Page!LastSeq(ev) >= -1 /\ Len(ev) \in Nat
           /\ Len(ev) = 0 => Page!LastSeq(ev) = -1
           /\ Len(ev) # 0 => Page!LastSeq(ev) = ev[Len(ev)].n
<1>1. CASE ev = <<>>
  BY <1>1 DEF Page!LastSeq
<1>2. CASE ev # <<>>
  <2>1. Len(ev) \in 1..Len(ev) /\ Len(ev) # 0
    BY <1>2, EmptySeq
  <2>2. ev[Len(ev)] \in Logged
    BY <2>1, ElementOfSeq
  <2> QED
    BY <1>2, <2>1, <2>2 DEF Page!LastSeq, Page!Last, Logged
<1> QED
  BY <1>1, <1>2

LEMMA Successor == \A x, y \in Int : x >= y => y < x + 1 /\ (x = y => x + 1 = y + 1)
OBVIOUS

\* What the log ev is with the events k added, which follow event x.
IsJoined(f, ev, k, x, l) ==
    /\ f \in Seq(Logged) /\ Len(f) = Len(ev) + Len(k) /\ Rising(f)
    /\ Whole(ev) /\ x = l => Gapless(f)
    /\ k = <<>> => Page!LastSeq(f) = l
    /\ k # <<>> => Page!LastSeq(f) = x + Len(k)

LEMMA JoinedLog ==
    ASSUME NEW ev, Ordered(ev), NEW l \in Int, l = Page!LastSeq(ev),
           NEW k \in Seq(Logged), NEW x \in Int, x >= l, Follows(k, x),
           NEW f, f = ev \o k
    PROVE  IsJoined(f, ev, k, x, l)
<1>1. x >= l
  OBVIOUS
<1>2. /\ ev \in Seq(Logged) /\ Len(ev) \in Nat /\ Len(k) \in Nat
      /\ Len(ev) # 0 => l = ev[Len(ev)].n
  BY LastSeqOf DEF Ordered
<1>3. /\ f \in Seq(Logged) /\ Len(f) = Len(ev) + Len(k)
      /\ \A i \in 1..Len(f) : f[i] = IF i <= Len(ev) THEN ev[i] ELSE k[i - Len(ev)]
  BY <1>2, ConcatProperties
<1>4. \A i \in 1..Len(f) : f[i] \in Logged /\ f[i].n \in Nat
  <2>1. \A i \in 1..Len(f) : f[i] \in Logged
    BY <1>3, ElementOfSeq
  <2> QED
    BY <2>1 DEF Logged
<1>5. ASSUME NEW i \in 2..Len(f)
      PROVE  /\ f[i - 1].n < f[i].n
             /\ Whole(ev) /\ x = l => f[i].n = f[i - 1].n + 1
  <2>1. i \in 1..Len(f) /\ i - 1 \in 1..Len(f) /\ i \in Nat
    BY <1>2, <1>3
  <2>2. CASE i <= Len(ev)
    <3>1. f[i] = ev[i] /\ f[i - 1] = ev[i - 1] /\ i \in 2..Len(ev)
      BY <1>2, <1>3, <2>1, <2>2
    <3> QED
      BY <3>1 DEF Ordered, Whole, Rising, Gapless
  <2>3. CASE i = Len(ev) + 1
    <3>1. f[i] = k[1] /\ f[i - 1] = ev[Len(ev)] /\ 1 \in 1..Len(k) /\ Len(ev) # 0
      BY <1>2, <1>3, <2>1, <2>3
    <3>2. f[i].n = x + 1 /\ f[i - 1].n = l
      BY <1>2, <3>1 DEF Follows
    <3>3. l < x + 1 /\ (x = l => x + 1 = l + 1)
      BY Successor
    <3> QED
      BY <3>2, <3>3
  <2>4. CASE i > Len(ev) + 1
    <3>1. PICK j : j = i - Len(ev)
      OBVIOUS
    <3>2. f[i] = k[j] /\ f[i - 1] = k[j - 1] /\ j \in 1..Len(k) /\ j - 1 \in 1..Len(k)
      <4>1. i - 1 - Len(ev) = j - 1
        BY <1>2, <2>1, <3>1
      <4> QED
        BY <1>2, <1>3, <2>1, <2>4, <3>1, <4>1
    <3>3. f[i].n = x + j /\ f[i - 1].n = x + (j - 1)
      BY <3>2 DEF Follows
    <3> QED
      BY <3>2, <3>3
  <2>5. i <= Len(ev) \/ i = Len(ev) + 1 \/ i > Len(ev) + 1
    BY <1>2, <2>1
  <2> QED
    BY <2>2, <2>3, <2>4, <2>5
<1>51. Rising(f) /\ (Whole(ev) /\ x = l => Gapless(f))
  BY <1>1, <1>5 DEF Rising, Gapless
<1>6. CASE k = <<>>
  <2>1. Len(k) = 0
    BY <1>6
  <2>2. f = ev
    BY <1>2, <1>3, <2>1, SeqEqual
  <2> QED
    BY <1>2, <1>3, <1>51, <1>6, <2>1, <2>2 DEF IsJoined
<1>7. CASE k # <<>>
  <2>1. Len(k) \in 1..Len(k) /\ Len(f) # 0 /\ Len(f) \in 1..Len(f)
    BY <1>2, <1>3, <1>7, EmptySeq
  <2>2. f[Len(f)] = k[Len(k)]
    <3>1. Len(f) - Len(ev) = Len(k) /\ ~ (Len(f) <= Len(ev))
      BY <1>2, <1>3, <2>1
    <3> QED
      BY <1>3, <2>1, <3>1
  <2>3. Page!LastSeq(f) = x + Len(k)
    BY <1>3, <2>1, <2>2, LastSeqOf DEF Follows
  <2> QED
    BY <1>3, <1>51, <1>7, <2>3 DEF IsJoined
<1> QED
  BY <1>6, <1>7

\* Where what is kept of n events begins.
Begin(n) == IF n > MaxEvents THEN n - MaxEvents + 1 ELSE 1

LEMMA BeginOf ==
    ASSUME NEW n \in Nat
    PROVE  /\ Begin(n) \in Nat /\ Begin(n) >= 1 /\ n - Begin(n) + 1 = Kept(n)
           /\ Kept(n) \in Nat /\ Kept(n) <= MaxEvents /\ (Kept(n) = 0 <=> n = 0)
           /\ Begin(n) <= n \/ n = 0
<1>1. MaxEvents \in Nat \ {0}
  BY PageAssumption DEF Page!PageAssumption
<1> QED
  BY <1>1 DEF Begin, Kept

LEMMA KeptAdds ==
    ASSUME NEW n \in Nat, NEW j \in Nat
    PROVE  Kept(Kept(n) + j) = Kept(n + j)
<1>1. MaxEvents \in Nat \ {0}
  BY PageAssumption DEF Page!PageAssumption
<1> QED
  BY <1>1 DEF Kept

LEMMA CutLog ==
    ASSUME NEW f \in Seq(Logged), Rising(f), NEW g, g = SubSeq(f, Begin(Len(f)), Len(f))
    PROVE  /\ Ordered(g) /\ Page!LastSeq(g) = Page!LastSeq(f) /\ Len(g) = Kept(Len(f))
           /\ Gapless(f) => Gapless(g)
<1>1. PICK n \in Nat : n = Len(f)
  OBVIOUS
<1>2. PICK b \in Nat : b = Begin(n)
  BY BeginOf
<1>3. PICK k \in Nat : k = Kept(n)
  BY BeginOf
<1>4. b >= 1 /\ n - b + 1 = k /\ (b <= n \/ n = 0) /\ k <= MaxEvents /\ (k = 0 <=> n = 0)
  BY <1>2, <1>3, BeginOf
<1>5. \A i \in b..n : f[i] \in Logged
  <2>1. \A i \in b..n : i \in 1..Len(f)
    BY <1>1, <1>4
  <2> QED
    BY <2>1, ElementOfSeq
<1>6. g = SubSeq(f, b, n)
  BY <1>1, <1>2
<1>7. g \in Seq(Logged) /\ Len(g) = k /\ \A i \in 1..k : g[i] = f[b + i - 1]
  <2>1. b \in Int /\ n \in Int
    OBVIOUS
  <2>2. /\ SubSeq(f, b, n) \in Seq(Logged)
        /\ Len(SubSeq(f, b, n)) = IF b <= n THEN n - b + 1 ELSE 0
        /\ \A i \in 1..(n - b + 1) : SubSeq(f, b, n)[i] = f[b + i - 1]
    BY <1>5, <2>1, SubSeqProperties
  <2>3. (IF b <= n THEN n - b + 1 ELSE 0) = k
    BY <1>4
  <2> QED
    BY <1>4, <1>6, <2>2, <2>3
<1>8. ASSUME NEW i \in 2..Len(g)
      PROVE  /\ g[i - 1] = f[(b + i - 1) - 1] /\ g[i] = f[b + i - 1]
             /\ b + i - 1 \in 2..Len(f)
  <2>1. i \in 2..k
    BY <1>7
  <2>2. i \in 1..k /\ i - 1 \in 1..k
    BY <2>1
  <2>3. g[i] = f[b + i - 1] /\ g[i - 1] = f[b + (i - 1) - 1]
    BY <1>7, <2>2
  <2>4. b + (i - 1) - 1 = (b + i - 1) - 1 /\ b + i - 1 \in 2..Len(f)
    BY <1>1, <1>4, <2>1
  <2> QED
    BY <2>3, <2>4
<1>9. Rising(g) /\ (Gapless(f) => Gapless(g))
  BY <1>8 DEF Rising, Gapless
<1>10. Ordered(g)
  BY <1>4, <1>7, <1>9 DEF Ordered
<1>11. Page!LastSeq(g) = Page!LastSeq(f)
  <2>1. CASE n = 0
    BY <1>1, <1>4, <1>7, <2>1, LastSeqOf
  <2>2. CASE n # 0
    <3>1. k # 0 /\ k \in 1..k /\ b + k - 1 = n
      BY <1>4, <2>2
    <3>2. g[k] = f[n]
      BY <1>7, <3>1
    <3> QED
      BY <1>1, <1>7, <2>2, <3>1, <3>2, LastSeqOf
  <2> QED
    BY <2>1, <2>2
<1> QED
  BY <1>1, <1>3, <1>7, <1>9, <1>10, <1>11

\* What the log is after a batch that follows event a.
IsGrown(g, ev, new, a) ==
    /\ Ordered(g) /\ Page!LastSeq(g) >= Page!LastSeq(ev)
    /\ Page!LastSeq(g) \in {Page!LastSeq(ev), a + Len(new)}
    /\ new # <<>> => Page!LastSeq(g) >= a + Len(new)
    /\ Whole(ev) /\ a <= Page!LastSeq(ev) => Whole(g)

LEMMA AddedEvents ==
    ASSUME NEW ev, Ordered(ev), NEW new, NEW a, IsBatch(new, a),
           NEW k, k = Page!Newer(new, Page!LastSeq(ev)), NEW f, f = ev \o k,
           NEW g, g = SubSeq(f, Begin(Len(f)), Len(f))
    PROVE  IsGrown(g, ev, new, a)
<1>1. PICK l \in Int : l = Page!LastSeq(ev) /\ l >= -1
  BY LastSeqOf DEF Ordered
<1>2. PICK d : d = Stale(a, l)
  OBVIOUS
<1>3. PICK n : n = Len(new)
  OBVIOUS
<1>4. PICK x : x = a + d
  OBVIOUS
<1>5. d \in Nat /\ a \in Int /\ n \in Nat /\ x \in Int /\ x >= l /\ (a <= l => x = l)
  BY <1>1, <1>2, <1>3, <1>4 DEF IsBatch, Stale
<1>6. /\ k \in Seq(Logged) /\ Len(k) = Longer(n, d) /\ \A j \in 1..Len(k) : k[j] = new[d + j]
  BY <1>1, <1>2, <1>3, NewerOfBatch DEF Leaves
<1>7. Follows(k, x)
  <2> SUFFICES ASSUME NEW j \in 1..Len(k)
               PROVE  k[j].n = x + j
    BY DEF Follows
  <2>1. d + j \in 1..Len(new)
    BY <1>3, <1>5, <1>6 DEF Longer
  <2>2. k[j].n = a + (d + j)
    BY <1>6, <2>1 DEF IsBatch, Follows
  <2> QED
    BY <1>4, <1>5, <2>2
<1>8. Len(k) \in Nat /\ (k = <<>> <=> Len(k) = 0)
  BY <1>6, EmptySeq
<1>9. /\ f \in Seq(Logged) /\ Len(f) = Len(ev) + Len(k)
      /\ Rising(f)
      /\ Whole(ev) /\ x = l => Gapless(f)
      /\ k = <<>> => Page!LastSeq(f) = l
      /\ k # <<>> => Page!LastSeq(f) = x + Len(k)
  <2>1. x \in Int /\ x >= l /\ k \in Seq(Logged) /\ Follows(k, x) /\ l = Page!LastSeq(ev)
    BY <1>1, <1>5, <1>6, <1>7
  <2>2. IsJoined(f, ev, k, x, l)
    BY <2>1, JoinedLog
  <2> QED
    BY <2>2 DEF IsJoined
<1>10. /\ Ordered(g) /\ Page!LastSeq(g) = Page!LastSeq(f) /\ Len(g) = Kept(Len(f))
       /\ Gapless(f) => Gapless(g)
  BY <1>9, CutLog
<1>11. PICK t : t = Page!LastSeq(g)
  OBVIOUS
<1>12. t >= l /\ (n # 0 => t >= a + n) /\ t \in {l, a + n}
  <2>1. t = IF Len(k) = 0 THEN l ELSE x + Len(k)
    BY <1>8, <1>9, <1>10, <1>11
  <2>2. x = (IF l > a THEN l ELSE a) /\ x = a + d
    BY <1>1, <1>2, <1>4, <1>5 DEF Stale
  <2>3. Len(k) = IF n > d THEN n - d ELSE 0
    BY <1>6 DEF Longer
  <2>4. Len(k) # 0 => x + Len(k) = a + n
    BY <1>5, <2>2, <2>3
  <2> QED
    BY <1>1, <1>5, <1>8, <2>1, <2>2, <2>3, <2>4
<1>13. ASSUME Whole(ev), a <= l
       PROVE  Whole(g)
  <2>1. PICK e \in Nat : e = Len(ev)
    BY DEF Ordered
  <2>2. x = l /\ e = Kept(l + 1) /\ t = l + Len(k)
    BY <1>1, <1>5, <1>8, <1>9, <1>10, <1>11, <1>13, <2>1 DEF Whole
  <2>3. Kept(e + Len(k)) = Kept(t + 1)
    <3>1. PICK j \in Nat : j = Len(k)
      BY <1>8
    <3>2. l + 1 \in Nat /\ t + 1 = l + 1 + j
      <4>1. l \in Int /\ -1 <= l /\ t = l + j
        BY <1>1, <2>2, <3>1
      <4>2. \A u, v, w \in Int : -1 <= u /\ w = u + v => u + 1 \in Nat /\ w + 1 = u + 1 + v
        OBVIOUS
      <4> QED
        BY <3>1, <4>1, <4>2
    <3> QED
      BY <2>2, <3>1, <3>2, KeptAdds
  <2> QED
    BY <1>9, <1>10, <1>11, <1>13, <2>1, <2>2, <2>3 DEF Whole
<1>14. new # <<>> => n # 0
  BY <1>3, EmptySeq DEF IsBatch
<1> QED
  BY <1>1, <1>3, <1>10, <1>11, <1>12, <1>13, <1>14 DEF IsGrown

LEMMA AddEventsLog ==
    ASSUME NEW c, IsStore(c), Ordered(c.events), NEW new, NEW a, IsBatch(new, a),
           NEW d, d = Page!AddEvents(c, new)
    PROVE  IsGrown(d.events, c.events, new, a) /\ d.evs = c.evs /\ IsStore(d)
<1>1. PICK k : k = Page!Newer(new, Page!LastSeq(c.events))
  OBVIOUS
<1>2. PICK f : f = c.events \o k
  OBVIOUS
<1>3. PICK g : g = SubSeq(f, Begin(Len(f)), Len(f))
  OBVIOUS
<1>4. d = [c EXCEPT !.events = g]
  BY <1>1, <1>2, <1>3 DEF Page!AddEvents, Begin
<1>5. d.events = g /\ d.evs = c.evs /\ IsStore(d)
  BY <1>4 DEF IsStore
<1>6. PICK ev : ev = c.events
  OBVIOUS
<1>7. IsGrown(g, ev, new, a)
  <2>1. Ordered(ev) /\ k = Page!Newer(new, Page!LastSeq(ev)) /\ f = ev \o k
    BY <1>1, <1>2, <1>6
  <2> QED
    BY <1>3, <2>1, AddedEvents
<1> QED
  BY <1>5, <1>6, <1>7

\* A request for the events that follow an event.
IsAsked(g) == g.id \in Execs /\ g.after \in Int /\ g.after >= -1 /\ g.sent \in Nat

LogTyped(c) == Ordered(c.events) /\ \A g \in c.evs : IsAsked(g)

\* The log has no gap, and no request in flight asks for what leaves one.
Covers(c) == Whole(c.events) /\ \A g \in c.evs : g.after <= Page!LastSeq(c.events)

\* What a stream that works has queued, the status first; and the number of
\* the event it is to deliver next.
QueueOf(s) ==
    /\ s.state \in {"down", "dead"} => s.q = <<>>
    /\ \A i \in 2..Len(s.q) : s.q[i].type = "event"
    /\ \A i \in 1..Len(s.q) :
         s.q[i].type = "event" => s.q[i].n = s.n - 1 - (Len(s.q) - i)
Due(s) == s.n - Len(s.q) + (IF s.q # <<>> /\ s.q[1].type = "status" THEN 1 ELSE 0)

\* It delivers next what the log lacks next, or what it has.
Meets(s, c) == s.state \in {"open", "ended"} => Due(s) <= Page!LastSeq(c.events) + 1

\* On the first page of a tab.
FirstPage ==
    visits = 1 =>
      /\ route = First /\ seen.id \in {None, First} /\ Covers(client)
      /\ seen.id = None => client.events = <<>> /\ client.evs = {}
      /\ sse # None => Meets(sse, client)

LogInv ==
    visits \in Nat \ {0} /\ LogTyped(client) /\ (sse # None => QueueOf(sse)) /\ FirstPage

\* The log stays, and what is asked for follows it.
Asks(c, d) ==
    /\ d.events = c.events
    /\ \A g \in d.evs : g \in c.evs \/ (IsAsked(g) /\ g.after = Page!LastSeq(c.events))

LEMMA AskedLog ==
    ASSUME NEW c, NEW d, Asks(c, d), LogTyped(c)
    PROVE  /\ LogTyped(d) /\ (Covers(c) => Covers(d))
           /\ \A s : Meets(s, c) => Meets(s, d)
<1>1. Ordered(c.events) /\ d.events = c.events
  BY DEF Asks, LogTyped
<1>2. LogTyped(d)
  BY <1>1 DEF Asks, LogTyped
<1>3. PICK l \in Int : l = Page!LastSeq(c.events) /\ l = Page!LastSeq(d.events)
  BY <1>1, LastSeqOf DEF Ordered
<1>4. ASSUME Covers(c)
      PROVE  Covers(d)
  <2>1. Whole(d.events)
    BY <1>1, <1>4 DEF Covers
  <2>2. ASSUME NEW g \in d.evs
        PROVE  g.after <= Page!LastSeq(d.events)
    <3>1. g \in c.evs \/ g.after = l
      BY <1>3 DEF Asks
    <3>2. CASE g \in c.evs
      BY <1>3, <1>4, <3>2 DEF Covers
    <3>3. CASE g.after = l
      <4>1. l <= l
        OBVIOUS
      <4> QED
        BY <1>3, <3>3, <4>1
    <3> QED
      BY <3>1, <3>2, <3>3
  <2> QED
    BY <2>1, <2>2 DEF Covers
<1>5. \A s : Meets(s, c) => Meets(s, d)
  BY <1>1 DEF Meets
<1> QED
  BY <1>2, <1>4, <1>5

LEMMA AsksChain ==
    ASSUME NEW c, NEW d, NEW e, Asks(c, d), Asks(d, e)
    PROVE  Asks(c, e)
BY DEF Asks

LEMMA FetchExecutionAsks ==
    ASSUME NEW c, IsStore(c), NEW x, NEW d, d = Page!FetchExecution(c, x)
    PROVE  d.events = c.events /\ d.evs = c.evs /\ IsStore(d) /\ Asks(c, d)
<1>1. d.events = c.events /\ d.evs = c.evs /\ IsStore(d)
  BY DEF IsStore, Page!FetchExecution, Page!Get
<1> QED
  BY <1>1 DEF Asks

LEMMA FetchEventsAsks ==
    ASSUME NEW c, IsStore(c), LogTyped(c), NEW x \in Execs, srv[x].n \in Nat,
           NEW d, d = Page!FetchEvents(c, x)
    PROVE  Asks(c, d) /\ IsStore(d)
<1>1. PICK l \in Int : l = Page!LastSeq(c.events) /\ l >= -1
  BY LastSeqOf DEF LogTyped, Ordered
<1>2. PICK g : g = [id |-> x, after |-> l, sent |-> srv[x].n]
  OBVIOUS
<1>3. IsAsked(g) /\ g.after = l
  BY <1>1, <1>2 DEF IsAsked
<1>4. d = c \/ d = [c EXCEPT !.evs = c.evs \union {g}]
  BY <1>1, <1>2 DEF Page!FetchEvents
<1>5. IsStore(d) /\ d.events = c.events /\ (d.evs = c.evs \/ d.evs = c.evs \union {g})
  BY <1>4 DEF IsStore
<1> QED
  BY <1>1, <1>3, <1>5 DEF Asks

LEMMA FetchSpendAsks ==
    ASSUME NEW c, IsStore(c), NEW x, NEW d, d = Page!FetchSpend(c, x)
    PROVE  d.events = c.events /\ d.evs = c.evs /\ IsStore(d) /\ Asks(c, d)
<1>1. d.events = c.events /\ d.evs = c.evs /\ IsStore(d)
  BY DEF IsStore, Page!FetchSpend
<1> QED
  BY <1>1 DEF Asks

(* A step that only asks.                                                  *)
LEMMA LogAsks ==
    ASSUME PageInv, LogInv, Asks(client, client'), UNCHANGED <<route, seen, sse, visits>>,
           client'.evs = client.evs \/ seen.id # None
    PROVE  LogInv'
<1>1. LogTyped(client') /\ (Covers(client) => Covers(client'))
      /\ \A s : Meets(s, client) => Meets(s, client')
  BY AskedLog DEF LogInv
<1>2. FirstPage'
  <2> SUFFICES ASSUME visits = 1
               PROVE  /\ route = First /\ seen.id \in {None, First} /\ Covers(client')
                      /\ seen.id = None => client'.events = <<>> /\ client'.evs = {}
                      /\ sse # None => Meets(sse, client')
    BY DEF FirstPage
  <2> QED
    BY <1>1 DEF LogInv, FirstPage, Asks
<1> QED
  BY <1>1, <1>2 DEF LogInv

(* The server, the user and the answers that leave the log alone.          *)
LEMMA LogRests ==
    ASSUME PageInv, LogInv,
           \/ Page!ServerNext
           \/ \E x \in Execs : Page!AnswerExecution(x) \/ Page!FailExecution(x)
                               \/ Page!CacheExpires(x)
           \/ \E g \in client.spends : Page!AnswerSpend(g) \/ Page!FailSpend(g)
           \/ Page!AskCancel \/ Page!DismissCancel \/ Page!Reload \/ Page!OnVisible \/ Page!Tick
           \/ \E op \in {"cancel", "retry"} : Page!SendMutation(op)
           \/ Page!AnswerCancel \/ Page!MutationFails
    PROVE  LogInv'
<1>1. IsStore(client)
  BY DEF PageInv, StoreInv
<1>2. /\ client'.events = client.events /\ client'.evs = client.evs
      /\ UNCHANGED <<route, seen, sse, visits>>
  <2>1. CASE Page!ServerNext
    BY <2>1 DEF Page!ServerNext, Page!ServerEmit, Page!ServerFinish, Page!ServerCancel,
       Page!ServerRetry, Page!pageVars
  <2>2. CASE \E x \in Execs : Page!AnswerExecution(x) \/ Page!FailExecution(x)
                              \/ Page!CacheExpires(x)
    <3>1. ASSUME NEW x \in Execs, Page!AnswerExecution(x)
          PROVE  /\ client'.events = client.events /\ client'.evs = client.evs
                 /\ UNCHANGED <<route, seen, sse, visits>>
      <4>1. PICK s : client' = Page!Resolve(client, x, s)
        BY <3>1 DEF Page!AnswerExecution
      <4>2. client'.events = client.events /\ client'.evs = client.evs
        BY <1>1, <4>1 DEF Page!Resolve, IsStore
      <4> QED
        BY <3>1, <4>2 DEF Page!AnswerExecution, Page!serverVars
    <3>2. ASSUME NEW x \in Execs, Page!FailExecution(x)
          PROVE  /\ client'.events = client.events /\ client'.evs = client.evs
                 /\ UNCHANGED <<route, seen, sse, visits>>
      <4>1. client'.events = client.events /\ client'.evs = client.evs
        BY <1>1, <3>2 DEF Page!FailExecution, Page!Reject, IsStore
      <4> QED
        BY <3>2, <4>1 DEF Page!FailExecution, Page!serverVars
    <3>3. ASSUME NEW x \in Execs, Page!CacheExpires(x)
          PROVE  /\ client'.events = client.events /\ client'.evs = client.evs
                 /\ UNCHANGED <<route, seen, sse, visits>>
      BY <1>1, <3>3 DEF Page!CacheExpires, Page!serverVars, IsStore
    <3> QED
      BY <2>2, <3>1, <3>2, <3>3
  <2>3. CASE \E g \in client.spends : Page!AnswerSpend(g) \/ Page!FailSpend(g)
    BY <1>1, <2>3 DEF Page!AnswerSpend, Page!FailSpend, Page!serverVars, IsStore
  <2>4. CASE Page!AskCancel \/ Page!DismissCancel \/ Page!MutationFails
    BY <2>4 DEF Page!AskCancel, Page!DismissCancel, Page!MutationFails, Page!serverVars
  <2>5. CASE Page!Reload
    BY <1>1, <2>5, FetchExecutionAsks DEF Page!Reload, Page!serverVars
  <2>6. CASE Page!OnVisible \/ Page!Tick
    BY <1>1, <2>6 DEF Page!OnVisible, Page!Tick, Page!PollExecution, Page!Get, Page!serverVars,
       IsStore
  <2>7. CASE \E op \in {"cancel", "retry"} : Page!SendMutation(op)
    BY <1>1, <2>7 DEF Page!SendMutation, Page!InvalidateForMutation, Page!serverVars, IsStore
  <2>8. CASE Page!AnswerCancel
    BY <1>1, <2>8 DEF Page!AnswerCancel, Page!serverVars, IsStore
  <2> QED
    BY <2>1, <2>2, <2>3, <2>4, <2>5, <2>6, <2>7, <2>8
<1> QED
  BY <1>2, LogAsks DEF Asks

(* Another page: what holds of the first one only no longer has to.        *)
LEMMA LogLeaves ==
    ASSUME LogInv, (\E x \in Execs : Page!Navigate(x)) \/ Page!AnswerRetry
    PROVE  LogInv'
<1>1. visits' = visits + 1 /\ UNCHANGED <<client, sse>>
  BY DEF Page!Navigate, Page!AnswerRetry, Page!pageVars
<1>2. visits' \in Nat \ {0} /\ visits' # 1
  BY <1>1 DEF LogInv
<1> QED
  BY <1>1, <1>2 DEF LogInv, FirstPage

LEMMA LogPolls ==
    ASSUME PageInv, LogInv, Page!PollEvents
    PROVE  LogInv'
<1>1. /\ client' = Page!FetchEvents(client, seen.id) /\ UNCHANGED <<route, seen, sse, visits>>
      /\ seen.polling
  BY DEF Page!PollEvents, Page!serverVars
<1>2. seen.id \in Execs /\ srv[seen.id].n \in Nat /\ IsStore(client) /\ seen.id # None
  BY <1>1 DEF PageInv, PageTyped, StoreInv
<1>3. Asks(client, client')
  BY <1>1, <1>2, FetchEventsAsks DEF LogInv
<1> QED
  BY <1>1, <1>2, <1>3, LogAsks

\* An answer is a batch: up to as many events as there are, or as it may hold.
IsAnswer(new, a, upto) ==
    /\ IsBatch(new, a)
    /\ \/ new = <<>> /\ upto <= a + 1
       \/ new # <<>> /\ Len(new) = upto - a - 1
       \/ new # <<>> /\ Len(new) = EventsLimit /\ EventsLimit <= upto - a - 1

LEMMA BatchIsBatch ==
    ASSUME NEW x \in Execs, NEW a \in Int, a >= -1, NEW upto \in Nat, upto > a + 1
    PROVE  IsAnswer(Page!Batch(x, a, upto), a, upto)
<1>1. PICK k : k = IF upto - a - 1 > EventsLimit THEN EventsLimit ELSE upto - a - 1
  OBVIOUS
<1>2. k \in Nat
  BY <1>1, PageAssumption DEF Page!PageAssumption
<1>3. PICK b : b = Page!Batch(x, a, upto)
  OBVIOUS
<1>4. b = [i \in 1..k |-> [id |-> x, n |-> a + i]]
  BY <1>1, <1>3 DEF Page!Batch
<1>5. \A i \in 1..k : a + i \in Nat /\ [id |-> x, n |-> a + i] \in Logged
  BY <1>2 DEF Logged
<1>6. b \in Seq(Logged) /\ Len(b) = k /\ \A i \in 1..k : b[i].n = a + i
  <2>1. b \in [1..k -> Logged] /\ \A i \in 1..k : b[i] = [id |-> x, n |-> a + i]
    BY <1>4, <1>5
  <2>2. b \in Seq(Logged) /\ Len(b) = k
    BY <1>2, <2>1
  <2> QED
    BY <2>1, <2>2
<1>7. IsBatch(b, a)
  BY <1>6 DEF IsBatch, Follows
<1>8. /\ b # <<>>
      /\ Len(b) = upto - a - 1 \/ (Len(b) = EventsLimit /\ EventsLimit <= upto - a - 1)
  <2>1. k \in Nat \ {0} /\ (k = upto - a - 1 \/ (k = EventsLimit /\ EventsLimit <= upto - a - 1))
    BY <1>1, PageAssumption DEF Page!PageAssumption
  <2>2. Len(<<>>) = 0
    OBVIOUS
  <2> QED
    BY <1>6, <2>1, <2>2
<1> QED
  BY <1>3, <1>7, <1>8 DEF IsAnswer

LEMMA EventsAnswer ==
    ASSUME PageInv, LogInv, NEW g \in client.evs, Page!AnswerEvents(g),
           NEW c, c = [client EXCEPT !.evs = client.evs \ {g}]
    PROVE  \E upto \in g.sent..srv[g.id].n : \E new :
             client' = Page!AddEvents(c, new) /\ IsAnswer(new, g.after, upto)
<1>1. IsAsked(g)
  BY DEF LogInv, LogTyped
<1>2. PICK upto \in g.sent..srv[g.id].n :
        client' = Page!AddEvents(c, IF upto > g.after + 1
                                    THEN Page!Batch(g.id, g.after, upto) ELSE <<>>)
  BY DEF Page!AnswerEvents
<1>3. PICK new : new = IF upto > g.after + 1 THEN Page!Batch(g.id, g.after, upto) ELSE <<>>
  OBVIOUS
<1>4. g.sent \in Nat /\ srv[g.id].n \in Nat /\ g.id \in Execs
  BY <1>1 DEF IsAsked, PageInv, PageTyped
<1>5. upto \in Nat /\ g.after \in Int /\ g.after >= -1
  BY <1>1, <1>4 DEF IsAsked
<1>6. IsAnswer(new, g.after, upto)
  <2>1. CASE upto > g.after + 1
    BY <1>3, <1>4, <1>5, <2>1, BatchIsBatch
  <2>2. CASE ~ (upto > g.after + 1)
    <3>1. new = <<>> /\ new \in Seq(Logged) /\ Len(new) = 0
      BY <1>3, <2>2, EmptySeq
    <3>2. IsBatch(new, g.after)
      BY <1>5, <3>1 DEF IsBatch, Follows
    <3> QED
      BY <1>5, <2>2, <3>1, <3>2 DEF IsAnswer
  <2> QED
    BY <2>1, <2>2
<1> QED
  BY <1>2, <1>3, <1>6

LEMMA LogAnswered ==
    ASSUME PageInv, LogInv, NEW g \in client.evs, Page!AnswerEvents(g) \/ Page!FailEvents(g)
    PROVE  LogInv'
<1>1. PICK c : c = [client EXCEPT !.evs = client.evs \ {g}]
  OBVIOUS
<1>2. /\ IsStore(c) /\ c.events = client.events /\ c.evs = client.evs \ {g}
  BY <1>1 DEF PageInv, StoreInv, IsStore
<1>3. UNCHANGED <<srv, route, seen, sse, visits>>
  BY DEF Page!AnswerEvents, Page!FailEvents, Page!serverVars
<1>4. IsAsked(g) /\ Ordered(client.events)
  BY DEF LogInv, LogTyped
<1>5. CASE Page!FailEvents(g)
  <2>1. client' = c
    BY <1>1, <1>5 DEF Page!FailEvents
  <2>2. seen.id # None \/ visits # 1
    BY DEF LogInv, FirstPage
  <2>3. Asks(client, client')
    BY <1>2, <2>1 DEF Asks
  <2>4. LogTyped(client') /\ (Covers(client) => Covers(client'))
        /\ \A s : Meets(s, client) => Meets(s, client')
    BY <2>3, AskedLog DEF LogInv
  <2> QED
    BY <1>3, <2>2, <2>4 DEF LogInv, FirstPage
<1>6. CASE Page!AnswerEvents(g)
  <2>1. PICK new : client' = Page!AddEvents(c, new) /\ IsBatch(new, g.after)
    BY <1>1, <1>6, EventsAnswer DEF IsAnswer
  <2>3. IsBatch(new, g.after)
    BY <2>1
  <2>4. PICK d : d = Page!AddEvents(c, new)
    OBVIOUS
  <2>5. client' = d
    BY <2>1, <2>4
  <2>6. /\ Ordered(d.events) /\ Page!LastSeq(d.events) >= Page!LastSeq(c.events)
        /\ Whole(c.events) /\ g.after <= Page!LastSeq(c.events) => Whole(d.events)
        /\ d.evs = c.evs
    BY <1>2, <1>4, <2>3, <2>4, AddEventsLog DEF IsGrown
  <2>7. LogTyped(d)
    BY <1>2, <2>6 DEF LogInv, LogTyped
  <2>8. seen.id # None \/ visits # 1
    BY DEF LogInv, FirstPage
  <2>9. PICK l \in Int : l = Page!LastSeq(client.events)
    BY <1>4, LastSeqOf DEF Ordered
  <2>10. PICK t \in Int : t = Page!LastSeq(d.events)
    BY <2>6, LastSeqOf DEF Ordered
  <2>11. t >= l
    BY <1>2, <2>6, <2>9, <2>10
  <2>12. ASSUME Covers(client)
         PROVE  Covers(d)
    <3>1. Whole(d.events)
      BY <1>2, <2>6, <2>12 DEF Covers
    <3>2. ASSUME NEW r \in d.evs
          PROVE  r.after <= Page!LastSeq(d.events)
      <4>1. r \in client.evs /\ IsAsked(r)
        BY <1>2, <2>6, <3>2 DEF LogInv, LogTyped
      <4>2. PICK b \in Int : b = r.after
        BY <4>1 DEF IsAsked
      <4>3. b <= l
        BY <2>9, <2>12, <4>1, <4>2 DEF Covers
      <4>4. b <= t
        BY <2>11, <4>3
      <4> QED
        BY <2>10, <4>2, <4>4
    <3> QED
      BY <3>1, <3>2 DEF Covers
  <2>13. ASSUME sse # None, Meets(sse, client), sse.state \in {"open", "ended"}
         PROVE  Due(sse) <= t + 1
    <3>1. Due(sse) <= l + 1
      BY <2>9, <2>13 DEF Meets
    <3>2. Due(sse) \in Int
      <4>1. sse.n \in Nat /\ Len(sse.q) \in Nat
        BY <2>13, StreamFacts
      <4> QED
        BY <4>1 DEF Due
    <3>3. PICK b \in Int : b = Due(sse)
      BY <3>2
    <3>4. b <= l + 1
      BY <3>1, <3>3
    <3>5. b <= t + 1
      BY <2>11, <3>4
    <3> QED
      BY <3>3, <3>5
  <2>14. sse # None /\ Meets(sse, client) => Meets(sse, d)
    BY <2>10, <2>13 DEF Meets
  <2>15. FirstPage'
    BY <1>3, <2>5, <2>8, <2>12, <2>14 DEF LogInv, FirstPage
  <2> QED
    BY <1>3, <2>5, <2>7, <2>15 DEF LogInv
<1> QED
  BY <1>5, <1>6

(* The stream.                                                             *)
LEMMA DueOf ==
    ASSUME PageInv, sse # None
    PROVE  Due(sse) \in Int /\ (sse.q = <<>> => Due(sse) = sse.n)
BY StreamFacts DEF Due

LEMMA LogOpens ==
    ASSUME PageInv, LogInv,
           Page!StreamOpens \/ Page!StreamEnds \/ Page!StreamBreaks \/ Page!StreamRefused
    PROVE  LogInv'
<1>1. sse # None /\ UNCHANGED <<route, seen, client, visits>>
  BY DEF Page!StreamOpens, Page!StreamEnds, Page!StreamBreaks, Page!StreamRefused, Page!OnError,
     Page!sseOthers, Page!serverVars
<1>2. sse \in Page!Streams
  BY <1>1, StreamFacts
<1>3. sse'.q = <<>> /\ (sse'.state \in {"open", "ended"} => sse'.n = 0)
  <2>1. CASE Page!StreamOpens
    BY <2>1 DEF Page!StreamOpens, Page!NewStream
  <2>2. CASE Page!StreamEnds \/ Page!StreamBreaks
    BY <1>2, <2>2 DEF Page!StreamEnds, Page!StreamBreaks, Page!OnError, Page!Streams
  <2>3. CASE Page!StreamRefused
    BY <1>1, <1>2, <2>3 DEF Page!StreamRefused, Page!Streams, LogInv, QueueOf
  <2> QED
    BY <2>1, <2>2, <2>3
<1>4. QueueOf(sse')
  BY <1>3 DEF QueueOf
<1>5. Meets(sse', client)
  <2>1. PICK l \in Int : l = Page!LastSeq(client.events) /\ l >= -1
    BY LastSeqOf DEF LogInv, LogTyped, Ordered
  <2>2. sse'.state \in {"open", "ended"} => Due(sse') = 0
    BY <1>3 DEF Due
  <2>3. 0 <= l + 1
    BY <2>1
  <2> QED
    BY <2>1, <2>2, <2>3 DEF Meets
<1>6. FirstPage'
  BY <1>1, <1>5 DEF LogInv, FirstPage
<1> QED
  BY <1>1, <1>4, <1>6 DEF LogInv

LEMMA LogSends ==
    ASSUME PageInv, LogInv, Page!StreamSends
    PROVE  LogInv'
<1>1. /\ sse # None /\ sse.q = <<>> /\ sse.state = "open"
      /\ UNCHANGED <<route, seen, client, visits>>
  BY DEF Page!StreamSends, Page!sseOthers, Page!serverVars
<1>2. PICK row : row = srv[sse.id]
  OBVIOUS
<1>3. PICK status : status = IF row.st # sse.last \/ row.st \in Page!TERMINAL_STATUSES
                             THEN <<[type |-> "status", st |-> row.st]>> ELSE <<>>
  OBVIOUS
<1>4. PICK events : events = [i \in 1..(row.n - sse.n) |->
                                [type |-> "event", n |-> sse.n + i - 1]]
  OBVIOUS
<1>5. PICK e \in {sse.state, "ended"} :
        sse' = [sse EXCEPT !.q = status \o events, !.last = row.st, !.n = row.n, !.state = e]
  BY <1>2, <1>3, <1>4 DEF Page!StreamSends
<1>6. row.n \in Nat /\ sse.n \in Nat /\ row.n - sse.n \in Nat /\ row.st \in Page!Statuses
  BY <1>1, <1>2, StreamFacts
<1>7. PICK k \in Nat : k = row.n - sse.n
  BY <1>6
<1>8. /\ events \in Seq(Page!Messages) /\ Len(events) = k
      /\ \A i \in 1..k : events[i] = [type |-> "event", n |-> sse.n + i - 1]
  <2>1. \A i \in 1..k : [type |-> "event", n |-> sse.n + i - 1] \in Page!Messages
    BY <1>6 DEF Page!Messages
  <2>2. /\ events \in [1..k -> Page!Messages]
        /\ \A i \in 1..k : events[i] = [type |-> "event", n |-> sse.n + i - 1]
    BY <1>4, <1>7, <2>1
  <2> QED
    BY <1>7, <2>2
<1>9. PICK b \in {0, 1} : /\ status \in Seq(Page!Messages) /\ Len(status) = b
                          /\ b = 1 => status[1].type = "status"
  <2>1. [type |-> "status", st |-> row.st] \in Page!Messages
    BY <1>6 DEF Page!Messages
  <2> QED
    BY <1>3, <2>1
<1>10. PICK q : q = status \o events
  OBVIOUS
<1>11. /\ q \in Seq(Page!Messages) /\ Len(q) = b + k
       /\ \A i \in 1..(b + k) : q[i] = IF i <= b THEN status[i] ELSE events[i - b]
  BY <1>8, <1>9, <1>10, ConcatProperties
<1>12. sse'.q = q /\ sse'.n = row.n /\ sse'.state \in {"open", "ended"}
  BY <1>1, <1>5, <1>10, StreamFacts DEF Page!Streams
<1>13. ASSUME NEW i \in 1..Len(q), i > b
       PROVE  q[i].type = "event" /\ q[i].n = row.n - 1 - (Len(q) - i)
  <2>1. i \in 1..(b + k) /\ i - b \in 1..k /\ ~ (i <= b) /\ Len(q) = b + k
    BY <1>11, <1>13
  <2>2. q[i] = [type |-> "event", n |-> sse.n + (i - b) - 1]
    BY <1>8, <1>11, <2>1
  <2>3. sse.n + (i - b) - 1 = row.n - 1 - (Len(q) - i)
    <3>1. PICK x \in Nat, y \in Nat : x = row.n /\ y = sse.n
      BY <1>6
    <3>2. k = x - y
      BY <1>7, <3>1
    <3>3. i \in Int /\ b \in Int /\ x \in Int /\ y \in Int
      BY <2>1
    <3>4. \A u, v, w, z \in Int : v + (w - z) - 1 = u - 1 - ((z + (u - v)) - w)
      OBVIOUS
    <3>5. y + (i - b) - 1 = x - 1 - ((b + k) - i)
      BY <3>2, <3>3, <3>4
    <3> QED
      BY <2>1, <3>1, <3>5
  <2> QED
    BY <2>2, <2>3
<1>14. ASSUME NEW i \in 1..Len(q), i <= b
       PROVE  i = 1 /\ b = 1 /\ q[i].type = "status"
  <2>1. i = 1 /\ b = 1 /\ i \in 1..(b + k)
    BY <1>11, <1>14
  <2> QED
    BY <1>9, <1>11, <2>1
<1>15. QueueOf(sse')
  <2>1. \A i \in 2..Len(q) : q[i].type = "event"
    <3> SUFFICES ASSUME NEW i \in 2..Len(q)
                 PROVE  q[i].type = "event"
      OBVIOUS
    <3>1. i \in 1..Len(q) /\ i > b
      BY <1>11
    <3> QED
      BY <1>13, <3>1
  <2>2. \A i \in 1..Len(q) : q[i].type = "event" => q[i].n = row.n - 1 - (Len(q) - i)
    <3> SUFFICES ASSUME NEW i \in 1..Len(q), q[i].type = "event"
                 PROVE  q[i].n = row.n - 1 - (Len(q) - i)
      OBVIOUS
    <3>1. i > b \/ i <= b
      BY <1>11
    <3> QED
      BY <1>13, <1>14, <3>1
  <2> QED
    BY <1>12, <2>1, <2>2 DEF QueueOf
<1>16. Due(sse') = Due(sse)
  <2>1. (q # <<>> /\ q[1].type = "status") <=> b = 1
    <3>1. CASE b = 1
      <4>1. 1 \in 1..Len(q) /\ q # <<>>
        BY <1>11, <3>1
      <4> QED
        BY <1>14, <3>1, <4>1
    <3>2. CASE b = 0
      <4>1. q # <<>> => 1 \in 1..Len(q) /\ 1 > b
        BY <1>11, <3>2, EmptySeq
      <4> QED
        BY <1>13, <3>2, <4>1
    <3> QED
      BY <3>1, <3>2
  <2>2. Due(sse') = row.n - (b + k) + (IF b = 1 THEN 1 ELSE 0)
    BY <1>11, <1>12, <2>1 DEF Due
  <2>3. row.n - (b + k) + (IF b = 1 THEN 1 ELSE 0) = sse.n
    BY <1>6, <1>7
  <2>4. Due(sse) = sse.n
    BY <1>1, DueOf
  <2> QED
    BY <2>2, <2>3, <2>4
<1>17. FirstPage'
  BY <1>1, <1>16 DEF LogInv, FirstPage, Meets
<1> QED
  BY <1>1, <1>15, <1>17 DEF LogInv

LEMMA OnStatusAsks ==
    ASSUME NEW c, IsStore(c), LogTyped(c), NEW x \in Execs, srv[x].n \in Nat, NEW s,
           NEW d, d = Page!OnStatus(c, x, s)
    PROVE  Asks(c, d)
<1>1. PICK f : f = [c EXCEPT !.cur = [id |-> x, st |-> s], !.strayed = FALSE]
  OBVIOUS
<1>2. IsStore(f) /\ f.events = c.events /\ f.evs = c.evs
  BY <1>1 DEF IsStore
<1>3. PICK h : h = Page!FetchExecution(f, x)
  OBVIOUS
<1>4. IsStore(h) /\ h.events = c.events /\ h.evs = c.evs
  BY <1>2, <1>3, FetchExecutionAsks
<1>5. LogTyped(h)
  BY <1>4 DEF LogTyped
<1>6. Asks(h, Page!FetchEvents(h, x))
  BY <1>4, <1>5, FetchEventsAsks
<1>7. Asks(c, h) /\ Asks(c, f)
  BY <1>2, <1>4 DEF Asks
<1>8. d = f \/ d = Page!FetchEvents(h, x)
  BY <1>1, <1>3 DEF Page!OnStatus
<1> QED
  BY <1>6, <1>7, <1>8, AsksChain

LEMMA LogDelivers ==
    ASSUME PageInv, LogInv, Page!StreamDelivers
    PROVE  LogInv'
<1>1. /\ sse # None /\ sse.q # <<>> /\ UNCHANGED <<route, seen, visits>>
      /\ sse' = [sse EXCEPT !.q = Tail(sse.q)]
  BY DEF Page!StreamDelivers, Page!sseOthers, Page!serverVars
<1>2. PICK q : q = sse.q
  OBVIOUS
<1>3. PICK m : m = Head(q)
  OBVIOUS
<1>4. client' = IF m.type = "status" THEN Page!OnStatus(client, sse.id, m.st)
                ELSE Page!AddEvents(client, <<[id |-> sse.id, n |-> m.n]>>)
  BY <1>2, <1>3 DEF Page!StreamDelivers
<1>5. /\ sse \in Page!Streams /\ sse.id \in Execs /\ sse.n \in Nat /\ srv[sse.id].n \in Nat
      /\ q \in Seq(Page!Messages) /\ IsStore(client) /\ seen.id # None
  BY <1>1, <1>2, StreamFacts
<1>6. PICK k \in Nat : k = Len(q) /\ k # 0
  BY <1>1, <1>2, <1>5, EmptySeq
<1>7. PICK r : r = Tail(q)
  OBVIOUS
<1>8. /\ m = q[1] /\ m \in Page!Messages /\ r \in Seq(Page!Messages) /\ Len(r) = k - 1
      /\ \A i \in 1..(k - 1) : r[i] = q[i + 1]
  BY <1>3, <1>5, <1>6, <1>7
<1>9. /\ sse'.q = r /\ sse'.n = sse.n /\ sse'.state = sse.state
  BY <1>1, <1>2, <1>5, <1>7 DEF Page!Streams
<1>10. /\ sse.state \notin {"down", "dead"}
       /\ \A i \in 2..k : q[i].type = "event"
       /\ \A i \in 1..k : q[i].type = "event" => q[i].n = sse.n - 1 - (k - i)
  BY <1>1, <1>2, <1>6 DEF LogInv, QueueOf
<1>11. \A i \in 1..(k - 1) : r[i].type = "event" /\ r[i].n = sse.n - 1 - ((k - 1) - i)
  <2> SUFFICES ASSUME NEW i \in 1..(k - 1)
               PROVE  r[i].type = "event" /\ r[i].n = sse.n - 1 - ((k - 1) - i)
    OBVIOUS
  <2>1. i + 1 \in 2..k /\ i + 1 \in 1..k /\ k - (i + 1) = (k - 1) - i
    BY <1>6
  <2> QED
    BY <1>8, <1>10, <2>1
<1>12. QueueOf(sse')
  <2>1. \A i \in 2..(k - 1) : i \in 1..(k - 1)
    OBVIOUS
  <2> QED
    BY <1>8, <1>9, <1>10, <1>11, <2>1 DEF QueueOf
<1>13. Due(sse') = sse.n - (k - 1)
  <2>1. r # <<>> => r[1].type # "status"
    <3>1. r # <<>> => 1 \in 1..(k - 1)
      BY <1>6, <1>8, EmptySeq
    <3> QED
      BY <1>11, <3>1
  <2>2. Due(sse') = sse.n - (k - 1) + 0
    BY <1>8, <1>9, <2>1 DEF Due
  <2> QED
    BY <1>5, <1>6, <2>2
<1>14. LogTyped(client) /\ Ordered(client.events)
  BY DEF LogInv, LogTyped
<1>15. PICK l \in Int : l = Page!LastSeq(client.events) /\ l >= -1
  BY <1>14, LastSeqOf DEF Ordered
<1>16. CASE m.type = "status"
  <2>1. Asks(client, client')
    BY <1>4, <1>5, <1>14, <1>16, OnStatusAsks
  <2>2. LogTyped(client') /\ (Covers(client) => Covers(client'))
        /\ client'.events = client.events
    BY <1>14, <2>1, AskedLog DEF Asks
  <2>3. Due(sse) = Due(sse')
    <3>1. Due(sse) = sse.n - k + 1
      BY <1>1, <1>2, <1>6, <1>8, <1>16 DEF Due
    <3>2. sse.n - k + 1 = sse.n - (k - 1)
      BY <1>5, <1>6
    <3> QED
      BY <1>13, <3>1, <3>2
  <2>4. Meets(sse, client) => Meets(sse', client')
    BY <1>9, <2>2, <2>3 DEF Meets
  <2>5. FirstPage'
    BY <1>1, <1>5, <2>2, <2>4 DEF LogInv, FirstPage
  <2> QED
    BY <1>1, <1>12, <2>2, <2>5 DEF LogInv
<1>17. CASE m.type # "status"
  <2>1. m.type = "event" /\ m.n \in Nat
    BY <1>8, <1>17 DEF Page!Messages
  <2>2. m.n = sse.n - k
    <3>1. 1 \in 1..k /\ sse.n - 1 - (k - 1) = sse.n - k
      BY <1>5, <1>6
    <3> QED
      BY <1>8, <1>10, <2>1, <3>1
  <2>3. PICK a \in Int : a = m.n - 1 /\ a >= -1
    BY <2>1
  <2>4. PICK new : new = <<[id |-> sse.id, n |-> m.n]>>
    OBVIOUS
  <2>5. IsBatch(new, a) /\ Len(new) = 1 /\ new # <<>>
    <3>1. [id |-> sse.id, n |-> m.n] \in Logged
      BY <1>5, <2>1 DEF Logged
    <3>2. new \in Seq(Logged) /\ Len(new) = 1 /\ new[1].n = m.n /\ new # <<>>
      BY <2>4, <3>1
    <3>3. \A j \in 1..Len(new) : new[j].n = a + j
      <4>1. a + 1 = m.n
        BY <2>1, <2>3
      <4> QED
        BY <3>2, <4>1
    <3> QED
      BY <2>3, <3>2, <3>3 DEF IsBatch, Follows
  <2>6. PICK d : d = Page!AddEvents(client, new)
    OBVIOUS
  <2>7. client' = d
    BY <1>4, <1>17, <2>4, <2>6
  <2>8. IsGrown(d.events, client.events, new, a) /\ d.evs = client.evs
    BY <1>5, <1>14, <2>5, <2>6, AddEventsLog
  <2>9. Ordered(d.events)
    BY <2>8 DEF IsGrown
  <2>10. PICK t \in Int : t = Page!LastSeq(d.events)
    BY <2>9, LastSeqOf DEF Ordered
  <2>11. t >= l /\ t >= a + 1
    BY <1>15, <2>5, <2>8, <2>10 DEF IsGrown
  <2>12. LogTyped(d)
    BY <1>14, <2>8, <2>9 DEF LogTyped
  <2>13. ASSUME Covers(client), Meets(sse, client)
         PROVE  Covers(d) /\ Meets(sse', d)
    <3>1. Due(sse) = m.n
      <4>1. Due(sse) = sse.n - k + 0
        BY <1>1, <1>2, <1>6, <1>8, <1>17 DEF Due
      <4> QED
        BY <1>5, <1>6, <2>2, <4>1
    <3>2. sse.state \in {"open", "ended"}
      BY <1>5, <1>10 DEF Page!Streams
    <3>3. m.n <= l + 1
      BY <1>15, <2>13, <3>1, <3>2 DEF Meets
    <3>4. a <= l
      BY <2>1, <2>3, <3>3
    <3>5. Whole(d.events)
      BY <1>15, <2>8, <2>13, <3>4 DEF IsGrown, Covers
    <3>6. ASSUME NEW g \in d.evs
          PROVE  g.after <= Page!LastSeq(d.events)
      <4>1. g \in client.evs /\ IsAsked(g)
        BY <1>14, <2>8, <3>6 DEF LogTyped
      <4>2. PICK b \in Int : b = g.after
        BY <4>1 DEF IsAsked
      <4>3. b <= l
        BY <1>15, <2>13, <4>1, <4>2 DEF Covers
      <4>4. b <= t
        BY <2>11, <4>3
      <4> QED
        BY <2>10, <4>2, <4>4
    <3>7. sse.n - (k - 1) <= t + 1
      BY <1>5, <1>6, <2>1, <2>2, <2>3, <2>11
    <3> QED
      BY <1>13, <2>10, <3>5, <3>6, <3>7 DEF Covers, Meets
  <2>14. FirstPage'
    BY <1>1, <1>5, <2>7, <2>13 DEF LogInv, FirstPage
  <2> QED
    BY <1>1, <1>12, <2>7, <2>12, <2>14 DEF LogInv
<1> QED
  BY <1>16, <1>17

(* The effects of the page.                                                *)
LEMMA CommitLog ==
    ASSUME PageInv, LogInv, Page!Commit
    PROVE  /\ LogTyped(client')
           /\ route = seen.id \/ client.events = <<>> => Asks(client, client')
<1>1. /\ route \in Execs /\ srv[route].n \in Nat /\ IsStore(client) /\ LogTyped(client)
      /\ sse # None => sse.id \in Execs /\ srv[sse.id].n \in Nat
  BY StreamFacts DEF PageInv, PageTyped, StoreInv, LogInv
<1>2. PICK c1 : c1 = IF (route # seen.id \/ Page!Rendered.active # seen.active) /\ sse # None
                     THEN Page!FetchEvents(client, sse.id) ELSE client
  OBVIOUS
<1>3. Asks(client, c1) /\ IsStore(c1) /\ LogTyped(c1)
  <2>1. Asks(client, client)
    BY DEF Asks
  <2>2. Asks(client, c1) /\ IsStore(c1)
    BY <1>1, <1>2, <2>1, FetchEventsAsks
  <2> QED
    BY <1>1, <2>2, AskedLog
<1>4. PICK c2 : c2 = IF route # seen.id THEN Page!FetchExecution(Page!ClearEvents(c1), route)
                     ELSE c1
  OBVIOUS
<1>5. /\ IsStore(c2) /\ LogTyped(c2)
      /\ route = seen.id \/ c1.events = <<>> => Asks(c1, c2)
  <2>1. CASE route # seen.id
    <3>1. PICK d : d = Page!ClearEvents(c1)
      OBVIOUS
    <3>2. IsStore(d) /\ d.events = <<>> /\ d.evs = c1.evs
      BY <1>3, <3>1 DEF IsStore, Page!ClearEvents
    <3>3. c2.events = <<>> /\ c2.evs = c1.evs /\ IsStore(c2)
      BY <1>4, <2>1, <3>1, <3>2, FetchExecutionAsks
    <3>4. Ordered(<<>>)
      <4>1. 0 <= MaxEvents /\ <<>> \in Seq(Logged) /\ Len(<<>>) = 0
        BY PageAssumption DEF Page!PageAssumption
      <4>2. Rising(<<>>)
        BY <4>1 DEF Rising
      <4> QED
        BY <4>1, <4>2 DEF Ordered
    <3> QED
      BY <1>3, <2>1, <3>3, <3>4 DEF LogTyped, Asks
  <2>2. CASE route = seen.id
    BY <1>3, <1>4, <2>2 DEF Asks
  <2> QED
    BY <2>1, <2>2
<1>6. client' \in {c2, Page!FetchSpend(Page!FetchEvents(Page!FetchExecution(c2, route), route), route)}
  BY <1>2, <1>4 DEF Page!Commit
<1>7. Asks(c2, client')
  <2>1. CASE client' = c2
    BY <2>1 DEF Asks
  <2>2. CASE client' = Page!FetchSpend(Page!FetchEvents(Page!FetchExecution(c2, route), route), route)
    <3>1. PICK d : d = Page!FetchExecution(c2, route)
      OBVIOUS
    <3>2. IsStore(d) /\ Asks(c2, d) /\ LogTyped(d)
      BY <1>5, <3>1, FetchExecutionAsks, AskedLog
    <3>3. PICK e : e = Page!FetchEvents(d, route)
      OBVIOUS
    <3>4. IsStore(e) /\ Asks(d, e)
      BY <1>1, <3>2, <3>3, FetchEventsAsks
    <3>5. Asks(e, client')
      BY <2>2, <3>1, <3>3, <3>4, FetchSpendAsks
    <3> QED
      BY <3>2, <3>4, <3>5, AsksChain
  <2> QED
    BY <1>6, <2>1, <2>2
<1>8. LogTyped(client')
  BY <1>5, <1>7, AskedLog
<1>9. c1.events = client.events
  BY <1>3 DEF Asks
<1> QED
  BY <1>3, <1>5, <1>7, <1>8, <1>9, AsksChain

LEMMA LogCommits ==
    ASSUME PageInv, LogInv, Page!Commit
    PROVE  LogInv'
<1>1. /\ seen' = Page!Rendered /\ UNCHANGED <<route, visits>>
      /\ sse' = IF ~(route # seen.id \/ Page!Rendered.active # seen.active) THEN sse
                ELSE IF Page!Rendered.active THEN Page!NewStream(route) ELSE None
  BY DEF Page!Commit, Page!serverVars
<1>2. route # None /\ seen'.id = route
  BY <1>1, PageAssumption DEF Page!PageAssumption, PageInv, PageTyped, Page!Rendered
<1>3. sse' # None => sse' = sse \/ sse' = Page!NewStream(route)
  BY <1>1
<1>4. sse' # None => QueueOf(sse')
  <2>1. QueueOf(Page!NewStream(route))
    BY DEF QueueOf, Page!NewStream
  <2> QED
    BY <1>3, <2>1 DEF LogInv
<1>5. ASSUME visits = 1
      PROVE  Covers(client') /\ (sse' # None => Meets(sse', client'))
  <2>1. Asks(client, client')
    BY <1>5, CommitLog DEF LogInv, FirstPage
  <2>2. /\ Covers(client') /\ \A s : Meets(s, client) => Meets(s, client')
    BY <1>5, <2>1, AskedLog DEF LogInv, FirstPage
  <2>3. Meets(Page!NewStream(route), client')
    BY DEF Meets, Page!NewStream
  <2>4. sse' # None /\ sse' = sse => Meets(sse, client')
    BY <1>5, <2>2 DEF LogInv, FirstPage
  <2> QED
    BY <1>3, <2>2, <2>3, <2>4
<1>6. FirstPage'
  BY <1>1, <1>2, <1>5 DEF LogInv, FirstPage
<1> QED
  BY <1>1, <1>4, <1>6, CommitLog DEF LogInv

LEMMA LogStep == PageInv /\ LogInv /\ [Next]_vars => LogInv'
<1> SUFFICES ASSUME PageInv, LogInv, [Next]_vars
             PROVE  LogInv'
  OBVIOUS
<1>1. CASE UNCHANGED pageVars
  BY <1>1 DEF pageVars, LogInv, FirstPage
<1>2. CASE Page!PageNext
  <2>1. CASE Page!ServerNext
    BY <2>1, LogRests
  <2>2. CASE Page!UserNext
    BY <2>2, LogRests, LogLeaves DEF Page!UserNext
  <2>3. CASE Page!NetworkNext
    BY <2>3, LogRests, LogLeaves, LogAnswered, LogOpens, LogSends, LogDelivers
       DEF Page!NetworkNext
  <2>4. CASE Page!Commit \/ Page!Tick \/ Page!PollEvents
    BY <2>4, LogCommits, LogRests, LogPolls
  <2> QED
    BY <1>2, <2>1, <2>2, <2>3, <2>4 DEF Page!PageNext
<1> QED
  BY <1>1, <1>2 DEF Next, vars

LEMMA LogInitInv ==
    ASSUME NEW views, Page!PageInitOf(views)
    PROVE  LogInv
<1>1. /\ seen.id = None /\ sse = None /\ route = First /\ visits = 1
      /\ client.events = <<>> /\ client.evs = {}
  BY DEF Page!PageInitOf
<1>2. 0 <= MaxEvents /\ MaxEvents \in Nat /\ <<>> \in Seq(Logged) /\ Len(<<>>) = 0
  BY PageAssumption DEF Page!PageAssumption
<1>3. Rising(<<>>) /\ Gapless(<<>>)
  BY <1>2 DEF Rising, Gapless
<1>4. Page!LastSeq(<<>>) + 1 = 0
  BY DEF Page!LastSeq
<1>5. Whole(<<>>)
  BY <1>2, <1>3, <1>4 DEF Whole, Kept
<1> QED
  BY <1>1, <1>2, <1>3, <1>5 DEF LogInv, LogTyped, Ordered, FirstPage, Covers

LEMMA PageInvariant == Spec => [](PageInv /\ LogInv)
<1>1. Init => PageInv /\ LogInv
  <2> SUFFICES ASSUME Init
               PROVE  PageInv /\ LogInv
    OBVIOUS
  <2>1. PICK views : /\ Page!PageInitOf(views)
                     /\ views \in {Views, {TabOf([Execs -> {ExecRow("running", 0)}], 0, 1, 0, FALSE)}}
    BY DEF Init
  <2>2. \A v \in views : v.rows \subseteq [Execs -> [st : Page!Statuses, n : Nat]]
    <3>1. CASE views = Views
      BY <3>1, PageAssumption DEF Page!PageAssumption
    <3>2. CASE views = {TabOf([Execs -> {ExecRow("running", 0)}], 0, 1, 0, FALSE)}
      BY <3>2 DEF TabOf, ExecRow, Page!Statuses
    <3> QED
      BY <2>1, <3>1, <3>2
  <2> QED
    BY <2>1, <2>2, PageInitInv, LogInitInv
<1> QED
  BY <1>1, PageStep, LogStep, PTL DEF Spec

(* A page at rest shows how its execution ended, whatever came late, failed  *)
(* or was answered from the cache: unless it shows an error, the server      *)
(* refused its stream, or a poll of the execution the user left came last    *)
(* (stores/executionStore.ts, pages/ExecutionDetail.tsx).                    *)
THEOREM ConsoleShowsOutcome == Spec => []ShowsOutcome
<1>1. PageInv => ShowsOutcome
  BY AtRestShowsOutcome DEF ShowsOutcome, Page!ShowsOutcome
<1> QED
  BY <1>1, PageInvariant, PTL

(* The log shown is in the order of the events, each once, and on the first *)
(* page of a tab without a gap, whatever the stream, its reconnections, the *)
(* polls and the last fetch bring at the same time (addEvents,              *)
(* stores/executionStore.ts).                                               *)
THEOREM ConsoleLogInOrder == Spec => []LogInOrder
<1>1. LogInv => LogInOrder
  <2> SUFFICES ASSUME LogInv, NEW i \in DOMAIN client.events, i > 1
               PROVE  /\ client.events[i].n > client.events[i - 1].n
                      /\ visits = 1 => client.events[i].n = client.events[i - 1].n + 1
    BY DEF LogInOrder, Page!LogInOrder
  <2>1. Ordered(client.events) /\ (visits = 1 => Whole(client.events))
    BY DEF LogInv, LogTyped, FirstPage, Covers
  <2>2. i \in 2..Len(client.events)
    BY <2>1 DEF Ordered
  <2>3. client.events[i - 1].n < client.events[i].n
    BY <2>1, <2>2 DEF Ordered, Rising
  <2>4. client.events[i].n \in Nat /\ client.events[i - 1].n \in Nat
    <3>1. i \in 1..Len(client.events) /\ i - 1 \in 1..Len(client.events)
      BY <2>2
    <3>2. client.events[i] \in Logged /\ client.events[i - 1] \in Logged
      BY <2>1, <3>1, ElementOfSeq DEF Ordered
    <3> QED
      BY <3>2 DEF Logged
  <2>5. visits = 1 => client.events[i].n = client.events[i - 1].n + 1
    BY <2>1, <2>2 DEF Whole, Gapless
  <2> QED
    BY <2>3, <2>4, <2>5
<1> QED
  BY <1>1, PageInvariant, PTL

(***************************************************************************)
(* The end of the log, when nothing fails on the first page of a tab: what *)
(* is asked for then is asked for after the end.                           *)
(***************************************************************************)
Ended == srv[First].st \in Page!TERMINAL_STATUSES
Done == srv[First].st = "completed"

\* A request for the last events, and one for the final spend.
IsLast(g) == g.id = First /\ Ended /\ (Done => g.sent = srv[First].n)
IsFinal(g) == g.id = First /\ g.over = TRUE

\* The store of a page on which nothing failed.
Calm(c) ==
    /\ c.error = FALSE /\ c.strayed = FALSE /\ c.polls \subseteq {First}
    /\ \A g \in c.evs : IsLast(g)
    /\ \A g \in c.spends : IsFinal(g)

\* The number of events there are, as the log has it.
UpTo(c) == Page!LastSeq(c.events) + 1

\* After the last fetch: what it asked for is on its way or has come.
Fetched(c) ==
    /\ Ended /\ c.cur # None
    /\ c.spends # {} \/ c.spend = [id |-> First, over |-> TRUE]
    /\ Done => c.evs # {} \/ UpTo(c) = srv[First].n \/ UpTo(c) >= EventsLimit

Quiet == visits = 1 /\ faults = 0

FinalInv ==
    /\ faults \in Nat
    /\ Quiet =>
         /\ Calm(client) /\ UpTo(client) <= srv[First].n
         /\ ref = First => Fetched(client)
         /\ seen.active => client.cur # None
         /\ disc \/ seen.polling => Ended
         /\ seen.terminal => ref = First
         /\ sse # None => sse.state # "dead" /\ (sse.state = "ended" => Ended)

\* What the store does that neither fails nor learns anything of the log: it
\* may ask for the end.
Keeps(c, d) ==
    /\ d.events = c.events /\ c.evs \subseteq d.evs /\ c.spends \subseteq d.spends
    /\ \A g \in d.evs : g \in c.evs \/ IsLast(g)
    /\ \A g \in d.spends : g \in c.spends \/ IsFinal(g)
    /\ d.error = FALSE /\ d.strayed = FALSE /\ d.polls \subseteq {First}
    /\ c.cur # None => d.cur # None /\ d.spend = c.spend

LEMMA KeepsChain ==
    ASSUME NEW c, NEW d, NEW e, Keeps(c, d), Keeps(d, e)
    PROVE  Keeps(c, e)
BY DEF Keeps

LEMMA KeptStore ==
    ASSUME NEW c, NEW d, Keeps(c, d), Calm(c)
    PROVE  Calm(d) /\ (Fetched(c) => Fetched(d)) /\ UpTo(d) = UpTo(c)
<1>1. Calm(d) /\ UpTo(d) = UpTo(c)
  BY DEF Keeps, Calm, UpTo
<1>2. ASSUME Fetched(c)
      PROVE  Fetched(d)
  <2>1. Ended /\ d.cur # None /\ d.spend = c.spend
    BY <1>2 DEF Fetched, Keeps
  <2>2. d.spends # {} \/ d.spend = [id |-> First, over |-> TRUE]
    BY <1>2, <2>1 DEF Fetched, Keeps
  <2>3. Done => d.evs # {} \/ UpTo(d) = srv[First].n \/ UpTo(d) >= EventsLimit
    BY <1>1, <1>2 DEF Fetched, Keeps
  <2> QED
    BY <2>1, <2>2, <2>3 DEF Fetched
<1> QED
  BY <1>1, <1>2

\* A store that shows the first execution or none.
ShowsFirst(c) ==
    IsStore(c) /\ c.cache \in Requests /\ (c.cur # None => c.cur.id = First)

LEMMA FetchExecutionKeeps ==
    ASSUME NEW c, ShowsFirst(c), Calm(c), NEW d, d = Page!FetchExecution(c, First)
    PROVE  Keeps(c, d) /\ ShowsFirst(d)
<1>1. IsStore(c) /\ First \in Execs /\ First # None
  BY PageAssumption DEF Page!PageAssumption, ShowsFirst
<1>2. PICK e : e = [id |-> First, st |-> c.cache[First]]
  OBVIOUS
<1>3. c.cache[First] # None => e # None
  BY <1>1, <1>2, PageAssumption DEF Page!PageAssumption, Page!Statused, ShowsFirst, Requests
<1>4. /\ d.events = c.events /\ d.evs = c.evs /\ d.spends = c.spends /\ d.polls = c.polls
      /\ d.error = FALSE /\ d.strayed = FALSE /\ d.cache = c.cache /\ IsStore(d)
  BY <1>1 DEF IsStore, Page!FetchExecution, Page!Get
<1>5. c.cur # None => d.spend = c.spend
  BY <1>1 DEF IsStore, Page!FetchExecution, Page!Get, ShowsFirst
<1>6. d.cur = IF c.cache[First] # None THEN e
              ELSE IF c.cur # None /\ c.cur.id = First THEN c.cur ELSE None
  BY <1>1, <1>2 DEF IsStore, Page!FetchExecution, Page!Get
<1>7. (c.cur # None => d.cur # None) /\ (d.cur # None => d.cur.id = First)
  BY <1>2, <1>3, <1>6 DEF ShowsFirst
<1> QED
  BY <1>4, <1>5, <1>7 DEF Keeps, Calm, ShowsFirst

LEMMA FetchEventsKeeps ==
    ASSUME NEW c, ShowsFirst(c), Calm(c), Ended, NEW d, d = Page!FetchEvents(c, First)
    PROVE  Keeps(c, d) /\ ShowsFirst(d) /\ d.evs # {} /\ d.cur = c.cur
<1>1. PICK g : g = [id |-> First, after |-> Page!LastSeq(c.events), sent |-> srv[First].n]
  OBVIOUS
<1>2. IsLast(g)
  BY <1>1 DEF IsLast
<1>3. (d = c /\ c.evs # {}) \/ d = [c EXCEPT !.evs = c.evs \union {g}]
  BY <1>1 DEF Page!FetchEvents
<1>4. /\ IsStore(d) /\ d.events = c.events /\ d.spends = c.spends /\ d.spend = c.spend
      /\ d.polls = c.polls /\ d.error = c.error /\ d.strayed = c.strayed /\ d.cur = c.cur
      /\ d.evs # {} /\ (d.evs = c.evs \/ d.evs = c.evs \union {g}) /\ d.cache = c.cache
  BY <1>3 DEF IsStore, ShowsFirst
<1> QED
  BY <1>2, <1>4 DEF Keeps, Calm, ShowsFirst

LEMMA FetchSpendKeeps ==
    ASSUME NEW c, ShowsFirst(c), Calm(c), Ended, NEW d, d = Page!FetchSpend(c, First)
    PROVE  Keeps(c, d) /\ ShowsFirst(d) /\ d.spends # {} /\ d.evs = c.evs /\ d.cur = c.cur
<1>1. PICK g : g = [id |-> First, over |-> srv[First].st \in Page!TERMINAL_STATUSES]
  OBVIOUS
<1>2. IsFinal(g)
  <2>1. (srv[First].st \in Page!TERMINAL_STATUSES) = TRUE
    BY DEF Ended
  <2> QED
    BY <1>1, <2>1 DEF IsFinal
<1>3. (d = c /\ c.spends # {}) \/ d = [c EXCEPT !.spends = c.spends \union {g}]
  BY <1>1 DEF Page!FetchSpend
<1>4. /\ IsStore(d) /\ d.events = c.events /\ d.evs = c.evs /\ d.spend = c.spend
      /\ d.polls = c.polls /\ d.error = c.error /\ d.strayed = c.strayed /\ d.cur = c.cur
      /\ d.spends # {} /\ (d.spends = c.spends \/ d.spends = c.spends \union {g})
      /\ d.cache = c.cache
  BY <1>3 DEF IsStore, ShowsFirst
<1> QED
  BY <1>2, <1>4 DEF Keeps, Calm, ShowsFirst

\* What the rest of the page says of the first execution, on the first page.
LEMMA QuietFacts ==
    ASSUME PageInv, LogInv, FinalInv, Quiet
    PROVE  /\ ShowsFirst(client) /\ Calm(client) /\ route = First /\ seen.id \in {None, First}
           /\ First # None /\ First \in Execs /\ srv[First].n \in Nat
           /\ client.cur # None => client.cur.id = First /\ seen.id = First
           /\ client.cur # None /\ client.cur.st \in Page!TERMINAL_STATUSES => Ended
           /\ sse # None => sse.id = First /\ seen.id = First
<1>1. Calm(client) /\ route = First /\ seen.id \in {None, First}
  BY DEF LogInv, FirstPage, FinalInv, Quiet
<1>2. First # None /\ First \in Execs
  BY PageAssumption DEF Page!PageAssumption
<1>3. client.cur # None => client.cur.id = First /\ seen.id = First
  <2>1. client.cur # None => seen.id # None /\ (client.strayed \/ client.cur.id = seen.id)
    BY DEF PageInv, StoreInv, StoreFollows
  <2>2. client.strayed = FALSE
    BY <1>1 DEF Calm
  <2> QED
    BY <1>1, <2>1, <2>2
<1>4. client.cur # None /\ client.cur.st \in Page!TERMINAL_STATUSES => Ended
  BY <1>3 DEF PageInv, StoreInv, StoreTrue, Tells, Ended
<1>5. sse # None => sse.id = First /\ seen.id = First
  BY <1>1, StreamFacts
<1>6. ShowsFirst(client)
  BY <1>3 DEF PageInv, StoreInv, StoreTyped, ShowsFirst
<1> QED
  BY <1>1, <1>2, <1>3, <1>4, <1>5, <1>6 DEF PageInv, PageTyped

(* Of a step that fails or leaves the first page there is nothing to show.  *)
LEMMA FinalFails ==
    ASSUME LogInv, FinalInv,
           \/ visits' = visits + 1 /\ faults' = faults
           \/ faults' = faults + 1
    PROVE  FinalInv'
<1>1. visits \in Nat \ {0} /\ faults \in Nat
  BY DEF LogInv, FinalInv
<1>2. faults' \in Nat /\ ~ (visits' = 1 /\ faults' = 0)
  BY <1>1
<1> QED
  BY <1>2 DEF FinalInv, Quiet

(* A step of the store, and of the stream that serves it.                  *)
LEMMA FinalStore ==
    ASSUME PageInv, LogInv, FinalInv, UNCHANGED <<srv, seen, disc, ref, visits, faults>>,
           sse' = sse \/ (sse # None /\ sse'.state = sse.state),
           Quiet => /\ Calm(client') /\ UpTo(client') <= srv[First].n
                    /\ Fetched(client) => Fetched(client')
                    /\ client.cur # None => client'.cur # None
    PROVE  FinalInv'
<1>1. (Calm(client)' <=> Calm(client')) /\ (Fetched(client)' <=> Fetched(client'))
  BY DEF Calm, IsLast, IsFinal, Ended, Done, Fetched, UpTo
<1>2. ASSUME Quiet, sse' # None
      PROVE  sse'.state # "dead" /\ (sse'.state = "ended" => Ended)
  BY <1>2 DEF FinalInv
<1> QED
  BY <1>1, <1>2 DEF FinalInv, Quiet, Ended, UpTo

LEMMA FinalKeeps ==
    ASSUME PageInv, LogInv, FinalInv, UNCHANGED <<srv, seen, disc, ref, visits, faults>>,
           sse' = sse \/ (sse # None /\ sse'.state = sse.state),
           Quiet => Keeps(client, client')
    PROVE  FinalInv'
<1>1. ASSUME Quiet
      PROVE  /\ Calm(client') /\ UpTo(client') <= srv[First].n
             /\ Fetched(client) => Fetched(client')
             /\ client.cur # None => client'.cur # None
  <2>1. Keeps(client, client') /\ Calm(client) /\ UpTo(client) <= srv[First].n
    BY <1>1 DEF FinalInv
  <2>2. Calm(client') /\ (Fetched(client) => Fetched(client')) /\ UpTo(client') = UpTo(client)
    BY <2>1, KeptStore
  <2>3. client.cur # None => client'.cur # None
    BY <2>1 DEF Keeps
  <2> QED
    BY <2>1, <2>2, <2>3
<1> QED
  BY <1>1, FinalStore

(* The server: an execution ends before the last fetch, and its log with it. *)
LEMMA FinalServer ==
    ASSUME PageInv, LogInv, FinalInv, Page!ServerNext
    PROVE  FinalInv'
<1>1. UNCHANGED <<seen, client, sse, disc, ref, visits, faults>>
  BY DEF Page!ServerNext, Page!ServerEmit, Page!ServerFinish, Page!ServerCancel,
     Page!ServerRetry, Page!pageVars
<1>2. First \in Execs /\ srv \in [Execs -> [st : Page!Statuses, n : Nat]]
      /\ (mut # None => mut.id \in Execs)
  BY PageAssumption DEF Page!PageAssumption, PageInv, PageTyped, MutationInv
<1>3. srv[First].n \in Nat
  BY <1>2
<1>4. PICK n \in Nat : n = srv[First].n
  BY <1>3
<1>5. /\ srv'[First].n \in {n, n + 1} /\ (Ended => Ended')
      /\ Done' => ~Ended \/ (Done /\ srv'[First].n = n)
  <2>1. CASE \E x \in Execs : Page!ServerEmit(x)
    BY <1>2, <1>4, <2>1 DEF Page!ServerEmit, Ended, Done, Page!TERMINAL_STATUSES
  <2>2. CASE \E x \in Execs : Page!ServerFinish(x)
    BY <1>2, <1>4, <2>2 DEF Page!ServerFinish, Ended, Done, Page!TERMINAL_STATUSES
  <2>3. CASE \E x \in Execs : Page!ServerRetry(x)
    BY <1>2, <1>4, <2>3 DEF Page!ServerRetry, Ended, Done, Page!TERMINAL_STATUSES
  <2>4. CASE Page!ServerCancel
    BY <1>2, <1>4, <2>4 DEF Page!ServerCancel, Ended, Done, Page!TERMINAL_STATUSES
  <2> QED
    BY <2>1, <2>2, <2>3, <2>4 DEF Page!ServerNext
<1>6. ASSUME Quiet
      PROVE  Calm(client)'
  <2>1. Calm(client)
    BY <1>6 DEF FinalInv
  <2>2. \A g \in client.evs : IsLast(g)'
    BY <1>4, <1>5, <2>1 DEF Calm, IsLast
  <2>3. \A g \in client.spends : IsFinal(g)'
    BY <2>1 DEF Calm, IsFinal
  <2> QED
    BY <1>1, <2>1, <2>2, <2>3 DEF Calm
<1>7. ASSUME Quiet
      PROVE  UpTo(client) <= srv'[First].n
  <2>1. PICK u \in Int : u = UpTo(client)
    BY LastSeqOf DEF LogInv, LogTyped, Ordered, UpTo
  <2>2. u <= n
    BY <1>4, <1>7, <2>1 DEF FinalInv
  <2>3. u <= n + 1
    BY <2>2
  <2> QED
    BY <1>5, <2>1, <2>2, <2>3
<1>8. ASSUME Fetched(client)
      PROVE  Fetched(client)'
  BY <1>1, <1>4, <1>5, <1>8 DEF Fetched, UpTo
<1>9. UpTo(client)' = UpTo(client)
  BY <1>1 DEF UpTo
<1> QED
  BY <1>1, <1>5, <1>6, <1>7, <1>8, <1>9 DEF FinalInv, Quiet

(* A user who asks, an answer or a poll: the store keeps the log.          *)
LEMMA FinalAsks ==
    ASSUME PageInv, LogInv, FinalInv,
           \/ Page!AskCancel \/ Page!DismissCancel \/ Page!MutationFails \/ Page!AnswerCancel
           \/ \E op \in {"cancel", "retry"} : Page!SendMutation(op)
           \/ Page!Reload
           \/ \E x \in Execs : Page!CacheExpires(x)
    PROVE  FinalInv'
<1>1. UNCHANGED <<srv, seen, sse, disc, ref, visits, faults>>
  BY DEF Page!AskCancel, Page!DismissCancel, Page!MutationFails, Page!AnswerCancel,
     Page!SendMutation, Page!Reload, Page!CacheExpires, Page!serverVars
<1>2. ASSUME Quiet
      PROVE  Keeps(client, client')
  <2>1. ShowsFirst(client) /\ Calm(client) /\ route = First /\ IsStore(client)
    BY <1>2, QuietFacts DEF ShowsFirst
  <2>2. CASE Page!AskCancel \/ Page!DismissCancel \/ Page!MutationFails
    <3>1. client' = client
      BY <2>2 DEF Page!AskCancel, Page!DismissCancel, Page!MutationFails
    <3> QED
      BY <2>1, <3>1 DEF Keeps, Calm
  <2>3. CASE Page!AnswerCancel
    <3>1. mut # None /\ mut.id \in Execs
      BY <2>3 DEF Page!AnswerCancel, PageInv, MutationInv
    <3>2. PICK e : e = [id |-> mut.id, st |-> "cancelled"]
      OBVIOUS
    <3>3. e # None
      BY <3>1, <3>2, PageAssumption DEF Page!PageAssumption, Page!Statused, Page!Statuses,
         Page!TERMINAL_STATUSES
    <3>4. client' = [client EXCEPT !.cur = IF client.cur # None /\ client.cur.id = mut.id
                                           THEN e ELSE client.cur]
      BY <2>3, <3>2 DEF Page!AnswerCancel
    <3>5. /\ client'.events = client.events /\ client'.evs = client.evs
          /\ client'.spends = client.spends /\ client'.spend = client.spend
          /\ client'.error = client.error /\ client'.strayed = client.strayed
          /\ client'.polls = client.polls /\ client'.cur \in {e, client.cur}
      BY <2>1, <3>4 DEF IsStore
    <3> QED
      BY <2>1, <3>3, <3>5 DEF Keeps, Calm
  <2>4. CASE (\E op \in {"cancel", "retry"} : Page!SendMutation(op))
             \/ \E x \in Execs : Page!CacheExpires(x)
    <3>1. \E cache : client' = [client EXCEPT !.cache = cache]
      BY <2>4 DEF Page!SendMutation, Page!InvalidateForMutation, Page!CacheExpires
    <3>2. /\ client'.events = client.events /\ client'.evs = client.evs
          /\ client'.spends = client.spends /\ client'.spend = client.spend
          /\ client'.error = client.error /\ client'.strayed = client.strayed
          /\ client'.polls = client.polls /\ client'.cur = client.cur
      BY <2>1, <3>1 DEF IsStore
    <3> QED
      BY <2>1, <3>2 DEF Keeps, Calm
  <2>5. CASE Page!Reload
    BY <2>1, <2>5, FetchExecutionKeeps DEF Page!Reload
  <2> QED
    BY <2>2, <2>3, <2>4, <2>5
<1> QED
  BY <1>1, <1>2, FinalKeeps

LEMMA FinalPolls ==
    ASSUME PageInv, LogInv, FinalInv, Page!OnVisible \/ Page!Tick \/ Page!PollEvents
    PROVE  FinalInv'
<1>1. UNCHANGED <<srv, seen, sse, disc, ref, visits, faults>> /\ seen.polling
  BY DEF Page!OnVisible, Page!Tick, Page!PollEvents, Page!serverVars
<1>2. ASSUME Quiet
      PROVE  Keeps(client, client')
  <2>1. ShowsFirst(client) /\ Calm(client) /\ IsStore(client)
    BY <1>2, QuietFacts DEF ShowsFirst
  <2>2. seen.id = First
    BY <1>1, <1>2, QuietFacts DEF PageInv, PageTyped
  <2>3. CASE Page!OnVisible \/ Page!Tick
    <3>1. client' = Page!PollExecution(client, First)
      BY <2>2, <2>3 DEF Page!OnVisible, Page!Tick
    <3>2. /\ client'.events = client.events /\ client'.evs = client.evs
          /\ client'.spends = client.spends /\ client'.spend = client.spend
          /\ client'.error = client.error /\ client'.strayed = client.strayed
          /\ client'.polls = client.polls \union {First} /\ client'.cur = client.cur
      BY <2>1, <3>1 DEF IsStore, Page!PollExecution, Page!Get
    <3> QED
      BY <2>1, <3>2 DEF Keeps, Calm
  <2>4. CASE Page!PollEvents
    <3>1. Ended /\ client' = Page!FetchEvents(client, First)
      BY <1>1, <1>2, <2>2, <2>4 DEF Page!PollEvents, FinalInv
    <3> QED
      BY <2>1, <3>1, FetchEventsKeeps
  <2> QED
    BY <2>3, <2>4, <1>1
<1> QED
  BY <1>1, <1>2, FinalKeeps

LEMMA FinalAnswered ==
    ASSUME PageInv, LogInv, FinalInv, NEW x \in Execs, Page!AnswerExecution(x)
    PROVE  FinalInv'
<1>1. UNCHANGED <<srv, seen, sse, disc, ref, visits, faults>> /\ client.gets[x] # None
  BY DEF Page!AnswerExecution, Page!serverVars
<1>2. ASSUME Quiet
      PROVE  Keeps(client, client')
  <2>1. Calm(client) /\ IsStore(client) /\ seen.id \in {None, First} /\ First # None
    BY <1>2, QuietFacts DEF ShowsFirst
  <2>2. seen.id = First
    BY <1>1, <2>1 DEF PageInv, StoreInv, StoreFollows
  <2>3. PICK s \in {client.gets[x], srv[x].st} : client' = Page!Resolve(client, x, s)
    BY DEF Page!AnswerExecution
  <2>4. s \in Page!Statuses
    BY <1>1, <2>3 DEF PageInv, PageTyped, StoreInv, StoreTyped, Requests
  <2>5. PICK e : e = [id |-> x, st |-> s]
    OBVIOUS
  <2>6. e # None
    BY <2>4, <2>5, PageAssumption DEF Page!PageAssumption, Page!Statused
  <2>7. /\ client'.events = client.events /\ client'.evs = client.evs
        /\ client'.spends = client.spends /\ client'.spend = client.spend
        /\ client'.error = client.error /\ client'.polls = client.polls \ {x}
        /\ client'.cur \in {e, client.cur}
        /\ client'.strayed = IF x \in client.polls THEN x # First ELSE client.strayed
    BY <2>1, <2>2, <2>3, <2>5 DEF IsStore, Page!Resolve
  <2>8. client'.strayed = FALSE
    <3>1. CASE x \in client.polls
      <4>1. x = First
        BY <2>1, <3>1 DEF Calm
      <4>2. (x # First) = FALSE
        BY <4>1
      <4> QED
        BY <2>7, <3>1, <4>2
    <3>2. CASE x \notin client.polls
      BY <2>1, <2>7, <3>2 DEF Calm
    <3> QED
      BY <3>1, <3>2
  <2>9. client.cur # None => client'.cur # None /\ client'.spend = client.spend
    BY <2>6, <2>7
  <2> QED
    BY <2>1, <2>7, <2>8, <2>9 DEF Keeps, Calm
<1> QED
  BY <1>1, <1>2, FinalKeeps

\* A fault, or the way to another page.
LEMMA FinalLeaves ==
    ASSUME LogInv, FinalInv,
           \/ \E x \in Execs : Page!FailExecution(x) \/ Page!Navigate(x)
           \/ \E g \in client.evs : Page!FailEvents(g)
           \/ \E g \in client.spends : Page!FailSpend(g)
           \/ Page!StreamBreaks \/ Page!StreamRefused \/ Page!AnswerRetry
    PROVE  FinalInv'
BY FinalFails DEF Page!FailExecution, Page!FailEvents, Page!FailSpend, Page!StreamBreaks,
   Page!StreamRefused, Page!AnswerRetry, Page!Navigate, Page!pageVars

(* The final spend comes.                                                  *)
LEMMA FinalSpends ==
    ASSUME PageInv, LogInv, FinalInv, NEW g \in client.spends, Page!AnswerSpend(g)
    PROVE  FinalInv'
<1>1. UNCHANGED <<srv, seen, sse, disc, ref, visits, faults>>
  BY DEF Page!AnswerSpend, Page!serverVars
<1>2. PICK o \in {g.over, srv[g.id].st \in Page!TERMINAL_STATUSES} :
        client' = [client EXCEPT !.spends = client.spends \ {g},
                                 !.spend = [id |-> g.id, over |-> o]]
  BY DEF Page!AnswerSpend
<1>3. /\ client'.events = client.events /\ client'.evs = client.evs
      /\ client'.spends = client.spends \ {g} /\ client'.spend = [id |-> g.id, over |-> o]
      /\ client'.error = client.error /\ client'.strayed = client.strayed
      /\ client'.polls = client.polls /\ client'.cur = client.cur
  BY <1>2 DEF IsStore, PageInv, StoreInv
<1>4. ASSUME Quiet
      PROVE  /\ Calm(client') /\ UpTo(client') = UpTo(client)
             /\ Fetched(client) => Fetched(client')
  <2>1. Calm(client) /\ IsFinal(g)
    BY <1>4 DEF FinalInv, Calm
  <2>2. Calm(client') /\ UpTo(client') = UpTo(client)
    BY <1>3, <2>1 DEF Calm, UpTo
  <2>3. ASSUME Fetched(client)
        PROVE  client'.spend = [id |-> First, over |-> TRUE]
    <3>1. g.id = First /\ g.over = TRUE
      BY <2>1 DEF IsFinal
    <3>2. (srv[First].st \in Page!TERMINAL_STATUSES) = TRUE
      BY <2>3 DEF Fetched, Ended
    <3>3. o = TRUE
      BY <1>2, <3>1, <3>2
    <3> QED
      BY <1>3, <3>1, <3>3
  <2>4. ASSUME Fetched(client)
        PROVE  Fetched(client')
    BY <1>3, <2>2, <2>3, <2>4 DEF Fetched
  <2> QED
    BY <2>2, <2>4
<1>5. Quiet => /\ Calm(client') /\ UpTo(client') <= srv[First].n
               /\ Fetched(client) => Fetched(client')
               /\ client.cur # None => client'.cur # None
  BY <1>3, <1>4 DEF FinalInv
<1> QED
  BY <1>1, <1>5, FinalStore

(* The log grows, with the last events too.                                *)
LEMMA FinalGrows ==
    ASSUME PageInv, LogInv, FinalInv, Quiet, NEW c, Ordered(c.events), c.events = client.events,
           c.cur = client.cur, c.spends = client.spends, c.spend = client.spend,
           NEW d, d.cur = c.cur, d.spends = c.spends, d.spend = c.spend, d.evs = c.evs,
           NEW t \in Int, t = Page!LastSeq(d.events), t >= Page!LastSeq(client.events),
           t + 1 <= srv[First].n,
           Done => c.evs = client.evs \/ t + 1 = srv[First].n \/ t + 1 >= EventsLimit
    PROVE  UpTo(d) <= srv[First].n /\ (Fetched(client) => Fetched(d))
<1>1. UpTo(d) = t + 1
  BY DEF UpTo
<1>2. ASSUME Fetched(client), Done
      PROVE  d.evs # {} \/ UpTo(d) = srv[First].n \/ UpTo(d) >= EventsLimit
  <2>1. PICK l \in Int : l = Page!LastSeq(client.events)
    BY LastSeqOf DEF Ordered
  <2>2. PICK n \in Nat : n = srv[First].n
    BY QuietFacts
  <2>3. client.evs # {} \/ l + 1 = n \/ l + 1 >= EventsLimit
    BY <1>2, <2>1, <2>2 DEF Fetched, UpTo
  <2>4. t >= l /\ t + 1 <= n
    BY <2>1, <2>2
  <2>5. EventsLimit \in Nat
    BY PageAssumption DEF Page!PageAssumption
  <2>6. (l + 1 = n => t + 1 = n) /\ (l + 1 >= EventsLimit => t + 1 >= EventsLimit)
    BY <2>4, <2>5
  <2> QED
    BY <1>1, <1>2, <2>2, <2>3, <2>6
<1>3. ASSUME Fetched(client)
      PROVE  Fetched(d)
  BY <1>2, <1>3 DEF Fetched
<1> QED
  BY <1>1, <1>3

LEMMA AddEventsRest ==
    ASSUME NEW c, IsStore(c), NEW new, NEW d, d = Page!AddEvents(c, new)
    PROVE  /\ d.evs = c.evs /\ d.spends = c.spends /\ d.spend = c.spend /\ d.cur = c.cur
           /\ d.error = c.error /\ d.strayed = c.strayed /\ d.polls = c.polls
<1>1. \E e : d = [c EXCEPT !.events = e]
  BY DEF Page!AddEvents
<1> QED
  BY <1>1 DEF IsStore

LEMMA FinalLogs ==
    ASSUME PageInv, LogInv, FinalInv, NEW g \in client.evs, Page!AnswerEvents(g)
    PROVE  FinalInv'
<1>1. UNCHANGED <<srv, seen, sse, disc, ref, visits, faults>>
  BY DEF Page!AnswerEvents, Page!serverVars
<1>2. PICK c : c = [client EXCEPT !.evs = client.evs \ {g}]
  OBVIOUS
<1>3. /\ IsStore(c) /\ c.events = client.events /\ c.evs = client.evs \ {g}
      /\ c.spends = client.spends /\ c.spend = client.spend /\ c.cur = client.cur
      /\ c.error = client.error /\ c.strayed = client.strayed /\ c.polls = client.polls
  BY <1>2 DEF PageInv, StoreInv, IsStore
<1>0. PICK upto \in g.sent..srv[g.id].n : \E new :
        client' = Page!AddEvents(c, new) /\ IsAnswer(new, g.after, upto)
  BY <1>2, EventsAnswer
<1>4. PICK new : client' = Page!AddEvents(c, new) /\ IsAnswer(new, g.after, upto)
  BY <1>0
<1>5. PICK d : d = Page!AddEvents(c, new)
  OBVIOUS
<1>6. /\ d.evs = c.evs /\ d.spends = c.spends /\ d.spend = c.spend /\ d.cur = c.cur
      /\ d.error = c.error /\ d.strayed = c.strayed /\ d.polls = c.polls
  BY <1>3, <1>5, AddEventsRest
<1>7. IsAsked(g) /\ Ordered(c.events)
  BY <1>3 DEF LogInv, LogTyped
<1>8. IsGrown(d.events, c.events, new, g.after)
  BY <1>3, <1>4, <1>5, <1>7, AddEventsLog DEF IsAnswer
<1>9. PICK l \in Int : l = Page!LastSeq(c.events) /\ l >= -1
  BY <1>7, LastSeqOf DEF Ordered
<1>10. PICK t \in Int : t = Page!LastSeq(d.events)
  BY <1>8, LastSeqOf DEF IsGrown, Ordered
<1>11. PICK a \in Int : a = g.after /\ a >= -1
  BY <1>7 DEF IsAsked
<1>12. PICK k \in Nat : k = Len(new)
  BY <1>4 DEF IsAnswer, IsBatch
<1>13. t >= l /\ (t = l \/ t = a + k) /\ (new # <<>> => t >= a + k)
  BY <1>8, <1>9, <1>10, <1>11, <1>12 DEF IsGrown
<1>14. ASSUME Quiet
       PROVE  /\ Calm(client') /\ UpTo(client') <= srv[First].n
              /\ Fetched(client) => Fetched(client')
              /\ client.cur # None => client'.cur # None
  <2>1. /\ Calm(client) /\ IsLast(g) /\ g.id = First /\ (Done => g.sent = srv[First].n)
    BY <1>14 DEF FinalInv, Calm, IsLast
  <2>2. PICK n \in Nat : n = srv[First].n
    BY <1>14, QuietFacts
  <2>3. /\ upto \in Int /\ upto <= n /\ (Done => upto = n)
    <3>1. PICK s \in Nat : s = g.sent
      BY <1>7 DEF IsAsked
    <3>2. upto \in s..n
      BY <2>1, <2>2, <3>1
    <3> QED
      BY <2>1, <2>2, <3>1, <3>2
  <2>4. a <= l
    BY <1>3, <1>9, <1>11, <1>14 DEF LogInv, FirstPage, Covers, Quiet
  <2>5. l + 1 <= n
    <3>1. UpTo(client) = l + 1
      BY <1>3, <1>9 DEF UpTo
    <3> QED
      BY <1>14, <2>2, <3>1 DEF FinalInv
  <2>6. EventsLimit \in Nat
    BY PageAssumption DEF Page!PageAssumption
  <2>7. \/ k = 0 /\ new = <<>> /\ upto <= a + 1
        \/ new # <<>> /\ k = upto - a - 1
        \/ new # <<>> /\ k = EventsLimit /\ EventsLimit <= upto - a - 1
    BY <1>4, <1>11, <1>12 DEF IsAnswer
  <2>8. t + 1 <= n
    BY <1>11, <1>12, <1>13, <2>3, <2>4, <2>5, <2>6, <2>7
  <2>9. upto = n => t + 1 = n \/ t + 1 >= EventsLimit
    BY <1>11, <1>12, <1>13, <2>3, <2>4, <2>5, <2>6, <2>7, <2>8
  <2>10. t >= Page!LastSeq(client.events) /\ t + 1 <= srv[First].n
         /\ (Done => t + 1 = srv[First].n \/ t + 1 >= EventsLimit)
    BY <1>3, <1>9, <1>13, <2>2, <2>3, <2>8, <2>9
  <2>11. UpTo(d) <= srv[First].n /\ (Fetched(client) => Fetched(d))
    BY <1>3, <1>6, <1>7, <1>10, <1>14, <2>10, FinalGrows
  <2>12. Calm(d)
    BY <1>3, <1>6, <2>1 DEF Calm
  <2> QED
    BY <1>3, <1>4, <1>5, <1>6, <2>11, <2>12
<1> QED
  BY <1>1, <1>14, FinalStore

(* The stream.                                                             *)
LEMMA FinalStream ==
    ASSUME PageInv, LogInv, FinalInv, Page!StreamOpens \/ Page!StreamSends \/ Page!StreamEnds
    PROVE  FinalInv'
<1>1. UNCHANGED <<srv, seen, client, ref, visits, faults>> /\ sse # None /\ sse \in Page!Streams
  BY StreamFacts DEF Page!StreamOpens, Page!StreamSends, Page!StreamEnds, Page!sseOthers, Page!serverVars,
     Page!OnError
<1>2. ASSUME Quiet
      PROVE  /\ disc' => Ended
             /\ sse'.state # "dead" /\ (sse'.state = "ended" => Ended)
  <2>1. sse.id = First /\ (disc => Ended) /\ sse.state # "dead" /\ (sse.state = "ended" => Ended)
    BY <1>1, <1>2, QuietFacts DEF FinalInv
  <2>2. CASE Page!StreamOpens
    BY <2>2 DEF Page!StreamOpens, Page!NewStream
  <2>3. CASE Page!StreamSends
    <3>1. /\ disc' = disc
          /\ sse'.state = IF srv[First].st \in Page!TERMINAL_STATUSES THEN "ended" ELSE sse.state
      BY <1>1, <2>1, <2>3 DEF Page!StreamSends, Page!Streams
    <3> QED
      BY <2>1, <3>1 DEF Ended
  <2>4. CASE Page!StreamEnds
    <3>1. sse.state = "ended" /\ sse'.state = "down"
      BY <1>1, <2>4 DEF Page!StreamEnds, Page!OnError, Page!Streams
    <3> QED
      BY <2>1, <3>1
  <2> QED
    BY <2>2, <2>3, <2>4, <1>1
<1>3. (Calm(client)' <=> Calm(client)) /\ (Fetched(client)' <=> Fetched(client))
      /\ (Ended' <=> Ended) /\ UpTo(client)' = UpTo(client) /\ (Quiet' <=> Quiet)
  BY <1>1 DEF Calm, IsLast, IsFinal, Ended, Done, Fetched, UpTo, Quiet
<1> QED
  BY <1>1, <1>2, <1>3 DEF FinalInv

LEMMA OnStatusKeeps ==
    ASSUME NEW c, ShowsFirst(c), Calm(c), NEW s \in Page!Statuses, Tells(s, First), First # None,
           NEW d, d = Page!OnStatus(c, First, s)
    PROVE  Keeps(c, d)
<1>1. PICK f : f = [c EXCEPT !.cur = [id |-> First, st |-> s], !.strayed = FALSE]
  OBVIOUS
<1>2. [id |-> First, st |-> s] # None
  BY PageAssumption DEF Page!PageAssumption, Page!Statused
<1>3. /\ IsStore(f) /\ f.events = c.events /\ f.evs = c.evs /\ f.spends = c.spends
      /\ f.spend = c.spend /\ f.error = c.error /\ f.strayed = FALSE /\ f.polls = c.polls
      /\ f.cur = [id |-> First, st |-> s] /\ f.cache = c.cache
  BY <1>1 DEF IsStore, ShowsFirst
<1>4. Keeps(c, f) /\ ShowsFirst(f)
  BY <1>2, <1>3 DEF Keeps, Calm, ShowsFirst
<1>5. Calm(f)
  BY <1>4, KeptStore
<1>6. CASE s \in Page!TERMINAL_STATUSES
  <2>1. Ended
    BY <1>6 DEF Tells, Ended
  <2>2. PICK h : h = Page!FetchExecution(f, First)
    OBVIOUS
  <2>3. Keeps(f, h) /\ ShowsFirst(h) /\ Calm(h)
    BY <1>4, <1>5, <2>2, FetchExecutionKeeps, KeptStore
  <2>4. d = Page!FetchEvents(h, First)
    BY <1>1, <1>6, <2>2 DEF Page!OnStatus
  <2>5. Keeps(h, d)
    BY <2>1, <2>3, <2>4, FetchEventsKeeps
  <2> QED
    BY <1>4, <2>3, <2>5, KeepsChain
<1>7. CASE s \notin Page!TERMINAL_STATUSES
  BY <1>1, <1>4, <1>7 DEF Page!OnStatus
<1> QED
  BY <1>6, <1>7

LEMMA FinalDelivers ==
    ASSUME PageInv, LogInv, FinalInv, Page!StreamDelivers
    PROVE  FinalInv'
<1>1. /\ sse # None /\ sse.q # <<>> /\ UNCHANGED <<srv, seen, disc, ref, visits, faults>>
      /\ sse' = [sse EXCEPT !.q = Tail(sse.q)]
  BY DEF Page!StreamDelivers, Page!sseOthers, Page!serverVars
<1>2. PICK q : q = sse.q
  OBVIOUS
<1>3. PICK m : m = Head(q)
  OBVIOUS
<1>4. client' = IF m.type = "status" THEN Page!OnStatus(client, sse.id, m.st)
                ELSE Page!AddEvents(client, <<[id |-> sse.id, n |-> m.n]>>)
  BY <1>2, <1>3 DEF Page!StreamDelivers
<1>5. /\ sse \in Page!Streams /\ sse.n \in Nat /\ sse.n <= srv[sse.id].n
      /\ q \in Seq(Page!Messages)
      /\ \A i \in 1..Len(q) : q[i].type = "status" => Tells(q[i].st, sse.id)
  BY <1>1, <1>2, StreamFacts
<1>6. PICK k \in Nat : k = Len(q) /\ k # 0
  BY <1>1, <1>2, <1>5
<1>7. m = q[1] /\ m \in Page!Messages /\ 1 \in 1..k
  BY <1>3, <1>5, <1>6
<1>8. sse'.state = sse.state
  BY <1>1, <1>5 DEF Page!Streams
<1>9. CASE m.type = "status"
  <2>1. m.st \in Page!Statuses
    BY <1>7, <1>9 DEF Page!Messages
  <2>2. Tells(m.st, sse.id)
    BY <1>5, <1>6, <1>7, <1>9
  <2>3. ASSUME Quiet
        PROVE  Keeps(client, client')
    <3>1. sse.id = First /\ ShowsFirst(client) /\ Calm(client) /\ First # None
      BY <1>1, <2>3, QuietFacts
    <3> QED
      BY <1>4, <1>9, <2>1, <2>2, <3>1, OnStatusKeeps
  <2> QED
    BY <1>1, <1>8, <2>3, FinalKeeps
<1>10. CASE m.type # "status"
  <2>1. m.type = "event" /\ m.n \in Nat
    BY <1>7, <1>10 DEF Page!Messages
  <2>2. m.n = sse.n - k
    <3>1. q[1].n = sse.n - 1 - (k - 1)
      BY <1>1, <1>2, <1>6, <1>7, <2>1 DEF LogInv, QueueOf
    <3>2. sse.n - 1 - (k - 1) = sse.n - k
      BY <1>5, <1>6
    <3> QED
      BY <1>7, <3>1, <3>2
  <2>3. PICK a \in Int : a = m.n - 1 /\ a >= -1
    BY <2>1
  <2>4. PICK new : new = <<[id |-> sse.id, n |-> m.n]>>
    OBVIOUS
  <2>5. IsBatch(new, a) /\ Len(new) = 1
    <3>1. [id |-> sse.id, n |-> m.n] \in Logged
      BY <1>1, <2>1, StreamFacts DEF Logged
    <3>2. new \in Seq(Logged) /\ Len(new) = 1 /\ new[1].n = m.n
      BY <2>4, <3>1
    <3>3. \A j \in 1..Len(new) : new[j].n = a + j
      <4>1. a + 1 = m.n
        BY <2>1, <2>3
      <4> QED
        BY <3>2, <4>1
    <3> QED
      BY <2>3, <3>2, <3>3 DEF IsBatch, Follows
  <2>6. PICK d : d = Page!AddEvents(client, new)
    OBVIOUS
  <2>7. client' = d
    BY <1>4, <1>10, <2>4, <2>6
  <2>8. IsStore(client) /\ Ordered(client.events)
    BY DEF PageInv, StoreInv, LogInv, LogTyped
  <2>9. /\ d.evs = client.evs /\ d.spends = client.spends /\ d.spend = client.spend
        /\ d.cur = client.cur
        /\ d.error = client.error /\ d.strayed = client.strayed /\ d.polls = client.polls
    BY <2>6, <2>8, AddEventsRest
  <2>10. IsGrown(d.events, client.events, new, a)
    BY <2>5, <2>6, <2>8, AddEventsLog
  <2>11. PICK l \in Int : l = Page!LastSeq(client.events)
    BY <2>8, LastSeqOf DEF Ordered
  <2>12. PICK t \in Int : t = Page!LastSeq(d.events)
    BY <2>10, LastSeqOf DEF IsGrown, Ordered
  <2>13. t >= l /\ (t = l \/ t = a + 1)
    BY <2>5, <2>10, <2>11, <2>12 DEF IsGrown
  <2>14. ASSUME Quiet
         PROVE  /\ Calm(client') /\ UpTo(client') <= srv[First].n
                /\ Fetched(client) => Fetched(client')
                /\ client.cur # None => client'.cur # None
    <3>1. Calm(client) /\ sse.id = First
      BY <1>1, <2>14, QuietFacts
    <3>2. PICK n \in Nat : n = srv[First].n
      BY <2>14, QuietFacts
    <3>3. l + 1 <= n
      <4>1. UpTo(client) = l + 1
        BY <2>11 DEF UpTo
      <4> QED
        BY <2>14, <3>2, <4>1 DEF FinalInv
    <3>4. a + 1 <= n - 1
      BY <1>5, <1>6, <2>1, <2>2, <2>3, <3>1, <3>2
    <3>5. t + 1 <= n
      BY <2>13, <3>3, <3>4
    <3>6. t >= Page!LastSeq(client.events) /\ t + 1 <= srv[First].n
      BY <2>11, <2>13, <3>2, <3>5
    <3>7. UpTo(d) <= srv[First].n /\ (Fetched(client) => Fetched(d))
      BY <2>8, <2>9, <2>12, <2>14, <3>6, FinalGrows
    <3>8. Calm(d)
      BY <2>9, <3>1 DEF Calm
    <3> QED
      BY <2>7, <2>9, <3>7, <3>8
  <2> QED
    BY <1>1, <1>8, <2>14, FinalStore
<1> QED
  BY <1>9, <1>10

(* The effects of the page.                                                *)
LEMMA CommitKeeps ==
    ASSUME PageInv, LogInv, FinalInv, Page!Commit, Quiet
    PROVE  /\ Keeps(client, client')
           /\ ref' # ref => Fetched(client')
<1>1. /\ ShowsFirst(client) /\ Calm(client) /\ route = First /\ seen.id \in {None, First}
      /\ First # None
      /\ sse # None => sse.id = First /\ seen.id = First
  BY QuietFacts
<1>2. Keeps(client, client)
  BY <1>1 DEF Keeps, Calm
<1>3. PICK c1 : c1 = IF (route # seen.id \/ Page!Rendered.active # seen.active) /\ sse # None
                     THEN Page!FetchEvents(client, sse.id) ELSE client
  OBVIOUS
<1>4. Keeps(client, c1) /\ ShowsFirst(c1) /\ Calm(c1) /\ (sse = None => c1 = client)
  <2>1. CASE (route # seen.id \/ Page!Rendered.active # seen.active) /\ sse # None
    <3>0. Page!Rendered.active # seen.active
      BY <1>1, <2>1
    <3>1. seen.active /\ client.cur # None
      BY <1>1, <2>1 DEF PageInv, StreamInv, FinalInv
    <3>2. ~ Page!IsActive(client)
      BY <3>0, <3>1 DEF Page!Rendered, PageInv, PageTyped
    <3>3. Ended
      BY <3>1, <3>2, QuietFacts DEF Page!IsActive
    <3>4. c1 = Page!FetchEvents(client, First)
      <4>1. c1 = Page!FetchEvents(client, sse.id)
        BY <1>3, <2>1
      <4>2. sse.id = First
        BY <1>1, <2>1
      <4> QED
        BY <4>1, <4>2
    <3> QED
      BY <1>1, <2>1, <3>3, <3>4, FetchEventsKeeps, KeptStore
  <2>2. CASE ~((route # seen.id \/ Page!Rendered.active # seen.active) /\ sse # None)
    <3>1. c1 = client
      BY <1>3, <2>2
    <3> QED
      BY <1>1, <1>2, <3>1
  <2> QED
    BY <2>1, <2>2
<1>5. PICK c2 : c2 = IF route # seen.id THEN Page!FetchExecution(Page!ClearEvents(c1), route)
                     ELSE c1
  OBVIOUS
<1>6. Keeps(c1, c2) /\ ShowsFirst(c2) /\ Calm(c2)
  <2>1. CASE route # seen.id
    <3>1. PICK d : d = Page!ClearEvents(c1)
      OBVIOUS
    <3>2. c1.events = <<>>
      BY <1>1, <1>4, <2>1 DEF LogInv, FirstPage, Quiet, PageInv, StreamInv
    <3>3. /\ IsStore(d) /\ d.events = c1.events /\ d.evs = c1.evs /\ d.spends = c1.spends
          /\ d.spend = c1.spend /\ d.error = c1.error /\ d.strayed = c1.strayed
          /\ d.polls = c1.polls /\ d.cur = c1.cur /\ d.cache = c1.cache
      BY <1>4, <3>1, <3>2 DEF IsStore, ShowsFirst, Page!ClearEvents
    <3>4. Keeps(c1, d) /\ ShowsFirst(d) /\ Calm(d)
      BY <1>4, <3>3 DEF Keeps, Calm, ShowsFirst
    <3>5. c2 = Page!FetchExecution(d, First)
      BY <1>1, <1>5, <2>1, <3>1
    <3>6. Keeps(d, c2) /\ ShowsFirst(c2) /\ Calm(c2)
      BY <3>4, <3>5, FetchExecutionKeeps, KeptStore
    <3> QED
      BY <3>4, <3>6, KeepsChain
  <2>2. CASE route = seen.id
    BY <1>4, <1>5, <2>2 DEF Keeps, Calm
  <2> QED
    BY <2>1, <2>2
<1>7. Keeps(client, c2)
  BY <1>4, <1>6, KeepsChain
<1>8. CASE Page!IsTerminal(client)
           /\ client' = Page!FetchSpend(Page!FetchEvents(Page!FetchExecution(c2, route), route), route)
  <2>1. Ended /\ client.cur # None
    BY <1>8, QuietFacts DEF Page!IsTerminal
  <2>2. PICK d : d = Page!FetchExecution(c2, First)
    OBVIOUS
  <2>3. Keeps(c2, d) /\ ShowsFirst(d) /\ Calm(d)
    BY <1>6, <2>2, FetchExecutionKeeps, KeptStore
  <2>4. PICK e : e = Page!FetchEvents(d, First)
    OBVIOUS
  <2>5. Keeps(d, e) /\ ShowsFirst(e) /\ Calm(e) /\ e.evs # {}
    BY <2>1, <2>3, <2>4, FetchEventsKeeps, KeptStore
  <2>6. client' = Page!FetchSpend(e, First)
    BY <1>1, <1>8, <2>2, <2>4
  <2>7. Keeps(e, client') /\ client'.spends # {} /\ client'.evs = e.evs
    BY <2>1, <2>5, <2>6, FetchSpendKeeps
  <2>8. Keeps(client, client')
    BY <1>7, <2>3, <2>5, <2>7, KeepsChain
  <2>9. client'.cur # None
    BY <2>1, <2>8 DEF Keeps
  <2>10. Fetched(client')
    BY <2>1, <2>5, <2>7, <2>9 DEF Fetched
  <2> QED
    BY <2>8, <2>10
<1>9. CASE client' = c2 /\ ref' = ref
  BY <1>7, <1>9
<1> QED
  <2>1. /\ Page!Rendered.terminal <=> Page!IsTerminal(client)
    BY DEF Page!Rendered
  <2> QED
    BY <1>3, <1>5, <1>8, <1>9, <2>1 DEF Page!Commit

LEMMA FinalCommits ==
    ASSUME PageInv, LogInv, FinalInv, Page!Commit
    PROVE  FinalInv'
<1>1. /\ seen' = Page!Rendered /\ UNCHANGED <<srv, route, visits, faults>>
      /\ sse' \in {sse, None, Page!NewStream(route)} /\ (disc' => disc)
      /\ ref' = ref \/ ref' = route
      /\ Page!Rendered.terminal /\ ~seen.terminal => ref' = route
  BY DEF Page!Commit, Page!serverVars
<1>2. faults' \in Nat
  BY <1>1 DEF FinalInv
<1>3. ASSUME Quiet
      PROVE  /\ Calm(client') /\ UpTo(client') <= srv[First].n
             /\ ref' = First => Fetched(client')
             /\ seen'.active => client'.cur # None
             /\ disc' \/ seen'.polling => Ended
             /\ seen'.terminal => ref' = First
             /\ sse' # None => sse'.state # "dead" /\ (sse'.state = "ended" => Ended)
  <2>1. route = First /\ Calm(client)
    BY <1>3, QuietFacts
  <2>2. Keeps(client, client') /\ (ref' # ref => Fetched(client'))
    BY <1>3, CommitKeeps
  <2>3. Calm(client') /\ (Fetched(client) => Fetched(client')) /\ UpTo(client') = UpTo(client)
    BY <2>1, <2>2, KeptStore
  <2>4. /\ seen'.active => client.cur # None
        /\ seen'.polling => disc
        /\ seen'.terminal <=> Page!Rendered.terminal
    BY <1>1 DEF Page!Rendered, Page!IsActive
  <2>5. seen'.active => client'.cur # None
    BY <2>2, <2>4 DEF Keeps
  <2>6. disc' \/ seen'.polling => Ended
    BY <1>1, <1>3, <2>4 DEF FinalInv
  <2>7. seen'.terminal => ref' = First
    BY <1>1, <1>3, <2>1, <2>4 DEF FinalInv
  <2>8. sse' # None => sse'.state # "dead" /\ (sse'.state = "ended" => Ended)
    BY <1>1, <1>3 DEF FinalInv, Page!NewStream
  <2>9. ref' = First => Fetched(client')
    BY <1>3, <2>2, <2>3 DEF FinalInv
  <2> QED
    BY <1>3, <2>3, <2>5, <2>6, <2>7, <2>8, <2>9 DEF FinalInv
<1>4. (Calm(client)' <=> Calm(client')) /\ (Fetched(client)' <=> Fetched(client'))
      /\ (Ended' <=> Ended) /\ (Quiet' <=> Quiet)
  BY <1>1 DEF Calm, IsLast, IsFinal, Ended, Done, Fetched, UpTo, Quiet
<1> QED
  BY <1>1, <1>2, <1>3, <1>4 DEF FinalInv, UpTo

LEMMA FinalStep == PageInv /\ LogInv /\ FinalInv /\ [Next]_vars => FinalInv'
<1> SUFFICES ASSUME PageInv, LogInv, FinalInv, [Next]_vars
             PROVE  FinalInv'
  OBVIOUS
<1>1. CASE UNCHANGED pageVars
  BY <1>1 DEF pageVars, FinalInv, Quiet, Calm, IsLast, IsFinal, Ended, Done, Fetched, UpTo
<1>2. CASE Page!PageNext
  <2>1. CASE Page!ServerNext
    BY <2>1, FinalServer
  <2>2. CASE Page!UserNext
    BY <2>2, FinalAsks, FinalPolls, FinalLeaves DEF Page!UserNext
  <2>3. CASE Page!NetworkNext
    BY <2>3, FinalAsks, FinalAnswered, FinalLogs, FinalSpends, FinalLeaves, FinalStream,
       FinalDelivers DEF Page!NetworkNext
  <2>4. CASE Page!Commit \/ Page!Tick \/ Page!PollEvents
    BY <2>4, FinalCommits, FinalPolls
  <2> QED
    BY <1>2, <2>1, <2>2, <2>3, <2>4 DEF Page!PageNext
<1> QED
  BY <1>1, <1>2 DEF Next, vars

LEMMA FinalInitInv ==
    ASSUME NEW views, PageInv, Page!PageInitOf(views)
    PROVE  FinalInv
<1>1. /\ seen = [id |-> None, active |-> FALSE, terminal |-> FALSE, polling |-> FALSE]
      /\ sse = None /\ disc = FALSE /\ ref = None /\ faults = 0
      /\ client.events = <<>> /\ client.evs = {} /\ client.spends = {} /\ client.polls = {}
      /\ client.error = FALSE /\ client.strayed = FALSE
  BY DEF Page!PageInitOf
<1>2. First \in Execs /\ First # None
  BY PageAssumption DEF Page!PageAssumption
<1>3. UpTo(client) <= srv[First].n
  <2>1. srv[First].n \in Nat
    BY <1>2 DEF PageInv, PageTyped
  <2>2. UpTo(client) = 0
    BY <1>1 DEF UpTo, Page!LastSeq
  <2> QED
    BY <2>1, <2>2
<1>4. Calm(client)
  BY <1>1 DEF Calm
<1>5. ref # First
  BY <1>1, <1>2
<1> QED
  BY <1>1, <1>3, <1>4, <1>5 DEF FinalInv

(* When nothing failed, the first page of a tab at rest shows the log of an  *)
(* execution that completed, as much of it as a page shows or the last fetch *)
(* is given, and its final spend (the effects of pages/ExecutionDetail.tsx). *)
THEOREM ConsoleFinalLog == Spec => []FinalLog
<1>1. Init /\ PageInv => FinalInv
  BY FinalInitInv DEF Init
<1>2. PageInv /\ LogInv /\ FinalInv => FinalLog
  <2> SUFFICES ASSUME PageInv, LogInv, FinalInv, Page!AtRest, Page!Over, visits = 1, faults = 0,
                      srv[First].st = "completed"
               PROVE  /\ UpTo(client) = srv[First].n \/ UpTo(client) >= EventsLimit
                      /\ Len(client.events) = Kept(UpTo(client))
                      /\ client.spend = [id |-> First, over |-> TRUE]
    BY DEF FinalLog, Page!FinalLog, UpTo, Kept
  <2>1. Quiet /\ Calm(client) /\ route = First
    BY QuietFacts DEF Quiet
  <2>2. ~client.error /\ ~client.strayed /\ ~(sse # None /\ sse.state = "dead")
    BY <2>1 DEF Calm, FinalInv
  <2>3. client.cur = [id |-> First, st |-> "completed"]
    BY <2>1, <2>2, AtRestShowsOutcome
  <2>4. client.cur # None
    BY <2>3, PageAssumption DEF Page!PageAssumption, Page!Statused, Page!Statuses,
       Page!TERMINAL_STATUSES
  <2>5. seen.terminal
    <3>1. (client.cur # None /\ client.cur.st \in Page!TERMINAL_STATUSES) = TRUE
      BY <2>3, <2>4 DEF Page!TERMINAL_STATUSES
    <3>2. seen = Page!Rendered
      BY DEF Page!AtRest
    <3>3. Page!Rendered.terminal = (client.cur # None /\ client.cur.st \in Page!TERMINAL_STATUSES)
      BY DEF Page!Rendered, Page!IsTerminal
    <3> QED
      BY <3>1, <3>2, <3>3
  <2>6. Fetched(client) /\ Done /\ client.evs = {} /\ client.spends = {}
    BY <2>1, <2>5 DEF FinalInv, Done, Page!AtRest
  <2>7. Len(client.events) = Kept(UpTo(client))
    BY DEF LogInv, FirstPage, Covers, Whole, UpTo
  <2> QED
    BY <2>6, <2>7 DEF Fetched
<1> QED
  BY <1>1, <1>2, PageInvariant, FinalStep, PTL DEF Spec

(***************************************************************************)
(* The types of the page, within its bounds.                               *)
(***************************************************************************)
\* The calls of a polling loop that wait and its timers are two at most.
PollCounted(p) ==
    p \in [timers : Nat, calls : Nat] /\ p.timers + p.calls <= Page!MaxCalls

PageCounted ==
    /\ tab.log \in Nat /\ tab.visits \in Nat \ {0} /\ tab.faults \in Nat
    /\ visits \in 1..tab.visits /\ faults \in 0..tab.faults
    /\ \A x \in Execs : srv[x].n <= tab.log
    /\ PollCounted(poll) /\ ref \in Execs \union {None}

\* How a step changes what is counted.
PollMoves ==
    \/ poll' = poll
    \/ poll' = [timers |-> poll.timers + poll.calls, calls |-> 0]
    \/ poll' = [timers |-> 1, calls |-> 0]
    \/ poll' = [timers |-> 0, calls |-> 0]
    \/ /\ poll.calls < Page!MaxCalls
       /\ \/ poll.timers > 0 /\ poll' = [timers |-> poll.timers - 1, calls |-> poll.calls + 1]
          \/ ~(poll.timers > 0) /\ poll' = [timers |-> 0, calls |-> poll.calls + 1]

RowMoves ==
    \/ srv' = srv
    \/ \E x \in Execs : srv[x].n < tab.log /\ srv' = [srv EXCEPT ![x].n = @ + 1]
    \/ \E x \in Execs, s \in Page!Statuses : srv' = [srv EXCEPT ![x].st = s]

PageMoves ==
    /\ tab' = tab
    /\ visits' = visits \/ (visits < tab.visits /\ visits' = visits + 1)
    /\ faults' = faults \/ (faults < tab.faults /\ faults' = faults + 1)
    /\ RowMoves /\ PollMoves /\ ref' \in {ref, route}

(* A step of the page changes what is counted so. *)
LEMMA PageNextMoves ==
    ASSUME PageInv, Page!PageNext
    PROVE  PageMoves
<1>1. CASE Page!ServerNext
  <2>1. UNCHANGED <<tab, visits, faults, poll, ref>>
    BY <1>1 DEF Page!ServerNext, Page!ServerEmit, Page!ServerFinish, Page!ServerRetry,
       Page!ServerCancel, Page!pageVars
  <2>2. RowMoves
    <3>1. ASSUME Page!ServerCancel
          PROVE  RowMoves
      BY <3>1 DEF Page!ServerCancel, PageInv, MutationInv, RowMoves, Page!Statuses,
         Page!TERMINAL_STATUSES
    <3>2. ASSUME NEW x \in Execs, Page!ServerEmit(x) \/ Page!ServerFinish(x) \/ Page!ServerRetry(x)
          PROVE  RowMoves
      BY <3>2 DEF Page!ServerEmit, Page!ServerFinish, Page!ServerRetry, RowMoves, Page!Statuses,
         Page!TERMINAL_STATUSES
    <3> QED
      BY <1>1, <3>1, <3>2 DEF Page!ServerNext
  <2> QED
    BY <2>1, <2>2 DEF PageMoves, PollMoves
<1>2. CASE Page!UserNext
  <2>1. UNCHANGED <<tab, srv, faults, ref>>
    BY <1>2 DEF Page!UserNext, Page!Navigate, Page!AskCancel, Page!DismissCancel, Page!Reload,
       Page!SendMutation, Page!OnVisible, Page!pageVars, Page!serverVars
  <2>2. visits' = visits \/ (visits < tab.visits /\ visits' = visits + 1)
    BY <1>2 DEF Page!UserNext, Page!Navigate, Page!AskCancel, Page!DismissCancel, Page!Reload,
       Page!SendMutation, Page!OnVisible, Page!serverVars
  <2>3. PollMoves
    <3>1. CASE Page!OnVisible
      <4>1. /\ poll.calls < Page!MaxCalls
            /\ poll' = [timers |-> IF poll.timers > 0 THEN poll.timers - 1 ELSE 0,
                        calls |-> poll.calls + 1]
        BY <3>1 DEF Page!OnVisible
      <4> QED
        BY <4>1 DEF PollMoves
    <3>2. CASE ~Page!OnVisible
      BY <1>2, <3>2 DEF Page!UserNext, Page!Navigate, Page!AskCancel, Page!DismissCancel,
         Page!Reload, Page!SendMutation, Page!pageVars, PollMoves
    <3> QED
      BY <3>1, <3>2
  <2> QED
    BY <2>1, <2>2, <2>3 DEF PageMoves, RowMoves
<1>3. CASE Page!NetworkNext
  <2>1. UNCHANGED <<tab, srv, ref>>
    BY <1>3 DEF Page!NetworkNext, Page!AnswerExecution, Page!FailExecution, Page!CacheExpires,
       Page!AnswerEvents, Page!FailEvents, Page!AnswerSpend, Page!FailSpend, Page!AnswerCancel,
       Page!AnswerRetry, Page!MutationFails, Page!StreamOpens, Page!StreamSends,
       Page!StreamDelivers, Page!StreamEnds, Page!StreamBreaks, Page!StreamRefused,
       Page!serverVars, Page!sseOthers
  <2>2. visits' = visits \/ (visits < tab.visits /\ visits' = visits + 1)
    BY <1>3 DEF Page!NetworkNext, Page!AnswerExecution, Page!FailExecution, Page!CacheExpires,
       Page!AnswerEvents, Page!FailEvents, Page!AnswerSpend, Page!FailSpend, Page!AnswerCancel,
       Page!AnswerRetry, Page!MutationFails, Page!StreamOpens, Page!StreamSends,
       Page!StreamDelivers, Page!StreamEnds, Page!StreamBreaks, Page!StreamRefused,
       Page!serverVars, Page!sseOthers
  <2>3. faults' = faults \/ (faults < tab.faults /\ faults' = faults + 1)
    BY <1>3 DEF Page!NetworkNext, Page!AnswerExecution, Page!FailExecution, Page!CacheExpires,
       Page!AnswerEvents, Page!FailEvents, Page!AnswerSpend, Page!FailSpend, Page!AnswerCancel,
       Page!AnswerRetry, Page!MutationFails, Page!StreamOpens, Page!StreamSends,
       Page!StreamDelivers, Page!StreamEnds, Page!StreamBreaks, Page!StreamRefused
  <2>4. PollMoves
    BY <1>3 DEF Page!NetworkNext, Page!AnswerExecution, Page!FailExecution, Page!CacheExpires,
       Page!AnswerEvents, Page!FailEvents, Page!AnswerSpend, Page!FailSpend, Page!AnswerCancel,
       Page!AnswerRetry, Page!MutationFails, Page!StreamOpens, Page!StreamSends,
       Page!StreamDelivers, Page!StreamEnds, Page!StreamBreaks, Page!StreamRefused,
       Page!sseOthers, Page!Rearm, PollMoves
  <2> QED
    BY <2>1, <2>2, <2>3, <2>4 DEF PageMoves, RowMoves
<1>4. CASE Page!Commit
  <2>1. UNCHANGED <<tab, srv, visits, faults>> /\ ref' \in {ref, route}
    BY <1>4 DEF Page!Commit, Page!serverVars
  <2>2. \/ poll' = poll \/ poll' = [timers |-> 1, calls |-> 0]
        \/ poll' = [timers |-> 0, calls |-> 0]
    BY <1>4 DEF Page!Commit
  <2> QED
    BY <2>1, <2>2 DEF PageMoves, RowMoves, PollMoves
<1>5. CASE Page!Tick \/ Page!PollEvents
  BY <1>5 DEF Page!Tick, Page!PollEvents, Page!serverVars, PageMoves, RowMoves, PollMoves
<1> QED
  BY <1>1, <1>2, <1>3, <1>4, <1>5 DEF Page!PageNext

(* Timers and calls stay two at most: a timer becomes a call, a call a timer. *)
LEMMA PollCountedStep ==
    ASSUME PollCounted(poll), PollMoves
    PROVE  PollCounted(poll')
<1>1. PICK t \in Nat, c \in Nat : /\ poll.timers = t /\ poll.calls = c /\ t + c <= 2
                                /\ poll = [timers |-> t, calls |-> c]
  BY DEF PollCounted, Page!MaxCalls
<1>2. PICK u, d : /\ u \in Nat /\ d \in Nat /\ u + d <= 2
                  /\ poll' = [timers |-> u, calls |-> d]
  BY <1>1 DEF PollMoves, Page!MaxCalls
<1> QED
  BY <1>2 DEF PollCounted, Page!MaxCalls

(* Every step keeps the counts. *)
LEMMA PageCountedStep == PageInv /\ PageCounted /\ [Next]_vars => PageCounted'
<1> SUFFICES ASSUME PageInv, PageCounted, [Next]_vars
             PROVE  PageCounted'
  OBVIOUS
<1>1. CASE UNCHANGED pageVars
  BY <1>1 DEF pageVars, PageCounted
<1>2. CASE Page!PageNext
  <2>1. PageMoves
    BY <1>2, PageNextMoves
  <2>2. tab' = tab /\ PollCounted(poll') /\ ref' \in Execs \union {None}
    BY <2>1, PollCountedStep DEF PageMoves, PageCounted, PageInv, PageTyped
  <2>3. visits' \in 1..tab.visits
    BY <2>1 DEF PageMoves, PageCounted
  <2>4. faults' \in 0..tab.faults
    BY <2>1 DEF PageMoves, PageCounted
  <2>5. ASSUME NEW y \in Execs
        PROVE  srv'[y].n <= tab.log
    <3>1. PICK l \in Nat : l = tab.log /\ \A x \in Execs : srv[x].n \in Nat /\ srv[x].n <= l
      BY DEF PageCounted, PageInv, PageTyped
    <3>2. srv'[y].n = srv[y].n \/ (srv[y].n < l /\ srv'[y].n = srv[y].n + 1)
      BY <2>1, <3>1 DEF PageMoves, RowMoves, PageInv, PageTyped
    <3> QED
      BY <3>1, <3>2
  <2> QED
    BY <2>2, <2>3, <2>4, <2>5 DEF PageCounted
<1> QED
  BY <1>1, <1>2 DEF Next, vars

(* A tab starts within its bounds. *)
LEMMA PageInitCounted == Init => PageCounted
<1> SUFFICES ASSUME Init
             PROVE  PageCounted
  OBVIOUS
<1>1. PICK views : /\ Page!PageInitOf(views)
                   /\ views \in {Views, {TabOf([Execs -> {ExecRow("running", 0)}], 0, 1, 0, FALSE)}}
  BY DEF Init
<1>2. /\ tab \in views /\ srv \in tab.rows /\ ref = None /\ visits = 1 /\ faults = 0
      /\ poll = [timers |-> 0, calls |-> 0]
  BY <1>1 DEF Page!PageInitOf
<1>3. /\ tab.log \in Nat /\ tab.visits \in Nat \ {0} /\ tab.faults \in Nat
      /\ \A x \in Execs : srv[x].n \in 0..tab.log
  <2>1. CASE views = Views
    BY <1>2, <2>1, BoundsAssumption DEF Page!PageBounds
  <2>2. CASE views = {TabOf([Execs -> {ExecRow("running", 0)}], 0, 1, 0, FALSE)}
    BY <1>2, <2>2 DEF TabOf, ExecRow
  <2> QED
    BY <1>1, <2>1, <2>2
<1>4. PollCounted(poll)
  BY <1>2 DEF PollCounted, Page!MaxCalls
<1> QED
  BY <1>2, <1>3, <1>4 DEF PageCounted

(* The page keeps its types: the log no longer than it may be, and calls that *)
(* overlap within their bound. *)
LEMMA PageTypes == Spec => []Page!PageTypeOK
<1>1. PageInv /\ LogInv /\ PageCounted => Page!PageTypeOK
  <2> SUFFICES ASSUME PageInv, LogInv, PageCounted
               PROVE  Page!PageTypeOK
    OBVIOUS
  <2>1. srv \in [Execs -> [st : Page!Statuses, n : 0..tab.log]]
    BY DEF PageInv, PageTyped, PageCounted
  <2>2. /\ client.fetchOn \in Execs \union {None} /\ client.polls \subseteq Execs
        /\ route \in Execs /\ sse \in Page!Streams \union {None}
    BY DEF PageInv, PageTyped, StreamInv, StoreInv, StoreTyped
  <2>3. Len(client.events) <= MaxEvents
    BY DEF LogInv, LogTyped, Ordered
  <2>4. poll.timers \in 0..Page!MaxCalls /\ poll.calls \in 0..Page!MaxCalls
    BY DEF PageCounted, PollCounted, Page!MaxCalls
  <2> QED
    BY <2>1, <2>2, <2>3, <2>4 DEF PageCounted, Page!PageTypeOK
<1> QED
  BY <1>1, PageInitCounted, PageInvariant, PageCountedStep, PTL DEF Spec
=============================================================================
