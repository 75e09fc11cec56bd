------------------------------- MODULE EventLog -------------------------------
(***************************************************************************)
(* The event log of one execution (table execution_events): the listener   *)
(* that buffers the crew's events and writes them in batches               *)
(* (src/backend/blackbeard/engine/execution_listener.py), the requests and *)
(* answers of human input that go into the same log, and the stream a      *)
(* client reads it through (api/executions.py).                            *)
(*                                                                         *)
(* Sequence numbers are given out in two ways.  The listener counts on its *)
(* own; everybody else takes the highest committed number plus one.  The   *)
(* unique constraint on (execution_id, sequence) decides who was first:    *)
(* an insert waits for an uncommitted row with its number, and fails if    *)
(* that row is committed.                                                  *)
(***************************************************************************)
EXTENDS Integers, Sequences, FiniteSets

CONSTANTS
    Writers,      \* threads of the crew that emit events
    Timers,       \* flush timers that may be running at once
    Closer,       \* the thread of the final flush
    NoThread,     \* not a thread
    Appenders,    \* writers of hitl_request and hitl_response rows
    Logged,       \* events already in the log when the behaviour begins
    MaxBuffer,    \* _MAX_BUFFER
    MaxPending,   \* _MAX_PENDING_EVENTS
    Retries,      \* _FLUSH_RETRIES
    Attempts,     \* attempts of a max-plus-one writer, 3 in the code
    BatchSize,    \* _EVENT_BATCH_SIZE
    CanRenumberFail,  \* may the database fail in _renumber_events too?
    MaxEvents,    \* bound: events the crew emits
    MaxFails      \* bound: writes of the listener that fail by an outage

Threads == Writers \cup Timers \cup {Closer}

ASSUME EventLogAssumption ==
    /\ NoThread \notin Threads
    /\ Closer \notin Writers \cup Timers
    /\ Writers \cap Timers = {}
    /\ {Logged, MaxEvents, MaxFails, Retries} \subseteq Nat
    /\ {MaxBuffer, MaxPending, Attempts, BatchSize} \subseteq Nat \ {0}
    /\ CanRenumberFail \in BOOLEAN

VARIABLES
    \* the database
    rows,       \* the committed events, each a [kind, id, seq]
    settled,    \* the execution has a terminal status
    inTime,     \* the events committed before it got one: history
    passed,     \* numbers that were next when a batch left them out: history
    \* the listener
    nextSeq,    \* _seq
    made,       \* events emitted so far
    buffer,     \* _buffer
    batch,      \* to_flush of the thread that holds _io_lock
    io,         \* the holder of _io_lock
    flushing,   \* _flushing
    timer,      \* _flush_timer
    pc,         \* where each thread is
    withTask,   \* the batch carries a task update
    phase,      \* the run: "crew", "closing", "flushed", "done"
    tries,      \* flushes of the final flush so far
    dropped,    \* events dropped on overflow: history
    fails,      \* outages so far
    \* the others that write, one row each
    apc, aseq, atries,
    \* the stream
    last,       \* last_event_seq
    seen,       \* the events yielded
    spc,        \* "status", "events" or "ended"
    sawEnd,     \* current_status is terminal
    hadEvents   \* prev_had_events, and had_events during a poll

dbVars == <<rows, settled, inTime, passed>>
bufVars == <<nextSeq, made, buffer, dropped>>
ioVars == <<batch, io, flushing, withTask>>
runVars == <<phase, tries, fails>>
listenerVars == <<bufVars, ioVars, timer, pc, runVars>>
appenderVars == <<apc, aseq, atries>>
streamVars == <<last, seen, spc, sawEnd, hadEvents>>
vars == <<dbVars, listenerVars, appenderVars, streamVars>>

-------------------------------------------------------------------------------
Event(id, seq) == [kind |-> "event", id |-> id, seq |-> seq]
Appended(a, seq) == [kind |-> "hitl", id |-> a, seq |-> seq]

Seqs(S) == {x.seq : x \in S}
Items(q) == {q[i] : i \in DOMAIN q}

Highest(S) == CHOOSE s \in Seqs(S) : \A t \in Seqs(S) : t <= s

(* coalesce(max(sequence), -1) of the committed rows. *)
MaxSeq == IF rows = {} THEN -1 ELSE Highest(rows)

(* A number that somebody has inserted and not yet committed. *)
Held(s) == \E a \in Appenders : apc[a] = "inserted" /\ aseq[a] = s

(* The unique constraint refuses these rows. *)
Taken(q) == \/ Seqs(Items(q)) \cap Seqs(rows) # {}
            \/ Cardinality(Seqs(Items(q))) < Len(q)

(* The same events, numbered from s. *)
Numbered(q, s) == [i \in DOMAIN q |-> [q[i] EXCEPT !.seq = s + i - 1]]

(* The first number _renumber_events gives: (max or -1) + 1, in which a    *)
(* maximum of 0 counts as none.                                            *)
FirstFree == IF MaxSeq = 0 THEN 0 ELSE MaxSeq + 1

(* A thread goes from one place to another. *)
Move(t, to) == [pc EXCEPT ![t] = to]

(* _schedule_flush, with the threads where at says: a new timer is started *)
(* unless the one referred to is alive.  Timers bounds how many run: when  *)
(* none is free, all are about to flush, and one more would find nothing.  *)
Schedule(at) ==
    IF \/ timer # NoThread /\ at[timer] # "idle"
       \/ \A t \in Timers : at[t] # "idle"
    THEN pc' = at /\ UNCHANGED timer
    ELSE \E t \in Timers : /\ at[t] = "idle"
                           /\ timer' = t
                           /\ pc' = [at EXCEPT ![t] = "waiting"]

(* Timer.cancel: a timer that has fired goes on, unreferenced. *)
CancelTimer(at) ==
    /\ timer' = NoThread
    /\ pc' = IF timer # NoThread /\ at[timer] = "waiting"
             THEN [at EXCEPT ![timer] = "idle"] ELSE at

Init ==
    /\ rows = {Event(i, i - 1) : i \in 1..Logged}
    /\ settled = FALSE
    /\ inTime = {}
    /\ passed = {}
    /\ nextSeq = Logged
    /\ made = Logged
    /\ buffer = <<>>
    /\ batch = <<>>
    /\ io = NoThread
    /\ flushing = FALSE
    /\ timer = NoThread
    /\ pc = [t \in Threads |-> "idle"]
    /\ withTask = FALSE
    /\ phase = "crew"
    /\ tries = 0
    /\ dropped = {}
    /\ fails = 0
    /\ apc = [a \in Appenders |-> "new"]
    /\ aseq = [a \in Appenders |-> 0]
    /\ atries = [a \in Appenders |-> 0]
    /\ last = -1
    /\ seen = {}
    /\ spc = "status"
    /\ sawEnd = FALSE
    /\ hadEvents = TRUE

-------------------------------------------------------------------------------
(* The listener.                                                           *)

(* The bound on events counts those a thread is about to number. *)
MayEmit == made + Cardinality({w \in Writers : pc[w] = "drain"})
               < Logged + MaxEvents

(* _write_event: numbered and buffered; a full buffer is flushed at once   *)
(* by the same thread, else a timer will.  A cost alert comes after the    *)
(* final flush, from the closing thread.                                   *)
WriteEvent(t) ==
    /\ pc[t] = "idle" /\ MayEmit
    /\ IF t = Closer THEN phase = "flushed" ELSE t \in Writers /\ phase = "crew"
    /\ made' = made + 1
    /\ buffer' = Append(buffer, Event(made', nextSeq))
    /\ nextSeq' = nextSeq + 1
    /\ pc' = Move(t, IF Len(buffer') >= MaxBuffer THEN "flush" ELSE "schedule")
    /\ UNCHANGED <<dbVars, dropped, ioVars, timer, runVars, appenderVars, streamVars>>

(* A flush in flight will look at the buffer when it is over. *)
ScheduleFlush(t) ==
    /\ pc[t] = "schedule"
    /\ IF flushing THEN pc' = Move(t, "idle") /\ UNCHANGED timer
                   ELSE Schedule(Move(t, "idle"))
    /\ UNCHANGED <<dbVars, bufVars, ioVars, runVars, appenderVars,
                   streamVars>>

(* _write_event_with_task_update: the timer is cancelled.  A flush that is *)
(* in flight is waited for, here and in flush, by _io_lock at the latest.  *)
WriteTaskEvent(w) ==
    /\ w \in Writers /\ pc[w] = "idle" /\ phase = "crew" /\ MayEmit
    /\ CancelTimer(Move(w, "drain"))
    /\ UNCHANGED <<dbVars, bufVars, ioVars, runVars, appenderVars,
                   streamVars>>

(* Mutant: the event is written and the buffer left to its timer. *)
Drain_LeavesBuffer(w) ==
    /\ pc[w] = "drain" /\ io = NoThread
    /\ made' = made + 1
    /\ nextSeq' = nextSeq + 1
    /\ batch' = <<Event(made', nextSeq)>>
    /\ io' = w
    /\ withTask' = TRUE
    /\ pc' = Move(w, "write")
    /\ UNCHANGED <<dbVars, buffer, dropped, flushing, timer, runVars, appenderVars, streamVars>>

(* Then, under _io_lock, the event is numbered and the buffer taken with   *)
(* it.                                                                     *)
Drain(w) ==
    /\ pc[w] = "drain" /\ io = NoThread
    /\ made' = made + 1
    /\ nextSeq' = nextSeq + 1
    /\ batch' = Append(buffer, Event(made', nextSeq))
    /\ buffer' = <<>>
    /\ io' = w
    /\ withTask' = TRUE
    /\ pc' = Move(w, "write")
    /\ UNCHANGED <<dbVars, dropped, flushing, timer, runVars, appenderVars, streamVars>>

(* A timer fires. *)
Fire(t) ==
    /\ pc[t] = "waiting"
    /\ pc' = Move(t, "flush")
    /\ UNCHANGED <<dbVars, bufVars, ioVars, timer, runVars, appenderVars,
                   streamVars>>

(* Mutant: the flush does not wait for _io_lock. *)
TakeBuffer_NoLock(t) ==
    /\ pc[t] = "flush"
    /\ timer' = NoThread
    /\ IF buffer = <<>>
       THEN /\ pc' = Move(t, "idle")
            /\ UNCHANGED <<buffer, ioVars>>
       ELSE /\ batch' = buffer
            /\ buffer' = <<>>
            /\ io' = t
            /\ flushing' = TRUE
            /\ withTask' = FALSE
            /\ pc' = Move(t, "write")
    /\ UNCHANGED <<dbVars, nextSeq, made, dropped, runVars, appenderVars, streamVars>>

(* _flush_buffer takes _io_lock and the buffer; there may be nothing in it.*)
TakeBuffer(t) ==
    /\ pc[t] = "flush" /\ io = NoThread
    /\ timer' = NoThread
    /\ IF buffer = <<>>
       THEN /\ pc' = Move(t, "idle")
            /\ UNCHANGED <<buffer, ioVars>>
       ELSE /\ batch' = buffer
            /\ buffer' = <<>>
            /\ io' = t
            /\ flushing' = TRUE
            /\ withTask' = FALSE
            /\ pc' = Move(t, "write")
    /\ UNCHANGED <<dbVars, nextSeq, made, dropped, runVars, appenderVars, streamVars>>

(* Mutant: what was buffered during the flush is not looked for. *)
Release_NoRecheck(t, failed) ==
    /\ io' = NoThread
    /\ batch' = <<>>
    /\ flushing' = FALSE
    /\ withTask' = FALSE
    /\ IF failed THEN Schedule(Move(t, "idle"))
                 ELSE pc' = Move(t, "idle") /\ UNCHANGED timer

(* The thread is through with _io_lock.  A flush looks whether there is    *)
(* more to do; a task update that failed always schedules.                 *)
Release(t, failed) ==
    /\ io' = NoThread
    /\ batch' = <<>>
    /\ flushing' = FALSE
    /\ withTask' = FALSE
    /\ IF failed \/ (flushing /\ buffer # <<>>)
       THEN Schedule(Move(t, "idle"))
       ELSE pc' = Move(t, "idle") /\ UNCHANGED timer

(* The batch commits: no number of it is taken, and none is about to be. *)
CommitBatch(t) ==
    /\ pc[t] = "write"
    /\ ~Taken(batch)
    /\ \A s \in Seqs(Items(batch)) : ~Held(s)
    /\ rows' = rows \cup Items(batch)
    /\ passed' = passed \cup ({MaxSeq + 1} \ Seqs(Items(batch)))
    /\ Release(t, FALSE)
    /\ UNCHANGED <<settled, inTime, bufVars, runVars, appenderVars,
                   streamVars>>

(* Or a number of it is taken: IntegrityError.  The task CHECK, which      *)
(* forbids an update of a task that a cancel has failed, raises the same.  *)
Collide(t) ==
    /\ pc[t] = "write"
    /\ Taken(batch) \/ (withTask /\ settled)
    /\ pc' = Move(t, "renumber")
    /\ UNCHANGED <<dbVars, bufVars, ioVars, timer, runVars, appenderVars, streamVars>>

(* Or the database cannot be reached. *)
Outage(t) ==
    /\ pc[t] = "write" /\ fails < MaxFails
    /\ fails' = fails + 1
    /\ pc' = Move(t, "requeue")
    /\ UNCHANGED <<dbVars, bufVars, ioVars, timer, phase, tries, appenderVars, streamVars>>

(* _renumber_events: after the rows that are there now.  Other threads may *)
(* go on numbering and buffering from _seq meanwhile.                      *)
Renumber(t) ==
    /\ pc[t] = "renumber"
    /\ LET first == FirstFree IN
       /\ batch' = Numbered(batch, first)
       /\ nextSeq' = IF nextSeq < first + Len(batch) THEN first + Len(batch)
                                                     ELSE nextSeq
    /\ pc' = Move(t, "collided")
    /\ UNCHANGED <<dbVars, made, buffer, dropped, io, flushing, withTask, timer,
                   runVars, appenderVars, streamVars>>

(* If they cannot be read the listener's own counter is used. *)
RenumberFails(t) ==
    /\ pc[t] = "renumber" /\ CanRenumberFail /\ fails < MaxFails
    /\ fails' = fails + 1
    /\ batch' = Numbered(batch, nextSeq)
    /\ nextSeq' = nextSeq + Len(batch)
    /\ pc' = Move(t, "collided")
    /\ UNCHANGED <<dbVars, made, buffer, dropped, io, flushing, withTask, timer,
                   phase, tries, appenderVars, streamVars>>

(* Mutant: the failed batch goes behind what was buffered since. *)
Requeue_Behind(t) ==
    /\ pc[t] \in {"collided", "requeue"}
    /\ LET merged == buffer \o batch
           excess == IF Len(merged) > MaxPending THEN Len(merged) - MaxPending ELSE 0
       IN /\ buffer' = SubSeq(merged, excess + 1, Len(merged))
          /\ dropped' = dropped \cup {merged[i].id : i \in 1..excess}
    /\ Release(t, TRUE)
    /\ UNCHANGED <<dbVars, nextSeq, made, runVars, appenderVars, streamVars>>

(* _requeue_locked: the batch goes back before what was buffered since,    *)
(* which a collision renumbers; the oldest beyond the cap are dropped.     *)
Requeue(t) ==
    /\ pc[t] \in {"collided", "requeue"}
    /\ LET later == IF pc[t] = "collided" THEN Numbered(buffer, nextSeq) ELSE buffer
           merged == batch \o later
           excess == IF Len(merged) > MaxPending THEN Len(merged) - MaxPending ELSE 0
       IN /\ buffer' = SubSeq(merged, excess + 1, Len(merged))
          /\ dropped' = dropped \cup {merged[i].id : i \in 1..excess}
          /\ nextSeq' = IF pc[t] = "collided" THEN nextSeq + Len(buffer) ELSE nextSeq
    /\ Release(t, TRUE)
    /\ UNCHANGED <<dbVars, made, runVars, appenderVars, streamVars>>

-------------------------------------------------------------------------------
(* The end of the run: run_crew_async after the crew returned.             *)

(* flush: the timer is cancelled. *)
Close ==
    /\ phase = "crew"
    /\ \A w \in Writers : pc[w] = "idle"
    /\ phase' = "closing"
    /\ CancelTimer(pc)
    /\ UNCHANGED <<dbVars, bufVars, ioVars, tries, fails, appenderVars, streamVars>>

(* It flushes once, and again while events are left, at most Retries times.*)
FinalFlush ==
    /\ phase = "closing" /\ pc[Closer] = "idle"
    /\ tries = 0 \/ (buffer # <<>> /\ tries <= Retries)
    /\ tries' = tries + 1
    /\ pc' = Move(Closer, "flush")
    /\ UNCHANGED <<dbVars, bufVars, ioVars, timer, phase, fails, appenderVars, streamVars>>

(* Mutant: the final flush is not repeated. *)
Flushed_Unretried ==
    /\ phase = "closing" /\ pc[Closer] = "idle" /\ tries > 0
    /\ phase' = "flushed"
    /\ UNCHANGED <<dbVars, bufVars, ioVars, timer, pc, tries, fails,
                   appenderVars, streamVars>>

Flushed ==
    /\ phase = "closing" /\ pc[Closer] = "idle"
    /\ tries > 0 /\ (buffer = <<>> \/ tries > Retries)
    /\ phase' = "flushed"
    /\ UNCHANGED <<dbVars, bufVars, ioVars, timer, pc, tries, fails,
                   appenderVars, streamVars>>

Settle == settled' = TRUE /\ inTime' = IF settled THEN inTime ELSE rows

(* The outcome is committed. *)
Complete ==
    /\ phase = "flushed" /\ pc[Closer] = "idle"
    /\ phase' = "done"
    /\ Settle
    /\ UNCHANGED <<rows, passed, bufVars, ioVars, timer, pc, tries, fails, appenderVars, streamVars>>

(* Somebody cancels the execution; its crew goes on. *)
Cancel ==
    /\ ~settled
    /\ Settle
    /\ UNCHANGED <<rows, passed, listenerVars, appenderVars, streamVars>>

-------------------------------------------------------------------------------
(* The others: record_hitl_response, for the respond endpoint, and         *)
(* _write_request of the human-input provider.                             *)

(* The endpoint looks at the status first, without a lock; the provider    *)
(* runs in the crew.  Then the highest number is read.                     *)
AppendRead(a) ==
    /\ apc[a] = "new" /\ (~settled \/ phase = "crew")
    /\ apc' = [apc EXCEPT ![a] = "insert"]
    /\ aseq' = [aseq EXCEPT ![a] = MaxSeq + 1]
    /\ UNCHANGED <<dbVars, listenerVars, atries, streamVars>>

(* The insert waits for an uncommitted row with the number, and fails if   *)
(* there is a committed one: then the number is read again, a few times.   *)
AppendInsert(a) ==
    /\ apc[a] = "insert" /\ ~Held(aseq[a])
    /\ IF aseq[a] \notin Seqs(rows)
       THEN apc' = [apc EXCEPT ![a] = "inserted"] /\ UNCHANGED <<aseq, atries>>
       ELSE /\ atries' = [atries EXCEPT ![a] = @ + 1]
            /\ IF atries'[a] < Attempts
               THEN aseq' = [aseq EXCEPT ![a] = MaxSeq + 1] /\ UNCHANGED apc
               ELSE apc' = [apc EXCEPT ![a] = "raised"] /\ UNCHANGED aseq
    /\ UNCHANGED <<dbVars, listenerVars, streamVars>>

(* The transaction, with the endpoint's audit entry, commits or does not.  *)
AppendCommit(a) ==
    /\ apc[a] = "inserted"
    /\ \/ rows' = rows \cup {Appended(a, aseq[a])}
       \/ UNCHANGED rows
    /\ apc' = [apc EXCEPT ![a] = "done"]
    /\ UNCHANGED <<settled, inTime, passed, listenerVars, aseq, atries, streamVars>>

-------------------------------------------------------------------------------
(* The stream: _poll_execution.                                            *)

(* Mutant: an idle poll skips the events of a settled execution too. *)
PollStatus_SkipsSettled ==
    /\ spc = "status"
    /\ sawEnd' = settled
    /\ IF hadEvents
       THEN spc' = "events" /\ hadEvents' = FALSE
       ELSE /\ spc' = IF settled THEN "ended" ELSE "status"
            /\ hadEvents' = TRUE
    /\ UNCHANGED <<dbVars, listenerVars, appenderVars, last, seen>>

(* One poll reads the status and then, in statements of their own, the     *)
(* events; after a poll that found none the next does not look.  The limit *)
(* on polls is left out.                                                   *)
PollStatus ==
    /\ spc = "status"
    /\ sawEnd' = settled
    /\ IF hadEvents \/ settled
       THEN spc' = "events" /\ hadEvents' = FALSE
       ELSE spc' = "status" /\ hadEvents' = TRUE
    /\ UNCHANGED <<dbVars, listenerVars, appenderVars, last, seen>>

(* list_execution_events gives the lowest BatchSize of the later events; a *)
(* full batch is followed by another.                                      *)
PollEvents ==
    /\ spc = "events"
    /\ LET later == {x \in rows : x.seq > last}
           batchOf == {x \in later :
                         Cardinality({y \in later : y.seq < x.seq}) < BatchSize}
       IN /\ seen' = seen \cup batchOf
          /\ last' = IF batchOf = {} THEN last ELSE Highest(batchOf)
          /\ hadEvents' = (hadEvents \/ batchOf # {})
          /\ spc' = IF Cardinality(batchOf) = BatchSize THEN "events"
                    ELSE IF sawEnd THEN "ended" ELSE "status"
    /\ UNCHANGED <<dbVars, listenerVars, appenderVars, sawEnd>>

-------------------------------------------------------------------------------
ThreadStep(t) ==
    \/ ScheduleFlush(t) \/ Drain(t) \/ Fire(t) \/ TakeBuffer(t)
    \/ CommitBatch(t) \/ Collide(t) \/ Outage(t) \/ Renumber(t) \/ RenumberFails(t) \/ Requeue(t)

(* All that was to happen has happened. *)
Over ==
    /\ phase = "done" /\ spc = "ended" /\ timer = NoThread
    /\ \A t \in Threads : pc[t] = "idle"
    /\ \A a \in Appenders : apc[a] \notin {"insert", "inserted"}
    /\ UNCHANGED vars

CloserStep == FinalFlush \/ Flushed \/ Complete

Next ==
    \/ \E t \in Threads : WriteEvent(t) \/ WriteTaskEvent(t) \/ ThreadStep(t)
    \/ Close \/ CloserStep \/ Cancel
    \/ \E a \in Appenders : AppendRead(a) \/ AppendInsert(a) \/ AppendCommit(a)
    \/ PollStatus \/ PollEvents
    \/ Over

(* Threads that have work do it and requests end; the crew may not. *)
Fairness ==
    /\ \A t \in Threads : WF_vars(ThreadStep(t))
    /\ \A a \in Appenders : WF_vars(AppendInsert(a) \/ AppendCommit(a))
    /\ WF_vars(CloserStep)
    /\ WF_vars(PollStatus \/ PollEvents)

Spec == Init /\ [][Next]_vars
FairSpec == Spec /\ Fairness

-------------------------------------------------------------------------------
Places == {"idle", "schedule", "waiting", "drain", "flush", "write", "renumber",
           "collided", "requeue"}

Writing == {"write", "renumber", "collided", "requeue"}

Row == [kind : {"event", "hitl"}, id : Nat \cup Appenders, seq : Nat]
EventRow == [kind : {"event"}, id : Nat, seq : Nat]

(* Types, and _io_lock belongs to the thread that has a batch to write. *)
TypeOK ==
    /\ rows \subseteq Row /\ seen \subseteq rows
    /\ buffer \in Seq(EventRow) /\ batch \in Seq(EventRow)
    /\ \A x \in Items(buffer) \cup Items(batch) : x.id \in 1..made
    /\ passed \subseteq Nat
    /\ settled \in BOOLEAN /\ flushing \in BOOLEAN /\ withTask \in BOOLEAN
    /\ inTime \subseteq rows
    /\ {nextSeq, made, tries, fails} \subseteq Nat
    /\ io \in Threads \cup {NoThread}
    /\ \A t \in Threads : io = t <=> pc[t] \in Writing
    /\ timer \in Timers \cup {NoThread}
    /\ pc \in [Threads -> Places]
    /\ phase \in {"crew", "closing", "flushed", "done"}
    /\ dropped \subseteq 1..made
    /\ apc \in [Appenders -> {"new", "insert", "inserted", "done", "raised"}]
    /\ aseq \in [Appenders -> Nat] /\ atries \in [Appenders -> Nat]
    /\ last \in Nat \cup {-1}
    /\ spc \in {"status", "events", "ended"}
    /\ sawEnd \in BOOLEAN /\ hadEvents \in BOOLEAN

(* A request or an answer that had the next number while the listener's    *)
(* counter was beyond it (events it dropped, or renumbered as others were  *)
(* buffered), and that commits after a batch with higher ones.             *)
Overtaken(x) == x.kind = "hitl" /\ x.seq \in passed

(* The stream never passes over an event: what commits later has a number  *)
(* beyond the last one it yielded (the comment on _io_lock); and it passes *)
(* over a request or an answer only if a batch had left its number out.    *)
NothingSkipped == \A x \in rows : x.seq <= last => x \in seen \/ Overtaken(x)

(* The listener's events are logged in the order they were emitted: none   *)
(* is in the log before an earlier one, unless that one was dropped, and   *)
(* their numbers rise, whatever was renumbered and queued again.           *)
WriteOrder ==
    \A i \in 1..made : \A x \in rows :
        x.kind = "event" /\ i < x.id /\ i \notin dropped
            => \E y \in rows : y.kind = "event" /\ y.id = i /\ y.seq < x.seq

(* A stream that has ended has yielded all that was logged when the        *)
(* execution settled, but for what was overtaken: it reads the events      *)
(* after the status.                                                       *)
StreamComplete ==
    spc = "ended" => \A x \in inTime : x \in seen \/ Overtaken(x)

(* While the database answers, the final flush leaves nothing buffered: a  *)
(* batch that collides is renumbered "so it can flush again".              *)
FinalFlushEmpties ==
    [][phase = "closing" /\ phase' = "flushed" /\ fails = 0
           => buffer = <<>>]_vars

(* Every event is logged in the end, even if the crew goes on for ever,    *)
(* unless it was dropped on overflow: no flush is forgotten between the    *)
(* timers, the flush in flight and the batches that are queued again.      *)
InLog(i) == \E x \in rows : x.kind = "event" /\ x.id = i
EventuallyLogged ==
    \A i \in (Logged + 1)..(Logged + MaxEvents) :
        i <= made ~> InLog(i) \/ i \in dropped
===============================================================================
