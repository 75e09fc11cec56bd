-------------------------- MODULE ExecutionLifecycle --------------------------
(***************************************************************************)
(* The life of an execution on the local thread-pool path                  *)
(* (src/backend/blackbeard/engine/executor.py): the row and its tasks in   *)
(* the database, the pool thread that runs it (run_crew_async), the        *)
(* LiteLLM virtual key that enforces its budget, cancellation from any     *)
(* API process, and the start-up recovery of a process that was stopped.   *)
(*                                                                         *)
(* An execution's step is one action per database transaction or remote    *)
(* call, because another process may act between any two of them.  The     *)
(* run's session keeps the row it first loaded: it is made with            *)
(* expire_on_commit=False (executor.py:268) and the later SELECT ... FOR   *)
(* UPDATE does not ask for populate_existing, so the object it returns     *)
(* still has the attributes of the first load.  RelockRefreshes says       *)
(* whether the re-locked row is re-read: FALSE is the code as it is, TRUE  *)
(* is what its comments suppose.                                           *)
(***************************************************************************)
EXTENDS Naturals, FiniteSets

CONSTANTS
    Execs,            \* executions
    Procs,            \* API processes
    NoProc,           \* not a process
    WorkerId,         \* the WORKER_ID of each process
    PoolSize,         \* max_concurrent_executions
    Budgeted,         \* executions whose policies set a budget
    Redacting,        \* executions whose policies redact outputs
    RelockRefreshes,  \* does locking the row again re-read it?
    Env,              \* the faults and delays that may happen
    MaxStops          \* bound: crashes and shutdowns in a behaviour

EnvEvents == {"audit_fails", "proxy_fails", "redactor_fails", "db_fails",
              "db_stays_down", "long_run", "orphan_ages", "purge"}

ASSUME LifecycleAssumption ==
    /\ NoProc \notin Procs
    /\ DOMAIN WorkerId = Procs
    /\ PoolSize \in Nat \ {0}
    /\ Budgeted \subseteq Execs
    /\ Redacting \subseteq Execs
    /\ RelockRefreshes \in BOOLEAN
    /\ Env \subseteq EnvEvents
    /\ MaxStops \in Nat

VARIABLES
    \* the database: one row per execution, and one of its tasks
    status,     \* Execution.status, "absent" before and "purged" after
    started,    \* started_at is set
    keyCol,     \* litellm_key is set
    outputs,    \* what the outputs column holds
    idle,       \* updated_at is older than the two-hour cutoff
    task,       \* status of the execution's task
    \* the run of each execution
    pc,         \* where it is
    home,       \* the process that accepted it; worker_id is WorkerId[home]
    hasKey,     \* run_crew_async holds a virtual key
    pending,    \* what the finally block still owes: see Pendings
    watched,    \* the future has not been cancelled: _on_thread_done looks
    \* the rest
    txn,        \* the process with an uncommitted cancel of the row
    keys,       \* executions whose virtual key exists at the LiteLLM proxy
    lost,       \* keys whose holder died or was not answered: history
    proc,       \* the state of each process
    stops       \* crashes and shutdowns so far

rowVars == <<status, started, keyCol, outputs, idle, task>>
runVars == <<pc, home, hasKey, pending, watched>>
keyVars == <<keys, lost>>
procVars == <<proc, stops>>
vars == <<rowVars, runVars, txn, keyVars, procVars>>

-------------------------------------------------------------------------------
Open == {"queued", "running"}
Settled == {"completed", "failed", "cancelled"}
Statuses == {"absent", "purged"} \cup Open \cup Settled
TaskStatuses == {"pending", "running", "completed", "failed"}

(* A pool thread works on the run in one of these. *)
Threaded == {"starting", "setup", "keyed", "ready", "crew", "returned",
             "failing", "cleanup", "clearing"}
PCs == {"none", "committed", "pooled", "raised", "done", "dropped", "dead"}
           \cup Threaded

(* "dirty": the session holds, flushed but not committed, a COMPLETED row. *)
(* "raise": the exception goes on to the future.                           *)
Pendings == {"nothing", "dirty", "raise"}

ProcStates == {"down", "booting", "recovering", "up", "draining"}

(* The run exists in the memory of a living process. *)
Live(e) == pc[e] \in Threaded \cup {"committed", "pooled", "raised"}

(* Another transaction holds the row's lock. *)
Locked(e) == txn[e] # NoProc \/ pending[e] = "dirty"

CanTransition(from, to) ==
    \/ from = "queued" /\ to \in {"running", "failed", "cancelled"}
    \/ from = "running" /\ to \in Settled

(* Mutant: the lock re-reads nothing, even when it should. *)
View_NeverReread(e) == IF status[e] = "purged" THEN "purged" ELSE "running"

(* The status that _get_execution_for_update shows the run, which loaded   *)
(* the row as RUNNING; a deleted row is seen to be missing in any case.    *)
View(e) == IF RelockRefreshes \/ status[e] = "purged" THEN status[e]
                                                      ELSE "running"

(* Mutant: the filter forgets whose row it is. *)
Stale_AnyWorker(p) == {e \in Execs : status[e] \in Open}

(* Mutant: the filter forgets the rows that no thread had taken. *)
Stale_RunningOnly(p) == {e \in Execs : /\ status[e] = "running"
                                       /\ \/ WorkerId[home[e]] = WorkerId[p]
                                          \/ idle[e]}

(* _stale_execution_filter: the rows that process p may recover. *)
Stale(p) == {e \in Execs : /\ status[e] \in Open
                           /\ \/ WorkerId[home[e]] = WorkerId[p]
                              \/ idle[e]}

(* Mutant: a task that is running is left as it is. *)
FailTasks_PendingOnly(S) ==
    task' = [e \in Execs |-> IF e \in S /\ task[e] = "pending"
                             THEN "failed" ELSE task[e]]

(* Mutant: tasks are given a status that only executions have. *)
FailTasks_Cancelled(S) ==
    task' = [e \in Execs |-> IF e \in S /\ task[e] \in {"pending", "running"}
                             THEN "cancelled" ELSE task[e]]

(* _fail_pending_tasks, and the same loop in cancel and in recovery. *)
FailTasks(S) ==
    task' = [e \in Execs |->
                IF e \in S /\ task[e] \in {"pending", "running"}
                THEN "failed" ELSE task[e]]

(* Every UPDATE of a row sets updated_at. *)
Touch(S) == idle' = [e \in Execs |-> idle[e] /\ e \notin S]

Goto(e, to) == pc' = [pc EXCEPT ![e] = to]

(* The thread leaves the try block owing the finally block and the future. *)
Leave(e, owing) == /\ Goto(e, "cleanup")
                   /\ pending' = [pending EXCEPT ![e] = owing]

Init ==
    /\ status = [e \in Execs |-> "absent"]
    /\ started = [e \in Execs |-> FALSE]
    /\ keyCol = [e \in Execs |-> FALSE]
    /\ outputs = [e \in Execs |-> "none"]
    /\ idle = [e \in Execs |-> FALSE]
    /\ task = [e \in Execs |-> "pending"]
    /\ pc = [e \in Execs |-> "none"]
    /\ home = [e \in Execs |-> NoProc]
    /\ hasKey = [e \in Execs |-> FALSE]
    /\ pending = [e \in Execs |-> "nothing"]
    /\ watched = [e \in Execs |-> TRUE]
    /\ txn = [e \in Execs |-> NoProc]
    /\ keys = {}
    /\ lost = {}
    /\ proc = [p \in Procs |-> "down"]
    /\ stops = 0

-------------------------------------------------------------------------------
(* Submission: _submit_execution.                                          *)

(* The row and its tasks are committed, owned by the accepting process. *)
Submit(e, p) ==
    /\ proc[p] = "up" /\ pc[e] = "none"
    /\ status' = [status EXCEPT ![e] = "queued"]
    /\ home' = [home EXCEPT ![e] = p]
    /\ Goto(e, "committed")
    /\ UNCHANGED <<started, keyCol, outputs, idle, task, hasKey, pending,
                   watched, txn, keyVars, procVars>>

(* Only then is the work given to the pool and its future registered. *)
Enqueue(e) ==
    /\ pc[e] = "committed"
    /\ Goto(e, "pooled")
    /\ UNCHANGED <<rowVars, home, hasKey, pending, watched, txn, keyVars,
                   procVars>>

(* A pool thread is free for it. *)
TakeThread(e) ==
    /\ pc[e] = "pooled"
    /\ Cardinality({f \in Execs : home[f] = home[e] /\ pc[f] \in Threaded})
           < PoolSize
    /\ Goto(e, "starting")
    /\ UNCHANGED <<rowVars, home, hasKey, pending, watched, txn, keyVars,
                   procVars>>

-------------------------------------------------------------------------------
(* The run: run_crew_async.                                                *)

(* Mutant: the run starts without looking at the status. *)
StartRun_Unchecked(e) ==
    /\ pc[e] = "starting" /\ ~Locked(e)
    /\ status' = [status EXCEPT ![e] = "running"]
    /\ started' = [started EXCEPT ![e] = TRUE]
    /\ Touch({e})
    /\ Goto(e, "setup")
    /\ UNCHANGED <<keyCol, outputs, task, home, hasKey, pending, watched, txn,
                   keyVars, procVars>>

(* The row is locked, read and made RUNNING; unless it is no longer queued.*)
StartRun(e) ==
    /\ pc[e] = "starting" /\ ~Locked(e)
    /\ IF CanTransition(status[e], "running")
       THEN /\ status' = [status EXCEPT ![e] = "running"]
            /\ started' = [started EXCEPT ![e] = TRUE]
            /\ Touch({e})
            /\ Goto(e, "setup")
       ELSE /\ Goto(e, "done")
            /\ UNCHANGED <<status, started, idle>>
    /\ UNCHANGED <<keyCol, outputs, task, home, hasKey, pending, watched, txn,
                   keyVars, procVars>>

(* The database refuses that transaction, which no handler surrounds. *)
StartFails(e) ==
    /\ pc[e] = "starting" /\ "db_fails" \in Env
    /\ Goto(e, "raised")
    /\ UNCHANGED <<rowVars, home, hasKey, pending, watched, txn, keyVars,
                   procVars>>

(* A virtual key is created at the proxy for a run with a budget. *)
CreateKey(e) ==
    /\ pc[e] = "setup" /\ e \in Budgeted
    /\ keys' = keys \cup {e}
    /\ hasKey' = [hasKey EXCEPT ![e] = TRUE]
    /\ Goto(e, "keyed")
    /\ UNCHANGED <<rowVars, home, pending, watched, txn, lost, procVars>>

(* Mutant: a failed creation is logged and the run goes on. *)
CreateKeyFails_Open(e) ==
    /\ pc[e] = "setup" /\ e \in Budgeted /\ "proxy_fails" \in Env
    /\ Goto(e, "ready")
    /\ UNCHANGED <<rowVars, home, hasKey, pending, watched, txn, keyVars,
                   procVars>>

(* Creation fails, or only its answer does: the run fails closed. *)
CreateKeyFails(e) ==
    /\ pc[e] = "setup" /\ e \in Budgeted /\ "proxy_fails" \in Env
    /\ \/ UNCHANGED keyVars
       \/ keys' = keys \cup {e} /\ lost' = lost \cup {e}
    /\ Goto(e, "failing")
    /\ UNCHANGED <<rowVars, home, hasKey, pending, watched, txn, procVars>>

NeedsNoKey(e) ==
    /\ pc[e] = "setup" /\ e \notin Budgeted
    /\ Goto(e, "ready")
    /\ UNCHANGED <<rowVars, home, hasKey, pending, watched, txn, keyVars,
                   procVars>>

(* The row is locked again and the key recorded in it. *)
PersistKey(e) ==
    /\ pc[e] = "keyed" /\ ~Locked(e)
    /\ IF View(e) = "running"
       THEN /\ keyCol' = [keyCol EXCEPT ![e] = TRUE]
            /\ Touch({e})
            /\ Goto(e, "ready")
       ELSE /\ Goto(e, "cleanup")
            /\ UNCHANGED <<keyCol, idle>>
    /\ UNCHANGED <<status, started, outputs, task, home, hasKey, pending,
                   watched, txn, keyVars, procVars>>

(* Mutant: the row is locked but its status is not looked at. *)
Recheck_Unchecked(e) ==
    /\ pc[e] = "ready" /\ ~Locked(e)
    /\ Goto(e, "crew")
    /\ UNCHANGED <<rowVars, home, hasKey, pending, watched, txn, keyVars,
                   procVars>>

(* The last look at the row before the crew is built and started. *)
Recheck(e) ==
    /\ pc[e] = "ready" /\ ~Locked(e)
    /\ Goto(e, IF View(e) = "running" THEN "crew" ELSE "cleanup")
    /\ UNCHANGED <<rowVars, home, hasKey, pending, watched, txn, keyVars,
                   procVars>>

(* Mutant: no constraint stops an update of a failed task. *)
TaskEvent_Unconstrained(e) ==
    /\ pc[e] = "crew" /\ ~Locked(e) /\ status[e] # "purged"
    /\ task' = [task EXCEPT
           ![e] = IF task[e] = "running" THEN "completed" ELSE "running"]
    /\ UNCHANGED <<status, started, keyCol, outputs, idle, runVars, txn,
                   keyVars, procVars>>

(* The listener's task updates.  A failed task has an error, which         *)
(* ck_exec_task_error_only_failed lets no other status keep.               *)
TaskEvent(e) ==
    /\ pc[e] = "crew" /\ ~Locked(e) /\ status[e] # "purged"
    /\ \/ /\ task[e] = "pending"
          /\ task' = [task EXCEPT ![e] = "running"]
       \/ /\ task[e] = "running"
          /\ task' = [task EXCEPT ![e] = "completed"]
    /\ UNCHANGED <<status, started, keyCol, outputs, idle, runVars, txn,
                   keyVars, procVars>>

(* Materialising the snapshot, deriving the budget, building the crew or   *)
(* running it raises.                                                      *)
RunRaises(e) ==
    /\ pc[e] \in {"setup", "crew"}
    /\ Goto(e, "failing")
    /\ UNCHANGED <<rowVars, home, hasKey, pending, watched, txn, keyVars,
                   procVars>>

(* The crew has returned and the listener has been flushed. *)
CrewReturns(e) ==
    /\ pc[e] = "crew"
    /\ Goto(e, "returned")
    /\ UNCHANGED <<rowVars, home, hasKey, pending, watched, txn, keyVars,
                   procVars>>

(* Mutant: the table has no such constraint. *)
ErrorForbids_Never(e) == FALSE

(* A row that has an error cannot be given the status COMPLETED:           *)
(* ck_execution_error_only_failed.                                         *)
ErrorForbids(e) == status[e] = "failed"

(* COMPLETED and the outputs are written and committed. *)
Finish(e) ==
    /\ pc[e] = "returned" /\ ~Locked(e)
    /\ IF View(e) # "running"
       THEN Leave(e, "nothing") /\ UNCHANGED <<status, outputs, idle>>
       ELSE IF ErrorForbids(e)
       THEN Leave(e, "raise") /\ UNCHANGED <<status, outputs, idle>>
       ELSE /\ status' = [status EXCEPT ![e] = "completed"]
            /\ outputs' = [outputs EXCEPT
                   ![e] = IF e \in Redacting THEN "redacted" ELSE "raw"]
            /\ Touch({e})
            /\ Leave(e, "nothing")
    /\ UNCHANGED <<started, keyCol, task, home, hasKey, watched, txn, keyVars,
                   procVars>>

(* The redactor raises after the object was given COMPLETED and the raw    *)
(* outputs.  The handler's query flushes them and then sees COMPLETED,     *)
(* which cannot become FAILED.                                             *)
RedactorFails(e) ==
    /\ pc[e] = "returned" /\ ~Locked(e) /\ View(e) = "running"
    /\ e \in Redacting /\ "redactor_fails" \in Env
    /\ Leave(e, IF ErrorForbids(e) THEN "raise" ELSE "dirty")
    /\ UNCHANGED <<rowVars, home, hasKey, watched, txn, keyVars, procVars>>

(* The handler: the row becomes FAILED and so do the open tasks. *)
FailRun(e) ==
    /\ pc[e] = "failing" /\ ~Locked(e)
    /\ IF CanTransition(View(e), "failed")
       THEN /\ status' = [status EXCEPT ![e] = "failed"]
            /\ FailTasks({e})
            /\ Touch({e})
       ELSE UNCHANGED <<status, task, idle>>
    /\ Leave(e, "nothing")
    /\ UNCHANGED <<started, keyCol, outputs, home, hasKey, watched, txn,
                   keyVars, procVars>>

(* A transaction of the try block or of the handler fails.  The session is *)
(* of no use any more, so the handler can do nothing and raises.           *)
TransactionFails(e) ==
    /\ pc[e] \in {"keyed", "ready", "returned", "failing"}
    /\ "db_fails" \in Env
    /\ Leave(e, "raise")
    /\ UNCHANGED <<rowVars, home, hasKey, watched, txn, keyVars, procVars>>

(* Where the thread goes when the finally block is over. *)
Exit(e) == Goto(e, IF pending[e] = "raise" THEN "raised" ELSE "done")

(* Mutant: the finally block does not look for a key. *)
LeaveKeyless_AnyRun(e) ==
    /\ pc[e] = "cleanup"
    /\ Exit(e)
    /\ pending' = [pending EXCEPT ![e] = "nothing"]
    /\ UNCHANGED <<rowVars, home, hasKey, watched, txn, keyVars, procVars>>

(* The finally block of a run without a key: the session is closed, which  *)
(* rolls back what it had not committed.                                   *)
LeaveKeyless(e) ==
    /\ pc[e] = "cleanup" /\ ~hasKey[e]
    /\ Exit(e)
    /\ pending' = [pending EXCEPT ![e] = "nothing"]
    /\ UNCHANGED <<rowVars, home, hasKey, watched, txn, keyVars, procVars>>

(* With a key: it is deleted at the proxy, or that fails and is logged. *)
DeleteKey(e) ==
    /\ pc[e] = "cleanup" /\ hasKey[e]
    /\ \/ keys' = keys \ {e} /\ UNCHANGED lost
       \/ "proxy_fails" \in Env /\ lost' = lost \cup {e} /\ UNCHANGED keys
    /\ Goto(e, "clearing")
    /\ UNCHANGED <<rowVars, home, hasKey, pending, watched, txn, procVars>>

(* Then the column is cleared and whatever the session holds committed; a  *)
(* session in which a flush failed can do neither, and a failure of this   *)
(* transaction is logged.                                                  *)
ClearKey(e) ==
    /\ pc[e] = "clearing" /\ txn[e] = NoProc
    /\ \/ /\ pending[e] = "raise" \/ status[e] = "purged" \/ "db_fails" \in Env
          /\ UNCHANGED <<status, keyCol, outputs, idle>>
       \/ /\ pending[e] # "raise" /\ status[e] # "purged"
          /\ keyCol' = [keyCol EXCEPT ![e] = FALSE]
          /\ Touch({e})
          /\ IF pending[e] = "dirty"
             THEN /\ status' = [status EXCEPT ![e] = "completed"]
                  /\ outputs' = [outputs EXCEPT ![e] = "raw"]
             ELSE UNCHANGED <<status, outputs>>
    /\ Exit(e)
    /\ pending' = [pending EXCEPT ![e] = "nothing"]
    /\ UNCHANGED <<started, task, home, hasKey, watched, txn, keyVars,
                   procVars>>

(* _on_thread_done and _mark_failed_async: a raised exception makes the    *)
(* row FAILED, in a session of its own; if that fails too it is logged.  A *)
(* cancelled future is ignored.                                            *)
MarkFailed(e) ==
    /\ pc[e] = "raised" /\ ~Locked(e)
    /\ \/ /\ watched[e] /\ CanTransition(status[e], "failed")
          /\ status' = [status EXCEPT ![e] = "failed"]
          /\ FailTasks({e})
          /\ Touch({e})
       \/ /\ \/ "db_stays_down" \in Env
             \/ ~watched[e]
             \/ ~CanTransition(status[e], "failed")
          /\ UNCHANGED <<status, task, idle>>
    /\ Goto(e, "done")
    /\ UNCHANGED <<started, keyCol, outputs, home, hasKey, pending, watched,
                   txn, keyVars, procVars>>

-------------------------------------------------------------------------------
(* Cancellation: cancel_execution and the endpoint that commits it.        *)

(* The row is locked and the change flushed; the future, if this process   *)
(* has it, is cancelled at once: queued work is dropped, and running work  *)
(* goes on unwatched.                                                      *)
CancelFlush(e, p) ==
    /\ proc[p] = "up" /\ ~Locked(e)
    /\ CanTransition(status[e], "cancelled")
    /\ txn' = [txn EXCEPT ![e] = p]
    /\ IF home[e] = p /\ pc[e] \in Threaded \cup {"pooled"}
       THEN /\ watched' = [watched EXCEPT ![e] = FALSE]
            /\ Goto(e, IF pc[e] = "pooled" THEN "dropped" ELSE pc[e])
       ELSE UNCHANGED <<watched, pc>>
    /\ UNCHANGED <<rowVars, home, hasKey, pending, keyVars, procVars>>

(* The audit entry is added and the transaction commits. *)
CancelCommit(e) ==
    /\ txn[e] # NoProc
    /\ status' = [status EXCEPT ![e] = "cancelled"]
    /\ FailTasks({e})
    /\ Touch({e})
    /\ txn' = [txn EXCEPT ![e] = NoProc]
    /\ UNCHANGED <<started, keyCol, outputs, runVars, keyVars, procVars>>

(* Or one of the two fails and everything is rolled back. *)
CancelRollback(e) ==
    /\ txn[e] # NoProc /\ "audit_fails" \in Env
    /\ txn' = [txn EXCEPT ![e] = NoProc]
    /\ UNCHANGED <<rowVars, runVars, keyVars, procVars>>

-------------------------------------------------------------------------------
(* Processes: the lifespan of main.py, shutdown_executor, crashes.         *)

Boot(p) ==
    /\ proc[p] = "down"
    /\ proc' = [proc EXCEPT ![p] = "booting"]
    /\ UNCHANGED <<rowVars, runVars, txn, keyVars, stops>>

(* Mutant: keys are not looked for before their column is cleared. *)
RecoverKeys_Skipped(p) ==
    /\ proc[p] = "booting"
    /\ proc' = [proc EXCEPT ![p] = "recovering"]
    /\ UNCHANGED <<rowVars, runVars, txn, keyVars, stops>>

(* cleanup_orphaned_keys: a key that cannot be deleted is left, and so are *)
(* all of them when the rows cannot be read.                               *)
RecoverKeys(p) ==
    /\ proc[p] = "booting"
    /\ LET found == {e \in Stale(p) : keyCol[e]} IN
       \E deleted \in SUBSET found :
           /\ "proxy_fails" \in Env \/ deleted = found
           /\ keys' = keys \ deleted
           /\ lost' = lost \cup (found \ deleted)
    /\ proc' = [proc EXCEPT ![p] = "recovering"]
    /\ UNCHANGED <<rowVars, runVars, txn, stops>>

(* recover_stale_executions: one UPDATE, which waits for locked rows. *)
RecoverRows(p) ==
    /\ proc[p] = "recovering"
    /\ \A e \in Stale(p) : ~Locked(e)
    /\ status' = [e \in Execs |-> IF e \in Stale(p) THEN "failed" ELSE status[e]]
    /\ keyCol' = [e \in Execs |-> keyCol[e] /\ e \notin Stale(p)]
    /\ FailTasks(Stale(p))
    /\ Touch(Stale(p))
    /\ proc' = [proc EXCEPT ![p] = "up"]
    /\ UNCHANGED <<started, outputs, runVars, txn, keyVars, stops>>

(* The runs of a process that is gone. *)
Kill(S) ==
    /\ pc' = [e \in Execs |-> IF e \in S THEN "dead" ELSE pc[e]]
    /\ pending' = [e \in Execs |-> IF e \in S THEN "nothing" ELSE pending[e]]

(* A crash: threads vanish, open transactions are rolled back. *)
Crash(p) ==
    /\ proc[p] # "down" /\ stops < MaxStops
    /\ LET gone == {e \in Execs : home[e] = p /\ Live(e)} IN
       /\ Kill(gone)
       /\ lost' = lost \cup {e \in gone : hasKey[e] /\ ~keyCol[e]}
    /\ txn' = [e \in Execs |-> IF txn[e] = p THEN NoProc ELSE txn[e]]
    /\ proc' = [proc EXCEPT ![p] = "down"]
    /\ stops' = stops + 1
    /\ UNCHANGED <<rowVars, home, hasKey, watched, keys>>

(* An orderly shutdown begins when requests are over; work that no thread  *)
(* has taken is dropped.                                                   *)
ShutDown(p) ==
    /\ proc[p] = "up" /\ stops < MaxStops
    /\ \A e \in Execs : txn[e] # p /\ ~(home[e] = p /\ pc[e] = "committed")
    /\ Kill({e \in Execs : home[e] = p /\ pc[e] = "pooled"})
    /\ proc' = [proc EXCEPT ![p] = "draining"]
    /\ stops' = stops + 1
    /\ UNCHANGED <<rowVars, home, hasKey, watched, txn, keyVars>>

(* It waits for the threads, not for a failure that is still to be marked. *)
Exited(p) ==
    /\ proc[p] = "draining"
    /\ \A e \in Execs : home[e] = p => pc[e] \notin Threaded
    /\ Kill({e \in Execs : home[e] = p /\ pc[e] = "raised"})
    /\ proc' = [proc EXCEPT ![p] = "down"]
    /\ UNCHANGED <<rowVars, home, hasKey, watched, txn, keyVars, stops>>

-------------------------------------------------------------------------------
(* Time.                                                                   *)

(* A row that nobody writes for two hours passes the recovery cutoff. *)
GoIdle(e) ==
    /\ status[e] \in Open /\ ~idle[e]
    /\ (IF Live(e) THEN "long_run" ELSE "orphan_ages") \in Env
    /\ idle' = [idle EXCEPT ![e] = TRUE]
    /\ UNCHANGED <<status, started, keyCol, outputs, task, runVars, txn,
                   keyVars, procVars>>

(* purge_expired_data deletes a settled row with its children. *)
Purge(e) ==
    /\ status[e] \in Settled /\ ~Locked(e) /\ "purge" \in Env
    /\ status' = [status EXCEPT ![e] = "purged"]
    /\ keyCol' = [keyCol EXCEPT ![e] = FALSE]
    /\ outputs' = [outputs EXCEPT ![e] = "none"]
    /\ UNCHANGED <<started, idle, task, runVars, txn, keyVars, procVars>>

-------------------------------------------------------------------------------
(* What the pool thread and the future's callback do for one execution. *)
RunStep(e) ==
    \/ Enqueue(e) \/ TakeThread(e) \/ StartRun(e) \/ StartFails(e)
    \/ CreateKey(e) \/ CreateKeyFails(e) \/ NeedsNoKey(e) \/ PersistKey(e)
    \/ Recheck(e) \/ TaskEvent(e) \/ RunRaises(e) \/ CrewReturns(e)
    \/ Finish(e) \/ RedactorFails(e) \/ FailRun(e) \/ TransactionFails(e)
    \/ LeaveKeyless(e) \/ DeleteKey(e) \/ ClearKey(e) \/ MarkFailed(e)

CancelStep(e) == CancelCommit(e) \/ CancelRollback(e)

BootStep(p) == Boot(p) \/ RecoverKeys(p) \/ RecoverRows(p) \/ Exited(p)

Next ==
    \/ \E e \in Execs : RunStep(e) \/ CancelStep(e) \/ GoIdle(e) \/ Purge(e)
    \/ \E e \in Execs, p \in Procs : Submit(e, p) \/ CancelFlush(e, p)
    \/ \E p \in Procs : BootStep(p) \/ Crash(p) \/ ShutDown(p)

(* Threads and the event loop keep going, a crew returns or raises, a      *)
(* request ends, and a stopped process is restarted.                       *)
Fairness ==
    /\ \A e \in Execs : WF_vars(RunStep(e)) /\ WF_vars(CancelStep(e))
    /\ \A p \in Procs : WF_vars(BootStep(p))

Spec == Init /\ [][Next]_vars
FairSpec == Spec /\ Fairness

-------------------------------------------------------------------------------
TypeOK ==
    /\ status \in [Execs -> Statuses]
    /\ started \in [Execs -> BOOLEAN]
    /\ keyCol \in [Execs -> BOOLEAN]
    /\ outputs \in [Execs -> {"none", "raw", "redacted"}]
    /\ idle \in [Execs -> BOOLEAN]
    /\ task \in [Execs -> TaskStatuses]
    /\ pc \in [Execs -> PCs]
    /\ home \in [Execs -> Procs \cup {NoProc}]
    /\ hasKey \in [Execs -> BOOLEAN]
    /\ pending \in [Execs -> Pendings]
    /\ watched \in [Execs -> BOOLEAN]
    /\ txn \in [Execs -> Procs \cup {NoProc}]
    /\ keys \in SUBSET Execs
    /\ lost \in SUBSET Execs
    /\ proc \in [Procs -> ProcStates]
    /\ stops \in Nat

(* An execution cancelled before it started never runs, whatever the order *)
(* in which the cancel, the pool thread, shutdown and recovery get at it   *)
(* (the check of the locked row at the head of run_crew_async).            *)
QueuedCancelIsFinal ==
    [][\A e \in Execs : status[e] = "cancelled" /\ ~started[e]
           => status'[e] \in {"cancelled", "purged"}]_vars

(* A cancelled execution is final, started or not: no outcome of a run     *)
(* replaces CANCELLED (_ALLOWED_STATUS_TRANSITIONS gives it no edge).      *)
CancelIsFinal ==
    [][\A e \in Execs : status[e] = "cancelled"
           => status'[e] \in {"cancelled", "purged"}]_vars

(* The crew is never started for an execution that is no longer RUNNING    *)
(* (the two checks of the re-locked row before the crew is built).         *)
NoCrewAfterCancel ==
    [][\A e \in Execs : pc[e] # "crew" /\ pc'[e] = "crew"
           => status[e] = "running"]_vars

(* Once an execution has failed or been cancelled none of its tasks is     *)
(* pending or running, though the listener of a run that goes on keeps     *)
(* writing task updates (_fail_pending_tasks and the task CHECK).          *)
TasksSettled ==
    \A e \in Execs : status[e] \in {"failed", "cancelled"}
                         => task[e] \in {"completed", "failed"}

(* A crew whose policies set a budget works under a virtual key that still *)
(* exists at the proxy: no failure and nobody else's cleanup leaves it     *)
(* spending without one.                                                   *)
BudgetEnforced ==
    \A e \in Execs \cap Budgeted :
        pc[e] = "crew" => hasKey[e] /\ e \in keys

(* A virtual key that exists can still be found: in the memory of a live   *)
(* run or in the row, unless its last holder lost it by a crash or an      *)
(* answer that did not come, or the row itself was deleted.                *)
KeysAccounted ==
    \A e \in keys : \/ (Live(e) /\ hasKey[e])
                     \/ keyCol[e]
                     \/ e \in lost
                     \/ status[e] = "purged"

(* Nobody but its own run fails the row, or deletes the virtual key, of an *)
(* execution that is going on in a living process: start-up recovery       *)
(* touches only what a dead process left (_stale_execution_filter).        *)
RecoverySparesHealthy ==
    [][\A e \in Execs :
           Live(e) /\ pc'[e] = pc[e]
           => /\ status[e] \in Open => status'[e] # "failed"
              /\ e \in keys => e \in keys']_vars

(* What a policy redacts is never stored as it came (redact_outputs). *)
StoredRedacted ==
    \A e \in Redacting : outputs[e] # "raw"

(* Every accepted execution settles, through cancels, crashes, shutdowns   *)
(* and restarts.                                                           *)
Settles == \A e \in Execs : status[e] \in Open ~> status[e] \notin Open

(* A virtual key is deleted in the end, unless it was lost or its process  *)
(* stopped when the row had already settled, which recovery does not read. *)
KeysReclaimed ==
    \A e \in Execs : e \in keys ~> \/ e \notin keys
                                    \/ e \in lost
                                    \/ (pc[e] = "dead" /\ status[e] \in Settled)

(* The lifecycle keeps the promise of ExecutionStatus, except that a run   *)
(* whose re-locked row is stale may displace CANCELLED.                    *)
Promise == INSTANCE ExecutionStatus WITH
               Displaced <- IF RelockRefreshes THEN {} ELSE {"cancelled"}
KeepsPromise == Promise!StatusSpec
===============================================================================
