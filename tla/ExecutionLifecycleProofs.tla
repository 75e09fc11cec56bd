---------------------- MODULE ExecutionLifecycleProofs ----------------------
(***************************************************************************)
(* Proofs about ExecutionLifecycle, for any executions, processes, worker  *)
(* ids, pool size, policies and faults.                                    *)
(***************************************************************************)
EXTENDS ExecutionLifecycle, TLAPS

(* Touching rows leaves a flag for each in the column. *)
LEMMA TouchType ==
    ASSUME NEW S, Touch(S)
    PROVE  idle' \in [Execs -> BOOLEAN]
BY Zenon DEF Touch

(* Failing tasks leaves a task status in each. *)
LEMMA FailTasksType ==
    ASSUME TypeOK, NEW S, FailTasks(S)
    PROVE  task' \in [Execs -> TaskStatuses]
BY DEF FailTasks, TypeOK, TaskStatuses

(* A column of flags stays one when one of them is set or cleared. *)
LEMMA FlagType ==
    ASSUME NEW f \in [Execs -> BOOLEAN], NEW e \in Execs
    PROVE  /\ [f EXCEPT ![e] = TRUE] \in [Execs -> BOOLEAN]
           /\ [f EXCEPT ![e] = FALSE] \in [Execs -> BOOLEAN]
OBVIOUS

(* Killing runs leaves them at a place, owing something or nothing. *)
LEMMA KillType ==
    ASSUME TypeOK, NEW S, Kill(S)
    PROVE  pc' \in [Execs -> PCs] /\ pending' \in [Execs -> Pendings]
BY DEF Kill, TypeOK, PCs, Pendings

(* Every variable keeps its type. *)
LEMMA TypeStep == TypeOK /\ [Next]_vars => TypeOK'
<1> SUFFICES ASSUME TypeOK, [Next]_vars
             PROVE  TypeOK'
  OBVIOUS
<1> USE LifecycleAssumption, TouchType, FailTasksType, KillType
    DEF TypeOK, Open, Settled, Statuses, TaskStatuses, Threaded, PCs, Pendings,
        ProcStates, Goto, Leave, Exit,
        rowVars, runVars, keyVars, procVars
<1>1. ASSUME NEW e \in Execs, RunStep(e)
      PROVE  TypeOK'
  <2>1. CASE Enqueue(e)
    BY <2>1 DEF Enqueue
  <2>2. CASE TakeThread(e)
    BY <2>2 DEF TakeThread
  <2>3. CASE StartRun(e)
    <3>1. CASE CanTransition(status[e], "running")
      <4>1. started' = [started EXCEPT ![e] = TRUE]
        BY <2>3, <3>1 DEF StartRun
      <4>2. started' \in [Execs -> BOOLEAN]
        BY <4>1, FlagType
      <4> QED
        BY <2>3, <3>1, <4>2 DEF StartRun
    <3>2. CASE ~CanTransition(status[e], "running")
      BY <2>3, <3>2 DEF StartRun
    <3> QED
      BY <3>1, <3>2
  <2>4. CASE StartFails(e)
    BY <2>4 DEF StartFails
  <2>5. CASE CreateKey(e)
    BY <2>5 DEF CreateKey
  <2>6. CASE CreateKeyFails(e)
    BY <2>6 DEF CreateKeyFails
  <2>7. CASE NeedsNoKey(e)
    BY <2>7 DEF NeedsNoKey
  <2>8. CASE PersistKey(e)
    <3>1. CASE View(e) = "running"
      <4>1. keyCol' = [keyCol EXCEPT ![e] = TRUE]
        BY <2>8, <3>1 DEF PersistKey
      <4>2. keyCol' \in [Execs -> BOOLEAN]
        BY <4>1, FlagType
      <4> QED
        BY <2>8, <3>1, <4>2 DEF PersistKey
    <3>2. CASE View(e) # "running"
      BY <2>8, <3>2 DEF PersistKey
    <3> QED
      BY <3>1, <3>2
  <2>9. CASE Recheck(e)
    BY <2>9 DEF Recheck
  <2>10. CASE TaskEvent(e)
    BY <2>10 DEF TaskEvent
  <2>11. CASE RunRaises(e)
    BY <2>11 DEF RunRaises
  <2>12. CASE CrewReturns(e)
    BY <2>12 DEF CrewReturns
  <2>13. CASE Finish(e)
    BY <2>13 DEF Finish
  <2>14. CASE RedactorFails(e)
    BY <2>14 DEF RedactorFails
  <2>15. CASE FailRun(e)
    BY <2>15 DEF FailRun
  <2>16. CASE TransactionFails(e)
    BY <2>16 DEF TransactionFails
  <2>17. CASE LeaveKeyless(e)
    BY <2>17 DEF LeaveKeyless
  <2>18. CASE DeleteKey(e)
    BY <2>18 DEF DeleteKey
  <2>19. CASE ClearKey(e)
    <3>1. CASE UNCHANGED <<status, keyCol, outputs, idle>>
      BY <2>19, <3>1 DEF ClearKey
    <3>2. CASE keyCol' = [keyCol EXCEPT ![e] = FALSE]
      <4>1. keyCol' \in [Execs -> BOOLEAN]
        BY <3>2, FlagType
      <4>2. idle' \in [Execs -> BOOLEAN]
        BY <2>19, <3>2, TouchType DEF ClearKey
      <4>3. status' \in [Execs -> Statuses]
        BY <2>19, <3>2 DEF ClearKey
      <4>4. outputs' \in [Execs -> {"none", "raw", "redacted"}]
        BY <2>19, <3>2 DEF ClearKey
      <4> QED
        BY <2>19, <4>1, <4>2, <4>3, <4>4 DEF ClearKey
    <3> QED
      BY <2>19, <3>1, <3>2 DEF ClearKey
  <2>20. CASE MarkFailed(e)
    BY <2>20 DEF MarkFailed
  <2>q. QED
    BY <1>1, <2>1, <2>2, <2>3, <2>4, <2>5, <2>6, <2>7, <2>8, <2>9, <2>10, <2>11, <2>12, <2>13, <2>14, <2>15, <2>16, <2>17, <2>18, <2>19, <2>20 DEF RunStep
<1>2. ASSUME NEW e \in Execs, CancelStep(e)
      PROVE  TypeOK'
  BY <1>2 DEF CancelStep, CancelCommit, CancelRollback
<1>3. ASSUME NEW e \in Execs, NEW p \in Procs, Submit(e, p)
      PROVE  TypeOK'
  BY <1>3 DEF Submit
<1>4. ASSUME NEW e \in Execs, NEW p \in Procs, CancelFlush(e, p)
      PROVE  TypeOK'
  <2>1. CASE home[e] = p /\ pc[e] \in Threaded \cup {"pooled"}
    <3>1. watched' = [watched EXCEPT ![e] = FALSE]
      BY <1>4, <2>1 DEF CancelFlush
    <3>2. watched' \in [Execs -> BOOLEAN]
      BY <3>1, FlagType
    <3> QED
      BY <1>4, <2>1, <3>2 DEF CancelFlush
  <2>2. CASE ~(home[e] = p /\ pc[e] \in Threaded \cup {"pooled"})
    BY <1>4, <2>2 DEF CancelFlush
  <2> QED
    BY <2>1, <2>2
<1>5. ASSUME NEW e \in Execs, GoIdle(e) \/ Purge(e)
      PROVE  TypeOK'
  <2>1. CASE GoIdle(e)
    BY <2>1 DEF GoIdle
  <2>2. CASE Purge(e)
    BY <2>2 DEF Purge
  <2> QED
    BY <1>5, <2>1, <2>2
<1>6. ASSUME NEW p \in Procs, Boot(p)
      PROVE  TypeOK'
  BY <1>6 DEF Boot
<1>7. ASSUME NEW p \in Procs, RecoverKeys(p)
      PROVE  TypeOK'
  BY <1>7 DEF RecoverKeys, Stale
<1>8. ASSUME NEW p \in Procs, RecoverRows(p)
      PROVE  TypeOK'
  BY <1>8 DEF RecoverRows
<1>9. ASSUME NEW p \in Procs, Exited(p)
      PROVE  TypeOK'
  BY <1>9 DEF Exited
<1>10. ASSUME NEW p \in Procs, Crash(p)
      PROVE  TypeOK'
  BY <1>10 DEF Crash
<1>11. ASSUME NEW p \in Procs, ShutDown(p)
      PROVE  TypeOK'
  BY <1>11 DEF ShutDown
<1>12. CASE UNCHANGED vars
  BY <1>12 DEF vars
<1> QED
  BY <1>1, <1>2, <1>3, <1>4, <1>5, <1>6, <1>7, <1>8, <1>9, <1>10, <1>11, <1>12
     DEF Next, BootStep

(* Every variable has its type in every reachable state. *)
THEOREM TypeCorrect == Spec => []TypeOK
<1>1. Init => TypeOK
  BY LifecycleAssumption
     DEF Init, TypeOK, Statuses, Open, Settled, TaskStatuses, PCs, Pendings,
         ProcStates
<1> QED
  BY <1>1, TypeStep, PTL DEF Spec

-------------------------------------------------------------------------------
(* How a run stands to its row: a run that has started has a row that was  *)
(* RUNNING; an uncommitted cancel holds an open row locked; so does a      *)
(* session with an uncommitted COMPLETED, whose row is still RUNNING       *)
(* unless the lock showed it a stale one.                                  *)
Begun == {"setup", "keyed", "ready", "crew", "returned", "failing"}
Displaceable == IF RelockRefreshes THEN {} ELSE {"cancelled"}

RowInv(e) ==
    /\ pc[e] = "none" => status[e] = "absent"
    /\ pc[e] \in Begun =>
           status[e] \in {"running", "failed", "cancelled", "purged"}
    /\ txn[e] # NoProc => status[e] \in Open
    /\ pending[e] = "dirty" => /\ pc[e] \in {"cleanup", "clearing"}
                               /\ txn[e] = NoProc
                               /\ status[e] \in {"running"} \cup Displaceable

StatusInv == \A e \in Execs : RowInv(e)

(* Every step keeps it. *)
LEMMA StatusStep == TypeOK /\ StatusInv /\ [Next]_vars => StatusInv'
<1> SUFFICES ASSUME TypeOK, StatusInv, [Next]_vars
             PROVE  StatusInv'
  OBVIOUS
<1> USE DEF TypeOK, StatusInv, RowInv, Begun, Displaceable, Open, Settled, Locked,
            CanTransition, View, Goto, Leave, Exit, rowVars, runVars, keyVars,
            procVars
<1>1. ASSUME NEW e \in Execs, RunStep(e)
      PROVE  StatusInv'
  <2>1. CASE Enqueue(e)
    BY <2>1 DEF Enqueue
  <2>2. CASE TakeThread(e)
    BY <2>2 DEF TakeThread
  <2>3. CASE StartRun(e)
    BY <2>3 DEF StartRun
  <2>4. CASE StartFails(e)
    BY <2>4 DEF StartFails
  <2>5. CASE CreateKey(e)
    BY <2>5 DEF CreateKey
  <2>6. CASE CreateKeyFails(e)
    BY <2>6 DEF CreateKeyFails
  <2>7. CASE NeedsNoKey(e)
    BY <2>7 DEF NeedsNoKey
  <2>8. CASE PersistKey(e)
    BY <2>8 DEF PersistKey
  <2>9. CASE Recheck(e)
    BY <2>9 DEF Recheck
  <2>10. CASE TaskEvent(e)
    BY <2>10 DEF TaskEvent
  <2>11. CASE RunRaises(e)
    BY <2>11 DEF RunRaises
  <2>12. CASE CrewReturns(e)
    BY <2>12 DEF CrewReturns
  <2>13. CASE Finish(e)
    BY <2>13 DEF Finish, ErrorForbids
  <2>14. CASE RedactorFails(e)
    BY <2>14 DEF RedactorFails, ErrorForbids
  <2>15. CASE FailRun(e)
    BY <2>15 DEF FailRun
  <2>16. CASE TransactionFails(e)
    BY <2>16 DEF TransactionFails
  <2>17. CASE LeaveKeyless(e)
    BY <2>17 DEF LeaveKeyless
  <2>18. CASE DeleteKey(e)
    BY <2>18 DEF DeleteKey
  <2>19. CASE ClearKey(e)
    BY <2>19 DEF ClearKey
  <2>20. CASE MarkFailed(e)
    BY <2>20 DEF MarkFailed
  <2> QED
    BY <1>1, <2>1, <2>2, <2>3, <2>4, <2>5, <2>6, <2>7, <2>8, <2>9, <2>10, <2>11, <2>12, <2>13, <2>14, <2>15, <2>16, <2>17, <2>18, <2>19, <2>20
       DEF RunStep
<1>2. ASSUME NEW e \in Execs, CancelCommit(e)
      PROVE  StatusInv'
  BY <1>2 DEF CancelCommit
<1>3. ASSUME NEW e \in Execs, CancelRollback(e)
      PROVE  StatusInv'
  BY <1>3 DEF CancelRollback
<1>4. ASSUME NEW e \in Execs, GoIdle(e)
      PROVE  StatusInv'
  BY <1>4 DEF GoIdle
<1>5. ASSUME NEW e \in Execs, Purge(e)
      PROVE  StatusInv'
  BY <1>5 DEF Purge
<1>6. ASSUME NEW e \in Execs, NEW p \in Procs, Submit(e, p)
      PROVE  StatusInv'
  BY <1>6 DEF Submit
<1>7. ASSUME NEW e \in Execs, NEW p \in Procs, CancelFlush(e, p)
      PROVE  StatusInv'
  BY <1>7 DEF CancelFlush
<1>8. ASSUME NEW p \in Procs, Boot(p)
      PROVE  StatusInv'
  BY <1>8 DEF Boot
<1>9. ASSUME NEW p \in Procs, RecoverKeys(p)
      PROVE  StatusInv'
  BY <1>9 DEF RecoverKeys
<1>10. ASSUME NEW p \in Procs, RecoverRows(p)
      PROVE  StatusInv'
  BY <1>10 DEF RecoverRows, Stale
<1>11. ASSUME NEW p \in Procs, Exited(p)
      PROVE  StatusInv'
  BY <1>11 DEF Exited, Kill
<1>12. ASSUME NEW p \in Procs, Crash(p)
      PROVE  StatusInv'
  BY <1>12 DEF Crash, Kill
<1>13. ASSUME NEW p \in Procs, ShutDown(p)
      PROVE  StatusInv'
  BY <1>13 DEF ShutDown, Kill
<1>14. CASE UNCHANGED vars
  BY <1>14 DEF vars
<1> QED
  BY <1>1, <1>2, <1>3, <1>4, <1>5, <1>6, <1>7, <1>8, <1>9, <1>10, <1>11, <1>12, <1>13, <1>14
     DEF Next, CancelStep, BootStep

(* A step moves a row along an edge of the promise, or not at all. *)
LEMMA EdgeStep ==
    TypeOK /\ StatusInv /\ [Next]_vars
        => \A f \in Execs : Promise!Edge(status[f], status'[f])
<1> SUFFICES ASSUME TypeOK, StatusInv, [Next]_vars
             PROVE  \A f \in Execs : Promise!Edge(status[f], status'[f])
  OBVIOUS
<1> USE DEF TypeOK, StatusInv, RowInv, Begun, Displaceable, Open, Settled,
            CanTransition, View, Promise!Edge, Promise!CanTransition,
            Promise!Settled, Leave, rowVars
<1>1. ASSUME NEW e \in Execs, RunStep(e)
      PROVE  \A f \in Execs : Promise!Edge(status[f], status'[f])
  <2>1. CASE Enqueue(e)
    BY <2>1 DEF Enqueue
  <2>2. CASE TakeThread(e)
    BY <2>2 DEF TakeThread
  <2>3. CASE StartRun(e)
    BY <2>3 DEF StartRun
  <2>4. CASE StartFails(e)
    BY <2>4 DEF StartFails
  <2>5. CASE CreateKey(e)
    BY <2>5 DEF CreateKey
  <2>6. CASE CreateKeyFails(e)
    BY <2>6 DEF CreateKeyFails
  <2>7. CASE NeedsNoKey(e)
    BY <2>7 DEF NeedsNoKey
  <2>8. CASE PersistKey(e)
    BY <2>8 DEF PersistKey
  <2>9. CASE Recheck(e)
    BY <2>9 DEF Recheck
  <2>10. CASE TaskEvent(e)
    BY <2>10 DEF TaskEvent
  <2>11. CASE RunRaises(e)
    BY <2>11 DEF RunRaises
  <2>12. CASE CrewReturns(e)
    BY <2>12 DEF CrewReturns
  <2>13. CASE Finish(e)
    BY <2>13 DEF Finish, ErrorForbids
  <2>14. CASE RedactorFails(e)
    BY <2>14 DEF RedactorFails
  <2>15. CASE FailRun(e)
    BY <2>15 DEF FailRun
  <2>16. CASE TransactionFails(e)
    BY <2>16 DEF TransactionFails
  <2>17. CASE LeaveKeyless(e)
    BY <2>17 DEF LeaveKeyless
  <2>18. CASE DeleteKey(e)
    BY <2>18 DEF DeleteKey
  <2>19. CASE ClearKey(e)
    BY <2>19 DEF ClearKey
  <2>20. CASE MarkFailed(e)
    BY <2>20 DEF MarkFailed
  <2> QED
    BY <1>1, <2>1, <2>2, <2>3, <2>4, <2>5, <2>6, <2>7, <2>8, <2>9, <2>10, <2>11, <2>12, <2>13, <2>14, <2>15, <2>16, <2>17, <2>18, <2>19, <2>20
       DEF RunStep
<1>2. ASSUME NEW e \in Execs, CancelCommit(e)
      PROVE  \A f \in Execs : Promise!Edge(status[f], status'[f])
  BY <1>2 DEF CancelCommit
<1>3. ASSUME NEW e \in Execs, CancelRollback(e)
      PROVE  \A f \in Execs : Promise!Edge(status[f], status'[f])
  BY <1>3 DEF CancelRollback
<1>4. ASSUME NEW e \in Execs, GoIdle(e)
      PROVE  \A f \in Execs : Promise!Edge(status[f], status'[f])
  BY <1>4 DEF GoIdle
<1>5. ASSUME NEW e \in Execs, Purge(e)
      PROVE  \A f \in Execs : Promise!Edge(status[f], status'[f])
  BY <1>5 DEF Purge
<1>6. ASSUME NEW e \in Execs, NEW p \in Procs, Submit(e, p)
      PROVE  \A f \in Execs : Promise!Edge(status[f], status'[f])
  BY <1>6 DEF Submit
<1>7. ASSUME NEW e \in Execs, NEW p \in Procs, CancelFlush(e, p)
      PROVE  \A f \in Execs : Promise!Edge(status[f], status'[f])
  BY <1>7 DEF CancelFlush
<1>8. ASSUME NEW p \in Procs, Boot(p)
      PROVE  \A f \in Execs : Promise!Edge(status[f], status'[f])
  BY <1>8 DEF Boot
<1>9. ASSUME NEW p \in Procs, RecoverKeys(p)
      PROVE  \A f \in Execs : Promise!Edge(status[f], status'[f])
  BY <1>9 DEF RecoverKeys
<1>10. ASSUME NEW p \in Procs, RecoverRows(p)
      PROVE  \A f \in Execs : Promise!Edge(status[f], status'[f])
  BY <1>10 DEF RecoverRows, Stale
<1>11. ASSUME NEW p \in Procs, Exited(p)
      PROVE  \A f \in Execs : Promise!Edge(status[f], status'[f])
  BY <1>11 DEF Exited
<1>12. ASSUME NEW p \in Procs, Crash(p)
      PROVE  \A f \in Execs : Promise!Edge(status[f], status'[f])
  BY <1>12 DEF Crash
<1>13. ASSUME NEW p \in Procs, ShutDown(p)
      PROVE  \A f \in Execs : Promise!Edge(status[f], status'[f])
  BY <1>13 DEF ShutDown
<1>14. CASE UNCHANGED vars
  BY <1>14 DEF vars
<1> QED
  BY <1>1, <1>2, <1>3, <1>4, <1>5, <1>6, <1>7, <1>8, <1>9, <1>10, <1>11, <1>12, <1>13, <1>14
     DEF Next, CancelStep, BootStep

(* Every step of the lifecycle is a step of the promise. *)
LEMMA PromiseStep ==
    TypeOK /\ StatusInv /\ [Next]_vars => [Promise!StatusNext]_status
BY TypeStep, EdgeStep
   DEF TypeOK, Promise!StatusNext, Statuses, Promise!Statuses, Open, Settled,
       Promise!Open, Promise!Settled

(* The lifecycle implements its promise, and if locking a row re-read it   *)
(* the promise would have no exception: no settled status would be left.   *)
THEOREM LifecycleKeepsPromise == Spec => KeepsPromise
<1>1. Init => TypeOK /\ StatusInv /\ Promise!StatusInit
  BY LifecycleAssumption
     DEF Init, TypeOK, Statuses, Open, Settled, TaskStatuses, PCs, Pendings,
         ProcStates, StatusInv, RowInv, Begun, Promise!StatusInit
<1>2. TypeOK /\ StatusInv /\ [Next]_vars => TypeOK' /\ StatusInv'
  BY TypeStep, StatusStep
<1> QED
  BY <1>1, <1>2, PromiseStep, PTL DEF Spec, KeepsPromise, Promise!StatusSpec

-------------------------------------------------------------------------------
(* Tasks of a failed or cancelled execution stay settled.                  *)
LEMMA TasksStep == TypeOK /\ TasksSettled /\ [Next]_vars => TasksSettled'
<1> SUFFICES ASSUME TypeOK, TasksSettled, [Next]_vars
             PROVE  TasksSettled'
  OBVIOUS
<1> USE DEF TypeOK, TasksSettled, TaskStatuses, Open, Settled, CanTransition,
            FailTasks, Leave, rowVars
<1>1. ASSUME NEW e \in Execs, RunStep(e)
      PROVE  TasksSettled'
  <2>1. CASE Enqueue(e)
    BY <2>1 DEF Enqueue
  <2>2. CASE TakeThread(e)
    BY <2>2 DEF TakeThread
  <2>3. CASE StartRun(e)
    BY <2>3 DEF StartRun
  <2>4. CASE StartFails(e)
    BY <2>4 DEF StartFails
  <2>5. CASE CreateKey(e)
    BY <2>5 DEF CreateKey
  <2>6. CASE CreateKeyFails(e)
    BY <2>6 DEF CreateKeyFails
  <2>7. CASE NeedsNoKey(e)
    BY <2>7 DEF NeedsNoKey
  <2>8. CASE PersistKey(e)
    BY <2>8 DEF PersistKey
  <2>9. CASE Recheck(e)
    BY <2>9 DEF Recheck
  <2>10. CASE TaskEvent(e)
    BY <2>10 DEF TaskEvent
  <2>11. CASE RunRaises(e)
    BY <2>11 DEF RunRaises
  <2>12. CASE CrewReturns(e)
    BY <2>12 DEF CrewReturns
  <2>13. CASE Finish(e)
    BY <2>13 DEF Finish, ErrorForbids
  <2>14. CASE RedactorFails(e)
    BY <2>14 DEF RedactorFails
  <2>15. CASE FailRun(e)
    BY <2>15 DEF FailRun
  <2>16. CASE TransactionFails(e)
    BY <2>16 DEF TransactionFails
  <2>17. CASE LeaveKeyless(e)
    BY <2>17 DEF LeaveKeyless
  <2>18. CASE DeleteKey(e)
    BY <2>18 DEF DeleteKey
  <2>19. CASE ClearKey(e)
    BY <2>19 DEF ClearKey
  <2>20. CASE MarkFailed(e)
    BY <2>20 DEF MarkFailed
  <2> QED
    BY <1>1, <2>1, <2>2, <2>3, <2>4, <2>5, <2>6, <2>7, <2>8, <2>9, <2>10, <2>11, <2>12, <2>13, <2>14, <2>15, <2>16, <2>17, <2>18, <2>19, <2>20
       DEF RunStep
<1>2. ASSUME NEW e \in Execs, CancelCommit(e)
      PROVE  TasksSettled'
  BY <1>2 DEF CancelCommit
<1>3. ASSUME NEW e \in Execs, CancelRollback(e)
      PROVE  TasksSettled'
  BY <1>3 DEF CancelRollback
<1>4. ASSUME NEW e \in Execs, GoIdle(e)
      PROVE  TasksSettled'
  BY <1>4 DEF GoIdle
<1>5. ASSUME NEW e \in Execs, Purge(e)
      PROVE  TasksSettled'
  BY <1>5 DEF Purge
<1>6. ASSUME NEW e \in Execs, NEW p \in Procs, Submit(e, p)
      PROVE  TasksSettled'
  BY <1>6 DEF Submit
<1>7. ASSUME NEW e \in Execs, NEW p \in Procs, CancelFlush(e, p)
      PROVE  TasksSettled'
  BY <1>7 DEF CancelFlush
<1>8. ASSUME NEW p \in Procs, Boot(p)
      PROVE  TasksSettled'
  BY <1>8 DEF Boot
<1>9. ASSUME NEW p \in Procs, RecoverKeys(p)
      PROVE  TasksSettled'
  BY <1>9 DEF RecoverKeys
<1>10. ASSUME NEW p \in Procs, RecoverRows(p)
      PROVE  TasksSettled'
  BY <1>10 DEF RecoverRows, Stale
<1>11. ASSUME NEW p \in Procs, Exited(p)
      PROVE  TasksSettled'
  BY <1>11 DEF Exited
<1>12. ASSUME NEW p \in Procs, Crash(p)
      PROVE  TasksSettled'
  BY <1>12 DEF Crash
<1>13. ASSUME NEW p \in Procs, ShutDown(p)
      PROVE  TasksSettled'
  BY <1>13 DEF ShutDown
<1>14. CASE UNCHANGED vars
  BY <1>14 DEF vars
<1> QED
  BY <1>1, <1>2, <1>3, <1>4, <1>5, <1>6, <1>7, <1>8, <1>9, <1>10, <1>11, <1>12, <1>13, <1>14
     DEF Next, CancelStep, BootStep

(* No execution that failed or was cancelled has a task still open. *)
THEOREM TasksAreSettled == Spec => []TasksSettled
<1>1. Init => TypeOK /\ TasksSettled
  BY LifecycleAssumption
     DEF Init, TypeOK, Statuses, Open, Settled, TaskStatuses, PCs, Pendings,
         ProcStates, TasksSettled
<1>2. TypeOK /\ TasksSettled /\ [Next]_vars => TypeOK' /\ TasksSettled'
  BY TypeStep, TasksStep
<1> QED
  BY <1>1, <1>2, PTL DEF Spec

-------------------------------------------------------------------------------
(* A run that has got past its start has started_at.                       *)
StartedInv ==
    \A e \in Execs : pc[e] \in Begun \cup {"cleanup", "clearing"} => started[e]

(* Every step keeps it: a run begins only with started_at set. *)
LEMMA StartedStep == TypeOK /\ StartedInv /\ [Next]_vars => StartedInv'
<1> SUFFICES ASSUME TypeOK, StartedInv, [Next]_vars
             PROVE  StartedInv'
  OBVIOUS
<1> USE DEF TypeOK, StartedInv, Begun, Goto, Leave, Exit, rowVars, runVars
<1>1. ASSUME NEW e \in Execs, RunStep(e)
      PROVE  StartedInv'
  <2>1. CASE Enqueue(e)
    BY <2>1 DEF Enqueue
  <2>2. CASE TakeThread(e)
    BY <2>2 DEF TakeThread
  <2>3. CASE StartRun(e)
    BY <2>3 DEF StartRun
  <2>4. CASE StartFails(e)
    BY <2>4 DEF StartFails
  <2>5. CASE CreateKey(e)
    BY <2>5 DEF CreateKey
  <2>6. CASE CreateKeyFails(e)
    BY <2>6 DEF CreateKeyFails
  <2>7. CASE NeedsNoKey(e)
    BY <2>7 DEF NeedsNoKey
  <2>8. CASE PersistKey(e)
    BY <2>8 DEF PersistKey
  <2>9. CASE Recheck(e)
    BY <2>9 DEF Recheck
  <2>10. CASE TaskEvent(e)
    BY <2>10 DEF TaskEvent
  <2>11. CASE RunRaises(e)
    BY <2>11 DEF RunRaises
  <2>12. CASE CrewReturns(e)
    BY <2>12 DEF CrewReturns
  <2>13. CASE Finish(e)
    BY <2>13 DEF Finish
  <2>14. CASE RedactorFails(e)
    BY <2>14 DEF RedactorFails
  <2>15. CASE FailRun(e)
    BY <2>15 DEF FailRun
  <2>16. CASE TransactionFails(e)
    BY <2>16 DEF TransactionFails
  <2>17. CASE LeaveKeyless(e)
    BY <2>17 DEF LeaveKeyless
  <2>18. CASE DeleteKey(e)
    BY <2>18 DEF DeleteKey
  <2>19. CASE ClearKey(e)
    BY <2>19 DEF ClearKey
  <2>20. CASE MarkFailed(e)
    BY <2>20 DEF MarkFailed
  <2> QED
    BY <1>1, <2>1, <2>2, <2>3, <2>4, <2>5, <2>6, <2>7, <2>8, <2>9, <2>10, <2>11, <2>12, <2>13, <2>14, <2>15, <2>16, <2>17, <2>18, <2>19, <2>20
       DEF RunStep
<1>2. ASSUME NEW e \in Execs, CancelCommit(e)
      PROVE  StartedInv'
  BY <1>2 DEF CancelCommit
<1>3. ASSUME NEW e \in Execs, CancelRollback(e)
      PROVE  StartedInv'
  BY <1>3 DEF CancelRollback
<1>4. ASSUME NEW e \in Execs, GoIdle(e)
      PROVE  StartedInv'
  BY <1>4 DEF GoIdle
<1>5. ASSUME NEW e \in Execs, Purge(e)
      PROVE  StartedInv'
  BY <1>5 DEF Purge
<1>6. ASSUME NEW e \in Execs, NEW p \in Procs, Submit(e, p)
      PROVE  StartedInv'
  BY <1>6 DEF Submit
<1>7. ASSUME NEW e \in Execs, NEW p \in Procs, CancelFlush(e, p)
      PROVE  StartedInv'
  BY <1>7 DEF CancelFlush
<1>8. ASSUME NEW p \in Procs, Boot(p)
      PROVE  StartedInv'
  BY <1>8 DEF Boot
<1>9. ASSUME NEW p \in Procs, RecoverKeys(p)
      PROVE  StartedInv'
  BY <1>9 DEF RecoverKeys
<1>10. ASSUME NEW p \in Procs, RecoverRows(p)
      PROVE  StartedInv'
  BY <1>10 DEF RecoverRows
<1>11. ASSUME NEW p \in Procs, Exited(p)
      PROVE  StartedInv'
  BY <1>11 DEF Exited, Kill
<1>12. ASSUME NEW p \in Procs, Crash(p)
      PROVE  StartedInv'
  BY <1>12 DEF Crash, Kill
<1>13. ASSUME NEW p \in Procs, ShutDown(p)
      PROVE  StartedInv'
  BY <1>13 DEF ShutDown, Kill
<1>14. CASE UNCHANGED vars
  BY <1>14 DEF vars
<1> QED
  BY <1>1, <1>2, <1>3, <1>4, <1>5, <1>6, <1>7, <1>8, <1>9, <1>10, <1>11, <1>12, <1>13, <1>14
     DEF Next, CancelStep, BootStep

(* So no step gives a row that was cancelled unstarted another status. *)
LEMMA QueuedCancelStep ==
    TypeOK /\ StatusInv /\ StartedInv /\ [Next]_vars
        => \A f \in Execs : status[f] = "cancelled" /\ ~started[f]
                 => status'[f] \in {"cancelled", "purged"}
<1> SUFFICES ASSUME TypeOK, StatusInv, StartedInv, [Next]_vars
             PROVE  \A f \in Execs : status[f] = "cancelled" /\ ~started[f]
                 => status'[f] \in {"cancelled", "purged"}
  OBVIOUS
<1> USE DEF TypeOK, StatusInv, RowInv, StartedInv, Begun, Open, Settled,
            CanTransition, Leave, rowVars
<1>1. ASSUME NEW e \in Execs, RunStep(e)
      PROVE  \A f \in Execs : status[f] = "cancelled" /\ ~started[f]
                     => status'[f] \in {"cancelled", "purged"}
  <2>1. CASE Enqueue(e)
    BY <2>1 DEF Enqueue
  <2>2. CASE TakeThread(e)
    BY <2>2 DEF TakeThread
  <2>3. CASE StartRun(e)
    BY <2>3 DEF StartRun
  <2>4. CASE StartFails(e)
    BY <2>4 DEF StartFails
  <2>5. CASE CreateKey(e)
    BY <2>5 DEF CreateKey
  <2>6. CASE CreateKeyFails(e)
    BY <2>6 DEF CreateKeyFails
  <2>7. CASE NeedsNoKey(e)
    BY <2>7 DEF NeedsNoKey
  <2>8. CASE PersistKey(e)
    BY <2>8 DEF PersistKey
  <2>9. CASE Recheck(e)
    BY <2>9 DEF Recheck
  <2>10. CASE TaskEvent(e)
    BY <2>10 DEF TaskEvent
  <2>11. CASE RunRaises(e)
    BY <2>11 DEF RunRaises
  <2>12. CASE CrewReturns(e)
    BY <2>12 DEF CrewReturns
  <2>13. CASE Finish(e)
    BY <2>13 DEF Finish
  <2>14. CASE RedactorFails(e)
    BY <2>14 DEF RedactorFails
  <2>15. CASE FailRun(e)
    BY <2>15 DEF FailRun
  <2>16. CASE TransactionFails(e)
    BY <2>16 DEF TransactionFails
  <2>17. CASE LeaveKeyless(e)
    BY <2>17 DEF LeaveKeyless
  <2>18. CASE DeleteKey(e)
    BY <2>18 DEF DeleteKey
  <2>19. CASE ClearKey(e)
    BY <2>19 DEF ClearKey
  <2>20. CASE MarkFailed(e)
    BY <2>20 DEF MarkFailed
  <2> QED
    BY <1>1, <2>1, <2>2, <2>3, <2>4, <2>5, <2>6, <2>7, <2>8, <2>9, <2>10, <2>11, <2>12, <2>13, <2>14, <2>15, <2>16, <2>17, <2>18, <2>19, <2>20
       DEF RunStep
<1>2. ASSUME NEW e \in Execs, CancelCommit(e)
      PROVE  \A f \in Execs : status[f] = "cancelled" /\ ~started[f]
                     => status'[f] \in {"cancelled", "purged"}
  BY <1>2 DEF CancelCommit
<1>3. ASSUME NEW e \in Execs, CancelRollback(e)
      PROVE  \A f \in Execs : status[f] = "cancelled" /\ ~started[f]
                     => status'[f] \in {"cancelled", "purged"}
  BY <1>3 DEF CancelRollback
<1>4. ASSUME NEW e \in Execs, GoIdle(e)
      PROVE  \A f \in Execs : status[f] = "cancelled" /\ ~started[f]
                     => status'[f] \in {"cancelled", "purged"}
  BY <1>4 DEF GoIdle
<1>5. ASSUME NEW e \in Execs, Purge(e)
      PROVE  \A f \in Execs : status[f] = "cancelled" /\ ~started[f]
                     => status'[f] \in {"cancelled", "purged"}
  BY <1>5 DEF Purge
<1>6. ASSUME NEW e \in Execs, NEW p \in Procs, Submit(e, p)
      PROVE  \A f \in Execs : status[f] = "cancelled" /\ ~started[f]
                     => status'[f] \in {"cancelled", "purged"}
  BY <1>6 DEF Submit
<1>7. ASSUME NEW e \in Execs, NEW p \in Procs, CancelFlush(e, p)
      PROVE  \A f \in Execs : status[f] = "cancelled" /\ ~started[f]
                     => status'[f] \in {"cancelled", "purged"}
  BY <1>7 DEF CancelFlush
<1>8. ASSUME NEW p \in Procs, Boot(p)
      PROVE  \A f \in Execs : status[f] = "cancelled" /\ ~started[f]
                     => status'[f] \in {"cancelled", "purged"}
  BY <1>8 DEF Boot
<1>9. ASSUME NEW p \in Procs, RecoverKeys(p)
      PROVE  \A f \in Execs : status[f] = "cancelled" /\ ~started[f]
                     => status'[f] \in {"cancelled", "purged"}
  BY <1>9 DEF RecoverKeys
<1>10. ASSUME NEW p \in Procs, RecoverRows(p)
      PROVE  \A f \in Execs : status[f] = "cancelled" /\ ~started[f]
                     => status'[f] \in {"cancelled", "purged"}
  BY <1>10 DEF RecoverRows, Stale
<1>11. ASSUME NEW p \in Procs, Exited(p)
      PROVE  \A f \in Execs : status[f] = "cancelled" /\ ~started[f]
                     => status'[f] \in {"cancelled", "purged"}
  BY <1>11 DEF Exited
<1>12. ASSUME NEW p \in Procs, Crash(p)
      PROVE  \A f \in Execs : status[f] = "cancelled" /\ ~started[f]
                     => status'[f] \in {"cancelled", "purged"}
  BY <1>12 DEF Crash
<1>13. ASSUME NEW p \in Procs, ShutDown(p)
      PROVE  \A f \in Execs : status[f] = "cancelled" /\ ~started[f]
                     => status'[f] \in {"cancelled", "purged"}
  BY <1>13 DEF ShutDown
<1>14. CASE UNCHANGED vars
  BY <1>14 DEF vars
<1> QED
  BY <1>1, <1>2, <1>3, <1>4, <1>5, <1>6, <1>7, <1>8, <1>9, <1>10, <1>11, <1>12, <1>13, <1>14
     DEF Next, CancelStep, BootStep

(* Cancelling before the start is final, in every interleaving. *)
THEOREM QueuedCancelStays == Spec => QueuedCancelIsFinal
<1>1. Init => TypeOK /\ StatusInv /\ StartedInv
  BY LifecycleAssumption
     DEF Init, TypeOK, Statuses, Open, Settled, TaskStatuses, PCs, Pendings,
         ProcStates, StatusInv, RowInv, StartedInv, Begun
<1>2. TypeOK /\ StatusInv /\ StartedInv /\ [Next]_vars
          => TypeOK' /\ StatusInv' /\ StartedInv'
  BY TypeStep, StatusStep, StartedStep
<1>3. TypeOK /\ StatusInv /\ StartedInv /\ [Next]_vars
          => [\A e \in Execs : status[e] = "cancelled" /\ ~started[e]
                  => status'[e] \in {"cancelled", "purged"}]_vars
  BY QueuedCancelStep
<1> QED
  BY <1>1, <1>2, <1>3, PTL DEF Spec, QueuedCancelIsFinal

-------------------------------------------------------------------------------
(* What recovery relies on: processes whose ids differ, and no run that    *)
(* outlasts the two-hour cutoff.                                           *)
Recognisable ==
    /\ \A p, q \in Procs : WorkerId[p] = WorkerId[q] => p = q
    /\ "long_run" \notin Env

(* Then the home of a live run is not one that is recovering, and its row  *)
(* has not passed the cutoff.                                              *)
HomeInv ==
    \A e \in Execs :
        /\ pc[e] = "none" => ~idle[e]
        /\ Live(e) => /\ ~idle[e]
                      /\ home[e] \in Procs
                      /\ proc[home[e]] \in {"up", "draining"}
        /\ pc[e] \in {"committed", "pooled"} => proc[home[e]] = "up"

(* Every step keeps it: no process goes down under a run of its own. *)
LEMMA HomeStep ==
    ASSUME Recognisable
    PROVE  TypeOK /\ StatusInv /\ HomeInv /\ [Next]_vars => HomeInv'
<1> SUFFICES ASSUME TypeOK, StatusInv, HomeInv, [Next]_vars
             PROVE  HomeInv'
  OBVIOUS
<1> USE Recognisable
    DEF Recognisable, TypeOK, StatusInv, RowInv, HomeInv, Live, Threaded, Open,
        Goto, Leave, Exit, Touch, rowVars, runVars, procVars
<1>1. ASSUME NEW e \in Execs, RunStep(e)
      PROVE  HomeInv'
  <2>1. CASE Enqueue(e)
    BY <2>1 DEF Enqueue
  <2>2. CASE TakeThread(e)
    BY <2>2 DEF TakeThread
  <2>3. CASE StartRun(e)
    BY <2>3 DEF StartRun
  <2>4. CASE StartFails(e)
    BY <2>4 DEF StartFails
  <2>5. CASE CreateKey(e)
    BY <2>5 DEF CreateKey
  <2>6. CASE CreateKeyFails(e)
    BY <2>6 DEF CreateKeyFails
  <2>7. CASE NeedsNoKey(e)
    BY <2>7 DEF NeedsNoKey
  <2>8. CASE PersistKey(e)
    BY <2>8 DEF PersistKey
  <2>9. CASE Recheck(e)
    BY <2>9 DEF Recheck
  <2>10. CASE TaskEvent(e)
    BY <2>10 DEF TaskEvent
  <2>11. CASE RunRaises(e)
    BY <2>11 DEF RunRaises
  <2>12. CASE CrewReturns(e)
    BY <2>12 DEF CrewReturns
  <2>13. CASE Finish(e)
    BY <2>13 DEF Finish
  <2>14. CASE RedactorFails(e)
    BY <2>14 DEF RedactorFails
  <2>15. CASE FailRun(e)
    BY <2>15 DEF FailRun
  <2>16. CASE TransactionFails(e)
    BY <2>16 DEF TransactionFails
  <2>17. CASE LeaveKeyless(e)
    BY <2>17 DEF LeaveKeyless
  <2>18. CASE DeleteKey(e)
    BY <2>18 DEF DeleteKey
  <2>19. CASE ClearKey(e)
    BY <2>19 DEF ClearKey
  <2>20. CASE MarkFailed(e)
    BY <2>20 DEF MarkFailed
  <2> QED
    BY <1>1, <2>1, <2>2, <2>3, <2>4, <2>5, <2>6, <2>7, <2>8, <2>9, <2>10, <2>11, <2>12, <2>13, <2>14, <2>15, <2>16, <2>17, <2>18, <2>19, <2>20
       DEF RunStep
<1>2. ASSUME NEW e \in Execs, CancelCommit(e)
      PROVE  HomeInv'
  BY <1>2 DEF CancelCommit
<1>3. ASSUME NEW e \in Execs, CancelRollback(e)
      PROVE  HomeInv'
  BY <1>3 DEF CancelRollback
<1>4. ASSUME NEW e \in Execs, GoIdle(e)
      PROVE  HomeInv'
  BY <1>4 DEF GoIdle
<1>5. ASSUME NEW e \in Execs, Purge(e)
      PROVE  HomeInv'
  BY <1>5 DEF Purge
<1>6. ASSUME NEW e \in Execs, NEW p \in Procs, Submit(e, p)
      PROVE  HomeInv'
  BY <1>6 DEF Submit
<1>7. ASSUME NEW e \in Execs, NEW p \in Procs, CancelFlush(e, p)
      PROVE  HomeInv'
  BY <1>7 DEF CancelFlush
<1>8. ASSUME NEW p \in Procs, Boot(p)
      PROVE  HomeInv'
  BY <1>8 DEF Boot
<1>9. ASSUME NEW p \in Procs, RecoverKeys(p)
      PROVE  HomeInv'
  BY <1>9 DEF RecoverKeys
<1>10. ASSUME NEW p \in Procs, RecoverRows(p)
      PROVE  HomeInv'
  BY <1>10 DEF RecoverRows, Stale
<1>11. ASSUME NEW p \in Procs, Exited(p)
      PROVE  HomeInv'
  BY <1>11 DEF Exited, Kill
<1>12. ASSUME NEW p \in Procs, Crash(p)
      PROVE  HomeInv'
  BY <1>12 DEF Crash, Kill
<1>13. ASSUME NEW p \in Procs, ShutDown(p)
      PROVE  HomeInv'
  BY <1>13 DEF ShutDown, Kill
<1>14. CASE UNCHANGED vars
  BY <1>14 DEF vars
<1> QED
  BY <1>1, <1>2, <1>3, <1>4, <1>5, <1>6, <1>7, <1>8, <1>9, <1>10, <1>11, <1>12, <1>13, <1>14
     DEF Next, CancelStep, BootStep

(* A run with a budget has its key from the moment it was made. *)
KeyInv ==
    \A e \in Execs \cap Budgeted :
        pc[e] \in {"keyed", "ready", "crew"} => hasKey[e] /\ e \in keys

(* Every step keeps it: only the run itself gives its key up. *)
LEMMA KeyStep ==
    ASSUME Recognisable
    PROVE  TypeOK /\ HomeInv /\ KeyInv /\ [Next]_vars => KeyInv'
<1> SUFFICES ASSUME TypeOK, HomeInv, KeyInv, [Next]_vars
             PROVE  KeyInv'
  OBVIOUS
<1> USE Recognisable
    DEF Recognisable, TypeOK, HomeInv, KeyInv, Live, Threaded, Goto, Leave, Exit,
        runVars, keyVars
<1>1. ASSUME NEW e \in Execs, RunStep(e)
      PROVE  KeyInv'
  <2>1. CASE Enqueue(e)
    BY <2>1 DEF Enqueue
  <2>2. CASE TakeThread(e)
    BY <2>2 DEF TakeThread
  <2>3. CASE StartRun(e)
    BY <2>3 DEF StartRun
  <2>4. CASE StartFails(e)
    BY <2>4 DEF StartFails
  <2>5. CASE CreateKey(e)
    BY <2>5 DEF CreateKey
  <2>6. CASE CreateKeyFails(e)
    BY <2>6 DEF CreateKeyFails
  <2>7. CASE NeedsNoKey(e)
    BY <2>7 DEF NeedsNoKey
  <2>8. CASE PersistKey(e)
    BY <2>8 DEF PersistKey
  <2>9. CASE Recheck(e)
    BY <2>9 DEF Recheck
  <2>10. CASE TaskEvent(e)
    BY <2>10 DEF TaskEvent
  <2>11. CASE RunRaises(e)
    BY <2>11 DEF RunRaises
  <2>12. CASE CrewReturns(e)
    BY <2>12 DEF CrewReturns
  <2>13. CASE Finish(e)
    BY <2>13 DEF Finish
  <2>14. CASE RedactorFails(e)
    BY <2>14 DEF RedactorFails
  <2>15. CASE FailRun(e)
    BY <2>15 DEF FailRun
  <2>16. CASE TransactionFails(e)
    BY <2>16 DEF TransactionFails
  <2>17. CASE LeaveKeyless(e)
    BY <2>17 DEF LeaveKeyless
  <2>18. CASE DeleteKey(e)
    BY <2>18 DEF DeleteKey
  <2>19. CASE ClearKey(e)
    BY <2>19 DEF ClearKey
  <2>20. CASE MarkFailed(e)
    BY <2>20 DEF MarkFailed
  <2> QED
    BY <1>1, <2>1, <2>2, <2>3, <2>4, <2>5, <2>6, <2>7, <2>8, <2>9, <2>10, <2>11, <2>12, <2>13, <2>14, <2>15, <2>16, <2>17, <2>18, <2>19, <2>20
       DEF RunStep
<1>2. ASSUME NEW e \in Execs, CancelCommit(e)
      PROVE  KeyInv'
  BY <1>2 DEF CancelCommit
<1>3. ASSUME NEW e \in Execs, CancelRollback(e)
      PROVE  KeyInv'
  BY <1>3 DEF CancelRollback
<1>4. ASSUME NEW e \in Execs, GoIdle(e)
      PROVE  KeyInv'
  BY <1>4 DEF GoIdle
<1>5. ASSUME NEW e \in Execs, Purge(e)
      PROVE  KeyInv'
  BY <1>5 DEF Purge
<1>6. ASSUME NEW e \in Execs, NEW p \in Procs, Submit(e, p)
      PROVE  KeyInv'
  BY <1>6 DEF Submit
<1>7. ASSUME NEW e \in Execs, NEW p \in Procs, CancelFlush(e, p)
      PROVE  KeyInv'
  BY <1>7 DEF CancelFlush
<1>8. ASSUME NEW p \in Procs, Boot(p)
      PROVE  KeyInv'
  BY <1>8 DEF Boot
<1>9. ASSUME NEW p \in Procs, RecoverKeys(p)
      PROVE  KeyInv'
  BY <1>9 DEF RecoverKeys, Stale
<1>10. ASSUME NEW p \in Procs, RecoverRows(p)
      PROVE  KeyInv'
  BY <1>10 DEF RecoverRows
<1>11. ASSUME NEW p \in Procs, Exited(p)
      PROVE  KeyInv'
  BY <1>11 DEF Exited, Kill
<1>12. ASSUME NEW p \in Procs, Crash(p)
      PROVE  KeyInv'
  BY <1>12 DEF Crash, Kill
<1>13. ASSUME NEW p \in Procs, ShutDown(p)
      PROVE  KeyInv'
  BY <1>13 DEF ShutDown, Kill
<1>14. CASE UNCHANGED vars
  BY <1>14 DEF vars
<1> QED
  BY <1>1, <1>2, <1>3, <1>4, <1>5, <1>6, <1>7, <1>8, <1>9, <1>10, <1>11, <1>12, <1>13, <1>14
     DEF Next, CancelStep, BootStep

(* No step but one of its own run fails a live run's row or deletes its key. *)
LEMMA SparingStep ==
    ASSUME Recognisable
    PROVE  TypeOK /\ HomeInv /\ [Next]_vars
               => \A f \in Execs : Live(f) /\ pc'[f] = pc[f]
                      => /\ status[f] \in Open => status'[f] # "failed"
                         /\ f \in keys => f \in keys'
<1> SUFFICES ASSUME TypeOK, HomeInv, [Next]_vars
             PROVE  \A f \in Execs : Live(f) /\ pc'[f] = pc[f]
                 => /\ status[f] \in Open => status'[f] # "failed"
                    /\ f \in keys => f \in keys'
  OBVIOUS
<1> USE Recognisable
    DEF Recognisable, TypeOK, HomeInv, Live, Threaded, Open, Goto, Leave, rowVars,
        runVars, keyVars
<1>1. ASSUME NEW e \in Execs, RunStep(e)
      PROVE  \A f \in Execs : Live(f) /\ pc'[f] = pc[f]
                 => /\ status[f] \in Open => status'[f] # "failed"
                    /\ f \in keys => f \in keys'
  <2>1. CASE Enqueue(e)
    BY <2>1 DEF Enqueue
  <2>2. CASE TakeThread(e)
    BY <2>2 DEF TakeThread
  <2>3. CASE StartRun(e)
    BY <2>3 DEF StartRun
  <2>4. CASE StartFails(e)
    BY <2>4 DEF StartFails
  <2>5. CASE CreateKey(e)
    BY <2>5 DEF CreateKey
  <2>6. CASE CreateKeyFails(e)
    BY <2>6 DEF CreateKeyFails
  <2>7. CASE NeedsNoKey(e)
    BY <2>7 DEF NeedsNoKey
  <2>8. CASE PersistKey(e)
    BY <2>8 DEF PersistKey
  <2>9. CASE Recheck(e)
    BY <2>9 DEF Recheck
  <2>10. CASE TaskEvent(e)
    BY <2>10 DEF TaskEvent
  <2>11. CASE RunRaises(e)
    BY <2>11 DEF RunRaises
  <2>12. CASE CrewReturns(e)
    BY <2>12 DEF CrewReturns
  <2>13. CASE Finish(e)
    BY <2>13 DEF Finish
  <2>14. CASE RedactorFails(e)
    BY <2>14 DEF RedactorFails
  <2>15. CASE FailRun(e)
    BY <2>15 DEF FailRun
  <2>16. CASE TransactionFails(e)
    BY <2>16 DEF TransactionFails
  <2>17. CASE LeaveKeyless(e)
    BY <2>17 DEF LeaveKeyless
  <2>18. CASE DeleteKey(e)
    BY <2>18 DEF DeleteKey
  <2>19. CASE ClearKey(e)
    BY <2>19 DEF ClearKey
  <2>20. CASE MarkFailed(e)
    BY <2>20 DEF MarkFailed
  <2> QED
    BY <1>1, <2>1, <2>2, <2>3, <2>4, <2>5, <2>6, <2>7, <2>8, <2>9, <2>10, <2>11, <2>12, <2>13, <2>14, <2>15, <2>16, <2>17, <2>18, <2>19, <2>20
       DEF RunStep
<1>2. ASSUME NEW e \in Execs, CancelCommit(e)
      PROVE  \A f \in Execs : Live(f) /\ pc'[f] = pc[f]
                 => /\ status[f] \in Open => status'[f] # "failed"
                    /\ f \in keys => f \in keys'
  BY <1>2 DEF CancelCommit
<1>3. ASSUME NEW e \in Execs, CancelRollback(e)
      PROVE  \A f \in Execs : Live(f) /\ pc'[f] = pc[f]
                 => /\ status[f] \in Open => status'[f] # "failed"
                    /\ f \in keys => f \in keys'
  BY <1>3 DEF CancelRollback
<1>4. ASSUME NEW e \in Execs, GoIdle(e)
      PROVE  \A f \in Execs : Live(f) /\ pc'[f] = pc[f]
                 => /\ status[f] \in Open => status'[f] # "failed"
                    /\ f \in keys => f \in keys'
  BY <1>4 DEF GoIdle
<1>5. ASSUME NEW e \in Execs, Purge(e)
      PROVE  \A f \in Execs : Live(f) /\ pc'[f] = pc[f]
                 => /\ status[f] \in Open => status'[f] # "failed"
                    /\ f \in keys => f \in keys'
  BY <1>5 DEF Purge
<1>6. ASSUME NEW e \in Execs, NEW p \in Procs, Submit(e, p)
      PROVE  \A f \in Execs : Live(f) /\ pc'[f] = pc[f]
                 => /\ status[f] \in Open => status'[f] # "failed"
                    /\ f \in keys => f \in keys'
  BY <1>6 DEF Submit
<1>7. ASSUME NEW e \in Execs, NEW p \in Procs, CancelFlush(e, p)
      PROVE  \A f \in Execs : Live(f) /\ pc'[f] = pc[f]
                 => /\ status[f] \in Open => status'[f] # "failed"
                    /\ f \in keys => f \in keys'
  BY <1>7 DEF CancelFlush
<1>8. ASSUME NEW p \in Procs, Boot(p)
      PROVE  \A f \in Execs : Live(f) /\ pc'[f] = pc[f]
                 => /\ status[f] \in Open => status'[f] # "failed"
                    /\ f \in keys => f \in keys'
  BY <1>8 DEF Boot
<1>9. ASSUME NEW p \in Procs, RecoverKeys(p)
      PROVE  \A f \in Execs : Live(f) /\ pc'[f] = pc[f]
                 => /\ status[f] \in Open => status'[f] # "failed"
                    /\ f \in keys => f \in keys'
  BY <1>9 DEF RecoverKeys, Stale
<1>10. ASSUME NEW p \in Procs, RecoverRows(p)
      PROVE  \A f \in Execs : Live(f) /\ pc'[f] = pc[f]
                 => /\ status[f] \in Open => status'[f] # "failed"
                    /\ f \in keys => f \in keys'
  BY <1>10 DEF RecoverRows, Stale
<1>11. ASSUME NEW p \in Procs, Exited(p)
      PROVE  \A f \in Execs : Live(f) /\ pc'[f] = pc[f]
                 => /\ status[f] \in Open => status'[f] # "failed"
                    /\ f \in keys => f \in keys'
  BY <1>11 DEF Exited, Kill
<1>12. ASSUME NEW p \in Procs, Crash(p)
      PROVE  \A f \in Execs : Live(f) /\ pc'[f] = pc[f]
                 => /\ status[f] \in Open => status'[f] # "failed"
                    /\ f \in keys => f \in keys'
  BY <1>12 DEF Crash, Kill
<1>13. ASSUME NEW p \in Procs, ShutDown(p)
      PROVE  \A f \in Execs : Live(f) /\ pc'[f] = pc[f]
                 => /\ status[f] \in Open => status'[f] # "failed"
                    /\ f \in keys => f \in keys'
  BY <1>13 DEF ShutDown, Kill
<1>14. CASE UNCHANGED vars
  BY <1>14 DEF vars
<1> QED
  BY <1>1, <1>2, <1>3, <1>4, <1>5, <1>6, <1>7, <1>8, <1>9, <1>10, <1>11, <1>12, <1>13, <1>14
     DEF Next, CancelStep, BootStep

(* The invariants of the last two theorems hold at the start. *)
LEMMA SafeInit == Init => TypeOK /\ StatusInv /\ HomeInv /\ KeyInv
BY LifecycleAssumption
   DEF Init, TypeOK, Statuses, Open, Settled, TaskStatuses, PCs, Pendings,
       ProcStates, StatusInv, RowInv, HomeInv, KeyInv, Live, Threaded, Begun

(* With recognisable processes, recovery spares what is going on elsewhere. *)
THEOREM RecoverySpares ==
    ASSUME Recognisable
    PROVE  Spec => RecoverySparesHealthy
<1>1. TypeOK /\ StatusInv /\ HomeInv /\ [Next]_vars
          => TypeOK' /\ StatusInv' /\ HomeInv'
  BY TypeStep, StatusStep, HomeStep
<1>2. TypeOK /\ HomeInv /\ [Next]_vars
          => [\A e \in Execs : Live(e) /\ pc'[e] = pc[e]
                  => /\ status[e] \in Open => status'[e] # "failed"
                     /\ e \in keys => e \in keys']_vars
  BY SparingStep
<1> QED
  BY SafeInit, <1>1, <1>2, PTL DEF Spec, RecoverySparesHealthy

(* And a crew with a budget always works under a key that exists. *)
THEOREM BudgetIsEnforced ==
    ASSUME Recognisable
    PROVE  Spec => []BudgetEnforced
<1>1. TypeOK /\ StatusInv /\ HomeInv /\ KeyInv /\ [Next]_vars
          => TypeOK' /\ StatusInv' /\ HomeInv' /\ KeyInv'
  BY TypeStep, StatusStep, HomeStep, KeyStep
<1>2. KeyInv => BudgetEnforced
  BY DEF KeyInv, BudgetEnforced
<1> QED
  BY SafeInit, <1>1, <1>2, PTL DEF Spec
-------------------------------------------------------------------------------
(* With a lock that re-reads the row, what the comments in the code expect *)
(* of the two checks before the crew is built holds: no crew starts for an *)
(* execution that is not RUNNING.                                          *)
THEOREM RereadStopsCrews ==
    ASSUME RelockRefreshes
    PROVE  Spec => NoCrewAfterCancel
<1>1. TypeOK /\ [Next]_vars
          => \A e \in Execs : pc[e] # "crew" /\ pc'[e] = "crew" => status[e] = "running"
  <2> SUFFICES ASSUME TypeOK, [Next]_vars, NEW f \in Execs,
                      pc[f] # "crew", pc'[f] = "crew"
               PROVE  status[f] = "running"
    OBVIOUS
  <2> USE DEF TypeOK, Threaded, Goto, Leave, Exit, Kill, runVars
  <2>1. ASSUME NEW e \in Execs, RunStep(e)
        PROVE  status[f] = "running"
    <3>1. CASE Recheck(e)
      BY <3>1, RelockRefreshes DEF Recheck, View
    <3>2. CASE ~Recheck(e)
      BY <2>1, <3>2
         DEF RunStep, Enqueue, TakeThread, StartRun, StartFails, CreateKey, CreateKeyFails,
             NeedsNoKey, PersistKey, TaskEvent, RunRaises, CrewReturns, Finish,
             RedactorFails, FailRun, TransactionFails, LeaveKeyless, DeleteKey, ClearKey,
             MarkFailed
    <3> QED
      BY <3>1, <3>2
  <2>2. ASSUME NEW e \in Execs, CancelStep(e) \/ GoIdle(e) \/ Purge(e)
        PROVE  FALSE
    BY <2>2 DEF CancelStep, CancelCommit, CancelRollback, GoIdle, Purge
  <2>3. ASSUME NEW e \in Execs, NEW p \in Procs, Submit(e, p) \/ CancelFlush(e, p)
        PROVE  FALSE
    BY <2>3 DEF Submit, CancelFlush
  <2>4. ASSUME NEW p \in Procs, BootStep(p) \/ Crash(p) \/ ShutDown(p)
        PROVE  FALSE
    BY <2>4 DEF BootStep, Boot, RecoverKeys, RecoverRows, Exited, Crash, ShutDown
  <2>5. CASE UNCHANGED vars
    BY <2>5 DEF vars
  <2> QED
    BY <2>1, <2>2, <2>3, <2>4, <2>5 DEF Next
<1>2. TypeOK /\ [Next]_vars
          => [\A e \in Execs : pc[e] # "crew" /\ pc'[e] = "crew" => status[e] = "running"]_vars
  BY <1>1
<1> QED
  BY <1>2, TypeCorrect, PTL DEF Spec, NoCrewAfterCancel

(* And a cancelled execution is final, which it is not in the code as it   *)
(* is (run CancelOverwritten): _ALLOWED_STATUS_TRANSITIONS is then kept.   *)
THEOREM RereadKeepsCancels ==
    ASSUME RelockRefreshes
    PROVE  Spec => CancelIsFinal
<1>1. TypeOK /\ StatusInv /\ [Next]_vars
          => [\A e \in Execs : status[e] = "cancelled"
                  => status'[e] \in {"cancelled", "purged"}]_vars
  BY EdgeStep, RelockRefreshes
     DEF Promise!Edge, Promise!CanTransition, Promise!Settled
<1>2. Init => TypeOK /\ StatusInv
  BY SafeInit
<1> QED
  BY <1>1, <1>2, TypeStep, StatusStep, PTL DEF Spec, CancelIsFinal

-------------------------------------------------------------------------------
(* Where a virtual key can be.  No run has one before it is set up; once   *)
(* the finally block has deleted it, or failed to, the column may be       *)
(* cleared and the run may end.                                            *)
Keyless == {"none", "committed", "pooled", "dropped", "starting", "setup"}
GivenUp(e) == e \notin keys \/ e \in lost

HolderInv ==
    \A e \in Execs :
        /\ pc[e] \in Keyless => ~hasKey[e] /\ ~keyCol[e]
        /\ pc[e] = "clearing" => GivenUp(e)
        /\ pc[e] = "raised" /\ hasKey[e] => GivenUp(e)

(* A process that has looked for the keys of the rows it is to recover has *)
(* given up those that are still in their column.                          *)
RecoveryInv ==
    \A p \in Procs : proc[p] = "recovering"
        => \A e \in Stale(p) : keyCol[e] => GivenUp(e)

(* cleanup_orphaned_keys and recover_stale_executions read the rows one    *)
(* after the other.  No row with a key comes under the filter of a process *)
(* between the two: none passes the two-hour cutoff by then, and no worker *)
(* with the same id records a key.                                         *)
NoLateRow ==
    \A p \in Procs, e \in Execs :
        proc[p] = "recovering" /\ proc'[p] = "recovering" /\ e \in Stale(p)' /\ keyCol'[e]
            => e \in Stale(p) /\ keyCol[e]

(* Every step keeps it: only CreateKey gives a run a key. *)
LEMMA HolderStep == TypeOK /\ HolderInv /\ [Next]_vars => HolderInv'
<1> SUFFICES ASSUME TypeOK, HolderInv, [Next]_vars
             PROVE  HolderInv'
  OBVIOUS
<1> USE DEF TypeOK, HolderInv, Keyless, GivenUp, Threaded, Live, Goto, Leave, Exit,
            rowVars, runVars, keyVars
<1>1. ASSUME NEW e \in Execs, RunStep(e)
      PROVE  HolderInv'
  <2>1. CASE Enqueue(e)
    BY <2>1 DEF Enqueue
  <2>2. CASE TakeThread(e)
    BY <2>2 DEF TakeThread
  <2>3. CASE StartRun(e)
    BY <2>3 DEF StartRun
  <2>4. CASE StartFails(e)
    BY <2>4 DEF StartFails
  <2>5. CASE CreateKey(e)
    BY <2>5 DEF CreateKey
  <2>6. CASE CreateKeyFails(e)
    BY <2>6 DEF CreateKeyFails
  <2>7. CASE NeedsNoKey(e)
    BY <2>7 DEF NeedsNoKey
  <2>8. CASE PersistKey(e)
    BY <2>8 DEF PersistKey
  <2>9. CASE Recheck(e)
    BY <2>9 DEF Recheck
  <2>10. CASE TaskEvent(e)
    BY <2>10 DEF TaskEvent
  <2>11. CASE RunRaises(e)
    BY <2>11 DEF RunRaises
  <2>12. CASE CrewReturns(e)
    BY <2>12 DEF CrewReturns
  <2>13. CASE Finish(e)
    BY <2>13 DEF Finish
  <2>14. CASE RedactorFails(e)
    BY <2>14 DEF RedactorFails
  <2>15. CASE FailRun(e)
    BY <2>15 DEF FailRun
  <2>16. CASE TransactionFails(e)
    BY <2>16 DEF TransactionFails
  <2>17. CASE LeaveKeyless(e)
    BY <2>17 DEF LeaveKeyless
  <2>18. CASE DeleteKey(e)
    BY <2>18 DEF DeleteKey
  <2>19. CASE ClearKey(e)
    BY <2>19 DEF ClearKey
  <2>20. CASE MarkFailed(e)
    BY <2>20 DEF MarkFailed
  <2> QED
    BY <1>1, <2>1, <2>2, <2>3, <2>4, <2>5, <2>6, <2>7, <2>8, <2>9, <2>10,
       <2>11, <2>12, <2>13, <2>14, <2>15, <2>16, <2>17, <2>18, <2>19, <2>20 DEF RunStep
<1>2. ASSUME NEW e \in Execs, CancelCommit(e)
      PROVE  HolderInv'
  BY <1>2 DEF CancelCommit
<1>3. ASSUME NEW e \in Execs, CancelRollback(e)
      PROVE  HolderInv'
  BY <1>3 DEF CancelRollback
<1>4. ASSUME NEW e \in Execs, GoIdle(e)
      PROVE  HolderInv'
  BY <1>4 DEF GoIdle
<1>5. ASSUME NEW e \in Execs, Purge(e)
      PROVE  HolderInv'
  BY <1>5 DEF Purge
<1>6. ASSUME NEW e \in Execs, NEW p \in Procs, Submit(e, p)
      PROVE  HolderInv'
  BY <1>6 DEF Submit
<1>7. ASSUME NEW e \in Execs, NEW p \in Procs, CancelFlush(e, p)
      PROVE  HolderInv'
  BY <1>7 DEF CancelFlush
<1>8. ASSUME NEW p \in Procs, Boot(p)
      PROVE  HolderInv'
  BY <1>8 DEF Boot
<1>9. ASSUME NEW p \in Procs, RecoverKeys(p)
      PROVE  HolderInv'
  BY <1>9 DEF RecoverKeys
<1>10. ASSUME NEW p \in Procs, RecoverRows(p)
      PROVE  HolderInv'
  BY <1>10 DEF RecoverRows
<1>11. ASSUME NEW p \in Procs, Exited(p)
      PROVE  HolderInv'
  BY <1>11 DEF Exited, Kill
<1>12. ASSUME NEW p \in Procs, Crash(p)
      PROVE  HolderInv'
  BY <1>12 DEF Crash, Kill
<1>13. ASSUME NEW p \in Procs, ShutDown(p)
      PROVE  HolderInv'
  BY <1>13 DEF ShutDown, Kill
<1>14. CASE UNCHANGED vars
  BY <1>14 DEF vars
<1> QED
  BY <1>1, <1>2, <1>3, <1>4, <1>5, <1>6, <1>7,
     <1>8, <1>9, <1>10, <1>11, <1>12, <1>13, <1>14 DEF Next, CancelStep, BootStep

(* Every step keeps it, unless a row comes late.  Rows that leave the      *)
(* filter, and keys that are deleted or given up, do it no harm.           *)
LEMMA RecoveryStep == TypeOK /\ StatusInv /\ HolderInv /\ RecoveryInv /\ NoLateRow /\ [Next]_vars => RecoveryInv'
<1> SUFFICES ASSUME TypeOK, StatusInv, HolderInv, RecoveryInv, NoLateRow, [Next]_vars
             PROVE  RecoveryInv'
  OBVIOUS
<1> USE DEF TypeOK, HolderInv, Keyless, RecoveryInv, NoLateRow, GivenUp, Stale, Open,
            Goto, Leave, Exit, Touch, rowVars, runVars, keyVars, procVars
<1>1. ASSUME NEW e \in Execs, RunStep(e)
      PROVE  RecoveryInv'
  <2>1. CASE Enqueue(e)
    BY <2>1 DEF Enqueue
  <2>2. CASE TakeThread(e)
    BY <2>2 DEF TakeThread
  <2>3. CASE StartRun(e)
    BY <2>3 DEF StartRun
  <2>4. CASE StartFails(e)
    BY <2>4 DEF StartFails
  <2>5. CASE CreateKey(e)
    BY <2>5 DEF CreateKey
  <2>6. CASE CreateKeyFails(e)
    BY <2>6 DEF CreateKeyFails
  <2>7. CASE NeedsNoKey(e)
    BY <2>7 DEF NeedsNoKey
  <2>8. CASE PersistKey(e)
    BY <2>8 DEF PersistKey
  <2>9. CASE Recheck(e)
    BY <2>9 DEF Recheck
  <2>10. CASE TaskEvent(e)
    BY <2>10 DEF TaskEvent
  <2>11. CASE RunRaises(e)
    BY <2>11 DEF RunRaises
  <2>12. CASE CrewReturns(e)
    BY <2>12 DEF CrewReturns
  <2>13. CASE Finish(e)
    BY <2>13 DEF Finish
  <2>14. CASE RedactorFails(e)
    BY <2>14 DEF RedactorFails
  <2>15. CASE FailRun(e)
    BY <2>15 DEF FailRun
  <2>16. CASE TransactionFails(e)
    BY <2>16 DEF TransactionFails
  <2>17. CASE LeaveKeyless(e)
    BY <2>17 DEF LeaveKeyless
  <2>18. CASE DeleteKey(e)
    BY <2>18 DEF DeleteKey
  <2>19. CASE ClearKey(e)
    BY <2>19 DEF ClearKey
  <2>20. CASE MarkFailed(e)
    BY <2>20 DEF MarkFailed
  <2> QED
    BY <1>1, <2>1, <2>2, <2>3, <2>4, <2>5, <2>6, <2>7, <2>8, <2>9, <2>10,
       <2>11, <2>12, <2>13, <2>14, <2>15, <2>16, <2>17, <2>18, <2>19, <2>20 DEF RunStep
<1>2. ASSUME NEW e \in Execs, CancelCommit(e)
      PROVE  RecoveryInv'
  BY <1>2 DEF CancelCommit
<1>3. ASSUME NEW e \in Execs, CancelRollback(e)
      PROVE  RecoveryInv'
  BY <1>3 DEF CancelRollback
<1>4. ASSUME NEW e \in Execs, GoIdle(e)
      PROVE  RecoveryInv'
  BY <1>4 DEF GoIdle
<1>5. ASSUME NEW e \in Execs, Purge(e)
      PROVE  RecoveryInv'
  BY <1>5 DEF Purge
<1>6. ASSUME NEW e \in Execs, NEW p \in Procs, Submit(e, p)
      PROVE  RecoveryInv'
  BY <1>6 DEF Submit
<1>7. ASSUME NEW e \in Execs, NEW p \in Procs, CancelFlush(e, p)
      PROVE  RecoveryInv'
  BY <1>7 DEF CancelFlush
<1>8. ASSUME NEW p \in Procs, Boot(p)
      PROVE  RecoveryInv'
  BY <1>8 DEF Boot
<1>9. ASSUME NEW p \in Procs, RecoverKeys(p)
      PROVE  RecoveryInv'
  BY <1>9 DEF RecoverKeys
<1>10. ASSUME NEW p \in Procs, RecoverRows(p)
      PROVE  RecoveryInv'
  BY <1>10 DEF RecoverRows
<1>11. ASSUME NEW p \in Procs, Exited(p)
      PROVE  RecoveryInv'
  BY <1>11 DEF Exited
<1>12. ASSUME NEW p \in Procs, Crash(p)
      PROVE  RecoveryInv'
  BY <1>12 DEF Crash
<1>13. ASSUME NEW p \in Procs, ShutDown(p)
      PROVE  RecoveryInv'
  BY <1>13 DEF ShutDown
<1>14. CASE UNCHANGED vars
  BY <1>14 DEF vars
<1> QED
  BY <1>1, <1>2, <1>3, <1>4, <1>5, <1>6, <1>7,
     <1>8, <1>9, <1>10, <1>11, <1>12, <1>13, <1>14 DEF Next, CancelStep, BootStep

(* And no step loses sight of a key: who stops holding it has given it up, *)
(* and a column is cleared of one that was looked for.                     *)
LEMMA AccountStep == TypeOK /\ StatusInv /\ HolderInv /\ RecoveryInv /\ KeysAccounted /\ [Next]_vars => KeysAccounted'
<1> SUFFICES ASSUME TypeOK, StatusInv, HolderInv, RecoveryInv, KeysAccounted, [Next]_vars
             PROVE  KeysAccounted'
  OBVIOUS
<1> USE DEF TypeOK, StatusInv, RowInv, Begun, HolderInv, Keyless, RecoveryInv, GivenUp,
            KeysAccounted, Threaded, Live, Open, Settled, CanTransition, View, Goto, Leave,
            Exit, rowVars, runVars, keyVars, procVars
<1>1. ASSUME NEW e \in Execs, RunStep(e)
      PROVE  KeysAccounted'
  <2>1. CASE Enqueue(e)
    BY <2>1 DEF Enqueue
  <2>2. CASE TakeThread(e)
    BY <2>2 DEF TakeThread
  <2>3. CASE StartRun(e)
    BY <2>3 DEF StartRun
  <2>4. CASE StartFails(e)
    BY <2>4 DEF StartFails
  <2>5. CASE CreateKey(e)
    BY <2>5 DEF CreateKey
  <2>6. CASE CreateKeyFails(e)
    BY <2>6 DEF CreateKeyFails
  <2>7. CASE NeedsNoKey(e)
    BY <2>7 DEF NeedsNoKey
  <2>8. CASE PersistKey(e)
    BY <2>8 DEF PersistKey
  <2>9. CASE Recheck(e)
    BY <2>9 DEF Recheck
  <2>10. CASE TaskEvent(e)
    BY <2>10 DEF TaskEvent
  <2>11. CASE RunRaises(e)
    BY <2>11 DEF RunRaises
  <2>12. CASE CrewReturns(e)
    BY <2>12 DEF CrewReturns
  <2>13. CASE Finish(e)
    BY <2>13 DEF Finish
  <2>14. CASE RedactorFails(e)
    BY <2>14 DEF RedactorFails
  <2>15. CASE FailRun(e)
    BY <2>15 DEF FailRun
  <2>16. CASE TransactionFails(e)
    BY <2>16 DEF TransactionFails
  <2>17. CASE LeaveKeyless(e)
    BY <2>17 DEF LeaveKeyless
  <2>18. CASE DeleteKey(e)
    BY <2>18 DEF DeleteKey
  <2>19. CASE ClearKey(e)
    BY <2>19 DEF ClearKey
  <2>20. CASE MarkFailed(e)
    BY <2>20 DEF MarkFailed
  <2> QED
    BY <1>1, <2>1, <2>2, <2>3, <2>4, <2>5, <2>6, <2>7, <2>8, <2>9, <2>10,
       <2>11, <2>12, <2>13, <2>14, <2>15, <2>16, <2>17, <2>18, <2>19, <2>20 DEF RunStep
<1>2. ASSUME NEW e \in Execs, CancelCommit(e)
      PROVE  KeysAccounted'
  BY <1>2 DEF CancelCommit
<1>3. ASSUME NEW e \in Execs, CancelRollback(e)
      PROVE  KeysAccounted'
  BY <1>3 DEF CancelRollback
<1>4. ASSUME NEW e \in Execs, GoIdle(e)
      PROVE  KeysAccounted'
  BY <1>4 DEF GoIdle
<1>5. ASSUME NEW e \in Execs, Purge(e)
      PROVE  KeysAccounted'
  BY <1>5 DEF Purge
<1>6. ASSUME NEW e \in Execs, NEW p \in Procs, Submit(e, p)
      PROVE  KeysAccounted'
  BY <1>6 DEF Submit
<1>7. ASSUME NEW e \in Execs, NEW p \in Procs, CancelFlush(e, p)
      PROVE  KeysAccounted'
  BY <1>7 DEF CancelFlush
<1>8. ASSUME NEW p \in Procs, Boot(p)
      PROVE  KeysAccounted'
  BY <1>8 DEF Boot
<1>9. ASSUME NEW p \in Procs, RecoverKeys(p)
      PROVE  KeysAccounted'
  BY <1>9 DEF RecoverKeys, Stale
<1>10. ASSUME NEW p \in Procs, RecoverRows(p)
      PROVE  KeysAccounted'
  BY <1>10 DEF RecoverRows, Stale
<1>11. ASSUME NEW p \in Procs, Exited(p)
      PROVE  KeysAccounted'
  BY <1>11 DEF Exited, Kill
<1>12. ASSUME NEW p \in Procs, Crash(p)
      PROVE  KeysAccounted'
  BY <1>12 DEF Crash, Kill
<1>13. ASSUME NEW p \in Procs, ShutDown(p)
      PROVE  KeysAccounted'
  BY <1>13 DEF ShutDown, Kill
<1>14. CASE UNCHANGED vars
  BY <1>14 DEF vars
<1> QED
  BY <1>1, <1>2, <1>3, <1>4, <1>5, <1>6, <1>7,
     <1>8, <1>9, <1>10, <1>11, <1>12, <1>13, <1>14 DEF Next, CancelStep, BootStep

(* A virtual key that exists can be found in a live run or in its row, if  *)
(* no row comes under the filter between the two reads of a recovery,      *)
(* whatever the worker ids, the faults, the crashes and the cutoffs.       *)
THEOREM KeysAreAccounted == Spec /\ [][NoLateRow]_vars => []KeysAccounted
<1> DEFINE Inv == TypeOK /\ StatusInv /\ HolderInv /\ RecoveryInv /\ KeysAccounted
<1>1. Init => Inv
  BY SafeInit DEF Init, HolderInv, RecoveryInv, KeysAccounted
<1>2. Inv /\ [Next]_vars /\ [NoLateRow]_vars => Inv'
  <2> SUFFICES ASSUME Inv, [Next]_vars, [NoLateRow]_vars
               PROVE  Inv'
    OBVIOUS
  <2>1. TypeOK' /\ StatusInv' /\ HolderInv' /\ KeysAccounted'
    BY TypeStep, StatusStep, HolderStep, AccountStep
  <2>2. RecoveryInv'
    <3>1. CASE NoLateRow
      BY <3>1, RecoveryStep
    <3>2. CASE UNCHANGED vars
      BY <3>2 DEF vars, rowVars, runVars, keyVars, procVars, RecoveryInv, GivenUp, Stale
    <3> QED
      BY <3>1, <3>2
  <2> QED
    BY <2>1, <2>2
<1> QED
  BY <1>1, <1>2, PTL DEF Spec

(* Recognisable processes have no such row, but one that passes the cutoff *)
(* in that very moment.                                                    *)
LEMMA LateStep ==
    ASSUME Recognisable, "orphan_ages" \notin Env
    PROVE  TypeOK /\ StatusInv /\ HomeInv /\ [Next]_vars => NoLateRow
<1> SUFFICES ASSUME TypeOK, StatusInv, HomeInv, [Next]_vars
             PROVE  NoLateRow
  OBVIOUS
<1> USE Recognisable
    DEF Recognisable, TypeOK, StatusInv, RowInv, HomeInv, NoLateRow, Stale, Open, Live,
        Threaded, Goto, Leave, Exit, Touch, rowVars, runVars, procVars
<1>1. ASSUME NEW e \in Execs, RunStep(e)
      PROVE  NoLateRow
  <2>1. CASE Enqueue(e)
    BY <2>1 DEF Enqueue
  <2>2. CASE TakeThread(e)
    BY <2>2 DEF TakeThread
  <2>3. CASE StartRun(e)
    BY <2>3 DEF StartRun
  <2>4. CASE StartFails(e)
    BY <2>4 DEF StartFails
  <2>5. CASE CreateKey(e)
    BY <2>5 DEF CreateKey
  <2>6. CASE CreateKeyFails(e)
    BY <2>6 DEF CreateKeyFails
  <2>7. CASE NeedsNoKey(e)
    BY <2>7 DEF NeedsNoKey
  <2>8. CASE PersistKey(e)
    BY <2>8 DEF PersistKey
  <2>9. CASE Recheck(e)
    BY <2>9 DEF Recheck
  <2>10. CASE TaskEvent(e)
    BY <2>10 DEF TaskEvent
  <2>11. CASE RunRaises(e)
    BY <2>11 DEF RunRaises
  <2>12. CASE CrewReturns(e)
    BY <2>12 DEF CrewReturns
  <2>13. CASE Finish(e)
    BY <2>13 DEF Finish
  <2>14. CASE RedactorFails(e)
    BY <2>14 DEF RedactorFails
  <2>15. CASE FailRun(e)
    BY <2>15 DEF FailRun
  <2>16. CASE TransactionFails(e)
    BY <2>16 DEF TransactionFails
  <2>17. CASE LeaveKeyless(e)
    BY <2>17 DEF LeaveKeyless
  <2>18. CASE DeleteKey(e)
    BY <2>18 DEF DeleteKey
  <2>19. CASE ClearKey(e)
    BY <2>19 DEF ClearKey
  <2>20. CASE MarkFailed(e)
    BY <2>20 DEF MarkFailed
  <2> QED
    BY <1>1, <2>1, <2>2, <2>3, <2>4, <2>5, <2>6, <2>7, <2>8, <2>9, <2>10,
       <2>11, <2>12, <2>13, <2>14, <2>15, <2>16, <2>17, <2>18, <2>19, <2>20 DEF RunStep
<1>2. ASSUME NEW e \in Execs, CancelCommit(e)
      PROVE  NoLateRow
  BY <1>2 DEF CancelCommit
<1>3. ASSUME NEW e \in Execs, CancelRollback(e)
      PROVE  NoLateRow
  BY <1>3 DEF CancelRollback
<1>4. ASSUME NEW e \in Execs, GoIdle(e)
      PROVE  NoLateRow
  BY <1>4 DEF GoIdle
<1>5. ASSUME NEW e \in Execs, Purge(e)
      PROVE  NoLateRow
  BY <1>5 DEF Purge
<1>6. ASSUME NEW e \in Execs, NEW p \in Procs, Submit(e, p)
      PROVE  NoLateRow
  BY <1>6 DEF Submit
<1>7. ASSUME NEW e \in Execs, NEW p \in Procs, CancelFlush(e, p)
      PROVE  NoLateRow
  BY <1>7 DEF CancelFlush
<1>8. ASSUME NEW p \in Procs, Boot(p)
      PROVE  NoLateRow
  BY <1>8 DEF Boot
<1>9. ASSUME NEW p \in Procs, RecoverKeys(p)
      PROVE  NoLateRow
  BY <1>9 DEF RecoverKeys
<1>10. ASSUME NEW p \in Procs, RecoverRows(p)
      PROVE  NoLateRow
  BY <1>10 DEF RecoverRows
<1>11. ASSUME NEW p \in Procs, Exited(p)
      PROVE  NoLateRow
  BY <1>11 DEF Exited
<1>12. ASSUME NEW p \in Procs, Crash(p)
      PROVE  NoLateRow
  BY <1>12 DEF Crash
<1>13. ASSUME NEW p \in Procs, ShutDown(p)
      PROVE  NoLateRow
  BY <1>13 DEF ShutDown
<1>14. CASE UNCHANGED vars
  BY <1>14 DEF vars
<1> QED
  BY <1>1, <1>2, <1>3, <1>4, <1>5, <1>6, <1>7,
     <1>8, <1>9, <1>10, <1>11, <1>12, <1>13, <1>14 DEF Next, CancelStep, BootStep

(* So with recognisable processes whose rows do not age, every key is      *)
(* accounted for.                                                          *)
THEOREM RecognisedKeysAreAccounted ==
    ASSUME Recognisable, "orphan_ages" \notin Env
    PROVE  Spec => []KeysAccounted
<1>1. TypeOK /\ StatusInv /\ HomeInv /\ [Next]_vars
          => TypeOK' /\ StatusInv' /\ HomeInv'
  BY TypeStep, StatusStep, HomeStep
<1>2. TypeOK /\ StatusInv /\ HomeInv /\ [Next]_vars => [NoLateRow]_vars
  BY LateStep
<1>3. Spec => [][NoLateRow]_vars
  BY SafeInit, <1>1, <1>2, PTL DEF Spec
<1> QED
  BY <1>3, KeysAreAccounted, PTL

-------------------------------------------------------------------------------
(* Raw outputs of an execution that is to be redacted are only ever in a   *)
(* session whose redactor has raised.                                      *)
RedactInv ==
    \A e \in Redacting : outputs[e] # "raw" /\ pending[e] # "dirty"

(* Without such a failure every step keeps it. *)
LEMMA RedactStep ==
    ASSUME "redactor_fails" \notin Env
    PROVE  TypeOK /\ RedactInv /\ [Next]_vars => RedactInv'
<1> SUFFICES ASSUME TypeOK, RedactInv, [Next]_vars
             PROVE  RedactInv'
  OBVIOUS
<1> USE LifecycleAssumption
    DEF LifecycleAssumption, TypeOK, RedactInv, Goto, Leave, Exit, rowVars, runVars
<1>1. ASSUME NEW e \in Execs, RunStep(e)
      PROVE  RedactInv'
  <2>1. CASE Enqueue(e)
    BY <2>1 DEF Enqueue
  <2>2. CASE TakeThread(e)
    BY <2>2 DEF TakeThread
  <2>3. CASE StartRun(e)
    BY <2>3 DEF StartRun
  <2>4. CASE StartFails(e)
    BY <2>4 DEF StartFails
  <2>5. CASE CreateKey(e)
    BY <2>5 DEF CreateKey
  <2>6. CASE CreateKeyFails(e)
    BY <2>6 DEF CreateKeyFails
  <2>7. CASE NeedsNoKey(e)
    BY <2>7 DEF NeedsNoKey
  <2>8. CASE PersistKey(e)
    BY <2>8 DEF PersistKey
  <2>9. CASE Recheck(e)
    BY <2>9 DEF Recheck
  <2>10. CASE TaskEvent(e)
    BY <2>10 DEF TaskEvent
  <2>11. CASE RunRaises(e)
    BY <2>11 DEF RunRaises
  <2>12. CASE CrewReturns(e)
    BY <2>12 DEF CrewReturns
  <2>13. CASE Finish(e)
    BY <2>13 DEF Finish
  <2>14. CASE RedactorFails(e)
    BY <2>14 DEF RedactorFails
  <2>15. CASE FailRun(e)
    BY <2>15 DEF FailRun
  <2>16. CASE TransactionFails(e)
    BY <2>16 DEF TransactionFails
  <2>17. CASE LeaveKeyless(e)
    BY <2>17 DEF LeaveKeyless
  <2>18. CASE DeleteKey(e)
    BY <2>18 DEF DeleteKey
  <2>19. CASE ClearKey(e)
    BY <2>19 DEF ClearKey
  <2>20. CASE MarkFailed(e)
    BY <2>20 DEF MarkFailed
  <2> QED
    BY <1>1, <2>1, <2>2, <2>3, <2>4, <2>5, <2>6, <2>7, <2>8, <2>9, <2>10,
       <2>11, <2>12, <2>13, <2>14, <2>15, <2>16, <2>17, <2>18, <2>19, <2>20 DEF RunStep
<1>2. ASSUME NEW e \in Execs, CancelCommit(e)
      PROVE  RedactInv'
  BY <1>2 DEF CancelCommit
<1>3. ASSUME NEW e \in Execs, CancelRollback(e)
      PROVE  RedactInv'
  BY <1>3 DEF CancelRollback
<1>4. ASSUME NEW e \in Execs, GoIdle(e)
      PROVE  RedactInv'
  BY <1>4 DEF GoIdle
<1>5. ASSUME NEW e \in Execs, Purge(e)
      PROVE  RedactInv'
  BY <1>5 DEF Purge
<1>6. ASSUME NEW e \in Execs, NEW p \in Procs, Submit(e, p)
      PROVE  RedactInv'
  BY <1>6 DEF Submit
<1>7. ASSUME NEW e \in Execs, NEW p \in Procs, CancelFlush(e, p)
      PROVE  RedactInv'
  BY <1>7 DEF CancelFlush
<1>8. ASSUME NEW p \in Procs, Boot(p)
      PROVE  RedactInv'
  BY <1>8 DEF Boot
<1>9. ASSUME NEW p \in Procs, RecoverKeys(p)
      PROVE  RedactInv'
  BY <1>9 DEF RecoverKeys
<1>10. ASSUME NEW p \in Procs, RecoverRows(p)
      PROVE  RedactInv'
  BY <1>10 DEF RecoverRows
<1>11. ASSUME NEW p \in Procs, Exited(p)
      PROVE  RedactInv'
  BY <1>11 DEF Exited, Kill
<1>12. ASSUME NEW p \in Procs, Crash(p)
      PROVE  RedactInv'
  BY <1>12 DEF Crash, Kill
<1>13. ASSUME NEW p \in Procs, ShutDown(p)
      PROVE  RedactInv'
  BY <1>13 DEF ShutDown, Kill
<1>14. CASE UNCHANGED vars
  BY <1>14 DEF vars
<1> QED
  BY <1>1, <1>2, <1>3, <1>4, <1>5, <1>6, <1>7,
     <1>8, <1>9, <1>10, <1>11, <1>12, <1>13, <1>14 DEF Next, CancelStep, BootStep

(* What a policy redacts is never stored raw, as long as the redactor does *)
(* not raise: its exception is the only way (run UnredactedStored).        *)
THEOREM RedactorAloneLeaks ==
    ASSUME "redactor_fails" \notin Env
    PROVE  Spec => []StoredRedacted
<1>1. Init => TypeOK /\ RedactInv
  BY SafeInit, LifecycleAssumption DEF LifecycleAssumption, Init, RedactInv
<1>2. RedactInv => StoredRedacted
  BY DEF RedactInv, StoredRedacted
<1> QED
  BY <1>1, <1>2, TypeStep, RedactStep, PTL DEF Spec
==============================================================================
