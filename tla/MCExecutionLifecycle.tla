------------------------- MODULE MCExecutionLifecycle -------------------------
(* Instances of ExecutionLifecycle for TLC. *)
EXTENDS ExecutionLifecycle, TLC

(* Replicas on their own hosts: WORKER_ID defaults to the hostname. *)
DistinctIds == [p \in Procs |-> p]

(* The workers of one container (WEB_CONCURRENCY) share a hostname. *)
SharedIds == [p \in Procs |-> NoProc]

ProcSymmetry == Permutations(Procs)
===============================================================================
