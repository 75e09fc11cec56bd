--------------------------- MODULE ExecutionStatus ---------------------------
(***************************************************************************)
(* What the platform promises about the status of an execution            *)
(* (src/backend/blackbeard/models/execution.py): the lifecycle edges of    *)
(* _ALLOWED_STATUS_TRANSITIONS, and retention's deletion of a settled row. *)
(* Nothing is said here about processes, threads, locks or transactions:   *)
(* ExecutionLifecycle has those and is shown to implement this module.     *)
(***************************************************************************)
CONSTANTS Execs,      \* the executions
          Displaced   \* settled statuses the promise leaves unprotected

Settled == {"completed", "failed", "cancelled"}
Open == {"queued", "running"}
Statuses == {"absent", "purged"} \cup Open \cup Settled

(* The lifecycle edges: a settled status has none. *)
CanTransition(from, to) ==
    \/ from = "queued" /\ to \in {"running", "failed", "cancelled"}
    \/ from = "running" /\ to \in Settled

VARIABLE status

StatusInit == status = [e \in Execs |-> "absent"]

(* One row's part of a step: it appears queued, takes a lifecycle edge, is *)
(* deleted once settled, or has a status in Displaced overwritten by the   *)
(* outcome of a run that was still going.                                  *)
Edge(from, to) ==
    \/ from = to
    \/ from = "absent" /\ to = "queued"
    \/ CanTransition(from, to)
    \/ from \in Settled /\ to = "purged"
    \/ from \in Settled \cap Displaced /\ to \in {"completed", "failed"}

(* Recovery and retention change many rows in one statement. *)
StatusNext == /\ status' \in [Execs -> Statuses]
              /\ \A e \in Execs : Edge(status[e], status'[e])

StatusSpec == StatusInit /\ [][StatusNext]_status
==============================================================================
