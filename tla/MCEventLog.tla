------------------------------ MODULE MCEventLog ------------------------------
(* Instances of EventLog for TLC. *)
EXTENDS EventLog, TLC

Symmetry == Permutations(Writers) \cup Permutations(Timers)
                \cup Permutations(Appenders)
===============================================================================
