----------------------------- MODULE SdkClients -----------------------------
(***************************************************************************)
(* The clients other programs embed: the React components CrewRunner,      *)
(* ExecutionStatus and CrewViewer (sdks/react/src) and the wait of the     *)
(* TypeScript client (sdks/typescript/src/client.ts).  Each polls or loads *)
(* over plain requests that nothing cancels: what an answer may still do   *)
(* is decided by flags and timers, when it comes.  An answer tells what    *)
(* the server held at that moment.                                         *)
(***************************************************************************)
EXTENDS Integers, FiniteSets

CONSTANTS
    Runs,        \* executions; for CrewViewer, crews
    None,        \* stands for null
    MaxInst,     \* bound: times the host changes the prop, or mounts
    MaxLostCalls \* bound: requests that fail

\* What the proofs assume: null is no execution.
SdkAssumption == None \notin Runs
\* The bounds are numbers.
SdkBounds == MaxInst \in Nat

VARIABLES
    use,         \* the client in use
    runs,        \* executions on the server
    runner,      \* CrewRunner
    widget,      \* ExecutionStatus or CrewViewer: what it shows and loads
    waiter,      \* wait()
    reported,    \* calls of onComplete, by execution
    lostCalls

sdkVars == <<use, runs, runner, widget, waiter, reported, lostCalls>>

Uses == {"CrewRunner", "ExecutionStatus", "CrewViewer", "wait"}
Over(x) == runs[x] = "over"   \* TERMINAL_STATUSES

Lose == lostCalls < MaxLostCalls /\ lostCalls' = lostCalls + 1

SdkInitOf(uses) ==
    /\ use \in uses
    /\ runs = [x \in Runs |-> IF use = "CrewRunner" THEN "absent" ELSE "going"]
    /\ runner = [mounted |-> TRUE, view |-> None, submitting |-> FALSE,
                 chain |-> [x \in Runs |-> "none"], timer |-> None]
    /\ widget = [prop |-> None, inst |-> 0, shown |-> None, error |-> FALSE, loading |-> TRUE,
                 armed |-> FALSE, calls |-> {}]
    /\ waiter = [run |-> None, st |-> "idle", late |-> FALSE]
    /\ reported = [x \in Runs |-> 0]
    /\ lostCalls = 0

RunEnds(x) ==
    /\ runs[x] = "going"
    /\ runs' = [runs EXCEPT ![x] = "over"]
    /\ UNCHANGED <<use, runner, widget, waiter, reported, lostCalls>>

(***************************************************************************)
(* CrewRunner: a form; then the status of the run and a poll for its end,  *)
(* a chain of timers and calls that survives "Run another" when a call is  *)
(* in flight.  chain[x] is "timer" or "call"; timer is pollTimerRef.       *)
(***************************************************************************)
runnerOnly == <<use, widget, waiter>>

HandleRun ==
    /\ use = "CrewRunner"
    /\ runner.mounted /\ runner.view = None /\ ~runner.submitting
    /\ \E x \in Runs : runs[x] = "absent"
    /\ runner' = [runner EXCEPT !.submitting = TRUE]
    /\ UNCHANGED <<runnerOnly, runs, reported, lostCalls>>

\* The crew is kicked off: x is its execution.  The first poll is three
\* seconds away.
KickoffAnswer(x) ==
    /\ runner.submitting /\ runs[x] = "absent"
    /\ runs' = [runs EXCEPT ![x] = "going"]
    /\ runner' = [runner EXCEPT !.submitting = FALSE, !.view = x, !.chain[x] = "timer",
                                !.timer = x]
    /\ UNCHANGED <<runnerOnly, reported, lostCalls>>

\* The request fails, or its answer is lost and the crew runs unseen.
KickoffFails(x) ==
    /\ runner.submitting /\ runs[x] = "absent" /\ Lose
    /\ runs' \in {runs, [runs EXCEPT ![x] = "going"]}
    /\ runner' = [runner EXCEPT !.submitting = FALSE]
    /\ UNCHANGED <<runnerOnly, reported>>

\* poll: nothing once the component is gone.
PollFires(x) ==
    /\ runner.chain[x] = "timer"
    /\ runner' = [runner EXCEPT !.chain[x] = IF runner.mounted THEN "call" ELSE "none"]
    /\ UNCHANGED <<runnerOnly, runs, reported, lostCalls>>

PollAnswer(x) ==
    /\ runner.chain[x] = "call"
    /\ IF ~runner.mounted \/ Over(x)
       THEN runner' = [runner EXCEPT !.chain[x] = "none"]
       ELSE runner' = [runner EXCEPT !.chain[x] = "timer", !.timer = x]
    /\ reported' = IF runner.mounted /\ Over(x) THEN [reported EXCEPT ![x] = @ + 1] ELSE reported
    /\ UNCHANGED <<runnerOnly, runs, lostCalls>>

\* Mutant: a failed poll is the last one.
PollFails_GivesUp(x) ==
    /\ runner.chain[x] = "call" /\ Lose
    /\ runner' = [runner EXCEPT !.chain[x] = "none"]
    /\ UNCHANGED <<runnerOnly, runs, reported>>

\* A failed poll is followed by the next one.
PollFails(x) ==
    /\ runner.chain[x] = "call" /\ Lose
    /\ runner' = IF runner.mounted
                 THEN [runner EXCEPT !.chain[x] = "timer", !.timer = x]
                 ELSE [runner EXCEPT !.chain[x] = "none"]
    /\ UNCHANGED <<runnerOnly, runs, reported>>

\* The timer set last is cleared, if it has not fired.
Cleared(r) == IF r.timer # None /\ r.chain[r.timer] = "timer"
              THEN [r EXCEPT !.chain[r.timer] = "none", !.timer = None]
              ELSE [r EXCEPT !.timer = None]

RunAnother ==
    /\ runner.mounted /\ runner.view # None
    /\ runner' = [Cleared(runner) EXCEPT !.view = None]
    /\ UNCHANGED <<runnerOnly, runs, reported, lostCalls>>

Unmount ==
    /\ use = "CrewRunner" /\ runner.mounted
    /\ runner' = [Cleared(runner) EXCEPT !.mounted = FALSE]
    /\ UNCHANGED <<runnerOnly, runs, reported, lostCalls>>

(***************************************************************************)
(* ExecutionStatus polls the execution of its prop until it is over;       *)
(* CrewViewer loads the crew of its prop and then what it refers to.  An   *)
(* effect is an instance: its calls are active until the prop changes.     *)
(***************************************************************************)
widgetOnly == <<use, runner, waiter, reported>>

Call(step) == [prop |-> widget.prop, inst |-> widget.inst, step |-> step]

\* The host gives another execution or crew: the cleanup and the effect.
\* What was shown stays, under a new heading, until the answer.
SetProp(x) ==
    /\ use \in {"ExecutionStatus", "CrewViewer"} /\ x # widget.prop /\ widget.inst < MaxInst
    /\ widget' = [widget EXCEPT !.prop = x, !.inst = @ + 1, !.armed = FALSE, !.loading = TRUE,
                    !.error = IF use = "CrewViewer" THEN FALSE ELSE @,
                    !.calls = @ \union {[prop |-> x, inst |-> widget.inst + 1, step |-> 1]}]
    /\ UNCHANGED <<widgetOnly, runs, lostCalls>>

\* Mutant: the cleanup does not set the flag.
Active_Always(c) == TRUE

\* The active flag of the effect that made the call.
Active(c) == c.inst = widget.inst
\* ExecutionStatus shows the answer, and polls again if it is not over.
ShowStatus(c, over) ==
    [widget EXCEPT !.calls = @ \ {c}, !.shown = [of |-> c.prop, over |-> over],
                   !.error = FALSE, !.loading = FALSE, !.armed = ~over]

\* CrewViewer asks for the agents and tasks of the crew, all of them at once.
ShowCrew(c) ==
    IF c.step = 1 THEN [widget EXCEPT !.calls = (@ \ {c}) \union {[c EXCEPT !.step = 2]}]
    ELSE [widget EXCEPT !.calls = @ \ {c}, !.shown = [of |-> c.prop, over |-> FALSE],
                        !.loading = FALSE]

\* An outdated load of a crew still asks for its agents and tasks.
WidgetAnswer(c) ==
    /\ c \in widget.calls
    /\ widget' = CASE use = "CrewViewer" /\ (Active(c) \/ c.step = 1) -> ShowCrew(c)
                   [] use = "ExecutionStatus" /\ Active(c) -> ShowStatus(c, Over(c.prop))
                   [] OTHER -> [widget EXCEPT !.calls = @ \ {c}]
    /\ UNCHANGED <<widgetOnly, runs, lostCalls>>

\* The status is polled again after an error, the crew is not.
WidgetFails(c) ==
    /\ c \in widget.calls /\ Lose
    /\ widget' = IF Active(c)
                 THEN [widget EXCEPT !.calls = @ \ {c}, !.error = TRUE, !.loading = FALSE,
                                     !.armed = (use = "ExecutionStatus")]
                 ELSE [widget EXCEPT !.calls = @ \ {c}]
    /\ UNCHANGED <<widgetOnly, runs>>

WidgetPolls ==
    /\ widget.armed
    /\ widget' = [widget EXCEPT !.armed = FALSE, !.calls = @ \union {Call(1)}]
    /\ UNCHANGED <<widgetOnly, runs, lostCalls>>

(***************************************************************************)
(* wait: polls until the execution is over, a request fails, or an answer  *)
(* comes after the deadline.                                               *)
(***************************************************************************)
waiterOnly == <<use, runs, runner, widget, reported>>

Wait(x) ==
    /\ use = "wait" /\ waiter.st = "idle"
    /\ waiter' = [waiter EXCEPT !.run = x, !.st = "call"]
    /\ UNCHANGED <<waiterOnly, lostCalls>>

Deadline ==
    /\ waiter.st \in {"call", "sleep"} /\ ~waiter.late
    /\ waiter' = [waiter EXCEPT !.late = TRUE]
    /\ UNCHANGED <<waiterOnly, lostCalls>>

WaitAnswer ==
    /\ waiter.st = "call"
    /\ waiter' = [waiter EXCEPT !.st = IF Over(waiter.run) THEN "returned"
                                       ELSE IF waiter.late THEN "timed out" ELSE "sleep"]
    /\ UNCHANGED <<waiterOnly, lostCalls>>

WaitFails ==
    /\ waiter.st = "call" /\ Lose
    /\ waiter' = [waiter EXCEPT !.st = "failed"]
    /\ UNCHANGED waiterOnly

WaitSleeps ==
    /\ waiter.st = "sleep"
    /\ waiter' = [waiter EXCEPT !.st = "call"]
    /\ UNCHANGED <<waiterOnly, lostCalls>>

RunnerNext ==
    \/ HandleRun \/ RunAnother \/ Unmount
    \/ \E x \in Runs : \/ KickoffAnswer(x) \/ KickoffFails(x)
                       \/ PollFires(x) \/ PollAnswer(x) \/ PollFails(x)
WidgetNext == (\E x \in Runs : SetProp(x)) \/ WidgetPolls
              \/ \E c \in widget.calls : WidgetAnswer(c) \/ WidgetFails(c)
WaiterNext == (\E x \in Runs : Wait(x)) \/ Deadline \/ WaitAnswer \/ WaitFails \/ WaitSleeps

SdkNext == RunnerNext \/ WidgetNext \/ WaiterNext \/ \E x \in Runs : RunEnds(x)
SdkInit == SdkInitOf(Uses)

SdkSpec == SdkInit /\ [][SdkNext]_sdkVars

(***************************************************************************)
(* Properties.                                                             *)
(***************************************************************************)
SdkTypeOK ==
    /\ use \in Uses /\ runs \in [Runs -> {"absent", "going", "over"}]
    /\ runner.view \in Runs \union {None} /\ runner.timer \in Runs \union {None}
    /\ runner.chain \in [Runs -> {"none", "timer", "call"}]
    /\ widget.inst \in 0..MaxInst /\ widget.prop \in Runs \union {None}
    /\ waiter.st \in {"idle", "call", "sleep", "returned", "timed out", "failed"}

\* Once a widget shows an answer or an error of its prop it never goes back
\* to an answer for an earlier prop (the active flag of the effects).
ShowsItsProp ==
    ~widget.loading /\ ~widget.error => widget.shown.of = widget.prop

\* onComplete is called once for an execution at most, whatever chains of
\* polls "Run another" left behind, and it is not forgotten: a run on display
\* that was not reported still has a timer or a call under way, also when
\* polls failed.
RunIsReported ==
    \A x \in Runs :
      /\ reported[x] <= 1
      /\ runner.mounted /\ runner.view = x /\ runner.chain[x] = "none" => reported[x] = 1
=============================================================================
