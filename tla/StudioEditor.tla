---------------------------- MODULE StudioEditor ----------------------------
(***************************************************************************)
(* The studio page (pages/Studio.tsx): a crew is edited on a canvas,       *)
(* loaded, saved in two phases, run, and the results of the run are shown  *)
(* on its nodes.  Loads, saves, layouts, runs and polls overlap with each  *)
(* other and with the user's edits; nothing cancels them, and what they    *)
(* started from may be gone when they end.  Undo is in StudioHistory, the  *)
(* edits of other users in StudioRoom.                                     *)
(*                                                                         *)
(* A graph is a pair: the edit that made its resources (agents, tasks,     *)
(* tools) and the one that made its crew (which of them, in which order);  *)
(* on the server the two are written and read apart.                       *)
(***************************************************************************)
EXTENDS Integers, FiniteSets

CONSTANTS
    Crews,       \* names of crews
    None,        \* stands for null
    Users        \* the users checked: what one does, and the bounds (UserOf)

\* What a user does, and the graphs made, the requests and layouts started,
\* the executions and the requests that fail while she does.
UserOf(does, nedits, nflights, nruns, ndrops) ==
    [does |-> does, edits |-> nedits, flights |-> nflights, runs |-> nruns, drops |-> ndrops]

\* What the proofs assume: null is no row, and what a user does is counted.
StudioAssumption ==
    /\ None \notin [parts : Nat, crew : Nat, settings : {0, 1}]
    /\ \A u \in Users : {u.edits, u.flights, u.runs, u.drops} \subseteq Nat

VARIABLES
    canvas,      \* the graph, and the results on its nodes
    name, dirty, settings,      \* of the studio store, with the graph
    saved,       \* the crews on the server
    ui,          \* the state of the page
    flights,     \* saves, loads, kickoffs, layouts and a generation in flight
    poll,        \* the effects that poll executions: timers, calls, the flag
    ended,       \* executions that are over
    ran,         \* the last execution: what it ran and what it was to run
    revived,     \* a call of an earlier poll was in flight when a new one began
    edits, started, runs, drops,
    user         \* the user, fixed at the start

studioVars == <<canvas, name, dirty, settings, saved, ui, flights, poll, ended, ran,
                 revived, edits, started, runs, drops, user>>
storeVars == <<canvas, name, dirty, settings, edits>>
serverVars == <<saved, ended, ran, runs>>
bounds == <<started, drops, user>>

EmptyGraph == [parts |-> 0, crew |-> 0]
New == [parts |-> edits + 1, crew |-> edits + 1]
Made == edits < user.edits /\ edits' = edits + 1
OnCanvas(graph) == [graph |-> graph, results |-> None]

Kind(k) == {o \in flights : o.kind = k}

StudioInitOf(u, c) ==
    /\ user = u
    /\ canvas = OnCanvas(EmptyGraph)
    /\ name = c /\ dirty = FALSE /\ settings = 0
    /\ saved = [d \in Crews |-> None]
    /\ ui = [status |-> "idle", exec |-> None, laying |-> FALSE, dialog |-> "none",
             pending |-> None, typing |-> FALSE, made |-> FALSE, mount |-> 1]
    /\ flights = {}
    /\ poll = [timers |-> {}, calls |-> {}, cancelled |-> FALSE]
    /\ ended = {} /\ ran = None
    /\ revived = FALSE
    /\ edits = 0 /\ started = 0 /\ runs = 0 /\ drops = 0

(***************************************************************************)
(* The toolbar, and the status line of the page that is open: a late       *)
(* answer of a page that was left sets nothing.                            *)
(***************************************************************************)
CanSave == ui.status \notin {"saving", "loading"} /\ ui.dialog \in {"none", "run"}
CanRun == ui.status \notin {"running", "saving", "loading"}
CanAssist == ui.status \notin {"saving", "loading"}
Idle == ui.dialog = "none"   \* no dialog covers the page

ApplyStatus(u, mount, status) == IF u.mount = mount THEN [u EXCEPT !.status = status] ELSE u

\* Five seconds after a success; a later status cancels the timer.
StatusFades ==
    /\ ui.status = "success"
    /\ ui' = [ui EXCEPT !.status = "idle"]
    /\ UNCHANGED <<storeVars, serverVars, flights, poll, revived, bounds>>

Flight(kind, of, graph, runs_) ==
    [kind |-> kind, of |-> of, graph |-> graph, run |-> runs_,
     results |-> IF kind = "layout" THEN canvas.results ELSE None, step |-> 1, done |-> FALSE,
     alone |-> \A o \in flights : o.kind # "save", n |-> started, mount |-> ui.mount]

\* A save disturbs the ones in flight.
Depart(f) ==
    /\ started < user.flights /\ started' = started + 1
    /\ flights' = {f} \union
         (IF f.kind = "save" THEN {[o EXCEPT !.alone = FALSE] : o \in flights} ELSE flights)
    /\ UNCHANGED <<drops, user>>

(***************************************************************************)
(* Edits.                                                                  *)
(***************************************************************************)
editOthers == <<serverVars, flights, poll, revived, bounds>>

Edit ==
    /\ "edit" \in user.does
    /\ Idle /\ Made
    /\ canvas' = [canvas EXCEPT !.graph = New]
    /\ dirty' = TRUE
    /\ UNCHANGED <<editOthers, name, settings, ui>>

\* Selecting, measuring or dragging a node makes the canvas clean
\* (onNodesChange, onEdgesChange).
SelectNode ==
    /\ "edit" \in user.does
    /\ Idle /\ dirty
    /\ dirty' = FALSE
    /\ UNCHANGED <<editOthers, canvas, name, settings, edits, ui>>

SetCrewName(c) ==
    /\ "name" \in user.does
    /\ Idle /\ c # name
    /\ name' = c
    /\ UNCHANGED <<editOthers, canvas, dirty, settings, edits, ui>>

SetCrewSettings ==
    /\ "settings" \in user.does
    /\ Idle /\ settings = 0
    /\ settings' = 1
    /\ dirty' = TRUE
    /\ UNCHANGED <<editOthers, canvas, name, edits, ui>>

\* The text of the YAML editor is parsed 300 ms after the typing ended, and
\* replaces whatever is on the canvas; invalid text changes nothing.
TypeYaml ==
    /\ "yaml" \in user.does
    /\ Idle /\ ~ui.typing
    /\ ui' = [ui EXCEPT !.typing = TRUE]
    /\ UNCHANGED <<storeVars, editOthers>>

ParseYaml ==
    /\ ui.typing
    /\ ui' = [ui EXCEPT !.typing = FALSE]
    /\ \/ Made /\ canvas' = OnCanvas(New)
       \/ UNCHANGED <<canvas, edits>>
    /\ UNCHANGED <<editOthers, name, dirty, settings>>

\* Offered on an empty canvas.
HandleLoadExample(c) ==
    /\ "load" \in user.does
    /\ Idle /\ canvas.graph = EmptyGraph /\ Made
    /\ canvas' = OnCanvas(New)
    /\ name' = c /\ dirty' = FALSE
    /\ ui' = [ui EXCEPT !.status = "success"]
    /\ UNCHANGED <<editOthers, settings>>

HandleAutoLayout ==
    /\ "layout" \in user.does
    /\ Idle /\ ~ui.laying /\ canvas.graph # EmptyGraph
    /\ Depart(Flight("layout", None, canvas.graph, FALSE))
    /\ ui' = [ui EXCEPT !.laying = TRUE]
    /\ UNCHANGED <<storeVars, serverVars, poll, revived>>

\* The layout of the graph as it was, with the results it had, replaces the
\* graph as it is.
LayoutEnds(o) ==
    /\ o \in Kind("layout")
    /\ canvas' = [graph |-> o.graph, results |-> o.results]
    /\ flights' = flights \ {o}
    /\ ui' = IF o.mount = ui.mount
             THEN [ui EXCEPT !.laying = FALSE, !.status = "success"] ELSE ui
    /\ UNCHANGED <<name, dirty, settings, edits, serverVars, poll, revived, bounds>>

(***************************************************************************)
(* The assistant.  Closing the dialog does not stop a generation; its      *)
(* result is there when the dialog is opened again.                        *)
(***************************************************************************)
OpenAssistant ==
    /\ "assistant" \in user.does
    /\ Idle /\ CanAssist
    /\ ui' = [ui EXCEPT !.dialog = "assistant"]
    /\ UNCHANGED <<storeVars, editOthers>>

HandleGenerate ==
    /\ ui.dialog = "assistant" /\ Kind("generate") = {} /\ ~ui.made
    /\ Depart(Flight("generate", None, EmptyGraph, FALSE))
    /\ UNCHANGED <<storeVars, serverVars, ui, poll, revived>>

Generated(o) ==
    /\ o \in Kind("generate")
    /\ flights' = flights \ {o}
    /\ ui' = IF o.mount = ui.mount THEN [ui EXCEPT !.made = TRUE] ELSE ui
    /\ UNCHANGED <<storeVars, serverVars, poll, revived, bounds>>

\* The crew of the answer has a name, or the name in the toolbar stays.  The
\* canvas is not marked dirty.
HandleAssistantApply(c) ==
    /\ ui.dialog = "assistant" /\ ui.made /\ Made
    /\ canvas' = OnCanvas(New)
    /\ name' = c
    /\ ui' = [ui EXCEPT !.dialog = "none", !.made = FALSE, !.status = "success"]
    /\ UNCHANGED <<editOthers, dirty, settings>>

CloseDialog ==
    /\ ui.dialog # "none"
    /\ ui' = [ui EXCEPT !.dialog = "none", !.pending = None, !.made = FALSE]
    /\ UNCHANGED <<storeVars, editOthers>>

(***************************************************************************)
(* Loading a crew.  The list of crews is never locked; a dirty canvas is   *)
(* asked about, once.                                                      *)
(***************************************************************************)
DoLoadCrew(c, u) ==
    /\ Depart(Flight("load", c, EmptyGraph, FALSE))
    /\ ui' = [u EXCEPT !.status = "loading"]
    /\ UNCHANGED <<storeVars, serverVars, poll, revived>>

HandleLoadCrew(c) ==
    /\ "load" \in user.does
    /\ Idle /\ saved[c] # None
    /\ IF dirty
       THEN /\ ui' = [ui EXCEPT !.dialog = "discard", !.pending = c]
            /\ UNCHANGED <<storeVars, editOthers>>
       ELSE DoLoadCrew(c, ui)

ConfirmDiscard ==
    /\ ui.dialog = "discard"
    /\ DoLoadCrew(ui.pending, [ui EXCEPT !.dialog = "none", !.pending = None])

\* The crew is read, and then its resources.
LoadReads(o) ==
    /\ o \in Kind("load") /\ ~o.done
    /\ flights' = (flights \ {o}) \union
         {IF o.step = 1 THEN [o EXCEPT !.graph.crew = saved[o.of].crew, !.step = 2]
                        ELSE [o EXCEPT !.graph.parts = saved[o.of].parts, !.done = TRUE]}
    /\ UNCHANGED <<storeVars, serverVars, ui, poll, revived, bounds>>

\* The graph, the name and the mark change together, whatever was edited or
\* loaded since.
LoadEnds(o) ==
    /\ o \in Kind("load") /\ o.done
    /\ canvas' = OnCanvas(o.graph)
    /\ name' = o.of /\ dirty' = FALSE
    /\ flights' = flights \ {o}
    /\ ui' = ApplyStatus(ui, o.mount, "success")
    /\ UNCHANGED <<settings, edits, serverVars, poll, revived, bounds>>

(***************************************************************************)
(* Saving: the resources first, the crew when all are stored.  The graph   *)
(* is that of the click, the settings those of the second phase.           *)
(***************************************************************************)
StartSave(u, run) ==
    IF canvas.graph = EmptyGraph
    THEN /\ ui' = [u EXCEPT !.status = "error"]
         /\ UNCHANGED <<flights, bounds>>
    ELSE /\ Depart(Flight("save", name, canvas.graph, run))
         /\ ui' = [u EXCEPT !.status = "saving"]

\* The button, or Ctrl+S under a dialog too.
HandleSave ==
    /\ "save" \in user.does
    /\ CanSave
    /\ StartSave(ui, FALSE)
    /\ UNCHANGED <<storeVars, serverVars, poll, revived>>

ServerSaves(o) ==
    /\ o \in Kind("save") /\ ~o.done
    /\ LET row == IF saved[o.of] = None THEN [parts |-> 0, crew |-> 0, settings |-> 0]
                                        ELSE saved[o.of]
       IN  saved' = [saved EXCEPT ![o.of] =
                        IF o.step = 1 THEN [row EXCEPT !.parts = o.graph.parts]
                        ELSE [row EXCEPT !.crew = o.graph.crew, !.settings = settings]]
    /\ flights' = (flights \ {o}) \union {[o EXCEPT !.done = TRUE]}
    /\ UNCHANGED <<storeVars, ended, ran, runs, ui, poll, revived, bounds>>

\* The second phase, or the end: the canvas is marked clean, also where it
\* was edited since, and a run goes on to kick the crew off.
SaveAnswers(o) ==
    /\ o \in Kind("save") /\ o.done
    /\ IF o.step = 1
       THEN /\ flights' = (flights \ {o}) \union {[o EXCEPT !.step = 2, !.done = FALSE]}
            /\ UNCHANGED <<dirty, ui>>
       ELSE /\ dirty' = FALSE
            /\ flights' = (flights \ {o}) \union
                 (IF o.run THEN {[o EXCEPT !.kind = "kickoff", !.step = 1, !.done = FALSE]} ELSE {})
            /\ ui' = ApplyStatus(ui, o.mount, IF o.run THEN "running" ELSE "success")
    /\ UNCHANGED <<canvas, name, settings, edits, serverVars, poll, revived, bounds>>

\* Mutant: a run goes on when its save has failed.
Fails_RunsAnyway(o) ==
    IF o.kind = "save" /\ o.run
    THEN /\ flights' = (flights \ {o}) \union {[o EXCEPT !.kind = "kickoff", !.done = FALSE]}
         /\ ui' = ApplyStatus(ui, o.mount, "running")
    ELSE /\ flights' = flights \ {o}
         /\ ui' = ApplyStatus(ui, o.mount, "error")

\* Mutant: the status of a failed save is left as it is.
Fails_KeepsStatus(o) ==
    /\ flights' = flights \ {o}
    /\ ui' = CASE o.kind \in {"generate", "save"} -> ui
               [] o.kind = "layout" -> ApplyStatus([ui EXCEPT !.laying = @ /\ o.mount # ui.mount],
                                                   o.mount, "error")
               [] OTHER -> ApplyStatus(ui, o.mount, "error")

\* A request fails, the resources of a save possibly stored, or the layout
\* does: the status says so.
Fails(o) ==
    /\ flights' = flights \ {o}
    /\ ui' = CASE o.kind = "generate" -> ui
               [] o.kind = "layout" -> ApplyStatus([ui EXCEPT !.laying = @ /\ o.mount # ui.mount],
                                                   o.mount, "error")
               [] OTHER -> ApplyStatus(ui, o.mount, "error")

RequestFails(o) ==
    /\ o \in flights
    /\ drops < user.drops /\ drops' = drops + 1
    /\ Fails(o)
    /\ UNCHANGED <<storeVars, serverVars, poll, revived, started, user>>

(***************************************************************************)
(* Running.                                                                *)
(***************************************************************************)
OpenRunDialog ==
    /\ "run" \in user.does
    /\ Idle /\ CanRun
    /\ ui' = [ui EXCEPT !.dialog = "run"]
    /\ UNCHANGED <<storeVars, editOthers>>

\* setExecutionId: the cleanup of the effect that polls sets the flag all
\* these effects share, and a new effect resets it.
SetExecutionId(x) ==
    /\ poll' = [timers |-> IF x # None THEN {x} ELSE poll.timers \ {ui.exec},
                calls |-> poll.calls,
                cancelled |-> IF x # None THEN FALSE ELSE poll.cancelled \/ ui.exec # None]
    /\ revived' = (revived \/ (x # None /\ (poll.calls # {} \/ poll.timers \ {ui.exec} # {})))

\* handleRun: the execution on display is dropped, the crew saved and kicked
\* off.
HandleRun ==
    /\ ui.dialog = "run"
    /\ StartSave([ui EXCEPT !.dialog = "none", !.exec = None], TRUE)
    /\ SetExecutionId(None)
    /\ UNCHANGED <<storeVars, serverVars>>

\* A crew that is not there is refused (RequestFails).
ServerKicksOff(o) ==
    /\ o \in Kind("kickoff") /\ ~o.done /\ saved[o.of] # None
    /\ runs < user.runs /\ runs' = runs + 1
    /\ ran' = [parts |-> saved[o.of].parts, crew |-> saved[o.of].crew, meant |-> o.graph,
               alone |-> o.alone]
    /\ flights' = (flights \ {o}) \union {[o EXCEPT !.done = TRUE, !.step = runs + 1]}
    /\ UNCHANGED <<storeVars, saved, ended, ui, poll, revived, bounds>>

KickoffAnswers(o) ==
    /\ o \in Kind("kickoff") /\ o.done
    /\ flights' = flights \ {o}
    /\ IF o.mount = ui.mount
       THEN /\ ui' = [ui EXCEPT !.exec = o.step, !.status = "success"]
            /\ SetExecutionId(o.step)
       ELSE UNCHANGED <<ui, poll, revived>>
    /\ UNCHANGED <<storeVars, serverVars, bounds>>

ExecutionEnds(x) ==
    /\ x \in 1..runs /\ x \notin ended
    /\ ended' = ended \union {x}
    /\ UNCHANGED <<storeVars, saved, ran, runs, ui, flights, poll, revived, bounds>>

PollFires(x) ==
    /\ x \in poll.timers
    /\ poll' = [poll EXCEPT !.timers = @ \ {x},
                            !.calls = IF poll.cancelled THEN @ ELSE @ \union {x}]
    /\ UNCHANGED <<storeVars, serverVars, ui, flights, revived, bounds>>

\* Mutant: the flag is looked at before the request only.
PollAnswers_NoFlag(x) ==
    /\ x \in poll.calls
    /\ poll' = [poll EXCEPT !.calls = @ \ {x},
                            !.timers = IF x \in ended THEN @ ELSE @ \union {x}]
    /\ canvas' = IF x \in ended THEN [canvas EXCEPT !.results = x] ELSE canvas
    /\ UNCHANGED <<name, dirty, settings, edits, serverVars, ui, flights, revived, bounds>>

\* applyExecResults for an execution that is over, else the next poll.
PollAnswers(x) ==
    /\ x \in poll.calls
    /\ LET ours == ~poll.cancelled
       IN  /\ poll' = [poll EXCEPT !.calls = @ \ {x},
                           !.timers = IF ours /\ x \notin ended THEN @ \union {x} ELSE @]
           /\ canvas' = IF ours /\ x \in ended THEN [canvas EXCEPT !.results = x] ELSE canvas
    /\ UNCHANGED <<name, dirty, settings, edits, serverVars, ui, flights, revived, bounds>>

PollFails(x) ==
    /\ x \in poll.calls
    /\ drops < user.drops /\ drops' = drops + 1
    /\ poll' = [poll EXCEPT !.calls = @ \ {x},
                            !.timers = IF poll.cancelled THEN @ ELSE @ \union {x}]
    /\ UNCHANGED <<storeVars, serverVars, ui, flights, revived, started, user>>

ClearExecResults ==
    /\ Idle /\ canvas.results # None
    /\ canvas' = [canvas EXCEPT !.results = None]
    /\ UNCHANGED <<name, dirty, settings, edits, editOthers, ui>>

(***************************************************************************)
(* The user goes to another page and back: the store stays, what is in     *)
(* flight goes on.  Another user saves a crew.                             *)
(***************************************************************************)
Leave ==
    /\ "leave" \in user.does
    /\ ui.mount = 1
    /\ ui' = [status |-> "idle", exec |-> None, laying |-> FALSE, dialog |-> "none",
              pending |-> None, typing |-> FALSE, made |-> FALSE, mount |-> ui.mount + 1]
    /\ poll' = [timers |-> {}, calls |-> {}, cancelled |-> FALSE]
    /\ UNCHANGED <<storeVars, serverVars, flights, revived, bounds>>

OthersSave(c) ==
    /\ "others" \in user.does
    /\ Made
    /\ saved' = [saved EXCEPT ![c] = [parts |-> edits + 1, crew |-> edits + 1, settings |-> 0]]
    /\ flights' = {[o EXCEPT !.alone = FALSE] : o \in flights}
    /\ UNCHANGED <<canvas, name, dirty, settings, ended, ran, runs, ui, poll, revived,
                   bounds>>

StudioNext ==
    \/ StatusFades \/ Edit \/ SelectNode \/ SetCrewSettings \/ TypeYaml \/ ParseYaml
    \/ HandleAutoLayout \/ OpenAssistant \/ HandleGenerate \/ CloseDialog \/ ConfirmDiscard
    \/ HandleSave \/ OpenRunDialog \/ HandleRun \/ ClearExecResults \/ Leave
    \/ \E c \in Crews : \/ SetCrewName(c) \/ HandleLoadExample(c) \/ HandleAssistantApply(c)
                        \/ HandleLoadCrew(c) \/ OthersSave(c)
    \/ \E o \in flights : \/ LayoutEnds(o) \/ Generated(o) \/ LoadReads(o) \/ LoadEnds(o)
                          \/ ServerSaves(o) \/ SaveAnswers(o) \/ RequestFails(o)
                          \/ ServerKicksOff(o) \/ KickoffAnswers(o)
    \/ \E x \in 1..runs : ExecutionEnds(x) \/ PollFires(x) \/ PollAnswers(x) \/ PollFails(x)

StudioInit == \E u \in Users, c \in Crews : StudioInitOf(u, c)
StudioSpec == StudioInit /\ [][StudioNext]_studioVars

(***************************************************************************)
(* Properties.                                                             *)
(***************************************************************************)
StudioTypeOK ==
    /\ canvas.graph \in [parts : 0..user.edits, crew : 0..user.edits]
    /\ name \in Crews /\ canvas.results \in {None} \union 1..user.runs
    /\ ui.status \in {"idle", "loading", "saving", "running", "success", "error"}
    /\ Cardinality(flights) <= user.flights

\* A run executes the graph that was on the canvas at the click, however it
\* was edited, loaded over or renamed since, unless two saves overlapped.
RunsWhatWasSaved ==
    ran # None /\ ran.alone => ran.meant = [parts |-> ran.parts, crew |-> ran.crew]

\* The results shown are of the execution the page follows, unless a poll of
\* an earlier one was in flight when it began (pollCancelledRef is shared), or
\* a layout brings back those of the graph it began with.
ResultsOfLastRun ==
    [][canvas'.results # canvas.results =>
         \/ revived
         \/ canvas'.results \in {None, ui.exec}
         \/ \E o \in Kind("layout") : o.results = canvas'.results]_canvas

\* The buttons are locked only while what they wait for is in flight.
LockedOnlyWhileBusy ==
    /\ ui.status = "saving" => Kind("save") # {}
    /\ ui.status = "loading" => Kind("load") # {}
    /\ ui.status = "running" => Kind("kickoff") # {}
=============================================================================
