------------------------- MODULE StudioEditorProofs -------------------------
(***************************************************************************)
(* Proofs about StudioEditor, for any crews and any users.                 *)
(***************************************************************************)
EXTENDS StudioEditor, FiniteSetTheorems, TLAPS

Ids == 1..user.runs
Graphs == [parts : 0..user.edits, crew : 0..user.edits]
Rows == [parts : 0..user.edits, crew : 0..user.edits, settings : {0, 1}]
Statuses == {"idle", "loading", "saving", "running", "success", "error"}
Uis == [status : Statuses, exec : Ids \union {None}, laying : BOOLEAN,
        dialog : {"none", "assistant", "discard", "run"}, pending : Crews \union {None},
        typing : BOOLEAN, made : BOOLEAN, mount : Nat]
Flights == [kind : {"save", "load", "kickoff", "layout", "generate"},
            of : Crews \union {None}, graph : Graphs, run : BOOLEAN,
            results : Ids \union {None}, step : Nat, done : BOOLEAN, alone : BOOLEAN,
            n : Nat, mount : Nat]

\* The parts of the state.
StoreTyped ==
    /\ edits \in 0..user.edits
    /\ canvas \in [graph : Graphs, results : Ids \union {None}]
    /\ name \in Crews /\ dirty \in BOOLEAN /\ settings \in {0, 1}

ServerTyped == runs \in 0..user.runs /\ saved \in [Crews -> Rows \union {None}]

\* A crew that waits for the dialog, or that is loaded, is on the server.
OnServer(c) == c \in Crews /\ saved[c] # None

UiTyped == ui \in Uis /\ (ui.dialog = "discard" => OnServer(ui.pending))

FlightTyped(o) ==
    /\ o \in Flights
    /\ o.kind \in {"save", "kickoff"} => o.of \in Crews
    /\ o.kind = "load" => OnServer(o.of)
    /\ o.kind = "kickoff" /\ o.done => o.step \in Ids

FlightsTyped == started \in 0..user.flights /\ \A o \in flights : FlightTyped(o)

PollTyped == poll \in [timers : SUBSET Ids, calls : SUBSET Ids, cancelled : BOOLEAN]

Typed == user \in Users /\ StoreTyped /\ ServerTyped /\ UiTyped /\ FlightsTyped /\ PollTyped

\* What no step changes: the user, and that a crew is on the server.
Kept ==
    /\ user' = user
    /\ Ids' = Ids /\ Graphs' = Graphs /\ Rows' = Rows /\ Uis' = Uis /\ Flights' = Flights
    /\ \A d : OnServer(d) => OnServer(d)'

(* The graphs made, the one that is empty and the rows written. *)
LEMMA Counted == StudioAssumption /\ Typed =>
                   /\ user.edits \in Nat /\ user.flights \in Nat /\ user.runs \in Nat
                   /\ EmptyGraph \in Graphs
                   /\ None \notin Rows
                   /\ edits < user.edits => New \in Graphs /\ edits + 1 \in 0..user.edits
<1> SUFFICES ASSUME StudioAssumption, Typed
             PROVE  /\ user.edits \in Nat /\ user.flights \in Nat /\ user.runs \in Nat
                    /\ EmptyGraph \in Graphs
                    /\ None \notin Rows
                    /\ edits < user.edits => New \in Graphs /\ edits + 1 \in 0..user.edits
  OBVIOUS
<1>1. user.edits \in Nat /\ user.flights \in Nat /\ user.runs \in Nat
  BY DEF StudioAssumption, Typed
<1>2. Rows \subseteq [parts : Nat, crew : Nat, settings : {0, 1}]
  BY <1>1 DEF Rows
<1>3. edits \in Nat
  BY <1>1 DEF Typed, StoreTyped
<1> QED
  BY <1>1, <1>2, <1>3 DEF StudioAssumption, EmptyGraph, New, Graphs

(* A save in its second phase or its first writes a row. *)
LEMMA RowSaved == ASSUME StudioAssumption, Typed, NEW o \in flights, ServerSaves(o)
                  PROVE  /\ saved' \in [Crews -> Rows \union {None}]
                         /\ saved'[o.of] \in Rows
                         /\ \A d \in Crews : d # o.of => saved'[d] = saved[d]
<1> DEFINE row == IF saved[o.of] = None THEN [parts |-> 0, crew |-> 0, settings |-> 0]
                                        ELSE saved[o.of]
           put == IF o.step = 1 THEN [row EXCEPT !.parts = o.graph.parts]
                  ELSE [row EXCEPT !.crew = o.graph.crew, !.settings = settings]
<1>1. o.of \in Crews /\ o.graph \in Graphs
  BY DEF ServerSaves, Kind, Typed, FlightsTyped, FlightTyped, Flights
<1>2. settings \in {0, 1} /\ saved \in [Crews -> Rows \union {None}] /\ user.edits \in Nat
  BY Counted DEF Typed, StoreTyped, ServerTyped
<1>3. row \in Rows
  <2>1. CASE saved[o.of] = None
    BY <2>1, <1>2 DEF Rows
  <2>2. CASE saved[o.of] # None
    BY <2>2, <1>1, <1>2
  <2> QED
    BY <2>1, <2>2
<1>4. put \in Rows
  <2> HIDE DEF row
  <2>1. o.graph.parts \in 0..user.edits /\ o.graph.crew \in 0..user.edits
    BY <1>1 DEF Graphs
  <2> QED
    BY <1>2, <1>3, <2>1 DEF Rows
<1>5. saved' = [saved EXCEPT ![o.of] = put]
  BY DEF ServerSaves
<1> QED
  BY <1>1, <1>2, <1>4, <1>5

(* The crew of another user is a row. *)
LEMMA OthersRow == ASSUME StudioAssumption, Typed, NEW c \in Crews, OthersSave(c)
                   PROVE  /\ saved' \in [Crews -> Rows \union {None}]
                          /\ saved'[c] \in Rows
                          /\ \A d \in Crews : d # c => saved'[d] = saved[d]
<1> DEFINE put == [parts |-> edits + 1, crew |-> edits + 1, settings |-> 0]
<1>1. put \in Rows
  BY Counted DEF OthersSave, Made, Rows
<1>2. saved' = [saved EXCEPT ![c] = put]
  BY DEF OthersSave
<1> QED
  BY <1>1, <1>2 DEF Typed, ServerTyped

(* The user is the one of the start. *)
LEMMA UserStays == [StudioNext]_studioVars => user' = user
<1> SUFFICES ASSUME [StudioNext]_studioVars
             PROVE  user' = user
  OBVIOUS
<1> USE DEF storeVars, serverVars, bounds, editOthers
<1>1. ASSUME NEW c, NEW o, NEW x,
             StatusFades \/ Edit \/ SelectNode \/ SetCrewSettings \/ TypeYaml \/
             ParseYaml \/ HandleAutoLayout \/ OpenAssistant \/ HandleGenerate \/
             CloseDialog \/ ConfirmDiscard \/ HandleSave \/ OpenRunDialog \/
             HandleRun \/ ClearExecResults \/ Leave \/ SetCrewName(c) \/
             HandleLoadExample(c) \/ HandleAssistantApply(c) \/
             HandleLoadCrew(c) \/ OthersSave(c) \/ LayoutEnds(o) \/
             Generated(o) \/ LoadReads(o) \/ LoadEnds(o) \/ ServerSaves(o) \/
             SaveAnswers(o) \/ RequestFails(o) \/ ServerKicksOff(o) \/
             KickoffAnswers(o) \/ ExecutionEnds(x) \/ PollFires(x) \/
             PollAnswers(x) \/ PollFails(x)
      PROVE  user' = user
  BY <1>1 DEF StatusFades, Edit, SelectNode, SetCrewSettings, TypeYaml, ParseYaml,
         HandleAutoLayout, OpenAssistant, HandleGenerate, CloseDialog,
         ConfirmDiscard, HandleSave, OpenRunDialog, HandleRun, ClearExecResults,
         Leave, SetCrewName, HandleLoadExample, HandleAssistantApply,
         HandleLoadCrew, OthersSave, LayoutEnds, Generated, LoadReads, LoadEnds,
         ServerSaves, SaveAnswers, RequestFails, ServerKicksOff, KickoffAnswers,
         ExecutionEnds, PollFires, PollAnswers, PollFails, Depart, DoLoadCrew,
         StartSave, SetExecutionId, Fails
<1>2. CASE UNCHANGED studioVars
  BY <1>2 DEF studioVars
<1> HIDE DEF storeVars, serverVars, bounds, editOthers
<1> QED
  BY <1>1, <1>2 DEF StudioNext

(* A crew on the server stays there. *)
LEMMA ServerKeeps == StudioAssumption /\ Typed /\ [StudioNext]_studioVars => \A d : OnServer(d) => OnServer(d)'
<1> SUFFICES ASSUME StudioAssumption, Typed, [StudioNext]_studioVars
             PROVE  \A d : OnServer(d) => OnServer(d)'
  OBVIOUS
<1> USE DEF OnServer, storeVars, serverVars, bounds, editOthers
<1>1. ASSUME NEW c, NEW o, NEW x,
             StatusFades \/ Edit \/ SelectNode \/ SetCrewSettings \/ TypeYaml \/
             ParseYaml \/ HandleAutoLayout \/ OpenAssistant \/ HandleGenerate \/
             CloseDialog \/ ConfirmDiscard \/ HandleSave \/ OpenRunDialog \/
             HandleRun \/ ClearExecResults \/ Leave \/ SetCrewName(c) \/
             HandleLoadExample(c) \/ HandleAssistantApply(c) \/
             HandleLoadCrew(c) \/ LayoutEnds(o) \/ Generated(o) \/ LoadReads(o) \/
             LoadEnds(o) \/ SaveAnswers(o) \/ RequestFails(o) \/
             ServerKicksOff(o) \/ KickoffAnswers(o) \/ ExecutionEnds(x) \/
             PollFires(x) \/ PollAnswers(x) \/ PollFails(x)
      PROVE  \A d : OnServer(d) => OnServer(d)'
  BY <1>1 DEF StatusFades, Edit, SelectNode, SetCrewSettings, TypeYaml, ParseYaml,
         HandleAutoLayout, OpenAssistant, HandleGenerate, CloseDialog,
         ConfirmDiscard, HandleSave, OpenRunDialog, HandleRun, ClearExecResults,
         Leave, SetCrewName, HandleLoadExample, HandleAssistantApply,
         HandleLoadCrew, LayoutEnds, Generated, LoadReads, LoadEnds, SaveAnswers,
         RequestFails, ServerKicksOff, KickoffAnswers, ExecutionEnds, PollFires,
         PollAnswers, PollFails, Depart, DoLoadCrew, StartSave, SetExecutionId,
         Fails
<1>2. ASSUME NEW o \in flights, ServerSaves(o)
      PROVE  \A d : OnServer(d) => OnServer(d)'
  <2>1. None \notin Rows
    BY Counted
  <2>2. saved'[o.of] \in Rows /\ \A e \in Crews : e # o.of => saved'[e] = saved[e]
    BY <1>2, RowSaved
  <2> QED
    BY <2>1, <2>2 DEF OnServer
<1>3. ASSUME NEW c \in Crews, OthersSave(c)
      PROVE  \A d : OnServer(d) => OnServer(d)'
  <2>1. None \notin Rows
    BY Counted
  <2>2. saved'[c] \in Rows /\ \A e \in Crews : e # c => saved'[e] = saved[e]
    BY <1>3, OthersRow
  <2> QED
    BY <2>1, <2>2 DEF OnServer
<1>4. CASE UNCHANGED studioVars
  BY <1>4 DEF studioVars
<1> HIDE DEF OnServer, storeVars, serverVars, bounds, editOthers
<1> QED
  BY <1>1, <1>2, <1>3, <1>4 DEF StudioNext

(* What no step changes. *)
LEMMA FrameStep == StudioAssumption /\ Typed /\ [StudioNext]_studioVars => Kept
<1> SUFFICES ASSUME StudioAssumption, Typed, [StudioNext]_studioVars
             PROVE  Kept
  OBVIOUS
<1>1. user' = user
  BY UserStays
<1>2. \A d : OnServer(d) => OnServer(d)'
  BY ServerKeeps
<1> QED
  BY <1>1, <1>2 DEF Kept, Ids, Graphs, Rows, Uis, Flights

(* The store of the studio. *)
LEMMA StoreStep == StudioAssumption /\ Typed /\ [StudioNext]_studioVars => StoreTyped'
<1> SUFFICES ASSUME StudioAssumption, Typed, [StudioNext]_studioVars
             PROVE  StoreTyped'
  OBVIOUS
<1>0. Kept
  BY FrameStep
<1>c. EmptyGraph \in Graphs /\ (edits < user.edits => New \in Graphs /\ edits + 1 \in 0..user.edits)
  BY Counted
<1> USE <1>0, <1>c DEF Kept, Typed, StoreTyped, Made, OnCanvas, storeVars, serverVars, bounds, editOthers
<1>1. ASSUME NEW c, NEW o, NEW x,
             StatusFades \/ TypeYaml \/ HandleAutoLayout \/ OpenAssistant \/
             HandleGenerate \/ CloseDialog \/ ConfirmDiscard \/ HandleSave \/
             OpenRunDialog \/ HandleRun \/ Leave \/ HandleLoadCrew(c) \/
             OthersSave(c) \/ Generated(o) \/ LoadReads(o) \/ ServerSaves(o) \/
             RequestFails(o) \/ ServerKicksOff(o) \/ KickoffAnswers(o) \/
             ExecutionEnds(x) \/ PollFires(x) \/ PollFails(x)
      PROVE  StoreTyped'
  BY <1>1 DEF StatusFades, TypeYaml, HandleAutoLayout, OpenAssistant, HandleGenerate,
         CloseDialog, ConfirmDiscard, HandleSave, OpenRunDialog, HandleRun,
         Leave, HandleLoadCrew, OthersSave, Generated, LoadReads, ServerSaves,
         RequestFails, ServerKicksOff, KickoffAnswers, ExecutionEnds, PollFires,
         PollFails, Depart, DoLoadCrew, StartSave, SetExecutionId, Fails
<1>2. CASE Edit
  BY <1>2 DEF Edit
<1>3. CASE SelectNode
  BY <1>3 DEF SelectNode
<1>4. CASE SetCrewSettings
  BY <1>4 DEF SetCrewSettings
<1>5. CASE ParseYaml
  BY <1>5 DEF ParseYaml
<1>6. ASSUME NEW c \in Crews, SetCrewName(c)
      PROVE  StoreTyped'
  BY <1>6 DEF SetCrewName
<1>7. ASSUME NEW c \in Crews, HandleLoadExample(c)
      PROVE  StoreTyped'
  BY <1>7 DEF HandleLoadExample
<1>8. ASSUME NEW c \in Crews, HandleAssistantApply(c)
      PROVE  StoreTyped'
  BY <1>8 DEF HandleAssistantApply
<1>9. ASSUME NEW o \in flights, LayoutEnds(o)
      PROVE  StoreTyped'
  BY <1>9 DEF LayoutEnds, FlightsTyped, FlightTyped, Flights, Kind, OnServer
<1>10. ASSUME NEW o \in flights, LoadEnds(o)
       PROVE  StoreTyped'
  BY <1>10 DEF LoadEnds, FlightsTyped, FlightTyped, Flights, Kind, OnServer
<1>11. ASSUME NEW o \in flights, SaveAnswers(o)
       PROVE  StoreTyped'
  BY <1>11 DEF SaveAnswers
<1>12. ASSUME NEW x \in 1..runs, PollAnswers(x)
       PROVE  StoreTyped'
  <2>1. x \in Ids
    BY Counted DEF ServerTyped, Ids
  <2>2. canvas' = canvas \/ canvas' = [canvas EXCEPT !.results = x]
    BY <1>12 DEF PollAnswers
  <2> QED
    BY <1>12, <2>1, <2>2 DEF PollAnswers
<1>13. CASE ClearExecResults
  BY <1>13 DEF ClearExecResults
<1>14. CASE UNCHANGED studioVars
  BY <1>14 DEF studioVars
<1> HIDE <1>0, <1>c DEF Kept, Typed, StoreTyped, Made, OnCanvas, storeVars, serverVars, bounds, editOthers
<1> QED
  BY <1>1, <1>2, <1>3, <1>4, <1>5, <1>6, <1>7, <1>8, <1>9, <1>10, <1>11, <1>12, <1>13,
     <1>14 DEF StudioNext

(* The crews on the server. *)
LEMMA ServerStep == StudioAssumption /\ Typed /\ [StudioNext]_studioVars => ServerTyped'
<1> SUFFICES ASSUME StudioAssumption, Typed, [StudioNext]_studioVars
             PROVE  ServerTyped'
  OBVIOUS
<1>0. Kept
  BY FrameStep
<1> USE <1>0 DEF Kept, Typed, ServerTyped, storeVars, serverVars, bounds, editOthers
<1>1. ASSUME NEW c, NEW o, NEW x,
             StatusFades \/ Edit \/ SelectNode \/ SetCrewSettings \/ TypeYaml \/
             ParseYaml \/ HandleAutoLayout \/ OpenAssistant \/ HandleGenerate \/
             CloseDialog \/ ConfirmDiscard \/ HandleSave \/ OpenRunDialog \/
             HandleRun \/ ClearExecResults \/ Leave \/ SetCrewName(c) \/
             HandleLoadExample(c) \/ HandleAssistantApply(c) \/
             HandleLoadCrew(c) \/ LayoutEnds(o) \/ Generated(o) \/ LoadReads(o) \/
             LoadEnds(o) \/ SaveAnswers(o) \/ RequestFails(o) \/
             KickoffAnswers(o) \/ ExecutionEnds(x) \/ PollFires(x) \/
             PollAnswers(x) \/ PollFails(x)
      PROVE  ServerTyped'
  BY <1>1 DEF StatusFades, Edit, SelectNode, SetCrewSettings, TypeYaml, ParseYaml,
         HandleAutoLayout, OpenAssistant, HandleGenerate, CloseDialog,
         ConfirmDiscard, HandleSave, OpenRunDialog, HandleRun, ClearExecResults,
         Leave, SetCrewName, HandleLoadExample, HandleAssistantApply,
         HandleLoadCrew, LayoutEnds, Generated, LoadReads, LoadEnds, SaveAnswers,
         RequestFails, KickoffAnswers, ExecutionEnds, PollFires, PollAnswers,
         PollFails, Depart, DoLoadCrew, StartSave, SetExecutionId, Fails
<1>2. ASSUME NEW o \in flights, ServerKicksOff(o)
      PROVE  ServerTyped'
  BY <1>2, Counted DEF ServerKicksOff
<1>3. ASSUME NEW o \in flights, ServerSaves(o)
      PROVE  ServerTyped'
  <2>1. saved' \in [Crews -> Rows \union {None}]
    BY <1>3, RowSaved
  <2> QED
    BY <1>3, <2>1 DEF ServerSaves, OthersSave
<1>4. ASSUME NEW c \in Crews, OthersSave(c)
      PROVE  ServerTyped'
  <2>1. saved' \in [Crews -> Rows \union {None}]
    BY <1>4, OthersRow
  <2> QED
    BY <1>4, <2>1 DEF ServerSaves, OthersSave
<1>5. CASE UNCHANGED studioVars
  BY <1>5 DEF studioVars
<1> HIDE <1>0 DEF Kept, Typed, ServerTyped, storeVars, serverVars, bounds, editOthers
<1> QED
  BY <1>1, <1>2, <1>3, <1>4, <1>5 DEF StudioNext

(* A kickoff is answered with an execution. *)
LEMMA KickoffId == ASSUME Typed, NEW o \in flights, KickoffAnswers(o)
                   PROVE  o.step \in Ids
BY DEF KickoffAnswers, Kind, Typed, FlightsTyped, FlightTyped

(* The state of the page. *)
LEMMA UiStep == StudioAssumption /\ Typed /\ [StudioNext]_studioVars => UiTyped'
<1> SUFFICES ASSUME StudioAssumption, Typed, [StudioNext]_studioVars
             PROVE  UiTyped'
  OBVIOUS
<1>0. Kept
  BY FrameStep
<1> USE <1>0 DEF Kept, OnServer, Typed, UiTyped, Uis, Statuses, ApplyStatus, storeVars, serverVars, bounds, editOthers
<1>1. ASSUME NEW c, NEW o, NEW x,
             Edit \/ SelectNode \/ SetCrewSettings \/ HandleGenerate \/
             ClearExecResults \/ SetCrewName(c) \/ OthersSave(c) \/
             LoadReads(o) \/ ServerSaves(o) \/ ServerKicksOff(o) \/
             ExecutionEnds(x) \/ PollFires(x) \/ PollAnswers(x) \/ PollFails(x)
      PROVE  UiTyped'
  BY <1>1 DEF Edit, SelectNode, SetCrewSettings, HandleGenerate, ClearExecResults,
         SetCrewName, OthersSave, LoadReads, ServerSaves, ServerKicksOff,
         ExecutionEnds, PollFires, PollAnswers, PollFails, Depart
<1>2. CASE StatusFades
  BY <1>2 DEF StatusFades
<1>3. CASE TypeYaml
  BY <1>3 DEF TypeYaml
<1>4. CASE ParseYaml
  BY <1>4 DEF ParseYaml
<1>5. ASSUME NEW c \in Crews, HandleLoadExample(c)
      PROVE  UiTyped'
  BY <1>5 DEF HandleLoadExample
<1>6. CASE HandleAutoLayout
  BY <1>6 DEF HandleAutoLayout
<1>7. ASSUME NEW o \in flights, LayoutEnds(o)
      PROVE  UiTyped'
  BY <1>7 DEF LayoutEnds
<1>8. CASE OpenAssistant
  BY <1>8 DEF OpenAssistant
<1>9. ASSUME NEW o \in flights, Generated(o)
      PROVE  UiTyped'
  BY <1>9 DEF Generated
<1>10. ASSUME NEW c \in Crews, HandleAssistantApply(c)
       PROVE  UiTyped'
  BY <1>10 DEF HandleAssistantApply
<1>11. CASE CloseDialog
  BY <1>11 DEF CloseDialog
<1>12. CASE ConfirmDiscard
  BY <1>12 DEF ConfirmDiscard, DoLoadCrew
<1>13. ASSUME NEW c \in Crews, HandleLoadCrew(c)
       PROVE  UiTyped'
  <2>1. UNCHANGED saved /\ saved[c] # None
    BY <1>13 DEF HandleLoadCrew, DoLoadCrew
  <2>2. \/ ui' = [ui EXCEPT !.dialog = "discard", !.pending = c]
        \/ ui' = [ui EXCEPT !.status = "loading"] /\ ui.dialog = "none"
    BY <1>13 DEF HandleLoadCrew, DoLoadCrew, Idle
  <2> QED
    BY <1>13, <2>1, <2>2
<1>14. ASSUME NEW o \in flights, LoadEnds(o)
       PROVE  UiTyped'
  BY <1>14 DEF LoadEnds
<1>15. CASE HandleSave
  <2>1. PICK s \in Statuses : ui' = [ui EXCEPT !.status = s]
    BY <1>15 DEF HandleSave, StartSave
  <2>2. UNCHANGED saved
    BY <1>15 DEF HandleSave
  <2> QED
    BY <2>1, <2>2
<1>16. ASSUME NEW o \in flights, SaveAnswers(o)
       PROVE  UiTyped'
  BY <1>16 DEF SaveAnswers
<1>17. ASSUME NEW o \in flights, RequestFails(o)
       PROVE  UiTyped'
  <2>1. UNCHANGED saved
    BY <1>17 DEF RequestFails
  <2>2. CASE o.kind = "generate"
    BY <1>17, <2>1, <2>2 DEF RequestFails, Fails
  <2>3. CASE o.kind = "layout"
    BY <1>17, <2>1, <2>3 DEF RequestFails, Fails
  <2>4. CASE o.kind \notin {"generate", "layout"}
    BY <1>17, <2>1, <2>4 DEF RequestFails, Fails
  <2> QED
    BY <2>2, <2>3, <2>4
<1>18. CASE OpenRunDialog
  BY <1>18 DEF OpenRunDialog
<1>19. CASE HandleRun
  <2>1. PICK s \in Statuses :
           ui' = [[ui EXCEPT !.dialog = "none", !.exec = None] EXCEPT !.status = s]
    BY <1>19 DEF HandleRun, StartSave
  <2> QED
    BY <2>1
<1>20. ASSUME NEW o \in flights, KickoffAnswers(o)
       PROVE  UiTyped'
  <2>1. o.step \in Ids
    BY <1>20, KickoffId
  <2>2. UNCHANGED saved
    BY <1>20 DEF KickoffAnswers
  <2>3. ui' = ui \/ ui' = [ui EXCEPT !.exec = o.step, !.status = "success"]
    BY <1>20 DEF KickoffAnswers
  <2> QED
    BY <2>1, <2>2, <2>3
<1>21. CASE Leave
  BY <1>21 DEF Leave
<1>22. CASE UNCHANGED studioVars
  BY <1>22 DEF studioVars
<1> HIDE <1>0 DEF Kept, OnServer, Typed, UiTyped, Uis, Statuses, ApplyStatus, storeVars, serverVars, bounds, editOthers
<1> QED
  BY <1>1, <1>2, <1>3, <1>4, <1>5, <1>6, <1>7, <1>8, <1>9, <1>10, <1>11, <1>12, <1>13,
     <1>14, <1>15, <1>16, <1>17, <1>18, <1>19, <1>20, <1>21, <1>22 DEF StudioNext

(* The polls. *)
LEMMA PollStep == StudioAssumption /\ Typed /\ [StudioNext]_studioVars => PollTyped'
<1> SUFFICES ASSUME StudioAssumption, Typed, [StudioNext]_studioVars
             PROVE  PollTyped'
  OBVIOUS
<1>0. Kept
  BY FrameStep
<1> USE <1>0 DEF Kept, Typed, PollTyped, storeVars, serverVars, bounds, editOthers
<1>1. ASSUME NEW c, NEW o, NEW x,
             StatusFades \/ Edit \/ SelectNode \/ SetCrewSettings \/ TypeYaml \/
             ParseYaml \/ HandleAutoLayout \/ OpenAssistant \/ HandleGenerate \/
             CloseDialog \/ ConfirmDiscard \/ HandleSave \/ OpenRunDialog \/
             ClearExecResults \/ SetCrewName(c) \/ HandleLoadExample(c) \/
             HandleAssistantApply(c) \/ HandleLoadCrew(c) \/ OthersSave(c) \/
             LayoutEnds(o) \/ Generated(o) \/ LoadReads(o) \/ LoadEnds(o) \/
             ServerSaves(o) \/ SaveAnswers(o) \/ RequestFails(o) \/
             ServerKicksOff(o) \/ ExecutionEnds(x)
      PROVE  PollTyped'
  BY <1>1 DEF StatusFades, Edit, SelectNode, SetCrewSettings, TypeYaml, ParseYaml,
         HandleAutoLayout, OpenAssistant, HandleGenerate, CloseDialog,
         ConfirmDiscard, HandleSave, OpenRunDialog, ClearExecResults,
         SetCrewName, HandleLoadExample, HandleAssistantApply, HandleLoadCrew,
         OthersSave, LayoutEnds, Generated, LoadReads, LoadEnds, ServerSaves,
         SaveAnswers, RequestFails, ServerKicksOff, ExecutionEnds, DoLoadCrew
<1>2. CASE HandleRun
  BY <1>2 DEF HandleRun, SetExecutionId, UiTyped, Uis
<1>3. ASSUME NEW o \in flights, KickoffAnswers(o)
      PROVE  PollTyped'
  <2>1. o.step \in Ids
    BY <1>3, KickoffId
  <2>2. CASE UNCHANGED poll
    BY <1>3, <2>2
  <2>3. CASE SetExecutionId(o.step)
    <3> DEFINE x == o.step
               t == IF x # None THEN {x} ELSE poll.timers \ {ui.exec}
               b == IF x # None THEN FALSE ELSE poll.cancelled \/ ui.exec # None
    <3>1. t \in SUBSET Ids
      BY <2>1
    <3>2. b \in BOOLEAN
      OBVIOUS
    <3>3. poll' = [timers |-> t, calls |-> poll.calls, cancelled |-> b]
      BY <2>3 DEF SetExecutionId
    <3> HIDE DEF t, b
    <3> QED
      BY <3>1, <3>2, <3>3
  <2> QED
    BY <1>3, <2>2, <2>3 DEF KickoffAnswers
<1>4. ASSUME NEW x \in 1..runs, PollFires(x)
      PROVE  PollTyped'
  BY <1>4 DEF PollFires
<1>5. ASSUME NEW x \in 1..runs, PollAnswers(x)
      PROVE  PollTyped'
  BY <1>5 DEF PollAnswers
<1>6. ASSUME NEW x \in 1..runs, PollFails(x)
      PROVE  PollTyped'
  BY <1>6 DEF PollFails
<1>7. CASE Leave
  BY <1>7 DEF Leave
<1>8. CASE UNCHANGED studioVars
  BY <1>8 DEF studioVars
<1> HIDE <1>0 DEF Kept, Typed, PollTyped, storeVars, serverVars, bounds, editOthers
<1> QED
  BY <1>1, <1>2, <1>3, <1>4, <1>5, <1>6, <1>7, <1>8 DEF StudioNext

(* What a flight is stays true of it, and is true of one that leaves, of one *)
(* that is disturbed and of those that are left.                             *)
LEMMA StillTyped == ASSUME Typed, Kept, NEW o, FlightTyped(o)
                    PROVE  FlightTyped(o)'
BY DEF Kept, FlightTyped

LEMMA Departing == ASSUME Typed, NEW kind \in {"save", "load", "layout", "generate"},
                          NEW of \in Crews \union {None}, NEW made \in Graphs, NEW run \in BOOLEAN,
                          kind = "save" => of \in Crews,
                          kind = "load" => OnServer(of)
                   PROVE  FlightTyped(Flight(kind, of, made, run))
<1>1. canvas.results \in Ids \union {None} /\ started \in Nat /\ ui.mount \in Nat
  BY DEF Typed, StoreTyped, UiTyped, Uis, FlightsTyped
<1> QED
  BY <1>1 DEF Flight, FlightTyped, Flights

LEMMA Disturbed == ASSUME NEW o, FlightTyped(o)
                   PROVE  FlightTyped([o EXCEPT !.alone = FALSE])
BY DEF FlightTyped, Flights

LEMMA DepartTyped == ASSUME StudioAssumption, Typed, Kept, NEW f, FlightTyped(f), Depart(f)
                     PROVE  FlightsTyped'
<1>1. started' \in 0..user'.flights
  BY Counted DEF Depart, Kept, Typed, FlightsTyped
<1>2. ASSUME NEW o \in flights'
      PROVE  FlightTyped(o)
  <2>1. o = f \/ o \in flights \/ \E p \in flights : o = [p EXCEPT !.alone = FALSE]
    BY DEF Depart
  <2> QED
    BY <2>1, Disturbed DEF Typed, FlightsTyped
<1> QED
  BY <1>1, <1>2, StillTyped DEF FlightsTyped

LEMMA ReplaceTyped == ASSUME Typed, Kept, UNCHANGED started, NEW g, FlightTyped(g),
                             flights' \subseteq flights \union {g}
                      PROVE  FlightsTyped'
<1>1. \A o \in flights' : FlightTyped(o)
  BY DEF Typed, FlightsTyped
<1> QED
  BY <1>1, StillTyped DEF FlightsTyped, Typed, Kept

LEMMA LeftTyped == ASSUME Typed, Kept, UNCHANGED started, flights' \subseteq flights
                   PROVE  FlightsTyped'
<1>1. \A o \in flights' : FlightTyped(o)
  BY DEF Typed, FlightsTyped
<1> QED
  BY <1>1, StillTyped DEF FlightsTyped, Typed, Kept

(* A crew that is read is a row. *)
LEMMA ReadTyped == ASSUME StudioAssumption, Typed, NEW o \in flights, LoadReads(o)
                   PROVE  /\ FlightTyped([o EXCEPT !.graph.crew = saved[o.of].crew, !.step = 2])
                          /\ FlightTyped([o EXCEPT !.graph.parts = saved[o.of].parts, !.done = TRUE])
<1>1. o.kind = "load" /\ o \in Flights /\ OnServer(o.of)
  BY DEF LoadReads, Kind, Typed, FlightsTyped, FlightTyped
<1>2. saved[o.of] \in Rows
  BY <1>1 DEF OnServer, Typed, ServerTyped
<1>3. /\ [o.graph EXCEPT !.crew = saved[o.of].crew] \in Graphs
      /\ [o.graph EXCEPT !.parts = saved[o.of].parts] \in Graphs
  BY <1>1, <1>2 DEF Rows, Graphs, Flights
<1> QED
  BY <1>1, <1>3 DEF FlightTyped, Flights

(* A save that goes on. *)
LEMMA SavingTyped == ASSUME NEW o, FlightTyped(o), o.kind = "save"
                     PROVE  /\ FlightTyped([o EXCEPT !.done = TRUE])
                            /\ FlightTyped([o EXCEPT !.step = 2, !.done = FALSE])
                            /\ FlightTyped([o EXCEPT !.kind = "kickoff", !.step = 1, !.done = FALSE])
BY DEF FlightTyped, Flights

(* What is in flight. *)
LEMMA FlightsStep == StudioAssumption /\ Typed /\ [StudioNext]_studioVars => FlightsTyped'
<1> SUFFICES ASSUME StudioAssumption, Typed, [StudioNext]_studioVars
             PROVE  FlightsTyped'
  OBVIOUS
<1>0. Kept
  BY FrameStep
<1> USE <1>0
<1>1. ASSUME NEW c, NEW x,
             StatusFades \/ Edit \/ SelectNode \/ SetCrewSettings \/ TypeYaml \/
             ParseYaml \/ OpenAssistant \/ CloseDialog \/ OpenRunDialog \/
             ClearExecResults \/ Leave \/ SetCrewName(c) \/
             HandleLoadExample(c) \/ HandleAssistantApply(c) \/
             ExecutionEnds(x) \/ PollFires(x) \/ PollAnswers(x) \/ PollFails(x)
      PROVE  FlightsTyped'
  <2>1. UNCHANGED <<flights, started>>
    BY <1>1 DEF StatusFades, Edit, SelectNode, SetCrewSettings, TypeYaml, ParseYaml,
           OpenAssistant, CloseDialog, OpenRunDialog, ClearExecResults, Leave,
           SetCrewName, HandleLoadExample, HandleAssistantApply, ExecutionEnds,
           PollFires, PollAnswers, PollFails, SetExecutionId, storeVars,
           serverVars, bounds, editOthers
  <2> QED
    BY <2>1, LeftTyped
<1>2. ASSUME NEW o \in flights,
             LayoutEnds(o) \/ Generated(o) \/ LoadEnds(o) \/ RequestFails(o) \/
             KickoffAnswers(o)
      PROVE  FlightsTyped'
  <2>1. flights' \subseteq flights /\ UNCHANGED started
    BY <1>2 DEF LayoutEnds, Generated, LoadEnds, RequestFails, KickoffAnswers, Fails,
           storeVars, serverVars, bounds, editOthers
  <2> QED
    BY <2>1, LeftTyped
<1>3. CASE HandleAutoLayout
  BY <1>3, Departing, DepartTyped DEF HandleAutoLayout, Typed, StoreTyped
<1>4. CASE HandleGenerate
  BY <1>4, Departing, DepartTyped, Counted DEF HandleGenerate
<1>5. CASE ConfirmDiscard
  <2>1. OnServer(ui.pending)
    BY <1>5 DEF ConfirmDiscard, Typed, UiTyped
  <2> QED
    BY <1>5, <2>1, Departing, DepartTyped, Counted DEF ConfirmDiscard, DoLoadCrew, OnServer
<1>6. ASSUME NEW c \in Crews, HandleLoadCrew(c)
      PROVE  FlightsTyped'
  <2>1. CASE UNCHANGED <<flights, started>>
    BY <2>1, LeftTyped
  <2>2. CASE Depart(Flight("load", c, EmptyGraph, FALSE))
    BY <1>6, <2>2, Departing, DepartTyped, Counted DEF HandleLoadCrew, OnServer
  <2> QED
    BY <1>6, <2>1, <2>2 DEF HandleLoadCrew, DoLoadCrew, editOthers, bounds
<1>7. CASE HandleSave
  <2>1. CASE UNCHANGED <<flights, started>>
    BY <2>1, LeftTyped
  <2>2. CASE Depart(Flight("save", name, canvas.graph, FALSE))
    BY <2>2, Departing, DepartTyped DEF Typed, StoreTyped
  <2> QED
    BY <1>7, <2>1, <2>2 DEF HandleSave, StartSave, bounds
<1>8. CASE HandleRun
  <2>1. CASE UNCHANGED <<flights, started>>
    BY <2>1, LeftTyped
  <2>2. CASE Depart(Flight("save", name, canvas.graph, TRUE))
    BY <2>2, Departing, DepartTyped DEF Typed, StoreTyped
  <2> QED
    BY <1>8, <2>1, <2>2 DEF HandleRun, StartSave, bounds
<1>9. ASSUME NEW o \in flights, LoadReads(o)
      PROVE  FlightsTyped'
  BY <1>9, ReadTyped, ReplaceTyped DEF LoadReads, bounds
<1>10. ASSUME NEW o \in flights, ServerSaves(o)
       PROVE  FlightsTyped'
  <2>1. FlightTyped([o EXCEPT !.done = TRUE])
    BY <1>10, SavingTyped DEF ServerSaves, Kind, Typed, FlightsTyped
  <2> QED
    BY <1>10, <2>1, ReplaceTyped DEF ServerSaves, bounds
<1>11. ASSUME NEW o \in flights, SaveAnswers(o)
       PROVE  FlightsTyped'
  <2>1. /\ FlightTyped([o EXCEPT !.step = 2, !.done = FALSE])
        /\ FlightTyped([o EXCEPT !.kind = "kickoff", !.step = 1, !.done = FALSE])
    BY <1>11, SavingTyped DEF SaveAnswers, Kind, Typed, FlightsTyped
  <2> QED
    BY <1>11, <2>1, ReplaceTyped DEF SaveAnswers, bounds
<1>12. ASSUME NEW o \in flights, ServerKicksOff(o)
       PROVE  FlightsTyped'
  <2>1. runs + 1 \in Ids /\ runs + 1 \in Nat
    BY <1>12, Counted DEF ServerKicksOff, Ids, Typed, ServerTyped
  <2>2. FlightTyped([o EXCEPT !.done = TRUE, !.step = runs + 1])
    BY <1>12, <2>1 DEF ServerKicksOff, Kind, Typed, FlightsTyped, FlightTyped, Flights
  <2> QED
    BY <1>12, <2>2, ReplaceTyped DEF ServerKicksOff, bounds
<1>13. ASSUME NEW c \in Crews, OthersSave(c)
       PROVE  FlightsTyped'
  <2>1. \A o \in flights' : FlightTyped(o)
    BY <1>13, Disturbed DEF OthersSave, Typed, FlightsTyped
  <2> QED
    BY <1>13, <2>1, StillTyped DEF OthersSave, FlightsTyped, Typed, Kept, bounds
<1>14. CASE UNCHANGED studioVars
  BY <1>14, LeftTyped DEF studioVars
<1> QED
  BY <1>1, <1>2, <1>3, <1>4, <1>5, <1>6, <1>7, <1>8, <1>9, <1>10, <1>11, <1>12, <1>13,
     <1>14 DEF StudioNext

(* The types of the state are kept. *)
LEMMA TypedStep == StudioAssumption /\ Typed /\ [StudioNext]_studioVars => Typed'
<1> SUFFICES ASSUME StudioAssumption, Typed, [StudioNext]_studioVars
             PROVE  Typed'
  OBVIOUS
<1>1. user' \in Users
  BY UserStays DEF Typed
<1> QED
  BY <1>1, StoreStep, ServerStep, UiStep, FlightsStep, PollStep DEF Typed

(***************************************************************************)
(* Nothing stays locked: the status line that locks the buttons has a      *)
(* request of the open page behind it.                                     *)
(***************************************************************************)
Behind(status) == CASE status = "saving" -> "save" [] status = "loading" -> "load"
                    [] status = "running" -> "kickoff" [] OTHER -> "none"

Busy(kind) == \E o \in flights : o.kind = kind /\ o.mount = ui.mount

LockInv == ui.status \in {"saving", "loading", "running"} => Busy(Behind(ui.status))

\* Every flight but o, and o too unless it is the one that ends, goes on
\* under its kind and page.
GoesOn(o) == \E p \in flights' : p.kind = o.kind /\ p.mount = o.mount

(* The status stays, or is one that locks nothing. *)
LEMMA Unlocked == ASSUME LockInv,
                         \/ /\ ui'.mount = ui.mount /\ ui'.status = ui.status
                            /\ \A o \in flights :
                                 o.mount = ui.mount /\ o.kind \in {"save", "load", "kickoff"} => GoesOn(o)
                         \/ ui'.status \notin {"saving", "loading", "running"}
                         \/ \E o \in flights' : /\ o.mount = ui'.mount
                                                /\ o.kind = Behind(ui'.status)
                  PROVE  LockInv'
<1>1. CASE ui'.status \notin {"saving", "loading", "running"}
  BY <1>1 DEF LockInv
<1>2. CASE /\ ui'.mount = ui.mount /\ ui'.status = ui.status
           /\ ui.status \in {"saving", "loading", "running"}
           /\ \A o \in flights :
                o.mount = ui.mount /\ o.kind \in {"save", "load", "kickoff"} => GoesOn(o)
  BY <1>2 DEF LockInv, Busy, GoesOn, Behind
<1>3. CASE \E o \in flights' : o.mount = ui'.mount /\ o.kind = Behind(ui'.status)
  BY <1>3 DEF LockInv, Busy
<1> QED
  BY <1>1, <1>2, <1>3

(* The flights that were there go on when one departs; the new one is there. *)
LEMMA DepartGoesOn == ASSUME NEW f, f.kind \in {"save", "load", "layout", "generate"}, Depart(f),
                             \A o \in flights : o \in Flights
                      PROVE  f \in flights' /\ \A o \in flights : GoesOn(o)
<1>1. f \in flights'
  BY DEF Depart
<1>2. ASSUME NEW o \in flights
      PROVE  GoesOn(o)
  <2>1. CASE o \in flights'
    BY <2>1 DEF GoesOn
  <2>2. CASE [o EXCEPT !.alone = FALSE] \in flights'
    <3>1. /\ [o EXCEPT !.alone = FALSE].kind = o.kind
          /\ [o EXCEPT !.alone = FALSE].mount = o.mount
      BY <1>2 DEF Flights
    <3> QED
      BY <2>2, <3>1 DEF GoesOn
  <2> QED
    BY <1>2, <2>1, <2>2 DEF Depart
<1> QED
  BY <1>1, <1>2

(* What a step of a flight leaves of it. *)
LEMMA Alike == ASSUME NEW o \in Flights, NEW v, NEW k
               PROVE  /\ LET g == [o EXCEPT !.graph.crew = v, !.step = 2]
                         IN  g.kind = o.kind /\ g.mount = o.mount
                      /\ LET g == [o EXCEPT !.graph.parts = v, !.done = TRUE]
                         IN  g.kind = o.kind /\ g.mount = o.mount
                      /\ LET g == [o EXCEPT !.done = TRUE]
                         IN  g.kind = o.kind /\ g.mount = o.mount
                      /\ LET g == [o EXCEPT !.step = 2, !.done = FALSE]
                         IN  g.kind = o.kind /\ g.mount = o.mount
                      /\ LET g == [o EXCEPT !.done = TRUE, !.step = k]
                         IN  g.kind = o.kind /\ g.mount = o.mount
BY DEF Flights

(* The status line. *)
LEMMA LockStep == Typed /\ LockInv /\ [StudioNext]_studioVars => LockInv'
<1> SUFFICES ASSUME Typed, LockInv, [StudioNext]_studioVars
             PROVE  LockInv'
  OBVIOUS
<1>t. ui \in Uis /\ \A o \in flights : o \in Flights
  BY DEF Typed, UiTyped, FlightsTyped, FlightTyped
<1> USE LockInv
<1>1. ASSUME NEW c, NEW x,
             Edit \/ SelectNode \/ SetCrewSettings \/ ClearExecResults \/
             SetCrewName(c) \/ ExecutionEnds(x) \/ PollFires(x) \/
             PollAnswers(x) \/ PollFails(x)
      PROVE  LockInv'
  <2>1. UNCHANGED <<ui, flights>>
    BY <1>1 DEF Edit, SelectNode, SetCrewSettings, ClearExecResults, SetCrewName,
            ExecutionEnds, PollFires, PollAnswers, PollFails, SetExecutionId,
            storeVars, serverVars, bounds, editOthers
  <2> QED
    BY <2>1 DEF LockInv, Busy
<1>2. ASSUME TypeYaml \/ ParseYaml \/ OpenAssistant \/ CloseDialog \/
             OpenRunDialog
      PROVE  LockInv'
  <2>1. UNCHANGED flights /\ ui'.status = ui.status /\ ui'.mount = ui.mount
    BY <1>2, <1>t DEF TypeYaml, ParseYaml, OpenAssistant, CloseDialog, OpenRunDialog, Uis,
            storeVars, serverVars, bounds, editOthers
  <2> QED
    BY <2>1 DEF LockInv, Busy
<1>3. CASE StatusFades
  <2>1. ui'.status \notin {"saving", "loading", "running"}
    BY <1>3, <1>t DEF StatusFades, Uis
  <2> QED
    BY <2>1 DEF LockInv
<1>4. ASSUME NEW c \in Crews, HandleLoadExample(c)
      PROVE  LockInv'
  <2>1. ui'.status \notin {"saving", "loading", "running"}
    BY <1>4, <1>t DEF HandleLoadExample, Uis
  <2> QED
    BY <2>1 DEF LockInv
<1>5. ASSUME NEW c \in Crews, HandleAssistantApply(c)
      PROVE  LockInv'
  <2>1. ui'.status \notin {"saving", "loading", "running"}
    BY <1>5, <1>t DEF HandleAssistantApply, Uis
  <2> QED
    BY <2>1 DEF LockInv
<1>6. CASE Leave
  <2>1. ui'.status \notin {"saving", "loading", "running"}
    BY <1>6, <1>t DEF Leave, Uis
  <2> QED
    BY <2>1 DEF LockInv
<1>7. CASE HandleAutoLayout
  BY <1>7, <1>t, Unlocked, DepartGoesOn DEF HandleAutoLayout, Flight, UiTyped, Uis
<1>8. CASE HandleGenerate
  BY <1>8, <1>t, Unlocked, DepartGoesOn DEF HandleGenerate, Flight
<1>9. CASE ConfirmDiscard
  <2> DEFINE f == Flight("load", ui.pending, EmptyGraph, FALSE)
  <2>1. f.kind = "load" /\ f.mount = ui.mount
    BY DEF Flight
  <2>2. f \in flights'
    BY <1>9 DEF ConfirmDiscard, DoLoadCrew, Depart
  <2>3. ui'.status = "loading" /\ ui'.mount = ui.mount
    BY <1>9, <1>t DEF ConfirmDiscard, DoLoadCrew, Uis
  <2> QED
    BY <2>1, <2>2, <2>3, Unlocked DEF Behind
<1>10. ASSUME NEW c \in Crews, HandleLoadCrew(c)
       PROVE  LockInv'
  <2> DEFINE f == Flight("load", c, EmptyGraph, FALSE)
  <2>1. f.kind = "load" /\ f.mount = ui.mount
    BY DEF Flight
  <2>2. CASE dirty
    BY <1>10, <1>t, <2>2, Unlocked DEF HandleLoadCrew, editOthers, Uis, GoesOn
  <2>3. CASE ~dirty
    <3>1. f \in flights'
      BY <1>10, <2>3 DEF HandleLoadCrew, DoLoadCrew, Depart
    <3>2. ui'.status = "loading" /\ ui'.mount = ui.mount
      BY <1>10, <1>t, <2>3 DEF HandleLoadCrew, DoLoadCrew, Uis
    <3> QED
      BY <2>1, <3>1, <3>2, Unlocked DEF Behind
  <2> QED
    BY <2>2, <2>3
<1>11. CASE HandleSave
  <2> DEFINE f == Flight("save", name, canvas.graph, FALSE)
  <2>1. f.kind = "save" /\ f.mount = ui.mount
    BY DEF Flight
  <2>2. CASE canvas.graph = EmptyGraph
    BY <1>11, <1>t, <2>2, Unlocked DEF HandleSave, StartSave, Uis
  <2>3. CASE canvas.graph # EmptyGraph
    <3>1. f \in flights'
      BY <1>11, <2>3 DEF HandleSave, StartSave, Depart
    <3>2. ui'.status = "saving" /\ ui'.mount = ui.mount
      BY <1>11, <1>t, <2>3 DEF HandleSave, StartSave, Uis
    <3> QED
      BY <2>1, <3>1, <3>2, Unlocked DEF Behind
  <2> QED
    BY <2>2, <2>3
<1>12. CASE HandleRun
  <2> DEFINE f == Flight("save", name, canvas.graph, TRUE)
  <2>1. f.kind = "save" /\ f.mount = ui.mount
    BY DEF Flight
  <2>2. CASE canvas.graph = EmptyGraph
    BY <1>12, <1>t, <2>2, Unlocked DEF HandleRun, StartSave, Uis
  <2>3. CASE canvas.graph # EmptyGraph
    <3>1. f \in flights'
      BY <1>12, <2>3 DEF HandleRun, StartSave, Depart
    <3>2. ui'.status = "saving" /\ ui'.mount = ui.mount
      BY <1>12, <1>t, <2>3 DEF HandleRun, StartSave, Uis
    <3> QED
      BY <2>1, <3>1, <3>2, Unlocked DEF Behind
  <2> QED
    BY <2>2, <2>3
<1>13. ASSUME NEW o \in flights, LayoutEnds(o)
       PROVE  LockInv'
  <2>1. o.kind = "layout" /\ \A p \in flights : p # o => GoesOn(p)
    BY <1>13 DEF LayoutEnds, Kind, GoesOn
  <2>2. CASE o.mount = ui.mount
    BY <1>13, <1>t, <2>2, Unlocked DEF LayoutEnds, Uis
  <2>3. CASE o.mount # ui.mount
    BY <1>13, <2>1, <2>3, Unlocked DEF LayoutEnds
  <2> QED
    BY <2>2, <2>3
<1>14. ASSUME NEW o \in flights, Generated(o)
       PROVE  LockInv'
  <2>1. o.kind = "generate" /\ \A p \in flights : p # o => GoesOn(p)
    BY <1>14 DEF Generated, Kind, GoesOn
  <2> QED
    BY <1>14, <1>t, <2>1, Unlocked DEF Generated, Uis
<1>15. ASSUME NEW o \in flights, LoadEnds(o)
       PROVE  LockInv'
  <2>1. \A p \in flights : p # o => GoesOn(p)
    BY <1>15 DEF LoadEnds, GoesOn
  <2> QED
    BY <1>15, <1>t, <2>1, Unlocked DEF LoadEnds, ApplyStatus, Uis
<1>16. ASSUME NEW o \in flights, RequestFails(o)
       PROVE  LockInv'
  <2>1. \A p \in flights : p # o => GoesOn(p)
    BY <1>16 DEF RequestFails, Fails, GoesOn
  <2>2. CASE o.kind = "generate"
    BY <1>16, <2>1, <2>2, Unlocked DEF RequestFails, Fails
  <2>3. CASE o.mount = ui.mount /\ o.kind # "generate"
    BY <1>16, <1>t, <2>3, Unlocked DEF RequestFails, Fails, ApplyStatus, Uis
  <2>4. CASE o.mount # ui.mount /\ o.kind # "generate"
    BY <1>16, <1>t, <2>1, <2>4, Unlocked DEF RequestFails, Fails, ApplyStatus, Uis
  <2> QED
    BY <2>2, <2>3, <2>4
<1>17. ASSUME NEW o \in flights, KickoffAnswers(o)
       PROVE  LockInv'
  <2>1. \A p \in flights : p # o => GoesOn(p)
    BY <1>17 DEF KickoffAnswers, GoesOn
  <2> QED
    BY <1>17, <1>t, <2>1, Unlocked DEF KickoffAnswers, Uis
<1>18. ASSUME NEW o \in flights, LoadReads(o)
       PROVE  LockInv'
  <2>1. \A p \in flights : GoesOn(p)
    <3>1. GoesOn(o)
      <4> DEFINE g == [o EXCEPT !.graph.crew = saved[o.of].crew, !.step = 2]
                 h == [o EXCEPT !.graph.parts = saved[o.of].parts, !.done = TRUE]
      <4>1. g \in flights' \/ h \in flights'
        BY <1>18 DEF LoadReads
      <4>2. g.kind = o.kind /\ g.mount = o.mount /\ h.kind = o.kind /\ h.mount = o.mount
        BY <1>t, Alike
      <4> HIDE DEF g, h
      <4> QED
        BY <4>1, <4>2 DEF GoesOn
    <3> QED
      BY <1>18, <3>1 DEF LoadReads, GoesOn
  <2> QED
    BY <1>18, <2>1, Unlocked DEF LoadReads
<1>19. ASSUME NEW o \in flights, ServerSaves(o)
       PROVE  LockInv'
  <2>1. \A p \in flights : GoesOn(p)
    <3>1. GoesOn(o)
      BY <1>19, <1>t, Alike DEF ServerSaves, GoesOn
    <3> QED
      BY <1>19, <3>1 DEF ServerSaves, GoesOn
  <2> QED
    BY <1>19, <2>1, Unlocked DEF ServerSaves
<1>20. ASSUME NEW o \in flights, SaveAnswers(o)
       PROVE  LockInv'
  <2>1. \A p \in flights : p # o => GoesOn(p)
    BY <1>20 DEF SaveAnswers, GoesOn
  <2>2. CASE o.step = 1
    <3>1. GoesOn(o)
      <4> DEFINE g == [o EXCEPT !.step = 2, !.done = FALSE]
      <4>1. g \in flights'
        BY <1>20, <2>2 DEF SaveAnswers
      <4>2. g.kind = o.kind /\ g.mount = o.mount
        BY <1>t, Alike
      <4> HIDE DEF g
      <4> QED
        BY <4>1, <4>2 DEF GoesOn
    <3> QED
      BY <1>20, <2>1, <2>2, <3>1, Unlocked DEF SaveAnswers
  <2>3. CASE o.step # 1 /\ o.mount # ui.mount
    BY <1>20, <1>t, <2>1, <2>3, Unlocked DEF SaveAnswers, ApplyStatus, Uis
  <2>4. CASE o.step # 1 /\ o.mount = ui.mount /\ ~o.run
    BY <1>20, <1>t, <2>4, Unlocked DEF SaveAnswers, ApplyStatus, Uis
  <2>5. CASE o.step # 1 /\ o.mount = ui.mount /\ o.run
    <3> DEFINE g == [o EXCEPT !.kind = "kickoff", !.step = 1, !.done = FALSE]
    <3>1. g.kind = "kickoff" /\ g.mount = ui.mount
      BY <1>t, <2>5 DEF Flights
    <3>2. g \in flights'
      BY <1>20, <2>5 DEF SaveAnswers
    <3>3. ui'.status = "running" /\ ui'.mount = ui.mount
      BY <1>20, <1>t, <2>5 DEF SaveAnswers, ApplyStatus, Uis
    <3> QED
      BY <3>1, <3>2, <3>3, Unlocked DEF Behind
  <2> QED
    BY <2>2, <2>3, <2>4, <2>5
<1>21. ASSUME NEW o \in flights, ServerKicksOff(o)
       PROVE  LockInv'
  <2>1. \A p \in flights : GoesOn(p)
    <3>1. GoesOn(o)
      BY <1>21, <1>t, Alike DEF ServerKicksOff, GoesOn
    <3> QED
      BY <1>21, <3>1 DEF ServerKicksOff, GoesOn
  <2> QED
    BY <1>21, <2>1, Unlocked DEF ServerKicksOff
<1>22. ASSUME NEW c \in Crews, OthersSave(c)
       PROVE  LockInv'
  <2>1. ASSUME NEW p \in flights
        PROVE  GoesOn(p)
    <3>1. [p EXCEPT !.alone = FALSE] \in flights'
      BY <1>22, <2>1 DEF OthersSave
    <3> QED
      BY <1>t, <2>1, <3>1 DEF Flights, GoesOn
  <2> QED
    BY <1>22, <2>1, Unlocked DEF OthersSave
<1>23. CASE UNCHANGED studioVars
  BY <1>23 DEF studioVars, LockInv, Busy
<1> QED
  BY <1>1, <1>2, <1>3, <1>4, <1>5, <1>6, <1>7, <1>8, <1>9, <1>10, <1>11, <1>12, <1>13,
     <1>14, <1>15, <1>16, <1>17, <1>18, <1>19, <1>20, <1>21, <1>22, <1>23 DEF StudioNext

(***************************************************************************)
(* A run executes what was on the canvas: nothing else writes the crew     *)
(* while its save is alone, so its graph is stored part by part and is     *)
(* still there when the kickoff reads it.                                  *)
(***************************************************************************)
Saves(o) == o.kind \in {"save", "kickoff"} /\ o.alone

\* A save that is alone is the only one.
OnlySave == \A o, f \in flights : o.kind = "save" /\ Saves(f) => f = o

Stored(o, both) ==
    /\ saved[o.of] # None /\ saved[o.of].parts = o.graph.parts
    /\ both => saved[o.of].crew = o.graph.crew

SoFarStored(o) ==
    /\ o.kind = "save" /\ o.alone =>
         /\ o.step \in {1, 2}
         /\ o.done \/ o.step = 2 => Stored(o, o.done /\ o.step = 2)
    /\ o.kind = "kickoff" /\ o.alone /\ ~o.done => Stored(o, TRUE)

SaveInv == OnlySave /\ (\A o \in flights : SoFarStored(o)) /\ RunsWhatWasSaved

(* A flight gives way to g, or to none. *)
LEMMA Replaced == ASSUME SaveInv, NEW o \in flights, NEW g,
                         flights' \subseteq (flights \ {o}) \union {g},
                         Saves(g) => Saves(o),
                         g.kind = "save" => o.kind = "save",
                         g \in flights' => SoFarStored(g)',
                         \A p \in flights \ {o} : SoFarStored(p)',
                         RunsWhatWasSaved'
                  PROVE  SaveInv'
<1>1. ASSUME NEW p \in flights', NEW f \in flights', p.kind = "save", Saves(f)
      PROVE  f = p
  BY <1>1 DEF SaveInv, OnlySave
<1>2. \A p \in flights' : SoFarStored(p)'
  OBVIOUS
<1> QED
  BY <1>1, <1>2 DEF SaveInv, OnlySave, Saves

LEMMA FewerSaves == ASSUME SaveInv, flights' \subseteq flights, UNCHANGED <<saved, ran>>
                    PROVE  SaveInv'
<1>1. \A p \in flights' : SoFarStored(p)'
  BY DEF SaveInv, SoFarStored, Stored
<1> QED
  BY <1>1 DEF SaveInv, OnlySave, Saves, RunsWhatWasSaved

(* Something that is no save departs. *)
LEMMA OtherDeparts == ASSUME SaveInv, UNCHANGED <<saved, ran>>,
                             NEW kind \in {"load", "layout", "generate"}, NEW of, NEW made, NEW run,
                             Depart(Flight(kind, of, made, run))
                      PROVE  SaveInv'
<1> DEFINE f == Flight(kind, of, made, run)
<1>0. f.kind = kind
  BY DEF Flight
<1> HIDE DEF f
<1>1. flights' = {f} \union flights
  BY <1>0 DEF Depart, f
<1>2. \A p \in flights' : SoFarStored(p)'
  BY <1>0, <1>1 DEF SaveInv, SoFarStored, Stored
<1>3. OnlySave'
  BY <1>0, <1>1 DEF SaveInv, OnlySave, Saves
<1> QED
  BY <1>2, <1>3 DEF SaveInv, RunsWhatWasSaved

(* A save departs, and is alone when no other is in flight; or another user *)
(* saves.                                                                   *)
LEMMA AllDisturbed == ASSUME SaveInv, UNCHANGED ran, \A o \in flights' : ~o.alone
                      PROVE  SaveInv'
BY DEF SaveInv, OnlySave, Saves, SoFarStored, RunsWhatWasSaved

LEMMA SaveDeparts == ASSUME SaveInv, UNCHANGED <<saved, ran>>, \A o \in flights : o \in Flights,
                            NEW of, NEW made, NEW run, Depart(Flight("save", of, made, run))
                     PROVE  SaveInv'
<1> DEFINE f == Flight("save", of, made, run)
<1>1. /\ f.kind = "save" /\ f.step = 1 /\ ~f.done
      /\ f.alone <=> \A o \in flights : o.kind # "save"
  BY DEF Flight
<1>2. flights' = {f} \union {[o EXCEPT !.alone = FALSE] : o \in flights}
  BY <1>1 DEF Depart
<1>3. \A o \in flights : /\ ~[o EXCEPT !.alone = FALSE].alone
                         /\ [o EXCEPT !.alone = FALSE].kind = o.kind
  BY DEF Flights
<1> HIDE DEF f
<1>4. ASSUME NEW p \in flights'
      PROVE  SoFarStored(p)'
  <2>1. CASE p = f
    <3>1. p.step \in {1, 2} /\ p.step # 2 /\ ~p.done /\ p.kind # "kickoff"
      BY <1>1, <2>1
    <3> QED
      BY <3>1 DEF SoFarStored, Stored
  <2>2. CASE p # f
    <3>1. ~p.alone
      BY <1>2, <1>3, <2>2
    <3> QED
      BY <3>1 DEF SoFarStored
  <2> QED
    BY <2>1, <2>2
<1>5. ASSUME NEW p \in flights', NEW g \in flights', p.kind = "save", Saves(g)
      PROVE  g = p
  <2>1. g = f
    BY <1>2, <1>3, <1>5 DEF Saves
  <2>2. ASSUME NEW o \in flights, p = [o EXCEPT !.alone = FALSE]
        PROVE  FALSE
    BY <1>1, <1>3, <1>5, <2>1, <2>2 DEF Saves
  <2> QED
    BY <1>2, <2>1, <2>2
<1> QED
  BY <1>4, <1>5 DEF SaveInv, OnlySave, Saves, RunsWhatWasSaved

(* Saves and kickoffs. *)
LEMMA SaveStep == StudioAssumption /\ Typed /\ SaveInv /\ [StudioNext]_studioVars => SaveInv'
<1> SUFFICES ASSUME StudioAssumption, Typed, SaveInv, [StudioNext]_studioVars
             PROVE  SaveInv'
  OBVIOUS
<1>t. \A o \in flights : o \in Flights
  BY DEF Typed, FlightsTyped, FlightTyped
<1> USE SaveInv
<1>1. ASSUME NEW c, NEW x,
             StatusFades \/ Edit \/ SelectNode \/ SetCrewSettings \/ TypeYaml \/
             ParseYaml \/ OpenAssistant \/ CloseDialog \/ OpenRunDialog \/
             ClearExecResults \/ Leave \/ SetCrewName(c) \/
             HandleLoadExample(c) \/ HandleAssistantApply(c) \/
             ExecutionEnds(x) \/ PollFires(x) \/ PollAnswers(x) \/ PollFails(x)
      PROVE  SaveInv'
  <2>1. UNCHANGED <<flights, saved, ran>>
    BY <1>1 DEF StatusFades, Edit, SelectNode, SetCrewSettings, TypeYaml, ParseYaml,
            OpenAssistant, CloseDialog, OpenRunDialog, ClearExecResults, Leave,
            SetCrewName, HandleLoadExample, HandleAssistantApply, ExecutionEnds,
            PollFires, PollAnswers, PollFails, SetExecutionId, storeVars,
            serverVars, bounds, editOthers
  <2> QED
    BY <2>1, FewerSaves
<1>2. ASSUME NEW o \in flights,
             LayoutEnds(o) \/ Generated(o) \/ LoadEnds(o) \/ RequestFails(o) \/
             KickoffAnswers(o)
      PROVE  SaveInv'
  <2>1. flights' \subseteq flights /\ UNCHANGED <<saved, ran>>
    BY <1>2 DEF LayoutEnds, Generated, LoadEnds, RequestFails, KickoffAnswers, Fails,
            storeVars, serverVars, bounds, editOthers
  <2> QED
    BY <2>1, FewerSaves
<1>3. CASE HandleAutoLayout
  BY <1>3, OtherDeparts DEF HandleAutoLayout, serverVars
<1>4. CASE HandleGenerate
  BY <1>4, OtherDeparts DEF HandleGenerate, serverVars
<1>5. CASE ConfirmDiscard
  BY <1>5, OtherDeparts DEF ConfirmDiscard, DoLoadCrew, serverVars
<1>6. ASSUME NEW c \in Crews, HandleLoadCrew(c)
      PROVE  SaveInv'
  <2>2. UNCHANGED <<saved, ran>>
    BY <1>6 DEF HandleLoadCrew, DoLoadCrew, editOthers, serverVars
  <2>3. CASE UNCHANGED flights
    BY <2>2, <2>3, FewerSaves
  <2>4. CASE Depart(Flight("load", c, EmptyGraph, FALSE))
    BY <2>2, <2>4, OtherDeparts
  <2> QED
    BY <1>6, <2>3, <2>4 DEF HandleLoadCrew, DoLoadCrew, editOthers
<1>7. CASE HandleSave
  <2>1. UNCHANGED <<saved, ran>>
    BY <1>7 DEF HandleSave, serverVars
  <2>2. CASE UNCHANGED flights
    BY <2>1, <2>2, FewerSaves
  <2>3. CASE Depart(Flight("save", name, canvas.graph, FALSE))
    BY <1>t, <2>1, <2>3, SaveDeparts
  <2> QED
    BY <1>7, <2>2, <2>3 DEF HandleSave, StartSave
<1>8. CASE HandleRun
  <2>1. UNCHANGED <<saved, ran>>
    BY <1>8 DEF HandleRun, serverVars
  <2>2. CASE UNCHANGED flights
    BY <2>1, <2>2, FewerSaves
  <2>3. CASE Depart(Flight("save", name, canvas.graph, TRUE))
    BY <1>t, <2>1, <2>3, SaveDeparts
  <2> QED
    BY <1>8, <2>2, <2>3 DEF HandleRun, StartSave
<1>9. ASSUME NEW o \in flights, LoadReads(o)
      PROVE  SaveInv'
  <2>1. o.kind = "load" /\ UNCHANGED <<saved, ran>>
    BY <1>9 DEF LoadReads, Kind, serverVars
  <2>2. PICK g : flights' = (flights \ {o}) \union {g} /\ g.kind = "load"
    <3> DEFINE g == [o EXCEPT !.graph.crew = saved[o.of].crew, !.step = 2]
               h == [o EXCEPT !.graph.parts = saved[o.of].parts, !.done = TRUE]
    <3>1. flights' = (flights \ {o}) \union {IF o.step = 1 THEN g ELSE h}
      BY <1>9 DEF LoadReads
    <3>2. g.kind = "load" /\ h.kind = "load"
      BY <1>t, <2>1, Alike
    <3> HIDE DEF g, h
    <3> QED
      BY <3>1, <3>2
  <2>3. \A p \in flights : SoFarStored(p)'
    BY <2>1 DEF SaveInv, SoFarStored, Stored
  <2>4. SoFarStored(g)'
    BY <2>2 DEF SoFarStored
  <2>5. RunsWhatWasSaved'
    BY <2>1 DEF SaveInv, RunsWhatWasSaved
  <2> QED
    BY <2>2, <2>3, <2>4, <2>5, Replaced DEF Saves
<1>10. ASSUME NEW o \in flights, ServerSaves(o)
       PROVE  SaveInv'
  <2> DEFINE g == [o EXCEPT !.done = TRUE]
  <2>1. /\ o.kind = "save" /\ o \in Flights /\ o.of \in Crews
        /\ flights' = (flights \ {o}) \union {g} /\ UNCHANGED ran
    BY <1>10, <1>t DEF ServerSaves, Kind, Typed, FlightsTyped, FlightTyped
  <2>2. /\ g.kind = o.kind /\ g.alone = o.alone /\ g.step = o.step /\ g.done
        /\ g.of = o.of /\ g.graph = o.graph
    BY <2>1 DEF Flights
  <2>3. \A p \in flights \ {o} : SoFarStored(p)'
    BY <2>1 DEF SaveInv, OnlySave, Saves, SoFarStored
  <2>4. SoFarStored(g)'
    <3> SUFFICES ASSUME o.alone
                 PROVE  g.step \in {1, 2} /\ Stored(g, g.step = 2)'
      BY <2>1, <2>2 DEF SoFarStored
    <3>1. /\ o.step \in {1, 2} /\ saved[o.of] \in Rows \union {None}
          /\ o.step = 2 => saved[o.of] # None /\ saved[o.of].parts = o.graph.parts
      BY <2>1 DEF SaveInv, SoFarStored, Stored, Typed, ServerTyped
    <3>2. saved'[o.of] # None
      BY <1>10, RowSaved, Counted
    <3>3. saved'[o.of].parts = o.graph.parts
      BY <1>10, <2>1, <3>1 DEF ServerSaves, Stored, Rows, Typed, ServerTyped
    <3>4. o.step = 2 => saved'[o.of].crew = o.graph.crew
      BY <1>10, <2>1, <3>1 DEF ServerSaves, Rows, Stored, Typed, ServerTyped
    <3> QED
      BY <2>2, <3>1, <3>2, <3>3, <3>4 DEF Stored
  <2>5. RunsWhatWasSaved'
    BY <2>1 DEF SaveInv, RunsWhatWasSaved
  <2> HIDE DEF g
  <2> QED
    BY <2>1, <2>2, <2>3, <2>4, <2>5, Replaced DEF Saves
<1>11. ASSUME NEW o \in flights, SaveAnswers(o)
       PROVE  SaveInv'
  <2> DEFINE g == [o EXCEPT !.step = 2, !.done = FALSE]
             h == [o EXCEPT !.kind = "kickoff", !.step = 1, !.done = FALSE]
  <2>1. /\ o.kind = "save" /\ o.done /\ o \in Flights /\ UNCHANGED <<saved, ran>>
        /\ o.step = 1 => flights' = (flights \ {o}) \union {g}
        /\ o.step # 1 => flights' \subseteq (flights \ {o}) \union {h}
    BY <1>11, <1>t DEF SaveAnswers, Kind, serverVars
  <2>2. \A p \in flights : SoFarStored(p)'
    BY <2>1 DEF SaveInv, SoFarStored, Stored
  <2>3. RunsWhatWasSaved'
    BY <2>1 DEF SaveInv, RunsWhatWasSaved
  <2>4. CASE o.step = 1
    <3>1. /\ g.kind = o.kind /\ g.alone = o.alone /\ g.step = 2 /\ ~g.done
          /\ g.of = o.of /\ g.graph = o.graph
      BY <2>1 DEF Flights
    <3>2. SoFarStored(g)'
      BY <2>1, <2>2, <2>4, <3>1 DEF SoFarStored, Stored
    <3> HIDE DEF g, h
    <3> QED
      BY <2>1, <2>2, <2>3, <2>4, <3>1, <3>2, Replaced DEF Saves
  <2>5. CASE o.step # 1
    <3>1. /\ h.kind = "kickoff" /\ h.alone = o.alone /\ ~h.done
          /\ h.of = o.of /\ h.graph = o.graph
      BY <2>1 DEF Flights
    <3>2. SoFarStored(h)'
      BY <2>1, <2>2, <2>5, <3>1 DEF SoFarStored, Stored
    <3> HIDE DEF g, h
    <3> QED
      BY <2>1, <2>2, <2>3, <2>5, <3>1, <3>2, Replaced DEF Saves
  <2> QED
    BY <2>4, <2>5
<1>12. ASSUME NEW o \in flights, ServerKicksOff(o)
       PROVE  SaveInv'
  <2>1. o.kind = "kickoff" /\ ~o.done /\ o \in Flights /\ UNCHANGED saved
    BY <1>12, <1>t DEF ServerKicksOff, Kind
  <2>2. PICK g : /\ flights' = (flights \ {o}) \union {g}
                 /\ g.kind = o.kind /\ g.alone = o.alone /\ g.done
    <3> DEFINE h == [o EXCEPT !.done = TRUE, !.step = runs + 1]
    <3>1. flights' = (flights \ {o}) \union {h}
      BY <1>12 DEF ServerKicksOff
    <3>2. h.kind = o.kind /\ h.alone = o.alone /\ h.done
      BY <2>1 DEF Flights
    <3> HIDE DEF h
    <3> QED
      BY <3>1, <3>2
  <2>3. \A p \in flights : SoFarStored(p)'
    BY <2>1 DEF SaveInv, SoFarStored, Stored
  <2>4. SoFarStored(g)'
    BY <2>1, <2>2 DEF SoFarStored
  <2>5. RunsWhatWasSaved'
    <3>1. o.alone => Stored(o, TRUE)
      BY <2>1 DEF SaveInv, SoFarStored
    <3>2. ran' = [parts |-> saved[o.of].parts, crew |-> saved[o.of].crew, meant |-> o.graph,
                  alone |-> o.alone]
      BY <1>12 DEF ServerKicksOff
    <3>3. o.graph = [parts |-> o.graph.parts, crew |-> o.graph.crew]
      BY <2>1 DEF Flights, Graphs
    <3> QED
      BY <3>1, <3>2, <3>3 DEF RunsWhatWasSaved, Stored
  <2>6. (Saves(g) => Saves(o)) /\ g.kind # "save"
    BY <2>1, <2>2 DEF Saves
  <2> QED
    BY <2>2, <2>3, <2>4, <2>5, <2>6, Replaced
<1>13. ASSUME NEW c \in Crews, OthersSave(c)
       PROVE  SaveInv'
  <2>1. \A p \in flights' : ~p.alone
    BY <1>13, <1>t DEF OthersSave, Flights
  <2> QED
    BY <1>13, <2>1, AllDisturbed DEF OthersSave
<1>14. CASE UNCHANGED studioVars
  BY <1>14, FewerSaves DEF studioVars
<1> QED
  BY <1>1, <1>2, <1>3, <1>4, <1>5, <1>6, <1>7, <1>8, <1>9, <1>10, <1>11, <1>12, <1>13,
     <1>14 DEF StudioNext

(***************************************************************************)
(* The results are of the execution that the page follows: unless an       *)
(* effect began while a call of an earlier one was in flight, the polls    *)
(* that are not cancelled are of that execution.                           *)
(***************************************************************************)
PollInv == ~revived /\ ~poll.cancelled => poll.calls \union poll.timers \subseteq {ui.exec}

(* The execution followed changes. *)
LEMMA FollowOther == ASSUME Typed, PollInv, NEW x, SetExecutionId(x), ui'.exec = x
                     PROVE  PollInv'
<1> USE DEF SetExecutionId, PollInv, Typed, PollTyped
<1>1. CASE x = None
  BY <1>1
<1>2. CASE x # None
  BY <1>2
<1> QED
  BY <1>1, <1>2

(* The polls and the execution followed. *)
LEMMA PollInvStep == Typed /\ PollInv /\ [StudioNext]_studioVars => PollInv'
<1> SUFFICES ASSUME Typed, PollInv, [StudioNext]_studioVars
             PROVE  PollInv'
  OBVIOUS
<1>t. /\ ui \in Uis
      /\ poll \in [timers : SUBSET Ids, calls : SUBSET Ids, cancelled : BOOLEAN]
  BY DEF Typed, UiTyped, PollTyped
<1> USE PollInv
<1>1. ASSUME NEW c, NEW o, NEW x,
             Edit \/ SelectNode \/ SetCrewSettings \/ HandleGenerate \/
             ClearExecResults \/ SetCrewName(c) \/ OthersSave(c) \/
             LoadReads(o) \/ ServerSaves(o) \/ ServerKicksOff(o) \/
             ExecutionEnds(x)
      PROVE  PollInv'
  <2>1. UNCHANGED <<poll, revived, ui>>
    BY <1>1 DEF Edit, SelectNode, SetCrewSettings, HandleGenerate, ClearExecResults,
            SetCrewName, OthersSave, LoadReads, ServerSaves, ServerKicksOff,
            ExecutionEnds, storeVars, serverVars, bounds, editOthers
  <2> QED
    BY <2>1 DEF PollInv
<1>2. CASE StatusFades
  <2>1. UNCHANGED <<poll, revived>> /\ ui'.exec = ui.exec
    BY <1>2, <1>t DEF StatusFades, Uis, ApplyStatus, storeVars, serverVars, bounds, editOthers
  <2> QED
    BY <2>1 DEF PollInv
<1>3. CASE TypeYaml
  <2>1. UNCHANGED <<poll, revived>> /\ ui'.exec = ui.exec
    BY <1>3, <1>t DEF TypeYaml, Uis, ApplyStatus, storeVars, serverVars, bounds, editOthers
  <2> QED
    BY <2>1 DEF PollInv
<1>4. CASE ParseYaml
  <2>1. UNCHANGED <<poll, revived>> /\ ui'.exec = ui.exec
    BY <1>4, <1>t DEF ParseYaml, Uis, ApplyStatus, storeVars, serverVars, bounds, editOthers
  <2> QED
    BY <2>1 DEF PollInv
<1>5. ASSUME NEW c \in Crews, HandleLoadExample(c)
      PROVE  PollInv'
  <2>1. UNCHANGED <<poll, revived>> /\ ui'.exec = ui.exec
    BY <1>5, <1>t DEF HandleLoadExample, Uis, ApplyStatus, storeVars, serverVars, bounds,
            editOthers
  <2> QED
    BY <2>1 DEF PollInv
<1>6. CASE HandleAutoLayout
  <2>1. UNCHANGED <<poll, revived>> /\ ui'.exec = ui.exec
    BY <1>6, <1>t DEF HandleAutoLayout, Uis, ApplyStatus, storeVars, serverVars, bounds,
            editOthers
  <2> QED
    BY <2>1 DEF PollInv
<1>7. CASE OpenAssistant
  <2>1. UNCHANGED <<poll, revived>> /\ ui'.exec = ui.exec
    BY <1>7, <1>t DEF OpenAssistant, Uis, ApplyStatus, storeVars, serverVars, bounds,
            editOthers
  <2> QED
    BY <2>1 DEF PollInv
<1>8. ASSUME NEW c \in Crews, HandleAssistantApply(c)
      PROVE  PollInv'
  <2>1. UNCHANGED <<poll, revived>> /\ ui'.exec = ui.exec
    BY <1>8, <1>t DEF HandleAssistantApply, Uis, ApplyStatus, storeVars, serverVars, bounds,
            editOthers
  <2> QED
    BY <2>1 DEF PollInv
<1>9. CASE CloseDialog
  <2>1. UNCHANGED <<poll, revived>> /\ ui'.exec = ui.exec
    BY <1>9, <1>t DEF CloseDialog, Uis, ApplyStatus, storeVars, serverVars, bounds, editOthers
  <2> QED
    BY <2>1 DEF PollInv
<1>10. CASE ConfirmDiscard
  <2>1. UNCHANGED <<poll, revived>> /\ ui'.exec = ui.exec
    BY <1>10, <1>t DEF ConfirmDiscard, DoLoadCrew, Uis, ApplyStatus, storeVars, serverVars,
            bounds, editOthers
  <2> QED
    BY <2>1 DEF PollInv
<1>11. ASSUME NEW c \in Crews, HandleLoadCrew(c)
       PROVE  PollInv'
  <2>1. UNCHANGED <<poll, revived>> /\ ui'.exec = ui.exec
    BY <1>11, <1>t DEF HandleLoadCrew, DoLoadCrew, Uis, ApplyStatus, storeVars, serverVars,
            bounds, editOthers
  <2> QED
    BY <2>1 DEF PollInv
<1>12. CASE HandleSave
  <2>1. UNCHANGED <<poll, revived>> /\ ui'.exec = ui.exec
    BY <1>12, <1>t DEF HandleSave, StartSave, Uis, ApplyStatus, storeVars, serverVars, bounds,
            editOthers
  <2> QED
    BY <2>1 DEF PollInv
<1>13. CASE OpenRunDialog
  <2>1. UNCHANGED <<poll, revived>> /\ ui'.exec = ui.exec
    BY <1>13, <1>t DEF OpenRunDialog, Uis, ApplyStatus, storeVars, serverVars, bounds,
            editOthers
  <2> QED
    BY <2>1 DEF PollInv
<1>14. ASSUME NEW o \in flights, LayoutEnds(o)
       PROVE  PollInv'
  <2>1. UNCHANGED <<poll, revived>> /\ ui'.exec = ui.exec
    BY <1>14, <1>t DEF LayoutEnds, Uis, ApplyStatus, storeVars, serverVars, bounds, editOthers
  <2> QED
    BY <2>1 DEF PollInv
<1>15. ASSUME NEW o \in flights, Generated(o)
       PROVE  PollInv'
  <2>1. UNCHANGED <<poll, revived>> /\ ui'.exec = ui.exec
    BY <1>15, <1>t DEF Generated, Uis, ApplyStatus, storeVars, serverVars, bounds, editOthers
  <2> QED
    BY <2>1 DEF PollInv
<1>16. ASSUME NEW o \in flights, LoadEnds(o)
       PROVE  PollInv'
  <2>1. UNCHANGED <<poll, revived>> /\ ui'.exec = ui.exec
    BY <1>16, <1>t DEF LoadEnds, Uis, ApplyStatus, storeVars, serverVars, bounds, editOthers
  <2> QED
    BY <2>1 DEF PollInv
<1>17. ASSUME NEW o \in flights, SaveAnswers(o)
       PROVE  PollInv'
  <2>1. UNCHANGED <<poll, revived>> /\ ui'.exec = ui.exec
    BY <1>17, <1>t DEF SaveAnswers, Uis, ApplyStatus, storeVars, serverVars, bounds, editOthers
  <2> QED
    BY <2>1 DEF PollInv
<1>18. ASSUME NEW o \in flights, RequestFails(o)
       PROVE  PollInv'
  <2>1. UNCHANGED <<poll, revived>> /\ ui'.exec = ui.exec
    BY <1>18, <1>t DEF RequestFails, Fails, Uis, ApplyStatus, storeVars, serverVars, bounds,
            editOthers
  <2> QED
    BY <2>1 DEF PollInv
<1>19. CASE HandleRun
  <2>1. ui'.exec = None
    BY <1>19, <1>t DEF HandleRun, StartSave, Uis
  <2> QED
    BY <1>19, <2>1, FollowOther DEF HandleRun
<1>20. ASSUME NEW o \in flights, KickoffAnswers(o)
       PROVE  PollInv'
  <2>1. CASE o.mount = ui.mount
    <3>1. ui'.exec = o.step
      BY <1>20, <1>t, <2>1 DEF KickoffAnswers, Uis
    <3> QED
      BY <1>20, <2>1, <3>1, FollowOther DEF KickoffAnswers
  <2>2. CASE o.mount # ui.mount
    BY <1>20, <2>2 DEF KickoffAnswers, PollInv
  <2> QED
    BY <2>1, <2>2
<1>21. ASSUME NEW x \in 1..runs, PollFires(x)
       PROVE  PollInv'
  BY <1>21, <1>t DEF PollFires, PollInv, storeVars, serverVars, bounds
<1>22. ASSUME NEW x \in 1..runs, PollAnswers(x)
       PROVE  PollInv'
  BY <1>22, <1>t DEF PollAnswers, PollInv
<1>23. ASSUME NEW x \in 1..runs, PollFails(x)
       PROVE  PollInv'
  BY <1>23, <1>t DEF PollFails, PollInv
<1>24. CASE Leave
  BY <1>24 DEF Leave, PollInv
<1>25. CASE UNCHANGED studioVars
  BY <1>25 DEF studioVars, PollInv
<1> QED
  BY <1>1, <1>2, <1>3, <1>4, <1>5, <1>6, <1>7, <1>8, <1>9, <1>10, <1>11, <1>12, <1>13,
     <1>14, <1>15, <1>16, <1>17, <1>18, <1>19, <1>20, <1>21, <1>22, <1>23, <1>24,
     <1>25 DEF StudioNext

ShownStep ==
    canvas'.results # canvas.results =>
         \/ revived
         \/ canvas'.results \in {None, ui.exec}
         \/ \E o \in Kind("layout") : o.results = canvas'.results

(* What a step shows. *)
LEMMA ShownChanges == Typed /\ PollInv /\ [StudioNext]_studioVars => [ShownStep]_canvas
<1> SUFFICES ASSUME Typed, PollInv, [StudioNext]_studioVars
             PROVE  [ShownStep]_canvas
  OBVIOUS
<1>t. /\ canvas \in [graph : Graphs, results : Ids \union {None}]
      /\ poll \in [timers : SUBSET Ids, calls : SUBSET Ids, cancelled : BOOLEAN]
  BY DEF Typed, StoreTyped, PollTyped
<1> USE PollInv
<1>1. ASSUME NEW c, NEW o, NEW x,
             StatusFades \/ SelectNode \/ SetCrewSettings \/ TypeYaml \/
             HandleAutoLayout \/ OpenAssistant \/ HandleGenerate \/ CloseDialog \/
             ConfirmDiscard \/ HandleSave \/ OpenRunDialog \/ HandleRun \/
             Leave \/ SetCrewName(c) \/ HandleLoadCrew(c) \/ OthersSave(c) \/
             Generated(o) \/ LoadReads(o) \/ ServerSaves(o) \/ SaveAnswers(o) \/
             RequestFails(o) \/ ServerKicksOff(o) \/ KickoffAnswers(o) \/
             ExecutionEnds(x) \/ PollFires(x) \/ PollFails(x)
      PROVE  [ShownStep]_canvas
  <2>1. UNCHANGED canvas
    BY <1>1 DEF StatusFades, SelectNode, SetCrewSettings, TypeYaml, HandleAutoLayout,
            OpenAssistant, HandleGenerate, CloseDialog, ConfirmDiscard, HandleSave,
            OpenRunDialog, HandleRun, Leave, SetCrewName, HandleLoadCrew,
            OthersSave, Generated, LoadReads, ServerSaves, SaveAnswers,
            RequestFails, ServerKicksOff, KickoffAnswers, ExecutionEnds, PollFires,
            PollFails, SetExecutionId, DoLoadCrew, StartSave, Fails, storeVars,
            serverVars, bounds, editOthers
  <2> QED
    BY <2>1
<1>2. CASE Edit
  BY <1>2, <1>t DEF Edit, OnCanvas, ShownStep
<1>3. CASE ParseYaml
  BY <1>3, <1>t DEF ParseYaml, OnCanvas, ShownStep
<1>4. ASSUME NEW c \in Crews, HandleLoadExample(c)
      PROVE  [ShownStep]_canvas
  BY <1>4, <1>t DEF HandleLoadExample, OnCanvas, ShownStep
<1>5. ASSUME NEW c \in Crews, HandleAssistantApply(c)
      PROVE  [ShownStep]_canvas
  BY <1>5, <1>t DEF HandleAssistantApply, OnCanvas, ShownStep
<1>6. ASSUME NEW o \in flights, LayoutEnds(o)
      PROVE  [ShownStep]_canvas
  BY <1>6 DEF LayoutEnds, ShownStep
<1>7. ASSUME NEW o \in flights, LoadEnds(o)
      PROVE  [ShownStep]_canvas
  BY <1>7, <1>t DEF LoadEnds, OnCanvas, ShownStep
<1>8. ASSUME NEW x \in 1..runs, PollAnswers(x)
      PROVE  [ShownStep]_canvas
  BY <1>8, <1>t DEF PollAnswers, PollInv, ShownStep
<1>9. CASE ClearExecResults
  BY <1>9, <1>t DEF ClearExecResults, OnCanvas, ShownStep
<1>10. CASE UNCHANGED studioVars
  BY <1>10 DEF studioVars
<1> QED
  BY <1>1, <1>2, <1>3, <1>4, <1>5, <1>6, <1>7, <1>8, <1>9, <1>10 DEF StudioNext

(***************************************************************************)
(* What is in flight is bounded by what was started.                       *)
(***************************************************************************)
CountInv == IsFiniteSet(flights) /\ Cardinality(flights) <= started

(* A step of a flight puts at most one in its place, a new one adds one. *)
LEMMA NoMore == ASSUME CountInv, started \in Nat, UNCHANGED started,
                       \/ flights' \subseteq flights
                       \/ \E o \in flights : \E g : flights' \subseteq (flights \ {o}) \union {g}
                PROVE  CountInv'
<1>1. CASE flights' \subseteq flights
  BY <1>1, FS_Subset, FS_CardinalityType DEF CountInv
<1>2. ASSUME NEW o \in flights, NEW g, flights' \subseteq (flights \ {o}) \union {g}
      PROVE  CountInv'
  <2>1. /\ IsFiniteSet(flights \ {o})
        /\ Cardinality(flights \ {o}) = Cardinality(flights) - 1
    BY FS_RemoveElement DEF CountInv
  <2>2. /\ IsFiniteSet((flights \ {o}) \union {g})
        /\ Cardinality((flights \ {o}) \union {g}) <= Cardinality(flights)
    <3> DEFINE rest == flights \ {o}
    <3>1. /\ IsFiniteSet(rest \union {g})
          /\ Cardinality(rest \union {g}) <= Cardinality(rest) + 1
      <4> HIDE DEF rest
      <4>1. IsFiniteSet(rest) => Cardinality(rest) \in Nat
        BY FS_CardinalityType
      <4>2. IsFiniteSet(rest)
        BY <2>1 DEF rest
      <4>3. /\ IsFiniteSet(rest \union {g})
            /\ Cardinality(rest \union {g}) =
                 IF g \in rest THEN Cardinality(rest) ELSE Cardinality(rest) + 1
        BY <4>2, FS_AddElement
      <4> QED
        BY <4>1, <4>2, <4>3
    <3>2. Cardinality(flights) \in Nat
      BY FS_CardinalityType DEF CountInv
    <3> QED
      BY <2>1, <3>1, <3>2
  <2> QED
    BY <1>2, <2>2, FS_Subset, FS_CardinalityType DEF CountInv
<1> QED
  BY <1>1, <1>2

(* The disturbed are as many. *)
LEMMA AsMany == ASSUME CountInv
                PROVE  LET muted == {[o EXCEPT !.alone = FALSE] : o \in flights}
                       IN  IsFiniteSet(muted) /\ Cardinality(muted) <= Cardinality(flights)
<1> DEFINE muted == {[o EXCEPT !.alone = FALSE] : o \in flights}
           mute == [o \in flights |-> [o EXCEPT !.alone = FALSE]]
<1>1. mute \in Surjection(flights, muted)
  BY DEF Surjection
<1> QED
  BY <1>1, FS_Surjection DEF CountInv

LEMMA DepartCounts == ASSUME CountInv, started \in Nat, NEW f, Depart(f)
                      PROVE  CountInv'
<1>1. PICK others : /\ flights' = others \union {f}
                    /\ IsFiniteSet(others) /\ Cardinality(others) <= Cardinality(flights)
  <2> DEFINE muted == {[o EXCEPT !.alone = FALSE] : o \in flights}
  <2>1. IsFiniteSet(muted) /\ Cardinality(muted) <= Cardinality(flights)
    BY AsMany
  <2>2. IsFiniteSet(flights) /\ Cardinality(flights) \in Nat
    BY FS_CardinalityType DEF CountInv
  <2>3. flights' = flights \union {f} \/ flights' = muted \union {f}
    BY DEF Depart
  <2> HIDE DEF muted
  <2> QED
    BY <2>1, <2>2, <2>3
<1>2. IsFiniteSet(flights') /\ Cardinality(flights') <= Cardinality(flights) + 1
  <2>1. Cardinality(others) \in Nat /\ Cardinality(flights) \in Nat
    BY <1>1, FS_CardinalityType DEF CountInv
  <2>2. /\ IsFiniteSet(others \union {f})
        /\ Cardinality(others \union {f}) =
             IF f \in others THEN Cardinality(others) ELSE Cardinality(others) + 1
    BY <1>1, FS_AddElement
  <2> QED
    BY <1>1, <2>1, <2>2
<1> QED
  BY <1>2, FS_CardinalityType DEF CountInv, Depart

(* The number in flight. *)
LEMMA CountStep == StudioAssumption /\ Typed /\ CountInv /\ [StudioNext]_studioVars => CountInv'
<1> SUFFICES ASSUME StudioAssumption, Typed, CountInv, [StudioNext]_studioVars
             PROVE  CountInv'
  OBVIOUS
<1>t. started \in Nat
  BY Counted DEF Typed, FlightsTyped
<1> USE CountInv
<1>1. ASSUME NEW c, NEW x,
             StatusFades \/ Edit \/ SelectNode \/ SetCrewSettings \/ TypeYaml \/
             ParseYaml \/ OpenAssistant \/ CloseDialog \/ OpenRunDialog \/
             ClearExecResults \/ Leave \/ SetCrewName(c) \/
             HandleLoadExample(c) \/ HandleAssistantApply(c) \/
             ExecutionEnds(x) \/ PollFires(x) \/ PollAnswers(x) \/ PollFails(x)
      PROVE  CountInv'
  <2>1. UNCHANGED <<flights, started>>
    BY <1>1 DEF StatusFades, Edit, SelectNode, SetCrewSettings, TypeYaml, ParseYaml,
            OpenAssistant, CloseDialog, OpenRunDialog, ClearExecResults, Leave,
            SetCrewName, HandleLoadExample, HandleAssistantApply, ExecutionEnds,
            PollFires, PollAnswers, PollFails, SetExecutionId, storeVars,
            serverVars, bounds, editOthers
  <2> QED
    BY <1>t, <2>1, NoMore
<1>2. ASSUME NEW o \in flights,
             LayoutEnds(o) \/ Generated(o) \/ LoadEnds(o) \/ RequestFails(o) \/
             KickoffAnswers(o)
      PROVE  CountInv'
  <2>1. flights' \subseteq flights /\ UNCHANGED started
    BY <1>2 DEF LayoutEnds, Generated, LoadEnds, RequestFails, KickoffAnswers, Fails,
            storeVars, serverVars, bounds, editOthers
  <2> QED
    BY <1>t, <2>1, NoMore
<1>3. CASE HandleAutoLayout
  BY <1>3, <1>t, DepartCounts DEF HandleAutoLayout
<1>4. CASE HandleGenerate
  BY <1>4, <1>t, DepartCounts DEF HandleGenerate
<1>5. CASE ConfirmDiscard
  BY <1>5, <1>t, DepartCounts DEF ConfirmDiscard, DoLoadCrew
<1>6. ASSUME NEW c \in Crews, HandleLoadCrew(c)
      PROVE  CountInv'
  BY <1>6, <1>t, DepartCounts, NoMore DEF HandleLoadCrew, DoLoadCrew, editOthers, bounds
<1>7. CASE HandleSave
  BY <1>7, <1>t, DepartCounts, NoMore DEF HandleSave, StartSave, bounds
<1>8. CASE HandleRun
  BY <1>8, <1>t, DepartCounts, NoMore DEF HandleRun, StartSave, bounds
<1>9. ASSUME NEW o \in flights, LoadReads(o)
      PROVE  CountInv'
  BY <1>9, <1>t, NoMore DEF LoadReads, bounds
<1>10. ASSUME NEW o \in flights, ServerSaves(o)
       PROVE  CountInv'
  BY <1>10, <1>t, NoMore DEF ServerSaves, bounds
<1>11. ASSUME NEW o \in flights, SaveAnswers(o)
       PROVE  CountInv'
  <2>1. \E g : flights' \subseteq (flights \ {o}) \union {g}
    BY <1>11 DEF SaveAnswers
  <2> QED
    BY <1>11, <1>t, <2>1, NoMore DEF SaveAnswers, bounds
<1>12. ASSUME NEW o \in flights, ServerKicksOff(o)
       PROVE  CountInv'
  BY <1>12, <1>t, NoMore DEF ServerKicksOff, bounds
<1>13. ASSUME NEW c \in Crews, OthersSave(c)
       PROVE  CountInv'
  BY <1>13, <1>t, AsMany, FS_CardinalityType DEF OthersSave, CountInv, bounds
<1>14. CASE UNCHANGED studioVars
  BY <1>14, <1>t, NoMore DEF studioVars
<1> QED
  BY <1>1, <1>2, <1>3, <1>4, <1>5, <1>6, <1>7, <1>8, <1>9, <1>10, <1>11, <1>12, <1>13,
     <1>14 DEF StudioNext

(***************************************************************************)
(* The invariant, and the theorems.                                        *)
(***************************************************************************)
StudioInv == Typed /\ LockInv /\ SaveInv /\ PollInv /\ CountInv

LEMMA InitInv == StudioAssumption /\ StudioInit => StudioInv
<1> SUFFICES ASSUME StudioAssumption, NEW u \in Users, NEW c \in Crews, StudioInitOf(u, c)
             PROVE  StudioInv
  BY DEF StudioInit
<1> USE DEF StudioInitOf
<1>1. user.edits \in Nat /\ user.flights \in Nat /\ user.runs \in Nat
  BY DEF StudioAssumption
<1>2. EmptyGraph \in Graphs
  BY <1>1 DEF EmptyGraph, Graphs
<1>3. StoreTyped
  <2>1. canvas \in [graph : Graphs, results : Ids \union {None}]
    BY <1>2 DEF OnCanvas
  <2>2. 0 \in 0..user.edits
    BY <1>1
  <2> QED
    BY <2>1, <2>2 DEF StoreTyped
<1>4. ServerTyped /\ FlightsTyped /\ PollTyped
  BY <1>1 DEF ServerTyped, FlightsTyped, PollTyped
<1>5. UiTyped
  BY DEF UiTyped, Uis, Statuses
<1>6. Typed
  BY <1>3, <1>4, <1>5 DEF Typed
<1>7. LockInv
  BY DEF LockInv
<1>8. SaveInv
  BY DEF SaveInv, OnlySave, RunsWhatWasSaved
<1>9. PollInv
  BY DEF PollInv
<1>10. CountInv
  BY FS_EmptySet DEF CountInv
<1> QED
  BY <1>6, <1>7, <1>8, <1>9, <1>10 DEF StudioInv

LEMMA InvStep == StudioAssumption /\ StudioInv /\ [StudioNext]_studioVars => StudioInv'
BY TypedStep, LockStep, SaveStep, PollInvStep, CountStep DEF StudioInv

LEMMA InvHolds == ASSUME StudioAssumption
                  PROVE  StudioSpec => []StudioInv
<1>1. StudioInit => StudioInv
  BY InitInv
<1>2. StudioInv /\ [StudioNext]_studioVars => StudioInv'
  BY InvStep
<1> QED
  BY <1>1, <1>2, PTL DEF StudioSpec

(* What the page shows and keeps is of its types, and no more is in flight *)
(* than was started (pages/Studio.tsx, the state of the page and of        *)
(* useStudioStore).                                                        *)
THEOREM StudioTypeCorrect == ASSUME StudioAssumption
                             PROVE  StudioSpec => []StudioTypeOK
<1>1. ASSUME StudioInv
      PROVE  StudioTypeOK
  <2>1. Cardinality(flights) <= user.flights
    BY <1>1, Counted, FS_CardinalityType DEF StudioInv, CountInv, Typed, FlightsTyped
  <2> QED
    BY <1>1, <2>1 DEF StudioInv, Typed, StoreTyped, UiTyped, Uis, Statuses, Graphs, Ids, StudioTypeOK
<1>2. StudioInv => StudioTypeOK
  BY <1>1
<1> QED
  BY <1>2, InvHolds, PTL

(* The status line locks the buttons only while the request that will      *)
(* unlock them is in flight: no late answer, failure or change of page     *)
(* leaves the page locked (handleSave, doLoadCrew, handleRun).             *)
THEOREM NothingStaysLocked == ASSUME StudioAssumption
                              PROVE  StudioSpec => []LockedOnlyWhileBusy
<1>1. StudioInv => LockedOnlyWhileBusy
  BY DEF StudioInv, LockInv, Busy, Behind, LockedOnlyWhileBusy, Kind
<1> QED
  BY <1>1, InvHolds, PTL

(* A run executes the graph of the click, whatever was edited, loaded or   *)
(* renamed while its save was in flight, if no other save of a crew was in *)
(* flight with it (handleRun, saveCrew).                                   *)
THEOREM RunsAreOfTheClick == ASSUME StudioAssumption
                             PROVE  StudioSpec => []RunsWhatWasSaved
<1>1. StudioInv => RunsWhatWasSaved
  BY DEF StudioInv, SaveInv
<1> QED
  BY <1>1, InvHolds, PTL

(* Results appear only of the execution that the page follows, unless a    *)
(* poll of an earlier one was in flight as it began (pollCancelledRef), or *)
(* of the layout that ends (the effect that polls, handleAutoLayout).      *)
THEOREM ResultsAreOfTheRun == ASSUME StudioAssumption
                              PROVE  StudioSpec => ResultsOfLastRun
<1>1. StudioInv /\ [StudioNext]_studioVars => [ShownStep]_canvas
  BY ShownChanges DEF StudioInv
<1>2. StudioSpec => [][ShownStep]_canvas
  BY <1>1, InvHolds, PTL DEF StudioSpec
<1> QED
  BY <1>2 DEF ResultsOfLastRun, ShownStep
==============================================================================
