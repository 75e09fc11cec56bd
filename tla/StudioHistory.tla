--------------------------- MODULE StudioHistory ---------------------------
(***************************************************************************)
(* Undo and redo in the studio (stores/studioStore.ts) under the gestures  *)
(* of the canvas, the node menu, the property panel and the YAML editor.   *)
(* A document is the graph; every edit makes one that never was before, a  *)
(* drag moves nodes before the end of the drag is recorded.                *)
(***************************************************************************)
EXTENDS Integers, Sequences, SequencesExt

CONSTANTS
    MAX_HISTORY, \* snapshots kept
    MaxDocs      \* bound: documents made

\* What the proofs assume: a history has room for a snapshot.
HistoryAssumption == MAX_HISTORY \in Nat \ {0} /\ MaxDocs \in Nat

VARIABLES
    st,          \* the store: doc, history, index, liveDirty, canUndo, canRedo
    recent,      \* less than half a second since the panel recorded a snapshot
    gesture,     \* a node is being dragged, or the edges of one were deleted
    docs,        \* documents made so far
    recorded     \* no change in the middle of the history went unrecorded

historyVars == <<st, recent, gesture, docs, recorded>>

Fresh == docs + 1

\* Mutant: what followed the index is kept.
PushHistory_KeepsRedo(s) ==
    LET all == Append(s.hist, s.doc)
        kept == IF Len(all) > MAX_HISTORY THEN Tail(all) ELSE all
    IN  [s EXCEPT !.hist = kept, !.idx = Len(kept), !.canUndo = TRUE, !.canRedo = FALSE]

\* pushHistory: the document before the change, over what followed it.
PushHistory(s) ==
    LET all == Append(SubSeq(s.hist, 1, s.idx), s.doc)
        kept == IF Len(all) > MAX_HISTORY THEN Tail(all) ELSE all
    IN  [s EXCEPT !.hist = kept, !.idx = Len(kept), !.canUndo = TRUE, !.canRedo = FALSE]

AtTip(s) == s.idx = Len(s.hist)

\* setNodes, setEdges, and changes that are not structural: nothing recorded.
Amend(s, d) == [s EXCEPT !.doc = d, !.live = TRUE]

\* onConnect, addNode, removeNode.
Change(s, d) == Amend(PushHistory(s), d)

OnNodesChange(s, structural, d) == IF structural THEN Change(s, d) ELSE Amend(s, d)
OnEdgesChange(s, structural, d) == IF structural THEN Change(s, d) ELSE Amend(s, d)

\* Indices count from 1: 0 is the historyIndex -1 of an empty history.
Restore(s, hist, i) ==
    [s EXCEPT !.hist = hist, !.idx = i, !.doc = hist[i], !.live = FALSE,
              !.canUndo = i >= 2, !.canRedo = i < Len(hist)]

\* undo: at the end of the history the document on display is captured, for
\* redo to come back to it.
UndoOf(s) ==
    LET all == Append(s.hist, s.doc)
        kept == IF Len(all) > MAX_HISTORY THEN Tail(all) ELSE all
    IN  CASE s.idx = 0 -> s
          [] s.idx # 0 /\ AtTip(s) /\ s.live ->
               IF Len(kept) = 1 THEN s ELSE Restore(s, kept, Len(kept) - 1)
          [] OTHER -> IF s.idx = 1 THEN s ELSE Restore(s, s.hist, s.idx - 1)

RedoOf(s) ==
    IF AtTip(s) THEN s
    ELSE [Restore(s, s.hist, s.idx + 1) EXCEPT !.canUndo = TRUE]

HistoryInit ==
    /\ st = [doc |-> 0, hist |-> <<>>, idx |-> 0, live |-> FALSE,
             canUndo |-> FALSE, canRedo |-> FALSE]
    /\ recent = FALSE /\ gesture = "none" /\ docs = 0 /\ recorded = TRUE

\* A change that is recorded makes up for those that were not.
Recorded(s) ==
    /\ st' = s
    /\ recorded' = TRUE
    /\ UNCHANGED <<recent, gesture>>

Unrecorded(s) ==
    /\ st' = s
    /\ recorded' = (recorded /\ (AtTip(st) \/ s.doc = st.doc))

Make(n) == docs + n <= MaxDocs /\ docs' = docs + n

(***************************************************************************)
(* Gestures.                                                               *)
(***************************************************************************)
HandleConnect == Make(1) /\ Recorded(Change(st, Fresh))
OnDrop == Make(1) /\ Recorded(Change(st, Fresh))

HandleDuplicate == Make(1) /\ Recorded(Change(st, Fresh))
HandleDelete == Make(1) /\ Recorded(Change(st, Fresh))

\* The Delete key removes the edges of a node, if it has some, and then the
\* node, before anything else happens: two snapshots.
DeleteEdges ==
    /\ Make(1)
    /\ st' = OnEdgesChange(st, TRUE, Fresh)
    /\ recorded' = TRUE
    /\ gesture' = "delete"
    /\ UNCHANGED recent

DeleteNode ==
    /\ Make(1)
    /\ st' = OnNodesChange(st, TRUE, Fresh)
    /\ recorded' = TRUE
    /\ gesture' = "none"
    /\ UNCHANGED recent

\* Selecting and measuring change nodes too.
SelectNode ==
    /\ Unrecorded(OnNodesChange(st, FALSE, st.doc))
    /\ UNCHANGED <<recent, gesture, docs>>

Drag ==
    /\ Make(1)
    /\ Unrecorded(OnNodesChange(st, FALSE, Fresh))
    /\ gesture' = "drag"
    /\ UNCHANGED recent

\* The snapshot of the end of a drag already has the node where it ends.
DragEnd ==
    /\ gesture = "drag"
    /\ st' = OnNodesChange(st, TRUE, st.doc)
    /\ recorded' = TRUE
    /\ gesture' = "none"
    /\ UNCHANGED <<recent, docs>>

\* updateNodeData: one snapshot for what is typed in half a second.
UpdateNodeData ==
    /\ Make(1)
    /\ IF recent THEN Unrecorded(Amend(st, Fresh)) /\ UNCHANGED <<recent, gesture>>
       ELSE /\ st' = Change(st, Fresh)
            /\ recent' = TRUE /\ recorded' = TRUE
            /\ UNCHANGED gesture

HalfSecondPasses ==
    /\ recent
    /\ recent' = FALSE
    /\ UNCHANGED <<st, gesture, docs, recorded>>

\* setNodes and setEdges: a crew or the example is loaded, a layout or the
\* assistant's crew applied, YAML typed, results shown, a remote change made.
SetGraph ==
    /\ Make(1)
    /\ Unrecorded(Amend(st, Fresh))
    /\ UNCHANGED <<recent, gesture>>

\* The buttons are there when the flags say so, the keys always.
Undo ==
    /\ st' = UndoOf(st)
    /\ UNCHANGED <<recent, gesture, docs, recorded>>

Redo ==
    /\ st' = RedoOf(st)
    /\ UNCHANGED <<recent, gesture, docs, recorded>>

\* The document is persisted, the history is not.
LoadPageAgain ==
    /\ st' = [doc |-> st.doc, hist |-> <<>>, idx |-> 0, live |-> FALSE,
              canUndo |-> FALSE, canRedo |-> FALSE]
    /\ recent' = FALSE /\ gesture' = "none" /\ recorded' = TRUE
    /\ UNCHANGED docs

HistoryNext ==
    \/ DeleteNode
    \/ /\ gesture # "delete"
       /\ \/ HandleConnect \/ OnDrop \/ HandleDuplicate \/ HandleDelete \/ DeleteEdges
          \/ SelectNode \/ Drag \/ DragEnd \/ UpdateNodeData \/ SetGraph
          \/ HalfSecondPasses \/ Undo \/ Redo \/ LoadPageAgain

HistorySpec == HistoryInit /\ [][HistoryNext]_historyVars

(***************************************************************************)
(* Properties.  Documents that follow each other in the history without a  *)
(* difference are one: going from one to the other shows nothing.          *)
(***************************************************************************)
Dedup(s) ==
    LET upto[i \in 0..Len(s)] ==
            IF i = 0 THEN <<>>
            ELSE IF i > 1 /\ s[i - 1] = s[i] THEN upto[i - 1] ELSE Append(upto[i - 1], s[i])
    IN  upto[Len(s)]

Past == LET before == IF AtTip(st) /\ st.live THEN st.idx ELSE st.idx - 1
        IN  Front(Dedup(Append(SubSeq(st.hist, 1, before), st.doc)))
Future == Tail(Dedup(<<st.doc>> \o SubSeq(st.hist, st.idx + 1, Len(st.hist))))

U == INSTANCE UndoStack WITH past <- Past, now <- st.doc, future <- Future,
                             full <- Len(st.hist) = MAX_HISTORY, exact <- recorded

\* The store is an undo stack: undo and redo go through the documents that
\* were on display, in order, and lose none but the oldest when the history
\* is full; until an unrecorded change is made in the middle of the history
\* (the condition liveDirty of undo holds at its end only).
IsUndoStack == U!Spec

HistoryTypeOK ==
    /\ st.hist \in UNION {[1..n -> 0..MaxDocs] : n \in 0..MAX_HISTORY}
    /\ st.idx \in 0..Len(st.hist) /\ st.doc \in 0..docs
    /\ docs \in 0..MaxDocs
=============================================================================
