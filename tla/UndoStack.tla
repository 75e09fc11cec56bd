----------------------------- MODULE UndoStack -----------------------------
(***************************************************************************)
(* What an editor's undo and redo promise, whatever keeps the history: the *)
(* documents that undo goes back through, the one on display, and those    *)
(* redo goes forward through.  StudioHistory implements it.                *)
(***************************************************************************)
EXTENDS Sequences, SequencesExt

VARIABLES
    past, now, future,
    full,     \* the history has no room left
    exact     \* no unrecorded change was made in the middle of the history

stack == <<past, now, future>>

\* The oldest document is forgotten when there is no room.
Remembered(p) == past' = p \/ (full /\ p # <<>> /\ past' = Tail(p))

Edit ==
    /\ Remembered(Append(past, now))
    /\ future' = <<>>

\* A change too small for a step of its own, or that turns out to be none.
Amend ==
    /\ Remembered(past)
    /\ future' = <<>>

Undo ==
    /\ past # <<>>
    /\ now' = Last(past)
    /\ Remembered(Front(past))
    /\ future' = <<now>> \o future

Redo ==
    /\ future # <<>>
    /\ now' = Head(future)
    /\ past' = Append(past, now)
    /\ future' = Tail(future)

\* The page is loaded again: the document stays.
Restart ==
    /\ now' = now
    /\ past' = <<>> /\ future' = <<>>

Steps == Restart \/ Edit \/ Amend \/ Undo \/ Redo
Broken == ~exact \/ ~exact'

Init == past = <<>> /\ future = <<>> /\ exact = TRUE
Spec == Init /\ [][Broken \/ Steps]_stack
=============================================================================
