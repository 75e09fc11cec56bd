------------------------------ MODULE ChatPage ------------------------------
(***************************************************************************)
(* The chat page (pages/Chat.tsx): a turn is a request whose answer is     *)
(* streamed, put on display once per animation frame, and stopped, cleared *)
(* or broken off in the middle.  Aborting rejects the read that is awaited *)
(* before any other event is handled: the catch and finally blocks belong  *)
(* to the step that aborts.                                                *)
(***************************************************************************)
EXTENDS Integers, FiniteSets

CONSTANTS
    None,          \* stands for null
    MaxTurns,      \* bound: messages sent
    MaxChunks      \* bound: parts of an answer

\* The bounds are numbers.
ChatBounds == MaxTurns \in Nat /\ MaxChunks \in Nat

VARIABLES
    talk,          \* the answers on display
    sending,       \* the flag that locks the form
    streams,       \* turns whose handler has not ended: what it accumulated
    abortRef,      \* the turn Stop aborts
    turns          \* turns so far

chatVars == <<talk, sending, streams, abortRef, turns>>

\* streaming: the cursor is shown; shown: parts on display; fate: how it
\* ended, "going" while the handler reads.
Answer(n) == [n |-> n, streaming |-> TRUE, shown |-> 0, got |-> 0, fate |-> "going"]
Stream(n) == [n |-> n, got |-> 0, raf |-> FALSE, done |-> FALSE]

ChatInit ==
    /\ talk = {} /\ sending = FALSE /\ streams = {} /\ abortRef = None /\ turns = 0

\* setMessages for the message of a turn, if it is still there.
Message(n, change(_)) == {IF m.n = n THEN change(m) ELSE m : m \in talk}
Ended(n, got, fate) ==
    Message(n, LAMBDA m : [m EXCEPT !.streaming = FALSE, !.shown = got, !.fate = fate])

\* finally: whatever turn is under way by then.
Finally == sending' = FALSE /\ abortRef' = None

\* handleSend: the answers on display go with the message.
HandleSend ==
    /\ ~sending /\ turns < MaxTurns
    /\ turns' = turns + 1
    /\ talk' = talk \union {Answer(turns + 1)}
    /\ streams' = streams \union {Stream(turns + 1)}
    /\ sending' = TRUE /\ abortRef' = turns + 1

\* A part of the answer is put on display by the next frame.
Chunk(s) ==
    /\ s \in streams /\ ~s.done /\ s.got < MaxChunks
    /\ streams' = (streams \ {s}) \union {[s EXCEPT !.got = @ + 1, !.raf = TRUE]}
    /\ talk' = Message(s.n, LAMBDA m : [m EXCEPT !.got = s.got + 1])
    /\ UNCHANGED <<sending, abortRef, turns>>

FlushContent(s) ==
    /\ s \in streams /\ s.raf
    /\ streams' = (streams \ {s}) \union {[s EXCEPT !.raf = FALSE]}
    /\ talk' = Message(s.n, LAMBDA m : [m EXCEPT !.shown = s.got])
    /\ UNCHANGED <<sending, abortRef, turns>>

\* Mutant: the frame is cancelled and nothing shows what it would have.
DoneEvent_NoFlush(s) ==
    /\ s \in streams /\ ~s.done
    /\ streams' = (streams \ {s}) \union {[s EXCEPT !.done = TRUE, !.raf = FALSE]}
    /\ talk' = Message(s.n, LAMBDA m : [m EXCEPT !.streaming = FALSE, !.fate = "done"])
    /\ UNCHANGED <<sending, abortRef, turns>>

\* The last event; the reader goes on to the end of the body.
DoneEvent(s) ==
    /\ s \in streams /\ ~s.done
    /\ streams' = (streams \ {s}) \union {[s EXCEPT !.done = TRUE, !.raf = FALSE]}
    /\ talk' = Ended(s.n, s.got, "done")
    /\ UNCHANGED <<sending, abortRef, turns>>

\* An error event, an HTTP error, or a connection that breaks.
TurnFails(s) ==
    /\ s \in streams
    /\ streams' = streams \ {s}
    /\ talk' = Ended(s.n, s.got, "error")
    /\ Finally
    /\ UNCHANGED turns

\* The end of the body.  Without a last event the cursor stays; a pending
\* frame still shows what came.
BodyEnds(s) ==
    /\ s \in streams
    /\ streams' = streams \ {s}
    /\ talk' = IF s.done THEN talk
               ELSE Message(s.n, LAMBDA m : [m EXCEPT !.fate = "cut", !.shown = s.got])
    /\ Finally
    /\ UNCHANGED turns

\* abortRef.current.abort().
Surviving == {s \in streams : s.n # abortRef}

\* handleStop: what came after the last frame is not shown.
HandleStop ==
    /\ sending
    /\ streams' = Surviving
    /\ talk' = {IF m.streaming
                THEN [m EXCEPT !.streaming = FALSE,
                               !.fate = IF @ = "going" THEN "stopped" ELSE @] ELSE m : m \in talk}
    /\ Finally
    /\ UNCHANGED turns

\* handleClear, after a confirmation; leaving the page does the same.
HandleClear ==
    /\ talk # {}
    /\ streams' = Surviving
    /\ talk' = {} /\ Finally
    /\ UNCHANGED turns

ChatNext ==
    \/ HandleSend \/ HandleStop \/ HandleClear
    \/ \E s \in streams : Chunk(s) \/ FlushContent(s) \/ DoneEvent(s) \/ TurnFails(s) \/ BodyEnds(s)

ChatSpec == ChatInit /\ [][ChatNext]_chatVars

(***************************************************************************)
(* Properties.                                                             *)
(***************************************************************************)
ChatTypeOK ==
    /\ sending \in BOOLEAN /\ turns \in 0..MaxTurns /\ abortRef \in 0..MaxTurns \union {None}
    /\ \A m \in talk : m.n \in 1..turns /\ m.shown <= m.got /\ m.got <= MaxChunks

\* The form is unlocked when, and only when, no turn is under way; by then
\* every answer is shown whole, except one that was stopped, and none still
\* shows the cursor, except one whose body ended without its last event.
\* The next turn then goes out with whole answers.
TurnsSettle ==
    /\ sending = (streams # {})
    /\ ~sending => \A m \in talk :
         /\ m.shown = m.got \/ m.fate = "stopped"
         /\ m.streaming => m.fate = "cut"
=============================================================================
