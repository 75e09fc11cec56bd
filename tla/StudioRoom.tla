----------------------------- MODULE StudioRoom -----------------------------
(***************************************************************************)
(* Editing a crew together: the socket of hooks/useCollaboration.ts, its   *)
(* reconnection, the changes of the studio store it broadcasts             *)
(* (pages/Studio.tsx) and those it applies, and the same socket of         *)
(* hooks/usePresence.ts, which carries no changes.  The room of a crew     *)
(* passes on what a socket sends to the other sockets of the room, in one  *)
(* order; a socket that is not open gets nothing.                          *)
(*                                                                         *)
(* An effect is the hook for one crew; the refs are shared by the effects  *)
(* of a tab, and what a socket does when it closes is decided then.        *)
(***************************************************************************)
EXTENDS Integers, Sequences, SequencesExt, FiniteSets

CONSTANTS
    Tabs,        \* browser tabs, all in one room at first
    Rooms,       \* names of crews
    Nodes,       \* ids of nodes, each made once
    None,        \* stands for null
    MAX_RECONNECT_ATTEMPTS,
    Sessions     \* the sessions checked (SessionOf)

\* Which hook, and the bounds: changes of the room, of the canvas, and
\* connections that break.
SessionOf(hook, nmoves, nchanges, nbreaks) ==
    [hook |-> hook, moves |-> nmoves, changes |-> nchanges, breaks |-> nbreaks]

\* null is neither the id of a socket nor the name of a crew.
NoneIsNone == None \notin Nat /\ None \notin Rooms

\* What the type invariant needs of the limit.
RoomBounds == MAX_RECONNECT_ATTEMPTS \in Nat

VARIABLES
    room,        \* the room of each tab's effect, None when there is none
    effect,      \* the number of each tab's effect
    socks,       \* sockets that are not closed, with what is on its way to them
    wsRef, connected, attempts,
    timer,       \* the reconnect timers: the effects that set them
    graph,       \* the nodes of each canvas: 0 or a position
    made,        \* nodes made so far
    late,        \* a socket closed after its tab had another
    parted,      \* a tab left the room, or lost its connection
    mingled,     \* a change was sent while another was on its way
    session, madeSocks, moved, changed, broke

roomVars == <<room, effect, socks, wsRef, connected, attempts, timer, graph, made, late, parted,
              mingled, session, madeSocks, moved, changed, broke>>
tabVars == <<wsRef, connected, attempts, timer>>
canvasVars == <<graph, made, mingled>>
counters == <<session, moved, changed, broke>>

Sock(t, r, e) == [id |-> madeSocks + 1, tab |-> t, room |-> r, effect |-> e,
                  state |-> "connecting", inbox |-> <<>>]

RoomInitOf(s) ==
    /\ session = s
    /\ room = [t \in Tabs |-> None] /\ effect = [t \in Tabs |-> 0]
    /\ socks = {} /\ madeSocks = 0
    /\ wsRef = [t \in Tabs |-> None] /\ connected = [t \in Tabs |-> FALSE]
    /\ attempts = [t \in Tabs |-> 0] /\ timer = {}
    /\ graph = [t \in Tabs |-> [n \in Nodes |-> 0]] /\ made = {}
    /\ late = FALSE /\ parted = FALSE /\ mingled = FALSE
    /\ moved = 0 /\ changed = 0 /\ broke = 0

(***************************************************************************)
(* The effect: cleanup of the last, and connect.                           *)
(***************************************************************************)
\* Mutant: the closing socket of an effect that is gone reconnects.
Disposed_Never(s) == FALSE

\* disposed, in the collaboration hook, is of the effect; mountedRef, in the
\* presence hook, is of the tab, and set again by the next effect.
Disposed(s) == session.hook = "collab" /\ s.effect # effect[s.tab]

\* close() takes effect later; nothing is sent or received from then on.
Closing(t) == {IF s.id = wsRef[t] THEN [s EXCEPT !.state = "closing", !.inbox = <<>>] ELSE s :
               s \in socks}

\* The crew is renamed, another is loaded, the mode is switched on or off.
Enter(t, r) ==
    /\ r # room[t] /\ moved < session.moves + Cardinality(Tabs)
    /\ room' = [room EXCEPT ![t] = r]
    /\ effect' = [effect EXCEPT ![t] = @ + 1]
    /\ IF r = None
       THEN /\ socks' = Closing(t)
            /\ wsRef' = [wsRef EXCEPT ![t] = None]
            /\ UNCHANGED madeSocks
       ELSE /\ socks' = Closing(t) \union {Sock(t, r, effect[t] + 1)}
            /\ wsRef' = [wsRef EXCEPT ![t] = madeSocks + 1]
            /\ madeSocks' = madeSocks + 1
    /\ connected' = [connected EXCEPT ![t] = FALSE]
    /\ timer' = {w \in timer : w.tab # t}
    /\ attempts' = IF session.hook = "presence" THEN [attempts EXCEPT ![t] = 0] ELSE attempts
    /\ moved' = moved + 1
    /\ parted' = (parted \/ effect[t] > 0)
    /\ UNCHANGED <<canvasVars, late, session, changed, broke>>

\* onopen.
Opens(s) ==
    /\ s \in socks /\ s.state = "connecting"
    /\ socks' = (socks \ {s}) \union {[s EXCEPT !.state = "open"]}
    /\ connected' = [connected EXCEPT ![s.tab] = TRUE]
    /\ attempts' = [attempts EXCEPT ![s.tab] = 0]
    /\ UNCHANGED <<room, effect, wsRef, timer, canvasVars, late, parted, madeSocks, counters>>

\* onclose: wsRef is nulled, whichever socket it holds by then.
OnClose(s) ==
    /\ socks' = socks \ {s}
    /\ connected' = [connected EXCEPT ![s.tab] = FALSE]
    /\ wsRef' = [wsRef EXCEPT ![s.tab] = None]
    /\ IF ~Disposed(s) /\ attempts[s.tab] < MAX_RECONNECT_ATTEMPTS
       THEN /\ attempts' = [attempts EXCEPT ![s.tab] = @ + 1]
            /\ timer' = timer \union {[tab |-> s.tab, room |-> s.room, effect |-> s.effect]}
       ELSE UNCHANGED <<attempts, timer>>
    /\ late' = (late \/ wsRef[s.tab] \notin {None, s.id})
    /\ parted' = TRUE
    /\ UNCHANGED <<room, effect, canvasVars, madeSocks>>

Closes(s) ==
    /\ s \in socks /\ s.state = "closing"
    /\ OnClose(s)
    /\ UNCHANGED counters

\* The server or the network ends a connection, or refuses one.
Breaks(s) ==
    /\ s \in socks /\ s.state # "closing"
    /\ broke < session.breaks /\ broke' = broke + 1
    /\ OnClose(s)
    /\ UNCHANGED <<session, moved, changed>>

\* The timer of an effect connects to the room of that effect.
Reconnect(w) ==
    /\ w \in timer
    /\ timer' = timer \ {w}
    /\ socks' = socks \union {Sock(w.tab, w.room, w.effect)}
    /\ wsRef' = [wsRef EXCEPT ![w.tab] = madeSocks + 1]
    /\ madeSocks' = madeSocks + 1
    /\ UNCHANGED <<room, effect, connected, attempts, canvasVars, late, parted, counters>>

(***************************************************************************)
(* Changes of the canvas.                                                  *)
(***************************************************************************)
\* Mutant: only what was added is looked for.
Broadcast_AddsOnly(t, m) ==
    LET mine == {s \in socks : s.id = wsRef[t] /\ s.state = "open"}
    IN  IF ~connected[t] \/ mine = {} \/ m.kind # "add" THEN socks
        ELSE LET r == (CHOOSE s \in mine : TRUE).room
             IN  {IF s.tab # t /\ s.room = r /\ s.state = "open"
                  THEN [s EXCEPT !.inbox = Append(@, m)] ELSE s : s \in socks}

\* broadcast: through the socket of wsRef, if it is open.
Broadcast(t, m) ==
    LET mine == {s \in socks : s.id = wsRef[t] /\ s.state = "open"}
    IN  IF ~connected[t] \/ mine = {} THEN socks
        ELSE LET r == (CHOOSE s \in mine : TRUE).room
             IN  {IF s.tab # t /\ s.room = r /\ s.state = "open"
                  THEN [s EXCEPT !.inbox = Append(@, m)] ELSE s : s \in socks}

OnTheWay == \E s \in socks : s.inbox # <<>>

\* A node is added, moved (at its other position) or deleted, and the
\* subscription of the store tells the room.
ChangeNode(t, n, at) ==
    /\ session.hook = "collab" /\ room[t] # None
    /\ changed < session.changes /\ changed' = changed + 1
    /\ IF graph[t][n] = 0 THEN n \notin made /\ at = 1 ELSE at # graph[t][n]
    /\ made' = made \union {n}
    /\ graph' = [graph EXCEPT ![t][n] = at]
    /\ socks' = Broadcast(t, [node |-> n, at |-> at,
                              kind |-> IF at = 0 THEN "delete"
                                       ELSE IF graph[t][n] = 0 THEN "add" ELSE "move"])
    /\ parted' = (parted \/ \E u \in Tabs : ~connected[u] \/ room[u] # room[t])
    /\ mingled' = (mingled \/ OnTheWay)
    /\ UNCHANGED <<room, effect, tabVars, late, madeSocks, session, moved, broke>>

\* handleIncoming, with broadcasts suppressed: a node that is not there is
\* not moved.
Receives(s) ==
    /\ s \in socks /\ s.inbox # <<>>
    /\ LET m == Head(s.inbox)
       IN  graph' = [graph EXCEPT ![s.tab][m.node] =
                        IF m.kind = "move" /\ @ = 0 THEN 0 ELSE m.at]
    /\ socks' = (socks \ {s}) \union {[s EXCEPT !.inbox = Tail(@)]}
    /\ UNCHANGED <<room, effect, tabVars, made, mingled, late, parted, madeSocks, counters>>

RoomNext ==
    \/ \E t \in Tabs : \/ \E r \in Rooms \union {None} : Enter(t, r)
                       \/ \E n \in Nodes, at \in 0..2 : ChangeNode(t, n, at)
    \/ \E s \in socks : Opens(s) \/ Closes(s) \/ Breaks(s) \/ Receives(s)
    \/ \E w \in timer : Reconnect(w)

RoomInit == \E s \in Sessions : RoomInitOf(s)
RoomSpec == RoomInit /\ [][RoomNext]_roomVars

(***************************************************************************)
(* Properties.                                                             *)
(***************************************************************************)
RoomTypeOK ==
    /\ room \in [Tabs -> Rooms \union {None}] /\ connected \in [Tabs -> BOOLEAN]
    /\ attempts \in [Tabs -> 0..MAX_RECONNECT_ATTEMPTS]
    /\ graph \in [Tabs -> [Nodes -> 0..2]] /\ made \subseteq Nodes
    /\ \A t \in Tabs : wsRef[t] \in {None} \union 1..madeSocks

Current(s) == s.effect = effect[s.tab] /\ room[s.tab] # None

\* The collaboration socket of a tab is that of the crew it edits: none is
\* left in another room.
NoGhost ==
    session.hook = "collab" => \A s \in socks : s.state # "closing" => Current(s)

\* None is, unless the last socket of the tab closed after the next had
\* begun to connect.
NoGhostInTime == ~late => NoGhost

\* Tabs that stay in the room have the same nodes once all changes have
\* arrived, whoever changed what at the same time, and at the same places
\* if no change was sent while another was on its way.
TabsConverge ==
    ~parted /\ ~OnTheWay =>
      \A t, u \in Tabs, n \in Nodes :
        /\ (graph[t][n] = 0) = (graph[u][n] = 0)
        /\ mingled \/ graph[t][n] = graph[u][n]
=============================================================================
