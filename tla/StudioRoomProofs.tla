-------------------------- MODULE StudioRoomProofs --------------------------
(***************************************************************************)
(* Proofs about StudioRoom, for any tabs, rooms, nodes, limit of attempts  *)
(* and sessions: a collaboration socket stays behind in another room only  *)
(* after a late close, and the tabs of a room converge.                    *)
(***************************************************************************)
EXTENDS StudioRoom, TLAPS

Messages == [node : Nodes, at : 0..2, kind : {"add", "move", "delete"}]
States == {"connecting", "open", "closing"}
Sockets == [id : Nat, tab : Tabs, room : Rooms, effect : Nat, state : States,
            inbox : Seq(Messages)]
Timers == [tab : Tabs, room : Rooms, effect : Nat]

\* The variables that sockets depend on keep their types.
Typed ==
    /\ room \in [Tabs -> Rooms \union {None}]
    /\ effect \in [Tabs -> Nat]
    /\ wsRef \in [Tabs -> Nat \union {None}]
    /\ socks \subseteq Sockets
    /\ timer \subseteq Timers
    /\ madeSocks \in Nat
    /\ late \in BOOLEAN

\* A socket is known by its number, and a tab refers to none of another tab.
Numbered ==
    /\ \A s \in socks : s.id <= madeSocks
    /\ \A s, u \in socks : s.id = u.id => s = u
    /\ \A t \in Tabs : wsRef[t] # None => wsRef[t] <= madeSocks
    /\ \A t \in Tabs, s \in socks : s.id = wsRef[t] => s.tab = t

Alive(s) == s.state # "closing"

\* The socket of a tab that is not closing is the one its effect refers to,
\* in the room of that effect; those that close are of earlier effects.
Followed ==
    \A s \in socks :
      IF Alive(s) THEN s.id = wsRef[s.tab] /\ s.effect = effect[s.tab] /\ s.room = room[s.tab]
                  ELSE s.effect < effect[s.tab]

\* A timer is of the effect of its tab, and waits because there is no socket.
Waiting ==
    \A w \in timer :
      /\ w.effect = effect[w.tab] /\ w.room = room[w.tab]
      /\ \A s \in socks : s.tab = w.tab => ~Alive(s)

InTime == session.hook = "collab" /\ ~late => Followed /\ Waiting

RoomInv == Typed /\ Numbered /\ InTime

(* The invariant holds at the start: there are no sockets and no timers. *)
LEMMA RoomInvInit == RoomInit => RoomInv
<1> SUFFICES ASSUME NEW i \in Sessions, RoomInitOf(i)
             PROVE  RoomInv
  BY DEF RoomInit
<1>1. socks = {} /\ timer = {} /\ late = FALSE /\ madeSocks = 0
  BY DEF RoomInitOf
<1>2. Typed
  <2>1. /\ room = [t \in Tabs |-> None] /\ effect = [t \in Tabs |-> 0]
        /\ wsRef = [t \in Tabs |-> None]
    BY DEF RoomInitOf
  <2> QED
    BY <1>1, <2>1 DEF Typed
<1>3. Numbered
  <2>1. wsRef = [t \in Tabs |-> None]
    BY DEF RoomInitOf
  <2> QED
    BY <1>1, <2>1 DEF Numbered
<1>4. InTime
  BY <1>1 DEF InTime, Followed, Waiting
<1> QED
  BY <1>2, <1>3, <1>4 DEF RoomInv

(* Closing the socket of a tab changes nothing but its state and inbox. *)
LEMMA ClosingSockets ==
    ASSUME Typed, Numbered, NEW t \in Tabs
    PROVE  /\ Closing(t) \subseteq Sockets
           /\ \A s, v \in Closing(t) : s.id = v.id => s = v
           /\ \A s \in Closing(t) : \E u \in socks :
                /\ s.id = u.id /\ s.tab = u.tab /\ s.room = u.room /\ s.effect = u.effect
                /\ Alive(s) => Alive(u) /\ u.id # wsRef[t]
                /\ ~Alive(s) => u.id = wsRef[t] \/ ~Alive(u)
<1> DEFINE f(u) == IF u.id = wsRef[t] THEN [u EXCEPT !.state = "closing", !.inbox = <<>>] ELSE u
<1>1. <<>> \in Seq(Messages)
  OBVIOUS
<1>2. ASSUME NEW u \in socks
      PROVE  /\ f(u) \in Sockets
             /\ f(u).id = u.id /\ f(u).tab = u.tab /\ f(u).room = u.room /\ f(u).effect = u.effect
             /\ Alive(f(u)) => Alive(u) /\ u.id # wsRef[t]
             /\ ~Alive(f(u)) => u.id = wsRef[t] \/ ~Alive(u)
  BY <1>1 DEF Typed, Sockets, States, Alive
<1>3. Closing(t) = {f(u) : u \in socks}
  BY DEF Closing
<1> HIDE DEF f
<1>4. ASSUME NEW s \in Closing(t), NEW v \in Closing(t), s.id = v.id
      PROVE  s = v
  BY <1>2, <1>3, <1>4 DEF Numbered
<1> QED
  BY <1>2, <1>3, <1>4

(* Broadcasting changes nothing but inboxes. *)
LEMMA BroadcastSockets ==
    ASSUME Typed, Numbered, NEW t \in Tabs, NEW m \in Messages
    PROVE  /\ Broadcast(t, m) \subseteq Sockets
           /\ \A s, v \in Broadcast(t, m) : s.id = v.id => s = v
           /\ \A s \in Broadcast(t, m) : \E u \in socks :
                /\ s.id = u.id /\ s.tab = u.tab /\ s.room = u.room /\ s.effect = u.effect
                /\ s.state = u.state
<1> DEFINE mine == {s \in socks : s.id = wsRef[t] /\ s.state = "open"}
           r == (CHOOSE s \in mine : TRUE).room
           f(u) == IF u.tab # t /\ u.room = r /\ u.state = "open"
                   THEN [u EXCEPT !.inbox = Append(@, m)] ELSE u
<1>1. ASSUME NEW u \in socks
      PROVE  Append(u.inbox, m) \in Seq(Messages)
  BY DEF Typed, Sockets
<1> HIDE DEF r
<1>2. ASSUME NEW u \in socks
      PROVE  /\ f(u) \in Sockets
             /\ f(u).id = u.id /\ f(u).tab = u.tab /\ f(u).room = u.room /\ f(u).effect = u.effect
             /\ f(u).state = u.state
  BY <1>1 DEF Typed, Sockets
<1>3. Broadcast(t, m) = socks \/ Broadcast(t, m) = {f(u) : u \in socks}
  BY DEF Broadcast, r
<1> HIDE DEF f
<1>4. CASE Broadcast(t, m) = socks
  BY <1>4 DEF Typed, Numbered
<1>5. CASE Broadcast(t, m) = {f(u) : u \in socks}
  <2>1. ASSUME NEW s \in Broadcast(t, m), NEW v \in Broadcast(t, m), s.id = v.id
        PROVE  s = v
    BY <1>2, <1>5, <2>1 DEF Numbered
  <2> QED
    BY <1>2, <1>5, <2>1
<1> QED
  BY <1>3, <1>4, <1>5

(* Steps that only fill or empty inboxes, or open a socket, keep it. *)
LEMMA SameSockets ==
    ASSUME RoomInv, socks' \subseteq Sockets,
           \A s, v \in socks' : s.id = v.id => s = v,
           \A s \in socks' : \E u \in socks :
             /\ s.id = u.id /\ s.tab = u.tab /\ s.room = u.room /\ s.effect = u.effect
             /\ Alive(s) = Alive(u),
           UNCHANGED <<room, effect, wsRef, timer, madeSocks, session, late>>
    PROVE  RoomInv'
<1>1. Typed'
  BY DEF RoomInv, Typed
<1>2. Numbered'
  BY DEF RoomInv, Numbered
<1>3. InTime'
  <2> SUFFICES ASSUME session.hook = "collab", ~late
               PROVE  Followed' /\ Waiting'
    BY DEF InTime
  <2>1. Followed /\ Waiting
    BY DEF RoomInv, InTime
  <2>2. Followed'
    BY <2>1 DEF Followed
  <2>3. Waiting'
    BY <2>1 DEF Waiting
  <2> QED
    BY <2>2, <2>3
<1> QED
  BY <1>1, <1>2, <1>3 DEF RoomInv

(* The effect of a tab changes: its old socket closes, the new one follows. *)
LEMMA EnterStep ==
    ASSUME NoneIsNone, RoomInv, NEW t \in Tabs, NEW r \in Rooms \union {None}, Enter(t, r)
    PROVE  RoomInv'
<1>1. /\ room' = [room EXCEPT ![t] = r]
      /\ effect' = [effect EXCEPT ![t] = @ + 1]
      /\ timer' = {w \in timer : w.tab # t}
      /\ late' = late /\ session' = session
  BY DEF Enter
<1>2. /\ Closing(t) \subseteq Sockets
      /\ \A s, v \in Closing(t) : s.id = v.id => s = v
      /\ \A s \in Closing(t) : \E u \in socks :
           /\ s.id = u.id /\ s.tab = u.tab /\ s.room = u.room /\ s.effect = u.effect
           /\ Alive(s) => Alive(u) /\ u.id # wsRef[t]
           /\ ~Alive(s) => u.id = wsRef[t] \/ ~Alive(u)
  BY ClosingSockets DEF RoomInv
<1>3. \A s \in Closing(t) : s.id <= madeSocks
  BY <1>2 DEF RoomInv, Numbered
<1>4. CASE r = None
  <2>1. socks' = Closing(t) /\ wsRef' = [wsRef EXCEPT ![t] = None] /\ madeSocks' = madeSocks
    BY <1>4 DEF Enter
  <2>2. Typed'
    BY <1>1, <1>2, <2>1 DEF RoomInv, Typed
  <2>3. Numbered'
    <3>1. \A u \in Tabs : wsRef'[u] = IF u = t THEN None ELSE wsRef[u]
      BY <2>1 DEF RoomInv, Typed
    <3>2. \A s \in Closing(t) : s.id # None
      BY <1>2 DEF Sockets, NoneIsNone
    <3> QED
      BY <1>2, <1>3, <2>1, <3>1, <3>2 DEF RoomInv, Numbered
  <2>4. ASSUME session.hook = "collab", ~late
        PROVE  Followed' /\ Waiting'
    <3>1. Followed /\ Waiting
      BY <2>4 DEF RoomInv, InTime
    <3>2. Followed'
      <4>1. ASSUME NEW s \in Closing(t)
            PROVE  IF Alive(s) THEN /\ s.id = wsRef'[s.tab] /\ s.effect = effect'[s.tab]
                                    /\ s.room = room'[s.tab]
                               ELSE s.effect < effect'[s.tab]
        <5>1. PICK u \in socks :
                /\ s.id = u.id /\ s.tab = u.tab /\ s.room = u.room /\ s.effect = u.effect
                /\ Alive(s) => Alive(u) /\ u.id # wsRef[t]
                /\ ~Alive(s) => u.id = wsRef[t] \/ ~Alive(u)
          BY <1>2
        <5>2. u \in Sockets /\ u.tab \in Tabs /\ u.effect \in Nat /\ effect[u.tab] \in Nat
          BY DEF RoomInv, Typed, Sockets
        <5>3. CASE u.tab = t
          BY <1>1, <3>1, <5>1, <5>2, <5>3 DEF RoomInv, Typed, Followed
        <5>4. CASE u.tab # t
          <6>1. u.id # wsRef[t] /\ (Alive(s) <=> Alive(u))
            BY <5>1, <5>2, <5>4 DEF RoomInv, Numbered
          <6>2. /\ effect'[u.tab] = effect[u.tab] /\ room'[u.tab] = room[u.tab]
                /\ wsRef'[u.tab] = wsRef[u.tab]
            BY <1>1, <2>1, <5>2, <5>4 DEF RoomInv, Typed
          <6> QED
            BY <3>1, <5>1, <6>1, <6>2 DEF Followed
        <5> QED
          BY <5>3, <5>4
      <4>2. socks' = Closing(t)
        BY <2>1
      <4> QED
        BY <2>1, <4>1, <4>2 DEF Followed
    <3>3. Waiting'
      BY <1>1, <1>2, <2>1, <3>1 DEF RoomInv, Typed, Sockets, Timers, Waiting
    <3> QED
      BY <3>2, <3>3
  <2> QED
    BY <1>1, <2>2, <2>3, <2>4 DEF RoomInv, InTime
<1>5. CASE r # None
  <2> DEFINE new == Sock(t, r, effect[t] + 1)
  <2>1. /\ socks' = Closing(t) \union {new}
        /\ wsRef' = [wsRef EXCEPT ![t] = madeSocks + 1]
        /\ madeSocks' = madeSocks + 1
    BY <1>5 DEF Enter
  <2>2. /\ new \in Sockets /\ new.id = madeSocks + 1 /\ new.tab = t /\ new.room = r
        /\ new.effect = effect[t] + 1 /\ Alive(new)
    <3>1. <<>> \in Seq(Messages)
      OBVIOUS
    <3> QED
      BY <1>5, <3>1 DEF RoomInv, Typed, Sock, Sockets, States, Alive
  <2> HIDE DEF new
  <2>3. Typed'
    BY <1>1, <1>2, <2>1, <2>2 DEF RoomInv, Typed
  <2>4. Numbered'
    <3>1. \A u \in Tabs : wsRef'[u] = IF u = t THEN madeSocks + 1 ELSE wsRef[u]
      BY <2>1 DEF RoomInv, Typed
    <3>2. /\ \A s \in Closing(t) : s.id \in Nat /\ s.id <= madeSocks
          /\ \A u \in Tabs : wsRef[u] # None => wsRef[u] \in Nat /\ wsRef[u] <= madeSocks
          /\ madeSocks \in Nat /\ None \notin Nat
      BY <1>2, <1>3 DEF RoomInv, Typed, Numbered, Sockets, NoneIsNone
    <3>3. \A u \in Tabs, s \in Closing(t) : s.id = wsRef[u] => s.tab = u
      BY <1>2 DEF RoomInv, Numbered
    <3> QED
      BY <1>2, <2>1, <2>2, <3>1, <3>2, <3>3 DEF Numbered
  <2>5. ASSUME session.hook = "collab", ~late
        PROVE  Followed' /\ Waiting'
    <3>1. Followed /\ Waiting
      BY <2>5 DEF RoomInv, InTime
    <3>2. Followed'
      <4>1. ASSUME NEW s \in Closing(t)
            PROVE  IF Alive(s) THEN /\ s.id = wsRef'[s.tab] /\ s.effect = effect'[s.tab]
                                    /\ s.room = room'[s.tab]
                               ELSE s.effect < effect'[s.tab]
        <5>1. PICK u \in socks :
                /\ s.id = u.id /\ s.tab = u.tab /\ s.room = u.room /\ s.effect = u.effect
                /\ Alive(s) => Alive(u) /\ u.id # wsRef[t]
                /\ ~Alive(s) => u.id = wsRef[t] \/ ~Alive(u)
          BY <1>2
        <5>2. u \in Sockets /\ u.tab \in Tabs /\ u.effect \in Nat /\ effect[u.tab] \in Nat
          BY DEF RoomInv, Typed, Sockets
        <5>3. CASE u.tab = t
          BY <1>1, <3>1, <5>1, <5>2, <5>3 DEF RoomInv, Typed, Followed
        <5>4. CASE u.tab # t
          <6>1. u.id # wsRef[t] /\ (Alive(s) <=> Alive(u))
            BY <5>1, <5>2, <5>4 DEF RoomInv, Numbered
          <6>2. /\ effect'[u.tab] = effect[u.tab] /\ room'[u.tab] = room[u.tab]
                /\ wsRef'[u.tab] = wsRef[u.tab]
            BY <1>1, <2>1, <5>2, <5>4 DEF RoomInv, Typed
          <6> QED
            BY <3>1, <5>1, <6>1, <6>2 DEF Followed
        <5> QED
          BY <5>3, <5>4
      <4>2. /\ new.id = wsRef'[new.tab] /\ new.effect = effect'[new.tab]
            /\ new.room = room'[new.tab] /\ Alive(new)
        BY <1>1, <2>1, <2>2 DEF RoomInv, Typed
      <4> QED
        BY <2>1, <4>1, <4>2 DEF Followed
    <3>3. Waiting'
      BY <1>1, <1>2, <2>1, <2>2, <3>1 DEF RoomInv, Typed, Sockets, Timers, Waiting
    <3> QED
      BY <3>2, <3>3
  <2> QED
    BY <1>1, <2>3, <2>4, <2>5 DEF RoomInv, InTime
<1> QED
  BY <1>4, <1>5

(* A socket has closed: if that was in time, its tab has no other, and a *)
(* timer is set by the effect the tab has now.                           *)
LEMMA CloseStep ==
    ASSUME NoneIsNone, RoomInv, NEW s \in socks, OnClose(s), session' = session
    PROVE  RoomInv'
<1>1. /\ socks' = socks \ {s} /\ wsRef' = [wsRef EXCEPT ![s.tab] = None]
      /\ late' = (late \/ wsRef[s.tab] \notin {None, s.id})
      /\ UNCHANGED <<room, effect, madeSocks>>
  BY DEF OnClose
<1>2. s \in Sockets /\ s.tab \in Tabs /\ s.room \in Rooms /\ s.effect \in Nat /\ s.id \in Nat
  BY DEF RoomInv, Typed, Sockets
<1> DEFINE w == [tab |-> s.tab, room |-> s.room, effect |-> s.effect]
<1>3. w \in Timers /\ w.tab = s.tab /\ w.room = s.room /\ w.effect = s.effect
  BY <1>2 DEF Timers
<1>4. timer' = timer \/ (timer' = timer \union {w} /\ ~Disposed(s))
  BY DEF OnClose
<1> HIDE DEF w
<1>5. Typed'
  BY <1>1, <1>2, <1>3, <1>4 DEF RoomInv, Typed
<1>6. Numbered'
  <2>1. \A u \in Tabs : wsRef'[u] = IF u = s.tab THEN None ELSE wsRef[u]
    BY <1>1, <1>2 DEF RoomInv, Typed
  <2>2. \A u \in socks : u.id # None
    BY DEF RoomInv, Typed, Sockets, NoneIsNone
  <2> QED
    BY <1>1, <2>1, <2>2 DEF RoomInv, Numbered
<1>7. ASSUME session.hook = "collab", ~late'
      PROVE  Followed' /\ Waiting'
  <2>1. Followed /\ Waiting /\ wsRef[s.tab] \in {None, s.id}
    BY <1>1, <1>7 DEF RoomInv, InTime
  <2>2. \A u \in socks' : u.tab = s.tab => ~Alive(u)
    BY <1>1, <1>2, <2>1 DEF RoomInv, Typed, Sockets, Numbered, Followed, NoneIsNone
  <2>3. Followed'
    BY <1>1, <1>2, <2>1, <2>2 DEF RoomInv, Typed, Sockets, Followed
  <2>4. ~Disposed(s) => s.effect = effect[s.tab] /\ s.room = room[s.tab]
    BY <1>2, <1>7, <2>1 DEF Disposed, Followed, RoomInv, Typed
  <2>5. Waiting'
    BY <1>1, <1>3, <1>4, <2>1, <2>2, <2>4 DEF Waiting
  <2> QED
    BY <2>3, <2>5
<1> QED
  BY <1>5, <1>6, <1>7 DEF RoomInv, InTime

(* A timer connects to the room of the effect its tab has now. *)
LEMMA ReconnectStep ==
    ASSUME NoneIsNone, RoomInv, NEW w \in timer, Reconnect(w)
    PROVE  RoomInv'
<1> DEFINE new == Sock(w.tab, w.room, w.effect)
<1>1. /\ socks' = socks \union {new} /\ timer' = timer \ {w}
      /\ wsRef' = [wsRef EXCEPT ![w.tab] = madeSocks + 1] /\ madeSocks' = madeSocks + 1
      /\ UNCHANGED <<room, effect, late, session>>
  BY DEF Reconnect, counters
<1>2. w \in Timers /\ w.tab \in Tabs /\ w.room \in Rooms /\ w.effect \in Nat
  BY DEF RoomInv, Typed, Timers
<1>3. /\ new \in Sockets /\ new.id = madeSocks + 1 /\ new.tab = w.tab /\ new.room = w.room
      /\ new.effect = w.effect /\ Alive(new)
  <2>1. <<>> \in Seq(Messages)
    OBVIOUS
  <2> QED
    BY <1>2, <2>1 DEF RoomInv, Typed, Sock, Sockets, States, Alive
<1> HIDE DEF new
<1>4. Typed'
  BY <1>1, <1>2, <1>3 DEF RoomInv, Typed
<1>5. Numbered'
  <2>1. \A u \in Tabs : wsRef'[u] = IF u = w.tab THEN madeSocks + 1 ELSE wsRef[u]
    BY <1>1, <1>2 DEF RoomInv, Typed
  <2>2. /\ \A s \in socks : s.id \in Nat /\ s.id <= madeSocks
        /\ \A u \in Tabs : wsRef[u] # None => wsRef[u] \in Nat /\ wsRef[u] <= madeSocks
        /\ madeSocks \in Nat /\ None \notin Nat
    BY DEF RoomInv, Typed, Numbered, Sockets, NoneIsNone
  <2> QED
    BY <1>1, <1>3, <2>1, <2>2 DEF RoomInv, Numbered
<1>6. ASSUME session.hook = "collab", ~late
      PROVE  Followed' /\ Waiting'
  <2>1. Followed /\ Waiting
    BY <1>6 DEF RoomInv, InTime
  <2>2. Followed'
    BY <1>1, <1>2, <1>3, <2>1 DEF RoomInv, Typed, Sockets, Followed, Waiting
  <2>3. \A v \in timer : v.tab = w.tab => v = w
    BY <1>2, <2>1 DEF RoomInv, Typed, Timers, Waiting
  <2>4. Waiting'
    BY <1>1, <1>3, <2>1, <2>3 DEF Waiting
  <2> QED
    BY <2>2, <2>4
<1> QED
  BY <1>1, <1>4, <1>5, <1>6 DEF RoomInv, InTime

(* Every step keeps the invariant. *)
LEMMA RoomInvStep == NoneIsNone /\ RoomInv /\ [RoomNext]_roomVars => RoomInv'
<1> SUFFICES ASSUME NoneIsNone, RoomInv, [RoomNext]_roomVars
             PROVE  RoomInv'
  OBVIOUS
<1>1. ASSUME NEW t \in Tabs, NEW r \in Rooms \union {None}, Enter(t, r)
      PROVE  RoomInv'
  BY <1>1, EnterStep
<1>2. ASSUME NEW t \in Tabs, NEW n \in Nodes, NEW at \in 0..2, ChangeNode(t, n, at)
      PROVE  RoomInv'
  <2> DEFINE m == [node |-> n, at |-> at, kind |-> IF at = 0 THEN "delete"
                                                   ELSE IF graph[t][n] = 0 THEN "add" ELSE "move"]
  <2>1. m \in Messages
    BY DEF Messages
  <2>2. /\ socks' = Broadcast(t, m)
        /\ UNCHANGED <<room, effect, wsRef, timer, madeSocks, session, late>>
    BY <1>2 DEF ChangeNode, tabVars
  <2> HIDE DEF m
  <2>3. /\ socks' \subseteq Sockets
        /\ \A s, v \in socks' : s.id = v.id => s = v
        /\ \A s \in socks' : \E u \in socks :
             /\ s.id = u.id /\ s.tab = u.tab /\ s.room = u.room /\ s.effect = u.effect
             /\ s.state = u.state
    BY <2>1, <2>2, BroadcastSockets DEF RoomInv
  <2> QED
    BY <2>2, <2>3, SameSockets DEF Alive
<1>3. ASSUME NEW s \in socks, Opens(s)
      PROVE  RoomInv'
  <2> DEFINE new == [s EXCEPT !.state = "open"]
  <2>1. socks' = (socks \ {s}) \union {new} /\ s.state = "connecting"
        /\ UNCHANGED <<room, effect, wsRef, timer, madeSocks, session, late>>
    BY <1>3 DEF Opens, counters
  <2>2. /\ new \in Sockets /\ new.id = s.id /\ new.tab = s.tab /\ new.room = s.room
        /\ new.effect = s.effect /\ Alive(new) /\ Alive(s)
    BY <2>1 DEF RoomInv, Typed, Sockets, States, Alive
  <2> HIDE DEF new
  <2>3. socks' \subseteq Sockets
    BY <2>1, <2>2 DEF RoomInv, Typed
  <2>4. \A u, v \in socks' : u.id = v.id => u = v
    BY <2>1, <2>2 DEF RoomInv, Numbered
  <2> QED
    BY <2>1, <2>2, <2>3, <2>4, SameSockets
<1>4. ASSUME NEW s \in socks, Closes(s)
      PROVE  RoomInv'
  BY <1>4, CloseStep DEF Closes, counters
<1>5. ASSUME NEW s \in socks, Breaks(s)
      PROVE  RoomInv'
  BY <1>5, CloseStep DEF Breaks
<1>6. ASSUME NEW s \in socks, Receives(s)
      PROVE  RoomInv'
  <2> DEFINE new == [s EXCEPT !.inbox = Tail(@)]
  <2>1. socks' = (socks \ {s}) \union {new} /\ s.inbox # <<>>
        /\ UNCHANGED <<room, effect, wsRef, timer, madeSocks, session, late>>
    BY <1>6 DEF Receives, tabVars, counters
  <2>2. s \in Sockets /\ Tail(s.inbox) \in Seq(Messages)
    BY <2>1 DEF RoomInv, Typed, Sockets
  <2>3. /\ new \in Sockets /\ new.id = s.id /\ new.tab = s.tab /\ new.room = s.room
        /\ new.effect = s.effect /\ Alive(new) = Alive(s)
    BY <2>2 DEF Sockets, Alive
  <2> HIDE DEF new
  <2>4. socks' \subseteq Sockets
    BY <2>1, <2>3 DEF RoomInv, Typed
  <2>5. \A u, v \in socks' : u.id = v.id => u = v
    BY <2>1, <2>3 DEF RoomInv, Numbered
  <2> QED
    BY <2>1, <2>3, <2>4, <2>5, SameSockets
<1>7. ASSUME NEW w \in timer, Reconnect(w)
      PROVE  RoomInv'
  BY <1>7, ReconnectStep
<1>8. CASE UNCHANGED roomVars
  BY <1>8 DEF roomVars, RoomInv, Typed, Numbered, InTime, Followed, Waiting
<1> QED
  BY <1>1, <1>2, <1>3, <1>4, <1>5, <1>6, <1>7, <1>8 DEF RoomNext

(* The collaboration socket of a tab is that of the crew it edits, and    *)
(* none is left in another room, unless a socket closed after its tab had *)
(* begun to connect another (hooks/useCollaboration.ts, onclose).         *)
THEOREM NoGhostInTimeHolds == NoneIsNone => (RoomSpec => []NoGhostInTime)
<1>1. NoneIsNone /\ RoomInv => NoGhostInTime
  BY DEF NoneIsNone, RoomInv, Typed, Sockets, InTime, Followed, Alive, NoGhostInTime, NoGhost,
         Current
<1>2. ASSUME NoneIsNone
      PROVE  RoomSpec => []NoGhostInTime
  <2>1. RoomInit => RoomInv
    BY RoomInvInit
  <2>2. RoomInv /\ [RoomNext]_roomVars => RoomInv'
    BY <1>2, RoomInvStep
  <2>3. RoomInv => NoGhostInTime
    BY <1>1, <1>2
  <2> QED
    BY <2>1, <2>2, <2>3, PTL DEF RoomSpec
<1> QED
  BY <1>2

(***************************************************************************)
(* The tabs of a room converge.                                            *)
(***************************************************************************)
Canvases == [Nodes -> 0..2]

\* The value of a node after a message (handleIncoming).
ValueAfter(v, m, n) ==
    IF m.node # n THEN v ELSE IF m.kind = "move" /\ v = 0 THEN 0 ELSE m.at

About(m, n, kind) == m.node = n /\ m.kind = kind

\* A tab whose canvas has v for node n, with q on its way to it, will have the
\* node: it has it and only moves come, or its addition comes before all else.
OnlyMoves(q, n) == \A i \in 1..Len(q) : q[i].node = n => q[i].kind = "move"

Lives(v, q, n) ==
    \/ v # 0 /\ OnlyMoves(q, n)
    \/ v = 0 /\ \E i \in 1..Len(q) :
         /\ About(q[i], n, "add")
         /\ \A j \in 1..Len(q) : j # i /\ q[j].node = n => j > i /\ q[j].kind = "move"

\* It will not: a deletion comes, after every addition, or it has no node and
\* no addition comes.
Gone(v, q, n) ==
    /\ v = 0 \/ \E i \in 1..Len(q) : About(q[i], n, "delete")
    /\ \A i \in 1..Len(q) : About(q[i], n, "add")
         => \E j \in 1..Len(q) : j > i /\ About(q[j], n, "delete")

\* It never heard of the node.
Unknown(q, n) == \A i \in 1..Len(q) : q[i].node # n

\* What is sent says what was done: a deletion that there is no node left.
Truthful(m) == m.kind = "delete" <=> m.at = 0

LEMMA Appended ==
    ASSUME NEW q \in Seq(Messages), NEW m \in Messages
    PROVE  /\ Append(q, m) \in Seq(Messages) /\ Len(Append(q, m)) = Len(q) + 1
           /\ Append(q, m)[Len(q) + 1] = m
           /\ \A i \in 1..Len(q) : Append(q, m)[i] = q[i]
OBVIOUS

LEMMA Received ==
    ASSUME NEW q \in Seq(Messages), q # <<>>
    PROVE  /\ Head(q) \in Messages /\ Head(q) = q[1] /\ Len(q) \in Nat /\ Len(q) > 0
           /\ Tail(q) \in Seq(Messages) /\ Len(Tail(q)) = Len(q) - 1
           /\ \A i \in 1..(Len(q) - 1) : Tail(q)[i] = q[i + 1]
OBVIOUS

(* What becomes of a node as a message about it, or another, is sent. *)
LEMMA LivesOn ==
    ASSUME NEW q \in Seq(Messages), NEW m \in Messages, NEW n, NEW v,
           m.node # n \/ m.kind = "move", Lives(v, q, n)
    PROVE  Lives(v, Append(q, m), n)
<1> DEFINE a == Append(q, m)
<1>1. /\ Len(q) \in Nat /\ Len(a) = Len(q) + 1 /\ a[Len(q) + 1] = m
      /\ \A i \in 1..Len(q) : a[i] = q[i]
  BY Appended
<1> HIDE DEF a
<1>2. CASE v # 0 /\ OnlyMoves(q, n)
  BY <1>1, <1>2 DEF Lives, OnlyMoves
<1>3. ASSUME v = 0, NEW i \in 1..Len(q), About(q[i], n, "add"),
             \A j \in 1..Len(q) : j # i /\ q[j].node = n => j > i /\ q[j].kind = "move"
      PROVE  Lives(v, a, n)
  <2>1. i \in 1..Len(a) /\ About(a[i], n, "add")
    BY <1>1, <1>3
  <2>2. \A j \in 1..Len(a) : j # i /\ a[j].node = n => j > i /\ a[j].kind = "move"
    BY <1>1, <1>3
  <2> QED
    BY <1>3, <2>1, <2>2 DEF Lives
<1> QED
  BY <1>2, <1>3 DEF Lives, a

LEMMA AddIsAlive ==
    ASSUME NEW q \in Seq(Messages), NEW m \in Messages, NEW n, About(m, n, "add"), Unknown(q, n)
    PROVE  Lives(0, Append(q, m), n)
<1> DEFINE a == Append(q, m)
<1>1. /\ Len(q) \in Nat /\ Len(a) = Len(q) + 1 /\ a[Len(q) + 1] = m
      /\ \A i \in 1..Len(q) : a[i] = q[i]
  BY Appended
<1> HIDE DEF a
<1>2. Len(q) + 1 \in 1..Len(a) /\ About(a[Len(q) + 1], n, "add")
  BY <1>1
<1>3. \A j \in 1..Len(a) : j # Len(q) + 1 => a[j].node # n
  BY <1>1 DEF Unknown
<1> QED
  BY <1>2, <1>3 DEF Lives, a

LEMMA GoneStays ==
    ASSUME NEW q \in Seq(Messages), NEW m \in Messages, NEW n, NEW v,
           ~About(m, n, "add"), Gone(v, q, n)
    PROVE  Gone(v, Append(q, m), n)
<1> DEFINE a == Append(q, m)
<1>1. /\ Len(q) \in Nat /\ Len(a) = Len(q) + 1 /\ a[Len(q) + 1] = m
      /\ \A i \in 1..Len(q) : a[i] = q[i]
  BY Appended
<1> HIDE DEF a
<1>2. v = 0 \/ \E i \in 1..Len(a) : About(a[i], n, "delete")
  BY <1>1 DEF Gone
<1>3. ASSUME NEW i \in 1..Len(a), About(a[i], n, "add")
      PROVE  \E j \in 1..Len(a) : j > i /\ About(a[j], n, "delete")
  <2>1. i \in 1..Len(q) /\ About(q[i], n, "add")
    BY <1>1, <1>3
  <2>2. PICK j \in 1..Len(q) : j > i /\ About(q[j], n, "delete")
    BY <2>1 DEF Gone
  <2> QED
    BY <1>1, <2>2
<1> QED
  BY <1>2, <1>3 DEF Gone, a

LEMMA DeleteIsGone ==
    ASSUME NEW q \in Seq(Messages), NEW m \in Messages, NEW n, NEW v, About(m, n, "delete")
    PROVE  Gone(v, Append(q, m), n)
<1> DEFINE a == Append(q, m)
<1>1. Len(a) = Len(q) + 1 /\ a[Len(q) + 1] = m /\ Len(q) \in Nat
  BY Appended
<1> HIDE DEF a
<1>2. Len(a) \in 1..Len(a) /\ About(a[Len(a)], n, "delete")
  BY <1>1
<1>3. \A i \in 1..Len(a) : About(a[i], n, "add") => i < Len(a)
  BY <1>1 DEF About
<1> QED
  BY <1>2, <1>3 DEF Gone, a

(* ... and as it arrives. *)
LEMMA LivesAfter ==
    ASSUME NEW q \in Seq(Messages), q # <<>>, NEW n, NEW v \in 0..2, Lives(v, q, n),
           \A i \in 1..Len(q) : Truthful(q[i])
    PROVE  Lives(ValueAfter(v, Head(q), n), Tail(q), n)
<1> DEFINE t == Tail(q)
<1>1. /\ Head(q) \in Messages /\ Head(q) = q[1] /\ Len(q) \in Nat /\ Len(q) > 0
      /\ Len(t) = Len(q) - 1 /\ \A i \in 1..(Len(q) - 1) : t[i] = q[i + 1]
  BY Received
<1>2. Truthful(q[1])
  BY <1>1
<1> HIDE DEF t
<1>3. CASE v # 0 /\ OnlyMoves(q, n)
  <2>1. OnlyMoves(t, n)
    BY <1>1, <1>3 DEF OnlyMoves
  <2>2. q[1].node = n => q[1].kind = "move"
    BY <1>1, <1>3 DEF OnlyMoves
  <2>3. ValueAfter(v, q[1], n) # 0
    BY <1>2, <1>3, <2>2 DEF ValueAfter, Truthful
  <2> QED
    BY <1>1, <2>1, <2>3 DEF Lives, t
<1>4. ASSUME v = 0, NEW i \in 1..Len(q), About(q[i], n, "add"),
             \A j \in 1..Len(q) : j # i /\ q[j].node = n => j > i /\ q[j].kind = "move"
      PROVE  Lives(ValueAfter(v, q[1], n), t, n)
  <2>1. CASE i = 1
    <3>1. ValueAfter(v, q[1], n) # 0
      BY <1>2, <1>4, <2>1 DEF ValueAfter, Truthful, About
    <3>2. OnlyMoves(t, n)
      BY <1>1, <1>4, <2>1 DEF OnlyMoves
    <3> QED
      BY <3>1, <3>2 DEF Lives
  <2>2. CASE i # 1
    <3>1. q[1].node # n
      BY <1>1, <1>4, <2>2
    <3>2. i - 1 \in 1..Len(t) /\ About(t[i - 1], n, "add")
      BY <1>1, <1>4, <2>2
    <3>3. \A j \in 1..Len(t) : j # i - 1 /\ t[j].node = n => j > i - 1 /\ t[j].kind = "move"
      <4> SUFFICES ASSUME NEW j \in 1..Len(t), j # i - 1, t[j].node = n
                   PROVE  j > i - 1 /\ t[j].kind = "move"
        OBVIOUS
      <4>1. j + 1 \in 1..Len(q) /\ t[j] = q[j + 1] /\ j + 1 # i
        BY <1>1
      <4> QED
        BY <1>4, <4>1
    <3> QED
      BY <1>4, <3>1, <3>2, <3>3 DEF Lives, ValueAfter
  <2> QED
    BY <2>1, <2>2
<1> QED
  BY <1>1, <1>3, <1>4 DEF Lives, t

LEMMA GoneAfter ==
    ASSUME NEW q \in Seq(Messages), q # <<>>, NEW n, NEW v, Gone(v, q, n),
           \A i \in 1..Len(q) : Truthful(q[i])
    PROVE  Gone(ValueAfter(v, Head(q), n), Tail(q), n)
<1> DEFINE t == Tail(q)
<1>1. /\ Head(q) \in Messages /\ Head(q) = q[1] /\ Len(q) \in Nat /\ Len(q) > 0
      /\ Len(t) = Len(q) - 1 /\ \A i \in 1..(Len(q) - 1) : t[i] = q[i + 1]
  BY Received
<1>2. Truthful(q[1])
  BY <1>1
<1> HIDE DEF t
<1>3. ASSUME NEW i \in 1..Len(q), i # 1, About(q[i], n, "delete")
      PROVE  \E j \in 1..Len(t) : j = i - 1 /\ About(t[j], n, "delete")
  BY <1>1, <1>3
<1>4. \/ ValueAfter(v, q[1], n) = 0
      \/ \E i \in 1..Len(t) : About(t[i], n, "delete")
  <2>1. CASE About(q[1], n, "delete")
    BY <1>2, <2>1 DEF ValueAfter, Truthful, About
  <2>2. CASE About(q[1], n, "add")
    <3>1. PICK j \in 1..Len(q) : j > 1 /\ About(q[j], n, "delete")
      BY <1>1, <2>2 DEF Gone
    <3> QED
      BY <1>3, <3>1
  <2>3. CASE ~About(q[1], n, "delete") /\ ~About(q[1], n, "add")
    <3>1. CASE v = 0
      BY <1>1, <2>3, <3>1 DEF ValueAfter, About, Messages
    <3>2. CASE v # 0
      <4>1. PICK i \in 1..Len(q) : About(q[i], n, "delete")
        BY <3>2 DEF Gone
      <4> QED
        BY <1>3, <2>3, <4>1
    <3> QED
      BY <3>1, <3>2
  <2> QED
    BY <2>1, <2>2, <2>3
<1>5. ASSUME NEW i \in 1..Len(t), About(t[i], n, "add")
      PROVE  \E j \in 1..Len(t) : j > i /\ About(t[j], n, "delete")
  <2>1. i + 1 \in 1..Len(q) /\ About(q[i + 1], n, "add")
    BY <1>1, <1>5
  <2>2. PICK j \in 1..Len(q) : j > i + 1 /\ About(q[j], n, "delete")
    BY <2>1 DEF Gone
  <2>3. PICK k \in 1..Len(t) : k = j - 1 /\ About(t[k], n, "delete")
    BY <1>3, <2>2
  <2> QED
    BY <2>2, <2>3
<1> QED
  BY <1>1, <1>4, <1>5 DEF Gone, t

(***************************************************************************)
(* The invariant of tabs that stay in the room.                            *)
(***************************************************************************)
\* The canvases keep their types.
Drawn ==
    /\ graph \in [Tabs -> Canvases] /\ made \subseteq Nodes
    /\ connected \in [Tabs -> BOOLEAN]

\* Nothing reconnects; a tab has the one socket it refers to, or it has not
\* entered yet; what was made was made with every tab in the room.
Together ==
    /\ timer = {}
    /\ \A s \in socks : /\ Alive(s) /\ s.id = wsRef[s.tab] /\ s.room = room[s.tab]
                        /\ \A i \in 1..Len(s.inbox) : Truthful(s.inbox[i])
    /\ \A t \in Tabs : effect[t] = 0 => wsRef[t] = None /\ \A s \in socks : s.tab # t
    /\ \A t \in Tabs : connected[t] => \E s \in socks : s.tab = t /\ s.state = "open"
    /\ made # {} => \A t, u \in Tabs : connected[t] /\ room[t] = room[u]

\* All tabs will have a node, or none will.
NodesInv ==
    /\ \A n \in Nodes \ made : /\ \A t \in Tabs : graph[t][n] = 0
                               /\ \A s \in socks : Unknown(s.inbox, n)
    /\ \A n \in made : \/ \A s \in socks : Lives(graph[s.tab][n], s.inbox, n)
                       \/ \A s \in socks : Gone(graph[s.tab][n], s.inbox, n)

After(h, m) == [n \in Nodes |-> ValueAfter(h[n], m, n)]

\* There is one canvas that every tab has, or is one message away from.
PlacesInv ==
    \E g \in Canvases :
      /\ \A t \in Tabs : (\A s \in socks : s.tab = t => s.inbox = <<>>) => graph[t] = g
      /\ \A s \in socks : s.inbox # <<>>
           => Len(s.inbox) = 1 /\ After(graph[s.tab], Head(s.inbox)) = g

ConvergeInv == Drawn /\ (~parted => Together /\ NodesInv /\ (~mingled => PlacesInv))

LEMMA ConvergeInvInit == RoomInit => ConvergeInv
<1> SUFFICES ASSUME NEW i \in Sessions, RoomInitOf(i)
             PROVE  ConvergeInv
  BY DEF RoomInit
<1> DEFINE empty == [n \in Nodes |-> 0]
<1>1. /\ socks = {} /\ timer = {} /\ made = {}
      /\ effect = [t \in Tabs |-> 0] /\ wsRef = [t \in Tabs |-> None]
      /\ connected = [t \in Tabs |-> FALSE] /\ graph = [t \in Tabs |-> empty]
  BY DEF RoomInitOf
<1>2. empty \in Canvases /\ \A n \in Nodes : empty[n] = 0
  BY DEF Canvases
<1> HIDE DEF empty
<1>3. Drawn
  BY <1>1, <1>2 DEF Drawn
<1>4. Together
  BY <1>1 DEF Together
<1>5. NodesInv
  BY <1>1, <1>2 DEF NodesInv
<1>6. PlacesInv
  BY <1>1, <1>2 DEF PlacesInv
<1> QED
  BY <1>3, <1>4, <1>5, <1>6 DEF ConvergeInv

(* A tab has one socket. *)
LEMMA OneSocket ==
    ASSUME RoomInv, Together, NEW s \in socks, NEW u \in socks, s.tab = u.tab
    PROVE  s = u
BY DEF RoomInv, Numbered, Together

(* Sockets that come or open, with nothing new on its way, change nothing. *)
LEMMA SameInboxes ==
    ASSUME NodesInv, ~mingled => PlacesInv, UNCHANGED <<graph, made, mingled>>,
           \A s \in socks' : \/ \E u \in socks : s.tab = u.tab /\ s.inbox = u.inbox
                             \/ made = {} /\ s.inbox = <<>>,
           \A u \in socks : \E s \in socks' : s.tab = u.tab /\ s.inbox = u.inbox
    PROVE  NodesInv' /\ (~mingled' => PlacesInv')
<1>1. \A n : Unknown(<<>>, n)
  BY DEF Unknown
<1>2. NodesInv'
  <2>1. ASSUME NEW n \in Nodes \ made
        PROVE  /\ \A t \in Tabs : graph[t][n] = 0
               /\ \A s \in socks' : Unknown(s.inbox, n)
    BY <1>1 DEF NodesInv
  <2>2. ASSUME NEW n \in made
        PROVE  \/ \A s \in socks' : Lives(graph[s.tab][n], s.inbox, n)
               \/ \A s \in socks' : Gone(graph[s.tab][n], s.inbox, n)
    <3>1. \A s \in socks' : \E u \in socks : s.tab = u.tab /\ s.inbox = u.inbox
      OBVIOUS
    <3>2. CASE \A s \in socks : Lives(graph[s.tab][n], s.inbox, n)
      BY <3>1, <3>2
    <3>3. CASE \A s \in socks : Gone(graph[s.tab][n], s.inbox, n)
      BY <3>1, <3>3
    <3> QED
      BY <3>2, <3>3 DEF NodesInv
  <2> QED
    BY <2>1, <2>2 DEF NodesInv
<1>3. ASSUME ~mingled
      PROVE  PlacesInv'
  <2>1. PICK g \in Canvases :
          /\ \A t \in Tabs : (\A s \in socks : s.tab = t => s.inbox = <<>>) => graph[t] = g
          /\ \A s \in socks : s.inbox # <<>>
               => Len(s.inbox) = 1 /\ After(graph[s.tab], Head(s.inbox)) = g
    BY <1>3 DEF PlacesInv
  <2>2. \A t \in Tabs : (\A s \in socks' : s.tab = t => s.inbox = <<>>) => graph[t] = g
    BY <2>1
  <2>3. \A s \in socks' : s.inbox # <<>>
          => Len(s.inbox) = 1 /\ After(graph[s.tab], Head(s.inbox)) = g
    <3> SUFFICES ASSUME NEW s \in socks', s.inbox # <<>>
                 PROVE  Len(s.inbox) = 1 /\ After(graph[s.tab], Head(s.inbox)) = g
      OBVIOUS
    <3>1. PICK u \in socks : s.tab = u.tab /\ s.inbox = u.inbox
      OBVIOUS
    <3>2. Len(u.inbox) = 1 /\ After(graph[u.tab], Head(u.inbox)) = g
      BY <2>1, <3>1
    <3> QED
      BY <3>1, <3>2
  <2>4. /\ \A t \in Tabs : (\A s \in socks' : s.tab = t => s.inbox = <<>>) => graph'[t] = g
        /\ \A s \in socks' : s.inbox # <<>>
             => Len(s.inbox) = 1 /\ After(graph'[s.tab], Head(s.inbox)) = g
    BY <2>2, <2>3
  <2> QED
    BY <2>4 DEF PlacesInv, After, ValueAfter
<1> QED
  BY <1>2, <1>3

(* A tab enters the room, for the first time: nothing has been made. *)
LEMMA EnterTogether ==
    ASSUME NoneIsNone, RoomInv, ConvergeInv, ~parted',
           NEW t \in Tabs, NEW r \in Rooms \union {None}, Enter(t, r)
    PROVE  Together' /\ NodesInv' /\ (~mingled' => PlacesInv')
<1>1. /\ room' = [room EXCEPT ![t] = r]
      /\ effect' = [effect EXCEPT ![t] = @ + 1]
      /\ connected' = [connected EXCEPT ![t] = FALSE]
      /\ timer' = {w \in timer : w.tab # t}
      /\ UNCHANGED <<graph, made, mingled>>
      /\ parted' = (parted \/ effect[t] > 0)
  BY DEF Enter, canvasVars
<1>2. effect[t] \in Nat
  BY DEF RoomInv, Typed
<1>3. ~parted /\ effect[t] = 0
  <2>1. ~parted /\ ~(effect[t] > 0)
    BY <1>1, Zenon
  <2> QED
    BY <1>2, <2>1
<1>4. Together /\ NodesInv /\ (~mingled => PlacesInv) /\ Drawn
  BY <1>3 DEF ConvergeInv
<1>5. wsRef[t] = None /\ (\A s \in socks : s.tab # t) /\ timer = {}
  BY <1>3, <1>4 DEF Together
<1>6. made = {}
  <2>1. ~connected[t]
    BY <1>4, <1>5 DEF Together
  <2> QED
    BY <1>4, <2>1 DEF Together
<1>7. Closing(t) = socks
  BY <1>5 DEF Closing, RoomInv, Typed, Sockets, NoneIsNone
<1> DEFINE new == Sock(t, r, effect[t] + 1)
<1>8. /\ new.id = madeSocks + 1 /\ new.tab = t /\ new.room = r /\ new.inbox = <<>> /\ Alive(new)
  BY DEF Sock, Alive
<1>9. \/ r = None /\ socks' = socks /\ wsRef' = [wsRef EXCEPT ![t] = None]
      \/ r # None /\ socks' = socks \union {new} /\ wsRef' = [wsRef EXCEPT ![t] = madeSocks + 1]
  BY <1>7 DEF Enter
<1> HIDE DEF new
<1>10. Together'
  <2>1. ASSUME NEW s \in socks'
        PROVE  /\ Alive(s) /\ s.id = wsRef'[s.tab] /\ s.room = room'[s.tab]
               /\ \A i \in 1..Len(s.inbox) : Truthful(s.inbox[i])
    <3>1. CASE s \in socks
      BY <1>1, <1>4, <1>5, <1>9, <3>1 DEF Together, RoomInv, Typed, Sockets
    <3>2. CASE s = new
      BY <1>1, <1>8, <1>9, <3>2, <1>5 DEF RoomInv, Typed
    <3> QED
      BY <1>9, <3>1, <3>2
  <2>2. ASSUME NEW v \in Tabs, effect'[v] = 0
        PROVE  wsRef'[v] = None /\ \A s \in socks' : s.tab # v
    <3>1. v # t /\ effect[v] = 0
      BY <1>1, <2>2 DEF RoomInv, Typed
    <3> QED
      BY <1>4, <1>8, <1>9, <3>1 DEF Together, RoomInv, Typed
  <2>3. ASSUME NEW v \in Tabs, connected'[v]
        PROVE  \E s \in socks' : s.tab = v /\ s.state = "open"
    <3>1. v # t /\ connected[v]
      BY <1>1, <1>4, <2>3 DEF Drawn
    <3> QED
      BY <1>4, <1>9, <3>1 DEF Together
  <2> QED
    BY <1>1, <1>5, <1>6, <2>1, <2>2, <2>3 DEF Together, Alive, Truthful
<1>11. /\ \A s \in socks' : \/ \E u \in socks : s.tab = u.tab /\ s.inbox = u.inbox
                            \/ made = {} /\ s.inbox = <<>>
       /\ \A u \in socks : \E s \in socks' : s.tab = u.tab /\ s.inbox = u.inbox
  BY <1>6, <1>8, <1>9
<1> QED
  BY <1>1, <1>4, <1>10, <1>11, SameInboxes

(* Its socket opens. *)
LEMMA OpensTogether ==
    ASSUME RoomInv, ConvergeInv, ~parted', NEW s \in socks, Opens(s)
    PROVE  Together' /\ NodesInv' /\ (~mingled' => PlacesInv')
<1> DEFINE new == [s EXCEPT !.state = "open"]
<1>1. /\ socks' = (socks \ {s}) \union {new}
      /\ connected' = [connected EXCEPT ![s.tab] = TRUE]
      /\ UNCHANGED <<room, effect, wsRef, timer, graph, made, mingled, parted>>
  BY DEF Opens, canvasVars
<1>2. /\ new.id = s.id /\ new.tab = s.tab /\ new.room = s.room /\ new.inbox = s.inbox
      /\ new.state = "open" /\ Alive(new) /\ s.tab \in Tabs
  BY DEF RoomInv, Typed, Sockets, Alive
<1> HIDE DEF new
<1>3. Together /\ NodesInv /\ (~mingled => PlacesInv) /\ Drawn
  BY <1>1 DEF ConvergeInv
<1>4. ASSUME NEW u \in socks'
      PROVE  /\ Alive(u) /\ u.id = wsRef[u.tab] /\ u.room = room[u.tab]
             /\ \A i \in 1..Len(u.inbox) : Truthful(u.inbox[i])
  <2>1. CASE u \in socks
    BY <1>3, <2>1 DEF Together
  <2>2. CASE u = new
    BY <1>2, <1>3, <2>2 DEF Together
  <2> QED
    BY <1>1, <2>1, <2>2
<1>5. ASSUME NEW t \in Tabs, effect[t] = 0
      PROVE  wsRef[t] = None /\ \A u \in socks' : u.tab # t
  BY <1>1, <1>2, <1>3, <1>5 DEF Together
<1>6. ASSUME NEW t \in Tabs, connected'[t]
      PROVE  \E u \in socks' : u.tab = t /\ u.state = "open"
  <2>1. CASE t = s.tab
    BY <1>1, <1>2, <2>1
  <2>2. CASE t # s.tab
    BY <1>1, <1>3, <1>6, <2>2 DEF Together, Drawn
  <2> QED
    BY <2>1, <2>2
<1>7. ASSUME made # {}, NEW t \in Tabs, NEW u \in Tabs
      PROVE  connected'[t] /\ room[t] = room[u]
  BY <1>1, <1>3, <1>7 DEF Together, Drawn
<1>8. timer = {}
  BY <1>3 DEF Together
<1>9. Together'
  BY <1>1, <1>4, <1>5, <1>6, <1>7, <1>8 DEF Together, Alive, Truthful
<1>10. /\ \A u \in socks' : \E v \in socks : u.tab = v.tab /\ u.inbox = v.inbox
       /\ \A v \in socks : \E u \in socks' : u.tab = v.tab /\ u.inbox = v.inbox
  BY <1>1, <1>2
<1> QED
  BY <1>1, <1>3, <1>9, <1>10, SameInboxes

(* A change by a tab that is connected, with all others in its room, goes *)
(* to every other socket, and to no other tab's canvas.                   *)
LEMMA BroadcastReaches ==
    ASSUME RoomInv, Drawn, Together, NEW t \in Tabs, NEW m \in Messages,
           \A u \in Tabs : connected[u] /\ room[u] = room[t]
    PROVE  /\ \A v \in Broadcast(t, m) : \E s \in socks :
                /\ v.id = s.id /\ v.tab = s.tab /\ v.room = s.room /\ v.state = s.state
                /\ v.inbox = IF s.tab = t THEN s.inbox ELSE Append(s.inbox, m)
           /\ \A s \in socks : \E v \in Broadcast(t, m) :
                /\ v.id = s.id /\ v.tab = s.tab /\ v.room = s.room /\ v.state = s.state
                /\ v.inbox = IF s.tab = t THEN s.inbox ELSE Append(s.inbox, m)
<1> DEFINE mine == {s \in socks : s.id = wsRef[t] /\ s.state = "open"}
           r == (CHOOSE s \in mine : TRUE).room
           f(u) == IF u.tab # t /\ u.room = r /\ u.state = "open"
                   THEN [u EXCEPT !.inbox = Append(@, m)] ELSE u
<1>1. \A s \in socks : s.tab \in Tabs /\ s.state = "open" /\ s.id = wsRef[s.tab]
  <2> SUFFICES ASSUME NEW s \in socks
               PROVE  s.tab \in Tabs /\ s.state = "open" /\ s.id = wsRef[s.tab]
    OBVIOUS
  <2>1. s.tab \in Tabs /\ s.id = wsRef[s.tab]
    BY DEF RoomInv, Typed, Sockets, Together
  <2>2. PICK u \in socks : u.tab = s.tab /\ u.state = "open"
    BY <2>1 DEF Together
  <2> QED
    BY <2>1, <2>2, OneSocket
<1>2. PICK own \in socks : own.tab = t /\ own.state = "open"
  BY DEF Together
<1>3. own \in mine
  BY <1>1, <1>2
<1>4. (CHOOSE s \in mine : TRUE) \in mine
  BY <1>3
<1>5. r = room[t]
  <2>1. PICK s \in socks : s = (CHOOSE v \in mine : TRUE) /\ s.id = wsRef[t]
    BY <1>4
  <2>2. s.tab = t
    BY <2>1 DEF RoomInv, Numbered
  <2> QED
    BY <2>1, <2>2 DEF Together
<1>6. Broadcast(t, m) = {f(s) : s \in socks}
  BY <1>3 DEF Broadcast, r
<1> HIDE DEF r, mine
<1>7. ASSUME NEW s \in socks
      PROVE  /\ f(s).id = s.id /\ f(s).tab = s.tab /\ f(s).room = s.room /\ f(s).state = s.state
             /\ f(s).inbox = IF s.tab = t THEN s.inbox ELSE Append(s.inbox, m)
  <2>1. s.room = r
    BY <1>1, <1>5 DEF Together
  <2>2. s \in Sockets
    BY DEF RoomInv, Typed
  <2>3. CASE s.tab = t
    BY <2>3
  <2>4. CASE s.tab # t
    BY <1>1, <2>1, <2>2, <2>4 DEF Sockets
  <2> QED
    BY <2>3, <2>4
<1> HIDE DEF f
<1> QED
  BY <1>6, <1>7

(* Two tabs with everything in place agree on it all. *)
LEMMA SettledAgree ==
    ASSUME Together, NodesInv, Drawn, RoomInv, ~OnTheWay, NEW t \in Tabs, NEW u \in Tabs,
           NEW n \in Nodes
    PROVE  (graph[t][n] = 0) <=> (graph[u][n] = 0)
<1>1. CASE n \notin made
  BY <1>1 DEF NodesInv
<1>2. CASE n \in made
  <2>1. PICK s \in socks, v \in socks : s.tab = t /\ v.tab = u
    BY <1>2 DEF Together
  <2>2. s.inbox = <<>> /\ v.inbox = <<>>
    BY DEF OnTheWay
  <2>3. \A x : (Lives(x, <<>>, n) => x # 0) /\ (Gone(x, <<>>, n) => x = 0)
    BY DEF Lives, Gone
  <2> QED
    BY <1>2, <2>1, <2>2, <2>3 DEF NodesInv
<1> QED
  BY <1>1, <1>2

(* A change: every other tab hears of it. *)
LEMMA ChangeTogether ==
    ASSUME RoomInv, ConvergeInv, ~parted',
           NEW t \in Tabs, NEW n \in Nodes, NEW at \in 0..2, ChangeNode(t, n, at)
    PROVE  Together' /\ NodesInv' /\ (~mingled' => PlacesInv')
<1> DEFINE m == [node |-> n, at |-> at, kind |-> IF at = 0 THEN "delete"
                                                 ELSE IF graph[t][n] = 0 THEN "add" ELSE "move"]
<1>1. /\ socks' = Broadcast(t, m) /\ graph' = [graph EXCEPT ![t][n] = at]
      /\ made' = made \union {n}
      /\ parted' = (parted \/ \E u \in Tabs : ~connected[u] \/ room[u] # room[t])
      /\ mingled' = (mingled \/ OnTheWay)
      /\ IF graph[t][n] = 0 THEN n \notin made /\ at = 1 ELSE at # graph[t][n]
      /\ UNCHANGED <<room, effect, wsRef, connected, timer>>
  BY DEF ChangeNode, tabVars
<1>2. ~parted /\ \A u \in Tabs : connected[u] /\ room[u] = room[t]
  BY <1>1
<1>3. Together /\ NodesInv /\ (~mingled => PlacesInv) /\ Drawn
  BY <1>2 DEF ConvergeInv
<1>4. /\ m \in Messages /\ m.node = n /\ m.at = at
      /\ at = 0 => m.kind = "delete"
      /\ at # 0 /\ graph[t][n] = 0 => m.kind = "add"
      /\ at # 0 /\ graph[t][n] # 0 => m.kind = "move"
  BY DEF Messages
<1> HIDE DEF m
<1>5. \A v \in socks' : \E s \in socks :
        /\ v.id = s.id /\ v.tab = s.tab /\ v.room = s.room /\ v.state = s.state
        /\ v.inbox = IF s.tab = t THEN s.inbox ELSE Append(s.inbox, m)
  BY <1>1, <1>2, <1>3, <1>4, BroadcastReaches
<1>6. \A s \in socks : \E v \in socks' :
        /\ v.id = s.id /\ v.tab = s.tab /\ v.room = s.room /\ v.state = s.state
        /\ v.inbox = IF s.tab = t THEN s.inbox ELSE Append(s.inbox, m)
  BY <1>1, <1>2, <1>3, <1>4, BroadcastReaches
<1>7. /\ graph' \in [Tabs -> Canvases] /\ graph'[t][n] = at
      /\ \A u \in Tabs, k \in Nodes : u # t \/ k # n => graph'[u][k] = graph[u][k]
      /\ \A u \in Tabs, k \in Nodes : graph[u][k] \in 0..2
  BY <1>1, <1>3 DEF Drawn, Canvases
<1>8. \A s \in socks : s \in Sockets /\ s.tab \in Tabs /\ s.inbox \in Seq(Messages)
  BY DEF RoomInv, Typed, Sockets
<1>9. Truthful(m)
  BY <1>4 DEF Truthful
<1>10. Together'
  <2>1. ASSUME NEW v \in socks'
        PROVE  /\ Alive(v) /\ v.id = wsRef[v.tab] /\ v.room = room[v.tab]
               /\ \A i \in 1..Len(v.inbox) : Truthful(v.inbox[i])
    <3>1. PICK s \in socks :
            /\ v.id = s.id /\ v.tab = s.tab /\ v.room = s.room /\ v.state = s.state
            /\ v.inbox = IF s.tab = t THEN s.inbox ELSE Append(s.inbox, m)
      BY <1>5
    <3>2. /\ Alive(s) /\ s.id = wsRef[s.tab] /\ s.room = room[s.tab]
          /\ \A i \in 1..Len(s.inbox) : Truthful(s.inbox[i])
      BY <1>3 DEF Together
    <3>3. \A i \in 1..Len(Append(s.inbox, m)) : Truthful(Append(s.inbox, m)[i])
      BY <1>4, <1>8, <1>9, <3>2, Appended
    <3> QED
      BY <3>1, <3>2, <3>3 DEF Alive
  <2>2. ASSUME NEW u \in Tabs, effect[u] = 0
        PROVE  wsRef[u] = None /\ \A v \in socks' : v.tab # u
    BY <1>3, <1>5, <2>2 DEF Together
  <2>3. ASSUME NEW u \in Tabs
        PROVE  \E v \in socks' : v.tab = u /\ v.state = "open"
    BY <1>2, <1>3, <1>6 DEF Together
  <2>4. \A u, v \in Tabs : connected[u] /\ room[u] = room[v]
    BY <1>2
  <2>5. timer = {}
    BY <1>3 DEF Together
  <2> QED
    BY <1>1, <2>1, <2>2, <2>3, <2>4, <2>5 DEF Together, Alive, Truthful
<1>11. NodesInv'
  <2>1. ASSUME NEW k \in Nodes \ made'
        PROVE  /\ \A u \in Tabs : graph'[u][k] = 0
               /\ \A v \in socks' : Unknown(v.inbox, k)
    <3>1. k # n /\ k \in Nodes \ made
      BY <1>1
    <3>2. ASSUME NEW v \in socks'
          PROVE  Unknown(v.inbox, k)
      <4>1. PICK s \in socks : v.inbox = IF s.tab = t THEN s.inbox ELSE Append(s.inbox, m)
        BY <1>5
      <4>2. Unknown(s.inbox, k)
        BY <1>3, <3>1 DEF NodesInv
      <4>3. Unknown(Append(s.inbox, m), k)
        BY <1>4, <1>8, <3>1, <4>2, Appended DEF Unknown
      <4> QED
        BY <4>1, <4>2, <4>3
    <3> QED
      BY <1>3, <1>7, <3>1, <3>2 DEF NodesInv
  <2>2. ASSUME NEW k \in made, k # n
        PROVE  \/ \A v \in socks' : Lives(graph'[v.tab][k], v.inbox, k)
               \/ \A v \in socks' : Gone(graph'[v.tab][k], v.inbox, k)
    <3>1. k \in Nodes /\ m.node # k /\ ~About(m, k, "add")
      BY <1>3, <1>4, <2>2 DEF Drawn, About
    <3>2. CASE \A s \in socks : Lives(graph[s.tab][k], s.inbox, k)
      <4>1. \A s \in socks : Lives(graph'[s.tab][k], s.inbox, k)
        BY <1>7, <1>8, <2>2, <3>1, <3>2
      <4>2. \A s \in socks : Lives(graph'[s.tab][k], Append(s.inbox, m), k)
        BY <1>4, <1>8, <3>1, <4>1, LivesOn
      <4> QED
        BY <1>5, <4>1, <4>2
    <3>3. CASE \A s \in socks : Gone(graph[s.tab][k], s.inbox, k)
      <4>1. \A s \in socks : Gone(graph'[s.tab][k], s.inbox, k)
        BY <1>7, <1>8, <2>2, <3>1, <3>3
      <4>2. \A s \in socks : Gone(graph'[s.tab][k], Append(s.inbox, m), k)
        BY <1>4, <1>8, <3>1, <4>1, GoneStays
      <4> QED
        BY <1>5, <4>1, <4>2
    <3> QED
      BY <1>3, <3>2, <3>3 DEF NodesInv
  <2>3. \/ \A v \in socks' : Lives(graph'[v.tab][n], v.inbox, n)
        \/ \A v \in socks' : Gone(graph'[v.tab][n], v.inbox, n)
    <3>1. CASE graph[t][n] = 0
      <4>1. n \notin made /\ at = 1 /\ About(m, n, "add")
        BY <1>1, <1>4, <3>1 DEF About
      <4>2. \A s \in socks : graph[s.tab][n] = 0 /\ Unknown(s.inbox, n)
        BY <1>3, <1>8, <4>1 DEF NodesInv
      <4>3. ASSUME NEW s \in socks, s.tab = t
            PROVE  Lives(graph'[s.tab][n], s.inbox, n)
        BY <1>7, <4>1, <4>2, <4>3 DEF Lives, OnlyMoves, Unknown
      <4>4. ASSUME NEW s \in socks, s.tab # t
            PROVE  Lives(graph'[s.tab][n], Append(s.inbox, m), n)
        <5>1. graph'[s.tab][n] = 0
          BY <1>7, <1>8, <4>2, <4>4
        <5> QED
          BY <1>4, <1>8, <4>1, <4>2, <5>1, AddIsAlive
      <4> QED
        BY <1>5, <4>3, <4>4
    <3>2. CASE graph[t][n] # 0 /\ at = 0
      <4>1. n \in made /\ About(m, n, "delete")
        BY <1>3, <1>4, <3>2 DEF About, NodesInv
      <4>2. ASSUME NEW s \in socks, s.tab = t
            PROVE  Gone(graph'[s.tab][n], s.inbox, n)
        <5>1. CASE Lives(graph[t][n], s.inbox, n)
          BY <1>7, <3>2, <4>2, <5>1 DEF Lives, Gone, OnlyMoves, About
        <5>2. CASE Gone(graph[t][n], s.inbox, n)
          BY <1>7, <3>2, <4>2, <5>2 DEF Gone
        <5> QED
          BY <1>3, <4>1, <4>2, <5>1, <5>2 DEF NodesInv
      <4>3. \A s \in socks : Gone(graph'[s.tab][n], Append(s.inbox, m), n)
        BY <1>4, <1>8, <4>1, DeleteIsGone
      <4> QED
        BY <1>5, <4>2, <4>3
    <3>3. CASE graph[t][n] # 0 /\ at # 0
      <4>1. n \in made /\ m.kind = "move" /\ ~About(m, n, "add")
        BY <1>3, <1>4, <3>3 DEF About, NodesInv
      <4>2. CASE \A s \in socks : Lives(graph[s.tab][n], s.inbox, n)
        <5>1. ASSUME NEW s \in socks, s.tab = t
              PROVE  Lives(graph'[s.tab][n], s.inbox, n)
          BY <1>7, <3>3, <4>2, <5>1 DEF Lives
        <5>2. ASSUME NEW s \in socks, s.tab # t
              PROVE  Lives(graph'[s.tab][n], Append(s.inbox, m), n)
          <6>1. graph'[s.tab][n] = graph[s.tab][n]
            BY <1>7, <1>8, <5>2
          <6> QED
            BY <1>4, <1>8, <4>1, <4>2, <6>1, LivesOn
        <5> QED
          BY <1>5, <5>1, <5>2
      <4>3. CASE \A s \in socks : Gone(graph[s.tab][n], s.inbox, n)
        <5>1. ASSUME NEW s \in socks, s.tab = t
              PROVE  Gone(graph'[s.tab][n], s.inbox, n)
          BY <1>7, <3>3, <4>3, <5>1 DEF Gone
        <5>2. ASSUME NEW s \in socks, s.tab # t
              PROVE  Gone(graph'[s.tab][n], Append(s.inbox, m), n)
          <6>1. graph'[s.tab][n] = graph[s.tab][n]
            BY <1>7, <1>8, <5>2
          <6> QED
            BY <1>4, <1>8, <4>1, <4>3, <6>1, GoneStays
        <5> QED
          BY <1>5, <5>1, <5>2
      <4> QED
        BY <1>3, <4>1, <4>2, <4>3 DEF NodesInv
    <3> QED
      BY <3>1, <3>2, <3>3
  <2> QED
    BY <1>1, <2>1, <2>2, <2>3 DEF NodesInv
<1>12. ASSUME ~mingled'
       PROVE  PlacesInv'
  <2>1. ~mingled /\ ~OnTheWay
    BY <1>1, <1>12
  <2>2. PICK g \in Canvases : \A u \in Tabs : graph[u] = g
    BY <1>3, <2>1 DEF PlacesInv, OnTheWay
  <2>3. \A s \in socks : s.inbox = <<>>
    BY <2>1 DEF OnTheWay
  <2>4. /\ graph'[t] \in Canvases /\ \A u \in Tabs : u # t => graph'[u] = g
        /\ graph'[t] = [g EXCEPT ![n] = at]
    BY <1>1, <1>3, <1>7, <2>2 DEF Drawn
  <2>5. After(g, m) = graph'[t]
    <3>1. \A k \in Nodes : k # n => ValueAfter(g[k], m, k) = graph'[t][k]
      BY <1>4, <1>7, <2>2 DEF ValueAfter
    <3>2. ValueAfter(g[n], m, n) = graph'[t][n]
      BY <1>4, <1>7, <2>2 DEF ValueAfter
    <3>3. After(g, m) = [k \in Nodes |-> graph'[t][k]]
      BY <3>1, <3>2 DEF After
    <3> QED
      BY <2>4, <3>3 DEF Canvases
  <2>6. \A v \in socks' : v.tab \in Tabs /\ v.inbox = IF v.tab = t THEN <<>> ELSE <<m>>
    <3>1. Append(<<>>, m) = <<m>>
      OBVIOUS
    <3> QED
      BY <1>5, <1>8, <2>3, <3>1
  <2>7. \A u \in Tabs : (\A v \in socks' : v.tab = u => v.inbox = <<>>) => graph'[u] = graph'[t]
    <3> SUFFICES ASSUME NEW u \in Tabs, u # t
                 PROVE  \E v \in socks' : v.tab = u /\ v.inbox # <<>>
      OBVIOUS
    <3>1. PICK s \in socks : s.tab = u
      BY <1>2, <1>3 DEF Together
    <3>2. PICK v \in socks' : v.tab = u
      BY <1>6, <3>1
    <3> QED
      BY <2>6, <3>2
  <2>8. ASSUME NEW v \in socks', v.inbox # <<>>
        PROVE  Len(v.inbox) = 1 /\ After(graph'[v.tab], Head(v.inbox)) = graph'[t]
    <3>1. v.inbox = <<m>> /\ v.tab # t /\ v.tab \in Tabs
      BY <2>6, <2>8
    <3>2. graph'[v.tab] = g /\ Head(<<m>>) = m /\ Len(<<m>>) = 1
      BY <2>4, <3>1
    <3> QED
      BY <2>5, <3>1, <3>2
  <2> QED
    BY <2>4, <2>7, <2>8 DEF PlacesInv, After, ValueAfter
<1> QED
  BY <1>10, <1>11, <1>12

(* What was sent arrives. *)
LEMMA ReceivesTogether ==
    ASSUME RoomInv, ConvergeInv, ~parted', NEW s \in socks, Receives(s)
    PROVE  Together' /\ NodesInv' /\ (~mingled' => PlacesInv')
<1> DEFINE new == [s EXCEPT !.inbox = Tail(@)]
           m == Head(s.inbox)
<1>1. /\ s.inbox # <<>> /\ socks' = (socks \ {s}) \union {new}
      /\ graph' = [graph EXCEPT ![s.tab][m.node] = IF m.kind = "move" /\ @ = 0 THEN 0 ELSE m.at]
      /\ UNCHANGED <<room, effect, wsRef, connected, timer, made, mingled, parted>>
  BY DEF Receives, tabVars
<1>2. Together /\ NodesInv /\ (~mingled => PlacesInv) /\ Drawn
  BY <1>1 DEF ConvergeInv
<1>3. s \in Sockets /\ s.tab \in Tabs /\ s.inbox \in Seq(Messages)
  BY DEF RoomInv, Typed, Sockets
<1>4. /\ new.id = s.id /\ new.tab = s.tab /\ new.room = s.room /\ new.state = s.state
      /\ new.inbox = Tail(s.inbox) /\ (Alive(new) <=> Alive(s))
  BY <1>3 DEF Sockets, Alive
<1>5. /\ m \in Messages /\ m = s.inbox[1] /\ Len(s.inbox) \in Nat /\ Len(s.inbox) > 0
      /\ Tail(s.inbox) \in Seq(Messages) /\ Len(Tail(s.inbox)) = Len(s.inbox) - 1
      /\ \A i \in 1..(Len(s.inbox) - 1) : Tail(s.inbox)[i] = s.inbox[i + 1]
  BY <1>1, <1>3, Received
<1> HIDE DEF new
<1>6. m.node \in Nodes /\ m.at \in 0..2
  BY <1>5 DEF Messages
<1>7. graph' \in [Tabs -> Canvases] /\ \A u \in Tabs : u # s.tab => graph'[u] = graph[u]
  BY <1>1, <1>2, <1>3, <1>6 DEF Drawn, Canvases
<1>8. \A n \in Nodes : graph'[s.tab][n] = ValueAfter(graph[s.tab][n], m, n)
  BY <1>1, <1>2, <1>3, <1>6 DEF Drawn, Canvases, ValueAfter
<1>9. \A u \in socks : u # s => u.tab \in Tabs /\ u.tab # s.tab
  BY <1>2, OneSocket DEF RoomInv, Typed, Sockets
<1>10. \A i \in 1..Len(s.inbox) : Truthful(s.inbox[i])
  BY <1>2 DEF Together
<1>11. Together'
  <2>1. ASSUME NEW u \in socks'
        PROVE  /\ Alive(u) /\ u.id = wsRef[u.tab] /\ u.room = room[u.tab]
               /\ \A i \in 1..Len(u.inbox) : Truthful(u.inbox[i])
    <3>1. CASE u \in socks
      BY <1>2, <3>1 DEF Together
    <3>2. CASE u = new
      <4>1. ASSUME NEW i \in 1..Len(u.inbox)
            PROVE  Truthful(u.inbox[i])
        <5>1. u.inbox = Tail(s.inbox) /\ i \in 1..(Len(s.inbox) - 1)
          BY <1>4, <1>5, <3>2
        <5>2. i + 1 \in 1..Len(s.inbox) /\ u.inbox[i] = s.inbox[i + 1]
          BY <1>5, <5>1
        <5> QED
          BY <1>10, <5>2
      <4> QED
        BY <1>2, <1>4, <3>2, <4>1 DEF Together
    <3> QED
      BY <1>1, <3>1, <3>2
  <2>2. ASSUME NEW t \in Tabs, effect[t] = 0
        PROVE  wsRef[t] = None /\ \A u \in socks' : u.tab # t
    BY <1>1, <1>2, <1>4, <2>2 DEF Together
  <2>3. ASSUME NEW t \in Tabs, connected[t]
        PROVE  \E u \in socks' : u.tab = t /\ u.state = "open"
    BY <1>1, <1>2, <1>4, <2>3 DEF Together
  <2>4. timer = {} /\ (made # {} => \A t, u \in Tabs : connected[t] /\ room[t] = room[u])
    BY <1>2 DEF Together
  <2> QED
    BY <1>1, <2>1, <2>2, <2>3, <2>4 DEF Together, Alive, Truthful
<1>12. NodesInv'
  <2>1. ASSUME NEW n \in Nodes \ made
        PROVE  /\ \A t \in Tabs : graph'[t][n] = 0
               /\ \A u \in socks' : Unknown(u.inbox, n)
    <3>1. (\A t \in Tabs : graph[t][n] = 0) /\ (\A u \in socks : Unknown(u.inbox, n))
      BY <1>2 DEF NodesInv
    <3>2. m.node # n
      BY <1>5, <3>1 DEF Unknown
    <3>3. graph'[s.tab][n] = 0
      BY <1>3, <1>8, <3>1, <3>2 DEF ValueAfter
    <3>4. Unknown(new.inbox, n)
      BY <1>4, <1>5, <3>1 DEF Unknown
    <3> QED
      BY <1>1, <1>7, <3>1, <3>3, <3>4
  <2>2. ASSUME NEW n \in made
        PROVE  \/ \A u \in socks' : Lives(graph'[u.tab][n], u.inbox, n)
               \/ \A u \in socks' : Gone(graph'[u.tab][n], u.inbox, n)
    <3>1. n \in Nodes /\ graph[s.tab][n] \in 0..2
      BY <1>2, <1>3 DEF Drawn, Canvases
    <3>2. CASE \A u \in socks : Lives(graph[u.tab][n], u.inbox, n)
      <4>1. Lives(graph'[new.tab][n], new.inbox, n)
        BY <1>1, <1>3, <1>4, <1>8, <1>10, <3>1, <3>2, LivesAfter
      <4> QED
        BY <1>1, <1>7, <1>9, <3>2, <4>1
    <3>3. CASE \A u \in socks : Gone(graph[u.tab][n], u.inbox, n)
      <4>1. Gone(graph'[new.tab][n], new.inbox, n)
        BY <1>1, <1>3, <1>4, <1>8, <1>10, <3>1, <3>3, GoneAfter
      <4> QED
        BY <1>1, <1>7, <1>9, <3>3, <4>1
    <3> QED
      BY <1>2, <3>2, <3>3 DEF NodesInv
  <2> QED
    BY <1>1, <2>1, <2>2 DEF NodesInv
<1>13. ASSUME ~mingled'
       PROVE  PlacesInv'
  <2>1. PICK g \in Canvases :
          /\ \A t \in Tabs : (\A u \in socks : u.tab = t => u.inbox = <<>>) => graph[t] = g
          /\ \A u \in socks : u.inbox # <<>>
               => Len(u.inbox) = 1 /\ After(graph[u.tab], Head(u.inbox)) = g
    BY <1>1, <1>2, <1>13 DEF PlacesInv
  <2>2. Len(s.inbox) = 1 /\ After(graph[s.tab], m) = g
    BY <1>1, <2>1
  <2>3. new.inbox = <<>>
    <3>1. new.inbox \in Seq(Messages) /\ Len(new.inbox) = 0
      BY <1>4, <1>5, <2>2
    <3> QED
      BY <3>1
  <2>4. graph'[s.tab] = g
    <3>1. After(graph[s.tab], m) = [n \in Nodes |-> graph'[s.tab][n]]
      BY <1>8 DEF After
    <3>2. graph'[s.tab] \in Canvases
      BY <1>3, <1>7
    <3> QED
      BY <2>2, <3>1, <3>2 DEF Canvases
  <2>5. ASSUME NEW t \in Tabs, \A u \in socks' : u.tab = t => u.inbox = <<>>
        PROVE  graph'[t] = g
    <3>1. CASE t = s.tab
      BY <2>4, <3>1
    <3>2. CASE t # s.tab
      BY <1>1, <1>7, <2>1, <2>5, <3>2
    <3> QED
      BY <3>1, <3>2
  <2>6. ASSUME NEW u \in socks', u.inbox # <<>>
        PROVE  Len(u.inbox) = 1 /\ After(graph'[u.tab], Head(u.inbox)) = g
    <3>1. u \in socks /\ u # s
      BY <1>1, <2>3, <2>6
    <3>2. graph'[u.tab] = graph[u.tab]
      BY <1>7, <1>9, <3>1
    <3> QED
      BY <2>1, <2>6, <3>1, <3>2
  <2> QED
    BY <2>1, <2>5, <2>6 DEF PlacesInv, After, ValueAfter
<1> QED
  BY <1>11, <1>12, <1>13

LEMMA ConvergeInvStep ==
    NoneIsNone /\ RoomInv /\ ConvergeInv /\ [RoomNext]_roomVars => ConvergeInv'
<1> SUFFICES ASSUME NoneIsNone, RoomInv, ConvergeInv, [RoomNext]_roomVars
             PROVE  ConvergeInv'
  OBVIOUS
<1>1. ASSUME NEW t \in Tabs, NEW r \in Rooms \union {None}, Enter(t, r)
      PROVE  ConvergeInv'
  <2>1. Drawn'
    BY <1>1 DEF Enter, canvasVars, ConvergeInv, Drawn
  <2> QED
    BY <1>1, <2>1, EnterTogether DEF ConvergeInv
<1>2. ASSUME NEW t \in Tabs, NEW n \in Nodes, NEW at \in 0..2, ChangeNode(t, n, at)
      PROVE  ConvergeInv'
  <2>1. Drawn'
    BY <1>2 DEF ChangeNode, tabVars, ConvergeInv, Drawn, Canvases
  <2> QED
    BY <1>2, <2>1, ChangeTogether DEF ConvergeInv
<1>3. ASSUME NEW s \in socks, Opens(s)
      PROVE  ConvergeInv'
  <2>1. Drawn'
    BY <1>3 DEF Opens, canvasVars, ConvergeInv, Drawn
  <2> QED
    BY <1>3, <2>1, OpensTogether DEF ConvergeInv
<1>4. ASSUME NEW s \in socks, OnClose(s)
      PROVE  ConvergeInv'
  BY <1>4 DEF OnClose, canvasVars, ConvergeInv, Drawn
<1>5. ASSUME NEW s \in socks, Receives(s)
      PROVE  ConvergeInv'
  <2>1. Drawn'
    <3>1. s.tab \in Tabs /\ s.inbox \in Seq(Messages) /\ s.inbox # <<>>
      BY <1>5 DEF RoomInv, Typed, Sockets, Receives
    <3>2. Head(s.inbox).node \in Nodes /\ Head(s.inbox).at \in 0..2
      BY <3>1, Received DEF Messages
    <3> QED
      BY <1>5, <3>1, <3>2 DEF Receives, tabVars, ConvergeInv, Drawn, Canvases
  <2> QED
    BY <1>5, <2>1, ReceivesTogether DEF ConvergeInv
<1>6. ASSUME NEW w \in timer, Reconnect(w)
      PROVE  ConvergeInv'
  BY <1>6 DEF Reconnect, canvasVars, ConvergeInv, Drawn, Together
<1>7. CASE UNCHANGED roomVars
  BY <1>7 DEF roomVars, ConvergeInv, Drawn, Together, NodesInv, PlacesInv, After, ValueAfter,
              Alive, Truthful, Lives, Gone, Unknown, OnlyMoves, About
<1> QED
  BY <1>1, <1>2, <1>3, <1>4, <1>5, <1>6, <1>7 DEF RoomNext, Closes, Breaks

(* Tabs that stayed in the room agree once all changes have arrived: on the *)
(* nodes, whoever changed what at the same time, and on their places if no  *)
(* change was sent while another was on its way (useCollaboration.ts,       *)
(* handleIncoming; pages/Studio.tsx, the subscription that broadcasts).     *)
THEOREM TabsAgree == NoneIsNone => (RoomSpec => []TabsConverge)
<1>1. RoomInv /\ ConvergeInv => TabsConverge
  <2> SUFFICES ASSUME RoomInv, ConvergeInv, ~parted, ~OnTheWay,
                      NEW t \in Tabs, NEW u \in Tabs, NEW n \in Nodes
               PROVE  /\ (graph[t][n] = 0) = (graph[u][n] = 0)
                      /\ mingled \/ graph[t][n] = graph[u][n]
    BY DEF TabsConverge
  <2>1. Together /\ NodesInv /\ (~mingled => PlacesInv) /\ Drawn
    BY DEF ConvergeInv
  <2>2. (graph[t][n] = 0) = (graph[u][n] = 0)
    BY <2>1, SettledAgree
  <2>3. CASE ~mingled
    <3>1. PICK g \in Canvases : \A v \in Tabs : graph[v] = g
      BY <2>1, <2>3 DEF PlacesInv, OnTheWay
    <3> QED
      BY <2>2, <3>1
  <2> QED
    BY <2>2, <2>3
<1>2. ASSUME NoneIsNone
      PROVE  RoomSpec => []TabsConverge
  <2>1. RoomInit => RoomInv /\ ConvergeInv
    BY RoomInvInit, ConvergeInvInit
  <2>2. RoomInv /\ ConvergeInv /\ [RoomNext]_roomVars => (RoomInv /\ ConvergeInv)'
    BY <1>2, RoomInvStep, ConvergeInvStep
  <2> QED
    BY <1>1, <2>1, <2>2, PTL DEF RoomSpec
<1> QED
  BY <1>2

(***************************************************************************)
(* The types of what the sockets do not depend on.                         *)
(***************************************************************************)
Kept ==
    /\ connected \in [Tabs -> BOOLEAN] /\ attempts \in [Tabs -> 0..MAX_RECONNECT_ATTEMPTS]
    /\ graph \in [Tabs -> [Nodes -> 0..2]] /\ made \subseteq Nodes
    /\ \A t \in Tabs : wsRef[t] # None => wsRef[t] # 0

(* At first no tab is in a room, and every canvas is empty. *)
LEMMA KeptInit == RoomBounds /\ RoomInit => Kept
<1> SUFFICES ASSUME RoomBounds, NEW i \in Sessions, RoomInitOf(i)
             PROVE  Kept
  BY DEF RoomInit
<1>1. /\ connected = [t \in Tabs |-> FALSE] /\ attempts = [t \in Tabs |-> 0]
      /\ made = {} /\ wsRef = [t \in Tabs |-> None]
  BY DEF RoomInitOf
<1>2. graph \in [Tabs -> [Nodes -> 0..2]]
  BY DEF RoomInitOf
<1> QED
  BY <1>1, <1>2 DEF Kept, RoomBounds

(* A socket that closes: attempts are counted up to their limit. *)
LEMMA KeptClose ==
    ASSUME RoomBounds, RoomInv, Kept, NEW s \in socks, OnClose(s)
    PROVE  Kept'
<1>1. s.tab \in Tabs
  BY DEF RoomInv, Typed, Sockets
<1>2. /\ connected' = [connected EXCEPT ![s.tab] = FALSE] /\ wsRef' = [wsRef EXCEPT ![s.tab] = None]
      /\ graph' = graph /\ made' = made
  BY DEF OnClose, canvasVars
<1>3. \/ attempts' = attempts
      \/ attempts[s.tab] < MAX_RECONNECT_ATTEMPTS /\ attempts' = [attempts EXCEPT ![s.tab] = @ + 1]
  BY DEF OnClose
<1>4. attempts' \in [Tabs -> 0..MAX_RECONNECT_ATTEMPTS]
  <2>1. \A a \in 0..MAX_RECONNECT_ATTEMPTS :
           a < MAX_RECONNECT_ATTEMPTS => a + 1 \in 0..MAX_RECONNECT_ATTEMPTS
    BY DEF RoomBounds
  <2> QED
    BY <1>1, <1>3, <2>1 DEF Kept
<1>5. \A t \in Tabs : wsRef'[t] # None => wsRef'[t] # 0
  BY <1>1, <1>2 DEF RoomInv, Typed, Kept
<1> QED
  BY <1>1, <1>2, <1>4, <1>5 DEF Kept

(* Every step keeps the types. *)
LEMMA KeptStep == RoomBounds /\ RoomInv /\ Kept /\ [RoomNext]_roomVars => Kept'
<1> SUFFICES ASSUME RoomBounds, RoomInv, Kept, [RoomNext]_roomVars
             PROVE  Kept'
  OBVIOUS
<1> USE DEF Kept
<1>0. madeSocks \in Nat /\ madeSocks + 1 # 0 /\ 0 \in 0..MAX_RECONNECT_ATTEMPTS
      /\ wsRef \in [Tabs -> Nat \union {None}]
  BY DEF RoomInv, Typed, RoomBounds
<1>1. ASSUME NEW t \in Tabs, NEW r \in Rooms \union {None}, Enter(t, r)
      PROVE  Kept'
  <2>1. /\ connected' = [connected EXCEPT ![t] = FALSE]
        /\ attempts' \in {attempts, [attempts EXCEPT ![t] = 0]}
        /\ \/ wsRef' = [wsRef EXCEPT ![t] = None]
           \/ wsRef' = [wsRef EXCEPT ![t] = madeSocks + 1]
        /\ graph' = graph /\ made' = made
    BY <1>1 DEF Enter, canvasVars
  <2> QED
    BY <1>0, <2>1
<1>2. ASSUME NEW t \in Tabs, NEW n \in Nodes, NEW at \in 0..2, ChangeNode(t, n, at)
      PROVE  Kept'
  BY <1>2 DEF ChangeNode, tabVars
<1>3. ASSUME NEW s \in socks, Opens(s)
      PROVE  Kept'
  <2>1. s.tab \in Tabs
    BY DEF RoomInv, Typed, Sockets
  <2> QED
    BY <1>0, <1>3, <2>1 DEF Opens, canvasVars
<1>4. ASSUME NEW s \in socks, Closes(s) \/ Breaks(s)
      PROVE  Kept'
  BY <1>4, KeptClose DEF Closes, Breaks
<1>5. ASSUME NEW s \in socks, Receives(s)
      PROVE  Kept'
  <2>1. PICK m \in Messages : m = Head(s.inbox)
    <3>1. s.inbox \in Seq(Messages) /\ s.inbox # <<>>
      BY <1>5 DEF Receives, RoomInv, Typed, Sockets
    <3> QED
      BY <3>1
  <2>2. s.tab \in Tabs /\ m.node \in Nodes /\ m.at \in 0..2
    BY DEF RoomInv, Typed, Sockets, Messages
  <2>3. /\ graph' = [graph EXCEPT ![s.tab][m.node] = IF m.kind = "move" /\ @ = 0 THEN 0 ELSE m.at]
        /\ UNCHANGED <<connected, attempts, made, wsRef>>
    BY <1>5, <2>1 DEF Receives, tabVars
  <2> QED
    BY <2>2, <2>3
<1>6. ASSUME NEW w \in timer, Reconnect(w)
      PROVE  Kept'
  <2>1. w.tab \in Tabs
    BY DEF RoomInv, Typed, Timers
  <2> QED
    BY <1>0, <1>6, <2>1 DEF Reconnect, canvasVars
<1>7. CASE UNCHANGED roomVars
  BY <1>7 DEF roomVars
<1> QED
  BY <1>1, <1>2, <1>3, <1>4, <1>5, <1>6, <1>7 DEF RoomNext

(* The variables of useCollaboration and usePresence keep their types, and a *)
(* tab makes no more attempts to reconnect than the hooks allow.             *)
THEOREM RoomTypeCorrect == NoneIsNone /\ RoomBounds => (RoomSpec => []RoomTypeOK)
<1> SUFFICES ASSUME NoneIsNone, RoomBounds
             PROVE  RoomSpec => []RoomTypeOK
  OBVIOUS
<1>1. RoomInv /\ Kept => RoomTypeOK
  <2> SUFFICES ASSUME RoomInv, Kept
               PROVE  RoomTypeOK
    OBVIOUS
  <2>1. ASSUME NEW t \in Tabs, wsRef[t] # None
        PROVE  wsRef[t] \in 1..madeSocks
    BY <2>1 DEF RoomInv, Typed, Numbered, Kept
  <2> QED
    BY <2>1 DEF RoomInv, Typed, Kept, RoomTypeOK
<1> QED
  BY <1>1, RoomInvInit, RoomInvStep, KeptInit, KeptStep, PTL DEF RoomSpec
=============================================================================
