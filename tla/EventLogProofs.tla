---------------------------- MODULE EventLogProofs ----------------------------
(***************************************************************************)
(* Proofs about EventLog, for any threads, any writers besides, any sizes  *)
(* and any number of failures: its types; that the events of the listener  *)
(* are logged in order and never passed over by a stream; that a stream    *)
(* that has ended is complete.                                             *)
(*                                                                         *)
(* The idea: a number that the listener has yet to write is in the log     *)
(* already (it will collide) or beyond all of the log.  So what it commits *)
(* is beyond all of the log, whatever was dropped or renumbered before.    *)
(***************************************************************************)
EXTENDS EventLog, FiniteSetTheorems, SequenceTheorems, WellFoundedInduction, TLAPS

-------------------------------------------------------------------------------
(* The highest number.                                                     *)

(* A set of naturals has a least one.                                      *)
LEMMA LeastNat ==
    ASSUME NEW T, T \subseteq Nat, T # {}
    PROVE  \E n \in T : \A m \in T : n <= m
<1> DEFINE R == OpToRel(<, Nat)
<1>1. IsWellFoundedOn(R, Nat)
    BY NatLessThanWellFounded
<1>2. \A n, m \in Nat : <<m, n>> \in R <=> m < n
    BY DEF OpToRel
<1>3. \E n \in T : \A m \in T : ~ (<<m, n>> \in R)
  <2> HIDE DEF R
  <2> QED BY <1>1, WFMin
<1>4. PICK n \in T : \A m \in T : ~ (<<m, n>> \in R)
    BY <1>3
<1>5. \A m \in T : ~ (m < n)
    BY <1>2, <1>4
<1> QED BY <1>5

Bounded(S) == \E b \in Nat : \A x \in S : x.seq <= b

(* A log whose numbers are bounded has a highest one. *)
LEMMA HighestIsMax ==
    ASSUME NEW S, \A x \in S : x.seq \in Nat, Bounded(S), S # {}
    PROVE  /\ Highest(S) \in Seqs(S)
           /\ Highest(S) \in Nat
           /\ \A x \in S : x.seq <= Highest(S)
<1>1. PICK b \in Nat : \A x \in S : x.seq <= b
    BY DEF Bounded
<1> DEFINE T == {n \in Nat : \E x \in S : n = b - x.seq}
<1>2. \A x \in S : b - x.seq \in T
    BY <1>1
<1>3. T # {}
    BY <1>2
<1>4. PICK n \in T : \A m \in T : n <= m
  <2> HIDE DEF T
  <2>1. T \subseteq Nat
    BY DEF T
  <2> QED BY <1>3, <2>1, LeastNat
<1>5. PICK z \in S : n = b - z.seq
    OBVIOUS
<1>6. \A x \in S : x.seq <= z.seq
  <2> TAKE x \in S
  <2>1. n <= b - x.seq
    BY <1>2, <1>4
  <2> QED BY <1>1, <1>5, <2>1
<1>7. z.seq \in Seqs(S) /\ \A t \in Seqs(S) : t <= z.seq
    BY <1>6 DEF Seqs
<1>8. Highest(S) \in Seqs(S) /\ \A t \in Seqs(S) : t <= Highest(S)
    BY <1>7 DEF Highest
<1>9. Seqs(S) \subseteq Nat
    BY DEF Seqs
<1> QED BY <1>8, <1>9 DEF Seqs

-------------------------------------------------------------------------------
(* Sequences of events.                                                    *)

(* Later events have higher numbers. *)
Rising(q) == \A i, j \in DOMAIN q : i < j => q[i].id < q[j].id /\ q[i].seq < q[j].seq

(* The events of a sequence.                                               *)
LEMMA ItemsOf ==
    ASSUME NEW q \in Seq(EventRow)
    PROVE  /\ Len(q) \in Nat
           /\ DOMAIN q = 1..Len(q)
           /\ \A i \in 1..Len(q) : q[i] \in Items(q)
           /\ Items(q) \subseteq EventRow
           /\ IsFiniteSet(Items(q))
<1>1. Len(q) \in Nat /\ DOMAIN q = 1..Len(q) /\ q \in [1..Len(q) -> EventRow]
    BY LenProperties
<1>2. q \in Surjection(1..Len(q), Items(q))
    BY <1>1 DEF Surjection, Items
<1>3. IsFiniteSet(1..Len(q))
  <2>1. 1 \in Int /\ Len(q) \in Int
    BY <1>1
  <2> QED BY <2>1, FS_Interval
<1>4. IsFiniteSet(Items(q))
    BY <1>2, <1>3, FS_Surjection
<1> QED BY <1>1, <1>4 DEF Items

(* The empty sequence has none.                                            *)
LEMMA ItemsEmpty == Items(<<>>) = {} /\ Rising(<<>>) /\ <<>> \in Seq(EventRow)
    BY DEF Items, Rising

(* A later event at the end keeps the order.                               *)
LEMMA ItemsAppend ==
    ASSUME NEW q \in Seq(EventRow), NEW e \in EventRow
    PROVE  /\ Append(q, e) \in Seq(EventRow)
           /\ Append(q, e) # <<>>
           /\ Items(Append(q, e)) = Items(q) \cup {e}
           /\ Rising(q) /\ (\A x \in Items(q) : x.id < e.id /\ x.seq < e.seq)
                  => Rising(Append(q, e))
<1> DEFINE r == Append(q, e)
<1>1. /\ r \in Seq(EventRow) /\ r # <<>> /\ Len(r) = Len(q) + 1
      /\ \A i \in 1..Len(q) : r[i] = q[i]
      /\ r[Len(q) + 1] = e
    BY AppendProperties
<1> HIDE DEF r
<1>2. /\ DOMAIN r = 1..(Len(q) + 1) /\ DOMAIN q = 1..Len(q) /\ Len(q) \in Nat
      /\ \A i \in 1..Len(q) : q[i] \in Items(q)
    BY <1>1, ItemsOf
<1>3. Items(r) = Items(q) \cup {e}
  <2>1. ASSUME NEW x \in Items(r) PROVE x \in Items(q) \cup {e}
    <3>1. PICK i \in DOMAIN r : x = r[i]
        BY <2>1 DEF Items
    <3>2. CASE i = Len(q) + 1
        BY <1>1, <3>1, <3>2
    <3>3. CASE i \in 1..Len(q)
        BY <1>1, <1>2, <3>1, <3>3
    <3> QED BY <1>2, <3>2, <3>3
  <2>2. ASSUME NEW x \in Items(q) PROVE x \in Items(r)
    <3>1. PICK i \in DOMAIN q : x = q[i]
        BY <2>2 DEF Items
    <3> QED BY <1>1, <1>2, <3>1 DEF Items
  <2>3. e \in Items(r)
    BY <1>1, <1>2 DEF Items
  <2> QED BY <2>1, <2>2, <2>3
<1>4. ASSUME Rising(q), \A x \in Items(q) : x.id < e.id /\ x.seq < e.seq
      PROVE  Rising(r)
  <2> SUFFICES ASSUME NEW i \in DOMAIN r, NEW j \in DOMAIN r, i < j
               PROVE  r[i].id < r[j].id /\ r[i].seq < r[j].seq
    BY DEF Rising
  <2>1. i \in 1..Len(q) /\ r[i] = q[i]
    BY <1>1, <1>2
  <2>2. CASE j = Len(q) + 1
    BY <1>1, <1>2, <1>4, <2>1, <2>2
  <2>3. CASE j \in 1..Len(q)
    BY <1>1, <1>2, <1>4, <2>1, <2>3 DEF Rising
  <2> QED BY <1>2, <2>2, <2>3
<1> QED BY <1>1, <1>3, <1>4 DEF r

(* Numbering keeps the events and their order. *)
LEMMA NumberedProps ==
    ASSUME NEW q \in Seq(EventRow), NEW s \in Nat
    PROVE  /\ Numbered(q, s) \in Seq(EventRow)
           /\ Len(Numbered(q, s)) = Len(q)
           /\ \A x \in Items(Numbered(q, s)) :
                  x.seq >= s /\ x.seq < s + Len(q) /\ \E y \in Items(q) : y.id = x.id
           /\ \A y \in Items(q) : \E x \in Items(Numbered(q, s)) : x.id = y.id
           /\ Rising(q) => Rising(Numbered(q, s))
<1> DEFINE r == Numbered(q, s)
<1>1. /\ Len(q) \in Nat /\ DOMAIN q = 1..Len(q)
      /\ \A i \in 1..Len(q) : q[i] \in EventRow /\ q[i] \in Items(q)
    BY ItemsOf
<1>2. r = [i \in 1..Len(q) |-> [q[i] EXCEPT !.seq = s + i - 1]]
    BY <1>1 DEF Numbered
<1>3. \A i \in 1..Len(q) : /\ r[i] \in EventRow
                           /\ r[i].id = q[i].id /\ r[i].seq = s + i - 1
  <2> SUFFICES ASSUME NEW i \in 1..Len(q)
               PROVE  /\ r[i] \in EventRow
                      /\ r[i].id = q[i].id /\ r[i].seq = s + i - 1
    OBVIOUS
  <2>1. s + i - 1 \in Nat
    BY <1>1
  <2>2. r[i] = [q[i] EXCEPT !.seq = s + i - 1]
    BY <1>2
  <2>3. /\ q[i] = [kind |-> q[i].kind, id |-> q[i].id, seq |-> q[i].seq]
         /\ q[i].kind \in {"event"} /\ q[i].id \in Nat
    BY <1>1 DEF EventRow
  <2>4. r[i] = [kind |-> q[i].kind, id |-> q[i].id, seq |-> s + i - 1]
    BY <2>2, <2>3
  <2> QED BY <2>1, <2>3, <2>4 DEF EventRow
<1>4. r \in Seq(EventRow) /\ Len(r) = Len(q) /\ DOMAIN r = 1..Len(q)
  <2>1. r \in [1..Len(q) -> EventRow]
    BY <1>2, <1>3
  <2>2. r \in Seq(EventRow)
    BY <1>1, <2>1, SeqDef
  <2> QED BY <1>1, <1>2, <2>2, LenProperties
<1> HIDE DEF r
<1>5. ASSUME NEW x \in Items(r)
      PROVE  x.seq >= s /\ x.seq < s + Len(q) /\ \E y \in Items(q) : y.id = x.id
  <2>1. PICK i \in 1..Len(q) : x = r[i]
    BY <1>4, <1>5 DEF Items
  <2> QED BY <1>1, <1>3, <2>1
<1>6. ASSUME NEW y \in Items(q)
      PROVE  \E x \in Items(r) : x.id = y.id
  <2>1. PICK i \in 1..Len(q) : y = q[i]
    BY <1>1, <1>6 DEF Items
  <2>2. r[i] \in Items(r)
    BY <1>4 DEF Items
  <2> QED BY <1>3, <2>1, <2>2
<1>7. ASSUME Rising(q) PROVE Rising(r)
    BY <1>1, <1>3, <1>4, <1>7 DEF Rising
<1> QED BY <1>4, <1>5, <1>6, <1>7 DEF r

(* What _requeue_locked does to the batch and what was buffered since: the *)
(* order is kept, and all but the first n events.                          *)
LEMMA RequeueProps ==
    ASSUME NEW b \in Seq(EventRow), NEW l \in Seq(EventRow), NEW n \in Nat,
           n <= Len(b \o l),
           Rising(b), Rising(l),
           \A x \in Items(b), y \in Items(l) : x.id < y.id /\ x.seq < y.seq
    PROVE  LET m == b \o l
               r == SubSeq(m, n + 1, Len(m))
           IN  /\ m \in Seq(EventRow)
               /\ r \in Seq(EventRow)
               /\ Items(r) \subseteq Items(b) \cup Items(l)
               /\ Rising(r)
               /\ \A i \in 1..n : m[i] \in Items(b) \cup Items(l)
               /\ \A x \in Items(b) \cup Items(l) : x \in Items(r) \/ \E i \in 1..n : x = m[i]
<1> DEFINE m == b \o l
           r == SubSeq(m, n + 1, Len(m))
<1>1. /\ m \in Seq(EventRow)
      /\ Len(m) = Len(b) + Len(l)
      /\ \A i \in 1..Len(b) + Len(l) : m[i] = IF i <= Len(b) THEN b[i] ELSE l[i - Len(b)]
    BY ConcatProperties
<1>2. /\ Len(b) \in Nat /\ Len(l) \in Nat
      /\ DOMAIN b = 1..Len(b) /\ DOMAIN l = 1..Len(l)
      /\ \A i \in 1..Len(b) : b[i] \in Items(b) /\ b[i] \in EventRow
      /\ \A i \in 1..Len(l) : l[i] \in Items(l) /\ l[i] \in EventRow
    BY ItemsOf
<1>3. n <= Len(m)
    OBVIOUS
<1> HIDE DEF m
<1>4. \A i \in 1..Len(m) : m[i] \in Items(b) \cup Items(l) /\ m[i] \in EventRow
  <2> SUFFICES ASSUME NEW i \in 1..Len(m)
               PROVE  m[i] \in Items(b) \cup Items(l) /\ m[i] \in EventRow
    OBVIOUS
  <2>1. CASE i <= Len(b)
    <3>1. i \in 1..Len(b) /\ m[i] = b[i]
        BY <1>1, <1>2, <2>1
    <3> QED BY <1>2, <3>1
  <2>2. CASE i > Len(b)
    <3>1. i - Len(b) \in 1..Len(l) /\ m[i] = l[i - Len(b)]
        BY <1>1, <1>2, <2>2
    <3> QED BY <1>2, <3>1
  <2> QED BY <1>1, <1>2, <2>1, <2>2
<1>5. /\ r \in Seq(EventRow)
      /\ Len(r) = Len(m) - n
      /\ \A i \in 1..(Len(m) - n) : r[i] = m[n + i]
  <2>1. n + 1 \in Int /\ Len(m) \in Int /\ \A i \in (n + 1)..Len(m) : m[i] \in EventRow
    BY <1>1, <1>2, <1>4
  <2>2. /\ r \in Seq(EventRow)
        /\ Len(r) = IF n + 1 <= Len(m) THEN Len(m) - (n + 1) + 1 ELSE 0
        /\ \A i \in 1..(Len(m) - (n + 1) + 1) : r[i] = m[(n + 1) + i - 1]
    BY <2>1, SubSeqProperties
  <2> QED BY <1>1, <1>2, <1>3, <2>2
<1> HIDE DEF r
<1>6. DOMAIN r = 1..(Len(m) - n)
    BY <1>5, ItemsOf
<1>7. \A i, j \in 1..Len(m) : i < j => m[i].id < m[j].id /\ m[i].seq < m[j].seq
  <2> SUFFICES ASSUME NEW i \in 1..Len(m), NEW j \in 1..Len(m), i < j
               PROVE  m[i].id < m[j].id /\ m[i].seq < m[j].seq
    OBVIOUS
  <2>1. CASE j <= Len(b)
    <3>1. i \in 1..Len(b) /\ j \in 1..Len(b) /\ m[i] = b[i] /\ m[j] = b[j]
        BY <1>1, <1>2, <2>1
    <3> QED BY <1>2, <3>1 DEF Rising
  <2>2. CASE i <= Len(b) /\ j > Len(b)
    <3>1. /\ i \in 1..Len(b) /\ j - Len(b) \in 1..Len(l)
          /\ m[i] = b[i] /\ m[j] = l[j - Len(b)]
        BY <1>1, <1>2, <2>2
    <3> QED BY <1>2, <3>1
  <2>3. CASE i > Len(b)
    <3>1. /\ i - Len(b) \in 1..Len(l) /\ j - Len(b) \in 1..Len(l)
          /\ i - Len(b) < j - Len(b)
          /\ m[i] = l[i - Len(b)] /\ m[j] = l[j - Len(b)]
        BY <1>1, <1>2, <2>3
    <3> QED BY <1>2, <3>1 DEF Rising
  <2> QED BY <1>1, <1>2, <2>1, <2>2, <2>3
<1>8. Rising(r)
  <2> SUFFICES ASSUME NEW i \in DOMAIN r, NEW j \in DOMAIN r, i < j
               PROVE  r[i].id < r[j].id /\ r[i].seq < r[j].seq
    BY DEF Rising
  <2>1. i \in 1..(Len(m) - n) /\ j \in 1..(Len(m) - n)
    BY <1>6
  <2>2. n + i \in 1..Len(m) /\ n + j \in 1..Len(m) /\ n + i < n + j
    BY <1>1, <1>2, <2>1
  <2>3. r[i] = m[n + i] /\ r[j] = m[n + j]
    BY <1>5, <2>1
  <2> QED BY <1>7, <2>2, <2>3
<1>9. ASSUME NEW x \in Items(r) PROVE x \in Items(b) \cup Items(l)
  <2>1. PICK i \in 1..(Len(m) - n) : x = r[i]
    BY <1>6, <1>9 DEF Items
  <2>2. n + i \in 1..Len(m) /\ x = m[n + i]
    BY <1>1, <1>2, <1>5, <2>1
  <2> QED BY <1>4, <2>2
<1>10. \A i \in 1..n : m[i] \in Items(b) \cup Items(l)
    BY <1>1, <1>2, <1>3, <1>4
<1>11. \A x \in Items(b) \cup Items(l) : \E i \in 1..Len(m) : x = m[i]
  <2>1. ASSUME NEW x \in Items(b) PROVE \E i \in 1..Len(m) : x = m[i]
    <3>1. PICK i \in 1..Len(b) : x = b[i]
        BY <1>2, <2>1 DEF Items
    <3>2. i \in 1..Len(m) /\ m[i] = x
        BY <1>1, <1>2, <3>1
    <3> QED BY <3>2
  <2>2. ASSUME NEW x \in Items(l) PROVE \E i \in 1..Len(m) : x = m[i]
    <3>1. PICK i \in 1..Len(l) : x = l[i]
        BY <1>2, <2>2 DEF Items
    <3>2. Len(b) + i \in 1..Len(m) /\ m[Len(b) + i] = x
      <4>1. /\ Len(b) + i \in 1..(Len(b) + Len(l))
            /\ ~(Len(b) + i <= Len(b)) /\ (Len(b) + i) - Len(b) = i
        BY <1>2
      <4> QED BY <1>1, <3>1, <4>1
    <3> QED BY <3>2
  <2> QED BY <2>1, <2>2
<1>12. ASSUME NEW x \in Items(b) \cup Items(l)
       PROVE  x \in Items(r) \/ \E i \in 1..n : x = m[i]
  <2>1. PICK i \in 1..Len(m) : x = m[i]
    BY <1>11, <1>12
  <2>2. CASE i <= n
    BY <1>1, <1>2, <2>1, <2>2
  <2>3. CASE i > n
    <3>1. i - n \in 1..(Len(m) - n) /\ r[i - n] = x
      <4>1. i - n \in 1..(Len(m) - n) /\ n + (i - n) = i
        BY <1>1, <1>2, <2>1, <2>3
      <4> QED BY <1>5, <2>1, <4>1
    <3> QED BY <1>6, <3>1 DEF Items
  <2> QED BY <1>1, <1>2, <2>1, <2>2, <2>3
<1> QED BY <1>1, <1>5, <1>8, <1>9, <1>10, <1>12 DEF m, r

-------------------------------------------------------------------------------
(* The invariant.                                                          *)

(* A number that is in the log or beyond all of it. *)
Safe(s) == s \in Seqs(rows) \/ \A x \in rows : x.seq < s

Queued == Items(batch) \cup Items(buffer)

(* The log has one row for a number, and finitely many. *)
LogInv ==
    /\ IsFiniteSet(rows)
    /\ Bounded(rows)
    /\ \A x, y \in rows : x.seq = y.seq => x = y

(* What the listener has yet to write, in its order. *)
QueueInv ==
    /\ io = NoThread => batch = <<>>
    /\ Rising(batch) /\ Rising(buffer)
    /\ \A x \in Queued : x.seq < nextSeq
    /\ \A x \in Items(batch), y \in Items(buffer) : x.id < y.id
    /\ (\E t \in Threads : pc[t] \in {"write", "requeue"})
           => \A x \in Items(batch), y \in Items(buffer) : x.seq < y.seq

(* None of its numbers was passed without being taken, nor will be those   *)
(* it has yet to give.                                                     *)
NumberInv ==
    /\ \A x \in Queued : Safe(x.seq)
    /\ \A s \in Nat : s >= nextSeq => Safe(s)

(* Every event is somewhere, and those of the log come before the queue,   *)
(* in order.                                                               *)
OrderInv ==
    /\ \A i \in 1..made : i \in dropped \/ InLog(i) \/ \E x \in Queued : x.id = i
    /\ \A x \in rows : x.kind = "event" =>
           /\ x.id \in 1..made
           /\ \A y \in Queued : x.id < y.id
           /\ \A y \in rows : y.kind = "event" /\ x.id < y.id => x.seq < y.seq

(* The numbers the others are about to take. *)
Pending(a) == apc[a] \in {"insert", "inserted"}

AppenderInv ==
    /\ \A a \in Appenders : Pending(a) =>
           /\ aseq[a] = 0 \/ aseq[a] - 1 \in Seqs(rows)
           /\ Safe(aseq[a]) \/ aseq[a] \in passed
    /\ \A a \in Appenders : apc[a] = "inserted" =>
           /\ aseq[a] \notin Seqs(rows)
           /\ \A b \in Appenders : apc[b] = "inserted" /\ aseq[b] = aseq[a] => b = a

(* Where the stream is. *)
StreamInv ==
    /\ last = -1 \/ last \in Seqs(rows)
    /\ sawEnd => settled
    /\ spc = "ended" => settled

IInv == TypeOK /\ LogInv /\ QueueInv /\ NumberInv /\ OrderInv /\ AppenderInv /\ StreamInv
            /\ NothingSkipped /\ StreamComplete

(* The types in groups. *)
LogTypes ==
    /\ rows \subseteq Row /\ seen \subseteq rows /\ inTime \subseteq rows
    /\ passed \subseteq Nat /\ settled \in BOOLEAN

QueueTypes ==
    /\ buffer \in Seq(EventRow) /\ batch \in Seq(EventRow)
    /\ \A x \in Queued : x.id \in 1..made
    /\ nextSeq \in Nat /\ made \in Nat
    /\ dropped \subseteq 1..made

ThreadTypes ==
    /\ flushing \in BOOLEAN /\ withTask \in BOOLEAN
    /\ io \in Threads \cup {NoThread}
    /\ \A t \in Threads : io = t <=> pc[t] \in Writing
    /\ timer \in Timers \cup {NoThread}
    /\ pc \in [Threads -> Places]

RestTypes ==
    /\ tries \in Nat /\ fails \in Nat
    /\ phase \in {"crew", "closing", "flushed", "done"}
    /\ apc \in [Appenders -> {"new", "insert", "inserted", "done", "raised"}]
    /\ aseq \in [Appenders -> Nat] /\ atries \in [Appenders -> Nat]
    /\ last \in Nat \cup {-1}
    /\ spc \in {"status", "events", "ended"}
    /\ sawEnd \in BOOLEAN /\ hadEvents \in BOOLEAN

(* The groups are all of the types.                                        *)
LEMMA TypeGroups == TypeOK <=> LogTypes /\ QueueTypes /\ ThreadTypes /\ RestTypes
    BY DEF TypeOK, LogTypes, QueueTypes, ThreadTypes, RestTypes, Queued

(* After a step, too.                                                      *)
LEMMA TypeGroupsNext == LogTypes' /\ QueueTypes' /\ ThreadTypes' /\ RestTypes' => TypeOK'
    BY DEF TypeOK, LogTypes, QueueTypes, ThreadTypes, RestTypes, Queued

-------------------------------------------------------------------------------
(* Threads.                                                                *)

(* One thread at most has a batch. *)
LEMMA OneWriter ==
    ASSUME ThreadTypes, NEW t \in Threads, pc[t] \in Writing
    PROVE  io = t /\ \A u \in Threads : u # t => pc[u] \notin Writing
    BY DEF ThreadTypes

(* A timer that is started has no batch.                                   *)
LEMMA ScheduleProps ==
    ASSUME NEW at, at \in [Threads -> Places], timer \in Timers \cup {NoThread}, Schedule(at)
    PROVE  /\ pc' \in [Threads -> Places]
           /\ timer' \in Timers \cup {NoThread}
           /\ \A t \in Threads : pc'[t] \in Writing \/ at[t] \in Writing => pc'[t] = at[t]
<1>1. CASE pc' = at /\ UNCHANGED timer
    BY <1>1
<1>2. CASE \E u \in Timers : at[u] = "idle" /\ timer' = u /\ pc' = [at EXCEPT ![u] = "waiting"]
  <2>1. PICK u \in Timers : at[u] = "idle" /\ timer' = u /\ pc' = [at EXCEPT ![u] = "waiting"]
    BY <1>2
  <2>2. u \in Threads /\ "waiting" \in Places
    BY DEF Threads, Places
  <2>3. \A t \in Threads : pc'[t] = IF t = u THEN "waiting" ELSE at[t]
    BY <2>1
  <2> QED BY <2>1, <2>2, <2>3 DEF Writing
<1> QED BY <1>1, <1>2 DEF Schedule

(* Nor has one that is cancelled.                                          *)
LEMMA CancelTimerProps ==
    ASSUME NEW at, at \in [Threads -> Places], timer \in Timers \cup {NoThread}, CancelTimer(at)
    PROVE  /\ pc' \in [Threads -> Places]
           /\ timer' \in Timers \cup {NoThread}
           /\ \A t \in Threads : pc'[t] \in Writing \/ at[t] \in Writing => pc'[t] = at[t]
<1>1. CASE pc' = at
    BY <1>1 DEF CancelTimer
<1>2. CASE at[timer] = "waiting" /\ timer # NoThread /\ pc' = [at EXCEPT ![timer] = "idle"]
  <2>1. timer \in Threads /\ "idle" \in Places
    BY <1>2 DEF Threads, Places
  <2>2. \A t \in Threads : pc'[t] = IF t = timer THEN "idle" ELSE at[t]
    BY <1>2
  <2> QED BY <1>2, <2>1, <2>2 DEF CancelTimer, Writing
<1> QED BY <1>1, <1>2 DEF CancelTimer

(* The thread that is through with _io_lock leaves nobody behind there. *)
LEMMA ReleaseProps ==
    ASSUME ThreadTypes, NEW t \in Threads, pc[t] \in Writing, NEW failed, Release(t, failed)
    PROVE  /\ ThreadTypes'
           /\ io' = NoThread /\ batch' = <<>>
           /\ \A u \in Threads : pc'[u] \notin Writing
<1> DEFINE at == Move(t, "idle")
<1>1. at \in [Threads -> Places] /\ \A u \in Threads : at[u] \notin Writing
    BY OneWriter DEF ThreadTypes, Move, Places, Writing
<1>2. Schedule(at) \/ (pc' = at /\ UNCHANGED timer)
    BY DEF Release
<1> HIDE DEF at
<1>3. timer \in Timers \cup {NoThread}
    BY DEF ThreadTypes
<1>4. /\ pc' \in [Threads -> Places]
      /\ timer' \in Timers \cup {NoThread}
      /\ \A u \in Threads : pc'[u] \notin Writing
    BY <1>1, <1>2, <1>3, ScheduleProps
<1>5. io' = NoThread /\ batch' = <<>> /\ flushing' = FALSE /\ withTask' = FALSE
    BY DEF Release
<1>6. NoThread \notin Threads
    BY EventLogAssumption
<1> QED BY <1>4, <1>5, <1>6 DEF ThreadTypes

-------------------------------------------------------------------------------
(* The steps, by what they touch.                                          *)

(* Nothing but where threads are, timers, and the phase of the run. *)
Quiet ==
    /\ UNCHANGED <<dbVars, bufVars, batch, io, apc, aseq, last, seen, spc, sawEnd>>
    /\ \A t \in Threads : pc'[t] \in {"write", "requeue"} => pc[t] \in {"write", "requeue"}

QuietStep ==
    \/ \E t \in Threads : \/ ScheduleFlush(t) \/ WriteTaskEvent(t) \/ Fire(t)
                          \/ TakeBuffer(t) /\ buffer = <<>>
                          \/ Collide(t) \/ Outage(t)
    \/ Close \/ FinalFlush \/ Flushed \/ UNCHANGED vars

ListenerStep(t) ==
    \/ WriteEvent(t) \/ Drain(t)
    \/ TakeBuffer(t) /\ buffer # <<>>
    \/ CommitBatch(t) \/ Renumber(t) \/ RenumberFails(t) \/ Requeue(t)

AppenderStep(a) == AppendRead(a) \/ AppendInsert(a) \/ AppendCommit(a)

(* Every step is one of these.                                             *)
LEMMA NextCases ==
    ASSUME [Next]_vars
    PROVE  \/ QuietStep
           \/ \E t \in Threads : ListenerStep(t)
           \/ Complete \/ Cancel
           \/ \E a \in Appenders : AppenderStep(a)
           \/ PollStatus \/ PollEvents
<1>1. ASSUME NEW t \in Threads, WriteEvent(t) \/ WriteTaskEvent(t) \/ ThreadStep(t)
      PROVE  QuietStep \/ ListenerStep(t)
  <2>1. CASE \/ ScheduleFlush(t) \/ WriteTaskEvent(t) \/ Fire(t)
             \/ TakeBuffer(t) /\ buffer = <<>>
             \/ Collide(t) \/ Outage(t)
    BY <2>1 DEF QuietStep
  <2>2. CASE TakeBuffer(t) /\ buffer # <<>>
    BY <2>2 DEF ListenerStep
  <2>3. CASE \/ WriteEvent(t) \/ Drain(t) \/ CommitBatch(t)
             \/ Renumber(t) \/ RenumberFails(t) \/ Requeue(t)
    BY <2>3 DEF ListenerStep
  <2>4. CASE TakeBuffer(t)
    BY <2>1, <2>2, <2>4
  <2> QED BY <1>1, <2>1, <2>3, <2>4 DEF ThreadStep
<1>2. CASE \E t \in Threads : WriteEvent(t) \/ WriteTaskEvent(t) \/ ThreadStep(t)
    BY <1>1, <1>2
<1>3. CASE CloserStep \/ Close \/ Over \/ UNCHANGED vars
    BY <1>3 DEF CloserStep, Over, QuietStep
<1>4. CASE \E a \in Appenders : AppendRead(a) \/ AppendInsert(a) \/ AppendCommit(a)
    BY <1>4 DEF AppenderStep
<1> QED BY <1>2, <1>3, <1>4 DEF Next

(* Where a quiet step takes the threads, none takes or leaves a batch. *)
LEMMA QuietIsQuiet ==
    ASSUME TypeOK, QuietStep
    PROVE  Quiet /\ TypeOK'
<1>0. /\ LogTypes /\ QueueTypes /\ ThreadTypes /\ RestTypes
      /\ pc \in [Threads -> Places] /\ timer \in Timers \cup {NoThread}
      /\ NoThread \notin Threads /\ Closer \in Threads /\ NoThread \notin Timers
    BY TypeGroups, EventLogAssumption DEF ThreadTypes, Threads
<1> DEFINE Still == UNCHANGED <<dbVars, bufVars, batch, io, apc, aseq, atries, last, seen, spc,
                                sawEnd, hadEvents>>
<1>1. ASSUME Still,
             flushing' \in BOOLEAN, withTask' \in BOOLEAN,
             tries' \in Nat, fails' \in Nat, phase' \in {"crew", "closing", "flushed", "done"},
             timer' \in Timers \cup {NoThread}, pc' \in [Threads -> Places],
             \A t \in Threads : /\ pc'[t] \in Writing <=> pc[t] \in Writing
                                /\ pc'[t] \in {"write", "requeue"}
                                       => pc[t] \in {"write", "requeue"}
      PROVE  Quiet /\ TypeOK'
  <2>1. Quiet
    BY <1>1 DEF Quiet
  <2>2. LogTypes' /\ QueueTypes'
    BY <1>0, <1>1 DEF LogTypes, QueueTypes, Queued, dbVars, bufVars
  <2>3. ThreadTypes'
    BY <1>0, <1>1 DEF ThreadTypes
  <2>4. RestTypes'
    BY <1>0, <1>1 DEF RestTypes
  <2> QED BY <2>1, <2>2, <2>3, <2>4, TypeGroupsNext
<1>2. ASSUME NEW t \in Threads, NEW to \in Places
      PROVE  /\ Move(t, to) \in [Threads -> Places]
             /\ \A u \in Threads : Move(t, to)[u] = IF u = t THEN to ELSE pc[u]
    BY <1>0 DEF Move
<1>3. /\ {"idle", "drain", "flush", "renumber", "requeue"} \subseteq Places
      /\ \A to \in {"idle", "drain", "flush", "schedule", "waiting"} :
             to \notin Writing /\ to \notin {"write", "requeue"}
      /\ {"write", "renumber", "requeue"} \subseteq Writing
    BY DEF Places, Writing
<1>4. ASSUME NEW t \in Threads, ScheduleFlush(t) PROVE Quiet /\ TypeOK'
  <2>1. Schedule(Move(t, "idle")) \/ (pc' = Move(t, "idle") /\ UNCHANGED timer)
    BY <1>4 DEF ScheduleFlush
  <2>2. pc[t] = "schedule" /\ Still /\ UNCHANGED <<flushing, withTask, tries, fails, phase>>
    BY <1>4 DEF ScheduleFlush, ioVars, runVars, appenderVars, streamVars
  <2>3. /\ pc' \in [Threads -> Places] /\ timer' \in Timers \cup {NoThread}
        /\ \A u \in Threads : pc'[u] \in Writing \/ Move(t, "idle")[u] \in Writing
                                  => pc'[u] = Move(t, "idle")[u]
    <3>1. PICK at : at = Move(t, "idle")
      OBVIOUS
    <3>2. at \in [Threads -> Places]
      BY <1>2, <1>3, <3>1
    <3>3. CASE Schedule(at)
      BY <1>0, <3>1, <3>2, <3>3, ScheduleProps
    <3>4. CASE pc' = at /\ UNCHANGED timer
      BY <1>0, <3>1, <3>2, <3>4
    <3> QED
      BY <2>1, <3>1, <3>3, <3>4
  <2>4. \A u \in Threads : /\ pc'[u] \in Writing <=> pc[u] \in Writing
                           /\ pc'[u] \in {"write", "requeue"} => pc[u] \in {"write", "requeue"}
    <3> TAKE u \in Threads
    <3>1. Move(t, "idle")[u] = IF u = t THEN "idle" ELSE pc[u]
        BY <1>2, <1>3
    <3>2. CASE u = t
      <4>1. pc[u] \notin Writing /\ Move(t, "idle")[u] \notin Writing
        BY <1>3, <2>2, <3>1, <3>2
      <4> QED BY <1>3, <2>3, <4>1
    <3>3. CASE u # t
        BY <1>3, <2>3, <3>1, <3>3
    <3> QED BY <3>2, <3>3
  <2> QED BY <1>0, <1>1, <2>2, <2>3, <2>4 DEF ThreadTypes, RestTypes
<1>5. ASSUME NEW t \in Threads, WriteTaskEvent(t) PROVE Quiet /\ TypeOK'
  <2>1. CancelTimer(Move(t, "drain"))
    BY <1>5 DEF WriteTaskEvent
  <2>2. pc[t] = "idle" /\ Still /\ UNCHANGED <<flushing, withTask, tries, fails, phase>>
    BY <1>5 DEF WriteTaskEvent, ioVars, runVars, appenderVars, streamVars
  <2>3. /\ pc' \in [Threads -> Places] /\ timer' \in Timers \cup {NoThread}
        /\ \A u \in Threads : pc'[u] \in Writing \/ Move(t, "drain")[u] \in Writing
                                  => pc'[u] = Move(t, "drain")[u]
    <3>1. "drain" \in Places
        BY <1>3
    <3>2. Move(t, "drain") \in [Threads -> Places]
        BY <1>2, <3>1
    <3> QED BY <1>0, <2>1, <3>2, CancelTimerProps
  <2>4. \A u \in Threads : /\ pc'[u] \in Writing <=> pc[u] \in Writing
                           /\ pc'[u] \in {"write", "requeue"} => pc[u] \in {"write", "requeue"}
    <3> TAKE u \in Threads
    <3>1. Move(t, "drain")[u] = IF u = t THEN "drain" ELSE pc[u]
        BY <1>2, <1>3
    <3>2. CASE u = t
      <4>1. pc[u] \notin Writing /\ Move(t, "drain")[u] \notin Writing
        BY <1>3, <2>2, <3>1, <3>2
      <4> QED BY <1>3, <2>3, <4>1
    <3>3. CASE u # t
        BY <1>3, <2>3, <3>1, <3>3
    <3> QED BY <3>2, <3>3
  <2> QED BY <1>0, <1>1, <2>2, <2>3, <2>4 DEF ThreadTypes, RestTypes
<1>6. ASSUME NEW t \in Threads,
             Fire(t) \/ (TakeBuffer(t) /\ buffer = <<>>) \/ Collide(t) \/ Outage(t)
      PROVE  Quiet /\ TypeOK'
  <2>1. PICK to \in {"flush", "idle", "renumber", "requeue"} :
           /\ pc' = Move(t, to)
           /\ \/ pc[t] \in {"waiting", "flush"} /\ to \in {"flush", "idle"}
              \/ pc[t] = "write" /\ to \in {"renumber", "requeue"}
    BY <1>6 DEF Fire, TakeBuffer, Collide, Outage
  <2>2. Still /\ UNCHANGED <<flushing, withTask, tries, phase>>
        /\ timer' \in {timer, NoThread} /\ fails' \in {fails, fails + 1}
    BY <1>6 DEF Fire, TakeBuffer, Collide, Outage, bufVars, ioVars, runVars, appenderVars,
                streamVars
  <2>3. pc' \in [Threads -> Places]
        /\ \A u \in Threads : pc'[u] = IF u = t THEN to ELSE pc[u]
    BY <1>2, <1>3, <2>1
  <2>4. \A u \in Threads : /\ pc'[u] \in Writing <=> pc[u] \in Writing
                           /\ pc'[u] \in {"write", "requeue"} => pc[u] \in {"write", "requeue"}
    BY <1>3, <2>1, <2>3
  <2> QED BY <1>0, <1>1, <2>2, <2>3, <2>4 DEF ThreadTypes, RestTypes
<1>7. ASSUME Close PROVE Quiet /\ TypeOK'
  <2>1. CancelTimer(pc) /\ Still /\ UNCHANGED <<flushing, withTask, tries, fails>>
        /\ phase' = "closing"
    BY <1>7 DEF Close, ioVars, appenderVars, streamVars
  <2>2. /\ pc' \in [Threads -> Places] /\ timer' \in Timers \cup {NoThread}
        /\ \A u \in Threads : pc'[u] \in Writing \/ pc[u] \in Writing => pc'[u] = pc[u]
    BY <1>0, <2>1, CancelTimerProps
  <2>3. \A u \in Threads : /\ pc'[u] \in Writing <=> pc[u] \in Writing
                           /\ pc'[u] \in {"write", "requeue"} => pc[u] \in {"write", "requeue"}
    BY <1>3, <2>2
  <2> QED BY <1>0, <1>1, <2>1, <2>2, <2>3 DEF ThreadTypes, RestTypes
<1>8. ASSUME FinalFlush PROVE Quiet /\ TypeOK'
  <2>1. pc[Closer] = "idle" /\ pc' = Move(Closer, "flush") /\ Still
        /\ UNCHANGED <<flushing, withTask, timer, phase, fails>> /\ tries' = tries + 1
    BY <1>8 DEF FinalFlush, ioVars, appenderVars, streamVars
  <2>2. pc' \in [Threads -> Places]
        /\ \A u \in Threads : pc'[u] = IF u = Closer THEN "flush" ELSE pc[u]
    BY <1>0, <1>2, <1>3, <2>1
  <2>3. \A u \in Threads : /\ pc'[u] \in Writing <=> pc[u] \in Writing
                           /\ pc'[u] \in {"write", "requeue"} => pc[u] \in {"write", "requeue"}
    BY <1>3, <2>1, <2>2
  <2> QED BY <1>0, <1>1, <2>1, <2>2, <2>3 DEF ThreadTypes, RestTypes
<1>9. ASSUME Flushed \/ UNCHANGED vars PROVE Quiet /\ TypeOK'
  <2>1. Still /\ UNCHANGED <<flushing, withTask, timer, pc, tries, fails>>
        /\ phase' \in {phase, "flushed"}
    BY <1>9 DEF Flushed, vars, listenerVars, ioVars, runVars, appenderVars, streamVars
  <2> QED BY <1>0, <1>1, <2>1 DEF ThreadTypes, RestTypes
<1> QED BY <1>4, <1>5, <1>6, <1>7, <1>8, <1>9 DEF QuietStep

-------------------------------------------------------------------------------
(* What a step leaves alone.                                               *)

(* Steps that leave the log and its readers alone.                         *)
LEMMA LogSame ==
    ASSUME IInv, UNCHANGED <<dbVars, apc, aseq, last, seen, spc, sawEnd>>
    PROVE  /\ LogTypes' /\ LogInv' /\ AppenderInv' /\ StreamInv'
           /\ NothingSkipped' /\ StreamComplete'
<1>1. LogTypes
    BY TypeGroups DEF IInv
<1>2. UNCHANGED <<rows, settled, inTime, passed, apc, aseq, last, seen, spc, sawEnd>>
    BY DEF dbVars
<1>3. LogTypes'
    BY <1>1, <1>2 DEF LogTypes
<1>4. LogInv'
    BY <1>2 DEF IInv, LogInv, Bounded
<1>5. AppenderInv'
    BY <1>2 DEF IInv, AppenderInv, Pending, Safe
<1>6. StreamInv'
    BY <1>2 DEF IInv, StreamInv
<1>7. NothingSkipped' /\ StreamComplete'
    BY <1>2 DEF IInv, NothingSkipped, StreamComplete, Overtaken
<1> QED BY <1>3, <1>4, <1>5, <1>6, <1>7

(* Steps that leave the log and the queue alone.                           *)
LEMMA NumbersSame ==
    ASSUME IInv, UNCHANGED <<rows, made, dropped, batch, buffer, nextSeq>>
    PROVE  NumberInv' /\ OrderInv' /\ QueueTypes'
<1>1. QueueTypes
    BY TypeGroups DEF IInv
<1>2. NumberInv'
    BY DEF IInv, NumberInv, Queued, Safe
<1>3. OrderInv'
    BY DEF IInv, OrderInv, Queued, InLog
<1> QED BY <1>1, <1>2, <1>3 DEF QueueTypes, Queued

(* Steps that leave the queue alone and bring no thread to its batch.      *)
LEMMA QueueSame ==
    ASSUME IInv, UNCHANGED <<batch, buffer, nextSeq, io>>,
           \A t \in Threads : pc'[t] \in {"write", "requeue"} => pc[t] \in {"write", "requeue"}
    PROVE  QueueInv'
    BY DEF IInv, QueueInv, Queued

(* Of the stream's or another writer's steps. *)
LEMMA ListenerSame ==
    ASSUME IInv, UNCHANGED listenerVars
    PROVE  /\ QueueInv' /\ ThreadTypes' /\ QueueTypes'
           /\ tries' = tries /\ fails' = fails /\ phase' = phase
<1>1. QueueTypes /\ ThreadTypes
    BY TypeGroups DEF IInv
<1>2. UNCHANGED <<nextSeq, made, buffer, dropped, batch, io, flushing, withTask, timer, pc,
                  phase, tries, fails>>
    BY DEF listenerVars, bufVars, ioVars, runVars
<1>3. QueueInv'
    BY <1>2 DEF IInv, QueueInv, Queued
<1>4. ThreadTypes' /\ QueueTypes'
    BY <1>1, <1>2 DEF ThreadTypes, QueueTypes, Queued
<1> QED BY <1>2, <1>3, <1>4

(* So a quiet step keeps the invariant.                                    *)
LEMMA QuietKeeps ==
    ASSUME IInv, QuietStep
    PROVE  IInv'
<1>1. Quiet /\ TypeOK'
    BY QuietIsQuiet DEF IInv
<1>2. LogInv' /\ AppenderInv' /\ StreamInv' /\ NothingSkipped' /\ StreamComplete'
    BY <1>1, LogSame DEF Quiet
<1>3. UNCHANGED <<rows, made, dropped, batch, buffer, nextSeq, io>>
    BY <1>1 DEF Quiet, dbVars, bufVars
<1>4. NumberInv' /\ OrderInv'
    BY <1>3, NumbersSame
<1>5. QueueInv'
    BY <1>1, <1>3, QueueSame DEF Quiet
<1> QED BY <1>1, <1>2, <1>4, <1>5 DEF IInv

(* A thread moves, and takes _io_lock or not.                              *)
LEMMA MoveTypes ==
    ASSUME ThreadTypes, NEW t \in Threads, NEW to \in Places, pc' = Move(t, to),
           timer' \in Timers \cup {NoThread},
           flushing' \in BOOLEAN, withTask' \in BOOLEAN,
           \/ (to \in Writing <=> pc[t] \in Writing) /\ io' = io
           \/ to \in Writing /\ io = NoThread /\ io' = t
    PROVE  /\ ThreadTypes'
           /\ \A u \in Threads : pc'[u] = IF u = t THEN to ELSE pc[u]
<1>1. pc' \in [Threads -> Places] /\ \A u \in Threads : pc'[u] = IF u = t THEN to ELSE pc[u]
    BY DEF ThreadTypes, Move
<1>2. NoThread \notin Threads
    BY EventLogAssumption
<1>3. ASSUME NEW u \in Threads PROVE io' = u <=> pc'[u] \in Writing
    BY <1>1, <1>2 DEF ThreadTypes
<1>4. io' \in Threads \cup {NoThread}
    BY DEF ThreadTypes
<1> QED BY <1>1, <1>3, <1>4 DEF ThreadTypes

(* The types that no step of the listener but an outage touches. *)
LEMMA RestSame ==
    ASSUME IInv, UNCHANGED <<tries, phase, appenderVars, streamVars>>, fails' \in {fails, fails + 1}
    PROVE  RestTypes'
<1>1. RestTypes
    BY TypeGroups DEF IInv
<1> QED BY <1>1 DEF RestTypes, appenderVars, streamVars

(* A queue that is taken from what it was, with more room for numbers. *)
LEMMA LessSafe ==
    ASSUME NumberInv, UNCHANGED rows, nextSeq' \in Nat, nextSeq \in Nat, nextSeq <= nextSeq',
           \A x \in Queued' : Safe(x.seq)
    PROVE  NumberInv'
<1>1. \A s : Safe(s)' <=> Safe(s)
    BY DEF Safe
<1> QED BY <1>1 DEF NumberInv

(* What a step of the listener has to show, unless it commits.             *)
LEMMA ListenerFrame ==
    ASSUME IInv, UNCHANGED <<dbVars, tries, phase, appenderVars, streamVars>>,
           fails' \in {fails, fails + 1},
           QueueTypes', ThreadTypes', QueueInv', NumberInv', OrderInv'
    PROVE  IInv'
<1>1. UNCHANGED <<dbVars, apc, aseq, last, seen, spc, sawEnd>>
    BY DEF appenderVars, streamVars
<1>2. LogTypes' /\ LogInv' /\ AppenderInv' /\ StreamInv' /\ NothingSkipped' /\ StreamComplete'
    BY <1>1, LogSame
<1>3. RestTypes'
    BY RestSame
<1>4. TypeOK'
    BY <1>2, <1>3, TypeGroupsNext
<1> QED BY <1>2, <1>4 DEF IInv

(* One more event, with the next number. *)
LEMMA NewEvent ==
    ASSUME IInv, UNCHANGED <<rows, dropped>>,
           made' = made + 1, nextSeq' = nextSeq + 1,
           Queued' = Queued \cup {Event(made + 1, nextSeq)}
    PROVE  /\ Event(made + 1, nextSeq) \in EventRow
           /\ \A x \in Queued' : x.id \in 1..made' /\ x.seq < nextSeq'
           /\ NumberInv' /\ OrderInv'
<1> DEFINE e == Event(made + 1, nextSeq)
<1>1. made \in Nat /\ nextSeq \in Nat /\ \A x \in Queued : x.id \in 1..made
    BY TypeGroups DEF IInv, QueueTypes
<1>2. e \in EventRow /\ e.id = made + 1 /\ e.seq = nextSeq
    BY <1>1 DEF Event, EventRow
<1>3. Queued \subseteq EventRow
    BY ItemsOf DEF IInv, TypeOK, Queued
<1> HIDE DEF e
<1>4. Queued' = Queued \cup {e}
    BY DEF e
<1>5. \A x \in Queued' : x.id \in 1..made' /\ x.seq < nextSeq'
  <2> TAKE x \in Queued'
  <2>1. CASE x \in Queued
    BY <1>1, <1>3, <2>1 DEF IInv, QueueInv, EventRow, Queued
  <2>2. CASE x = e
    BY <1>1, <1>2, <2>2
  <2> QED BY <1>4, <2>1, <2>2
<1>6. NumberInv'
  <2>1. Safe(e.seq) /\ \A x \in Queued : Safe(x.seq)
    BY <1>1, <1>2 DEF IInv, NumberInv
  <2>2. \A x \in Queued' : Safe(x.seq)
    BY <1>4, <2>1
  <2> QED BY <1>1, <2>2, LessSafe DEF IInv
<1>7. OrderInv'
  <2>1. ASSUME NEW i \in 1..made'
        PROVE  i \in dropped' \/ InLog(i)' \/ \E x \in Queued' : x.id = i
    <3>1. CASE i = made + 1
        BY <1>2, <1>4, <3>1
    <3>2. CASE i \in 1..made
        BY <1>4, <3>2 DEF IInv, OrderInv, InLog
    <3> QED BY <1>1, <2>1, <3>1, <3>2
  <2>2. ASSUME NEW x \in rows', x.kind = "event"
        PROVE  /\ x.id \in 1..made'
               /\ \A y \in Queued' : x.id < y.id
               /\ \A y \in rows' : y.kind = "event" /\ x.id < y.id => x.seq < y.seq
    <3>1. /\ x.id \in 1..made
          /\ \A y \in Queued : x.id < y.id
          /\ \A y \in rows : y.kind = "event" /\ x.id < y.id => x.seq < y.seq
        BY <2>2 DEF IInv, OrderInv
    <3>2. x.id < e.id
        BY <1>1, <1>2, <3>1
    <3> QED BY <1>1, <1>4, <3>1, <3>2
  <2> QED BY <2>1, <2>2 DEF OrderInv
<1> QED BY <1>2, <1>5, <1>6, <1>7 DEF e

(* The same events, but for those that are dropped. *)
LEMMA SameEvents ==
    ASSUME IInv, UNCHANGED <<rows, made>>, dropped \subseteq dropped',
           \A x \in Queued' : \E y \in Queued : y.id = x.id,
           \A y \in Queued : y.id \in dropped' \/ \E x \in Queued' : x.id = y.id
    PROVE  /\ \A x \in Queued' : x.id \in 1..made'
           /\ OrderInv'
<1>1. \A x \in Queued : x.id \in 1..made
    BY TypeGroups DEF IInv, QueueTypes
<1>2. \A x \in Queued' : x.id \in 1..made'
    BY <1>1
<1>3. ASSUME NEW i \in 1..made'
      PROVE  i \in dropped' \/ InLog(i)' \/ \E x \in Queued' : x.id = i
    BY <1>3 DEF IInv, OrderInv, InLog
<1>4. ASSUME NEW x \in rows', x.kind = "event"
      PROVE  /\ x.id \in 1..made'
             /\ \A y \in Queued' : x.id < y.id
             /\ \A y \in rows' : y.kind = "event" /\ x.id < y.id => x.seq < y.seq
    BY <1>4 DEF IInv, OrderInv
<1> QED BY <1>2, <1>3, <1>4 DEF OrderInv

(* What the listener is about to do with its queue. *)
LEMMA QueueFacts ==
    ASSUME IInv
    PROVE  /\ buffer \in Seq(EventRow) /\ batch \in Seq(EventRow)
           /\ Items(buffer) \subseteq EventRow /\ Items(batch) \subseteq EventRow
           /\ made \in Nat /\ nextSeq \in Nat /\ ThreadTypes
           /\ \A x \in Queued : x.id \in 1..made /\ x.seq \in Nat /\ x.seq < nextSeq
           /\ NoThread \notin Threads
<1>1. QueueTypes /\ ThreadTypes
    BY TypeGroups DEF IInv
<1>2. Items(buffer) \subseteq EventRow /\ Items(batch) \subseteq EventRow
    BY <1>1, ItemsOf DEF QueueTypes
<1> QED BY <1>1, <1>2, EventLogAssumption DEF IInv, QueueInv, QueueTypes, Queued, EventRow

(* An event at the end of the buffer.                                      *)
LEMMA WriteEventKeeps ==
    ASSUME IInv, NEW t \in Threads, WriteEvent(t)
    PROVE  IInv'
<1> DEFINE e == Event(made + 1, nextSeq)
<1>1. /\ pc[t] = "idle" /\ made' = made + 1 /\ nextSeq' = nextSeq + 1
      /\ buffer' = Append(buffer, e)
      /\ \/ pc' = Move(t, "flush")
         \/ pc' = Move(t, "schedule")
      /\ UNCHANGED <<dbVars, dropped, batch, io, flushing, withTask, timer, tries, phase, fails,
                     appenderVars, streamVars>>
    BY DEF WriteEvent, ioVars, runVars
<1>2. /\ buffer \in Seq(EventRow) /\ batch \in Seq(EventRow) /\ made \in Nat /\ nextSeq \in Nat
      /\ ThreadTypes
      /\ \A x \in Queued : x.id \in 1..made /\ x.seq \in Nat /\ x.seq < nextSeq
    BY QueueFacts
<1>3. e \in EventRow /\ e.id = made + 1 /\ e.seq = nextSeq
    BY <1>2 DEF Event, EventRow
<1> HIDE DEF e
<1>4. \A x \in Queued : x.id < e.id /\ x.seq < e.seq
    BY <1>2, <1>3
<1>5. /\ buffer' \in Seq(EventRow)
      /\ Items(buffer') = Items(buffer) \cup {e}
      /\ Rising(buffer')
  <2>1. Rising(buffer) /\ \A x \in Items(buffer) : x.id < e.id /\ x.seq < e.seq
    BY <1>4 DEF IInv, QueueInv, Queued
  <2> QED BY <1>1, <1>2, <1>3, <2>1, ItemsAppend
<1>6. Items(buffer)' = Items(buffer') /\ Items(batch)' = Items(batch)
    BY <1>1 DEF Items
<1>7. Queued' = Queued \cup {e}
    BY <1>5, <1>6 DEF Queued
<1>8. /\ \A x \in Queued' : x.id \in 1..made' /\ x.seq < nextSeq'
      /\ NumberInv' /\ OrderInv'
    BY <1>1, <1>7, NewEvent DEF e, dbVars
<1>9. QueueTypes'
  <2>1. dropped' \subseteq 1..made'
    BY <1>1, <1>2, TypeGroups DEF IInv, QueueTypes
  <2> QED BY <1>1, <1>2, <1>5, <1>8, <2>1 DEF QueueTypes
<1>10. /\ ThreadTypes'
        /\ \A u \in Threads : pc'[u] \in {"write", "requeue"} => pc[u] \in {"write", "requeue"}
  <2>1. PICK to \in {"flush", "schedule"} : pc' = Move(t, to)
    BY <1>1
  <2>2. to \in Places /\ (to \in Writing <=> pc[t] \in Writing) /\ to \notin {"write", "requeue"}
    BY <1>1 DEF Places, Writing
  <2>3. ThreadTypes' /\ \A u \in Threads : pc'[u] = IF u = t THEN to ELSE pc[u]
    BY <1>1, <1>2, <2>1, <2>2, MoveTypes DEF ThreadTypes
  <2> QED BY <2>2, <2>3
<1>11. QueueInv'
  <2>1. \A x \in Items(batch)', y \in Items(buffer)' : x.id < y.id
    BY <1>4, <1>5, <1>6 DEF IInv, QueueInv, Queued
  <2>2. ASSUME \E u \in Threads : pc'[u] \in {"write", "requeue"}
        PROVE  \A x \in Items(batch)', y \in Items(buffer)' : x.seq < y.seq
    BY <1>4, <1>5, <1>6, <1>10, <2>2 DEF IInv, QueueInv, Queued
  <2>3. Rising(batch)' /\ Rising(buffer)' /\ (io' = NoThread => batch' = <<>>)
    BY <1>1, <1>5 DEF IInv, QueueInv, Rising
  <2> QED BY <1>8, <2>1, <2>2, <2>3 DEF QueueInv
<1> QED BY <1>1, <1>8, <1>9, <1>10, <1>11, ListenerFrame

(* The buffer and one more event become the batch.                         *)
LEMMA DrainKeeps ==
    ASSUME IInv, NEW t \in Threads, Drain(t)
    PROVE  IInv'
<1> DEFINE e == Event(made + 1, nextSeq)
<1>1. /\ pc[t] = "drain" /\ io = NoThread /\ io' = t
      /\ made' = made + 1 /\ nextSeq' = nextSeq + 1
      /\ batch' = Append(buffer, e) /\ buffer' = <<>>
      /\ pc' = Move(t, "write") /\ withTask' = TRUE
      /\ UNCHANGED <<dbVars, dropped, flushing, timer, tries, phase, fails,
                     appenderVars, streamVars>>
    BY DEF Drain, runVars
<1>2. /\ buffer \in Seq(EventRow) /\ made \in Nat /\ nextSeq \in Nat /\ ThreadTypes
      /\ NoThread \notin Threads
      /\ \A x \in Queued : x.id \in 1..made /\ x.seq \in Nat /\ x.seq < nextSeq
    BY QueueFacts
<1>3. e \in EventRow /\ e.id = made + 1 /\ e.seq = nextSeq
    BY <1>2 DEF Event, EventRow
<1> HIDE DEF e
<1>4. \A x \in Queued : x.id < e.id /\ x.seq < e.seq
    BY <1>2, <1>3
<1>5. /\ batch' \in Seq(EventRow)
      /\ Items(batch') = Items(buffer) \cup {e}
      /\ Rising(batch')
  <2>1. Rising(buffer) /\ \A x \in Items(buffer) : x.id < e.id /\ x.seq < e.seq
    BY <1>4 DEF IInv, QueueInv, Queued
  <2> QED BY <1>1, <1>2, <1>3, <2>1, ItemsAppend
<1>6. /\ Items(batch)' = Items(batch') /\ Items(buffer)' = {} /\ Rising(buffer)'
      /\ Items(batch) = {} /\ buffer' \in Seq(EventRow)
    BY <1>1, ItemsEmpty DEF Items, Rising, IInv, QueueInv
<1>7. Queued' = Queued \cup {e}
    BY <1>5, <1>6 DEF Queued
<1>8. /\ \A x \in Queued' : x.id \in 1..made' /\ x.seq < nextSeq'
      /\ NumberInv' /\ OrderInv'
    BY <1>1, <1>7, NewEvent DEF e, dbVars
<1>9. QueueTypes'
  <2>1. dropped' \subseteq 1..made'
    BY <1>1, <1>2, TypeGroups DEF IInv, QueueTypes
  <2> QED BY <1>1, <1>2, <1>5, <1>6, <1>8, <2>1 DEF QueueTypes
<1>10. ThreadTypes'
  <2>1. "write" \in Places /\ "write" \in Writing
    BY DEF Places, Writing
  <2> QED BY <1>1, <1>2, <2>1, MoveTypes DEF ThreadTypes
<1>11. QueueInv'
  <2>1. io' # NoThread
    BY <1>1, <1>2
  <2>2. Rising(batch)'
    BY <1>5 DEF Rising
  <2> QED BY <1>6, <1>8, <2>1, <2>2 DEF QueueInv
<1> QED BY <1>1, <1>8, <1>9, <1>10, <1>11, ListenerFrame

(* The buffer becomes the batch.                                           *)
LEMMA TakeBufferKeeps ==
    ASSUME IInv, NEW t \in Threads, TakeBuffer(t), buffer # <<>>
    PROVE  IInv'
<1>1. /\ pc[t] = "flush" /\ io = NoThread /\ io' = t
      /\ batch' = buffer /\ buffer' = <<>>
      /\ pc' = Move(t, "write") /\ withTask' = FALSE /\ flushing' = TRUE /\ timer' = NoThread
      /\ UNCHANGED <<dbVars, made, nextSeq, dropped, tries, phase, fails,
                     appenderVars, streamVars>>
    BY DEF TakeBuffer, runVars
<1>2. /\ buffer \in Seq(EventRow) /\ made \in Nat /\ nextSeq \in Nat /\ ThreadTypes
      /\ NoThread \notin Threads
      /\ \A x \in Queued : x.id \in 1..made /\ x.seq \in Nat /\ x.seq < nextSeq
    BY QueueFacts
<1>3. /\ Items(batch)' = Items(buffer) /\ Rising(batch)'
      /\ Items(buffer)' = {} /\ Rising(buffer)' /\ buffer' \in Seq(EventRow)
      /\ Items(batch) = {}
    BY <1>1, ItemsEmpty DEF Items, Rising, IInv, QueueInv
<1>4. Queued' = Queued
    BY <1>3 DEF Queued
<1>5. OrderInv'
    BY <1>1, <1>4, SameEvents DEF dbVars
<1>6. NumberInv'
  <2>1. \A x \in Queued' : Safe(x.seq)
    BY <1>4 DEF IInv, NumberInv
  <2> QED BY <1>1, <1>2, <2>1, LessSafe DEF IInv, dbVars
<1>7. QueueTypes'
  <2>1. dropped' \subseteq 1..made'
    BY <1>1, TypeGroups DEF IInv, QueueTypes
  <2> QED BY <1>1, <1>2, <1>3, <1>4, <2>1 DEF QueueTypes
<1>8. ThreadTypes'
  <2>1. "write" \in Places /\ "write" \in Writing
    BY DEF Places, Writing
  <2> QED BY <1>1, <1>2, <2>1, MoveTypes DEF ThreadTypes
<1>9. QueueInv'
  <2>1. io' # NoThread
    BY <1>1, <1>2
  <2> QED BY <1>1, <1>2, <1>3, <1>4, <2>1 DEF QueueInv
<1> QED BY <1>1, <1>5, <1>6, <1>7, <1>8, <1>9, ListenerFrame

(* The highest number of the log, as the code asks for it. *)
LEMMA MaxSeqProps ==
    ASSUME IInv
    PROVE  /\ MaxSeq \in Nat \cup {-1} /\ MaxSeq + 1 \in Nat
           /\ \A x \in rows : x.seq <= MaxSeq
           /\ MaxSeq = -1 \/ MaxSeq \in Seqs(rows)
           /\ \A s \in Nat : s > MaxSeq => Safe(s)
<1>1. \A x \in rows : x.seq \in Nat
    BY DEF IInv, TypeOK, Row
<1>2. CASE rows = {}
    BY <1>2 DEF MaxSeq, Safe
<1>3. CASE rows # {}
  <2>1. MaxSeq = Highest(rows)
    BY <1>3 DEF MaxSeq
  <2>2. MaxSeq \in Nat /\ MaxSeq \in Seqs(rows) /\ \A x \in rows : x.seq <= MaxSeq
    BY <1>1, <1>3, <2>1, HighestIsMax DEF IInv, LogInv
  <2>3. \A s \in Nat : s > MaxSeq => Safe(s)
    BY <1>1, <2>2 DEF Safe
  <2> QED BY <2>2, <2>3
<1> QED BY <1>2, <1>3

(* The batch is numbered anew, beyond the log or at numbers that are in it.*)
LEMMA RenumberedKeeps ==
    ASSUME IInv, NEW t \in Threads, NEW first \in Nat,
           pc[t] = "renumber", pc' = Move(t, "collided"),
           batch' = Numbered(batch, first),
           nextSeq' \in Nat, nextSeq' >= nextSeq, nextSeq' >= first + Len(batch),
           \A s \in Nat : s >= first => Safe(s),
           fails' \in {fails, fails + 1},
           UNCHANGED <<dbVars, made, buffer, dropped, io, flushing, withTask, timer,
                       tries, phase, appenderVars, streamVars>>
    PROVE  IInv'
<1>1. /\ buffer \in Seq(EventRow) /\ batch \in Seq(EventRow)
      /\ Items(batch) \subseteq EventRow /\ Items(buffer) \subseteq EventRow
      /\ made \in Nat /\ nextSeq \in Nat /\ ThreadTypes
      /\ \A x \in Queued : x.id \in 1..made /\ x.seq \in Nat /\ x.seq < nextSeq
    BY QueueFacts
<1>2. Len(batch) \in Nat
    BY <1>1, ItemsOf
<1>3. /\ batch' \in Seq(EventRow)
      /\ \A x \in Items(batch') : /\ x.seq >= first /\ x.seq < first + Len(batch)
                                  /\ \E y \in Items(batch) : y.id = x.id
      /\ \A y \in Items(batch) : \E x \in Items(batch') : x.id = y.id
      /\ Rising(batch')
    BY <1>1, NumberedProps DEF IInv, QueueInv
<1>4. Items(batch') \subseteq EventRow
    BY <1>3, ItemsOf
<1>5. Items(batch)' = Items(batch') /\ Items(buffer)' = Items(buffer)
    BY DEF Items
<1>6. \A x \in Queued' : x.seq \in Nat /\ x.seq < nextSeq' /\ \E y \in Queued : y.id = x.id
  <2> TAKE x \in Queued'
  <2>1. CASE x \in Items(batch')
    BY <1>2, <1>3, <1>4, <2>1 DEF Queued, EventRow
  <2>2. CASE x \in Items(buffer)
    BY <1>1, <2>2 DEF Queued
  <2> QED BY <1>5, <2>1, <2>2 DEF Queued
<1>7. \A x \in Queued' : x.id \in 1..made'
    BY <1>1, <1>6
<1>8. OrderInv'
  <2>1. \A y \in Queued : \E x \in Queued' : x.id = y.id
    BY <1>3, <1>5 DEF Queued
  <2> QED BY <1>6, <2>1, SameEvents DEF dbVars
<1>9. NumberInv'
  <2>1. \A x \in Queued' : Safe(x.seq)
    <3> TAKE x \in Queued'
    <3>1. CASE x \in Items(batch')
        BY <1>3, <1>6, <3>1
    <3>2. CASE x \in Items(buffer)
        BY <3>2 DEF IInv, NumberInv, Queued
    <3> QED BY <1>5, <3>1, <3>2 DEF Queued
  <2> QED BY <1>1, <2>1, LessSafe DEF IInv, dbVars
<1>10. QueueTypes'
  <2>1. dropped' \subseteq 1..made'
    BY TypeGroups DEF IInv, QueueTypes
  <2> QED BY <1>1, <1>3, <1>7, <2>1 DEF QueueTypes
<1>11. ThreadTypes' /\ \A u \in Threads : pc'[u] \notin {"write", "requeue"}
  <2>1. "collided" \in Places /\ "collided" \in Writing /\ pc[t] \in Writing
        /\ {"write", "requeue"} \subseteq Writing /\ "collided" \notin {"write", "requeue"}
    BY DEF Places, Writing
  <2>2. ThreadTypes' /\ \A u \in Threads : pc'[u] = IF u = t THEN "collided" ELSE pc[u]
    BY <1>1, <2>1, MoveTypes DEF ThreadTypes
  <2>3. \A u \in Threads : u # t => pc[u] \notin Writing
    BY <1>1, <2>1, OneWriter
  <2> QED BY <2>1, <2>2, <2>3
<1>12. QueueInv'
  <2>1. io' # NoThread
    BY <1>1, EventLogAssumption DEF ThreadTypes, Writing
  <2>2. Rising(batch)' /\ Rising(buffer)'
    BY <1>3 DEF IInv, QueueInv, Rising
  <2>3. \A x \in Items(batch)', y \in Items(buffer)' : x.id < y.id
    BY <1>3, <1>5 DEF IInv, QueueInv
  <2> QED BY <1>6, <1>11, <2>1, <2>2, <2>3 DEF QueueInv
<1> QED BY <1>8, <1>9, <1>10, <1>11, <1>12, ListenerFrame

(* Both ways to renumber: after the log, or from the own counter.          *)
LEMMA RenumberKeeps ==
    ASSUME IInv, NEW t \in Threads, Renumber(t) \/ RenumberFails(t)
    PROVE  IInv'
<1>1. nextSeq \in Nat /\ Len(batch) \in Nat
    BY QueueFacts, ItemsOf
<1>2. CASE Renumber(t)
  <2>1. FirstFree \in Nat /\ \A s \in Nat : s >= FirstFree => Safe(s)
    <3>1. CASE MaxSeq = 0
      <4>1. 0 \in Seqs(rows)
        BY <3>1, MaxSeqProps
      <4>2. Safe(0)
        BY <4>1 DEF Safe
      <4>3. \A s \in Nat : s > 0 => Safe(s)
        BY <3>1, MaxSeqProps
      <4> QED BY <3>1, <4>2, <4>3 DEF FirstFree
    <3>2. CASE MaxSeq # 0
      <4>1. FirstFree = MaxSeq + 1 /\ FirstFree \in Nat
        BY <3>2, MaxSeqProps DEF FirstFree
      <4>2. \A s \in Nat : s >= FirstFree => s > MaxSeq
        BY <4>1, MaxSeqProps
      <4> QED BY <4>1, <4>2, MaxSeqProps
    <3> QED BY <3>1, <3>2
  <2>2. /\ pc[t] = "renumber" /\ pc' = Move(t, "collided")
        /\ batch' = Numbered(batch, FirstFree)
        /\ nextSeq' = IF nextSeq < FirstFree + Len(batch) THEN FirstFree + Len(batch)
                                                          ELSE nextSeq
        /\ UNCHANGED <<dbVars, made, buffer, dropped, io, flushing, withTask, timer,
                       tries, phase, fails, appenderVars, streamVars>>
    BY <1>2 DEF Renumber, runVars
  <2>3. nextSeq' \in Nat /\ nextSeq' >= nextSeq /\ nextSeq' >= FirstFree + Len(batch)
    BY <1>1, <2>1, <2>2
  <2> QED BY <2>1, <2>2, <2>3, RenumberedKeeps
<1>3. CASE RenumberFails(t)
  <2>1. /\ pc[t] = "renumber" /\ pc' = Move(t, "collided")
        /\ batch' = Numbered(batch, nextSeq)
        /\ nextSeq' = nextSeq + Len(batch) /\ fails' = fails + 1
        /\ UNCHANGED <<dbVars, made, buffer, dropped, io, flushing, withTask, timer,
                       tries, phase, appenderVars, streamVars>>
    BY <1>3 DEF RenumberFails
  <2>2. nextSeq' \in Nat /\ nextSeq' >= nextSeq
    BY <1>1, <2>1
  <2>3. \A s \in Nat : s >= nextSeq => Safe(s)
    BY DEF IInv, NumberInv
  <2> QED BY <1>1, <2>1, <2>2, <2>3, RenumberedKeeps
<1> QED BY <1>2, <1>3

(* The batch goes back before the buffer, which is renumbered if it collided. *)
LEMMA RequeueKeeps ==
    ASSUME IInv, NEW t \in Threads, Requeue(t)
    PROVE  IInv'
<1> DEFINE collided == pc[t] = "collided"
           later == IF collided THEN Numbered(buffer, nextSeq) ELSE buffer
           merged == batch \o later
           n == IF Len(merged) > MaxPending THEN Len(merged) - MaxPending ELSE 0
<1>1. /\ pc[t] \in {"collided", "requeue"}
      /\ buffer' = SubSeq(merged, n + 1, Len(merged))
      /\ dropped' = dropped \cup {merged[i].id : i \in 1..n}
      /\ nextSeq' = IF collided THEN nextSeq + Len(buffer) ELSE nextSeq
      /\ Release(t, TRUE)
      /\ UNCHANGED <<dbVars, made, tries, phase, fails, appenderVars, streamVars>>
    BY DEF Requeue, runVars
<1>2. /\ buffer \in Seq(EventRow) /\ batch \in Seq(EventRow)
      /\ Items(batch) \subseteq EventRow /\ Items(buffer) \subseteq EventRow
      /\ made \in Nat /\ nextSeq \in Nat /\ ThreadTypes
      /\ \A x \in Queued : x.id \in 1..made /\ x.seq \in Nat /\ x.seq < nextSeq
    BY QueueFacts
<1>3. Len(buffer) \in Nat
    BY <1>2, ItemsOf
<1>4. /\ later \in Seq(EventRow) /\ Rising(later)
      /\ \A x \in Items(later) : x.seq \in Nat /\ x.seq < nextSeq' /\ Safe(x.seq)
      /\ \A x \in Items(later) : \E y \in Items(buffer) : y.id = x.id
      /\ \A y \in Items(buffer) : \E x \in Items(later) : x.id = y.id
      /\ \A x \in Items(batch), y \in Items(later) : x.seq < y.seq
  <2>1. CASE collided
    <3>1. later = Numbered(buffer, nextSeq) /\ nextSeq' = nextSeq + Len(buffer)
        BY <1>1, <2>1
    <3>2. /\ later \in Seq(EventRow) /\ Rising(later)
          /\ \A x \in Items(later) : /\ x.seq >= nextSeq /\ x.seq < nextSeq + Len(buffer)
                                     /\ \E y \in Items(buffer) : y.id = x.id
          /\ \A y \in Items(buffer) : \E x \in Items(later) : x.id = y.id
        BY <1>2, <3>1, NumberedProps DEF IInv, QueueInv
    <3> HIDE DEF later
    <3>3. \A x \in Items(later) : x.seq \in Nat
        BY <3>2, ItemsOf DEF EventRow
    <3>4. \A x \in Items(later) : Safe(x.seq)
        BY <3>2, <3>3 DEF IInv, NumberInv
    <3>5. \A x \in Items(batch) : x.seq \in Nat /\ x.seq < nextSeq
        BY <1>2 DEF Queued
    <3> QED BY <1>2, <3>1, <3>2, <3>3, <3>4, <3>5
  <2>2. CASE ~collided
    <3>1. later = buffer /\ nextSeq' = nextSeq /\ pc[t] = "requeue"
        BY <1>1, <2>2
    <3>2. \A x \in Items(batch), y \in Items(buffer) : x.seq < y.seq
        BY <3>1 DEF IInv, QueueInv
    <3>3. \A x \in Items(buffer) : x.seq \in Nat /\ x.seq < nextSeq /\ Safe(x.seq)
        BY <1>2 DEF IInv, NumberInv, Queued
    <3>4. Rising(buffer)
        BY DEF IInv, QueueInv
    <3> HIDE DEF later
    <3> QED BY <1>2, <3>1, <3>2, <3>3, <3>4
  <2> QED BY <2>1, <2>2
<1>5. \A x \in Items(batch), y \in Items(later) : x.id < y.id
  <2>1. \A x \in Items(batch), y \in Items(buffer) : x.id < y.id
    BY DEF IInv, QueueInv
  <2> HIDE DEF later
  <2> QED BY <1>4, <2>1
<1>6. Rising(batch)
    BY DEF IInv, QueueInv
<1>7. Len(merged) \in Nat /\ n \in Nat /\ n <= Len(merged)
  <2> HIDE DEF later
  <2>1. merged \in Seq(EventRow)
    BY <1>2, <1>4, ConcatProperties
  <2>2. Len(merged) \in Nat
    BY <2>1, LenProperties
  <2>3. MaxPending \in Nat \ {0}
    BY EventLogAssumption
  <2> HIDE DEF merged
  <2> QED BY <2>2, <2>3
<1> HIDE DEF collided, later, n
<1>8. /\ buffer' \in Seq(EventRow)
      /\ Items(buffer') \subseteq Items(batch) \cup Items(later)
      /\ Rising(buffer')
      /\ \A i \in 1..n : merged[i] \in Items(batch) \cup Items(later)
      /\ \A x \in Items(batch) \cup Items(later) :
             x \in Items(buffer') \/ \E i \in 1..n : x = merged[i]
  <2>1. LET r == SubSeq(merged, n + 1, Len(merged))
        IN  /\ r \in Seq(EventRow)
            /\ Items(r) \subseteq Items(batch) \cup Items(later)
            /\ Rising(r)
            /\ \A i \in 1..n : merged[i] \in Items(batch) \cup Items(later)
            /\ \A x \in Items(batch) \cup Items(later) :
                   x \in Items(r) \/ \E i \in 1..n : x = merged[i]
    BY <1>2, <1>4, <1>5, <1>6, <1>7, RequeueProps
  <2> QED BY <1>1, <2>1
<1> HIDE DEF merged
<1>9. ThreadTypes' /\ io' = NoThread /\ batch' = <<>> /\ \A u \in Threads : pc'[u] \notin Writing
  <2>1. pc[t] \in Writing
    BY <1>1 DEF Writing
  <2> QED BY <1>1, <1>2, <2>1, ReleaseProps
<1>10. Items(batch)' = {} /\ Items(buffer)' = Items(buffer') /\ Queued' = Items(buffer')
    BY <1>9, ItemsEmpty DEF Items, Queued
<1>11. \A x \in Queued' : x.seq \in Nat /\ x.seq < nextSeq' /\ Safe(x.seq)
                          /\ \E y \in Queued : y.id = x.id
  <2>1. \A x \in Items(batch) : x.seq < nextSeq'
    BY <1>1, <1>2, <1>3 DEF Queued
  <2> QED BY <1>2, <1>4, <1>8, <1>10, <2>1 DEF IInv, NumberInv, Queued
<1>12. \A y \in Queued : y.id \in dropped' \/ \E x \in Queued' : x.id = y.id
  <2> TAKE y \in Queued
  <2>1. PICK x \in Items(batch) \cup Items(later) : x.id = y.id
    BY <1>4 DEF Queued
  <2>2. CASE x \in Items(buffer')
    BY <1>10, <2>1, <2>2
  <2>3. CASE \E i \in 1..n : x = merged[i]
    BY <1>1, <2>1, <2>3
  <2> QED BY <1>8, <2>2, <2>3
<1>13. dropped \subseteq dropped'
    BY <1>1
<1>14. (\A x \in Queued' : x.id \in 1..made') /\ OrderInv'
    BY <1>1, <1>11, <1>12, <1>13, SameEvents DEF dbVars
<1>15. NumberInv'
  <2>1. nextSeq' \in Nat /\ nextSeq <= nextSeq'
    BY <1>1, <1>2, <1>3
  <2> QED BY <1>1, <1>2, <1>11, <2>1, LessSafe DEF IInv, dbVars
<1>16. QueueTypes'
  <2>1. \A i \in 1..n : merged[i].id \in 1..made
    BY <1>2, <1>4, <1>8 DEF Queued
  <2>2. dropped' \subseteq 1..made'
    BY <1>1, <2>1, TypeGroups DEF IInv, QueueTypes
  <2>3. batch' \in Seq(EventRow)
    BY <1>9, ItemsEmpty
  <2> QED BY <1>1, <1>2, <1>3, <1>8, <1>14, <2>2, <2>3 DEF QueueTypes
<1>17. QueueInv'
  <2>1. Rising(batch)' /\ Rising(buffer)'
    BY <1>8, <1>9, ItemsEmpty DEF Rising
  <2> QED BY <1>9, <1>10, <1>11, <2>1 DEF QueueInv
<1> QED BY <1>1, <1>9, <1>14, <1>15, <1>16, <1>17, ListenerFrame

-------------------------------------------------------------------------------
(* The log grows.                                                          *)

(* What is added beyond the stream is not skipped.                         *)
LEMMA StreamGrows ==
    ASSUME IInv, rows \subseteq rows', rows' \subseteq Row, passed \subseteq passed',
           UNCHANGED <<settled, inTime, last, seen, spc, sawEnd>>,
           \A x \in rows' \ rows : ~(x.seq <= last) \/ (x.kind = "hitl" /\ x.seq \in passed')
    PROVE  StreamInv' /\ NothingSkipped' /\ StreamComplete'
<1>1. StreamInv'
    BY DEF IInv, StreamInv, Seqs
<1>2. NothingSkipped'
    BY DEF IInv, NothingSkipped, Overtaken
<1>3. StreamComplete'
    BY DEF IInv, StreamComplete, Overtaken
<1> QED BY <1>1, <1>2, <1>3

(* The stream is not beyond the log. *)
LEMMA LastInLog ==
    ASSUME IInv, NEW s \in Nat, \A x \in rows : x.seq < s
    PROVE  ~(s <= last)
<1>1. \A x \in rows : x.seq \in Nat
    BY DEF IInv, TypeOK, Row
<1>2. CASE last = -1
    BY <1>2
<1>3. CASE last \in Seqs(rows)
    BY <1>1, <1>3 DEF Seqs
<1> QED BY <1>2, <1>3 DEF IInv, StreamInv

(* The listener's batch is beyond the log when it commits. *)
LEMMA BatchIsBeyond ==
    ASSUME IInv, ~Taken(batch), NEW x \in Items(batch)
    PROVE  x.seq \in Nat /\ \A y \in rows : y.seq < x.seq
<1>1. x \in EventRow /\ x \in Queued
    BY QueueFacts DEF Queued
<1>2. x.seq \in Nat
    BY <1>1 DEF EventRow
<1>3. x.seq \notin Seqs(rows)
    BY DEF Taken, Seqs
<1>4. Safe(x.seq)
    BY <1>1 DEF IInv, NumberInv
<1> QED BY <1>2, <1>3, <1>4 DEF Safe

(* The batch commits: all of it is beyond the log, and below the buffer.   *)
LEMMA CommitBatchKeeps ==
    ASSUME IInv, NEW t \in Threads, CommitBatch(t)
    PROVE  IInv'
<1>1. /\ pc[t] = "write" /\ ~Taken(batch)
      /\ \A s \in Seqs(Items(batch)) : ~Held(s)
      /\ rows' = rows \cup Items(batch)
      /\ passed' = passed \cup ({MaxSeq + 1} \ Seqs(Items(batch)))
      /\ Release(t, FALSE)
      /\ UNCHANGED <<settled, inTime, nextSeq, made, buffer, dropped, phase, tries, fails,
                     appenderVars, streamVars>>
    BY DEF CommitBatch, bufVars, runVars
<1>2. /\ buffer \in Seq(EventRow) /\ batch \in Seq(EventRow)
      /\ Items(batch) \subseteq EventRow /\ Items(buffer) \subseteq EventRow
      /\ made \in Nat /\ nextSeq \in Nat /\ ThreadTypes
      /\ \A x \in Queued : x.id \in 1..made /\ x.seq \in Nat /\ x.seq < nextSeq
    BY QueueFacts
<1>3. \A x \in Items(batch) : x.seq \in Nat /\ \A y \in rows : y.seq < x.seq
    BY <1>1, BatchIsBeyond
<1>4. ThreadTypes' /\ io' = NoThread /\ batch' = <<>> /\ \A u \in Threads : pc'[u] \notin Writing
  <2>1. pc[t] \in Writing
    BY <1>1 DEF Writing
  <2> QED BY <1>1, <1>2, <2>1, ReleaseProps
<1>5. Items(batch)' = {} /\ Items(buffer)' = Items(buffer) /\ Queued' = Items(buffer)
    BY <1>1, <1>4, ItemsEmpty DEF Items, Queued
<1>6. \A x, y \in Items(batch) : x.seq = y.seq => x = y
  <2> TAKE x, y \in Items(batch)
  <2>1. PICK i, j \in 1..Len(batch) : x = batch[i] /\ y = batch[j]
    BY <1>2, ItemsOf DEF Items
  <2>2. i < j \/ j < i => x.seq # y.seq
    BY <1>2, <1>3, <2>1, ItemsOf DEF IInv, QueueInv, Rising
  <2>3. i \in Nat /\ j \in Nat
    BY <1>2, <2>1, ItemsOf
  <2> QED BY <2>1, <2>2, <2>3
<1>7. \A x \in rows : x.seq \in Nat /\ x.kind \in {"event", "hitl"}
    BY DEF IInv, TypeOK, Row
<1>8. \A x \in Items(batch) : x.kind = "event" /\ x.id \in Nat /\ x.id \in 1..made
    BY <1>2 DEF EventRow, Queued
<1>9. LogTypes'
  <2>1. EventRow \subseteq Row
    BY DEF EventRow, Row
  <2>2. MaxSeq + 1 \in Nat
    BY MaxSeqProps
  <2>3. LogTypes
    BY TypeGroups DEF IInv
  <2>4. seen' = seen
    BY <1>1 DEF streamVars
  <2>5. rows' \subseteq Row /\ passed' \subseteq Nat
    BY <1>1, <1>2, <2>1, <2>2, <2>3 DEF LogTypes
  <2> QED BY <1>1, <2>3, <2>4, <2>5 DEF LogTypes
<1>10. LogInv'
  <2>1. IsFiniteSet(rows')
    <3>1. IsFiniteSet(rows) /\ IsFiniteSet(Items(batch))
        BY <1>2, ItemsOf DEF IInv, LogInv
    <3> QED BY <1>1, <3>1, FS_Union
  <2>2. Bounded(rows')
    <3>1. PICK b \in Nat : \A x \in rows : x.seq <= b
        BY DEF IInv, LogInv, Bounded
    <3>2. b + nextSeq \in Nat /\ \A x \in rows' : x.seq <= b + nextSeq
      <4>1. \A x \in Items(batch) : x.seq < nextSeq
        BY <1>2 DEF Queued
      <4> QED BY <1>1, <1>2, <1>3, <1>7, <3>1, <4>1
    <3> QED BY <3>2 DEF Bounded
  <2>3. \A x, y \in rows' : x.seq = y.seq => x = y
    <3> TAKE x, y \in rows'
    <3>1. CASE x \in rows /\ y \in rows
        BY <3>1 DEF IInv, LogInv
    <3>2. CASE x \in Items(batch) /\ y \in Items(batch)
        BY <1>6, <3>2
    <3>3. CASE (x \in rows /\ y \in Items(batch)) \/ (x \in Items(batch) /\ y \in rows)
        BY <1>3, <1>7, <3>3
    <3> QED BY <1>1, <3>1, <3>2, <3>3
  <2> QED BY <2>1, <2>2, <2>3 DEF LogInv
<1>11. QueueTypes'
  <2>1. batch' \in Seq(EventRow)
    BY <1>4, ItemsEmpty
  <2>2. dropped' \subseteq 1..made'
    BY <1>1, TypeGroups DEF IInv, QueueTypes
  <2> QED BY <1>1, <1>2, <1>5, <2>1, <2>2 DEF QueueTypes, Queued
<1>12. QueueInv'
  <2>1. Rising(batch)' /\ Rising(buffer)'
    BY <1>1, <1>4, ItemsEmpty DEF Rising, IInv, QueueInv
  <2>2. \A x \in Queued' : x.seq < nextSeq'
    BY <1>1, <1>2, <1>5 DEF Queued
  <2> QED BY <1>4, <1>5, <2>1, <2>2 DEF QueueInv
<1>13. ASSUME NEW s \in Nat, Safe(s), \A x \in Items(batch) : x.seq < s
       PROVE  Safe(s)'
    BY <1>1, <1>13 DEF Safe, Seqs
<1>14. NumberInv'
  <2>1. \A x \in Items(batch), y \in Items(buffer) : x.seq < y.seq
    BY <1>1 DEF IInv, QueueInv
  <2>2. ASSUME NEW y \in Queued' PROVE Safe(y.seq)'
    <3>1. y.seq \in Nat /\ Safe(y.seq)
        BY <1>2, <1>5, <2>2 DEF IInv, NumberInv, Queued
    <3>2. \A x \in Items(batch) : x.seq < y.seq
        BY <1>5, <2>1, <2>2
    <3> QED BY <1>13, <3>1, <3>2
  <2>3. ASSUME NEW s \in Nat, s >= nextSeq' PROVE Safe(s)'
    <3>1. Safe(s)
        BY <1>1, <2>3 DEF IInv, NumberInv
    <3>2. \A x \in Items(batch) : x.seq < s
        BY <1>1, <1>2, <2>3 DEF Queued
    <3> QED BY <1>13, <3>1, <3>2
  <2> QED BY <2>2, <2>3 DEF NumberInv
<1>15. OrderInv'
  <2>1. ASSUME NEW i \in 1..made'
        PROVE  i \in dropped' \/ InLog(i)' \/ \E x \in Queued' : x.id = i
    <3>1. i \in dropped \/ InLog(i) \/ \E x \in Queued : x.id = i
        BY <1>1, <2>1 DEF IInv, OrderInv
    <3>2. CASE \E x \in Items(batch) : x.id = i
        BY <1>1, <1>8, <3>2 DEF InLog
    <3>3. CASE InLog(i)
        BY <1>1, <3>3 DEF InLog
    <3> QED BY <1>1, <1>5, <3>1, <3>2, <3>3 DEF Queued
  <2>2. ASSUME NEW x \in rows', x.kind = "event"
        PROVE  /\ x.id \in 1..made'
               /\ \A y \in Queued' : x.id < y.id
               /\ \A y \in rows' : y.kind = "event" /\ x.id < y.id => x.seq < y.seq
    <3>1. CASE x \in rows
      <4>1. /\ x.id \in 1..made
            /\ \A y \in Queued : x.id < y.id
            /\ \A y \in rows : y.kind = "event" /\ x.id < y.id => x.seq < y.seq
        BY <2>2, <3>1 DEF IInv, OrderInv
      <4> QED BY <1>1, <1>3, <1>5, <3>1, <4>1 DEF Queued
    <3>2. CASE x \in Items(batch)
      <4>1. \A y \in Items(buffer) : x.id < y.id
        BY <3>2 DEF IInv, QueueInv
      <4>2. ASSUME NEW y \in rows, y.kind = "event", x.id < y.id PROVE FALSE
        <5>1. y.id < x.id /\ y.id \in 1..made
            BY <3>2, <4>2 DEF IInv, OrderInv, Queued
        <5> QED BY <1>8, <3>2, <4>2, <5>1
      <4>3. ASSUME NEW y \in Items(batch), x.id < y.id PROVE x.seq < y.seq
        <5>1. PICK i, j \in 1..Len(batch) : x = batch[i] /\ y = batch[j]
            BY <1>2, <3>2, ItemsOf DEF Items
        <5>2. i \in Nat /\ j \in Nat /\ i \in DOMAIN batch /\ j \in DOMAIN batch
            BY <1>2, <5>1, ItemsOf
        <5>3. ~(j < i) /\ i # j
            BY <1>8, <3>2, <4>3, <5>1, <5>2 DEF IInv, QueueInv, Rising
        <5>4. i < j
            BY <5>2, <5>3
        <5> QED BY <5>1, <5>2, <5>4 DEF IInv, QueueInv, Rising
      <4> QED BY <1>1, <1>5, <1>8, <3>2, <4>1, <4>2, <4>3
    <3> QED BY <1>1, <2>2, <3>1, <3>2
  <2> QED BY <2>1, <2>2 DEF OrderInv
<1>16. AppenderInv'
  <2>0. UNCHANGED <<apc, aseq>>
    BY <1>1 DEF appenderVars
  <2>1. ASSUME NEW a \in Appenders, Pending(a)'
        PROVE  /\ aseq'[a] = 0 \/ aseq'[a] - 1 \in Seqs(rows')
               /\ Safe(aseq[a])' \/ aseq'[a] \in passed'
    <3>1. /\ aseq[a] \in Nat
          /\ aseq[a] = 0 \/ aseq[a] - 1 \in Seqs(rows)
          /\ Safe(aseq[a]) \/ aseq[a] \in passed
        BY <2>0, <2>1 DEF IInv, AppenderInv, Pending, TypeOK
    <3>2. aseq'[a] = 0 \/ aseq'[a] - 1 \in Seqs(rows')
        BY <1>1, <2>0, <3>1 DEF Seqs
    <3>3. CASE aseq[a] \in passed
        BY <1>1, <2>0, <3>2, <3>3
    <3>4. CASE aseq[a] \in Seqs(rows)
        BY <1>1, <2>0, <3>2, <3>4 DEF Safe, Seqs
    <3>5. CASE \A x \in rows : x.seq < aseq[a]
      <4>1. aseq[a] = MaxSeq + 1
        <5>1. MaxSeq < aseq[a]
            BY <3>1, <3>5, MaxSeqProps DEF Seqs
        <5>2. aseq[a] - 1 <= MaxSeq
            BY <3>1, MaxSeqProps DEF Seqs
        <5> QED BY <3>1, <5>1, <5>2, MaxSeqProps
      <4>2. CASE aseq[a] \in Seqs(Items(batch))
        BY <1>1, <2>0, <3>2, <4>2 DEF Safe, Seqs
      <4>3. CASE aseq[a] \notin Seqs(Items(batch))
        BY <1>1, <2>0, <3>2, <4>1, <4>3
      <4> QED BY <4>2, <4>3
    <3> QED BY <3>1, <3>3, <3>4, <3>5 DEF Safe
  <2>2. ASSUME NEW a \in Appenders, apc'[a] = "inserted"
        PROVE  /\ aseq'[a] \notin Seqs(rows')
               /\ \A b \in Appenders : apc'[b] = "inserted" /\ aseq'[b] = aseq'[a] => b = a
    <3>1. /\ aseq[a] \notin Seqs(rows)
          /\ \A b \in Appenders : apc[b] = "inserted" /\ aseq[b] = aseq[a] => b = a
        BY <2>0, <2>2 DEF IInv, AppenderInv
    <3>2. aseq[a] \notin Seqs(Items(batch))
        BY <1>1, <2>0, <2>2 DEF Held
    <3>3. Seqs(rows') = Seqs(rows) \cup Seqs(Items(batch))
        BY <1>1 DEF Seqs
    <3> QED BY <2>0, <3>1, <3>2, <3>3
  <2> QED BY <2>1, <2>2 DEF AppenderInv
<1>17. StreamInv' /\ NothingSkipped' /\ StreamComplete'
  <2>1. ASSUME NEW x \in rows' \ rows PROVE ~(x.seq <= last)
    <3>1. x \in Items(batch)
        BY <1>1, <2>1
    <3> QED BY <1>3, <3>1, LastInLog
  <2>2. UNCHANGED <<settled, inTime, last, seen, spc, sawEnd>>
    BY <1>1 DEF streamVars
  <2>3. rows \subseteq rows' /\ passed \subseteq passed' /\ rows' \subseteq Row
    BY <1>1, <1>9 DEF LogTypes
  <2> QED BY <2>1, <2>2, <2>3, StreamGrows
<1>18. RestTypes'
    BY <1>1, RestSame
<1>19. TypeOK'
    BY <1>4, <1>9, <1>11, <1>18, TypeGroupsNext
<1> QED BY <1>10, <1>12, <1>14, <1>15, <1>16, <1>17, <1>19 DEF IInv

-------------------------------------------------------------------------------
(* The others, the status and the stream.                                  *)

(* The status becomes terminal: only the first time is in time.            *)
LEMMA SettleKeeps ==
    ASSUME IInv, Complete \/ Cancel
    PROVE  IInv'
<1>1. /\ settled' = TRUE
      /\ inTime' = IF settled THEN inTime ELSE rows
      /\ phase' \in {phase, "done"}
      /\ UNCHANGED <<rows, passed, nextSeq, made, buffer, dropped, batch, io, flushing, withTask,
                     timer, pc, tries, fails, apc, aseq, atries, last, seen, spc, sawEnd,
                     hadEvents>>
    BY DEF Complete, Cancel, Settle, listenerVars, bufVars, ioVars, runVars, appenderVars,
           streamVars
<1>2. LogTypes /\ QueueTypes /\ ThreadTypes /\ RestTypes
    BY TypeGroups DEF IInv
<1>3. LogTypes' /\ ThreadTypes' /\ RestTypes'
    BY <1>1, <1>2 DEF LogTypes, ThreadTypes, RestTypes
<1>4. NumberInv' /\ OrderInv' /\ QueueTypes'
    BY <1>1, NumbersSame
<1>5. QueueInv'
    BY <1>1, QueueSame
<1>6. LogInv' /\ AppenderInv'
    BY <1>1 DEF IInv, LogInv, Bounded, AppenderInv, Pending, Safe
<1>7. StreamInv' /\ NothingSkipped'
    BY <1>1 DEF IInv, StreamInv, NothingSkipped, Overtaken
<1>8. StreamComplete'
  <2>1. spc = "ended" => inTime' = inTime
    BY <1>1 DEF IInv, StreamInv
  <2> QED BY <1>1, <2>1 DEF IInv, StreamComplete, Overtaken
<1>9. TypeOK'
    BY <1>3, <1>4, TypeGroupsNext
<1> QED BY <1>4, <1>5, <1>6, <1>7, <1>8, <1>9 DEF IInv

(* Another writer reads the highest number, or inserts its row.            *)
LEMMA AppendReadKeeps ==
    ASSUME IInv, NEW a \in Appenders, AppendRead(a) \/ AppendInsert(a)
    PROVE  IInv'
<1>1. /\ UNCHANGED <<dbVars, listenerVars, streamVars>>
      /\ atries' \in [Appenders -> Nat]
      /\ apc[a] # "inserted"
      /\ \/ /\ apc[a] \in {"new", "insert"}
            /\ apc' = [apc EXCEPT ![a] = "insert"]
            /\ aseq' = [aseq EXCEPT ![a] = MaxSeq + 1]
         \/ /\ apc[a] = "insert"
            /\ ~Held(aseq[a]) /\ aseq[a] \notin Seqs(rows)
            /\ apc' = [apc EXCEPT ![a] = "inserted"] /\ aseq' = aseq
         \/ apc' = [apc EXCEPT ![a] = "raised"] /\ aseq' = aseq
  <2>1. apc \in [Appenders -> {"new", "insert", "inserted", "done", "raised"}]
        /\ aseq \in [Appenders -> Nat] /\ atries \in [Appenders -> Nat]
    BY DEF IInv, TypeOK
  <2>2. CASE AppendRead(a)
    BY <2>1, <2>2 DEF AppendRead
  <2>3. CASE AppendInsert(a)
    <3>1. apc[a] = "insert" => [apc EXCEPT ![a] = "insert"] = apc
        BY <2>1
    <3> QED BY <2>1, <2>3, <3>1 DEF AppendInsert
  <2> QED BY <2>2, <2>3
<1>2. /\ UNCHANGED <<rows, settled, inTime, passed, last, seen, spc, sawEnd, hadEvents>>
      /\ UNCHANGED <<made, dropped, batch, buffer, nextSeq>>
    BY <1>1 DEF dbVars, streamVars, listenerVars, bufVars, ioVars
<1>3. LogTypes /\ RestTypes
    BY TypeGroups DEF IInv
<1>4. /\ QueueInv' /\ ThreadTypes' /\ QueueTypes'
      /\ tries' = tries /\ fails' = fails /\ phase' = phase
    BY <1>1, ListenerSame
<1>5. NumberInv' /\ OrderInv'
    BY <1>2, NumbersSame
<1>6. MaxSeq + 1 \in Nat /\ Safe(MaxSeq + 1)
      /\ (MaxSeq + 1 = 0 \/ (MaxSeq + 1) - 1 \in Seqs(rows))
    BY MaxSeqProps
<1>7. /\ apc' \in [Appenders -> {"new", "insert", "inserted", "done", "raised"}]
      /\ aseq' \in [Appenders -> Nat]
    BY <1>1, <1>3, <1>6 DEF RestTypes
<1>8. LogTypes' /\ RestTypes'
    BY <1>1, <1>2, <1>3, <1>4, <1>7 DEF LogTypes, RestTypes
<1>9. LogInv' /\ StreamInv' /\ NothingSkipped' /\ StreamComplete'
    BY <1>2 DEF IInv, LogInv, Bounded, StreamInv, NothingSkipped, StreamComplete, Overtaken
<1>10. AppenderInv'
  <2>1. ASSUME NEW b \in Appenders, Pending(b)'
        PROVE  /\ aseq'[b] = 0 \/ aseq'[b] - 1 \in Seqs(rows')
               /\ Safe(aseq[b])' \/ aseq'[b] \in passed'
    <3>1. Safe(aseq[b])' <=> Safe(aseq'[b])
        BY <1>2 DEF Safe
    <3>2. CASE b = a /\ aseq' = [aseq EXCEPT ![a] = MaxSeq + 1]
        BY <1>2, <1>3, <1>6, <3>1, <3>2 DEF RestTypes
    <3>3. CASE aseq'[b] = aseq[b] /\ Pending(b)
        BY <1>2, <3>1, <3>3 DEF IInv, AppenderInv
    <3>4. b # a => aseq'[b] = aseq[b] /\ Pending(b)
        BY <1>1, <1>3, <2>1 DEF Pending, RestTypes
    <3>5. CASE b = a /\ apc[a] = "insert" /\ aseq' = aseq
        BY <3>3, <3>5 DEF Pending
    <3>6. CASE b = a /\ apc' = [apc EXCEPT ![a] = "raised"]
        BY <1>3, <2>1, <3>6 DEF Pending, RestTypes
    <3> QED BY <1>1, <3>2, <3>3, <3>4, <3>5, <3>6
  <2>2. ASSUME NEW b \in Appenders, apc'[b] = "inserted"
        PROVE  /\ aseq'[b] \notin Seqs(rows')
               /\ \A c \in Appenders : apc'[c] = "inserted" /\ aseq'[c] = aseq'[b] => c = b
    <3>1. \A c \in Appenders : apc'[c] = "inserted" /\ c # a
              => apc[c] = "inserted" /\ aseq'[c] = aseq[c]
        BY <1>1, <1>3 DEF RestTypes
    <3>2. apc'[a] = "inserted"
              => ~Held(aseq[a]) /\ aseq[a] \notin Seqs(rows) /\ aseq'[a] = aseq[a]
        BY <1>1, <1>3 DEF RestTypes
    <3>3. aseq'[b] \notin Seqs(rows')
        BY <1>2, <2>2, <3>1, <3>2 DEF IInv, AppenderInv
    <3>4. ASSUME NEW c \in Appenders, apc'[c] = "inserted", aseq'[c] = aseq'[b] PROVE c = b
      <4>1. CASE b # a /\ c # a
        BY <2>2, <3>1, <3>4, <4>1 DEF IInv, AppenderInv
      <4>2. CASE (b = a /\ c # a) \/ (b # a /\ c = a)
        BY <2>2, <3>1, <3>2, <3>4, <4>2 DEF Held
      <4> QED BY <4>1, <4>2
    <3> QED BY <3>3, <3>4
  <2> QED BY <2>1, <2>2 DEF AppenderInv
<1>11. TypeOK'
    BY <1>4, <1>8, TypeGroupsNext
<1> QED BY <1>4, <1>5, <1>9, <1>10, <1>11 DEF IInv

(* It commits its row, at the end of the log or where a batch left a number out. *)
LEMMA AppendCommitKeeps ==
    ASSUME IInv, NEW a \in Appenders, AppendCommit(a)
    PROVE  IInv'
<1> DEFINE x == Appended(a, aseq[a])
<1>1. /\ apc[a] = "inserted"
      /\ rows' = rows \cup {x} \/ rows' = rows
      /\ apc' = [apc EXCEPT ![a] = "done"]
      /\ UNCHANGED <<settled, inTime, passed, listenerVars, aseq, atries, streamVars>>
    BY DEF AppendCommit
<1>2. LogTypes /\ RestTypes /\ aseq[a] \in Nat
    BY TypeGroups DEF IInv, RestTypes
<1>3. x \in Row /\ x.seq = aseq[a] /\ x.kind = "hitl"
    BY <1>2 DEF Appended, Row
<1> HIDE DEF x
<1>4. /\ \A y \in rows : y.seq \in Nat
      /\ x.seq \notin Seqs(rows)
      /\ x.seq = 0 \/ x.seq - 1 \in Seqs(rows)
      /\ Safe(x.seq) \/ x.seq \in passed
  <2>1. Pending(a)
    BY <1>1 DEF Pending
  <2> QED BY <1>1, <1>2, <1>3, <2>1 DEF IInv, AppenderInv, LogTypes, Row
<1>5. /\ UNCHANGED <<passed, settled, inTime, last, seen, spc, sawEnd, hadEvents>>
      /\ UNCHANGED <<made, dropped, batch, buffer, nextSeq>>
    BY <1>1 DEF streamVars, listenerVars, bufVars, ioVars
<1>6. /\ QueueInv' /\ ThreadTypes' /\ QueueTypes'
      /\ tries' = tries /\ fails' = fails /\ phase' = phase
    BY <1>1, ListenerSame
<1>7. LogTypes' /\ RestTypes'
    BY <1>1, <1>2, <1>3, <1>5, <1>6 DEF LogTypes, RestTypes
<1>8. Queued' = Queued
    BY <1>5 DEF Queued
\* It takes the number after the log, or one below its highest.
<1>9. ASSUME NEW s \in Nat, Safe(s) PROVE Safe(s)'
  <2>1. CASE s \in Seqs(rows)
    BY <1>1, <2>1 DEF Safe, Seqs
  <2>2. CASE \A y \in rows : y.seq < s
    <3>1. x.seq <= s
        BY <1>2, <1>3, <1>4, <2>2 DEF Seqs
    <3> QED BY <1>1, <1>2, <1>3, <2>2, <3>1 DEF Safe, Seqs
  <2> QED BY <1>9, <2>1, <2>2 DEF Safe
<1>10. LogInv'
  <2>1. IsFiniteSet(rows')
    BY <1>1, FS_AddElement DEF IInv, LogInv
  <2>2. Bounded(rows')
    <3>1. PICK b \in Nat : \A y \in rows : y.seq <= b
        BY DEF IInv, LogInv, Bounded
    <3>2. b + x.seq \in Nat /\ \A y \in rows' : y.seq <= b + x.seq
        BY <1>1, <1>2, <1>3, <1>4, <3>1
    <3> QED BY <3>2 DEF Bounded
  <2>3. \A y, z \in rows' : y.seq = z.seq => y = z
    BY <1>1, <1>4 DEF IInv, LogInv, Seqs
  <2> QED BY <2>1, <2>2, <2>3 DEF LogInv
<1>11. NumberInv'
  <2>1. ASSUME NEW y \in Queued' PROVE Safe(y.seq)'
    <3>1. y.seq \in Nat /\ Safe(y.seq)
        BY <1>8, <2>1, QueueFacts DEF IInv, NumberInv
    <3> QED BY <1>9, <3>1
  <2>2. ASSUME NEW s \in Nat, s >= nextSeq' PROVE Safe(s)'
    BY <1>5, <1>9, <2>2 DEF IInv, NumberInv
  <2> QED BY <2>1, <2>2 DEF NumberInv
<1>12. OrderInv'
  <2>1. ASSUME NEW i \in 1..made'
        PROVE  i \in dropped' \/ InLog(i)' \/ \E y \in Queued' : y.id = i
    <3>1. i \in dropped \/ InLog(i) \/ \E y \in Queued : y.id = i
        BY <1>5, <2>1 DEF IInv, OrderInv
    <3> QED BY <1>1, <1>5, <1>8, <3>1 DEF InLog
  <2>2. ASSUME NEW y \in rows', y.kind = "event"
        PROVE  /\ y.id \in 1..made'
               /\ \A z \in Queued' : y.id < z.id
               /\ \A z \in rows' : z.kind = "event" /\ y.id < z.id => y.seq < z.seq
    BY <1>1, <1>3, <1>5, <1>8, <2>2 DEF IInv, OrderInv
  <2> QED BY <2>1, <2>2 DEF OrderInv
<1>13. AppenderInv'
  <2>1. ASSUME NEW b \in Appenders, Pending(b)'
        PROVE  /\ aseq'[b] = 0 \/ aseq'[b] - 1 \in Seqs(rows')
               /\ Safe(aseq[b])' \/ aseq'[b] \in passed'
    <3>1. Pending(b) /\ aseq'[b] = aseq[b] /\ aseq[b] \in Nat
        BY <1>1, <1>2, <2>1 DEF Pending, RestTypes
    <3>2. /\ aseq[b] = 0 \/ aseq[b] - 1 \in Seqs(rows)
          /\ Safe(aseq[b]) \/ aseq[b] \in passed
        BY <3>1 DEF IInv, AppenderInv
    <3> QED BY <1>1, <1>5, <1>9, <3>1, <3>2 DEF Seqs
  <2>2. ASSUME NEW b \in Appenders, apc'[b] = "inserted"
        PROVE  /\ aseq'[b] \notin Seqs(rows')
               /\ \A c \in Appenders : apc'[c] = "inserted" /\ aseq'[c] = aseq'[b] => c = b
    <3>1. \A c \in Appenders : apc'[c] = "inserted" => c # a /\ apc[c] = "inserted" /\ aseq'[c] = aseq[c]
        BY <1>1, <1>2 DEF RestTypes
    <3>2. aseq[b] \notin Seqs(rows) /\ aseq[b] # aseq[a]
        BY <1>1, <2>2, <3>1 DEF IInv, AppenderInv
    <3> QED BY <1>1, <1>3, <2>2, <3>1, <3>2 DEF IInv, AppenderInv, Seqs
  <2> QED BY <2>1, <2>2 DEF AppenderInv
<1>14. StreamInv' /\ NothingSkipped' /\ StreamComplete'
  <2>1. ~(x.seq <= last) \/ x.seq \in passed
    <3>1. CASE x.seq \in passed
        BY <3>1
    <3>2. CASE Safe(x.seq)
        BY <1>2, <1>3, <1>4, <3>2, LastInLog DEF Safe
    <3> QED BY <1>4, <3>1, <3>2
  <2>2. \A y \in rows' \ rows : ~(y.seq <= last) \/ (y.kind = "hitl" /\ y.seq \in passed')
    BY <1>1, <1>3, <1>5, <2>1
  <2>3. rows \subseteq rows' /\ rows' \subseteq Row /\ passed \subseteq passed'
    BY <1>1, <1>5, <1>7 DEF LogTypes
  <2> QED BY <1>5, <2>2, <2>3, StreamGrows
<1>15. TypeOK'
    BY <1>6, <1>7, TypeGroupsNext
<1> QED BY <1>6, <1>10, <1>11, <1>12, <1>13, <1>14, <1>15 DEF IInv

(* The lowest events of a set, as many as a batch has: no event is left    *)
(* out below one that is in, and one is left out only if they are full.    *)
LEMMA BatchProps ==
    ASSUME NEW L, IsFiniteSet(L), Bounded(L), \A x \in L : x.seq \in Nat,
           \A x, y \in L : x.seq = y.seq => x = y
    PROVE  LET B == {x \in L : Cardinality({y \in L : y.seq < x.seq}) < BatchSize}
           IN  /\ \A x \in L, y \in B : x.seq <= y.seq => x \in B
               /\ Cardinality(B) # BatchSize => B = L
<1> DEFINE Below(x) == {y \in L : y.seq < x.seq}
           B == {x \in L : Cardinality(Below(x)) < BatchSize}
<1>0. BatchSize \in Nat \ {0}
    BY EventLogAssumption
<1>1. \A x \in L : IsFiniteSet(Below(x)) /\ Cardinality(Below(x)) \in Nat
    BY FS_Subset, FS_CardinalityType
<1>2. ASSUME NEW x \in L, NEW y \in B, x.seq <= y.seq
      PROVE  x \in B
  <2>1. Below(x) \subseteq Below(y)
    BY <1>2
  <2>2. Cardinality(Below(x)) <= Cardinality(Below(y))
    BY <1>1, <2>1, FS_Subset
  <2>3. Cardinality(Below(y)) < BatchSize
    OBVIOUS
  <2>4. Cardinality(Below(x)) \in Nat /\ Cardinality(Below(y)) \in Nat
    BY <1>1
  <2> HIDE DEF Below
  <2>5. Cardinality(Below(x)) < BatchSize
    BY <1>0, <2>2, <2>3, <2>4
  <2> QED BY <2>5
<1>3. IsFiniteSet(B) /\ Cardinality(B) \in Nat
    BY FS_Subset, FS_CardinalityType
<1>4. ASSUME B # L PROVE Cardinality(B) = BatchSize
  <2>1. PICK x \in L \ B : \A y \in L \ B : x.seq <= y.seq
    <3> DEFINE T == {n \in Nat : \E y \in L \ B : y.seq = n}
    <3>1. T \subseteq Nat /\ T # {}
        BY <1>4
    <3> HIDE DEF T
    <3>2. PICK n \in T : \A m \in T : n <= m
        BY <3>1, LeastNat
    <3> QED BY <3>2 DEF T
  <2>2. Below(x) = B
    <3>1. ASSUME NEW y \in Below(x) PROVE y \in B
        BY <2>1, <3>1
    <3>2. ASSUME NEW y \in B PROVE y \in Below(x)
        BY <1>2, <2>1, <3>2
    <3> QED BY <3>1, <3>2
  <2>3. ~(Cardinality(B) < BatchSize)
    BY <2>1, <2>2
  <2>4. B # {}
    <3>1. Cardinality({}) < BatchSize
        BY <1>0, FS_EmptySet
    <3> HIDE DEF B
    <3> QED BY <2>3, <3>1
  <2>5. PICK z \in B : \A y \in B : y.seq <= z.seq
    <3>1. Bounded(B) /\ \A y \in B : y.seq \in Nat
        BY DEF Bounded
    <3> HIDE DEF B
    <3> QED BY <2>4, <3>1, HighestIsMax DEF Seqs
  <2>6. Below(z) = B \ {z}
    <3>1. ASSUME NEW y \in Below(z) PROVE y \in B \ {z}
        BY <1>2, <3>1
    <3>2. ASSUME NEW y \in B \ {z} PROVE y \in Below(z)
        BY <2>5, <3>2
    <3> QED BY <3>1, <3>2
  <2>7. Cardinality(B \ {z}) = Cardinality(B) - 1
    BY <1>3, FS_RemoveElement
  <2>8. Cardinality(B \ {z}) < BatchSize
    BY <2>6
  <2> HIDE DEF B, Below
  <2> QED BY <1>0, <1>3, <2>3, <2>7, <2>8
<1> QED BY <1>2, <1>4

(* The stream looks at the status, or yields a batch.                      *)
LEMMA PollKeeps ==
    ASSUME IInv, PollStatus \/ PollEvents
    PROVE  IInv'
<1>1. UNCHANGED <<dbVars, listenerVars, appenderVars>>
    BY DEF PollStatus, PollEvents
<1>2. /\ UNCHANGED <<rows, settled, inTime, passed, apc, aseq, atries>>
      /\ UNCHANGED <<made, dropped, batch, buffer, nextSeq>>
    BY <1>1 DEF dbVars, appenderVars, listenerVars, bufVars, ioVars
<1>3. LogTypes /\ RestTypes
    BY TypeGroups DEF IInv
<1>4. /\ QueueInv' /\ ThreadTypes' /\ QueueTypes'
      /\ tries' = tries /\ fails' = fails /\ phase' = phase
    BY <1>1, ListenerSame
<1>5. NumberInv' /\ OrderInv'
    BY <1>2, NumbersSame
<1>6. LogInv' /\ AppenderInv'
    BY <1>2 DEF IInv, LogInv, Bounded, AppenderInv, Pending, Safe
<1>7. /\ seen' \subseteq rows' /\ last' \in Nat \cup {-1}
      /\ spc' \in {"status", "events", "ended"}
      /\ sawEnd' \in BOOLEAN /\ hadEvents' \in BOOLEAN
      /\ StreamInv' /\ NothingSkipped' /\ StreamComplete'
  <2>1. CASE PollStatus
    <3>1. /\ spc' \in {"status", "events"} /\ sawEnd' = settled /\ hadEvents' \in BOOLEAN
          /\ last' = last /\ seen' = seen
        BY <2>1 DEF PollStatus
    <3> QED BY <1>2, <1>3, <3>1 DEF IInv, LogTypes, RestTypes, StreamInv, NothingSkipped,
                                    StreamComplete, Overtaken
  <2>2. CASE PollEvents
    <3> DEFINE later == {x \in rows : x.seq > last}
               batchOf == {x \in later :
                             Cardinality({y \in later : y.seq < x.seq}) < BatchSize}
    <3>1. /\ seen' = seen \cup batchOf
          /\ last' = IF batchOf = {} THEN last ELSE Highest(batchOf)
          /\ hadEvents' = (hadEvents \/ batchOf # {})
          /\ spc' = IF Cardinality(batchOf) = BatchSize THEN "events"
                    ELSE IF sawEnd THEN "ended" ELSE "status"
          /\ sawEnd' = sawEnd
        BY <2>2 DEF PollEvents
    <3>2. \A x \in rows : x.seq \in Nat
        BY <1>3 DEF LogTypes, Row
    <3>3. /\ \A x \in later, y \in batchOf : x.seq <= y.seq => x \in batchOf
          /\ Cardinality(batchOf) # BatchSize => batchOf = later
      <4>1. /\ IsFiniteSet(later) /\ Bounded(later)
            /\ \A x \in later : x.seq \in Nat
            /\ \A x, y \in later : x.seq = y.seq => x = y
        BY <3>2, FS_Subset DEF IInv, LogInv, Bounded
      <4> HIDE DEF later
      <4> QED BY <4>1, BatchProps
    <3>4. batchOf \subseteq later
        OBVIOUS
    <3> HIDE DEF batchOf
    <3>5. batchOf # {} => /\ last' \in Nat /\ last' \in Seqs(rows) /\ last' \in Seqs(batchOf)
      <4>1. Bounded(batchOf) /\ \A x \in batchOf : x.seq \in Nat
        BY <3>2, <3>4 DEF IInv, LogInv, Bounded
      <4> QED BY <3>1, <3>4, <4>1, HighestIsMax DEF Seqs
    <3>6. StreamInv'
      <4>1. last' = -1 \/ last' \in Seqs(rows')
        BY <1>2, <3>1, <3>5 DEF IInv, StreamInv
      <4> QED BY <1>2, <3>1, <4>1 DEF IInv, StreamInv
    <3>7. \A x \in rows : x.seq <= last' => x \in seen' \/ Overtaken(x)
      <4> SUFFICES ASSUME NEW x \in rows, x.seq <= last'
                   PROVE  x \in seen' \/ Overtaken(x)
        OBVIOUS
      <4>1. CASE x.seq <= last
        BY <3>1, <4>1 DEF IInv, NothingSkipped
      <4>2. CASE x \in later
        <5>1. CASE batchOf = {}
          BY <1>3, <3>1, <3>2, <4>2, <5>1 DEF RestTypes
        <5>2. CASE batchOf # {}
          <6>1. PICK y \in batchOf : y.seq = last'
            BY <3>5, <5>2 DEF Seqs
          <6>2. x \in batchOf
            BY <3>3, <4>2, <6>1
          <6> QED BY <3>1, <6>2
        <5> QED BY <5>1, <5>2
      <4> QED BY <1>3, <3>2, <4>1, <4>2 DEF RestTypes
    <3>8. spc' = "ended" => \A x \in inTime : x \in seen' \/ Overtaken(x)
      <4> SUFFICES ASSUME spc' = "ended", NEW x \in inTime
                   PROVE  x \in seen' \/ Overtaken(x)
        OBVIOUS
      <4>1. batchOf = later /\ x \in rows
        BY <1>3, <3>1, <3>3 DEF LogTypes
      <4>2. CASE x.seq <= last
        BY <3>1, <4>1, <4>2 DEF IInv, NothingSkipped
      <4>3. CASE x.seq > last
        BY <3>1, <4>1, <4>3
      <4> QED BY <1>3, <3>2, <4>1, <4>2, <4>3 DEF RestTypes
    <3>9. NothingSkipped' /\ StreamComplete'
        BY <1>2, <3>7, <3>8 DEF NothingSkipped, StreamComplete, Overtaken
    <3>10. seen' \subseteq rows' /\ last' \in Nat \cup {-1}
        BY <1>2, <1>3, <3>1, <3>4, <3>5 DEF LogTypes, RestTypes
    <3> QED BY <1>3, <3>1, <3>6, <3>9, <3>10 DEF RestTypes
  <2> QED BY <2>1, <2>2
<1>8. LogTypes' /\ RestTypes'
    BY <1>2, <1>3, <1>4, <1>7 DEF LogTypes, RestTypes
<1>9. TypeOK'
    BY <1>4, <1>8, TypeGroupsNext
<1> QED BY <1>4, <1>5, <1>6, <1>7, <1>9 DEF IInv

-------------------------------------------------------------------------------
(* The invariant is inductive.                                             *)

(* It holds at the start.                                                  *)
LEMMA Initially == Init => IInv
<1> SUFFICES ASSUME Init PROVE IInv
    OBVIOUS
<1>1. /\ rows = {Event(i, i - 1) : i \in 1..Logged}
      /\ made = Logged /\ nextSeq = Logged /\ Logged \in Nat
      /\ buffer = <<>> /\ batch = <<>> /\ io = NoThread /\ NoThread \notin Threads
      /\ seen = {} /\ inTime = {} /\ last = -1 /\ dropped = {} /\ passed = {}
      /\ apc = [a \in Appenders |-> "new"] /\ pc = [t \in Threads |-> "idle"]
    BY EventLogAssumption DEF Init
<1>2. \A i \in 1..Logged : /\ Event(i, i - 1) \in EventRow
                           /\ Event(i, i - 1).id = i /\ Event(i, i - 1).seq = i - 1
    BY <1>1 DEF Event, EventRow
<1>3. \A x \in rows : /\ x \in EventRow /\ x.kind = "event"
                      /\ x.id \in 1..Logged /\ x.seq = x.id - 1
                      /\ x = Event(x.id, x.id - 1)
    BY <1>1, <1>2 DEF EventRow
<1>4. Queued = {}
    BY <1>1, ItemsEmpty DEF Queued
<1>5. TypeOK
  <2>1. LogTypes
    <3>1. EventRow \subseteq Row
        BY DEF EventRow, Row
    <3> QED BY <1>1, <1>3, <3>1 DEF LogTypes, Init
  <2>2. QueueTypes
    BY <1>1, <1>4, ItemsEmpty DEF QueueTypes
  <2>3. ThreadTypes
    BY <1>1 DEF ThreadTypes, Init, Places, Writing
  <2>4. RestTypes
    BY DEF RestTypes, Init
  <2> QED BY <2>1, <2>2, <2>3, <2>4, TypeGroups
<1>6. LogInv
  <2>1. IsFiniteSet(rows)
    <3> DEFINE f == [i \in 1..Logged |-> Event(i, i - 1)]
    <3>1. f \in Surjection(1..Logged, rows)
        BY <1>1 DEF Surjection
    <3>2. IsFiniteSet(1..Logged)
      <4>1. 1 \in Int /\ Logged \in Int
        BY <1>1
      <4> QED BY <4>1, FS_Interval
    <3> HIDE DEF f
    <3> QED BY <3>1, <3>2, FS_Surjection
  <2>2. \A x \in rows : x.seq <= Logged
    BY <1>1, <1>3
  <2>3. \A x, y \in rows : x.seq = y.seq => x = y
    <3> TAKE x, y \in rows
    <3>1. x.id \in Nat /\ y.id \in Nat
        BY <1>1, <1>3
    <3>2. x.seq = y.seq => x.id = y.id
        BY <1>3, <3>1
    <3> QED BY <1>3, <3>2
  <2> QED BY <1>1, <2>1, <2>2, <2>3 DEF LogInv, Bounded
<1>7. QueueInv
  <2>1. \A t \in Threads : pc[t] = "idle"
    BY <1>1
  <2> QED BY <1>1, <1>4, <2>1, ItemsEmpty DEF QueueInv
<1>8. NumberInv
    BY <1>1, <1>3, <1>4 DEF NumberInv, Safe
<1>9. OrderInv
  <2>1. \A i \in 1..made : InLog(i)
    <3> TAKE i \in 1..made
    <3>1. Event(i, i - 1) \in rows
        BY <1>1
    <3> QED BY <1>1, <1>2, <1>3, <3>1 DEF InLog
  <2>2. \A x, y \in rows : x.id < y.id => x.seq < y.seq
    <3> TAKE x, y \in rows
    <3>1. x.id \in Nat /\ y.id \in Nat /\ x.seq = x.id - 1 /\ y.seq = y.id - 1
        BY <1>1, <1>3
    <3> QED BY <3>1
  <2> QED BY <1>1, <1>3, <1>4, <2>1, <2>2 DEF OrderInv
<1>10. AppenderInv
    BY <1>1 DEF AppenderInv, Pending
<1>11. StreamInv
    BY <1>1 DEF StreamInv, Init
<1>12. NothingSkipped
  <2>1. \A x \in rows : ~(x.seq <= -1)
    BY <1>1, <1>3
  <2> QED BY <1>1, <2>1 DEF NothingSkipped
<1>13. StreamComplete
    BY <1>1 DEF StreamComplete, Init
<1> QED BY <1>5, <1>6, <1>7, <1>8, <1>9, <1>10, <1>11, <1>12, <1>13 DEF IInv

(* Every step keeps it.                                                    *)
LEMMA EveryStep == IInv /\ [Next]_vars => IInv'
<1> SUFFICES ASSUME IInv, [Next]_vars PROVE IInv'
    OBVIOUS
<1>1. CASE QuietStep
    BY <1>1, QuietKeeps
<1>2. ASSUME NEW t \in Threads, ListenerStep(t) PROVE IInv'
  <2>1. CASE WriteEvent(t)
    BY <2>1, WriteEventKeeps
  <2>2. CASE Drain(t)
    BY <2>2, DrainKeeps
  <2>3. CASE TakeBuffer(t) /\ buffer # <<>>
    BY <2>3, TakeBufferKeeps
  <2>4. CASE CommitBatch(t)
    BY <2>4, CommitBatchKeeps
  <2>5. CASE Renumber(t) \/ RenumberFails(t)
    BY <2>5, RenumberKeeps
  <2>6. CASE Requeue(t)
    BY <2>6, RequeueKeeps
  <2> QED BY <1>2, <2>1, <2>2, <2>3, <2>4, <2>5, <2>6 DEF ListenerStep
<1>3. CASE Complete \/ Cancel
    BY <1>3, SettleKeeps
<1>4. ASSUME NEW a \in Appenders, AppenderStep(a) PROVE IInv'
  <2>1. CASE AppendRead(a) \/ AppendInsert(a)
    BY <2>1, AppendReadKeeps
  <2>2. CASE AppendCommit(a)
    BY <2>2, AppendCommitKeeps
  <2> QED BY <1>4, <2>1, <2>2 DEF AppenderStep
<1>5. CASE PollStatus \/ PollEvents
    BY <1>5, PollKeeps
<1> QED BY <1>1, <1>2, <1>3, <1>4, <1>5, NextCases

(* So it holds always.                                                     *)
LEMMA Always == Spec => []IInv
    BY Initially, EveryStep, PTL DEF Spec

(* Types, and _io_lock is with the thread that has a batch to write. *)
THEOREM TypeCorrect == Spec => []TypeOK
<1>1. IInv => TypeOK
    BY DEF IInv
<1> QED BY <1>1, Always, PTL

(* No stream passes over an event of the listener, whatever was dropped,   *)
(* renumbered or retried, and over a request or an answer only if a batch  *)
(* had left its number out: the promise of the comment on _io_lock.        *)
THEOREM NothingIsSkipped == Spec => []NothingSkipped
<1>1. IInv => NothingSkipped
    BY DEF IInv
<1> QED BY <1>1, Always, PTL

(* The log has the listener's events in the order they were emitted.       *)
THEOREM WrittenInOrder == Spec => []WriteOrder
<1>1. IInv => WriteOrder
  <2> SUFFICES ASSUME IInv, NEW i \in 1..made, NEW x \in rows,
                      x.kind = "event", i < x.id, i \notin dropped
               PROVE  \E y \in rows : y.kind = "event" /\ y.id = i /\ y.seq < x.seq
    BY DEF WriteOrder
  <2>1. x.id \in 1..made /\ made \in Nat /\ \A y \in Queued : x.id < y.id
    BY QueueFacts DEF IInv, OrderInv
  <2>2. ~ \E y \in Queued : y.id = i
    BY <2>1
  <2>3. PICK y \in rows : y.kind = "event" /\ y.id = i
    BY <2>2 DEF IInv, OrderInv, InLog
  <2>4. y.seq < x.seq
    BY <2>3 DEF IInv, OrderInv
  <2> QED BY <2>3, <2>4
<1> QED BY <1>1, Always, PTL

(* A stream that has ended has yielded what was logged in time: it reads   *)
(* the status before the events, and batches until one is not full.        *)
THEOREM StreamsComplete == Spec => []StreamComplete
<1>1. IInv => StreamComplete
    BY DEF IInv
<1> QED BY <1>1, Always, PTL

===============================================================================
