------------------------- MODULE StudioHistoryProofs -------------------------
(***************************************************************************)
(* The studio's store implements UndoStack.  What the refinement mapping   *)
(* is of one document more is a lemma about Dedup, by induction on the     *)
(* documents (first part); the operations of the store then move what      *)
(* undo goes back through and redo forward through as those of an undo     *)
(* stack do, as long as the document on display is the one at the index,   *)
(* before the end of the history (second part).                            *)
(***************************************************************************)
EXTENDS StudioHistory, SequenceTheorems, WellFoundedInduction, TLAPS

(***************************************************************************)
(* Induction, on the natural numbers and on sequences, over sets: what is  *)
(* to be shown is that a set is all of them.                               *)
(***************************************************************************)
LEMMA LessIsWellFounded == IsWellFoundedOn({p \in Nat \X Nat : p[1] < p[2]}, Nat)
BY NatLessThanWellFounded DEF OpToRel

LEMMA NatSetInduction ==
    ASSUME NEW T \in SUBSET Nat, 0 \in T, \A n \in T : n + 1 \in T
    PROVE  T = Nat
<1> DEFINE R == {p \in Nat \X Nat : p[1] < p[2]}
<1> SUFFICES ASSUME Nat \ T # {}
             PROVE  FALSE
  OBVIOUS
<1>1. PICK n \in Nat \ T : \A m \in Nat \ T : ~ (<<m, n>> \in R)
  <2>1. IsWellFoundedOn(R, Nat)
    BY LessIsWellFounded
  <2> HIDE DEF R
  <2> QED
    BY <2>1, WFMin
<1>2. n # 0 /\ n - 1 \in Nat /\ <<n - 1, n>> \in R
  OBVIOUS
<1>3. (n - 1) + 1 \in T
  <2> HIDE DEF R
  <2>1. n - 1 \in T
    BY <1>1, <1>2
  <2> QED
    BY <2>1
<1> QED
  BY <1>3

LEMMA SequenceSetInduction ==
    ASSUME NEW S, NEW T \in SUBSET Seq(S), <<>> \in T,
           \A s \in T, e \in S : Append(s, e) \in T
    PROVE  T = Seq(S)
<1> DEFINE N == {n \in Nat : \A s \in Seq(S) : Len(s) = n => s \in T}
<1>1. 0 \in N
  BY EmptySeq
<1>2. ASSUME NEW n \in N
      PROVE  n + 1 \in N
  <2> SUFFICES ASSUME NEW s \in Seq(S), Len(s) = n + 1
               PROVE  s \in T
    OBVIOUS
  <2>0. s # <<>>
    BY EmptySeq
  <2>1. PICK q \in Seq(S), e \in S : s = Append(q, e)
    BY <2>0, SequenceEmptyOrAppend
  <2>2. Len(q) \in Nat /\ Len(q) + 1 = n + 1
    BY <2>1, AppendProperties, LenProperties
  <2>3. q \in T
    BY <2>2
  <2> QED
    BY <2>1, <2>3
<1>3. N = Nat
  <2> HIDE DEF N
  <2>1. N \subseteq Nat
    BY DEF N
  <2> QED
    BY <1>1, <1>2, <2>1, NatSetInduction
<1>4. \A s \in Seq(S) : Len(s) \in Nat
  BY LenProperties
<1>5. \A s \in Seq(S) : s \in T
  BY <1>3, <1>4
<1> QED
  BY <1>5

(***************************************************************************)
(* Dedup: it is well-defined, and what it is of one document more, at      *)
(* either end.                                                             *)
(***************************************************************************)
\* What the recursive function of Dedup is, of the first n documents.
IsUpto(u, s, n) ==
    u = [i \in 0..n |->
            IF i = 0 THEN <<>>
            ELSE IF i > 1 /\ s[i - 1] = s[i] THEN u[i - 1] ELSE Append(u[i - 1], s[i])]

LEMMA UptoExists ==
    ASSUME NEW s
    PROVE  \A n \in Nat : \E u : IsUpto(u, s, n)
<1> DEFINE T == {n \in Nat : \E u : IsUpto(u, s, n)}
<1>1. 0 \in T
  <2>1. IsUpto([i \in 0..0 |-> <<>>], s, 0)
    BY DEF IsUpto
  <2> QED
    BY <2>1
<1>2. ASSUME NEW n \in T
      PROVE  n + 1 \in T
  <2>1. PICK u : IsUpto(u, s, n)
    OBVIOUS
  <2>2. \A i \in 0..n : u[i] = IF i = 0 THEN <<>>
                               ELSE IF i > 1 /\ s[i - 1] = s[i] THEN u[i - 1]
                               ELSE Append(u[i - 1], s[i])
    BY <2>1 DEF IsUpto
  <2> DEFINE next == IF n + 1 > 1 /\ s[n] = s[n + 1] THEN u[n] ELSE Append(u[n], s[n + 1])
             v == [i \in 0..(n + 1) |-> IF i = n + 1 THEN next ELSE u[i]]
  <2>3. \A i \in 0..n : v[i] = u[i]
    OBVIOUS
  <2>4. v[n + 1] = next
    OBVIOUS
  <2>5. \A i \in 0..(n + 1) : v[i] = IF i = 0 THEN <<>>
                               ELSE IF i > 1 /\ s[i - 1] = s[i] THEN v[i - 1]
                               ELSE Append(v[i - 1], s[i])
    <3> SUFFICES ASSUME NEW i \in 0..(n + 1)
                 PROVE  v[i] = IF i = 0 THEN <<>>
                               ELSE IF i > 1 /\ s[i - 1] = s[i] THEN v[i - 1]
                               ELSE Append(v[i - 1], s[i])
      OBVIOUS
    <3> HIDE DEF v
    <3>1. CASE i = n + 1
      BY <2>3, <2>4, <3>1
    <3>2. CASE i \in 0..n
      <4>1. i = 0 \/ i - 1 \in 0..n
        BY <3>2
      <4> QED
        BY <2>2, <2>3, <3>2, <4>1
    <3> QED
      BY <3>1, <3>2
  <2>6. v = [i \in 0..(n + 1) |-> v[i]]
    OBVIOUS
  <2>7. IsUpto(v, s, n + 1)
    <3> HIDE DEF v
    <3> QED
      BY <2>5, <2>6 DEF IsUpto
  <2> QED
    BY <2>7
<1> QED
  <2> HIDE DEF T
  <2>1. T \subseteq Nat
    BY DEF T
  <2>2. T = Nat
    BY <1>1, <1>2, <2>1, NatSetInduction
  <2> QED
    BY <2>2 DEF T

\* The first documents alone matter.
LEMMA UptoAgrees ==
    ASSUME NEW s, NEW t, NEW m \in Nat, NEW n \in Nat, m <= n,
           NEW u, IsUpto(u, s, m), NEW v, IsUpto(v, t, n),
           \A i \in 1..m : s[i] = t[i]
    PROVE  \A i \in 0..m : u[i] = v[i]
<1> DEFINE T == {i \in Nat : i <= m => u[i] = v[i]}
<1>1. \A i \in 0..m : u[i] = IF i = 0 THEN <<>>
                             ELSE IF i > 1 /\ s[i - 1] = s[i] THEN u[i - 1]
                             ELSE Append(u[i - 1], s[i])
  BY DEF IsUpto
<1>2. \A i \in 0..n : v[i] = IF i = 0 THEN <<>>
                             ELSE IF i > 1 /\ t[i - 1] = t[i] THEN v[i - 1]
                             ELSE Append(v[i - 1], t[i])
  BY DEF IsUpto
<1>3. 0 \in T
  <2>1. u[0] = <<>> /\ v[0] = <<>>
    BY <1>1, <1>2
  <2> QED
    BY <2>1
<1>4. ASSUME NEW i \in T
      PROVE  i + 1 \in T
  BY <1>1, <1>2
<1>5. T = Nat
  <2> HIDE DEF T
  <2>1. T \subseteq Nat
    BY DEF T
  <2> QED
    BY <1>3, <1>4, <2>1, NatSetInduction
<1> QED
  BY <1>5

LEMMA DedupIsUpto ==
    ASSUME NEW S, NEW s \in Seq(S)
    PROVE  \E u : IsUpto(u, s, Len(s)) /\ Dedup(s) = u[Len(s)]
<1>1. \E u : IsUpto(u, s, Len(s))
  BY UptoExists, LenProperties
<1> QED
  BY <1>1 DEF Dedup, IsUpto

LEMMA DedupEmpty == Dedup(<<>>) = <<>>
<1>1. PICK u : IsUpto(u, <<>>, 0) /\ Dedup(<<>>) = u[0]
  BY DedupIsUpto, EmptySeq
<1> QED
  BY <1>1 DEF IsUpto

LEMMA DedupAppend ==
    ASSUME NEW S, NEW s \in Seq(S), NEW d \in S
    PROVE  Dedup(Append(s, d)) = IF s # <<>> /\ s[Len(s)] = d THEN Dedup(s)
                                 ELSE Append(Dedup(s), d)
<1> DEFINE t == Append(s, d)
           k == Len(s)
<1>1. /\ t \in Seq(S) /\ k \in Nat /\ Len(t) = k + 1 /\ t[k + 1] = d
      /\ \A i \in 1..k : s[i] = t[i]
      /\ s # <<>> <=> k # 0
  BY AppendProperties, LenProperties, EmptySeq
<1> HIDE DEF t, k
<1>2. PICK u : IsUpto(u, s, k) /\ Dedup(s) = u[k]
  BY DedupIsUpto DEF k
<1>3. PICK v : IsUpto(v, t, k + 1) /\ Dedup(t) = v[k + 1]
  BY <1>1, DedupIsUpto
<1>4. u[k] = v[k]
  <2>1. \A i \in 0..k : u[i] = v[i]
    BY <1>1, <1>2, <1>3, UptoAgrees
  <2> QED
    BY <1>1, <2>1
<1>5. v[k + 1] = IF k + 1 > 1 /\ t[k] = t[k + 1] THEN v[k] ELSE Append(v[k], t[k + 1])
  <2>1. k + 1 \in 0..(k + 1) /\ (k + 1) - 1 = k /\ k + 1 # 0
    BY <1>1
  <2> QED
    BY <1>3, <2>1 DEF IsUpto
<1>6. k # 0 => s[k] = t[k]
  BY <1>1
<1>7. Dedup(t) = IF s # <<>> /\ s[k] = d THEN Dedup(s) ELSE Append(Dedup(s), d)
  BY <1>1, <1>2, <1>3, <1>4, <1>5, <1>6
<1> QED
  BY <1>7 DEF t, k

LEMMA DedupOne ==
    ASSUME NEW S, NEW d \in S
    PROVE  Dedup(Append(<<>>, d)) = Append(<<>>, d)
<1>1. PICK p : p = <<>>
  OBVIOUS
<1>2. p \in Seq(S)
  BY <1>1, EmptySeq
<1>3. Dedup(Append(p, d)) = IF p # <<>> /\ p[Len(p)] = d THEN Dedup(p) ELSE Append(Dedup(p), d)
  BY <1>2, DedupAppend
<1> QED
  BY <1>1, <1>3, DedupEmpty

(***************************************************************************)
(* Front and Last.                                                         *)
(***************************************************************************)
LEMMA FrontOfAppend ==
    ASSUME NEW S, NEW s \in Seq(S), NEW e \in S
    PROVE  Front(Append(s, e)) = s /\ Last(Append(s, e)) = e
<1> DEFINE t == Append(s, e)
           f == SubSeq(t, 1, Len(t) - 1)
<1>1. /\ t \in Seq(S) /\ Len(s) \in Nat /\ Len(t) = Len(s) + 1 /\ t[Len(s) + 1] = e
      /\ \A i \in 1..Len(s) : t[i] = s[i]
  BY AppendProperties, LenProperties
<1> HIDE DEF t
<1>2. \A i \in 1..(Len(t) - 1) : t[i] \in S
  BY <1>1, ElementOfSeq
<1>3. /\ f \in Seq(S)
      /\ Len(f) = IF 1 <= Len(t) - 1 THEN Len(t) - 1 - 1 + 1 ELSE 0
      /\ \A i \in 1..(Len(t) - 1 - 1 + 1) : f[i] = t[1 + i - 1]
  BY <1>1, <1>2, SubSeqProperties
<1>4. Len(f) = Len(s) /\ \A i \in 1..Len(f) : f[i] = s[i]
  <2> HIDE DEF f
  <2>1. Len(f) = Len(s)
    BY <1>1, <1>3
  <2>2. ASSUME NEW i \in 1..Len(f)
        PROVE  f[i] = s[i]
    <3>1. i \in 1..(Len(t) - 1 - 1 + 1) /\ 1 + i - 1 = i /\ i \in 1..Len(s)
      BY <1>1, <2>1
    <3> QED
      BY <1>1, <1>3, <3>1
  <2> QED
    BY <2>1, <2>2
<1>5. f = s
  <2> HIDE DEF f
  <2> QED
    BY <1>3, <1>4, SeqEqual
<1> QED
  BY <1>1, <1>5 DEF Front, Last, t

LEMMA FrontAndLast ==
    ASSUME NEW S, NEW s \in Seq(S), s # <<>>
    PROVE  /\ Front(s) \in Seq(S) /\ Last(s) \in S
           /\ s = Append(Front(s), Last(s))
<1>1. PICK q \in Seq(S), e \in S : s = Append(q, e)
  BY SequenceEmptyOrAppend
<1> QED
  BY <1>1, FrontOfAppend

(***************************************************************************)
(* The ends of what Dedup leaves are those of what it is given.            *)
(***************************************************************************)
LEMMA DedupEnds ==
    ASSUME NEW S
    PROVE  \A s \in Seq(S) :
             /\ Dedup(s) \in Seq(S)
             /\ s # <<>> => /\ Dedup(s) # <<>>
                            /\ Last(Dedup(s)) = Last(s)
                            /\ Head(Dedup(s)) = Head(s)
<1> DEFINE P(s) == /\ Dedup(s) \in Seq(S)
                   /\ s # <<>> => /\ Dedup(s) # <<>>
                                  /\ Last(Dedup(s)) = Last(s)
                                  /\ Head(Dedup(s)) = Head(s)
           T == {s \in Seq(S) : P(s)}
<1>1. <<>> \in T
  BY DedupEmpty, EmptySeq
<1>2. ASSUME NEW s \in T, NEW e \in S
      PROVE  Append(s, e) \in T
  <2>1. Append(s, e) \in Seq(S) /\ Append(s, e) # <<>> /\ Last(Append(s, e)) = e
    BY AppendProperties, FrontOfAppend
  <2>2. Head(Append(s, e)) = IF s = <<>> THEN e ELSE Head(s)
    BY HeadTailAppend
  <2>3. Dedup(Append(s, e)) = IF s # <<>> /\ s[Len(s)] = e THEN Dedup(s)
                              ELSE Append(Dedup(s), e)
    BY DedupAppend
  <2>4. CASE s # <<>> /\ s[Len(s)] = e
    BY <2>1, <2>2, <2>3, <2>4 DEF Last
  <2>5. CASE ~ (s # <<>> /\ s[Len(s)] = e)
    <3> DEFINE t == Dedup(s)
    <3>1. t \in Seq(S) /\ (s # <<>> => t # <<>> /\ Head(t) = Head(s)) /\ (s = <<>> => t = <<>>)
      BY DedupEmpty
    <3> HIDE DEF t
    <3>2. /\ Append(t, e) \in Seq(S) /\ Append(t, e) # <<>> /\ Last(Append(t, e)) = e
          /\ Head(Append(t, e)) = IF t = <<>> THEN e ELSE Head(t)
      BY <3>1, AppendProperties, FrontOfAppend, HeadTailAppend
    <3>3. Dedup(Append(s, e)) = Append(t, e)
      BY <2>3, <2>5 DEF t
    <3> QED
      BY <2>1, <2>2, <3>1, <3>2, <3>3
  <2> QED
    BY <2>4, <2>5
<1>3. T = Seq(S)
  <2> HIDE DEF T
  <2>1. T \subseteq Seq(S)
    BY DEF T
  <2> QED
    BY <1>1, <1>2, <2>1, SequenceSetInduction
<1> QED
  BY <1>3

\* Appending to what begins with d.
LEMMA ConsAppend ==
    ASSUME NEW S, NEW s \in Seq(S), NEW d \in S, NEW e \in S
    PROVE  /\ <<d>> \o s \in Seq(S) /\ <<d>> \o s # <<>>
           /\ <<d>> \o Append(s, e) = Append(<<d>> \o s, e)
           /\ Last(<<d>> \o s) = IF s = <<>> THEN d ELSE Last(s)
           /\ Head(<<d>> \o s) = d /\ Tail(<<d>> \o s) = s
<1>1. <<d>> \in Seq(S) /\ <<e>> \in Seq(S) /\ Len(<<d>>) = 1 /\ <<d>>[1] = d
  OBVIOUS
<1>2. /\ <<d>> \o s \in Seq(S) /\ Len(<<d>> \o s) = 1 + Len(s) /\ Len(s) \in Nat
      /\ \A i \in 1..(1 + Len(s)) : (<<d>> \o s)[i] = IF i <= 1 THEN <<d>>[i] ELSE s[i - 1]
  BY <1>1, ConcatProperties, LenProperties
<1>3. <<d>> \o s # <<>>
  BY <1>2, EmptySeq
<1>4. <<d>> \o Append(s, e) = Append(<<d>> \o s, e)
  <2>1. Append(s, e) = s \o <<e>> /\ Append(<<d>> \o s, e) = (<<d>> \o s) \o <<e>>
    BY <1>2, AppendIsConcat
  <2> QED
    BY <1>1, <2>1, ConcatAssociative
<1>5. Last(<<d>> \o s) = IF s = <<>> THEN d ELSE Last(s)
  <2>1. s = <<>> <=> Len(s) = 0
    BY EmptySeq
  <2> QED
    BY <1>1, <1>2, <2>1 DEF Last
<1>6. Head(<<d>> \o s) = d
  BY <1>1, <1>2
<1>7. Tail(<<d>> \o s) = s
  <2> DEFINE q == <<d>> \o s
  <2>1. /\ Tail(q) \in Seq(S) /\ Len(Tail(q)) = Len(q) - 1
        /\ \A i \in 1..Len(Tail(q)) : Tail(q)[i] = q[i + 1]
    BY <1>2, <1>3, HeadTailProperties
  <2>2. Len(Tail(q)) = Len(s) /\ \A i \in 1..Len(Tail(q)) : Tail(q)[i] = s[i]
    BY <1>2, <2>1
  <2> HIDE DEF q
  <2>3. Tail(q) = s
    BY <2>1, <2>2, SeqEqual
  <2> QED
    BY <2>3 DEF q
<1> QED
  BY <1>2, <1>3, <1>4, <1>5, <1>6, <1>7

LEMMA DedupCons ==
    ASSUME NEW S, NEW d \in S
    PROVE  \A s \in Seq(S) :
             s # <<>> => Dedup(<<d>> \o s) = IF Head(s) = d THEN Dedup(s)
                                             ELSE <<d>> \o Dedup(s)
<1> DEFINE P(s) == s # <<>> => Dedup(<<d>> \o s) = IF Head(s) = d THEN Dedup(s)
                                                   ELSE <<d>> \o Dedup(s)
           T == {s \in Seq(S) : P(s)}
<1>0. Dedup(<<d>>) = <<d>>
  <2>1. <<d>> = Append(<<>>, d) /\ <<>> \in Seq(S)
    OBVIOUS
  <2>2. Dedup(Append(<<>>, d)) = Append(Dedup(<<>>), d)
    BY <2>1, DedupAppend
  <2> QED
    BY <2>1, <2>2, DedupEmpty
<1>1. <<>> \in T
  BY EmptySeq
<1>2. ASSUME NEW s \in T, NEW e \in S
      PROVE  Append(s, e) \in T
  <2> DEFINE q == <<d>> \o s
             t == Append(s, e)
  <2>1. /\ q \in Seq(S) /\ q # <<>> /\ <<d>> \o t = Append(q, e)
        /\ Last(q) = IF s = <<>> THEN d ELSE Last(s)
    BY ConsAppend
  <2>2. t \in Seq(S) /\ t # <<>> /\ Head(t) = IF s = <<>> THEN e ELSE Head(s)
    BY AppendProperties, HeadTailAppend
  <2>3. Dedup(<<d>> \o t) = IF Last(q) = e THEN Dedup(q) ELSE Append(Dedup(q), e)
    <3> HIDE DEF q
    <3> QED
      BY <2>1, DedupAppend DEF Last
  <2>4. Dedup(t) = IF s # <<>> /\ Last(s) = e THEN Dedup(s) ELSE Append(Dedup(s), e)
    BY DedupAppend DEF Last
  <2>5. Dedup(s) \in Seq(S)
    BY DedupEnds
  <2>6. CASE s = <<>>
    <3>1. q = <<d>> /\ t = <<e>> /\ Dedup(t) = <<e>>
      BY <2>6, <2>4, DedupEmpty
    <3>2. Dedup(<<d>> \o t) = IF d = e THEN <<d>> ELSE Append(<<d>>, e)
      BY <2>1, <2>3, <2>6, <3>1, <1>0
    <3>3. <<d>> \in Seq(S) /\ Append(<<d>>, e) = <<d>> \o <<e>>
      BY AppendIsConcat
    <3> QED
      BY <2>2, <2>6, <3>1, <3>2, <3>3
  <2>7. CASE s # <<>> /\ Head(s) = d
    <3>1. Dedup(q) = Dedup(s)
      BY <2>7
    <3>2. Dedup(<<d>> \o t) = Dedup(t) /\ Head(t) = d
      BY <2>1, <2>2, <2>3, <2>4, <2>7, <3>1
    <3> QED
      BY <2>2, <3>2
  <2>8. CASE s # <<>> /\ Head(s) # d
    <3>1. Dedup(q) = <<d>> \o Dedup(s)
      BY <2>8
    <3>2. Append(<<d>> \o Dedup(s), e) = <<d>> \o Append(Dedup(s), e)
      BY <2>5, ConsAppend
    <3>3. Dedup(<<d>> \o t) = <<d>> \o Dedup(t) /\ Head(t) # d
      BY <2>1, <2>2, <2>3, <2>4, <2>8, <3>1, <3>2
    <3> QED
      BY <2>2, <3>3
  <2> QED
    BY <2>6, <2>7, <2>8
<1>3. T = Seq(S)
  <2> HIDE DEF T
  <2>1. T \subseteq Seq(S)
    BY DEF T
  <2> QED
    BY <1>1, <1>2, <2>1, SequenceSetInduction
<1> QED
  BY <1>3

(***************************************************************************)
(* What undo goes back through and redo goes forward through, one document *)
(* at a time: p are those recorded before d, and r after it.               *)
(***************************************************************************)
Behind(p, d) == Front(Dedup(Append(p, d)))
Ahead(d, r) == Tail(Dedup(<<d>> \o r))

LEMMA NothingBehind ==
    ASSUME NEW S, NEW d \in S
    PROVE  Behind(<<>>, d) = <<>>
<1>1. <<>> \in Seq(S)
  BY EmptySeq
<1>2. Dedup(Append(<<>>, d)) = Append(<<>>, d)
  BY DedupOne
<1> QED
  BY <1>1, <1>2, FrontOfAppend DEF Behind

LEMMA BehindAppend ==
    ASSUME NEW S, NEW p \in Seq(S), NEW d \in S, NEW e \in S
    PROVE  /\ Behind(p, d) \in Seq(S)
           /\ Behind(Append(p, e), d) = IF e = d THEN Behind(p, d)
                                        ELSE Append(Behind(p, e), e)
<1>1. ASSUME NEW f \in S
      PROVE  /\ Append(p, f) \in Seq(S) /\ Append(p, f) # <<>>
             /\ Dedup(Append(p, f)) \in Seq(S) /\ Behind(p, f) \in Seq(S)
             /\ Dedup(Append(p, f)) = Append(Behind(p, f), f)
  <2>1. Append(p, f) \in Seq(S) /\ Append(p, f) # <<>> /\ Last(Append(p, f)) = f
    BY AppendProperties, FrontOfAppend
  <2>2. /\ Dedup(Append(p, f)) \in Seq(S) /\ Dedup(Append(p, f)) # <<>>
        /\ Last(Dedup(Append(p, f))) = f
    BY <2>1, DedupEnds
  <2> QED
    BY <2>1, <2>2, FrontAndLast DEF Behind
<1>2. Dedup(Append(Append(p, e), d)) = IF e = d THEN Dedup(Append(p, e))
                                       ELSE Append(Dedup(Append(p, e)), d)
  <2>1. Last(Append(p, e)) = e
    BY FrontOfAppend
  <2> QED
    BY <1>1, <2>1, DedupAppend DEF Last
<1>3. CASE e = d
  BY <1>1, <1>2, <1>3 DEF Behind
<1>4. CASE e # d
  <2>1. Front(Append(Dedup(Append(p, e)), d)) = Dedup(Append(p, e))
    BY <1>1, FrontOfAppend
  <2>2. Behind(Append(p, e), d) = Dedup(Append(p, e))
    BY <1>2, <1>4, <2>1 DEF Behind
  <2> QED
    BY <1>1, <1>4, <2>2
<1> QED
  BY <1>3, <1>4

LEMMA BehindStep ==
    ASSUME NEW S
    PROVE  \A p \in Seq(S), d, e \in S :
             Behind(Append(p, e), d) = IF e = d THEN Behind(p, d) ELSE Append(Behind(p, e), e)
BY BehindAppend

LEMMA NothingAhead ==
    ASSUME NEW S, NEW d \in S
    PROVE  Ahead(d, <<>>) = <<>>
<1>1. <<>> \in Seq(S) /\ <<d>> = Append(<<>>, d) /\ <<d>> \in Seq(S)
  OBVIOUS
<1>2. Dedup(Append(<<>>, d)) = Append(<<>>, d)
  BY DedupOne
<1>3. <<d>> \o <<>> = <<d>>
  BY <1>1, ConcatEmptySeq
<1>4. Tail(<<d>>) = <<>>
  OBVIOUS
<1> QED
  BY <1>1, <1>2, <1>3, <1>4 DEF Ahead

LEMMA AheadCons ==
    ASSUME NEW S, NEW r \in Seq(S), NEW d \in S, NEW e \in S
    PROVE  /\ Ahead(d, r) \in Seq(S)
           /\ Ahead(d, <<e>> \o r) = IF e = d THEN Ahead(d, r) ELSE <<e>> \o Ahead(e, r)
<1>1. ASSUME NEW f \in S
      PROVE  /\ <<f>> \o r \in Seq(S) /\ <<f>> \o r # <<>> /\ Head(<<f>> \o r) = f
             /\ Dedup(<<f>> \o r) \in Seq(S) /\ Ahead(f, r) \in Seq(S)
             /\ Dedup(<<f>> \o r) = <<f>> \o Ahead(f, r)
  <2> DEFINE q == <<f>> \o r
             t == Dedup(q)
  <2>1. q \in Seq(S) /\ q # <<>> /\ Head(q) = f
    BY ConsAppend
  <2>2. t \in Seq(S) /\ t # <<>> /\ Head(t) = f
    <3> HIDE DEF q
    <3> QED
      BY <2>1, DedupEnds
  <2> HIDE DEF t
  <2>3. Tail(t) \in Seq(S)
    BY <2>2, HeadTailProperties
  <2>4. t = <<f>> \o Tail(t)
    <3>1. <<f>> \o Tail(t) \in Seq(S) /\ Len(t) \in Nat /\ Len(t) > 0
      BY <2>2, <2>3, ConsAppend, LenProperties, EmptySeq
    <3>2. Len(Tail(t)) = Len(t) - 1 /\ \A i \in 1..Len(Tail(t)) : Tail(t)[i] = t[i + 1]
      BY <2>2, HeadTailProperties
    <3>3. /\ <<f>> \in Seq(S) /\ Len(<<f>>) = 1 /\ <<f>>[1] = f /\ t[1] = f
      BY <2>2
    <3>4. /\ Len(<<f>> \o Tail(t)) = 1 + Len(Tail(t))
          /\ \A i \in 1..(1 + Len(Tail(t))) :
               (<<f>> \o Tail(t))[i] = IF i <= 1 THEN <<f>>[i] ELSE Tail(t)[i - 1]
      BY <2>3, <3>3, ConcatProperties
    <3>5. ASSUME NEW i \in 1..Len(t)
          PROVE  t[i] = (<<f>> \o Tail(t))[i]
      <4>1. CASE i = 1
        BY <3>1, <3>2, <3>3, <3>4, <4>1
      <4>2. CASE i > 1
        <5>1. i - 1 \in 1..Len(Tail(t)) /\ (i - 1) + 1 = i /\ i \in 1..(1 + Len(Tail(t)))
          BY <3>1, <3>2, <4>2
        <5>2. Tail(t)[i - 1] = t[i]
          BY <3>2, <5>1
        <5> QED
          BY <3>4, <4>2, <5>1, <5>2
      <4> QED
        BY <4>1, <4>2
    <3> QED
      BY <2>2, <3>1, <3>2, <3>4, <3>5, SeqEqual
  <2> QED
    BY <2>1, <2>2, <2>3, <2>4 DEF t, Ahead
<1>2. Dedup(<<d>> \o (<<e>> \o r)) = IF e = d THEN Dedup(<<e>> \o r)
                                     ELSE <<d>> \o Dedup(<<e>> \o r)
  <2> DEFINE q == <<e>> \o r
  <2>1. q \in Seq(S) /\ q # <<>> /\ Head(q) = e
    BY <1>1
  <2> HIDE DEF q
  <2>2. Dedup(<<d>> \o q) = IF Head(q) = d THEN Dedup(q) ELSE <<d>> \o Dedup(q)
    BY <2>1, DedupCons
  <2> QED
    BY <2>1, <2>2 DEF q
<1>3. CASE e = d
  BY <1>1, <1>2, <1>3 DEF Ahead
<1>4. CASE e # d
  <2>1. Tail(<<d>> \o Dedup(<<e>> \o r)) = Dedup(<<e>> \o r)
    BY <1>1, ConsAppend
  <2>2. Ahead(d, <<e>> \o r) = Dedup(<<e>> \o r)
    BY <1>2, <1>4, <2>1 DEF Ahead
  <2> QED
    BY <1>1, <1>4, <2>2
<1> QED
  BY <1>1, <1>3, <1>4

LEMMA AheadStep ==
    ASSUME NEW S
    PROVE  \A r \in Seq(S), d, e \in S :
             Ahead(d, <<e>> \o r) = IF e = d THEN Ahead(d, r) ELSE <<e>> \o Ahead(e, r)
<1> SUFFICES ASSUME NEW r \in Seq(S), NEW d \in S, NEW e \in S
             PROVE  Ahead(d, <<e>> \o r) = IF e = d THEN Ahead(d, r) ELSE <<e>> \o Ahead(e, r)
  OBVIOUS
<1> QED
  BY AheadCons, ZenonT(60)

\* Without the oldest document of the history, undo loses it or nothing.
Forgets(p, q) == q = p \/ (p # <<>> /\ q = Tail(p))

LEMMA OldestForgotten ==
    ASSUME NEW S, NEW o \in S
    PROVE  \A s \in Seq(S) : \A d \in S : Forgets(Behind(<<o>> \o s, d), Behind(s, d))
<1> DEFINE P(s) == \A d \in S : Forgets(Behind(<<o>> \o s, d), Behind(s, d))
           T == {s \in Seq(S) : P(s)}
<1>1. <<>> \in T
  <2> SUFFICES ASSUME NEW d \in S
               PROVE  Forgets(Behind(<<o>> \o <<>>, d), Behind(<<>>, d))
    BY EmptySeq
  <2>1. <<o>> \o <<>> = Append(<<>>, o) /\ <<>> \in Seq(S)
    OBVIOUS
  <2>2. Behind(<<>>, d) = <<>> /\ Behind(<<>>, o) = <<>>
    BY NothingBehind
  <2>3. Behind(Append(<<>>, o), d) = IF o = d THEN Behind(<<>>, d)
                                     ELSE Append(Behind(<<>>, o), o)
    BY <2>1, BehindStep
  <2>4. Append(<<>>, o) # <<>> /\ Tail(Append(<<>>, o)) = <<>>
    OBVIOUS
  <2> QED
    BY <2>1, <2>2, <2>3, <2>4 DEF Forgets
<1>2. ASSUME NEW s \in T, NEW e \in S
      PROVE  Append(s, e) \in T
  <2> SUFFICES ASSUME NEW d \in S
               PROVE  Forgets(Behind(<<o>> \o Append(s, e), d), Behind(Append(s, e), d))
    BY AppendProperties
  <2> DEFINE q == <<o>> \o s
  <2>1. q \in Seq(S) /\ <<o>> \o Append(s, e) = Append(q, e)
    BY ConsAppend
  <2>2. Forgets(Behind(q, d), Behind(s, d)) /\ Forgets(Behind(q, e), Behind(s, e))
    OBVIOUS
  <2> HIDE DEF q
  <2>3. Behind(Append(q, e), d) = IF e = d THEN Behind(q, d) ELSE Append(Behind(q, e), e)
    BY <2>1, BehindStep
  <2>4. Behind(Append(s, e), d) = IF e = d THEN Behind(s, d) ELSE Append(Behind(s, e), e)
    BY BehindStep
  <2>5. CASE e = d
    BY <2>1, <2>2, <2>3, <2>4, <2>5
  <2>6. CASE e # d
    <3>1. Behind(q, e) \in Seq(S)
      BY <2>1, BehindAppend
    <3> DEFINE b == Behind(q, e)
    <3> HIDE DEF b
    <3>2. /\ Append(b, e) # <<>>
          /\ b # <<>> => Tail(Append(b, e)) = Append(Tail(b), e)
      BY <3>1, AppendProperties, HeadTailAppend DEF b
    <3>3. Forgets(Append(b, e), Append(Behind(s, e), e))
      BY <2>2, <3>2 DEF Forgets, b
    <3> QED
      BY <2>1, <2>3, <2>4, <2>6, <3>3 DEF b
  <2> QED
    BY <2>5, <2>6
<1>3. T = Seq(S)
  <2> HIDE DEF T
  <2>1. T \subseteq Seq(S)
    BY DEF T
  <2> QED
    BY <1>1, <1>2, <2>1, SequenceSetInduction
<1> QED
  BY <1>3

(***************************************************************************)
(* The store.                                                              *)
(***************************************************************************)
Stores(S) == [doc : S, hist : Seq(S), idx : Nat, live : BOOLEAN,
              canUndo : BOOLEAN, canRedo : BOOLEAN]

\* The index is in the history, at its end or before, and the history fits.
WellFormed(s, S) ==
    /\ s \in Stores(S)
    /\ s.idx <= Len(s.hist) /\ Len(s.hist) <= MAX_HISTORY
    /\ s.hist # <<>> => s.idx # 0

\* But at its end, the document on display is the one at the index.
Exact(s) == s.idx # 0 /\ ~ (AtTip(s) /\ s.live) => s.doc = s.hist[s.idx]

HistoryInv ==
    /\ docs \in 0..MaxDocs /\ recorded \in BOOLEAN
    /\ WellFormed(st, 0..docs)
    /\ recorded => Exact(st)

Cut(all) == IF Len(all) > MAX_HISTORY THEN Tail(all) ELSE all

LEMMA HeadAndTail ==
    ASSUME NEW S, NEW s \in Seq(S), s # <<>>
    PROVE  /\ Head(s) \in S /\ Tail(s) \in Seq(S)
           /\ s = <<Head(s)>> \o Tail(s)
<1>1. 1 \in 1..Len(s) /\ Len(s) \in 1..Len(s)
  BY EmptySeq
<1>2. SubSeq(s, 1, Len(s)) = <<s[1]>> \o SubSeq(s, 1 + 1, Len(s))
  BY <1>1, SubSeqRecursiveFirst
<1>3. Tail(s) = SubSeq(s, 2, Len(s)) /\ Head(s) = s[1]
  BY TailIsSubSeq
<1>4. SubSeq(s, 1, Len(s)) = s
  BY SubSeqFull
<1>5. Head(s) \in S /\ Tail(s) \in Seq(S)
  BY HeadTailProperties
<1> QED
  BY <1>2, <1>3, <1>4, <1>5

LEMMA CutFits ==
    ASSUME HistoryAssumption, NEW S, NEW q \in Seq(S), NEW d \in S, Len(q) <= MAX_HISTORY
    PROVE  /\ Cut(Append(q, d)) \in Seq(S) /\ Len(Cut(Append(q, d))) \in 1..MAX_HISTORY
           /\ Cut(Append(q, d)) # <<>> /\ Cut(Append(q, d))[Len(Cut(Append(q, d)))] = d
           /\ \/ Cut(Append(q, d)) = Append(q, d)
              \/ /\ Len(q) = MAX_HISTORY /\ q # <<>>
                 /\ Cut(Append(q, d)) = Append(Tail(q), d)
                 /\ Cut(Append(q, d)) = Tail(Append(q, d))
<1>0. PICK all, c : all = Append(q, d) /\ c = Cut(all)
  OBVIOUS
<1> DEFINE Fits == /\ c \in Seq(S) /\ Len(c) \in 1..MAX_HISTORY
                   /\ c # <<>> /\ c[Len(c)] = d
                   /\ \/ c = all
                      \/ /\ Len(q) = MAX_HISTORY /\ q # <<>>
                         /\ c = Append(Tail(q), d)
                         /\ c = Tail(all)
<1>1. /\ all \in Seq(S) /\ all # <<>> /\ Len(all) = Len(q) + 1 /\ Len(q) \in Nat
      /\ all[Len(q) + 1] = d
      /\ Tail(all) = IF q = <<>> THEN <<>> ELSE Append(Tail(q), d)
  BY <1>0, AppendProperties, HeadTailAppend, LenProperties
<1>2. /\ Head(all) \in S /\ Tail(all) \in Seq(S) /\ Len(Tail(all)) = Len(all) - 1
      /\ \A i \in 1..Len(Tail(all)) : Tail(all)[i] = all[i + 1]
  BY <1>1, HeadTailProperties
<1>4. MAX_HISTORY \in Nat /\ MAX_HISTORY # 0
  BY DEF HistoryAssumption
<1>5. CASE Len(all) <= MAX_HISTORY
  <2>1. c = all
    BY <1>0, <1>1, <1>4, <1>5 DEF Cut
  <2>2. c[Len(c)] = d /\ Len(c) \in 1..MAX_HISTORY
    BY <1>1, <1>4, <1>5, <2>1
  <2>3. Fits
    BY <1>1, <2>1, <2>2
  <2> QED
    BY <1>0, <2>3
<1>6. CASE Len(all) > MAX_HISTORY
  <2>1. Len(q) = MAX_HISTORY
    BY <1>1, <1>4, <1>6
  <2>2. q # <<>>
    BY <1>4, <2>1, EmptySeq
  <2>3. c = Tail(all) /\ c = Append(Tail(q), d)
    BY <1>0, <1>1, <1>6, <2>2 DEF Cut
  <2>4. Len(c) = MAX_HISTORY /\ c[MAX_HISTORY] = d
    <3>1. Len(Tail(all)) = MAX_HISTORY
      BY <1>1, <1>2, <2>1
    <3>2. Tail(all)[MAX_HISTORY] = all[MAX_HISTORY + 1]
      BY <1>2, <1>4, <3>1
    <3> QED
      BY <1>1, <2>1, <2>3, <3>1, <3>2
  <2>5. c # <<>>
    BY <1>4, <2>4, EmptySeq
  <2>6. Len(c) \in 1..MAX_HISTORY
    BY <1>4, <2>4
  <2>7. Fits
    BY <1>2, <2>1, <2>2, <2>3, <2>4, <2>5, <2>6
  <2> QED
    BY <1>0, <2>7
<1>7. Len(all) <= MAX_HISTORY \/ Len(all) > MAX_HISTORY
  BY <1>1, <1>4
<1> QED
  BY <1>5, <1>6, <1>7

\* Undo loses nothing by the cut, or the oldest document.
LEMMA CutForgets ==
    ASSUME HistoryAssumption, NEW S, NEW q \in Seq(S), NEW e \in S, NEW d \in S,
           Len(q) <= MAX_HISTORY
    PROVE  \/ Behind(Cut(Append(q, e)), d) = Behind(Append(q, e), d)
           \/ /\ Len(q) = MAX_HISTORY /\ Behind(Append(q, e), d) # <<>>
              /\ Behind(Cut(Append(q, e)), d) = Tail(Behind(Append(q, e), d))
<1>0. PICK all, c : all = Append(q, e) /\ c = Cut(Append(q, e))
  OBVIOUS
<1>1. /\ c \in Seq(S)
      /\ c = all \/ (Len(q) = MAX_HISTORY /\ \E o \in S : all = <<o>> \o c)
  <2>1. /\ c \in Seq(S)
        /\ c = all \/ (Len(q) = MAX_HISTORY /\ c = Tail(all))
    BY <1>0, CutFits
  <2>2. all \in Seq(S) /\ all # <<>>
    BY <1>0, AppendProperties
  <2>3. Head(all) \in S /\ all = <<Head(all)>> \o Tail(all)
    BY <2>2, HeadAndTail
  <2> QED
    BY <2>1, <2>3
<1>2. CASE c = all
  BY <1>0, <1>2
<1>3. CASE Len(q) = MAX_HISTORY /\ \E o \in S : all = <<o>> \o c
  <2>1. PICK o \in S : all = <<o>> \o c
    BY <1>3
  <2>2. Forgets(Behind(<<o>> \o c, d), Behind(c, d))
    BY <1>1, <2>1, OldestForgotten
  <2> QED
    BY <1>0, <1>3, <2>1, <2>2 DEF Forgets
<1> QED
  BY <1>1, <1>2, <1>3

(***************************************************************************)
(* The operations keep the store well-formed; all but those that amend     *)
(* show the document at the index.                                         *)
(***************************************************************************)
LEMMA ChangeKeeps ==
    ASSUME HistoryAssumption, NEW S, NEW s, WellFormed(s, S), NEW d \in S
    PROVE  LET q == SubSeq(s.hist, 1, s.idx)
               t == Change(s, d)
           IN  /\ WellFormed(t, S) /\ Exact(t) /\ AtTip(t) /\ t.live
               /\ t.doc = d /\ t.hist = Cut(Append(q, s.doc)) /\ t.idx = Len(t.hist)
               /\ q \in Seq(S) /\ Len(q) = s.idx
<1> DEFINE q == SubSeq(s.hist, 1, s.idx)
           c == Cut(Append(q, s.doc))
<1>1. /\ s.hist \in Seq(S) /\ s.idx \in Nat /\ s.doc \in S /\ s.idx <= Len(s.hist)
      /\ Len(s.hist) \in Nat /\ Len(s.hist) <= MAX_HISTORY /\ MAX_HISTORY \in Nat
  BY LenProperties DEF WellFormed, Stores, HistoryAssumption
<1>2. q \in Seq(S) /\ Len(q) = s.idx
  <2>1. \A i \in 1..s.idx : s.hist[i] \in S
    BY <1>1, ElementOfSeq
  <2>2. q \in Seq(S) /\ Len(q) = IF 1 <= s.idx THEN s.idx - 1 + 1 ELSE 0
    BY <1>1, <2>1, SubSeqProperties
  <2> QED
    BY <1>1, <2>2
<1>3. /\ c \in Seq(S) /\ Len(c) \in 1..MAX_HISTORY /\ c # <<>>
  <2>1. q \in Seq(S) /\ Len(q) <= MAX_HISTORY /\ s.doc \in S
    BY <1>1, <1>2
  <2> HIDE DEF q
  <2> QED
    BY <2>1, CutFits
<1> DEFINE t == Change(s, d)
<1>4. /\ t \in Stores(S) /\ t.doc = d /\ t.hist = c /\ t.idx = Len(c) /\ t.live = TRUE
  <2>1. t = [s EXCEPT !.hist = c, !.idx = Len(c), !.canUndo = TRUE, !.canRedo = FALSE,
                      !.doc = d, !.live = TRUE]
    BY DEF Change, Amend, PushHistory, Cut
  <2> HIDE DEF c, t
  <2>2. s \in Stores(S)
    BY DEF WellFormed
  <2>3. t = [doc |-> d, hist |-> c, idx |-> Len(c), live |-> TRUE, canUndo |-> TRUE,
             canRedo |-> FALSE]
    BY <2>1, <2>2 DEF Stores
  <2>4. Len(c) \in Nat
    BY <1>3, LenProperties
  <2> QED
    BY <1>3, <2>3, <2>4 DEF Stores
<1> HIDE DEF t, c
<1>5. WellFormed(t, S) /\ AtTip(t) /\ t.live
  BY <1>3, <1>4, <1>1 DEF WellFormed, AtTip
<1>6. Exact(t)
  BY <1>5 DEF Exact
<1> QED
  BY <1>2, <1>4, <1>5, <1>6 DEF t, c

LEMMA AmendKeeps ==
    ASSUME NEW S, NEW s, WellFormed(s, S), NEW d \in S
    PROVE  LET t == Amend(s, d)
           IN  /\ WellFormed(t, S) /\ t.doc = d /\ t.hist = s.hist /\ t.idx = s.idx /\ t.live
               /\ AtTip(t) <=> AtTip(s)
               /\ AtTip(s) \/ d = s.doc => (Exact(s) => Exact(t))
<1> DEFINE t == Amend(s, d)
<1>1. /\ t \in Stores(S) /\ t.doc = d /\ t.hist = s.hist /\ t.idx = s.idx /\ t.live = TRUE
  BY DEF WellFormed, Stores, Amend
<1> HIDE DEF t
<1> QED
  BY <1>1 DEF t, WellFormed, AtTip, Exact

LEMMA RestoreKeeps ==
    ASSUME NEW S, NEW s, WellFormed(s, S), NEW h \in Seq(S),
           Len(h) <= MAX_HISTORY, NEW i \in 1..Len(h)
    PROVE  LET t == Restore(s, h, i)
           IN  /\ WellFormed(t, S) /\ Exact(t)
               /\ t.doc = h[i] /\ t.hist = h /\ t.idx = i
<1> DEFINE t == Restore(s, h, i)
<1>1. h[i] \in S /\ i \in Nat /\ i # 0 /\ i <= Len(h) /\ Len(h) \in Nat
  BY ElementOfSeq, LenProperties
<1>2. /\ t \in Stores(S) /\ t.doc = h[i] /\ t.hist = h /\ t.idx = i
  <2>0. (i >= 2) \in BOOLEAN /\ (i < Len(h)) \in BOOLEAN
    OBVIOUS
  <2>1. PICK u \in BOOLEAN : u = (i >= 2)
    BY <2>0, ZenonT(60)
  <2>2. PICK r \in BOOLEAN : r = (i < Len(h))
    BY <2>0, ZenonT(60)
  <2>3. t = [s EXCEPT !.hist = h, !.idx = i, !.doc = h[i], !.live = FALSE,
                      !.canUndo = u, !.canRedo = r]
    BY <2>1, <2>2, Zenon DEF Restore
  <2> HIDE DEF t
  <2>4. s \in Stores(S)
    BY DEF WellFormed
  <2>5. t = [doc |-> h[i], hist |-> h, idx |-> i, live |-> FALSE, canUndo |-> u,
             canRedo |-> r]
    BY <2>3, <2>4 DEF Stores
  <2> QED
    BY <1>1, <2>5 DEF Stores
<1> HIDE DEF t
<1> QED
  BY <1>1, <1>2 DEF t, WellFormed, Exact

LEMMA UndoKeeps ==
    ASSUME HistoryAssumption, NEW S, NEW s, WellFormed(s, S)
    PROVE  WellFormed(UndoOf(s), S) /\ (Exact(s) => Exact(UndoOf(s)))
<1> DEFINE c == Cut(Append(s.hist, s.doc))
<1>1. /\ s.hist \in Seq(S) /\ s.idx \in Nat /\ s.doc \in S /\ s.idx <= Len(s.hist)
      /\ Len(s.hist) \in Nat /\ Len(s.hist) <= MAX_HISTORY /\ s.live \in BOOLEAN
  BY LenProperties DEF WellFormed, Stores, HistoryAssumption
<1>2. c \in Seq(S) /\ Len(c) \in 1..MAX_HISTORY /\ MAX_HISTORY \in Nat
  <2>1. c \in Seq(S) /\ Len(c) \in 1..MAX_HISTORY
    BY <1>1, CutFits
  <2> QED
    BY <2>1 DEF HistoryAssumption
<1>3. UndoOf(s) = CASE s.idx = 0 -> s
                    [] s.idx # 0 /\ AtTip(s) /\ s.live ->
                         IF Len(c) = 1 THEN s ELSE Restore(s, c, Len(c) - 1)
                    [] OTHER -> IF s.idx = 1 THEN s ELSE Restore(s, s.hist, s.idx - 1)
  BY DEF UndoOf, Cut
<1> HIDE DEF c
<1>4. \/ UndoOf(s) = s
      \/ Len(c) # 1 /\ UndoOf(s) = Restore(s, c, Len(c) - 1)
      \/ s.idx # 0 /\ s.idx # 1 /\ UndoOf(s) = Restore(s, s.hist, s.idx - 1)
  BY <1>3
<1>5. Len(c) # 1 => Len(c) - 1 \in 1..Len(c) /\ Len(c) <= MAX_HISTORY
  <2>1. PICK k \in 1..MAX_HISTORY : k = Len(c)
    BY <1>2
  <2>2. k # 1 => k - 1 \in 1..k /\ k <= MAX_HISTORY
    BY <1>2
  <2> QED
    BY <2>1, <2>2
<1>6. s.idx # 0 /\ s.idx # 1 => s.idx - 1 \in 1..Len(s.hist)
  BY <1>1
<1>7. CASE UndoOf(s) = s
  BY <1>7
<1>8. CASE Len(c) # 1 /\ UndoOf(s) = Restore(s, c, Len(c) - 1)
  BY <1>2, <1>5, <1>8, RestoreKeeps
<1>9. CASE s.idx # 0 /\ s.idx # 1 /\ UndoOf(s) = Restore(s, s.hist, s.idx - 1)
  BY <1>1, <1>6, <1>9, RestoreKeeps
<1> QED
  BY <1>4, <1>7, <1>8, <1>9

LEMMA RedoKeeps ==
    ASSUME HistoryAssumption, NEW S, NEW s, WellFormed(s, S)
    PROVE  LET t == RedoOf(s)
           IN  /\ WellFormed(t, S) /\ (Exact(s) => Exact(t))
               /\ IF AtTip(s) THEN t = s
                  ELSE /\ s.idx + 1 \in 1..Len(s.hist) /\ Exact(t)
                       /\ t.doc = s.hist[s.idx + 1] /\ t.hist = s.hist /\ t.idx = s.idx + 1
<1>1. CASE AtTip(s)
  BY <1>1 DEF RedoOf
<1>2. CASE ~ AtTip(s)
  <2>1. /\ s.hist \in Seq(S) /\ s.idx + 1 \in 1..Len(s.hist)
        /\ Len(s.hist) <= MAX_HISTORY
    BY <1>2, LenProperties DEF WellFormed, Stores, AtTip
  <2> DEFINE r == Restore(s, s.hist, s.idx + 1)
             t == RedoOf(s)
  <2>2. /\ WellFormed(r, S) /\ Exact(r)
        /\ r.doc = s.hist[s.idx + 1] /\ r.hist = s.hist /\ r.idx = s.idx + 1
    BY <2>1, RestoreKeeps
  <2>3. t = [r EXCEPT !.canUndo = TRUE]
    BY <1>2 DEF RedoOf
  <2> HIDE DEF r, t
  <2>4. /\ t \in Stores(S) /\ t.doc = r.doc /\ t.hist = r.hist /\ t.idx = r.idx
        /\ t.live = r.live
    BY <2>2, <2>3 DEF WellFormed, Stores
  <2>5. WellFormed(t, S) /\ Exact(t)
    BY <2>2, <2>4 DEF WellFormed, Exact, AtTip
  <2> QED
    BY <1>2, <2>1, <2>2, <2>4, <2>5 DEF t
<1> QED
  BY <1>1, <1>2

(***************************************************************************)
(* The stack that the store is, and how the operations move it: "same"     *)
(* leaves it as it is, the others are the steps of UndoStack.              *)
(***************************************************************************)
Before(s) == SubSeq(s.hist, 1, s.idx)
After(s) == SubSeq(s.hist, s.idx + 1, Len(s.hist))

PastOf(s) == LET before == IF AtTip(s) /\ s.live THEN s.idx ELSE s.idx - 1
             IN  Behind(SubSeq(s.hist, 1, before), s.doc)
FutureOf(s) == Ahead(s.doc, After(s))

Kept(s, p, t) ==
    \/ PastOf(t) = p
    \/ Len(s.hist) = MAX_HISTORY /\ p # <<>> /\ PastOf(t) = Tail(p)

Same(s, t) == PastOf(t) = PastOf(s) /\ t.doc = s.doc /\ FutureOf(t) = FutureOf(s)
EditStep(s, t) == Kept(s, Append(PastOf(s), s.doc), t) /\ FutureOf(t) = <<>>
AmendStep(s, t) == Kept(s, PastOf(s), t) /\ FutureOf(t) = <<>>
UndoStep(s, t) ==
    /\ PastOf(s) # <<>> /\ t.doc = Last(PastOf(s))
    /\ Kept(s, Front(PastOf(s)), t)
    /\ FutureOf(t) = <<s.doc>> \o FutureOf(s)
RedoStep(s, t) ==
    /\ FutureOf(s) # <<>> /\ t.doc = Head(FutureOf(s))
    /\ PastOf(t) = Append(PastOf(s), s.doc)
    /\ FutureOf(t) = Tail(FutureOf(s))

LEMMA Parts ==
    ASSUME NEW S, NEW s, WellFormed(s, S)
    PROVE  /\ s.hist \in Seq(S) /\ s.idx \in Nat /\ s.doc \in S /\ s.live \in BOOLEAN
           /\ Len(s.hist) \in Nat /\ s.idx <= Len(s.hist) /\ Len(s.hist) <= MAX_HISTORY
           /\ Before(s) \in Seq(S) /\ Len(Before(s)) = s.idx
           /\ After(s) \in Seq(S)
           /\ s.idx = 0 => s.hist = <<>> /\ Before(s) = <<>>
           /\ AtTip(s) => Before(s) = s.hist /\ After(s) = <<>>
           /\ s.idx # 0 => /\ SubSeq(s.hist, 1, s.idx - 1) \in Seq(S)
                           /\ s.hist[s.idx] \in S
                           /\ Before(s) = Append(SubSeq(s.hist, 1, s.idx - 1), s.hist[s.idx])
<1>1. /\ s.hist \in Seq(S) /\ s.idx \in Nat /\ s.doc \in S /\ s.live \in BOOLEAN
      /\ Len(s.hist) \in Nat /\ s.idx <= Len(s.hist) /\ Len(s.hist) <= MAX_HISTORY
  BY LenProperties DEF WellFormed, Stores
<1>2. \A i \in 1..Len(s.hist) : s.hist[i] \in S
  BY <1>1, ElementOfSeq
<1>3. Before(s) \in Seq(S) /\ Len(Before(s)) = s.idx
  <2>1. \A i \in 1..s.idx : s.hist[i] \in S
    BY <1>1, <1>2
  <2>2. /\ SubSeq(s.hist, 1, s.idx) \in Seq(S)
        /\ Len(SubSeq(s.hist, 1, s.idx)) = IF 1 <= s.idx THEN s.idx - 1 + 1 ELSE 0
    BY <1>1, <2>1, SubSeqProperties
  <2> QED
    BY <1>1, <2>2 DEF Before
<1>4. After(s) \in Seq(S)
  <2>1. \A i \in (s.idx + 1)..Len(s.hist) : s.hist[i] \in S
    BY <1>1, <1>2
  <2> QED
    BY <1>1, <2>1, SubSeqProperties DEF After
<1>5. s.idx = 0 => s.hist = <<>> /\ Before(s) = <<>>
  BY <1>1, SubSeqEmpty DEF WellFormed, Before
<1>6. AtTip(s) => Before(s) = s.hist /\ After(s) = <<>>
  BY <1>1, SubSeqEmpty, SubSeqFull DEF AtTip, Before, After
<1>7. ASSUME s.idx # 0
      PROVE  /\ SubSeq(s.hist, 1, s.idx - 1) \in Seq(S)
             /\ s.hist[s.idx] \in S
             /\ Before(s) = Append(SubSeq(s.hist, 1, s.idx - 1), s.hist[s.idx])
  <2>1. \A i \in 1..(s.idx - 1) : s.hist[i] \in S
    BY <1>1, <1>2
  <2>2. SubSeq(s.hist, 1, s.idx - 1) \in Seq(S) /\ s.hist[s.idx] \in S
    BY <1>1, <1>2, <1>7, <2>1, SubSeqProperties
  <2>3. 1 \in 1..Len(s.hist) /\ s.idx \in 1..Len(s.hist)
    BY <1>1, <1>7
  <2>4. SubSeq(s.hist, 1, s.idx) = SubSeq(s.hist, 1, s.idx - 1) \o <<s.hist[s.idx]>>
    BY <1>1, <2>3, SubSeqRecursiveSecond
  <2>5. Append(SubSeq(s.hist, 1, s.idx - 1), s.hist[s.idx])
          = SubSeq(s.hist, 1, s.idx - 1) \o <<s.hist[s.idx]>>
    BY <2>2, AppendIsConcat
  <2> QED
    BY <2>2, <2>4, <2>5 DEF Before
<1> QED
  BY <1>1, <1>3, <1>4, <1>5, <1>6, <1>7

\* Whether or not the document on display is the one at the index, what is
\* behind it is behind the documents up to the index.
LEMMA PastAt ==
    ASSUME NEW S, NEW s, WellFormed(s, S), Exact(s)
    PROVE  PastOf(s) = Behind(Before(s), s.doc) /\ PastOf(s) \in Seq(S)
<1>1. Behind(Before(s), s.doc) \in Seq(S)
  BY Parts, BehindAppend
<1>2. CASE AtTip(s) /\ s.live
  BY <1>1, <1>2 DEF PastOf, Before
<1>3. CASE ~ (AtTip(s) /\ s.live) /\ s.idx = 0
  <2>1. SubSeq(s.hist, 1, s.idx - 1) = <<>>
    BY <1>3, SubSeqEmpty
  <2>2. Before(s) = <<>>
    BY <1>3, Parts
  <2> QED
    BY <1>1, <1>3, <2>1, <2>2 DEF PastOf
<1>4. CASE ~ (AtTip(s) /\ s.live) /\ s.idx # 0
  <2> DEFINE p == SubSeq(s.hist, 1, s.idx - 1)
  <2>1. p \in Seq(S) /\ s.doc \in S /\ Before(s) = Append(p, s.doc)
    BY <1>4, Parts DEF Exact
  <2>2. PastOf(s) = Behind(p, s.doc)
    BY <1>4 DEF PastOf
  <2> HIDE DEF p
  <2>3. Behind(Append(p, s.doc), s.doc) = Behind(p, s.doc)
    BY <2>1, BehindAppend
  <2> QED
    BY <1>1, <2>1, <2>2, <2>3
<1> QED
  BY <1>2, <1>3, <1>4

LEMMA FutureAtTip ==
    ASSUME NEW S, NEW s, WellFormed(s, S), AtTip(s)
    PROVE  FutureOf(s) = <<>>
BY Parts, NothingAhead DEF FutureOf

\* A change that is recorded is an edit, or amends if it changes nothing.
LEMMA ChangeMoves ==
    ASSUME HistoryAssumption, NEW S, NEW s, WellFormed(s, S), Exact(s), NEW d \in S
    PROVE  IF d = s.doc THEN AmendStep(s, Change(s, d)) ELSE EditStep(s, Change(s, d))
<1>0. PICK t : t = Change(s, d)
  OBVIOUS
<1>1. /\ WellFormed(t, S) /\ Exact(t) /\ AtTip(t)
      /\ t.doc = d /\ t.hist = Cut(Append(Before(s), s.doc))
  BY <1>0, ChangeKeeps DEF Before
<1>2. FutureOf(t) = <<>>
  BY <1>1, FutureAtTip
<1>3. /\ Before(s) \in Seq(S) /\ s.doc \in S /\ Len(Before(s)) <= MAX_HISTORY
      /\ Len(Before(s)) = MAX_HISTORY => Len(s.hist) = MAX_HISTORY
  <2>1. /\ s.idx \in Nat /\ Len(s.hist) \in Nat /\ s.idx <= Len(s.hist)
        /\ Len(s.hist) <= MAX_HISTORY /\ Len(Before(s)) = s.idx
        /\ Before(s) \in Seq(S) /\ s.doc \in S
    BY Parts
  <2> QED
    BY <2>1 DEF HistoryAssumption
<1>4. PastOf(s) = Behind(Before(s), s.doc)
  BY PastAt
<1>5. PastOf(t) = Behind(Cut(Append(Before(s), s.doc)), d)
  <2>1. PastOf(t) = Behind(Before(t), t.doc) /\ Before(t) = t.hist
    BY <1>1, PastAt, Parts
  <2> QED
    BY <1>1, <2>1
<1>6. Behind(Append(Before(s), s.doc), d) = IF s.doc = d THEN Behind(Before(s), d)
                                            ELSE Append(Behind(Before(s), s.doc), s.doc)
  <2>1. PICK p, e : p = Before(s) /\ e = s.doc
    OBVIOUS
  <2>2. p \in Seq(S) /\ e \in S
    BY <1>3, <2>1
  <2>3. Behind(Append(p, e), d) = IF e = d THEN Behind(p, d) ELSE Append(Behind(p, e), e)
    BY <2>2, BehindStep
  <2> QED
    BY <2>1, <2>3
<1>7. Kept(s, Behind(Append(Before(s), s.doc), d), t)
  BY <1>3, <1>5, CutForgets DEF Kept
<1>8. CASE d = s.doc
  BY <1>0, <1>2, <1>4, <1>6, <1>7, <1>8 DEF AmendStep
<1>9. CASE d # s.doc
  BY <1>0, <1>2, <1>4, <1>6, <1>7, <1>9 DEF EditStep
<1> QED
  BY <1>8, <1>9

\* So does one that is not, at the end of the history; in the middle of it,
\* and of no difference, it changes nothing.
LEMMA AmendMoves ==
    ASSUME NEW S, NEW s, WellFormed(s, S), Exact(s), NEW d \in S,
           d = s.doc \/ (AtTip(s) /\ \A i \in 1..Len(s.hist) : s.hist[i] # d)
    PROVE  \/ Same(s, Amend(s, d)) \/ EditStep(s, Amend(s, d)) \/ AmendStep(s, Amend(s, d))
<1>0. PICK t : t = Amend(s, d)
  OBVIOUS
<1>1. /\ WellFormed(t, S) /\ Exact(t) /\ t.doc = d /\ Before(t) = Before(s)
      /\ AtTip(t) <=> AtTip(s)
  <2>1. /\ WellFormed(t, S) /\ Exact(t) /\ t.doc = d /\ t.hist = s.hist /\ t.idx = s.idx
    BY <1>0, AmendKeeps
  <2> QED
    BY <2>1 DEF Before, AtTip
<1>2. PastOf(s) = Behind(Before(s), s.doc) /\ PastOf(t) = Behind(Before(s), d)
  BY <1>1, PastAt
<1>3. CASE d = s.doc
  <2>1. FutureOf(t) = FutureOf(s)
    BY <1>0, <1>1, <1>3, AmendKeeps DEF FutureOf, After
  <2> QED
    BY <1>0, <1>1, <1>2, <1>3, <2>1 DEF Same
<1>4. CASE AtTip(s) /\ \A i \in 1..Len(s.hist) : s.hist[i] # d
  <2>1. FutureOf(t) = <<>>
    BY <1>1, <1>4, FutureAtTip
  <2>2. CASE s.idx = 0
    <3>1. PastOf(s) = <<>> /\ PastOf(t) = <<>>
      BY <1>2, <2>2, Parts, NothingBehind
    <3> QED
      BY <1>0, <2>1, <3>1 DEF AmendStep, Kept
  <2>3. CASE s.idx # 0
    <3> DEFINE p == SubSeq(s.hist, 1, s.idx - 1)
               e == s.hist[s.idx]
    <3>1. p \in Seq(S) /\ e \in S /\ Before(s) = Append(p, e)
      BY <2>3, Parts
    <3>2. e # d
      <4>1. s.idx \in 1..Len(s.hist)
        BY <2>3, Parts
      <4> QED
        BY <1>4, <4>1
    <3> HIDE DEF p, e
    <3>3. PastOf(t) = Append(Behind(p, e), e)
      BY <1>2, <3>1, <3>2, BehindStep
    <3>4. PastOf(s) = IF e = s.doc THEN Behind(p, s.doc) ELSE Append(Behind(p, e), e)
      <4>1. s.doc \in S /\ PastOf(s) = Behind(Append(p, e), s.doc)
        BY <1>2, <3>1, Parts
      <4>2. PICK f \in S : f = s.doc
        BY <4>1
      <4>3. Behind(Append(p, e), f) = IF e = f THEN Behind(p, f) ELSE Append(Behind(p, e), e)
        BY <3>1, BehindStep
      <4> QED
        BY <4>1, <4>2, <4>3
    <3>5. CASE e = s.doc
      BY <1>0, <2>1, <3>3, <3>4, <3>5 DEF EditStep, Kept
    <3>6. CASE e # s.doc
      BY <1>0, <2>1, <3>3, <3>4, <3>6 DEF AmendStep, Kept
    <3> QED
      BY <3>5, <3>6
  <2> QED
    BY <2>2, <2>3
<1> QED
  BY <1>3, <1>4

\* After is what is at the next index, and what is after that.
LEMMA AfterSplits ==
    ASSUME NEW S, NEW h \in Seq(S), NEW i \in 1..Len(h)
    PROVE  SubSeq(h, i, Len(h)) = <<h[i]>> \o SubSeq(h, i + 1, Len(h))
<1>1. Len(h) \in i..Len(h)
  BY LenProperties
<1> QED
  BY <1>1, SubSeqRecursiveFirst

\* Undo at the end of the history, where the document on display is captured.
LEMMA UndoAtTip ==
    ASSUME HistoryAssumption, NEW S, NEW s, WellFormed(s, S), Exact(s), AtTip(s),
           s.live, s.idx # 0, NEW c, c = Cut(Append(s.hist, s.doc)), Len(c) # 1,
           NEW t, t = Restore(s, c, Len(c) - 1)
    PROVE  AmendStep(s, t) \/ UndoStep(s, t)
<1> DEFINE h == SubSeq(s.hist, 1, s.idx - 1)
           e == s.hist[s.idx]
           d == s.doc
<1>1. /\ s.hist \in Seq(S) /\ d \in S /\ Len(s.hist) <= MAX_HISTORY
      /\ h \in Seq(S) /\ e \in S /\ s.hist = Append(h, e)
  <2>1. Before(s) = s.hist
    BY Parts
  <2> QED
    BY <2>1, Parts
<1>2. /\ c \in Seq(S) /\ Len(c) \in 1..MAX_HISTORY
      /\ \/ c = Append(s.hist, d)
         \/ Len(s.hist) = MAX_HISTORY /\ s.hist # <<>> /\ c = Append(Tail(s.hist), d)
  <2>1. PICK q \in Seq(S), f \in S : q = s.hist /\ f = d
    BY <1>1
  <2> HIDE DEF d
  <2>2. c = Cut(Append(q, f)) /\ Len(q) <= MAX_HISTORY
    BY <1>1, <2>1 DEF d
  <2>3. /\ c \in Seq(S) /\ Len(c) \in 1..MAX_HISTORY
        /\ c = Append(q, f) \/ (Len(q) = MAX_HISTORY /\ q # <<>> /\ c = Append(Tail(q), f))
    <3>1. Len(q) <= MAX_HISTORY
      BY <2>2
    <3>2. /\ Cut(Append(q, f)) \in Seq(S) /\ Len(Cut(Append(q, f))) \in 1..MAX_HISTORY
          /\ \/ Cut(Append(q, f)) = Append(q, f)
             \/ /\ Len(q) = MAX_HISTORY /\ q # <<>>
                /\ Cut(Append(q, f)) = Append(Tail(q), f)
      BY <3>1, CutFits, ZenonT(60)
    <3> QED
      BY <2>2, <3>2
  <2> QED
    BY <2>1, <2>3
<1> HIDE DEF h, e, d
<1>3. PICK k \in Seq(S) :
        /\ c = Append(k, d)
        /\ k = s.hist \/ (Len(s.hist) = MAX_HISTORY /\ k = Tail(s.hist))
  <2>1. s.hist # <<>> => Tail(s.hist) \in Seq(S)
    BY <1>1, HeadTailProperties
  <2> QED
    BY <1>1, <1>2, <2>1
<1>4. Len(k) \in Nat /\ Len(c) = Len(k) + 1 /\ Len(k) # 0 /\ k # <<>>
  <2>1. Len(k) \in Nat /\ Len(c) = Len(k) + 1
    BY <1>1, <1>3, AppendProperties, LenProperties
  <2> QED
    BY <2>1, EmptySeq
<1>5. PICK g \in Seq(S) :
        /\ k = Append(g, e)
        /\ g = h \/ (Len(s.hist) = MAX_HISTORY /\ h # <<>> /\ g = Tail(h))
  <2>1. Tail(Append(h, e)) = IF h = <<>> THEN <<>> ELSE Append(Tail(h), e)
    BY <1>1, HeadTailAppend
  <2>2. h # <<>> => Tail(h) \in Seq(S)
    BY <1>1, HeadTailProperties
  <2> QED
    BY <1>1, <1>3, <1>4, <2>1, <2>2
<1>6. /\ WellFormed(t, S) /\ Exact(t) /\ t.hist = c /\ t.idx = Len(k) /\ t.doc = e
  <2>1. /\ Len(c) <= MAX_HISTORY /\ Len(c) - 1 \in 1..Len(c) /\ Len(c) - 1 = Len(k)
    <3>1. PICK m \in Nat : m = Len(k)
      BY <1>4
    <3>2. m # 0 => m \in 1..(m + 1) /\ (m + 1) - 1 = m
      OBVIOUS
    <3>3. Len(c) = m + 1 /\ m # 0
      BY <1>4, <3>1
    <3>4. Len(c) <= MAX_HISTORY
      BY <1>2 DEF HistoryAssumption
    <3> QED
      BY <3>1, <3>2, <3>3, <3>4
  <2>2. c[Len(k)] = e
    <3>1. Append(g, e) \in Seq(S) /\ Len(k) = Len(g) + 1 /\ k[Len(g) + 1] = e
      BY <1>1, <1>5, AppendProperties
    <3>2. Len(k) \in 1..Len(k)
      BY <1>4
    <3>3. c[Len(k)] = k[Len(k)]
      BY <1>1, <1>3, <3>2, AppendProperties
    <3> QED
      BY <3>1, <3>3
  <2> QED
    BY <1>2, <2>1, <2>2, RestoreKeeps
<1>7. Before(t) = k /\ After(t) = <<d>>
  <2>1. Front(Append(k, d)) = k
    BY <1>1, FrontOfAppend
  <2>2. Before(t) = k
    BY <1>3, <1>4, <1>6, <2>1 DEF Before, Front
  <2>3. c[Len(k) + 1] = d
    BY <1>1, <1>3, AppendProperties
  <2>4. Len(c) \in 1..Len(c)
    BY <1>4
  <2>5. SubSeq(c, Len(c), Len(c)) = <<c[Len(c)]>> \o SubSeq(c, Len(c) + 1, Len(c))
    BY <1>2, <2>4, AfterSplits
  <2>6. SubSeq(c, Len(c) + 1, Len(c)) = <<>>
    BY <1>4, SubSeqEmpty
  <2>7. <<d>> \o <<>> = <<d>>
    BY <1>1, ConcatEmptySeq
  <2> QED
    BY <1>4, <1>6, <2>2, <2>3, <2>5, <2>6, <2>7 DEF After
<1>8. PastOf(s) = IF e = d THEN Behind(h, e) ELSE Append(Behind(h, e), e)
  <2>1. PastOf(s) = Behind(Append(h, e), d)
    BY <1>1, PastAt, Parts DEF d
  <2> QED
    BY <1>1, <2>1, BehindStep
<1>9. PastOf(t) = Behind(g, e)
  <2>1. PastOf(t) = Behind(Append(g, e), e)
    BY <1>5, <1>6, <1>7, PastAt
  <2> QED
    BY <1>1, <2>1, BehindStep
<1>10. Kept(s, Behind(h, e), t)
  <2>1. CASE g = h
    BY <1>9, <2>1 DEF Kept
  <2>2. CASE Len(s.hist) = MAX_HISTORY /\ h # <<>> /\ g = Tail(h)
    <3>1. PICK o \in S : h = <<o>> \o g
      BY <1>1, <2>2, HeadAndTail
    <3>2. Forgets(Behind(<<o>> \o g, e), Behind(g, e))
      BY <1>1, OldestForgotten
    <3> QED
      BY <1>9, <2>2, <3>1, <3>2 DEF Kept, Forgets
  <2> QED
    BY <1>5, <2>1, <2>2
<1>11. FutureOf(s) = <<>> /\ FutureOf(t) = IF d = e THEN <<>> ELSE <<d>> \o <<>>
  <2>1. FutureOf(s) = <<>>
    BY FutureAtTip
  <2>2. <<>> \in Seq(S) /\ <<d>> \o <<>> = <<d>>
    BY <1>1, ConcatEmptySeq, EmptySeq
  <2>3. FutureOf(t) = Ahead(e, <<d>> \o <<>>)
    BY <1>6, <1>7, <2>2 DEF FutureOf
  <2>4. Ahead(e, <<d>> \o <<>>) = IF d = e THEN Ahead(e, <<>>) ELSE <<d>> \o Ahead(d, <<>>)
    <3>1. <<>> \in Seq(S) /\ d \in S /\ e \in S
      BY <1>1, <2>2
    <3> QED
      BY <3>1, AheadStep, ZenonT(60)
  <2>5. Ahead(e, <<>>) = <<>> /\ Ahead(d, <<>>) = <<>>
    BY <1>1, NothingAhead
  <2> QED
    BY <2>1, <2>3, <2>4, <2>5
<1>12. CASE e = d
  BY <1>8, <1>10, <1>11, <1>12 DEF AmendStep
<1>13. CASE e # d
  <2>1. Behind(h, e) \in Seq(S)
    BY <1>1, BehindAppend
  <2>2. Front(Append(Behind(h, e), e)) = Behind(h, e) /\ Last(Append(Behind(h, e), e)) = e
    BY <1>1, <2>1, FrontOfAppend
  <2>3. Append(Behind(h, e), e) # <<>>
    BY <1>1, <2>1, AppendProperties
  <2> QED
    BY <1>6, <1>8, <1>10, <1>11, <1>13, <2>2, <2>3 DEF UndoStep, d
<1> QED
  BY <1>12, <1>13


\* Undo before the end of the history, or at a document it already has.
LEMMA UndoInside ==
    ASSUME NEW S, NEW s, WellFormed(s, S), Exact(s), ~ (AtTip(s) /\ s.live),
           s.idx \notin {0, 1}, NEW t, t = Restore(s, s.hist, s.idx - 1)
    PROVE  Same(s, t) \/ UndoStep(s, t)
<1>1. /\ s.hist \in Seq(S) /\ s.idx \in Nat /\ s.idx <= Len(s.hist) /\ Len(s.hist) \in Nat
      /\ Len(s.hist) <= MAX_HISTORY /\ After(s) \in Seq(S)
      /\ Before(s) = Append(SubSeq(s.hist, 1, s.idx - 1), s.hist[s.idx])
  BY Parts
<1>2. PICK d \in S : d = s.doc /\ d = s.hist[s.idx]
  BY Parts DEF Exact
<1>3. PICK e : e = s.hist[s.idx - 1]
  OBVIOUS
<1>4. /\ WellFormed(t, S) /\ Exact(t)
      /\ t.doc = e /\ t.hist = s.hist /\ t.idx = s.idx - 1
  <2>1. s.idx - 1 \in 1..Len(s.hist)
    BY <1>1
  <2> QED
    BY <1>1, <1>3, <2>1, RestoreKeeps
<1>5. PICK g \in Seq(S) : Before(t) = Append(g, e) /\ e \in S
  <2>1. t.idx # 0
    BY <1>1, <1>4
  <2>2. /\ SubSeq(t.hist, 1, t.idx - 1) \in Seq(S) /\ t.hist[t.idx] \in S
        /\ Before(t) = Append(SubSeq(t.hist, 1, t.idx - 1), t.hist[t.idx])
    BY <1>4, <2>1, Parts
  <2>3. t.hist[t.idx] = e
    BY <1>3, <1>4
  <2> QED
    BY <2>2, <2>3
<1>6. Before(t) = SubSeq(s.hist, 1, s.idx - 1) /\ Before(t) \in Seq(S)
  BY <1>4, Parts DEF Before
<1>7. PastOf(s) = IF e = d THEN Behind(g, d) ELSE Append(Behind(g, e), e)
  <2>1. PastOf(s) = Behind(Append(Before(t), d), d)
    BY <1>1, <1>2, <1>6, PastAt
  <2>2. Behind(Append(Before(t), d), d) = Behind(Before(t), d)
    BY <1>6, BehindStep
  <2>3. Behind(Append(g, e), d) = IF e = d THEN Behind(g, d) ELSE Append(Behind(g, e), e)
    BY <1>5, BehindStep
  <2> QED
    BY <1>5, <2>1, <2>2, <2>3
<1>8. PastOf(t) = Behind(g, e) /\ Behind(g, e) \in Seq(S)
  <2>1. PastOf(t) = Behind(Append(g, e), e)
    BY <1>4, <1>5, PastAt
  <2>2. Behind(Append(g, e), e) = Behind(g, e)
    BY <1>5, BehindStep
  <2>3. Behind(g, e) \in Seq(S)
    BY <1>5, BehindAppend
  <2> QED
    BY <2>1, <2>2, <2>3
<1>9. FutureOf(t) = IF d = e THEN FutureOf(s) ELSE <<d>> \o FutureOf(s)
  <2>1. After(t) = <<d>> \o After(s)
    <3>1. s.idx \in 1..Len(s.hist)
      BY <1>1
    <3>2. SubSeq(s.hist, s.idx, Len(s.hist)) = <<d>> \o After(s)
      BY <1>1, <1>2, <3>1, AfterSplits DEF After
    <3>3. t.idx + 1 = s.idx
      BY <1>1, <1>4
    <3> QED
      BY <1>4, <3>2, <3>3 DEF After
  <2>2. PICK r \in Seq(S) : r = After(s)
    BY <1>1
  <2>3. Ahead(e, <<d>> \o r) = IF d = e THEN Ahead(e, r) ELSE <<d>> \o Ahead(d, r)
    BY <1>5, AheadStep, ZenonT(60)
  <2>4. FutureOf(t) = Ahead(e, <<d>> \o r) /\ FutureOf(s) = Ahead(d, r)
    BY <1>2, <1>4, <2>1, <2>2 DEF FutureOf
  <2> QED
    BY <2>3, <2>4
<1>10. CASE e = d
  BY <1>2, <1>4, <1>7, <1>8, <1>9, <1>10 DEF Same
<1>11. CASE e # d
  <2>1. PICK b \in Seq(S) : b = Behind(g, e)
    BY <1>8
  <2>2. /\ Front(Append(b, e)) = b /\ Last(Append(b, e)) = e /\ Append(b, e) # <<>>
    BY <1>5, FrontOfAppend, AppendProperties
  <2> QED
    BY <1>2, <1>4, <1>7, <1>8, <1>9, <1>11, <2>1, <2>2 DEF UndoStep, Kept
<1> QED
  BY <1>10, <1>11

LEMMA UndoMoves ==
    ASSUME HistoryAssumption, NEW S, NEW s, WellFormed(s, S), Exact(s)
    PROVE  \/ Same(s, UndoOf(s)) \/ AmendStep(s, UndoOf(s)) \/ UndoStep(s, UndoOf(s))
<1>1. CASE UndoOf(s) = s
  BY <1>1 DEF Same
<1>2. CASE s.idx # 0 /\ AtTip(s) /\ s.live
  <2>1. PICK c : c = Cut(Append(s.hist, s.doc))
    OBVIOUS
  <2>2. UndoOf(s) = IF Len(c) = 1 THEN s ELSE Restore(s, c, Len(c) - 1)
    BY <1>2, <2>1 DEF UndoOf, Cut
  <2> QED
    BY <1>1, <1>2, <2>1, <2>2, UndoAtTip
<1>3. CASE s.idx \notin {0, 1} /\ ~ (AtTip(s) /\ s.live)
  <2>1. UndoOf(s) = Restore(s, s.hist, s.idx - 1)
    BY <1>3 DEF UndoOf
  <2> QED
    BY <1>3, <2>1, UndoInside
<1>4. CASE s.idx = 0
  BY <1>1, <1>4 DEF UndoOf
<1>5. CASE s.idx = 1 /\ ~ (AtTip(s) /\ s.live)
  BY <1>1, <1>5 DEF UndoOf
<1> QED
  BY <1>2, <1>3, <1>4, <1>5

LEMMA RedoMoves ==
    ASSUME NEW S, NEW s, WellFormed(s, S), Exact(s), HistoryAssumption
    PROVE  Same(s, RedoOf(s)) \/ RedoStep(s, RedoOf(s))
<1>1. CASE AtTip(s)
  BY <1>1 DEF Same, RedoOf
<1>2. CASE ~ AtTip(s)
  <2>1. /\ s.hist \in Seq(S) /\ s.idx \in Nat /\ s.idx <= Len(s.hist) /\ Len(s.hist) \in Nat
        /\ s.idx # Len(s.hist) /\ s.idx # 0 /\ Before(s) \in Seq(S)
        /\ Before(s) = Append(SubSeq(s.hist, 1, s.idx - 1), s.hist[s.idx])
        /\ SubSeq(s.hist, 1, s.idx - 1) \in Seq(S)
    <3>1. s.idx # 0
      BY <1>2, Parts DEF AtTip, WellFormed
    <3> QED
      BY <1>2, <3>1, Parts DEF AtTip
  <2>2. PICK d \in S : d = s.doc /\ d = s.hist[s.idx]
    BY <1>2, <2>1, Parts DEF Exact
  <2>3. PICK p \in Seq(S) : Before(s) = Append(p, d)
    BY <2>1, <2>2
  <2>4. PICK t : t = RedoOf(s)
    OBVIOUS
  <2>5. /\ WellFormed(t, S) /\ Exact(t)
        /\ t.doc = s.hist[s.idx + 1] /\ t.hist = s.hist /\ t.idx = s.idx + 1
    BY <1>2, <2>4, RedoKeeps
  <2>6. PICK e \in S : e = t.doc /\ e = s.hist[s.idx + 1]
    BY <2>5, Parts
  <2>7. Before(t) = Append(Before(s), e) /\ After(t) \in Seq(S)
    <3>1. t.idx # 0 /\ t.idx - 1 = s.idx
      BY <2>1, <2>5
    <3>2. Before(t) = Append(SubSeq(t.hist, 1, t.idx - 1), t.hist[t.idx]) /\ After(t) \in Seq(S)
      BY <2>5, <3>1, Parts
    <3> QED
      BY <2>5, <2>6, <3>1, <3>2 DEF Before
  <2>8. PastOf(s) = Behind(p, d) /\ PastOf(s) \in Seq(S)
    <3>1. PastOf(s) = Behind(Append(p, d), d) /\ PastOf(s) \in Seq(S)
      BY <2>2, <2>3, PastAt
    <3> QED
      BY <2>3, <3>1, BehindStep
  <2>9. PastOf(t) = IF d = e THEN Behind(p, e) ELSE Append(Behind(p, d), d)
    <3>1. PastOf(t) = Behind(Append(Before(s), e), e)
      BY <2>5, <2>6, <2>7, PastAt
    <3>2. Behind(Append(Before(s), e), e) = Behind(Before(s), e)
      BY <2>1, BehindStep
    <3>3. Behind(Append(p, d), e) = IF d = e THEN Behind(p, e) ELSE Append(Behind(p, d), d)
      BY <2>3, BehindStep
    <3> QED
      BY <2>3, <3>1, <3>2, <3>3
  <2>10. PICK r \in Seq(S) : r = After(t)
    BY <2>7
  <2>11. FutureOf(s) = IF e = d THEN Ahead(d, r) ELSE <<e>> \o Ahead(e, r)
    <3>1. s.idx + 1 \in 1..Len(s.hist)
      BY <2>1
    <3>2. After(s) = <<e>> \o r
      <4>1. SubSeq(s.hist, s.idx + 1, Len(s.hist))
              = <<s.hist[s.idx + 1]>> \o SubSeq(s.hist, (s.idx + 1) + 1, Len(s.hist))
        BY <2>1, <3>1, AfterSplits
      <4> QED
        BY <2>5, <2>6, <2>10, <4>1 DEF After
    <3>3. Ahead(d, <<e>> \o r) = IF e = d THEN Ahead(d, r) ELSE <<e>> \o Ahead(e, r)
      BY AheadStep, ZenonT(60)
    <3> QED
      BY <2>2, <3>2, <3>3 DEF FutureOf
  <2>12. PICK a \in Seq(S) : a = Ahead(e, r)
    BY AheadCons
  <2>13. FutureOf(t) = a
    BY <2>6, <2>10, <2>12 DEF FutureOf
  <2>14. CASE e = d
    BY <2>2, <2>4, <2>6, <2>8, <2>9, <2>11, <2>12, <2>13, <2>14 DEF Same
  <2>15. CASE e # d
    <3>1. <<e>> \o a # <<>> /\ Head(<<e>> \o a) = e /\ Tail(<<e>> \o a) = a
      BY ConsAppend
    <3> QED
      BY <2>2, <2>4, <2>6, <2>8, <2>9, <2>11, <2>12, <2>13, <2>15, <3>1 DEF RedoStep
  <2> QED
    BY <2>14, <2>15
<1> QED
  BY <1>1, <1>2


(***************************************************************************)
(* The gestures, by what they do to the store.                             *)
(***************************************************************************)
LEMMA Wider ==
    ASSUME NEW S, NEW T, S \subseteq T, NEW s, WellFormed(s, S)
    PROVE  WellFormed(s, T)
<1>1. s.hist \in Seq(T)
  <2>1. s.hist \in Seq(S)
    BY DEF WellFormed, Stores
  <2> QED
    BY <2>1, SeqMonotonic
<1> QED
  BY <1>1 DEF WellFormed, Stores

Changes(d) == st' = Change(st, d) /\ recorded' = TRUE
Amends(d) == /\ st' = Amend(st, d)
             /\ recorded' = (recorded /\ (AtTip(st) \/ d = st.doc))
             /\ d = st.doc \/ d = Fresh
Keeps == st' \in {st, UndoOf(st), RedoOf(st)} /\ recorded' = recorded
Restarts == /\ st' = [doc |-> st.doc, hist |-> <<>>, idx |-> 0, live |-> FALSE,
                      canUndo |-> FALSE, canRedo |-> FALSE]
            /\ recorded' = TRUE

LEMMA Kinds ==
    ASSUME HistoryAssumption, HistoryInv, [HistoryNext]_historyVars
    PROVE  /\ docs' \in 0..MaxDocs /\ 0..docs \subseteq 0..docs'
           /\ \/ \E d \in 0..docs' : Changes(d) \/ Amends(d)
              \/ Keeps \/ Restarts
<1>0. docs \in 0..MaxDocs /\ MaxDocs \in Nat /\ st.doc \in 0..docs /\ recorded \in BOOLEAN
  BY DEF HistoryAssumption, HistoryInv, WellFormed, Stores
<1>1. ASSUME Make(1)
      PROVE  docs' \in 0..MaxDocs /\ 0..docs \subseteq 0..docs' /\ Fresh \in 0..docs'
  BY <1>0, <1>1 DEF Make, Fresh
<1>a. \A d : Amend(st, d).doc = d
  BY DEF HistoryInv, WellFormed, Stores, Amend
<1>b. ASSUME NEW d \in 0..docs', Unrecorded(Amend(st, d)), d = st.doc \/ d = Fresh
      PROVE  \E e \in 0..docs' : Amends(e)
  <2>1. Amends(d)
    BY <1>a, <1>b DEF Unrecorded, Amends
  <2> QED
    BY <2>1
<1>2. CASE HandleConnect \/ OnDrop \/ HandleDuplicate \/ HandleDelete
  BY <1>1, <1>2 DEF HandleConnect, OnDrop, HandleDuplicate, HandleDelete, Recorded, Changes
<1>3. CASE DeleteEdges \/ DeleteNode
  BY <1>1, <1>3 DEF DeleteEdges, DeleteNode, OnEdgesChange, OnNodesChange, Changes
<1>4. CASE SelectNode
  <2>1. docs' = docs /\ Unrecorded(Amend(st, st.doc))
    BY <1>4 DEF SelectNode, OnNodesChange
  <2> QED
    BY <1>0, <1>b, <2>1
<1>5. CASE Drag \/ SetGraph
  <2>1. Make(1) /\ Unrecorded(Amend(st, Fresh))
    BY <1>5 DEF Drag, SetGraph, OnNodesChange
  <2> QED
    BY <1>1, <1>b, <2>1
<1>6. CASE DragEnd
  BY <1>0, <1>6 DEF DragEnd, OnNodesChange, Changes
<1>7. CASE UpdateNodeData
  <2>1. Make(1) /\ (Unrecorded(Amend(st, Fresh)) \/ Changes(Fresh))
    BY <1>7 DEF UpdateNodeData, Changes
  <2> QED
    BY <1>1, <1>b, <2>1
<1>8. CASE HalfSecondPasses \/ Undo \/ Redo \/ UNCHANGED historyVars
  BY <1>0, <1>8 DEF HalfSecondPasses, Undo, Redo, historyVars, Keeps
<1>9. CASE LoadPageAgain
  BY <1>0, <1>9 DEF LoadPageAgain, Restarts
<1> QED
  BY <1>2, <1>3, <1>4, <1>5, <1>6, <1>7, <1>8, <1>9 DEF HistoryNext

LEMMA HistoryInvInit ==
    ASSUME HistoryAssumption, HistoryInit
    PROVE  HistoryInv
<1>1. 0 \in 0..MaxDocs /\ 0 \in 0..0 /\ <<>> \in Seq(0..0) /\ Len(<<>>) = 0
      /\ 0 <= MAX_HISTORY
  BY EmptySeq DEF HistoryAssumption
<1>2. /\ st.doc = 0 /\ st.hist = <<>> /\ st.idx = 0 /\ docs = 0 /\ recorded = TRUE
      /\ st \in Stores(0..0)
  BY <1>1 DEF HistoryInit, Stores
<1> QED
  BY <1>1, <1>2 DEF HistoryInv, WellFormed, Exact

LEMMA HistoryInvStep ==
    ASSUME HistoryAssumption, HistoryInv, [HistoryNext]_historyVars
    PROVE  HistoryInv'
<1>1. /\ docs' \in 0..MaxDocs /\ 0..docs \subseteq 0..docs'
      /\ \/ \E d \in 0..docs' : Changes(d) \/ Amends(d)
         \/ Keeps \/ Restarts
  BY Kinds
<1>2. recorded \in BOOLEAN /\ (recorded => Exact(st)) /\ WellFormed(st, 0..docs)
  BY DEF HistoryInv
<1>3. PICK S : S = 0..docs'
  OBVIOUS
<1>4. WellFormed(st, S)
  BY <1>1, <1>2, <1>3, Wider
<1>5. /\ WellFormed(st', S) /\ recorded' \in BOOLEAN
      /\ recorded' => Exact(st')
  <2>1. CASE \E d \in S : Changes(d)
    <3>1. PICK d \in S : Changes(d)
      BY <2>1
    <3>2. WellFormed(Change(st, d), S) /\ Exact(Change(st, d))
      BY <1>4, ChangeKeeps
    <3> QED
      BY <3>1, <3>2 DEF Changes
  <2>2. CASE \E d \in S : Amends(d)
    <3>1. PICK d \in S : Amends(d)
      BY <2>2
    <3>2. /\ WellFormed(Amend(st, d), S)
          /\ AtTip(st) \/ d = st.doc => (Exact(st) => Exact(Amend(st, d)))
      BY <1>4, AmendKeeps
    <3> QED
      BY <1>2, <3>1, <3>2 DEF Amends
  <2>3. CASE Keeps
    <3>1. WellFormed(UndoOf(st), S) /\ (Exact(st) => Exact(UndoOf(st)))
      BY <1>4, UndoKeeps
    <3>2. WellFormed(RedoOf(st), S) /\ (Exact(st) => Exact(RedoOf(st)))
      BY <1>4, RedoKeeps
    <3> QED
      BY <1>2, <1>4, <2>3, <3>1, <3>2 DEF Keeps
  <2>4. CASE Restarts
    <3>1. st.doc \in S /\ <<>> \in Seq(S) /\ Len(<<>>) = 0 /\ 0 <= MAX_HISTORY
      BY <1>4, EmptySeq DEF WellFormed, Stores, HistoryAssumption
    <3>2. st'.doc \in S /\ st'.hist = <<>> /\ st'.idx = 0 /\ st' \in Stores(S)
      BY <2>4, <3>1 DEF Restarts, Stores
    <3> QED
      BY <2>4, <3>1, <3>2 DEF Restarts, WellFormed, Exact
  <2> QED
    BY <1>1, <1>3, <2>1, <2>2, <2>3, <2>4
<1> QED
  BY <1>1, <1>3, <1>5 DEF HistoryInv, WellFormed, Stores, Exact, AtTip

(***************************************************************************)
(* The refinement.                                                         *)
(***************************************************************************)
Moves(s, t) == \/ Same(s, t) \/ EditStep(s, t) \/ AmendStep(s, t)
               \/ UndoStep(s, t) \/ RedoStep(s, t)

LEMMA HistoryMoves ==
    ASSUME HistoryAssumption, HistoryInv, [HistoryNext]_historyVars, recorded, recorded',
           ~ Restarts
    PROVE  Moves(st, st')
<1>1. /\ docs' \in 0..MaxDocs /\ 0..docs \subseteq 0..docs'
      /\ (\E d \in 0..docs' : Changes(d) \/ Amends(d)) \/ Keeps
  BY Kinds
<1>2. Exact(st) /\ WellFormed(st, 0..docs)
  BY DEF HistoryInv
<1>3. PICK S : S = 0..docs'
  OBVIOUS
<1>4. WellFormed(st, S)
  BY <1>1, <1>2, <1>3, Wider
<1>5. ASSUME NEW d \in S, Changes(d)
      PROVE  Moves(st, st')
  <2>1. IF d = st.doc THEN AmendStep(st, Change(st, d)) ELSE EditStep(st, Change(st, d))
    BY <1>2, <1>4, ChangeMoves
  <2> QED
    BY <1>5, <2>1 DEF Changes, Moves
<1>6. ASSUME NEW d \in S, Amends(d)
      PROVE  Moves(st, st')
  <2>1. d = st.doc \/ (AtTip(st) /\ d = Fresh)
    BY <1>6 DEF Amends
  <2>2. d = Fresh => \A i \in 1..Len(st.hist) : st.hist[i] # d
    <3>1. \A i \in 1..Len(st.hist) : st.hist[i] \in 0..docs
      BY <1>2, ElementOfSeq DEF WellFormed, Stores
    <3>2. docs \in Nat
      BY DEF HistoryInv
    <3> QED
      BY <3>1, <3>2 DEF Fresh
  <2>3. d = st.doc \/ (AtTip(st) /\ \A i \in 1..Len(st.hist) : st.hist[i] # d)
    BY <2>1, <2>2
  <2>4. \/ Same(st, Amend(st, d)) \/ EditStep(st, Amend(st, d)) \/ AmendStep(st, Amend(st, d))
    BY <1>2, <1>4, <2>3, AmendMoves
  <2> QED
    BY <1>6, <2>4 DEF Amends, Moves
<1>7. CASE Keeps
  <2>1. Same(st, UndoOf(st)) \/ AmendStep(st, UndoOf(st)) \/ UndoStep(st, UndoOf(st))
    BY <1>2, <1>4, UndoMoves
  <2>2. Same(st, RedoOf(st)) \/ RedoStep(st, RedoOf(st))
    BY <1>2, <1>4, RedoMoves
  <2>3. Same(st, st)
    BY DEF Same
  <2> QED
    BY <1>7, <2>1, <2>2, <2>3 DEF Keeps, Moves
<1> QED
  BY <1>1, <1>3, <1>5, <1>6, <1>7

\* The refinement mapping of StudioHistory is the stack of these lemmas.
LEMMA Mapping == /\ Past = PastOf(st) /\ Past' = PastOf(st')
                 /\ Future = FutureOf(st) /\ Future' = FutureOf(st')
BY DEF Past, Future, PastOf, FutureOf, Behind, Ahead, After, AtTip

LEMMA HistorySimulates ==
    ASSUME HistoryAssumption, HistoryInv, [HistoryNext]_historyVars
    PROVE  [U!Broken \/ U!Steps]_(U!stack)
<1>1. CASE ~ recorded \/ ~ recorded'
  BY <1>1 DEF U!Broken
<1>2. CASE Restarts
  <2>1. PICK S : S = 0..docs
    OBVIOUS
  <2>2. WellFormed(st, S)
    BY <2>1 DEF HistoryInv
  <2>3. st'.hist = <<>> /\ st'.idx = 0 /\ st'.doc = st.doc /\ st'.doc \in S /\ Len(<<>>) = 0
        /\ st'.live = FALSE
    BY <1>2, <2>2, EmptySeq DEF Restarts, WellFormed, Stores
  <2>4. PastOf(st') = Behind(<<>>, st'.doc)
    <3>1. SubSeq(<<>>, 1, 0 - 1) = <<>>
      BY SubSeqEmpty
    <3> QED
      BY <2>3, <3>1 DEF PastOf
  <2>5. FutureOf(st') = Ahead(st'.doc, <<>>)
    <3>1. SubSeq(<<>>, 0 + 1, 0) = <<>>
      BY SubSeqEmpty
    <3> QED
      BY <2>3, <3>1 DEF FutureOf, After
  <2>6. Past' = <<>> /\ Future' = <<>>
    BY <2>3, <2>4, <2>5, Mapping, NothingBehind, NothingAhead
  <2> QED
    BY <2>3, <2>6 DEF U!Steps, U!Restart
<1>3. CASE recorded /\ recorded' /\ ~ Restarts
  <2>1. Moves(st, st')
    BY <1>3, HistoryMoves
  <2>2. CASE Same(st, st')
    BY <2>2, Mapping DEF Same, U!stack
  <2>3. CASE EditStep(st, st')
    BY <2>3, Mapping DEF EditStep, Kept, U!Edit, U!Remembered, U!Steps
  <2>4. CASE AmendStep(st, st')
    BY <2>4, Mapping DEF AmendStep, Kept, U!Amend, U!Remembered, U!Steps
  <2>5. CASE UndoStep(st, st')
    <3>1. PICK p, q, f, g : p = PastOf(st) /\ q = PastOf(st') /\ f = FutureOf(st) /\ g = FutureOf(st')
      OBVIOUS
    <3>2. /\ p # <<>> /\ st'.doc = Last(p) /\ g = <<st.doc>> \o f
          /\ q = Front(p) \/ (Len(st.hist) = MAX_HISTORY /\ Front(p) # <<>> /\ q = Tail(Front(p)))
      BY <2>5, <3>1 DEF UndoStep, Kept
    <3>3. Past = p /\ Past' = q /\ Future = f /\ Future' = g
      BY <3>1, Mapping
    <3>4. U!Front(p) = Front(p) /\ U!Last(p) = Last(p)
      BY DEF U!Front, U!Last, Front, Last
    <3>5. U!Undo
      <4>1. Past # <<>> /\ st'.doc = U!Last(Past) /\ Future' = <<st.doc>> \o Future
        BY <3>2, <3>3, <3>4
      <4>2. U!Remembered(U!Front(Past))
        BY <3>2, <3>3, <3>4 DEF U!Remembered
      <4> QED
        BY <4>1, <4>2, Zenon DEF U!Undo
    <3> QED
      BY <3>5 DEF U!Steps
  <2>6. CASE RedoStep(st, st')
    BY <2>6, Mapping DEF RedoStep, U!Redo, U!Steps
  <2> QED
    BY <2>1, <2>2, <2>3, <2>4, <2>5, <2>6 DEF Moves
<1> QED
  BY <1>1, <1>2, <1>3

LEMMA HistoryStartsEmpty ==
    ASSUME HistoryInit
    PROVE  U!Init
<1>1. st.doc = 0 /\ st.hist = <<>> /\ st.idx = 0 /\ st.live = FALSE /\ recorded = TRUE
  BY DEF HistoryInit
<1>2. PastOf(st) = Behind(<<>>, 0)
  <2>1. SubSeq(<<>>, 1, 0 - 1) = <<>>
    BY SubSeqEmpty
  <2> QED
    BY <1>1, <2>1 DEF PastOf
<1>3. FutureOf(st) = Ahead(0, <<>>)
  <2>1. SubSeq(<<>>, 0 + 1, 0) = <<>> /\ Len(<<>>) = 0
    BY SubSeqEmpty, EmptySeq
  <2> QED
    BY <1>1, <2>1 DEF FutureOf, After
<1>4. Past = <<>> /\ Future = <<>>
  <2>1. 0 \in Nat
    OBVIOUS
  <2> QED
    BY <1>2, <1>3, <2>1, Mapping, NothingBehind, NothingAhead
<1> QED
  BY <1>1, <1>4 DEF U!Init

\* The store of the studio stays well-formed, whatever is done to it.
THEOREM HistoryInvariant == HistoryAssumption => (HistorySpec => []HistoryInv)
<1> SUFFICES ASSUME HistoryAssumption
             PROVE  HistorySpec => []HistoryInv
  OBVIOUS
<1>1. HistoryInit => HistoryInv
  BY HistoryInvInit
<1>2. HistoryInv /\ [HistoryNext]_historyVars => HistoryInv'
  BY HistoryInvStep
<1> QED
  BY <1>1, <1>2, PTL DEF HistorySpec

\* The history fits in MAX_HISTORY and the index in the history.
THEOREM HistoryTypeCorrect == HistoryAssumption => (HistorySpec => []HistoryTypeOK)
<1> SUFFICES ASSUME HistoryAssumption
             PROVE  HistorySpec => []HistoryTypeOK
  OBVIOUS
<1>1. HistoryInv => HistoryTypeOK
  <2> SUFFICES ASSUME HistoryInv
               PROVE  HistoryTypeOK
    OBVIOUS
  <2>1. /\ st.hist \in Seq(0..docs) /\ Len(st.hist) \in Nat /\ Len(st.hist) <= MAX_HISTORY
        /\ st.idx \in 0..Len(st.hist) /\ st.doc \in 0..docs
        /\ docs \in 0..MaxDocs /\ MaxDocs \in Nat /\ MAX_HISTORY \in Nat
    BY LenProperties DEF HistoryInv, WellFormed, Stores, HistoryAssumption
  <2>2. st.hist \in [1..Len(st.hist) -> 0..MaxDocs]
    <3>1. st.hist \in [1..Len(st.hist) -> 0..docs]
      BY <2>1, LenProperties
    <3>2. 0..docs \subseteq 0..MaxDocs
      BY <2>1
    <3> QED
      BY <3>1, <3>2
  <2>3. Len(st.hist) \in 0..MAX_HISTORY
    BY <2>1
  <2> QED
    BY <2>1, <2>2, <2>3 DEF HistoryTypeOK
<1> QED
  BY <1>1, HistoryInvariant, PTL

\* Undo and redo in the studio are those of an undo stack.
THEOREM StoreIsUndoStack == HistoryAssumption => (HistorySpec => IsUndoStack)
<1> SUFFICES ASSUME HistoryAssumption
             PROVE  HistorySpec => IsUndoStack
  OBVIOUS
<1>1. HistoryInit => U!Init
  BY HistoryStartsEmpty
<1>2. HistoryInv /\ [HistoryNext]_historyVars
        => [U!Broken \/ U!Steps]_(U!stack)
  BY HistorySimulates
<1> QED
  BY <1>1, <1>2, HistoryInvariant, PTL DEF HistorySpec, IsUndoStack, U!Spec
=============================================================================
