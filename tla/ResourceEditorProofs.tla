------------------------ MODULE ResourceEditorProofs ------------------------
(***************************************************************************)
(* Proofs about ResourceEditor, for any names, copies, bounds and rows     *)
(* another client writes: an accepted save loses no update and lands where *)
(* it belongs, and dialogs act on the resource they name.                  *)
(***************************************************************************)
EXTENDS ResourceEditor, FiniteSetTheorems, TLAPS

AnyRow == [version : Nat \ {0}, body : Nat, born : Nat]
Named == [name : Names, row : AnyRow]
Pages == [at : Names \union {None}, res : Named \union {None}, yaml : Names \union {None},
          loading : BOOLEAN, error : BOOLEAN, edit : BOOLEAN, saving : BOOLEAN,
          asks : BOOLEAN, deleting : BOOLEAN]
Ops == [kind : {"put", "delete", "run", "clone"}, url : Names, from : Named,
        yaml : Names \union {None}, n : Nat,
        done : [ok : BOOLEAN, row : AnyRow \union {None}] \union {None}]

Typed ==
    /\ store \in [Names -> AnyRow \union {None}]
    /\ writes \in Nat /\ sends \in Nat /\ overlapped \in BOOLEAN
    /\ page \in Pages
    /\ reads \in [Names -> [answer : AnyRow \union {Missing, None}] \union {None}]
    /\ cached \in [Names -> AnyRow \union {None}]
    /\ sent \subseteq Ops

\* A row that the server held once: the row it holds now is another one, or
\* a later version, or the same.
Seen(n, r) ==
    /\ r.born <= writes
    /\ store[n] # None /\ store[n].born = r.born =>
         /\ r.version <= store[n].version
         /\ r.version = store[n].version => r.body = store[n].body

\* Nobody holds a row that the server did not hold; the text in the editor
\* is that of the resource on display.
StoreKnown == \A n \in Names : store[n] # None => store[n].born <= writes
PageKnown == page.res # None => page.yaml = page.res.name /\ Seen(page.res.name, page.res.row)
ReadsKnown == \A n \in Names : reads[n] # None /\ reads[n].answer \notin {None, Missing}
                              => Seen(n, reads[n].answer)
CacheKnown == \A n \in Names : cached[n] # None => Seen(n, cached[n])
SentKnown ==
    \A o \in sent :
      /\ o.yaml = o.from.name /\ Seen(o.from.name, o.from.row)
      /\ o.kind = "put" /\ o.done # None /\ o.done.ok =>
           o.done.row \in AnyRow /\ Seen(o.url, o.done.row)
Known == StoreKnown /\ PageKnown /\ ReadsKnown /\ CacheKnown /\ SentKnown

\* While the URL has not changed under a request, all that is in flight is
\* for the resource of the URL, and so is what a loaded page shows.
Here ==
    ~overlapped /\ page.at # None =>
      /\ Usable => page.res.name = page.at
      /\ \A n \in Names : reads[n] # None => n = page.at
      /\ \A o \in sent : o.kind = "put" => o.url = page.at

EditorInv == Typed /\ Known /\ Here /\ NoLostUpdate /\ SavedWhereItBelongs /\ ActsOnWhatIsShown

Quiet == UNCHANGED <<store, writes, accepted>>

(* A write leaves a row that was seen seen, and so is the one it makes. *)
LEMMA WriteKeeps ==
    ASSUME Typed, StoreKnown, NEW m \in Names, NEW row, Write(m, row),
           \/ row = None
           \/ store[m] # None /\ row = Bump(store[m])
           \/ row = Row(1, writes + 1, writes + 1)
    PROVE  /\ store' \in [Names -> AnyRow \union {None}] /\ writes' \in Nat
           /\ StoreKnown'
           /\ \A n \in Names, r \in AnyRow : Seen(n, r) => Seen(n, r)'
           /\ store[m] # None /\ row = Bump(store[m]) => row \in AnyRow /\ Seen(m, row)'
<1>1. writes' = writes + 1 /\ store' = [store EXCEPT ![m] = row] /\ writes \in Nat
  BY DEF Write, Typed
<1>2. row \in AnyRow \union {None}
  BY <1>1 DEF Typed, Row, Bump, AnyRow
<1>3. row # None => row.born <= writes'
  BY <1>1 DEF Typed, StoreKnown, Row, Bump, AnyRow
<1>4. \A n \in Names : store'[n] = IF n = m THEN row ELSE store[n]
  BY <1>1 DEF Typed
<1>5. StoreKnown'
  BY <1>1, <1>3, <1>4 DEF StoreKnown, Typed, AnyRow
<1>6. ASSUME NEW n \in Names, NEW r \in AnyRow, Seen(n, r)
      PROVE  Seen(n, r)'
  <2>1. r.born \in Nat /\ r.version \in Nat /\ r.born <= writes /\ r.born <= writes'
    BY <1>1, <1>6 DEF Seen, AnyRow
  <2>2. CASE n # m
    BY <1>4, <1>6, <2>1, <2>2 DEF Seen
  <2>3. CASE n = m /\ store[m] # None /\ row = Bump(store[m])
    <3>1. store[m] \in AnyRow /\ row.born = store[m].born /\ row.version = store[m].version + 1
      BY <2>3 DEF Typed, Bump, Row
    <3> QED
      BY <1>4, <1>6, <2>1, <2>3, <3>1 DEF Seen, AnyRow
  <2>4. CASE n = m /\ row = Row(1, writes + 1, writes + 1)
    <3>1. row.born = writes + 1
      BY <2>4 DEF Row
    <3> QED
      BY <1>1, <1>4, <2>1, <2>4, <3>1 DEF Seen
  <2>5. CASE n = m /\ row = None
    BY <1>4, <2>1, <2>5 DEF Seen
  <2> QED
    BY <2>2, <2>3, <2>4, <2>5
<1>7. store[m] # None /\ row = Bump(store[m]) => row \in AnyRow /\ Seen(m, row)'
  <2> SUFFICES ASSUME store[m] # None, row = Bump(store[m])
               PROVE  row \in AnyRow /\ Seen(m, row)'
    OBVIOUS
  <2>1. row \in AnyRow /\ row.born = store[m].born /\ store[m].born <= writes
    BY <1>1 DEF Typed, StoreKnown, Row, Bump, AnyRow
  <2> QED
    BY <1>1, <1>4, <2>1 DEF Seen, AnyRow, Typed
<1> QED
  BY <1>1, <1>2, <1>4, <1>5, <1>6, <1>7 DEF Typed

(* What the end of a load makes of the page. *)
LEMMA LoadedPage ==
    ASSUME NEW p \in Pages, NEW n \in Names, NEW row \in AnyRow \union {Missing}
    PROVE  /\ Loaded(p, n, row) \in Pages
           /\ Loaded(p, n, row).at = p.at /\ ~Loaded(p, n, row).loading
           /\ row = Missing => /\ Loaded(p, n, row).error
                               /\ Loaded(p, n, row).res = p.res
                               /\ Loaded(p, n, row).yaml = p.yaml
           /\ row # Missing => /\ row \in AnyRow
                               /\ Loaded(p, n, row).res = [name |-> n, row |-> row]
                               /\ Loaded(p, n, row).yaml = n
BY DEF Loaded, Display, Pages, Named

(* A load keeps the invariant if whatever else is in flight is for the same *)
(* resource, or the overlap is recorded.                                    *)
LEMMA LoadKeeps ==
    ASSUME EditorInv, NEW n \in Names, LoadResource(page, n), Quiet,
           cached' = cached, sends' = sends, acted' = acted, overlapped' \in BOOLEAN,
           sent' \subseteq sent,
           ~overlapped' => /\ \A k \in Names : reads[k] # None => k = n
                           /\ \A o \in sent' : o.kind = "put" => o.url = n
    PROVE  EditorInv'
<1> DEFINE q == [page EXCEPT !.at = n, !.loading = TRUE, !.error = FALSE]
<1>1. /\ q \in Pages /\ q.at = n /\ q.loading /\ q.res = page.res /\ q.yaml = page.yaml
  BY DEF EditorInv, Typed, Pages
<1>2. \A k \in Names : cached[k] # None => cached[k] \in AnyRow /\ Seen(k, cached[k])
  BY DEF EditorInv, Typed, Known, CacheKnown
<1>3. \/ cached[n] # None /\ page' = Loaded(q, n, cached[n]) /\ reads' = reads
      \/ page' = q /\ reads' = [reads EXCEPT ![n] = IF @ = None THEN [answer |-> None] ELSE @]
  BY DEF LoadResource
<1> HIDE DEF q
<1>4. \A r \in AnyRow : r # Missing
  BY DEF AnyRow, Missing
<1>5. page' \in Pages /\ page'.at = n
      /\ \/ ~page'.loading /\ page'.yaml = n /\ cached[n] # None
            /\ page'.res = [name |-> n, row |-> cached[n]]
         \/ page'.loading /\ page'.res = page.res /\ page'.yaml = page.yaml
  BY <1>1, <1>2, <1>3, <1>4, LoadedPage
<1>6. /\ reads' \in [Names -> [answer : AnyRow \union {Missing, None}] \union {None}]
      /\ \A k \in Names : k = n \/ reads'[k] = reads[k]
      /\ reads'[n] = reads[n] \/ reads'[n] = [answer |-> None]
  BY <1>3 DEF EditorInv, Typed
<1>7. Typed'
  BY <1>5, <1>6 DEF EditorInv, Typed, Quiet
<1>8. Known'
  <2>1. StoreKnown' /\ CacheKnown' /\ SentKnown'
    BY DEF EditorInv, Known, StoreKnown, CacheKnown, SentKnown, Seen, Quiet
  <2>2. PageKnown'
    BY <1>2, <1>5 DEF EditorInv, Known, PageKnown, Seen, Quiet
  <2>3. ReadsKnown'
    <3> SUFFICES ASSUME NEW k \in Names, reads'[k] # None, reads'[k].answer \notin {None, Missing}
                 PROVE  Seen(k, reads[k].answer)'
      BY DEF ReadsKnown
    <3>1. reads'[k] = reads[k]
      BY <1>6
    <3> QED
      BY <3>1 DEF EditorInv, Known, ReadsKnown, Seen, Quiet
  <2> QED
    BY <2>1, <2>2, <2>3 DEF Known
<1>9. Here'
  BY <1>5, <1>6 DEF Here, Usable
<1> QED
  BY <1>7, <1>8, <1>9 DEF EditorInv, Quiet, NoLostUpdate, SavedWhereItBelongs, ActsOnWhatIsShown

(* Steps that load nothing and send nothing: what is shown and edited is   *)
(* the same, the page is usable only if it was, and what is in flight or   *)
(* cached was so before.                                                   *)
LEMMA PageKeeps ==
    ASSUME EditorInv, page' \in Pages, page'.at \in {page.at, None}, page'.res = page.res,
           page'.yaml = page.yaml \/ (page.res # None /\ page'.yaml = page.res.name),
           Usable' => Usable, Quiet, sent' \subseteq sent,
           reads' \in [Names -> [answer : AnyRow \union {Missing, None}] \union {None}],
           cached' \in [Names -> AnyRow \union {None}],
           \A k \in Names : reads'[k] \in {reads[k], None} /\ cached'[k] \in {cached[k], None},
           UNCHANGED <<sends, overlapped, acted>>
    PROVE  EditorInv'
<1>1. Typed'
  BY DEF EditorInv, Typed, Quiet
<1>2. Known'
  <2>1. StoreKnown' /\ PageKnown' /\ SentKnown'
    BY DEF EditorInv, Known, StoreKnown, PageKnown, SentKnown, Seen, Quiet
  <2>2. ReadsKnown'
    <3> SUFFICES ASSUME NEW k \in Names, reads'[k] # None, reads'[k].answer \notin {None, Missing}
                 PROVE  Seen(k, reads[k].answer)'
      BY DEF ReadsKnown
    <3>1. reads'[k] = reads[k]
      OBVIOUS
    <3> QED
      BY <3>1 DEF EditorInv, Known, ReadsKnown, Seen, Quiet
  <2>3. CacheKnown'
    <3> SUFFICES ASSUME NEW k \in Names, cached'[k] # None
                 PROVE  Seen(k, cached[k])'
      BY DEF CacheKnown
    <3>1. cached'[k] = cached[k]
      OBVIOUS
    <3> QED
      BY <3>1 DEF EditorInv, Known, CacheKnown, Seen, Quiet
  <2> QED
    BY <2>1, <2>2, <2>3 DEF Known
<1>3. Here'
  <2> SUFFICES ASSUME ~overlapped, page'.at # None
               PROVE  /\ Usable' => page'.res.name = page'.at
                      /\ \A k \in Names : reads'[k] # None => k = page'.at
                      /\ \A o \in sent' : o.kind = "put" => o.url = page'.at
    BY DEF Here
  <2>1. page'.at = page.at /\ page.at # None
    OBVIOUS
  <2> QED
    BY <2>1 DEF EditorInv, Here
<1> QED
  BY <1>1, <1>2, <1>3 DEF EditorInv, Quiet, NoLostUpdate, SavedWhereItBelongs, ActsOnWhatIsShown

(* The answer of a GET is shown and cached. *)
LEMMA AnswerGetKeeps ==
    ASSUME EditorInv, NEW n \in Names, AnswerGet(n)
    PROVE  EditorInv'
<1> DEFINE a == reads[n].answer
<1>1. /\ reads[n] # None /\ a # None /\ a \in AnyRow \union {Missing}
      /\ a # Missing => a \in AnyRow /\ Seen(n, a)
  BY DEF AnswerGet, EditorInv, Typed, Known, ReadsKnown
<1>2. /\ page' = IF page.at = None THEN page ELSE Loaded(page, n, a)
      /\ cached' = IF a = Missing THEN cached ELSE [cached EXCEPT ![n] = a]
      /\ reads' = [reads EXCEPT ![n] = None]
      /\ Quiet
      /\ UNCHANGED <<sent, sends, overlapped, acted>>
  BY DEF AnswerGet, server, counters, Quiet
<1> HIDE DEF a
<1>3. page \in Pages
  BY DEF EditorInv, Typed
<1>4. /\ page' \in Pages /\ page'.at = page.at
      /\ \/ page' = page /\ page.at = None
         \/ a = Missing /\ page'.error /\ page'.res = page.res /\ page'.yaml = page.yaml
         \/ a \in AnyRow /\ a # Missing /\ page'.yaml = n /\ page'.res = [name |-> n, row |-> a]
  BY <1>1, <1>2, <1>3, LoadedPage
<1>5. /\ \A k \in Names : reads'[k] = IF k = n THEN None ELSE reads[k]
      /\ \A k \in Names : cached'[k] = IF k = n /\ a # Missing THEN a ELSE cached[k]
  BY <1>2 DEF EditorInv, Typed
<1>6. Typed'
  BY <1>1, <1>2, <1>4 DEF EditorInv, Typed, Quiet
<1>7. Known'
  <2>1. StoreKnown' /\ SentKnown'
    BY <1>2 DEF EditorInv, Known, StoreKnown, SentKnown, Seen, Quiet
  <2>2. PageKnown'
    BY <1>1, <1>2, <1>4 DEF EditorInv, Known, PageKnown, Seen, Quiet
  <2>3. ReadsKnown'
    BY <1>2, <1>5 DEF EditorInv, Known, ReadsKnown, Seen, Quiet
  <2>4. CacheKnown'
    BY <1>1, <1>2, <1>5 DEF EditorInv, Known, CacheKnown, Seen, Quiet
  <2> QED
    BY <2>1, <2>2, <2>3, <2>4 DEF Known
<1>8. Here'
  <2> SUFFICES ASSUME ~overlapped, page.at # None
               PROVE  Here'
    BY <1>2, <1>4 DEF Here
  <2>1. n = page.at
    BY <1>1 DEF EditorInv, Here
  <2> QED
    BY <1>2, <1>4, <1>5, <2>1 DEF EditorInv, Here, Usable
<1> QED
  BY <1>2, <1>6, <1>7, <1>8 DEF EditorInv, Quiet, NoLostUpdate, SavedWhereItBelongs, ActsOnWhatIsShown

(* A mutation is sent for the resource of the URL, from what is on display. *)
LEMMA SendKeeps ==
    ASSUME EditorInv, NEW kind \in {"put", "delete", "run", "clone"}, NEW url \in Names,
           page.res # None, SendOp(Op(kind, url, page.res)),
           kind = "put" => url = page.at,
           page' \in Pages, page'.at = page.at, page'.res = page.res, page'.yaml = page.yaml,
           Usable' => Usable, Quiet, ActsOnWhatIsShown'
    PROVE  EditorInv'
<1> DEFINE o == Op(kind, url, page.res)
<1>1. /\ sent' = sent \union {o} /\ sends' = sends + 1 /\ cached' = NothingCached
      /\ UNCHANGED <<reads, overlapped>>
  BY DEF SendOp
<1>2. page.res \in Named /\ page.yaml \in Names \union {None} /\ sends \in Nat
  BY DEF EditorInv, Typed, Pages
<1>3. /\ o \in Ops /\ o.kind = kind /\ o.url = url /\ o.from = page.res /\ o.yaml = page.yaml
      /\ o.done = None
  BY <1>2 DEF Op, Ops
<1> HIDE DEF o
<1>4. Typed'
  BY <1>1, <1>3 DEF EditorInv, Typed, Quiet, NothingCached
<1>5. Known'
  <2>1. StoreKnown' /\ ReadsKnown' /\ CacheKnown'
    BY <1>1 DEF EditorInv, Known, StoreKnown, ReadsKnown, CacheKnown, NothingCached, Seen, Quiet
  <2>2. PageKnown'
    BY DEF EditorInv, Known, PageKnown, Seen, Quiet
  <2>3. SentKnown'
    BY <1>1, <1>3 DEF EditorInv, Known, SentKnown, PageKnown, Seen, Quiet
  <2> QED
    BY <2>1, <2>2, <2>3 DEF Known
<1>6. Here'
  BY <1>1, <1>3 DEF EditorInv, Here
<1> QED
  BY <1>4, <1>5, <1>6 DEF EditorInv, Quiet, NoLostUpdate, SavedWhereItBelongs

(* A handled mutation keeps all but its result. *)
LEMMA DoneOps ==
    ASSUME Typed, NEW o \in sent, NEW ok \in BOOLEAN, NEW row \in AnyRow \union {None},
           Done(o, ok, row)
    PROVE  /\ sent' \subseteq Ops
           /\ \A v \in sent' : \E u \in sent :
                /\ v.kind = u.kind /\ v.url = u.url /\ v.from = u.from /\ v.yaml = u.yaml
                /\ v = u \/ (u = o /\ v.done = [ok |-> ok, row |-> row])
<1> DEFINE d == [o EXCEPT !.done = [ok |-> ok, row |-> row]]
<1>1. sent' = (sent \ {o}) \union {d}
  BY DEF Done
<1>2. o \in Ops
  BY DEF Typed
<1>3. /\ d \in Ops /\ d.done = [ok |-> ok, row |-> row]
      /\ d.kind = o.kind /\ d.url = o.url /\ d.from = o.from /\ d.yaml = o.yaml
  BY <1>2 DEF Ops
<1> HIDE DEF d
<1> QED
  BY <1>1, <1>3 DEF Typed

(* A write on the server, with or without a mutation of the page as its *)
(* cause, keeps the invariant.                                          *)
LEMMA WriteStepKeeps ==
    ASSUME EditorInv, NEW m \in Names, NEW row, Write(m, row),
           \/ row = None
           \/ store[m] # None /\ row = Bump(store[m])
           \/ row = Row(1, writes + 1, writes + 1),
           sent' \subseteq Ops,
           \A v \in sent' : \E u \in sent :
             /\ v.kind = u.kind /\ v.url = u.url /\ v.from = u.from /\ v.yaml = u.yaml
             /\ \/ v.done = u.done
                \/ v.kind = "put" /\ v.done # None /\ v.done.ok =>
                     v.done.row = row /\ store[m] # None /\ row = Bump(store[m]) /\ v.url = m,
           UNCHANGED <<page, reads, cached, sends, overlapped, acted>>,
           NoLostUpdate', SavedWhereItBelongs'
    PROVE  EditorInv'
<1>1. /\ store' \in [Names -> AnyRow \union {None}] /\ writes' \in Nat
      /\ StoreKnown'
      /\ \A n \in Names, r \in AnyRow : Seen(n, r) => Seen(n, r)'
      /\ store[m] # None /\ row = Bump(store[m]) => row \in AnyRow /\ Seen(m, row)'
  BY WriteKeeps DEF EditorInv, Known
<1>2. Typed'
  BY <1>1 DEF EditorInv, Typed
<1>3. PageKnown'
  <2>1. page.res # None => page.res.name \in Names /\ page.res.row \in AnyRow
    BY DEF EditorInv, Typed, Pages, Named
  <2> QED
    BY <1>1, <2>1 DEF EditorInv, Known, PageKnown
<1>4. ReadsKnown'
  <2>1. \A n \in Names : reads[n] # None /\ reads[n].answer \notin {None, Missing}
          => reads[n].answer \in AnyRow
    BY DEF EditorInv, Typed
  <2> QED
    BY <1>1, <2>1 DEF EditorInv, Known, ReadsKnown
<1>5. CacheKnown'
  <2>1. \A n \in Names : cached[n] # None => cached[n] \in AnyRow
    BY DEF EditorInv, Typed
  <2> QED
    BY <1>1, <2>1 DEF EditorInv, Known, CacheKnown
<1>6. SentKnown'
  <2> SUFFICES ASSUME NEW v \in sent'
               PROVE  /\ v.yaml = v.from.name /\ Seen(v.from.name, v.from.row)'
                      /\ v.kind = "put" /\ v.done # None /\ v.done.ok =>
                           v.done.row \in AnyRow /\ Seen(v.url, v.done.row)'
    BY DEF SentKnown
  <2>1. PICK u \in sent :
          /\ v.kind = u.kind /\ v.url = u.url /\ v.from = u.from /\ v.yaml = u.yaml
          /\ \/ v.done = u.done
             \/ v.kind = "put" /\ v.done # None /\ v.done.ok =>
                  v.done.row = row /\ store[m] # None /\ row = Bump(store[m]) /\ v.url = m
    OBVIOUS
  <2>2. u \in Ops /\ u.from.name \in Names /\ u.from.row \in AnyRow /\ u.url \in Names
    BY DEF EditorInv, Typed, Ops, Named
  <2>3. /\ u.yaml = u.from.name /\ Seen(u.from.name, u.from.row)
        /\ u.kind = "put" /\ u.done # None /\ u.done.ok =>
             u.done.row \in AnyRow /\ Seen(u.url, u.done.row)
    BY DEF EditorInv, Known, SentKnown
  <2> QED
    BY <1>1, <2>1, <2>2, <2>3
<1>7. Here'
  BY DEF EditorInv, Here, Usable
<1> QED
  BY <1>1, <1>2, <1>3, <1>4, <1>5, <1>6, <1>7 DEF EditorInv, Known, ActsOnWhatIsShown

(* A mutation handled without a write, and not as an accepted save. *)
LEMMA HandledKeeps ==
    ASSUME EditorInv, NEW o \in sent, NEW ok \in BOOLEAN, Done(o, ok, None),
           ok => o.kind # "put",
           UNCHANGED <<store, writes, accepted>>,
           UNCHANGED <<page, reads, cached, counters, acted, scope>>
    PROVE  EditorInv'
<1>1. /\ sent' \subseteq Ops
      /\ \A v \in sent' : \E u \in sent :
           /\ v.kind = u.kind /\ v.url = u.url /\ v.from = u.from /\ v.yaml = u.yaml
           /\ v = u \/ (u = o /\ v.done = [ok |-> ok, row |-> None])
  <2>1. Typed /\ None \in AnyRow \union {None}
    BY DEF EditorInv
  <2> QED
    BY <2>1, DoneOps
<1>2. Typed'
  BY <1>1 DEF EditorInv, Typed, counters
<1>3. StoreKnown' /\ PageKnown' /\ ReadsKnown' /\ CacheKnown'
  BY DEF EditorInv, Known, StoreKnown, PageKnown, ReadsKnown, CacheKnown, Seen
<1>4. SentKnown'
  BY <1>1 DEF EditorInv, Known, SentKnown, Seen
<1>5. Here'
  BY <1>1 DEF EditorInv, Here, Usable, counters
<1> QED
  BY <1>2, <1>3, <1>4, <1>5 DEF EditorInv, Known, NoLostUpdate, SavedWhereItBelongs, ActsOnWhatIsShown

(* A save that is accepted replaces the row its author had loaded. *)
LEMMA UpdateKeeps ==
    ASSUME EditorInv, NEW o \in sent, o.done = None, UpdateResource(o),
           UNCHANGED <<page, reads, cached, counters, acted, scope>>
    PROVE  EditorInv'
<1>1. o \in Ops /\ o.url \in Names
  BY DEF EditorInv, Typed, Ops
<1>2. CASE o.yaml # o.url \/ store[o.url] = None \/ store[o.url].version # o.from.row.version
  <2>1. Done(o, FALSE, None) /\ UNCHANGED <<store, writes, accepted>>
    BY <1>2 DEF UpdateResource, Refuse
  <2> QED
    BY <2>1, HandledKeeps
<1>3. CASE o.yaml = o.url /\ store[o.url] # None /\ store[o.url].version = o.from.row.version
  <2> DEFINE row == Bump(store[o.url])
  <2>1. /\ Write(o.url, row) /\ Done(o, TRUE, row)
        /\ accepted' = [url |-> o.url, text |-> o.yaml, base |-> o.from.row,
                        replaced |-> store[o.url]]
    BY <1>3 DEF UpdateResource
  <2>2. row \in AnyRow
    BY <1>1, <1>3 DEF EditorInv, Typed, Bump, Row, AnyRow
  <2> HIDE DEF row
  <2>3. /\ sent' \subseteq Ops
        /\ \A v \in sent' : \E u \in sent :
             /\ v.kind = u.kind /\ v.url = u.url /\ v.from = u.from /\ v.yaml = u.yaml
             /\ v = u \/ (u = o /\ v.done = [ok |-> TRUE, row |-> row])
    <3>1. Typed /\ TRUE \in BOOLEAN /\ row \in AnyRow \union {None} /\ Done(o, TRUE, row)
      BY <2>1, <2>2 DEF EditorInv
    <3> QED
      BY <3>1, DoneOps
  <2>4. SavedWhereItBelongs'
    BY <1>3, <2>1 DEF SavedWhereItBelongs
  <2>5. NoLostUpdate'
    <3>1. o.from.name = o.url /\ Seen(o.url, o.from.row)
      BY <1>3 DEF EditorInv, Known, SentKnown
    <3> QED
      BY <1>3, <2>1, <3>1 DEF Seen, NoLostUpdate
  <2>6. \A v \in sent' : \E u \in sent :
          /\ v.kind = u.kind /\ v.url = u.url /\ v.from = u.from /\ v.yaml = u.yaml
          /\ \/ v.done = u.done
             \/ v.kind = "put" /\ v.done # None /\ v.done.ok =>
                  v.done.row = row /\ store[o.url] # None /\ row = Bump(store[o.url]) /\ v.url = o.url
    BY <1>3, <2>3 DEF row
  <2>7. UNCHANGED <<page, reads, cached, sends, overlapped, acted>>
    BY DEF counters
  <2>8. row = Bump(store[o.url])
    BY DEF row
  <2> HIDE DEF row
  <2> QED
    BY <1>1, <1>3, <2>1, <2>3, <2>4, <2>5, <2>6, <2>7, <2>8, WriteStepKeeps
<1> QED
  BY <1>2, <1>3

(* Handling a mutation of the page. *)
LEMMA ServerHandlesKeeps ==
    ASSUME EditorInv, NEW o \in sent, ServerHandles(o)
    PROVE  EditorInv'
<1>1. UNCHANGED <<page, reads, cached, counters, acted, scope>> /\ o.done = None
  BY DEF ServerHandles
<1>2. o \in Ops /\ o.url \in Names
  BY DEF EditorInv, Typed, Ops
<1>3. CASE o.kind = "put" /\ UpdateResource(o)
  BY <1>1, <1>3, UpdateKeeps
<1>4. ASSUME NEW row, Write(o.url, row), UNCHANGED accepted, o.kind # "put", Done(o, TRUE, None),
             \/ row = None
             \/ store[o.url] # None /\ row = Bump(store[o.url])
             \/ row = Row(1, writes + 1, writes + 1)
      PROVE  EditorInv'
  <2>1. /\ sent' \subseteq Ops
        /\ \A v \in sent' : \E u \in sent :
             /\ v.kind = u.kind /\ v.url = u.url /\ v.from = u.from /\ v.yaml = u.yaml
             /\ v = u \/ (u = o /\ v.done = [ok |-> TRUE, row |-> None])
    <3>1. Typed /\ TRUE \in BOOLEAN /\ None \in AnyRow \union {None}
      BY DEF EditorInv
    <3> QED
      BY <1>4, <3>1, DoneOps
  <2>2. \A v \in sent' : \E u \in sent :
          /\ v.kind = u.kind /\ v.url = u.url /\ v.from = u.from /\ v.yaml = u.yaml
          /\ \/ v.done = u.done
             \/ v.kind = "put" /\ v.done # None /\ v.done.ok =>
                  v.done.row = row /\ store[o.url] # None /\ row = Bump(store[o.url]) /\ v.url = o.url
    BY <1>4, <2>1
  <2>3. NoLostUpdate' /\ SavedWhereItBelongs'
    BY <1>4 DEF EditorInv, NoLostUpdate, SavedWhereItBelongs
  <2>4. UNCHANGED <<page, reads, cached, sends, overlapped, acted>>
    BY <1>1 DEF counters
  <2> QED
    BY <1>2, <1>4, <2>1, <2>2, <2>3, <2>4, WriteStepKeeps
<1>5. CASE o.kind = "clone" /\ CreateResource(o.url) /\ Done(o, TRUE, None) /\ UNCHANGED accepted
  BY <1>4, <1>5 DEF CreateResource
<1>6. CASE o.kind = "delete" /\ DeleteResource(o.url) /\ Done(o, TRUE, None) /\ UNCHANGED accepted
  <2>1. CASE store[o.url] = None
    BY <1>1, <1>6, <2>1, HandledKeeps DEF DeleteResource
  <2>2. CASE store[o.url] # None
    BY <1>4, <1>6, <2>2 DEF DeleteResource
  <2> QED
    BY <2>1, <2>2
<1>7. CASE o.kind = "run" /\ Done(o, store[o.url] # None, None) /\ UNCHANGED <<store, writes, accepted>>
  <2>1. (store[o.url] # None) \in BOOLEAN /\ o.kind # "put"
    BY <1>7
  <2> QED
    BY <1>1, <1>7, <2>1, HandledKeeps
<1> QED
  BY <1>3, <1>5, <1>6, <1>7 DEF ServerHandles

(* The server answers a GET. *)
LEMMA ServerGetsKeeps ==
    ASSUME EditorInv, NEW n \in Names, ServerGets(n)
    PROVE  EditorInv'
<1>1. /\ reads[n] # None /\ reads' = [reads EXCEPT ![n].answer = Held[n]]
      /\ Quiet /\ UNCHANGED <<page, cached, sent, sends, overlapped, acted>>
  BY DEF ServerGets, server, counters, Quiet
<1>2. Held[n] = IF store[n] = None THEN Missing ELSE store[n]
  BY DEF Held
<1>3. Held[n] \in AnyRow \union {Missing}
  BY <1>2 DEF EditorInv, Typed
<1>4. Held[n] # Missing => Seen(n, Held[n])
  <2> SUFFICES ASSUME Held[n] # Missing
               PROVE  Seen(n, Held[n])
    OBVIOUS
  <2>1. store[n] # None /\ Held[n] = store[n] /\ store[n] \in AnyRow /\ store[n].born <= writes
    BY <1>2, <1>3 DEF EditorInv, Typed, Known, StoreKnown
  <2> QED
    BY <2>1 DEF Seen, AnyRow
<1>5. /\ reads' \in [Names -> [answer : AnyRow \union {Missing, None}] \union {None}]
      /\ reads'[n] # None => reads'[n] = [answer |-> Held[n]]
      /\ \A k \in Names \ {n} : reads'[k] = reads[k]
  <2>1. reads[n] \in [answer : AnyRow \union {Missing, None}]
    BY <1>1 DEF EditorInv, Typed
  <2>2. [reads[n] EXCEPT !.answer = Held[n]] = [answer |-> Held[n]]
    BY <2>1
  <2>3. reads' = [reads EXCEPT ![n] = [answer |-> Held[n]]]
    BY <1>1, <2>2 DEF EditorInv, Typed
  <2> QED
    BY <1>3, <2>3 DEF EditorInv, Typed
<1>6. Typed'
  BY <1>1, <1>5 DEF EditorInv, Typed, Quiet
<1>7. Known'
  <2>1. StoreKnown' /\ PageKnown' /\ CacheKnown' /\ SentKnown'
    BY <1>1 DEF EditorInv, Known, StoreKnown, PageKnown, CacheKnown, SentKnown, Seen, Quiet
  <2>2. ReadsKnown'
    <3> SUFFICES ASSUME NEW k \in Names, reads'[k] # None, reads'[k].answer \notin {None, Missing}
                 PROVE  Seen(k, reads[k].answer)'
      BY DEF ReadsKnown
    <3>1. CASE k = n
      <4>1. reads'[k].answer = Held[n] /\ Held[n] # Missing
        BY <1>5, <3>1
      <4>2. store' = store /\ writes' = writes
        BY <1>1 DEF Quiet
      <4> QED
        BY <1>4, <3>1, <4>1, <4>2 DEF Seen
    <3>2. CASE k # n
      BY <1>1, <1>5, <3>2 DEF EditorInv, Known, ReadsKnown, Seen, Quiet
    <3> QED
      BY <3>1, <3>2
  <2> QED
    BY <2>1, <2>2 DEF Known
<1>8. Here'
  <2> SUFFICES ASSUME ~overlapped, page.at # None
               PROVE  /\ Usable' => page'.res.name = page'.at
                      /\ \A k \in Names : reads'[k] # None => k = page'.at
                      /\ \A o \in sent' : o.kind = "put" => o.url = page'.at
    BY <1>1 DEF Here
  <2> QED
    BY <1>1, <1>5 DEF EditorInv, Here, Usable
<1> QED
  BY <1>1, <1>6, <1>7, <1>8 DEF EditorInv, Quiet, NoLostUpdate, SavedWhereItBelongs, ActsOnWhatIsShown

(* The end of a mutation. *)
LEMMA AnswerOpKeeps ==
    ASSUME EditorInv, NEW o \in sent, AnswerOp(o)
    PROVE  EditorInv'
<1>1. /\ o.done # None /\ sent' = sent \ {o}
      /\ Quiet /\ UNCHANGED <<cached, sends, acted>>
  BY DEF AnswerOp, server, Quiet
<1>2. page \in Pages /\ reads \in [Names -> [answer : AnyRow \union {Missing, None}] \union {None}]
      /\ cached \in [Names -> AnyRow \union {None}] /\ overlapped \in BOOLEAN
  BY DEF EditorInv, Typed
<1>3. o \in Ops
  BY DEF EditorInv, Typed
<1>4. ASSUME page' \in Pages, page'.at \in {page.at, None}, page'.res = page.res,
             page'.yaml = page.yaml, Usable' => Usable, UNCHANGED <<reads, overlapped>>
      PROVE  EditorInv'
  BY <1>1, <1>2, <1>4, PageKeeps
<1>5. ASSUME o.done.ok, o.kind = "put", page.at # None
      PROVE  EditorInv'
  <2>1. /\ page' = [Display(page, o.url, o.done.row) EXCEPT !.edit = FALSE, !.saving = FALSE]
        /\ UNCHANGED <<reads, overlapped>>
    BY <1>5 DEF AnswerOp, Succeeds
  <2>2. o.done.row \in AnyRow /\ Seen(o.url, o.done.row) /\ o.url \in Names
    BY <1>1, <1>3, <1>5 DEF EditorInv, Known, SentKnown, Ops
  <2>3. /\ page' \in Pages /\ page'.at = page.at /\ page'.yaml = o.url
        /\ page'.res = [name |-> o.url, row |-> o.done.row]
    BY <1>2, <2>1, <2>2 DEF Display, Pages, Named
  <2>4. Typed'
    BY <1>1, <2>1, <2>3 DEF EditorInv, Typed, Quiet
  <2>5. Known'
    <3>1. StoreKnown' /\ ReadsKnown' /\ CacheKnown' /\ SentKnown'
      BY <1>1, <2>1 DEF EditorInv, Known, StoreKnown, ReadsKnown, CacheKnown, SentKnown, Seen, Quiet
    <3>2. PageKnown'
      BY <1>1, <2>2, <2>3 DEF PageKnown, Seen, Quiet
    <3> QED
      BY <3>1, <3>2 DEF Known
  <2>6. Here'
    BY <1>1, <1>5, <2>1, <2>3 DEF EditorInv, Here
  <2> QED
    BY <1>1, <2>4, <2>5, <2>6 DEF EditorInv, Quiet, NoLostUpdate, SavedWhereItBelongs, ActsOnWhatIsShown
<1>6. ASSUME o.done.ok, o.kind = "clone", page.at \notin {None, o.url}
      PROVE  EditorInv'
  <2>1. /\ LoadResource(page, o.url)
        /\ overlapped' = (overlapped \/ sent # {o} \/ \E n \in Names : reads[n] # None)
    BY <1>6 DEF AnswerOp, Succeeds
  <2>2. overlapped' \in BOOLEAN /\ o.url \in Names /\ sent' \subseteq sent
    BY <1>1, <1>3, <2>1 DEF Ops
  <2>3. ~overlapped' => /\ \A k \in Names : reads[k] # None => k = o.url
                        /\ \A u \in sent' : u.kind = "put" => u.url = o.url
    BY <1>1, <2>1
  <2> QED
    BY <1>1, <2>1, <2>2, <2>3, LoadKeeps
<1>7. ASSUME o.done.ok, o.kind \in {"delete", "run"}
      PROVE  EditorInv'
  <2>1. page' = [page EXCEPT !.at = None, !.deleting = FALSE] /\ UNCHANGED <<reads, overlapped>>
    BY <1>7 DEF AnswerOp, Succeeds
  <2>2. page' \in Pages /\ page'.at = None /\ page'.res = page.res /\ page'.yaml = page.yaml
    BY <1>2, <2>1 DEF Pages
  <2> QED
    BY <1>4, <2>1, <2>2 DEF Usable
<1>8. ASSUME o.done.ok, ~(o.kind = "put" /\ page.at # None),
             ~(o.kind = "clone" /\ page.at \notin {None, o.url}), o.kind \notin {"delete", "run"}
      PROVE  EditorInv'
  <2>1. UNCHANGED <<page, reads, overlapped>>
    BY <1>8 DEF AnswerOp, Succeeds
  <2> QED
    BY <1>2, <1>4, <2>1 DEF Usable
<1>9. ASSUME ~o.done.ok
      PROVE  EditorInv'
  <2>1. Fails(o) /\ UNCHANGED <<reads, overlapped>>
    BY <1>9 DEF AnswerOp
  <2>2. page' \in Pages /\ page'.at = page.at /\ page'.res = page.res /\ page'.yaml = page.yaml
        /\ page'.loading = page.loading /\ page'.error = page.error
    BY <1>2, <2>1 DEF Fails, Pages
  <2> QED
    BY <1>4, <2>1, <2>2 DEF Usable
<1> QED
  BY <1>5, <1>6, <1>7, <1>8, <1>9

(* Steps of the user and of the cache that neither load nor send. *)
LEMMA PageStepsKeep ==
    ASSUME EditorInv,
           \/ HandleEdit \/ HandleCancelEdit \/ AskDelete \/ DismissDelete
           \/ \E n \in Names : FailGet(n) \/ CacheExpires(n)
           \/ \E o \in sent : FailOp(o)
           \/ UNCHANGED editorVars
    PROVE  EditorInv'
<1>1. page \in Pages /\ reads \in [Names -> [answer : AnyRow \union {Missing, None}] \union {None}]
      /\ cached \in [Names -> AnyRow \union {None}]
  BY DEF EditorInv, Typed
<1>2. ASSUME page' \in Pages, page'.at = page.at, page'.res = page.res,
             page'.yaml = page.yaml \/ (page.res # None /\ page'.yaml = page.res.name),
             Usable' => Usable, Quiet, UNCHANGED <<reads, cached, sent, sends, overlapped, acted>>
      PROVE  EditorInv'
  BY <1>1, <1>2, PageKeeps
<1>3. CASE HandleEdit
  <2>1. page.res # None /\ page.res.name \in Names
    BY <1>1, <1>3 DEF HandleEdit, Usable, Pages, Named
  <2>2. page' \in Pages /\ page'.at = page.at /\ page'.res = page.res /\ page'.yaml = page.res.name
        /\ Usable
    BY <1>1, <1>3, <2>1 DEF HandleEdit, Pages
  <2> QED
    BY <1>2, <1>3, <2>1, <2>2 DEF HandleEdit, Quiet, server, counters
<1>4. CASE HandleCancelEdit
  <2>1. page.res # None /\ page.res.name \in Names
    BY <1>1, <1>4 DEF HandleCancelEdit, Usable, Pages, Named
  <2>2. page' \in Pages /\ page'.at = page.at /\ page'.res = page.res /\ page'.yaml = page.res.name
        /\ Usable
    BY <1>1, <1>4, <2>1 DEF HandleCancelEdit, Pages
  <2> QED
    BY <1>2, <1>4, <2>1, <2>2 DEF HandleCancelEdit, Quiet, server, counters
<1>5. CASE AskDelete \/ DismissDelete
  <2>1. page' \in Pages /\ page'.at = page.at /\ page'.res = page.res /\ page'.yaml = page.yaml
        /\ Usable
    BY <1>1, <1>5 DEF AskDelete, DismissDelete, Pages
  <2> QED
    BY <1>2, <1>5, <2>1 DEF AskDelete, DismissDelete, Quiet, server, counters
<1>6. ASSUME NEW n \in Names, FailGet(n)
      PROVE  EditorInv'
  <2>1. /\ page' = [page EXCEPT !.error = TRUE, !.loading = FALSE]
        /\ reads' = [reads EXCEPT ![n] = None]
        /\ Quiet /\ UNCHANGED <<cached, sent, sends, overlapped, acted>>
    BY <1>6 DEF FailGet, server, Quiet
  <2>2. page' \in Pages /\ page'.at = page.at /\ page'.res = page.res /\ page'.yaml = page.yaml
        /\ ~Usable'
    BY <1>1, <2>1 DEF Pages, Usable
  <2>3. /\ reads' \in [Names -> [answer : AnyRow \union {Missing, None}] \union {None}]
        /\ \A k \in Names : reads'[k] \in {reads[k], None}
    BY <1>1, <2>1
  <2> QED
    BY <1>1, <2>1, <2>2, <2>3, PageKeeps
<1>7. ASSUME NEW n \in Names, CacheExpires(n)
      PROVE  EditorInv'
  <2>1. /\ cached' = [cached EXCEPT ![n] = None]
        /\ Quiet /\ UNCHANGED <<page, reads, sent, sends, overlapped, acted>>
    BY <1>7 DEF CacheExpires, server, counters, Quiet
  <2>2. /\ cached' \in [Names -> AnyRow \union {None}]
        /\ \A k \in Names : cached'[k] \in {cached[k], None}
    BY <1>1, <2>1
  <2>3. Usable' => Usable
    BY <2>1 DEF Usable
  <2> QED
    BY <1>1, <2>1, <2>2, <2>3, PageKeeps
<1>8. ASSUME NEW o \in sent, FailOp(o)
      PROVE  EditorInv'
  <2>1. /\ Fails(o) /\ sent' = sent \ {o}
        /\ Quiet /\ UNCHANGED <<reads, cached, sends, overlapped, acted>>
    BY <1>8 DEF FailOp, server, Quiet
  <2>2. page' \in Pages /\ page'.at = page.at /\ page'.res = page.res /\ page'.yaml = page.yaml
        /\ page'.loading = page.loading /\ page'.error = page.error
    BY <1>1, <2>1 DEF Fails, Pages
  <2>3. Usable' => Usable
    BY <2>2 DEF Usable
  <2> QED
    BY <1>1, <2>1, <2>2, <2>3, PageKeeps
<1>9. CASE UNCHANGED editorVars
  BY <1>1, <1>2, <1>9 DEF editorVars, Quiet, Usable
<1> QED
  BY <1>3, <1>4, <1>5, <1>6, <1>7, <1>8, <1>9

(* Steps of the user that load or send. *)
LEMMA UserStepsKeep ==
    ASSUME EditorInv, CopiesNamed,
           \/ Reload \/ HandleSave \/ HandleDelete \/ HandleRun \/ HandleClone
           \/ \E n \in Names : Open(n)
    PROVE  EditorInv'
<1>1. page \in Pages /\ overlapped \in BOOLEAN /\ ActsOnWhatIsShown
  BY DEF EditorInv, Typed
<1>2. CASE Reload
  <2>1. /\ page.at \in Names /\ LoadResource(page, page.at) /\ Quiet
        /\ UNCHANGED <<cached, sent, sends, overlapped, acted>>
    BY <1>1, <1>2 DEF Reload, server, counters, Quiet, Pages
  <2>2. ~overlapped => /\ \A k \in Names : reads[k] # None => k = page.at
                       /\ \A o \in sent : o.kind = "put" => o.url = page.at
    BY <1>2 DEF Reload, EditorInv, Here
  <2> QED
    BY <1>1, <2>1, <2>2, LoadKeeps
<1>3. ASSUME NEW n \in Names, Open(n)
      PROVE  EditorInv'
  <2>1. /\ LoadResource(page, n) /\ Quiet /\ UNCHANGED <<cached, sent, sends, acted>>
        /\ overlapped' = (overlapped \/ Busy)
    BY <1>3 DEF Open, server, Quiet
  <2>2. ~overlapped' => sent = {} /\ \A k \in Names : reads[k] = None
    BY <2>1 DEF Busy
  <2>3. overlapped' \in BOOLEAN
    BY <1>1, <2>1 DEF Busy
  <2> QED
    BY <2>1, <2>2, <2>3, LoadKeeps
<1>4. CASE HandleSave
  <2>1. /\ page.at \in Names /\ page.res # None /\ SendOp(Op("put", page.at, page.res))
        /\ page' = [page EXCEPT !.saving = TRUE] /\ Quiet /\ acted' = acted
    BY <1>1, <1>4 DEF HandleSave, SendOp, server, Quiet, Pages
  <2>2. page' \in Pages /\ page'.at = page.at /\ page'.res = page.res /\ page'.yaml = page.yaml
        /\ page'.loading = page.loading /\ page'.error = page.error
    BY <1>1, <2>1 DEF Pages
  <2>3. Usable' => Usable
    BY <2>2 DEF Usable
  <2>4. ActsOnWhatIsShown'
    BY <1>1, <2>1 DEF ActsOnWhatIsShown
  <2> QED
    BY <2>1, <2>2, <2>3, <2>4, SendKeeps
<1>5. CASE HandleDelete
  <2>1. /\ Usable /\ SendOp(Op("delete", page.at, page.res)) /\ Quiet
        /\ page' = [page EXCEPT !.deleting = TRUE]
        /\ acted' = [url |-> page.at, shown |-> page.res.name, overlapped |-> overlapped]
    BY <1>5 DEF HandleDelete, SendOp, server, Quiet
  <2>2. page.at # None /\ page.at \in Names /\ page.res # None
    BY <1>1, <2>1 DEF Usable, Pages
  <2>3. page' \in Pages /\ page'.at = page.at /\ page'.res = page.res /\ page'.yaml = page.yaml
    BY <1>1, <2>1 DEF Pages
  <2>4. ActsOnWhatIsShown'
    BY <2>1, <2>2 DEF ActsOnWhatIsShown, EditorInv, Here
  <2> QED
    BY <2>1, <2>2, <2>3, <2>4, SendKeeps
<1>6. CASE HandleRun
  <2>1. /\ Usable /\ SendOp(Op("run", page.at, page.res)) /\ Quiet /\ page' = page
        /\ acted' = [url |-> page.at, shown |-> page.res.name, overlapped |-> overlapped]
    BY <1>6 DEF HandleRun, SendOp, server, Quiet
  <2>2. page.at # None /\ page.at \in Names /\ page.res # None
    BY <1>1, <2>1 DEF Usable, Pages
  <2>3. ActsOnWhatIsShown'
    BY <2>1, <2>2 DEF ActsOnWhatIsShown, EditorInv, Here
  <2> QED
    BY <1>1, <2>1, <2>2, <2>3, SendKeeps
<1>7. CASE HandleClone
  <2>1. /\ Usable /\ SendOp(Op("clone", CopyOf[page.res.name], page.res)) /\ Quiet
        /\ CopyOf[page.res.name] # None /\ page' = page /\ acted' = acted
    BY <1>7 DEF HandleClone, SendOp, server, Quiet
  <2>2. page.res # None /\ page.res.name \in Names
    BY <1>1, <2>1 DEF Usable, Pages, Named
  <2>3. CopyOf[page.res.name] \in Names
    BY <2>1, <2>2 DEF CopiesNamed
  <2>4. ActsOnWhatIsShown'
    BY <1>1, <2>1 DEF ActsOnWhatIsShown
  <2> QED
    BY <1>1, <2>1, <2>2, <2>3, <2>4, SendKeeps
<1> QED
  BY <1>2, <1>3, <1>4, <1>5, <1>6, <1>7

(* Another client writes. *)
LEMMA OthersKeep ==
    ASSUME EditorInv, NEW n \in Names, OthersUpdate(n) \/ OthersCreate(n) \/ OthersDelete(n)
    PROVE  EditorInv'
<1>1. UNCHANGED <<accepted, page, reads, cached, sent, counters, acted, scope>>
  BY DEF OthersUpdate, OthersCreate, OthersDelete
<1>2. PICK row : /\ Write(n, row)
                 /\ \/ row = None
                    \/ store[n] # None /\ row = Bump(store[n])
                    \/ row = Row(1, writes + 1, writes + 1)
  BY DEF OthersUpdate, OthersCreate, OthersDelete, CreateResource, DeleteResource
<1>3. NoLostUpdate' /\ SavedWhereItBelongs'
  BY <1>1 DEF EditorInv, NoLostUpdate, SavedWhereItBelongs
<1>4. UNCHANGED <<page, reads, cached, sends, overlapped, acted>> /\ sent' = sent
  BY <1>1 DEF counters
<1>5. sent' \subseteq Ops
  BY <1>4 DEF EditorInv, Typed
<1> QED
  BY <1>2, <1>3, <1>4, <1>5, WriteStepKeeps

(* The invariant holds of every initial state. *)
LEMMA EditorInvInit == EditorInit => EditorInv
<1> SUFFICES ASSUME NEW s \in Scopes, EditorInitOf(Names, Rows, s)
             PROVE  EditorInv
  BY DEF EditorInit
<1>1. PICK n \in Names :
        /\ page = [at |-> n, res |-> None, yaml |-> None, loading |-> TRUE, error |-> FALSE,
                   edit |-> FALSE, saving |-> FALSE, asks |-> FALSE, deleting |-> FALSE]
        /\ reads = [NothingCached EXCEPT ![n] = [answer |-> None]]
  BY DEF EditorInitOf
<1>2. /\ store \in [Names -> Rows] /\ cached = NothingCached /\ writes = 0 /\ sent = {}
      /\ sends = 0 /\ overlapped = FALSE /\ accepted = None /\ acted = None
  BY DEF EditorInitOf
<1>3. Row(1, 0, 0) \in AnyRow /\ Row(1, 0, 0).born = 0
  BY DEF Row, AnyRow
<1>4. Rows = {None, Row(1, 0, 0)}
  BY DEF Rows
<1>5. Typed
  <2>1. store \in [Names -> AnyRow \union {None}]
    BY <1>2, <1>3, <1>4
  <2>2. page \in Pages
    BY <1>1 DEF Pages
  <2>3. /\ cached \in [Names -> AnyRow \union {None}]
        /\ reads \in [Names -> [answer : AnyRow \union {Missing, None}] \union {None}]
    BY <1>1, <1>2 DEF NothingCached
  <2> QED
    BY <1>2, <2>1, <2>2, <2>3 DEF Typed
<1>6. Known
  <2>1. StoreKnown
    BY <1>2, <1>3, <1>4 DEF StoreKnown
  <2>2. PageKnown
    BY <1>1 DEF PageKnown
  <2>3. ReadsKnown
    BY <1>1 DEF ReadsKnown, NothingCached
  <2>4. CacheKnown /\ SentKnown
    BY <1>2 DEF CacheKnown, SentKnown, NothingCached
  <2> QED
    BY <2>1, <2>2, <2>3, <2>4 DEF Known
<1>7. Here
  BY <1>1, <1>2 DEF Here, Usable, NothingCached
<1> QED
  BY <1>2, <1>5, <1>6, <1>7 DEF EditorInv, NoLostUpdate, SavedWhereItBelongs, ActsOnWhatIsShown

(* Every step keeps the invariant. *)
LEMMA EditorInvStep == CopiesNamed /\ EditorInv /\ [EditorNext]_editorVars => EditorInv'
<1> SUFFICES ASSUME CopiesNamed, EditorInv, [EditorNext]_editorVars
             PROVE  EditorInv'
  OBVIOUS
<1>1. CASE \/ HandleEdit \/ HandleCancelEdit \/ AskDelete \/ DismissDelete
           \/ \E n \in Names : FailGet(n) \/ CacheExpires(n)
           \/ \E o \in sent : FailOp(o)
           \/ UNCHANGED editorVars
  BY <1>1, PageStepsKeep
<1>2. CASE \/ Reload \/ HandleSave \/ HandleDelete \/ HandleRun \/ HandleClone
           \/ \E n \in Names : Open(n)
  BY <1>2, UserStepsKeep
<1>3. CASE \E n \in Names : OthersUpdate(n) \/ OthersCreate(n) \/ OthersDelete(n)
  BY <1>3, OthersKeep
<1>4. CASE \E n \in Names : ServerGets(n) \/ AnswerGet(n)
  BY <1>4, ServerGetsKeeps, AnswerGetKeeps
<1>5. CASE \E o \in sent : ServerHandles(o) \/ AnswerOp(o)
  BY <1>5, ServerHandlesKeeps, AnswerOpKeeps
<1> QED
  BY <1>1, <1>2, <1>3, <1>4, <1>5 DEF EditorNext

(* The invariant holds in every reachable state. *)
LEMMA EditorInvAlways == CopiesNamed => (EditorSpec => []EditorInv)
<1> SUFFICES ASSUME CopiesNamed
             PROVE  EditorSpec => []EditorInv
  OBVIOUS
<1>1. EditorInv /\ [EditorNext]_editorVars => EditorInv'
  BY EditorInvStep
<1> QED
  BY <1>1, EditorInvInit, PTL DEF EditorSpec

(* An accepted save (update_resource after handleSave) replaces the body its  *)
(* author had loaded, whoever else writes, unless the row was deleted and     *)
(* created again in between.                                                  *)
THEOREM NoUpdateIsLost == CopiesNamed => (EditorSpec => []NoLostUpdate)
<1>1. EditorInv => NoLostUpdate
  BY DEF EditorInv
<1> QED
  BY <1>1, EditorInvAlways, PTL

(* The text a user saves goes to the resource it describes, wherever the URL *)
(* went since the text was loaded.                                           *)
THEOREM SavesWhereItBelongs == CopiesNamed => (EditorSpec => []SavedWhereItBelongs)
<1>1. EditorInv => SavedWhereItBelongs
  BY DEF EditorInv
<1> QED
  BY <1>1, EditorInvAlways, PTL

(* handleDelete and handleRun act on the resource the dialog names, unless the *)
(* URL changed while a request was in flight.                                  *)
THEOREM ActionsAreOnWhatIsShown == CopiesNamed => (EditorSpec => []ActsOnWhatIsShown)
<1>1. EditorInv => ActsOnWhatIsShown
  BY DEF EditorInv
<1> QED
  BY <1>1, EditorInvAlways, PTL

(***************************************************************************)
(* The types of what is counted.                                           *)
(***************************************************************************)
\* The rows that k writes can have made.
RowsBy(k) == {None} \union [version : 1..k + 1, body : 0..k, born : 0..k]

StoreCounted == writes \in 0..scope.writes /\ store \in [Names -> RowsBy(writes)]

\* A clone opens its copy when it is answered: a mutation in flight is a visit
\* that may come.
VisitsCounted ==
    /\ visited \in Nat \ {0} /\ sends \in 0..scope.sends /\ lost \in 0..scope.lost
    /\ IsFiniteSet(sent) /\ Cardinality(sent) <= sends
    /\ visited + Cardinality(sent) <= scope.visits + sends

Scoped == scope \in [writes : Nat, visits : Nat \ {0}, sends : Nat, lost : Nat]
Counted == Scoped /\ StoreCounted /\ VisitsCounted

(* At first nothing is counted but the page that is open. *)
LEMMA CountedInit == EditorBounds /\ EditorInit => Counted
<1> SUFFICES ASSUME EditorBounds, NEW s \in Scopes, EditorInitOf(Names, Rows, s)
             PROVE  Counted
  BY DEF EditorInit
<1>1. /\ scope = s /\ store \in [Names -> Rows] /\ writes = 0 /\ sent = {}
      /\ visited = 1 /\ sends = 0 /\ lost = 0
  BY DEF EditorInitOf
<1>2. Scoped
  BY <1>1 DEF EditorBounds, Scoped
<1>3. Rows \subseteq RowsBy(0)
  BY DEF Rows, Row, RowsBy
<1>4. StoreCounted
  BY <1>1, <1>2, <1>3 DEF StoreCounted, Scoped
<1>5. IsFiniteSet(sent) /\ Cardinality(sent) = 0
  BY <1>1, FS_EmptySet
<1> QED
  BY <1>1, <1>2, <1>4, <1>5 DEF VisitsCounted, Counted, Scoped

(* A write makes a row that one more write can have made. *)
LEMMA WriteCounts ==
    ASSUME Scoped, StoreCounted, NEW m \in Names, NEW row, Write(m, row), scope' = scope,
           \/ row = None
           \/ store[m] # None /\ row = Bump(store[m])
           \/ row = Row(1, writes + 1, writes + 1)
    PROVE  StoreCounted'
<1>1. /\ writes' = writes + 1 /\ store' = [store EXCEPT ![m] = row]
      /\ writes \in Nat /\ scope.writes \in Nat /\ writes + 1 <= scope.writes
  BY DEF Write, StoreCounted, Scoped
<1>2. RowsBy(writes) \subseteq RowsBy(writes + 1)
  BY <1>1 DEF RowsBy
<1>3. row \in RowsBy(writes + 1)
  <2>1. CASE store[m] # None /\ row = Bump(store[m])
    <3>1. store[m] \in [version : 1..writes + 1, body : 0..writes, born : 0..writes]
      BY <2>1 DEF StoreCounted, RowsBy
    <3> QED
      BY <1>1, <2>1, <3>1 DEF Bump, Row, RowsBy
  <2>2. CASE row = Row(1, writes + 1, writes + 1)
    BY <1>1, <2>2 DEF Row, RowsBy
  <2>3. CASE row = None
    BY <2>3 DEF RowsBy
  <2> QED
    BY <2>1, <2>2, <2>3
<1>4. store' \in [Names -> RowsBy(writes + 1)]
  BY <1>1, <1>2, <1>3 DEF StoreCounted
<1> QED
  BY <1>1, <1>4 DEF StoreCounted

(* A mutation that is sent is counted. *)
LEMMA SendCounts ==
    ASSUME Scoped, VisitsCounted, NEW op, SendOp(op), scope' = scope
    PROVE  VisitsCounted'
<1>1. /\ sends < scope.sends /\ sends' = sends + 1 /\ sent' = sent \union {op}
      /\ visited' = visited /\ lost' = lost
  BY DEF SendOp
<1>2. IsFiniteSet(sent') /\ Cardinality(sent') \in {Cardinality(sent), Cardinality(sent) + 1}
  BY <1>1, FS_AddElement DEF VisitsCounted
<1>3. Cardinality(sent) \in Nat
  BY FS_CardinalityType DEF VisitsCounted
<1> QED
  BY <1>1, <1>2, <1>3 DEF VisitsCounted, Scoped

(* A mutation that is handled is still one, and one that is answered may *)
(* have opened a page.                                                   *)
LEMMA AnswerCounts ==
    ASSUME Scoped, VisitsCounted, NEW o \in sent, scope' = scope, sends' = sends,
           lost' \in 0..scope.lost,
           \/ sent' = sent \ {o} /\ visited' \in {visited, visited + 1}
           \/ \E p : sent' = (sent \ {o}) \union {p} /\ visited' = visited
    PROVE  VisitsCounted'
<1>1. /\ IsFiniteSet(sent \ {o}) /\ Cardinality(sent \ {o}) = Cardinality(sent) - 1
      /\ Cardinality(sent) \in Nat
  BY FS_RemoveElement, FS_CardinalityType DEF VisitsCounted
<1>2. CASE sent' = sent \ {o} /\ visited' \in {visited, visited + 1}
  BY <1>1, <1>2 DEF VisitsCounted, Scoped
<1>3. ASSUME NEW p, sent' = (sent \ {o}) \union {p}, visited' = visited
      PROVE  VisitsCounted'
  <2>1. /\ IsFiniteSet(sent')
        /\ Cardinality(sent') \in {Cardinality(sent) - 1, Cardinality(sent)}
    BY <1>1, <1>3, FS_AddElement
  <2> QED
    BY <1>1, <1>3, <2>1 DEF VisitsCounted, Scoped
<1> QED
  BY <1>2, <1>3

(* A step of the server counts what it writes. *)
LEMMA ServerCounts ==
    ASSUME EditorInv, Counted, NEW o \in sent, ServerHandles(o)
    PROVE  Counted'
<1>1. /\ UNCHANGED <<visited, sends, lost, overlapped, scope>>
      /\ \E p : sent' = (sent \ {o}) \union {p}
  BY DEF ServerHandles, UpdateResource, Refuse, Done, counters
<1>2. o.url \in Names
  BY DEF EditorInv, Typed, Ops
<1>3. StoreCounted'
  <2>1. \/ UNCHANGED <<store, writes>>
        \/ \E row : /\ Write(o.url, row)
                    /\ \/ row = None
                       \/ store[o.url] # None /\ row = Bump(store[o.url])
                       \/ row = Row(1, writes + 1, writes + 1)
    BY DEF ServerHandles, UpdateResource, Refuse, CreateResource, DeleteResource
  <2> QED
    BY <1>1, <1>2, <2>1, WriteCounts DEF Counted, StoreCounted
<1>4. lost' \in 0..scope.lost
  BY <1>1 DEF Counted, VisitsCounted
<1>5. VisitsCounted'
  BY <1>1, <1>4, AnswerCounts DEF Counted
<1> QED
  BY <1>1, <1>3, <1>5 DEF Counted, Scoped

(* Every step keeps the counts. *)
LEMMA CountedStep == EditorInv /\ Counted /\ [EditorNext]_editorVars => Counted'
<1> SUFFICES ASSUME EditorInv, Counted, [EditorNext]_editorVars
             PROVE  Counted'
  OBVIOUS
<1>0. Scoped /\ StoreCounted /\ VisitsCounted
  BY DEF Counted
<1>1. ASSUME UNCHANGED <<store, writes, scope, visited, sends, lost, sent>>
      PROVE  Counted'
  BY <1>0, <1>1 DEF Counted, Scoped, StoreCounted, VisitsCounted
<1>2. CASE \/ Reload \/ HandleEdit \/ HandleCancelEdit \/ AskDelete \/ DismissDelete
           \/ \E n \in Names : ServerGets(n) \/ AnswerGet(n) \/ CacheExpires(n)
           \/ UNCHANGED editorVars
  BY <1>1, <1>2 DEF Reload, HandleEdit, HandleCancelEdit, AskDelete, DismissDelete, ServerGets,
       AnswerGet, CacheExpires, server, counters, editorVars
<1>3. CASE HandleSave \/ HandleDelete \/ HandleRun \/ HandleClone
  <2>1. PICK op : SendOp(op)
    BY <1>3 DEF HandleSave, HandleDelete, HandleRun, HandleClone
  <2>2. UNCHANGED <<store, writes, scope>>
    BY <2>1 DEF SendOp, server
  <2> QED
    BY <1>0, <2>1, <2>2, SendCounts DEF Counted, Scoped, StoreCounted
<1>4. ASSUME NEW n \in Names, Open(n)
      PROVE  Counted'
  <2>1. /\ visited < scope.visits /\ visited' = visited + 1
        /\ UNCHANGED <<store, writes, scope, sends, lost, sent>>
    BY <1>4 DEF Open, server
  <2>2. Cardinality(sent) \in Nat
    BY <1>0, FS_CardinalityType DEF VisitsCounted
  <2>3. VisitsCounted'
    BY <1>0, <2>1, <2>2 DEF VisitsCounted, Scoped
  <2> QED
    BY <1>0, <2>1, <2>3 DEF Counted, Scoped, StoreCounted
<1>5. ASSUME NEW n \in Names, FailGet(n)
      PROVE  Counted'
  <2>1. /\ lost < scope.lost /\ lost' = lost + 1
        /\ UNCHANGED <<store, writes, scope, visited, sends, sent>>
    BY <1>5 DEF FailGet, server
  <2>2. VisitsCounted'
    BY <1>0, <2>1 DEF VisitsCounted, Scoped
  <2> QED
    BY <1>0, <2>1, <2>2 DEF Counted, Scoped, StoreCounted
<1>6. ASSUME NEW n \in Names, OthersUpdate(n) \/ OthersCreate(n) \/ OthersDelete(n)
      PROVE  Counted'
  <2>1. UNCHANGED <<scope, visited, sends, lost, sent>>
    BY <1>6 DEF OthersUpdate, OthersCreate, OthersDelete, counters
  <2>2. \E row : /\ Write(n, row)
                /\ \/ row = None
                   \/ store[n] # None /\ row = Bump(store[n])
                   \/ row = Row(1, writes + 1, writes + 1)
    BY <1>6 DEF OthersUpdate, OthersCreate, OthersDelete, CreateResource, DeleteResource
  <2>3. StoreCounted'
    BY <1>0, <2>1, <2>2, WriteCounts
  <2> QED
    BY <1>0, <2>1, <2>3 DEF Counted, Scoped, VisitsCounted
<1>7. ASSUME NEW o \in sent, AnswerOp(o)
      PROVE  Counted'
  <2>1. /\ UNCHANGED <<store, writes, scope, sends, lost>> /\ sent' = sent \ {o}
        /\ visited' \in {visited, visited + 1}
    BY <1>7 DEF AnswerOp, Succeeds, server
  <2>2. VisitsCounted'
    <3>1. lost' \in 0..scope.lost
      BY <1>0, <2>1 DEF VisitsCounted
    <3> QED
      BY <1>0, <2>1, <3>1, AnswerCounts
  <2> QED
    BY <1>0, <2>1, <2>2 DEF Counted, Scoped, StoreCounted
<1>8. ASSUME NEW o \in sent, FailOp(o)
      PROVE  Counted'
  <2>1. /\ UNCHANGED <<store, writes, scope, visited, sends>> /\ sent' = sent \ {o}
        /\ lost < scope.lost /\ lost' = lost + 1
    BY <1>8 DEF FailOp, server
  <2>2. lost' \in 0..scope.lost
    BY <1>0, <2>1 DEF VisitsCounted, Scoped
  <2>3. VisitsCounted'
    BY <1>0, <2>1, <2>2, AnswerCounts
  <2> QED
    BY <1>0, <2>1, <2>3 DEF Counted, Scoped, StoreCounted
<1> QED
  BY <1>2, <1>3, <1>4, <1>5, <1>6, <1>7, <1>8, ServerCounts DEF EditorNext

(* What the counts say of the types. *)
LEMMA CountedTypes == EditorInv /\ Counted => EditorTypeOK
<1> SUFFICES ASSUME EditorInv, Counted
             PROVE  EditorTypeOK
  OBVIOUS
<1>1. RowsBy(writes) \subseteq {None} \union
         [version : 1..scope.writes + 1, body : 0..scope.writes, born : 0..scope.writes]
  BY DEF Counted, Scoped, StoreCounted, RowsBy
<1>2. store \in [Names -> {None} \union
         [version : 1..scope.writes + 1, body : 0..scope.writes, born : 0..scope.writes]]
  BY <1>1 DEF Counted, StoreCounted
<1>3. page.at \in Names \union {None} /\ page.yaml \in Names \union {None}
  BY DEF EditorInv, Typed, Pages
<1>4. Cardinality(sent) \in Nat
  BY FS_CardinalityType DEF Counted, VisitsCounted
<1>5. visited \in 1..scope.visits + scope.sends
  BY <1>4 DEF Counted, Scoped, VisitsCounted
<1> QED
  BY <1>2, <1>3, <1>5 DEF EditorTypeOK, Counted, StoreCounted, VisitsCounted

(* The variables of the page and of the endpoints keep their types: versions *)
(* count the writes, and no more pages are visited than opened and cloned.   *)
THEOREM EditorTypeCorrect == CopiesNamed /\ EditorBounds => (EditorSpec => []EditorTypeOK)
BY CountedTypes, CountedInit, CountedStep, EditorInvAlways, PTL DEF EditorSpec
=============================================================================
