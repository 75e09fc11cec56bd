--------------------------- MODULE ResourceEditor ---------------------------
(***************************************************************************)
(* The page of one resource (pages/ResourceDetail.tsx) over the endpoints  *)
(* it uses, which other clients use too: loading, editing as YAML with an  *)
(* optimistic lock, deleting, cloning and running.  A link from a resource *)
(* to another, or the back button, changes the URL under the page, which   *)
(* is not mounted again: its state and the requests in flight stay.        *)
(*                                                                         *)
(* A body is the moment of the write that made it.  "born" is the moment a *)
(* row was created: the id of the row, which no client compares.           *)
(***************************************************************************)
EXTENDS Integers, FiniteSets

CONSTANTS
    Names,       \* resources of one kind
    CopyOf,      \* the name a clone is given, None when not among Names
    None,        \* stands for null
    Scopes       \* the bounds checked (ScopeOf)

\* A copy that is not followed has no name here.
CopiesNamed == CopyOf \in [Names -> Names \union {None}]

\* Bounds: writes on the server, resources opened, mutations sent by the
\* page, requests that fail in transit.
ScopeOf(nwrites, nvisits, nsends, nlost) ==
    [writes |-> nwrites, visits |-> nvisits, sends |-> nsends, lost |-> nlost]

\* The bounds are numbers, and a page is opened.
EditorBounds == Scopes \subseteq [writes : Nat, visits : Nat \ {0}, sends : Nat, lost : Nat]

VARIABLES
    store,       \* the rows: None or version, body and birth
    writes,      \* writes so far, the clock of the model
    page,        \* the state of the page, and the URL it is shown for
    reads,       \* inflightGets: None, or the answer once the server gave it
    cached,      \* getCache
    sent,        \* mutations in flight
    visited, sends, lost,
    overlapped,  \* the URL changed while a request was in flight
    accepted,    \* the last PUT the server accepted, and what it replaced
    acted,       \* the last delete or run confirmed, and what was on display
    scope        \* the bounds, fixed at the start

editorVars == <<store, writes, page, reads, cached, sent, visited, sends, lost, overlapped, accepted, acted, scope>>

Row(version, body, born) == [version |-> version, body |-> body, born |-> born]
Missing == [version |-> 0, body |-> 0, born |-> 0]   \* the answer 404
Held == [n \in Names |-> IF store[n] = None THEN Missing ELSE store[n]]
NothingCached == [n \in Names |-> None]

(***************************************************************************)
(* Loading.                                                                *)
(***************************************************************************)
\* setResource and setYamlContent: what is displayed and what is edited.
Display(p, n, row) == [p EXCEPT !.res = [name |-> n, row |-> row], !.yaml = n]

\* The end of a load: a 404 shows the error view.
Loaded(p, n, row) ==
    IF row = Missing THEN [p EXCEPT !.error = TRUE, !.loading = FALSE]
    ELSE [Display(p, n, row) EXCEPT !.loading = FALSE]

\* loadResource: from the cache at once, or by a request already in flight.
LoadResource(p, n) ==
    LET q == [p EXCEPT !.at = n, !.loading = TRUE, !.error = FALSE]
    IN  IF cached[n] # None THEN page' = Loaded(q, n, cached[n]) /\ UNCHANGED reads
        ELSE /\ page' = q
             /\ reads' = [reads EXCEPT ![n] = IF @ = None THEN [answer |-> None] ELSE @]

Busy == sent # {} \/ \E n \in Names : reads[n] # None

EditorInitOf(names, rows, s) ==
    /\ scope = s
    /\ store \in [Names -> rows]
    /\ \E n \in names :
         /\ page = [at |-> n, res |-> None, yaml |-> None, loading |-> TRUE, error |-> FALSE,
                    edit |-> FALSE, saving |-> FALSE, asks |-> FALSE, deleting |-> FALSE]
         /\ reads = [NothingCached EXCEPT ![n] = [answer |-> None]]
    /\ cached = NothingCached
    /\ writes = 0 /\ sent = {} /\ visited = 1 /\ sends = 0 /\ lost = 0
    /\ overlapped = FALSE /\ accepted = None /\ acted = None

server == <<store, writes, accepted>>
counters == <<visited, sends, lost, overlapped>>

\* The URL changes and the effect loads.
Open(n) ==
    /\ page.at \notin {n, None} /\ visited < scope.visits
    /\ visited' = visited + 1
    /\ overlapped' = (overlapped \/ Busy)
    /\ LoadResource(page, n)
    /\ UNCHANGED <<server, cached, sent, sends, lost, acted, scope>>

\* The Retry of the error view.
Reload ==
    /\ page.at # None /\ ~page.loading /\ (page.error \/ page.res = None)
    /\ LoadResource(page, page.at)
    /\ UNCHANGED <<server, cached, sent, counters, acted, scope>>

ServerGets(n) ==
    /\ reads[n] # None /\ reads[n].answer = None
    /\ reads' = [reads EXCEPT ![n].answer = Held[n]]
    /\ UNCHANGED <<server, page, cached, sent, counters, acted, scope>>

\* Only the answer of a row is cached.  It is not asked whose page it is.
AnswerGet(n) ==
    /\ reads[n] # None /\ reads[n].answer # None
    /\ page' = IF page.at = None THEN page ELSE Loaded(page, n, reads[n].answer)
    /\ cached' = IF reads[n].answer = Missing THEN cached
                 ELSE [cached EXCEPT ![n] = reads[n].answer]
    /\ reads' = [reads EXCEPT ![n] = None]
    /\ UNCHANGED <<server, sent, counters, acted, scope>>

FailGet(n) ==
    /\ reads[n] # None /\ lost < scope.lost
    /\ lost' = lost + 1
    /\ page' = [page EXCEPT !.error = TRUE, !.loading = FALSE]
    /\ reads' = [reads EXCEPT ![n] = None]
    /\ UNCHANGED <<server, cached, sent, visited, sends, overlapped, acted, scope>>

CacheExpires(n) ==
    /\ cached[n] # None
    /\ cached' = [cached EXCEPT ![n] = None]
    /\ UNCHANGED <<server, page, reads, sent, counters, acted, scope>>

(***************************************************************************)
(* What the page offers.  While it loads, or after an error, nothing but   *)
(* the shortcut of the editor is there to be used.                         *)
(***************************************************************************)
\* Mutant: the page shows the resource it has while it loads the next one.
Usable_WhileLoading == page.at # None /\ page.res # None

\* The page shows the spinner, the error view, or the resource.
Usable == page.at # None /\ ~page.loading /\ ~page.error /\ page.res # None

HandleEdit ==
    /\ Usable /\ ~page.edit
    /\ page' = [page EXCEPT !.edit = TRUE, !.yaml = page.res.name]
    /\ UNCHANGED <<server, reads, cached, sent, counters, acted, scope>>

HandleCancelEdit ==
    /\ Usable /\ page.edit
    /\ page' = [page EXCEPT !.edit = FALSE, !.yaml = page.res.name]
    /\ UNCHANGED <<server, reads, cached, sent, counters, acted, scope>>

\* A mutation drops the cached answers of the kind before it is sent.
SendOp(op) ==
    /\ sends < scope.sends /\ sends' = sends + 1
    /\ sent' = sent \union {op}
    /\ cached' = NothingCached
    /\ UNCHANGED <<server, reads, visited, lost, overlapped, scope>>

Op(kind, url, from) == [kind |-> kind, url |-> url, from |-> from, yaml |-> page.yaml,
                        n |-> sends, done |-> None]

\* handleSave: the button waits for the save in flight, the shortcut does
\* not, and is there while the page loads or shows an error.
HandleSave ==
    /\ page.at # None /\ page.edit /\ page.res # None
    /\ SendOp(Op("put", page.at, page.res))
    /\ page' = [page EXCEPT !.saving = TRUE]
    /\ UNCHANGED acted

AskDelete ==
    /\ Usable /\ ~page.edit /\ ~page.asks
    /\ page' = [page EXCEPT !.asks = TRUE]
    /\ UNCHANGED <<server, reads, cached, sent, counters, acted, scope>>

DismissDelete ==
    /\ Usable /\ page.asks
    /\ page' = [page EXCEPT !.asks = FALSE]
    /\ UNCHANGED <<server, reads, cached, sent, counters, acted, scope>>

\* handleDelete and handleRun take the name of the URL; the dialogs show the
\* name of the resource.
HandleDelete ==
    /\ Usable /\ page.asks /\ ~page.deleting
    /\ SendOp(Op("delete", page.at, page.res))
    /\ page' = [page EXCEPT !.deleting = TRUE]
    /\ acted' = [url |-> page.at, shown |-> page.res.name, overlapped |-> overlapped]

HandleRun ==
    /\ Usable /\ ~page.edit /\ ~page.asks
    /\ SendOp(Op("run", page.at, page.res))
    /\ acted' = [url |-> page.at, shown |-> page.res.name, overlapped |-> overlapped]
    /\ UNCHANGED page

HandleClone ==
    /\ Usable /\ ~page.edit /\ ~page.asks /\ CopyOf[page.res.name] # None
    /\ SendOp(Op("clone", CopyOf[page.res.name], page.res))
    /\ UNCHANGED <<page, acted>>

(***************************************************************************)
(* The endpoints.                                                          *)
(***************************************************************************)
Write(n, row) ==
    /\ writes < scope.writes /\ writes' = writes + 1
    /\ store' = [store EXCEPT ![n] = row]

Done(o, ok, row) == sent' = (sent \ {o}) \union {[o EXCEPT !.done = [ok |-> ok, row |-> row]]}
Refuse(o) == Done(o, FALSE, None) /\ UNCHANGED <<store, writes, accepted>>

Bump(row) == Row(row.version + 1, writes + 1, row.born)

\* Mutant: the version is not compared.
UpdateResource_AnyVersion(o) ==
    IF o.yaml # o.url \/ store[o.url] = None THEN Refuse(o)
    ELSE /\ Write(o.url, Bump(store[o.url]))
         /\ accepted' = [url |-> o.url, text |-> o.yaml, base |-> o.from.row,
                         replaced |-> store[o.url]]
         /\ Done(o, TRUE, Bump(store[o.url]))

\* Mutant: the name in the body is not compared.
UpdateResource_AnyName(o) ==
    IF store[o.url] = None \/ store[o.url].version # o.from.row.version
    THEN Refuse(o)
    ELSE /\ Write(o.url, Bump(store[o.url]))
         /\ accepted' = [url |-> o.url, text |-> o.yaml, base |-> o.from.row,
                         replaced |-> store[o.url]]
         /\ Done(o, TRUE, Bump(store[o.url]))

\* update_resource: the name in the body must be that of the URL, and the
\* version that of the row.
UpdateResource(o) ==
    IF o.yaml # o.url \/ store[o.url] = None \/ store[o.url].version # o.from.row.version
    THEN Refuse(o)
    ELSE /\ Write(o.url, Bump(store[o.url]))
         /\ accepted' = [url |-> o.url, text |-> o.yaml, base |-> o.from.row,
                         replaced |-> store[o.url]]
         /\ Done(o, TRUE, Bump(store[o.url]))

\* create_resource: a resource of that name is updated, whatever its version.
CreateResource(n) ==
    Write(n, IF store[n] = None THEN Row(1, writes + 1, writes + 1) ELSE Bump(store[n]))

\* delete_resource: deleting nothing succeeds too.
DeleteResource(n) ==
    IF store[n] = None THEN UNCHANGED <<store, writes>> ELSE Write(n, None)

ServerHandles(o) ==
    /\ o \in sent /\ o.done = None
    /\ \/ o.kind = "put" /\ UpdateResource(o)
       \/ o.kind = "clone" /\ CreateResource(o.url) /\ Done(o, TRUE, None) /\ UNCHANGED accepted
       \/ o.kind = "delete" /\ DeleteResource(o.url) /\ Done(o, TRUE, None) /\ UNCHANGED accepted
       \/ o.kind = "run" /\ Done(o, store[o.url] # None, None)
          /\ UNCHANGED <<store, writes, accepted>>
    /\ UNCHANGED <<page, reads, cached, counters, acted, scope>>

\* Another client, with the page or with the API.
OthersUpdate(n) ==
    /\ store[n] # None /\ Write(n, Bump(store[n]))
    /\ UNCHANGED <<accepted, page, reads, cached, sent, counters, acted, scope>>

OthersCreate(n) ==
    /\ store[n] = None /\ CreateResource(n)
    /\ UNCHANGED <<accepted, page, reads, cached, sent, counters, acted, scope>>

OthersDelete(n) ==
    /\ store[n] # None /\ DeleteResource(n)
    /\ UNCHANGED <<accepted, page, reads, cached, sent, counters, acted, scope>>

(***************************************************************************)
(* Answers of mutations, for the page as it is by then.                    *)
(***************************************************************************)
Succeeds(o) ==
    CASE o.kind = "put" /\ page.at # None ->
           page' = [Display(page, o.url, o.done.row) EXCEPT !.edit = FALSE, !.saving = FALSE]
           /\ UNCHANGED <<reads, visited, overlapped>>
      [] o.kind = "clone" /\ page.at \notin {None, o.url} ->
           /\ LoadResource(page, o.url)
           /\ visited' = visited + 1
           /\ overlapped' = (overlapped \/ sent # {o} \/ \E n \in Names : reads[n] # None)
      [] o.kind \in {"delete", "run"} ->      \* to the list, or to the execution
           page' = [page EXCEPT !.at = None, !.deleting = FALSE]
           /\ UNCHANGED <<reads, visited, overlapped>>
      [] OTHER -> UNCHANGED <<page, reads, visited, overlapped>>

Fails(o) ==
    page' = CASE o.kind = "put" -> [page EXCEPT !.saving = FALSE]
              [] o.kind = "delete" -> [page EXCEPT !.asks = FALSE, !.deleting = FALSE]
              [] OTHER -> page

AnswerOp(o) ==
    /\ o \in sent /\ o.done # None
    /\ sent' = sent \ {o}
    /\ IF o.done.ok THEN Succeeds(o)
       ELSE Fails(o) /\ UNCHANGED <<reads, visited, overlapped>>
    /\ UNCHANGED <<server, cached, sends, lost, acted, scope>>

\* Refused before it is handled (rate limit, permission), or its answer lost.
FailOp(o) ==
    /\ o \in sent /\ lost < scope.lost
    /\ lost' = lost + 1
    /\ sent' = sent \ {o}
    /\ Fails(o)
    /\ UNCHANGED <<server, reads, cached, visited, sends, overlapped, acted, scope>>

EditorNext ==
    \/ Reload \/ HandleEdit \/ HandleCancelEdit \/ HandleSave \/ AskDelete \/ DismissDelete
    \/ HandleDelete \/ HandleRun \/ HandleClone
    \/ \E n \in Names : \/ Open(n) \/ ServerGets(n) \/ AnswerGet(n) \/ FailGet(n)
                        \/ CacheExpires(n) \/ OthersUpdate(n) \/ OthersCreate(n)
                        \/ OthersDelete(n)
    \/ \E o \in sent : ServerHandles(o) \/ AnswerOp(o) \/ FailOp(o)

Rows == {None, Row(1, 0, 0)}
EditorInit == \E s \in Scopes : EditorInitOf(Names, Rows, s)
EditorSpec == EditorInit /\ [][EditorNext]_editorVars

(***************************************************************************)
(* Properties.                                                             *)
(***************************************************************************)
EditorTypeOK ==
    /\ store \in [Names -> {None} \union
                    [version : 1..scope.writes + 1, body : 0..scope.writes, born : 0..scope.writes]]
    /\ page.at \in Names \union {None} /\ page.yaml \in Names \union {None}
    /\ writes \in 0..scope.writes /\ visited \in 1..scope.visits + scope.sends
    /\ sends \in 0..scope.sends /\ lost \in 0..scope.lost

\* An accepted save replaces the body its author had loaded, unless the row
\* was deleted and created again: the versions of the new row start at 1 too
\* (ResourceService.update compares versions, not ids).
NoLostUpdate ==
    accepted # None /\ accepted.replaced.born = accepted.base.born
      => accepted.replaced.body = accepted.base.body

\* The text a user saved goes to the resource it describes, wherever the URL
\* went since the text was loaded (the shortcut of handleSave takes the name
\* of the URL).
SavedWhereItBelongs == accepted # None => accepted.text = accepted.url

\* A delete or a run is carried out on the resource the dialog names, unless
\* the URL changed under a request in flight (handleDelete and handleRun take
\* the name of the URL, the dialogs that of the resource).
ActsOnWhatIsShown == acted # None => acted.url = acted.shown \/ acted.overlapped
=============================================================================
