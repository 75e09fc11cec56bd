--------------------------- MODULE ConsoleSession ---------------------------
(***************************************************************************)
(* The session of a browser tab (stores/authStore.ts, App.tsx): login,     *)
(* registration, logout, the refresh of an expired token, the user who is  *)
(* shown, the shared and cached GET of /auth/me (api/client.ts), and the   *)
(* localStorage it shares with the other tabs.  The client holds the same  *)
(* token as the store: both change together.                               *)
(***************************************************************************)
EXTENDS Integers, FiniteSets

CONSTANTS
    People,        \* users of the console
    None,          \* stands for null
    MaxTokens,     \* bound: access tokens issued
    MaxUpsets      \* bound: the page is loaded again, another tab acts, a request fails

\* What the proofs assume: null is neither a user nor a token.
SessionAssumption == None \notin People /\ None \notin [n : Nat, of : People]
\* The bounds are numbers.
SessionBounds == MaxUpsets \in Nat

VARIABLES
    auth,          \* the store: token, refreshToken, user, loading
    stored,        \* localStorage: token and refresh token
    issued, stale, \* access tokens issued, and those that have expired
    me, meCache,   \* GET /auth/me: the token it was sent with; its last answer
    calls,         \* fetchMe calls: waiting for the user, a refresh, the user again
    logins,        \* logins in flight
    seenToken,     \* the token the effect of App last ran with
    data,          \* requests of the pages in flight: the tokens they carry
    leaving,       \* location.href was set
    overlap,       \* the session changed under a fetchMe in flight
    upsets

sessionVars == <<auth, stored, issued, stale, me, meCache, calls, logins, seenToken, data,
                 leaving, overlap, upsets>>
tabOnly == <<calls, logins, seenToken, data, leaving, overlap>>
getVars == <<me, meCache>>
limits == <<issued, stale, upsets>>

Token(p) == [n |-> issued + 1, of |-> p]
NoSession == [token |-> None, refresh |-> None]
Issue == issued < MaxTokens /\ issued' = issued + 1
Upset == upsets < MaxUpsets /\ upsets' = upsets + 1

SessionInit ==
    /\ auth = [token |-> None, refresh |-> None, user |-> None, loading |-> FALSE]
    /\ stored = NoSession
    /\ issued = 0 /\ stale = {} /\ me = None /\ meCache = None /\ calls = {} /\ logins = {}
    /\ seenToken = None /\ data = {} /\ leaving = FALSE /\ overlap = FALSE
    /\ upsets = 0

LoggedOut(a) == [a EXCEPT !.token = None, !.refresh = None, !.user = None]

(***************************************************************************)
(* Login and Register: the forms are locked by the loading flag, which     *)
(* they share with fetchMe.                                                *)
(***************************************************************************)
CanSubmit == auth.token = None /\ ~auth.loading

\* Mutant: the cached user is kept, as the list of another collection is.
Login_KeepsCache(p) ==
    /\ CanSubmit /\ p \notin logins
    /\ auth' = [auth EXCEPT !.loading = TRUE]
    /\ logins' = logins \union {p}
    /\ UNCHANGED <<stored, calls, seenToken, data, leaving, overlap, getVars, limits>>

\* A POST drops the cached answers under /api/v1/auth before it is sent.
Login(p) ==
    /\ CanSubmit /\ p \notin logins
    /\ auth' = [auth EXCEPT !.loading = TRUE]
    /\ meCache' = None
    /\ logins' = logins \union {p}
    /\ UNCHANGED <<stored, me, calls, seenToken, data, leaving, overlap, limits>>

\* applyAuthResult.
LoginAnswer(p) ==
    /\ p \in logins /\ Issue
    /\ auth' = [token |-> Token(p), refresh |-> p, user |-> p, loading |-> FALSE]
    /\ stored' = [token |-> Token(p), refresh |-> p]
    /\ logins' = logins \ {p}
    /\ overlap' = (overlap \/ calls # {})
    /\ UNCHANGED <<getVars, calls, seenToken, data, leaving, stale, upsets>>

LoginFails(p) ==
    /\ p \in logins /\ Upset
    /\ auth' = [auth EXCEPT !.loading = FALSE]
    /\ logins' = logins \ {p}
    /\ UNCHANGED <<stored, getVars, calls, seenToken, data, leaving, overlap, issued, stale>>

(***************************************************************************)
(* The end of a session: the button of the sidebar, a request of a page    *)
(* that is refused, a refresh that fails, another tab.                     *)
(***************************************************************************)
EndSession ==
    /\ auth' = LoggedOut(auth)
    /\ stored' = NoSession

Logout ==
    /\ auth.user # None
    /\ EndSession
    /\ overlap' = (overlap \/ calls # {})
    /\ UNCHANGED <<getVars, calls, logins, seenToken, data, leaving, limits>>

TokenExpires(n) ==
    /\ n \in 1..issued /\ n \notin stale
    /\ stale' = stale \union {n}
    /\ UNCHANGED <<auth, stored, getVars, tabOnly, issued, upsets>>

\* A page is shown and asks for its data.
PageAsks ==
    /\ auth.token # None /\ auth.token.n \notin data
    /\ data' = data \union {auth.token.n}
    /\ UNCHANGED <<auth, stored, getVars, calls, logins, seenToken, leaving, overlap, limits>>

\* A 401 outside of /auth ends the session, whichever it was sent in, and
\* loads the login page; nothing is refreshed.
PageIsAnswered(n) ==
    /\ n \in data
    /\ data' = data \ {n}
    /\ IF n \in stale
       THEN EndSession /\ leaving' = TRUE /\ overlap' = (overlap \/ calls # {})
       ELSE UNCHANGED <<auth, stored, leaving, overlap>>
    /\ UNCHANGED <<getVars, calls, logins, seenToken, limits>>

\* The page is loaded: the token is that of localStorage, the requests of
\* the page that was there are gone.
PageLoads ==
    /\ IF leaving THEN UNCHANGED upsets ELSE Upset
    /\ auth' = [token |-> stored.token, refresh |-> stored.refresh, user |-> None,
                loading |-> FALSE]
    /\ me' = None /\ meCache' = None /\ calls' = {} /\ logins' = {} /\ seenToken' = None
    /\ data' = {} /\ leaving' = FALSE /\ overlap' = FALSE
    /\ UNCHANGED <<stored, issued, stale>>

\* Another tab signs in or out; this one does not notice.
OtherTab(p) ==
    /\ Upset
    /\ IF p = None THEN stored' = NoSession /\ UNCHANGED issued
       ELSE Issue /\ stored' = [token |-> Token(p), refresh |-> p]
    /\ UNCHANGED <<auth, getVars, tabOnly, stale>>

(***************************************************************************)
(* fetchMe, for each change of the token.                                  *)
(***************************************************************************)
Waiters == {c \in calls : c.step \in {"me", "again"}}
Moved(cs, step) == {[c EXCEPT !.step = step] : c \in cs}

\* api.get, in the session "a": the cached user at once, or a request that is
\* shared.
AskMe(a, c) ==
    IF meCache # None
    THEN /\ auth' = [a EXCEPT !.user = meCache, !.loading = FALSE]
         /\ calls' = {d \in calls : d.n # c.n}
         /\ UNCHANGED me
    ELSE /\ auth' = [a EXCEPT !.loading = (c.step = "me" \/ @)]
         /\ calls' = {d \in calls : d.n # c.n} \union {c}
         /\ me' = IF me = None THEN a.token ELSE me

\* The effect of App runs after a change of the token was rendered.
TokenEffect ==
    /\ seenToken # auth.token
    /\ seenToken' = auth.token
    /\ IF auth.token = None THEN UNCHANGED <<auth, calls, me>>
       ELSE AskMe(auth, [step |-> "me", n |-> auth.token.n, of |-> None])
    /\ UNCHANGED <<stored, meCache, logins, data, leaving, overlap, limits>>

\* The user of the token that was sent, shown to all who wait.
MeAnswer ==
    /\ me # None /\ me.n \notin stale
    /\ auth' = [auth EXCEPT !.user = me.of, !.loading = FALSE]
    /\ meCache' = me.of /\ me' = None
    /\ calls' = calls \ Waiters
    /\ UNCHANGED <<stored, logins, seenToken, data, leaving, overlap, limits>>

\* 401: those who ask for the first time refresh, with the refresh token
\* there is now; without one the session is over.
MeExpired ==
    /\ me # None /\ me.n \in stale
    /\ me' = None
    /\ LET first == {c \in Waiters : c.step = "me"}
       IN  IF auth.refresh = None
           THEN /\ calls' = calls \ Waiters
                /\ stored' = IF first = {} THEN stored ELSE NoSession
                /\ auth' = [(IF first = {} THEN auth ELSE LoggedOut(auth))
                            EXCEPT !.loading = FALSE]
                /\ UNCHANGED meCache
           ELSE /\ calls' = (calls \ Waiters)
                              \union {[c EXCEPT !.step = "refresh", !.of = auth.refresh] : c \in first}
                /\ auth' = [auth EXCEPT !.loading = (@ /\ Waiters = first)]
                /\ meCache' = IF first = {} THEN meCache ELSE None
                /\ UNCHANGED stored
    /\ UNCHANGED <<logins, seenToken, data, leaving, overlap, limits>>

\* Another failure: the user is not known.
MeFails ==
    /\ me # None /\ Upset
    /\ me' = None /\ calls' = calls \ Waiters
    /\ auth' = [auth EXCEPT !.loading = FALSE]
    /\ UNCHANGED <<stored, meCache, logins, seenToken, data, leaving, overlap, issued, stale>>

\* The new token replaces whatever token there is, and the user is asked for
\* again.
RefreshAnswer(c) ==
    /\ c \in calls /\ c.step = "refresh" /\ Issue
    /\ stored' = [token |-> Token(c.of), refresh |-> c.of]
    /\ AskMe([auth EXCEPT !.token = Token(c.of), !.refresh = c.of], [c EXCEPT !.step = "again"])
    /\ UNCHANGED <<meCache, logins, seenToken, data, leaving, overlap, stale, upsets>>

\* A refresh that fails ends the session.
RefreshFails(c) ==
    /\ c \in calls /\ c.step = "refresh" /\ Upset
    /\ stored' = NoSession
    /\ auth' = [LoggedOut(auth) EXCEPT !.loading = FALSE]
    /\ calls' = calls \ {c}
    /\ overlap' = (overlap \/ calls # {c})
    /\ UNCHANGED <<getVars, logins, seenToken, data, leaving, issued, stale>>

SessionNext ==
    \/ \E p \in People : Login(p) \/ LoginAnswer(p) \/ LoginFails(p)
    \/ \E p \in People \union {None} : OtherTab(p)
    \/ \E n \in 1..issued : TokenExpires(n) \/ PageIsAnswered(n)
    \/ \E c \in calls : RefreshAnswer(c) \/ RefreshFails(c)
    \/ Logout \/ PageAsks \/ PageLoads \/ TokenEffect \/ MeAnswer \/ MeExpired \/ MeFails

SessionSpec == SessionInit /\ [][SessionNext]_sessionVars

(***************************************************************************)
(* Properties.                                                             *)
(***************************************************************************)
SessionTypeOK ==
    /\ auth.user \in People \union {None} /\ auth.refresh \in People \union {None}
    /\ meCache \in People \union {None} /\ logins \subseteq People
    /\ stale \subseteq 1..issued /\ data \subseteq 1..issued
    /\ upsets \in 0..MaxUpsets

\* Who is shown as signed in is who the requests are made for, after any
\* logins, logouts, refreshes and reloads, in this tab and in others: unless
\* the session changed under a call of fetchMe in flight (its answer is
\* applied, and cached, whatever the token is by then).
UserOfToken ==
    auth.user # None => overlap \/ (auth.token # None /\ auth.user = auth.token.of)
=============================================================================
