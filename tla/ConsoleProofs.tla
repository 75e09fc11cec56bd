---------------------------- MODULE ConsoleProofs ----------------------------
(***************************************************************************)
(* Proofs about the console that MCConsole checks: of its steps a part     *)
(* sees its own or none.  Four parts are proved about here, the session of *)
(* a tab, the SDK clients, the list pages and the chat; the page of an     *)
(* execution is in ConsolePageProofs; what is proved of the others in      *)
(* modules of their own is carried over, at the end, where the types of    *)
(* all parts come together.                                                *)
(***************************************************************************)
EXTENDS ConsolePageProofs, FiniteSetTheorems

(***************************************************************************)
(* The session (ConsoleSession).                                           *)
(***************************************************************************)
OneToken == [n : Nat, of : People]
Calls == [step : {"me", "refresh", "again"}, n : Nat, of : People \union {None}]

\* What the variables hold; tokens are numbered by their issue.
SessionTyped ==
    /\ issued \in Nat /\ overlap \in BOOLEAN
    /\ auth \in [token : OneToken \union {None}, refresh : People \union {None},
                 user : People \union {None}, loading : BOOLEAN]
    /\ stored \in [token : OneToken \union {None}, refresh : People \union {None}]
    /\ me \in OneToken \union {None} /\ meCache \in People \union {None}
    /\ calls \subseteq Calls /\ logins \subseteq People
    /\ \A c \in calls : c.step = "refresh" => c.of # None
    /\ auth.token # None => auth.token.n <= issued /\ auth.refresh = auth.token.of
    /\ stored.token # None => stored.token.n <= issued /\ stored.refresh = stored.token.of

\* A call of fetchMe is of a token whose effect ran, one for each; the GET
\* they share is in flight only if one of them waits for it.
CallsKeyed ==
    /\ \A c \in calls : c.n <= issued /\ (auth.token # seenToken /\ auth.token # None
                                            => c.n # auth.token.n)
    /\ \A c, d \in calls : c.n = d.n => c = d
    /\ me # None => \E c \in calls : c.step \in {"me", "again"}

\* As long as the session did not change under a call, all that knows a user
\* knows the one of the token: the store, the cache, the GET in flight and the
\* refreshes; and who logs in waits alone.
OneUser ==
    /\ auth.token = None => auth.user = None /\ calls = {}
    /\ auth.token # None =>
         /\ auth.user \in {None, auth.token.of} /\ meCache \in {None, auth.token.of}
         /\ me # None => me.of = auth.token.of
         /\ \A c \in calls : c.step = "refresh" => c.of = auth.token.of
    /\ logins # {} =>
         /\ auth.token = None /\ auth.loading /\ meCache = None
         /\ \A p, q \in logins : p = q

SessionInv == SessionTyped /\ CallsKeyed /\ (~overlap => OneUser)

LEMMA LoginStep ==
    ASSUME SessionInv, NEW p \in People, Session!Login(p)
    PROVE  SessionInv'
<1>1. SessionTyped'
  BY SessionAssumption DEF Session!SessionAssumption, SessionInv, SessionTyped, OneToken,
     Calls, Session!Login, Session!CanSubmit, Session!tabOnly, Session!getVars, Session!limits
<1>2. CallsKeyed'
  BY SessionAssumption DEF Session!SessionAssumption, SessionInv, SessionTyped, OneToken,
     Calls, CallsKeyed, Session!Login, Session!CanSubmit, Session!tabOnly, Session!getVars,
     Session!limits
<1>3. ~overlap' => OneUser'
  BY SessionAssumption DEF Session!SessionAssumption, SessionInv, SessionTyped, OneToken,
     Calls, CallsKeyed, OneUser, Session!Login, Session!CanSubmit, Session!tabOnly,
     Session!getVars, Session!limits
<1> QED
  BY <1>1, <1>2, <1>3 DEF SessionInv

LEMMA LoginAnswerStep ==
    ASSUME SessionInv, NEW p \in People, Session!LoginAnswer(p)
    PROVE  SessionInv'
<1> USE DEF SessionInv, SessionTyped
<1>1. SessionTyped'
  BY SessionAssumption DEF Session!SessionAssumption, SessionInv, SessionTyped, OneToken,
     Calls, Session!LoginAnswer, Session!Issue, Session!Token,
     Session!tabOnly, Session!getVars, Session!limits
<1>2. /\ calls' = calls /\ seenToken' = seenToken /\ me' = me /\ meCache' = meCache
      /\ auth'.token = [n |-> issued + 1, of |-> p] /\ auth'.user = p /\ issued' = issued + 1
      /\ logins' = logins \ {p} /\ p \in logins /\ overlap' = (overlap \/ calls # {})
  BY DEF Session!LoginAnswer, Session!Issue, Session!Token, Session!tabOnly,
     Session!getVars, Session!limits
<1>3. \A c \in calls : c.n \in Nat
  BY DEF Calls
<1>4. CallsKeyed'
  BY <1>2, <1>3 DEF CallsKeyed
<1>5. ~overlap' => OneUser'
  <2> SUFFICES ASSUME ~overlap'
               PROVE  OneUser'
    OBVIOUS
  <2>1. OneUser /\ calls = {}
    BY <1>2
  <2>2. me = None /\ logins' = {} /\ meCache = None
    BY <1>2, <2>1 DEF OneUser, CallsKeyed
  <2>3. auth'.token # None
    BY <1>2, SessionAssumption DEF Session!SessionAssumption
  <2>4. /\ auth'.user = auth'.token.of /\ meCache' = None /\ me' = None /\ calls' = {}
    BY <1>2, <2>1, <2>2
  <2> QED
    BY <2>2, <2>3, <2>4 DEF OneUser
<1> QED
  BY <1>1, <1>4, <1>5

LEMMA LoginFailsStep ==
    ASSUME SessionInv, NEW p \in People, Session!LoginFails(p)
    PROVE  SessionInv'
<1>1. SessionTyped'
  BY SessionAssumption DEF Session!SessionAssumption, SessionInv, SessionTyped, OneToken,
     Calls, Session!LoginFails, Session!Upset, Session!tabOnly, Session!getVars, Session!limits
<1>2. CallsKeyed'
  BY SessionAssumption DEF Session!SessionAssumption, SessionInv, SessionTyped, OneToken,
     Calls, CallsKeyed, Session!LoginFails, Session!Upset, Session!tabOnly, Session!getVars,
     Session!limits
<1>3. ~overlap' => OneUser'
  BY SessionAssumption DEF Session!SessionAssumption, SessionInv, SessionTyped, OneToken,
     Calls, CallsKeyed, OneUser, Session!LoginFails, Session!Upset, Session!tabOnly,
     Session!getVars, Session!limits
<1> QED
  BY <1>1, <1>2, <1>3 DEF SessionInv

LEMMA OtherTabStep ==
    ASSUME SessionInv, NEW p \in People \union {None}, Session!OtherTab(p)
    PROVE  SessionInv'
<1>1. SessionTyped'
  BY SessionAssumption DEF Session!SessionAssumption, SessionInv, SessionTyped, OneToken,
     Calls, Session!OtherTab, Session!Upset, Session!Issue, Session!Token, Session!NoSession,
     Session!tabOnly, Session!getVars, Session!limits
<1>2. CallsKeyed'
  BY SessionAssumption DEF Session!SessionAssumption, SessionInv, SessionTyped, OneToken,
     Calls, CallsKeyed, Session!OtherTab, Session!Upset, Session!Issue, Session!Token,
     Session!NoSession, Session!tabOnly, Session!getVars, Session!limits
<1>3. ~overlap' => OneUser'
  BY SessionAssumption DEF Session!SessionAssumption, SessionInv, SessionTyped, OneToken,
     Calls, CallsKeyed, OneUser, Session!OtherTab, Session!Upset, Session!Issue, Session!Token,
     Session!NoSession, Session!tabOnly, Session!getVars, Session!limits
<1> QED
  BY <1>1, <1>2, <1>3 DEF SessionInv

LEMMA TokenExpiresStep ==
    ASSUME SessionInv, NEW n, Session!TokenExpires(n)
    PROVE  SessionInv'
<1>1. SessionTyped'
  BY SessionAssumption DEF Session!SessionAssumption, SessionInv, SessionTyped, OneToken,
     Calls, Session!TokenExpires, Session!tabOnly, Session!getVars, Session!limits
<1>2. CallsKeyed'
  BY SessionAssumption DEF Session!SessionAssumption, SessionInv, SessionTyped, OneToken,
     Calls, CallsKeyed, Session!TokenExpires, Session!tabOnly, Session!getVars, Session!limits
<1>3. ~overlap' => OneUser'
  BY SessionAssumption DEF Session!SessionAssumption, SessionInv, SessionTyped, OneToken,
     Calls, CallsKeyed, OneUser, Session!TokenExpires, Session!tabOnly, Session!getVars,
     Session!limits
<1> QED
  BY <1>1, <1>2, <1>3 DEF SessionInv

LEMMA PageIsAnsweredStep ==
    ASSUME SessionInv, NEW n, Session!PageIsAnswered(n)
    PROVE  SessionInv'
<1>1. CASE n \in stale
  <2>1. /\ auth' = Session!LoggedOut(auth) /\ stored' = Session!NoSession
        /\ overlap' = (overlap \/ calls # {})
        /\ UNCHANGED <<me, meCache, calls, logins, seenToken, issued>>
    BY <1>1 DEF Session!PageIsAnswered, Session!EndSession, Session!getVars, Session!limits
  <2>2. SessionTyped'
    BY <2>1 DEF SessionInv, SessionTyped, OneToken, Calls, Session!LoggedOut, Session!NoSession
  <2>3. CallsKeyed' /\ (~overlap' => OneUser')
    BY <2>1 DEF SessionInv, SessionTyped, CallsKeyed, OneUser, Session!LoggedOut
  <2> QED
    BY <2>2, <2>3 DEF SessionInv
<1>2. CASE n \notin stale
  <2>1. UNCHANGED <<auth, stored, overlap, me, meCache, calls, logins, seenToken, issued>>
    BY <1>2 DEF Session!PageIsAnswered, Session!getVars, Session!limits
  <2> QED
    BY <2>1 DEF SessionInv, SessionTyped, CallsKeyed, OneUser
<1> QED
  BY <1>1, <1>2

LEMMA LogoutStep ==
    ASSUME SessionInv, Session!Logout
    PROVE  SessionInv'
<1>1. SessionTyped'
  BY SessionAssumption DEF Session!SessionAssumption, SessionInv, SessionTyped, OneToken,
     Calls, Session!Logout, Session!EndSession, Session!LoggedOut, Session!NoSession,
     Session!tabOnly, Session!getVars, Session!limits
<1>2. CallsKeyed'
  BY SessionAssumption DEF Session!SessionAssumption, SessionInv, SessionTyped, OneToken,
     Calls, CallsKeyed, Session!Logout, Session!EndSession, Session!LoggedOut,
     Session!NoSession, Session!tabOnly, Session!getVars, Session!limits
<1>3. ~overlap' => OneUser'
  BY SessionAssumption DEF Session!SessionAssumption, SessionInv, SessionTyped, OneToken,
     Calls, CallsKeyed, OneUser, Session!Logout, Session!EndSession, Session!LoggedOut,
     Session!NoSession, Session!tabOnly, Session!getVars, Session!limits
<1> QED
  BY <1>1, <1>2, <1>3 DEF SessionInv

LEMMA PageAsksStep ==
    ASSUME SessionInv, Session!PageAsks
    PROVE  SessionInv'
<1>1. SessionTyped'
  BY SessionAssumption DEF Session!SessionAssumption, SessionInv, SessionTyped, OneToken,
     Calls, Session!PageAsks, Session!tabOnly, Session!getVars, Session!limits
<1>2. CallsKeyed'
  BY SessionAssumption DEF Session!SessionAssumption, SessionInv, SessionTyped, OneToken,
     Calls, CallsKeyed, Session!PageAsks, Session!tabOnly, Session!getVars, Session!limits
<1>3. ~overlap' => OneUser'
  BY SessionAssumption DEF Session!SessionAssumption, SessionInv, SessionTyped, OneToken,
     Calls, CallsKeyed, OneUser, Session!PageAsks, Session!tabOnly, Session!getVars,
     Session!limits
<1> QED
  BY <1>1, <1>2, <1>3 DEF SessionInv

LEMMA PageLoadsStep ==
    ASSUME SessionInv, Session!PageLoads
    PROVE  SessionInv'
<1>1. SessionTyped'
  BY SessionAssumption DEF Session!SessionAssumption, SessionInv, SessionTyped, OneToken,
     Calls, Session!PageLoads, Session!Upset, Session!tabOnly, Session!getVars, Session!limits
<1>2. CallsKeyed'
  BY SessionAssumption DEF Session!SessionAssumption, SessionInv, SessionTyped, OneToken,
     Calls, CallsKeyed, Session!PageLoads, Session!Upset, Session!tabOnly, Session!getVars,
     Session!limits
<1>3. ~overlap' => OneUser'
  BY SessionAssumption DEF Session!SessionAssumption, SessionInv, SessionTyped, OneToken,
     Calls, CallsKeyed, OneUser, Session!PageLoads, Session!Upset, Session!tabOnly,
     Session!getVars, Session!limits
<1> QED
  BY <1>1, <1>2, <1>3 DEF SessionInv

LEMMA TokenEffectStep ==
    ASSUME SessionInv, Session!TokenEffect
    PROVE  SessionInv'
<1>1. /\ seenToken' = auth.token /\ seenToken # auth.token
      /\ UNCHANGED <<stored, meCache, logins, overlap, issued>>
  BY DEF Session!TokenEffect, Session!limits
<1>2. CASE auth.token = None
  <2>1. UNCHANGED <<auth, calls, me>>
    BY <1>2 DEF Session!TokenEffect
  <2> QED
    BY <1>1, <1>2, <2>1 DEF SessionInv, SessionTyped, CallsKeyed, OneUser
<1>3. CASE auth.token # None
  <2>1. PICK c \in Calls : c.step = "me" /\ c.n = auth.token.n /\ Session!AskMe(auth, c)
    <3> DEFINE r == [step |-> "me", n |-> auth.token.n, of |-> None]
    <3>1. r \in Calls
      BY <1>3 DEF SessionInv, SessionTyped, OneToken, Calls
    <3>2. r.step = "me" /\ r.n = auth.token.n /\ Session!AskMe(auth, r)
      BY <1>3 DEF Session!TokenEffect
    <3> QED
      BY <3>1, <3>2
  <2>2. \A d \in calls : d.n # c.n
    BY <1>1, <1>3, <2>1 DEF SessionInv, CallsKeyed
  <2>3. CASE meCache # None
    <3>1. auth' = [auth EXCEPT !.user = meCache, !.loading = FALSE] /\ calls' = calls /\ me' = me
      BY <2>1, <2>2, <2>3 DEF Session!AskMe
    <3>2. SessionTyped'
      BY <1>1, <3>1 DEF SessionInv, SessionTyped
    <3>3. auth'.token = auth.token /\ auth'.user = meCache
      BY <3>1 DEF SessionInv, SessionTyped
    <3>4. CallsKeyed'
      BY <1>1, <3>1, <3>3 DEF SessionInv, CallsKeyed
    <3>5. ~overlap' => OneUser'
      BY <1>1, <1>3, <2>3, <3>1, <3>3 DEF SessionInv, OneUser
    <3> QED
      BY <3>2, <3>4, <3>5 DEF SessionInv
  <2>4. CASE meCache = None
    <3>1. /\ auth' = [auth EXCEPT !.loading = TRUE] /\ calls' = calls \union {c}
          /\ me' = IF me = None THEN auth.token ELSE me
      BY <2>1, <2>2, <2>4 DEF Session!AskMe, SessionInv, SessionTyped
    <3>2. SessionTyped'
      BY <1>1, <1>3, <2>1, <3>1 DEF SessionInv, SessionTyped
    <3>3. auth'.token = auth.token /\ auth'.user = auth.user
      BY <3>1 DEF SessionInv, SessionTyped
    <3>4. CallsKeyed'
      <4>1. \A d \in calls' : d.n <= issued'
        BY <1>1, <1>3, <2>1, <3>1 DEF SessionInv, SessionTyped, CallsKeyed
      <4>2. \A d, e \in calls' : d.n = e.n => d = e
        BY <2>1, <2>2, <3>1 DEF SessionInv, CallsKeyed
      <4>3. \E d \in calls' : d.step \in {"me", "again"}
        BY <2>1, <3>1
      <4> QED
        BY <1>1, <3>3, <4>1, <4>2, <4>3 DEF CallsKeyed
    <3>5. ~overlap' => OneUser'
      BY <1>1, <1>3, <2>1, <2>4, <3>1, <3>3 DEF SessionInv, OneUser
    <3> QED
      BY <3>2, <3>4, <3>5 DEF SessionInv
  <2> QED
    BY <2>3, <2>4
<1> QED
  BY <1>2, <1>3

LEMMA MeAnswerStep ==
    ASSUME SessionInv, Session!MeAnswer
    PROVE  SessionInv'
<1>1. SessionTyped'
  BY SessionAssumption DEF Session!SessionAssumption, SessionInv, SessionTyped, OneToken,
     Calls, Session!MeAnswer, Session!Waiters, Session!tabOnly, Session!getVars, Session!limits
<1>2. CallsKeyed'
  BY SessionAssumption DEF Session!SessionAssumption, SessionInv, SessionTyped, OneToken,
     Calls, CallsKeyed, Session!MeAnswer, Session!Waiters, Session!tabOnly, Session!getVars,
     Session!limits
<1>3. ~overlap' => OneUser'
  BY SessionAssumption DEF Session!SessionAssumption, SessionInv, SessionTyped, OneToken,
     Calls, CallsKeyed, OneUser, Session!MeAnswer, Session!Waiters, Session!tabOnly,
     Session!getVars, Session!limits
<1> QED
  BY <1>1, <1>2, <1>3 DEF SessionInv

LEMMA MeExpiredStep ==
    ASSUME SessionInv, Session!MeExpired
    PROVE  SessionInv'
<1> DEFINE first == {c \in Session!Waiters : c.step = "me"}
<1>1. me # None /\ me' = None /\ UNCHANGED <<logins, seenToken, overlap, issued>>
  BY DEF Session!MeExpired, Session!limits
<1>2. CASE auth.refresh = None
  <2>1. /\ calls' \subseteq calls /\ UNCHANGED meCache
        /\ stored' \in {stored, Session!NoSession}
        /\ \/ auth' = [auth EXCEPT !.loading = FALSE]
           \/ auth' = [Session!LoggedOut(auth) EXCEPT !.loading = FALSE]
    BY <1>2 DEF Session!MeExpired, Session!Waiters
  <2>2. overlap
    BY <1>1, <1>2, SessionAssumption DEF Session!SessionAssumption, SessionInv, SessionTyped,
       OneToken, Calls, OneUser, CallsKeyed
  <2>3. stored' \in [token : OneToken \union {None}, refresh : People \union {None}]
        /\ (stored'.token # None => stored'.token.n <= issued /\ stored'.refresh = stored'.token.of)
    BY <2>1 DEF SessionInv, SessionTyped, Session!NoSession
  <2>4. /\ auth' \in [token : OneToken \union {None}, refresh : People \union {None},
                      user : People \union {None}, loading : BOOLEAN]
        /\ auth'.token # None => auth'.token = auth.token /\ auth'.refresh = auth.refresh
    BY <2>1 DEF SessionInv, SessionTyped, Session!LoggedOut
  <2>5. SessionTyped'
    BY <1>1, <2>1, <2>3, <2>4 DEF SessionInv, SessionTyped
  <2>6. CallsKeyed'
    BY <1>1, <2>1, <2>4 DEF SessionInv, CallsKeyed
  <2> QED
    BY <1>1, <2>2, <2>5, <2>6 DEF SessionInv
<1>3. CASE auth.refresh # None
  <2>1. PICK refreshing :
          /\ refreshing = {[c EXCEPT !.step = "refresh", !.of = auth.refresh] : c \in first}
          /\ calls' = (calls \ Session!Waiters) \union refreshing
          /\ \E l : auth' = [auth EXCEPT !.loading = (l)]
          /\ auth' = [auth EXCEPT !.loading = (@ /\ Session!Waiters = first)]
          /\ meCache' \in {meCache, None} /\ stored' = stored
    BY <1>3 DEF Session!MeExpired
  <2>2. ASSUME NEW d \in refreshing
        PROVE  \E c \in calls : /\ c \in Session!Waiters /\ d.n = c.n /\ d \in Calls
                                /\ d.step = "refresh" /\ d.of = auth.refresh
                                /\ d = [step |-> "refresh", n |-> c.n, of |-> auth.refresh]
    <3>1. PICK c \in first : d = [c EXCEPT !.step = "refresh", !.of = auth.refresh]
      BY <2>1, <2>2
    <3>2. c \in Calls /\ c \in calls /\ c \in Session!Waiters
      BY DEF SessionInv, SessionTyped, Session!Waiters
    <3>3. d = [step |-> "refresh", n |-> c.n, of |-> auth.refresh] /\ c.n \in Nat
      BY <3>1, <3>2 DEF Calls
    <3>4. auth.refresh \in People \union {None}
      BY DEF SessionInv, SessionTyped
    <3>5. d \in Calls
      BY <3>3, <3>4 DEF Calls
    <3> QED
      BY <3>2, <3>3, <3>5
  <2>3. auth'.token = auth.token /\ auth'.user = auth.user /\ auth'.refresh = auth.refresh
        /\ auth' \in [token : OneToken \union {None}, refresh : People \union {None},
                       user : People \union {None}, loading : BOOLEAN]
    BY <2>1 DEF SessionInv, SessionTyped
  <2>4. calls' \subseteq Calls /\ \A c \in calls' : c.step = "refresh" => c.of # None
    BY <1>3, <2>1, <2>2 DEF SessionInv, SessionTyped
  <2>5. SessionTyped'
    BY <1>1, <2>1, <2>3, <2>4 DEF SessionInv, SessionTyped
  <2>6. \A d \in calls' : \E c \in calls : d.n = c.n /\ (d = c \/ c \in Session!Waiters)
    BY <2>1, <2>2
  <2>7. ASSUME NEW d \in calls', NEW e \in calls', d.n = e.n
        PROVE  d = e
    <3>1. PICK c \in calls : d.n = c.n /\ IF d \in refreshing
            THEN c \in Session!Waiters /\ d = [step |-> "refresh", n |-> c.n, of |-> auth.refresh]
            ELSE c = d /\ c \notin Session!Waiters
      BY <2>1, <2>2
    <3>2. PICK b \in calls : e.n = b.n /\ IF e \in refreshing
            THEN b \in Session!Waiters /\ e = [step |-> "refresh", n |-> b.n, of |-> auth.refresh]
            ELSE b = e /\ b \notin Session!Waiters
      BY <2>1, <2>2
    <3>3. b = c
      BY <2>7, <3>1, <3>2 DEF SessionInv, CallsKeyed
    <3> QED
      BY <3>1, <3>2, <3>3
  <2>8. CallsKeyed'
    BY <1>1, <2>3, <2>6, <2>7 DEF SessionInv, CallsKeyed
  <2>9. ~overlap' => OneUser'
    <3> SUFFICES ASSUME ~overlap'
                 PROVE  OneUser'
      OBVIOUS
    <3>1. OneUser /\ logins = {}
      BY <1>1 DEF SessionInv, OneUser, CallsKeyed
    <3>2. auth.token # None
      BY <1>1, <3>1 DEF SessionInv, CallsKeyed, OneUser
    <3>3. \A c \in calls' : c.step = "refresh" => c.of = auth.token.of
      BY <2>1, <2>2, <3>1, <3>2 DEF SessionInv, SessionTyped, OneUser
    <3> QED
      BY <1>1, <2>1, <2>3, <3>1, <3>2, <3>3 DEF OneUser
  <2> QED
    BY <2>5, <2>8, <2>9 DEF SessionInv
<1> QED
  BY <1>2, <1>3

LEMMA MeFailsStep ==
    ASSUME SessionInv, Session!MeFails
    PROVE  SessionInv'
<1>1. SessionTyped'
  BY SessionAssumption DEF Session!SessionAssumption, SessionInv, SessionTyped, OneToken,
     Calls, Session!MeFails, Session!Upset, Session!Waiters, Session!tabOnly, Session!getVars,
     Session!limits
<1>2. CallsKeyed'
  BY SessionAssumption DEF Session!SessionAssumption, SessionInv, SessionTyped, OneToken,
     Calls, CallsKeyed, Session!MeFails, Session!Upset, Session!Waiters, Session!tabOnly,
     Session!getVars, Session!limits
<1>3. ~overlap' => OneUser'
  BY SessionAssumption DEF Session!SessionAssumption, SessionInv, SessionTyped, OneToken,
     Calls, CallsKeyed, OneUser, Session!MeFails, Session!Upset, Session!Waiters,
     Session!tabOnly, Session!getVars, Session!limits
<1> QED
  BY <1>1, <1>2, <1>3 DEF SessionInv

LEMMA RefreshAnswerStep ==
    ASSUME SessionInv, NEW c \in calls, Session!RefreshAnswer(c)
    PROVE  SessionInv'
<1>1. c.step = "refresh" /\ c.n \in Nat /\ c \in Calls /\ c.of \in People /\ issued \in Nat
  BY DEF Session!RefreshAnswer, SessionInv, SessionTyped, Calls
<1>2. PICK t : /\ t = [n |-> issued + 1, of |-> c.of] /\ t \in OneToken
               /\ t.n = issued + 1 /\ t.of = c.of
  <2> DEFINE r == [n |-> issued + 1, of |-> c.of]
  <2>1. r \in OneToken
    BY <1>1 DEF OneToken
  <2> QED
    BY <2>1
<1>3. PICK a : /\ a = [auth EXCEPT !.token = t, !.refresh = c.of]
               /\ a.token = t /\ a.refresh = c.of /\ a.user = auth.user
               /\ a \in [token : OneToken \union {None}, refresh : People \union {None},
                        user : People \union {None}, loading : BOOLEAN]
  <2> DEFINE r == [auth EXCEPT !.token = t, !.refresh = c.of]
  <2>1. auth \in [token : OneToken \union {None}, refresh : People \union {None},
                  user : People \union {None}, loading : BOOLEAN]
    BY DEF SessionInv, SessionTyped
  <2>2. r \in [token : OneToken \union {None}, refresh : People \union {None},
               user : People \union {None}, loading : BOOLEAN]
    BY <1>1, <1>2, <2>1
  <2>3. r.token = t /\ r.refresh = c.of /\ r.user = auth.user
    BY <2>1
  <2> QED
    BY <2>2, <2>3
<1>4. PICK b : b \in Calls /\ b.step = "again" /\ b.n = c.n /\ Session!AskMe(a, b)
  <2> DEFINE r == [c EXCEPT !.step = "again"]
  <2>1. r \in Calls
    BY <1>1 DEF Calls
  <2>2. r.step = "again" /\ r.n = c.n
    BY <1>1 DEF Calls
  <2>3. Session!AskMe(a, r)
    BY <1>2, <1>3 DEF Session!RefreshAnswer, Session!Token
  <2> QED
    BY <2>1, <2>2, <2>3
<1>5. /\ issued' = issued + 1 /\ stored' = [token |-> t, refresh |-> c.of]
      /\ UNCHANGED <<meCache, logins, seenToken, overlap>>
  BY <1>2 DEF Session!RefreshAnswer, Session!Issue, Session!Token
<1>6. t # None
  BY <1>2, SessionAssumption DEF Session!SessionAssumption, OneToken
<1>7. {d \in calls : d.n # b.n} = calls \ {c}
  BY <1>4 DEF SessionInv, CallsKeyed
<1>8. auth'.token = t /\ auth'.refresh = c.of
      /\ auth' \in [token : OneToken \union {None}, refresh : People \union {None},
                     user : People \union {None}, loading : BOOLEAN]
  BY <1>3, <1>4, <1>5 DEF Session!AskMe, SessionInv, SessionTyped
<1>9. \A d \in calls : d.n \in Nat /\ d.n <= issued
  BY DEF SessionInv, SessionTyped, CallsKeyed, Calls
<1>10. ~overlap => OneUser /\ auth.token # None /\ logins = {} /\ c.of = auth.token.of
  BY <1>1 DEF SessionInv, OneUser
<1>11. stored' \in [token : OneToken \union {None}, refresh : People \union {None}]
       /\ stored'.token.n = issued' /\ stored'.refresh = stored'.token.of
  BY <1>1, <1>2, <1>5
<1>12. CASE meCache # None
  <2>1. calls' = calls \ {c} /\ me' = me /\ auth'.user = meCache
    BY <1>3, <1>4, <1>5, <1>7, <1>12 DEF Session!AskMe
  <2>2. SessionTyped'
    BY <1>1, <1>2, <1>5, <1>8, <1>11, <2>1 DEF SessionInv, SessionTyped
  <2>3. CallsKeyed'
    BY <1>1, <1>2, <1>5, <1>8, <1>9, <2>1 DEF SessionInv, CallsKeyed
  <2>4. ~overlap' => OneUser'
    BY <1>2, <1>5, <1>6, <1>8, <1>10, <1>12, <2>1 DEF OneUser
  <2> QED
    BY <2>2, <2>3, <2>4 DEF SessionInv
<1>13. CASE meCache = None
  <2>1. /\ calls' = (calls \ {c}) \union {b} /\ auth'.user = auth.user
        /\ me' = IF me = None THEN t ELSE me
    BY <1>3, <1>4, <1>5, <1>7, <1>13 DEF Session!AskMe, SessionInv, SessionTyped
  <2>2. SessionTyped'
    BY <1>1, <1>2, <1>4, <1>5, <1>8, <1>11, <2>1 DEF SessionInv, SessionTyped
  <2>3. \A d, e \in calls' : d.n = e.n => d = e
    BY <1>4, <2>1 DEF SessionInv, CallsKeyed
  <2>4. \A d \in calls' : d.n \in Nat /\ d.n <= issued /\ d.n # t.n
    BY <1>1, <1>2, <1>4, <1>9, <2>1
  <2>5. CallsKeyed'
    BY <1>1, <1>4, <1>5, <1>8, <2>1, <2>3, <2>4 DEF CallsKeyed
  <2>6. ~overlap' => OneUser'
    BY <1>2, <1>4, <1>5, <1>6, <1>8, <1>10, <1>13, <2>1 DEF OneUser
  <2> QED
    BY <2>2, <2>5, <2>6 DEF SessionInv
<1> QED
  BY <1>12, <1>13

LEMMA RefreshFailsStep ==
    ASSUME SessionInv, NEW c \in calls, Session!RefreshFails(c)
    PROVE  SessionInv'
<1>1. SessionTyped'
  BY SessionAssumption DEF Session!SessionAssumption, SessionInv, SessionTyped, OneToken,
     Calls, Session!RefreshFails, Session!Upset, Session!LoggedOut, Session!NoSession,
     Session!tabOnly, Session!getVars, Session!limits
<1>2. CallsKeyed'
  BY SessionAssumption DEF Session!SessionAssumption, SessionInv, SessionTyped, OneToken,
     Calls, CallsKeyed, Session!RefreshFails, Session!Upset, Session!LoggedOut,
     Session!NoSession, Session!tabOnly, Session!getVars, Session!limits
<1>3. ~overlap' => OneUser'
  BY SessionAssumption DEF Session!SessionAssumption, SessionInv, SessionTyped, OneToken,
     Calls, CallsKeyed, OneUser, Session!RefreshFails, Session!Upset, Session!LoggedOut,
     Session!NoSession, Session!tabOnly, Session!getVars, Session!limits
<1> QED
  BY <1>1, <1>2, <1>3 DEF SessionInv

LEMMA SessionStep == SessionInv /\ [Next]_vars => SessionInv'
<1> SUFFICES ASSUME SessionInv, [Next]_vars
             PROVE  SessionInv'
  OBVIOUS
<1>1. CASE UNCHANGED sessionVars
  BY <1>1 DEF SessionInv, SessionTyped, CallsKeyed, OneUser, sessionVars
<1>2. CASE Session!SessionNext
  <2>1. CASE \E p \in People : Session!Login(p) \/ Session!LoginAnswer(p) \/ Session!LoginFails(p)
    BY <2>1, LoginStep, LoginAnswerStep, LoginFailsStep
  <2>2. CASE \E p \in People \union {None} : Session!OtherTab(p)
    BY <2>2, OtherTabStep
  <2>3. CASE \E n \in 1..issued : Session!TokenExpires(n) \/ Session!PageIsAnswered(n)
    BY <2>3, TokenExpiresStep, PageIsAnsweredStep
  <2>4. CASE \E c \in calls : Session!RefreshAnswer(c) \/ Session!RefreshFails(c)
    BY <2>4, RefreshAnswerStep, RefreshFailsStep
  <2>5. CASE Session!Logout \/ Session!PageAsks \/ Session!PageLoads \/ Session!TokenEffect
             \/ Session!MeAnswer \/ Session!MeExpired \/ Session!MeFails
    BY <2>5, LogoutStep, PageAsksStep, PageLoadsStep, TokenEffectStep, MeAnswerStep,
       MeExpiredStep, MeFailsStep
  <2> QED
    BY <1>2, <2>1, <2>2, <2>3, <2>4, <2>5 DEF Session!SessionNext
<1> QED
  BY <1>1, <1>2 DEF Next, vars

(* The invariant holds at the start, and always. *)
LEMMA SessionInvariant == Spec => []SessionInv
<1>1. Init => SessionInv
  <2>1. Init => Session!SessionInit
    BY DEF Init
  <2>2. ASSUME Session!SessionInit
        PROVE  SessionTyped
    <3>1. /\ auth \in [token : {None}, refresh : {None}, user : {None}, loading : {FALSE}]
          /\ stored \in [token : {None}, refresh : {None}]
      BY <2>2 DEF Session!SessionInit, Session!NoSession
    <3>2. issued \in Nat /\ overlap \in BOOLEAN /\ me = None /\ meCache = None
      BY <2>2 DEF Session!SessionInit
    <3>3. calls = {} /\ logins = {}
      BY <2>2 DEF Session!SessionInit
    <3> QED
      BY <3>1, <3>2, <3>3 DEF SessionTyped
  <2>3. Session!SessionInit => CallsKeyed /\ OneUser
    BY DEF CallsKeyed, OneUser, Session!SessionInit
  <2> QED
    BY <2>1, <2>2, <2>3 DEF SessionInv
<1> QED
  BY <1>1, SessionStep, PTL DEF Spec

\* The user shown as signed in is the user of the token, unless the session
\* changed under a call of fetchMe (stores/authStore.ts).
THEOREM ConsoleUserOfToken == Spec => []UserOfToken
<1>1. SessionInv => UserOfToken
  BY DEF SessionInv, SessionTyped, OneUser, UserOfToken, Session!UserOfToken
<1> QED
  BY <1>1, SessionInvariant, PTL

\* Tokens are numbered from 1, and so is what expires or is sent.
SessionCounted ==
    /\ stale \subseteq 1..issued /\ data \subseteq 1..issued /\ upsets \in 0..MaxUpsets
    /\ auth.token # None => auth.token.n \in 1..issued
    /\ stored.token # None => stored.token.n \in 1..issued

\* What a step does to the tokens: it issues one at most.
TokensMove ==
    /\ issued' \in {issued, issued + 1}
    /\ \/ auth'.token \in {None, auth.token, stored.token}
       \/ issued' = issued + 1 /\ auth'.token.n = issued + 1
    /\ \/ stored'.token \in {None, stored.token}
       \/ issued' = issued + 1 /\ stored'.token.n = issued + 1
    /\ stale' = stale \/ \E n \in 1..issued : stale' = stale \union {n}
    /\ \/ data' \subseteq data
       \/ auth.token # None /\ data' = data \union {auth.token.n}
    /\ \/ upsets' = upsets
       \/ upsets < MaxUpsets /\ upsets' = upsets + 1

(* A step of the session issues one token at most. *)
LEMMA SessionMoves ==
    ASSUME SessionInv, Session!SessionNext \/ UNCHANGED sessionVars
    PROVE  TokensMove
<1>0. /\ auth \in [token : OneToken \union {None}, refresh : People \union {None},
                   user : People \union {None}, loading : BOOLEAN]
      /\ stored \in [token : OneToken \union {None}, refresh : People \union {None}]
  BY DEF SessionInv, SessionTyped
<1>1. ASSUME NEW p \in People, Session!Login(p)
      PROVE  TokensMove
  BY <1>0, <1>1 DEF TokensMove, Session!Login, Session!limits
<1>2. ASSUME NEW p \in People, Session!LoginAnswer(p)
      PROVE  TokensMove
  BY <1>0, <1>2 DEF TokensMove, Session!LoginAnswer, Session!Issue, Session!Token,
     Session!getVars
<1>3. ASSUME NEW p \in People, Session!LoginFails(p)
      PROVE  TokensMove
  BY <1>0, <1>3 DEF TokensMove, Session!LoginFails, Session!Upset, Session!getVars
<1>4. ASSUME NEW p \in People \union {None}, Session!OtherTab(p)
      PROVE  TokensMove
  BY <1>0, <1>4 DEF TokensMove, Session!OtherTab, Session!Issue, Session!Upset,
     Session!Token, Session!NoSession, Session!tabOnly, Session!getVars
<1>5. ASSUME NEW n \in 1..issued, Session!TokenExpires(n)
      PROVE  TokensMove
  BY <1>0, <1>5 DEF TokensMove, Session!TokenExpires, Session!tabOnly, Session!getVars
<1>6. ASSUME NEW n \in 1..issued, Session!PageIsAnswered(n)
      PROVE  TokensMove
  <2>1. /\ data' = data \ {n} /\ UNCHANGED <<issued, stale, upsets>>
        /\ \/ auth' = Session!LoggedOut(auth) /\ stored' = Session!NoSession
           \/ UNCHANGED <<auth, stored>>
    BY <1>6 DEF Session!PageIsAnswered, Session!EndSession, Session!limits
  <2>2. Session!LoggedOut(auth).token = None /\ Session!NoSession.token = None
    BY <1>0 DEF Session!LoggedOut, Session!NoSession
  <2> QED
    BY <2>1, <2>2 DEF TokensMove
<1>7. ASSUME NEW c \in calls, Session!RefreshAnswer(c)
      PROVE  TokensMove
  <2> DEFINE a == [auth EXCEPT !.token = Session!Token(c.of), !.refresh = c.of]
  <2>1. /\ issued' = issued + 1 /\ UNCHANGED <<stale, data, upsets>>
        /\ stored' = [token |-> Session!Token(c.of), refresh |-> c.of]
        /\ Session!AskMe(a, [c EXCEPT !.step = "again"])
    BY <1>7 DEF Session!RefreshAnswer, Session!Issue
  <2>2. /\ a.token = Session!Token(c.of) /\ Session!Token(c.of).n = issued + 1
        /\ DOMAIN a = {"token", "refresh", "user", "loading"}
    BY <1>0 DEF Session!Token
  <2>3. auth'.token = a.token
    <3> HIDE DEF a
    <3> QED
      BY <2>1, <2>2 DEF Session!AskMe
  <2> QED
    BY <2>1, <2>2, <2>3 DEF TokensMove
<1>8. ASSUME NEW c \in calls, Session!RefreshFails(c)
      PROVE  TokensMove
  BY <1>0, <1>8 DEF TokensMove, Session!RefreshFails, Session!Upset, Session!NoSession,
     Session!LoggedOut, Session!getVars
<1>9. ASSUME Session!Logout
      PROVE  TokensMove
  BY <1>0, <1>9 DEF TokensMove, Session!Logout, Session!EndSession, Session!LoggedOut,
     Session!NoSession, Session!getVars, Session!limits
<1>10. ASSUME Session!PageAsks
      PROVE  TokensMove
  BY <1>0, <1>10 DEF TokensMove, Session!PageAsks, Session!getVars, Session!limits
<1>11. ASSUME Session!PageLoads
      PROVE  TokensMove
  BY <1>0, <1>11 DEF TokensMove, Session!PageLoads, Session!Upset
<1>12. ASSUME Session!TokenEffect
      PROVE  TokensMove
  BY <1>0, <1>12 DEF TokensMove, Session!TokenEffect, Session!AskMe, Session!limits
<1>13. ASSUME Session!MeAnswer
      PROVE  TokensMove
  BY <1>0, <1>13 DEF TokensMove, Session!MeAnswer, Session!limits
<1>14. ASSUME Session!MeExpired
      PROVE  TokensMove
  <2>1. /\ UNCHANGED <<issued, stale, data, upsets>>
        /\ stored' = stored \/ stored' = Session!NoSession
    BY <1>14 DEF Session!MeExpired, Session!limits
  <2>2. \E b \in BOOLEAN : \/ auth' = [auth EXCEPT !.loading = b]
                          \/ auth' = [Session!LoggedOut(auth) EXCEPT !.loading = b]
    <3>1. auth.loading \in BOOLEAN
      BY <1>0
    <3> QED
      BY <1>14, <3>1 DEF Session!MeExpired
  <2>3. auth'.token \in {None, auth.token}
    BY <1>0, <2>2 DEF Session!LoggedOut
  <2> QED
    BY <2>1, <2>3 DEF TokensMove, Session!NoSession
<1>15. ASSUME Session!MeFails
      PROVE  TokensMove
  BY <1>0, <1>15 DEF TokensMove, Session!MeFails, Session!Upset
<1>16. CASE UNCHANGED sessionVars
  BY <1>16 DEF TokensMove, sessionVars
<1> QED
  BY <1>1, <1>2, <1>3, <1>4, <1>5, <1>6, <1>7, <1>8, <1>9, <1>10, <1>11, <1>12, <1>13, <1>14, <1>15,
     <1>16 DEF Session!SessionNext

(* The numbers stay those of tokens that were issued. *)
LEMMA SessionCountedStep ==
    ASSUME SessionInv, SessionCounted, TokensMove
    PROVE  SessionCounted'
<1>1. /\ issued \in Nat /\ issued' \in Nat /\ 1..issued \subseteq 1..issued'
      /\ issued' = issued + 1 => issued + 1 \in 1..issued'
  BY DEF SessionInv, SessionTyped, TokensMove
<1>2. auth'.token # None => auth'.token.n \in 1..issued'
  BY <1>1 DEF TokensMove, SessionCounted
<1>3. stored'.token # None => stored'.token.n \in 1..issued'
  BY <1>1 DEF TokensMove, SessionCounted
<1>4. stale' \subseteq 1..issued' /\ data' \subseteq 1..issued'
  BY <1>1 DEF TokensMove, SessionCounted
<1>5. upsets' \in 0..MaxUpsets
  BY BoundsAssumption DEF TokensMove, SessionCounted, Session!SessionBounds
<1> QED
  BY <1>2, <1>3, <1>4, <1>5 DEF SessionCounted

(* The session keeps its types: a user, and tokens that were issued. *)
LEMMA SessionTypes == Spec => []Session!SessionTypeOK
<1>1. ASSUME Init
      PROVE  SessionCounted
  <2>1. /\ auth = [token |-> None, refresh |-> None, user |-> None, loading |-> FALSE]
        /\ stored = [token |-> None, refresh |-> None] /\ stale = {} /\ data = {} /\ upsets = 0
    BY <1>1 DEF Init, Session!SessionInit, Session!NoSession
  <2> QED
    BY <2>1, BoundsAssumption DEF Session!SessionBounds, SessionCounted
<1>2. SessionInv /\ SessionCounted /\ [Next]_vars => SessionCounted'
  <2> SUFFICES ASSUME SessionInv, SessionCounted, [Next]_vars
               PROVE  SessionCounted'
    OBVIOUS
  <2>1. Session!SessionNext \/ UNCHANGED sessionVars
    BY DEF Next, vars
  <2> QED
    BY <2>1, SessionMoves, SessionCountedStep
<1>3. SessionInv /\ SessionCounted => Session!SessionTypeOK
  BY DEF SessionInv, SessionTyped, SessionCounted, Session!SessionTypeOK
<1> QED
  BY <1>1, <1>2, <1>3, SessionInvariant, PTL DEF Spec

(***************************************************************************)
(* The SDK clients (SdkClients).                                           *)
(***************************************************************************)
Props == Runs \union {None}
Loads == [prop : Props, inst : Nat, step : {1, 2}]

\* What CrewRunner holds, and the executions it starts.
RunnerTyped ==
    /\ runs \in [Runs -> {"absent", "going", "over"}] /\ reported \in [Runs -> Nat]
    /\ runner \in [mounted : BOOLEAN, view : Props, submitting : BOOLEAN,
                   chain : [Runs -> {"none", "timer", "call"}], timer : Props]

\* A run that is polled was not reported, and one that was not started is
\* neither polled nor on display.
PolledOnce ==
    \A x \in Runs :
      /\ runner.chain[x] # "none" \/ runs[x] = "absent" => reported[x] = 0
      /\ runs[x] = "absent" => runner.chain[x] = "none" /\ runner.view # x

RunnerInv == RunnerTyped /\ PolledOnce /\ RunIsReported

\* What a widget holds.
WidgetTyped ==
    widget \in [prop : Props, inst : Nat, shown : {None} \union [of : Props, over : BOOLEAN],
                error : BOOLEAN, loading : BOOLEAN, armed : BOOLEAN, calls : SUBSET Loads]

\* A call of the effect that is active is for its prop.
ActiveForProp ==
    \A c \in widget.calls : c.inst <= widget.inst /\ (c.inst = widget.inst => c.prop = widget.prop)

WidgetInv == WidgetTyped /\ ActiveForProp /\ ShowsItsProp

LEMMA HandleRunStep ==
    ASSUME RunnerInv, Sdk!HandleRun
    PROVE  RunnerInv'
BY SdkAssumption DEF Sdk!SdkAssumption, RunnerInv, RunnerTyped, PolledOnce, RunIsReported,
   Sdk!RunIsReported, Props, Sdk!HandleRun, Sdk!runnerOnly

LEMMA KickoffAnswerStep ==
    ASSUME RunnerInv, NEW y \in Runs, Sdk!KickoffAnswer(y)
    PROVE  RunnerInv'
<1>1. /\ runs' = [runs EXCEPT ![y] = "going"] /\ runs[y] = "absent" /\ reported' = reported
      /\ runner' = [runner EXCEPT !.submitting = FALSE, !.view = y, !.chain[y] = "timer",
                                  !.timer = y]
  BY DEF Sdk!KickoffAnswer, Sdk!runnerOnly
<1>2. RunnerTyped /\ reported[y] = 0
  BY <1>1 DEF RunnerInv, PolledOnce
<1>3. RunnerTyped'
  BY <1>1, <1>2 DEF RunnerTyped, Props
<1>4. /\ runner'.view = y /\ runner'.chain = [runner.chain EXCEPT ![y] = "timer"]
      /\ runner'.mounted = runner.mounted
  BY <1>1, <1>2 DEF RunnerTyped
<1>5. \A x \in Runs : /\ runner'.chain[x] = IF x = y THEN "timer" ELSE runner.chain[x]
                      /\ runs'[x] = IF x = y THEN "going" ELSE runs[x]
  BY <1>1, <1>2, <1>4 DEF RunnerTyped
<1>6. PolledOnce'
  BY <1>1, <1>2, <1>4, <1>5 DEF RunnerInv, PolledOnce
<1>7. RunIsReported'
  BY <1>1, <1>2, <1>4, <1>5 DEF RunnerInv, RunIsReported, Sdk!RunIsReported
<1> QED
  BY <1>3, <1>6, <1>7 DEF RunnerInv

LEMMA KickoffFailsStep ==
    ASSUME RunnerInv, NEW y \in Runs, Sdk!KickoffFails(y)
    PROVE  RunnerInv'
<1>1. /\ runs' \in {runs, [runs EXCEPT ![y] = "going"]} /\ reported' = reported
      /\ runner' = [runner EXCEPT !.submitting = FALSE]
  BY DEF Sdk!KickoffFails, Sdk!runnerOnly
<1>2. RunnerTyped
  BY DEF RunnerInv
<1>3. RunnerTyped'
  BY <1>1, <1>2 DEF RunnerTyped
<1>4. /\ runner'.view = runner.view /\ runner'.chain = runner.chain
      /\ runner'.mounted = runner.mounted
  BY <1>1, <1>2 DEF RunnerTyped
<1>5. \A x \in Runs : runs'[x] = "absent" => runs[x] = "absent"
  BY <1>1, <1>2 DEF RunnerTyped
<1>6. PolledOnce'
  BY <1>1, <1>4, <1>5 DEF RunnerInv, PolledOnce
<1>7. RunIsReported'
  BY <1>1, <1>4 DEF RunnerInv, RunIsReported, Sdk!RunIsReported
<1> QED
  BY <1>3, <1>6, <1>7 DEF RunnerInv

LEMMA PollFiresStep ==
    ASSUME RunnerInv, NEW y \in Runs, Sdk!PollFires(y)
    PROVE  RunnerInv'
BY SdkAssumption DEF Sdk!SdkAssumption, RunnerInv, RunnerTyped, PolledOnce, RunIsReported,
   Sdk!RunIsReported, Props, Sdk!PollFires, Sdk!runnerOnly

LEMMA PollAnswerStep ==
    ASSUME RunnerInv, NEW y \in Runs, Sdk!PollAnswer(y)
    PROVE  RunnerInv'
<1>1. runner.chain[y] = "call" /\ reported[y] = 0 /\ runs[y] # "absent"
  BY DEF RunnerInv, RunnerTyped, PolledOnce, Sdk!PollAnswer
<1>2. UNCHANGED runs
  BY DEF Sdk!PollAnswer, Sdk!runnerOnly
<1>3. CASE ~runner.mounted \/ Sdk!Over(y)
  <2>1. runner' = [runner EXCEPT !.chain[y] = "none"]
    BY <1>3 DEF Sdk!PollAnswer
  <2>2. CASE runner.mounted
    <3>1. reported' = [reported EXCEPT ![y] = @ + 1]
      BY <1>3, <2>2 DEF Sdk!PollAnswer
    <3> QED
      BY <1>1, <1>2, <2>1, <3>1 DEF RunnerInv, RunnerTyped, PolledOnce, RunIsReported,
         Sdk!RunIsReported
  <2>3. CASE ~runner.mounted
    <3>1. reported' = reported
      BY <2>3 DEF Sdk!PollAnswer
    <3> QED
      BY <1>1, <1>2, <2>1, <2>3, <3>1 DEF RunnerInv, RunnerTyped, PolledOnce, RunIsReported,
         Sdk!RunIsReported
  <2> QED
    BY <2>2, <2>3
<1>4. CASE runner.mounted /\ ~Sdk!Over(y)
  <2>1. runner' = [runner EXCEPT !.chain[y] = "timer", !.timer = y] /\ reported' = reported
    BY <1>4 DEF Sdk!PollAnswer
  <2> QED
    BY <1>1, <1>2, <2>1 DEF RunnerInv, RunnerTyped, PolledOnce, RunIsReported, Sdk!RunIsReported,
       Props
<1> QED
  BY <1>3, <1>4

LEMMA PollFailsStep ==
    ASSUME RunnerInv, NEW y \in Runs, Sdk!PollFails(y)
    PROVE  RunnerInv'
<1>1. /\ runner.chain[y] = "call" /\ UNCHANGED <<runs, reported>>
      /\ runner' = IF runner.mounted THEN [runner EXCEPT !.chain[y] = "timer", !.timer = y]
                   ELSE [runner EXCEPT !.chain[y] = "none"]
  BY DEF Sdk!PollFails, Sdk!runnerOnly
<1>2. RunnerTyped /\ reported[y] = 0 /\ runs[y] # "absent"
  BY <1>1 DEF RunnerInv, PolledOnce
<1>3. CASE runner.mounted
  <2>1. runner' = [runner EXCEPT !.chain[y] = "timer", !.timer = y]
    BY <1>1, <1>3
  <2>2. RunnerTyped'
    <3>1. PICK k : k = [runner.chain EXCEPT ![y] = "timer"]
      OBVIOUS
    <3>2. k \in [Runs -> {"none", "timer", "call"}] /\ y \in Props
      BY <1>2, <3>1 DEF RunnerTyped, Props
    <3>3. runner' = [runner EXCEPT !.chain = k, !.timer = y]
      BY <1>2, <2>1, <3>1 DEF RunnerTyped
    <3> QED
      BY <1>1, <1>2, <3>2, <3>3 DEF RunnerTyped
  <2>3. /\ runner'.view = runner.view /\ runner'.mounted = runner.mounted
        /\ \A x \in Runs : runner'.chain[x] = IF x = y THEN "timer" ELSE runner.chain[x]
    BY <1>2, <2>1 DEF RunnerTyped
  <2>4. PolledOnce'
    BY <1>1, <1>2, <2>3 DEF RunnerInv, PolledOnce
  <2>5. RunIsReported'
    BY <1>1, <2>3 DEF RunnerInv, RunIsReported, Sdk!RunIsReported
  <2> QED
    BY <2>2, <2>4, <2>5 DEF RunnerInv
<1>4. CASE ~runner.mounted
  <2>1. runner' = [runner EXCEPT !.chain[y] = "none"]
    BY <1>1, <1>4
  <2> QED
    BY <1>1, <1>2, <1>4, <2>1 DEF RunnerInv, RunnerTyped, PolledOnce, RunIsReported,
       Sdk!RunIsReported
<1> QED
  BY <1>3, <1>4

LEMMA RunAnotherStep ==
    ASSUME RunnerInv, Sdk!RunAnother
    PROVE  RunnerInv'
BY SdkAssumption DEF Sdk!SdkAssumption, RunnerInv, RunnerTyped, PolledOnce, RunIsReported,
   Sdk!RunIsReported, Props, Sdk!RunAnother, Sdk!Cleared, Sdk!runnerOnly

LEMMA UnmountStep ==
    ASSUME RunnerInv, Sdk!Unmount
    PROVE  RunnerInv'
BY SdkAssumption DEF Sdk!SdkAssumption, RunnerInv, RunnerTyped, PolledOnce, RunIsReported,
   Sdk!RunIsReported, Props, Sdk!Unmount, Sdk!Cleared, Sdk!runnerOnly

LEMMA RunEndsStep ==
    ASSUME RunnerInv, NEW y \in Runs, Sdk!RunEnds(y)
    PROVE  RunnerInv'
BY SdkAssumption DEF Sdk!SdkAssumption, RunnerInv, RunnerTyped, PolledOnce, RunIsReported,
   Sdk!RunIsReported, Props, Sdk!RunEnds

LEMMA RunnerStep == RunnerInv /\ [Next]_vars => RunnerInv'
<1> SUFFICES ASSUME RunnerInv, [Next]_vars
             PROVE  RunnerInv'
  OBVIOUS
<1>1. CASE UNCHANGED <<runs, runner, reported>>
  BY <1>1 DEF RunnerInv, RunnerTyped, PolledOnce, RunIsReported, Sdk!RunIsReported
<1>2. CASE Sdk!SdkNext
  <2>1. CASE Sdk!RunnerNext
    BY <2>1, HandleRunStep, KickoffAnswerStep, KickoffFailsStep, PollFiresStep, PollAnswerStep,
       PollFailsStep, RunAnotherStep, UnmountStep DEF Sdk!RunnerNext
  <2>2. CASE Sdk!WidgetNext \/ Sdk!WaiterNext
    BY <2>2, <1>1 DEF Sdk!WidgetNext, Sdk!WaiterNext, Sdk!SetProp, Sdk!WidgetPolls,
       Sdk!WidgetAnswer, Sdk!WidgetFails, Sdk!Wait, Sdk!Deadline, Sdk!WaitAnswer, Sdk!WaitFails,
       Sdk!WaitSleeps, Sdk!widgetOnly, Sdk!waiterOnly
  <2>3. CASE \E x \in Runs : Sdk!RunEnds(x)
    BY <2>3, RunEndsStep
  <2> QED
    BY <1>2, <2>1, <2>2, <2>3 DEF Sdk!SdkNext
<1> QED
  BY <1>1, <1>2 DEF Next, vars, sdkVars

(* The invariant holds at the start, and always. *)
LEMMA RunnerInvariant == Spec => []RunnerInv
<1>1. ASSUME Init
      PROVE  RunnerInv
  <2> DEFINE still == [x \in Runs |-> "none"]
  <2>1. /\ runner = [mounted |-> TRUE, view |-> None, submitting |-> FALSE,
                     chain |-> still, timer |-> None]
        /\ runs \in [Runs -> {"absent", "going"}] /\ reported = [x \in Runs |-> 0]
    BY <1>1 DEF Init, Sdk!SdkInitOf
  <2>2. still \in [Runs -> {"none", "timer", "call"}] /\ None \in Props
    BY DEF Props
  <2>3. \A x \in Runs : still[x] = "none"
    OBVIOUS
  <2> HIDE DEF still
  <2>4. RunnerTyped
    BY <2>1, <2>2 DEF RunnerTyped
  <2>5. \A x \in Runs : runner.chain[x] = "none" /\ runner.view # x /\ reported[x] = 0
    BY <2>1, <2>3, SdkAssumption DEF Sdk!SdkAssumption
  <2> QED
    BY <2>4, <2>5 DEF RunnerInv, PolledOnce, RunIsReported, Sdk!RunIsReported
<1> QED
  BY <1>1, RunnerStep, PTL DEF Spec

(* onComplete is called at most once for an execution, and is not forgotten  *)
(* while its run is on display (CrewRunner.tsx).                             *)
THEOREM ConsoleRunIsReported == Spec => []RunIsReported
<1>1. RunnerInv => RunIsReported
  BY DEF RunnerInv
<1> QED
  BY <1>1, RunnerInvariant, PTL

LEMMA SetPropStep ==
    ASSUME WidgetInv, NEW y \in Runs, Sdk!SetProp(y)
    PROVE  WidgetInv'
<1> DEFINE n == widget.inst + 1
           c == [prop |-> y, inst |-> n, step |-> 1]
<1>1. WidgetTyped /\ n \in Nat
  BY DEF WidgetInv, WidgetTyped
<1>2. c \in Loads
  BY <1>1 DEF Loads, Props
<1>3. widget.calls \union {c} \in SUBSET Loads
  BY <1>1, <1>2 DEF WidgetTyped
<1>4. /\ widget'.prop = y /\ widget'.inst = n /\ widget'.loading
      /\ widget'.calls = widget.calls \union {c}
  BY <1>1 DEF Sdk!SetProp, WidgetTyped
<1>5. WidgetTyped'
  BY <1>1, <1>3 DEF Sdk!SetProp, WidgetTyped, Props
<1>6. \A d \in widget.calls : d.inst \in Nat /\ d.inst <= widget.inst
  BY <1>1 DEF WidgetInv, WidgetTyped, ActiveForProp, Loads
<1>7. ActiveForProp'
  BY <1>1, <1>4, <1>6 DEF ActiveForProp, WidgetTyped
<1> QED
  BY <1>4, <1>5, <1>7 DEF WidgetInv, ShowsItsProp, Sdk!ShowsItsProp

LEMMA WidgetAnswerStep ==
    ASSUME WidgetInv, NEW c \in widget.calls, Sdk!WidgetAnswer(c)
    PROVE  WidgetInv'
<1>1. WidgetTyped /\ ActiveForProp /\ c \in Loads
  BY DEF WidgetInv, WidgetTyped
<1>2. CASE widget' = [widget EXCEPT !.calls = @ \ {c}]
  BY <1>1, <1>2 DEF WidgetInv, WidgetTyped, ActiveForProp, ShowsItsProp, Sdk!ShowsItsProp
<1>3. CASE widget' = [widget EXCEPT !.calls = (@ \ {c}) \union {[c EXCEPT !.step = 2]}]
  <2>1. PICK d : d = [c EXCEPT !.step = 2]
    OBVIOUS
  <2>2. d \in Loads /\ d.inst = c.inst /\ d.prop = c.prop
    BY <1>1, <2>1 DEF Loads
  <2>3. widget' = [widget EXCEPT !.calls = (@ \ {c}) \union {d}]
    BY <1>3, <2>1
  <2> QED
    BY <1>1, <2>2, <2>3 DEF WidgetInv, WidgetTyped, ActiveForProp, ShowsItsProp, Sdk!ShowsItsProp
<1>4. CASE Sdk!Active(c) /\ widget' = [widget EXCEPT !.calls = @ \ {c}, !.loading = FALSE,
                                         !.shown = [of |-> c.prop, over |-> FALSE]]
  <2>1. c.prop = widget.prop /\ [of |-> c.prop, over |-> FALSE] \in [of : Props, over : BOOLEAN]
    BY <1>1, <1>4 DEF ActiveForProp, Sdk!Active, Loads
  <2> QED
    BY <1>1, <1>4, <2>1 DEF WidgetInv, WidgetTyped, ActiveForProp, ShowsItsProp, Sdk!ShowsItsProp
<1>5. CASE Sdk!Active(c) /\ widget' = Sdk!ShowStatus(c, Sdk!Over(c.prop))
  <2>1. PICK over \in BOOLEAN : widget' = Sdk!ShowStatus(c, over)
    BY <1>5 DEF Sdk!Over
  <2>2. c.prop = widget.prop /\ [of |-> c.prop, over |-> over] \in [of : Props, over : BOOLEAN]
    BY <1>1, <1>5 DEF ActiveForProp, Sdk!Active, Loads
  <2> QED
    BY <1>1, <2>1, <2>2 DEF Sdk!ShowStatus, WidgetInv, WidgetTyped, ActiveForProp, ShowsItsProp,
       Sdk!ShowsItsProp
<1> QED
  BY <1>2, <1>3, <1>4, <1>5 DEF Sdk!WidgetAnswer, Sdk!ShowCrew

LEMMA WidgetFailsStep ==
    ASSUME WidgetInv, NEW c \in widget.calls, Sdk!WidgetFails(c)
    PROVE  WidgetInv'
BY DEF WidgetInv, WidgetTyped, ActiveForProp, ShowsItsProp, Sdk!ShowsItsProp, Props, Loads,
   Sdk!WidgetFails, Sdk!Active, Sdk!Lose, Sdk!widgetOnly

LEMMA WidgetPollsStep ==
    ASSUME WidgetInv, Sdk!WidgetPolls
    PROVE  WidgetInv'
<1> DEFINE c == [prop |-> widget.prop, inst |-> widget.inst, step |-> 1]
<1>1. WidgetTyped
  BY DEF WidgetInv
<1>2. c \in Loads
  BY <1>1 DEF WidgetTyped, Loads
<1>3. widget' = [widget EXCEPT !.armed = FALSE, !.calls = @ \union {c}]
  BY DEF Sdk!WidgetPolls, Sdk!Call
<1>4. WidgetTyped'
  BY <1>1, <1>2, <1>3 DEF WidgetTyped
<1>5. /\ UNCHANGED <<widget.prop, widget.inst, widget.loading, widget.error, widget.shown>>
      /\ widget'.calls = widget.calls \union {c}
  BY <1>1, <1>3 DEF WidgetTyped
<1>6. ActiveForProp'
  BY <1>1, <1>5 DEF WidgetInv, WidgetTyped, ActiveForProp
<1> QED
  BY <1>4, <1>5, <1>6 DEF WidgetInv, ShowsItsProp, Sdk!ShowsItsProp

LEMMA WidgetStep == WidgetInv /\ [Next]_vars => WidgetInv'
<1> SUFFICES ASSUME WidgetInv, [Next]_vars
             PROVE  WidgetInv'
  OBVIOUS
<1>1. CASE UNCHANGED widget
  BY <1>1 DEF WidgetInv, WidgetTyped, ActiveForProp, ShowsItsProp, Sdk!ShowsItsProp
<1>2. CASE Sdk!SdkNext
  <2>1. CASE Sdk!WidgetNext
    BY <2>1, SetPropStep, WidgetPollsStep, WidgetAnswerStep, WidgetFailsStep DEF Sdk!WidgetNext
  <2>2. CASE Sdk!RunnerNext \/ Sdk!WaiterNext \/ \E x \in Runs : Sdk!RunEnds(x)
    BY <2>2, <1>1 DEF Sdk!RunnerNext, Sdk!WaiterNext, Sdk!HandleRun, Sdk!RunAnother, Sdk!Unmount,
       Sdk!KickoffAnswer, Sdk!KickoffFails, Sdk!PollFires, Sdk!PollAnswer, Sdk!PollFails,
       Sdk!Wait, Sdk!Deadline, Sdk!WaitAnswer, Sdk!WaitFails, Sdk!WaitSleeps, Sdk!RunEnds,
       Sdk!runnerOnly, Sdk!waiterOnly
  <2> QED
    BY <1>2, <2>1, <2>2 DEF Sdk!SdkNext
<1> QED
  BY <1>1, <1>2 DEF Next, vars, sdkVars

(* The invariant holds at the start, and always. *)
LEMMA WidgetInvariant == Spec => []WidgetInv
<1>1. ASSUME Init
      PROVE  WidgetInv
  <2>1. widget = [prop |-> None, inst |-> 0, shown |-> None, error |-> FALSE,
                  loading |-> TRUE, armed |-> FALSE, calls |-> {}]
    BY <1>1 DEF Init, Sdk!SdkInitOf
  <2>2. {} \in SUBSET Loads /\ None \in Props
    BY DEF Props
  <2>3. WidgetTyped
    BY <2>1, <2>2 DEF WidgetTyped
  <2>4. widget.calls = {} /\ widget.loading
    BY <2>1
  <2> QED
    BY <2>3, <2>4 DEF WidgetInv, ActiveForProp, ShowsItsProp, Sdk!ShowsItsProp
<1> QED
  BY <1>1, WidgetStep, PTL DEF Spec

(* Once a widget shows an answer or an error of its prop it never goes back  *)
(* to an answer for an earlier one (ExecutionStatus.tsx, CrewViewer.tsx).    *)
THEOREM ConsoleShowsItsProp == Spec => []ShowsItsProp
<1>1. WidgetInv => ShowsItsProp
  BY DEF WidgetInv
<1> QED
  BY <1>1, WidgetInvariant, PTL

\* What the widgets count, and where wait() is.
Waits == [run : Props, st : {"idle", "call", "sleep", "returned", "timed out", "failed"},
          late : BOOLEAN]
SdkCounted == use \in Sdk!Uses /\ widget.inst <= MaxInst /\ waiter \in Waits

(* A widget has an effect for each prop it was given, MaxInst at most. *)
LEMMA SdkCountedStep ==
    ASSUME WidgetInv, SdkCounted, Sdk!SdkNext \/ UNCHANGED sdkVars
    PROVE  SdkCounted'
<1>0. WidgetTyped /\ MaxInst \in Nat /\ widget.inst \in Nat
  BY BoundsAssumption DEF WidgetInv, WidgetTyped, Sdk!SdkBounds
<1>1. ASSUME NEW x \in Runs, Sdk!SetProp(x)
      PROVE  SdkCounted'
  <2>1. /\ widget.inst < MaxInst /\ UNCHANGED <<use, waiter>>
        /\ widget'.inst = widget.inst + 1
    BY <1>0, <1>1 DEF Sdk!SetProp, Sdk!widgetOnly, WidgetTyped
  <2> QED
    BY <1>0, <2>1 DEF SdkCounted
<1>2. ASSUME NEW c \in widget.calls, Sdk!WidgetAnswer(c) \/ Sdk!WidgetFails(c)
      PROVE  SdkCounted'
  <2>1. UNCHANGED <<use, waiter>> /\ widget'.inst = widget.inst
    BY <1>0, <1>2 DEF Sdk!WidgetAnswer, Sdk!WidgetFails, Sdk!ShowCrew, Sdk!ShowStatus,
       Sdk!widgetOnly, WidgetTyped
  <2> QED
    BY <2>1 DEF SdkCounted
<1>3. ASSUME Sdk!WidgetPolls
      PROVE  SdkCounted'
  BY <1>0, <1>3 DEF Sdk!WidgetPolls, Sdk!widgetOnly, WidgetTyped, SdkCounted
<1>4. ASSUME Sdk!WaiterNext
      PROVE  SdkCounted'
  BY <1>4 DEF Sdk!WaiterNext, Sdk!Wait, Sdk!Deadline, Sdk!WaitAnswer, Sdk!WaitFails,
     Sdk!WaitSleeps, Sdk!waiterOnly, SdkCounted, Waits, Props
<1>5. ASSUME UNCHANGED <<use, widget, waiter>>
      PROVE  SdkCounted'
  BY <1>5 DEF SdkCounted
<1>6. CASE Sdk!RunnerNext \/ (\E x \in Runs : Sdk!RunEnds(x)) \/ UNCHANGED sdkVars
  BY <1>5, <1>6 DEF Sdk!RunnerNext, Sdk!HandleRun, Sdk!RunAnother, Sdk!Unmount,
     Sdk!KickoffAnswer, Sdk!KickoffFails, Sdk!PollFires, Sdk!PollAnswer, Sdk!PollFails,
     Sdk!RunEnds, Sdk!runnerOnly, sdkVars
<1> QED
  BY <1>1, <1>2, <1>3, <1>4, <1>6 DEF Sdk!SdkNext, Sdk!WidgetNext

(* The SDK clients keep their types. *)
LEMMA SdkTypes == Spec => []Sdk!SdkTypeOK
<1>1. ASSUME Init
      PROVE  SdkCounted
  <2>1. /\ use \in Sdk!Uses /\ waiter = [run |-> None, st |-> "idle", late |-> FALSE]
        /\ widget.inst = 0
    BY <1>1 DEF Init, Sdk!SdkInitOf, Sdk!Uses
  <2> QED
    BY <2>1, BoundsAssumption DEF SdkCounted, Waits, Props, Sdk!SdkBounds
<1>2. WidgetInv /\ SdkCounted /\ [Next]_vars => SdkCounted'
  <2> SUFFICES ASSUME WidgetInv, SdkCounted, [Next]_vars
               PROVE  SdkCounted'
    OBVIOUS
  <2>1. Sdk!SdkNext \/ UNCHANGED sdkVars
    BY DEF Next, vars
  <2> QED
    BY <2>1, SdkCountedStep
<1>3. RunnerInv /\ WidgetInv /\ SdkCounted => Sdk!SdkTypeOK
  <2> SUFFICES ASSUME RunnerInv, WidgetInv, SdkCounted
               PROVE  Sdk!SdkTypeOK
    OBVIOUS
  <2>1. runs \in [Runs -> {"absent", "going", "over"}]
        /\ runner.view \in Props /\ runner.timer \in Props
        /\ runner.chain \in [Runs -> {"none", "timer", "call"}]
    BY DEF RunnerInv, RunnerTyped
  <2>2. widget.inst \in 0..MaxInst /\ widget.prop \in Props
    BY BoundsAssumption DEF WidgetInv, WidgetTyped, SdkCounted, Sdk!SdkBounds
  <2>3. waiter.st \in {"idle", "call", "sleep", "returned", "timed out", "failed"}
    BY DEF SdkCounted, Waits
  <2> QED
    BY <2>1, <2>2, <2>3 DEF SdkCounted, Props, Sdk!SdkTypeOK
<1> QED
  BY <1>1, <1>2, <1>3, RunnerInvariant, WidgetInvariant, PTL DEF Spec

(***************************************************************************)
(* The list pages (ListPages).                                             *)
(***************************************************************************)
Versions == [Items -> 0..Lists!Over]
Clocks == [Items -> Nat]
Answers == [rows : Versions, at : Clocks]
Shown == [q : Queries \union {None}, rows : Versions, at : Clocks]
Cached == [Queries -> Answers \union {None}]
Asked == [Queries -> [answer : Answers \union {None}] \union {None}]
Waiting == Queries \X {"fetch", "poll"}
Dialogs == [open : BOOLEAN, submitting : BOOLEAN, target : Items \union {None}, deleting : BOOLEAN]

\* A mutation in flight; which number it got says nothing.
IsRequest(o) ==
    o \in [by : {"dialog", "row", "batch"}, kind : {"create", "delete", "act"}, item : Items,
           n : {o.n}, st : {"sent", "done"}, val : 0..Lists!Over, at : Nat, had : Cached,
           alone : BOOLEAN]

\* What the variables hold: the lists, and what changes them.
LoadsTyped ==
    /\ query \in Queries /\ loading \in BOOLEAN /\ failed \in BOOLEAN /\ crossed \in BOOLEAN
    /\ list \in Shown /\ known \in Cached /\ asked \in Asked /\ waiting \subseteq Waiting

OpsTyped ==
    /\ listPage \in Lists!AllPages
    /\ rows \in Versions /\ changes \in Nat /\ own \in Clocks
    /\ dialog \in Dialogs
    /\ batch = [k \in Lists!Batches |-> batch[k]]
    /\ \A k \in Lists!Batches : batch[k] # None => listPage.all
    /\ \A o \in ops : /\ IsRequest(o)
                      /\ o.by = "batch" => listPage.all
                      /\ o.by = "dialog" => o.kind # "act"

ListTyped == LoadsTyped /\ OpsTyped

\* Until the filter changes under an answer, what is awaited is of the filter.
AwaitedOfQuery ==
    ~crossed => /\ \A r \in Queries, who \in {"fetch", "poll"} : <<r, who>> \in waiting => r = query
                /\ \A r \in Queries : asked[r] # None =>
                     <<r, "fetch">> \in waiting \/ <<r, "poll">> \in waiting

\* A list that waits to be shown, cached or read by the server, is not older
\* than what the user was told of her changes, and not older than a change
\* that found none of them.
Fresh(a) ==
    a # None => \A i \in Items :
                  /\ own[i] <= a.at[i]
                  /\ \A o \in ops : o.st = "done" /\ o.alone /\ Lists!Changing(o) => o.at <= a.at[i]

ComingFresh ==
    /\ \A i \in Items : own[i] <= changes
    /\ \A r \in Queries : Fresh(known[r]) /\ (asked[r] # None => Fresh(asked[r].answer))

\* A change that was not answered yet is later than those of the same row that
\* were; it dropped the cached lists when it was sent.
ChangesLater ==
    \A o \in ops :
      /\ o.st = "done" => own[o.item] < o.at /\ o.at <= changes
      /\ Lists!Changing(o) => o.had = Lists!Invalidate

WritesInv == ComingFresh /\ ChangesLater /\ ReadYourWrites

\* A list that is shown or waits to be tells of an end only from the moment
\* on at which the execution was over.
TellsOf(a, over) ==
    \A i \in Items : a.at[i] <= changes /\ (a.rows[i] = Lists!Over <=> over[i] <= a.at[i])

TellsFrom(a, over) == a # None => TellsOf(a, over)

EndedAt(over) ==
    /\ \A i \in Items : rows[i] = Lists!Over <=> over[i] <= changes
    /\ \A r \in Queries : TellsFrom(known[r], over)
                          /\ (asked[r] # None => TellsFrom(asked[r].answer, over))
    /\ TellsOf(list, over)

\* The page that announces ends changes no row itself.  What it saw last of a
\* row is what it shows, if it shows the row; each announcement but that of
\* the end on display was followed by an older list.
Announced ==
    \A i \in Items :
      /\ list.rows[i] # 0 => before[i] = list.rows[i]
      /\ told[i] <= rewinds + (IF list.rows[i] = Lists!Over THEN 1 ELSE 0)

EndsInv ==
    /\ told \in [Items -> Nat] /\ before \in Versions /\ rewinds \in Nat
    /\ ~listPage.tells => \A i \in Items : told[i] = 0
    /\ listPage.tells =>
         /\ ops = {} /\ ~dialog.open /\ dialog.target = None
         /\ \E over \in [Items -> 1..(changes + 1)] : EndedAt(over)
         /\ Announced

ListInv == ListTyped /\ AwaitedOfQuery /\ ListOfQuery /\ WritesInv /\ EndsInv

\* The page that announces ends changes nothing; the store's pages have no
\* action that changes a row; the page of all resources is one of them.
PageFacts(p) ==
    /\ p.tells => p.view.acts = "no" /\ ~p.view.creates /\ ~p.view.deletes /\ ~p.all
    /\ p.store => ~p.reloads
    /\ p.all => p.store

LEMMA PagesAre == \A p \in Lists!AllPages : PageFacts(p)
<1>1. PageFacts(Lists!ResourcesPage)
  BY DEF PageFacts, Lists!ResourcesPage, Lists!LockedDialog, Lists!ResourcesView,
     Lists!NewResourceDialog
<1>2. PageFacts(Lists!ModelsPage)
  BY DEF PageFacts, Lists!ModelsPage, Lists!LockedDialog, Lists!ModelsView,
     Lists!AddModelDialog
<1>3. PageFacts(Lists!KnowledgeSourcesPage)
  BY DEF PageFacts, Lists!KnowledgeSourcesPage, Lists!LockedDialog, Lists!KnowledgeSourcesView,
     Lists!AddKnowledgeSourceDialog
<1>4. PageFacts(Lists!ServiceAccountsPage)
  BY DEF PageFacts, Lists!ServiceAccountsPage, Lists!LockedDialog, Lists!ReadOnlyView
<1>5. PageFacts(Lists!AutomationsPage)
  BY DEF PageFacts, Lists!AutomationsPage, Lists!LockedDialog, Lists!AutomationsView,
     Lists!CreateAutomationDialog
<1>6. PageFacts(Lists!WebhooksPage)
  BY DEF PageFacts, Lists!WebhooksPage, Lists!LockedDialog, Lists!WebhooksView,
     Lists!AddWebhookDialog
<1>7. PageFacts(Lists!UsersPage)
  BY DEF PageFacts, Lists!UsersPage, Lists!LockedDialog, Lists!UsersView,
     Lists!UserDetailPanel, Lists!InviteDialog
<1>8. PageFacts(Lists!RolesPage)
  BY DEF PageFacts, Lists!RolesPage, Lists!LockedDialog, Lists!RolesView,
     Lists!CreateRoleDialog
<1>9. PageFacts(Lists!CredentialsPage)
  BY DEF PageFacts, Lists!CredentialsPage, Lists!LockedDialog, Lists!CredentialsView,
     Lists!CreateCredentialDialog
<1>10. PageFacts(Lists!ProjectsPage)
  BY DEF PageFacts, Lists!ProjectsPage, Lists!LockedDialog, Lists!ProjectsView,
     Lists!CreateProjectDialog
<1>11. PageFacts(Lists!ToolsLibraryPage)
  BY DEF PageFacts, Lists!ToolsLibraryPage, Lists!LockedDialog, Lists!ToolsLibraryView
<1>12. PageFacts(Lists!AuditLogsPage)
  BY DEF PageFacts, Lists!AuditLogsPage, Lists!LockedDialog, Lists!AuditLogsView,
     Lists!ReadOnlyView
<1>13. PageFacts(Lists!ExecutionsPage)
  BY DEF PageFacts, Lists!ExecutionsPage, Lists!LockedDialog, Lists!ExecutionsView,
     Lists!ReadOnlyView
<1>14. PageFacts(Lists!ExecutionComparePage)
  BY DEF PageFacts, Lists!ExecutionComparePage, Lists!LockedDialog, Lists!ExecutionsPage,
     Lists!ExecutionsView, Lists!ReadOnlyView
<1> QED
  BY <1>1, <1>2, <1>3, <1>4, <1>5, <1>6, <1>7, <1>8, <1>9, <1>10, <1>11, <1>12, <1>13, <1>14
     DEF Lists!AllPages, Lists!ToolsPage, Lists!DashboardPage

(* What is null is not a list, and what is asked for is not null.            *)
LEMMA NullIsNoList ==
    /\ None \notin Answers
    /\ None # [answer |-> None]
<1>1. Answers \subseteq [rows : [Items -> Nat], at : [Items -> Nat]]
  BY DEF Answers, Versions, Clocks, Lists!Over
<1> QED
  BY <1>1, ListAssumption DEF Lists!ListAssumption

LEMMA HeldIsAnswer ==
    ASSUME ListTyped
    PROVE  /\ Lists!Held \in Answers /\ Lists!Held.rows = rows
           /\ \A i \in Items : Lists!Held.at[i] = changes
BY DEF ListTyped, OpsTyped, Answers, Clocks, Lists!Held

LEMMA ListOfIsShown ==
    ASSUME NEW a \in Answers, NEW r \in Queries
    PROVE  /\ Lists!ListOf(r, a) \in Shown /\ Lists!ListOf(r, a).q = r
           /\ Lists!ListOf(r, a).rows = a.rows /\ Lists!ListOf(r, a).at = a.at
BY DEF Lists!ListOf, Shown, Answers

(* What a load does, from the cache or by a request.                         *)
FromCache(r) ==
    /\ known[r] \in Answers /\ list' = Lists!ListOf(r, known[r])
    /\ ~loading' /\ UNCHANGED <<asked, waiting>>

ByRequest(r, shown) ==
    /\ list' = shown /\ loading' /\ waiting' = waiting \union {<<r, "fetch">>}
    /\ asked' \in Asked /\ asked'[r] = (IF asked[r] = None THEN [answer |-> None] ELSE asked[r])
    /\ \A s \in Queries \ {r} : asked'[s] = asked[s]

LEMMA LoadMoves ==
    ASSUME LoadsTyped, NEW r \in Queries, NEW shown \in Shown, Lists!Load(r, shown)
    PROVE  /\ known' = known /\ ~failed' /\ loading' \in BOOLEAN /\ failed' \in BOOLEAN
           /\ FromCache(r) \/ ByRequest(r, shown)
           /\ list' \in Shown /\ asked' \in Asked /\ waiting' \subseteq Waiting
           /\ Lists!Show(list')
<1>1. ~failed' /\ failed' \in BOOLEAN
  BY DEF Lists!Load
<1>2. CASE known[r] # None
  <2>1. /\ Lists!Show(Lists!ListOf(r, known[r])) /\ loading' = FALSE
        /\ UNCHANGED <<known, asked, waiting>>
    BY <1>2 DEF Lists!Load, Lists!Fetch
  <2>2. known[r] \in Answers
    BY <1>2 DEF LoadsTyped, Cached
  <2>3. list' = Lists!ListOf(r, known[r])
    BY <2>1 DEF Lists!Show
  <2> QED
    BY <1>1, <2>1, <2>2, <2>3, ListOfIsShown DEF FromCache, LoadsTyped
<1>3. CASE known[r] = None
  <2>1. /\ asked' = [asked EXCEPT ![r] = IF @ = None THEN [answer |-> None] ELSE @]
        /\ waiting' = waiting \union {<<r, "fetch">>} /\ known' = known
        /\ loading' = TRUE /\ Lists!Show(shown)
    BY <1>3 DEF Lists!Load, Lists!Fetch, Lists!Ask
  <2>2. asked' \in Asked
    BY <2>1 DEF LoadsTyped, Asked
  <2>3. /\ asked'[r] = (IF asked[r] = None THEN [answer |-> None] ELSE asked[r])
        /\ \A s \in Queries \ {r} : asked'[s] = asked[s]
    BY <2>1 DEF LoadsTyped, Asked
  <2>4. waiting' \subseteq Waiting
    BY <2>1 DEF LoadsTyped, Waiting
  <2>5. list' = shown
    BY <2>1 DEF Lists!Show
  <2> QED
    BY <1>1, <2>1, <2>2, <2>3, <2>4, <2>5 DEF ByRequest
<1> QED
  BY <1>2, <1>3

(* What a finished mutation does to the lists.                               *)
LEMMA RefreshMoves ==
    ASSUME LoadsTyped, NEW o, NEW ok \in BOOLEAN, NEW shown \in Shown,
           Lists!Refreshed(o, ok, shown)
    PROVE  /\ known' = known /\ loading' \in BOOLEAN /\ failed' \in BOOLEAN
           /\ list' \in Shown /\ asked' \in Asked /\ waiting' \subseteq Waiting
           /\ Lists!Show(list')
           /\ IF Lists!Reloads(o, ok)
              THEN ~failed' /\ (FromCache(query) \/ ByRequest(query, shown))
              ELSE list' = shown /\ UNCHANGED <<asked, waiting, loading, failed>>
<1>1. CASE Lists!Reloads(o, ok)
  <2>1. Lists!Load(query, shown) /\ query \in Queries
    BY <1>1 DEF Lists!Refreshed, LoadsTyped
  <2> QED
    BY <1>1, <2>1, LoadMoves
<1>2. CASE ~Lists!Reloads(o, ok)
  <2>1. Lists!Show(shown) /\ UNCHANGED <<known, asked, waiting, loading, failed>>
    BY <1>2 DEF Lists!Refreshed
  <2> QED
    BY <1>2, <2>1 DEF Lists!Show, LoadsTyped
<1> QED
  BY <1>1, <1>2

LEMMA AppliedIsShown ==
    ASSUME LoadsTyped, NEW o, IsRequest(o)
    PROVE  /\ Lists!Applied(o) \in Shown /\ Lists!Applied(o).q = list.q
           /\ \A i \in Items :
                Lists!Applied(o).at[i] = IF listPage.store /\ Lists!Changing(o) /\ i = o.item
                                         THEN o.at ELSE list.at[i]
<1>1. o.item \in Items /\ o.val \in 0..Lists!Over /\ o.at \in Nat
  BY DEF IsRequest
<1>2. list \in Shown
  BY DEF LoadsTyped
<1>3. CASE listPage.store /\ Lists!Changing(o)
  <2> DEFINE l == [list EXCEPT !.rows[o.item] = o.val, !.at[o.item] = o.at]
  <2>1. Lists!Applied(o) = l
    BY <1>3 DEF Lists!Applied
  <2>2. l \in Shown
    BY <1>1, <1>2 DEF Shown, Versions, Clocks
  <2>3. l.q = list.q /\ l.at = [list.at EXCEPT ![o.item] = o.at]
    BY <1>2 DEF Shown
  <2>4. \A i \in Items : l.at[i] = IF i = o.item THEN o.at ELSE list.at[i]
    BY <1>2, <2>3 DEF Shown, Clocks
  <2> QED
    BY <1>3, <2>1, <2>2, <2>3, <2>4
<1>4. CASE ~(listPage.store /\ Lists!Changing(o))
  BY <1>2, <1>4 DEF Lists!Applied
<1> QED
  BY <1>3, <1>4

LEMMA OpFacts ==
    ASSUME OpsTyped, NEW o \in ops
    PROVE  /\ IsRequest(o)
           /\ o.by \in {"dialog", "row", "batch"} /\ o.kind \in {"create", "delete", "act"}
           /\ o.item \in Items /\ o.st \in {"sent", "done"} /\ o.val \in 0..Lists!Over
           /\ o.at \in Nat /\ o.had \in Cached /\ o.alone \in BOOLEAN
           /\ o.by = "batch" => listPage.all
           /\ o.by = "dialog" => o.kind # "act"
<1>1. /\ IsRequest(o)
      /\ o.by = "batch" => listPage.all
      /\ o.by = "dialog" => o.kind # "act"
  BY DEF OpsTyped, IsRequest
<1> QED
  BY <1>1 DEF IsRequest

(* No action makes up a list: what comes came before, or is what the server  *)
(* holds; what is shown next is what is shown, or came.                      *)
ComesFromBefore ==
    \A r \in Queries :
      /\ known'[r] \in {known[r], None} \/ (asked[r] # None /\ known'[r] = asked[r].answer)
      /\ asked'[r] # None =>
           \/ asked'[r].answer \in {None, Lists!Held}
           \/ asked[r] # None /\ asked'[r].answer = asked[r].answer

Came ==
    \E r \in Queries :
      \/ known[r] # None /\ list' = Lists!ListOf(r, known[r])
      \/ asked[r] # None /\ asked[r].answer # None /\ list' = Lists!ListOf(r, asked[r].answer)

LEMMA CameIsAnswer ==
    ASSUME ListTyped, Came
    PROVE  \E r \in Queries, a \in Answers :
             /\ a = known[r] \/ (asked[r] # None /\ a = asked[r].answer)
             /\ list'.q = r /\ list'.rows = a.rows /\ list'.at = a.at
<1>1. PICK r \in Queries :
        \/ known[r] # None /\ list' = Lists!ListOf(r, known[r])
        \/ asked[r] # None /\ asked[r].answer # None /\ list' = Lists!ListOf(r, asked[r].answer)
  BY DEF Came
<1>2. CASE known[r] # None /\ list' = Lists!ListOf(r, known[r])
  <2>1. known[r] \in Answers
    BY <1>2 DEF ListTyped, LoadsTyped, Cached
  <2> QED
    BY <1>2, <2>1, ListOfIsShown
<1>3. CASE asked[r] # None /\ asked[r].answer # None /\ list' = Lists!ListOf(r, asked[r].answer)
  <2>1. asked[r].answer \in Answers
    BY <1>3 DEF ListTyped, LoadsTyped, Asked
  <2> QED
    BY <1>3, <2>1, ListOfIsShown
<1> QED
  BY <1>1, <1>2, <1>3

LEMMA FreshKept ==
    ASSUME ListTyped, ComingFresh, ChangesLater, ComesFromBefore, UNCHANGED <<listPage, own, changes>>,
           \A o \in ops' : o \in ops \/ o.st = "sent"
    PROVE  ComingFresh'
<1>1. \A a : Fresh(a) => Fresh(a)'
  <2> SUFFICES ASSUME NEW a, Fresh(a), a # None, NEW i \in Items
               PROVE  /\ own'[i] <= a.at[i]
                      /\ \A o \in ops' :
                           o.st = "done" /\ o.alone /\ Lists!Changing(o)' => o.at <= a.at[i]
    BY DEF Fresh
  <2>1. \A o : Lists!Changing(o)' <=> Lists!Changing(o)
    BY DEF Lists!Changing
  <2> QED
    BY <2>1 DEF Fresh
<1>2. Fresh(None) /\ Fresh(Lists!Held)
  BY HeldIsAnswer DEF Fresh, ComingFresh, ChangesLater
<1>3. ASSUME NEW r \in Queries
      PROVE  Fresh(known'[r]) /\ (asked'[r] # None => Fresh(asked'[r].answer))
  BY <1>2 DEF ComesFromBefore, ComingFresh
<1>4. \A i \in Items : own'[i] <= changes'
  BY DEF ComingFresh
<1>5. ASSUME NEW r \in Queries
      PROVE  Fresh(known[r])' /\ (asked'[r] # None => Fresh(asked[r].answer)')
  BY <1>1, <1>3 DEF Fresh
<1> QED
  BY <1>4, <1>5 DEF ComingFresh

(* What keeps ReadYourWrites as long as no change is answered.               *)
LEMMA WritesKept ==
    ASSUME ListTyped, WritesInv, ComesFromBefore, UNCHANGED <<listPage, own, changes>>,
           \A o \in ops' : \/ o \in ops
                           \/ o.st = "sent" /\ (Lists!Changing(o) => o.had = Lists!Invalidate),
           Came \/ (list' = list /\ (loading' \/ failed' \/ UNCHANGED <<loading, failed>>))
    PROVE  WritesInv'
<1>1. ComingFresh'
  BY FreshKept DEF WritesInv
<1>2. ChangesLater'
  BY DEF WritesInv, ChangesLater, Lists!Changing, Lists!Invalidate
<1>3. CASE Came
  <2>1. PICK r \in Queries, a \in Answers :
          /\ a = known[r] \/ (asked[r] # None /\ a = asked[r].answer)
          /\ list'.q = r /\ list'.rows = a.rows /\ list'.at = a.at
    BY <1>3, CameIsAnswer
  <2>2. Fresh(a) /\ a # None
    BY <2>1, NullIsNoList DEF WritesInv, ComingFresh
  <2>3. \A i \in Items : own'[i] <= list'.at[i] /\ own[i] \in Nat /\ a.at[i] \in Nat
    BY <2>1, <2>2 DEF Fresh, ListTyped, OpsTyped, Clocks, Answers
  <2>4. ReadYourWrites'
    BY <2>1, <2>3 DEF ReadYourWrites, Lists!ReadYourWrites
  <2> QED
    BY <1>1, <1>2, <2>4 DEF WritesInv
<1>4. CASE list' = list /\ (loading' \/ failed' \/ UNCHANGED <<loading, failed>>)
  BY <1>1, <1>2, <1>4 DEF WritesInv, ReadYourWrites, Lists!ReadYourWrites
<1> QED
  BY <1>3, <1>4

LEMMA ShowCounts ==
    ASSUME ListTyped, EndsInv, Lists!Same \/ Lists!Show(list')
    PROVE  /\ rewinds' \in Nat /\ rewinds <= rewinds'
           /\ ~listPage.tells => told' = told /\ before' = before
  BY DEF EndsInv, Lists!Same, Lists!Show, Lists!Announce

(* What keeps the announcements right as long as the rows stay.              *)
LEMMA EndsKept ==
    ASSUME ListTyped, EndsInv, UNCHANGED <<listPage, rows, changes>>, list' \in Shown,
           Lists!Same \/ Lists!Show(list'),
           listPage.tells => /\ ops' = {} /\ ~dialog'.open /\ dialog'.target = None
                             /\ ComesFromBefore /\ (list' = list \/ Came)
    PROVE  EndsInv'
<1>1. CASE ~listPage.tells
  BY <1>1, ShowCounts DEF EndsInv
<1>2. CASE listPage.tells
  <2>1. PICK over \in [Items -> 1..(changes + 1)] : EndedAt(over)
    BY <1>2 DEF EndsInv
  <2>2. \A a : /\ TellsFrom(a, over) => TellsFrom(a, over)'
             /\ TellsOf(a, over) => TellsOf(a, over)'
    BY DEF TellsFrom, TellsOf
  <2>3. TellsFrom(Lists!Held, over) /\ TellsFrom(None, over)
    BY <2>1, HeldIsAnswer DEF TellsFrom, TellsOf, EndedAt, ListTyped, OpsTyped
  <2>4. ASSUME NEW r \in Queries
        PROVE  TellsFrom(known'[r], over) /\ (asked'[r] # None => TellsFrom(asked'[r].answer, over))
    BY <1>2, <2>1, <2>3 DEF ComesFromBefore, EndedAt
  <2>5. TellsOf(list', over)
    <3>1. CASE list' = list
      BY <2>1, <3>1 DEF EndedAt
    <3>2. CASE Came
      <4>1. PICK r \in Queries, a \in Answers :
              /\ a = known[r] \/ (asked[r] # None /\ a = asked[r].answer)
              /\ list'.q = r /\ list'.rows = a.rows /\ list'.at = a.at
        BY <3>2, CameIsAnswer
      <4>2. TellsOf(a, over)
        BY <2>1, <4>1, NullIsNoList DEF EndedAt, TellsFrom
      <4> QED
        BY <4>1, <4>2 DEF TellsOf
    <3> QED
      BY <1>2, <3>1, <3>2
  <2>6. EndedAt(over)'
    BY <2>1, <2>2, <2>4, <2>5 DEF EndedAt, TellsFrom, TellsOf
  <2>7. told' \in [Items -> Nat] /\ before' \in Versions /\ Announced'
    <3>1. CASE Lists!Same
      BY <1>2, <3>1 DEF EndsInv, Lists!Same, Announced
    <3>2. CASE Lists!Show(list')
      <4>1. /\ told' = [i \in Items |-> IF Lists!Ended(i, before, list'.rows)
                                        THEN told[i] + 1 ELSE told[i]]
            /\ before' = [i \in Items |-> IF list'.rows[i] = 0 THEN before[i] ELSE list'.rows[i]]
            /\ rewinds' = IF \E i \in Items : list'.at[i] < list.at[i] THEN rewinds + 1 ELSE rewinds
        BY <1>2, <3>2 DEF Lists!Show, Lists!Announce
      <4>2. /\ list \in Shown /\ list' \in Shown
            /\ told \in [Items -> Nat] /\ before \in Versions /\ rewinds \in Nat
        BY DEF ListTyped, LoadsTyped, EndsInv
      <4>3. told' \in [Items -> Nat] /\ before' \in Versions
        BY <4>1, <4>2 DEF Shown, Versions
      <4>4. ASSUME NEW i \in Items
            PROVE  /\ list'.rows[i] # 0 => before'[i] = list'.rows[i]
                   /\ told'[i] <= rewinds' + (IF list'.rows[i] = Lists!Over THEN 1 ELSE 0)
        <5>1. /\ list.rows[i] # 0 => before[i] = list.rows[i]
              /\ told[i] <= rewinds + (IF list.rows[i] = Lists!Over THEN 1 ELSE 0)
          BY <1>2 DEF EndsInv, Announced
        <5>2. /\ list'.rows[i] = Lists!Over <=> over[i] <= list'.at[i]
              /\ list.rows[i] = Lists!Over <=> over[i] <= list.at[i]
          BY <2>1, <2>5 DEF EndedAt, TellsOf
        <5>3. list.rows[i] = Lists!Over /\ list'.rows[i] # Lists!Over => rewinds' = rewinds + 1
          BY <4>1, <4>2, <5>2, <2>1 DEF Shown, Clocks
        <5>4. rewinds' \in {rewinds, rewinds + 1}
          BY <4>1
        <5>5. told'[i] = IF before[i] = 1 /\ list'.rows[i] = Lists!Over THEN told[i] + 1 ELSE told[i]
          BY <4>1 DEF Lists!Ended
        <5>6. told[i] \in Nat /\ rewinds \in Nat
          BY <4>2
        <5> QED
          BY <4>1, <5>1, <5>3, <5>4, <5>5, <5>6 DEF Lists!Over
      <4> QED
        BY <4>3, <4>4 DEF Announced
    <3> QED
      BY <3>1, <3>2
  <2> QED
    BY <1>2, <2>1, <2>6, <2>7, ShowCounts DEF EndsInv
<1> QED
  BY <1>1, <1>2

(* The steps that leave the lists alone but for the cache: dialogs, requests *)
(* that are sent, the end of a cached list.                                  *)
LEMMA OpsKept ==
    ASSUME ListInv, OpsTyped',
           UNCHANGED <<query, list, asked, waiting, loading, failed, crossed, listPage, rows,
                       changes, own>>,
           Lists!Same,
           known' \in Cached, \A r \in Queries : known'[r] \in {known[r], None},
           \A o \in ops' : \/ o \in ops
                           \/ o.st = "sent" /\ (Lists!Changing(o) => o.had = Lists!Invalidate),
           listPage.tells => ops' = {} /\ ~dialog'.open /\ dialog'.target = None
    PROVE  ListInv'
<1>1. ListTyped'
  BY DEF ListInv, ListTyped, LoadsTyped
<1>2. AwaitedOfQuery' /\ ListOfQuery'
  BY DEF ListInv, AwaitedOfQuery, ListOfQuery, Lists!ListOfQuery
<1>3. ComesFromBefore
  BY DEF ComesFromBefore
<1>4. WritesInv'
  BY <1>3, WritesKept DEF ListInv
<1>5. EndsInv'
  BY <1>3, EndsKept DEF ListInv, ListTyped, LoadsTyped
<1> QED
  BY <1>1, <1>2, <1>4, <1>5 DEF ListInv

LEMMA DialogStep ==
    ASSUME ListInv, dialog' \in Dialogs, listPage.tells => ~dialog'.open /\ dialog'.target = None,
           UNCHANGED <<Lists!serverSide, Lists!loadSide, query, ops, crossed>>,
           batch' = [k \in Lists!Batches |-> batch'[k]],
           \A k \in Lists!Batches : batch'[k] # None => listPage.all
    PROVE  ListInv'
<1>1. UNCHANGED <<query, list, asked, waiting, loading, failed, crossed, listPage, rows,
                  changes, own, known, ops>> /\ Lists!Same
  BY DEF Lists!serverSide, Lists!loadSide, Lists!Same
<1>2. OpsTyped'
  BY <1>1 DEF ListInv, ListTyped, OpsTyped, IsRequest
<1>3. known' \in Cached
  BY <1>1 DEF ListInv, ListTyped, LoadsTyped
<1> QED
  BY <1>1, <1>2, <1>3, OpsKept DEF ListInv, EndsInv

LEMMA SendStep ==
    ASSUME ListInv, NEW by \in {"dialog", "row", "batch"}, NEW kind \in {"create", "delete", "act"},
           NEW i \in Items, Lists!Send(by, kind, i), ~listPage.tells,
           by = "batch" => listPage.all, by = "dialog" => kind # "act", dialog' \in Dialogs,
           batch' = [k \in Lists!Batches |-> batch'[k]],
           \A k \in Lists!Batches : batch'[k] # None => listPage.all
    PROVE  ListInv'
<1>1. UNCHANGED <<query, list, asked, waiting, loading, failed, crossed, listPage, rows,
                  changes, own>> /\ Lists!Same
  BY DEF Lists!Send, Lists!serverSide, Lists!Same
<1>2. PICK had, o :
        /\ had = IF kind = "act" /\ listPage.store THEN known ELSE Lists!Invalidate
        /\ known' = had /\ o = Lists!Request(by, kind, i, had) /\ ops' = ops \union {o}
  BY DEF Lists!Send
<1>3. had \in Cached /\ \A r \in Queries : had[r] \in {known[r], None}
  BY <1>2 DEF ListInv, ListTyped, LoadsTyped, Cached, Lists!Invalidate
<1>4. IsRequest(o) /\ o.by = by /\ o.kind = kind /\ o.st = "sent" /\ o.had = had
  BY <1>2, <1>3 DEF IsRequest, Lists!Request, Lists!Over
<1>5. Lists!Changing(o) => o.had = Lists!Invalidate
  BY <1>2, <1>4, PagesAre DEF PageFacts, Lists!Changing, ListInv, ListTyped, OpsTyped
<1>6. OpsTyped'
  BY <1>1, <1>2, <1>4 DEF ListInv, ListTyped, OpsTyped, IsRequest
<1> QED
  BY <1>1, <1>2, <1>3, <1>4, <1>5, <1>6, OpsKept

(* A load: of the query there was, or of another one.                        *)
LEMMA LoadStep ==
    ASSUME ListInv, NEW r \in Queries, Lists!Load(r, list), query' = r,
           IF r = query THEN crossed' = crossed ELSE crossed' = (crossed \/ waiting # {}),
           UNCHANGED <<listPage, rows, changes, own, ops, dialog, batch>>
    PROVE  ListInv'
<1>1. /\ known' = known /\ ~failed' /\ loading' \in BOOLEAN /\ failed' \in BOOLEAN
      /\ FromCache(r) \/ ByRequest(r, list)
      /\ list' \in Shown /\ asked' \in Asked /\ waiting' \subseteq Waiting
      /\ Lists!Show(list')
  BY LoadMoves DEF ListInv, ListTyped, LoadsTyped
<1>2. ListTyped'
  BY <1>1 DEF ListInv, ListTyped, LoadsTyped, OpsTyped, IsRequest
<1>3. ComesFromBefore
  BY <1>1 DEF ComesFromBefore, FromCache, ByRequest
<1>4. Came \/ (list' = list /\ loading')
  BY <1>1, NullIsNoList DEF Came, FromCache, ByRequest
<1>5. AwaitedOfQuery'
  <2>1. CASE r = query
    BY <1>1, <2>1 DEF ListInv, AwaitedOfQuery, FromCache, ByRequest
  <2>2. CASE r # query
    <3>1. ~crossed' => waiting = {} /\ \A s \in Queries : asked[s] = None
      BY <2>2 DEF ListInv, AwaitedOfQuery
    <3>2. CASE FromCache(r)
      BY <3>1, <3>2 DEF FromCache, AwaitedOfQuery
    <3>3. CASE ByRequest(r, list)
      BY <3>1, <3>3 DEF ByRequest, AwaitedOfQuery
    <3> QED
      BY <1>1, <3>2, <3>3
  <2> QED
    BY <2>1, <2>2
<1>6. ListOfQuery'
  BY <1>1, ListOfIsShown DEF ListOfQuery, Lists!ListOfQuery, FromCache, ByRequest
<1>7. WritesInv'
  BY <1>3, <1>4, WritesKept DEF ListInv
<1>8. EndsInv'
  BY <1>1, <1>3, <1>4, EndsKept DEF ListInv, EndsInv
<1> QED
  BY <1>2, <1>5, <1>6, <1>7, <1>8 DEF ListInv

LEMMA RefreshStep == ListInv /\ Lists!Refresh => ListInv'
<1> SUFFICES ASSUME ListInv, Lists!Refresh
             PROVE  ListInv'
  OBVIOUS
<1>1. /\ Lists!Load(query, list) /\ query' = query /\ crossed' = crossed
      /\ UNCHANGED <<listPage, rows, changes, own, ops, dialog, batch>>
  BY DEF Lists!Refresh, Lists!serverSide, Lists!batchSide
<1>2. query \in Queries
  BY DEF ListInv, ListTyped, LoadsTyped
<1> QED
  BY <1>1, <1>2, LoadStep

LEMMA ChangeQueryStep ==
    ASSUME ListInv, NEW r \in Queries, Lists!ChangeQuery(r)
    PROVE  ListInv'
<1>1. /\ Lists!Load(r, list) /\ query' = r /\ r # query /\ crossed' = (crossed \/ waiting # {})
      /\ UNCHANGED <<listPage, rows, changes, own, ops, dialog, batch>>
  BY DEF Lists!ChangeQuery, Lists!serverSide, Lists!batchSide
<1> QED
  BY <1>1, LoadStep

LEMMA PollStep == ListInv /\ Lists!Poll => ListInv'
<1> SUFFICES ASSUME ListInv, Lists!Poll
             PROVE  ListInv'
  OBVIOUS
<1>1. /\ UNCHANGED <<query, list, known, loading, failed, crossed, listPage, rows, changes, own,
                     ops, dialog, batch>>
      /\ Lists!Same /\ waiting' = waiting \union {<<query, "poll">>}
      /\ asked' = [asked EXCEPT ![query] = IF @ = None THEN [answer |-> None] ELSE @]
  BY DEF Lists!Poll, Lists!Ask, Lists!Same, Lists!serverSide, Lists!batchSide
<1>2. query \in Queries /\ asked \in Asked
  BY DEF ListInv, ListTyped, LoadsTyped
<1>3. /\ asked' \in Asked /\ \A r \in Queries \ {query} : asked'[r] = asked[r]
      /\ asked'[query] = (IF asked[query] = None THEN [answer |-> None] ELSE asked[query])
  BY <1>1, <1>2 DEF Asked
<1>4. ListTyped'
  BY <1>1, <1>2, <1>3 DEF ListInv, ListTyped, LoadsTyped, OpsTyped, IsRequest, Waiting
<1>5. ComesFromBefore
  BY <1>1, <1>3 DEF ComesFromBefore
<1>6. AwaitedOfQuery' /\ ListOfQuery'
  BY <1>1, <1>3 DEF ListInv, AwaitedOfQuery, ListOfQuery, Lists!ListOfQuery
<1>7. WritesInv'
  BY <1>1, <1>5, WritesKept DEF ListInv
<1>8. EndsInv'
  BY <1>1, <1>4, <1>5, EndsKept DEF ListInv, EndsInv, ListTyped, LoadsTyped
<1> QED
  BY <1>4, <1>6, <1>7, <1>8 DEF ListInv

LEMMA ServerReadsStep ==
    ASSUME ListInv, NEW r \in Queries, Lists!ServerReads(r)
    PROVE  ListInv'
<1>1. /\ UNCHANGED <<query, list, known, waiting, loading, failed, crossed, listPage, rows, changes,
                     own, ops, dialog, batch>>
      /\ Lists!Same /\ asked[r] # None /\ asked' = [asked EXCEPT ![r].answer = Lists!Held]
  BY DEF Lists!ServerReads, Lists!Same, Lists!serverSide, Lists!userSide
<1>2. asked \in Asked /\ Lists!Held \in Answers
  BY HeldIsAnswer DEF ListInv, ListTyped, LoadsTyped
<1>3. /\ asked' \in Asked /\ \A s \in Queries \ {r} : asked'[s] = asked[s]
      /\ asked'[r].answer = Lists!Held
  BY <1>1, <1>2 DEF Asked
<1>4. ListTyped'
  BY <1>1, <1>3 DEF ListInv, ListTyped, LoadsTyped, OpsTyped, IsRequest
<1>5. ComesFromBefore
  BY <1>1, <1>3 DEF ComesFromBefore
<1>6. AwaitedOfQuery' /\ ListOfQuery'
  BY <1>1, <1>3 DEF ListInv, AwaitedOfQuery, ListOfQuery, Lists!ListOfQuery
<1>7. WritesInv'
  BY <1>1, <1>5, WritesKept DEF ListInv
<1>8. EndsInv'
  BY <1>1, <1>4, <1>5, EndsKept DEF ListInv, EndsInv, ListTyped, LoadsTyped
<1> QED
  BY <1>4, <1>6, <1>7, <1>8 DEF ListInv

LEMMA AnswerStep ==
    ASSUME ListInv, NEW r \in Queries, Lists!Answer(r)
    PROVE  ListInv'
<1>1. /\ UNCHANGED <<query, failed, crossed, listPage, rows, changes, own, ops, dialog, batch>>
      /\ asked[r] # None /\ asked[r].answer # None
      /\ Lists!Show(Lists!ListOf(r, asked[r].answer))
      /\ known' = [known EXCEPT ![r] = asked[r].answer] /\ asked' = [asked EXCEPT ![r] = None]
      /\ waiting' = waiting \ {<<r, "fetch">>, <<r, "poll">>}
      /\ loading' = (loading /\ <<r, "fetch">> \notin waiting)
  BY DEF Lists!Answer, Lists!serverSide, Lists!userSide
<1>2. asked \in Asked /\ known \in Cached /\ asked[r].answer \in Answers
  BY <1>1 DEF ListInv, ListTyped, LoadsTyped, Asked
<1>3. list' = Lists!ListOf(r, asked[r].answer) /\ list' \in Shown /\ list'.q = r /\ Lists!Show(list')
  BY <1>1, <1>2, ListOfIsShown DEF Lists!Show
<1>4. /\ asked' \in Asked /\ \A s \in Queries \ {r} : asked'[s] = asked[s]
      /\ asked'[r] = None
  BY <1>1, <1>2 DEF Asked
<1>5. /\ known' \in Cached /\ \A s \in Queries \ {r} : known'[s] = known[s]
      /\ known'[r] = asked[r].answer
  BY <1>1, <1>2 DEF Cached
<1>6. ListTyped'
  BY <1>1, <1>3, <1>4, <1>5 DEF ListInv, ListTyped, LoadsTyped, OpsTyped, IsRequest
<1>7. ComesFromBefore /\ Came
  BY <1>1, <1>3, <1>4, <1>5 DEF ComesFromBefore, Came
<1>8. AwaitedOfQuery'
  BY <1>1, <1>4 DEF ListInv, AwaitedOfQuery
<1>9. ListOfQuery'
  BY <1>1, <1>3 DEF ListInv, AwaitedOfQuery, ListOfQuery, Lists!ListOfQuery
<1>10. WritesInv'
  BY <1>1, <1>7, WritesKept DEF ListInv
<1>11. EndsInv'
  BY <1>1, <1>3, <1>7, EndsKept DEF ListInv, EndsInv
<1> QED
  BY <1>6, <1>8, <1>9, <1>10, <1>11 DEF ListInv

LEMMA FailLoadStep ==
    ASSUME ListInv, NEW r \in Queries, Lists!FailLoad(r)
    PROVE  ListInv'
<1>1. /\ UNCHANGED <<query, list, known, crossed, listPage, rows, changes, own, ops, dialog, batch>>
      /\ asked[r] # None /\ Lists!Same
      /\ asked' = [asked EXCEPT ![r] = None]
      /\ waiting' = waiting \ {<<r, "fetch">>, <<r, "poll">>}
      /\ loading' = (loading /\ <<r, "fetch">> \notin waiting)
      /\ failed' = (failed \/ <<r, "fetch">> \in waiting)
  BY DEF Lists!FailLoad, Lists!Same, Lists!userSide
<1>2. asked \in Asked /\ loading \in BOOLEAN /\ failed \in BOOLEAN
  BY DEF ListInv, ListTyped, LoadsTyped
<1>3. /\ asked' \in Asked /\ \A s \in Queries \ {r} : asked'[s] = asked[s]
      /\ asked'[r] = None
  BY <1>1, <1>2 DEF Asked
<1>4. failed' \/ UNCHANGED <<loading, failed>>
  BY <1>1, <1>2
<1>5. ListTyped'
  BY <1>1, <1>3 DEF ListInv, ListTyped, LoadsTyped, OpsTyped, IsRequest
<1>6. ComesFromBefore
  BY <1>1, <1>3 DEF ComesFromBefore
<1>7. AwaitedOfQuery'
  BY <1>1, <1>3 DEF ListInv, AwaitedOfQuery
<1>8. ListOfQuery'
  BY <1>1, <1>4 DEF ListInv, ListOfQuery, Lists!ListOfQuery
<1>9. WritesInv'
  BY <1>1, <1>4, <1>6, WritesKept DEF ListInv
<1>10. EndsInv'
  BY <1>1, <1>5, <1>6, EndsKept DEF ListInv, EndsInv, ListTyped, LoadsTyped
<1> QED
  BY <1>5, <1>7, <1>8, <1>9, <1>10 DEF ListInv

LEMMA ExpireStep ==
    ASSUME ListInv, NEW r \in Queries, Lists!Expire(r)
    PROVE  ListInv'
<1>1. /\ UNCHANGED <<query, list, asked, waiting, loading, failed, crossed, listPage, rows, changes,
                     own, ops, dialog, batch>>
      /\ Lists!Same /\ known' = [known EXCEPT ![r] = None]
  BY DEF Lists!Expire, Lists!Same, Lists!serverSide, Lists!userSide
<1>2. known' \in Cached /\ \A s \in Queries : known'[s] \in {known[s], None}
  BY <1>1 DEF ListInv, ListTyped, LoadsTyped, Cached
<1>3. OpsTyped'
  BY <1>1 DEF ListInv, ListTyped, OpsTyped, IsRequest
<1> QED
  BY <1>1, <1>2, <1>3, OpsKept DEF ListInv, EndsInv

(* The server carries a request out, or somebody else changes a row.         *)
LEMMA ServerDoesStep ==
    ASSUME ListInv, NEW o \in ops, Lists!ServerDoes(o)
    PROVE  ListInv'
<1>1. /\ UNCHANGED <<query, list, known, asked, waiting, loading, failed, crossed, listPage, own,
                     dialog, batch>>
      /\ Lists!Same /\ o.st = "sent" /\ changes' = changes + 1
  BY DEF Lists!ServerDoes, Lists!Same, Lists!loadSide, Lists!batchSide
<1>2. /\ IsRequest(o) /\ o.item \in Items /\ rows \in Versions /\ changes \in Nat
      /\ o.by = "batch" => listPage.all
      /\ o.by = "dialog" => o.kind # "act"
  <2>1. OpsTyped
    BY DEF ListInv, ListTyped
  <2>2. rows \in Versions /\ changes \in Nat
    BY <2>1 DEF OpsTyped
  <2> QED
    BY <2>1, <2>2, OpFacts
<1>3. PICK v, done :
        /\ v \in 0..Lists!Over /\ rows' = [rows EXCEPT ![o.item] = v]
        /\ done = [o EXCEPT !.st = "done", !.val = v, !.at = changes + 1,
                            !.alone = Lists!Undisturbed(o)]
        /\ ops' = (ops \ {o}) \union {done}
  <2> DEFINE w == IF o.kind = "delete" THEN 0
                  ELSE IF Lists!Changing(o) THEN Lists!Next_(rows[o.item]) ELSE rows[o.item]
  <2>1. w \in 0..Lists!Over
    BY <1>2 DEF Versions, Lists!Next_, Lists!Over, IsRequest
  <2> QED
    BY <2>1 DEF Lists!ServerDoes
<1>4. Lists!Undisturbed(o) \in BOOLEAN
  BY DEF Lists!Undisturbed
<1>5. /\ IsRequest(done) /\ done.by = o.by /\ done.kind = o.kind /\ done.item = o.item
      /\ done.st = "done" /\ done.at = changes + 1 /\ done.had = o.had
      /\ done.alone = Lists!Undisturbed(o)
  <2>1. PICK alone \in BOOLEAN, now \in Nat :
          /\ alone = Lists!Undisturbed(o) /\ now = changes + 1
          /\ done = [o EXCEPT !.st = "done", !.val = v, !.at = now, !.alone = alone]
    <3>1. changes + 1 \in Nat
      BY <1>2
    <3> QED
      BY <1>3, <1>4, <3>1, Zenon
  <2>2. /\ done.by = o.by /\ done.kind = o.kind /\ done.item = o.item /\ done.n = o.n
        /\ done.st = "done" /\ done.at = now /\ done.had = o.had /\ done.alone = alone
    BY <1>2, <2>1 DEF IsRequest
  <2>3. done \in [by : {"dialog", "row", "batch"}, kind : {"create", "delete", "act"}, item : Items,
                  n : {o.n}, st : {"sent", "done"}, val : 0..Lists!Over, at : Nat, had : Cached,
                  alone : BOOLEAN]
    BY <1>2, <1>3, <2>1 DEF IsRequest
  <2> QED
    BY <2>1, <2>2, <2>3 DEF IsRequest
<1>6. ListTyped'
  <2>1. rows' \in Versions
    BY <1>2, <1>3 DEF Versions
  <2>2. ASSUME NEW p \in ops'
        PROVE  /\ IsRequest(p)
               /\ p.by = "batch" => listPage.all
               /\ p.by = "dialog" => p.kind # "act"
    <3>1. CASE p = done
      BY <1>2, <1>5, <3>1
    <3>2. CASE p \in ops
      BY <3>2, OpFacts DEF ListInv, ListTyped
    <3> QED
      BY <1>3, <3>1, <3>2
  <2> QED
    BY <1>1, <1>2, <2>1, <2>2 DEF ListInv, ListTyped, LoadsTyped, OpsTyped, IsRequest
<1>7. AwaitedOfQuery' /\ ListOfQuery'
  BY <1>1 DEF ListInv, AwaitedOfQuery, ListOfQuery, Lists!ListOfQuery
<1>8. own \in Clocks /\ \A i \in Items : own[i] <= changes /\ own[i] \in Nat
  BY DEF ListInv, ListTyped, OpsTyped, WritesInv, ComingFresh, Clocks
<1>9. \A p : Lists!Changing(p)' <=> Lists!Changing(p)
  BY <1>1 DEF Lists!Changing
<1>10. ASSUME done.alone, Lists!Changing(done), NEW r \in Queries
       PROVE  known[r] = None /\ asked[r] = None
  <2>1. o.had = Lists!Invalidate
    BY <1>5, <1>10 DEF ListInv, WritesInv, ChangesLater, Lists!Changing
  <2> QED
    BY <1>5, <1>10, <2>1 DEF Lists!Undisturbed, Lists!Invalidate
<1>11. ComingFresh'
  <2>1. ASSUME NEW a, Fresh(a), ~(done.alone /\ Lists!Changing(done)) \/ a = None
        PROVE  Fresh(a)'
    BY <1>1, <1>3, <1>9, <2>1 DEF Fresh
  <2>2. ASSUME NEW r \in Queries
        PROVE  Fresh(known[r])' /\ (asked'[r] # None => Fresh(asked[r].answer)')
    BY <1>1, <1>10, <2>1 DEF ListInv, WritesInv, ComingFresh
  <2>3. \A i \in Items : own'[i] <= changes'
    BY <1>1, <1>2, <1>8
  <2>4. known' = known /\ asked' = asked
    BY <1>1
  <2> QED
    BY <2>2, <2>3, <2>4 DEF ComingFresh, Fresh
<1>12. ChangesLater'
  <2>1. ASSUME NEW p \in ops
        PROVE  /\ p.st = "done" => own[p.item] < p.at /\ p.at <= changes + 1
               /\ Lists!Changing(p) => p.had = Lists!Invalidate
    <3>1. p.at \in Nat
      BY OpFacts DEF ListInv, ListTyped
    <3> QED
      BY <1>2, <3>1 DEF ListInv, WritesInv, ChangesLater
  <2>2. own[done.item] < done.at /\ done.at <= changes + 1
    BY <1>2, <1>5, <1>8 DEF IsRequest
  <2>3. Lists!Changing(done) => done.had = Lists!Invalidate
    BY <1>5, <2>1 DEF Lists!Changing
  <2> QED
    BY <1>1, <1>3, <1>9, <2>1, <2>2, <2>3 DEF ChangesLater, Lists!Invalidate
<1>13. WritesInv'
  BY <1>1, <1>11, <1>12 DEF ListInv, WritesInv, ReadYourWrites, Lists!ReadYourWrites
<1>14. EndsInv'
  <2>1. ~listPage.tells
    BY DEF ListInv, EndsInv
  <2> QED
    BY <1>1, <2>1 DEF ListInv, EndsInv, Lists!Same
<1> QED
  BY <1>6, <1>7, <1>13, <1>14 DEF ListInv

LEMMA OthersChangeStep ==
    ASSUME ListInv, NEW j \in Items, Lists!OthersChange(j)
    PROVE  ListInv'
<1>1. /\ UNCHANGED <<query, list, known, asked, waiting, loading, failed, crossed, listPage, own,
                     ops, dialog, batch>>
      /\ Lists!Same /\ changes' = changes + 1
  BY DEF Lists!OthersChange, Lists!Same, Lists!loadSide, Lists!userSide
<1>2. PICK v : /\ v = IF rows[j] = Lists!Over /\ ~listPage.tells THEN 0 ELSE Lists!Next_(rows[j])
               /\ rows' = [rows EXCEPT ![j] = v]
  BY DEF Lists!OthersChange
<1>3. rows \in Versions /\ changes \in Nat /\ v \in 0..Lists!Over
  BY <1>2 DEF ListInv, ListTyped, OpsTyped, Versions, Lists!Next_, Lists!Over
<1>4. rows' \in Versions
  BY <1>2, <1>3 DEF Versions
<1>5. ListTyped'
  BY <1>1, <1>3, <1>4 DEF ListInv, ListTyped, LoadsTyped, OpsTyped, IsRequest
<1>6. AwaitedOfQuery' /\ ListOfQuery'
  BY <1>1 DEF ListInv, AwaitedOfQuery, ListOfQuery, Lists!ListOfQuery
<1>7. ComingFresh'
  <2>1. \A i \in Items : own'[i] <= changes'
    BY <1>1, <1>3 DEF ListInv, ListTyped, OpsTyped, Clocks, WritesInv, ComingFresh
  <2> QED
    BY <1>1, <2>1 DEF ListInv, WritesInv, ComingFresh, Fresh, Lists!Changing
<1>8. ChangesLater'
  <2>1. ASSUME NEW p \in ops
        PROVE  /\ p.st = "done" => own[p.item] < p.at /\ p.at <= changes + 1
               /\ Lists!Changing(p) => p.had = Lists!Invalidate
    <3>1. p.at \in Nat
      BY OpFacts DEF ListInv, ListTyped
    <3> QED
      BY <1>3, <3>1 DEF ListInv, WritesInv, ChangesLater
  <2> QED
    BY <1>1, <2>1 DEF ChangesLater, Lists!Changing, Lists!Invalidate
<1>9. WritesInv'
  BY <1>1, <1>7, <1>8 DEF ListInv, WritesInv, ReadYourWrites, Lists!ReadYourWrites
<1>10. EndsInv'
  <2>1. CASE ~listPage.tells
    BY <1>1, <2>1 DEF ListInv, EndsInv, Lists!Same
  <2>2. CASE listPage.tells
    <3>1. PICK over \in [Items -> 1..(changes + 1)] : EndedAt(over)
      BY <2>2 DEF ListInv, EndsInv
    <3>2. PICK later \in [Items -> 1..(changes' + 1)] :
            \A i \in Items : /\ rows'[i] # Lists!Over => later[i] = changes + 2
                             /\ rows'[i] = Lists!Over => later[i] = over[i]
      <4> DEFINE moment == [i \in Items |-> IF rows'[i] # Lists!Over THEN changes + 2 ELSE over[i]]
      <4>1. moment \in [Items -> 1..(changes' + 1)]
        BY <1>1, <1>3, <3>1
      <4>2. \A i \in Items : /\ rows'[i] # Lists!Over => moment[i] = changes + 2
                             /\ rows'[i] = Lists!Over => moment[i] = over[i]
        OBVIOUS
      <4> QED
        BY <4>1, <4>2
    <3>4. \A i \in Items : rows[i] = Lists!Over => rows'[i] = Lists!Over
      BY <1>2, <1>3, <2>2 DEF Versions, Lists!Next_
    <3>5. \A i \in Items : over[i] <= changes + 1 /\ over[i] \in Nat
      BY <1>3, <3>1
    <3>6. ASSUME NEW a \in Answers \union Shown, TellsOf(a, over)
          PROVE  \A i \in Items : /\ a.at[i] <= changes'
                                  /\ a.rows[i] = Lists!Over <=> later[i] <= a.at[i]
      <4>1. ASSUME NEW i \in Items
            PROVE  a.at[i] <= changes' /\ (a.rows[i] = Lists!Over <=> later[i] <= a.at[i])
        <5>1. a.at[i] \in Nat /\ a.at[i] <= changes /\ (a.rows[i] = Lists!Over <=> over[i] <= a.at[i])
          BY <3>6 DEF TellsOf, Answers, Shown, Clocks
        <5>2. rows[i] = Lists!Over <=> over[i] <= changes
          BY <3>1 DEF EndedAt
        <5>3. over[i] <= changes + 1 /\ over[i] \in Nat
          BY <3>5
        <5>4. CASE rows'[i] # Lists!Over
          <6>1. later[i] = changes + 2 /\ rows[i] # Lists!Over
            BY <3>2, <3>4, <5>4
          <6> QED
            BY <1>1, <1>3, <5>1, <5>2, <5>3, <6>1
        <5>5. CASE rows'[i] = Lists!Over
          BY <1>1, <1>3, <3>2, <5>1, <5>5
        <5> QED
          BY <5>4, <5>5
      <4> QED
        BY <4>1
    <3>7. ASSUME NEW i \in Items
          PROVE  rows'[i] = Lists!Over <=> later[i] <= changes'
      BY <1>1, <1>3, <3>2, <3>5
    <3>8. \A r \in Queries : /\ known[r] # None => known[r] \in Answers
                             /\ asked[r] # None /\ asked[r].answer # None
                                  => asked[r].answer \in Answers
      BY DEF ListInv, ListTyped, LoadsTyped, Cached, Asked
    <3>9. EndedAt(later)'
      <4>1. TellsOf(list, later)'
        <5>1. list \in Shown /\ TellsOf(list, over) /\ list' = list
          BY <1>1, <3>1 DEF EndedAt, ListInv, ListTyped, LoadsTyped
        <5> QED
          BY <3>6, <5>1 DEF TellsOf
      <4>2. ASSUME NEW r \in Queries
            PROVE  TellsFrom(known[r], later)'
        <5>1. known[r] # None => known[r] \in Answers /\ TellsOf(known[r], over)
          BY <3>1, <3>8 DEF EndedAt, TellsFrom
        <5>2. known' = known
          BY <1>1
        <5> QED
          BY <3>6, <5>1, <5>2 DEF TellsFrom, TellsOf
      <4>3. ASSUME NEW r \in Queries, asked'[r] # None
            PROVE  TellsFrom(asked[r].answer, later)'
        <5>1. asked[r].answer # None => asked[r].answer \in Answers /\ TellsOf(asked[r].answer, over)
          BY <1>1, <3>1, <3>8, <4>3 DEF EndedAt, TellsFrom
        <5>2. asked' = asked
          BY <1>1
        <5> QED
          BY <3>6, <5>1, <5>2 DEF TellsFrom, TellsOf
      <4> QED
        BY <3>7, <4>1, <4>2, <4>3 DEF EndedAt
    <3> QED
      BY <1>1, <2>2, <3>2, <3>9 DEF ListInv, EndsInv, Announced, Lists!Same
  <2> QED
    BY <2>1, <2>2
<1> QED
  BY <1>5, <1>6, <1>9, <1>10 DEF ListInv

(* A mutation has ended: what becomes of the dialogs and of a batch.         *)
LEMMA ClosedIsDialog ==
    ASSUME OpsTyped, NEW o \in ops, NEW ok \in BOOLEAN
    PROVE  Lists!Closed(o, ok) \in Dialogs
<1>1. o.by # "dialog" \/ o.kind \in {"create", "delete"}
  BY OpFacts
<1>2. dialog \in Dialogs
  BY DEF OpsTyped, IsRequest
<1>3. CASE o.by # "dialog"
  <2>1. Lists!Closed(o, ok) = dialog
    BY <1>3 DEF Lists!Closed
  <2> QED
    BY <1>2, <2>1
<1>4. CASE o.by = "dialog" /\ o.kind = "create"
  <2>1. Lists!Closed(o, ok) = [dialog EXCEPT !.submitting = FALSE,
                                 !.open = @ /\ ~(ok /\ listPage.dialog.closes)]
    BY <1>4 DEF Lists!Closed
  <2>2. (dialog.open /\ ~(ok /\ listPage.dialog.closes)) \in BOOLEAN
    OBVIOUS
  <2> QED
    BY <1>2, <2>1, <2>2 DEF Dialogs
<1>5. CASE o.by = "dialog" /\ o.kind = "delete"
  <2>1. Lists!Closed(o, ok) = [dialog EXCEPT !.deleting = FALSE,
                                 !.target = IF ok \/ ~listPage.view.keeps THEN None ELSE @]
    BY <1>5 DEF Lists!Closed
  <2> QED
    BY <1>2, <2>1 DEF Dialogs
<1> QED
  BY <1>1, <1>3, <1>4, <1>5

LEMMA StepOfBatch ==
    ASSUME OpsTyped, NEW o \in ops, NEW ok \in BOOLEAN, Lists!Step(o, ok)
    PROVE  /\ batch' = [k \in Lists!Batches |-> batch'[k]]
           /\ \A k \in Lists!Batches : batch'[k] # None => listPage.all
<1>1. CASE o.by # "batch"
  <2>1. batch' = batch
    BY <1>1 DEF Lists!Step, Lists!batchSide
  <2> QED
    BY <2>1 DEF OpsTyped
<1>2. CASE o.by = "batch"
  <2>1. listPage.all
    BY <1>2, OpFacts
  <2>2. \E b : batch' = [batch EXCEPT ![o.kind] = b]
    BY <1>2 DEF Lists!Step
  <2> QED
    BY <2>1, <2>2 DEF OpsTyped
<1> QED
  BY <1>1, <1>2

LEMMA FailOpStep ==
    ASSUME ListInv, NEW o \in ops, Lists!FailOp(o)
    PROVE  ListInv'
<1>1. /\ UNCHANGED <<listPage, rows, changes, own, query, crossed>>
      /\ ops' = ops \ {o} /\ dialog' = Lists!Closed(o, FALSE)
      /\ Lists!Refreshed(o, FALSE, list) /\ Lists!Step(o, FALSE)
  BY DEF Lists!FailOp
<1>2. query \in Queries /\ list \in Shown
  BY DEF ListInv, ListTyped, LoadsTyped
<1>3. /\ known' = known /\ loading' \in BOOLEAN /\ failed' \in BOOLEAN
      /\ list' \in Shown /\ asked' \in Asked /\ waiting' \subseteq Waiting /\ Lists!Show(list')
      /\ \/ FromCache(query)
         \/ ByRequest(query, list)
         \/ list' = list /\ UNCHANGED <<asked, waiting, loading, failed>>
  BY <1>1, <1>2, RefreshMoves DEF ListInv, ListTyped
<1>4. ListTyped'
  BY <1>1, <1>3, ClosedIsDialog, StepOfBatch DEF ListInv, ListTyped, LoadsTyped, OpsTyped, IsRequest
<1>5. ComesFromBefore
  BY <1>3 DEF ComesFromBefore, FromCache, ByRequest
<1>6. Came \/ (list' = list /\ (loading' \/ failed' \/ UNCHANGED <<loading, failed>>))
  BY <1>2, <1>3, NullIsNoList DEF Came, FromCache, ByRequest
<1>7. AwaitedOfQuery'
  BY <1>1, <1>2, <1>3 DEF ListInv, AwaitedOfQuery, FromCache, ByRequest
<1>8. ListOfQuery'
  BY <1>1, <1>2, <1>3, ListOfIsShown DEF ListInv, ListOfQuery, Lists!ListOfQuery, FromCache, ByRequest
<1>9. WritesInv'
  BY <1>1, <1>5, <1>6, WritesKept DEF ListInv
<1>10. EndsInv'
  BY <1>1, <1>3, EndsKept DEF ListInv, EndsInv
<1> QED
  BY <1>4, <1>7, <1>8, <1>9, <1>10 DEF ListInv

LEMMA AnswerOpStep ==
    ASSUME ListInv, NEW o \in ops, Lists!AnswerOp(o)
    PROVE  ListInv'
<1> DEFINE counts == Lists!Changing(o) /\ o.alone /\ \A p \in ops \ {o} : p.item # o.item
<1>1. /\ UNCHANGED <<listPage, rows, changes, query, crossed>> /\ o.st = "done"
      /\ ops' = ops \ {o} /\ dialog' = Lists!Closed(o, TRUE)
      /\ own' = IF counts THEN [own EXCEPT ![o.item] = o.at] ELSE own
      /\ Lists!Refreshed(o, TRUE, Lists!Applied(o)) /\ Lists!Step(o, TRUE)
  BY DEF Lists!AnswerOp
<1>2. /\ query \in Queries /\ list \in Shown /\ IsRequest(o) /\ own \in Clocks /\ changes \in Nat
      /\ o.by = "batch" => listPage.all
  <2>1. LoadsTyped /\ OpsTyped
    BY DEF ListInv, ListTyped
  <2>2. query \in Queries /\ list \in Shown /\ own \in Clocks /\ changes \in Nat
    BY <2>1 DEF LoadsTyped, OpsTyped
  <2> QED
    BY <2>1, <2>2, OpFacts
<1>3. PICK shown \in Shown :
        /\ shown = Lists!Applied(o) /\ shown.q = list.q
        /\ \A i \in Items : shown.at[i] = IF listPage.store /\ Lists!Changing(o) /\ i = o.item
                                          THEN o.at ELSE list.at[i]
  BY <1>2, AppliedIsShown DEF ListInv, ListTyped
<1>4. /\ known' = known /\ loading' \in BOOLEAN /\ failed' \in BOOLEAN
      /\ list' \in Shown /\ asked' \in Asked /\ waiting' \subseteq Waiting /\ Lists!Show(list')
      /\ IF Lists!Reloads(o, TRUE)
         THEN ~failed' /\ (FromCache(query) \/ ByRequest(query, shown))
         ELSE list' = shown /\ UNCHANGED <<asked, waiting, loading, failed>>
  BY <1>1, <1>3, RefreshMoves DEF ListInv, ListTyped
<1>5. /\ o.item \in Items /\ o.at \in Nat /\ own[o.item] < o.at /\ o.at <= changes
      /\ own' \in Clocks
      /\ \A i \in Items : own'[i] = IF counts /\ i = o.item THEN o.at ELSE own[i]
  <2>1. o.item \in Items /\ o.at \in Nat
    BY <1>2 DEF IsRequest
  <2>2. own[o.item] < o.at /\ o.at <= changes
    BY <1>1 DEF ListInv, WritesInv, ChangesLater
  <2> HIDE DEF counts
  <2> QED
    BY <1>1, <1>2, <2>1, <2>2 DEF Clocks
<1>6. ListTyped'
  <2>1. LoadsTyped'
    BY <1>1, <1>4 DEF ListInv, ListTyped, LoadsTyped
  <2>2. /\ dialog' \in Dialogs /\ batch' = [k \in Lists!Batches |-> batch'[k]]
        /\ \A k \in Lists!Batches : batch'[k] # None => listPage.all
    BY <1>1, ClosedIsDialog, StepOfBatch DEF ListInv, ListTyped
  <2>3. OpsTyped'
    BY <1>1, <1>5, <2>2 DEF ListInv, ListTyped, OpsTyped, IsRequest
  <2> QED
    BY <2>1, <2>3 DEF ListTyped
<1>7. AwaitedOfQuery'
  <2>1. CASE Lists!Reloads(o, TRUE)
    BY <1>1, <1>2, <1>4, <2>1 DEF ListInv, AwaitedOfQuery, FromCache, ByRequest
  <2>2. CASE ~Lists!Reloads(o, TRUE)
    BY <1>1, <1>2, <1>4, <2>2 DEF ListInv, AwaitedOfQuery
  <2> QED
    BY <2>1, <2>2
<1>8. ListOfQuery'
  <2>1. CASE Lists!Reloads(o, TRUE)
    <3>1. FromCache(query) => list'.q = query
      BY <1>2, ListOfIsShown DEF FromCache
    <3> QED
      BY <1>1, <1>4, <2>1, <3>1 DEF ListOfQuery, Lists!ListOfQuery, ByRequest
  <2>2. CASE ~Lists!Reloads(o, TRUE)
    BY <1>1, <1>3, <1>4, <2>2 DEF ListInv, ListOfQuery, Lists!ListOfQuery
  <2> QED
    BY <2>1, <2>2
<1>9. ASSUME NEW a, Fresh(a)
      PROVE  Fresh(a)'
  <2>1. \A p : Lists!Changing(p)' <=> Lists!Changing(p)
    BY <1>1 DEF Lists!Changing
  <2> QED
    BY <1>1, <1>5, <1>9, <2>1 DEF Fresh
<1>10. ComingFresh'
  <2>1. \A i \in Items : own'[i] <= changes'
    BY <1>1, <1>5 DEF ListInv, WritesInv, ComingFresh
  <2>2. ASSUME NEW r \in Queries
        PROVE  Fresh(known[r])' /\ (asked'[r] # None => Fresh(asked'[r].answer))
    <3>1. Fresh(known[r]) /\ (asked[r] # None => Fresh(asked[r].answer))
      BY DEF ListInv, WritesInv, ComingFresh
    <3>2. asked'[r] # None => asked'[r].answer = None
                              \/ (asked[r] # None /\ asked'[r].answer = asked[r].answer)
      <4>1. CASE Lists!Reloads(o, TRUE)
        BY <1>2, <1>4, <4>1 DEF FromCache, ByRequest
      <4>2. CASE ~Lists!Reloads(o, TRUE)
        BY <1>4, <4>2
      <4> QED
        BY <4>1, <4>2
    <3>3. Fresh(known[r])'
      BY <1>4, <1>9, <3>1 DEF Fresh
    <3> QED
      BY <3>1, <3>2, <3>3 DEF Fresh
  <2>3. ASSUME NEW r \in Queries, asked'[r] # None
        PROVE  Fresh(asked[r].answer)'
    BY <1>9, <2>2, <2>3 DEF Fresh
  <2> QED
    BY <1>4, <2>1, <2>2, <2>3 DEF ComingFresh, Fresh
<1>11. ChangesLater'
  <2>1. ASSUME NEW p \in ops'
        PROVE  p.st = "done" => own'[p.item] < p.at /\ p.at <= changes
    <3>1. p \in ops /\ p # o /\ p.item \in Items
      <4>1. p \in ops /\ p # o
        BY <1>1
      <4> QED
        BY <4>1, OpFacts DEF ListInv, ListTyped
    <3>2. own'[p.item] = own[p.item]
      BY <1>5, <3>1
    <3> QED
      BY <3>1, <3>2 DEF ListInv, WritesInv, ChangesLater
  <2> QED
    BY <1>1, <2>1 DEF ListInv, WritesInv, ChangesLater, Lists!Changing, Lists!Invalidate
<1>12. ReadYourWrites'
  <2>1. CASE FromCache(query)
    <3>1. Fresh(known[query]) /\ known[query] \in Answers
      BY <1>2, <2>1 DEF ListInv, WritesInv, ComingFresh, FromCache
    <3>2. list'.at = known[query].at
      BY <1>2, <2>1, ListOfIsShown DEF FromCache
    <3>3. ASSUME NEW i \in Items
          PROVE  own'[i] <= list'.at[i] /\ own'[i] \in Nat /\ list'.at[i] \in Nat
      <4>1. own[i] <= list'.at[i] /\ (counts => o.at <= list'.at[i])
        BY <1>1, <3>1, <3>2, NullIsNoList DEF Fresh
      <4> QED
        BY <1>4, <1>5, <4>1 DEF Clocks, Shown
    <3> QED
      BY <3>3 DEF ReadYourWrites, Lists!ReadYourWrites
  <2>2. CASE loading'
    BY <2>2 DEF ReadYourWrites, Lists!ReadYourWrites
  <2>3. CASE ~Lists!Reloads(o, TRUE)
    <3>1. list' = shown /\ UNCHANGED <<loading, failed>>
      BY <1>4, <2>3
    <3>2. counts => listPage.store
      BY <1>2, <2>3, PagesAre DEF Lists!Reloads, ListInv, ListTyped, OpsTyped, PageFacts
    <3>3. ASSUME NEW i \in Items, ~loading, ~failed
          PROVE  own'[i] <= list'.at[i] /\ own'[i] \in Nat /\ list'.at[i] \in Nat
      <4>1. own[i] <= list.at[i] /\ own[i] \in Nat /\ list.at[i] \in Nat
        BY <1>2, <3>3 DEF ListInv, WritesInv, ReadYourWrites, Lists!ReadYourWrites, Shown, Clocks
      <4>2. list'.at[i] = IF listPage.store /\ Lists!Changing(o) /\ i = o.item
                          THEN o.at ELSE list.at[i]
        BY <1>3, <3>1
      <4> QED
        BY <1>5, <3>2, <4>1, <4>2
    <3> QED
      BY <3>1, <3>3 DEF ReadYourWrites, Lists!ReadYourWrites
  <2> QED
    BY <1>4, <2>1, <2>2, <2>3 DEF ByRequest
<1>13. EndsInv'
  BY <1>1, <1>4, EndsKept DEF ListInv, EndsInv
<1> QED
  BY <1>6, <1>7, <1>8, <1>10, <1>11, <1>12, <1>13 DEF ListInv, WritesInv

(* The dialogs, and the requests the user sends.                             *)
LEMMA DialogActions ==
    ListInv /\ (\/ Lists!OpenAdd \/ Lists!CloseAdd \/ Lists!CancelDelete
                \/ \E i \in Items : Lists!AskDelete(i)) => ListInv'
<1> SUFFICES ASSUME ListInv, Lists!OpenAdd \/ Lists!CloseAdd \/ Lists!CancelDelete
                             \/ \E i \in Items : Lists!AskDelete(i)
             PROVE  ListInv'
  OBVIOUS
<1>1. /\ UNCHANGED <<Lists!serverSide, Lists!loadSide, query, ops, crossed>> /\ batch' = batch
  BY DEF Lists!OpenAdd, Lists!CloseAdd, Lists!CancelDelete, Lists!AskDelete, Lists!batchSide
<1>2. dialog \in Dialogs
  BY DEF ListInv, ListTyped, OpsTyped, IsRequest
<1>3. dialog' \in Dialogs
  BY <1>2 DEF Lists!OpenAdd, Lists!CloseAdd, Lists!CancelDelete, Lists!AskDelete, Dialogs
<1>4. listPage.tells => ~dialog'.open /\ dialog'.target = None
  <2> SUFFICES ASSUME listPage.tells
               PROVE  ~dialog'.open /\ dialog'.target = None
    OBVIOUS
  <2>1. ~listPage.view.creates /\ ~listPage.view.deletes
    BY PagesAre DEF PageFacts, ListInv, ListTyped, OpsTyped
  <2>2. ~dialog.open /\ dialog.target = None
    BY DEF ListInv, EndsInv
  <2> QED
    BY <2>1, <2>2 DEF Lists!OpenAdd, Lists!CloseAdd, Lists!CancelDelete, Lists!AskDelete
<1>5. /\ batch' = [k \in Lists!Batches |-> batch'[k]]
      /\ \A k \in Lists!Batches : batch'[k] # None => listPage.all
  BY <1>1 DEF ListInv, ListTyped, OpsTyped
<1> QED
  BY <1>1, <1>3, <1>4, <1>5, DialogStep

LEMMA StartBatchStep ==
    ASSUME ListInv, NEW kind \in Lists!Batches, NEW chosen \in SUBSET Items,
           Lists!StartBatch(kind, chosen)
    PROVE  ListInv'
<1>1. /\ UNCHANGED <<Lists!serverSide, Lists!loadSide, query, ops, crossed, dialog>>
      /\ listPage.all /\ \E b : batch' = [batch EXCEPT ![kind] = b]
  BY DEF Lists!StartBatch
<1>2. dialog' \in Dialogs /\ (listPage.tells => ~dialog'.open /\ dialog'.target = None)
  BY <1>1 DEF ListInv, ListTyped, OpsTyped, IsRequest, EndsInv
<1>3. batch' = [k \in Lists!Batches |-> batch'[k]]
  BY <1>1 DEF ListInv, ListTyped, OpsTyped
<1> QED
  BY <1>1, <1>2, <1>3, DialogStep

LEMMA SendActions ==
    ASSUME ListInv,
           \/ Lists!ConfirmDelete
           \/ \E i \in Items : Lists!Submit(i) \/ Lists!Act(i)
           \/ \E k \in Lists!Batches, i \in Items : Lists!NextOfBatch(k, i)
    PROVE  ListInv'
<1>1. /\ dialog \in Dialogs /\ batch = [k \in Lists!Batches |-> batch[k]]
      /\ \A k \in Lists!Batches : batch[k] # None => listPage.all
  BY DEF ListInv, ListTyped, OpsTyped, IsRequest
<1>2. /\ listPage.tells => ~dialog.open /\ dialog.target = None
      /\ listPage.tells => listPage.view.acts = "no" /\ ~listPage.all
  BY PagesAre DEF PageFacts, ListInv, ListTyped, OpsTyped, EndsInv
<1>3. CASE Lists!ConfirmDelete
  <2>1. /\ dialog.target # None /\ dialog' = [dialog EXCEPT !.deleting = TRUE]
        /\ Lists!Send("dialog", "delete", dialog.target) /\ batch' = batch
    BY <1>3 DEF Lists!ConfirmDelete, Lists!batchSide
  <2>2. dialog' \in Dialogs /\ dialog.target \in Items
    BY <1>1, <2>1 DEF Dialogs
  <2> QED
    BY <1>1, <1>2, <2>1, <2>2, SendStep
<1>4. ASSUME NEW i \in Items, Lists!Submit(i)
      PROVE  ListInv'
  <2>1. /\ dialog.open /\ dialog' = [dialog EXCEPT !.submitting = TRUE]
        /\ Lists!Send("dialog", "create", i) /\ batch' = batch
    BY <1>4 DEF Lists!Submit, Lists!batchSide
  <2>2. dialog' \in Dialogs
    BY <1>1, <2>1 DEF Dialogs
  <2> QED
    BY <1>1, <1>2, <2>1, <2>2, SendStep
<1>5. ASSUME NEW i \in Items, Lists!Act(i)
      PROVE  ListInv'
  <2>1. /\ listPage.view.acts # "no" /\ dialog' = dialog
        /\ Lists!Send("row", "act", i) /\ batch' = batch
    BY <1>5 DEF Lists!Act, Lists!batchSide
  <2> QED
    BY <1>1, <1>2, <2>1, SendStep
<1>6. ASSUME NEW k \in Lists!Batches, NEW i \in Items, Lists!NextOfBatch(k, i)
      PROVE  ListInv'
  <2>1. /\ batch[k] # None /\ dialog' = dialog /\ Lists!Send("batch", k, i)
        /\ batch' = [batch EXCEPT ![k].left = @ \ {i}, ![k].tried = @ \union {i}, ![k].waits = TRUE]
    BY <1>6 DEF Lists!NextOfBatch
  <2>2. listPage.all /\ k \in {"create", "delete", "act"}
    BY <1>1, <2>1 DEF Lists!Batches
  <2>3. batch' = [j \in Lists!Batches |-> batch'[j]]
    BY <1>1, <2>1
  <2> QED
    BY <1>1, <1>2, <2>1, <2>2, <2>3, SendStep
<1> QED
  BY <1>3, <1>4, <1>5, <1>6

LEMMA ListInitInv ==
    ASSUME NEW pages \in SUBSET Lists!AllPages, Lists!ListInitOf(pages)
    PROVE  ListInv
<1>1. /\ listPage \in Lists!AllPages /\ changes = 0 /\ query \in Queries /\ list = Lists!Empty
      /\ rows = [i \in Items |-> IF listPage.view.creates THEN 0 ELSE 1]
      /\ known = Lists!Invalidate /\ asked = [Lists!Invalidate EXCEPT ![query] = [answer |-> None]]
      /\ waiting = {<<query, "fetch">>} /\ loading = TRUE /\ failed = FALSE /\ ops = {}
      /\ dialog = [open |-> FALSE, submitting |-> FALSE, target |-> None, deleting |-> FALSE]
      /\ batch = [k \in Lists!Batches |-> None]
      /\ own = [i \in Items |-> 0] /\ told = [i \in Items |-> 0] /\ before = [i \in Items |-> 0]
      /\ rewinds = 0 /\ crossed = FALSE
  BY DEF Lists!ListInitOf
<1>2. known \in Cached /\ \A r \in Queries : known[r] = None
  BY <1>1 DEF Cached, Lists!Invalidate
<1>3. /\ asked \in Asked /\ asked[query] = [answer |-> None]
      /\ \A r \in Queries \ {query} : asked[r] = None
  BY <1>1 DEF Asked, Lists!Invalidate
<1>4. list \in Shown /\ \A i \in Items : list.rows[i] = 0 /\ list.at[i] = 0
  BY <1>1 DEF Shown, Lists!Empty, Versions, Clocks, Lists!Over
<1>5. waiting \subseteq Waiting
  BY <1>1 DEF Waiting
<1>6. dialog \in Dialogs /\ ~dialog.open /\ dialog.target = None
  BY <1>1 DEF Dialogs
<1>7. /\ rows \in Versions /\ own \in Clocks /\ told \in [Items -> Nat] /\ before \in Versions
      /\ \A i \in Items : own[i] = 0 /\ told[i] = 0 /\ rows[i] \in {0, 1}
  BY <1>1 DEF Versions, Clocks, Lists!Over
<1>8. ListTyped
  BY <1>1, <1>2, <1>3, <1>4, <1>5, <1>6, <1>7 DEF ListTyped, LoadsTyped, OpsTyped
<1>9. AwaitedOfQuery /\ ListOfQuery
  BY <1>1, <1>3 DEF AwaitedOfQuery, ListOfQuery, Lists!ListOfQuery
<1>10. WritesInv
  <2>1. ComingFresh
    BY <1>1, <1>2, <1>3, <1>7 DEF ComingFresh, Fresh
  <2> QED
    BY <1>1, <2>1 DEF WritesInv, ChangesLater, ReadYourWrites, Lists!ReadYourWrites
<1>11. EndsInv
  <2>1. PICK over \in [Items -> 1..(changes + 1)] : \A i \in Items : over[i] = 1
    <3> DEFINE moment == [i \in Items |-> 1]
    <3>1. moment \in [Items -> 1..(changes + 1)]
      BY <1>1
    <3> QED
      BY <3>1
  <2>2. EndedAt(over)
    BY <1>1, <1>2, <1>3, <1>4, <1>7, <2>1 DEF EndedAt, TellsFrom, TellsOf, Lists!Over
  <2>3. Announced
    BY <1>1, <1>4, <1>7 DEF Announced, Lists!Over
  <2> QED
    BY <1>1, <1>6, <1>7, <2>2, <2>3 DEF EndsInv
<1> QED
  BY <1>8, <1>9, <1>10, <1>11 DEF ListInv

LEMMA ListStep == ListInv /\ [Next]_vars => ListInv'
<1> SUFFICES ASSUME ListInv, [Next]_vars
             PROVE  ListInv'
  OBVIOUS
<1>1. CASE UNCHANGED listVars
  <2>1. /\ UNCHANGED <<Lists!serverSide, Lists!loadSide, query, ops, crossed>>
        /\ dialog' = dialog /\ batch' = batch
    BY <1>1 DEF listVars, Lists!serverSide, Lists!loadSide
  <2>2. /\ dialog' \in Dialogs /\ batch' = [k \in Lists!Batches |-> batch'[k]]
        /\ \A k \in Lists!Batches : batch'[k] # None => listPage.all
        /\ listPage.tells => ~dialog'.open /\ dialog'.target = None
    BY <2>1 DEF ListInv, ListTyped, OpsTyped, IsRequest, EndsInv
  <2> QED
    BY <2>1, <2>2, DialogStep
<1>2. CASE Lists!ListNext
  <2>1. CASE Lists!Refresh \/ Lists!Poll
    BY <2>1, RefreshStep, PollStep
  <2>2. CASE \/ Lists!OpenAdd \/ Lists!CloseAdd \/ Lists!CancelDelete
             \/ \E i \in Items : Lists!AskDelete(i)
    BY <2>2, DialogActions
  <2>3. ASSUME NEW r \in Queries, \/ Lists!ChangeQuery(r) \/ Lists!ServerReads(r) \/ Lists!Answer(r)
                                  \/ Lists!FailLoad(r) \/ Lists!Expire(r)
        PROVE  ListInv'
    BY <2>3, ChangeQueryStep, ServerReadsStep, AnswerStep, FailLoadStep, ExpireStep
  <2>4. CASE \/ Lists!ConfirmDelete
             \/ \E i \in Items : Lists!Submit(i) \/ Lists!Act(i)
             \/ \E k \in Lists!Batches, i \in Items : Lists!NextOfBatch(k, i)
    BY <2>4, SendActions
  <2>5. ASSUME NEW i \in Items, Lists!OthersChange(i)
        PROVE  ListInv'
    BY <2>5, OthersChangeStep
  <2>6. ASSUME NEW k \in Lists!Batches, NEW chosen \in SUBSET Items, Lists!StartBatch(k, chosen)
        PROVE  ListInv'
    BY <2>6, StartBatchStep
  <2>7. ASSUME NEW o \in ops, Lists!ServerDoes(o) \/ Lists!AnswerOp(o) \/ Lists!FailOp(o)
        PROVE  ListInv'
    BY <2>7, ServerDoesStep, AnswerOpStep, FailOpStep
  <2> QED
    BY <1>2, <2>1, <2>2, <2>3, <2>4, <2>5, <2>6, <2>7 DEF Lists!ListNext
<1> QED
  BY <1>1, <1>2 DEF Next, vars

LEMMA ListInvariant == Spec => []ListInv
<1>1. Init => ListInv
  <2> SUFFICES ASSUME Init
               PROVE  ListInv
    OBVIOUS
  <2>1. PICK pages \in SUBSET Lists!AllPages : Lists!ListInitOf(pages)
    <3>1. Lists!ListInitOf(IF part = "list pages" THEN Lists!AllPages ELSE {Lists!ServiceAccountsPage})
      BY DEF Init
    <3>2. {Lists!ServiceAccountsPage} \subseteq Lists!AllPages
      BY DEF Lists!AllPages
    <3> QED
      BY <3>1, <3>2
  <2> QED
    BY <2>1, ListInitInv
<1> QED
  BY <1>1, ListStep, PTL DEF Spec

(* The list on display is that of the filter chosen last, unless the filter  *)
(* was changed while another list was awaited: a page asks for its list in   *)
(* the effect that depends on the filter, and no answer says of which filter *)
(* it is (pages/Executions.tsx, pages/ToolsLibrary.tsx).                     *)
THEOREM ConsoleListOfQuery == Spec => []ListOfQuery
<1>1. ListInv => ListOfQuery
  BY DEF ListInv
<1> QED
  BY <1>1, ListInvariant, PTL

(* A user sees what she changed: what a page shows of a row is not older     *)
(* than the last change she was told of, by whichever page, dialog, button   *)
(* or batch it was made, and whatever else was in flight, answered from the  *)
(* cache (api/client.ts) or put into the store (stores/resourceStore.ts).    *)
THEOREM ConsoleReadYourWrites == Spec => []ReadYourWrites
<1>1. ListInv => ReadYourWrites
  BY DEF ListInv, WritesInv
<1> QED
  BY <1>1, ListInvariant, PTL

(* The end of an execution is announced at most once more than the list went *)
(* back to an older answer: prevStatuses of pages/Executions.tsx remembers   *)
(* what was seen last, not that it was announced.                            *)
THEOREM ConsoleAnnouncedOnce == Spec => []AnnouncedOnce
<1>1. ListInv => AnnouncedOnce
  <2> SUFFICES ASSUME ListInv, NEW i \in Items
               PROVE  told[i] <= 1 + rewinds
    BY DEF AnnouncedOnce, Lists!AnnouncedOnce
  <2>1. told[i] \in Nat /\ rewinds \in Nat
    BY DEF ListInv, EndsInv
  <2>2. CASE listPage.tells
    BY <2>1, <2>2 DEF ListInv, EndsInv, Announced
  <2>3. CASE ~listPage.tells
    BY <2>1, <2>3 DEF ListInv, EndsInv
  <2> QED
    BY <2>2, <2>3
<1> QED
  BY <1>1, ListInvariant, PTL

\* What the lists count, and the buttons they lock.
ListCounted == changes <= MaxChanges /\ looks \in 0..MaxLooks /\ busy \subseteq Items

\* What a step does to them.
ListMoves ==
    /\ \/ changes' = changes
       \/ changes < MaxChanges /\ changes' = changes + 1
    /\ \/ looks' = looks
       \/ looks < MaxLooks /\ looks' = looks + 1
       \/ \E chosen \in SUBSET Items : looks' = looks + Cardinality(chosen) /\ looks' <= MaxLooks
    /\ \/ busy' \subseteq busy
       \/ \E i \in Items : busy' \in {{i}, busy \union {i}}

(* Every step of the lists changes them so. *)
LEMMA ListMovesBy ==
    ASSUME Lists!ListNext \/ UNCHANGED listVars
    PROVE  ListMoves
<1>1. CASE Lists!Refresh \/ Lists!Poll \/ \E q \in Queries : Lists!ChangeQuery(q)
  <2>1. /\ UNCHANGED <<Lists!serverSide, busy>>
        /\ looks < MaxLooks /\ looks' = looks + 1
    BY <1>1 DEF Lists!Refresh, Lists!Poll, Lists!ChangeQuery, Lists!Look
  <2> QED
    BY <2>1 DEF ListMoves, Lists!serverSide
<1>2. CASE \/ Lists!OpenAdd \/ Lists!CloseAdd \/ Lists!CancelDelete
           \/ \E i \in Items : Lists!AskDelete(i)
  BY <1>2 DEF ListMoves, Lists!OpenAdd, Lists!CloseAdd, Lists!CancelDelete, Lists!AskDelete,
     Lists!serverSide
<1>3. ASSUME NEW q \in Queries,
             Lists!ServerReads(q) \/ Lists!Answer(q) \/ Lists!FailLoad(q) \/ Lists!Expire(q)
      PROVE  ListMoves
  <2>1. UNCHANGED <<changes, busy, looks>>
    BY <1>3 DEF Lists!ServerReads, Lists!Answer, Lists!FailLoad, Lists!Expire, Lists!serverSide,
       Lists!userSide
  <2> QED
    BY <2>1 DEF ListMoves
<1>4. ASSUME Lists!ConfirmDelete \/ \E i \in Items : Lists!Submit(i)
      PROVE  ListMoves
  <2>1. /\ UNCHANGED <<Lists!serverSide, busy>>
        /\ looks < MaxLooks /\ looks' = looks + 1
    BY <1>4 DEF Lists!ConfirmDelete, Lists!Submit, Lists!Send
  <2> QED
    BY <2>1 DEF ListMoves, Lists!serverSide
<1>5. ASSUME NEW i \in Items, Lists!Act(i)
      PROVE  ListMoves
  <2>1. /\ UNCHANGED Lists!serverSide /\ busy' \in {{i}, busy \union {i}}
        /\ looks < MaxLooks /\ looks' = looks + 1
    BY <1>5 DEF Lists!Act, Lists!Send
  <2> QED
    BY <2>1 DEF ListMoves, Lists!serverSide
<1>6. ASSUME NEW k \in Lists!Batches, NEW i \in Items, Lists!NextOfBatch(k, i)
      PROVE  ListMoves
  <2>1. UNCHANGED <<Lists!serverSide, busy, looks>>
    BY <1>6 DEF Lists!NextOfBatch, Lists!Send
  <2> QED
    BY <2>1 DEF ListMoves, Lists!serverSide
<1>7. ASSUME NEW k \in Lists!Batches, NEW chosen \in SUBSET Items, Lists!StartBatch(k, chosen)
      PROVE  ListMoves
  <2>1. Lists!Cardinality(chosen) = Cardinality(chosen)
    BY DEF Lists!Cardinality, Cardinality
  <2>2. /\ UNCHANGED <<Lists!serverSide, busy>>
        /\ looks' = looks + Cardinality(chosen) /\ looks' <= MaxLooks
    BY <1>7, <2>1 DEF Lists!StartBatch
  <2> QED
    BY <2>2 DEF ListMoves, Lists!serverSide
<1>8. ASSUME NEW i \in Items, Lists!OthersChange(i)
      PROVE  ListMoves
  BY <1>8 DEF ListMoves, Lists!OthersChange, Lists!userSide
<1>9. ASSUME NEW o \in ops, Lists!ServerDoes(o)
      PROVE  ListMoves
  <2>1. UNCHANGED <<busy, looks>> /\ changes < MaxChanges /\ changes' = changes + 1
    BY <1>9 DEF Lists!ServerDoes
  <2> QED
    BY <2>1 DEF ListMoves
<1>10. ASSUME NEW o \in ops, Lists!AnswerOp(o) \/ Lists!FailOp(o)
       PROVE  ListMoves
  <2>1. UNCHANGED <<changes, looks>> /\ busy' \subseteq busy
    BY <1>10 DEF Lists!AnswerOp, Lists!FailOp, Lists!Unlock
  <2> QED
    BY <2>1 DEF ListMoves
<1>11. CASE UNCHANGED listVars
  BY <1>11 DEF ListMoves, listVars
<1> QED
  BY <1>1, <1>2, <1>3, <1>4, <1>5, <1>6, <1>7, <1>8, <1>9, <1>10, <1>11 DEF Lists!ListNext

(* The list pages keep their types. *)
LEMMA ListTypes == Spec => []Lists!ListTypeOK
<1>0. MaxChanges \in Nat /\ MaxLooks \in Nat /\ IsFiniteSet(Items)
  <2>1. Lists!IsFiniteSet(Items) => IsFiniteSet(Items)
    BY DEF Lists!IsFiniteSet, IsFiniteSet
  <2> QED
    BY <2>1, BoundsAssumption DEF Lists!ListBounds
<1>1. ASSUME Init
      PROVE  ListCounted
  <2>1. changes = 0 /\ looks = 0 /\ busy = {}
    BY <1>1 DEF Init, Lists!ListInitOf
  <2> QED
    BY <1>0, <2>1 DEF ListCounted
<1>2. ListInv /\ ListCounted /\ [Next]_vars => ListCounted'
  <2> SUFFICES ASSUME ListInv, ListCounted, [Next]_vars
               PROVE  ListCounted'
    OBVIOUS
  <2>1. Lists!ListNext \/ UNCHANGED listVars
    BY DEF Next, vars
  <2>2. ListMoves
    BY <2>1, ListMovesBy
  <2>3. \A chosen \in SUBSET Items : Cardinality(chosen) \in Nat
    BY <1>0, FS_Subset, FS_CardinalityType
  <2>4. changes \in Nat
    BY DEF ListInv, ListTyped, OpsTyped
  <2>5. changes' <= MaxChanges
    BY <1>0, <2>2, <2>4 DEF ListMoves, ListCounted
  <2>6. looks' \in 0..MaxLooks
    BY <1>0, <2>2, <2>3 DEF ListMoves, ListCounted
  <2>7. busy' \subseteq Items
    BY <2>2 DEF ListMoves, ListCounted
  <2> QED
    BY <2>5, <2>6, <2>7 DEF ListCounted
<1>3. ListInv /\ ListCounted => Lists!ListTypeOK
  <2> SUFFICES ASSUME ListInv, ListCounted
               PROVE  Lists!ListTypeOK
    OBVIOUS
  <2>1. /\ listPage \in Lists!AllPages /\ rows \in [Items -> 0..Lists!Over] /\ changes \in Nat
        /\ query \in Queries /\ list.q \in Queries \union {None}
        /\ dialog.target \in Items \union {None}
    BY DEF ListInv, ListTyped, OpsTyped, LoadsTyped, Versions, Shown, Dialogs
  <2> QED
    BY <1>0, <2>1 DEF ListCounted, Lists!ListTypeOK
<1> QED
  BY <1>1, <1>2, <1>3, ListInvariant, PTL DEF Spec

(***************************************************************************)
(* The chat (ChatPage), for any number of turns and of parts: the form is  *)
(* locked exactly while a turn is under way, and turns end whole.          *)
(***************************************************************************)
TurnFates == {"going", "done", "error", "cut", "stopped"}
TurnAnswers == [n : Nat, streaming : BOOLEAN, shown : Nat, got : Nat, fate : TurnFates]
TurnStreams == [n : Nat, got : Nat, raf : BOOLEAN, done : BOOLEAN]

ChatTyped ==
    /\ talk \subseteq TurnAnswers /\ streams \subseteq TurnStreams
    /\ turns \in Nat /\ sending \in BOOLEAN

\* There is one handler at most: of the last turn, the one Stop aborts.
OneStream ==
    IF streams = {} THEN ~sending
    ELSE sending /\ abortRef = turns /\ \E s \in streams : streams = {s} /\ s.n = turns

\* What a handler has accumulated is on display, but for a pending frame.
UnderWay ==
    \A s \in streams, m \in talk :
      m.n = s.n =>
        /\ m.got = s.got
        /\ IF s.done THEN ~m.streaming /\ m.shown = m.got
           ELSE m.streaming /\ m.fate = "going" /\ (s.raf \/ m.shown = m.got)
        /\ s.done => ~s.raf

TurnSettled(m) ==
    /\ m.shown = m.got \/ m.fate = "stopped"
    /\ m.streaming => m.fate = "cut"

\* The answers of all other turns are settled.
OthersSettled == \A m \in talk : m.n <= turns /\ ((m.n = turns /\ streams # {}) \/ TurnSettled(m))

ChatInv == ChatTyped /\ OneStream /\ UnderWay /\ OthersSettled

(* The invariant holds at the start: there is nothing on display. *)
LEMMA ChatInvInit == Chat!ChatInit => ChatInv
<1> SUFFICES ASSUME Chat!ChatInit
             PROVE  ChatInv
  OBVIOUS
<1>1. talk = {} /\ streams = {} /\ turns = 0 /\ sending = FALSE
  BY DEF Chat!ChatInit
<1>2. ChatTyped /\ OneStream
  BY <1>1 DEF ChatTyped, OneStream
<1>3. UnderWay /\ OthersSettled
  BY <1>1 DEF UnderWay, OthersSettled
<1> QED
  BY <1>2, <1>3 DEF ChatInv

(* The end of a turn leaves the form unlocked, and its answer settled. *)
LEMMA TurnEnds ==
    ASSUME ChatInv, NEW s \in streams, streams' = streams \ {s}, Chat!Finally, turns' = turns,
           talk' \subseteq TurnAnswers,
           \A m \in talk' : m.n <= turns /\ (m.n = turns \/ m \in talk),
           \A m \in talk' : m.n = turns => TurnSettled(m)
    PROVE  ChatInv'
<1>1. streams = {s} /\ s.n = turns
  BY DEF ChatInv, OneStream
<1>2. streams' = {} /\ sending' = FALSE
  BY <1>1 DEF Chat!Finally
<1>3. ChatTyped' /\ OneStream' /\ UnderWay'
  BY <1>2 DEF ChatInv, ChatTyped, OneStream, UnderWay
<1>4. OthersSettled'
  <2> SUFFICES ASSUME NEW m \in talk'
               PROVE  m.n <= turns /\ TurnSettled(m)
    BY <1>2 DEF OthersSettled
  <2>1. CASE m.n = turns
    BY <2>1
  <2>2. CASE m.n # turns
    BY <2>2 DEF ChatInv, OthersSettled
  <2> QED
    BY <2>1, <2>2
<1> QED
  BY <1>3, <1>4 DEF ChatInv

(* A step of the handler: its answer follows, the others are untouched. *)
LEMMA TurnGoesOn ==
    ASSUME ChatInv, NEW s \in streams, NEW t \in TurnStreams, t.n = s.n,
           streams' = (streams \ {s}) \union {t}, UNCHANGED <<sending, abortRef, turns>>,
           talk' \subseteq TurnAnswers,
           \A m \in talk' : m.n <= turns /\ (m.n = turns \/ m \in talk),
           \A m \in talk' : m.n = turns =>
             /\ m.got = t.got
             /\ IF t.done THEN ~m.streaming /\ m.shown = m.got
                ELSE m.streaming /\ m.fate = "going" /\ (t.raf \/ m.shown = m.got),
           t.done => ~t.raf
    PROVE  ChatInv'
<1>1. streams = {s} /\ s.n = turns /\ sending /\ abortRef = turns
  BY DEF ChatInv, OneStream
<1>2. streams' = {t}
  BY <1>1
<1>3. ChatTyped' /\ OneStream' /\ UnderWay'
  BY <1>1, <1>2 DEF ChatInv, ChatTyped, OneStream, UnderWay
<1>4. OthersSettled'
  <2> SUFFICES ASSUME NEW m \in talk'
               PROVE  m.n <= turns /\ (m.n = turns \/ TurnSettled(m))
    BY <1>2 DEF OthersSettled
  <2> QED
    BY DEF ChatInv, OthersSettled
<1> QED
  BY <1>3, <1>4 DEF ChatInv

(* What a step of the handler makes of the answers on display. *)
LEMMA StepOfHandler ==
    ASSUME ChatInv, NEW s \in streams,
           Chat!Chunk(s) \/ Chat!FlushContent(s) \/ Chat!DoneEvent(s) \/ Chat!TurnFails(s) \/ Chat!BodyEnds(s)
    PROVE  ChatInv'
<1>1. /\ s \in TurnStreams /\ s.n = turns /\ streams = {s} /\ turns' = turns
      /\ \A m \in talk : m \in TurnAnswers /\ m.n <= turns
  BY DEF ChatInv, ChatTyped, OneStream, OthersSettled, Chat!Chunk, Chat!FlushContent, Chat!DoneEvent, Chat!TurnFails, Chat!BodyEnds
<1>2. \A m \in talk : m.n = turns =>
        /\ m.got = s.got
        /\ IF s.done THEN ~m.streaming /\ m.shown = m.got
           ELSE m.streaming /\ m.fate = "going" /\ (s.raf \/ m.shown = m.got)
        /\ s.done => ~s.raf
  BY <1>1 DEF ChatInv, UnderWay
<1>3. CASE Chat!Chunk(s)
  <2> DEFINE t == [s EXCEPT !.got = @ + 1, !.raf = TRUE]
  <2>1. t \in TurnStreams /\ t.n = s.n /\ t.raf /\ t.done = s.done /\ t.got = s.got + 1
    <3>1. \A g \in Nat : LET v == [s EXCEPT !.got = g, !.raf = TRUE]
                          IN  v \in TurnStreams /\ v.n = s.n /\ v.raf /\ v.done = s.done /\ v.got = g
      BY <1>1 DEF TurnStreams
    <3>2. s.got + 1 \in Nat
      BY <1>1 DEF TurnStreams
    <3> QED
      BY <3>1, <3>2
  <2>2. /\ talk' = {IF m.n = s.n THEN [m EXCEPT !.got = s.got + 1] ELSE m : m \in talk}
        /\ streams' = (streams \ {s}) \union {t} /\ UNCHANGED <<sending, abortRef, turns>>
        /\ ~s.done
    BY <1>3 DEF Chat!Chunk, Chat!Message
  <2>3. \A m \in talk' : /\ m \in TurnAnswers /\ m.n <= turns /\ (m.n = turns \/ m \in talk)
                         /\ m.n = turns => m.got = t.got /\ m.streaming /\ m.fate = "going"
    BY <1>1, <1>2, <2>1, <2>2 DEF TurnAnswers, TurnStreams
  <2> HIDE DEF t
  <2> QED
    BY <2>1, <2>2, <2>3, TurnGoesOn
<1>4. CASE Chat!FlushContent(s)
  <2> DEFINE t == [s EXCEPT !.raf = FALSE]
  <2>1. t \in TurnStreams /\ t.n = s.n /\ ~t.raf /\ t.done = s.done /\ t.got = s.got
    BY <1>1 DEF TurnStreams
  <2>2. /\ talk' = {IF m.n = s.n THEN [m EXCEPT !.shown = s.got] ELSE m : m \in talk}
        /\ streams' = (streams \ {s}) \union {t} /\ UNCHANGED <<sending, abortRef, turns>>
    BY <1>4 DEF Chat!FlushContent, Chat!Message
  <2>3. \A m \in talk' : /\ m \in TurnAnswers /\ m.n <= turns /\ (m.n = turns \/ m \in talk)
                         /\ m.n = turns => /\ m.got = t.got /\ m.shown = m.got
                                           /\ IF t.done THEN ~m.streaming
                                              ELSE m.streaming /\ m.fate = "going"
    BY <1>1, <1>2, <2>1, <2>2 DEF TurnAnswers, TurnStreams
  <2> HIDE DEF t
  <2> QED
    BY <2>1, <2>2, <2>3, TurnGoesOn
<1>5. CASE Chat!DoneEvent(s)
  <2> DEFINE t == [s EXCEPT !.done = TRUE, !.raf = FALSE]
  <2>1. t \in TurnStreams /\ t.n = s.n /\ ~t.raf /\ t.done /\ t.got = s.got
    BY <1>1 DEF TurnStreams
  <2>2. /\ talk' = {IF m.n = s.n THEN [m EXCEPT !.streaming = FALSE, !.shown = s.got,
                                                !.fate = "done"] ELSE m : m \in talk}
        /\ streams' = (streams \ {s}) \union {t} /\ UNCHANGED <<sending, abortRef, turns>>
    BY <1>5 DEF Chat!DoneEvent, Chat!Ended, Chat!Message
  <2>3. ASSUME NEW k \in talk, k.n = turns,
               NEW m, m = [k EXCEPT !.streaming = FALSE, !.shown = s.got, !.fate = "done"]
        PROVE  m \in TurnAnswers /\ m.n = turns /\ m.got = s.got /\ m.shown = s.got /\ ~m.streaming
    BY <1>1, <1>2, <2>3 DEF TurnAnswers, TurnStreams, TurnFates
  <2>4. \A m \in talk' : /\ m \in TurnAnswers /\ m.n <= turns /\ (m.n = turns \/ m \in talk)
                         /\ m.n = turns => m.got = t.got /\ m.shown = m.got /\ ~m.streaming
    <3> SUFFICES ASSUME NEW k \in talk, NEW m,
                        m = IF k.n = s.n THEN [k EXCEPT !.streaming = FALSE, !.shown = s.got,
                                                        !.fate = "done"] ELSE k
                 PROVE  /\ m \in TurnAnswers /\ m.n <= turns /\ (m.n = turns \/ m \in talk)
                        /\ m.n = turns => m.got = t.got /\ m.shown = m.got /\ ~m.streaming
      BY <2>2
    <3> QED
      BY <1>1, <2>1, <2>3 DEF TurnAnswers
  <2> HIDE DEF t
  <2> QED
    BY <2>1, <2>2, <2>4, TurnGoesOn
<1>6. CASE Chat!TurnFails(s)
  <2>1. /\ talk' = {IF m.n = s.n THEN [m EXCEPT !.streaming = FALSE, !.shown = s.got,
                                                !.fate = "error"] ELSE m : m \in talk}
        /\ streams' = streams \ {s} /\ Chat!Finally
    BY <1>6 DEF Chat!TurnFails, Chat!Ended, Chat!Message
  <2>2. ASSUME NEW k \in talk, k.n = turns,
               NEW m, m = [k EXCEPT !.streaming = FALSE, !.shown = s.got, !.fate = "error"]
        PROVE  m \in TurnAnswers /\ m.n = turns /\ TurnSettled(m)
    BY <1>1, <1>2, <2>2 DEF TurnAnswers, TurnStreams, TurnFates, TurnSettled
  <2>3. \A m \in talk' : /\ m \in TurnAnswers /\ m.n <= turns /\ (m.n = turns \/ m \in talk)
                         /\ m.n = turns => TurnSettled(m)
    <3> SUFFICES ASSUME NEW k \in talk, NEW m,
                        m = IF k.n = s.n THEN [k EXCEPT !.streaming = FALSE, !.shown = s.got, !.fate = "error"] ELSE k
                 PROVE  /\ m \in TurnAnswers /\ m.n <= turns /\ (m.n = turns \/ m \in talk)
                        /\ m.n = turns => TurnSettled(m)
      BY <2>1
    <3> QED
      BY <1>1, <2>2
  <2> QED
    BY <1>1, <2>1, <2>3, TurnEnds
<1>7. CASE Chat!BodyEnds(s)
  <2>1. /\ talk' = IF s.done THEN talk
                   ELSE {IF m.n = s.n THEN [m EXCEPT !.fate = "cut", !.shown = s.got]
                         ELSE m : m \in talk}
        /\ streams' = streams \ {s} /\ Chat!Finally
    BY <1>7 DEF Chat!BodyEnds, Chat!Message
  <2>2. ASSUME NEW k \in talk, k.n = turns, ~s.done,
               NEW m, m = [k EXCEPT !.fate = "cut", !.shown = s.got]
        PROVE  m \in TurnAnswers /\ m.n = turns /\ TurnSettled(m)
    BY <1>1, <1>2, <2>2 DEF TurnAnswers, TurnStreams, TurnFates, TurnSettled
  <2>3. \A m \in talk' : /\ m \in TurnAnswers /\ m.n <= turns /\ (m.n = turns \/ m \in talk)
                         /\ m.n = turns => TurnSettled(m)
    <3>1. CASE s.done
      BY <1>1, <1>2, <2>1, <3>1 DEF TurnSettled
    <3>2. CASE ~s.done
      <4> SUFFICES ASSUME NEW k \in talk, NEW m, m = IF k.n = s.n THEN [k EXCEPT !.fate = "cut", !.shown = s.got] ELSE k
                   PROVE  /\ m \in TurnAnswers /\ m.n <= turns /\ (m.n = turns \/ m \in talk)
                          /\ m.n = turns => TurnSettled(m)
        BY <2>1, <3>2
      <4> QED
        BY <1>1, <2>2, <3>2
    <3> QED
      BY <3>1, <3>2
  <2> QED
    BY <1>1, <2>1, <2>3, TurnEnds
<1> QED
  BY <1>3, <1>4, <1>5, <1>6, <1>7

(* Every step keeps the invariant. *)
LEMMA ChatInvStep == ChatInv /\ (Chat!ChatNext \/ UNCHANGED chatVars) => ChatInv'
<1> SUFFICES ASSUME ChatInv, Chat!ChatNext \/ UNCHANGED chatVars
             PROVE  ChatInv'
  OBVIOUS
<1>1. CASE Chat!HandleSend
  <2>1. /\ streams = {} /\ turns' = turns + 1 /\ turns \in Nat
        /\ talk' = talk \union {Chat!Answer(turns + 1)} /\ streams' = {Chat!Stream(turns + 1)}
        /\ sending' = TRUE /\ abortRef' = turns + 1
    BY <1>1 DEF Chat!HandleSend, ChatInv, ChatTyped, OneStream
  <2>2. Chat!Answer(turns + 1) \in TurnAnswers /\ Chat!Stream(turns + 1) \in TurnStreams
    BY <2>1 DEF Chat!Answer, Chat!Stream, TurnAnswers, TurnStreams, TurnFates
  <2>3. ChatTyped' /\ OneStream'
    BY <2>1, <2>2 DEF ChatInv, ChatTyped, OneStream, Chat!Stream
  <2>4. \A m \in talk : m.n <= turns /\ m.n \in Nat /\ TurnSettled(m)
    BY <2>1 DEF ChatInv, ChatTyped, OthersSettled, TurnAnswers
  <2>5. UnderWay'
    BY <2>1, <2>4 DEF UnderWay, Chat!Answer, Chat!Stream
  <2>6. OthersSettled'
    BY <2>1, <2>4 DEF OthersSettled, Chat!Answer, TurnSettled
  <2> QED
    BY <2>3, <2>5, <2>6 DEF ChatInv
<1>2. CASE Chat!HandleStop
  <2>1. PICK s \in streams : streams = {s} /\ s.n = turns /\ abortRef = turns
    BY <1>2 DEF Chat!HandleStop, ChatInv, OneStream
  <2>2. /\ streams' = {} /\ Chat!Finally /\ turns' = turns
        /\ talk' = {IF m.streaming
                    THEN [m EXCEPT !.streaming = FALSE,
                                   !.fate = IF @ = "going" THEN "stopped" ELSE @]
                    ELSE m : m \in talk}
    BY <1>2, <2>1 DEF Chat!HandleStop, Chat!Surviving
  <2>3. \A m \in talk : m \in TurnAnswers /\ m.n <= turns
                        /\ \/ TurnSettled(m)
                           \/ m.streaming /\ m.fate = "going"
    BY <2>1 DEF ChatInv, ChatTyped, OthersSettled, UnderWay, TurnSettled
  <2>4. \A m \in talk' : m \in TurnAnswers /\ m.n <= turns /\ TurnSettled(m)
    BY <2>2, <2>3 DEF TurnAnswers, TurnFates, TurnSettled
  <2> QED
    BY <2>2, <2>4 DEF ChatInv, ChatTyped, OneStream, UnderWay, OthersSettled, Chat!Finally, TurnSettled
<1>3. CASE Chat!HandleClear
  <2>1. talk' = {} /\ streams' = {} /\ Chat!Finally /\ turns' = turns
    BY <1>3 DEF Chat!HandleClear, Chat!Surviving, ChatInv, OneStream
  <2> QED
    BY <2>1 DEF ChatInv, ChatTyped, OneStream, UnderWay, OthersSettled, Chat!Finally
<1>4. ASSUME NEW s \in streams,
             Chat!Chunk(s) \/ Chat!FlushContent(s) \/ Chat!DoneEvent(s) \/ Chat!TurnFails(s) \/ Chat!BodyEnds(s)
      PROVE  ChatInv'
  BY <1>4, StepOfHandler
<1>5. CASE UNCHANGED chatVars
  BY <1>5 DEF chatVars, ChatInv, ChatTyped, OneStream, UnderWay, OthersSettled, TurnSettled
<1> QED
  BY <1>1, <1>2, <1>3, <1>4, <1>5 DEF Chat!ChatNext

(* The invariant holds at the start, and always. *)
LEMMA ChatInvariant == Spec => []ChatInv
<1>1. Init => ChatInv
  BY ChatInvInit DEF Init
<1>2. ChatInv /\ [Next]_vars => ChatInv'
  <2> SUFFICES ASSUME ChatInv, [Next]_vars
               PROVE  ChatInv'
    OBVIOUS
  <2>1. Chat!ChatNext \/ UNCHANGED chatVars
    BY DEF Next, vars
  <2> QED
    BY <2>1, ChatInvStep
<1> QED
  BY <1>1, <1>2, PTL DEF Spec

(* The form of Chat.tsx is locked exactly while a turn is under way, whether *)
(* it ends, fails, is cut, stopped or cleared; by then every answer is shown *)
(* whole, except one that was stopped, and none keeps the cursor, except one *)
(* whose body ended without its last event (handleSend of pages/Chat.tsx).   *)
THEOREM ConsoleTurnsSettle == Spec => []TurnsSettle
<1>1. ChatInv => TurnsSettle
  <2> SUFFICES ASSUME ChatInv
               PROVE  TurnsSettle
    OBVIOUS
  <2>1. sending = (streams # {})
    <3>1. CASE streams = {}
      BY <3>1 DEF ChatInv, ChatTyped, OneStream
    <3>2. CASE streams # {}
      BY <3>2 DEF ChatInv, ChatTyped, OneStream
    <3> QED
      BY <3>1, <3>2
  <2>2. ~sending => \A m \in talk : TurnSettled(m)
    BY <2>1 DEF ChatInv, OthersSettled
  <2> QED
    BY <2>1, <2>2 DEF TurnsSettle, Chat!TurnsSettle, TurnSettled
<1> QED
  BY <1>1, ChatInvariant, PTL

\* No more turns and parts of answers than were sent, and none is shown
\* before it came.
ChatCounted ==
    /\ turns \in 0..MaxTurns /\ abortRef \in 0..MaxTurns \union {None}
    /\ \A s \in streams : s.got <= MaxChunks
    /\ \A m \in talk : m.n # 0 /\ m.shown <= m.got /\ m.got <= MaxChunks

(* A step of a handler changes the parts of its own answer. *)
LEMMA HandlerCounts ==
    ASSUME ChatInv, ChatCounted, NEW s \in streams,
           Chat!Chunk(s) \/ Chat!FlushContent(s) \/ Chat!DoneEvent(s) \/ Chat!TurnFails(s) \/ Chat!BodyEnds(s)
    PROVE  ChatCounted'
<1>0. /\ s \in TurnStreams /\ s.got \in Nat /\ s.got <= MaxChunks /\ MaxChunks \in Nat
      /\ turns' = turns /\ abortRef' \in {abortRef, None}
  BY BoundsAssumption DEF ChatInv, ChatTyped, TurnStreams, ChatCounted, Chat!ChatBounds, Chat!Chunk,
     Chat!FlushContent, Chat!DoneEvent, Chat!TurnFails, Chat!BodyEnds, Chat!Finally
<1>1. \A m \in talk : m \in TurnAnswers /\ (m.n = s.n => m.got = s.got)
  BY DEF ChatInv, ChatTyped, UnderWay
<1>2. \A r \in streams' : r.got <= MaxChunks
  <2>1. CASE Chat!Chunk(s)
    <3>1. streams' = (streams \ {s}) \union {[s EXCEPT !.got = @ + 1, !.raf = TRUE]}
          /\ s.got < MaxChunks
      BY <2>1 DEF Chat!Chunk
    <3>2. [s EXCEPT !.got = @ + 1, !.raf = TRUE].got = s.got + 1
      BY <1>0 DEF TurnStreams
    <3>3. s.got + 1 <= MaxChunks /\ \A r \in streams : r.got <= MaxChunks
      BY <1>0, <3>1 DEF ChatCounted
    <3> QED
      BY <3>1, <3>2, <3>3
  <2>2. CASE Chat!FlushContent(s)
    BY <1>0, <2>2 DEF Chat!FlushContent, ChatCounted, TurnStreams
  <2>3. CASE Chat!DoneEvent(s)
    BY <1>0, <2>3 DEF Chat!DoneEvent, ChatCounted, TurnStreams
  <2>4. CASE Chat!TurnFails(s) \/ Chat!BodyEnds(s)
    BY <2>4 DEF Chat!TurnFails, Chat!BodyEnds, ChatCounted
  <2> QED
    BY <2>1, <2>2, <2>3, <2>4
<1>3. \A x \in talk' : \E m \in talk :
         /\ x.n = m.n
         /\ \/ x.got = m.got /\ x.shown = m.shown
            \/ m.n = s.n /\ x.got = m.got /\ x.shown = s.got
            \/ m.n = s.n /\ x.got = s.got + 1 /\ x.shown = m.shown /\ s.got < MaxChunks
  <2>1. CASE Chat!Chunk(s)
    BY <1>1, <2>1 DEF Chat!Chunk, Chat!Message, TurnAnswers
  <2>2. CASE Chat!FlushContent(s)
    BY <1>1, <2>2 DEF Chat!FlushContent, Chat!Message, TurnAnswers
  <2>3. CASE Chat!DoneEvent(s)
    BY <1>1, <2>3 DEF Chat!DoneEvent, Chat!Ended, Chat!Message, TurnAnswers
  <2>4. CASE Chat!TurnFails(s)
    BY <1>1, <2>4 DEF Chat!TurnFails, Chat!Ended, Chat!Message, TurnAnswers
  <2>5. CASE Chat!BodyEnds(s)
    BY <1>1, <2>5 DEF Chat!BodyEnds, Chat!Message, TurnAnswers
  <2> QED
    BY <2>1, <2>2, <2>3, <2>4, <2>5
<1>4. \A x \in talk' : x.n # 0 /\ x.shown <= x.got /\ x.got <= MaxChunks
  <2> SUFFICES ASSUME NEW x \in talk'
               PROVE  x.n # 0 /\ x.shown <= x.got /\ x.got <= MaxChunks
    OBVIOUS
  <2>1. PICK m \in talk :
           /\ x.n = m.n
           /\ \/ x.got = m.got /\ x.shown = m.shown
              \/ m.n = s.n /\ x.got = m.got /\ x.shown = s.got
              \/ m.n = s.n /\ x.got = s.got + 1 /\ x.shown = m.shown /\ s.got < MaxChunks
    BY <1>3
  <2>2. /\ m.n # 0 /\ m.shown <= m.got /\ m.got <= MaxChunks
        /\ m.shown \in Nat /\ m.got \in Nat /\ (m.n = s.n => m.got = s.got)
    BY <1>1 DEF ChatCounted, TurnAnswers
  <2> QED
    BY <1>0, <2>1, <2>2
<1> QED
  BY <1>0, <1>2, <1>4 DEF ChatCounted

(* Every step keeps the counts. *)
LEMMA ChatCountedStep ==
    ASSUME ChatInv, ChatCounted, Chat!ChatNext \/ UNCHANGED chatVars
    PROVE  ChatCounted'
<1>0. MaxTurns \in Nat /\ MaxChunks \in Nat /\ turns \in Nat
  BY BoundsAssumption DEF Chat!ChatBounds, ChatInv, ChatTyped
<1>1. CASE Chat!HandleSend
  <2>1. /\ turns < MaxTurns /\ turns' = turns + 1 /\ abortRef' = turns + 1
        /\ talk' = talk \union {Chat!Answer(turns + 1)}
        /\ streams' = streams \union {Chat!Stream(turns + 1)}
    BY <1>1 DEF Chat!HandleSend
  <2>2. /\ Chat!Answer(turns + 1).n = turns + 1 /\ Chat!Answer(turns + 1).shown = 0
        /\ Chat!Answer(turns + 1).got = 0 /\ Chat!Stream(turns + 1).got = 0
    BY DEF Chat!Answer, Chat!Stream
  <2>3. turns + 1 \in 0..MaxTurns /\ turns + 1 # 0
    BY <1>0, <2>1
  <2>4. \A r \in streams' : r.got <= MaxChunks
    BY <1>0, <2>1, <2>2 DEF ChatCounted
  <2>5. \A m \in talk' : m.n # 0 /\ m.shown <= m.got /\ m.got <= MaxChunks
    BY <1>0, <2>1, <2>2, <2>3 DEF ChatCounted
  <2> QED
    BY <2>1, <2>3, <2>4, <2>5 DEF ChatCounted
<1>2. CASE Chat!HandleStop
  <2>1. /\ streams' \subseteq streams /\ turns' = turns /\ abortRef' = None
        /\ talk' = {IF m.streaming
                    THEN [m EXCEPT !.streaming = FALSE,
                                   !.fate = IF @ = "going" THEN "stopped" ELSE @]
                    ELSE m : m \in talk}
    BY <1>2 DEF Chat!HandleStop, Chat!Surviving, Chat!Finally
  <2>2. \A x \in talk' : \E m \in talk : x.n = m.n /\ x.got = m.got /\ x.shown = m.shown
    BY <2>1 DEF ChatInv, ChatTyped, TurnAnswers
  <2>3. \A x \in talk' : x.n # 0 /\ x.shown <= x.got /\ x.got <= MaxChunks
    <3> SUFFICES ASSUME NEW x \in talk'
                 PROVE  x.n # 0 /\ x.shown <= x.got /\ x.got <= MaxChunks
      OBVIOUS
    <3>1. PICK m \in talk : x.n = m.n /\ x.got = m.got /\ x.shown = m.shown
      BY <2>2
    <3>2. m.n # 0 /\ m.shown <= m.got /\ m.got <= MaxChunks
      BY DEF ChatCounted
    <3> QED
      BY <3>1, <3>2
  <2>4. \A r \in streams' : r.got <= MaxChunks
    BY <2>1 DEF ChatCounted
  <2>5. turns' \in 0..MaxTurns /\ abortRef' = None
    BY <2>1 DEF ChatCounted
  <2> QED
    BY <2>3, <2>4, <2>5 DEF ChatCounted
<1>3. CASE Chat!HandleClear
  BY <1>3 DEF Chat!HandleClear, Chat!Surviving, Chat!Finally, ChatCounted
<1>4. CASE UNCHANGED chatVars
  BY <1>4 DEF chatVars, ChatCounted
<1> QED
  BY <1>1, <1>2, <1>3, <1>4, HandlerCounts DEF Chat!ChatNext

(* The chat keeps its types. *)
LEMMA ChatTypes == Spec => []Chat!ChatTypeOK
<1>1. ASSUME Init
      PROVE  ChatCounted
  <2>1. talk = {} /\ streams = {} /\ abortRef = None /\ turns = 0
    BY <1>1 DEF Init, Chat!ChatInit
  <2> QED
    BY <2>1, BoundsAssumption DEF ChatCounted, Chat!ChatBounds
<1>2. ChatInv /\ ChatCounted /\ [Next]_vars => ChatCounted'
  <2> SUFFICES ASSUME ChatInv, ChatCounted, [Next]_vars
               PROVE  ChatCounted'
    OBVIOUS
  <2>1. Chat!ChatNext \/ UNCHANGED chatVars
    BY DEF Next, vars
  <2> QED
    BY <2>1, ChatCountedStep
<1>3. ChatInv /\ ChatCounted => Chat!ChatTypeOK
  <2> SUFFICES ASSUME ChatInv, ChatCounted
               PROVE  Chat!ChatTypeOK
    OBVIOUS
  <2>1. \A m \in talk : m.n \in 1..turns
    BY DEF ChatInv, ChatTyped, OthersSettled, TurnAnswers, ChatCounted
  <2> QED
    BY <2>1 DEF ChatInv, ChatTyped, ChatCounted, Chat!ChatTypeOK
<1> QED
  BY <1>1, <1>2, <1>3, ChatInvariant, PTL DEF Spec

(***************************************************************************)
(* The parts with proof modules of their own.                              *)
(***************************************************************************)
RoomP == INSTANCE StudioRoomProofs
EditorP == INSTANCE ResourceEditorProofs
StudioP == INSTANCE StudioEditorProofs WITH poll <- crewPoll, runs <- crewRuns
HistoryP == INSTANCE StudioHistoryProofs

LEMMA RoomStepSame == Room!RoomNext <=> RoomP!RoomNext
<1>0. Room!Cardinality(Tabs) = RoomP!Cardinality(Tabs)
  BY DEF Room!Cardinality, RoomP!Cardinality
<1>1. \A t, r : Room!Enter(t, r) <=> RoomP!Enter(t, r)
  BY <1>0 DEF
    Room!canvasVars, Room!Sock, Room!Closing, Room!Enter, RoomP!canvasVars, RoomP!Sock,
    RoomP!Closing, RoomP!Enter
<1>2. \A t, n, at : Room!ChangeNode(t, n, at) <=> RoomP!ChangeNode(t, n, at)
  BY <1>0 DEF
    Room!tabVars, Room!Broadcast, Room!OnTheWay, Room!ChangeNode, RoomP!tabVars,
    RoomP!Broadcast, RoomP!OnTheWay, RoomP!ChangeNode
<1>3. \A s : Room!Opens(s) <=> RoomP!Opens(s)
  BY <1>0 DEF
    Room!canvasVars, Room!counters, Room!Opens, RoomP!canvasVars, RoomP!counters,
    RoomP!Opens
<1>4. \A s : Room!Closes(s) <=> RoomP!Closes(s)
  BY <1>0 DEF
    Room!canvasVars, Room!counters, Room!Disposed, Room!OnClose, Room!Closes,
    RoomP!canvasVars, RoomP!counters, RoomP!Disposed, RoomP!OnClose, RoomP!Closes
<1>5. \A s : Room!Breaks(s) <=> RoomP!Breaks(s)
  BY <1>0 DEF
    Room!canvasVars, Room!Disposed, Room!OnClose, Room!Breaks, RoomP!canvasVars,
    RoomP!Disposed, RoomP!OnClose, RoomP!Breaks
<1>6. \A s : Room!Receives(s) <=> RoomP!Receives(s)
  BY <1>0 DEF
    Room!tabVars, Room!counters, Room!Receives, RoomP!tabVars, RoomP!counters,
    RoomP!Receives
<1>7. \A w : Room!Reconnect(w) <=> RoomP!Reconnect(w)
  BY <1>0 DEF
    Room!canvasVars, Room!counters, Room!Sock, Room!Reconnect, RoomP!canvasVars,
    RoomP!counters, RoomP!Sock, RoomP!Reconnect
<1> QED
  BY <1>1, <1>2, <1>3, <1>4, <1>5, <1>6, <1>7 DEF Room!RoomNext, RoomP!RoomNext

LEMMA EditorStepSame == Editor!EditorNext <=> EditorP!EditorNext
BY DEF
    Editor!Row, Editor!Missing, Editor!Held, Editor!NothingCached, Editor!Display,
    Editor!Loaded, Editor!LoadResource, Editor!Busy, Editor!server, Editor!counters,
    Editor!Open, Editor!Reload, Editor!ServerGets, Editor!AnswerGet, Editor!FailGet,
    Editor!CacheExpires, Editor!Usable, Editor!HandleEdit, Editor!HandleCancelEdit,
    Editor!SendOp, Editor!Op, Editor!HandleSave, Editor!AskDelete, Editor!DismissDelete,
    Editor!HandleDelete, Editor!HandleRun, Editor!HandleClone, Editor!Write, Editor!Done,
    Editor!Refuse, Editor!Bump, Editor!UpdateResource, Editor!CreateResource,
    Editor!DeleteResource, Editor!ServerHandles, Editor!OthersUpdate, Editor!OthersCreate,
    Editor!OthersDelete, Editor!Succeeds, Editor!Fails, Editor!AnswerOp, Editor!FailOp,
    Editor!EditorNext, EditorP!Row, EditorP!Missing, EditorP!Held, EditorP!NothingCached,
    EditorP!Display, EditorP!Loaded, EditorP!LoadResource, EditorP!Busy, EditorP!server,
    EditorP!counters, EditorP!Open, EditorP!Reload, EditorP!ServerGets, EditorP!AnswerGet,
    EditorP!FailGet, EditorP!CacheExpires, EditorP!Usable, EditorP!HandleEdit,
    EditorP!HandleCancelEdit, EditorP!SendOp, EditorP!Op, EditorP!HandleSave,
    EditorP!AskDelete, EditorP!DismissDelete, EditorP!HandleDelete, EditorP!HandleRun,
    EditorP!HandleClone, EditorP!Write, EditorP!Done, EditorP!Refuse, EditorP!Bump,
    EditorP!UpdateResource, EditorP!CreateResource, EditorP!DeleteResource,
    EditorP!ServerHandles, EditorP!OthersUpdate, EditorP!OthersCreate, EditorP!OthersDelete,
    EditorP!Succeeds, EditorP!Fails, EditorP!AnswerOp, EditorP!FailOp, EditorP!EditorNext

LEMMA StudioStepSame == Studio!StudioNext <=> StudioP!StudioNext
BY DEF
    Studio!storeVars, Studio!serverVars, Studio!bounds, Studio!EmptyGraph, Studio!New,
    Studio!Made, Studio!OnCanvas, Studio!Kind, Studio!CanSave, Studio!CanRun,
    Studio!CanAssist, Studio!Idle, Studio!ApplyStatus, Studio!StatusFades, Studio!Flight,
    Studio!Depart, Studio!editOthers, Studio!Edit, Studio!SelectNode, Studio!SetCrewName,
    Studio!SetCrewSettings, Studio!TypeYaml, Studio!ParseYaml, Studio!HandleLoadExample,
    Studio!HandleAutoLayout, Studio!LayoutEnds, Studio!OpenAssistant, Studio!HandleGenerate,
    Studio!Generated, Studio!HandleAssistantApply, Studio!CloseDialog, Studio!DoLoadCrew,
    Studio!HandleLoadCrew, Studio!ConfirmDiscard, Studio!LoadReads, Studio!LoadEnds,
    Studio!StartSave, Studio!HandleSave, Studio!ServerSaves, Studio!SaveAnswers,
    Studio!Fails, Studio!RequestFails, Studio!OpenRunDialog, Studio!SetExecutionId,
    Studio!HandleRun, Studio!ServerKicksOff, Studio!KickoffAnswers, Studio!ExecutionEnds,
    Studio!PollFires, Studio!PollAnswers, Studio!PollFails, Studio!ClearExecResults,
    Studio!Leave, Studio!OthersSave, Studio!StudioNext, StudioP!storeVars,
    StudioP!serverVars, StudioP!bounds, StudioP!EmptyGraph, StudioP!New, StudioP!Made,
    StudioP!OnCanvas, StudioP!Kind, StudioP!CanSave, StudioP!CanRun, StudioP!CanAssist,
    StudioP!Idle, StudioP!ApplyStatus, StudioP!StatusFades, StudioP!Flight, StudioP!Depart,
    StudioP!editOthers, StudioP!Edit, StudioP!SelectNode, StudioP!SetCrewName,
    StudioP!SetCrewSettings, StudioP!TypeYaml, StudioP!ParseYaml, StudioP!HandleLoadExample,
    StudioP!HandleAutoLayout, StudioP!LayoutEnds, StudioP!OpenAssistant,
    StudioP!HandleGenerate, StudioP!Generated, StudioP!HandleAssistantApply,
    StudioP!CloseDialog, StudioP!DoLoadCrew, StudioP!HandleLoadCrew, StudioP!ConfirmDiscard,
    StudioP!LoadReads, StudioP!LoadEnds, StudioP!StartSave, StudioP!HandleSave,
    StudioP!ServerSaves, StudioP!SaveAnswers, StudioP!Fails, StudioP!RequestFails,
    StudioP!OpenRunDialog, StudioP!SetExecutionId, StudioP!HandleRun,
    StudioP!ServerKicksOff, StudioP!KickoffAnswers, StudioP!ExecutionEnds,
    StudioP!PollFires, StudioP!PollAnswers, StudioP!PollFails, StudioP!ClearExecResults,
    StudioP!Leave, StudioP!OthersSave, StudioP!StudioNext

(* In the console this part does what its own specification says. *)
LEMMA RoomBehaves == Spec => RoomP!RoomSpec
<1>1. Init => RoomP!RoomInit
  <2> SUFFICES ASSUME Init
               PROVE  RoomP!RoomInit
    OBVIOUS
  <2>1. \E s \in Sessions : Room!RoomInitOf(s)
    <3>1. CASE part = "studio room"
      BY <3>1 DEF Init, Room!RoomInit
    <3>2. CASE part # "studio room"
      BY <3>2, RestAssumption DEF Init, Any
    <3> QED
      BY <3>1, <3>2
  <2>2. \A s : Room!RoomInitOf(s) <=> RoomP!RoomInitOf(s)
    BY DEF Room!RoomInitOf, RoomP!RoomInitOf
  <2> QED
    BY <2>1, <2>2 DEF RoomP!RoomInit
<1>2. [Next]_vars => [RoomP!RoomNext]_(RoomP!roomVars)
  <2>1. ASSUME Next
        PROVE  Room!RoomNext \/ UNCHANGED roomVars
    BY <2>1 DEF Next
  <2> QED
    BY <2>1, RoomStepSame DEF vars, roomVars, RoomP!roomVars
<1> QED
  BY <1>1, <1>2, PTL DEF Spec, RoomP!RoomSpec

(* No socket of a tab stays in a room that the tab left, unless the last one *)
(* closed after the next had begun to connect (useCollaboration).            *)
THEOREM ConsoleNoGhostInTime == Spec => []NoGhostInTime
<1>1. RoomP!NoneIsNone
  BY RoomAssumption DEF Room!NoneIsNone, RoomP!NoneIsNone
<1>2. RoomP!RoomSpec => []RoomP!NoGhostInTime
  BY <1>1, RoomP!NoGhostInTimeHolds
<1>3. RoomP!NoGhostInTime <=> NoGhostInTime
  BY DEF NoGhostInTime, Room!Current, Room!NoGhost, Room!NoGhostInTime, RoomP!Current,
      RoomP!NoGhost, RoomP!NoGhostInTime
<1> QED
  BY <1>2, <1>3, RoomBehaves, PTL

(* The tabs of a room agree once all changes have arrived, on the nodes,     *)
(* and on their places if no change was sent while another was on its way    *)
(* (useCollaboration; the subscription of pages/Studio.tsx).                 *)
THEOREM ConsoleTabsConverge == Spec => []TabsConverge
<1>1. RoomP!NoneIsNone
  BY RoomAssumption DEF Room!NoneIsNone, RoomP!NoneIsNone
<1>2. RoomP!RoomSpec => []RoomP!TabsConverge
  BY <1>1, RoomP!TabsAgree
<1>3. RoomP!TabsConverge <=> TabsConverge
  BY DEF TabsConverge, Room!OnTheWay, Room!TabsConverge, RoomP!OnTheWay, RoomP!TabsConverge
<1> QED
  BY <1>2, <1>3, RoomBehaves, PTL

(* In the console this part does what its own specification says. *)
LEMMA EditorBehaves == Spec => EditorP!EditorSpec
<1>1. Init => EditorP!EditorInit
  <2> SUFFICES ASSUME Init
               PROVE  EditorP!EditorInit
    OBVIOUS
  <2>1. PICK held \in SUBSET Editor!Rows, s \in Scopes : Editor!EditorInitOf({n1}, held, s)
    <3>1. CASE part = "resource page"
      BY <3>1 DEF Init
    <3>2. CASE part # "resource page"
      <4>1. {None} \subseteq Editor!Rows
        BY DEF Editor!Rows
      <4>2. Any(Scopes) \in Scopes
        BY RestAssumption DEF Any
      <4> QED
        BY <3>2, <4>1, <4>2 DEF Init
    <3> QED
      BY <3>1, <3>2
  <2>2. EditorP!EditorInitOf({n1}, held, s)
    BY <2>1 DEF Editor!EditorInitOf, EditorP!EditorInitOf, Editor!NothingCached, EditorP!NothingCached
  <2>3. EditorP!EditorInitOf(Names, EditorP!Rows, s)
    <3>1. store \in [Names -> EditorP!Rows]
      BY <2>1, <2>2 DEF EditorP!EditorInitOf, Editor!Rows, EditorP!Rows, Editor!Row, EditorP!Row
    <3> QED
      BY <2>2, <3>1, RestAssumption DEF EditorP!EditorInitOf
  <2> QED
    BY <2>3 DEF EditorP!EditorInit
<1>2. [Next]_vars => [EditorP!EditorNext]_(EditorP!editorVars)
  <2>1. ASSUME Next
        PROVE  Editor!EditorNext \/ UNCHANGED editorVars
    BY <2>1 DEF Next
  <2> QED
    BY <2>1, EditorStepSame DEF vars, editorVars, EditorP!editorVars
<1> QED
  BY <1>1, <1>2, PTL DEF Spec, EditorP!EditorSpec

(* An accepted save replaces the body its author had loaded                  *)
(* (ResourceDetail.tsx, update_resource).                                    *)
THEOREM ConsoleNoLostUpdate == Spec => []NoLostUpdate
<1>1. EditorP!CopiesNamed
  BY EditorAssumption DEF Editor!CopiesNamed, EditorP!CopiesNamed
<1>2. EditorP!EditorSpec => []EditorP!NoLostUpdate
  BY <1>1, EditorP!NoUpdateIsLost
<1>3. EditorP!NoLostUpdate <=> NoLostUpdate
  BY DEF NoLostUpdate, Editor!NoLostUpdate, EditorP!NoLostUpdate
<1> QED
  BY <1>2, <1>3, EditorBehaves, PTL

(* A text is saved to the resource it describes (handleSave).                *)
THEOREM ConsoleSavedWhereItBelongs == Spec => []SavedWhereItBelongs
<1>1. EditorP!CopiesNamed
  BY EditorAssumption DEF Editor!CopiesNamed, EditorP!CopiesNamed
<1>2. EditorP!EditorSpec => []EditorP!SavedWhereItBelongs
  BY <1>1, EditorP!SavesWhereItBelongs
<1>3. EditorP!SavedWhereItBelongs <=> SavedWhereItBelongs
  BY DEF SavedWhereItBelongs, Editor!SavedWhereItBelongs, EditorP!SavedWhereItBelongs
<1> QED
  BY <1>2, <1>3, EditorBehaves, PTL

(* A delete or a run acts on the resource its dialog names, unless the URL   *)
(* changed under a request in flight (handleDelete, handleRun).              *)
THEOREM ConsoleActsOnWhatIsShown == Spec => []ActsOnWhatIsShown
<1>1. EditorP!CopiesNamed
  BY EditorAssumption DEF Editor!CopiesNamed, EditorP!CopiesNamed
<1>2. EditorP!EditorSpec => []EditorP!ActsOnWhatIsShown
  BY <1>1, EditorP!ActionsAreOnWhatIsShown
<1>3. EditorP!ActsOnWhatIsShown <=> ActsOnWhatIsShown
  BY DEF ActsOnWhatIsShown, Editor!ActsOnWhatIsShown, EditorP!ActsOnWhatIsShown
<1> QED
  BY <1>2, <1>3, EditorBehaves, PTL

(* In the console this part does what its own specification says. *)
LEMMA StudioBehaves == Spec => StudioP!StudioSpec
<1>1. Init => StudioP!StudioInit
  <2> SUFFICES ASSUME Init
               PROVE  StudioP!StudioInit
    OBVIOUS
  <2>1. \E u \in Users, c \in Crews : Studio!StudioInitOf(u, c)
    <3>1. CASE part = "studio"
      BY <3>1 DEF Init, Studio!StudioInit
    <3>2. CASE part # "studio"
      BY <3>2, RestAssumption DEF Init, Any
    <3> QED
      BY <3>1, <3>2
  <2>2. \A u, c : Studio!StudioInitOf(u, c) <=> StudioP!StudioInitOf(u, c)
    BY DEF Studio!StudioInitOf, StudioP!StudioInitOf, Studio!OnCanvas, StudioP!OnCanvas,
           Studio!EmptyGraph, StudioP!EmptyGraph
  <2> QED
    BY <2>1, <2>2 DEF StudioP!StudioInit
<1>2. [Next]_vars => [StudioP!StudioNext]_(StudioP!studioVars)
  <2>1. ASSUME Next
        PROVE  Studio!StudioNext \/ UNCHANGED studioVars
    BY <2>1 DEF Next
  <2> QED
    BY <2>1, StudioStepSame DEF vars, studioVars, StudioP!studioVars
<1> QED
  BY <1>1, <1>2, PTL DEF Spec, StudioP!StudioSpec

(* A run of the studio executes the graph of the click (handleRun, saveCrew).*)
THEOREM ConsoleRunsWhatWasSaved == Spec => []RunsWhatWasSaved
<1>1. StudioP!StudioAssumption
  BY StudioAssumption DEF Studio!StudioAssumption, StudioP!StudioAssumption
<1>2. StudioP!StudioSpec => []StudioP!RunsWhatWasSaved
  BY <1>1, StudioP!RunsAreOfTheClick
<1>3. StudioP!RunsWhatWasSaved <=> RunsWhatWasSaved
  BY DEF RunsWhatWasSaved, Studio!RunsWhatWasSaved, StudioP!RunsWhatWasSaved
<1> QED
  BY <1>2, <1>3, StudioBehaves, PTL

(* The studio is locked only while what unlocks it is in flight.             *)
THEOREM ConsoleLockedOnlyWhileBusy == Spec => []LockedOnlyWhileBusy
<1>1. StudioP!StudioAssumption
  BY StudioAssumption DEF Studio!StudioAssumption, StudioP!StudioAssumption
<1>2. StudioP!StudioSpec => []StudioP!LockedOnlyWhileBusy
  BY <1>1, StudioP!NothingStaysLocked
<1>3. StudioP!LockedOnlyWhileBusy <=> LockedOnlyWhileBusy
  BY DEF LockedOnlyWhileBusy, Studio!Kind, Studio!LockedOnlyWhileBusy, StudioP!Kind,
      StudioP!LockedOnlyWhileBusy
<1> QED
  BY <1>2, <1>3, StudioBehaves, PTL

(* The studio shows results of the execution it follows (the effect that     *)
(* polls, pollCancelledRef), with the two exceptions the property names.     *)
THEOREM ConsoleResultsOfLastRun == Spec => ResultsOfLastRun
<1>1. StudioP!StudioAssumption
  BY StudioAssumption DEF Studio!StudioAssumption, StudioP!StudioAssumption
<1>2. StudioP!StudioSpec => StudioP!ResultsOfLastRun
  BY <1>1, StudioP!ResultsAreOfTheRun
<1>3. StudioP!ResultsOfLastRun <=> ResultsOfLastRun
  BY DEF ResultsOfLastRun, Studio!Kind, Studio!ResultsOfLastRun, StudioP!Kind,
      StudioP!ResultsOfLastRun
<1> QED
  BY <1>2, <1>3, StudioBehaves, PTL

LEMMA HistoryStepSame == History!HistoryNext <=> HistoryP!HistoryNext
BY DEF
    History!Fresh, History!PushHistory, History!AtTip, History!Amend, History!Change,
    History!OnNodesChange, History!OnEdgesChange, History!Restore, History!UndoOf,
    History!RedoOf, History!Recorded, History!Unrecorded, History!Make,
    History!HandleConnect, History!OnDrop, History!HandleDuplicate, History!HandleDelete,
    History!DeleteEdges, History!DeleteNode, History!SelectNode, History!Drag,
    History!DragEnd, History!UpdateNodeData, History!HalfSecondPasses, History!SetGraph,
    History!Undo, History!Redo, History!LoadPageAgain, History!HistoryNext,
    HistoryP!Fresh, HistoryP!PushHistory, HistoryP!AtTip, HistoryP!Amend, HistoryP!Change,
    HistoryP!OnNodesChange, HistoryP!OnEdgesChange, HistoryP!Restore, HistoryP!UndoOf,
    HistoryP!RedoOf, HistoryP!Recorded, HistoryP!Unrecorded, HistoryP!Make,
    HistoryP!HandleConnect, HistoryP!OnDrop, HistoryP!HandleDuplicate, HistoryP!HandleDelete,
    HistoryP!DeleteEdges, HistoryP!DeleteNode, HistoryP!SelectNode, HistoryP!Drag,
    HistoryP!DragEnd, HistoryP!UpdateNodeData, HistoryP!HalfSecondPasses, HistoryP!SetGraph,
    HistoryP!Undo, HistoryP!Redo, HistoryP!LoadPageAgain, HistoryP!HistoryNext

(* In the console this part does what its own specification says. *)
LEMMA HistoryBehaves == Spec => HistoryP!HistorySpec
<1>1. Init => HistoryP!HistoryInit
  BY DEF Init, History!HistoryInit, HistoryP!HistoryInit
<1>2. [Next]_vars => [HistoryP!HistoryNext]_(HistoryP!historyVars)
  <2>1. ASSUME Next
        PROVE  History!HistoryNext \/ UNCHANGED historyVars
    BY <2>1 DEF Next
  <2> QED
    BY <2>1, HistoryStepSame DEF vars, historyVars, HistoryP!historyVars
<1> QED
  BY <1>1, <1>2, PTL DEF Spec, HistoryP!HistorySpec

(* Undo and redo of the studio's store (stores/studioStore.ts) are those of  *)
(* an undo stack, until a change in the middle of the history goes           *)
(* unrecorded.                                                               *)
THEOREM ConsoleIsUndoStack == Spec => IsUndoStack
<1>1. HistoryP!HistoryAssumption
  BY HistoryAssumption DEF History!HistoryAssumption, HistoryP!HistoryAssumption
<1>2. HistoryP!HistorySpec => HistoryP!IsUndoStack
  BY <1>1, HistoryP!StoreIsUndoStack
<1>3. /\ History!Past = HistoryP!Past /\ (History!Past)' = (HistoryP!Past)'
      /\ History!Future = HistoryP!Future /\ (History!Future)' = (HistoryP!Future)'
  <2>1. \A q : History!Dedup(q) = HistoryP!Dedup(q)
    BY DEF History!Dedup, HistoryP!Dedup
  <2>2. \A q : History!Front(q) = HistoryP!Front(q)
    BY DEF History!Front, HistoryP!Front
  <2> QED
    BY <2>1, <2>2 DEF History!Past, HistoryP!Past, History!Future, HistoryP!Future,
       History!AtTip, HistoryP!AtTip
<1>4. History!U!Init <=> HistoryP!U!Init
  BY <1>3 DEF History!U!Init, HistoryP!U!Init
<1>5. [History!U!Broken \/ History!U!Steps]_(History!U!stack)
        <=> [HistoryP!U!Broken \/ HistoryP!U!Steps]_(HistoryP!U!stack)
  <2>1. History!U!Broken <=> HistoryP!U!Broken
    BY DEF History!U!Broken, HistoryP!U!Broken
  <2>2. History!U!Front(History!Past) = HistoryP!U!Front(HistoryP!Past)
    BY <1>3 DEF History!U!Front, HistoryP!U!Front
  <2>3. History!U!Last(History!Past) = HistoryP!U!Last(HistoryP!Past)
    BY <1>3 DEF History!U!Last, HistoryP!U!Last
  <2>4. \A q : History!U!Remembered(q) <=> HistoryP!U!Remembered(q)
    BY <1>3 DEF History!U!Remembered, HistoryP!U!Remembered
  <2>5. History!U!Steps <=> HistoryP!U!Steps
    BY <1>3, <2>2, <2>3, <2>4 DEF History!U!Steps, HistoryP!U!Steps,
       History!U!Restart, HistoryP!U!Restart, History!U!Edit, HistoryP!U!Edit,
       History!U!Amend, HistoryP!U!Amend, History!U!Undo, HistoryP!U!Undo,
       History!U!Redo, HistoryP!U!Redo
  <2> QED
    BY <1>3, <2>1, <2>5 DEF History!U!stack, HistoryP!U!stack
<1> QED
  BY <1>2, <1>4, <1>5, HistoryBehaves, PTL DEF IsUndoStack, History!IsUndoStack,
     HistoryP!IsUndoStack, History!U!Spec, HistoryP!U!Spec

(***************************************************************************)
(* The types.                                                              *)
(***************************************************************************)
(* The same of the resource page, from its own module. *)
LEMMA EditorTypes == Spec => []Editor!EditorTypeOK
<1>1. EditorP!CopiesNamed /\ EditorP!EditorBounds
  BY EditorAssumption, BoundsAssumption DEF Editor!CopiesNamed, EditorP!CopiesNamed,
     Editor!EditorBounds, EditorP!EditorBounds
<1>2. EditorP!EditorSpec => []EditorP!EditorTypeOK
  BY <1>1, EditorP!EditorTypeCorrect
<1>3. EditorP!EditorTypeOK <=> Editor!EditorTypeOK
  BY DEF Editor!EditorTypeOK, EditorP!EditorTypeOK
<1> QED
  BY <1>2, <1>3, EditorBehaves, PTL

(* The same of the editor of the studio, from its own module. *)
LEMMA StudioTypes == Spec => []Studio!StudioTypeOK
<1>1. StudioP!StudioAssumption
  BY StudioAssumption DEF Studio!StudioAssumption, StudioP!StudioAssumption
<1>2. StudioP!StudioSpec => []StudioP!StudioTypeOK
  BY <1>1, StudioP!StudioTypeCorrect
<1>3. StudioP!StudioTypeOK <=> Studio!StudioTypeOK
  <2>1. Studio!Cardinality(flights) = StudioP!Cardinality(flights)
    BY DEF Studio!Cardinality, StudioP!Cardinality
  <2> QED
    BY <2>1 DEF Studio!StudioTypeOK, StudioP!StudioTypeOK
<1> QED
  BY <1>2, <1>3, StudioBehaves, PTL

(* The same of the history of the studio, from its own module. *)
LEMMA HistoryTypes == Spec => []History!HistoryTypeOK
<1>1. HistoryP!HistoryAssumption
  BY HistoryAssumption DEF History!HistoryAssumption, HistoryP!HistoryAssumption
<1>2. HistoryP!HistorySpec => []HistoryP!HistoryTypeOK
  BY <1>1, HistoryP!HistoryTypeCorrect
<1>3. HistoryP!HistoryTypeOK <=> History!HistoryTypeOK
  BY DEF History!HistoryTypeOK, HistoryP!HistoryTypeOK
<1> QED
  BY <1>2, <1>3, HistoryBehaves, PTL

(* The same of the rooms of the studio, from its own module. *)
LEMMA RoomTypes == Spec => []Room!RoomTypeOK
<1>1. RoomP!NoneIsNone /\ RoomP!RoomBounds
  BY RoomAssumption, BoundsAssumption DEF Room!NoneIsNone, RoomP!NoneIsNone,
     Room!RoomBounds, RoomP!RoomBounds
<1>2. RoomP!RoomSpec => []RoomP!RoomTypeOK
  BY <1>1, RoomP!RoomTypeCorrect
<1>3. RoomP!RoomTypeOK <=> Room!RoomTypeOK
  BY DEF Room!RoomTypeOK, RoomP!RoomTypeOK
<1> QED
  BY <1>2, <1>3, RoomBehaves, PTL

(* Every part of the console keeps its types and stays within its bounds.    *)
THEOREM ConsoleTypeCorrect == Spec => []ConsoleTypeOK
<1>1. Init => part \in Parts
  BY DEF Init
<1>2. part \in Parts /\ [Next]_vars => (part \in Parts)'
  BY DEF Next, vars
<1>3. /\ part \in Parts
      /\ Page!PageTypeOK /\ Lists!ListTypeOK /\ Editor!EditorTypeOK /\ Sdk!SdkTypeOK
      /\ History!HistoryTypeOK /\ Studio!StudioTypeOK /\ Room!RoomTypeOK
      /\ Session!SessionTypeOK /\ Chat!ChatTypeOK
      => ConsoleTypeOK
  BY DEF ConsoleTypeOK, Parts
<1> QED
  BY <1>1, <1>2, <1>3, PageTypes, ListTypes, EditorTypes, SdkTypes, HistoryTypes, StudioTypes,
     RoomTypes, SessionTypes, ChatTypes, PTL DEF Spec
=============================================================================
