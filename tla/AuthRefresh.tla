----------------------------- MODULE AuthRefresh -----------------------------
(***************************************************************************)
(* The sign-in of one user: refresh sessions with rotating tokens          *)
(* (auth/session_service.py, auth/router.py) and the tabs of one browser   *)
(* that share its refresh cookie (src/frontend/lib/api/client.ts,          *)
(* components/auth/AuthBootstrap.tsx, store/session.ts).                   *)
(*                                                                         *)
(* A token is a session and its number in it; session 0 is a legacy        *)
(* token, of no session. Time passes in ticks of 2.5 s: a browser waits 2 s *)
(* for an answer and the server 2.5 s for the database, so neither waits   *)
(* through two ticks. Faults: answers and requests are lost, the server    *)
(* crashes before a commit, the database is busy, a tab is reloaded.       *)
(*                                                                         *)
(* Left out: rate limits (an answer 429 is taken as one of 503), the audit *)
(* log, the origin check, and the two-minute limit of a recovery, which    *)
(* its number of retries stands for.                                       *)
(***************************************************************************)
EXTENDS Naturals, Sequences, FiniteSets

CONSTANTS
  Tabs,         \* tabs of the browser
  Requests,     \* bound: refresh requests in flight at once
  Grace,        \* AUTH_REFRESH_REPLAY_GRACE_SECONDS, in ticks
  Cooldown,     \* REFRESH_COOLDOWN_MS, in ticks
  RetryDelay,   \* RECOVERY_RETRY_DELAY_MS, in ticks
  MaxRetries,   \* AUTH_RECOVERY_MAX_RETRIES
  MaxSessions,  \* bound: sessions ever created
  MaxRotations, \* bound: number of a token in its session
  NoRequest     \* no request

ASSUME AuthAssumption ==
  /\ {Grace, Cooldown, RetryDelay, MaxRetries, MaxSessions} \subseteq Nat
  /\ MaxRotations \in Nat \ {0}
  /\ NoRequest \notin Requests

VARIABLES
  session,  \* AuthRefreshSession rows, by number
  legacy,   \* the legacy token: its revocation row, sessions made from it
  jar,      \* the refresh cookie
  request,  \* refresh requests and their transactions
  tab,      \* the session store and the module state of each tab
  excused   \* history: the browser lost, reordered or outran an answer

authVars == <<session, legacy, jar, request, tab, excused>>

-----------------------------------------------------------------------------
(* State *)

RefreshToken == [session : 0 .. MaxSessions, jti : 0 .. MaxRotations]
NoCookie == [session |-> 0, jti |-> 0]
LegacyToken == [session |-> 0, jti |-> 1]

Row == [current : 1 .. MaxRotations, previous : 0 .. MaxRotations,
        grace : 0 .. Grace,
        revoked : {"no", "replayed_token", "ended"}]   \* ended: any other reason

Answers == {"none", "ok", "busy", "refused"}

\* locked: its transaction holds the row, `row` is what it will commit.
Request == [pc : {"free", "sent", "locked", "answered"}, age : 0 .. 1,
            sent : RefreshToken, answer : Answers, token : RefreshToken, row : Row]

Tab == [hydrated : BOOLEAN,
        token : BOOLEAN,                       \* an access token in memory
        status : {"authenticated", "refreshing", "recovering", "expired"},
        pending : Requests \cup {NoRequest},   \* refreshPromise
        stale : BOOLEAN,                       \* authVersion has moved on since
        cooldown : 0 .. Cooldown,              \* refreshCooldownUntilMs
        timer : 0 .. RetryDelay + 1,           \* AuthBootstrap: 0 is no timer, 1 is due
        retries : 0 .. MaxRetries]             \* recoveryRetryCount

NewRow == [current |-> 1, previous |-> 0, grace |-> 0, revoked |-> "no"]
NoWork == [pc |-> "free", age |-> 0, sent |-> NoCookie, answer |-> "none",
           token |-> NoCookie, row |-> NewRow]
NewTab == [hydrated |-> FALSE, token |-> FALSE, status |-> "expired",
           pending |-> NoRequest, stale |-> FALSE, cooldown |-> 0,
           timer |-> 0, retries |-> 0]

AuthInit ==
  /\ session = <<>>
  /\ legacy = [spent |-> FALSE, sessions |-> 0]
  /\ jar \in {NoCookie, LegacyToken}
  /\ request = [r \in Requests |-> NoWork]
  /\ tab = [t \in Tabs |-> NewTab]
  /\ excused = FALSE

Holder(r) == {t \in Tabs : tab[t].pending = r}

\* What remains of a request when its handler ends: nothing, if no tab waits.
Answered(r, answer, token) ==
  IF Holder(r) = {} THEN NoWork
  ELSE [NoWork EXCEPT !.pc = "answered", !.age = request[r].age,
                      !.answer = answer, !.token = token]

\* The row a token is about: locked by at most one transaction. The legacy
\* token's row is that of its revocation.
LockedBy(s) == {r \in Requests : request[r].pc = "locked" /\ request[r].sent.session = s}
Live(s) == s \in 1 .. Len(session) /\ session[s].revoked = "no"

-----------------------------------------------------------------------------
(* The server *)

\* Mutant: the previous token is never accepted.
RotatedStrictly(row, jti) ==
  IF row.revoked # "no" THEN [answer |-> "refused", row |-> row]
  ELSE IF jti = row.current
    THEN [answer |-> "ok", row |-> [row EXCEPT !.previous = row.current,
                                               !.grace = Grace, !.current = @ + 1]]
  ELSE [answer |-> "refused", row |-> [row EXCEPT !.revoked = "replayed_token"]]

\* rotate_refresh_session: the current token is rotated, the previous one is
\* answered with the current one in its grace, and any other revokes.
Rotated(row, jti) ==
  IF row.revoked # "no" THEN [answer |-> "refused", row |-> row]
  ELSE IF jti = row.current
    THEN [answer |-> "ok", row |-> [row EXCEPT !.previous = row.current,
                                               !.grace = Grace, !.current = @ + 1]]
  ELSE IF row.grace > 0 /\ jti = row.previous
    THEN [answer |-> "ok", row |-> row]
  ELSE [answer |-> "refused",
        row |-> [row EXCEPT !.revoked = "replayed_token",
                            !.previous = IF row.grace = 0 THEN 0 ELSE @]]

\* The row is read FOR UPDATE and the decision taken.
Lock(r) ==
  LET s == request[r].sent.session IN
  /\ request[r].pc = "sent"
  /\ Live(s)
  /\ request[r].sent.jti = session[s].current => session[s].current < MaxRotations
  /\ LockedBy(s) = {}
  /\ LET d == Rotated(session[s], request[r].sent.jti) IN
     request' = [request EXCEPT ![r].pc = "locked", ![r].answer = d.answer,
                                ![r].row = d.row]
  /\ UNCHANGED <<session, legacy, jar, tab, excused>>

\* No cookie, no such session, or one no longer active: 401.
Refuse(r) ==
  LET s == request[r].sent.session IN
  /\ request[r].pc = "sent"
  /\ IF s = 0 THEN request[r].sent = NoCookie ELSE ~Live(s) /\ LockedBy(s) = {}
  /\ request' = [request EXCEPT ![r] = Answered(r, "refused", NoCookie)]
  /\ UNCHANGED <<session, legacy, jar, tab, excused>>

\* consume_legacy_refresh_token: one insert that succeeds only once; another
\* transaction's uncommitted insert makes it wait.
Consume(r) ==
  /\ request[r].pc = "sent" /\ request[r].sent = LegacyToken
  /\ LockedBy(0) = {}
  /\ IF legacy.spent
       THEN request' = [request EXCEPT ![r] = Answered(r, "refused", NoCookie)]
       ELSE request' = [request EXCEPT ![r].pc = "locked", ![r].row = NewRow,
                                       ![r].answer = "ok"]
  /\ UNCHANGED <<session, legacy, jar, tab, excused>>

\* A rotation outruns the requests that are under way with an older token.
Outrun(s, row) ==
  /\ row.current # session[s].current
  /\ \E q \in Requests : /\ request[q].pc = "sent" /\ request[q].sent.session = s
                         /\ request[q].sent.jti < session[s].current

\* commit_safely, after it the answer and its cookie; a replay is committed too.
Commit(r) ==
  LET s == request[r].sent.session
      row == request[r].row
      born == Len(session) + 1
      token == [session |-> IF s = 0 THEN born ELSE s, jti |-> row.current]
  IN
  /\ request[r].pc = "locked"
  /\ IF s = 0
       THEN /\ Len(session) < MaxSessions
            /\ session' = Append(session, row)
            /\ legacy' = [spent |-> TRUE, sessions |-> legacy.sessions + 1]
            /\ UNCHANGED excused
       ELSE /\ session' = [session EXCEPT ![s] =
                             [row EXCEPT !.grace = IF row.current # session[s].current
                                                   THEN row.grace ELSE session[s].grace]]
            /\ excused' = (excused \/ Outrun(s, row))
            /\ UNCHANGED legacy
  /\ request' = [request EXCEPT ![r] =
                   Answered(r, request[r].answer,
                        IF request[r].answer = "ok" THEN token ELSE NoCookie)]
  /\ UNCHANGED <<jar, tab>>

\* TimeoutError: rolled back, 503. With no tab waiting, any other end before
\* the commit: the request was never received, or the server crashed.
Busy(r) ==
  /\ request[r].pc \in {"sent", "locked"}
  /\ request' = [request EXCEPT ![r] = Answered(r, "busy", NoCookie)]
  /\ UNCHANGED <<session, legacy, jar, tab, excused>>

\* expires_at passes, or the clean-up has deleted the row: refused alike.
Expire(s) ==
  /\ Live(s) /\ LockedBy(s) = {}
  /\ session' = [session EXCEPT ![s].revoked = "ended"]
  /\ UNCHANGED <<legacy, jar, request, tab, excused>>

-----------------------------------------------------------------------------
(* The tabs *)

\* setAccessToken, setSession and clearSession: authVersion moves on.
SignedIn(u) == [u EXCEPT !.hydrated = TRUE, !.token = TRUE, !.status = "authenticated",
                         !.retries = 0, !.timer = 0, !.stale = @ \/ u.pending # NoRequest]
SignedOut(u) == [u EXCEPT !.hydrated = TRUE, !.token = FALSE, !.status = "expired",
                          !.retries = 0, !.timer = 0, !.stale = @ \/ u.pending # NoRequest]

\* refreshAccessTokenWithOutcome beyond the cooldown: one request a tab.
Asked(t, r) ==
  /\ tab[t].pending = NoRequest
  /\ request[r].pc = "free"
  /\ request' = [request EXCEPT ![r] = [NoWork EXCEPT !.pc = "sent", !.sent = jar]]
  /\ tab' = [tab EXCEPT ![t].pending = r, ![t].stale = FALSE, ![t].timer = 0,
                        ![t].status = IF tab[t].token THEN "refreshing" ELSE @]

\* AuthBootstrap when the page is loaded.
ColdStart(t, r) ==
  /\ ~tab[t].hydrated
  /\ Asked(t, r)
  /\ UNCHANGED <<session, legacy, jar, excused>>

\* ensureFreshAccessToken near the end of the access token: before a request,
\* on focus, when the network is back.
Refresh(t, r) ==
  /\ tab[t].token /\ tab[t].cooldown = 0
  /\ Asked(t, r)
  /\ UNCHANGED <<session, legacy, jar, excused>>

\* A request was answered 401: refreshed whatever the cooldown.
ForceRefresh(t, r) ==
  /\ tab[t].token
  /\ Asked(t, r)
  /\ UNCHANGED <<session, legacy, jar, excused>>

\* The retry timer of a recovering tab is due and cleared; in the cooldown
\* nothing is asked and, as no state changes, no timer is set again.
Retry(t, r) ==
  /\ tab[t].timer = 1
  /\ IF tab[t].cooldown > 0
       THEN tab' = [tab EXCEPT ![t].timer = 0] /\ UNCHANGED request
       ELSE Asked(t, r)
  /\ UNCHANGED <<session, legacy, jar, excused>>

\* The promise ends with a failure: kept, in recovery, or signed out. It is
\* up to the age of the access token whether a refusal signs out at once.
\* versioned: everyone who waits for the promise has named the version of the
\* store it is for, as API requests do. AuthBootstrap names none (on load, on
\* focus, by its timer): what the promise ends in is then applied to whatever
\* session the tab has by now, or has left.
Transient(u) ==
  LET v == [u EXCEPT !.pending = NoRequest, !.stale = FALSE, !.cooldown = Cooldown,
                     !.hydrated = TRUE] IN
  IF u.stale THEN v
  ELSE IF ~u.token THEN [v EXCEPT !.status = "expired"]
  ELSE IF u.retries + 1 >= MaxRetries THEN SignedOut(v)
  ELSE [v EXCEPT !.status = "recovering", !.retries = @ + 1, !.timer = RetryDelay + 1]

Refused(u, expired, versioned) ==
  LET v == [u EXCEPT !.pending = NoRequest, !.stale = FALSE, !.cooldown = Cooldown,
                     !.hydrated = TRUE] IN
  IF u.stale THEN IF expired /\ ~versioned THEN SignedOut(v) ELSE v
  ELSE IF ~u.token THEN [v EXCEPT !.status = "expired"]
  ELSE IF expired THEN SignedOut(v)
  ELSE [v EXCEPT !.status = "authenticated", !.timer = 0]

\* applyRefreshedToken, guarded by the version if there is one.
Granted(u, versioned) ==
  LET v == [u EXCEPT !.pending = NoRequest, !.stale = FALSE] IN
  IF u.stale /\ versioned THEN v ELSE [SignedIn(v) EXCEPT !.stale = FALSE]

\* The browser has not signed out, signed in again or got a newer token while the token
\* was under way.
InOrder(token) ==
  jar = LegacyToken \/ (jar.session = token.session /\ jar.jti <= token.jti)

\* An answer arrives: the browser keeps its cookie, the tab its outcome.
Answer(t, r) ==
  /\ tab[t].pending = r /\ request[r].pc = "answered"
  /\ request' = [request EXCEPT ![r] = NoWork]
  /\ CASE request[r].answer = "ok" ->
            /\ jar' = request[r].token
            /\ \E versioned \in BOOLEAN : tab' = [tab EXCEPT ![t] = Granted(@, versioned)]
            /\ excused' = (excused \/ ~InOrder(request[r].token))
       [] request[r].answer = "busy" ->
            tab' = [tab EXCEPT ![t] = Transient(@)] /\ UNCHANGED <<jar, excused>>
       [] request[r].answer = "refused" ->
            /\ \E expired, versioned \in BOOLEAN :
                 tab' = [tab EXCEPT ![t] = Refused(@, expired, versioned)]
            /\ UNCHANGED <<jar, excused>>
  /\ UNCHANGED <<session, legacy>>

\* REFRESH_REQUEST_TIMEOUT_MS or a network error: the server may go on.
GiveUp(t) ==
  /\ tab[t].pending # NoRequest
  /\ tab' = [tab EXCEPT ![t] = Transient(@)]
  /\ excused' = TRUE
  /\ request' = [request EXCEPT ![tab[t].pending] = IF @.pc = "answered" THEN NoWork ELSE @]
  /\ UNCHANGED <<session, legacy, jar>>

Reload(t) ==
  /\ tab[t].hydrated
  /\ tab' = [tab EXCEPT ![t] = NewTab]
  /\ excused' = (excused \/ tab[t].pending # NoRequest)
  /\ request' = [r \in Requests |-> IF tab[t].pending = r /\ request[r].pc = "answered"
                                    THEN NoWork ELSE request[r]]
  /\ UNCHANGED <<session, legacy, jar>>

\* login_user: a session and its first token.
Login(t) ==
  /\ tab[t].hydrated /\ ~tab[t].token
  /\ Len(session) < MaxSessions
  /\ session' = Append(session, NewRow)
  /\ jar' = [session |-> Len(session) + 1, jti |-> 1]
  /\ tab' = [tab EXCEPT ![t] = SignedIn(@)]
  /\ UNCHANGED <<legacy, request, excused>>

\* Mutant: the row is revoked without waiting for a rotation that holds it.
LogoutAtOnce(t) ==
  /\ tab[t].token
  /\ session' = IF Live(jar.session) THEN [session EXCEPT ![jar.session].revoked = "ended"]
                ELSE session
  /\ legacy' = IF jar = LegacyToken THEN [legacy EXCEPT !.spent = TRUE] ELSE legacy
  /\ jar' = NoCookie
  /\ tab' = [tab EXCEPT ![t] = SignedOut(@)]
  /\ UNCHANGED <<request, excused>>

\* logout_user: the session of the cookie, or the legacy token, is revoked. One that meets
\* the insert of a bootstrap fails and leaves the tab as it is.
Logout(t) ==
  /\ tab[t].token
  /\ LockedBy(jar.session) = {}
  /\ session' = IF Live(jar.session) THEN [session EXCEPT ![jar.session].revoked = "ended"]
                ELSE session
  /\ legacy' = IF jar = LegacyToken THEN [legacy EXCEPT !.spent = TRUE] ELSE legacy
  /\ jar' = NoCookie
  /\ tab' = [tab EXCEPT ![t] = SignedOut(@)]
  /\ UNCHANGED <<request, excused>>

\* revoke_all_refresh_sessions_for_user and the legacy watermark, for
\* logout_all_sessions (which clears the cookie) and change_password. The rows of sessions
\* are locked; a bootstrap that has passed the watermark makes its session nevertheless.
RevokeAll(t, clear) ==
  /\ tab[t].token
  /\ \A s \in 1 .. Len(session) : LockedBy(s) = {}
  /\ session' = [s \in 1 .. Len(session) |->
                   IF Live(s) THEN [session[s] EXCEPT !.revoked = "ended"] ELSE session[s]]
  /\ legacy' = [legacy EXCEPT !.spent = TRUE]
  /\ jar' = IF clear THEN NoCookie ELSE jar
  /\ tab' = [tab EXCEPT ![t] = SignedOut(@)]
  /\ UNCHANGED <<request, excused>>

\* Nothing waits through two ticks, and a timer that is due fires first.
Tick ==
  /\ \A r \in Requests : request[r].pc # "free" => request[r].age = 0
  /\ \A t \in Tabs : tab[t].timer # 1
  /\ session' = [s \in 1 .. Len(session) |->
                   [session[s] EXCEPT !.grace = IF @ > 0 THEN @ - 1 ELSE 0]]
  /\ request' = [r \in Requests |-> IF request[r].pc = "free" THEN request[r]
                                    ELSE [request[r] EXCEPT !.age = 1]]
  /\ tab' = [t \in Tabs |->
               [tab[t] EXCEPT !.cooldown = IF @ > 0 THEN @ - 1 ELSE 0,
                              !.timer = IF @ > 0 THEN @ - 1 ELSE 0]]
  /\ UNCHANGED <<legacy, jar, excused>>

-----------------------------------------------------------------------------
(* Specification *)

Serve(r) == Lock(r) \/ Refuse(r) \/ Consume(r) \/ Commit(r) \/ Busy(r)

User(t) ==
  \/ \E r \in Requests : Refresh(t, r) \/ ForceRefresh(t, r)
  \/ Reload(t) \/ Login(t) \/ Logout(t) \/ \E clear \in BOOLEAN : RevokeAll(t, clear)

Browser(t) == \/ \E r \in Requests : ColdStart(t, r) \/ Retry(t, r) \/ Answer(t, r)
              \/ GiveUp(t)

AuthNext ==
  \/ \E r \in Requests : Serve(r)
  \/ \E s \in 1 .. Len(session) : Expire(s)
  \/ \E t \in Tabs : User(t) \/ Browser(t)
  \/ Tick

AuthSpec == AuthInit /\ [][AuthNext]_authVars

\* Timers run, the server answers and pages finish loading; users do nothing.
AuthFairness ==
  /\ WF_authVars(Tick)
  /\ \A r \in Requests : WF_authVars(Serve(r))
  /\ \A t \in Tabs : WF_authVars(Browser(t))

AuthFairSpec == AuthSpec /\ AuthFairness

-----------------------------------------------------------------------------
(* Properties *)

AuthTypeOK ==
  /\ session \in Seq(Row) /\ Len(session) <= MaxSessions
  /\ legacy \in [spent : BOOLEAN, sessions : 0 .. MaxSessions]
  /\ jar \in RefreshToken
  /\ request \in [Requests -> Request]
  /\ tab \in [Tabs -> Tab]
  /\ excused \in BOOLEAN

\* Tabs that refresh at the same time never lose the session: as long as each answer
\* arrived, in the order of the rotations and before any sign-in or sign-out behind its
\* request, and no request was overtaken by two rotations, no token of the browser is taken
\* for a replay. (The grace covers two ticks that have begun: it is at least 3.)
ReplayHasCause ==
  \A s \in 1 .. Len(session) : session[s].revoked = "replayed_token" => excused

\* A session that has ended keeps its last token for ever: the commit of a
\* rotation decided before a logout, a password change or a replay does not
\* bring it back.
EndedStaysEnded ==
  [][\A s \in 1 .. Len(session) :
       session[s].revoked # "no" =>
         /\ session'[s].revoked = session[s].revoked
         /\ session'[s].current = session[s].current]_authVars

\* A tab in recovery goes on trying until it is signed in or out
\* (AuthBootstrap.test.tsx:121, "retries on a short timer while auth is
\* recovering"). It does not: the retry comes in the cooldown of the refresh
\* that failed, asks nothing and is not set again.
RecoverySettles ==
  \A t \in Tabs : tab[t].status = "recovering" ~> tab[t].status # "recovering"

==============================================================================
