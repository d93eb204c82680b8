---------------------------- MODULE Access_proofs ----------------------------
(***************************************************************************)
(* Proofs about AuthRefresh, for every number of tabs, requests and        *)
(* sessions and every length of the timers, and about WsTickets, for every *)
(* number of tickets, connections and clean-up runs and every batch size.  *)
(*                                                                         *)
(* Sessions: what a transaction has decided about a row stays true until   *)
(* it commits, because it holds the row (Sound): that is why nothing       *)
(* brings an ended session back.  No token of the browser is taken for a   *)
(* replay as long as answers arrive in order (InStep): the cookie is of    *)
(* the last token of its session, or the answer with the last one has been *)
(* under way for less than a tick since the rotation (NewerUnderWay), and  *)
(* a request is sent with such a cookie and decided within another one     *)
(* (Orderly).                                                              *)
(*                                                                         *)
(* Tickets: AcceptedOnce is not inductive.  A second mark is excluded by   *)
(* the lock, so the invariant says who holds a row (LockedByReader), and   *)
(* that what an attempt has read under the lock is still so; and that a    *)
(* mark is counted exactly when it is stored.                              *)
(***************************************************************************)
EXTENDS AuthRefresh, WsTickets, TLAPS

-----------------------------------------------------------------------------
(* Login sessions: the invariant                                            *)

Pending(r) == request[r].pc \in {"sent", "locked"}
Granting(r) == request[r].pc = "answered" /\ request[r].answer = "ok"

\* A token is of a session there is; while that lives, it is not newer than its last one.
NotAhead(token) ==
  /\ token.session <= Len(session)
  /\ Live(token.session) => token.jti <= session[token.session].current

\* What a request carries, whatever the browser has lost.
Sound(r) ==
  LET k == request[r] s == k.sent.session IN
  /\ k.pc = "answered" => k.answer # "none"
  /\ Granting(r) => k.token.session > 0 /\ k.token.jti > 0 /\ NotAhead(k.token)
  /\ Pending(r) => NotAhead(k.sent)
  /\ k.pc = "locked" =>
       IF s = 0 THEN k.answer = "ok" /\ k.row = NewRow
       ELSE Live(s) /\ k.answer # "none" /\ k.row.current >= session[s].current
              /\ (k.row.revoked = "no" => k.row.previous + 1 = k.row.current)
              /\ (k.answer = "ok" <=> k.row.revoked = "no")

\* A row is locked by one transaction at a time.
OneDecision ==
  \A q, r \in Requests :
    request[q].pc = "locked" /\ request[r].pc = "locked"
      /\ request[q].sent.session = request[r].sent.session => q = r

\* The tokens of a session are numbered without a gap.
Chained == \A s \in 1 .. Len(session) : Live(s) => session[s].previous + 1 = session[s].current

Books ==
  /\ AuthTypeOK /\ legacy.sessions <= Len(session)
  /\ NotAhead(jar) /\ Chained /\ OneDecision
  /\ \A r \in Requests : Sound(r)

\* A tab waits for the request; its token is usable until it is answered, and its
\* decision is a rotation or an answer in the grace.
Orderly(r) ==
  LET k == request[r] s == k.sent.session IN
  /\ k.pc # "free" => \E t \in Tabs : tab[t].pending = r
  /\ Pending(r) /\ jar = LegacyToken => s = 0
  /\ Pending(r) /\ s > 0 /\ s = jar.session => k.sent.jti <= jar.jti
  /\ k.pc = "sent" /\ Live(s) =>
       \/ k.sent.jti = session[s].current
       \/ k.sent.jti = session[s].previous /\ session[s].grace + k.age + 1 >= Grace
  /\ k.pc = "locked" /\ s > 0 =>
       /\ k.row.revoked = "no"
       /\ \/ k.row.current = session[s].current
          \/ /\ k.row.current = session[s].current + 1 /\ k.sent.jti = session[s].current
             /\ k.row.grace = Grace

\* The cookie is of the last token, or of the one before and the last one is under way.
NewerUnderWay ==
  LET s == jar.session IN
  Live(s) /\ jar.jti # session[s].current =>
    /\ jar.jti = session[s].previous
    /\ \E w \in Requests :
         /\ Granting(w) /\ request[w].token.session = s
         /\ request[w].token.jti = session[s].current
         /\ session[s].grace + request[w].age >= Grace

\* Nothing has been rotated while the browser still has the legacy token.
Unrotated == jar = LegacyToken => \A s \in 1 .. Len(session) : session[s].current = 1

InStep == NewerUnderWay /\ Unrotated /\ \A r \in Requests : Orderly(r)

\* The grace covers the two ticks a token may be late: one while the answer with its
\* successor is under way, another while it is sent itself.
InTime == ~excused /\ Grace >= 3

AuthInv == Books /\ (InTime => InStep) /\ (Grace >= 3 => ReplayHasCause)
-----------------------------------------------------------------------------
\* What the constants and the types say of the records.
LEMMA BoundsFacts ==
  /\ Grace \in Nat /\ Cooldown \in Nat /\ RetryDelay \in Nat /\ MaxRetries \in Nat
  /\ MaxSessions \in Nat /\ MaxRotations \in Nat /\ MaxRotations >= 1
  /\ NoRequest \notin Requests
  BY AuthAssumption

\* The first rows, requests and tabs.
LEMMA StartFacts ==
  /\ NoCookie \in RefreshToken /\ NewRow \in Row /\ NoWork \in Request /\ NewTab \in Tab
  /\ NoCookie.session = 0 /\ NoCookie.jti = 0
  /\ NewRow.current = 1 /\ NewRow.previous = 0 /\ NewRow.revoked = "no"
  /\ NoWork.pc = "free" /\ NewTab.pending = NoRequest
<1>1. NoCookie \in RefreshToken /\ NewRow \in Row
  BY BoundsFacts DEF NoCookie, NewRow, RefreshToken, Row
<1>2. NoWork \in Request
  BY <1>1 DEF NoWork, Request, Answers
<1>3. NewTab \in Tab
  BY BoundsFacts DEF NewTab, Tab
<1>. QED
  BY <1>1, <1>2, <1>3 DEF NoCookie, NewRow, NoWork, NewTab

\* The legacy token is of no session, and is a token.
LEMMA LegacyFacts == LegacyToken \in RefreshToken /\ LegacyToken.session = 0 /\ LegacyToken # NoCookie
  BY BoundsFacts DEF LegacyToken, RefreshToken, NoCookie

\* A tab that signs in or out, or whose request ends, waits for nothing new.
LEMMA TabFacts ==
  ASSUME NEW u \in Tab
  PROVE  /\ SignedIn(u) \in Tab /\ SignedIn(u).pending = u.pending
         /\ SignedOut(u) \in Tab /\ SignedOut(u).pending = u.pending
         /\ Transient(u) \in Tab /\ Transient(u).pending = NoRequest
         /\ \A versioned \in BOOLEAN :
              Granted(u, versioned) \in Tab /\ Granted(u, versioned).pending = NoRequest
         /\ \A expired, versioned \in BOOLEAN :
              /\ Refused(u, expired, versioned) \in Tab
              /\ Refused(u, expired, versioned).pending = NoRequest
<1>0. /\ 0 \in 0 .. MaxRetries /\ 0 \in 0 .. RetryDelay + 1 /\ Cooldown \in 0 .. Cooldown
      /\ RetryDelay + 1 \in 0 .. RetryDelay + 1
  BY BoundsFacts
<1>1. ASSUME NEW v \in Tab
      PROVE  /\ SignedIn(v) \in Tab /\ SignedIn(v).pending = v.pending
             /\ SignedOut(v) \in Tab /\ SignedOut(v).pending = v.pending
  <2>1. PICK b \in BOOLEAN : b = (v.stale \/ v.pending # NoRequest)
    OBVIOUS
  <2>2. SignedIn(v) = [v EXCEPT !.hydrated = TRUE, !.token = TRUE, !.status = "authenticated",
                                !.retries = 0, !.timer = 0, !.stale = b]
    BY <2>1 DEF SignedIn
  <2>3. SignedOut(v) = [v EXCEPT !.hydrated = TRUE, !.token = FALSE, !.status = "expired",
                                 !.retries = 0, !.timer = 0, !.stale = b]
    BY <2>1 DEF SignedOut
  <2>. QED
    BY <2>2, <2>3, <1>0 DEF Tab
<1>2. PICK k : k = [u EXCEPT !.pending = NoRequest, !.stale = FALSE, !.cooldown = Cooldown,
                             !.hydrated = TRUE]
  OBVIOUS
<1>3. k \in Tab /\ k.pending = NoRequest /\ k.retries = u.retries
  BY <1>2, <1>0 DEF Tab
<1>4. Transient(u) \in Tab /\ Transient(u).pending = NoRequest
  <2>1. [k EXCEPT !.status = "expired"] \in Tab
    BY <1>3 DEF Tab
  <2>2. ASSUME ~(u.retries + 1 >= MaxRetries)
        PROVE  [k EXCEPT !.status = "recovering", !.retries = @ + 1,
                         !.timer = RetryDelay + 1] \in Tab
    <3>1. k.retries + 1 \in 0 .. MaxRetries
      BY <2>2, <1>3, BoundsFacts DEF Tab
    <3>. QED
      BY <3>1, <1>3, <1>0 DEF Tab
  <2>3. /\ [k EXCEPT !.status = "expired"].pending = NoRequest
        /\ [k EXCEPT !.status = "recovering", !.retries = @ + 1,
                     !.timer = RetryDelay + 1].pending = NoRequest
    BY <1>3 DEF Tab
  <2>. QED
    BY <1>1, <1>2, <1>3, <2>1, <2>2, <2>3 DEF Transient
<1>5. ASSUME NEW expired \in BOOLEAN, NEW versioned \in BOOLEAN
      PROVE  /\ Refused(u, expired, versioned) \in Tab
             /\ Refused(u, expired, versioned).pending = NoRequest
  <2>1. [k EXCEPT !.status = "expired"] \in Tab
    BY <1>3 DEF Tab
  <2>2. [k EXCEPT !.status = "authenticated", !.timer = 0] \in Tab
    BY <1>3, <1>0 DEF Tab
  <2>3. /\ [k EXCEPT !.status = "expired"].pending = NoRequest
        /\ [k EXCEPT !.status = "authenticated", !.timer = 0].pending = NoRequest
    BY <1>3 DEF Tab
  <2>. QED
    BY <1>1, <1>2, <1>3, <2>1, <2>2, <2>3 DEF Refused
<1>6. ASSUME NEW versioned \in BOOLEAN
      PROVE  Granted(u, versioned) \in Tab /\ Granted(u, versioned).pending = NoRequest
  <2>1. PICK v : v = [u EXCEPT !.pending = NoRequest, !.stale = FALSE]
    OBVIOUS
  <2>2. v \in Tab /\ v.pending = NoRequest
    BY <2>1 DEF Tab
  <2>3. [SignedIn(v) EXCEPT !.stale = FALSE] \in Tab
    <3>1. SignedIn(v) \in Tab
      BY <2>2, <1>1
    <3>. QED
      BY <3>1 DEF Tab
  <2>. QED
    BY <2>1, <2>2, <2>3, <1>1 DEF Granted, Tab
<1>. QED
  BY <1>1, <1>4, <1>5, <1>6

\* The answer to a request: nothing if no tab waits for it.
LEMMA AnsweredFacts ==
  ASSUME request \in [Requests -> Request], NEW r \in Requests,
         NEW answer \in Answers, NEW token \in RefreshToken
  PROVE  /\ Answered(r, answer, token) \in Request
         /\ Answered(r, answer, token).pc \in {"free", "answered"}
         /\ Answered(r, answer, token).sent = NoCookie
         /\ Answered(r, answer, token).pc = "answered" =>
              /\ \E t \in Tabs : tab[t].pending = r
              /\ Answered(r, answer, token).answer = answer
              /\ Answered(r, answer, token).token = token
              /\ Answered(r, answer, token).age = request[r].age
         /\ (\E t \in Tabs : tab[t].pending = r) => Answered(r, answer, token).pc = "answered"
<1>1. request[r].age \in 0 .. 1 /\ NoWork \in Request
  BY StartFacts DEF Request
<1>2. CASE Holder(r) = {}
  BY <1>2, <1>1, StartFacts DEF Answered, Holder, NoWork
<1>3. CASE Holder(r) # {}
  <2>1. PICK k : k = [NoWork EXCEPT !.pc = "answered", !.age = request[r].age,
                                    !.answer = answer, !.token = token]
    OBVIOUS
  <2>2. /\ k \in Request /\ k.pc = "answered" /\ k.sent = NoCookie
        /\ k.answer = answer /\ k.token = token /\ k.age = request[r].age
    BY <2>1, <1>1 DEF NoWork, Request
  <2>3. Answered(r, answer, token) = k
    BY <2>1, <1>3 DEF Answered
  <2>. QED
    BY <2>2, <2>3, <1>3 DEF Holder
<1>. QED
  BY <1>2, <1>3

\* The decision about a token.
LEMMA RotatedFacts ==
  ASSUME NEW old \in Row, NEW jti \in Nat, old.revoked = "no",
         jti = old.current => old.current < MaxRotations
  PROVE  /\ Rotated(old, jti).row \in Row /\ Rotated(old, jti).answer \in {"ok", "refused"}
         /\ Rotated(old, jti).answer = "ok" <=> Rotated(old, jti).row.revoked = "no"
         /\ Rotated(old, jti).row.current >= old.current
         /\ old.previous + 1 = old.current /\ Rotated(old, jti).row.revoked = "no" =>
              Rotated(old, jti).row.previous + 1 = Rotated(old, jti).row.current
         /\ jti = old.current =>
              /\ Rotated(old, jti).answer = "ok"
              /\ Rotated(old, jti).row.current = old.current + 1
              /\ Rotated(old, jti).row.grace = Grace
         /\ old.grace > 0 /\ jti = old.previous /\ jti # old.current =>
              /\ Rotated(old, jti).answer = "ok"
              /\ Rotated(old, jti).row.current = old.current
<1>0. /\ old.current \in 1 .. MaxRotations /\ old.previous \in 0 .. MaxRotations
      /\ old.grace \in 0 .. Grace
  BY DEF Row
<1>1. CASE jti = old.current
  <2>1. PICK k : k = [old EXCEPT !.previous = old.current, !.grace = Grace, !.current = @ + 1]
    OBVIOUS
  <2>2. /\ k \in Row /\ k.previous = old.current /\ k.grace = Grace
        /\ k.current = old.current + 1 /\ k.revoked = "no"
    <3>1. /\ old.current + 1 \in 1 .. MaxRotations /\ old.current \in 0 .. MaxRotations
          /\ Grace \in 0 .. Grace
      BY <1>1, <1>0, BoundsFacts
    <3>. QED
      BY <2>1, <3>1, <1>0 DEF Row
  <2>3. Rotated(old, jti) = [answer |-> "ok", row |-> k]
    BY <2>1, <1>1 DEF Rotated
  <2>. QED
    BY <2>2, <2>3, <1>0, <1>1, BoundsFacts
<1>2. CASE jti # old.current /\ old.grace > 0 /\ jti = old.previous
  <2>1. Rotated(old, jti) = [answer |-> "ok", row |-> old]
    BY <1>2 DEF Rotated
  <2>. QED
    BY <2>1, <1>2, <1>0, BoundsFacts
<1>3. CASE jti # old.current /\ ~(old.grace > 0 /\ jti = old.previous)
  <2>1. PICK k : k = [old EXCEPT !.revoked = "replayed_token",
                                 !.previous = IF old.grace = 0 THEN 0 ELSE @]
    OBVIOUS
  <2>2. k \in Row /\ k.current = old.current /\ k.revoked = "replayed_token"
    <3>1. (IF old.grace = 0 THEN 0 ELSE old.previous) \in 0 .. MaxRotations
      BY <1>0, BoundsFacts
    <3>. QED
      BY <2>1, <3>1, <1>0 DEF Row
  <2>3. Rotated(old, jti) = [answer |-> "refused", row |-> k]
    BY <2>1, <1>3 DEF Rotated
  <2>. QED
    BY <2>2, <2>3, <1>0, <1>3, BoundsFacts
<1>. QED
  BY <1>1, <1>2, <1>3

-----------------------------------------------------------------------------
\* Nobody has signed in at first.
LEMMA AuthInvInit == AuthInit => AuthInv
<1>. SUFFICES ASSUME AuthInit PROVE AuthInv
  OBVIOUS
<1>1. AuthTypeOK
  <2>1. session \in Seq(Row) /\ Len(session) <= MaxSessions
    BY BoundsFacts DEF AuthInit
  <2>2. legacy \in [spent : BOOLEAN, sessions : 0 .. MaxSessions]
    BY BoundsFacts DEF AuthInit
  <2>. QED
    BY <2>1, <2>2, StartFacts, LegacyFacts DEF AuthInit, AuthTypeOK
<1>2. Len(session) = 0 /\ jar.session = 0 /\ \A r \in Requests : request[r] = NoWork
  BY StartFacts, LegacyFacts DEF AuthInit
<1>3. Books
  <2>1. NotAhead(jar) /\ Chained /\ legacy.sessions <= Len(session)
    BY <1>2 DEF NotAhead, Chained, Live, AuthInit
  <2>2. OneDecision /\ \A r \in Requests : Sound(r)
    BY <1>2, StartFacts DEF OneDecision, Sound, Pending, Granting
  <2>. QED
    BY <1>1, <2>1, <2>2 DEF Books
<1>4. InStep
  BY <1>2, StartFacts DEF InStep, NewerUnderWay, Unrotated, Orderly, Pending, Live
<1>5. ReplayHasCause
  BY <1>2 DEF ReplayHasCause
<1>. QED
  BY <1>3, <1>4, <1>5 DEF AuthInv
-----------------------------------------------------------------------------
\* Steps of requests that leave sessions and cookie alone: every other request stays, and
\* its tab goes on waiting. A request that changes was not granting anything, unless the
\* browser has lost its answer.
LEMMA RequestsMove ==
  ASSUME AuthInv, UNCHANGED <<session, jar>>,
         legacy' \in [spent : BOOLEAN, sessions : 0 .. MaxSessions],
         legacy'.sessions = legacy.sessions,
         request' \in [Requests -> Request], tab' \in [Tabs -> Tab],
         excused' \in BOOLEAN, InTime' => InTime,
         \A r \in Requests : request'[r] # request[r] =>
           /\ Sound(r)'
           /\ InTime' => Orderly(r)' /\ ~Granting(r)
           /\ request'[r].pc = "locked" =>
                \A q \in Requests \ {r} :
                  ~(request'[q].pc = "locked" /\ request'[q].sent.session = request'[r].sent.session),
         InTime' => \A r \in Requests :
           request'[r] = request[r] /\ request[r].pc # "free"
             /\ (\E t \in Tabs : tab[t].pending = r) =>
               \E t \in Tabs : tab'[t].pending = r
  PROVE  AuthInv'
<1>1. AuthTypeOK'
  BY DEF AuthInv, Books, AuthTypeOK
<1>2. Books'
  <2>1. NotAhead(jar)' /\ Chained'
    BY DEF AuthInv, Books, NotAhead, Chained, Live
  <2>2. OneDecision'
    BY DEF AuthInv, Books, OneDecision
  <2>3. ASSUME NEW r \in Requests PROVE Sound(r)'
    <3>1. CASE request'[r] = request[r]
      BY <3>1 DEF AuthInv, Books, Sound, NotAhead, Live, Pending, Granting
    <3>. QED
      BY <3>1
  <2>. QED
    BY <1>1, <2>1, <2>2, <2>3 DEF Books, AuthInv
<1>3. ASSUME InTime' PROVE InStep'
  <2>1. InTime /\ InStep
    BY <1>3 DEF AuthInv
  <2>2. ASSUME NEW r \in Requests PROVE Orderly(r)'
    <3>1. CASE request'[r] = request[r]
      BY <3>1, <1>3, <2>1 DEF InStep, Orderly, Pending, Live
    <3>. QED
      BY <3>1, <1>3
  <2>3. NewerUnderWay'
    <3>1. ASSUME NEW w \in Requests, Granting(w) PROVE request'[w] = request[w]
      BY <3>1, <1>3
    <3>. QED
      BY <2>1, <3>1 DEF InStep, NewerUnderWay, Live, Granting
  <2>. QED
    BY <2>1, <2>2, <2>3 DEF InStep, Unrotated
<1>4. Grace >= 3 => ReplayHasCause'
  BY DEF AuthInv, ReplayHasCause, InTime
<1>. QED
  BY <1>2, <1>3, <1>4 DEF AuthInv

\* Sessions end that no transaction holds; the cookie is kept or cleared.
LEMMA SessionsEnd ==
  ASSUME AuthInv, UNCHANGED <<request, excused>>, jar' \in {jar, NoCookie},
         session' \in Seq(Row), Len(session') = Len(session),
         \A s \in 1 .. Len(session) :
           \/ session'[s] = session[s]
           \/ /\ Live(s) /\ LockedBy(s) = {}
              /\ session'[s] = [session[s] EXCEPT !.revoked = "ended"],
         legacy' \in [spent : BOOLEAN, sessions : 0 .. MaxSessions],
         legacy'.sessions = legacy.sessions,
         tab' \in [Tabs -> Tab], \A t \in Tabs : tab'[t].pending = tab[t].pending
  PROVE  AuthInv'
<1>0. session \in Seq(Row) /\ \A s \in 1 .. Len(session) : session[s] \in Row /\ session'[s] \in Row
  BY DEF AuthInv, Books, AuthTypeOK
<1>a. ASSUME NEW s \in 1 .. Len(session), session'[s] # session[s]
      PROVE  session'[s].revoked = "ended" /\ session'[s].current = session[s].current
  <2>1. session'[s] = [session[s] EXCEPT !.revoked = "ended"] /\ session[s] \in Row
    BY <1>a, <1>0
  <2>. QED
    BY <2>1 DEF Row
<1>1. ASSUME NEW s, Live(s)' PROVE Live(s) /\ session'[s] = session[s]
  <2>1. s \in 1 .. Len(session) /\ session'[s].revoked = "no"
    BY <1>1 DEF Live
  <2>. QED
    BY <2>1, <1>a DEF Live
<1>2. ASSUME NEW s \in 1 .. Len(session), LockedBy(s) # {}
      PROVE  session'[s] = session[s] /\ (Live(s) => Live(s)')
  BY <1>2 DEF Live
<1>3. AuthTypeOK'
  BY StartFacts DEF AuthInv, Books, AuthTypeOK
<1>4. ASSUME NEW token, NotAhead(token) PROVE NotAhead(token)'
  BY <1>1, <1>4 DEF NotAhead
<1>5. Books'
  <2>1. NotAhead(jar)'
    <3>1. NotAhead(NoCookie)
      BY StartFacts, <1>0 DEF NotAhead, Live
    <3>. QED
      BY <1>4, <3>1 DEF AuthInv, Books, NotAhead
  <2>2. Chained'
    BY <1>1 DEF AuthInv, Books, Chained
  <2>3. OneDecision'
    BY DEF AuthInv, Books, OneDecision
  <2>4. ASSUME NEW r \in Requests PROVE Sound(r)'
    <3>1. Sound(r)
      BY DEF AuthInv, Books
    <3>2. request[r].pc = "locked" => LockedBy(request[r].sent.session) # {}
      BY DEF LockedBy
    <3>3. Granting(r)' = Granting(r) /\ Pending(r)' = Pending(r)
      BY DEF Granting, Pending
    <3>4. ASSUME request[r].pc = "locked", request[r].sent.session # 0
          PROVE  /\ Live(request[r].sent.session)'
                 /\ session'[request[r].sent.session] = session[request[r].sent.session]
      BY <3>1, <3>2, <3>4, <1>2 DEF Sound, Live
    <3>5. NotAhead(request[r].token) => NotAhead(request[r].token)'
      BY <1>4 DEF NotAhead
    <3>6. NotAhead(request[r].sent) => NotAhead(request[r].sent)'
      BY <1>4 DEF NotAhead
    <3>. QED
      BY <3>1, <3>3, <3>4, <3>5, <3>6 DEF Sound, NotAhead
  <2>. QED
    BY <1>3, <2>1, <2>2, <2>3, <2>4 DEF Books, AuthInv
<1>6. ASSUME InTime PROVE InStep'
  <2>1. InStep
    BY <1>6 DEF AuthInv
  <2>2. NewerUnderWay'
    <3>1. CASE jar' = jar
      BY <3>1, <1>1, <2>1 DEF InStep, NewerUnderWay, Granting
    <3>2. CASE jar' = NoCookie
      BY <3>2, StartFacts DEF NewerUnderWay, Live
    <3>. QED
      BY <3>1, <3>2
  <2>3. Unrotated'
    <3>1. \A s \in 1 .. Len(session) : session'[s].current = session[s].current
      BY <1>a
    <3>. QED
      BY <2>1, <3>1, LegacyFacts DEF InStep, Unrotated
  <2>4. ASSUME NEW r \in Requests PROVE Orderly(r)'
    <3>1. Orderly(r) /\ Sound(r)
      BY <2>1 DEF InStep, AuthInv, Books
    <3>2. ASSUME request[r].pc = "locked", request[r].sent.session > 0
          PROVE  session'[request[r].sent.session] = session[request[r].sent.session]
      <4>1. LockedBy(request[r].sent.session) # {}
        BY <3>2 DEF LockedBy
      <4>. QED
        BY <3>1, <3>2, <4>1, <1>2 DEF Sound, Live
    <3>3. jar' = NoCookie => jar'.session = 0 /\ jar' # LegacyToken
      BY StartFacts, LegacyFacts
    <3>. QED
      BY <3>1, <3>2, <3>3, <1>1 DEF Orderly, Pending
  <2>. QED
    BY <2>2, <2>3, <2>4 DEF InStep
<1>7. ReplayHasCause => ReplayHasCause'
  <2>1. \A s \in 1 .. Len(session) :
          session'[s].revoked = "replayed_token" => session[s].revoked = "replayed_token"
    BY <1>a
  <2>. QED
    BY <2>1 DEF AuthInv, ReplayHasCause
<1>. QED
  BY <1>5, <1>6, <1>7 DEF AuthInv, InTime
-----------------------------------------------------------------------------
(* The server                                                              *)

\* The record of a request.
LEMMA RequestFacts ==
  ASSUME AuthInv, NEW r \in Requests
  PROVE  /\ request \in [Requests -> Request] /\ request[r] \in Request /\ Sound(r)
         /\ request[r].sent \in RefreshToken /\ request[r].token \in RefreshToken
         /\ request[r].age \in 0 .. 1 /\ request[r].row \in Row /\ request[r].answer \in Answers
         /\ request[r].sent.session \in Nat /\ request[r].sent.jti \in Nat
         /\ InTime => Orderly(r)
<1>1. request[r] \in Request /\ request \in [Requests -> Request]
  BY DEF AuthInv, Books, AuthTypeOK
<1>2. request[r].sent \in RefreshToken
  BY <1>1 DEF Request
<1>3. request[r].sent.session \in Nat /\ request[r].sent.jti \in Nat
  BY <1>2, BoundsFacts DEF RefreshToken
<1>. QED
  BY <1>1, <1>2, <1>3 DEF Request, AuthInv, Books, InStep

\* A request ends without a token: answered, or nobody waits.
LEMMA EndsWithout ==
  ASSUME AuthInv, NEW r \in Requests, NEW answer \in {"busy", "refused"},
         Pending(r), request' = [request EXCEPT ![r] = Answered(r, answer, NoCookie)],
         UNCHANGED <<session, legacy, jar, tab, excused>>
  PROVE  AuthInv'
<1>1. PICK k : k = Answered(r, answer, NoCookie)
  OBVIOUS
<1>2. /\ k \in Request /\ k.pc \in {"free", "answered"} /\ k.sent = NoCookie
      /\ k.pc = "answered" => k.answer = answer /\ \E t \in Tabs : tab[t].pending = r
  BY <1>1, AnsweredFacts, RequestFacts, StartFacts DEF Answers
<1>3. request' = [request EXCEPT ![r] = k] /\ request' \in [Requests -> Request]
  BY <1>1, <1>2, RequestFacts
<1>4. request'[r] = k
  BY <1>3, RequestFacts
<1>5. Sound(r)'
  BY <1>2, <1>4 DEF Sound, Pending, Granting
<1>6. Orderly(r)' /\ ~Granting(r)
  BY <1>2, <1>4 DEF Orderly, Pending, Granting
<1>. QED
  BY RequestsMove, <1>2, <1>3, <1>4, <1>5, <1>6, RequestFacts DEF AuthInv, Books, AuthTypeOK, InTime

\* A refusal.
LEMMA RefuseKeeps ==
  ASSUME AuthInv, NEW r \in Requests, Refuse(r)
  PROVE  AuthInv'
  BY EndsWithout DEF Refuse, Pending

\* A timeout, or a lost request.
LEMMA BusyKeeps ==
  ASSUME AuthInv, NEW r \in Requests, Busy(r)
  PROVE  AuthInv'
  BY EndsWithout DEF Busy, Pending

\* The row is locked, and the decision taken. In step, it is a rotation or an answer in
\* the grace: the token sent is the last one, or the one before for less than two ticks.
LEMMA LockKeeps ==
  ASSUME AuthInv, NEW r \in Requests, Lock(r)
  PROVE  AuthInv'
<1>1. PICK s : s = request[r].sent.session
  OBVIOUS
<1>2. PICK jti : jti = request[r].sent.jti
  OBVIOUS
<1>3. /\ request[r].pc = "sent" /\ Live(s) /\ LockedBy(s) = {} /\ s \in 1 .. Len(session)
      /\ jti = session[s].current => session[s].current < MaxRotations
      /\ UNCHANGED <<session, legacy, jar, tab, excused>>
  BY <1>1, <1>2 DEF Lock, Live
<1>4. jti \in Nat /\ s \in Nat
  BY <1>1, <1>2, RequestFacts
<1>5. session[s] \in Row /\ session[s].revoked = "no"
  BY <1>3 DEF AuthInv, Books, AuthTypeOK, Live
<1>6. PICK d : d = Rotated(session[s], jti)
  OBVIOUS
<1>7. /\ d.row \in Row /\ d.answer \in {"ok", "refused"}
      /\ d.answer = "ok" <=> d.row.revoked = "no"
      /\ d.row.current >= session[s].current
      /\ session[s].previous + 1 = session[s].current /\ d.row.revoked = "no" =>
           d.row.previous + 1 = d.row.current
      /\ jti = session[s].current =>
           d.answer = "ok" /\ d.row.current = session[s].current + 1 /\ d.row.grace = Grace
      /\ session[s].grace > 0 /\ jti = session[s].previous /\ jti # session[s].current =>
           d.answer = "ok" /\ d.row.current = session[s].current
  BY <1>3, <1>4, <1>5, <1>6, RotatedFacts
<1>8. PICK k : k = [request[r] EXCEPT !.pc = "locked", !.answer = d.answer, !.row = d.row]
  OBVIOUS
<1>9. /\ k \in Request /\ k.pc = "locked" /\ k.answer = d.answer /\ k.row = d.row
      /\ k.sent = request[r].sent /\ k.token = request[r].token /\ k.age = request[r].age
  BY <1>7, <1>8, RequestFacts DEF Request, Answers
<1>10. request' = [request EXCEPT ![r] = k]
  BY <1>1, <1>2, <1>6, <1>8, RequestFacts DEF Lock
<1>11. request'[r] = k /\ request' \in [Requests -> Request]
  BY <1>9, <1>10, RequestFacts
<1>12. \A q \in Requests \ {r} :
         ~(request'[q].pc = "locked" /\ request'[q].sent.session = request'[r].sent.session)
  BY <1>1, <1>3, <1>9, <1>10, <1>11 DEF LockedBy
<1>13. Sound(r)'
  <2>1. Sound(r) /\ session[s].previous + 1 = session[s].current
    BY <1>3, RequestFacts DEF AuthInv, Books, Chained
  <2>2. /\ request'[r].pc = "locked" /\ request'[r].sent = request[r].sent
        /\ request'[r].answer = d.answer /\ request'[r].row = d.row
    BY <1>9, <1>11
  <2>3. NotAhead(request[r].sent) /\ NotAhead(request[r].sent)'
    BY <2>1, <2>2, <1>3 DEF Sound, Pending, NotAhead, Live
  <2>4. Live(s) /\ Live(s)' /\ s # 0
    BY <1>3 DEF Live
  <2>. QED
    BY <1>1, <1>3, <1>7, <2>1, <2>2, <2>3, <2>4 DEF Sound, Pending, Granting, NotAhead
<1>14. ASSUME InTime PROVE Orderly(r)'
  <2>1. Orderly(r)
    BY <1>14, RequestFacts
  <2>2. \/ jti = session[s].current
        \/ jti = session[s].previous /\ session[s].grace + request[r].age + 1 >= Grace
    BY <2>1, <1>1, <1>2, <1>3 DEF Orderly
  <2>3. jti # session[s].current => session[s].grace > 0
    BY <2>2, <1>5, RequestFacts, BoundsFacts, <1>14 DEF Row, InTime
  <2>4. /\ d.answer = "ok" /\ d.row.revoked = "no"
        /\ \/ d.row.current = session[s].current
           \/ /\ d.row.current = session[s].current + 1 /\ jti = session[s].current
              /\ d.row.grace = Grace
    BY <1>7, <2>2, <2>3
  <2>. QED
    BY <1>1, <1>2, <1>3, <1>9, <1>11, <2>1, <2>4 DEF Orderly, Pending
<1>15. ~Granting(r)
  BY <1>3 DEF Granting
<1>. QED
  BY RequestsMove, <1>3, <1>10, <1>11, <1>12, <1>13, <1>14, <1>15, RequestFacts DEF AuthInv, Books, AuthTypeOK, InTime

\* The legacy token is consumed once; the transaction of another makes this one wait.
LEMMA ConsumeKeeps ==
  ASSUME AuthInv, NEW r \in Requests, Consume(r)
  PROVE  AuthInv'
<1>1. CASE legacy.spent
  BY <1>1, EndsWithout DEF Consume, Pending
<1>2. CASE ~legacy.spent
  <2>1. PICK k : k = [request[r] EXCEPT !.pc = "locked", !.row = NewRow, !.answer = "ok"]
    OBVIOUS
  <2>2. /\ k \in Request /\ k.pc = "locked" /\ k.answer = "ok" /\ k.row = NewRow
        /\ k.sent = LegacyToken /\ k.token = request[r].token /\ k.age = request[r].age
    BY <2>1, RequestFacts, StartFacts DEF Request, Answers, Consume
  <2>3. request' = [request EXCEPT ![r] = k]
    BY <1>2, <2>1, RequestFacts DEF Consume
  <2>4. request'[r] = k /\ request' \in [Requests -> Request]
    BY <2>2, <2>3, RequestFacts
  <2>5. \A q \in Requests \ {r} :
          ~(request'[q].pc = "locked" /\ request'[q].sent.session = request'[r].sent.session)
    BY <2>2, <2>3, <2>4, LegacyFacts DEF LockedBy, Consume
  <2>6. Sound(r)'
    <3>1. NotAhead(k.sent)'
      BY <2>2, LegacyFacts, <2>4 DEF NotAhead, Live, AuthInv, Books, AuthTypeOK, Consume
    <3>. QED
      BY <3>1, <2>2, <2>4, LegacyFacts DEF Sound, Pending, Granting
  <2>7. request[r].pc = "sent" /\ UNCHANGED <<session, legacy, jar, tab, excused>>
    BY DEF Consume
  <2>8. ASSUME InTime PROVE Orderly(r)'
    <3>1. Orderly(r)
      BY <2>8, RequestFacts
    <3>. QED
      BY <3>1, <2>2, <2>4, <2>7, LegacyFacts DEF Orderly, Pending
  <2>9. ~Granting(r)
    BY <2>7 DEF Granting
  <2>. QED
    BY RequestsMove, <2>3, <2>4, <2>5, <2>6, <2>7, <2>8, <2>9 DEF AuthInv, Books, AuthTypeOK, InTime
<1>. QED
  BY <1>1, <1>2

\* A new session: what was issued before is of the others.
LEMMA SessionBorn ==
  ASSUME AuthInv, Len(session) < MaxSessions, session' = Append(session, NewRow)
  PROVE  /\ session' \in Seq(Row) /\ Len(session') = Len(session) + 1 /\ Len(session) \in Nat
         /\ Len(session') <= MaxSessions
         /\ \A s \in 1 .. Len(session) : session'[s] = session[s] /\ (Live(s)' <=> Live(s))
         /\ session'[Len(session) + 1] = NewRow
         /\ \A s : s <= Len(session) => (Live(s)' <=> Live(s))
         /\ Chained' /\ (ReplayHasCause /\ (excused => excused') => ReplayHasCause')
         /\ Unrotated /\ jar' = jar => Unrotated'
<1>1. session \in Seq(Row) /\ NewRow \in Row
  BY StartFacts DEF AuthInv, Books, AuthTypeOK
<1>2. /\ session' \in Seq(Row) /\ Len(session') = Len(session) + 1 /\ Len(session) \in Nat
      /\ \A s \in 1 .. Len(session) : session'[s] = session[s]
      /\ session'[Len(session) + 1] = NewRow
  BY <1>1
<1>3. \A s : s <= Len(session) => (Live(s)' <=> Live(s))
  BY <1>2 DEF Live
<1>4. Len(session') <= MaxSessions
  BY <1>2, BoundsFacts
<1>5. \A s \in 1 .. Len(session') : s \in 1 .. Len(session) \/ s = Len(session) + 1
  BY <1>2
<1>6. Chained'
  BY <1>2, <1>3, <1>5, StartFacts DEF Chained, Live, AuthInv, Books
<1>7. Unrotated /\ jar' = jar => Unrotated'
  BY <1>2, <1>5, StartFacts DEF Unrotated
<1>8. ReplayHasCause /\ (excused => excused') => ReplayHasCause'
  BY <1>2, <1>5, StartFacts DEF ReplayHasCause
<1>. QED
  BY <1>2, <1>3, <1>4, <1>6, <1>7, <1>8

\* So does the cookie's.
LEMMA BornJar ==
  ASSUME AuthInv, Len(session) < MaxSessions, session' = Append(session, NewRow), jar' = jar
  PROVE  NotAhead(jar)'
<1>1. jar.session \in Nat /\ NotAhead(jar)
  BY BoundsFacts DEF RefreshToken, AuthInv, Books, AuthTypeOK
<1>. QED
  BY <1>1, SessionBorn DEF NotAhead, Live

\* A request as others see a new session.
LEMMA BornBeside ==
  ASSUME AuthInv, Len(session) < MaxSessions, session' = Append(session, NewRow),
         NEW q \in Requests, request'[q] = request[q]
  PROVE  /\ Sound(q)'
         /\ Orderly(q) /\ tab' = tab /\ jar' = jar => Orderly(q)'
<1>1. Sound(q) /\ request[q].sent.session \in Nat /\ NotAhead(jar)
  BY RequestFacts DEF AuthInv, Books
<1>a. /\ request[q].sent.session \in Nat /\ request[q].token.session \in Nat
      /\ jar.session \in Nat
  BY RequestFacts, BoundsFacts DEF RefreshToken, AuthInv, Books, AuthTypeOK
<1>2. ASSUME NEW token, token.session \in Nat, NotAhead(token)
      PROVE  /\ token.session <= Len(session')
             /\ Live(token.session)' => token.jti <= session'[token.session].current
  BY <1>2, SessionBorn DEF NotAhead, Live
<1>3. Sound(q)'
  <2>1. Pending(q)' = Pending(q) /\ Granting(q)' = Granting(q)
    BY DEF Pending, Granting
  <2>2. NotAhead(request[q].token) => NotAhead(request[q].token)'
    BY <1>2, <1>a DEF NotAhead
  <2>3. NotAhead(request[q].sent) => NotAhead(request[q].sent)'
    BY <1>2, <1>a DEF NotAhead
  <2>4. Live(request[q].sent.session) =>
          /\ Live(request[q].sent.session)'
          /\ session'[request[q].sent.session] = session[request[q].sent.session]
    BY SessionBorn DEF Live
  <2>. QED
    BY <1>1, <2>1, <2>2, <2>3, <2>4 DEF Sound
<1>5. Orderly(q) /\ tab' = tab /\ jar' = jar => Orderly(q)'
  <2>1. Pending(q) => request[q].sent.session <= Len(session)
    BY <1>1 DEF Sound, NotAhead
  <2>2. Pending(q) => /\ Live(request[q].sent.session)' <=> Live(request[q].sent.session)
                      /\ request[q].sent.session > 0 =>
                           session'[request[q].sent.session] = session[request[q].sent.session]
    BY <1>1, <2>1, SessionBorn
  <2>3. Live(request[q].sent.session) => request[q].sent.session > 0
    BY <1>1 DEF Live
  <2>. QED
    BY <2>2, <2>3 DEF Orderly, Pending
<1>. QED
  BY <1>3, <1>5

\* A legacy token is exchanged for a new session.
LEMMA ExchangeKeeps ==
  ASSUME AuthInv, NEW r \in Requests, Commit(r), request[r].sent.session = 0
  PROVE  AuthInv'
<1>1. PICK token : token = [session |-> Len(session) + 1, jti |-> request[r].row.current]
  OBVIOUS
<1>2. /\ request[r].pc = "locked" /\ request[r].row = NewRow /\ request[r].answer = "ok"
      /\ Len(session) < MaxSessions /\ session' = Append(session, NewRow)
      /\ legacy' = [spent |-> TRUE, sessions |-> legacy.sessions + 1]
      /\ UNCHANGED <<jar, tab, excused>>
  BY RequestFacts DEF Commit, Sound
<1>3. PICK k : k = Answered(r, "ok", token)
  OBVIOUS
<1>4. request' = [request EXCEPT ![r] = k]
  BY <1>1, <1>2, <1>3 DEF Commit
<1>5. token \in RefreshToken /\ token.session = Len(session) + 1 /\ token.jti = 1
  BY <1>1, <1>2, StartFacts, BoundsFacts, SessionBorn DEF RefreshToken
<1>6. /\ k \in Request /\ k.pc \in {"free", "answered"} /\ k.sent = NoCookie
      /\ k.pc = "answered" => /\ k.answer = "ok" /\ k.token = token
                              /\ \E t \in Tabs : tab[t].pending = r
  BY <1>3, <1>5, AnsweredFacts, RequestFacts DEF Answers
<1>7. request'[r] = k /\ request' \in [Requests -> Request]
      /\ \A q \in Requests \ {r} : request'[q] = request[q]
  BY <1>4, <1>6, RequestFacts
<1>8. Books'
  <2>1. AuthTypeOK'
    <3>1. legacy'.sessions \in 0 .. MaxSessions
      BY <1>2, BoundsFacts, SessionBorn DEF AuthInv, Books, AuthTypeOK
    <3>. QED
      BY <1>2, <1>7, <3>1, SessionBorn DEF AuthInv, Books, AuthTypeOK
  <2>2. legacy'.sessions <= Len(session')
    BY <1>2, SessionBorn DEF AuthInv, Books, AuthTypeOK
  <2>3. Chained' /\ NotAhead(jar)'
    BY <1>2, <1>6, BornJar, SessionBorn DEF AuthInv, Books
  <2>4. OneDecision'
    BY <1>6, <1>7 DEF OneDecision, AuthInv, Books
  <2>5. Sound(r)'
    BY <1>2, <1>5, <1>6, <1>7, SessionBorn, StartFacts DEF Sound, Pending, Granting, NotAhead, Live
  <2>6. \A q \in Requests \ {r} : Sound(q)'
    BY <1>2, <1>7, BornBeside
  <2>. QED
    BY <2>1, <2>2, <2>3, <2>4, <2>5, <2>6 DEF Books
<1>9. ASSUME InTime' PROVE InStep'
  <2>1. InTime /\ InStep
    BY <1>2, <1>9 DEF AuthInv, InTime
  <2>2. \A q \in Requests \ {r} : Orderly(q)'
    BY <1>2, <1>7, <2>1, BornBeside DEF InStep
  <2>3. Orderly(r)'
    BY <1>2, <1>6, <1>7 DEF Orderly, Pending
  <2>4. NewerUnderWay'
    <3>1. NotAhead(jar) /\ jar \in RefreshToken
      BY DEF AuthInv, Books, AuthTypeOK
    <3>2. Live(jar.session)' => Live(jar.session) /\ session'[jar.session] = session[jar.session]
      BY <3>1, <1>2, SessionBorn DEF NotAhead, Live
    <3>3. ~Granting(r)
      BY <1>2 DEF Granting
    <3>. QED
      BY <3>2, <3>3, <1>2, <1>7, <2>1 DEF InStep, NewerUnderWay, Granting
  <2>. QED
    BY <1>2, <2>1, <2>2, <2>3, <2>4, SessionBorn DEF InStep
<1>. QED
  BY <1>2, <1>8, <1>9, SessionBorn DEF AuthInv, InTime

\* The commit of a decision about a token of a session. The token that is rotated was the
\* last one, so the cookie is no older; its successor is under way until it is answered.
LEMMA RotationKeeps ==
  ASSUME AuthInv, NEW r \in Requests, Commit(r), request[r].sent.session # 0
  PROVE  AuthInv'
<1>1. PICK s : s = request[r].sent.session
  OBVIOUS
<1>2. PICK kept : kept = request[r].row
  OBVIOUS
<1>3. PICK n : n = [kept EXCEPT !.grace = IF kept.current # session[s].current
                                         THEN kept.grace ELSE session[s].grace]
  OBVIOUS
<1>4. /\ request[r].pc = "locked" /\ session' = [session EXCEPT ![s] = n]
      /\ excused' = (excused \/ Outrun(s, kept))
      /\ UNCHANGED <<legacy, jar, tab>>
  BY <1>1, <1>2, <1>3 DEF Commit
<1>5. /\ Sound(r) /\ s \in Nat /\ kept \in Row /\ session \in Seq(Row)
  BY <1>1, <1>2, RequestFacts DEF AuthInv, Books, AuthTypeOK
<1>6. /\ Live(s) /\ s \in 1 .. Len(session) /\ session[s] \in Row /\ session[s].revoked = "no"
      /\ kept.current >= session[s].current
      /\ (kept.revoked = "no" => kept.previous + 1 = kept.current)
      /\ request[r].answer = "ok" <=> kept.revoked = "no"
      /\ request[r].answer # "none"
  BY <1>1, <1>2, <1>4, <1>5 DEF Sound, Live
<1>7. /\ n \in Row /\ n.current = kept.current /\ n.previous = kept.previous
      /\ n.revoked = kept.revoked
      /\ n.grace = IF kept.current # session[s].current THEN kept.grace ELSE session[s].grace
      /\ n.current \in Nat /\ n.previous \in Nat /\ n.grace \in Nat
      /\ session[s].current \in Nat /\ session[s].grace \in Nat
  <2>1. /\ kept.current \in 1 .. MaxRotations /\ kept.previous \in 0 .. MaxRotations
        /\ kept.grace \in 0 .. Grace /\ session[s].grace \in 0 .. Grace
        /\ session[s].current \in 1 .. MaxRotations
    BY <1>5, <1>6 DEF Row
  <2>2. PICK g : g = IF kept.current # session[s].current THEN kept.grace ELSE session[s].grace
    OBVIOUS
  <2>3. g \in 0 .. Grace /\ n = [kept EXCEPT !.grace = g]
    BY <2>1, <2>2, <1>3
  <2>4. /\ n \in Row /\ n.current = kept.current /\ n.previous = kept.previous
        /\ n.revoked = kept.revoked /\ n.grace = g
    BY <2>3, <1>5 DEF Row
  <2>. QED
    BY <2>1, <2>2, <2>3, <2>4, BoundsFacts
<1>8. /\ session' \in Seq(Row) /\ Len(session') = Len(session) /\ Len(session) \in Nat
      /\ session'[s] = n
      /\ \A x \in 1 .. Len(session) : x # s => session'[x] = session[x]
  BY <1>4, <1>5, <1>6, <1>7
<1>9. \A x : x # s => (Live(x)' <=> Live(x))
  BY <1>8 DEF Live
<1>10. ASSUME NEW token, NotAhead(token), token.session \in Nat, token.jti \in Nat
       PROVE  NotAhead(token)'
  <2>1. CASE token.session = s
    BY <2>1, <1>6, <1>7, <1>8, <1>10 DEF NotAhead
  <2>2. CASE token.session # s
    BY <2>2, <1>8, <1>9, <1>10 DEF NotAhead, Live
  <2>. QED
    BY <2>1, <2>2
<1>11. PICK answer \in {"ok", "refused", "busy"} : answer = request[r].answer
  BY <1>6, RequestFacts DEF Answers
<1>12. PICK token : token = IF answer = "ok" THEN [session |-> s, jti |-> kept.current] ELSE NoCookie
  OBVIOUS
<1>13. /\ token \in RefreshToken
       /\ answer = "ok" => token.session = s /\ token.jti = kept.current
  <2>1. Len(session) <= MaxSessions
    BY DEF AuthInv, Books, AuthTypeOK
  <2>2. s \in 0 .. MaxSessions /\ kept.current \in 0 .. MaxRotations
    <3>1. kept.current \in 1 .. MaxRotations
      BY <1>5 DEF Row
    <3>. QED
      BY <2>1, <3>1, <1>6, <1>8, BoundsFacts
  <2>. QED
    BY <2>2, <1>12, StartFacts DEF RefreshToken
<1>14. PICK k : k = Answered(r, answer, token)
  OBVIOUS
<1>15. request' = [request EXCEPT ![r] = k]
  BY <1>1, <1>2, <1>4, <1>11, <1>12, <1>14 DEF Commit
<1>16. /\ k \in Request /\ k.pc \in {"free", "answered"} /\ k.sent = NoCookie
       /\ k.pc = "answered" => /\ k.answer = answer /\ k.token = token /\ k.age = request[r].age
                               /\ \E t \in Tabs : tab[t].pending = r
       /\ (\E t \in Tabs : tab[t].pending = r) => k.pc = "answered"
  BY <1>11, <1>13, <1>14, AnsweredFacts, RequestFacts DEF Answers
<1>17. request'[r] = k /\ request' \in [Requests -> Request]
       /\ \A q \in Requests \ {r} : request'[q] = request[q]
  BY <1>15, <1>16, RequestFacts
<1>18. \A q \in Requests \ {r} : request[q].pc = "locked" => request[q].sent.session # s
  BY <1>1, <1>4 DEF AuthInv, Books, OneDecision
<1>19. Books'
  <2>1. AuthTypeOK'
    BY <1>4, <1>8, <1>17 DEF AuthInv, Books, AuthTypeOK
  <2>2. NotAhead(jar)' /\ legacy'.sessions <= Len(session')
    <3>1. jar.session \in Nat /\ jar.jti \in Nat
      BY BoundsFacts DEF AuthInv, Books, AuthTypeOK, RefreshToken
    <3>2. NotAhead(jar)
      BY DEF AuthInv, Books
    <3>3. NotAhead(jar)'
      BY <3>1, <3>2, <1>10, <1>4 DEF NotAhead
    <3>. QED
      BY <3>3, <1>4, <1>8 DEF AuthInv, Books
  <2>3. Chained'
    BY <1>6, <1>7, <1>8, <1>9 DEF Chained, AuthInv, Books, Live
  <2>4. OneDecision'
    BY <1>16, <1>17 DEF OneDecision, AuthInv, Books
  <2>5. Sound(r)'
    <3>1. k.pc = "answered" /\ k.answer = "ok" =>
            k.token.session > 0 /\ k.token.jti > 0 /\ NotAhead(k.token)'
      <4>1. s > 0 /\ s <= Len(session') /\ kept.current > 0
        <5>1. kept.current \in 1 .. MaxRotations
          BY <1>5 DEF Row
        <5>2. kept.current > 0
          BY <5>1, BoundsFacts
        <5>3. s > 0 /\ s <= Len(session')
          BY <1>6, <1>8
        <5>. QED BY <5>2, <5>3
      <4>2. kept.current <= session'[s].current
        BY <1>7, <1>8
      <4>. QED
        BY <4>1, <4>2, <1>13, <1>16 DEF NotAhead
    <3>. QED
      BY <3>1, <1>11, <1>16, <1>17 DEF Sound, Pending, Granting, NotAhead
  <2>6. ASSUME NEW q \in Requests \ {r} PROVE Sound(q)'
    <3>1. Sound(q) /\ request'[q] = request[q]
      BY <1>17, RequestFacts
    <3>2. Pending(q)' = Pending(q) /\ Granting(q)' = Granting(q)
      BY <3>1 DEF Pending, Granting
    <3>3. /\ request[q].sent.session \in Nat /\ request[q].sent.jti \in Nat
          /\ request[q].token.session \in Nat /\ request[q].token.jti \in Nat
      BY RequestFacts, BoundsFacts DEF RefreshToken
    <3>4. NotAhead(request[q].token) => NotAhead(request[q].token)'
      BY <3>1, <3>3, <1>10 DEF NotAhead
    <3>5. NotAhead(request[q].sent) => NotAhead(request[q].sent)'
      BY <3>1, <3>3, <1>10 DEF NotAhead
    <3>6. request[q].pc = "locked" /\ request[q].sent.session # 0 =>
            /\ Live(request[q].sent.session)'
            /\ session'[request[q].sent.session] = session[request[q].sent.session]
      BY <3>1, <1>8, <1>9, <1>18 DEF Sound, Live
    <3>. QED
      BY <3>1, <3>2, <3>4, <3>5, <3>6 DEF Sound
  <2>. QED
    BY <2>1, <2>2, <2>3, <2>4, <2>5, <2>6 DEF Books
<1>20. ASSUME InTime' PROVE InStep' /\ kept.revoked = "no"
  <2>1. InTime /\ InStep /\ ~Outrun(s, kept) /\ Grace >= 3
    BY <1>4, <1>20 DEF AuthInv, InTime
  <2>2. /\ Orderly(r) /\ Chained /\ session[s].previous + 1 = session[s].current
        /\ session[s].previous \in Nat
    BY <2>1, <1>6 DEF InStep, AuthInv, Books, Chained, Row
  <2>3. /\ kept.revoked = "no" /\ \E t \in Tabs : tab[t].pending = r
        /\ \/ kept.current = session[s].current
           \/ /\ kept.current = session[s].current + 1
              /\ request[r].sent.jti = session[s].current /\ kept.grace = Grace
    BY <2>2, <1>1, <1>2, <1>4, <1>5, <1>6 DEF Orderly
  <2>4. /\ k.pc = "answered" /\ k.answer = "ok" /\ k.token.session = s
        /\ k.token.jti = kept.current /\ k.age = request[r].age
    BY <2>3, <1>6, <1>11, <1>13, <1>16
  <2>5. Live(s)' /\ (kept.current = session[s].current => n.previous = session[s].previous)
    BY <1>6, <1>7, <1>8, <2>2, <2>3 DEF Live
  <2>6. Orderly(r)'
    BY <2>3, <2>4, <1>4, <1>17 DEF Orderly, Pending
  <2>7. ASSUME NEW q \in Requests \ {r} PROVE Orderly(q)'
    <3>1. /\ Orderly(q) /\ Sound(q) /\ request'[q] = request[q] /\ request[q].sent.jti \in Nat
          /\ request[q].age \in 0 .. 1 /\ request[q].sent.session \in Nat
      BY <2>1, <1>17, RequestFacts DEF InStep
    <3>2. CASE ~(request[q].pc = "sent" /\ request[q].sent.session = s)
      <4>1. Pending(q) =>
              /\ (Live(request[q].sent.session)' <=> Live(request[q].sent.session))
              /\ (Live(request[q].sent.session)
                    \/ (request[q].pc = "locked" /\ request[q].sent.session > 0)) =>
                   session'[request[q].sent.session] = session[request[q].sent.session]
        <5>1. Pending(q) => request[q].sent.session # s
          BY <3>2, <1>18 DEF Pending
        <5>2. request[q].pc = "locked" /\ request[q].sent.session > 0 => Live(request[q].sent.session)
          BY <3>1 DEF Sound
        <5>3. Pending(q) => (Live(request[q].sent.session)' <=> Live(request[q].sent.session))
          BY <5>1, <3>1, <1>9
        <5>4. Live(request[q].sent.session) => request[q].sent.session \in 1 .. Len(session)
          BY DEF Live
        <5>. QED
          BY <5>1, <5>2, <5>3, <5>4, <1>8
      <4>. QED
        BY <4>1, <3>1, <1>4 DEF Orderly, Pending
    <3>3. CASE request[q].pc = "sent" /\ request[q].sent.session = s
      <4>1. request[q].sent.jti <= session[s].current
        BY <3>1, <3>3, <1>6 DEF Sound, Pending, NotAhead
      <4>2. \/ request[q].sent.jti = session[s].current
            \/ /\ request[q].sent.jti = session[s].previous
               /\ session[s].grace + request[q].age + 1 >= Grace
        BY <3>1, <3>3, <1>6 DEF Orderly
      <4>3. kept.current # session[s].current => request[q].sent.jti = session[s].current
        BY <4>1, <3>1, <3>3, <2>1, <1>7 DEF Outrun
      <4>4. \/ request[q].sent.jti = n.current
            \/ request[q].sent.jti = n.previous /\ n.grace + request[q].age + 1 >= Grace
        <5>1. CASE kept.current = session[s].current
          BY <5>1, <4>2, <2>5, <1>7
        <5>2. CASE kept.current # session[s].current
          BY <5>2, <4>3, <2>1, <2>3, <1>6, <1>7, <3>1, BoundsFacts, SMTT(30)
        <5>. QED
          BY <5>1, <5>2
      <4>. QED
        BY <4>4, <3>1, <3>3, <1>4, <1>8 DEF Orderly, Pending
    <3>. QED
      BY <3>2, <3>3
  <2>8. NewerUnderWay'
    <3>0. jar' = jar /\ NewerUnderWay /\ NotAhead(jar) /\ jar.jti \in Nat /\ jar.session \in Nat
      BY <1>4, <2>1, BoundsFacts DEF InStep, AuthInv, Books, AuthTypeOK, RefreshToken
    <3>1. ASSUME NEW w \in Requests, Granting(w)
          PROVE  Granting(w)' /\ request'[w] = request[w]
      BY <3>1, <1>4, <1>17 DEF Granting
    <3>2. CASE jar.session # s
      <4>1. Live(jar.session)' => Live(jar.session) /\ session'[jar.session] = session[jar.session]
        <5>1. Live(jar.session) => jar.session \in 1 .. Len(session)
          BY DEF Live
        <5>. QED
          BY <5>1, <3>0, <3>2, <1>8, <1>9
      <4>. QED
        BY <4>1, <3>0, <3>1 DEF NewerUnderWay
    <3>3. CASE jar.session = s /\ kept.current = session[s].current
      BY <3>3, <3>0, <3>1, <1>6, <1>7, <1>8, <2>5 DEF NewerUnderWay
    <3>4. CASE jar.session = s /\ kept.current # session[s].current
      <4>1. jar.jti = session[s].current
        <5>1. request[r].sent.jti <= jar.jti
          BY <3>4, <2>2, <1>1, <1>4, <1>5, <1>6 DEF Orderly, Pending
        <5>2. jar.jti <= session[s].current
          BY <3>0, <3>4, <1>6 DEF NotAhead
        <5>. QED
          BY <5>1, <5>2, <3>0, <3>4, <2>3, <1>7
      <4>2. n.previous = jar.jti /\ n.grace + k.age >= Grace
        BY <4>1, <3>4, <2>3, <2>4, <1>6, <1>7, RequestFacts, BoundsFacts
      <4>3. Granting(r)'
        BY <2>4, <1>17 DEF Granting
      <4>. QED
        BY <4>2, <4>3, <3>0, <3>4, <2>4, <1>7, <1>8, <1>17 DEF NewerUnderWay
    <3>. QED
      BY <3>2, <3>3, <3>4
  <2>9. Unrotated'
    BY <2>2, <1>1, <1>4, <1>6 DEF Orderly, Pending, Unrotated
  <2>. QED
    BY <2>3, <2>6, <2>7, <2>8, <2>9 DEF InStep
<1>21. Grace >= 3 => ReplayHasCause'
  <2>. SUFFICES ASSUME Grace >= 3, NEW x \in 1 .. Len(session'), session'[x].revoked = "replayed_token"
                PROVE  excused'
    BY DEF ReplayHasCause
  <2>1. CASE x = s
    BY <2>1, <1>7, <1>8, <1>20 DEF InTime
  <2>2. CASE x # s
    BY <2>2, <1>4, <1>8 DEF AuthInv, ReplayHasCause
  <2>. QED
    BY <2>1, <2>2
<1>. QED
  BY <1>19, <1>20, <1>21 DEF AuthInv

\* A session expires.
LEMMA ExpireKeeps ==
  ASSUME AuthInv, NEW s \in 1 .. Len(session), Expire(s)
  PROVE  AuthInv'
<1>1. session \in Seq(Row) /\ session[s] \in Row
  BY DEF AuthInv, Books, AuthTypeOK
<1>2. [session[s] EXCEPT !.revoked = "ended"] \in Row
  BY <1>1 DEF Row
<1>3. session' = [session EXCEPT ![s] = [session[s] EXCEPT !.revoked = "ended"]]
  BY DEF Expire
<1>4. /\ session' \in Seq(Row) /\ Len(session') = Len(session)
      /\ \A x \in 1 .. Len(session) :
           \/ session'[x] = session[x]
           \/ /\ Live(x) /\ LockedBy(x) = {}
              /\ session'[x] = [session[x] EXCEPT !.revoked = "ended"]
  BY <1>1, <1>2, <1>3 DEF Expire
<1>. QED
  BY <1>4, SessionsEnd DEF Expire, AuthInv, Books, AuthTypeOK
-----------------------------------------------------------------------------
(* The tabs                                                                *)

\* The grace of a live session.
LEMMA GraceFacts ==
  ASSUME AuthInv, NEW s, Live(s)
  PROVE  session[s].grace \in Nat
<1>1. session[s] \in Row
  BY DEF Live, AuthInv, Books, AuthTypeOK
<1>2. session[s].grace \in 0 .. Grace
  BY <1>1 DEF Row
<1>. QED
  BY <1>2, BoundsFacts

\* A new request is sent with the cookie, which is of the last token or of one whose
\* successor has been under way for less than two ticks.
LEMMA AskedKeeps ==
  ASSUME AuthInv, NEW t \in Tabs, NEW r \in Requests, Asked(t, r),
         UNCHANGED <<session, legacy, jar, excused>>
  PROVE  AuthInv'
<1>1. PICK k : k = [NoWork EXCEPT !.pc = "sent", !.sent = jar]
  OBVIOUS
<1>2. /\ k \in Request /\ k.pc = "sent" /\ k.sent = jar /\ k.age = 0
  BY <1>1, StartFacts DEF NoWork, Request, AuthInv, Books, AuthTypeOK
<1>3. /\ request' = [request EXCEPT ![r] = k] /\ request[r].pc = "free"
      /\ tab[t].pending = NoRequest
  BY <1>1 DEF Asked
<1>4. request'[r] = k /\ request' \in [Requests -> Request]
      /\ \A q \in Requests \ {r} : request'[q] = request[q]
  BY <1>2, <1>3, RequestFacts
<1>5. tab' \in [Tabs -> Tab] /\ tab'[t].pending = r /\ \A u \in Tabs \ {t} : tab'[u] = tab[u]
  <2>1. tab \in [Tabs -> Tab] /\ tab[t] \in Tab
    BY DEF AuthInv, Books, AuthTypeOK
  <2>2. PICK u : u = [tab[t] EXCEPT !.pending = r, !.stale = FALSE, !.timer = 0,
                                    !.status = IF tab[t].token THEN "refreshing" ELSE @]
    OBVIOUS
  <2>3. 0 \in 0 .. RetryDelay + 1
    BY BoundsFacts
  <2>4. u \in Tab /\ u.pending = r
    BY <2>1, <2>2, <2>3 DEF Tab
  <2>5. tab' = [tab EXCEPT ![t] = u]
    BY <2>1, <2>2 DEF Asked
  <2>. QED
    BY <2>1, <2>4, <2>5
<1>6. Sound(r)'
  <2>1. NotAhead(jar)
    BY DEF AuthInv, Books
  <2>. QED
    BY <1>2, <1>4, <2>1 DEF Sound, Pending, Granting, NotAhead, Live
<1>7. ASSUME InTime PROVE Orderly(r)' /\ ~Granting(r)
  <2>1. NewerUnderWay /\ Grace >= 3
    BY <1>7 DEF AuthInv, InStep, InTime
  <2>2. Live(jar.session) =>
          \/ jar.jti = session[jar.session].current
          \/ jar.jti = session[jar.session].previous /\ session[jar.session].grace + 1 >= Grace
    <3>. SUFFICES ASSUME Live(jar.session), jar.jti # session[jar.session].current
                  PROVE  /\ jar.jti = session[jar.session].previous
                         /\ session[jar.session].grace + 1 >= Grace
      OBVIOUS
    <3>1. PICK w \in Requests : session[jar.session].grace + request[w].age >= Grace
      BY <2>1 DEF NewerUnderWay
    <3>2. session[jar.session].grace \in Nat /\ request[w].age \in 0 .. 1
      BY GraceFacts, RequestFacts
    <3>. QED
      BY <2>1, <3>1, <3>2, BoundsFacts DEF NewerUnderWay
  <2>3. jar.jti \in Nat
    BY BoundsFacts DEF AuthInv, Books, AuthTypeOK, RefreshToken
  <2>4. Live(jar.session) => session[jar.session].grace \in Nat
    BY GraceFacts
  <2>. QED
    BY <1>2, <1>3, <1>4, <1>5, <2>2, <2>3, <2>4, LegacyFacts, BoundsFacts
    DEF Orderly, Pending, Granting, Live
<1>8. ASSUME NEW q \in Requests, NEW u \in Tabs, tab[u].pending = q
      PROVE  tab'[u].pending = q
  BY <1>3, <1>5, <1>8, BoundsFacts
<1>9. /\ legacy' \in [spent : BOOLEAN, sessions : 0 .. MaxSessions] /\ excused' \in BOOLEAN
      /\ InTime' => InTime
  BY DEF AuthInv, Books, AuthTypeOK, InTime
<1>. QED
  BY RequestsMove, <1>2, <1>4, <1>5, <1>6, <1>7, <1>8, <1>9

\* A tab stops waiting, and what it waited for is forgotten once it is answered: without a
\* token, or the browser has lost it.
LEMMA WaitEnds ==
  ASSUME AuthInv, NEW t \in Tabs, NEW u \in Tab, u.pending = NoRequest,
         tab' = [tab EXCEPT ![t] = u], UNCHANGED <<session, legacy, jar>>,
         request' \in [Requests -> Request],
         \A r \in Requests : request'[r] # request[r] => request'[r] = NoWork,
         excused' \in BOOLEAN, InTime' => InTime,
         InTime' => \A r \in Requests :
           /\ tab[t].pending = r => request'[r] = NoWork
           /\ request'[r] # request[r] => ~Granting(r)
  PROVE  AuthInv'
<1>1. tab \in [Tabs -> Tab] /\ tab' \in [Tabs -> Tab] /\ tab'[t] = u
      /\ \A v \in Tabs \ {t} : tab'[v] = tab[v]
  BY DEF AuthInv, Books, AuthTypeOK
<1>2. ASSUME NEW r \in Requests, request'[r] # request[r]
      PROVE  /\ Sound(r)' /\ Orderly(r)' /\ request'[r].pc # "locked"
             /\ InTime' => ~Granting(r)
  BY <1>2, StartFacts DEF Sound, Orderly, Pending, Granting
<1>3. ASSUME InTime', NEW r \in Requests, request'[r] = request[r],
             request[r].pc # "free", NEW v \in Tabs, tab[v].pending = r
      PROVE  \E w \in Tabs : tab'[w].pending = r
  BY <1>1, <1>3, StartFacts
<1>. QED
  BY RequestsMove, <1>1, <1>2, <1>3 DEF AuthInv, Books, AuthTypeOK

\* A refusal or a failure reaches the tab.
LEMMA DeniedKeeps ==
  ASSUME AuthInv, NEW t \in Tabs, NEW r \in Requests, Answer(t, r), request[r].answer # "ok"
  PROVE  AuthInv'
<1>1. /\ tab[t].pending = r /\ request' = [request EXCEPT ![r] = NoWork]
      /\ request' \in [Requests -> Request] /\ request'[r] = NoWork
      /\ \A q \in Requests : request'[q] # request[q] => q = r
  BY RequestFacts, StartFacts DEF Answer
<1>2. tab[t] \in Tab
  BY DEF AuthInv, Books, AuthTypeOK
<1>3. request[r].answer \in {"busy", "refused"}
  BY RequestFacts DEF Answer, Sound, Answers
<1>4. \E u \in Tab : u.pending = NoRequest /\ tab' = [tab EXCEPT ![t] = u]
  <2>1. CASE request[r].answer = "busy"
    BY <2>1, <1>2, TabFacts DEF Answer
  <2>2. CASE request[r].answer = "refused"
    BY <2>2, <1>2, TabFacts DEF Answer
  <2>. QED
    BY <1>3, <2>1, <2>2
<1>5. UNCHANGED <<session, legacy, jar, excused>>
  BY <1>3 DEF Answer
<1>6. ~Granting(r)
  BY DEF Granting
<1>. QED
  BY <1>1, <1>4, <1>5, <1>6, WaitEnds DEF AuthInv, Books, AuthTypeOK, InTime

\* A token reaches the browser. In order, it is the last one of its session, or the one
\* before, which the cookie was of already.
LEMMA GrantedKeeps ==
  ASSUME AuthInv, NEW t \in Tabs, NEW r \in Requests, Answer(t, r), request[r].answer = "ok"
  PROVE  AuthInv'
<1>1. PICK token : token = request[r].token
  OBVIOUS
<1>2. /\ tab[t].pending = r /\ request[r].pc = "answered"
      /\ request' = [request EXCEPT ![r] = NoWork]
      /\ jar' = token /\ \E versioned \in BOOLEAN : tab' = [tab EXCEPT ![t] = Granted(tab[t], versioned)]
      /\ excused' = (excused \/ ~InOrder(token)) /\ UNCHANGED <<session, legacy>>
  BY <1>1 DEF Answer
<1>3. /\ request' \in [Requests -> Request] /\ request'[r] = NoWork
      /\ \A q \in Requests \ {r} : request'[q] = request[q]
  BY <1>2, RequestFacts, StartFacts
<1>4. /\ tab' \in [Tabs -> Tab] /\ \A u \in Tabs \ {t} : tab'[u] = tab[u]
  <2>1. PICK versioned \in BOOLEAN : tab' = [tab EXCEPT ![t] = Granted(tab[t], versioned)]
    BY <1>2
  <2>2. tab \in [Tabs -> Tab] /\ Granted(tab[t], versioned) \in Tab
    BY TabFacts DEF AuthInv, Books, AuthTypeOK
  <2>. QED
    BY <2>1, <2>2
<1>5. /\ token.session > 0 /\ token.jti > 0 /\ NotAhead(token) /\ token \in RefreshToken
      /\ token.session \in Nat /\ token.jti \in Nat
  <2>1. Granting(r) /\ Sound(r) /\ token \in RefreshToken
    BY <1>1, <1>2, RequestFacts DEF Granting
  <2>. QED
    BY <1>1, <2>1, BoundsFacts DEF Sound, RefreshToken
<1>6. Books'
  <2>1. NotAhead(jar)'
    BY <1>2, <1>5 DEF NotAhead, Live
  <2>2. ASSUME NEW q \in Requests PROVE Sound(q)'
    <3>1. CASE q = r
      BY <3>1, <1>3, StartFacts DEF Sound, Pending, Granting
    <3>2. CASE q # r
      <4>1. Sound(q) /\ request'[q] = request[q]
        BY <3>2, <1>3, RequestFacts
      <4>. QED
        BY <4>1, <1>2 DEF Sound, Pending, Granting, NotAhead, Live
    <3>. QED
      BY <3>1, <3>2
  <2>3. OneDecision'
    BY <1>3, StartFacts DEF OneDecision, AuthInv, Books
  <2>4. AuthTypeOK' /\ Chained' /\ legacy'.sessions <= Len(session')
    BY <1>2, <1>3, <1>4, <1>5 DEF AuthInv, Books, AuthTypeOK, Chained, Live
  <2>. QED
    BY <2>1, <2>2, <2>3, <2>4 DEF Books
<1>7. ASSUME InTime' PROVE InStep'
  <2>1. InTime /\ InStep /\ InOrder(token)
    BY <1>2, <1>7 DEF AuthInv, InTime
  <2>2. jar' # LegacyToken
    BY <1>2, <1>5, LegacyFacts
  <2>3. ASSUME NEW q \in Requests PROVE Orderly(q)'
    <3>1. CASE q = r
      BY <3>1, <1>3, StartFacts DEF Orderly, Pending
    <3>2. CASE q # r
      <4>1. /\ Orderly(q) /\ request'[q] = request[q]
            /\ request[q].sent.session \in Nat /\ request[q].sent.jti \in Nat
        BY <3>2, <1>3, <2>1, RequestFacts DEF InStep
      <4>2. request[q].pc # "free" => \E u \in Tabs : tab'[u].pending = q
        BY <3>2, <4>1, <1>2, <1>4 DEF Orderly
      <4>3. Pending(q) /\ request[q].sent.session > 0 /\ request[q].sent.session = token.session =>
              request[q].sent.jti <= token.jti
        <5>1. jar.jti \in Nat
          BY BoundsFacts DEF AuthInv, Books, AuthTypeOK, RefreshToken
        <5>. QED
          BY <5>1, <4>1, <2>1, <1>5 DEF Orderly, InOrder
      <4>. QED
        BY <4>1, <4>2, <4>3, <2>2, <1>2 DEF Orderly, Pending, Live
    <3>. QED
      BY <3>1, <3>2
  <2>4. NewerUnderWay'
    <3>. SUFFICES ASSUME Live(token.session), token.jti # session[token.session].current
                  PROVE  /\ token.jti = session[token.session].previous
                         /\ \E w \in Requests \ {r} :
                              /\ Granting(w) /\ request[w].token.session = token.session
                              /\ request[w].token.jti = session[token.session].current
                              /\ session[token.session].grace + request[w].age >= Grace
      BY <1>2, <1>3 DEF NewerUnderWay, Live, Granting
    <3>1. /\ token.session \in 1 .. Len(session) /\ session[token.session] \in Row
          /\ token.jti < session[token.session].current
          /\ session[token.session].previous + 1 = session[token.session].current
          /\ session[token.session].previous \in Nat /\ session[token.session].current \in Nat
      <4>1. token.session \in 1 .. Len(session) /\ session[token.session] \in Row
        BY DEF Live, AuthInv, Books, AuthTypeOK
      <4>2. /\ token.jti <= session[token.session].current
            /\ session[token.session].previous + 1 = session[token.session].current
        BY <4>1, <1>5 DEF NotAhead, Chained, AuthInv, Books
      <4>. QED
        BY <4>1, <4>2, <1>5, BoundsFacts, SMTT(30) DEF Row
    <3>2. jar.session = token.session /\ jar.jti <= token.jti /\ jar.jti \in Nat
      <4>1. jar # LegacyToken
        BY <3>1, <2>1, <1>5 DEF InStep, Unrotated
      <4>. QED
        BY <4>1, <2>1, BoundsFacts DEF InOrder, AuthInv, Books, AuthTypeOK, RefreshToken
    <3>3. jar.jti # session[token.session].current
      BY <3>1, <3>2, <1>5
    <3>4. /\ jar.jti = session[token.session].previous
          /\ \E w \in Requests :
               /\ Granting(w) /\ request[w].token.session = token.session
               /\ request[w].token.jti = session[token.session].current
               /\ session[token.session].grace + request[w].age >= Grace
      BY <3>2, <3>3, <2>1 DEF InStep, NewerUnderWay
    <3>5. token.jti = session[token.session].previous
      BY <3>1, <3>2, <3>4, <1>5
    <3>. QED
      BY <3>4, <3>5, <1>1
  <2>. QED
    BY <2>2, <2>3, <2>4 DEF InStep, Unrotated
<1>8. Grace >= 3 => ReplayHasCause'
  BY <1>2 DEF AuthInv, ReplayHasCause
<1>. QED
  BY <1>6, <1>7, <1>8 DEF AuthInv

\* Every answer.
LEMMA AnswerKeeps ==
  ASSUME AuthInv, NEW t \in Tabs, NEW r \in Requests, Answer(t, r)
  PROVE  AuthInv'
  BY DeniedKeeps, GrantedKeeps

\* A retry asks, or does nothing in the cooldown.
LEMMA RetryKeeps ==
  ASSUME AuthInv, NEW t \in Tabs, NEW r \in Requests, Retry(t, r)
  PROVE  AuthInv'
<1>1. CASE tab[t].cooldown > 0
  <2>1. [tab[t] EXCEPT !.timer = 0] \in Tab /\ [tab[t] EXCEPT !.timer = 0].pending = tab[t].pending
    <3>1. tab[t] \in Tab /\ 0 \in 0 .. RetryDelay + 1
      BY BoundsFacts DEF AuthInv, Books, AuthTypeOK
    <3>. QED
      BY <3>1 DEF Tab
  <2>2. tab' = [tab EXCEPT ![t] = [tab[t] EXCEPT !.timer = 0]]
    BY <1>1 DEF Retry
  <2>3. tab' \in [Tabs -> Tab] /\ \A u \in Tabs : tab'[u].pending = tab[u].pending
    BY <2>1, <2>2 DEF AuthInv, Books, AuthTypeOK
  <2>4. UNCHANGED <<session, legacy, jar, request, excused>>
    BY <1>1 DEF Retry
  <2>. QED
    BY <2>3, <2>4, RequestsMove DEF AuthInv, Books, AuthTypeOK, InTime
<1>2. CASE ~(tab[t].cooldown > 0)
  BY <1>2, AskedKeeps DEF Retry
<1>. QED
  BY <1>1, <1>2

\* The browser gives up waiting.
LEMMA GiveUpKeeps ==
  ASSUME AuthInv, NEW t \in Tabs, GiveUp(t)
  PROVE  AuthInv'
<1>1. tab[t] \in Tab /\ tab[t].pending \in Requests
  BY DEF GiveUp, AuthInv, Books, AuthTypeOK, Tab
<1>2. /\ tab' = [tab EXCEPT ![t] = Transient(tab[t])]
      /\ UNCHANGED <<session, legacy, jar>> /\ excused' = TRUE
  BY DEF GiveUp
<1>3. /\ request' \in [Requests -> Request]
      /\ \A r \in Requests : request'[r] # request[r] => request'[r] = NoWork
  BY <1>1, RequestFacts, StartFacts DEF GiveUp
<1>. QED
  BY <1>1, <1>2, <1>3, TabFacts, WaitEnds DEF InTime

\* A page is loaded again.
LEMMA ReloadKeeps ==
  ASSUME AuthInv, NEW t \in Tabs, Reload(t)
  PROVE  AuthInv'
<1>1. /\ tab' = [tab EXCEPT ![t] = NewTab] /\ UNCHANGED <<session, legacy, jar>>
      /\ excused' = (excused \/ tab[t].pending # NoRequest)
      /\ request' = [r \in Requests |-> IF tab[t].pending = r /\ request[r].pc = "answered"
                                        THEN NoWork ELSE request[r]]
  BY DEF Reload
<1>2. /\ request' \in [Requests -> Request]
      /\ \A r \in Requests : request'[r] # request[r] => request'[r] = NoWork
  BY <1>1, RequestFacts, StartFacts
<1>3. InTime' => InTime /\ tab[t].pending \notin Requests
  BY <1>1, BoundsFacts DEF InTime
<1>4. InTime' => \A r \in Requests : request'[r] = request[r]
  BY <1>1, <1>3, RequestFacts
<1>5. excused' \in BOOLEAN
  BY <1>1 DEF AuthInv, Books, AuthTypeOK
<1>. QED
  BY <1>1, <1>2, <1>3, <1>4, <1>5, StartFacts, WaitEnds

\* A new sign-in: its cookie is of the new session.
LEMMA LoginKeeps ==
  ASSUME AuthInv, NEW t \in Tabs, Login(t)
  PROVE  AuthInv'
<1>1. /\ Len(session) < MaxSessions /\ session' = Append(session, NewRow)
      /\ jar' = [session |-> Len(session) + 1, jti |-> 1]
      /\ tab' = [tab EXCEPT ![t] = SignedIn(tab[t])]
      /\ UNCHANGED <<legacy, request, excused>>
  BY DEF Login
<1>2. /\ jar'.session = Len(session) + 1 /\ jar'.jti = 1 /\ jar' \in RefreshToken
      /\ jar' # LegacyToken /\ Len(session) \in Nat
  BY <1>1, SessionBorn, LegacyFacts, BoundsFacts DEF RefreshToken
<1>3. tab' \in [Tabs -> Tab] /\ \A u \in Tabs : tab'[u].pending = tab[u].pending
  BY <1>1, TabFacts DEF AuthInv, Books, AuthTypeOK
<1>4. /\ session'[jar'.session] = NewRow /\ jar'.session <= Len(session')
  BY <1>1, <1>2, SessionBorn
<1>5. Books'
  <2>1. NotAhead(jar)'
    BY <1>2, <1>4, StartFacts DEF NotAhead
  <2>2. \A q \in Requests : Sound(q)'
    BY <1>1, BornBeside
  <2>3. OneDecision'
    BY <1>1 DEF OneDecision, AuthInv, Books
  <2>4. AuthTypeOK' /\ Chained'
    BY <1>1, <1>2, <1>3, SessionBorn DEF AuthInv, Books, AuthTypeOK
  <2>5. legacy'.sessions <= Len(session')
    BY <1>1, SessionBorn, BoundsFacts DEF AuthInv, Books, AuthTypeOK
  <2>. QED
    BY <2>1, <2>2, <2>3, <2>4, <2>5 DEF Books
<1>6. ASSUME InTime' PROVE InStep'
  <2>1. InTime /\ InStep
    BY <1>1, <1>6 DEF AuthInv, InTime
  <2>2. ASSUME NEW q \in Requests PROVE Orderly(q)'
    <3>1. /\ Orderly(q) /\ Sound(q) /\ request'[q] = request[q]
          /\ request[q].sent.session \in Nat
      BY <2>1, <1>1, RequestFacts DEF InStep
    <3>2. Pending(q) => request[q].sent.session <= Len(session)
      BY <3>1 DEF Sound, NotAhead
    <3>3. Pending(q) => /\ (Live(request[q].sent.session)' <=> Live(request[q].sent.session))
                        /\ request[q].sent.session > 0 =>
                             session'[request[q].sent.session] = session[request[q].sent.session]
      BY <3>1, <3>2, <1>1, SessionBorn
    <3>4. Live(request[q].sent.session) => request[q].sent.session > 0
      BY <3>1 DEF Live
    <3>5. Pending(q) => request[q].sent.session # jar'.session
      BY <3>1, <3>2, <1>2
    <3>6. request[q].pc # "free" => \E u \in Tabs : tab'[u].pending = q
      BY <3>1, <1>3 DEF Orderly
    <3>. QED
      BY <3>1, <3>3, <3>4, <3>5, <3>6, <1>2 DEF Orderly, Pending
  <2>3. NewerUnderWay'
    BY <1>2, <1>4, StartFacts DEF NewerUnderWay
  <2>. QED
    BY <2>2, <2>3, <1>2 DEF InStep, Unrotated
<1>7. Grace >= 3 => ReplayHasCause'
  BY <1>1, SessionBorn DEF AuthInv
<1>. QED
  BY <1>5, <1>6, <1>7 DEF AuthInv

\* The session of the cookie ends.
LEMMA LogoutKeeps ==
  ASSUME AuthInv, NEW t \in Tabs, Logout(t)
  PROVE  AuthInv'
<1>1. session \in Seq(Row)
  BY DEF AuthInv, Books, AuthTypeOK
<1>2. ASSUME NEW x, Live(x) PROVE x \in 1 .. Len(session) /\ [session[x] EXCEPT !.revoked = "ended"] \in Row
  <2>1. session[x] \in Row
    BY <1>1, <1>2 DEF Live
  <2>. QED
    BY <1>2, <2>1 DEF Live, Row
<1>3. /\ session' \in Seq(Row) /\ Len(session') = Len(session)
      /\ \A x \in 1 .. Len(session) :
           \/ session'[x] = session[x]
           \/ /\ Live(x) /\ LockedBy(x) = {}
              /\ session'[x] = [session[x] EXCEPT !.revoked = "ended"]
  <2>1. CASE Live(jar.session)
    <3>1. session' = [session EXCEPT ![jar.session] = [session[jar.session] EXCEPT !.revoked = "ended"]]
      BY <2>1 DEF Logout
    <3>. QED
      BY <2>1, <3>1, <1>1, <1>2 DEF Logout
  <2>2. CASE ~Live(jar.session)
    BY <2>2, <1>1 DEF Logout
  <2>. QED
    BY <2>1, <2>2
<1>4. legacy' \in [spent : BOOLEAN, sessions : 0 .. MaxSessions] /\ legacy'.sessions = legacy.sessions
  BY DEF Logout, AuthInv, Books, AuthTypeOK
<1>5. tab' \in [Tabs -> Tab] /\ \A u \in Tabs : tab'[u].pending = tab[u].pending
  BY TabFacts DEF Logout, AuthInv, Books, AuthTypeOK
<1>. QED
  BY <1>3, <1>4, <1>5, SessionsEnd DEF Logout

\* Rows numbered from 1 are a sequence.
LEMMA RowsAreSequence ==
  ASSUME NEW n \in Nat, NEW rows \in [1 .. n -> Row]
  PROVE  rows \in Seq(Row) /\ Len(rows) = n
  OBVIOUS

\* All sessions end.
LEMMA RevokeAllKeeps ==
  ASSUME AuthInv, NEW t \in Tabs, NEW clear \in BOOLEAN, RevokeAll(t, clear)
  PROVE  AuthInv'
<1>1. session \in Seq(Row)
  BY DEF AuthInv, Books, AuthTypeOK
<1>2. ASSUME NEW x \in 1 .. Len(session)
      PROVE  session[x] \in Row /\ [session[x] EXCEPT !.revoked = "ended"] \in Row /\ LockedBy(x) = {}
  <2>1. session[x] \in Row
    BY <1>1, <1>2
  <2>2. [session[x] EXCEPT !.revoked = "ended"] \in Row
    BY <2>1 DEF Row
  <2>3. LockedBy(x) = {}
    BY DEF LockedBy, RevokeAll
  <2>. QED
    BY <2>1, <2>2, <2>3
<1>3. session' = [s \in 1 .. Len(session) |->
                    IF Live(s) THEN [session[s] EXCEPT !.revoked = "ended"] ELSE session[s]]
  BY DEF RevokeAll
<1>4. /\ session' \in Seq(Row) /\ Len(session') = Len(session)
      /\ \A x \in 1 .. Len(session) :
           \/ session'[x] = session[x]
           \/ /\ Live(x) /\ LockedBy(x) = {}
              /\ session'[x] = [session[x] EXCEPT !.revoked = "ended"]
  <2>1. Len(session) \in Nat
    BY <1>1
  <2>2. session' \in [1 .. Len(session) -> Row]
    BY <1>2, <1>3
  <2>3. session' \in Seq(Row) /\ Len(session') = Len(session)
    BY <2>1, <2>2, RowsAreSequence
  <2>. QED
    BY <2>3, <1>2, <1>3
<1>5. legacy' \in [spent : BOOLEAN, sessions : 0 .. MaxSessions] /\ legacy'.sessions = legacy.sessions
  BY DEF RevokeAll, AuthInv, Books, AuthTypeOK
<1>6. tab' \in [Tabs -> Tab] /\ \A u \in Tabs : tab'[u].pending = tab[u].pending
  BY TabFacts DEF RevokeAll, AuthInv, Books, AuthTypeOK
<1>. QED
  BY <1>4, <1>5, <1>6, SessionsEnd DEF RevokeAll

\* Time passes: a request that has seen a tick is gone before the next one.
LEMMA TickKeeps ==
  ASSUME AuthInv, Tick
  PROVE  AuthInv'
<1>0. session \in Seq(Row) /\ Len(session) \in Nat /\ tab \in [Tabs -> Tab]
  BY DEF AuthInv, Books, AuthTypeOK
<1>1. ASSUME NEW s \in 1 .. Len(session)
      PROVE  /\ session'[s] \in Row /\ session'[s].current = session[s].current
             /\ session'[s].previous = session[s].previous
             /\ session'[s].revoked = session[s].revoked
             /\ session'[s].grace \in Nat /\ session'[s].grace + 1 >= session[s].grace
             /\ session[s].grace \in Nat
  <2>1. session[s] \in Row /\ session[s].grace \in 0 .. Grace
    <3>1. session[s] \in Row
      BY <1>0
    <3>. QED
      BY <3>1 DEF Row
  <2>2. PICK g : g = IF session[s].grace > 0 THEN session[s].grace - 1 ELSE 0
    OBVIOUS
  <2>3. g \in 0 .. Grace /\ g + 1 >= session[s].grace
    BY <2>1, <2>2, BoundsFacts
  <2>4. session'[s] = [session[s] EXCEPT !.grace = g]
    BY <2>2 DEF Tick
  <2>. QED
    BY <2>1, <2>3, <2>4, BoundsFacts, SMTT(30) DEF Row
<1>2. session' \in Seq(Row) /\ Len(session') = Len(session)
  <2>1. session' \in [1 .. Len(session) -> Row]
    BY <1>1 DEF Tick
  <2>. QED
    BY <1>0, <2>1, RowsAreSequence
<1>3. ASSUME NEW s
      PROVE  /\ Live(s)' <=> Live(s)
             /\ Live(s) => s \in 1 .. Len(session)
  BY <1>1, <1>2 DEF Live
<1>4. ASSUME NEW r \in Requests
      PROVE  /\ request'[r] \in Request /\ request'[r].pc = request[r].pc
             /\ request'[r].sent = request[r].sent /\ request'[r].token = request[r].token
             /\ request'[r].answer = request[r].answer /\ request'[r].row = request[r].row
             /\ request[r].pc # "free" => request[r].age = 0 /\ request'[r].age = 1
  <2>1. request[r] \in Request
    BY RequestFacts
  <2>2. CASE request[r].pc = "free"
    BY <2>1, <2>2 DEF Tick
  <2>3. CASE request[r].pc # "free"
    <3>1. request'[r] = [request[r] EXCEPT !.age = 1] /\ request[r].age = 0
      BY <2>3 DEF Tick
    <3>2. 1 \in 0 .. 1
      OBVIOUS
    <3>. QED
      BY <2>1, <3>1, <3>2 DEF Request
  <2>. QED
    BY <2>2, <2>3
<1>5. request' \in [Requests -> Request]
  BY <1>4 DEF Tick
<1>6. ASSUME NEW t \in Tabs
      PROVE  tab'[t] \in Tab /\ tab'[t].pending = tab[t].pending
  <2>1. tab[t] \in Tab /\ tab[t].cooldown \in 0 .. Cooldown /\ tab[t].timer \in 0 .. RetryDelay + 1
    BY <1>0 DEF Tab
  <2>2. PICK c : c = IF tab[t].cooldown > 0 THEN tab[t].cooldown - 1 ELSE 0
    OBVIOUS
  <2>3. PICK d : d = IF tab[t].timer > 0 THEN tab[t].timer - 1 ELSE 0
    OBVIOUS
  <2>4. c \in 0 .. Cooldown /\ d \in 0 .. RetryDelay + 1
    BY <2>1, <2>2, <2>3, BoundsFacts
  <2>5. tab'[t] = [tab[t] EXCEPT !.cooldown = c, !.timer = d]
    BY <2>2, <2>3 DEF Tick
  <2>. QED
    BY <2>1, <2>4, <2>5 DEF Tab
<1>7. tab' \in [Tabs -> Tab]
  BY <1>6 DEF Tick
<1>8. UNCHANGED <<legacy, jar, excused>>
  BY DEF Tick
<1>9. ASSUME NEW token, NotAhead(token)
      PROVE  NotAhead(token)'
  BY <1>1, <1>2, <1>3, <1>9 DEF NotAhead
<1>10. Books'
  <2>1. AuthTypeOK' /\ legacy'.sessions <= Len(session')
    BY <1>2, <1>5, <1>7, <1>8 DEF AuthInv, Books, AuthTypeOK
  <2>2. NotAhead(jar)'
    <3>1. NotAhead(jar)
      BY DEF AuthInv, Books
    <3>. QED
      BY <3>1, <1>8, <1>9 DEF NotAhead
  <2>3. Chained'
    BY <1>1, <1>2, <1>3 DEF AuthInv, Books, Chained
  <2>4. OneDecision'
    BY <1>4 DEF AuthInv, Books, OneDecision
  <2>5. ASSUME NEW r \in Requests PROVE Sound(r)'
    <3>1. Sound(r)
      BY RequestFacts
    <3>2. Pending(r)' = Pending(r) /\ Granting(r)' = Granting(r)
      BY <1>4 DEF Pending, Granting
    <3>3. NotAhead(request[r].token) => NotAhead(request[r].token)'
      BY <1>4, <1>9 DEF NotAhead
    <3>4. NotAhead(request[r].sent) => NotAhead(request[r].sent)'
      BY <1>4, <1>9 DEF NotAhead
    <3>5. Live(request[r].sent.session) =>
            /\ Live(request[r].sent.session)'
            /\ session'[request[r].sent.session].current = session[request[r].sent.session].current
      <4>1. PICK s : s = request[r].sent.session
        OBVIOUS
      <4>2. Live(s) => Live(s)' /\ session'[s].current = session[s].current
        BY <1>1, <1>3
      <4>. QED
        BY <4>1, <4>2, <1>4 DEF Live
    <3>. QED
      BY <3>1, <3>2, <3>3, <3>4, <3>5, <1>4 DEF Sound
  <2>. QED
    BY <2>1, <2>2, <2>3, <2>4, <2>5 DEF Books
<1>11. ASSUME InTime' PROVE InStep'
  <2>1. InTime /\ InStep /\ Grace >= 3
    BY <1>8, <1>11 DEF AuthInv, InTime
  <2>2. ASSUME NEW r \in Requests PROVE Orderly(r)'
    <3>1. Orderly(r) /\ Sound(r)
      BY <2>1, RequestFacts DEF InStep
    <3>2. PICK s : s = request[r].sent.session
      OBVIOUS
    <3>3. /\ Live(s)' <=> Live(s)
          /\ Live(s) => /\ session'[s].current = session[s].current
                        /\ session'[s].previous = session[s].previous
                        /\ session'[s].grace \in Nat /\ session[s].grace \in Nat
                        /\ session'[s].grace + 1 >= session[s].grace
      BY <1>1, <1>3
    <3>4. request[r].pc = "sent" /\ Live(s) =>
            \/ request[r].sent.jti = session'[s].current
            \/ request[r].sent.jti = session'[s].previous /\ session'[s].grace + 1 + 1 >= Grace
      <4>. SUFFICES ASSUME request[r].pc = "sent", Live(s),
                           request[r].sent.jti # session[s].current
                    PROVE  /\ request[r].sent.jti = session'[s].previous
                           /\ session'[s].grace + 1 + 1 >= Grace
        BY <3>3
      <4>1. /\ request[r].sent.jti = session[s].previous /\ session[s].grace + 0 + 1 >= Grace
        BY <3>1, <3>2, <1>4 DEF Orderly
      <4>. QED
        BY <4>1, <3>3, BoundsFacts
    <3>5. request[r].pc = "locked" /\ s > 0 => Live(s)
      BY <3>1, <3>2 DEF Sound
    <3>6. request[r].pc # "free" => \E t \in Tabs : tab'[t].pending = r
      BY <3>1, <1>6 DEF Orderly
    <3>. QED
      BY <3>1, <3>2, <3>3, <3>4, <3>5, <3>6, <1>4, <1>8 DEF Orderly, Pending, Live
  <2>3. NewerUnderWay'
    <3>1. PICK s : s = jar.session
      OBVIOUS
    <3>. SUFFICES ASSUME Live(s)', jar.jti # session'[s].current
                  PROVE  /\ jar.jti = session'[s].previous
                         /\ \E w \in Requests :
                              /\ Granting(w)' /\ request'[w].token.session = s
                              /\ request'[w].token.jti = session'[s].current
                              /\ session'[s].grace + request'[w].age >= Grace
      BY <3>1, <1>8 DEF NewerUnderWay, Live
    <3>2. /\ Live(s) /\ session'[s].current = session[s].current
          /\ session'[s].previous = session[s].previous
          /\ session'[s].grace \in Nat /\ session[s].grace \in Nat
          /\ session'[s].grace + 1 >= session[s].grace
      BY <1>1, <1>3
    <3>3. PICK w \in Requests :
            /\ Granting(w) /\ request[w].token.session = s
            /\ request[w].token.jti = session[s].current
            /\ session[s].grace + request[w].age >= Grace
      BY <2>1, <3>1, <3>2 DEF InStep, NewerUnderWay
    <3>4. request[w].age = 0 /\ request'[w].age = 1 /\ Granting(w)'
      BY <3>3, <1>4 DEF Granting
    <3>5. session'[s].grace + request'[w].age >= Grace
      BY <3>2, <3>3, <3>4, BoundsFacts
    <3>6. jar.jti = session[s].previous
      BY <2>1, <3>1, <3>2 DEF InStep, NewerUnderWay
    <3>. QED
      BY <3>2, <3>3, <3>4, <3>5, <3>6, <1>4
  <2>4. Unrotated'
    BY <2>1, <1>1, <1>2, <1>8 DEF InStep, Unrotated
  <2>. QED
    BY <2>2, <2>3, <2>4 DEF InStep
<1>12. Grace >= 3 => ReplayHasCause'
  BY <1>1, <1>2, <1>8 DEF AuthInv, ReplayHasCause
<1>. QED
  BY <1>10, <1>11, <1>12 DEF AuthInv

-----------------------------------------------------------------------------
\* The invariant is inductive.
LEMMA AuthInvNext == AuthInv /\ [AuthNext]_authVars => AuthInv'
<1>. SUFFICES ASSUME AuthInv, [AuthNext]_authVars PROVE AuthInv'
  OBVIOUS
<1>1. ASSUME NEW r \in Requests, Serve(r) PROVE AuthInv'
  <2>1. ASSUME Commit(r) PROVE AuthInv'
    BY <2>1, ExchangeKeeps, RotationKeeps
  <2>. QED
    BY <1>1, <2>1, LockKeeps, RefuseKeeps, ConsumeKeeps, BusyKeeps DEF Serve
<1>2. ASSUME NEW s \in 1 .. Len(session), Expire(s) PROVE AuthInv'
  BY <1>2, ExpireKeeps
<1>3. ASSUME NEW t \in Tabs, User(t) PROVE AuthInv'
  <2>1. ASSUME NEW r \in Requests, Refresh(t, r) \/ ForceRefresh(t, r) PROVE AuthInv'
    BY <2>1, AskedKeeps DEF Refresh, ForceRefresh
  <2>2. ASSUME NEW clear \in BOOLEAN, RevokeAll(t, clear) PROVE AuthInv'
    BY <2>2, RevokeAllKeeps
  <2>. QED
    BY <1>3, <2>1, <2>2, ReloadKeeps, LoginKeeps, LogoutKeeps DEF User
<1>4. ASSUME NEW t \in Tabs, Browser(t) PROVE AuthInv'
  <2>1. ASSUME NEW r \in Requests, ColdStart(t, r) PROVE AuthInv'
    BY <2>1, AskedKeeps DEF ColdStart
  <2>2. ASSUME NEW r \in Requests, Retry(t, r) \/ Answer(t, r) PROVE AuthInv'
    BY <2>2, RetryKeeps, AnswerKeeps
  <2>. QED
    BY <1>4, <2>1, <2>2, GiveUpKeeps DEF Browser
<1>5. ASSUME UNCHANGED authVars PROVE AuthInv'
  <2>1. UNCHANGED <<session, legacy, jar, request, tab, excused>>
    BY <1>5 DEF authVars
  <2>. QED
    BY <2>1, RequestsMove DEF AuthInv, Books, AuthTypeOK, InTime
<1>. QED
  BY <1>1, <1>2, <1>3, <1>4, <1>5, TickKeeps DEF AuthNext

\* What a step does to a session that has ended: only time touches its grace. A decision
\* that is still to be committed is about a live one.
LEMMA EndedKept ==
  ASSUME AuthInv, [AuthNext]_authVars, NEW s \in 1 .. Len(session), session[s].revoked # "no"
  PROVE  session'[s].revoked = session[s].revoked /\ session'[s].current = session[s].current
<1>1. session \in Seq(Row) /\ ~Live(s) /\ session[s] \in Row
  BY DEF Live, AuthInv, Books, AuthTypeOK
<1>2. ASSUME session' = session PROVE session'[s] = session[s]
  BY <1>2
<1>3. ASSUME NEW x \in 1 .. Len(session), NEW n, Live(x), session' = [session EXCEPT ![x] = n]
      PROVE  session'[s] = session[s]
  BY <1>1, <1>3
<1>4. ASSUME session' = Append(session, NewRow) PROVE session'[s] = session[s]
  BY <1>1, <1>4, StartFacts
<1>5. ASSUME NEW r \in Requests, Serve(r) PROVE session'[s] = session[s]
  <2>1. CASE Commit(r)
    <3>1. Sound(r) /\ request[r].pc = "locked"
      BY <2>1, RequestFacts DEF Commit
    <3>2. CASE request[r].sent.session = 0
      BY <2>1, <3>1, <3>2, <1>4 DEF Commit, Sound
    <3>3. CASE request[r].sent.session # 0
      <4>1. Live(request[r].sent.session) /\ request[r].sent.session \in 1 .. Len(session)
        BY <3>1, <3>3 DEF Sound, Live
      <4>. QED
        BY <2>1, <3>3, <4>1, <1>3 DEF Commit
    <3>. QED
      BY <3>2, <3>3
  <2>2. CASE Lock(r) \/ Refuse(r) \/ Consume(r) \/ Busy(r)
    BY <2>2, <1>2 DEF Lock, Refuse, Consume, Busy
  <2>. QED
    BY <1>5, <2>1, <2>2 DEF Serve
<1>6. ASSUME NEW x \in 1 .. Len(session), Expire(x) PROVE session'[s] = session[s]
  BY <1>6, <1>3 DEF Expire
<1>7. ASSUME NEW t \in Tabs, User(t) PROVE session'[s] = session[s]
  <2>1. CASE Login(t)
    BY <2>1, <1>4 DEF Login
  <2>2. CASE Logout(t)
    <3>1. Live(jar.session) => jar.session \in 1 .. Len(session)
      BY DEF Live
    <3>. QED
      BY <2>2, <3>1, <1>2, <1>3 DEF Logout
  <2>3. ASSUME NEW clear \in BOOLEAN, RevokeAll(t, clear) PROVE session'[s] = session[s]
    BY <2>3, <1>1 DEF RevokeAll
  <2>4. ASSUME NEW r \in Requests, Refresh(t, r) \/ ForceRefresh(t, r) PROVE session'[s] = session[s]
    BY <2>4, <1>2 DEF Refresh, ForceRefresh
  <2>5. CASE Reload(t)
    BY <2>5, <1>2 DEF Reload
  <2>. QED
    BY <1>7, <2>1, <2>2, <2>3, <2>4, <2>5 DEF User
<1>8. ASSUME NEW t \in Tabs, Browser(t) PROVE session'[s] = session[s]
  BY <1>8, <1>2 DEF Browser, ColdStart, Retry, Answer, GiveUp
<1>9. CASE Tick
  <2>1. session'[s] = [session[s] EXCEPT !.grace = IF @ > 0 THEN @ - 1 ELSE 0]
    BY <1>9 DEF Tick
  <2>. QED
    BY <2>1, <1>1 DEF Row
<1>10. CASE UNCHANGED authVars
  BY <1>10, <1>2 DEF authVars
<1>. QED
  BY <1>5, <1>6, <1>7, <1>8, <1>9, <1>10 DEF AuthNext

-----------------------------------------------------------------------------
\* Sessions, requests and tabs keep their types.
THEOREM AuthTypesKept == AuthSpec => []AuthTypeOK
<1>1. AuthInv => AuthTypeOK
  BY DEF AuthInv, Books
<1>. QED
  BY AuthInvInit, AuthInvNext, <1>1, PTL DEF AuthSpec

\* A rotation that was decided before a logout, a password change, an expiry or a replay
\* does not bring the session back: for any number of tabs, requests and sessions.
THEOREM EndedSessionsStay == AuthSpec => EndedStaysEnded
<1>1. AuthInv /\ [AuthNext]_authVars =>
        [\A s \in 1 .. Len(session) :
           session[s].revoked # "no" =>
             /\ session'[s].revoked = session[s].revoked
             /\ session'[s].current = session[s].current]_authVars
  BY EndedKept
<1>. QED
  BY AuthInvInit, AuthInvNext, <1>1, PTL DEF AuthSpec, EndedStaysEnded

\* With a grace of two ticks or more behind the one that is running, as the default of
\* AUTH_REFRESH_REPLAY_GRACE_SECONDS gives, no token is taken for a replay unless an answer
\* was lost, overtaken by a sign-in or sign-out, or its request outrun by two rotations:
\* any number of tabs may refresh at once.
THEOREM ReplaysHaveCause == ASSUME Grace >= 3 PROVE AuthSpec => []ReplayHasCause
<1>1. AuthInv => ReplayHasCause
  BY DEF AuthInv
<1>. QED
  BY AuthInvInit, AuthInvNext, <1>1, PTL DEF AuthSpec

-----------------------------------------------------------------------------
(* Tickets: the invariant                                                   *)

\* The types of one row and of one connection.
TicketRow == [state : {"unissued", "stored", "gone"}, expired : BOOLEAN, used : BOOLEAN,
              old : BOOLEAN, lock : Attempts \cup {NoHolder, Sweeper}]
Connection == [pc : {"idle", "asked", "locked", "marked", "accepted", "refused"},
               token : Tickets \cup {"none"}, fresh : BOOLEAN, unused : BOOLEAN,
               scoped : BOOLEAN]

\* A connection that is past its presentation has a token that was issued.
Presented == \A a \in Attempts : attempt[a].pc # "idle" => attempt[a].token \in Tickets

\* While an attempt judges a ticket it holds the stored row, which is as it was read.
LockedByReader ==
    \A a \in Attempts : attempt[a].pc = "locked" =>
        LET t == attempt[a].token IN
        /\ row[t].state = "stored" /\ row[t].lock = a
        /\ attempt[a].unused => ~row[t].used

\* A mark is in the row as soon as it is counted.
MarkStored == \A t \in Tickets : marked[t] <= 1 /\ (~row[t].used => marked[t] = 0)

\* What the clean-up has picked stays stale until the batch is over.
PickedStale ==
    cleanup.pc = "delete" =>
        \A t \in cleanup.picked : row[t].expired \/ (row[t].used /\ row[t].old)

TicketInv == TicketTypeOK /\ Presented /\ LockedByReader /\ MarkStored /\ PickedStale

-----------------------------------------------------------------------------
\* Nobody holds or has used a ticket before one is issued.
LEMMA TicketInvInit == TicketInit => TicketInv
<1>. SUFFICES ASSUME TicketInit PROVE TicketInv
  OBVIOUS
<1>. USE DEF TicketInit, Unissued, NotAsked
<1>1. TicketTypeOK
  BY SweepAssumption DEF TicketTypeOK
<1>2. Presented /\ LockedByReader /\ MarkStored /\ PickedStale
  BY DEF Presented, LockedByReader, MarkStored, PickedStale
<1>. QED
  BY <1>1, <1>2 DEF TicketInv

\* Each step of an attempt, of the clean-up and of time keeps the invariant.
LEMMA TicketInvNext == TicketInv /\ [TicketNext]_ticketVars => TicketInv'
<1>. SUFFICES ASSUME TicketInv, [TicketNext]_ticketVars PROVE TicketInv'
  OBVIOUS
<1>. USE DEF TicketInv
<1>1. ASSUME NEW t \in Tickets, Issue(t) PROVE TicketInv'
  <2>. USE <1>1 DEF Issue, TicketTypeOK
  <2>1. TicketTypeOK'
    OBVIOUS
  <2>2. Presented' /\ LockedByReader' /\ MarkStored' /\ PickedStale'
    BY DEF Presented, LockedByReader, MarkStored, PickedStale
  <2>. QED BY <2>1, <2>2
<1>2. ASSUME NEW t \in Tickets, ExpireTicket(t) PROVE TicketInv'
  <2>. USE <1>2 DEF ExpireTicket, TicketTypeOK
  <2>1. TicketTypeOK'
    <3>1. row \in [Tickets -> TicketRow] /\ row[t] \in TicketRow
      BY DEF TicketRow
    <3>2. [row[t] EXCEPT !.expired = TRUE] \in TicketRow
      BY <3>1 DEF TicketRow
    <3>3. row' = [row EXCEPT ![t] = [row[t] EXCEPT !.expired = TRUE]]
      OBVIOUS
    <3>4. row' \in [Tickets -> TicketRow]
      BY <3>1, <3>2, <3>3
    <3>. QED BY <3>4 DEF TicketRow
  <2>2. Presented' /\ LockedByReader' /\ MarkStored' /\ PickedStale'
    BY DEF Presented, LockedByReader, MarkStored, PickedStale
  <2>. QED BY <2>1, <2>2
<1>3. ASSUME NEW t \in Tickets, OutliveRetention(t) PROVE TicketInv'
  <2>. USE <1>3 DEF OutliveRetention, TicketTypeOK
  <2>1. TicketTypeOK'
    <3>1. row \in [Tickets -> TicketRow] /\ row[t] \in TicketRow
      BY DEF TicketRow
    <3>2. [row[t] EXCEPT !.old = TRUE] \in TicketRow
      BY <3>1 DEF TicketRow
    <3>3. row' = [row EXCEPT ![t] = [row[t] EXCEPT !.old = TRUE]]
      OBVIOUS
    <3>4. row' \in [Tickets -> TicketRow]
      BY <3>1, <3>2, <3>3
    <3>. QED BY <3>4 DEF TicketRow
  <2>2. Presented' /\ LockedByReader' /\ MarkStored' /\ PickedStale'
    BY DEF Presented, LockedByReader, MarkStored, PickedStale
  <2>. QED BY <2>1, <2>2
<1>4. ASSUME NEW a \in Attempts, NEW t \in Tickets, NEW scoped \in BOOLEAN,
             PresentTicket(a, t, scoped)
      PROVE  TicketInv'
  <2>. USE <1>4 DEF PresentTicket, TicketTypeOK
  <2>1. TicketTypeOK'
    OBVIOUS
  <2>2. Presented' /\ LockedByReader' /\ MarkStored' /\ PickedStale'
    BY DEF Presented, LockedByReader, MarkStored, PickedStale
  <2>. QED BY <2>1, <2>2
<1>5. ASSUME NEW a \in Attempts, LockRow(a) PROVE TicketInv'
  <2>. USE <1>5 DEF LockRow, TicketTypeOK
  <2>. DEFINE t == attempt[a].token
  <2>1. t \in Tickets
    BY DEF Presented
  <2>2. TicketTypeOK'
    <3>1. row[t] \in TicketRow /\ attempt[a] \in Connection
      BY <2>1 DEF TicketRow, Connection
    <3>2. row' = [row EXCEPT ![t] = [row[t] EXCEPT !.lock = a]]
      BY <2>1
    <3>3. row' \in [Tickets -> TicketRow]
      BY <2>1, <3>1, <3>2 DEF TicketRow
    <3>4. [attempt[a] EXCEPT !.pc = "locked", !.unused = ~row[t].used] \in Connection
      BY <2>1, <3>1 DEF TicketRow, Connection
    <3>5. attempt' \in [Attempts -> Connection]
      BY <3>4 DEF Connection
    <3>. QED BY <3>3, <3>5 DEF TicketRow, Connection
  <2>3. Presented' /\ MarkStored' /\ PickedStale'
    BY <2>1 DEF Presented, MarkStored, PickedStale
  <2>4. ASSUME NEW b \in Attempts, attempt[b].pc = "locked"
        PROVE  attempt[b].token # t /\ b # a
    BY <2>4, <2>1, HoldersAssumption DEF LockedByReader
  <2>5. LockedByReader'
    BY <2>1, <2>4 DEF LockedByReader
  <2>. QED BY <2>2, <2>3, <2>5
<1>6. ASSUME NEW a \in Attempts, TurnedAway(a) PROVE TicketInv'
  <2>. USE <1>6 DEF TurnedAway, TicketTypeOK
  <2>1. TicketTypeOK'
    OBVIOUS
  <2>2. Presented' /\ LockedByReader' /\ MarkStored' /\ PickedStale'
    BY DEF Presented, LockedByReader, MarkStored, PickedStale
  <2>. QED BY <2>1, <2>2
<1>7. ASSUME NEW a \in Attempts, MarkUsed(a) PROVE TicketInv'
  <2>. USE <1>7 DEF MarkUsed, Acceptable, Unlocked, TicketTypeOK
  <2>. DEFINE t == attempt[a].token
  <2>1. t \in Tickets /\ ~row[t].used /\ row[t].lock = a
    BY DEF Presented, LockedByReader
  <2>2. TicketTypeOK'
    BY <2>1
  <2>3. Presented' /\ PickedStale'
    BY <2>1 DEF Presented, PickedStale
  <2>4. marked[t] = 0
    BY <2>1 DEF MarkStored
  <2>5. MarkStored'
    BY <2>1, <2>4 DEF MarkStored
  <2>6. ASSUME NEW b \in Attempts, attempt[b].pc = "locked", b # a
        PROVE  attempt[b].token # t
    BY <2>1, <2>6 DEF LockedByReader
  <2>7. LockedByReader'
    BY <2>1, <2>6 DEF LockedByReader
  <2>. QED BY <2>2, <2>3, <2>5, <2>7
<1>8. ASSUME NEW a \in Attempts, RollBack(a) PROVE TicketInv'
  <2>. USE <1>8 DEF RollBack, Unlocked, TicketTypeOK
  <2>. DEFINE t == attempt[a].token
  <2>1. t \in Tickets /\ row[t].lock = a
    BY DEF Presented, LockedByReader
  <2>2. TicketTypeOK'
    <3>1. row[t] \in TicketRow
      BY <2>1 DEF TicketRow
    <3>2. row' = [row EXCEPT ![t] = [row[t] EXCEPT !.lock = NoHolder]]
      BY <2>1
    <3>3. row' \in [Tickets -> TicketRow]
      BY <2>1, <3>1, <3>2, SMTT(30) DEF TicketRow
    <3>. QED BY <3>3 DEF TicketRow
  <2>3. Presented' /\ MarkStored' /\ PickedStale'
    BY <2>1 DEF Presented, MarkStored, PickedStale
  <2>4. ASSUME NEW b \in Attempts, attempt[b].pc = "locked", b # a
        PROVE  attempt[b].token # t
    BY <2>1, <2>4 DEF LockedByReader
  <2>5. LockedByReader'
    BY <2>1, <2>4 DEF LockedByReader
  <2>. QED BY <2>2, <2>3, <2>5
<1>9. ASSUME NEW a \in Attempts, Admit(a) PROVE TicketInv'
  <2>. USE <1>9 DEF Admit, TicketTypeOK
  <2>1. TicketTypeOK'
    OBVIOUS
  <2>2. Presented' /\ LockedByReader' /\ MarkStored' /\ PickedStale'
    BY DEF Presented, LockedByReader, MarkStored, PickedStale
  <2>. QED BY <2>1, <2>2
<1>10. ASSUME NEW t \in Tickets, SweepLocks(t) PROVE TicketInv'
  <2>. USE <1>10 DEF SweepLocks, TicketTypeOK
  <2>1. TicketTypeOK'
    OBVIOUS
  <2>2. Presented' /\ MarkStored' /\ PickedStale'
    BY DEF Presented, MarkStored, PickedStale
  <2>3. ASSUME NEW b \in Attempts, attempt[b].pc = "locked"
        PROVE  attempt[b].token # t
    BY <2>3, HoldersAssumption DEF LockedByReader
  <2>4. LockedByReader'
    BY <2>3 DEF LockedByReader, Presented
  <2>. QED BY <2>1, <2>2, <2>4
<1>11. ASSUME PickBatch PROVE TicketInv'
  <2>. USE <1>11 DEF PickBatch, TicketTypeOK
  <2>1. StaleRows \subseteq Tickets /\ \A t \in StaleRows : row[t].expired \/ (row[t].used /\ row[t].old)
    BY DEF StaleRows, StaleTicket
  <2>2. cleanup.runs + (IF cleanup.pc = "off" THEN 1 ELSE 0) \in 0 .. MaxSweeps
    BY SweepAssumption
  <2>3. CASE StaleRows = {} /\ cleanup' = [cleanup EXCEPT !.pc = "off",
                !.runs = @ + (IF cleanup.pc = "off" THEN 1 ELSE 0)]
    <3>1. TicketTypeOK'
      BY <2>2, <2>3
    <3>. QED
      BY <3>1, <2>3 DEF Presented, LockedByReader, MarkStored, PickedStale
  <2>4. ASSUME NEW b \in SUBSET StaleRows,
               cleanup' = [pc |-> "delete", picked |-> b,
                           runs |-> cleanup.runs + (IF cleanup.pc = "off" THEN 1 ELSE 0)]
        PROVE  TicketInv'
    <3>1. TicketTypeOK'
      BY <2>1, <2>2, <2>4
    <3>2. PickedStale'
      BY <2>1, <2>4 DEF PickedStale
    <3>. QED
      BY <3>1, <3>2 DEF Presented, LockedByReader, MarkStored
  <2>. QED BY <2>3, <2>4
<1>12. ASSUME SweepCommits PROVE TicketInv'
  <2>. USE <1>12 DEF SweepCommits, TicketTypeOK
  <2>0. \A t \in Tickets : row'[t].used = row[t].used /\ row[t] \in TicketRow
    <3>1. \A t \in Tickets : row[t] \in TicketRow
      BY DEF TicketRow
    <3>2. \A t \in Tickets : row'[t].used = row[t].used
      BY <3>1 DEF TicketRow
    <3>. QED BY <3>1, <3>2
  <2>1. TicketTypeOK'
    <3>1. row' \in [Tickets -> TicketRow]
      BY <2>0 DEF TicketRow
    <3>2. cleanup'.pc \in {"off", "again"} /\ cleanup'.picked = {} /\ cleanup'.runs = cleanup.runs
      OBVIOUS
    <3>3. cleanup' \in [pc : {"off", "delete", "again"}, picked : SUBSET Tickets, runs : 0..MaxSweeps]
      OBVIOUS
    <3>. QED BY <3>1, <3>3 DEF TicketRow
  <2>2. Presented' /\ MarkStored' /\ PickedStale'
    <3>1. cleanup'.pc # "delete"
      OBVIOUS
    <3>. QED BY <2>0, <3>1 DEF Presented, MarkStored, PickedStale
  <2>3. ASSUME NEW b \in Attempts, attempt[b].pc = "locked"
        PROVE  attempt[b].token \notin cleanup.picked
    <3>1. row[attempt[b].token].lock = b
      BY <2>3 DEF LockedByReader
    <3>. QED BY <3>1, HoldersAssumption
  <2>4. LockedByReader'
    BY <2>3 DEF LockedByReader, Presented
  <2>. QED BY <2>1, <2>2, <2>4
<1>13. ASSUME SweepFails PROVE TicketInv'
  <2>. USE <1>13 DEF SweepFails, TicketTypeOK
  <2>1. TicketTypeOK'
    <3>1. \A t \in Tickets : row[t] \in TicketRow
      BY DEF TicketRow
    <3>2. row' \in [Tickets -> TicketRow]
      BY <3>1 DEF TicketRow
    <3>. QED BY <3>2 DEF TicketRow
  <2>2. Presented' /\ MarkStored' /\ PickedStale'
    BY DEF Presented, MarkStored, PickedStale
  <2>3. LockedByReader'
    BY HoldersAssumption DEF LockedByReader, Presented
  <2>. QED BY <2>1, <2>2, <2>3
<1>14. ASSUME UNCHANGED ticketVars PROVE TicketInv'
  BY <1>14 DEF ticketVars, TicketTypeOK, Presented, LockedByReader, MarkStored, PickedStale
<1>. QED
  BY <1>1, <1>2, <1>3, <1>4, <1>5, <1>6, <1>7, <1>8, <1>9, <1>10, <1>11, <1>12, <1>13, <1>14
  DEF TicketNext

-----------------------------------------------------------------------------
\* The table, the connections and the clean-up keep their types.
THEOREM TicketTypes == TicketSpec => []TicketTypeOK
<1>. QED
  BY TicketInvInit, TicketInvNext, PTL DEF TicketSpec, TicketInv

\* A ticket is good for one connection: however many present it at once, and whatever
\* expires or is cleaned up in between, used_at is committed by one of them only
\* (consume_ticket).
THEOREM OneMarkPerTicket == TicketSpec => []AcceptedOnce
<1>1. TicketInv => AcceptedOnce
  BY DEF TicketInv, MarkStored, AcceptedOnce
<1>. QED
  BY TicketInvInit, TicketInvNext, <1>1, PTL DEF TicketSpec

\* The clean-up, which picks rows before it locks them, deletes none that has become
\* useful meanwhile: what made a row stale is never undone.
THEOREM OnlyStaleSwept == TicketSpec => SweepSparesLive
<1>. DEFINE Spared == \A t \in Tickets :
                (row[t].state = "stored" /\ row'[t].state = "gone")
                    => row[t].expired \/ (row[t].used /\ row[t].old)
<1>1. ASSUME TicketInv, [TicketNext]_ticketVars PROVE [Spared]_ticketVars
  <2>. SUFFICES ASSUME TicketNext, NEW t \in Tickets,
                       row[t].state = "stored", row'[t].state = "gone"
                PROVE  row[t].expired \/ (row[t].used /\ row[t].old)
    BY <1>1
  <2>. USE <1>1 DEF TicketInv, TicketTypeOK
  <2>1. CASE SweepCommits
    BY <2>1 DEF SweepCommits, PickedStale
  <2>2. CASE UNCHANGED row
    BY <2>2
  <2>3. ASSUME NEW s \in Tickets,
               Issue(s) \/ ExpireTicket(s) \/ OutliveRetention(s) \/ SweepLocks(s)
        PROVE  FALSE
    BY <2>3 DEF Issue, ExpireTicket, OutliveRetention, SweepLocks
  <2>4. ASSUME NEW a \in Attempts, LockRow(a) \/ MarkUsed(a) \/ RollBack(a) PROVE FALSE
    <3>1. attempt[a].token \in Tickets
      BY <2>4 DEF LockRow, MarkUsed, RollBack, Presented
    <3>2. row[t] \in TicketRow /\ row[attempt[a].token] \in TicketRow
      BY <3>1 DEF TicketRow
    <3>3. CASE LockRow(a)
      BY <3>1, <3>2, <3>3 DEF LockRow, TicketRow
    <3>4. CASE RollBack(a)
      BY <3>1, <3>2, <3>4 DEF RollBack, Unlocked, TicketRow
    <3>5. CASE MarkUsed(a)
      <4>1. row'[t].state = row[t].state
        BY <3>1, <3>2, <3>5 DEF MarkUsed, Unlocked, TicketRow
      <4>. QED BY <4>1
    <3>. QED BY <2>4, <3>3, <3>4, <3>5
  <2>5. CASE SweepFails
    BY <2>5 DEF SweepFails
  <2>. QED
    BY <2>1, <2>2, <2>3, <2>4, <2>5
    DEF TicketNext, PresentTicket, TurnedAway, Admit, PickBatch
<1>. QED
  BY TicketInvInit, TicketInvNext, <1>1, PTL DEF TicketSpec, SweepSparesLive

=============================================================================
