--------------------------- MODULE InvokeRegistry ---------------------------
(***************************************************************************)
(* Running invocations of ONE conversation                                 *)
(* (src/backend/app/features/sessions/inflight_service.py, and the routes  *)
(* and runners of features/invoke that use it): the guard against the same *)
(* request twice, the in-memory registry of running invocations, the       *)
(* cancel request of the user, the interruption of earlier invocations by  *)
(* a new one, and the record of that interruption in the history.          *)
(*                                                                         *)
(* The process is one asyncio loop: what happens between two awaits is one *)
(* step. The registry's lock is never held across an await, so taking it   *)
(* does not suspend. The steps end where the code awaits the agent         *)
(* (cancel_task), the database, or the stream.                             *)
(*                                                                         *)
(* Abstracted: what is streamed and stored (StreamResume); the negotiation *)
(* of extensions, which touches nothing here; error codes (a cancel is     *)
(* "ok", "terminal" when the agent no longer has the task, or "error").    *)
(***************************************************************************)
EXTENDS Naturals, FiniteSets

CONSTANTS
  Invokes,      \* requests to invoke the agent in this conversation
  Controls,     \* requests of the user to cancel
  Keys,         \* guard keys: texts of the query
  InvokeKinds,        \* "sse"; "call": WebSocket or JSON; "job": in the background
  MaxAttempts,  \* 1 + _SESSION_NOT_FOUND_RETRY_LIMIT
  MaxTasks,     \* bound: upstream task ids one stream reports
  NoKey,        \* no guard key: a job, or nothing requested
  NoToken       \* no preempt event

ASSUME InvokeKindsAssumption ==
  InvokeKinds # {} /\ InvokeKinds \subseteq {"sse", "call", "job"}
ASSUME InvokeBoundsAssumption == MaxAttempts \in Nat \ {0} /\ MaxTasks \in Nat
ASSUME ActorsAssumption == Invokes \cap Controls = {}
ASSUME NoKeyAssumption == NoKey \notin Keys

VARIABLES
  guard,    \* _invoke_inflight_keys
  entry,    \* inflight_invokes of the conversation, by token
  inv,      \* each invocation: where it is, its request, the record it writes
  ctl,      \* each control request: where it is, and its answer
  sweep,    \* each walk over a snapshot of the registry
  history,  \* stored preempt events, by the token of the interrupter
  tried,    \* history: tokens for which cancel_task was called
  late      \* history: tokens marked for a deferred cancel when already bound

regVars == <<guard, entry, inv, ctl, sweep, history, tried, late>>

-----------------------------------------------------------------------------
(* State *)

Token == Invokes \X (1 .. MaxAttempts)
Actors == Invokes \cup Controls
Outcomes == {"ok", "terminal", "error"}

ASSUME NoTokenAssumption == NoToken \notin Token

\* at: order of registration, 0 when not registered; task: the bound upstream
\* task, 0 when none; cancel: cancel_requested; event: pending_preempt_event.
Entry == [at : Nat, task : 0 .. MaxTasks, cancel : BOOLEAN,
          event : Token \cup {NoToken}]
NoEntry == [at |-> 0, task |-> 0, cancel |-> FALSE, event |-> NoToken]

Snapshot == [token : Token, at : Nat \ {0}, task : 0 .. MaxTasks]

\* What preempt_inflight_invoke_report and cancel_session have found so far;
\* listed: all tokens of the snapshot, todo: the snapshots not yet handled.
Report == [todo : SUBSET Snapshot, listed : SUBSET Token, ok : BOOLEAN,
           terminal : BOOLEAN, failed : BOOLEAN, marked : BOOLEAN]
NoReport == [todo |-> {}, listed |-> {}, ok |-> FALSE, terminal |-> FALSE,
             failed |-> FALSE, marked |-> FALSE]

EventStatus == {"none", "accepted", "completed", "failed"}
Note == [event : Token \cup {NoToken}, status : EventStatus,
         seen : EventStatus \cup {"unread"}]
NoNote == [event |-> NoToken, status |-> "none", seen |-> "unread"]

InvokePcs ==
  {"idle", "refused", "prepared", "sweeping", "noting", "swept", "replaying",
   "streaming", "deferring", "resolving", "closing", "recovering", "leaving",
   "abandoned", "gone", "over"}

\* The pcs at which an invocation other than a job holds its guard key.
Guarded == InvokePcs \ {"idle", "refused", "abandoned", "gone", "over"}

\* The pcs between registration and unregistration.
Running == {"replaying", "streaming", "deferring", "resolving", "closing",
            "abandoned"}

Invocation ==
  [pc : InvokePcs, kind : InvokeKinds, key : Keys \cup {NoKey}, preempt : BOOLEAN,
   resume : BOOLEAN, attempt : 1 .. MaxAttempts, seen : 0 .. MaxTasks,
   note : Note]

\* Nothing of a request is remembered before it begins and after it ends.
Fresh(pc, attempt) ==
  [pc |-> pc, kind |-> CHOOSE k \in InvokeKinds : TRUE, key |-> NoKey,
   preempt |-> FALSE, resume |-> FALSE, attempt |-> attempt, seen |-> 0,
   note |-> NoNote]

ControlAnswers == {"none", "no_inflight", "accepted", "pending", "already_terminal",
            "error"}
Control == [pc : {"idle", "sweeping", "answered"}, answer : ControlAnswers]

RegTypeOK ==
  /\ guard \in [Keys -> {0, 1}]
  /\ entry \in [Token -> Entry]
  /\ inv \in [Invokes -> Invocation]
  /\ ctl \in [Controls -> Control]
  /\ sweep \in [Actors -> Report]
  /\ history \in [Token -> EventStatus]
  /\ tried \subseteq Token
  /\ late \subseteq Token

RegInit ==
  /\ guard = [k \in Keys |-> 0]
  /\ entry = [t \in Token |-> NoEntry]
  /\ inv = [i \in Invokes |-> Fresh("idle", 1)]
  /\ ctl = [c \in Controls |-> [pc |-> "idle", answer |-> "none"]]
  /\ sweep = [a \in Actors |-> NoReport]
  /\ history = [t \in Token |-> "none"]
  /\ tried = {}
  /\ late = {}

-----------------------------------------------------------------------------
(* Helpers *)

Registered == {t \in Token : entry[t].at > 0}
TokenOf(i) == <<i, inv[i].attempt>>
At(i, pc) == [inv EXCEPT ![i].pc = pc]
End(i, pc) == [inv EXCEPT ![i] = Fresh(pc, @.attempt)]

\* A dict keeps the order of insertion.
LastAt == CHOOSE n \in {0} \cup {entry[t].at : t \in Token} :
            \A t \in Token : entry[t].at <= n

Without(t) == [entry EXCEPT ![t] = NoEntry]

\* Mutant: the release pops every key of the conversation.
KeyReleasedAll(i) == [k \in Keys |-> 0]

\* release_invoke_guard; jobs have no key.
KeyReleased(i) == [k \in Keys |-> IF k = inv[i].key THEN 0 ELSE guard[k]]

Bucket == {[token |-> t, at |-> entry[t].at, task |-> entry[t].task] :
             t \in Registered}

\* Unbound snapshots up to the first bound one: they are marked without an
\* await in between.
Leading(todo) ==
  {s \in todo : s.task = 0 /\ \A r \in todo : r.task > 0 => s.at < r.at}

\* The snapshot whose cancel_task call is awaited.
Current(todo) ==
  CHOOSE s \in todo : s.task > 0 /\ \A r \in todo : s.at <= r.at

EventOf(a) == IF a \in Invokes THEN TokenOf(a) ELSE NoToken

\* A mark reaches the entry as it is now, bound in the meantime or not.
Marked(a, t, e) == [e EXCEPT !.cancel = TRUE, !.event = EventOf(a)]

CancelAnswer(r) ==
  CASE r.ok -> "accepted"
    [] ~r.ok /\ r.marked -> "pending"
    [] ~r.ok /\ ~r.marked /\ r.terminal -> "already_terminal"
    [] ~r.ok /\ ~r.marked /\ ~r.terminal /\ r.failed -> "error"
    [] OTHER -> "no_inflight"

PreemptStatus(r) ==
  CASE r.ok \/ r.terminal -> "completed"
    [] ~(r.ok \/ r.terminal) /\ r.marked -> "accepted"
    [] ~(r.ok \/ r.terminal) /\ ~r.marked /\ r.failed -> "failed"
    [] OTHER -> "none"

\* The walk of a has handled everything it listed: a control answers, an
\* invocation records its event, unless it had nothing to interrupt.
Conclude(a, r) ==
  IF a \in Controls
  THEN /\ ctl' = [ctl EXCEPT ![a] = [pc |-> "answered", answer |-> CancelAnswer(r)]]
       /\ UNCHANGED inv
  ELSE /\ inv' = IF PreemptStatus(r) = "none" THEN At(a, "swept")
                 ELSE [inv EXCEPT ![a].pc = "noting",
                                  ![a].note = [event |-> TokenOf(a),
                                               status |-> PreemptStatus(r),
                                               seen |-> "unread"]]
       /\ UNCHANGED ctl

Await(a) ==
  IF a \in Controls
  THEN ctl' = [ctl EXCEPT ![a].pc = "sweeping"] /\ UNCHANGED inv
  ELSE inv' = At(a, "sweeping") /\ UNCHANGED ctl

\* The walk goes on to the next bound snapshot or to the end; reg is the
\* registry as the cancel that has just returned left it.
Walk(a, r, reg) ==
  LET lead == Leading(r.todo)
      hit == {s.token : s \in {x \in lead : reg[x.token].at > 0}}
      next == [r EXCEPT !.todo = r.todo \ lead, !.marked = @ \/ hit # {}]
  IN /\ entry' = [t \in Token |-> IF t \in hit THEN Marked(a, t, reg[t]) ELSE reg[t]]
     /\ late' = late \cup {t \in hit : reg[t].task > 0}
     /\ sweep' = [sweep EXCEPT ![a] = next]
     /\ IF next.todo = {} THEN Conclude(a, next) ELSE Await(a)

List(a) ==
  Walk(a, [NoReport EXCEPT !.todo = Bucket, !.listed = Registered], entry)

\* _cancel_inflight_task: a task that is cancelled or already over leaves the
\* registry.
AfterCancel(t, outcome) == IF outcome = "error" THEN entry ELSE Without(t)

\* cancel_task has returned.
CancelReturns(a, outcome) ==
  LET r == sweep[a]
      s == Current(r.todo)
  IN /\ tried' = tried \cup {s.token}
     /\ Walk(a, [r EXCEPT !.todo = @ \ {s},
                          !.ok = @ \/ outcome = "ok",
                          !.terminal = @ \/ outcome = "terminal",
                          !.failed = @ \/ outcome = "error"],
             AfterCancel(s.token, outcome))
     /\ UNCHANGED <<guard, history>>

-----------------------------------------------------------------------------
(* Requests *)

\* Background invocations take no guard, and carry neither an interrupt flag
\* nor a sequence to resume from.
BeginAttempt(i, kind, key, preempt, resume) ==
  /\ inv[i].pc = "idle"
  /\ IF kind = "job" THEN key = NoKey /\ ~preempt /\ ~resume ELSE key \in Keys
  /\ \/ /\ key \in Keys /\ guard[key] > 0
        /\ inv' = End(i, "refused")
        /\ UNCHANGED guard
     \/ /\ key \in Keys => guard[key] = 0
        /\ inv' = [inv EXCEPT ![i].pc = "prepared", ![i].kind = kind,
                              ![i].key = key, ![i].preempt = preempt,
                              ![i].resume = resume]
        /\ guard' = [k \in Keys |-> IF k = key THEN 1 ELSE guard[k]]
  /\ UNCHANGED <<entry, ctl, sweep, history, tried, late>>

\* prepare_state raised, or the session could not be recovered.
PrepareFails(i) ==
  /\ inv[i].pc \in {"prepared", "recovering"}
  /\ inv' = End(i, "over")
  /\ guard' = KeyReleased(i)
  /\ UNCHANGED <<entry, ctl, sweep, history, tried, late>>

\* prepare_state has stored the session; the interruption starts by listing.
Prepare(i) ==
  /\ inv[i].pc = "prepared"
  /\ IF inv[i].preempt
     THEN List(i)
     ELSE inv' = At(i, "swept") /\ UNCHANGED <<entry, ctl, sweep, late>>
  /\ UNCHANGED <<guard, history, tried>>

InvokeCancelReturns(i, outcome) ==
  /\ inv[i].pc = "sweeping"
  /\ CancelReturns(i, outcome)

\* register_inflight_invoke; SSE and WebSocket then send the cached events
\* they were asked to resume after.
Register(i) ==
  /\ inv[i].pc = "swept"
  /\ entry' = [entry EXCEPT ![TokenOf(i)] = [NoEntry EXCEPT !.at = LastAt + 1]]
  /\ inv' = At(i, IF inv[i].resume THEN "replaying" ELSE "streaming")
  /\ sweep' = [sweep EXCEPT ![i] = NoReport]
  /\ UNCHANGED <<guard, ctl, history, tried, late>>

-----------------------------------------------------------------------------
(* The history: recording a preempt event is a read, then a write *)

NoteRead(i) ==
  /\ inv[i].pc \in {"noting", "resolving"}
  /\ inv[i].note.seen = "unread"
  /\ inv' = [inv EXCEPT ![i].note.seen = history[inv[i].note.event]]
  /\ UNCHANGED <<guard, entry, ctl, sweep, history, tried, late>>

\* What the transaction of n may leave: an insert conflicts when the row has
\* appeared since the read; an update without a difference writes nothing. The
\* merge with the stored event (_merge_preempt_event) is not reached: it is given
\* existing_message.metadata, which is SQLAlchemy's table metadata and no dict (the
\* column's attribute is message_metadata), so the last writer wins.
StatusWritten(n) ==
  IF n.seen = "none"
  THEN IF history[n.event] = "none" THEN {n.status} ELSE {}
  ELSE {n.status} \cup (IF n.status = n.seen THEN {history[n.event]} ELSE {})

\* An interrupter that cancelled nothing and failed gives up; a stream goes on.
AfterNote(i) ==
  IF inv[i].pc = "resolving" THEN "streaming"
  ELSE IF inv[i].note.status = "failed" THEN "over" ELSE "swept"

NoteWrite(i) ==
  /\ inv[i].pc \in {"noting", "resolving"}
  /\ inv[i].note.seen # "unread"
  /\ \E status \in StatusWritten(inv[i].note) :
       history' = [history EXCEPT ![inv[i].note.event] = status]
  /\ inv' = IF AfterNote(i) = "over" THEN End(i, "over")
             ELSE [inv EXCEPT ![i].pc = AfterNote(i), ![i].note = NoNote]
  /\ guard' = IF AfterNote(i) = "over" THEN KeyReleased(i) ELSE guard
  /\ UNCHANGED <<entry, ctl, sweep, tried, late>>

\* The database fails, or the insert conflicts: an interrupter gives up, a
\* stream ends as failed.
NoteFails(i) ==
  /\ inv[i].pc \in {"noting", "resolving"}
  /\ inv' = IF inv[i].pc = "noting" THEN End(i, "over")
             ELSE [inv EXCEPT ![i].pc = "closing", ![i].note = NoNote]
  /\ guard' = IF inv[i].pc = "noting" THEN KeyReleased(i) ELSE guard
  /\ UNCHANGED <<entry, ctl, sweep, history, tried, late>>

-----------------------------------------------------------------------------
(* The stream *)

ReplayEnds(i) ==
  /\ inv[i].pc = "replaying"
  /\ inv' = At(i, "streaming")
  /\ UNCHANGED <<guard, entry, ctl, sweep, history, tried, late>>

\* A send fails while cached events are replayed. The replay of a WebSocket
\* raises into run_ws_invoke, which unregisters and raises. The replay of SSE is in front
\* of the generator's try: only the guard is released.
ReplayAborted(i) ==
  /\ inv[i].pc = "replaying"
  /\ guard' = KeyReleased(i)
  /\ IF inv[i].kind = "sse"
     THEN inv' = End(i, "gone") /\ UNCHANGED entry
     ELSE inv' = End(i, "over") /\ entry' = Without(TokenOf(i))
  /\ UNCHANGED <<ctl, sweep, history, tried, late>>

\* Mutant: binding looks for an interruption only, not for a cancel request.
TaskSeenByInterrupter(i) ==
  LET t == TokenOf(i)
  IN /\ inv[i].pc = "streaming"
     /\ inv[i].seen < MaxTasks
     /\ inv' = [inv EXCEPT ![i].seen = @ + 1,
                           ![i].pc = IF entry[t].event # NoToken
                                     THEN "deferring" ELSE @,
                           ![i].note.event = entry[t].event]
     /\ entry' = IF entry[t].at > 0
                 THEN [entry EXCEPT ![t].task = inv[i].seen + 1] ELSE entry
     /\ UNCHANGED <<guard, ctl, sweep, history, tried, late>>

\* bind_inflight_task_id_report: the stream reports its next upstream task. An
\* entry no longer in the registry is not bound; one with cancel_requested is
\* cancelled now.
TaskSeen(i) ==
  LET t == TokenOf(i)
  IN /\ inv[i].pc = "streaming"
     /\ inv[i].seen < MaxTasks
     /\ inv' = [inv EXCEPT ![i].seen = @ + 1,
                           ![i].pc = IF entry[t].at > 0 /\ entry[t].cancel
                                     THEN "deferring" ELSE @,
                           ![i].note.event = IF entry[t].at > 0 /\ entry[t].cancel
                                             THEN entry[t].event ELSE @]
     /\ entry' = IF entry[t].at > 0
                 THEN [entry EXCEPT ![t].task = inv[i].seen + 1] ELSE entry
     /\ UNCHANGED <<guard, ctl, sweep, history, tried, late>>

\* The deferred cancel has returned; its preempt event, if any, is resolved.
DeferredReturns(i, outcome) ==
  /\ inv[i].pc = "deferring"
  /\ tried' = tried \cup {TokenOf(i)}
  /\ entry' = AfterCancel(TokenOf(i), outcome)
  /\ inv' = IF inv[i].note.event = NoToken THEN At(i, "streaming")
            ELSE [inv EXCEPT ![i].pc = "resolving",
                             ![i].note.status = IF outcome = "error" THEN "failed"
                                                ELSE "completed"]
  /\ UNCHANGED <<guard, ctl, sweep, history, late>>

\* The stream has ended, failed, timed out, or its reader has gone while the
\* hub waited inside the generator: on_finalized runs.
InvokeEnds(i) ==
  /\ \/ inv[i].pc = "streaming"
     \/ inv[i].pc \in {"deferring", "resolving"} /\ inv[i].kind = "sse"
  /\ inv' = [inv EXCEPT ![i].pc = "closing", ![i].note = NoNote]
  /\ UNCHANGED <<guard, entry, ctl, sweep, history, tried, late>>

\* The reader of an SSE stream has gone while the generator was suspended at a
\* yield: the route's wrapper releases the guard, the generator is finalised
\* later.
Abandon(i) ==
  /\ inv[i].pc = "streaming"
  /\ inv[i].kind = "sse"
  /\ inv' = At(i, "abandoned")
  /\ guard' = KeyReleased(i)
  /\ UNCHANGED <<entry, ctl, sweep, history, tried, late>>

\* Mutant: nothing is unregistered for a stream whose reader has gone.
FinalizeReadStream(i) ==
  /\ inv[i].pc \in {"closing", "abandoned"}
  /\ entry' = IF inv[i].pc = "abandoned" THEN entry ELSE Without(TokenOf(i))
  /\ inv' = IF inv[i].pc = "abandoned" THEN End(i, "over") ELSE At(i, "leaving")
  /\ UNCHANGED <<guard, ctl, sweep, history, tried, late>>

\* on_finalized unregisters whether or not the outcome could be stored.
Finalize(i) ==
  /\ inv[i].pc \in {"closing", "abandoned"}
  /\ entry' = Without(TokenOf(i))
  /\ inv' = IF inv[i].pc = "abandoned" THEN End(i, "over") ELSE At(i, "leaving")
  /\ UNCHANGED <<guard, ctl, sweep, history, tried, late>>

\* session_not_found: the request is prepared again under the same guard key,
\* which it keeps, and gets a new token.
RecoverSession(i) ==
  /\ inv[i].pc = "leaving"
  /\ inv[i].kind = "call"
  /\ inv[i].attempt < MaxAttempts
  /\ inv' = At(i, "recovering")
  /\ UNCHANGED <<guard, entry, ctl, sweep, history, tried, late>>

RetryAttempt(i) ==
  /\ inv[i].pc = "recovering"
  /\ inv' = [inv EXCEPT ![i].pc = "prepared", ![i].attempt = @ + 1, ![i].seen = 0]
  /\ UNCHANGED <<guard, entry, ctl, sweep, history, tried, late>>

Leave(i) ==
  /\ inv[i].pc = "leaving"
  /\ inv' = End(i, "over")
  /\ guard' = KeyReleased(i)
  /\ UNCHANGED <<entry, ctl, sweep, history, tried, late>>

-----------------------------------------------------------------------------
(* Controls *)

\* cancel_session. (A request to interrupt without a message would be a second
\* kind of control, but the invoke route refuses every empty query before it.)
ControlRequest(c) ==
  /\ ctl[c].pc = "idle"
  /\ List(c)
  /\ UNCHANGED <<guard, history, tried>>

\* Mutant: the walk waits for the invocation it cancels to be registered.
ControlCancelOfRegistered(c, outcome) ==
  /\ ctl[c].pc = "sweeping"
  /\ Current(sweep[c].todo).token \in Registered
  /\ CancelReturns(c, outcome)

ControlCancelReturns(c, outcome) ==
  /\ ctl[c].pc = "sweeping"
  /\ CancelReturns(c, outcome)

-----------------------------------------------------------------------------
(* Specification *)

Advance(i) ==
  \/ Prepare(i) \/ Register(i)
  \/ NoteRead(i) \/ NoteWrite(i) \/ NoteFails(i)
  \/ Finalize(i) \/ Leave(i)
  \/ \E outcome \in Outcomes :
       InvokeCancelReturns(i, outcome) \/ DeferredReturns(i, outcome)

Invoke(i) ==
  \/ \E kind \in InvokeKinds, key \in Keys \cup {NoKey}, preempt, resume \in BOOLEAN :
       BeginAttempt(i, kind, key, preempt, resume)
  \/ PrepareFails(i)
  \/ ReplayEnds(i) \/ ReplayAborted(i) \/ TaskSeen(i)
  \/ InvokeEnds(i) \/ Abandon(i)
  \/ RecoverSession(i) \/ RetryAttempt(i)
  \/ Advance(i)

RegNext ==
  \/ \E i \in Invokes : Invoke(i)
  \/ \E c \in Controls :
       \/ ControlRequest(c)
       \/ \E outcome \in Outcomes : ControlCancelReturns(c, outcome)

RegSpec == RegInit /\ [][RegNext]_regVars

\* Every call of an agent or of the database ends (they have timeouts), and so
\* does every stream of a background job (total timeout). Nothing makes a
\* client's stream end.
RegFairness ==
  /\ \A i \in Invokes :
       /\ WF_regVars(Advance(i))
       /\ WF_regVars(inv[i].kind = "job" /\ InvokeEnds(i))
  /\ \A c \in Controls :
       WF_regVars(\E outcome \in Outcomes : ControlCancelReturns(c, outcome))

RegFairSpec == RegSpec /\ RegFairness

-----------------------------------------------------------------------------
(* Properties *)

\* The guard of a query is held exactly while one invocation with that query,
\* other than a background job, is between its acceptance and its end: no path
\* through failures, retries, vanished readers or failed interruptions keeps a
\* key or lets two in (guard.py, route_runner_routes.py:220-280).
Holders(k) ==
  {i \in Invokes : inv[i].pc \in Guarded /\ inv[i].key = k}

GuardMatchesHolders ==
  \A k \in Keys :
    /\ guard[k] = 0 => Holders(k) = {}
    /\ guard[k] = 1 => \E i \in Invokes : Holders(k) = {i}

\* Every entry of the registry is the current attempt of an invocation that
\* still runs, except for SSE streams abandoned in their replay; and every
\* running invocation is in the registry until a cancel was tried for it. A
\* cancel that returns late must not hit a later attempt.
RegistryMatchesRuns ==
  /\ \A t \in Registered : /\ t = TokenOf(t[1])
                           /\ inv[t[1]].pc \in Running \cup {"gone"}
  /\ \A i \in Invokes :
       inv[i].pc \in Running /\ TokenOf(i) \notin tried => TokenOf(i) \in Registered

\* The cancel of an entry marked before its task was known is sent when the
\* task is bound (inflight_service.py:125-141), unless the stream ends first.
DeferredCancelSent ==
  \A t \in Registered \ late :
    entry[t].cancel /\ entry[t].task > 0
      => t \in tried \/ inv[t[1]].pc \in {"deferring", "closing"}

\* Every cancel request is answered, whatever binds and ends meanwhile.
ControlAnswered ==
  \A c \in Controls : ctl[c].pc = "sweeping" ~> ctl[c].pc = "answered"

\* A background invocation leaves the registry, and an abandoned stream too.
BackgroundUnregisters ==
  \A i \in Invokes :
    inv[i].pc \in Running /\ (inv[i].kind = "job" \/ inv[i].pc = "abandoned")
      ~> TokenOf(i) \notin Registered

\* Claimed by tests/sessions/test_session_hub_service_interrupts.py:433
\* (a pending cancel is sent once the task is bound): an entry with a cancel
\* request and a task has had its cancel sent.
AcceptedCancelSent ==
  \A t \in Registered :
    entry[t].cancel /\ entry[t].task > 0
      => t \in tried \/ inv[t[1]].pc \in {"deferring", "closing", "abandoned", "gone"}

=============================================================================
