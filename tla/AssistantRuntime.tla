-------------------------- MODULE AssistantRuntime --------------------------
(***************************************************************************)
(* One conversation with the Hub Assistant: its runs, the write operations *)
(* they may use, and the user's answers to requests for more of them       *)
(* (hub_assistant/service.py, swival_runtime.py, persistence.py).  The     *)
(* runs share the state of the conversation in memory, under its lock; the *)
(* requests, their answers and the messages are rows, written in one       *)
(* transaction per request.  An approved request is continued by a durable *)
(* task, of whose life HubAssistantTasks is the model; here it is run, and *)
(* perhaps run again after a crash or a lapse.                             *)
(***************************************************************************)
EXTENDS Naturals, FiniteSets

CONSTANTS
  Ops,            \* write operations that need approval
  Runs,           \* runs in progress: messages of the user, follow-ups, continuations
  Permissions,    \* permission requests
  Repliers,       \* replies of the user's tabs
  NoPermission, NoOne,
  MaxStates,      \* bound on the states in memory, one after the other
  MaxTurns        \* bound on the runs

ASSUME AssistantAssumption ==
  /\ NoPermission \notin Permissions /\ NoOne \notin Runs
  /\ MaxStates \in Nat /\ MaxTurns \in Nat

VARIABLES
  memory,      \* memory[g]: a ConversationRuntimeState; of its session, the operations
  registered,  \* the registered one, 0 for none
  lastState,   \* the last one created
  lock,        \* lock[g]: the run that holds the state
  exec,        \* exec[r]: what a run knows
  ask,         \* ask[q]: a permission request and its resolution
  task,        \* task[q]: the continuation of the request
  message,     \* message[q]: status of the message of the continuation
  answer,      \* answer[p]: a reply in progress
  runsLeft,    \* runs that may still be started
  once,        \* history: operations of the requests answered "once"
  standing,    \* history: what was granted in any way when "always" was last answered
  opened,      \* history: a run was started with all write tools
  unsaved      \* history: requests whose failed continuation could not be recorded

assistantVars ==
  <<memory, registered, lastState, lock, exec, ask, task, message, answer, runsLeft,
    once, standing, opened, unsaved>>

States == 1 .. MaxStates
Blank == [delegated |-> {}, auto |-> {}]
NoAsk == [stage |-> "free", ops |-> {}, resolution |-> "none", expired |-> FALSE]
IdleRun == [pc |-> "idle", for |-> NoPermission, state |-> 0, allow |-> FALSE, approved |-> {},
            allowed |-> {}, enabled |-> FALSE, wants |-> {}]
IdleAnswer == [pc |-> "idle", to |-> NoPermission, reply |-> "once", state |-> 0, approved |-> {},
               seen |-> FALSE]

AssistantInit ==
  /\ memory = [g \in States |-> Blank]
  /\ registered = 0 /\ lastState = 0
  /\ lock = [g \in States |-> NoOne]
  /\ exec = [r \in Runs |-> IdleRun]
  /\ ask = [q \in Permissions |-> NoAsk]
  /\ task = [q \in Permissions |-> [status |-> "absent", approved |-> {}]]
  /\ message = [q \in Permissions |-> "none"]
  /\ answer = [p \in Repliers |-> IdleAnswer]
  /\ runsLeft = MaxTurns
  /\ once = {} /\ standing = {} /\ opened = FALSE /\ unsaved = {}

Rows == <<ask, task, message, unsaved>>
Grants == <<once, standing, opened>>

-----------------------------------------------------------------------------
(***************************************************************************)
(* The states in memory.                                                   *)
(***************************************************************************)
\* get_conversation_runtime_state: the registered state, or a new one.
Found(g) ==
  \/ registered # 0 /\ g = registered /\ UNCHANGED <<registered, lastState>>
  \/ /\ registered = 0 /\ lastState < MaxStates /\ g = lastState + 1
     /\ lastState' = g /\ registered' = g

\* cleanup_expired_conversations: the time to live is over, also of a state whose lock
\* is held; whoever holds it goes on with the state that is no longer registered.
Forget ==
  /\ registered # 0
  /\ registered' = 0
  /\ UNCHANGED <<memory, lastState, lock, exec, Rows, answer, runsLeft, Grants>>

Restart ==
  /\ memory' = [g \in States |-> Blank]
  /\ registered' = 0
  /\ lock' = [g \in States |-> NoOne]
  /\ exec' = [r \in Runs |-> IdleRun]
  /\ answer' = [p \in Repliers |-> IdleAnswer]
  /\ UNCHANGED <<lastState, Rows, runsLeft, Grants>>

-----------------------------------------------------------------------------
(***************************************************************************)
(* A run.                                                                  *)
(***************************************************************************)
BeginRun(r, g, q, allow, approved) ==
  /\ exec[r].pc = "idle" /\ runsLeft > 0
  /\ runsLeft' = runsLeft - 1
  /\ Found(g)
  /\ exec' = [exec EXCEPT ![r] = [IdleRun EXCEPT !.pc = "lock", !.for = q, !.state = g,
                                  !.allow = allow, !.approved = approved]]
  /\ UNCHANGED <<memory, lock, ask, message, answer, once, standing, unsaved>>

\* A message of the user, or a follow-up of the tracked conversations (never with allow).
StartTurn(r, g, allow) ==
  /\ BeginRun(r, g, NoPermission, allow, {})
  /\ opened' = (opened \/ allow)
  /\ UNCHANGED task

StartContinuation(r, g, q) ==
  /\ task[q].status = "waiting"
  /\ task' = [task EXCEPT ![q].status = "running"]
  /\ BeginRun(r, g, q, TRUE, task[q].approved)
  /\ UNCHANGED opened

\* The run's process is gone or takes too long: the task is to be run again.
Lapse(q) ==
  /\ task[q].status = "running"
  /\ task' = [task EXCEPT ![q].status = "waiting"]
  /\ UNCHANGED <<memory, registered, lastState, lock, exec, ask, message, answer, runsLeft,
                 Grants, unsaved>>

Allowed(r, auto) ==
  IF exec[r].approved # {} THEN exec[r].approved
  ELSE IF exec[r].allow THEN Ops ELSE auto

\* The session, whose token names the operations, is made anew when they differ.
Acquire(r) ==
  LET g == exec[r].state
      allowed == Allowed(r, memory[g].auto)
  IN  /\ exec[r].pc = "lock" /\ lock[g] = NoOne
      /\ lock' = [lock EXCEPT ![g] = r]
      /\ memory' = [memory EXCEPT ![g].delegated = allowed]
      /\ exec' = [exec EXCEPT ![r].pc = "ask", ![r].allowed = allowed,
                            ![r].enabled = exec[r].allow \/ allowed # {}]
      /\ UNCHANGED <<registered, lastState, Rows, answer, runsLeft, Grants>>

WithoutSession(state) == [state EXCEPT !.delegated = {}]

\* The answer of the model; it may ask for operations that are not allowed yet.
RunAnswers(r, wants) ==
  LET g == exec[r].state IN
  /\ exec[r].pc = "ask"
  /\ wants \cap exec[r].allowed = {}
  /\ lock' = [lock EXCEPT ![g] = NoOne]
  /\ exec' = [exec EXCEPT ![r].pc = "store", ![r].wants = wants]
  /\ UNCHANGED <<memory, registered, lastState, Rows, answer, runsLeft, Grants>>

\* Making the session fails (it stays as it was), asking fails, or the answer asks for
\* nothing or for what is allowed: the session is dropped.  The failure of a turn is
\* the user's answer; a continuation stores it.
RunFails(r) ==
  LET g == exec[r].state IN
  /\ \/ exec[r].pc = "lock" /\ lock[g] = NoOne /\ UNCHANGED <<memory, lock>>
     \/ /\ exec[r].pc = "ask"
        /\ memory' = [memory EXCEPT ![g] = WithoutSession(@)]
        /\ lock' = [lock EXCEPT ![g] = NoOne]
  /\ exec' = [exec EXCEPT ![r] = IF @.for = NoPermission THEN IdleRun ELSE [@ EXCEPT !.pc = "error"]]
  /\ UNCHANGED <<registered, lastState, Rows, answer, runsLeft, Grants>>

\* Mutant: a message that ends is left to the poll of the browser.
EndsLater(q, status) == [message EXCEPT ![q] = IF status = "error" THEN @ ELSE status]
Ends(q, status) == [message EXCEPT ![q] = status]

\* The turn, with the request it ends in, is committed.
StoreTurn(r, q) ==
  LET wants == exec[r].wants IN
  /\ exec[r].pc = "store"
  /\ IF wants = {} THEN q = NoPermission ELSE q \in Permissions /\ ask[q].stage = "free"
  /\ ask' = [i \in Permissions |->
       IF i = q THEN [NoAsk EXCEPT !.stage = "asked", !.ops = wants] ELSE ask[i]]
  /\ IF exec[r].for = NoPermission
       THEN /\ exec' = [exec EXCEPT ![r] = IdleRun]
            /\ UNCHANGED message
       ELSE /\ message' = Ends(exec[r].for, IF wants = {} THEN "done" ELSE "interrupted")
            /\ exec' = [exec EXCEPT ![r].pc = "complete"]
  /\ UNCHANGED <<memory, registered, lastState, lock, task, answer, runsLeft, Grants, unsaved>>

StoreFails(r) ==
  /\ exec[r].pc = "store"
  /\ exec' = [exec EXCEPT ![r] = IF @.for = NoPermission THEN IdleRun ELSE [@ EXCEPT !.pc = "error"]]
  /\ UNCHANGED <<memory, registered, lastState, lock, Rows, answer, runsLeft, Grants>>

\* The handler stores the failure in the session of the run, which may be broken.
StoreError(r, saved) ==
  LET q == exec[r].for IN
  /\ exec[r].pc = "error"
  /\ message' = IF saved THEN Ends(q, "error") ELSE message
  /\ unsaved' = IF saved THEN unsaved ELSE unsaved \cup {q}
  /\ exec' = [exec EXCEPT ![r].pc = "fail"]
  /\ UNCHANGED <<memory, registered, lastState, lock, ask, task, answer, runsLeft, Grants>>

\* complete_task and fail_task, whatever the status of the row.
SettleTask(r) ==
  LET q == exec[r].for IN
  /\ \/ exec[r].pc = "complete" /\ task' = [task EXCEPT ![q].status = "completed"]
     \/ exec[r].pc = "fail" /\ task' = [task EXCEPT ![q].status = "failed"]
  /\ exec' = [exec EXCEPT ![r] = IdleRun]
  /\ UNCHANGED <<memory, registered, lastState, lock, ask, message, answer, runsLeft, Grants, unsaved>>

\* complete_task raises and fail_task follows, or that raises too.
SettleFails(r) ==
  /\ exec[r].pc \in {"complete", "fail"}
  /\ exec' = [exec EXCEPT ![r] = IF @.pc = "complete" THEN [@ EXCEPT !.pc = "fail"] ELSE IdleRun]
  /\ UNCHANGED <<memory, registered, lastState, lock, Rows, answer, runsLeft, Grants>>

-----------------------------------------------------------------------------
(***************************************************************************)
(* The user's answer.                                                      *)
(***************************************************************************)
\* A tab shows the request, perhaps after another one has answered it.
BeginAnswer(p, q, reply, g) ==
  /\ answer[p].pc = "idle"
  /\ ask[q].stage = "asked" /\ ~ask[q].expired
  /\ IF reply = "reject" THEN g = 0 /\ UNCHANGED <<registered, lastState>> ELSE Found(g)
  /\ answer' = [answer EXCEPT ![p] =
       [IdleAnswer EXCEPT !.pc = IF reply = "reject" THEN "event" ELSE "lock",
                          !.to = q, !.reply = reply, !.state = g]]
  /\ UNCHANGED <<memory, lock, exec, Rows, runsLeft, Grants>>

Approved(state, requested) == state.auto \cup state.delegated \cup requested

\* Mutant: whatever is approved stays approved.
AutoAfterAny(reply, approved, auto) == approved
AutoAfter(reply, approved, auto) == IF reply = "always" THEN approved ELSE auto

\* "always" makes the operations of its request standing, and with them those that an
\* earlier "once" has left in the session.
Grant(p) ==
  LET g == answer[p].state
      requested == ask[answer[p].to].ops
      approved == Approved(memory[g], requested)
  IN  /\ answer[p].pc = "lock" /\ lock[g] = NoOne
      /\ memory' = [memory EXCEPT ![g].auto = AutoAfter(answer[p].reply, approved, @)]
      /\ answer' = [answer EXCEPT ![p].pc = "event", ![p].approved = approved]
      /\ IF answer[p].reply = "always"
           THEN standing' = standing \cup once \cup requested /\ UNCHANGED once
           ELSE once' = once \cup requested /\ UNCHANGED standing
      /\ UNCHANGED <<registered, lastState, lock, exec, Rows, runsLeft, opened>>

\* The event of the resolution is inserted, or updated when it is found.
FindEvent(p) ==
  /\ answer[p].pc = "event"
  /\ answer' = [answer EXCEPT ![p].pc = "commit",
                              ![p].seen = ask[answer[p].to].resolution # "none"]
  /\ UNCHANGED <<memory, registered, lastState, lock, exec, Rows, runsLeft, Grants>>

\* The event, the message and the task, unless there is one, are committed.  The
\* message of a repeated answer is another one, which nothing will continue.
CommitAnswer(p) ==
  LET q == answer[p].to IN
  /\ answer[p].pc = "commit"
  /\ answer[p].seen \/ ask[q].resolution = "none"
  /\ ask' = [ask EXCEPT ![q].resolution = IF answer[p].reply = "reject" THEN "rejected"
                                          ELSE "replied"]
  /\ IF answer[p].reply # "reject" /\ task[q].status = "absent"
       THEN /\ task' = [task EXCEPT ![q] = [status |-> "waiting", approved |-> answer[p].approved]]
            /\ message' = [message EXCEPT ![q] = "streaming"]
       ELSE UNCHANGED <<task, message>>
  /\ answer' = [answer EXCEPT ![p] = IdleAnswer]
  /\ UNCHANGED <<memory, registered, lastState, lock, exec, runsLeft, Grants, unsaved>>

\* Two insertions of one event, or the database: the transaction is rolled back, not
\* what was approved in memory.
AnswerFails(p) ==
  /\ answer[p].pc # "idle"
  /\ answer' = [answer EXCEPT ![p] = IdleAnswer]
  /\ UNCHANGED <<memory, registered, lastState, lock, exec, Rows, runsLeft, Grants>>

ExpireAsk(q) ==
  /\ ask[q].stage = "asked" /\ ~ask[q].expired
  /\ ask' = [ask EXCEPT ![q].expired = TRUE]
  /\ UNCHANGED <<memory, registered, lastState, lock, exec, task, message, answer, runsLeft,
                 Grants, unsaved>>

\* recover_pending_permission_interrupts: what is pending is shown, what has expired is
\* resolved as such.
ShowPending ==
  LET lost == {q \in Permissions : ask[q].stage = "asked" /\ ask[q].resolution = "none"
                                  /\ ask[q].expired} IN
  /\ lost # {}
  /\ ask' = [q \in Permissions |-> IF q \in lost THEN [ask[q] EXCEPT !.resolution = "expired"] ELSE ask[q]]
  /\ UNCHANGED <<memory, registered, lastState, lock, exec, task, message, answer, runsLeft,
                 Grants, unsaved>>

AssistantNext ==
  \/ Forget \/ Restart \/ ShowPending
  \/ \E r \in Runs :
       \/ \E g \in States :
            \/ \E allow \in BOOLEAN : StartTurn(r, g, allow)
            \/ \E q \in Permissions : StartContinuation(r, g, q)
       \/ Acquire(r) \/ RunFails(r)
       \/ \E wants \in SUBSET Ops : RunAnswers(r, wants)
       \/ \E q \in Permissions \cup {NoPermission} : StoreTurn(r, q)
       \/ StoreFails(r) \/ SettleTask(r) \/ SettleFails(r)
       \/ \E saved \in BOOLEAN : StoreError(r, saved)
  \/ \E q \in Permissions : Lapse(q) \/ ExpireAsk(q)
  \/ \E p \in Repliers :
       \/ \E q \in Permissions, reply \in {"once", "always", "reject"}, g \in States \cup {0} :
            BeginAnswer(p, q, reply, g)
       \/ Grant(p) \/ FindEvent(p) \/ CommitAnswer(p) \/ AnswerFails(p)

AssistantSpec == AssistantInit /\ [][AssistantNext]_assistantVars

-----------------------------------------------------------------------------
AssistantTypeOK ==
  /\ memory \in [States -> [delegated: SUBSET Ops, auto: SUBSET Ops]]
  /\ registered \in 0 .. lastState /\ lastState \in 0 .. MaxStates
  /\ lock \in [States -> Runs \cup {NoOne}]
  /\ \A r \in Runs : exec[r].allowed \subseteq Ops /\ exec[r].for \in Permissions \cup {NoPermission}
  /\ \A q \in Permissions :
       /\ ask[q].resolution \in {"none", "replied", "rejected", "expired"}
       /\ task[q].status \in {"absent", "waiting", "running", "completed", "failed"}
       /\ message[q] \in {"none", "streaming", "done", "interrupted", "error"}
  /\ runsLeft \in 0 .. MaxTurns

\* Unless the user has started a run with all write tools: a session or a continuation has
\* only operations for which the user has said "once" or "always", and a turn that nobody
\* approves, like what is approved for such turns, only those that were granted when
\* "always" was last answered. What is granted once and followed by no "always" stays with
\* continuations, however answers, runs, repeated continuations, lost states and expiries
\* follow one another (service.py:281-312 and 515-524, swival_runtime.py:115-141).
NothingUngranted ==
  ~opened =>
    /\ \A g \in States :
         memory[g].auto \subseteq standing /\ memory[g].delegated \subseteq once \cup standing
    /\ \A r \in Runs :
         exec[r].allowed \subseteq IF exec[r].for = NoPermission THEN standing ELSE once \cup standing

\* The message of a continuation that has ended is no longer shown as being written,
\* unless its failure could not be stored (service.py:699-767, task_job.py:83-112).
ContinuationSettled ==
  \A q \in Permissions \ unsaved :
    task[q].status \in {"completed", "failed"} => message[q] # "streaming"

=============================================================================
