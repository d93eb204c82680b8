------------------------ MODULE ScheduleRuns_proofs ------------------------
(***************************************************************************)
(* Safety of ScheduleRuns for every number of tasks, runs, agents,         *)
(* workers, dispatchers and API sessions, every limit and every quota.     *)
(*                                                                         *)
(* The safety properties lean on each other and on facts about the         *)
(* processes' private state (who holds which row lock, what a loaded copy  *)
(* of a task may differ in from its row). IInv is their conjunction; each  *)
(* conjunct has a lemma that a step preserves it.                          *)
(*                                                                         *)
(* The last two sections are about counts. The quota of active schedules   *)
(* is kept exactly, because the count and the write it permits happen      *)
(* under one lock; the global limit of running executions, whose count and *)
(* claim share no lock, can be exceeded by one claim per worker but the    *)
(* first, never by more.                                                   *)
(***************************************************************************)
EXTENDS ScheduleRuns, FiniteSetTheorems, TLAPS

-----------------------------------------------------------------------------
(* The inductive invariant *)

\* Whoever works on a run has one, and runs in use belong to existing tasks.
Assigned ==
  /\ \A w \in Workers : worker[w].pc \notin {"idle", "counted"} => worker[w].run \in Runs
  /\ \A d \in Dispatchers : disp[d].pc = "recovering" => disp[d].run \in Runs
  /\ \A r \in Runs : run[r].status # "unused" =>
       run[r].task \in Tasks /\ task[run[r].task].life # "absent"
  /\ \A t \in Tasks : task[t].life = "absent" => task[t].fails = 0

\* A request on a task holds the row lock of a live task, alone.
Requests ==
  /\ \A s \in Sessions : api[s].op \in {"update", "toggle", "delete", "fail"} =>
       api[s].task \in Tasks /\ task[api[s].task].life = "live"
  /\ \A s \in Sessions : api[s].op \in {"none", "create"} => api[s].task = None
  /\ \A s, u \in Sessions :
       /\ api[s].op # "none"
       /\ api[s].task = api[u].task
       /\ api[s].task # None
       => s = u

\* What a request has seen of its task is still so when it commits.
Sights ==
  \A s \in Sessions :
    /\ api[s].op = "update" /\ api[s].saw # "nothing" => ~Running(api[s].task)
    /\ api[s].op = "delete" /\ api[s].saw = "running" => Running(api[s].task)
    /\ api[s].op = "delete" /\ api[s].saw = "idle" => ~Running(api[s].task)

Held(w) == worker[w].pc \in {"selected", "locked"}

Recovering(d) == disp[d].pc = "recovering"

\* The row lock of a run has one holder, who knows its status.
Locks ==
  /\ \A w \in Workers : worker[w].pc = "selected" => run[worker[w].run].status = "pending"
  /\ \A w \in Workers : worker[w].pc = "locked" => run[worker[w].run].status = "running"
  /\ \A d \in Dispatchers : Recovering(d) => run[disp[d].run].status = "running"
  /\ \A v, w \in Workers : Held(v) /\ Held(w) /\ worker[v].run = worker[w].run => v = w
  /\ \A c, d \in Dispatchers :
       Recovering(c) /\ Recovering(d) /\ disp[c].run = disp[d].run => c = d
  /\ \A w \in Workers, d \in Dispatchers :
       Held(w) /\ Recovering(d) => worker[w].run # disp[d].run

\* An executed run has been started: nobody can claim it again.
Started ==
  \A w \in Workers :
    Executing(w) => run[worker[w].run].status \in {"running", "success", "failed"}

\* While a run is active, next_run_at is set only for an enabled task; a task
\* with fixed intervals has it set whenever it is enabled.
Armed ==
  /\ \A t \in Tasks : Active(t) /\ task[t].armed => task[t].enabled
  /\ \A t \in Tasks : task[t].life = "live" /\ task[t].enabled /\ ~task[t].sequential
                        => task[t].armed

\* What a finalizing worker has loaded is what the row was at some moment of
\* this run. Since then, only a toggle or a deletion can have changed it.
Copied(loaded, current) ==
  /\ loaded.fails = current.fails
  /\ loaded.sequential = current.sequential
  /\ loaded.armed => loaded.enabled
  /\ loaded.life = "deleting" => current.life = "deleting"
  /\ \/ current.armed = current.enabled
     \/ current.armed = loaded.armed /\ current.enabled = loaded.enabled

Copies ==
  \A w \in Workers :
    /\ worker[w].pc \in {"decided", "locked"}
    /\ run[worker[w].run].status = "running"
    => Copied(worker[w].seen, task[MyTask(w)])

IInv ==
  /\ TypeOK
  /\ Assigned
  /\ Requests
  /\ Sights
  /\ Locks
  /\ Started
  /\ OneActiveRun
  /\ OneExecutor
  /\ RunningIsRecoverable
  /\ Armed
  /\ Copies
  /\ NoLostSchedule

-----------------------------------------------------------------------------
(* Type correctness *)

\* A request touches no process but its own session, and no run but the one
\* it fails.
LEMMA ServeFrame ==
  ASSUME TypeOK, NEW s \in Sessions, Serve(s)
  PROVE  /\ UNCHANGED <<worker, disp, leader>>
         /\ UNCHANGED run \/ \E r \in Runs : FailManually(s, r)
         /\ \A x \in Sessions \ {s} : api'[x] = api[x]
  <1> DEFINE Frame == /\ UNCHANGED <<worker, disp, leader>>
                      /\ UNCHANGED run \/ \E r \in Runs : FailManually(s, r)
                      /\ \A x \in Sessions \ {s} : api'[x] = api[x]
  <1>0. api \in [Sessions -> ApiState]
    BY DEF TypeOK
  <1>1. ASSUME Reply(s) PROVE \A x \in Sessions \ {s} : api'[x] = api[x]
    BY <1>0, <1>1 DEF Reply
  <1>2. CASE BeginCreate(s) \/ \E op \in {"update", "toggle", "delete", "fail"}, t \in Tasks :
                                 BeginRequest(s, op, t)
    BY <1>0, <1>2 DEF BeginCreate, BeginRequest
  <1>3. CASE CheckQuota(s) \/ CheckRunning(s)
    BY <1>0, <1>3 DEF CheckQuota, CheckRunning
  <1>4. CASE RequestError(s) \/ Delete(s) \/ \E enabled \in BOOLEAN : SetEnabled(s, enabled)
    BY <1>1, <1>4 DEF RequestError, Delete, SetEnabled
  <1>5. ASSUME NEW t \in Tasks, NEW sequential \in BOOLEAN, NEW agent \in Agents,
               CreateEnabled(s, t, sequential, agent) \/ CreateDisabled(s, t, sequential, agent)
        PROVE  Frame
    BY <1>1, <1>5 DEF CreateEnabled, CreateDisabled
  <1>6. ASSUME NEW enable \in {"keep", "on", "off"}, NEW rescheduled \in BOOLEAN,
               NEW sequential \in BOOLEAN, NEW agent \in Agents,
               Update(s, enable, rescheduled, sequential, agent)
        PROVE  Frame
    BY <1>1, <1>6 DEF Update
  <1>7. ASSUME NEW r \in Runs, FailManually(s, r) PROVE Frame
    BY <1>1, <1>7 DEF FailManually
  <1> QED
    BY <1>2, <1>3, <1>4, <1>5, <1>6, <1>7 DEF Serve

LEMMA BlankTypes == BlankRow \in TaskRow /\ UnusedRun \in RunRow /\ IdleWorker \in WorkerState
  <1>1. (CHOOSE a \in Agents : TRUE) \in Agents
    BY AgentsAssumption
  <1> QED
    BY <1>1 DEF BlankRow, TaskRow, UnusedRun, RunRow, IdleWorker, WorkerState

\* The row a terminal projection leaves is a row of the table.
LEMMA ProjectionType ==
  ASSUME NEW current \in TaskRow, NEW loaded \in TaskRow, NEW outcome \in {"success", "failed"}
  PROVE  Projection(current, loaded, outcome) \in TaskRow
  <1>1. FailureThreshold \in Nat
    BY LimitsAssumption
  <1>2. FailsAfter(loaded, outcome) \in Nat
    BY DEF FailsAfter, TaskRow
  <1>3. EnabledAfter(loaded, outcome) \in BOOLEAN
    BY <1>1, <1>2 DEF EnabledAfter, TaskRow
  <1>4. \A new, old, now : Written(old, new, now) \in {new, now}
    BY DEF Written
  <1> DEFINE fails == Written(loaded.fails, FailsAfter(loaded, outcome), current.fails)
             enabled == Written(loaded.enabled, EnabledAfter(loaded, outcome), current.enabled)
             disarmed == Written(loaded.armed, FALSE, current.armed)
  <1>5. fails \in Nat /\ enabled \in BOOLEAN /\ disarmed \in BOOLEAN
    <2>1. fails \in {FailsAfter(loaded, outcome), current.fails}
      BY <1>4
    <2>2. enabled \in {EnabledAfter(loaded, outcome), current.enabled}
      BY <1>4
    <2>3. disarmed \in {FALSE, current.armed}
      BY <1>4
    <2> QED
      BY <2>1, <2>2, <2>3, <1>2, <1>3 DEF TaskRow
  <1> HIDE DEF fails, enabled, disarmed
  <1>6. Projection(current, loaded, outcome) =
          [current EXCEPT
             !.fails = fails,
             !.enabled = enabled,
             !.life = IF loaded.life = "deleting" THEN "deleted" ELSE current.life,
             !.armed = IF ~EnabledAfter(loaded, outcome) THEN disarmed
                       ELSE loaded.sequential \/ current.armed]
    BY DEF Projection, fails, enabled, disarmed
  <1> QED
    BY <1>3, <1>5, <1>6 DEF TaskRow

LEMMA SettleType ==
  ASSUME TypeOK, NEW r \in Runs, run[r].task \in Tasks,
         NEW outcome \in {"success", "failed"}, NEW loaded \in TaskRow,
         Settle(r, outcome, loaded)
  PROVE  task' \in [Tasks -> TaskRow] /\ run' \in [Runs -> RunRow]
  <1>1. Projection(task[run[r].task], loaded, outcome) \in TaskRow
    BY ProjectionType DEF TypeOK
  <1>2. [run[r] EXCEPT !.status = outcome, !.age = "fresh"] \in RunRow
    BY DEF TypeOK, RunRow
  <1> QED
    BY <1>1, <1>2 DEF Settle, TypeOK

LEMMA EnqueueType ==
  ASSUME TypeOK, NEW d \in Dispatchers,
         NEW batch \in SUBSET Tasks, NEW newRun \in [batch -> Runs],
         Enqueue(d, batch, newRun)
  PROVE  TypeOK'
  <1>1. task' \in [Tasks -> TaskRow]
    <2>1. \A t \in Tasks : [task[t] EXCEPT !.armed = ~task[t].sequential] \in TaskRow
      BY DEF TypeOK, TaskRow
    <2> QED
      BY <2>1 DEF Enqueue, TypeOK
  <1>2. run' \in [Runs -> RunRow]
    <2> SUFFICES ASSUME NEW r \in Runs PROVE run'[r] \in RunRow
      BY DEF Enqueue
    <2>1. CASE \E t \in batch : newRun[t] = r
      <3>1. (CHOOSE t \in batch : newRun[t] = r) \in Tasks
        BY <2>1
      <3> QED
        BY <2>1, <3>1 DEF Enqueue, RunRow
    <2>2. CASE ~\E t \in batch : newRun[t] = r
      BY <2>2 DEF Enqueue, TypeOK
    <2> QED
      BY <2>1, <2>2
  <1> QED
    BY <1>1, <1>2 DEF Enqueue, Release, Off, TypeOK, DispState

LEMMA TypeStep ==
  ASSUME TypeOK, Assigned, Requests, Locks, Started, [Next]_vars
  PROVE  TypeOK'
  <1> USE DEF TypeOK
  <1>1. CASE UNCHANGED vars
    BY <1>1 DEF vars
  <1>2. ASSUME NEW d \in Dispatchers, Dispatch(d) PROVE TypeOK'
    <2>1. CASE RecoverCommit(d)
      <3>1. disp[d].run \in Runs /\ run[disp[d].run].task \in Tasks
        BY <2>1 DEF RecoverCommit, Assigned, Locks, Recovering
      <3>2. task' \in [Tasks -> TaskRow] /\ run' \in [Runs -> RunRow]
        BY <2>1, <3>1, SettleType DEF RecoverCommit
      <3> QED
        BY <2>1, <3>2 DEF RecoverCommit, DispState
    <2>2. CASE \E batch \in SUBSET Tasks \ {{}} : \E newRun \in [batch -> Runs] :
                 Enqueue(d, batch, newRun)
      BY <2>2, EnqueueType
    <2>3. CASE DispatchBegin(d) \/ LeaderLost(d) \/ RecoverRetry(d) \/ RecoverDone(d)
                 \/ RecoverSkip(d) \/ DispatchEnd(d)
      BY <2>3 DEF DispatchBegin, LeaderLost, RecoverRetry, RecoverDone, RecoverSkip,
                  DispatchEnd, Release, Off, DispState
    <2>4. CASE \E r \in Runs : RecoverSelect(d, r)
      BY <2>4 DEF RecoverSelect, DispState
    <2> QED
      BY <1>2, <2>1, <2>2, <2>3, <2>4 DEF Dispatch
  <1>3. ASSUME NEW r \in Runs, HeartbeatLapse(r) \/ Overdue(r) PROVE TypeOK'
    BY <1>3 DEF HeartbeatLapse, Overdue, RunRow
  <1>4. ASSUME NEW w \in Workers,
               Claim(w) \/ Execute(w) \/ Heartbeat(w) \/ Finalize(w) \/ WorkerStop(w)
        PROVE  TypeOK'
    <2>1. IdleWorker \in WorkerState /\ BlankRow \in TaskRow
      BY BlankTypes
    <2>2. worker[w].pc \notin {"idle", "counted"} => worker[w].run \in Runs
      BY DEF Assigned
    <2>3. ASSUME GoIdle(w) PROVE worker' \in [Workers -> WorkerState]
      BY <2>1, <2>3 DEF GoIdle
    <2>4. ASSUME Except(w) PROVE worker' \in [Workers -> WorkerState]
      BY <2>1, <2>4 DEF Except, WorkerState
    <2>5. CASE Claim(w)
      <3>1. CASE ClaimNothing(w) \/ ClaimConflict(w)
        BY <3>1, <2>3 DEF ClaimNothing, ClaimConflict
      <3>2. CASE ClaimReject(w)
        BY <3>2, <2>2, <2>3 DEF ClaimReject, RunRow
      <3>3. CASE ClaimStart(w)
        <4>0. worker[w].run \in Runs /\ run[worker[w].run] \in RunRow
          BY <3>3, <2>2 DEF ClaimStart
        <4>1. [run[worker[w].run] EXCEPT !.status = "running", !.age = "fresh"] \in RunRow
          BY <4>0 DEF RunRow
        <4>2. [worker[w] EXCEPT !.pc = "claimed"] \in WorkerState
          BY DEF WorkerState
        <4> QED
          BY <3>3, <4>0, <4>1, <4>2 DEF ClaimStart, Goto
      <3>4. CASE ClaimCount(w) \/ \E r \in Runs : ClaimSelect(w, r)
        BY <3>4 DEF ClaimCount, ClaimSelect, Goto, WorkerState
      <3> QED
        BY <2>5, <3>1, <3>2, <3>3, <3>4 DEF Claim
    <2>6. CASE Execute(w)
      <3>1. CASE PrepareSkip(w) \/ OpenSessionGone(w) \/ ExecuteError(w)
        BY <3>1, <2>3, <2>4 DEF PrepareSkip, OpenSessionGone, ExecuteError
      <3>2. CASE PrepareDisabled(w)
        <4>1. task[MyTask(w)] \in TaskRow
          BY <3>2, <2>2 DEF PrepareDisabled, StillRunning, Assigned, MyTask
        <4>2. [worker[w] EXCEPT !.pc = "decided", !.outcome = "failed", !.seen = task[MyTask(w)]]
                \in WorkerState
          BY <4>1 DEF WorkerState
        <4> QED
          BY <3>2, <4>2 DEF PrepareDisabled
      <3>3. CASE Prepare(w) \/ OpenSession(w)
                   \/ \E outcome \in {"success", "failed"} : InvokeReturn(w, outcome)
        BY <3>3 DEF Prepare, OpenSession, InvokeReturn, Goto, WorkerState
      <3> QED
        BY <2>6, <3>1, <3>2, <3>3 DEF Execute
    <2>7. CASE Heartbeat(w)
      BY <2>7, <2>2 DEF Heartbeat, RunRow
    <2>8. CASE Finalize(w)
      <3>1. CASE FinalRead(w)
        <4>1. task[MyTask(w)] \in TaskRow
          BY <3>1, <2>2 DEF FinalRead, Assigned, Started, Executing, MyTask
        <4>2. [worker[w] EXCEPT !.pc = "decided", !.seen = task[MyTask(w)]] \in WorkerState
          BY <4>1 DEF WorkerState
        <4> QED
          BY <3>1, <4>2 DEF FinalRead
      <3>2. CASE FinalMismatch(w) \/ FinalConflict(w) \/ FinalError(w)
        BY <3>2, <2>3, <2>4 DEF FinalMismatch, FinalConflict, FinalError
      <3>3. CASE FinalLock(w)
        BY <3>3 DEF FinalLock, Goto, WorkerState
      <3>4. CASE FinalCommit(w)
        <4>1. worker[w].run \in Runs /\ run[worker[w].run].task \in Tasks
          BY <3>4, <2>2 DEF FinalCommit, Assigned, Locks
        <4>2. worker[w].outcome \in {"success", "failed"} /\ worker[w].seen \in TaskRow
          BY DEF WorkerState
        <4>3. task' \in [Tasks -> TaskRow] /\ run' \in [Runs -> RunRow]
          BY <3>4, <4>1, <4>2, SettleType DEF FinalCommit
        <4> QED
          BY <3>4, <4>3, <2>3 DEF FinalCommit
      <3> QED
        BY <2>8, <3>1, <3>2, <3>3, <3>4 DEF Finalize
    <2>9. CASE WorkerStop(w)
      BY <2>9, <2>3 DEF WorkerStop
    <2> QED
      BY <1>4, <2>5, <2>6, <2>7, <2>8, <2>9
  <1>5. ASSUME NEW s \in Sessions, Serve(s) PROVE TypeOK'
    <2>1. ASSUME Reply(s) PROVE api' \in [Sessions -> ApiState]
      BY <2>1 DEF Reply, NoRequest, ApiState
    <2>2. api[s].op \in {"update", "toggle", "delete", "fail"} => api[s].task \in Tasks
      BY DEF Requests
    <2>3. CASE BeginCreate(s) \/ \E op \in {"update", "toggle", "delete", "fail"}, t \in Tasks :
                                   BeginRequest(s, op, t)
      BY <2>3 DEF BeginCreate, BeginRequest, ApiState
    <2>4. CASE CheckQuota(s) \/ CheckRunning(s) \/ RequestError(s)
      BY <2>4, <2>1 DEF CheckQuota, CheckRunning, RequestError, ApiState
    <2>5. ASSUME NEW t \in Tasks, NEW sequential \in BOOLEAN, NEW agent \in Agents,
                 CreateEnabled(s, t, sequential, agent) \/ CreateDisabled(s, t, sequential, agent)
          PROVE  TypeOK'
      <3>1. ASSUME NEW enabled \in BOOLEAN, Insert(t, enabled, sequential, agent)
            PROVE  task' \in [Tasks -> TaskRow]
        BY <3>1 DEF Insert, TaskRow
      <3>2. CASE CreateEnabled(s, t, sequential, agent)
        BY <3>2, <3>1, <2>1 DEF CreateEnabled
      <3>3. CASE CreateDisabled(s, t, sequential, agent)
        BY <3>3, <3>1 DEF CreateDisabled
      <3> QED
        BY <2>5, <3>2, <3>3
    <2>6. ASSUME NEW enable \in {"keep", "on", "off"}, NEW rescheduled \in BOOLEAN,
                 NEW sequential \in BOOLEAN, NEW agent \in Agents,
                 Update(s, enable, rescheduled, sequential, agent)
          PROVE  TypeOK'
      <3> DEFINE t == api[s].task
                 enabled == enable = "on" \/ (enable = "keep" /\ task[t].enabled)
      <3>1. [task[t] EXCEPT
               !.enabled = enabled,
               !.sequential = IF rescheduled THEN sequential ELSE task[t].sequential,
               !.agent = agent,
               !.armed = enabled /\ (rescheduled \/ enable = "on" \/ task[t].armed)] \in TaskRow
        <4>1. t \in Tasks /\ task[t] \in TaskRow
          BY <2>6, <2>2 DEF Update
        <4>2. enabled \in BOOLEAN
          BY <2>6, <4>1 DEF TaskRow
        <4> HIDE DEF t, enabled
        <4> QED
          BY <2>6, <4>1, <4>2 DEF TaskRow
      <3> QED
        BY <2>6, <2>1, <3>1 DEF Update
    <2>7. ASSUME NEW enabled \in BOOLEAN, SetEnabled(s, enabled) PROVE TypeOK'
      BY <2>7, <2>1, <2>2 DEF SetEnabled, TaskRow
    <2>8. CASE Delete(s)
      BY <2>8, <2>1, <2>2 DEF Delete, TaskRow
    <2>9. ASSUME NEW r \in Runs, FailManually(s, r) PROVE TypeOK'
      <3>1. run[r].task \in Tasks
        BY <2>9, <2>2 DEF FailManually, Is
      <3>2. task' \in [Tasks -> TaskRow] /\ run' \in [Runs -> RunRow]
        BY <2>9, <3>1, SettleType DEF FailManually, Is
      <3> QED
        BY <2>9, <3>2, <2>1 DEF FailManually
    <2> QED
      BY <1>5, <2>3, <2>4, <2>5, <2>6, <2>7, <2>8, <2>9 DEF Serve
  <1> QED
    BY <1>1, <1>2, <1>3, <1>4, <1>5 DEF Next

-----------------------------------------------------------------------------
(* What a step can do to the tables. Most steps move only the private      *)
(* state of a process; the others are one of the following transactions.   *)

Aging ==
  /\ UNCHANGED task
  /\ \E r \in Runs, age \in {"fresh", "lapsed", "overdue"} :
       run' = [run EXCEPT ![r].age = age]

Queueing ==
  \E d \in Dispatchers, batch \in SUBSET Tasks : \E newRun \in [batch -> Runs] :
    Enqueue(d, batch, newRun)

Launching ==
  /\ UNCHANGED task
  /\ \E r \in Runs :
       /\ run[r].status = "pending"
       /\ Startable(run[r].task)
       /\ run' = [run EXCEPT ![r].status = "running", ![r].age = "fresh"]

Rejecting ==
  /\ UNCHANGED task
  /\ \E r \in Runs :
       /\ run[r].status = "pending"
       /\ ~Startable(run[r].task)
       /\ run' = [run EXCEPT ![r].status = "failed"]

Ending ==
  \E r \in Runs, outcome \in {"success", "failed"}, loaded \in TaskRow :
    /\ run[r].status = "running"
    /\ Copied(loaded, task[run[r].task])
    /\ Settle(r, outcome, loaded)

Creating ==
  /\ UNCHANGED run
  /\ \E t \in Tasks, enabled, sequential \in BOOLEAN, agent \in Agents :
       Insert(t, enabled, sequential, agent)

\* A live task gets new values; unless it is running, any that arm it when
\* they should.
Editing ==
  /\ UNCHANGED run
  /\ \E t \in Tasks, new \in TaskRow :
       /\ task[t].life = "live"
       /\ task' = [task EXCEPT ![t] = new]
       /\ new.fails = task[t].fails
       /\ new.armed => new.enabled
       /\ new.life = "deleted" => ~Running(t)
       /\ new.life # "absent"
       /\ Running(t) => new.armed = new.enabled /\ new.sequential = task[t].sequential
       /\ new.life = "live" /\ new.enabled =>
            \/ new.armed
            \/ task[t].enabled /\ ~task[t].armed /\ new.sequential = task[t].sequential

Transaction ==
  Aging \/ Queueing \/ Launching \/ Rejecting \/ Ending \/ Creating \/ Editing

\* A row agrees with itself, whoever has just loaded it.
LEMMA FreshCopy ==
  ASSUME IInv, NEW r \in Runs, run[r].status = "running"
  PROVE  run[r].task \in Tasks /\ task[run[r].task] \in TaskRow
           /\ Copied(task[run[r].task], task[run[r].task])
  <1>1. run[r].task \in Tasks /\ task[run[r].task] \in TaskRow
    BY DEF IInv, TypeOK, Assigned
  <1>2. Active(run[r].task)
    BY DEF Active, Is
  <1> QED
    BY <1>1, <1>2 DEF IInv, Armed, Copied

LEMMA SettleIsEnding ==
  ASSUME IInv, NEW r \in Runs, run[r].status = "running",
         NEW outcome \in {"success", "failed"}, Settle(r, outcome, task[run[r].task])
  PROVE  Ending
  BY FreshCopy DEF Ending

LEMMA EditingSteps ==
  ASSUME IInv, NEW s \in Sessions,
         \/ \E enable \in {"keep", "on", "off"}, rescheduled, sequential \in BOOLEAN,
               agent \in Agents : Update(s, enable, rescheduled, sequential, agent)
         \/ \E enabled \in BOOLEAN : SetEnabled(s, enabled)
         \/ Delete(s)
  PROVE  Editing
  <1> DEFINE t == api[s].task
  <1>1. t \in Tasks /\ task[t] \in TaskRow /\ task[t].life = "live"
    <2>1. api[s].op \in {"update", "toggle", "delete"}
      <3>1. CASE \E enable \in {"keep", "on", "off"}, rescheduled, sequential \in BOOLEAN,
                   agent \in Agents : Update(s, enable, rescheduled, sequential, agent)
        <4>1. PICK enable \in {"keep", "on", "off"}, rescheduled \in BOOLEAN,
                   sequential \in BOOLEAN, agent \in Agents :
                Update(s, enable, rescheduled, sequential, agent)
          BY <3>1
        <4> QED
          BY <4>1, Zenon DEF Update
      <3>2. CASE (\E enabled \in BOOLEAN : SetEnabled(s, enabled)) \/ Delete(s)
        BY <3>2 DEF SetEnabled, Delete
      <3> QED
        BY <3>1, <3>2
    <2> QED
      BY <2>1 DEF IInv, TypeOK, Requests
  <1>2. ASSUME NEW enable \in {"keep", "on", "off"}, NEW rescheduled \in BOOLEAN,
               NEW sequential \in BOOLEAN, NEW agent \in Agents,
               Update(s, enable, rescheduled, sequential, agent)
        PROVE  Editing
    <2> DEFINE enabled == enable = "on" \/ (enable = "keep" /\ task[t].enabled)
               new == [task[t] EXCEPT
                         !.enabled = enabled,
                         !.sequential = IF rescheduled THEN sequential ELSE task[t].sequential,
                         !.agent = agent,
                         !.armed = enabled /\ (rescheduled \/ enable = "on" \/ task[t].armed)]
    <2>1. task' = [task EXCEPT ![t] = new] /\ ~Running(t) /\ UNCHANGED run
      BY <1>2 DEF Update, IInv, Sights
    <2>2. new \in TaskRow /\ new.fails = task[t].fails /\ new.life = "live"
      BY <1>1 DEF TaskRow
    <2>3. new.armed => new.enabled
      BY <1>1 DEF TaskRow
    <2>4. new.enabled => \/ new.armed
                         \/ task[t].enabled /\ ~task[t].armed
                              /\ new.sequential = task[t].sequential
      BY <1>1 DEF TaskRow
    <2> HIDE DEF new
    <2> QED
      BY <1>1, <2>1, <2>2, <2>3, <2>4 DEF Editing
  <1>3. ASSUME NEW enabled \in BOOLEAN, SetEnabled(s, enabled) PROVE Editing
    <2> DEFINE new == [task[t] EXCEPT !.enabled = enabled, !.armed = enabled]
    <2>1. task' = [task EXCEPT ![t] = new] /\ UNCHANGED run
      BY <1>3 DEF SetEnabled
    <2>2. new \in TaskRow /\ new.fails = task[t].fails /\ new.life = "live"
            /\ new.armed = new.enabled /\ new.sequential = task[t].sequential
      BY <1>1 DEF TaskRow
    <2> HIDE DEF new
    <2> QED
      BY <1>1, <2>1, <2>2 DEF Editing
  <1>4. CASE Delete(s)
    <2> DEFINE new == [task[t] EXCEPT
                         !.life = IF api[s].saw = "running" THEN "deleting" ELSE "deleted",
                         !.enabled = FALSE, !.armed = FALSE]
    <2>1. task' = [task EXCEPT ![t] = new] /\ UNCHANGED run
      BY <1>4 DEF Delete
    <2>2. new \in TaskRow /\ new.fails = task[t].fails
            /\ new.life \in {"deleting", "deleted"} /\ (new.life = "deleted" => ~Running(t))
            /\ new.armed = FALSE /\ new.enabled = FALSE /\ new.sequential = task[t].sequential
      BY <1>1, <1>4 DEF TaskRow, Delete, IInv, Sights
    <2> HIDE DEF new
    <2> QED
      BY <1>1, <2>1, <2>2 DEF Editing
  <1> QED
    BY <1>2, <1>3, <1>4

BackgroundStep ==
  \/ \E d \in Dispatchers : Dispatch(d)
  \/ \E r \in Runs : HeartbeatLapse(r) \/ Overdue(r)
  \/ \E w \in Workers : Claim(w) \/ Execute(w) \/ Heartbeat(w) \/ Finalize(w) \/ WorkerStop(w)

LEMMA BackgroundTransactions ==
  ASSUME IInv, BackgroundStep
  PROVE  UNCHANGED <<task, run>> \/ Aging \/ Queueing \/ Launching \/ Rejecting \/ Ending
  <1> DEFINE Goal ==
        UNCHANGED <<task, run>> \/ Aging \/ Queueing \/ Launching \/ Rejecting \/ Ending
  <1>1. ASSUME NEW d \in Dispatchers, Dispatch(d)
        PROVE  Goal
    <2>1. CASE RecoverCommit(d)
      BY <2>1, SettleIsEnding DEF RecoverCommit, IInv, Assigned, Locks, Recovering
    <2>2. CASE \E batch \in SUBSET Tasks \ {{}} : \E newRun \in [batch -> Runs] :
                 Enqueue(d, batch, newRun)
      BY <2>2 DEF Queueing
    <2> QED
      BY <1>1, <2>1, <2>2
         DEF Dispatch, DispatchBegin, LeaderLost, RecoverSelect, RecoverRetry, RecoverDone,
             RecoverSkip, DispatchEnd
  <1>2. ASSUME NEW r \in Runs, HeartbeatLapse(r) \/ Overdue(r) PROVE Aging
    BY <1>2 DEF HeartbeatLapse, Overdue, Aging
  <1>3. ASSUME NEW w \in Workers,
               Claim(w) \/ Execute(w) \/ Heartbeat(w) \/ Finalize(w) \/ WorkerStop(w)
        PROVE  Goal
    <2>1. worker[w].pc \notin {"idle", "counted"} => worker[w].run \in Runs
      BY DEF IInv, Assigned
    <2>2. CASE Claim(w)
      <3>1. CASE ClaimStart(w)
        BY <3>1, <2>1 DEF ClaimStart, Launching, IInv, Locks
      <3>2. CASE ClaimReject(w)
        BY <3>2, <2>1 DEF ClaimReject, Rejecting, IInv, Locks
      <3> QED
        BY <2>2, <3>1, <3>2 DEF Claim, ClaimCount, ClaimSelect, ClaimNothing, ClaimConflict
    <2>3. CASE Execute(w)
      BY <2>3 DEF Execute, PrepareSkip, PrepareDisabled, Prepare, OpenSession,
                  OpenSessionGone, InvokeReturn, ExecuteError
    <2>4. CASE Heartbeat(w)
      BY <2>4, <2>1 DEF Heartbeat, Aging
    <2>5. CASE Finalize(w)
      <3>1. CASE FinalCommit(w)
        <4>1. worker[w].run \in Runs /\ run[worker[w].run].status = "running"
          BY <3>1, <2>1 DEF FinalCommit, IInv, Locks
        <4>2. worker[w].outcome \in {"success", "failed"} /\ worker[w].seen \in TaskRow
          BY DEF IInv, TypeOK, WorkerState
        <4>3. Copied(worker[w].seen, task[run[worker[w].run].task])
          BY <3>1, <4>1 DEF FinalCommit, IInv, Copies, MyTask
        <4> QED
          BY <3>1, <4>1, <4>2, <4>3 DEF FinalCommit, Ending
      <3> QED
        BY <2>5, <3>1 DEF Finalize, FinalRead, FinalMismatch, FinalLock, FinalConflict,
                          FinalError
    <2> QED
      BY <1>3, <2>2, <2>3, <2>4, <2>5 DEF WorkerStop
  <1> QED
    BY <1>1, <1>2, <1>3 DEF BackgroundStep

LEMMA Transactions ==
  ASSUME IInv, [Next]_vars
  PROVE  UNCHANGED <<task, run>> \/ Transaction
  <1> USE DEF Transaction
  <1>1. CASE UNCHANGED vars
    BY <1>1 DEF vars
  <1>2. CASE BackgroundStep
    BY <1>2, BackgroundTransactions
  <1>3. ASSUME NEW s \in Sessions, Serve(s)
        PROVE  UNCHANGED <<task, run>> \/ Transaction
    <2>1. CASE \E t \in Tasks, sequential \in BOOLEAN, agent \in Agents :
                 CreateEnabled(s, t, sequential, agent)
                   \/ CreateDisabled(s, t, sequential, agent)
      BY <2>1 DEF CreateEnabled, CreateDisabled, Creating
    <2>2. CASE \E r \in Runs : FailManually(s, r)
      BY <2>2, SettleIsEnding DEF FailManually, Is
    <2> QED
      BY <1>3, <2>1, <2>2, EditingSteps
         DEF Serve, BeginCreate, BeginRequest, CheckQuota, CheckRunning, RequestError
  <1> QED
    BY <1>1, <1>2, <1>3 DEF Next, BackgroundStep

-----------------------------------------------------------------------------
(* What the end of a run does to its task, whatever copy it starts from *)

LEMMA ProjectionFacts ==
  ASSUME NEW current \in TaskRow, NEW loaded \in TaskRow,
         NEW outcome \in {"success", "failed"}, Copied(loaded, current),
         NEW new, new = Projection(current, loaded, outcome)
  PROVE  /\ new.life = (IF loaded.life = "deleting" THEN "deleted" ELSE current.life)
         /\ new.sequential = current.sequential
         /\ new.fails = (IF outcome = "success" THEN 0 ELSE current.fails + 1)
         /\ new.enabled => current.enabled
         /\ /\ new.life = "live" /\ new.enabled
            /\ current.sequential \/ current.armed
            => new.armed
  <1> DEFINE enabled == EnabledAfter(loaded, outcome)
  <1>1. new \in TaskRow
    BY ProjectionType
  <1>2. enabled \in BOOLEAN /\ (enabled => loaded.enabled)
    <2>1. FailsAfter(loaded, outcome) \in Nat /\ FailureThreshold \in Nat
      BY LimitsAssumption DEF FailsAfter, TaskRow
    <2> QED
      BY <2>1 DEF EnabledAfter, TaskRow
  <1>3. new.fails = (IF outcome = "success" THEN 0 ELSE current.fails + 1)
    <2>1. new.fails = Written(loaded.fails, FailsAfter(loaded, outcome), current.fails)
      BY DEF Projection, TaskRow
    <2> QED
      BY <2>1 DEF Written, FailsAfter, Copied, TaskRow
  <1>4. new.enabled = Written(loaded.enabled, enabled, current.enabled)
    BY DEF Projection, TaskRow
  <1>5. new.armed = IF ~enabled THEN Written(loaded.armed, FALSE, current.armed)
                    ELSE loaded.sequential \/ current.armed
    BY DEF Projection, TaskRow
  <1>6. new.life = (IF loaded.life = "deleting" THEN "deleted" ELSE current.life)
          /\ new.sequential = current.sequential
    BY DEF Projection, TaskRow
  <1> HIDE DEF enabled
  <1>7. new.enabled => current.enabled
    BY <1>2, <1>4 DEF Written
  <1>8. ASSUME new.life = "live", new.enabled, current.sequential \/ current.armed
        PROVE  new.armed
    <2>1. CASE enabled
      BY <2>1, <1>5, <1>8 DEF Copied
    <2>2. CASE ~enabled
      <3>1. ~loaded.enabled /\ current.enabled
        BY <2>2, <1>4, <1>7, <1>8 DEF Written, TaskRow
      <3>2. ~loaded.armed /\ current.armed
        BY <3>1 DEF Copied
      <3> QED
        BY <2>2, <3>2, <1>5 DEF Written, TaskRow
    <2> QED
      BY <2>1, <2>2
  <1> QED
    BY <1>3, <1>6, <1>7, <1>8

LEMMA EndingFacts ==
  ASSUME IInv, NEW r \in Runs, NEW outcome \in {"success", "failed"}, NEW loaded \in TaskRow,
         run[r].status = "running", Copied(loaded, task[run[r].task]),
         Settle(r, outcome, loaded),
         NEW t, t = run[r].task
  PROVE  /\ t \in Tasks
         /\ run'[r].status = outcome /\ run'[r].task = t
         /\ \A q \in Runs \ {r} : run'[q] = run[q]
         /\ \A u \in Tasks \ {t} : task'[u] = task[u]
         /\ task'[t] = Projection(task[t], loaded, outcome)
         /\ task[t] \in TaskRow
         /\ \A q \in Runs : run[q].task = t /\ run[q].status \in {"pending", "running"} => q = r
  BY DEF IInv, TypeOK, RunRow, Assigned, OneActiveRun, Settle

-----------------------------------------------------------------------------
(* Invariants of the tables *)

\* The batch of Enqueue opens at most one run per task, for tasks without one.
LEMMA QueueingFacts ==
  ASSUME IInv, NEW d \in Dispatchers, NEW batch \in SUBSET Tasks,
         NEW newRun \in [batch -> Runs], Enqueue(d, batch, newRun)
  PROVE  /\ \A t \in batch :
              /\ newRun[t] \in Runs /\ run[newRun[t]].status = "unused"
              /\ run'[newRun[t]].status = "pending" /\ run'[newRun[t]].task = t
         /\ \A r \in Runs : (\A t \in batch : newRun[t] # r) => run'[r] = run[r]
         /\ \A t \in batch : Enqueueable(t) /\ task'[t] = [task[t] EXCEPT !.armed = ~task[t].sequential]
         /\ \A t \in Tasks \ batch : task'[t] = task[t]
  <1>1. \A t \in batch : newRun[t] \in Runs /\ run[newRun[t]].status = "unused"
    BY DEF Enqueue
  <1>2. ASSUME NEW t \in batch
        PROVE  run'[newRun[t]].status = "pending" /\ run'[newRun[t]].task = t
    <2>1. (CHOOSE u \in batch : newRun[u] = newRun[t]) = t
      BY DEF Enqueue
    <2> QED
      BY <2>1, <1>1 DEF Enqueue
  <1>3. \A r \in Runs : (\A t \in batch : newRun[t] # r) => run'[r] = run[r]
    BY DEF Enqueue
  <1> QED
    BY <1>1, <1>2, <1>3 DEF Enqueue

\* The transactions that touch one run and no task.
LEMMA RunMoves ==
  ASSUME TypeOK, Aging \/ Launching \/ Rejecting
  PROVE  /\ UNCHANGED task
         /\ \A q \in Runs :
              /\ run'[q].task = run[q].task
              /\ \/ run'[q].status = run[q].status
                 \/ /\ run[q].status = "pending"
                    /\ \/ run'[q].status = "running" /\ Startable(run[q].task)
                       \/ run'[q].status = "failed" /\ ~Startable(run[q].task)
  <1>0. run \in [Runs -> RunRow]
    BY DEF TypeOK
  <1>1. CASE Aging
    <2>1. PICK r \in Runs, age \in {"fresh", "lapsed", "overdue"} :
            run' = [run EXCEPT ![r].age = age]
      BY <1>1 DEF Aging
    <2> QED
      BY <1>0, <1>1, <2>1 DEF Aging, RunRow
  <1>2. CASE Launching
    <2>1. PICK r \in Runs :
            /\ run[r].status = "pending"
            /\ Startable(run[r].task)
            /\ run' = [run EXCEPT ![r].status = "running", ![r].age = "fresh"]
      BY <1>2 DEF Launching
    <2>2. \A q \in Runs : q # r => run'[q] = run[q]
      BY <1>0, <2>1
    <2>3. run'[r].status = "running" /\ run'[r].task = run[r].task
      BY <1>0, <2>1 DEF RunRow
    <2> QED
      BY <1>2, <2>1, <2>2, <2>3 DEF Launching
  <1>3. CASE Rejecting
    <2>1. PICK r \in Runs :
            /\ run[r].status = "pending"
            /\ ~Startable(run[r].task)
            /\ run' = [run EXCEPT ![r].status = "failed"]
      BY <1>3 DEF Rejecting
    <2> QED
      BY <1>0, <1>3, <2>1 DEF Rejecting, RunRow
  <1> QED
    BY <1>1, <1>2, <1>3

LEMMA OneActiveRunStep ==
  ASSUME IInv, [Next]_vars
  PROVE  OneActiveRun'
  <1> USE DEF OneActiveRun
  <1>1. CASE UNCHANGED <<task, run>>
    BY <1>1 DEF IInv
  <1>2. CASE Aging \/ Launching \/ Rejecting
    <2>1. \A r \in Runs :
            /\ run'[r].task = run[r].task
            /\ run'[r].status \in {"pending", "running"} => run[r].status \in {"pending", "running"}
      BY <1>2, RunMoves DEF IInv
    <2> QED
      BY <2>1 DEF IInv
  <1>3. CASE Ending
    <2>1. PICK r \in Runs, outcome \in {"success", "failed"}, loaded \in TaskRow :
            /\ run[r].status = "running"
            /\ Copied(loaded, task[run[r].task])
            /\ Settle(r, outcome, loaded)
      BY <1>3 DEF Ending
    <2>2. run'[r].status = outcome /\ \A q \in Runs \ {r} : run'[q] = run[q]
      BY <2>1, EndingFacts
    <2> QED
      BY <2>2 DEF IInv
  <1>4. CASE Queueing
    <2>0. PICK d \in Dispatchers, batch \in SUBSET Tasks : \E newRun \in [batch -> Runs] :
            Enqueue(d, batch, newRun)
      BY <1>4 DEF Queueing
    <2>1. PICK newRun \in [batch -> Runs] : Enqueue(d, batch, newRun)
      BY <2>0
    <2> SUFFICES ASSUME NEW r \in Runs, NEW q \in Runs,
                        run'[r].status \in {"pending", "running"},
                        run'[q].status \in {"pending", "running"},
                        run'[r].task = run'[q].task
                 PROVE  r = q
      OBVIOUS
    <2>2. ASSUME NEW t \in batch, NEW p \in Runs,
                 run[p].status \in {"pending", "running"}, run[p].task = t
          PROVE  FALSE
      <3>1. ~Active(t)
        BY <2>1, QueueingFacts DEF Enqueueable
      <3> QED
        BY <3>1, <2>2 DEF Active, Is
    <2> QED
      BY <2>1, <2>2, QueueingFacts DEF IInv
  <1>5. CASE Creating \/ Editing
    BY <1>5 DEF Creating, Editing, IInv
  <1> QED
    BY <1>1, <1>2, <1>3, <1>4, <1>5, Transactions DEF Transaction

\* Every task row lives on unless it was absent, and keeps a count of zero
\* while it is; the run rows stay tied to existing tasks.
LEMMA RowsStep ==
  ASSUME IInv, [Next]_vars
  PROVE  /\ \A r \in Runs : run'[r].status # "unused" =>
              run'[r].task \in Tasks /\ task'[run'[r].task].life # "absent"
         /\ \A t \in Tasks : task'[t].life = "absent" => task'[t].fails = 0
  <1> DEFINE Kept == /\ \A t \in Tasks : task[t].life # "absent" => task'[t].life # "absent"
                     /\ \A t \in Tasks : task'[t].life = "absent" => task'[t].fails = 0
  <1> SUFFICES /\ Kept
               /\ \A r \in Runs : run'[r].status # "unused" =>
                    \/ run[r].status # "unused" /\ run'[r].task = run[r].task
                    \/ run'[r].task \in Tasks /\ task[run'[r].task].life # "absent"
    BY DEF IInv, Assigned
  <1>1. CASE UNCHANGED <<task, run>>
    BY <1>1 DEF IInv, Assigned
  <1>2. CASE Aging \/ Launching \/ Rejecting
    BY <1>2, RunMoves DEF IInv, Assigned
  <1>3. CASE Ending
    <2>1. PICK r \in Runs, outcome \in {"success", "failed"}, loaded \in TaskRow :
            /\ run[r].status = "running"
            /\ Copied(loaded, task[run[r].task])
            /\ Settle(r, outcome, loaded)
      BY <1>3 DEF Ending
    <2> DEFINE t == run[r].task
    <2>2. task'[t].life \in {task[t].life, "deleted"} /\ task[t].life # "absent"
      BY <2>1, EndingFacts, ProjectionFacts DEF IInv, Assigned
    <2>3. Kept
      BY <2>1, <2>2, EndingFacts DEF IInv, Assigned
    <2> QED
      BY <2>1, <2>3, EndingFacts DEF IInv, Assigned
  <1>4. CASE Queueing
    <2>0. PICK d \in Dispatchers, batch \in SUBSET Tasks : \E newRun \in [batch -> Runs] :
            Enqueue(d, batch, newRun)
      BY <1>4 DEF Queueing
    <2>1. PICK newRun \in [batch -> Runs] : Enqueue(d, batch, newRun)
      BY <2>0
    <2>2. \A t \in batch : task[t].life = "live" /\ task'[t].life = "live"
      <3> SUFFICES ASSUME NEW t \in batch
                   PROVE  task[t].life = "live" /\ task'[t].life = "live"
        OBVIOUS
      <3>1. task[t].life = "live" /\ task[t] \in TaskRow
        BY <2>1, QueueingFacts DEF Enqueueable, IInv, TypeOK
      <3>2. task'[t] = [task[t] EXCEPT !.armed = ~task[t].sequential]
        BY <2>1, QueueingFacts
      <3> QED
        BY <3>1, <3>2 DEF TaskRow
    <2>3. Kept
      <3>1. \A t \in Tasks \ batch : task'[t] = task[t]
        BY <2>1, QueueingFacts
      <3> QED
        BY <2>2, <3>1 DEF IInv, Assigned
    <2>4. ASSUME NEW r \in Runs, NEW t \in batch, newRun[t] = r
          PROVE  run'[r].task \in Tasks /\ task[run'[r].task].life # "absent"
      <3>1. run'[r].task = t
        BY <2>1, <2>4, QueueingFacts
      <3> QED
        BY <2>2, <3>1
    <2>5. \A r \in Runs : (\A t \in batch : newRun[t] # r) => run'[r] = run[r]
      BY <2>1, QueueingFacts
    <2> QED
      BY <2>3, <2>4, <2>5
  <1>5. CASE Creating
    BY <1>5 DEF Creating, Insert, IInv, TypeOK, Assigned
  <1>6. CASE Editing
    BY <1>6 DEF Editing, IInv, TypeOK, Assigned
  <1> QED
    BY <1>1, <1>2, <1>3, <1>4, <1>5, <1>6, Transactions DEF Transaction

\* Deletion spares a running task, and no other run of it can be running when
\* the end of a run carries the deletion out.
LEMMA RecoverableStep ==
  ASSUME IInv, [Next]_vars
  PROVE  RunningIsRecoverable'
  <1> SUFFICES ASSUME NEW q \in Runs, run'[q].status = "running"
               PROVE  task'[run'[q].task].life # "deleted"
    <2>1. TypeOK'
      BY TypeStep DEF IInv
    <2> QED
      BY <2>1, RowsStep DEF RunningIsRecoverable, TypeOK, TaskRow
  <1>0. \A r \in Runs : run[r].status = "running" =>
          run[r].task \in Tasks /\ task[run[r].task].life \in {"live", "deleting"}
    BY DEF IInv, RunningIsRecoverable, Assigned
  <1>1. CASE UNCHANGED <<task, run>>
    BY <1>0, <1>1
  <1>2. CASE Aging \/ Launching \/ Rejecting
    BY <1>0, <1>2, RunMoves DEF Startable, IInv
  <1>3. CASE Ending
    <2>1. PICK r \in Runs, outcome \in {"success", "failed"}, loaded \in TaskRow :
            /\ run[r].status = "running"
            /\ Copied(loaded, task[run[r].task])
            /\ Settle(r, outcome, loaded)
      BY <1>3 DEF Ending
    <2>2. q # r /\ run'[q] = run[q]
      BY <2>1, EndingFacts
    <2>3. run[q].task # run[r].task
      BY <2>1, <2>2, EndingFacts
    <2>4. task'[run[q].task] = task[run[q].task]
      BY <1>0, <2>1, <2>2, <2>3, EndingFacts
    <2> QED
      BY <1>0, <2>2, <2>4
  <1>4. CASE Queueing
    <2>0. PICK d \in Dispatchers, batch \in SUBSET Tasks : \E newRun \in [batch -> Runs] :
            Enqueue(d, batch, newRun)
      BY <1>4 DEF Queueing
    <2>1. PICK newRun \in [batch -> Runs] : Enqueue(d, batch, newRun)
      BY <2>0
    <2>2. run'[q] = run[q]
      BY <2>1, QueueingFacts
    <2>3. run[q].task \notin batch
      <3>1. \A t \in batch : ~Active(t)
        BY <2>1, QueueingFacts DEF Enqueueable
      <3> QED
        BY <2>2, <3>1 DEF Active, Is
    <2>4. task'[run[q].task] = task[run[q].task]
      BY <1>0, <2>1, <2>2, <2>3, QueueingFacts
    <2> QED
      BY <1>0, <2>2, <2>4
  <1>5. CASE Creating
    BY <1>0, <1>5 DEF Creating, Insert
  <1>6. CASE Editing
    BY <1>0, <1>6 DEF Editing, Running, Is, IInv, TypeOK
  <1> QED
    BY <1>1, <1>2, <1>3, <1>4, <1>5, <1>6, Transactions DEF Transaction

\* The end of a sequential run, the only moment its task has no next_run_at,
\* sets it again; every other writer arms what it enables.
LEMMA ArmingStep ==
  ASSUME IInv, [Next]_vars
  PROVE  Armed' /\ NoLostSchedule'
  <1> DEFINE Fine(t) ==
        /\ Active(t)' /\ task'[t].armed => task'[t].enabled
        /\ task'[t].life = "live" /\ task'[t].enabled /\ ~task'[t].sequential => task'[t].armed
        /\ task'[t].life = "live" /\ task'[t].enabled => task'[t].armed \/ Active(t)'
  <1> SUFFICES ASSUME NEW t \in Tasks PROVE Fine(t)
    BY DEF Armed, NoLostSchedule
  <1>0. /\ task[t] \in TaskRow
        /\ Active(t) /\ task[t].armed => task[t].enabled
        /\ task[t].life = "live" /\ task[t].enabled /\ ~task[t].sequential => task[t].armed
        /\ task[t].life = "live" /\ task[t].enabled => task[t].armed \/ Active(t)
    BY DEF IInv, TypeOK, Armed, NoLostSchedule
  <1>1. CASE UNCHANGED <<task, run>>
    BY <1>0, <1>1 DEF Active, Is
  <1>2. CASE Aging \/ Launching \/ Rejecting
    <2>1. UNCHANGED task
      BY <1>2, RunMoves DEF IInv
    <2>2. Active(t)' => Active(t)
      BY <1>2, RunMoves DEF IInv, Active, Is
    <2>3. ASSUME Active(t), Startable(t) PROVE Active(t)'
      BY <1>2, <2>3, RunMoves DEF IInv, Active, Is
    <2>4. task[t].life = "live" /\ task[t].enabled => Startable(t)
      BY DEF Startable
    <2> QED
      BY <1>0, <2>1, <2>2, <2>3, <2>4
  <1>3. CASE Ending
    <2>1. PICK r \in Runs, outcome \in {"success", "failed"}, loaded \in TaskRow :
            /\ run[r].status = "running"
            /\ Copied(loaded, task[run[r].task])
            /\ Settle(r, outcome, loaded)
      BY <1>3 DEF Ending
    <2>2. CASE run[r].task = t
      <3>1. ~Active(t)'
        BY <2>1, <2>2, EndingFacts DEF Active, Is
      <3>2. task'[t] = Projection(task[t], loaded, outcome)
        BY <2>1, <2>2, EndingFacts
      <3>3. task'[t].life = "live" => task[t].life = "live"
        BY <1>0, <2>1, <2>2, <3>2, ProjectionFacts
      <3>4. /\ task'[t].sequential = task[t].sequential
            /\ task'[t].enabled => task[t].enabled
            /\ /\ task'[t].life = "live" /\ task'[t].enabled
               /\ task[t].sequential \/ task[t].armed
               => task'[t].armed
        BY <1>0, <2>1, <2>2, <3>2, ProjectionFacts
      <3> QED
        BY <1>0, <3>1, <3>3, <3>4
    <2>3. CASE run[r].task # t
      <3>1. task'[t] = task[t]
        BY <2>1, <2>3, EndingFacts
      <3>2. Active(t)' <=> Active(t)
        BY <2>1, <2>3, EndingFacts DEF Active, Is
      <3> QED
        BY <1>0, <3>1, <3>2
    <2> QED
      BY <2>2, <2>3
  <1>4. CASE Queueing
    <2>0. PICK d \in Dispatchers, batch \in SUBSET Tasks : \E newRun \in [batch -> Runs] :
            Enqueue(d, batch, newRun)
      BY <1>4 DEF Queueing
    <2>1. PICK newRun \in [batch -> Runs] : Enqueue(d, batch, newRun)
      BY <2>0
    <2>2. CASE t \in batch
      <3>1. Active(t)'
        BY <2>1, <2>2, QueueingFacts DEF Active, Is
      <3>2. task[t].enabled /\ task'[t] = [task[t] EXCEPT !.armed = ~task[t].sequential]
        BY <2>1, <2>2, QueueingFacts DEF Enqueueable
      <3> QED
        BY <1>0, <3>1, <3>2 DEF TaskRow
    <2>3. CASE t \notin batch
      <3>1. task'[t] = task[t]
        BY <2>1, <2>3, QueueingFacts
      <3>2. \A r \in Runs : run'[r] = run[r] \/ (run[r].status = "unused" /\ run'[r].task # t)
        BY <2>1, <2>3, QueueingFacts
      <3>3. Active(t)' <=> Active(t)
        BY <3>2 DEF Active, Is
      <3> QED
        BY <1>0, <3>1, <3>3
    <2> QED
      BY <2>2, <2>3
  <1>5. CASE Creating
    <2>1. Active(t)' <=> Active(t)
      BY <1>5 DEF Creating, Active, Is
    <2>2. task'[t] = task[t] \/ (task'[t].armed = task'[t].enabled)
      BY <1>5 DEF Creating, Insert, IInv, TypeOK
    <2> QED
      BY <1>0, <2>1, <2>2
  <1>6. CASE Editing
    <2>1. Active(t)' <=> Active(t)
      BY <1>6 DEF Editing, Active, Is
    <2>2. \/ task'[t] = task[t]
          \/ /\ task'[t].armed => task'[t].enabled
             /\ task[t].life = "live"
             /\ task'[t].life = "live" /\ task'[t].enabled =>
                  \/ task'[t].armed
                  \/ task[t].enabled /\ ~task[t].armed
                       /\ task'[t].sequential = task[t].sequential
      BY <1>6 DEF Editing, IInv, TypeOK
    <2> QED
      BY <1>0, <2>1, <2>2
  <1> QED
    BY <1>1, <1>2, <1>3, <1>4, <1>5, <1>6, Transactions DEF Transaction

-----------------------------------------------------------------------------
(* Invariants of the processes *)

\* A worker comes to execute a run only by starting it, and to hold a copy of
\* a task only by loading it.
LEMMA WorkerMoves ==
  ASSUME IInv, [Next]_vars, NEW w \in Workers
  PROVE  /\ worker'[w].pc \notin {"idle", "counted", "selected"} =>
              \/ Executing(w) /\ worker'[w].run = worker[w].run
              \/ /\ ClaimStart(w)
                 /\ worker'[w].run = worker[w].run
                 /\ \A v \in Workers \ {w} : worker'[v] = worker[v]
         /\ worker'[w].pc \in {"decided", "locked"} =>
              \/ /\ worker[w].pc \in {"decided", "locked"}
                 /\ worker'[w].run = worker[w].run
                 /\ worker'[w].seen = worker[w].seen
              \/ /\ UNCHANGED <<task, run>>
                 /\ Executing(w)
                 /\ worker'[w].run = worker[w].run
                 /\ worker'[w].seen = task[MyTask(w)]
         /\ worker'[w].pc = "selected" => worker'[w].run \in Runs
  <1> DEFINE Moves(x) ==
         /\ worker'[x].pc \notin {"idle", "counted", "selected"} =>
              \/ Executing(x) /\ worker'[x].run = worker[x].run
              \/ /\ ClaimStart(x)
                 /\ worker'[x].run = worker[x].run
                 /\ \A v \in Workers \ {x} : worker'[v] = worker[v]
         /\ worker'[x].pc \in {"decided", "locked"} =>
              \/ /\ worker[x].pc \in {"decided", "locked"}
                 /\ worker'[x].run = worker[x].run
                 /\ worker'[x].seen = worker[x].seen
              \/ /\ UNCHANGED <<task, run>>
                 /\ Executing(x)
                 /\ worker'[x].run = worker[x].run
                 /\ worker'[x].seen = task[MyTask(x)]
         /\ worker'[x].pc = "selected" => worker'[x].run \in Runs
  <1> SUFFICES Moves(w)
    OBVIOUS
  <1>0. /\ worker \in [Workers -> WorkerState] /\ IdleWorker.pc = "idle"
        /\ worker[w].pc = "selected" => worker[w].run \in Runs
    BY DEF IInv, TypeOK, Assigned, IdleWorker
  <1>1. ASSUME worker'[w] = worker[w] PROVE Moves(w)
    BY <1>0, <1>1 DEF Executing, WorkerState
  <1>2. ASSUME NEW v \in Workers,
               Claim(v) \/ Execute(v) \/ Heartbeat(v) \/ Finalize(v) \/ WorkerStop(v)
        PROVE  Moves(w)
    <2>1. CASE v # w
      <3>1. worker'[w] = worker[w]
        <4>1. CASE Claim(v)
          BY <1>0, <2>1, <4>1 DEF Claim, ClaimCount, ClaimSelect, ClaimNothing, ClaimStart,
             ClaimReject, ClaimConflict, Goto, GoIdle
        <4>2. CASE Execute(v)
          BY <1>0, <2>1, <4>2 DEF Execute, PrepareSkip, PrepareDisabled, Prepare, OpenSession,
             OpenSessionGone, InvokeReturn, ExecuteError, Goto, GoIdle, Except
        <4>3. CASE Finalize(v)
          BY <1>0, <2>1, <4>3 DEF Finalize, FinalRead, FinalMismatch, FinalLock, FinalCommit,
             FinalConflict, FinalError, Goto, GoIdle, Except
        <4> QED
          BY <1>0, <1>2, <2>1, <4>1, <4>2, <4>3 DEF Heartbeat, WorkerStop, GoIdle
      <3> QED
        BY <3>1, <1>1
    <2>2. CASE v = w
      <3>1. ASSUME GoIdle(w) PROVE Moves(w)
        BY <1>0, <3>1 DEF GoIdle
      <3>2. ASSUME Except(w), Executing(w) PROVE Moves(w)
        BY <1>0, <3>2 DEF Except
      <3>3. CASE Claim(w)
        <4>1. CASE ClaimStart(w)
          BY <1>0, <4>1 DEF ClaimStart, Goto, WorkerState
        <4>2. CASE ClaimCount(w) \/ \E r \in Runs : ClaimSelect(w, r)
          BY <1>0, <4>2 DEF ClaimCount, ClaimSelect, Goto, WorkerState
        <4> QED
          BY <3>3, <4>1, <4>2, <3>1 DEF Claim, ClaimNothing, ClaimReject, ClaimConflict
      <3>4. CASE Execute(w)
        <4>1. CASE PrepareDisabled(w)
          BY <1>0, <4>1 DEF PrepareDisabled, Executing, WorkerState
        <4>2. CASE Prepare(w) \/ OpenSession(w)
                     \/ \E outcome \in {"success", "failed"} : InvokeReturn(w, outcome)
          BY <1>0, <4>2 DEF Prepare, OpenSession, InvokeReturn, Goto, Executing, WorkerState
        <4> QED
          BY <3>4, <4>1, <4>2, <3>1, <3>2
             DEF Execute, PrepareSkip, OpenSessionGone, ExecuteError, Executing
      <3>5. CASE Finalize(w)
        <4>1. CASE FinalRead(w)
          BY <1>0, <4>1 DEF FinalRead, Executing, WorkerState
        <4>2. CASE FinalLock(w)
          BY <1>0, <4>2 DEF FinalLock, Goto, Executing, WorkerState
        <4> QED
          BY <3>5, <4>1, <4>2, <3>1, <3>2
             DEF Finalize, FinalMismatch, FinalCommit, FinalConflict, FinalError, Executing
      <3> QED
        BY <1>1, <1>2, <2>2, <3>1, <3>3, <3>4, <3>5 DEF Heartbeat, WorkerStop
    <2> QED
      BY <2>1, <2>2
  <1>3. ASSUME NEW d \in Dispatchers, Dispatch(d) PROVE UNCHANGED worker
    BY <1>3 DEF Dispatch, DispatchBegin, LeaderLost, RecoverSelect, RecoverCommit, RecoverRetry,
                RecoverDone, RecoverSkip, Enqueue, DispatchEnd
  <1>4. ASSUME NEW s \in Sessions, Serve(s) PROVE UNCHANGED worker
    BY <1>4, ServeFrame DEF IInv
  <1> QED
    BY <1>1, <1>2, <1>3, <1>4 DEF Next, vars, HeartbeatLapse, Overdue

\* A started run never returns to the queue.
LEMMA StartedStays ==
  ASSUME IInv, [Next]_vars, NEW q \in Runs
  PROVE  /\ run[q].status \in {"running", "success", "failed"} =>
              /\ run'[q].status \in {"running", "success", "failed"}
              /\ run'[q].status = "running" => run[q].status = "running"
         /\ run[q].status = "running" => run'[q].status = "running" \/ Ending
         /\ run[q].status # "unused" => run'[q].task = run[q].task
  <1>1. CASE Aging \/ Launching \/ Rejecting
    BY <1>1, RunMoves DEF IInv
  <1>2. CASE Ending
    <2>1. PICK r \in Runs, outcome \in {"success", "failed"}, loaded \in TaskRow :
            /\ run[r].status = "running"
            /\ Copied(loaded, task[run[r].task])
            /\ Settle(r, outcome, loaded)
      BY <1>2 DEF Ending
    <2>2. run'[r].status = outcome /\ run'[r].task = run[r].task
            /\ \A p \in Runs \ {r} : run'[p] = run[p]
      BY <2>1, EndingFacts
    <2> QED
      BY <1>2, <2>1, <2>2
  <1>3. CASE Queueing
    <2>0. PICK d \in Dispatchers, batch \in SUBSET Tasks : \E newRun \in [batch -> Runs] :
            Enqueue(d, batch, newRun)
      BY <1>3 DEF Queueing
    <2>1. PICK newRun \in [batch -> Runs] : Enqueue(d, batch, newRun)
      BY <2>0
    <2>2. run[q].status # "unused" => run'[q] = run[q]
      BY <2>1, QueueingFacts
    <2> QED
      BY <2>2
  <1> QED
    BY <1>1, <1>2, <1>3, Transactions DEF Transaction, Creating, Editing

LEMMA StartedStep ==
  ASSUME IInv, [Next]_vars
  PROVE  Started'
  <1> SUFFICES ASSUME NEW w \in Workers, Executing(w)'
               PROVE  run'[worker'[w].run].status \in {"running", "success", "failed"}
    BY DEF Started
  <1>1. CASE Executing(w) /\ worker'[w].run = worker[w].run
    <2>1. worker[w].run \in Runs /\ run[worker[w].run].status \in {"running", "success", "failed"}
      BY <1>1 DEF IInv, Assigned, Started, Executing
    <2> QED
      BY <1>1, <2>1, StartedStays
  <1>2. CASE ClaimStart(w) /\ worker'[w].run = worker[w].run
    BY <1>2 DEF ClaimStart, IInv, Assigned, TypeOK, RunRow
  <1> QED
    BY <1>1, <1>2, WorkerMoves DEF Executing

\* A worker that starts a run holds its lock while the run is pending, when
\* nobody can be executing it.
LEMMA OneExecutorStep ==
  ASSUME IInv, [Next]_vars
  PROVE  OneExecutor'
  <1> SUFFICES ASSUME NEW v \in Workers, NEW w \in Workers,
                      Executing(v)', Executing(w)', worker'[v].run = worker'[w].run
               PROVE  v = w
    BY DEF OneExecutor
  <1> DEFINE Stays(x) == Executing(x) /\ worker'[x].run = worker[x].run
             Starts(x) == /\ ClaimStart(x)
                          /\ worker'[x].run = worker[x].run
                          /\ \A y \in Workers \ {x} : worker'[y] = worker[y]
  <1>1. (Stays(v) \/ Starts(v)) /\ (Stays(w) \/ Starts(w))
    BY WorkerMoves DEF Executing
  <1>2. CASE Stays(v) /\ Stays(w)
    BY <1>2 DEF IInv, OneExecutor
  <1>3. ASSUME NEW x \in Workers, NEW y \in Workers, Starts(x), Stays(y),
               worker[x].run = worker[y].run
        PROVE  FALSE
    BY <1>3 DEF ClaimStart, Executing, IInv, Locks, Started
  <1>4. CASE Starts(v) /\ Starts(w)
    <2>1. ASSUME v # w PROVE FALSE
      BY <1>4, <2>1 DEF Executing, ClaimStart
    <2> QED
      BY <2>1
  <1> QED
    BY <1>1, <1>2, <1>3, <1>4

\* From the worker's read to its commit the task keeps its failure count and
\* its cycle type: enqueueing, updating and settling it need it not running.
LEMMA CopiesStep ==
  ASSUME IInv, [Next]_vars
  PROVE  Copies'
  <1> SUFFICES ASSUME NEW w \in Workers, worker'[w].pc \in {"decided", "locked"},
                      run'[worker'[w].run].status = "running"
               PROVE  Copied(worker'[w].seen, task'[run'[worker'[w].run].task])
    BY DEF Copies, MyTask, Copied
  <1> DEFINE r == worker[w].run
             t == run[r].task
             loaded == worker'[w].seen
  <1>1. /\ r \in Runs /\ worker'[w].run = r
        /\ run[r].status = "running" /\ run'[r].task = t
        /\ t \in Tasks /\ task[t] \in TaskRow
    <2>1. Executing(w) /\ worker'[w].run = r
      BY WorkerMoves DEF Executing
    <2>2. r \in Runs /\ run[r].status \in {"running", "success", "failed"}
      BY <2>1 DEF IInv, Assigned, Started, Executing
    <2>3. run[r].status = "running" /\ run'[r].task = t
      BY <2>1, <2>2, StartedStays
    <2> QED
      BY <2>1, <2>2, <2>3, FreshCopy
  <1>2. Copied(loaded, task[t])
    <2>1. CASE UNCHANGED <<task, run>> /\ loaded = task[MyTask(w)]
      BY <1>1, <2>1, FreshCopy DEF MyTask
    <2>2. CASE worker[w].pc \in {"decided", "locked"} /\ loaded = worker[w].seen
      BY <1>1, <2>2 DEF IInv, Copies, MyTask
    <2> QED
      BY <2>1, <2>2, WorkerMoves
  <1>3. /\ Running(t) /\ Active(t)
        /\ \A q \in Runs : run[q].task = t /\ run[q].status \in {"pending", "running"} => q = r
    BY <1>1 DEF Running, Active, Is, IInv, OneActiveRun
  <1>4. CASE task'[t] = task[t]
    BY <1>1, <1>2, <1>4
  <1>5. CASE Aging \/ Launching \/ Rejecting
    BY <1>4, <1>5, RunMoves DEF IInv
  <1>6. CASE Ending
    <2>1. PICK q \in Runs, outcome \in {"success", "failed"}, copy \in TaskRow :
            /\ run[q].status = "running"
            /\ Copied(copy, task[run[q].task])
            /\ Settle(q, outcome, copy)
      BY <1>6 DEF Ending
    <2>2. q # r
      BY <1>1, <2>1, EndingFacts
    <2>3. run[q].task # t
      BY <1>3, <2>1, <2>2
    <2>4. task'[t] = task[t]
      BY <1>1, <2>1, <2>3, EndingFacts
    <2> QED
      BY <1>4, <2>4
  <1>7. CASE Queueing
    <2>0. PICK d \in Dispatchers, batch \in SUBSET Tasks : \E newRun \in [batch -> Runs] :
            Enqueue(d, batch, newRun)
      BY <1>7 DEF Queueing
    <2>1. PICK newRun \in [batch -> Runs] : Enqueue(d, batch, newRun)
      BY <2>0
    <2>2. t \notin batch
      BY <1>3, <2>1, QueueingFacts DEF Enqueueable
    <2>3. task'[t] = task[t]
      BY <1>1, <2>1, <2>2, QueueingFacts
    <2> QED
      BY <1>4, <2>3
  <1>8. CASE Creating
    <2>1. task[t].life # "absent"
      BY <1>1 DEF IInv, Assigned
    <2>2. task'[t] = task[t]
      BY <1>1, <1>8, <2>1 DEF Creating, Insert, IInv, TypeOK
    <2> QED
      BY <1>4, <2>2
  <1>9. CASE Editing
    <2>1. PICK u \in Tasks, new \in TaskRow :
            /\ task[u].life = "live"
            /\ task' = [task EXCEPT ![u] = new]
            /\ new.fails = task[u].fails
            /\ Running(u) => new.armed = new.enabled /\ new.sequential = task[u].sequential
      BY <1>9 DEF Editing
    <2>2. CASE u = t
      <3>1. task'[t] = new
        BY <1>1, <2>1, <2>2 DEF IInv, TypeOK
      <3>2. loaded.life # "deleting"
        BY <1>2, <2>1, <2>2 DEF Copied
      <3> QED
        BY <1>1, <1>2, <1>3, <2>1, <2>2, <3>1, <3>2 DEF Copied
    <2>3. CASE u # t
      BY <1>1, <1>4, <2>1, <2>3 DEF IInv, TypeOK
    <2> QED
      BY <2>2, <2>3
  <1> QED
    BY <1>4, <1>5, <1>6, <1>7, <1>8, <1>9, Transactions DEF Transaction

\* A step after which every holder was one before, of a run whose status the
\* step leaves alone.
LEMMA LocksFrame ==
  ASSUME Locks,
         \A w \in Workers : Held(w)' =>
           /\ worker'[w].pc = worker[w].pc
           /\ worker'[w].run = worker[w].run
           /\ run'[worker[w].run].status = run[worker[w].run].status,
         \A d \in Dispatchers : Recovering(d)' =>
           /\ Recovering(d)
           /\ disp'[d].run = disp[d].run
           /\ run'[disp[d].run].status = run[disp[d].run].status
  PROVE  Locks'
  BY DEF Locks, Held, Recovering

LEMMA LocksStep ==
  ASSUME IInv, [Next]_vars
  PROVE  Locks'
  <1>0. /\ Locks
        /\ worker \in [Workers -> WorkerState] /\ IdleWorker.pc = "idle"
        /\ disp \in [Dispatchers -> DispState] /\ Off.pc = "off"
        /\ run \in [Runs -> RunRow]
        /\ \A w \in Workers : Held(w) => worker[w].run \in Runs
        /\ \A d \in Dispatchers : Recovering(d) => disp[d].run \in Runs
    BY DEF IInv, TypeOK, Assigned, IdleWorker, Off, Held, Recovering
  <1>1. CASE UNCHANGED vars
    BY <1>0, <1>1, LocksFrame DEF vars, Held, Recovering
  <1>2. ASSUME NEW d \in Dispatchers, Dispatch(d) PROVE Locks'
    <2>1. CASE RecoverCommit(d)
      <3>1. /\ UNCHANGED worker /\ disp'[d].pc = "recover"
            /\ \A c \in Dispatchers \ {d} : disp'[c] = disp[c]
            /\ \A r \in Runs \ {disp[d].run} : run'[r] = run[r]
        BY <1>0, <2>1 DEF RecoverCommit, Settle
      <3>2. /\ \A w \in Workers : Held(w) => worker[w].run # disp[d].run
            /\ \A c \in Dispatchers \ {d} : Recovering(c) => disp[c].run # disp[d].run
        BY <2>1 DEF IInv, Locks, RecoverCommit, Recovering
      <3> QED
        BY <1>0, <3>1, <3>2, LocksFrame DEF Held, Recovering
    <2>2. ASSUME NEW batch \in SUBSET Tasks, NEW newRun \in [batch -> Runs],
                 Enqueue(d, batch, newRun)
          PROVE  Locks'
      <3>1. \A r \in Runs : run[r].status # "unused" => run'[r] = run[r]
        BY <2>2, QueueingFacts
      <3>2. UNCHANGED worker /\ disp' = [disp EXCEPT ![d] = Off]
        BY <2>2 DEF Enqueue, Release
      <3> QED
        BY <1>0, <3>1, <3>2, LocksFrame DEF Held, Recovering, Locks
    <2>3. ASSUME NEW r \in Runs, RecoverSelect(d, r) PROVE Locks'
      BY <1>0, <2>3 DEF RecoverSelect, Stale, RunLocked, Locks, Held, Recovering
    <2>4. CASE DispatchBegin(d) \/ LeaderLost(d) \/ RecoverRetry(d) \/ RecoverDone(d)
                 \/ RecoverSkip(d) \/ DispatchEnd(d)
      <3>1. UNCHANGED <<run, worker>>
              /\ \A c \in Dispatchers : disp'[c] = disp[c] \/ disp'[c].pc # "recovering"
        BY <1>0, <2>4 DEF DispatchBegin, LeaderLost, RecoverRetry, RecoverDone, RecoverSkip,
                          DispatchEnd, Release, DispState
      <3> QED
        BY <1>0, <3>1, LocksFrame DEF Held, Recovering
    <2> QED
      BY <1>2, <2>1, <2>2, <2>3, <2>4 DEF Dispatch
  <1>3. ASSUME Aging, UNCHANGED <<worker, disp>> PROVE Locks'
    <2>1. \A r \in Runs : run'[r].status = run[r].status
      BY <1>0, <1>3 DEF Aging, RunRow
    <2> QED
      BY <1>0, <1>3, <2>1, LocksFrame DEF Held, Recovering
  <1>4. ASSUME NEW r \in Runs, HeartbeatLapse(r) \/ Overdue(r) PROVE Locks'
    BY <1>3, <1>4 DEF HeartbeatLapse, Overdue, Aging
  <1>5. ASSUME NEW w \in Workers,
               Claim(w) \/ Execute(w) \/ Heartbeat(w) \/ Finalize(w) \/ WorkerStop(w)
        PROVE  Locks'
    <2>0. UNCHANGED disp /\ (worker[w].pc \notin {"idle", "counted"} => worker[w].run \in Runs)
      BY <1>5 DEF IInv, Assigned, Claim, ClaimCount, ClaimSelect, ClaimNothing, ClaimStart,
         ClaimReject, ClaimConflict, Execute, PrepareSkip, PrepareDisabled, Prepare,
         OpenSession, OpenSessionGone, InvokeReturn, ExecuteError, Heartbeat, Finalize,
         FinalRead, FinalMismatch, FinalLock, FinalCommit, FinalConflict, FinalError, WorkerStop
    <2>1. ASSUME UNCHANGED run, worker'[w].pc \notin {"selected", "locked"},
                 \A v \in Workers \ {w} : worker'[v] = worker[v]
          PROVE  Locks'
      BY <1>0, <2>0, <2>1, LocksFrame DEF Held, Recovering
    <2>2. ASSUME Held(w), worker'[w].pc \notin {"selected", "locked"},
                 \A v \in Workers \ {w} : worker'[v] = worker[v],
                 \A r \in Runs \ {worker[w].run} : run'[r] = run[r]
          PROVE  Locks'
      <3>1. /\ \A v \in Workers \ {w} : Held(v) => worker[v].run # worker[w].run
            /\ \A d \in Dispatchers : Recovering(d) => disp[d].run # worker[w].run
        BY <2>2 DEF IInv, Locks
      <3> QED
        BY <1>0, <2>0, <2>2, <3>1, LocksFrame DEF Held, Recovering
    <2>3. ASSUME GoIdle(w)
          PROVE  worker'[w].pc = "idle" /\ \A v \in Workers \ {w} : worker'[v] = worker[v]
      BY <1>0, <2>3 DEF GoIdle
    <2>4. ASSUME Except(w)
          PROVE  worker'[w].pc = "ended" /\ \A v \in Workers \ {w} : worker'[v] = worker[v]
      BY <1>0, <2>4 DEF Except
    <2>5. ASSUME NEW pc, Goto(w, pc)
          PROVE  worker'[w].pc = pc /\ \A v \in Workers \ {w} : worker'[v] = worker[v]
      BY <1>0, <2>5 DEF Goto, WorkerState
    <2>6. CASE Claim(w)
      <3>1. ASSUME NEW r \in Runs, ClaimSelect(w, r) PROVE Locks'
        <4>1. /\ worker'[w].pc = "selected" /\ worker'[w].run = r
              /\ \A v \in Workers \ {w} : worker'[v] = worker[v]
              /\ UNCHANGED run /\ run[r].status = "pending" /\ ~RunLocked(r)
          BY <1>0, <3>1 DEF ClaimSelect, Claimable, WorkerState
        <4> QED
          BY <1>0, <2>0, <4>1 DEF RunLocked, Locks, Held, Recovering
      <3>2. CASE ClaimStart(w)
        BY <1>0, <3>2, <2>2, <2>5 DEF ClaimStart, Held
      <3>3. CASE ClaimReject(w)
        BY <1>0, <3>3, <2>2, <2>3 DEF ClaimReject, Held
      <3>4. CASE ClaimCount(w)
        BY <3>4, <2>1, <2>5 DEF ClaimCount
      <3> QED
        BY <2>6, <3>1, <3>2, <3>3, <3>4, <2>1, <2>3 DEF Claim, ClaimNothing, ClaimConflict
    <2>7. CASE Execute(w)
      <3>1. CASE PrepareDisabled(w)
        BY <1>0, <3>1, <2>1 DEF PrepareDisabled, WorkerState
      <3>2. ASSUME NEW outcome, InvokeReturn(w, outcome) PROVE Locks'
        BY <1>0, <3>2, <2>1 DEF InvokeReturn, WorkerState
      <3>3. CASE Prepare(w) \/ OpenSession(w)
        BY <3>3, <2>1, <2>5 DEF Prepare, OpenSession
      <3> QED
        BY <2>7, <3>1, <3>2, <3>3, <2>1, <2>3, <2>4
           DEF Execute, PrepareSkip, OpenSessionGone, ExecuteError
    <2>8. CASE Heartbeat(w)
      BY <1>3, <2>0, <2>8 DEF Heartbeat, Aging
    <2>9. CASE Finalize(w)
      <3>1. CASE FinalRead(w)
        BY <1>0, <3>1, <2>1 DEF FinalRead, WorkerState
      <3>2. CASE FinalLock(w)
        <4>1. /\ worker'[w].pc = "locked" /\ worker'[w].run = worker[w].run
              /\ \A v \in Workers \ {w} : worker'[v] = worker[v]
              /\ UNCHANGED run /\ run[worker[w].run].status = "running"
              /\ ~RunLocked(worker[w].run)
          BY <1>0, <3>2 DEF FinalLock, Goto, WorkerState
        <4> QED
          BY <1>0, <2>0, <4>1 DEF RunLocked, Locks, Held, Recovering
      <3>3. CASE FinalCommit(w)
        BY <1>0, <3>3, <2>2, <2>3 DEF FinalCommit, Settle, Held
      <3> QED
        BY <2>9, <3>1, <3>2, <3>3, <2>1, <2>3, <2>4
           DEF Finalize, FinalMismatch, FinalConflict, FinalError
    <2> QED
      BY <1>5, <2>6, <2>7, <2>8, <2>9, <2>1, <2>3 DEF WorkerStop
  <1>6. ASSUME NEW s \in Sessions, Serve(s) PROVE Locks'
    <2>1. ASSUME NEW r \in Runs, FailManually(s, r) PROVE Locks'
      <3>1. UNCHANGED <<worker, disp>> /\ ~RunLocked(r)
              /\ \A q \in Runs \ {r} : run'[q] = run[q]
        BY <1>0, <2>1 DEF FailManually, Settle
      <3> QED
        BY <1>0, <3>1, LocksFrame DEF RunLocked, Held, Recovering
    <2>2. CASE UNCHANGED <<run, worker, disp>>
      BY <1>0, <2>2, LocksFrame DEF Held, Recovering
    <2> QED
      BY <1>6, <2>1, <2>2, ServeFrame DEF IInv
  <1> QED
    BY <1>1, <1>2, <1>4, <1>5, <1>6 DEF Next

LEMMA AssignedStep ==
  ASSUME IInv, [Next]_vars
  PROVE  Assigned'
  <1>1. ASSUME NEW w \in Workers, worker'[w].pc \notin {"idle", "counted"}
        PROVE  worker'[w].run \in Runs
    BY <1>1, WorkerMoves DEF IInv, Assigned, Executing, ClaimStart
  <1>2. ASSUME NEW d \in Dispatchers, disp'[d].pc = "recovering"
        PROVE  disp'[d].run \in Runs
    <2>0. disp \in [Dispatchers -> DispState] /\ (Recovering(d) => disp[d].run \in Runs)
      BY DEF IInv, TypeOK, Assigned, Recovering
    <2>1. ASSUME NEW c \in Dispatchers, Dispatch(c) PROVE disp'[d].run \in Runs
      <3>1. CASE \E r \in Runs : RecoverSelect(c, r)
        BY <1>2, <2>0, <3>1 DEF RecoverSelect, Recovering
      <3>2. CASE c = d /\ ~\E r \in Runs : RecoverSelect(c, r)
        BY <1>2, <2>0, <2>1, <3>2 DEF Dispatch, DispatchBegin, LeaderLost, RecoverCommit,
           RecoverRetry, RecoverDone, RecoverSkip, Enqueue, DispatchEnd, Release, Off,
           DispState, Recovering
      <3>3. CASE c # d /\ ~\E r \in Runs : RecoverSelect(c, r)
        BY <1>2, <2>0, <2>1, <3>3 DEF Dispatch, DispatchBegin, LeaderLost, RecoverCommit,
           RecoverRetry, RecoverDone, RecoverSkip, Enqueue, DispatchEnd, Release, Recovering
      <3> QED
        BY <3>1, <3>2, <3>3
    <2>2. CASE UNCHANGED disp
      BY <1>2, <2>0, <2>2 DEF Recovering
    <2>3. ASSUME NEW w \in Workers,
                 Claim(w) \/ Execute(w) \/ Heartbeat(w) \/ Finalize(w) \/ WorkerStop(w)
          PROVE  UNCHANGED disp
      BY <2>3 DEF Claim, ClaimCount, ClaimSelect, ClaimNothing, ClaimStart,
         ClaimReject, ClaimConflict, Execute, PrepareSkip, PrepareDisabled, Prepare,
         OpenSession, OpenSessionGone, InvokeReturn, ExecuteError, Heartbeat, Finalize,
         FinalRead, FinalMismatch, FinalLock, FinalCommit, FinalConflict, FinalError, WorkerStop
    <2>4. ASSUME NEW s \in Sessions, Serve(s) PROVE UNCHANGED disp
      BY <2>4, ServeFrame DEF IInv
    <2> QED
      BY <2>1, <2>2, <2>3, <2>4 DEF Next, vars, HeartbeatLapse, Overdue
  <1> QED
    BY <1>1, <1>2, RowsStep DEF Assigned

\* Only its own request writes a task whose row it has locked, or changes
\* whether it is running.
LEMMA LockedRows ==
  ASSUME IInv, BackgroundStep
  PROVE  /\ UNCHANGED api
         /\ \A u \in Tasks : TaskLocked(u) => task'[u] = task[u] /\ (Running(u)' <=> Running(u))
  <1> DEFINE Spared ==
        \A u \in Tasks : TaskLocked(u) => task'[u] = task[u] /\ (Running(u)' <=> Running(u))
  <1>0. task \in [Tasks -> TaskRow] /\ run \in [Runs -> RunRow]
    BY DEF IInv, TypeOK
  <1>1. ASSUME UNCHANGED task,
               \A r \in Runs : run'[r].status = run[r].status /\ run'[r].task = run[r].task
        PROVE  Spared
    <2>1. \A u \in Tasks : Running(u)' <=> Running(u)
      BY <1>1 DEF Running, Is
    <2> QED
      BY <1>1, <2>1
  <1>2. ASSUME NEW r \in Runs, ~TaskLocked(run[r].task), UNCHANGED task,
               NEW status, NEW age, run' = [run EXCEPT ![r].status = status, ![r].age = age]
        PROVE  Spared
    BY <1>0, <1>2 DEF Running, Is, RunRow
  <1>3. ASSUME NEW r \in Runs, ~TaskLocked(run[r].task), NEW outcome, NEW loaded,
               Settle(r, outcome, loaded)
        PROVE  Spared
    BY <1>0, <1>3 DEF Settle, Running, Is, RunRow
  <1>4. ASSUME Aging PROVE Spared
    <2>1. \A r \in Runs : run'[r].status = run[r].status /\ run'[r].task = run[r].task
      BY <1>0, <1>4 DEF Aging, RunRow
    <2> QED
      BY <1>1, <1>4, <2>1 DEF Aging
  <1>5. ASSUME NEW d \in Dispatchers, Dispatch(d) PROVE UNCHANGED api /\ Spared
    <2>1. CASE RecoverCommit(d)
      BY <1>3, <2>1 DEF RecoverCommit, IInv, Assigned
    <2>2. ASSUME NEW batch \in SUBSET Tasks, NEW newRun \in [batch -> Runs],
                 Enqueue(d, batch, newRun)
          PROVE  UNCHANGED api /\ Spared
      <3>1. \A u \in Tasks : TaskLocked(u) => task'[u] = task[u]
        BY <2>2 DEF Enqueue, Enqueueable
      <3>2. \A r \in Runs : \/ run'[r] = run[r]
                            \/ run[r].status = "unused" /\ run'[r].status = "pending"
        <4>1. \A t \in batch : run[newRun[t]].status = "unused"
                               /\ run'[newRun[t]].status = "pending"
          BY <2>2, QueueingFacts
        <4>2. \A r \in Runs : (\A t \in batch : newRun[t] # r) => run'[r] = run[r]
          BY <2>2, QueueingFacts
        <4> QED
          BY <4>1, <4>2
      <3>3. \A u \in Tasks : Running(u)' <=> Running(u)
        BY <3>2 DEF Running, Is
      <3> QED
        BY <2>2, <3>1, <3>3 DEF Enqueue
    <2> QED
      BY <1>1, <1>5, <2>1, <2>2 DEF Dispatch, DispatchBegin, LeaderLost, RecoverSelect,
         RecoverRetry, RecoverDone, RecoverSkip, DispatchEnd
  <1>6. ASSUME NEW w \in Workers,
               Claim(w) \/ Execute(w) \/ Heartbeat(w) \/ Finalize(w) \/ WorkerStop(w)
        PROVE  UNCHANGED api /\ Spared
    <2>0. worker[w].pc \in {"selected", "locked", "invoking"} => worker[w].run \in Runs
      BY DEF IInv, Assigned
    <2>1. CASE FinalCommit(w)
      BY <1>3, <2>0, <2>1 DEF FinalCommit, MyTask
    <2>2. CASE ClaimStart(w)
      BY <1>2, <2>0, <2>2 DEF ClaimStart
    <2>3. CASE ClaimReject(w)
      <3>1. run' = [run EXCEPT ![worker[w].run].status = "failed",
                               ![worker[w].run].age = run[worker[w].run].age]
        BY <1>0, <2>0, <2>3 DEF ClaimReject, RunRow
      <3> QED
        BY <1>2, <2>0, <2>3, <3>1 DEF ClaimReject
    <2>4. CASE Heartbeat(w)
      BY <1>4, <2>0, <2>4 DEF Heartbeat, Aging
    <2> QED
      BY <1>1, <1>6, <2>1, <2>2, <2>3, <2>4
         DEF Claim, ClaimCount, ClaimSelect, ClaimNothing, ClaimConflict,
             Execute, PrepareSkip, PrepareDisabled, Prepare, OpenSession, OpenSessionGone,
             InvokeReturn, ExecuteError, Finalize, FinalRead, FinalMismatch, FinalLock,
             FinalConflict, FinalError, WorkerStop
  <1>7. ASSUME NEW r \in Runs, HeartbeatLapse(r) \/ Overdue(r) PROVE UNCHANGED api /\ Spared
    BY <1>4, <1>7 DEF HeartbeatLapse, Overdue, Aging
  <1> QED
    BY <1>5, <1>6, <1>7 DEF BackgroundStep

LEMMA RequestsStep ==
  ASSUME IInv, [Next]_vars
  PROVE  Requests'
  <1>0. /\ Requests /\ task \in [Tasks -> TaskRow] /\ api \in [Sessions -> ApiState]
        /\ \A t \in Tasks : t # None
    BY NoneAssumption DEF IInv, TypeOK
  <1>1. ASSUME UNCHANGED api, \A u \in Tasks : TaskLocked(u) => task'[u] = task[u]
        PROVE  Requests'
    BY <1>0, <1>1 DEF Requests, TaskLocked
  <1>2. ASSUME NEW s \in Sessions, Serve(s) PROVE Requests'
    <2>1. ASSUME Reply(s),
                 \A u \in Tasks : TaskLocked(u) /\ u # api[s].task => task'[u] = task[u]
          PROVE  Requests'
      <3>1. api'[s].op = "none" /\ api'[s].task = None
              /\ \A x \in Sessions \ {s} : api'[x] = api[x]
        BY <1>0, <2>1 DEF Reply, NoRequest
      <3>2. ASSUME NEW x \in Sessions \ {s},
                   api[x].op \in {"update", "toggle", "delete", "fail"}
            PROVE  task'[api[x].task] = task[api[x].task]
        BY <1>0, <2>1, <3>2 DEF Requests, TaskLocked
      <3> QED
        BY <1>0, <3>1, <3>2 DEF Requests
    <2>2. CASE BeginCreate(s)
      BY <1>0, <2>2 DEF BeginCreate, Requests
    <2>3. ASSUME NEW op \in {"update", "toggle", "delete", "fail"}, NEW t \in Tasks,
                 BeginRequest(s, op, t)
          PROVE  Requests'
      <3>1. /\ api'[s].op = op /\ api'[s].task = t
            /\ \A x \in Sessions \ {s} : api'[x] = api[x]
            /\ \A x \in Sessions : api[x].op # "none" => api[x].task # t
            /\ UNCHANGED task /\ task[t].life = "live"
        BY <1>0, <2>3 DEF BeginRequest, TaskLocked
      <3> QED
        BY <1>0, <3>1 DEF Requests, ApiState
    <2>4. CASE CheckQuota(s) \/ CheckRunning(s) \/ RequestError(s)
      <3>1. CASE RequestError(s)
        BY <2>1, <3>1 DEF RequestError
      <3>2. CASE CheckQuota(s) \/ CheckRunning(s)
        <4>1. UNCHANGED task
                /\ \A x \in Sessions : api'[x].op = api[x].op /\ api'[x].task = api[x].task
          BY <1>0, <3>2 DEF CheckQuota, CheckRunning, ApiState
        <4> QED
          BY <1>0, <4>1 DEF Requests
      <3> QED
        BY <2>4, <3>1, <3>2
    <2>5. ASSUME NEW t \in Tasks, NEW enabled \in BOOLEAN, NEW sequential \in BOOLEAN,
                 NEW agent \in Agents, Insert(t, enabled, sequential, agent)
          PROVE  \A u \in Tasks : TaskLocked(u) => task'[u] = task[u]
      BY <1>0, <2>5 DEF Insert, TaskLocked, Requests, ApiState
    <2>6. ASSUME NEW t \in Tasks, NEW sequential \in BOOLEAN, NEW agent \in Agents,
                 CreateEnabled(s, t, sequential, agent) \/ CreateDisabled(s, t, sequential, agent)
          PROVE  Requests'
      BY <1>1, <2>1, <2>5, <2>6 DEF CreateEnabled, CreateDisabled
    <2>7. CASE \E enable \in {"keep", "on", "off"}, rescheduled, sequential \in BOOLEAN,
                  agent \in Agents : Update(s, enable, rescheduled, sequential, agent)
      BY <1>0, <2>1, <2>7 DEF Update
    <2>8. CASE (\E enabled \in BOOLEAN : SetEnabled(s, enabled)) \/ Delete(s)
      BY <1>0, <2>1, <2>8 DEF SetEnabled, Delete
    <2>9. CASE \E r \in Runs : FailManually(s, r)
      BY <1>0, <2>1, <2>9 DEF FailManually, Settle, Is
    <2> QED
      BY <1>2, <2>2, <2>3, <2>4, <2>6, <2>7, <2>8, <2>9 DEF Serve
  <1>3. CASE UNCHANGED vars
    BY <1>0, <1>1, <1>3 DEF vars
  <1>4. ASSUME ~\E s \in Sessions : Serve(s), Next PROVE Requests'
    BY <1>1, <1>4, LockedRows DEF Next, BackgroundStep
  <1> QED
    BY <1>2, <1>3, <1>4

LEMMA SightsStep ==
  ASSUME IInv, [Next]_vars
  PROVE  Sights'
  <1> SUFFICES ASSUME NEW s \in Sessions,
                      NEW t, t = api'[s].task, NEW here, here = (Running(t)')
               PROVE  /\ api'[s].op = "update" /\ api'[s].saw # "nothing" => ~here
                      /\ api'[s].op = "delete" /\ api'[s].saw = "running" => here
                      /\ api'[s].op = "delete" /\ api'[s].saw = "idle" => ~here
    BY DEF Sights, Running, Is
  <1> DEFINE Fine == /\ api'[s].op = "update" /\ api'[s].saw # "nothing" => ~here
                     /\ api'[s].op = "delete" /\ api'[s].saw = "running" => here
                     /\ api'[s].op = "delete" /\ api'[s].saw = "idle" => ~here
  <1>0. /\ Sights /\ Requests /\ api \in [Sessions -> ApiState] /\ run \in [Runs -> RunRow]
        /\ \A u \in Tasks : u # None
    BY NoneAssumption DEF IInv, TypeOK
  <1>1. ASSUME api'[s] = api[s],
               api[s].op \in {"update", "delete"} => (Running(t)' <=> Running(t))
        PROVE  Fine
    BY <1>0, <1>1 DEF Sights
  <1>2. CASE BackgroundStep
    <2>1. UNCHANGED api
            /\ \A u \in Tasks : TaskLocked(u) => task'[u] = task[u] /\ (Running(u)' <=> Running(u))
      BY <1>2, LockedRows
    <2>2. api[s].op \in {"update", "delete"} => t \in Tasks /\ TaskLocked(t)
      BY <1>0, <2>1 DEF Requests, TaskLocked
    <2> QED
      BY <1>1, <2>1, <2>2
  <1>3. ASSUME UNCHANGED run PROVE Running(t)' <=> Running(t)
    BY <1>3 DEF Running, Is
  <1>4. ASSUME NEW x \in Sessions, Serve(x), x # s PROVE Fine
    <2>1. api'[s] = api[s]
      BY <1>4, ServeFrame DEF IInv
    <2>2. CASE UNCHANGED run
      BY <1>1, <1>3, <2>1, <2>2
    <2>3. ASSUME NEW r \in Runs, FailManually(x, r) PROVE Fine
      <3>1. run[r].task = api[x].task /\ (api[s].op \in {"update", "delete"} => api[x].task # t)
        BY <1>0, <1>4, <2>1, <2>3 DEF FailManually, Is, Requests
      <3>2. run'[r].task = run[r].task /\ \A q \in Runs \ {r} : run'[q] = run[q]
        BY <1>0, <2>3 DEF FailManually, Settle, RunRow
      <3>3. api[s].op \in {"update", "delete"} => (Running(t)' <=> Running(t))
        BY <3>1, <3>2 DEF Running, Is
      <3> QED
        BY <1>1, <2>1, <3>3
    <2> QED
      BY <1>4, <2>2, <2>3, ServeFrame DEF IInv
  <1>5. CASE Serve(s)
    <2>1. ASSUME Reply(s) PROVE Fine
      BY <1>0, <2>1 DEF Reply, NoRequest
    <2>2. CASE BeginCreate(s) \/ \E op \in {"update", "toggle", "delete", "fail"}, u \in Tasks :
                                   BeginRequest(s, op, u)
      BY <1>0, <2>2 DEF BeginCreate, BeginRequest, ApiState
    <2>3. CASE CheckQuota(s)
      <3>1. api'[s].op = api[s].op /\ api'[s].task = api[s].task /\ UNCHANGED run
              /\ api[s].op \in {"create", "update", "toggle"}
              /\ (api[s].op = "update" => ~Running(t))
        BY <1>0, <2>3 DEF CheckQuota, ApiState
      <3> QED
        BY <1>3, <3>1
    <2>4. CASE CheckRunning(s)
      <3>1. api'[s].op = "delete" /\ t = api[s].task /\ UNCHANGED run
              /\ api'[s].saw = IF Running(api[s].task) THEN "running" ELSE "idle"
        BY <1>0, <2>4 DEF CheckRunning, ApiState
      <3> QED
        BY <1>3, <3>1
    <2>5. CASE \E t0 \in Tasks, sequential \in BOOLEAN, agent \in Agents :
                 CreateEnabled(s, t0, sequential, agent)
                   \/ CreateDisabled(s, t0, sequential, agent)
      <3>1. Reply(s) \/ UNCHANGED <<api, run>>
        BY <2>5 DEF CreateEnabled, CreateDisabled
      <3> QED
        BY <1>1, <1>3, <2>1, <3>1
    <2>6. CASE \E enable \in {"keep", "on", "off"}, rescheduled, sequential \in BOOLEAN,
                  agent \in Agents : Update(s, enable, rescheduled, sequential, agent)
      BY <2>1, <2>6 DEF Update
    <2>7. CASE RequestError(s) \/ Delete(s) \/ (\E enabled \in BOOLEAN : SetEnabled(s, enabled))
                 \/ \E r \in Runs : FailManually(s, r)
      BY <2>1, <2>7 DEF RequestError, Delete, SetEnabled, FailManually
    <2> QED
      BY <1>5, <2>2, <2>3, <2>4, <2>5, <2>6, <2>7 DEF Serve
  <1> QED
    BY <1>1, <1>2, <1>3, <1>4, <1>5 DEF Next, BackgroundStep, vars

-----------------------------------------------------------------------------
(* The theorems *)

LEMMA InitIInv == Init => IInv
  <1> SUFFICES ASSUME Init PROVE IInv
    OBVIOUS
  <1>1. TypeOK
    BY BlankTypes DEF Init, TypeOK, Off, DispState, NoRequest, ApiState
  <1>2. \A t \in Tasks : ~Active(t) /\ ~Running(t)
    BY DEF Init, Active, Running, Is, UnusedRun
  <1>3. Assigned /\ Requests
    BY DEF Init, Assigned, Requests, IdleWorker, Off, UnusedRun, NoRequest, BlankRow
  <1>4. Locks /\ Started /\ OneExecutor /\ Copies
    BY DEF Init, Locks, Started, OneExecutor, Copies, Executing, Held, Recovering,
           IdleWorker, Off
  <1>5. Sights
    BY DEF Init, Sights, NoRequest
  <1>6. OneActiveRun /\ RunningIsRecoverable
    BY DEF Init, OneActiveRun, RunningIsRecoverable, UnusedRun
  <1>7. Armed /\ NoLostSchedule
    BY <1>2 DEF Init, Armed, NoLostSchedule, BlankRow
  <1> QED
    BY <1>1, <1>3, <1>4, <1>5, <1>6, <1>7 DEF IInv

THEOREM Inductive == Spec => []IInv
  <1>1. IInv /\ [Next]_vars => IInv'
    <2> SUFFICES ASSUME IInv, [Next]_vars PROVE IInv'
      OBVIOUS
    <2>1. TypeOK'
      BY TypeStep DEF IInv
    <2> QED
      BY <2>1, AssignedStep, RequestsStep, SightsStep, LocksStep, StartedStep, OneActiveRunStep,
         OneExecutorStep, RecoverableStep, ArmingStep, CopiesStep DEF IInv
  <1> QED
    BY <1>1, InitIInv, PTL DEF Spec

\* Every row and every process state keeps its type.
THEOREM TypeCorrect == Spec => []TypeOK
  BY Inductive, PTL DEF IInv

\* No task ever has two pending or running runs.
THEOREM AtMostOneActiveRun == Spec => []OneActiveRun
  BY Inductive, PTL DEF IInv

\* No run is ever executed by two workers, whatever crashes or is recovered.
THEOREM ExecutedByOne == Spec => []OneExecutor
  BY Inductive, PTL DEF IInv

\* A running run is always one that recovery can still find.
THEOREM AlwaysRecoverable == Spec => []RunningIsRecoverable
  BY Inductive, PTL DEF IInv

\* An enabled task always has a next run: scheduled, queued or running.
THEOREM ScheduleKept == Spec => []NoLostSchedule
  BY Inductive, PTL DEF IInv

\* The end of a run never enables a task.
THEOREM EndKeepsDisabled == Spec => EndNeverReenables
  <1>1. ASSUME IInv, [Next]_vars, NEW t \in Tasks,
               Running(t), ~Running(t)', task'[t].enabled
        PROVE  task[t].enabled
    <2>1. CASE Ending
      <3>1. PICK r \in Runs, outcome \in {"success", "failed"}, loaded \in TaskRow :
              /\ run[r].status = "running"
              /\ Copied(loaded, task[run[r].task])
              /\ Settle(r, outcome, loaded)
        BY <2>1 DEF Ending
      <3>2. CASE run[r].task = t
        BY <1>1, <3>1, <3>2, EndingFacts, ProjectionFacts
      <3>3. CASE run[r].task # t
        BY <1>1, <3>1, <3>3, EndingFacts
      <3> QED
        BY <3>2, <3>3
    <2>2. PICK r \in Runs : Is(r, t, "running")
      BY <1>1 DEF Running
    <2>3. run'[r].task = t /\ run'[r].status # "running"
      BY <1>1, <2>2, StartedStays DEF Running, Is
    <2> QED
      BY <1>1, <2>1, <2>2, <2>3, StartedStays DEF Is
  <1>2. IInv /\ [Next]_vars =>
          [\A t \in Tasks : Running(t) /\ ~Running(t)' /\ task'[t].enabled => task[t].enabled]_vars
    BY <1>1
  <1> QED
    BY <1>2, Inductive, PTL DEF Spec, EndNeverReenables

-----------------------------------------------------------------------------
(* Refinement *)

LEMMA LedgerStutter ==
  ASSUME \A r \in Runs : run'[r].status = run[r].status /\ run'[r].task = run[r].task,
         \A t \in Tasks : task'[t].fails = task[t].fails
  PROVE  UNCHANGED Ledger!ledgerVars
  BY DEF Ledger!ledgerVars

LEMMA LedgerStep ==
  ASSUME IInv, [Next]_vars
  PROVE  [Ledger!Next]_(Ledger!ledgerVars)
  <1> DEFINE status == [r \in Runs |-> run[r].status]
             owner == [r \in Runs |-> run[r].task]
             failures == [t \in Tasks |-> task[t].fails]
  <1>0. /\ run \in [Runs -> RunRow] /\ task \in [Tasks -> TaskRow]
        /\ \A t \in Tasks : task[t].life = "absent" => task[t].fails = 0
    BY DEF IInv, TypeOK, Assigned
  <1>1. CASE UNCHANGED <<task, run>>
    BY <1>1, LedgerStutter
  <1>2. CASE Aging
    <2>1. \A r \in Runs : run'[r].status = run[r].status /\ run'[r].task = run[r].task
      BY <1>0, <1>2 DEF Aging, RunRow
    <2> QED
      BY <1>2, <2>1, LedgerStutter DEF Aging
  <1>3. CASE Launching
    <2>1. PICK r \in Runs :
            /\ run[r].status = "pending"
            /\ run' = [run EXCEPT ![r].status = "running", ![r].age = "fresh"]
      BY <1>3 DEF Launching
    <2>2. status' = [status EXCEPT ![r] = "running"] /\ owner' = owner /\ failures' = failures
      BY <1>0, <1>3, <2>1 DEF Launching, RunRow
    <2>3. Ledger!Start(r)
      BY <2>1, <2>2 DEF Ledger!Start
    <2> QED
      BY <2>3 DEF Ledger!Next
  <1>4. CASE Rejecting
    <2>1. PICK r \in Runs :
            /\ run[r].status = "pending"
            /\ run' = [run EXCEPT ![r].status = "failed"]
      BY <1>4 DEF Rejecting
    <2>2. status' = [status EXCEPT ![r] = "failed"] /\ owner' = owner /\ failures' = failures
      BY <1>0, <1>4, <2>1 DEF Rejecting, RunRow
    <2>3. Ledger!Reject(r)
      BY <2>1, <2>2 DEF Ledger!Reject
    <2> QED
      BY <2>3 DEF Ledger!Next
  <1>5. CASE Ending
    <2>1. PICK r \in Runs, outcome \in {"success", "failed"}, loaded \in TaskRow :
            /\ run[r].status = "running"
            /\ Copied(loaded, task[run[r].task])
            /\ Settle(r, outcome, loaded)
      BY <1>5 DEF Ending
    <2> DEFINE t == run[r].task
               count == IF outcome = "success" THEN 0 ELSE task[t].fails + 1
    <2>2. t \in Tasks /\ task'[t].fails = count
      BY <2>1, EndingFacts, ProjectionFacts
    <2>3. status' = [status EXCEPT ![r] = outcome] /\ owner' = owner
      <3>1. \A q \in Runs : /\ run'[q].status = IF q = r THEN outcome ELSE run[q].status
                            /\ run'[q].task = run[q].task
        BY <2>1, EndingFacts
      <3> QED
        BY <3>1
    <2>4. failures' = [failures EXCEPT ![t] = count]
      <3>1. \A u \in Tasks \ {t} : task'[u] = task[u]
        BY <2>1, EndingFacts
      <3>2. \A u \in Tasks : task'[u].fails = IF u = t THEN count ELSE task[u].fails
        BY <2>2, <3>1
      <3> QED
        BY <3>2
    <2>5. owner[r] = t /\ failures[t] = task[t].fails
      BY <2>2
    <2>6. CASE outcome = "success"
      <3>1. Ledger!Succeed(r)
        BY <2>1, <2>3, <2>4, <2>5, <2>6 DEF Ledger!Succeed
      <3> QED
        BY <3>1 DEF Ledger!Next
    <2>7. CASE outcome = "failed"
      <3>1. Ledger!Fail(r)
        BY <2>1, <2>2, <2>3, <2>4, <2>5, <2>7 DEF Ledger!Fail
      <3> QED
        BY <3>1 DEF Ledger!Next
    <2> QED
      BY <2>6, <2>7
  <1>6. CASE Queueing
    <2>0. PICK d \in Dispatchers, batch \in SUBSET Tasks : \E newRun \in [batch -> Runs] :
            Enqueue(d, batch, newRun)
      BY <1>6 DEF Queueing
    <2>1. PICK newRun \in [batch -> Runs] : Enqueue(d, batch, newRun)
      BY <2>0
    <2> DEFINE opened == {newRun[t] : t \in batch}
               taskOf == [r \in opened |-> CHOOSE t \in batch : newRun[t] = r]
    <2>2. opened \in SUBSET Runs /\ taskOf \in [opened -> batch]
            /\ \A r \in opened : newRun[taskOf[r]] = r
      OBVIOUS
    <2>4. \A r \in Runs \ opened : run'[r] = run[r]
      BY <2>1, QueueingFacts
    <2> HIDE DEF opened, taskOf
    <2>3. ASSUME NEW r \in opened
          PROVE  run[r].status = "unused" /\ run'[r].status = "pending"
                   /\ run'[r].task = taskOf[r] /\ ~Active(taskOf[r])
      <3>1. taskOf[r] \in batch /\ newRun[taskOf[r]] = r
        BY <2>2
      <3>2. run[r].status = "unused" /\ run'[r].status = "pending" /\ run'[r].task = taskOf[r]
        BY <2>1, <3>1, QueueingFacts
      <3>3. ~Active(taskOf[r])
        <4>1. \A t \in batch : Enqueueable(t)
          BY <2>1, QueueingFacts
        <4> QED
          BY <3>1, <4>1 DEF Enqueueable
      <3> QED
        BY <3>2, <3>3
    <2>5. failures' = failures
      <3>1. \A t \in batch : task'[t] = [task[t] EXCEPT !.armed = ~task[t].sequential]
        BY <2>1, QueueingFacts
      <3>2. \A t \in Tasks \ batch : task'[t] = task[t]
        BY <2>1, QueueingFacts
      <3>3. \A t \in Tasks : [task[t] EXCEPT !.armed = ~task[t].sequential].fails = task[t].fails
        BY <1>0 DEF TaskRow
      <3>4. \A t \in Tasks : task'[t].fails = task[t].fails
        BY <3>1, <3>2, <3>3
      <3> QED
        BY <3>4
    <2>6. ASSUME NEW r \in opened PROVE ~Ledger!Occupied(taskOf[r])
      <3> SUFFICES ASSUME NEW q \in Runs, run[q].task = taskOf[r],
                          run[q].status \in {"pending", "running"}
                   PROVE  FALSE
        BY DEF Ledger!Occupied
      <3> QED
        BY <2>3 DEF Active, Is
    <2>7. status' = [r \in Runs |-> IF r \in opened THEN "pending" ELSE status[r]]
      BY <2>3, <2>4
    <2>8. owner' = [r \in Runs |-> IF r \in opened THEN taskOf[r] ELSE owner[r]]
      BY <2>3, <2>4
    <2>9. Ledger!Open(opened, taskOf)
      <3>1. \A r \in opened : status[r] = "unused"
        BY <2>2, <2>3
      <3>2. \A r, s \in opened : taskOf[r] = taskOf[s] => r = s
        BY <2>2
      <3> QED
        BY <2>5, <2>6, <2>7, <2>8, <3>1, <3>2 DEF Ledger!Open
    <2>10. taskOf \in [opened -> Tasks]
      BY <2>2
    <2> QED
      BY <2>2, <2>9, <2>10 DEF Ledger!Next
  <1>7. CASE Creating
    <2>1. \A t \in Tasks : task'[t].fails = task[t].fails
      BY <1>0, <1>7 DEF Creating, Insert
    <2> QED
      BY <1>7, <2>1, LedgerStutter DEF Creating
  <1>8. CASE Editing
    <2>1. \A t \in Tasks : task'[t].fails = task[t].fails
      BY <1>0, <1>8 DEF Editing
    <2> QED
      BY <1>8, <2>1, LedgerStutter DEF Editing
  <1> QED
    BY <1>1, <1>2, <1>3, <1>4, <1>5, <1>6, <1>7, <1>8, Transactions DEF Transaction

\* The tables implement the ledger of runs: whatever the processes do, runs
\* are opened, started and settled once, and failures counted once.
THEOREM Refinement == Spec => ImplementsLedger
  <1>1. Init => Ledger!Init
    BY DEF Init, Ledger!Init, UnusedRun, BlankRow
  <1> QED
    BY <1>1, LedgerStep, Inductive, PTL DEF Spec, ImplementsLedger, Ledger!Spec

-----------------------------------------------------------------------------
(* The quota of active schedules *)

QuotaOp(s) == api[s].op \in {"create", "update", "toggle"}

\* One request at a time works under the quota lock, and the room it has seen
\* is still there.
QuotaIInv ==
  /\ \A s, u \in Sessions : QuotaOp(s) /\ QuotaOp(u) => s = u
  /\ \A s \in Sessions : QuotaOp(s) /\ api[s].saw = "room" => Cardinality(ActiveTasks) < Quota
  /\ Cardinality(ActiveTasks) <= Quota

LEMMA ActiveTasksFinite ==
  ASSUME TypeOK
  PROVE  IsFiniteSet(ActiveTasks) /\ Cardinality(ActiveTasks) \in Nat
  BY FiniteAssumption, FS_Subset, FS_CardinalityType DEF ActiveTasks

\* The end of a run makes no task active.
LEMMA EndingActivatesNothing ==
  ASSUME IInv, Ending
  PROVE  ActiveTasks' \subseteq ActiveTasks
  <1> SUFFICES ASSUME NEW t \in Tasks, task'[t].life = "live", task'[t].enabled
               PROVE  task[t].life = "live" /\ task[t].enabled
    BY DEF ActiveTasks
  <1>1. PICK r \in Runs, outcome \in {"success", "failed"}, loaded \in TaskRow :
          /\ run[r].status = "running"
          /\ Copied(loaded, task[run[r].task])
          /\ Settle(r, outcome, loaded)
    BY DEF Ending
  <1>2. CASE run[r].task = t
    <2>1. task'[t] = Projection(task[t], loaded, outcome) /\ task[t] \in TaskRow
      BY <1>1, <1>2, EndingFacts
    <2> QED
      BY <1>1, <1>2, <2>1, ProjectionFacts
  <1>3. CASE run[r].task # t
    <2>1. task'[t] = task[t]
      BY <1>1, <1>3, EndingFacts
    <2> QED
      BY <2>1
  <1> QED
    BY <1>2, <1>3

\* No process but a request makes a task active.
LEMMA BackgroundActivatesNothing ==
  ASSUME IInv, BackgroundStep
  PROVE  ActiveTasks' \subseteq ActiveTasks
  <1>1. CASE UNCHANGED <<task, run>>
    BY <1>1 DEF ActiveTasks
  <1>2. CASE Aging \/ Launching \/ Rejecting
    BY <1>2, RunMoves DEF IInv, ActiveTasks
  <1>3. CASE Ending
    BY <1>3, EndingActivatesNothing
  <1>4. CASE Queueing
    <2>0. PICK d \in Dispatchers, batch \in SUBSET Tasks : \E newRun \in [batch -> Runs] :
            Enqueue(d, batch, newRun)
      BY <1>4 DEF Queueing
    <2>1. PICK newRun \in [batch -> Runs] : Enqueue(d, batch, newRun)
      BY <2>0
    <2>2. \A t \in Tasks : task[t] \in TaskRow
      BY DEF IInv, TypeOK
    <2>3. \A t \in Tasks : \/ task'[t] = task[t]
                           \/ task'[t] = [task[t] EXCEPT !.armed = ~task[t].sequential]
      BY <2>1 DEF Enqueue
    <2>4. \A t \in Tasks : task'[t].life = task[t].life /\ task'[t].enabled = task[t].enabled
      BY <2>2, <2>3 DEF TaskRow
    <2> QED
      BY <2>4 DEF ActiveTasks
  <1> QED
    BY <1>1, <1>2, <1>3, <1>4, BackgroundTransactions

LEMMA QuotaStep ==
  ASSUME IInv, QuotaIInv, [Next]_vars
  PROVE  QuotaIInv'
  <1>0. /\ TypeOK /\ TypeOK' /\ api \in [Sessions -> ApiState] /\ task \in [Tasks -> TaskRow]
        /\ IsFiniteSet(ActiveTasks) /\ Cardinality(ActiveTasks) \in Nat
        /\ Quota \in Nat
    BY TypeStep, ActiveTasksFinite, LimitsAssumption DEF IInv, TypeOK
  <1>1. ASSUME ActiveTasks' \subseteq ActiveTasks,
               \A x \in Sessions : QuotaOp(x)' => QuotaOp(x) /\ api'[x].saw = api[x].saw
        PROVE  QuotaIInv'
    <2>1. Cardinality(ActiveTasks') <= Cardinality(ActiveTasks)
            /\ Cardinality(ActiveTasks') \in Nat
      BY <1>0, <1>1, FS_Subset, FS_CardinalityType
    <2> QED
      BY <1>0, <1>1, <2>1 DEF QuotaIInv
  <1>2. ASSUME NEW s \in Sessions, Reply(s)
        PROVE  \A x \in Sessions : QuotaOp(x)' => x # s /\ QuotaOp(x) /\ api'[x].saw = api[x].saw
    BY <1>0, <1>2 DEF Reply, NoRequest, QuotaOp
  <1>3. ASSUME NEW s \in Sessions, QuotaOp(s), api[s].saw = "room", Reply(s),
               NEW t, ActiveTasks' \subseteq ActiveTasks \cup {t}
        PROVE  QuotaIInv'
    <2>1. \A x \in Sessions : ~QuotaOp(x)'
      BY <1>2, <1>3 DEF QuotaIInv
    <2>2. Cardinality(ActiveTasks') <= Cardinality(ActiveTasks) + 1
            /\ Cardinality(ActiveTasks') \in Nat
      <3>1. IsFiniteSet(ActiveTasks \cup {t})
              /\ Cardinality(ActiveTasks \cup {t}) <= Cardinality(ActiveTasks) + 1
              /\ Cardinality(ActiveTasks \cup {t}) \in Nat
        <4>1. IsFiniteSet(ActiveTasks \cup {t})
                /\ \/ Cardinality(ActiveTasks \cup {t}) = Cardinality(ActiveTasks)
                   \/ Cardinality(ActiveTasks \cup {t}) = Cardinality(ActiveTasks) + 1
          BY <1>0, FS_AddElement
        <4> QED
          BY <1>0, <4>1
      <3> QED
        BY <1>0, <1>3, <3>1, FS_Subset, FS_CardinalityType
    <2>3. Cardinality(ActiveTasks) < Quota
      BY <1>3 DEF QuotaIInv
    <2> QED
      BY <1>0, <2>1, <2>2, <2>3 DEF QuotaIInv
  <1>4. CASE BackgroundStep
    <2>1. UNCHANGED api
      BY <1>4, LockedRows
    <2> QED
      BY <1>1, <1>4, <2>1, BackgroundActivatesNothing DEF QuotaOp
  <1>5. ASSUME NEW s \in Sessions, Serve(s) PROVE QuotaIInv'
    <2>1. CASE BeginCreate(s) \/ \E op \in {"update", "toggle", "delete", "fail"}, t \in Tasks :
                                   BeginRequest(s, op, t)
      <3>1. /\ ActiveTasks' = ActiveTasks
            /\ QuotaOp(s)' => api'[s].saw # "room" /\ ~QuotaLocked
            /\ \A x \in Sessions \ {s} : api'[x] = api[x]
        BY <1>0, <2>1 DEF BeginCreate, BeginRequest, ActiveTasks, QuotaOp, ApiState
      <3> QED
        BY <1>0, <3>1 DEF QuotaIInv, QuotaOp, QuotaLocked
    <2>2. CASE CheckQuota(s)
      <3>1. /\ ActiveTasks' = ActiveTasks /\ QuotaOp(s)
            /\ api'[s].saw = "room" => Cardinality(ActiveTasks) < Quota
            /\ \A x \in Sessions \ {s} : api'[x] = api[x]
        BY <1>0, <2>2 DEF CheckQuota, ActiveTasks, QuotaLeft, QuotaOp, ApiState
      <3> QED
        BY <1>0, <3>1 DEF QuotaIInv, QuotaOp
    <2>3. CASE CheckRunning(s)
      <3>1. /\ ActiveTasks' = ActiveTasks
            /\ \A x \in Sessions : QuotaOp(x)' => QuotaOp(x) /\ api'[x].saw = api[x].saw
        BY <1>0, <2>3 DEF CheckRunning, ActiveTasks, QuotaOp, ApiState
      <3> QED
        BY <1>1, <3>1
    <2>4. CASE RequestError(s)
      <3>1. ActiveTasks' = ActiveTasks
        BY <2>4 DEF RequestError, ActiveTasks
      <3> QED
        BY <1>1, <1>2, <2>4, <3>1 DEF RequestError
    <2>5. ASSUME NEW t \in Tasks, NEW sequential \in BOOLEAN, NEW agent \in Agents,
                 CreateEnabled(s, t, sequential, agent)
          PROVE  QuotaIInv'
      <3>1. ActiveTasks' \subseteq ActiveTasks \cup {t}
        BY <1>0, <2>5 DEF CreateEnabled, Insert, ActiveTasks
      <3> QED
        BY <1>3, <2>5, <3>1 DEF CreateEnabled, QuotaOp
    <2>6. ASSUME NEW t \in Tasks, NEW sequential \in BOOLEAN, NEW agent \in Agents,
                 CreateDisabled(s, t, sequential, agent)
          PROVE  QuotaIInv'
      <3>1. ActiveTasks' \subseteq ActiveTasks
        BY <1>0, <2>6 DEF CreateDisabled, Insert, ActiveTasks
      <3> QED
        BY <1>1, <2>6, <3>1 DEF CreateDisabled, QuotaOp
    <2>7. ASSUME NEW enable \in {"keep", "on", "off"}, NEW rescheduled \in BOOLEAN,
                 NEW sequential \in BOOLEAN, NEW agent \in Agents,
                 Update(s, enable, rescheduled, sequential, agent)
          PROVE  QuotaIInv'
      <3>1. api[s].task \in Tasks /\ task[api[s].task].life = "live"
        BY <2>7 DEF Update, IInv, Requests
      <3>2. ActiveTasks' \subseteq ActiveTasks \cup {api[s].task}
        BY <1>0, <2>7 DEF Update, ActiveTasks
      <3>3. CASE api[s].saw = "room"
        BY <1>3, <2>7, <3>2, <3>3 DEF Update, QuotaOp
      <3>4. CASE api[s].saw # "room"
        <4>1. ActiveTasks' \subseteq ActiveTasks
          <5>1. task'[api[s].task].enabled => task[api[s].task].enabled
            BY <1>0, <2>7, <3>1, <3>4 DEF Update, TaskRow
          <5>2. \A t \in Tasks \ {api[s].task} : task'[t] = task[t]
            BY <1>0, <2>7 DEF Update
          <5> QED
            BY <3>1, <5>1, <5>2 DEF ActiveTasks
        <4> QED
          BY <1>1, <1>2, <2>7, <4>1 DEF Update
      <3> QED
        BY <3>3, <3>4
    <2>8. ASSUME NEW enabled \in BOOLEAN, SetEnabled(s, enabled) PROVE QuotaIInv'
      <3>1. api[s].task \in Tasks /\ task[api[s].task].life = "live"
        BY <2>8 DEF SetEnabled, IInv, Requests
      <3>2. ActiveTasks' \subseteq ActiveTasks \cup {api[s].task}
        BY <1>0, <2>8 DEF SetEnabled, ActiveTasks
      <3>3. CASE api[s].saw = "room"
        BY <1>3, <2>8, <3>2, <3>3 DEF SetEnabled, QuotaOp
      <3>4. CASE api[s].saw # "room"
        <4>1. ActiveTasks' \subseteq ActiveTasks
          BY <1>0, <2>8, <3>1, <3>4 DEF SetEnabled, ActiveTasks
        <4> QED
          BY <1>1, <1>2, <2>8, <4>1 DEF SetEnabled
      <3> QED
        BY <3>3, <3>4
    <2>9. CASE Delete(s)
      <3>1. ActiveTasks' \subseteq ActiveTasks
        BY <1>0, <2>9 DEF Delete, ActiveTasks
      <3> QED
        BY <1>1, <1>2, <2>9, <3>1 DEF Delete
    <2>10. ASSUME NEW r \in Runs, FailManually(s, r) PROVE QuotaIInv'
      <3>1. run[r].status = "running" /\ Settle(r, "failed", task[run[r].task])
        BY <2>10 DEF FailManually, Is
      <3>2. ActiveTasks' \subseteq ActiveTasks
        BY <3>1, EndingActivatesNothing, SettleIsEnding
      <3> QED
        BY <1>1, <1>2, <2>10, <3>2 DEF FailManually
    <2> QED
      BY <1>5, <2>1, <2>2, <2>3, <2>4, <2>5, <2>6, <2>7, <2>8, <2>9, <2>10 DEF Serve
  <1>6. CASE UNCHANGED vars
    BY <1>1, <1>6 DEF vars, ActiveTasks, QuotaOp
  <1> QED
    BY <1>4, <1>5, <1>6 DEF Next, BackgroundStep

\* However requests race, the user stays within the quota.
THEOREM QuotaKept == Spec => []QuotaRespected
  <1>1. Init => QuotaIInv
    <2>1. Init => ActiveTasks = {}
      BY DEF Init, ActiveTasks, BlankRow
    <2> QED
      BY <2>1, FS_EmptySet, LimitsAssumption DEF Init, QuotaIInv, QuotaOp, NoRequest
  <1>2. QuotaIInv => QuotaRespected
    BY DEF QuotaIInv, QuotaRespected
  <1> QED
    BY <1>1, <1>2, QuotaStep, Inductive, PTL DEF Spec

-----------------------------------------------------------------------------
(* The global limit *)

\* Workers between their count and their claim.
Claiming == {w \in Workers : worker[w].pc \in {"counted", "selected"}}

\* Each of them may still start a run on the strength of a count that was
\* below the limit.
ClaimIInv ==
  Cardinality(RunningRuns) + Cardinality(Claiming) < GlobalLimit + Cardinality(Workers)

LEMMA ClaimingFinite ==
  ASSUME TypeOK
  PROVE  /\ IsFiniteSet(RunningRuns) /\ Cardinality(RunningRuns) \in Nat
         /\ IsFiniteSet(Claiming) /\ Cardinality(Claiming) \in Nat
         /\ Cardinality(Claiming) <= Cardinality(Workers) /\ Cardinality(Workers) \in Nat
  BY FiniteAssumption, FS_Subset, FS_CardinalityType DEF RunningRuns, Claiming

\* A run becomes running only when a worker starts it.
LEMMA RunningGrows ==
  ASSUME IInv, [Next]_vars, ~\E w \in Workers : ClaimStart(w)
  PROVE  RunningRuns' \subseteq RunningRuns
  <1> SUFFICES ASSUME NEW r \in Runs, run'[r].status = "running"
               PROVE  run[r].status = "running"
    BY DEF RunningRuns
  <1>0. run \in [Runs -> RunRow]
    BY DEF IInv, TypeOK
  <1> DEFINE Still == run[r].status = "running"
  <1>1. ASSUME UNCHANGED run PROVE Still
    BY <1>1
  <1>2. ASSUME NEW q \in Runs, NEW outcome \in {"success", "failed"}, NEW loaded,
               Settle(q, outcome, loaded)
        PROVE  Still
    BY <1>0, <1>2 DEF Settle, RunRow
  <1>3. ASSUME NEW d \in Dispatchers, Dispatch(d) PROVE Still
    <2>1. CASE RecoverCommit(d)
      BY <1>2, <2>1 DEF RecoverCommit, IInv, Assigned
    <2>2. ASSUME NEW batch \in SUBSET Tasks, NEW newRun \in [batch -> Runs],
                 Enqueue(d, batch, newRun)
          PROVE  Still
      BY <1>0, <2>2 DEF Enqueue
    <2> QED
      BY <1>1, <1>3, <2>1, <2>2 DEF Dispatch, DispatchBegin, LeaderLost, RecoverSelect,
         RecoverRetry, RecoverDone, RecoverSkip, DispatchEnd
  <1>4. ASSUME Aging PROVE Still
    BY <1>0, <1>4 DEF Aging, RunRow
  <1>5. ASSUME NEW q \in Runs, HeartbeatLapse(q) \/ Overdue(q) PROVE Still
    BY <1>4, <1>5 DEF HeartbeatLapse, Overdue, Aging
  <1>6. ASSUME NEW w \in Workers,
               Claim(w) \/ Execute(w) \/ Heartbeat(w) \/ Finalize(w) \/ WorkerStop(w)
        PROVE  Still
    <2>0. worker[w].pc \notin {"idle", "counted"} => worker[w].run \in Runs
      BY DEF IInv, Assigned
    <2>1. CASE FinalCommit(w)
      <3>1. worker[w].outcome \in {"success", "failed"}
        BY DEF IInv, TypeOK, WorkerState
      <3> QED
        BY <1>2, <2>0, <2>1, <3>1 DEF FinalCommit
    <2>2. CASE ClaimReject(w)
      BY <1>0, <2>0, <2>2 DEF ClaimReject, RunRow
    <2>3. CASE Heartbeat(w)
      BY <1>4, <2>0, <2>3 DEF Heartbeat, Aging
    <2> QED
      BY <1>1, <1>6, <2>1, <2>2, <2>3
         DEF Claim, ClaimCount, ClaimSelect, ClaimNothing, ClaimConflict,
             Execute, PrepareSkip, PrepareDisabled, Prepare, OpenSession, OpenSessionGone,
             InvokeReturn, ExecuteError, Finalize, FinalRead, FinalMismatch, FinalLock,
             FinalConflict, FinalError, WorkerStop
  <1>7. ASSUME NEW s \in Sessions, Serve(s) PROVE Still
    <2>1. ASSUME NEW q \in Runs, FailManually(s, q) PROVE Still
      BY <1>2, <2>1 DEF FailManually
    <2> QED
      BY <1>1, <1>7, <2>1, ServeFrame DEF IInv
  <1> QED
    BY <1>1, <1>3, <1>5, <1>6, <1>7 DEF Next, vars

\* A worker gets between count and claim only by counting.
LEMMA ClaimingGrows ==
  ASSUME IInv, [Next]_vars, ~\E w \in Workers : ClaimCount(w)
  PROVE  Claiming' \subseteq Claiming
  <1> SUFFICES ASSUME NEW v \in Workers, worker'[v].pc \in {"counted", "selected"}
               PROVE  worker[v].pc \in {"counted", "selected"}
    BY DEF Claiming
  <1> DEFINE Still == worker[v].pc \in {"counted", "selected"}
  <1>0. worker \in [Workers -> WorkerState] /\ IdleWorker.pc = "idle"
    BY DEF IInv, TypeOK, IdleWorker
  <1>1. ASSUME UNCHANGED worker PROVE Still
    BY <1>1
  <1>2. ASSUME NEW w \in Workers,
               Claim(w) \/ Execute(w) \/ Heartbeat(w) \/ Finalize(w) \/ WorkerStop(w)
        PROVE  Still
    <2>1. ASSUME GoIdle(w) \/ Except(w) PROVE Still
      BY <1>0, <2>1 DEF GoIdle, Except
    <2>2. ASSUME NEW pc, pc \notin {"counted", "selected"}, Goto(w, pc) PROVE Still
      BY <1>0, <2>2 DEF Goto, WorkerState
    <2>3. CASE Claim(w)
      <3>1. ASSUME NEW r \in Runs, ClaimSelect(w, r) PROVE Still
        BY <1>0, <3>1 DEF ClaimSelect, WorkerState
      <3>2. CASE ClaimStart(w)
        BY <2>2, <3>2 DEF ClaimStart
      <3> QED
        BY <2>1, <2>3, <3>1, <3>2 DEF Claim, ClaimNothing, ClaimReject, ClaimConflict
    <2>4. CASE Execute(w)
      <3>1. CASE PrepareDisabled(w)
        BY <1>0, <3>1 DEF PrepareDisabled, WorkerState
      <3>2. ASSUME NEW outcome, InvokeReturn(w, outcome) PROVE Still
        BY <1>0, <3>2 DEF InvokeReturn, WorkerState
      <3> QED
        BY <2>1, <2>2, <2>4, <3>1, <3>2 DEF Execute, PrepareSkip, Prepare, OpenSession,
           OpenSessionGone, ExecuteError
    <2>5. CASE Finalize(w)
      <3>1. CASE FinalRead(w)
        BY <1>0, <3>1 DEF FinalRead, WorkerState
      <3> QED
        BY <2>1, <2>2, <2>5, <3>1 DEF Finalize, FinalMismatch, FinalLock, FinalCommit,
           FinalConflict, FinalError
    <2> QED
      BY <1>1, <1>2, <2>1, <2>3, <2>4, <2>5 DEF Heartbeat, WorkerStop
  <1>3. ASSUME NEW d \in Dispatchers, Dispatch(d) PROVE Still
    BY <1>1, <1>3 DEF Dispatch, DispatchBegin, LeaderLost, RecoverSelect, RecoverCommit,
       RecoverRetry, RecoverDone, RecoverSkip, Enqueue, DispatchEnd
  <1>4. ASSUME NEW s \in Sessions, Serve(s) PROVE Still
    BY <1>1, <1>4, ServeFrame DEF IInv
  <1> QED
    BY <1>1, <1>2, <1>3, <1>4 DEF Next, vars, HeartbeatLapse, Overdue

LEMMA ClaimStep ==
  ASSUME IInv, ClaimIInv, [Next]_vars
  PROVE  ClaimIInv'
  <1>0. /\ TypeOK' /\ worker \in [Workers -> WorkerState] /\ run \in [Runs -> RunRow]
        /\ GlobalLimit \in Nat
        /\ IsFiniteSet(RunningRuns) /\ Cardinality(RunningRuns) \in Nat
        /\ IsFiniteSet(Claiming) /\ Cardinality(Claiming) \in Nat
        /\ Cardinality(Workers) \in Nat
    BY TypeStep, ClaimingFinite, LimitsAssumption DEF IInv, TypeOK
  <1>1. /\ IsFiniteSet(RunningRuns') /\ Cardinality(RunningRuns') \in Nat
        /\ IsFiniteSet(Claiming') /\ Cardinality(Claiming') \in Nat
        /\ Cardinality(Claiming') <= Cardinality(Workers)
    <2>1. RunningRuns' \subseteq Runs /\ Claiming' \subseteq Workers
      BY DEF RunningRuns, Claiming
    <2> QED
      BY <2>1, FiniteAssumption, FS_Subset, FS_CardinalityType
  <1>2. ASSUME NEW w \in Workers, ClaimStart(w) PROVE ClaimIInv'
    <2> DEFINE r == worker[w].run
    <2>1. r \in Runs /\ run[r].status = "pending"
      BY <1>2 DEF ClaimStart, IInv, Assigned, Locks
    <2>2. RunningRuns' = RunningRuns \cup {r} /\ r \notin RunningRuns
      BY <1>0, <1>2, <2>1 DEF ClaimStart, RunningRuns, RunRow
    <2>3. Claiming' = Claiming \ {w} /\ w \in Claiming
      BY <1>0, <1>2 DEF ClaimStart, Goto, Claiming, WorkerState
    <2>4. Cardinality(RunningRuns') = Cardinality(RunningRuns) + 1
      BY <1>0, <2>2, FS_AddElement
    <2>5. Cardinality(Claiming') = Cardinality(Claiming) - 1
      BY <1>0, <2>3, FS_RemoveElement
    <2> QED
      BY <1>0, <2>4, <2>5 DEF ClaimIInv
  <1>3. ASSUME NEW w \in Workers, ClaimCount(w) PROVE ClaimIInv'
    <2>1. RunningRuns' = RunningRuns /\ Cardinality(RunningRuns) < GlobalLimit
      BY <1>3 DEF ClaimCount, RunningRuns
    <2> QED
      BY <1>0, <1>1, <2>1 DEF ClaimIInv
  <1>4. ASSUME ~\E w \in Workers : ClaimStart(w) \/ ClaimCount(w) PROVE ClaimIInv'
    <2>1. RunningRuns' \subseteq RunningRuns
      BY <1>4, RunningGrows
    <2>2. Claiming' \subseteq Claiming
      BY <1>4, ClaimingGrows
    <2>3. Cardinality(RunningRuns') <= Cardinality(RunningRuns)
            /\ Cardinality(Claiming') <= Cardinality(Claiming)
      BY <1>0, <2>1, <2>2, FS_Subset
    <2> QED
      BY <1>0, <1>1, <2>3 DEF ClaimIInv
  <1> QED
    BY <1>2, <1>3, <1>4

\* No more than GlobalLimit + Workers - 1 runs are ever running at a time.
THEOREM OvershootIsBounded == Spec => []OvershootBounded
  <1>1. Init => ClaimIInv
    <2>1. Init => RunningRuns = {} /\ Claiming = {}
      BY DEF Init, RunningRuns, Claiming, UnusedRun, IdleWorker
    <2>2. Cardinality(Workers) \in Nat
      BY FiniteAssumption, FS_CardinalityType
    <2>3. Init => Cardinality(RunningRuns) = 0 /\ Cardinality(Claiming) = 0
      BY <2>1, FS_EmptySet
    <2>4. GlobalLimit \in Nat /\ GlobalLimit > 0
      BY LimitsAssumption
    <2> QED
      BY <2>2, <2>3, <2>4 DEF ClaimIInv
  <1>2. IInv /\ ClaimIInv => OvershootBounded
    BY ClaimingFinite, LimitsAssumption DEF IInv, ClaimIInv, OvershootBounded
  <1> QED
    BY <1>1, <1>2, ClaimStep, Inductive, PTL DEF Spec

=============================================================================
