---------------------------- MODULE ScheduleRuns ----------------------------
(***************************************************************************)
(* The run lifecycle of user-defined schedules                             *)
(* (src/backend/app/features/schedules): the two PostgreSQL tables it      *)
(* keeps, and everything that writes their lifecycle columns:              *)
(*   - dispatchers (one per backend process, every minute, behind an       *)
(*     advisory leader lock): recover stale runs, then enqueue due tasks;  *)
(*   - workers (asyncio tasks of every process): claim a pending run,      *)
(*     prepare it, invoke the agent, finalize the run;                     *)
(*   - API sessions: create, update, toggle, delete, fail manually.        *)
(*                                                                         *)
(* A step is what one transaction makes visible at once: a plain SELECT,   *)
(* a row lock that outlives its statement, or a commit. Row locks are NOWAIT *)
(* or SKIP LOCKED throughout, so nobody waits: a held lock means an error  *)
(* or a skipped row. A lock is not a variable of its own; it is held by    *)
(* whoever stands between the step that takes it and the step that         *)
(* commits or rolls back (RunLocked, TaskLocked, QuotaLocked), so a crash  *)
(* releases it as PostgreSQL does when the connection ends.                *)
(*                                                                         *)
(* Abstracted: timestamps (next_run_at is "armed" or not; an armed task    *)
(* may be due at any moment, a running run may become stale at any         *)
(* moment), the order scheduled_for gives pending runs (any eligible one   *)
(* may be claimed), conversation threads, prompts, error texts, retention  *)
(* clean-up of terminal runs. All tasks belong to one user.                *)
(***************************************************************************)
EXTENDS Naturals, FiniteSets

CONSTANTS
  Tasks,             \* ids of a2a_schedule_tasks rows
  Runs,              \* run_ids; the supply of them bounds a model
  Agents,            \* target agents
  Workers,           \* worker loops, over all processes
  Dispatchers,       \* dispatcher jobs, over all processes
  Sessions,          \* concurrent API requests
  GlobalLimit,       \* a2a_schedule_global_concurrency_limit
  AgentLimit,        \* a2a_schedule_agent_concurrency_limit
  FailureThreshold,  \* a2a_schedule_task_failure_threshold
  Quota,             \* a2a_schedule_max_active_tasks_per_user
  None               \* no task, no run, no leader

ASSUME NoneAssumption == None \notin Tasks \cup Runs \cup Dispatchers
ASSUME AgentsAssumption == Agents # {}
ASSUME FiniteAssumption == IsFiniteSet(Tasks) /\ IsFiniteSet(Runs) /\ IsFiniteSet(Workers)
ASSUME LimitsAssumption ==
  /\ GlobalLimit \in Nat \ {0}
  /\ AgentLimit \in Nat \ {0}
  /\ FailureThreshold \in Nat \ {0}
  /\ Quota \in Nat

VARIABLES
  task,    \* table a2a_schedule_tasks
  run,     \* table a2a_schedule_executions
  worker,  \* what each worker loop is doing
  disp,    \* what each dispatcher job is doing
  leader,  \* holder of the advisory leader lock
  api      \* the request each API session is serving

vars == <<task, run, worker, disp, leader, api>>

-----------------------------------------------------------------------------
(* Rows and process states *)

\* "deleting" is delete_requested_at set and deleted_at still NULL;
\* "absent" is an id no row uses yet. armed is next_run_at IS NOT NULL.
TaskRow == [life : {"absent", "live", "deleting", "deleted"},
            enabled : BOOLEAN, armed : BOOLEAN, sequential : BOOLEAN,
            agent : Agents, fails : Nat]

BlankRow == [life |-> "absent", enabled |-> FALSE, armed |-> FALSE,
             sequential |-> FALSE, agent |-> CHOOSE a \in Agents : TRUE,
             fails |-> 0]

\* age: "lapsed" is a heartbeat older than the heartbeat cutoff, "overdue" a
\* started_at older than the hard cutoff, which no heartbeat can cure. Rows
\* that are not running keep "fresh": nothing reads their age.
RunRow == [status : {"unused", "pending", "running", "success", "failed"},
           task : Tasks \cup {None}, age : {"fresh", "lapsed", "overdue"}]

UnusedRun == [status |-> "unused", task |-> None, age |-> "fresh"]

\* excepted: the worker is in the except branch of _execute_claimed_task.
\* seen: the ORM copy of the task row its finalize session has loaded.
WorkerState == [pc : {"idle", "counted", "selected", "claimed", "ready",
                      "invoking", "ended", "decided", "locked"},
                run : Runs \cup {None}, outcome : {"success", "failed"},
                excepted : BOOLEAN, seen : TaskRow]

IdleWorker == [pc |-> "idle", run |-> None, outcome |-> "failed",
               excepted |-> FALSE, seen |-> BlankRow]

DispState == [pc : {"off", "recover", "recovering", "enqueue"},
              run : Runs \cup {None}]

Off == [pc |-> "off", run |-> None]

\* saw: the answer of the plain SELECT the request acts on, once it has it.
ApiState == [op : {"none", "create", "update", "toggle", "delete", "fail"},
             task : Tasks \cup {None},
             saw : {"nothing", "room", "full", "running", "idle"}]

NoRequest == [op |-> "none", task |-> None, saw |-> "nothing"]

TypeOK ==
  /\ task \in [Tasks -> TaskRow]
  /\ run \in [Runs -> RunRow]
  /\ worker \in [Workers -> WorkerState]
  /\ disp \in [Dispatchers -> DispState]
  /\ leader \in Dispatchers \cup {None}
  /\ api \in [Sessions -> ApiState]

-----------------------------------------------------------------------------
(* Queries *)

Is(r, t, status) == run[r].task = t /\ run[r].status = status

Running(t) == \E r \in Runs : Is(r, t, "running")

Active(t) == \E r \in Runs : Is(r, t, "pending") \/ Is(r, t, "running")

RunningRuns == {r \in Runs : run[r].status = "running"}

RunningOn(a) == {r \in RunningRuns : task[run[r].task].agent = a}

ActiveTasks == {t \in Tasks : task[t].life = "live" /\ task[t].enabled}

\* Whoever executes a run, from its claim to its end.
Executing(w) ==
  worker[w].pc \in {"claimed", "ready", "invoking", "ended", "decided", "locked"}

RunLocked(r) ==
  \/ \E w \in Workers : worker[w].pc \in {"selected", "locked"} /\ worker[w].run = r
  \/ \E d \in Dispatchers : disp[d].pc = "recovering" /\ disp[d].run = r

TaskLocked(t) == \E s \in Sessions : api[s].op # "none" /\ api[s].task = t

\* Mutant: the quota check without its advisory lock.
QuotaUnlocked == FALSE

QuotaLocked == \E s \in Sessions : api[s].op \in {"create", "update", "toggle"}

QuotaLeft == Cardinality(ActiveTasks) < Quota

-----------------------------------------------------------------------------
(* apply_task_terminal_projection, and what its UPDATE writes              *)

\* The ORM computes the new row from the copy it has loaded and its UPDATE
\* names only the columns whose value differs from that copy.
Written(loaded, new, current) == IF new = loaded THEN current ELSE new

\* Mutant: a success takes one failure back instead of clearing the count.
FailsAfterForgiving(loaded, outcome) ==
  IF outcome = "success" THEN loaded.fails - 1 ELSE loaded.fails + 1

FailsAfter(loaded, outcome) == IF outcome = "success" THEN 0 ELSE loaded.fails + 1

\* Mutant: a success takes back the disabling that failures may have caused.
EnabledAfterSuccess(loaded, outcome) ==
  /\ loaded.life # "deleting"
  /\ \/ outcome = "success"
     \/ loaded.enabled /\ FailsAfter(loaded, outcome) < FailureThreshold

EnabledAfter(loaded, outcome) ==
  /\ loaded.enabled
  /\ loaded.life # "deleting"
  /\ outcome = "failed" => FailsAfter(loaded, outcome) < FailureThreshold

\* Mutant: only a success schedules the next run of a sequential task.
ProjectionOfSuccess(current, loaded, outcome) ==
  LET enabled == EnabledAfter(loaded, outcome)
  IN [current EXCEPT
        !.fails = Written(loaded.fails, FailsAfter(loaded, outcome), @),
        !.enabled = Written(loaded.enabled, enabled, @),
        !.life = IF loaded.life = "deleting" THEN "deleted" ELSE @,
        !.armed = IF ~enabled THEN Written(loaded.armed, FALSE, @)
                  ELSE (loaded.sequential /\ outcome = "success") \/ @]

\* A sequential task's next_run_at is computed from the end of the run, so it
\* always differs from the value loaded.
Projection(current, loaded, outcome) ==
  LET enabled == EnabledAfter(loaded, outcome)
  IN [current EXCEPT
        !.fails = Written(loaded.fails, FailsAfter(loaded, outcome), @),
        !.enabled = Written(loaded.enabled, enabled, @),
        !.life = IF loaded.life = "deleting" THEN "deleted" ELSE @,
        !.armed = IF ~enabled THEN Written(loaded.armed, FALSE, @)
                  ELSE loaded.sequential \/ @]

\* One commit: the run becomes terminal and its task is projected.
Settle(r, outcome, loaded) ==
  LET t == run[r].task
  IN /\ run' = [run EXCEPT ![r].status = outcome, ![r].age = "fresh"]
     /\ task' = [task EXCEPT ![t] = Projection(@, loaded, outcome)]

-----------------------------------------------------------------------------
(* Dispatchers *)

DispatchBegin(d) ==
  /\ disp[d].pc = "off"
  /\ leader = None
  /\ leader' = d
  /\ disp' = [disp EXCEPT ![d].pc = "recover"]
  /\ UNCHANGED <<task, run, worker, api>>

\* The connection holding the advisory lock dies; the cycle goes on unaware.
LeaderLost(d) ==
  /\ leader = d
  /\ leader' = None
  /\ UNCHANGED <<task, run, worker, disp, api>>

Stale(r) ==
  /\ run[r].status = "running"
  /\ run[r].age # "fresh"
  /\ task[run[r].task].life # "deleted"

\* First stale run nobody has locked: FOR UPDATE SKIP LOCKED.
RecoverSelect(d, r) ==
  /\ disp[d].pc = "recover"
  /\ Stale(r)
  /\ ~RunLocked(r)
  /\ disp' = [disp EXCEPT ![d] = [pc |-> "recovering", run |-> r]]
  /\ UNCHANGED <<task, run, worker, leader, api>>

RecoverCommit(d) ==
  LET r == disp[d].run
  IN /\ disp[d].pc = "recovering"
     /\ ~TaskLocked(run[r].task)
     /\ Settle(r, "failed", task[run[r].task])
     /\ disp' = [disp EXCEPT ![d] = [pc |-> "recover", run |-> None]]
     /\ UNCHANGED <<worker, leader, api>>

\* The task row is locked: roll back and look for a stale run again.
RecoverRetry(d) ==
  /\ disp[d].pc = "recovering"
  /\ TaskLocked(run[disp[d].run].task)
  /\ disp' = [disp EXCEPT ![d] = [pc |-> "recover", run |-> None]]
  /\ UNCHANGED <<task, run, worker, leader, api>>

RecoverDone(d) ==
  /\ disp[d].pc = "recover"
  /\ \A r \in Runs : Stale(r) => RunLocked(r)
  /\ disp' = [disp EXCEPT ![d].pc = "enqueue"]
  /\ UNCHANGED <<task, run, worker, leader, api>>

\* Lock contention or a statement timeout: go on to enqueue.
RecoverSkip(d) ==
  /\ disp[d].pc \in {"recover", "recovering"}
  /\ disp' = [disp EXCEPT ![d] = [pc |-> "enqueue", run |-> None]]
  /\ UNCHANGED <<task, run, worker, leader, api>>

\* Mutant: the query without NOT EXISTS (active execution).
EnqueueableBesideActive(t) ==
  /\ task[t].life = "live"
  /\ task[t].enabled
  /\ task[t].armed
  /\ ~TaskLocked(t)

Enqueueable(t) ==
  /\ task[t].life = "live"
  /\ task[t].enabled
  /\ task[t].armed
  /\ ~Active(t)
  /\ ~TaskLocked(t)

\* Mutant: the cycle ends without pg_advisory_unlock.
ReleaseWithoutUnlock(d) ==
  /\ disp' = [disp EXCEPT ![d] = Off]
  /\ UNCHANGED leader

Release(d) ==
  /\ disp' = [disp EXCEPT ![d] = Off]
  /\ leader' = IF leader = d THEN None ELSE leader

\* One commit for the whole batch; which armed tasks are due, and how many
\* fit the LIMIT, is left open. newRun gives every task of the batch a run_id.
Enqueue(d, batch, newRun) ==
  /\ disp[d].pc = "enqueue"
  /\ \A t \in batch : Enqueueable(t)
  /\ \A t \in batch : run[newRun[t]].status = "unused"
  /\ \A t, u \in batch : newRun[t] = newRun[u] => t = u
  /\ run' = [r \in Runs |->
               IF \E t \in batch : newRun[t] = r
                 THEN [status |-> "pending", age |-> "fresh",
                       task |-> CHOOSE t \in batch : newRun[t] = r]
                 ELSE run[r]]
  /\ task' = [t \in Tasks |->
                IF t \in batch
                  THEN [task[t] EXCEPT !.armed = ~task[t].sequential]
                  ELSE task[t]]
  /\ Release(d)
  /\ UNCHANGED <<worker, api>>

\* Nothing due, an error that ends the cycle, or the process going down.
DispatchEnd(d) ==
  /\ disp[d].pc # "off"
  /\ Release(d)
  /\ UNCHANGED <<task, run, worker, api>>

-----------------------------------------------------------------------------
(* Time *)

\* No heartbeat has been written for the heartbeat timeout.
HeartbeatLapse(r) ==
  /\ run[r].status = "running"
  /\ run[r].age = "fresh"
  /\ run' = [run EXCEPT ![r].age = "lapsed"]
  /\ UNCHANGED <<task, worker, disp, leader, api>>

\* The run started longer ago than the invoke timeout.
Overdue(r) ==
  /\ run[r].status = "running"
  /\ run[r].age # "overdue"
  /\ run' = [run EXCEPT ![r].age = "overdue"]
  /\ UNCHANGED <<task, worker, disp, leader, api>>

-----------------------------------------------------------------------------
(* Workers *)

Goto(w, pc) == worker' = [worker EXCEPT ![w].pc = pc]

GoIdle(w) == worker' = [worker EXCEPT ![w] = IdleWorker]

\* Enter the except branch: the run will be finalized as failed.
Except(w) ==
  worker' = [worker EXCEPT ![w] = [pc |-> "ended", run |-> @.run,
                                   outcome |-> "failed", excepted |-> TRUE,
                                   seen |-> BlankRow]]

\* The first statement of a claim counts the running runs; its snapshot is
\* its own, what follows sees later commits.
ClaimCount(w) ==
  /\ worker[w].pc = "idle"
  /\ Cardinality(RunningRuns) < GlobalLimit
  /\ Goto(w, "counted")
  /\ UNCHANGED <<task, run, disp, leader, api>>

Claimable(r) ==
  /\ run[r].status = "pending"
  /\ LET row == task[run[r].task]
     IN \/ row.life = "deleted"
        \/ ~row.enabled
        \/ Cardinality(RunningOn(row.agent)) < AgentLimit

\* Mutant: the pending run is selected without FOR UPDATE SKIP LOCKED.
ClaimSelectUnlocked(w, r) ==
  /\ worker[w].pc = "counted"
  /\ Claimable(r)
  /\ worker' = [worker EXCEPT ![w].pc = "selected", ![w].run = r]
  /\ UNCHANGED <<task, run, disp, leader, api>>

ClaimSelect(w, r) ==
  /\ worker[w].pc = "counted"
  /\ Claimable(r)
  /\ ~RunLocked(r)
  /\ worker' = [worker EXCEPT ![w].pc = "selected", ![w].run = r]
  /\ UNCHANGED <<task, run, disp, leader, api>>

ClaimNothing(w) ==
  /\ worker[w].pc = "counted"
  /\ \A r \in Runs : Claimable(r) => RunLocked(r)
  /\ GoIdle(w)
  /\ UNCHANGED <<task, run, disp, leader, api>>

\* The task row is locked and read for the first time in this session.
Startable(t) == task[t].life # "deleted" /\ task[t].enabled

ClaimStart(w) ==
  LET r == worker[w].run
  IN /\ worker[w].pc = "selected"
     /\ ~TaskLocked(run[r].task)
     /\ Startable(run[r].task)
     /\ run' = [run EXCEPT ![r].status = "running", ![r].age = "fresh"]
     /\ Goto(w, "claimed")
     /\ UNCHANGED <<task, disp, leader, api>>

\* Mutant: a rejected run also counts as a failure of its task.
ClaimRejectCounted(w) ==
  LET r == worker[w].run
  IN /\ worker[w].pc = "selected"
     /\ ~TaskLocked(run[r].task)
     /\ ~Startable(run[r].task)
     /\ Settle(r, "failed", task[run[r].task])
     /\ GoIdle(w)
     /\ UNCHANGED <<disp, leader, api>>

\* Mutant: a run that cannot start is rolled back to the queue.
ClaimRejectForgotten(w) ==
  /\ worker[w].pc = "selected"
  /\ ~TaskLocked(run[worker[w].run].task)
  /\ ~Startable(run[worker[w].run].task)
  /\ GoIdle(w)
  /\ UNCHANGED <<task, run, disp, leader, api>>

\* Disabled or deleted while pending: the run fails, its task is not projected.
ClaimReject(w) ==
  LET r == worker[w].run
  IN /\ worker[w].pc = "selected"
     /\ ~TaskLocked(run[r].task)
     /\ ~Startable(run[r].task)
     /\ run' = [run EXCEPT ![r].status = "failed"]
     /\ GoIdle(w)
     /\ UNCHANGED <<task, disp, leader, api>>

ClaimConflict(w) ==
  /\ worker[w].pc = "selected"
  /\ TaskLocked(run[worker[w].run].task)
  /\ GoIdle(w)
  /\ UNCHANGED <<task, run, disp, leader, api>>

MyTask(w) == run[worker[w].run].task

StillRunning(w) ==
  /\ task[MyTask(w)].life # "deleted"
  /\ run[worker[w].run].status = "running"

\* _prepare_claimed_task_execution: give up a run that was settled meanwhile.
PrepareSkip(w) ==
  /\ worker[w].pc = "claimed"
  /\ ~StillRunning(w)
  /\ GoIdle(w)
  /\ UNCHANGED <<task, run, disp, leader, api>>

\* Disabled since the claim: finalize as failed, in the session that has
\* just loaded the task.
PrepareDisabled(w) ==
  /\ worker[w].pc = "claimed"
  /\ StillRunning(w)
  /\ ~task[MyTask(w)].enabled
  /\ worker' = [worker EXCEPT ![w].pc = "decided", ![w].outcome = "failed",
                              ![w].seen = task[MyTask(w)]]
  /\ UNCHANGED <<task, run, disp, leader, api>>

Prepare(w) ==
  /\ worker[w].pc = "claimed"
  /\ StillRunning(w)
  /\ task[MyTask(w)].enabled
  /\ Goto(w, "ready")
  /\ UNCHANGED <<task, run, disp, leader, api>>

\* Second look at the rows, conversation thread bound, heartbeat loop started.
OpenSession(w) ==
  /\ worker[w].pc = "ready"
  /\ StillRunning(w)
  /\ Goto(w, "invoking")
  /\ UNCHANGED <<task, run, disp, leader, api>>

OpenSessionGone(w) ==
  /\ worker[w].pc = "ready"
  /\ ~StillRunning(w)
  /\ Except(w)
  /\ UNCHANGED <<task, run, disp, leader, api>>

\* A locked row makes this heartbeat fail and the loop try again later.
Heartbeat(w) ==
  LET r == worker[w].run
  IN /\ worker[w].pc = "invoking"
     /\ run[r].status = "running"
     /\ run[r].age = "lapsed"
     /\ ~RunLocked(r)
     /\ run' = [run EXCEPT ![r].age = "fresh"]
     /\ UNCHANGED <<task, worker, disp, leader, api>>

InvokeReturn(w, outcome) ==
  /\ worker[w].pc = "invoking"
  /\ worker' = [worker EXCEPT ![w].pc = "ended", ![w].outcome = outcome]
  /\ UNCHANGED <<task, run, disp, leader, api>>

\* Runtime build, invoke session, database or invoke raises.
ExecuteError(w) ==
  /\ worker[w].pc \in {"claimed", "ready", "invoking"}
  /\ Except(w)
  /\ UNCHANGED <<task, run, disp, leader, api>>

\* The finalize session first loads execution and task without a lock.
FinalRead(w) ==
  /\ worker[w].pc = "ended"
  /\ worker' = [worker EXCEPT ![w].pc = "decided", ![w].seen = task[MyTask(w)]]
  /\ UNCHANGED <<task, run, disp, leader, api>>

\* finalize_task_run: no running row of this run_id is left.
FinalMismatch(w) ==
  /\ worker[w].pc = "decided"
  /\ run[worker[w].run].status # "running"
  /\ GoIdle(w)
  /\ UNCHANGED <<task, run, disp, leader, api>>

FinalLock(w) ==
  /\ worker[w].pc = "decided"
  /\ run[worker[w].run].status = "running"
  /\ ~RunLocked(worker[w].run)
  /\ Goto(w, "locked")
  /\ UNCHANGED <<task, run, disp, leader, api>>

\* SELECT ... FOR UPDATE of the task does not refresh the loaded copy.
FinalCommit(w) ==
  /\ worker[w].pc = "locked"
  /\ ~TaskLocked(MyTask(w))
  /\ Settle(worker[w].run, worker[w].outcome, worker[w].seen)
  /\ GoIdle(w)
  /\ UNCHANGED <<disp, leader, api>>

\* NOWAIT fails on the execution or on the task: logged as deferred, dropped.
FinalConflict(w) ==
  /\ \/ /\ worker[w].pc = "decided"
        /\ run[worker[w].run].status = "running"
        /\ RunLocked(worker[w].run)
     \/ worker[w].pc = "locked" /\ TaskLocked(MyTask(w))
  /\ GoIdle(w)
  /\ UNCHANGED <<task, run, disp, leader, api>>

\* Statement timeout or commit failure: the first time into the except
\* branch, a second time out to the worker loop.
FinalError(w) ==
  /\ worker[w].pc \in {"ended", "decided", "locked"}
  /\ IF worker[w].excepted THEN GoIdle(w) ELSE Except(w)
  /\ UNCHANGED <<task, run, disp, leader, api>>

\* The process restarts, or a claim raises: what the worker held is gone.
WorkerStop(w) ==
  /\ worker[w].pc # "idle"
  /\ GoIdle(w)
  /\ UNCHANGED <<task, run, disp, leader, api>>

-----------------------------------------------------------------------------
(* API sessions *)

\* create_task with enabled = true takes the user's advisory quota lock.
BeginCreate(s) ==
  /\ api[s].op = "none"
  /\ ~QuotaLocked
  /\ api' = [api EXCEPT ![s] = [op |-> "create", task |-> None, saw |-> "nothing"]]
  /\ UNCHANGED <<task, run, worker, disp, leader>>

\* update and toggle take the quota lock, then every operation the task row.
BeginRequest(s, op, t) ==
  /\ api[s].op = "none"
  /\ op \in {"update", "toggle"} => ~QuotaLocked
  /\ task[t].life = "live"
  /\ ~TaskLocked(t)
  /\ api' = [api EXCEPT ![s] = [op |-> op, task |-> t, saw |-> "nothing"]]
  /\ UNCHANGED <<task, run, worker, disp, leader>>

\* ensure_active_quota counts; an update has refused a running task before.
CheckQuota(s) ==
  /\ api[s].op \in {"create", "update", "toggle"}
  /\ api[s].saw = "nothing"
  /\ api[s].op = "update" => ~Running(api[s].task)
  /\ api' = [api EXCEPT ![s].saw = IF QuotaLeft THEN "room" ELSE "full"]
  /\ UNCHANGED <<task, run, worker, disp, leader>>

CheckRunning(s) ==
  /\ api[s].op = "delete"
  /\ api[s].saw = "nothing"
  /\ api' = [api EXCEPT ![s].saw = IF Running(api[s].task) THEN "running" ELSE "idle"]
  /\ UNCHANGED <<task, run, worker, disp, leader>>

Reply(s) == api' = [api EXCEPT ![s] = NoRequest]

\* A conflict, quota, validation or database error after the locks.
RequestError(s) ==
  /\ api[s].op # "none"
  /\ Reply(s)
  /\ UNCHANGED <<task, run, worker, disp, leader>>

Insert(t, enabled, sequential, agent) ==
  /\ task[t].life = "absent"
  /\ task' = [task EXCEPT ![t] =
       [life |-> "live", enabled |-> enabled, armed |-> enabled,
        sequential |-> sequential, agent |-> agent, fails |-> 0]]

CreateEnabled(s, t, sequential, agent) ==
  /\ api[s].op = "create"
  /\ api[s].saw = "room"
  /\ Insert(t, TRUE, sequential, agent)
  /\ Reply(s)
  /\ UNCHANGED <<run, worker, disp, leader>>

CreateDisabled(s, t, sequential, agent) ==
  /\ api[s].op = "none"
  /\ Insert(t, FALSE, sequential, agent)
  /\ UNCHANGED <<run, worker, disp, leader, api>>

\* enable is what the request asks ("keep" when absent); rescheduled is a
\* request that names a cycle or a time point.
Update(s, enable, rescheduled, sequential, agent) ==
  LET t == api[s].task
      enabled == enable = "on" \/ (enable = "keep" /\ task[t].enabled)
  IN /\ api[s].op = "update"
     /\ api[s].saw \in {"room", "full"}
     /\ (enable = "on" /\ ~task[t].enabled) => api[s].saw = "room"
     /\ task' = [task EXCEPT
          ![t].enabled = enabled,
          ![t].sequential = IF rescheduled THEN sequential ELSE @,
          ![t].agent = agent,
          ![t].armed = enabled /\ (rescheduled \/ enable = "on" \/ @)]
     /\ Reply(s)
     /\ UNCHANGED <<run, worker, disp, leader>>

\* Allowed while the task runs.
SetEnabled(s, enabled) ==
  LET t == api[s].task
  IN /\ api[s].op = "toggle"
     /\ api[s].saw \in {"room", "full"}
     /\ (enabled /\ ~task[t].enabled) => api[s].saw = "room"
     /\ task' = [task EXCEPT ![t].enabled = enabled, ![t].armed = enabled]
     /\ Reply(s)
     /\ UNCHANGED <<run, worker, disp, leader>>

\* Mutant: delete without looking for a running execution.
DeleteAtOnce(s) ==
  LET t == api[s].task
  IN /\ api[s].op = "delete"
     /\ task' = [task EXCEPT ![t].life = "deleted", ![t].enabled = FALSE,
                             ![t].armed = FALSE]
     /\ Reply(s)
     /\ UNCHANGED <<run, worker, disp, leader>>

\* A running task is only marked; the end of the run deletes it.
Delete(s) ==
  LET t == api[s].task
  IN /\ api[s].op = "delete"
     /\ api[s].saw \in {"running", "idle"}
     /\ task' = [task EXCEPT
          ![t].life = IF api[s].saw = "running" THEN "deleting" ELSE "deleted",
          ![t].enabled = FALSE,
          ![t].armed = FALSE]
     /\ Reply(s)
     /\ UNCHANGED <<run, worker, disp, leader>>

FailManually(s, r) ==
  /\ api[s].op = "fail"
  /\ Is(r, api[s].task, "running")
  /\ ~RunLocked(r)
  /\ Settle(r, "failed", task[api[s].task])
  /\ Reply(s)
  /\ UNCHANGED <<worker, disp, leader>>

-----------------------------------------------------------------------------
Init ==
  /\ task = [t \in Tasks |-> BlankRow]
  /\ run = [r \in Runs |-> UnusedRun]
  /\ worker = [w \in Workers |-> IdleWorker]
  /\ disp = [d \in Dispatchers |-> Off]
  /\ leader = None
  /\ api = [s \in Sessions |-> NoRequest]

Dispatch(d) ==
  \/ DispatchBegin(d)
  \/ LeaderLost(d)
  \/ \E r \in Runs : RecoverSelect(d, r)
  \/ RecoverCommit(d)
  \/ RecoverRetry(d)
  \/ RecoverDone(d)
  \/ RecoverSkip(d)
  \/ \E batch \in SUBSET Tasks \ {{}} : \E newRun \in [batch -> Runs] :
       Enqueue(d, batch, newRun)
  \/ DispatchEnd(d)

Claim(w) ==
  \/ ClaimCount(w)
  \/ \E r \in Runs : ClaimSelect(w, r)
  \/ ClaimNothing(w)
  \/ ClaimStart(w)
  \/ ClaimReject(w)
  \/ ClaimConflict(w)

Execute(w) ==
  \/ PrepareSkip(w)
  \/ PrepareDisabled(w)
  \/ Prepare(w)
  \/ OpenSession(w)
  \/ OpenSessionGone(w)
  \/ \E outcome \in {"success", "failed"} : InvokeReturn(w, outcome)
  \/ ExecuteError(w)

Finalize(w) ==
  \/ FinalRead(w)
  \/ FinalMismatch(w)
  \/ FinalLock(w)
  \/ FinalCommit(w)
  \/ FinalConflict(w)
  \/ FinalError(w)

Serve(s) ==
  \/ BeginCreate(s)
  \/ \E op \in {"update", "toggle", "delete", "fail"}, t \in Tasks :
       BeginRequest(s, op, t)
  \/ CheckQuota(s)
  \/ CheckRunning(s)
  \/ RequestError(s)
  \/ \E t \in Tasks, sequential \in BOOLEAN, agent \in Agents :
       CreateEnabled(s, t, sequential, agent) \/ CreateDisabled(s, t, sequential, agent)
  \/ \E enable \in {"keep", "on", "off"}, rescheduled, sequential \in BOOLEAN,
        agent \in Agents : Update(s, enable, rescheduled, sequential, agent)
  \/ \E enabled \in BOOLEAN : SetEnabled(s, enabled)
  \/ Delete(s)
  \/ \E r \in Runs : FailManually(s, r)

Next ==
  \/ \E d \in Dispatchers : Dispatch(d)
  \/ \E r \in Runs : HeartbeatLapse(r) \/ Overdue(r)
  \/ \E w \in Workers : \/ Claim(w) \/ Execute(w) \/ Heartbeat(w)
                       \/ Finalize(w) \/ WorkerStop(w)
  \/ \E s \in Sessions : Serve(s)

Spec == Init /\ [][Next]_vars

(***************************************************************************)
(* Fairness. A claimed run is worked on, its invocation ends (total and    *)
(* idle timeouts of run_background_invoke), time passes, requests and      *)
(* dispatch cycles end, the minute job fires again: weak fairness. Claims  *)
(* and recoveries are polled every second or minute while requests hold a  *)
(* row for milliseconds, so polls do not meet a locked row, an error or a  *)
(* restart every single time: strong fairness of the polls that begin      *)
(* while no request holds the task. Nothing makes a user send a request,   *)
(* a heartbeat arrive or a worker survive.                                 *)
(***************************************************************************)
Unlocked == \A t \in Tasks : ~TaskLocked(t)

Fairness ==
  /\ \A r \in Runs : WF_vars(Overdue(r))
  /\ \A s \in Sessions : WF_vars(RequestError(s))
  /\ \A d \in Dispatchers :
       /\ SF_vars(Unlocked /\ DispatchBegin(d))
       /\ WF_vars(RecoverDone(d))
       /\ SF_vars(Unlocked /\ disp[d].pc = "enqueue" /\ DispatchEnd(d))
       /\ SF_vars(Unlocked /\ \E r \in Runs : RecoverSelect(d, r))
       /\ SF_vars(RecoverCommit(d))
  /\ \A w \in Workers :
       /\ WF_vars(Claim(w))
       /\ WF_vars(Execute(w) \/ Finalize(w))
       /\ SF_vars(Unlocked /\ ClaimCount(w))
       /\ SF_vars(Unlocked /\ \E r \in Runs : ClaimSelect(w, r))
       /\ SF_vars(ClaimStart(w) \/ ClaimReject(w))

FairSpec == Spec /\ Fairness

-----------------------------------------------------------------------------
(* Safety *)

\* A task never has two runs that are pending or running, whatever the
\* dispatchers, workers and users do (uq_a2a_schedule_executions_active_task
\* would turn a second one into an error of the whole enqueue batch).
OneActiveRun ==
  \A r, q \in Runs :
    /\ run[r].status \in {"pending", "running"}
    /\ run[q].status \in {"pending", "running"}
    /\ run[r].task = run[q].task
    => r = q

\* No run is executed by two workers, be it after a recovery, a lost leader
\* lock or a restarted worker: a claim is exclusive and a run claimed once.
OneExecutor ==
  \A v, w \in Workers :
    Executing(v) /\ Executing(w) /\ worker[v].run = worker[w].run => v = w

\* Recovery leaves out the runs of deleted tasks, so a running run must never
\* have a deleted task: it would count against the limits for ever. It is the
\* deferred deletion of running tasks that has to ensure it.
RunningIsRecoverable ==
  \A r \in Runs :
    run[r].status = "running" => task[run[r].task].life \in {"live", "deleting"}

\* A schedule that is switched on is never forgotten: either next_run_at is
\* set or a run is active whose end will set it (sequential tasks have no
\* next_run_at while they run), also when the finalizing worker computes the
\* next state from a copy of the task that users have changed since.
NoLostSchedule ==
  \A t \in Tasks : task[t].life = "live" /\ task[t].enabled => task[t].armed \/ Active(t)

\* Requests racing each other and the workers never bring a user above the
\* quota of active schedules.
QuotaRespected == Cardinality(ActiveTasks) <= Quota

\* Claims count, then start: each worker may be one claim late. This is the
\* bound the code really keeps; GlobalLimitObeyed is the one it states.
OvershootBounded ==
  Cardinality(RunningRuns) <= GlobalLimit + Cardinality(Workers) - 1

\* The end of a run never switches a schedule on: a user who disables or
\* deletes a task between the worker's read and its commit is not overruled
\* by the enabled = true of the worker's copy.
EndNeverReenables ==
  [][\A t \in Tasks : Running(t) /\ ~Running(t)' /\ task'[t].enabled
                        => task[t].enabled]_vars

-----------------------------------------------------------------------------
(* Refinement *)

\* The tables implement the ledger: runs are opened, started and settled at
\* most once, and the failure count moves exactly with the settling.
Ledger == INSTANCE ScheduleLedger WITH
  status <- [r \in Runs |-> run[r].status],
  owner <- [r \in Runs |-> run[r].task],
  failures <- [t \in Tasks |-> task[t].fails]

ImplementsLedger == Ledger!Spec

-----------------------------------------------------------------------------
(* Liveness, under FairSpec *)

\* Every run that was started ends, even when its worker crashed, dropped the
\* result on a lock conflict or hangs: recovery sees to it.
RunEnds == \A r \in Runs : run[r].status = "running" ~> run[r].status # "running"

\* Every queued run leaves the queue: started, or failed because its task
\* was disabled or deleted.
PendingLeaves == \A r \in Runs : run[r].status = "pending" ~> run[r].status # "pending"

-----------------------------------------------------------------------------
(* Stated by the configuration and by tests; not kept (see the README) *)

\* "Maximum concurrent running scheduled executions globally."
GlobalLimitObeyed == Cardinality(RunningRuns) <= GlobalLimit

\* The end of the run of a task whose deletion was requested deletes it
\* (test_finalize_task_run_soft_deletes_when_delete_was_requested).
DeferredDeleteDone ==
  [][\A t \in Tasks : task[t].life = "deleting" /\ Running(t) /\ ~Running(t)'
                        => task'[t].life = "deleted"]_vars

=============================================================================
