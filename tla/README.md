# A verification development for a2a-client-hub

TLA+ modules that model the concurrent core of the hub (`src/backend/app`: FastAPI,
asyncio, PostgreSQL) and the part of the browser client that takes part in its
protocols (`src/frontend`), configurations that check them with TLC, and proofs
checked by TLAPS. Paths below are relative to `src/backend/app` unless they start
with `src/`. `PROJECT.json` maps every definition to the lines it models.

Contents: [inventory](#1-inventory) · [plan](#2-plan) ·
[schedules](#3-schedules) · [next run time](#4-the-next-run-of-a-schedule) ·
[Hub Assistant tasks](#5-hub-assistant-tasks) ·
[Hub Assistant runtime](#6-hub-assistant-runtime) ·
[running invocations](#7-running-invocations) ·
[streams](#8-streams-and-blocks) · [sign-in](#9-sign-in) ·
[tickets](#10-websocket-tickets) · [client pool](#11-pool-of-a2a-clients) ·
[agents](#12-agents-health-and-credentials) · [runs](#13-runs) ·
[findings](#14-findings) · [proofs](#15-proofs) ·
[observations](#16-observations-without-a-run) ·
[not modelled](#17-what-is-not-modelled)

## 1. Inventory

The hub lets users register A2A agents, talk to them in conversations (HTTP, SSE,
WebSocket), run prompts on a schedule, and delegate work to a built-in assistant
that watches conversations in the background. One or several backend processes
share one PostgreSQL database; there is no other shared store, so whatever is kept
in memory is per process. A browser holds one refresh cookie for all its tabs.

| Component | State it keeps | Operations | What makes it correct | Module |
| --- | --- | --- | --- | --- |
| **Schedules** (`features/schedules`) | tables of tasks and executions; an advisory leader lock; worker tasks per process | dispatch (recover, enqueue), claim, execute, heartbeat, finalize; create, update, toggle, delete, fail | one active run per task, one executor per run, every run ends, no schedule is forgotten, failures counted once, quota and limits | `ScheduleRuns`, `ScheduleLedger` |
| **Next run time** (`schedules/time.py`) | `next_run_at` | clamp, next occurrence per cycle type | the first occurrence after now, none left out, at its wall clock | `ScheduleTime` |
| **Hub Assistant tasks** (`hub_assistant/shared/task_service.py`, `task_job.py`) | table `hub_assistant_tasks`; batches in memory | recover, claim, execute, complete, fail; set and merge tracked sessions, delegate, reply | a claim is exclusive, no message is acknowledged unreported, follow-ups with news wake up | `HubAssistantTasks` |
| **Hub Assistant runtime** (`service.py`, `swival_runtime.py`, `persistence.py`) | per-conversation state under a lock; requests and messages in the conversation | run, ask, reply once/always/reject, continue, expire | nothing is used that was not granted; a continuation ends its message | `AssistantRuntime` |
| **Invoke** (`features/invoke`) | guard of running queries (memory) | accept, prepare, interrupt, run, retry, end | the guard matches the invocations at work | `InvokeRegistry` |
| **Running invocations** (`sessions/inflight_service.py`) | registry per conversation (memory) | register, bind, unregister, preempt, cancel | no entry outlives its run, a deferred cancel is sent | `InvokeRegistry` |
| **Streaming** (`invoke/stream_*.py`, `service_streaming*.py`) | cache of sent events, batch buffer, stored message | read, store, relay, resume, replay, record outcome | stored once and in order, nothing skipped, complete means stored | `StreamResume` |
| **Blocks** (`history_projection_blocks.py` and two more reducers) | blocks of a message, three times | append, replace, finalize, interrupt | one open block, three reducers agree | `BlockReducers` |
| **Auth** (`features/auth`, `src/frontend/lib/api/client.ts`) | refresh sessions; cookie; state of each tab | login, rotate, logout, revoke, recover | concurrent tabs survive, an ended session stays ended | `AuthRefresh` |
| **WebSocket tickets** (`runtime/ws_ticket.py`) | table of one-time tickets | issue, consume, clean up | consumed once, live ones not swept | `WsTickets` |
| **A2A client** (`integrations/a2a_client`) | clients, adapters, shared transports | call, retry, invalidate, evict, shut down | a transport in use stays open; shutdown ends | `ClientPool` |
| **Agents** (`features/agents`) | agents, credentials, health results | CRUD, check one, check all | a result is of one check; a secret fits its agent | `AgentHealth`, `AgentCredentials` |
| **A2A extensions** (`integrations/a2a_extensions`) | capability snapshots | negotiate, validate | contract data | none |
| **Directory, shortcuts, invitations, hub access** | rows with unique constraints, static tables | CRUD | uniqueness | none |
| **Runtime** (`runtime/scheduler.py` and others) | one APScheduler per process, cached allowlist, metrics | start, stop, refresh | jobs keep firing | fairness of the others |

How they interact:

- Dispatchers and interval jobs are fired by the scheduler of every process.
  Coordination between processes is by row locks (`FOR UPDATE`, `NOWAIT`,
  `SKIP LOCKED`), advisory locks and unique constraints only.
- A schedule run and a delegated task call the same invocation service as the HTTP
  routes; it registers the invocation, streams, stores blocks and writes the outcome.
- A new invocation may interrupt those registered before it in its conversation; a
  control request cancels them. Both walk the registry, waiting for agents.
- The client resumes an interrupted stream with the number it has reached; the
  server replays its cache and asks the agent again.
- Follow-ups read the newest agent message of the conversations they track;
  schedule runs, invocations and delegations are what makes it change.
- The Hub Assistant reaches the hub's own operations through tools that open their
  own database sessions while the run's session is open: a tool call may change the
  very row the run will be settled on.
- A permission request is answered in a tab, becomes a durable task, and is continued
  by a scan of any process; grants that live in memory are those of one process.

The hard behaviours: transactions of several processes interleave at every commit
(READ COMMITTED, ORM copies that a locking read does not refresh); processes die
between two commits and are recovered by timeout while they may in fact be alive;
work is claimed, held in memory for minutes, then settled on rows users have edited
meanwhile; state read before an await is used after it; answers and connections are
lost and retried. `PROJECT.json` lists the hazards line by line, with the properties
that cover each or the reason why none does.

## 2. Plan

Done, in this order: schedules and their ledger; the Hub Assistant's tasks; the
registry of invocations; streams and blocks; sign-in; tickets; the client pool; health
and credentials of agents; the Hub Assistant's runtime; the next run time. Each
component has its own module with the prefix of its variables and specification, so
that three modules for TLC can extend several of them and check each on a
small instance (section 13).

The proof modules: `ScheduleRuns_proofs`, `HubAssistant_proofs` (`HubAssistantTasks` and
`AssistantRuntime`), `InvokeRegistry_proofs`, `Access_proofs` (`AuthRefresh` and `WsTickets`),
`Agents_proofs` (`AgentHealth` and `AgentCredentials`), `ClientPool_proofs`,
`StreamResume_proofs`, `BlockReducers_proofs`.

Left, by value:

1. Retention of terminal runs and the conversation threads of runs.
2. The negotiation and caching of A2A extensions, and the hub tools of the assistant.
3. Composition: `ServiceTypesOK` and `FrontendTypesOK` of the modules for TLC, whose parts are
   proved per component (the calendar excepted).

## 3. Schedules

`ScheduleRuns.tla` (the tables and everything that writes their lifecycle columns),
`ScheduleLedger.tla` (what the tables promise), `MCScheduleRuns.tla`, proofs in
`ScheduleRuns_proofs.tla`.

**State.** `task` and `run` are the two tables, reduced to the columns that decide
anything: life cycle, enabled, whether `next_run_at` is set (`armed`), schedule type
(`sequential`), agent, consecutive failures; status, task and freshness of a run.
`worker`, `disp`, `api` are the program counters and local variables of worker loops,
dispatcher jobs and requests; `leader` is the advisory lock.

**Steps.** A step is what becomes visible at once: a plain SELECT, a row lock that is
held beyond its statement, or a commit. Locks are no variable: a lock is held by
whoever stands between the step that takes it and the step that ends the
transaction (`RunLocked`, `TaskLocked`, `QuotaLocked`), so a crash releases it.

| Code | Actions |
| --- | --- |
| `dispatch_due_a2a_schedules` and its leader lock | `DispatchBegin`, `Release`, `DispatchEnd`, `LeaderLost` |
| `recover_stale_running_tasks` | `RecoverSelect`, `RecoverCommit`, `RecoverRetry`, `RecoverDone`, `RecoverSkip` |
| `enqueue_due_tasks` | `Enqueue` (SELECT ... SKIP LOCKED, INSERT and commit are one step) |
| `claim_next_pending_execution` | `ClaimCount`, `ClaimSelect`, `ClaimNothing`, `ClaimStart`, `ClaimReject`, `ClaimConflict` |
| `_execute_claimed_task` | `Prepare*`, `OpenSession*`, `InvokeReturn`, `ExecuteError`, `Heartbeat` |
| `finalize_task_run` and its callers | `FinalRead`, `FinalMismatch`, `FinalLock`, `FinalCommit`, `FinalConflict`, `FinalError` |
| requests (`crud.py`, `support.py`) | `BeginCreate`, `BeginRequest`, `CheckQuota`, `CheckRunning`, `CreateEnabled`, `CreateDisabled`, `Update`, `SetEnabled`, `Delete`, `FailManually`, `RequestError`, `Reply` |
| crashes, time | `WorkerStop`, `LeaderLost`, `HeartbeatLapse`, `Overdue` |

The detail that matters most is the **stale copy**: the worker loads the task with a
plain SELECT into the session that later locks it; the locking read does not refresh
the loaded instance, so the terminal projection is computed from the older copy,
while the UPDATE names only the columns whose value differs from that copy. `seen`
is that copy and `Written` the column-wise merge.

**Abstracted.** Timestamps (an armed task may be due, a running one stale, at any
moment), the order of pending runs, which due task is taken, batch limits; threads,
prompts and texts; retention. All tasks belong to one user, so there is one quota.

**Fairness** (`Fairness`). Weak for everything a live process does next (executing,
finalizing, ending requests, dispatch cycles) and for time. Strong for steps that
poll and back off when a row is locked, and only for attempts made while no request
holds the row (`Unlocked`): a poll that meets the lock every time is possible but
needs requests without end, timed against it. None for users, for heartbeats (a
process may hang) or for workers staying alive (`WorkerStop` is always enabled);
recovery has to cope.

**Bounds.** Two runs of one task are enough for an old run whose worker is late beside
the task's next run; two workers or two dispatchers for every race between peers;
two sessions for a race on the quota. `FailureThreshold` is 2 where the count
matters, else 1. The supply of runs bounds how often a task is executed. Two of
everything at once is too much for TLC: `CoreSpec` keeps to states in which two actors of the
kind the question is about are busy (`CoreOrQuota`). `schedule_over_limit` has two workers
over two queued runs, with a limit of 1.

## 4. The next run of a schedule

`ScheduleTime.tla`: `zone` (the offset's one gap and one fold), `now`, the normalized
`job`, `enabled`, `active`, `nextRunAt`; `computedAt` and `grid` are history.

| Code | Definitions |
| --- | --- |
| `normalize_*` and the bounds of minutes | `Clamped`, `NormalizedPoint` |
| conversion between UTC and local time, resolution of times the zone leaves out | `Wall`, `Utc`, `ResolvedWall` |
| `next_occurrence_local`, interval and sequential next | `Candidate`, `FollowingCandidate`, `NextOccurrenceLocal`, `IntervalNext`, `SequentialNext`, `ComputeNextRunAt` |
| create/update, toggle, enqueue, settle | `SetSchedule`, `ToggleJob`, `EnqueueDue`, `SettleRun`, `Elapse` |

Time is counted in units of the zone's shift, a day has four of them and a week two
days, months alternate between three and two days: every boundary (a day of 31
asked for in a short month, an hour inside the gap, the hour that occurs twice, a start in
the future) occurs within 22 units. `NextIsFirst` compares the stepwise computation with
a search over the calendar.

## 5. Hub Assistant tasks

`HubAssistantTasks.tla`, proofs in `HubAssistant_proofs.tla`.

**State.** `status`, `overdue`, `tracked`, `anchor` are the rows; jobs (permission
replies, delegations) use only the first two. `older` is the order of `updated_at`
among follow-ups, as a relation: rows written in one transaction get the same
time, and ties may be resolved either way. `latest` stands for the conversations
outside: the version of the newest agent text message, 0 for none. `scan` is what
each scan job holds in memory. Three history variables express the properties:
`lapsed` (claims that ended by timeout or re-arming while their scan still works on
them), `told` (what persisted summaries cover), `base` (what was current when a
request set the tracked sessions).

**Steps.** Every database transaction of this component is short and takes its row
locks inside, so it is one step; the only trace of concurrent locks is that a claim
may pass over rows that are locked at that moment (`locked`). Recovery needs no such
parameter: whoever has a stale row locked is about to end that run anyway. Between
claim and settling a scan works from memory: `Start`, `Run` (the assistant or the
agent has returned, with one of three outcomes), then `CompleteWatch`,
`CompleteNothing`, `CompleteJob`, `Fail` or `SettleError`, which has the two stages of
the code (roll back and record the failure in a new session; that may fail as well).
`Stop` is a crash. `SetTracked`, `Delegate`, `Reply` are requests; the assistant's own
tool calls are among them, so they occur in the middle of its runs.

| Code | Actions |
| --- | --- |
| `recover_stale_running_tasks` | `Recover` |
| `claim_due_tasks`, `_get_waiting_rows`, `_claim_follow_up_task` | `Claim` |
| `dispatch_due_hub_assistant_tasks`, `_execute_hub_assistant_task` | `Start`, `Run`, `SettleError`, `Finish` |
| `complete_task` | `CompleteWatch`, `CompleteNothing`, `CompleteJob` |
| `fail_task` | `Fail` |
| `_set_tracked_sessions`, `add_tracked_sessions` | `Track`, used by `SetTracked` and `Delegate` |
| `enqueue_permission_reply_continuation`, `enqueue_delegated_invoke` | `Reply`, `Delegate` |

**Abstracted.** What a run does besides its summary; a delegation hands over one
conversation per request; validation failures change nothing; deletion of users and
conversations.

**Fairness.** Weak for recovery, for a scan that has work, and for time: the interval
job fires every few seconds, and the run itself is assumed to return (its provider
and the invocation service use timeouts). Strong for a claim that skips no row: it
follows the recovery of its scan within milliseconds, so neither a crash nor a lock
is always there. A process may die during every execution.

**Bounds.** Two scans make every race between claims, timeouts and late completions;
one follow-up with two conversations and one message in each gives incomparable
sets of anchors, which is what late completions confuse. `BatchSize` 1 against three
rows makes the limit bind in the safety run, where jobs are explored with one
conversation (`JobsOrConversations`). In the liveness run the batch covers all rows, because
`WokenUp` is false otherwise (see findings), and delegations and replies are apart
(`OneKindOfJob`).

## 6. Hub Assistant runtime

`AssistantRuntime.tla`: one conversation with the assistant. `memory`, `registered`,
`lastState`, `lock` are the states kept in memory (delegated and standing operations)
and the lock of each; `exec` what a run knows, `answer` a reply in progress; `ask`,
`task`, `message` are rows. `once` (what "once" was said to), `standing` (what had been granted
when "always" was last answered), `opened`, `unsaved` are history.

| Code | Actions |
| --- | --- |
| `run`, `run_permission_reply_continuation` under the state's lock | `StartTurn`, `StartContinuation`, `Acquire`, `RunAnswers`, `RunFails` |
| persisting a turn, its failure, settling the task | `StoreTurn`, `StoreFails`, `StoreError`, `SettleTask`, `SettleFails` |
| `reply_permission_interrupt` (lock, find the event, commit) | `BeginAnswer`, `Grant`, `FindEvent`, `CommitAnswer`, `AnswerFails` |
| expiry of requests and of states, recovery of the page, restart | `ExpireAsk`, `Forget`, `ShowPending`, `Restart`, `Lapse` |

The life of the durable task is that of `HubAssistantTasks`; here it may be run,
lapse and be run again. The configuration has two write operations, runs, requests and replies;
`TwoAtATime` in `MCFrontend.tla` keeps to two active ones at a time.

## 7. Running invocations

`InvokeRegistry.tla`: the invocations of one conversation. `guard`, `entry` and
`history` are the guard of running queries, the registry by token and the stored
preempt events; `inv` and `ctl` say where each invocation and each control request
is, `sweep` what a walk over the registry still has before it. `tried` and `late` are
history. The process is one asyncio loop: what happens between two awaits is one step, and a
walk (`Walk`, `Await`, `Conclude`) takes one snapshot and suspends at each
agent it asks.

| Code | Actions |
| --- | --- |
| accept (`guard.py`, `route_runner.py`), prepare | `BeginAttempt`, `PrepareFails`, `Prepare` |
| `preempt_inflight_invoke_report`, `cancel_session` | `InvokeCancelReturns`, `ControlRequest`, `ControlCancelReturns` |
| the record of the interruption (read, then write) | `NoteRead`, `NoteWrite`, `NoteFails` |
| register, bind with deferred cancel, unregister | `Register`, `TaskSeen`, `DeferredReturns`, `Finalize` |
| replay before the stream, end, retry after `session_not_found` | `ReplayEnds`, `ReplayAborted`, `InvokeEnds`, `Abandon`, `RecoverSession`, `RetryAttempt`, `Leave` |

**Fairness** (`RegFairness`). Weak for everything an invocation does by itself
(`Advance`: the agent and the database answer or time out), for the end of a
background job's stream (a total timeout), and for the answer to a control
request. Nothing makes a client's stream end.

**Bounds.** Two invocations and one control request; two texts of a query without retries
and cancels, one text with them (`OneKeyOrQuiet`); two attempts; one task id per stream.

## 8. Streams and blocks

`StreamResume.tla`: the delivery of one message. `db` is the stored message, `run` the
latest run of the request (its counters, batch, accumulator and outcome), `cache` the
events kept for replay, `client` the user's copy with the number it has reached. An event is made
of `Parts`: a text, the end of its block, a state of the task, a question, the end of the stream;
one event may have several, so a text in a status with a question is stored twice, as text and as
question, and cached once. Three numberings meet: `seq` counts events sent and goes on over
resumptions, `pseq` counts stored updates and starts again at 1, and a status may bring the
agent's own number. `ahead` is history: a frame showed the client a number above its place in
the cache.

| Code | Actions |
| --- | --- |
| `sendMessage`, `resumeMessage`; a connection lost, noticed late or never | `Send`, `Resume`, `LoseConnection`, `NoticeLoss`, `HeartbeatFails` |
| replay, an event of the agent (`on_event`), its caching and sending | `Replay`, `ReadStatus`, `ReadText`, `ReadQuestion`, `Relay` |
| a commit of `on_event` that fails (of the row, a flush, a question), having taken effect or not | `ReadFails` |
| the end of the agent's stream; the three transactions of `on_finalized`, each of which may fail | `StreamEnds`, `StreamFails`, `EndFlush`, `EndFinalBlock`, `EndRecord`, `EndFails` |
| crash of the process | `Crash` |

The run has a cache of two events and batches of two against three events, both transports, and
one resumption. `MCFrontend` narrows it: one of the first two events is unusual (`OneUnusual`: a
question, a text in a status, a number of the agent's own); a resumption uses the same
transport, reads two events at most (one over a WebSocket or after an unusual one), and meets
losses and crashes, but no failing commits before its end (`ShortResumption`). The proofs have
none of these limits. `Picked` filters the cache as both of its operations do. What the cache
drops for all its keys together, or after its time, is left out: the key is gone as after a
crash.

`BlockReducers.tla`: one stream of block updates (`BlockEvent`, `Interrupt`) folded by the
three reducers that the code has: `Stored`/`Flushed` (`history_projection_blocks.py`, in
batches), `Accumulated` (`StreamTextAccumulator`) and `ShownAfter`
(`chatStreamBlocks.ts`); `FinishMessage` records the outcome. A block's text is the sequence
of the numbers of its updates. One block of each kind, updates with and without a base,
four events.

## 9. Sign-in

`AuthRefresh.tla`: `session` (rows with current and previous token and the rest of the
grace), `legacy` (the token of no session), `jar` (the cookie), `request` (refresh requests
and their transactions), `tab` (session store and module state of each tab). `excused`
is history: whether the browser has lost an answer, received it behind a sign-in or sign-out or
out of order, or had a request outrun by two rotations.

| Code | Actions |
| --- | --- |
| `rotate` in one transaction with the row locked | `Lock`, `Commit`, `Refuse`, `Consume` (legacy), `Busy` |
| login, logout, revoke all, expiry | `Login`, `Logout`, `RevokeAll`, `Expire` |
| `refreshAccessTokenWithOutcome`, `AuthBootstrap`, single flight per tab | `ColdStart`, `Refresh`, `ForceRefresh`, `Retry`, `Answer`, `GiveUp`, `Reload` |
| clocks | `Tick` |

Time passes in ticks of 2.5 s: a browser waits 2 s for an answer and the server 2.5 s for
the database, so neither waits through two ticks. `Grace` is 3: a tick that has begun
and the two full ones of the default of 5 s. **Fairness** (`AuthFairness`): timers, the
server and pages are weakly fair; users do nothing. In the safety run cooldown and retry delay are 0
(every retry is possible at once: more behaviours, fewer states), one session and three rotations;
the proofs cover the rest.

## 10. WebSocket tickets

`WsTickets.tla`: `row` (the table, with the holder of each row's lock), `attempt` (a
connection that presents a ticket), `cleanup` (the batch it has picked without locks).
`marked` counts committed marks. `Issue`, `PresentTicket` (the clock is read before the
row), `LockRow` (NOWAIT), `TurnedAway`, `MarkUsed`, `RollBack`, `Admit`; `PickBatch`,
`SweepLocks`, `SweepCommits`, `SweepFails`; `ExpireTicket`, `OutliveRetention`. Two
tickets, two connections, batches of one, two clean-ups.

## 11. Pool of A2A clients

`ClientPool.tla`: `registry` (agent to client), `facade` (a client: card, adapter,
sessions, life), `adapter` (operations, retired, closed), `transport` (one generation
of the HTTP client all agents share: users, invalid, tracked, open), `call`, `pool` (the
phases of the shutdown), `made` (how many objects exist). A step runs from one suspension of
the event loop to the next.

| Code | Actions |
| --- | --- |
| a session of a call, the card | `OpenSession`, `CardFetched`, `CardFails`, `SessionEnds`, `FetchCardAgain` |
| take an adapter and send; a stale one is replaced | `Begin`, `SendCached`, `SendNew`, `SwapStale`, `RefusedAsStale`, `Payload` |
| the operation ends, breaks, is retried or downgraded | `CallDone`, `ReportsClosed`, `Discard`, `BreaksForGood`, `Downgrade`, `GivesUp` |
| idle eviction, closing, shutdown | `EvictIdle`, `CloseClient`, `ClientClosed`, `Shutdown`, `DrainReaper`, `CloseTransports` |

Which error does what follows the two tests of `client.py:1351-1411`. A broken connection, a
timeout, a refusal leave adapter and transport alone (`CallDone`, or `BreaksForGood` when the
client must be reset). Adapter and transport are given up only after an error in whose chain a
`RuntimeError` says "client has been closed" (`client.py:1554-1567`): the HTTP client's own, or
a mapped error of an agent with these words, since `A2APeerProtocolError` is one and carries the
agent's text (`adapters/sdk.py:370-411`, `errors.py:44`). The latter meets an open transport,
which other calls may be using: `ReportsClosed`.

**Fairness** (`PoolFairSpec`). Weak for the end of operations (the HTTP client has
timeouts), for suspended clean-ups and for the tasks of reaper and shutdown. Two agents,
two calls, two objects of each layer; the shutdown is explored with the client of one
agent (`TwoClientsOrShutdown`).

## 12. Agents: health and credentials

`AgentHealth.tla`: `own`, `access` (agents and who may see them), `health` (stored
results), `check` (what a request has read, asked and found). `CheckOne`, `CheckAll`, `ListHub`,
`SkipCooling`, `Probe`, `WriteOwn` (an UPDATE of all columns), `ReadHub` and `WriteHub`
(the ORM names the columns that differ), `CheckFails`; `CreateAgent`, `EnableAgent`,
`DeleteAgent`, `SetAccess`. `failed` counts the probes that failed. Two overlapping
checks over a personal, a shared agent and the assistant (`OwnOrCatalog`: those of
personal agents and those of the catalog write different rows).

`AgentCredentials.tla`: `agent`, `secret`, `mine`, `edit` (a request and the copy it has
loaded), `held` (the row lock of a DELETE). `CreatePersonal`, `CreateShared`,
`BeginEdit`, `BeginDelete`, `BeginSave`, `BeginForget`, `DropSecret`, `ReadSecret`,
`CommitEdit`, `CommitMine`, `EditFails`. `overlapped` marks agents about which two requests
were open at once. Two editors, three requests.

## 13. Runs

A run with several components lets a behaviour choose one of them at the start (`focus`); the
others stay as they began. `MCServices` has seven components of the backend, `MCFrontend` four
that span backend and browser, `MCLiveness` three with their fairness. The constraints named
above narrow `Next`, never a component's own definitions. Small sets of model values serve
several components, which keeps symmetry sets small.

| Run | Checks | Shows |
| --- | --- | --- |
| `schedule_core` | `TypeOK`, `OneActiveRun`, `OneExecutor`, `NoLostSchedule`, `QuotaRespected`, `EndNeverReenables`, `ImplementsLedger` | two workers and a request over two runs of a task, or two requests and a worker over two tasks, or two dispatchers that both believe they lead: crashes, recovery and edits at every point |
| `schedule_live` | `RunEnds`, `PendingLeaves` | no run stays running or queued |
| `services` | `ServiceTypesOK`; hub tasks: `ExclusiveClaim`, `NothingSwallowed`, `LiveWhileTracking`; registry: `GuardMatchesHolders`, `RegistryMatchesRuns`, `DeferredCancelSent`; pool: `OpenWhileUsed`; tickets: `AcceptedOnce`, `SweepSparesLive`; agents: `ResultOfOneCheck`, `FailuresHappened`, `SecretFits`; time: `NextIsFirst` | safety inside the backend, two actors of every kind |
| `frontend` | `FrontendTypesOK`; streams: `StoredOnce`, `NothingSkipped`, `AckMeansStored`; blocks: `OneOpenBlock`, `SameContent`; sign-in: `ReplayHasCause`, `EndedStaysEnded`; assistant: `NothingUngranted`, `ContinuationSettled` | safety of what backend and browser do together |
| `liveness` | `RunningLeaves`, `WokenUp`, `ControlAnswered`, `BackgroundUnregisters`, `ShutdownEnds` | what must happen eventually |
| `schedule_over_limit`, `schedule_wall_clock`, `schedule_deferred_delete`, `hub_starved_watch`, `hub_lost_summary`, `accepted_cancel`, `recovery_settles` | one property each | violations, see section 14 |

The properties, in words:

- *OneActiveRun*: a task never has two pending or running runs. *OneExecutor*: a run is
  never executed by two workers, whatever recovery and crashes do. *NoLostSchedule*:
  an enabled task has `next_run_at` or an active run, although ends of runs are computed
  from stale copies. *EndNeverReenables*: the end of a run never turns on a task that was
  disabled meanwhile. *ImplementsLedger*: a run is opened, started and settled at
  most once, and the failure count changes with the settling and by it alone.
  *QuotaRespected*: count, then write, under concurrency.
- *NextIsFirst*: the next run leaves out no due time after the computation and is not in
  the past, across both changes of the zone.
- *ExclusiveClaim*: two scans never hold a task in good faith. *NothingSwallowed*: an
  anchor is covered by a persisted summary or by an explicit setting.
  *LiveWhileTracking*: a follow-up is armed or running exactly while it tracks something and
  has not failed.
- *NothingUngranted*: a turn nobody approves, and what is approved for such turns, has only
  operations granted by the time "always" was last answered; sessions and continuations also
  what "once" was said to. *ContinuationSettled*: a settled continuation leaves no message being written.
- *GuardMatchesHolders*, *RegistryMatchesRuns*: guard and registry are exactly the
  invocations at work. *DeferredCancelSent*: a cancel that had to wait for the task is sent
  when it is bound.
- *StoredOnce*: no update is stored twice or out of order within its run.
  *NothingSkipped*: no resumption of a message that was always resumed with a number
  (`since = 1`), and showed no number above its place in the cache (`~ahead`), skips a cached
  event and goes on after it; section 16 says what happens otherwise.
  *AckMeansStored*: a message complete for the user is complete in the table.
  *OneOpenBlock*, *SameContent*: at most one open block; three reducers, one content.
- *ReplayHasCause*: no token is taken for a replay as long as answers arrive, in order.
  *EndedStaysEnded*: nothing brings an ended session back.
- *AcceptedOnce*, *SweepSparesLive*: one connection per ticket; the clean-up deletes no
  live one. *OpenWhileUsed*: a transport is open while a call is in flight on it.
- *ResultOfOneCheck*, *FailuresHappened*: the columns of a personal result come from one check;
  no count exceeds the failures there were. *SecretFits*: an agent no two requests have
  overlapped on has exactly the secret it calls for.
- *RunEnds*, *PendingLeaves*, *RunningLeaves*, *WokenUp*, *ControlAnswered*,
  *BackgroundUnregisters*, *ShutdownEnds*: rows leave running or the queue, news wakes, control
  requests are answered, background or abandoned invocations unregister, the shutdown ends.

Every property of a passing run is paired with a mutant in `PROJECT.json`: a plausible
bug, defined next to the definition it replaces, under which TLC finds the property
violated. Runs take between seconds and four minutes with two workers. Deadlock is not checked where
the system may really stop: supplies of requests, rotations, calls and objects are bounded.

## 14. Findings

1. **The global limit is exceeded** (`GlobalLimitObeyed`): two workers count the running
   executions before either has committed its claim, and both start one, where
   `src/backend/app/core/config.py:774` promises a maximum. With `n` workers the excess is `n - 1`
   at most (`OvershootIsBounded`). The limit per agent (`:769`) is counted the same way.
2. **A deferred deletion can be lost** (`DeferredDeleteDone`): the end of the run is
   computed from a copy loaded before the delete request; the task remains half deleted.
3. **Idle follow-ups starve others** (`WokenUp` in `hub_starved_watch`): a follow-up
   without news keeps its place at the head of the scan.
4. **A follow-up's summary is lost** (`SummaryKept`) when the tracked sessions are set
   during the run, even by the run itself.
5. **An accepted cancel is never sent** (`AcceptedCancelSent`): a walk marks an entry whose
   task was bound after the snapshot was taken.
6. **A tab in recovery stops trying** (`RecoverySettles`): the retry comes within the
   cooldown, asks nothing, and sets no further timer.
7. **The wall clock is lost for a day** (`WallClockKept`): after a day whose hour the zone
   leaves out, the next run is an hour late as well (a week later for a weekly job).

## 15. Proofs

All theorems are about the specifications without fairness and for arbitrary values of
the constants; the assumptions are those named in the modules (disjoint kinds, positive
limits, natural bounds, finite sets where cardinalities occur), and one hypothesis in a theorem:
`Grace >= 3` in `ReplaysHaveCause`. Each property is proved of its own component's
specification; the modules for TLC only let one component move at a time.

**Schedules.** `ScheduleRuns_proofs` proves `Spec => []IInv`. The properties lean on each
other and on the processes' private state, so the inductive invariant is a conjunction
of named parts: `TypeOK`; `Assigned` (whoever works on a run has one, of an existing
task); `Requests` (a task row has one lock holder); `Sights` (what a request has read
stays true until it commits, since it holds the row); `Locks` (a run's row lock has one
holder, who knows its status); `Started` (an executed run has left the queue, so nobody
can claim it); `OneActiveRun`, `OneExecutor`, `RunningIsRecoverable` (the task of a running
run is not deleted); `Armed` and `Copies` (in what a loaded copy may differ from its row),
from which `NoLostSchedule` follows. Each part has a lemma that a step preserves it; steps are
classified first (those that end a run, queue one, create or edit a task, background
transactions), because most parts care about a class only. The refinement theorem
maps each class to a ledger step or a stutter. The two properties
that count have invariants of their own, about who may still add to the count:
one request at a time is between counting and writing under the quota lock
(`QuotaRespected`), and every worker between counting and claiming is one of the
`Workers` (`OvershootBounded`, which no run checks: it says how far finding 1 can go).

**Hub Assistant tasks.** `IInv` adds `Batches` (the tasks of one batch are distinct, so a
scan that leaves an item behind no longer holds its task) and `HeldIsRunning` (a task
held in good faith is marked running; hence a waiting row, the only kind a claim takes,
is held by nobody). `NothingSwallowed` is inductive with the types alone; `WatchFrame`
shows that only settling and setting touch what it is about.

**Hub Assistant runtime.** `RuntimeInv` follows a grant from the reply that gives it
(`AnswersGranted`) to the task (`TasksGranted`), the run that continues it (`RunsGranted`) and
the state in memory; what a turn nobody approves may use is inductive with `standing` alone.
That no run gets all operations by mistake needs that a request asks for something
(`AsksForSomething`): the code reads an empty set as "all". `MessageEnded`: a run about to
settle its task has ended its message.

**Running invocations.** `RegInv` = types, `AttemptsLeft` (recovery leads to another
attempt), `WalksReady` (a walk that waits has a bound snapshot in front), `OrderEnds`
(registration numbers have an end, so the next is new), `NotesFit` (only the interrupter
ever writes "accepted", once, for its own token), and the three invariants the
run checks. That a non-empty walk has a first entry, and the numbers a last one, is the least-number principle,
from the well-foundedness of the naturals in the library. One
framing lemma per class of steps says what the others may not touch.

**Sign-in.** `AuthInv` = `Books /\ (InTime => InStep) /\ (Grace >= 3 => ReplayHasCause)`.
`Books` needs no assumption on time: what a transaction has decided about a row stays
true until it commits since it holds the row (`Sound`, `OneDecision`), rows count by one
(`Chained`); `EndedStaysEnded` follows. `InStep` holds as long as nothing excuses a replay: the
cookie is of the last token of its session, or the answer with the last one has been under
way for less than a tick since the rotation (`NewerUnderWay`), a request carries such a
cookie and is decided within another (`Orderly`), and a legacy cookie means that no
session has rotated (`Unrotated`). So a token is at most one behind when it is judged,
while the grace of that rotation lasts: two full ticks beyond the running one, which is
what `Grace >= 3` says and the default of 5 s gives.

The proof attempt showed that the property was wrong with two sessions, which the run's
bound of one had hidden: a late answer of an older session puts its older cookie back behind
a new sign-in, and the next refresh of that cookie is a replay. The code does so; the
excuse now counts an answer out of order (`InOrder`), and TLC agrees with two sessions
(the observation is in section 16).

**Tickets.** `TicketInv` ties a row's lock to the one attempt that may mark it
(`LockedByReader`), counts a mark exactly when it is stored (`MarkStored`), and keeps what the
clean-up has picked stale (`PickedStale`).

**Agents.** `HealthInv` says of the results a check carries what the properties say of stored
ones (`Carried`, `Founded`), and that probes are only added. `CredentialInv` follows the
one open request about an agent nobody else has touched: what it has loaded is still
so (`Current`), what it is about to commit makes the secret fit (`Ready`).

**Client pool.** `PoolInv` is about counting. `AdapterOK` and `TransportOK` say it row by row: operations
of an adapter and users of a tracked transport are as many as the calls sent on them, and what
was given up is closed once there are none. An operation could start on an adapter that
is being closed if a retired one could still be reached, hence `Held` (it is in no
client's entry, and no adapter is in two) and `CurrentUsable` (the generation to borrow is neither
invalidated nor dropped). `OpenWhileUsed` follows: a transport over which a call is sent is tracked,
and tracked means open. `UseCounted`, which no run checks, and `BusyCounted` (a client's
count of busy uses is the number of its calls, so eviction spares them) are proved from the same invariant.
The lemmas `RetireKeeps`, `OverKeeps` and `SendKeeps` say what may happen to the tables; each action
is one of them and a move of a call.

**Streams.** Everything the agent sends has a place in one order, by run and place in the
run. `OrderInv` says that what is cached, buffered, stored, accumulated and still to be replayed
is in that order and not beyond what has been read, and that buffered updates the
cursor does not cover come after the stored text (`FreshFrom`): that is how a buffer kept after a flush
that failed behind its commit does no harm, and `StoredOnce` follows. For `AckMeansStored`,
`FirstRun` says that while the first run serves the client, stored text and buffer together
are what has been accumulated and shown, but for the event between storing and sending, and that
no buffered number is covered by the cursor (`Exact`; a question stored behind a text flushes it first); `Settled`
that the record of the outcome stored that; `Serving` that a client still served has a run
that has not ended or failed. For `NothingSkipped`, as long as its conditions hold
(`InStep`), the numbers in the cache grow (`Numbered`) and a
cached event the client lacks is numbered above its cursor, and waits to be replayed while the client
is served (`MissedBehind`).

The proof attempt showed that `NothingSkipped` was wrong beyond the two runs TLC explores: after a
resumption without a number the cache has two numberings, and a third resumption may replay
the old one, move the cursor on and skip the new one (section 16). The property is
now restricted to messages that were always resumed with a number and showed none above its place
in the cache, and proved for any number of runs.

**Blocks.** The invariant is about the *view*, the stored blocks with the buffer folded in (`View`).
A flush keeps the view, whether it stores or, having changed nothing, keeps the buffer
(`FlushKeepsView`); an event changes the view as its update would (`EventView`), and so does a question,
behind whose number a kept buffer is skipped (`QuestionView`). So the batching drops out, and
`SameContent` is left with one update of three reducers: `Alike` (positions and texts agree, and
no base is ahead of the cursor, so none is stale) and `Follows` (the accumulator has all but the
questions). At the end, a message of one text block is overwritten with that block's text
(`AccumulatedIsShown`). `OneOpenBlock` is inductive with the position of the active block in the cursor.

Folds (`Picked`, `WrittenAll`, `StoredAll`, `Result`) are recursive functions. `CountUp`, the
least-counterexample principle for a set of numbers, takes the place of induction; for each fold
one lemma shows that the function exists, and others what it keeps.

**Model-checked only.** Liveness (`RunEnds`, `PendingLeaves`, `RunningLeaves`, `WokenUp`,
`ControlAnswered`, `BackgroundUnregisters`, `ShutdownEnds`), since fairness and ENABLED are beyond
the prover. `NextIsFirst`: the next run is found by a search over calendar data of any length.
`ServiceTypesOK` and `FrontendTypesOK` are the types of whole runs: the types of each of their
components but the calendar are theorems; that the modules for TLC let one component move
at a time is not proved.

## 16. Observations without a run

Seen while modelling; each is code behaviour that no run shows violated: one no document
of the repository denies, a sentence of a document set beside the code, or a detail of a finding.

*Schedules.* The limit per agent may be exceeded like the global one of finding 1: the count is
part of the query that selects the run (`core/config.py:769`, `dispatch.py:190-214`). A stale
copy can leave a disabled task with `next_run_at` set (harmless, the due query asks for
`enabled`), and an automatic disable at the failure threshold is lost when the user re-enables
the task within that window. The assistant's tool accepts a `schedule_timezone` other than the
user's, which the HTTP route refuses, while enqueueing computes in the user's zone.

*Hub Assistant.* The message a failing follow-up writes is rolled back like the summary
of finding 4 (`hub_assistant/service.py:646-682`), unlike that of a permission continuation, which
commits (`:766`); an old follow-up run that fails late marks a re-armed follow-up as failed
(`task_service.py:370-376`). `src/backend/README.md:144` says that "`reply=once` enables write
tools only for the resumed turn"; the session keeps them as delegated operations, and a later
"always" makes them standing with its own (`service.py:517-524`), so turns that nobody approves may
use them: this is why `NothingUngranted` counts "once" into `standing` at that point. The same
happens to all write operations of an earlier run that was allowed to write. A second reply to the same
request creates a message that nothing completes (`task_service.py:196`). A
"reject" after a "once" from another tab is answered "No changes were made." (`service.py:475`)
while the continuation runs; a "once" after a "reject" runs as well. An "always" whose transaction
fails stays granted in memory. The clean-up by age drops a state whose lock is held. A failure whose
storing fails leaves a message streaming; a continuation that lapses may
execute writes twice; requests are lost when the turn that made them cannot be stored.

*Invocations.* The interrupt button sends an empty query with the preempt flag, which
`route_runner_routes.py:202-203` answers with 400, so an interrupt without a message never
reaches the registry. An entry stays registered when an SSE replay is aborted before the `try`
(`service_streaming_transport.py:79-88`) or when something fails between
`register_inflight_invoke` and the `try` of `run_http_invoke` (`route_runner.py:452-495`).
`cancel_session` overwrites the pending event of an entry. Two interrupters that overlap both run.
`record_preempt_event` is to merge a preempt event with the one stored before
(`history_projection_events.py:17-54`), but looks for it in `existing_message.metadata`
(`:196-201`), while the mapped attribute is `message_metadata` (`db/models/agent_message.py:63`):
it never finds one, and the last writer's status stands. An interrupter that reads before, and
writes after, the deferred cancel is resolved leaves "accepted" for good. `NoteWrite` does so; the
merge is not modelled.

*Streams.* When a frame shows the client a number above its place in the cache, its cursor
passes cached events, and a resumption after a loss skips them for good although later ones
arrive. An event with a text and a question is stored as two updates and cached as one event
(`route_runner_streaming.py:674-683`, `stream_persistence.py:329-330` and `:466`), so the
numbers of later texts run ahead; a status that brings the agent's own number shows that one
(`hub_stream_contract.py:177-187`), and the client takes the largest number of either kind
(`chatRuntime.ts:605-612`). `src/docs/contracts/stream-block-operation-contract.md:17` calls
`seq` a monotonic number of the message. `NothingSkipped` holds until then (`~ahead`). A client
that has received nothing numbered resumes without a number
(`src/frontend/store/chat.ts:427-469`), and the new run counts from 1 into the same cache entry
(`service_streaming_transport.py:78-88`, `:130-155`), which may hold events of the lost one. A
next resumption, with a number of the new run, is replayed what is above it in either numbering,
oldest first; if the connection is lost again then, the client's number may be one of the old
run, and events of the new one are skipped for good although later ones arrive. It takes four
runs. `src/docs/contracts/stream-block-operation-contract.md:45-53` describes the cursor without
resumed or failed flushes; the reducers disagree on the open flag of a block (`:9`) and on
updates with a stale base (`:26`), which is why `SameContent` leaves based updates out.
`chatRuntime.ts:606` may show an event twice after a resumption. A generator closed at a `yield`
records a truncated SSE stream as done; a failed run's text overwrites what a resumption has
stored; chunks not yet flushed are lost in a crash.

*Sign-in.* `RevokeAll` locks the rows there are; a bootstrap of a legacy token that has passed
the watermark before creates its session afterwards, and it survives the change of password
(`session_service.py:274-281`, `auth/service.py:117-128`). The refreshes of `AuthBootstrap` name
no `expectedAuthVersion` (`AuthBootstrap.tsx:68`, `:136`), so a token that arrives after a
sign-out signs the tab in again, and a refusal signs out a newer session (`client.ts:266-279`).
A late refresh answer of an older session may put its cookie back behind a new sign-in. A
refresh whose answer is lost is retried 10 s later, while the previous token is tolerated for 5
s: the retry is taken for a replay.

*Client pool.* An agent whose error text contains "client has been closed" has the transport of
all agents replaced (`client.py:1554-1567`). A retry may deliver a message twice; a retried
stream is downgraded to blocking; an invalidation by key may close a client that has just been
created; a call that holds a closed client creates an adapter that nobody closes.

*Agents.* Two overlapping edits can leave a wrong secret or delete a right one; rows of
shared agents may mix columns of two checks; the first concurrent check of a shared agent fails on the
unique constraint and loses its results; edits of URL or credentials keep the old
health; an older check overwrites a newer result.

## 17. What is not modelled

Everything with status `not_modelled` in `PROJECT.json`, with the reason there. Of the
modelled components: retention of terminal runs, threads of runs, list projections
(schedules); the assistant's tools and their contracts, the contents of delegated conversations
(Hub Assistant); the append control, which forwards to an extension, and the negotiation of
extensions (invoke); parsing of upstream events, contract diagnostics
(streams); passwords, rate limits and audit log (auth); dialects, transports and proxy policy
(client); card validation and listing (agents); screens, drafts and list caches (frontend).
PostgreSQL is trusted to do what its documentation says of row locks, advisory locks and READ
COMMITTED; commits are atomic and durable. The asyncio loop is trusted to switch at awaits only.
