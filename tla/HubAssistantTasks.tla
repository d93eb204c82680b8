------------------------- MODULE HubAssistantTasks -------------------------
(***************************************************************************)
(* The durable background tasks of the Hub Assistant                       *)
(* (src/backend/app/features/hub_assistant/shared/task_service.py and      *)
(* task_job.py): the table hub_assistant_tasks, the scan jobs that recover,*)
(* claim and execute its rows, and the requests that create or rewrite     *)
(* them. Two sorts of rows:                                                *)
(*   - jobs, executed once: continuations of accepted permission replies   *)
(*     and delegated invocations;                                          *)
(*   - watches, one per Hub Assistant conversation: they wake the          *)
(*     assistant whenever a tracked conversation has an agent message that *)
(*     the stored anchor does not know, and are armed again afterwards.    *)
(*                                                                         *)
(* A step is one transaction: row locks are taken and released inside it   *)
(* (SKIP LOCKED in scans, a blocking FOR UPDATE elsewhere), no transaction *)
(* waits for an agent while it holds one. A scan executes what it claimed  *)
(* from memory, one item after the other, without looking at the rows      *)
(* again and without a heartbeat.                                          *)
(*                                                                         *)
(* Abstracted: an anchor (message id, updated_at, status) is a version     *)
(* number of the conversation, 0 is no agent message; timestamps (a        *)
(* running row may become overdue at any moment); what the assistant says; *)
(* failing validations, which change nothing.                              *)
(***************************************************************************)
EXTENDS Naturals, FiniteSets

CONSTANTS
  Watches,        \* Hub Assistant conversations, each with one follow-up row
  Conversations,  \* target conversations that can be tracked
  Replies,        \* request ids of permission replies (dedupe_key)
  Handoffs,       \* delegated invocations
  Scanners,       \* scan jobs (interval, initial, requested), all processes
  BatchSize,      \* hub_assistant_task_batch_size
  MaxVersion,     \* bound: agent messages per target conversation
  None            \* no item

Jobs == Replies \cup Handoffs
Tasks == Watches \cup Jobs

ASSUME KindsAssumption == Watches \cap Jobs = {} /\ Replies \cap Handoffs = {}
ASSUME BoundsAssumption == BatchSize \in Nat \ {0} /\ MaxVersion \in Nat

VARIABLES
  status,   \* of each row; "absent" before it is inserted
  overdue,  \* last_run_started_at of a running row is past the timeout
  tracked,  \* tracked_conversation_ids of each watch
  anchor,   \* target_agent_message_anchors of each watch
  older,    \* <<v, w>>: watch v has an earlier updated_at than watch w
  latest,   \* latest agent text message of each target conversation
  scan,     \* what each scan job is doing
  lapsed,   \* history: <<s, t>>: s holds t, but its claim has ended
  told,     \* history: versions the persisted summaries of a watch cover
  base      \* history: versions at which the tracked sessions were last set

vars == <<status, overdue, tracked, anchor, older, latest, scan, lapsed, told, base>>

-----------------------------------------------------------------------------
(* Rows and scan jobs *)

Versions == 0 .. MaxVersion
Anchors == [Conversations -> Versions]
NoAnchors == [c \in Conversations |-> 0]

ASSUME NoneAssumption == None \notin [task : Tasks, observed : Anchors]

\* A claimed work item; observed stays empty for jobs.
Item == [task : Tasks, observed : Anchors]

\* batch: claimed, not yet started; item: in execution; outcome: its result
\* once the run has returned.
ScanState == [pc : {"idle", "recovered", "between", "running", "settling"},
              batch : SUBSET Item, item : Item \cup {None},
              outcome : {"none", "ok", "interrupted", "error"}]

Idle == [pc |-> "idle", batch |-> {}, item |-> None, outcome |-> "none"]

InHand(s) == scan[s].pc \in {"running", "settling"}

Holds(s, t) ==
  \/ \E i \in scan[s].batch : i.task = t
  \/ InHand(s) /\ scan[s].item.task = t

\* Anchors are kept for tracked conversations only.
TypeOK ==
  /\ status \in [Tasks -> {"absent", "waiting", "running", "completed", "failed"}]
  /\ overdue \in [Tasks -> BOOLEAN]
  /\ tracked \in [Watches -> SUBSET Conversations]
  /\ anchor \in [Watches -> Anchors]
  /\ \A w \in Watches, c \in Conversations : anchor[w][c] # 0 => c \in tracked[w]
  /\ older \in SUBSET (Watches \X Watches)
  /\ latest \in Anchors
  /\ scan \in [Scanners -> ScanState]
  /\ \A s \in Scanners : (scan[s].item # None) <=> InHand(s)
  /\ lapsed \in SUBSET (Scanners \X Tasks)
  /\ told \in [Watches -> Anchors]
  /\ base \in [Watches -> Anchors]

Init ==
  /\ status = [t \in Tasks |-> "absent"]
  /\ overdue = [t \in Tasks |-> FALSE]
  /\ tracked = [w \in Watches |-> {}]
  /\ anchor = [w \in Watches |-> NoAnchors]
  /\ older = {}
  /\ latest = NoAnchors
  /\ scan = [s \in Scanners |-> Idle]
  /\ lapsed = {}
  /\ told = [w \in Watches |-> NoAnchors]
  /\ base = [w \in Watches |-> NoAnchors]

-----------------------------------------------------------------------------
(* Helpers *)

Least(m, n) == IF m < n THEN m ELSE n

Later(f, g) == [c \in Conversations |-> IF f[c] < g[c] THEN g[c] ELSE f[c]]

Only(f, C) == [c \in Conversations |-> IF c \in C THEN f[c] ELSE 0]

\* One transaction gives all the rows it writes the same updated_at.
Touched(W) ==
  {p \in older : p[1] \notin W /\ p[2] \notin W} \cup ((Watches \ W) \X W)

\* The claims on the tasks in T end now, whoever holds them.
Ended(T) == lapsed \cup {p \in Scanners \X T : Holds(p[1], p[2])}

Set(t, state) == [status EXCEPT ![t] = state]

Unchanged == UNCHANGED <<tracked, anchor, latest, told, base>>

-----------------------------------------------------------------------------
(* Scans *)

\* Mutant: only rows without a start time count as stale.
NeverStale == {}

Stale == {t \in Tasks : status[t] = "running" /\ overdue[t]}

Recover(s) ==
  /\ scan[s].pc = "idle"
  /\ scan' = [scan EXCEPT ![s].pc = "recovered"]
  /\ status' = [t \in Tasks |-> IF t \in Stale THEN "waiting" ELSE status[t]]
  /\ overdue' = [t \in Tasks |-> overdue[t] /\ t \notin Stale]
  /\ older' = Touched(Stale \cap Watches)
  /\ lapsed' = Ended(Stale)
  /\ Unchanged

Waiting == {t \in Tasks : status[t] = "waiting"}

\* What ORDER BY updated_at LIMIT n may return of the rows. The order of jobs
\* is left open.
Oldest(n, rows) ==
  {T \in SUBSET rows :
     /\ Cardinality(T) = Least(n, Cardinality(rows))
     /\ \A w \in T, v \in rows \ T : <<v, w>> \notin older}

\* Mutant: a first message, for which no anchor is stored, is no change.
ChangedSinceAnchor(w) ==
  {c \in tracked[w] : anchor[w][c] # 0 /\ latest[c] # anchor[w][c]}

Changed(w) == {c \in tracked[w] : latest[c] # 0 /\ latest[c] # anchor[w][c]}

Observed(t) == IF t \in Watches THEN Only(latest, tracked[t]) ELSE NoAnchors

\* Mutant: the claim of a job does not mark its row.
ClaimStatusOfWatches(claimed) ==
  [t \in Tasks |-> IF t \in claimed \cap Watches THEN "running" ELSE status[t]]

ClaimStatus(claimed) ==
  [t \in Tasks |-> IF t \in claimed THEN "running" ELSE status[t]]

\* Jobs first, then watches for the rest of the batch. A watch without news
\* takes its place in the batch but is left untouched. SKIP LOCKED passes
\* over the rows that another transaction has locked at this moment. The claim
\* would complete a watch that tracks nothing, but none of those is waiting
\* (LiveWhileTracking).
Claim(s, locked) ==
  \E jobs \in Oldest(BatchSize, (Waiting \ locked) \cap Jobs) :
    \E rows \in Oldest(BatchSize - Cardinality(jobs), (Waiting \ locked) \cap Watches) :
      LET woken == {w \in rows : Changed(w) # {}}
          claimed == jobs \cup woken
      IN  /\ scan[s].pc = "recovered"
          /\ scan' = [scan EXCEPT ![s].pc = IF claimed = {} THEN "idle" ELSE "between",
                        ![s].batch = {[task |-> t, observed |-> Observed(t)] : t \in claimed}]
          /\ status' = ClaimStatus(claimed)
          /\ overdue' = [t \in Tasks |-> overdue[t] /\ t \notin claimed]
          /\ older' = Touched(woken)
          /\ UNCHANGED lapsed
          /\ Unchanged

-----------------------------------------------------------------------------
(* Execution of a claimed batch, one item after the other *)

Start(s) ==
  \E i \in scan[s].batch :
    /\ scan[s].pc = "between"
    /\ i.task \in Watches => \A j \in scan[s].batch : j.task \in Watches
    /\ scan' = [scan EXCEPT ![s].pc = "running", ![s].item = i, ![s].batch = @ \ {i}]
    /\ UNCHANGED <<status, overdue, older, lapsed>>
    /\ Unchanged

\* The run of the assistant, or the invocation of the target agent, returns
\* or raises. Only follow-ups turn an interrupt into a status of their own.
Run(s) ==
  /\ scan[s].pc = "running"
  /\ \E outcome \in {"ok", "interrupted", "error"} :
       /\ outcome = "interrupted" => scan[s].item.task \in Watches
       /\ scan' = [scan EXCEPT ![s].pc = "settling", ![s].outcome = outcome]
  /\ UNCHANGED <<status, overdue, older, lapsed>>
  /\ Unchanged

\* The scan leaves the item behind.
Done(s) == [scan EXCEPT ![s].pc = "between", ![s].item = None, ![s].outcome = "none"]

Settled(s, t) == Ended({t}) \ {<<s, t>>}

\* Mutant: the anchors are read when the run has ended.
AcknowledgedNow(w, observed) == Only(latest, tracked[w])

\* Mutant: the anchors of conversations no longer tracked are stored as well.
AcknowledgedAll(w, observed) == observed

Acknowledged(w, observed) == Only(observed, tracked[w])

\* complete_task for a follow-up whose row is running. The summary message
\* was written in the same session and is committed here.
CompleteWatch(s) ==
  LET w == scan[s].item.task
      observed == scan[s].item.observed
  IN  /\ scan[s].pc = "settling" /\ scan[s].outcome = "ok"
      /\ w \in Watches
      /\ status[w] = "running"
      /\ anchor' = [anchor EXCEPT ![w] = Acknowledged(w, observed)]
      /\ status' = Set(w, IF tracked[w] # {} THEN "waiting" ELSE "completed")
      /\ overdue' = [overdue EXCEPT ![w] = FALSE]
      /\ older' = Touched({w})
      /\ lapsed' = Settled(s, w)
      /\ told' = [told EXCEPT ![w] = Later(told[w], observed)]
      /\ scan' = Done(s)
      /\ UNCHANGED <<tracked, latest, base>>

\* complete_task returns early when the row is no longer running; the
\* session is closed without a commit and the summary with it.
CompleteNothing(s) ==
  LET w == scan[s].item.task
  IN  /\ scan[s].pc = "settling" /\ scan[s].outcome = "ok"
      /\ w \in Watches
      /\ status[w] # "running"
      /\ lapsed' = lapsed \ {<<s, w>>}
      /\ scan' = Done(s)
      /\ UNCHANGED <<status, overdue, older>>
      /\ Unchanged

\* complete_task for the other kinds, whatever the status of the row.
CompleteJob(s) ==
  LET t == scan[s].item.task
  IN  /\ scan[s].pc = "settling" /\ scan[s].outcome = "ok"
      /\ t \in Jobs
      /\ status' = Set(t, "completed")
      /\ overdue' = [overdue EXCEPT ![t] = FALSE]
      /\ lapsed' = Settled(s, t)
      /\ scan' = Done(s)
      /\ UNCHANGED older
      /\ Unchanged

\* fail_task, whatever the status of the row: in the session of the run when
\* a follow-up was interrupted, which commits its message too; in a new
\* session after an exception, when the message of the run is gone.
Fail(s) ==
  LET t == scan[s].item.task
  IN  /\ scan[s].pc = "settling" /\ scan[s].outcome \in {"interrupted", "error"}
      /\ status' = Set(t, "failed")
      /\ overdue' = [overdue EXCEPT ![t] = FALSE]
      /\ older' = IF t \in Watches THEN Touched({t}) ELSE older
      /\ lapsed' = Settled(s, t)
      /\ told' = IF scan[s].outcome = "interrupted"
                   THEN [told EXCEPT ![t] = Later(told[t], scan[s].item.observed)]
                   ELSE told
      /\ scan' = Done(s)
      /\ UNCHANGED <<tracked, anchor, latest, base>>

\* Settling raises: the session is rolled back and the failure is recorded
\* in a new one, or, when that fails too, only logged.
SettleError(s) ==
  /\ scan[s].pc = "settling"
  /\ IF scan[s].outcome = "error"
       THEN /\ scan' = Done(s)
            /\ lapsed' = lapsed \ {<<s, scan[s].item.task>>}
       ELSE /\ scan' = [scan EXCEPT ![s].outcome = "error"]
            /\ UNCHANGED lapsed
  /\ UNCHANGED <<status, overdue, older>>
  /\ Unchanged

Finish(s) ==
  /\ scan[s].pc = "between" /\ scan[s].batch = {}
  /\ scan' = [scan EXCEPT ![s].pc = "idle"]
  /\ UNCHANGED <<status, overdue, older, lapsed>>
  /\ Unchanged

\* The process, or the scan itself, dies; its claims stay in the table.
Stop(s) ==
  /\ scan[s].pc # "idle"
  /\ scan' = [scan EXCEPT ![s] = Idle]
  /\ lapsed' = {p \in lapsed : p[1] # s}
  /\ UNCHANGED <<status, overdue, older>>
  /\ Unchanged

-----------------------------------------------------------------------------
(* Requests, time and target agents *)

\* Mutant: setting the tracked sessions leaves the status of a row alone.
ArmedAsBefore(w, C) == IF status[w] = "absent" THEN "waiting" ELSE status[w]

Armed(w, C) == IF C = {} THEN "completed" ELSE "waiting"

\* The anchors of all the conversations in C are read anew. Rewriting a row
\* with equal values emits no UPDATE and leaves updated_at alone.
Track(w, C) ==
  /\ tracked' = [tracked EXCEPT ![w] = C]
  /\ anchor' = [anchor EXCEPT ![w] = Only(latest, C)]
  /\ base' = [base EXCEPT ![w] = Later(base[w], Only(latest, C))]
  /\ overdue' = [overdue EXCEPT ![w] = FALSE]
  /\ lapsed' = Ended({w})
  /\ older' = IF <<status', tracked', anchor'>> = <<status, tracked, anchor>>
                THEN older ELSE Touched({w})
  /\ UNCHANGED <<latest, scan, told>>

SetTracked(w, C) ==
  /\ status' = Set(w, Armed(w, C))
  /\ Track(w, C)

\* A message is handed to conversation c: the delegated invocation is
\* enqueued and c tracked from now on, in one commit.
Delegate(w, c, h) ==
  /\ status[h] = "absent"
  /\ status' = [status EXCEPT ![h] = "waiting", ![w] = Armed(w, tracked[w] \cup {c})]
  /\ Track(w, tracked[w] \cup {c})

\* The dedupe key of the request makes a second reply find the first's row.
Reply(r) ==
  /\ status[r] = "absent"
  /\ status' = Set(r, "waiting")
  /\ UNCHANGED <<overdue, older, scan, lapsed>>
  /\ Unchanged

Overdue(t) ==
  /\ status[t] = "running" /\ ~overdue[t]
  /\ overdue' = [overdue EXCEPT ![t] = TRUE]
  /\ UNCHANGED <<status, older, scan, lapsed>>
  /\ Unchanged

\* An agent message with text appears in a target conversation, or changes.
Post(c) ==
  /\ latest[c] < MaxVersion
  /\ latest' = [latest EXCEPT ![c] = @ + 1]
  /\ UNCHANGED <<status, overdue, tracked, anchor, older, scan, lapsed, told, base>>

-----------------------------------------------------------------------------
(* Specification *)

Execute(s) ==
  \/ Start(s) \/ Run(s)
  \/ CompleteWatch(s) \/ CompleteNothing(s) \/ CompleteJob(s)
  \/ Fail(s) \/ SettleError(s) \/ Finish(s)

Next ==
  \/ \E s \in Scanners : Recover(s) \/ Execute(s) \/ Stop(s)
  \/ \E s \in Scanners, locked \in SUBSET Waiting : Claim(s, locked)
  \/ \E w \in Watches : \/ \E C \in SUBSET Conversations : SetTracked(w, C)
                       \/ \E c \in Conversations, h \in Handoffs : Delegate(w, c, h)
  \/ \E r \in Replies : Reply(r)
  \/ \E t \in Tasks : Overdue(t)
  \/ \E c \in Conversations : Post(c)

Spec == Init /\ [][Next]_vars

(***************************************************************************)
(* Fairness. The interval job fires every few seconds, runs return (the    *)
(* assistant's provider and the invocation service bound their requests),  *)
(* items get settled, time passes: weak fairness. A claim follows the      *)
(* recovery of its scan within milliseconds, so it is not always there     *)
(* that a process dies, nor always then that another transaction has a row *)
(* locked: strong fairness of a claim that skips nothing. Nothing makes    *)
(* users or agents act, and a process may die again and again while it     *)
(* executes.                                                               *)
(***************************************************************************)
Fairness ==
  /\ \A s \in Scanners : WF_vars(Recover(s)) /\ SF_vars(Claim(s, {})) /\ WF_vars(Execute(s))
  /\ \A t \in Tasks : WF_vars(Overdue(t))

FairSpec == Spec /\ Fairness

-----------------------------------------------------------------------------
(* Safety *)

\* A claim is exclusive until it ends by timeout, re-arming or a late
\* settling: two scans never both hold a task in good faith.
ExclusiveClaim ==
  \A s, u \in Scanners, t \in Tasks :
    /\ Holds(s, t) /\ <<s, t>> \notin lapsed
    /\ Holds(u, t) /\ <<u, t>> \notin lapsed
    => s = u

\* A stored anchor never covers a message nobody was told of: it comes from
\* a run whose summary is persisted or from setting the tracked sessions,
\* also when late runs, re-armed rows and new messages interleave.
NothingSwallowed ==
  \A w \in Watches, c \in Conversations :
    anchor[w][c] <= told[w][c] \/ anchor[w][c] <= base[w][c]

\* A follow-up lives exactly while it tracks something, unless a run of it
\* failed: no late completion or failure leaves it armed with nothing to
\* watch, or asleep though sessions were set.
LiveWhileTracking ==
  \A w \in Watches :
    status[w] \in {"waiting", "running"} <=> tracked[w] # {} /\ status[w] # "failed"

-----------------------------------------------------------------------------
(* Liveness, under FairSpec *)

\* No row stays running: its run settles it, or its timeout frees it though
\* the process died or the settling was lost.
RunningLeaves ==
  \A t \in Tasks : status[t] = "running" ~> status[t] # "running"

Unread(w) == \E c \in tracked[w] : latest[c] # anchor[w][c]

\* A waiting follow-up with news is claimed, unless it is set anew.
WokenUp ==
  \A w \in Watches :
    status[w] = "waiting" /\ Unread(w) ~> status[w] # "waiting" \/ ~Unread(w)

-----------------------------------------------------------------------------
(* Stated by the documentation; not kept (see the README) *)

\* The summary of a follow-up run that succeeded is persisted in the
\* conversation before the scan turns to something else.
SummaryKept ==
  [][\A s \in Scanners :
       /\ scan[s].pc = "settling" /\ scan[s].outcome = "ok"
       /\ scan'[s].pc = "between"
       /\ scan[s].item.task \in Watches
       => \A c \in Conversations :
            told'[scan[s].item.task][c] >= scan[s].item.observed[c]]_vars

=============================================================================
