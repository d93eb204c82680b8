--------------------------- MODULE ScheduleLedger ---------------------------
(***************************************************************************)
(* What the schedule tables promise their readers, whatever processes      *)
(* crash, race or retry underneath: every run is opened once for one task, *)
(* never beside another active run of that task; it is started at most     *)
(* once; it is settled at most once, and only the settling of a started    *)
(* run moves the task's count of consecutive failures, exactly once, in    *)
(* the same step. ScheduleRuns implements this specification.              *)
(***************************************************************************)
EXTENDS Naturals

CONSTANTS Tasks, Runs, None

VARIABLES
  status,    \* of each run
  owner,     \* the task of each run
  failures   \* consecutive failures of each task

ledgerVars == <<status, owner, failures>>

Init ==
  /\ status = [r \in Runs |-> "unused"]
  /\ owner = [r \in Runs |-> None]
  /\ failures = [t \in Tasks |-> 0]

Occupied(t) == \E r \in Runs : owner[r] = t /\ status[r] \in {"pending", "running"}

Open(opened, taskOf) ==
  /\ \A r \in opened : status[r] = "unused" /\ ~Occupied(taskOf[r])
  /\ \A r, s \in opened : taskOf[r] = taskOf[s] => r = s
  /\ status' = [r \in Runs |-> IF r \in opened THEN "pending" ELSE status[r]]
  /\ owner' = [r \in Runs |-> IF r \in opened THEN taskOf[r] ELSE owner[r]]
  /\ UNCHANGED failures

Start(r) ==
  /\ status[r] = "pending"
  /\ status' = [status EXCEPT ![r] = "running"]
  /\ UNCHANGED <<owner, failures>>

\* A run whose task was disabled or deleted before it started.
Reject(r) ==
  /\ status[r] = "pending"
  /\ status' = [status EXCEPT ![r] = "failed"]
  /\ UNCHANGED <<owner, failures>>

Succeed(r) ==
  /\ status[r] = "running"
  /\ status' = [status EXCEPT ![r] = "success"]
  /\ failures' = [failures EXCEPT ![owner[r]] = 0]
  /\ UNCHANGED owner

Fail(r) ==
  /\ status[r] = "running"
  /\ status' = [status EXCEPT ![r] = "failed"]
  /\ failures' = [failures EXCEPT ![owner[r]] = @ + 1]
  /\ UNCHANGED owner

Next ==
  \/ \E opened \in SUBSET Runs : \E taskOf \in [opened -> Tasks] : Open(opened, taskOf)
  \/ \E r \in Runs : Start(r) \/ Reject(r) \/ Succeed(r) \/ Fail(r)

Spec == Init /\ [][Next]_ledgerVars

=============================================================================
