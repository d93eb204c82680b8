----------------------------- MODULE AgentHealth -----------------------------
(***************************************************************************)
(* Health checks of the agents a user sees: the personal ones, whose       *)
(* result is part of the agent's row (agents/personal/service.py), and the *)
(* shared ones and the Hub Assistant, whose result is a row per user       *)
(* (agents/catalog/service.py).  A check reads the rows, asks the agents   *)
(* one after the other without a transaction, and writes all results at    *)
(* the end; two checks of one user may overlap.                            *)
(*                                                                         *)
(* The personal results are written by an UPDATE that names every health   *)
(* column; the others through the ORM, which reads the rows again and      *)
(* writes the columns that differ from what it has read.                   *)
(***************************************************************************)
EXTENDS Naturals, FiniteSets

CONSTANTS
  OwnAgents,     \* personal agents
  HubAgents,     \* shared agents
  Assistants,    \* the Hub Assistant, when it is configured
  Checks,        \* requests that check
  Threshold,     \* a2a_agent_health_unavailable_threshold
  Cooldown,      \* a2a_agent_health_check_cooldown_seconds
  MaxTime        \* bound of the clock

ASSUME HealthAssumption ==
  /\ Threshold \in Nat \ {0}
  /\ Cooldown \in Nat /\ MaxTime \in Nat
  /\ OwnAgents \cap HubAgents = {}
  /\ (OwnAgents \cup HubAgents) \cap Assistants = {}

VARIABLES
  own,       \* own[a]: a personal agent is absent, enabled, disabled or deleted
  access,    \* access[a]: a shared agent is open, hidden, or lacks the user's credential
  health,    \* health[a]: the stored result
  check,     \* check[c]: the request
  clock,     \* every probe has its own time
  failed     \* failed[a]: history, the probes of the agent that failed

healthVars == <<own, access, health, check, clock, failed>>

Catalogued == OwnAgents \cup HubAgents \cup Assistants
Columns == {"status", "failures", "checkedAt", "succeededAt"}
Statuses == {"absent", "unknown", "healthy", "degraded", "unavailable"}

\* Time 0 stands for NULL.
Result == [status: Statuses, failures: Nat, checkedAt: Nat, succeededAt: Nat]
Unchecked == [status |-> "unknown", failures |-> 0, checkedAt |-> 0, succeededAt |-> 0]
Unrecorded == [Unchecked EXCEPT !.status = "absent"]

NoResults == [a \in {} |-> Unrecorded]
NoCheck ==
  [pc |-> "idle", kind |-> "own", force |-> FALSE, todo |-> {},
   seen |-> NoResults, found |-> NoResults, read |-> NoResults]

HealthInit ==
  /\ own = [a \in OwnAgents |-> "absent"]
  /\ access \in [HubAgents -> {"open", "hidden"}]
  /\ health = [a \in Catalogued |-> IF a \in OwnAgents THEN Unchecked ELSE Unrecorded]
  /\ check = [c \in Checks |-> NoCheck]
  /\ clock = 0
  /\ failed = [a \in Catalogued |-> 0]

-----------------------------------------------------------------------------
(***************************************************************************)
(* The user's agents, and what an administrator shows of the others.       *)
(***************************************************************************)
CreateAgent(a) ==
  /\ own[a] = "absent"
  /\ own' = [own EXCEPT ![a] = "enabled"]
  /\ UNCHANGED <<access, health, check, clock, failed>>

\* An edit, of the card's URL or of the authentication as well, keeps the result.
EnableAgent(a, enabled) ==
  /\ own[a] \in {"enabled", "disabled"}
  /\ own' = [own EXCEPT ![a] = IF enabled THEN "enabled" ELSE "disabled"]
  /\ UNCHANGED <<access, health, check, clock, failed>>

DeleteAgent(a) ==
  /\ own[a] \in {"enabled", "disabled"}
  /\ own' = [own EXCEPT ![a] = "deleted"]
  /\ UNCHANGED <<access, health, check, clock, failed>>

SetAccess(a, to) ==
  /\ access[a] # to
  /\ access' = [access EXCEPT ![a] = to]
  /\ UNCHANGED <<own, health, check, clock, failed>>

-----------------------------------------------------------------------------
(***************************************************************************)
(* A check.                                                                *)
(***************************************************************************)
Results(agents) == [a \in agents |-> health[a]]
Ask(c, pc, agents) ==
  [check[c] EXCEPT !.pc = pc, !.todo = agents, !.seen = Results(agents), !.found = NoResults]

\* One agent is checked though it is disabled; an agent that is gone is a 404.
CheckOne(c, a, force) ==
  /\ check[c].pc = "idle"
  /\ own[a] \in {"enabled", "disabled"}
  /\ check' = [check EXCEPT ![c] = [Ask(c, "own", {a}) EXCEPT !.force = force]]
  /\ UNCHANGED <<own, access, health, clock, failed>>

\* All personal agents; the catalog goes on to the others.
CheckAll(c, kind, force) ==
  /\ check[c].pc = "idle"
  /\ check' = [check EXCEPT ![c] =
       [Ask(c, "own", {a \in OwnAgents : own[a] = "enabled"})
        EXCEPT !.kind = kind, !.force = force]]
  /\ UNCHANGED <<own, access, health, clock, failed>>

ListHub(c) ==
  /\ check[c].pc = "list"
  /\ check' = [check EXCEPT ![c] =
       Ask(c, "hub", {a \in HubAgents : access[a] # "hidden"} \cup Assistants)]
  /\ UNCHANGED <<own, access, health, clock, failed>>

Now == clock + 1

Cooling(c, a) ==
  /\ ~check[c].force
  /\ check[c].seen[a].checkedAt # 0
  /\ check[c].seen[a].checkedAt + Cooldown > Now

SkipCooling(c, a) ==
  /\ a \in check[c].todo
  /\ Cooling(c, a)
  /\ check' = [check EXCEPT ![c].todo = @ \ {a}]
  /\ UNCHANGED <<own, access, health, clock, failed>>

FailureStatus(failures) == IF failures >= Threshold THEN "unavailable" ELSE "degraded"

\* The values written for an agent: a missing credential makes a shared agent
\* unavailable at once and counts as no failure.
\* Mutant: every result but a success counts.
FailuresOfAll(seen, verdict) == IF verdict = "ok" THEN 0 ELSE seen.failures + 1
FailuresAfter(seen, verdict) == IF verdict = "fails" THEN seen.failures + 1 ELSE 0

\* Mutant: the time of the last success is that of the last check.
SuccessAtOnce(seen, verdict, now) == now
SuccessAfter(seen, verdict, now) == IF verdict = "ok" THEN now ELSE seen.succeededAt

Checked(seen, verdict, now) ==
  LET failures == FailuresAfter(seen, verdict)
  IN  [status |-> CASE verdict = "ok" -> "healthy"
                    [] verdict = "credential" -> "unavailable"
                    [] verdict = "fails" -> FailureStatus(failures),
       failures |-> failures, checkedAt |-> now,
       succeededAt |-> SuccessAfter(seen, verdict, now)]

\* What can come of asking: the access of a shared agent is looked up again.
Verdicts(a) ==
  IF a \in Assistants THEN {"ok"}
  ELSE IF a \in OwnAgents THEN {"ok", "fails"}
  ELSE IF access[a] = "hidden" THEN {"fails"}
  ELSE IF access[a] = "unset" THEN {"credential"}
  ELSE {"ok", "fails"}

Probe(c, a, verdict) ==
  /\ a \in check[c].todo
  /\ ~Cooling(c, a)
  /\ clock < MaxTime
  /\ verdict \in Verdicts(a)
  /\ clock' = Now
  /\ check' = [check EXCEPT
       ![c].todo = @ \ {a},
       ![c].found = [b \in DOMAIN @ \cup {a} |->
                       IF b = a THEN Checked(check[c].seen[a], verdict, Now) ELSE @[b]]]
  /\ failed' = [failed EXCEPT ![a] = IF verdict = "fails" THEN @ + 1 ELSE @]
  /\ UNCHANGED <<own, access, health>>

Finished(c) ==
  IF check[c].kind = "catalog" /\ check[c].pc = "own"
  THEN [check[c] EXCEPT !.pc = "list", !.seen = NoResults, !.found = NoResults]
  ELSE NoCheck

\* _persist_health_updates: the rows that are not deleted, every column.
Persisted(a) == own[a] # "deleted"

WriteOwn(c) ==
  /\ check[c].pc = "own" /\ check[c].todo = {}
  /\ health' = [a \in Catalogued |->
       IF a \in DOMAIN check[c].found /\ Persisted(a) THEN check[c].found[a] ELSE health[a]]
  /\ check' = [check EXCEPT ![c] = Finished(c)]
  /\ UNCHANGED <<own, access, clock, failed>>

\* _persist_availability_updates reads the rows again ...
ReadHub(c) ==
  /\ check[c].pc = "hub" /\ check[c].todo = {}
  /\ check' = [check EXCEPT ![c] =
       IF DOMAIN check[c].found = {} THEN NoCheck
       ELSE [check[c] EXCEPT !.pc = "write", !.read = Results(DOMAIN check[c].found)]]
  /\ UNCHANGED <<own, access, health, clock, failed>>

\* ... inserts the missing ones and writes the columns that differ.
Inserted(c, a) == check[c].read[a].status = "absent"
Duplicate(c) ==
  \E a \in DOMAIN check[c].found : Inserted(c, a) /\ health[a].status # "absent"

Column(c, a, k) ==
  IF Inserted(c, a) \/ check[c].found[a][k] # check[c].read[a][k]
  THEN check[c].found[a][k] ELSE health[a][k]

WriteHub(c) ==
  /\ check[c].pc = "write"
  /\ ~Duplicate(c)
  /\ health' = [a \in Catalogued |->
       IF a \in DOMAIN check[c].found THEN [k \in Columns |-> Column(c, a, k)] ELSE health[a]]
  /\ check' = [check EXCEPT ![c] = NoCheck]
  /\ UNCHANGED <<own, access, clock, failed>>

\* Another check has inserted one of the rows (the unique constraint), or the
\* database or a lookup fails: what was not written yet is lost.
CheckFails(c) ==
  /\ check[c].pc # "idle"
  /\ check' = [check EXCEPT ![c] = NoCheck]
  /\ UNCHANGED <<own, access, health, clock, failed>>

HealthNext ==
  \/ \E a \in OwnAgents :
       \/ CreateAgent(a) \/ DeleteAgent(a)
       \/ \E enabled \in BOOLEAN : EnableAgent(a, enabled)
  \/ \E a \in HubAgents, to \in {"open", "hidden", "unset"} : SetAccess(a, to)
  \/ \E c \in Checks :
       \/ \E a \in OwnAgents, force \in BOOLEAN : CheckOne(c, a, force)
       \/ \E kind \in {"own", "catalog"}, force \in BOOLEAN : CheckAll(c, kind, force)
       \/ \E a \in Catalogued :
            \/ SkipCooling(c, a)
            \/ \E verdict \in {"ok", "fails", "credential"} : Probe(c, a, verdict)
       \/ WriteOwn(c) \/ ListHub(c) \/ ReadHub(c) \/ WriteHub(c) \/ CheckFails(c)

HealthSpec == HealthInit /\ [][HealthNext]_healthVars

-----------------------------------------------------------------------------
HealthTypeOK ==
  /\ own \in [OwnAgents -> {"absent", "enabled", "disabled", "deleted"}]
  /\ access \in [HubAgents -> {"open", "hidden", "unset"}]
  /\ health \in [Catalogued -> Result]
  /\ \A c \in Checks :
       /\ check[c].pc \in {"idle", "own", "list", "hub", "write"}
       /\ check[c].todo \subseteq DOMAIN check[c].seen
       /\ \A a \in DOMAIN check[c].found : a \in Catalogued /\ check[c].found[a] \in Result
  /\ clock \in Nat /\ failed \in [Catalogued -> Nat]

\* The stored result of a personal agent is that of one check, however checks overlap:
\* status, failures and times agree (personal/service.py:1012-1040,
\* health_check_helpers.py:9-28).
ResultOfOneCheck ==
  \A a \in OwnAgents : LET r == health[a] IN
    /\ r.succeededAt <= r.checkedAt
    /\ r.status = "unknown" <=> r.checkedAt = 0
    /\ r.status = "healthy" <=> r.checkedAt # 0 /\ r.succeededAt = r.checkedAt
    /\ r.failures = 0 <=> r.status \in {"unknown", "healthy"}
    /\ r.status = "unavailable" <=> r.failures >= Threshold

\* Overlapping checks may lose failures, never invent them: nobody is unavailable for
\* failures that did not happen (personal/service.py:1036-1040, catalog/service.py:116-120).
FailuresHappened == \A a \in Catalogued : health[a].failures <= failed[a]

=============================================================================
