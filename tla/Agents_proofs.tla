---------------------------- MODULE Agents_proofs ----------------------------
(***************************************************************************)
(* Proofs about AgentHealth and AgentCredentials, for every number of      *)
(* agents, checks and requests, every threshold and every cool-down.       *)
(*                                                                         *)
(* Health: what is stored comes from what a check has found, and that from *)
(* what it has seen before it asked: HealthInv says of the results a check *)
(* carries what the properties say of the stored ones, and that a catalog  *)
(* check carries personal results only while it writes personal rows.      *)
(*                                                                         *)
(* Credentials: SecretFits is about agents whose requests have not         *)
(* overlapped.  Then there is at most one request about the agent, what it *)
(* has loaded is still so (Current), and what it is about to commit        *)
(* (Prepared) makes the secret fit again.                                  *)
(***************************************************************************)
EXTENDS AgentHealth, AgentCredentials, TLAPS

-----------------------------------------------------------------------------
(* Health: the invariant                                                   *)

\* The results of some agents.
Partial == UNION {[S -> Result] : S \in SUBSET Catalogued}

CheckRecord ==
  [pc : {"idle", "own", "list", "hub", "write"}, kind : {"own", "catalog"}, force : BOOLEAN,
   todo : SUBSET Catalogued, seen : Partial, found : Partial, read : Partial]

HealthTypes ==
  /\ own \in [OwnAgents -> {"absent", "enabled", "disabled", "deleted"}]
  /\ access \in [HubAgents -> {"open", "hidden", "unset"}]
  /\ health \in [Catalogued -> Result]
  /\ check \in [Checks -> CheckRecord]
  /\ clock \in Nat /\ failed \in [Catalogued -> Nat]

\* Of the record k of a check: what is left to ask has been seen; what is written through
\* the ORM has been read, and is no personal result.
Ordered(k) ==
  /\ k.todo \subseteq DOMAIN k.seen
  /\ k.pc \in {"hub", "write"} =>
       k.todo \cap OwnAgents = {} /\ DOMAIN k.found \cap OwnAgents = {}
  /\ k.pc = "write" => k.todo = {} /\ DOMAIN k.found \subseteq DOMAIN k.read

\* A table of results no probe has invented, of which fails[a] failed.
Founded(table, fails) == \A a \in DOMAIN table : table[a].failures <= fails[a]

\* A result that one check can have produced, no later than now.
OfOneCheck(r, now) ==
  /\ r.succeededAt <= r.checkedAt /\ r.checkedAt <= now
  /\ r.status = "unknown" <=> r.checkedAt = 0
  /\ r.status = "healthy" <=> r.checkedAt # 0 /\ r.succeededAt = r.checkedAt
  /\ r.failures = 0 <=> r.status \in {"unknown", "healthy"}
  /\ r.status = "unavailable" <=> r.failures >= Threshold

\* A table whose personal results are such.
Sound(table, now) == \A a \in DOMAIN table \cap OwnAgents : OfOneCheck(table[a], now)

Carried(k, fails, now) ==
  /\ Ordered(k)
  /\ Founded(k.seen, fails) /\ Founded(k.found, fails)
  /\ Sound(k.seen, now) /\ Sound(k.found, now)

Stored == Founded(health, failed) /\ Sound(health, clock)

HealthInv ==
  /\ HealthTypes /\ Stored
  /\ \A c \in Checks : Carried(check[c], failed, clock)

-----------------------------------------------------------------------------
(* Results *)

\* What a partial table of results contains.
LEMMA PartialFacts ==
  ASSUME NEW f \in Partial
  PROVE  DOMAIN f \subseteq Catalogued /\ \A a \in DOMAIN f : f[a] \in Result
<1>1. PICK S \in SUBSET Catalogued : f \in [S -> Result]
  BY DEF Partial
<1>. QED
  BY <1>1

\* How one is made.
LEMMA PartialIntro ==
  ASSUME NEW S \in SUBSET Catalogued, NEW f \in [S -> Result]
  PROVE  f \in Partial /\ DOMAIN f = S
BY DEF Partial

\* The empty table.
LEMMA NoResultsFacts == NoResults \in Partial /\ DOMAIN NoResults = {}
<1>1. NoResults \in [{} -> Result]
  BY DEF NoResults
<1>. QED
  BY <1>1, PartialIntro

\* The stored results of some agents.
LEMMA ResultsFacts ==
  ASSUME HealthTypes, NEW S \in SUBSET Catalogued
  PROVE  /\ Results(S) \in Partial /\ DOMAIN Results(S) = S
         /\ \A a \in S : Results(S)[a] = health[a]
<1>1. Results(S) \in [S -> Result]
  BY DEF Results, HealthTypes
<1>. QED
  BY <1>1, PartialIntro DEF Results

\* A personal agent's new result follows from the old one, whatever the answer; and it
\* counts one more failure at most.
LEMMA CheckedFacts ==
  ASSUME NEW r \in Result, NEW verdict \in {"ok", "fails", "credential"}, NEW t \in Nat,
         NEW q, q = Checked(r, verdict, t + 1)
  PROVE  /\ q \in Result
         /\ q.failures <= r.failures + (IF verdict = "fails" THEN 1 ELSE 0)
         /\ OfOneCheck(r, t) /\ verdict # "credential" => OfOneCheck(q, t + 1)
<1>. USE HealthAssumption DEF Checked, FailuresAfter, SuccessAfter, FailureStatus, Result, Statuses
<1>1. CASE verdict = "ok"
  BY <1>1 DEF OfOneCheck
<1>2. CASE verdict = "fails"
  BY <1>2 DEF OfOneCheck
<1>3. CASE verdict = "credential"
  BY <1>3
<1>. QED
  BY <1>1, <1>2, <1>3

\* A row merged from two results has columns of one or of the other.
LEMMA MergedFacts ==
  ASSUME HealthTypes, NEW c \in Checks, NEW a \in DOMAIN check[c].found,
         NEW row, row = [k \in Columns |-> Column(c, a, k)]
  PROVE  /\ row \in Result
         /\ row.failures \in {check[c].found[a].failures, health[a].failures}
<1>1. check[c].found[a] \in Result /\ health[a] \in Result
  BY PartialFacts DEF HealthTypes, CheckRecord
<1>2. \A k \in Columns : row[k] \in {check[c].found[a][k], health[a][k]}
  BY DEF Column
<1>. HIDE DEF Column
<1>. QED
  BY <1>1, <1>2 DEF Result, Columns
-----------------------------------------------------------------------------
(* The invariant *)

\* Failures are only added, and time goes on: what was founded and sound remains so.
LEMMA TablesAge ==
  ASSUME NEW table \in Partial, NEW f \in [Catalogued -> Nat], NEW g \in [Catalogued -> Nat],
         \A a \in Catalogued : f[a] <= g[a], NEW t \in Nat, NEW u \in Nat, t <= u
  PROVE  /\ Founded(table, f) => Founded(table, g)
         /\ Sound(table, t) => Sound(table, u)
<1>1. DOMAIN table \subseteq Catalogued /\ \A a \in DOMAIN table : table[a] \in Result
  BY PartialFacts
<1>2. ASSUME Founded(table, f) PROVE Founded(table, g)
  BY <1>1, <1>2 DEF Founded, Result
<1>3. ASSUME Sound(table, t) PROVE Sound(table, u)
  BY <1>1, <1>3 DEF Sound, OfOneCheck, Result
<1>. QED
  BY <1>2, <1>3

\* A step of one check that leaves the rows of the agents alone.
LEMMA OneCheckMoves ==
  ASSUME HealthInv, NEW c \in Checks, NEW new \in CheckRecord,
         check' = [check EXCEPT ![c] = new], UNCHANGED <<own, access>>,
         health' \in [Catalogued -> Result], clock' \in Nat, failed' \in [Catalogued -> Nat],
         clock <= clock', \A a \in Catalogued : failed[a] <= failed'[a],
         Stored', Carried(new, failed', clock')
  PROVE  HealthInv'
<1>. USE DEF HealthInv, HealthTypes
<1>1. HealthTypes'
  OBVIOUS
<1>2. ASSUME NEW d \in Checks PROVE Carried(check'[d], failed', clock')
  <2>1. CASE d = c
    BY <2>1
  <2>2. CASE d # c
    <3>1. check'[d] = check[d] /\ check[d].seen \in Partial /\ check[d].found \in Partial
      BY <2>2 DEF CheckRecord
    <3>. QED BY <3>1, TablesAge DEF Carried
  <2>. QED BY <2>1, <2>2
<1>. QED
  BY <1>1, <1>2

\* Nothing has been checked before the first request.
LEMMA HealthInvInit == HealthInit => HealthInv
<1>. SUFFICES ASSUME HealthInit PROVE HealthInv
  OBVIOUS
<1>. USE DEF HealthInit, NoCheck, Unchecked, Unrecorded, Result, Statuses
<1>1. \A c \in Checks : check[c] \in CheckRecord /\ check[c] = NoCheck
  BY NoResultsFacts DEF CheckRecord
<1>2. HealthTypes
  BY <1>1 DEF HealthTypes
<1>3. \A c \in Checks : Carried(check[c], failed, clock)
  BY <1>1, NoResultsFacts DEF Carried, Ordered, Founded, Sound
<1>4. Founded(health, failed)
  BY DEF Founded
<1>5. Sound(health, clock)
  BY HealthAssumption DEF Sound, OfOneCheck, Catalogued
<1>. QED
  BY <1>2, <1>3, <1>4, <1>5 DEF HealthInv, Stored

\* A request that forgets everything keeps the invariant.
LEMMA ForgetCheck ==
  ASSUME HealthInv, NEW c \in Checks, check' = [check EXCEPT ![c] = NoCheck],
         UNCHANGED <<own, access, health, clock, failed>>
  PROVE  HealthInv'
<1>1. NoCheck \in CheckRecord
  BY NoResultsFacts DEF NoCheck, CheckRecord
<1>2. Carried(NoCheck, failed, clock)
  BY NoResultsFacts DEF NoCheck, Carried, Ordered, Founded, Sound
<1>3. Stored'
  BY DEF HealthInv, Stored, Founded, Sound, OfOneCheck
<1>. QED
  BY <1>1, <1>2, <1>3, OneCheckMoves DEF HealthInv, HealthTypes

\* A request that begins to ask some agents has seen what is stored of them.
LEMMA AskCheck ==
  ASSUME HealthInv, NEW c \in Checks, NEW S \in SUBSET Catalogued, NEW pc \in {"own", "hub"},
         NEW kind \in {"own", "catalog"}, NEW force \in BOOLEAN,
         pc = "hub" => S \cap OwnAgents = {},
         check' = [check EXCEPT ![c] = [Ask(c, pc, S) EXCEPT !.kind = kind, !.force = force]],
         UNCHANGED <<own, access, health, clock, failed>>
  PROVE  HealthInv'
<1>. DEFINE new == [Ask(c, pc, S) EXCEPT !.kind = kind, !.force = force]
<1>0. check[c] \in CheckRecord
  BY DEF HealthInv, HealthTypes
<1>1. new \in CheckRecord /\ new.pc = pc /\ new.todo = S /\ new.seen = Results(S)
      /\ new.found = NoResults
  BY <1>0, NoResultsFacts, ResultsFacts DEF Ask, CheckRecord, HealthInv
<1>2. DOMAIN Results(S) = S /\ \A a \in S : Results(S)[a] = health[a]
  BY ResultsFacts DEF HealthInv
<1>. HIDE DEF new
<1>3. DOMAIN health = Catalogued
  BY DEF HealthInv, HealthTypes
<1>4. Carried(new, failed, clock)
  BY <1>1, <1>2, <1>3, NoResultsFacts DEF HealthInv, Stored, Carried, Ordered, Founded, Sound
<1>5. Stored'
  BY DEF HealthInv, Stored, Founded, Sound, OfOneCheck
<1>6. check' = [check EXCEPT ![c] = new]
  BY DEF new
<1>. QED
  BY <1>1, <1>4, <1>5, <1>6, OneCheckMoves DEF HealthInv, HealthTypes

\* Asking one agent: the result found follows from the one seen.
LEMMA ProbeKeeps ==
  ASSUME HealthInv, NEW c \in Checks, NEW a \in Catalogued,
         NEW verdict \in {"ok", "fails", "credential"}, Probe(c, a, verdict)
  PROVE  HealthInv'
<1>. DEFINE k == check[c]
            r == Checked(k.seen[a], verdict, Now)
            table == [b \in DOMAIN k.found \cup {a} |-> IF b = a THEN r ELSE k.found[b]]
            new == [k EXCEPT !.todo = @ \ {a}, !.found = table]
<1>. USE DEF HealthInv
<1>1. /\ k \in CheckRecord /\ k.seen \in Partial /\ k.found \in Partial
      /\ clock \in Nat /\ Now = clock + 1 /\ clock' = Now /\ Carried(k, failed, clock)
  BY DEF HealthTypes, Probe, Now, CheckRecord
<1>2. a \in DOMAIN k.seen /\ k.seen[a] \in Result
  BY <1>1, PartialFacts DEF Probe, Carried, Ordered
<1>3. r \in Result /\ r.failures <= k.seen[a].failures + (IF verdict = "fails" THEN 1 ELSE 0)
      /\ (OfOneCheck(k.seen[a], clock) /\ verdict # "credential" => OfOneCheck(r, Now))
  <2>1. PICK q : q = r
    OBVIOUS
  <2>. HIDE DEF r
  <2>. QED BY <1>1, <1>2, <2>1, CheckedFacts DEF r
<1>4. DOMAIN k.found \subseteq Catalogued /\ \A b \in DOMAIN k.found : k.found[b] \in Result
  BY <1>1, PartialFacts
<1>5. table \in Partial /\ DOMAIN table = DOMAIN k.found \cup {a}
  <2>1. table \in [DOMAIN k.found \cup {a} -> Result]
    BY <1>3, <1>4
  <2>. QED BY <2>1, <1>4, PartialIntro
<1>6. /\ check' = [check EXCEPT ![c] = new] /\ new \in CheckRecord
      /\ new.todo = k.todo \ {a} /\ new.found = table /\ new.seen = k.seen
      /\ new.read = k.read /\ new.pc = k.pc
  <2>1. check' = [check EXCEPT ![c] = new]
    BY <1>1 DEF Probe, HealthTypes, CheckRecord
  <2>. HIDE DEF table, k
  <2>. QED BY <2>1, <1>1, <1>5 DEF CheckRecord
<1>7. /\ table[a] = r
      /\ \A b \in DOMAIN k.found : b # a => table[b] = k.found[b]
  OBVIOUS
<1>8. a \in k.todo /\ (a \notin OwnAgents \/ verdict # "credential")
  BY HealthAssumption DEF Probe, Verdicts, Catalogued
<1>9. failed \in [Catalogued -> Nat] /\ failed' \in [Catalogued -> Nat]
      /\ (\A b \in Catalogued : failed[b] <= failed'[b])
      /\ failed'[a] = failed[a] + (IF verdict = "fails" THEN 1 ELSE 0)
  BY DEF Probe, HealthTypes
<1>10. /\ Founded(k.seen, failed') /\ Founded(k.found, failed')
       /\ Sound(k.seen, clock') /\ Sound(k.found, clock')
  BY <1>1, <1>9, TablesAge DEF Carried
<1>. HIDE DEF new, table, r, k
<1>11. Ordered(new)
  BY <1>1, <1>5, <1>6, <1>8 DEF Ordered, Carried
<1>12. Founded(table, failed')
  <2>1. k.seen[a].failures <= failed[a]
    BY <1>1, <1>2 DEF Carried, Founded
  <2>2. r.failures <= failed'[a]
    BY <1>2, <1>3, <1>9, <2>1 DEF Result
  <2>. QED BY <2>2, <1>5, <1>7, <1>10 DEF Founded
<1>13. Sound(table, clock')
  <2>1. a \in OwnAgents => OfOneCheck(r, Now)
    BY <1>1, <1>2, <1>3, <1>8 DEF Carried, Sound
  <2>. QED BY <2>1, <1>1, <1>5, <1>7, <1>10 DEF Sound
<1>14. Stored'
  <2>1. health \in Partial
    BY PartialIntro DEF HealthTypes
  <2>2. Founded(health, failed') /\ Sound(health, clock')
    BY <2>1, <1>1, <1>9, TablesAge DEF Stored
  <2>. QED BY <2>2 DEF Stored, Probe, Founded, Sound, OfOneCheck
<1>15. Carried(new, failed', clock')
  BY <1>6, <1>10, <1>11, <1>12, <1>13 DEF Carried
<1>16. UNCHANGED <<own, access, health>>
  BY DEF Probe
<1>17. health' \in [Catalogued -> Result] /\ clock' \in Nat /\ clock <= clock'
  BY <1>1, <1>16 DEF HealthTypes
<1>. HIDE DEF HealthInv
<1>. QED
  BY <1>6, <1>9, <1>14, <1>15, <1>16, <1>17, OneCheckMoves

\* Writing personal results: what was found of one check replaces what is stored.
LEMMA WriteOwnKeeps ==
  ASSUME HealthInv, NEW c \in Checks, WriteOwn(c)
  PROVE  HealthInv'
<1>. DEFINE k == check[c]
<1>1. k \in CheckRecord /\ k.found \in Partial /\ Carried(k, failed, clock)
  BY DEF HealthInv, HealthTypes, CheckRecord
<1>2. Finished(c) \in CheckRecord /\ Carried(Finished(c), failed, clock)
  <2>1. CASE k.kind = "catalog" /\ k.pc = "own"
    BY <1>1, <2>1, NoResultsFacts
    DEF WriteOwn, Finished, CheckRecord, Carried, Ordered, Founded, Sound
  <2>2. CASE ~(k.kind = "catalog" /\ k.pc = "own")
    BY <2>2, NoResultsFacts DEF Finished, NoCheck, CheckRecord, Carried, Ordered, Founded, Sound
  <2>. QED BY <2>1, <2>2
<1>3. \A a \in DOMAIN k.found : k.found[a] \in Result
  BY <1>1, PartialFacts
<1>4. \A a \in Catalogued : health'[a] = IF a \in DOMAIN k.found /\ Persisted(a) THEN k.found[a]
                                         ELSE health[a]
  BY DEF WriteOwn
<1>5. health' \in [Catalogued -> Result]
  BY <1>3 DEF WriteOwn, HealthInv, HealthTypes
<1>6. Founded(health', failed) /\ Sound(health', clock)
  <2>1. Founded(k.found, failed) /\ Sound(k.found, clock)
    BY <1>1 DEF Carried
  <2>2. DOMAIN health = Catalogued /\ DOMAIN health' = Catalogued
    BY <1>5 DEF HealthInv, HealthTypes
  <2>. HIDE DEF k
  <2>. QED BY <1>4, <2>1, <2>2 DEF HealthInv, Stored, Founded, Sound
<1>7. UNCHANGED <<own, access, clock, failed>> /\ check' = [check EXCEPT ![c] = Finished(c)]
  BY DEF WriteOwn
<1>8. Stored'
  BY <1>6, <1>7 DEF Stored, Founded, Sound, OfOneCheck
<1>. QED
  BY <1>2, <1>5, <1>7, <1>8, OneCheckMoves DEF HealthInv, HealthTypes

\* Reading the rows again.
LEMMA ReadHubKeeps ==
  ASSUME HealthInv, NEW c \in Checks, ReadHub(c)
  PROVE  HealthInv'
<1>. DEFINE k == check[c]
            new == [k EXCEPT !.pc = "write", !.read = Results(DOMAIN k.found)]
<1>1. k \in CheckRecord /\ k.found \in Partial /\ Carried(k, failed, clock)
  BY DEF HealthInv, HealthTypes, CheckRecord
<1>2. CASE DOMAIN k.found = {}
  BY <1>2, ForgetCheck DEF ReadHub
<1>3. CASE DOMAIN k.found # {}
  <2>1. DOMAIN k.found \in SUBSET Catalogued
    BY <1>1, PartialFacts
  <2>2. Results(DOMAIN k.found) \in Partial /\ DOMAIN Results(DOMAIN k.found) = DOMAIN k.found
    BY <2>1, ResultsFacts DEF HealthInv
  <2>3. new \in CheckRecord
    BY <1>1, <2>2 DEF CheckRecord
  <2>4. Carried(new, failed, clock)
    BY <1>1, <2>2 DEF ReadHub, CheckRecord, Carried, Ordered
  <2>5. check' = [check EXCEPT ![c] = new] /\ UNCHANGED <<own, access, health, clock, failed>>
    BY <1>3 DEF ReadHub
  <2>6. Stored'
    BY <2>5 DEF HealthInv, Stored, Founded, Sound, OfOneCheck
  <2>. HIDE DEF new
  <2>. QED
    BY <2>3, <2>4, <2>5, <2>6, OneCheckMoves DEF HealthInv, HealthTypes
<1>. QED
  BY <1>2, <1>3

\* Writing the others: a row has columns of what was found or of what another check has
\* stored, and neither has invented a failure. No row of a personal agent is among them.
LEMMA WriteHubKeeps ==
  ASSUME HealthInv, NEW c \in Checks, WriteHub(c)
  PROVE  HealthInv'
<1>. DEFINE k == check[c]
<1>1. k \in CheckRecord /\ k.found \in Partial /\ Carried(k, failed, clock)
  BY DEF HealthInv, HealthTypes, CheckRecord
<1>2. DOMAIN k.found \subseteq Catalogued \ OwnAgents
  BY <1>1, PartialFacts DEF WriteHub, Carried, Ordered
<1>3. ASSUME NEW a \in DOMAIN k.found
      PROVE  health'[a] \in Result /\ health'[a].failures <= failed[a]
  <2>1. health'[a] = [j \in Columns |-> Column(c, a, j)]
    BY <1>2, <1>3 DEF WriteHub
  <2>2. /\ health'[a] \in Result
        /\ health'[a].failures \in {k.found[a].failures, health[a].failures}
    BY <2>1, <1>3, MergedFacts DEF HealthInv
  <2>3. k.found[a].failures <= failed[a] /\ health[a].failures <= failed[a]
    BY <1>1, <1>2, <1>3 DEF HealthInv, HealthTypes, Stored, Carried, Founded
  <2>. QED BY <2>2, <2>3
<1>4. \A a \in Catalogued \ DOMAIN k.found : health'[a] = health[a]
  BY DEF WriteHub
<1>5. health' \in [Catalogued -> Result]
  <2>1. health' = [a \in Catalogued |-> health'[a]]
    BY DEF WriteHub
  <2>. QED BY <1>3, <1>4, <2>1 DEF HealthInv, HealthTypes
<1>6. UNCHANGED <<own, access, clock, failed>> /\ check' = [check EXCEPT ![c] = NoCheck]
  BY DEF WriteHub
<1>7. DOMAIN health = Catalogued /\ DOMAIN health' = Catalogued
  BY <1>5 DEF HealthInv, HealthTypes
<1>. HIDE DEF k
<1>8. Founded(health', failed) /\ Sound(health', clock)
  BY <1>2, <1>3, <1>4, <1>7 DEF HealthInv, Stored, Founded, Sound
<1>9. Stored'
  BY <1>6, <1>8 DEF Stored, Founded, Sound, OfOneCheck
<1>10. NoCheck \in CheckRecord /\ Carried(NoCheck, failed, clock)
  BY NoResultsFacts DEF NoCheck, CheckRecord, Carried, Ordered, Founded, Sound
<1>. QED
  BY <1>5, <1>6, <1>9, <1>10, OneCheckMoves DEF HealthInv, HealthTypes

\* Steps of the users and of the administrators leave results and checks alone.
LEMMA AgentsMove ==
  ASSUME HealthInv, UNCHANGED <<health, check, clock, failed>>,
         own' \in [OwnAgents -> {"absent", "enabled", "disabled", "deleted"}],
         access' \in [HubAgents -> {"open", "hidden", "unset"}]
  PROVE  HealthInv'
BY DEF HealthInv, HealthTypes, Stored, Carried, Ordered, Founded, Sound, OfOneCheck

\* The invariant is inductive.
\* The invariant is inductive.
LEMMA HealthInvNext == HealthInv /\ [HealthNext]_healthVars => HealthInv'
<1>. SUFFICES ASSUME HealthInv, [HealthNext]_healthVars PROVE HealthInv'
  OBVIOUS
<1>1. ASSUME NEW a \in OwnAgents, NEW enabled \in BOOLEAN,
             CreateAgent(a) \/ DeleteAgent(a) \/ EnableAgent(a, enabled)
      PROVE  HealthInv'
  BY <1>1, AgentsMove DEF CreateAgent, DeleteAgent, EnableAgent, HealthInv, HealthTypes
<1>2. ASSUME NEW a \in HubAgents, NEW to \in {"open", "hidden", "unset"}, SetAccess(a, to)
      PROVE  HealthInv'
  BY <1>2, AgentsMove DEF SetAccess, HealthInv, HealthTypes
<1>3. ASSUME NEW c \in Checks, NEW a \in OwnAgents, NEW force \in BOOLEAN, CheckOne(c, a, force)
      PROVE  HealthInv'
  <2>1. check[c] \in CheckRecord /\ check[c].kind \in {"own", "catalog"}
    BY DEF HealthInv, HealthTypes, CheckRecord
  <2>2. [Ask(c, "own", {a}) EXCEPT !.force = force]
          = [Ask(c, "own", {a}) EXCEPT !.kind = check[c].kind, !.force = force]
    BY <2>1 DEF Ask, CheckRecord
  <2>3. {a} \in SUBSET Catalogued
    BY DEF Catalogued
  <2>. QED BY <1>3, <2>1, <2>2, <2>3, AskCheck DEF CheckOne
<1>4. ASSUME NEW c \in Checks, NEW kind \in {"own", "catalog"}, NEW force \in BOOLEAN,
             CheckAll(c, kind, force)
      PROVE  HealthInv'
  <2>1. {a \in OwnAgents : own[a] = "enabled"} \in SUBSET Catalogued
    BY DEF Catalogued
  <2>. QED BY <1>4, <2>1, AskCheck DEF CheckAll
<1>5. ASSUME NEW c \in Checks, ListHub(c) PROVE HealthInv'
  <2>. DEFINE S == {a \in HubAgents : access[a] # "hidden"} \cup Assistants
  <2>1. check[c] \in CheckRecord /\ check[c].kind \in {"own", "catalog"} /\ check[c].force \in BOOLEAN
    BY DEF HealthInv, HealthTypes, CheckRecord
  <2>2. Ask(c, "hub", S) = [Ask(c, "hub", S) EXCEPT !.kind = check[c].kind, !.force = check[c].force]
    BY <2>1 DEF Ask, CheckRecord
  <2>3. S \in SUBSET Catalogued /\ S \cap OwnAgents = {}
    BY HealthAssumption DEF Catalogued
  <2>. QED BY <1>5, <2>1, <2>2, <2>3, AskCheck DEF ListHub
<1>6. ASSUME NEW c \in Checks, NEW a \in Catalogued, SkipCooling(c, a) PROVE HealthInv'
  <2>. DEFINE new == [check[c] EXCEPT !.todo = @ \ {a}]
  <2>1. check[c] \in CheckRecord /\ Carried(check[c], failed, clock)
    BY DEF HealthInv, HealthTypes
  <2>2. new \in CheckRecord /\ Carried(new, failed, clock)
    BY <2>1 DEF CheckRecord, Carried, Ordered
  <2>3. check' = [check EXCEPT ![c] = new] /\ UNCHANGED <<own, access, health, clock, failed>>
    BY <1>6 DEF SkipCooling
  <2>4. Stored'
    BY <2>3 DEF HealthInv, Stored, Founded, Sound, OfOneCheck
  <2>. HIDE DEF new
  <2>. QED BY <2>2, <2>3, <2>4, OneCheckMoves DEF HealthInv, HealthTypes
<1>7. ASSUME NEW c \in Checks, CheckFails(c) PROVE HealthInv'
  BY <1>7, ForgetCheck DEF CheckFails
<1>8. ASSUME UNCHANGED healthVars PROVE HealthInv'
  BY <1>8, AgentsMove DEF healthVars, HealthInv, HealthTypes
<1>. QED
  BY <1>1, <1>2, <1>3, <1>4, <1>5, <1>6, <1>7, <1>8, ProbeKeeps, WriteOwnKeeps, ReadHubKeeps,
     WriteHubKeeps
  DEF HealthNext

-----------------------------------------------------------------------------
\* The variables keep their types.
THEOREM HealthTypesKept == HealthSpec => []HealthTypeOK
<1>1. HealthInv => HealthTypeOK
  BY PartialFacts DEF HealthInv, HealthTypes, HealthTypeOK, CheckRecord, Carried, Ordered
<1>. QED
  BY HealthInvInit, HealthInvNext, <1>1, PTL DEF HealthSpec

\* The columns of a personal agent's result always agree: overlapping checks replace one
\* another's results, they do not mix them (_persist_health_updates names every column).
THEOREM PersonalResultsAgree == HealthSpec => []ResultOfOneCheck
<1>1. HealthInv => ResultOfOneCheck
  BY DEF HealthInv, HealthTypes, Stored, Sound, OfOneCheck, ResultOfOneCheck, Catalogued
<1>. QED
  BY HealthInvInit, HealthInvNext, <1>1, PTL DEF HealthSpec

\* No stored count exceeds the probes that have failed: updates may be lost, and columns
\* of shared agents mixed, but no failure is counted that did not happen.
THEOREM NoInventedFailures == HealthSpec => []FailuresHappened
<1>1. HealthInv => FailuresHappened
  BY DEF HealthInv, HealthTypes, Stored, Founded, FailuresHappened
<1>. QED
  BY HealthInvInit, HealthInvNext, <1>1, PTL DEF HealthSpec

-----------------------------------------------------------------------------
(* Credentials: the invariant                                              *)

AgentRecord == [state : {"absent", "live", "deleted"}, auth : Auths, mode : Modes]
EditRecord ==
  [pc : {"idle", "sync", "commit"}, op : {"none", "edit", "delete", "save", "forget"},
   about : Credentialed \cup {"none"}, loaded : [auth : Auths, mode : Modes],
   auth : Auths, mode : Modes, given : Auths, write : {"none", "insert", "update"}]

CredentialTypes ==
  /\ agent \in [Credentialed -> AgentRecord]
  /\ secret \in [Credentialed -> Auths] /\ mine \in [Shared -> Auths]
  /\ edit \in [Editors -> EditRecord]
  /\ held \in [Credentialed -> Editors \cup {NoEditor}]
  /\ overlapped \in [Credentialed -> BOOLEAN] /\ edits \in 0 .. MaxEdits

Active(w, a) == edit[w].pc # "idle" /\ edit[w].about = a

\* An open request is about an agent; personal agents have no credential of users.
About ==
  \A w \in Editors : edit[w].pc # "idle" =>
    /\ edit[w].about \in Credentialed /\ edit[w].op # "none"
    /\ edit[w].pc = "sync" => edit[w].write = "none"
    /\ edit[w].op \in {"save", "forget"} => edit[w].about \in Shared /\ edit[w].pc = "commit"

\* One request at a time, about a live agent, that has loaded what is still there.
Current ==
  \A w \in Editors, a \in Credentialed : Active(w, a) /\ ~overlapped[a] =>
    /\ \A v \in Editors : Active(v, a) => v = w
    /\ agent[a].state = "live" /\ edit[w].loaded = Loaded(a)

\* What an edit e of the agent a asks for is consistent.
Asked(e, a) ==
  e.op = "edit" =>
    /\ e.given \in {"none", e.auth}
    /\ a \in Shared => (e.auth = "none" <=> e.mode = "none")

\* What it has found of the secret, and what it will do with it.
Prepared(w, a) ==
  LET e == edit[w] IN
  e.pc = "commit" /\ e.op \in {"edit", "delete"} =>
    IF Drops(e) THEN e.write = "none" /\ (held[a] = w \/ secret[a] = "none")
    ELSE /\ e.write = "none" => secret[a] # "none" /\ e.loaded.auth = e.auth
         /\ e.write # "none" => e.given = e.auth

\* Only a request that deletes the secret holds its row.
HeldByDrop(w, a) == held[a] = w => edit[w].pc = "commit" /\ Drops(edit[w]) /\ edit[w].op \in {"edit", "delete"}

Ready ==
  \A w \in Editors, a \in Credentialed : ~overlapped[a] =>
    /\ held[a] = w => Active(w, a)
    /\ Active(w, a) => Asked(edit[w], a) /\ Prepared(w, a) /\ HeldByDrop(w, a)

CredentialInv == CredentialTypes /\ About /\ Current /\ Ready /\ SecretFits

-----------------------------------------------------------------------------
\* Nothing is stored or open at first.
LEMMA CredentialInvInit == CredentialInit => CredentialInv
<1>. SUFFICES ASSUME CredentialInit PROVE CredentialInv
  OBVIOUS
<1>. USE DEF CredentialInit, NoEdit, Auths, Modes
<1>1. CredentialTypes
  BY CredentialAssumption DEF CredentialTypes, AgentRecord, EditRecord
<1>2. About /\ Current
  BY DEF About, Current, Active
<1>3. Ready
  BY CredentialAssumption DEF Ready, Active
<1>4. SecretFits
  BY DEF SecretFits, Expected, Credentialed
<1>. QED
  BY <1>1, <1>2, <1>3, <1>4 DEF CredentialInv

\* The mode of a shared agent agrees with its authentication, whatever was asked for.
LEMMA ResolvedFacts ==
  ASSUME NEW auth \in Auths, NEW asked \in Modes \cup {"keep"}, NEW existing \in Modes
  PROVE  /\ ResolvedMode(auth, asked, existing) \in Modes
         /\ auth = "none" <=> ResolvedMode(auth, asked, existing) = "none"
BY DEF ResolvedMode, Modes, Auths

\* A new agent: nobody asks about it yet, unless requests about it have overlapped.
LEMMA CreateKeeps ==
  ASSUME CredentialInv, NEW a \in Credentialed, NEW auth \in Auths, NEW mode \in Modes,
         NEW given \in Auths, agent[a].state = "absent",
         agent' = [agent EXCEPT ![a] = [state |-> "live", auth |-> auth, mode |-> mode]],
         secret' = [secret EXCEPT ![a] = given],
         UNCHANGED <<mine, edit, held, overlapped, edits>>,
         given = Expected(a)',
         a \in Shared => (auth = "none" <=> mode = "none")
  PROVE  CredentialInv'
<1>. USE DEF CredentialInv
<1>1. CredentialTypes'
  BY DEF CredentialTypes, AgentRecord
<1>2. agent'[a] = [state |-> "live", auth |-> auth, mode |-> mode] /\ secret'[a] = given
      /\ \A b \in Credentialed : b # a => agent'[b] = agent[b] /\ secret'[b] = secret[b]
  BY DEF CredentialTypes
<1>3. \A w \in Editors : Active(w, a) => overlapped[a]
  BY DEF Current
<1>4. About'
  BY DEF About
<1>5. Current'
  BY <1>2, <1>3 DEF Current, Active, Loaded
<1>6. Ready'
  BY <1>2, <1>3 DEF Ready, Active, Asked, Prepared, HeldByDrop, Drops, DropsPersonal, DropsShared
<1>7. SecretFits'
  BY <1>2 DEF SecretFits, Expected
<1>. QED
  BY <1>1, <1>4, <1>5, <1>6, <1>7

\* A new request: the first about the agent, or one that overlaps.
LEMMA OpenKeeps ==
  ASSUME CredentialInv, NEW w \in Editors, NEW a \in Credentialed, NEW e \in EditRecord,
         Open(w, a, e), e.about = a, e.op # "none", e.loaded = Loaded(a),
         \/ e.op \in {"edit", "delete"} /\ e.pc = "sync" /\ e.write = "none"
         \/ e.op \in {"save", "forget"} /\ e.pc = "commit" /\ a \in Shared,
         ~overlapped[a] => Asked(e, a)
  PROVE  CredentialInv'
<1>. USE DEF CredentialInv
<1>1. CredentialTypes'
  <2>1. edits' \in 0 .. MaxEdits
    BY CredentialAssumption DEF CredentialTypes, Open
  <2>2. overlapped' \in [Credentialed -> BOOLEAN]
    BY DEF CredentialTypes, Open
  <2>3. edit' \in [Editors -> EditRecord]
    BY DEF CredentialTypes, Open
  <2>. QED BY <2>1, <2>2, <2>3 DEF CredentialTypes, Open
<1>2. /\ edit'[w] = e /\ \A v \in Editors : v # w => edit'[v] = edit[v]
      /\ UNCHANGED <<agent, secret, mine, held>>
      /\ agent[a].state = "live" /\ edit[w].pc = "idle"
  BY DEF CredentialTypes, Open
<1>3. /\ \A b \in Credentialed : ~overlapped'[b] => ~overlapped[b]
      /\ ~overlapped'[a] => \A v \in Editors : ~Active(v, a)
  BY DEF CredentialTypes, Open, Active
<1>4. About'
  BY <1>2 DEF About
<1>5. Current'
  BY <1>2, <1>3 DEF Current, Active, Loaded
<1>6. ASSUME NEW v \in Editors, NEW b \in Credentialed, ~overlapped'[b]
      PROVE  /\ held'[b] = v => Active(v, b)'
             /\ Active(v, b)' => (Asked(edit[v], b) /\ Prepared(v, b) /\ HeldByDrop(v, b))'
  <2>1. CASE v = w
    BY <2>1, <1>2, <1>3, <1>6 DEF Ready, Active, Asked, Prepared, HeldByDrop
  <2>2. CASE v # w
    BY <2>2, <1>2, <1>3, <1>6 DEF Ready, Active, Asked, Prepared, HeldByDrop, Drops, DropsPersonal, DropsShared
  <2>. QED BY <2>1, <2>2
<1>7. Ready'
  BY <1>6 DEF Ready
<1>8. SecretFits'
  BY <1>2, <1>3 DEF SecretFits, Expected
<1>. QED
  BY <1>1, <1>4, <1>5, <1>7, <1>8

\* What fits, of one agent.
Fits(a) ==
  /\ secret[a] = Expected(a)
  /\ a \in Shared => (agent[a].auth = "none" <=> agent[a].mode = "none")
  /\ a \in Shared /\ agent[a].state = "deleted" => mine[a] = "none"

\* A step of the request w about the agent a leaves the rows of others alone.
LeavesOthers(w, a) ==
  /\ \A b \in Credentialed : b # a =>
       agent'[b] = agent[b] /\ secret'[b] = secret[b] /\ (b \in Shared => mine'[b] = mine[b])
  /\ \A b \in Credentialed : \/ held'[b] = held[b]
                             \/ b = a /\ held[b] = NoEditor /\ held'[b] = w
                             \/ held[b] = w /\ held'[b] = NoEditor

\* It goes on to its commit, as e ...
GoesOn(w, a, e) ==
  /\ e.pc = "commit" /\ e.op = edit[w].op /\ e.op # "none"
  /\ e.about = a /\ e.loaded = edit[w].loaded /\ UNCHANGED agent
  /\ ~overlapped[a] => (Asked(e, a) /\ Prepared(w, a)' /\ HeldByDrop(w, a)')

\* ... or ends and holds nothing.
GivesBack(w, a, e) == e = NoEdit /\ (~overlapped[a] => held'[a] # w)

\* A request ends, or goes on to its commit.
LEMMA EditMoves ==
  ASSUME CredentialInv, NEW w \in Editors, edit[w].pc # "idle", CredentialTypes',
         NEW e \in EditRecord, edit' = [edit EXCEPT ![w] = e], overlapped' = overlapped,
         NEW a, a = edit[w].about, GoesOn(w, a, e) \/ GivesBack(w, a, e), LeavesOthers(w, a),
         ~overlapped[a] => Fits(a)'
  PROVE  CredentialInv'
<1>. USE DEF CredentialInv, GoesOn, GivesBack, LeavesOthers, Fits
<1>1. a \in Credentialed /\ edit'[w] = e /\ (\A v \in Editors : v # w => edit'[v] = edit[v])
      /\ Active(w, a) /\ NoEdit.pc = "idle"
  BY DEF CredentialTypes, About, Active, NoEdit
<1>2. About'
  BY <1>1 DEF About
<1>3. Current'
  <2>1. ASSUME NEW v \in Editors, NEW b \in Credentialed, Active(v, b)', ~overlapped[b]
        PROVE  /\ \A u \in Editors : Active(u, b)' => u = v
               /\ agent'[b].state = "live" /\ edit'[v].loaded = Loaded(b)'
    <3>1. Active(v, b)
      BY <1>1, <2>1 DEF Active
    <3>2. \A u \in Editors : Active(u, b)' => Active(u, b)
      BY <1>1 DEF Active
    <3>3. (\A u \in Editors : Active(u, b) => u = v) /\ agent[b].state = "live" /\ edit[v].loaded = Loaded(b)
      BY <2>1, <3>1 DEF Current
    <3>4. b = a => v = w /\ UNCHANGED agent
      BY <1>1, <2>1, <3>3 DEF Active
    <3>5. agent'[b] = agent[b] /\ edit'[v].loaded = edit[v].loaded
      BY <1>1, <2>1, <3>4 DEF Active
    <3>. QED BY <3>2, <3>3, <3>5 DEF Loaded
  <2>. QED BY <2>1 DEF Current
<1>4. Ready'
  <2>1. ASSUME NEW v \in Editors, NEW b \in Credentialed, ~overlapped[b]
        PROVE  /\ held'[b] = v => Active(v, b)'
               /\ Active(v, b)' => (Asked(edit[v], b) /\ Prepared(v, b) /\ HeldByDrop(v, b))'
    <3>1. CASE v = w /\ b = a
      <4>1. CASE e = NoEdit
        BY <1>1, <2>1, <3>1, <4>1 DEF Active
      <4>2. CASE e # NoEdit
        BY <1>1, <2>1, <3>1, <4>2 DEF Active
      <4>. QED BY <4>1, <4>2
    <3>2. CASE v = w /\ b # a
      <4>1. ~Active(w, b) /\ ~Active(w, b)'
        BY <1>1, <3>2 DEF Active, NoEdit
      <4>2. held[b] # w
        BY <2>1, <4>1 DEF Ready
      <4>3. NoEditor # w
        BY CredentialAssumption
      <4>. QED BY <3>2, <4>1, <4>2, <4>3
    <3>3. CASE v # w
      <4>1. (Active(v, b)' <=> Active(v, b)) /\ edit'[v] = edit[v]
        BY <1>1, <3>3 DEF Active
      <4>2. held'[b] = v <=> held[b] = v
        BY <3>3, CredentialAssumption DEF CredentialTypes
      <4>3. Active(v, b) => b # a
        BY <1>1, <2>1, <3>3 DEF Current
      <4>4. Active(v, b) => Asked(edit[v], b)' /\ Prepared(v, b)' /\ HeldByDrop(v, b)'
        BY <2>1, <4>1, <4>2, <4>3
        DEF Ready, Asked, Prepared, HeldByDrop, Drops, DropsPersonal, DropsShared
      <4>5. held[b] = v => Active(v, b)
        BY <2>1 DEF Ready
      <4>. QED BY <4>1, <4>2, <4>4, <4>5
    <3>. QED BY <3>1, <3>2, <3>3
  <2>. QED BY <2>1 DEF Ready
<1>5. SecretFits'
  BY DEF SecretFits, Expected
<1>. QED
  BY <1>2, <1>3, <1>4, <1>5

\* Deleting the secret, at once.
LEMMA DropKeeps ==
  ASSUME CredentialInv, NEW w \in Editors, DropSecret(w)
  PROVE  CredentialInv'
<1>. PICK a : a = edit[w].about
  OBVIOUS
<1>. PICK e : e = [edit[w] EXCEPT !.pc = "commit"]
  OBVIOUS
<1>1. edit[w] \in EditRecord /\ a \in Credentialed /\ edit[w].op \in {"edit", "delete"} /\ Active(w, a)
      /\ edit[w].write = "none"
  BY DEF CredentialInv, CredentialTypes, About, DropSecret, Active, EditRecord
<1>2. e \in EditRecord /\ e.pc = "commit" /\ e # NoEdit
      /\ e.op = edit[w].op /\ e.about = a /\ e.loaded = edit[w].loaded /\ Drops(e)
      /\ e.given = edit[w].given /\ e.auth = edit[w].auth /\ e.mode = edit[w].mode /\ e.write = edit[w].write
  BY <1>1 DEF EditRecord, NoEdit, DropSecret, Drops, DropsPersonal, DropsShared
<1>3. /\ edit' = [edit EXCEPT ![w] = e] /\ edit'[w] = e
      /\ UNCHANGED <<agent, secret, mine, overlapped, edits>>
      /\ held[a] = NoEditor /\ held'[a] = (IF secret[a] = "none" THEN held[a] ELSE w)
      /\ \A b \in Credentialed : b # a => held'[b] = held[b]
  BY <1>1 DEF CredentialInv, CredentialTypes, DropSecret
<1>4. CredentialTypes'
  BY <1>2, <1>3 DEF CredentialInv, CredentialTypes, DropSecret
<1>5. ~overlapped[a] => Asked(e, a)
  BY <1>1, <1>2 DEF CredentialInv, Ready, Asked
<1>6. Prepared(w, a)' /\ HeldByDrop(w, a)'
  <2>1. e.write = "none"
    BY <1>1, <1>2
  <2>. QED BY <2>1, <1>1, <1>2, <1>3 DEF Prepared, HeldByDrop, Drops, DropsPersonal, DropsShared
<1>7. ~overlapped[a] => Fits(a)'
  BY <1>1, <1>3 DEF CredentialInv, SecretFits, Expected, Fits
<1>8. edit[w].pc # "idle"
  BY <1>1 DEF Active
<1>9. GoesOn(w, a, e) /\ LeavesOthers(w, a)
  BY <1>1, <1>2, <1>3, <1>5, <1>6 DEF GoesOn, LeavesOthers
<1>. QED
  BY <1>2, <1>3, <1>4, <1>7, <1>8, <1>9, EditMoves

\* Reading the secret, and deciding what to do with it.
LEMMA ReadKeeps ==
  ASSUME CredentialInv, NEW w \in Editors, ReadSecret(w)
  PROVE  CredentialInv'
<1>. PICK a : a = edit[w].about
  OBVIOUS
<1>. PICK write : write = IF edit[w].given = "none" THEN "none"
                          ELSE IF secret[a] = "none" THEN "insert" ELSE "update"
  OBVIOUS
<1>. PICK e : e = [edit[w] EXCEPT !.pc = "commit", !.write = write]
  OBVIOUS
<1>1. edit[w] \in EditRecord /\ a \in Credentialed /\ edit[w].op = "edit" /\ Active(w, a)
      /\ ~Drops(edit[w])
  BY DEF CredentialInv, CredentialTypes, About, ReadSecret, Active, EditRecord, Drops
<1>2. e \in EditRecord /\ e.pc = "commit" /\ e # NoEdit
      /\ e.op = edit[w].op /\ e.about = a /\ e.loaded = edit[w].loaded /\ ~Drops(e)
      /\ e.given = edit[w].given /\ e.auth = edit[w].auth /\ e.mode = edit[w].mode /\ e.write = write
  BY <1>1 DEF EditRecord, NoEdit, Drops, DropsPersonal, DropsShared
<1>3. /\ edit' = [edit EXCEPT ![w] = e] /\ edit'[w] = e
      /\ UNCHANGED <<agent, secret, mine, held, overlapped, edits>>
  BY <1>1 DEF CredentialInv, CredentialTypes, ReadSecret
<1>4. CredentialTypes'
  BY <1>2, <1>3 DEF CredentialInv, CredentialTypes
<1>5. edit[w].given = "none" => secret[a] # "none" /\ edit[w].loaded.auth = edit[w].auth
  BY DEF ReadSecret, Kept
<1>6. ~overlapped[a] => Asked(e, a) /\ held[a] # w
  BY <1>1, <1>2 DEF CredentialInv, Ready, Asked, HeldByDrop
<1>7. ~overlapped[a] => Prepared(w, a)' /\ HeldByDrop(w, a)'
  <2>1. ~Drops(edit[w])'
    BY <1>2, <1>3 DEF Drops, DropsPersonal, DropsShared
  <2>2. ~overlapped[a] /\ e.write # "none" => e.given = e.auth
    BY <1>2, <1>6, <1>1 DEF Asked
  <2>3. e.write = "none" => secret[a] # "none" /\ e.loaded.auth = e.auth
    BY <1>2, <1>5
  <2>4. ~overlapped[a] => held'[a] # w
    BY <1>3, <1>6
  <2>. QED BY <2>1, <2>2, <2>3, <2>4, <1>3 DEF Prepared, HeldByDrop
<1>8. ~overlapped[a] => Fits(a)'
  BY <1>1, <1>3 DEF CredentialInv, SecretFits, Expected, Fits
<1>9. edit[w].pc # "idle"
  BY <1>1 DEF Active
<1>10. GoesOn(w, a, e) /\ LeavesOthers(w, a)
  BY <1>1, <1>2, <1>3, <1>6, <1>7 DEF GoesOn, LeavesOthers
<1>. QED
  BY <1>2, <1>3, <1>4, <1>8, <1>9, <1>10, EditMoves

\* The request is refused or rolled back, and gives back what it held.
LEMMA FailKeeps ==
  ASSUME CredentialInv, NEW w \in Editors, EditFails(w)
  PROVE  CredentialInv'
<1>. PICK a : a = edit[w].about
  OBVIOUS
<1>1. edit[w].pc # "idle" /\ a \in Credentialed
  BY DEF CredentialInv, About, EditFails
<1>2. NoEdit \in EditRecord
  BY DEF NoEdit, EditRecord, Auths, Modes
<1>3. edit' = [edit EXCEPT ![w] = NoEdit] /\ UNCHANGED <<agent, secret, mine, overlapped, edits>>
  BY DEF EditFails
<1>4. \A b \in Credentialed : held'[b] = IF held[b] = w THEN NoEditor ELSE held[b]
  BY DEF EditFails
<1>5. CredentialTypes'
  BY <1>2, <1>3 DEF CredentialInv, CredentialTypes, EditFails
<1>6. GivesBack(w, a, NoEdit)
  BY <1>1, <1>4, CredentialAssumption DEF GivesBack
<1>7. LeavesOthers(w, a)
  BY <1>3, <1>4 DEF LeavesOthers
<1>8. ~overlapped[a] => Fits(a)'
  BY <1>1, <1>3 DEF CredentialInv, SecretFits, Expected, Fits
<1>. QED
  BY <1>1, <1>2, <1>3, <1>5, <1>6, <1>7, <1>8, EditMoves

\* The user's own credential.
LEMMA CommitMineKeeps ==
  ASSUME CredentialInv, NEW w \in Editors, CommitMine(w)
  PROVE  CredentialInv'
<1>. PICK a : a = edit[w].about
  OBVIOUS
<1>1. edit[w].pc = "commit" /\ edit[w].op \in {"save", "forget"} /\ a \in Credentialed /\ a \in Shared
      /\ edit[w] \in EditRecord /\ Active(w, a)
  BY DEF CredentialInv, CredentialTypes, About, CommitMine, Active
<1>2. NoEdit \in EditRecord
  BY DEF NoEdit, EditRecord, Auths, Modes
<1>3. edit' = [edit EXCEPT ![w] = NoEdit] /\ UNCHANGED <<agent, secret, held, overlapped, edits>>
      /\ mine' \in [Shared -> Auths] /\ \A b \in Shared : b # a => mine'[b] = mine[b]
  BY <1>1 DEF CommitMine, CredentialInv, CredentialTypes, EditRecord, Auths
<1>4. CredentialTypes'
  BY <1>2, <1>3 DEF CredentialInv, CredentialTypes
<1>5. ~overlapped[a] => held'[a] # w
  BY <1>1, <1>3 DEF CredentialInv, Ready, HeldByDrop
<1>6. ~overlapped[a] => agent[a].state = "live"
  BY <1>1 DEF CredentialInv, Current
<1>7. ~overlapped[a] => Fits(a)'
  BY <1>1, <1>3, <1>6 DEF CredentialInv, SecretFits, Expected, Fits
<1>8. GivesBack(w, a, NoEdit) /\ LeavesOthers(w, a)
  BY <1>3, <1>5 DEF GivesBack, LeavesOthers
<1>. QED
  BY <1>1, <1>2, <1>3, <1>4, <1>7, <1>8, EditMoves

\* The commit of an edit or a deletion brings the agent and its secret together again.
LEMMA CommitEditKeeps ==
  ASSUME CredentialInv, NEW w \in Editors, CommitEdit(w)
  PROVE  CredentialInv'
<1>. PICK a : a = edit[w].about
  OBVIOUS
<1>. PICK e : e = edit[w]
  OBVIOUS
<1>1. e.pc = "commit" /\ e.op \in {"edit", "delete"} /\ a \in Credentialed /\ e.about = a
      /\ e \in EditRecord /\ Active(w, a)
  BY DEF CredentialInv, CredentialTypes, About, CommitEdit, Active
<1>2. NoEdit \in EditRecord
  BY DEF NoEdit, EditRecord, Auths, Modes
<1>. PICK new : new = Updated(IF e.op = "delete"
                              THEN [e EXCEPT !.auth = e.loaded.auth, !.mode = e.loaded.mode]
                              ELSE e, a)
  OBVIOUS
<1>3. /\ edit' = [edit EXCEPT ![w] = NoEdit] /\ UNCHANGED <<overlapped, edits>>
      /\ agent' = [agent EXCEPT ![a] = new]
      /\ secret' = [secret EXCEPT ![a] =
           IF e.write # "none" THEN e.given ELSE IF held[a] = w THEN "none" ELSE @]
      /\ mine' = IF e.op = "delete" /\ a \in Shared THEN [mine EXCEPT ![a] = "none"] ELSE mine
      /\ held' = [held EXCEPT ![a] = IF @ = w THEN NoEditor ELSE @]
  BY DEF CommitEdit
<1>4. agent[a] \in AgentRecord /\ agent[a].auth \in Auths /\ agent[a].mode \in Modes
      /\ agent[a].state \in {"absent", "live", "deleted"}
      /\ e.auth \in Auths /\ e.mode \in Modes /\ e.given \in Auths
      /\ e.loaded.auth \in Auths /\ e.loaded.mode \in Modes
  BY <1>1 DEF CredentialInv, CredentialTypes, AgentRecord, EditRecord
<1>5. /\ new \in AgentRecord
      /\ e.op = "delete" => new.state = "deleted" /\ new.auth = agent[a].auth /\ new.mode = agent[a].mode
      /\ e.op = "edit" =>
           /\ new.state = agent[a].state
           /\ new.auth = (IF e.auth = e.loaded.auth THEN agent[a].auth ELSE e.auth)
           /\ new.mode = (IF e.mode = e.loaded.mode THEN agent[a].mode ELSE e.mode)
  <2>1. CASE e.op = "delete"
    BY <1>1, <1>4, <2>1 DEF Updated, AgentRecord, EditRecord
  <2>2. CASE e.op = "edit"
    BY <1>4, <2>2 DEF Updated, AgentRecord
  <2>. QED BY <1>1, <2>1, <2>2
<1>6. CredentialTypes'
  BY <1>1, <1>2, <1>3, <1>4, <1>5 DEF CredentialInv, CredentialTypes, Auths
<1>7. /\ agent'[a] = new
      /\ a \in Shared => mine'[a] = (IF e.op = "delete" THEN "none" ELSE mine[a])
      /\ secret'[a] = (IF e.write # "none" THEN e.given ELSE IF held[a] = w THEN "none" ELSE secret[a])
  BY <1>1, <1>3 DEF CredentialInv, CredentialTypes
<1>8. GivesBack(w, a, NoEdit) /\ LeavesOthers(w, a)
  <2>1. held'[a] # w
    BY <1>1, <1>3, CredentialAssumption DEF CredentialInv, CredentialTypes
  <2>2. LeavesOthers(w, a)
    BY <1>1, <1>3 DEF LeavesOthers, CredentialInv, CredentialTypes
  <2>. QED BY <2>1, <2>2 DEF GivesBack
<1>9. ASSUME ~overlapped[a] PROVE Fits(a)'
  <2>1. /\ agent[a].state = "live" /\ e.loaded.auth = agent[a].auth /\ e.loaded.mode = agent[a].mode
        /\ Asked(e, a) /\ Prepared(w, a) /\ HeldByDrop(w, a)
    <3>1. agent[a].state = "live" /\ edit[w].loaded = Loaded(a)
      BY <1>1, <1>9 DEF CredentialInv, Current
    <3>2. Asked(edit[w], a) /\ Prepared(w, a) /\ HeldByDrop(w, a)
      BY <1>1, <1>9 DEF CredentialInv, Ready
    <3>. QED BY <3>1, <3>2 DEF Loaded
  <2>6. Expected(a)' = (IF new.state # "live" \/ (a \in Shared /\ new.mode # "shared") THEN "none"
                         ELSE new.auth)
    BY <1>7 DEF Expected
  <2>7. ASSUME secret'[a] = Expected(a)',
               a \in Shared => (new.auth = "none" <=> new.mode = "none"),
               a \in Shared /\ new.state = "deleted" => mine'[a] = "none"
        PROVE  Fits(a)'
    <3>1. agent'[a] = new
      BY <1>7
    <3>. QED BY <2>7, <3>1 DEF Fits
  <2>2. /\ secret[a] = Expected(a)
        /\ a \in Shared => (agent[a].auth = "none" <=> agent[a].mode = "none")
    BY <1>1, <1>9 DEF CredentialInv, SecretFits
  <2>3. IF Drops(e) THEN e.write = "none" /\ (held[a] = w \/ secret[a] = "none")
        ELSE /\ e.write = "none" => secret[a] # "none" /\ e.loaded.auth = e.auth /\ held[a] # w
             /\ e.write # "none" => e.given = e.auth
    BY <1>1, <2>1 DEF Prepared, HeldByDrop
  <2>4. CASE e.op = "delete"
    BY <1>5, <1>7, <2>6, <2>7, <2>2, <2>3, <2>4 DEF Drops
  <2>5. CASE e.op = "edit"
    <3>1. new.state = "live" /\ new.auth = e.auth /\ new.mode = e.mode
      BY <1>5, <2>1, <2>5
    <3>2. a \in Shared => (e.auth = "none" <=> e.mode = "none")
      BY <2>1, <2>5 DEF Asked
    <3>3. CASE Drops(e)
      <4>1. secret'[a] = "none"
        BY <1>7, <2>3, <3>3
      <4>2. IF a \in Personal THEN e.auth = "none" ELSE e.auth = "none" \/ e.mode = "user"
        BY <1>1, <2>5, <3>3 DEF Drops, DropsPersonal, DropsShared
      <4>. QED
        BY <1>1, <2>6, <2>7, <3>1, <3>2, <4>1, <4>2, CredentialAssumption DEF Credentialed
    <3>4. CASE ~Drops(e)
      <4>1. e.auth # "none" /\ (a \in Shared => e.mode # "user")
        BY <1>1, <2>5, <3>4, CredentialAssumption
        DEF Drops, DropsPersonal, DropsShared, Credentialed
      <4>2. secret'[a] = e.auth
        BY <1>7, <2>1, <2>2, <2>3, <3>4 DEF Expected
      <4>3. a \in Shared => e.mode = "shared"
        BY <1>4, <3>2, <4>1 DEF Modes
      <4>. QED
        BY <2>6, <2>7, <3>1, <3>2, <4>2, <4>3
    <3>. QED BY <3>3, <3>4
  <2>. QED BY <1>1, <2>4, <2>5
<1>. QED
  BY <1>1, <1>2, <1>3, <1>6, <1>8, <1>9, EditMoves

\* The invariant is inductive.
\* The invariant is inductive.
LEMMA CredentialInvNext == CredentialInv /\ [CredentialNext]_credentialVars => CredentialInv'
<1>. SUFFICES ASSUME CredentialInv, [CredentialNext]_credentialVars PROVE CredentialInv'
  OBVIOUS
<1>1. ASSUME NEW a \in Personal, NEW auth \in Auths, NEW given \in Auths,
             CreatePersonal(a, auth, given)
      PROVE  CredentialInv'
  <2>1. a \in Credentialed /\ a \notin Shared /\ "none" \in Modes
    BY CredentialAssumption DEF Credentialed, Modes
  <2>2. agent'[a] = [state |-> "live", auth |-> auth, mode |-> "none"]
    BY <1>1, <2>1 DEF CreatePersonal, CredentialInv, CredentialTypes
  <2>3. given = Expected(a)'
    BY <1>1, <2>1, <2>2 DEF CreatePersonal, Complete, Expected
  <2>. QED BY <1>1, <2>1, <2>3, CreateKeeps DEF CreatePersonal
<1>2. ASSUME NEW a \in Shared, NEW auth \in Auths, NEW asked \in Modes \cup {"keep"},
             NEW given \in Auths, CreateShared(a, auth, asked, given)
      PROVE  CredentialInv'
  <2>. PICK mode : mode = ResolvedMode(auth, asked, "none")
    OBVIOUS
  <2>. PICK stored : stored = IF mode = "user" THEN "none" ELSE given
    OBVIOUS
  <2>1. a \in Credentialed /\ mode \in Modes /\ (auth = "none" <=> mode = "none") /\ stored \in Auths
    BY ResolvedFacts DEF Credentialed, Modes, Auths
  <2>2. /\ agent' = [agent EXCEPT ![a] = [state |-> "live", auth |-> auth, mode |-> mode]]
        /\ secret' = [secret EXCEPT ![a] = stored]
        /\ agent[a].state = "absent" /\ UNCHANGED <<mine, edit, held, overlapped, edits>>
        /\ mode # "user" => given = auth
    BY <1>2 DEF CreateShared, Complete
  <2>3. agent'[a] = [state |-> "live", auth |-> auth, mode |-> mode]
    BY <2>1, <2>2 DEF CredentialInv, CredentialTypes
  <2>4. stored = Expected(a)'
    BY <2>1, <2>2, <2>3 DEF Expected, Modes
  <2>. QED BY <2>1, <2>2, <2>4, CreateKeeps
<1>3. ASSUME NEW w \in Editors, NEW a \in Credentialed, NEW auth \in Auths \cup {"keep"},
             NEW asked \in Modes \cup {"keep"}, NEW given \in Auths,
             BeginEdit(w, a, auth, asked, given)
      PROVE  CredentialInv'
  <2>. PICK newAuth : newAuth = IF auth = "keep" THEN agent[a].auth ELSE auth
    OBVIOUS
  <2>. PICK newMode : newMode = IF a \in Personal \/ (auth = "keep" /\ asked = "keep")
                                THEN agent[a].mode
                                ELSE ResolvedMode(newAuth, asked, agent[a].mode)
    OBVIOUS
  <2>. PICK e : e = [NoEdit EXCEPT !.pc = "sync", !.op = "edit", !.about = a, !.loaded = Loaded(a),
                                   !.auth = newAuth, !.mode = newMode, !.given = given]
    OBVIOUS
  <2>1. Open(w, a, e) /\ given \in {"none", newAuth}
    BY <1>3 DEF BeginEdit
  <2>2. agent[a].auth \in Auths /\ agent[a].mode \in Modes
    BY DEF CredentialInv, CredentialTypes, AgentRecord
  <2>3. newAuth \in Auths /\ newMode \in Modes
    BY <2>2, ResolvedFacts DEF Auths
  <2>4. e \in EditRecord /\ e.about = a /\ e.op = "edit" /\ e.pc = "sync" /\ e.write = "none"
        /\ e.loaded = Loaded(a) /\ e.auth = newAuth /\ e.mode = newMode /\ e.given = given
    BY <2>2, <2>3 DEF EditRecord, NoEdit, Loaded
  <2>5. a \in Shared /\ ~overlapped[a] => (newAuth = "none" <=> newMode = "none")
    <3>1. a \in Shared => a \notin Personal
      BY CredentialAssumption
    <3>2. a \in Shared /\ ~overlapped[a] => (agent[a].auth = "none" <=> agent[a].mode = "none")
      BY DEF CredentialInv, SecretFits
    <3>. QED BY <3>1, <3>2, <2>2, <2>3, ResolvedFacts
  <2>6. ~overlapped[a] => Asked(e, a)
    BY <2>1, <2>4, <2>5 DEF Asked
  <2>. QED BY <2>1, <2>4, <2>6, OpenKeeps
<1>4. ASSUME NEW w \in Editors, NEW a \in Credentialed, BeginDelete(w, a) PROVE CredentialInv'
  <2>. PICK e : e = [NoEdit EXCEPT !.pc = "sync", !.op = "delete", !.about = a, !.loaded = Loaded(a)]
    OBVIOUS
  <2>1. Open(w, a, e)
    BY <1>4 DEF BeginDelete
  <2>2. e \in EditRecord /\ e.about = a /\ e.op = "delete" /\ e.pc = "sync" /\ e.write = "none"
        /\ e.loaded = Loaded(a)
    BY DEF EditRecord, NoEdit, Loaded, CredentialInv, CredentialTypes, AgentRecord, Auths, Modes
  <2>. QED BY <2>1, <2>2, OpenKeeps DEF Asked
<1>5. ASSUME NEW w \in Editors, NEW a \in Shared, BeginSave(w, a) \/ BeginForget(w, a)
      PROVE  CredentialInv'
  <2>1. a \in Credentialed /\ agent[a].auth \in Auths /\ Loaded(a) \in [auth : Auths, mode : Modes]
    BY DEF Credentialed, CredentialInv, CredentialTypes, AgentRecord, Loaded
  <2>2. CASE BeginSave(w, a)
    <3>. PICK e : e = [NoEdit EXCEPT !.pc = "commit", !.op = "save", !.about = a, !.loaded = Loaded(a),
                        !.given = agent[a].auth,
                        !.write = IF mine[a] = "none" THEN "insert" ELSE "update"]
      OBVIOUS
    <3>1. e \in EditRecord /\ e.about = a /\ e.op = "save" /\ e.pc = "commit" /\ e.loaded = Loaded(a)
      BY <2>1 DEF EditRecord, NoEdit, Auths, Modes
    <3>. QED BY <2>1, <2>2, <3>1, OpenKeeps DEF BeginSave, Asked
  <2>3. CASE BeginForget(w, a)
    <3>. PICK e : e = [NoEdit EXCEPT !.pc = "commit", !.op = "forget", !.about = a, !.loaded = Loaded(a)]
      OBVIOUS
    <3>1. e \in EditRecord /\ e.about = a /\ e.op = "forget" /\ e.pc = "commit" /\ e.loaded = Loaded(a)
      BY <2>1 DEF EditRecord, NoEdit, Auths, Modes
    <3>. QED BY <2>1, <2>3, <3>1, OpenKeeps DEF BeginForget, Asked
  <2>. QED BY <1>5, <2>2, <2>3
<1>6. ASSUME UNCHANGED credentialVars PROVE CredentialInv'
  BY <1>6
  DEF credentialVars, CredentialInv, CredentialTypes, About, Current, Ready, SecretFits, Active,
      Asked, Prepared, HeldByDrop, Drops, DropsPersonal, DropsShared, Loaded, Expected
<1>. QED
  BY <1>1, <1>2, <1>3, <1>4, <1>5, <1>6, DropKeeps, ReadKeeps, CommitEditKeeps, CommitMineKeeps,
     FailKeeps
  DEF CredentialNext

-----------------------------------------------------------------------------
\* The variables keep their types.
THEOREM CredentialTypesKept == CredentialSpec => []CredentialTypeOK
<1>1. CredentialInv => CredentialTypeOK
  BY DEF CredentialInv, CredentialTypes, CredentialTypeOK, AgentRecord, EditRecord
<1>. QED
  BY CredentialInvInit, CredentialInvNext, <1>1, PTL DEF CredentialSpec

\* An agent about which no two requests have overlapped has exactly the secret that its
\* authentication and its credential mode call for, through every sequence of creations,
\* edits, changes of mode, deletions and rolled-back transactions.
THEOREM SecretsFit == CredentialSpec => []SecretFits
<1>1. CredentialInv => SecretFits
  BY DEF CredentialInv
<1>. QED
  BY CredentialInvInit, CredentialInvNext, <1>1, PTL DEF CredentialSpec

==============================================================================
