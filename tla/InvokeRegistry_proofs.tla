------------------------ MODULE InvokeRegistry_proofs ------------------------
(***************************************************************************)
(* Proofs about InvokeRegistry, for any number of invocations, of control  *)
(* requests, of guard keys, of attempts and of tasks.  The safety          *)
(* properties are inductive together with what makes them possible: a walk *)
(* that waits has a bound snapshot in front (WalksReady), the order of     *)
(* registration has an end (OrderEnds), and what is recorded in the        *)
(* history belongs to a token (NotesFit).                                  *)
(***************************************************************************)
EXTENDS InvokeRegistry, WellFoundedInduction, NaturalsInduction, TLAPS

\* The walk of a waits for the agent.
Waits(a) == IF a \in Controls THEN ctl[a].pc = "sweeping" ELSE inv[a].pc = "sweeping"

\* Some bound snapshot is in front of all that are left.
Front(todo) == \E s \in todo : s.task > 0 /\ \A r \in todo : s.at <= r.at

WalksReady == \A a \in Actors : Waits(a) => Front(sweep[a].todo)

OrderEnds == \E n \in Nat : \A t \in Token : entry[t].at <= n

\* Whoever records an interruption has the token it belongs to.
NotesFit ==
  \A i \in Invokes : inv[i].pc \in {"noting", "resolving"} => inv[i].note.event \in Token

\* Recovery leads to another attempt.
AttemptsLeft == \A i \in Invokes : inv[i].pc = "recovering" => inv[i].attempt < MaxAttempts

RegInv ==
  /\ RegTypeOK /\ AttemptsLeft /\ WalksReady /\ OrderEnds /\ NotesFit
  /\ GuardMatchesHolders /\ RegistryMatchesRuns /\ DeferredCancelSent

-----------------------------------------------------------------------------
\* Every nonempty set of natural numbers has a least element.
LEMMA LeastNumber ==
  ASSUME NEW T \in SUBSET Nat, T # {}
  PROVE  \E m \in T : \A n \in T : m <= n
<1>1. PICK m \in T : \A n \in T : ~ (<<n, m>> \in OpToRel(<, Nat))
  BY NatLessThanWellFounded, WFMin
<1>2. \A n \in T : ~ (n < m)
  BY <1>1 DEF OpToRel
<1>. QED
  BY <1>2

\* Of what is left after the unbound snapshots in front, one that is bound is in front.
LEMMA FrontAfterLeading ==
  ASSUME NEW todo \in SUBSET Snapshot, todo \ Leading(todo) # {}
  PROVE  Front(todo \ Leading(todo))
<1>. PICK rest : rest = todo \ Leading(todo)
  OBVIOUS
<1>1. \A s \in todo : s.at \in Nat /\ s.task \in Nat
  BY InvokeBoundsAssumption DEF Snapshot
<1>. PICK ats : ats = {s.at : s \in rest}
  OBVIOUS
<1>2. PICK m \in ats : \A n \in ats : m <= n
  <2>1. ats \in SUBSET Nat /\ ats # {}
    BY <1>1
  <2>. QED BY <2>1, LeastNumber
<1>3. PICK s \in rest : s.at = m /\ \A r \in rest : s.at <= r.at
  BY <1>2
<1>4. CASE s.task > 0
  BY <1>3, <1>4 DEF Front
<1>5. CASE s.task = 0
  <2>1. PICK r \in todo : r.task > 0 /\ ~ (s.at < r.at)
    BY <1>5 DEF Leading
  <2>2. r \in rest
    BY <2>1 DEF Leading
  <2>3. r.at = s.at
    BY <1>1, <1>3, <2>1, <2>2
  <2>. QED
    BY <1>3, <2>1, <2>2, <2>3 DEF Front
<1>. QED
  BY <1>1, <1>4, <1>5

\* The order of registration has a last number, so that the next one is a number.
LEMMA LastAtIsNumber ==
  ASSUME RegTypeOK, OrderEnds
  PROVE  LastAt \in Nat /\ \A t \in Token : entry[t].at <= LastAt
<1>. DEFINE bounds == {n \in Nat : \A t \in Token : entry[t].at <= n}
            ats == {0} \cup {entry[t].at : t \in Token}
<1>1. \A t \in Token : entry[t].at \in Nat
  BY DEF RegTypeOK, Entry
<1>2. PICK m \in bounds : \A n \in bounds : m <= n
  BY LeastNumber DEF OrderEnds
<1>3. m \in ats
  <2>1. CASE m > 0 /\ \A t \in Token : entry[t].at # m
    <3>1. m - 1 \in Nat /\ \A t \in Token : entry[t].at <= m - 1
      BY <1>1, <1>2, <2>1
    <3>. QED BY <1>2, <3>1
  <2>. QED BY <2>1
<1>4. m \in ats /\ \A t \in Token : entry[t].at <= m
  BY <1>2, <1>3
<1>5. LastAt \in ats /\ \A t \in Token : entry[t].at <= LastAt
  BY <1>4 DEF LastAt
<1>. QED
  BY <1>1, <1>5

\* The snapshot a walk waits for is one of those it has listed.
LEMMA CurrentIsListed ==
  ASSUME NEW todo \in SUBSET Snapshot, Front(todo)
  PROVE  Current(todo) \in todo
BY DEF Front, Current

\* Tokens are pairs of an invocation and an attempt.
LEMMA TokenFacts ==
  /\ \A t \in Token : t[1] \in Invokes /\ t = <<t[1], t[2]>> /\ t[2] \in 1 .. MaxAttempts
  /\ \A i \in Invokes, n \in 1 .. MaxAttempts : <<i, n>> \in Token /\ <<i, n>>[1] = i /\ <<i, n>>[2] = n
BY DEF Token

\* What is left of a request that has ended.
LEMMA FreshFacts ==
  ASSUME NEW pc \in InvokePcs, NEW n \in 1 .. MaxAttempts
  PROVE  Fresh(pc, n) \in Invocation /\ Fresh(pc, n).pc = pc /\ Fresh(pc, n).attempt = n
         /\ Fresh(pc, n).key = NoKey
<1>1. (CHOOSE k \in InvokeKinds : TRUE) \in InvokeKinds
  BY InvokeKindsAssumption
<1>2. NoNote \in Note
  BY DEF NoNote, Note, EventStatus
<1>3. 0 \in 0 .. MaxTasks
  BY InvokeBoundsAssumption
<1>. QED
  BY <1>1, <1>2, <1>3 DEF Fresh, Invocation

\* Nothing is registered or running at first.
LEMMA RegInvInit == RegInit => RegInv
<1>. SUFFICES ASSUME RegInit PROVE RegInv
  OBVIOUS
<1>1. 1 \in 1 .. MaxAttempts /\ 0 \in 0 .. MaxTasks
  BY InvokeBoundsAssumption
<1>2. /\ \A i \in Invokes : inv[i] = Fresh("idle", 1)
      /\ \A t \in Token : entry[t] = NoEntry /\ history[t] = "none"
      /\ \A c \in Controls : ctl[c] = [pc |-> "idle", answer |-> "none"]
      /\ \A k \in Keys : guard[k] = 0
  BY DEF RegInit
<1>3. Fresh("idle", 1) \in Invocation /\ Fresh("idle", 1).pc = "idle"
  BY <1>1, FreshFacts DEF InvokePcs
<1>4. NoEntry \in Entry /\ NoEntry.at = 0
  BY <1>1 DEF NoEntry, Entry
<1>5. RegTypeOK
  BY <1>3, <1>4 DEF RegInit, RegTypeOK, Control, ControlAnswers, Report, NoReport, EventStatus
<1>6. AttemptsLeft /\ WalksReady /\ OrderEnds /\ NotesFit
  BY <1>2, <1>3, <1>4, TokenFacts, 0 \in Nat DEF AttemptsLeft, WalksReady, Waits, Actors, OrderEnds, NotesFit
<1>7. GuardMatchesHolders
  BY <1>2, <1>3 DEF GuardMatchesHolders, Holders, Guarded
<1>8. RegistryMatchesRuns /\ DeferredCancelSent
  BY <1>2, <1>3, <1>4 DEF RegistryMatchesRuns, DeferredCancelSent, Registered, Running
<1>. QED
  BY <1>5, <1>6, <1>7, <1>8 DEF RegInv

-----------------------------------------------------------------------------
(***************************************************************************)
(* A step of the invocation i, which becomes k, part by part.              *)
(***************************************************************************)
Becomes(i, k) ==
  /\ inv' = [inv EXCEPT ![i] = k] /\ k \in Invocation
  /\ k.pc = "recovering" => k.attempt < MaxAttempts

GuardStays(i, k) ==
  /\ guard' = guard
  /\ k.pc \in Guarded <=> inv[i].pc \in Guarded
  /\ k.pc \in Guarded => k.key = inv[i].key
GuardGoes(i, k) == guard' = KeyReleased(i) /\ inv[i].pc \in Guarded /\ k.pc \notin Guarded
GuardTaken(i, k) ==
  /\ k.key \in Keys => guard[k.key] = 0
  /\ guard' = [key \in Keys |-> IF key = k.key THEN 1 ELSE guard[key]]
  /\ inv[i].pc \notin Guarded /\ k.pc \in Guarded

\* The cancel of t is due.
Due(t) == entry[t].cancel /\ entry[t].task > 0

\* Other invocations' entries are only removed when their cancel was tried.
OthersKept(t) ==
  /\ entry'[t].at > 0 => entry[t].at > 0
  /\ entry[t].at > 0 => entry'[t].at > 0 \/ t \in tried'
  /\ entry'[t].at > 0 /\ t \notin late' /\ Due(t)' => t \in tried' \/ Due(t)

OwnEntry(t, i, k) ==
  /\ entry'[t].at > 0 => /\ t = <<i, k.attempt>> /\ k.pc \in Running \cup {"gone"}
                         /\ t \notin late' /\ Due(t)' => t \in tried' \/ k.pc \in {"deferring", "closing"}
  /\ t = <<i, k.attempt>> /\ k.pc \in Running => entry'[t].at > 0 \/ t \in tried'

HistoryGrows == entry' \in [Token -> Entry] /\ tried \subseteq tried' /\ late \subseteq late'
                /\ tried' \subseteq Token /\ late' \subseteq Token

EntryStep(i, k) ==
  \A t \in Token : IF t[1] = i THEN OwnEntry(t, i, k) ELSE OthersKept(t)

NoteStep(i, k) ==
  /\ history' \in [Token -> EventStatus]
  /\ k.pc \in {"noting", "resolving"} => k.note.event \in Token

\* No walk of another actor moves, and i does not wait.
WalkStep(i, k) ==
  /\ ctl' = ctl /\ sweep' \in [Actors -> Report]
  /\ \A a \in Actors : a # i => sweep'[a] = sweep[a]
  /\ k.pc = "sweeping" => Front(sweep'[i].todo)

\* Who holds which key.
LEMMA GuardKept ==
  ASSUME RegInv, NEW i \in Invokes, NEW k, Becomes(i, k),
         GuardStays(i, k) \/ GuardGoes(i, k) \/ GuardTaken(i, k)
  PROVE  GuardMatchesHolders' /\ guard' \in [Keys -> {0, 1}]
<1>1. inv'[i] = k /\ \A j \in Invokes : j # i => inv'[j] = inv[j]
  BY DEF RegInv, RegTypeOK, Becomes
<1>2. guard \in [Keys -> {0, 1}]
  BY DEF RegInv, RegTypeOK
<1>3. \A key \in Keys : (guard[key] = 0 => Holders(key) = {})
                        /\ (guard[key] = 1 => \E j \in Invokes : Holders(key) = {j})
  BY DEF RegInv, GuardMatchesHolders
<1>4. \A key \in Keys, j \in Invokes : j # i => (j \in Holders(key)' <=> j \in Holders(key))
  BY <1>1 DEF Holders
<1>5. \A key \in Keys : (i \in Holders(key)' <=> (k.pc \in Guarded /\ k.key = key))
                        /\ (i \in Holders(key) <=> (inv[i].pc \in Guarded /\ inv[i].key = key))
                        /\ Holders(key)' \subseteq Invokes /\ Holders(key) \subseteq Invokes
  BY <1>1 DEF Holders
<1>6. CASE GuardStays(i, k)
  <2>1. ASSUME NEW key \in Keys PROVE Holders(key)' = Holders(key) /\ guard'[key] = guard[key]
    <3>1. i \in Holders(key)' <=> i \in Holders(key)
      BY <1>5, <1>6 DEF GuardStays
    <3>2. \A j \in Invokes : j \in Holders(key)' <=> j \in Holders(key)
      BY <1>4, <3>1
    <3>3. Holders(key)' = Holders(key)
      BY <1>5, <3>2
    <3>. QED BY <1>6, <3>3 DEF GuardStays
  <2>. QED BY <1>2, <1>3, <1>6, <2>1 DEF GuardMatchesHolders, GuardStays
<1>7. CASE GuardGoes(i, k)
  <2>1. guard' = [key \in Keys |-> IF key = inv[i].key THEN 0 ELSE guard[key]]
    BY <1>7 DEF GuardGoes, KeyReleased
  <2>2. ASSUME NEW key \in Keys, key # inv[i].key PROVE Holders(key)' = Holders(key) /\ guard'[key] = guard[key]
    <3>1. i \notin Holders(key)' /\ i \notin Holders(key)
      BY <1>5, <1>7, <2>2 DEF GuardGoes
    <3>2. \A j \in Invokes : j \in Holders(key)' <=> j \in Holders(key)
      BY <1>4, <3>1
    <3>3. Holders(key)' = Holders(key)
      BY <1>5, <3>2
    <3>. QED BY <2>1, <2>2, <3>3
  <2>3. ASSUME NEW key \in Keys, key = inv[i].key PROVE Holders(key)' = {} /\ guard'[key] = 0
    <3>1. i \in Holders(key) /\ i \notin Holders(key)'
      BY <1>5, <1>7, <2>3 DEF GuardGoes
    <3>2. Holders(key) = {i}
      BY <1>2, <1>3, <3>1
    <3>. QED BY <1>4, <1>5, <2>1, <2>3, <3>1, <3>2
  <2>4. guard' \in [Keys -> {0, 1}]
    BY <1>2, <2>1
  <2>. QED BY <1>2, <1>3, <2>2, <2>3, <2>4 DEF GuardMatchesHolders
<1>8. CASE GuardTaken(i, k)
  <2>1. ASSUME NEW key \in Keys, key # k.key PROVE Holders(key)' = Holders(key) /\ guard'[key] = guard[key]
    <3>1. i \notin Holders(key)' /\ i \notin Holders(key)
      BY <1>5, <1>8, <2>1 DEF GuardTaken
    <3>2. \A j \in Invokes : j \in Holders(key)' <=> j \in Holders(key)
      BY <1>4, <3>1
    <3>3. Holders(key)' = Holders(key)
      BY <1>5, <3>2
    <3>. QED BY <1>8, <2>1, <3>3 DEF GuardTaken
  <2>2. ASSUME NEW key \in Keys, key = k.key PROVE Holders(key)' = {i} /\ guard'[key] = 1
    <3>1. Holders(key) = {}
      BY <1>3, <1>8, <2>2 DEF GuardTaken
    <3>. QED BY <1>4, <1>5, <1>8, <2>2, <3>1 DEF GuardTaken
  <2>3. guard' \in [Keys -> {0, 1}]
    BY <1>2, <1>8 DEF GuardTaken
  <2>. QED BY <1>2, <1>3, <2>1, <2>2, <2>3 DEF GuardMatchesHolders
<1>. QED
  BY <1>6, <1>7, <1>8

\* Which entries there are, and which cancels are due.
LEMMA EntriesKept ==
  ASSUME RegInv, NEW i \in Invokes, NEW k, Becomes(i, k), EntryStep(i, k), HistoryGrows
  PROVE  RegistryMatchesRuns' /\ DeferredCancelSent'
<1>1. inv'[i] = k /\ \A j \in Invokes : j # i => inv'[j] = inv[j]
  BY DEF RegInv, RegTypeOK, Becomes
<1>2. /\ \A j \in Invokes : TokenOf(j) \in Token /\ TokenOf(j)[1] = j
      /\ \A j \in Invokes : j # i => TokenOf(j)' = TokenOf(j)
      /\ TokenOf(i)' = <<i, k.attempt>> /\ <<i, k.attempt>> \in Token /\ <<i, k.attempt>>[1] = i
      /\ \A t \in Token : t[1] \in Invokes
  BY <1>1, TokenFacts DEF TokenOf, Becomes, Invocation, RegInv, RegTypeOK
<1>3. \A t \in Token : IF t[1] = i THEN OwnEntry(t, i, k) ELSE OthersKept(t)
  BY DEF EntryStep
<1>4. ASSUME NEW t \in Token, t \in Registered'
      PROVE  t = TokenOf(t[1])' /\ inv'[t[1]].pc \in Running \cup {"gone"}
  <2>1. CASE t[1] = i
    BY <1>1, <1>2, <1>3, <1>4, <2>1 DEF Registered, OwnEntry
  <2>2. CASE t[1] # i
    <3>1. t \in Registered
      BY <1>3, <1>4, <2>2 DEF Registered, OthersKept
    <3>. QED BY <1>1, <1>2, <2>2, <3>1 DEF RegInv, RegistryMatchesRuns
  <2>. QED BY <2>1, <2>2
<1>5. ASSUME NEW j \in Invokes, inv'[j].pc \in Running, TokenOf(j)' \notin tried'
      PROVE  TokenOf(j)' \in Registered'
  <2>1. CASE j = i
    BY <1>1, <1>2, <1>3, <1>5, <2>1 DEF Registered, OwnEntry
  <2>2. CASE j # i
    <3>1. TokenOf(j) \in Registered
      BY <1>1, <1>2, <1>5, <2>2 DEF RegInv, RegistryMatchesRuns, HistoryGrows
    <3>2. OthersKept(TokenOf(j)) /\ TokenOf(j) \notin tried'
      BY <1>2, <1>3, <1>5, <2>2
    <3>3. TokenOf(j) \in Registered'
      BY <1>2, <3>1, <3>2 DEF OthersKept, Registered
    <3>. QED BY <1>2, <2>2, <3>3
  <2>. QED BY <2>1, <2>2
<1>6. ASSUME NEW t \in Token, t \in Registered', t \notin late', Due(t)', t \notin tried'
      PROVE  inv'[t[1]].pc \in {"deferring", "closing"}
  <2>1. CASE t[1] = i
    BY <1>1, <1>3, <1>6, <2>1 DEF Registered, OwnEntry
  <2>2. CASE t[1] # i
    <3>1. t \in Registered /\ t \notin late /\ Due(t) /\ t \notin tried
      BY <1>3, <1>6, <2>2 DEF Registered, OthersKept, HistoryGrows
    <3>. QED BY <1>1, <1>2, <2>2, <3>1 DEF RegInv, DeferredCancelSent, Due
  <2>. QED BY <2>1, <2>2
<1>7. Registered' \subseteq Token
  BY DEF Registered
<1>. QED
  BY <1>4, <1>5, <1>6, <1>7 DEF RegistryMatchesRuns, DeferredCancelSent, Due

\* What is recorded.
LEMMA NotesKept ==
  ASSUME RegInv, NEW i \in Invokes, NEW k, Becomes(i, k), NoteStep(i, k)
  PROVE  NotesFit'
<1>1. inv'[i] = k /\ \A j \in Invokes : j # i => inv'[j] = inv[j]
  BY DEF RegInv, RegTypeOK, Becomes
<1>. QED
  BY <1>1 DEF RegInv, NotesFit, NoteStep

\* Who waits.
LEMMA WalksKept ==
  ASSUME RegInv, NEW i \in Invokes, NEW k, Becomes(i, k), WalkStep(i, k)
  PROVE  WalksReady'
<1>1. inv'[i] = k /\ \A j \in Invokes : j # i => inv'[j] = inv[j]
  BY DEF RegInv, RegTypeOK, Becomes
<1>2. i \notin Controls /\ i \in Actors
  BY ActorsAssumption DEF Actors
<1>3. ASSUME NEW a \in Actors, Waits(a)' PROVE Front(sweep'[a].todo)
  <2>1. CASE a = i
    BY <1>1, <1>2, <1>3, <2>1 DEF Waits, WalkStep
  <2>2. CASE a # i
    <3>1. Waits(a)
      BY <1>1, <1>3, <2>2 DEF Waits, WalkStep, Actors
    <3>. QED BY <2>2, <3>1 DEF WalkStep, RegInv, WalksReady
  <2>. QED BY <2>1, <2>2
<1>. QED
  BY <1>3 DEF WalksReady

\* All parts together.
LEMMA InvokeMoves ==
  ASSUME RegInv, NEW i \in Invokes, NEW k, Becomes(i, k),
         GuardStays(i, k) \/ GuardGoes(i, k) \/ GuardTaken(i, k),
         EntryStep(i, k), HistoryGrows, OrderEnds', NoteStep(i, k), WalkStep(i, k)
  PROVE  RegInv'
<1>1. RegTypeOK'
  BY GuardKept DEF RegInv, RegTypeOK, Becomes, HistoryGrows, NoteStep, WalkStep
<1>2. AttemptsLeft'
  BY DEF RegInv, RegTypeOK, Becomes, AttemptsLeft
<1>. QED
  BY <1>1, <1>2, GuardKept, EntriesKept, NotesKept, WalksKept DEF RegInv

-----------------------------------------------------------------------------
\* The record of an invocation, and that of its note.
LEMMA InvFacts ==
  ASSUME RegInv, NEW i \in Invokes
  PROVE  /\ inv[i] \in Invocation /\ inv[i].note \in Note /\ inv[i].attempt \in 1 .. MaxAttempts
         /\ TokenOf(i) \in Token /\ TokenOf(i)[1] = i /\ TokenOf(i) = <<i, inv[i].attempt>>
BY TokenFacts DEF RegInv, RegTypeOK, Invocation, TokenOf

\* A step that leaves the registry alone, and takes no invocation into or out of it.
LEMMA EntriesStay ==
  ASSUME RegInv, NEW i \in Invokes, NEW k, Becomes(i, k), UNCHANGED <<entry, tried, late>>,
         inv[i].pc \in Running \cup {"gone"} => k.attempt = inv[i].attempt /\ k.pc \in Running \cup {"gone"},
         k.pc \in Running => inv[i].pc \in Running,
         inv[i].pc \in {"deferring", "closing"} => k.pc \in {"deferring", "closing"}
  PROVE  EntryStep(i, k) /\ HistoryGrows /\ OrderEnds'
<1>1. HistoryGrows /\ OrderEnds'
  BY DEF HistoryGrows, OrderEnds, RegInv, RegTypeOK
<1>2. ASSUME NEW t \in Token PROVE OthersKept(t)
  BY DEF OthersKept, Due
<1>3. ASSUME NEW t \in Token, t[1] = i PROVE OwnEntry(t, i, k)
  <2>1. entry[t].at > 0 => t = TokenOf(i) /\ inv[i].pc \in Running \cup {"gone"}
    BY <1>3 DEF RegInv, RegistryMatchesRuns, Registered
  <2>2. inv[i].pc \in Running /\ t = TokenOf(i) => entry[t].at > 0 \/ t \in tried
    BY <1>3 DEF RegInv, RegistryMatchesRuns, Registered
  <2>3. entry[t].at > 0 /\ t \notin late /\ Due(t) => t \in tried \/ inv[i].pc \in {"deferring", "closing"}
    BY <1>3 DEF RegInv, DeferredCancelSent, Registered, Due
  <2>4. Due(t)' <=> Due(t)
    BY DEF Due
  <2>5. k.pc \in Running => k.attempt = inv[i].attempt
    OBVIOUS
  <2>. QED BY <2>1, <2>2, <2>3, <2>4, <2>5 DEF OwnEntry, TokenOf
<1>. QED
  BY <1>1, <1>2, <1>3 DEF EntryStep

\* Whoever waits is left alone by a step that starts and ends no walk.
LEMMA WalksStay ==
  ASSUME RegInv, NEW i \in Invokes, NEW k, UNCHANGED <<ctl, sweep>>, k.pc # "sweeping"
  PROVE  WalkStep(i, k)
BY DEF WalkStep, RegInv, RegTypeOK

\* What is recorded suits an invocation that takes no part in recording.
LEMMA NotesStay ==
  ASSUME RegInv, NEW i \in Invokes, NEW k, history' = history, k.pc \notin {"noting", "resolving"}
  PROVE  NoteStep(i, k)
BY DEF NoteStep, RegInv, RegTypeOK

\* End(i, pc): nothing of the request is left.
LEMMA EndFacts ==
  ASSUME RegInv, NEW i \in Invokes, NEW pc \in InvokePcs \ {"recovering"}, inv' = End(i, pc)
  PROVE  \E k : /\ Becomes(i, k) /\ k.pc = pc /\ k.attempt = inv[i].attempt /\ k.key = NoKey
<1>1. inv[i].attempt \in 1 .. MaxAttempts
  BY InvFacts
<1>2. Becomes(i, Fresh(pc, inv[i].attempt))
  BY <1>1, FreshFacts DEF Becomes, End
<1>. QED
  BY <1>1, <1>2, FreshFacts

\* At(i, pc): only where it is changes.
LEMMA AtFacts ==
  ASSUME RegInv, NEW i \in Invokes, NEW pc \in InvokePcs, inv' = At(i, pc),
         pc = "recovering" => inv[i].attempt < MaxAttempts
  PROVE  \E k : /\ Becomes(i, k) /\ k.pc = pc /\ k.attempt = inv[i].attempt /\ k.key = inv[i].key
                /\ k.note = inv[i].note
<1>. PICK k : k = [inv[i] EXCEPT !.pc = pc]
  OBVIOUS
<1>1. inv[i] \in Invocation
  BY InvFacts
<1>2. /\ k \in Invocation /\ k.pc = pc /\ k.attempt = inv[i].attempt /\ k.key = inv[i].key
      /\ k.note = inv[i].note
  BY <1>1 DEF Invocation
<1>3. inv' = [inv EXCEPT ![i] = k]
  BY DEF At
<1>. QED
  BY <1>2, <1>3 DEF Becomes

\* The sets of places, for steps that move from one to another.
LEMMA PlacesFacts ==
  /\ Guarded \subseteq InvokePcs /\ Running \subseteq InvokePcs
  /\ \A pc \in {"prepared", "sweeping", "noting", "swept", "replaying", "streaming", "deferring",
                "resolving", "closing", "recovering", "leaving"} : pc \in Guarded
  /\ \A pc \in {"idle", "refused", "abandoned", "gone", "over"} : pc \notin Guarded /\ pc \in InvokePcs
  /\ \A pc \in {"idle", "refused", "prepared", "sweeping", "noting", "swept", "recovering", "leaving",
                "gone", "over"} : pc \notin Running
BY DEF Guarded, Running, InvokePcs

\* A request is refused, or takes its key.
LEMMA BeginKeeps ==
  ASSUME RegInv, NEW i \in Invokes, NEW kind \in InvokeKinds, NEW key \in Keys \cup {NoKey},
         NEW preempt \in BOOLEAN, NEW resume \in BOOLEAN, BeginAttempt(i, kind, key, preempt, resume)
  PROVE  RegInv'
<1>1. inv[i].pc = "idle" /\ UNCHANGED <<entry, ctl, sweep, history, tried, late>>
  BY DEF BeginAttempt
<1>2. CASE inv' = End(i, "refused") /\ guard' = guard
  <2>1. PICK k : Becomes(i, k) /\ k.pc = "refused" /\ k.attempt = inv[i].attempt
    BY <1>2, EndFacts, PlacesFacts
  <2>2. GuardStays(i, k)
    BY <1>1, <1>2, <2>1, PlacesFacts DEF GuardStays
  <2>3. EntryStep(i, k) /\ HistoryGrows /\ OrderEnds'
    BY <1>1, <2>1, EntriesStay, PlacesFacts
  <2>4. NoteStep(i, k) /\ WalkStep(i, k)
    BY <1>1, <2>1, NotesStay, WalksStay
  <2>. QED BY <2>1, <2>2, <2>3, <2>4, InvokeMoves
<1>3. CASE /\ key \in Keys => guard[key] = 0
           /\ inv' = [inv EXCEPT ![i].pc = "prepared", ![i].kind = kind, ![i].key = key,
                                 ![i].preempt = preempt, ![i].resume = resume]
           /\ guard' = [q \in Keys |-> IF q = key THEN 1 ELSE guard[q]]
  <2>. PICK k : k = [inv[i] EXCEPT !.pc = "prepared", !.kind = kind, !.key = key,
                                   !.preempt = preempt, !.resume = resume]
    OBVIOUS
  <2>1. k \in Invocation /\ k.pc = "prepared" /\ k.attempt = inv[i].attempt /\ k.key = key
    <3>1. inv[i] \in Invocation /\ "prepared" \in InvokePcs
      BY InvFacts, PlacesFacts
    <3>. QED BY <3>1 DEF Invocation
  <2>2. Becomes(i, k)
    BY <1>3, <2>1 DEF Becomes, RegInv, RegTypeOK
  <2>3. GuardTaken(i, k)
    BY <1>1, <1>3, <2>1, PlacesFacts DEF GuardTaken
  <2>4. EntryStep(i, k) /\ HistoryGrows /\ OrderEnds'
    BY <1>1, <2>1, <2>2, EntriesStay, PlacesFacts
  <2>5. NoteStep(i, k) /\ WalkStep(i, k)
    BY <1>1, <2>1, <2>2, NotesStay, WalksStay
  <2>. QED BY <2>2, <2>3, <2>4, <2>5, InvokeMoves
<1>. QED
  BY <1>2, <1>3 DEF BeginAttempt

\* An invocation ends and gives its key back, without having been registered.
LEMMA EndsUnregistered ==
  ASSUME RegInv, NEW i \in Invokes, inv[i].pc \in Guarded, inv[i].pc \notin Running,
         inv' = End(i, "over"), guard' = KeyReleased(i),
         UNCHANGED <<entry, ctl, sweep, history, tried, late>>
  PROVE  RegInv'
<1>1. PICK k : Becomes(i, k) /\ k.pc = "over" /\ k.attempt = inv[i].attempt
  BY EndFacts, PlacesFacts
<1>2. GuardGoes(i, k)
  BY <1>1, PlacesFacts DEF GuardGoes
<1>3. inv[i].pc # "gone"
  BY PlacesFacts
<1>4. EntryStep(i, k) /\ HistoryGrows /\ OrderEnds'
  BY <1>1, <1>3, EntriesStay, PlacesFacts DEF Running
<1>5. NoteStep(i, k) /\ WalkStep(i, k)
  BY <1>1, NotesStay, WalksStay
<1>. QED
  BY <1>1, <1>2, <1>4, <1>5, InvokeMoves

\* The preparation fails, or the recovery of the session does.
LEMMA PrepareFailsKeeps ==
  ASSUME RegInv, NEW i \in Invokes, PrepareFails(i)
  PROVE  RegInv'
BY EndsUnregistered, PlacesFacts DEF PrepareFails

\* An invocation that is not retried is over.
LEMMA LeaveKeeps ==
  ASSUME RegInv, NEW i \in Invokes, Leave(i)
  PROVE  RegInv'
BY EndsUnregistered, PlacesFacts DEF Leave

\* An invocation moves on; its key, its entry and its note stay.
LEMMA MovesOn ==
  ASSUME RegInv, NEW i \in Invokes, NEW pc \in InvokePcs, inv' = At(i, pc),
         pc = "recovering" => inv[i].attempt < MaxAttempts, UNCHANGED <<guard, entry, ctl, sweep, history, tried, late>>,
         pc \in Guarded, inv[i].pc \in Guarded,
         pc \in Running <=> inv[i].pc \in Running,
         pc \notin {"idle", "prepared", "sweeping", "noting", "resolving"},
         inv[i].pc \notin {"deferring", "closing"}
  PROVE  RegInv'
<1>1. PICK k : Becomes(i, k) /\ k.pc = pc /\ k.attempt = inv[i].attempt /\ k.key = inv[i].key
  BY AtFacts
<1>2. GuardStays(i, k)
  BY <1>1 DEF GuardStays
<1>3. inv[i].pc # "gone"
  BY PlacesFacts
<1>4. EntryStep(i, k) /\ HistoryGrows /\ OrderEnds'
  BY <1>1, <1>3, EntriesStay
<1>5. NoteStep(i, k) /\ WalkStep(i, k)
  BY <1>1, NotesStay, WalksStay
<1>. QED
  BY <1>1, <1>2, <1>4, <1>5, InvokeMoves

\* All cached events are sent.
LEMMA ReplayEndsKeeps ==
  ASSUME RegInv, NEW i \in Invokes, ReplayEnds(i)
  PROVE  RegInv'
<1>1. inv[i].pc = "replaying" /\ {"replaying", "streaming"} \subseteq Guarded \cap Running \cap InvokePcs
  BY DEF ReplayEnds, Guarded, Running, InvokePcs
<1>. QED
  BY <1>1, MovesOn DEF ReplayEnds

\* The upstream session was not found: a call may be tried again.
LEMMA RecoverSessionKeeps ==
  ASSUME RegInv, NEW i \in Invokes, RecoverSession(i)
  PROVE  RegInv'
<1>1. inv[i].pc = "leaving" /\ {"leaving", "recovering"} \subseteq (Guarded \cap InvokePcs) \ Running
  BY DEF RecoverSession, Guarded, Running, InvokePcs
<1>. QED
  BY <1>1, MovesOn DEF RecoverSession

\* A new attempt has a new token, for which nothing is recorded yet.
LEMMA RetryAttemptKeeps ==
  ASSUME RegInv, NEW i \in Invokes, RetryAttempt(i)
  PROVE  RegInv'
<1>. PICK k : k = [inv[i] EXCEPT !.pc = "prepared", !.attempt = inv[i].attempt + 1, !.seen = 0]
  OBVIOUS
<1>1. inv[i].attempt + 1 \in 1 .. MaxAttempts /\ 0 \in 0 .. MaxTasks
  BY InvFacts, InvokeBoundsAssumption DEF RegInv, AttemptsLeft, RetryAttempt
<1>2. k \in Invocation /\ k.pc = "prepared" /\ k.attempt = inv[i].attempt + 1 /\ k.key = inv[i].key
  <2>1. inv[i] \in Invocation /\ "prepared" \in InvokePcs
    BY InvFacts, PlacesFacts
  <2>. QED BY <1>1, <2>1 DEF Invocation
<1>3. Becomes(i, k)
  BY <1>2 DEF RetryAttempt, Becomes, RegInv, RegTypeOK
<1>4. inv[i].pc = "recovering"
  BY DEF RetryAttempt
<1>5. GuardStays(i, k)
  BY <1>2, <1>4, PlacesFacts DEF GuardStays, RetryAttempt
<1>6. EntryStep(i, k) /\ HistoryGrows /\ OrderEnds'
  BY <1>2, <1>3, <1>4, EntriesStay, PlacesFacts DEF RetryAttempt
<1>7. k.attempt > inv[i].attempt
  BY <1>1, <1>2, InvFacts, InvokeBoundsAssumption
<1>8. NoteStep(i, k) /\ WalkStep(i, k)
  BY <1>2, <1>3, <1>7, NotesStay, WalksStay DEF RetryAttempt
<1>. QED
  BY <1>3, <1>5, <1>6, <1>8, InvokeMoves

-----------------------------------------------------------------------------
(***************************************************************************)
(* The walks.                                                              *)
(***************************************************************************)
\* What a walk makes of the registry: reg is what the cancel has left of it.
LEMMA WalkFacts ==
  ASSUME RegInv, NEW a \in Actors, NEW r \in Report, NEW reg \in [Token -> Entry],
         tried \subseteq tried', tried' \subseteq Token,
         \A t \in Token : reg[t] = entry[t] \/ (reg[t] = NoEntry /\ t \in tried'),
         Walk(a, r, reg)
  PROVE  /\ HistoryGrows /\ OrderEnds'
         /\ \A t \in Token : OthersKept(t)
         /\ sweep' \in [Actors -> Report]
         /\ \A b \in Actors : b # a => sweep'[b] = sweep[b]
         /\ IF sweep'[a].todo = {} THEN Conclude(a, sweep'[a])
            ELSE Front(sweep'[a].todo) /\ Await(a)
<1>. PICK lead : lead = Leading(r.todo)
  OBVIOUS
<1>. PICK hit : hit = {s.token : s \in {x \in lead : reg[x.token].at > 0}}
  OBVIOUS
<1>. PICK next : next = [r EXCEPT !.todo = r.todo \ lead, !.marked = r.marked \/ hit # {}]
  OBVIOUS
<1>1. /\ entry' = [t \in Token |-> IF t \in hit THEN Marked(a, t, reg[t]) ELSE reg[t]]
      /\ late' = late \cup {t \in hit : reg[t].task > 0}
      /\ sweep' = [sweep EXCEPT ![a] = next]
      /\ IF next.todo = {} THEN Conclude(a, next) ELSE Await(a)
  BY DEF Walk
<1>2. r.todo \in SUBSET Snapshot /\ lead \subseteq r.todo /\ hit \subseteq Token
  BY DEF Report, Leading, Snapshot
<1>3. next \in Report /\ next.todo = r.todo \ lead
  <2>1. (r.marked \/ hit # {}) \in BOOLEAN
    OBVIOUS
  <2>. QED BY <1>2, <2>1 DEF Report
<1>4. sweep' \in [Actors -> Report] /\ sweep'[a] = next
      /\ \A b \in Actors : b # a => sweep'[b] = sweep[b]
  BY <1>1, <1>3 DEF RegInv, RegTypeOK
<1>5. EventOf(a) \in Token \cup {NoToken}
  BY InvFacts DEF EventOf
<1>6. ASSUME NEW t \in Token
      PROVE  /\ Marked(a, t, reg[t]) \in Entry /\ Marked(a, t, reg[t]).at = reg[t].at
             /\ Marked(a, t, reg[t]).task = reg[t].task
  BY <1>5 DEF Marked, Entry
<1>7. \A t \in Token : /\ entry'[t].at = reg[t].at /\ entry'[t].task = reg[t].task
                       /\ t \notin hit => entry'[t] = reg[t]
  BY <1>1, <1>6
<1>8. \A t \in Token : reg[t].at > 0 => reg[t] = entry[t]
  BY DEF NoEntry
<1>9. \A t \in Token : OthersKept(t)
  <2>1. ASSUME NEW t \in Token PROVE OthersKept(t)
    <3>1. entry'[t].at > 0 => entry[t].at > 0 /\ reg[t] = entry[t]
      BY <1>7, <1>8
    <3>2. entry[t].at > 0 => entry'[t].at > 0 \/ t \in tried'
      BY <1>7
    <3>3. entry'[t].at > 0 /\ t \notin late' /\ Due(t)' => Due(t)
      BY <1>1, <1>7, <3>1 DEF Due
    <3>. QED BY <3>1, <3>2, <3>3 DEF OthersKept
  <2>. QED BY <2>1
<1>10. HistoryGrows
  BY <1>1, <1>2, <1>6 DEF HistoryGrows, RegInv, RegTypeOK
<1>11. OrderEnds'
  <2>1. PICK n \in Nat : \A t \in Token : entry[t].at <= n
    BY DEF RegInv, OrderEnds
  <2>2. \A t \in Token : entry'[t].at <= n
    BY <1>7, <2>1 DEF NoEntry
  <2>. QED BY <2>2 DEF OrderEnds
<1>12. next.todo # {} => Front(next.todo)
  BY <1>2, <1>3, FrontAfterLeading
<1>. QED
  BY <1>1, <1>4, <1>9, <1>10, <1>11, <1>12

\* The walk of a control request.
LEMMA ControlWalks ==
  ASSUME RegInv, NEW c \in Controls, HistoryGrows, OrderEnds', \A t \in Token : OthersKept(t),
         sweep' \in [Actors -> Report], \A b \in Actors : b # c => sweep'[b] = sweep[b],
         IF sweep'[c].todo = {} THEN Conclude(c, sweep'[c]) ELSE Front(sweep'[c].todo) /\ Await(c),
         UNCHANGED <<guard, history>>
  PROVE  RegInv'
<1>1. /\ inv' = inv /\ ctl' \in [Controls -> Control]
      /\ \A b \in Controls : b # c => ctl'[b] = ctl[b]
      /\ ctl'[c].pc = "sweeping" => Front(sweep'[c].todo)
  <2>1. CASE sweep'[c].todo = {}
    <3>1. CancelAnswer(sweep'[c]) \in ControlAnswers
      BY DEF CancelAnswer, ControlAnswers
    <3>. QED BY <2>1, <3>1 DEF Conclude, Control, RegInv, RegTypeOK
  <2>2. CASE sweep'[c].todo # {}
    BY <2>2 DEF Await, Control, RegInv, RegTypeOK
  <2>. QED BY <2>1, <2>2
<1>2. RegTypeOK'
  BY <1>1 DEF RegInv, RegTypeOK, HistoryGrows
<1>3. WalksReady'
  <2>1. ASSUME NEW a \in Actors, Waits(a)' PROVE Front(sweep'[a].todo)
    <3>1. CASE a = c
      BY <1>1, <2>1, <3>1 DEF Waits
    <3>2. CASE a # c
      <4>1. Waits(a)
        BY <1>1, <2>1, <3>2 DEF Waits, Actors
      <4>. QED BY <3>2, <4>1 DEF RegInv, WalksReady
    <3>. QED BY <3>1, <3>2
  <2>. QED BY <2>1 DEF WalksReady
<1>4. NotesFit' /\ AttemptsLeft' /\ GuardMatchesHolders'
  BY <1>1 DEF RegInv, NotesFit, TokenOf, AttemptsLeft, GuardMatchesHolders, Holders
<1>5. \A i \in Invokes : TokenOf(i)' = TokenOf(i) /\ TokenOf(i) \in Token
  BY <1>1, InvFacts DEF TokenOf
<1>6. RegistryMatchesRuns'
  <2>1. \A t \in Token : t \in Registered' => t \in Registered
    BY DEF Registered, OthersKept
  <2>2. \A t \in Token : t \in Registered /\ t \notin tried' => t \in Registered'
    BY DEF Registered, OthersKept
  <2>3. Registered' \subseteq Token /\ tried \subseteq tried' /\ \A t \in Token : t[1] \in Invokes
    BY TokenFacts DEF Registered, HistoryGrows
  <2>. QED BY <1>1, <1>5, <2>1, <2>2, <2>3 DEF RegInv, RegistryMatchesRuns
<1>7. DeferredCancelSent'
  <2>1. ASSUME NEW t \in Token, t \in Registered', t \notin late', Due(t)', t \notin tried'
        PROVE  t \in Registered /\ t \notin late /\ Due(t) /\ t \notin tried
    BY <2>1 DEF Registered, OthersKept, HistoryGrows
  <2>2. Registered' \subseteq Token
    BY DEF Registered
  <2>. QED BY <1>1, <2>1, <2>2 DEF RegInv, DeferredCancelSent, Due
<1>. QED
  BY <1>2, <1>3, <1>4, <1>6, <1>7, OrderEnds' DEF RegInv

\* Once it has listed the registry, an interrupter is about to note what it has reached,
\* to register, or waits.
LEMMA InvokeWalks ==
  ASSUME RegInv, NEW i \in Invokes, inv[i].pc \in {"prepared", "sweeping"},
         HistoryGrows, OrderEnds', \A t \in Token : OthersKept(t),
         sweep' \in [Actors -> Report], \A b \in Actors : b # i => sweep'[b] = sweep[b],
         IF sweep'[i].todo = {} THEN Conclude(i, sweep'[i]) ELSE Front(sweep'[i].todo) /\ Await(i),
         UNCHANGED <<guard, history>>
  PROVE  RegInv'
<1>1. i \notin Controls
  BY ActorsAssumption
<1>2. ctl' = ctl /\ \E k :
        /\ Becomes(i, k) /\ k.attempt = inv[i].attempt /\ k.key = inv[i].key
        /\ k.pc \in {"swept", "noting", "sweeping"}
        /\ k.pc = "sweeping" => Front(sweep'[i].todo)
        /\ k.pc = "noting" => k.note.event = TokenOf(i)
  <2>1. CASE sweep'[i].todo # {}
    <3>1. inv' = At(i, "sweeping") /\ ctl' = ctl
      BY <1>1, <2>1 DEF Await
    <3>. QED BY <2>1, <3>1, AtFacts DEF InvokePcs
  <2>2. CASE sweep'[i].todo = {} /\ PreemptStatus(sweep'[i]) = "none"
    <3>1. inv' = At(i, "swept") /\ ctl' = ctl
      BY <1>1, <2>2 DEF Conclude
    <3>. QED BY <3>1, AtFacts DEF InvokePcs
  <2>3. CASE sweep'[i].todo = {} /\ PreemptStatus(sweep'[i]) # "none"
    <3>. PICK status : status = PreemptStatus(sweep'[i])
      OBVIOUS
    <3>. PICK note : note = [event |-> TokenOf(i), status |-> status, seen |-> "unread"]
      OBVIOUS
    <3>. PICK k : k = [inv[i] EXCEPT !.pc = "noting", !.note = note]
      OBVIOUS
    <3>1. ctl' = ctl /\ inv' = [inv EXCEPT ![i].pc = "noting", ![i].note = note]
      BY <1>1, <2>3 DEF Conclude
    <3>2. inv' = [inv EXCEPT ![i] = k]
      BY <3>1 DEF RegInv, RegTypeOK
    <3>3. status \in EventStatus
      BY DEF PreemptStatus, EventStatus
    <3>4. note \in Note
      BY <3>3, InvFacts DEF Note
    <3>5. "noting" \in InvokePcs /\ inv[i] \in Invocation
      BY InvFacts DEF InvokePcs
    <3>6. k \in Invocation /\ k.pc = "noting" /\ k.note = note /\ k.attempt = inv[i].attempt
          /\ k.key = inv[i].key
      BY <3>4, <3>5 DEF Invocation
    <3>7. note.event = TokenOf(i)
      OBVIOUS
    <3>8. Becomes(i, k)
      BY <3>2, <3>6 DEF Becomes
    <3>9. ctl' = ctl /\ k.note.event = TokenOf(i)
          /\ k.attempt = inv[i].attempt /\ k.key = inv[i].key /\ k.pc = "noting"
      BY <3>1, <3>3, <3>6, <3>7
    <3>. QED BY <3>8, <3>9
  <2>. QED BY <2>1, <2>2, <2>3
<1>3. PICK k : /\ Becomes(i, k) /\ k.attempt = inv[i].attempt /\ k.key = inv[i].key
               /\ k.pc \in {"swept", "noting", "sweeping"}
               /\ k.pc = "sweeping" => Front(sweep'[i].todo)
               /\ k.pc = "noting" => k.note.event = TokenOf(i)
  BY <1>2
<1>4. GuardStays(i, k)
  BY <1>3, PlacesFacts DEF GuardStays
<1>5. EntryStep(i, k)
  <2>1. ASSUME NEW t \in Token, t[1] = i PROVE OwnEntry(t, i, k)
    <3>1. entry[t].at = 0 \/ ~(entry[t].at > 0)
      BY <2>1, PlacesFacts DEF RegInv, RegistryMatchesRuns, Registered
    <3>2. ~ (entry'[t].at > 0)
      BY <3>1 DEF OthersKept
    <3>. QED BY <1>3, <3>2, PlacesFacts DEF OwnEntry
  <2>. QED BY <2>1 DEF EntryStep
<1>6. NoteStep(i, k)
  BY <1>3, InvFacts DEF NoteStep, RegInv, RegTypeOK
<1>7. WalkStep(i, k)
  BY <1>2, <1>3 DEF WalkStep
<1>. QED
  BY <1>3, <1>4, <1>5, <1>6, <1>7, InvokeMoves

\* The list of a walk is made of the entries there are.
LEMMA ListIsReport ==
  ASSUME RegInv
  PROVE  [NoReport EXCEPT !.todo = Bucket, !.listed = Registered] \in Report
<1>. PICK bucket : bucket = Bucket
  OBVIOUS
<1>1. bucket \in SUBSET Snapshot
  <2>1. ASSUME NEW t \in Token, entry[t].at > 0
        PROVE  [token |-> t, at |-> entry[t].at, task |-> entry[t].task] \in Snapshot
    <3>1. entry[t].at \in Nat \ {0} /\ entry[t].task \in 0 .. MaxTasks
      BY <2>1 DEF RegInv, RegTypeOK, Entry
    <3>. QED BY <3>1 DEF Snapshot
  <2>. QED BY <2>1 DEF Bucket, Registered
<1>2. Registered \in SUBSET Token
  BY DEF Registered
<1>. QED
  BY <1>1, <1>2 DEF NoReport, Report

\* A walk that begins.
LEMMA ListKeeps ==
  ASSUME RegInv, NEW a \in Actors, List(a), UNCHANGED <<guard, history, tried>>,
         a \in Invokes => inv[a].pc = "prepared"
  PROVE  RegInv'
<1>1. entry \in [Token -> Entry] /\ tried \subseteq tried' /\ tried' \subseteq Token
  BY DEF RegInv, RegTypeOK
<1>2. /\ HistoryGrows /\ OrderEnds'
      /\ \A t \in Token : OthersKept(t)
      /\ sweep' \in [Actors -> Report]
      /\ \A b \in Actors : b # a => sweep'[b] = sweep[b]
      /\ IF sweep'[a].todo = {} THEN Conclude(a, sweep'[a])
         ELSE Front(sweep'[a].todo) /\ Await(a)
  BY <1>1, ListIsReport, WalkFacts DEF List
<1>3. CASE a \in Controls
  BY <1>2, <1>3, ControlWalks
<1>4. CASE a \in Invokes
  BY <1>2, <1>4, InvokeWalks
<1>. QED
  BY <1>3, <1>4 DEF Actors

\* A walk that goes on: the cancel it has waited for was tried.
LEMMA CancelReturnsKeeps ==
  ASSUME RegInv, NEW a \in Actors, NEW outcome \in Outcomes, Waits(a), CancelReturns(a, outcome)
  PROVE  RegInv'
<1>. PICK r : r = sweep[a]
  OBVIOUS
<1>. PICK s : s = Current(r.todo)
  OBVIOUS
<1>. PICK reg : reg = AfterCancel(s.token, outcome)
  OBVIOUS
<1>. PICK next : next = [r EXCEPT !.todo = r.todo \ {s}, !.ok = r.ok \/ outcome = "ok",
                                  !.terminal = r.terminal \/ outcome = "terminal",
                                  !.failed = r.failed \/ outcome = "error"]
  OBVIOUS
<1>1. r \in Report /\ r.todo \in SUBSET Snapshot /\ Front(r.todo)
  BY DEF RegInv, RegTypeOK, Report, WalksReady
<1>2. s \in Snapshot /\ s.token \in Token
  BY <1>1, CurrentIsListed DEF Snapshot
<1>3. NoEntry \in Entry
  BY InvokeBoundsAssumption DEF NoEntry, Entry
<1>4. reg \in [Token -> Entry] /\ \A t \in Token : reg[t] = entry[t] \/ (reg[t] = NoEntry /\ t = s.token)
  BY <1>2, <1>3 DEF AfterCancel, Without, RegInv, RegTypeOK
<1>5. next \in Report
  <2>1. /\ r.todo \ {s} \in SUBSET Snapshot
        /\ (r.ok \/ outcome = "ok") \in BOOLEAN /\ (r.terminal \/ outcome = "terminal") \in BOOLEAN
        /\ (r.failed \/ outcome = "error") \in BOOLEAN
    BY <1>1, Zenon
  <2>2. r.listed \in SUBSET Token /\ r.marked \in BOOLEAN
    BY <1>1 DEF Report
  <2>. QED BY <1>1, <2>1, <2>2, ZenonT(30) DEF Report
<1>6. tried' = tried \cup {s.token} /\ Walk(a, next, reg) /\ UNCHANGED <<guard, history>>
  BY DEF CancelReturns
<1>7. tried \subseteq tried' /\ tried' \subseteq Token
  BY <1>2, <1>6 DEF RegInv, RegTypeOK
<1>8. \A t \in Token : reg[t] = entry[t] \/ (reg[t] = NoEntry /\ t \in tried')
  BY <1>4, <1>6
<1>9. /\ HistoryGrows /\ OrderEnds'
      /\ \A t \in Token : OthersKept(t)
      /\ sweep' \in [Actors -> Report]
      /\ \A b \in Actors : b # a => sweep'[b] = sweep[b]
      /\ IF sweep'[a].todo = {} THEN Conclude(a, sweep'[a])
         ELSE Front(sweep'[a].todo) /\ Await(a)
  BY <1>4, <1>5, <1>6, <1>7, <1>8, WalkFacts
<1>10. CASE a \in Controls
  BY <1>6, <1>9, <1>10, ControlWalks
<1>11. CASE a \in Invokes
  <2>1. inv[a].pc = "sweeping"
    BY <1>11, ActorsAssumption DEF Waits
  <2>. QED BY <1>6, <1>9, <1>11, <2>1, InvokeWalks
<1>. QED
  BY <1>10, <1>11 DEF Actors

\* The interruption begins, or nothing is to be interrupted.
LEMMA PrepareKeeps ==
  ASSUME RegInv, NEW i \in Invokes, Prepare(i)
  PROVE  RegInv'
<1>1. CASE inv[i].preempt
  BY <1>1, ListKeeps DEF Prepare, Actors
<1>2. CASE ~inv[i].preempt
  <2>1. inv[i].pc = "prepared" /\ inv' = At(i, "swept") /\ UNCHANGED <<guard, entry, ctl, sweep, history, tried, late>>
    BY <1>2 DEF Prepare
  <2>2. {"prepared", "swept"} \subseteq (Guarded \cap InvokePcs) \ Running
    BY DEF Guarded, Running, InvokePcs
  <2>. QED BY <2>1, <2>2, MovesOn
<1>. QED
  BY <1>1, <1>2

\* A registered token is a new one, and the last in the order.
LEMMA RegisterKeeps ==
  ASSUME RegInv, NEW i \in Invokes, Register(i)
  PROVE  RegInv'
<1>. PICK pc : pc = IF inv[i].resume THEN "replaying" ELSE "streaming"
  OBVIOUS
<1>. PICK u : u = TokenOf(i)
  OBVIOUS
<1>. PICK last : last = LastAt
  OBVIOUS
<1>. PICK e : e = [NoEntry EXCEPT !.at = last + 1]
  OBVIOUS
<1>1. /\ inv[i].pc = "swept" /\ entry' = [entry EXCEPT ![u] = e] /\ inv' = At(i, pc)
      /\ sweep' = [sweep EXCEPT ![i] = NoReport]
      /\ UNCHANGED <<guard, ctl, history, tried, late>>
  BY DEF Register
<1>2. pc \in InvokePcs /\ pc \in Running /\ pc \in Guarded /\ inv[i].pc \in Guarded
      /\ pc \notin {"recovering", "resolving", "deferring", "closing"}
  BY <1>1 DEF InvokePcs, Running, Guarded
<1>3. PICK k : Becomes(i, k) /\ k.pc = pc /\ k.attempt = inv[i].attempt /\ k.key = inv[i].key
  BY <1>1, <1>2, AtFacts
<1>4. u \in Token /\ u[1] = i /\ u = <<i, k.attempt>>
  BY <1>3, InvFacts
<1>5. last \in Nat /\ \A t \in Token : entry[t].at <= last
  BY LastAtIsNumber DEF RegInv
<1>6. e \in Entry /\ e.at = last + 1 /\ ~e.cancel /\ e.task = 0
  <2>1. last + 1 \in Nat /\ 0 \in 0 .. MaxTasks
    BY <1>5, InvokeBoundsAssumption
  <2>. QED BY <2>1 DEF NoEntry, Entry
<1>7. entry' \in [Token -> Entry] /\ entry'[u] = e /\ \A t \in Token : t # u => entry'[t] = entry[t]
  BY <1>1, <1>4, <1>6 DEF RegInv, RegTypeOK
<1>8. GuardStays(i, k)
  BY <1>1, <1>2, <1>3 DEF GuardStays
<1>9. EntryStep(i, k)
  <2>1. ASSUME NEW t \in Token, t[1] = i PROVE OwnEntry(t, i, k)
    <3>1. t # u => ~(entry'[t].at > 0)
      BY <1>1, <1>7, <2>1, PlacesFacts DEF RegInv, RegistryMatchesRuns, Registered
    <3>2. entry'[u].at > 0 /\ ~Due(u)'
      BY <1>5, <1>6, <1>7 DEF Due
    <3>. QED BY <1>2, <1>3, <1>4, <3>1, <3>2 DEF OwnEntry
  <2>2. ASSUME NEW t \in Token, t[1] # i PROVE OthersKept(t)
    BY <1>4, <1>7, <2>2 DEF OthersKept, Due
  <2>. QED BY <2>1, <2>2 DEF EntryStep
<1>10. HistoryGrows
  BY <1>1, <1>7 DEF HistoryGrows, RegInv, RegTypeOK
<1>11. OrderEnds'
  <2>1. last + 1 \in Nat /\ \A t \in Token : entry[t].at \in Nat
    BY <1>5 DEF RegInv, RegTypeOK, Entry
  <2>2. ASSUME NEW t \in Token PROVE entry'[t].at <= last + 1
    <3>1. entry[t].at <= last + 1
      BY <1>5, <2>1
    <3>2. entry'[t].at = last + 1 \/ entry'[t].at = entry[t].at
      BY <1>6, <1>7
    <3>. QED BY <2>1, <3>1, <3>2
  <2>. QED BY <2>1, <2>2 DEF OrderEnds
<1>12. NoteStep(i, k)
  BY <1>1, <1>2, <1>3, NotesStay
<1>13. WalkStep(i, k)
  <2>1. NoReport \in Report /\ pc # "sweeping"
    BY <1>2 DEF NoReport, Report
  <2>. QED BY <1>1, <1>3, <2>1 DEF WalkStep, RegInv, RegTypeOK
<1>. QED
  BY <1>3, <1>8, <1>9, <1>10, <1>11, <1>12, <1>13, InvokeMoves

-----------------------------------------------------------------------------
(***************************************************************************)
(* What is recorded in the history.                                        *)
(***************************************************************************)
\* The read.
LEMMA NoteReadKeeps ==
  ASSUME RegInv, NEW i \in Invokes, NoteRead(i)
  PROVE  RegInv'
<1>. PICK old : old = inv[i].note
  OBVIOUS
<1>. PICK seen : seen = history[old.event]
  OBVIOUS
<1>. PICK note : note = [old EXCEPT !.seen = seen]
  OBVIOUS
<1>. PICK k : k = [inv[i] EXCEPT !.note = note]
  OBVIOUS
<1>1. /\ inv[i].pc \in {"noting", "resolving"} /\ inv[i] \in Invocation /\ old \in Note
      /\ UNCHANGED <<guard, entry, ctl, sweep, history, tried, late>>
  BY InvFacts DEF NoteRead
<1>2. old.event \in Token
  BY <1>1, InvFacts DEF RegInv, NotesFit
<1>3. seen \in EventStatus
  BY <1>2 DEF RegInv, RegTypeOK
<1>4. note \in Note /\ note.event = old.event /\ note.status = old.status /\ note.seen = seen
  BY <1>1, <1>3 DEF Note
<1>5. k \in Invocation /\ k.pc = inv[i].pc /\ k.note = note /\ k.attempt = inv[i].attempt
      /\ k.key = inv[i].key
  BY <1>1, <1>4 DEF Invocation
<1>6. inv' = [inv EXCEPT ![i] = k]
  BY DEF NoteRead
<1>7. Becomes(i, k)
  BY <1>1, <1>5, <1>6 DEF Becomes
<1>8. GuardStays(i, k)
  BY <1>1, <1>5 DEF GuardStays
<1>9. EntryStep(i, k) /\ HistoryGrows /\ OrderEnds'
  BY <1>1, <1>5, <1>7, EntriesStay
<1>10. WalkStep(i, k)
  BY <1>1, <1>5, WalksStay
<1>11. NoteStep(i, k)
  BY <1>1, <1>2, <1>4, <1>5 DEF NoteStep, RegInv, RegTypeOK
<1>. QED
  BY <1>7, <1>8, <1>9, <1>10, <1>11, InvokeMoves

\* What the write may leave.
LEMMA WrittenFacts ==
  ASSUME RegInv, NEW i \in Invokes, inv[i].pc \in {"noting", "resolving"},
         inv[i].note.seen # "unread", NEW status \in StatusWritten(inv[i].note)
  PROVE  inv[i].note.event \in Token /\ status \in EventStatus
<1>. PICK n : n = inv[i].note
  OBVIOUS
<1>1. n \in Note /\ n.event \in Token
  BY InvFacts DEF RegInv, NotesFit
<1>2. n.status \in EventStatus /\ history[n.event] \in EventStatus
  BY <1>1 DEF Note, RegInv, RegTypeOK
<1>. QED
  BY <1>1, <1>2 DEF StatusWritten

\* The write.
LEMMA NoteWriteKeeps ==
  ASSUME RegInv, NEW i \in Invokes, NoteWrite(i)
  PROVE  RegInv'
<1>. PICK e : e = inv[i].note.event
  OBVIOUS
<1>. PICK next : next = AfterNote(i)
  OBVIOUS
<1>1. /\ inv[i].pc \in {"noting", "resolving"} /\ inv[i].note.seen # "unread"
      /\ UNCHANGED <<entry, ctl, sweep, tried, late>>
  BY DEF NoteWrite
<1>2. PICK status \in StatusWritten(inv[i].note) : history' = [history EXCEPT ![e] = status]
  BY DEF NoteWrite
<1>3. e \in Token /\ status \in EventStatus
  BY <1>1, WrittenFacts
<1>4. history' \in [Token -> EventStatus]
  BY <1>2, <1>3 DEF RegInv, RegTypeOK
<1>6. /\ {"noting", "resolving", "swept", "streaming", "over"} \subseteq InvokePcs
      /\ {"noting", "resolving", "swept", "streaming"} \subseteq Guarded
      /\ "over" \notin Guarded \cup Running /\ {"resolving", "streaming"} \subseteq Running
      /\ {"noting", "swept"} \cap (Running \cup {"gone"}) = {}
  BY DEF InvokePcs, Guarded, Running
<1>7. \/ next = "over" /\ inv[i].pc = "noting" /\ inv' = End(i, "over") /\ guard' = KeyReleased(i)
      \/ /\ next = (IF inv[i].pc = "resolving" THEN "streaming" ELSE "swept")
         /\ inv' = [inv EXCEPT ![i].pc = next, ![i].note = NoNote] /\ guard' = guard
  BY <1>1 DEF NoteWrite, AfterNote
<1>8. \E k : /\ Becomes(i, k) /\ k.attempt = inv[i].attempt /\ k.pc = next
             /\ GuardStays(i, k) \/ GuardGoes(i, k)
  <2>1. CASE next = "over" /\ inv[i].pc = "noting" /\ inv' = End(i, "over") /\ guard' = KeyReleased(i)
    <3>1. PICK k : Becomes(i, k) /\ k.pc = "over" /\ k.attempt = inv[i].attempt
      BY <1>6, <2>1, EndFacts
    <3>. QED BY <1>6, <2>1, <3>1 DEF GuardGoes
  <2>2. CASE /\ next = (IF inv[i].pc = "resolving" THEN "streaming" ELSE "swept")
             /\ inv' = [inv EXCEPT ![i].pc = next, ![i].note = NoNote] /\ guard' = guard
    <3>. PICK k : k = [inv[i] EXCEPT !.pc = next, !.note = NoNote]
      OBVIOUS
    <3>1. inv[i] \in Invocation /\ NoNote \in Note /\ next \in InvokePcs
      BY <1>6, <2>2, InvFacts DEF NoNote, Note, EventStatus
    <3>2. k \in Invocation /\ k.pc = next /\ k.attempt = inv[i].attempt /\ k.key = inv[i].key
      BY <3>1 DEF Invocation
    <3>3. inv' = [inv EXCEPT ![i] = k]
      BY <2>2 DEF RegInv, RegTypeOK
    <3>4. Becomes(i, k)
      BY <2>2, <3>2, <3>3 DEF Becomes
    <3>5. GuardStays(i, k)
      BY <1>1, <1>6, <2>2, <3>2 DEF GuardStays
    <3>. QED BY <3>2, <3>4, <3>5
  <2>. QED BY <1>7, <2>1, <2>2
<1>9. PICK k : /\ Becomes(i, k) /\ k.attempt = inv[i].attempt /\ k.pc = next
               /\ GuardStays(i, k) \/ GuardGoes(i, k)
  BY <1>8
<1>10. next \in {"over", "swept", "streaming"} /\ (next = "streaming" <=> inv[i].pc = "resolving")
  BY <1>1, <1>7
<1>11. EntryStep(i, k) /\ HistoryGrows /\ OrderEnds'
  BY <1>1, <1>6, <1>9, <1>10, EntriesStay
<1>12. WalkStep(i, k)
  BY <1>1, <1>9, <1>10, WalksStay
<1>13. NoteStep(i, k)
  BY <1>4, <1>9, <1>10 DEF NoteStep
<1>. QED
  BY <1>9, <1>11, <1>12, <1>13, InvokeMoves

\* The stream of a failed record ends.
LEMMA ClosingFacts ==
  ASSUME RegInv, NEW i \in Invokes, inv[i].pc \in {"streaming", "deferring", "resolving"},
         inv' = [inv EXCEPT ![i].pc = "closing", ![i].note = NoNote],
         UNCHANGED <<guard, entry, ctl, sweep, history, tried, late>>
  PROVE  RegInv'
<1>. PICK k : k = [inv[i] EXCEPT !.pc = "closing", !.note = NoNote]
  OBVIOUS
<1>1. inv[i] \in Invocation /\ NoNote \in Note
  BY InvFacts DEF NoNote, Note, EventStatus
<1>2. /\ "closing" \in InvokePcs \cap Guarded \cap Running
      /\ inv[i].pc \in Guarded \cap Running
  BY DEF InvokePcs, Guarded, Running
<1>3. k \in Invocation /\ k.pc = "closing" /\ k.attempt = inv[i].attempt /\ k.key = inv[i].key
  BY <1>1, <1>2 DEF Invocation
<1>4. Becomes(i, k)
  BY <1>3 DEF Becomes, RegInv, RegTypeOK
<1>5. GuardStays(i, k)
  BY <1>2, <1>3 DEF GuardStays
<1>6. EntryStep(i, k) /\ HistoryGrows /\ OrderEnds'
  BY <1>2, <1>3, <1>4, EntriesStay
<1>7. NoteStep(i, k) /\ WalkStep(i, k)
  BY <1>2, <1>3, <1>4, NotesStay, WalksStay
<1>. QED
  BY <1>4, <1>5, <1>6, <1>7, InvokeMoves

\* The transaction of a record fails.
LEMMA NoteFailsKeeps ==
  ASSUME RegInv, NEW i \in Invokes, NoteFails(i)
  PROVE  RegInv'
<1>1. CASE inv[i].pc = "noting"
  BY <1>1, EndsUnregistered, PlacesFacts DEF NoteFails
<1>2. CASE inv[i].pc = "resolving"
  BY <1>2, ClosingFacts DEF NoteFails
<1>. QED
  BY <1>1, <1>2 DEF NoteFails

\* The stream ends, or a deferred cancel of SSE is interrupted by its end.
LEMMA InvokeEndsKeeps ==
  ASSUME RegInv, NEW i \in Invokes, InvokeEnds(i)
  PROVE  RegInv'
BY ClosingFacts DEF InvokeEnds

-----------------------------------------------------------------------------
(***************************************************************************)
(* The stream.                                                             *)
(***************************************************************************)
\* The own entries of an invocation that leaves the registry.
LEMMA EntryLeaves ==
  ASSUME RegInv, NEW i \in Invokes, NEW k, Becomes(i, k), entry' = Without(TokenOf(i)),
         UNCHANGED <<tried, late>>, k.pc \notin Running
  PROVE  EntryStep(i, k) /\ HistoryGrows /\ OrderEnds'
<1>. PICK u : u = TokenOf(i)
  OBVIOUS
<1>1. u \in Token /\ u[1] = i
  BY InvFacts
<1>2. NoEntry \in Entry /\ NoEntry.at = 0
  BY InvokeBoundsAssumption DEF NoEntry, Entry
<1>3. entry' \in [Token -> Entry] /\ entry'[u] = NoEntry /\ \A t \in Token : t # u => entry'[t] = entry[t]
  BY <1>1, <1>2 DEF Without, RegInv, RegTypeOK
<1>4. HistoryGrows
  BY <1>3 DEF HistoryGrows, RegInv, RegTypeOK
<1>5. OrderEnds'
  <2>1. PICK n \in Nat : \A t \in Token : entry[t].at <= n
    BY DEF RegInv, OrderEnds
  <2>2. \A t \in Token : entry'[t].at <= n
    BY <1>2, <1>3, <2>1
  <2>. QED BY <2>2 DEF OrderEnds
<1>6. ASSUME NEW t \in Token, t[1] = i PROVE OwnEntry(t, i, k)
  <2>1. ~(entry'[t].at > 0)
    <3>1. CASE t = u
      BY <1>2, <1>3, <3>1
    <3>2. CASE t # u
      BY <1>3, <1>6, <3>2 DEF RegInv, RegistryMatchesRuns, Registered
    <3>. QED BY <3>1, <3>2
  <2>. QED BY <2>1 DEF OwnEntry
<1>7. ASSUME NEW t \in Token, t[1] # i PROVE OthersKept(t)
  BY <1>1, <1>3, <1>7 DEF OthersKept, Due
<1>. QED
  BY <1>4, <1>5, <1>6, <1>7 DEF EntryStep

\* A failed replay: of SSE, only the guard is released.
LEMMA ReplayAbortedKeeps ==
  ASSUME RegInv, NEW i \in Invokes, ReplayAborted(i)
  PROVE  RegInv'
<1>1. /\ inv[i].pc = "replaying" /\ guard' = KeyReleased(i)
      /\ UNCHANGED <<ctl, sweep, history, tried, late>>
  BY DEF ReplayAborted
<1>2. /\ {"replaying", "gone", "over"} \subseteq InvokePcs
      /\ "replaying" \in Guarded \cap Running
      /\ {"gone", "over"} \cap (Guarded \cup Running) = {}
  BY DEF InvokePcs, Guarded, Running
<1>3. CASE inv' = End(i, "gone") /\ entry' = entry
  <2>1. PICK k : Becomes(i, k) /\ k.pc = "gone" /\ k.attempt = inv[i].attempt
    BY <1>2, <1>3, EndFacts
  <2>2. GuardGoes(i, k)
    BY <1>1, <1>2, <2>1 DEF GuardGoes
  <2>3. EntryStep(i, k) /\ HistoryGrows /\ OrderEnds'
    BY <1>1, <1>2, <1>3, <2>1, EntriesStay
  <2>4. NoteStep(i, k) /\ WalkStep(i, k)
    BY <1>1, <1>2, <2>1, NotesStay, WalksStay
  <2>. QED BY <2>1, <2>2, <2>3, <2>4, InvokeMoves
<1>4. CASE inv' = End(i, "over") /\ entry' = Without(TokenOf(i))
  <2>1. PICK k : Becomes(i, k) /\ k.pc = "over" /\ k.attempt = inv[i].attempt
    BY <1>2, <1>4, EndFacts
  <2>2. GuardGoes(i, k)
    BY <1>1, <1>2, <2>1 DEF GuardGoes
  <2>3. EntryStep(i, k) /\ HistoryGrows /\ OrderEnds'
    BY <1>1, <1>2, <1>4, <2>1, EntryLeaves
  <2>4. NoteStep(i, k) /\ WalkStep(i, k)
    BY <1>1, <1>2, <2>1, NotesStay, WalksStay
  <2>. QED BY <2>1, <2>2, <2>3, <2>4, InvokeMoves
<1>. QED
  BY <1>3, <1>4 DEF ReplayAborted

\* The reader of a stream has gone: its key is released, its entry stays.
LEMMA AbandonKeeps ==
  ASSUME RegInv, NEW i \in Invokes, Abandon(i)
  PROVE  RegInv'
<1>1. /\ inv[i].pc = "streaming" /\ inv' = At(i, "abandoned") /\ guard' = KeyReleased(i)
      /\ UNCHANGED <<entry, ctl, sweep, history, tried, late>>
  BY DEF Abandon
<1>2. /\ {"streaming", "abandoned"} \subseteq InvokePcs \cap Running
      /\ "streaming" \in Guarded /\ "abandoned" \notin Guarded
  BY DEF InvokePcs, Guarded, Running
<1>3. PICK k : Becomes(i, k) /\ k.pc = "abandoned" /\ k.attempt = inv[i].attempt
  BY <1>1, <1>2, AtFacts
<1>4. GuardGoes(i, k)
  BY <1>1, <1>2, <1>3 DEF GuardGoes
<1>5. EntryStep(i, k) /\ HistoryGrows /\ OrderEnds'
  BY <1>1, <1>2, <1>3, EntriesStay
<1>6. NoteStep(i, k) /\ WalkStep(i, k)
  BY <1>1, <1>2, <1>3, NotesStay, WalksStay
<1>. QED
  BY <1>3, <1>4, <1>5, <1>6, InvokeMoves

\* Whatever has ended the stream, it is unregistered.
LEMMA FinalizeKeeps ==
  ASSUME RegInv, NEW i \in Invokes, Finalize(i)
  PROVE  RegInv'
<1>. PICK pc : pc = IF inv[i].pc = "abandoned" THEN "over" ELSE "leaving"
  OBVIOUS
<1>1. /\ inv[i].pc \in {"closing", "abandoned"} /\ entry' = Without(TokenOf(i))
      /\ UNCHANGED <<guard, ctl, sweep, history, tried, late>>
  BY DEF Finalize
<1>2. /\ {"closing", "abandoned", "over", "leaving"} \subseteq InvokePcs
      /\ {"closing", "leaving"} \subseteq Guarded /\ {"abandoned", "over"} \cap Guarded = {}
      /\ {"over", "leaving"} \cap (Running) = {}
  BY DEF InvokePcs, Guarded, Running
<1>3. \E k : /\ Becomes(i, k) /\ k.pc = pc /\ k.attempt = inv[i].attempt
             /\ pc = "leaving" => k.key = inv[i].key
  <2>1. CASE inv[i].pc = "abandoned"
    BY <1>2, <2>1, EndFacts DEF Finalize
  <2>2. CASE inv[i].pc # "abandoned"
    BY <1>2, <2>2, AtFacts DEF Finalize
  <2>. QED BY <2>1, <2>2
<1>4. PICK k : /\ Becomes(i, k) /\ k.pc = pc /\ k.attempt = inv[i].attempt
               /\ pc = "leaving" => k.key = inv[i].key
  BY <1>3
<1>5. GuardStays(i, k)
  BY <1>1, <1>2, <1>4 DEF GuardStays
<1>6. EntryStep(i, k) /\ HistoryGrows /\ OrderEnds'
  BY <1>1, <1>2, <1>4, EntryLeaves
<1>7. NoteStep(i, k) /\ WalkStep(i, k)
  BY <1>1, <1>2, <1>4, NotesStay, WalksStay
<1>. QED
  BY <1>4, <1>5, <1>6, <1>7, InvokeMoves

\* A bound task whose cancel was requested is cancelled before anything else is streamed.
LEMMA TaskSeenKeeps ==
  ASSUME RegInv, NEW i \in Invokes, TaskSeen(i)
  PROVE  RegInv'
<1>. PICK u : u = TokenOf(i)
  OBVIOUS
<1>. PICK due : due = (entry[u].at > 0 /\ entry[u].cancel)
  OBVIOUS
<1>. PICK seen : seen = inv[i].seen + 1
  OBVIOUS
<1>. PICK event : event = IF due THEN entry[u].event ELSE inv[i].note.event
  OBVIOUS
<1>. PICK note : note = [inv[i].note EXCEPT !.event = event]
  OBVIOUS
<1>. PICK pc : pc = IF due THEN "deferring" ELSE "streaming"
  OBVIOUS
<1>. PICK k : k = [inv[i] EXCEPT !.seen = seen, !.pc = pc, !.note = note]
  OBVIOUS
<1>1. /\ inv[i].pc = "streaming" /\ inv[i].seen < MaxTasks
      /\ entry' = IF entry[u].at > 0 THEN [entry EXCEPT ![u].task = seen] ELSE entry
      /\ UNCHANGED <<guard, ctl, sweep, history, tried, late>>
  BY DEF TaskSeen
<1>2. /\ inv[i] \in Invocation /\ inv[i].note \in Note /\ u \in Token /\ u[1] = i
      /\ entry[u] \in Entry /\ entry \in [Token -> Entry]
  BY InvFacts DEF RegInv, RegTypeOK
<1>3. seen \in 0 .. MaxTasks
  BY <1>1, <1>2, InvokeBoundsAssumption DEF Invocation
<1>4. note \in Note
  BY <1>2 DEF Note, Entry
<1>5. /\ {"streaming", "deferring"} \subseteq InvokePcs \cap Guarded \cap Running
  BY DEF InvokePcs, Guarded, Running
<1>6. k \in Invocation /\ k.pc = pc /\ k.attempt = inv[i].attempt /\ k.key = inv[i].key
  BY <1>2, <1>3, <1>4, <1>5 DEF Invocation
<1>7. inv' = [inv EXCEPT ![i] = k]
  <2>1. inv' = [inv EXCEPT ![i].seen = seen, ![i].pc = pc, ![i].note.event = event]
    BY <1>1 DEF TaskSeen
  <2>2. inv \in [Invokes -> Invocation]
    BY DEF RegInv, RegTypeOK
  <2>. QED BY ONLY <2>1, <2>2, i \in Invokes, k = [inv[i] EXCEPT !.seen = seen, !.pc = pc, !.note = note],
               note = [inv[i].note EXCEPT !.event = event]
<1>8. Becomes(i, k)
  BY <1>6, <1>7 DEF Becomes
<1>9. GuardStays(i, k)
  BY <1>1, <1>5, <1>6 DEF GuardStays
<1>10. /\ entry' \in [Token -> Entry] /\ entry'[u].at = entry[u].at /\ entry'[u].cancel = entry[u].cancel
       /\ \A t \in Token : t # u => entry'[t] = entry[t]
  <2>. PICK e : e = [entry[u] EXCEPT !.task = seen]
    OBVIOUS
  <2>1. e \in Entry /\ e.at = entry[u].at /\ e.cancel = entry[u].cancel
    BY <1>2, <1>3 DEF Entry
  <2>2. entry' = entry \/ entry' = [entry EXCEPT ![u] = e]
    BY <1>1
  <2>. QED BY <1>2, <2>1, <2>2
<1>11. HistoryGrows
  BY <1>1, <1>10 DEF HistoryGrows, RegInv, RegTypeOK
<1>12. OrderEnds'
  <2>1. PICK n \in Nat : \A t \in Token : entry[t].at <= n
    BY DEF RegInv, OrderEnds
  <2>2. \A t \in Token : entry'[t].at <= n
    BY <1>10, <2>1
  <2>. QED BY <2>2 DEF OrderEnds
<1>13. EntryStep(i, k)
  <2>1. ASSUME NEW t \in Token, t[1] = i PROVE OwnEntry(t, i, k)
    <3>1. entry'[t].at > 0 => t = u
      BY <1>2, <1>10, <2>1 DEF RegInv, RegistryMatchesRuns, Registered
    <3>2. entry'[u].at > 0 /\ Due(u)' => due
      BY <1>10 DEF Due
    <3>3. due => k.pc = "deferring"
      BY <1>6
    <3>4. entry'[u].at > 0 \/ u \in tried'
      BY <1>1, <1>2, <1>5, <1>10 DEF RegInv, RegistryMatchesRuns, Registered
    <3>5. u = <<i, k.attempt>> /\ k.pc \in Running
      BY <1>5, <1>6 DEF TokenOf
    <3>. QED BY <3>1, <3>2, <3>3, <3>4, <3>5 DEF OwnEntry
  <2>2. ASSUME NEW t \in Token, t[1] # i PROVE OthersKept(t)
    BY <1>2, <1>10, <2>2 DEF OthersKept, Due
  <2>. QED BY <2>1, <2>2 DEF EntryStep
<1>14. NoteStep(i, k) /\ WalkStep(i, k)
  <2>1. k.pc \in {"streaming", "deferring"} /\ k.attempt = inv[i].attempt
    BY <1>5, <1>6
  <2>2. history' = history /\ ctl' = ctl /\ sweep' = sweep
    BY <1>1
  <2>3. NoteStep(i, k)
    BY <1>8, <2>1, <2>2, NotesStay
  <2>. QED BY <2>1, <2>2, <2>3, WalksStay
<1>. QED
  BY <1>8, <1>9, <1>11, <1>12, <1>13, <1>14, InvokeMoves

\* The deferred cancel was tried; the interrupter's event is to be resolved.
LEMMA DeferredReturnsKeeps ==
  ASSUME RegInv, NEW i \in Invokes, NEW outcome \in Outcomes, DeferredReturns(i, outcome)
  PROVE  RegInv'
<1>. PICK u : u = TokenOf(i)
  OBVIOUS
<1>1. /\ inv[i].pc = "deferring" /\ tried' = tried \cup {u} /\ entry' = AfterCancel(u, outcome)
      /\ UNCHANGED <<guard, ctl, sweep, history, late>>
  BY DEF DeferredReturns
<1>2. /\ inv[i] \in Invocation /\ inv[i].note \in Note /\ u \in Token /\ u[1] = i
      /\ entry \in [Token -> Entry]
  BY InvFacts DEF RegInv, RegTypeOK
<1>3. /\ {"streaming", "deferring", "resolving"} \subseteq InvokePcs \cap Guarded \cap Running
  BY DEF InvokePcs, Guarded, Running
<1>4. \E k : /\ Becomes(i, k) /\ k.attempt = inv[i].attempt /\ k.key = inv[i].key
             /\ \/ k.pc = "streaming"
                \/ k.pc = "resolving" /\ k.note.event \in Token
  <2>1. CASE inv[i].note.event = NoToken
    <3>1. inv' = At(i, "streaming")
      BY <2>1 DEF DeferredReturns
    <3>. QED BY <1>3, <3>1, AtFacts
  <2>2. CASE inv[i].note.event # NoToken
    <3>. PICK status : status = IF outcome = "error" THEN "failed" ELSE "completed"
      OBVIOUS
    <3>. PICK note : note = [inv[i].note EXCEPT !.status = status]
      OBVIOUS
    <3>. PICK k : k = [inv[i] EXCEPT !.pc = "resolving", !.note = note]
      OBVIOUS
    <3>1. inv' = [inv EXCEPT ![i].pc = "resolving", ![i].note.status = status]
      BY <2>2 DEF DeferredReturns
    <3>2. inv' = [inv EXCEPT ![i] = k]
      BY <3>1 DEF RegInv, RegTypeOK
    <3>3. note \in Note /\ note.event = inv[i].note.event
          /\ inv[i].note.event \in Token
      BY <1>2, <2>2 DEF Note, EventStatus
    <3>4. k \in Invocation /\ k.pc = "resolving" /\ k.note = note /\ k.attempt = inv[i].attempt
          /\ k.key = inv[i].key
      BY <1>2, <1>3, <3>3 DEF Invocation
    <3>5. Becomes(i, k)
      BY <3>2, <3>4 DEF Becomes
    <3>6. /\ k.pc = "resolving" /\ k.note.event \in Token
          /\ k.attempt = inv[i].attempt /\ k.key = inv[i].key
      BY <3>3, <3>4
    <3>. QED BY <3>5, <3>6
  <2>. QED BY <2>1, <2>2
<1>5. PICK k : /\ Becomes(i, k) /\ k.attempt = inv[i].attempt /\ k.key = inv[i].key
               /\ \/ k.pc = "streaming"
                  \/ k.pc = "resolving" /\ k.note.event \in Token
  BY <1>4
<1>6. GuardStays(i, k)
  BY <1>1, <1>3, <1>5 DEF GuardStays
<1>7. NoEntry \in Entry /\ NoEntry.at = 0
  BY InvokeBoundsAssumption DEF NoEntry, Entry
<1>8. /\ entry' \in [Token -> Entry] /\ \A t \in Token : t # u => entry'[t] = entry[t]
      /\ entry'[u] = entry[u] \/ entry'[u] = NoEntry
  BY <1>1, <1>2, <1>7 DEF AfterCancel, Without
<1>9. HistoryGrows
  BY <1>1, <1>2, <1>8 DEF HistoryGrows, RegInv, RegTypeOK
<1>10. OrderEnds'
  <2>1. PICK n \in Nat : \A t \in Token : entry[t].at <= n
    BY DEF RegInv, OrderEnds
  <2>2. \A t \in Token : entry'[t].at <= n
    BY <1>7, <1>8, <2>1
  <2>. QED BY <2>2 DEF OrderEnds
<1>11. EntryStep(i, k)
  <2>1. ASSUME NEW t \in Token, t[1] = i PROVE OwnEntry(t, i, k)
    <3>1. entry'[t].at > 0 => t = u
      BY <1>2, <1>8, <2>1 DEF RegInv, RegistryMatchesRuns, Registered
    <3>2. u \in tried' /\ u = <<i, k.attempt>> /\ k.pc \in Running
      BY <1>1, <1>3, <1>5 DEF TokenOf
    <3>. QED BY <3>1, <3>2 DEF OwnEntry
  <2>2. ASSUME NEW t \in Token, t[1] # i PROVE OthersKept(t)
    BY <1>2, <1>8, <2>2 DEF OthersKept, Due
  <2>. QED BY <2>1, <2>2 DEF EntryStep
<1>12. WalkStep(i, k)
  BY <1>1, <1>5, WalksStay
<1>13. NoteStep(i, k)
  BY <1>1, <1>5 DEF NoteStep, RegInv, RegTypeOK
<1>. QED
  BY <1>5, <1>6, <1>9, <1>10, <1>11, <1>12, <1>13, InvokeMoves

-----------------------------------------------------------------------------
\* The steps of an invocation keep the invariant.
LEMMA InvokeKeeps ==
  ASSUME RegInv, NEW i \in Invokes, Invoke(i)
  PROVE  RegInv'
<1>1. CASE Advance(i)
  <2>1. ASSUME NEW outcome \in Outcomes, InvokeCancelReturns(i, outcome) PROVE RegInv'
    <3>1. Waits(i) /\ i \in Actors /\ CancelReturns(i, outcome)
      BY <2>1, ActorsAssumption DEF InvokeCancelReturns, Waits, Actors
    <3>. QED BY <3>1, CancelReturnsKeeps
  <2>. QED
    BY <1>1, <2>1, PrepareKeeps, RegisterKeeps, NoteReadKeeps, NoteWriteKeeps, NoteFailsKeeps,
       FinalizeKeeps, LeaveKeeps, DeferredReturnsKeeps DEF Advance
<1>2. ASSUME NEW kind \in InvokeKinds, NEW key \in Keys \cup {NoKey},
             NEW preempt \in BOOLEAN, NEW resume \in BOOLEAN, BeginAttempt(i, kind, key, preempt, resume)
      PROVE  RegInv'
  BY <1>2, BeginKeeps
<1>. QED
  BY <1>1, <1>2, PrepareFailsKeeps, ReplayEndsKeeps, ReplayAbortedKeeps, TaskSeenKeeps,
     InvokeEndsKeeps, AbandonKeeps, RecoverSessionKeeps, RetryAttemptKeeps DEF Invoke

\* The steps of a control request do.
LEMMA ControlKeeps ==
  ASSUME RegInv, NEW c \in Controls,
         ControlRequest(c) \/ \E outcome \in Outcomes : ControlCancelReturns(c, outcome)
  PROVE  RegInv'
<1>1. c \in Actors /\ (c \in Invokes => FALSE)
  BY ActorsAssumption DEF Actors
<1>2. CASE ControlRequest(c)
  BY <1>1, <1>2, ListKeeps DEF ControlRequest
<1>3. ASSUME NEW outcome \in Outcomes, ControlCancelReturns(c, outcome) PROVE RegInv'
  <2>1. Waits(c) /\ CancelReturns(c, outcome)
    BY <1>3 DEF ControlCancelReturns, Waits
  <2>. QED BY <1>1, <2>1, CancelReturnsKeeps
<1>. QED
  BY <1>2, <1>3

\* The invariant is inductive.
LEMMA RegInvNext == RegInv /\ [RegNext]_regVars => RegInv'
<1>. SUFFICES ASSUME RegInv, [RegNext]_regVars PROVE RegInv'
  OBVIOUS
<1>1. CASE UNCHANGED regVars
  <2>1. UNCHANGED <<guard, entry, inv, ctl, sweep, history, tried, late>>
    BY <1>1 DEF regVars
  <2>. QED
    BY <2>1 DEF RegInv, RegTypeOK, AttemptsLeft, WalksReady, Waits, OrderEnds, NotesFit, TokenOf,
                GuardMatchesHolders, Holders, RegistryMatchesRuns, DeferredCancelSent, Registered
<1>. QED
  BY <1>1, InvokeKeeps, ControlKeeps DEF RegNext

-----------------------------------------------------------------------------
\* The guard, the registry, the walks and the history keep their types.
THEOREM RegistryTypesKept == RegSpec => []RegTypeOK
<1>1. RegInv => RegTypeOK
  BY DEF RegInv
<1>. QED
  BY <1>1, RegInvInit, RegInvNext, PTL DEF RegSpec

\* A guard key is held while exactly one invocation with that query is at work: for any
\* number of requests that fail, are retried, interrupted or abandoned by their readers.
THEOREM GuardHeldByOne == RegSpec => []GuardMatchesHolders
<1>1. RegInv => GuardMatchesHolders
  BY DEF RegInv
<1>. QED
  BY <1>1, RegInvInit, RegInvNext, PTL DEF RegSpec

\* The registry has the current attempts of the invocations that run, those that a cancel
\* was tried for perhaps excepted, and of no others but those lost in a failed replay.
THEOREM RegistryIsRuns == RegSpec => []RegistryMatchesRuns
<1>1. RegInv => RegistryMatchesRuns
  BY DEF RegInv
<1>. QED
  BY <1>1, RegInvInit, RegInvNext, PTL DEF RegSpec

\* A cancel that had to wait for the task is sent when it is bound, before the stream
\* goes on, unless the stream ends first.
THEOREM DeferredCancelsSent == RegSpec => []DeferredCancelSent
<1>1. RegInv => DeferredCancelSent
  BY DEF RegInv
<1>. QED
  BY <1>1, RegInvInit, RegInvNext, PTL DEF RegSpec

===============================================================================
