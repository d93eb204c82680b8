------------------------- MODULE HubAssistant_proofs -------------------------
(***************************************************************************)
(* Proofs about the two components of the Hub Assistant: AssistantRuntime, *)
(* for every set of operations, runs, requests and replies, and            *)
(* HubAssistantTasks, for every number of watches, jobs, conversations and *)
(* scans, every batch size and every number of messages.                   *)
(*                                                                         *)
(* Runtime: what the user has granted travels from a reply to the state in *)
(* memory, to the task and to the run that continues it; the invariant     *)
(* follows it there (AnswersGranted, TasksGranted, RunsGranted).  That a   *)
(* run with all write tools is not started by mistake needs that a         *)
(* continuation is never started with nothing: service.py takes an empty   *)
(* set for "all".                                                          *)
(*                                                                         *)
(* Tasks: the inductive invariant adds two facts the properties do not     *)
(* state: the tasks of one batch are distinct (a settled task is then no   *)
(* longer held), and a task held in good faith is marked running (a        *)
(* waiting one is held by nobody).                                         *)
(***************************************************************************)
EXTENDS AssistantRuntime, HubAssistantTasks, TLAPS

-----------------------------------------------------------------------------
(* The runtime *)

RunRecord ==
  [pc : {"idle", "lock", "ask", "store", "error", "complete", "fail"},
   for : Permissions \cup {NoPermission}, state : 0 .. MaxStates, allow : BOOLEAN,
   approved : SUBSET Ops, allowed : SUBSET Ops, enabled : BOOLEAN, wants : SUBSET Ops]
AnswerRecord ==
  [pc : {"idle", "lock", "event", "commit"}, to : Permissions \cup {NoPermission},
   reply : {"once", "always", "reject"}, state : 0 .. MaxStates, approved : SUBSET Ops,
   seen : BOOLEAN]
AskRecord ==
  [stage : {"free", "asked"}, ops : SUBSET Ops,
   resolution : {"none", "replied", "rejected", "expired"}, expired : BOOLEAN]
TaskRecord ==
  [status : {"absent", "waiting", "running", "completed", "failed"}, approved : SUBSET Ops]

RuntimeTypes ==
  /\ memory \in [States -> [delegated : SUBSET Ops, auto : SUBSET Ops]]
  /\ lastState \in 0 .. MaxStates /\ registered \in 0 .. lastState
  /\ lock \in [States -> Runs \cup {NoOne}]
  /\ exec \in [Runs -> RunRecord]
  /\ ask \in [Permissions -> AskRecord]
  /\ task \in [Permissions -> TaskRecord]
  /\ message \in [Permissions -> {"none", "streaming", "done", "interrupted", "error"}]
  /\ answer \in [Repliers -> AnswerRecord]
  /\ runsLeft \in 0 .. MaxTurns
  /\ once \in SUBSET Ops /\ standing \in SUBSET Ops /\ opened \in BOOLEAN /\ unsaved \in SUBSET Permissions

\* A run at work has a state; the handler of failures serves continuations.
RunsPlaced ==
  \A r \in Runs :
    /\ exec[r].pc # "idle" => exec[r].state \in States
    /\ exec[r].pc \in {"error", "complete", "fail"} => exec[r].for \in Permissions
    /\ exec[r].for \in Permissions => task[exec[r].for].status # "absent"

\* A request that has been made asks for something.
AsksForSomething == \A q \in Permissions : ask[q].stage = "asked" => ask[q].ops # {}

AnswersPlaced ==
  \A p \in Repliers :
    /\ answer[p].pc # "idle" => answer[p].to \in Permissions /\ ask[answer[p].to].stage = "asked"
    /\ answer[p].pc = "lock" => answer[p].state \in States
    /\ answer[p].pc \in {"event", "commit"} /\ answer[p].reply # "reject" => answer[p].approved # {}

\* What the user has said "once" or "always" to.
Granted == once \cup standing
USE DEF Granted

AnswersGranted ==
  \A p \in Repliers :
    ~opened => answer[p].approved \subseteq Granted

TasksGranted ==
  \A q \in Permissions :
    /\ task[q].status # "absent" => task[q].approved # {}
    /\ ~opened => task[q].approved \subseteq Granted

RunsGranted ==
  \A r \in Runs :
    /\ exec[r].for = NoPermission => exec[r].approved = {}
    /\ ~opened => exec[r].approved \subseteq Granted
    /\ ~opened /\ exec[r].allow => exec[r].approved # {}

\* A continuation about to be settled has ended its message, unless that failed.
MessageEnded ==
  \A r \in Runs : exec[r].pc \in {"complete", "fail"} /\ exec[r].for \notin unsaved =>
    message[exec[r].for] # "streaming"

RuntimeInv ==
  /\ RuntimeTypes /\ RunsPlaced /\ AsksForSomething /\ AnswersPlaced
  /\ AnswersGranted /\ TasksGranted /\ RunsGranted /\ NothingUngranted
  /\ MessageEnded /\ ContinuationSettled


-----------------------------------------------------------------------------
\* Nothing is in memory, asked for or running at first.
LEMMA RuntimeInvInit == AssistantInit => RuntimeInv
<1>. SUFFICES ASSUME AssistantInit PROVE RuntimeInv
  OBVIOUS
<1>. USE AssistantAssumption DEF AssistantInit, Blank, NoAsk, IdleRun, IdleAnswer
<1>1. RuntimeTypes
  <2>1. 0 \in 0 .. MaxStates /\ MaxTurns \in 0 .. MaxTurns /\ 0 \in 0 .. 0
    OBVIOUS
  <2>2. IdleRun \in RunRecord
    BY <2>1 DEF RunRecord
  <2>3. IdleAnswer \in AnswerRecord
    BY <2>1 DEF AnswerRecord
  <2>4. NoAsk \in AskRecord /\ [status |-> "absent", approved |-> {}] \in TaskRecord
    BY DEF AskRecord, TaskRecord
  <2>. QED BY <2>1, <2>2, <2>3, <2>4 DEF RuntimeTypes
<1>2. RunsPlaced /\ AsksForSomething /\ AnswersPlaced
  BY DEF RunsPlaced, AsksForSomething, AnswersPlaced
<1>3. AnswersGranted /\ TasksGranted /\ RunsGranted
  BY DEF AnswersGranted, TasksGranted, RunsGranted
<1>4. NothingUngranted /\ MessageEnded /\ ContinuationSettled
  BY DEF NothingUngranted, MessageEnded, ContinuationSettled
<1>. QED
  BY <1>1, <1>2, <1>3, <1>4 DEF RuntimeInv

\* A lookup leaves the registered state one of those created.
LEMMA FoundType ==
  ASSUME RuntimeTypes, NEW g, Found(g)
  PROVE  /\ lastState' \in 0 .. MaxStates /\ registered' \in 0 .. lastState'
         /\ g \in States
BY AssistantAssumption DEF RuntimeTypes, Found, States

\* The steps of a run start here: of a message (allow), or of a continuation.
LEMMA BeginKeeps ==
  ASSUME RuntimeInv, NEW r \in Runs, NEW g \in States, NEW q \in Permissions \cup {NoPermission},
         NEW allow \in BOOLEAN, NEW approved \in SUBSET Ops,
         BeginRun(r, g, q, allow, approved),
         \/ /\ q = NoPermission /\ approved = {} /\ task' = task /\ opened' = (opened \/ allow)
         \/ /\ q \in Permissions /\ task[q].status = "waiting" /\ approved = task[q].approved
            /\ allow /\ task' = [task EXCEPT ![q].status = "running"] /\ opened' = opened
  PROVE  RuntimeInv'
<1>. DEFINE new == [IdleRun EXCEPT !.pc = "lock", !.for = q, !.state = g,
                                  !.allow = allow, !.approved = approved]
<1>1. /\ exec' = [exec EXCEPT ![r] = new] /\ runsLeft > 0 /\ runsLeft' = runsLeft - 1 /\ Found(g)
      /\ UNCHANGED <<memory, lock, ask, message, answer, once, standing, unsaved>>
  BY DEF BeginRun
<1>2. new \in RunRecord /\ new.pc = "lock" /\ new.for = q /\ new.state = g /\ new.allow = allow
      /\ new.approved = approved /\ new.allowed = {}
  <2>1. g \in 0 .. MaxStates
    BY AssistantAssumption DEF States
  <2>. QED BY <2>1 DEF IdleRun, RunRecord
<1>. HIDE DEF new
<1>2a. task \in [Permissions -> TaskRecord]
  BY DEF RuntimeInv, RuntimeTypes
<1>3. /\ task' \in [Permissions -> TaskRecord]
      /\ \A i \in Permissions : task'[i].approved = task[i].approved
                               /\ (task[i].status = "absent" <=> task'[i].status = "absent")
                               /\ (task'[i].status \in {"completed", "failed"} => task[i].status = task'[i].status)
  <2>1. CASE task' = task
    BY <1>2a, <2>1
  <2>2. CASE q \in Permissions /\ task[q].status = "waiting" /\ task' = [task EXCEPT ![q].status = "running"]
    <3>1. [task[q] EXCEPT !.status = "running"] \in TaskRecord /\ task[q] \in TaskRecord
      BY <1>2a, <2>2 DEF TaskRecord
    <3>2. task' = [task EXCEPT ![q] = [task[q] EXCEPT !.status = "running"]]
      BY <2>2
    <3>. QED BY <1>2a, <2>2, <3>1, <3>2 DEF TaskRecord
  <2>. QED BY <2>1, <2>2
<1>4. /\ exec'[r] = new /\ \A s \in Runs : s # r => exec'[s] = exec[s]
      /\ opened' \in BOOLEAN /\ (~opened' => ~opened)
  BY <1>1 DEF RuntimeInv, RuntimeTypes
<1>5. RuntimeTypes'
  BY <1>1, <1>2, <1>3, <1>4, FoundType, AssistantAssumption DEF RuntimeInv, RuntimeTypes
<1>6. RunsPlaced'
  BY <1>2, <1>3, <1>4, AssistantAssumption DEF RuntimeInv, RunsPlaced
<1>7. AsksForSomething' /\ AnswersPlaced' /\ AnswersGranted'
  BY <1>1, <1>4 DEF RuntimeInv, AsksForSomething, AnswersPlaced, AnswersGranted
<1>8. TasksGranted' /\ NothingUngranted'
  BY <1>1, <1>2, <1>3, <1>4 DEF RuntimeInv, TasksGranted, NothingUngranted
<1>9. RunsGranted'
  <2>1. ~opened' => approved \subseteq Granted /\ (allow => approved # {})
    BY <1>4 DEF RuntimeInv, TasksGranted
  <2>. QED BY <2>1, <1>1, <1>2, <1>4, AssistantAssumption DEF RuntimeInv, RunsGranted
<1>10. MessageEnded' /\ ContinuationSettled'
  BY <1>1, <1>2, <1>3, <1>4 DEF RuntimeInv, MessageEnded, ContinuationSettled
<1>. QED
  BY <1>5, <1>6, <1>7, <1>8, <1>9, <1>10 DEF RuntimeInv

\* Requests keep what they ask for; those made ask for something.
AskKept ==
  /\ ask' \in [Permissions -> AskRecord]
  /\ \A q \in Permissions :
       /\ ask[q].stage = "asked" => ask'[q].stage = "asked" /\ ask'[q].ops = ask[q].ops
       /\ ask'[q].stage = "asked" => ask'[q].ops # {}

\* Messages that change are no longer being written.
MessagesEnd ==
  /\ message' \in [Permissions -> {"none", "streaming", "done", "interrupted", "error"}]
  /\ \A q \in Permissions : message'[q] = message[q] \/ message'[q] # "streaming"
  /\ unsaved' \in SUBSET Permissions /\ unsaved \subseteq unsaved'

\* The states in memory have nothing that was not granted.
MemoryKept ==
  /\ memory' \in [States -> [delegated : SUBSET Ops, auto : SUBSET Ops]]
  /\ ~opened => \A g \in States :
       memory'[g].auto \subseteq standing' /\ memory'[g].delegated \subseteq Granted'

\* The run r becomes k, and learns nothing but what it is allowed.
RunBecomes(r, k) ==
  /\ exec' = [exec EXCEPT ![r] = k] /\ k \in RunRecord
  /\ k = IdleRun \/ (k.approved = exec[r].approved /\ k.allow = exec[r].allow /\ k.for = exec[r].for
                     /\ k.state = exec[r].state /\ exec[r].pc # "idle")
  /\ k.pc \in {"error", "complete", "fail"} => k.for \in Permissions
  /\ k.pc \in {"complete", "fail"} /\ k.for \notin unsaved' => message'[k.for] # "streaming"
  /\ ~opened => k.allowed \subseteq IF k.for = NoPermission THEN standing ELSE Granted

\* A run is in no state to start with.
LEMMA IdleRunFacts ==
  /\ IdleRun \in RunRecord /\ IdleRun.pc = "idle" /\ IdleRun.approved = {} /\ IdleRun.allowed = {}
  /\ ~IdleRun.allow /\ IdleRun.for = NoPermission /\ NoPermission \notin Permissions
<1>1. 0 \in 0 .. MaxStates
  BY AssistantAssumption
<1>. QED
  BY <1>1, AssistantAssumption DEF IdleRun, RunRecord

\* A step of a run that settles no task.
LEMMA RunMoves ==
  ASSUME RuntimeInv, NEW r \in Runs, NEW k, RunBecomes(r, k), AskKept, MessagesEnd, MemoryKept,
         lock' \in [States -> Runs \cup {NoOne}],
         UNCHANGED <<registered, lastState, task, answer, runsLeft, once, standing, opened>>
  PROVE  RuntimeInv'
<1>. USE DEF RuntimeInv
<1>1. /\ exec'[r] = k /\ \A s \in Runs : s # r => exec'[s] = exec[s]
      /\ k \in RunRecord
  BY DEF RuntimeTypes, RunBecomes
<1>2. RuntimeTypes'
  BY DEF RuntimeTypes, RunBecomes, AskKept, MessagesEnd, MemoryKept
<1>3. RunsPlaced'
  BY <1>1, IdleRunFacts DEF RunsPlaced, RunBecomes
<1>4. AsksForSomething' /\ AnswersPlaced' /\ AnswersGranted' /\ TasksGranted'
  BY DEF AsksForSomething, AnswersPlaced, AnswersGranted, TasksGranted, AskKept
<1>5. RunsGranted'
  BY <1>1, IdleRunFacts DEF RunsGranted, RunBecomes
<1>6. NothingUngranted'
  BY <1>1 DEF NothingUngranted, RunBecomes, MemoryKept
<1>7. MessageEnded'
  <2>1. ASSUME NEW s \in Runs, s # r, exec'[s].pc \in {"complete", "fail"}, exec'[s].for \notin unsaved'
        PROVE  message'[exec'[s].for] # "streaming"
    BY <1>1, <2>1 DEF MessageEnded, MessagesEnd, RunsPlaced
  <2>. QED BY <1>1, <2>1 DEF MessageEnded, RunBecomes
<1>8. ContinuationSettled'
  BY DEF ContinuationSettled, MessagesEnd
<1>. QED
  BY <1>2, <1>3, <1>4, <1>5, <1>6, <1>7, <1>8

\* What does not change is kept.
LEMMA Unmoved ==
  ASSUME RuntimeInv
  PROVE  /\ ask' = ask => AskKept
         /\ message' = message /\ unsaved' = unsaved => MessagesEnd
         /\ UNCHANGED <<memory, once, standing>> => MemoryKept
<1>. USE DEF RuntimeInv, RuntimeTypes
<1>1. ASSUME ask' = ask PROVE AskKept
  BY <1>1 DEF AskKept, AsksForSomething
<1>2. ASSUME message' = message, unsaved' = unsaved PROVE MessagesEnd
  BY <1>2 DEF MessagesEnd
<1>3. ASSUME UNCHANGED <<memory, once, standing>> PROVE MemoryKept
  BY <1>3 DEF MemoryKept, NothingUngranted
<1>. QED
  BY <1>1, <1>2, <1>3

\* The run and its state, when it is at work.
LEMMA AtWork ==
  ASSUME RuntimeInv, NEW r \in Runs, exec[r].pc # "idle"
  PROVE  /\ exec[r] \in RunRecord /\ exec[r].state \in States
         /\ memory[exec[r].state] \in [delegated : SUBSET Ops, auto : SUBSET Ops]
BY DEF RuntimeInv, RuntimeTypes, RunsPlaced

\* The session gets the operations the run may use: granted ones, unless the user has
\* started a run with all of them.
LEMMA AcquireKeeps ==
  ASSUME RuntimeInv, NEW r \in Runs, Acquire(r)
  PROVE  RuntimeInv'
<1>. PICK g : g = exec[r].state
  OBVIOUS
<1>. PICK allowed : allowed = Allowed(r, memory[g].auto)
  OBVIOUS
<1>. PICK k : k = [exec[r] EXCEPT !.pc = "ask", !.allowed = allowed,
                                  !.enabled = exec[r].allow \/ allowed # {}]
  OBVIOUS
<1>1. exec[r].pc = "lock" /\ exec[r] \in RunRecord /\ g \in States
      /\ memory[g] \in [delegated : SUBSET Ops, auto : SUBSET Ops]
  BY AtWork DEF Acquire
<1>2. allowed \in SUBSET Ops
  BY <1>1 DEF Allowed, RunRecord
<1>3. ~opened => allowed \subseteq IF exec[r].for = NoPermission THEN standing ELSE Granted
  BY <1>1 DEF RuntimeInv, RunsGranted, NothingUngranted, Allowed, RunRecord
<1>4. k \in RunRecord /\ k.pc = "ask" /\ k.approved = exec[r].approved /\ k.allow = exec[r].allow
      /\ k.for = exec[r].for /\ k.state = exec[r].state /\ k.allowed = allowed
  BY <1>1, <1>2 DEF RunRecord
<1>5. RunBecomes(r, k)
  BY <1>1, <1>3, <1>4 DEF RunBecomes, Acquire
<1>6. MemoryKept
  <2>1. memory' = [memory EXCEPT ![g] = [memory[g] EXCEPT !.delegated = allowed]]
    BY <1>1 DEF Acquire, RuntimeInv, RuntimeTypes
  <2>2. [memory[g] EXCEPT !.delegated = allowed] \in [delegated : SUBSET Ops, auto : SUBSET Ops]
        /\ [memory[g] EXCEPT !.delegated = allowed].delegated = allowed
        /\ [memory[g] EXCEPT !.delegated = allowed].auto = memory[g].auto
    BY <1>1, <1>2
  <2>. QED
    BY <2>1, <2>2, <1>1, <1>3 DEF Acquire, Grants, MemoryKept, RuntimeInv, RuntimeTypes, NothingUngranted
<1>7. lock' \in [States -> Runs \cup {NoOne}]
  BY <1>1 DEF Acquire, RuntimeInv, RuntimeTypes
<1>. QED
  BY <1>5, <1>6, <1>7, RunMoves, Unmoved DEF Acquire, Rows, Grants

\* The answer of the model.
LEMMA RunAnswersKeeps ==
  ASSUME RuntimeInv, NEW r \in Runs, NEW wants \in SUBSET Ops, RunAnswers(r, wants)
  PROVE  RuntimeInv'
<1>. PICK k : k = [exec[r] EXCEPT !.pc = "store", !.wants = wants]
  OBVIOUS
<1>1. exec[r].pc = "ask" /\ exec[r] \in RunRecord /\ exec[r].state \in States
  BY AtWork DEF RunAnswers
<1>2. k \in RunRecord /\ k.pc = "store" /\ k.approved = exec[r].approved /\ k.allow = exec[r].allow
      /\ k.for = exec[r].for /\ k.state = exec[r].state /\ k.allowed = exec[r].allowed
  BY <1>1 DEF RunRecord
<1>3. RunBecomes(r, k)
  BY <1>1, <1>2 DEF RunBecomes, RunAnswers, RuntimeInv, NothingUngranted
<1>4. lock' \in [States -> Runs \cup {NoOne}]
  BY <1>1 DEF RunAnswers, RuntimeInv, RuntimeTypes
<1>. QED
  BY <1>3, <1>4, RunMoves, Unmoved DEF RunAnswers, Rows, Grants

\* A failed run ends, or goes on to store its failure.
LEMMA Faltering ==
  ASSUME RuntimeInv, NEW r \in Runs, exec[r].pc # "idle", NEW k,
         k = IF exec[r].for = NoPermission THEN IdleRun ELSE [exec[r] EXCEPT !.pc = "error"],
         exec' = [exec EXCEPT ![r] = k]
  PROVE  RunBecomes(r, k)
<1>1. exec[r] \in RunRecord
  BY AtWork
<1>2. CASE exec[r].for = NoPermission
  BY <1>2, IdleRunFacts DEF RunBecomes
<1>3. CASE exec[r].for # NoPermission
  <2>1. k \in RunRecord /\ k.pc = "error" /\ k.approved = exec[r].approved /\ k.allow = exec[r].allow
        /\ k.for = exec[r].for /\ k.state = exec[r].state /\ k.allowed = exec[r].allowed
        /\ k.for \in Permissions
    BY <1>1, <1>3 DEF RunRecord
  <2>. QED BY <2>1 DEF RunBecomes, RuntimeInv, NothingUngranted
<1>. QED
  BY <1>2, <1>3

\* A run that fails drops its session.
LEMMA RunFailsKeeps ==
  ASSUME RuntimeInv, NEW r \in Runs, RunFails(r)
  PROVE  RuntimeInv'
<1>. PICK g : g = exec[r].state
  OBVIOUS
<1>. PICK k : k = IF exec[r].for = NoPermission THEN IdleRun ELSE [exec[r] EXCEPT !.pc = "error"]
  OBVIOUS
<1>1. exec[r].pc # "idle" /\ g \in States /\ memory[g] \in [delegated : SUBSET Ops, auto : SUBSET Ops]
  BY AtWork DEF RunFails
<1>2. exec' = [exec EXCEPT ![r] = k]
  BY DEF RunFails
<1>3. RunBecomes(r, k)
  BY <1>1, <1>2, Faltering
<1>4. MemoryKept
  <2>1. CASE memory' = memory
    BY <2>1, Unmoved DEF RunFails, Grants
  <2>2. CASE memory' = [memory EXCEPT ![g] = WithoutSession(@)]
    <3>1. /\ WithoutSession(memory[g]) \in [delegated : SUBSET Ops, auto : SUBSET Ops]
          /\ WithoutSession(memory[g]).delegated = {} /\ WithoutSession(memory[g]).auto = memory[g].auto
      BY <1>1 DEF WithoutSession
    <3>. QED
      BY <2>2, <3>1, <1>1 DEF RunFails, Grants, MemoryKept, RuntimeInv, RuntimeTypes, NothingUngranted
  <2>. QED BY <2>1, <2>2 DEF RunFails
<1>5. lock' \in [States -> Runs \cup {NoOne}]
  BY <1>1 DEF RunFails, RuntimeInv, RuntimeTypes
<1>. QED
  BY <1>3, <1>4, <1>5, RunMoves, Unmoved DEF RunFails, Rows, Grants

\* A turn that cannot be stored: its failure is to be stored, if it is a continuation.
LEMMA StoreFailsKeeps ==
  ASSUME RuntimeInv, NEW r \in Runs, StoreFails(r)
  PROVE  RuntimeInv'
<1>. PICK k : k = IF exec[r].for = NoPermission THEN IdleRun ELSE [exec[r] EXCEPT !.pc = "error"]
  OBVIOUS
<1>1. exec[r].pc # "idle" /\ exec' = [exec EXCEPT ![r] = k]
  BY DEF StoreFails
<1>2. RunBecomes(r, k)
  BY <1>1, Faltering
<1>. QED
  BY <1>2, RunMoves, Unmoved DEF StoreFails, Rows, Grants, RuntimeInv, RuntimeTypes

\* A turn is stored together with the request it ends in.
LEMMA StoreTurnKeeps ==
  ASSUME RuntimeInv, NEW r \in Runs, NEW q \in Permissions \cup {NoPermission}, StoreTurn(r, q)
  PROVE  RuntimeInv'
<1>. PICK k : k = IF exec[r].for = NoPermission THEN IdleRun ELSE [exec[r] EXCEPT !.pc = "complete"]
  OBVIOUS
<1>1. exec[r].pc = "store" /\ exec[r] \in RunRecord /\ exec' = [exec EXCEPT ![r] = k]
  BY AtWork DEF StoreTurn
<1>2. AskKept
  <2>1. exec[r].wants \in SUBSET Ops
    BY <1>1 DEF RunRecord
  <2>2. [NoAsk EXCEPT !.stage = "asked", !.ops = exec[r].wants] \in AskRecord
        /\ [NoAsk EXCEPT !.stage = "asked", !.ops = exec[r].wants].ops = exec[r].wants
    BY <2>1 DEF NoAsk, AskRecord
  <2>3. q \in Permissions => exec[r].wants # {} /\ ask[q].stage = "free"
    BY AssistantAssumption DEF StoreTurn
  <2>4. \A i \in Permissions :
          ask'[i] = IF i = q THEN [NoAsk EXCEPT !.stage = "asked", !.ops = exec[r].wants] ELSE ask[i]
    BY DEF StoreTurn
  <2>5. ask' \in [Permissions -> AskRecord]
    BY <2>2 DEF StoreTurn, RuntimeInv, RuntimeTypes
  <2>. QED
    BY <2>2, <2>3, <2>4, <2>5 DEF AskKept, RuntimeInv, AsksForSomething
<1>3. CASE exec[r].for = NoPermission
  <2>1. RunBecomes(r, k)
    BY <1>1, <1>3, IdleRunFacts DEF RunBecomes
  <2>2. MessagesEnd
    BY <1>3, Unmoved DEF StoreTurn
  <2>. QED
    BY <1>2, <2>1, <2>2, RunMoves, Unmoved DEF StoreTurn, Grants, RuntimeInv, RuntimeTypes
<1>4. CASE exec[r].for # NoPermission
  <2>1. k \in RunRecord /\ k.pc = "complete" /\ k.approved = exec[r].approved /\ k.allow = exec[r].allow
        /\ k.for = exec[r].for /\ k.state = exec[r].state /\ k.allowed = exec[r].allowed
        /\ k.for \in Permissions
    BY <1>1, <1>4 DEF RunRecord
  <2>2. PICK end \in {"done", "interrupted"} : message' = [message EXCEPT ![k.for] = end]
    BY <1>4, <2>1 DEF StoreTurn, Ends
  <2>3. MessagesEnd /\ message'[k.for] # "streaming"
    BY <2>1, <2>2 DEF StoreTurn, MessagesEnd, RuntimeInv, RuntimeTypes
  <2>4. RunBecomes(r, k)
    BY <1>1, <2>1, <2>3 DEF RunBecomes, RuntimeInv, NothingUngranted
  <2>. QED
    BY <1>2, <2>3, <2>4, RunMoves, Unmoved DEF StoreTurn, Grants, RuntimeInv, RuntimeTypes
<1>. QED
  BY <1>3, <1>4

\* Storing the failure ends the message, or is noted as not done.
LEMMA StoreErrorKeeps ==
  ASSUME RuntimeInv, NEW r \in Runs, NEW saved \in BOOLEAN, StoreError(r, saved)
  PROVE  RuntimeInv'
<1>. PICK q : q = exec[r].for
  OBVIOUS
<1>. PICK k : k = [exec[r] EXCEPT !.pc = "fail"]
  OBVIOUS
<1>1. exec[r].pc = "error" /\ exec[r] \in RunRecord /\ q \in Permissions
      /\ exec' = [exec EXCEPT ![r] = k]
  BY AtWork DEF StoreError, RuntimeInv, RunsPlaced
<1>2. k \in RunRecord /\ k.pc = "fail" /\ k.approved = exec[r].approved /\ k.allow = exec[r].allow
      /\ k.for = q /\ k.state = exec[r].state /\ k.allowed = exec[r].allowed
  BY <1>1 DEF RunRecord
<1>3. MessagesEnd /\ (q \notin unsaved' => message'[q] # "streaming")
  BY <1>1 DEF StoreError, Ends, MessagesEnd, RuntimeInv, RuntimeTypes
<1>4. RunBecomes(r, k)
  BY <1>1, <1>2, <1>3 DEF RunBecomes, RuntimeInv, NothingUngranted
<1>. QED
  BY <1>3, <1>4, RunMoves, Unmoved DEF StoreError, Grants, RuntimeInv, RuntimeTypes

\* The task cannot be completed, or not even failed.
LEMMA SettleFailsKeeps ==
  ASSUME RuntimeInv, NEW r \in Runs, SettleFails(r)
  PROVE  RuntimeInv'
<1>. PICK k : k = IF exec[r].pc = "complete" THEN [exec[r] EXCEPT !.pc = "fail"] ELSE IdleRun
  OBVIOUS
<1>1. exec[r].pc \in {"complete", "fail"} /\ exec[r] \in RunRecord /\ exec[r].for \in Permissions
      /\ exec' = [exec EXCEPT ![r] = k] /\ unsaved' = unsaved /\ message' = message
  BY AtWork DEF SettleFails, RuntimeInv, RunsPlaced, Rows
<1>2. RunBecomes(r, k)
  <2>1. CASE exec[r].pc = "complete"
    <3>1. k \in RunRecord /\ k.pc = "fail" /\ k.approved = exec[r].approved /\ k.allow = exec[r].allow
          /\ k.for = exec[r].for /\ k.state = exec[r].state /\ k.allowed = exec[r].allowed
      BY <1>1, <2>1 DEF RunRecord
    <3>. QED
      BY <1>1, <3>1 DEF RunBecomes, RuntimeInv, NothingUngranted, MessageEnded
  <2>2. CASE exec[r].pc = "fail"
    BY <1>1, <2>2, IdleRunFacts DEF RunBecomes
  <2>. QED BY <1>1, <2>1, <2>2
<1>. QED
  BY <1>2, RunMoves, Unmoved DEF SettleFails, Rows, Grants, RuntimeInv, RuntimeTypes

\* The task is settled after its message.
LEMMA SettleTaskKeeps ==
  ASSUME RuntimeInv, NEW r \in Runs, SettleTask(r)
  PROVE  RuntimeInv'
<1>. PICK q : q = exec[r].for
  OBVIOUS
<1>1. /\ exec[r].pc \in {"complete", "fail"} /\ q \in Permissions
      /\ exec' = [exec EXCEPT ![r] = IdleRun]
      /\ UNCHANGED <<memory, registered, lastState, lock, ask, message, answer, runsLeft, once, standing,
                     opened, unsaved>>
  BY DEF SettleTask, RuntimeInv, RunsPlaced, Grants
<1>2. PICK end \in {"completed", "failed"} : task' = [task EXCEPT ![q].status = end]
  BY DEF SettleTask
<1>3. /\ task' \in [Permissions -> TaskRecord] /\ task'[q].status = end
      /\ task'[q].approved = task[q].approved
      /\ \A i \in Permissions : i # q => task'[i] = task[i]
  BY <1>1, <1>2 DEF RuntimeInv, RuntimeTypes, TaskRecord
<1>4. task[q].status # "absent" /\ (q \notin unsaved => message[q] # "streaming")
  BY <1>1 DEF RuntimeInv, RunsPlaced, MessageEnded
<1>5. exec'[r] = IdleRun /\ \A s \in Runs : s # r => exec'[s] = exec[s]
  BY <1>1 DEF RuntimeInv, RuntimeTypes
<1>6. RuntimeTypes' /\ RunsPlaced'
  BY <1>1, <1>3, <1>5, IdleRunFacts DEF RuntimeInv, RuntimeTypes, RunsPlaced
<1>7. AsksForSomething' /\ AnswersPlaced' /\ AnswersGranted'
  BY <1>1 DEF RuntimeInv, AsksForSomething, AnswersPlaced, AnswersGranted
<1>8. TasksGranted'
  BY <1>1, <1>3, <1>4 DEF RuntimeInv, TasksGranted
<1>9. RunsGranted' /\ NothingUngranted'
  BY <1>1, <1>5, IdleRunFacts DEF RuntimeInv, RunsGranted, NothingUngranted
<1>10. MessageEnded' /\ ContinuationSettled'
  BY <1>1, <1>3, <1>4, <1>5, IdleRunFacts DEF RuntimeInv, MessageEnded, ContinuationSettled
<1>. QED
  BY <1>6, <1>7, <1>8, <1>9, <1>10 DEF RuntimeInv

-----------------------------------------------------------------------------
\* The answer p becomes a; what it carries was granted.
AnswerBecomes(p, a) ==
  /\ answer' = [answer EXCEPT ![p] = a] /\ a \in AnswerRecord
  /\ a.pc # "idle" => a.to \in Permissions /\ ask[a.to].stage = "asked"
  /\ a.pc = "lock" => a.state \in States
  /\ a.pc \in {"event", "commit"} /\ a.reply # "reject" => a.approved # {}
  /\ ~opened => a.approved \subseteq Granted'

\* What was granted stays so.
GrantsGrow ==
  /\ once' \in SUBSET Ops /\ standing' \in SUBSET Ops
  /\ once \subseteq once' /\ standing \subseteq standing'

\* Tasks there are do not change, nor do their messages; new ones wait, with something
\* that was granted.
TasksAdded ==
  /\ task' \in [Permissions -> TaskRecord]
  /\ message' \in [Permissions -> {"none", "streaming", "done", "interrupted", "error"}]
  /\ \A q \in Permissions :
       /\ task[q].status # "absent" => task'[q] = task[q] /\ message'[q] = message[q]
       /\ task[q].status = "absent" => task'[q].status \in {"absent", "waiting"}
       /\ task'[q].status # "absent" => task'[q].approved # {}
       /\ ~opened => task'[q].approved \subseteq Granted

\* A step of an answer.
LEMMA AnswerMoves ==
  ASSUME RuntimeInv, NEW p \in Repliers, NEW a, AnswerBecomes(p, a), AskKept, TasksAdded, MemoryKept,
         GrantsGrow, lastState' \in 0 .. MaxStates, registered' \in 0 .. lastState',
         UNCHANGED <<lock, exec, runsLeft, opened, unsaved>>
  PROVE  RuntimeInv'
<1>. USE DEF RuntimeInv
<1>1. /\ answer'[p] = a /\ \A i \in Repliers : i # p => answer'[i] = answer[i]
      /\ a \in AnswerRecord
  BY DEF RuntimeTypes, AnswerBecomes
<1>2. RuntimeTypes'
  BY DEF RuntimeTypes, AnswerBecomes, AskKept, TasksAdded, MemoryKept, GrantsGrow
<1>3. RunsPlaced'
  BY DEF RunsPlaced, TasksAdded
<1>4. AsksForSomething' /\ AnswersPlaced'
  BY <1>1 DEF AsksForSomething, AnswersPlaced, AskKept, AnswerBecomes
<1>5. AnswersGranted'
  BY <1>1 DEF AnswersGranted, AnswersPlaced, AskKept, AnswerBecomes, GrantsGrow
<1>6. TasksGranted'
  BY DEF TasksGranted, TasksAdded, GrantsGrow
<1>7. RunsGranted' /\ NothingUngranted'
  BY DEF RunsGranted, NothingUngranted, MemoryKept, GrantsGrow
<1>8. MessageEnded'
  BY DEF MessageEnded, RunsPlaced, TasksAdded
<1>9. ContinuationSettled'
  BY DEF ContinuationSettled, TasksAdded
<1>. QED
  BY <1>2, <1>3, <1>4, <1>5, <1>6, <1>7, <1>8, <1>9

\* What an answer leaves alone is kept.
LEMMA Untouched ==
  ASSUME RuntimeInv
  PROVE  /\ task' = task /\ message' = message => TasksAdded
         /\ UNCHANGED <<once, standing>> => GrantsGrow
         /\ registered' = registered /\ lastState' = lastState
              => lastState' \in 0 .. MaxStates /\ registered' \in 0 .. lastState'
<1>1. ASSUME task' = task, message' = message PROVE TasksAdded
  BY <1>1 DEF TasksAdded, RuntimeInv, RuntimeTypes, TasksGranted
<1>2. ASSUME UNCHANGED <<once, standing>> PROVE GrantsGrow
  BY <1>2 DEF GrantsGrow, RuntimeInv, RuntimeTypes
<1>3. lastState \in 0 .. MaxStates /\ registered \in 0 .. lastState
  BY DEF RuntimeInv, RuntimeTypes
<1>. QED
  BY <1>1, <1>2, <1>3

\* An answer that ends or has not begun carries nothing.
LEMMA IdleAnswerFacts ==
  IdleAnswer \in AnswerRecord /\ IdleAnswer.pc = "idle" /\ IdleAnswer.approved = {}
<1>1. 0 \in 0 .. MaxStates
  BY AssistantAssumption
<1>. QED
  BY <1>1 DEF IdleAnswer, AnswerRecord

\* A reply to a request that is shown begins.
LEMMA BeginAnswerKeeps ==
  ASSUME RuntimeInv, NEW p \in Repliers, NEW q \in Permissions,
         NEW reply \in {"once", "always", "reject"}, NEW g \in States \cup {0},
         BeginAnswer(p, q, reply, g)
  PROVE  RuntimeInv'
<1>. PICK a : a = [IdleAnswer EXCEPT !.pc = IF reply = "reject" THEN "event" ELSE "lock",
                                     !.to = q, !.reply = reply, !.state = g]
  OBVIOUS
<1>1. g \in 0 .. MaxStates
  BY AssistantAssumption DEF States
<1>2. a \in AnswerRecord /\ a.pc = (IF reply = "reject" THEN "event" ELSE "lock") /\ a.to = q
      /\ a.reply = reply /\ a.state = g /\ a.approved = {}
  BY <1>1 DEF IdleAnswer, AnswerRecord
<1>4. GrantsGrow /\ UNCHANGED <<once, standing, opened>>
  BY DEF BeginAnswer, Grants, GrantsGrow, RuntimeInv, RuntimeTypes
<1>5. lastState' \in 0 .. MaxStates /\ registered' \in 0 .. lastState' /\ (reply # "reject" => g \in States)
  <2>1. CASE reply = "reject"
    BY <2>1 DEF BeginAnswer, RuntimeInv, RuntimeTypes
  <2>2. CASE reply # "reject"
    BY <2>2, FoundType DEF BeginAnswer, RuntimeInv
  <2>. QED BY <2>1, <2>2
<1>6. AnswerBecomes(p, a)
  BY <1>2, <1>4, <1>5 DEF BeginAnswer, AnswerBecomes
<1>. QED
  BY <1>4, <1>5, <1>6, AnswerMoves, Unmoved, Untouched DEF BeginAnswer, Rows

\* The state in memory is given what was granted: the request's operations besides its own.
LEMMA GrantKeeps ==
  ASSUME RuntimeInv, NEW p \in Repliers, Grant(p)
  PROVE  RuntimeInv'
<1>. PICK g : g = answer[p].state
  OBVIOUS
<1>. PICK q : q = answer[p].to
  OBVIOUS
<1>. PICK approved : approved = Approved(memory[g], ask[q].ops)
  OBVIOUS
<1>. PICK a : a = [answer[p] EXCEPT !.pc = "event", !.approved = approved]
  OBVIOUS
<1>1. /\ answer[p].pc = "lock" /\ answer[p] \in AnswerRecord /\ g \in States /\ q \in Permissions
      /\ memory[g] \in [delegated : SUBSET Ops, auto : SUBSET Ops]
      /\ ask[q] \in AskRecord /\ ask[q].stage = "asked" /\ ask[q].ops # {}
  BY DEF Grant, RuntimeInv, RuntimeTypes, AnswersPlaced, AsksForSomething
<1>2. approved \in SUBSET Ops /\ approved # {} /\ (~opened => approved \subseteq Granted \cup ask[q].ops)
  BY <1>1 DEF Approved, AskRecord, RuntimeInv, NothingUngranted
<1>2a. GrantsGrow /\ Granted \cup ask[q].ops \subseteq Granted'
       /\ (answer[p].reply = "always" => Granted \cup ask[q].ops \subseteq standing')
  <2>1. ask[q].ops \in SUBSET Ops
    BY <1>1 DEF AskRecord
  <2>. QED BY <2>1 DEF Grant, GrantsGrow, RuntimeInv, RuntimeTypes
<1>3. a \in AnswerRecord /\ a.pc = "event" /\ a.approved = approved /\ a.to = q
      /\ a.reply = answer[p].reply
  BY <1>1, <1>2 DEF AnswerRecord
<1>4. answer' = [answer EXCEPT ![p] = a]
  BY DEF Grant
<1>5. AnswerBecomes(p, a)
  BY <1>1, <1>2, <1>2a, <1>3, <1>4 DEF AnswerBecomes, Grant
<1>6. MemoryKept
  <2>. PICK auto : auto = AutoAfter(answer[p].reply, approved, memory[g].auto)
    OBVIOUS
  <2>1. memory' = [memory EXCEPT ![g] = [memory[g] EXCEPT !.auto = auto]]
    BY DEF Grant
  <2>2. [memory[g] EXCEPT !.auto = auto] \in [delegated : SUBSET Ops, auto : SUBSET Ops]
        /\ [memory[g] EXCEPT !.auto = auto].auto = auto
        /\ [memory[g] EXCEPT !.auto = auto].delegated = memory[g].delegated
    BY <1>1, <1>2 DEF AutoAfter
  <2>3. ~opened => auto \subseteq standing'
    BY <1>1, <1>2, <1>2a DEF RuntimeInv, NothingUngranted, AutoAfter, GrantsGrow
  <2>. QED
    BY <2>1, <2>2, <2>3, <1>1, <1>2a DEF GrantsGrow, MemoryKept, RuntimeInv, RuntimeTypes, NothingUngranted
<1>. QED
  BY <1>2a, <1>5, <1>6, AnswerMoves, Unmoved, Untouched DEF Grant, Rows

\* Looking for the event of the resolution.
LEMMA FindEventKeeps ==
  ASSUME RuntimeInv, NEW p \in Repliers, FindEvent(p)
  PROVE  RuntimeInv'
<1>. PICK seen : seen = (ask[answer[p].to].resolution # "none")
  OBVIOUS
<1>. PICK a : a = [answer[p] EXCEPT !.pc = "commit", !.seen = seen]
  OBVIOUS
<1>1. answer[p].pc = "event" /\ answer[p] \in AnswerRecord /\ answer[p].to \in Permissions
      /\ ask[answer[p].to].stage = "asked"
  BY DEF FindEvent, RuntimeInv, RuntimeTypes, AnswersPlaced
<1>2. a \in AnswerRecord /\ a.pc = "commit" /\ a.approved = answer[p].approved /\ a.to = answer[p].to
      /\ a.reply = answer[p].reply
  BY <1>1 DEF AnswerRecord
<1>3. answer' = [answer EXCEPT ![p] = a]
  BY DEF FindEvent
<1>4. AnswerBecomes(p, a)
  BY <1>1, <1>2, <1>3 DEF AnswerBecomes, FindEvent, Grants, RuntimeInv, AnswersPlaced, AnswersGranted
<1>. QED
  BY <1>4, AnswerMoves, Unmoved, Untouched DEF FindEvent, Rows, Grants

\* The task of an approved request gets what the reply has granted.
LEMMA CommitAnswerKeeps ==
  ASSUME RuntimeInv, NEW p \in Repliers, CommitAnswer(p)
  PROVE  RuntimeInv'
<1>. PICK q : q = answer[p].to
  OBVIOUS
<1>1. answer[p].pc = "commit" /\ answer[p] \in AnswerRecord /\ q \in Permissions
      /\ ask[q] \in AskRecord
  BY DEF CommitAnswer, RuntimeInv, RuntimeTypes, AnswersPlaced
<1>2. AskKept
  <2>1. PICK resolution \in {"replied", "rejected"} : ask' = [ask EXCEPT ![q].resolution = resolution]
    BY DEF CommitAnswer
  <2>2. /\ [ask[q] EXCEPT !.resolution = resolution] \in AskRecord
        /\ [ask[q] EXCEPT !.resolution = resolution].stage = ask[q].stage
        /\ [ask[q] EXCEPT !.resolution = resolution].ops = ask[q].ops
    BY <1>1 DEF AskRecord
  <2>3. ask'[q] = [ask[q] EXCEPT !.resolution = resolution] /\ \A i \in Permissions : i # q => ask'[i] = ask[i]
    BY <2>1, <1>1 DEF RuntimeInv, RuntimeTypes
  <2>4. ask' \in [Permissions -> AskRecord]
    BY <2>1, <2>2 DEF RuntimeInv, RuntimeTypes
  <2>5. \A i \in Permissions : ask'[i].stage = ask[i].stage /\ ask'[i].ops = ask[i].ops
    BY <2>2, <2>3
  <2>. QED
    BY <2>4, <2>5 DEF AskKept, RuntimeInv, AsksForSomething
<1>3. TasksAdded
  <2>1. CASE answer[p].reply # "reject" /\ task[q].status = "absent"
    <3>. PICK new : new = [status |-> "waiting", approved |-> answer[p].approved]
      OBVIOUS
    <3>1. task' = [task EXCEPT ![q] = new] /\ message' = [message EXCEPT ![q] = "streaming"]
      BY <2>1 DEF CommitAnswer
    <3>2. new \in TaskRecord /\ new.status = "waiting" /\ new.approved # {}
          /\ (~opened => new.approved \subseteq Granted)
      BY <1>1, <2>1 DEF TaskRecord, AnswerRecord, RuntimeInv, AnswersPlaced, AnswersGranted
    <3>. QED
      BY <1>1, <2>1, <3>1, <3>2 DEF TasksAdded, RuntimeInv, RuntimeTypes, TasksGranted
  <2>2. CASE task' = task /\ message' = message
    BY <2>2, Untouched
  <2>. QED BY <2>1, <2>2 DEF CommitAnswer
<1>4. AnswerBecomes(p, IdleAnswer)
  BY IdleAnswerFacts DEF AnswerBecomes, CommitAnswer
<1>. QED
  BY <1>2, <1>3, <1>4, AnswerMoves, Unmoved, Untouched DEF CommitAnswer, Grants

\* A reply that is rolled back.
LEMMA AnswerFailsKeeps ==
  ASSUME RuntimeInv, NEW p \in Repliers, AnswerFails(p)
  PROVE  RuntimeInv'
<1>1. AnswerBecomes(p, IdleAnswer)
  BY IdleAnswerFacts DEF AnswerBecomes, AnswerFails
<1>. QED
  BY <1>1, AnswerMoves, Unmoved, Untouched DEF AnswerFails, Rows, Grants

-----------------------------------------------------------------------------
\* The time to live, and a restart: of what is granted, only the rows remain.
LEMMA MemoryLost ==
  ASSUME RuntimeInv, Forget \/ Restart
  PROVE  RuntimeInv'
<1>1. CASE Forget
  <2>1. /\ registered' = 0
        /\ UNCHANGED <<memory, lastState, lock, exec, ask, task, message, unsaved, answer, runsLeft,
                       once, standing, opened>>
    BY <1>1 DEF Forget, Rows, Grants
  <2>2. registered' \in 0 .. lastState'
    BY <2>1, AssistantAssumption DEF RuntimeInv, RuntimeTypes
  <2>3. RuntimeTypes'
    BY <2>1, <2>2 DEF RuntimeInv, RuntimeTypes
  <2>. QED
    BY <2>1, <2>3 DEF RuntimeInv, RunsPlaced, AsksForSomething, AnswersPlaced, AnswersGranted,
                      TasksGranted, RunsGranted, NothingUngranted, MessageEnded, ContinuationSettled
<1>2. CASE Restart
  <2>1. /\ registered' = 0 /\ memory' = [g \in States |-> Blank] /\ lock' = [g \in States |-> NoOne]
        /\ exec' = [r \in Runs |-> IdleRun] /\ answer' = [p \in Repliers |-> IdleAnswer]
        /\ UNCHANGED <<lastState, ask, task, message, unsaved, runsLeft, once, standing, opened>>
    BY <1>2 DEF Restart, Rows, Grants
  <2>2. Blank \in [delegated : SUBSET Ops, auto : SUBSET Ops] /\ Blank.delegated = {} /\ Blank.auto = {}
    BY DEF Blank
  <2>3. registered' \in 0 .. lastState'
    BY <2>1, AssistantAssumption DEF RuntimeInv, RuntimeTypes
  <2>4. RuntimeTypes'
    BY <2>1, <2>2, <2>3, IdleRunFacts, IdleAnswerFacts DEF RuntimeInv, RuntimeTypes
  <2>5. RunsPlaced' /\ AsksForSomething' /\ AnswersPlaced'
    BY <2>1, IdleRunFacts, IdleAnswerFacts DEF RuntimeInv, RunsPlaced, AsksForSomething, AnswersPlaced
  <2>6. AnswersGranted' /\ TasksGranted' /\ RunsGranted' /\ NothingUngranted'
    BY <2>1, <2>2, IdleRunFacts, IdleAnswerFacts
       DEF RuntimeInv, AnswersGranted, TasksGranted, RunsGranted, NothingUngranted
  <2>7. MessageEnded' /\ ContinuationSettled'
    BY <2>1, IdleRunFacts DEF RuntimeInv, MessageEnded, ContinuationSettled
  <2>. QED
    BY <2>4, <2>5, <2>6, <2>7 DEF RuntimeInv
<1>. QED
  BY <1>1, <1>2

\* A request expires, or is resolved as expired.
LEMMA AsksExpire ==
  ASSUME RuntimeInv,
         UNCHANGED <<memory, registered, lastState, lock, exec, task, message, answer, runsLeft,
                     once, standing, opened, unsaved>>,
         ask' \in [Permissions -> AskRecord],
         \A q \in Permissions : ask'[q].stage = ask[q].stage /\ ask'[q].ops = ask[q].ops
  PROVE  RuntimeInv'
<1>1. RuntimeTypes'
  BY DEF RuntimeInv, RuntimeTypes
<1>2. AsksForSomething' /\ AnswersPlaced' /\ AnswersGranted'
  BY DEF RuntimeInv, AsksForSomething, AnswersPlaced, AnswersGranted
<1>. QED
  BY <1>1, <1>2 DEF RuntimeInv, RunsPlaced, TasksGranted, RunsGranted, NothingUngranted, MessageEnded,
                    ContinuationSettled

\* The end of a request's time.
LEMMA ExpiryKeeps ==
  ASSUME RuntimeInv, ShowPending \/ \E q \in Permissions : ExpireAsk(q)
  PROVE  RuntimeInv'
<1>1. CASE ShowPending
  <2>1. PICK lost \in SUBSET Permissions : ask' =
          [q \in Permissions |-> IF q \in lost THEN [ask[q] EXCEPT !.resolution = "expired"] ELSE ask[q]]
    BY <1>1 DEF ShowPending
  <2>2. \A q \in Permissions :
          /\ ask[q] \in AskRecord /\ [ask[q] EXCEPT !.resolution = "expired"] \in AskRecord
          /\ [ask[q] EXCEPT !.resolution = "expired"].stage = ask[q].stage
          /\ [ask[q] EXCEPT !.resolution = "expired"].ops = ask[q].ops
    BY DEF RuntimeInv, RuntimeTypes, AskRecord
  <2>. QED
    BY <1>1, <2>1, <2>2, AsksExpire DEF ShowPending, Grants
<1>2. ASSUME NEW q \in Permissions, ExpireAsk(q) PROVE RuntimeInv'
  <2>1. ask' = [ask EXCEPT ![q] = [ask[q] EXCEPT !.expired = TRUE]]
    BY <1>2 DEF ExpireAsk
  <2>2. /\ ask[q] \in AskRecord /\ [ask[q] EXCEPT !.expired = TRUE] \in AskRecord
        /\ [ask[q] EXCEPT !.expired = TRUE].stage = ask[q].stage
        /\ [ask[q] EXCEPT !.expired = TRUE].ops = ask[q].ops
    BY DEF RuntimeInv, RuntimeTypes, AskRecord
  <2>3. ask' \in [Permissions -> AskRecord]
        /\ \A i \in Permissions : ask'[i].stage = ask[i].stage /\ ask'[i].ops = ask[i].ops
    BY <2>1, <2>2 DEF RuntimeInv, RuntimeTypes
  <2>. QED
    BY <1>2, <2>3, AsksExpire DEF ExpireAsk, Grants
<1>. QED
  BY <1>1, <1>2

\* A task to be run again keeps what was granted to it.
LEMMA LapseKeeps ==
  ASSUME RuntimeInv, NEW q \in Permissions, Lapse(q)
  PROVE  RuntimeInv'
<1>1. /\ task[q].status = "running" /\ task' = [task EXCEPT ![q].status = "waiting"]
      /\ UNCHANGED <<memory, registered, lastState, lock, exec, ask, message, answer, runsLeft,
                     once, standing, opened, unsaved>>
  BY DEF Lapse, Grants
<1>2. /\ task' \in [Permissions -> TaskRecord] /\ task'[q].status = "waiting"
      /\ task'[q].approved = task[q].approved
      /\ \A i \in Permissions : i # q => task'[i] = task[i]
  BY <1>1 DEF RuntimeInv, RuntimeTypes, TaskRecord
<1>3. RuntimeTypes' /\ RunsPlaced'
  BY <1>1, <1>2 DEF RuntimeInv, RuntimeTypes, RunsPlaced
<1>4. TasksGranted' /\ ContinuationSettled'
  BY <1>1, <1>2 DEF RuntimeInv, TasksGranted, ContinuationSettled
<1>. QED
  BY <1>1, <1>3, <1>4 DEF RuntimeInv, AsksForSomething, AnswersPlaced, AnswersGranted, RunsGranted,
                         NothingUngranted, MessageEnded

\* A message of the user, a follow-up, or a continuation begins.
LEMMA StartKeeps ==
  ASSUME RuntimeInv, NEW r \in Runs, NEW g \in States,
         \/ \E allow \in BOOLEAN : StartTurn(r, g, allow)
         \/ \E q \in Permissions : StartContinuation(r, g, q)
  PROVE  RuntimeInv'
<1>1. ASSUME NEW allow \in BOOLEAN, StartTurn(r, g, allow) PROVE RuntimeInv'
  BY <1>1, BeginKeeps DEF StartTurn
<1>2. ASSUME NEW q \in Permissions, StartContinuation(r, g, q) PROVE RuntimeInv'
  <2>1. task[q].approved \in SUBSET Ops
    BY DEF RuntimeInv, RuntimeTypes, TaskRecord
  <2>. QED BY <1>2, <2>1, BeginKeeps DEF StartContinuation
<1>. QED
  BY <1>1, <1>2

\* Every step of a run keeps the invariant.
LEMMA RunStepKeeps ==
  ASSUME RuntimeInv, NEW r \in Runs,
         \/ \E g \in States :
              \/ \E allow \in BOOLEAN : StartTurn(r, g, allow)
              \/ \E q \in Permissions : StartContinuation(r, g, q)
         \/ Acquire(r) \/ RunFails(r)
         \/ \E wants \in SUBSET Ops : RunAnswers(r, wants)
         \/ \E q \in Permissions \cup {NoPermission} : StoreTurn(r, q)
         \/ StoreFails(r) \/ SettleTask(r) \/ SettleFails(r)
         \/ \E saved \in BOOLEAN : StoreError(r, saved)
  PROVE  RuntimeInv'
BY StartKeeps, AcquireKeeps, RunFailsKeeps, RunAnswersKeeps, StoreTurnKeeps, StoreFailsKeeps,
   SettleTaskKeeps, SettleFailsKeeps, StoreErrorKeeps

\* Every step of an answer does.
LEMMA AnswerStepKeeps ==
  ASSUME RuntimeInv, NEW p \in Repliers,
         \/ \E q \in Permissions, reply \in {"once", "always", "reject"}, g \in States \cup {0} :
              BeginAnswer(p, q, reply, g)
         \/ Grant(p) \/ FindEvent(p) \/ CommitAnswer(p) \/ AnswerFails(p)
  PROVE  RuntimeInv'
BY BeginAnswerKeeps, GrantKeeps, FindEventKeeps, CommitAnswerKeeps, AnswerFailsKeeps

\* The invariant is inductive.
LEMMA RuntimeInvNext == RuntimeInv /\ [AssistantNext]_assistantVars => RuntimeInv'
<1>. SUFFICES ASSUME RuntimeInv, [AssistantNext]_assistantVars PROVE RuntimeInv'
  OBVIOUS
<1>1. CASE Forget \/ Restart
  BY <1>1, MemoryLost
<1>2. CASE ShowPending \/ \E q \in Permissions : ExpireAsk(q)
  BY <1>2, ExpiryKeeps
<1>3. ASSUME NEW q \in Permissions, Lapse(q) PROVE RuntimeInv'
  BY <1>3, LapseKeeps
<1>4. ASSUME NEW r \in Runs,
             \/ \E g \in States :
                  \/ \E allow \in BOOLEAN : StartTurn(r, g, allow)
                  \/ \E q \in Permissions : StartContinuation(r, g, q)
             \/ Acquire(r) \/ RunFails(r)
             \/ \E wants \in SUBSET Ops : RunAnswers(r, wants)
             \/ \E q \in Permissions \cup {NoPermission} : StoreTurn(r, q)
             \/ StoreFails(r) \/ SettleTask(r) \/ SettleFails(r)
             \/ \E saved \in BOOLEAN : StoreError(r, saved)
      PROVE RuntimeInv'
  BY <1>4, RunStepKeeps
<1>5. ASSUME NEW p \in Repliers,
             \/ \E q \in Permissions, reply \in {"once", "always", "reject"}, g \in States \cup {0} :
                  BeginAnswer(p, q, reply, g)
             \/ Grant(p) \/ FindEvent(p) \/ CommitAnswer(p) \/ AnswerFails(p)
      PROVE RuntimeInv'
  BY <1>5, AnswerStepKeeps
<1>6. CASE UNCHANGED assistantVars
  BY <1>6 DEF assistantVars, RuntimeInv, RuntimeTypes, RunsPlaced, AsksForSomething, AnswersPlaced,
              AnswersGranted, TasksGranted, RunsGranted, NothingUngranted, MessageEnded,
              ContinuationSettled
<1>. QED
  BY <1>1, <1>2, <1>3, <1>4, <1>5, <1>6 DEF AssistantNext

-----------------------------------------------------------------------------
\* The records of runs, requests, tasks and replies keep their types.
THEOREM AssistantTypesKept == AssistantSpec => []AssistantTypeOK
<1>1. RuntimeInv => AssistantTypeOK
  BY DEF RuntimeInv, RuntimeTypes, AssistantTypeOK, RunRecord, AskRecord, TaskRecord
<1>. QED
  BY <1>1, RuntimeInvInit, RuntimeInvNext, PTL DEF AssistantSpec

\* Unless the user has started a run with all operations, a continuation has only those the
\* user said "once" or "always" to, and another turn only those that were granted when
\* "always" was last answered: for any number of tabs that answer the same requests, of
\* runs, crashes, lapses and expired states.
THEOREM OnlyGrantedUsed == AssistantSpec => []NothingUngranted
<1>1. RuntimeInv => NothingUngranted
  BY DEF RuntimeInv
<1>. QED
  BY <1>1, RuntimeInvInit, RuntimeInvNext, PTL DEF AssistantSpec

\* A continuation that is completed or failed leaves no message being written, however
\* often it was run again.
THEOREM SettledMessagesEnd == AssistantSpec => []ContinuationSettled
<1>1. RuntimeInv => ContinuationSettled
  BY DEF RuntimeInv
<1>. QED
  BY <1>1, RuntimeInvInit, RuntimeInvNext, PTL DEF AssistantSpec

-----------------------------------------------------------------------------
(* The durable tasks: the invariant *)

Batches ==
  \A s \in Scanners :
    /\ scan[s].pc \in {"idle", "recovered"} => scan[s].batch = {}
    /\ \A i, j \in scan[s].batch : i.task = j.task => i = j
    /\ InHand(s) => \A i \in scan[s].batch : i.task # scan[s].item.task

HeldIsRunning ==
  \A s \in Scanners, t \in Tasks :
    Holds(s, t) /\ <<s, t>> \notin lapsed => status[t] = "running"

IInv ==
  /\ TypeOK /\ Batches /\ HeldIsRunning
  /\ ExclusiveClaim /\ NothingSwallowed /\ LiveWhileTracking

-----------------------------------------------------------------------------
(* Operators *)

\* Restricting anchors to some conversations yields anchors of these only.
LEMMA OnlyType ==
  ASSUME NEW f \in Anchors, NEW C
  PROVE  /\ Only(f, C) \in Anchors
         /\ \A c \in Conversations : Only(f, C)[c] # 0 => c \in C
         /\ \A c \in Conversations : Only(f, C)[c] <= f[c]
<1>1. 0 \in Versions /\ \A v \in Versions : v \in Nat /\ 0 <= v /\ v <= v
  BY BoundsAssumption DEF Versions
<1>2. \A c \in Conversations : f[c] \in Versions
  BY DEF Anchors
<1>. QED
  BY <1>1, <1>2 DEF Only, Anchors

\* The pointwise maximum covers both sides.
LEMMA LaterType ==
  ASSUME NEW f \in Anchors, NEW g \in Anchors
  PROVE  /\ Later(f, g) \in Anchors
         /\ \A c \in Conversations : f[c] <= Later(f, g)[c] /\ g[c] <= Later(f, g)[c]
<1>1. \A v \in Versions : v \in Nat
  BY BoundsAssumption DEF Versions
<1>2. \A c \in Conversations : f[c] \in Versions /\ g[c] \in Versions
  BY DEF Anchors
<1>3. Later(f, g) \in Anchors
  BY <1>2 DEF Later, Anchors
<1>4. ASSUME NEW c \in Conversations
      PROVE  f[c] <= Later(f, g)[c] /\ g[c] <= Later(f, g)[c]
  BY <1>1, <1>2 DEF Later
<1>. QED
  BY <1>3, <1>4

\* Touching rows keeps older a relation on watches.
LEMMA TouchedType ==
  ASSUME older \in SUBSET (Watches \X Watches), NEW W \in SUBSET Watches
  PROVE  Touched(W) \in SUBSET (Watches \X Watches)
BY DEF Touched

\* Ended claims are claims.
LEMMA EndedType ==
  ASSUME lapsed \in SUBSET (Scanners \X Tasks), NEW T \in SUBSET Tasks
  PROVE  Ended(T) \in SUBSET (Scanners \X Tasks)
BY DEF Ended

\* What a scan has at hand is a claimed item.
LEMMA ScanType ==
  ASSUME TypeOK, NEW s \in Scanners
  PROVE  /\ scan[s] \in ScanState
         /\ scan[s].batch \in SUBSET Item
         /\ scan[s].item \in Item \cup {None}
         /\ InHand(s) => scan[s].item \in Item /\ scan[s].item.task \in Tasks
                         /\ scan[s].item.observed \in Anchors
<1>1. scan[s] \in ScanState
  BY DEF TypeOK
<1>2. scan[s].batch \in SUBSET Item /\ scan[s].item \in Item \cup {None}
  BY <1>1 DEF ScanState
<1>3. InHand(s) => scan[s].item \in Item
  BY <1>2 DEF TypeOK
<1>4. \A i \in Item : i.task \in Tasks /\ i.observed \in Anchors
  BY DEF Item
<1>. QED
  BY <1>1, <1>2, <1>3, <1>4

-----------------------------------------------------------------------------
(* Types *)

Statuses == {"absent", "waiting", "running", "completed", "failed"}

\* The parts of TypeOK that only some steps disturb.
RowTypes ==
  /\ status \in [Tasks -> Statuses]
  /\ overdue \in [Tasks -> BOOLEAN]
  /\ older \in SUBSET (Watches \X Watches)
  /\ lapsed \in SUBSET (Scanners \X Tasks)

WatchTypes ==
  /\ tracked \in [Watches -> SUBSET Conversations]
  /\ anchor \in [Watches -> Anchors]
  /\ \A w \in Watches, c \in Conversations : anchor[w][c] # 0 => c \in tracked[w]
  /\ told \in [Watches -> Anchors]
  /\ base \in [Watches -> Anchors]

ScanTypes ==
  /\ scan \in [Scanners -> ScanState]
  /\ \A s \in Scanners : (scan[s].item # None) <=> InHand(s)

LEMMA TypeParts == TypeOK <=> RowTypes /\ WatchTypes /\ ScanTypes /\ latest \in Anchors
BY DEF TypeOK, RowTypes, WatchTypes, ScanTypes, Statuses

\* Marking rows running, waiting or settled yields statuses again.
LEMMA StatusType ==
  ASSUME RowTypes
  PROVE  /\ \A t, st : st \in Statuses => Set(t, st) \in [Tasks -> Statuses]
         /\ \A T : ClaimStatus(T) \in [Tasks -> Statuses]
BY DEF RowTypes, Set, ClaimStatus, Statuses

\* The rows a step writes keep their types.
LEMMA RowTypeStep ==
  ASSUME TypeOK, [Next]_vars
  PROVE  RowTypes'
<1>. USE TypeParts
<1>1. CASE UNCHANGED vars
  BY <1>1 DEF vars, RowTypes
<1>2. ASSUME NEW s \in Scanners, Recover(s)
      PROVE  RowTypes'
  <2>1. Stale \in SUBSET Tasks /\ Stale \cap Watches \in SUBSET Watches
    BY DEF Stale
  <2>2. older' \in SUBSET (Watches \X Watches) /\ lapsed' \in SUBSET (Scanners \X Tasks)
    BY <1>2, <2>1, TouchedType, EndedType DEF Recover, RowTypes
  <2>. QED
    BY <1>2, <2>2 DEF Recover, RowTypes, Statuses
<1>3. ASSUME NEW s \in Scanners, NEW locked, Claim(s, locked)
      PROVE  RowTypes'
  <2>1. PICK rows \in SUBSET Watches, claimed \in SUBSET Tasks :
          /\ status' = ClaimStatus(claimed)
          /\ overdue' = [t \in Tasks |-> overdue[t] /\ t \notin claimed]
          /\ older' = Touched(rows)
          /\ UNCHANGED lapsed
    BY <1>3 DEF Claim, Oldest, Tasks
  <2>. QED
    BY <2>1, TouchedType, StatusType DEF RowTypes
<1>4. ASSUME NEW s \in Scanners, Execute(s)
      PROVE  RowTypes'
  <2>1. CASE Start(s) \/ Run(s) \/ Finish(s)
    BY <2>1 DEF Start, Run, Finish, RowTypes
  <2>2. CASE CompleteNothing(s) \/ SettleError(s)
    BY <2>2 DEF CompleteNothing, SettleError, RowTypes
  <2>3. ASSUME InHand(s)
        PROVE  /\ scan[s].item.task \in Tasks
               /\ Settled(s, scan[s].item.task) \in SUBSET (Scanners \X Tasks)
               /\ scan[s].item.task \in Watches =>
                    Touched({scan[s].item.task}) \in SUBSET (Watches \X Watches)
    BY <2>3, ScanType, TouchedType, EndedType DEF Settled, RowTypes
  <2>4. CASE CompleteWatch(s)
    BY <2>3, <2>4, StatusType DEF CompleteWatch, InHand, RowTypes, Statuses
  <2>5. CASE CompleteJob(s)
    BY <2>3, <2>5, StatusType DEF CompleteJob, InHand, RowTypes, Statuses
  <2>6. CASE Fail(s)
    BY <2>3, <2>6, StatusType DEF Fail, InHand, RowTypes, Statuses
  <2>. QED
    BY <1>4, <2>1, <2>2, <2>4, <2>5, <2>6 DEF Execute
<1>5. ASSUME NEW s \in Scanners, Stop(s)
      PROVE  RowTypes'
  BY <1>5 DEF Stop, RowTypes
<1>6. ASSUME NEW w \in Watches, NEW C, Track(w, C), status' \in [Tasks -> Statuses]
      PROVE  RowTypes'
  <2>1. Ended({w}) \in SUBSET (Scanners \X Tasks) /\ Touched({w}) \in SUBSET (Watches \X Watches)
    BY EndedType, TouchedType DEF RowTypes, Tasks
  <2>. QED
    BY <1>6, <2>1 DEF Track, RowTypes
<1>7. ASSUME NEW w \in Watches, NEW C, SetTracked(w, C)
      PROVE  RowTypes'
  BY <1>6, <1>7, StatusType DEF SetTracked, Armed, Statuses
<1>8. ASSUME NEW w \in Watches, NEW c \in Conversations, NEW h \in Handoffs, Delegate(w, c, h)
      PROVE  RowTypes'
  <2>1. status' \in [Tasks -> Statuses]
    BY <1>8 DEF Delegate, Armed, RowTypes, Statuses
  <2>. QED
    BY <1>6, <1>8, <2>1 DEF Delegate
<1>9. ASSUME NEW r \in Replies, Reply(r)
      PROVE  RowTypes'
  BY <1>9, StatusType DEF Reply, RowTypes, Statuses
<1>10. ASSUME NEW t \in Tasks, Overdue(t)
       PROVE  RowTypes'
  BY <1>10 DEF Overdue, RowTypes
<1>11. ASSUME NEW c \in Conversations, Post(c)
       PROVE  RowTypes'
  BY <1>11 DEF Post, RowTypes
<1>. QED
  BY <1>1, <1>2, <1>3, <1>4, <1>5, <1>7, <1>8, <1>9, <1>10, <1>11 DEF Next

\* Only the steps below touch what is tracked and acknowledged.
LEMMA WatchFrame ==
  ASSUME TypeOK, [Next]_vars
  PROVE  \/ UNCHANGED <<tracked, anchor, told, base>>
         \/ \E s \in Scanners : CompleteWatch(s) \/ Fail(s)
         \/ \E w \in Watches, C \in SUBSET Conversations : Track(w, C)
<1>1. CASE UNCHANGED vars
  BY <1>1 DEF vars
<1>2. ASSUME NEW s \in Scanners, Recover(s) \/ Execute(s) \/ Stop(s)
      PROVE  UNCHANGED <<tracked, anchor, told, base>> \/ CompleteWatch(s) \/ Fail(s)
  <2>1. CASE Recover(s) \/ Stop(s)
    BY <2>1 DEF Recover, Stop, Unchanged
  <2>2. CASE Start(s) \/ Run(s) \/ Finish(s)
    BY <2>2 DEF Start, Run, Finish, Unchanged
  <2>3. CASE CompleteNothing(s) \/ CompleteJob(s) \/ SettleError(s)
    BY <2>3 DEF CompleteNothing, CompleteJob, SettleError, Unchanged
  <2>. QED
    BY <1>2, <2>1, <2>2, <2>3 DEF Execute
<1>3. ASSUME NEW s \in Scanners, NEW locked, Claim(s, locked)
      PROVE  UNCHANGED <<tracked, anchor, told, base>>
  BY <1>3 DEF Claim, Unchanged
<1>4. ASSUME NEW w \in Watches, NEW C \in SUBSET Conversations, SetTracked(w, C)
      PROVE  Track(w, C)
  BY <1>4 DEF SetTracked
<1>5. ASSUME NEW w \in Watches, NEW c \in Conversations, NEW h \in Handoffs, Delegate(w, c, h)
      PROVE  \E C \in SUBSET Conversations : Track(w, C)
  <2>1. tracked[w] \cup {c} \in SUBSET Conversations
    BY <1>5 DEF TypeOK
  <2>. QED
    BY <1>5, <2>1 DEF Delegate
<1>6. ASSUME NEW r \in Replies, Reply(r)
      PROVE  UNCHANGED <<tracked, anchor, told, base>>
  BY <1>6 DEF Reply, Unchanged
<1>7. ASSUME NEW t \in Tasks, Overdue(t)
      PROVE  UNCHANGED <<tracked, anchor, told, base>>
  BY <1>7 DEF Overdue, Unchanged
<1>8. ASSUME NEW c \in Conversations, Post(c)
      PROVE  UNCHANGED <<tracked, anchor, told, base>>
  BY <1>8 DEF Post
<1>. QED
  BY <1>1, <1>2, <1>3, <1>4, <1>5, <1>6, <1>7, <1>8 DEF Next

LEMMA WatchTypeStep ==
  ASSUME TypeOK, [Next]_vars
  PROVE  WatchTypes'
<1>. USE TypeParts
<1>1. CASE UNCHANGED <<tracked, anchor, told, base>>
  BY <1>1 DEF WatchTypes
<1>2. ASSUME NEW s \in Scanners, CompleteWatch(s) \/ Fail(s)
      PROVE  WatchTypes'
  <2>. DEFINE w == scan[s].item.task
              observed == scan[s].item.observed
  <2>1. InHand(s) /\ observed \in Anchors
    BY <1>2, ScanType DEF CompleteWatch, Fail, InHand
  <2>2. ASSUME w \in Watches
        PROVE  Later(told[w], observed) \in Anchors
    BY <2>1, <2>2, LaterType DEF WatchTypes
  <2>3. CASE CompleteWatch(s)
    <3>1. /\ Only(observed, tracked[w]) \in Anchors
          /\ \A c \in Conversations : Only(observed, tracked[w])[c] # 0 => c \in tracked[w]
      BY <2>1, OnlyType
    <3>. QED
      BY <2>2, <2>3, <3>1 DEF CompleteWatch, Acknowledged, WatchTypes
  <2>4. CASE Fail(s)
    <3>1. scan[s].outcome = "interrupted" /\ w \in Watches
            => told' = [told EXCEPT ![w] = Later(told[w], observed)]
      BY <2>4 DEF Fail
    <3>2. UNCHANGED <<tracked, anchor, base>>
      BY <2>4 DEF Fail
    <3>3. CASE w \in Watches
      BY <2>2, <2>4, <3>2, <3>3 DEF Fail, WatchTypes
    <3>4. CASE w \notin Watches
      <4>1. told' = told
        BY <2>4, <3>4 DEF Fail, WatchTypes
      <4>. QED
        BY <3>2, <4>1 DEF WatchTypes
    <3>. QED
      BY <3>3, <3>4
  <2>. QED
    BY <1>2, <2>3, <2>4
<1>3. ASSUME NEW w \in Watches, NEW C \in SUBSET Conversations, Track(w, C)
      PROVE  WatchTypes'
  <2>1. /\ Only(latest, C) \in Anchors
        /\ \A c \in Conversations : Only(latest, C)[c] # 0 => c \in C
    BY OnlyType
  <2>2. Later(base[w], Only(latest, C)) \in Anchors
    BY <2>1, LaterType DEF WatchTypes
  <2>. QED
    BY <1>3, <2>1, <2>2 DEF Track, WatchTypes
<1>. QED
  BY <1>1, <1>2, <1>3, WatchFrame

\* What each step does to the scan jobs.
LEMMA ScanFrame ==
  ASSUME [Next]_vars
  PROVE  \/ UNCHANGED scan
         \/ \E s \in Scanners : Recover(s) \/ Execute(s) \/ Stop(s)
         \/ \E s \in Scanners, locked \in SUBSET Waiting : Claim(s, locked)
<1>1. CASE UNCHANGED vars
  BY <1>1 DEF vars
<1>2. CASE \E w \in Watches, C \in SUBSET Conversations : SetTracked(w, C)
  BY <1>2 DEF SetTracked, Track
<1>3. CASE \E w \in Watches, c \in Conversations, h \in Handoffs : Delegate(w, c, h)
  BY <1>3 DEF Delegate, Track
<1>4. CASE \E r \in Replies : Reply(r)
  BY <1>4 DEF Reply
<1>5. CASE \E t \in Tasks : Overdue(t)
  BY <1>5 DEF Overdue
<1>6. CASE \E c \in Conversations : Post(c)
  BY <1>6 DEF Post
<1>. QED
  BY <1>1, <1>2, <1>3, <1>4, <1>5, <1>6 DEF Next

\* A claim puts one item per claimed task into an empty batch; what it
\* claims was waiting and is marked running.
LEMMA Claiming ==
  ASSUME TypeOK, NEW s \in Scanners, NEW locked, Claim(s, locked)
  PROVE  \E claimed \in SUBSET Waiting :
           /\ scan[s].pc = "recovered"
           /\ scan' = [scan EXCEPT ![s] =
                [scan[s] EXCEPT !.pc = IF claimed = {} THEN "idle" ELSE "between",
                   !.batch = {[task |-> t, observed |-> Observed(t)] : t \in claimed}]]
           /\ status' = ClaimStatus(claimed)
           /\ UNCHANGED <<tracked, anchor, latest, told, base, lapsed>>
<1>1. PICK jobs \in Oldest(BatchSize, (Waiting \ locked) \cap Jobs) :
        \E rows \in Oldest(BatchSize - Cardinality(jobs), (Waiting \ locked) \cap Watches) :
          LET woken == {w \in rows : Changed(w) # {}}
              claimed == jobs \cup woken
          IN  /\ scan[s].pc = "recovered"
              /\ scan' = [scan EXCEPT ![s].pc = IF claimed = {} THEN "idle" ELSE "between",
                            ![s].batch = {[task |-> t, observed |-> Observed(t)] : t \in claimed}]
              /\ status' = ClaimStatus(claimed)
              /\ UNCHANGED lapsed
              /\ Unchanged
  BY DEF Claim
<1>2. PICK rows \in Oldest(BatchSize - Cardinality(jobs), (Waiting \ locked) \cap Watches) :
        LET woken == {w \in rows : Changed(w) # {}}
            claimed == jobs \cup woken
        IN  /\ scan[s].pc = "recovered"
            /\ scan' = [scan EXCEPT ![s].pc = IF claimed = {} THEN "idle" ELSE "between",
                          ![s].batch = {[task |-> t, observed |-> Observed(t)] : t \in claimed}]
            /\ status' = ClaimStatus(claimed)
            /\ UNCHANGED lapsed
            /\ Unchanged
  BY <1>1
<1>. DEFINE claimed == jobs \cup {w \in rows : Changed(w) # {}}
            items == {[task |-> t, observed |-> Observed(t)] : t \in claimed}
<1>3. claimed \in SUBSET Waiting
  BY DEF Oldest
<1>4. /\ scan[s].pc = "recovered"
      /\ scan' = [scan EXCEPT ![s] =
           [scan[s] EXCEPT !.pc = IF claimed = {} THEN "idle" ELSE "between", !.batch = items]]
  BY <1>2, Zenon
<1>5. /\ status' = ClaimStatus(claimed)
      /\ UNCHANGED <<tracked, anchor, latest, told, base, lapsed>>
  BY <1>2 DEF Unchanged
<1>. QED
  BY <1>3, <1>4, <1>5, Zenon

\* Every claimed item is one: jobs observe nothing, watches the latest
\* messages of what they track.
LEMMA ObservedType ==
  ASSUME TypeOK, NEW t \in Tasks
  PROVE  [task |-> t, observed |-> Observed(t)] \in Item
<1>1. NoAnchors \in Anchors
  BY BoundsAssumption DEF NoAnchors, Anchors, Versions
<1>2. Observed(t) \in Anchors
  BY <1>1, OnlyType DEF Observed, TypeOK
<1>. QED
  BY <1>2 DEF Item

LEMMA ScanTypeStep ==
  ASSUME TypeOK, [Next]_vars
  PROVE  ScanTypes'
<1>. USE TypeParts
<1>1. CASE UNCHANGED scan
  BY <1>1 DEF ScanTypes, InHand
<1>2. ASSUME NEW s \in Scanners, NEW r \in ScanState,
             scan' = [scan EXCEPT ![s] = r],
             r.item # None <=> r.pc \in {"running", "settling"}
      PROVE  ScanTypes'
  BY <1>2 DEF ScanTypes, InHand
<1>3. ASSUME NEW s \in Scanners, Recover(s) \/ Finish(s) \/ Run(s) \/ SettleError(s)
      PROVE  ScanTypes'
  <2>1. scan[s] \in ScanState /\ (scan[s].item # None <=> InHand(s))
    BY ScanType DEF TypeOK
  <2>2. CASE Recover(s)
    <3>1. [scan[s] EXCEPT !.pc = "recovered"] \in ScanState
      BY <2>1 DEF ScanState
    <3>. QED
      BY <1>2, <2>1, <2>2, <3>1 DEF Recover, ScanState, InHand
  <2>3. CASE Finish(s)
    <3>1. [scan[s] EXCEPT !.pc = "idle"] \in ScanState
      BY <2>1 DEF ScanState
    <3>. QED
      BY <1>2, <2>1, <2>3, <3>1 DEF Finish, ScanState, InHand
  <2>4. CASE Run(s)
    <3>1. PICK outcome \in {"ok", "interrupted", "error"} :
            scan' = [scan EXCEPT ![s] = [scan[s] EXCEPT !.pc = "settling", !.outcome = outcome]]
      BY <2>4 DEF Run
    <3>2. [scan[s] EXCEPT !.pc = "settling", !.outcome = outcome] \in ScanState
      BY <2>1 DEF ScanState
    <3>. QED
      BY <1>2, <2>1, <2>4, <3>1, <3>2 DEF Run, ScanState, InHand
  <2>5. CASE SettleError(s)
    <3>1. [scan[s] EXCEPT !.outcome = "error"] \in ScanState
      BY <2>1 DEF ScanState
    <3>2. [scan[s] EXCEPT !.pc = "between", !.item = None, !.outcome = "none"] \in ScanState
      BY <2>1 DEF ScanState
    <3>3. CASE scan[s].outcome = "error"
      BY <1>2, <2>1, <2>5, <3>2, <3>3 DEF SettleError, Done, ScanState, InHand
    <3>4. CASE scan[s].outcome # "error"
      BY <1>2, <2>1, <2>5, <3>1, <3>4 DEF SettleError, ScanState, InHand
    <3>. QED
      BY <3>3, <3>4
  <2>. QED
    BY <1>3, <2>2, <2>3, <2>4, <2>5
<1>4. ASSUME NEW s \in Scanners, NEW locked \in SUBSET Waiting, Claim(s, locked)
      PROVE  ScanTypes'
  <2>1. PICK claimed \in SUBSET Waiting :
          /\ scan[s].pc = "recovered"
          /\ scan' = [scan EXCEPT ![s] =
               [scan[s] EXCEPT !.pc = IF claimed = {} THEN "idle" ELSE "between",
                  !.batch = {[task |-> t, observed |-> Observed(t)] : t \in claimed}]]
    BY <1>4, Claiming
  <2>2. {[task |-> t, observed |-> Observed(t)] : t \in claimed} \in SUBSET Item
    BY ObservedType DEF Waiting
  <2>3. scan[s] \in ScanState /\ scan[s].item = None
    BY <2>1, ScanType DEF TypeOK, InHand
  <2>4. [scan[s] EXCEPT !.pc = IF claimed = {} THEN "idle" ELSE "between",
           !.batch = {[task |-> t, observed |-> Observed(t)] : t \in claimed}] \in ScanState
    BY <2>2, <2>3 DEF ScanState
  <2>. QED
    BY <1>2, <2>1, <2>3, <2>4 DEF ScanState
<1>5. ASSUME NEW s \in Scanners, Start(s)
      PROVE  ScanTypes'
  <2>1. PICK i \in scan[s].batch :
          scan' = [scan EXCEPT ![s] =
            [scan[s] EXCEPT !.pc = "running", !.item = i, !.batch = @ \ {i}]]
    BY <1>5 DEF Start
  <2>2. scan[s] \in ScanState /\ i \in Item /\ i # None
    BY ScanType, NoneAssumption DEF Item
  <2>3. [scan[s] EXCEPT !.pc = "running", !.item = i, !.batch = @ \ {i}] \in ScanState
    BY <2>2 DEF ScanState
  <2>. QED
    BY <1>2, <2>1, <2>2, <2>3 DEF ScanState
<1>6. ASSUME NEW s \in Scanners, scan' = Done(s)
      PROVE  ScanTypes'
  <2>. DEFINE r == [scan[s] EXCEPT !.pc = "between", !.item = None, !.outcome = "none"]
  <2>1. r \in ScanState /\ r.item = None /\ r.pc = "between"
    BY ScanType DEF ScanState
  <2>2. scan' = [scan EXCEPT ![s] = r]
    BY <1>6 DEF Done
  <2>. QED
    BY <1>2, <2>1, <2>2
<1>7. ASSUME NEW s \in Scanners, Stop(s)
      PROVE  ScanTypes'
  <2>1. Idle \in ScanState
    BY DEF Idle, ScanState
  <2>. QED
    BY <1>2, <1>7, <2>1 DEF Stop, Idle
<1>8. ASSUME NEW s \in Scanners, Execute(s)
      PROVE  ScanTypes'
  BY <1>3, <1>5, <1>6, <1>8
  DEF Execute, CompleteWatch, CompleteNothing, CompleteJob, Fail
<1>. QED
  BY <1>1, <1>3, <1>4, <1>7, <1>8, ScanFrame

LEMMA TypeStep ==
  ASSUME TypeOK, [Next]_vars
  PROVE  TypeOK'
<1>1. latest' \in Anchors
  <2>1. ASSUME NEW c \in Conversations, Post(c)
        PROVE  latest' \in Anchors
    BY <2>1, BoundsAssumption DEF Post, TypeOK, Anchors, Versions
  <2>2. CASE UNCHANGED latest
    BY <2>2 DEF TypeOK
  <2>. QED
    BY <2>1, <2>2 DEF Next, vars, Recover, Claim, Execute, Stop, Start, Run, Finish,
       CompleteWatch, CompleteNothing, CompleteJob, Fail, SettleError, SetTracked, Delegate,
       Track, Reply, Overdue, Unchanged
<1>2. RowTypes' /\ WatchTypes' /\ ScanTypes'
  BY RowTypeStep, WatchTypeStep, ScanTypeStep
<1>. QED
  BY <1>1, <1>2 DEF TypeOK, RowTypes, WatchTypes, ScanTypes, Statuses

-----------------------------------------------------------------------------
(* Batches *)

LEMMA BatchStep ==
  ASSUME TypeOK, Batches, [Next]_vars
  PROVE  Batches'
<1>1. CASE UNCHANGED scan
  BY <1>1 DEF Batches, InHand
<1>2. ASSUME NEW s \in Scanners, NEW r \in ScanState,
             scan' = [scan EXCEPT ![s] = r],
             r.pc \in {"idle", "recovered"} => r.batch = {},
             \A i, j \in r.batch : i.task = j.task => i = j,
             r.pc \in {"running", "settling"} => \A i \in r.batch : i.task # r.item.task
      PROVE  Batches'
  BY <1>2 DEF Batches, InHand, TypeOK
<1>3. ASSUME NEW s \in Scanners
      PROVE  /\ scan[s] \in ScanState
             /\ scan[s].pc \in {"idle", "recovered"} => scan[s].batch = {}
             /\ \A i, j \in scan[s].batch : i.task = j.task => i = j
             /\ InHand(s) => \A i \in scan[s].batch : i.task # scan[s].item.task
  BY ScanType DEF Batches
<1>4. ASSUME NEW s \in Scanners, scan' = Done(s), InHand(s)
      PROVE  Batches'
  <2>. DEFINE r == [scan[s] EXCEPT !.pc = "between", !.item = None, !.outcome = "none"]
  <2>1. r \in ScanState /\ r.pc = "between" /\ r.batch = scan[s].batch
    BY <1>3 DEF ScanState
  <2>2. scan' = [scan EXCEPT ![s] = r]
    BY <1>4 DEF Done
  <2>. QED
    BY <1>2, <1>3, <2>1, <2>2
<1>5. ASSUME NEW s \in Scanners, Start(s)
      PROVE  Batches'
  <2>1. PICK i \in scan[s].batch :
          scan' = [scan EXCEPT ![s] =
            [scan[s] EXCEPT !.pc = "running", !.item = i, !.batch = @ \ {i}]]
    BY <1>5 DEF Start
  <2>. DEFINE r == [scan[s] EXCEPT !.pc = "running", !.item = i, !.batch = @ \ {i}]
  <2>2. scan[s] \in ScanState /\ i \in Item
    BY ScanType
  <2>3. /\ r \in ScanState
        /\ r.pc = "running" /\ r.item = i /\ r.batch = scan[s].batch \ {i}
    BY <2>2 DEF ScanState
  <2>. QED
    BY <1>2, <1>3, <2>1, <2>3
<1>6. ASSUME NEW s \in Scanners, Run(s)
      PROVE  Batches'
  <2>1. PICK outcome \in {"ok", "interrupted", "error"} :
          scan' = [scan EXCEPT ![s] = [scan[s] EXCEPT !.pc = "settling", !.outcome = outcome]]
    BY <1>6 DEF Run
  <2>. DEFINE r == [scan[s] EXCEPT !.pc = "settling", !.outcome = outcome]
  <2>2. /\ r \in ScanState
        /\ r.pc = "settling" /\ r.item = scan[s].item /\ r.batch = scan[s].batch
    BY <1>3 DEF ScanState
  <2>3. InHand(s) /\ scan' = [scan EXCEPT ![s] = r]
    BY <1>6, <2>1 DEF Run, InHand
  <2>. HIDE DEF r
  <2>4. \A i, j \in r.batch : i.task = j.task => i = j
    BY <1>3, <2>2
  <2>5. \A i \in r.batch : i.task # r.item.task
    BY <1>3, <2>2, <2>3
  <2>. QED
    BY <1>2, <2>2, <2>3, <2>4, <2>5
<1>7. ASSUME NEW s \in Scanners, SettleError(s)
      PROVE  Batches'
  <2>1. CASE scan' = Done(s)
    BY <1>4, <1>7, <2>1 DEF SettleError, InHand
  <2>2. CASE scan' = [scan EXCEPT ![s].outcome = "error"]
    <3>. DEFINE r == [scan[s] EXCEPT !.outcome = "error"]
    <3>1. /\ r \in ScanState
          /\ r.pc = scan[s].pc /\ r.item = scan[s].item /\ r.batch = scan[s].batch
      BY <1>3 DEF ScanState
    <3>2. InHand(s) /\ scan[s].pc = "settling" /\ scan' = [scan EXCEPT ![s] = r]
      BY <1>7, <2>2 DEF SettleError, InHand
    <3>. HIDE DEF r
    <3>3. \A i, j \in r.batch : i.task = j.task => i = j
      BY <1>3, <3>1
    <3>4. \A i \in r.batch : i.task # r.item.task
      BY <1>3, <3>1, <3>2
    <3>. QED
      BY <1>2, <3>1, <3>2, <3>3, <3>4
  <2>. QED
    BY <1>7, <2>1, <2>2 DEF SettleError
<1>8. ASSUME NEW s \in Scanners, NEW locked \in SUBSET Waiting, Claim(s, locked)
      PROVE  Batches'
  <2>1. PICK claimed \in SUBSET Waiting :
          scan' = [scan EXCEPT ![s] =
               [scan[s] EXCEPT !.pc = IF claimed = {} THEN "idle" ELSE "between",
                  !.batch = {[task |-> t, observed |-> Observed(t)] : t \in claimed}]]
    BY <1>8, Claiming
  <2>. DEFINE items == {[task |-> t, observed |-> Observed(t)] : t \in claimed}
              r == [scan[s] EXCEPT !.pc = IF claimed = {} THEN "idle" ELSE "between",
                                   !.batch = items]
  <2>2. items \in SUBSET Item
    BY ObservedType DEF Waiting
  <2>3. r \in ScanState /\ r.batch = items /\ r.pc = IF claimed = {} THEN "idle" ELSE "between"
    BY <1>3, <2>2 DEF ScanState
  <2>4. \A i, j \in items : i.task = j.task => i = j
    OBVIOUS
  <2>5. claimed = {} => items = {}
    OBVIOUS
  <2>. HIDE DEF r, items
  <2>6. scan' = [scan EXCEPT ![s] = r]
    BY <2>1 DEF r, items
  <2>. QED
    BY <1>2, <2>3, <2>4, <2>5, <2>6
<1>9. ASSUME NEW s \in Scanners, Recover(s) \/ Finish(s) \/ Stop(s)
      PROVE  Batches'
  <2>1. PICK r \in {[scan[s] EXCEPT !.pc = "recovered"], [scan[s] EXCEPT !.pc = "idle"], Idle} :
          scan' = [scan EXCEPT ![s] = r] /\ (r # Idle => scan[s].batch = {})
    BY <1>3, <1>9 DEF Recover, Finish, Stop
  <2>2. r \in ScanState /\ r.batch = {} /\ r.pc \in {"idle", "recovered"}
    BY <1>3, <2>1 DEF Idle, ScanState
  <2>. QED
    BY <1>2, <2>1, <2>2
<1>10. ASSUME NEW s \in Scanners, CompleteWatch(s) \/ CompleteNothing(s) \/ CompleteJob(s) \/ Fail(s)
       PROVE  Batches'
  BY <1>4, <1>10 DEF CompleteWatch, CompleteNothing, CompleteJob, Fail, InHand
<1>. QED
  BY <1>1, <1>5, <1>6, <1>7, <1>8, <1>9, <1>10, ScanFrame DEF Execute

-----------------------------------------------------------------------------
(* Nothing is swallowed *)

\* The three histories only grow together with the anchors: a run stores what
\* its persisted summary covers, setting the tracked sessions what it read.
LEMMA SwallowStep ==
  ASSUME TypeOK, NothingSwallowed, [Next]_vars
  PROVE  NothingSwallowed'
<1>1. \A v \in Versions : v \in Nat
  BY BoundsAssumption DEF Versions
<1>2. ASSUME NEW w \in Watches, NEW c \in Conversations
      PROVE  anchor[w][c] \in Nat /\ told[w][c] \in Nat /\ base[w][c] \in Nat
  BY <1>1 DEF TypeOK, Anchors
<1>3. CASE UNCHANGED <<tracked, anchor, told, base>>
  BY <1>3 DEF NothingSwallowed
<1>4. ASSUME NEW s \in Scanners, CompleteWatch(s) \/ Fail(s),
             NEW w \in Watches, NEW c \in Conversations
      PROVE  anchor'[w][c] <= told'[w][c] \/ anchor'[w][c] <= base'[w][c]
  <2>. DEFINE t == scan[s].item.task
              observed == scan[s].item.observed
  <2>1. observed \in Anchors /\ observed[c] \in Nat
    <3>1. observed \in Anchors
      BY <1>4, ScanType DEF CompleteWatch, Fail, InHand
    <3>. QED
      BY <1>1, <3>1 DEF Anchors
  <2>2. /\ Later(told[w], observed) \in Anchors /\ Later(told[w], observed)[c] \in Nat
        /\ told[w][c] <= Later(told[w], observed)[c] /\ observed[c] <= Later(told[w], observed)[c]
    <3>1. told[w] \in Anchors
      BY DEF TypeOK
    <3>2. Later(told[w], observed) \in Anchors
      BY <2>1, <3>1, LaterType
    <3>. QED
      BY <1>1, <2>1, <3>1, <3>2, LaterType DEF Anchors
  <2>3. /\ base' = base
        /\ told'[w] \in {told[w], Later(told[w], observed)}
        /\ \/ anchor'[w] = anchor[w]
           \/ /\ told'[w] = Later(told[w], observed)
              /\ anchor'[w] = Only(observed, tracked[w])
    BY <1>4 DEF CompleteWatch, Fail, Acknowledged, TypeOK
  <2>4. Only(observed, tracked[w])[c] \in Nat /\ Only(observed, tracked[w])[c] <= observed[c]
    <3>1. Only(observed, tracked[w]) \in Anchors
      BY <2>1, OnlyType
    <3>. QED
      BY <1>1, <2>1, <3>1, OnlyType DEF Anchors
  <2>5. CASE anchor'[w] = anchor[w]
    <3>1. anchor[w][c] <= told[w][c] \/ anchor[w][c] <= base[w][c]
      BY DEF NothingSwallowed
    <3>. QED
      BY <1>2, <2>2, <2>3, <2>5, <3>1
  <2>6. CASE told'[w] = Later(told[w], observed) /\ anchor'[w] = Only(observed, tracked[w])
    BY <2>1, <2>2, <2>4, <2>6
  <2>. QED
    BY <2>3, <2>5, <2>6
<1>5. ASSUME NEW v \in Watches, NEW C \in SUBSET Conversations, Track(v, C),
             NEW w \in Watches, NEW c \in Conversations
      PROVE  anchor'[w][c] <= told'[w][c] \/ anchor'[w][c] <= base'[w][c]
  <2>1. Only(latest, C) \in Anchors /\ base[w] \in Anchors
    BY OnlyType DEF TypeOK
  <2>2. Only(latest, C)[c] <= Later(base[w], Only(latest, C))[c]
    BY <2>1, LaterType
  <2>3. CASE w = v
    BY <1>5, <2>2, <2>3 DEF Track, TypeOK
  <2>4. CASE w # v
    BY <1>5, <2>4 DEF Track, TypeOK, NothingSwallowed
  <2>. QED
    BY <2>3, <2>4
<1>. QED
  BY <1>3, <1>4, <1>5, WatchFrame DEF NothingSwallowed

-----------------------------------------------------------------------------
(* Claims *)

\* A claim not ended yet.
InForce(s, t) == Holds(s, t) /\ <<s, t>> \notin lapsed

\* What keeps the claims exclusive in a step that claims nothing: a claim in
\* force was one before, and its row is still running if it was.
Kept ==
  \A u \in Scanners, t \in Tasks :
    InForce(u, t)' => InForce(u, t) /\ (status[t] = "running" => status'[t] = "running")

\* When a scan leaves its item behind it no longer holds the task of it,
\* because the rest of its batch has other tasks.
LEMMA DoneHolds ==
  ASSUME TypeOK, Batches, NEW s \in Scanners, InHand(s), scan' = Done(s)
  PROVE  \A u \in Scanners, t \in Tasks :
           Holds(u, t)' => Holds(u, t) /\ (u = s => t # scan[s].item.task)
<1>. DEFINE r == [scan[s] EXCEPT !.pc = "between", !.item = None, !.outcome = "none"]
<1>1. r.pc = "between" /\ r.batch = scan[s].batch
  BY ScanType DEF ScanState
<1>2. scan'[s] = r /\ \A u \in Scanners \ {s} : scan'[u] = scan[u]
  BY DEF Done, TypeOK
<1>3. \A i \in scan[s].batch : i.task # scan[s].item.task
  BY DEF Batches
<1>. HIDE DEF r
<1>4. ASSUME NEW t \in Tasks, Holds(s, t)'
      PROVE  Holds(s, t) /\ t # scan[s].item.task
  BY <1>1, <1>2, <1>3, <1>4 DEF Holds, InHand
<1>5. ASSUME NEW u \in Scanners \ {s}, NEW t \in Tasks, Holds(u, t)'
      PROVE  Holds(u, t)
  BY <1>2, <1>5 DEF Holds, InHand
<1>. QED
  BY <1>4, <1>5

LEMMA KeptStep ==
  ASSUME TypeOK, Batches, [Next]_vars,
         ~ \E s \in Scanners, locked \in SUBSET Waiting : Claim(s, locked)
  PROVE  Kept
<1>1. CASE UNCHANGED vars
  BY <1>1 DEF vars, Kept, InForce, Holds, InHand
<1>2. ASSUME NEW s \in Scanners, Recover(s)
      PROVE  Kept
  <2>1. scan[s] \in ScanState /\ scan[s].pc = "idle"
    BY <1>2, ScanType DEF Recover
  <2>2. scan'[s] = [scan[s] EXCEPT !.pc = "recovered"] /\ \A u \in Scanners \ {s} : scan'[u] = scan[u]
    BY <1>2 DEF Recover, TypeOK
  <2>3. scan'[s].pc = "recovered" /\ scan'[s].batch = scan[s].batch
    BY <2>1, <2>2 DEF ScanState
  <2>4. \A u \in Scanners, t \in Tasks : Holds(u, t)' => Holds(u, t)
    BY <2>1, <2>2, <2>3 DEF Holds, InHand
  <2>5. ASSUME NEW u \in Scanners, NEW t \in Tasks, InForce(u, t)'
        PROVE  <<u, t>> \notin lapsed /\ t \notin Stale
    BY <1>2, <2>4, <2>5 DEF Recover, InForce, Ended
  <2>6. \A t \in Tasks \ Stale : status'[t] = status[t]
    BY <1>2 DEF Recover
  <2>. QED
    BY <2>4, <2>5, <2>6 DEF Kept, InForce
<1>3. ASSUME NEW s \in Scanners, Start(s)
      PROVE  Kept
  <2>1. PICK i \in scan[s].batch :
          scan' = [scan EXCEPT ![s] =
            [scan[s] EXCEPT !.pc = "running", !.item = i, !.batch = @ \ {i}]]
    BY <1>3 DEF Start
  <2>2. scan'[s].item = i /\ scan'[s].batch = scan[s].batch \ {i}
    BY <2>1, ScanType DEF ScanState, TypeOK
  <2>3. \A u \in Scanners \ {s} : scan'[u] = scan[u]
    BY <2>1 DEF TypeOK
  <2>4. \A u \in Scanners, t \in Tasks : Holds(u, t)' => Holds(u, t)
    BY <2>2, <2>3 DEF Holds, InHand
  <2>. QED
    BY <1>3, <2>4 DEF Start, Kept, InForce
<1>4. ASSUME NEW s \in Scanners, Run(s) \/ Finish(s) \/ (SettleError(s) /\ scan' # Done(s))
      PROVE  Kept
  <2>1. \A u \in Scanners \ {s} : scan'[u] = scan[u]
    BY <1>4 DEF Run, Finish, SettleError, TypeOK
  <2>2. /\ scan'[s].batch = scan[s].batch /\ scan'[s].item = scan[s].item
        /\ scan'[s].pc \in {"running", "settling"} => InHand(s)
    <3>1. scan[s] \in ScanState /\ scan \in [Scanners -> ScanState]
      BY DEF TypeOK
    <3>2. CASE Run(s)
      BY <3>1, <3>2 DEF Run, InHand, ScanState
    <3>3. CASE Finish(s)
      BY <3>1, <3>3 DEF Finish, ScanState
    <3>4. CASE SettleError(s) /\ scan' # Done(s)
      <4>1. scan[s].pc = "settling" /\ scan' = [scan EXCEPT ![s].outcome = "error"]
        BY <3>4 DEF SettleError
      <4>. QED
        BY <3>1, <4>1 DEF InHand, ScanState
    <3>. QED
      BY <1>4, <3>2, <3>3, <3>4
  <2>4. \A u \in Scanners, t \in Tasks : Holds(u, t)' => Holds(u, t)
    BY <2>1, <2>2 DEF Holds, InHand
  <2>5. UNCHANGED <<status, lapsed>>
    BY <1>4 DEF Run, Finish, SettleError
  <2>. QED
    BY <2>4, <2>5 DEF Kept, InForce
<1>5. ASSUME NEW s \in Scanners, CompleteNothing(s) \/ (SettleError(s) /\ scan' = Done(s))
      PROVE  Kept
  <2>. DEFINE t == scan[s].item.task
  <2>1. InHand(s) /\ scan' = Done(s) /\ lapsed' \in {lapsed, lapsed \ {<<s, t>>}} /\ status' = status
    BY <1>5 DEF CompleteNothing, SettleError, InHand
  <2>2. \A u \in Scanners, v \in Tasks : Holds(u, v)' => Holds(u, v) /\ (u = s => v # t)
    BY <2>1, DoneHolds
  <2>. QED
    BY <2>1, <2>2 DEF Kept, InForce
<1>6. ASSUME NEW s \in Scanners, CompleteWatch(s) \/ CompleteJob(s) \/ Fail(s)
      PROVE  Kept
  <2>. DEFINE t == scan[s].item.task
  <2>1. InHand(s) /\ scan' = Done(s) /\ lapsed' = Settled(s, t)
    BY <1>6 DEF CompleteWatch, CompleteJob, Fail, InHand
  <2>2. \A v \in Tasks : v # t => status'[v] = status[v]
    BY <1>6 DEF CompleteWatch, CompleteJob, Fail, Set, TypeOK
  <2>3. \A u \in Scanners, v \in Tasks : Holds(u, v)' => Holds(u, v) /\ (u = s => v # t)
    BY <2>1, DoneHolds
  <2>4. ASSUME NEW u \in Scanners, NEW v \in Tasks, InForce(u, v)'
        PROVE  <<u, v>> \notin lapsed /\ v # t
    BY <2>1, <2>3, <2>4 DEF InForce, Settled, Ended
  <2>. QED
    BY <2>2, <2>3, <2>4 DEF Kept, InForce
<1>7. ASSUME NEW s \in Scanners, Stop(s)
      PROVE  Kept
  <2>1. scan'[s] = Idle /\ \A u \in Scanners \ {s} : scan'[u] = scan[u]
    BY <1>7 DEF Stop, TypeOK
  <2>2. \A t \in Tasks : ~Holds(s, t)'
    BY <2>1 DEF Holds, InHand, Idle
  <2>3. \A u \in Scanners \ {s}, t \in Tasks : InForce(u, t)' => InForce(u, t)
    BY <1>7, <2>1 DEF Stop, InForce, Holds, InHand, TypeOK
  <2>. QED
    BY <1>7, <2>2, <2>3 DEF Stop, Kept, InForce
<1>8. ASSUME NEW w \in Watches, NEW C, Track(w, C),
             \A t \in Tasks \ {w} : status[t] = "running" => status'[t] = "running"
      PROVE  Kept
  <2>1. scan' = scan /\ lapsed' = Ended({w})
    BY <1>8 DEF Track
  <2>2. \A u \in Scanners, t \in Tasks : InForce(u, t)' => InForce(u, t) /\ t # w
    BY <2>1 DEF InForce, Ended, Holds, InHand
  <2>. QED
    BY <1>8, <2>2 DEF Kept
<1>9. ASSUME NEW w \in Watches, NEW C, SetTracked(w, C)
      PROVE  Kept
  BY <1>8, <1>9 DEF SetTracked, Set, TypeOK
<1>10. ASSUME NEW w \in Watches, NEW c \in Conversations, NEW h \in Handoffs, Delegate(w, c, h)
       PROVE  Kept
  BY <1>8, <1>10 DEF Delegate, TypeOK
<1>11. ASSUME UNCHANGED <<scan, lapsed>>,
              \A t \in Tasks : status[t] = "running" => status'[t] = "running"
       PROVE  Kept
  BY <1>11 DEF Kept, InForce, Holds, InHand
<1>12. CASE \E r \in Replies : Reply(r)
  BY <1>11, <1>12 DEF Reply, Set, TypeOK
<1>13. CASE \E t \in Tasks : Overdue(t)
  BY <1>11, <1>13 DEF Overdue
<1>14. CASE \E c \in Conversations : Post(c)
  BY <1>11, <1>14 DEF Post
<1>15. ASSUME NEW s \in Scanners, Execute(s)
       PROVE  Kept
  <2>1. CASE Start(s)
    BY <1>3, <2>1
  <2>2. CASE Run(s) \/ Finish(s)
    BY <1>4, <2>2
  <2>3. CASE CompleteNothing(s)
    BY <1>5, <2>3
  <2>4. CASE SettleError(s)
    <3>1. CASE scan' = Done(s)
      BY <1>5, <2>4, <3>1
    <3>2. CASE scan' # Done(s)
      BY <1>4, <2>4, <3>2
    <3>. QED
      BY <3>1, <3>2
  <2>5. CASE CompleteWatch(s) \/ CompleteJob(s) \/ Fail(s)
    BY <1>6, <2>5
  <2>. QED
    BY <1>15, <2>1, <2>2, <2>3, <2>4, <2>5 DEF Execute
<1>. QED
  BY <1>1, <1>2, <1>7, <1>9, <1>10, <1>12, <1>13, <1>14, <1>15 DEF Next

\* A scan claims rows that wait, hence rows nobody holds in good faith.
LEMMA ClaimStep ==
  ASSUME TypeOK, Batches, HeldIsRunning, ExclusiveClaim, [Next]_vars
  PROVE  HeldIsRunning' /\ ExclusiveClaim'
<1>1. CASE ~ \E s \in Scanners, locked \in SUBSET Waiting : Claim(s, locked)
  <2>1. Kept
    BY <1>1, KeptStep
  <2>. QED
    BY <2>1 DEF Kept, InForce, HeldIsRunning, ExclusiveClaim
<1>2. ASSUME NEW s \in Scanners, NEW locked \in SUBSET Waiting, Claim(s, locked)
      PROVE  HeldIsRunning' /\ ExclusiveClaim'
  <2>1. PICK claimed \in SUBSET Waiting :
          /\ scan[s].pc = "recovered"
          /\ scan' = [scan EXCEPT ![s] =
               [scan[s] EXCEPT !.pc = IF claimed = {} THEN "idle" ELSE "between",
                  !.batch = {[task |-> t, observed |-> Observed(t)] : t \in claimed}]]
          /\ status' = ClaimStatus(claimed)
          /\ lapsed' = lapsed
    BY <1>2, Claiming
  <2>2. /\ scan'[s].pc \in {"idle", "between"}
        /\ scan'[s].batch = {[task |-> t, observed |-> Observed(t)] : t \in claimed}
        /\ \A u \in Scanners \ {s} : scan'[u] = scan[u]
    <3>1. scan[s] \in ScanState /\ scan \in [Scanners -> ScanState]
      BY DEF TypeOK
    <3>. QED
      BY <2>1, <3>1 DEF ScanState
  <2>3. \A t : Holds(s, t)' => t \in claimed
    BY <2>2 DEF Holds, InHand
  <2>4. \A u \in Scanners \ {s}, t \in Tasks : InForce(u, t)' => InForce(u, t)
    BY <2>1, <2>2 DEF InForce, Holds, InHand
  <2>5. \A t \in claimed : t \in Tasks /\ status[t] = "waiting"
    BY DEF Waiting
  <2>6. \A t \in Tasks : status'[t] = IF t \in claimed THEN "running" ELSE status[t]
    BY <2>1 DEF ClaimStatus
  <2>7. \A u \in Scanners \ {s}, t \in Tasks : InForce(u, t)' => t \notin claimed /\ status'[t] = "running"
    BY <2>4, <2>5, <2>6 DEF InForce, HeldIsRunning
  <2>8. \A u \in Scanners, t \in Tasks : InForce(u, t)' => status'[t] = "running"
    BY <2>3, <2>6, <2>7 DEF InForce
  <2>9. \A u, v \in Scanners, t \in Tasks : InForce(u, t)' /\ InForce(v, t)' => u = v
    BY <2>3, <2>4, <2>7 DEF InForce, ExclusiveClaim
  <2>. QED
    BY <2>8, <2>9 DEF InForce, HeldIsRunning, ExclusiveClaim
<1>. QED
  BY <1>1, <1>2

-----------------------------------------------------------------------------
(* Follow-ups live while they track *)

LEMMA LiveStep ==
  ASSUME TypeOK, LiveWhileTracking, [Next]_vars
  PROVE  LiveWhileTracking'
<1>. DEFINE Live(w) == status[w] \in {"waiting", "running"} <=> tracked[w] # {} /\ status[w] # "failed"
<1>1. Watches \subseteq Tasks /\ \A w \in Watches, t \in Jobs : w # t
  BY KindsAssumption DEF Tasks
<1>2. \A w \in Watches : Live(w)
  BY DEF LiveWhileTracking
<1>3. CASE UNCHANGED vars
  BY <1>3 DEF vars, LiveWhileTracking
<1>4. ASSUME NEW s \in Scanners, Recover(s)
      PROVE  LiveWhileTracking'
  <2>1. ASSUME NEW w \in Watches
        PROVE  status'[w] = status[w] \/ (status[w] = "running" /\ status'[w] = "waiting")
    <3>1. w \in Tasks /\ status' = [t \in Tasks |-> IF t \in Stale THEN "waiting" ELSE status[t]]
      BY <1>1, <1>4 DEF Recover
    <3>2. w \in Stale => status[w] = "running"
      BY DEF Stale
    <3>. QED
      BY <3>1, <3>2
  <2>. QED
    BY <1>2, <1>4, <2>1 DEF Recover, Unchanged, LiveWhileTracking
<1>5. ASSUME NEW s \in Scanners, NEW locked \in SUBSET Waiting, Claim(s, locked)
      PROVE  LiveWhileTracking'
  <2>1. PICK claimed \in SUBSET Waiting : status' = ClaimStatus(claimed) /\ tracked' = tracked
    BY <1>5, Claiming
  <2>2. ASSUME NEW w \in Watches
        PROVE  status'[w] = status[w] \/ (status[w] = "waiting" /\ status'[w] = "running")
    <3>1. w \in Tasks /\ status' = [t \in Tasks |-> IF t \in claimed THEN "running" ELSE status[t]]
      BY <1>1, <2>1 DEF ClaimStatus
    <3>2. w \in claimed => status[w] = "waiting"
      BY DEF Waiting
    <3>. QED
      BY <3>1, <3>2
  <2>. QED
    BY <1>2, <2>1, <2>2 DEF LiveWhileTracking
<1>6. ASSUME NEW s \in Scanners, Execute(s)
      PROVE  LiveWhileTracking'
  <2>1. CASE Start(s) \/ Run(s) \/ Finish(s)
    BY <2>1 DEF Start, Run, Finish, Unchanged, LiveWhileTracking
  <2>2. CASE CompleteNothing(s) \/ SettleError(s)
    BY <2>2 DEF CompleteNothing, SettleError, Unchanged, LiveWhileTracking
  <2>3. CASE CompleteWatch(s)
    BY <1>1, <1>2, <2>3 DEF CompleteWatch, Set, TypeOK, LiveWhileTracking
  <2>4. CASE CompleteJob(s)
    BY <1>1, <1>2, <2>4 DEF CompleteJob, Set, Unchanged, TypeOK, LiveWhileTracking
  <2>5. CASE Fail(s)
    BY <1>1, <1>2, <2>5 DEF Fail, Set, TypeOK, LiveWhileTracking
  <2>. QED
    BY <1>6, <2>1, <2>2, <2>3, <2>4, <2>5 DEF Execute
<1>7. ASSUME NEW s \in Scanners, Stop(s)
      PROVE  LiveWhileTracking'
  BY <1>7 DEF Stop, Unchanged, LiveWhileTracking
<1>8. ASSUME NEW v \in Watches, NEW C, Track(v, C), status'[v] = Armed(v, C),
             \A w \in Watches \ {v} : status'[w] = status[w]
      PROVE  LiveWhileTracking'
  BY <1>1, <1>2, <1>8 DEF Track, Armed, TypeOK, LiveWhileTracking
<1>9. ASSUME NEW w \in Watches, NEW C, SetTracked(w, C)
      PROVE  LiveWhileTracking'
  BY <1>1, <1>8, <1>9 DEF SetTracked, Set, TypeOK
<1>10. ASSUME NEW w \in Watches, NEW c \in Conversations, NEW h \in Handoffs, Delegate(w, c, h)
       PROVE  LiveWhileTracking'
  BY <1>1, <1>8, <1>10 DEF Delegate, Jobs, TypeOK
<1>11. ASSUME NEW r \in Replies, Reply(r)
       PROVE  LiveWhileTracking'
  BY <1>1, <1>2, <1>11 DEF Reply, Set, Unchanged, Jobs, TypeOK, LiveWhileTracking
<1>12. ASSUME NEW t \in Tasks, Overdue(t)
       PROVE  LiveWhileTracking'
  BY <1>12 DEF Overdue, Unchanged, LiveWhileTracking
<1>13. ASSUME NEW c \in Conversations, Post(c)
       PROVE  LiveWhileTracking'
  BY <1>13 DEF Post, LiveWhileTracking
<1>. QED
  BY <1>3, <1>4, <1>5, <1>6, <1>7, <1>9, <1>10, <1>11, <1>12, <1>13 DEF Next

-----------------------------------------------------------------------------
(* The inductive invariant and its consequences *)

LEMMA InitInv == Init => IInv
<1>. SUFFICES ASSUME Init PROVE IInv
  OBVIOUS
<1>1. NoAnchors \in Anchors /\ \A c \in Conversations : NoAnchors[c] = 0
  BY BoundsAssumption DEF NoAnchors, Anchors, Versions
<1>2. Idle \in ScanState
  BY DEF Idle, ScanState
<1>3. \A s \in Scanners : /\ scan[s].pc = "idle" /\ scan[s].batch = {} /\ scan[s].item = None
  BY DEF Init, Idle
<1>4. TypeOK
  <2>1. /\ status \in [Tasks -> {"absent", "waiting", "running", "completed", "failed"}]
        /\ overdue \in [Tasks -> BOOLEAN]
        /\ tracked \in [Watches -> SUBSET Conversations]
        /\ older \in SUBSET (Watches \X Watches)
        /\ lapsed \in SUBSET (Scanners \X Tasks)
    BY DEF Init
  <2>2. /\ anchor \in [Watches -> Anchors] /\ latest \in Anchors
        /\ told \in [Watches -> Anchors] /\ base \in [Watches -> Anchors]
        /\ \A w \in Watches, c \in Conversations : anchor[w][c] # 0 => c \in tracked[w]
    BY <1>1 DEF Init
  <2>3. scan \in [Scanners -> ScanState] /\ \A s \in Scanners : (scan[s].item # None) <=> InHand(s)
    BY <1>2, <1>3 DEF Init, InHand
  <2>. QED
    BY <2>1, <2>2, <2>3 DEF TypeOK
<1>5. \A s \in Scanners, t \in Tasks : ~Holds(s, t)
  BY <1>3 DEF Holds, InHand
<1>6. Batches
  BY <1>3 DEF Batches, InHand
<1>7. NothingSwallowed
  BY <1>1 DEF Init, NothingSwallowed
<1>8. LiveWhileTracking
  BY DEF Init, LiveWhileTracking, Tasks
<1>. QED
  BY <1>4, <1>5, <1>6, <1>7, <1>8 DEF IInv, HeldIsRunning, ExclusiveClaim

LEMMA StepInv == IInv /\ [Next]_vars => IInv'
<1>. SUFFICES ASSUME IInv, [Next]_vars PROVE IInv'
  OBVIOUS
<1>. QED
  BY TypeStep, BatchStep, ClaimStep, SwallowStep, LiveStep DEF IInv

LEMMA Invariance == Spec => []IInv
BY InitInv, StepInv, PTL DEF Spec

\* Rows, scan jobs and anchors have their types in every reachable state;
\* anchors are stored for tracked conversations only.
THEOREM TypeCorrect == Spec => []TypeOK
<1>1. IInv => TypeOK
  BY DEF IInv
<1>. QED
  BY <1>1, Invariance, PTL

\* No two scans hold a task in good faith, however scans, timeouts, crashes
\* and re-arming interleave (claim_due_tasks, recover_stale_running_tasks).
THEOREM ClaimsAreExclusive == Spec => []ExclusiveClaim
<1>1. IInv => ExclusiveClaim
  BY DEF IInv
<1>. QED
  BY <1>1, Invariance, PTL

\* A stored anchor is covered by a persisted summary or by an explicit
\* setting of the tracked sessions (complete_task, _set_tracked_sessions).
THEOREM NothingIsSwallowed == Spec => []NothingSwallowed
<1>1. IInv => NothingSwallowed
  BY DEF IInv
<1>. QED
  BY <1>1, Invariance, PTL

\* A follow-up is armed or running exactly while it tracks something and has
\* not failed (complete_task, fail_task, _set_tracked_sessions).
THEOREM LivesWhileTracking == Spec => []LiveWhileTracking
<1>1. IInv => LiveWhileTracking
  BY DEF IInv
<1>. QED
  BY <1>1, Invariance, PTL

\* A task that waits, was never inserted or is settled is held by no scan in
\* good faith: whoever still executes it has lost its claim.
THEOREM OnlyRunningIsHeld == Spec => []HeldIsRunning
<1>1. IInv => HeldIsRunning
  BY DEF IInv
<1>. QED
  BY <1>1, Invariance, PTL

=============================================================================
