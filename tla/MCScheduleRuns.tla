--------------------------- MODULE MCScheduleRuns ---------------------------
(***************************************************************************)
(* Small instances of ScheduleRuns. The configurations choose the sets;    *)
(* Runs bounds how often tasks can be enqueued. Where two of everything is *)
(* too much for TLC, a run keeps to the states in which only some of the   *)
(* actors are busy: each question has two actors of the kind it is about.  *)
(***************************************************************************)
EXTENDS ScheduleRuns, TLC

Symmetry ==
  Permutations(Tasks) \cup Permutations(Runs) \cup Permutations(Workers)
    \cup Permutations(Dispatchers) \cup Permutations(Sessions)

AtMostOne(S) == Cardinality(S) <= 1

OneTask == AtMostOne({t \in Tasks : task[t].life # "absent"})
OneRun == AtMostOne({r \in Runs : run[r].status # "unused"})
OneWorker == AtMostOne({w \in Workers : worker[w] # IdleWorker})
OneSession == AtMostOne({s \in Sessions : api[s].op # "none"})
OneDispatcher == AtMostOne({d \in Dispatchers : disp[d] # Off})

NoWorker == \A w \in Workers : worker[w] = IdleWorker
Unasked == \A s \in Sessions : api[s].op = "none"

\* One task: two workers and two runs, with requests in between, or one of each kind
\* together with a request, or two dispatchers that both believe they lead. Two tasks:
\* one worker, one run and one request at a time, or two requests and no worker.
CoreOrQuota ==
  \/ OneTask /\ OneDispatcher /\ OneSession /\ (OneRun \/ OneWorker \/ Unasked)
  \/ OneTask /\ OneWorker /\ OneSession
  \/ OneDispatcher /\ OneRun /\ NoWorker
  \/ OneDispatcher /\ OneRun /\ OneWorker /\ OneSession

CoreSpec == Init /\ [][Next /\ CoreOrQuota']_vars

=============================================================================
