----------------------------- MODULE MCFrontend -----------------------------
(***************************************************************************)
(* Safety of four components that span the backend and the browser, each   *)
(* on a small instance: the delivery of a message, the blocks it is made   *)
(* of, the refresh of the session, and a conversation with the Hub         *)
(* Assistant.  They share no state; a behaviour is one of one of them,     *)
(* chosen at the start ("focus").                                          *)
(***************************************************************************)
EXTENDS StreamResume, BlockReducers, AuthRefresh, AssistantRuntime, TLC

\* Tabs and runs, and requests and operations, share their values: no behaviour has both.
Symmetry == Permutations(Tabs) \cup Permutations(Requests)
              \cup Permutations(Permissions) \cup Permutations(Repliers)

VARIABLE focus

all == <<focus, streamVars, reducerVars, authVars, assistantVars>>

FrontendInit ==
  /\ focus \in {"stream", "blocks", "auth", "assistant"}
  /\ StreamInit /\ BlockInit /\ AuthInit /\ AssistantInit
  /\ focus # "auth" => jar = NoCookie

Focus(f) == focus = f /\ UNCHANGED focus

Usual == {{"text"}, {"text", "end"}, {"status"}, {"status", "terminal"}}

\* One of the first two events of a message may be an unusual one: a question, a text in
\* a status, or a number of the agent's own.
OneUnusual ==
  run'.pc = "relay" /\ run.pc = "reading" =>
    \/ run'.frame.parts \in Usual /\ run'.frame.seen = 0
    \/ /\ run'.no = 1 /\ run'.count <= 2 /\ ~db.asked /\ ~run.ahead
       /\ run'.frame.parts = {"status"} \/ run'.frame.seen = 0

\* A resumption uses the same transport and is explored as far as the second event of the
\* agent, the first after an unusual one and over a WebSocket; while it reads, its faults are
\* losses of the connection and crashes.
ShortResumption ==
  run'.no = 2 =>
    /\ run'.kind = run.kind /\ run'.outcome # "error"
    /\ run'.count <= IF db.asked \/ run.ahead \/ run.kind = "ws" THEN 1 ELSE 2

Ongoing(S, f) == Cardinality({x \in S : f[x].pc # "idle"})
Requested == {q \in Permissions : ask[q].stage = "asked"}

\* Two runs or answers at a time; a second request while one answer is in progress; a run
\* with all write tools before any request.
TwoAtATime ==
  /\ Ongoing(Runs, exec) + Ongoing(Repliers, answer) <= 2
  /\ \A r \in Runs : Cardinality(exec[r].wants) <= 1
  /\ opened => Requested = {}
  /\ \/ Cardinality(Requested) <= 1
     \/ /\ Ongoing(Repliers, answer) <= 1 /\ lastState <= 1 /\ runsLeft > 0
        /\ \A q \in Permissions : ~ask[q].expired
  /\ runsLeft = 0 => Ongoing(Repliers, answer) = 0 /\ lastState <= 1

FrontendNext ==
  \/ /\ Focus("stream") /\ StreamNext /\ OneUnusual /\ ShortResumption
     /\ UNCHANGED <<reducerVars, authVars, assistantVars>>
  \/ Focus("blocks") /\ BlockNext /\ UNCHANGED <<streamVars, authVars, assistantVars>>
  \/ Focus("auth") /\ AuthNext /\ UNCHANGED <<streamVars, reducerVars, assistantVars>>
  \/ /\ Focus("assistant") /\ AssistantNext /\ TwoAtATime'
     /\ UNCHANGED <<streamVars, reducerVars, authVars>>

FrontendSpec == FrontendInit /\ [][FrontendNext]_all

\* The variables of the component in focus keep their types.
FrontendTypesOK ==
  /\ focus = "stream" => StreamTypeOK
  /\ focus = "blocks" => BlockTypeOK
  /\ focus = "auth" => AuthTypeOK
  /\ focus = "assistant" => AssistantTypeOK
=============================================================================
