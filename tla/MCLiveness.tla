----------------------------- MODULE MCLiveness -----------------------------
(***************************************************************************)
(* Liveness of three components that share no state: the scans of the Hub  *)
(* Assistant, the registry of running invocations and the pool of A2A      *)
(* clients.  A behaviour is one of one of them, chosen at the start        *)
(* ("focus"); the others stay as they began.  The fairness of each is its  *)
(* module's, for the component in focus.                                   *)
(***************************************************************************)
EXTENDS HubAssistantTasks, InvokeRegistry, ClientPool, TLC

VARIABLE focus

hubVars == vars
all == <<focus, hubVars, regVars, poolVars>>

LiveInit ==
  /\ focus \in {"hub", "registry", "pool"}
  /\ Init /\ RegInit /\ PoolInit

\* Permission replies and delegations apart.
OneKindOfJob ==
  \/ \A q \in Replies : status[q] = "absent"
  \/ \A h \in Handoffs : status[h] = "absent"

Hub(A) == focus = "hub" /\ A /\ OneKindOfJob' /\ UNCHANGED <<focus, regVars, poolVars>>
Registry(A) == focus = "registry" /\ A /\ UNCHANGED <<focus, hubVars, poolVars>>
Pool(A) == focus = "pool" /\ A /\ UNCHANGED <<focus, hubVars, regVars>>

LiveNext == Hub(Next) \/ Registry(RegNext) \/ Pool(PoolNext)

HubFairness ==
  /\ \A s \in Scanners :
       WF_all(Hub(Recover(s))) /\ SF_all(Hub(Claim(s, {}))) /\ WF_all(Hub(Execute(s)))
  /\ \A t \in Tasks : WF_all(Hub(Overdue(t)))

RegistryFairness ==
  /\ \A i \in Invokes :
       /\ WF_all(Registry(Advance(i)))
       /\ WF_all(Registry(inv[i].kind = "job" /\ InvokeEnds(i)))
  /\ \A c \in Controls :
       WF_all(Registry(\E outcome \in Outcomes : ControlCancelReturns(c, outcome)))

PoolFairness ==
  /\ \A k \in Calls : WF_all(Pool(CallDone(k)))
  /\ \A c \in Clients : WF_all(Pool(CloseClient(c))) /\ WF_all(Pool(ClientClosed(c)))
  /\ WF_all(Pool(DrainReaper)) /\ WF_all(Pool(CloseTransports))

LiveSpec ==
  LiveInit /\ [][LiveNext]_all
  /\ HubFairness /\ RegistryFairness /\ PoolFairness
=============================================================================
