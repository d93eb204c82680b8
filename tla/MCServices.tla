----------------------------- MODULE MCServices -----------------------------
(***************************************************************************)
(* Safety of seven components inside the backend that share no state with  *)
(* each other, each on a small instance: the durable tasks of the Hub      *)
(* Assistant, the registry of running invocations, the pool of A2A         *)
(* clients, the WebSocket tickets, the health checks of agents, their      *)
(* credentials, and the next run of a scheduled job.  A behaviour is one   *)
(* of one of them, chosen at the start ("focus"); the others stay as they  *)
(* began.                                                                  *)
(***************************************************************************)
EXTENDS
  HubAssistantTasks, InvokeRegistry, ClientPool, WsTickets, AgentHealth, AgentCredentials,
  ScheduleTime, TLC

\* The configuration makes the pairs of actors of several components out of the
\* same model values: the symmetry group stays small.
Symmetry == Permutations(Scanners) \cup Permutations(Keys)

VARIABLE focus

hubVars == vars
all == <<focus, hubVars, regVars, poolVars, ticketVars, healthVars, credentialVars, timeVars>>

ServicesInit ==
  /\ focus \in {"hub", "registry", "pool", "tickets", "health", "credentials", "time"}
  /\ Init /\ RegInit /\ PoolInit /\ TicketInit /\ HealthInit /\ CredentialInit /\ TimeInit
  /\ focus # "health" => access = [a \in HubAgents |-> "open"]
  /\ focus # "time" => zone = CHOOSE z \in TimeZones : TRUE

\* Jobs, permission replies and delegations, are explored with one conversation.
JobsOrConversations ==
  \/ \A j \in Jobs : status[j] = "absent"
  \/ \E c \in Conversations :
       /\ \A w \in Watches : tracked[w] \subseteq {c}
       /\ \A d \in Conversations \ {c} : latest[d] = 0

\* Retries and cancel requests are explored with one text of the query, and with the
\* jobs that have none; two texts without them.
OneKeyOrQuiet ==
  \/ Cardinality({inv[i].key : i \in Invokes} \ {NoKey}) <= 1
  \/ /\ \A i \in Invokes : inv[i].attempt = 1
     /\ \A c \in Controls : ctl[c].pc = "idle"

\* Checks of personal agents overlap with each other, those of the catalog too: they
\* write different rows.
OwnOrCatalog ==
  \/ \A a \in OwnAgents : own[a] = "absent"
  \/ \A c \in Checks : check[c].kind = "own"

\* The shutdown is explored with the client of one agent.
TwoClientsOrShutdown == made.clients <= 1 \/ pool.phase = "up"

\* A job keeps its schedule, unless it is a sequential one whose run is in progress.
SetOnce ==
  job' # job =>
    \/ job = NoJob
    \/ active /\ job.cycle = "sequential" /\ job'.cycle # "sequential"

\* The component in focus moves alone.
Focus(f) ==
  /\ focus = f /\ UNCHANGED focus
  /\ f # "hub" => UNCHANGED hubVars
  /\ f # "registry" => UNCHANGED regVars
  /\ f # "pool" => UNCHANGED poolVars
  /\ f # "tickets" => UNCHANGED ticketVars
  /\ f # "health" => UNCHANGED healthVars
  /\ f # "credentials" => UNCHANGED credentialVars
  /\ f # "time" => UNCHANGED timeVars

ServicesNext ==
  \/ Focus("hub") /\ Next /\ JobsOrConversations'
  \/ Focus("registry") /\ RegNext /\ OneKeyOrQuiet'
  \/ Focus("pool") /\ PoolNext /\ TwoClientsOrShutdown'
  \/ Focus("tickets") /\ TicketNext
  \/ Focus("health") /\ HealthNext /\ OwnOrCatalog'
  \/ Focus("credentials") /\ CredentialNext
  \/ Focus("time") /\ TimeNext /\ SetOnce

ServicesSpec == ServicesInit /\ [][ServicesNext]_all

\* The variables of the component in focus keep their types.
ServiceTypesOK ==
  /\ focus = "hub" => TypeOK
  /\ focus = "registry" => RegTypeOK
  /\ focus = "pool" => PoolTypeOK
  /\ focus = "tickets" => TicketTypeOK
  /\ focus = "health" => HealthTypeOK
  /\ focus = "credentials" => CredentialTypeOK
  /\ focus = "time" => TimeTypeOK
=============================================================================
