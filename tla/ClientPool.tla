----------------------------- MODULE ClientPool -----------------------------
(***************************************************************************)
(* The pool through which the hub calls agents (app/integrations/          *)
(* a2a_client): three layers, each cached and each replaced while calls    *)
(* are in flight.                                                          *)
(*                                                                         *)
(*   registry     one client per agent; evicted when idle, dropped when a  *)
(*                call says it must be reset, closed in the background     *)
(*   client       caches the agent's card and one adapter                  *)
(*   adapter      counts its operations; a retired one closes when the     *)
(*                last of them ends                                        *)
(*   generation   an HTTP transport, shared by the adapters of ALL agents  *)
(*                with the same timeouts; an invalidated one is replaced   *)
(*                at once and closed when its last user leaves             *)
(*                                                                         *)
(* A step runs from one suspension of the event loop to the next (an asyncio *)
(* lock nobody holds does not suspend).  A call opens a session, resolves  *)
(* the card, takes an adapter, sends, and is answered or fails.  A stale   *)
(* adapter, and an error whose text says that the client has been closed,  *)
(* reset the adapter and send once more; a connection that breaks or times *)
(* out does not.  A card fetched again because the client was closed       *)
(* meanwhile is fetched before the adapter lock is taken.                  *)
(***************************************************************************)
EXTENDS Naturals, FiniteSets

CONSTANTS
    Peers,          \* agents: keys of the registry
    Calls,          \* call slots; a finished one is used again
    MaxClients, MaxAdapters, MaxGenerations, \* bounds: objects ever created
    MaxCalls        \* bound: calls opened

ASSUME PoolAssumption ==
    /\ IsFiniteSet(Calls)
    /\ {MaxClients, MaxAdapters, MaxGenerations, MaxCalls} \subseteq Nat

VARIABLES
    registry,   \* the client of each agent, 0 when there is none
    facade,     \* per client: peer, card, busy, adapter, state, draining
    adapter,    \* per adapter: gen, ops, retired, closed
    transport,  \* per generation: users, invalid, tracked, open
    currentGen,    \* the generation to borrow, 0 when there is none
    call,       \* per slot
    pool,       \* shutdown: phase, the clients it waits for, calls opened
    made        \* how many clients, adapters and generations exist

poolVars == <<registry, facade, adapter, transport, currentGen, call, pool, made>>

Clients == 1..MaxClients
Adapters == 1..MaxAdapters
Generations == 1..MaxGenerations

NoClient == [card |-> FALSE, busy |-> 0, adapter |-> 0, state |-> "none", draining |-> 0]
NoAdapter == [gen |-> 0, ops |-> 0, retired |-> FALSE, closed |-> FALSE]
NoTransport == [users |-> 0, invalid |-> FALSE, tracked |-> FALSE, open |-> FALSE]
NoCall == [pc |-> "idle", peer |-> "none", client |-> 0, adapter |-> 0, streaming |-> FALSE,
           retried |-> FALSE, told |-> FALSE]

PoolInit ==
    /\ registry = [p \in Peers |-> 0]
    /\ facade = [c \in Clients |-> NoClient]
    /\ adapter = [a \in Adapters |-> NoAdapter]
    /\ transport = [g \in Generations |-> NoTransport]
    /\ currentGen = 0
    /\ call = [k \in Calls |-> NoCall]
    /\ pool = [phase |-> "up", awaits |-> {}, opened |-> 0]
    /\ made = [clients |-> 0, adapters |-> 0, gens |-> 0]

-----------------------------------------------------------------------------
(* Transports and adapters. *)

StaleAdapter(a) == LET g == transport[adapter[a].gen] IN ~g.tracked \/ g.invalid \/ ~g.open

\* invalidate_shared_sdk_transport_http_client, in the table t: a generation that
\* still has users is left open for them.
\* (InvalidatedAtOnce, a mutant, closes it under them.)
InvalidatedAtOnce(t, g) ==
    [t EXCEPT ![g].invalid = TRUE, ![g].tracked = FALSE, ![g].open = FALSE]

Invalidated(t, g) ==
    IF ~t[g].tracked \/ t[g].invalid THEN t
    ELSE IF t[g].users > 0 THEN [t EXCEPT ![g].invalid = TRUE]
    ELSE [t EXCEPT ![g].invalid = TRUE, ![g].tracked = FALSE, ![g].open = FALSE]

\* release_shared_sdk_transport_http_client_usage: the last user of an invalidated
\* generation closes it.
LeaseReturned(t, g) ==
    IF ~t[g].tracked THEN t
    ELSE IF t[g].users = 1 /\ t[g].invalid
         THEN [t EXCEPT ![g].users = 0, ![g].tracked = FALSE, ![g].open = FALSE]
         ELSE [t EXCEPT ![g].users = @ - 1]

\* retire and _release_operation, in the table d.  (ReleasedOnly, a mutant, leaves the
\* closing of a retired adapter to nobody.)
Retired(d, a) ==
    IF a = 0 \/ d[a].closed THEN d
    ELSE [d EXCEPT ![a].retired = TRUE, ![a].closed = (d[a].ops = 0)]

ReleasedOnly(d, a) == [d EXCEPT ![a].ops = @ - 1]

Released(d, a) ==
    [d EXCEPT ![a].ops = @ - 1, ![a].closed = @ \/ (d[a].retired /\ d[a].ops = 1)]

\* _discard_adapter: only the adapter that failed is dropped, whoever holds the entry
\* now.
Discarded(c, a) ==
    IF facade[c].adapter = a
    THEN /\ facade' = [facade EXCEPT ![c].adapter = 0]
         /\ adapter' = Retired(adapter, a)
    ELSE UNCHANGED <<facade, adapter>>

-----------------------------------------------------------------------------
(* Opening a session and resolving the card. *)

\* The session's client is looked up, or built and registered, and its card asked for.
OpenSession(k, p) ==
    /\ call[k].pc = "idle" /\ pool.phase # "off" /\ pool.opened < MaxCalls
    /\ pool' = [pool EXCEPT !.opened = @ + 1]
    /\ \E streaming \in BOOLEAN :
       \/ /\ registry[p] # 0
          /\ LET c == registry[p] IN
             /\ call' = [call EXCEPT ![k] = [NoCall EXCEPT !.peer = p, !.client = c,
                              !.streaming = streaming,
                              !.pc = IF facade[c].card THEN "session" ELSE "card"]]
             /\ facade' = [facade EXCEPT ![c].busy = @ + (IF facade[c].card THEN 0 ELSE 1)]
          /\ UNCHANGED <<registry, made>>
       \/ /\ registry[p] = 0 /\ made.clients < MaxClients
          /\ LET c == made.clients + 1 IN
             /\ made' = [made EXCEPT !.clients = c]
             /\ registry' = [registry EXCEPT ![p] = c]
             /\ facade' = [facade EXCEPT ![c] = [NoClient EXCEPT !.state = "open", !.busy = 1]]
             /\ call' = [call EXCEPT ![k] = [NoCall EXCEPT !.peer = p, !.client = c, !.pc = "card",
                                                           !.streaming = streaming]]
    /\ UNCHANGED <<adapter, transport, currentGen>>

CardFetched(k) ==
    /\ call[k].pc = "card"
    /\ facade' = [facade EXCEPT ![call[k].client].card = TRUE, ![call[k].client].busy = @ - 1]
    /\ call' = [call EXCEPT ![k].pc = "session"]
    /\ UNCHANGED <<registry, adapter, transport, currentGen, pool, made>>

\* invalidate_client: the entry of the agent is dropped, whichever client it holds now,
\* and closed in the background.
Dropped(p, cl) ==
    /\ registry' = [registry EXCEPT ![p] = 0]
    /\ facade' = IF registry[p] = 0 THEN cl ELSE [cl EXCEPT ![registry[p]].state = "closing"]

\* The card cannot be fetched: whatever the error, it is raised as an unavailable agent
\* (client.py 1248-1271), which leaves the registry alone.
CardFails(k) ==
    /\ call[k].pc = "card"
    /\ facade' = [facade EXCEPT ![call[k].client].busy = @ - 1]
    /\ call' = [call EXCEPT ![k] = NoCall]
    /\ UNCHANGED <<registry, adapter, transport, currentGen, pool, made>>

\* The session ends without a call, or its call begins: from here the client is busy.
SessionEnds(k) ==
    /\ call[k].pc = "session"
    /\ call' = [call EXCEPT ![k] = NoCall]
    /\ UNCHANGED <<registry, facade, adapter, transport, currentGen, pool, made>>

Begin(k) ==
    /\ call[k].pc = "session"
    /\ call' = [call EXCEPT ![k].pc = "enter"]
    /\ facade' = [facade EXCEPT ![call[k].client].busy = @ + 1]
    /\ UNCHANGED <<registry, adapter, transport, currentGen, pool, made>>

-----------------------------------------------------------------------------
(* Taking an adapter and sending. *)

\* A client that was closed under its session has no card: it is fetched again.
FetchCardAgain(k) ==
    /\ call[k].pc \in {"enter", "swap"} /\ ~facade[call[k].client].card
    /\ facade' = [facade EXCEPT ![call[k].client].card = TRUE]
    /\ UNCHANGED <<registry, adapter, transport, currentGen, call, pool, made>>

\* The operation starts on adapter a of generation g: both are counted.
Sent(k, d, t, a) ==
    /\ adapter' = [d EXCEPT ![a].ops = @ + 1]
    /\ transport' = [t EXCEPT ![d[a].gen].users = @ + 1]
    /\ call' = [call EXCEPT ![k].pc = "sent", ![k].adapter = a]

\* The entry holds a usable adapter.
SendCached(k) ==
    LET a == facade[call[k].client].adapter IN
    /\ call[k].pc \in {"enter", "swap"} /\ facade[call[k].client].card
    /\ a # 0 /\ ~StaleAdapter(a)
    /\ Sent(k, adapter, transport, a)
    /\ UNCHANGED <<registry, facade, currentGen, pool, made>>

\* The entry is empty: an adapter is built on the current generation, or on a new one.
SendNew(k) ==
    LET c == call[k].client
        a == made.adapters + 1
        borrow == currentGen # 0
        g == IF borrow THEN currentGen ELSE made.gens + 1
        fresh == [NoTransport EXCEPT !.tracked = TRUE, !.open = TRUE]
    IN
    /\ call[k].pc \in {"enter", "swap"} /\ facade[c].card /\ facade[c].adapter = 0
    /\ made.adapters < MaxAdapters /\ (borrow \/ made.gens < MaxGenerations)
    /\ currentGen' = g
    /\ made' = [made EXCEPT !.adapters = a, !.gens = IF borrow THEN @ ELSE g]
    /\ facade' = [facade EXCEPT ![c].adapter = a]
    /\ Sent(k, [adapter EXCEPT ![a] = [NoAdapter EXCEPT !.gen = g]],
               IF borrow THEN transport ELSE [transport EXCEPT ![g] = fresh], a)
    /\ UNCHANGED <<registry, pool>>

\* The adapter's generation has been invalidated: it is taken out and retired, and the
\* call waits for that before it looks again.
SwapStale(k) ==
    LET c == call[k].client
        a == facade[c].adapter
    IN
    /\ call[k].pc = "enter" /\ facade[c].card
    /\ a # 0 /\ StaleAdapter(a)
    /\ facade' = [facade EXCEPT ![c].adapter = 0]
    /\ adapter' = Retired(adapter, a)
    /\ call' = [call EXCEPT ![k].pc = "swap"]
    /\ UNCHANGED <<registry, transport, currentGen, pool, made>>

\* What another call put there meanwhile is not examined again: a stale adapter
\* refuses the operation.  The first refusal resets it, the second ends the call.
RefusedAsStale(k) ==
    LET c == call[k].client
        a == facade[c].adapter
    IN
    /\ call[k].pc = "swap" /\ facade[c].card
    /\ a # 0 /\ StaleAdapter(a)
    /\ IF call[k].retried
       THEN /\ call' = [call EXCEPT ![k] = NoCall]
            /\ facade' = [facade EXCEPT ![c].busy = @ - 1]
            /\ UNCHANGED adapter
       ELSE /\ call' = [call EXCEPT ![k].pc = "enter", ![k].retried = TRUE]
            /\ Discarded(c, a)
    /\ UNCHANGED <<registry, transport, currentGen, pool, made>>

-----------------------------------------------------------------------------
(* Answers and failures. *)

Payload(k) ==
    /\ call[k].pc = "sent" /\ call[k].streaming
    /\ call' = [call EXCEPT ![k].told = TRUE]
    /\ UNCHANGED <<registry, facade, adapter, transport, currentGen, pool, made>>

\* The operation is over, however it went: the lease and the adapter are given back.
OperationOver(k) ==
    /\ call[k].pc = "sent"
    /\ transport' = LeaseReturned(transport, adapter[call[k].adapter].gen)
    /\ adapter' = Released(adapter, call[k].adapter)

CurrentAfter(t) == IF currentGen # 0 /\ (t[currentGen].invalid \/ ~t[currentGen].tracked) THEN 0
                   ELSE currentGen

\* Answered, refused by the agent, timed out, cancelled, unreachable: no reset.
CallDone(k) ==
    /\ OperationOver(k)
    /\ facade' = [facade EXCEPT ![call[k].client].busy = @ - 1]
    /\ call' = [call EXCEPT ![k] = NoCall]
    /\ UNCHANGED <<registry, currentGen, pool, made>>

\* An error before any answer whose text holds "client has been closed": that of a closed
\* HTTP client, but also whatever the agent wrote into its JSON-RPC error, since a mapped
\* agent error is a RuntimeError with the agent's text.  The generation is invalidated
\* for everybody, and the call will discard its adapter (after a possible wait for the
\* closing).
ReportsClosed(k) ==
    LET g == adapter[call[k].adapter].gen
        t == Invalidated(LeaseReturned(transport, g), g)
    IN
    /\ call[k].pc = "sent" /\ ~call[k].retried /\ ~call[k].told
    /\ transport' = t
    /\ adapter' = Released(adapter, call[k].adapter)
    /\ currentGen' = CurrentAfter(t)
    /\ call' = [call EXCEPT ![k].pc = "discard"]
    /\ UNCHANGED <<registry, facade, pool, made>>

Discard(k) ==
    /\ call[k].pc = "discard"
    /\ Discarded(call[k].client, call[k].adapter)
    /\ call' = [call EXCEPT ![k].pc = "enter", ![k].retried = TRUE]
    /\ UNCHANGED <<registry, transport, currentGen, pool, made>>

\* That error on the second attempt or after a first payload, a transport error that is
\* neither unreachable nor a timeout, or a 401 or 403: the client must be reset, and the
\* registry drops it.  The transport stays as it is.
BreaksForGood(k) ==
    LET c == call[k].client IN
    /\ OperationOver(k)
    /\ Dropped(call[k].peer, [facade EXCEPT ![c].busy = @ - 1])
    /\ call' = [call EXCEPT ![k] = NoCall]
    /\ UNCHANGED <<currentGen, pool, made>>

\* The agent does not stream: the same message is sent as a blocking call.  A payload
\* counts only if the first attempt yielded it.
Downgrade(k) ==
    /\ call[k].streaming /\ (call[k].retried \/ ~call[k].told)
    /\ OperationOver(k)
    /\ call' = [call EXCEPT ![k].pc = "enter", ![k].streaming = FALSE, ![k].retried = FALSE,
                            ![k].told = FALSE]
    /\ UNCHANGED <<registry, facade, currentGen, pool, made>>

\* A call that is cancelled while it waits for a clean-up, or that cannot get its card.
GivesUp(k) ==
    /\ call[k].pc \in {"swap", "discard"} \/ (call[k].pc = "enter" /\ ~facade[call[k].client].card)
    /\ facade' = [facade EXCEPT ![call[k].client].busy = @ - 1]
    /\ call' = [call EXCEPT ![k] = NoCall]
    /\ UNCHANGED <<registry, adapter, transport, currentGen, pool, made>>

-----------------------------------------------------------------------------
(* Clean-up and shutdown. *)

\* The maintenance loop drops a client nobody has looked up for long enough, unless a
\* request of it is in flight.
EvictIdle(p) ==
    /\ registry[p] # 0 /\ facade[registry[p]].busy = 0 /\ pool.phase = "up"
    /\ Dropped(p, facade)
    /\ UNCHANGED <<adapter, transport, currentGen, call, pool, made>>

\* client.close: the entry and the card are taken away, the adapter retired; the task
\* waits until the adapter has closed.
CloseClient(c) ==
    LET a == facade[c].adapter IN
    /\ facade[c].state = "closing"
    /\ facade' = [facade EXCEPT ![c].state = "draining", ![c].draining = a,
                                ![c].adapter = 0, ![c].card = FALSE]
    /\ adapter' = Retired(adapter, a)
    /\ UNCHANGED <<registry, transport, currentGen, call, pool, made>>

ClientClosed(c) ==
    /\ facade[c].state = "draining"
    /\ facade[c].draining # 0 => adapter[facade[c].draining].closed
    /\ facade' = [facade EXCEPT ![c].state = "closed"]
    /\ UNCHANGED <<registry, adapter, transport, currentGen, call, pool, made>>

Closing == {c \in Clients : facade[c].state \in {"closing", "draining"}}

\* shutdown: the registry's clients are closed and waited for, then the background
\* closings, then every transport is closed, whoever uses it.
Shutdown ==
    /\ pool.phase = "up"
    /\ pool' = [pool EXCEPT !.phase = "registry",
                            !.awaits = {registry[p] : p \in Peers} \ {0}]
    /\ facade' = [c \in Clients |-> IF \E p \in Peers : registry[p] = c
                                    THEN [facade[c] EXCEPT !.state = "closing"] ELSE facade[c]]
    /\ registry' = [p \in Peers |-> 0]
    /\ UNCHANGED <<adapter, transport, currentGen, call, made>>

DrainReaper ==
    /\ pool.phase = "registry" /\ pool.awaits \cap Closing = {}
    /\ pool' = [pool EXCEPT !.phase = "drain", !.awaits = Closing]
    /\ UNCHANGED <<registry, facade, adapter, transport, currentGen, call, made>>

CloseTransports ==
    /\ pool.phase = "drain" /\ pool.awaits \cap Closing = {}
    /\ pool' = [pool EXCEPT !.phase = "off"]
    /\ transport' = [g \in Generations |-> [transport[g] EXCEPT !.tracked = FALSE, !.open = FALSE]]
    /\ currentGen' = 0
    /\ UNCHANGED <<registry, facade, adapter, call, made>>

PoolNext ==
    \/ \E k \in Calls :
           \/ \E p \in Peers : OpenSession(k, p)
           \/ CardFails(k) \/ CardFetched(k) \/ SessionEnds(k) \/ Begin(k) \/ FetchCardAgain(k)
           \/ SendCached(k) \/ SendNew(k) \/ SwapStale(k) \/ RefusedAsStale(k)
           \/ Payload(k) \/ CallDone(k) \/ ReportsClosed(k) \/ BreaksForGood(k) \/ Discard(k)
           \/ Downgrade(k) \/ GivesUp(k)
    \/ \E p \in Peers : EvictIdle(p)
    \/ \E c \in Clients : CloseClient(c) \/ ClientClosed(c)
    \/ Shutdown \/ DrainReaper \/ CloseTransports

PoolSpec == PoolInit /\ [][PoolNext]_poolVars

\* Operations end (the HTTP client has timeouts), suspended clean-ups resume, the tasks
\* of the reaper and of shutdown run.
PoolFairSpec ==
    /\ PoolSpec
    /\ \A k \in Calls : WF_poolVars(CallDone(k))
    /\ \A c \in Clients : WF_poolVars(CloseClient(c)) /\ WF_poolVars(ClientClosed(c))
    /\ WF_poolVars(DrainReaper) /\ WF_poolVars(CloseTransports)

-----------------------------------------------------------------------------
(* Properties. *)

PoolTypeOK ==
    /\ registry \in [Peers -> 0..MaxClients]
    /\ facade \in [Clients -> [card : BOOLEAN, busy : Nat, adapter : 0..MaxAdapters,
           state : {"none", "open", "closing", "draining", "closed"}, draining : 0..MaxAdapters]]
    /\ adapter \in [Adapters -> [gen : 0..MaxGenerations, ops : Nat, retired : BOOLEAN,
                                 closed : BOOLEAN]]
    /\ transport \in [Generations -> [users : Nat, invalid : BOOLEAN, tracked : BOOLEAN,
                                      open : BOOLEAN]]
    /\ currentGen \in 0..MaxGenerations
    /\ call \in [Calls -> [pc : {"idle", "card", "session", "enter", "swap", "sent", "discard"},
           peer : Peers \cup {"none"}, client : 0..MaxClients, adapter : 0..MaxAdapters,
           streaming : BOOLEAN, retried : BOOLEAN, told : BOOLEAN]]
    /\ pool \in [phase : {"up", "registry", "drain", "off"}, awaits : SUBSET Clients,
                 opened : 0..MaxCalls]
    /\ made \in [clients : 0..MaxClients, adapters : 0..MaxAdapters, gens : 0..MaxGenerations]

SentOn(a) == {k \in Calls : call[k].pc = "sent" /\ call[k].adapter = a}
SentOver(g) == {k \in Calls : call[k].pc = "sent" /\ adapter[call[k].adapter].gen = g}

\* An error of one agent that says "client has been closed" invalidates the transport all
\* agents share, though it is open; the calls of the others that are in flight on it keep
\* it open until they are over.
OpenWhileUsed ==
    pool.phase # "off" =>
        \A k \in Calls : call[k].pc = "sent" => transport[adapter[call[k].adapter].gen].open

\* Whatever way an operation ends (answer, error, cancellation, retry, downgrade), it is
\* counted out once, of its adapter and of its transport; and nothing that has been
\* given up stays open once its last user has left.
UseCounted ==
    /\ \A a \in Adapters :
           /\ adapter[a].ops = Cardinality(SentOn(a))
           /\ adapter[a].retired => (adapter[a].closed <=> SentOn(a) = {})
    /\ \A g \in Generations :
           /\ transport[g].tracked => transport[g].users = Cardinality(SentOver(g))
           /\ transport[g].invalid /\ SentOver(g) = {} => ~transport[g].open

\* The shutdown, which waits for every client it closes, comes to an end.
ShutdownEnds == (pool.phase = "registry") ~> (pool.phase = "off")
=============================================================================
