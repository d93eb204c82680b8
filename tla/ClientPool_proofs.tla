-------------------------- MODULE ClientPool_proofs --------------------------
(***************************************************************************)
(* Proofs about ClientPool, for every number of agents, calls and objects. *)
(* That a transport is open while it is used rests on the counting: users  *)
(* of a generation and operations of an adapter are as many as the calls   *)
(* sent over them (TransportOK, AdapterOK), and that rests on who may      *)
(* still reach an adapter: a retired one is in no client's entry, and no   *)
(* adapter is in two (Held).                                               *)
(***************************************************************************)
EXTENDS ClientPool, FiniteSetTheorems, TLAPS

FacadeRow == [card : BOOLEAN, busy : Nat, adapter : 0..MaxAdapters,
              state : {"none", "open", "closing", "draining", "closed"}, draining : 0..MaxAdapters]
AdapterRow == [gen : 0..MaxGenerations, ops : Nat, retired : BOOLEAN, closed : BOOLEAN]
TransportRow == [users : Nat, invalid : BOOLEAN, tracked : BOOLEAN, open : BOOLEAN]
CallRow == [pc : {"idle", "card", "session", "enter", "swap", "sent", "discard"},
            peer : Peers \cup {"none"}, client : 0..MaxClients, adapter : 0..MaxAdapters,
            streaming : BOOLEAN, retried : BOOLEAN, told : BOOLEAN]

\* A call between its beginning and its end keeps its client busy; so does the request for
\* the card.
InUse(v) == v.pc \notin {"idle", "session"}
Using(c) == {k \in Calls : InUse(call[k]) /\ call[k].client = c}
BusyCounted == \A c \in Clients : facade[c].busy = Cardinality(Using(c))

\* Only objects that exist are referred to.
CallsPlaced ==
    \A k \in Calls :
        /\ call[k].pc # "idle" => call[k].client \in 1..made.clients /\ call[k].peer \in Peers
        /\ call[k].pc \in {"sent", "discard"} => call[k].adapter \in 1..made.adapters
Placed ==
    /\ CallsPlaced
    /\ \A p \in Peers : registry[p] <= made.clients
    /\ \A c \in Clients : facade[c].adapter <= made.adapters
AdaptersPlaced == \A a \in 1..made.adapters : adapter[a].gen \in 1..made.gens

\* An adapter that can still be taken is in use, and is one client's.
Held ==
    /\ \A c \in Clients : facade[c].adapter # 0 => ~adapter[facade[c].adapter].retired
    /\ \A c, d \in Clients : facade[c].adapter = facade[d].adapter /\ facade[c].adapter # 0 => c = d

CurrentUsable ==
    currentGen # 0 =>
        /\ currentGen <= made.gens
        /\ transport[currentGen].tracked /\ ~transport[currentGen].invalid

\* The row of an adapter on which the calls S are sent.
AdapterOK(row, S) ==
    /\ row.ops = Cardinality(S)
    /\ row.retired => (row.closed <=> S = {})
    /\ row.closed => row.retired

\* The row of a generation over which the calls S are sent; off: the pool was shut down.
TransportOK(row, S, off) ==
    /\ row.tracked <=> row.open
    /\ row.tracked => row.users = Cardinality(S)
    /\ row.invalid /\ S = {} => ~row.open
    /\ S # {} /\ ~off => row.tracked

Off == pool.phase = "off"
AdaptersCounted == \A a \in Adapters : AdapterOK(adapter[a], SentOn(a))
TransportsCounted == \A g \in Generations : TransportOK(transport[g], SentOver(g), Off)

\* What sending depends on.
Lending == AdaptersPlaced /\ Held /\ CurrentUsable /\ AdaptersCounted /\ TransportsCounted

\* The types of what is lent.
Stocks ==
    /\ adapter \in [Adapters -> AdapterRow] /\ transport \in [Generations -> TransportRow]
    /\ currentGen \in 0..MaxGenerations

PoolInv == PoolTypeOK /\ Placed /\ BusyCounted /\ Lending

-----------------------------------------------------------------------------
(* Counting                                                                *)

\* The calls of a set are finitely many, and one more or less changes their number by one.
LEMMA CountFacts ==
    ASSUME NEW S \in SUBSET Calls, NEW k
    PROVE  /\ IsFiniteSet(S) /\ Cardinality(S) \in Nat
           /\ Cardinality(S) = 0 <=> S = {}
           /\ k \in S => Cardinality(S \ {k}) = Cardinality(S) - 1 /\ Cardinality(S) >= 1
           /\ k \notin S => Cardinality(S \cup {k}) = Cardinality(S) + 1
           /\ k \in S /\ Cardinality(S) = 1 => S = {k}
    <1>1. IsFiniteSet(S) /\ Cardinality(S) \in Nat
        BY PoolAssumption, FS_Subset, FS_CardinalityType
    <1>2. Cardinality(S) = 0 <=> S = {}
        BY <1>1, FS_EmptySet
    <1>3. k \in S => Cardinality(S \ {k}) = Cardinality(S) - 1
        BY <1>1, FS_RemoveElement
    <1>4. k \in S => Cardinality(S) >= 1
        BY <1>1, <1>2
    <1>5. k \notin S => Cardinality(S \cup {k}) = Cardinality(S) + 1
        BY <1>1, FS_AddElement
    <1>6. ASSUME k \in S, Cardinality(S) = 1 PROVE S = {k}
        <2>1. PICK x : S = {x}
            BY <1>1, <1>6, FS_Singleton
        <2> QED
            BY <1>6, <2>1
    <1> QED
        BY <1>1, <1>2, <1>3, <1>4, <1>5, <1>6

\* An adapter is retired.
LEMMA RetireRow ==
    ASSUME NEW row \in AdapterRow, NEW S \in SUBSET Calls, AdapterOK(row, S)
    PROVE  AdapterOK([row EXCEPT !.retired = TRUE, !.closed = (row.ops = 0)], S)
    <1>1. row.ops = Cardinality(S) /\ row.ops \in Nat /\ (row.ops = 0 <=> S = {})
        BY CountFacts DEF AdapterOK, AdapterRow
    <1> QED
        BY <1>1 DEF AdapterOK, AdapterRow

\* An operation on an adapter ends, or begins.
LEMMA AdapterMoves ==
    ASSUME NEW row \in AdapterRow, NEW S \in SUBSET Calls, NEW k \in Calls, AdapterOK(row, S)
    PROVE  /\ k \in S =>
                LET less == [row EXCEPT !.ops = @ - 1, !.closed = @ \/ (row.retired /\ row.ops = 1)]
                IN less \in AdapterRow /\ AdapterOK(less, S \ {k})
           /\ k \notin S /\ ~row.retired =>
                LET more == [row EXCEPT !.ops = @ + 1] IN more \in AdapterRow /\ AdapterOK(more, S \cup {k})
    <1>1. row.ops = Cardinality(S) /\ row.ops \in Nat
        BY DEF AdapterOK, AdapterRow
    <1>3. ASSUME k \in S
          PROVE  LET less == [row EXCEPT !.ops = @ - 1, !.closed = @ \/ (row.retired /\ row.ops = 1)]
                 IN less \in AdapterRow /\ AdapterOK(less, S \ {k})
        <2> DEFINE less == [row EXCEPT !.ops = @ - 1, !.closed = @ \/ (row.retired /\ row.ops = 1)]
        <2>1. row.ops - 1 = Cardinality(S \ {k}) /\ row.ops - 1 \in Nat
            BY <1>1, <1>3, CountFacts
        <2>2. less \in AdapterRow
            BY <2>1 DEF AdapterRow
        <2>3. row.ops = 1 <=> S \ {k} = {}
            BY <1>1, <1>3, <2>1, CountFacts
        <2>4. ~row.closed \/ row.retired
            BY DEF AdapterOK
        <2>5. ~row.closed
            BY <1>3 DEF AdapterOK
        <2>6. /\ less.ops = row.ops - 1 /\ less.retired = row.retired
              /\ less.closed = (row.closed \/ (row.retired /\ row.ops = 1))
            BY DEF AdapterRow
        <2>7. AdapterOK(less, S \ {k})
            BY <2>1, <2>3, <2>5, <2>6 DEF AdapterOK
        <2> QED
            BY <2>2, <2>7
    <1>4. ASSUME k \notin S, ~row.retired
          PROVE  LET more == [row EXCEPT !.ops = @ + 1]
                 IN more \in AdapterRow /\ AdapterOK(more, S \cup {k})
        BY <1>1, <1>4, CountFacts DEF AdapterOK, AdapterRow
    <1> QED
        BY <1>3, <1>4

\* The row of a generation when one user leaves, when it is invalidated, and with one user more.
Returned(row) ==
    IF ~row.tracked THEN row
    ELSE IF row.users = 1 /\ row.invalid
         THEN [row EXCEPT !.users = 0, !.tracked = FALSE, !.open = FALSE]
         ELSE [row EXCEPT !.users = @ - 1]
Condemned(row) ==
    IF ~row.tracked \/ row.invalid THEN row
    ELSE IF row.users > 0 THEN [row EXCEPT !.invalid = TRUE]
    ELSE [row EXCEPT !.invalid = TRUE, !.tracked = FALSE, !.open = FALSE]

\* A user of a generation leaves.
LEMMA ReturnedFacts ==
    ASSUME NEW row \in TransportRow, NEW S \in SUBSET Calls, NEW k \in S, NEW off \in BOOLEAN,
           TransportOK(row, S, off)
    PROVE  /\ Returned(row) \in TransportRow /\ TransportOK(Returned(row), S \ {k}, off)
           /\ row.tracked /\ ~row.invalid => Returned(row).tracked /\ ~Returned(row).invalid
    <1>0. k \in Calls /\ row.users \in Nat
        BY DEF TransportRow
    <1>1. CASE ~row.tracked
        <2>1. Returned(row) = row
            BY <1>1 DEF Returned
        <2> QED
            BY <1>1, <2>1 DEF TransportOK
    <1>2. CASE row.tracked /\ row.users = 1 /\ row.invalid
        <2>0. Cardinality(S) = 1
            BY <1>2 DEF TransportOK
        <2>1. S = {k}
            BY <2>0, CountFacts
        <2>2. Returned(row) = [row EXCEPT !.users = 0, !.tracked = FALSE, !.open = FALSE]
            BY <1>2 DEF Returned
        <2>3. /\ Returned(row) \in TransportRow /\ Returned(row).users = 0
              /\ ~Returned(row).tracked /\ ~Returned(row).open
            <3>1. 0 \in Nat
                OBVIOUS
            <3> QED
                BY <2>2, <3>1 DEF TransportRow
        <2> QED
            BY <1>2, <2>1, <2>3 DEF TransportOK
    <1>3. CASE row.tracked /\ ~(row.users = 1 /\ row.invalid)
        <2>1. Returned(row) = [row EXCEPT !.users = @ - 1]
            BY <1>3 DEF Returned
        <2>2. row.users = Cardinality(S) /\ row.users - 1 = Cardinality(S \ {k}) /\ row.users - 1 \in Nat
            BY <1>0, <1>3, CountFacts DEF TransportOK
        <2>3. S \ {k} = {} => row.users = 1
            <3>1. S \ {k} = {} => S = {k}
                OBVIOUS
            <3>2. Cardinality({k}) = 1
                BY FS_Singleton
            <3> QED
                BY <2>2, <3>1, <3>2
        <2>4. /\ Returned(row).users = row.users - 1 /\ Returned(row).tracked /\ Returned(row).open = row.open
              /\ Returned(row).invalid = row.invalid /\ Returned(row) \in TransportRow
            BY <1>3, <2>1, <2>2 DEF TransportRow
        <2> QED
            BY <1>3, <2>2, <2>3, <2>4 DEF TransportOK
    <1> QED
        BY <1>1, <1>2, <1>3 DEF TransportRow

\* A generation is invalidated, or lent once more.
LEMMA TransportMoves ==
    ASSUME NEW row \in TransportRow, NEW S \in SUBSET Calls, NEW k \in Calls, NEW off \in BOOLEAN,
           TransportOK(row, S, off)
    PROVE  /\ Condemned(row) \in TransportRow /\ TransportOK(Condemned(row), S, off)
           /\ k \notin S /\ row.tracked /\ ~row.invalid =>
                LET more == [row EXCEPT !.users = @ + 1] IN
                more \in TransportRow /\ TransportOK(more, S \cup {k}, off) /\ more.tracked /\ ~more.invalid
    <1>0. row.users \in Nat
        BY DEF TransportRow
    <1>1. CASE ~row.tracked \/ row.invalid
        BY <1>1 DEF Condemned
    <1>2. CASE row.tracked /\ ~row.invalid
        <2>0. row.users = Cardinality(S)
            BY <1>2 DEF TransportOK
        <2>1. row.users = Cardinality(S) /\ (row.users > 0 <=> S # {})
            <3>1. Cardinality(S) = 0 <=> S = {}
                BY CountFacts
            <3> QED
                BY <1>0, <2>0, <3>1
        <2>2. Condemned(row) \in TransportRow /\ TransportOK(Condemned(row), S, off)
            BY <1>0, <1>2, <2>1 DEF Condemned, TransportOK, TransportRow
        <2>3. k \notin S => Cardinality(S \cup {k}) = row.users + 1 /\ row.users + 1 \in Nat
            BY <1>0, <2>1, CountFacts
        <2> QED
            BY <1>0, <1>2, <2>2, <2>3 DEF TransportOK, TransportRow
    <1> QED
        BY <1>1, <1>2

-----------------------------------------------------------------------------
(* What is lent                                                            *)

\* What the invariant says of types, in the words of this module.
LEMMA TypeFacts ==
    ASSUME PoolInv
    PROVE  /\ Stocks /\ call \in [Calls -> CallRow] /\ facade \in [Clients -> FacadeRow]
           /\ made.clients \in 0..MaxClients /\ made.adapters \in 0..MaxAdapters
           /\ made.gens \in 0..MaxGenerations /\ registry \in [Peers -> 0..MaxClients]
           /\ 1..made.adapters \subseteq Adapters /\ 1..made.gens \subseteq Generations
           /\ 1..made.clients \subseteq Clients
           /\ MaxClients \in Nat /\ MaxAdapters \in Nat /\ MaxGenerations \in Nat /\ MaxCalls \in Nat
    <1>1. MaxClients \in Nat /\ MaxAdapters \in Nat /\ MaxGenerations \in Nat /\ MaxCalls \in Nat
        BY PoolAssumption
    <1>2. /\ Stocks /\ call \in [Calls -> CallRow] /\ facade \in [Clients -> FacadeRow]
          /\ registry \in [Peers -> 0..MaxClients]
          /\ made \in [clients : 0..MaxClients, adapters : 0..MaxAdapters, gens : 0..MaxGenerations]
        BY DEF PoolInv, PoolTypeOK, Stocks, CallRow, FacadeRow, AdapterRow, TransportRow
    <1>3. made.clients \in 0..MaxClients /\ made.adapters \in 0..MaxAdapters
            /\ made.gens \in 0..MaxGenerations
        BY <1>2
    <1> QED
        BY <1>1, <1>2, <1>3 DEF Adapters, Generations, Clients

\* A call moves to v: the calls sent on each adapter and over each generation.
LEMMA SentMoves ==
    ASSUME PoolInv, NEW k \in Calls, NEW v, call' = [call EXCEPT ![k] = v],
           \A a \in 1..made.adapters : adapter'[a].gen = adapter[a].gen
    PROVE  /\ \A a : SentOn(a)' = IF v.pc = "sent" /\ v.adapter = a
                                  THEN SentOn(a) \cup {k} ELSE SentOn(a) \ {k}
           /\ \A g : SentOver(g)' = IF v.pc = "sent" /\ adapter'[v.adapter].gen = g
                                    THEN SentOver(g) \cup {k} ELSE SentOver(g) \ {k}
    <1>1. call'[k] = v /\ \A j \in Calls : j # k => call'[j] = call[j]
        BY TypeFacts
    <1>2. \A j \in Calls : call[j].pc = "sent" => adapter'[call[j].adapter].gen = adapter[call[j].adapter].gen
        BY DEF PoolInv, Placed, CallsPlaced
    <1>3. ASSUME NEW a, NEW j \in Calls
          PROVE  j \in SentOn(a)' <=> IF j = k THEN v.pc = "sent" /\ v.adapter = a ELSE j \in SentOn(a)
        BY <1>1 DEF SentOn
    <1>4. ASSUME NEW g, NEW j \in Calls
          PROVE  j \in SentOver(g)' <=> IF j = k THEN v.pc = "sent" /\ adapter'[v.adapter].gen = g
                                        ELSE j \in SentOver(g)
        BY <1>1, <1>2 DEF SentOver
    <1>5. /\ \A a : SentOn(a) \subseteq Calls /\ SentOn(a)' \subseteq Calls
          /\ \A g : SentOver(g) \subseteq Calls /\ SentOver(g)' \subseteq Calls
        BY DEF SentOn, SentOver
    <1>6. \A a : SentOn(a)' = IF v.pc = "sent" /\ v.adapter = a THEN SentOn(a) \cup {k} ELSE SentOn(a) \ {k}
        BY <1>3, <1>5
    <1>7. \A g : SentOver(g)' = IF v.pc = "sent" /\ adapter'[v.adapter].gen = g
                                THEN SentOver(g) \cup {k} ELSE SentOver(g) \ {k}
        BY <1>4, <1>5
    <1> QED
        BY <1>6, <1>7

\* The same calls are in flight.
StillSent ==
    \A k \in Calls : /\ call'[k].pc = "sent" <=> call[k].pc = "sent"
                     /\ call[k].pc = "sent" => call'[k].adapter = call[k].adapter

\* Entries are emptied at most; a is in none of them.
EntriesShrink(a) ==
    \A c \in Clients : facade'[c].adapter \in {0, facade[c].adapter} /\ (a # 0 => facade'[c].adapter # a)

\* Steps that send and end nothing, and retire at most one adapter that was taken out.
LEMMA RetireKeeps ==
    ASSUME PoolInv, NEW a \in 0..MaxAdapters, adapter' = Retired(adapter, a), EntriesShrink(a),
           StillSent, UNCHANGED <<transport, currentGen>>,
           made'.adapters = made.adapters, made'.gens = made.gens, Off' = Off
    PROVE  Lending' /\ Stocks'
    <1>1. /\ adapter \in [Adapters -> AdapterRow] /\ 1..made.adapters \subseteq Adapters
          /\ Stocks /\ Lending
        BY TypeFacts DEF Stocks, PoolInv
    <1>2. adapter' = adapter \/ (a \in Adapters /\ ~adapter[a].closed
             /\ adapter' = [adapter EXCEPT ![a] = [adapter[a] EXCEPT !.retired = TRUE, !.closed = (adapter[a].ops = 0)]])
        <2>1. a # 0 => a \in Adapters
            BY PoolAssumption DEF Adapters
        <2> QED
            BY <2>1, <1>1 DEF Retired
    <1>3. ASSUME NEW b \in Adapters
          PROVE  /\ adapter'[b] \in AdapterRow /\ adapter'[b].gen = adapter[b].gen
                 /\ b # a => adapter'[b] = adapter[b]
                 /\ AdapterOK(adapter'[b], SentOn(b))
        <2>1. AdapterOK(adapter[b], SentOn(b)) /\ SentOn(b) \in SUBSET Calls /\ adapter[b] \in AdapterRow
            BY <1>1 DEF Lending, AdaptersCounted, SentOn
        <2>2. CASE adapter'[b] = adapter[b]
            BY <2>1, <2>2
        <2>3. CASE b = a /\ adapter'[b] = [adapter[b] EXCEPT !.retired = TRUE, !.closed = (adapter[b].ops = 0)]
            <3>1. (adapter[b].ops = 0) \in BOOLEAN
                OBVIOUS
            <3>2. adapter'[b] \in AdapterRow /\ adapter'[b].gen = adapter[b].gen
                BY <2>1, <2>3, <3>1 DEF AdapterRow
            <3>4. AdapterOK([adapter[b] EXCEPT !.retired = TRUE, !.closed = (adapter[b].ops = 0)], SentOn(b))
                BY <2>1, RetireRow
            <3> QED
                BY <2>3, <3>2, <3>4
        <2>4. adapter'[b] = adapter[b] \/ b = a
            BY <1>1, <1>2
        <2>5. b = a => adapter'[b] = adapter[b] \/ adapter'[b] = [adapter[b] EXCEPT !.retired = TRUE, !.closed = (adapter[b].ops = 0)]
            BY <1>1, <1>2
        <2> QED
            BY <2>2, <2>3, <2>4, <2>5
    <1>4. \A b : SentOn(b)' = SentOn(b)
        BY DEF SentOn, StillSent
    <1>5. \A g : SentOver(g)' = SentOver(g)
        <2>1. \A k \in Calls : call[k].pc = "sent" => call[k].adapter \in Adapters
            BY <1>1 DEF PoolInv, Placed, CallsPlaced
        <2> QED
            BY <1>3, <2>1 DEF SentOver, StillSent
    <1>6. Stocks'
        <2>1. adapter' \in [Adapters -> AdapterRow]
            BY <1>1, <1>2, <1>3
        <2> QED
            BY <1>1, <2>1 DEF Stocks
    <1>7. AdaptersCounted' /\ TransportsCounted'
        BY <1>1, <1>3, <1>4, <1>5 DEF AdaptersCounted, TransportsCounted, Lending
    <1>8. CurrentUsable' /\ AdaptersPlaced'
        BY <1>1, <1>3 DEF CurrentUsable, AdaptersPlaced, Lending
    <1>9. Held'
        <2>1. \A c \in Clients : facade'[c].adapter # 0 =>
                  /\ facade'[c].adapter = facade[c].adapter /\ facade'[c].adapter # a
                  /\ facade'[c].adapter \in Adapters
            <3>1. \A c \in Clients : facade[c].adapter \in 0..MaxAdapters
                BY TypeFacts DEF FacadeRow
            <3>2. \A c \in Clients : facade[c].adapter # 0 => facade[c].adapter \in Adapters
                BY <3>1, PoolAssumption DEF Adapters
            <3> QED
                BY <3>2 DEF EntriesShrink
        <2>2. Held
            BY <1>1 DEF Lending
        <2> QED
            BY <1>3, <2>1, <2>2 DEF Held
    <1> QED
        BY <1>6, <1>7, <1>8, <1>9 DEF Lending

\* A step that leaves entries, objects and phase alone, as far as lending goes.
EntriesStay ==
    /\ \A c \in Clients : facade'[c].adapter = facade[c].adapter
    /\ made'.adapters = made.adapters /\ made'.gens = made.gens /\ Off' = Off

\* An operation ends, and its call becomes v: the lease and the adapter are given back, and
\* the generation may be invalidated.
LEMMA OverKeeps ==
    ASSUME PoolInv, NEW k \in Calls, NEW v, v.pc # "sent", call' = [call EXCEPT ![k] = v],
           call[k].pc = "sent", adapter' = Released(adapter, call[k].adapter), EntriesStay,
           \/ /\ transport' = LeaseReturned(transport, adapter[call[k].adapter].gen)
              /\ currentGen' = currentGen
           \/ /\ transport' = Invalidated(LeaseReturned(transport, adapter[call[k].adapter].gen),
                                          adapter[call[k].adapter].gen)
              /\ currentGen' = CurrentAfter(transport')
    PROVE  Lending' /\ Stocks'
    <1> PICK a : a = call[k].adapter
        OBVIOUS
    <1> PICK g : g = adapter[a].gen
        OBVIOUS
    <1>1. /\ adapter \in [Adapters -> AdapterRow] /\ 1..made.adapters \subseteq Adapters
          /\ transport \in [Generations -> TransportRow] /\ 1..made.gens \subseteq Generations
          /\ made.adapters \in Nat /\ made.gens \in Nat
          /\ Stocks /\ Lending
        BY TypeFacts DEF Stocks, PoolInv
    <1>2. a \in 1..made.adapters /\ g \in 1..made.gens /\ a \in Adapters /\ g \in Generations
        BY <1>1 DEF PoolInv, Placed, CallsPlaced, Lending, AdaptersPlaced
    <1>3. k \in SentOn(a) /\ k \in SentOver(g)
        BY DEF SentOn, SentOver
    <1>4. /\ [adapter[a] EXCEPT !.ops = @ - 1, !.closed = @ \/ (adapter[a].retired /\ adapter[a].ops = 1)] \in AdapterRow
          /\ AdapterOK([adapter[a] EXCEPT !.ops = @ - 1, !.closed = @ \/ (adapter[a].retired /\ adapter[a].ops = 1)],
                       SentOn(a) \ {k})
        <2>1. AdapterOK(adapter[a], SentOn(a)) /\ SentOn(a) \in SUBSET Calls /\ adapter[a] \in AdapterRow
            BY <1>1, <1>2 DEF Lending, AdaptersCounted, SentOn
        <2> QED
            BY <1>3, <2>1, AdapterMoves
    <1>5. /\ adapter'[a] = [adapter[a] EXCEPT !.ops = @ - 1, !.closed = @ \/ (adapter[a].retired /\ adapter[a].ops = 1)]
          /\ \A b \in Adapters : b # a => adapter'[b] = adapter[b]
          /\ adapter' \in [Adapters -> AdapterRow]
        <2>1. adapter' = [adapter EXCEPT ![a] = [adapter[a] EXCEPT !.ops = @ - 1,
                                                    !.closed = @ \/ (adapter[a].retired /\ adapter[a].ops = 1)]]
            BY <1>1, <1>2 DEF Released
        <2> QED
            BY <1>1, <1>2, <1>4, <2>1
    <1>6. \A b \in Adapters : adapter'[b].gen = adapter[b].gen /\ adapter'[b].retired = adapter[b].retired
        <2>1. adapter[a] \in AdapterRow
            BY <1>1, <1>2
        <2>2. adapter'[a].gen = adapter[a].gen /\ adapter'[a].retired = adapter[a].retired
            BY <1>5, <2>1 DEF AdapterRow
        <2> QED
            BY <1>5, <2>2
    <1>7. /\ \A b : SentOn(b)' = SentOn(b) \ {k}
          /\ \A h : SentOver(h)' = SentOver(h) \ {k}
        <2>1. \A b \in 1..made.adapters : adapter'[b].gen = adapter[b].gen
            BY <1>1, <1>6
        <2>2. /\ \A b : SentOn(b)' = IF v.pc = "sent" /\ v.adapter = b
                                      THEN SentOn(b) \cup {k} ELSE SentOn(b) \ {k}
              /\ \A h : SentOver(h)' = IF v.pc = "sent" /\ adapter'[v.adapter].gen = h
                                        THEN SentOver(h) \cup {k} ELSE SentOver(h) \ {k}
            BY <2>1, SentMoves
        <2> QED
            BY <2>2
    <1>8. AdaptersCounted'
        <2>1. ASSUME NEW b \in Adapters, b # a PROVE AdapterOK(adapter'[b], SentOn(b)')
            <3>1. k \notin SentOn(b)
                BY <2>1 DEF SentOn
            <3> QED
                BY <1>1, <1>5, <1>7, <2>1, <3>1 DEF Lending, AdaptersCounted
        <2>2. AdapterOK(adapter'[a], SentOn(a)')
            <3>1. SentOn(a)' = SentOn(a) \ {k}
                BY <1>7
            <3> QED
                BY <1>4, <1>5, <3>1
        <2> QED
            BY <2>1, <2>2 DEF AdaptersCounted
    <1> PICK held : held = Returned(transport[g])
        OBVIOUS
    <1>9. /\ held \in TransportRow /\ TransportOK(held, SentOver(g) \ {k}, Off)
          /\ transport[g].tracked /\ ~transport[g].invalid => held.tracked /\ ~held.invalid
        <2>1. /\ TransportOK(transport[g], SentOver(g), Off) /\ SentOver(g) \in SUBSET Calls
              /\ transport[g] \in TransportRow /\ Off \in BOOLEAN
            BY <1>1, <1>2 DEF Lending, TransportsCounted, SentOver, Off
        <2> QED
            BY <1>3, <2>1, ReturnedFacts
    <1>10. Condemned(held) \in TransportRow /\ TransportOK(Condemned(held), SentOver(g) \ {k}, Off)
        <2>1. SentOver(g) \ {k} \in SUBSET Calls /\ Off \in BOOLEAN
            BY DEF SentOver, Off
        <2> QED
            BY <1>9, <2>1, TransportMoves
    <1>11. LeaseReturned(transport, g) = [transport EXCEPT ![g] = held]
        BY <1>1, <1>2 DEF LeaseReturned, Returned
    <1>12. \/ transport' = [transport EXCEPT ![g] = held] /\ currentGen' = currentGen
           \/ transport' = [transport EXCEPT ![g] = Condemned(held)] /\ currentGen' = CurrentAfter(transport')
        <2> PICK t : t = [transport EXCEPT ![g] = held]
            OBVIOUS
        <2>1. t \in [Generations -> TransportRow] /\ t[g] = held
            BY <1>1, <1>2, <1>9
        <2>2. Invalidated(t, g) = [t EXCEPT ![g] = Condemned(held)]
            BY <1>2, <2>1 DEF Invalidated, Condemned
        <2>3. [t EXCEPT ![g] = Condemned(held)] = [transport EXCEPT ![g] = Condemned(held)]
            BY <1>1, <1>2
        <2> QED
            BY <1>11, <2>2, <2>3
    <1>13. /\ \A h \in Generations : h # g => transport'[h] = transport[h]
           /\ \/ transport'[g] = held /\ currentGen' = currentGen
              \/ transport'[g] = Condemned(held) /\ currentGen' = CurrentAfter(transport')
           /\ transport' \in [Generations -> TransportRow]
        BY <1>1, <1>2, <1>9, <1>10, <1>12
    <1>14. TransportsCounted'
        <2>1. ASSUME NEW h \in Generations, h # g PROVE TransportOK(transport'[h], SentOver(h)', Off')
            <3>1. k \notin SentOver(h)
                BY <2>1 DEF SentOver
            <3>2. Off' = Off /\ SentOver(h)' = SentOver(h)
                BY <1>7, <3>1 DEF EntriesStay
            <3> QED
                BY <1>1, <1>13, <2>1, <3>2 DEF Lending, TransportsCounted
        <2>2. TransportOK(transport'[g], SentOver(g)', Off')
            <3>1. Off' = Off /\ SentOver(g)' = SentOver(g) \ {k}
                BY <1>7 DEF EntriesStay
            <3> QED
                BY <1>9, <1>10, <1>13, <3>1
        <2> QED
            BY <2>1, <2>2 DEF TransportsCounted
    <1>15. CurrentUsable' /\ currentGen' \in 0..MaxGenerations
        <2>1. CurrentUsable /\ currentGen \in 0..MaxGenerations /\ MaxGenerations \in Nat
            BY <1>1, PoolAssumption DEF Lending, Stocks
        <2>2. currentGen # 0 => currentGen \in Generations
            BY <2>1 DEF Generations
        <2>3. CASE currentGen' = currentGen /\ transport'[g] = held
            BY <1>9, <1>13, <2>1, <2>2, <2>3 DEF CurrentUsable, EntriesStay
        <2>4. CASE currentGen' = CurrentAfter(transport')
            BY <2>1, <2>4 DEF CurrentUsable, CurrentAfter, EntriesStay
        <2> QED
            BY <1>13, <2>3, <2>4
    <1>16. AdaptersPlaced' /\ Held'
        <2>1. \A c \in Clients : facade[c].adapter # 0 => facade[c].adapter \in Adapters
            BY TypeFacts DEF FacadeRow, Adapters
        <2>2. AdaptersPlaced'
            BY <1>1, <1>6 DEF AdaptersPlaced, Lending, EntriesStay
        <2>3. Held'
            BY <1>1, <1>6, <2>1 DEF Held, Lending, EntriesStay
        <2> QED
            BY <2>2, <2>3
    <1> QED
        BY <1>5, <1>8, <1>13, <1>14, <1>15, <1>16 DEF Lending, Stocks

\* Before an operation starts on adapter a, in the tables d and t: a and its generation are
\* in order and usable.
Prepared(a, d, t) ==
    /\ d \in [Adapters -> AdapterRow] /\ t \in [Generations -> TransportRow]
    /\ a \in Adapters /\ a \in 1..made'.adapters /\ ~d[a].retired
    /\ \A b \in 1..made.adapters : d[b] = adapter[b]
    /\ \A b \in 1..made'.adapters : d[b].gen \in 1..made'.gens
    /\ \A b \in Adapters : AdapterOK(d[b], SentOn(b))
    /\ \A h \in Generations : TransportOK(t[h], SentOver(h), Off)
    /\ d[a].gen \in Generations /\ t[d[a].gen].tracked /\ ~t[d[a].gen].invalid

\* The entries and the current generation after the step, in the tables d and t.
PreparedAfter(d, t) ==
    /\ \A c \in Clients : facade'[c].adapter # 0 =>
           facade'[c].adapter \in Adapters /\ ~d[facade'[c].adapter].retired
    /\ \A c, e \in Clients : facade'[c].adapter = facade'[e].adapter /\ facade'[c].adapter # 0 => c = e
    /\ currentGen' \in 0..MaxGenerations
    /\ currentGen' # 0 => /\ currentGen' \in Generations /\ currentGen' <= made'.gens
                          /\ t[currentGen'].tracked /\ ~t[currentGen'].invalid
    /\ 1..made'.adapters \subseteq Adapters
    /\ Off' = Off

\* An operation starts.
LEMMA SendKeeps ==
    ASSUME PoolInv, NEW k \in Calls, call[k].pc # "sent", NEW a, NEW d, NEW t,
           Sent(k, d, t, a), Prepared(a, d, t), PreparedAfter(d, t)
    PROVE  Lending' /\ Stocks'
    <1> PICK g : g = d[a].gen
        OBVIOUS
    <1>0. PICK v : v = [call[k] EXCEPT !.pc = "sent", !.adapter = a]
        OBVIOUS
    <1>1. /\ d \in [Adapters -> AdapterRow] /\ t \in [Generations -> TransportRow]
          /\ a \in Adapters /\ g \in Generations /\ ~d[a].retired /\ t[g].tracked /\ ~t[g].invalid
          /\ d[a] \in AdapterRow /\ t[g] \in TransportRow
          /\ 1..made.adapters \subseteq Adapters
          /\ call \in [Calls -> CallRow]
        BY TypeFacts DEF Prepared
    <1>2. AdapterOK(d[a], SentOn(a)) /\ TransportOK(t[g], SentOver(g), Off)
        BY <1>1 DEF Prepared
    <1>3. /\ k \notin SentOn(a) /\ k \notin SentOver(g) /\ SentOn(a) \in SUBSET Calls
          /\ SentOver(g) \in SUBSET Calls /\ Off \in BOOLEAN
        BY DEF SentOn, SentOver, Off
    <1>4. [d[a] EXCEPT !.ops = @ + 1] \in AdapterRow /\ AdapterOK([d[a] EXCEPT !.ops = @ + 1], SentOn(a) \cup {k})
        BY <1>1, <1>2, <1>3, AdapterMoves
    <1>5. /\ [t[g] EXCEPT !.users = @ + 1] \in TransportRow
          /\ TransportOK([t[g] EXCEPT !.users = @ + 1], SentOver(g) \cup {k}, Off)
          /\ [t[g] EXCEPT !.users = @ + 1].tracked /\ ~[t[g] EXCEPT !.users = @ + 1].invalid
        BY <1>1, <1>2, <1>3, TransportMoves
    <1>6. /\ adapter'[a] = [d[a] EXCEPT !.ops = @ + 1] /\ adapter' \in [Adapters -> AdapterRow]
          /\ \A b \in Adapters : b # a => adapter'[b] = d[b]
        BY <1>1, <1>4 DEF Sent
    <1>7. /\ transport'[g] = [t[g] EXCEPT !.users = @ + 1] /\ transport' \in [Generations -> TransportRow]
          /\ \A h \in Generations : h # g => transport'[h] = t[h]
        BY <1>1, <1>5 DEF Sent
    <1>8. \A b \in Adapters : adapter'[b].gen = d[b].gen /\ adapter'[b].retired = d[b].retired
        <2>1. adapter'[a].gen = d[a].gen /\ adapter'[a].retired = d[a].retired
            BY <1>1, <1>6 DEF AdapterRow
        <2> QED
            BY <1>6, <2>1
    <1>9. call' = [call EXCEPT ![k] = v] /\ v.pc = "sent" /\ v.adapter = a
        <2>1. call[k] \in CallRow
            BY <1>1
        <2>2. v.pc = "sent" /\ v.adapter = a
            BY <1>0, <2>1 DEF CallRow
        <2>3. call' = [call EXCEPT ![k] = v]
            BY <1>0, <1>1 DEF Sent
        <2> QED
            BY <2>2, <2>3
    <1>10. /\ \A b : SentOn(b)' = IF a = b THEN SentOn(b) \cup {k} ELSE SentOn(b) \ {k}
           /\ \A h : SentOver(h)' = IF g = h THEN SentOver(h) \cup {k} ELSE SentOver(h) \ {k}
        <2>1. \A b \in 1..made.adapters : adapter'[b].gen = adapter[b].gen
            BY <1>1, <1>8 DEF Prepared
        <2>2. /\ \A b : SentOn(b)' = IF v.pc = "sent" /\ v.adapter = b
                                      THEN SentOn(b) \cup {k} ELSE SentOn(b) \ {k}
              /\ \A h : SentOver(h)' = IF v.pc = "sent" /\ adapter'[v.adapter].gen = h
                                        THEN SentOver(h) \cup {k} ELSE SentOver(h) \ {k}
            <3>1. call' = [call EXCEPT ![k] = v]
                BY <1>9
            <3> QED
                BY <2>1, <3>1, SentMoves
        <2>3. adapter'[a].gen = g
            BY <1>1, <1>8
        <2> QED
            BY <1>9, <2>2, <2>3
    <1>11. /\ \A b : b # a => SentOn(b)' = SentOn(b)
           /\ \A h : h # g => SentOver(h)' = SentOver(h)
        <2>1. (\A b : k \notin SentOn(b)) /\ (\A h : k \notin SentOver(h))
            BY DEF SentOn, SentOver
        <2> QED
            BY <1>10, <2>1
    <1>12. AdaptersCounted'
        <2>1. ASSUME NEW b \in Adapters PROVE AdapterOK(adapter'[b], SentOn(b)')
            <3>1. CASE b = a
                BY <1>4, <1>6, <1>10, <3>1
            <3>2. CASE b # a
                BY <1>6, <1>11, <3>2 DEF Prepared
            <3> QED
                BY <3>1, <3>2
        <2> QED
            BY <2>1 DEF AdaptersCounted
    <1>13. TransportsCounted'
        <2>0. Off' = Off
            BY DEF PreparedAfter
        <2>1. ASSUME NEW h \in Generations PROVE TransportOK(transport'[h], SentOver(h)', Off')
            <3>1. CASE h = g
                BY <1>5, <1>7, <1>10, <2>0, <3>1
            <3>2. CASE h # g
                BY <1>7, <1>11, <2>0, <3>2 DEF Prepared
            <3> QED
                BY <3>1, <3>2
        <2> QED
            BY <2>1 DEF TransportsCounted
    <1>14. CurrentUsable'
        BY <1>5, <1>7 DEF CurrentUsable, PreparedAfter
    <1>15. AdaptersPlaced'
        BY <1>8 DEF AdaptersPlaced, Prepared, PreparedAfter
    <1>16. Held'
        BY <1>8 DEF Held, PreparedAfter
    <1>17. currentGen' \in 0..MaxGenerations
        BY DEF PreparedAfter
    <1> QED
        BY <1>6, <1>7, <1>12, <1>13, <1>14, <1>15, <1>16, <1>17 DEF Lending, Stocks

\* Every transport is closed, whoever uses it.
LEMMA CloseKeeps ==
    ASSUME PoolInv, CloseTransports
    PROVE  Lending' /\ Stocks'
    <1>1. Stocks /\ Lending
        BY TypeFacts DEF PoolInv
    <1>2. ASSUME NEW h \in Generations
          PROVE  transport'[h] \in TransportRow /\ ~transport'[h].tracked /\ ~transport'[h].open
        <2>1. transport[h] \in TransportRow /\ transport'[h] = [transport[h] EXCEPT !.tracked = FALSE, !.open = FALSE]
            BY <1>1 DEF CloseTransports, Stocks
        <2> QED
            BY <2>1 DEF TransportRow
    <1>3. transport' \in [Generations -> TransportRow]
        BY <1>2 DEF CloseTransports
    <1>4. Off'
        BY DEF CloseTransports, Off, PoolInv, PoolTypeOK
    <1>5. TransportsCounted'
        BY <1>2, <1>4 DEF TransportsCounted, TransportOK
    <1>6. /\ UNCHANGED <<adapter, call, facade, made>>
          /\ currentGen' = 0
        BY DEF CloseTransports
    <1>7. \A a : SentOn(a)' = SentOn(a)
        BY <1>6 DEF SentOn
    <1>8. AdaptersCounted' /\ Held' /\ AdaptersPlaced' /\ CurrentUsable'
        BY <1>1, <1>6, <1>7 DEF AdaptersCounted, Held, AdaptersPlaced, CurrentUsable, Lending
    <1>9. Stocks'
        BY <1>1, <1>3, <1>6, PoolAssumption DEF Stocks
    <1> QED
        BY <1>5, <1>8, <1>9 DEF Lending

-----------------------------------------------------------------------------
(* Who is busy                                                             *)

PoolRow == [phase : {"up", "registry", "drain", "off"}, awaits : SUBSET Clients, opened : 0..MaxCalls]
MadeRow == [clients : 0..MaxClients, adapters : 0..MaxAdapters, gens : 0..MaxGenerations]

\* The invariant apart from what is lent: the objects, and the calls.
Front ==
    /\ registry \in [Peers -> 0..MaxClients] /\ facade \in [Clients -> FacadeRow]
    /\ pool \in PoolRow /\ made \in MadeRow
    /\ \A p \in Peers : registry[p] <= made.clients
    /\ \A c \in Clients : facade[c].adapter <= made.adapters
Talk == call \in [Calls -> CallRow] /\ CallsPlaced /\ BusyCounted

LEMMA InvParts ==
    /\ PoolInv <=> Front /\ Talk /\ Stocks /\ Lending
    /\ PoolInv' <=> Front' /\ Talk' /\ Stocks' /\ Lending'
    BY DEF PoolInv, PoolTypeOK, Placed, Front, Talk, Stocks, PoolRow, MadeRow, CallRow, FacadeRow,
           AdapterRow, TransportRow

\* A client in use is busy.
LEMMA BusyAtLeast ==
    ASSUME PoolInv, NEW k \in Calls, InUse(call[k])
    PROVE  call[k].client \in Clients /\ facade[call[k].client].busy >= 1
    <1>1. call[k].client \in Clients
        BY TypeFacts DEF InUse, PoolInv, Placed, CallsPlaced
    <1>2. k \in Using(call[k].client) /\ Using(call[k].client) \in SUBSET Calls
        BY DEF Using
    <1>3. facade[call[k].client].busy = Cardinality(Using(call[k].client))
        BY <1>1 DEF PoolInv, BusyCounted
    <1>4. Cardinality(Using(call[k].client)) >= 1
        BY <1>2, CountFacts
    <1> QED
        BY <1>1, <1>3, <1>4

\* What a call weighs on its client.
Weight(v) == IF InUse(v) THEN 1 ELSE 0

\* The call of slot k moves to v, and its client is c.
CallStep(k, v, c) ==
    /\ v \in CallRow /\ c \in Clients
    /\ call' = [call EXCEPT ![k] = v]
    /\ v.pc # "idle" => v.client \in 1..made'.clients /\ v.peer \in Peers
    /\ v.pc \in {"sent", "discard"} => v.adapter \in 1..made'.adapters
    /\ InUse(call[k]) => call[k].client = c
    /\ InUse(v) => v.client = c

BusyStep(k, v, c) ==
    /\ \A e \in Clients : e # c => facade'[e].busy = facade[e].busy
    /\ facade'[c].busy = facade[c].busy + Weight(v) - Weight(call[k])

MadeGrows ==
    /\ made \in MadeRow /\ made' \in MadeRow
    /\ made.clients <= made'.clients /\ made.adapters <= made'.adapters

\* The calls after such a step.
LEMMA CallKeeps ==
    ASSUME PoolInv, NEW k \in Calls, NEW v, NEW c, CallStep(k, v, c), BusyStep(k, v, c), MadeGrows
    PROVE  Talk'
    <1>1. /\ call \in [Calls -> CallRow] /\ facade \in [Clients -> FacadeRow] /\ BusyCounted /\ CallsPlaced
        BY TypeFacts DEF PoolInv, Placed
    <1>2. call'[k] = v /\ (\A j \in Calls : j # k => call'[j] = call[j]) /\ call' \in [Calls -> CallRow]
        BY <1>1 DEF CallStep
    <1>3. CallsPlaced'
        <2>1. ASSUME NEW j \in Calls, j # k
              PROVE  /\ call'[j].pc # "idle" => call'[j].client \in 1..made'.clients /\ call'[j].peer \in Peers
                     /\ call'[j].pc \in {"sent", "discard"} => call'[j].adapter \in 1..made'.adapters
            <3>1. /\ made.clients \in Nat /\ made'.clients \in Nat /\ made.adapters \in Nat /\ made'.adapters \in Nat
                  /\ made.clients <= made'.clients /\ made.adapters <= made'.adapters
                BY PoolAssumption DEF MadeGrows, MadeRow
            <3>2. 1..made.clients \subseteq 1..made'.clients /\ 1..made.adapters \subseteq 1..made'.adapters
                BY <3>1
            <3> QED
                BY <1>1, <1>2, <2>1, <3>2 DEF CallsPlaced
        <2>2. /\ v.pc # "idle" => v.client \in 1..made'.clients /\ v.peer \in Peers
              /\ v.pc \in {"sent", "discard"} => v.adapter \in 1..made'.adapters
            BY DEF CallStep
        <2> QED
            BY <1>2, <2>1, <2>2 DEF CallsPlaced
    <1>4. BusyCounted'
        <2>1. ASSUME NEW e \in Clients, NEW j \in Calls
              PROVE  j \in Using(e)' <=> IF j = k THEN InUse(v) /\ v.client = e ELSE j \in Using(e)
            BY <1>2 DEF Using
        <2>2. ASSUME NEW e \in Clients
              PROVE  Using(e) \in SUBSET Calls /\ Using(e)' \in SUBSET Calls
            BY DEF Using
        <2>3. ASSUME NEW e \in Clients, e # c PROVE facade'[e].busy = Cardinality(Using(e)')
            <3>1. ~(InUse(v) /\ v.client = e) /\ k \notin Using(e)
                BY <2>3 DEF CallStep, Using
            <3>2. \A j \in Calls : j \in Using(e)' <=> j \in Using(e)
                BY <2>1, <3>1
            <3>3. Using(e)' = Using(e)
                BY <2>2, <3>2
            <3> QED
                BY <1>1, <2>3, <3>3 DEF BusyCounted, BusyStep
        <2>4. facade'[c].busy = Cardinality(Using(c)')
            <3>1. /\ c \in Clients /\ facade[c].busy = Cardinality(Using(c)) /\ Using(c) \in SUBSET Calls
                  /\ facade[c].busy \in Nat /\ (k \in Using(c) <=> InUse(call[k]))
                BY <1>1 DEF BusyCounted, CallStep, Using, FacadeRow
            <3>2. Using(c)' = IF InUse(v) THEN Using(c) \cup {k} ELSE Using(c) \ {k}
                <4>1. \A j \in Calls : j \in Using(c)' <=> IF j = k THEN InUse(v) ELSE j \in Using(c)
                    BY <2>1, <3>1 DEF CallStep
                <4> QED
                    BY <2>2, <3>1, <4>1
            <3>3. CASE InUse(v) <=> InUse(call[k])
                <4>1. Using(c)' = Using(c)
                    BY <3>1, <3>2, <3>3
                <4>2. Weight(v) = Weight(call[k]) /\ Weight(v) \in Nat
                    BY <3>3 DEF Weight
                <4> QED
                    BY <3>1, <4>1, <4>2 DEF BusyStep
            <3>4. CASE InUse(v) /\ ~InUse(call[k])
                <4>1. Cardinality(Using(c)') = facade[c].busy + 1
                    BY <3>1, <3>2, <3>4, CountFacts
                <4> QED
                    BY <3>1, <3>4, <4>1 DEF BusyStep, Weight
            <3>5. CASE ~InUse(v) /\ InUse(call[k])
                <4>1. Cardinality(Using(c)') = facade[c].busy - 1
                    BY <3>1, <3>2, <3>5, CountFacts
                <4> QED
                    BY <3>1, <3>5, <4>1 DEF BusyStep, Weight
            <3> QED
                BY <3>3, <3>4, <3>5
        <2> QED
            BY <2>3, <2>4 DEF BusyCounted
    <1> QED
        BY <1>2, <1>3, <1>4 DEF Talk

\* Calls left alone.
LEMMA CallsStay ==
    ASSUME PoolInv, call' = call, made' = made, \A c \in Clients : facade'[c].busy = facade[c].busy
    PROVE  Talk'
    <1>1. \A c \in Clients : Using(c)' = Using(c)
        BY DEF Using
    <1> QED
        BY <1>1, InvParts DEF Talk, CallsPlaced, BusyCounted

-----------------------------------------------------------------------------
(* The ways a call moves                                                   *)

\* A step that changes no call to or from sent.
LEMMA StillSentFact ==
    ASSUME PoolInv, NEW k \in Calls, NEW v, call' = [call EXCEPT ![k] = v],
           call[k].pc # "sent", v.pc # "sent"
    PROVE  StillSent
    <1>1. call'[k] = v /\ \A j \in Calls : j # k => call'[j] = call[j]
        BY TypeFacts
    <1> QED
        BY <1>1 DEF StillSent

\* The client of a call in use, when the call ends.
Freed(k) == [facade EXCEPT ![call[k].client].busy = @ - 1]

LEMMA FreedFacts ==
    ASSUME PoolInv, NEW k \in Calls, InUse(call[k])
    PROVE  /\ Freed(k) \in [Clients -> FacadeRow]
           /\ \A e \in Clients : Freed(k)[e].adapter = facade[e].adapter
           /\ \A e \in Clients : e # call[k].client => Freed(k)[e].busy = facade[e].busy
           /\ Freed(k)[call[k].client].busy = facade[call[k].client].busy - 1
    <1> PICK c : c = call[k].client
        OBVIOUS
    <1>1. c \in Clients /\ facade[c].busy >= 1 /\ facade \in [Clients -> FacadeRow]
        BY BusyAtLeast, TypeFacts
    <1>2. facade[c] \in FacadeRow /\ facade[c].busy - 1 \in Nat
        BY <1>1 DEF FacadeRow
    <1>3. /\ [facade[c] EXCEPT !.busy = @ - 1] \in FacadeRow
          /\ [facade[c] EXCEPT !.busy = @ - 1].adapter = facade[c].adapter
          /\ [facade[c] EXCEPT !.busy = @ - 1].busy = facade[c].busy - 1
        BY <1>2 DEF FacadeRow
    <1>4. Freed(k) = [facade EXCEPT ![c] = [facade[c] EXCEPT !.busy = @ - 1]]
        BY <1>1 DEF Freed
    <1> QED
        BY <1>1, <1>3, <1>4

\* The entry of an agent is dropped: of the clients only a state changes.
LEMMA DroppedFacts ==
    ASSUME PoolInv, NEW p \in Peers, NEW cl \in [Clients -> FacadeRow], Dropped(p, cl)
    PROVE  /\ facade' \in [Clients -> FacadeRow]
           /\ \A e \in Clients : facade'[e].adapter = cl[e].adapter /\ facade'[e].busy = cl[e].busy
           /\ registry' \in [Peers -> 0..MaxClients]
           /\ \A q \in Peers : registry'[q] <= made.clients
    <1> PICK c : c = registry[p]
        OBVIOUS
    <1>1. /\ registry \in [Peers -> 0..MaxClients] /\ c \in 0..MaxClients /\ MaxClients \in Nat
          /\ made.clients \in Nat /\ \A q \in Peers : registry[q] <= made.clients
        BY TypeFacts, InvParts DEF Front
    <1>2. c # 0 => c \in Clients
        BY <1>1 DEF Clients
    <1>3. /\ registry' \in [Peers -> 0..MaxClients]
          /\ \A q \in Peers : registry'[q] <= made.clients
        BY <1>1 DEF Dropped
    <1>4. CASE c = 0
        BY <1>3, <1>4 DEF Dropped
    <1>5. CASE c # 0
        <2>1. facade' = [cl EXCEPT ![c] = [cl[c] EXCEPT !.state = "closing"]] /\ cl[c] \in FacadeRow
            BY <1>2, <1>5 DEF Dropped
        <2>2. /\ [cl[c] EXCEPT !.state = "closing"] \in FacadeRow
              /\ [cl[c] EXCEPT !.state = "closing"].adapter = cl[c].adapter
              /\ [cl[c] EXCEPT !.state = "closing"].busy = cl[c].busy
            BY <2>1 DEF FacadeRow
        <2> QED
            BY <1>2, <1>3, <1>5, <2>1, <2>2
    <1> QED
        BY <1>4, <1>5

\* A call ends, and its agent's entry may be dropped.
Ends(k) ==
    /\ call' = [call EXCEPT ![k] = NoCall]
    /\ \/ facade' = Freed(k) /\ UNCHANGED registry
       \/ Dropped(call[k].peer, Freed(k))
    /\ UNCHANGED <<pool, made>>

LEMMA EndKeeps ==
    ASSUME PoolInv, NEW k \in Calls, InUse(call[k]), Ends(k)
    PROVE  Front' /\ Talk' /\ EntriesStay
    <1> PICK c : c = call[k].client
        OBVIOUS
    <1>1. c \in Clients /\ Front /\ call[k].peer \in Peers
        BY BusyAtLeast, InvParts DEF Talk, CallsPlaced, InUse
    <1>2. /\ facade' \in [Clients -> FacadeRow]
          /\ \A e \in Clients : facade'[e].adapter = facade[e].adapter
          /\ \A e \in Clients : e # c => facade'[e].busy = facade[e].busy
          /\ facade'[c].busy = facade[c].busy - 1
          /\ registry' \in [Peers -> 0..MaxClients]
          /\ \A q \in Peers : registry'[q] <= made.clients
        <2>1. CASE facade' = Freed(k) /\ UNCHANGED registry
            BY <1>1, <2>1, FreedFacts DEF Front
        <2>2. CASE Dropped(call[k].peer, Freed(k))
            <3>1. Freed(k) \in [Clients -> FacadeRow]
                BY FreedFacts
            <3>2. /\ facade' \in [Clients -> FacadeRow]
                  /\ \A e \in Clients : facade'[e].adapter = Freed(k)[e].adapter
                                        /\ facade'[e].busy = Freed(k)[e].busy
                  /\ registry' \in [Peers -> 0..MaxClients]
                  /\ \A q \in Peers : registry'[q] <= made.clients
                BY <1>1, <2>2, <3>1, DroppedFacts
            <3> QED
                BY <1>1, <3>2, FreedFacts
        <2> QED
            BY <2>1, <2>2 DEF Ends
    <1>3. CallStep(k, NoCall, c)
        <2>1. NoCall \in CallRow
            BY PoolAssumption DEF NoCall, CallRow
        <2>2. NoCall.pc = "idle"
            BY DEF NoCall
        <2> QED
            BY <1>1, <2>1, <2>2 DEF CallStep, Ends, InUse
    <1>4. BusyStep(k, NoCall, c)
        <2>1. Weight(NoCall) = 0 /\ Weight(call[k]) = 1
            BY DEF Weight, InUse, NoCall
        <2>2. facade[c].busy \in Nat
            BY <1>1 DEF Front, FacadeRow
        <2> QED
            BY <1>2, <2>1, <2>2 DEF BusyStep
    <1>5. MadeGrows
        <2>1. made \in MadeRow /\ made' = made
            BY <1>1 DEF Front, Ends
        <2> QED
            BY <2>1, PoolAssumption DEF MadeGrows, MadeRow
    <1>6. Talk'
        BY <1>3, <1>4, <1>5, CallKeeps
    <1>7. Front' /\ EntriesStay
        BY <1>1, <1>2 DEF Front, EntriesStay, Ends, Off
    <1> QED
        BY <1>6, <1>7

\* A call that keeps its client moves to v, and its client may get or lose an adapter.
Moves(k, v) ==
    /\ call' = [call EXCEPT ![k] = v] /\ v \in CallRow /\ InUse(v)
    /\ v.client = call[k].client /\ v.peer = call[k].peer
    /\ v.pc \in {"sent", "discard"} => v.adapter \in 1..made'.adapters
    /\ facade' \in [Clients -> FacadeRow]
    /\ \A e \in Clients : facade'[e].busy = facade[e].busy /\ facade'[e].adapter <= made'.adapters
    /\ UNCHANGED <<registry, pool>>
    /\ made' \in MadeRow /\ made.adapters <= made'.adapters /\ made'.clients = made.clients

LEMMA MoveKeeps ==
    ASSUME PoolInv, NEW k \in Calls, NEW v, InUse(call[k]), Moves(k, v)
    PROVE  Front' /\ Talk'
    <1> PICK c : c = call[k].client
        OBVIOUS
    <1>1. /\ c \in Clients /\ Front /\ call[k].peer \in Peers /\ c \in 1..made.clients
        BY BusyAtLeast, InvParts DEF Talk, CallsPlaced, InUse
    <1>2. CallStep(k, v, c)
        BY <1>1 DEF CallStep, Moves
    <1>3. BusyStep(k, v, c)
        <2>1. Weight(v) = 1 /\ Weight(call[k]) = 1
            BY DEF Weight, Moves
        <2>2. facade[c].busy \in Nat /\ facade'[c].busy = facade[c].busy
            BY <1>1 DEF Front, FacadeRow, Moves
        <2> QED
            BY <2>1, <2>2 DEF BusyStep, Moves
    <1>4. MadeGrows
        <2>1. made \in MadeRow /\ made.clients \in Nat
            BY <1>1, PoolAssumption DEF Front, MadeRow
        <2> QED
            BY <2>1 DEF MadeGrows, Moves
    <1>5. Talk'
        BY <1>2, <1>3, <1>4, CallKeeps
    <1>6. Front'
        BY <1>1 DEF Front, Moves
    <1> QED
        BY <1>5, <1>6

\* Clients and calls as they were, but for a state, a card or an entry that is emptied.
LEMMA StayKeeps ==
    ASSUME PoolInv, call' = call, made' = made, facade' \in [Clients -> FacadeRow],
           \A e \in Clients : facade'[e].busy = facade[e].busy /\ facade'[e].adapter \in {0, facade[e].adapter},
           registry' \in [Peers -> 0..MaxClients], \A p \in Peers : registry'[p] <= made.clients,
           pool' \in PoolRow
    PROVE  Front' /\ Talk' /\ StillSent
    <1>1. Front /\ made.adapters \in Nat
        BY InvParts, TypeFacts
    <1>2. \A e \in Clients : facade'[e].adapter <= made.adapters
        BY <1>1 DEF Front
    <1> QED
        BY <1>1, <1>2, CallsStay DEF Front, StillSent

\* Nothing is sent, ended or retired.
LEMMA QuietKeeps ==
    ASSUME PoolInv, StillSent, UNCHANGED <<adapter, transport, currentGen>>,
           \A e \in Clients : facade'[e].adapter \in {0, facade[e].adapter},
           made'.adapters = made.adapters, made'.gens = made.gens, Off' = Off
    PROVE  Lending' /\ Stocks'
    <1>1. 0 \in 0..MaxAdapters
        BY PoolAssumption
    <1>2. adapter' = Retired(adapter, 0)
        BY DEF Retired
    <1>3. EntriesShrink(0)
        BY DEF EntriesShrink
    <1> QED
        BY <1>1, <1>2, <1>3, RetireKeeps

\* An entry that is emptied leaves its adapter in no entry.
LEMMA TakenOut ==
    ASSUME PoolInv, NEW c \in Clients, facade'[c].adapter = 0,
           \A e \in Clients : e # c => facade'[e].adapter = facade[e].adapter
    PROVE  EntriesShrink(facade[c].adapter) /\ facade[c].adapter \in 0..MaxAdapters
    <1>1. Held /\ facade \in [Clients -> FacadeRow]
        BY TypeFacts DEF PoolInv, Lending
    <1> QED
        BY <1>1 DEF Held, EntriesShrink, FacadeRow

-----------------------------------------------------------------------------
(* The actions                                                             *)

LEMMA OpenSessionKeeps ==
    ASSUME PoolInv, NEW k \in Calls, NEW p \in Peers, OpenSession(k, p)
    PROVE  PoolInv'
    <1>1. /\ Front /\ made.clients \in Nat /\ made.adapters \in Nat /\ MaxClients \in Nat
          /\ registry \in [Peers -> 0..MaxClients] /\ facade \in [Clients -> FacadeRow]
          /\ 1..made.clients \subseteq Clients
        BY InvParts, TypeFacts
    <1>2. pool' \in PoolRow /\ Off' = Off
        <2>1. pool \in PoolRow /\ pool.opened < MaxCalls /\ pool' = [pool EXCEPT !.opened = @ + 1]
            BY <1>1 DEF Front, OpenSession
        <2>2. pool.opened + 1 \in 0..MaxCalls
            BY <2>1, PoolAssumption DEF PoolRow
        <2> QED
            BY <2>1, <2>2 DEF PoolRow, Off
    <1> PICK streaming \in BOOLEAN :
           \/ /\ registry[p] # 0
              /\ LET c == registry[p] IN
                 /\ call' = [call EXCEPT ![k] = [NoCall EXCEPT !.peer = p, !.client = c,
                                  !.streaming = streaming,
                                  !.pc = IF facade[c].card THEN "session" ELSE "card"]]
                 /\ facade' = [facade EXCEPT ![c].busy = @ + (IF facade[c].card THEN 0 ELSE 1)]
              /\ UNCHANGED <<registry, made>>
           \/ /\ registry[p] = 0 /\ made.clients < MaxClients
              /\ LET c == made.clients + 1 IN
                 /\ made' = [made EXCEPT !.clients = c]
                 /\ registry' = [registry EXCEPT ![p] = c]
                 /\ facade' = [facade EXCEPT ![c] = [NoClient EXCEPT !.state = "open", !.busy = 1]]
                 /\ call' = [call EXCEPT ![k] = [NoCall EXCEPT !.peer = p, !.client = c, !.pc = "card",
                                                               !.streaming = streaming]]
        BY DEF OpenSession
    <1>3. CASE registry[p] # 0
        <2> PICK c : c = registry[p]
            OBVIOUS
        <2>0. PICK v : v = [NoCall EXCEPT !.peer = p, !.client = c, !.streaming = streaming,
                                        !.pc = IF facade[c].card THEN "session" ELSE "card"]
            OBVIOUS
        <2>1. c \in 1..made.clients /\ c \in Clients /\ c \in 0..MaxClients
            BY <1>1, <1>3 DEF Front
        <2>2. /\ call' = [call EXCEPT ![k] = v]
              /\ facade' = [facade EXCEPT ![c].busy = @ + (IF facade[c].card THEN 0 ELSE 1)]
              /\ registry' = registry /\ made' = made
            BY <1>3, <2>0
        <2>3. /\ v.pc = IF facade[c].card THEN "session" ELSE "card"
              /\ v.client = c /\ v.peer = p
            BY <2>0 DEF NoCall
        <2>4. v \in CallRow
            <3>1. /\ 0 \in 0..MaxAdapters /\ p \in Peers \cup {"none"}
                  /\ (IF facade[c].card THEN "session" ELSE "card") \in {"card", "session"}
                BY PoolAssumption
            <3>2. v = [pc |-> IF facade[c].card THEN "session" ELSE "card", peer |-> p, client |-> c,
                       adapter |-> 0, streaming |-> streaming, retried |-> FALSE, told |-> FALSE]
                BY <2>0 DEF NoCall
            <3> QED
                BY <2>1, <3>1, <3>2 DEF CallRow
        <2>5. facade[c] \in FacadeRow /\ facade[c].busy \in Nat
            BY <1>1, <2>1 DEF FacadeRow
        <2>6. /\ facade' \in [Clients -> FacadeRow]
              /\ \A e \in Clients : facade'[e].adapter = facade[e].adapter
              /\ \A e \in Clients : e # c => facade'[e].busy = facade[e].busy
              /\ facade'[c].busy = facade[c].busy + (IF facade[c].card THEN 0 ELSE 1)
            <3> PICK row : row = [facade[c] EXCEPT !.busy = @ + (IF facade[c].card THEN 0 ELSE 1)]
                OBVIOUS
            <3>1. facade[c].busy + (IF facade[c].card THEN 0 ELSE 1) \in Nat
                BY <2>5
            <3>2. /\ row \in FacadeRow /\ row.adapter = facade[c].adapter
                  /\ row.busy = facade[c].busy + (IF facade[c].card THEN 0 ELSE 1)
                BY <2>5, <3>1 DEF FacadeRow
            <3>3. facade' = [facade EXCEPT ![c] = row]
                BY <2>2, <2>1, <1>1
            <3> QED
                BY <1>1, <2>1, <3>2, <3>3
        <2>7. call[k].pc = "idle"
            BY DEF OpenSession
        <2>8. CallStep(k, v, c)
            BY <2>1, <2>2, <2>3, <2>4, <2>7 DEF CallStep, InUse
        <2>9. BusyStep(k, v, c)
            <3>1. Weight(call[k]) = 0 /\ Weight(v) = IF facade[c].card THEN 0 ELSE 1
                BY <2>3, <2>7 DEF Weight, InUse
            <3> QED
                BY <2>5, <2>6, <3>1 DEF BusyStep
        <2>10. MadeGrows
            BY <1>1, <2>2, PoolAssumption DEF MadeGrows, MadeRow, Front
        <2>11. Talk'
            BY <2>8, <2>9, <2>10, CallKeeps
        <2>12. Front'
            BY <1>1, <1>2, <2>2, <2>6 DEF Front
        <2>13. StillSent
            <3>1. v.pc # "sent"
                BY <2>3
            <3> QED
                BY <2>2, <2>7, <3>1, StillSentFact
        <2>14. Lending' /\ Stocks'
            BY <1>2, <2>2, <2>6, <2>13, QuietKeeps DEF OpenSession
        <2> QED
            BY <2>11, <2>12, <2>14, InvParts
    <1>4. CASE registry[p] = 0
        <2> PICK c : c = made.clients + 1
            OBVIOUS
        <2>0. PICK v : v = [NoCall EXCEPT !.peer = p, !.client = c, !.pc = "card", !.streaming = streaming]
            OBVIOUS
        <2> PICK row : row = [NoClient EXCEPT !.state = "open", !.busy = 1]
            OBVIOUS
        <2>1. c \in Nat /\ c \in Clients /\ c \in 0..MaxClients /\ c # 0 /\ c \notin 1..made.clients
            BY <1>1, <1>4 DEF Clients
        <2>2. /\ call' = [call EXCEPT ![k] = v] /\ facade' = [facade EXCEPT ![c] = row]
              /\ registry' = [registry EXCEPT ![p] = c] /\ made' = [made EXCEPT !.clients = c]
            BY <1>4, <2>0
        <2>3. v.pc = "card" /\ v.client = c /\ v.peer = p
            BY <2>0 DEF NoCall
        <2>4. v \in CallRow
            <3>1. 0 \in 0..MaxAdapters /\ p \in Peers \cup {"none"}
                BY PoolAssumption
            <3>2. v = [pc |-> "card", peer |-> p, client |-> c, adapter |-> 0, streaming |-> streaming,
                       retried |-> FALSE, told |-> FALSE]
                BY <2>0 DEF NoCall
            <3> QED
                BY <2>1, <3>1, <3>2 DEF CallRow
        <2>5. row \in FacadeRow /\ row.adapter = 0 /\ row.busy = 1
            <3>1. 1 \in Nat /\ 0 \in 0..MaxAdapters
                BY PoolAssumption
            <3> QED
                BY <3>1 DEF NoClient, FacadeRow
        <2>6. /\ facade' \in [Clients -> FacadeRow] /\ facade'[c] = row
              /\ \A e \in Clients : facade'[e].adapter \in {0, facade[e].adapter}
              /\ \A e \in Clients : e # c => facade'[e] = facade[e]
            BY <1>1, <2>1, <2>2, <2>5
        <2>7. call[k].pc = "idle"
            BY DEF OpenSession
        <2>8. facade[c].busy = 0
            <3>1. Using(c) = {}
                BY <2>1 DEF Using, InUse, PoolInv, Placed, CallsPlaced
            <3>2. Cardinality(Using(c)) = 0
                BY <3>1, FS_EmptySet
            <3> QED
                BY <2>1, <3>2 DEF PoolInv, BusyCounted
        <2>9. /\ made' \in MadeRow /\ made \in MadeRow /\ made'.clients = c
              /\ made'.adapters = made.adapters /\ made'.gens = made.gens
            BY <1>1, <2>1, <2>2 DEF MadeRow, Front
        <2>10. CallStep(k, v, c)
            <3>1. c \in 1..made'.clients
                BY <2>1, <2>9
            <3> QED
                BY <2>1, <2>2, <2>3, <2>4, <2>7, <3>1 DEF CallStep, InUse
        <2>11. BusyStep(k, v, c)
            <3>1. Weight(call[k]) = 0 /\ Weight(v) = 1
                BY <2>3, <2>7 DEF Weight, InUse
            <3> QED
                BY <2>5, <2>6, <2>8, <3>1 DEF BusyStep
        <2>12. MadeGrows
            BY <1>1, <2>9 DEF MadeGrows
        <2>13. Talk'
            BY <2>10, <2>11, <2>12, CallKeeps
        <2>14. /\ registry' \in [Peers -> 0..MaxClients] /\ \A q \in Peers : registry'[q] <= made'.clients
            <3>1. \A q \in Peers : registry[q] <= made.clients /\ registry[q] \in 0..MaxClients
                BY <1>1 DEF Front
            <3> QED
                BY <1>1, <2>1, <2>2, <2>9, <3>1
        <2>15. \A e \in Clients : facade'[e].adapter <= made'.adapters
            <3>1. \A e \in Clients : facade[e].adapter <= made.adapters
                BY <1>1 DEF Front
            <3> QED
                BY <1>1, <2>6, <2>9, <3>1
        <2>16. Front'
            BY <1>2, <2>6, <2>9, <2>14, <2>15 DEF Front
        <2>17. StillSent
            BY <2>2, <2>3, <2>7, StillSentFact
        <2>18. Lending' /\ Stocks'
            BY <1>2, <2>6, <2>9, <2>17, QuietKeeps DEF OpenSession
        <2> QED
            BY <2>13, <2>16, <2>18, InvParts
    <1> QED
        BY <1>3, <1>4

\* The card is fetched, the session ends without a call, or its call begins.
LEMMA SessionKeeps ==
    ASSUME PoolInv, NEW k \in Calls, CardFetched(k) \/ SessionEnds(k) \/ Begin(k)
    PROVE  PoolInv'
    <1> PICK c : c = call[k].client
        OBVIOUS
    <1>1. /\ Front /\ call \in [Calls -> CallRow] /\ facade \in [Clients -> FacadeRow] /\ call[k] \in CallRow
        BY InvParts, TypeFacts
    <1>2. c \in 1..made.clients /\ c \in Clients /\ call[k].peer \in Peers /\ call[k].pc \in {"card", "session"}
        BY TypeFacts DEF PoolInv, Placed, CallsPlaced, CardFetched, SessionEnds, Begin
    <1>3. facade[c] \in FacadeRow /\ facade[c].busy \in Nat
        BY <1>1, <1>2 DEF FacadeRow
    <1>4. MadeGrows /\ made' = made /\ pool' = pool /\ registry' = registry /\ Off' = Off
          /\ UNCHANGED <<adapter, transport, currentGen>>
        BY <1>1, PoolAssumption DEF MadeGrows, MadeRow, Front, CardFetched, SessionEnds, Begin, Off
    <1>5. ASSUME NEW v, CallStep(k, v, c), BusyStep(k, v, c), v.pc # "sent",
                 facade' \in [Clients -> FacadeRow],
                 \A e \in Clients : facade'[e].adapter = facade[e].adapter
          PROVE  PoolInv'
        <2>1. Talk'
            BY <1>4, <1>5, CallKeeps
        <2>2. Front'
            BY <1>1, <1>4, <1>5 DEF Front
        <2>3. StillSent
            BY <1>2, <1>5, StillSentFact DEF CallStep
        <2>4. Lending' /\ Stocks'
            BY <1>4, <1>5, <2>3, QuietKeeps
        <2> QED
            BY <2>1, <2>2, <2>4, InvParts
    <1>6. CASE CardFetched(k)
        <2> PICK v : v = [call[k] EXCEPT !.pc = "session"]
            OBVIOUS
        <2> PICK row : row = [facade[c] EXCEPT !.card = TRUE, !.busy = @ - 1]
            OBVIOUS
        <2>1. v \in CallRow /\ v.pc = "session" /\ v.client = c /\ v.peer = call[k].peer
            BY <1>1 DEF CallRow
        <2>2. facade[c].busy - 1 \in Nat
            BY <1>3, <1>6, BusyAtLeast DEF InUse, CardFetched
        <2>3. row \in FacadeRow /\ row.adapter = facade[c].adapter /\ row.busy = facade[c].busy - 1
            BY <1>3, <2>2 DEF FacadeRow
        <2>4. call' = [call EXCEPT ![k] = v] /\ facade' = [facade EXCEPT ![c] = row]
            BY <1>1, <1>2, <1>6 DEF CardFetched
        <2>5. CallStep(k, v, c)
            BY <1>2, <1>4, <2>1, <2>4 DEF CallStep
        <2>6. BusyStep(k, v, c)
            <3>1. Weight(v) = 0 /\ Weight(call[k]) = 1
                BY <1>6, <2>1 DEF Weight, InUse, CardFetched
            <3> QED
                BY <1>1, <1>2, <1>3, <2>3, <2>4, <3>1 DEF BusyStep
        <2>7. facade' \in [Clients -> FacadeRow] /\ \A e \in Clients : facade'[e].adapter = facade[e].adapter
            BY <1>1, <1>2, <2>3, <2>4
        <2> QED
            BY <1>5, <2>1, <2>5, <2>6, <2>7
    <1>7. CASE SessionEnds(k)
        <2>1. NoCall \in CallRow /\ NoCall.pc = "idle"
            BY PoolAssumption DEF NoCall, CallRow
        <2>2. call' = [call EXCEPT ![k] = NoCall] /\ facade' = facade
            BY <1>7 DEF SessionEnds
        <2>3. CallStep(k, NoCall, c)
            BY <1>2, <2>1, <2>2 DEF CallStep, InUse
        <2>4. BusyStep(k, NoCall, c)
            <3>1. Weight(NoCall) = 0 /\ Weight(call[k]) = 0
                BY <1>7, <2>1 DEF Weight, InUse, SessionEnds
            <3> QED
                BY <1>3, <2>2, <3>1 DEF BusyStep
        <2> QED
            BY <1>1, <1>5, <2>1, <2>2, <2>3, <2>4
    <1>8. CASE Begin(k)
        <2> PICK v : v = [call[k] EXCEPT !.pc = "enter"]
            OBVIOUS
        <2> PICK row : row = [facade[c] EXCEPT !.busy = @ + 1]
            OBVIOUS
        <2>1. v \in CallRow /\ v.pc = "enter" /\ v.client = c /\ v.peer = call[k].peer
            BY <1>1 DEF CallRow
        <2>2. facade[c].busy + 1 \in Nat
            BY <1>3
        <2>3. row \in FacadeRow /\ row.adapter = facade[c].adapter /\ row.busy = facade[c].busy + 1
            BY <1>3, <2>2 DEF FacadeRow
        <2>4. call' = [call EXCEPT ![k] = v] /\ facade' = [facade EXCEPT ![c] = row]
            BY <1>1, <1>2, <1>8 DEF Begin
        <2>5. CallStep(k, v, c)
            BY <1>2, <1>4, <2>1, <2>4 DEF CallStep
        <2>6. BusyStep(k, v, c)
            <3>1. Weight(v) = 1 /\ Weight(call[k]) = 0
                BY <1>8, <2>1 DEF Weight, InUse, Begin
            <3> QED
                BY <1>1, <1>2, <1>3, <2>3, <2>4, <3>1 DEF BusyStep
        <2>7. facade' \in [Clients -> FacadeRow] /\ \A e \in Clients : facade'[e].adapter = facade[e].adapter
            BY <1>1, <1>2, <2>3, <2>4
        <2> QED
            BY <1>5, <2>1, <2>5, <2>6, <2>7
    <1> QED
        BY <1>6, <1>7, <1>8

\* A call that fails before it has sent anything, or gives up.
LEMMA FailsKeeps ==
    ASSUME PoolInv, NEW k \in Calls, CardFails(k) \/ GivesUp(k)
    PROVE  PoolInv'
    <1>1. /\ call[k].pc \in {"card", "enter", "swap", "discard"} /\ Ends(k)
          /\ UNCHANGED <<adapter, transport, currentGen, made>>
        BY DEF CardFails, GivesUp, Ends, Freed
    <1>2. InUse(call[k])
        BY <1>1 DEF InUse
    <1>3. Front' /\ Talk' /\ EntriesStay
        BY <1>1, <1>2, EndKeeps
    <1>4. StillSent
        <2>1. call' = [call EXCEPT ![k] = NoCall] /\ NoCall.pc # "sent"
            BY <1>1 DEF Ends, NoCall
        <2> QED
            BY <1>1, <2>1, StillSentFact
    <1>5. Lending' /\ Stocks'
        BY <1>1, <1>3, <1>4, QuietKeeps DEF EntriesStay
    <1> QED
        BY <1>3, <1>5, InvParts

\* An operation is over, and its call with it.
LEMMA DoneKeeps ==
    ASSUME PoolInv, NEW k \in Calls, CallDone(k) \/ BreaksForGood(k)
    PROVE  PoolInv'
    <1>1. /\ call[k].pc = "sent" /\ Ends(k) /\ OperationOver(k) /\ currentGen' = currentGen
        BY DEF CallDone, BreaksForGood, Ends, Freed, OperationOver
    <1>2. InUse(call[k])
        BY <1>1 DEF InUse
    <1>3. Front' /\ Talk' /\ EntriesStay
        BY <1>1, <1>2, EndKeeps
    <1>4. call' = [call EXCEPT ![k] = NoCall] /\ NoCall.pc # "sent"
        BY <1>1 DEF Ends, NoCall
    <1>5. Lending' /\ Stocks'
        BY <1>1, <1>3, <1>4, OverKeeps DEF OperationOver
    <1> QED
        BY <1>3, <1>5, InvParts

\* An operation is over, and its call goes on.
LEMMA GoesOnKeeps ==
    ASSUME PoolInv, NEW k \in Calls, ReportsClosed(k) \/ Downgrade(k)
    PROVE  PoolInv'
    <1> PICK v : v = IF ReportsClosed(k) THEN [call[k] EXCEPT !.pc = "discard"]
                     ELSE [call[k] EXCEPT !.pc = "enter", !.streaming = FALSE, !.retried = FALSE, !.told = FALSE]
        OBVIOUS
    <1>1. /\ call \in [Calls -> CallRow] /\ call[k] \in CallRow /\ Front
        BY InvParts, TypeFacts
    <1>2. /\ call[k].pc = "sent" /\ call' = [call EXCEPT ![k] = v]
          /\ UNCHANGED <<registry, facade, pool, made>>
        BY <1>1 DEF ReportsClosed, Downgrade, OperationOver
    <1>3. call[k].adapter \in 1..made.adapters
        BY <1>2 DEF PoolInv, Placed, CallsPlaced
    <1>4. /\ v \in CallRow /\ v.pc \in {"discard", "enter"} /\ v.client = call[k].client
          /\ v.peer = call[k].peer /\ v.adapter = call[k].adapter
        BY <1>1 DEF CallRow
    <1>5. InUse(call[k]) /\ InUse(v)
        BY <1>2, <1>4 DEF InUse
    <1>6. Moves(k, v)
        <2>1. made.adapters \in Nat /\ made \in MadeRow
            BY <1>1, TypeFacts DEF Front
        <2> QED
            BY <1>1, <1>2, <1>3, <1>4, <1>5, <2>1 DEF Moves, Front
    <1>7. Front' /\ Talk'
        BY <1>5, <1>6, MoveKeeps
    <1>8. EntriesStay
        BY <1>2 DEF EntriesStay, Off
    <1>9. Lending' /\ Stocks'
        <2>1. CASE ReportsClosed(k)
            BY <1>2, <1>4, <1>8, <2>1, OverKeeps DEF ReportsClosed
        <2>2. CASE Downgrade(k)
            BY <1>2, <1>4, <1>8, <2>2, OverKeeps DEF Downgrade, OperationOver
        <2> QED
            BY <2>1, <2>2
    <1> QED
        BY <1>7, <1>9, InvParts

\* A payload arrives.
LEMMA PayloadKeeps ==
    ASSUME PoolInv, NEW k \in Calls, Payload(k)
    PROVE  PoolInv'
    <1> PICK v : v = [call[k] EXCEPT !.told = TRUE]
        OBVIOUS
    <1>1. /\ call \in [Calls -> CallRow] /\ call[k] \in CallRow /\ Front
        BY InvParts, TypeFacts
    <1>2. /\ call[k].pc = "sent" /\ call' = [call EXCEPT ![k] = v]
          /\ UNCHANGED <<registry, facade, adapter, transport, currentGen, pool, made>>
        BY <1>1 DEF Payload
    <1>3. call[k].adapter \in 1..made.adapters
        BY <1>2 DEF PoolInv, Placed, CallsPlaced
    <1>4. /\ v \in CallRow /\ v.pc = "sent" /\ v.client = call[k].client
          /\ v.peer = call[k].peer /\ v.adapter = call[k].adapter
        BY <1>1, <1>2 DEF CallRow
    <1>5. InUse(call[k]) /\ InUse(v)
        BY <1>2, <1>4 DEF InUse
    <1>6. Moves(k, v)
        <2>1. made.adapters \in Nat /\ made \in MadeRow
            BY <1>1, TypeFacts DEF Front
        <2> QED
            BY <1>1, <1>2, <1>3, <1>4, <1>5, <2>1 DEF Moves, Front
    <1>7. Front' /\ Talk'
        BY <1>5, <1>6, MoveKeeps
    <1>8. StillSent
        BY <1>1, <1>2, <1>4 DEF StillSent
    <1>9. Off' = Off
        BY <1>2 DEF Off
    <1>10. Lending' /\ Stocks'
        BY <1>2, <1>8, <1>9, QuietKeeps
    <1> QED
        BY <1>7, <1>10, InvParts

\* The entry of client c is emptied.
Emptied(c) == [facade EXCEPT ![c].adapter = 0]

LEMMA EmptiedFacts ==
    ASSUME PoolInv, NEW c \in Clients
    PROVE  /\ Emptied(c) \in [Clients -> FacadeRow] /\ Emptied(c)[c].adapter = 0
           /\ \A e \in Clients : e # c => Emptied(c)[e].adapter = facade[e].adapter
           /\ \A e \in Clients : Emptied(c)[e].busy = facade[e].busy
           /\ \A e \in Clients : Emptied(c)[e].adapter <= made.adapters
    <1>1. /\ facade \in [Clients -> FacadeRow] /\ facade[c] \in FacadeRow /\ 0 \in 0..MaxAdapters
          /\ made.adapters \in Nat /\ \A e \in Clients : facade[e].adapter <= made.adapters
        BY TypeFacts, InvParts, PoolAssumption DEF Front
    <1> PICK row : row = [facade[c] EXCEPT !.adapter = 0]
        OBVIOUS
    <1>2. row \in FacadeRow /\ row.adapter = 0 /\ row.busy = facade[c].busy
        BY <1>1 DEF FacadeRow
    <1>3. Emptied(c) = [facade EXCEPT ![c] = row]
        BY <1>1 DEF Emptied
    <1> QED
        BY <1>1, <1>2, <1>3

\* A call looks at its client's entry again, whose adapter may be taken out and retired.
Looks(k, v, a) ==
    /\ call' = [call EXCEPT ![k] = v] /\ v \in CallRow /\ v.pc \in {"enter", "swap"}
    /\ v.client = call[k].client /\ v.peer = call[k].peer
    /\ \/ a = 0 /\ facade' = facade
       \/ a = facade[call[k].client].adapter /\ facade' = Emptied(call[k].client)
    /\ adapter' = Retired(adapter, a)
    /\ UNCHANGED <<registry, transport, currentGen, pool, made>>

LEMMA LooksKeeps ==
    ASSUME PoolInv, NEW k \in Calls, InUse(call[k]), call[k].pc # "sent", NEW v, NEW a, Looks(k, v, a)
    PROVE  PoolInv'
    <1> PICK c : c = call[k].client
        OBVIOUS
    <1>1. c \in Clients /\ Front /\ made.adapters \in Nat /\ made \in MadeRow
          /\ facade \in [Clients -> FacadeRow] /\ \A e \in Clients : facade[e].adapter <= made.adapters
        BY BusyAtLeast, InvParts, TypeFacts DEF Front
    <1>2. /\ facade' \in [Clients -> FacadeRow]
          /\ \A e \in Clients : facade'[e].busy = facade[e].busy /\ facade'[e].adapter <= made.adapters
        BY <1>1, EmptiedFacts DEF Looks
    <1>3. EntriesShrink(a) /\ a \in 0..MaxAdapters
        <2>1. CASE a = 0 /\ facade' = facade
            BY <2>1, PoolAssumption DEF EntriesShrink
        <2>2. CASE a = facade[c].adapter /\ facade' = Emptied(c)
            BY <1>1, <2>2, EmptiedFacts, TakenOut
        <2> QED
            BY <2>1, <2>2 DEF Looks
    <1>4. InUse(v) /\ v.pc # "sent"
        BY DEF Looks, InUse
    <1>5. Moves(k, v)
        BY <1>1, <1>2, <1>4 DEF Moves, Looks
    <1>6. Front' /\ Talk'
        BY <1>5, MoveKeeps
    <1>7. StillSent
        BY <1>4, StillSentFact DEF Looks
    <1>8. Lending' /\ Stocks'
        BY <1>3, <1>7, RetireKeeps DEF Looks, Off
    <1> QED
        BY <1>6, <1>8, InvParts

LEMMA DiscardKeeps ==
    ASSUME PoolInv, NEW k \in Calls, SwapStale(k) \/ Discard(k) \/ RefusedAsStale(k)
    PROVE  PoolInv'
    <1> PICK c : c = call[k].client
        OBVIOUS
    <1>1. /\ call \in [Calls -> CallRow] /\ call[k] \in CallRow
        BY TypeFacts
    <1>2. call[k].pc \in {"enter", "swap", "discard"} /\ InUse(call[k])
        BY DEF SwapStale, Discard, RefusedAsStale, InUse
    <1>3. adapter = Retired(adapter, 0)
        BY DEF Retired
    <1>4. CASE SwapStale(k)
        <2> PICK v : v = [call[k] EXCEPT !.pc = "swap"]
            OBVIOUS
        <2>1. v \in CallRow /\ v.pc = "swap" /\ v.client = c /\ v.peer = call[k].peer
            BY <1>1 DEF CallRow
        <2>2. Looks(k, v, facade[c].adapter)
            BY <1>1, <1>4, <2>1 DEF Looks, SwapStale, Emptied
        <2> QED
            BY <1>2, <2>2, LooksKeeps
    <1>5. CASE Discard(k) \/ (RefusedAsStale(k) /\ ~call[k].retried)
        <2> PICK v : v = [call[k] EXCEPT !.pc = "enter", !.retried = TRUE]
            OBVIOUS
        <2> PICK a : a = IF Discard(k) THEN call[k].adapter ELSE facade[c].adapter
            OBVIOUS
        <2>1. v \in CallRow /\ v.pc = "enter" /\ v.client = c /\ v.peer = call[k].peer
            BY <1>1 DEF CallRow
        <2>2. /\ call' = [call EXCEPT ![k] = v] /\ Discarded(c, a)
              /\ UNCHANGED <<registry, transport, currentGen, pool, made>>
            BY <1>1, <1>5 DEF Discard, RefusedAsStale
        <2>3. CASE facade[c].adapter = a
            <3>1. Looks(k, v, a)
                BY <2>1, <2>2, <2>3 DEF Looks, Discarded, Emptied
            <3> QED
                BY <1>2, <3>1, LooksKeeps
        <2>4. CASE facade[c].adapter # a
            <3>1. Looks(k, v, 0)
                BY <1>3, <2>1, <2>2, <2>4 DEF Looks, Discarded
            <3> QED
                BY <1>2, <3>1, LooksKeeps
        <2> QED
            BY <2>3, <2>4
    <1>6. CASE RefusedAsStale(k) /\ call[k].retried
        <2>1. /\ Ends(k) /\ UNCHANGED <<adapter, transport, currentGen>> /\ call[k].pc # "sent"
            BY <1>6 DEF Ends, Freed, RefusedAsStale
        <2>2. Front' /\ Talk' /\ EntriesStay
            BY <1>2, <2>1, EndKeeps
        <2>3. StillSent
            <3>1. call' = [call EXCEPT ![k] = NoCall] /\ NoCall.pc # "sent"
                BY <2>1 DEF Ends, NoCall
            <3> QED
                BY <2>1, <3>1, StillSentFact
        <2>4. Lending' /\ Stocks'
            BY <2>1, <2>2, <2>3, QuietKeeps DEF EntriesStay
        <2> QED
            BY <2>2, <2>4, InvParts
    <1> QED
        BY <1>4, <1>5, <1>6

\* A card is fetched again, a client is evicted or has closed, shutdown goes on.
LEMMA HousekeepingKeeps ==
    ASSUME PoolInv,
           \/ \E k \in Calls : FetchCardAgain(k)
           \/ \E p \in Peers : EvictIdle(p)
           \/ \E c \in Clients : ClientClosed(c)
           \/ Shutdown \/ DrainReaper
    PROVE  PoolInv'
    <1>1. /\ Front /\ facade \in [Clients -> FacadeRow] /\ pool \in PoolRow /\ MaxClients \in Nat
          /\ registry \in [Peers -> 0..MaxClients] /\ \A p \in Peers : registry[p] <= made.clients
          /\ made.clients \in Nat
        BY InvParts, TypeFacts DEF Front
    <1>2. UNCHANGED <<adapter, transport, currentGen, call, made>>
        BY DEF FetchCardAgain, EvictIdle, Dropped, ClientClosed, Shutdown, DrainReaper
    <1>3. /\ facade' \in [Clients -> FacadeRow]
          /\ \A e \in Clients : facade'[e].busy = facade[e].busy /\ facade'[e].adapter = facade[e].adapter
          /\ registry' \in [Peers -> 0..MaxClients]
          /\ \A p \in Peers : registry'[p] <= made.clients
          /\ pool' \in PoolRow /\ Off' = Off
        <2>1. ASSUME NEW k \in Calls, FetchCardAgain(k)
              PROVE  <1>3!:
            <3> PICK c : c = call[k].client
                OBVIOUS
            <3>1. c \in Clients
                BY <2>1, BusyAtLeast DEF FetchCardAgain, InUse
            <3>2. /\ [facade[c] EXCEPT !.card = TRUE] \in FacadeRow
                  /\ [facade[c] EXCEPT !.card = TRUE].busy = facade[c].busy
                  /\ [facade[c] EXCEPT !.card = TRUE].adapter = facade[c].adapter
                <4>1. facade[c] \in FacadeRow
                    BY <1>1, <3>1
                <4> QED
                    BY <4>1 DEF FacadeRow
            <3>3. facade' = [facade EXCEPT ![c] = [facade[c] EXCEPT !.card = TRUE]]
                BY <1>1, <2>1, <3>1 DEF FetchCardAgain
            <3> QED
                BY <1>1, <2>1, <3>1, <3>2, <3>3 DEF FetchCardAgain, Off
        <2>2. ASSUME NEW p \in Peers, EvictIdle(p)
              PROVE  <1>3!:
            <3>1. Dropped(p, facade) /\ UNCHANGED pool
                BY <2>2 DEF EvictIdle
            <3> QED
                BY <1>1, <3>1, DroppedFacts DEF Off
        <2>3. ASSUME NEW c \in Clients, ClientClosed(c)
              PROVE  <1>3!:
            <3>1. facade[c] \in FacadeRow
                BY <1>1
            <3>2. /\ [facade[c] EXCEPT !.state = "closed"] \in FacadeRow
                  /\ [facade[c] EXCEPT !.state = "closed"].busy = facade[c].busy
                  /\ [facade[c] EXCEPT !.state = "closed"].adapter = facade[c].adapter
                BY <3>1 DEF FacadeRow
            <3>3. facade' = [facade EXCEPT ![c] = [facade[c] EXCEPT !.state = "closed"]]
                BY <1>1, <2>3 DEF ClientClosed
            <3> QED
                BY <1>1, <2>3, <3>2, <3>3 DEF ClientClosed, Off
        <2>4. ASSUME Shutdown
              PROVE  <1>3!:
            <3>1. ASSUME NEW e \in Clients
                  PROVE  /\ facade'[e] \in FacadeRow /\ facade'[e].busy = facade[e].busy
                         /\ facade'[e].adapter = facade[e].adapter
                <4>1. facade[e] \in FacadeRow
                    BY <1>1
                <4>2. /\ [facade[e] EXCEPT !.state = "closing"] \in FacadeRow
                      /\ [facade[e] EXCEPT !.state = "closing"].busy = facade[e].busy
                      /\ [facade[e] EXCEPT !.state = "closing"].adapter = facade[e].adapter
                    BY <4>1 DEF FacadeRow
                <4>3. facade'[e] \in {facade[e], [facade[e] EXCEPT !.state = "closing"]}
                    BY <2>4 DEF Shutdown
                <4> QED
                    BY <4>1, <4>2, <4>3
            <3>2. facade' \in [Clients -> FacadeRow]
                BY <2>4, <3>1 DEF Shutdown
            <3>3. {registry[p] : p \in Peers} \ {0} \subseteq Clients
                BY <1>1 DEF Clients
            <3>4. /\ pool' \in PoolRow /\ pool'.phase = "registry" /\ pool.phase = "up"
                BY <1>1, <2>4, <3>3 DEF Shutdown, PoolRow
            <3>5. registry' \in [Peers -> 0..MaxClients] /\ \A p \in Peers : registry'[p] <= made.clients
                BY <1>1, <2>4 DEF Shutdown
            <3> QED
                BY <3>1, <3>2, <3>4, <3>5 DEF Off
        <2>5. ASSUME DrainReaper
              PROVE  <1>3!:
            <3>1. Closing \subseteq Clients
                BY DEF Closing
            <3>2. pool' \in PoolRow /\ pool'.phase = "drain" /\ pool.phase = "registry"
                BY <1>1, <2>5, <3>1 DEF DrainReaper, PoolRow
            <3> QED
                BY <1>1, <2>5, <3>2 DEF DrainReaper, Off
        <2> QED
            BY <2>1, <2>2, <2>3, <2>4, <2>5
    <1>4. Front' /\ Talk' /\ StillSent
        BY <1>2, <1>3, StayKeeps
    <1>5. Lending' /\ Stocks'
        BY <1>2, <1>3, <1>4, QuietKeeps
    <1> QED
        BY <1>4, <1>5, InvParts

LEMMA CloseClientKeeps ==
    ASSUME PoolInv, NEW c \in Clients, CloseClient(c)
    PROVE  PoolInv'
    <1> PICK a : a = facade[c].adapter
        OBVIOUS
    <1>1. /\ Front /\ facade \in [Clients -> FacadeRow] /\ facade[c] \in FacadeRow /\ pool \in PoolRow
          /\ registry \in [Peers -> 0..MaxClients] /\ \A p \in Peers : registry[p] <= made.clients
        BY InvParts, TypeFacts DEF Front
    <1> PICK row : row = [facade[c] EXCEPT !.state = "draining", !.draining = a, !.adapter = 0, !.card = FALSE]
        OBVIOUS
    <1>2. row \in FacadeRow /\ row.adapter = 0 /\ row.busy = facade[c].busy
        <2>1. a \in 0..MaxAdapters /\ 0 \in 0..MaxAdapters
            BY <1>1, PoolAssumption DEF FacadeRow
        <2> QED
            BY <1>1, <2>1 DEF FacadeRow
    <1>3. /\ facade' = [facade EXCEPT ![c] = row] /\ adapter' = Retired(adapter, a)
          /\ UNCHANGED <<registry, transport, currentGen, call, pool, made>>
        BY <1>1 DEF CloseClient
    <1>4. /\ facade' \in [Clients -> FacadeRow] /\ facade'[c].adapter = 0
          /\ \A e \in Clients : facade'[e].busy = facade[e].busy
          /\ \A e \in Clients : e # c => facade'[e].adapter = facade[e].adapter
          /\ \A e \in Clients : facade'[e].adapter \in {0, facade[e].adapter}
        BY <1>1, <1>2, <1>3
    <1>5. EntriesShrink(a) /\ a \in 0..MaxAdapters
        BY <1>4, TakenOut
    <1>6. Front' /\ Talk' /\ StillSent
        BY <1>1, <1>3, <1>4, StayKeeps
    <1>7. Lending' /\ Stocks'
        BY <1>3, <1>5, <1>6, RetireKeeps DEF Off
    <1> QED
        BY <1>6, <1>7, InvParts

LEMMA CloseTransportsKeeps ==
    ASSUME PoolInv, CloseTransports
    PROVE  PoolInv'
    <1>1. Front /\ Talk /\ pool \in PoolRow
        BY InvParts DEF Front
    <1>2. UNCHANGED <<registry, facade, adapter, call, made>>
        BY DEF CloseTransports
    <1>3. pool' \in PoolRow
        BY <1>1 DEF CloseTransports, PoolRow
    <1>4. Front' /\ Talk'
        BY <1>1, <1>2, <1>3, CallsStay DEF Front
    <1>5. Lending' /\ Stocks'
        BY CloseKeeps
    <1> QED
        BY <1>4, <1>5, InvParts

LEMMA SendCachedKeeps ==
    ASSUME PoolInv, NEW k \in Calls, SendCached(k)
    PROVE  PoolInv'
    <1> PICK a : a = facade[call[k].client].adapter
        OBVIOUS
    <1>0. PICK v : v = [call[k] EXCEPT !.pc = "sent", !.adapter = a]
        OBVIOUS
    <1>1. /\ Front /\ Stocks /\ Lending /\ call \in [Calls -> CallRow] /\ call[k] \in CallRow
          /\ 1..made.adapters \subseteq Adapters /\ 1..made.gens \subseteq Generations
          /\ made.adapters \in Nat /\ made.gens \in Nat /\ facade \in [Clients -> FacadeRow]
        BY InvParts, TypeFacts
    <1>2. /\ call[k].pc \in {"enter", "swap"} /\ a # 0 /\ ~StaleAdapter(a)
          /\ Sent(k, adapter, transport, a)
          /\ UNCHANGED <<registry, facade, currentGen, pool, made>>
        BY DEF SendCached
    <1>3. InUse(call[k]) /\ call[k].client \in Clients
        BY <1>2, BusyAtLeast DEF InUse
    <1>4. a \in 1..made.adapters /\ a \in Adapters /\ ~adapter[a].retired
        <2>1. facade[call[k].client].adapter \in 0..MaxAdapters /\ facade[call[k].client].adapter <= made.adapters
            BY <1>1, <1>3 DEF Front, FacadeRow
        <2>2. a \in 1..made.adapters
            BY <1>1, <1>2, <2>1
        <2> QED
            BY <1>1, <1>2, <1>3, <2>2 DEF Lending, Held
    <1>5. /\ adapter[a].gen \in 1..made.gens /\ adapter[a].gen \in Generations
          /\ transport[adapter[a].gen].tracked /\ ~transport[adapter[a].gen].invalid
        BY <1>1, <1>2, <1>4 DEF Lending, AdaptersPlaced, StaleAdapter
    <1>6. Prepared(a, adapter, transport)
        BY <1>1, <1>2, <1>4, <1>5 DEF Prepared, Stocks, Lending, AdaptersPlaced, AdaptersCounted,
           TransportsCounted
    <1>7. PreparedAfter(adapter, transport)
        <2>1. \A c \in Clients : facade[c].adapter # 0 => facade[c].adapter \in Adapters
            BY <1>1 DEF FacadeRow, Adapters
        <2>2. Off' = Off
            BY <1>2 DEF Off
        <2>3. currentGen # 0 => currentGen \in Generations
            BY <1>1 DEF Stocks, Generations
        <2> QED
            BY <1>1, <1>2, <2>1, <2>2, <2>3 DEF PreparedAfter, Stocks, Lending, Held, CurrentUsable
    <1>8. Lending' /\ Stocks'
        BY <1>2, <1>6, <1>7, SendKeeps
    <1>9. Moves(k, v)
        <2>1. a \in 0..MaxAdapters
            BY <1>4, PoolAssumption DEF Adapters
        <2>2. /\ v \in CallRow /\ v.pc = "sent" /\ v.client = call[k].client
              /\ v.peer = call[k].peer /\ v.adapter = a
            BY <1>0, <1>1, <2>1 DEF CallRow
        <2>3. call' = [call EXCEPT ![k] = v]
            BY <1>0, <1>1, <1>2 DEF Sent
        <2>4. made \in MadeRow /\ \A e \in Clients : facade[e].adapter <= made.adapters
            BY <1>1 DEF Front
        <2> QED
            BY <1>1, <1>2, <1>4, <2>2, <2>3, <2>4 DEF Moves, InUse
    <1>10. Front' /\ Talk'
        BY <1>3, <1>9, MoveKeeps
    <1> QED
        BY <1>8, <1>10, InvParts

\* The rows of an adapter and of a transport that have just been made.
LEMMA FreshRows ==
    ASSUME NEW off \in BOOLEAN, NEW g \in 0..MaxGenerations
    PROVE  /\ [NoAdapter EXCEPT !.gen = g] \in AdapterRow /\ AdapterOK([NoAdapter EXCEPT !.gen = g], {})
           /\ ~[NoAdapter EXCEPT !.gen = g].retired /\ [NoAdapter EXCEPT !.gen = g].gen = g
           /\ [NoTransport EXCEPT !.tracked = TRUE, !.open = TRUE] \in TransportRow
           /\ TransportOK([NoTransport EXCEPT !.tracked = TRUE, !.open = TRUE], {}, off)
           /\ [NoTransport EXCEPT !.tracked = TRUE, !.open = TRUE].tracked
           /\ ~[NoTransport EXCEPT !.tracked = TRUE, !.open = TRUE].invalid
    <1>1. Cardinality({}) = 0 /\ 0 \in Nat
        BY FS_EmptySet
    <1> QED
        BY <1>1 DEF NoAdapter, NoTransport, AdapterRow, TransportRow, AdapterOK, TransportOK

LEMMA SendNewKeeps ==
    ASSUME PoolInv, NEW k \in Calls, SendNew(k)
    PROVE  PoolInv'
    <1> PICK c : c = call[k].client
        OBVIOUS
    <1> PICK a : a = made.adapters + 1
        OBVIOUS
    <1> PICK g : g = IF currentGen # 0 THEN currentGen ELSE made.gens + 1
        OBVIOUS
    <1>a. PICK d : d = [adapter EXCEPT ![a] = [NoAdapter EXCEPT !.gen = g]]
        OBVIOUS
    <1>b. PICK t : t = IF currentGen # 0 THEN transport
                       ELSE [transport EXCEPT ![g] = [NoTransport EXCEPT !.tracked = TRUE, !.open = TRUE]]
        OBVIOUS
    <1>0. PICK v : v = [call[k] EXCEPT !.pc = "sent", !.adapter = a]
        OBVIOUS
    <1>1. /\ Front /\ Stocks /\ Lending /\ call \in [Calls -> CallRow] /\ call[k] \in CallRow
          /\ 1..made.adapters \subseteq Adapters /\ 1..made.gens \subseteq Generations
          /\ made.adapters \in Nat /\ made.gens \in Nat /\ facade \in [Clients -> FacadeRow]
          /\ made \in MadeRow /\ MaxAdapters \in Nat /\ MaxGenerations \in Nat
          /\ adapter \in [Adapters -> AdapterRow] /\ transport \in [Generations -> TransportRow]
        BY InvParts, TypeFacts DEF Front, Stocks
    <1>2. /\ call[k].pc \in {"enter", "swap"} /\ facade[c].adapter = 0
          /\ made.adapters < MaxAdapters /\ (currentGen # 0 \/ made.gens < MaxGenerations)
          /\ currentGen' = g
          /\ made' = [made EXCEPT !.adapters = a, !.gens = IF currentGen # 0 THEN @ ELSE g]
          /\ facade' = [facade EXCEPT ![c].adapter = a]
          /\ Sent(k, d, t, a)
          /\ UNCHANGED <<registry, pool>>
        BY <1>a, <1>b DEF SendNew
    <1>3. InUse(call[k]) /\ c \in Clients
        BY <1>2, BusyAtLeast DEF InUse
    <1>4. a \in Adapters /\ a \notin 1..made.adapters /\ a \in 1..MaxAdapters /\ a \in Nat
        BY <1>1, <1>2 DEF Adapters
    <1>5. /\ made' \in MadeRow /\ made'.clients = made.clients /\ made'.adapters = a
          /\ made'.gens = IF currentGen # 0 THEN made.gens ELSE g
        <2>1. (IF currentGen # 0 THEN made.gens ELSE g) \in 0..MaxGenerations /\ a \in 0..MaxAdapters
            BY <1>1, <1>2, <1>4 DEF MadeRow
        <2> QED
            BY <1>1, <1>2, <2>1 DEF MadeRow
    <1>6. /\ g \in Generations /\ g \in 0..MaxGenerations /\ g # 0 /\ g \in 1..made'.gens
          /\ made.gens <= made'.gens
          /\ currentGen # 0 => g = currentGen /\ transport[g].tracked /\ ~transport[g].invalid
        <2>1. CASE currentGen # 0
            <3>1. /\ currentGen <= made.gens /\ currentGen \in 0..MaxGenerations
                  /\ transport[currentGen].tracked /\ ~transport[currentGen].invalid
                BY <1>1, <2>1 DEF Lending, CurrentUsable, Stocks
            <3> QED
                BY <1>1, <1>5, <2>1, <3>1 DEF Generations
        <2>2. CASE currentGen = 0
            BY <1>1, <1>2, <1>5, <2>2 DEF Generations
        <2> QED
            BY <2>1, <2>2
    <1>7. SentOn(a) = {}
        BY <1>4 DEF SentOn, PoolInv, Placed, CallsPlaced
    <1>8. currentGen = 0 => SentOver(g) = {}
        <2>1. ASSUME currentGen = 0 PROVE g \notin 1..made.gens
            BY <1>1, <2>1
        <2> QED
            BY <1>1, <2>1 DEF SentOver, PoolInv, Placed, CallsPlaced, Lending, AdaptersPlaced
    <1> PICK off : off = Off
        OBVIOUS
    <1>9. off \in BOOLEAN
        BY DEF Off
    <1>10. /\ d \in [Adapters -> AdapterRow] /\ ~d[a].retired /\ d[a].gen = g /\ AdapterOK(d[a], {})
           /\ \A b \in Adapters : b # a => d[b] = adapter[b]
        BY <1>a, <1>1, <1>4, <1>6, <1>9, FreshRows
    <1>11. /\ t \in [Generations -> TransportRow] /\ t[g].tracked /\ ~t[g].invalid
           /\ \A h \in Generations : TransportOK(t[h], SentOver(h), Off)
        <2>1. CASE currentGen # 0
            BY <1>b, <1>1, <1>6, <2>1 DEF Lending, TransportsCounted
        <2>2. CASE currentGen = 0
            <3> PICK row : row = [NoTransport EXCEPT !.tracked = TRUE, !.open = TRUE]
                OBVIOUS
            <3>1. row \in TransportRow /\ TransportOK(row, {}, off) /\ row.tracked /\ ~row.invalid
                BY <1>6, <1>9, FreshRows
            <3>2. t = [transport EXCEPT ![g] = row]
                BY <1>b, <2>2
            <3>3. t \in [Generations -> TransportRow] /\ t[g] = row
                  /\ \A h \in Generations : h # g => t[h] = transport[h]
                BY <1>1, <1>6, <3>1, <3>2
            <3>4. \A h \in Generations : TransportOK(transport[h], SentOver(h), Off)
                BY <1>1 DEF Lending, TransportsCounted
            <3>5. TransportOK(t[g], SentOver(g), Off)
                BY <1>8, <2>2, <3>1, <3>3
            <3> QED
                BY <3>1, <3>3, <3>4, <3>5
        <2> QED
            BY <2>1, <2>2
    <1>12. Prepared(a, d, t)
        <2>1. \A b \in 1..made.adapters : d[b] = adapter[b]
            BY <1>1, <1>4, <1>10
        <2>2. \A b \in 1..made'.adapters : b \in 1..made.adapters \/ b = a
            BY <1>1, <1>5
        <2>3. \A b \in 1..made.adapters : d[b].gen \in 1..made'.gens
            <3>1. 1..made.gens \subseteq 1..made'.gens
                BY <1>1, <1>5, <1>6
            <3> QED
                BY <1>1, <2>1, <3>1 DEF Lending, AdaptersPlaced
        <2>4. \A b \in 1..made'.adapters : d[b].gen \in 1..made'.gens
            BY <1>6, <1>10, <2>2, <2>3
        <2>5. \A b \in Adapters : AdapterOK(d[b], SentOn(b))
            BY <1>1, <1>7, <1>10 DEF Lending, AdaptersCounted
        <2>6. a \in 1..made'.adapters
            BY <1>4, <1>5
        <2> QED
            BY <1>4, <1>6, <1>10, <1>11, <2>1, <2>4, <2>5, <2>6 DEF Prepared
    <1>13. /\ facade' \in [Clients -> FacadeRow] /\ facade'[c].adapter = a
           /\ \A e \in Clients : facade'[e].busy = facade[e].busy
           /\ \A e \in Clients : e # c => facade'[e].adapter = facade[e].adapter
        <2> PICK row : row = [facade[c] EXCEPT !.adapter = a]
            OBVIOUS
        <2>1. row \in FacadeRow /\ row.adapter = a /\ row.busy = facade[c].busy
            <3>1. a \in 0..MaxAdapters /\ facade[c] \in FacadeRow
                BY <1>1, <1>3, <1>4
            <3> QED
                BY <3>1 DEF FacadeRow
        <2>2. facade' = [facade EXCEPT ![c] = row]
            BY <1>1, <1>2, <1>3
        <2> QED
            BY <1>1, <1>3, <2>1, <2>2
    <1>14. \A e \in Clients : facade[e].adapter # 0 => facade[e].adapter \in 1..made.adapters
                                                       /\ facade[e].adapter \in Adapters
        <2>1. \A e \in Clients : facade[e].adapter \in 0..MaxAdapters /\ facade[e].adapter <= made.adapters
            BY <1>1 DEF Front, FacadeRow
        <2> QED
            BY <1>1, <2>1 DEF Adapters
    <1>15. PreparedAfter(d, t)
        <2>1. \A e \in Clients : facade'[e].adapter # 0 =>
                  facade'[e].adapter \in Adapters /\ ~d[facade'[e].adapter].retired
            <3>1. ASSUME NEW e \in Clients, e # c, facade[e].adapter # 0
                  PROVE  facade[e].adapter \in Adapters /\ ~d[facade[e].adapter].retired
                <4>1. /\ facade[e].adapter # a /\ facade[e].adapter \in Adapters
                      /\ ~adapter[facade[e].adapter].retired
                    BY <1>1, <1>4, <1>14, <3>1 DEF Lending, Held
                <4> QED
                    BY <1>10, <4>1
            <3> QED
                BY <1>4, <1>10, <1>13, <3>1
        <2>2. ASSUME NEW e \in Clients, NEW f \in Clients, facade'[e].adapter = facade'[f].adapter,
                     facade'[e].adapter # 0
              PROVE  e = f
            <3>1. \A x \in Clients : facade[x].adapter # a
                BY <1>1, <1>4, <1>14
            <3>2. CASE e = c \/ f = c
                BY <1>13, <2>2, <3>1, <3>2
            <3>3. CASE e # c /\ f # c
                BY <1>1, <1>13, <2>2, <3>3 DEF Lending, Held
            <3> QED
                BY <3>2, <3>3
        <2>3. 1..made'.adapters \subseteq Adapters
            <3>1. made'.adapters = a /\ a \in 1..MaxAdapters /\ MaxAdapters \in Nat
                BY <1>1, <1>4, <1>5
            <3> QED
                BY <3>1 DEF Adapters
        <2>4. Off' = Off
            BY <1>2 DEF Off
        <2>5. g <= made'.gens
            BY <1>1, <1>6
        <2> QED
            BY <1>2, <1>6, <1>11, <2>1, <2>2, <2>3, <2>4, <2>5 DEF PreparedAfter
    <1>16. Lending' /\ Stocks'
        BY <1>2, <1>12, <1>15, SendKeeps
    <1>17. Moves(k, v)
        <2>1. a \in 0..MaxAdapters
            BY <1>4
        <2>2. /\ v \in CallRow /\ v.pc = "sent" /\ v.client = call[k].client
              /\ v.peer = call[k].peer /\ v.adapter = a
            BY <1>0, <1>1, <2>1 DEF CallRow
        <2>3. call' = [call EXCEPT ![k] = v]
            BY <1>0, <1>1, <1>2 DEF Sent
        <2>4. \A e \in Clients : facade'[e].adapter <= made'.adapters
            <3>1. \A e \in Clients : facade[e].adapter \in 0..MaxAdapters /\ facade[e].adapter <= made.adapters
                BY <1>1 DEF Front, FacadeRow
            <3> QED
                BY <1>1, <1>5, <1>13, <3>1
        <2>5. v.adapter \in 1..made'.adapters /\ made.adapters <= made'.adapters
            BY <1>1, <1>5, <2>2
        <2> QED
            BY <1>2, <1>5, <1>13, <2>2, <2>3, <2>4, <2>5 DEF Moves, InUse
    <1>18. Front' /\ Talk'
        BY <1>3, <1>17, MoveKeeps
    <1> QED
        BY <1>16, <1>18, InvParts

-----------------------------------------------------------------------------
(* The theorems                                                            *)

LEMMA InitInv == PoolInit => PoolInv
    <1> SUFFICES ASSUME PoolInit PROVE PoolInv
        OBVIOUS
    <1>0. 0 \in 0..MaxClients /\ 0 \in 0..MaxAdapters /\ 0 \in 0..MaxGenerations /\ 0 \in 0..MaxCalls
          /\ 0 \in Nat /\ Cardinality({}) = 0
        BY PoolAssumption, FS_EmptySet
    <1>1. /\ \A k \in Calls : call[k] = NoCall
          /\ \A c \in Clients : facade[c] = NoClient
          /\ \A a \in Adapters : adapter[a] = NoAdapter
          /\ \A g \in Generations : transport[g] = NoTransport
          /\ currentGen = 0 /\ made = [clients |-> 0, adapters |-> 0, gens |-> 0]
          /\ pool = [phase |-> "up", awaits |-> {}, opened |-> 0]
        BY DEF PoolInit
    <1>2. /\ NoCall \in CallRow /\ NoClient \in FacadeRow /\ NoAdapter \in AdapterRow
          /\ NoTransport \in TransportRow
        BY <1>0 DEF NoCall, NoClient, NoAdapter, NoTransport, CallRow, FacadeRow, AdapterRow, TransportRow
    <1>3. Front
        <2>1. made \in MadeRow /\ pool \in PoolRow
            BY <1>0, <1>1 DEF MadeRow, PoolRow
        <2>2. /\ registry \in [Peers -> 0..MaxClients] /\ \A p \in Peers : registry[p] <= made.clients
            BY <1>0, <1>1 DEF PoolInit
        <2>3. facade \in [Clients -> FacadeRow] /\ \A c \in Clients : facade[c].adapter <= made.adapters
            BY <1>0, <1>1, <1>2 DEF PoolInit, NoClient
        <2> QED
            BY <2>1, <2>2, <2>3 DEF Front
    <1>4. Talk
        <2>1. \A k \in Calls : call[k].pc = "idle"
            BY <1>1 DEF NoCall
        <2>2. \A c \in Clients : Using(c) = {}
            BY <2>1 DEF Using, InUse
        <2>3. \A c \in Clients : facade[c].busy = 0
            BY <1>1 DEF NoClient
        <2>4. BusyCounted
            BY <1>0, <2>2, <2>3 DEF BusyCounted
        <2>5. call \in [Calls -> CallRow]
            BY <1>2 DEF PoolInit
        <2> QED
            BY <2>1, <2>4, <2>5 DEF Talk, CallsPlaced
    <1>5. Stocks
        BY <1>0, <1>1, <1>2 DEF PoolInit, Stocks
    <1>6. Lending
        <2>1. \A k \in Calls : call[k].pc # "sent"
            BY <1>1 DEF NoCall
        <2>2. (\A a : SentOn(a) = {}) /\ (\A g : SentOver(g) = {})
            BY <2>1 DEF SentOn, SentOver
        <2>3. AdapterOK(NoAdapter, {}) /\ TransportOK(NoTransport, {}, Off)
            BY <1>0 DEF AdapterOK, TransportOK, NoAdapter, NoTransport
        <2>4. AdaptersCounted /\ TransportsCounted
            BY <1>1, <2>2, <2>3 DEF AdaptersCounted, TransportsCounted
        <2>5. AdaptersPlaced /\ Held /\ CurrentUsable
            BY <1>1 DEF AdaptersPlaced, Held, CurrentUsable, NoClient
        <2> QED
            BY <2>4, <2>5 DEF Lending
    <1> QED
        BY <1>3, <1>4, <1>5, <1>6, InvParts

LEMMA StepInv == PoolInv /\ [PoolNext]_poolVars => PoolInv'
    <1> SUFFICES ASSUME PoolInv, [PoolNext]_poolVars PROVE PoolInv'
        OBVIOUS
    <1>1. ASSUME NEW k \in Calls, NEW p \in Peers, OpenSession(k, p) PROVE PoolInv'
        BY <1>1, OpenSessionKeeps
    <1>2. ASSUME NEW k \in Calls, CardFails(k) PROVE PoolInv'
        BY <1>2, FailsKeeps
    <1>3. ASSUME NEW k \in Calls, GivesUp(k) PROVE PoolInv'
        BY <1>3, FailsKeeps
    <1>4. ASSUME NEW k \in Calls, CardFetched(k) \/ SessionEnds(k) \/ Begin(k) PROVE PoolInv'
        BY <1>4, SessionKeeps
    <1>5. ASSUME NEW k \in Calls, SendCached(k) PROVE PoolInv'
        BY <1>5, SendCachedKeeps
    <1>6. ASSUME NEW k \in Calls, SendNew(k) PROVE PoolInv'
        BY <1>6, SendNewKeeps
    <1>7. ASSUME NEW k \in Calls, SwapStale(k) \/ Discard(k) \/ RefusedAsStale(k) PROVE PoolInv'
        BY <1>7, DiscardKeeps
    <1>8. ASSUME NEW k \in Calls, Payload(k) PROVE PoolInv'
        BY <1>8, PayloadKeeps
    <1>9. ASSUME NEW k \in Calls, CallDone(k) \/ BreaksForGood(k) PROVE PoolInv'
        BY <1>9, DoneKeeps
    <1>10. ASSUME NEW k \in Calls, ReportsClosed(k) \/ Downgrade(k) PROVE PoolInv'
        BY <1>10, GoesOnKeeps
    <1>11. ASSUME NEW c \in Clients, CloseClient(c) PROVE PoolInv'
        BY <1>11, CloseClientKeeps
    <1>12. ASSUME \/ \E k \in Calls : FetchCardAgain(k)
                  \/ \E p \in Peers : EvictIdle(p)
                  \/ \E c \in Clients : ClientClosed(c)
                  \/ Shutdown \/ DrainReaper
           PROVE PoolInv'
        BY <1>12, HousekeepingKeeps
    <1>13. ASSUME CloseTransports PROVE PoolInv'
        BY <1>13, CloseTransportsKeeps
    <1>14. CASE UNCHANGED poolVars
        <2>1. /\ registry' = registry /\ facade' = facade /\ adapter' = adapter /\ transport' = transport
              /\ currentGen' = currentGen /\ call' = call /\ pool' = pool /\ made' = made
            BY <1>14 DEF poolVars
        <2> QED
            BY <2>1 DEF PoolInv, PoolTypeOK, Placed, CallsPlaced, BusyCounted, Using, Lending, AdaptersPlaced,
               Held, CurrentUsable, AdaptersCounted, TransportsCounted, SentOn, SentOver, Off
    <1> QED
        BY <1>1, <1>2, <1>3, <1>4, <1>5, <1>6, <1>7, <1>8, <1>9, <1>10, <1>11, <1>12, <1>13, <1>14
           DEF PoolNext

LEMMA AlwaysInv == PoolSpec => []PoolInv
    <1>1. PoolInit => PoolInv
        BY InitInv
    <1>2. PoolInv /\ [PoolNext]_poolVars => PoolInv'
        BY StepInv
    <1> QED
        BY <1>1, <1>2, PTL DEF PoolSpec

\* The tables keep their types, and every count in them stays a natural number.
THEOREM PoolTypesKept == PoolSpec => []PoolTypeOK
    <1>1. PoolInv => PoolTypeOK
        BY DEF PoolInv
    <1> QED
        BY <1>1, AlwaysInv, PTL

\* A transport is open as long as an operation runs over it, whoever invalidates it: an
\* agent whose error says "client has been closed" cannot close it under the others.
THEOREM TransportsStayOpen == PoolSpec => []OpenWhileUsed
    <1>1. PoolInv => OpenWhileUsed
        <2> SUFFICES ASSUME PoolInv, ~Off, NEW k \in Calls, call[k].pc = "sent"
                     PROVE  transport[adapter[call[k].adapter].gen].open
            BY DEF OpenWhileUsed, Off
        <2> PICK g : g = adapter[call[k].adapter].gen
            OBVIOUS
        <2>1. g \in Generations
            BY TypeFacts DEF PoolInv, Placed, CallsPlaced, Lending, AdaptersPlaced
        <2>2. k \in SentOver(g)
            BY DEF SentOver
        <2>3. TransportOK(transport[g], SentOver(g), Off)
            BY <2>1 DEF PoolInv, Lending, TransportsCounted
        <2> QED
            BY <2>2, <2>3 DEF TransportOK
    <1> QED
        BY <1>1, AlwaysInv, PTL

\* Every operation is counted out once, and what was given up closes with its last user.
THEOREM UsesCounted == PoolSpec => []UseCounted
    <1>1. PoolInv => UseCounted
        BY DEF PoolInv, Lending, AdaptersCounted, TransportsCounted, AdapterOK, TransportOK, UseCounted
    <1> QED
        BY <1>1, AlwaysInv, PTL

\* A client is counted busy by exactly the calls that use it: eviction spares them.
THEOREM ClientsBusy == PoolSpec => []BusyCounted
    <1>1. PoolInv => BusyCounted
        BY DEF PoolInv
    <1> QED
        BY <1>1, AlwaysInv, PTL

=============================================================================
