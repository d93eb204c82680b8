------------------------------ MODULE WsTickets ------------------------------
(***************************************************************************)
(* The one-time tickets with which a browser opens a WebSocket:            *)
(*   backend/app/runtime/ws_ticket.py   issue, consume, clean-up job       *)
(*   backend/app/api/deps.py            the dependency that consumes one   *)
(*   backend/app/features/invoke/route_runner_ws_ticket.py                 *)
(*                                                                         *)
(* Attempts consume tickets in separate database sessions.  The clock is   *)
(* read before the row is; the row is then locked without waiting          *)
(* (SELECT ... FOR UPDATE NOWAIT), judged, marked and committed; only then *)
(* is the user looked up.  The clean-up job deletes in batches: its        *)
(* subquery picks rows without locking them, the DELETE then waits for     *)
(* each row that somebody holds.                                           *)
(*                                                                         *)
(* Time is abstract: a ticket may expire, and a used one may outlive the   *)
(* retention period, at any moment.  Every attempt is a new connection;    *)
(* there are finitely many of them (Attempts).                             *)
(***************************************************************************)
EXTENDS Naturals, FiniteSets

CONSTANTS
    Tickets,     \* the tokens that may be issued
    Attempts,    \* connections that present a token
    SweepBatch,  \* _WS_TICKET_CLEANUP_BATCH_SIZE
    MaxSweeps,   \* bound: runs of the clean-up job
    NoHolder,    \* nobody locks the row
    Sweeper      \* the clean-up's transaction, as the holder of a lock

ASSUME HoldersAssumption ==
    NoHolder \notin Attempts /\ Sweeper \notin Attempts /\ NoHolder # Sweeper
ASSUME SweepAssumption == SweepBatch \in Nat \ {0} /\ MaxSweeps \in Nat

VARIABLES
    row,     \* the table ws_tickets: state, expired, used, old, lock
    attempt, \* pc, token, fresh (the ticket had not expired when the clock was
             \* read), unused (as the row was read), scoped (the connection asks
             \* for the ticket's own scope)
    cleanup,   \* the clean-up job: pc, picked rows, runs so far
    marked   \* history: how many attempts committed used_at, per ticket

ticketVars == <<row, attempt, cleanup, marked>>

Unissued == [state |-> "unissued", expired |-> FALSE, used |-> FALSE,
             old |-> FALSE, lock |-> NoHolder]
NotAsked == [pc |-> "idle", token |-> "none", fresh |-> FALSE,
             unused |-> FALSE, scoped |-> FALSE]

TicketInit ==
    /\ row = [t \in Tickets |-> Unissued]
    /\ attempt = [a \in Attempts |-> NotAsked]
    /\ cleanup = [pc |-> "off", picked |-> {}, runs |-> 0]
    /\ marked = [t \in Tickets |-> 0]

-----------------------------------------------------------------------------
(* Issuing a ticket, and the passing of time. *)

Issue(t) ==
    /\ row[t].state = "unissued"
    /\ row' = [row EXCEPT ![t].state = "stored"]
    /\ UNCHANGED <<attempt, cleanup, marked>>

ExpireTicket(t) ==
    /\ row[t].state = "stored" /\ ~row[t].expired
    /\ row' = [row EXCEPT ![t].expired = TRUE]
    /\ UNCHANGED <<attempt, cleanup, marked>>

OutliveRetention(t) ==
    /\ row[t].state = "stored" /\ row[t].used /\ ~row[t].old
    /\ row' = [row EXCEPT ![t].old = TRUE]
    /\ UNCHANGED <<attempt, cleanup, marked>>

-----------------------------------------------------------------------------
(* One attempt to consume a ticket. *)

\* The connection presents a token, for the scope of its path; the clock is read.
PresentTicket(a, t, scoped) ==
    /\ attempt[a].pc = "idle"
    /\ row[t].state # "unissued"
    /\ attempt' = [attempt EXCEPT ![a] =
           [pc |-> "asked", token |-> t, fresh |-> ~row[t].expired,
            unused |-> FALSE, scoped |-> scoped]]
    /\ UNCHANGED <<row, cleanup, marked>>

\* The row is read and locked; a held row or a statement timeout closes the
\* connection with "try again later", a deleted one with "invalid or expired".
\* (LockRowShared, a mutant, reads the row without the lock.)
LockRowShared(a) ==
    LET t == attempt[a].token IN
    /\ attempt[a].pc = "asked" /\ row[t].state = "stored"
    /\ attempt' = [attempt EXCEPT ![a].pc = "locked", ![a].unused = ~row[t].used]
    /\ UNCHANGED <<row, cleanup, marked>>

LockRow(a) ==
    LET t == attempt[a].token IN
    /\ attempt[a].pc = "asked"
    /\ row[t].state = "stored" /\ row[t].lock = NoHolder
    /\ row' = [row EXCEPT ![t].lock = a]
    /\ attempt' = [attempt EXCEPT ![a].pc = "locked", ![a].unused = ~row[t].used]
    /\ UNCHANGED <<cleanup, marked>>

TurnedAway(a) ==
    /\ attempt[a].pc = "asked"
    /\ attempt' = [attempt EXCEPT ![a].pc = "refused"]
    /\ UNCHANGED <<row, cleanup, marked>>

Acceptable(a) == attempt[a].unused /\ attempt[a].fresh /\ attempt[a].scoped

Unlocked(t) == [row EXCEPT ![t].lock = NoHolder]

\* used_at is set and committed, which gives the row back.
MarkUsed(a) ==
    LET t == attempt[a].token IN
    /\ attempt[a].pc = "locked" /\ Acceptable(a)
    /\ row' = [Unlocked(t) EXCEPT ![t].used = TRUE]
    /\ marked' = [marked EXCEPT ![t] = @ + 1]
    /\ attempt' = [attempt EXCEPT ![a].pc = "marked"]
    /\ UNCHANGED cleanup

\* The ticket is unacceptable, the commit fails, or the process dies: the
\* transaction is rolled back and the connection closed.
RollBack(a) ==
    /\ attempt[a].pc = "locked"
    /\ row' = Unlocked(attempt[a].token)
    /\ attempt' = [attempt EXCEPT ![a].pc = "refused"]
    /\ UNCHANGED <<cleanup, marked>>

\* The user is looked up after the commit, who may be gone or disabled.
Admit(a) ==
    /\ attempt[a].pc = "marked"
    /\ \E pc \in {"accepted", "refused"} : attempt' = [attempt EXCEPT ![a].pc = pc]
    /\ UNCHANGED <<row, cleanup, marked>>

-----------------------------------------------------------------------------
(* The clean-up job. *)

\* Mutant: used tickets are not kept for the retention period.
StaleTicketWhenUsed(t) == row[t].state = "stored" /\ (row[t].expired \/ row[t].used)

StaleTicket(t) == row[t].state = "stored" /\ (row[t].expired \/ (row[t].used /\ row[t].old))

StaleRows == {t \in Tickets : StaleTicket(t)}

\* A batch: at most SweepBatch stale rows, picked without locking them.
PickBatch ==
    /\ \/ cleanup.pc = "off" /\ cleanup.runs < MaxSweeps
       \/ cleanup.pc = "again"
    /\ \/ /\ StaleRows = {}
          /\ cleanup' = [cleanup EXCEPT !.pc = "off", !.runs = @ + (IF cleanup.pc = "off" THEN 1 ELSE 0)]
       \/ \E b \in SUBSET StaleRows :
              /\ b # {} /\ (Cardinality(b) = SweepBatch \/ b = StaleRows)
              /\ Cardinality(b) <= SweepBatch
              /\ cleanup' = [pc |-> "delete", picked |-> b,
                           runs |-> cleanup.runs + (IF cleanup.pc = "off" THEN 1 ELSE 0)]
    /\ UNCHANGED <<row, attempt, marked>>

\* The DELETE locks the picked rows one after another, waiting for their holders.
SweepLocks(t) ==
    /\ cleanup.pc = "delete" /\ t \in cleanup.picked
    /\ row[t].lock = NoHolder
    /\ row' = [row EXCEPT ![t].lock = Sweeper]
    /\ UNCHANGED <<attempt, cleanup, marked>>

\* The batch is committed; a full one is followed by another.
SweepCommits ==
    /\ cleanup.pc = "delete" /\ \A t \in cleanup.picked : row[t].lock = Sweeper
    /\ row' = [t \in Tickets |-> IF t \in cleanup.picked
                                 THEN [row[t] EXCEPT !.state = "gone", !.lock = NoHolder]
                                 ELSE row[t]]
    /\ cleanup' = [cleanup EXCEPT !.picked = {},
                     !.pc = IF Cardinality(cleanup.picked) < SweepBatch THEN "off" ELSE "again"]
    /\ UNCHANGED <<attempt, marked>>

\* A statement timeout or a crash: nothing of the batch is deleted.
SweepFails ==
    /\ cleanup.pc = "delete"
    /\ row' = [t \in Tickets |-> IF row[t].lock = Sweeper
                                 THEN [row[t] EXCEPT !.lock = NoHolder] ELSE row[t]]
    /\ cleanup' = [cleanup EXCEPT !.pc = "off", !.picked = {}]
    /\ UNCHANGED <<attempt, marked>>

TicketNext ==
    \/ \E t \in Tickets :
           Issue(t) \/ ExpireTicket(t) \/ OutliveRetention(t) \/ SweepLocks(t)
    \/ \E a \in Attempts :
           \/ \E t \in Tickets, scoped \in BOOLEAN : PresentTicket(a, t, scoped)
           \/ LockRow(a) \/ TurnedAway(a) \/ MarkUsed(a) \/ RollBack(a) \/ Admit(a)
    \/ PickBatch \/ SweepCommits \/ SweepFails

TicketSpec == TicketInit /\ [][TicketNext]_ticketVars

-----------------------------------------------------------------------------
(* Properties. *)

TicketTypeOK ==
    /\ row \in [Tickets -> [state : {"unissued", "stored", "gone"}, expired : BOOLEAN,
                            used : BOOLEAN, old : BOOLEAN,
                            lock : Attempts \cup {NoHolder, Sweeper}]]
    /\ attempt \in [Attempts ->
           [pc : {"idle", "asked", "locked", "marked", "accepted", "refused"},
            token : Tickets \cup {"none"}, fresh : BOOLEAN, unused : BOOLEAN,
            scoped : BOOLEAN]]
    /\ cleanup \in [pc : {"off", "delete", "again"}, picked : SUBSET Tickets, runs : 0..MaxSweeps]
    /\ marked \in [Tickets -> Nat]

\* However many connections present a token at once, and whatever the clean-up
\* deletes in between, at most one of them gets as far as the look-up of its user
\* (consume_ticket locks the row before it reads used_at).
AcceptedOnce == \A t \in Tickets : marked[t] <= 1

\* The clean-up takes away no ticket somebody could still open a connection with,
\* although it picks its rows before it waits for them, and none that has been used
\* within the retention period and has not expired.
SweepSparesLive ==
    [][\A t \in Tickets :
           (row[t].state = "stored" /\ row'[t].state = "gone")
               => row[t].expired \/ (row[t].used /\ row[t].old)]_ticketVars

==============================================================================
