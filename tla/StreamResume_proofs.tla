-------------------------- MODULE StreamResume_proofs --------------------------
(***************************************************************************)
(* Proofs about StreamResume, for every number of runs and events, every   *)
(* size of a batch and of the cache.                                       *)
(*                                                                         *)
(* Everything the agent sends has a place in one order: by run, then by    *)
(* its place in the run (Before). What is cached, buffered, stored,        *)
(* accumulated and still to be replayed is in this order, and nothing of   *)
(* it is beyond what has been read (OrderInv). That nothing is stored      *)
(* twice follows: updates the cursor of the message does not cover come    *)
(* after everything stored (FreshFrom), also when a flush fails after its  *)
(* commit and keeps a buffer that is stored already.                       *)
(*                                                                         *)
(* A message the client was told is complete is stored as shown.  While    *)
(* its only run serves the client, stored text and buffered updates are    *)
(* together what has been accumulated and shown, except for an event       *)
(* between storing and sending (FirstRun); the record of the outcome       *)
(* stores that (Settled), and a client that is served has a run that has   *)
(* neither ended nor failed (Serving).                                     *)
(*                                                                         *)
(* That nothing is skipped, as long as every resumption had a number and   *)
(* no frame showed the client a number above its place in the cache        *)
(* (InStep), needs that the numbers of the cache are those of one growing  *)
(* sequence (Numbered), and that a cached event the client has not got is  *)
(* numbered above its cursor, and is among those to be replayed while it   *)
(* is served (MissedBehind).                                               *)
(***************************************************************************)
EXTENDS StreamResume, SequenceTheorems, NaturalsInduction, WellFoundedInduction, TLAPS

\* The order in which the agent sends: by run, then by place.
Before(x, y) == x[1] < y[1] \/ (x[1] = y[1] /\ x[2] < y[2])
UpTo(x, y) == x = y \/ Before(x, y)

\* The place the request has reached.
Now == <<run.no, run.count>>

EventOf(entry) == entry.frame.event

InOrder(text) == \A i, j \in 1 .. Len(text) : i < j => Before(text[i], text[j])
EntriesInOrder(c) ==
  \A i, j \in 1 .. Len(c) : i < j => Before(EventOf(c[i]), EventOf(c[j]))
AllUpTo(text, last) == \A i \in 1 .. Len(text) : UpTo(text[i], last)

-----------------------------------------------------------------------------
\* Where the run and the client are.
Places ==
  /\ run.pc # "over" => run.no >= 1
  /\ client.pc # "idle" => run.no >= 1
  /\ client.pc = "idle" => run.pc = "over" /\ run.no = 0 /\ db.text = <<>> /\ db.last = 0
  /\ run.pc = "replay" => run.todo # <<>>
  /\ run.pc \notin {"replay", "over"} => run.todo = <<>>
  /\ run.pc = "relay" => run.frame.event = Now

\* What is cached, accumulated and still to be replayed is in the agent's order.
SentInOrder ==
  /\ EntriesInOrder(cache) /\ EntriesInOrder(run.todo) /\ InOrder(run.acc)
  /\ \A i \in 1 .. Len(run.acc), j \in 1 .. Len(run.todo) : Before(run.acc[i], EventOf(run.todo[j]))

\* An event has been sent: not yet the one between storing and sending.
Reached(pc, now, e) == IF pc = "relay" THEN Before(e, now) ELSE UpTo(e, now)

SentSoFar ==
  /\ \A i \in 1 .. Len(cache) : Reached(run.pc, Now, EventOf(cache[i]))
  /\ \A i \in 1 .. Len(run.acc) : Reached(run.pc, Now, run.acc[i])
  /\ \A i \in 1 .. Len(run.todo) : Reached(run.pc, Now, EventOf(run.todo[i]))
  /\ \A e \in client.got : Reached(run.pc, Now, e)

\* A buffer in the order of the agent, up to the event named last.
BufferFits(buf, last) ==
  /\ \A i, j \in 1 .. Len(buf) : i < j => buf[i].n < buf[j].n /\ Before(buf[i].event, buf[j].event)
  /\ \A i \in 1 .. Len(buf) : UpTo(buf[i].event, last)

\* Updates that the cursor of d does not cover come after the text of d, from place p on.
FreshFrom(d, buf, p) ==
  \A k \in p .. Len(buf), i \in 1 .. Len(d.text) :
     buf[k].n > d.last => Before(d.text[i], buf[k].event)

\* Updates that wait to be stored, and what is stored.
BufferInOrder ==
  BufferFits(run.buffer, Now) /\ \A i \in 1 .. Len(run.buffer) : run.buffer[i].n < run.pseq

StoredInOrder ==
  /\ InOrder(db.text) /\ AllUpTo(db.text, Now)
  /\ run.pc # "over" => FreshFrom(db, run.buffer, 1)

OrderInv == SentInOrder /\ SentSoFar /\ BufferInOrder /\ StoredInOrder

-----------------------------------------------------------------------------
\* A client that is served has an unfinished run, which has not failed.
Serving ==
  client.pc = "streaming" =>
    /\ run.pc # "over" /\ run.outcome # "error"
    /\ run.pc \in {"flush", "final", "record"} => run.outcome = "done"

\* The event between storing and sending, as one of the text.
Underway == IF run.pc = "relay" /\ IsText(run.frame) THEN 1 ELSE 0

\* Nothing of the buffer is stored yet: its numbers grow, from above the cursor.
Exact(d, buf) ==
  /\ \A j \in 1 .. Len(buf) : buf[j].n > d.last
  /\ \A i, j \in 1 .. Len(buf) : i < j => buf[i].n < buf[j].n

\* What is stored and what is buffered, as one sequence: its length and its elements.
Size(d, buf) == Len(d.text) + Len(buf)
Content(d, buf, i) == IF i <= Len(d.text) THEN d.text[i] ELSE buf[i - Len(d.text)].event

\* In the first run, while the client is served: what is stored and what is buffered is
\* what has been accumulated and shown, and the text under way, whose number is new to
\* the client.
FirstRun ==
  client.pc = "streaming" /\ run.no = 1 =>
    /\ run.pc # "replay"
    /\ Exact(db, run.buffer) /\ db.last < run.pseq
    /\ \A j \in 1 .. Len(run.buffer) : run.buffer[j].n < run.pseq
    /\ Size(db, run.buffer) = Len(run.acc) + Underway
    /\ \A i \in 1 .. Len(run.acc) : run.acc[i] = Content(db, run.buffer, i)
    /\ Underway = 1 =>
         /\ run.frame.event = Content(db, run.buffer, Len(run.acc) + 1)
         /\ run.frame.id < run.pseq /\ run.frame.id \notin client.ids
    /\ \A n \in client.ids : n < run.pseq
    /\ run.pc \in {"final", "record"} => run.buffer = <<>>
    /\ client.shown = run.acc

\* A message whose delivery is complete has been recorded as it is shown.
Settled ==
  client.pc = "done" =>
    /\ run.pc = "over" /\ db.status = "done"
    /\ run.no = 1 => db.text = client.shown

\* Nothing has happened before the message is sent.
Unsent == client.pc = "idle" => client.shown = <<>> /\ client.ids = {}

AckInv == Serving /\ FirstRun /\ Settled /\ Unsent

-----------------------------------------------------------------------------
\* The numbers of a sequence of cached events.
Increasing(c) == \A i, j \in 1 .. Len(c) : i < j => c[i].n < c[j].n
NumbersUpTo(c, top) ==
  \A i \in 1 .. Len(c) : c[i].n <= top /\ c[i].frame.seen <= c[i].n /\ c[i].frame.id <= c[i].n

\* Every resumption had a number, and no frame showed a number above its own.
InStep == run.since = 1 /\ ~run.ahead

\* Then the numbers are those of one sequence, and the client has not gone beyond it.
Numbered ==
  InStep =>
    /\ Increasing(cache) /\ NumbersUpTo(cache, run.seq)
    /\ Increasing(run.todo) /\ NumbersUpTo(run.todo, run.seq)
    /\ client.cursor <= run.seq

\* And what the client has not received is behind its number; while it is served, it is to
\* be replayed.
MissedBehind ==
  InStep =>
    \A i \in 1 .. Len(cache) : EventOf(cache[i]) \notin client.got =>
       /\ cache[i].n > client.cursor
       /\ client.pc = "streaming" =>
            run.pc = "replay" /\ \E j \in 1 .. Len(run.todo) : run.todo[j] = cache[i]

NothingSent == client.pc = "idle" => cache = <<>> /\ client.got = {} /\ client.cursor = 0

SkipInv == Numbered /\ MissedBehind /\ NothingSkipped /\ NothingSent

-----------------------------------------------------------------------------
(* Induction, and what the recursive definitions compute                    *)

\* A set of natural numbers with 0 and the successor of each below n has all up to n.
LEMMA CountUp ==
  ASSUME NEW n \in Nat, NEW S, 0 \in S, \A k \in 0 .. n - 1 : k \in S => k + 1 \in S
  PROVE  \A k \in 0 .. n : k \in S
<1>. PICK T : T = {k \in 0 .. n : k \notin S}
  OBVIOUS
<1>1. SUFFICES ASSUME T # {} PROVE FALSE
  OBVIOUS
<1>2. PICK m \in T : \A k \in T : ~ (<<k, m>> \in OpToRel(<, Nat))
  <2>1. T \in SUBSET Nat
    OBVIOUS
  <2>. QED BY <1>1, <2>1, NatLessThanWellFounded, WFMin
<1>3. \A k \in T : ~ (k < m)
  <2>1. T \in SUBSET Nat
    OBVIOUS
  <2>. QED BY <1>2, <2>1 DEF OpToRel
<1>4. m \in 1 .. n
  OBVIOUS
<1>5. m - 1 \in S
  BY <1>3, <1>4
<1>6. m - 1 \in 0 .. n - 1 /\ m = (m - 1) + 1
  BY <1>4
<1>. QED BY <1>5, <1>6

\* Picking goes along the sequence, one element at a time.
Picking(f, s, keep) ==
  /\ f[0] = <<>> /\ Picked(s, keep) = f[Len(s)]
  /\ \A k \in 1 .. Len(s) :
       f[k] = IF k \in keep THEN Append(f[k - 1], s[k]) ELSE f[k - 1]

LEMMA PickedSteps ==
  ASSUME NEW T, NEW s \in Seq(T), NEW keep
  PROVE  \E f \in [0 .. Len(s) -> Seq(T)] : Picking(f, s, keep)
<1>. DEFINE Next1(g, k) == IF k = 0 THEN <<>>
                           ELSE IF k \in keep THEN Append(g[k - 1], s[k]) ELSE g[k - 1]
            S == {n \in Nat : \E g : g = [k \in 0 .. n |-> Next1(g, k)]}
<1>. PICK len \in Nat : len = Len(s)
  OBVIOUS
<1>1. \A n \in 0 .. len : n \in S
  <2>1. 0 \in S
    <3>. PICK g : g = [k \in 0 .. 0 |-> <<>>]
      OBVIOUS
    <3>1. g = [k \in 0 .. 0 |-> Next1(g, k)]
      OBVIOUS
    <3>. QED BY <3>1
  <2>2. ASSUME NEW n \in 0 .. len - 1, n \in S PROVE n + 1 \in S
    <3>1. PICK g : g = [k \in 0 .. n |-> Next1(g, k)]
      BY <2>2
    <3>2. PICK h : h = [k \in 0 .. n + 1 |-> Next1(g, k)]
      OBVIOUS
    <3>3. \A k \in 0 .. n : h[k] = g[k]
      <4>1. \A k \in 0 .. n : k \in 0 .. n + 1
        OBVIOUS
      <4>. HIDE DEF Next1
      <4>. QED BY <3>1, <3>2, <4>1
    <3>4. \A k \in 0 .. n + 1 : Next1(h, k) = Next1(g, k)
      BY <3>3
    <3>5. h = [k \in 0 .. n + 1 |-> Next1(h, k)]
      BY <3>2, <3>4, Zenon
    <3>. HIDE DEF Next1
    <3>. QED BY <3>5
  <2>. HIDE DEF S
  <2>. QED BY <2>1, <2>2, CountUp
<1>. DEFINE f == CHOOSE g : g = [k \in 0 .. len |-> Next1(g, k)]
<1>2. f = [k \in 0 .. len |-> Next1(f, k)]
  <2>. HIDE DEF Next1
  <2>1. \E g : g = [k \in 0 .. len |-> Next1(g, k)]
    BY <1>1
  <2>. QED BY <2>1
<1>3. Picked(s, keep) = f[len]
  BY DEF Picked
<1>. HIDE DEF f
<1>4. \A k \in 0 .. len : f[k] = Next1(f, k)
  <2>. HIDE DEF Next1
  <2>. QED BY <1>2
<1>5. \A k \in 0 .. len : f[k] \in Seq(T)
  <2>1. f[0] \in Seq(T)
    <3>1. 0 \in 0 .. len
      OBVIOUS
    <3>. QED BY <1>4, <3>1, EmptySeq
  <2>2. \A k \in 0 .. len - 1 : f[k] \in Seq(T) => f[k + 1] \in Seq(T)
    <3>1. ASSUME NEW k \in 0 .. len - 1, f[k] \in Seq(T) PROVE f[k + 1] \in Seq(T)
      <4>1. k + 1 \in 0 .. len /\ k + 1 # 0 /\ (k + 1) - 1 = k /\ k + 1 \in 1 .. Len(s)
        OBVIOUS
      <4>2. f[k + 1] = IF k + 1 \in keep THEN Append(f[k], s[k + 1]) ELSE f[k]
        BY <1>4, <4>1
      <4>3. s[k + 1] \in T
        BY <4>1, ElementOfSeq
      <4>. QED BY <3>1, <4>2, <4>3, AppendProperties
    <3>. QED BY <3>1
  <2>. PICK typed : typed = {k \in 0 .. len : f[k] \in Seq(T)}
    OBVIOUS
  <2>3. 0 \in typed /\ \A k \in 0 .. len - 1 : k \in typed => k + 1 \in typed
    BY <2>1, <2>2
  <2>. QED BY <2>3, CountUp
<1>6. f \in [0 .. Len(s) -> Seq(T)]
  BY <1>2, <1>5
<1>7. \A k \in 1 .. Len(s) : k \in 0 .. len /\ k # 0
  OBVIOUS
<1>8. f[0] = <<>>
  BY <1>4
<1>. QED
  BY <1>3, <1>4, <1>6, <1>7, <1>8 DEF Picking

\* r consists of the elements of s at the places in keep up to p, in their order.
Picks(r, s, keep, p) ==
  /\ \A i \in 1 .. Len(r) : \E k \in 1 .. p : k \in keep /\ r[i] = s[k]
  /\ \A i, j \in 1 .. Len(r) : i < j =>
       \E k, l \in 1 .. p : k < l /\ k \in keep /\ l \in keep /\ r[i] = s[k] /\ r[j] = s[l]
  /\ \A k \in 1 .. p : k \in keep => \E i \in 1 .. Len(r) : r[i] = s[k]

LEMMA PicksOneMore ==
  ASSUME NEW T, NEW r \in Seq(T), NEW s, NEW keep, NEW p \in Nat, Picks(r, s, keep, p)
  PROVE  /\ p + 1 \notin keep => Picks(r, s, keep, p + 1)
         /\ p + 1 \in keep /\ s[p + 1] \in T => Picks(Append(r, s[p + 1]), s, keep, p + 1)
<1>1. 1 .. p + 1 = (1 .. p) \cup {p + 1}
  OBVIOUS
<1>2. ASSUME p + 1 \notin keep PROVE Picks(r, s, keep, p + 1)
  BY <1>1, <1>2 DEF Picks
<1>3. ASSUME p + 1 \in keep, s[p + 1] \in T
      PROVE  Picks(Append(r, s[p + 1]), s, keep, p + 1)
  <2>. PICK q \in Seq(T) : q = Append(r, s[p + 1])
    BY <1>3, AppendProperties
  <2>. PICK n \in Nat : n = Len(r)
    OBVIOUS
  <2>1. /\ Len(q) = n + 1 /\ q[n + 1] = s[p + 1]
        /\ \A i \in 1 .. n : q[i] = r[i]
    BY <1>3, AppendProperties
  <2>2. 1 .. Len(q) = (1 .. n) \cup {n + 1}
    BY <2>1
  <2>3. \A i \in 1 .. Len(q) : \E k \in 1 .. p + 1 : k \in keep /\ q[i] = s[k]
    BY <1>1, <1>3, <2>1, <2>2 DEF Picks
  <2>4. ASSUME NEW i \in 1 .. Len(q), NEW j \in 1 .. Len(q), i < j
        PROVE  \E k, l \in 1 .. p + 1 :
                 k < l /\ k \in keep /\ l \in keep /\ q[i] = s[k] /\ q[j] = s[l]
    <3>1. CASE j \in 1 .. n
      <4>1. i \in 1 .. n
        BY <2>4, <3>1
      <4>2. PICK k \in 1 .. p, l \in 1 .. p :
              k < l /\ k \in keep /\ l \in keep /\ r[i] = s[k] /\ r[j] = s[l]
        BY <2>4, <3>1, <4>1 DEF Picks
      <4>. QED BY <2>1, <3>1, <4>1, <4>2, <1>1
    <3>2. CASE j = n + 1
      <4>1. i \in 1 .. n
        BY <2>1, <2>4, <3>2
      <4>2. PICK k \in 1 .. p : k \in keep /\ r[i] = s[k]
        BY <4>1 DEF Picks
      <4>3. k < p + 1 /\ k \in 1 .. p + 1 /\ p + 1 \in 1 .. p + 1
        OBVIOUS
      <4>. QED BY <1>3, <2>1, <3>2, <4>1, <4>2, <4>3
    <3>. QED BY <2>2, <3>1, <3>2
  <2>5. ASSUME NEW k \in 1 .. p + 1, k \in keep
        PROVE  \E i \in 1 .. Len(q) : q[i] = s[k]
    <3>1. CASE k = p + 1
      BY <2>1, <2>2, <3>1
    <3>2. CASE k \in 1 .. p
      <4>1. PICK i \in 1 .. n : r[i] = s[k]
        BY <2>5, <3>2 DEF Picks
      <4>. QED BY <2>1, <2>2, <4>1
    <3>. QED BY <1>1, <3>1, <3>2
  <2>6. Picks(q, s, keep, p + 1)
    <3>. PICK p1 : p1 = p + 1
      OBVIOUS
    <3>. QED BY <2>3, <2>4, <2>5, Zenon DEF Picks
  <2>. QED BY <2>6
<1>. QED BY <1>2, <1>3

\* What picking returns.
LEMMA PickedFacts ==
  ASSUME NEW T, NEW s \in Seq(T), NEW keep
  PROVE  Picked(s, keep) \in Seq(T) /\ Picks(Picked(s, keep), s, keep, Len(s))
<1>1. PICK f \in [0 .. Len(s) -> Seq(T)] : Picking(f, s, keep)
  BY PickedSteps
<1>. PICK len \in Nat : len = Len(s)
  OBVIOUS
<1>. PICK good : good = {k \in 0 .. len : Picks(f[k], s, keep, k)}
  OBVIOUS
<1>2. 0 \in good
  <2>1. Picks(<<>>, s, keep, 0)
    <3>1. Len(<<>>) = 0 /\ 1 .. 0 = {}
      OBVIOUS
    <3>. QED BY <3>1 DEF Picks
  <2>. QED BY <1>1, <2>1 DEF Picking
<1>3. ASSUME NEW k \in 0 .. len - 1, k \in good PROVE k + 1 \in good
  <2>1. k \in Nat /\ k + 1 \in 1 .. Len(s) /\ (k + 1) - 1 = k /\ k + 1 \in 0 .. len
    OBVIOUS
  <2>2. f[k] \in Seq(T) /\ s[k + 1] \in T
    BY <2>1, ElementOfSeq
  <2>3. f[k + 1] = IF k + 1 \in keep THEN Append(f[k], s[k + 1]) ELSE f[k]
    BY <1>1, <2>1 DEF Picking
  <2>4. Picks(f[k], s, keep, k)
    BY <1>3
  <2>5. Picks(f[k + 1], s, keep, k + 1)
    BY <2>1, <2>2, <2>3, <2>4, PicksOneMore
  <2>. QED BY <2>1, <2>5
<1>4. len \in good
  <2>1. \A k \in 0 .. len : k \in good
    BY <1>2, <1>3, CountUp
  <2>. QED BY <2>1
<1>. QED
  BY <1>1, <1>4 DEF Picking

Update == [n : Nat, event : Event, open : BOOLEAN]

\* One entry is written.
LEMMA WrittenType ==
  ASSUME NEW d \in DB, NEW e \in Update
  PROVE  Written(d, e) \in DB
<1>. USE DEF Update
<1>0. PICK t : t = Append(d.text, e.event)
  OBVIOUS
<1>1. t \in Seq(Event \cup {ErrorEvent})
  BY <1>0, AppendProperties DEF DB
<1>2. PICK n \in Nat, o \in BOOLEAN : n = e.n /\ o = e.open
  OBVIOUS
<1>3. [d EXCEPT !.text = t, !.open = o, !.last = n] \in DB
  BY <1>1 DEF DB
<1>. QED BY <1>0, <1>2, <1>3 DEF Written

\* Writing goes along the buffer, one entry at a time.
Writing(f, d, buf) ==
  /\ f[0] = d /\ WrittenAll(d, buf) = f[Len(buf)]
  /\ \A k \in 1 .. Len(buf) : f[k] = Written(f[k - 1], buf[k])

LEMMA WrittenSteps ==
  ASSUME NEW d \in DB, NEW buf \in Seq(Update)
  PROVE  \E f \in [0 .. Len(buf) -> DB] : Writing(f, d, buf)
<1>. DEFINE Next1(g, k) == IF k = 0 THEN d ELSE Written(g[k - 1], buf[k])
            S == {n \in Nat : \E g : g = [k \in 0 .. n |-> Next1(g, k)]}
<1>. PICK len \in Nat : len = Len(buf)
  OBVIOUS
<1>1. \A n \in 0 .. len : n \in S
  <2>1. 0 \in S
    <3>. PICK g : g = [k \in 0 .. 0 |-> d]
      OBVIOUS
    <3>1. g = [k \in 0 .. 0 |-> Next1(g, k)]
      OBVIOUS
    <3>. QED BY <3>1
  <2>2. ASSUME NEW n \in 0 .. len - 1, n \in S PROVE n + 1 \in S
    <3>1. PICK g : g = [k \in 0 .. n |-> Next1(g, k)]
      BY <2>2
    <3>2. PICK h : h = [k \in 0 .. n + 1 |-> Next1(g, k)]
      OBVIOUS
    <3>3. \A k \in 0 .. n : h[k] = g[k]
      <4>1. \A k \in 0 .. n : k \in 0 .. n + 1
        OBVIOUS
      <4>. HIDE DEF Next1
      <4>. QED BY <3>1, <3>2, <4>1
    <3>4. \A k \in 0 .. n + 1 : Next1(h, k) = Next1(g, k)
      BY <3>3
    <3>5. h = [k \in 0 .. n + 1 |-> Next1(h, k)]
      BY <3>2, <3>4, Zenon
    <3>. HIDE DEF Next1
    <3>. QED BY <3>5
  <2>. HIDE DEF S
  <2>. QED BY <2>1, <2>2, CountUp
<1>. DEFINE f == CHOOSE g : g = [k \in 0 .. len |-> Next1(g, k)]
<1>2. f = [k \in 0 .. len |-> Next1(f, k)]
  <2>. HIDE DEF Next1
  <2>1. \E g : g = [k \in 0 .. len |-> Next1(g, k)]
    BY <1>1
  <2>. QED BY <2>1
<1>3. WrittenAll(d, buf) = f[len]
  BY DEF WrittenAll
<1>. HIDE DEF f
<1>4. \A k \in 0 .. len : f[k] = Next1(f, k)
  <2>. HIDE DEF Next1
  <2>. QED BY <1>2
<1>5. \A k \in 0 .. len : f[k] \in DB
  <2>1. f[0] \in DB
    <3>1. 0 \in 0 .. len
      OBVIOUS
    <3>. QED BY <1>4, <3>1
  <2>2. ASSUME NEW k \in 0 .. len - 1, f[k] \in DB PROVE f[k + 1] \in DB
    <3>1. k + 1 \in 0 .. len /\ k + 1 # 0 /\ (k + 1) - 1 = k /\ k + 1 \in 1 .. Len(buf)
      OBVIOUS
    <3>2. f[k + 1] = Written(f[k], buf[k + 1])
      BY <1>4, <3>1
    <3>3. buf[k + 1] \in Update
      BY <3>1, ElementOfSeq
    <3>. QED BY <2>2, <3>2, <3>3, WrittenType
  <2>. PICK typed : typed = {k \in 0 .. len : f[k] \in DB}
    OBVIOUS
  <2>3. 0 \in typed /\ \A k \in 0 .. len - 1 : k \in typed => k + 1 \in typed
    BY <2>1, <2>2
  <2>. QED BY <2>3, CountUp
<1>6. f \in [0 .. Len(buf) -> DB]
  BY <1>2, <1>5
<1>7. \A k \in 1 .. Len(buf) : k \in 0 .. len /\ k # 0
  OBVIOUS
<1>8. f[0] = d
  BY <1>4
<1>. QED
  BY <1>3, <1>4, <1>6, <1>7, <1>8 DEF Writing

\* The first k updates are stored or covered.
Covered(d, buf, k) == \A j \in 1 .. k : buf[j].n <= d.last

LEMMA WrittenKeepsOrder ==
  ASSUME NEW d \in DB, NEW buf \in Seq(Update), NEW last, NEW k \in 1 .. Len(buf),
         InOrder(d.text), AllUpTo(d.text, last), FreshFrom(d, buf, k), BufferFits(buf, last),
         Covered(d, buf, k - 1)
  PROVE  LET r == Written(d, buf[k]) IN
         /\ r.status = d.status /\ InOrder(r.text) /\ AllUpTo(r.text, last)
         /\ FreshFrom(r, buf, k + 1) /\ Covered(r, buf, k) /\ r.last >= d.last
<1>. PICK r : r = Written(d, buf[k])
  OBVIOUS
<1>. PICK e \in Update : e = buf[k]
  BY ElementOfSeq
<1>0. \A j \in 1 .. Len(buf) : buf[j].n \in Nat
  <2>1. \A j \in 1 .. Len(buf) : buf[j] \in Update
    BY ElementOfSeq
  <2>. QED BY <2>1 DEF Update
<1>. PICK len \in Nat, m \in Nat : len = Len(buf) /\ m = Len(d.text)
  BY LenProperties DEF DB
<1>1. d.last \in Nat /\ e.n \in Nat
  BY DEF DB, Update
<1>2. CASE e.n <= d.last
  <2>1. r = d
    BY <1>2 DEF Written
  <2>2. FreshFrom(d, buf, k + 1)
    BY DEF FreshFrom
  <2>3. Covered(d, buf, k)
    BY <1>2 DEF Covered
  <2>. QED BY <1>1, <2>1, <2>2, <2>3
<1>3. CASE ~ (e.n <= d.last)
  <2>1. PICK t : t = Append(d.text, e.event)
    OBVIOUS
  <2>2. /\ r.status = d.status /\ r.text = t /\ r.last = e.n
    <3>1. r = [d EXCEPT !.text = Append(@, e.event), !.open = e.open, !.last = e.n]
      BY <1>3 DEF Written
    <3>. QED BY <2>1, <3>1 DEF DB
  <2>3. /\ Len(t) = m + 1 /\ t[m + 1] = e.event
        /\ \A i \in 1 .. m : t[i] = d.text[i]
    <3>1. e.event \in Event \cup {ErrorEvent} /\ d.text \in Seq(Event \cup {ErrorEvent})
      BY DEF DB, Update
    <3>. QED BY <2>1, <3>1, AppendProperties
  <2>4. \A i \in 1 .. m : Before(d.text[i], e.event)
    <3>1. k \in k .. Len(buf) /\ e.n > d.last
      BY <1>1, <1>3
    <3>. QED BY <3>1 DEF FreshFrom
  <2>5. 1 .. Len(t) = (1 .. m) \cup {m + 1}
    BY <2>3
  <2>6. InOrder(t)
    <3>1. ASSUME NEW i \in 1 .. Len(t), NEW j \in 1 .. Len(t), i < j
          PROVE  Before(t[i], t[j])
      <4>1. i \in 1 .. m
        BY <2>3, <3>1
      <4>2. CASE j \in 1 .. m
        BY <2>3, <3>1, <4>1, <4>2 DEF InOrder
      <4>3. CASE j = m + 1
        BY <2>3, <2>4, <4>1, <4>3
      <4>. QED BY <2>5, <4>2, <4>3
    <3>. QED BY <3>1 DEF InOrder
  <2>7. AllUpTo(t, last)
    <3>1. UpTo(e.event, last)
      BY DEF BufferFits
    <3>. QED BY <2>3, <2>5, <3>1 DEF AllUpTo
  <2>8. FreshFrom(r, buf, k + 1)
    <3>1. ASSUME NEW j \in k + 1 .. len, NEW i \in 1 .. Len(t), buf[j].n > e.n
          PROVE  Before(t[i], buf[j].event)
      <4>1. j \in 1 .. Len(buf) /\ k < j /\ j \in k .. Len(buf) /\ buf[j].n > d.last
        BY <1>0, <1>1, <1>3, <3>1
      <4>2. CASE i \in 1 .. m
        BY <2>3, <4>1, <4>2 DEF FreshFrom
      <4>3. CASE i = m + 1
        BY <2>3, <4>1, <4>3 DEF BufferFits
      <4>. QED BY <2>5, <4>2, <4>3
    <3>. QED BY <2>2, <3>1 DEF FreshFrom
  <2>9. Covered(r, buf, k)
    <3>1. ASSUME NEW j \in 1 .. k PROVE buf[j].n <= e.n
      <4>1. CASE j = k
        BY <1>1, <4>1
      <4>2. CASE j < k
        <5>1. buf[j].n < e.n
          BY <4>2 DEF BufferFits
        <5>. QED BY <1>0, <1>1, <5>1
      <4>. QED BY <4>1, <4>2
    <3>. QED BY <2>2, <3>1 DEF Covered
  <2>. QED BY <1>1, <1>3, <2>2, <2>6, <2>7, <2>8, <2>9
<1>. QED BY <1>1, <1>2, <1>3

\* Storing a buffer keeps the order, and leaves nothing of it uncovered.
LEMMA WrittenAllInOrder ==
  ASSUME NEW d \in DB, NEW buf \in Seq(Update), NEW last,
         InOrder(d.text), AllUpTo(d.text, last), FreshFrom(d, buf, 1), BufferFits(buf, last)
  PROVE  LET r == WrittenAll(d, buf) IN
         /\ r \in DB /\ r.status = d.status /\ InOrder(r.text) /\ AllUpTo(r.text, last)
         /\ Covered(r, buf, Len(buf)) /\ r.last >= d.last
<1>1. PICK f \in [0 .. Len(buf) -> DB] : Writing(f, d, buf)
  BY WrittenSteps
<1>. PICK len \in Nat : len = Len(buf)
  OBVIOUS
<1>. DEFINE Fine(k) == LET x == f[k] IN
       /\ x.status = d.status /\ InOrder(x.text) /\ AllUpTo(x.text, last)
       /\ FreshFrom(x, buf, k + 1) /\ Covered(x, buf, k) /\ x.last >= d.last
<1>2. d.last \in Nat /\ \A k \in 0 .. len : f[k] \in DB /\ f[k].last \in Nat
  <2>1. \A x \in DB : x.last \in Nat
    BY DEF DB
  <2>. QED BY <2>1
<1>3. Fine(0)
  <2>1. 1 .. 0 = {} /\ 0 + 1 = 1
    OBVIOUS
  <2>2. Covered(d, buf, 0) /\ d.last >= d.last
    BY <1>2, <2>1 DEF Covered
  <2>. QED BY <1>1, <2>1, <2>2 DEF Writing
<1>4. ASSUME NEW k \in 0 .. len - 1, Fine(k) PROVE Fine(k + 1)
  <2>1. k + 1 \in 1 .. Len(buf) /\ (k + 1) - 1 = k /\ k + 1 \in 0 .. len /\ k \in 0 .. len
    OBVIOUS
  <2>2. f[k + 1] = Written(f[k], buf[k + 1])
    BY <1>1, <2>1 DEF Writing
  <2>. PICK x \in DB, y \in DB, k1 \in 1 .. Len(buf) : x = f[k] /\ y = f[k + 1] /\ k1 = k + 1
    BY <1>2, <2>1
  <2>3. /\ InOrder(x.text) /\ AllUpTo(x.text, last) /\ FreshFrom(x, buf, k1)
        /\ Covered(x, buf, k1 - 1) /\ x.status = d.status /\ x.last >= d.last
    BY <1>4, <2>1
  <2>4. y = Written(x, buf[k1])
    BY <2>2
  <2>5. /\ y.status = x.status /\ InOrder(y.text) /\ AllUpTo(y.text, last)
        /\ FreshFrom(y, buf, k1 + 1) /\ Covered(y, buf, k1) /\ y.last >= x.last
    BY <2>3, <2>4, WrittenKeepsOrder
  <2>6. y.last >= d.last
    BY <1>2, <2>1, <2>3, <2>5
  <2>. QED BY <2>3, <2>5, <2>6
<1>. HIDE DEF Fine
<1>. PICK fine : fine = {k \in 0 .. len : Fine(k)}
  OBVIOUS
<1>5. len \in fine
  <2>1. 0 \in fine /\ \A k \in 0 .. len - 1 : k \in fine => k + 1 \in fine
    BY <1>3, <1>4
  <2>2. \A k \in 0 .. len : k \in fine
    BY <2>1, CountUp
  <2>. QED BY <2>2
<1>6. Fine(len)
  BY <1>5
<1>7. WrittenAll(d, buf) = f[len] /\ f[len] \in DB
  BY <1>1 DEF Writing
<1>. QED BY <1>6, <1>7 DEF Fine

\* A buffer that the cursor does not cover is appended to the text.
LEMMA WrittenAllAppends ==
  ASSUME NEW d \in DB, NEW buf \in Seq(Update), Exact(d, buf)
  PROVE  LET r == WrittenAll(d, buf) IN
         /\ r.status = d.status
         /\ r.last = IF Len(buf) = 0 THEN d.last ELSE buf[Len(buf)].n
         /\ Len(r.text) = Len(d.text) + Len(buf)
         /\ \A i \in 1 .. Len(d.text) : r.text[i] = d.text[i]
         /\ \A j \in 1 .. Len(buf) : r.text[Len(d.text) + j] = buf[j].event
<1>0. \A a, b \in Nat : a + (b + 1) = a + b + 1
  OBVIOUS
<1>1. PICK f \in [0 .. Len(buf) -> DB] : Writing(f, d, buf)
  BY WrittenSteps
<1>. PICK len \in Nat, m \in Nat, base \in Nat : len = Len(buf) /\ m = Len(d.text) /\ base = d.last
  BY LenProperties DEF DB
<1>. DEFINE Fine(k) == LET x == f[k] IN
       /\ x.status = d.status /\ x.last = (IF k = 0 THEN base ELSE buf[k].n)
       /\ Len(x.text) = m + k
       /\ \A i \in 1 .. m : x.text[i] = d.text[i]
       /\ \A j \in 1 .. k : x.text[m + j] = buf[j].event
<1>3. Fine(0)
  <2>1. 1 .. 0 = {} /\ m + 0 = m
    OBVIOUS
  <2>. QED BY <1>1, <2>1 DEF Writing
<1>2. \A k \in 0 .. len - 1 : k \in Nat /\ m + (k + 1) = m + k + 1
  <2>1. \A k \in 0 .. len - 1 : k \in Nat
    OBVIOUS
  <2>. QED BY <1>0, <2>1
<1>4. ASSUME NEW k \in 0 .. len - 1, Fine(k) PROVE Fine(k + 1)
  <2>1. k + 1 \in 1 .. Len(buf) /\ (k + 1) - 1 = k /\ k + 1 \in 0 .. len /\ k \in 0 .. len
    OBVIOUS
  <2>2. f[k + 1] = Written(f[k], buf[k + 1])
    BY <1>1, <2>1 DEF Writing
  <2>. PICK e \in Update : e = buf[k + 1]
    BY <2>1, ElementOfSeq
  <2>3. PICK x \in DB : x = f[k]
    BY <2>1
  <2>4. PICK t : t = Append(x.text, e.event)
    OBVIOUS
  <2>5. PICK y : y = f[k + 1]
    OBVIOUS
  <2>6. ~ (e.n <= x.last)
    <3>1. e.n \in Nat /\ x.last \in Nat
      BY DEF Update, DB
    <3>2. CASE k = 0
      <4>1. x.last = base /\ e.n > base
        BY <1>4, <2>1, <2>3, <3>2 DEF Exact
      <4>. QED BY <3>1, <4>1
    <3>3. CASE k # 0
      <4>1. k \in 1 .. Len(buf) /\ k < k + 1
        BY <3>3
      <4>2. x.last = buf[k].n /\ buf[k].n < e.n
        BY <1>4, <2>1, <2>3, <3>3, <4>1 DEF Exact
      <4>. QED BY <3>1, <4>2
    <3>. QED BY <3>2, <3>3
  <2>7. y.status = x.status /\ y.text = t /\ y.last = e.n
    <3>1. y = [x EXCEPT !.text = Append(@, e.event), !.open = e.open, !.last = e.n]
      BY <2>2, <2>3, <2>5, <2>6 DEF Written
    <3>. QED BY <2>4, <3>1 DEF DB
  <2>8. /\ Len(t) = m + k + 1 /\ t[m + k + 1] = e.event
        /\ \A i \in 1 .. m + k : t[i] = x.text[i]
    <3>1. e.event \in Event \cup {ErrorEvent} /\ x.text \in Seq(Event \cup {ErrorEvent})
      BY DEF DB, Update
    <3>2. PICK n \in Nat : n = m + k /\ n = Len(x.text)
      BY <1>4, <2>3
    <3>3. /\ Len(t) = n + 1 /\ t[n + 1] = e.event
          /\ \A i \in 1 .. n : t[i] = x.text[i]
      <4>. PICK old \in Seq(Event \cup {ErrorEvent}), new \in Event \cup {ErrorEvent} :
             old = x.text /\ new = e.event
        BY <3>1
      <4>. QED BY <2>4, <3>2, AppendProperties
    <3>. QED BY <3>2, <3>3
  <2>9. \A i \in 1 .. m : t[i] = d.text[i]
    <3>1. \A i \in 1 .. m : i \in 1 .. m + k
      OBVIOUS
    <3>. QED BY <1>4, <2>3, <2>8, <3>1
  <2>10. \A j \in 1 .. k + 1 : t[m + j] = buf[j].event
    <3>1. \A j \in 1 .. k : m + j \in 1 .. m + k
      OBVIOUS
    <3>2. \A j \in 1 .. k : t[m + j] = buf[j].event
      BY <1>4, <2>3, <2>8, <3>1
    <3>3. t[m + (k + 1)] = e.event
      <4>1. m + (k + 1) = m + k + 1
        BY <1>2
      <4>. QED BY <2>8, <4>1
    <3>4. \A j \in 1 .. k + 1 : j \in 1 .. k \/ j = k + 1
      OBVIOUS
    <3>. QED BY <3>2, <3>3, <3>4
  <2>11. y.status = d.status
    BY <1>4, <2>3, <2>7
  <2>12. k + 1 # 0 /\ y.last = buf[k + 1].n
    BY <2>7
  <2>13. Len(y.text) = m + (k + 1)
    BY <1>2, <2>7, <2>8
  <2>. QED BY <2>5, <2>7, <2>9, <2>10, <2>11, <2>12, <2>13
<1>. HIDE DEF Fine
<1>. PICK fine : fine = {k \in 0 .. len : Fine(k)}
  OBVIOUS
<1>5. len \in fine
  <2>1. 0 \in fine /\ \A k \in 0 .. len - 1 : k \in fine => k + 1 \in fine
    BY <1>3, <1>4
  <2>2. \A k \in 0 .. len : k \in fine
    BY <2>1, CountUp
  <2>. QED BY <2>2
<1>6. Fine(len)
  BY <1>5
<1>7. WrittenAll(d, buf) = f[len] /\ f[len] \in DB
  BY <1>1 DEF Writing
<1>. QED BY <1>6, <1>7 DEF Fine

-----------------------------------------------------------------------------
(* The cache                                                                *)

\* r is c, or a part of it, in its order, and possibly new at the end.
Continues(r, c, new) ==
  /\ \A i \in 1 .. Len(r) : r[i] = new \/ \E k \in 1 .. Len(c) : r[i] = c[k]
  /\ \A i, j \in 1 .. Len(r) : i < j =>
       /\ \E k \in 1 .. Len(c) : r[i] = c[k]
       /\ r[j] # new => \E k, l \in 1 .. Len(c) : k < l /\ r[i] = c[k] /\ r[j] = c[l]

LEMMA AppendedFacts ==
  ASSUME NEW c \in Seq(Cached), NEW n \in Nat, NEW frame \in Frame
  PROVE  /\ Appended(c, n, frame) \in Seq(Cached)
         /\ Continues(Appended(c, n, frame), c, [n |-> n, frame |-> frame])
<1>. PICK new \in Cached : new = [n |-> n, frame |-> frame]
  BY DEF Cached
<1>. PICK keep : keep = {k \in 1 .. Len(c) : c[k].n # n}
  OBVIOUS
<1>1. PICK p : p = Picked(c, keep)
  OBVIOUS
<1>2. p \in Seq(Cached) /\ Picks(p, c, keep, Len(c))
  BY <1>1, PickedFacts
<1>3. PICK r : r = Append(p, new)
  OBVIOUS
<1>4. r = Appended(c, n, frame)
  BY <1>1, <1>3 DEF Appended
<1>. PICK m \in Nat : m = Len(p)
  BY <1>2, LenProperties
<1>5. /\ r \in Seq(Cached) /\ Len(r) = m + 1 /\ r[m + 1] = new
      /\ \A i \in 1 .. m : r[i] = p[i]
  BY <1>2, <1>3, AppendProperties
<1>6. 1 .. Len(r) = (1 .. m) \cup {m + 1}
  BY <1>5
<1>7. \A i \in 1 .. m : \E k \in 1 .. Len(c) : r[i] = c[k]
  BY <1>2, <1>5 DEF Picks
<1>8. ASSUME NEW i \in 1 .. Len(r), NEW j \in 1 .. Len(r), i < j
      PROVE  /\ \E k \in 1 .. Len(c) : r[i] = c[k]
             /\ r[j] # new => \E k, l \in 1 .. Len(c) : k < l /\ r[i] = c[k] /\ r[j] = c[l]
  <2>1. i \in 1 .. m
    BY <1>5, <1>8
  <2>2. CASE j = m + 1
    BY <1>5, <1>7, <2>1, <2>2
  <2>3. CASE j \in 1 .. m
    <3>1. PICK k \in 1 .. Len(c), l \in 1 .. Len(c) : k < l /\ p[i] = c[k] /\ p[j] = c[l]
      BY <1>2, <1>8, <2>1, <2>3 DEF Picks
    <3>. QED BY <1>5, <2>1, <2>3, <3>1
  <2>. QED BY <1>6, <2>2, <2>3
<1>9. Continues(r, c, new)
  BY <1>5, <1>6, <1>7, <1>8, Zenon DEF Continues
<1>. QED BY <1>4, <1>5, <1>9

LEMMA CachedAfterFacts ==
  ASSUME NEW c \in Seq(Cached), NEW n \in Nat, NEW frame \in Frame
  PROVE  /\ CachedAfter(c, n, frame) \in Seq(Cached)
         /\ Len(CachedAfter(c, n, frame)) <= CacheLimit
         /\ Continues(CachedAfter(c, n, frame), c, [n |-> n, frame |-> frame])
<1>0. PICK new : new = [n |-> n, frame |-> frame]
  OBVIOUS
<1>1. PICK a \in Seq(Cached) : a = Appended(c, n, frame) /\ Continues(a, c, new)
  BY <1>0, AppendedFacts
<1>. PICK limit \in Nat \ {0} : limit = CacheLimit
  BY StreamAssumption
<1>. PICK m \in Nat : m = Len(a)
  OBVIOUS
<1>2. PICK size \in Nat : size = IF m > limit THEN limit ELSE m
  OBVIOUS
<1>3. size <= m /\ size <= limit
  BY <1>2
<1>4. PICK from \in Nat \ {0} : from = m + 1 - size /\ from <= m + 1
  <2>1. PICK x : x = m + 1 - size
    OBVIOUS
  <2>2. x \in Nat \ {0} /\ x <= m + 1
    BY <1>3, <2>1
  <2>. QED BY <2>1, <2>2
<1>5. PICK r : r = SubSeq(a, from, m)
  OBVIOUS
<1>6. r = CachedAfter(c, n, frame)
  BY <1>1, <1>2, <1>4, <1>5 DEF CachedAfter
<1>7. /\ r \in Seq(Cached) /\ Len(r) = size
      /\ \A i \in 1 .. size : r[i] = a[from + i - 1]
  <2>1. from \in 1 .. m + 1 /\ m \in from - 1 .. m /\ m - from + 1 = size
    BY <1>3, <1>4
  <2>2. \A i \in from .. m : a[i] \in Cached
    <3>1. \A i \in from .. m : i \in 1 .. Len(a)
      OBVIOUS
    <3>. QED BY <3>1, ElementOfSeq
  <2>. QED BY <1>5, <2>1, <2>2, SubSeqProperties
<1>8. \A i \in 1 .. size : from + i - 1 \in 1 .. Len(a)
  BY <1>3, <1>4
<1>9. \A i, j \in 1 .. size : i < j => from + i - 1 < from + j - 1
  OBVIOUS
<1>10. Continues(r, c, new)
  <2>1. ASSUME NEW i \in 1 .. Len(r) PROVE r[i] = new \/ \E k \in 1 .. Len(c) : r[i] = c[k]
    <3>. PICK p \in 1 .. Len(a) : p = from + i - 1
      BY <1>7, <1>8
    <3>1. r[i] = a[p]
      BY <1>7
    <3>2. a[p] = new \/ \E k \in 1 .. Len(c) : a[p] = c[k]
      BY <1>1, Zenon DEF Continues
    <3>. QED BY <3>1, <3>2
  <2>2. ASSUME NEW i \in 1 .. Len(r), NEW j \in 1 .. Len(r), i < j
        PROVE  /\ \E k \in 1 .. Len(c) : r[i] = c[k]
               /\ r[j] # new => \E k, l \in 1 .. Len(c) : k < l /\ r[i] = c[k] /\ r[j] = c[l]
    <3>. PICK p \in 1 .. Len(a), q \in 1 .. Len(a) : p = from + i - 1 /\ q = from + j - 1
      BY <1>7, <1>8
    <3>1. p < q /\ r[i] = a[p] /\ r[j] = a[q]
      BY <1>7, <1>9, <2>2
    <3>2. /\ \E k \in 1 .. Len(c) : a[p] = c[k]
          /\ a[q] # new => \E k, l \in 1 .. Len(c) : k < l /\ a[p] = c[k] /\ a[q] = c[l]
      BY <1>1, <3>1 DEF Continues
    <3>. QED BY <3>1, <3>2
  <2>. QED BY <2>1, <2>2 DEF Continues
<1>. QED BY <1>0, <1>3, <1>6, <1>7, <1>10

\* What is replayed, and the number the stream goes on from.
LEMMA ReplayedFacts ==
  ASSUME NEW c \in Seq(Cached), NEW cursor \in Nat
  PROVE  /\ Replayed(c, cursor) \in Seq(Cached)
         /\ cursor # 0 =>
              Picks(Replayed(c, cursor), c, {k \in 1 .. Len(c) : c[k].n > cursor}, Len(c))
         /\ cursor = 0 => Replayed(c, cursor) = <<>>
<1>1. CASE cursor = 0
  BY <1>1, EmptySeq DEF Replayed
<1>2. CASE cursor # 0
  BY <1>2, PickedFacts DEF Replayed
<1>. QED BY <1>1, <1>2

Top(todo) == CHOOSE n \in {e.n : e \in Images(todo)} : \A e \in Images(todo) : e.n <= n

LEMMA TopFacts ==
  ASSUME NEW todo \in Seq(Cached), todo # <<>>
  PROVE  /\ Top(todo) \in Nat
         /\ \A i \in 1 .. Len(todo) : todo[i].n <= Top(todo)
<1>. PICK len \in Nat : len = Len(todo)
  OBVIOUS
<1>1. \A i \in 1 .. len : todo[i].n \in Nat
  <2>1. \A i \in 1 .. Len(todo) : todo[i] \in Cached
    BY ElementOfSeq
  <2>. QED BY <2>1 DEF Cached
<1>2. len >= 1
  BY EmptySeq
<1>. PICK S : S = {k \in 0 .. len : k = 0 \/ \E i \in 1 .. k : \A j \in 1 .. k : todo[j].n <= todo[i].n}
  OBVIOUS
<1>3. len \in S
  <2>1. 0 \in S
    OBVIOUS
  <2>2. ASSUME NEW k \in 0 .. len - 1, k \in S PROVE k + 1 \in S
    <3>0. k \in Nat /\ k + 1 \in 1 .. len /\ k + 1 \in 0 .. len /\ 1 .. k + 1 = (1 .. k) \cup {k + 1}
      OBVIOUS
    <3>1. CASE k = 0
      <4>1. \A j \in 1 .. 1 : todo[j].n <= todo[1].n
        BY <1>1, <1>2
      <4>2. 1 \in 1 .. 1 /\ k + 1 = 1
        BY <3>1
      <4>. QED BY <3>0, <4>1, <4>2
    <3>2. CASE k # 0
      <4>1. PICK i \in 1 .. k : \A j \in 1 .. k : todo[j].n <= todo[i].n
        BY <2>2, <3>2
      <4>2. \A j \in 1 .. k : todo[j].n \in Nat
        BY <1>1, <3>0
      <4>3. todo[i].n \in Nat /\ todo[k + 1].n \in Nat
        BY <1>1, <3>0
      <4>4. CASE todo[k + 1].n <= todo[i].n
        <5>1. i \in 1 .. k + 1 /\ \A j \in 1 .. k + 1 : todo[j].n <= todo[i].n
          BY <3>0, <4>1, <4>4
        <5>. QED BY <3>0, <5>1
      <4>5. CASE ~ (todo[k + 1].n <= todo[i].n)
        <5>1. \A j \in 1 .. k + 1 : todo[j].n <= todo[k + 1].n
          <6>1. ASSUME NEW j \in 1 .. k PROVE todo[j].n <= todo[k + 1].n
            BY <4>1, <4>2, <4>3, <4>5
          <6>2. todo[k + 1].n <= todo[k + 1].n
            BY <4>3
          <6>. QED BY <3>0, <6>1, <6>2
        <5>2. k + 1 \in 1 .. k + 1
          BY <3>0
        <5>. QED BY <3>0, <5>1, <5>2
      <4>. QED BY <4>4, <4>5
    <3>. QED BY <3>1, <3>2
  <2>3. \A k \in 0 .. len : k \in S
    BY <2>1, <2>2, CountUp
  <2>4. len \in 0 .. len
    OBVIOUS
  <2>. QED BY <2>3, <2>4
<1>4. PICK i \in 1 .. len : \A j \in 1 .. len : todo[j].n <= todo[i].n
  BY <1>2, <1>3
<1>5. \A e \in Images(todo) : e.n <= todo[i].n
  BY <1>4 DEF Images
<1>6. todo[i].n \in {e.n : e \in Images(todo)}
  BY DEF Images
<1>7. Top(todo) \in {e.n : e \in Images(todo)} /\ \A e \in Images(todo) : e.n <= Top(todo)
  BY <1>5, <1>6 DEF Top
<1>8. PICK j \in 1 .. len : Top(todo) = todo[j].n
  BY <1>7 DEF Images
<1>9. \A k \in 1 .. len : todo[k] \in Images(todo)
  BY DEF Images
<1>. QED BY <1>1, <1>7, <1>8, <1>9

-----------------------------------------------------------------------------
(* Types                                                                    *)

LEMMA ReceivedFacts ==
  ASSUME NEW c \in Client, NEW frame \in Frame
  PROVE  LET r == Received(c, frame) IN
         /\ r \in Client /\ r.pc = c.pc
         /\ c.pc # "streaming" => r = c
         /\ c.pc = "streaming" => r.got = c.got \cup {frame.event}
         /\ r.cursor \in {c.cursor, frame.seen, frame.id}
         /\ c.pc = "streaming" /\ IsText(frame) /\ frame.id \notin c.ids =>
              r.shown = Append(c.shown, frame.event) /\ r.ids = c.ids \cup {frame.id}
         /\ ~ IsText(frame) => r.shown = c.shown /\ r.ids = c.ids
<1>. PICK r : r = Received(c, frame)
  OBVIOUS
<1>1. /\ c.cursor \in Nat /\ c.shown \in Seq(Event) /\ c.ids \in SUBSET Nat
      /\ c.got \in SUBSET Event
  BY DEF Client
<1>2. frame.event \in Event /\ frame.seen \in Nat /\ frame.id \in Nat
  BY DEF Frame
<1>3. PICK got \in SUBSET Event, ids \in SUBSET Nat, shown \in Seq(Event), reached \in Nat,
           cursor \in Nat :
        /\ got = c.got \cup {frame.event} /\ ids = c.ids \cup {frame.id}
        /\ shown = Append(c.shown, frame.event) /\ reached = Larger(c.cursor, frame.seen)
        /\ cursor = Larger(reached, frame.id)
  BY <1>1, <1>2, AppendProperties DEF Larger
<1>4. reached \in {c.cursor, frame.seen} /\ cursor \in {reached, frame.id}
  BY <1>3 DEF Larger
<1>5. CASE c.pc # "streaming"
  BY <1>5 DEF Received
<1>6. CASE c.pc = "streaming" /\ IsText(frame) /\ frame.id \notin c.ids
  <2>1. r = [c EXCEPT !.got = got, !.ids = ids, !.cursor = cursor, !.shown = shown]
    BY <1>3, <1>6 DEF Received
  <2>2. r \in Client
    BY <2>1 DEF Client
  <2>3. r.pc = c.pc /\ r.got = got /\ r.ids = ids /\ r.cursor = cursor /\ r.shown = shown
    BY <2>1 DEF Client
  <2>. QED BY <1>3, <1>4, <1>6, <2>2, <2>3
<1>7. CASE c.pc = "streaming" /\ ~ (IsText(frame) /\ frame.id \notin c.ids)
  <2>1. r = [c EXCEPT !.got = got, !.cursor = reached]
    BY <1>3, <1>7 DEF Received
  <2>2. r \in Client
    BY <2>1 DEF Client
  <2>3. r.pc = c.pc /\ r.got = got /\ r.ids = c.ids /\ r.cursor = reached /\ r.shown = c.shown
    BY <2>1 DEF Client
  <2>. QED BY <1>3, <1>4, <1>7, <2>2, <2>3
<1>. QED BY <1>5, <1>6, <1>7

LEMMA LeftFacts ==
  ASSUME NEW c \in Client, NEW pc \in {"recoverable", "failed", "done"}
  PROVE  LET r == Left(c, pc) IN
         /\ r \in Client /\ r.pc = IF c.pc = "streaming" THEN pc ELSE c.pc
         /\ r.cursor = c.cursor /\ r.shown = c.shown /\ r.ids = c.ids /\ r.got = c.got
<1>1. CASE c.pc = "streaming"
  <2>1. Left(c, pc) = [c EXCEPT !.pc = pc]
    BY <1>1 DEF Left
  <2>. QED BY <1>1, <2>1 DEF Client
<1>2. CASE c.pc # "streaming"
  BY <1>2 DEF Left
<1>. QED BY <1>1, <1>2

LEMMA WithHeaderFacts ==
  ASSUME NEW d \in DB
  PROVE  LET r == WithHeader(d) IN
         /\ r \in DB /\ r.text = d.text /\ r.open = d.open /\ r.last = d.last
         /\ r.status \in {d.status, "streaming"}
<1>1. CASE d.status = "none"
  <2>1. WithHeader(d) = [d EXCEPT !.status = "streaming"]
    BY <1>1 DEF WithHeader
  <2>. QED BY <2>1 DEF DB
<1>2. CASE d.status # "none"
  BY <1>2 DEF WithHeader
<1>. QED BY <1>1, <1>2

LEMMA WrittenAllType ==
  ASSUME NEW d \in DB, NEW buf \in Seq(Update)
  PROVE  WrittenAll(d, buf) \in DB /\ Kept(d, buf) \in Seq(Update)
                /\ (Kept(d, buf) = buf \/ Kept(d, buf) = <<>>)
<1>1. PICK f \in [0 .. Len(buf) -> DB] : Writing(f, d, buf)
  BY WrittenSteps
<1>2. Len(buf) \in 0 .. Len(buf)
  BY LenProperties
<1>3. WrittenAll(d, buf) \in DB
  BY <1>1, <1>2 DEF Writing
<1>. QED BY <1>3, EmptySeq DEF Kept


\* A question raises the cursor, and leaves the text alone.
LEMMA WithQuestionFacts ==
  ASSUME NEW d \in DB, NEW n \in Nat
  PROVE  LET r == WithQuestion(d, n) IN
         /\ r \in DB /\ r.text = d.text
         /\ r.last = (IF n <= d.last THEN d.last ELSE n) /\ r.last >= d.last
<1>1. d.last \in Nat
  BY DEF DB
<1>2. CASE n <= d.last
  BY <1>1, <1>2 DEF WithQuestion
<1>3. CASE ~ (n <= d.last)
  <2>1. WithQuestion(d, n) = [d EXCEPT !.asked = TRUE, !.open = FALSE, !.last = n]
    BY <1>3 DEF WithQuestion
  <2>2. n >= d.last
    BY <1>1, <1>3
  <2>. QED BY <1>3, <2>1, <2>2 DEF DB
<1>. QED BY <1>2, <1>3

\* The final block: only a message of no text gets one, the accumulated text.
LEMMA WithFinalBlockFacts ==
  ASSUME NEW d \in DB, NEW r \in StreamRun
  PROVE  LET x == WithFinalBlock(d, r) IN
         /\ x \in DB
         /\ \/ x = d
            \/ d.text = <<>> /\ r.acc # <<>> /\ x.text = r.acc /\ x.last = r.pseq
<1>1. r.acc \in Seq(Event) /\ r.pseq \in Nat
  BY DEF StreamRun
<1>2. r.acc \in Seq(Event \cup {ErrorEvent})
  BY <1>1
<1>. PICK t \in Seq(Event \cup {ErrorEvent}), n \in Nat : t = r.acc /\ n = r.pseq
  BY <1>1, <1>2
<1>3. CASE r.acc = <<>> \/ d.text # <<>> \/ d.asked
  BY <1>3 DEF WithFinalBlock
<1>4. CASE ~ (r.acc = <<>> \/ d.text # <<>> \/ d.asked)
  <2>1. WithFinalBlock(d, r) = [d EXCEPT !.text = t, !.open = FALSE, !.last = n]
    BY <1>4 DEF WithFinalBlock
  <2>2. [d EXCEPT !.text = t, !.open = FALSE, !.last = n] \in DB
    BY DEF DB
  <2>. QED BY <1>4, <2>1, <2>2 DEF DB
<1>. QED BY <1>3, <1>4

\* What is recorded: the outcome, and the accumulated text, that of the error or what was stored.
LEMMA RecordedFacts ==
  ASSUME NEW d \in DB, NEW r \in StreamRun
  PROVE  /\ Recorded(d, r) \in DB
         /\ Recorded(d, r).status = r.outcome
         /\ Recorded(d, r).text \in {r.acc, <<ErrorEvent>>, d.text}
         /\ r.outcome # "error" => Recorded(d, r).text \in {r.acc, d.text}
<1>1. /\ r.outcome \in {"none", "done", "interrupted", "error"} /\ r.acc \in Seq(Event)
      /\ d.open \in BOOLEAN /\ d.asked \in BOOLEAN /\ d.text \in Seq(Event \cup {ErrorEvent})
  BY DEF DB, StreamRun
<1>2. PICK t : t = Recorded(d, r).text
  OBVIOUS
<1>3. /\ t \in {r.acc, <<ErrorEvent>>, d.text}
      /\ r.outcome # "error" => t \in {r.acc, d.text}
  BY <1>2 DEF Recorded
<1>4. t \in Seq(Event \cup {ErrorEvent})
  <2>1. <<ErrorEvent>> \in Seq(Event \cup {ErrorEvent})
    OBVIOUS
  <2>2. r.acc \in Seq(Event \cup {ErrorEvent})
    BY <1>1
  <2>. QED BY <1>1, <1>3, <2>1, <2>2
<1>5. Recorded(d, r) = [status |-> r.outcome, last |-> 0, open |-> d.open, asked |-> d.asked,
                        text |-> t]
  BY <1>2 DEF Recorded
<1>6. Recorded(d, r) \in DB /\ Recorded(d, r).status = r.outcome
  BY <1>1, <1>4, <1>5 DEF DB
<1>. QED BY <1>2, <1>3, <1>6

TypeInv == StreamTypeOK /\ Places

Fields(r) ==
  /\ r.no \in 0 .. MaxRuns /\ r.kind \in {"sse", "ws"}
  /\ r.pc \in {"over", "replay", "reading", "relay", "flush", "final", "record"}
  /\ r.since \in 0 .. MaxRuns /\ r.ahead \in BOOLEAN /\ r.todo \in Seq(Cached)
  /\ r.seq \in Nat /\ r.pseq \in Nat /\ r.count \in Nat
  /\ r.buffer \in Seq(Update) /\ r.acc \in Seq(Event) /\ r.frame \in Frame
  /\ r.outcome \in {"none", "done", "interrupted", "error"}

LEMMA RunFields ==
  ASSUME NEW r \in StreamRun
  PROVE  Fields(r)
BY DEF Fields, StreamRun, Update

\* All but the place and the outcome stays.
Frozen ==
  /\ run'.no = run.no /\ run'.since = run.since /\ run'.todo = run.todo /\ run'.acc = run.acc
  /\ run'.seq = run.seq /\ run'.pseq = run.pseq /\ run'.count = run.count
  /\ run'.frame = run.frame /\ run'.ahead = run.ahead

\* The client's copy stays.
SameCopy ==
  /\ client'.cursor = client.cursor /\ client'.shown = client.shown
  /\ client'.ids = client.ids /\ client'.got = client.got

\* What the steps that only end something have in common.
Ending ==
  /\ run' \in StreamRun /\ client' \in Client
  /\ Frozen /\ run'.buffer = run.buffer /\ SameCopy
  /\ cache' = cache \/ (cache' = <<>> /\ run'.pc = "over")
  /\ run'.pc \in {run.pc, "flush", "over"}
  /\ run.pc = "over" => run'.pc = "over"
  /\ run'.pc = "flush" => run.pc \in {"flush", "reading"}
  /\ client'.pc \in {client.pc, "recoverable", "failed", "done"}
  /\ client.pc # "streaming" => client'.pc = client.pc

LEMMA LossSteps ==
  ASSUME TypeInv, LoseConnection \/ NoticeLoss \/ Crash
  PROVE  /\ Ending /\ db' = db /\ client'.pc # "streaming"
         /\ client'.pc = "done" => client.pc = "done"
<1>. USE DEF TypeInv, StreamTypeOK
<1>1. CASE LoseConnection
  <2>1. client' = [client EXCEPT !.pc = "recoverable"]
    BY <1>1 DEF LoseConnection
  <2>2. client' \in Client /\ SameCopy /\ client'.pc = "recoverable"
    BY <2>1 DEF Client, SameCopy
  <2>. QED BY <1>1, <2>2 DEF LoseConnection, Ending, Frozen
<1>2. CASE NoticeLoss
  <2>1. run' = [run EXCEPT !.pc = "over"]
    BY <1>2 DEF NoticeLoss
  <2>2. run' \in StreamRun /\ Frozen /\ run'.buffer = run.buffer /\ run'.pc = "over"
    BY <2>1 DEF StreamRun, Frozen
  <2>. QED BY <1>2, <2>2 DEF NoticeLoss, Ending, SameCopy
<1>3. CASE Crash
  <2>1. run' = [run EXCEPT !.pc = "over"]
    BY <1>3 DEF Crash
  <2>2. run' \in StreamRun /\ Frozen /\ run'.buffer = run.buffer /\ run'.pc = "over"
    BY <2>1 DEF StreamRun, Frozen
  <2>3. /\ client' \in Client /\ SameCopy
        /\ client'.pc = IF client.pc = "streaming" THEN "recoverable" ELSE client.pc
    BY <1>3, LeftFacts DEF Crash, SameCopy
  <2>. QED BY <1>3, <2>2, <2>3 DEF Crash, Ending
<1>. QED BY <1>1, <1>2, <1>3

LEMMA StreamStops ==
  ASSUME TypeInv, StreamEnds \/ StreamFails \/ HeartbeatFails
  PROVE  /\ Ending /\ db' = db /\ run.pc = "reading" /\ run'.pc = "flush"
         /\ client'.pc = "streaming" => run'.outcome = "done"
         /\ client'.pc # "done" \/ client'.pc = client.pc
<1>. USE DEF TypeInv, StreamTypeOK
<1>1. CASE StreamEnds
  <2>1. run' = [run EXCEPT !.pc = "flush", !.outcome = "done"]
    BY <1>1 DEF StreamEnds
  <2>2. /\ run' \in StreamRun /\ Frozen /\ run'.buffer = run.buffer /\ run'.pc = "flush"
        /\ run'.outcome = "done"
    BY <2>1 DEF StreamRun, Frozen
  <2>. QED BY <1>1, <2>2 DEF StreamEnds, Ending, SameCopy
<1>2. CASE StreamFails
  <2>1. run' = [run EXCEPT !.pc = "flush", !.outcome = "error"]
    BY <1>2 DEF StreamFails
  <2>2. /\ run' \in StreamRun /\ Frozen /\ run'.buffer = run.buffer /\ run'.pc = "flush"
        /\ run'.outcome = "error"
    BY <2>1 DEF StreamRun, Frozen
  <2>3. PICK pc \in {"failed", "recoverable"} : client' = Left(client, pc)
    BY <1>2 DEF StreamFails
  <2>4. /\ client' \in Client /\ SameCopy
        /\ client'.pc = IF client.pc = "streaming" THEN pc ELSE client.pc
    BY <2>3, LeftFacts DEF SameCopy
  <2>. QED BY <1>2, <2>2, <2>4 DEF StreamFails, Ending
<1>3. CASE HeartbeatFails
  <2>1. run' = [run EXCEPT !.pc = "flush", !.outcome = "interrupted"]
    BY <1>3 DEF HeartbeatFails
  <2>2. run' \in StreamRun /\ Frozen /\ run'.buffer = run.buffer /\ run'.pc = "flush"
    BY <2>1 DEF StreamRun, Frozen
  <2>. QED BY <1>3, <2>2 DEF HeartbeatFails, Ending, SameCopy
<1>. QED BY <1>1, <1>2, <1>3

LEMMA EndStores ==
  ASSUME TypeInv, EndFlush
  PROVE  /\ run' \in StreamRun /\ client' = client /\ cache' = cache
         /\ Frozen /\ run'.buffer = Kept(db, run.buffer)
         /\ run.pc = "flush" /\ run'.pc = "final" /\ run'.outcome = run.outcome
         /\ db' = WrittenAll(db, run.buffer) /\ db' \in DB
<1>1. db \in DB /\ run \in StreamRun /\ run.buffer \in Seq(Update)
  BY RunFields DEF TypeInv, StreamTypeOK, Fields
<1>2. PICK buf \in Seq(Update) : buf = Kept(db, run.buffer)
  BY <1>1, WrittenAllType
<1>3. run' = [run EXCEPT !.pc = "final", !.buffer = buf]
  BY <1>2 DEF EndFlush
<1>4. /\ run' \in StreamRun /\ Frozen /\ run'.buffer = buf /\ run'.pc = "final"
      /\ run'.outcome = run.outcome
  BY <1>1, <1>3 DEF StreamRun, Frozen, Update
<1>. QED BY <1>1, <1>2, <1>4, WrittenAllType DEF EndFlush

\* What the transaction before the record stores.
FinalBlock ==
  \/ db'.text = db.text /\ db'.last = db.last
  \/ db.text = <<>> /\ run.acc # <<>> /\ db'.text = run.acc /\ db'.last = run.pseq

LEMMA FinalBlockFacts ==
  ASSUME TypeInv, db' = WithFinalBlock(WithHeader(db), run)
  PROVE  db' \in DB /\ FinalBlock
<1>1. db \in DB /\ run \in StreamRun
  BY DEF TypeInv, StreamTypeOK
<1>2. PICK d \in DB : d = WithHeader(db) /\ d.text = db.text /\ d.last = db.last
  BY <1>1, WithHeaderFacts
<1>. QED BY <1>1, <1>2, WithFinalBlockFacts DEF FinalBlock

LEMMA EndCompletes ==
  ASSUME TypeInv, EndFinalBlock
  PROVE  /\ run' \in StreamRun /\ client' = client /\ cache' = cache
         /\ Frozen /\ run'.buffer = run.buffer
         /\ run.pc = "final" /\ run'.pc = "record" /\ run'.outcome = run.outcome
         /\ db' \in DB /\ FinalBlock
<1>1. run \in StreamRun
  BY DEF TypeInv, StreamTypeOK
<1>2. run' = [run EXCEPT !.pc = "record"]
  BY DEF EndFinalBlock
<1>3. /\ run' \in StreamRun /\ Frozen /\ run'.buffer = run.buffer /\ run'.pc = "record"
      /\ run'.outcome = run.outcome
  BY <1>1, <1>2 DEF StreamRun, Frozen
<1>. QED BY <1>3, FinalBlockFacts DEF EndFinalBlock

LEMMA EndRecords ==
  ASSUME TypeInv, EndRecord \/ \E applied \in BOOLEAN : EndFails(applied)
  PROVE  /\ Ending /\ run.pc \in {"flush", "final", "record"} /\ run'.pc = "over" /\ db' \in DB
         /\ \/ db' = db
            \/ run.pc = "flush" /\ db' = WrittenAll(db, run.buffer)
            \/ run.pc = "final" /\ FinalBlock
            \/ run.pc = "record" /\ db' = Recorded(db, run)
         /\ client'.pc # "streaming"
         /\ client'.pc = "done" /\ client.pc # "done" =>
              client.pc = "streaming" /\ run.pc = "record" /\ db' = Recorded(db, run)
<1>1. db \in DB /\ run \in StreamRun /\ run.buffer \in Seq(Update) /\ client \in Client
  BY RunFields DEF TypeInv, StreamTypeOK, Fields
<1>2. Recorded(db, run) \in DB /\ WrittenAll(db, run.buffer) \in DB
  BY <1>1, RecordedFacts, WrittenAllType
<1>3. /\ run' = [run EXCEPT !.pc = "over"] /\ cache' = cache
      /\ run.pc \in {"flush", "final", "record"}
  BY DEF EndRecord, EndFails
<1>4. run' \in StreamRun /\ Frozen /\ run'.buffer = run.buffer /\ run'.pc = "over"
  BY <1>1, <1>3 DEF StreamRun, Frozen
<1>5. CASE EndRecord
  <2>1. /\ client' \in Client /\ SameCopy
        /\ client'.pc = IF client.pc = "streaming" THEN "done" ELSE client.pc
    BY <1>1, <1>5, LeftFacts DEF EndRecord, SameCopy
  <2>2. run.pc = "record" /\ db' = Recorded(db, run)
    BY <1>5 DEF EndRecord
  <2>. QED BY <1>2, <1>3, <1>4, <2>1, <2>2 DEF Ending
<1>6. ASSUME NEW applied \in BOOLEAN, EndFails(applied)
      PROVE  /\ client' \in Client /\ SameCopy
             /\ client'.pc = IF client.pc = "streaming" THEN "recoverable" ELSE client.pc
             /\ db' \in DB
             /\ \/ db' = db
                \/ run.pc = "flush" /\ db' = WrittenAll(db, run.buffer)
                \/ run.pc = "final" /\ FinalBlock
                \/ run.pc = "record" /\ db' = Recorded(db, run)
  <2>1. /\ client' \in Client /\ SameCopy
        /\ client'.pc = IF client.pc = "streaming" THEN "recoverable" ELSE client.pc
    BY <1>1, <1>6, LeftFacts DEF EndFails, SameCopy
  <2>2. \/ db' = db
        \/ run.pc = "flush" /\ db' = WrittenAll(db, run.buffer)
        \/ run.pc = "final" /\ db' = WithFinalBlock(WithHeader(db), run)
        \/ run.pc = "record" /\ db' = Recorded(db, run)
    BY <1>3, <1>6 DEF EndFails, Ended
  <2>. QED BY <1>1, <1>2, <2>1, <2>2, FinalBlockFacts
<1>. QED BY <1>3, <1>4, <1>5, <1>6 DEF Ending

\* Reading an event: it is the next of its run.
Reading ==
  /\ run' \in StreamRun /\ db' \in DB /\ cache' = cache
  /\ run.pc = "reading" /\ run.no \in Nat \ {0} /\ run.count < MaxEvents
  /\ run'.no = run.no /\ run'.since = run.since /\ run'.todo = run.todo /\ run'.acc = run.acc
  /\ run'.seq = run.seq /\ run'.count = run.count + 1 /\ run'.ahead = run.ahead

\* It is handed on.
HandedOn(parts, u) ==
  /\ Reading /\ client' = client /\ run'.pc = "relay" /\ run'.outcome = run.outcome
  /\ run'.frame = ReadFrame(parts, u)

\* The update that a text adds to the buffer.
UpdateOf(open) == [n |-> run.pseq, event |-> <<run.no, run.count + 1>>, open |-> open]

LEMMA NextEvent ==
  ASSUME TypeInv, run.pc = "reading", run.count < MaxEvents
  PROVE  /\ <<run.no, run.count + 1>> \in Event
         /\ run.no \in Nat \ {0} /\ run.count \in Nat /\ run.pseq \in Nat
         /\ \A parts \in Shapes, u \in Upstream : LET frame == ReadFrame(parts, u) IN
              /\ frame \in Frame /\ frame.event = <<run.no, run.count + 1>>
              /\ IsText(frame) <=> "text" \in parts
              /\ "text" \in parts => frame.id = run.pseq
<1>1. run.no \in 0 .. MaxRuns /\ run.count \in Nat /\ run.pseq \in Nat
  BY RunFields DEF TypeInv, StreamTypeOK, Fields
<1>2. MaxRuns \in Nat /\ MaxEvents \in Nat
  BY StreamAssumption
<1>3. run.no \in 1 .. MaxRuns /\ run.count + 1 \in 1 .. MaxEvents
  BY <1>1, <1>2 DEF TypeInv, Places
<1>4. PICK e : e = <<run.no, run.count + 1>>
  OBVIOUS
<1>5. e \in Event
  BY <1>3, <1>4 DEF Event
<1>6. ASSUME NEW parts \in Shapes, NEW u \in Upstream
      PROVE  LET frame == ReadFrame(parts, u) IN
             /\ frame \in Frame /\ frame.event = e
             /\ IsText(frame) <=> "text" \in parts
             /\ "text" \in parts => frame.id = run.pseq
  <2>1. PICK seen \in Nat, id \in Nat :
          /\ seen = IF "status" \in parts THEN u ELSE 0
          /\ id = IF "text" \in parts THEN run.pseq ELSE 0
    BY <1>1, StreamAssumption
  <2>2. ReadFrame(parts, u) = [event |-> e, parts |-> parts, seen |-> seen, id |-> id]
    BY <1>4, <2>1 DEF ReadFrame
  <2>3. parts \in SUBSET Parts
    BY StreamAssumption
  <2>. QED BY <1>5, <2>1, <2>2, <2>3 DEF Frame, IsText
<1>. QED BY <1>1, <1>3, <1>4, <1>5, <1>6

\* The buffer and the next number with the text of the event, if it has one.
LEMMA BufferedFacts ==
  ASSUME TypeInv, run.pc = "reading", run.count < MaxEvents,
         NEW parts \in Shapes, NEW u \in Upstream
  PROVE  LET frame == ReadFrame(parts, u)
             buf == Buffered(frame)
         IN
         /\ buf \in Seq(Update) /\ NextNumber(frame) \in Nat
         /\ "text" \notin parts => buf = run.buffer /\ NextNumber(frame) = run.pseq
         /\ "text" \in parts =>
              /\ NextNumber(frame) = run.pseq + 1
              /\ \E open \in BOOLEAN :
                   UpdateOf(open) \in Update /\ buf = Append(run.buffer, UpdateOf(open))
<1>1. PICK frame \in Frame :
        /\ frame = ReadFrame(parts, u) /\ frame.event = <<run.no, run.count + 1>>
        /\ IsText(frame) <=> "text" \in parts
  BY NextEvent
<1>2. run.pseq \in Nat /\ run.buffer \in Seq(Update)
  BY RunFields DEF TypeInv, StreamTypeOK, Fields
<1>3. PICK open \in BOOLEAN : open = ("end" \notin frame.parts)
  OBVIOUS
<1>4. PICK new : new = UpdateOf(open)
  OBVIOUS
<1>5. new \in Update
  BY <1>2, <1>4, NextEvent DEF Update, UpdateOf
<1>6. CASE "text" \notin parts
  <2>1. Buffered(frame) = run.buffer /\ NextNumber(frame) = run.pseq
    BY <1>1, <1>6 DEF Buffered, NextNumber
  <2>. QED BY <1>1, <1>2, <1>6, <2>1
<1>7. CASE "text" \in parts
  <2>1. Buffered(frame) = Append(run.buffer, new) /\ NextNumber(frame) = run.pseq + 1
    BY <1>1, <1>3, <1>4, <1>7 DEF Buffered, NextNumber, UpdateOf
  <2>2. Append(run.buffer, new) \in Seq(Update)
    BY <1>2, <1>5, AppendProperties
  <2>. QED BY <1>1, <1>2, <1>4, <1>5, <1>7, <2>1, <2>2
<1>. QED BY <1>6, <1>7

\* What reading an event does to what is stored and to the buffer: nothing is stored, or all
\* of the buffer, and the numbers go on.
Storing(parts, u) ==
  LET frame == ReadFrame(parts, u)
      buf == Buffered(frame)
      r == WrittenAll(WithHeader(db), buf)
  IN
  /\ \/ db'.text = db.text /\ db'.last = db.last /\ run'.buffer \in {run.buffer, buf}
     \/ db'.text = r.text /\ db'.last >= r.last /\ run'.buffer \in {buf, <<>>}
  /\ \/ run'.pseq >= NextNumber(frame)
     \/ run'.pseq = run.pseq /\ run'.buffer = run.buffer

LEMMA StatusIsRead ==
  ASSUME TypeInv, NEW parts \in Shapes, NEW u \in Upstream, ReadStatus(parts, u)
  PROVE  /\ HandedOn(parts, u) /\ Storing(parts, u) /\ "text" \notin parts
         /\ db' = db /\ run'.pseq = run.pseq /\ run'.buffer = run.buffer
<1>1. run.pc = "reading" /\ run.count < MaxEvents /\ "text" \notin parts
  BY DEF ReadStatus
<1>2. PICK frame \in Frame : frame = ReadFrame(parts, u)
  BY <1>1, NextEvent
<1>3. PICK count \in Nat : count = run.count + 1
  BY <1>1, NextEvent
<1>4. run' = [run EXCEPT !.pc = "relay", !.count = count, !.frame = frame]
  BY <1>2, <1>3 DEF ReadStatus
<1>5. db \in DB /\ run \in StreamRun
  BY DEF TypeInv, StreamTypeOK
<1>6. /\ run' \in StreamRun /\ run'.no = run.no /\ run'.since = run.since /\ run'.todo = run.todo
      /\ run'.acc = run.acc /\ run'.seq = run.seq /\ run'.count = count /\ run'.pc = "relay"
      /\ run'.pseq = run.pseq /\ run'.buffer = run.buffer /\ run'.outcome = run.outcome
      /\ run'.frame = frame /\ run'.ahead = run.ahead
  BY <1>4, <1>5 DEF StreamRun
<1>7. db' = db /\ client' = client /\ cache' = cache
  BY DEF ReadStatus
<1>8. HandedOn(parts, u)
  BY <1>1, <1>2, <1>3, <1>5, <1>6, <1>7, NextEvent DEF Reading, HandedOn
<1>9. Storing(parts, u)
  BY <1>6, <1>7 DEF Storing
<1>. QED BY <1>1, <1>6, <1>7, <1>8, <1>9

LEMMA TextIsRead ==
  ASSUME TypeInv, NEW parts \in Shapes, NEW u \in Upstream, ReadText(parts, u)
  PROVE  LET frame == ReadFrame(parts, u)
             buf == Buffered(frame)
             d == WithHeader(db)
         IN
         /\ HandedOn(parts, u) /\ Storing(parts, u) /\ run'.pseq = NextNumber(frame)
         /\ \/ db' = d /\ run'.buffer = buf
            \/ db' = WrittenAll(d, buf) /\ run'.buffer = Kept(d, buf)
<1>1. run.pc = "reading" /\ run.count < MaxEvents
  BY DEF ReadText
<1>2. PICK frame \in Frame : frame = ReadFrame(parts, u)
  BY <1>1, NextEvent
<1>3. PICK count \in Nat : count = run.count + 1
  BY <1>1, NextEvent
<1>4. PICK buf \in Seq(Update), pseq \in Nat : buf = Buffered(frame) /\ pseq = NextNumber(frame)
  BY <1>1, <1>2, BufferedFacts
<1>5. db \in DB /\ run \in StreamRun
  BY DEF TypeInv, StreamTypeOK
<1>6. PICK d \in DB : d = WithHeader(db) /\ d.text = db.text /\ d.last = db.last
  BY <1>5, WithHeaderFacts
<1>7. PICK r \in DB, kept \in Seq(Update) :
        r = WrittenAll(d, buf) /\ kept = Kept(d, buf) /\ kept \in {buf, <<>>}
  BY WrittenAllType
<1>8. PICK left \in Seq(Update) : left = IF MustFlush(frame) THEN kept ELSE buf
  OBVIOUS
<1>9. /\ run' = [run EXCEPT !.pc = "relay", !.count = count, !.frame = frame, !.pseq = pseq,
                            !.buffer = left]
      /\ db' = IF MustFlush(frame) THEN r ELSE d
      /\ cache' = cache /\ client' = client
  BY <1>2, <1>3, <1>4, <1>6, <1>7, <1>8 DEF ReadText
<1>10. /\ run' \in StreamRun /\ run'.no = run.no /\ run'.since = run.since /\ run'.todo = run.todo
       /\ run'.acc = run.acc /\ run'.seq = run.seq /\ run'.count = count /\ run'.pc = "relay"
       /\ run'.pseq = pseq /\ run'.buffer = left /\ run'.outcome = run.outcome
       /\ run'.frame = frame /\ run'.ahead = run.ahead
  BY <1>5, <1>9 DEF StreamRun, Update
<1>11. HandedOn(parts, u)
  BY <1>1, <1>2, <1>3, <1>9, <1>10, NextEvent DEF Reading, HandedOn
<1>12. pseq >= pseq /\ r.last >= r.last
  BY DEF DB
<1>13. (db' = d /\ left = buf) \/ (db' = r /\ left = kept)
  <2>1. CASE MustFlush(frame)
    BY <1>8, <1>9, <2>1, Zenon
  <2>2. CASE ~ MustFlush(frame)
    BY <1>8, <1>9, <2>2, Zenon
  <2>. QED BY <2>1, <2>2
<1>14. Storing(parts, u)
  BY <1>2, <1>4, <1>6, <1>7, <1>10, <1>12, <1>13 DEF Storing
<1>. QED BY <1>2, <1>4, <1>6, <1>7, <1>10, <1>11, <1>13, <1>14

LEMMA QuestionIsRead ==
  ASSUME TypeInv, NEW parts \in Shapes, NEW u \in Upstream, ReadQuestion(parts, u)
  PROVE  LET frame == ReadFrame(parts, u)
             buf == Buffered(frame)
             d == WithHeader(db)
             n == NextNumber(frame)
             r == WrittenAll(d, buf)
         IN
         /\ HandedOn(parts, u) /\ Storing(parts, u)
         /\ db' = WithQuestion(r, n) /\ run'.buffer = Kept(d, buf)
         /\ run'.pseq = IF n <= r.last THEN n ELSE n + 1
<1>1. run.pc = "reading" /\ run.count < MaxEvents
  BY DEF ReadQuestion
<1>2. PICK frame \in Frame : frame = ReadFrame(parts, u)
  BY <1>1, NextEvent
<1>3. PICK count \in Nat : count = run.count + 1
  BY <1>1, NextEvent
<1>4. PICK buf \in Seq(Update), n \in Nat : buf = Buffered(frame) /\ n = NextNumber(frame)
  BY <1>1, <1>2, BufferedFacts
<1>5. db \in DB /\ run \in StreamRun
  BY DEF TypeInv, StreamTypeOK
<1>6. PICK d \in DB : d = WithHeader(db)
  BY <1>5, WithHeaderFacts
<1>7. PICK r \in DB, kept \in Seq(Update) :
        r = WrittenAll(d, buf) /\ kept = Kept(d, buf) /\ kept \in {buf, <<>>}
  BY WrittenAllType
<1>8. PICK pseq \in Nat : pseq = (IF n <= r.last THEN n ELSE n + 1) /\ pseq >= n
  OBVIOUS
<1>9. /\ run' = [run EXCEPT !.pc = "relay", !.count = count, !.frame = frame, !.pseq = pseq,
                            !.buffer = kept]
      /\ db' = WithQuestion(r, n)
      /\ cache' = cache /\ client' = client
  BY <1>2, <1>3, <1>4, <1>6, <1>7, <1>8 DEF ReadQuestion
<1>10. /\ run' \in StreamRun /\ run'.no = run.no /\ run'.since = run.since /\ run'.todo = run.todo
       /\ run'.acc = run.acc /\ run'.seq = run.seq /\ run'.count = count /\ run'.pc = "relay"
       /\ run'.pseq = pseq /\ run'.buffer = kept /\ run'.outcome = run.outcome
       /\ run'.frame = frame /\ run'.ahead = run.ahead
  BY <1>5, <1>9 DEF StreamRun, Update
<1>11. db' \in DB /\ db'.text = r.text /\ db'.last >= r.last
  BY <1>9, WithQuestionFacts
<1>12. HandedOn(parts, u)
  BY <1>1, <1>2, <1>3, <1>9, <1>10, <1>11, NextEvent DEF Reading, HandedOn
<1>13. Storing(parts, u)
  BY <1>2, <1>4, <1>6, <1>7, <1>8, <1>10, <1>11 DEF Storing
<1>. QED BY <1>2, <1>4, <1>6, <1>7, <1>8, <1>9, <1>10, <1>12, <1>13

LEMMA ReadingFails ==
  ASSUME TypeInv, NEW parts \in Shapes, NEW u \in Upstream, NEW applied \in BOOLEAN,
         ReadFails(parts, u, applied)
  PROVE  /\ Reading /\ Storing(parts, u) /\ client' \in Client /\ SameCopy /\ run'.pc = "flush"
         /\ client'.pc = IF client.pc = "streaming" THEN "failed" ELSE client.pc
<1>1. run.pc = "reading" /\ run.count < MaxEvents
  BY DEF ReadFails
<1>2. PICK frame \in Frame : frame = ReadFrame(parts, u)
  BY <1>1, NextEvent
<1>3. PICK count \in Nat : count = run.count + 1
  BY <1>1, NextEvent
<1>4. PICK buf \in Seq(Update), n \in Nat : buf = Buffered(frame) /\ n = NextNumber(frame)
  BY <1>1, <1>2, BufferedFacts
<1>5. /\ db \in DB /\ run \in StreamRun /\ client \in Client
      /\ run.buffer \in Seq(Update) /\ run.pseq \in Nat
  BY RunFields DEF TypeInv, StreamTypeOK, Fields
<1>6. PICK d \in DB : d = WithHeader(db) /\ d.text = db.text /\ d.last = db.last
  BY <1>5, WithHeaderFacts
<1>7. PICK r \in DB, kept \in Seq(Update) :
        r = WrittenAll(d, buf) /\ kept = Kept(d, buf) /\ kept \in {buf, <<>>}
  BY WrittenAllType
<1>8. PICK asked \in DB : asked = WithQuestion(r, n) /\ asked.text = r.text /\ asked.last >= r.last
  BY WithQuestionFacts
<1>9. n >= n /\ r.last >= r.last
  BY DEF DB
<1>. DEFINE Failed(left, next) ==
       run' = [run EXCEPT !.pc = "flush", !.count = count, !.pseq = next, !.buffer = left,
                          !.outcome = "error"]
<1>10. /\ \/ db' \in {d, db} /\ Failed(run.buffer, run.pseq)
          \/ db' \in {d, r} /\ Failed(buf, n)
          \/ db' \in {r, asked} /\ Failed(kept, n)
       /\ cache' = cache /\ client' = Left(client, "failed")
  BY <1>2, <1>3, <1>4, <1>6, <1>7, <1>8 DEF ReadFails
<1>11. ASSUME NEW left \in Seq(Update), NEW next \in Nat, Failed(left, next)
       PROVE  /\ run' \in StreamRun /\ run'.no = run.no /\ run'.since = run.since
              /\ run'.todo = run.todo /\ run'.acc = run.acc /\ run'.seq = run.seq
              /\ run'.count = count /\ run'.pc = "flush" /\ run'.pseq = next
              /\ run'.buffer = left /\ run'.ahead = run.ahead
  BY <1>5, <1>11 DEF StreamRun, Update
<1>. HIDE DEF Failed
<1>12. PICK left \in Seq(Update), next \in Nat :
         /\ Failed(left, next)
         /\ \/ db' \in {d, db} /\ left = run.buffer /\ next = run.pseq
            \/ db' \in {d, r} /\ left = buf /\ next = n
            \/ db' \in {r, asked} /\ left = kept /\ next = n
  BY <1>5, <1>10
<1>13. /\ run' \in StreamRun /\ run'.no = run.no /\ run'.since = run.since
       /\ run'.todo = run.todo /\ run'.acc = run.acc /\ run'.seq = run.seq
       /\ run'.count = count /\ run'.pc = "flush" /\ run'.pseq = next
       /\ run'.buffer = left /\ run'.ahead = run.ahead
  BY <1>11, <1>12
<1>14. db' \in DB
  BY <1>5, <1>12
<1>15. Reading
  BY <1>1, <1>3, <1>10, <1>13, <1>14, NextEvent DEF Reading
<1>16. /\ \/ db'.text = db.text /\ db'.last = db.last /\ left \in {run.buffer, buf}
          \/ db'.text = r.text /\ db'.last >= r.last /\ left \in {buf, <<>>}
       /\ next >= n \/ (next = run.pseq /\ left = run.buffer)
  BY <1>6, <1>7, <1>8, <1>9, <1>12
<1>17. Storing(parts, u)
  BY <1>2, <1>4, <1>6, <1>7, <1>13, <1>16 DEF Storing
<1>18. /\ client' \in Client /\ SameCopy
       /\ client'.pc = IF client.pc = "streaming" THEN "failed" ELSE client.pc
  BY <1>5, <1>10, LeftFacts DEF SameCopy
<1>. QED BY <1>13, <1>15, <1>17, <1>18

\* What sending an event leaves alone.
Sending ==
  /\ run' \in StreamRun /\ client' \in Client /\ db' = db
  /\ run'.no = run.no /\ run'.since = run.since /\ run'.count = run.count
  /\ run'.pseq = run.pseq /\ run'.buffer = run.buffer

\* An event is accumulated if it has text.
Accumulated(frame) ==
  IF IsText(frame) THEN Append(run.acc, frame.event) ELSE run.acc

LEMMA EventReplayed ==
  ASSUME TypeInv, Replay
  PROVE  /\ Sending /\ cache' = cache /\ run'.seq = run.seq /\ run'.frame = run.frame
         /\ run'.ahead = run.ahead
         /\ run'.outcome = run.outcome
         /\ run.pc = "replay" /\ Len(run.todo) \in Nat \ {0}
         /\ run'.pc = IF Len(run.todo) = 1 THEN "reading" ELSE "replay"
         /\ run'.todo \in Seq(Cached) /\ Len(run'.todo) = Len(run.todo) - 1
         /\ \A i \in 1 .. Len(run'.todo) : run'.todo[i] = run.todo[i + 1]
         /\ run.todo[1] \in Cached
         /\ run'.acc = Accumulated(run.todo[1].frame)
         /\ client' = Received(client, run.todo[1].frame)
<1>1. /\ run \in StreamRun /\ run.todo \in Seq(Cached) /\ run.todo # <<>> /\ run.acc \in Seq(Event)
      /\ client \in Client
  BY RunFields DEF TypeInv, StreamTypeOK, Places, Fields, Replay
<1>. PICK len \in Nat : len = Len(run.todo)
  BY <1>1, LenProperties
<1>2. /\ len # 0 /\ Head(run.todo) = run.todo[1] /\ Tail(run.todo) \in Seq(Cached)
      /\ Len(Tail(run.todo)) = len - 1
      /\ \A i \in 1 .. Len(Tail(run.todo)) : Tail(run.todo)[i] = run.todo[i + 1]
  BY <1>1, EmptySeq, HeadTailProperties
<1>3. PICK e \in Cached : e = run.todo[1]
  BY <1>1, <1>2, HeadTailProperties
<1>4. e.frame \in Frame /\ e.frame.event \in Event
  BY DEF Cached, Frame
<1>5. PICK acc \in Seq(Event) : acc = Accumulated(e.frame)
  BY <1>1, <1>4, AppendProperties DEF Accumulated
<1>6. PICK todo \in Seq(Cached) : todo = Tail(run.todo)
  BY <1>2
<1>7. PICK pc \in {"reading", "replay"} : pc = IF len = 1 THEN "reading" ELSE "replay"
  OBVIOUS
<1>8. run' = [run EXCEPT !.todo = todo, !.pc = pc, !.acc = acc]
  BY <1>2, <1>3, <1>5, <1>6, <1>7 DEF Replay, Accumulated
<1>9. /\ run' \in StreamRun /\ run'.no = run.no /\ run'.since = run.since /\ run'.count = run.count
      /\ run'.pseq = run.pseq /\ run'.buffer = run.buffer /\ run'.todo = todo /\ run'.acc = acc
      /\ run'.pc = pc /\ run'.seq = run.seq /\ run'.frame = run.frame
      /\ run'.outcome = run.outcome /\ run'.ahead = run.ahead
  BY <1>1, <1>8 DEF StreamRun
<1>10. client' = Received(client, e.frame) /\ client' \in Client
  BY <1>1, <1>2, <1>3, <1>4, ReceivedFacts DEF Replay
<1>11. db' = db /\ cache' = cache /\ run.pc = "replay"
  BY DEF Replay
<1>. QED BY <1>2, <1>3, <1>5, <1>6, <1>7, <1>9, <1>10, <1>11 DEF Sending

\* The event as it is sent.
Sent ==
  IF "status" \in run.frame.parts /\ run.frame.seen = 0
  THEN [run.frame EXCEPT !.seen = run.seq + 1] ELSE run.frame

LEMMA EventRelayed ==
  ASSUME TypeInv, NEW noticed \in BOOLEAN, Relay(noticed)
  PROVE  /\ Sending /\ run.pc = "relay" /\ run'.pc \in {"flush", "reading"}
         /\ run'.seq = run.seq + 1 /\ run'.todo = run.todo
         /\ Sent \in Frame /\ Sent.event = run.frame.event /\ Sent.id = run.frame.id
         /\ IsText(Sent) <=> IsText(run.frame)
         /\ ~ run'.ahead => ~ run.ahead /\ Sent.seen <= run.seq + 1 /\ Sent.id <= run.seq + 1
         /\ run'.acc = Accumulated(Sent)
         /\ client' = Received(client, Sent)
         /\ cache' \in {<<>>, CachedAfter(cache, run.seq + 1, Sent)}
         /\ client.pc = "streaming" =>
              run'.outcome = IF run'.pc = "flush" THEN "done" ELSE run.outcome
<1>1. run \in StreamRun /\ client \in Client /\ Fields(run)
  BY RunFields DEF TypeInv, StreamTypeOK
<1>2. PICK n \in Nat : n = run.seq + 1
  BY <1>1 DEF Fields
<1>3. PICK old \in Frame : old = run.frame
  BY <1>1 DEF Fields
<1>4. PICK sent : sent = Sent
  OBVIOUS
<1>5. sent \in Frame /\ sent.event = old.event /\ sent.parts = old.parts /\ sent.id = old.id
  <2>1. CASE "status" \in old.parts /\ old.seen = 0
    <3>1. sent = [old EXCEPT !.seen = n]
      BY <1>2, <1>3, <1>4, <2>1 DEF Sent
    <3>. QED BY <3>1 DEF Frame
  <2>2. CASE ~ ("status" \in old.parts /\ old.seen = 0)
    BY <1>3, <1>4, <2>2 DEF Sent
  <2>. QED BY <2>1, <2>2
<1>6. sent.event \in Event /\ sent.seen \in Nat /\ sent.id \in Nat
  BY <1>5 DEF Frame
<1>7. PICK acc \in Seq(Event) : acc = Accumulated(sent)
  BY <1>1, <1>6, AppendProperties DEF Accumulated, Fields
<1>. DEFINE final == "terminal" \in sent.parts
<1>8. PICK pc \in {"flush", "reading"} : pc = IF final \/ noticed THEN "flush" ELSE "reading"
  OBVIOUS
<1>9. PICK outcome \in {"none", "done", "interrupted", "error"} :
        outcome = IF noticed THEN IF run.kind = "ws" THEN "interrupted" ELSE "done"
                  ELSE IF final THEN "done" ELSE run.outcome
  BY <1>1 DEF Fields
<1>10. PICK ahead \in BOOLEAN : ahead = (run.ahead \/ Larger(sent.seen, sent.id) > n)
  OBVIOUS
<1>11. run.pc = "relay" /\ db' = db /\ (noticed => client.pc # "streaming")
  BY DEF Relay
<1>12. PICK none : none = NoFrame
  OBVIOUS
<1>13. none \in Frame
  <2>1. <<1, 1>> \in Event
    BY StreamAssumption DEF Event
  <2>. QED BY <1>12, <2>1 DEF NoFrame, Frame
<1>14. /\ run' = [run EXCEPT !.seq = n, !.frame = none, !.ahead = ahead, !.acc = acc, !.pc = pc,
                             !.outcome = outcome]
       /\ client' = Received(client, sent)
       /\ cache' = IF final THEN <<>> ELSE CachedAfter(cache, n, sent)
  BY <1>2, <1>3, <1>4, <1>7, <1>8, <1>9, <1>10, <1>12 DEF Relay, Sent, Accumulated
<1>15. /\ run' \in StreamRun /\ run'.no = run.no /\ run'.since = run.since /\ run'.count = run.count
       /\ run'.pseq = run.pseq /\ run'.buffer = run.buffer /\ run'.todo = run.todo /\ run'.acc = acc
       /\ run'.pc = pc /\ run'.seq = n /\ run'.outcome = outcome /\ run'.ahead = ahead
  BY <1>1, <1>13, <1>14 DEF StreamRun
<1>16. client' \in Client
  BY <1>1, <1>5, <1>14, ReceivedFacts
<1>17. client.pc = "streaming" => outcome = IF pc = "flush" THEN "done" ELSE run.outcome
  BY <1>8, <1>9, <1>11
<1>18. ~ ahead => ~ run.ahead /\ sent.seen <= n /\ sent.id <= n
  <2>1. ~ ahead => ~ run.ahead /\ ~ (Larger(sent.seen, sent.id) > n)
    BY <1>10, Zenon
  <2>2. ~ (Larger(sent.seen, sent.id) > n) => sent.seen <= n /\ sent.id <= n
    BY <1>6 DEF Larger
  <2>. QED BY <2>1, <2>2
<1>19. IsText(sent) <=> IsText(old)
  BY <1>5 DEF IsText
<1>. QED BY <1>2, <1>3, <1>4, <1>5, <1>7, <1>8, <1>11, <1>14, <1>15, <1>16, <1>17, <1>18, <1>19
         DEF Sending

\* A run begins.
Fresh ==
  /\ run' \in StreamRun /\ client' \in Client /\ db' = db /\ cache' = cache
  /\ client'.pc = "streaming" /\ client'.cursor = client.cursor /\ client'.shown = client.shown
  /\ client'.got = client.got
  /\ run'.count = 0 /\ run'.pseq = 1 /\ run'.buffer = <<>> /\ run'.acc = <<>>
  /\ run'.outcome = "none"

LEMMA NoRunIsOne ==
  /\ NoRun \in StreamRun /\ NoRun.no = 0 /\ NoRun.pc = "over" /\ NoRun.since = 0
  /\ NoRun.todo = <<>> /\ NoRun.seq = 0 /\ NoRun.pseq = 1 /\ NoRun.count = 0
  /\ NoRun.buffer = <<>> /\ NoRun.acc = <<>> /\ NoRun.outcome = "none"
<1>1. PICK none : none = NoFrame
  OBVIOUS
<1>2. none \in Frame
  <2>1. <<1, 1>> \in Event
    BY StreamAssumption DEF Event
  <2>. QED BY <1>1, <2>1 DEF NoFrame, Frame
<1>3. /\ <<>> \in Seq(Cached) /\ <<>> \in Seq(Update) /\ <<>> \in Seq(Event)
      /\ 0 \in 0 .. MaxRuns
  BY EmptySeq, StreamAssumption
<1>. QED BY <1>1, <1>2, <1>3 DEF NoRun, StreamRun, Update

LEMMA MessageSent ==
  ASSUME TypeInv, NEW kind \in Kinds, Send(kind)
  PROVE  /\ Fresh /\ client.pc = "idle" /\ client'.ids = client.ids
         /\ run'.no = 1 /\ run'.since = 1 /\ run'.pc = "reading" /\ run'.todo = <<>>
         /\ run'.seq = 0
<1>1. client \in Client
  BY DEF TypeInv, StreamTypeOK
<1>2. client' = [client EXCEPT !.pc = "streaming"] /\ client.pc = "idle"
  BY DEF Send
<1>3. /\ client' \in Client /\ client'.pc = "streaming" /\ client'.cursor = client.cursor
      /\ client'.shown = client.shown /\ client'.got = client.got /\ client'.ids = client.ids
  BY <1>1, <1>2 DEF Client
<1>4. PICK r \in StreamRun : r = NoRun
  BY NoRunIsOne
<1>5. run' = [r EXCEPT !.no = 1, !.kind = kind, !.pc = "reading", !.since = 1]
  BY <1>4 DEF Send
<1>6. 1 \in 0 .. MaxRuns /\ kind \in {"sse", "ws"}
  BY StreamAssumption
<1>7. /\ run' \in StreamRun /\ run'.no = 1 /\ run'.since = 1 /\ run'.pc = "reading"
      /\ run'.todo = r.todo /\ run'.seq = r.seq /\ run'.pseq = r.pseq /\ run'.count = r.count
      /\ run'.buffer = r.buffer /\ run'.acc = r.acc /\ run'.outcome = r.outcome
  BY <1>5, <1>6 DEF StreamRun
<1>. QED BY <1>2, <1>3, <1>4, <1>7, NoRunIsOne DEF Send, Fresh

LEMMA MessageResumed ==
  ASSUME TypeInv, NEW kind \in Kinds, Resume(kind)
  PROVE  /\ Fresh /\ client.pc = "recoverable" /\ client'.ids = {}
         /\ run.pc = "over" /\ run'.no = run.no + 1
         /\ run'.since = IF client.cursor = 0 THEN run.no + 1 ELSE run.since
         /\ run'.ahead = run.ahead
         /\ run'.todo = Replayed(cache, client.cursor) /\ run'.todo \in Seq(Cached)
         /\ run'.pc = IF run'.todo = <<>> THEN "reading" ELSE "replay"
         /\ run'.seq = IF run'.todo = <<>> THEN client.cursor ELSE Top(run'.todo)
<1>1. client \in Client /\ Fields(run) /\ cache \in Seq(Cached)
  BY RunFields DEF TypeInv, StreamTypeOK
<1>2. client.cursor \in Nat
  BY <1>1 DEF Client
<1>3. client' = [client EXCEPT !.pc = "streaming", !.ids = {}]
  BY DEF Resume
<1>4. /\ client' \in Client /\ client'.pc = "streaming" /\ client'.cursor = client.cursor
      /\ client'.shown = client.shown /\ client'.got = client.got /\ client'.ids = {}
  BY <1>1, <1>3 DEF Client
<1>5. PICK r \in StreamRun : r = NoRun
  BY NoRunIsOne
<1>6. PICK todo \in Seq(Cached) : todo = Replayed(cache, client.cursor)
  BY <1>1, <1>2, ReplayedFacts
<1>7. PICK top \in Nat : top = IF todo = <<>> THEN client.cursor ELSE Top(todo)
  BY <1>2, TopFacts
<1>8. PICK pc \in {"reading", "replay"} : pc = IF todo = <<>> THEN "reading" ELSE "replay"
  OBVIOUS
<1>9. PICK no \in 0 .. MaxRuns : no = run.no + 1
  <2>1. run.no < MaxRuns
    BY DEF Resume
  <2>2. run.no \in Nat /\ MaxRuns \in Nat
    BY <1>1, StreamAssumption DEF Fields
  <2>. QED BY <2>1, <2>2
<1>10. PICK since \in 0 .. MaxRuns : since = IF client.cursor = 0 THEN run.no + 1 ELSE run.since
  BY <1>1, <1>9 DEF Fields
<1>11. run' = [r EXCEPT !.no = no, !.kind = kind, !.todo = todo, !.pc = pc, !.since = since,
                        !.ahead = run.ahead, !.seq = top]
  BY <1>5, <1>6, <1>7, <1>8, <1>9, <1>10 DEF Resume, Top
<1>12. kind \in {"sse", "ws"} /\ run.ahead \in BOOLEAN
  BY <1>1, StreamAssumption DEF Fields
<1>13. /\ run' \in StreamRun /\ run'.no = no /\ run'.since = since /\ run'.pc = pc
       /\ run'.todo = todo /\ run'.seq = top /\ run'.pseq = r.pseq /\ run'.count = r.count
       /\ run'.buffer = r.buffer /\ run'.acc = r.acc /\ run'.outcome = r.outcome
       /\ run'.ahead = run.ahead
  BY <1>11, <1>12 DEF StreamRun
<1>14. db' = db /\ cache' = cache /\ client.pc = "recoverable" /\ run.pc = "over"
  BY DEF Resume
<1>. QED BY <1>4, <1>5, <1>6, <1>7, <1>8, <1>9, <1>10, <1>13, <1>14, NoRunIsOne DEF Fresh

LEMMA InitTypes == StreamInit => TypeInv
<1>. SUFFICES ASSUME StreamInit PROVE TypeInv
  OBVIOUS
<1>1. run \in StreamRun /\ run.pc = "over" /\ run.no = 0
  BY NoRunIsOne DEF StreamInit
<1>2. db \in DB /\ db.text = <<>> /\ db.last = 0
  <2>1. <<>> \in Seq(Event \cup {ErrorEvent})
    BY EmptySeq
  <2>. QED BY <2>1 DEF StreamInit, DB
<1>3. client \in Client /\ client.pc = "idle"
  <2>1. <<>> \in Seq(Event)
    BY EmptySeq
  <2>. QED BY <2>1 DEF StreamInit, Client
<1>4. cache \in Seq(Cached) /\ Len(cache) <= CacheLimit
  BY StreamAssumption, EmptySeq DEF StreamInit
<1>. QED BY <1>1, <1>2, <1>3, <1>4 DEF TypeInv, StreamTypeOK, Places

\* The cache after a step that adds nothing to it.
LEMMA NothingCached ==
  ASSUME TypeInv, cache' = cache \/ cache' = <<>>
  PROVE  cache' \in Seq(Cached) /\ Len(cache') <= CacheLimit
<1>1. <<>> \in Seq(Cached) /\ Len(<<>>) = 0 /\ 0 <= CacheLimit
  BY StreamAssumption
<1>2. cache \in Seq(Cached) /\ Len(cache) <= CacheLimit
  BY DEF TypeInv, StreamTypeOK
<1>. QED BY <1>1, <1>2

LEMMA EndingTypes ==
  ASSUME TypeInv, Ending, db' \in DB, client.pc = "idle" => db' = db
  PROVE  TypeInv'
<1>1. run' \in StreamRun /\ client' \in Client
  BY DEF Ending
<1>2. cache' \in Seq(Cached) /\ Len(cache') <= CacheLimit
  BY NothingCached DEF Ending
<1>3. Places'
  BY DEF TypeInv, Places, Ending, Frozen, Now
<1>. QED BY <1>1, <1>2, <1>3 DEF TypeInv, StreamTypeOK

LEMMA ReadingTypes ==
  ASSUME TypeInv, Reading, client' \in Client, client'.pc = client.pc \/ client'.pc = "failed",
         \/ run'.pc = "relay" /\ run'.frame.event = <<run.no, run.count + 1>>
         \/ run'.pc = "flush"
  PROVE  TypeInv'
<1>1. run' \in StreamRun /\ db' \in DB
  BY DEF Reading
<1>2. cache' \in Seq(Cached) /\ Len(cache') <= CacheLimit
  BY NothingCached DEF Reading
<1>3. run.no \in Nat \ {0} /\ client.pc # "idle" /\ run.todo = <<>>
  BY DEF Reading, TypeInv, Places
<1>4. Places'
  BY <1>3 DEF Places, Reading, Now
<1>. QED BY <1>1, <1>2, <1>4 DEF TypeInv, StreamTypeOK

LEMMA TypeStep == TypeInv /\ [StreamNext]_streamVars => TypeInv'
<1>. SUFFICES ASSUME TypeInv, [StreamNext]_streamVars PROVE TypeInv'
  OBVIOUS
<1>0. /\ db \in DB /\ run \in StreamRun /\ client \in Client /\ cache \in Seq(Cached)
      /\ Fields(run)
  BY RunFields DEF TypeInv, StreamTypeOK
<1>1. CASE UNCHANGED streamVars
  BY <1>1 DEF streamVars, TypeInv, StreamTypeOK, Places, Now
<1>2. ASSUME NEW kind \in Kinds, Send(kind) PROVE TypeInv'
  <2>1. cache' \in Seq(Cached) /\ Len(cache') <= CacheLimit
    BY <1>2, MessageSent, NothingCached DEF Fresh
  <2>2. Places'
    BY <1>2, MessageSent DEF Fresh, Places
  <2>. QED BY <1>0, <1>2, <2>1, <2>2, MessageSent DEF Fresh, TypeInv, StreamTypeOK
<1>3. ASSUME NEW kind \in Kinds, Resume(kind) PROVE TypeInv'
  <2>1. cache' \in Seq(Cached) /\ Len(cache') <= CacheLimit
    BY <1>3, MessageResumed, NothingCached DEF Fresh
  <2>2. Places'
    <3>1. run'.no >= 1 /\ client'.pc = "streaming"
      BY <1>0, <1>3, MessageResumed DEF Fresh, Fields
    <3>2. run'.pc = IF run'.todo = <<>> THEN "reading" ELSE "replay"
      BY <1>3, MessageResumed
    <3>. QED BY <3>1, <3>2 DEF Places
  <2>. QED BY <1>0, <1>3, <2>1, <2>2, MessageResumed DEF Fresh, TypeInv, StreamTypeOK
<1>4. CASE LoseConnection \/ NoticeLoss \/ Crash
  BY <1>0, <1>4, LossSteps, EndingTypes
<1>5. CASE StreamEnds \/ StreamFails \/ HeartbeatFails
  BY <1>0, <1>5, StreamStops, EndingTypes
<1>6. CASE EndRecord \/ \E applied \in BOOLEAN : EndFails(applied)
  <2>1. client.pc # "idle"
    BY <1>6, EndRecords DEF TypeInv, Places
  <2>. QED BY <1>6, <2>1, EndRecords, EndingTypes
<1>7. CASE EndFlush \/ EndFinalBlock
  <2>1. /\ run' \in StreamRun /\ client' = client /\ cache' = cache /\ Frozen /\ db' \in DB
        /\ run.pc \in {"flush", "final"} /\ run'.pc \in {"final", "record"}
    BY <1>7, EndStores, EndCompletes
  <2>2. Places'
    BY <2>1 DEF TypeInv, Places, Frozen
  <2>. QED BY <1>0, <2>1, <2>2, NothingCached DEF TypeInv, StreamTypeOK
<1>8. ASSUME NEW parts \in Shapes, NEW u \in Upstream,
             ReadStatus(parts, u) \/ ReadText(parts, u) \/ ReadQuestion(parts, u)
      PROVE  TypeInv'
  <2>1. HandedOn(parts, u)
    BY <1>8, StatusIsRead, TextIsRead, QuestionIsRead
  <2>2. run'.frame.event = <<run.no, run.count + 1>>
    BY <2>1, NextEvent DEF HandedOn, Reading
  <2>. QED BY <1>0, <2>1, <2>2, ReadingTypes DEF HandedOn
<1>10. ASSUME NEW parts \in Shapes, NEW u \in Upstream, NEW applied \in BOOLEAN,
              ReadFails(parts, u, applied)
       PROVE  TypeInv'
  BY <1>10, ReadingFails, ReadingTypes
<1>11. CASE Replay
  <2>1. cache' \in Seq(Cached) /\ Len(cache') <= CacheLimit
    BY <1>11, EventReplayed, NothingCached
  <2>2. client.pc # "idle" /\ run.no >= 1 /\ run.pc = "replay"
    BY <1>11, EventReplayed DEF TypeInv, Places
  <2>3. /\ run'.pc = "replay" => run'.todo # <<>>
        /\ run'.pc # "replay" => run'.pc = "reading" /\ run'.todo = <<>>
    <3>. PICK len \in Nat \ {0} : len = Len(run.todo)
      BY <1>11, EventReplayed
    <3>1. run'.todo \in Seq(Cached) /\ Len(run'.todo) = len - 1
      BY <1>11, EventReplayed
    <3>2. run'.pc = IF len = 1 THEN "reading" ELSE "replay"
      BY <1>11, EventReplayed
    <3>3. len = 1 <=> run'.todo = <<>>
      <4>. PICK todo \in Seq(Cached) : todo = run'.todo
        BY <3>1
      <4>1. todo = <<>> <=> Len(todo) = 0
        BY EmptySeq
      <4>2. len = 1 <=> Len(todo) = 0
        BY <3>1
      <4>. QED BY <4>1, <4>2
    <3>. QED BY <3>2, <3>3
  <2>4. client'.pc = client.pc
    BY <1>0, <1>11, EventReplayed, ReceivedFacts DEF Cached
  <2>5. Places'
    BY <1>11, <2>2, <2>3, <2>4, EventReplayed DEF Places, Sending
  <2>. QED BY <1>0, <1>11, <2>1, <2>5, EventReplayed DEF Sending, TypeInv, StreamTypeOK
<1>12. ASSUME NEW noticed \in BOOLEAN, Relay(noticed) PROVE TypeInv'
  <2>1. cache' \in Seq(Cached) /\ Len(cache') <= CacheLimit
    <3>1. CASE cache' = <<>>
      BY <3>1, NothingCached
    <3>2. CASE cache' = CachedAfter(cache, run.seq + 1, Sent)
      <4>. PICK n \in Nat, sent \in Frame : n = run.seq + 1 /\ sent = Sent
        BY <1>0, <1>12, EventRelayed DEF Fields
      <4>. QED BY <1>0, <3>2, CachedAfterFacts
    <3>. QED BY <1>12, <3>1, <3>2, EventRelayed
  <2>2. client.pc # "idle" /\ run.no >= 1 /\ run.pc = "relay" /\ run.todo = <<>>
    BY <1>12, EventRelayed DEF TypeInv, Places
  <2>3. client'.pc = client.pc
    BY <1>0, <1>12, EventRelayed, ReceivedFacts
  <2>4. Places'
    BY <1>12, <2>2, <2>3, EventRelayed DEF Places, Sending
  <2>. QED BY <1>0, <1>12, <2>1, <2>4, EventRelayed DEF Sending, TypeInv, StreamTypeOK
<1>. QED
  BY <1>1, <1>2, <1>3, <1>4, <1>5, <1>6, <1>7, <1>8, <1>10, <1>11, <1>12 DEF StreamNext

\* The variables keep their types.
THEOREM StreamTypes == StreamSpec => []StreamTypeOK
<1>1. StreamSpec => []TypeInv
  BY InitTypes, TypeStep, PTL DEF StreamSpec
<1>2. TypeInv => StreamTypeOK
  BY DEF TypeInv
<1>. QED BY <1>1, <1>2, PTL

-----------------------------------------------------------------------------
(* The order of what is sent and stored                                     *)

Pair == Nat \X Nat

LEMMA EventsArePairs ==
  /\ Event \subseteq Pair /\ ErrorEvent \in Pair /\ Event \cup {ErrorEvent} \subseteq Pair
  /\ \A e \in Event : e[1] >= 1
<1>. MaxRuns \in Nat /\ MaxEvents \in Nat
  BY StreamAssumption
<1>. QED BY DEF Pair, Event, ErrorEvent

LEMMA NowIsPair == TypeInv => Now \in Pair /\ run.no \in Nat /\ run.count \in Nat
BY RunFields, StreamAssumption DEF TypeInv, StreamTypeOK, Fields, Now, Pair

\* What precedes a place precedes the next ones.
LEMMA BeforeNext ==
  ASSUME NEW e \in Pair, NEW no \in Nat, NEW count \in Nat, UpTo(e, <<no, count>>)
  PROVE  /\ Before(e, <<no, count + 1>>) /\ UpTo(e, <<no, count + 1>>)
         /\ Before(e, <<no + 1, 0>>) /\ UpTo(e, <<no + 1, 0>>)
<1>1. e[1] \in Nat /\ e[2] \in Nat
  BY DEF Pair
<1>2. e[1] < no \/ (e[1] = no /\ e[2] <= count)
  BY <1>1 DEF UpTo, Before
<1>. QED BY <1>1, <1>2 DEF UpTo, Before

\* The elements of the sequences are pairs.
LEMMA ElementsArePairs ==
  ASSUME TypeInv
  PROVE  /\ \A i \in 1 .. Len(cache) : EventOf(cache[i]) \in Pair
         /\ \A i \in 1 .. Len(run.todo) : EventOf(run.todo[i]) \in Pair
         /\ \A i \in 1 .. Len(run.acc) : run.acc[i] \in Pair
         /\ \A i \in 1 .. Len(db.text) : db.text[i] \in Pair
         /\ \A i \in 1 .. Len(run.buffer) :
              run.buffer[i] \in Update /\ run.buffer[i].event \in Pair /\ run.buffer[i].n \in Nat
         /\ \A e \in client.got : e \in Pair
<1>1. /\ cache \in Seq(Cached) /\ run.todo \in Seq(Cached) /\ run.acc \in Seq(Event)
      /\ run.buffer \in Seq(Update) /\ client.got \in SUBSET Event
      /\ db.text \in Seq(Event \cup {ErrorEvent})
  BY RunFields DEF TypeInv, StreamTypeOK, Fields, Client, DB
<1>2. \A x \in Cached : EventOf(x) \in Event
  BY DEF Cached, Frame, EventOf
<1>3. \A x \in Update : x.event \in Event /\ x.n \in Nat
  BY DEF Update
<1>4. /\ \A i \in 1 .. Len(cache) : cache[i] \in Cached
      /\ \A i \in 1 .. Len(run.todo) : run.todo[i] \in Cached
      /\ \A i \in 1 .. Len(run.acc) : run.acc[i] \in Event
      /\ \A i \in 1 .. Len(db.text) : db.text[i] \in Event \cup {ErrorEvent}
      /\ \A i \in 1 .. Len(run.buffer) : run.buffer[i] \in Update
  BY <1>1, ElementOfSeq
<1>. QED BY <1>1, <1>2, <1>3, <1>4, EventsArePairs

\* What was reached stays reached, when nothing is sent.
LEMMA ReachedStays ==
  ASSUME TypeInv, SentSoFar, cache' = cache \/ cache' = <<>>,
         run'.acc = run.acc, run'.todo = run.todo, client'.got = client.got,
         \A e \in Pair : Reached(run.pc, Now, e) => Reached(run'.pc, Now', e)
  PROVE  SentSoFar'
<1>1. \A i \in 1 .. Len(cache') : Reached(run'.pc, Now', EventOf(cache'[i]))
  <2>1. CASE cache' = cache
    BY <2>1, ElementsArePairs DEF SentSoFar, EventOf
  <2>2. CASE cache' = <<>>
    BY <2>2
  <2>. QED BY <2>1, <2>2
<1>2. \A i \in 1 .. Len(run.acc) : Reached(run'.pc, Now', run.acc[i])
  BY ElementsArePairs DEF SentSoFar
<1>3. \A i \in 1 .. Len(run.todo) : Reached(run'.pc, Now', EventOf(run.todo[i]))
  BY ElementsArePairs DEF SentSoFar, EventOf
<1>4. \A e \in client.got : Reached(run'.pc, Now', e)
  BY ElementsArePairs DEF SentSoFar
<1>. QED BY <1>1, <1>2, <1>3, <1>4 DEF SentSoFar, EventOf

\* What was sent stays in its order, when nothing is sent.
LEMMA SentStays ==
  ASSUME SentInOrder, cache' = cache \/ cache' = <<>>, run'.acc = run.acc, run'.todo = run.todo
  PROVE  SentInOrder'
<1>1. EntriesInOrder(cache)'
  <2>1. CASE cache' = cache
    BY <2>1 DEF SentInOrder, EntriesInOrder, EventOf
  <2>2. CASE cache' = <<>>
    BY <2>2 DEF EntriesInOrder
  <2>. QED BY <2>1, <2>2
<1>2. EntriesInOrder(run.todo)' /\ InOrder(run.acc)'
  BY DEF SentInOrder, EntriesInOrder, InOrder, EventOf
<1>3. \A i \in 1 .. Len(run.acc), j \in 1 .. Len(run.todo) :
        Before(run.acc[i], EventOf(run.todo[j]))'
  BY DEF SentInOrder, EventOf, Before
<1>. QED BY <1>1, <1>2, <1>3 DEF SentInOrder

LEMMA EndingOrder ==
  ASSUME TypeInv, OrderInv, Ending,
         InOrder(db.text)', AllUpTo(db'.text, Now), run'.pc # "over" => db' = db
  PROVE  OrderInv'
<1>1. Now' = Now
  BY DEF Ending, Frozen, Now
<1>2. SentInOrder'
  BY SentStays DEF OrderInv, Ending, Frozen
<1>3. SentSoFar'
  <2>1. \A e \in Pair : Reached(run.pc, Now, e) => Reached(run'.pc, Now', e)
    BY <1>1 DEF Reached, Ending, UpTo
  <2>. QED BY <2>1, ReachedStays DEF OrderInv, Ending, Frozen, SameCopy
<1>4. BufferInOrder'
  BY <1>1 DEF OrderInv, BufferInOrder, Ending, Frozen, BufferFits
<1>5. StoredInOrder'
  <2>1. AllUpTo(db.text, Now)'
    BY <1>1 DEF AllUpTo
  <2>2. run'.pc # "over" => FreshFrom(db, run.buffer, 1)'
    BY DEF OrderInv, StoredInOrder, FreshFrom, Ending
  <2>. QED BY <2>1, <2>2 DEF StoredInOrder
<1>. QED BY <1>2, <1>3, <1>4, <1>5 DEF OrderInv

\* A final block holds what has been accumulated.
LEMMA FinalBlockOrder ==
  ASSUME TypeInv, OrderInv, run.pc = "final", FinalBlock
  PROVE  /\ InOrder(db'.text) /\ AllUpTo(db'.text, Now)
         /\ FreshFrom(db', run.buffer, 1)
<1>1. CASE db'.text = db.text /\ db'.last = db.last
  BY <1>1 DEF OrderInv, StoredInOrder, FreshFrom
<1>2. CASE db'.text = run.acc /\ db'.last = run.pseq
  <2>1. InOrder(run.acc) /\ AllUpTo(run.acc, Now)
    BY DEF OrderInv, SentInOrder, SentSoFar, Reached, AllUpTo
  <2>2. run.pseq \in Nat
    BY RunFields DEF TypeInv, StreamTypeOK, Fields
  <2>3. \A i \in 1 .. Len(run.buffer) : ~ (run.buffer[i].n > run.pseq)
    BY <2>2, ElementsArePairs DEF OrderInv, BufferInOrder
  <2>. QED BY <1>2, <2>1, <2>3 DEF FreshFrom
<1>. QED BY <1>1, <1>2 DEF FinalBlock

\* The text after a step that stores the buffer or records the outcome.
LEMMA EndRecordsOrder ==
  ASSUME TypeInv, OrderInv, EndRecord \/ \E applied \in BOOLEAN : EndFails(applied)
  PROVE  OrderInv'
<1>1. db \in DB /\ run \in StreamRun /\ run.buffer \in Seq(Update) /\ run.acc \in Seq(Event)
  BY RunFields DEF TypeInv, StreamTypeOK, Fields
<1>2. InOrder(db'.text) /\ AllUpTo(db'.text, Now)
  <2>1. CASE db' = db
    BY <2>1 DEF OrderInv, StoredInOrder
  <2>2. CASE run.pc = "flush" /\ db' = WrittenAll(db, run.buffer)
    BY <1>1, <2>2, WrittenAllInOrder DEF OrderInv, StoredInOrder, BufferInOrder
  <2>3. CASE run.pc = "record" /\ db' = Recorded(db, run)
    <3>1. CASE db'.text = run.acc
      BY <2>3, <3>1 DEF OrderInv, SentInOrder, SentSoFar, Reached, AllUpTo
    <3>2. CASE db'.text = <<ErrorEvent>>
      <4>1. Len(db'.text) = 1 /\ db'.text[1] = ErrorEvent
        BY <3>2
      <4>2. UpTo(ErrorEvent, Now)
        BY <2>3, NowIsPair DEF TypeInv, Places, UpTo, Before, ErrorEvent, Now
      <4>. QED BY <4>1, <4>2 DEF InOrder, AllUpTo
    <3>3. CASE db'.text = db.text
      BY <3>3 DEF OrderInv, StoredInOrder
    <3>. QED BY <1>1, <2>3, <3>1, <3>2, <3>3, RecordedFacts
  <2>4. CASE run.pc = "final" /\ FinalBlock
    BY <2>4, FinalBlockOrder
  <2>. QED BY <2>1, <2>2, <2>3, <2>4, EndRecords
<1>3. InOrder(db.text)'
  BY <1>2 DEF InOrder
<1>. QED BY <1>2, <1>3, EndRecords, EndingOrder

LEMMA EndStoresOrder ==
  ASSUME TypeInv, OrderInv, EndFlush
  PROVE  OrderInv'
<1>1. db \in DB /\ run \in StreamRun /\ run.buffer \in Seq(Update)
  BY RunFields DEF TypeInv, StreamTypeOK, Fields
<1>2. Now' = Now
  BY EndStores DEF Frozen, Now
<1>3. SentInOrder'
  BY EndStores, SentStays DEF OrderInv, Frozen
<1>4. SentSoFar'
  <2>1. \A e \in Pair : Reached(run.pc, Now, e) => Reached(run'.pc, Now', e)
    BY <1>2, EndStores DEF Reached, UpTo
  <2>. QED BY <2>1, EndStores, ReachedStays DEF OrderInv, Frozen
<1>5. /\ InOrder(db'.text) /\ AllUpTo(db'.text, Now) /\ Covered(db', run.buffer, Len(run.buffer))
      /\ db' \in DB
  BY <1>1, EndStores, WrittenAllInOrder DEF OrderInv, StoredInOrder, BufferInOrder
<1>6. run'.buffer = run.buffer \/ run'.buffer = <<>>
  BY <1>1, EndStores, WrittenAllType
<1>7. BufferInOrder'
  BY <1>2, <1>6, EndStores DEF OrderInv, BufferInOrder, BufferFits, Frozen
<1>8. FreshFrom(db', run'.buffer, 1)
  <2>1. CASE run'.buffer = run.buffer
    BY <1>1, <1>5, <2>1, ElementsArePairs DEF FreshFrom, Covered, DB
  <2>2. CASE run'.buffer = <<>>
    BY <2>2 DEF FreshFrom
  <2>. QED BY <1>6, <2>1, <2>2
<1>9. StoredInOrder'
  BY <1>2, <1>5, <1>8 DEF StoredInOrder, InOrder, AllUpTo, FreshFrom
<1>. QED BY <1>3, <1>4, <1>7, <1>9 DEF OrderInv

LEMMA EndCompletesOrder ==
  ASSUME TypeInv, OrderInv, EndFinalBlock
  PROVE  OrderInv'
<1>1. /\ client' = client /\ cache' = cache /\ Frozen /\ run'.buffer = run.buffer
      /\ run.pc = "final" /\ run'.pc = "record" /\ FinalBlock
  BY EndCompletes
<1>2. Now' = Now
  BY <1>1 DEF Frozen, Now
<1>3. SentInOrder'
  BY <1>1, SentStays DEF OrderInv, Frozen
<1>4. SentSoFar'
  <2>1. \A e \in Pair : Reached(run.pc, Now, e) => Reached(run'.pc, Now', e)
    BY <1>1, <1>2 DEF Reached, UpTo
  <2>. QED BY <1>1, <2>1, ReachedStays DEF OrderInv, Frozen
<1>5. BufferInOrder'
  BY <1>1, <1>2 DEF OrderInv, BufferInOrder, BufferFits, Frozen
<1>6. InOrder(db'.text) /\ AllUpTo(db'.text, Now) /\ FreshFrom(db', run.buffer, 1)
  BY <1>1, FinalBlockOrder
<1>7. StoredInOrder'
  BY <1>1, <1>2, <1>6 DEF StoredInOrder, InOrder, AllUpTo, FreshFrom
<1>. QED BY <1>3, <1>4, <1>5, <1>7 DEF OrderInv

\* A text that is read extends the buffer by the latest update.
LEMMA BufferGrows ==
  ASSUME TypeInv, OrderInv, Reading, NEW open \in BOOLEAN, UpdateOf(open) \in Update
  PROVE  LET buf == Append(run.buffer, UpdateOf(open)) IN
         /\ buf \in Seq(Update) /\ BufferFits(buf, Now')
         /\ \A i \in 1 .. Len(buf) : buf[i].n < run.pseq + 1
         /\ FreshFrom(WithHeader(db), buf, 1) /\ WithHeader(db) \in DB
         /\ InOrder(WithHeader(db).text) /\ AllUpTo(WithHeader(db).text, Now')
<1>0. /\ run.buffer \in Seq(Update) /\ run.pseq \in Nat /\ run.count \in Nat /\ run.no \in Nat
      /\ db \in DB
  BY RunFields, NowIsPair DEF TypeInv, StreamTypeOK, Fields
<1>1. PICK u \in Update : u = UpdateOf(open)
  OBVIOUS
<1>2. Now' = <<run.no, run.count + 1>> /\ u.event = Now' /\ u.n = run.pseq
  BY <1>1 DEF Reading, Now, UpdateOf
<1>3. \A e \in Pair : UpTo(e, Now) => Before(e, Now') /\ UpTo(e, Now')
  BY <1>0, <1>2, BeforeNext DEF Now
<1>4. PICK buf : buf = Append(run.buffer, u)
  OBVIOUS
<1>. PICK m \in Nat : m = Len(run.buffer)
  BY <1>0, LenProperties
<1>5. /\ buf \in Seq(Update) /\ Len(buf) = m + 1 /\ buf[m + 1] = u
      /\ \A i \in 1 .. m : buf[i] = run.buffer[i]
  BY <1>0, <1>4, AppendProperties
<1>6. 1 .. Len(buf) = (1 .. m) \cup {m + 1}
  BY <1>5
<1>7. \A i \in 1 .. m : buf[i].n \in Nat /\ buf[i].n < run.pseq /\ UpTo(buf[i].event, Now)
                        /\ buf[i].event \in Pair
  BY <1>5, ElementsArePairs DEF OrderInv, BufferInOrder, BufferFits
<1>8. BufferFits(buf, Now')
  <2>1. ASSUME NEW i \in 1 .. Len(buf), NEW j \in 1 .. Len(buf), i < j
        PROVE  buf[i].n < buf[j].n /\ Before(buf[i].event, buf[j].event)
    <3>1. i \in 1 .. m
      BY <1>5, <2>1
    <3>2. CASE j \in 1 .. m
      BY <1>5, <2>1, <3>1, <3>2 DEF OrderInv, BufferInOrder, BufferFits
    <3>3. CASE j = m + 1
      BY <1>2, <1>3, <1>5, <1>7, <3>1, <3>3
    <3>. QED BY <1>6, <3>2, <3>3
  <2>2. \A i \in 1 .. Len(buf) : UpTo(buf[i].event, Now')
    <3>1. \A i \in 1 .. m : UpTo(buf[i].event, Now')
      BY <1>3, <1>7
    <3>2. UpTo(u.event, Now')
      BY <1>2 DEF UpTo
    <3>. QED BY <1>5, <1>6, <3>1, <3>2
  <2>. QED BY <2>1, <2>2 DEF BufferFits
<1>9. \A i \in 1 .. Len(buf) : buf[i].n < run.pseq + 1
  <2>1. \A i \in 1 .. m : buf[i].n < run.pseq + 1
    BY <1>0, <1>7
  <2>2. buf[m + 1].n < run.pseq + 1
    BY <1>0, <1>2, <1>5
  <2>. QED BY <1>6, <2>1, <2>2
<1>10. PICK d \in DB : d = WithHeader(db) /\ d.text = db.text /\ d.last = db.last
  BY <1>0, WithHeaderFacts
<1>11. \A i \in 1 .. Len(db.text) : UpTo(db.text[i], Now') /\ Before(db.text[i], Now')
  BY <1>3, ElementsArePairs DEF OrderInv, StoredInOrder, AllUpTo
<1>12. FreshFrom(d, buf, 1)
  <2>1. ASSUME NEW k \in 1 .. Len(buf), NEW i \in 1 .. Len(db.text), buf[k].n > db.last
        PROVE  Before(db.text[i], buf[k].event)
    <3>1. CASE k \in 1 .. m
      BY <1>5, <2>1, <3>1 DEF OrderInv, StoredInOrder, FreshFrom, Reading
    <3>2. CASE k = m + 1
      BY <1>2, <1>5, <1>11, <3>2
    <3>. QED BY <1>6, <3>1, <3>2
  <2>. QED BY <1>10, <2>1 DEF FreshFrom
<1>13. InOrder(d.text) /\ AllUpTo(d.text, Now')
  BY <1>10, <1>11 DEF OrderInv, StoredInOrder, AllUpTo
<1>. QED BY <1>1, <1>4, <1>5, <1>8, <1>9, <1>10, <1>12, <1>13

\* After a step that reads an event, given what it does to the buffer and the text.
LEMMA ReadingOrder ==
  ASSUME TypeInv, OrderInv, Reading, client'.got = client.got,
         run'.pc = "relay" \/ run'.pc = "flush",
         BufferFits(run'.buffer, Now'), \A i \in 1 .. Len(run'.buffer) : run'.buffer[i].n < run'.pseq,
         InOrder(db'.text), AllUpTo(db'.text, Now'), FreshFrom(db', run'.buffer, 1)
  PROVE  OrderInv'
<1>1. SentInOrder'
  BY SentStays DEF OrderInv, Reading
<1>2. SentSoFar'
  <2>1. \A e \in Pair : UpTo(e, Now) => Before(e, Now') /\ UpTo(e, Now')
    BY NowIsPair, BeforeNext DEF Now, Reading
  <2>2. \A e \in Pair : Reached(run.pc, Now, e) => Reached(run'.pc, Now', e)
    BY <2>1 DEF Reached, Reading
  <2>. QED BY <2>2, ReachedStays DEF OrderInv, Reading
<1>3. BufferInOrder'
  BY DEF BufferInOrder, BufferFits
<1>4. StoredInOrder'
  BY DEF StoredInOrder, InOrder, AllUpTo, FreshFrom
<1>. QED BY <1>1, <1>2, <1>3, <1>4 DEF OrderInv

\* The buffer with or without a new update, and the text, before anything is stored.
LEMMA BufferedOrder ==
  ASSUME TypeInv, OrderInv, Reading, NEW parts \in Shapes, NEW u \in Upstream
  PROVE  LET frame == ReadFrame(parts, u)
             buf == Buffered(frame)
             d == WithHeader(db)
         IN
         /\ buf \in Seq(Update) /\ d \in DB /\ d.text = db.text /\ d.last = db.last
         /\ BufferFits(buf, Now') /\ BufferFits(run.buffer, Now')
         /\ \A i \in 1 .. Len(buf) : buf[i].n < NextNumber(frame)
         /\ FreshFrom(d, buf, 1) /\ FreshFrom(d, run.buffer, 1)
         /\ InOrder(d.text) /\ AllUpTo(d.text, Now')
<1>0. run.pc = "reading" /\ run.count < MaxEvents
  BY DEF Reading
<1>1. \A e \in Pair : UpTo(e, Now) => UpTo(e, Now')
  BY NowIsPair, BeforeNext DEF Now, Reading
<1>2. db \in DB
  BY DEF TypeInv, StreamTypeOK
<1>3. PICK d \in DB : d = WithHeader(db) /\ d.text = db.text /\ d.last = db.last
  BY <1>2, WithHeaderFacts
<1>4. PICK buf \in Seq(Update), n \in Nat :
        /\ buf = Buffered(ReadFrame(parts, u)) /\ n = NextNumber(ReadFrame(parts, u))
        /\ "text" \notin parts => buf = run.buffer /\ n = run.pseq
        /\ "text" \in parts =>
             /\ n = run.pseq + 1
             /\ \E open \in BOOLEAN :
                  UpdateOf(open) \in Update /\ buf = Append(run.buffer, UpdateOf(open))
  BY <1>0, BufferedFacts
<1>5. BufferFits(run.buffer, Now')
  BY <1>1, ElementsArePairs DEF OrderInv, BufferInOrder, BufferFits
<1>6. InOrder(d.text) /\ AllUpTo(d.text, Now')
  BY <1>1, <1>3, ElementsArePairs DEF OrderInv, StoredInOrder, AllUpTo
<1>7. FreshFrom(d, run.buffer, 1)
  BY <1>0, <1>3 DEF OrderInv, StoredInOrder, FreshFrom
<1>8. CASE "text" \notin parts
  <2>1. \A i \in 1 .. Len(buf) : buf[i].n < n
    BY <1>4, <1>8 DEF OrderInv, BufferInOrder
  <2>. QED BY <1>3, <1>4, <1>5, <1>6, <1>7, <1>8, <2>1
<1>9. CASE "text" \in parts
  <2>1. PICK open \in BOOLEAN :
          UpdateOf(open) \in Update /\ buf = Append(run.buffer, UpdateOf(open))
    BY <1>4, <1>9
  <2>2. /\ BufferFits(buf, Now') /\ \A i \in 1 .. Len(buf) : buf[i].n < n
        /\ FreshFrom(d, buf, 1)
    BY <1>3, <1>4, <1>9, <2>1, BufferGrows
  <2>. QED BY <1>3, <1>4, <1>5, <1>6, <1>7, <2>2
<1>. QED BY <1>8, <1>9

LEMMA StoringOrder ==
  ASSUME TypeInv, OrderInv, Reading, client'.got = client.got, run'.pc = "relay" \/ run'.pc = "flush",
         NEW parts \in Shapes, NEW u \in Upstream, Storing(parts, u)
  PROVE  OrderInv'
<1>0. run.pc = "reading" /\ run.count < MaxEvents
  BY DEF Reading
<1>. PICK now : now = Now'
  OBVIOUS
<1>1. PICK d \in DB : d = WithHeader(db)
  BY BufferedOrder
<1>2. PICK buf \in Seq(Update), n \in Nat :
        buf = Buffered(ReadFrame(parts, u)) /\ n = NextNumber(ReadFrame(parts, u))
  BY <1>0, BufferedFacts
<1>3. /\ d.text = db.text /\ d.last = db.last
      /\ BufferFits(buf, now) /\ BufferFits(run.buffer, now)
      /\ \A i \in 1 .. Len(buf) : buf[i].n < n
      /\ FreshFrom(d, buf, 1) /\ FreshFrom(d, run.buffer, 1)
      /\ InOrder(d.text) /\ AllUpTo(d.text, now)
  BY <1>1, <1>2, BufferedOrder
<1>4. PICK r \in DB : r = WrittenAll(d, buf)
  BY WrittenAllType
<1>5. InOrder(r.text) /\ AllUpTo(r.text, now) /\ Covered(r, buf, Len(buf))
  BY <1>3, <1>4, WrittenAllInOrder
<1>6. /\ \/ db'.text = d.text /\ db'.last = d.last /\ run'.buffer \in {run.buffer, buf}
         \/ db'.text = r.text /\ db'.last >= r.last /\ run'.buffer \in {buf, <<>>}
      /\ \/ run'.pseq >= n
         \/ run'.pseq = run.pseq /\ run'.buffer = run.buffer
  BY <1>1, <1>2, <1>3, <1>4 DEF Storing
<1>7. run'.pseq \in Nat /\ db'.last \in Nat /\ r.last \in Nat /\ run.pseq \in Nat
  BY RunFields DEF Reading, TypeInv, StreamTypeOK, Fields, DB
<1>8. \A i \in 1 .. Len(buf) : buf[i].n \in Nat
  <2>1. \A i \in 1 .. Len(buf) : buf[i] \in Update
    BY ElementOfSeq
  <2>. QED BY <2>1 DEF Update
<1>9. BufferFits(run'.buffer, now)
  <2>1. BufferFits(<<>>, now)
    BY DEF BufferFits
  <2>. QED BY <1>3, <1>6, <2>1
<1>10. \A i \in 1 .. Len(run'.buffer) : run'.buffer[i].n < run'.pseq
  <2>1. CASE run'.buffer = run.buffer /\ run'.pseq = run.pseq
    BY <2>1 DEF OrderInv, BufferInOrder
  <2>2. CASE run'.buffer = run.buffer /\ run'.pseq >= n
    <3>1. n >= run.pseq
      BY <1>0, <1>2, <1>7, BufferedFacts
    <3>. QED BY <1>7, <2>2, <3>1, ElementsArePairs DEF OrderInv, BufferInOrder
  <2>3. CASE run'.buffer = buf /\ run'.pseq >= n
    BY <1>3, <1>7, <1>8, <2>3
  <2>4. CASE run'.buffer = <<>>
    BY <2>4
  <2>. QED BY <1>6, <2>1, <2>2, <2>3, <2>4
<1>11. InOrder(db'.text) /\ AllUpTo(db'.text, now) /\ FreshFrom(db', run'.buffer, 1)
  <2>1. CASE db'.text = d.text /\ db'.last = d.last /\ run'.buffer \in {run.buffer, buf}
    BY <1>3, <2>1 DEF FreshFrom
  <2>2. CASE db'.text = r.text /\ db'.last >= r.last /\ run'.buffer \in {buf, <<>>}
    <3>1. \A i \in 1 .. Len(buf) : ~ (buf[i].n > db'.last)
      BY <1>5, <1>7, <1>8, <2>2 DEF Covered
    <3>2. FreshFrom(db', buf, 1)
      BY <3>1 DEF FreshFrom
    <3>3. FreshFrom(db', <<>>, 1)
      BY DEF FreshFrom
    <3>. QED BY <1>5, <2>2, <3>2, <3>3
  <2>. QED BY <1>6, <2>1, <2>2
<1>. QED BY <1>1, <1>9, <1>10, <1>11, ReadingOrder

LEMMA ReplayOrder ==
  ASSUME TypeInv, OrderInv, Replay
  PROVE  OrderInv'
<1>0. run.todo \in Seq(Cached) /\ run.acc \in Seq(Event) /\ client \in Client
  BY RunFields DEF TypeInv, StreamTypeOK, Fields
<1>. PICK e \in Cached : e = run.todo[1]
  BY EventReplayed
<1>. PICK len \in Nat \ {0}, m \in Nat : len = Len(run.todo) /\ m = Len(run.acc)
  BY <1>0, EventReplayed, LenProperties
<1>1. /\ run.pc = "replay" /\ run'.pc # "relay" /\ run'.pc # "over" /\ cache' = cache
      /\ Sending /\ run'.frame = run.frame
  BY EventReplayed
<1>2. Now' = Now /\ db' = db /\ run'.buffer = run.buffer /\ run'.pseq = run.pseq
  BY <1>1 DEF Sending, Now
<1>3. Len(run'.todo) = len - 1 /\ \A i \in 1 .. Len(run'.todo) : run'.todo[i] = run.todo[i + 1]
  BY EventReplayed
<1>4. \A i \in 1 .. Len(run'.todo) : i \in Nat /\ i + 1 \in 1 .. len /\ 1 < i + 1
  BY <1>3
<1>5. 1 \in 1 .. len
  OBVIOUS
<1>6. e.frame.event \in Event
  BY DEF Cached, Frame
<1>7. /\ UpTo(EventOf(e), Now) /\ \A i \in 1 .. m : UpTo(run.acc[i], Now)
      /\ \A i \in 1 .. len : UpTo(EventOf(run.todo[i]), Now)
      /\ \A i \in 1 .. Len(cache) : UpTo(EventOf(cache[i]), Now)
      /\ \A x \in client.got : UpTo(x, Now)
  BY <1>1, <1>5 DEF OrderInv, SentSoFar, Reached
\* acc' is acc, or ends with the event replayed
<1>8. \/ run'.acc = run.acc
      \/ /\ Len(run'.acc) = m + 1 /\ run'.acc[m + 1] = EventOf(e)
         /\ \A i \in 1 .. m : run'.acc[i] = run.acc[i]
  <2>1. run'.acc = run.acc \/ run'.acc = Append(run.acc, e.frame.event)
    BY EventReplayed DEF Accumulated
  <2>. QED BY <1>0, <1>6, <2>1, AppendProperties DEF EventOf
<1>9. /\ \A i \in 1 .. m : Before(run.acc[i], EventOf(e))
      /\ \A i \in 1 .. m, j \in 1 .. len : Before(run.acc[i], EventOf(run.todo[j]))
      /\ \A j \in 1 .. len : 1 < j => Before(EventOf(e), EventOf(run.todo[j]))
  BY <1>5 DEF OrderInv, SentInOrder, EntriesInOrder
<1>10. InOrder(run'.acc)
  <2>1. CASE run'.acc = run.acc
    BY <2>1 DEF OrderInv, SentInOrder
  <2>2. CASE run'.acc # run.acc
    <3>1. 1 .. m + 1 = (1 .. m) \cup {m + 1}
      OBVIOUS
    <3>2. ASSUME NEW i \in 1 .. m + 1, NEW j \in 1 .. m + 1, i < j
          PROVE  Before(run'.acc[i], run'.acc[j])
      <4>1. i \in 1 .. m
        BY <3>2
      <4>2. CASE j \in 1 .. m
        BY <1>8, <2>2, <3>2, <4>1, <4>2 DEF OrderInv, SentInOrder, InOrder
      <4>3. CASE j = m + 1
        BY <1>8, <1>9, <2>2, <4>1, <4>3
      <4>. QED BY <3>1, <4>2, <4>3
    <3>. QED BY <1>8, <2>2, <3>2 DEF InOrder
  <2>. QED BY <2>1, <2>2
<1>11. EntriesInOrder(run'.todo)
  <2>1. ASSUME NEW i \in 1 .. Len(run'.todo), NEW j \in 1 .. Len(run'.todo), i < j
        PROVE  Before(EventOf(run'.todo[i]), EventOf(run'.todo[j]))
    <3>1. i + 1 \in 1 .. len /\ j + 1 \in 1 .. len /\ i + 1 < j + 1
      BY <1>3, <2>1
    <3>. QED BY <1>3, <3>1 DEF OrderInv, SentInOrder, EntriesInOrder
  <2>. QED BY <2>1 DEF EntriesInOrder
<1>12. \A i \in 1 .. Len(run'.acc), j \in 1 .. Len(run'.todo) :
         Before(run'.acc[i], EventOf(run'.todo[j]))
  <2>1. \A i \in 1 .. m, j \in 1 .. Len(run'.todo) : Before(run.acc[i], EventOf(run'.todo[j]))
    BY <1>3, <1>4, <1>9
  <2>2. \A j \in 1 .. Len(run'.todo) : Before(EventOf(e), EventOf(run'.todo[j]))
    BY <1>3, <1>4, <1>9
  <2>3. 1 .. m + 1 = (1 .. m) \cup {m + 1}
    OBVIOUS
  <2>. QED BY <1>8, <2>1, <2>2, <2>3
<1>13. SentInOrder'
  <2>1. EntriesInOrder(cache)'
    BY <1>1 DEF OrderInv, SentInOrder, EntriesInOrder, EventOf
  <2>. QED BY <1>10, <1>11, <1>12, <2>1 DEF SentInOrder, EntriesInOrder, InOrder, EventOf
<1>14. SentSoFar'
  <2>1. \A i \in 1 .. Len(run'.acc) : UpTo(run'.acc[i], Now)
    <3>1. 1 .. m + 1 = (1 .. m) \cup {m + 1}
      OBVIOUS
    <3>. QED BY <1>7, <1>8, <3>1
  <2>2. \A i \in 1 .. Len(run'.todo) : UpTo(EventOf(run'.todo[i]), Now)
    BY <1>3, <1>4, <1>7
  <2>3. \A x \in client'.got : UpTo(x, Now)
    <3>1. PICK f \in Frame : f = e.frame /\ f.event = EventOf(e)
      BY DEF Cached, EventOf
    <3>2. client \in Client /\ client' = Received(client, f)
      BY <1>0, <3>1, EventReplayed DEF TypeInv, StreamTypeOK
    <3>3. client' = client \/ client'.got = client.got \cup {f.event}
      BY <3>2, ReceivedFacts
    <3>4. client'.got = client.got \/ client'.got = client.got \cup {EventOf(e)}
      BY <3>1, <3>3
    <3>. QED BY <1>7, <3>4
  <2>. QED BY <1>1, <1>2, <1>7, <2>1, <2>2, <2>3 DEF SentSoFar, Reached, EventOf
<1>15. BufferInOrder'
  BY <1>2 DEF OrderInv, BufferInOrder, BufferFits
<1>16. StoredInOrder'
  BY <1>1, <1>2 DEF OrderInv, StoredInOrder, InOrder, AllUpTo, FreshFrom
<1>. QED BY <1>13, <1>14, <1>15, <1>16 DEF OrderInv

LEMMA RelayOrder ==
  ASSUME TypeInv, OrderInv, NEW noticed \in BOOLEAN, Relay(noticed)
  PROVE  OrderInv'
<1>0. /\ run.acc \in Seq(Event) /\ client \in Client /\ cache \in Seq(Cached)
      /\ run.seq \in Nat
  BY RunFields DEF TypeInv, StreamTypeOK, Fields
<1>. PICK m \in Nat : m = Len(run.acc)
  BY <1>0, LenProperties
<1>1. PICK sent \in Frame : sent = Sent /\ sent.event = run.frame.event
  BY EventRelayed
<1>2. PICK n \in Nat : n = run.seq + 1
  BY <1>0
<1>3. /\ run.pc = "relay" /\ run'.pc \in {"flush", "reading"} /\ Sending
      /\ run'.todo = run.todo /\ run'.acc = Accumulated(sent)
      /\ client' = Received(client, sent)
      /\ cache' \in {<<>>, CachedAfter(cache, n, sent)}
  BY <1>1, <1>2, EventRelayed
<1>4. Now' = Now /\ db' = db /\ run'.buffer = run.buffer /\ run'.pseq = run.pseq
  BY <1>3 DEF Sending, Now
<1>5. sent.event = Now /\ sent.event \in Event /\ run.todo = <<>>
  BY <1>1, <1>3 DEF TypeInv, Places, Frame
<1>6. /\ \A i \in 1 .. m : Before(run.acc[i], Now)
      /\ \A i \in 1 .. Len(cache) : Before(EventOf(cache[i]), Now)
      /\ \A x \in client.got : Before(x, Now)
  BY <1>3 DEF OrderInv, SentSoFar, Reached
<1>7. \/ run'.acc = run.acc
      \/ /\ Len(run'.acc) = m + 1 /\ run'.acc[m + 1] = Now
         /\ \A i \in 1 .. m : run'.acc[i] = run.acc[i]
  <2>1. run'.acc = run.acc \/ run'.acc = Append(run.acc, sent.event)
    BY <1>3 DEF Accumulated
  <2>. QED BY <1>0, <1>5, <2>1, AppendProperties
<1>8. 1 .. m + 1 = (1 .. m) \cup {m + 1}
  OBVIOUS
<1>9. InOrder(run'.acc)
  <2>1. CASE run'.acc = run.acc
    BY <2>1 DEF OrderInv, SentInOrder
  <2>2. CASE run'.acc # run.acc
    <3>1. ASSUME NEW i \in 1 .. m + 1, NEW j \in 1 .. m + 1, i < j
          PROVE  Before(run'.acc[i], run'.acc[j])
      <4>1. i \in 1 .. m
        BY <3>1
      <4>2. CASE j \in 1 .. m
        BY <1>7, <2>2, <3>1, <4>1, <4>2 DEF OrderInv, SentInOrder, InOrder
      <4>3. CASE j = m + 1
        BY <1>6, <1>7, <2>2, <4>1, <4>3
      <4>. QED BY <1>8, <4>2, <4>3
    <3>. QED BY <1>7, <2>2, <3>1 DEF InOrder
  <2>. QED BY <2>1, <2>2
<1>10. PICK new : new = [n |-> n, frame |-> sent]
  OBVIOUS
<1>11. EventOf(new) = Now
  BY <1>5, <1>10 DEF EventOf
<1>12. cache' = <<>> \/ Continues(cache', cache, new)
  BY <1>0, <1>3, <1>10, CachedAfterFacts
<1>13. EntriesInOrder(cache') /\ \A i \in 1 .. Len(cache') : UpTo(EventOf(cache'[i]), Now)
  <2>1. CASE cache' = <<>>
    BY <2>1 DEF EntriesInOrder
  <2>2. CASE Continues(cache', cache, new)
    <3>1. ASSUME NEW i \in 1 .. Len(cache'), NEW j \in 1 .. Len(cache'), i < j
          PROVE  Before(EventOf(cache'[i]), EventOf(cache'[j]))
      <4>1. PICK k \in 1 .. Len(cache) : cache'[i] = cache[k]
        BY <2>2, <3>1 DEF Continues
      <4>2. CASE cache'[j] = new
        BY <1>6, <1>11, <4>1, <4>2
      <4>3. CASE cache'[j] # new
        <5>1. PICK p \in 1 .. Len(cache), q \in 1 .. Len(cache) :
                p < q /\ cache'[i] = cache[p] /\ cache'[j] = cache[q]
          BY <2>2, <3>1, <4>3 DEF Continues
        <5>. QED BY <5>1 DEF OrderInv, SentInOrder, EntriesInOrder
      <4>. QED BY <4>2, <4>3
    <3>2. ASSUME NEW i \in 1 .. Len(cache') PROVE UpTo(EventOf(cache'[i]), Now)
      BY <1>6, <1>11, <2>2 DEF Continues, UpTo
    <3>. QED BY <3>1, <3>2 DEF EntriesInOrder
  <2>. QED BY <1>12, <2>1, <2>2
<1>14. SentInOrder'
  BY <1>3, <1>5, <1>9, <1>13 DEF SentInOrder, EntriesInOrder, InOrder, EventOf
<1>15. SentSoFar'
  <2>1. \A i \in 1 .. Len(run'.acc) : UpTo(run'.acc[i], Now)
    BY <1>6, <1>7, <1>8 DEF UpTo
  <2>2. \A x \in client'.got : UpTo(x, Now)
    <3>1. client'.got = client.got \/ client'.got = client.got \cup {Now}
      BY <1>0, <1>3, <1>5, ReceivedFacts
    <3>. QED BY <1>6, <3>1 DEF UpTo
  <2>. QED BY <1>3, <1>4, <1>5, <1>13, <2>1, <2>2 DEF SentSoFar, Reached, EventOf
<1>16. BufferInOrder'
  BY <1>4 DEF OrderInv, BufferInOrder, BufferFits
<1>17. StoredInOrder'
  BY <1>3, <1>4 DEF OrderInv, StoredInOrder, InOrder, AllUpTo, FreshFrom
<1>. QED BY <1>14, <1>15, <1>16, <1>17 DEF OrderInv

\* A run begins: what it replays is in the cache.
LEMMA FreshOrder ==
  ASSUME TypeInv, OrderInv, Fresh, run.pc # "relay", run'.pc # "relay",
         \A e \in Pair : UpTo(e, Now) => UpTo(e, Now'),
         EntriesInOrder(run'.todo),
         \A i \in 1 .. Len(run'.todo) : \E k \in 1 .. Len(cache) : run'.todo[i] = cache[k]
  PROVE  OrderInv'
<1>1. SentInOrder'
  BY DEF Fresh, OrderInv, SentInOrder, EntriesInOrder, InOrder, EventOf
<1>2. SentSoFar'
  <2>1. /\ \A i \in 1 .. Len(cache) : UpTo(EventOf(cache[i]), Now')
        /\ \A x \in client.got : UpTo(x, Now')
    BY ElementsArePairs DEF OrderInv, SentSoFar, Reached
  <2>2. \A i \in 1 .. Len(run'.todo) : UpTo(EventOf(run'.todo[i]), Now')
    BY <2>1
  <2>. QED BY <2>1, <2>2 DEF Fresh, SentSoFar, Reached, EventOf
<1>3. BufferInOrder'
  BY DEF Fresh, BufferInOrder, BufferFits
<1>4. StoredInOrder'
  <2>1. AllUpTo(db.text, Now')
    BY ElementsArePairs DEF OrderInv, StoredInOrder, AllUpTo
  <2>2. InOrder(db.text) /\ FreshFrom(db, <<>>, 1)
    BY DEF OrderInv, StoredInOrder, FreshFrom
  <2>. QED BY <2>1, <2>2 DEF Fresh, StoredInOrder, InOrder, AllUpTo, FreshFrom
<1>. QED BY <1>1, <1>2, <1>3, <1>4 DEF OrderInv

LEMMA SendOrder ==
  ASSUME TypeInv, OrderInv, NEW kind \in Kinds, Send(kind)
  PROVE  OrderInv'
<1>1. /\ Fresh /\ run.pc = "over" /\ run'.pc = "reading" /\ run'.todo = <<>> /\ run'.no = 1
      /\ run'.count = 0 /\ run.no = 0
  BY MessageSent DEF TypeInv, Places, Fresh
<1>2. \A e \in Pair : UpTo(e, Now) => UpTo(e, Now')
  <2>1. run.count \in Nat /\ Now = <<0, run.count>> /\ Now' = <<0 + 1, 0>>
    BY <1>1, NowIsPair DEF Now
  <2>. QED BY <2>1, BeforeNext
<1>. QED BY <1>1, <1>2, FreshOrder DEF EntriesInOrder

LEMMA ResumeOrder ==
  ASSUME TypeInv, OrderInv, NEW kind \in Kinds, Resume(kind)
  PROVE  OrderInv'
<1>1. /\ Fresh /\ run.pc = "over" /\ run'.pc # "relay" /\ run'.no = run.no + 1 /\ run'.count = 0
      /\ run'.todo = Replayed(cache, client.cursor)
  BY MessageResumed DEF Fresh
<1>2. \A e \in Pair : UpTo(e, Now) => UpTo(e, Now')
  <2>1. /\ run.count \in Nat /\ run.no \in Nat /\ Now = <<run.no, run.count>>
        /\ Now' = <<run.no + 1, 0>>
    BY <1>1, NowIsPair DEF Now
  <2>. QED BY <2>1, BeforeNext
<1>3. cache \in Seq(Cached) /\ client.cursor \in Nat
  BY DEF TypeInv, StreamTypeOK, Client
<1>4. /\ \A i \in 1 .. Len(run'.todo) : \E k \in 1 .. Len(cache) : run'.todo[i] = cache[k]
      /\ EntriesInOrder(run'.todo)
  <2>1. CASE client.cursor = 0
    <3>1. run'.todo = <<>>
      BY <1>1, <1>3, <2>1, ReplayedFacts
    <3>. QED BY <3>1 DEF EntriesInOrder
  <2>2. CASE client.cursor # 0
    <3>1. PICK keep : Picks(run'.todo, cache, keep, Len(cache))
      BY <1>1, <1>3, <2>2, ReplayedFacts
    <3>2. \A i \in 1 .. Len(run'.todo) : \E k \in 1 .. Len(cache) : run'.todo[i] = cache[k]
      BY <3>1 DEF Picks
    <3>3. ASSUME NEW i \in 1 .. Len(run'.todo), NEW j \in 1 .. Len(run'.todo), i < j
          PROVE  Before(EventOf(run'.todo[i]), EventOf(run'.todo[j]))
      <4>0. \E k, l \in 1 .. Len(cache) : k < l /\ k \in keep /\ l \in keep
                 /\ run'.todo[i] = cache[k] /\ run'.todo[j] = cache[l]
        BY <3>1, <3>3, Zenon DEF Picks
      <4>1. PICK k \in 1 .. Len(cache), l \in 1 .. Len(cache) :
              k < l /\ run'.todo[i] = cache[k] /\ run'.todo[j] = cache[l]
        BY <4>0, Zenon
      <4>. QED BY <4>1 DEF OrderInv, SentInOrder, EntriesInOrder
    <3>. QED BY <3>2, <3>3 DEF EntriesInOrder
  <2>. QED BY <2>1, <2>2
<1>. QED BY <1>1, <1>2, <1>4, FreshOrder

LEMMA OrderStep == TypeInv /\ OrderInv /\ [StreamNext]_streamVars => OrderInv'
<1>. SUFFICES ASSUME TypeInv, OrderInv, [StreamNext]_streamVars PROVE OrderInv'
  OBVIOUS
<1>1. CASE UNCHANGED streamVars
  BY <1>1 DEF streamVars, OrderInv, SentInOrder, SentSoFar, BufferInOrder, StoredInOrder, Now,
              EntriesInOrder, InOrder, AllUpTo, BufferFits, FreshFrom, EventOf
<1>2. ASSUME NEW kind \in Kinds, Send(kind) PROVE OrderInv'
  BY <1>2, SendOrder
<1>3. ASSUME NEW kind \in Kinds, Resume(kind) PROVE OrderInv'
  BY <1>3, ResumeOrder
<1>4. CASE LoseConnection \/ NoticeLoss \/ Crash
  BY <1>4, LossSteps, EndingOrder DEF OrderInv, StoredInOrder, InOrder
<1>5. CASE StreamEnds \/ StreamFails \/ HeartbeatFails
  BY <1>5, StreamStops, EndingOrder DEF OrderInv, StoredInOrder, InOrder
<1>6. CASE EndRecord \/ \E applied \in BOOLEAN : EndFails(applied)
  BY <1>6, EndRecordsOrder
<1>7. CASE EndFlush \/ EndFinalBlock
  BY <1>7, EndStoresOrder, EndCompletesOrder
<1>8. ASSUME NEW parts \in Shapes, NEW u \in Upstream,
             ReadStatus(parts, u) \/ ReadText(parts, u) \/ ReadQuestion(parts, u)
      PROVE  OrderInv'
  <2>1. HandedOn(parts, u) /\ Storing(parts, u)
    BY <1>8, StatusIsRead, TextIsRead, QuestionIsRead
  <2>. QED BY <2>1, StoringOrder DEF HandedOn
<1>10. ASSUME NEW parts \in Shapes, NEW u \in Upstream, NEW applied \in BOOLEAN,
              ReadFails(parts, u, applied)
       PROVE  OrderInv'
  <2>1. Reading /\ Storing(parts, u) /\ client'.got = client.got /\ run'.pc = "flush"
    BY <1>10, ReadingFails DEF SameCopy
  <2>. QED BY <2>1, StoringOrder
<1>11. CASE Replay
  BY <1>11, ReplayOrder
<1>12. ASSUME NEW noticed \in BOOLEAN, Relay(noticed) PROVE OrderInv'
  BY <1>12, RelayOrder
<1>. QED
  BY <1>1, <1>2, <1>3, <1>4, <1>5, <1>6, <1>7, <1>8, <1>10, <1>11, <1>12 DEF StreamNext

LEMMA InitOrder == StreamInit => OrderInv
BY NoRunIsOne
   DEF StreamInit, OrderInv, SentInOrder, SentSoFar, BufferInOrder, StoredInOrder, EntriesInOrder,
       InOrder, AllUpTo, BufferFits, FreshFrom

\* No update is stored twice, and those of one run are stored in the agent's order, although
\* a failed flush is tried again and resumptions number their updates from 1 again.
THEOREM StoredOnceHolds == StreamSpec => []StoredOnce
<1>1. StreamSpec => [](TypeInv /\ OrderInv)
  BY InitTypes, TypeStep, InitOrder, OrderStep, PTL DEF StreamSpec
<1>2. TypeInv /\ OrderInv => StoredOnce
  <2>. SUFFICES ASSUME TypeInv, OrderInv, NEW i \in 1 .. Len(db.text), NEW j \in 1 .. Len(db.text),
                       i < j, db.text[i][1] = db.text[j][1]
                PROVE  db.text[i][2] < db.text[j][2]
    BY DEF StoredOnce
  <2>1. Before(db.text[i], db.text[j])
    BY DEF OrderInv, StoredInOrder, InOrder
  <2>2. db.text[i] \in Pair /\ db.text[j] \in Pair
    BY ElementsArePairs
  <2>3. db.text[i][1] \in Nat /\ db.text[j][1] \in Nat
    BY <2>2 DEF Pair
  <2>. QED BY <2>1, <2>3 DEF Before
<1>. QED BY <1>1, <1>2, PTL

-----------------------------------------------------------------------------
(* What is stored when the message is complete                              *)

\* Storing the buffer keeps the contents, and empties it.
LEMMA ContentKept ==
  ASSUME NEW d \in DB, NEW buf \in Seq(Update), Exact(d, buf)
  PROVE  LET r == WrittenAll(d, buf) IN
         /\ r \in DB /\ Kept(d, buf) = <<>>
         /\ Exact(r, <<>>) /\ Size(r, <<>>) = Size(d, buf)
         /\ \A i \in 1 .. Size(d, buf) : Content(r, <<>>, i) = Content(d, buf, i)
         /\ \A top : d.last < top /\ (\A j \in 1 .. Len(buf) : buf[j].n < top) => r.last < top
<1>. PICK m \in Nat, len \in Nat : m = Len(d.text) /\ len = Len(buf)
  BY LenProperties DEF DB
<1>1. PICK r \in DB : r = WrittenAll(d, buf)
  BY WrittenAllType
<1>2. /\ r.last = (IF len = 0 THEN d.last ELSE buf[len].n) /\ Len(r.text) = m + len
      /\ \A i \in 1 .. m : r.text[i] = d.text[i]
      /\ \A j \in 1 .. len : r.text[m + j] = buf[j].event
  BY <1>1, WrittenAllAppends
<1>3. Kept(d, buf) = <<>>
  <2>1. CASE r = d
    <3>1. len = 0
      BY <1>2, <2>1
    <3>2. buf = <<>>
      BY <3>1, EmptySeq
    <3>. QED BY <3>2 DEF Kept
  <2>2. CASE r # d
    BY <1>1, <2>2 DEF Kept
  <2>. QED BY <2>1, <2>2
<1>4. Exact(r, <<>>)
  BY DEF Exact
<1>5. Size(r, <<>>) = m + len /\ Size(d, buf) = m + len
  BY <1>2 DEF Size
<1>6. ASSUME NEW i \in 1 .. m + len PROVE Content(r, <<>>, i) = Content(d, buf, i)
  <2>1. i <= Len(r.text)
    BY <1>2
  <2>2. CASE i <= m
    BY <1>2, <2>1, <2>2 DEF Content
  <2>3. CASE i > m
    <3>. PICK j : j = i - m
      OBVIOUS
    <3>1. j \in 1 .. len /\ m + j = i
      BY <2>3
    <3>2. Content(r, <<>>, i) = r.text[i] /\ Content(d, buf, i) = buf[j].event
      BY <2>1, <2>3, <3>1 DEF Content
    <3>3. r.text[m + j] = buf[j].event
      BY <1>2, <3>1
    <3>. QED BY <3>1, <3>2, <3>3
  <2>. QED BY <2>2, <2>3
<1>7. ASSUME NEW top, d.last < top, \A j \in 1 .. len : buf[j].n < top
      PROVE  r.last < top
  <2>1. CASE len = 0
    BY <1>2, <1>7, <2>1
  <2>2. CASE len # 0
    <3>1. len \in 1 .. len
      BY <2>2
    <3>. QED BY <1>2, <1>7, <2>2, <3>1
  <2>. QED BY <2>1, <2>2
<1>. QED BY <1>1, <1>3, <1>4, <1>5, <1>6, <1>7

\* The steps that leave the client without a connection, or that wait with it.
LEMMA LossAck ==
  ASSUME TypeInv, AckInv, LoseConnection \/ NoticeLoss \/ Crash
  PROVE  AckInv'
<1>1. /\ Ending /\ db' = db /\ client'.pc # "streaming"
      /\ client'.pc = "done" => client.pc = "done"
  BY LossSteps
<1>2. Settled'
  BY <1>1 DEF AckInv, Settled, Ending, Frozen, SameCopy
<1>3. Unsent'
  BY <1>1 DEF AckInv, Unsent, Ending, SameCopy
<1>. QED BY <1>1, <1>2, <1>3 DEF AckInv, Serving, FirstRun

LEMMA StopsAck ==
  ASSUME TypeInv, AckInv, StreamEnds \/ StreamFails \/ HeartbeatFails
  PROVE  AckInv'
<1>1. /\ Ending /\ db' = db /\ run.pc = "reading" /\ run'.pc = "flush"
      /\ client'.pc = "streaming" => run'.outcome = "done"
      /\ client'.pc # "done" \/ client'.pc = client.pc
  BY StreamStops
<1>2. client'.pc = "streaming" => client.pc = "streaming"
  BY <1>1 DEF Ending
<1>3. Serving'
  BY <1>1 DEF Serving
<1>4. FirstRun'
  <2>1. Underway = 0 /\ Underway' = 0
    BY <1>1 DEF Underway
  <2>. SUFFICES ASSUME client'.pc = "streaming", run'.no = 1 PROVE FirstRun'
    BY DEF FirstRun
  <2>2. client.pc = "streaming" /\ run.no = 1
    BY <1>1, <1>2 DEF Ending, Frozen
  <2>. QED BY <1>1, <2>1, <2>2 DEF AckInv, FirstRun, Ending, Frozen, SameCopy, Exact, Size, Content
<1>5. Settled'
  BY <1>1 DEF AckInv, Settled
<1>6. Unsent'
  BY <1>1 DEF AckInv, Unsent, Ending, SameCopy
<1>. QED BY <1>3, <1>4, <1>5, <1>6 DEF AckInv

LEMMA FlushAck ==
  ASSUME TypeInv, AckInv, EndFlush
  PROVE  AckInv'
<1>0. db \in DB /\ run.buffer \in Seq(Update) /\ run.acc \in Seq(Event)
  BY RunFields DEF TypeInv, StreamTypeOK, Fields
<1>1. /\ client' = client /\ Frozen /\ run'.buffer = Kept(db, run.buffer)
      /\ run.pc = "flush" /\ run'.pc = "final" /\ run'.outcome = run.outcome
      /\ db' = WrittenAll(db, run.buffer)
  BY EndStores
<1>2. Serving'
  BY <1>1 DEF AckInv, Serving
<1>3. FirstRun'
  <2>. SUFFICES ASSUME client'.pc = "streaming", run'.no = 1 PROVE FirstRun'
    BY DEF FirstRun
  <2>1. client.pc = "streaming" /\ run.no = 1 /\ Underway = 0 /\ Underway' = 0
    BY <1>1 DEF Frozen, Underway
  <2>. PICK m \in Nat : m = Len(run.acc)
    BY <1>0, LenProperties
  <2>2. /\ Exact(db, run.buffer) /\ db.last < run.pseq
        /\ \A j \in 1 .. Len(run.buffer) : run.buffer[j].n < run.pseq
        /\ Size(db, run.buffer) = m + 0
        /\ \A i \in 1 .. m : run.acc[i] = Content(db, run.buffer, i)
        /\ client.shown = run.acc /\ \A n \in client.ids : n < run.pseq
    BY <2>1 DEF AckInv, FirstRun
  <2>3. /\ db' \in DB /\ run'.buffer = <<>> /\ Exact(db', <<>>)
        /\ Size(db', <<>>) = Size(db, run.buffer) /\ db'.last < run.pseq
        /\ \A i \in 1 .. Size(db, run.buffer) : Content(db', <<>>, i) = Content(db, run.buffer, i)
    BY <1>0, <1>1, <2>2, ContentKept
  <2>4. Size(db', <<>>) = m + 0 /\ \A i \in 1 .. m : run.acc[i] = Content(db', <<>>, i)
    BY <2>2, <2>3
  <2>5. Exact(db, run.buffer)' /\ Size(db, run.buffer)' = m + 0
    BY <2>3, <2>4 DEF Exact, Size
  <2>6. \A i \in 1 .. m : run.acc[i] = Content(db, run.buffer, i)'
    BY <2>3, <2>4 DEF Content
  <2>. QED BY <1>1, <2>1, <2>2, <2>3, <2>5, <2>6 DEF FirstRun, Frozen
<1>4. Settled'
  BY <1>1 DEF AckInv, Settled
<1>5. Unsent'
  BY <1>1 DEF AckInv, Unsent
<1>. QED BY <1>2, <1>3, <1>4, <1>5 DEF AckInv

\* In the first run the final block has nothing to add for a served client.
LEMMA CompleteAck ==
  ASSUME TypeInv, AckInv, EndFinalBlock
  PROVE  AckInv'
<1>0. db \in DB /\ run.acc \in Seq(Event)
  BY RunFields DEF TypeInv, StreamTypeOK, Fields
<1>1. /\ client' = client /\ Frozen /\ run'.buffer = run.buffer
      /\ run.pc = "final" /\ run'.pc = "record" /\ run'.outcome = run.outcome
      /\ FinalBlock
  BY EndCompletes
<1>2. Serving'
  BY <1>1 DEF AckInv, Serving
<1>3. FirstRun'
  <2>. SUFFICES ASSUME client'.pc = "streaming", run'.no = 1 PROVE FirstRun'
    BY DEF FirstRun
  <2>1. client.pc = "streaming" /\ run.no = 1 /\ Underway = 0 /\ Underway' = 0
    BY <1>1 DEF Frozen, Underway
  <2>2. run.buffer = <<>> /\ Size(db, <<>>) = Len(run.acc) + 0
    BY <1>1, <2>1 DEF AckInv, FirstRun
  <2>3. db.text = <<>> => run.acc = <<>>
    <3>1. ASSUME db.text = <<>> PROVE Len(run.acc) = 0
      BY <1>0, <2>2, <3>1, LenProperties DEF Size
    <3>. QED BY <1>0, <3>1, EmptySeq
  <2>4. db'.text = db.text /\ db'.last = db.last
    BY <1>1, <2>3 DEF FinalBlock
  <2>. QED BY <1>1, <2>1, <2>2, <2>4 DEF AckInv, FirstRun, Frozen, Exact, Size, Content
<1>4. Settled'
  BY <1>1 DEF AckInv, Settled
<1>5. Unsent'
  BY <1>1 DEF AckInv, Unsent
<1>. QED BY <1>2, <1>3, <1>4, <1>5 DEF AckInv

\* The outcome recorded for a served client is what it shows.
LEMMA RecordAck ==
  ASSUME TypeInv, AckInv, EndRecord \/ \E applied \in BOOLEAN : EndFails(applied)
  PROVE  AckInv'
<1>0. db \in DB /\ run \in StreamRun /\ run.acc \in Seq(Event)
  BY RunFields DEF TypeInv, StreamTypeOK, Fields
<1>1. /\ Ending /\ run.pc \in {"flush", "final", "record"} /\ run'.pc = "over"
      /\ client'.pc # "streaming"
      /\ client'.pc = "done" /\ client.pc # "done" =>
           client.pc = "streaming" /\ run.pc = "record" /\ db' = Recorded(db, run)
  BY EndRecords
<1>2. Settled'
  <2>. SUFFICES ASSUME client'.pc = "done" PROVE Settled'
    BY DEF Settled
  <2>1. client.pc = "streaming" /\ run.pc = "record" /\ db' = Recorded(db, run)
    BY <1>1 DEF AckInv, Settled
  <2>2. run.outcome = "done"
    BY <2>1 DEF AckInv, Serving
  <2>3. db'.status = "done" /\ db'.text \in {run.acc, db.text}
    BY <1>0, <2>1, <2>2, RecordedFacts
  <2>4. ASSUME run.no = 1 PROVE db'.text = client.shown
    <3>1. /\ Size(db, run.buffer) = Len(run.acc) + Underway /\ run.buffer = <<>>
          /\ \A i \in 1 .. Len(run.acc) : run.acc[i] = Content(db, run.buffer, i)
          /\ client.shown = run.acc
      BY <2>1, <2>4 DEF AckInv, FirstRun
    <3>2. Underway = 0 /\ Len(<<>>) = 0
      BY <2>1 DEF Underway
    <3>3. db.text \in Seq(Event \cup {ErrorEvent})
      BY <1>0 DEF DB
    <3>4. Len(run.acc) = Len(db.text) /\ Len(run.acc) \in Nat
      BY <1>0, <3>1, <3>2, <3>3, LenProperties DEF Size
    <3>5. \A i \in 1 .. Len(run.acc) : run.acc[i] = db.text[i]
      BY <3>1, <3>4 DEF Content
    <3>6. run.acc \in Seq(Event \cup {ErrorEvent})
      BY <1>0
    <3>7. run.acc = db.text
      BY <3>3, <3>4, <3>5, <3>6, SeqEqual
    <3>. QED BY <2>3, <3>1, <3>7
  <2>. QED BY <1>1, <2>3, <2>4 DEF Settled, Ending, Frozen, SameCopy
<1>3. Unsent'
  BY <1>1 DEF AckInv, Unsent, Ending, SameCopy
<1>. QED BY <1>1, <1>2, <1>3 DEF AckInv, Serving, FirstRun

LEMMA StatusAck ==
  ASSUME TypeInv, AckInv, NEW parts \in Shapes, NEW u \in Upstream, ReadStatus(parts, u)
  PROVE  AckInv'
<1>1. /\ HandedOn(parts, u) /\ db' = db /\ run'.pseq = run.pseq
      /\ run'.buffer = run.buffer /\ "text" \notin parts
  BY StatusIsRead
<1>2. /\ Reading /\ client' = client /\ run'.pc = "relay" /\ run'.outcome = run.outcome
      /\ run'.frame = ReadFrame(parts, u)
  BY <1>1 DEF HandedOn
<1>3. ~ IsText(run.frame)'
  BY <1>1, <1>2 DEF IsText, ReadFrame
<1>4. Serving'
  BY <1>2 DEF AckInv, Serving
<1>5. FirstRun'
  <2>. SUFFICES ASSUME client'.pc = "streaming", run'.no = 1 PROVE FirstRun'
    BY DEF FirstRun
  <2>1. client.pc = "streaming" /\ run.no = 1 /\ Underway = 0 /\ Underway' = 0
    BY <1>2, <1>3 DEF Reading, Underway
  <2>. QED BY <1>1, <1>2, <2>1 DEF AckInv, FirstRun, Reading, Exact, Size, Content
<1>6. Settled' /\ Unsent'
  BY <1>2 DEF AckInv, Settled, Unsent, Reading
<1>. QED BY <1>4, <1>5, <1>6 DEF AckInv

LEMMA OneLonger ==
  \A a, b \in Nat :
     a + (b + 1) = a + b + 1 /\ ~ (a + b + 1 <= a) /\ (a + b + 1) - a = b + 1
OBVIOUS

\* A buffer that is not stored yet is continued by an update with a larger number.
LEMMA ExactGrows ==
  ASSUME NEW d \in DB, NEW buf \in Seq(Update), NEW u \in Update, Exact(d, buf),
         u.n > d.last, \A j \in 1 .. Len(buf) : buf[j].n < u.n
  PROVE  LET b == Append(buf, u) IN
         /\ Exact(d, b) /\ Size(d, b) = Size(d, buf) + 1
         /\ \A i \in 1 .. Size(d, buf) : Content(d, b, i) = Content(d, buf, i)
         /\ Content(d, b, Size(d, buf) + 1) = u.event
         /\ \A j \in 1 .. Len(b) : b[j].n < u.n + 1
<1>. PICK m \in Nat, len \in Nat : m = Len(d.text) /\ len = Len(buf)
  BY LenProperties DEF DB
<1>1. PICK b : b = Append(buf, u)
  OBVIOUS
<1>2. /\ b \in Seq(Update) /\ Len(b) = len + 1 /\ b[len + 1] = u
      /\ \A j \in 1 .. len : b[j] = buf[j]
  BY <1>1, AppendProperties
<1>3. 1 .. Len(b) = (1 .. len) \cup {len + 1}
  BY <1>2
<1>4. Exact(d, b)
  <2>1. \A j \in 1 .. Len(b) : b[j].n > d.last
    BY <1>2, <1>3 DEF Exact
  <2>2. ASSUME NEW i \in 1 .. Len(b), NEW j \in 1 .. Len(b), i < j PROVE b[i].n < b[j].n
    <3>1. i \in 1 .. len
      BY <1>2, <2>2
    <3>. QED BY <1>2, <1>3, <2>2, <3>1 DEF Exact
  <2>. QED BY <2>1, <2>2 DEF Exact
<1>5. Size(d, b) = m + len + 1 /\ Size(d, buf) = m + len
  <2>1. m + (len + 1) = m + len + 1
    BY OneLonger, Zenon
  <2>. QED BY <1>2, <2>1, Zenon DEF Size
<1>6. ASSUME NEW i \in 1 .. m + len PROVE Content(d, b, i) = Content(d, buf, i)
  <2>1. CASE i <= m
    BY <2>1 DEF Content
  <2>2. CASE i > m
    <3>. PICK j : j = i - m
      OBVIOUS
    <3>1. j \in 1 .. len
      BY <2>2
    <3>. QED BY <1>2, <2>2, <3>1 DEF Content
  <2>. QED BY <2>1, <2>2
<1>7. Content(d, b, m + len + 1) = u.event
  <2>1. ~ (m + len + 1 <= m) /\ (m + len + 1) - m = len + 1
    BY OneLonger, Zenon
  <2>. QED BY <1>2, <2>1 DEF Content
<1>8. \A j \in 1 .. Len(b) : b[j].n < u.n + 1
  <2>1. u.n \in Nat /\ \A j \in 1 .. len : buf[j].n \in Nat
    <3>1. \A j \in 1 .. len : buf[j] \in Update
      BY ElementOfSeq
    <3>. QED BY <3>1 DEF Update
  <2>2. u.n < u.n + 1 /\ \A j \in 1 .. len : buf[j].n < u.n + 1
    BY <2>1
  <2>. QED BY <1>2, <1>3, <2>2
<1>. QED BY <1>1, <1>4, <1>5, <1>6, <1>7, <1>8

\* The stored text and the buffer are together the accumulated text and that of the frame,
\* numbered below top.
Carries(d, buf, top, frame) ==
  /\ Exact(d, buf) /\ d.last < top
  /\ \A j \in 1 .. Len(buf) : buf[j].n < top
  /\ Size(d, buf) = Len(run.acc) + (IF IsText(frame) THEN 1 ELSE 0)
  /\ \A i \in 1 .. Len(run.acc) : run.acc[i] = Content(d, buf, i)
  /\ IsText(frame) => Content(d, buf, Len(run.acc) + 1) = frame.event

LEMMA StoringCarries ==
  ASSUME NEW d \in DB, NEW buf \in Seq(Update), NEW top, NEW frame,
         Carries(d, buf, top, frame), run.acc \in Seq(Event)
  PROVE  LET r == WrittenAll(d, buf) IN
         r \in DB /\ Kept(d, buf) = <<>> /\ Carries(r, <<>>, top, frame)
<1>. PICK m \in Nat : m = Len(run.acc)
  BY LenProperties
<1>1. PICK r \in DB :
        /\ r = WrittenAll(d, buf) /\ Kept(d, buf) = <<>> /\ Exact(r, <<>>)
        /\ Size(r, <<>>) = Size(d, buf) /\ r.last < top
        /\ \A i \in 1 .. Size(d, buf) : Content(r, <<>>, i) = Content(d, buf, i)
  BY ContentKept DEF Carries
<1>2. \A j \in 1 .. Len(<<>>) : <<>>[j].n < top
  OBVIOUS
<1>3. CASE IsText(frame)
  <2>1. Size(d, buf) = m + 1 /\ m + 1 \in 1 .. m + 1 /\ \A i \in 1 .. m : i \in 1 .. m + 1
    BY <1>3 DEF Carries
  <2>. QED BY <1>1, <1>2, <1>3, <2>1 DEF Carries
<1>4. CASE ~ IsText(frame)
  <2>1. Size(d, buf) = m /\ m + 0 = m
    BY <1>4 DEF Carries
  <2>. QED BY <1>1, <1>2, <1>4, <2>1 DEF Carries
<1>. QED BY <1>1, <1>3, <1>4

LEMMA QuestionCarries ==
  ASSUME NEW d \in DB, NEW n \in Nat, NEW frame, Carries(d, <<>>, n, frame)
  PROVE  /\ Carries(WithQuestion(d, n), <<>>, n + 1, frame)
         /\ ~ (n <= d.last)
<1>1. d.last \in Nat /\ ~ (n <= d.last) /\ n < n + 1
  BY DEF Carries, DB
<1>2. PICK q : q = WithQuestion(d, n) /\ q.text = d.text /\ q.last = n
  BY <1>1, WithQuestionFacts
<1>3. Size(q, <<>>) = Size(d, <<>>) /\ \A i : Content(q, <<>>, i) = Content(d, <<>>, i)
  BY <1>2 DEF Size, Content
<1>4. \A j \in 1 .. Len(<<>>) : FALSE
  OBVIOUS
<1>5. Exact(q, <<>>)
  BY <1>4 DEF Exact
<1>. QED BY <1>1, <1>2, <1>3, <1>4, <1>5 DEF Carries

\* In the first run, before anything is stored, the buffer with the text that is read.
LEMMA BufferedExact ==
  ASSUME TypeInv, AckInv, Reading, client.pc = "streaming", run.no = 1,
         NEW parts \in Shapes, NEW u \in Upstream
  PROVE  LET frame == ReadFrame(parts, u) IN
         Carries(WithHeader(db), Buffered(frame), NextNumber(frame), frame)
<1>0. /\ run.pc = "reading" /\ run.count < MaxEvents /\ db \in DB /\ run.buffer \in Seq(Update)
      /\ run.acc \in Seq(Event) /\ run.pseq \in Nat
  BY RunFields DEF Reading, TypeInv, StreamTypeOK, Fields
<1>. PICK m \in Nat, pseq \in Nat : m = Len(run.acc) /\ pseq = run.pseq
  BY <1>0, LenProperties
<1>1. PICK d \in DB : d = WithHeader(db) /\ d.text = db.text /\ d.last = db.last
  BY <1>0, WithHeaderFacts
<1>2. PICK frame \in Frame, buf \in Seq(Update), n \in Nat :
        /\ frame = ReadFrame(parts, u) /\ frame.event = <<run.no, run.count + 1>>
        /\ IsText(frame) <=> "text" \in parts
        /\ buf = Buffered(frame) /\ n = NextNumber(frame)
        /\ "text" \notin parts => buf = run.buffer /\ n = pseq
        /\ "text" \in parts =>
             /\ n = pseq + 1
             /\ \E open \in BOOLEAN :
                  UpdateOf(open) \in Update /\ buf = Append(run.buffer, UpdateOf(open))
  BY <1>0, BufferedFacts, NextEvent
<1>3. /\ Exact(d, run.buffer) /\ d.last < pseq
      /\ \A j \in 1 .. Len(run.buffer) : run.buffer[j].n < pseq
      /\ Size(d, run.buffer) = m
      /\ \A i \in 1 .. m : run.acc[i] = Content(d, run.buffer, i)
  <2>1. Underway = 0 /\ m + 0 = m
    BY <1>0 DEF Underway
  <2>2. /\ Exact(db, run.buffer) /\ db.last < pseq
        /\ \A j \in 1 .. Len(run.buffer) : run.buffer[j].n < pseq
        /\ Size(db, run.buffer) = m
        /\ \A i \in 1 .. m : run.acc[i] = Content(db, run.buffer, i)
    BY <2>1 DEF AckInv, FirstRun
  <2>. QED BY <1>1, <2>2 DEF Exact, Size, Content
<1>4. CASE "text" \notin parts
  <2>1. m + 0 = m
    OBVIOUS
  <2>2. buf = run.buffer /\ n = pseq /\ ~ IsText(frame)
    BY <1>2, <1>4
  <2>. QED BY <1>1, <1>2, <1>3, <2>1, <2>2 DEF Carries
<1>5. CASE "text" \in parts
  <2>1. PICK new \in Update :
          new.n = pseq /\ new.event = frame.event /\ buf = Append(run.buffer, new)
    BY <1>2, <1>5 DEF UpdateOf
  <2>2. d.last \in Nat /\ new.n > d.last /\ \A j \in 1 .. Len(run.buffer) : run.buffer[j].n < new.n
    BY <1>3, <2>1 DEF DB
  <2>3. /\ Exact(d, buf) /\ Size(d, buf) = m + 1
        /\ \A i \in 1 .. m : Content(d, buf, i) = Content(d, run.buffer, i)
        /\ Content(d, buf, m + 1) = frame.event
        /\ \A j \in 1 .. Len(buf) : buf[j].n < n
    <3>1. /\ Exact(d, buf) /\ Size(d, buf) = Size(d, run.buffer) + 1
          /\ \A i \in 1 .. Size(d, run.buffer) : Content(d, buf, i) = Content(d, run.buffer, i)
          /\ Content(d, buf, Size(d, run.buffer) + 1) = new.event
          /\ \A j \in 1 .. Len(buf) : buf[j].n < new.n + 1
      BY <1>0, <1>3, <2>1, <2>2, ExactGrows
    <3>2. Size(d, run.buffer) = m /\ new.n + 1 = n /\ new.event = frame.event
      BY <1>2, <1>3, <1>5, <2>1
    <3>. QED BY <3>1, <3>2
  <2>4. d.last < n
    BY <1>2, <1>3, <1>5, <2>2
  <2>5. IsText(frame)
    BY <1>2, <1>5
  <2>. QED BY <1>1, <1>2, <1>3, <2>3, <2>4, <2>5 DEF Carries
<1>. QED BY <1>4, <1>5

\* A text or a question that is read, with the buffer kept or stored.
LEMMA ReadAck ==
  ASSUME TypeInv, AckInv, NEW parts \in Shapes, NEW u \in Upstream,
         ReadText(parts, u) \/ ReadQuestion(parts, u)
  PROVE  AckInv'
<1>1. HandedOn(parts, u)
  BY TextIsRead, QuestionIsRead
<1>2. /\ Reading /\ client' = client /\ run'.pc = "relay" /\ run'.outcome = run.outcome
      /\ run'.frame = ReadFrame(parts, u) /\ run'.acc = run.acc
  BY <1>1 DEF HandedOn, Reading
<1>3. /\ run.pc = "reading" /\ run.count < MaxEvents /\ db \in DB /\ run.acc \in Seq(Event)
      /\ run.pseq \in Nat
  BY <1>2, RunFields DEF Reading, TypeInv, StreamTypeOK, Fields
<1>4. Serving'
  BY <1>2 DEF AckInv, Serving
<1>5. FirstRun'
  <2>. SUFFICES ASSUME client'.pc = "streaming", run'.no = 1 PROVE FirstRun'
    BY DEF FirstRun
  <2>1. client.pc = "streaming" /\ run.no = 1
    BY <1>2 DEF Reading
  <2>2. PICK frame \in Frame, buf \in Seq(Update), n \in Nat :
          /\ frame = ReadFrame(parts, u)
          /\ IsText(frame) <=> "text" \in parts
          /\ "text" \in parts => frame.id = run.pseq
          /\ buf = Buffered(frame) /\ n = NextNumber(frame)
          /\ "text" \notin parts => n = run.pseq
          /\ "text" \in parts => n = run.pseq + 1
    BY <1>3, BufferedFacts, NextEvent
  <2>3. PICK d \in DB : d = WithHeader(db) /\ Carries(d, buf, n, frame)
    <3>1. WithHeader(db) \in DB
      BY <1>3, WithHeaderFacts
    <3>2. Carries(WithHeader(db), buf, n, frame)
      BY <1>2, <2>1, <2>2, BufferedExact
    <3>. QED BY <3>1, <3>2
  <2>4. PICK r \in DB :
          r = WrittenAll(d, buf) /\ Kept(d, buf) = <<>> /\ Carries(r, <<>>, n, frame)
    BY <1>3, <2>3, StoringCarries
  \* what is stored, and the next number
  <2>5. /\ Carries(db', run'.buffer, run'.pseq, frame)
        /\ run'.pseq = n \/ run'.pseq = n + 1
    <3>1. CASE ReadText(parts, u)
      <4>1. /\ run'.pseq = n
            /\ \/ db' = d /\ run'.buffer = buf
               \/ db' = r /\ run'.buffer = <<>>
        BY <2>2, <2>3, <2>4, <3>1, TextIsRead
      <4>. QED BY <2>3, <2>4, <4>1
    <3>2. CASE ReadQuestion(parts, u)
      <4>1. /\ db' = WithQuestion(r, n) /\ run'.buffer = <<>>
            /\ run'.pseq = IF n <= r.last THEN n ELSE n + 1
        BY <2>2, <2>3, <2>4, <3>2, QuestionIsRead
      <4>2. Carries(WithQuestion(r, n), <<>>, n + 1, frame) /\ ~ (n <= r.last)
        BY <2>4, QuestionCarries
      <4>. QED BY <4>1, <4>2
    <3>. QED BY <3>1, <3>2
  <2>6. /\ Exact(db, run.buffer)' /\ Size(db, run.buffer)' = Size(db', run'.buffer)
        /\ \A i : Content(db, run.buffer, i)' = Content(db', run'.buffer, i)
    BY <2>5 DEF Carries, Exact, Size, Content
  <2>7. Underway' = IF IsText(frame) THEN 1 ELSE 0
    BY <1>2, <2>2 DEF Underway, IsText
  <2>8. /\ client.shown = run.acc /\ client.ids \in SUBSET Nat
        /\ \A k \in client.ids : k < run.pseq
    BY <2>1 DEF AckInv, FirstRun, TypeInv, StreamTypeOK, Client
  <2>9. /\ \A k \in client'.ids : k < run'.pseq
        /\ IsText(frame) => run'.frame.id < run'.pseq /\ run'.frame.id \notin client'.ids
    <3>1. n \in {run.pseq, run.pseq + 1} /\ n \in Nat
      BY <2>2
    <3>2. run'.pseq >= run.pseq /\ run'.pseq \in Nat /\ (IsText(frame) => run.pseq < run'.pseq)
      BY <1>3, <2>2, <2>5, <3>1
    <3>3. \A k \in client.ids : k < run'.pseq
      BY <1>3, <2>8, <3>2
    <3>4. IsText(frame) => run'.frame.id = run.pseq
      BY <1>2, <2>2
    <3>5. run.pseq \notin client.ids
      BY <1>3, <2>8
    <3>. QED BY <1>2, <3>2, <3>3, <3>4, <3>5
  <2>10. ASSUME Underway' = 1 PROVE IsText(frame)
    BY <2>7, <2>10
  <2>11. /\ Size(db, run.buffer)' = Len(run'.acc) + Underway'
         /\ \A i \in 1 .. Len(run'.acc) : run'.acc[i] = Content(db, run.buffer, i)'
         /\ IsText(frame) => run'.frame.event = Content(db, run.buffer, Len(run.acc) + 1)'
    BY <1>2, <2>2, <2>5, <2>6, <2>7 DEF Carries, Content
  <2>. QED BY <1>2, <2>5, <2>6, <2>8, <2>9, <2>10, <2>11 DEF FirstRun, Carries
<1>6. Settled' /\ Unsent'
  BY <1>2 DEF AckInv, Settled, Unsent, Reading
<1>. QED BY <1>4, <1>5, <1>6 DEF AckInv

LEMMA ReadFailsAck ==
  ASSUME TypeInv, AckInv, NEW parts \in Shapes, NEW u \in Upstream, NEW applied \in BOOLEAN,
         ReadFails(parts, u, applied)
  PROVE  AckInv'
<1>1. /\ run.pc = "reading" /\ SameCopy
      /\ client'.pc = IF client.pc = "streaming" THEN "failed" ELSE client.pc
  BY ReadingFails DEF Reading
<1>. QED BY <1>1 DEF AckInv, Serving, FirstRun, Settled, Unsent, TypeInv, Places

LEMMA ReplayAck ==
  ASSUME TypeInv, AckInv, Replay
  PROVE  AckInv'
<1>1. /\ Sending /\ run.pc = "replay" /\ run'.outcome = run.outcome
      /\ run'.pc \in {"reading", "replay"}
  BY EventReplayed
<1>2. client'.pc = client.pc
  <2>1. client \in Client /\ run.todo[1].frame \in Frame
    BY EventReplayed DEF TypeInv, StreamTypeOK, Cached
  <2>. QED BY <2>1, EventReplayed, ReceivedFacts
<1>3. client.pc = "streaming" => run.no # 1 /\ run.outcome # "error"
  BY <1>1 DEF AckInv, FirstRun, Serving
<1>4. client.pc # "done" /\ client.pc # "idle"
  BY <1>1 DEF AckInv, Settled, TypeInv, Places
<1>. QED BY <1>1, <1>2, <1>3, <1>4 DEF AckInv, Serving, FirstRun, Settled, Unsent, Sending

LEMMA RelayAck ==
  ASSUME TypeInv, AckInv, NEW noticed \in BOOLEAN, Relay(noticed)
  PROVE  AckInv'
<1>0. run.acc \in Seq(Event) /\ run.pseq \in Nat /\ client \in Client
  BY RunFields DEF TypeInv, StreamTypeOK, Fields
<1>1. PICK sent \in Frame : sent = Sent
  BY EventRelayed
<1>2. /\ Sending /\ run.pc = "relay" /\ run'.pc \in {"flush", "reading"}
      /\ sent.event = run.frame.event /\ sent.id = run.frame.id
      /\ IsText(sent) <=> IsText(run.frame)
      /\ run'.acc = Accumulated(sent) /\ client' = Received(client, sent)
      /\ client.pc = "streaming" =>
           run'.outcome = IF run'.pc = "flush" THEN "done" ELSE run.outcome
  BY <1>1, EventRelayed
<1>3. client'.pc = client.pc
  BY <1>0, <1>2, ReceivedFacts
<1>4. Serving'
  BY <1>2, <1>3 DEF AckInv, Serving
<1>5. FirstRun'
  <2>. SUFFICES ASSUME client'.pc = "streaming", run'.no = 1 PROVE FirstRun'
    BY DEF FirstRun
  <2>1. client.pc = "streaming" /\ run.no = 1 /\ Underway' = 0 /\ run'.buffer = run.buffer
        /\ db' = db /\ run'.pseq = run.pseq
    BY <1>2, <1>3 DEF Sending, Underway
  <2>. PICK m \in Nat : m = Len(run.acc)
    BY <1>0, LenProperties
  <2>2. /\ Exact(db, run.buffer) /\ db.last < run.pseq
        /\ \A j \in 1 .. Len(run.buffer) : run.buffer[j].n < run.pseq
        /\ Size(db, run.buffer) = m + Underway
        /\ \A i \in 1 .. m : run.acc[i] = Content(db, run.buffer, i)
        /\ Underway = 1 =>
             /\ run.frame.event = Content(db, run.buffer, m + 1)
             /\ run.frame.id < run.pseq /\ run.frame.id \notin client.ids
        /\ client.shown = run.acc /\ \A n \in client.ids : n < run.pseq
    BY <2>1 DEF AckInv, FirstRun
  <2>3. /\ Len(run'.acc) = Size(db, run.buffer)
        /\ \A i \in 1 .. Len(run'.acc) : run'.acc[i] = Content(db, run.buffer, i)
        /\ client'.shown = run'.acc /\ \A n \in client'.ids : n < run.pseq
    <3>1. CASE IsText(sent)
      <4>1. Underway = 1
        BY <1>2, <3>1 DEF Underway
      <4>2. /\ sent.id < run.pseq /\ sent.id \notin client.ids
            /\ sent.event = Content(db, run.buffer, m + 1) /\ sent.event \in Event
        BY <1>2, <2>2, <4>1 DEF Frame
      <4>3. run'.acc = Append(run.acc, sent.event)
        BY <1>2, <3>1 DEF Accumulated
      <4>4. /\ Len(run'.acc) = m + 1 /\ run'.acc[m + 1] = sent.event
            /\ \A i \in 1 .. m : run'.acc[i] = run.acc[i]
        BY <1>0, <4>2, <4>3, AppendProperties
      <4>5. 1 .. m + 1 = (1 .. m) \cup {m + 1}
        OBVIOUS
      <4>6. \A i \in 1 .. m + 1 : run'.acc[i] = Content(db, run.buffer, i)
        BY <2>2, <4>2, <4>4, <4>5
      <4>7. client'.shown = Append(client.shown, sent.event) /\ client'.ids = client.ids \cup {sent.id}
        BY <1>0, <1>2, <2>1, <3>1, <4>2, ReceivedFacts
      <4>8. \A n \in client'.ids : n < run.pseq
        BY <2>2, <4>2, <4>7
      <4>. QED BY <2>2, <4>1, <4>3, <4>4, <4>6, <4>7, <4>8
    <3>2. CASE ~ IsText(sent)
      <4>1. Underway = 0 /\ m + 0 = m
        BY <1>2, <3>2 DEF Underway
      <4>2. run'.acc = run.acc
        BY <1>2, <3>2 DEF Accumulated
      <4>3. client'.shown = client.shown /\ client'.ids = client.ids
        BY <1>0, <1>2, <3>2, ReceivedFacts
      <4>. QED BY <2>2, <4>1, <4>2, <4>3
    <3>. QED BY <3>1, <3>2
  <2>4. Len(run'.acc) \in Nat
    BY <1>0, <2>1 DEF Sending, StreamRun
  <2>5. /\ Exact(db, run.buffer)' /\ Size(db, run.buffer)' = Len(run'.acc) + Underway'
        /\ \A i : Content(db, run.buffer, i)' = Content(db, run.buffer, i)
    <3>1. Len(run'.acc) + 0 = Len(run'.acc)
      BY <2>4
    <3>. QED BY <2>1, <2>2, <2>3, <3>1 DEF Exact, Size, Content
  <2>6. Underway' # 1 /\ run'.pc \notin {"replay", "final", "record"}
    BY <1>2, <2>1
  <2>7. \A i \in 1 .. Len(run'.acc) : run'.acc[i] = Content(db, run.buffer, i)'
    BY <2>3, <2>5
  <2>. QED BY <2>1, <2>2, <2>3, <2>5, <2>6, <2>7 DEF FirstRun
<1>6. Settled' /\ Unsent'
  BY <1>2, <1>3 DEF AckInv, Settled, Unsent, TypeInv, Places
<1>. QED BY <1>4, <1>5, <1>6 DEF AckInv

LEMMA SendAck ==
  ASSUME TypeInv, AckInv, NEW kind \in Kinds, Send(kind)
  PROVE  AckInv'
<1>1. /\ Fresh /\ client.pc = "idle" /\ client'.ids = client.ids /\ run'.no = 1
      /\ run'.pc = "reading"
  BY MessageSent
<1>2. /\ db'.text = <<>> /\ db'.last = 0 /\ client'.shown = <<>> /\ client'.ids = {}
      /\ run'.buffer = <<>> /\ run'.acc = <<>> /\ run'.pseq = 1 /\ run'.outcome = "none"
      /\ client'.pc = "streaming"
  BY <1>1 DEF TypeInv, Places, AckInv, Unsent, Fresh
<1>3. Exact(db, run.buffer)' /\ Underway' = 0 /\ Size(db, run.buffer)' = Len(run'.acc) + Underway'
  BY <1>1, <1>2 DEF Exact, Underway, Size
<1>4. FirstRun'
  BY <1>1, <1>2, <1>3 DEF FirstRun
<1>. QED BY <1>1, <1>2, <1>4 DEF AckInv, Serving, Settled, Unsent

LEMMA ResumeAck ==
  ASSUME TypeInv, AckInv, NEW kind \in Kinds, Resume(kind)
  PROVE  AckInv'
<1>1. /\ Fresh /\ client.pc = "recoverable" /\ run'.no = run.no + 1
      /\ run'.pc \in {"reading", "replay"}
  BY MessageResumed
<1>2. run.no \in Nat /\ run.no >= 1
  BY <1>1, NowIsPair DEF TypeInv, Places
<1>3. run'.no # 1
  BY <1>1, <1>2
<1>. QED BY <1>1, <1>3 DEF Fresh, AckInv, Serving, FirstRun, Settled, Unsent

LEMMA InitAck == StreamInit => AckInv
BY DEF StreamInit, AckInv, Serving, FirstRun, Settled, Unsent

LEMMA AckStep == TypeInv /\ AckInv /\ [StreamNext]_streamVars => AckInv'
<1>. SUFFICES ASSUME TypeInv, AckInv, [StreamNext]_streamVars PROVE AckInv'
  OBVIOUS
<1>1. CASE UNCHANGED streamVars
  BY <1>1 DEF streamVars, AckInv, Serving, FirstRun, Settled, Unsent, Underway, Exact, Size,
              Content
<1>2. ASSUME NEW kind \in Kinds, Send(kind) \/ Resume(kind) PROVE AckInv'
  BY <1>2, SendAck, ResumeAck
<1>3. CASE LoseConnection \/ NoticeLoss \/ Crash
  BY <1>3, LossAck
<1>4. CASE StreamEnds \/ StreamFails \/ HeartbeatFails
  BY <1>4, StopsAck
<1>5. CASE EndRecord \/ \E applied \in BOOLEAN : EndFails(applied)
  BY <1>5, RecordAck
<1>6. CASE EndFlush \/ EndFinalBlock
  BY <1>6, FlushAck, CompleteAck
<1>7. ASSUME NEW parts \in Shapes, NEW u \in Upstream,
             ReadStatus(parts, u) \/ ReadText(parts, u) \/ ReadQuestion(parts, u)
      PROVE  AckInv'
  BY <1>7, StatusAck, ReadAck
<1>8. ASSUME NEW parts \in Shapes, NEW u \in Upstream, NEW applied \in BOOLEAN,
             ReadFails(parts, u, applied)
      PROVE  AckInv'
  BY <1>8, ReadFailsAck
<1>9. CASE Replay
  BY <1>9, ReplayAck
<1>10. ASSUME NEW noticed \in BOOLEAN, Relay(noticed) PROVE AckInv'
  BY <1>10, RelayAck
<1>. QED
  BY <1>1, <1>2, <1>3, <1>4, <1>5, <1>6, <1>7, <1>8, <1>9, <1>10 DEF StreamNext

\* A message that is complete for the user is recorded as done, and what is stored is what
\* is shown unless the message had to be resumed, whatever commits failed before.
THEOREM AckMeansStoredHolds == StreamSpec => []AckMeansStored
<1>1. StreamSpec => [](TypeInv /\ AckInv)
  BY InitTypes, TypeStep, InitAck, AckStep, PTL DEF StreamSpec
<1>2. TypeInv /\ AckInv => AckMeansStored
  BY DEF AckInv, Settled, AckMeansStored
<1>. QED BY <1>1, <1>2, PTL

-----------------------------------------------------------------------------
(* Nothing is skipped                                                       *)

\* The steps that neither send an event nor begin a run.
Quiet ==
  /\ SameCopy /\ (cache' = cache \/ cache' = <<>>)
  /\ run'.since = run.since /\ run'.ahead = run.ahead
  /\ run'.todo = run.todo /\ run'.seq = run.seq
  /\ client.pc # "idle" /\ client'.pc # "idle"
  /\ client'.pc = "streaming" => client.pc = "streaming" /\ (run'.pc = run.pc \/ run.pc # "replay")

LEMMA QuietSkip ==
  ASSUME TypeInv, SkipInv, Quiet
  PROVE  SkipInv'
<1>0. InStep' <=> InStep
  BY DEF Quiet, InStep
<1>1. Numbered'
  <2>. SUFFICES ASSUME InStep' PROVE Numbered'
    BY DEF Numbered
  <2>1. /\ Increasing(cache) /\ NumbersUpTo(cache, run.seq)
        /\ Increasing(run.todo) /\ NumbersUpTo(run.todo, run.seq)
        /\ client.cursor <= run.seq
    BY <1>0 DEF SkipInv, Numbered
  <2>2. Increasing(cache') /\ NumbersUpTo(cache', run.seq)
    <3>1. Increasing(<<>>) /\ NumbersUpTo(<<>>, run.seq)
      BY DEF Increasing, NumbersUpTo
    <3>. QED BY <2>1, <3>1 DEF Quiet
  <2>. QED BY <2>1, <2>2 DEF Numbered, Increasing, NumbersUpTo, Quiet, SameCopy
<1>2. MissedBehind'
  <2>. SUFFICES ASSUME InStep', NEW i \in 1 .. Len(cache'),
                       EventOf(cache'[i]) \notin client'.got
                PROVE  /\ cache'[i].n > client'.cursor
                       /\ client'.pc = "streaming" =>
                            /\ run'.pc = "replay"
                            /\ \E j \in 1 .. Len(run'.todo) : run'.todo[j] = cache'[i]
    BY DEF MissedBehind, EventOf
  <2>1. cache' = cache
    <3>1. cache' # <<>>
      OBVIOUS
    <3>. QED BY <3>1 DEF Quiet
  <2>2. /\ cache[i].n > client.cursor
        /\ client.pc = "streaming" =>
             run.pc = "replay" /\ \E j \in 1 .. Len(run.todo) : run.todo[j] = cache[i]
    BY <1>0, <2>1 DEF SkipInv, MissedBehind, Quiet, SameCopy
  <2>. QED BY <2>1, <2>2 DEF Quiet, SameCopy
<1>3. NothingSkipped'
  <2>1. CASE cache' = <<>>
    BY <2>1 DEF NothingSkipped
  <2>2. CASE cache' = cache
    BY <2>2 DEF SkipInv, NothingSkipped, Quiet, SameCopy
  <2>. QED BY <2>1, <2>2 DEF Quiet
<1>. QED BY <1>1, <1>2, <1>3 DEF SkipInv, NothingSent, Quiet

LEMMA EndingSkip ==
  ASSUME TypeInv, SkipInv, Ending, client.pc # "idle", client'.pc # "idle",
         client'.pc = "streaming" => client.pc = "streaming" /\ run.pc # "replay"
  PROVE  SkipInv'
<1>1. Quiet /\ SameCopy /\ (cache' = cache \/ cache' = <<>>)
  BY DEF Quiet, Ending, Frozen
<1>. QED BY <1>1, QuietSkip

LEMMA ReadingSkip ==
  ASSUME TypeInv, SkipInv, Reading, SameCopy, client'.pc \in {client.pc, "failed"}
  PROVE  SkipInv'
<1>1. client.pc # "idle"
  BY DEF Reading, TypeInv, Places
<1>2. Quiet /\ SameCopy /\ (cache' = cache \/ cache' = <<>>)
  BY <1>1 DEF Quiet, Reading
<1>. QED BY <1>2, QuietSkip

\* What precedes an event does not follow it.
LEMMA BeforeOneWay ==
  ASSUME NEW x \in Pair, NEW y \in Pair, Before(x, y)
  PROVE  ~ Before(y, x) /\ x # y
<1>1. x[1] \in Nat /\ x[2] \in Nat /\ y[1] \in Nat /\ y[2] \in Nat
  BY DEF Pair
<1>. QED BY <1>1 DEF Before

LEMMA ReplaySkip ==
  ASSUME TypeInv, OrderInv, SkipInv, Replay
  PROVE  SkipInv'
<1>0. /\ run.todo \in Seq(Cached) /\ run.seq \in Nat /\ client \in Client
      /\ cache \in Seq(Cached)
  BY RunFields DEF TypeInv, StreamTypeOK, Fields
<1>. PICK e \in Cached : e = run.todo[1]
  BY EventReplayed
<1>. PICK len \in Nat \ {0}, seq \in Nat : len = Len(run.todo) /\ seq = run.seq
  BY <1>0, EventReplayed
<1>1. /\ run.pc = "replay" /\ run'.pc = (IF len = 1 THEN "reading" ELSE "replay")
      /\ cache' = cache /\ Sending /\ run'.seq = run.seq
      /\ Len(run'.todo) = len - 1
      /\ \A i \in 1 .. Len(run'.todo) : run'.todo[i] = run.todo[i + 1]
      /\ client' = Received(client, e.frame)
  BY EventReplayed
<1>2. InStep' <=> InStep
  BY EventReplayed DEF Sending, InStep
<1>3. e.frame \in Frame /\ e.n \in Nat /\ e.frame.seen \in Nat /\ e.frame.id \in Nat
  BY DEF Cached, Frame
<1>4. /\ client'.pc = client.pc
      /\ client.pc # "streaming" => client' = client
      /\ client.pc = "streaming" => client'.got = client.got \cup {EventOf(e)}
      /\ client'.cursor \in {client.cursor, e.frame.seen, e.frame.id}
  BY <1>0, <1>1, <1>3, ReceivedFacts DEF EventOf
<1>5. client.cursor \in Nat /\ \A i \in 1 .. len : run.todo[i].n \in Nat
  <2>1. \A i \in 1 .. len : run.todo[i] \in Cached
    BY <1>0, ElementOfSeq
  <2>. QED BY <1>0, <2>1 DEF Client, Cached
<1>6. 1 \in 1 .. len /\ \A i \in 1 .. len - 1 : i + 1 \in 1 .. len
  OBVIOUS
<1>7. ASSUME InStep
      PROVE  /\ Increasing(cache) /\ NumbersUpTo(cache, seq)
             /\ Increasing(run.todo) /\ NumbersUpTo(run.todo, seq)
             /\ client.cursor <= seq
  BY <1>1, <1>7 DEF SkipInv, Numbered
<1>8. Numbered'
  <2>. SUFFICES ASSUME InStep' PROVE Numbered'
    BY DEF Numbered
  <2>1. Increasing(run'.todo)
    <3>1. ASSUME NEW i \in 1 .. Len(run'.todo), NEW j \in 1 .. Len(run'.todo), i < j
          PROVE  run'.todo[i].n < run'.todo[j].n
      <4>1. i + 1 \in 1 .. len /\ j + 1 \in 1 .. len /\ i + 1 < j + 1
        BY <1>1, <3>1
      <4>. QED BY <1>1, <1>2, <1>7, <4>1 DEF Increasing
    <3>. QED BY <3>1 DEF Increasing
  <2>2. NumbersUpTo(run'.todo, seq)
    BY <1>1, <1>2, <1>6, <1>7 DEF NumbersUpTo
  <2>3. e.frame.seen <= e.n /\ e.frame.id <= e.n /\ e.n <= seq
    BY <1>2, <1>6, <1>7 DEF NumbersUpTo
  <2>4. client'.cursor <= seq
    BY <1>2, <1>3, <1>4, <1>7, <2>3
  <2>. QED BY <1>1, <1>2, <1>7, <2>1, <2>2, <2>4 DEF Numbered, Increasing, NumbersUpTo
\* What is missed after the step is later in the replay than what is replayed.
<1>9. ASSUME InStep, client.pc = "streaming", NEW i \in 1 .. Len(cache),
             EventOf(cache[i]) \notin client'.got
      PROVE  /\ Before(EventOf(e), EventOf(cache[i])) /\ e.n < cache[i].n
             /\ run'.pc = "replay" /\ \E j \in 1 .. Len(run'.todo) : run'.todo[j] = cache[i]
  <2>1. EventOf(cache[i]) \notin client.got /\ EventOf(cache[i]) # EventOf(e)
    BY <1>4, <1>9
  <2>2. PICK k \in 1 .. len : run.todo[k] = cache[i]
    BY <1>9, <2>1 DEF SkipInv, MissedBehind
  <2>3. k # 1
    BY <2>1, <2>2
  <2>4. 1 < k /\ len # 1 /\ k - 1 \in 1 .. len - 1 /\ (k - 1) + 1 = k
    <3>1. k \in Nat /\ 1 <= k /\ k <= len
      OBVIOUS
    <3>2. 1 < k
      BY <2>3, <3>1
    <3>3. \A x, y \in Nat : 1 < x /\ x <= y => y # 1 /\ x - 1 \in 1 .. y - 1 /\ (x - 1) + 1 = x
      OBVIOUS
    <3>4. k - 1 \in 1 .. len - 1 /\ len # 1 /\ (k - 1) + 1 = k
      BY <3>1, <3>2, <3>3
    <3>. QED BY <3>2, <3>4
  <2>5. Before(EventOf(e), EventOf(cache[i]))
    BY <1>6, <2>2, <2>4 DEF OrderInv, SentInOrder, EntriesInOrder
  <2>6. e.n < cache[i].n
    BY <1>6, <1>7, <1>9, <2>2, <2>4 DEF Increasing
  <2>7. run'.todo[k - 1] = cache[i]
    BY <1>1, <2>2, <2>4
  <2>. QED BY <1>1, <2>4, <2>5, <2>6, <2>7
<1>10. MissedBehind'
  <2>. SUFFICES ASSUME InStep, NEW i \in 1 .. Len(cache),
                       EventOf(cache[i]) \notin client'.got
                PROVE  /\ cache[i].n > client'.cursor
                       /\ client'.pc = "streaming" =>
                            /\ run'.pc = "replay"
                            /\ \E j \in 1 .. Len(run'.todo) : run'.todo[j] = cache[i]
    BY <1>1, <1>2 DEF MissedBehind, EventOf
  <2>1. CASE client.pc # "streaming"
    BY <1>4, <2>1 DEF SkipInv, MissedBehind
  <2>2. CASE client.pc = "streaming"
    <3>1. /\ e.n < cache[i].n /\ run'.pc = "replay"
          /\ \E j \in 1 .. Len(run'.todo) : run'.todo[j] = cache[i]
      BY <1>9, <2>2
    <3>2. cache[i].n > client.cursor
      BY <1>4, <2>2 DEF SkipInv, MissedBehind
    <3>3. e.frame.seen <= e.n /\ e.frame.id <= e.n
      BY <1>6, <1>7 DEF NumbersUpTo
    <3>4. cache[i].n \in Nat
      <4>1. cache[i] \in Cached
        BY <1>0, ElementOfSeq
      <4>. QED BY <4>1 DEF Cached
    <3>5. cache[i].n > client'.cursor
      BY <1>3, <1>4, <3>1, <3>2, <3>3, <3>4
    <3>. QED BY <3>1, <3>5
  <2>. QED BY <2>1, <2>2
<1>11. NothingSkipped'
  <2>. SUFFICES ASSUME InStep, NEW i \in 1 .. Len(cache), NEW j \in 1 .. Len(cache),
                       i < j, EventOf(cache[j]) \in client'.got,
                       EventOf(cache[i]) \notin client'.got
                PROVE  FALSE
    BY <1>1, <1>2 DEF NothingSkipped, InStep, EventOf
  <2>1. EventOf(cache[i]) \notin client.got
    BY <1>4
  <2>2. EventOf(cache[j]) \notin client.got
    BY <2>1 DEF SkipInv, NothingSkipped, InStep, EventOf
  <2>3. client.pc = "streaming" /\ EventOf(cache[j]) = EventOf(e)
    BY <1>4, <2>2
  <2>4. Before(EventOf(cache[j]), EventOf(cache[i]))
    BY <1>9, <2>3
  <2>5. Before(EventOf(cache[i]), EventOf(cache[j]))
    BY DEF OrderInv, SentInOrder, EntriesInOrder
  <2>. QED BY <2>4, <2>5, ElementsArePairs, BeforeOneWay
<1>12. NothingSent'
  BY <1>1, <1>4 DEF NothingSent, TypeInv, Places
<1>. QED BY <1>8, <1>10, <1>11, <1>12 DEF SkipInv

LEMMA RelaySkip ==
  ASSUME TypeInv, OrderInv, SkipInv, NEW noticed \in BOOLEAN, Relay(noticed)
  PROVE  SkipInv'
<1>0. /\ run.seq \in Nat /\ client \in Client /\ cache \in Seq(Cached)
      /\ client.cursor \in Nat /\ run.frame \in Frame
  BY RunFields DEF TypeInv, StreamTypeOK, Fields, Client
<1>. PICK seq \in Nat, n \in Nat : seq = run.seq /\ n = seq + 1
  BY <1>0
<1>1. PICK sent \in Frame :
        /\ sent = Sent /\ sent.event = run.frame.event
        /\ ~ run'.ahead => ~ run.ahead /\ sent.seen <= n /\ sent.id <= n
  BY EventRelayed
<1>2. /\ run.pc = "relay" /\ run'.pc \in {"flush", "reading"} /\ Sending
      /\ run'.seq = n /\ run'.todo = run.todo
      /\ client' = Received(client, sent)
      /\ cache' \in {<<>>, CachedAfter(cache, n, sent)}
  BY <1>1, EventRelayed
<1>3. InStep' => InStep /\ sent.seen <= n /\ sent.id <= n
  BY <1>1, <1>2 DEF Sending, InStep
<1>4. sent.event = Now /\ run.todo = <<>> /\ client.pc # "idle"
  BY <1>1, <1>2 DEF TypeInv, Places
<1>5. PICK new : new = [n |-> n, frame |-> sent]
  OBVIOUS
<1>6. new.n = n /\ EventOf(new) = Now /\ new.frame = sent
  BY <1>4, <1>5 DEF EventOf
<1>7. cache' = <<>> \/ Continues(cache', cache, new)
  BY <1>0, <1>2, <1>5, CachedAfterFacts
<1>8. /\ client'.pc = client.pc
      /\ client.pc # "streaming" => client' = client
      /\ client.pc = "streaming" => client'.got = client.got \cup {Now}
      /\ client'.cursor \in {client.cursor, sent.seen, sent.id}
  BY <1>0, <1>2, <1>4, ReceivedFacts
<1>9. \A i \in 1 .. Len(cache) : cache[i].n \in Nat
  <2>1. \A i \in 1 .. Len(cache) : cache[i] \in Cached
    BY <1>0, ElementOfSeq
  <2>. QED BY <2>1 DEF Cached
<1>10. Now \notin client.got
  <2>1. \A x \in client.got : Before(x, Now)
    BY <1>2 DEF OrderInv, SentSoFar, Reached
  <2>. QED BY <2>1, NowIsPair, BeforeOneWay
<1>11. ASSUME InStep'
       PROVE  /\ Increasing(cache) /\ NumbersUpTo(cache, seq) /\ client.cursor <= seq
              /\ InStep /\ sent.seen <= n /\ sent.id <= n
  BY <1>3, <1>11 DEF SkipInv, Numbered
\* While the client is served, it has received all that is cached.
<1>12. ASSUME InStep, client.pc = "streaming", NEW k \in 1 .. Len(cache)
       PROVE  EventOf(cache[k]) \in client.got
  BY <1>2, <1>12 DEF SkipInv, MissedBehind
<1>13. Numbered'
  <2>. SUFFICES ASSUME InStep' PROVE Numbered'
    BY DEF Numbered
  <2>1. Increasing(cache') /\ NumbersUpTo(cache', n)
    <3>1. CASE cache' = <<>>
      BY <3>1 DEF Increasing, NumbersUpTo
    <3>2. CASE Continues(cache', cache, new)
      <4>1. ASSUME NEW i \in 1 .. Len(cache'), NEW j \in 1 .. Len(cache'), i < j
            PROVE  cache'[i].n < cache'[j].n
        <5>1. CASE cache'[j] = new
          <6>1. PICK k \in 1 .. Len(cache) : cache'[i] = cache[k]
            BY <3>2, <4>1 DEF Continues
          <6>2. cache[k].n <= seq
            BY <1>11 DEF NumbersUpTo
          <6>. QED BY <1>6, <1>9, <5>1, <6>1, <6>2
        <5>2. CASE cache'[j] # new
          <6>1. PICK k \in 1 .. Len(cache), l \in 1 .. Len(cache) :
                  k < l /\ cache'[i] = cache[k] /\ cache'[j] = cache[l]
            BY <3>2, <4>1, <5>2 DEF Continues
          <6>. QED BY <1>11, <6>1 DEF Increasing
        <5>. QED BY <5>1, <5>2
      <4>2. ASSUME NEW i \in 1 .. Len(cache')
            PROVE  /\ cache'[i].n <= n /\ cache'[i].frame.seen <= cache'[i].n
                   /\ cache'[i].frame.id <= cache'[i].n
        <5>1. CASE cache'[i] = new
          BY <1>6, <1>11, <5>1
        <5>2. CASE cache'[i] # new
          <6>1. PICK k \in 1 .. Len(cache) : cache'[i] = cache[k]
            BY <3>2, <5>2 DEF Continues
          <6>2. /\ cache[k].n <= seq /\ cache[k].frame.seen <= cache[k].n
                /\ cache[k].frame.id <= cache[k].n
            BY <1>11 DEF NumbersUpTo
          <6>. QED BY <1>9, <6>1, <6>2
        <5>. QED BY <5>1, <5>2
      <4>. QED BY <4>1, <4>2 DEF Increasing, NumbersUpTo
    <3>. QED BY <1>7, <3>1, <3>2
  <2>2. Increasing(<<>>) /\ NumbersUpTo(<<>>, n)
    BY DEF Increasing, NumbersUpTo
  <2>3. client'.cursor <= n
    BY <1>0, <1>8, <1>11
  <2>. QED BY <1>2, <1>4, <2>1, <2>2, <2>3 DEF Numbered, Increasing, NumbersUpTo
<1>14. MissedBehind'
  <2>. SUFFICES ASSUME InStep', NEW i \in 1 .. Len(cache'),
                       EventOf(cache'[i]) \notin client'.got
                PROVE  cache'[i].n > client'.cursor /\ client'.pc # "streaming"
    BY DEF MissedBehind, EventOf
  <2>1. Continues(cache', cache, new)
    <3>1. cache' # <<>>
      OBVIOUS
    <3>. QED BY <1>7, <3>1
  <2>2. cache'[i] = new \/ \E k \in 1 .. Len(cache) : cache'[i] = cache[k]
    BY <2>1 DEF Continues
  <2>3. client.pc # "streaming" /\ client' = client
    BY <1>3, <1>6, <1>8, <1>12, <2>2
  <2>4. CASE cache'[i] = new
    BY <1>0, <1>6, <1>11, <2>3, <2>4
  <2>5. ASSUME NEW k \in 1 .. Len(cache), cache'[i] = cache[k]
        PROVE  cache'[i].n > client'.cursor
    BY <1>3, <2>3, <2>5 DEF SkipInv, MissedBehind
  <2>. QED BY <2>2, <2>3, <2>4, <2>5
<1>15. NothingSkipped'
  <2>. SUFFICES ASSUME InStep', NEW i \in 1 .. Len(cache'), NEW j \in 1 .. Len(cache'),
                       i < j, EventOf(cache'[j]) \in client'.got
                PROVE  EventOf(cache'[i]) \in client'.got
    BY DEF NothingSkipped, InStep, EventOf
  <2>1. Continues(cache', cache, new)
    <3>1. cache' # <<>>
      OBVIOUS
    <3>. QED BY <1>7, <3>1
  <2>2. CASE client.pc = "streaming"
    <3>1. PICK k \in 1 .. Len(cache) : cache'[i] = cache[k]
      BY <2>1 DEF Continues
    <3>. QED BY <1>3, <1>8, <1>12, <2>2, <3>1
  <2>3. CASE client.pc # "streaming"
    <3>1. cache'[j] # new
      BY <1>6, <1>8, <1>10, <2>3
    <3>2. PICK k \in 1 .. Len(cache), l \in 1 .. Len(cache) :
            k < l /\ cache'[i] = cache[k] /\ cache'[j] = cache[l]
      BY <2>1, <3>1 DEF Continues
    <3>3. client'.got = client.got
      BY <1>8, <2>3
    <3>. QED BY <1>3, <3>2, <3>3 DEF SkipInv, NothingSkipped, InStep, EventOf
  <2>. QED BY <2>2, <2>3
<1>16. NothingSent'
  BY <1>4, <1>8 DEF NothingSent
<1>. QED BY <1>13, <1>14, <1>15, <1>16 DEF SkipInv

LEMMA SendSkip ==
  ASSUME TypeInv, SkipInv, NEW kind \in Kinds, Send(kind)
  PROVE  SkipInv'
<1>1. /\ Fresh /\ client.pc = "idle" /\ run'.todo = <<>> /\ run'.seq = 0 /\ run'.pc = "reading"
  BY MessageSent
<1>2. cache' = <<>> /\ client'.cursor = 0 /\ client'.pc # "idle"
  BY <1>1 DEF SkipInv, NothingSent, Fresh
<1>3. Numbered'
  <2>1. Increasing(<<>>) /\ NumbersUpTo(<<>>, 0) /\ 0 <= 0
    BY DEF Increasing, NumbersUpTo
  <2>. QED BY <1>1, <1>2, <2>1 DEF Numbered, Increasing, NumbersUpTo
<1>4. MissedBehind' /\ NothingSkipped'
  BY <1>2 DEF MissedBehind, NothingSkipped
<1>. QED BY <1>2, <1>3, <1>4 DEF SkipInv, NothingSent

LEMMA ResumeSkip ==
  ASSUME TypeInv, SkipInv, NEW kind \in Kinds, Resume(kind)
  PROVE  SkipInv'
<1>0. client.cursor \in Nat /\ cache \in Seq(Cached) /\ run.no \in Nat
  BY NowIsPair DEF TypeInv, StreamTypeOK, Client
<1>. PICK cursor \in Nat : cursor = client.cursor
  BY <1>0
<1>1. PICK todo \in Seq(Cached) : todo = run'.todo /\ todo = Replayed(cache, cursor)
  BY MessageResumed
<1>2. /\ Fresh /\ client.pc = "recoverable"
      /\ run'.since = IF cursor = 0 THEN run.no + 1 ELSE run.since
      /\ run'.pc = IF todo = <<>> THEN "reading" ELSE "replay"
      /\ run'.seq = IF todo = <<>> THEN cursor ELSE Top(todo)
  BY <1>1, MessageResumed
<1>3. /\ cache' = cache /\ client'.cursor = cursor /\ client'.got = client.got
      /\ client'.pc = "streaming"
  BY <1>2 DEF Fresh
<1>4. PICK seq \in Nat : seq = run'.seq
  BY <1>1, <1>2, TopFacts
<1>5. run.no >= 1
  BY <1>2 DEF TypeInv, Places
<1>6. ASSUME InStep'
      PROVE  InStep /\ cursor # 0
  BY <1>0, <1>2, <1>5, <1>6, MessageResumed DEF InStep
<1>7. ASSUME InStep'
      PROVE  /\ \A i \in 1 .. Len(todo) : \E k \in 1 .. Len(cache) : todo[i] = cache[k] /\ cache[k].n > cursor
             /\ \A i, j \in 1 .. Len(todo) : i < j =>
                  \E k, l \in 1 .. Len(cache) : k < l /\ todo[i] = cache[k] /\ todo[j] = cache[l]
             /\ \A k \in 1 .. Len(cache) : cache[k].n > cursor => \E i \in 1 .. Len(todo) : todo[i] = cache[k]
  <2>1. PICK keep : /\ keep = {k \in 1 .. Len(cache) : cache[k].n > cursor}
                    /\ Picks(todo, cache, keep, Len(cache))
    BY <1>0, <1>1, <1>6, <1>7, ReplayedFacts
  <2>2. \A k \in 1 .. Len(cache) : k \in keep <=> cache[k].n > cursor
    BY <2>1
  <2>3. \A i \in 1 .. Len(todo) : \E k \in 1 .. Len(cache) : todo[i] = cache[k] /\ cache[k].n > cursor
    BY <2>1, <2>2 DEF Picks
  <2>4. \A i, j \in 1 .. Len(todo) : i < j =>
          \E k, l \in 1 .. Len(cache) : k < l /\ todo[i] = cache[k] /\ todo[j] = cache[l]
    <3>1. \A i, j \in 1 .. Len(todo) : i < j =>
            \E k, l \in 1 .. Len(cache) :
               k < l /\ k \in keep /\ l \in keep /\ todo[i] = cache[k] /\ todo[j] = cache[l]
      BY <2>1, Zenon DEF Picks
    <3>. QED BY <3>1, Zenon
  <2>5. \A k \in 1 .. Len(cache) : cache[k].n > cursor => \E i \in 1 .. Len(todo) : todo[i] = cache[k]
    BY <2>1, <2>2 DEF Picks
  <2>. QED BY <2>3, <2>4, <2>5
<1>8. \A i \in 1 .. Len(cache) : cache[i].n \in Nat
  <2>1. \A i \in 1 .. Len(cache) : cache[i] \in Cached
    BY <1>0, ElementOfSeq
  <2>. QED BY <2>1 DEF Cached
<1>9. \A i \in 1 .. Len(todo) : todo[i].n <= seq
  <2>1. CASE todo = <<>>
    BY <2>1
  <2>2. CASE todo # <<>>
    BY <1>2, <1>4, <2>2, TopFacts
  <2>. QED BY <2>1, <2>2
<1>10. ASSUME InStep' PROVE cursor <= seq
  <2>1. CASE todo = <<>>
    BY <1>2, <1>4, <2>1
  <2>2. CASE todo # <<>>
    <3>1. 1 \in 1 .. Len(todo)
      BY <2>2, EmptySeq, LenProperties
    <3>2. PICK k \in 1 .. Len(cache) : todo[1] = cache[k] /\ cache[k].n > cursor
      BY <1>7, <1>10, <3>1
    <3>. QED BY <1>8, <1>9, <3>1, <3>2
  <2>. QED BY <2>1, <2>2
<1>11. Numbered'
  <2>. SUFFICES ASSUME InStep' PROVE Numbered'
    BY DEF Numbered
  <2>1. Increasing(cache) /\ NumbersUpTo(cache, run.seq)
    BY <1>6 DEF SkipInv, Numbered
  <2>2. Increasing(todo)
    <3>1. ASSUME NEW i \in 1 .. Len(todo), NEW j \in 1 .. Len(todo), i < j
          PROVE  todo[i].n < todo[j].n
      <4>1. PICK k \in 1 .. Len(cache), l \in 1 .. Len(cache) :
              k < l /\ todo[i] = cache[k] /\ todo[j] = cache[l]
        BY <1>7, <3>1
      <4>. QED BY <2>1, <4>1 DEF Increasing
    <3>. QED BY <3>1 DEF Increasing
  <2>3. NumbersUpTo(todo, seq)
    <3>1. \A i \in 1 .. Len(todo) :
            todo[i].frame.seen <= todo[i].n /\ todo[i].frame.id <= todo[i].n
      BY <1>7, <2>1 DEF NumbersUpTo
    <3>. QED BY <1>9, <3>1 DEF NumbersUpTo
  <2>4. NumbersUpTo(cache, seq)
    <3>1. ASSUME NEW i \in 1 .. Len(cache) PROVE cache[i].n <= seq
      <4>1. CASE cache[i].n > cursor
        BY <1>7, <1>9, <4>1
      <4>2. CASE ~ (cache[i].n > cursor)
        BY <1>8, <1>10, <4>2
      <4>. QED BY <4>1, <4>2
    <3>. QED BY <2>1, <3>1 DEF NumbersUpTo
  <2>. QED BY <1>1, <1>3, <1>4, <1>10, <2>1, <2>2, <2>3, <2>4
       DEF Numbered, Increasing, NumbersUpTo
<1>12. MissedBehind'
  <2>. SUFFICES ASSUME InStep', NEW i \in 1 .. Len(cache),
                       EventOf(cache[i]) \notin client.got
                PROVE  /\ cache[i].n > cursor /\ run'.pc = "replay"
                       /\ \E j \in 1 .. Len(todo) : todo[j] = cache[i]
    BY <1>1, <1>3 DEF MissedBehind, EventOf
  <2>1. cache[i].n > cursor
    BY <1>6 DEF SkipInv, MissedBehind
  <2>2. PICK j \in 1 .. Len(todo) : todo[j] = cache[i]
    BY <1>7, <2>1
  <2>3. todo # <<>>
    BY <2>2
  <2>. QED BY <1>2, <2>1, <2>2, <2>3
<1>13. NothingSkipped'
  BY <1>3, <1>6 DEF SkipInv, NothingSkipped, InStep
<1>. QED BY <1>3, <1>11, <1>12, <1>13 DEF SkipInv, NothingSent

LEMMA InitSkip == StreamInit => SkipInv
<1>. SUFFICES ASSUME StreamInit PROVE SkipInv
  OBVIOUS
<1>1. run.since = 0 /\ cache = <<>> /\ client.got = {} /\ client.cursor = 0
  BY DEF StreamInit, NoRun
<1>. QED BY <1>1 DEF SkipInv, Numbered, MissedBehind, NothingSkipped, NothingSent, InStep

LEMMA SkipStep == TypeInv /\ OrderInv /\ SkipInv /\ [StreamNext]_streamVars => SkipInv'
<1>. SUFFICES ASSUME TypeInv, OrderInv, SkipInv, [StreamNext]_streamVars PROVE SkipInv'
  OBVIOUS
<1>1. CASE UNCHANGED streamVars
  BY <1>1 DEF streamVars, SkipInv, Numbered, MissedBehind, NothingSkipped, NothingSent,
              InStep, Increasing, NumbersUpTo, EventOf
<1>2. ASSUME NEW kind \in Kinds, Send(kind) \/ Resume(kind) PROVE SkipInv'
  BY <1>2, SendSkip, ResumeSkip
<1>3. CASE LoseConnection \/ NoticeLoss \/ Crash
  <2>1. run.pc # "over" /\ client.pc # "idle"
    BY <1>3 DEF LoseConnection, NoticeLoss, Crash, TypeInv, Places
  <2>2. Ending /\ client'.pc # "streaming"
    BY <1>3, LossSteps
  <2>3. client'.pc # "idle"
    BY <2>1, <2>2 DEF Ending
  <2>. QED BY <2>1, <2>2, <2>3, EndingSkip
<1>4. CASE StreamEnds \/ StreamFails \/ HeartbeatFails
  <2>1. Ending /\ run.pc = "reading"
    BY <1>4, StreamStops
  <2>2. client.pc # "idle"
    BY <2>1 DEF TypeInv, Places
  <2>3. client'.pc # "idle" /\ (client'.pc = "streaming" => client.pc = "streaming")
    BY <2>1, <2>2 DEF Ending
  <2>. QED BY <2>1, <2>2, <2>3, EndingSkip
<1>5. CASE EndRecord \/ \E applied \in BOOLEAN : EndFails(applied)
  <2>1. Ending /\ run.pc \in {"flush", "final", "record"} /\ client'.pc # "streaming"
    BY <1>5, EndRecords
  <2>2. client.pc # "idle"
    BY <2>1 DEF TypeInv, Places
  <2>3. client'.pc # "idle"
    BY <2>1, <2>2 DEF Ending
  <2>. QED BY <2>1, <2>2, <2>3, EndingSkip
<1>6. CASE EndFlush \/ EndFinalBlock
  <2>1. /\ client' = client /\ cache' = cache /\ Frozen
        /\ run.pc \in {"flush", "final"} /\ run'.pc \in {"final", "record"}
    BY <1>6, EndStores, EndCompletes
  <2>2. client.pc # "idle" /\ SameCopy
    BY <2>1 DEF TypeInv, Places, SameCopy
  <2>3. Quiet
    BY <2>1, <2>2 DEF Quiet, Frozen
  <2>. QED BY <2>3, QuietSkip
<1>7. ASSUME NEW parts \in Shapes, NEW u \in Upstream,
             ReadStatus(parts, u) \/ ReadText(parts, u) \/ ReadQuestion(parts, u)
      PROVE  SkipInv'
  <2>1. Reading /\ client' = client
    BY <1>7, StatusIsRead, TextIsRead, QuestionIsRead DEF HandedOn
  <2>2. SameCopy
    BY <2>1 DEF SameCopy
  <2>. QED BY <2>1, <2>2, ReadingSkip
<1>8. ASSUME NEW parts \in Shapes, NEW u \in Upstream, NEW applied \in BOOLEAN,
             ReadFails(parts, u, applied)
      PROVE  SkipInv'
  <2>1. Reading /\ SameCopy /\ client'.pc \in {client.pc, "failed"}
    BY <1>8, ReadingFails
  <2>. QED BY <2>1, ReadingSkip
<1>9. CASE Replay
  BY <1>9, ReplaySkip
<1>10. ASSUME NEW noticed \in BOOLEAN, Relay(noticed) PROVE SkipInv'
  BY <1>10, RelaySkip
<1>. QED
  BY <1>1, <1>2, <1>3, <1>4, <1>5, <1>6, <1>7, <1>8, <1>9, <1>10 DEF StreamNext

\* No resumption with a number skips a cached event and goes on after it, wherever the
\* connection is lost and whatever the cache drops, as long as no frame showed the client a
\* number above the one it is cached under.
THEOREM NothingSkippedHolds == StreamSpec => []NothingSkipped
<1>1. StreamSpec => [](TypeInv /\ OrderInv /\ SkipInv)
  BY InitTypes, TypeStep, InitOrder, OrderStep, InitSkip, SkipStep, PTL DEF StreamSpec
<1>2. SkipInv => NothingSkipped
  BY DEF SkipInv
<1>. QED BY <1>1, <1>2, PTL

=============================================================================
