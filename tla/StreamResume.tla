---------------------------- MODULE StreamResume ----------------------------
(***************************************************************************)
(* The delivery of ONE agent message: the run that reads the agent's       *)
(* stream, stores it in batches and sends it on                            *)
(* (invoke/stream_persistence.py, invoke/service_streaming_transport.py),  *)
(* the cache of what was sent (invoke/stream_cache/memory_cache.py), and   *)
(* the client, which resumes an interrupted message with the number it has *)
(* reached (src/frontend/store/chatRuntime.ts, chat.ts). A resumption is   *)
(* another run of the same request: what is cached is replayed, then the   *)
(* agent is asked again.                                                   *)
(*                                                                         *)
(* Three numberings meet: seq counts the events sent and continues over    *)
(* resumptions; pseq counts the stored updates, text and questions, and    *)
(* starts again at 1; and a status may bring a number of the agent's own.  *)
(*                                                                         *)
(* All texts append to one text block, and every question is a block of    *)
(* its own, of which only the presence is kept (BlockReducers has the      *)
(* rest). An event is the pair of its run and its place in it. Faults:     *)
(* the connection is lost, noticed late or never; the process crashes; a   *)
(* commit fails, before or after it took effect.                           *)
(***************************************************************************)
EXTENDS Naturals, Sequences, FiniteSets

CONSTANTS
  Kinds,       \* transports: "sse", "ws"
  Shapes,      \* what an event of the agent is made of, as a set of Parts
  Upstream,    \* numbers of the agent's own on a status, 0 for none
  FlushLimit,  \* STREAM_BLOCK_FLUSH_CHUNK_LIMIT
  CacheLimit,  \* _DEFAULT_MAX_EVENTS_PER_KEY
  MaxRuns,     \* bound: the first run and its resumptions
  MaxEvents    \* bound: events of the agent in one run

\* text for the text block, the end of that block, a state of the task, a
\* question to the user, and a state that ends the stream (input-required too)
Parts == {"text", "end", "status", "ask", "terminal"}

ASSUME StreamAssumption ==
  /\ Kinds \subseteq {"sse", "ws"} /\ Kinds # {}
  /\ Shapes \subseteq SUBSET Parts /\ Upstream \subseteq Nat
  /\ \A parts \in Shapes :
       /\ "ask" \in parts \/ "terminal" \in parts => "status" \in parts
       /\ "end" \in parts => "text" \in parts
  /\ {FlushLimit, CacheLimit, MaxRuns, MaxEvents} \subseteq Nat \ {0}

VARIABLES
  db,      \* the stored message: status, text, open block, questions, cursor
  run,     \* the latest run of the request
  cache,   \* cached events of the message, oldest first
  client   \* the user's copy of the message

streamVars == <<db, run, cache, client>>

-----------------------------------------------------------------------------
(* State *)

Event == (1 .. MaxRuns) \X (1 .. MaxEvents)
ErrorEvent == <<0, 0>>   \* the error text as stored content

\* What travels: the event and its parts. A text shows the client the number
\* it is stored under, by which it also removes duplicates (id); a status
\* shows the agent's own number or that of the stream (seen). 0 for none.
Frame == [event : Event, parts : SUBSET Parts, seen : Nat, id : Nat]

IsText(frame) == "text" \in frame.parts

Cached == [n : Nat, frame : Frame]

DB == [status : {"none", "streaming", "done", "interrupted", "error"},
       text : Seq(Event \cup {ErrorEvent}), open : BOOLEAN, asked : BOOLEAN, last : Nat]

\* places: replaying cached events, waiting for the agent, an event stored and
\* not yet sent, the three transactions of the end, over.
StreamRun == [no : 0 .. MaxRuns, kind : {"sse", "ws"},
        pc : {"over", "replay", "reading", "relay", "flush", "final", "record"},
        since : 0 .. MaxRuns,          \* history: latest run begun with no number
        ahead : BOOLEAN,               \* history: see Relay
        todo : Seq(Cached),            \* cached events to replay
        seq : Nat, pseq : Nat,         \* seq_counter, next_event_seq
        count : Nat,                   \* events read from the agent
        buffer : Seq([n : Nat, event : Event, open : BOOLEAN]),
        acc : Seq(Event),              \* accumulated text
        frame : Frame,                 \* the event between storing and sending
        outcome : {"none", "done", "interrupted", "error"}]

Client == [pc : {"idle", "streaming", "recoverable", "failed", "done"},
           cursor : Nat,               \* lastReceivedSequence, 0 for none
           shown : Seq(Event),         \* text of the message
           ids : SUBSET Nat,           \* seenEventIds of this connection
           got : SUBSET Event]         \* history: events that have arrived


NoFrame == [event |-> <<1, 1>>, parts |-> {}, seen |-> 0, id |-> 0]
NoRun == [no |-> 0, kind |-> "sse", pc |-> "over", since |-> 0, ahead |-> FALSE,
          todo |-> <<>>, seq |-> 0, pseq |-> 1, count |-> 0, buffer |-> <<>>, acc |-> <<>>,
          frame |-> NoFrame, outcome |-> "none"]

Images(s) == {s[k] : k \in 1 .. Len(s)}

\* The elements of s at the places in keep, in their order.
Picked(s, keep) ==
  LET upTo[k \in 0 .. Len(s)] ==
        IF k = 0 THEN <<>>
        ELSE IF k \in keep THEN Append(upTo[k - 1], s[k]) ELSE upTo[k - 1]
  IN upTo[Len(s)]

Larger(a, b) == IF a > b THEN a ELSE b

StreamInit ==
  /\ db = [status |-> "none", text |-> <<>>, open |-> FALSE, asked |-> FALSE, last |-> 0]
  /\ run = NoRun
  /\ cache = <<>>
  /\ client = [pc |-> "idle", cursor |-> 0, shown |-> <<>>, ids |-> {}, got |-> {}]

-----------------------------------------------------------------------------
(* Storing *)

\* Mutant: the number of an update is not compared with the cursor.
WrittenAlways(d, e) ==
  [d EXCEPT !.text = Append(@, e.event), !.open = e.open, !.last = e.n]

\* append_agent_message_block_update for an append; the cursor's number.
Written(d, e) ==
  IF e.n <= d.last THEN d
  ELSE [d EXCEPT !.text = Append(@, e.event), !.open = e.open, !.last = e.n]

WrittenAll(d, buf) ==
  LET upTo[k \in 0 .. Len(buf)] == IF k = 0 THEN d ELSE Written(upTo[k - 1], buf[k])
  IN upTo[Len(buf)]

\* flush_stream_buffer empties the buffer only when something was applied.
Kept(d, buf) == IF WrittenAll(d, buf) = d THEN buf ELSE <<>>

\* persist_interrupt_lifecycle_event: the question is a block of its own,
\* which closes the text block until the next text.
WithQuestion(d, n) ==
  IF n <= d.last THEN d ELSE [d EXCEPT !.asked = TRUE, !.open = FALSE, !.last = n]

\* ensure_local_message_headers: the row of a new message.
WithHeader(d) == IF d.status = "none" THEN [d EXCEPT !.status = "streaming"] ELSE d

\* persist_synthetic_final_block_if_needed: a message of no block gets the
\* accumulated text.
WithFinalBlock(d, r) ==
  IF r.acc = <<>> \/ d.text # <<>> \/ d.asked THEN d
  ELSE [d EXCEPT !.text = r.acc, !.open = FALSE, !.last = r.pseq]

\* record_local_invoke_messages: the outcome; new metadata, without a cursor;
\* the accumulated text, or that of the error, overwrites a message of no
\* block or of a finished text block.
Recorded(d, r) ==
  LET response == IF r.acc # <<>> THEN r.acc
                  ELSE IF r.outcome = "error" THEN <<ErrorEvent>> ELSE <<>>
      snapshot == response # <<>> /\ ~d.open /\ ~d.asked
  IN [status |-> r.outcome, last |-> 0, open |-> d.open, asked |-> d.asked,
      text |-> IF snapshot THEN response ELSE d.text]

-----------------------------------------------------------------------------
(* The cache, and what the client does with a frame *)

\* An event with the same number is replaced.
Appended(c, n, frame) ==
  Append(Picked(c, {k \in 1 .. Len(c) : c[k].n # n}), [n |-> n, frame |-> frame])

\* Mutant: the limit is not applied.
CachedForever(c, n, frame) == Appended(c, n, frame)

\* append_event: the oldest leave.
CachedAfter(c, n, frame) ==
  LET c2 == Appended(c, n, frame)
  IN SubSeq(c2, Len(c2) + 1 - (IF Len(c2) > CacheLimit THEN CacheLimit ELSE Len(c2)),
            Len(c2))

\* Mutant: the first missing event is taken for the last one received.
ReplayedFromNext(c, cursor) ==
  IF cursor = 0 THEN <<>> ELSE Picked(c, {k \in 1 .. Len(c) : c[k].n > cursor + 1})

\* get_events_with_sequence_after; nothing without a number to resume from.
Replayed(c, cursor) ==
  IF cursor = 0 THEN <<>> ELSE Picked(c, {k \in 1 .. Len(c) : c[k].n > cursor})

\* applyIncomingStreamData: the cursor moves to the number of a status, then
\* to that of a text; a text whose id was seen is dropped and does not move it.
Received(c, frame) ==
  LET got == c.got \cup {frame.event}
      reached == Larger(c.cursor, frame.seen)
  IN IF c.pc # "streaming" THEN c
     ELSE IF IsText(frame) /\ frame.id \notin c.ids
     THEN [c EXCEPT !.got = got, !.ids = @ \cup {frame.id},
                    !.cursor = Larger(reached, frame.id),
                    !.shown = Append(@, frame.event)]
     ELSE [c EXCEPT !.got = got, !.cursor = reached]

\* What ends the client's connection: its loss, the error event, the end of
\* the transport with or without the acknowledgement.
Left(c, pc) == IF c.pc = "streaming" THEN [c EXCEPT !.pc = pc] ELSE c

-----------------------------------------------------------------------------
(* The client *)

\* sendMessage.
Send(kind) ==
  /\ client.pc = "idle"
  /\ run' = [NoRun EXCEPT !.no = 1, !.kind = kind, !.pc = "reading", !.since = 1]
  /\ client' = [client EXCEPT !.pc = "streaming"]
  /\ UNCHANGED <<db, cache>>

\* resumeMessage: the same request once the guard has let go of the last run;
\* the stream continues the numbers of the cache, or the client's.
Resume(kind) ==
  LET todo == Replayed(cache, client.cursor)
      top == IF todo = <<>> THEN client.cursor
             ELSE CHOOSE n \in {e.n : e \in Images(todo)} :
                    \A e \in Images(todo) : e.n <= n
  IN /\ client.pc = "recoverable" /\ run.pc = "over" /\ run.no < MaxRuns
     /\ run' = [NoRun EXCEPT
                  !.no = run.no + 1, !.kind = kind, !.todo = todo,
                  !.pc = IF todo = <<>> THEN "reading" ELSE "replay",
                  !.since = IF client.cursor = 0 THEN run.no + 1 ELSE run.since,
                  !.ahead = run.ahead, !.seq = top]
     /\ client' = [client EXCEPT !.pc = "streaming", !.ids = {}]
     /\ UNCHANGED <<db, cache>>

\* The connection is lost; the run does not know yet.
LoseConnection ==
  /\ client.pc = "streaming" /\ run.pc # "over"
  /\ client' = [client EXCEPT !.pc = "recoverable"]
  /\ UNCHANGED <<db, run, cache>>

-----------------------------------------------------------------------------
(* The run *)

\* One cached event is accumulated and sent again.
Replay ==
  /\ run.pc = "replay"
  /\ LET frame == Head(run.todo).frame IN
       /\ client' = Received(client, frame)
       /\ run' = [run EXCEPT
             !.todo = Tail(@),
             !.pc = IF Len(run.todo) = 1 THEN "reading" ELSE "replay",
             !.acc = IF IsText(frame) THEN Append(@, frame.event) ELSE @]
  /\ UNCHANGED <<db, cache>>

\* u is the agent's own number of a status.
ReadFrame(parts, u) ==
  [event |-> <<run.no, run.count + 1>>, parts |-> parts,
   seen |-> IF "status" \in parts THEN u ELSE 0,
   id |-> IF "text" \in parts THEN run.pseq ELSE 0]

\* The buffer and the next number after the text of the event, if it has one.
Buffered(frame) ==
  IF ~IsText(frame) THEN run.buffer
  ELSE Append(run.buffer, [n |-> run.pseq, event |-> frame.event,
                           open |-> "end" \notin frame.parts])
NextNumber(frame) == IF IsText(frame) THEN run.pseq + 1 ELSE run.pseq

MustFlush(frame) == "end" \in frame.parts \/ Len(run.buffer) + 1 >= FlushLimit

\* An event of the agent, and on_event for it. A status alone stores nothing.
ReadStatus(parts, u) ==
  /\ run.pc = "reading" /\ run.count < MaxEvents
  /\ "text" \notin parts /\ "ask" \notin parts
  /\ run' = [run EXCEPT !.pc = "relay", !.count = @ + 1, !.frame = ReadFrame(parts, u)]
  /\ UNCHANGED <<db, cache, client>>

\* persist_stream_block_update: a text is buffered under its number.
ReadText(parts, u) ==
  LET frame == ReadFrame(parts, u)
      flush == MustFlush(frame)
      buf == Buffered(frame)
  IN /\ run.pc = "reading" /\ run.count < MaxEvents
     /\ "text" \in parts /\ "ask" \notin parts
     /\ db' = IF flush THEN WrittenAll(WithHeader(db), buf) ELSE WithHeader(db)
     /\ run' = [run EXCEPT
           !.pc = "relay", !.count = @ + 1, !.frame = frame, !.pseq = NextNumber(frame),
           !.buffer = IF flush THEN Kept(WithHeader(db), buf) ELSE buf]
     /\ UNCHANGED <<cache, client>>

\* A question, with a text or without: everything before it is stored first; it
\* takes the next number, unless the message's cursor covers that already.
ReadQuestion(parts, u) ==
  LET frame == ReadFrame(parts, u)
      n == NextNumber(frame)
      flushed == WrittenAll(WithHeader(db), Buffered(frame))
  IN /\ run.pc = "reading" /\ run.count < MaxEvents
     /\ "ask" \in parts
     /\ db' = WithQuestion(flushed, n)
     /\ run' = [run EXCEPT
           !.pc = "relay", !.count = @ + 1, !.frame = frame,
           !.pseq = IF n <= flushed.last THEN n ELSE n + 1,
           !.buffer = Kept(WithHeader(db), Buffered(frame))]
     /\ UNCHANGED <<cache, client>>

\* A commit of on_event raises, having taken effect or not: of the message's
\* row, which a run ensures once, of the flush, or of the question. The stream
\* ends with an error, the event is neither cached nor sent.
ReadFails(parts, u, applied) ==
  LET frame == ReadFrame(parts, u)
      buf == Buffered(frame)
      n == NextNumber(frame)
      flushed == WrittenAll(WithHeader(db), buf)
      failed(kept, next) ==
        [run EXCEPT !.pc = "flush", !.count = @ + 1, !.pseq = next, !.buffer = kept,
                    !.outcome = "error"]
  IN /\ run.pc = "reading" /\ run.count < MaxEvents
     /\ "text" \in parts \/ "ask" \in parts
     /\ \/ /\ run.pseq = 1
           /\ db' = IF applied THEN WithHeader(db) ELSE db
           /\ run' = failed(run.buffer, run.pseq)
        \/ /\ "ask" \in parts \/ MustFlush(frame)
           /\ db' = IF applied THEN flushed ELSE WithHeader(db)
           /\ run' = failed(buf, n)
        \/ /\ "ask" \in parts
           /\ db' = IF applied THEN WithQuestion(flushed, n) ELSE flushed
           /\ run' = failed(Kept(WithHeader(db), buf), n)
     /\ client' = Left(client, "failed")
     /\ UNCHANGED cache

\* The event gets its number, is cached, accumulated and sent. A terminal
\* status is the last: the cached events are dropped. A connection lost shows
\* in sending: a WebSocket run ends as interrupted, an SSE run is closed where
\* it waits to send, and ends as if the stream had been read to its end. The
\* history ahead: a frame showed the client a number above its place in the
\* cache, the agent's own, or that of a text after an event stored twice.
Relay(noticed) ==
  LET n == run.seq + 1
      frame == IF "status" \in run.frame.parts /\ run.frame.seen = 0
               THEN [run.frame EXCEPT !.seen = n] ELSE run.frame
      final == "terminal" \in frame.parts
      lost == IF run.kind = "ws" THEN "interrupted" ELSE "done"
  IN /\ run.pc = "relay"
     /\ noticed => client.pc # "streaming"
     /\ cache' = IF final THEN <<>> ELSE CachedAfter(cache, n, frame)
     /\ client' = Received(client, frame)
     /\ run' = [run EXCEPT
           !.seq = n, !.frame = NoFrame,
           !.ahead = @ \/ Larger(frame.seen, frame.id) > n,
           !.acc = IF IsText(frame) THEN Append(@, frame.event) ELSE @,
           !.pc = IF final \/ noticed THEN "flush" ELSE "reading",
           !.outcome = IF noticed THEN lost ELSE IF final THEN "done" ELSE @]
     /\ UNCHANGED db

\* The agent's stream ends without a terminal status, or fails; the client may
\* resume after a failure of the transport.
StreamEnds ==
  /\ run.pc = "reading"
  /\ run' = [run EXCEPT !.pc = "flush", !.outcome = "done"]
  /\ UNCHANGED <<db, cache, client>>

StreamFails ==
  /\ run.pc = "reading"
  /\ run' = [run EXCEPT !.pc = "flush", !.outcome = "error"]
  /\ \E pc \in {"failed", "recoverable"} : client' = Left(client, pc)
  /\ UNCHANGED <<db, cache>>

\* A WebSocket run that waits for the agent notices the loss in sending a
\* heartbeat.
HeartbeatFails ==
  /\ run.pc = "reading" /\ run.kind = "ws" /\ client.pc # "streaming"
  /\ run' = [run EXCEPT !.pc = "flush", !.outcome = "interrupted"]
  /\ UNCHANGED <<db, cache, client>>

\* on_finalized: the last flush, the row and its text if nothing was stored,
\* then the outcome, then the acknowledgement.
EndFlush ==
  /\ run.pc = "flush"
  /\ db' = WrittenAll(db, run.buffer)
  /\ run' = [run EXCEPT !.pc = "final", !.buffer = Kept(db, run.buffer)]
  /\ UNCHANGED <<cache, client>>

EndFinalBlock ==
  /\ run.pc = "final"
  /\ db' = WithFinalBlock(WithHeader(db), run)
  /\ run' = [run EXCEPT !.pc = "record"]
  /\ UNCHANGED <<cache, client>>

EndRecord ==
  /\ run.pc = "record"
  /\ db' = Recorded(db, run)
  /\ run' = [run EXCEPT !.pc = "over"]
  /\ client' = Left(client, "done")
  /\ UNCHANGED cache

\* What the transaction of the end that comes next stores.
Ended == CASE run.pc = "flush" -> WrittenAll(db, run.buffer)
           [] run.pc = "final" -> WithFinalBlock(WithHeader(db), run)
           [] OTHER -> Recorded(db, run)

\* Mutant: the failure of the flush is logged and the outcome recorded.
EndFailsAtRecord(applied) ==
  /\ run.pc \in {"flush", "final", "record"}
  /\ db' = IF ~applied THEN db ELSE Ended
  /\ run' = [run EXCEPT !.pc = IF @ = "flush" THEN "final" ELSE "over",
                        !.buffer = <<>>]
  /\ client' = IF run.pc = "flush" THEN client ELSE Left(client, "recoverable")
  /\ UNCHANGED cache

\* A commit at the end raises, having taken effect or not: the transport ends
\* without an acknowledgement.
EndFails(applied) ==
  /\ run.pc \in {"flush", "final", "record"}
  /\ db' = IF ~applied THEN db ELSE Ended
  /\ run' = [run EXCEPT !.pc = "over"]
  /\ client' = Left(client, "recoverable")
  /\ UNCHANGED cache

\* The loss is noticed while the run waits for the agent or the database: an
\* SSE run is cancelled there, and again in its clean-up; a WebSocket run
\* fails in sending a replayed event, before the part that cleans up.
NoticeLoss ==
  /\ client.pc # "streaming" /\ run.pc # "over"
  /\ run.kind = "sse" \/ run.pc = "replay"
  /\ run' = [run EXCEPT !.pc = "over"]
  /\ UNCHANGED <<db, cache, client>>

Crash ==
  /\ run.pc # "over"
  /\ run' = [run EXCEPT !.pc = "over"]
  /\ cache' = <<>>
  /\ client' = Left(client, "recoverable")
  /\ UNCHANGED db

StreamNext ==
  \/ \E kind \in Kinds : Send(kind) \/ Resume(kind)
  \/ LoseConnection
  \/ Replay
  \/ \E parts \in Shapes, u \in Upstream :
       \/ ReadStatus(parts, u) \/ ReadText(parts, u) \/ ReadQuestion(parts, u)
       \/ \E applied \in BOOLEAN : ReadFails(parts, u, applied)
  \/ \E noticed \in BOOLEAN : Relay(noticed)
  \/ StreamEnds \/ StreamFails \/ HeartbeatFails
  \/ EndFlush \/ EndFinalBlock \/ EndRecord
  \/ \E applied \in BOOLEAN : EndFails(applied)
  \/ NoticeLoss
  \/ Crash

StreamSpec == StreamInit /\ [][StreamNext]_streamVars

-----------------------------------------------------------------------------
(* Properties *)

StreamTypeOK ==
  /\ db \in DB /\ run \in StreamRun /\ client \in Client
  /\ cache \in Seq(Cached) /\ Len(cache) <= CacheLimit

\* No update is stored twice, and the updates of one run are stored in the
\* order the agent sent them, although a failed flush is tried again with the
\* updates that may have been committed, and resumptions number from 1 again.
StoredOnce ==
  \A i, j \in 1 .. Len(db.text) : i < j /\ db.text[i][1] = db.text[j][1] =>
     db.text[i][2] < db.text[j][2]

\* What has reached the client is a prefix of what the cache holds, as long as
\* it resumed with a number and no frame showed it a number above the frame's
\* place in the cache: wherever the connection is lost, also while missed
\* events are replayed, and although a resumption numbers its texts from 1
\* again, no resumption skips a cached event and goes on after it. Without the
\* second condition the code does skip events (see the README).
NothingSkipped ==
  run.since = 1 /\ ~run.ahead =>
    \A i, j \in 1 .. Len(cache) :
       i < j /\ cache[j].frame.event \in client.got => cache[i].frame.event \in client.got

\* When the user's message is complete, the row says so; and unless the
\* message had to be resumed, what is stored is what is shown, whatever
\* commits failed before.
AckMeansStored ==
  client.pc = "done" =>
     /\ db.status = "done"
     /\ run.no = 1 => db.text = client.shown

=============================================================================
