--------------------------- MODULE BlockReducers ---------------------------
(***************************************************************************)
(* The blocks of ONE agent message while it is streamed. The same block    *)
(* updates are folded three times: into the stored blocks                  *)
(* (sessions/history_projection_blocks.py), in batches of the persistence  *)
(* buffer (invoke/stream_persistence.py); into the text the process keeps  *)
(* for the end of the stream (StreamTextAccumulator of                     *)
(* invoke/service_streaming.py); and into what the user sees               *)
(* (src/frontend/lib/api/chatStreamBlocks.ts). When the stream has ended,  *)
(* the accumulated text may overwrite the stored one.                      *)
(*                                                                         *)
(* A block's text is the sequence of the numbers of the updates it is made *)
(* of. Abstracted: failures of the database and the connection             *)
(* (StreamResume), tool-call views, and the trimming of a text that        *)
(* repeats the reasoning before it.                                        *)
(***************************************************************************)
EXTENDS Naturals, Sequences, FiniteSets

CONSTANTS
  Texts,       \* ids of blocks of type text in the primary lane
  Thoughts,    \* ids of blocks of type reasoning
  Asks,        \* ids of interrupt blocks, one per request id
  Bases,       \* explicit baseSeq of an update, 0 when it carries none
  ChunkLimit,  \* STREAM_BLOCK_FLUSH_CHUNK_LIMIT
  MaxUpdates    \* bound: events of the stream

Blocks == Texts \cup Thoughts \cup Asks

ASSUME ReducersAssumption ==
  /\ Bases \subseteq Nat /\ 0 \in Bases /\ ChunkLimit \in Nat \ {0} /\ MaxUpdates \in Nat
  /\ Texts \cap Thoughts = {} /\ Asks \cap (Texts \cup Thoughts) = {}

VARIABLES
  next,     \* next_event_seq of the run
  buffer,   \* chunk_buffer: numbered updates not yet stored
  current,  \* current_block_type, as the set of the ids of that type
  store,    \* stored blocks and the cursor in the message's metadata
  shown,    \* blocks of the client's message
  acc,      \* blocks of the accumulator
  ended     \* the outcome has been recorded

reducerVars == <<next, buffer, current, store, shown, acc, ended>>

-----------------------------------------------------------------------------
(* Blocks *)

\* at: position in the message, 0 while the block does not exist; open: not
\* is_finished; base: base_seq, 0 when none.
Block == [at : Nat, text : Seq(Nat), open : BOOLEAN, base : Nat]
NoBlock == [at |-> 0, text |-> <<>>, open |-> FALSE, base |-> 0]
NoBlocks == [b \in Blocks |-> NoBlock]

Present(bs) == {b \in Blocks : bs[b].at > 0}
IsLast(bs, b) == bs[b].at > 0 /\ \A c \in Blocks : bs[c].at <= bs[b].at

Update == [block : Blocks, op : {"append", "replace", "finalize"},
           base : Bases, done : BOOLEAN, kept : BOOLEAN]

\* Updates a stream event carries: finalize is always the end of its block.
StreamUpdate == {u \in Update : /\ u.block \notin Asks /\ ~u.kept
                                /\ u.op = "finalize" => u.done}

\* What update u with number n says; a question and its answer say the same
\* whenever they are repeated.
Word(u, n) == IF u.block \notin Asks THEN n ELSE IF u.kept THEN 1 ELSE 0

\* The text of an existing block after update u.
Edited(text, u, n) ==
  CASE u.op = "append" -> Append(text, Word(u, n))
    [] u.op = "replace" /\ ~u.kept -> <<Word(u, n)>>
    [] OTHER -> text

\* The new block of update u at the end of bs.
NewBlock(bs, u, n, base) ==
  [at |-> Cardinality(Present(bs)) + 1, text |-> <<Word(u, n)>>,
   open |-> ~u.done, base |-> base]

-----------------------------------------------------------------------------
(* The stored blocks *)

\* Mutant: the block that was active stays open beside the new one.
StoredLeavesOpen(s, u, n) ==
  LET t == s.blocks[u.block]
      base == IF u.base = 0 /\ u.op # "append" THEN n ELSE u.base
      stale == t.at > 0 /\ base > 0 /\ base < t.base
      edited == [at |-> t.at, text |-> Edited(t.text, u, n), open |-> ~u.done,
                 base |-> IF base > 0 THEN base ELSE t.base]
      b2 == IF t.at > 0 THEN edited ELSE NewBlock(s.blocks, u, n, base)
  IN IF n <= s.last \/ stale \/ (u.op = "finalize" /\ t.at = 0) THEN s
     ELSE [blocks |-> [s.blocks EXCEPT ![u.block] = b2],
           last |-> n, active |-> IF b2.open THEN b2.at ELSE 0]

\* append_agent_message_block_update: update u numbered n. A replace or
\* finalize without a base takes its own number as base. The active block is
\* the cursor's, or the last one; it is closed when another block is touched.
Stored(s, u, n) ==
  LET t == s.blocks[u.block]
      base == IF u.base = 0 /\ u.op # "append" THEN n ELSE u.base
      stale == t.at > 0 /\ base > 0 /\ base < t.base
      isActive(b) == IF s.active > 0 THEN s.blocks[b].at = s.active
                     ELSE IsLast(s.blocks, b)
      closed == [b \in Blocks |->
                   IF isActive(b) /\ b # u.block
                   THEN [s.blocks[b] EXCEPT !.open = FALSE] ELSE s.blocks[b]]
      edited == [at |-> t.at, text |-> Edited(t.text, u, n), open |-> ~u.done,
                 base |-> IF base > 0 THEN base ELSE t.base]
      b2 == IF t.at > 0 THEN edited ELSE NewBlock(s.blocks, u, n, base)
  IN IF n <= s.last \/ stale \/ (u.op = "finalize" /\ t.at = 0) THEN s
     ELSE [blocks |-> [closed EXCEPT ![u.block] = b2],
           last |-> n, active |-> IF b2.open THEN b2.at ELSE 0]

\* append_agent_message_block_updates: the buffered updates in order.
StoredAll(s, buf) ==
  LET upTo[k \in 0 .. Len(buf)] ==
        IF k = 0 THEN s ELSE Stored(upTo[k - 1], buf[k].update, buf[k].n)
  IN upTo[Len(buf)]

\* flush_stream_buffer: when nothing was applied the buffer is kept.
Flushed(s, buf) ==
  LET s2 == StoredAll(s, buf)
  IN [store |-> s2, buffer |-> IF s2 = s THEN buf ELSE <<>>]

-----------------------------------------------------------------------------
(* The client's blocks and the accumulator's *)

\* The last block is closed when a new one is added.
Pushed(bs, u, n) ==
  [b \in Blocks |-> IF b = u.block THEN NewBlock(bs, u, n, u.base)
                    ELSE IF IsLast(bs, b) THEN [bs[b] EXCEPT !.open = FALSE]
                    ELSE bs[b]]

Patched(bs, u, n) ==
  LET t == bs[u.block]
  IN [bs EXCEPT ![u.block] =
        [at |-> t.at, text |-> Edited(t.text, u, n), open |-> ~u.done,
         base |-> IF u.base > 0 THEN u.base ELSE t.base]]

\* Mutant: only an append creates a block.
ShownIgnoresUnknown(bs, u, n) ==
  LET t == bs[u.block]
  IN IF t.at > 0
     THEN IF u.base > 0 /\ u.base < t.base THEN bs ELSE Patched(bs, u, n)
     ELSE IF u.op # "append" THEN bs ELSE Pushed(bs, u, n)

\* applyStreamBlockUpdate: a stale update of an existing block is ignored.
ShownAfter(bs, u, n) ==
  LET t == bs[u.block]
  IN IF t.at > 0
     THEN IF u.base > 0 /\ u.base < t.base THEN bs ELSE Patched(bs, u, n)
     ELSE IF u.op = "finalize" THEN bs ELSE Pushed(bs, u, n)

\* StreamTextAccumulator._apply_block_update: no comparison of bases.
Accumulated(bs, u, n) ==
  IF bs[u.block].at > 0 THEN Patched(bs, u, n)
  ELSE IF u.op = "finalize" THEN bs ELSE Pushed(bs, u, n)

\* The text of the text block at position k; none when another block is there.
TextAt(bs, k) ==
  IF \E b \in Texts : bs[b].at = k THEN bs[CHOOSE b \in Texts : bs[b].at = k].text ELSE <<>>

\* StreamTextAccumulator.result: the text blocks, in order.
Result(bs) ==
  LET upTo[k \in 0 .. Cardinality(Present(bs))] ==
        IF k = 0 THEN <<>> ELSE upTo[k - 1] \o TextAt(bs, k)
  IN upTo[Cardinality(Present(bs))]

-----------------------------------------------------------------------------
(* Actions *)

TypeSet(b) == CHOOSE T \in {Texts, Thoughts, Asks} : b \in T

BlockInit ==
  /\ next = 1 /\ buffer = <<>> /\ current = {}
  /\ store = [blocks |-> NoBlocks, last |-> 0, active |-> 0]
  /\ shown = NoBlocks /\ acc = NoBlocks /\ ended = FALSE

\* on_event for a block update, the accumulator, the frame sent. The buffer is
\* flushed before an update of another type, and after a finished block or
\* when it is full.
BlockEvent(u) ==
  LET before == IF current \notin {{}, TypeSet(u.block)}
                THEN Flushed(store, buffer)
                ELSE [store |-> store, buffer |-> buffer]
      buf == Append(before.buffer, [n |-> next, update |-> u])
      after == IF u.done \/ Len(buf) >= ChunkLimit
               THEN Flushed(before.store, buf)
               ELSE [store |-> before.store, buffer |-> buf]
  IN /\ ~ended /\ next <= MaxUpdates
     /\ next' = next + 1
     /\ current' = TypeSet(u.block)
     /\ store' = after.store /\ buffer' = after.buffer
     /\ acc' = Accumulated(acc, u, next)
     /\ shown' = ShownAfter(shown, u, next)
     /\ UNCHANGED ended

\* persist_interrupt_lifecycle_event: the buffer is flushed, then the block of
\* the request is replaced, its own number as base; the answer keeps the text
\* of the question. The client adds the same block without a base.
Interrupt(q, phase) ==
  LET u == [block |-> q, op |-> "replace", base |-> 0, done |-> TRUE,
            kept |-> phase = "resolved"]
      flushed == Flushed(store, buffer)
      s2 == Stored(flushed.store, u, next)
  IN /\ ~ended /\ next <= MaxUpdates
     /\ store' = s2 /\ buffer' = flushed.buffer
     /\ next' = IF s2 = flushed.store THEN next ELSE next + 1
     /\ shown' = ShownAfter(shown, u, next)
     /\ UNCHANGED <<current, acc, ended>>

\* The end of the stream: the last flush, then record_local_invoke_messages:
\* the metadata is replaced, and with it the cursor; the accumulated text
\* overwrites a message of no block or of one finished text block.
FinishMessage ==
  LET flushed == Flushed(store, buffer)
      bs == flushed.store.blocks
      snapshot(b) == b \in Texts /\ bs[b].at = 1 /\ ~bs[b].open
  IN /\ ~ended
     /\ ended' = TRUE
     /\ buffer' = flushed.buffer
     /\ store' = [blocks |-> [b \in Blocks |->
                    IF /\ Cardinality(Present(bs)) = 1 /\ snapshot(b)
                       /\ Result(acc) # <<>>
                    THEN [bs[b] EXCEPT !.text = Result(acc)] ELSE bs[b]],
                  last |-> 0, active |-> 0]
     /\ UNCHANGED <<next, current, shown, acc>>

BlockNext ==
  \/ \E u \in StreamUpdate : BlockEvent(u)
  \/ \E q \in Asks, phase \in {"asked", "resolved"} : Interrupt(q, phase)
  \/ FinishMessage
  \/ ended /\ UNCHANGED reducerVars

BlockSpec == BlockInit /\ [][BlockNext]_reducerVars

-----------------------------------------------------------------------------
(* Properties *)

BlockTypeOK ==
  /\ next \in 1 .. MaxUpdates + 1
  /\ buffer \in Seq([n : 1 .. MaxUpdates, update : Update])
  /\ current \in {{}, Texts, Thoughts}
  /\ store \in [blocks : [Blocks -> Block], last : Nat, active : Nat]
  /\ shown \in [Blocks -> Block] /\ acc \in [Blocks -> Block]
  /\ ended \in BOOLEAN

\* At most one stored block is open, the one the cursor names: whatever mix of
\* appends, replacements, closings and questions arrives, in whatever batches,
\* no block is left open behind the one being written.
OneOpenBlock ==
  \A b \in Blocks : store.blocks[b].open =>
     /\ \A c \in Blocks \ {b} : ~store.blocks[c].open
     /\ ended \/ store.active = store.blocks[b].at

\* As long as no update has carried a base, the stored blocks (with what is
\* still buffered), the user's blocks and the accumulated texts have the same
\* content in the same order, although each comes from a reducer of its own,
\* in another batching. It holds of the recorded message too.
SameContent ==
  LET bs == IF ended THEN store.blocks ELSE StoredAll(store, buffer).blocks
      unbased == \A b \in Blocks : shown[b].base = 0 /\ acc[b].base = 0
  IN unbased =>
       /\ \A b \in Blocks : /\ bs[b].at = shown[b].at
                            /\ bs[b].text = shown[b].text
       /\ \A b \in Texts : acc[b].text = shown[b].text

=============================================================================
