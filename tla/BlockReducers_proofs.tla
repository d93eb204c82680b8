------------------------- MODULE BlockReducers_proofs -------------------------
(***************************************************************************)
(* Proofs about BlockReducers, for every set of blocks and bases, every    *)
(* batch size and any number of updates.                                   *)
(*                                                                         *)
(* What is stored lags behind what the user sees by the buffer.  The       *)
(* argument is about the view: the stored blocks with the buffer folded    *)
(* in (View).  A flush does not change the view (FlushKeepsView), and an   *)
(* event or a question changes it as one update applied to it would        *)
(* (EventView, InterruptView), although the buffer may be kept by a flush  *)
(* that changed nothing.  So the batching drops out, and what remains is   *)
(* that the three reducers treat one update alike while no update has      *)
(* carried a base (ReducersAgree).                                         *)
(***************************************************************************)
EXTENDS BlockReducers, FiniteSetTheorems, SequenceTheorems, WellFoundedInduction, TLAPS

Entry == [n : 1 .. MaxUpdates, update : Update]
BlockMap == [Blocks -> Block]
StoreSet == [blocks : BlockMap, last : Nat, active : Nat]

\* Positions are among the first Cardinality(Present(bs)); what has none is empty.
Placed(bs) ==
  /\ bs \in BlockMap /\ IsFiniteSet(Present(bs))
  /\ \A b \in Blocks : bs[b].at <= Cardinality(Present(bs))
  /\ \A b \in Blocks : bs[b].at = 0 => bs[b] = NoBlock

\* Only the active block is open.
OneOpen(s) ==
  \A b \in Blocks : s.blocks[b].open =>
     /\ s.blocks[b].at > 0 /\ s.active = s.blocks[b].at
     /\ \A c \in Blocks \ {b} : ~s.blocks[c].open

Sound(s) == s \in StoreSet /\ Placed(s.blocks) /\ OneOpen(s)

\* The stored blocks with the buffer folded in.
View == StoredAll(store, buffer)

\* No block of bs has got a base from an update.
Unbased(bs) == \A b \in Blocks : bs[b].base = 0

\* The stored and the user's blocks are alike; no base is ahead of the cursor.
Alike(v, w) ==
  \A b \in Blocks : /\ v.blocks[b].at = w[b].at /\ v.blocks[b].text = w[b].text
                    /\ v.blocks[b].base <= v.last

\* The accumulator has the user's blocks, except for the questions.
Follows(a, w) ==
  \A b \in Texts \cup Thoughts : a[b].text = w[b].text /\ (a[b].at > 0 <=> w[b].at > 0)

\* Until the end of the stream.
Running ==
  /\ Sound(store) /\ Placed(shown) /\ Placed(acc)
  /\ View.last < next /\ \A i \in 1 .. Len(buffer) : buffer[i].n < next
  /\ \A b \in Asks : acc[b].at = 0
  /\ Unbased(shown) /\ Unbased(acc) => Alike(View, shown) /\ Follows(acc, shown)

IInv ==
  /\ BlockTypeOK
  /\ ~ended => Running
  /\ ended => OneOpenBlock /\ SameContent

-----------------------------------------------------------------------------
(* Induction                                                               *)

\* A set of natural numbers with 0 and the successor of each below n has all up to n.
LEMMA CountUp ==
  ASSUME NEW n \in Nat, NEW S, 0 \in S, \A k \in 0 .. n - 1 : k \in S => k + 1 \in S
  PROVE  \A k \in 0 .. n : k \in S
<1>. PICK T : T = {k \in 0 .. n : k \notin S}
  OBVIOUS
<1>1. SUFFICES ASSUME T # {} PROVE FALSE
  OBVIOUS
<1>2. PICK m \in T : \A k \in T : ~ (<<k, m>> \in OpToRel(<, Nat))
  <2>1. T \in SUBSET Nat
    OBVIOUS
  <2>. QED BY <1>1, <2>1, NatLessThanWellFounded, WFMin
<1>3. \A k \in T : ~ (k < m)
  <2>1. T \in SUBSET Nat
    OBVIOUS
  <2>. QED BY <1>2, <2>1 DEF OpToRel
<1>4. m \in 1 .. n
  OBVIOUS
<1>5. m - 1 \in S
  BY <1>3, <1>4
<1>6. m - 1 \in 0 .. n - 1 /\ m = (m - 1) + 1
  BY <1>4
<1>. QED BY <1>5, <1>6

-----------------------------------------------------------------------------
(* One update of a block                                                    *)

LEMMA NoBlockIsBlock == NoBlock \in Block /\ NoBlocks \in BlockMap /\ Placed(NoBlocks)
<1>1. NoBlock \in Block /\ NoBlock.at = 0
  BY EmptySeq DEF NoBlock, Block
<1>2. NoBlocks \in BlockMap /\ \A b \in Blocks : NoBlocks[b] = NoBlock
  BY <1>1 DEF NoBlocks, BlockMap
<1>3. Present(NoBlocks) = {}
  BY <1>1, <1>2 DEF Present
<1>4. IsFiniteSet(Present(NoBlocks)) /\ Cardinality(Present(NoBlocks)) = 0
  BY <1>3, FS_EmptySet
<1>. QED
  BY <1>1, <1>2, <1>4 DEF Placed

LEMMA UpdateFields ==
  ASSUME NEW u \in Update
  PROVE  /\ u.block \in Blocks /\ u.op \in {"append", "replace", "finalize"} /\ u.base \in Nat
         /\ u.done \in BOOLEAN /\ u.kept \in BOOLEAN
BY ReducersAssumption DEF Update

LEMMA BlockFields ==
  ASSUME NEW bs \in BlockMap, NEW b \in Blocks
  PROVE  /\ bs[b] \in Block /\ bs[b].at \in Nat /\ bs[b].text \in Seq(Nat)
         /\ bs[b].open \in BOOLEAN /\ bs[b].base \in Nat
BY DEF BlockMap, Block

LEMMA EditedType ==
  ASSUME NEW text \in Seq(Nat), NEW u \in Update, NEW n \in Nat
  PROVE  Word(u, n) \in Nat /\ Edited(text, u, n) \in Seq(Nat) /\ <<Word(u, n)>> \in Seq(Nat)
<1>1. Word(u, n) \in Nat
  BY DEF Word
<1>. PICK w \in Nat : w = Word(u, n)
  BY <1>1
<1>2. Append(text, w) \in Seq(Nat) /\ <<w>> \in Seq(Nat)
  BY AppendProperties
<1>. QED
  BY <1>1, <1>2 DEF Edited

\* The new block has the position after all others.
LEMMA NewBlockFacts ==
  ASSUME NEW bs, Placed(bs), NEW u \in Update, NEW n \in Nat, NEW base \in Nat
  PROVE  /\ Cardinality(Present(bs)) \in Nat
         /\ NewBlock(bs, u, n, base) \in Block
         /\ NewBlock(bs, u, n, base).at = Cardinality(Present(bs)) + 1
         /\ NewBlock(bs, u, n, base).text = <<Word(u, n)>>
         /\ NewBlock(bs, u, n, base).base = base
<1>. PICK c \in Nat : c = Cardinality(Present(bs))
  BY FS_CardinalityType DEF Placed
<1>. PICK t \in Seq(Nat) : t = <<Word(u, n)>>
  BY EditedType, EmptySeq
<1>1. NewBlock(bs, u, n, base) = [at |-> c + 1, text |-> t, open |-> ~u.done, base |-> base]
  BY DEF NewBlock
<1>. QED
  BY <1>1 DEF Block

\* A map of blocks that differs at x only, where the block stays or becomes the last one.
Grows(bs, cs, x) ==
  /\ cs \in BlockMap /\ x \in Blocks
  /\ \A b \in Blocks \ {x} : cs[b].at = bs[b].at /\ (bs[b].at = 0 => cs[b] = NoBlock)
  /\ \/ bs[x].at > 0 /\ cs[x].at = bs[x].at
     \/ bs[x].at = 0 /\ cs[x].at = Cardinality(Present(bs)) + 1

LEMMA GrowsPlaced ==
  ASSUME NEW bs, NEW cs, NEW x, Placed(bs), Grows(bs, cs, x)
  PROVE  Placed(cs)
<1>. PICK c \in Nat : c = Cardinality(Present(bs))
  BY FS_CardinalityType DEF Placed
<1>1. bs \in BlockMap /\ cs \in BlockMap /\ x \in Blocks
  BY DEF Placed, Grows
<1>2. \A b \in Blocks : bs[b].at \in Nat /\ cs[b].at \in Nat
  BY <1>1, BlockFields
<1>3. CASE bs[x].at > 0 /\ cs[x].at = bs[x].at
  <2>1. \A b \in Blocks : cs[b].at = bs[b].at
    BY <1>3 DEF Grows
  <2>2. Present(cs) = Present(bs)
    BY <2>1 DEF Present
  <2>3. \A b \in Blocks : cs[b].at = 0 => cs[b] = NoBlock
    BY <1>2, <1>3, <2>1 DEF Grows
  <2>. QED BY <1>1, <2>1, <2>2, <2>3 DEF Placed
<1>4. CASE bs[x].at = 0 /\ cs[x].at = c + 1
  <2>1. Present(cs) = Present(bs) \cup {x}
    BY <1>1, <1>2, <1>4 DEF Present, Grows
  <2>2. x \notin Present(bs)
    BY <1>4 DEF Present
  <2>3. IsFiniteSet(Present(cs)) /\ Cardinality(Present(cs)) = c + 1
    BY <2>1, <2>2, FS_AddElement DEF Placed
  <2>4. \A b \in Blocks : cs[b].at <= c + 1
    BY <1>2, <1>4 DEF Placed, Grows
  <2>5. \A b \in Blocks : cs[b].at = 0 => cs[b] = NoBlock
    BY <1>2, <1>4 DEF Grows
  <2>. QED BY <1>1, <2>3, <2>4, <2>5 DEF Placed
<1>. QED
  BY <1>3, <1>4 DEF Grows

-----------------------------------------------------------------------------
(* One update of the stored blocks                                          *)

BaseOf(u, n) == IF u.base = 0 /\ u.op # "append" THEN n ELSE u.base

\* The update is a repetition, stale, or ends a block there is not.
Rejected(s, u, n) ==
  \/ n <= s.last
  \/ s.blocks[u.block].at > 0 /\ BaseOf(u, n) > 0 /\ BaseOf(u, n) < s.blocks[u.block].base
  \/ u.op = "finalize" /\ s.blocks[u.block].at = 0

IsActive(s, b) == IF s.active > 0 THEN s.blocks[b].at = s.active ELSE IsLast(s.blocks, b)

Closed(s, u) ==
  [b \in Blocks |-> IF IsActive(s, b) /\ b # u.block
                    THEN [s.blocks[b] EXCEPT !.open = FALSE] ELSE s.blocks[b]]

Touched(s, u, n) ==
  LET t == s.blocks[u.block]
  IN IF t.at > 0
     THEN [at |-> t.at, text |-> Edited(t.text, u, n), open |-> ~u.done,
           base |-> IF BaseOf(u, n) > 0 THEN BaseOf(u, n) ELSE t.base]
     ELSE NewBlock(s.blocks, u, n, BaseOf(u, n))

LEMMA StoredIs ==
  ASSUME NEW s, NEW u, NEW n
  PROVE  /\ Rejected(s, u, n) => Stored(s, u, n) = s
         /\ ~Rejected(s, u, n) =>
              Stored(s, u, n) =
                [blocks |-> [Closed(s, u) EXCEPT ![u.block] = Touched(s, u, n)], last |-> n,
                 active |-> IF Touched(s, u, n).open THEN Touched(s, u, n).at ELSE 0]
BY DEF Stored, Rejected, Closed, Touched, BaseOf, IsActive

LEMMA BaseOfType ==
  ASSUME NEW u \in Update, NEW n \in Nat
  PROVE  BaseOf(u, n) \in Nat
BY UpdateFields DEF BaseOf

LEMMA TouchedFacts ==
  ASSUME NEW s \in StoreSet, Placed(s.blocks), NEW u \in Update, NEW n \in Nat
  PROVE  LET t == s.blocks[u.block]
             r == Touched(s, u, n)
         IN /\ r \in Block /\ r.at > 0
            /\ t.at > 0 => /\ r.at = t.at /\ r.text = Edited(t.text, u, n)
                           /\ r.base = IF BaseOf(u, n) > 0 THEN BaseOf(u, n) ELSE t.base
            /\ t.at = 0 => /\ r.at = Cardinality(Present(s.blocks)) + 1
                           /\ r.text = <<Word(u, n)>> /\ r.base = BaseOf(u, n)
<1>. PICK t : t = s.blocks[u.block]
  OBVIOUS
<1>. PICK base \in Nat : base = BaseOf(u, n)
  BY BaseOfType
<1>1. s.blocks \in BlockMap /\ u.block \in Blocks /\ (~u.done) \in BOOLEAN
  BY UpdateFields DEF StoreSet
<1>2. t \in Block /\ t.at \in Nat /\ t.text \in Seq(Nat) /\ t.base \in Nat
  BY <1>1, BlockFields
<1>3. CASE t.at > 0
  <2>. PICK text \in Seq(Nat) : text = Edited(t.text, u, n)
    BY <1>2, EditedType
  <2>. PICK k \in Nat : k = IF base > 0 THEN base ELSE t.base
    BY <1>2
  <2>1. Touched(s, u, n) = [at |-> t.at, text |-> text, open |-> ~u.done, base |-> k]
    BY <1>3 DEF Touched
  <2>. QED BY <1>1, <1>2, <1>3, <2>1 DEF Block
<1>4. CASE ~(t.at > 0)
  <2>1. Touched(s, u, n) = NewBlock(s.blocks, u, n, base)
    BY <1>4 DEF Touched
  <2>. QED BY <1>2, <1>4, <2>1, NewBlockFacts
<1>. QED BY <1>3, <1>4

LEMMA ClosedFacts ==
  ASSUME NEW s \in StoreSet, NEW u \in Update
  PROVE  /\ Closed(s, u) \in BlockMap
         /\ \A b \in Blocks :
              /\ Closed(s, u)[b].at = s.blocks[b].at /\ Closed(s, u)[b].text = s.blocks[b].text
              /\ Closed(s, u)[b].base = s.blocks[b].base
              /\ Closed(s, u)[b].open => s.blocks[b].open
              /\ Closed(s, u)[b].open /\ b # u.block => ~IsActive(s, b)
              /\ s.blocks[b] = NoBlock => Closed(s, u)[b] = NoBlock
<1>1. s.blocks \in BlockMap
  BY DEF StoreSet
<1>2. ASSUME NEW b \in Blocks
      PROVE  /\ Closed(s, u)[b] \in Block
             /\ Closed(s, u)[b].at = s.blocks[b].at /\ Closed(s, u)[b].text = s.blocks[b].text
             /\ Closed(s, u)[b].base = s.blocks[b].base
             /\ Closed(s, u)[b].open => s.blocks[b].open
             /\ Closed(s, u)[b].open /\ b # u.block => ~IsActive(s, b)
             /\ s.blocks[b] = NoBlock => Closed(s, u)[b] = NoBlock
  <2>. PICK t \in Block : t = s.blocks[b]
    BY <1>1, BlockFields
  <2>. PICK shut : shut = [t EXCEPT !.open = FALSE]
    OBVIOUS
  <2>1. /\ shut \in Block /\ shut.at = t.at /\ shut.text = t.text /\ shut.base = t.base
        /\ ~shut.open
    BY DEF Block
  <2>2. t = NoBlock => shut = NoBlock
    <3>1. t = NoBlock => t.open = FALSE
      BY DEF NoBlock
    <3>2. t.open = FALSE => shut = t
      BY DEF Block
    <3>. QED BY <3>1, <3>2
  <2>3. Closed(s, u)[b] = IF IsActive(s, b) /\ b # u.block THEN shut ELSE t
    BY DEF Closed
  <2>4. CASE IsActive(s, b) /\ b # u.block
    BY <2>1, <2>2, <2>3, <2>4
  <2>5. CASE ~(IsActive(s, b) /\ b # u.block)
    BY <2>3, <2>5
  <2>. QED BY <2>4, <2>5
<1>3. Closed(s, u) \in BlockMap
  BY <1>2 DEF BlockMap, Closed
<1>. QED BY <1>2, <1>3

\* An accepted update: what the touched block becomes and what the others keep.
LEMMA AcceptedFacts ==
  ASSUME NEW s \in StoreSet, Placed(s.blocks), NEW u \in Update, NEW n \in Nat,
         ~Rejected(s, u, n)
  PROVE  LET r == Stored(s, u, n)
         IN /\ r \in StoreSet /\ r.last = n
            /\ r.blocks[u.block] = Touched(s, u, n)
            /\ r.active = IF Touched(s, u, n).open THEN Touched(s, u, n).at ELSE 0
            /\ \A b \in Blocks \ {u.block} : r.blocks[b] = Closed(s, u)[b]
            /\ Grows(s.blocks, r.blocks, u.block)
<1>. PICK r : r = Stored(s, u, n)
  OBVIOUS
<1>. PICK t \in Block : t = Touched(s, u, n) /\ t.at > 0
  BY TouchedFacts
<1>. PICK c \in BlockMap : c = Closed(s, u)
  BY ClosedFacts
<1>1. u.block \in Blocks
  BY UpdateFields
<1>. PICK cs : cs = [c EXCEPT ![u.block] = t]
  OBVIOUS
<1>2. /\ cs \in BlockMap /\ cs[u.block] = t
      /\ \A b \in Blocks \ {u.block} : cs[b] = c[b]
  BY <1>1 DEF BlockMap
<1>. PICK a \in Nat : a = IF t.open THEN t.at ELSE 0
  BY DEF Block
<1>3. r = [blocks |-> cs, last |-> n, active |-> a]
  BY StoredIs
<1>4. /\ r \in StoreSet /\ r.blocks = cs /\ r.last = n /\ r.active = a
  BY <1>2, <1>3 DEF StoreSet
<1>5. Grows(s.blocks, cs, u.block)
  <2>1. s.blocks \in BlockMap
    BY DEF StoreSet
  <2>2. \A b \in Blocks \ {u.block} :
          cs[b].at = s.blocks[b].at /\ (s.blocks[b].at = 0 => cs[b] = NoBlock)
    BY <1>2, ClosedFacts DEF Placed
  <2>3. s.blocks[u.block].at \in Nat
    BY <1>1, <2>1, BlockFields
  <2>4. \/ s.blocks[u.block].at > 0 /\ t.at = s.blocks[u.block].at
        \/ s.blocks[u.block].at = 0 /\ t.at = Cardinality(Present(s.blocks)) + 1
    BY <2>3, TouchedFacts
  <2>. QED BY <1>1, <1>2, <2>2, <2>4 DEF Grows
<1>. QED
  BY <1>2, <1>4, <1>5

\* One update keeps the store well-formed, and at most the active block open.
LEMMA StoredSound ==
  ASSUME NEW s, Sound(s), NEW u \in Update, NEW n \in Nat
  PROVE  Sound(Stored(s, u, n))
<1>. PICK r : r = Stored(s, u, n)
  OBVIOUS
<1>1. CASE Rejected(s, u, n)
  BY <1>1, StoredIs
<1>2. CASE ~Rejected(s, u, n)
  <2>. s \in StoreSet /\ Placed(s.blocks)
    BY DEF Sound
  <2>. PICK t \in Block : t = Touched(s, u, n) /\ t.at > 0
    BY TouchedFacts
  <2>1. /\ r \in StoreSet /\ r.blocks[u.block] = t
        /\ r.active = IF t.open THEN t.at ELSE 0
        /\ \A b \in Blocks \ {u.block} : r.blocks[b] = Closed(s, u)[b]
        /\ Grows(s.blocks, r.blocks, u.block)
    BY <1>2, AcceptedFacts
  <2>2. Placed(r.blocks)
    BY <2>1, GrowsPlaced
  <2>3. \A b \in Blocks \ {u.block} : ~r.blocks[b].open
    <3>1. ASSUME NEW b \in Blocks \ {u.block}, Closed(s, u)[b].open PROVE FALSE
      <4>1. s.blocks[b].open /\ ~IsActive(s, b)
        BY <3>1, ClosedFacts
      <4>2. s.active = s.blocks[b].at /\ s.blocks[b].at > 0
        BY <4>1 DEF Sound, OneOpen
      <4>. QED BY <4>1, <4>2 DEF IsActive
    <3>. QED BY <2>1, <3>1
  <2>4. OneOpen(r)
    BY <2>1, <2>3 DEF OneOpen
  <2>. QED BY <2>1, <2>2, <2>4 DEF Sound
<1>. QED BY <1>1, <1>2

-----------------------------------------------------------------------------
(* A batch of updates of the stored blocks                                  *)

\* Storing goes along the buffer, one entry at a time.
Storing(f, s, buf) ==
  /\ f[0] = s /\ StoredAll(s, buf) = f[Len(buf)]
  /\ \A k \in 1 .. Len(buf) : f[k] = Stored(f[k - 1], buf[k].update, buf[k].n)

LEMMA StoredSteps ==
  ASSUME NEW s, NEW buf \in Seq(Entry)
  PROVE  \E f : Storing(f, s, buf)
<1>. DEFINE Next1(g, k) == IF k = 0 THEN s ELSE Stored(g[k - 1], buf[k].update, buf[k].n)
            S == {n \in Nat : \E g : g = [k \in 0 .. n |-> Next1(g, k)]}
<1>. PICK len \in Nat : len = Len(buf)
  OBVIOUS
<1>1. \A n \in 0 .. len : n \in S
  <2>1. 0 \in S
    <3>. PICK g : g = [k \in 0 .. 0 |-> s]
      OBVIOUS
    <3>1. g = [k \in 0 .. 0 |-> Next1(g, k)]
      OBVIOUS
    <3>. QED BY <3>1
  <2>2. ASSUME NEW n \in 0 .. len - 1, n \in S PROVE n + 1 \in S
    <3>1. PICK g : g = [k \in 0 .. n |-> Next1(g, k)]
      BY <2>2
    <3>2. PICK h : h = [k \in 0 .. n + 1 |-> Next1(g, k)]
      OBVIOUS
    <3>3. \A k \in 0 .. n : h[k] = g[k]
      <4>1. \A k \in 0 .. n : k \in 0 .. n + 1
        OBVIOUS
      <4>. HIDE DEF Next1
      <4>. QED BY <3>1, <3>2, <4>1
    <3>4. \A k \in 0 .. n + 1 : Next1(h, k) = Next1(g, k)
      BY <3>3
    <3>5. h = [k \in 0 .. n + 1 |-> Next1(h, k)]
      BY <3>2, <3>4, Zenon
    <3>. HIDE DEF Next1
    <3>. QED BY <3>5
  <2>. HIDE DEF S
  <2>. QED BY <2>1, <2>2, CountUp
<1>. DEFINE f == CHOOSE g : g = [k \in 0 .. len |-> Next1(g, k)]
<1>2. f = [k \in 0 .. len |-> Next1(f, k)]
  <2>. HIDE DEF Next1
  <2>1. \E g : g = [k \in 0 .. len |-> Next1(g, k)]
    BY <1>1
  <2>. QED BY <2>1
<1>3. StoredAll(s, buf) = f[len]
  BY DEF StoredAll
<1>. HIDE DEF f
<1>4. \A k \in 0 .. len : f[k] = Next1(f, k)
  <2>. HIDE DEF Next1
  <2>. QED BY <1>2
<1>5. \A k \in 1 .. Len(buf) : k \in 0 .. len /\ k # 0
  OBVIOUS
<1>6. f[0] = s
  BY <1>4
<1>. QED
  BY <1>3, <1>4, <1>5, <1>6 DEF Storing

LEMMA EntryFields ==
  ASSUME NEW buf \in Seq(Entry), NEW k \in 1 .. Len(buf)
  PROVE  buf[k] \in Entry /\ buf[k].update \in Update /\ buf[k].n \in Nat
<1>1. buf[k] \in Entry
  BY ElementOfSeq
<1>. QED BY <1>1 DEF Entry

\* No updates change nothing.
LEMMA StoredNothing ==
  ASSUME NEW s
  PROVE  StoredAll(s, <<>>) = s
<1>1. <<>> \in Seq(Entry) /\ Len(<<>>) = 0
  BY EmptySeq
<1>2. PICK f : Storing(f, s, <<>>)
  BY <1>1, StoredSteps
<1>. QED
  BY <1>1, <1>2 DEF Storing

\* A batch keeps the store well-formed.
LEMMA StoredAllSound ==
  ASSUME NEW s, Sound(s), NEW buf \in Seq(Entry)
  PROVE  Sound(StoredAll(s, buf))
<1>1. PICK f : Storing(f, s, buf)
  BY StoredSteps
<1>. PICK len \in Nat : len = Len(buf)
  OBVIOUS
<1>. PICK good : good = {k \in 0 .. len : Sound(f[k])}
  OBVIOUS
<1>2. 0 \in good
  BY <1>1 DEF Storing
<1>3. ASSUME NEW k \in 0 .. len - 1, k \in good PROVE k + 1 \in good
  <2>1. k + 1 \in 1 .. Len(buf) /\ (k + 1) - 1 = k /\ k + 1 \in 0 .. len
    OBVIOUS
  <2>2. f[k + 1] = Stored(f[k], buf[k + 1].update, buf[k + 1].n)
    BY <1>1, <2>1 DEF Storing
  <2>3. Sound(f[k]) /\ buf[k + 1].update \in Update /\ buf[k + 1].n \in Nat
    BY <1>3, <2>1, EntryFields
  <2>. QED BY <2>1, <2>2, <2>3, StoredSound
<1>4. len \in good
  <2>1. \A k \in 0 .. len : k \in good
    BY <1>2, <1>3, CountUp
  <2>. QED BY <2>1
<1>. QED BY <1>1, <1>4 DEF Storing

\* One more update in the batch is one more update of what the batch yields.
LEMMA StoredOneMore ==
  ASSUME NEW s, NEW buf \in Seq(Entry), NEW e \in Entry
  PROVE  StoredAll(s, Append(buf, e)) = Stored(StoredAll(s, buf), e.update, e.n)
<1>. PICK len \in Nat : len = Len(buf)
  OBVIOUS
<1>. PICK more \in Seq(Entry) : more = Append(buf, e)
  BY AppendProperties
<1>1. Len(more) = len + 1 /\ more[len + 1] = e /\ \A k \in 1 .. len : more[k] = buf[k]
  BY AppendProperties
<1>2. PICK f : Storing(f, s, buf)
  BY StoredSteps
<1>3. PICK g : Storing(g, s, more)
  BY StoredSteps
<1>. PICK same : same = {k \in 0 .. len : g[k] = f[k]}
  OBVIOUS
<1>4. 0 \in same
  BY <1>2, <1>3 DEF Storing
<1>5. ASSUME NEW k \in 0 .. len - 1, k \in same PROVE k + 1 \in same
  <2>1. k + 1 \in 1 .. len /\ (k + 1) - 1 = k /\ k + 1 \in 0 .. len /\ k + 1 \in 1 .. len + 1
    OBVIOUS
  <2>2. f[k + 1] = Stored(f[k], buf[k + 1].update, buf[k + 1].n)
    BY <1>2, <2>1 DEF Storing
  <2>3. g[k + 1] = Stored(g[k], more[k + 1].update, more[k + 1].n)
    BY <1>1, <1>3, <2>1 DEF Storing
  <2>. QED BY <1>1, <1>5, <2>1, <2>2, <2>3
<1>6. len \in same
  <2>1. \A k \in 0 .. len : k \in same
    BY <1>4, <1>5, CountUp
  <2>. QED BY <2>1
<1>7. g[len + 1] = Stored(g[len], e.update, e.n)
  <2>1. len + 1 \in 1 .. len + 1 /\ (len + 1) - 1 = len
    OBVIOUS
  <2>. QED BY <1>1, <1>3, <2>1 DEF Storing
<1>. QED
  BY <1>1, <1>2, <1>3, <1>6, <1>7 DEF Storing

\* A batch whose numbers are all at or below the cursor is skipped.
LEMMA StoredAgain ==
  ASSUME NEW s, NEW buf \in Seq(Entry), \A i \in 1 .. Len(buf) : buf[i].n <= s.last
  PROVE  StoredAll(s, buf) = s
<1>1. PICK f : Storing(f, s, buf)
  BY StoredSteps
<1>. PICK len \in Nat : len = Len(buf)
  OBVIOUS
<1>. PICK same : same = {k \in 0 .. len : f[k] = s}
  OBVIOUS
<1>2. 0 \in same
  BY <1>1 DEF Storing
<1>3. ASSUME NEW k \in 0 .. len - 1, k \in same PROVE k + 1 \in same
  <2>1. k + 1 \in 1 .. Len(buf) /\ (k + 1) - 1 = k /\ k + 1 \in 0 .. len
    OBVIOUS
  <2>2. f[k + 1] = Stored(s, buf[k + 1].update, buf[k + 1].n)
    BY <1>1, <1>3, <2>1 DEF Storing
  <2>3. Rejected(s, buf[k + 1].update, buf[k + 1].n)
    BY <2>1 DEF Rejected
  <2>4. f[k + 1] = s
    BY <2>2, <2>3, StoredIs
  <2>. QED BY <2>1, <2>4
<1>4. len \in same
  <2>1. \A k \in 0 .. len : k \in same
    BY <1>2, <1>3, CountUp
  <2>. QED BY <2>1
<1>. QED BY <1>1, <1>4 DEF Storing

\* A flush stores what the buffer yields, and what remains buffered adds nothing to it.
LEMMA FlushKeepsView ==
  ASSUME NEW s, NEW buf \in Seq(Entry)
  PROVE  /\ Flushed(s, buf).store = StoredAll(s, buf)
         /\ Flushed(s, buf).buffer \in {buf, <<>>} /\ Flushed(s, buf).buffer \in Seq(Entry)
         /\ StoredAll(Flushed(s, buf).store, Flushed(s, buf).buffer) = StoredAll(s, buf)
<1>. PICK s2 : s2 = StoredAll(s, buf)
  OBVIOUS
<1>1. Flushed(s, buf) = [store |-> s2, buffer |-> IF s2 = s THEN buf ELSE <<>>]
  BY DEF Flushed
<1>2. /\ Flushed(s, buf).store = s2
      /\ s2 = s => Flushed(s, buf).buffer = buf
      /\ s2 # s => Flushed(s, buf).buffer = <<>>
  BY <1>1
<1>3. <<>> \in Seq(Entry) /\ StoredAll(s2, <<>>) = s2
  BY EmptySeq, StoredNothing
<1>. QED
  BY <1>2, <1>3

-----------------------------------------------------------------------------
(* One update of the user's and of the accumulator's blocks                 *)

\* The update's block after it.
TextAfter(bs, u, n) ==
  IF bs[u.block].at > 0 THEN Edited(bs[u.block].text, u, n) ELSE <<Word(u, n)>>

\* r is bs after update u: its block is new or changed, the others keep their content.
Reduced(bs, r, u, n) ==
  /\ Grows(bs, r, u.block)
  /\ r[u.block].text = TextAfter(bs, u, n)
  /\ r[u.block].base = IF u.base > 0 THEN u.base ELSE bs[u.block].base
  /\ \A b \in Blocks \ {u.block} : r[b].text = bs[b].text /\ r[b].base = bs[b].base

LEMMA PushedFacts ==
  ASSUME NEW bs, Placed(bs), NEW u \in Update, NEW n \in Nat, bs[u.block].at = 0
  PROVE  Reduced(bs, Pushed(bs, u, n), u, n)
<1>1. bs \in BlockMap /\ u.block \in Blocks /\ u.base \in Nat
  BY UpdateFields DEF Placed
<1>. PICK new \in Block :
       /\ new = NewBlock(bs, u, n, u.base) /\ new.at = Cardinality(Present(bs)) + 1
       /\ new.text = <<Word(u, n)>> /\ new.base = u.base
  BY <1>1, NewBlockFacts
<1>. PICK r : r = Pushed(bs, u, n)
  OBVIOUS
<1>2. r[u.block] = new
  BY <1>1 DEF Pushed
<1>3. ASSUME NEW b \in Blocks \ {u.block}
      PROVE  /\ r[b] \in Block /\ r[b].at = bs[b].at /\ r[b].text = bs[b].text
             /\ r[b].base = bs[b].base /\ (bs[b].at = 0 => r[b] = NoBlock)
  <2>. PICK t \in Block : t = bs[b]
    BY <1>1, BlockFields
  <2>. PICK shut : shut = [t EXCEPT !.open = FALSE]
    OBVIOUS
  <2>1. shut \in Block /\ shut.at = t.at /\ shut.text = t.text /\ shut.base = t.base
    BY DEF Block
  <2>2. r[b] = IF IsLast(bs, b) THEN shut ELSE t
    BY <1>3 DEF Pushed
  <2>3. t.at = 0 => r[b] = NoBlock
    BY <1>1, <2>2 DEF IsLast, Placed
  <2>. QED BY <2>1, <2>2, <2>3
<1>4. r \in BlockMap
  <2>1. \A b \in Blocks : r[b] \in Block
    BY <1>2, <1>3
  <2>. QED BY <2>1 DEF Pushed, BlockMap
<1>5. Grows(bs, r, u.block)
  BY <1>1, <1>2, <1>3, <1>4 DEF Grows
<1>6. bs[u.block].base = 0
  BY <1>1 DEF Placed, NoBlock
<1>. QED
  BY <1>1, <1>2, <1>3, <1>5, <1>6 DEF Reduced, TextAfter

LEMMA PatchedFacts ==
  ASSUME NEW bs, Placed(bs), NEW u \in Update, NEW n \in Nat, bs[u.block].at > 0
  PROVE  Reduced(bs, Patched(bs, u, n), u, n)
<1>1. bs \in BlockMap /\ u.block \in Blocks /\ u.base \in Nat /\ (~u.done) \in BOOLEAN
  BY UpdateFields DEF Placed
<1>. PICK t \in Block : t = bs[u.block]
  BY <1>1, BlockFields
<1>2. t.at \in Nat /\ t.text \in Seq(Nat) /\ t.base \in Nat
  BY DEF Block
<1>. PICK text \in Seq(Nat) : text = Edited(t.text, u, n)
  BY <1>2, EditedType
<1>. PICK k \in Nat : k = IF u.base > 0 THEN u.base ELSE t.base
  BY <1>1, <1>2
<1>. PICK new : new = [at |-> t.at, text |-> text, open |-> ~u.done, base |-> k]
  OBVIOUS
<1>3. new \in Block /\ new.at = t.at /\ new.text = text /\ new.base = k
  BY <1>1, <1>2 DEF Block
<1>. PICK r : r = [bs EXCEPT ![u.block] = new]
  OBVIOUS
<1>4. Patched(bs, u, n) = r
  BY DEF Patched
<1>5. r \in BlockMap /\ r[u.block] = new /\ \A b \in Blocks \ {u.block} : r[b] = bs[b]
  BY <1>1, <1>3 DEF BlockMap
<1>6. Grows(bs, r, u.block)
  BY <1>1, <1>3, <1>5 DEF Grows, Placed
<1>7. r[u.block].text = TextAfter(bs, u, n)
  BY <1>3, <1>5 DEF TextAfter
<1>. QED
  BY <1>3, <1>4, <1>5, <1>6, <1>7 DEF Reduced

\* The user's blocks ignore what is stale and the end of a block there is not.
LEMMA ShownFacts ==
  ASSUME NEW bs, Placed(bs), NEW u \in Update, NEW n \in Nat
  PROVE  /\ bs[u.block].at = 0 /\ u.op = "finalize" => ShownAfter(bs, u, n) = bs
         /\ bs[u.block].at > 0 /\ u.base > 0 /\ u.base < bs[u.block].base =>
              ShownAfter(bs, u, n) = bs
         /\ ~(bs[u.block].at = 0 /\ u.op = "finalize")
              /\ ~(bs[u.block].at > 0 /\ u.base > 0 /\ u.base < bs[u.block].base) =>
              Reduced(bs, ShownAfter(bs, u, n), u, n)
<1>1. bs[u.block].at \in Nat
  BY UpdateFields, BlockFields DEF Placed
<1>2. CASE bs[u.block].at > 0
  BY <1>2, PatchedFacts DEF ShownAfter
<1>3. CASE bs[u.block].at = 0
  BY <1>3, PushedFacts DEF ShownAfter
<1>. QED BY <1>1, <1>2, <1>3

\* The accumulator ignores the end of a block there is not.
LEMMA AccumulatedFacts ==
  ASSUME NEW bs, Placed(bs), NEW u \in Update, NEW n \in Nat
  PROVE  /\ bs[u.block].at = 0 /\ u.op = "finalize" => Accumulated(bs, u, n) = bs
         /\ ~(bs[u.block].at = 0 /\ u.op = "finalize") =>
              Reduced(bs, Accumulated(bs, u, n), u, n)
<1>1. bs[u.block].at \in Nat
  BY UpdateFields, BlockFields DEF Placed
<1>2. CASE bs[u.block].at > 0
  BY <1>2, PatchedFacts DEF Accumulated
<1>3. CASE bs[u.block].at = 0
  BY <1>3, PushedFacts DEF Accumulated
<1>. QED BY <1>1, <1>2, <1>3

LEMMA ReducersPlaced ==
  ASSUME NEW bs, Placed(bs), NEW u \in Update, NEW n \in Nat
  PROVE  Placed(ShownAfter(bs, u, n)) /\ Placed(Accumulated(bs, u, n))
<1>1. \A r : Reduced(bs, r, u, n) => Placed(r)
  BY GrowsPlaced DEF Reduced
<1>2. Placed(ShownAfter(bs, u, n))
  BY <1>1, ShownFacts
<1>3. Placed(Accumulated(bs, u, n))
  BY <1>1, AccumulatedFacts
<1>. QED BY <1>2, <1>3

-----------------------------------------------------------------------------
(* The text of the message                                                  *)

LEMMA TextAtType ==
  ASSUME NEW bs \in BlockMap, NEW k
  PROVE  TextAt(bs, k) \in Seq(Nat)
<1>1. CASE \E b \in Texts : bs[b].at = k
  <2>. PICK b \in Texts : b = CHOOSE c \in Texts : bs[c].at = k
    BY <1>1
  <2>1. TextAt(bs, k) = bs[b].text
    BY <1>1 DEF TextAt
  <2>2. b \in Blocks
    BY DEF Blocks
  <2>. QED BY <2>1, <2>2, BlockFields
<1>2. CASE ~\E b \in Texts : bs[b].at = k
  BY <1>2, EmptySeq DEF TextAt
<1>. QED BY <1>1, <1>2

\* The accumulated text goes along the positions of the message.
Joining(f, bs) ==
  /\ f[0] = <<>> /\ Result(bs) = f[Cardinality(Present(bs))]
  /\ \A k \in 1 .. Cardinality(Present(bs)) : f[k] = f[k - 1] \o TextAt(bs, k)

LEMMA ResultSteps ==
  ASSUME NEW bs, Placed(bs)
  PROVE  \E f : Joining(f, bs)
<1>. DEFINE Next1(g, k) == IF k = 0 THEN <<>> ELSE g[k - 1] \o TextAt(bs, k)
            S == {n \in Nat : \E g : g = [k \in 0 .. n |-> Next1(g, k)]}
<1>. PICK len \in Nat : len = Cardinality(Present(bs))
  BY FS_CardinalityType DEF Placed
<1>1. \A n \in 0 .. len : n \in S
  <2>1. 0 \in S
    <3>. PICK g : g = [k \in 0 .. 0 |-> <<>>]
      OBVIOUS
    <3>1. g = [k \in 0 .. 0 |-> Next1(g, k)]
      OBVIOUS
    <3>. QED BY <3>1
  <2>2. ASSUME NEW n \in 0 .. len - 1, n \in S PROVE n + 1 \in S
    <3>1. PICK g : g = [k \in 0 .. n |-> Next1(g, k)]
      BY <2>2
    <3>2. PICK h : h = [k \in 0 .. n + 1 |-> Next1(g, k)]
      OBVIOUS
    <3>3. \A k \in 0 .. n : h[k] = g[k]
      <4>1. \A k \in 0 .. n : k \in 0 .. n + 1
        OBVIOUS
      <4>. HIDE DEF Next1
      <4>. QED BY <3>1, <3>2, <4>1
    <3>4. \A k \in 0 .. n + 1 : Next1(h, k) = Next1(g, k)
      BY <3>3
    <3>5. h = [k \in 0 .. n + 1 |-> Next1(h, k)]
      BY <3>2, <3>4, Zenon
    <3>. HIDE DEF Next1
    <3>. QED BY <3>5
  <2>. HIDE DEF S
  <2>. QED BY <2>1, <2>2, CountUp
<1>. DEFINE f == CHOOSE g : g = [k \in 0 .. len |-> Next1(g, k)]
<1>2. f = [k \in 0 .. len |-> Next1(f, k)]
  <2>. HIDE DEF Next1
  <2>1. \E g : g = [k \in 0 .. len |-> Next1(g, k)]
    BY <1>1
  <2>. QED BY <2>1
<1>3. Result(bs) = f[len]
  BY DEF Result
<1>. HIDE DEF f
<1>4. \A k \in 0 .. len : f[k] = Next1(f, k)
  <2>. HIDE DEF Next1
  <2>. QED BY <1>2
<1>5. \A k \in 1 .. len : k \in 0 .. len /\ k # 0
  OBVIOUS
<1>6. f[0] = <<>>
  BY <1>4
<1>. QED
  BY <1>3, <1>4, <1>5, <1>6 DEF Joining

LEMMA ResultType ==
  ASSUME NEW bs, Placed(bs)
  PROVE  Result(bs) \in Seq(Nat)
<1>1. PICK f : Joining(f, bs)
  BY ResultSteps
<1>. PICK len \in Nat : len = Cardinality(Present(bs))
  BY FS_CardinalityType DEF Placed
<1>. PICK good : good = {k \in 0 .. len : f[k] \in Seq(Nat)}
  OBVIOUS
<1>2. 0 \in good
  <2>1. <<>> \in Seq(Nat) /\ f[0] = <<>>
    BY <1>1, EmptySeq DEF Joining
  <2>2. f[0] \in Seq(Nat)
    BY <2>1
  <2>. QED BY <2>2
<1>3. ASSUME NEW k \in 0 .. len - 1, k \in good PROVE k + 1 \in good
  <2>1. k + 1 \in 1 .. len /\ (k + 1) - 1 = k /\ k + 1 \in 0 .. len
    OBVIOUS
  <2>2. f[k + 1] = f[k] \o TextAt(bs, k + 1)
    BY <1>1, <2>1 DEF Joining
  <2>3. f[k] \in Seq(Nat) /\ TextAt(bs, k + 1) \in Seq(Nat)
    BY <1>3, TextAtType DEF Placed
  <2>4. \A s, t \in Seq(Nat) : s \o t \in Seq(Nat)
    BY ConcatProperties
  <2>5. f[k + 1] \in Seq(Nat)
    BY <2>2, <2>3, <2>4, Zenon
  <2>. QED BY <2>1, <2>5
<1>4. len \in good
  <2>1. \A k \in 0 .. len : k \in good
    BY <1>2, <1>3, CountUp
  <2>. QED BY <2>1
<1>. QED BY <1>1, <1>4 DEF Joining

\* The text of a message of one text block is that of the block.
LEMMA ResultOfOne ==
  ASSUME NEW bs, Placed(bs), NEW b \in Texts, Present(bs) = {b}
  PROVE  Result(bs) = bs[b].text
<1>1. b \in Blocks /\ bs \in BlockMap
  BY DEF Blocks, Placed
<1>2. Cardinality(Present(bs)) = 1
  BY FS_Singleton
<1>3. bs[b].at \in Nat /\ bs[b].at > 0 /\ bs[b].at <= 1 /\ bs[b].text \in Seq(Nat)
  BY <1>1, <1>2, BlockFields DEF Placed, Present
<1>4. \A c \in Texts : bs[c].at = 1 => c = b
  BY DEF Present, Blocks
<1>5. TextAt(bs, 1) = bs[b].text
  <2>1. bs[b].at = 1
    BY <1>3
  <2>2. (CHOOSE c \in Texts : bs[c].at = 1) = b
    BY <1>4, <2>1
  <2>. QED BY <2>1, <2>2 DEF TextAt
<1>6. PICK f : Joining(f, bs)
  BY ResultSteps
<1>7. f[0] = <<>> /\ f[1] = f[0] \o TextAt(bs, 1) /\ Result(bs) = f[1]
  <2>1. 1 \in 1 .. 1 /\ 1 - 1 = 0
    OBVIOUS
  <2>. QED BY <1>2, <1>6, <2>1 DEF Joining
<1>8. <<>> \o bs[b].text = bs[b].text
  BY <1>3, ConcatEmptySeq
<1>. QED BY <1>5, <1>7, <1>8

-----------------------------------------------------------------------------
(* The three reducers treat one update alike                                *)

\* Who has no base after an update had none before, and the update either
\* carries none or is ignored.
LEMMA UnbasedBefore ==
  ASSUME NEW w, Placed(w), NEW a, Placed(a), NEW u \in Update, NEW n \in Nat
  PROVE  /\ Unbased(ShownAfter(w, u, n)) => Unbased(w)
         /\ Unbased(Accumulated(a, u, n)) =>
              /\ Unbased(a)
              /\ u.base = 0 \/ (u.op = "finalize" /\ a[u.block].at = 0)
<1>1. u.block \in Blocks /\ u.base \in Nat
  BY UpdateFields
<1>2. ASSUME NEW bs, NEW r, Placed(bs), Reduced(bs, r, u, n), Unbased(r)
      PROVE  u.base = 0 /\ Unbased(bs)
  <2>1. r[u.block].base = 0
    BY <1>1, <1>2 DEF Unbased
  <2>2. u.base = 0 /\ bs[u.block].base = 0
    BY <1>1, <1>2, <2>1 DEF Reduced
  <2>3. \A b \in Blocks \ {u.block} : bs[b].base = 0
    BY <1>2 DEF Reduced, Unbased
  <2>. QED BY <2>2, <2>3 DEF Unbased
<1>3. Unbased(ShownAfter(w, u, n)) => Unbased(w)
  BY <1>2, ShownFacts
<1>4. ASSUME Unbased(Accumulated(a, u, n))
      PROVE  Unbased(a) /\ (u.base = 0 \/ (u.op = "finalize" /\ a[u.block].at = 0))
  BY <1>2, <1>4, AccumulatedFacts
<1>. QED BY <1>3, <1>4

\* An update without a base, or one that all ignore, keeps the stored and the
\* user's blocks alike; it is never rejected as stale.
LEMMA AlikeStep ==
  ASSUME NEW v, Sound(v), NEW w, Placed(w), NEW u \in Update, NEW n \in Nat, v.last < n,
         Alike(v, w), Unbased(w),
         u.base = 0 \/ (u.op = "finalize" /\ w[u.block].at = 0)
  PROVE  Alike(Stored(v, u, n), ShownAfter(w, u, n))
<1>. PICK x \in Blocks : x = u.block
  BY UpdateFields
<1>. v \in StoreSet /\ Placed(v.blocks)
  BY DEF Sound
<1>. PICK vb \in BlockMap : vb = v.blocks
  BY DEF StoreSet
<1>. PICK last \in Nat : last = v.last
  BY DEF StoreSet
<1>1. /\ w \in BlockMap /\ vb[x].at = w[x].at /\ vb[x].text = w[x].text /\ vb[x].base <= last
      /\ w[x].base = 0 /\ w[x].at \in Nat /\ vb[x].base \in Nat
  BY BlockFields DEF Alike, Unbased, Placed
<1>2. CASE u.op = "finalize" /\ w[x].at = 0
  <2>1. Rejected(v, u, n)
    BY <1>1, <1>2 DEF Rejected
  <2>2. Stored(v, u, n) = v /\ ShownAfter(w, u, n) = w
    BY <1>2, <2>1, StoredIs, ShownFacts
  <2>. QED BY <2>2
<1>3. CASE ~(u.op = "finalize" /\ w[x].at = 0)
  <2>1. u.base = 0 /\ BaseOf(u, n) \in {0, n}
    BY <1>3 DEF BaseOf
  <2>2. ~Rejected(v, u, n)
    BY <1>1, <1>3, <2>1 DEF Rejected
  <2>. PICK r : r = Stored(v, u, n)
    OBVIOUS
  <2>. PICK q : q = ShownAfter(w, u, n)
    OBVIOUS
  <2>. PICK t \in Block : t = Touched(v, u, n)
    BY TouchedFacts
  <2>3. /\ r.last = n /\ r.blocks[x] = t /\ Grows(vb, r.blocks, x)
        /\ \A b \in Blocks \ {x} : r.blocks[b] = Closed(v, u)[b]
    BY <2>2, AcceptedFacts
  <2>4. Reduced(w, q, u, n)
    BY <1>1, <1>3, <2>1, ShownFacts
  <2>5. Present(vb) = Present(w)
    BY DEF Present, Alike
  <2>6. ASSUME NEW b \in Blocks \ {x}
        PROVE  /\ r.blocks[b].at = q[b].at /\ r.blocks[b].text = q[b].text
               /\ r.blocks[b].base <= n
    <3>1. r.blocks[b].at = vb[b].at /\ r.blocks[b].text = vb[b].text
          /\ r.blocks[b].base = vb[b].base
      BY <2>3, <2>6, ClosedFacts
    <3>2. q[b].at = w[b].at /\ q[b].text = w[b].text
      BY <2>4, <2>6 DEF Reduced, Grows
    <3>3. vb[b].at = w[b].at /\ vb[b].text = w[b].text /\ vb[b].base <= last
          /\ vb[b].base \in Nat
      BY <2>6, BlockFields DEF Alike
    <3>. QED BY <3>1, <3>2, <3>3
  <2>7. t.at = q[x].at
    BY <1>1, <2>3, <2>4, <2>5 DEF Reduced, Grows
  <2>8. t.text = q[x].text
    <3>1. q[x].text = IF w[x].at > 0 THEN Edited(w[x].text, u, n) ELSE <<Word(u, n)>>
      BY <2>4 DEF Reduced, TextAfter
    <3>2. t.text = IF w[x].at > 0 THEN Edited(w[x].text, u, n) ELSE <<Word(u, n)>>
      BY <1>1, TouchedFacts
    <3>. QED BY <3>1, <3>2
  <2>9. t.base <= n
    BY <1>1, <2>1, TouchedFacts
  <2>10. \A b \in Blocks : /\ r.blocks[b].at = q[b].at /\ r.blocks[b].text = q[b].text
                           /\ r.blocks[b].base <= n
    BY <2>3, <2>6, <2>7, <2>8, <2>9
  <2>. QED BY <2>3, <2>10 DEF Alike
<1>. QED BY <1>2, <1>3

\* The accumulator keeps following the user's blocks.
LEMMA FollowsStep ==
  ASSUME NEW w, Placed(w), NEW a, Placed(a), NEW u \in Update, NEW n \in Nat,
         u.block \notin Asks, Follows(a, w), Unbased(w),
         u.base = 0 \/ (u.op = "finalize" /\ w[u.block].at = 0)
  PROVE  Follows(Accumulated(a, u, n), ShownAfter(w, u, n))
<1>. PICK x \in Texts \cup Thoughts : x = u.block
  BY UpdateFields DEF Blocks
<1>1. Texts \cup Thoughts \subseteq Blocks /\ x \in Blocks
  BY DEF Blocks
<1>2. /\ w[x].at \in Nat /\ a[x].at \in Nat /\ a[x].text = w[x].text
      /\ (a[x].at > 0 <=> w[x].at > 0) /\ w[x].base = 0
  BY <1>1, BlockFields DEF Follows, Placed, Unbased
<1>3. CASE u.op = "finalize" /\ w[x].at = 0
  <2>1. a[x].at = 0
    BY <1>2, <1>3
  <2>2. Accumulated(a, u, n) = a /\ ShownAfter(w, u, n) = w
    BY <1>3, <2>1, AccumulatedFacts, ShownFacts
  <2>. QED BY <2>2
<1>4. CASE ~(u.op = "finalize" /\ w[x].at = 0)
  <2>. PICK p : p = Accumulated(a, u, n)
    OBVIOUS
  <2>. PICK q : q = ShownAfter(w, u, n)
    OBVIOUS
  <2>1. Reduced(a, p, u, n) /\ Reduced(w, q, u, n)
    BY <1>2, <1>4, AccumulatedFacts, ShownFacts
  <2>2. \A b \in (Texts \cup Thoughts) \ {x} :
          p[b].text = q[b].text /\ (p[b].at > 0 <=> q[b].at > 0)
    BY <1>1, <2>1 DEF Reduced, Grows, Follows
  <2>3. p[x].text = q[x].text
    BY <1>2, <2>1 DEF Reduced, TextAfter
  <2>4. p[x].at > 0 /\ q[x].at > 0
    <3>1. \A bs : Placed(bs) => Cardinality(Present(bs)) \in Nat
      BY FS_CardinalityType DEF Placed
    <3>. QED BY <1>2, <2>1, <3>1 DEF Reduced, Grows
  <2>. QED BY <2>2, <2>3, <2>4 DEF Follows
<1>. QED BY <1>3, <1>4

\* A question is not the accumulator's.
LEMMA FollowsQuestion ==
  ASSUME NEW w, Placed(w), NEW a, NEW u \in Update, NEW n \in Nat,
         u.block \in Asks, u.op = "replace", u.base = 0, Follows(a, w)
  PROVE  Follows(a, ShownAfter(w, u, n))
<1>1. Reduced(w, ShownAfter(w, u, n), u, n)
  BY ShownFacts
<1>2. \A b \in Texts \cup Thoughts : b \in Blocks \ {u.block}
  BY ReducersAssumption DEF Blocks
<1>. QED
  BY <1>1, <1>2 DEF Reduced, Grows, Follows

-----------------------------------------------------------------------------
(* The steps                                                                *)

LEMMA TypeSets ==
  ASSUME NEW b \in Blocks, b \notin Asks
  PROVE  TypeSet(b) \in {Texts, Thoughts}
<1>1. \E T \in {Texts, Thoughts, Asks} : b \in T
  BY DEF Blocks
<1>2. TypeSet(b) \in {Texts, Thoughts, Asks} /\ b \in TypeSet(b)
  BY <1>1 DEF TypeSet
<1>. QED BY <1>2

LEMMA TypedState ==
  ASSUME BlockTypeOK
  PROVE  /\ next \in Nat /\ next \in 1 .. MaxUpdates + 1 /\ MaxUpdates \in Nat
         /\ buffer \in Seq(Entry) /\ store \in StoreSet
         /\ current \in {{}, Texts, Thoughts}
         /\ shown \in BlockMap /\ acc \in BlockMap
BY ReducersAssumption DEF BlockTypeOK, Entry, StoreSet, BlockMap

LEMMA ViewSound ==
  ASSUME BlockTypeOK, Running
  PROVE  Sound(View) /\ View.last \in Nat
<1>1. Sound(View)
  BY TypedState, StoredAllSound DEF Running, View
<1>. QED BY <1>1 DEF Sound, StoreSet

\* f is what a step that may flush leaves of store and buffer.
FlushedOrNot(f, s, buf) == f = Flushed(s, buf) \/ f = [store |-> s, buffer |-> buf]

\* Flushing or not, the view stays.
LEMMA MaybeFlushed ==
  ASSUME NEW s, Sound(s), NEW buf \in Seq(Entry), NEW f, FlushedOrNot(f, s, buf)
  PROVE  /\ Sound(f.store) /\ f.buffer \in Seq(Entry) /\ f.buffer \in {buf, <<>>}
         /\ StoredAll(f.store, f.buffer) = StoredAll(s, buf)
<1>1. CASE f = Flushed(s, buf)
  BY <1>1, FlushKeepsView, StoredAllSound
<1>2. CASE f = [store |-> s, buffer |-> buf]
  BY <1>2
<1>. QED BY <1>1, <1>2 DEF FlushedOrNot

\* Entry e is added between two flushes, each of which may not take place.
AddedBetween(f, g, s, buf, e) ==
  FlushedOrNot(f, s, buf) /\ FlushedOrNot(g, f.store, Append(f.buffer, e))

\* The view after an entry is added between two flushes.
LEMMA AddedView ==
  ASSUME NEW s, Sound(s), NEW buf \in Seq(Entry), NEW e \in Entry, NEW f, NEW g,
         AddedBetween(f, g, s, buf, e)
  PROVE  /\ f.buffer \in Seq(Entry) /\ f.buffer \in {buf, <<>>}
         /\ Sound(g.store) /\ g.buffer \in Seq(Entry)
         /\ g.buffer \in {Append(f.buffer, e), <<>>}
         /\ StoredAll(g.store, g.buffer) = Stored(StoredAll(s, buf), e.update, e.n)
<1>1. /\ Sound(f.store) /\ f.buffer \in Seq(Entry) /\ f.buffer \in {buf, <<>>}
      /\ StoredAll(f.store, f.buffer) = StoredAll(s, buf)
  BY MaybeFlushed DEF AddedBetween
<1>. PICK more : more = Append(f.buffer, e)
  OBVIOUS
<1>2. more \in Seq(Entry) /\ StoredAll(f.store, more) = Stored(StoredAll(s, buf), e.update, e.n)
  BY <1>1, StoredOneMore, AppendProperties
<1>3. /\ Sound(g.store) /\ g.buffer \in Seq(Entry) /\ g.buffer \in {more, <<>>}
      /\ StoredAll(g.store, g.buffer) = StoredAll(f.store, more)
  <2>. PICK r : r = f.store
    OBVIOUS
  <2>1. Sound(r) /\ FlushedOrNot(g, r, more) /\ more \in Seq(Entry)
    BY <1>1, <1>2 DEF AddedBetween
  <2>2. /\ Sound(g.store) /\ g.buffer \in Seq(Entry) /\ g.buffer \in {more, <<>>}
        /\ StoredAll(g.store, g.buffer) = StoredAll(r, more)
    BY <2>1, MaybeFlushed
  <2>. QED BY <2>2
<1>. QED BY <1>1, <1>2, <1>3

\* An event changes the view as its update would.
LEMMA EventView ==
  ASSUME BlockTypeOK, Running, NEW u \in StreamUpdate, BlockEvent(u)
  PROVE  /\ Sound(store') /\ buffer' \in Seq(Entry)
         /\ \A i \in 1 .. Len(buffer') : buffer'[i].n < next'
         /\ View' = Stored(View, u, next)
<1>0. PICK e : e = [n |-> next, update |-> u]
  OBVIOUS
<1>1. next' = next + 1 /\ next \in 1 .. MaxUpdates /\ u \in Update
  BY TypedState DEF BlockEvent, StreamUpdate
<1>2. e \in Entry /\ e.n = next /\ e.update = u
  BY <1>0, <1>1 DEF Entry
<1>3. Sound(store) /\ buffer \in Seq(Entry)
  BY TypedState DEF Running
<1>f. PICK f : /\ FlushedOrNot(f, store, buffer)
              /\ f = IF current \notin {{}, TypeSet(u.block)} THEN Flushed(store, buffer)
                     ELSE [store |-> store, buffer |-> buffer]
  BY DEF FlushedOrNot
<1>. PICK buf : buf = Append(f.buffer, e)
  OBVIOUS
<1>g. PICK g : /\ FlushedOrNot(g, f.store, buf)
              /\ g = IF u.done \/ Len(buf) >= ChunkLimit THEN Flushed(f.store, buf)
                     ELSE [store |-> f.store, buffer |-> buf]
  BY DEF FlushedOrNot
<1>4. /\ f.buffer \in Seq(Entry) /\ f.buffer \in {buffer, <<>>}
      /\ Sound(g.store) /\ g.buffer \in Seq(Entry) /\ g.buffer \in {buf, <<>>}
      /\ StoredAll(g.store, g.buffer) = Stored(View, u, next)
  <2>1. AddedBetween(f, g, store, buffer, e)
    BY <1>f, <1>g DEF AddedBetween
  <2>2. /\ f.buffer \in Seq(Entry) /\ f.buffer \in {buffer, <<>>}
        /\ Sound(g.store) /\ g.buffer \in Seq(Entry)
        /\ g.buffer \in {Append(f.buffer, e), <<>>}
        /\ StoredAll(g.store, g.buffer) = Stored(StoredAll(store, buffer), e.update, e.n)
    BY <1>2, <1>3, <2>1, AddedView, Zenon
  <2>. QED BY <1>2, <2>2 DEF View
<1>7. store' = g.store /\ buffer' = g.buffer
  BY <1>0, <1>f, <1>g DEF BlockEvent
<1>8. \A i \in 1 .. Len(f.buffer) : f.buffer[i].n < next
  <2>1. Len(<<>>) = 0 /\ 1 .. 0 = {}
    OBVIOUS
  <2>2. CASE f.buffer = buffer
    BY <2>2 DEF Running
  <2>3. CASE f.buffer = <<>>
    BY <2>1, <2>3
  <2>. QED BY <1>4, <2>2, <2>3
<1>9. \A i \in 1 .. Len(buf) : buf[i].n < next + 1
  <2>. PICK len \in Nat : len = Len(f.buffer)
    BY <1>4
  <2>1. Len(buf) = len + 1 /\ buf[len + 1] = e /\ \A i \in 1 .. len : buf[i] = f.buffer[i]
    BY <1>2, <1>4, AppendProperties
  <2>2. \A i \in 1 .. len : f.buffer[i].n \in Nat /\ f.buffer[i].n < next
    BY <1>4, <1>8, EntryFields
  <2>3. \A i \in 1 .. len : buf[i].n < next + 1
    BY <1>1, <2>1, <2>2
  <2>4. buf[len + 1].n < next + 1
    BY <1>1, <1>2, <2>1
  <2>5. \A i \in 1 .. Len(buf) : i \in 1 .. len \/ i = len + 1
    BY <2>1
  <2>. QED BY <2>3, <2>4, <2>5
<1>10. \A i \in 1 .. Len(buffer') : buffer'[i].n < next'
  <2>1. Len(<<>>) = 0 /\ 1 .. 0 = {}
    OBVIOUS
  <2>2. CASE g.buffer = buf
    BY <1>1, <1>7, <1>9, <2>2
  <2>3. CASE g.buffer = <<>>
    BY <1>7, <2>1, <2>3
  <2>. QED BY <1>4, <2>2, <2>3
<1>11. View' = Stored(View, u, next)
  BY <1>4, <1>7 DEF View
<1>. QED
  BY <1>4, <1>7, <1>10, <1>11

Question(q, phase) ==
  [block |-> q, op |-> "replace", base |-> 0, done |-> TRUE, kept |-> phase = "resolved"]

LEMMA QuestionIsUpdate ==
  ASSUME NEW q \in Asks, NEW phase
  PROVE  /\ Question(q, phase) \in Update /\ Question(q, phase).block = q
         /\ Question(q, phase).op = "replace" /\ Question(q, phase).base = 0
<1>. PICK k \in BOOLEAN : k = (phase = "resolved")
  OBVIOUS
<1>1. Question(q, phase) = [block |-> q, op |-> "replace", base |-> 0, done |-> TRUE, kept |-> k]
  BY DEF Question
<1>2. q \in Blocks
  BY DEF Blocks
<1>. QED BY <1>1, <1>2, ReducersAssumption DEF Update

\* A question changes the view as its update would, also when the flush before it
\* kept the buffer: what is buffered then is skipped behind the question's number.
LEMMA QuestionView ==
  ASSUME BlockTypeOK, Running, NEW u \in Update, next <= MaxUpdates,
         LET flushed == Flushed(store, buffer)
             s2 == Stored(flushed.store, u, next)
         IN /\ store' = s2 /\ buffer' = flushed.buffer
            /\ next' = IF s2 = flushed.store THEN next ELSE next + 1
  PROVE  /\ Sound(store') /\ buffer' \in Seq(Entry)
         /\ next' \in {next, next + 1}
         /\ \A i \in 1 .. Len(buffer') : buffer'[i].n < next'
         /\ View' = Stored(View, u, next)
         /\ View'.last < next'
<1>. PICK f : f = Flushed(store, buffer)
  OBVIOUS
<1>1. next \in Nat /\ buffer \in Seq(Entry) /\ Sound(View) /\ View.last \in Nat /\ View.last < next
  BY TypedState, ViewSound DEF Running
<1>2. /\ f.store = View /\ f.buffer \in Seq(Entry) /\ f.buffer \in {buffer, <<>>}
      /\ StoredAll(View, f.buffer) = View
  BY <1>1, FlushKeepsView DEF View
<1>. PICK s2 : s2 = Stored(View, u, next)
  OBVIOUS
<1>3. store' = s2 /\ buffer' = f.buffer /\ next' = IF s2 = View THEN next ELSE next + 1
  BY <1>2
<1>4. Sound(s2)
  BY <1>1, StoredSound
<1>5. \A i \in 1 .. Len(buffer') : buffer'[i].n \in Nat /\ buffer'[i].n < next
  <2>1. Len(<<>>) = 0 /\ 1 .. 0 = {}
    OBVIOUS
  <2>2. CASE f.buffer = buffer
    BY <1>1, <1>3, <2>2, EntryFields DEF Running
  <2>3. CASE f.buffer = <<>>
    BY <1>3, <2>1, <2>3
  <2>. QED BY <1>2, <2>2, <2>3
<1>6. CASE Rejected(View, u, next)
  <2>1. s2 = View
    BY <1>6, StoredIs
  <2>2. View' = View
    BY <1>2, <1>3, <2>1 DEF View
  <2>. QED BY <1>1, <1>2, <1>3, <1>4, <1>5, <2>1, <2>2
<1>7. CASE ~Rejected(View, u, next)
  <2>1. s2.last = next
    BY <1>1, <1>7, AcceptedFacts DEF Sound
  <2>2. s2 # View
    BY <1>1, <2>1
  <2>3. next' = next + 1
    BY <1>3, <2>2
  <2>4. StoredAll(s2, f.buffer) = s2
    <3>1. \A i \in 1 .. Len(f.buffer) : f.buffer[i].n <= s2.last
      BY <1>1, <1>3, <1>5, <2>1
    <3>. QED BY <1>2, <3>1, StoredAgain
  <2>5. View' = s2
    BY <1>3, <2>4 DEF View
  <2>6. \A i \in 1 .. Len(buffer') : buffer'[i].n < next'
    BY <1>1, <1>5, <2>3
  <2>. QED BY <1>1, <1>2, <1>3, <1>4, <2>1, <2>3, <2>5, <2>6
<1>. QED BY <1>6, <1>7

LEMMA TypesNext ==
  ASSUME next' \in 1 .. MaxUpdates + 1, buffer' \in Seq(Entry), current' \in {{}, Texts, Thoughts},
         store' \in StoreSet, shown' \in BlockMap, acc' \in BlockMap, ended' \in BOOLEAN
  PROVE  BlockTypeOK'
BY DEF BlockTypeOK, Entry, StoreSet, BlockMap

LEMMA EventStep ==
  ASSUME IInv, NEW u \in StreamUpdate, BlockEvent(u)
  PROVE  IInv'
<1>1. BlockTypeOK /\ Running /\ ended = FALSE
  BY DEF IInv, BlockEvent, BlockTypeOK
<1>2. /\ u \in Update /\ u.block \in Blocks /\ u.block \notin Asks
      /\ next \in 1 .. MaxUpdates /\ next \in Nat /\ MaxUpdates \in Nat
      /\ next' = next + 1 /\ current' = TypeSet(u.block) /\ ended' = FALSE
      /\ acc' = Accumulated(acc, u, next) /\ shown' = ShownAfter(shown, u, next)
  BY <1>1, TypedState, UpdateFields DEF BlockEvent, StreamUpdate
<1>3. /\ Sound(store') /\ buffer' \in Seq(Entry)
      /\ \A i \in 1 .. Len(buffer') : buffer'[i].n < next'
      /\ View' = Stored(View, u, next)
  BY <1>1, EventView
<1>4. Sound(View) /\ View.last \in Nat /\ View.last < next /\ Placed(shown) /\ Placed(acc)
  BY <1>1, ViewSound DEF Running
<1>5. Placed(shown') /\ Placed(acc')
  BY <1>2, <1>4, ReducersPlaced
<1>6. View'.last < next'
  <2>1. CASE Rejected(View, u, next)
    BY <1>2, <1>3, <1>4, <2>1, StoredIs
  <2>2. CASE ~Rejected(View, u, next)
    BY <1>2, <1>3, <1>4, <2>2, AcceptedFacts DEF Sound
  <2>. QED BY <2>1, <2>2
<1>7. \A b \in Asks : acc'[b].at = 0
  <2>1. \A b \in Asks : b \in Blocks \ {u.block} /\ acc[b].at = 0
    BY <1>1, <1>2 DEF Running, Blocks
  <2>2. CASE acc' = acc
    BY <2>1, <2>2
  <2>3. CASE Reduced(acc, acc', u, next)
    BY <2>1, <2>3 DEF Reduced, Grows
  <2>. QED BY <1>2, <1>4, <2>2, <2>3, AccumulatedFacts
<1>8. ASSUME Unbased(shown'), Unbased(acc')
      PROVE  Alike(View', shown') /\ Follows(acc', shown')
  <2>1. /\ Unbased(shown) /\ Unbased(acc)
        /\ u.base = 0 \/ (u.op = "finalize" /\ acc[u.block].at = 0)
    BY <1>2, <1>4, <1>8, UnbasedBefore
  <2>2. Alike(View, shown) /\ Follows(acc, shown)
    BY <1>1, <2>1 DEF Running
  <2>3. u.base = 0 \/ (u.op = "finalize" /\ shown[u.block].at = 0)
    <3>1. u.block \in Texts \cup Thoughts
      BY <1>2 DEF Blocks
    <3>2. shown[u.block].at \in Nat /\ acc[u.block].at \in Nat
      BY <1>2, <1>4, BlockFields DEF Placed
    <3>. QED BY <2>1, <2>2, <3>1, <3>2 DEF Follows
  <2>4. Alike(View', shown')
    BY <1>2, <1>3, <1>4, <2>1, <2>2, <2>3, AlikeStep
  <2>5. Follows(acc', shown')
    BY <1>2, <1>4, <2>1, <2>2, <2>3, FollowsStep
  <2>. QED BY <2>4, <2>5
<1>9. BlockTypeOK'
  <2>1. next' \in 1 .. MaxUpdates + 1
    <3>1. \A x, m \in Nat : x \in 1 .. m => x + 1 \in 1 .. m + 1
      OBVIOUS
    <3>. QED BY <1>2, <3>1, Zenon
  <2>2. current' \in {{}, Texts, Thoughts}
    BY <1>2, TypeSets
  <2>. QED BY <1>2, <1>3, <1>5, <2>1, <2>2, TypesNext DEF Sound, Placed
<1>10. Running'
  BY <1>3, <1>5, <1>6, <1>7, <1>8 DEF Running
<1>. QED
  BY <1>2, <1>9, <1>10 DEF IInv

LEMMA QuestionStep ==
  ASSUME IInv, NEW q \in Asks, NEW phase, Interrupt(q, phase)
  PROVE  IInv'
<1>1. BlockTypeOK /\ Running /\ ended = FALSE
  BY DEF IInv, Interrupt, BlockTypeOK
<1>. PICK u \in Update : u = Question(q, phase)
  BY QuestionIsUpdate
<1>2. u.block = q /\ u.op = "replace" /\ u.base = 0 /\ u.block \in Asks
  BY QuestionIsUpdate
<1>3. /\ next <= MaxUpdates /\ current' = current /\ acc' = acc /\ ended' = FALSE
      /\ shown' = ShownAfter(shown, u, next)
  BY <1>1 DEF Interrupt, Question
<1>4. /\ Sound(store') /\ buffer' \in Seq(Entry) /\ next' \in {next, next + 1}
      /\ \A i \in 1 .. Len(buffer') : buffer'[i].n < next'
      /\ View' = Stored(View, u, next) /\ View'.last < next'
  <2>1. LET flushed == Flushed(store, buffer)
            s2 == Stored(flushed.store, u, next)
        IN /\ store' = s2 /\ buffer' = flushed.buffer
           /\ next' = IF s2 = flushed.store THEN next ELSE next + 1
    BY DEF Interrupt, Question
  <2>. QED BY <1>1, <1>3, <2>1, QuestionView
<1>5. next \in Nat /\ MaxUpdates \in Nat /\ next \in 1 .. MaxUpdates + 1
  BY <1>1, TypedState
<1>6. Sound(View) /\ View.last \in Nat /\ View.last < next /\ Placed(shown) /\ Placed(acc)
  BY <1>1, ViewSound DEF Running
<1>7. Placed(shown')
  BY <1>3, <1>5, <1>6, ReducersPlaced
<1>8. ASSUME Unbased(shown'), Unbased(acc')
      PROVE  Alike(View', shown') /\ Follows(acc', shown')
  <2>1. Unbased(shown) /\ Unbased(acc)
    BY <1>3, <1>5, <1>6, <1>8, UnbasedBefore
  <2>2. Alike(View, shown) /\ Follows(acc, shown)
    BY <1>1, <2>1 DEF Running
  <2>3. Alike(View', shown')
    BY <1>2, <1>3, <1>4, <1>5, <1>6, <2>1, <2>2, AlikeStep
  <2>4. Follows(acc', shown')
    BY <1>2, <1>3, <1>5, <1>6, <2>2, FollowsQuestion
  <2>. QED BY <2>3, <2>4
<1>9. BlockTypeOK'
  <2>1. next' \in 1 .. MaxUpdates + 1
    <3>1. \A x, m \in Nat : x \in 1 .. m + 1 /\ x <= m => x + 1 \in 1 .. m + 1
      OBVIOUS
    <3>. QED BY <1>3, <1>4, <1>5, <3>1, Zenon
  <2>2. current' \in {{}, Texts, Thoughts} /\ acc' \in BlockMap
    BY <1>1, <1>3, TypedState
  <2>. QED BY <1>3, <1>4, <1>7, <2>1, <2>2, TypesNext DEF Sound, Placed
<1>10. Running'
  <2>1. \A b \in Asks : acc'[b].at = 0
    BY <1>1, <1>3 DEF Running
  <2>2. Placed(acc')
    BY <1>3, <1>6
  <2>. QED BY <1>4, <1>7, <1>8, <2>1, <2>2 DEF Running
<1>. QED
  BY <1>3, <1>9, <1>10 DEF IInv

\* What the end of the stream records: the accumulated text for a message of one
\* finished text block.
RecordedBlocks(bs, text) ==
  [b \in Blocks |->
     IF /\ Cardinality(Present(bs)) = 1 /\ b \in Texts /\ bs[b].at = 1 /\ ~bs[b].open
        /\ text # <<>>
     THEN [bs[b] EXCEPT !.text = text] ELSE bs[b]]

LEMMA RecordedFacts ==
  ASSUME NEW bs \in BlockMap, NEW text \in Seq(Nat)
  PROVE  /\ RecordedBlocks(bs, text) \in BlockMap
         /\ \A b \in Blocks :
              /\ RecordedBlocks(bs, text)[b].at = bs[b].at
              /\ RecordedBlocks(bs, text)[b].open = bs[b].open
              /\ \/ RecordedBlocks(bs, text)[b].text = bs[b].text
                 \/ /\ Cardinality(Present(bs)) = 1 /\ b \in Texts /\ bs[b].at = 1
                    /\ RecordedBlocks(bs, text)[b].text = text
<1>. PICK r : r = RecordedBlocks(bs, text)
  OBVIOUS
<1>1. ASSUME NEW b \in Blocks
      PROVE  /\ r[b] \in Block /\ r[b].at = bs[b].at /\ r[b].open = bs[b].open
             /\ \/ r[b].text = bs[b].text
                \/ /\ Cardinality(Present(bs)) = 1 /\ b \in Texts /\ bs[b].at = 1
                   /\ r[b].text = text
  <2>. PICK t \in Block : t = bs[b]
    BY BlockFields
  <2>. PICK new : new = [t EXCEPT !.text = text]
    OBVIOUS
  <2>1. new \in Block /\ new.at = t.at /\ new.open = t.open /\ new.text = text
    BY DEF Block
  <2>2. \/ r[b] = t
        \/ Cardinality(Present(bs)) = 1 /\ b \in Texts /\ t.at = 1 /\ r[b] = new
    BY DEF RecordedBlocks
  <2>. QED BY <2>1, <2>2
<1>2. r \in BlockMap
  BY <1>1 DEF RecordedBlocks, BlockMap
<1>. QED BY <1>1, <1>2

\* When a message is one text block, the accumulated text is that block's.
LEMMA AccumulatedIsShown ==
  ASSUME NEW v, Sound(v), NEW w, Placed(w), NEW a, Placed(a), Alike(v, w), Follows(a, w),
         \A b \in Asks : a[b].at = 0,
         NEW b \in Texts, v.blocks[b].at = 1, Cardinality(Present(v.blocks)) = 1
  PROVE  Result(a) = w[b].text
<1>. PICK vb : vb = v.blocks
  OBVIOUS
<1>1. b \in Blocks /\ Placed(vb) /\ a \in BlockMap /\ w \in BlockMap
  BY DEF Sound, Placed, Blocks
<1>2. Present(vb) = {b}
  <2>1. \E c : Present(vb) = {c}
    BY <1>1, FS_Singleton DEF Placed
  <2>2. b \in Present(vb)
    BY <1>1 DEF Present
  <2>. QED BY <2>1, <2>2
<1>3. \A c \in Blocks : w[c].at > 0 <=> c = b
  BY <1>2 DEF Present, Alike
<1>4. Present(a) = {b}
  <2>1. b \in Present(a)
    BY <1>1, <1>3 DEF Present, Follows
  <2>2. ASSUME NEW c \in Blocks, a[c].at > 0 PROVE c = b
    <3>1. c \notin Asks
      BY <2>2
    <3>2. c \in Texts \cup Thoughts
      BY <3>1 DEF Blocks
    <3>. QED BY <1>3, <2>2, <3>2 DEF Follows
  <2>. QED BY <2>1, <2>2 DEF Present
<1>. QED
  BY <1>4, ResultOfOne DEF Follows

LEMMA FinishStep ==
  ASSUME IInv, FinishMessage
  PROVE  IInv'
<1>1. BlockTypeOK /\ Running /\ ended = FALSE
  BY DEF IInv, FinishMessage, BlockTypeOK
<1>2. /\ ended' = TRUE /\ next' = next /\ current' = current /\ shown' = shown /\ acc' = acc
      /\ buffer' = Flushed(store, buffer).buffer
  BY DEF FinishMessage
<1>3. /\ buffer \in Seq(Entry) /\ Placed(acc) /\ Placed(shown) /\ Sound(View)
      /\ \A b \in Asks : acc[b].at = 0
  BY <1>1, TypedState, ViewSound DEF Running
<1>4. buffer' \in Seq(Entry) /\ Flushed(store, buffer).store = View
  BY <1>2, <1>3, FlushKeepsView DEF View
<1>. PICK vb \in BlockMap : vb = View.blocks
  BY <1>3 DEF Sound, StoreSet
<1>. PICK text \in Seq(Nat) : text = Result(acc)
  BY <1>3, ResultType
<1>5. PICK rb \in BlockMap : rb = RecordedBlocks(vb, text)
  BY RecordedFacts
<1>6. store' = [blocks |-> rb, last |-> 0, active |-> 0]
  BY <1>4, <1>5 DEF FinishMessage, RecordedBlocks
<1>7. store' \in StoreSet /\ store'.blocks = rb
  BY <1>6 DEF StoreSet
<1>8. \A b \in Blocks :
        /\ rb[b].at = vb[b].at /\ rb[b].open = vb[b].open
        /\ \/ rb[b].text = vb[b].text
           \/ Cardinality(Present(vb)) = 1 /\ b \in Texts /\ vb[b].at = 1 /\ rb[b].text = text
  BY <1>5, RecordedFacts
<1>9. BlockTypeOK'
  <2>1. /\ next' \in 1 .. MaxUpdates + 1 /\ ended' \in BOOLEAN /\ current' \in {{}, Texts, Thoughts}
        /\ shown' \in BlockMap /\ acc' \in BlockMap
    BY <1>1, <1>2, TypedState
  <2>. QED BY <1>4, <1>7, <2>1, TypesNext
<1>10. OneOpenBlock'
  <2>1. \A b \in Blocks : vb[b].open => \A c \in Blocks \ {b} : ~vb[c].open
    BY <1>3 DEF Sound, OneOpen
  <2>. QED BY <1>2, <1>7, <1>8, <2>1 DEF OneOpenBlock
<1>11. SameContent'
  <2>1. ASSUME Unbased(shown), Unbased(acc)
        PROVE  /\ \A b \in Blocks : rb[b].at = shown[b].at /\ rb[b].text = shown[b].text
               /\ \A b \in Texts : acc[b].text = shown[b].text
    <3>1. Alike(View, shown) /\ Follows(acc, shown)
      BY <1>1, <2>1 DEF Running
    <3>2. \A b \in Blocks : vb[b].at = shown[b].at /\ vb[b].text = shown[b].text
      BY <3>1 DEF Alike
    <3>3. ASSUME NEW b \in Texts, vb[b].at = 1, Cardinality(Present(vb)) = 1
          PROVE  text = shown[b].text
      BY <1>3, <3>1, <3>3, AccumulatedIsShown
    <3>4. \A b \in Blocks : rb[b].at = shown[b].at /\ rb[b].text = shown[b].text
      BY <1>8, <3>2, <3>3
    <3>. QED BY <3>1, <3>4 DEF Follows
  <2>. QED BY <1>2, <1>7, <2>1 DEF SameContent, Unbased
<1>. QED
  BY <1>2, <1>9, <1>10, <1>11 DEF IInv

LEMMA FirstState ==
  ASSUME BlockInit
  PROVE  IInv
<1>1. /\ next = 1 /\ buffer = <<>> /\ current = {} /\ ended = FALSE
      /\ shown = NoBlocks /\ acc = NoBlocks
      /\ store = [blocks |-> NoBlocks, last |-> 0, active |-> 0]
  BY DEF BlockInit
<1>2. NoBlocks \in BlockMap /\ Placed(NoBlocks) /\ <<>> \in Seq(Entry) /\ Len(<<>>) = 0
  BY NoBlockIsBlock, EmptySeq
<1>3. /\ store \in StoreSet /\ store.blocks = NoBlocks /\ store.last = 0
  BY <1>1, <1>2 DEF StoreSet
<1>4. \A b \in Blocks : /\ NoBlocks[b].at = 0 /\ NoBlocks[b].base = 0 /\ NoBlocks[b].open = FALSE
                        /\ NoBlocks[b].text = <<>>
  BY DEF NoBlocks, NoBlock
<1>5. Sound(store)
  BY <1>2, <1>3, <1>4 DEF Sound, OneOpen
<1>6. View = store
  BY <1>1, StoredNothing DEF View
<1>7. BlockTypeOK
  <2>1. 1 \in 1 .. MaxUpdates + 1
    BY ReducersAssumption
  <2>. QED BY <1>1, <1>2, <1>3, <2>1 DEF BlockTypeOK, Entry, StoreSet, BlockMap
<1>8. Alike(View, shown) /\ Follows(acc, shown)
  <2>1. Texts \cup Thoughts \subseteq Blocks
    BY DEF Blocks
  <2>. QED BY <1>1, <1>3, <1>4, <1>6, <2>1 DEF Alike, Follows
<1>9. Running
  <2>1. \A b \in Asks : acc[b].at = 0
    BY <1>1, <1>4 DEF Blocks
  <2>2. View.last < next /\ \A i \in 1 .. Len(buffer) : buffer[i].n < next
    BY <1>1, <1>2, <1>3, <1>6
  <2>. QED BY <1>1, <1>2, <1>5, <1>8, <2>1, <2>2 DEF Running
<1>. QED
  BY <1>1, <1>7, <1>9 DEF IInv

LEMMA Invariance == BlockSpec => []IInv
<1>1. ASSUME IInv, [BlockNext]_reducerVars PROVE IInv'
  <2>1. CASE \E u \in StreamUpdate : BlockEvent(u)
    BY <1>1, <2>1, EventStep
  <2>2. CASE \E q \in Asks, phase \in {"asked", "resolved"} : Interrupt(q, phase)
    BY <1>1, <2>2, QuestionStep
  <2>3. CASE FinishMessage
    BY <1>1, <2>3, FinishStep
  <2>4. CASE UNCHANGED reducerVars
    BY <1>1, <2>4 DEF reducerVars, IInv, BlockTypeOK, Running, View, Unbased, Alike, Follows,
                      OneOpenBlock, SameContent
  <2>. QED BY <1>1, <2>1, <2>2, <2>3, <2>4 DEF BlockNext
<1>. QED BY <1>1, FirstState, PTL DEF BlockSpec

-----------------------------------------------------------------------------
(* Theorems *)

\* Every variable of the reducers keeps its type: in particular the position the cursor
\* names and the accumulated text of the recorded message.
THEOREM BlockTypes == BlockSpec => []BlockTypeOK
<1>1. IInv => BlockTypeOK
  BY DEF IInv
<1>. QED BY <1>1, Invariance, PTL

\* At most one stored block is open and the cursor names it, for every mix of updates and
\* questions in every batching (append_agent_message_block_update).
THEOREM OneOpenBlockHolds == BlockSpec => []OneOpenBlock
<1>1. ASSUME IInv PROVE OneOpenBlock
  <2>1. CASE ended
    BY <1>1, <2>1 DEF IInv
  <2>2. CASE ~ended
    <3>1. OneOpen(store)
      BY <1>1, <2>2 DEF IInv, Running, Sound
    <3>. QED BY <3>1 DEF OneOpen, OneOpenBlock
  <2>. QED BY <2>1, <2>2
<1>. QED BY <1>1, Invariance, PTL

\* The stored blocks with what is buffered, the user's blocks and the accumulated texts
\* have the same content while no update has carried a base, and so has the recorded
\* message: batching, kept buffers and the overwriting at the end do not show.
THEOREM SameContentHolds == BlockSpec => []SameContent
<1>1. ASSUME IInv PROVE SameContent
  <2>1. CASE ended
    BY <1>1, <2>1 DEF IInv
  <2>2. CASE ~ended
    <3>1. Unbased(shown) /\ Unbased(acc) => Alike(View, shown) /\ Follows(acc, shown)
      BY <1>1, <2>2 DEF IInv, Running
    <3>2. Alike(View, shown) =>
            \A b \in Blocks : /\ StoredAll(store, buffer).blocks[b].at = shown[b].at
                              /\ StoredAll(store, buffer).blocks[b].text = shown[b].text
      BY DEF Alike, View
    <3>3. Follows(acc, shown) => \A b \in Texts : acc[b].text = shown[b].text
      BY DEF Follows
    <3>. QED BY <2>2, <3>1, <3>2, <3>3 DEF SameContent, Unbased
  <2>. QED BY <2>1, <2>2
<1>. QED BY <1>1, Invariance, PTL

=============================================================================
