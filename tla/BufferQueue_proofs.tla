------------------------- MODULE BufferQueue_proofs -------------------------
(***************************************************************************)
(* Proofs about BufferQueue for every size of the ring, of the buffers and *)
(* of the callback, and every client: the cursor loses and repeats nothing *)
(* without Clear, the reported count agrees with the callbacks, and the    *)
(* ring, the cursor and the mixer together implement BufferPromise, Clear  *)
(* at any moment included.                                                 *)
(*                                                                         *)
(* What the induction needs is what the ring holds: the buffers accepted   *)
(* last, oldest first, and none that the mixer has had before.             *)
(***************************************************************************)
EXTENDS BufferQueue, TLAPS

Held == {"store", "size", "test", "carry", "callback", "read", "advance"}
AtCursor == {"size", "test", "carry", "read", "advance"}

QueueTypeOK ==
  /\ ops \in Clients
  /\ q \in [Slots -> Buffers] /\ q_head \in Slots /\ q_tail \in Slots
  /\ cur \in Nat /\ cur_size \in Nat /\ cur_fpos \in Nat
  /\ playing \in BOOLEAN /\ cb \in BOOLEAN
  /\ drained \in 0 .. DrainCap
  /\ pc \in Held \cup {"out", "load"}
  /\ left \in 0 .. FRAMES /\ (pc # "out" => left > 0)
  /\ b \in Buffers /\ fpos \in Nat
  /\ accepted \in Nat /\ returned \in Nat /\ doomed \in Nat /\ slip \in Int

(* What waits is what was accepted last. *)
Pos(i) == (q_head + i - 1) % BQ_SLOTS

WaitInv ==
  /\ RingCount <= accepted
  /\ \A i \in 1 .. RingCount : q[Pos(i)].data = accepted - RingCount + i

(* The cursor holds the mixer's buffer or none.  A buffer the mixer works  *)
(* on without the cursor was cleared.                                      *)
CursorInv ==
  /\ cur \in {0, b.data}
  /\ b.data <= accepted - RingCount
  /\ InBlock => b.data > 0
  /\ pc \in {"store", "callback"} => cur = 0
  /\ pc \in AtCursor /\ cur = 0 => doomed = b.data
  /\ pc = "callback" => cb
  /\ returned <= b.data
  /\ InBlock \/ cur # 0 => returned < b.data

(* Between Clears: where the cursor stands at each step of the mixer, and  *)
(* which buffer is the last one handed back.                               *)
StraightInv ==
  "clear" \notin ops =>
    /\ slip = 0
    /\ pc \in AtCursor => cur # 0
    /\ pc = "read" => cur_size > 0
    /\ pc = "carry" => cur_size + fpos = cur_fpos
    /\ pc = "advance" => fpos = cur_fpos + STEP
    /\ b.data = accepted - RingCount
    /\ returned > 0 =>
         cb /\ returned = b.data - (IF cur # 0 \/ pc \in {"store", "callback"} THEN 1 ELSE 0)

QueueInv == QueueTypeOK /\ WaitInv /\ CursorInv /\ StraightInv

-----------------------------------------------------------------------------
(* The ring. *)

(* Both indices stay within twice the size of the ring. *)
LEMMA ModWrap ==
  ASSUME NEW N \in Nat \ {0}, NEW x \in 0 .. 2 * N - 1
  PROVE  x % N = IF x < N THEN x ELSE x - N
<1>1. CASE x < N
  BY <1>1
<1>2. CASE x >= N
  BY <1>2
<1> QED BY <1>1, <1>2

LEMMA SuccIs ==
  ASSUME NEW i \in Slots
  PROVE  Succ(i) = (IF i = BQ_SLOTS - 1 THEN 0 ELSE i + 1) /\ Succ(i) \in Slots
<1> DEFINE x == i + 1
<1>1. BQ_SLOTS \in Nat \ {0} /\ x \in 0 .. 2 * BQ_SLOTS - 1 /\ i \in 0 .. BQ_SLOTS - 1
  BY SlotsAssumption DEF Slots
<1>2. x % BQ_SLOTS = IF x < BQ_SLOTS THEN x ELSE x - BQ_SLOTS
  <2> HIDE DEF x
  <2> QED BY <1>1, ModWrap
<1> QED BY <1>1, <1>2 DEF Succ, Slots

LEMMA CountIs ==
  ASSUME NEW h \in Slots, NEW t \in Slots
  PROVE  /\ (t + BQ_SLOTS - h) % BQ_SLOTS = IF t >= h THEN t - h ELSE t - h + BQ_SLOTS
         /\ (t + BQ_SLOTS - h) % BQ_SLOTS \in 0 .. BQ_SLOTS - 1
<1> DEFINE x == t + BQ_SLOTS - h
<1>1. /\ BQ_SLOTS \in Nat \ {0} /\ x \in 0 .. 2 * BQ_SLOTS - 1
      /\ h \in 0 .. BQ_SLOTS - 1 /\ t \in 0 .. BQ_SLOTS - 1
  BY SlotsAssumption DEF Slots
<1>2. x % BQ_SLOTS = IF x < BQ_SLOTS THEN x ELSE x - BQ_SLOTS
  <2> HIDE DEF x
  <2> QED BY <1>1, ModWrap
<1> QED BY <1>1, <1>2

LEMMA PosIs ==
  ASSUME NEW h \in Slots, NEW i \in 1 .. BQ_SLOTS
  PROVE  /\ (h + i - 1) % BQ_SLOTS = IF h + i - 1 < BQ_SLOTS THEN h + i - 1 ELSE h + i - 1 - BQ_SLOTS
         /\ (h + i - 1) % BQ_SLOTS \in Slots
<1> DEFINE x == h + i - 1
<1>1. /\ BQ_SLOTS \in Nat \ {0} /\ x \in 0 .. 2 * BQ_SLOTS - 1
      /\ h \in 0 .. BQ_SLOTS - 1
  BY SlotsAssumption DEF Slots
<1>2. x % BQ_SLOTS = IF x < BQ_SLOTS THEN x ELSE x - BQ_SLOTS
  <2> HIDE DEF x
  <2> QED BY <1>1, ModWrap
<1> QED BY <1>1, <1>2 DEF Slots

(* Putting a buffer in makes one more, behind the others ...               *)
LEMMA PutIn ==
  ASSUME QueueInv, NEW size \in Nat, Enqueue(size)
  PROVE  /\ q' \in [Slots -> Buffers] /\ q_tail' \in Slots
         /\ RingCount' = RingCount + 1 /\ RingCount < BQ_SLOTS - 1
         /\ WaitInv'
<1> DEFINE new == [data |-> accepted + 1, size |-> size]
<1>1. /\ q \in [Slots -> Buffers] /\ q_head \in Slots /\ q_tail \in Slots /\ accepted \in Nat
      /\ q' = [q EXCEPT ![q_tail] = new] /\ q_tail' = Succ(q_tail) /\ q_head' = q_head
      /\ Succ(q_tail) # q_head /\ accepted' = accepted + 1
  BY DEF QueueInv, QueueTypeOK, Enqueue, RingFull
<1>2. BQ_SLOTS \in Nat /\ BQ_SLOTS > 1 /\ q_head \in 0 .. BQ_SLOTS - 1 /\ q_tail \in 0 .. BQ_SLOTS - 1
  BY <1>1, SlotsAssumption DEF Slots
<1>3. q_tail' \in Slots /\ q' \in [Slots -> Buffers]
  BY <1>1, SuccIs DEF Buffers
<1>4. /\ RingCount = IF q_tail >= q_head THEN q_tail - q_head ELSE q_tail - q_head + BQ_SLOTS
      /\ RingCount \in 0 .. BQ_SLOTS - 1
  BY <1>1, CountIs DEF RingCount
<1>5. RingCount' = IF q_tail' >= q_head' THEN q_tail' - q_head' ELSE q_tail' - q_head' + BQ_SLOTS
  BY <1>1, <1>3, CountIs DEF RingCount
<1>6. RingCount' = RingCount + 1 /\ RingCount < BQ_SLOTS - 1
  BY <1>1, <1>2, <1>4, <1>5, SuccIs
<1>7. ASSUME NEW i \in 1 .. RingCount' PROVE q'[Pos(i)'].data = accepted' - RingCount' + i
  <2>1. /\ i \in 1 .. BQ_SLOTS /\ Pos(i)' = Pos(i) /\ Pos(i) \in Slots
        /\ Pos(i) = IF q_head + i - 1 < BQ_SLOTS THEN q_head + i - 1 ELSE q_head + i - 1 - BQ_SLOTS
    <3>1. i \in 1 .. BQ_SLOTS
      BY <1>2, <1>4, <1>6
    <3>2. Pos(i)' = Pos(i)
      BY <1>1 DEF Pos
    <3> QED BY <1>1, <3>1, <3>2, PosIs DEF Pos
  <2>2. CASE i = RingCount + 1
    <3>1. Pos(i) = q_tail
      BY <1>2, <1>4, <2>1, <2>2
    <3> QED BY <1>1, <1>4, <1>6, <2>1, <2>2, <3>1
  <2>3. CASE i \in 1 .. RingCount
    <3>1. Pos(i) # q_tail
      BY <1>2, <1>4, <2>1, <2>3
    <3>2. q[Pos(i)].data = accepted - RingCount + i
      BY <2>3 DEF QueueInv, WaitInv
    <3> QED BY <1>1, <1>4, <1>6, <2>1, <3>1, <3>2
  <2> QED BY <1>4, <1>6, <2>2, <2>3
<1>8. RingCount' <= accepted'
  BY <1>1, <1>4, <1>6 DEF QueueInv, WaitInv
<1>9. WaitInv'
  BY <1>7, <1>8 DEF WaitInv
<1> QED BY <1>3, <1>6, <1>9

(* ... and taking one out leaves the others in their order. *)
LEMMA TakenOut ==
  ASSUME QueueInv, Fetch
  PROVE  /\ q_head' \in Slots /\ b' \in Buffers
         /\ RingCount > 0 /\ RingCount' = RingCount - 1
         /\ b'.data = accepted - RingCount + 1
         /\ WaitInv'
<1>1. /\ q \in [Slots -> Buffers] /\ q_head \in Slots /\ q_tail \in Slots /\ accepted \in Nat
      /\ q' = q /\ q_tail' = q_tail /\ q_head' = Succ(q_head) /\ q_head # q_tail /\ accepted' = accepted
      /\ b' = q[q_head]
  BY DEF QueueInv, QueueTypeOK, Fetch, RingEmpty, history
<1>2. BQ_SLOTS \in Nat /\ BQ_SLOTS > 1 /\ q_head \in 0 .. BQ_SLOTS - 1 /\ q_tail \in 0 .. BQ_SLOTS - 1
  BY <1>1, SlotsAssumption DEF Slots
<1>3. /\ RingCount = IF q_tail >= q_head THEN q_tail - q_head ELSE q_tail - q_head + BQ_SLOTS
      /\ RingCount \in 0 .. BQ_SLOTS - 1
  BY <1>1, CountIs DEF RingCount
<1>4. /\ q_head' \in Slots /\ q_head' = (IF q_head = BQ_SLOTS - 1 THEN 0 ELSE q_head + 1)
      /\ RingCount' = IF q_tail' >= q_head' THEN q_tail' - q_head' ELSE q_tail' - q_head' + BQ_SLOTS
  BY <1>1, SuccIs, CountIs DEF RingCount
<1>5. RingCount > 0 /\ RingCount' = RingCount - 1
  BY <1>1, <1>2, <1>3, <1>4
<1>6. b'.data = accepted - RingCount + 1
  <2>1. 1 \in 1 .. BQ_SLOTS /\ 1 \in 1 .. RingCount
    BY <1>2, <1>3, <1>5
  <2>2. Pos(1) = q_head
    BY <1>1, <1>2, <2>1, PosIs DEF Pos
  <2> QED BY <1>1, <2>1, <2>2 DEF QueueInv, WaitInv
<1>7. ASSUME NEW i \in 1 .. RingCount' PROVE q'[Pos(i)'].data = accepted' - RingCount' + i
  <2>1. i \in 1 .. BQ_SLOTS /\ i + 1 \in 1 .. BQ_SLOTS /\ i + 1 \in 1 .. RingCount
    BY <1>2, <1>3, <1>5
  <2>2. Pos(i + 1) = IF q_head + i < BQ_SLOTS THEN q_head + i ELSE q_head + i - BQ_SLOTS
    BY <1>1, <1>2, <2>1, PosIs DEF Pos
  <2>3. Pos(i)' = IF q_head' + i - 1 < BQ_SLOTS THEN q_head' + i - 1 ELSE q_head' + i - 1 - BQ_SLOTS
    BY <1>4, <2>1, PosIs DEF Pos
  <2>4. Pos(i)' = Pos(i + 1)
    BY <1>2, <1>4, <2>1, <2>2, <2>3
  <2>5. q[Pos(i + 1)].data = accepted - RingCount + (i + 1)
    BY <2>1 DEF QueueInv, WaitInv
  <2> QED BY <1>1, <1>3, <1>5, <2>1, <2>4, <2>5
<1>8. WaitInv'
  BY <1>1, <1>3, <1>5, <1>7 DEF QueueInv, WaitInv
<1>9. b' \in Buffers
  BY <1>1
<1> QED BY <1>4, <1>5, <1>6, <1>8, <1>9

(* No other step touches what waits. *)
LEMMA RingSame ==
  ASSUME QueueInv, UNCHANGED <<ring, accepted>>
  PROVE  WaitInv' /\ RingCount' = RingCount
<1>1. RingCount' = RingCount /\ \A i : Pos(i)' = Pos(i)
  BY DEF RingCount, Pos, ring
<1> QED BY <1>1 DEF QueueInv, WaitInv, ring

-----------------------------------------------------------------------------
(* Every step keeps the invariant. *)

LEMMA QueueInitInv == Init => QueueInv
<1> SUFFICES ASSUME Init PROVE QueueInv
  OBVIOUS
<1>1. BQ_SLOTS \in Nat /\ BQ_SLOTS > 1 /\ 0 \in Slots
  BY SlotsAssumption DEF Slots
<1>2. QueueTypeOK
  <2>1. NoBuffer \in Buffers
    BY DEF NoBuffer, Buffers
  <2>2. drained \in 0 .. DrainCap /\ left \in 0 .. FRAMES
    BY BoundsAssumption, FramesAssumption DEF Init
  <2>3. q \in [Slots -> Buffers] /\ b \in Buffers /\ pc \in Held \cup {"out", "load"} /\ slip \in Int
    BY <2>1 DEF Init
  <2>4. playing \in BOOLEAN /\ cb \in BOOLEAN
    BY DEF Init
  <2> QED BY <1>1, <2>2, <2>3, <2>4 DEF Init, QueueTypeOK
<1>3. RingCount = 0
  BY <1>1, CountIs DEF Init, RingCount
<1>4. WaitInv
  BY <1>3 DEF Init, WaitInv
<1>5. CursorInv /\ StraightInv
  BY <1>3 DEF Init, CursorInv, StraightInv, NoBuffer, InBlock, AtCursor
<1> QED BY <1>2, <1>4, <1>5 DEF QueueInv

LEMMA EnqueueStep ==
  ASSUME QueueInv, NEW size \in Sizes, Enqueue(size), ops' = ops
  PROVE  QueueInv'
<1>1. size \in Nat
  BY SizesAssumption
<1>2. /\ q' \in [Slots -> Buffers] /\ q_tail' \in Slots
      /\ RingCount' = RingCount + 1 /\ WaitInv'
  BY <1>1, PutIn
<1>3. /\ UNCHANGED <<ops, q_head, cur, cur_size, cur_fpos, playing, cb, pc, left, b, fpos, drained,
                     returned, doomed, slip>>
      /\ accepted' = accepted + 1
  BY DEF Enqueue, cursor, mixer
<1>4. QueueTypeOK'
  BY <1>2, <1>3 DEF QueueInv, QueueTypeOK
<1>5. accepted' - RingCount' = accepted - RingCount
  <2>1. RingCount \in Int
    BY CountIs DEF QueueInv, QueueTypeOK, RingCount
  <2> QED BY <1>2, <1>3, <2>1 DEF QueueInv, QueueTypeOK
<1>6. CursorInv' /\ StraightInv'
  BY <1>3, <1>5 DEF QueueInv, CursorInv, StraightInv, InBlock
<1> QED BY <1>2, <1>4, <1>6 DEF QueueInv

LEMMA ClearStep ==
  ASSUME QueueInv, Clear, ops' = ops
  PROVE  QueueInv' /\ RingCount' = 0
<1>1. /\ UNCHANGED <<q, playing, cb, pc, left, b, fpos, drained, accepted, returned, slip>>
      /\ q_head' = 0 /\ q_tail' = 0 /\ cur' = 0 /\ cur_size' = 0 /\ cur_fpos' = 0
      /\ doomed' = (IF InBlock THEN b.data ELSE 0) /\ "clear" \in ops'
  BY DEF Clear, mixer
<1>2. BQ_SLOTS \in Nat /\ BQ_SLOTS > 1 /\ 0 \in Slots
  BY SlotsAssumption DEF Slots
<1>3. RingCount' = 0
  BY <1>1, <1>2, CountIs DEF RingCount
<1>4. QueueTypeOK'
  BY <1>1, <1>2 DEF QueueInv, QueueTypeOK, Buffers
<1>5. WaitInv'
  BY <1>1, <1>3 DEF WaitInv, QueueInv, QueueTypeOK
<1>6. CursorInv'
  <2>1. RingCount \in Nat
    BY CountIs DEF QueueInv, QueueTypeOK, RingCount
  <2>2. b.data \in Nat
    BY DEF QueueInv, QueueTypeOK, Buffers
  <2> QED BY <1>1, <1>3, <2>1, <2>2 DEF QueueInv, QueueTypeOK, CursorInv, InBlock, AtCursor
<1>7. StraightInv'
  BY <1>1 DEF StraightInv
<1> QED BY <1>3, <1>4, <1>5, <1>6, <1>7 DEF QueueInv

LEMMA ControlStep ==
  ASSUME QueueInv, ops' = ops, RegisterCallback \/ \E on \in BOOLEAN : SetPlayState(on)
  PROVE  QueueInv'
<1>1. /\ UNCHANGED <<ops, ring, cur, cur_size, cur_fpos, pc, left, b, fpos, drained, accepted, returned,
                     doomed, slip>>
      /\ playing' \in BOOLEAN /\ cb' \in BOOLEAN /\ (cb => cb')
  BY DEF RegisterCallback, SetPlayState, cursor, mixer, history, QueueInv, QueueTypeOK
<1>2. WaitInv' /\ RingCount' = RingCount
  BY <1>1, RingSame
<1>3. QueueTypeOK'
  BY <1>1 DEF QueueInv, QueueTypeOK, ring
<1>4. CursorInv' /\ StraightInv'
  BY <1>1, <1>2 DEF QueueInv, CursorInv, StraightInv, InBlock
<1> QED BY <1>2, <1>3, <1>4 DEF QueueInv

LEMMA FetchStep ==
  ASSUME QueueInv, Fetch, ops' = ops
  PROVE  QueueInv'
<1>1. /\ q_head' \in Slots /\ b' \in Buffers
      /\ RingCount > 0 /\ RingCount' = RingCount - 1
      /\ b'.data = accepted - RingCount + 1
      /\ WaitInv'
  BY TakenOut
<1>2. /\ UNCHANGED <<ops, q, q_tail, cur, cur_size, cur_fpos, playing, cb, left, fpos, drained,
                     accepted, returned, doomed, slip>>
      /\ pc = "load" /\ cur = 0 /\ pc' = "store"
  BY DEF Fetch, cursor, history
<1>3. QueueTypeOK'
  BY <1>1, <1>2 DEF QueueInv, QueueTypeOK, Held
<1>4. RingCount \in Nat /\ RingCount <= accepted /\ accepted \in Nat /\ b.data \in Nat /\ returned \in Nat
  BY CountIs DEF QueueInv, QueueTypeOK, WaitInv, RingCount, Buffers
<1>5. CursorInv'
  BY <1>1, <1>2, <1>4 DEF QueueInv, CursorInv, InBlock, AtCursor
<1>6. StraightInv'
  BY <1>1, <1>2, <1>4 DEF QueueInv, StraightInv, AtCursor
<1> QED BY <1>1, <1>3, <1>5, <1>6 DEF QueueInv

(* The steps of the mixer that leave the ring alone. *)
LEMMA MixerStep ==
  ASSUME QueueInv, ops' = ops,
         \/ MixBegin \/ Load \/ Underrun \/ StoreCur \/ StoreSize
         \/ TestInside \/ Consume \/ LetGo \/ Callback \/ Read \/ Advance
  PROVE  QueueInv'
<1>1. UNCHANGED <<ring, playing, cb, b, accepted, doomed>>
  BY DEF MixBegin, Load, Underrun, StoreCur, StoreSize, TestInside, Consume, LetGo, Callback, Read, Advance,
         history
<1>2. WaitInv' /\ RingCount' = RingCount
  BY <1>1, RingSame
<1>3. QueueTypeOK
  BY DEF QueueInv
<1>4. /\ b.data \in Nat /\ b.size \in Nat /\ FRAMES \in Nat \ {0} /\ STEP \in Nat \ {0}
      /\ cur \in Nat /\ cur_size \in Nat /\ cur_fpos \in Nat /\ fpos \in Nat /\ slip \in Int
      /\ left \in 0 .. FRAMES /\ returned \in Nat /\ accepted \in Nat
      /\ (pc # "out" => left > 0) /\ drained \in 0 .. DrainCap /\ DrainCap \in Nat
  BY <1>3, FramesAssumption, BoundsAssumption DEF QueueTypeOK, Buffers
<1>5. RingCount \in Nat
  BY <1>3, CountIs DEF QueueTypeOK, RingCount
<1>6. QueueTypeOK'
  <2>1. /\ cur' \in Nat /\ cur_size' \in Nat /\ cur_fpos' \in Nat /\ fpos' \in Nat
        /\ returned' \in Nat
    BY <1>4 DEF MixBegin, Load, Underrun, StoreCur, StoreSize, TestInside, Consume, LetGo, Callback, Read,
                Advance, history, cursor
  <2>2. pc' \in Held \cup {"out", "load"}
    BY DEF MixBegin, Load, Underrun, StoreCur, StoreSize, TestInside, Consume, LetGo, Callback, Read,
           Advance, Held, QueueInv, QueueTypeOK
  <2>3. drained' \in 0 .. DrainCap /\ slip' \in Int
    BY <1>4 DEF MixBegin, Load, Underrun, StoreCur, StoreSize, TestInside, Consume, LetGo, Callback, Read,
                Advance, history, cursor
  <2>4. left' \in 0 .. FRAMES /\ (pc' # "out" => left' > 0)
    BY <1>4 DEF MixBegin, Load, Underrun, StoreCur, StoreSize, TestInside, Consume, LetGo, Callback, Read,
                Advance
  <2> QED BY <1>1, <1>3, <2>1, <2>2, <2>3, <2>4 DEF QueueTypeOK, ring
<1>7. CursorInv /\ StraightInv
  BY DEF QueueInv
<1>8. CursorInv'
  <2> USE <1>1, <1>2, <1>4, <1>5, <1>7 DEF CursorInv, InBlock, AtCursor
  <2>1. CASE MixBegin
    BY <2>1 DEF MixBegin, cursor, history
  <2>2. CASE Load \/ Underrun \/ TestInside
    BY <2>2 DEF Load, Underrun, TestInside, cursor, history
  <2>3. CASE StoreCur \/ StoreSize
    BY <2>3 DEF StoreCur, StoreSize, history
  <2>4. CASE Consume \/ Read
    BY <2>4 DEF Consume, Read, cursor, history
  <2>5. CASE LetGo \/ Callback
    BY <2>5 DEF LetGo, Callback, cursor
  <2>6. CASE Advance
    BY <2>6 DEF Advance
  <2> QED BY <2>1, <2>2, <2>3, <2>4, <2>5, <2>6
<1>9. StraightInv'
  <2> USE <1>1, <1>2, <1>4, <1>5, <1>7 DEF StraightInv, AtCursor
  <2>1. CASE MixBegin
    BY <2>1 DEF MixBegin, cursor, history
  <2>2. CASE Load \/ Underrun
    BY <2>2 DEF Load, Underrun, cursor, history
  <2>3. CASE TestInside
    BY <2>3 DEF TestInside, InBounds, cursor, history
  <2>4. CASE StoreCur \/ StoreSize
    BY <2>4 DEF StoreCur, StoreSize, history, CursorInv, InBlock
  <2>5. CASE Consume
    BY <2>5 DEF Consume, InBounds, cursor, history
  <2>6. CASE Read
    BY <2>6 DEF Read, cursor, history
  <2>7. CASE LetGo
    BY <2>7 DEF LetGo
  <2>8. CASE Callback
    BY <2>8 DEF Callback, cursor, CursorInv
  <2>9. CASE Advance
    BY <2>9 DEF Advance
  <2> QED BY <2>1, <2>2, <2>3, <2>4, <2>5, <2>6, <2>7, <2>8, <2>9
<1> QED BY <1>2, <1>6, <1>8, <1>9 DEF QueueInv

LEMMA QueueNext == QueueInv /\ [Next]_vars => QueueInv'
<1> SUFFICES ASSUME QueueInv, [Next]_vars PROVE QueueInv'
  OBVIOUS
<1>1. CASE UNCHANGED vars
  <2>1. WaitInv' /\ RingCount' = RingCount
    BY <1>1, RingSame DEF vars, history
  <2> QED BY <1>1, <2>1
       DEF vars, ring, cursor, mixer, history, QueueInv, QueueTypeOK, CursorInv, StraightInv, InBlock
<1>2. ASSUME NEW size \in Sizes, Enqueue(size), ops' = ops PROVE QueueInv'
  BY <1>2, EnqueueStep
<1>3. CASE Mix /\ ops' = ops
  BY <1>3, MixerStep, FetchStep DEF Mix
<1> QED BY <1>1, <1>2, <1>3, ClearStep, ControlStep DEF Next, Client

(* The invariant of one player of opensles.c (lines 300-640): what the     *)
(* ring holds, what the cursor and the mixer have of it, and where in      *)
(* mix_player that can be seen apart.                                      *)
THEOREM QueueInvariant == Spec => []QueueInv
  BY QueueInitInv, QueueNext, PTL DEF Spec

(* Without Clear no unit of sound is lost or repeated from one buffer to   *)
(* the next and nothing is read outside a buffer.                          *)
THEOREM Seamless == Spec => []NoSlip
<1>1. QueueInv => NoSlip
  BY DEF QueueInv, StraightInv, NoSlip, ReadsInsideBuffer, AtCursor
<1> QED BY <1>1, QueueInvariant, PTL

(* The reported count is the number of buffers the callbacks have not      *)
(* handed back, one short only where the mixer is between two of them.     *)
THEOREM CountAgrees == Spec => []CountMatchesCallbacks
<1>1. QueueInv => CountMatchesCallbacks
  <2> SUFFICES ASSUME QueueInv, returned > 0, "clear" \notin ops
               PROVE  accepted - returned - StateCount = IF pc \in {"store", "callback"} THEN 1 ELSE 0
    BY DEF CountMatchesCallbacks
  <2>1. RingCount \in Nat /\ accepted \in Nat /\ b.data \in Nat /\ returned \in Nat /\ cur \in Nat
    BY CountIs DEF QueueInv, QueueTypeOK, RingCount, Buffers
  <2>2. pc \in {"store", "callback"} => cur = 0
    BY DEF QueueInv, CursorInv
  <2> QED BY <2>1, <2>2 DEF QueueInv, StraightInv, StateCount
<1> QED BY <1>1, QueueInvariant, PTL

-----------------------------------------------------------------------------
(* The player keeps the promise of BufferPromise. *)

Waiting == [i \in 1 .. RingCount |-> q[(q_head + i - 1) % BQ_SLOTS].data]
Playing == IF InBlock THEN b.data ELSE cur

(* A window of the buffers accepted: n of them, after the first a. *)
Window(a, n) == [i \in 1 .. n |-> a + i]

LEMMA WindowIs ==
  ASSUME NEW a \in Int, NEW n \in Nat
  PROVE  /\ Window(a, n) \in Seq(Int) /\ Len(Window(a, n)) = n
         /\ Append(Window(a, n), a + n + 1) = Window(a, n + 1)
         /\ n > 0 => /\ Window(a, n) # <<>>
                     /\ Head(Window(a, n)) = a + 1
                     /\ Tail(Window(a, n)) = Window(a + 1, n - 1)
         /\ n = 0 => Window(a, n) = <<>>
<1>1. Window(a, n) \in Seq(Int) /\ Len(Window(a, n)) = n
  BY DEF Window
<1>2. Append(Window(a, n), a + n + 1) = Window(a, n + 1)
  BY <1>1 DEF Window
<1>3. n > 0 => Window(a, n) # <<>> /\ Head(Window(a, n)) = a + 1
  BY <1>1 DEF Window
<1>4. n > 0 => Tail(Window(a, n)) = Window(a + 1, n - 1)
  BY <1>1 DEF Window
<1>5. n = 0 => Window(a, n) = <<>>
  BY <1>1 DEF Window
<1> QED BY <1>1, <1>2, <1>3, <1>4, <1>5

LEMMA WaitingIs ==
  ASSUME WaitInv
  PROVE  Waiting = Window(accepted - RingCount, RingCount)
  BY DEF WaitInv, Waiting, Window, Pos

LEMMA PromiseInit == Init => Promise!Init
<1> SUFFICES ASSUME Init PROVE Promise!Init
  OBVIOUS
<1>1. Waiting = <<>>
  <2>1. WaitInv /\ RingCount \in Nat
    BY QueueInitInv, CountIs DEF QueueInv, QueueTypeOK, RingCount
  <2>2. RingCount = 0
    BY CountIs, QueueInitInv DEF QueueInv, QueueTypeOK, RingCount, Init
  <2> QED BY <2>1, <2>2, WaitingIs, WindowIs DEF Init
<1> QED BY <1>1 DEF Init, Promise!Init, Waiting, InBlock

(* Every step of the player is one of the promise or none. *)
LEMMA PromiseStep ==
  ASSUME QueueInv, [Next]_vars
  PROVE  [Promise!Next]_Promise!vars
<1>1. QueueInv'
  BY QueueNext
<1>2. /\ RingCount \in Nat /\ accepted \in Nat /\ BQ_SLOTS \in Nat
      /\ b.data \in Nat /\ cur \in Nat /\ returned \in Nat
  BY CountIs, SlotsAssumption DEF QueueInv, QueueTypeOK, RingCount, Buffers
<1>3. RingCount' \in Nat
  BY <1>1, CountIs DEF QueueInv, QueueTypeOK, RingCount
<1>4. /\ Waiting = Window(accepted - RingCount, RingCount)
      /\ Waiting' = Window(accepted' - RingCount', RingCount')
  <2>1. WaitInv /\ WaitInv'
    BY <1>1 DEF QueueInv
  <2>2. Waiting' = Window(accepted' - RingCount', RingCount')
    BY <2>1 DEF WaitInv, Waiting, Window, Pos
  <2> QED BY <2>1, <2>2, WaitingIs
<1>5. CursorInv
  BY DEF QueueInv
<1>6. ASSUME UNCHANGED <<ring, accepted>> PROVE Waiting' = Waiting
  BY <1>4, <1>6, RingSame
<1>7. CASE UNCHANGED vars
  <2>1. Waiting' = Waiting /\ UNCHANGED <<Playing, doomed, cb, accepted, returned>>
    BY <1>6, <1>7 DEF vars, history, cursor, mixer, Playing, InBlock
  <2> QED BY <2>1 DEF Promise!vars, Waiting, Playing
<1>8. ASSUME NEW size \in Sizes, Enqueue(size) PROVE Promise!Accept
  <2>1. RingCount' = RingCount + 1 /\ RingCount < BQ_SLOTS - 1
    BY <1>8, PutIn, SizesAssumption
  <2>2. /\ accepted' = accepted + 1 /\ UNCHANGED <<doomed, cb, returned>> /\ Playing' = Playing
    BY <1>8 DEF Enqueue, cursor, mixer, Playing, InBlock
  <2>3. Waiting' = Append(Waiting, accepted + 1) /\ Len(Waiting) < BQ_SLOTS - 1
    <3> DEFINE a == accepted - RingCount
    <3>1. a \in Int /\ a + RingCount + 1 = accepted + 1 /\ accepted' - RingCount' = a
      BY <1>2, <2>1, <2>2
    <3>2. Append(Window(a, RingCount), a + RingCount + 1) = Window(a, RingCount + 1)
      BY <1>2, <3>1, WindowIs
    <3>3. Len(Window(a, RingCount)) = RingCount
      BY <1>2, <3>1, WindowIs
    <3> QED BY <1>4, <2>1, <3>1, <3>2, <3>3
  <2> QED BY <2>2, <2>3 DEF Promise!Accept, Waiting, Playing
<1>9. CASE Clear /\ ops' = ops
  <2>1. Waiting' = <<>>
    BY <1>2, <1>3, <1>4, <1>9, ClearStep, WindowIs DEF Clear
  <2>2. Playing' \in {0, Playing} /\ doomed' = Playing' /\ UNCHANGED <<cb, accepted, returned>>
    BY <1>9 DEF Clear, mixer, Playing, InBlock
  <2>3. Promise!Clear
    BY <2>1, <2>2 DEF Promise!Clear, Waiting, Playing
  <2> QED BY <2>3 DEF Promise!Next
<1>10. ASSUME NEW on \in BOOLEAN, SetPlayState(on) PROVE UNCHANGED Promise!vars
  <2>1. Waiting' = Waiting /\ UNCHANGED <<Playing, doomed, cb, accepted, returned>>
    BY <1>6, <1>10 DEF SetPlayState, history, cursor, mixer, Playing, InBlock
  <2> QED BY <2>1 DEF Promise!vars, Waiting, Playing
<1>11. CASE RegisterCallback
  <2>1. Waiting' = Waiting /\ UNCHANGED <<Playing, doomed, accepted, returned>> /\ cb' = TRUE
    BY <1>6, <1>11 DEF RegisterCallback, history, cursor, mixer, Playing, InBlock
  <2>2. Promise!Listen
    BY <2>1 DEF Promise!Listen, Waiting, Playing
  <2> QED BY <2>2 DEF Promise!Next
<1>12. CASE Fetch
  <2>1. RingCount > 0 /\ RingCount' = RingCount - 1 /\ b'.data = accepted - RingCount + 1
    BY <1>12, TakenOut
  <2>2. Playing = 0 /\ Playing' = b'.data /\ UNCHANGED <<doomed, cb, accepted, returned>>
    BY <1>12 DEF Fetch, history, Playing, InBlock
  <2>3. Waiting # <<>> /\ Playing' = Head(Waiting) /\ Waiting' = Tail(Waiting)
    <3> DEFINE a == accepted - RingCount
    <3>1. a \in Int /\ accepted' - RingCount' = a + 1
      BY <1>2, <2>1, <2>2
    <3>2. /\ Window(a, RingCount) # <<>> /\ Head(Window(a, RingCount)) = a + 1
          /\ Tail(Window(a, RingCount)) = Window(a + 1, RingCount - 1)
      BY <1>2, <2>1, <3>1, WindowIs
    <3> QED BY <1>4, <2>1, <2>2, <3>1, <3>2
  <2>4. Promise!Start
    BY <2>2, <2>3 DEF Promise!Start, Waiting, Playing
  <2> QED BY <2>4 DEF Promise!Next
<1>13. CASE MixBegin \/ Load \/ Underrun \/ StoreCur \/ StoreSize \/ TestInside \/ Consume \/ Read
  <2>1. UNCHANGED <<ring, accepted, doomed, cb, returned>>
    BY <1>13 DEF MixBegin, Load, Underrun, StoreCur, StoreSize, TestInside, Consume, Read, history
  <2>2. Playing' = Playing
    BY <1>2, <1>5, <1>13
    DEF MixBegin, Load, Underrun, StoreCur, StoreSize, TestInside, Consume, Read, cursor, Playing, InBlock,
        CursorInv
  <2> QED BY <1>6, <2>1, <2>2 DEF Promise!vars, Waiting, Playing
<1>14. CASE LetGo
  <2>1. Waiting' = Waiting /\ UNCHANGED <<doomed, cb, accepted, returned>>
    BY <1>6, <1>14 DEF LetGo
  <2>2. CASE cb
    <3>1. Playing' = Playing
      BY <1>14, <2>2 DEF LetGo, Playing, InBlock
    <3> QED BY <2>1, <3>1 DEF Promise!vars, Waiting, Playing
  <2>3. CASE ~cb
    <3>1. Playing > returned /\ Playing' = 0
      BY <1>2, <1>5, <1>14, <2>3 DEF LetGo, Playing, InBlock, CursorInv
    <3>2. Promise!Return
      BY <2>1, <2>3, <3>1 DEF Promise!Return, Waiting, Playing
    <3> QED BY <3>2 DEF Promise!Next
  <2> QED BY <2>2, <2>3
<1>15. CASE Callback
  <2>1. Waiting' = Waiting /\ UNCHANGED <<doomed, cb, accepted>> /\ cb
    BY <1>5, <1>6, <1>15 DEF Callback, CursorInv
  <2>2. Playing > returned /\ returned' = Playing /\ Playing' = 0
    BY <1>2, <1>5, <1>15 DEF Callback, Playing, InBlock, CursorInv, cursor
  <2>3. Promise!Return
    BY <2>1, <2>2 DEF Promise!Return, Waiting, Playing
  <2> QED BY <2>3 DEF Promise!Next
<1>16. CASE Advance
  <2>1. Waiting' = Waiting /\ UNCHANGED <<doomed, cb, accepted, returned>>
    BY <1>6, <1>16 DEF Advance
  <2>2. Playing = b.data /\ Playing # 0 /\ Playing' = cur
    BY <1>2, <1>5, <1>16 DEF Advance, Playing, InBlock, CursorInv
  <2>3. CASE cur # 0
    <3>1. Playing' = Playing
      BY <1>5, <2>2, <2>3 DEF CursorInv
    <3> QED BY <2>1, <3>1 DEF Promise!vars, Waiting, Playing
  <2>4. CASE cur = 0
    <3>1. Playing = doomed
      BY <1>5, <1>16, <2>2, <2>4 DEF Advance, CursorInv, AtCursor
    <3>2. Promise!Drop
      BY <2>1, <2>2, <2>4, <3>1 DEF Promise!Drop, Waiting, Playing
    <3> QED BY <3>2 DEF Promise!Next
  <2> QED BY <2>3, <2>4
<1> QED BY <1>7, <1>8, <1>9, <1>10, <1>11, <1>12, <1>13, <1>14, <1>15, <1>16
        DEF Next, Client, Mix, Promise!Next

(* The ring, the cursor and the mixer implement the buffer queue of        *)
(* BufferPromise: first in, first out, one at a time, handed back at most  *)
(* once, whenever Clear comes.                                             *)
THEOREM PromiseKept == Spec => KeepsPromise
<1>1. QueueInv /\ [Next]_vars => [Promise!Next]_Promise!vars
  BY PromiseStep
<1> QED BY <1>1, PromiseInit, QueueInvariant, PTL DEF Spec, KeepsPromise, Promise!Spec
=============================================================================
