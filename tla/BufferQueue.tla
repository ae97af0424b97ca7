---------------------------- MODULE BufferQueue ----------------------------
(***************************************************************************)
(* One buffer-queue player of source/opensles.c: the ring of enqueued      *)
(* buffers, the cursor into the buffer being played, and the two threads   *)
(* that share them.  The client thread (libopenal.so) calls the interface  *)
(* functions; the SDL audio thread runs mix_player.  p->lock protects the  *)
(* ring and Clear, but cur, cur_size and cur_fpos are read and written by  *)
(* mix_player without it, so every access that another thread can come     *)
(* between is a step of its own.                                           *)
(*                                                                         *)
(* Abstractions.  A buffer is the number Enqueue gave it; its size and the *)
(* resampling ratio are counted in units chosen so that both are integers  *)
(* (STEP units per output frame).  Samples, gain and formats are left out. *)
(* Players with a decoded source do not exist in this program: the only    *)
(* decoder, source/mp3_decode.c, always reports failure.                   *)
(***************************************************************************)
EXTENDS Integers, Sequences, FiniteSets

CONSTANTS
  BQ_SLOTS,     \* slots of the ring; one of them always stays empty
  FRAMES,       \* output frames per audio callback
  STEP,         \* units the cursor advances per output frame
  Sizes,        \* sizes of buffers the client enqueues, in units
  DrainCap,     \* where the drained counter saturates (1 << 20 in the code)
  Clients,      \* the clients to consider, each a subset of {"clear", "stop"}:
                \* what it does besides enqueueing and starting
  MaxBuffers    \* bound: buffers enqueued in one behaviour, one fewer for
                \* each of these

ASSUME SlotsAssumption == BQ_SLOTS \in Nat /\ BQ_SLOTS > 1
ASSUME FramesAssumption == FRAMES \in Nat \ {0} /\ STEP \in Nat \ {0}
ASSUME SizesAssumption == Sizes \subseteq Nat
ASSUME BoundsAssumption == DrainCap \in Nat /\ MaxBuffers \in Nat

VARIABLES
  ops,                        \* the client of this behaviour
  q, q_head, q_tail,          \* the ring
  cur, cur_size, cur_fpos,    \* the buffer being drained (0: NULL), cursor
  playing,                    \* set by SetPlayState
  cb,                         \* a buffer-queue callback is registered
  drained,                    \* consecutive callbacks without audio
  pc,                         \* where the audio thread is in mix_player
  left,                       \* frames still to produce in this callback
  b,                          \* local of mix_player: the dequeued buffer
  fpos,                       \* local of mix_player: the next cur_fpos
  accepted,                   \* history: buffers accepted by Enqueue
  returned,                   \* history: buffer of the last callback
  doomed,                     \* history: what the last Clear caught in play
  slip                        \* history: units lost or repeated

ring == <<q, q_head, q_tail>>
cursor == <<cur, cur_size, cur_fpos>>
mixer == <<pc, left, b, fpos, drained>>
history == <<accepted, returned, doomed, slip>>
vars == <<ops, ring, cursor, playing, cb, mixer, history>>

Slots == 0 .. BQ_SLOTS - 1
Buffers == [data : Nat, size : Nat]
NoBuffer == [data |-> 0, size |-> 0]

Succ(i) == (i + 1) % BQ_SLOTS
RingEmpty == q_head = q_tail

RingFull == Succ(q_tail) = q_head

RingCount == (q_tail + BQ_SLOTS - q_head) % BQ_SLOTS

(* Mutant: the buffer being drained is not counted. *)
StateCount_ring == RingCount

(* The count bq_GetState reports: what the ring holds plus the cursor's. *)
StateCount == RingCount + (IF cur # 0 THEN 1 ELSE 0)

(* mix_player is busy with the buffer it dequeued last. *)
InBlock == pc \notin {"out", "load"}

Init ==
  /\ ops \in Clients
  /\ q = [i \in Slots |-> NoBuffer]
  /\ q_head = 0 /\ q_tail = 0
  /\ cur = 0 /\ cur_size = 0 /\ cur_fpos = 0
  /\ playing = FALSE
  /\ cb = FALSE
  /\ drained = 0
  /\ pc = "out" /\ left = 0 /\ b = NoBuffer /\ fpos = 0
  /\ accepted = 0 /\ returned = 0 /\ doomed = 0 /\ slip = 0

-----------------------------------------------------------------------------
(* The client thread. *)

(* bq_Enqueue: refused, without any effect, when the ring is full. *)
Enqueue(size) ==
  /\ accepted + Cardinality(ops) < MaxBuffers
  /\ ~RingFull
  /\ q' = [q EXCEPT ![q_tail] = [data |-> accepted + 1, size |-> size]]
  /\ q_tail' = Succ(q_tail)
  /\ accepted' = accepted + 1
  /\ UNCHANGED <<q_head, cursor, playing, cb, mixer, returned, doomed, slip>>

(* Mutant: only the read index is reset. *)
Clear_head ==
  /\ "clear" \in ops
  /\ q_head' = 0
  /\ cur' = 0 /\ cur_size' = 0 /\ cur_fpos' = 0
  /\ doomed' = IF InBlock THEN b.data ELSE 0
  /\ UNCHANGED <<q, q_tail, playing, cb, mixer, accepted, returned, slip>>

(* bq_Clear: everything under p->lock, wherever mix_player happens to be. *)
Clear ==
  /\ "clear" \in ops
  /\ q_head' = 0 /\ q_tail' = 0
  /\ cur' = 0 /\ cur_size' = 0 /\ cur_fpos' = 0
  /\ doomed' = IF InBlock THEN b.data ELSE 0
  /\ UNCHANGED <<q, playing, cb, mixer, accepted, returned, slip>>

(* play_SetPlayState: for a player without a decoded source only the       *)
(* playing flag changes; STOPPED does not rewind and keeps the buffers.    *)
SetPlayState(on) ==
  /\ on \/ "stop" \in ops
  /\ playing # on
  /\ playing' = on
  /\ UNCHANGED <<ring, cursor, cb, mixer, history>>

RegisterCallback ==
  /\ ~cb
  /\ cb' = TRUE
  /\ UNCHANGED <<ring, cursor, playing, mixer, history>>

-----------------------------------------------------------------------------
(* The audio thread, in mix_player. *)

(* Entry: nothing happens to a player that is not playing; a dry one is    *)
(* counted and left alone; otherwise the block begins.                     *)
MixBegin ==
  /\ pc = "out"
  /\ playing
  /\ LET dry == cur = 0 /\ RingEmpty IN
       \/ /\ dry
          /\ drained' = IF drained < DrainCap THEN drained + 1 ELSE drained
          /\ UNCHANGED <<pc, left>>
       \/ /\ ~dry
          /\ drained' = 0
          /\ pc' = "load"
          /\ left' = FRAMES
  /\ UNCHANGED <<ring, cursor, playing, cb, b, fpos, history>>

(* A buffer is at hand: go on to the bounds test. *)
Load ==
  /\ pc = "load"
  /\ cur # 0
  /\ pc' = "test"
  /\ UNCHANGED <<ring, cursor, playing, cb, left, b, fpos, drained, history>>

(* No buffer at hand: take the oldest one off the ring under p->lock ...   *)
Fetch ==
  /\ pc = "load"
  /\ cur = 0
  /\ ~RingEmpty
  /\ b' = q[q_head]
  /\ q_head' = Succ(q_head)
  /\ pc' = "store"
  /\ UNCHANGED <<q, q_tail, cursor, playing, cb, left, fpos, drained, history>>

(* ... or give up: the rest of the block is silent. *)
Underrun ==
  /\ pc = "load"
  /\ cur = 0
  /\ RingEmpty
  /\ pc' = "out"
  /\ UNCHANGED <<ring, cursor, playing, cb, left, b, fpos, drained, history>>

(* p->cur = b.data and then p->cur_size = b.size, after the unlock. *)
StoreCur ==
  /\ pc = "store"
  /\ cur' = b.data
  /\ pc' = "size"
  /\ UNCHANGED <<ring, cur_size, cur_fpos, playing, cb, left, b, fpos, drained, history>>

StoreSize ==
  /\ pc = "size"
  /\ cur_size' = b.size
  /\ pc' = "test"
  /\ UNCHANGED <<ring, cur, cur_fpos, playing, cb, left, b, fpos, drained, history>>

(* The bounds test: the cursor is inside the buffer. *)
InBounds == cur_size > 0 /\ cur_fpos < cur_size

TestInside ==
  /\ pc = "test"
  /\ InBounds
  /\ pc' = "read"
  /\ UNCHANGED <<ring, cursor, playing, cb, left, b, fpos, drained, history>>

(* Mutant: every buffer is read from its beginning. *)
Consume_restarts ==
  /\ pc = "test"
  /\ ~InBounds
  /\ fpos' = 0
  /\ pc' = "carry"
  /\ UNCHANGED <<ring, cursor, playing, cb, left, b, drained, history>>

(* The buffer is used up (or empty): the remainder is carried ...          *)
Consume ==
  /\ pc = "test"
  /\ ~InBounds
  /\ fpos' = IF cur_fpos >= cur_size THEN cur_fpos - cur_size ELSE 0
  /\ pc' = "carry"
  /\ UNCHANGED <<ring, cursor, playing, cb, left, b, drained, history>>

(* Mutant: the client does not hear of buffers without samples. *)
LetGo_silent ==
  /\ pc = "carry"
  /\ cur_fpos' = fpos /\ fpos' = 0
  /\ cur' = 0
  /\ pc' = IF cb /\ cur_size > 0 THEN "callback" ELSE "load"
  /\ slip' = slip + cur_size + fpos - cur_fpos
  /\ UNCHANGED <<ring, cur_size, playing, cb, left, b, drained, accepted, returned, doomed>>

(* ... and the buffer let go of, whatever Clear did meanwhile.  The        *)
(* callback follows, if there is one; then the next buffer is tried.       *)
LetGo ==
  /\ pc = "carry"
  /\ cur_fpos' = fpos /\ fpos' = 0
  /\ cur' = 0
  /\ pc' = IF cb THEN "callback" ELSE "load"
  /\ slip' = slip + cur_size + fpos - cur_fpos
  /\ UNCHANGED <<ring, cur_size, playing, cb, left, b, drained, accepted, returned, doomed>>

Callback ==
  /\ pc = "callback"
  /\ returned' = b.data
  /\ pc' = "load"
  /\ UNCHANGED <<ring, cursor, playing, cb, left, b, fpos, drained, accepted, doomed, slip>>

(* One output frame: samples are read at the cursor, which then advances   *)
(* (p->cur_fpos += ratio: a load and a store).                             *)
Read ==
  /\ pc = "read"
  /\ fpos' = cur_fpos + STEP
  /\ pc' = "advance"
  /\ UNCHANGED <<ring, cursor, playing, cb, left, b, drained, history>>

Advance ==
  /\ pc = "advance"
  /\ cur_fpos' = fpos /\ fpos' = 0
  /\ slip' = slip + fpos - cur_fpos - STEP
  /\ left' = left - 1
  /\ pc' = IF left = 1 THEN "out" ELSE "load"
  /\ UNCHANGED <<ring, cur, cur_size, playing, cb, b, drained, accepted, returned, doomed>>

Mix ==
  \/ MixBegin \/ Load \/ Fetch \/ Underrun \/ StoreCur \/ StoreSize
  \/ TestInside \/ Consume \/ LetGo \/ Callback \/ Read \/ Advance

Client ==
  \/ \E size \in Sizes : Enqueue(size)
  \/ Clear
  \/ \E on \in BOOLEAN : SetPlayState(on)
  \/ RegisterCallback

Next == (Mix \/ Client) /\ UNCHANGED ops

Spec == Init /\ [][Next]_vars

(* SDL calls the audio callback for as long as the device is open, and a   *)
(* callback that has begun runs to its end.                                *)
FairSpec == Spec /\ WF_vars(Mix /\ UNCHANGED ops)

-----------------------------------------------------------------------------
(* Properties. *)

(* mix_player reads samples only from a buffer, and only inside it.  The   *)
(* clamp on idx keeps the read inside as long as there is a buffer of at   *)
(* least one frame at hand when the samples are read.                      *)
ReadsInsideBuffer == pc = "read" => cur # 0 /\ cur_size > 0

(* Without Clear nothing is read outside a buffer and resampling is        *)
(* continuous: carrying the remainder of the cursor from one buffer to the *)
(* next, whatever their sizes, loses and repeats nothing.                  *)
NoSlip == "clear" \notin ops => slip = 0 /\ ReadsInsideBuffer

(* What bq_GetState reports and what the callbacks told the client agree:  *)
(* it is the number of buffers not handed back yet, one short only while   *)
(* mix_player carries a buffer from the ring to the cursor, or has let go  *)
(* of one and not called back yet.  This client does not clear.            *)
CountMatchesCallbacks ==
  returned > 0 /\ "clear" \notin ops =>
    accepted - returned - StateCount = IF pc \in {"store", "callback"} THEN 1 ELSE 0

(* The ring, the cursor and the mixer together keep the promise of a       *)
(* buffer queue, with one slot of the ring left empty.                     *)
Promise == INSTANCE BufferPromise WITH
  Capacity  <- BQ_SLOTS - 1,
  waiting   <- [i \in 1 .. RingCount |-> q[(q_head + i - 1) % BQ_SLOTS].data],
  current   <- IF InBlock THEN b.data ELSE cur,
  listening <- cb

KeepsPromise == Promise!Spec

(* A buffer enqueued on a playing player with a callback is handed back    *)
(* sooner or later, as long as the audio device keeps calling and nobody   *)
(* stops or clears.                                                        *)
BuffersComeBack ==
  \A s \in 1 .. MaxBuffers :
    (ops = {} /\ accepted >= s /\ playing /\ cb /\ b.data < s) ~> (returned >= s)
=============================================================================
