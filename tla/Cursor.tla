------------------------------- MODULE Cursor -------------------------------
(***************************************************************************)
(* The pointer of source/rv_cursor.c: the pad's ZL+ZR chord shows and      *)
(* hides it, A taps, the stick drags.  It is updated once a frame, in the  *)
(* swap, and its touches go through the queue of source/rv_events.c, where *)
(* the paced keys of a text replacement may be ahead of them.  While the   *)
(* pointer is up, the pad's own events are kept from the game.             *)
(*                                                                         *)
(* SDL is modelled by what rv_poll_event and rv_cursor_update see of it: a *)
(* button changes, or a pad comes or goes, when SDL is polled.  Positions  *)
(* (source/nx_pointer.c) are left out.  Both pacing variables of           *)
(* rv_events.c are one here: `paced' is g_keySentThisFrame while           *)
(* g_lastKeyAt is under 16 ms ago.                                         *)
(***************************************************************************)
EXTENDS Integers, FiniteSets, SequencesExt

CONSTANTS
  Pads,          \* the pads that can be attached
  NoPad,         \* g_pad = NULL, none of them
  RVE_QUEUE,     \* capacity of the event queue
  Burst          \* keys (press and release each) of one text replacement

VARIABLES
  attached, a, chord,    \* the pads: attached, A held, ZL+ZR held
  g_pad,                 \* the pad in use
  visible, chordHeld, tapHeld,    \* g_visible, g_chordHeld, g_tapHeld
  queue,                 \* g_queue, oldest first
  paced,                 \* the next key has to wait
  pc,                    \* "drain": the game polls; "swap": it swaps
  finger,                \* the game's view: the finger is down
  pressed                \* the game's view: pads whose A is down, from events

pads == <<attached, a, chord>>
cursor == <<g_pad, visible, chordHeld, tapHeld>>
game == <<pc, finger, pressed>>
vars == <<pads, cursor, queue, paced, game>>

Fingers == {"FINGERDOWN", "FINGERMOTION", "FINGERUP"}
IsFinger(e) == e \in Fingers

(* Enqueue, one event after the other: dropped if the queue is full. *)
EnqueueAll(q, es) == q \o SubSeq(es, 1, Min({Len(es), RVE_QUEUE - Len(q)}))

Init ==
  /\ attached \in SUBSET Pads
  /\ a = [p \in Pads |-> FALSE] /\ chord = [p \in Pads |-> FALSE]
  /\ g_pad = NoPad
  /\ visible = FALSE /\ chordHeld = FALSE /\ tapHeld = FALSE
  /\ queue = <<>> /\ paced = FALSE
  /\ pc = "drain" /\ finger = FALSE /\ pressed = {}

-----------------------------------------------------------------------------
(* Polling for events: rv_poll_event. *)

(* Keys are paced, touches are not. *)
Deliverable == queue # <<>> /\ (IsFinger(Head(queue)) \/ ~paced)

PollSynthetic ==
  LET e == Head(queue) IN
    /\ pc = "drain"
    /\ Deliverable
    /\ queue' = Tail(queue)
    /\ paced' = (paced \/ ~IsFinger(e))
    /\ finger' = IF IsFinger(e) THEN e # "FINGERUP" ELSE finger
    /\ UNCHANGED <<pads, cursor, pc, pressed>>

(* SDL reports that A was pressed or let go of on a pad: swallowed while    *)
(* the pointer is up (rv_cursor_swallows).                                  *)
PollButton(p) ==
  /\ pc = "drain"
  /\ ~Deliverable
  /\ p \in attached
  /\ a' = [a EXCEPT ![p] = ~@]
  /\ pressed' = IF visible THEN pressed
                ELSE IF a'[p] THEN pressed \cup {p} ELSE pressed \ {p}
  /\ UNCHANGED <<attached, chord, cursor, queue, paced, pc, finger>>

(* The triggers of a pad move: the game's view of them is not modelled. *)
PollTriggers(p) ==
  /\ pc = "drain"
  /\ ~Deliverable
  /\ p \in attached
  /\ chord' = [chord EXCEPT ![p] = ~@]
  /\ UNCHANGED <<attached, a, cursor, queue, paced, game>>

(* A pad comes or goes; the game is always told. *)
PollDevice(p) ==
  /\ pc = "drain"
  /\ ~Deliverable
  /\ attached' = IF p \in attached THEN attached \ {p} ELSE attached \cup {p}
  /\ a' = [a EXCEPT ![p] = FALSE]
  /\ chord' = [chord EXCEPT ![p] = FALSE]
  /\ pressed' = pressed \ {p}
  /\ UNCHANGED <<cursor, queue, paced, pc, finger>>

DrainEnds ==
  /\ pc = "drain"
  /\ ~Deliverable
  /\ paced' = FALSE
  /\ pc' = "swap"
  /\ UNCHANGED <<pads, cursor, queue, finger, pressed>>

IntervalPasses ==
  /\ paced
  /\ paced' = FALSE
  /\ UNCHANGED <<pads, cursor, queue, game>>

(* Text input ends with a result (TextEntry): keys are queued, but never   *)
(* while those of the last one are still there.                            *)
QueueKeys ==
  /\ pc = "swap"
  /\ \A i \in 1 .. Len(queue) : IsFinger(queue[i])
  /\ queue' = EnqueueAll(queue, [i \in 1 .. 2 * Burst |-> "KEY"])
  /\ UNCHANGED <<pads, cursor, paced, game>>

-----------------------------------------------------------------------------
(* Swapping: rv_gl_swap_window, rv_cursor_update. *)

(* Pad: the pad in use while it is attached, else any other. *)
Pad == IF g_pad \in attached THEN {g_pad}
       ELSE IF attached = {} THEN {NoPad} ELSE attached

(* Mutant: a tap that moves is only reported once it is dragged. *)
TapEdge_still(held, down, moved) ==
  IF held = down THEN <<>>
  ELSE IF ~down THEN <<"FINGERUP">>
  ELSE IF moved THEN <<"FINGERMOTION">> ELSE <<"FINGERDOWN">>

(* A taps: on the edges of the button. *)
TapEdge(held, down, moved) ==
  IF held = down THEN <<>>
  ELSE IF down THEN <<"FINGERDOWN">> ELSE <<"FINGERUP">>

(* Mutant: the tap held is forgotten when the pointer goes. *)
LetGo_forgotten(held) == <<>>

(* What is reported when the pointer goes. *)
LetGo(held) == IF held THEN <<"FINGERUP">> ELSE <<>>

(* The chord acts when it is first seen, the rest of an update only while  *)
(* the pointer is up (before it or since).                                 *)
Update(p, moved) ==
  LET shown == IF chord[p] /\ ~chordHeld THEN ~visible ELSE visible
      drag == IF moved /\ tapHeld THEN <<"FINGERMOTION">> ELSE <<>>
  IN
    /\ pc = "swap"
    /\ p \in Pad
    /\ p # NoPad
    /\ g_pad' = p
    /\ visible' = shown
    /\ chordHeld' = chord[p]
    /\ \/ /\ shown
          /\ tapHeld' = a[p]
          /\ queue' = EnqueueAll(queue, drag \o TapEdge(tapHeld, a[p], moved))
       \/ /\ visible /\ ~shown
          /\ tapHeld' = FALSE
          /\ queue' = EnqueueAll(queue, LetGo(tapHeld))
       \/ /\ ~visible /\ ~shown
          /\ UNCHANGED <<tapHeld, queue>>
    /\ pc' = "drain"
    /\ UNCHANGED <<pads, paced, finger, pressed>>

(* Without a pad an update does nothing. *)
UpdateNoPad ==
  /\ pc = "swap"
  /\ NoPad \in Pad
  /\ g_pad' = NoPad
  /\ pc' = "drain"
  /\ UNCHANGED <<pads, visible, chordHeld, tapHeld, queue, paced, finger, pressed>>

Swap == UpdateNoPad \/ \E p \in Pads, moved \in BOOLEAN : Update(p, moved)

Next ==
  \/ PollSynthetic
  \/ \E p \in Pads : PollButton(p) \/ PollTriggers(p) \/ PollDevice(p)
  \/ DrainEnds \/ IntervalPasses
  \/ QueueKeys
  \/ Swap

Spec == Init /\ [][Next]_vars

(* The game polls until there is nothing left, and time passes. *)
FairSpec ==
  /\ Spec
  /\ WF_vars(PollSynthetic)
  /\ WF_vars(IntervalPasses)
  /\ WF_vars(Swap)

-----------------------------------------------------------------------------
(* Properties. *)

(* The finger, as the game sees it after i more events. *)
DownAfter(i) ==
  LET touched == {j \in 1 .. i : IsFinger(queue[j])} IN
    IF touched = {} THEN finger ELSE queue[Max(touched)] # "FINGERUP"

(* Touches reach the game in the order they happened (rv_events.h: "the    *)
(* down, the motion and the up"): down only while the finger is up, motion *)
(* and up only while it is down, and once the queue is empty the game and  *)
(* the cursor agree on whether the finger is down, whatever the pads did.  *)
(* Nor does the pointer ever go with the finger down: "releasing a held    *)
(* tap on the way out" (rv_cursor.c, lines 81-87).                         *)
FingersInOrder ==
  /\ \A i \in 1 .. Len(queue) :
       IsFinger(queue[i]) => (queue[i] = "FINGERDOWN" <=> ~DownAfter(i - 1))
  /\ DownAfter(Len(queue)) = tapHeld
  /\ ~visible => ~DownAfter(Len(queue))

(* A is held on p where the update finds the pointer up. *)
Taps(p) == a[p] /\ IF chord[p] /\ ~chordHeld THEN ~visible ELSE visible

(* What the pads show in a swap reaches the game, whatever keys are ahead  *)
(* and whichever pads come and go: A held with the pointer up becomes a    *)
(* touch, and a touch ends when A is let go of, when the pointer goes, and *)
(* when the pad in use goes and another is left or comes back.  It is the  *)
(* swap that looks (rv_cursor.c, lines 62 and 113): A pressed and let go   *)
(* of between two swaps is not felt, and with no pad left nothing ends the *)
(* touch until there is one again.                                         *)
TapsArrive ==
  /\ (pc = "swap" /\ NoPad \notin Pad /\ \A p \in Pad : Taps(p))  ~> finger
  /\ (pc = "swap" /\ NoPad \notin Pad /\ \A p \in Pad : ~Taps(p)) ~> ~finger
=============================================================================
