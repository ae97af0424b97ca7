------------------------------ MODULE MC_Input ------------------------------
(* What the port adds to the engine's events: the text of the software     *)
(* keyboard and the touches of the pointer.  Each is checked on its own    *)
(* with what the other puts in its way (PollReal there, QueueKeys here):   *)
(* part says which.                                                        *)
EXTENDS TextEntry

CONSTANTS
  Pads, NoPad, Burst,
  CursorQueue         \* RVE_QUEUE where the cursor is checked

ASSUME PointerAssumption == Burst \in Nat \ {0} /\ CursorQueue \in Nat

VARIABLES
  part,
  attached, a, chord, g_pad, visible, chordHeld, tapHeld, touches, paced, at, finger, pressed

pointer == <<attached, a, chord, g_pad, visible, chordHeld, tapHeld, touches, paced, at, finger, pressed>>

Pointer == INSTANCE Cursor WITH RVE_QUEUE <- CursorQueue, queue <- touches, pc <- at

InputInit == part \in {"text", "pointer"} /\ Init /\ Pointer!Init

TextPart(A)    == part = "text" /\ A /\ UNCHANGED <<part, pointer>>
PointerPart(A) == part = "pointer" /\ A /\ UNCHANGED <<part, vars>>

all == <<part, vars, pointer>>

(* The fairness is that of TextEntry and of Cursor. *)
InputSpec ==
  /\ InputInit /\ [][TextPart(Next) \/ PointerPart(Pointer!Next)]_all
  /\ WF_all(TextPart(PollSynthetic)) /\ WF_all(TextPart(IntervalPasses))
  /\ WF_all(TextPart(ReadKeyboard)) /\ WF_all(TextPart(NextFrame))
  /\ WF_all(PointerPart(Pointer!PollSynthetic)) /\ WF_all(PointerPart(Pointer!IntervalPasses))
  /\ WF_all(PointerPart(Pointer!Swap))

-----------------------------------------------------------------------------
(* Properties of Cursor, by their names there. *)

(* The game sees touches in their order. *)
FingersInOrder == Pointer!FingersInOrder

(* What the pads show in a swap arrives. *)
TapsArrive == Pointer!TapsArrive
=============================================================================
