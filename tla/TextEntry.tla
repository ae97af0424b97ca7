----------------------------- MODULE TextEntry -----------------------------
(***************************************************************************)
(* Text entry: the software keyboard of source/rv_input.c and the queue of *)
(* synthetic events of source/rv_events.c that carries its result to the   *)
(* game.  The keyboard hands back a finished string; the port replaces the *)
(* game's field with it by queueing a run of backspaces and then the text. *)
(* Keys are paced over frames, text is not, and what the game is handed is *)
(* also what the tracked copy of the field is rebuilt from.                *)
(*                                                                         *)
(* Everything here runs on the game's own thread: the game polls events    *)
(* until there are none, reads the keyboard, and may start or stop text    *)
(* input; the keyboard applet blocks it.  What interleaves is time, real   *)
(* input, and the player.                                                  *)
(*                                                                         *)
(* The game's field is outside the repository and modelled from what       *)
(* rv_input.c says of it (lines 263-288 and 404-423): it appends           *)
(* SDL_TEXTINPUT, deletes on a backspace KEYDOWN, discards what exceeds    *)
(* its own maximum, and may be reset without an event.  A character is the *)
(* number of the keyboard session that typed it, 0 for any other; one      *)
(* character is one byte.                                                  *)
(***************************************************************************)
EXTENDS Integers, SequencesExt

CONSTANTS
  RVE_QUEUE,      \* capacity of the event queue
  MAX_TEXT,       \* RV_KEYBOARD_MAX_TEXT, size of the text buffers
  MARGIN,         \* backspaces beyond the tracked length
  CHUNK,          \* characters one SDL_TEXTINPUT event holds
  FieldMax,       \* the game's own limit on its field
  Reopens,        \* the game may start text input again while the
                  \* replacement of the last session is still queued
  MaxSessions     \* bound: keyboard sessions that end with a result

ASSUME QueueAssumption == RVE_QUEUE \in Nat
ASSUME TextAssumption == MAX_TEXT \in Nat \ {0} /\ MARGIN \in Nat /\ CHUNK \in Nat \ {0}
ASSUME GameAssumption == FieldMax \in 0 .. MAX_TEXT - 1 /\ Reopens \in BOOLEAN
ASSUME BoundAssumption == MaxSessions \in Nat

VARIABLES
  queue,            \* g_queue, oldest first
  keySent, recent,  \* g_keySentThisFrame; g_lastKeyAt under 16 ms ago
  overlay,          \* g_overlay[SDL_SCANCODE_BACKSPACE]
  textActive,       \* g_textActive
  suppress,         \* g_textMode = RV_TEXT_SUPPRESS
  cooling,          \* g_keyboardClosedAt under 400 ms ago
  tracked,          \* length of g_fieldText
  fieldKnown,       \* g_fieldKnown
  pc,               \* where the game is: "drain", "look", "logic", "applet"
  field,            \* the game's field
  looked,           \* the game has read the keyboard since the last KEYDOWN
  sessions,         \* history: sessions that ended with a result
  want              \* history: what the field must become, while known

events == <<queue, keySent, recent, overlay>>
input == <<textActive, suppress, cooling, tracked, fieldKnown>>
game == <<pc, field, looked>>
history == <<sessions, want>>
vars == <<events, input, game, history>>

Unknown == <<-1>>     \* want: the field was changed by something else
Lost == <<-2>>        \* want: it was typed in while a replacement was queued

Down == [type |-> "KEYDOWN", text |-> <<>>]
Up == [type |-> "KEYUP", text |-> <<>>]
Text(t) == [type |-> "TEXTINPUT", text |-> t]
IsKey(e) == e.type # "TEXTINPUT"

-----------------------------------------------------------------------------
(* The queue. *)

(* Enqueue, for events queued one after the other: each is dropped if the  *)
(* queue is full by then.                                                  *)
EnqueueAll(q, es) == q \o SubSeq(es, 1, Min({Len(es), RVE_QUEUE - Len(q)}))

(* Mutant: nothing is queued to let go of a key. *)
Backspaces_unreleased(n) == [i \in 1 .. n |-> Down]

(* rv_events_queue_key, called n times: a press and a release each. *)
Backspaces(n) == [i \in 1 .. 2 * n |-> IF i % 2 = 1 THEN Down ELSE Up]

(* rv_events_queue_text: as many full events as it takes. *)
Chunks(t) ==
  [i \in 1 .. (Len(t) + CHUNK - 1) \div CHUNK |->
     Text(SubSeq(t, (i - 1) * CHUNK + 1, Min({i * CHUNK, Len(t)})))]

(* Mutant: the first replacement trusts the tracked length too. *)
BackspaceCount_trusts == Min({tracked + MARGIN, MAX_TEXT})

(* How many backspaces replace the field: the tracked length and a margin, *)
(* or as many as fit while no session has been seen yet.                   *)
BackspaceCount ==
  IF fieldKnown THEN Min({tracked + MARGIN, MAX_TEXT}) ELSE MAX_TEXT

(* rv_input_observe_event: text that does not fit is not tracked at all. *)
Observe(e) ==
  CASE e.type = "TEXTINPUT" ->
         IF tracked + Len(e.text) <= MAX_TEXT - 1 THEN tracked + Len(e.text) ELSE tracked
    [] e.type = "KEYDOWN" -> IF tracked > 0 THEN tracked - 1 ELSE 0
    [] OTHER -> tracked

(* What the game does with an event it is handed. *)
Edited(e) ==
  LET longer == field \o e.text IN
    CASE e.type = "TEXTINPUT" -> SubSeq(longer, 1, Min({Len(longer), FieldMax}))
      [] e.type = "KEYDOWN" /\ field # <<>> -> Front(field)
      [] OTHER -> field

Init ==
  /\ queue = <<>>
  /\ keySent = FALSE /\ recent = FALSE /\ overlay = FALSE
  /\ textActive = FALSE /\ suppress \in BOOLEAN
  /\ cooling = FALSE
  /\ tracked = 0 /\ fieldKnown = FALSE
  /\ pc = "drain"
  /\ field \in {[i \in 1 .. n |-> 0] : n \in 0 .. FieldMax}
  /\ looked = TRUE
  /\ sessions = 0
  /\ want = Unknown

-----------------------------------------------------------------------------
(* Polling for events: rv_poll_event. *)

(* Mutant: keys are not paced. *)
HeldBack_never == FALSE

(* Mutant: keys are paced by the end of a drain alone. *)
HeldBack_drain == IsKey(Head(queue)) /\ keySent

(* A key waits for the next drain, or for the interval to pass. *)
HeldBack == IsKey(Head(queue)) /\ keySent /\ recent

Deliverable == queue # <<>> /\ ~HeldBack

(* The oldest synthetic event is handed to the game, before any real one. *)
PollSynthetic ==
  LET e == Head(queue) IN
    /\ pc = "drain"
    /\ Deliverable
    /\ queue' = Tail(queue)
    /\ keySent' = (IsKey(e) \/ keySent)
    /\ recent' = (IsKey(e) \/ recent)
    /\ overlay' = IF IsKey(e) THEN e = Down ELSE overlay
    /\ looked' = (looked /\ e # Down)
    /\ tracked' = Observe(e)
    /\ field' = Edited(e)
    /\ UNCHANGED <<textActive, suppress, cooling, fieldKnown, pc, history>>

(* What the player types: a backspace, or a character that is no result's. *)
RealEvents == {Down, Text(<<0>>)}

(* A real key or real text from SDL, when no synthetic event is due.  Other *)
(* real events change nothing here: a drain lasts as long as they come.     *)
(* Real text between the events of a replacement may be all that is tracked *)
(* of a field still being cleared: the tracked length is not to be relied   *)
(* on from then on, until the game resets its field.                        *)
PollReal(e) ==
  /\ pc = "drain"
  /\ ~Deliverable
  /\ tracked' = Observe(e)
  /\ field' = Edited(e)
  /\ want' = IF want = Lost \/ (queue # <<>> /\ e # Down) THEN Lost ELSE Unknown
  /\ UNCHANGED <<events, textActive, suppress, cooling, fieldKnown, pc, looked, sessions>>

DrainEnds ==
  /\ pc = "drain"
  /\ ~Deliverable
  /\ keySent' = FALSE
  /\ pc' = "look"
  /\ UNCHANGED <<queue, recent, overlay, input, field, looked, history>>

IntervalPasses ==
  /\ recent
  /\ recent' = FALSE
  /\ UNCHANGED <<queue, keySent, overlay, input, game, history>>

-----------------------------------------------------------------------------
(* The rest of a frame of the game. *)

(* SDL_GetKeyboardState, once every frame: rv_get_keyboard_state overlays   *)
(* g_overlay on the real keys.                                              *)
ReadKeyboard ==
  /\ pc = "look"
  /\ looked' = TRUE
  /\ pc' = "logic"
  /\ UNCHANGED <<events, input, field, history>>

(* The game resets its field when the screen changes. *)
FieldReset ==
  /\ pc = "logic"
  /\ field' = <<>>
  /\ want' = IF want = Lost /\ queue # <<>> THEN Lost ELSE Unknown
  /\ UNCHANGED <<events, input, pc, looked, sessions>>

NextFrame ==
  /\ pc = "logic"
  /\ pc' = "drain"
  /\ UNCHANGED <<events, input, field, looked, history>>

(* rv_text_input_start when the keyboard is suppressed or was closed just   *)
(* now: only the flag is set.                                               *)
StartHeldBack ==
  /\ pc = "logic"
  /\ suppress \/ cooling
  /\ textActive' = TRUE
  /\ UNCHANGED <<events, suppress, cooling, tracked, fieldKnown, game, history>>

(* rv_text_input_start showing the keyboard, which blocks the game. *)
StartShowsKeyboard ==
  /\ pc = "logic"
  /\ ~suppress /\ ~cooling
  /\ Reopens \/ queue = <<>>
  /\ textActive' = TRUE
  /\ pc' = "applet"
  /\ UNCHANGED <<events, suppress, cooling, tracked, fieldKnown, field, looked, history>>

StopTextInput ==
  /\ pc = "logic"
  /\ textActive
  /\ textActive' = FALSE
  /\ UNCHANGED <<events, suppress, cooling, tracked, fieldKnown, game, history>>

CooldownPasses ==
  /\ cooling
  /\ cooling' = FALSE
  /\ UNCHANGED <<events, textActive, suppress, tracked, fieldKnown, game, history>>

(* swkbdCreate fails: SDL takes over and nothing else changes. *)
AppletUnavailable ==
  /\ pc = "applet"
  /\ pc' = "logic"
  /\ UNCHANGED <<events, input, field, looked, history>>

AppletCancelled ==
  /\ pc = "applet"
  /\ cooling' = TRUE
  /\ pc' = "logic"
  /\ UNCHANGED <<events, textActive, suppress, tracked, fieldKnown, field, looked, history>>

(* The applet returns n characters: clear the field, type them. *)
AppletReturns(n) ==
  LET result == [i \in 1 .. n |-> sessions + 1] IN
    /\ pc = "applet"
    /\ sessions < MaxSessions
    /\ cooling' = TRUE
    /\ queue' = EnqueueAll(queue, Backspaces(BackspaceCount) \o Chunks(result))
    /\ fieldKnown' = TRUE
    /\ pc' = "logic"
    /\ sessions' = sessions + 1
    /\ want' = IF want = Lost THEN Lost ELSE SubSeq(result, 1, Min({n, FieldMax}))
    /\ UNCHANGED <<keySent, recent, overlay, textActive, suppress, tracked, field, looked>>

Next ==
  \/ PollSynthetic
  \/ \E e \in RealEvents : PollReal(e)
  \/ DrainEnds \/ IntervalPasses
  \/ ReadKeyboard \/ FieldReset \/ NextFrame
  \/ StartHeldBack \/ StartShowsKeyboard \/ StopTextInput \/ CooldownPasses
  \/ AppletUnavailable \/ AppletCancelled
  \/ \E n \in 0 .. MAX_TEXT - 1 : AppletReturns(n)

Spec == Init /\ [][Next]_vars

(* The game polls until there is nothing left and goes on to its next       *)
(* frame; time passes.  A drain may last forever: a resting stick keeps it  *)
(* busy (rv_events.c, lines 27-34).                                         *)
FairSpec ==
  /\ Spec
  /\ WF_vars(PollSynthetic)
  /\ WF_vars(IntervalPasses)
  /\ WF_vars(ReadKeyboard)
  /\ WF_vars(NextFrame)

-----------------------------------------------------------------------------
(* Properties. *)

(* "The field still ends up exactly equal to whatever the applet returned" *)
(* (rv_input.c, lines 419-422): once a replacement has been delivered, the *)
(* game's field is the result, whatever it held before, however far the    *)
(* tracked copy had drifted, and whatever the player edited or the game    *)
(* reset in earlier sessions.  Typing into a field while it is replaced is *)
(* excepted, for that replacement and for the later ones: the margin does  *)
(* not cover it.                                                           *)
ReplacementExact == queue = <<>> /\ want \notin {Unknown, Lost} => field = want

(* A key the game sees held is let go of: while the overlay reports it,    *)
(* its release is waiting in the queue and was not dropped for want of     *)
(* room (Enqueue, ApplyToOverlay).                                         *)
KeyNeverStuck == overlay => \E i \in 1 .. Len(queue) : queue[i] = Up

(* A press lasts: it is not released before the game has read the keyboard *)
(* or the key interval has passed, so a run of backspaces is not mistaken  *)
(* for one (rv_events.h PACING, rv_events.c lines 25-38).                  *)
PressHeld == [][overlay /\ ~overlay' => looked \/ ~recent]_vars

(* Whatever real input keeps a drain busy, everything queued is delivered  *)
(* (rv_events.c, lines 27-34: pacing must not starve the queue).           *)
QueueDrains == queue # <<>> ~> queue = <<>>
=============================================================================
