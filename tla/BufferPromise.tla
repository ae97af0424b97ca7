--------------------------- MODULE BufferPromise ---------------------------
(***************************************************************************)
(* What an OpenSL ES buffer queue promises its client, independent of the  *)
(* ring, the cursor and the mixer loop that BufferQueue uses to keep it:   *)
(* a bounded FIFO whose buffers are started in order, one at a time, each  *)
(* handed back (through the buffer-queue callback) at most once.           *)
(*                                                                         *)
(* Buffers are named by the order in which Enqueue accepted them.          *)
(***************************************************************************)
EXTENDS Naturals, Sequences

CONSTANT Capacity     \* buffers that can wait at once

VARIABLES
  waiting,    \* accepted and not started, oldest first
  current,    \* the buffer being played, 0 if none
  doomed,     \* the buffer a Clear caught while it was being played, or 0
  listening,  \* the client has registered its callback
  accepted,   \* number of buffers accepted so far
  returned    \* the last buffer handed back, 0 at first

vars == <<waiting, current, doomed, listening, accepted, returned>>

Init ==
  /\ waiting = <<>>
  /\ current = 0
  /\ doomed = 0
  /\ listening = FALSE
  /\ accepted = 0
  /\ returned = 0

(* A buffer is accepted only while there is room for it. *)
Accept ==
  /\ Len(waiting) < Capacity
  /\ accepted' = accepted + 1
  /\ waiting' = Append(waiting, accepted + 1)
  /\ UNCHANGED <<current, doomed, listening, returned>>

Start ==
  /\ current = 0
  /\ waiting # <<>>
  /\ current' = Head(waiting)
  /\ waiting' = Tail(waiting)
  /\ UNCHANGED <<doomed, listening, accepted, returned>>

(* A finished buffer is handed back, in order and never twice, to a client *)
(* that listens.                                                           *)
Return ==
  /\ current > returned
  /\ returned' = IF listening THEN current ELSE returned
  /\ current' = 0
  /\ UNCHANGED <<waiting, doomed, listening, accepted>>

(* Clear discards what waits; the player may still be busy with the buffer *)
(* it holds, and drops or returns that one later.                          *)
Clear ==
  /\ waiting' = <<>>
  /\ current' \in {0, current}
  /\ doomed' = current'
  /\ UNCHANGED <<listening, accepted, returned>>

Drop ==
  /\ current # 0
  /\ current = doomed
  /\ current' = 0
  /\ UNCHANGED <<waiting, doomed, listening, accepted, returned>>

Listen ==
  /\ listening' = TRUE
  /\ UNCHANGED <<waiting, current, doomed, accepted, returned>>

Next == Accept \/ Start \/ Return \/ Clear \/ Drop \/ Listen

Spec == Init /\ [][Next]_vars
=============================================================================
