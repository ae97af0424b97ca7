------------------------------ MODULE FileApi ------------------------------
(***************************************************************************)
(* What open, read, lseek, write and close promise the game, whatever      *)
(* serves the descriptor: a descriptor is one file and one position, a     *)
(* read returns the bytes of that file that follow the position and comes  *)
(* back short only at the end of the file, and nothing another thread does *)
(* with another descriptor shows.                                          *)
(***************************************************************************)
EXTENDS Naturals, Sequences

CONSTANTS Threads, Fds, Files,
          SIZE,         \* bytes in a file, in units
          MaxRead       \* largest count given to read

VARIABLES
  table,    \* fd -> [file, pos], or Shut
  reading   \* thread -> [fd, want, buf], or Idle

vars == <<table, reading>>

Shut == [file |-> "none", pos |-> 0]
Idle == [fd |-> 0, want |-> 0, buf |-> <<>>]

Init ==
  /\ table = [fd \in Fds |-> Shut]
  /\ reading = [t \in Threads |-> Idle]

Open(fd) ==
  /\ table[fd] = Shut
  /\ \E f \in Files : table' = [table EXCEPT ![fd] = [file |-> f, pos |-> 0]]

(* A descriptor leaves the game's hands: closed, or turned into a stream.  *)
Close(fd) ==
  /\ table[fd] # Shut
  /\ \A t \in Threads : reading[t].fd # fd
  /\ table' = [table EXCEPT ![fd] = Shut]

Move(fd, pos) ==
  /\ table[fd] # Shut
  /\ pos \in 0 .. SIZE
  /\ table' = [table EXCEPT ![fd].pos = pos]

(* lseek, or a write; never while the descriptor is being read. *)
Reposition(fd) ==
  /\ \A t \in Threads : reading[t].fd # fd
  /\ \E pos \in 0 .. SIZE : Move(fd, pos)

Begin(t) ==
  /\ reading[t] = Idle
  /\ \E fd \in Fds, want \in 1 .. MaxRead :
       /\ table[fd] # Shut
       /\ reading' = [reading EXCEPT ![t] = [fd |-> fd, want |-> want, buf |-> <<>>]]

(* A read ends full, or where the file ends. *)
End(t) ==
  LET r == reading[t]
  IN /\ r # Idle
     /\ Len(r.buf) = r.want \/ table[r.fd].pos >= SIZE
     /\ reading' = [reading EXCEPT ![t] = Idle]

(* The next bytes of the file, as many as come at once. *)
Deliver(t) ==
  LET r == reading[t]
      d == table[r.fd]
  IN /\ r # Idle
     /\ \E n \in 1 .. r.want - Len(r.buf) :
          /\ Move(r.fd, d.pos + n)
          /\ reading' = [reading EXCEPT ![t].buf =
                           @ \o [i \in 1 .. n |-> <<d.file, d.pos + i - 1>>]]

Next ==
  \/ /\ UNCHANGED reading
     /\ \E fd \in Fds : Open(fd) \/ Close(fd) \/ Reposition(fd)
  \/ /\ UNCHANGED table
     /\ \E t \in Threads : Begin(t) \/ End(t)
  \/ \E t \in Threads : Deliver(t)

Spec == Init /\ [][Next]_vars
=============================================================================
