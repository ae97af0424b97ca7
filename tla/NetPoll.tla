------------------------------ MODULE NetPoll ------------------------------
(* Waiting for sockets: rvn_poll and rvn_select of rv_net.c.               *)
(*                                                                         *)
(* A call is cut into slices.  In its first quarter of a second the kernel *)
(* is given the slice to wait in, and libnx may come back from that at     *)
(* once; later it is only asked, and the port sleeps the slice itself.     *)
(* One thread waits; time is counted in units of the constants below.      *)
EXTENDS Integers, FiniteSets

CONSTANTS
  Fds,
  ActiveSlice, IdleSlice, GoesIdleAfter,   \* RVN_ACTIVE_SLICE_MS and so on
  Timeouts                                 \* what the engine waits for; -1: for ever

ASSUME SlicesAssumption ==
  /\ {ActiveSlice, IdleSlice, GoesIdleAfter} \subseteq Nat
  /\ ActiveSlice <= IdleSlice

ASSUME TimeoutsAssumption ==
  /\ Timeouts \subseteq Int
  /\ \E t \in Timeouts \cup {GoesIdleAfter} : \A u \in Timeouts \cup {GoesIdleAfter} : u <= t

VARIABLES
  ready,     \* [fd -> what has happened on it]; "err" is an error state
  pc,        \* "none": nobody waits; "ask", "wait", "sleep", "pay", "result"
  call,      \* what the engine asked for
  sets,      \* select: the descriptor sets, which the kernel overwrites
  elapsed,   \* since the call began
  left,      \* remainingMs
  idle, slice, spent, \* the slice, and how much of it has been waited or slept
  result,    \* [fd -> what is reported of it]; rc is how many are not empty
  age        \* for how long a wanted event has been there, unreported

vars == <<ready, pc, call, sets, elapsed, left, idle, slice, spent, result, age>>

Nothing == [fd \in Fds |-> {}]
NoCall  == [kind |-> "poll", timeout |-> 0, wants |-> Nothing]

(* Both clocks stop where nothing depends on them any more. *)
Longest == CHOOSE t \in Timeouts \cup {GoesIdleAfter} : \A u \in Timeouts \cup {GoesIdleAfter} : u <= t
UpTo(limit, t) == IF t < limit THEN t ELSE limit

Init ==
  /\ ready = Nothing /\ result = Nothing /\ sets = Nothing
  /\ pc = "none" /\ call = NoCall
  /\ elapsed = 0 /\ left = 0 /\ idle = FALSE /\ slice = 0 /\ spent = 0 /\ age = 0

-----------------------------------------------------------------------------
(* What the kernel would report now: poll speaks of errors unasked, select *)
(* calls a socket in error readable.                                       *)
Revents ==
  [fd \in Fds |->
     IF call.kind = "poll" THEN ready[fd] \cap (call.wants[fd] \cup {"err"})
     ELSE IF "err" \in ready[fd] THEN sets[fd] ELSE ready[fd] \cap sets[fd]]

Reported == {fd \in Fds : Revents[fd] # {}}

(* WantedEventReady *)
WantedEventReady == \E fd \in Fds : Revents[fd] \cap call.wants[fd] # {}

(* Mutant: an idle wait sleeps all that is left. *)
Slice_rest ==
  LET full == IF elapsed >= GoesIdleAfter /\ left > 0 THEN left
              ELSE IF elapsed >= GoesIdleAfter THEN IdleSlice ELSE ActiveSlice IN
  IF call.timeout = 0 THEN 0 ELSE IF left >= 0 /\ left < full THEN left ELSE full

(* Mutant: a slice may be longer than what is left. *)
Slice_whole ==
  IF call.timeout = 0 THEN 0 ELSE IF elapsed >= GoesIdleAfter THEN IdleSlice ELSE ActiveSlice

Slice ==
  LET full == IF elapsed >= GoesIdleAfter THEN IdleSlice ELSE ActiveSlice IN
  IF call.timeout = 0 THEN 0 ELSE IF left >= 0 /\ left < full THEN left ELSE full

(* The engine waits; with no descriptors poll only sleeps. *)
Enter(kind, timeout, wants) ==
  /\ pc = "none"
  /\ kind = "select" => \A fd \in Fds : wants[fd] # {}
  /\ call' = [kind |-> kind, timeout |-> timeout, wants |-> wants]
  /\ sets' = wants
  /\ left' = timeout /\ elapsed' = 0 /\ spent' = 0 /\ age' = 0
  /\ result' = Nothing
  /\ IF wants = Nothing
     THEN pc' = "pay" /\ slice' = IF timeout > 0 THEN timeout ELSE 0
     ELSE pc' = "ask" /\ slice' = 0
  /\ UNCHANGED <<ready, idle>>

(* Mutant: the sets stay as the kernel left them. *)
RestoreSets_not == sets' = sets

(* The kernel overwrites select's sets: each slice starts from the call's. *)
RestoreSets == sets' = call.wants

(* The top of the loop. *)
Ask ==
  /\ pc = "ask"
  /\ RestoreSets
  /\ idle' = (elapsed >= GoesIdleAfter)
  /\ slice' = Slice /\ spent' = 0
  /\ pc' = "wait"
  /\ UNCHANGED <<ready, call, elapsed, left, result, age>>

(* The kernel has something to report.  An error that nobody asked for     *)
(* makes poll sleep a slice first.                                         *)
Found ==
  /\ pc = "wait" /\ Reported # {}
  /\ result' = Revents
  /\ pc' = IF call.kind = "poll" /\ ~WantedEventReady THEN "pay" ELSE "result"
  /\ spent' = 0
  /\ UNCHANGED <<ready, call, sets, elapsed, left, idle, slice, age>>

(* It comes back with nothing: at once when idle, else when it likes.      *)
Empty ==
  /\ pc = "wait" /\ Reported = {}
  /\ sets' = Nothing
  /\ pc' = IF call.timeout = 0 THEN "result" ELSE IF idle THEN "sleep" ELSE "next"
  /\ spent' = IF call.timeout # 0 /\ idle THEN 0 ELSE spent
  /\ UNCHANGED <<ready, call, elapsed, left, idle, slice, result, age>>

Slept ==
  /\ pc \in {"sleep", "pay"} /\ spent = slice
  /\ pc' = IF pc = "sleep" THEN "next" ELSE "result"
  /\ UNCHANGED <<ready, call, sets, elapsed, left, idle, slice, spent, result, age>>

(* The slice is taken off what remains. *)
Step ==
  /\ pc = "next"
  /\ left' = IF left >= 0 THEN left - slice ELSE left
  /\ pc' = IF left >= 0 /\ left' <= 0 THEN "result" ELSE "ask"
  /\ UNCHANGED <<ready, call, sets, elapsed, idle, slice, spent, result, age>>

(* The engine has the answer, and sees to what it was told of. *)
Leave ==
  /\ pc = "result"
  /\ pc' = "none"
  /\ ready' = [fd \in Fds |-> IF result[fd] # {} THEN {} ELSE ready[fd]]
  /\ call' = NoCall /\ sets' = Nothing /\ result' = Nothing
  /\ elapsed' = 0 /\ left' = 0 /\ idle' = FALSE /\ slice' = 0 /\ spent' = 0 /\ age' = 0

-----------------------------------------------------------------------------
(* Outside. *)

Arrive(fd, event) ==
  /\ event \notin ready[fd]
  /\ ready' = [ready EXCEPT ![fd] = @ \cup {event}]
  /\ UNCHANGED <<pc, call, sets, elapsed, left, idle, slice, spent, result, age>>

Wanted == \E fd \in Fds : ready[fd] \cap call.wants[fd] # {}

(* Time passes while the port sleeps, and while the kernel waits, which it *)
(* does no longer than it was told to, and not with something to report.   *)
Tick ==
  /\ pc \in {"wait", "sleep", "pay"} /\ spent < slice
  /\ pc = "wait" => ~idle /\ Reported = {}
  /\ spent' = spent + 1
  /\ elapsed' = UpTo(Longest + IdleSlice + 1, elapsed + 1)
  /\ age' = IF Wanted THEN UpTo(IdleSlice + 1, age + 1) ELSE 0
  /\ UNCHANGED <<ready, pc, call, sets, left, idle, slice, result>>

Code == Ask \/ Found \/ Empty \/ Slept \/ Step \/ Leave

Next ==
  \/ Code \/ Tick
  \/ \E kind \in {"poll", "select"}, t \in Timeouts, wants \in [Fds -> {{}, {"in"}}] :
       Enter(kind, t, wants)
  \/ \E fd \in Fds, event \in {"in", "err"} : Arrive(fd, event)

Spec == Init /\ [][Next]_vars

-----------------------------------------------------------------------------
(* Properties. *)

(* A wanted event is not slept over: it is reported within one slice of    *)
(* happening, however long the call has lasted and whatever libnx does     *)
(* with the slices it is given (rvn_poll, rvn_select).                     *)
NoticedSoon == call.wants # Nothing => age <= IdleSlice

(* A call is over no later than it was told, except that an error nobody   *)
(* asked for costs poll one slice; a call told to wait for ever only ends  *)
(* with something to report.                                               *)
EndsInTime ==
  /\ call.timeout >= 0 =>
       elapsed <= call.timeout + (IF result # Nothing THEN IdleSlice ELSE 0)
  /\ pc = "result" /\ call.timeout < 0 /\ call.wants # Nothing => result # Nothing

(* A call with a timeout ends, and so does any call once an event it wants *)
(* has happened.                                                           *)
WaitEnds == pc # "none" /\ (call.timeout >= 0 \/ Wanted) ~> pc = "none"
=============================================================================
