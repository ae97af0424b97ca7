----------------------------- MODULE Net_proofs -----------------------------
(***************************************************************************)
(* Proofs about NetPoll, for any descriptors, slices and timeouts: a call  *)
(* of poll or select ends in time, and what it waits for is noticed within *)
(* a slice.  And about NetSockets, for any sockets, peers and networks:    *)
(* its conversions tell the engine the mode and the sender as they are,    *)
(* and the connection too unless it fails with newlib's ENETDOWN.          *)
(***************************************************************************)
EXTENDS NetPoll, NetSockets, TLAPS

Events == {"in", "err"}
Calls == [kind : {"poll", "select"}, timeout : Int, wants : [Fds -> {{}, {"in"}}]]
Labels == {"none", "ask", "wait", "sleep", "pay", "next", "result"}

PollTypeOK ==
  /\ pc \in Labels
  /\ call \in Calls
  /\ elapsed \in Nat /\ left \in Int /\ slice \in Nat /\ spent \in Nat /\ age \in Nat
  /\ idle \in BOOLEAN
  /\ spent <= slice

(* What remains of the timeout covers what is left of the slice; before a  *)
(* call has an answer it has not been longer than it was told.             *)
Clock ==
  /\ pc = "none" => call = NoCall /\ elapsed = 0
  /\ pc \notin {"pay", "result"} => result = Nothing
  /\ pc \in {"ask", "wait", "sleep", "next"} =>
       /\ call.timeout >= 0 <=> left >= 0
       /\ call.timeout >= 0 => elapsed + left <= call.timeout + (IF pc = "ask" THEN 0 ELSE spent)
  /\ pc \in {"wait", "sleep", "next"} =>
       /\ call.timeout >= 0 => slice <= left
       /\ slice <= IdleSlice
  /\ pc = "wait" /\ idle => spent = 0
  /\ pc = "pay" /\ call.timeout >= 0 =>
       elapsed + slice <= call.timeout + spent + (IF result # Nothing THEN IdleSlice ELSE 0)
  /\ pc = "pay" /\ call.wants # Nothing => result # Nothing /\ slice <= IdleSlice

(* A wanted event stays, so age counts from when it happened; only a slice *)
(* that the port sleeps or pays lets it grow.                              *)
Noticing ==
  /\ pc = "wait" => sets = call.wants
  /\ age > 0 => Wanted
  /\ pc \in {"ask", "wait", "next"} => age <= IdleSlice
  /\ pc \in {"sleep", "pay"} => age <= spent

PollInv == PollTypeOK /\ Clock /\ EndsInTime /\ Noticing /\ NoticedSoon

-----------------------------------------------------------------------------
(* The longest timeout is a number. *)
LEMMA LongestIsInt == Longest \in Int /\ GoesIdleAfter <= Longest
<1>1. /\ Longest \in Timeouts \cup {GoesIdleAfter}
      /\ \A u \in Timeouts \cup {GoesIdleAfter} : u <= Longest
  BY TimeoutsAssumption, Zenon DEF Longest
<1> QED BY <1>1, SlicesAssumption, TimeoutsAssumption

(* UpTo never makes a clock run fast. *)
LEMMA UpToBounds ==
  ASSUME NEW limit \in Nat, NEW t \in Nat
  PROVE  UpTo(limit, t) \in Nat /\ UpTo(limit, t) <= t
  BY DEF UpTo

(* The kernel reports an event that is wanted. *)
LEMMA WantedIsReported ==
  ASSUME PollTypeOK, pc = "wait", sets = call.wants, Wanted
  PROVE  Reported # {} /\ WantedEventReady
<1>1. PICK fd \in Fds : ready[fd] \cap call.wants[fd] # {}
  BY DEF Wanted
<1>2. Revents[fd] \cap call.wants[fd] # {}
  BY <1>1 DEF Revents
<1> QED BY <1>2 DEF Reported, WantedEventReady

(* A slice is not longer than what remains of the timeout. *)
LEMMA SliceFits ==
  ASSUME PollTypeOK, call.timeout >= 0 <=> left >= 0
  PROVE  /\ Slice \in Nat /\ Slice <= IdleSlice
         /\ call.timeout >= 0 => Slice <= left
  BY SlicesAssumption DEF Slice, PollTypeOK, Calls

(* Between two calls nothing is waited for. *)
LEMMA NoCallFacts ==
  /\ NoCall \in Calls
  /\ NoCall.timeout = 0 /\ NoCall.wants = Nothing
  BY DEF NoCall, Nothing, Calls

(* So it is before the first one. *)
LEMMA PollInitInv == Init => PollInv
<1> SUFFICES ASSUME Init PROVE PollInv
  OBVIOUS
<1> USE SlicesAssumption, NoCallFacts DEF Init
<1>1. PollTypeOK
  <2>1. pc \in Labels
    BY DEF Labels
  <2>2. call \in Calls /\ idle \in BOOLEAN
    BY Zenon
  <2>3. /\ elapsed \in Nat /\ left \in Int /\ slice \in Nat /\ spent \in Nat /\ age \in Nat
        /\ spent <= slice
    OBVIOUS
  <2> QED BY <2>1, <2>2, <2>3 DEF PollTypeOK
<1>2. Clock /\ EndsInTime
  BY DEF Clock, EndsInTime
<1>3. Noticing /\ NoticedSoon
  BY DEF Noticing, NoticedSoon
<1> QED BY <1>1, <1>2, <1>3 DEF PollInv

-----------------------------------------------------------------------------
(* One lemma for each step of a call, and one for the world outside. *)

LEMMA EnterStep ==
  ASSUME PollInv, NEW kind \in {"poll", "select"}, NEW t \in Timeouts,
         NEW wants \in [Fds -> {{}, {"in"}}], Enter(kind, t, wants)
  PROVE  PollInv'
<1> USE SlicesAssumption, TimeoutsAssumption DEF Enter, PollInv, PollTypeOK, Labels, Calls
<1>1. PollTypeOK'
  OBVIOUS
<1>2. Clock' /\ EndsInTime'
  BY DEF Clock, EndsInTime, Nothing
<1>3. Noticing' /\ NoticedSoon'
  BY DEF Noticing, NoticedSoon
<1> QED BY <1>1, <1>2, <1>3

LEMMA AskStep ==
  ASSUME PollInv, Ask
  PROVE  PollInv'
<1>1. /\ Slice \in Nat /\ Slice <= IdleSlice
      /\ call.timeout >= 0 => Slice <= left
  BY SliceFits DEF PollInv, Clock, Ask
<1> USE SlicesAssumption, <1>1 DEF Ask, RestoreSets, PollInv, PollTypeOK, Labels, Calls
<1>2. PollTypeOK'
  OBVIOUS
<1>3. Clock' /\ EndsInTime'
  BY DEF Clock, EndsInTime, Nothing
<1>4. Noticing' /\ NoticedSoon'
  BY DEF Noticing, NoticedSoon, Wanted
<1> QED BY <1>2, <1>3, <1>4

LEMMA FoundStep ==
  ASSUME PollInv, Found
  PROVE  PollInv'
<1>1. Revents # Nothing
  BY DEF Found, Reported, Nothing
<1>2. pc' = "pay" => age = 0
  <2> SUFFICES ASSUME pc' = "pay", age # 0 PROVE FALSE
    OBVIOUS
  <2>1. ~WantedEventReady /\ pc = "wait" /\ age > 0
    BY DEF Found, PollInv, PollTypeOK
  <2> QED BY <2>1, WantedIsReported DEF PollInv, Noticing
<1> USE SlicesAssumption, <1>1, <1>2 DEF Found, PollInv, PollTypeOK, Labels, Calls
<1>3. PollTypeOK'
  OBVIOUS
<1>4. Clock' /\ EndsInTime'
  BY DEF Clock, EndsInTime
<1>5. Noticing' /\ NoticedSoon'
  BY DEF Noticing, NoticedSoon, Wanted
<1> QED BY <1>3, <1>4, <1>5

LEMMA EmptyStep ==
  ASSUME PollInv, Empty
  PROVE  PollInv'
<1>1. age = 0
  <2>1. ~Wanted
    BY WantedIsReported DEF Empty, PollInv, Noticing
  <2> QED BY <2>1 DEF PollInv, PollTypeOK, Noticing
<1> USE SlicesAssumption, <1>1 DEF Empty, PollInv, PollTypeOK, Labels, Calls
<1>2. PollTypeOK'
  OBVIOUS
<1>3. Clock' /\ EndsInTime'
  BY DEF Clock, EndsInTime, Nothing
<1>4. Noticing' /\ NoticedSoon'
  BY DEF Noticing, NoticedSoon, Wanted
<1> QED BY <1>2, <1>3, <1>4

LEMMA SleptStep ==
  ASSUME PollInv, Slept
  PROVE  PollInv'
<1> USE SlicesAssumption DEF Slept, PollInv, PollTypeOK, Labels, Calls
<1>1. PollTypeOK'
  OBVIOUS
<1>2. Clock' /\ EndsInTime'
  BY DEF Clock, EndsInTime
<1>3. Noticing' /\ NoticedSoon'
  BY DEF Noticing, NoticedSoon, Wanted, Clock
<1> QED BY <1>1, <1>2, <1>3

LEMMA StepStep ==
  ASSUME PollInv, Step
  PROVE  PollInv'
<1> USE SlicesAssumption DEF Step, PollInv, PollTypeOK, Labels, Calls
<1>1. PollTypeOK'
  OBVIOUS
<1>2. Clock' /\ EndsInTime'
  BY DEF Clock, EndsInTime
<1>3. Noticing' /\ NoticedSoon'
  BY DEF Noticing, NoticedSoon, Wanted
<1> QED BY <1>1, <1>2, <1>3

LEMMA LeaveStep ==
  ASSUME PollInv, Leave
  PROVE  PollInv'
<1> USE SlicesAssumption, NoCallFacts DEF Leave
<1>1. PollTypeOK'
  <2>1. pc' \in Labels
    BY DEF Labels
  <2>2. call' \in Calls /\ idle' \in BOOLEAN
    BY Zenon
  <2>3. /\ elapsed' \in Nat /\ left' \in Int /\ slice' \in Nat /\ spent' \in Nat /\ age' \in Nat
        /\ spent' <= slice'
    OBVIOUS
  <2> QED BY <2>1, <2>2, <2>3 DEF PollTypeOK
<1>2. Clock' /\ EndsInTime'
  BY DEF Clock, EndsInTime
<1>3. Noticing' /\ NoticedSoon'
  BY DEF Noticing, NoticedSoon
<1> QED BY <1>1, <1>2, <1>3 DEF PollInv

LEMMA ArriveStep ==
  ASSUME PollInv, NEW fd \in Fds, NEW event \in Events, Arrive(fd, event)
  PROVE  PollInv'
<1>1. Wanted => Wanted'
  BY DEF Arrive, Wanted
<1> QED BY <1>1 DEF Arrive, PollInv, PollTypeOK, Clock, EndsInTime, Noticing, NoticedSoon

LEMMA TickStep ==
  ASSUME PollInv, Tick
  PROVE  PollInv'
<1>1. /\ elapsed' \in Nat /\ elapsed' <= elapsed + 1
      /\ age' \in Nat /\ age' <= age + 1 /\ (age' > 0 => Wanted)
  <2>1. Longest + IdleSlice + 1 \in Nat /\ IdleSlice + 1 \in Nat
    BY SlicesAssumption, LongestIsInt
  <2>2. elapsed + 1 \in Nat /\ age + 1 \in Nat
    BY DEF PollInv, PollTypeOK
  <2>3. UpTo(Longest + IdleSlice + 1, elapsed + 1) \in 0 .. elapsed + 1
    BY <2>1, <2>2, UpToBounds
  <2>4. UpTo(IdleSlice + 1, age + 1) \in 0 .. age + 1
    BY <2>1, <2>2, UpToBounds
  <2> QED BY <2>2, <2>3, <2>4 DEF Tick
<1>2. pc = "wait" => age' = 0
  BY WantedIsReported DEF Tick, PollInv, Noticing
<1> USE SlicesAssumption, <1>1, <1>2 DEF PollInv, PollTypeOK, Labels, Calls
<1>3. PollTypeOK'
  BY DEF Tick
<1>4. Clock' /\ EndsInTime'
  BY DEF Tick, Clock, EndsInTime
<1>5. Noticing' /\ NoticedSoon'
  BY DEF Tick, Clock, Noticing, NoticedSoon, Wanted
<1> QED BY <1>3, <1>4, <1>5

(* Nothing else happens. *)
LEMMA PollStep == PollInv /\ [Next]_vars => PollInv'
<1> SUFFICES ASSUME PollInv, [Next]_vars PROVE PollInv'
  OBVIOUS
<1>1. CASE UNCHANGED vars
  BY <1>1 DEF vars, PollInv, PollTypeOK, Clock, EndsInTime, Noticing, NoticedSoon, Wanted
<1> QED
  BY <1>1, EnterStep, AskStep, FoundStep, EmptyStep, SleptStep, StepStep, LeaveStep, ArriveStep,
     TickStep
  DEF Next, Code, Events

-----------------------------------------------------------------------------
(* The inductive invariant of a call: what its clocks have to do with its  *)
(* timeout, and with the event it waits for.                               *)
THEOREM PollInvariant == Spec => []PollInv
  BY PollInitInv, PollStep, PTL DEF Spec

(* Whatever the slices and the timeout, and whenever libnx comes back, a   *)
(* call of rvn_poll or rvn_select is over in time.                         *)
THEOREM PollEnds == Spec => []EndsInTime
<1>1. PollInv => EndsInTime
  BY DEF PollInv
<1> QED BY <1>1, PollInvariant, PTL

(* Whatever the slices, an event that rvn_poll or rvn_select was asked for *)
(* is not slept over.                                                      *)
THEOREM PollNotices == Spec => []NoticedSoon
<1>1. PollInv => NoticedSoon
  BY DEF PollInv
<1> QED BY <1>1, PollInvariant, PTL

-----------------------------------------------------------------------------
(* Sockets, their modes and their connections. *)

SocketStates == {"none", "pending", "connected", "failed"}

KernelSockets ==
  [mode : Modes \cup {"closed"}, state : SocketStates, error : Failures \cup {0},
   failure : Failures \cup {0}, peer : Peers \cup {"none"}, inbox : Seq(Peers)]

(* A socket of the kernel, the mode asked for and what the engine was told *)
(* go together; an error waits to be read only while the engine believes   *)
(* the connection to be under way.  All but the mode is lost with the one  *)
(* failure that is misread.                                                *)
Agrees(socket, mode, told) ==
  /\ socket.mode = mode
  /\ socket.state = "failed" <=> socket.failure # 0
  /\ socket.failure # ENETDOWN =>
       /\ told = "none" => socket.state = "none"
       /\ told = "pending" => socket.state # "none"
       /\ told \in {"connected", "failed"} => socket.state = told
       /\ socket.error = IF socket.state = "failed" /\ told = "pending" THEN socket.failure ELSE 0

SocketsTypeOK ==
  /\ up \in BOOLEAN /\ broadcast \in Networks \cup {"none"}
  /\ host \in [SocketFds -> KernelSockets]
  /\ asked \in [SocketFds -> Modes \cup {"closed"}]
  /\ believes \in [SocketFds -> SocketStates]

SocketsInv ==
  /\ SocketsTypeOK
  /\ \A fd \in SocketFds : Agrees(host[fd], asked[fd], believes[fd])
  /\ NamesItsSender

LEMMA ClosedAgrees == Closed \in KernelSockets /\ Agrees(Closed, "closed", "none")
  BY DEF Closed, KernelSockets, Agrees, SocketStates, ENETDOWN

LEMMA SocketsInitInv == SocketsInit => SocketsInv
<1> SUFFICES ASSUME SocketsInit PROVE SocketsInv
  OBVIOUS
<1>1. SocketsTypeOK
  BY ClosedAgrees DEF SocketsInit, SocketsTypeOK, SocketStates
<1>2. \A fd \in SocketFds : Agrees(host[fd], asked[fd], believes[fd])
  <2>1. \A fd \in SocketFds : host[fd] = Closed /\ asked[fd] = "closed" /\ believes[fd] = "none"
    BY DEF SocketsInit
  <2> QED BY <2>1, ClosedAgrees
<1>3. NamesItsSender
  BY DEF SocketsInit, NamesItsSender
<1> QED BY <1>1, <1>2, <1>3 DEF SocketsInv

(* One socket changes. *)
LEMMA OneSocket ==
  ASSUME SocketsInv, NEW fd \in SocketFds, NEW socket \in KernelSockets, Kernel(fd, socket),
         asked' \in [SocketFds -> Modes \cup {"closed"}], believes' \in [SocketFds -> SocketStates],
         Agrees(socket, asked'[fd], believes'[fd]),
         \A g \in SocketFds \ {fd} : asked'[g] = asked[g] /\ believes'[g] = believes[g],
         UNCHANGED <<up, broadcast>>, NamesItsSender'
  PROVE  SocketsInv'
<1>1. host' \in [SocketFds -> KernelSockets]
  BY DEF Kernel, SocketsInv, SocketsTypeOK
<1>2. \A g \in SocketFds : Agrees(host[g], asked[g], believes[g])'
  <2>1. host'[fd] = socket /\ \A g \in SocketFds \ {fd} : host'[g] = host[g]
    BY DEF Kernel, SocketsInv, SocketsTypeOK
  <2> QED BY <2>1 DEF SocketsInv, Agrees
<1> QED BY <1>1, <1>2 DEF SocketsInv, SocketsTypeOK

(* So does its mode, and nothing else. *)
LEMMA ModeChanges ==
  ASSUME SocketsInv, NEW fd \in SocketFds, Open(fd), NEW mode \in Modes,
         Kernel(fd, [host[fd] EXCEPT !.mode = mode]), Asks(fd, mode),
         UNCHANGED <<up, broadcast, believes, data>>
  PROVE  SocketsInv'
<1>1. host[fd] \in KernelSockets /\ Agrees(host[fd], asked[fd], believes[fd])
  BY DEF SocketsInv, SocketsTypeOK
<1>2. [host[fd] EXCEPT !.mode = mode] \in KernelSockets
  BY <1>1 DEF KernelSockets
<1>3. /\ asked' \in [SocketFds -> Modes \cup {"closed"}] /\ asked'[fd] = mode
      /\ \A g \in SocketFds \ {fd} : asked'[g] = asked[g]
  BY DEF Asks, SocketsInv, SocketsTypeOK
<1>4. Agrees([host[fd] EXCEPT !.mode = mode], mode, believes[fd])
  BY <1>1 DEF KernelSockets, Agrees
<1>5. NamesItsSender' /\ believes' \in [SocketFds -> SocketStates]
  BY DEF SocketsInv, SocketsTypeOK, NamesItsSender, data
<1> QED BY <1>2, <1>3, <1>4, <1>5, OneSocket

LEMMA FcntlStep ==
  ASSUME SocketsInv, NEW fd \in SocketFds, NEW flags,
         Fcntl(fd, flags), flags \in {Guest(mode) : mode \in Modes} \cup {GetFl(fd)}
  PROVE  SocketsInv'
<1>1. host[fd].mode = asked[fd] /\ host[fd].mode \in Modes /\ Open(fd)
  BY DEF SocketsInv, SocketsTypeOK, Agrees, Fcntl, Open, KernelSockets
<1>2. \A mode \in Modes : ToMode(Guest(mode)) = mode /\ Guest(mode)[2] = mode
  BY DEF ToMode, Guest, Modes
<1>3. PICK mode \in Modes : flags = Guest(mode)
  BY <1>1 DEF GetFl
<1>4. (IF flags = GetFl(fd) THEN asked[fd] ELSE flags[2]) = mode
  BY <1>1, <1>2, <1>3 DEF GetFl
<1> QED BY <1>1, <1>2, <1>3, <1>4, ModeChanges DEF Fcntl

LEMMA SocketStep ==
  ASSUME SocketsInv, NEW fd \in SocketFds, NEW mode \in Modes, Socket(fd, mode)
  PROVE  SocketsInv'
<1>1. [Closed EXCEPT !.mode = mode] \in KernelSockets /\ Agrees([Closed EXCEPT !.mode = mode], mode, "none")
  BY ClosedAgrees DEF KernelSockets, Agrees
<1>2. /\ asked' \in [SocketFds -> Modes \cup {"closed"}] /\ asked'[fd] = mode
      /\ \A g \in SocketFds \ {fd} : asked'[g] = asked[g]
      /\ believes' \in [SocketFds -> SocketStates] /\ believes'[fd] = "none"
      /\ \A g \in SocketFds \ {fd} : believes'[g] = believes[g]
      /\ NamesItsSender'
  BY DEF Socket, Asks, Told, SocketsInv, SocketsTypeOK, SocketStates, NamesItsSender, data
<1> QED BY <1>1, <1>2, OneSocket DEF Socket

LEMMA CloseStep ==
  ASSUME SocketsInv, NEW fd \in SocketFds, Close(fd)
  PROVE  SocketsInv'
<1>1. /\ asked' \in [SocketFds -> Modes \cup {"closed"}] /\ asked'[fd] = "closed"
      /\ \A g \in SocketFds \ {fd} : asked'[g] = asked[g]
      /\ believes' \in [SocketFds -> SocketStates] /\ believes'[fd] = "none"
      /\ \A g \in SocketFds \ {fd} : believes'[g] = believes[g]
      /\ NamesItsSender'
  BY DEF Close, Asks, Told, SocketsInv, SocketsTypeOK, SocketStates, NamesItsSender, data
<1> QED BY <1>1, ClosedAgrees, OneSocket DEF Close

(* One failure is read as a connection under way, every other as what it   *)
(* is.                                                                     *)
LEMMA ErrorsRead ==
  /\ Reads(0) = "connected"
  /\ Reads(TranslateErrno(EINPROGRESS)) = "pending"
  /\ \A e \in Failures : Reads(TranslateErrno(e)) = IF e = ENETDOWN THEN "pending" ELSE "failed"
<1>1. Reads(0) = "connected" /\ Reads(TranslateErrno(EINPROGRESS)) = "pending"
  BY DEF Reads, TranslateErrno, EINPROGRESS, LX_EINPROGRESS
<1>2. ASSUME NEW e \in Failures
      PROVE  Reads(TranslateErrno(e)) = IF e = ENETDOWN THEN "pending" ELSE "failed"
  <2>1. e \in Nat /\ e # 0 /\ e # EINPROGRESS
    BY FailuresAssumption
  <2>2. TranslateErrno(e) \in {114, 88, 98, 110, 113, 101, 90} \/ TranslateErrno(e) = e
    BY <2>1 DEF TranslateErrno, EINPROGRESS
  <2>3. e = ENETDOWN => TranslateErrno(e) = e
    BY DEF TranslateErrno, EINPROGRESS, ENETDOWN
  <2>4. TranslateErrno(e) # 0 /\ (TranslateErrno(e) = LX_EINPROGRESS <=> e = ENETDOWN)
    BY <2>1, <2>2, <2>3 DEF LX_EINPROGRESS, ENETDOWN
  <2> QED BY <2>4 DEF Reads
<1> QED BY <1>1, <1>2

(* Its connection changes, and what the engine was told of it. *)
LEMMA ConnectionChanges ==
  ASSUME SocketsInv, NEW fd \in SocketFds, NEW socket \in KernelSockets, NEW told \in SocketStates,
         Kernel(fd, socket), Agrees(socket, asked[fd], told),
         believes' = [believes EXCEPT ![fd] = told],
         UNCHANGED <<up, broadcast, asked, data>>
  PROVE  SocketsInv'
<1>1. /\ asked' \in [SocketFds -> Modes \cup {"closed"}]
      /\ believes' \in [SocketFds -> SocketStates] /\ believes'[fd] = told
      /\ \A g \in SocketFds \ {fd} : asked'[g] = asked[g] /\ believes'[g] = believes[g]
      /\ NamesItsSender'
  BY DEF SocketsInv, SocketsTypeOK, NamesItsSender, data
<1> QED BY <1>1, OneSocket

LEMMA ConnectStep ==
  ASSUME SocketsInv, NEW fd \in SocketFds, NEW peer \in Peers, Connect(fd, peer)
  PROVE  SocketsInv'
<1>1. /\ host[fd] \in KernelSockets /\ Agrees(host[fd], asked[fd], believes[fd])
      /\ host[fd].state = "none" /\ host[fd].failure = 0 /\ host[fd].error = 0
  BY DEF SocketsInv, SocketsTypeOK, Connect, Agrees, ENETDOWN
<1>2. PICK a \in Attempts(host[fd].mode) :
        /\ Kernel(fd, IF a.state = "failed" THEN Fails(host[fd], a.error)
                      ELSE [host[fd] EXCEPT !.state = a.state, !.peer = peer])
        /\ Told(fd, Reads(IF a.error = 0 THEN 0 ELSE TranslateErrno(a.error)))
  BY DEF Connect
<1>3. CASE a.state = "failed"
  <2>1. a.error \in Failures /\ a.error # 0
    BY <1>2, <1>3, FailuresAssumption DEF Attempts
  <2>2. PICK told \in {"pending", "failed"} :
          /\ told = Reads(IF a.error = 0 THEN 0 ELSE TranslateErrno(a.error))
          /\ a.error # ENETDOWN => told = "failed"
    BY <2>1, ErrorsRead
  <2>3. /\ Fails(host[fd], a.error) \in KernelSockets
        /\ Agrees(Fails(host[fd], a.error), asked[fd], told)
    BY <1>1, <2>1, <2>2 DEF Fails, KernelSockets, Agrees, SocketStates
  <2> QED BY <1>2, <1>3, <2>2, <2>3, ConnectionChanges DEF Connect, Told, SocketStates
<1>4. CASE a.state # "failed"
  <2> DEFINE socket == [host[fd] EXCEPT !.state = a.state, !.peer = peer]
  <2>1. /\ a.state \in {"connected", "pending"}
        /\ Reads(IF a.error = 0 THEN 0 ELSE TranslateErrno(a.error)) = a.state
    <3>1. a \in {[state |-> "connected", error |-> 0], [state |-> "pending", error |-> EINPROGRESS]}
      BY <1>2, <1>4 DEF Attempts
    <3> QED BY <3>1, ErrorsRead DEF EINPROGRESS
  <2>2. socket \in KernelSockets /\ Agrees(socket, asked[fd], a.state)
    BY <1>1, <2>1 DEF KernelSockets, Agrees, SocketStates
  <2> QED BY <1>2, <1>4, <2>1, <2>2, ConnectionChanges DEF Connect, Told, SocketStates
<1> QED BY <1>3, <1>4

LEMMA SettleStep ==
  ASSUME SocketsInv, NEW fd \in SocketFds, Settle(fd)
  PROVE  SocketsInv'
<1>1. /\ host[fd] \in KernelSockets /\ Agrees(host[fd], asked[fd], believes[fd])
      /\ host[fd].state = "pending" /\ host[fd].failure = 0
  BY DEF SocketsInv, SocketsTypeOK, Settle, Agrees
<1>2. believes[fd] = "pending" /\ believes' = [believes EXCEPT ![fd] = "pending"] /\ "pending" \in SocketStates
  BY <1>1 DEF Agrees, Settle, SocketStates, SocketsInv, SocketsTypeOK, ENETDOWN
<1>3. /\ [host[fd] EXCEPT !.state = "connected"] \in KernelSockets
      /\ Agrees([host[fd] EXCEPT !.state = "connected"], asked[fd], "pending")
  BY <1>1, <1>2 DEF KernelSockets, Agrees, SocketStates
<1>4. ASSUME NEW e \in Failures
      PROVE  /\ [Fails(host[fd], e) EXCEPT !.error = e] \in KernelSockets
             /\ Agrees([Fails(host[fd], e) EXCEPT !.error = e], asked[fd], "pending")
  BY <1>1, <1>2, FailuresAssumption DEF Fails, KernelSockets, Agrees, SocketStates
<1> QED BY <1>2, <1>3, <1>4, ConnectionChanges DEF Settle

LEMMA GetErrorStep ==
  ASSUME SocketsInv, NEW fd \in SocketFds, GetError(fd)
  PROVE  SocketsInv'
<1> DEFINE socket == [host[fd] EXCEPT !.error = 0]
<1>1. /\ host[fd] \in KernelSockets /\ Agrees(host[fd], asked[fd], believes[fd])
      /\ believes[fd] = "pending" /\ host[fd].state # "pending"
  BY DEF SocketsInv, SocketsTypeOK, GetError
<1>2. PICK told \in SocketStates \ {"none"} :
        /\ told = Reads(SoError(host[fd].error))
        /\ host[fd].failure # ENETDOWN => told = host[fd].state
  <2>1. host[fd].error \in Failures \cup {0} /\ host[fd].state \in SocketStates
    BY <1>1 DEF KernelSockets
  <2>2. Reads(SoError(host[fd].error)) \in SocketStates \ {"none"}
    BY <2>1, ErrorsRead DEF SoError, SocketStates
  <2>3. ASSUME host[fd].failure # ENETDOWN
        PROVE  Reads(SoError(host[fd].error)) = host[fd].state
    <3>1. CASE host[fd].state = "failed"
      <4>1. host[fd].error = host[fd].failure /\ host[fd].error # 0
        BY <1>1, <2>3, <3>1 DEF Agrees
      <4> QED BY <2>1, <2>3, <3>1, <4>1, ErrorsRead DEF SoError
    <3>2. CASE host[fd].state = "connected"
      BY <1>1, <2>3, <3>2, ErrorsRead DEF Agrees, SoError
    <3> QED BY <1>1, <2>1, <2>3, <3>1, <3>2 DEF Agrees, SocketStates
  <2> QED BY <2>2, <2>3
<1>3. socket \in KernelSockets /\ Agrees(socket, asked[fd], told)
  BY <1>1, <1>2 DEF KernelSockets, Agrees, SocketStates
<1> QED BY <1>2, <1>3, ConnectionChanges DEF GetError, Told, SocketStates

(* Datagrams come and go. *)
LEMMA InboxChanges ==
  ASSUME SocketsInv, NEW fd \in SocketFds, NEW inbox \in Seq(Peers),
         Kernel(fd, [host[fd] EXCEPT !.inbox = inbox]), UNCHANGED <<up, broadcast, asked, believes>>,
         NamesItsSender'
  PROVE  SocketsInv'
<1>1. host[fd] \in KernelSockets /\ Agrees(host[fd], asked[fd], believes[fd])
  BY DEF SocketsInv, SocketsTypeOK
<1>2. /\ [host[fd] EXCEPT !.inbox = inbox] \in KernelSockets
      /\ Agrees([host[fd] EXCEPT !.inbox = inbox], asked[fd], believes[fd])
  BY <1>1 DEF KernelSockets, Agrees
<1> QED BY <1>2, OneSocket DEF SocketsInv, SocketsTypeOK

LEMMA DatagramStep ==
  ASSUME SocketsInv, NEW fd \in SocketFds, Recv(fd) \/ \E peer \in Peers : ArriveFrom(fd, peer)
  PROVE  SocketsInv'
<1>1. host[fd].inbox \in Seq(Peers)
  BY DEF SocketsInv, SocketsTypeOK, KernelSockets
<1>2. ASSUME NEW peer \in Peers, ArriveFrom(fd, peer) PROVE SocketsInv'
  <2>1. NamesItsSender'
    BY <1>2 DEF ArriveFrom, SocketsInv, NamesItsSender, data
  <2>2. Append(host[fd].inbox, peer) \in Seq(Peers)
    BY <1>1
  <2>3. Kernel(fd, [host[fd] EXCEPT !.inbox = Append(host[fd].inbox, peer)])
    BY <1>2 DEF ArriveFrom
  <2> QED BY <1>2, <2>1, <2>2, <2>3, InboxChanges DEF ArriveFrom
<1>3. CASE Recv(fd)
  <2> DEFINE from == Head(host[fd].inbox)
  <2>1. Tail(host[fd].inbox) \in Seq(Peers)
    BY <1>1, <1>3 DEF Recv
  <2>2. sender' = from /\ name' \in {NoName, Guest(from)} /\ wire' = wire
    <3>1. PICK reported \in {Host(from), Host("none")} : name' = NameReceived(reported)
      BY <1>3 DEF Recv
    <3> QED BY <1>3, <3>1 DEF Recv, NameReceived, ToGuestAddr, Host
  <2>3. NamesItsSender'
    BY <2>2 DEF SocketsInv, NamesItsSender, NoName, Guest, Host
  <2>4. Kernel(fd, [host[fd] EXCEPT !.inbox = Tail(host[fd].inbox)])
    BY <1>3 DEF Recv
  <2> QED BY <1>3, <2>1, <2>3, <2>4, InboxChanges DEF Recv
<1> QED BY <1>2, <1>3

LEMMA SendStep ==
  ASSUME SocketsInv, NEW fd \in SocketFds, Send(fd)
  PROVE  SocketsInv'
<1>1. UNCHANGED <<up, broadcast, host, asked, believes, name, sender>>
  BY DEF Send
<1>2. NamesItsSender'
  <2>1. CASE wire' = <<"everyone", ToHostAddr(Guest("everyone"))>>
    BY <1>1, <2>1 DEF SocketsInv, NamesItsSender, NoName, Guest
  <2>2. CASE name # NoName /\ wire' = <<sender, ToHostAddr(name)>>
    <3>1. name = Guest(sender)
      BY <2>2 DEF SocketsInv, NamesItsSender
    <3>2. sender # "everyone" => ToHostAddr(name) = Host(sender)
      BY <3>1 DEF ToHostAddr, Guest
    <3> QED BY <1>1, <2>2, <3>1, <3>2 DEF NamesItsSender, NoName, Guest
  <2> QED BY <2>1, <2>2 DEF Send
<1> QED BY <1>1, <1>2 DEF SocketsInv, SocketsTypeOK, Agrees

LEMMA StackStep ==
  ASSUME SocketsInv, NetInit \/ NetExit \/ UNCHANGED socketVars
  PROVE  SocketsInv'
<1>1. CASE NetInit \/ UNCHANGED socketVars
  BY <1>1 DEF NetInit, socketVars, data, SocketsInv, SocketsTypeOK, Agrees, NamesItsSender
<1>2. CASE NetExit
  <2>1. SocketsTypeOK' /\ NamesItsSender'
    BY <1>2, ClosedAgrees DEF NetExit, SocketsTypeOK, NamesItsSender, SocketStates
  <2>2. \A fd \in SocketFds : host'[fd] = Closed /\ asked'[fd] = "closed" /\ believes'[fd] = "none"
    BY <1>2 DEF NetExit
  <2> QED BY <2>1, <2>2, ClosedAgrees DEF SocketsInv, Agrees
<1> QED BY <1>1, <1>2

(* The invariant of the socket calls of rv_net.c (lines 208-911 and        *)
(* 1139-1214), whatever the sockets, peers and networks.                   *)
THEOREM SocketsInvariant == SocketsSpec => []SocketsInv
<1>1. SocketsInv /\ [SocketsNext]_socketVars => SocketsInv'
  <2> SUFFICES ASSUME SocketsInv, [SocketsNext]_socketVars PROVE SocketsInv'
    OBVIOUS
  <2>1. ASSUME NEW fd \in SocketFds, NEW mode \in Modes, Socket(fd, mode) \/ Ioctl(fd, mode) PROVE SocketsInv'
    BY <2>1, SocketStep, ModeChanges DEF Ioctl
  <2>2. ASSUME NEW fd \in SocketFds, NEW mode \in Modes, Fcntl(fd, Guest(mode)) PROVE SocketsInv'
    BY <2>2, FcntlStep
  <2>3. ASSUME NEW fd \in SocketFds, Fcntl(fd, GetFl(fd)) PROVE SocketsInv'
    BY <2>3, FcntlStep
  <2>4. ASSUME NEW fd \in SocketFds, Close(fd) \/ Settle(fd) \/ GetError(fd) \/ Send(fd) PROVE SocketsInv'
    BY <2>4, CloseStep, SettleStep, GetErrorStep, SendStep
  <2>5. ASSUME NEW fd \in SocketFds, Recv(fd) \/ \E peer \in Peers : ArriveFrom(fd, peer) PROVE SocketsInv'
    BY <2>5, DatagramStep
  <2>6. ASSUME NEW fd \in SocketFds, NEW peer \in Peers, Connect(fd, peer) PROVE SocketsInv'
    BY <2>6, ConnectStep
  <2>7. CASE NetInit \/ NetExit \/ UNCHANGED socketVars
    BY <2>7, StackStep
  <2> QED BY <2>1, <2>2, <2>3, <2>4, <2>5, <2>6, <2>7 DEF SocketsNext
<1> QED BY <1>1, SocketsInitInv, PTL DEF SocketsSpec

(* The name beside a datagram is its sender's or none, and an answer to it *)
(* goes there.                                                             *)
THEOREM SendersNamed == SocketsSpec => []NamesItsSender
<1>1. SocketsInv => NamesItsSender
  BY DEF SocketsInv
<1> QED BY <1>1, SocketsInvariant, PTL

(* A socket is in the mode asked for last, written back flags included. *)
THEOREM ModesKept == SocketsSpec => []ModeAsAsked
<1>1. SocketsInv => ModeAsAsked
  BY DEF SocketsInv, Agrees, ModeAsAsked
<1> QED BY <1>1, SocketsInvariant, PTL

(* Whatever number it fails with, but for newlib's ENETDOWN, a connection  *)
(* is in the state that errno and SO_ERROR told.                           *)
THEOREM ConnectionsTold == SocketsSpec => []ConnectsAsSeen
<1>1. SocketsInv => ConnectsAsSeen
  BY DEF SocketsInv, Agrees, ConnectsAsSeen
<1> QED BY <1>1, SocketsInvariant, PTL
=============================================================================
