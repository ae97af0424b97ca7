----------------------------- MODULE NetSockets -----------------------------
(* The engine's sockets over those of libnx: rv_net.c without its waiting, *)
(* which is NetPoll's, and without names and servers.                      *)
(*                                                                         *)
(* The engine was built for bionic, whose numbers differ from libnx's, so  *)
(* every call converts what it is given and what it returns.  A flag or an *)
(* address is here the pair of the side it belongs to and of what it       *)
(* stands for; one passed on as it is has the wrong side and misleads its  *)
(* reader.  Errors are the plain numbers, which mean something on either   *)
(* side.                                                                   *)
EXTENDS Naturals, Sequences, FiniteSets

CONSTANTS
  SocketFds,   \* the numbers of sockets
  Peers,
  Networks,    \* those the console may be on when it starts
  MaxInbox,    \* bound: datagrams waiting on a socket
  Failures     \* the errors of the host with which a connection fails

EINPROGRESS    == 119   \* newlib's numbers
ENETDOWN       == 115
LX_EINPROGRESS == 115   \* bionic's

ASSUME FailuresAssumption == Failures \subseteq Nat \ {0, EINPROGRESS}

VARIABLES
  up,        \* s_socketsUp
  broadcast, \* g_subnetBroadcast: the network it is of, or "none"
  host,      \* [fd -> its socket in the kernel]
  asked,     \* [fd -> the mode the engine last asked for]
  believes,  \* [fd -> what the engine has been told of its connection]
  name,      \* the msg_name the engine receives into
  sender,    \* whose datagram it received last
  wire       \* the last datagram sent: whom it was for, where it went

data == <<name, sender, wire>>
socketVars == <<up, broadcast, host, asked, believes, data>>

Guest(n) == <<"bionic", n>>
Host(n)  == <<"libnx", n>>

(* error is what SO_ERROR would tell; failure remembers why a connection   *)
(* failed, which nobody can read.                                          *)
Closed == [mode |-> "closed", state |-> "none", error |-> 0, failure |-> 0,
           peer |-> "none", inbox |-> <<>>]
Open(fd) == host[fd].mode # "closed"
NoName == Guest("none")

SocketsInit ==
  /\ up = FALSE /\ broadcast = "none"
  /\ host = [fd \in SocketFds |-> Closed]
  /\ asked = [fd \in SocketFds |-> "closed"]
  /\ believes = [fd \in SocketFds |-> "none"]
  /\ name = NoName /\ sender = "none" /\ wire = <<"none", Host("none")>>

(* rv_net_init: BSD sockets with a tuned or the default configuration;     *)
(* nifm gives the broadcast address of the network, if it is on one.       *)
NetInit ==
  /\ ~up /\ up' = TRUE
  /\ broadcast' \in Networks \cup {"none"}
  /\ UNCHANGED <<host, asked, believes, data>>

(* rv_net_exit, at the end of the process *)
NetExit ==
  /\ up /\ up' = FALSE /\ broadcast' = "none"
  /\ host' = [fd \in SocketFds |-> Closed]
  /\ asked' = [fd \in SocketFds |-> "closed"]
  /\ believes' = [fd \in SocketFds |-> "none"]
  /\ name' = NoName /\ sender' = "none" /\ wire' = <<"none", Host("none")>>

-----------------------------------------------------------------------------
(* Sockets and their modes. *)

Modes == {"blocking", "nonblocking"}

Kernel(fd, socket) == host' = [host EXCEPT ![fd] = socket]
Asks(fd, mode)     == asked' = [asked EXCEPT ![fd] = mode]
Told(fd, what)     == believes' = [believes EXCEPT ![fd] = what]

(* rvn_socket; SOCK_NONBLOCK comes with the type and is applied after it.  *)
Socket(fd, mode) ==
  /\ up /\ ~Open(fd)
  /\ Kernel(fd, [Closed EXCEPT !.mode = mode])
  /\ Asks(fd, mode) /\ Told(fd, "none")
  /\ UNCHANGED <<up, broadcast, data>>

(* rvn_close_hook: the number is free for another socket. *)
Close(fd) ==
  /\ Open(fd)
  /\ Kernel(fd, Closed)
  /\ Asks(fd, "closed") /\ Told(fd, "none")
  /\ UNCHANGED <<up, broadcast, data>>

(* Mutant: F_GETFL returns the host's bits. *)
GetFl_host(fd) == Host(host[fd].mode)

(* rvn_fcntl: F_GETFL gives bionic's bit and F_SETFL takes it.             *)
GetFl(fd)     == Guest(host[fd].mode)
ToMode(flags) == IF flags = Guest("nonblocking") THEN "nonblocking" ELSE "blocking"

(* ENet reads the flags, changes O_NONBLOCK or nothing and writes them.    *)
Fcntl(fd, flags) ==
  /\ Open(fd)
  /\ Kernel(fd, [host[fd] EXCEPT !.mode = ToMode(flags)])
  /\ Asks(fd, IF flags = GetFl(fd) THEN asked[fd] ELSE flags[2])
  /\ UNCHANGED <<up, broadcast, believes, data>>

(* rvn_ioctl, FIONBIO *)
Ioctl(fd, mode) ==
  /\ Open(fd)
  /\ Kernel(fd, [host[fd] EXCEPT !.mode = mode])
  /\ Asks(fd, mode)
  /\ UNCHANGED <<up, broadcast, believes, data>>

-----------------------------------------------------------------------------
(* Connections: the engine reads errno, and later SO_ERROR. *)

(* Mutant: errors are passed on. *)
TranslateErrno_not(e) == e

(* newlib's numbers to bionic's, where the two differ; any other is passed *)
(* on as it is.                                                            *)
TranslateErrno(e) ==
  CASE e = EINPROGRESS -> LX_EINPROGRESS
    [] e = 120 -> 114   \* EALREADY
    [] e = 108 -> 88    \* ENOTSOCK
    [] e = 112 -> 98    \* EADDRINUSE
    [] e = 116 -> 110   \* ETIMEDOUT
    [] e = 118 -> 113   \* EHOSTUNREACH
    [] e = 114 -> 101   \* ENETUNREACH
    [] e = 122 -> 90    \* EMSGSIZE
    [] OTHER   -> e

(* The engine, of errno (0: the call succeeded) and of SO_ERROR. *)
Reads(e) ==
  CASE e = 0              -> "connected"
    [] e = LX_EINPROGRESS -> "pending"
    [] OTHER              -> "failed"

(* What the kernel makes of an attempt, in each mode. *)
Attempts(mode) ==
  {[state |-> "connected", error |-> 0]}
    \cup {[state |-> "failed", error |-> e] : e \in Failures}
    \cup IF mode = "nonblocking" THEN {[state |-> "pending", error |-> EINPROGRESS]} ELSE {}

Fails(socket, e) == [socket EXCEPT !.state = "failed", !.failure = e, !.peer = "none"]

(* rvn_connect *)
Connect(fd, peer) ==
  /\ Open(fd) /\ host[fd].state = "none"
  /\ \E a \in Attempts(host[fd].mode) :
       /\ Kernel(fd, IF a.state = "failed" THEN Fails(host[fd], a.error)
                     ELSE [host[fd] EXCEPT !.state = a.state, !.peer = peer])
       /\ Told(fd, Reads(IF a.error = 0 THEN 0 ELSE TranslateErrno(a.error)))
  /\ UNCHANGED <<up, broadcast, asked, data>>

(* The kernel hears from the peer, or does not. *)
Settle(fd) ==
  /\ host[fd].state = "pending"
  /\ \/ Kernel(fd, [host[fd] EXCEPT !.state = "connected"])
     \/ \E e \in Failures : Kernel(fd, [Fails(host[fd], e) EXCEPT !.error = e])
  /\ UNCHANGED <<up, broadcast, asked, believes, data>>

(* rvn_getsockopt, SO_ERROR: 0 stays 0, an error is translated. *)
SoError(error) == IF error = 0 THEN 0 ELSE TranslateErrno(error)

(* Once poll says that the socket can be written.  The kernel forgets the  *)
(* error it has told.                                                      *)
GetError(fd) ==
  /\ Open(fd) /\ believes[fd] = "pending" /\ host[fd].state # "pending"
  /\ Kernel(fd, [host[fd] EXCEPT !.error = 0])
  /\ Told(fd, Reads(SoError(host[fd].error)))
  /\ UNCHANGED <<up, broadcast, asked, data>>

-----------------------------------------------------------------------------
(* Datagrams. *)

ArriveFrom(fd, peer) ==
  /\ Open(fd) /\ Len(host[fd].inbox) < MaxInbox
  /\ host[fd].peer \in {"none", peer}
  /\ Kernel(fd, [host[fd] EXCEPT !.inbox = Append(@, peer)])
  /\ UNCHANGED <<up, broadcast, asked, believes, data>>

ToGuestAddr(addr) == Guest(addr[2])

(* Mutant: without an address the old one stays. *)
NameReceived_kept(reported) == IF reported = Host("none") THEN name ELSE ToGuestAddr(reported)

(* What rvn_recvmsg leaves in msg_name.  For a connected socket the kernel *)
(* may report no address.                                                  *)
NameReceived(reported) == IF reported = Host("none") THEN NoName ELSE ToGuestAddr(reported)

Recv(fd) ==
  LET from == Head(host[fd].inbox)
      silent == IF host[fd].peer = "none" THEN {} ELSE {Host("none")}
  IN
  /\ Open(fd) /\ host[fd].inbox # <<>>
  /\ \E reported \in {Host(from)} \cup silent : name' = NameReceived(reported)
  /\ sender' = from
  /\ Kernel(fd, [host[fd] EXCEPT !.inbox = Tail(@)])
  /\ UNCHANGED <<up, broadcast, asked, believes, wire>>

(* ToHostAddr: the address for everyone goes out as the network's own.     *)
ToHostAddr(addr) ==
  IF addr = Guest("everyone") /\ broadcast # "none" THEN Host(broadcast) ELSE Host(addr[2])

(* rvn_sendmsg: to everyone, or an answer to the last datagram.            *)
Send(fd) ==
  /\ Open(fd) /\ host[fd].peer = "none"
  /\ \/ wire' = <<"everyone", ToHostAddr(Guest("everyone"))>>
     \/ name # NoName /\ wire' = <<sender, ToHostAddr(name)>>
  /\ UNCHANGED <<up, broadcast, host, asked, believes, name, sender>>

-----------------------------------------------------------------------------
SocketsNext ==
  \/ NetInit \/ NetExit
  \/ \E fd \in SocketFds :
       \/ \E mode \in Modes : Socket(fd, mode) \/ Ioctl(fd, mode) \/ Fcntl(fd, Guest(mode))
       \/ Close(fd) \/ Settle(fd) \/ GetError(fd) \/ Recv(fd) \/ Send(fd)
       \/ Open(fd) /\ Fcntl(fd, GetFl(fd))
       \/ \E peer \in Peers : Connect(fd, peer) \/ ArriveFrom(fd, peer)

SocketsSpec == SocketsInit /\ [][SocketsNext]_socketVars

-----------------------------------------------------------------------------
(* Properties. *)

(* The name the engine finds beside a datagram is that of its sender or    *)
(* none, never that of an earlier one; and what it sends back to that name *)
(* goes there (rvn_recvmsg, rvn_sendmsg and the conversion of addresses).  *)
NamesItsSender ==
  /\ name \in {NoName, Guest(sender)}
  /\ wire[1] \notin {"none", "everyone"} => wire[2] = Host(wire[1])

(* A socket is in the mode the engine asked for last, by socket, fcntl or  *)
(* ioctl, also after the engine wrote back the flags it had read.          *)
ModeAsAsked == \A fd \in SocketFds : host[fd].mode = asked[fd]

(* What errno and SO_ERROR told the engine of a connection is so: one that *)
(* is under way is not taken for a failure, nor a failure for a success,   *)
(* of whatever number, translated or passed on.  One failure is excepted:  *)
(* newlib's ENETDOWN is passed on (rv_net.c, lines 263-265), and its       *)
(* number is bionic's EINPROGRESS, so the engine takes a connection that   *)
(* failed with it for one under way, and may find no error there later.    *)
ConnectsAsSeen ==
  \A fd \in SocketFds : host[fd].failure # ENETDOWN =>
    /\ believes[fd] = "pending" => host[fd].state # "none"
    /\ believes[fd] \in {"connected", "failed"} => host[fd].state = believes[fd]
=============================================================================
