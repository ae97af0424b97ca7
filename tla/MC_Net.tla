------------------------------- MODULE MC_Net -------------------------------
(* Waiting for sockets and using them: two parts of rv_net.c, each on its  *)
(* own; part says which one a behaviour is about, the other one rests.     *)
EXTENDS NetPoll, NetSockets

VARIABLE part

SomeTimeouts == {-1, 0, 3, 13}

PartsInit == part \in {"poll", "sockets"} /\ Init /\ SocketsInit

PollPart(A)    == part = "poll" /\ A /\ UNCHANGED <<part, socketVars>>
SocketsPart(A) == part = "sockets" /\ A /\ UNCHANGED <<part, vars>>

NetVars == <<part, vars, socketVars>>

(* The port runs and time passes; nothing has to arrive and nobody has to *)
(* wait.                                                                   *)
NetSpec ==
  /\ PartsInit /\ [][PollPart(Next) \/ SocketsPart(SocketsNext)]_NetVars
  /\ WF_NetVars(PollPart(Code)) /\ WF_NetVars(PollPart(Tick))
=============================================================================
