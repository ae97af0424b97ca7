----------------------------- MODULE MC_Threads -----------------------------
(* The two halves of what the port gives the engine in place of bionic's   *)
(* threads: objects to wait on, and pthread_once with the keys.  They      *)
(* share no state; part says which one a behaviour is about.               *)
EXTENDS Pthreads, ThreadKeys

VARIABLE part

ThreadsInit == part \in {"objects", "keys"} /\ Init /\ KeysInit

ObjectsPart(A) == part = "objects" /\ A /\ UNCHANGED <<part, keyVars>>
KeysPart(A)    == part = "keys" /\ A /\ UNCHANGED <<part, vars>>

all == <<part, vars, keyVars>>

(* The fairness is that of Pthreads. *)
ThreadsSpec ==
  /\ ThreadsInit /\ [][ObjectsPart(Next) \/ KeysPart(KeysNext)]_all
  /\ \A t \in Threads :
       /\ WF_all(ObjectsPart(Resolve(t))) /\ WF_all(ObjectsPart(Act(t)))
       /\ WF_all(ObjectsPart(CapPasses(t))) /\ SF_all(ObjectsPart(Reenter(t)))
=============================================================================
