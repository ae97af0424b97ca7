----------------------- MODULE PlayerRegistry_proofs -----------------------
(***************************************************************************)
(* Proofs about PlayerRegistry, for any number of clients, addresses and   *)
(* slots.  The safety properties are not inductive: whether freeing an     *)
(* address is safe depends on who else can reach it, so the invariant says *)
(* for every address exactly which one of the table, a creating thread, a  *)
(* destroying thread, or nobody has it, and which slots a lock holder      *)
(* looks at.                                                               *)
(***************************************************************************)
EXTENDS PlayerRegistry, TLAPS

(* A thread that has an address of its own: not yet, or no longer, in the  *)
(* table ("find", "put", "free"), or in it but in nobody's handles.        *)
Owns(t) == pc[t] \in {"find", "put", "free"}
Registers(t) == pc[t] \in {"done", "unregister"}

(* The table holds live players, each once, in slots below g_player_count. *)
TableInv ==
  /\ \A i \in Slot : slots[i] # Null => slots[i] \in alive /\ i < count
  /\ \A i, j \in Slot : slots[i] = slots[j] /\ i # j => slots[i] = Null

(* Nobody else has the address a thread is busy with. *)
OwnerInv ==
  /\ \A t \in Clients : pc[t] # "idle" => obj[t] \in alive /\ obj[t] \notin held \cup abandoned
  /\ \A t \in Clients : Owns(t) => \A i \in Slot : slots[i] # obj[t]
  /\ \A t \in Clients : Registers(t) => \E i \in Slot : slots[i] = obj[t]
  /\ \A t, u \in Clients : pc[t] # "idle" /\ pc[u] # "idle" /\ obj[t] = obj[u] => t = u

(* What clients hold or have abandoned is in the table. *)
HandleInv ==
  /\ \A p \in held \cup abandoned : \E i \in Slot : slots[i] = p
  /\ held \cap abandoned = {}

(* A player dry for too long has been abandoned and holds nothing. *)
DryInv ==
  /\ \A i \in Slot : slots[i] # Null /\ drained[slots[i]] > SPENT =>
       slots[i] \in abandoned /\ pending[slots[i]] = 0
  /\ \A t \in Clients : pc[t] \in {"find", "put"} => drained[obj[t]] = 0

(* The lock, and what its owner may rely on. *)
LockInv ==
  /\ \A t \in Clients : pc[t] = "put" <=> lock = t
  /\ \A t \in Clients : pc[t] = "put" /\ pick[t] # NoSlot =>
       /\ pick[t] < count
       /\ slots[pick[t]] # Null => drained[slots[pick[t]]] > SPENT
  /\ mixing # Null => lock = Mixer /\ at < count /\ slots[at] = mixing

LeakInv ==
  \A p \in alive : (\E i \in Slot : slots[i] = p) \/ \E t \in Clients : Owns(t) /\ obj[t] = p

IInv == TypeOK /\ TableInv /\ OwnerInv /\ HandleInv /\ DryInv /\ LockInv /\ LeakInv

-----------------------------------------------------------------------------
USE NullAssumption, OwnersAssumption, NumbersAssumption, FeedsAssumption DEF Slot, NoSlot, Used

(* Every step keeps the invariant, provided clients keep the players they  *)
(* use from running dry.                                                   *)
LEMMA InvariantStep == ASSUME Feeds, IInv, [Next]_vars PROVE IInv'
<1> USE DEF IInv
<1>1. ASSUME NEW t \in Clients, Allocate(t) PROVE IInv'
  <2> USE <1>1 DEF Allocate, table, walk, handles
  <2>1. TypeOK' /\ TableInv'
    BY DEF TypeOK, TableInv
  <2>2. OwnerInv'
    BY DEF TypeOK, TableInv, OwnerInv, HandleInv, Owns, Registers
  <2>3. HandleInv' /\ LockInv'
    BY DEF TypeOK, TableInv, HandleInv, LockInv
  <2>4. DryInv'
    BY DEF TypeOK, TableInv, OwnerInv, DryInv
  <2>5. LeakInv'
    <3>1. PICK p \in Objects \ alive :
            alive' = alive \cup {p} /\ obj' = [obj EXCEPT ![t] = p]
      OBVIOUS
    <3>2. \A u \in Clients : Owns(u) => Owns(u)' /\ obj'[u] = obj[u]
      BY DEF Owns, TypeOK
    <3>3. Owns(t)' /\ obj'[t] = p
      BY <3>1 DEF Owns, TypeOK
    <3> QED BY <3>1, <3>2, <3>3 DEF LeakInv
  <2> QED BY <2>1, <2>2, <2>3, <2>4, <2>5
<1>2. ASSUME NEW t \in Clients, FindSlot(t) PROVE IInv'
  <2> USE <1>2 DEF FindSlot, CanGrow, fields, walk, handles
  <2>1. count' \in {count, count + 1} /\ count' \in 0 .. MAX_PLAYERS
    BY DEF TypeOK
  <2>2. \E i \in 0 .. MAX_PLAYERS : pick' = [pick EXCEPT ![t] = i]
    BY DEF TypeOK
  <2>3. TypeOK'
    BY <2>1, <2>2 DEF TypeOK
  <2>4. TableInv' /\ HandleInv' /\ DryInv'
    BY <2>1 DEF TypeOK, TableInv, HandleInv, DryInv
  <2>5. OwnerInv'
    BY DEF TypeOK, OwnerInv, Owns, Registers
  <2>6. LeakInv'
    BY DEF TypeOK, LeakInv, Owns
  <2>7. LockInv'
    BY DEF TypeOK, TableInv, LockInv, FreeSlots, SpentSlots, Spent, IsFirst
  <2> QED BY <2>3, <2>4, <2>5, <2>6, <2>7
<1>3. ASSUME NEW t \in Clients, PutSlot(t) PROVE IInv'
  <2> USE <1>3 DEF PutSlot, fields, walk
  <2> DEFINE victim == slots[pick[t]]
  <2>1. pick[t] \in Slot /\ pick[t] < count /\ lock = t
    BY DEF TypeOK, LockInv
  <2>2. \A i \in Slot : slots'[i] = IF i = pick[t] THEN obj[t] ELSE slots[i]
    BY <2>1 DEF TypeOK
  <2>3. victim # Null => victim \in abandoned /\ victim \notin held
    BY <2>1 DEF LockInv, DryInv, HandleInv
  <2>4. \A u \in Clients : pc[u] # "idle" => obj[u] \in Objects /\ obj[u] # victim
    BY <2>3, NullAssumption DEF OwnerInv, TypeOK
  <2>5. TypeOK'
    BY DEF TypeOK
  <2>6. \A i \in Slot : i # pick[t] /\ slots[i] # Null => slots[i] # victim
    BY <2>1 DEF TableInv
  <2>7. TableInv'
    BY <2>1, <2>2, <2>4, <2>6 DEF TypeOK, TableInv, OwnerInv, Owns
  <2>8. OwnerInv'
    <3>1. \A u \in Clients : (pc'[u] # "idle") = (pc[u] # "idle") /\ obj'[u] = obj[u]
      BY DEF TypeOK
    <3>2. \A u \in Clients : pc'[u] # "idle" =>
            obj'[u] \in alive' /\ obj'[u] \notin held' \cup abandoned'
      BY <2>4, <3>1 DEF OwnerInv
    <3>3. \A u \in Clients : Owns(u)' => \A i \in Slot : slots'[i] # obj'[u]
      <4> SUFFICES ASSUME NEW u \in Clients, Owns(u)', NEW i \in Slot
                   PROVE  slots'[i] # obj'[u]
        OBVIOUS
      <4>1. u # t /\ Owns(u)
        BY DEF TypeOK, Owns
      <4> QED BY <2>2, <4>1, <3>1 DEF OwnerInv, Owns
    <3>4. \A u \in Clients : Registers(u)' => \E i \in Slot : slots'[i] = obj'[u]
      <4> SUFFICES ASSUME NEW u \in Clients, Registers(u)'
                   PROVE  \E i \in Slot : slots'[i] = obj'[u]
        OBVIOUS
      <4>1. CASE u = t
        BY <2>1, <2>2, <4>1, <3>1
      <4>2. CASE u # t
        <5>1. Registers(u)
          BY <4>2 DEF TypeOK, Registers
        <5>2. PICK i \in Slot : slots[i] = obj[u]
          BY <5>1 DEF OwnerInv
        <5> QED BY <2>2, <2>4, <3>1, <5>1, <5>2 DEF Registers
      <4> QED BY <4>1, <4>2
    <3> QED BY <3>1, <3>2, <3>3, <3>4 DEF OwnerInv
  <2>9. HandleInv'
    <3> SUFFICES ASSUME NEW p \in held \cup abandoned', p # victim
                 PROVE  \E i \in Slot : slots'[i] = p
      BY <2>3, NullAssumption DEF HandleInv, TypeOK
    <3>1. PICK i \in Slot : slots[i] = p
      BY DEF HandleInv
    <3> QED BY <2>2, <3>1
  <2>10. DryInv'
    <3>1. ~(drained[obj[t]] > SPENT)
      BY DEF DryInv
    <3>2. \A u \in Clients : pc'[u] \in {"find", "put"} => pc[u] = pc'[u]
      BY DEF TypeOK
    <3> QED BY <2>2, <2>6, <3>1, <3>2 DEF DryInv
  <2>11. LockInv'
    BY <2>1 DEF TypeOK, LockInv
  <2>12. LeakInv'
    BY <2>1, <2>2 DEF LeakInv, TypeOK, Owns
  <2> QED BY <2>5, <2>7, <2>8, <2>9, <2>10, <2>11, <2>12
<1>4. ASSUME NEW t \in Clients, NoSlotLeft(t) PROVE IInv'
  <2> USE <1>4 DEF NoSlotLeft, table, fields, walk, handles
  <2>1. TypeOK' /\ TableInv' /\ HandleInv' /\ DryInv'
    BY DEF TypeOK, TableInv, HandleInv, DryInv
  <2>2. OwnerInv' /\ LeakInv'
    BY DEF TypeOK, OwnerInv, LeakInv, Owns, Registers
  <2>3. LockInv'
    BY DEF TypeOK, LockInv
  <2> QED BY <2>1, <2>2, <2>3
<1>5. ASSUME NEW t \in Clients, CreateReturns(t) PROVE IInv'
  <2> USE <1>5 DEF CreateReturns, table, fields, walk
  <2>1. obj[t] \in Objects /\ obj[t] \in alive /\ \E i \in Slot : slots[i] = obj[t]
    BY DEF TypeOK, OwnerInv, Registers
  <2>2. TypeOK' /\ TableInv' /\ DryInv' /\ LockInv'
    BY <2>1 DEF TypeOK, TableInv, DryInv, LockInv
  <2>3. OwnerInv'
    BY <2>1 DEF TypeOK, OwnerInv, Owns, Registers
  <2>4. HandleInv'
    BY <2>1 DEF OwnerInv, HandleInv
  <2>5. LeakInv'
    BY DEF TypeOK, LeakInv, Owns
  <2> QED BY <2>2, <2>3, <2>4, <2>5
<1>6. ASSUME NEW t \in Clients, NEW p \in Objects, DestroyCalled(t, p) PROVE IInv'
  <2> USE <1>6 DEF DestroyCalled, table, fields, walk
  <2>1. p \in alive /\ \E i \in Slot : slots[i] = p
    BY NullAssumption DEF TypeOK, TableInv, HandleInv
  <2>2. TypeOK' /\ TableInv' /\ DryInv' /\ LockInv'
    BY DEF TypeOK, TableInv, DryInv, LockInv
  <2>3. OwnerInv'
    BY <2>1 DEF TypeOK, OwnerInv, HandleInv, Owns, Registers
  <2>4. HandleInv' /\ LeakInv'
    BY DEF TypeOK, HandleInv, LeakInv, Owns
  <2> QED BY <2>2, <2>3, <2>4
<1>7. ASSUME NEW t \in Clients, Unregister(t) PROVE IInv'
  <2> USE <1>7 DEF Unregister, fields, walk, handles
  <2>1. \A i \in Slot : slots'[i] = IF slots[i] = obj[t] THEN Null ELSE slots[i]
    BY DEF TypeOK, TableInv
  <2>2. TypeOK' /\ TableInv'
    BY <2>1 DEF TypeOK, TableInv
  <2>3. OwnerInv'
    BY <2>1, NullAssumption DEF TypeOK, OwnerInv, Owns, Registers
  <2>4. HandleInv' /\ DryInv' /\ LockInv'
    BY <2>1 DEF TypeOK, OwnerInv, HandleInv, DryInv, LockInv
  <2>5. LeakInv'
    <3> SUFFICES ASSUME NEW p \in alive
                 PROVE  \/ \E i \in Slot : slots'[i] = p
                        \/ \E u \in Clients : Owns(u)' /\ obj'[u] = p
      BY DEF LeakInv
    <3>1. CASE p = obj[t]
      BY <3>1 DEF Owns, TypeOK
    <3>2. CASE p # obj[t]
      BY <2>1, <3>2 DEF LeakInv, Owns, TypeOK
    <3> QED BY <3>1, <3>2
  <2> QED BY <2>2, <2>3, <2>4, <2>5
<1>8. ASSUME NEW t \in Clients, Free(t) PROVE IInv'
  <2> USE <1>8 DEF Free, table, fields, walk, handles
  <2>1. TypeOK' /\ HandleInv' /\ DryInv' /\ LockInv'
    BY DEF TypeOK, HandleInv, DryInv, LockInv
  <2>2. TableInv'
    BY DEF TableInv, OwnerInv, Owns
  <2>3. OwnerInv'
    BY DEF TypeOK, OwnerInv, Owns, Registers
  <2>4. LeakInv'
    BY DEF TypeOK, LeakInv, Owns
  <2> QED BY <2>1, <2>2, <2>3, <2>4
<1>9. ASSUME NEW p \in Objects, Enqueue(p) \/ \E on \in BOOLEAN : SetPlayState(p, on)
      PROVE  IInv'
  <2> USE <1>9 DEF Enqueue, SetPlayState, table, locals, walk, handles
  <2>1. TypeOK'
    <3>1. CASE Enqueue(p)
      <4>1. pending'[p] \in 0 .. MaxPending
        BY <3>1 DEF TypeOK
      <4> QED BY <3>1, <4>1 DEF TypeOK
    <3>2. CASE \E on \in BOOLEAN : SetPlayState(p, on)
      BY <3>2 DEF TypeOK
    <3> QED BY <3>1, <3>2
  <2>2. TableInv' /\ OwnerInv' /\ HandleInv' /\ LockInv' /\ LeakInv'
    BY DEF TableInv, OwnerInv, HandleInv, LockInv, LeakInv, Owns, Registers
  <2>3. DryInv'
    BY DEF TypeOK, HandleInv, DryInv
  <2> QED BY <2>1, <2>2, <2>3
<1>10. ASSUME NEW p \in Objects, Abandon(p) PROVE IInv'
  <2> USE <1>10 DEF Abandon, table, fields, locals, walk
  <2>1. TypeOK' /\ TableInv' /\ LockInv' /\ LeakInv'
    BY DEF TypeOK, TableInv, LockInv, LeakInv, Owns
  <2>2. OwnerInv' /\ HandleInv' /\ DryInv'
    BY DEF OwnerInv, HandleInv, DryInv, Owns, Registers
  <2> QED BY <2>1, <2>2
<1>11. CASE MixLock
  <2> USE <1>11 DEF MixLock, table, fields, locals, handles
  <2>1. TypeOK' /\ LockInv'
    BY DEF TypeOK, LockInv
  <2>2. TableInv' /\ OwnerInv' /\ HandleInv' /\ DryInv' /\ LeakInv'
    BY DEF TableInv, OwnerInv, HandleInv, DryInv, LeakInv, Owns, Registers
  <2> QED BY <2>1, <2>2
<1>12. CASE MixTake
  <2> USE <1>12 DEF MixTake, table, fields, locals, handles
  <2>1. at \in Slot /\ slots[at] \in Objects \cup {Null} /\ at' \in 0 .. MAX_PLAYERS
    BY DEF TypeOK
  <2>2. TypeOK' /\ LockInv'
    BY <2>1 DEF TypeOK, LockInv
  <2>3. TableInv' /\ OwnerInv' /\ HandleInv' /\ DryInv' /\ LeakInv'
    BY DEF TableInv, OwnerInv, HandleInv, DryInv, LeakInv, Owns, Registers
  <2> QED BY <2>2, <2>3
<1>13. CASE MixUnlock
  <2> USE <1>13 DEF MixUnlock, table, fields, locals, walk, handles
  <2>1. TypeOK' /\ LockInv'
    BY DEF TypeOK, LockInv
  <2>2. TableInv' /\ OwnerInv' /\ HandleInv' /\ DryInv' /\ LeakInv'
    BY DEF TableInv, OwnerInv, HandleInv, DryInv, LeakInv, Owns, Registers
  <2> QED BY <2>1, <2>2
<1>14. CASE MixPlayer
  <2> USE <1>14 DEF MixPlayer, table, locals, handles
  <2>1. lock = Mixer /\ at \in Slot /\ at < count /\ slots[at] = mixing /\ mixing \in Objects
    BY DEF TypeOK, LockInv
  <2>2. \A p \in Objects \ {mixing} : drained'[p] = drained[p] /\ pending'[p] = pending[p]
    BY DEF TypeOK
  <2>3. drained'[mixing] > SPENT => mixing \in abandoned /\ pending'[mixing] = 0
    BY <2>1 DEF TypeOK, DryInv
  <2>4. TypeOK'
    <3>1. drained' \in [Objects -> 0 .. SPENT + 1]
      BY <2>1 DEF TypeOK
    <3>2. pending' \in [Objects -> 0 .. MaxPending]
      BY <2>1 DEF TypeOK
    <3> QED BY <2>1, <3>1, <3>2 DEF TypeOK
  <2>5. TableInv' /\ OwnerInv' /\ HandleInv' /\ LeakInv'
    BY DEF TableInv, OwnerInv, HandleInv, LeakInv, Owns, Registers
  <2>6. DryInv'
    BY <2>1, <2>2, <2>3 DEF TypeOK, DryInv, OwnerInv, Owns
  <2>7. LockInv'
    BY <2>1 DEF LockInv
  <2> QED BY <2>4, <2>5, <2>6, <2>7
<1>15. CASE UNCHANGED vars
  BY <1>15 DEF vars, table, fields, locals, walk, handles, TypeOK, TableInv, OwnerInv,
               Owns, Registers, HandleInv, DryInv, LockInv, LeakInv
<1> QED
  BY <1>1, <1>2, <1>3, <1>4, <1>5, <1>6, <1>7, <1>8, <1>9, <1>10, <1>11, <1>12, <1>13, <1>14,
     <1>15
  DEF Next, Create, Destroy, Use, Mix

(* Nobody owns anything at the start. *)
LEMMA InvariantInit == Init => IInv
  BY DEF Init, IInv, TypeOK, TableInv, OwnerInv, Owns, Registers, HandleInv, DryInv,
         LockInv, LeakInv

(* As long as clients keep the players they use fed, who owns which player *)
(* is always as IInv says, so create, reclaim and destroy never collide.   *)
THEOREM Invariant == Feeds => (Spec => []IInv)
<1> SUFFICES ASSUME Feeds PROVE Spec => []IInv
  OBVIOUS
<1>1. IInv /\ [Next]_vars => IInv'
  BY InvariantStep
<1> QED BY <1>1, InvariantInit, PTL DEF Spec

-----------------------------------------------------------------------------
(* Type correctness. *)
THEOREM TypeCorrect == Feeds => (Spec => []TypeOK)
<1>1. IInv => TypeOK
  BY DEF IInv
<1> QED BY <1>1, Invariant, PTL

(* The audio thread touches only players that have not been freed: the one *)
(* it is mixing stays in its slot, because slots change under g_reg_lock.  *)
THEOREM MixerSafe == Feeds => (Spec => []MixerTouchesOnlyLive)
<1>1. IInv => MixerTouchesOnlyLive
  BY DEF IInv, TypeOK, LockInv, TableInv, MixerTouchesOnlyLive
<1> QED BY <1>1, Invariant, PTL

(* A player a client holds is alive and in exactly one slot. *)
THEOREM HeldMixed == Feeds => (Spec => []HeldPlayersAreMixed)
<1>1. IInv => HeldPlayersAreMixed
  <2> SUFFICES ASSUME IInv, NEW p \in held
               PROVE  p \in alive /\ \E i \in Used : slots[i] = p /\ \A j \in Slot \ {i} : slots[j] # p
    BY DEF HeldPlayersAreMixed
  <2>1. PICK i \in Slot : slots[i] = p
    BY DEF IInv, HandleInv
  <2>2. p # Null
    BY NullAssumption DEF IInv, TypeOK
  <2> QED BY <2>1, <2>2 DEF IInv, TypeOK, TableInv
<1> QED BY <1>1, Invariant, PTL

(* Nothing is freed twice, or under somebody who still has it. *)
THEOREM NoDoubleFree == Feeds => (Spec => []FreedOnce)
<1>1. IInv => FreedOnce
  BY DEF IInv, TypeOK, OwnerInv, Owns, FreedOnce, Registered
<1> QED BY <1>1, Invariant, PTL

(* Every allocated player is in the table or about to be, or to be freed. *)
THEOREM Leakless == Feeds => (Spec => []NoLeak)
<1>1. IInv => NoLeak
  BY NullAssumption DEF IInv, TypeOK, LeakInv, Owns, NoLeak, Registered
<1> QED BY <1>1, Invariant, PTL

(* Only a player with nothing left to play is reclaimed. *)
THEOREM ReclaimSafe == Feeds => (Spec => []ReclaimsOnlyFinished)
<1>1. IInv => ReclaimsOnlyFinished
  BY DEF IInv, TypeOK, LockInv, DryInv, ReclaimsOnlyFinished
<1> QED BY <1>1, Invariant, PTL
=============================================================================
