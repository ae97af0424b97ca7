--------------------------- MODULE PlayerRegistry ---------------------------
(***************************************************************************)
(* The table of audio players of source/opensles.c and who owns the memory *)
(* of each: client threads create, use and destroy players, the SDL audio  *)
(* thread walks the table and mixes what it finds, and a create that meets *)
(* a full table takes the slot of a player that has been playing silence   *)
(* for more than SPENT callbacks, freeing it.  g_reg_lock protects the     *)
(* table; enqueueing and SetPlayState take only the player's own lock.     *)
(*                                                                         *)
(* A player is the address calloc gave it, so an address can come back.    *)
(* Of a player's contents the model keeps what the registry looks at or    *)
(* must not lose: playing, drained and how many buffers it still holds     *)
(* (module BufferQueue has the rest).                                      *)
(***************************************************************************)
EXTENDS Integers, FiniteSets

CONSTANTS
  Objects,      \* addresses calloc can return
  Null,         \* the null pointer
  Clients,      \* threads of the game that call the OpenSL functions
  Mixer,        \* the SDL audio thread
  NoOne,        \* owner of a free lock
  MAX_PLAYERS,  \* slots of the table
  SPENT,        \* dry callbacks a playing player survives (40 in the code)
  MaxPending,   \* bound: buffers a player holds at once
  Feeds         \* TRUE: clients never let a player they still use run dry
                \* for more than SPENT callbacks, and stop it before Destroy

ASSUME NullAssumption == Null \notin Objects
ASSUME OwnersAssumption == /\ Mixer \notin Clients /\ NoOne \notin Clients
                           /\ Mixer # NoOne
ASSUME NumbersAssumption == /\ MAX_PLAYERS \in Nat \ {0}
                            /\ SPENT \in Nat /\ MaxPending \in Nat
ASSUME FeedsAssumption == Feeds \in BOOLEAN

VARIABLES
  slots,        \* g_players
  count,        \* g_player_count: slots ever used
  lock,         \* owner of g_reg_lock
  alive,        \* addresses allocated and not freed
  playing, drained, pending,    \* fields of the players
  pc, obj, pick,                \* each client: where it is, its p and slot
  at, mixing,                   \* the audio thread: i, and q while it uses it
  held,         \* players whose object the clients hold and still use
  abandoned     \* one-shots left to play out, never touched again

table == <<slots, count>>
fields == <<playing, drained, pending>>
locals == <<pc, obj, pick>>
walk == <<at, mixing>>
handles == <<held, abandoned>>
vars == <<table, lock, alive, fields, locals, walk, handles>>

Slot == 0 .. MAX_PLAYERS - 1
NoSlot == MAX_PLAYERS
Used == 0 .. count - 1
Registered == {slots[i] : i \in Slot} \ {Null}

(* The first member of a set of slots: the loops take the lowest index. *)
IsFirst(i, S) == i \in S /\ \A j \in S : i <= j

Init ==
  /\ slots = [i \in Slot |-> Null]
  /\ count = 0
  /\ lock = NoOne
  /\ alive = {}
  /\ playing = [p \in Objects |-> FALSE]
  /\ drained = [p \in Objects |-> 0]
  /\ pending = [p \in Objects |-> 0]
  /\ pc = [t \in Clients |-> "idle"]
  /\ obj = [t \in Clients |-> Null]
  /\ pick = [t \in Clients |-> NoSlot]
  /\ at = 0 /\ mixing = Null
  /\ held = {} /\ abandoned = {}

-----------------------------------------------------------------------------
(* eng_CreateAudioPlayer *)

(* calloc and the defaults; out of memory is an error without effect. *)
Allocate(t) ==
  /\ pc[t] = "idle"
  /\ \E p \in Objects \ alive :
       /\ alive' = alive \cup {p}
       /\ obj' = [obj EXCEPT ![t] = p]
       /\ playing' = [playing EXCEPT ![p] = FALSE]
       /\ drained' = [drained EXCEPT ![p] = 0]
       /\ pending' = [pending EXCEPT ![p] = 0]
  /\ pc' = [pc EXCEPT ![t] = "find"]
  /\ UNCHANGED <<table, lock, pick, walk, handles>>

FreeSlots == {i \in Used : slots[i] = Null}

CanGrow == count < MAX_PLAYERS

(* Mutant: any playing player may be reclaimed, dry or not. *)
Spent_playing(p) == playing[p]
Spent(p) == playing[p] /\ drained[p] > SPENT
SpentSlots == {i \in Used : slots[i] # Null /\ Spent(slots[i])}

(* With the lock: a hole in the table, else the next slot never used, else *)
(* the slot of a spent player, else none.                                  *)
FindSlot(t) ==
  /\ pc[t] = "find"
  /\ lock = NoOne
  /\ lock' = t
  /\ \/ \E i \in Slot :
          /\ IsFirst(i, FreeSlots)
          /\ pick' = [pick EXCEPT ![t] = i]
          /\ UNCHANGED count
     \/ /\ FreeSlots = {} /\ CanGrow
        /\ pick' = [pick EXCEPT ![t] = count]
        /\ count' = count + 1
     \/ /\ FreeSlots = {} /\ ~CanGrow
        /\ UNCHANGED count
        /\ \/ \E i \in Slot :
                /\ IsFirst(i, SpentSlots)
                /\ pick' = [pick EXCEPT ![t] = i]
           \/ SpentSlots = {} /\ pick' = [pick EXCEPT ![t] = NoSlot]
  /\ pc' = [pc EXCEPT ![t] = "put"]
  /\ UNCHANGED <<slots, alive, fields, obj, walk, handles>>

(* Mutant: the reclaimed player's slot is reused, its memory not freed. *)
PutSlot_leaks(t) ==
  /\ pc[t] = "put"
  /\ pick[t] # NoSlot
  /\ abandoned' = abandoned \ {slots[pick[t]]}
  /\ slots' = [slots EXCEPT ![pick[t]] = obj[t]]
  /\ lock' = NoOne
  /\ pc' = [pc EXCEPT ![t] = "done"]
  /\ pick' = [pick EXCEPT ![t] = NoSlot]
  /\ UNCHANGED <<count, alive, fields, obj, walk, held>>

(* Still with the lock: free the spent player, if one holds the slot, and  *)
(* register the new one.  Its handle, if any, dangles from now on.         *)
PutSlot(t) ==
  /\ pc[t] = "put"
  /\ pick[t] # NoSlot
  /\ alive' = alive \ {slots[pick[t]]}
  /\ abandoned' = abandoned \ {slots[pick[t]]}
  /\ slots' = [slots EXCEPT ![pick[t]] = obj[t]]
  /\ lock' = NoOne
  /\ pc' = [pc EXCEPT ![t] = "done"]
  /\ pick' = [pick EXCEPT ![t] = NoSlot]
  /\ UNCHANGED <<count, fields, obj, walk, held>>

(* Mutant: a player without a slot is handed out as a success. *)
NoSlotLeft_succeeds(t) ==
  /\ pc[t] = "put"
  /\ pick[t] = NoSlot
  /\ lock' = NoOne
  /\ pc' = [pc EXCEPT ![t] = "done"]
  /\ UNCHANGED <<table, alive, fields, obj, pick, walk, handles>>

(* Every slot is live and none is spent: free the new player and fail. *)
NoSlotLeft(t) ==
  /\ pc[t] = "put"
  /\ pick[t] = NoSlot
  /\ lock' = NoOne
  /\ pc' = [pc EXCEPT ![t] = "free"]
  /\ UNCHANGED <<table, alive, fields, obj, pick, walk, handles>>

CreateReturns(t) ==
  /\ pc[t] = "done"
  /\ held' = held \cup {obj[t]}
  /\ obj' = [obj EXCEPT ![t] = Null]
  /\ pc' = [pc EXCEPT ![t] = "idle"]
  /\ UNCHANGED <<table, lock, alive, fields, pick, walk, abandoned>>

-----------------------------------------------------------------------------
(* player_Destroy *)

DestroyCalled(t, p) ==
  /\ pc[t] = "idle"
  /\ p \in held
  /\ Feeds => ~playing[p]
  /\ held' = held \ {p}
  /\ obj' = [obj EXCEPT ![t] = p]
  /\ pc' = [pc EXCEPT ![t] = "unregister"]
  /\ UNCHANGED <<table, lock, alive, fields, pick, walk, abandoned>>

(* Mutant: the table is searched without g_reg_lock. *)
Unregister_unlocked(t) ==
  /\ pc[t] = "unregister"
  /\ slots' = [i \in Slot |-> IF slots[i] = obj[t] /\ i \in Used THEN Null ELSE slots[i]]
  /\ pc' = [pc EXCEPT ![t] = "free"]
  /\ UNCHANGED <<count, lock, alive, fields, obj, pick, walk, handles>>

(* With the lock: the player leaves every slot that holds it. *)
Unregister(t) ==
  /\ pc[t] = "unregister"
  /\ lock = NoOne
  /\ slots' = [i \in Slot |-> IF slots[i] = obj[t] /\ i \in Used THEN Null ELSE slots[i]]
  /\ pc' = [pc EXCEPT ![t] = "free"]
  /\ UNCHANGED <<count, lock, alive, fields, obj, pick, walk, handles>>

(* free(p), without the lock: the end of Destroy and of a failed create. *)
Free(t) ==
  /\ pc[t] = "free"
  /\ alive' = alive \ {obj[t]}
  /\ obj' = [obj EXCEPT ![t] = Null]
  /\ pc' = [pc EXCEPT ![t] = "idle"]
  /\ UNCHANGED <<table, lock, fields, pick, walk, handles>>

-----------------------------------------------------------------------------
(* What clients do with a player they hold. *)

Enqueue(p) ==
  /\ p \in held
  /\ pending[p] < MaxPending
  /\ pending' = [pending EXCEPT ![p] = @ + 1]
  /\ UNCHANGED <<table, lock, alive, playing, drained, locals, walk, handles>>

SetPlayState(p, on) ==
  /\ p \in held
  /\ playing[p] # on
  /\ playing' = [playing EXCEPT ![p] = on]
  /\ UNCHANGED <<table, lock, alive, drained, pending, locals, walk, handles>>

(* The client forgets a one-shot it has started and never touches it again. *)
Abandon(p) ==
  /\ p \in held
  /\ playing[p]
  /\ held' = held \ {p}
  /\ abandoned' = abandoned \cup {p}
  /\ UNCHANGED <<table, lock, alive, fields, locals, walk>>

-----------------------------------------------------------------------------
(* The audio thread: audio_callback_inner. *)

MixLock ==
  /\ lock = NoOne
  /\ lock' = Mixer
  /\ at' = 0
  /\ UNCHANGED <<table, alive, fields, locals, mixing, handles>>

(* q = g_players[i]; an empty slot is skipped. *)
MixTake ==
  /\ lock = Mixer
  /\ mixing = Null
  /\ at \in Used
  /\ mixing' = slots[at]
  /\ at' = IF slots[at] = Null THEN at + 1 ELSE at
  /\ UNCHANGED <<table, lock, alive, fields, locals, handles>>

(* mix_player(q): count a dry block of a playing player, or use up some of *)
(* what it holds.                                                          *)
MixPlayer ==
  /\ mixing # Null
  /\ \/ /\ ~playing[mixing]
        /\ UNCHANGED <<drained, pending>>
     \/ /\ playing[mixing] /\ pending[mixing] = 0
        /\ Feeds /\ mixing \notin abandoned => drained[mixing] < SPENT
        /\ drained' = [drained EXCEPT ![mixing] = IF @ > SPENT THEN @ ELSE @ + 1]
        /\ UNCHANGED pending
     \/ /\ playing[mixing] /\ pending[mixing] > 0
        /\ drained' = [drained EXCEPT ![mixing] = 0]
        /\ \E n \in 0 .. pending[mixing] : pending' = [pending EXCEPT ![mixing] = n]
  /\ at' = at + 1
  /\ mixing' = Null
  /\ UNCHANGED <<table, lock, alive, playing, locals, handles>>

MixUnlock ==
  /\ lock = Mixer
  /\ mixing = Null
  /\ at \notin Used
  /\ lock' = NoOne
  /\ UNCHANGED <<table, alive, fields, locals, walk, handles>>

-----------------------------------------------------------------------------
Create(t) ==
  Allocate(t) \/ FindSlot(t) \/ PutSlot(t) \/ NoSlotLeft(t) \/ CreateReturns(t)

Destroy(t) == (\E p \in Objects : DestroyCalled(t, p)) \/ Unregister(t) \/ Free(t)

Use(p) == Enqueue(p) \/ (\E on \in BOOLEAN : SetPlayState(p, on)) \/ Abandon(p)

Mix == MixLock \/ MixTake \/ MixPlayer \/ MixUnlock

Next ==
  \/ \E t \in Clients : Create(t) \/ Destroy(t)
  \/ \E p \in Objects : Use(p)
  \/ Mix

Spec == Init /\ [][Next]_vars

-----------------------------------------------------------------------------
(* Properties. *)

(* Every variable has its type. *)
TypeOK ==
  /\ slots \in [Slot -> Objects \cup {Null}]
  /\ count \in 0 .. MAX_PLAYERS
  /\ lock \in Clients \cup {Mixer, NoOne}
  /\ alive \subseteq Objects
  /\ playing \in [Objects -> BOOLEAN]
  /\ drained \in [Objects -> 0 .. SPENT + 1]
  /\ pending \in [Objects -> 0 .. MaxPending]
  /\ pc \in [Clients -> {"idle", "find", "put", "done", "unregister", "free"}]
  /\ obj \in [Clients -> Objects \cup {Null}]
  /\ pick \in [Clients -> 0 .. MAX_PLAYERS]
  /\ at \in 0 .. MAX_PLAYERS
  /\ mixing \in Objects \cup {Null}
  /\ held \subseteq Objects /\ abandoned \subseteq Objects

(* The audio thread never touches a player that has been freed, whatever   *)
(* clients create, destroy and reclaim while it walks the table.           *)
MixerTouchesOnlyLive == mixing # Null => mixing \in alive

(* Every player a client holds is alive and in exactly one slot, where the *)
(* mixer finds it (the comment in eng_CreateAudioPlayer: success never     *)
(* hands back "a player the mixer never sees").                            *)
HeldPlayersAreMixed ==
  \A p \in held : p \in alive /\ \E i \in Used : slots[i] = p /\ \A j \in Slot \ {i} : slots[j] # p

(* No player is freed twice, and none is freed that someone else still     *)
(* has: free is reached only by the one thread that owns the address.      *)
FreedOnce ==
  \A t \in Clients : pc[t] = "free" =>
    /\ obj[t] \in alive
    /\ obj[t] \notin held \cup abandoned \cup Registered
    /\ \A u \in Clients \ {t} : pc[u] # "idle" => obj[u] # obj[t]

(* Nothing leaks: every allocated player is in the table, or in the hands  *)
(* of a thread that is about to register or free it.                       *)
NoLeak ==
  \A p \in alive : p \in Registered \/ \E t \in Clients : pc[t] # "idle" /\ obj[t] = p

(* eng_CreateAudioPlayer reclaims "a finished one-shot": the player it is  *)
(* about to free has nothing left to play.                                 *)
ReclaimsOnlyFinished ==
  \A t \in Clients : pc[t] = "put" /\ pick[t] # NoSlot =>
    LET victim == slots[pick[t]] IN victim # Null => pending[victim] = 0
=============================================================================
