------------------------------ MODULE Pthreads ------------------------------
(***************************************************************************)
(* The pthread mutexes and condition variables of                          *)
(* source/imports_helpers.c.  The game's objects hold one 32-bit word each *)
(* (a bionic static initialiser, or 0); the first thread to use one backs  *)
(* it with a real object from a table and publishes the index with a       *)
(* compare-exchange, while other threads do the same.                      *)
(*                                                                         *)
(* One mutex and one condition variable of the game are modelled.  The     *)
(* real objects are newlib's: a mutex with an owner and a depth, a         *)
(* condition variable with waiters.  The game is modelled by what POSIX    *)
(* allows it: it unlocks and waits only with the mutex held, relocks only  *)
(* a recursive mutex, and destroys or initialises an object only while no  *)
(* other thread is using it.  Allocation does not fail.                    *)
(***************************************************************************)
EXTENDS Integers, FiniteSets

CONSTANTS
  Threads,
  NoThread,
  MAX_SYNC_OBJS,    \* size of each table
  MaxDepth          \* bound: nested locks of a recursive mutex

ASSUME ThreadsAssumption == NoThread \notin Threads
ASSUME TableAssumption == MAX_SYNC_OBJS \in Nat \ {0} /\ MaxDepth \in Nat \ {0}

VARIABLES
  word,         \* the word of each object of the game
  used,         \* g_mtx_n and g_cnd_n
  mtx,          \* g_mtx_tab: the real mutexes
  cnd,          \* g_cnd_tab: the real condition variables that are live
  pc, op, slot, \* per thread: where it is, its call, the object it resolves
  cur,          \* local: the word it loaded
  c, m,         \* locals: the real objects it resolved or made (indices)
  holds,        \* the game's view: how often a thread holds the mutex
  kind          \* the game's view: the kind of the mutex

shim == <<word, used, mtx, cnd>>
locals == <<slot, cur, c, m>>
game == <<holds, kind>>
vars == <<shim, pc, op, locals, game>>

(* A word: a bionic initialiser, or the index of the object backing it. *)
Normal == -1
Recursive == -2
Kinds == {Normal, Recursive}
Backed(w) == w >= 0
Index(w) == IF Backed(w) THEN w ELSE 0    \* SLOT_INDEX

Slots == {"mtx", "cnd"}
Indices == 0 .. MAX_SYNC_OBJS - 1
Ops == {"lock", "trylock", "unlock", "wait", "signal", "broadcast", "init"}
Blank == [live |-> FALSE, recursive |-> FALSE, owner |-> NoThread, depth |-> 0]

Init ==
  /\ word = [s \in Slots |-> Normal]
  /\ used = [s \in Slots |-> 0]
  /\ mtx = [i \in Indices |-> Blank]
  /\ cnd = {}
  /\ pc = [t \in Threads |-> "idle"]
  /\ op = [t \in Threads |-> "none"]
  /\ slot = [t \in Threads |-> "mtx"]
  /\ cur = [t \in Threads |-> Normal]
  /\ c = [t \in Threads |-> -1] /\ m = [t \in Threads |-> -1]
  /\ holds = [t \in Threads |-> 0]
  /\ kind = Normal

-----------------------------------------------------------------------------
(* Calls of the game. *)

Quiet == \A t \in Threads : pc[t] = "idle" /\ holds[t] = 0

(* What the game may call. *)
Legal(t, o) ==
  CASE o \in {"lock", "trylock"} ->
         holds[t] = 0 \/ (kind = Recursive /\ holds[t] < MaxDepth)
    [] o = "unlock" -> holds[t] > 0
    [] o = "wait" -> holds[t] = 1
    [] OTHER -> TRUE

Call(t, o) ==
  /\ pc[t] = "idle"
  /\ Legal(t, o)
  /\ pc' = [pc EXCEPT ![t] = "load"]
  /\ op' = [op EXCEPT ![t] = o]
  /\ slot' = [slot EXCEPT ![t] = IF o \in {"wait", "signal", "broadcast"} THEN "cnd" ELSE "mtx"]
  /\ UNCHANGED <<shim, cur, c, m, game>>

(* pthread_mutex_init_fake: the word is reset first, then backed. *)
CallInit(t, k) ==
  /\ Quiet
  /\ word' = [word EXCEPT !["mtx"] = k]
  /\ kind' = k
  /\ pc' = [pc EXCEPT ![t] = "load"]
  /\ op' = [op EXCEPT ![t] = "init"]
  /\ slot' = [slot EXCEPT ![t] = "mtx"]
  /\ UNCHANGED <<used, mtx, cnd, cur, c, m, holds>>

Discard(s, i) ==
  IF s = "mtx" THEN mtx' = [mtx EXCEPT ![i] = Blank] /\ UNCHANGED cnd
               ELSE cnd' = cnd \ {i} /\ UNCHANGED mtx

(* pthread_mutex_destroy_fake, pthread_cond_destroy_fake: the word becomes *)
(* that of a normal object, the real object goes; its index is not reused. *)
Destroy(s) ==
  /\ Quiet
  /\ Backed(word[s])
  /\ word' = [word EXCEPT ![s] = Normal]
  /\ Discard(s, word[s])
  /\ kind' = IF s = "mtx" THEN Normal ELSE kind
  /\ UNCHANGED <<used, pc, op, locals, holds>>

-----------------------------------------------------------------------------
(* mutex_of and cond_of. *)

(* The object at an index of a table; -1 if that is NULL. *)
At(s, i) ==
  IF (s = "mtx" /\ mtx[i].live) \/ (s = "cnd" /\ i \in cnd) THEN i ELSE -1

(* The call goes on with object i (-1: NULL): a wait still has to resolve  *)
(* its mutex, any other call acts.                                         *)
Resolved(t, i) ==
  /\ IF slot[t] = "mtx" THEN m' = [m EXCEPT ![t] = i] /\ UNCHANGED c
                        ELSE c' = [c EXCEPT ![t] = i] /\ UNCHANGED m
  /\ IF slot[t] = "cnd" /\ op[t] = "wait"
       THEN pc' = [pc EXCEPT ![t] = "load"] /\ slot' = [slot EXCEPT ![t] = "mtx"]
       ELSE pc' = [pc EXCEPT ![t] = "act"] /\ UNCHANGED slot

Load(t) ==
  LET w == word[slot[t]] IN
    /\ pc[t] = "load"
    /\ cur' = [cur EXCEPT ![t] = w]
    /\ \/ Backed(w) /\ Resolved(t, At(slot[t], w))
       \/ ~Backed(w) /\ pc' = [pc EXCEPT ![t] = "reserve"] /\ UNCHANGED <<slot, c, m>>
    /\ UNCHANGED <<shim, op, game>>

TableFull(s) == used[s] >= MAX_SYNC_OBJS

(* make_real_mutex *)
RealMutex(w) == [Blank EXCEPT !.live = TRUE, !.recursive = (w = Recursive)]

(* The next index is taken, for good, and holds a new object. *)
Reserve(t) ==
  LET s == slot[t]
      i == used[s] IN
    /\ pc[t] = "reserve"
    /\ ~TableFull(s)
    /\ used' = [used EXCEPT ![s] = i + 1]
    /\ IF s = "mtx"
         THEN /\ mtx' = [mtx EXCEPT ![i] = RealMutex(cur[t])]
              /\ m' = [m EXCEPT ![t] = i]
              /\ UNCHANGED <<cnd, c>>
         ELSE /\ cnd' = cnd \cup {i}
              /\ c' = [c EXCEPT ![t] = i]
              /\ UNCHANGED <<mtx, m>>
    /\ pc' = [pc EXCEPT ![t] = "publish"]
    /\ UNCHANGED <<word, op, slot, cur, game>>

(* No index left: NULL, even if another thread backs the object meanwhile. *)
ReserveFails(t) ==
  /\ pc[t] = "reserve"
  /\ TableFull(slot[t])
  /\ Resolved(t, -1)
  /\ UNCHANGED <<shim, op, cur, game>>

Mine(t) == IF slot[t] = "mtx" THEN m[t] ELSE c[t]

(* Mutant: the index is stored without looking. *)
Publish_store(t) ==
  /\ pc[t] = "publish"
  /\ word' = [word EXCEPT ![slot[t]] = Mine(t)]
  /\ Resolved(t, Mine(t))
  /\ UNCHANGED <<used, mtx, cnd, op, cur, game>>

(* Mutant: the loser goes on with an object of its own. *)
Publish_ours(t) ==
  /\ pc[t] = "publish"
  /\ word' = [word EXCEPT ![slot[t]] = IF @ = cur[t] THEN Mine(t) ELSE @]
  /\ Resolved(t, Mine(t))
  /\ UNCHANGED <<used, mtx, cnd, op, cur, game>>

(* The compare-exchange: the winner's object is everybody's. *)
Publish(t) ==
  /\ pc[t] = "publish"
  /\ LET s == slot[t] IN
       \/ /\ word[s] = cur[t]
          /\ word' = [word EXCEPT ![s] = Mine(t)]
          /\ Resolved(t, Mine(t))
       \/ /\ word[s] # cur[t]
          /\ Resolved(t, At(s, Index(word[s])))
          /\ UNCHANGED word
  /\ UNCHANGED <<used, mtx, cnd, op, cur, game>>

-----------------------------------------------------------------------------
(* What the calls do with the real objects. *)

(* The call is over; its locals are gone. *)
Forget(t) ==
  /\ op' = [op EXCEPT ![t] = "none"]
  /\ slot' = [slot EXCEPT ![t] = "mtx"]
  /\ cur' = [cur EXCEPT ![t] = Normal]
  /\ c' = [c EXCEPT ![t] = -1] /\ m' = [m EXCEPT ![t] = -1]

Return(t) == pc' = [pc EXCEPT ![t] = "idle"] /\ Forget(t)

(* A call without its object returns an error. *)
ActFails(t) ==
  /\ pc[t] = "act"
  /\ \/ op[t] \in {"lock", "trylock", "unlock", "wait", "init"} /\ m[t] = -1
     \/ op[t] \in {"wait", "signal", "broadcast"} /\ c[t] = -1
  /\ Return(t)
  /\ UNCHANGED <<shim, game>>

Enter(t) ==
  LET x == mtx[m[t]] IN
    /\ x.owner = NoThread \/ (x.owner = t /\ x.recursive)
    /\ mtx' = [mtx EXCEPT ![m[t]].owner = t, ![m[t]].depth = x.depth + 1]
    /\ holds' = [holds EXCEPT ![t] = holds[t] + 1]

(* pthread_mutex_lock_fake blocks until it can enter. *)
Lock(t) ==
  /\ pc[t] = "act" /\ op[t] \in {"lock", "trylock"}
  /\ m[t] # -1
  /\ Enter(t)
  /\ Return(t)
  /\ UNCHANGED <<word, used, cnd, kind>>

TryLockBusy(t) ==
  /\ pc[t] = "act" /\ op[t] = "trylock"
  /\ m[t] # -1
  /\ mtx[m[t]].owner # NoThread
  /\ mtx[m[t]].owner = t => ~mtx[m[t]].recursive
  /\ Return(t)
  /\ UNCHANGED <<shim, game>>

(* One level is left; a mutex of another owner is not touched. *)
Leave(t) ==
  LET x == mtx[m[t]] IN
    mtx' = IF x.owner # t THEN mtx
           ELSE [mtx EXCEPT ![m[t]].depth = x.depth - 1,
                            ![m[t]].owner = IF x.depth = 1 THEN NoThread ELSE t]

Unlock(t) ==
  /\ pc[t] = "act" /\ op[t] = "unlock"
  /\ m[t] # -1
  /\ Leave(t)
  /\ holds' = [holds EXCEPT ![t] = holds[t] - 1]
  /\ Return(t)
  /\ UNCHANGED <<word, used, cnd, kind>>

(* pthread_cond_wait_fake: leave the mutex and wait, in one step. *)
Wait(t) ==
  /\ pc[t] = "act" /\ op[t] = "wait"
  /\ m[t] # -1 /\ c[t] # -1
  /\ Leave(t)
  /\ holds' = [holds EXCEPT ![t] = 0]
  /\ pc' = [pc EXCEPT ![t] = "waiting"]
  /\ UNCHANGED <<word, used, cnd, op, locals, kind>>

Waiters(i) == {u \in Threads : pc[u] = "waiting" /\ c[u] = i}

Wake(t, S) ==
  /\ pc' = [u \in Threads |-> IF u \in S THEN "reenter" ELSE IF u = t THEN "idle" ELSE pc[u]]
  /\ Forget(t)

(* A signal nobody waits for is lost. *)
Signal(t) ==
  /\ pc[t] = "act" /\ op[t] \in {"signal", "broadcast"}
  /\ c[t] # -1
  /\ \/ op[t] = "broadcast" /\ Wake(t, Waiters(c[t]))
     \/ op[t] = "signal" /\ \E u \in Waiters(c[t]) : Wake(t, {u})
     \/ op[t] = "signal" /\ Waiters(c[t]) = {} /\ Return(t)
  /\ UNCHANGED <<shim, game>>

(* Mutant: an untimed wait waits for its signal. *)
CapPasses_never(t) == FALSE /\ UNCHANGED vars

(* COND_WAIT_CAP_MS: no wait is longer, signalled or not. *)
CapPasses(t) ==
  /\ pc[t] = "waiting"
  /\ pc' = [pc EXCEPT ![t] = "reenter"]
  /\ UNCHANGED <<shim, op, locals, game>>

(* Woken: the mutex is taken again before the call returns. *)
Reenter(t) ==
  /\ pc[t] = "reenter"
  /\ Enter(t)
  /\ Return(t)
  /\ UNCHANGED <<word, used, cnd, kind>>

Initialised(t) ==
  /\ pc[t] = "act" /\ op[t] = "init"
  /\ m[t] # -1
  /\ Return(t)
  /\ UNCHANGED <<shim, game>>

Resolve(t) == Load(t) \/ Reserve(t) \/ ReserveFails(t) \/ Publish(t)

Act(t) ==
  \/ ActFails(t) \/ Lock(t) \/ TryLockBusy(t) \/ Unlock(t)
  \/ Wait(t) \/ Signal(t) \/ Initialised(t)

Next ==
  \/ \E t \in Threads :
       \/ \E o \in Ops \ {"init"} : Call(t, o)
       \/ \E k \in Kinds : CallInit(t, k)
       \/ Resolve(t) \/ Act(t) \/ CapPasses(t) \/ Reenter(t)
  \/ \E s \in Slots : Destroy(s)

Spec == Init /\ [][Next]_vars

(* Threads run, time passes, and a newlib mutex that is free again and     *)
(* again lets a waiter in.  Nothing makes the game call or unlock.         *)
FairSpec ==
  /\ Spec
  /\ \A t \in Threads :
       /\ WF_vars(Resolve(t))
       /\ WF_vars(Act(t))
       /\ WF_vars(CapPasses(t))
       /\ SF_vars(Reenter(t))

-----------------------------------------------------------------------------
(* Properties. *)

(* Mutual exclusion survives the race to back a mutex: whoever the game    *)
(* thinks is inside owns the one real mutex that the word names, at the    *)
(* depth the game counts, so no two threads are ever inside.               *)
HoldersOwn ==
  \A t \in Threads : holds[t] > 0 =>
    /\ Backed(word["mtx"])
    /\ mtx[word["mtx"]] = [live |-> TRUE, recursive |-> (kind = Recursive),
                           owner |-> t, depth |-> holds[t]]

(* "One thread wins the backing and the loser adopts the winner's object"  *)
(* (imports_helpers.c, lines 133-135): threads that act on the same object *)
(* of the game act on the same real object, and it has not been freed.     *)
AllAgree ==
  \A t \in Threads :
    /\ pc[t] \in {"act", "waiting", "reenter"} /\ slot[t] = "mtx" /\ m[t] # -1
         => m[t] = word["mtx"] /\ mtx[m[t]].live
    /\ pc[t] \in {"act", "waiting"} /\ op[t] \in {"wait", "signal", "broadcast"} /\ c[t] # -1
         => c[t] = word["cnd"] /\ c[t] \in cnd

(* No signal, raced, lost or never sent, parks the game for ever           *)
(* (imports_helpers.c, lines 275-279): a wait comes back, unless the game  *)
(* keeps the mutex for good.                                               *)
Free == \A t \in Threads : holds[t] = 0
WaitsReturn == []<>Free => \A t \in Threads : pc[t] = "waiting" ~> pc[t] = "idle"
=============================================================================
