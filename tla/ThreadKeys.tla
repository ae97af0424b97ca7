----------------------------- MODULE ThreadKeys -----------------------------
(* pthread_once and the thread-specific values of imports_helpers.c: up to *)
(* FAKE_KEYS_MAX keys of the game over one key of newlib, whose value is   *)
(* the thread's block of values.  When a thread ends, newlib calls         *)
(* master_key_dtor on its block, which takes no lock.                      *)
(*                                                                         *)
(* A deleted key leaves its values where they are, and so does the next    *)
(* key that gets its slot.  The game's destructors set no values.          *)
EXTENDS Naturals, FiniteSets

CONSTANTS
  Callers,
  FAKE_KEYS_MAX,
  Rounds,      \* rounds of master_key_dtor, four in the code
  MaxValues    \* bound: values ever set

ASSUME KeysAssumption == FAKE_KEYS_MAX \in Nat /\ Rounds \in Nat \ {0} /\ MaxValues \in Nat

VARIABLES
  once,      \* the control word of pthread_once
  runs,      \* how often the initialiser has been started
  ready,     \* g_master_key_ready
  table,     \* g_key_table: [slot -> "free", "plain" or "dtor"]
  block,     \* [thread -> its KeyValues; NoBlock before the first value]
  allocated, \* the threads whose block is allocated
  stage,     \* per thread: "running", "init", "dtors", "gone", "crashed"
  at, again, iter, \* locals of master_key_dtor: i, again, iter
  calling,   \* its v, once it is taken out and until its destructor is called
  owner,     \* the game's view: [value -> the slot it was set in; 0: none]
  current,   \* the game's view: [thread -> [slot -> the value it set last]]
  left,      \* [thread -> [slot -> what it had set there under earlier keys]]
  destroyed  \* [value -> how often a destructor has been given it]

keys == <<ready, table, block, allocated>>
dtors == <<at, again, iter, calling, destroyed>>
views == <<owner, current, left>>
keyVars == <<once, runs, keys, stage, dtors, views>>

KeySlots == 1 .. FAKE_KEYS_MAX
Values   == 1 .. MaxValues
NULL     == 0
NoBlock  == [s \in KeySlots |-> NULL]

KeysInit ==
  /\ once = 0 /\ runs = 0
  /\ ready = FALSE /\ table = [s \in KeySlots |-> "free"]
  /\ block = [t \in Callers |-> NoBlock] /\ allocated = {}
  /\ stage = [t \in Callers |-> "running"]
  /\ at = [t \in Callers |-> 1] /\ again = [t \in Callers |-> FALSE]
  /\ iter = [t \in Callers |-> 1] /\ calling = [t \in Callers |-> NULL]
  /\ owner = [v \in Values |-> 0]
  /\ current = [t \in Callers |-> NoBlock] /\ left = [t \in Callers |-> NoBlock]
  /\ destroyed = [v \in Values |-> 0]

Running(t) == stage[t] = "running"
Goto(t, label) == stage' = [stage EXCEPT ![t] = label]

-----------------------------------------------------------------------------
(* pthread_once_fake: the word is set and tested in one step; whoever      *)
(* comes later returns at once, the initialiser done or not.               *)

Once(t) ==
  /\ Running(t)
  /\ once' = 1
  /\ IF once = 0 THEN Goto(t, "init") /\ runs' = runs + 1 ELSE UNCHANGED <<stage, runs>>
  /\ UNCHANGED <<keys, dtors, views>>

(* The initialiser returns. *)
InitDone(t) ==
  /\ stage[t] = "init"
  /\ Goto(t, "running")
  /\ UNCHANGED <<once, runs, keys, dtors, views>>

-----------------------------------------------------------------------------
(* Keys. *)

FirstFree(s) == table[s] = "free" /\ \A r \in KeySlots : r < s => table[r] # "free"

(* pthread_key_create_fake, under g_key_mutex.  With no slot left it fails *)
(* and changes nothing more.  Nobody has set a value in the new key, and   *)
(* nobody's block is cleared.                                              *)
TakeSlot(s, k) ==
  /\ FirstFree(s)
  /\ table' = [table EXCEPT ![s] = k]
  /\ left' = [u \in Callers |->
       IF current[u][s] = NULL THEN left[u] ELSE [left[u] EXCEPT ![s] = current[u][s]]]
  /\ current' = [u \in Callers |-> [current[u] EXCEPT ![s] = NULL]]

KeyCreate(t, k) ==
  /\ Running(t)
  /\ ready' = TRUE
  /\ IF \E s \in KeySlots : table[s] = "free"
     THEN \E s \in KeySlots : TakeSlot(s, k)
     ELSE UNCHANGED <<table, current, left>>
  /\ UNCHANGED <<once, runs, block, allocated, stage, dtors, owner>>

(* pthread_key_delete_fake, under g_key_mutex: whoever has a value there   *)
(* or is about to call the destructor.                                     *)
KeyDelete(t, s) ==
  /\ Running(t)
  /\ table[s] # "free"
  /\ table' = [table EXCEPT ![s] = "free"]
  /\ UNCHANGED <<once, runs, ready, block, allocated, stage, dtors, views>>

(* pthread_getspecific_fake *)
GetSpecific(t, s) == IF ready /\ t \in allocated THEN block[t][s] ELSE NULL

(* Mutant: the block is not cleared. *)
NewBlock_dirty(t) == block[t]

(* calloc *)
NewBlock(t) == NoBlock

(* pthread_setspecific_fake: the first value allocates the block; whether  *)
(* the key is still there is not asked.  The game sets a value it has not  *)
(* set before, or NULL.                                                    *)
SetSpecific(t, s, v) ==
  /\ Running(t)
  /\ ready
  /\ v # NULL => owner[v] = 0 /\ \A w \in Values : w < v => owner[w] # 0
  /\ block' = [block EXCEPT ![t] = [(IF t \in allocated THEN @ ELSE NewBlock(t)) EXCEPT ![s] = v]]
  /\ allocated' = allocated \cup {t}
  /\ owner' = IF v = NULL THEN owner ELSE [owner EXCEPT ![v] = s]
  /\ current' = [current EXCEPT ![t][s] = v] /\ left' = [left EXCEPT ![t][s] = NULL]
  /\ UNCHANGED <<once, runs, ready, table, stage, dtors>>

-----------------------------------------------------------------------------
(* The end of a thread. *)

(* newlib takes the block and calls master_key_dtor; without one it does   *)
(* nothing.                                                                *)
Exit(t) ==
  /\ Running(t)
  /\ Goto(t, IF t \in allocated THEN "dtors" ELSE "gone")
  /\ at' = [at EXCEPT ![t] = 1] /\ again' = [again EXCEPT ![t] = FALSE]
  /\ iter' = [iter EXCEPT ![t] = 1]
  /\ UNCHANGED <<once, runs, keys, calling, destroyed, views>>

Between(t) == stage[t] = "dtors" /\ calling[t] = NULL

Due(t) == LET s == at[t] IN table[s] = "dtor" /\ block[t][s] # NULL

(* Mutant: the value stays in the block. *)
Emptied_not(t) == block

(* kv->values[i] = NULL *)
Emptied(t) == [block EXCEPT ![t][at[t]] = NULL]

(* One slot: a value whose key has a destructor is taken out. *)
Look(t) ==
  /\ Between(t) /\ at[t] \in KeySlots
  /\ IF Due(t)
     THEN /\ calling' = [calling EXCEPT ![t] = block[t][at[t]]]
          /\ block' = Emptied(t)
          /\ current' = [current EXCEPT ![t][at[t]] = NULL]
          /\ left' = [left EXCEPT ![t][at[t]] = NULL]
          /\ UNCHANGED at
     ELSE at' = [at EXCEPT ![t] = @ + 1] /\ UNCHANGED <<calling, block, current, left>>
  /\ UNCHANGED <<once, runs, ready, table, allocated, stage, again, iter, destroyed, owner>>

(* The destructor is called: whichever the slot has by now, or the one     *)
(* that was tested, if the compiler kept it.                               *)
Destructor(t) ==
  /\ stage[t] = "dtors" /\ calling[t] # NULL
  /\ destroyed' = [destroyed EXCEPT ![calling[t]] = @ + 1]
  /\ calling' = [calling EXCEPT ![t] = NULL]
  /\ again' = [again EXCEPT ![t] = TRUE]
  /\ at' = [at EXCEPT ![t] = @ + 1]
  /\ UNCHANGED <<once, runs, keys, stage, iter, views>>

(* It is read again, and it has been deleted since: NULL is called. *)
DestructorGone(t) ==
  /\ stage[t] = "dtors" /\ calling[t] # NULL
  /\ table[at[t]] # "dtor"
  /\ Goto(t, "crashed")
  /\ UNCHANGED <<once, runs, keys, dtors, views>>

(* After a round in which a destructor was called there is another one,    *)
(* while there are rounds left.  The block is freed; what it held may be   *)
(* found in the next one.                                                  *)
Round(t) ==
  /\ Between(t) /\ at[t] \notin KeySlots
  /\ at' = [at EXCEPT ![t] = 1] /\ again' = [again EXCEPT ![t] = FALSE]
  /\ IF again[t] /\ iter[t] < Rounds
     THEN iter' = [iter EXCEPT ![t] = @ + 1] /\ UNCHANGED <<stage, allocated, current, left>>
     ELSE /\ Goto(t, "gone")
          /\ allocated' = allocated \ {t}
          /\ current' = [current EXCEPT ![t] = NoBlock] /\ left' = [left EXCEPT ![t] = NoBlock]
          /\ UNCHANGED iter
  /\ UNCHANGED <<once, runs, ready, table, block, calling, destroyed, owner>>

(* pthread_create_fake, called by a thread that is not modelled: a new one *)
(* takes the place.                                                        *)
Create(t) ==
  /\ stage[t] = "gone"
  /\ Goto(t, "running")
  /\ UNCHANGED <<once, runs, keys, dtors, views>>

Crashed == \E t \in Callers : stage[t] = "crashed"

Step(t) ==
  \/ Once(t) \/ InitDone(t) \/ Exit(t) \/ Round(t) \/ Create(t)
  \/ Look(t) \/ Destructor(t) \/ DestructorGone(t)
  \/ \E k \in {"plain", "dtor"} : KeyCreate(t, k)
  \/ \E s \in KeySlots : KeyDelete(t, s) \/ \E v \in Values \cup {NULL} : SetSpecific(t, s, v)

(* A crash is the end of the program. *)
KeysNext ==
  \/ ~Crashed /\ \E t \in Callers : Step(t)
  \/ Crashed /\ UNCHANGED keyVars

KeysSpec == KeysInit /\ [][KeysNext]_keyVars

-----------------------------------------------------------------------------
(* Properties. *)

(* A thread reads what it set in a key last, and in a key that it has not  *)
(* set NULL or else what it set itself, last and in its present life, in   *)
(* the same slot under a key deleted since (pthread_key_create_fake clears *)
(* no block): never the value of another thread, of the thread that had    *)
(* its place, or of another slot, however keys and threads come and go.    *)
ReadsOwnValue ==
  \A t \in Callers : stage[t] \in {"running", "init"} =>
    \A s \in KeySlots :
      GetSpecific(t, s) = IF current[t][s] # NULL THEN current[t][s] ELSE left[t][s]

(* The initialiser is started at most once, however many threads call      *)
(* pthread_once, and a value is given to a destructor at most once, though *)
(* its key is deleted, or its slot is another key's, between the test of   *)
(* the slot, the call and the next round; once it is given, no thread can  *)
(* read it and none is about to give it again.  Whose destructor gets it   *)
(* is not said, nor that the call does not crash: with the key deleted     *)
(* between test and call, it may (imports_helpers.c:452-454).              *)
CalledOnce ==
  /\ runs <= 1
  /\ \A v \in Values :
       /\ destroyed[v] <= 1
       /\ destroyed[v] = 1 =>
            \A t \in Callers : calling[t] # v /\ \A s \in KeySlots : GetSpecific(t, s) # v
=============================================================================
