--------------------------- MODULE Threads_proofs ---------------------------
(***************************************************************************)
(* Proofs about Pthreads and ThreadKeys, for any number of threads, of     *)
(* objects and of keys.                                                    *)
(*                                                                         *)
(* Mutual exclusion over the race to back a mutex follows from what the    *)
(* word of an object names (WordInv), from what the game holds there       *)
(* (HoldInv) and from what each thread has resolved, or reserved and not   *)
(* published, on the way (ThreadInv).  That a thread reads its own values  *)
(* follows from its block being what it set (BlocksInv), and that nothing  *)
(* is destroyed twice from each value being in one block at most           *)
(* (ValuesInv).                                                            *)
(***************************************************************************)
EXTENDS Pthreads, ThreadKeys, TLAPS

-----------------------------------------------------------------------------
(* Mutexes and condition variables.                                        *)

RealMutexes ==
  [live : BOOLEAN, recursive : BOOLEAN, owner : Threads \cup {NoThread}, depth : Nat]
Words == Kinds \cup Indices
Resolving == {"load", "reserve", "publish"}
CondOps == {"wait", "signal", "broadcast"}

ObjectsTypeOK ==
  /\ word \in [Slots -> Words]
  /\ used \in [Slots -> 0 .. MAX_SYNC_OBJS]
  /\ mtx \in [Indices -> RealMutexes]
  /\ cnd \subseteq Indices
  /\ pc \in [Threads -> Resolving \cup {"idle", "act", "waiting", "reenter"}]
  /\ op \in [Threads -> Ops \cup {"none"}]
  /\ slot \in [Threads -> Slots]
  /\ cur \in [Threads -> Words]
  /\ c \in [Threads -> {-1} \cup Indices] /\ m \in [Threads -> {-1} \cup Indices]
  /\ holds \in [Threads -> Nat]
  /\ kind \in Kinds

(* A word that is backed names a live object, of its kind if a mutex; one  *)
(* that is not tells the kind.                                             *)
WordInv ==
  /\ \A s \in Slots : Backed(word[s]) => word[s] < used[s]
  /\ IF Backed(word["mtx"])
     THEN mtx[word["mtx"]].live /\ mtx[word["mtx"]].recursive = (kind = Recursive)
     ELSE word["mtx"] = kind
  /\ Backed(word["cnd"]) => word["cnd"] \in cnd
  /\ word["cnd"] # Recursive

(* The game and the real mutex agree on who is inside, and how deep. *)
HoldInv ==
  IF Backed(word["mtx"])
  THEN LET x == mtx[word["mtx"]] IN
         /\ x.owner = NoThread <=> x.depth = 0
         /\ \A t \in Threads : holds[t] = IF x.owner = t THEN x.depth ELSE 0
  ELSE \A t \in Threads : holds[t] = 0

(* What a call of the game is about and what the game holds in it. *)
CallInv(t) ==
  /\ pc[t] = "idle" <=> op[t] = "none"
  /\ slot[t] = "cnd" => op[t] \in CondOps
  /\ op[t] \in {"signal", "broadcast"} => slot[t] = "cnd"
  /\ op[t] = "wait" /\ pc[t] \notin Resolving => slot[t] = "mtx"
  /\ pc[t] \in {"waiting", "reenter"} => op[t] = "wait" /\ m[t] # -1 /\ holds[t] = 0
  /\ op[t] = "unlock" => holds[t] > 0
  /\ op[t] = "wait" /\ pc[t] \in Resolving \cup {"act"} => holds[t] = 1

(* What was resolved is what the word names or nothing. *)
ResolvedInv(t) ==
  /\ pc[t] \in {"act", "waiting", "reenter"} /\ slot[t] = "mtx" => m[t] \in {-1, word["mtx"]}
  /\ op[t] \in CondOps /\ (pc[t] \notin Resolving \/ slot[t] = "mtx") => c[t] \in {-1, word["cnd"]}

(* A word found without an object keeps its kind or is backed by another   *)
(* thread.                                                                 *)
LoadedInv(t) ==
  pc[t] \in {"reserve", "publish"} =>
    /\ cur[t] \in Kinds
    /\ Backed(word[slot[t]]) \/ word[slot[t]] = cur[t]
    /\ slot[t] = "mtx" => cur[t] = kind

(* An object not yet published is new and nobody else's. *)
OwnInv(t) ==
  pc[t] = "publish" =>
    /\ Mine(t) \in 0 .. used[slot[t]] - 1
    /\ Mine(t) # word[slot[t]]
    /\ slot[t] = "mtx" => mtx[m[t]] = RealMutex(cur[t])
    /\ slot[t] = "cnd" => c[t] \in cnd
    /\ \A u \in Threads : u # t /\ pc[u] = "publish" /\ slot[u] = slot[t] => Mine(u) # Mine(t)

ThreadInv(t) == CallInv(t) /\ ResolvedInv(t) /\ LoadedInv(t) /\ OwnInv(t)

ObjectsInv == ObjectsTypeOK /\ WordInv /\ HoldInv /\ \A t \in Threads : ThreadInv(t)

LEMMA ObjectsInit == Init => ObjectsInv
<1> SUFFICES ASSUME Init PROVE ObjectsInv
  OBVIOUS
<1> USE TableAssumption DEF Init, Kinds, Normal, Recursive, Slots, Backed
<1>1. ObjectsTypeOK
  BY DEF ObjectsTypeOK, Words, Indices, RealMutexes, Blank, Resolving, Ops
<1>2. WordInv /\ HoldInv
  BY DEF WordInv, HoldInv
<1>3. \A t \in Threads : ThreadInv(t)
  BY DEF ThreadInv, CallInv, ResolvedInv, LoadedInv, OwnInv, CondOps
<1> QED BY <1>1, <1>2, <1>3 DEF ObjectsInv

(* What a thread is in the middle of depends on no other thread's locals.  *)
Untouched(u) ==
  /\ pc'[u] = pc[u] /\ op'[u] = op[u] /\ slot'[u] = slot[u] /\ cur'[u] = cur[u]
  /\ c'[u] = c[u] /\ m'[u] = m[u] /\ holds'[u] = holds[u]

LEMMA OthersKeep ==
  ASSUME ObjectsInv, NEW u \in Threads, Untouched(u), kind' = kind, word' = word
  PROVE  CallInv(u)' /\ ResolvedInv(u)' /\ LoadedInv(u)'
<1>1. CallInv(u) /\ ResolvedInv(u) /\ LoadedInv(u)
  BY DEF ObjectsInv, ThreadInv
<1> QED BY <1>1 DEF Untouched, CallInv, ResolvedInv, LoadedInv

(* So are the objects they have not published. *)
LEMMA OthersOwn ==
  ASSUME ObjectsInv, NEW t \in Threads, NEW u \in Threads, u # t, Untouched(u), word' = word,
         \A v \in Threads \ {t} : Untouched(v),
         used' = used, cnd' = cnd,
         pc[u] = "publish" /\ slot[u] = "mtx" => mtx'[m[u]] = mtx[m[u]],
         pc'[t] # "publish"
  PROVE  OwnInv(u)'
<1>1. OwnInv(u)
  BY DEF ObjectsInv, ThreadInv
<1>2. Mine(u)' = Mine(u) /\ \A v \in Threads \ {t} : Mine(v)' = Mine(v)
  BY DEF Untouched, Mine
<1> QED BY <1>1, <1>2 DEF Untouched, OwnInv

(* mutex_of and cond_of find what a backed word names. *)
LEMMA NamesLive ==
  ASSUME WordInv, NEW s \in Slots, Backed(word[s])
  PROVE  At(s, word[s]) = word[s]
  BY DEF WordInv, At, Slots

LEMMA WordsAreInts == Words \subseteq Int
  BY TableAssumption DEF Words, Kinds, Normal, Recursive, Indices

LEMMA BlankIsReal == Blank \in RealMutexes /\ \A w : RealMutex(w) \in RealMutexes
  BY DEF RealMutex, Blank, RealMutexes

LEMMA CallStep ==
  ASSUME ObjectsInv, NEW t \in Threads, NEW o \in Ops \ {"init"}, Call(t, o)
  PROVE  ObjectsInv'
<1> USE DEF Call, ObjectsInv, ObjectsTypeOK, Resolving, Ops, CondOps
<1>1. ObjectsTypeOK'
  BY DEF shim, game, Slots
<1>2. WordInv' /\ HoldInv'
  BY DEF WordInv, HoldInv, shim, game, Slots, At
<1>3. ASSUME NEW u \in Threads PROVE ThreadInv(u)'
  <2>1. CallInv(u)'
    BY DEF ThreadInv, CallInv, shim, game, Legal
  <2>2. ResolvedInv(u)'
    BY DEF ThreadInv, CallInv, ResolvedInv, shim, game
  <2>3. LoadedInv(u)' /\ OwnInv(u)'
    BY DEF ThreadInv, LoadedInv, OwnInv, shim, game, Mine
  <2> QED BY <2>1, <2>2, <2>3 DEF ThreadInv
<1> QED BY <1>1, <1>2, <1>3

LEMMA CallInitStep ==
  ASSUME ObjectsInv, NEW t \in Threads, NEW k \in Kinds, CallInit(t, k)
  PROVE  ObjectsInv'
<1> USE DEF CallInit, Quiet, ObjectsInv, ObjectsTypeOK, Resolving, Ops, CondOps, Kinds, Normal, Recursive,
            Backed, Slots
<1>1. ObjectsTypeOK'
  BY DEF Words, Kinds
<1>2. WordInv' /\ HoldInv'
  BY DEF WordInv, HoldInv
<1>3. ASSUME NEW u \in Threads PROVE ThreadInv(u)'
  BY DEF ThreadInv, CallInv, ResolvedInv, LoadedInv, OwnInv
<1> QED BY <1>1, <1>2, <1>3

LEMMA DestroyStep ==
  ASSUME ObjectsInv, NEW s \in Slots, Destroy(s)
  PROVE  ObjectsInv'
<1> USE DEF Destroy, Quiet, Discard, ObjectsInv, ObjectsTypeOK, Kinds, Normal, Recursive, Backed, Slots
<1>1. ObjectsTypeOK'
  <2>1. mtx' \in [Indices -> RealMutexes] /\ cnd' \subseteq Indices
    BY BlankIsReal
  <2> QED BY <2>1 DEF Words, Kinds, locals
<1>2. WordInv' /\ HoldInv'
  BY DEF WordInv, HoldInv, Words
<1>3. ASSUME NEW u \in Threads PROVE ThreadInv(u)'
  <2>1. pc'[u] = "idle" /\ op'[u] = "none" /\ slot'[u] = slot[u] /\ holds'[u] = 0
    BY DEF locals, ThreadInv, CallInv
  <2> QED BY <2>1 DEF ThreadInv, CallInv, ResolvedInv, LoadedInv, OwnInv, CondOps
<1> QED BY <1>1, <1>2, <1>3

(* A thread that has resolved an object, or found that there is none.      *)
LEMMA AfterResolved ==
  ASSUME ObjectsInv, NEW t \in Threads, pc[t] \in Resolving, NEW i \in {-1} \cup Indices,
         Resolved(t, i),
         op' = op, holds' = holds, i \in {-1, word'[slot[t]]},
         op[t] \in CondOps /\ slot[t] = "mtx" => c[t] \in {-1, word'["cnd"]}
  PROVE  /\ ThreadInv(t)'
         /\ pc' \in [Threads -> Resolving \cup {"idle", "act", "waiting", "reenter"}]
         /\ slot' \in [Threads -> Slots]
         /\ c' \in [Threads -> {-1} \cup Indices] /\ m' \in [Threads -> {-1} \cup Indices]
         /\ pc'[t] \in {"load", "act"}
         /\ \A u \in Threads \ {t} : pc'[u] = pc[u] /\ slot'[u] = slot[u] /\ c'[u] = c[u] /\ m'[u] = m[u]
<1> USE DEF Resolved, ObjectsInv, ObjectsTypeOK, Resolving, Slots
<1>1. CallInv(t)
  BY DEF ThreadInv
<1>2. CASE slot[t] = "cnd" /\ op[t] = "wait"
  BY <1>1, <1>2 DEF ThreadInv, CallInv, ResolvedInv, LoadedInv, OwnInv, CondOps
<1>3. CASE slot[t] = "mtx"
  BY <1>1, <1>3 DEF ThreadInv, CallInv, ResolvedInv, LoadedInv, OwnInv, CondOps
<1>4. CASE slot[t] = "cnd" /\ op[t] # "wait"
  BY <1>1, <1>4 DEF ThreadInv, CallInv, ResolvedInv, LoadedInv, OwnInv, CondOps
<1> QED BY <1>2, <1>3, <1>4

LEMMA LoadStep ==
  ASSUME ObjectsInv, NEW t \in Threads, Load(t)
  PROVE  ObjectsInv'
<1> DEFINE w == word[slot[t]]
<1>1. /\ slot[t] \in Slots /\ w \in Words
      /\ op[t] \in CondOps /\ slot[t] = "mtx" => c[t] \in {-1, word["cnd"]}
      /\ CallInv(t) /\ pc[t] = "load"
  BY DEF ObjectsInv, ObjectsTypeOK, ThreadInv, ResolvedInv, Load
<1>2. WordInv' /\ HoldInv'
  BY DEF Load, ObjectsInv, WordInv, HoldInv, Slots, shim, game
<1>3. CASE Backed(w)
  <2>1. w \in Indices
    BY <1>1, <1>3 DEF Words, Kinds, Normal, Recursive, Backed
  <2>2. At(slot[t], w) = w
    BY <1>1, <1>3, NamesLive DEF ObjectsInv
  <2>3. Resolved(t, w)
    BY <1>3, <2>2 DEF Load
  <2>4. /\ ThreadInv(t)' /\ pc'[t] \in {"load", "act"}
        /\ \A u \in Threads \ {t} : Untouched(u)
        /\ ObjectsTypeOK'
    BY <1>1, <2>1, <2>3, AfterResolved DEF Load, ObjectsInv, ObjectsTypeOK, shim, game, Resolving, Untouched, Words
  <2>5. \A u \in Threads \ {t} : ThreadInv(u)'
    BY <2>4, OthersKeep, OthersOwn DEF Load, shim, game, ThreadInv
  <2> QED BY <1>2, <2>4, <2>5 DEF ObjectsInv
<1>4. CASE ~Backed(w)
  <2>1. ObjectsTypeOK' /\ \A u \in Threads \ {t} : Untouched(u)
    BY <1>1, <1>4 DEF Load, ObjectsInv, ObjectsTypeOK, shim, game, Resolving, Untouched
  <2>2. ThreadInv(t)'
    <3>1. /\ pc'[t] = "reserve" /\ cur'[t] = w /\ slot'[t] = slot[t] /\ op'[t] = op[t] /\ holds'[t] = holds[t]
          /\ c'[t] = c[t] /\ word' = word /\ kind' = kind
      BY <1>1, <1>4 DEF Load, ObjectsInv, ObjectsTypeOK, shim, game
    <3>2. w \in Kinds
      BY <1>1, <1>4, TableAssumption DEF Words, Indices, Backed
    <3>3. slot[t] = "mtx" => w = kind
      BY <1>4 DEF ObjectsInv, WordInv
    <3> QED BY <1>1, <3>1, <3>2, <3>3 DEF ThreadInv, CallInv, ResolvedInv, LoadedInv, OwnInv, Resolving
  <2>3. \A u \in Threads \ {t} : ThreadInv(u)'
    BY <1>4, <2>1, OthersKeep, OthersOwn DEF Load, shim, game, ThreadInv, ObjectsInv, ObjectsTypeOK
  <2> QED BY <1>2, <2>1, <2>2, <2>3 DEF ObjectsInv
<1> QED BY <1>3, <1>4

LEMMA ReserveFailsStep ==
  ASSUME ObjectsInv, NEW t \in Threads, ReserveFails(t)
  PROVE  ObjectsInv'
<1>1. /\ pc[t] = "reserve"
      /\ op[t] \in CondOps /\ slot[t] = "mtx" => c[t] \in {-1, word["cnd"]}
      /\ UNCHANGED <<word, used, mtx, cnd, op, cur, holds, kind>>
  BY DEF ObjectsInv, ThreadInv, ResolvedInv, ReserveFails, shim, game
<1>2. WordInv' /\ HoldInv'
  BY <1>1 DEF ObjectsInv, WordInv, HoldInv, Slots
<1>3. /\ ThreadInv(t)' /\ pc'[t] \in {"load", "act"}
      /\ \A u \in Threads \ {t} : Untouched(u)
      /\ ObjectsTypeOK'
  BY <1>1, AfterResolved DEF ReserveFails, ObjectsInv, ObjectsTypeOK, Resolving, Untouched
<1>4. \A u \in Threads \ {t} : ThreadInv(u)'
  BY <1>1, <1>3, OthersKeep, OthersOwn DEF ThreadInv
<1> QED BY <1>2, <1>3, <1>4 DEF ObjectsInv

LEMMA ReserveStep ==
  ASSUME ObjectsInv, NEW t \in Threads, Reserve(t)
  PROVE  ObjectsInv'
<1> DEFINE s == slot[t]  i == used[s]
<1>1. /\ s \in Slots /\ i \in Indices /\ i \in Nat
      /\ pc[t] = "reserve" /\ CallInv(t) /\ ResolvedInv(t) /\ LoadedInv(t)
      /\ UNCHANGED <<word, op, slot, cur, holds, kind>>
      /\ used' = [used EXCEPT ![s] = i + 1] /\ i + 1 \in 0 .. MAX_SYNC_OBJS
      /\ pc' = [pc EXCEPT ![t] = "publish"]
  BY TableAssumption
  DEF Reserve, TableFull, ObjectsInv, ObjectsTypeOK, ThreadInv, Indices, Slots, game
<1>2. CASE s = "mtx"
  <2>1. /\ mtx' = [mtx EXCEPT ![i] = RealMutex(cur[t])] /\ m' = [m EXCEPT ![t] = i]
        /\ UNCHANGED <<cnd, c>>
    BY <1>2 DEF Reserve
  <2>2. ObjectsTypeOK'
    BY <1>1, <2>1, BlankIsReal DEF ObjectsInv, ObjectsTypeOK, Resolving
  <2>3. \A j \in Indices \ {i} : mtx'[j] = mtx[j]
    BY <2>1 DEF ObjectsInv, ObjectsTypeOK
  <2>4. mtx'[i] = RealMutex(cur[t])
    BY <1>1, <2>1 DEF ObjectsInv, ObjectsTypeOK
  <2>5. Backed(word["mtx"]) => word["mtx"] \in Indices \ {i}
    BY <1>1, <1>2 DEF ObjectsInv, ObjectsTypeOK, WordInv, Words, Kinds, Normal, Recursive, Backed, Slots
  <2>6. WordInv' /\ HoldInv'
    <3>1. Backed(word["mtx"]) => mtx'[word["mtx"]] = mtx[word["mtx"]]
      BY <2>3, <2>5
    <3>2. \A j \in Slots : Backed(word[j]) => word[j] < used'[j]
      <4>1. \A j \in Slots : used'[j] \in Int /\ used[j] \in Int /\ used'[j] >= used[j]
        BY <1>1 DEF ObjectsInv, ObjectsTypeOK
      <4>2. \A j \in Slots : word[j] \in Int
        BY WordsAreInts DEF ObjectsInv, ObjectsTypeOK
      <4> QED BY <4>1, <4>2 DEF ObjectsInv, WordInv
    <3>3. WordInv'
      BY <1>1, <2>1, <3>1, <3>2 DEF ObjectsInv, WordInv, Backed
    <3> QED BY <1>1, <3>1, <3>3 DEF ObjectsInv, HoldInv, Backed
  <2>7. ThreadInv(t)'
    <3>1. \A u \in Threads : pc[u] = "publish" /\ slot[u] = "mtx" => m[u] < i
      BY <1>1, <1>2 DEF ObjectsInv, ObjectsTypeOK, ThreadInv, OwnInv, Mine
    <3>2. OwnInv(t)'
      BY <1>1, <1>2, <2>1, <2>4, <2>5, <3>1
      DEF OwnInv, Mine, ObjectsInv, ObjectsTypeOK, Words, Backed, Indices
    <3> QED BY <1>1, <1>2, <2>1, <3>2
          DEF ThreadInv, CallInv, ResolvedInv, LoadedInv, Resolving, ObjectsInv, ObjectsTypeOK
  <2>8. ASSUME NEW u \in Threads \ {t} PROVE ThreadInv(u)'
    <3>1. Untouched(u)
      BY <1>1, <2>1 DEF Untouched, ObjectsInv, ObjectsTypeOK
    <3>2. OwnInv(u)'
      <4>1. OwnInv(u)
        BY DEF ObjectsInv, ThreadInv
      <4>2. \A v \in Threads \ {t} : Mine(v)' = Mine(v) /\ pc'[v] = pc[v]
        BY <1>1, <2>1 DEF Mine, ObjectsInv, ObjectsTypeOK
      <4>3. Mine(t)' = i
        BY <1>1, <1>2, <2>1 DEF Mine, ObjectsInv, ObjectsTypeOK
      <4>4. pc[u] = "publish" /\ slot[u] = "mtx" => m[u] \in Indices \ {i}
        BY <1>1, <1>2, <4>1 DEF OwnInv, Mine, ObjectsInv, ObjectsTypeOK
      <4> QED BY <1>1, <1>2, <2>1, <2>3, <3>1, <4>1, <4>2, <4>3, <4>4
            DEF OwnInv, Untouched, Mine, ObjectsInv, ObjectsTypeOK, Slots
    <3> QED BY <1>1, <3>1, <3>2, OthersKeep DEF ThreadInv
  <2> QED BY <2>2, <2>6, <2>7, <2>8 DEF ObjectsInv
<1>3. CASE s = "cnd"
  <2>1. /\ cnd' = cnd \cup {i} /\ c' = [c EXCEPT ![t] = i]
        /\ UNCHANGED <<mtx, m>>
    BY <1>3 DEF Reserve
  <2>2. ObjectsTypeOK'
    BY <1>1, <2>1 DEF ObjectsInv, ObjectsTypeOK, Resolving
  <2>3. WordInv' /\ HoldInv'
    <3>1. \A j \in Slots : Backed(word[j]) => word[j] < used'[j]
      <4>1. \A j \in Slots : used'[j] \in Int /\ used[j] \in Int /\ used'[j] >= used[j]
        BY <1>1 DEF ObjectsInv, ObjectsTypeOK
      <4>2. \A j \in Slots : word[j] \in Int
        BY WordsAreInts DEF ObjectsInv, ObjectsTypeOK
      <4> QED BY <4>1, <4>2 DEF ObjectsInv, WordInv
    <3>2. WordInv'
      BY <1>1, <2>1, <3>1 DEF ObjectsInv, WordInv, Backed
    <3> QED BY <1>1, <2>1, <3>2 DEF ObjectsInv, HoldInv, Backed
  <2>4. ThreadInv(t)'
    <3>1. \A u \in Threads : pc[u] = "publish" /\ slot[u] = "cnd" => c[u] < i
      BY <1>1, <1>3 DEF ObjectsInv, ObjectsTypeOK, ThreadInv, OwnInv, Mine
    <3>2. Backed(word["cnd"]) => word["cnd"] < i
      BY <1>1, <1>3 DEF ObjectsInv, WordInv
    <3>3. OwnInv(t)'
      BY <1>1, <1>3, <2>1, <3>1, <3>2
      DEF OwnInv, Mine, ObjectsInv, ObjectsTypeOK, Words, Backed, Indices
    <3> QED BY <1>1, <1>3, <2>1, <3>3
          DEF ThreadInv, CallInv, ResolvedInv, LoadedInv, Resolving, ObjectsInv, ObjectsTypeOK
  <2>5. ASSUME NEW u \in Threads \ {t} PROVE ThreadInv(u)'
    <3>1. Untouched(u)
      BY <1>1, <2>1 DEF Untouched, ObjectsInv, ObjectsTypeOK
    <3>2. OwnInv(u)'
      <4>1. OwnInv(u)
        BY DEF ObjectsInv, ThreadInv
      <4>2. \A v \in Threads \ {t} : Mine(v)' = Mine(v) /\ pc'[v] = pc[v]
        BY <1>1, <2>1 DEF Mine, ObjectsInv, ObjectsTypeOK
      <4>3. Mine(t)' = i
        BY <1>1, <1>3, <2>1 DEF Mine, ObjectsInv, ObjectsTypeOK
      <4> QED BY <1>1, <1>3, <2>1, <3>1, <4>1, <4>2, <4>3
            DEF OwnInv, Untouched, Mine, ObjectsInv, ObjectsTypeOK, Slots
    <3> QED BY <1>1, <3>1, <3>2, OthersKeep DEF ThreadInv
  <2> QED BY <2>2, <2>3, <2>4, <2>5 DEF ObjectsInv
<1> QED BY <1>1, <1>2, <1>3 DEF Slots

LEMMA PublishStep ==
  ASSUME ObjectsInv, NEW t \in Threads, Publish(t)
  PROVE  ObjectsInv'
<1> DEFINE s == slot[t]  i == Mine(t)
<1>1. /\ s \in Slots /\ word[s] \in Words /\ i \in 0 .. used[s] - 1 /\ i \in Indices
      /\ op[t] \in CondOps /\ s = "mtx" => c[t] \in {-1, word["cnd"]}
      /\ cur[t] \in Kinds /\ pc[t] = "publish"
      /\ UNCHANGED <<used, mtx, cnd, op, cur, holds, kind>>
  BY TableAssumption
  DEF Publish, ObjectsInv, ObjectsTypeOK, ThreadInv, ResolvedInv, LoadedInv, OwnInv, game, Indices, Resolving
<1>2. CASE word[s] = cur[t]
  <2>1. word' = [word EXCEPT ![s] = i] /\ Resolved(t, i)
    BY <1>2 DEF Publish
  <2>2. ~Backed(word[s]) /\ Backed(i) /\ word'[s] = i /\ \A j \in Slots \ {s} : word'[j] = word[j]
    BY <1>1, <1>2, <2>1 DEF Kinds, Normal, Recursive, Backed, Indices, ObjectsInv, ObjectsTypeOK
  <2>3. /\ ThreadInv(t)' /\ pc'[t] \in {"load", "act"}
        /\ \A u \in Threads \ {t} : Untouched(u)
        /\ ObjectsTypeOK'
    <3>1. op[t] \in CondOps /\ s = "mtx" => c[t] \in {-1, word'["cnd"]}
      BY <1>1, <2>2 DEF Slots
    <3> QED BY <1>1, <2>1, <2>2, <3>1, AfterResolved
          DEF ObjectsInv, ObjectsTypeOK, Resolving, Untouched, Words
  <2>4. OwnInv(t) /\ LoadedInv(t)
    BY DEF ObjectsInv, ThreadInv
  <2>5. WordInv' /\ HoldInv'
    <3>1. CASE s = "mtx"
      <4>1. mtx[i] = RealMutex(cur[t]) /\ cur[t] = kind
        BY <1>1, <2>4, <3>1 DEF OwnInv, LoadedInv, Mine
      <4>2. mtx[i].live /\ mtx[i].recursive = (kind = Recursive) /\ mtx[i].owner = NoThread /\ mtx[i].depth = 0
        BY <4>1 DEF RealMutex, Blank
      <4>3. \A u \in Threads : holds[u] = 0
        BY <2>2, <3>1 DEF ObjectsInv, HoldInv
      <4>4. word'["mtx"] = i /\ word'["cnd"] = word["cnd"]
        BY <2>2, <3>1 DEF Slots
      <4>5. WordInv'
        <5>1. \A j \in Slots : Backed(word'[j]) => word'[j] < used'[j]
          BY <1>1, <3>1, <4>4 DEF ObjectsInv, ObjectsTypeOK, WordInv, Slots
        <5> QED BY <1>1, <2>2, <4>2, <4>4, <5>1 DEF ObjectsInv, WordInv
      <4>6. HoldInv'
        BY <1>1, <2>2, <4>2, <4>3, <4>4, ThreadsAssumption DEF HoldInv
      <4> QED BY <4>5, <4>6
    <3>2. CASE s = "cnd"
      <4>1. i \in cnd
        BY <1>1, <2>4, <3>2 DEF OwnInv, Mine
      <4>2. word'["mtx"] = word["mtx"] /\ word'["cnd"] = i
        BY <2>2, <3>2 DEF Slots
      <4>3. WordInv'
        <5>1. \A j \in Slots : Backed(word'[j]) => word'[j] < used'[j]
          BY <1>1, <3>2, <4>2 DEF ObjectsInv, ObjectsTypeOK, WordInv, Slots
        <5>2. word'["cnd"] # Recursive
          BY <1>1, <4>2 DEF Recursive
        <5> QED BY <1>1, <4>1, <4>2, <5>1, <5>2 DEF ObjectsInv, WordInv
      <4>4. HoldInv'
        BY <1>1, <4>2 DEF ObjectsInv, HoldInv
      <4> QED BY <4>3, <4>4
    <3> QED BY <1>1, <3>1, <3>2 DEF Slots
  <2>6. ASSUME NEW u \in Threads \ {t} PROVE ThreadInv(u)'
    <3>1. Untouched(u) /\ CallInv(u) /\ ResolvedInv(u) /\ LoadedInv(u) /\ OwnInv(u)
      BY <2>3 DEF ObjectsInv, ThreadInv
    <3>2. CallInv(u)'
      BY <3>1 DEF Untouched, CallInv
    <3>3. ResolvedInv(u)'
      BY <1>1, <2>2, <3>1
      DEF Untouched, ResolvedInv, ObjectsInv, ObjectsTypeOK, Kinds, Normal, Recursive, Backed, Indices, Slots, Words
    <3>4. LoadedInv(u)'
      BY <1>1, <2>2, <3>1 DEF Untouched, LoadedInv, ObjectsInv, ObjectsTypeOK
    <3>5. OwnInv(u)'
      <4>1. \A v \in Threads \ {t} : Mine(v)' = Mine(v) /\ pc'[v] = pc[v] /\ slot'[v] = slot[v]
        BY <2>3 DEF Mine, Untouched
      <4> QED BY <1>1, <2>2, <2>3, <3>1, <4>1
            DEF OwnInv, Untouched, ObjectsInv, ObjectsTypeOK
    <3> QED BY <3>2, <3>3, <3>4, <3>5 DEF ThreadInv
  <2> QED BY <2>3, <2>5, <2>6 DEF ObjectsInv
<1>3. CASE word[s] # cur[t]
  <2>1. word[s] \in Indices /\ At(s, word[s]) = word[s] /\ Index(word[s]) = word[s]
    <3>1. Backed(word[s])
      BY <1>1, <1>3 DEF ObjectsInv, ThreadInv, LoadedInv
    <3> QED BY <1>1, <3>1, NamesLive DEF ObjectsInv, Words, Kinds, Normal, Recursive, Backed, Index
  <2>2. word' = word /\ Resolved(t, word[s])
    BY <1>3, <2>1 DEF Publish
  <2>3. /\ ThreadInv(t)' /\ pc'[t] \in {"load", "act"}
        /\ \A u \in Threads \ {t} : Untouched(u)
        /\ ObjectsTypeOK'
    BY <1>1, <2>1, <2>2, AfterResolved DEF ObjectsInv, ObjectsTypeOK, Resolving, Untouched
  <2>4. WordInv' /\ HoldInv'
    BY <1>1, <2>2 DEF ObjectsInv, WordInv, HoldInv
  <2>5. \A u \in Threads \ {t} : ThreadInv(u)'
    BY <1>1, <2>2, <2>3, OthersKeep, OthersOwn DEF ThreadInv
  <2> QED BY <2>3, <2>4, <2>5 DEF ObjectsInv
<1> QED BY <1>2, <1>3

-----------------------------------------------------------------------------
(* What the calls do. *)

LEMMA AfterReturn ==
  ASSUME ObjectsInv, NEW t \in Threads, Return(t)
  PROVE  /\ ThreadInv(t)'
         /\ pc' \in [Threads -> Resolving \cup {"idle", "act", "waiting", "reenter"}]
         /\ op' \in [Threads -> Ops \cup {"none"}] /\ slot' \in [Threads -> Slots]
         /\ cur' \in [Threads -> Words]
         /\ c' \in [Threads -> {-1} \cup Indices] /\ m' \in [Threads -> {-1} \cup Indices]
         /\ pc'[t] = "idle"
         /\ \A u \in Threads \ {t} : holds'[u] = holds[u] => Untouched(u)
<1>1. /\ pc' \in [Threads -> Resolving \cup {"idle", "act", "waiting", "reenter"}]
      /\ op' \in [Threads -> Ops \cup {"none"}] /\ slot' \in [Threads -> Slots]
      /\ cur' \in [Threads -> Words]
      /\ c' \in [Threads -> {-1} \cup Indices] /\ m' \in [Threads -> {-1} \cup Indices]
      /\ pc'[t] = "idle" /\ op'[t] = "none" /\ slot'[t] = "mtx"
      /\ \A u \in Threads \ {t} : holds'[u] = holds[u] => Untouched(u)
  BY DEF Return, Forget, ObjectsInv, ObjectsTypeOK, Slots, Words, Kinds, Untouched
<1> QED BY <1>1 DEF ThreadInv, CallInv, ResolvedInv, LoadedInv, OwnInv, CondOps

(* A call that returns and did nothing. *)
LEMMA ReturnStep ==
  ASSUME ObjectsInv, NEW t \in Threads, Return(t), UNCHANGED <<shim, game>>
  PROVE  ObjectsInv'
<1>1. UNCHANGED <<word, used, mtx, cnd, holds, kind>>
  BY DEF shim, game
<1>2. ObjectsTypeOK'
  BY <1>1, AfterReturn DEF ObjectsInv, ObjectsTypeOK
<1>3. WordInv' /\ HoldInv'
  BY <1>1 DEF ObjectsInv, WordInv, HoldInv
<1>4. \A u \in Threads \ {t} : ThreadInv(u)'
  BY <1>1, AfterReturn, OthersKeep, OthersOwn DEF ThreadInv
<1> QED BY <1>2, <1>3, <1>4, AfterReturn DEF ObjectsInv

(* The object of a call is the one the word names. *)
LEMMA ActsOnNamed ==
  ASSUME ObjectsInv, NEW t \in Threads, m[t] # -1,
         pc[t] \in {"act", "waiting", "reenter"}, op[t] \in {"lock", "trylock", "unlock", "wait"}
  PROVE  m[t] = word["mtx"] /\ m[t] \in Indices /\ Backed(word["mtx"])
<1>1. slot[t] = "mtx"
  BY DEF ObjectsInv, ObjectsTypeOK, ThreadInv, CallInv, Slots, CondOps, Resolving
<1>2. m[t] = word["mtx"] /\ m[t] \in Indices
  BY <1>1 DEF ObjectsInv, ObjectsTypeOK, ThreadInv, ResolvedInv
<1> QED BY <1>2 DEF Indices, Backed

(* The real mutex changes hands. *)
LEMMA HandOver ==
  ASSUME ObjectsInv, NEW o \in Threads \cup {NoThread}, NEW d \in Nat,
         word["mtx"] \in Indices, Backed(word["mtx"]),
         mtx' = [mtx EXCEPT ![word["mtx"]] = [@ EXCEPT !.owner = o, !.depth = d]],
         UNCHANGED <<word, used, cnd, kind>>
  PROVE  /\ mtx' \in [Indices -> RealMutexes]
         /\ WordInv'
         /\ mtx'[word["mtx"]].owner = o /\ mtx'[word["mtx"]].depth = d
         /\ \A u \in Threads : pc[u] = "publish" /\ slot[u] = "mtx" => mtx'[m[u]] = mtx[m[u]]
<1> DEFINE w == word["mtx"]
<1>1. mtx \in [Indices -> RealMutexes] /\ mtx[w] \in RealMutexes
  BY DEF ObjectsInv, ObjectsTypeOK
<1>2. /\ mtx'[w] = [mtx[w] EXCEPT !.owner = o, !.depth = d]
      /\ \A i \in Indices \ {w} : mtx'[i] = mtx[i]
  BY <1>1
<1>3. /\ mtx'[w] \in RealMutexes /\ mtx'[w].owner = o /\ mtx'[w].depth = d
      /\ mtx'[w].live = mtx[w].live /\ mtx'[w].recursive = mtx[w].recursive
  BY <1>1, <1>2 DEF RealMutexes
<1>4. mtx' \in [Indices -> RealMutexes]
  BY <1>1, <1>3
<1>5. WordInv'
  BY <1>3 DEF ObjectsInv, WordInv
<1>6. ASSUME NEW u \in Threads, pc[u] = "publish", slot[u] = "mtx" PROVE mtx'[m[u]] = mtx[m[u]]
  <2>1. m[u] # w /\ m[u] \in 0 .. used["mtx"] - 1
    BY <1>6 DEF ObjectsInv, ThreadInv, OwnInv, Mine
  <2>2. m[u] \in Indices
    BY <2>1, TableAssumption DEF ObjectsInv, ObjectsTypeOK, Slots, Indices
  <2> QED BY <1>2, <2>1, <2>2
<1> QED BY <1>3, <1>4, <1>5, <1>6

LEMMA EnterStep ==
  ASSUME ObjectsInv, NEW t \in Threads, m[t] # -1, pc[t] \in {"act", "reenter"},
         op[t] \in {"lock", "trylock", "wait"},
         Enter(t), Return(t), UNCHANGED <<word, used, cnd, kind>>
  PROVE  ObjectsInv'
<1> DEFINE w == word["mtx"]  x == mtx[w]
<1>1. m[t] = w /\ w \in Indices /\ Backed(w)
  BY ActsOnNamed
<1>2. x \in RealMutexes /\ x.depth \in Nat /\ holds \in [Threads -> Nat]
  BY <1>1 DEF ObjectsInv, ObjectsTypeOK, RealMutexes
<1>3. mtx' = [mtx EXCEPT ![w] = [@ EXCEPT !.owner = t, !.depth = x.depth + 1]]
  BY <1>1 DEF Enter, ObjectsInv, ObjectsTypeOK, RealMutexes
<1>4. /\ mtx' \in [Indices -> RealMutexes] /\ WordInv'
      /\ mtx'[w].owner = t /\ mtx'[w].depth = x.depth + 1
      /\ \A u \in Threads : pc[u] = "publish" /\ slot[u] = "mtx" => mtx'[m[u]] = mtx[m[u]]
  <2>1. t \in Threads \cup {NoThread} /\ x.depth + 1 \in Nat
    BY <1>2
  <2> HIDE DEF x
  <2> QED BY <1>1, <1>3, <2>1, HandOver
<1>5. holds' = [holds EXCEPT ![t] = holds[t] + 1]
  BY DEF Enter
<1>6. HoldInv'
  <2>1. /\ x.owner = NoThread <=> x.depth = 0
        /\ \A u \in Threads : holds[u] = IF x.owner = u THEN x.depth ELSE 0
    BY <1>1 DEF ObjectsInv, HoldInv
  <2>2. x.owner \in {NoThread, t}
    BY <1>1 DEF Enter
  <2>3. holds'[t] = x.depth + 1 /\ \A u \in Threads \ {t} : holds'[u] = 0
    BY <1>2, <1>5, <2>1, <2>2, ThreadsAssumption
  <2> QED BY <1>1, <1>2, <1>4, <2>3, ThreadsAssumption DEF HoldInv
<1>7. ObjectsTypeOK'
  BY <1>2, <1>4, <1>5, AfterReturn DEF ObjectsInv, ObjectsTypeOK
<1>8. ASSUME NEW u \in Threads \ {t} PROVE ThreadInv(u)'
  <2>1. \A v \in Threads \ {t} : Untouched(v)
    BY <1>2, <1>5, AfterReturn
  <2> QED BY <1>4, <2>1, AfterReturn, OthersKeep, OthersOwn DEF ThreadInv
<1> QED BY <1>4, <1>6, <1>7, <1>8, AfterReturn DEF ObjectsInv

(* One level of the mutex that the thread holds is left. *)
LEMMA LeaveStep ==
  ASSUME ObjectsInv, NEW t \in Threads, m[t] # -1, pc[t] = "act", op[t] \in {"unlock", "wait"},
         Leave(t), UNCHANGED <<word, used, cnd, kind>>, holds' = [holds EXCEPT ![t] = holds[t] - 1]
  PROVE  /\ mtx' \in [Indices -> RealMutexes] /\ holds' \in [Threads -> Nat]
         /\ WordInv' /\ HoldInv'
         /\ \A u \in Threads : pc[u] = "publish" /\ slot[u] = "mtx" => mtx'[m[u]] = mtx[m[u]]
<1> DEFINE w == word["mtx"]  x == mtx[w]  o == IF x.depth = 1 THEN NoThread ELSE t
<1>1. m[t] = w /\ w \in Indices /\ Backed(w)
  BY ActsOnNamed
<1>2. x \in RealMutexes /\ x.depth \in Nat /\ holds \in [Threads -> Nat]
  BY <1>1 DEF ObjectsInv, ObjectsTypeOK, RealMutexes
<1>3. /\ x.owner = NoThread <=> x.depth = 0
      /\ \A u \in Threads : holds[u] = IF x.owner = u THEN x.depth ELSE 0
  BY <1>1 DEF ObjectsInv, HoldInv
<1>4. holds[t] > 0
  BY DEF ObjectsInv, ThreadInv, CallInv
<1>5. x.owner = t /\ x.depth > 0 /\ x.depth = holds[t]
  BY <1>2, <1>3, <1>4
<1>6. mtx' = [mtx EXCEPT ![w] = [@ EXCEPT !.owner = o, !.depth = x.depth - 1]]
  <2>1. mtx' = [mtx EXCEPT ![w].depth = x.depth - 1, ![w].owner = o]
    BY <1>1, <1>5 DEF Leave
  <2> QED BY <1>1, <1>2, <2>1 DEF ObjectsInv, ObjectsTypeOK, RealMutexes
<1>7. /\ mtx' \in [Indices -> RealMutexes] /\ WordInv'
      /\ mtx'[w].owner = o /\ mtx'[w].depth = x.depth - 1
      /\ \A u \in Threads : pc[u] = "publish" /\ slot[u] = "mtx" => mtx'[m[u]] = mtx[m[u]]
  <2>1. o \in Threads \cup {NoThread} /\ x.depth - 1 \in Nat
    BY <1>2, <1>5
  <2> HIDE DEF x, o
  <2> QED BY <1>1, <1>6, <2>1, HandOver
<1>8. HoldInv'
  <2>1. holds'[t] = x.depth - 1 /\ \A u \in Threads \ {t} : holds'[u] = 0
    BY <1>2, <1>3, <1>5
  <2> QED BY <1>1, <1>2, <1>5, <1>7, <2>1, ThreadsAssumption DEF HoldInv
<1> QED BY <1>2, <1>4, <1>7, <1>8

LEMMA UnlockStep ==
  ASSUME ObjectsInv, NEW t \in Threads, Unlock(t)
  PROVE  ObjectsInv'
<1>1. /\ m[t] # -1 /\ pc[t] = "act" /\ op[t] = "unlock" /\ Leave(t) /\ Return(t)
      /\ UNCHANGED <<word, used, cnd, kind>> /\ holds' = [holds EXCEPT ![t] = holds[t] - 1]
  BY DEF Unlock
<1>2. /\ mtx' \in [Indices -> RealMutexes] /\ holds' \in [Threads -> Nat]
      /\ WordInv' /\ HoldInv'
      /\ \A u \in Threads : pc[u] = "publish" /\ slot[u] = "mtx" => mtx'[m[u]] = mtx[m[u]]
  BY <1>1, LeaveStep
<1>3. ObjectsTypeOK'
  BY <1>1, <1>2, AfterReturn DEF ObjectsInv, ObjectsTypeOK
<1>4. ASSUME NEW u \in Threads \ {t} PROVE ThreadInv(u)'
  <2>1. \A v \in Threads \ {t} : Untouched(v)
    BY <1>1, AfterReturn DEF ObjectsInv, ObjectsTypeOK
  <2> QED BY <1>1, <1>2, <2>1, AfterReturn, OthersKeep, OthersOwn DEF ThreadInv
<1> QED BY <1>1, <1>2, <1>3, <1>4, AfterReturn DEF ObjectsInv

LEMMA WaitStep ==
  ASSUME ObjectsInv, NEW t \in Threads, Wait(t)
  PROVE  ObjectsInv'
<1>1. /\ m[t] # -1 /\ pc[t] = "act" /\ op[t] = "wait" /\ Leave(t)
      /\ UNCHANGED <<word, used, cnd, kind, op, slot, cur, c, m>>
      /\ pc' = [pc EXCEPT ![t] = "waiting"]
  BY DEF Wait, locals
<1>2. CallInv(t) /\ ResolvedInv(t) /\ holds[t] = 1 /\ pc \in [Threads -> Resolving \cup {"idle", "act", "waiting", "reenter"}]
      /\ holds \in [Threads -> Nat]
  BY <1>1 DEF ObjectsInv, ObjectsTypeOK, ThreadInv, CallInv
<1>3. holds' = [holds EXCEPT ![t] = holds[t] - 1]
  BY <1>2 DEF Wait
<1>4. /\ mtx' \in [Indices -> RealMutexes] /\ holds' \in [Threads -> Nat]
      /\ WordInv' /\ HoldInv'
      /\ \A u \in Threads : pc[u] = "publish" /\ slot[u] = "mtx" => mtx'[m[u]] = mtx[m[u]]
  BY <1>1, <1>3, LeaveStep
<1>5. ObjectsTypeOK'
  BY <1>1, <1>4 DEF ObjectsInv, ObjectsTypeOK
<1>6. ThreadInv(t)'
  BY <1>1, <1>2, <1>3 DEF ThreadInv, CallInv, ResolvedInv, LoadedInv, OwnInv, Resolving
<1>7. ASSUME NEW u \in Threads \ {t} PROVE ThreadInv(u)'
  <2>1. \A v \in Threads \ {t} : Untouched(v)
    BY <1>1, <1>2, <1>3 DEF Untouched
  <2>2. pc'[t] # "publish"
    BY <1>1, <1>2
  <2> QED BY <1>1, <1>4, <2>1, <2>2, OthersKeep, OthersOwn DEF ThreadInv
<1> QED BY <1>4, <1>5, <1>6, <1>7 DEF ObjectsInv

(* Some waiting threads go on to take the mutex again.                     *)
LEMMA WokenKeep ==
  ASSUME ObjectsInv, NEW u \in Threads, pc[u] = "waiting", pc'[u] = "reenter",
         op'[u] = op[u], slot'[u] = slot[u], cur'[u] = cur[u], c'[u] = c[u], m'[u] = m[u],
         UNCHANGED <<word, holds>>
  PROVE  ThreadInv(u)'
<1>1. CallInv(u) /\ ResolvedInv(u)
  BY DEF ObjectsInv, ThreadInv
<1> QED BY <1>1 DEF ThreadInv, CallInv, ResolvedInv, LoadedInv, OwnInv, Resolving

LEMMA CapPassesStep ==
  ASSUME ObjectsInv, NEW t \in Threads, CapPasses(t)
  PROVE  ObjectsInv'
<1>1. /\ pc[t] = "waiting" /\ pc' = [pc EXCEPT ![t] = "reenter"]
      /\ UNCHANGED <<word, used, mtx, cnd, op, slot, cur, c, m, holds, kind>>
  BY DEF CapPasses, shim, locals, game
<1>2. ObjectsTypeOK'
  BY <1>1 DEF ObjectsInv, ObjectsTypeOK
<1>3. WordInv' /\ HoldInv'
  BY <1>1 DEF ObjectsInv, WordInv, HoldInv
<1>4. pc'[t] = "reenter" /\ \A v \in Threads \ {t} : Untouched(v)
  BY <1>1 DEF ObjectsInv, ObjectsTypeOK, Untouched
<1>5. ThreadInv(t)'
  BY <1>1, <1>4, WokenKeep
<1>6. \A u \in Threads \ {t} : ThreadInv(u)'
  BY <1>1, <1>4, OthersKeep, OthersOwn DEF ThreadInv
<1> QED BY <1>2, <1>3, <1>5, <1>6 DEF ObjectsInv

LEMMA WakeStep ==
  ASSUME ObjectsInv, NEW t \in Threads, pc[t] = "act", NEW S \in SUBSET Threads,
         \A u \in S : pc[u] = "waiting",
         Wake(t, S), UNCHANGED <<shim, game>>
  PROVE  ObjectsInv'
<1>1. UNCHANGED <<word, used, mtx, cnd, holds, kind>>
  BY DEF shim, game
<1>2. /\ pc' = [u \in Threads |-> IF u \in S THEN "reenter" ELSE IF u = t THEN "idle" ELSE pc[u]]
      /\ t \notin S /\ Forget(t)
  BY DEF Wake
<1>3. /\ \A u \in Threads \ {t} : /\ op'[u] = op[u] /\ slot'[u] = slot[u] /\ cur'[u] = cur[u]
                                  /\ c'[u] = c[u] /\ m'[u] = m[u]
      /\ op'[t] = "none" /\ slot'[t] = "mtx" /\ pc'[t] = "idle"
  BY <1>2 DEF Forget, ObjectsInv, ObjectsTypeOK
<1>4. ObjectsTypeOK'
  <2>1. /\ op' \in [Threads -> Ops \cup {"none"}] /\ slot' \in [Threads -> Slots]
        /\ cur' \in [Threads -> Words]
        /\ c' \in [Threads -> {-1} \cup Indices] /\ m' \in [Threads -> {-1} \cup Indices]
    BY <1>2 DEF Forget, ObjectsInv, ObjectsTypeOK, Slots, Words, Kinds
  <2>2. pc' \in [Threads -> Resolving \cup {"idle", "act", "waiting", "reenter"}]
    BY <1>2 DEF ObjectsInv, ObjectsTypeOK
  <2> QED BY <1>1, <2>1, <2>2 DEF ObjectsInv, ObjectsTypeOK
<1>5. WordInv' /\ HoldInv'
  BY <1>1 DEF ObjectsInv, WordInv, HoldInv
<1>6. ThreadInv(t)'
  BY <1>3 DEF ThreadInv, CallInv, ResolvedInv, LoadedInv, OwnInv, CondOps
<1>7. ASSUME NEW u \in S PROVE ThreadInv(u)'
  BY <1>1, <1>2, <1>3, WokenKeep
<1>8. ASSUME NEW u \in Threads \ ({t} \cup S) PROVE ThreadInv(u)'
  <2>1. Untouched(u)
    BY <1>1, <1>2, <1>3 DEF Untouched
  <2>2. CallInv(u)' /\ ResolvedInv(u)' /\ LoadedInv(u)'
    BY <1>1, <2>1, OthersKeep
  <2>3. OwnInv(u)'
    <3>1. OwnInv(u)
      BY DEF ObjectsInv, ThreadInv
    <3>2. Mine(u)' = Mine(u) /\ \A v \in Threads \ {t} : Mine(v)' = Mine(v)
      BY <1>3 DEF Mine
    <3>3. \A v \in Threads : pc'[v] = "publish" => pc[v] = "publish" /\ v # t
      BY <1>2
    <3> QED BY <1>1, <1>3, <2>1, <3>1, <3>2, <3>3 DEF OwnInv, Untouched
  <2> QED BY <2>2, <2>3 DEF ThreadInv
<1> QED BY <1>4, <1>5, <1>6, <1>7, <1>8 DEF ObjectsInv

LEMMA SignalStep ==
  ASSUME ObjectsInv, NEW t \in Threads, Signal(t)
  PROVE  ObjectsInv'
<1>1. pc[t] = "act" /\ UNCHANGED <<shim, game>>
  BY DEF Signal
<1>2. CASE Wake(t, Waiters(c[t]))
  BY <1>1, <1>2, WakeStep DEF Waiters
<1>3. ASSUME NEW u \in Waiters(c[t]), Wake(t, {u}) PROVE ObjectsInv'
  BY <1>1, <1>3, WakeStep DEF Waiters
<1>4. CASE Return(t)
  BY <1>1, <1>4, ReturnStep
<1> QED BY <1>2, <1>3, <1>4 DEF Signal

LEMMA ActStep ==
  ASSUME ObjectsInv, NEW t \in Threads, Act(t)
  PROVE  ObjectsInv'
<1>1. CASE ActFails(t) \/ TryLockBusy(t) \/ Initialised(t)
  BY <1>1, ReturnStep DEF ActFails, TryLockBusy, Initialised
<1>2. CASE Lock(t)
  BY <1>2, EnterStep DEF Lock
<1> QED BY <1>1, <1>2, UnlockStep, WaitStep, SignalStep DEF Act

LEMMA ReenterStep ==
  ASSUME ObjectsInv, NEW t \in Threads, Reenter(t)
  PROVE  ObjectsInv'
<1>1. op[t] = "wait" /\ m[t] # -1
  BY DEF ObjectsInv, ThreadInv, CallInv, Reenter
<1> QED BY <1>1, EnterStep DEF Reenter

LEMMA ObjectsStutter == ObjectsInv /\ UNCHANGED vars => ObjectsInv'
  BY DEF vars, shim, locals, game, ObjectsInv, ObjectsTypeOK, WordInv, HoldInv,
         ThreadInv, CallInv, ResolvedInv, LoadedInv, OwnInv, Mine

(* The invariant of mutex_of, cond_of and the calls that use them          *)
(* (imports_helpers.c, lines 133-345): what the word of an object names,   *)
(* who holds the real mutex, and what each thread has resolved or reserved *)
(* on the way, whatever the number of threads and the size of the tables.  *)
THEOREM ObjectsInvariant == Spec => []ObjectsInv
<1>1. ObjectsInv /\ [Next]_vars => ObjectsInv'
  <2> SUFFICES ASSUME ObjectsInv, [Next]_vars PROVE ObjectsInv'
    OBVIOUS
  <2>1. ASSUME NEW t \in Threads, NEW o \in Ops \ {"init"}, Call(t, o) PROVE ObjectsInv'
    BY <2>1, CallStep
  <2>2. ASSUME NEW t \in Threads, NEW k \in Kinds, CallInit(t, k) PROVE ObjectsInv'
    BY <2>2, CallInitStep
  <2>3. ASSUME NEW t \in Threads, Resolve(t) PROVE ObjectsInv'
    BY <2>3, LoadStep, ReserveStep, ReserveFailsStep, PublishStep DEF Resolve
  <2>4. ASSUME NEW t \in Threads, Act(t) \/ CapPasses(t) \/ Reenter(t) PROVE ObjectsInv'
    BY <2>4, ActStep, CapPassesStep, ReenterStep
  <2>5. ASSUME NEW s \in Slots, Destroy(s) PROVE ObjectsInv'
    BY <2>5, DestroyStep
  <2>6. CASE UNCHANGED vars
    BY <2>6, ObjectsStutter
  <2> QED BY <2>1, <2>2, <2>3, <2>4, <2>5, <2>6 DEF Next
<1> QED BY <1>1, ObjectsInit, PTL DEF Spec

(* Mutual exclusion over the race to back a mutex: whoever is inside owns  *)
(* the one real mutex that the word names, of its kind and at its depth.   *)
THEOREM MutualExclusion == Spec => []HoldersOwn
<1>1. ObjectsInv => HoldersOwn
  <2> SUFFICES ASSUME ObjectsInv, NEW t \in Threads, holds[t] > 0
               PROVE  /\ Backed(word["mtx"])
                      /\ mtx[word["mtx"]] = [live |-> TRUE, recursive |-> (kind = Recursive),
                                             owner |-> t, depth |-> holds[t]]
    BY DEF HoldersOwn
  <2> DEFINE x == mtx[word["mtx"]]
  <2>1. Backed(word["mtx"]) /\ holds[t] = (IF x.owner = t THEN x.depth ELSE 0)
    BY DEF ObjectsInv, HoldInv
  <2>2. word["mtx"] \in Indices
    BY <2>1 DEF ObjectsInv, ObjectsTypeOK, Words, Kinds, Normal, Recursive, Backed, Slots
  <2>3. x \in RealMutexes /\ x.live /\ x.recursive = (kind = Recursive)
    BY <2>1, <2>2 DEF ObjectsInv, ObjectsTypeOK, WordInv
  <2>4. x.owner = t /\ x.depth = holds[t]
    BY <2>1
  <2>5. x = [live |-> x.live, recursive |-> x.recursive, owner |-> x.owner, depth |-> x.depth]
    BY <2>3 DEF RealMutexes
  <2>6. x.live = TRUE
    BY <2>3 DEF RealMutexes
  <2> QED BY <2>1, <2>3, <2>4, <2>5, <2>6
<1> QED BY <1>1, ObjectsInvariant, PTL

(* No two threads are ever inside, which is what the game locks for. *)
THEOREM OneInside == Spec => [](\A t, u \in Threads : holds[t] > 0 /\ holds[u] > 0 => t = u)
<1>1. ObjectsInv => \A t, u \in Threads : holds[t] > 0 /\ holds[u] > 0 => t = u
  <2> SUFFICES ASSUME ObjectsInv, NEW t \in Threads, NEW u \in Threads, holds[t] > 0, holds[u] > 0
               PROVE  t = u
    OBVIOUS
  <2>1. mtx[word["mtx"]].owner = t /\ mtx[word["mtx"]].owner = u
    BY DEF ObjectsInv, HoldInv
  <2> QED BY <2>1
<1> QED BY <1>1, ObjectsInvariant, PTL

(* One thread wins the backing and the loser adopts the winner's object    *)
(* (lines 133-135): threads that act on the same object of the game act on *)
(* the same real object, and it is live.                                   *)
THEOREM Agreement == Spec => []AllAgree
<1>1. ObjectsInv => AllAgree
  <2> SUFFICES ASSUME ObjectsInv, NEW t \in Threads
               PROVE  /\ pc[t] \in {"act", "waiting", "reenter"} /\ slot[t] = "mtx" /\ m[t] # -1
                           => m[t] = word["mtx"] /\ mtx[m[t]].live
                      /\ pc[t] \in {"act", "waiting"} /\ op[t] \in CondOps /\ c[t] # -1
                           => c[t] = word["cnd"] /\ c[t] \in cnd
    BY DEF AllAgree, CondOps
  <2>1. ResolvedInv(t) /\ WordInv
    BY DEF ObjectsInv, ThreadInv
  <2>2. m[t] \in {-1} \cup Indices /\ c[t] \in {-1} \cup Indices
    BY DEF ObjectsInv, ObjectsTypeOK
  <2> QED BY <2>1, <2>2 DEF ResolvedInv, WordInv, Backed, Indices, Resolving
<1> QED BY <1>1, ObjectsInvariant, PTL

-----------------------------------------------------------------------------
(* Keys, values and pthread_once. *)

KeyBlocks == [KeySlots -> Values \cup {NULL}]

KeysTypeOK ==
  /\ once \in {0, 1} /\ runs \in Nat
  /\ ready \in BOOLEAN
  /\ table \in [KeySlots -> {"free", "plain", "dtor"}]
  /\ block \in [Callers -> KeyBlocks]
  /\ allocated \subseteq Callers
  /\ stage \in [Callers -> {"running", "init", "dtors", "gone", "crashed"}]
  /\ at \in [Callers -> 1 .. FAKE_KEYS_MAX + 1] /\ again \in [Callers -> BOOLEAN]
  /\ iter \in [Callers -> Nat] /\ calling \in [Callers -> Values \cup {NULL}]
  /\ owner \in [Values -> KeySlots \cup {0}]
  /\ current \in [Callers -> KeyBlocks] /\ left \in [Callers -> KeyBlocks]
  /\ destroyed \in [Values -> Nat]

(* What a thread has in a slot: under the present key, or from before. *)
Kept(t, s) == IF current[t][s] # NULL THEN current[t][s] ELSE left[t][s]

(* A block holds what its thread has, in slots of deleted keys too; a      *)
(* thread without one has nothing.  A destructor is called at the end of   *)
(* a thread, for a slot of the table.                                      *)
BlocksInv ==
  /\ allocated # {} \/ (\E s \in KeySlots : table[s] # "free") => ready
  /\ \A t \in Callers :
       /\ t \in allocated => \A s \in KeySlots : block[t][s] = Kept(t, s)
       /\ t \notin allocated => \A s \in KeySlots : Kept(t, s) = NULL
       /\ stage[t] = "dtors" => t \in allocated
       /\ calling[t] # NULL => stage[t] \in {"dtors", "crashed"} /\ at[t] \in KeySlots

(* A value is in one block at most, in the slot it was set in, or with one *)
(* destructor at most; when it has been destroyed it is in neither.        *)
ValuesInv ==
  /\ \A t \in Callers, s \in KeySlots : Kept(t, s) # NULL =>
       /\ owner[Kept(t, s)] = s
       /\ destroyed[Kept(t, s)] = 0
       /\ \A u \in Callers : u # t => Kept(u, s) # Kept(t, s)
       /\ \A u \in Callers : calling[u] # Kept(t, s)
  /\ \A t \in Callers : calling[t] # NULL =>
       /\ owner[calling[t]] # 0
       /\ destroyed[calling[t]] = 0
       /\ \A u \in Callers : u # t => calling[u] # calling[t]
  /\ \A v \in Values : owner[v] = 0 => destroyed[v] = 0
  /\ \A v \in Values : destroyed[v] <= 1

KeysInv == KeysTypeOK /\ runs = once /\ BlocksInv /\ ValuesInv

LEMMA KeysInitInv == KeysInit => KeysInv
<1> SUFFICES ASSUME KeysInit PROVE KeysInv
  OBVIOUS
<1>1. NoBlock \in KeyBlocks
  BY DEF NoBlock, KeyBlocks
<1>2. KeysTypeOK
  <2>1. at \in [Callers -> 1 .. FAKE_KEYS_MAX + 1] /\ destroyed \in [Values -> Nat]
    BY KeysAssumption DEF KeysInit
  <2>2. again \in [Callers -> BOOLEAN] /\ ready \in BOOLEAN
    BY DEF KeysInit
  <2>3. block \in [Callers -> KeyBlocks] /\ current \in [Callers -> KeyBlocks] /\ left \in [Callers -> KeyBlocks]
    BY <1>1 DEF KeysInit
  <2>4. owner \in [Values -> KeySlots \cup {0}] /\ once \in {0, 1} /\ runs \in Nat
    BY DEF KeysInit
  <2>5. iter \in [Callers -> Nat] /\ calling \in [Callers -> Values \cup {NULL}]
    BY DEF KeysInit
  <2> QED BY <2>1, <2>2, <2>3, <2>4, <2>5 DEF KeysInit, KeysTypeOK
<1>3. \A t \in Callers : calling[t] = NULL /\ \A s \in KeySlots : Kept(t, s) = NULL
  BY DEF KeysInit, NoBlock, Kept
<1>4. BlocksInv
  BY <1>3 DEF KeysInit, BlocksInv
<1>5. ValuesInv
  BY <1>3 DEF KeysInit, ValuesInv
<1> QED BY <1>2, <1>4, <1>5 DEF KeysInit, KeysInv

(* A step that leaves alone what the threads have, and who destroys it. *)
LEMMA SameValues ==
  ASSUME KeysInv, UNCHANGED <<owner, destroyed, calling>>,
         \A t \in Callers, s \in KeySlots : Kept(t, s)' = Kept(t, s)
  PROVE  ValuesInv'
BY DEF KeysInv, ValuesInv

LEMMA OnceStep ==
  ASSUME KeysInv, NEW t \in Callers, Once(t) \/ InitDone(t) \/ Create(t)
  PROVE  KeysInv'
<1>1. UNCHANGED <<ready, table, block, allocated, at, again, iter, calling, destroyed, owner, current, left>>
  BY DEF Once, InitDone, Create, keys, dtors, views
<1>2. /\ stage' \in [Callers -> {"running", "init", "dtors", "gone", "crashed"}]
      /\ \A u \in Callers : stage'[u] = "dtors" => stage[u] = "dtors"
      /\ \A u \in Callers : stage[u] \in {"dtors", "crashed"} => stage'[u] = stage[u]
      /\ once' \in {0, 1} /\ runs' \in Nat /\ runs' = once'
  BY DEF Once, InitDone, Create, Running, Goto, KeysInv, KeysTypeOK
<1>3. \A u \in Callers, r \in KeySlots : Kept(u, r)' = Kept(u, r)
  BY <1>1 DEF Kept
<1>4. KeysTypeOK' /\ BlocksInv'
  BY <1>1, <1>2, <1>3 DEF KeysInv, KeysTypeOK, BlocksInv
<1> QED BY <1>1, <1>2, <1>3, <1>4, SameValues DEF KeysInv

LEMMA KeyCreateStep ==
  ASSUME KeysInv, NEW t \in Callers, NEW k \in {"plain", "dtor"}, KeyCreate(t, k)
  PROVE  KeysInv'
<1>1. /\ UNCHANGED <<once, runs, block, allocated, stage, at, again, iter, calling, destroyed, owner>>
      /\ ready' = TRUE
  BY DEF KeyCreate, dtors
<1>2. /\ table' \in [KeySlots -> {"free", "plain", "dtor"}]
      /\ current' \in [Callers -> KeyBlocks] /\ left' \in [Callers -> KeyBlocks]
      /\ \A u \in Callers, r \in KeySlots : Kept(u, r)' = Kept(u, r)
  <2>1. CASE UNCHANGED <<table, current, left>>
    BY <2>1 DEF KeysInv, KeysTypeOK, Kept
  <2>2. ASSUME NEW s \in KeySlots, TakeSlot(s, k)
        PROVE  /\ table' \in [KeySlots -> {"free", "plain", "dtor"}]
               /\ current' \in [Callers -> KeyBlocks] /\ left' \in [Callers -> KeyBlocks]
               /\ \A u \in Callers, r \in KeySlots : Kept(u, r)' = Kept(u, r)
    <3>1. table' \in [KeySlots -> {"free", "plain", "dtor"}]
      BY <2>2 DEF TakeSlot, KeysInv, KeysTypeOK
    <3>2. \A u \in Callers : /\ current[u] \in KeyBlocks /\ left[u] \in KeyBlocks
                             /\ current'[u] = [current[u] EXCEPT ![s] = NULL]
                             /\ left'[u] = IF current[u][s] = NULL THEN left[u]
                                           ELSE [left[u] EXCEPT ![s] = current[u][s]]
      BY <2>2 DEF TakeSlot, KeysInv, KeysTypeOK
    <3>3. ASSUME NEW u \in Callers
          PROVE  /\ current'[u] \in KeyBlocks /\ left'[u] \in KeyBlocks
                 /\ \A r \in KeySlots : Kept(u, r)' = Kept(u, r)
      <4>1. current[u] \in KeyBlocks /\ left[u] \in KeyBlocks /\ current'[u] = [current[u] EXCEPT ![s] = NULL]
        BY <3>2
      <4>2. CASE current[u][s] = NULL
        <5>1. left'[u] = left[u]
          BY <3>2, <4>2
        <5> QED BY <4>1, <4>2, <5>1 DEF Kept, KeyBlocks
      <4>3. CASE current[u][s] # NULL
        <5>1. left'[u] = [left[u] EXCEPT ![s] = current[u][s]]
          BY <3>2, <4>3
        <5> QED BY <4>1, <4>3, <5>1 DEF Kept, KeyBlocks
      <4> QED BY <4>2, <4>3
    <3>4. current' \in [Callers -> KeyBlocks] /\ left' \in [Callers -> KeyBlocks]
      <4>1. current' = [u \in Callers |-> current'[u]] /\ left' = [u \in Callers |-> left'[u]]
        BY <2>2 DEF TakeSlot
      <4> QED BY <3>3, <4>1
    <3> QED BY <3>1, <3>3, <3>4
  <2> QED BY <2>1, <2>2 DEF KeyCreate
<1>3. KeysTypeOK' /\ BlocksInv'
  BY <1>1, <1>2 DEF KeysInv, KeysTypeOK, BlocksInv
<1> QED BY <1>1, <1>2, <1>3, SameValues DEF KeysInv

LEMMA KeyDeleteStep ==
  ASSUME KeysInv, NEW t \in Callers, NEW s \in KeySlots, KeyDelete(t, s)
  PROVE  KeysInv'
<1>1. UNCHANGED <<once, runs, ready, block, allocated, stage, at, again, iter, calling, destroyed, owner, current, left>>
  BY DEF KeyDelete, dtors, views
<1>2. /\ table' \in [KeySlots -> {"free", "plain", "dtor"}]
      /\ \A r \in KeySlots : table'[r] # "free" => table[r] # "free"
  BY DEF KeyDelete, KeysInv, KeysTypeOK
<1>3. \A u \in Callers, r \in KeySlots : Kept(u, r)' = Kept(u, r)
  BY <1>1 DEF Kept
<1>4. KeysTypeOK' /\ BlocksInv'
  BY <1>1, <1>2, <1>3 DEF KeysInv, KeysTypeOK, BlocksInv
<1> QED BY <1>1, <1>3, <1>4, SameValues DEF KeysInv

LEMMA SetSpecificStep ==
  ASSUME KeysInv, NEW t \in Callers, NEW s \in KeySlots, NEW v \in Values \cup {NULL}, SetSpecific(t, s, v)
  PROVE  KeysInv'
<1>1. /\ UNCHANGED <<once, runs, ready, table, stage, at, again, iter, calling, destroyed>>
      /\ ready /\ stage[t] = "running"
      /\ allocated' = allocated \cup {t}
      /\ current' = [current EXCEPT ![t][s] = v] /\ left' = [left EXCEPT ![t][s] = NULL]
      /\ owner' = IF v = NULL THEN owner ELSE [owner EXCEPT ![v] = s]
  BY DEF SetSpecific, dtors, Running
<1>2. PICK b \in KeyBlocks : /\ block' = [block EXCEPT ![t] = [b EXCEPT ![s] = v]]
                             /\ \A r \in KeySlots : b[r] = Kept(t, r)
  <2>1. NoBlock \in KeyBlocks /\ \A r \in KeySlots : NoBlock[r] = NULL
    BY DEF NoBlock, KeyBlocks
  <2>2. block[t] \in KeyBlocks
    BY DEF KeysInv, KeysTypeOK
  <2>3. CASE t \in allocated
    BY <2>2, <2>3 DEF SetSpecific, KeysInv, KeysTypeOK, BlocksInv
  <2>4. CASE t \notin allocated
    BY <2>1, <2>4 DEF SetSpecific, NewBlock, KeysInv, KeysTypeOK, BlocksInv
  <2> QED BY <2>3, <2>4
<1>3. /\ current'[t] = [current[t] EXCEPT ![s] = v] /\ left'[t] = [left[t] EXCEPT ![s] = NULL]
      /\ block'[t] = [b EXCEPT ![s] = v]
      /\ current[t] \in KeyBlocks /\ left[t] \in KeyBlocks
      /\ \A u \in Callers \ {t} : current'[u] = current[u] /\ left'[u] = left[u] /\ block'[u] = block[u]
  BY <1>1, <1>2 DEF KeysInv, KeysTypeOK
<1>4. KeysTypeOK'
  <2>1. current'[t] \in KeyBlocks /\ left'[t] \in KeyBlocks /\ block'[t] \in KeyBlocks
    BY <1>3 DEF KeyBlocks
  <2>2. current' \in [Callers -> KeyBlocks] /\ left' \in [Callers -> KeyBlocks] /\ block' \in [Callers -> KeyBlocks]
    BY <1>1, <1>2, <1>3, <2>1 DEF KeysInv, KeysTypeOK
  <2>3. owner' \in [Values -> KeySlots \cup {0}]
    BY <1>1 DEF KeysInv, KeysTypeOK
  <2> QED BY <1>1, <2>2, <2>3 DEF KeysInv, KeysTypeOK
<1>5. /\ Kept(t, s)' = v /\ \A r \in KeySlots \ {s} : Kept(t, r)' = Kept(t, r)
      /\ \A u \in Callers \ {t}, r \in KeySlots : Kept(u, r)' = Kept(u, r)
  BY <1>3 DEF Kept, KeyBlocks
<1>6. BlocksInv'
  <2>1. block'[t][s] = v /\ \A r \in KeySlots \ {s} : block'[t][r] = b[r]
    BY <1>3 DEF KeyBlocks
  <2>2. \A u \in Callers \ {t} : /\ u \in allocated' <=> u \in allocated
                                 /\ block'[u] = block[u]
    BY <1>1, <1>3
  <2>3. block'[t][s] = Kept(t, s)'
    BY <1>5, <2>1
  <2>4. \A r \in KeySlots \ {s} : block'[t][r] = Kept(t, r)'
    BY <1>2, <1>5, <2>1
  <2>5. \A r \in KeySlots : block'[t][r] = Kept(t, r)'
    BY <2>3, <2>4
  <2> QED BY <1>1, <1>5, <2>2, <2>5 DEF KeysInv, BlocksInv
<1>7. ValuesInv'
  <2>1. v # NULL => v \in Values /\ owner[v] = 0 /\ destroyed[v] = 0
    BY DEF SetSpecific, KeysInv, ValuesInv
  <2>2. \A u \in Callers, r \in KeySlots : Kept(u, r) # NULL => Kept(u, r) # v /\ Kept(u, r) \in Values
    <3> SUFFICES ASSUME NEW u \in Callers, NEW r \in KeySlots, Kept(u, r) # NULL
                 PROVE  Kept(u, r) # v /\ Kept(u, r) \in Values
      OBVIOUS
    <3>1. Kept(u, r) \in Values
      BY DEF KeysInv, KeysTypeOK, KeyBlocks, Kept
    <3>2. owner[Kept(u, r)] = r /\ r # 0
      BY DEF KeysInv, ValuesInv, KeySlots
    <3> QED BY <2>1, <3>1, <3>2
  <2>3. \A u \in Callers : calling[u] # NULL => calling[u] # v /\ calling[u] \in Values
    BY <2>1 DEF KeysInv, KeysTypeOK, ValuesInv
  <2>4. \A w \in Values : w # v => owner'[w] = owner[w]
    BY <1>1 DEF KeysInv, KeysTypeOK
  <2>5. v # NULL => owner'[v] = s
    BY <1>1, <2>1 DEF KeysInv, KeysTypeOK
  <2>6. ASSUME NEW u \in Callers, NEW r \in KeySlots, Kept(u, r)' # NULL
        PROVE  /\ owner'[Kept(u, r)'] = r
               /\ destroyed'[Kept(u, r)'] = 0
               /\ \A x \in Callers : x # u => Kept(x, r)' # Kept(u, r)'
               /\ \A x \in Callers : calling'[x] # Kept(u, r)'
    <3>1. CASE u = t /\ r = s
      BY <1>1, <1>5, <2>1, <2>2, <2>3, <2>5, <2>6, <3>1
    <3>2. CASE ~(u = t /\ r = s)
      <4>1. Kept(u, r)' = Kept(u, r)
        BY <1>5, <3>2
      <4>2. \A x \in Callers : Kept(x, r)' \in {Kept(x, r), v}
        BY <1>5
      <4> QED BY <1>1, <2>2, <2>4, <2>6, <4>1, <4>2 DEF KeysInv, ValuesInv
    <3> QED BY <3>1, <3>2
  <2>7. \A w \in Values : (owner'[w] = 0 => destroyed'[w] = 0) /\ destroyed'[w] <= 1
    BY <1>1, <2>1, <2>4, <2>5 DEF KeysInv, ValuesInv, KeySlots
  <2>8. \A u \in Callers : calling'[u] # NULL =>
          /\ owner'[calling'[u]] # 0
          /\ destroyed'[calling'[u]] = 0
          /\ \A x \in Callers : x # u => calling'[x] # calling'[u]
    BY <1>1, <2>3, <2>4 DEF KeysInv, ValuesInv
  <2> QED BY <2>6, <2>7, <2>8 DEF ValuesInv
<1> QED BY <1>1, <1>4, <1>6, <1>7 DEF KeysInv

LEMMA ExitStep ==
  ASSUME KeysInv, NEW t \in Callers, Exit(t)
  PROVE  KeysInv'
<1>1. UNCHANGED <<once, runs, ready, table, block, allocated, calling, destroyed, owner, current, left>>
  BY DEF Exit, keys, views
<1>2. /\ stage' \in [Callers -> {"running", "init", "dtors", "gone", "crashed"}]
      /\ \A u \in Callers : stage'[u] = "dtors" => stage[u] = "dtors" \/ u \in allocated
      /\ at' \in [Callers -> 1 .. FAKE_KEYS_MAX + 1] /\ again' \in [Callers -> BOOLEAN]
      /\ iter' \in [Callers -> Nat]
  BY KeysAssumption DEF Exit, Goto, KeysInv, KeysTypeOK
<1>3. \A u \in Callers, r \in KeySlots : Kept(u, r)' = Kept(u, r)
  BY <1>1 DEF Kept
<1>4. \A u \in Callers : calling[u] # NULL => stage'[u] = stage[u] /\ at'[u] = at[u]
  BY DEF Exit, Running, Goto, KeysInv, KeysTypeOK, BlocksInv
<1>5. KeysTypeOK'
  BY <1>1, <1>2 DEF KeysInv, KeysTypeOK
<1>6. BlocksInv'
  BY <1>1, <1>2, <1>3, <1>4 DEF KeysInv, BlocksInv
<1> QED BY <1>1, <1>3, <1>5, <1>6, SameValues DEF KeysInv

LEMMA LookStep ==
  ASSUME KeysInv, NEW t \in Callers, Look(t)
  PROVE  KeysInv'
<1> PICK s \in KeySlots : s = at[t]
  BY DEF Look
<1> PICK v : v = block[t][s]
  OBVIOUS
<1>1. /\ UNCHANGED <<once, runs, ready, table, allocated, stage, again, iter, destroyed, owner>>
      /\ stage[t] = "dtors" /\ calling[t] = NULL
  BY DEF Look, Between
<1>2. t \in allocated /\ block[t] \in KeyBlocks /\ v = Kept(t, s) /\ v \in Values \cup {NULL}
  BY <1>1 DEF KeysInv, BlocksInv, KeysTypeOK, KeyBlocks
<1>3. CASE ~Due(t)
  <2>1. UNCHANGED <<calling, block, current, left>> /\ at' = [at EXCEPT ![t] = @ + 1]
    BY <1>3 DEF Look
  <2>2. at' \in [Callers -> 1 .. FAKE_KEYS_MAX + 1]
    BY <1>1, <2>1, KeysAssumption DEF KeysInv, KeysTypeOK, KeySlots
  <2>3. \A u \in Callers, r \in KeySlots : Kept(u, r)' = Kept(u, r)
    BY <2>1 DEF Kept
  <2>4. \A u \in Callers : calling[u] # NULL => at'[u] = at[u]
    BY <1>1, <2>1 DEF KeysInv, KeysTypeOK
  <2>5. KeysTypeOK' /\ BlocksInv'
    BY <1>1, <2>1, <2>2, <2>3, <2>4 DEF KeysInv, KeysTypeOK, BlocksInv
  <2> QED BY <1>1, <2>1, <2>3, <2>5, SameValues DEF KeysInv
<1>4. CASE Due(t)
  <2>1. /\ v # NULL /\ v \in Values
        /\ calling' = [calling EXCEPT ![t] = v]
        /\ block' = [block EXCEPT ![t][s] = NULL]
        /\ current' = [current EXCEPT ![t][s] = NULL] /\ left' = [left EXCEPT ![t][s] = NULL]
        /\ at' = at
    BY <1>2, <1>4 DEF Look, Due, Emptied
  <2>2. /\ current'[t] = [current[t] EXCEPT ![s] = NULL] /\ left'[t] = [left[t] EXCEPT ![s] = NULL]
        /\ block'[t] = [block[t] EXCEPT ![s] = NULL]
        /\ current[t] \in KeyBlocks /\ left[t] \in KeyBlocks
        /\ \A u \in Callers \ {t} : current'[u] = current[u] /\ left'[u] = left[u] /\ block'[u] = block[u]
    BY <1>1, <1>2, <2>1 DEF KeysInv, KeysTypeOK
  <2>3. /\ Kept(t, s)' = NULL /\ \A r \in KeySlots \ {s} : Kept(t, r)' = Kept(t, r)
        /\ \A u \in Callers \ {t}, r \in KeySlots : Kept(u, r)' = Kept(u, r)
    BY <1>1, <2>2 DEF Kept, KeyBlocks
  <2>4. calling'[t] = v /\ \A u \in Callers \ {t} : calling'[u] = calling[u]
    BY <2>1 DEF KeysInv, KeysTypeOK
  <2>5. KeysTypeOK'
    <3>1. current'[t] \in KeyBlocks /\ left'[t] \in KeyBlocks /\ block'[t] \in KeyBlocks
      BY <1>2, <2>2 DEF KeyBlocks
    <3>2. current' \in [Callers -> KeyBlocks] /\ left' \in [Callers -> KeyBlocks] /\ block' \in [Callers -> KeyBlocks]
      BY <2>1, <2>2, <3>1 DEF KeysInv, KeysTypeOK
    <3>3. calling' \in [Callers -> Values \cup {NULL}]
      BY <2>1 DEF KeysInv, KeysTypeOK
    <3> QED BY <1>1, <2>1, <3>2, <3>3 DEF KeysInv, KeysTypeOK
  <2>6. BlocksInv'
    <3>1. \A r \in KeySlots : block'[t][r] = IF r = s THEN NULL ELSE Kept(t, r)
      BY <1>2, <2>2 DEF KeyBlocks, KeysInv, BlocksInv
    <3>2. \A r \in KeySlots : block'[t][r] = Kept(t, r)'
      BY <2>3, <3>1
    <3> QED BY <1>1, <1>2, <2>1, <2>2, <2>3, <2>4, <3>2 DEF KeysInv, BlocksInv
  <2>7. ValuesInv'
    <3>1. owner[v] = s /\ s # 0 /\ destroyed[v] = 0 /\ \A u \in Callers : calling[u] # v
      BY <1>1, <1>2, <2>1 DEF KeysInv, ValuesInv, KeySlots
    <3>2. \A u \in Callers, r \in KeySlots : Kept(u, r)' # NULL => Kept(u, r)' = Kept(u, r) /\ Kept(u, r) # v
      <4> SUFFICES ASSUME NEW u \in Callers, NEW r \in KeySlots, Kept(u, r)' # NULL
                   PROVE  Kept(u, r)' = Kept(u, r) /\ Kept(u, r) # v
        OBVIOUS
      <4>1. Kept(u, r)' = Kept(u, r) /\ ~(u = t /\ r = s)
        BY <2>3
      <4> QED BY <1>1, <1>2, <2>1, <3>1, <4>1 DEF KeysInv, ValuesInv
    <3>3. ASSUME NEW u \in Callers, NEW r \in KeySlots, Kept(u, r)' # NULL
          PROVE  /\ owner'[Kept(u, r)'] = r
                 /\ destroyed'[Kept(u, r)'] = 0
                 /\ \A x \in Callers : x # u => Kept(x, r)' # Kept(u, r)'
                 /\ \A x \in Callers : calling'[x] # Kept(u, r)'
      <4>1. Kept(u, r)' = Kept(u, r) /\ Kept(u, r) # v
        BY <3>2, <3>3
      <4>2. \A x \in Callers : Kept(x, r)' \in {NULL, Kept(x, r)} /\ calling'[x] \in {v, calling[x]}
        BY <2>3, <2>4
      <4> QED BY <1>1, <3>3, <4>1, <4>2 DEF KeysInv, ValuesInv
    <3>4. \A u \in Callers : calling'[u] # NULL =>
            /\ owner'[calling'[u]] # 0
            /\ destroyed'[calling'[u]] = 0
            /\ \A x \in Callers : x # u => calling'[x] # calling'[u]
      BY <1>1, <2>4, <3>1 DEF KeysInv, ValuesInv
    <3> QED BY <1>1, <3>3, <3>4 DEF KeysInv, ValuesInv
  <2> QED BY <1>1, <2>5, <2>6, <2>7 DEF KeysInv
<1> QED BY <1>3, <1>4

LEMMA DestructorStep ==
  ASSUME KeysInv, NEW t \in Callers, Destructor(t)
  PROVE  KeysInv'
<1> DEFINE v == calling[t]
<1>1. /\ UNCHANGED <<once, runs, ready, table, block, allocated, stage, iter, owner, current, left>>
      /\ v # NULL /\ destroyed' = [destroyed EXCEPT ![v] = @ + 1]
      /\ calling' = [calling EXCEPT ![t] = NULL]
      /\ again' = [again EXCEPT ![t] = TRUE] /\ at' = [at EXCEPT ![t] = @ + 1]
  BY DEF Destructor, keys, views
<1>2. v \in Values /\ at[t] \in KeySlots /\ owner[v] # 0 /\ destroyed[v] = 0
  BY <1>1 DEF KeysInv, KeysTypeOK, BlocksInv, ValuesInv
<1>3. /\ destroyed'[v] = 1 /\ \A w \in Values \ {v} : destroyed'[w] = destroyed[w]
      /\ calling'[t] = NULL
      /\ \A u \in Callers \ {t} : calling'[u] = calling[u] /\ at'[u] = at[u]
  BY <1>1, <1>2 DEF KeysInv, KeysTypeOK
<1>4. KeysTypeOK'
  <2>1. at' \in [Callers -> 1 .. FAKE_KEYS_MAX + 1]
    BY <1>1, <1>2, KeysAssumption DEF KeysInv, KeysTypeOK, KeySlots
  <2>2. destroyed' \in [Values -> Nat] /\ calling' \in [Callers -> Values \cup {NULL}] /\ again' \in [Callers -> BOOLEAN]
    BY <1>1, <1>2 DEF KeysInv, KeysTypeOK
  <2> QED BY <1>1, <2>1, <2>2 DEF KeysInv, KeysTypeOK
<1>5. \A u \in Callers, r \in KeySlots : Kept(u, r)' = Kept(u, r)
  BY <1>1 DEF Kept
<1>6. BlocksInv'
  BY <1>1, <1>3, <1>5 DEF KeysInv, BlocksInv
<1>7. ValuesInv'
  <2>1. \A u \in Callers, r \in KeySlots : Kept(u, r) # NULL => Kept(u, r) \in Values /\ Kept(u, r) # v
    BY DEF KeysInv, KeysTypeOK, KeyBlocks, Kept, ValuesInv
  <2>2. \A u \in Callers \ {t} : calling[u] # NULL => calling[u] \in Values /\ calling[u] # v
    BY <1>1 DEF KeysInv, KeysTypeOK, ValuesInv
  <2>3. ASSUME NEW u \in Callers, NEW r \in KeySlots, Kept(u, r)' # NULL
        PROVE  /\ owner'[Kept(u, r)'] = r
               /\ destroyed'[Kept(u, r)'] = 0
               /\ \A x \in Callers : x # u => Kept(x, r)' # Kept(u, r)'
               /\ \A x \in Callers : calling'[x] # Kept(u, r)'
    <3>1. \A x \in Callers : calling'[x] \in {NULL, calling[x]}
      BY <1>3
    <3> QED BY <1>1, <1>3, <1>5, <2>1, <2>3, <3>1 DEF KeysInv, ValuesInv
  <2>4. \A u \in Callers : calling'[u] # NULL =>
          /\ owner'[calling'[u]] # 0
          /\ destroyed'[calling'[u]] = 0
          /\ \A x \in Callers : x # u => calling'[x] # calling'[u]
    BY <1>1, <1>3, <2>2 DEF KeysInv, ValuesInv
  <2>5. \A w \in Values : (owner'[w] = 0 => destroyed'[w] = 0) /\ destroyed'[w] <= 1
    BY <1>1, <1>2, <1>3 DEF KeysInv, ValuesInv
  <2> QED BY <2>3, <2>4, <2>5 DEF ValuesInv
<1> QED BY <1>1, <1>4, <1>6, <1>7 DEF KeysInv

LEMMA DestructorGoneStep ==
  ASSUME KeysInv, NEW t \in Callers, DestructorGone(t)
  PROVE  KeysInv'
<1>1. /\ UNCHANGED <<once, runs, ready, table, block, allocated, at, again, iter, calling, destroyed, owner, current, left>>
      /\ stage' = [stage EXCEPT ![t] = "crashed"]
  BY DEF DestructorGone, Goto, keys, dtors, views
<1>2. \A u \in Callers, r \in KeySlots : Kept(u, r)' = Kept(u, r)
  BY <1>1 DEF Kept
<1>3. KeysTypeOK' /\ BlocksInv'
  BY <1>1, <1>2 DEF KeysInv, KeysTypeOK, BlocksInv
<1> QED BY <1>1, <1>2, <1>3, SameValues DEF KeysInv

LEMMA RoundStep ==
  ASSUME KeysInv, NEW t \in Callers, Round(t)
  PROVE  KeysInv'
<1>1. /\ UNCHANGED <<once, runs, ready, table, block, calling, destroyed, owner>>
      /\ at' \in [Callers -> 1 .. FAKE_KEYS_MAX + 1] /\ again' \in [Callers -> BOOLEAN]
      /\ iter' \in [Callers -> Nat]
      /\ stage[t] = "dtors" /\ calling[t] = NULL
      /\ \A u \in Callers \ {t} : at'[u] = at[u]
  BY KeysAssumption DEF Round, Between, KeysInv, KeysTypeOK
<1>2. CASE UNCHANGED <<stage, allocated, current, left>>
  <2>1. \A u \in Callers, r \in KeySlots : Kept(u, r)' = Kept(u, r)
    BY <1>2 DEF Kept
  <2>2. KeysTypeOK' /\ BlocksInv'
    BY <1>1, <1>2, <2>1 DEF KeysInv, KeysTypeOK, BlocksInv
  <2> QED BY <1>1, <2>1, <2>2, SameValues DEF KeysInv
<1>3. CASE ~UNCHANGED <<stage, allocated, current, left>>
  <2>1. /\ stage' = [stage EXCEPT ![t] = "gone"] /\ allocated' = allocated \ {t}
        /\ current' = [current EXCEPT ![t] = NoBlock] /\ left' = [left EXCEPT ![t] = NoBlock]
        /\ NoBlock \in KeyBlocks
    BY <1>3 DEF Round, Goto, NoBlock, KeyBlocks
  <2>2. KeysTypeOK'
    BY <1>1, <2>1 DEF KeysInv, KeysTypeOK
  <2>3. /\ \A r \in KeySlots : Kept(t, r)' = NULL
        /\ \A u \in Callers \ {t}, r \in KeySlots : Kept(u, r)' = Kept(u, r)
    BY <2>1 DEF KeysInv, KeysTypeOK, NoBlock, Kept
  <2>4. BlocksInv'
    BY <1>1, <2>1, <2>3 DEF KeysInv, KeysTypeOK, BlocksInv
  <2>5. ValuesInv'
    BY <1>1, <2>3 DEF KeysInv, ValuesInv
  <2> QED BY <1>1, <2>2, <2>4, <2>5 DEF KeysInv
<1> QED BY <1>2, <1>3

(* The invariant of the key table and of the blocks behind it              *)
(* (imports_helpers.c, lines 364-512), whatever the number of threads,     *)
(* keys and values, and whenever keys are deleted.                         *)
THEOREM KeysInvariant == KeysSpec => []KeysInv
<1>1. KeysInv /\ [KeysNext]_keyVars => KeysInv'
  <2> SUFFICES ASSUME KeysInv, [KeysNext]_keyVars PROVE KeysInv'
    OBVIOUS
  <2>1. CASE UNCHANGED keyVars
    <3>1. UNCHANGED <<once, runs, ready, table, block, allocated, stage, at, again, iter, calling, destroyed, owner, current, left>>
      BY <2>1 DEF keyVars, keys, dtors, views
    <3>2. \A u \in Callers, r \in KeySlots : Kept(u, r)' = Kept(u, r)
      BY <3>1 DEF Kept
    <3> QED BY <3>1, <3>2, SameValues DEF KeysInv, KeysTypeOK, BlocksInv
  <2>2. ASSUME NEW t \in Callers, NEW k \in {"plain", "dtor"}, KeyCreate(t, k) PROVE KeysInv'
    BY <2>2, KeyCreateStep
  <2>3. ASSUME NEW t \in Callers, NEW s \in KeySlots, KeyDelete(t, s) PROVE KeysInv'
    BY <2>3, KeyDeleteStep
  <2>4. ASSUME NEW t \in Callers, NEW s \in KeySlots, NEW v \in Values \cup {NULL}, SetSpecific(t, s, v)
        PROVE  KeysInv'
    BY <2>4, SetSpecificStep
  <2> QED BY <2>1, <2>2, <2>3, <2>4, OnceStep, ExitStep, LookStep, DestructorStep, DestructorGoneStep, RoundStep
          DEF KeysNext, Step
<1> QED BY <1>1, KeysInitInv, PTL DEF KeysSpec

(* A thread reads what it set in a key last, and in a key it has not set   *)
(* NULL or what it set itself, last, under an earlier key of the slot,     *)
(* whoever had the key, the slot or the thread's place before.             *)
THEOREM ReadsOwn == KeysSpec => []ReadsOwnValue
<1>1. KeysInv => ReadsOwnValue
  <2> SUFFICES ASSUME KeysInv, NEW t \in Callers, NEW s \in KeySlots
               PROVE  GetSpecific(t, s) = Kept(t, s)
    BY DEF ReadsOwnValue, Kept
  <2> QED BY DEF KeysInv, BlocksInv, GetSpecific
<1> QED BY <1>1, KeysInvariant, PTL

(* The initialiser of pthread_once is started once, a value is given to a  *)
(* destructor once, whatever happens to its key meanwhile, and none that a *)
(* thread can still read has been.                                         *)
THEOREM CalledOnceOnly == KeysSpec => []CalledOnce
<1>1. KeysInv => CalledOnce
  <2> SUFFICES ASSUME KeysInv PROVE CalledOnce
    OBVIOUS
  <2>1. \A t \in Callers, s \in KeySlots : GetSpecific(t, s) \in {NULL, Kept(t, s)}
    BY DEF KeysInv, BlocksInv, GetSpecific
  <2>2. \A v \in Values : v # NULL
    BY DEF Values, NULL
  <2>3. \A v \in Values, t \in Callers : destroyed[v] = 1 => calling[t] # v /\ \A s \in KeySlots : GetSpecific(t, s) # v
    BY <2>1, <2>2 DEF KeysInv, ValuesInv
  <2> QED BY <2>3 DEF KeysInv, KeysTypeOK, ValuesInv, CalledOnce
<1> QED BY <1>1, KeysInvariant, PTL
=============================================================================
