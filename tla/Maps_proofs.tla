----------------------------- MODULE Maps_proofs -----------------------------
(***************************************************************************)
(* Proofs about MemoryMaps.                                                *)
(***************************************************************************)
EXTENDS MemoryMaps, WellFoundedInduction, TLAPS

(* No map that is used in full is longer than a big slot: a file map that  *)
(* is can block for ever, an anonymous one is given less than it asked for *)
(* at the arena's end.                                                     *)
FitsSlot == \A len \in AnonLens \cup RoLens \cup SharedLens : len <= STEP

-----------------------------------------------------------------------------
(* What mapping a thread is about. *)
Steps == {"heap", "fb_add", "mapc_put", "map_add", "undo"}
Mappings ==
  [op : Steps, kind : Kinds, file : Files \cup {"none"}, len : Lengths, base : Nat, got : Nat]
Unmappings == [op : {"unmap"}, base : Nat, len : Nat]

Block(c) == [base |-> c.base, len |-> c.got]

InArena(c) ==
  /\ c.op \in {"map_add", "undo"}
  /\ c.got > 0 /\ c.got <= c.len /\ c.base + c.got <= PAGES
  /\ c.kind # "over" => c.got = c.len
  /\ c.got < c.len => c.got >= Trimmed(c.len) /\ c.base + c.got = PAGES

InHeap(c) ==
  /\ c.base \in HeapBases
  /\ c.got = IF c.kind = "over" THEN Trimmed(c.len) ELSE c.len
  /\ c.op = "fb_add" => c.base \notin LiveBases
  /\ c.op = "mapc_put" => c.kind = "ro" /\ Block(c) \in fb
  /\ c.op \in {"map_add", "undo"} => Block(c) \in IF c.kind = "ro" THEN pinned ELSE fb

MappingInv(c) ==
  /\ c \in Mappings
  /\ c.len \in Lens(c.kind) /\ (IsFile(c.kind) <=> c.file # "none")
  /\ c.op = "undo" => c.kind = "shared"
  /\ c.op # "heap" => IF c.base \in Arena THEN InArena(c) ELSE InHeap(c)

UnmapInv(c) ==
  /\ c \in Unmappings
  /\ c.len > 0 /\ Run(c.base, c.len) \subseteq DOMAIN view
  /\ \A blk \in fb : blk.base = c.base =>
       \A p \in DOMAIN view : p \in Pages(blk) /\ view[p].kind # "pad" => p \in Run(c.base, c.len)

CallInv ==
  /\ DOMAIN call = Threads
  /\ \A t \in Threads : call[t] = Idle \/ MappingInv(call[t]) \/ UnmapInv(call[t])

(* Nobody else has what a mapping in progress takes, or what munmap lets go. *)
ApartInv ==
  /\ \A t, u \in Threads : t # u => /\ Taken(t) \cap Taken(u) = {}
                                    /\ Leaving(t) \cap Leaving(u) = {}
  /\ \A t \in Threads : Taken(t) \cap DOMAIN view = {}
  /\ \A t \in Threads : Taking(t) /\ call[t].base \notin Arena =>
       /\ Run(call[t].base, MaxLen) \cap DOMAIN view = {}
       /\ call[t].kind = "shared" =>
            \A p \in Taken(t) : mem[p] = <<call[t].file, p - call[t].base>>

UsedInv == used = (DOMAIN view \cap Arena) \cup UNION {Taker(t) : t \in Threads}

BlocksInv ==
  /\ LiveBlocks \subseteq [base : HeapBases, len : 1 .. MaxLen]
  /\ \A x, y \in LiveBlocks : x.base = y.base => x = y
  /\ fb \cap pinned = {}
  /\ mapc \subseteq [file : Files, len : RoLens, base : HeapBases]
  /\ \A m \in mapc : [base |-> m.base, len |-> m.len] \in pinned

ViewInv ==
  \A p \in DOMAIN view :
    /\ p \in Nat /\ view[p].base \in Nat /\ view[p].base <= p
    /\ p - view[p].base < MaxLen
    /\ view[p].kind \in Kinds \cup {"pad"}
    /\ view[p].kind = "shared" => view[p].file \in Files
    /\ p \notin Arena =>
         IF view[p].kind = "pad" THEN p \notin HeapBases
         ELSE \E blk \in LiveBlocks :
                /\ blk.base = view[p].base /\ p \in Pages(blk)
                /\ blk \in IF view[p].kind = "ro" THEN pinned ELSE fb

UniformInv ==
  \A p, q \in DOMAIN view \ Arena :
     view[p].kind # "pad" /\ view[q].kind # "pad" /\ view[p].base = view[q].base
     /\ (\E blk \in fb : blk.base = view[p].base)
     => view[p] = view[q]

WMapsInv ==
  /\ wmaps \in [Slots -> [base : Nat, len : Nat, file : Files \cup {"none"}, off : Nat]]
  /\ \A i \in Slots : wmaps[i] # NoMap => wmaps[i].len > 0 /\ wmaps[i].file \in Files
  /\ \A i, j \in Slots : i # j => Pages(wmaps[i]) \cap Pages(wmaps[j]) = {}
  /\ \A i \in Slots : \A p \in Pages(wmaps[i]) :
       /\ p \in DOMAIN view
       /\ view[p].kind = "shared"
       /\ PlaceIn(view, p) = <<wmaps[i].file, wmaps[i].off + p - wmaps[i].base>>
       /\ \A t \in Threads : p \notin Leaving(t)

SavedInv ==
  /\ orphan \subseteq DOMAIN view
  /\ \A p \in dirty : p \in DOMAIN view /\ view[p].kind = "shared"
  /\ \A p \in DOMAIN view : view[p].kind = "shared" =>
       Covers(wmaps, p) \/ p \in orphan \/ \E t \in Threads : p \in Leaving(t)
  /\ \A t \in Threads : \A p \in Leaving(t) \cap dirty : p \in orphan

MapsInv ==
  /\ CallInv /\ ApartInv /\ UsedInv /\ BlocksInv /\ ViewInv /\ UniformInv
  /\ WMapsInv /\ SavedInv /\ DataInPlace

-----------------------------------------------------------------------------
(* Numbers. *)

LEMMA LeastExists ==
  ASSUME NEW S \in SUBSET Nat, S # {}
  PROVE  Min(S) \in S /\ \A x \in S : Min(S) <= x
<1>1. PICK k \in S : \A j \in S : ~(<<j, k>> \in OpToRel(<, Nat))
  BY WFMin, NatLessThanWellFounded
<1>2. \A j \in S : ~(j < k)
  BY <1>1 DEF OpToRel
<1>3. \A j \in S : k <= j
  BY <1>2
<1> QED BY <1>3 DEF Min

LEMMA GreatestExists ==
  ASSUME NEW S \in SUBSET Nat, S # {}, NEW top \in Nat, \A x \in S : x <= top
  PROVE  Max(S) \in S
<1> DEFINE U == {u \in Nat : \A x \in S : x <= u}
<1>1. U \in SUBSET Nat /\ U # {}
  OBVIOUS
<1> DEFINE m == Min(U)
<1>2. m \in U /\ \A x \in U : m <= x
  BY <1>1, LeastExists
<1> HIDE DEF m
<1>3. m \in S
  <2> SUFFICES ASSUME m \notin S PROVE FALSE
    OBVIOUS
  <2>1. PICK x \in S : TRUE
    OBVIOUS
  <2>2. m \in Nat /\ x < m
    BY <1>2, <2>1
  <2>3. m - 1 \in Nat
    BY <2>2
  <2>4. \A y \in S : y <= m - 1
    BY <1>2
  <2>5. m - 1 \in U
    BY <2>3, <2>4
  <2> QED BY <1>2, <2>2, <2>5
<1>4. \A y \in S : m >= y
  BY <1>2
<1> QED BY <1>3, <1>4 DEF Max

LEMMA MaxLenIs == MaxLen \in Lengths /\ \A len \in Lengths : len <= MaxLen
<1>1. \E x \in Lengths : \A y \in Lengths : x >= y
  BY LengthsAssumption
<1> QED BY <1>1 DEF MaxLen, Max

LEMMA SizesAreNats ==
  /\ PAGES \in Nat \ {0} /\ STEP \in Nat \ {0, 1} /\ HEAP \in Nat
  /\ MaxLen \in Nat \ {0}
  BY SizesAssumption, LengthsAssumption, MaxLenIs

LEMMA LensAre ==
  ASSUME NEW kind \in Kinds, NEW len \in Lens(kind)
  PROVE  /\ len \in Lengths /\ len \in Nat \ {0} /\ len <= MaxLen
         /\ kind = "over" => Trimmed(len) \in 1 .. len
<1>1. len \in Lengths
  BY DEF Lens, Kinds, Lengths
<1>2. len \in Nat \ {0} /\ len <= MaxLen
  BY <1>1, LengthsAssumption, MaxLenIs
<1>3. ASSUME kind = "over" PROVE Trimmed(len) \in 1 .. len
  <2>1. len \in OverLens
    BY <1>3 DEF Lens
  <2>2. len > STEP
    BY <2>1, LengthsAssumption
  <2> QED BY <1>2, <2>2, SizesAreNats DEF Trimmed
<1> QED BY <1>1, <1>2, <1>3

(* Heap blocks begin beyond the arena and whatever spills over its end, and *)
(* no two are within reach of each other.                                   *)
LEMMA HeapApart ==
  /\ \A b \in HeapBases : b \in Nat /\ b >= PAGES + MaxLen /\ b \notin Arena
  /\ \A b, c \in HeapBases : b # c => Run(b, MaxLen) \cap Run(c, MaxLen) = {}
<1> DEFINE W == PAGES + MaxLen
<1>1. W \in Nat /\ W > MaxLen /\ MaxLen \in Nat /\ PAGES \in Nat
  BY SizesAreNats
<1>2. \A b \in HeapBases : \E j \in Nat \ {0} : b = j * W
  BY SizesAreNats DEF HeapBases
<1> HIDE DEF W
<1>3. \A j \in Nat \ {0} : j * W \in Nat /\ j * W >= W
  BY <1>1
<1>4. ASSUME NEW j \in Nat, NEW k \in Nat, j < k PROVE j * W + W <= k * W
  <2>1. k - j \in Nat \ {0}
    BY <1>4
  <2>2. (k - j) * W >= W
    BY <2>1, <1>3
  <2>3. (k - j) * W = k * W - j * W
    BY <1>1
  <2>4. j * W \in Int /\ k * W \in Int
    BY <1>1
  <2> QED BY <2>2, <2>3, <2>4, <1>1
<1>5. ASSUME NEW b \in HeapBases PROVE b \in Nat /\ b >= PAGES + MaxLen /\ b \notin Arena
  BY <1>1, <1>2, <1>3, SizesAreNats DEF W, Arena
<1>6. ASSUME NEW b \in HeapBases, NEW c \in HeapBases, b < c PROVE b + MaxLen < c
  <2>1. PICK j \in Nat \ {0} : b = j * W
    BY <1>2
  <2>2. PICK k \in Nat \ {0} : c = k * W
    BY <1>2
  <2>3. j < k
    <3> SUFFICES ASSUME k <= j PROVE FALSE
      OBVIOUS
    <3>1. CASE k = j
      BY <3>1, <2>1, <2>2, <1>6, <1>5
    <3>2. CASE k < j
      BY <3>2, <1>4, <2>1, <2>2, <1>6, <1>1, <1>5
    <3> QED BY <3>1, <3>2
  <2>4. j * W + W <= k * W
    BY <2>3, <1>4
  <2> QED BY <2>1, <2>2, <2>4, <1>1, <1>5
<1>7. ASSUME NEW b \in HeapBases, NEW c \in HeapBases, b # c
      PROVE  Run(b, MaxLen) \cap Run(c, MaxLen) = {}
  <2>1. b \in Nat /\ c \in Nat
    BY <1>5
  <2>2. b + MaxLen < c \/ c + MaxLen < b
    BY <2>1, <1>6, <1>7
  <2> QED BY <2>1, <2>2, <1>1 DEF Run
<1> QED BY <1>5, <1>7

(* What the arena gives for a mapping of len pages. *)
LEMMA TailHoldsKept ==
  ASSUME NEW i \in Arena, i % STEP = 0, NEW len \in OverLens, PAGES - i >= Kept(len)
  PROVE  PAGES - i >= Trimmed(len)
<1>1. len \in Nat /\ len > STEP /\ len % STEP = STEP - 1
  BY LengthsAssumption DEF Lengths
<1>2. STEP \in Nat /\ STEP > 1 /\ PAGES \in Nat /\ PAGES % STEP = 0 /\ i \in Nat
  BY SizesAssumption DEF Arena
<1> SUFFICES ASSUME PAGES - i = len - STEP PROVE FALSE
  BY <1>1, <1>2 DEF Kept, Trimmed
<1> DEFINE p == PAGES \div STEP
           j == i \div STEP
           l == len \div STEP
<1>3. p \in Int /\ j \in Int /\ l \in Int
  BY <1>1, <1>2
<1>4. PAGES = STEP * p /\ i = STEP * j /\ len = STEP * l + (STEP - 1)
  BY <1>1, <1>2
<1> HIDE DEF p, j, l
<1> DEFINE k == p - j - l + 1
<1>5. STEP * k = STEP - 1
  <2>1. STEP * k = STEP * p - STEP * j - STEP * l + STEP
    BY <1>2, <1>3
  <2> QED BY <2>1, <1>1, <1>2, <1>3, <1>4
<1>6. k \in Int
  BY <1>3
<1> HIDE DEF k
<1>7. CASE k <= 0
  BY <1>2, <1>5, <1>6, <1>7
<1>8. CASE k >= 1
  BY <1>2, <1>5, <1>6, <1>8
<1> QED BY <1>6, <1>7, <1>8

(* mmap_arena_alloc_locked: nothing, or pages of the arena nobody has; only *)
(* a reservation the client trims can get less than it asked for, and then  *)
(* all that is kept of it.                                                  *)
LEMMA AllocIs ==
  ASSUME FitsSlot, NEW kind \in Kinds, NEW len \in Lens(kind)
  PROVE  LET a == AllocAt(len) IN
         /\ a \in [base : Nat, got : Nat]
         /\ a.got = 0 => a.base = 0
         /\ a.got > 0 =>
              /\ a.base \in Arena /\ a.base + a.got <= PAGES /\ a.got <= len
              /\ Run(a.base, a.got) \cap used = {}
              /\ kind # "over" => a.got = len
              /\ a.got < len => a.got >= Trimmed(len) /\ a.base + a.got = PAGES
<1>1. len \in Nat \ {0} /\ PAGES \in Nat \ {0} /\ STEP \in Nat \ {0, 1}
  BY LensAre, SizesAreNats
<1>2. Arena \subseteq Nat
  BY <1>1 DEF Arena
<1>3. CASE Starts(len) # {}
  <2> DEFINE m == Min(Starts(len))
  <2>1. Starts(len) \subseteq Nat
    BY <1>2 DEF Starts, BigStarts
  <2>2. m \in Starts(len)
    BY <1>3, <2>1, LeastExists
  <2>3. AllocAt(len) = [base |-> m, got |-> len]
    BY <1>3 DEF AllocAt
  <2> HIDE DEF m
  <2>4. m \in Arena /\ m + len <= PAGES /\ Run(m, len) \cap used = {}
    BY <2>2 DEF Starts, BigStarts, FreeRun
  <2> QED BY <1>1, <1>2, <2>3, <2>4
<1>4. CASE Starts(len) = {} /\ TailStarts(len) # {}
  <2> DEFINE m == Min(TailStarts(len))
  <2>1. TailStarts(len) \subseteq Nat
    BY <1>2 DEF TailStarts, BigStarts
  <2>2. m \in TailStarts(len)
    BY <1>4, <2>1, LeastExists
  <2>3. AllocAt(len) = [base |-> m, got |-> PAGES - m]
    BY <1>4 DEF AllocAt
  <2> HIDE DEF m
  <2>4. /\ m \in Arena /\ m % STEP = 0 /\ len >= STEP /\ m + len > PAGES
        /\ PAGES - m >= Kept(len) /\ Run(m, PAGES - m) \cap used = {}
    BY <2>2 DEF TailStarts, BigStarts, FreeRun
  <2>5. kind = "over"
    <3> SUFFICES ASSUME kind # "over" PROVE FALSE
      OBVIOUS
    <3>1. len <= STEP
      BY DEF FitsSlot, Lens, Kinds
    <3>2. len = STEP /\ m \in Nat
      BY <1>1, <1>2, <2>4, <3>1
    <3> QED BY <1>1, <2>4, <3>2 DEF Kept
  <2>6. PAGES - m >= Trimmed(len)
    BY <2>4, <2>5, TailHoldsKept DEF Lens
  <2>7. m \in 0 .. PAGES - 1
    BY <2>4 DEF Arena
  <2> QED BY <1>1, <2>3, <2>4, <2>5, <2>6, <2>7
<1>5. CASE Starts(len) = {} /\ TailStarts(len) = {}
  BY <1>5 DEF AllocAt
<1> QED BY <1>3, <1>4, <1>5

-----------------------------------------------------------------------------
(* Threads and their pages. *)

LEMMA ThreadIs ==
  ASSUME CallInv, NEW t \in Threads
  PROVE  /\ call[t] = Idle \/ MappingInv(call[t]) \/ UnmapInv(call[t])
         /\ call[t].op \in Steps => MappingInv(call[t]) /\ call[t] \in Mappings
         /\ call[t].op = "unmap" => UnmapInv(call[t]) /\ call[t] \in Unmappings
  BY DEF CallInv, MappingInv, UnmapInv, Mappings, Unmappings, Steps, Idle

(* The pages a thread takes are at least one, and all in the arena or all  *)
(* in one heap block.                                                      *)
LEMMA TakenIs ==
  ASSUME CallInv, NEW t \in Threads, Taking(t)
  PROVE  /\ MappingInv(call[t]) /\ call[t] \in Mappings /\ call[t].op # "heap"
         /\ Taken(t) = Run(call[t].base, call[t].got)
         /\ call[t].base \in Nat /\ call[t].got \in 1 .. call[t].len /\ call[t].len <= MaxLen
         /\ call[t].base \in Taken(t)
         /\ call[t].base \in Arena => Taken(t) \subseteq Arena
         /\ call[t].base \notin Arena =>
              /\ call[t].base \in HeapBases
              /\ Taken(t) \subseteq Run(call[t].base, MaxLen)
              /\ Taken(t) \cap Arena = {}
<1>1. MappingInv(call[t]) /\ call[t] \in Mappings /\ call[t].op # "heap"
  BY ThreadIs DEF Taking, Steps
<1>2. /\ call[t].base \in Nat /\ call[t].got \in Nat
      /\ call[t].kind \in Kinds /\ call[t].len \in Lens(call[t].kind)
  BY <1>1 DEF Mappings, MappingInv
<1>3. call[t].len \in Nat /\ call[t].len <= MaxLen /\ call[t].len > 0
  BY <1>2, LensAre
<1>4. call[t].got \in 1 .. call[t].len
  <2>1. CASE call[t].base \in Arena
    BY <2>1, <1>1, <1>2, <1>3 DEF MappingInv, InArena
  <2>2. CASE call[t].base \notin Arena
    BY <2>2, <1>1, <1>2, <1>3, LensAre DEF MappingInv, InHeap
  <2> QED BY <2>1, <2>2
<1>5. Taken(t) = Run(call[t].base, call[t].got)
  BY DEF Taken
<1>6. call[t].base \in Taken(t)
  BY <1>2, <1>4, <1>5 DEF Run
<1>7. ASSUME call[t].base \in Arena PROVE Taken(t) \subseteq Arena
  BY <1>1, <1>2, <1>4, <1>5, <1>7, SizesAreNats DEF MappingInv, InArena, Run, Arena
<1>8. ASSUME call[t].base \notin Arena
      PROVE  /\ call[t].base \in HeapBases
             /\ Taken(t) \subseteq Run(call[t].base, MaxLen)
             /\ Taken(t) \cap Arena = {}
  <2>1. call[t].base \in HeapBases
    BY <1>1, <1>8 DEF MappingInv, InHeap
  <2>2. Taken(t) \subseteq Run(call[t].base, MaxLen)
    BY <1>2, <1>3, <1>4, <1>5, SizesAreNats DEF Run
  <2>3. call[t].base >= PAGES
    BY <2>1, HeapApart, SizesAreNats
  <2> QED BY <2>1, <2>2, <2>3, <1>2, <1>4, <1>5, SizesAreNats DEF Run, Arena
<1> QED BY <1>1, <1>2, <1>3, <1>4, <1>5, <1>6, <1>7, <1>8

(* What the files, the writable maps and the shared pages say stays true   *)
(* when none of them changes.                                              *)
LEMMA DataStays ==
  ASSUME WMapsInv, SavedInv, DataInPlace,
         UNCHANGED <<view, wmaps, file, dirty, orphan>>,
         \A p \in DOMAIN view : view[p].kind = "shared" => mem'[p] = mem[p],
         \A u \in Threads : Leaving(u)' = Leaving(u)
  PROVE  WMapsInv' /\ SavedInv' /\ DataInPlace'
<1>1. WMapsInv'
  <2>1. wmaps' = wmaps /\ view' = view
    OBVIOUS
  <2>2. \A i \in Slots : Pages(wmaps[i])' = Pages(wmaps[i])
    BY <2>1 DEF Pages
  <2>3. \A p \in DOMAIN view : PlaceIn(view, p)' = PlaceIn(view, p)
    BY <2>1 DEF PlaceIn
  <2> QED BY <2>1, <2>2, <2>3 DEF WMapsInv
<1>2. SavedInv'
  BY DEF SavedInv, Covers, Pages
<1>3. DataInPlace'
  BY DEF DataInPlace, PlaceIn
<1> QED BY <1>1, <1>2, <1>3

LEMMA MapsInitInv == Init => MapsInv
<1> SUFFICES ASSUME Init PROVE MapsInv
  OBVIOUS
<1>1. \A t \in Threads : call[t] = Idle /\ Taken(t) = {} /\ Leaving(t) = {} /\ ~Taking(t)
  BY DEF Init, Taken, Taking, Leaving, Idle
<1>2. DOMAIN view = {}
  BY DEF Init
<1>3. CallInv
  BY <1>1 DEF Init, CallInv
<1>4. ApartInv /\ UsedInv
  BY <1>1, <1>2 DEF Init, ApartInv, UsedInv, Taker
<1>5. BlocksInv /\ ViewInv /\ UniformInv
  BY <1>2 DEF Init, BlocksInv, ViewInv, UniformInv, LiveBlocks
<1>6. WMapsInv
  <2>1. \A i \in Slots : Pages(wmaps[i]) = {}
    BY DEF Init, Pages, Run, NoMap
  <2> QED BY <2>1 DEF Init, WMapsInv, NoMap
<1>7. SavedInv /\ DataInPlace
  BY <1>1, <1>2 DEF Init, SavedInv, DataInPlace
<1> QED BY <1>3, <1>4, <1>5, <1>6, <1>7 DEF MapsInv

-----------------------------------------------------------------------------
(* mmap in the arena. *)

LEMMA MmapStep ==
  ASSUME FitsSlot, MapsInv, NEW t \in Threads, NEW kind \in Kinds, NEW f \in Files \cup {"none"},
         NEW len \in Lens(kind), Mmap(t, kind, f, len)
  PROVE  MapsInv'
<1> DEFINE a == AllocAt(len)
           c == [op |-> IF a.got = 0 THEN "heap" ELSE "map_add", kind |-> kind, file |-> f,
                 len |-> len, base |-> a.base, got |-> a.got]
<1>1. /\ a \in [base : Nat, got : Nat]
      /\ a.got = 0 => a.base = 0
      /\ a.got > 0 =>
           /\ a.base \in Arena /\ a.base + a.got <= PAGES /\ a.got <= len
           /\ Run(a.base, a.got) \cap used = {}
           /\ kind # "over" => a.got = len
           /\ a.got < len => a.got >= Trimmed(len) /\ a.base + a.got = PAGES
  BY AllocIs
<1>2. /\ used' = used \cup Run(a.base, a.got)
      /\ IsFile(kind) <=> f # "none"
      /\ UNCHANGED <<fb, pinned, mapc, wmaps, mem, file, view, dirty, orphan>>
  BY DEF Mmap, ghosts
<1> HIDE DEF a
<1>3. call' = [call EXCEPT ![t] = c]
  <2> DEFINE d == [op |-> "map_add", kind |-> kind, file |-> f, len |-> len,
                   base |-> a.base, got |-> a.got]
  <2>1. call' = [call EXCEPT ![t] = IF a.got = 0 THEN [d EXCEPT !.op = "heap"]
                                    ELSE IF IsFile(kind) /\ a.got < len
                                    THEN [op |-> "stuck"] ELSE d]
    BY DEF Mmap, a
  <2>2. CASE a.got = 0
    <3>1. [d EXCEPT !.op = "heap"] = c
      BY <2>2
    <3> QED BY <2>1, <2>2, <3>1
  <2>3. CASE a.got > 0
    <3>1. ~(IsFile(kind) /\ a.got < len)
      BY <2>3, <1>1, LensAre DEF IsFile
    <3>2. d = c
      BY <2>3, <1>1
    <3> QED BY <2>1, <2>3, <3>1, <3>2, <1>1
  <2> QED BY <1>1, <2>2, <2>3
<1>4. DOMAIN call = Threads /\ call[t] = Idle
  BY DEF MapsInv, CallInv, Mmap
<1>5. call'[t] = c /\ \A u \in Threads \ {t} : call'[u] = call[u]
  BY <1>3, <1>4
<1>6. len \in Lengths /\ len \in Nat \ {0}
  BY LensAre
<1>7. MappingInv(call[t])'
  <2>1. c \in Mappings
    BY <1>1, <1>6 DEF Mappings, Steps
  <2>2. call'[t] \in Mappings
    BY <1>5, <2>1
  <2>3. CASE a.got = 0
    BY <2>2, <2>3, <1>2, <1>5 DEF MappingInv
  <2>4. CASE a.got > 0
    <3>1. InArena(call[t])'
      BY <1>1, <1>5, <2>4 DEF InArena
    <3> QED BY <2>2, <2>4, <3>1, <1>1, <1>2, <1>5 DEF MappingInv
  <2> QED BY <2>3, <2>4, <1>1
<1>8. CallInv'
  <2>1. \A u \in Threads \ {t} : MappingInv(call[u]) => MappingInv(call[u])'
    BY <1>2, <1>5 DEF MappingInv, InHeap, InArena, LiveBases, LiveBlocks
  <2>2. \A u \in Threads \ {t} : UnmapInv(call[u]) => UnmapInv(call[u])'
    BY <1>2, <1>5 DEF UnmapInv, Pages
  <2>4. DOMAIN call' = Threads
    BY <1>3, <1>4
  <2>5. ASSUME NEW u \in Threads PROVE (call[u] = Idle \/ MappingInv(call[u]) \/ UnmapInv(call[u]))'
    BY <1>5, <1>7, <2>1, <2>2 DEF MapsInv, CallInv, Idle
  <2> QED BY <2>4, <2>5 DEF CallInv
<1> HIDE DEF c
<1>9. /\ \A u \in Threads : Leaving(u)' = Leaving(u)
      /\ \A u \in Threads \ {t} : Taken(u)' = Taken(u) /\ (Taking(u)' <=> Taking(u))
  <2>1. c.op \in {"heap", "map_add"}
    BY DEF c
  <2> QED BY <1>2, <1>4, <1>5, <2>1 DEF Leaving, Taken, Taking, Idle
<1>10. Taken(t) = {}
  BY <1>4 DEF Taken, Taking, Idle
<1>11. Taken(t)' = Run(a.base, a.got) /\ (Taking(t)' => a.got > 0)
  <2>1. CASE a.got = 0
    <3>1. Run(a.base, a.got) = {}
      BY <2>1, <1>1 DEF Run
    <3>2. ~Taking(t)'
      BY <2>1, <1>5 DEF c, Taking
    <3> QED BY <3>1, <3>2 DEF Taken
  <2>2. CASE a.got > 0
    <3>1. \A blk \in pinned : blk.base # a.base
      BY <2>2, <1>1, HeapApart DEF MapsInv, BlocksInv, LiveBlocks
    <3> QED BY <2>2, <3>1, <1>2, <1>5 DEF c, Taken, Taking
  <2> QED BY <2>1, <2>2, <1>1
<1>12. Run(a.base, a.got) \subseteq Arena /\ Run(a.base, a.got) \cap used = {}
  BY <1>1, SizesAreNats DEF Run, Arena
<1>13. ApartInv'
  <2>1. \A u \in Threads \ {t} : Taken(t)' \cap Taken(u) = {} /\ Taken(t)' \cap DOMAIN view = {}
    BY <1>11, <1>12 DEF MapsInv, UsedInv, Taker
  <2>2. Taken(t)' \cap DOMAIN view = {}
    BY <1>11, <1>12 DEF MapsInv, UsedInv
  <2>3. Taking(t)' => call'[t].base \in Arena
    BY <1>1, <1>5, <1>11 DEF c
  <2> QED BY <2>1, <2>2, <2>3, <1>2, <1>5, <1>9 DEF MapsInv, ApartInv
<1>14. UsedInv'
  BY <1>2, <1>9, <1>10, <1>11, <1>12 DEF MapsInv, UsedInv, Taker
<1>15. BlocksInv' /\ ViewInv' /\ UniformInv'
  BY <1>2 DEF MapsInv, BlocksInv, ViewInv, UniformInv, LiveBlocks, Pages
<1>16. WMapsInv' /\ SavedInv' /\ DataInPlace'
  BY <1>2, <1>9, DataStays DEF MapsInv
<1> QED BY <1>8, <1>13, <1>14, <1>15, <1>16 DEF MapsInv

-----------------------------------------------------------------------------
(* The client gets what was mapped. *)

(* Where the pages of c can be handed to the client: nobody holds any of   *)
(* them, but for padding and for the pages of a block everybody maps; what *)
(* is in the arena was reserved for it, the rest is in its block, and what *)
(* is in neither is padding.                                               *)
Spot(t, c, base) ==
  /\ c \in Mappings /\ c.len \in Lens(c.kind) /\ (IsFile(c.kind) <=> c.file # "none")
  /\ base \in Nat
  /\ \A p \in Run(base, c.len) \cap DOMAIN view :
       p \notin Arena /\ (view[p].kind = "pad" \/ (view[p].kind = "ro" /\ c.kind = "ro"))
  /\ Run(base, c.len) \cap Arena = Taker(t)
  /\ IF base \in Arena
     THEN \A p \in Run(base, c.len) \ Arena : c.kind = "over" /\ p - base >= Trimmed(c.len)
     ELSE /\ base \in HeapBases
          /\ [base |-> base, len |-> IF c.kind = "over" THEN Trimmed(c.len) ELSE c.len]
               \in IF c.kind = "ro" THEN pinned ELSE fb
          /\ c.kind # "ro" => Run(base, MaxLen) \cap DOMAIN view = {}
          /\ \A u \in Threads \ {t} : Taking(u) => call[u].base # base

LEMMA HoldIs ==
  ASSUME NEW c, NEW base, Hold(c, base)
  PROVE  /\ DOMAIN view' = DOMAIN view \cup Run(base, c.len)
         /\ \A p \in Run(base, c.len) : view'[p] = Stands(c, base, p)
         /\ \A p \in DOMAIN view \ Run(base, c.len) : view'[p] = view[p]
  BY DEF Hold

LEMMA BlockPages ==
  ASSUME BlocksInv, NEW blk \in LiveBlocks
  PROVE  /\ blk.base \in HeapBases /\ blk.base \in Nat /\ blk.len \in 1 .. MaxLen
         /\ Pages(blk) \subseteq Run(blk.base, MaxLen) /\ blk.base \in Pages(blk)
         /\ \A p \in Pages(blk) : p \in Nat /\ p >= PAGES + MaxLen /\ p \notin Arena
<1>1. blk.base \in HeapBases /\ blk.len \in 1 .. MaxLen
  BY DEF BlocksInv
<1>2. blk.base \in Nat /\ blk.base >= PAGES + MaxLen
  BY <1>1, HeapApart
<1> QED BY <1>1, <1>2, SizesAreNats DEF Pages, Run, Arena

(* Where the pages are. *)
LEMMA SpotReach ==
  ASSUME MapsInv, NEW t \in Threads, NEW c, NEW base, Spot(t, c, base)
  PROVE  /\ c.len \in 1 .. MaxLen
         /\ base \notin Arena => Run(base, c.len) \subseteq Run(base, MaxLen)
         /\ base \in Arena => \A p \in Run(base, c.len) : p \in Nat /\ p < PAGES + MaxLen
         /\ \A u \in Threads \ {t} : Taken(u) \cap Run(base, c.len) = {}
         /\ \A u \in Threads \ {t} : Taking(u) /\ call[u].base \notin Arena =>
              Run(call[u].base, MaxLen) \cap Run(base, c.len) = {}
<1>1. c.len \in 1 .. MaxLen
  BY LensAre, SizesAreNats DEF Spot, Mappings
<1>2. base \in Nat
  BY DEF Spot
<1>3. ASSUME base \notin Arena PROVE Run(base, c.len) \subseteq Run(base, MaxLen)
  BY <1>1, <1>2, SizesAreNats DEF Run
<1>4. ASSUME base \in Arena PROVE \A p \in Run(base, c.len) : p \in Nat /\ p < PAGES + MaxLen
  BY <1>1, <1>2, <1>4, SizesAreNats DEF Run, Arena
<1>5. ASSUME NEW u \in Threads \ {t}, Taking(u), call[u].base \notin Arena
      PROVE  Run(call[u].base, MaxLen) \cap Run(base, c.len) = {}
  <2>1. call[u].base \in HeapBases
    BY <1>5, TakenIs DEF MapsInv
  <2>2. CASE base \in Arena
    <3>1. \A p \in Run(call[u].base, MaxLen) : p >= PAGES + MaxLen /\ p \in Nat
      BY <2>1, HeapApart, SizesAreNats DEF Run
    <3> QED BY <3>1, <2>2, <1>4, SizesAreNats
  <2>3. CASE base \notin Arena
    <3>1. base \in HeapBases /\ call[u].base # base
      BY <2>3, <1>5 DEF Spot
    <3> QED BY <2>1, <2>3, <3>1, <1>3, HeapApart
  <2> QED BY <2>2, <2>3
<1>6. ASSUME NEW u \in Threads \ {t} PROVE Taken(u) \cap Run(base, c.len) = {}
  <2>1. CASE ~Taking(u)
    BY <2>1 DEF Taken
  <2>2. CASE Taking(u) /\ call[u].base \notin Arena
    BY <2>2, <1>5, TakenIs DEF MapsInv
  <2>3. CASE Taking(u) /\ call[u].base \in Arena
    <3>1. Taken(u) \subseteq Arena
      BY <2>3, TakenIs DEF MapsInv
    <3>2. Run(base, c.len) \cap Arena \subseteq Taken(t)
      BY DEF Spot, Taker
    <3>3. Taken(t) \cap Taken(u) = {}
      BY DEF MapsInv, ApartInv
    <3> QED BY <3>1, <3>2, <3>3
  <2> QED BY <2>1, <2>2, <2>3
<1> QED BY <1>1, <1>3, <1>4, <1>5, <1>6

(* Every page handed out is padding outside the arena, or its block's. *)
LEMMA HeldPages ==
  ASSUME MapsInv, NEW t \in Threads, NEW c, NEW base, Spot(t, c, base), Hold(c, base),
         NEW p \in Run(base, c.len)
  PROVE  /\ p \in Nat /\ base <= p /\ p - base < MaxLen
         /\ view'[p].base = base /\ view'[p].file = c.file
         /\ view'[p].kind \in {c.kind, "pad"}
         /\ p \notin Arena /\ base \in Arena => view'[p].kind = "pad"
         /\ p \notin Arena /\ view'[p].kind = "pad" => p \notin HeapBases
         /\ base \notin Arena /\ view'[p].kind # "pad" =>
              \E blk \in IF c.kind = "ro" THEN pinned ELSE fb : blk.base = base /\ p \in Pages(blk)
<1>1. c.len \in 1 .. MaxLen /\ base \in Nat /\ c.kind \in Kinds /\ c.len \in Lens(c.kind)
  BY SpotReach DEF Spot, Mappings
<1>2. p \in Nat /\ base <= p /\ p - base < c.len /\ p - base < MaxLen
  BY <1>1, SizesAreNats DEF Run
<1>3. view'[p] = Stands(c, base, p)
  BY HoldIs
<1>4. /\ view'[p].base = base /\ view'[p].file = c.file
      /\ view'[p].kind = IF c.kind = "over" /\ p - base >= Trimmed(c.len) THEN "pad" ELSE c.kind
  BY <1>3 DEF Stands
<1>5. ASSUME p \notin Arena, base \in Arena PROVE view'[p].kind = "pad"
  BY <1>4, <1>5 DEF Spot
<1>6. ASSUME p \notin Arena, view'[p].kind = "pad" PROVE p \notin HeapBases
  <2>1. CASE base \in Arena
    BY <2>1, SpotReach, HeapApart, <1>1, SizesAreNats
  <2>2. CASE base \notin Arena
    <3>1. base \in HeapBases /\ p \in Run(base, MaxLen)
      BY <2>2, SpotReach DEF Spot
    <3>2. c.kind = "over" /\ p - base >= Trimmed(c.len)
      BY <1>1, <1>4, <1>6 DEF Kinds
    <3>3. p # base
      BY <3>2, <1>1, <1>2, LensAre
    <3>4. ASSUME p \in HeapBases PROVE p \in Run(p, MaxLen)
      BY <1>2, SizesAreNats DEF Run
    <3> QED BY <3>1, <3>3, <3>4, HeapApart
  <2> QED BY <2>1, <2>2
<1>7. ASSUME base \notin Arena, view'[p].kind # "pad"
      PROVE  \E blk \in IF c.kind = "ro" THEN pinned ELSE fb : blk.base = base /\ p \in Pages(blk)
  <2> DEFINE blk == [base |-> base, len |-> IF c.kind = "over" THEN Trimmed(c.len) ELSE c.len]
  <2>1. blk \in IF c.kind = "ro" THEN pinned ELSE fb
    BY <1>7 DEF Spot
  <2>2. p - base < blk.len
    BY <1>2, <1>4, <1>7, <1>1, LensAre
  <2>3. blk.len \in Nat
    BY <1>1, LensAre
  <2>4. p \in Pages(blk)
    BY <1>1, <1>2, <2>2, <2>3 DEF Pages, Run
  <2> QED BY <2>1, <2>4
<1> QED BY <1>1, <1>2, <1>4, <1>5, <1>6, <1>7

LEMMA HoldKeeps ==
  ASSUME MapsInv, NEW t \in Threads, NEW c, NEW base, Spot(t, c, base), Hold(c, base),
         call' = [call EXCEPT ![t] = Idle], UNCHANGED <<used, fb, pinned, mapc>>,
         call[t].op \in Steps,
         \A u \in Threads \ {t} : \A p \in Taken(u) : mem'[p] = mem[p]
  PROVE  /\ CallInv' /\ ApartInv' /\ UsedInv' /\ BlocksInv' /\ ViewInv' /\ UniformInv'
         /\ \A u \in Threads : Leaving(u)' = Leaving(u)
<1> DEFINE R == Run(base, c.len)
<1>1. /\ DOMAIN call = Threads /\ DOMAIN call' = Threads
      /\ call'[t] = Idle /\ \A u \in Threads \ {t} : call'[u] = call[u]
  BY DEF MapsInv, CallInv
<1>2. /\ DOMAIN view' = DOMAIN view \cup R
      /\ \A p \in DOMAIN view \ R : view'[p] = view[p]
  BY HoldIs
<1>3. /\ \A u \in Threads : Leaving(u)' = Leaving(u)
      /\ \A u \in Threads \ {t} : Taken(u)' = Taken(u) /\ (Taking(u)' <=> Taking(u))
      /\ Taken(t)' = {} /\ ~Taking(t)'
  BY <1>1 DEF Leaving, Taken, Taking, Idle, Steps
<1>0. ASSUME NEW p \in R
      PROVE  /\ p \in Nat /\ base <= p /\ p - base < MaxLen
             /\ view'[p].base = base /\ view'[p].file = c.file
             /\ view'[p].kind \in {c.kind, "pad"}
             /\ p \notin Arena /\ base \in Arena => view'[p].kind = "pad"
             /\ p \notin Arena /\ view'[p].kind = "pad" => p \notin HeapBases
             /\ base \notin Arena /\ view'[p].kind # "pad" =>
                  \E blk \in IF c.kind = "ro" THEN pinned ELSE fb :
                    blk.base = base /\ p \in Pages(blk)
  BY HeldPages
<1>4. BlocksInv'
  BY DEF MapsInv, BlocksInv, LiveBlocks
<1>5. ViewInv'
  <2> SUFFICES ASSUME NEW p \in DOMAIN view'
               PROVE  /\ p \in Nat /\ view'[p].base \in Nat /\ view'[p].base <= p
                      /\ p - view'[p].base < MaxLen
                      /\ view'[p].kind \in Kinds \cup {"pad"}
                      /\ view'[p].kind = "shared" => view'[p].file \in Files
                      /\ p \notin Arena =>
                           IF view'[p].kind = "pad" THEN p \notin HeapBases
                           ELSE \E blk \in LiveBlocks :
                                  /\ blk.base = view'[p].base /\ p \in Pages(blk)
                                  /\ blk \in IF view'[p].kind = "ro" THEN pinned ELSE fb
    BY DEF ViewInv, LiveBlocks, Pages
  <2>1. CASE p \in R
    <3>1. c.kind \in Kinds /\ base \in Nat /\ (c.kind = "shared" => c.file \in Files)
      BY DEF Spot, Mappings, IsFile
    <3>2. CASE p \notin Arena /\ view'[p].kind # "pad"
      <4>1. base \notin Arena /\ view'[p].kind = c.kind
        BY <2>1, <3>2, <1>0
      <4>2. PICK blk \in IF c.kind = "ro" THEN pinned ELSE fb : blk.base = base /\ p \in Pages(blk)
        BY <2>1, <3>2, <4>1, <1>0
      <4> QED BY <2>1, <3>1, <3>2, <4>1, <4>2, <1>0 DEF LiveBlocks
    <3> QED BY <2>1, <3>1, <3>2, <1>0
  <2>2. CASE p \notin R
    <3>1. p \in DOMAIN view /\ view'[p] = view[p]
      BY <2>2, <1>2
    <3> QED BY <3>1 DEF MapsInv, ViewInv
  <2> QED BY <2>1, <2>2
(* A held page that is in the block now handed out was in a block everybody *)
(* maps.                                                                    *)
<1>6. ASSUME NEW blk \in fb, NEW p \in DOMAIN view', NEW q \in DOMAIN view',
             p \in R, p \in Pages(blk), view'[p].kind # "pad"
      PROVE  /\ blk.base = base /\ base \notin Arena /\ Run(base, MaxLen) \cap DOMAIN view = {}
             /\ c.kind # "ro"
  <2>1. blk.base \in HeapBases /\ p \in Run(blk.base, MaxLen) /\ p \notin Arena
    BY <1>6, BlockPages DEF MapsInv, LiveBlocks
  <2>2. base \notin Arena
    BY <1>6, <2>1, <1>0
  <2>3. base \in HeapBases /\ p \in Run(base, MaxLen)
    BY <1>6, <2>2, SpotReach DEF Spot
  <2>4. blk.base = base
    BY <2>1, <2>3, HeapApart
  <2>5. c.kind # "ro"
    <3> SUFFICES ASSUME c.kind = "ro" PROVE FALSE
      OBVIOUS
    <3>1. PICK x \in pinned : x.base = base
      BY <2>2, <1>6, <1>0
    <3> QED BY <3>1, <2>4 DEF MapsInv, BlocksInv, LiveBlocks
  <2> QED BY <2>2, <2>4, <2>5 DEF Spot
<1>7. UniformInv'
  <2> SUFFICES ASSUME NEW p \in DOMAIN view', NEW q \in DOMAIN view', p \notin Arena, q \notin Arena,
                      view'[p].kind # "pad", view'[q].kind # "pad",
                      view'[p].base = view'[q].base,
                      NEW blk \in fb, blk.base = view'[p].base
               PROVE  view'[p] = view'[q]
    BY DEF UniformInv
  <2>0. ASSUME NEW x \in {p, q} PROVE x \in Pages(blk)
    <3>1. PICK y \in LiveBlocks : y.base = view'[x].base /\ x \in Pages(y)
      BY <1>5 DEF ViewInv, LiveBlocks, Pages
    <3>2. y = blk
      BY <3>1 DEF MapsInv, BlocksInv, LiveBlocks
    <3> QED BY <3>1, <3>2
  <2>1. CASE p \notin R /\ q \notin R
    <3>1. p \in DOMAIN view /\ view'[p] = view[p] /\ q \in DOMAIN view /\ view'[q] = view[q]
      BY <2>1, <1>2
    <3> QED BY <3>1 DEF MapsInv, UniformInv
  <2>2. CASE p \in R \/ q \in R
    <3>1. /\ blk.base = base /\ base \notin Arena /\ Run(base, MaxLen) \cap DOMAIN view = {}
      BY <2>0, <2>2, <1>6
    <3>2. p \in Run(base, MaxLen) /\ q \in Run(base, MaxLen)
      BY <2>0, <3>1, BlockPages DEF MapsInv, LiveBlocks
    <3>3. p \in R /\ q \in R
      BY <3>1, <3>2, <1>2
    <3>4. view'[p] = Stands(c, base, p) /\ view'[q] = Stands(c, base, q)
      BY <3>3, HoldIs
    <3> QED BY <3>4 DEF Stands
  <2> QED BY <2>1, <2>2
<1>8. CallInv'
  <2> SUFFICES ASSUME NEW u \in Threads \ {t}
               PROVE  (call[u] = Idle \/ MappingInv(call[u]) \/ UnmapInv(call[u]))'
    BY <1>1 DEF CallInv
  <2>1. ASSUME MappingInv(call[u]) PROVE MappingInv(call[u])'
    BY <1>1, <2>1 DEF MappingInv, InHeap, InArena, LiveBases, LiveBlocks, Block
  <2>2. ASSUME UnmapInv(call[u]) PROVE UnmapInv(call[u])'
    <3>1. /\ call[u] \in Unmappings /\ call[u].len > 0
          /\ Run(call[u].base, call[u].len) \subseteq DOMAIN view
      BY <2>2 DEF UnmapInv
    <3>2. call[u].base \in DOMAIN view
      BY <3>1 DEF Unmappings, Run
    <3>3. ASSUME NEW blk \in fb, blk.base = call[u].base, NEW p \in DOMAIN view',
                 p \in Pages(blk), view'[p].kind # "pad"
          PROVE  p \in Run(call[u].base, call[u].len)
      <4>1. CASE p \in R
        <5>1. blk.base = base /\ Run(base, MaxLen) \cap DOMAIN view = {}
          BY <4>1, <3>3, <1>6
        <5>2. blk.base \in Run(base, MaxLen)
          BY <5>1, BlockPages DEF MapsInv, LiveBlocks
        <5> QED BY <5>1, <5>2, <3>2, <3>3
      <4>2. CASE p \notin R
        <5>1. p \in DOMAIN view /\ view'[p] = view[p]
          BY <4>2, <1>2
        <5> QED BY <5>1, <2>2, <3>3 DEF UnmapInv
      <4> QED BY <4>1, <4>2
    <3>4. Run(call[u].base, call[u].len) \subseteq DOMAIN view'
      BY <3>1, <1>2
    <3> QED BY <3>1, <3>3, <3>4, <1>1 DEF UnmapInv, Pages
  <2> QED BY <2>1, <2>2, <1>1 DEF MapsInv, CallInv
<1>9. ApartInv'
  <2>1. \A u, v \in Threads : u # v =>
          Taken(u)' \cap Taken(v)' = {} /\ Leaving(u)' \cap Leaving(v)' = {}
    BY <1>3 DEF MapsInv, ApartInv
  <2>2. \A u \in Threads : Taken(u)' \cap DOMAIN view' = {}
    <3>1. \A u \in Threads \ {t} : Taken(u) \cap R = {}
      BY SpotReach
    <3> QED BY <3>1, <1>2, <1>3 DEF MapsInv, ApartInv
  <2>3. ASSUME NEW u \in Threads, Taking(u)', call'[u].base \notin Arena
        PROVE  /\ Run(call'[u].base, MaxLen) \cap DOMAIN view' = {}
               /\ call'[u].kind = "shared" =>
                    \A p \in Taken(u)' : mem'[p] = <<call'[u].file, p - call'[u].base>>
    <3>1. u # t /\ Taking(u) /\ call'[u] = call[u] /\ Taken(u)' = Taken(u)
      BY <2>3, <1>1, <1>3
    <3>2. Run(call[u].base, MaxLen) \cap R = {}
      BY <3>1, <2>3, SpotReach
    <3>3. /\ Run(call[u].base, MaxLen) \cap DOMAIN view = {}
          /\ call[u].kind = "shared" =>
               \A p \in Taken(u) : mem[p] = <<call[u].file, p - call[u].base>>
      BY <3>1, <2>3 DEF MapsInv, ApartInv
    <3> QED BY <3>1, <3>2, <3>3, <1>2
  <2> QED BY <2>1, <2>2, <2>3 DEF ApartInv
<1>10. UsedInv'
  <2>1. R \cap Arena = Taken(t) \cap Arena
    BY DEF Spot, Taker
  <2> QED BY <2>1, <1>2, <1>3 DEF MapsInv, UsedInv, Taker
<1> QED BY <1>3, <1>4, <1>5, <1>7, <1>8, <1>9, <1>10

(* No shared page is taken from anybody. *)
LEMMA SharedStay ==
  ASSUME MapsInv, NEW t \in Threads, NEW c, NEW base, Spot(t, c, base), Hold(c, base)
  PROVE  /\ \A p \in DOMAIN view : view[p].kind = "shared" =>
              p \notin Run(base, c.len) /\ p \in DOMAIN view' /\ view'[p] = view[p]
         /\ \A p \in DOMAIN view' : view'[p].kind = "shared" /\ p \notin Run(base, c.len) =>
              p \in DOMAIN view /\ view[p].kind = "shared"
         /\ c.kind # "shared" => \A p \in Run(base, c.len) : view'[p].kind # "shared"
<1>1. /\ DOMAIN view' = DOMAIN view \cup Run(base, c.len)
      /\ \A p \in DOMAIN view \ Run(base, c.len) : view'[p] = view[p]
  BY HoldIs
<1>2. \A p \in Run(base, c.len) \cap DOMAIN view : view[p].kind # "shared"
  BY DEF Spot
<1>3. \A p \in Run(base, c.len) : view'[p].kind \in {c.kind, "pad"}
  BY HeldPages
<1> QED BY <1>1, <1>2, <1>3

LEMMA HoldData ==
  ASSUME MapsInv, NEW t \in Threads, NEW c, NEW base, Spot(t, c, base), Hold(c, base),
         c.kind # "shared", UNCHANGED <<wmaps, file, dirty, orphan>>,
         \A p \in DOMAIN view : mem'[p] = mem[p] \/ view[p].kind # "shared",
         \A u \in Threads : Leaving(u)' = Leaving(u)
  PROVE  WMapsInv' /\ SavedInv' /\ DataInPlace'
<1>1. /\ \A p \in DOMAIN view : view[p].kind = "shared" => p \in DOMAIN view' /\ view'[p] = view[p]
      /\ \A p \in DOMAIN view' : view'[p].kind = "shared" => p \in DOMAIN view /\ view[p].kind = "shared"
      /\ DOMAIN view \subseteq DOMAIN view'
  <2>1. DOMAIN view' = DOMAIN view \cup Run(base, c.len)
    BY HoldIs
  <2>2. /\ \A p \in DOMAIN view : view[p].kind = "shared" =>
              p \notin Run(base, c.len) /\ p \in DOMAIN view' /\ view'[p] = view[p]
        /\ \A p \in DOMAIN view' : view'[p].kind = "shared" /\ p \notin Run(base, c.len) =>
              p \in DOMAIN view /\ view[p].kind = "shared"
        /\ \A p \in Run(base, c.len) : view'[p].kind # "shared"
    BY SharedStay
  <2> QED BY <2>1, <2>2
<1>2. \A i \in Slots : Pages(wmaps[i])' = Pages(wmaps[i])
  BY DEF Pages
<1>3. WMapsInv'
  <2>1. ASSUME NEW i \in Slots, NEW p \in Pages(wmaps[i])
        PROVE  /\ p \in DOMAIN view' /\ view'[p].kind = "shared"
               /\ PlaceIn(view', p) = <<wmaps[i].file, wmaps[i].off + p - wmaps[i].base>>
               /\ \A u \in Threads : p \notin Leaving(u)
    <3>1. /\ p \in DOMAIN view /\ view[p].kind = "shared"
          /\ PlaceIn(view, p) = <<wmaps[i].file, wmaps[i].off + p - wmaps[i].base>>
          /\ \A u \in Threads : p \notin Leaving(u)
      BY <2>1 DEF MapsInv, WMapsInv
    <3>2. p \in DOMAIN view' /\ view'[p] = view[p]
      BY <3>1, <1>1
    <3> QED BY <3>1, <3>2 DEF PlaceIn
  <2>2. /\ wmaps' \in [Slots -> [base : Nat, len : Nat, file : Files \cup {"none"}, off : Nat]]
        /\ \A i \in Slots : wmaps'[i] # NoMap => wmaps'[i].len > 0 /\ wmaps'[i].file \in Files
        /\ \A i, j \in Slots : i # j => Pages(wmaps'[i]) \cap Pages(wmaps'[j]) = {}
    BY DEF MapsInv, WMapsInv
  <2> QED BY <2>1, <2>2, <1>2 DEF WMapsInv
<1>4. SavedInv'
  <2>1. orphan' \subseteq DOMAIN view' /\ \A u \in Threads : \A p \in Leaving(u)' \cap dirty' : p \in orphan'
    BY <1>1 DEF MapsInv, SavedInv
  <2>2. \A p \in dirty' : p \in DOMAIN view' /\ view'[p].kind = "shared"
    BY <1>1 DEF MapsInv, SavedInv
  <2>3. ASSUME NEW p \in DOMAIN view', view'[p].kind = "shared"
        PROVE  Covers(wmaps', p) \/ p \in orphan \/ \E u \in Threads : p \in Leaving(u)
    <3>1. p \in DOMAIN view /\ view[p].kind = "shared"
      BY <2>3, <1>1
    <3>2. wmaps' = wmaps
      OBVIOUS
    <3> QED BY <3>1, <3>2 DEF MapsInv, SavedInv
  <2> QED BY <2>1, <2>2, <2>3 DEF SavedInv
<1>5. DataInPlace'
  <2>1. ASSUME NEW p \in DOMAIN view', view'[p].kind = "shared"
        PROVE  mem'[p] = PlaceIn(view', p) \/ \E u \in Threads : p \in Leaving(u)
    <3>1. p \in DOMAIN view /\ view[p].kind = "shared" /\ view'[p] = view[p]
      BY <2>1, <1>1
    <3>2. mem'[p] = mem[p]
      BY <3>1
    <3> QED BY <3>1, <3>2 DEF MapsInv, DataInPlace, PlaceIn
  <2>2. \A g \in Files, o \in Offsets : file'[g][o] = <<g, o>>
    BY DEF MapsInv, DataInPlace
  <2> QED BY <2>1, <2>2 DEF DataInPlace
<1> QED BY <1>3, <1>4, <1>5

(* Pages that have memory. *)
LEMMA HaveMemory ==
  ASSUME MapsInv
  PROVE  /\ \A p \in DOMAIN view : view[p].kind = "shared" => p \in Addresses
         /\ \A u \in Threads : Taken(u) \subseteq Addresses
         /\ \A b \in HeapBases : Run(b, MaxLen) \subseteq Addresses
<1>1. \A b \in HeapBases : Run(b, MaxLen) \subseteq Addresses
  BY DEF Addresses
<1>2. Arena \subseteq Addresses
  BY DEF Addresses
<1>3. ASSUME NEW p \in DOMAIN view, view[p].kind = "shared" PROVE p \in Addresses
  <2>1. CASE p \in Arena
    BY <2>1, <1>2
  <2>2. CASE p \notin Arena
    <3>1. PICK blk \in LiveBlocks : p \in Pages(blk)
      BY <2>2, <1>3 DEF MapsInv, ViewInv
    <3> QED BY <3>1, <1>1, BlockPages DEF MapsInv
  <2> QED BY <2>1, <2>2
<1>4. ASSUME NEW u \in Threads PROVE Taken(u) \subseteq Addresses
  <2>1. CASE ~Taking(u)
    BY <2>1 DEF Taken
  <2>2. CASE Taking(u)
    BY <2>2, TakenIs, <1>1, <1>2 DEF MapsInv
  <2> QED BY <2>1, <2>2
<1> QED BY <1>1, <1>3, <1>4

LEMMA FilledIs ==
  ASSUME NEW c, NEW base, NEW got, mem' = Filled(c, base, got)
  PROVE  \A p \in Addresses :
           /\ p \notin Run(base, got) => mem'[p] = mem[p]
           /\ p \in Run(base, got) /\ IsFile(c.kind) => mem'[p] = file[c.file][p - base]
  BY DEF Filled

-----------------------------------------------------------------------------
(* mmap on the heap. *)

(* A step of a mapping that leaves what is held, and the maps of files, as *)
(* they are.                                                               *)
LEMMA HeapStays ==
  ASSUME MapsInv, NEW t \in Threads, UNCHANGED <<view, wmaps, file, dirty, orphan>>,
         call[t].op \in Steps, call'[t].op # "unmap", \A u \in Threads \ {t} : call'[u] = call[u],
         \A p \in DOMAIN view : view[p].kind = "shared" => mem'[p] = mem[p]
  PROVE  WMapsInv' /\ SavedInv' /\ DataInPlace'
<1>1. \A u \in Threads : Leaving(u)' = Leaving(u)
  BY DEF Leaving, Steps
<1> QED BY <1>1, DataStays DEF MapsInv

(* A block of the cache can be handed out again and again. *)
LEMMA PinnedSpot ==
  ASSUME MapsInv, NEW t \in Threads, NEW c \in Mappings, c.kind = "ro",
         c.len \in Lens(c.kind), c.file # "none", NEW base,
         [base |-> base, len |-> c.len] \in pinned, Taker(t) = {}
  PROVE  Spot(t, c, base)
<1> DEFINE blk == [base |-> base, len |-> c.len]
<1>1. blk \in LiveBlocks /\ blk.base = base /\ blk \in pinned
  BY DEF LiveBlocks
<1> HIDE DEF blk
<1>2. base \in HeapBases /\ base \in Nat /\ base \notin Arena
  BY <1>1, BlockPages, HeapApart DEF MapsInv
<1>3. c.len \in 1 .. MaxLen
  BY LensAre, SizesAreNats DEF Mappings
<1>4. Run(base, c.len) \subseteq Run(base, MaxLen) /\ Run(base, c.len) \cap Arena = {}
  BY <1>2, <1>3, HeapApart, SizesAreNats DEF Run, Arena
<1>5. ASSUME NEW p \in Run(base, c.len) \cap DOMAIN view
      PROVE  p \notin Arena /\ (view[p].kind = "pad" \/ view[p].kind = "ro")
  <2>1. p \notin Arena
    BY <1>4
  <2> SUFFICES ASSUME view[p].kind # "pad" PROVE view[p].kind = "ro"
    BY <2>1
  <2>2. PICK x \in LiveBlocks : /\ x.base = view[p].base /\ p \in Pages(x)
                                /\ x \in IF view[p].kind = "ro" THEN pinned ELSE fb
    BY <2>1 DEF MapsInv, ViewInv
  <2>3. x.base \in HeapBases /\ p \in Run(x.base, MaxLen)
    BY <2>2, BlockPages DEF MapsInv
  <2>4. x.base = base
    BY <2>3, <1>2, <1>4, HeapApart
  <2>5. x = blk
    BY <2>4, <1>1 DEF MapsInv, BlocksInv
  <2> QED BY <2>2, <2>5, <1>1 DEF MapsInv, BlocksInv
<1>6. \A u \in Threads \ {t} : Taking(u) => call[u].base # base
  BY <1>1 DEF Taking
<1> QED BY <1>2, <1>4, <1>5, <1>6, <1>1 DEF Spot, IsFile, blk

LEMMA HeapCached ==
  ASSUME MapsInv, NEW t \in Threads, Heap(t), Cached(call[t]) # {}
  PROVE  MapsInv'
<1>1. call[t].op = "heap" /\ call[t] \in Mappings /\ MappingInv(call[t]) /\ ~Taking(t)
  BY ThreadIs DEF MapsInv, Heap, Steps, Taking
<1>2. PICK m \in Cached(call[t]) : Hold(call[t], m.base)
  BY DEF Heap
<1>3. /\ call' = [call EXCEPT ![t] = Idle]
      /\ UNCHANGED <<used, fb, pinned, mapc, wmaps, mem, file, dirty, orphan>>
  BY DEF Heap, tables, ghosts
<1>4. /\ m \in mapc /\ call[t].kind = "ro" /\ m.len = call[t].len
      /\ [base |-> m.base, len |-> m.len] \in pinned
  BY DEF Cached, MapsInv, BlocksInv
<1>5. Taker(t) = {}
  BY <1>1 DEF Taker, Taken
<1>6. Spot(t, call[t], m.base)
  <2>1. call[t].len \in Lens(call[t].kind) /\ call[t].file # "none"
    BY <1>1, <1>4 DEF MappingInv, IsFile
  <2> QED BY <2>1, <1>1, <1>4, <1>5, PinnedSpot
<1>7. call[t].op \in Steps
  BY <1>1 DEF Steps
<1>8. /\ CallInv' /\ ApartInv' /\ UsedInv' /\ BlocksInv' /\ ViewInv' /\ UniformInv'
      /\ \A u \in Threads : Leaving(u)' = Leaving(u)
  BY <1>2, <1>3, <1>6, <1>7, HoldKeeps
<1>9. WMapsInv' /\ SavedInv' /\ DataInPlace'
  BY <1>2, <1>3, <1>4, <1>6, <1>8, HoldData
<1> QED BY <1>8, <1>9 DEF MapsInv

LEMMA OthersStay ==
  ASSUME MapsInv, NEW t \in Threads, UNCHANGED <<fb, pinned, view>>,
         \A u \in Threads \ {t} : call'[u] = call[u]
  PROVE  /\ \A u \in Threads \ {t} : /\ (call[u] = Idle \/ MappingInv(call[u]) \/ UnmapInv(call[u]))'
                                     /\ Taken(u)' = Taken(u) /\ (Taking(u)' <=> Taking(u))
         /\ Taken(t)' = IF call'[t].op \in Steps \ {"heap"} /\ \A blk \in pinned : blk.base # call'[t].base
                        THEN Run(call'[t].base, call'[t].got) ELSE {}
<1>1. ASSUME NEW u \in Threads \ {t}
      PROVE  (call[u] = Idle \/ MappingInv(call[u]) \/ UnmapInv(call[u]))'
  <2>1. ASSUME MappingInv(call[u]) PROVE MappingInv(call[u])'
    BY <2>1 DEF MappingInv, InHeap, InArena, LiveBases, LiveBlocks, Block
  <2>2. ASSUME UnmapInv(call[u]) PROVE UnmapInv(call[u])'
    BY <2>2 DEF UnmapInv, Pages
  <2> QED BY <2>1, <2>2 DEF MapsInv, CallInv
<1>2. ASSUME NEW u \in Threads \ {t} PROVE Taken(u)' = Taken(u) /\ (Taking(u)' <=> Taking(u))
  BY DEF Taken, Taking
<1>3. Taken(t)' = IF call'[t].op \in Steps \ {"heap"} /\ \A blk \in pinned : blk.base # call'[t].base
                  THEN Run(call'[t].base, call'[t].got) ELSE {}
  BY DEF Taken, Taking, Steps
<1> QED BY <1>1, <1>2, <1>3

(* A mapping that had taken nothing yet gives up. *)
LEMMA HeapGivesUp ==
  ASSUME MapsInv, NEW t \in Threads, call[t].op \in Steps, Taker(t) = {},
         call' = [call EXCEPT ![t] = Idle],
         UNCHANGED <<used, fb, pinned, mapc, wmaps, mem, file, view, dirty, orphan>>
  PROVE  MapsInv'
<1>1. /\ DOMAIN call = Threads /\ DOMAIN call' = Threads
      /\ call'[t] = Idle /\ \A u \in Threads \ {t} : call'[u] = call[u]
  BY DEF MapsInv, CallInv
<1>2. /\ \A u \in Threads \ {t} : /\ (call[u] = Idle \/ MappingInv(call[u]) \/ UnmapInv(call[u]))'
                                  /\ Taken(u)' = Taken(u) /\ (Taking(u)' <=> Taking(u))
  BY <1>1, OthersStay
<1>3. Taken(t)' = {} /\ ~Taking(t)' /\ \A u \in Threads : Leaving(u)' = Leaving(u)
  BY <1>1 DEF Taken, Taking, Leaving, Idle, Steps
<1>4. CallInv'
  BY <1>1, <1>2 DEF CallInv
<1>5. ApartInv'
  BY <1>1, <1>2, <1>3 DEF MapsInv, ApartInv
<1>6. UsedInv'
  BY <1>2, <1>3 DEF MapsInv, UsedInv, Taker
<1>7. BlocksInv' /\ ViewInv' /\ UniformInv'
  BY DEF MapsInv, BlocksInv, ViewInv, UniformInv, LiveBlocks, Pages
<1>8. WMapsInv' /\ SavedInv' /\ DataInPlace'
  BY <1>3, DataStays DEF MapsInv
<1> QED BY <1>4, <1>5, <1>6, <1>7, <1>8 DEF MapsInv

LEMMA HeapNew ==
  ASSUME MapsInv, NEW t \in Threads, Heap(t), Cached(call[t]) = {}, HeapFree # {}
  PROVE  MapsInv'
<1> DEFINE b == Min(HeapFree)
           len == IF call[t].kind = "over" THEN Trimmed(call[t].len) ELSE call[t].len
           d == [call[t] EXCEPT !.op = "fb_add", !.base = b, !.got = len]
<1>1. call[t].op = "heap" /\ call[t] \in Mappings /\ MappingInv(call[t])
  BY ThreadIs DEF MapsInv, Heap, Steps
<1>2. /\ mem' = Filled(call[t], b, len)
      /\ call' = [call EXCEPT ![t] = d]
      /\ UNCHANGED <<used, fb, pinned, mapc, wmaps, file, view, dirty, orphan>>
  BY DEF Heap, tables, ghosts
<1>3. b \in HeapFree
  <2>1. HeapFree \subseteq Nat
    BY HeapApart DEF HeapFree
  <2> QED BY <2>1, LeastExists
<1> HIDE DEF b
<1>4. /\ b \in HeapBases /\ b \notin LiveBases /\ b \in Nat /\ b \notin Arena
      /\ \A u \in Threads : b \notin Taken(u)
      /\ Run(b, MaxLen) \cap DOMAIN view = {}
  BY <1>3, HeapApart DEF HeapFree, LiveBases
<1>5. call[t].kind \in Kinds /\ call[t].len \in Lens(call[t].kind) /\ call[t].len \in 1 .. MaxLen
  BY <1>1, LensAre, SizesAreNats DEF Mappings, MappingInv
<1>6. len \in 1 .. call[t].len /\ Run(b, len) \subseteq Run(b, MaxLen)
  BY <1>4, <1>5, LensAre, SizesAreNats DEF Run
<1>7. /\ DOMAIN call = Threads /\ DOMAIN call' = Threads
      /\ call'[t] = d /\ \A u \in Threads \ {t} : call'[u] = call[u]
  BY <1>2 DEF MapsInv, CallInv
<1> HIDE DEF len
<1>8. /\ d.op = "fb_add" /\ d.base = b /\ d.got = len
      /\ d.kind = call[t].kind /\ d.file = call[t].file /\ d.len = call[t].len
      /\ d \in Mappings
  <2>1. len \in Nat /\ "fb_add" \in Steps
    BY <1>5, <1>6 DEF Steps
  <2>2. d \in Mappings
    BY <2>1, <1>1, <1>4 DEF Mappings
  <2>3. /\ d.op = "fb_add" /\ d.base = b /\ d.got = len
        /\ d.kind = call[t].kind /\ d.file = call[t].file /\ d.len = call[t].len
    BY <1>1 DEF Mappings
  <2> QED BY <2>2, <2>3
<1> HIDE DEF d
<1>9. /\ \A u \in Threads \ {t} : /\ (call[u] = Idle \/ MappingInv(call[u]) \/ UnmapInv(call[u]))'
                                  /\ Taken(u)' = Taken(u) /\ (Taking(u)' <=> Taking(u))
  BY <1>2, <1>7, OthersStay
<1>10. Taken(t)' = Run(b, len)
  <2>1. \A blk \in pinned : blk.base # b
    BY <1>4 DEF LiveBases, LiveBlocks
  <2> QED BY <2>1, <1>2, <1>7, <1>8 DEF Taken, Taking
<1>11. \A u \in Threads : Leaving(u)' = Leaving(u)
  BY <1>1, <1>7, <1>8 DEF Leaving
<1>12. MappingInv(call[t])'
  <2>1. InHeap(call[t])'
    BY <1>2, <1>4, <1>7, <1>8 DEF InHeap, LiveBases, LiveBlocks, len
  <2> QED BY <2>1, <1>1, <1>2, <1>4, <1>5, <1>7, <1>8 DEF MappingInv
<1>13. CallInv'
  BY <1>7, <1>9, <1>12 DEF CallInv
<1>14. ASSUME NEW u \in Threads \ {t} PROVE Taken(u) \cap Run(b, len) = {}
  <2>1. CASE ~Taking(u)
    BY <2>1 DEF Taken
  <2>2. CASE Taking(u) /\ call[u].base \in Arena
    BY <2>2, <1>4, <1>6, TakenIs, HeapApart, SizesAreNats DEF MapsInv, Run, Arena
  <2>3. CASE Taking(u) /\ call[u].base \notin Arena
    <3>1. call[u].base \in HeapBases /\ call[u].base \in Taken(u) /\ Taken(u) \subseteq Run(call[u].base, MaxLen)
      BY <2>3, TakenIs DEF MapsInv
    <3>2. call[u].base # b
      BY <3>1, <1>4
    <3> QED BY <3>1, <3>2, <1>4, <1>6, HeapApart
  <2> QED BY <2>1, <2>2, <2>3
<1>15. \A p \in Addresses :
         /\ p \notin Run(b, len) => mem'[p] = mem[p]
         /\ p \in Run(b, len) /\ IsFile(call[t].kind) => mem'[p] = file[call[t].file][p - b]
  BY <1>2, FilledIs
<1>16. ApartInv'
  <2>1. \A u, v \in Threads : u # v =>
          Taken(u)' \cap Taken(v)' = {} /\ Leaving(u)' \cap Leaving(v)' = {}
    <3>1. \A u, v \in Threads : u # v =>
            Taken(u) \cap Taken(v) = {} /\ Leaving(u) \cap Leaving(v) = {}
      BY DEF MapsInv, ApartInv
    <3> QED BY <3>1, <1>9, <1>10, <1>11, <1>14
  <2>2. \A u \in Threads : Taken(u)' \cap DOMAIN view' = {}
    <3>1. \A u \in Threads : Taken(u) \cap DOMAIN view = {}
      BY DEF MapsInv, ApartInv
    <3> QED BY <3>1, <1>2, <1>4, <1>6, <1>9, <1>10
  <2>3. ASSUME call[t].kind = "shared", NEW p \in Run(b, len)
        PROVE  mem'[p] = <<call[t].file, p - b>>
    <3>1. p \in Addresses
      BY <1>4, <1>6, HaveMemory
    <3>2. call[t].file \in Files
      BY <2>3, <1>1 DEF MappingInv, Mappings, IsFile
    <3>3. p - b \in Offsets
      BY <1>4, <1>5, <1>6, SizesAreNats DEF Run, Offsets
    <3>4. mem'[p] = file[call[t].file][p - b]
      BY <3>1, <2>3, <1>15 DEF IsFile
    <3> QED BY <3>2, <3>3, <3>4 DEF MapsInv, DataInPlace
  <2>4. ASSUME NEW u \in Threads, Taking(u)', call'[u].base \notin Arena
        PROVE  /\ Run(call'[u].base, MaxLen) \cap DOMAIN view' = {}
               /\ call'[u].kind = "shared" =>
                    \A p \in Taken(u)' : mem'[p] = <<call'[u].file, p - call'[u].base>>
    <3>1. CASE u = t
      BY <3>1, <2>3, <1>2, <1>4, <1>7, <1>8, <1>10
    <3>2. CASE u # t
      <4>1. Taking(u) /\ call'[u] = call[u] /\ Taken(u)' = Taken(u)
        BY <3>2, <2>4, <1>7, <1>9
      <4>2. \A p \in Taken(u) : mem'[p] = mem[p]
        BY <3>2, <1>14, <1>15, HaveMemory
      <4>3. /\ Run(call[u].base, MaxLen) \cap DOMAIN view = {}
            /\ call[u].kind = "shared" =>
                 \A p \in Taken(u) : mem[p] = <<call[u].file, p - call[u].base>>
        BY <4>1, <2>4 DEF MapsInv, ApartInv
      <4> QED BY <4>1, <4>2, <4>3, <1>2
    <3> QED BY <3>1, <3>2
  <2> QED BY <2>1, <2>2, <2>4 DEF ApartInv
<1>17. UsedInv'
  <2>1. Taker(t) = {}
    BY <1>1 DEF Taker, Taken, Taking
  <2>2. Taker(t)' = {}
    BY <1>4, <1>6, <1>10, HeapApart, SizesAreNats DEF Taker, Run, Arena
  <2> QED BY <2>1, <2>2, <1>2, <1>9 DEF MapsInv, UsedInv, Taker
<1>18. BlocksInv' /\ ViewInv' /\ UniformInv'
  BY <1>2 DEF MapsInv, BlocksInv, ViewInv, UniformInv, LiveBlocks, Pages
<1>19. WMapsInv' /\ SavedInv' /\ DataInPlace'
  <2>1. \A p \in DOMAIN view : view[p].kind = "shared" => mem'[p] = mem[p]
    BY <1>4, <1>6, <1>15, HaveMemory
  <2> QED BY <2>1, <1>2, <1>11, DataStays DEF MapsInv
<1> QED BY <1>13, <1>16, <1>17, <1>18, <1>19 DEF MapsInv

LEMMA HeapStep ==
  ASSUME MapsInv, NEW t \in Threads, Heap(t)
  PROVE  MapsInv'
<1>1. CASE Cached(call[t]) # {}
  BY <1>1, HeapCached
<1>2. CASE Cached(call[t]) = {} /\ HeapFree = {}
  <2>1. call[t].op \in Steps /\ Taker(t) = {}
    BY DEF Heap, Steps, Taker, Taken, Taking
  <2>2. /\ call' = [call EXCEPT ![t] = Idle]
        /\ UNCHANGED <<used, fb, pinned, mapc, wmaps, mem, file, view, dirty, orphan>>
    BY <1>2 DEF Heap, tables, ghosts
  <2> QED BY <2>1, <2>2, HeapGivesUp
<1>3. CASE Cached(call[t]) = {} /\ HeapFree # {}
  BY <1>3, HeapNew
<1> QED BY <1>1, <1>2, <1>3

-----------------------------------------------------------------------------
(* The tables of heap blocks. *)

(* A block that munmap could free and that a mapping relies on is that     *)
(* mapping's alone.                                                        *)
LEMMA BlockTaken ==
  ASSUME MapsInv, NEW t \in Threads, MappingInv(call[t]), call[t].op # "heap",
         call[t].base \notin Arena, Block(call[t]) \in fb \/ call[t].base \notin LiveBases
  PROVE  /\ Taking(t) /\ call[t].base \in HeapBases
         /\ Run(call[t].base, MaxLen) \cap DOMAIN view = {}
         /\ \A u \in Threads \ {t} : Taking(u) => call[u].base # call[t].base
<1>1. call[t].op \in {"fb_add", "mapc_put", "map_add", "undo"}
  BY DEF MappingInv, Mappings, Steps
<1>2. \A blk \in pinned : blk.base # call[t].base
  <2>1. CASE Block(call[t]) \in fb
    <3>1. Block(call[t]).base = call[t].base
      BY DEF Block
    <3> QED BY <2>1, <3>1 DEF MapsInv, BlocksInv, LiveBlocks
  <2>2. CASE call[t].base \notin LiveBases
    BY <2>2 DEF LiveBases, LiveBlocks
  <2> QED BY <2>1, <2>2
<1>3. Taking(t)
  BY <1>1, <1>2 DEF Taking
<1>4. call[t].base \in HeapBases /\ call[t].base \in Taken(t)
  BY <1>3, TakenIs DEF MapsInv
<1>5. Run(call[t].base, MaxLen) \cap DOMAIN view = {}
  BY <1>3 DEF MapsInv, ApartInv
<1>6. ASSUME NEW u \in Threads \ {t}, Taking(u) PROVE call[u].base # call[t].base
  <2>1. call[u].base \in Taken(u)
    BY <1>6, TakenIs DEF MapsInv
  <2>2. Taken(u) \cap Taken(t) = {}
    BY DEF MapsInv, ApartInv
  <2> QED BY <2>1, <2>2, <1>4
<1> QED BY <1>3, <1>4, <1>5, <1>6

(* The blocks that hold pages in use do not start where t has taken memory. *)
LEMMA BlockInUse ==
  ASSUME MapsInv, NEW b, Run(b, MaxLen) \cap DOMAIN view = {},
         NEW p \in DOMAIN view, p \notin Arena, view[p].kind # "pad"
  PROVE  view[p].base # b
<1>1. PICK blk \in LiveBlocks : blk.base = view[p].base /\ p \in Pages(blk)
  BY DEF MapsInv, ViewInv
<1>2. p \in Run(blk.base, MaxLen)
  BY <1>1, BlockPages DEF MapsInv
<1> QED BY <1>1, <1>2

LEMMA FbAddStep ==
  ASSUME MapsInv, NEW t \in Threads, FbAdd(t)
  PROVE  MapsInv'
<1>1. call[t].op = "fb_add" /\ call[t] \in Mappings /\ MappingInv(call[t])
  BY ThreadIs DEF MapsInv, FbAdd, Steps
<1>2. /\ call[t].base \notin Arena /\ InHeap(call[t]) /\ call[t].base \in HeapBases
      /\ call[t].base \notin LiveBases
  BY <1>1 DEF MappingInv, InArena, InHeap
<1>3. /\ Taking(t) /\ Run(call[t].base, MaxLen) \cap DOMAIN view = {}
      /\ \A u \in Threads \ {t} : Taking(u) => call[u].base # call[t].base
  BY <1>1, <1>2, BlockTaken
<1>4. UNCHANGED <<used, pinned, mapc, wmaps, mem, file, view, dirty, orphan>>
  BY DEF FbAdd, ghosts
<1>5. Taker(t) = {}
  BY <1>2, <1>3, TakenIs DEF MapsInv, Taker
<1>6. CASE Cardinality(fb) >= MMAP_FALLBACK_MAX
  <2>1. call' = [call EXCEPT ![t] = Idle] /\ UNCHANGED fb
    BY <1>6 DEF FbAdd
  <2> QED BY <2>1, <1>1, <1>4, <1>5, HeapGivesUp DEF Steps
<1>7. CASE ~(Cardinality(fb) >= MMAP_FALLBACK_MAX)
  <2> DEFINE blk == Block(call[t])
             d == [call[t] EXCEPT !.op = IF call[t].kind = "ro" THEN "mapc_put" ELSE "map_add"]
  <2>1. fb' = fb \cup {blk} /\ call' = [call EXCEPT ![t] = d]
    BY <1>7 DEF FbAdd, Block
  <2>2. /\ DOMAIN call = Threads /\ DOMAIN call' = Threads
        /\ call'[t] = d /\ \A u \in Threads \ {t} : call'[u] = call[u]
    BY <2>1 DEF MapsInv, CallInv
  <2>3. /\ d \in Mappings /\ d.kind = call[t].kind /\ d.file = call[t].file /\ d.len = call[t].len
        /\ d.base = call[t].base /\ d.got = call[t].got
        /\ d.op = IF call[t].kind = "ro" THEN "mapc_put" ELSE "map_add"
    BY <1>1 DEF Mappings, Steps
  <2> HIDE DEF d
  <2>4. /\ blk.base = call[t].base /\ blk.len = call[t].got
        /\ blk \in [base : HeapBases, len : 1 .. MaxLen]
    <3>1. call[t].got \in 1 .. MaxLen
      <4>1. call[t].got \in 1 .. call[t].len /\ call[t].len <= MaxLen
        BY <1>3, TakenIs DEF MapsInv
      <4>2. call[t].len \in Nat
        BY <1>1, LensAre DEF MappingInv, Mappings
      <4> QED BY <4>1, <4>2, SizesAreNats
    <3> QED BY <3>1, <1>2 DEF Block
  <2>5. LiveBlocks' = LiveBlocks \cup {blk} /\ \A x \in LiveBlocks : x.base # blk.base
    BY <2>1, <2>4, <1>2, <1>4 DEF LiveBlocks, LiveBases
  <2> HIDE DEF blk
  <2>6. BlocksInv'
    <3>1. /\ LiveBlocks' \subseteq [base : HeapBases, len : 1 .. MaxLen]
          /\ \A x, y \in LiveBlocks' : x.base = y.base => x = y
      BY <2>4, <2>5 DEF MapsInv, BlocksInv
    <3>2. fb' \cap pinned' = {}
      BY <2>1, <2>5, <1>4 DEF MapsInv, BlocksInv, LiveBlocks
    <3> QED BY <3>1, <3>2, <1>4 DEF MapsInv, BlocksInv
  <2>7. ViewInv'
    BY <2>1, <2>5, <1>4 DEF MapsInv, ViewInv, Pages
  <2>8. UniformInv'
    <3>1. \A p \in DOMAIN view \ Arena : view[p].kind # "pad" => view[p].base # blk.base
      BY <1>3, <2>4, BlockInUse
    <3> QED BY <3>1, <2>1, <1>4 DEF MapsInv, UniformInv
  <2>9. MappingInv(call[t])'
    <3>1. InHeap(call[t])'
      BY <1>2, <1>4, <2>1, <2>2, <2>3 DEF InHeap, Block, blk
    <3> QED BY <3>1, <1>1, <1>2, <2>2, <2>3 DEF MappingInv
  <2>10. ASSUME NEW u \in Threads \ {t} PROVE (call[u] = Idle \/ MappingInv(call[u]) \/ UnmapInv(call[u]))'
    <3>1. ASSUME MappingInv(call[u]) PROVE MappingInv(call[u])'
      <4>1. CASE call[u].op = "heap" \/ call[u].base \in Arena
        BY <4>1, <3>1, <2>2 DEF MappingInv, InArena
      <4>2. CASE call[u].op # "heap" /\ call[u].base \notin Arena
        <5>1. InHeap(call[u])
          BY <4>2, <3>1 DEF MappingInv
        <5>2. ASSUME call[u].op = "fb_add" PROVE call[u].base \notin LiveBases'
          <6>1. call[u].base \notin LiveBases
            BY <5>1, <5>2 DEF InHeap
          <6>2. call[u].base # call[t].base
            BY <6>1, <4>2, <3>1, <1>3, BlockTaken
          <6> QED BY <6>1, <6>2, <2>4, <2>5 DEF LiveBases
        <5>3. InHeap(call[u])'
          BY <5>1, <5>2, <2>1, <2>2, <1>4 DEF InHeap, Block, LiveBases
        <5> QED BY <5>3, <4>2, <3>1, <2>2 DEF MappingInv
      <4> QED BY <4>1, <4>2
    <3>2. ASSUME UnmapInv(call[u]) PROVE UnmapInv(call[u])'
      <4>1. call[u].base \in DOMAIN view
        BY <3>2 DEF UnmapInv, Unmappings, Run
      <4>2. call[u].base # blk.base
        <5>1. blk.base \in Run(blk.base, MaxLen)
          BY <2>4, HeapApart, SizesAreNats DEF Run
        <5> QED BY <4>1, <5>1, <1>3, <2>4
      <4> QED BY <3>2, <4>2, <2>1, <2>2, <1>4 DEF UnmapInv, Pages
    <3> QED BY <3>1, <3>2, <2>2 DEF MapsInv, CallInv
  <2>11. CallInv'
    BY <2>2, <2>9, <2>10 DEF CallInv
  <2>12. /\ \A u \in Threads : /\ Taken(u)' = Taken(u) /\ (Taking(u)' <=> Taking(u))
                               /\ Leaving(u)' = Leaving(u)
                               /\ Taking(u) => call'[u].base = call[u].base /\ call'[u].kind = call[u].kind
                                               /\ call'[u].file = call[u].file
    BY <1>1, <1>4, <2>2, <2>3 DEF Taken, Taking, Leaving
  <2>13. ApartInv' /\ UsedInv'
    <3>1. ApartInv'
      <4>1. \A u, v \in Threads : u # v =>
              Taken(u)' \cap Taken(v)' = {} /\ Leaving(u)' \cap Leaving(v)' = {}
        BY <2>12 DEF MapsInv, ApartInv
      <4>2. \A u \in Threads : Taken(u)' \cap DOMAIN view' = {}
        BY <2>12, <1>4 DEF MapsInv, ApartInv
      <4>3. ASSUME NEW u \in Threads, Taking(u)', call'[u].base \notin Arena
            PROVE  /\ Run(call'[u].base, MaxLen) \cap DOMAIN view' = {}
                   /\ call'[u].kind = "shared" =>
                        \A p \in Taken(u)' : mem'[p] = <<call'[u].file, p - call'[u].base>>
        BY <4>3, <2>12, <1>4 DEF MapsInv, ApartInv
      <4> QED BY <4>1, <4>2, <4>3 DEF ApartInv
    <3>2. UsedInv'
      BY <2>12, <1>4 DEF MapsInv, UsedInv, Taker
    <3> QED BY <3>1, <3>2
  <2>14. WMapsInv' /\ SavedInv' /\ DataInPlace'
    BY <2>12, <1>4, DataStays DEF MapsInv
  <2> QED BY <2>6, <2>7, <2>8, <2>11, <2>13, <2>14 DEF MapsInv
<1> QED BY <1>6, <1>7

LEMMA MapcPutStep ==
  ASSUME MapsInv, NEW t \in Threads, MapcPut(t)
  PROVE  MapsInv'
<1> DEFINE blk == Block(call[t])
           d == [call[t] EXCEPT !.op = "map_add"]
<1>1. call[t].op = "mapc_put" /\ call[t] \in Mappings /\ MappingInv(call[t])
  BY ThreadIs DEF MapsInv, MapcPut, Steps
<1>2. /\ call[t].base \notin Arena /\ InHeap(call[t]) /\ call[t].base \in HeapBases
      /\ blk \in fb /\ call[t].kind = "ro" /\ call[t].got = call[t].len
  BY <1>1 DEF MappingInv, InArena, InHeap
<1>3. /\ Taking(t) /\ Run(call[t].base, MaxLen) \cap DOMAIN view = {}
      /\ \A u \in Threads \ {t} : Taking(u) => call[u].base # call[t].base
  BY <1>1, <1>2, BlockTaken
<1>4. /\ fb' = fb \ {blk} /\ pinned' = pinned \cup {blk}
      /\ mapc' = IF Cardinality(mapc) < MAPC_N
                 THEN mapc \cup {[file |-> call[t].file, len |-> call[t].len, base |-> call[t].base]}
                 ELSE mapc
      /\ call' = [call EXCEPT ![t] = d]
      /\ UNCHANGED <<used, wmaps, mem, file, view, dirty, orphan>>
  BY DEF MapcPut, Block, ghosts
<1>5. /\ DOMAIN call = Threads /\ DOMAIN call' = Threads
      /\ call'[t] = d /\ \A u \in Threads \ {t} : call'[u] = call[u]
  BY <1>4 DEF MapsInv, CallInv
<1>6. /\ d \in Mappings /\ d.kind = call[t].kind /\ d.file = call[t].file /\ d.len = call[t].len
      /\ d.base = call[t].base /\ d.got = call[t].got /\ d.op = "map_add"
  BY <1>1 DEF Mappings, Steps
<1> HIDE DEF d
<1>7. blk.base = call[t].base /\ blk.len = call[t].len /\ blk = [base |-> call[t].base, len |-> call[t].len]
  BY <1>2 DEF Block
<1>8. Block(call[t])' = blk
  BY <1>2, <1>5, <1>6, <1>7 DEF Block
<1> HIDE DEF blk
<1>9. LiveBlocks' = LiveBlocks
  BY <1>2, <1>4 DEF LiveBlocks
<1>10. BlocksInv'
  <2>1. call[t].file \in Files /\ call[t].len \in RoLens
    BY <1>1, <1>2 DEF MappingInv, Mappings, IsFile, Lens
  <2>2. mapc' \subseteq [file : Files, len : RoLens, base : HeapBases]
    BY <2>1, <1>2, <1>4 DEF MapsInv, BlocksInv
  <2>3. ASSUME NEW m \in mapc' PROVE [base |-> m.base, len |-> m.len] \in pinned'
    <3>1. CASE m \in mapc
      BY <3>1, <1>4 DEF MapsInv, BlocksInv
    <3>2. CASE m \notin mapc
      <4>1. m = [file |-> call[t].file, len |-> call[t].len, base |-> call[t].base]
        BY <3>2, <1>4
      <4>2. m.base = call[t].base /\ m.len = call[t].len
        BY <4>1
      <4> QED BY <4>2, <1>4, <1>7
    <3> QED BY <3>1, <3>2
  <2>4. fb' \cap pinned' = {}
    BY <1>4 DEF MapsInv, BlocksInv
  <2> QED BY <2>2, <2>3, <2>4, <1>9 DEF MapsInv, BlocksInv
<1>11. \A p \in DOMAIN view : p \notin Arena /\ view[p].kind # "pad" => view[p].base # blk.base
  BY <1>3, <1>7, BlockInUse
<1>12. ViewInv'
  BY <1>4, <1>9, <1>11 DEF MapsInv, ViewInv, Pages
<1>13. UniformInv'
  BY <1>4 DEF MapsInv, UniformInv
<1>14. MappingInv(call[t])'
  <2>1. InHeap(call[t])'
    BY <1>2, <1>4, <1>5, <1>6, <1>8 DEF InHeap
  <2> QED BY <2>1, <1>1, <1>2, <1>5, <1>6 DEF MappingInv
<1>15. ASSUME NEW u \in Threads \ {t} PROVE (call[u] = Idle \/ MappingInv(call[u]) \/ UnmapInv(call[u]))'
  <2>1. ASSUME MappingInv(call[u]) PROVE MappingInv(call[u])'
    <3>1. CASE call[u].op = "heap" \/ call[u].base \in Arena
      BY <3>1, <2>1, <1>5 DEF MappingInv, InArena
    <3>2. CASE call[u].op # "heap" /\ call[u].base \notin Arena
      <4>1. InHeap(call[u])
        BY <3>2, <2>1 DEF MappingInv
      <4>2. ASSUME Block(call[u]) \in fb PROVE Block(call[u]) # blk
        <5>1. call[u].base # call[t].base
          BY <4>2, <3>2, <2>1, <1>3, BlockTaken
        <5>2. Block(call[u]).base = call[u].base
          BY DEF Block
        <5> QED BY <5>1, <5>2, <1>7
      <4>3. LiveBases' = LiveBases
        BY <1>9 DEF LiveBases
      <4>4. Block(call[u])' = Block(call[u])
        BY <1>5 DEF Block
      <4>5. InHeap(call[u])'
        BY <4>1, <4>2, <4>3, <4>4, <1>4, <1>5 DEF InHeap
      <4> QED BY <4>5, <3>2, <2>1, <1>5 DEF MappingInv
    <3> QED BY <3>1, <3>2
  <2>2. ASSUME UnmapInv(call[u]) PROVE UnmapInv(call[u])'
    BY <2>2, <1>4, <1>5 DEF UnmapInv, Pages
  <2> QED BY <2>1, <2>2, <1>5 DEF MapsInv, CallInv
<1>16. CallInv'
  BY <1>5, <1>14, <1>15 DEF CallInv
<1>17. /\ ~Taking(t)' /\ Taken(t)' = {} /\ Leaving(t)' = Leaving(t)
       /\ \A u \in Threads \ {t} : /\ Taken(u)' = Taken(u) /\ (Taking(u)' <=> Taking(u))
                                   /\ Leaving(u)' = Leaving(u) /\ call'[u] = call[u]
  <2>1. ~Taking(t)'
    BY <1>4, <1>5, <1>6, <1>7 DEF Taking
  <2>2. Leaving(t)' = Leaving(t)
    BY <1>1, <1>5, <1>6 DEF Leaving
  <2>3. ASSUME NEW u \in Threads \ {t}
        PROVE  /\ Taken(u)' = Taken(u) /\ (Taking(u)' <=> Taking(u))
               /\ Leaving(u)' = Leaving(u) /\ call'[u] = call[u]
    BY <1>3, <1>4, <1>5, <1>7 DEF Taken, Taking, Leaving
  <2> QED BY <2>1, <2>2, <2>3 DEF Taken
<1>18. ApartInv'
  <2>1. \A u, v \in Threads : u # v =>
          Taken(u)' \cap Taken(v)' = {} /\ Leaving(u)' \cap Leaving(v)' = {}
    BY <1>17 DEF MapsInv, ApartInv
  <2>2. \A u \in Threads : Taken(u)' \cap DOMAIN view' = {}
    BY <1>17, <1>4 DEF MapsInv, ApartInv
  <2>3. ASSUME NEW u \in Threads, Taking(u)', call'[u].base \notin Arena
        PROVE  /\ Run(call'[u].base, MaxLen) \cap DOMAIN view' = {}
               /\ call'[u].kind = "shared" =>
                    \A p \in Taken(u)' : mem'[p] = <<call'[u].file, p - call'[u].base>>
    BY <2>3, <1>17, <1>4 DEF MapsInv, ApartInv
  <2> QED BY <2>1, <2>2, <2>3 DEF ApartInv
<1>19. UsedInv'
  <2>1. Taker(t) = {} /\ Taker(t)' = {}
    BY <1>2, <1>3, <1>17, TakenIs DEF MapsInv, Taker
  <2>2. \A u \in Threads : Taker(u)' = Taker(u)
    BY <2>1, <1>17 DEF Taker
  <2> QED BY <2>2, <1>4 DEF MapsInv, UsedInv
<1>20. WMapsInv' /\ SavedInv' /\ DataInPlace'
  BY <1>4, <1>17, DataStays DEF MapsInv
<1> QED BY <1>10, <1>12, <1>13, <1>16, <1>18, <1>19, <1>20 DEF MapsInv

(* What is left for t, when it lets go of the pages it had taken. *)
LEMMA UndoStep ==
  ASSUME MapsInv, NEW t \in Threads, Undo(t)
  PROVE  MapsInv'
<1>1. call[t].op = "undo" /\ call[t] \in Mappings /\ MappingInv(call[t]) /\ call[t].kind = "shared"
  BY ThreadIs DEF MapsInv, Undo, Steps, MappingInv
<1>2. /\ fb' = {blk \in fb : blk.base # call[t].base}
      /\ used' = used \ Run(call[t].base, call[t].got)
      /\ call' = [call EXCEPT ![t] = Idle]
      /\ UNCHANGED <<pinned, mapc, wmaps, mem, file, view, dirty, orphan>>
  BY DEF Undo, ghosts
<1>3. /\ DOMAIN call = Threads /\ DOMAIN call' = Threads
      /\ call'[t] = Idle /\ \A u \in Threads \ {t} : call'[u] = call[u]
  BY <1>2 DEF MapsInv, CallInv
<1>4. ASSUME call[t].base \notin Arena
      PROVE  /\ Taking(t) /\ Run(call[t].base, MaxLen) \cap DOMAIN view = {}
             /\ \A u \in Threads \ {t} : Taking(u) => call[u].base # call[t].base
  <2>1. Block(call[t]) \in fb
    BY <1>1, <1>4 DEF MappingInv, InHeap
  <2> QED BY <2>1, <1>1, <1>4, BlockTaken
<1>5. ASSUME call[t].base \in Arena PROVE Taking(t) /\ fb' = fb
  <2>1. \A blk \in LiveBlocks : blk.base # call[t].base
    BY <1>5, HeapApart DEF MapsInv, BlocksInv
  <2> QED BY <2>1, <1>1, <1>2 DEF LiveBlocks, Taking
<1>6. Taken(t) = Run(call[t].base, call[t].got)
  BY <1>4, <1>5 DEF Taken
<1>7. /\ ~Taking(t)' /\ Taken(t)' = {} /\ Leaving(t)' = Leaving(t)
      /\ \A u \in Threads \ {t} : /\ Taken(u)' = Taken(u) /\ (Taking(u)' <=> Taking(u))
                                  /\ Leaving(u)' = Leaving(u) /\ call'[u] = call[u]
  BY <1>1, <1>2, <1>3 DEF Taken, Taking, Leaving, Idle
<1>8. LiveBlocks' \subseteq LiveBlocks /\ fb' \subseteq fb
  BY <1>2 DEF LiveBlocks
<1>9. BlocksInv'
  BY <1>2, <1>8 DEF MapsInv, BlocksInv
<1>10. \A p \in DOMAIN view : p \notin Arena /\ view[p].kind # "pad" => view[p].base # call[t].base
  <2>1. CASE call[t].base \in Arena
    <3>1. \A p \in DOMAIN view : p \notin Arena /\ view[p].kind # "pad" =>
            \E blk \in LiveBlocks : blk.base = view[p].base
      BY DEF MapsInv, ViewInv
    <3> QED BY <2>1, <3>1, HeapApart DEF MapsInv, BlocksInv
  <2>2. CASE call[t].base \notin Arena
    BY <2>2, <1>4, BlockInUse
  <2> QED BY <2>1, <2>2
<1>11. ViewInv'
  <2>1. \A blk \in LiveBlocks : blk.base # call[t].base => /\ blk \in LiveBlocks'
                                                           /\ blk \in fb => blk \in fb'
    BY <1>2 DEF LiveBlocks
  <2> QED BY <2>1, <1>2, <1>10 DEF MapsInv, ViewInv, Pages
<1>12. UniformInv'
  BY <1>2, <1>8 DEF MapsInv, UniformInv
<1>13. ASSUME NEW u \in Threads \ {t} PROVE (call[u] = Idle \/ MappingInv(call[u]) \/ UnmapInv(call[u]))'
  <2>1. ASSUME MappingInv(call[u]) PROVE MappingInv(call[u])'
    <3>1. CASE call[u].op = "heap" \/ call[u].base \in Arena
      BY <3>1, <2>1, <1>7 DEF MappingInv, InArena
    <3>2. CASE call[u].op # "heap" /\ call[u].base \notin Arena
      <4>1. InHeap(call[u])
        BY <3>2, <2>1 DEF MappingInv
      <4>2. ASSUME Block(call[u]) \in fb PROVE Block(call[u]) \in fb'
        <5>1. call[u].base # call[t].base
          <6>1. Taking(u) /\ call[u].base \in HeapBases
            BY <4>2, <3>2, <2>1, BlockTaken
          <6> QED BY <6>1, <1>4, HeapApart
        <5>2. Block(call[u]).base = call[u].base
          BY DEF Block
        <5> QED BY <4>2, <5>1, <5>2, <1>2
      <4>3. LiveBases' \subseteq LiveBases
        BY <1>8 DEF LiveBases
      <4>4. Block(call[u])' = Block(call[u])
        BY <1>7 DEF Block
      <4>5. InHeap(call[u])'
        BY <4>1, <4>2, <4>3, <4>4, <1>2, <1>7 DEF InHeap
      <4> QED BY <4>5, <3>2, <2>1, <1>7 DEF MappingInv
    <3> QED BY <3>1, <3>2
  <2>2. ASSUME UnmapInv(call[u]) PROVE UnmapInv(call[u])'
    BY <2>2, <1>2, <1>7, <1>8 DEF UnmapInv, Pages
  <2> QED BY <2>1, <2>2, <1>7 DEF MapsInv, CallInv
<1>14. CallInv'
  BY <1>3, <1>13 DEF CallInv
<1>15. ApartInv'
  <2>1. \A u, v \in Threads : u # v =>
          Taken(u)' \cap Taken(v)' = {} /\ Leaving(u)' \cap Leaving(v)' = {}
    BY <1>7 DEF MapsInv, ApartInv
  <2>2. \A u \in Threads : Taken(u)' \cap DOMAIN view' = {}
    BY <1>2, <1>7 DEF MapsInv, ApartInv
  <2>3. ASSUME NEW u \in Threads, Taking(u)', call'[u].base \notin Arena
        PROVE  /\ Run(call'[u].base, MaxLen) \cap DOMAIN view' = {}
               /\ call'[u].kind = "shared" =>
                    \A p \in Taken(u)' : mem'[p] = <<call'[u].file, p - call'[u].base>>
    BY <2>3, <1>2, <1>7 DEF MapsInv, ApartInv
  <2> QED BY <2>1, <2>2, <2>3 DEF ApartInv
<1>16. UsedInv'
  <2>1. used = (DOMAIN view \cap Arena) \cup UNION {Taken(u) \cap Arena : u \in Threads}
    BY DEF MapsInv, UsedInv, Taker
  <2>2. used' = used \ Taken(t)
    BY <1>2, <1>6
  <2>3. Taken(t) \cap DOMAIN view = {} /\ \A u \in Threads \ {t} : Taken(t) \cap Taken(u) = {}
    BY DEF MapsInv, ApartInv
  <2>4. used' = (DOMAIN view' \cap Arena) \cup UNION {Taken(u)' \cap Arena : u \in Threads}
    BY <2>1, <2>2, <2>3, <1>2, <1>7
  <2> QED BY <2>4 DEF UsedInv, Taker
<1>17. WMapsInv' /\ SavedInv' /\ DataInPlace'
  BY <1>2, <1>7, DataStays DEF MapsInv
<1> QED BY <1>9, <1>11, <1>12, <1>14, <1>15, <1>16, <1>17 DEF MapsInv

-----------------------------------------------------------------------------
(* The return of mmap. *)

LEMMA MapSpot ==
  ASSUME MapsInv, NEW t \in Threads, call[t].op = "map_add"
  PROVE  Spot(t, call[t], call[t].base)
<1>1. call[t] \in Mappings /\ MappingInv(call[t])
  BY ThreadIs DEF MapsInv, Steps
<1>2. /\ call[t].base \in Nat /\ call[t].got \in Nat /\ call[t].kind \in Kinds
      /\ call[t].len \in Lens(call[t].kind) /\ (IsFile(call[t].kind) <=> call[t].file # "none")
  BY <1>1 DEF Mappings, MappingInv
<1>3. call[t].len \in Nat \ {0} /\ call[t].len <= MaxLen
  BY <1>2, LensAre
<1>4. CASE call[t].base \in Arena
  <2>1. InArena(call[t])
    BY <1>1, <1>4 DEF MappingInv
  <2>2. Taking(t)
    <3>1. \A blk \in pinned : blk.base # call[t].base
      BY <1>4, HeapApart DEF MapsInv, BlocksInv, LiveBlocks
    <3> QED BY <3>1 DEF Taking
  <2>3. Taken(t) = Run(call[t].base, call[t].got) /\ Taken(t) \cap DOMAIN view = {}
    BY <2>2 DEF Taken, MapsInv, ApartInv
  <2>4. Run(call[t].base, call[t].len) \cap Arena = Taken(t) /\ Taken(t) \subseteq Arena
    <3>1. /\ call[t].got <= call[t].len /\ call[t].base + call[t].got <= PAGES
          /\ call[t].got < call[t].len => call[t].base + call[t].got = PAGES
      BY <2>1 DEF InArena
    <3> DEFINE b == call[t].base
               g == call[t].got
               n == call[t].len
    <3>2. b \in Nat /\ g \in Nat /\ n \in Nat /\ PAGES \in Nat
      BY <1>2, <1>3, SizesAreNats
    <3>3. g <= n /\ b + g <= PAGES /\ (g < n => b + g = PAGES)
      BY <3>1
    <3> HIDE DEF b, g, n
    <3>4. Run(b, n) \cap Arena = Run(b, g) /\ Run(b, g) \subseteq Arena
      BY <3>2, <3>3 DEF Run, Arena
    <3> QED BY <3>4, <2>3 DEF b, g, n
  <2>5. ASSUME NEW p \in Run(call[t].base, call[t].len), p \notin Arena
        PROVE  /\ call[t].kind = "over" /\ p - call[t].base >= Trimmed(call[t].len)
               /\ p \in Nat /\ p < PAGES + MaxLen
    <3>1. p \in Nat /\ p < PAGES + MaxLen /\ p >= call[t].base + call[t].got /\ p < call[t].base + call[t].len
      BY <2>5, <2>1, <1>2, <1>3, <1>4, SizesAreNats DEF InArena, Run, Arena
    <3>2. call[t].got < call[t].len
      BY <3>1, <1>2, <1>3
    <3>3. call[t].kind = "over" /\ call[t].got >= Trimmed(call[t].len)
      BY <3>2, <2>1, <1>2, <1>3 DEF InArena
    <3>4. Trimmed(call[t].len) \in Nat
      BY <3>3, <1>2, LensAre
    <3> QED BY <3>1, <3>3, <3>4, <1>2
  <2>6. ASSUME NEW p \in Run(call[t].base, call[t].len) \cap DOMAIN view
        PROVE  p \notin Arena /\ view[p].kind = "pad"
    <3>1. p \notin Arena
      BY <2>3, <2>4
    <3>2. p \in Nat /\ p < PAGES + MaxLen
      BY <2>5, <3>1
    <3>3. \A blk \in LiveBlocks : p \notin Pages(blk)
      BY <3>2, BlockPages, SizesAreNats DEF MapsInv
    <3> QED BY <3>1, <3>3 DEF MapsInv, ViewInv
  <2>7. Run(call[t].base, call[t].len) \cap Arena = Taker(t)
    BY <2>4 DEF Taker
  <2> QED BY <2>5, <2>6, <2>7, <1>1, <1>2, <1>4 DEF Spot
<1>5. CASE call[t].base \notin Arena /\ call[t].kind # "ro"
  <2>1. InHeap(call[t])
    BY <1>1, <1>5 DEF MappingInv
  <2>2. Block(call[t]) \in fb
    BY <2>1, <1>5 DEF InHeap
  <2>3. /\ Taking(t) /\ call[t].base \in HeapBases
        /\ Run(call[t].base, MaxLen) \cap DOMAIN view = {}
        /\ \A u \in Threads \ {t} : Taking(u) => call[u].base # call[t].base
    BY <2>2, <1>1, <1>5, BlockTaken
  <2>4. Run(call[t].base, call[t].len) \subseteq Run(call[t].base, MaxLen)
    BY <1>2, <1>3, SizesAreNats DEF Run
  <2>5. Run(call[t].base, call[t].len) \cap Arena = Taker(t)
    <3>1. Taker(t) = {}
      BY <2>3, <1>5, TakenIs DEF MapsInv, Taker
    <3>2. Run(call[t].base, call[t].len) \cap Arena = {}
      BY <2>3, <1>3, HeapApart, SizesAreNats DEF Run, Arena
    <3> QED BY <3>1, <3>2
  <2>6. [base |-> call[t].base,
         len |-> IF call[t].kind = "over" THEN Trimmed(call[t].len) ELSE call[t].len] \in fb
    BY <2>1, <2>2 DEF InHeap, Block
  <2> QED BY <2>3, <2>4, <2>5, <2>6, <1>1, <1>2, <1>5 DEF Spot
<1>6. CASE call[t].base \notin Arena /\ call[t].kind = "ro"
  <2>1. InHeap(call[t])
    BY <1>1, <1>6 DEF MappingInv
  <2>2. [base |-> call[t].base, len |-> call[t].len] \in pinned
    BY <2>1, <1>6 DEF InHeap, Block
  <2>3. ~Taking(t)
    <3>1. [base |-> call[t].base, len |-> call[t].len].base = call[t].base
      OBVIOUS
    <3> QED BY <3>1, <2>2 DEF Taking
  <2>4. Taker(t) = {}
    BY <2>3 DEF Taker, Taken
  <2> QED BY <2>2, <2>4, <1>1, <1>2, <1>6, PinnedSpot DEF IsFile
<1> QED BY <1>4, <1>5, <1>6

(* What filling a new map in the arena does to memory. *)
LEMMA MapFills ==
  ASSUME MapsInv, NEW t \in Threads, MapAdd(t)
  PROVE  /\ \A u \in Threads \ {t} : \A p \in Taken(u) : mem'[p] = mem[p]
         /\ \A p \in DOMAIN view : view[p].kind = "shared" => mem'[p] = mem[p]
         /\ call[t].base \notin Arena => mem' = mem
         /\ call[t].kind = "shared" =>
              \A p \in Taken(t) : mem'[p] = <<call[t].file, p - call[t].base>>
<1>1. call[t].op = "map_add" /\ call[t] \in Mappings /\ MappingInv(call[t])
  BY ThreadIs DEF MapsInv, MapAdd, Steps
<1>2. mem' = IF call[t].base \in Arena THEN Filled(call[t], call[t].base, call[t].got) ELSE mem
  BY DEF MapAdd
<1>3. CASE call[t].base \notin Arena
  <2>1. ASSUME call[t].kind = "shared" PROVE Taking(t)
    <3>1. Block(call[t]) \in fb
      BY <2>1, <1>1, <1>3 DEF MappingInv, InHeap
    <3> QED BY <3>1, <1>1, <1>3, BlockTaken
  <2> QED BY <2>1, <1>2, <1>3 DEF MapsInv, ApartInv
<1>4. CASE call[t].base \in Arena
  <2>1. Taking(t)
    <3>1. \A blk \in pinned : blk.base # call[t].base
      BY <1>4, HeapApart DEF MapsInv, BlocksInv, LiveBlocks
    <3> QED BY <3>1, <1>1 DEF Taking
  <2>2. /\ Taken(t) = Run(call[t].base, call[t].got)
        /\ call[t].base \in Nat /\ call[t].got \in 1 .. call[t].len /\ call[t].len <= MaxLen
    BY <2>1, TakenIs DEF MapsInv
  <2>3. \A p \in Addresses :
          /\ p \notin Taken(t) => mem'[p] = mem[p]
          /\ p \in Taken(t) /\ IsFile(call[t].kind) => mem'[p] = file[call[t].file][p - call[t].base]
    BY <2>2, <1>2, <1>4, FilledIs
  <2>4. /\ \A u \in Threads \ {t} : Taken(u) \cap Taken(t) = {}
        /\ Taken(t) \cap DOMAIN view = {}
    BY DEF MapsInv, ApartInv
  <2>5. ASSUME call[t].kind = "shared", NEW p \in Taken(t)
        PROVE  mem'[p] = <<call[t].file, p - call[t].base>>
    <3>1. p \in Addresses
      BY HaveMemory
    <3>2. call[t].file \in Files
      BY <2>5, <1>1 DEF MappingInv, Mappings, IsFile
    <3>3. p - call[t].base \in Offsets
      <4>1. call[t].len \in Nat
        BY <1>1, LensAre DEF MappingInv, Mappings
      <4> QED BY <4>1, <2>2, SizesAreNats DEF Run, Offsets
    <3>4. mem'[p] = file[call[t].file][p - call[t].base]
      BY <3>1, <2>3, <2>5 DEF IsFile
    <3> QED BY <3>2, <3>3, <3>4 DEF MapsInv, DataInPlace
  <2> QED BY <2>3, <2>4, <2>5, <1>4, HaveMemory
<1> QED BY <1>3, <1>4

(* No slot: the mapping is to be undone. *)
LEMMA MapNoSlot ==
  ASSUME MapsInv, NEW t \in Threads, MapAdd(t), call[t].kind = "shared", FreeSlots = {}
  PROVE  MapsInv'
<1> DEFINE d == [call[t] EXCEPT !.op = "undo"]
<1>1. call[t].op = "map_add" /\ call[t] \in Mappings /\ MappingInv(call[t])
  BY ThreadIs DEF MapsInv, MapAdd, Steps
<1>2. /\ call' = [call EXCEPT ![t] = d]
      /\ UNCHANGED <<used, fb, pinned, mapc, wmaps, file, view, dirty, orphan>>
  BY DEF MapAdd, ghosts
<1>3. /\ DOMAIN call = Threads /\ DOMAIN call' = Threads
      /\ call'[t] = d /\ \A u \in Threads \ {t} : call'[u] = call[u]
  BY <1>2 DEF MapsInv, CallInv
<1>4. /\ d \in Mappings /\ d.kind = call[t].kind /\ d.file = call[t].file /\ d.len = call[t].len
      /\ d.base = call[t].base /\ d.got = call[t].got /\ d.op = "undo"
  BY <1>1 DEF Mappings, Steps
<1> HIDE DEF d
<1>5. \A u \in Threads \ {t} : /\ (call[u] = Idle \/ MappingInv(call[u]) \/ UnmapInv(call[u]))'
                               /\ Taken(u)' = Taken(u) /\ (Taking(u)' <=> Taking(u))
  BY <1>2, <1>3, OthersStay
<1>6. Taken(t)' = Taken(t) /\ (Taking(t)' <=> Taking(t)) /\ \A u \in Threads : Leaving(u)' = Leaving(u)
  BY <1>1, <1>2, <1>3, <1>4 DEF Taken, Taking, Leaving
<1>7. MappingInv(call[t])'
  <2>1. CASE call[t].base \in Arena
    <3>1. InArena(call[t])'
      BY <2>1, <1>1, <1>3, <1>4 DEF MappingInv, InArena
    <3> QED BY <2>1, <3>1, <1>1, <1>3, <1>4 DEF MappingInv
  <2>2. CASE call[t].base \notin Arena
    <3>1. Block(call[t])' = Block(call[t])
      BY <1>3, <1>4 DEF Block
    <3>2. InHeap(call[t])'
      BY <2>2, <3>1, <1>1, <1>2, <1>3, <1>4 DEF MappingInv, InHeap
    <3> QED BY <2>2, <3>2, <1>1, <1>3, <1>4 DEF MappingInv
  <2> QED BY <2>1, <2>2
<1>8. CallInv'
  BY <1>3, <1>5, <1>7 DEF CallInv
<1>9. /\ \A u \in Threads \ {t} : \A p \in Taken(u) : mem'[p] = mem[p]
      /\ \A p \in DOMAIN view : view[p].kind = "shared" => mem'[p] = mem[p]
      /\ call[t].base \notin Arena => mem' = mem
  BY MapFills
<1>10. ApartInv'
  <2>1. \A u, v \in Threads : u # v =>
          Taken(u)' \cap Taken(v)' = {} /\ Leaving(u)' \cap Leaving(v)' = {}
    BY <1>5, <1>6 DEF MapsInv, ApartInv
  <2>2. \A u \in Threads : Taken(u)' \cap DOMAIN view' = {}
    BY <1>2, <1>5, <1>6 DEF MapsInv, ApartInv
  <2>3. ASSUME NEW u \in Threads, Taking(u)', call'[u].base \notin Arena
        PROVE  /\ Run(call'[u].base, MaxLen) \cap DOMAIN view' = {}
               /\ call'[u].kind = "shared" =>
                    \A p \in Taken(u)' : mem'[p] = <<call'[u].file, p - call'[u].base>>
    <3>1. /\ Taking(u) /\ Taken(u)' = Taken(u) /\ call'[u].base = call[u].base
          /\ call'[u].kind = call[u].kind /\ call'[u].file = call[u].file
      BY <2>3, <1>3, <1>4, <1>5, <1>6
    <3>2. \A p \in Taken(u) : mem'[p] = mem[p]
      BY <2>3, <3>1, <1>9
    <3> QED BY <2>3, <3>1, <3>2, <1>2 DEF MapsInv, ApartInv
  <2> QED BY <2>1, <2>2, <2>3 DEF ApartInv
<1>11. UsedInv'
  BY <1>2, <1>5, <1>6 DEF MapsInv, UsedInv, Taker
<1>12. BlocksInv' /\ ViewInv' /\ UniformInv'
  BY <1>2 DEF MapsInv, BlocksInv, ViewInv, UniformInv, LiveBlocks, Pages
<1>13. WMapsInv' /\ SavedInv' /\ DataInPlace'
  BY <1>2, <1>6, <1>9, DataStays DEF MapsInv
<1> QED BY <1>8, <1>10, <1>11, <1>12, <1>13 DEF MapsInv

(* The client holds a new shared map, and slot i of the table covers it. *)
LEMMA MapShared ==
  ASSUME MapsInv, NEW t \in Threads, MapAdd(t), call[t].kind = "shared", FreeSlots # {}
  PROVE  WMapsInv' /\ SavedInv' /\ DataInPlace'
<1> DEFINE i == Min(FreeSlots)
           b == call[t].base
           f == call[t].file
           n == call[t].len
           new == [base |-> b, len |-> call[t].got, file |-> f, off |-> 0]
<1>1. call[t].op = "map_add" /\ call[t] \in Mappings /\ MappingInv(call[t])
  BY ThreadIs DEF MapsInv, MapAdd, Steps
<1>2. /\ wmaps' = [wmaps EXCEPT ![i] = new] /\ Hold(call[t], b)
      /\ call' = [call EXCEPT ![t] = Idle]
      /\ UNCHANGED <<used, fb, pinned, mapc, file, dirty, orphan>>
  BY DEF MapAdd, ghosts
<1>3. i \in Slots /\ wmaps[i] = NoMap
  <2>1. FreeSlots \subseteq Nat /\ FreeSlots \subseteq Slots
    BY DEF FreeSlots, Slots
  <2>2. i \in FreeSlots
    BY <2>1, LeastExists
  <2> HIDE DEF i
  <2> QED BY <2>2 DEF FreeSlots
<1> HIDE DEF i
<1>4. /\ b \in Nat /\ n \in Nat \ {0} /\ f \in Files /\ n <= MaxLen
      /\ call[t].got = n
  <2>1. call[t].got = n
    <3>1. n \in Nat
      BY <1>1, LensAre DEF MappingInv, Mappings
    <3> QED BY <3>1, <1>1 DEF MappingInv, InArena, InHeap
  <2>2. f \in Files
    BY <1>1 DEF MappingInv, Mappings, IsFile
  <2> QED BY <2>1, <2>2, <1>1, LensAre DEF MappingInv, Mappings
<1>5. new.base = b /\ new.len = n /\ new.file = f /\ new.off = 0 /\ new # NoMap
      /\ new \in [base : Nat, len : Nat, file : Files \cup {"none"}, off : Nat]
  BY <1>4 DEF NoMap
<1> HIDE DEF new
<1>6. Spot(t, call[t], b)
  BY <1>1, MapSpot
<1>7. Taking(t) /\ Taken(t) = Run(b, n)
  <2>1. CASE b \in Arena
    <3>1. \A blk \in pinned : blk.base # b
      BY <2>1, HeapApart DEF MapsInv, BlocksInv, LiveBlocks
    <3> QED BY <3>1, <1>1, <1>4 DEF Taking, Taken
  <2>2. CASE b \notin Arena
    <3>1. Block(call[t]) \in fb
      BY <2>2, <1>1 DEF MappingInv, InHeap
    <3>2. Taking(t)
      BY <2>2, <3>1, <1>1, BlockTaken
    <3> QED BY <3>2, <1>4 DEF Taken
  <2> QED BY <2>1, <2>2
<1>8. Run(b, n) \cap DOMAIN view = {}
  BY <1>7 DEF MapsInv, ApartInv
<1>9. /\ DOMAIN view' = DOMAIN view \cup Run(b, n)
      /\ \A p \in DOMAIN view : view'[p] = view[p]
      /\ \A p \in Run(b, n) : view'[p] = Stands(call[t], b, p)
  BY <1>2, <1>8, HoldIs
<1>10. \A p \in Run(b, n) : /\ p \in Nat /\ view'[p].kind = "shared" /\ view'[p].file = f
                            /\ view'[p].base = b /\ PlaceIn(view', p) = <<f, p - b>>
                            /\ mem'[p] = <<f, p - b>>
  <2>1. \A p \in Run(b, n) : view'[p].kind = "shared" /\ view'[p].file = f /\ view'[p].base = b
    BY <1>9 DEF Stands
  <2>2. \A p \in Run(b, n) : mem'[p] = <<f, p - b>>
    BY <1>7, MapFills
  <2>3. \A p \in Run(b, n) : p \in Nat
    BY <1>4 DEF Run
  <2> QED BY <2>1, <2>2, <2>3 DEF PlaceIn
<1>11. \A u \in Threads : Leaving(u)' = Leaving(u) /\ Leaving(u) \subseteq DOMAIN view
  <2>1. /\ DOMAIN call = Threads /\ call'[t] = Idle /\ \A u \in Threads \ {t} : call'[u] = call[u]
    BY <1>2 DEF MapsInv, CallInv
  <2>2. \A u \in Threads : Leaving(u)' = Leaving(u)
    BY <1>1, <2>1 DEF Leaving, Idle
  <2>3. \A u \in Threads : Leaving(u) \subseteq DOMAIN view
    BY ThreadIs DEF MapsInv, Leaving, UnmapInv
  <2> QED BY <2>2, <2>3
<1>12. /\ wmaps' \in [Slots -> [base : Nat, len : Nat, file : Files \cup {"none"}, off : Nat]]
       /\ wmaps'[i] = new /\ \A j \in Slots \ {i} : wmaps'[j] = wmaps[j]
  BY <1>2, <1>3, <1>5 DEF MapsInv, WMapsInv
<1>13. /\ Pages(wmaps'[i]) = Run(b, n)
       /\ \A j \in Slots \ {i} : Pages(wmaps'[j]) = Pages(wmaps[j])
       /\ \A j \in Slots : Pages(wmaps[j]) \subseteq DOMAIN view
       /\ Pages(wmaps[i]) = {}
  BY <1>3, <1>5, <1>12 DEF Pages, Run, NoMap, MapsInv, WMapsInv
<1>14. WMapsInv'
  <2>1. \A j \in Slots : wmaps'[j] # NoMap => wmaps'[j].len > 0 /\ wmaps'[j].file \in Files
    BY <1>4, <1>5, <1>12 DEF MapsInv, WMapsInv
  <2>2. \A j, k \in Slots : j # k => Pages(wmaps'[j]) \cap Pages(wmaps'[k]) = {}
    <3>1. \A j, k \in Slots : j # k => Pages(wmaps[j]) \cap Pages(wmaps[k]) = {}
      BY DEF MapsInv, WMapsInv
    <3> QED BY <3>1, <1>8, <1>13
  <2>3. ASSUME NEW j \in Slots, NEW p \in Pages(wmaps'[j])
        PROVE  /\ p \in DOMAIN view' /\ view'[p].kind = "shared"
               /\ PlaceIn(view', p) = <<wmaps'[j].file, wmaps'[j].off + p - wmaps'[j].base>>
               /\ \A u \in Threads : p \notin Leaving(u)
    <3>1. CASE j = i
      <4>1. p \in Run(b, n)
        BY <2>3, <3>1, <1>13
      <4>2. wmaps'[j].off + p - wmaps'[j].base = p - b /\ wmaps'[j].file = f
        BY <3>1, <4>1, <1>4, <1>5, <1>10, <1>12
      <4> QED BY <4>1, <4>2, <1>8, <1>9, <1>10, <1>11
    <3>2. CASE j # i
      <4>1. p \in Pages(wmaps[j]) /\ wmaps'[j] = wmaps[j]
        BY <2>3, <3>2, <1>12, <1>13
      <4>2. /\ p \in DOMAIN view /\ view[p].kind = "shared"
            /\ PlaceIn(view, p) = <<wmaps[j].file, wmaps[j].off + p - wmaps[j].base>>
            /\ \A u \in Threads : p \notin Leaving(u)
        BY <4>1 DEF MapsInv, WMapsInv
      <4> QED BY <4>1, <4>2, <1>9 DEF PlaceIn
    <3> QED BY <3>1, <3>2
  <2>4. \A u \in Threads : Leaving(u)' = Leaving(u)
    BY <1>11
  <2>5. wmaps' \in [Slots -> [base : Nat, len : Nat, file : Files \cup {"none"}, off : Nat]]
    BY <1>12
  <2> QED BY <2>1, <2>2, <2>3, <2>4, <2>5 DEF WMapsInv
<1>15. SavedInv'
  <2>1. orphan' \subseteq DOMAIN view' /\ \A p \in dirty' : p \in DOMAIN view' /\ view'[p].kind = "shared"
    BY <1>2, <1>9 DEF MapsInv, SavedInv
  <2>2. ASSUME NEW p \in DOMAIN view', view'[p].kind = "shared"
        PROVE  Covers(wmaps', p) \/ p \in orphan' \/ \E u \in Threads : p \in Leaving(u)'
    <3>1. CASE p \in Run(b, n)
      BY <3>1, <1>3, <1>13 DEF Covers
    <3>2. CASE p \notin Run(b, n)
      <4>1. p \in DOMAIN view /\ view[p].kind = "shared"
        BY <2>2, <3>2, <1>9
      <4>2. Covers(wmaps, p) => Covers(wmaps', p)
        <5>1. ASSUME NEW j \in Slots, p \in Pages(wmaps[j]) PROVE p \in Pages(wmaps'[j])
          BY <5>1, <1>13
        <5> QED BY <5>1 DEF Covers
      <4> QED BY <4>1, <4>2, <1>2, <1>11 DEF MapsInv, SavedInv
    <3> QED BY <3>1, <3>2
  <2>3. \A u \in Threads : \A p \in Leaving(u)' \cap dirty' : p \in orphan'
    BY <1>2, <1>11 DEF MapsInv, SavedInv
  <2> QED BY <2>1, <2>2, <2>3 DEF SavedInv
<1>16. DataInPlace'
  <2>1. ASSUME NEW p \in DOMAIN view', view'[p].kind = "shared"
        PROVE  mem'[p] = PlaceIn(view', p) \/ \E u \in Threads : p \in Leaving(u)'
    <3>1. CASE p \in Run(b, n)
      BY <3>1, <1>10
    <3>2. CASE p \notin Run(b, n)
      <4>1. p \in DOMAIN view /\ view[p].kind = "shared" /\ view'[p] = view[p]
        BY <2>1, <3>2, <1>9
      <4>2. mem'[p] = mem[p]
        BY <4>1, MapFills
      <4> QED BY <4>1, <4>2, <1>11 DEF MapsInv, DataInPlace, PlaceIn
    <3> QED BY <3>1, <3>2
  <2>2. \A g \in Files, o \in Offsets : file'[g][o] = <<g, o>>
    BY <1>2 DEF MapsInv, DataInPlace
  <2> QED BY <2>1, <2>2 DEF DataInPlace
<1> QED BY <1>14, <1>15, <1>16

LEMMA MapAddStep ==
  ASSUME MapsInv, NEW t \in Threads, MapAdd(t)
  PROVE  MapsInv'
<1>1. call[t].op = "map_add"
  BY DEF MapAdd
<1>2. CASE call[t].kind = "shared" /\ FreeSlots = {}
  BY <1>2, MapNoSlot
<1>3. CASE ~(call[t].kind = "shared" /\ FreeSlots = {})
  <2>1. /\ Hold(call[t], call[t].base) /\ call' = [call EXCEPT ![t] = Idle]
        /\ UNCHANGED <<used, fb, pinned, mapc, file, dirty, orphan>>
    BY <1>3 DEF MapAdd, ghosts
  <2>2. Spot(t, call[t], call[t].base) /\ call[t].op \in Steps
    BY <1>1, MapSpot DEF Steps
  <2>3. /\ \A u \in Threads \ {t} : \A p \in Taken(u) : mem'[p] = mem[p]
        /\ \A p \in DOMAIN view : view[p].kind = "shared" => mem'[p] = mem[p]
    BY MapFills
  <2>4. /\ CallInv' /\ ApartInv' /\ UsedInv' /\ BlocksInv' /\ ViewInv' /\ UniformInv'
        /\ \A u \in Threads : Leaving(u)' = Leaving(u)
    BY <2>1, <2>2, <2>3, HoldKeeps
  <2>5. CASE call[t].kind = "shared"
    <3>1. WMapsInv' /\ SavedInv' /\ DataInPlace'
      BY <1>3, <2>5, MapShared
    <3> QED BY <2>4, <3>1 DEF MapsInv
  <2>6. CASE call[t].kind # "shared"
    <3>1. wmaps' = wmaps
      BY <1>3, <2>6 DEF MapAdd
    <3>2. \A p \in DOMAIN view : mem'[p] = mem[p] \/ view[p].kind # "shared"
      BY <2>3
    <3>3. WMapsInv' /\ SavedInv' /\ DataInPlace'
      BY <3>1, <3>2, <2>1, <2>2, <2>4, <2>6, HoldData
    <3> QED BY <2>4, <3>3 DEF MapsInv
  <2> QED BY <2>5, <2>6
<1> QED BY <1>2, <1>3

-----------------------------------------------------------------------------
(* Clients that store, and the end of munmap. *)

LEMMA StoreStep ==
  ASSUME MapsInv, NEW f \in Files, Store(f)
  PROVE  MapsInv'
<1> DEFINE pages == {p \in DOMAIN view : /\ view[p].kind = "shared" /\ view[p].file = f
                                         /\ \A t \in Threads : p \notin Leaving(t)}
<1>1. /\ mem' = [p \in Addresses |-> IF p \in pages THEN <<f, p - view[p].base>> ELSE mem[p]]
      /\ dirty' = dirty \cup pages
      /\ UNCHANGED <<used, fb, pinned, mapc, wmaps, file, view, orphan, call>>
  BY DEF Store, tables
<1>2. \A p \in pages : /\ p \in DOMAIN view /\ view[p].kind = "shared" /\ view[p].file = f
                       /\ \A t \in Threads : p \notin Leaving(t)
  OBVIOUS
<1> HIDE DEF pages
<1>3. \A u \in Threads : Taken(u)' = Taken(u) /\ (Taking(u)' <=> Taking(u)) /\ Leaving(u)' = Leaving(u)
  BY <1>1 DEF Taken, Taking, Leaving
<1>4. CallInv'
  <2>1. \A u \in Threads : MappingInv(call[u]) => MappingInv(call[u])'
    BY <1>1 DEF MappingInv, InHeap, InArena, LiveBases, LiveBlocks
  <2>2. \A u \in Threads : UnmapInv(call[u]) => UnmapInv(call[u])'
    BY <1>1 DEF UnmapInv, Pages
  <2> QED BY <2>1, <2>2, <1>1 DEF MapsInv, CallInv
<1>5. ApartInv'
  <2>1. \A u, v \in Threads : u # v =>
          Taken(u)' \cap Taken(v)' = {} /\ Leaving(u)' \cap Leaving(v)' = {}
    BY <1>3 DEF MapsInv, ApartInv
  <2>2. \A u \in Threads : Taken(u)' \cap DOMAIN view' = {}
    BY <1>1, <1>3 DEF MapsInv, ApartInv
  <2>3. ASSUME NEW u \in Threads, Taking(u)', call'[u].base \notin Arena
        PROVE  /\ Run(call'[u].base, MaxLen) \cap DOMAIN view' = {}
               /\ call'[u].kind = "shared" =>
                    \A p \in Taken(u)' : mem'[p] = <<call'[u].file, p - call'[u].base>>
    <3>1. \A p \in Taken(u) : p \in Addresses /\ p \notin pages
      BY <1>2, HaveMemory DEF MapsInv, ApartInv
    <3>2. \A p \in Taken(u) : mem'[p] = mem[p]
      BY <3>1, <1>1
    <3> QED BY <2>3, <3>2, <1>1, <1>3 DEF MapsInv, ApartInv
  <2> QED BY <2>1, <2>2, <2>3 DEF ApartInv
<1>6. UsedInv'
  BY <1>1, <1>3 DEF MapsInv, UsedInv, Taker
<1>7. BlocksInv' /\ ViewInv' /\ UniformInv'
  BY <1>1 DEF MapsInv, BlocksInv, ViewInv, UniformInv, LiveBlocks, Pages
<1>8. WMapsInv'
  <2>1. wmaps' = wmaps /\ view' = view
    BY <1>1
  <2>2. \A i \in Slots : Pages(wmaps[i])' = Pages(wmaps[i])
    BY <2>1 DEF Pages
  <2>3. \A p \in DOMAIN view : PlaceIn(view, p)' = PlaceIn(view, p)
    BY <2>1 DEF PlaceIn
  <2> QED BY <2>1, <2>2, <2>3, <1>3 DEF MapsInv, WMapsInv
<1>9. SavedInv'
  <2>1. orphan' \subseteq DOMAIN view' /\ \A p \in dirty' : p \in DOMAIN view' /\ view'[p].kind = "shared"
    BY <1>1, <1>2 DEF MapsInv, SavedInv
  <2>2. \A p \in DOMAIN view' : view'[p].kind = "shared" =>
          Covers(wmaps', p) \/ p \in orphan' \/ \E u \in Threads : p \in Leaving(u)'
    <3>1. wmaps' = wmaps /\ view' = view /\ orphan' = orphan
      BY <1>1
    <3> QED BY <3>1, <1>3 DEF MapsInv, SavedInv
  <2>3. \A u \in Threads : \A p \in Leaving(u)' \cap dirty' : p \in orphan'
    BY <1>1, <1>2, <1>3 DEF MapsInv, SavedInv
  <2> QED BY <2>1, <2>2, <2>3 DEF SavedInv
<1>10. DataInPlace'
  <2>1. ASSUME NEW p \in DOMAIN view, view[p].kind = "shared"
        PROVE  mem'[p] = PlaceIn(view, p) \/ \E u \in Threads : p \in Leaving(u)
    <3>1. p \in Addresses
      BY <2>1, HaveMemory
    <3>2. CASE p \in pages
      BY <3>1, <3>2, <1>1, <1>2 DEF PlaceIn
    <3>3. CASE p \notin pages
      <4>1. mem'[p] = mem[p]
        BY <3>1, <3>3, <1>1
      <4> QED BY <4>1, <2>1 DEF MapsInv, DataInPlace
    <3> QED BY <3>2, <3>3
  <2>2. \A g \in Files, o \in Offsets : file'[g][o] = <<g, o>>
    BY <1>1 DEF MapsInv, DataInPlace
  <2> QED BY <2>1, <2>2, <1>1, <1>3 DEF DataInPlace
<1> QED BY <1>4, <1>5, <1>6, <1>7, <1>8, <1>9, <1>10 DEF MapsInv

LEMMA ReleaseStep ==
  ASSUME MapsInv, NEW t \in Threads, Release(t)
  PROVE  MapsInv'
<1> DEFINE gone == Run(call[t].base, call[t].len)
           blk == {x \in fb : x.base = call[t].base}
<1>1. call[t].op = "unmap" /\ call[t] \in Unmappings /\ UnmapInv(call[t])
  BY ThreadIs DEF MapsInv, Release
<1>2. /\ fb' = fb \ blk
      /\ view' = [p \in DOMAIN view \ gone |-> view[p]]
      /\ mem' = [p \in Addresses |-> IF p \in gone THEN Zero ELSE mem[p]]
      /\ dirty' = dirty \ (orphan \cap gone)
      /\ orphan' = orphan \ gone
      /\ call' = [call EXCEPT ![t] = Idle]
      /\ UNCHANGED <<pinned, mapc, wmaps, file>>
  BY DEF Release
<1>3. gone \subseteq DOMAIN view /\ Leaving(t) = gone /\ call[t].base \in gone
  BY <1>1 DEF UnmapInv, Leaving, Unmappings, Run
<1>4. used' = used \ gone
  <2>1. CASE blk = {}
    BY <2>1 DEF Release
  <2>2. CASE blk # {}
    <3>1. used' = used
      BY <2>2 DEF Release
    <3>2. PICK x \in fb : x.base = call[t].base
      BY <2>2
    <3>3. call[t].base \in Nat /\ call[t].base >= PAGES
      BY <3>2, HeapApart, SizesAreNats DEF MapsInv, BlocksInv, LiveBlocks
    <3>4. gone \cap Arena = {}
      BY <3>3, SizesAreNats, <1>1 DEF Run, Arena, Unmappings
    <3>5. used \subseteq Arena
      BY DEF MapsInv, UsedInv, Taker
    <3> QED BY <3>1, <3>4, <3>5
  <2> QED BY <2>1, <2>2
<1>5. /\ fb' \subseteq fb /\ LiveBlocks' \subseteq LiveBlocks
      /\ \A x \in LiveBlocks : x.base # call[t].base => /\ x \in LiveBlocks'
                                                        /\ x \in fb => x \in fb'
  BY <1>2 DEF LiveBlocks
<1>6. \A x \in fb : x.base = call[t].base =>
        \A p \in DOMAIN view : p \in Pages(x) /\ view[p].kind # "pad" => p \in gone
  BY <1>1 DEF UnmapInv
<1> HIDE DEF gone, blk
<1>7. /\ DOMAIN view' = DOMAIN view \ gone
      /\ \A p \in DOMAIN view' : p \in DOMAIN view /\ p \notin gone /\ view'[p] = view[p]
  BY <1>2
<1>8. /\ DOMAIN call = Threads /\ DOMAIN call' = Threads
      /\ call'[t] = Idle /\ \A u \in Threads \ {t} : call'[u] = call[u]
  BY <1>2 DEF MapsInv, CallInv
<1>9. /\ Leaving(t)' = {} /\ \A u \in Threads \ {t} : Leaving(u)' = Leaving(u)
      /\ \A u \in Threads : Taken(u)' = Taken(u) /\ (Taking(u)' <=> Taking(u))
      /\ ~Taking(t)
  BY <1>1, <1>2, <1>8 DEF Taken, Taking, Leaving, Idle
<1>10. \A u \in Threads \ {t} : Leaving(u) \cap gone = {}
  BY <1>3 DEF MapsInv, ApartInv
<1>11. BlocksInv'
  BY <1>2, <1>5 DEF MapsInv, BlocksInv
<1>12. ViewInv'
  <2>1. ASSUME NEW p \in DOMAIN view', p \notin Arena, view'[p].kind # "pad"
        PROVE  \E x \in LiveBlocks' : /\ x.base = view'[p].base /\ p \in Pages(x)
                                      /\ x \in IF view'[p].kind = "ro" THEN pinned' ELSE fb'
    <3>1. p \in DOMAIN view /\ p \notin gone /\ view'[p] = view[p]
      BY <1>7
    <3>2. PICK x \in LiveBlocks : /\ x.base = view[p].base /\ p \in Pages(x)
                                  /\ x \in IF view[p].kind = "ro" THEN pinned ELSE fb
      BY <2>1, <3>1 DEF MapsInv, ViewInv
    <3>3. CASE x \in fb
      <4>1. x.base # call[t].base
        BY <3>1, <3>2, <3>3, <2>1, <1>6
      <4> QED BY <4>1, <3>1, <3>2, <3>3, <1>5, <1>2
    <3>4. CASE x \notin fb
      BY <3>1, <3>2, <3>4, <1>2 DEF LiveBlocks
    <3> QED BY <3>3, <3>4
  <2>2. \A p \in DOMAIN view' :
          /\ p \in Nat /\ view'[p].base \in Nat /\ view'[p].base <= p
          /\ p - view'[p].base < MaxLen
          /\ view'[p].kind \in Kinds \cup {"pad"}
          /\ view'[p].kind = "shared" => view'[p].file \in Files
          /\ p \notin Arena /\ view'[p].kind = "pad" => p \notin HeapBases
    BY <1>7 DEF MapsInv, ViewInv
  <2> QED BY <2>1, <2>2 DEF ViewInv
<1>13. UniformInv'
  BY <1>5, <1>7 DEF MapsInv, UniformInv
<1>14. ASSUME NEW u \in Threads \ {t} PROVE (call[u] = Idle \/ MappingInv(call[u]) \/ UnmapInv(call[u]))'
  <2>1. ASSUME MappingInv(call[u]) PROVE MappingInv(call[u])'
    <3>1. CASE call[u].op = "heap" \/ call[u].base \in Arena
      BY <3>1, <2>1, <1>8 DEF MappingInv, InArena
    <3>2. CASE call[u].op # "heap" /\ call[u].base \notin Arena
      <4>1. InHeap(call[u])
        BY <3>2, <2>1 DEF MappingInv
      <4>2. ASSUME Block(call[u]) \in fb PROVE Block(call[u]) \in fb'
        <5>1. /\ Run(call[u].base, MaxLen) \cap DOMAIN view = {} /\ call[u].base \in HeapBases
          BY <4>2, <3>2, <2>1, BlockTaken
        <5>2. call[u].base \in Run(call[u].base, MaxLen)
          BY <5>1, HeapApart, SizesAreNats DEF Run
        <5>3. Block(call[u]).base = call[u].base /\ Block(call[u]) \in LiveBlocks
          BY <4>2 DEF Block, LiveBlocks
        <5> QED BY <4>2, <5>1, <5>2, <5>3, <1>3, <1>5
      <4>3. LiveBases' \subseteq LiveBases
        BY <1>5 DEF LiveBases
      <4>4. Block(call[u])' = Block(call[u])
        BY <1>8 DEF Block
      <4>5. InHeap(call[u])'
        BY <4>1, <4>2, <4>3, <4>4, <1>2, <1>8 DEF InHeap
      <4> QED BY <4>5, <3>2, <2>1, <1>8 DEF MappingInv
    <3> QED BY <3>1, <3>2
  <2>2. ASSUME UnmapInv(call[u]) PROVE UnmapInv(call[u])'
    <3>1. Run(call[u].base, call[u].len) \cap gone = {}
      <4>1. Leaving(u) = Run(call[u].base, call[u].len)
        BY <2>2 DEF UnmapInv, Unmappings, Leaving
      <4> QED BY <4>1, <1>10
    <3>2. \A x \in fb' : x.base = call'[u].base =>
            \A p \in DOMAIN view' : p \in Pages(x) /\ view'[p].kind # "pad" => p \in Run(call'[u].base, call'[u].len)
      BY <2>2, <1>5, <1>7, <1>8 DEF UnmapInv
    <3>3. call'[u] \in Unmappings /\ call'[u].len > 0 /\ Run(call'[u].base, call'[u].len) \subseteq DOMAIN view'
      BY <2>2, <3>1, <1>7, <1>8 DEF UnmapInv
    <3> QED BY <3>2, <3>3 DEF UnmapInv
  <2> QED BY <2>1, <2>2, <1>8 DEF MapsInv, CallInv
<1>15. CallInv'
  BY <1>8, <1>14 DEF CallInv
<1>16. ApartInv'
  <2>1. \A u, v \in Threads : u # v =>
          Taken(u)' \cap Taken(v)' = {} /\ Leaving(u)' \cap Leaving(v)' = {}
    BY <1>9 DEF MapsInv, ApartInv
  <2>2. \A u \in Threads : Taken(u)' \cap DOMAIN view' = {}
    BY <1>7, <1>9 DEF MapsInv, ApartInv
  <2>3. ASSUME NEW u \in Threads, Taking(u)', call'[u].base \notin Arena
        PROVE  /\ Run(call'[u].base, MaxLen) \cap DOMAIN view' = {}
               /\ call'[u].kind = "shared" =>
                    \A p \in Taken(u)' : mem'[p] = <<call'[u].file, p - call'[u].base>>
    <3>1. Taking(u) /\ Taken(u)' = Taken(u) /\ call'[u] = call[u]
      BY <2>3, <1>8, <1>9
    <3>2. \A p \in Taken(u) : mem'[p] = mem[p]
      <4>1. \A p \in Taken(u) : p \in Addresses /\ p \notin gone
        BY <1>3, HaveMemory DEF MapsInv, ApartInv
      <4> QED BY <4>1, <1>2
    <3> QED BY <2>3, <3>1, <3>2, <1>7 DEF MapsInv, ApartInv
  <2> QED BY <2>1, <2>2, <2>3 DEF ApartInv
<1>17. UsedInv'
  <2>1. used = (DOMAIN view \cap Arena) \cup UNION {Taken(u) \cap Arena : u \in Threads}
    BY DEF MapsInv, UsedInv, Taker
  <2>2. \A u \in Threads : Taken(u) \cap gone = {}
    BY <1>3 DEF MapsInv, ApartInv
  <2>3. used' = (DOMAIN view' \cap Arena) \cup UNION {Taken(u) \cap Arena : u \in Threads}
    BY <2>1, <2>2, <1>4, <1>7
  <2> QED BY <2>3, <1>9 DEF UsedInv, Taker
<1>18. WMapsInv'
  <2>1. wmaps' = wmaps
    BY <1>2
  <2>2. ASSUME NEW i \in Slots, NEW p \in Pages(wmaps'[i])
        PROVE  /\ p \in DOMAIN view' /\ view'[p].kind = "shared"
               /\ PlaceIn(view', p) = <<wmaps'[i].file, wmaps'[i].off + p - wmaps'[i].base>>
               /\ \A u \in Threads : p \notin Leaving(u)'
    <3>1. /\ p \in DOMAIN view /\ view[p].kind = "shared"
          /\ PlaceIn(view, p) = <<wmaps[i].file, wmaps[i].off + p - wmaps[i].base>>
          /\ \A u \in Threads : p \notin Leaving(u)
      BY <2>1, <2>2 DEF MapsInv, WMapsInv
    <3>2. p \in DOMAIN view' /\ view'[p] = view[p]
      BY <3>1, <1>3, <1>7
    <3> QED BY <2>1, <3>1, <3>2, <1>9 DEF PlaceIn
  <2>3. /\ wmaps' \in [Slots -> [base : Nat, len : Nat, file : Files \cup {"none"}, off : Nat]]
        /\ \A i \in Slots : wmaps'[i] # NoMap => wmaps'[i].len > 0 /\ wmaps'[i].file \in Files
        /\ \A i, j \in Slots : i # j => Pages(wmaps'[i]) \cap Pages(wmaps'[j]) = {}
    BY <2>1 DEF MapsInv, WMapsInv
  <2> QED BY <2>2, <2>3 DEF WMapsInv
<1>19. SavedInv'
  <2>1. orphan' \subseteq DOMAIN view'
    BY <1>2, <1>7 DEF MapsInv, SavedInv
  <2>2. ASSUME NEW p \in dirty' PROVE p \in DOMAIN view' /\ view'[p].kind = "shared"
    <3>1. p \in DOMAIN view /\ view[p].kind = "shared" /\ p \in dirty
      BY <1>2 DEF MapsInv, SavedInv
    <3>2. p \notin gone
      BY <3>1, <1>2, <1>3 DEF MapsInv, SavedInv
    <3>3. p \in DOMAIN view'
      BY <3>1, <3>2, <1>7
    <3> QED BY <3>1, <3>3, <1>7
  <2>3. ASSUME NEW p \in DOMAIN view', view'[p].kind = "shared"
        PROVE  Covers(wmaps', p) \/ p \in orphan' \/ \E u \in Threads : p \in Leaving(u)'
    <3>1. p \in DOMAIN view /\ p \notin gone /\ view[p].kind = "shared"
      BY <2>3, <1>7
    <3>2. Covers(wmaps, p) \/ p \in orphan \/ \E u \in Threads : p \in Leaving(u)
      BY <3>1 DEF MapsInv, SavedInv
    <3>3. wmaps' = wmaps
      BY <1>2
    <3>4. p \in orphan => p \in orphan'
      BY <3>1, <1>2
    <3>5. (\E u \in Threads : p \in Leaving(u)) => \E u \in Threads : p \in Leaving(u)'
      BY <3>1, <1>3, <1>9
    <3> QED BY <3>2, <3>3, <3>4, <3>5
  <2>4. ASSUME NEW u \in Threads, NEW p \in Leaving(u)' \cap dirty' PROVE p \in orphan'
    <3>1. p \in Leaving(u) /\ u # t /\ p \in dirty
      BY <2>4, <1>2, <1>9
    <3>2. p \in orphan /\ p \notin gone
      BY <3>1, <1>10 DEF MapsInv, SavedInv
    <3> QED BY <3>2, <1>2
  <2> QED BY <2>1, <2>2, <2>3, <2>4 DEF SavedInv
<1>20. DataInPlace'
  <2>1. ASSUME NEW p \in DOMAIN view', view'[p].kind = "shared"
        PROVE  mem'[p] = PlaceIn(view', p) \/ \E u \in Threads : p \in Leaving(u)'
    <3>1. p \in DOMAIN view /\ p \notin gone /\ view'[p] = view[p] /\ p \in Addresses
      BY <2>1, <1>7, HaveMemory
    <3>2. mem'[p] = mem[p]
      BY <3>1, <1>2
    <3>3. (\E u \in Threads : p \in Leaving(u)) => \E u \in Threads : p \in Leaving(u)'
      BY <3>1, <1>3, <1>9
    <3> QED BY <2>1, <3>1, <3>2, <3>3 DEF MapsInv, DataInPlace, PlaceIn
  <2>2. \A g \in Files, o \in Offsets : file'[g][o] = <<g, o>>
    BY <1>2 DEF MapsInv, DataInPlace
  <2> QED BY <2>1, <2>2 DEF DataInPlace
<1> QED BY <1>11, <1>12, <1>13, <1>15, <1>16, <1>17, <1>18, <1>19, <1>20 DEF MapsInv

-----------------------------------------------------------------------------
(* What munmap leaves of the table of writable maps. *)

MapRecords == [base : Nat, len : Nat, file : Files \cup {"none"}, off : Nat]

(* w covers pages of m, and writes them where m would. *)
Part(w, m) ==
  /\ w \in MapRecords /\ w.len > 0 /\ w.file = m.file
  /\ w.off - w.base = m.off - m.base
  /\ Pages(w) \subseteq Pages(m)

LEMMA PagesAre ==
  ASSUME NEW m \in MapRecords
  PROVE  /\ m.base \in Nat /\ m.len \in Nat /\ m.off \in Nat
         /\ \A p : p \in Pages(m) <=> p \in Nat /\ m.base <= p /\ p < m.base + m.len
  BY DEF Pages, Run, MapRecords

LEMMA BehindIs ==
  ASSUME NEW m \in MapRecords, NEW end \in Nat, m.base < end, end < m.base + m.len
  PROVE  /\ Part(Behind(m, end), m)
         /\ \A p : p \in Pages(Behind(m, end)) <=> p \in Nat /\ end <= p /\ p < m.base + m.len
<1> DEFINE w == Behind(m, end)
<1>1. m.base \in Nat /\ m.len \in Nat /\ m.off \in Nat
  BY PagesAre
<1>2. /\ w.base = end /\ w.len = m.base + m.len - end /\ w.file = m.file
      /\ w.off = m.off + end - m.base
  BY DEF Behind, MapRecords
<1>3. w \in MapRecords
  <2>1. m.base + m.len - end \in Nat /\ m.off + end - m.base \in Nat
    BY <1>1
  <2> QED BY <2>1 DEF Behind, MapRecords
<1> HIDE DEF w
<1>4. \A p : p \in Pages(w) <=> p \in Nat /\ end <= p /\ p < m.base + m.len
  BY <1>1, <1>2, <1>3, PagesAre
<1>5. Pages(w) \subseteq Pages(m)
  BY <1>1, <1>4, PagesAre
<1>6. Part(w, m)
  BY <1>1, <1>2, <1>3, <1>5 DEF Part
<1> QED BY <1>4, <1>6 DEF w

LEMMA FrontIs ==
  ASSUME NEW m \in MapRecords, NEW a \in Nat, m.base < a, a < m.base + m.len
  PROVE  /\ Part([m EXCEPT !.len = a - m.base], m)
         /\ \A p : p \in Pages([m EXCEPT !.len = a - m.base]) <=> p \in Nat /\ m.base <= p /\ p < a
<1> DEFINE w == [m EXCEPT !.len = a - m.base]
<1>1. m.base \in Nat /\ m.len \in Nat /\ m.off \in Nat
  BY PagesAre
<1>2. w.base = m.base /\ w.len = a - m.base /\ w.file = m.file /\ w.off = m.off
  BY DEF MapRecords
<1>3. w \in MapRecords
  <2>1. a - m.base \in Nat
    BY <1>1
  <2> QED BY <2>1 DEF MapRecords
<1> HIDE DEF w
<1>4. \A p : p \in Pages(w) <=> p \in Nat /\ m.base <= p /\ p < a
  BY <1>1, <1>2, <1>3, PagesAre
<1>5. Pages(w) \subseteq Pages(m)
  BY <1>1, <1>4, PagesAre
<1>6. Part(w, m)
  BY <1>1, <1>2, <1>3, <1>5 DEF Part
<1> QED BY <1>4, <1>6 DEF w

(* At most one entry is split, as no two share a page. *)
LEMMA SplitIs ==
  ASSUME WMapsInv, NEW a \in Nat, NEW n \in Nat \ {0}
  PROVE  /\ Split(a, n) \subseteq Slots
         /\ \A i \in Split(a, n) :
              /\ wmaps[i] # NoMap /\ wmaps[i] \in MapRecords
              /\ wmaps[i].base < a /\ a + n < wmaps[i].base + wmaps[i].len
              /\ \A j \in Split(a, n) : i = j
         /\ Split(a, n) # {} => Min(Split(a, n)) \in Split(a, n)
<1>1. \A i \in Slots : wmaps[i] \in MapRecords
  BY DEF WMapsInv, MapRecords
<1>2. Split(a, n) \subseteq Slots /\ Split(a, n) \subseteq Nat
  BY DEF Split, Slots
<1>3. ASSUME NEW i \in Split(a, n)
      PROVE  /\ wmaps[i] # NoMap /\ wmaps[i] \in MapRecords
             /\ wmaps[i].base < a /\ a + n < wmaps[i].base + wmaps[i].len
             /\ a \in Pages(wmaps[i])
  <2>1. wmaps[i] \in MapRecords /\ wmaps[i].base < a /\ a + n < wmaps[i].base + wmaps[i].len
    BY <1>1 DEF Split
  <2>2. a \in Pages(wmaps[i])
    BY <2>1, PagesAre
  <2>3. wmaps[i] # NoMap
    BY <2>1 DEF NoMap
  <2> QED BY <2>1, <2>2, <2>3
<1>4. \A i, j \in Split(a, n) : i = j
  BY <1>2, <1>3 DEF WMapsInv
<1>5. Split(a, n) # {} => Min(Split(a, n)) \in Split(a, n)
  BY <1>2, LeastExists
<1> QED BY <1>2, <1>3, <1>4, <1>5

(* An entry is dropped, left alone, or loses its head or its tail, or is   *)
(* the new one for the part behind the hole.                               *)
Dropped(i, a, n) ==
  /\ Cut(a, n)[i] = NoMap
  /\ i \in Unsplit(a, n) \/ Pages(wmaps[i]) \subseteq Run(a, n)
LeftAlone(i, a, n) ==
  Cut(a, n)[i] = wmaps[i] /\ Pages(wmaps[i]) \cap Run(a, n) = {} /\ wmaps[i] # NoMap
LosesHead(i, a, n) ==
  /\ wmaps[i] # NoMap /\ a <= wmaps[i].base
  /\ wmaps[i].base < a + n /\ a + n < wmaps[i].base + wmaps[i].len
  /\ Cut(a, n)[i] = Behind(wmaps[i], a + n)
LosesTail(i, a, n) ==
  /\ wmaps[i] # NoMap /\ wmaps[i].base < a /\ a < wmaps[i].base + wmaps[i].len
  /\ Cut(a, n)[i] = [wmaps[i] EXCEPT !.len = a - wmaps[i].base]
TakesRest(i, a, n) ==
  /\ wmaps[i] = NoMap /\ i = Min(FreeSlots) /\ Split(a, n) # {} /\ FreeSlots # {}
  /\ Cut(a, n)[i] = Behind(wmaps[Min(Split(a, n))], a + n)

LEMMA CutEntry ==
  ASSUME WMapsInv, NEW a \in Nat, NEW n \in Nat \ {0}, NEW i \in Slots
  PROVE  \/ Dropped(i, a, n) \/ LeftAlone(i, a, n) \/ LosesHead(i, a, n)
         \/ LosesTail(i, a, n) \/ TakesRest(i, a, n)
<1> DEFINE m == wmaps[i]
           H == Run(a, n)
           c == Cut(a, n)[i]
<1>1. c = IF i \in Unsplit(a, n) \/ (m # NoMap /\ Pages(m) \subseteq H) THEN NoMap
          ELSE IF Split(a, n) # {} /\ i \in FreeSlots /\ i = Min(FreeSlots)
          THEN Behind(wmaps[Min(Split(a, n))], a + n)
          ELSE IF Pages(m) \cap H = {} THEN m
          ELSE IF a <= m.base THEN Behind(m, a + n)
          ELSE [m EXCEPT !.len = a - m.base]
  BY DEF Cut
<1>2. m \in MapRecords
  BY DEF WMapsInv, MapRecords
<1>3. \A p : p \in H <=> p \in Nat /\ a <= p /\ p < a + n
  BY DEF Run
<1>4. \A p : p \in Pages(m) <=> p \in Nat /\ m.base <= p /\ p < m.base + m.len
  BY <1>2, PagesAre
<1>5. m.base \in Nat /\ m.len \in Nat
  BY <1>2, PagesAre
<1>6. m = NoMap => Pages(m) = {}
  BY DEF NoMap, Pages, Run
<1> HIDE DEF c, H
<1>7. CASE i \in Unsplit(a, n) \/ (m # NoMap /\ Pages(m) \subseteq H)
  BY <1>1, <1>7 DEF Dropped, c, H
<1>8. CASE /\ ~(i \in Unsplit(a, n) \/ (m # NoMap /\ Pages(m) \subseteq H))
           /\ Split(a, n) # {} /\ i \in FreeSlots /\ i = Min(FreeSlots)
  <2>1. c = Behind(wmaps[Min(Split(a, n))], a + n)
    BY <1>1, <1>8
  <2>2. m = NoMap /\ FreeSlots # {}
    BY <1>8 DEF FreeSlots
  <2> QED BY <2>1, <2>2, <1>8 DEF TakesRest, c
<1>9. CASE /\ ~(i \in Unsplit(a, n) \/ (m # NoMap /\ Pages(m) \subseteq H))
           /\ ~(Split(a, n) # {} /\ i \in FreeSlots /\ i = Min(FreeSlots))
           /\ Pages(m) \cap H = {}
  <2>1. c = m
    BY <1>1, <1>9
  <2> QED BY <2>1, <1>6, <1>9 DEF Dropped, LeftAlone, c, H
<1>10. CASE /\ ~(i \in Unsplit(a, n) \/ (m # NoMap /\ Pages(m) \subseteq H))
            /\ ~(Split(a, n) # {} /\ i \in FreeSlots /\ i = Min(FreeSlots))
            /\ Pages(m) \cap H # {}
  <2>1. m # NoMap
    BY <1>6, <1>10
  <2>2. PICK p \in Pages(m) : p \in H
    BY <1>10
  <2>3. p \in Nat /\ a <= p /\ p < a + n /\ m.base <= p /\ p < m.base + m.len
    BY <2>2, <1>3, <1>4
  <2>4. PICK q \in Pages(m) : q \notin H
    BY <2>1, <1>10
  <2>5. q \in Nat /\ ~(a <= q /\ q < a + n) /\ m.base <= q /\ q < m.base + m.len
    BY <2>4, <1>3, <1>4
  <2>6. CASE a <= m.base
    <3>1. m.base < a + n /\ a + n < m.base + m.len
      BY <2>3, <2>5, <2>6, <1>5
    <3>2. c = Behind(m, a + n)
      BY <2>6, <1>1, <1>10
    <3> QED BY <2>1, <2>6, <3>1, <3>2 DEF LosesHead, c
  <2>7. CASE ~(a <= m.base)
    <3>1. m.base < a /\ a < m.base + m.len
      BY <2>3, <2>7, <1>5
    <3>2. c = [m EXCEPT !.len = a - m.base]
      BY <2>7, <1>1, <1>10
    <3> QED BY <2>1, <3>1, <3>2 DEF LosesTail, c
  <2> QED BY <2>6, <2>7
<1> QED BY <1>7, <1>8, <1>9, <1>10

(* Every entry left is part of one that was there, and clear of the hole. *)
LEMMA CutParts ==
  ASSUME WMapsInv, NEW a \in Nat, NEW n \in Nat \ {0}, NEW i \in Slots, Cut(a, n)[i] # NoMap
  PROVE  /\ Pages(Cut(a, n)[i]) \cap Run(a, n) = {}
         /\ \E j \in Slots : /\ wmaps[j] # NoMap /\ Part(Cut(a, n)[i], wmaps[j])
                             /\ j = i \/ (TakesRest(i, a, n) /\ j = Min(Split(a, n)))
<1> DEFINE w == Cut(a, n)[i]
<1>1. \A j \in Slots : wmaps[j] \in MapRecords /\ (wmaps[j] # NoMap => wmaps[j].len > 0)
  BY DEF WMapsInv, MapRecords
<1>2. \A p : p \in Run(a, n) <=> p \in Nat /\ a <= p /\ p < a + n
  BY DEF Run
<1>3. a + n \in Nat
  OBVIOUS
<1>4. CASE LeftAlone(i, a, n)
  <2>1. Part(wmaps[i], wmaps[i])
    BY <1>1, <1>4, PagesAre DEF Part, LeftAlone
  <2> QED BY <2>1, <1>4 DEF LeftAlone
<1>5. CASE LosesHead(i, a, n)
  <2>1. /\ Part(w, wmaps[i])
        /\ \A p : p \in Pages(w) <=> p \in Nat /\ a + n <= p /\ p < wmaps[i].base + wmaps[i].len
    BY <1>1, <1>3, <1>5, BehindIs DEF LosesHead
  <2> QED BY <2>1, <1>2, <1>5 DEF LosesHead
<1>6. CASE LosesTail(i, a, n)
  <2>1. /\ Part(w, wmaps[i])
        /\ \A p : p \in Pages(w) <=> p \in Nat /\ wmaps[i].base <= p /\ p < a
    BY <1>1, <1>6, FrontIs DEF LosesTail
  <2> QED BY <2>1, <1>2, <1>6 DEF LosesTail
<1>7. CASE TakesRest(i, a, n)
  <2> DEFINE s == Min(Split(a, n))
  <2>1. s \in Split(a, n) /\ s \in Slots /\ w = Behind(wmaps[s], a + n)
    BY <1>7, SplitIs DEF TakesRest
  <2> HIDE DEF s
  <2>2. /\ wmaps[s] # NoMap /\ wmaps[s] \in MapRecords
        /\ wmaps[s].base < a /\ a + n < wmaps[s].base + wmaps[s].len
    BY <2>1, SplitIs
  <2>3. wmaps[s].base < a + n
    BY <2>2, PagesAre
  <2>4. /\ Part(w, wmaps[s])
        /\ \A p : p \in Pages(w) <=> p \in Nat /\ a + n <= p /\ p < wmaps[s].base + wmaps[s].len
    BY <2>1, <2>2, <2>3, <1>3, BehindIs
  <2> QED BY <2>1, <2>2, <2>4, <1>2, <1>7 DEF s
<1> QED BY <1>4, <1>5, <1>6, <1>7, CutEntry DEF Dropped

(* The entry that is split keeps what is before the hole. *)
LEMMA CutSplit ==
  ASSUME WMapsInv, NEW a \in Nat, NEW n \in Nat \ {0}, NEW s \in Split(a, n), FreeSlots # {}
  PROVE  /\ LosesTail(s, a, n)
         /\ \A p : p \in Pages(Cut(a, n)[s]) <=> p \in Nat /\ wmaps[s].base <= p /\ p < a
<1>1. /\ s \in Slots /\ wmaps[s] # NoMap /\ wmaps[s] \in MapRecords
      /\ wmaps[s].base < a /\ a + n < wmaps[s].base + wmaps[s].len
  BY SplitIs
<1>2. a \in Pages(wmaps[s]) /\ a \in Run(a, n) /\ wmaps[s].base \in Nat /\ wmaps[s].len \in Nat
  BY <1>1, PagesAre DEF Run
<1>3. a + n \in Pages(wmaps[s]) /\ a + n \notin Run(a, n)
  BY <1>1, <1>2, PagesAre DEF Run
<1>4. s \notin Unsplit(a, n)
  BY DEF Unsplit
<1>5. LosesTail(s, a, n)
  BY <1>1, <1>2, <1>3, <1>4, CutEntry DEF Dropped, LeftAlone, LosesHead, TakesRest
<1>6. \A p : p \in Pages(Cut(a, n)[s]) <=> p \in Nat /\ wmaps[s].base <= p /\ p < a
  BY <1>1, <1>5, FrontIs DEF LosesTail
<1> QED BY <1>5, <1>6

LEMMA CutApart ==
  ASSUME WMapsInv, NEW a \in Nat, NEW n \in Nat \ {0}, NEW i \in Slots, NEW j \in Slots, i # j
  PROVE  Pages(Cut(a, n)[i]) \cap Pages(Cut(a, n)[j]) = {}
<1>1. Pages(NoMap) = {}
  BY DEF Pages, Run, NoMap
<1>2. \A k, l \in Slots : k # l => Pages(wmaps[k]) \cap Pages(wmaps[l]) = {}
  BY DEF WMapsInv
(* The part behind the hole is clear of the part before it. *)
<1>3. ASSUME NEW k \in Slots, NEW l \in Slots, TakesRest(k, a, n), l = Min(Split(a, n))
      PROVE  Pages(Cut(a, n)[k]) \cap Pages(Cut(a, n)[l]) = {}
  <2>1. l \in Split(a, n) /\ FreeSlots # {} /\ Cut(a, n)[k] = Behind(wmaps[l], a + n)
    BY <1>3, SplitIs DEF TakesRest
  <2>2. \A p \in Pages(Cut(a, n)[l]) : p \in Nat /\ p < a
    BY <2>1, CutSplit
  <2>3. /\ wmaps[l] \in MapRecords /\ wmaps[l].base < a /\ a + n < wmaps[l].base + wmaps[l].len
    BY <2>1, SplitIs
  <2>4. wmaps[l].base < a + n /\ a + n \in Nat
    BY <2>3, PagesAre
  <2>5. \A p \in Pages(Cut(a, n)[k]) : p \in Nat /\ a + n <= p
    BY <2>1, <2>3, <2>4, BehindIs
  <2> QED BY <2>2, <2>5
<1>4. CASE Cut(a, n)[i] = NoMap \/ Cut(a, n)[j] = NoMap
  BY <1>1, <1>4
<1>5. CASE Cut(a, n)[i] # NoMap /\ Cut(a, n)[j] # NoMap
  <2>1. PICK k \in Slots : /\ Part(Cut(a, n)[i], wmaps[k])
                           /\ k = i \/ (TakesRest(i, a, n) /\ k = Min(Split(a, n)))
    BY <1>5, CutParts
  <2>2. PICK l \in Slots : /\ Part(Cut(a, n)[j], wmaps[l])
                           /\ l = j \/ (TakesRest(j, a, n) /\ l = Min(Split(a, n)))
    BY <1>5, CutParts
  <2>3. CASE k # l
    BY <2>1, <2>2, <2>3, <1>2 DEF Part
  <2>4. CASE k = l
    <3>1. CASE k = i
      <4>1. TakesRest(j, a, n) /\ i = Min(Split(a, n))
        BY <2>2, <2>4, <3>1
      <4> QED BY <4>1, <1>3
    <3>2. CASE k # i
      <4>1. TakesRest(i, a, n) /\ k = Min(Split(a, n))
        BY <2>1, <3>2
      <4>2. CASE l = j
        BY <4>1, <4>2, <2>4, <1>3
      <4>3. CASE l # j
        <5>1. TakesRest(j, a, n)
          BY <2>2, <4>3
        <5> QED BY <4>1, <5>1 DEF TakesRest
      <4> QED BY <4>2, <4>3
    <3> QED BY <3>1, <3>2
  <2> QED BY <2>3, <2>4
<1> QED BY <1>4, <1>5

(* What an entry covers outside the hole is covered still. *)
LEMMA CutCovers ==
  ASSUME WMapsInv, NEW a \in Nat, NEW n \in Nat \ {0}, NEW i \in Slots, i \notin Unsplit(a, n),
         NEW p \in Pages(wmaps[i]), p \notin Run(a, n)
  PROVE  Covers(Cut(a, n), p)
<1>1. wmaps[i] \in MapRecords
  BY DEF WMapsInv, MapRecords
<1>2. p \in Nat /\ wmaps[i].base <= p /\ p < wmaps[i].base + wmaps[i].len /\ ~(a <= p /\ p < a + n)
  BY <1>1, PagesAre DEF Run
<1>3. a + n \in Nat /\ wmaps[i].base \in Nat /\ wmaps[i].len \in Nat
  BY <1>1, PagesAre
<1>4. CASE Dropped(i, a, n)
  BY <1>4 DEF Dropped
<1>5. CASE LeftAlone(i, a, n)
  BY <1>5 DEF LeftAlone, Covers
<1>6. CASE LosesHead(i, a, n)
  <2>1. a + n <= p
    BY <1>2, <1>3, <1>6 DEF LosesHead
  <2>2. p \in Pages(Cut(a, n)[i])
    BY <2>1, <1>1, <1>2, <1>3, <1>6, BehindIs DEF LosesHead
  <2> QED BY <2>2 DEF Covers
<1>7. CASE LosesTail(i, a, n) /\ p < a
  <2>1. p \in Pages(Cut(a, n)[i])
    BY <1>1, <1>2, <1>7, FrontIs DEF LosesTail
  <2> QED BY <2>1 DEF Covers
<1>8. CASE LosesTail(i, a, n) /\ ~(p < a)
  <2>1. a + n <= p /\ a + n < wmaps[i].base + wmaps[i].len /\ wmaps[i].base < a /\ wmaps[i].base < a + n
    BY <1>2, <1>3, <1>8 DEF LosesTail
  <2>2. i \in Split(a, n) /\ FreeSlots # {}
    BY <2>1 DEF Split, Unsplit
  <2>3. i = Min(Split(a, n))
    BY <2>2, SplitIs
  <2> DEFINE k == Min(FreeSlots)
  <2>4. k \in FreeSlots
    <3>1. FreeSlots \subseteq Nat
      BY DEF FreeSlots, Slots
    <3> QED BY <3>1, <2>2, LeastExists
  <2>5. k \in Slots /\ wmaps[k] = NoMap
    BY <2>4 DEF FreeSlots
  <2>6. k \notin Unsplit(a, n)
    BY <2>2 DEF Unsplit
  <2>7. Cut(a, n)[k] = Behind(wmaps[i], a + n)
    BY <2>2, <2>3, <2>4, <2>5, <2>6 DEF Cut
  <2> HIDE DEF k
  <2>8. p \in Pages(Cut(a, n)[k])
    BY <2>1, <2>7, <1>1, <1>2, <1>3, BehindIs
  <2> QED BY <2>5, <2>8 DEF Covers
<1>9. ~TakesRest(i, a, n)
  BY DEF TakesRest, NoMap, Pages, Run
<1> QED BY <1>4, <1>5, <1>6, <1>7, <1>8, <1>9, CutEntry

(* A covered page is shared, and the table has its place right. *)
LEMMA PlaceIs ==
  ASSUME WMapsInv, NEW p, Covers(wmaps, p)
  PROVE  /\ p \in DOMAIN view /\ view[p].kind = "shared" /\ PlaceOf(p) = PlaceIn(view, p)
         /\ \A u \in Threads : p \notin Leaving(u)
<1> DEFINE i == CHOOSE j \in Slots : p \in Pages(wmaps[j])
<1>1. i \in Slots /\ p \in Pages(wmaps[i])
  BY DEF Covers
<1>2. PlaceOf(p) = <<wmaps[i].file, wmaps[i].off + p - wmaps[i].base>>
  BY DEF PlaceOf
<1> HIDE DEF i
<1> QED BY <1>1, <1>2 DEF WMapsInv

(* munmap takes away all the pages in use of a heap block that begins where *)
(* it begins.                                                               *)
LEMMA UnmapsBlock ==
  ASSUME MapsInv, NEW a \in DOMAIN view, NEW n \in Nat \ {0}, MayUnmap(a, n)
  PROVE  /\ Run(a, n) \subseteq DOMAIN view
         /\ \A u \in Threads : Run(a, n) \cap Leaving(u) = {}
         /\ \A blk \in fb : blk.base = a =>
              \A p \in DOMAIN view : p \in Pages(blk) /\ view[p].kind # "pad" => p \in Run(a, n)
<1> DEFINE same == {p \in DOMAIN view : view[p] = view[a]}
<1>1. /\ IF view[a].kind = "shared" /\ a \in Arena
         THEN Run(a, n) \subseteq same ELSE Run(a, n) = same
      /\ \A u \in Threads : Run(a, n) \cap Leaving(u) = {}
  BY DEF MayUnmap
<1>2. Run(a, n) \subseteq DOMAIN view
  BY <1>1
<1>3. ASSUME NEW blk \in fb, blk.base = a, NEW p \in DOMAIN view, p \in Pages(blk), view[p].kind # "pad"
      PROVE  p \in Run(a, n)
  <2>1. blk \in LiveBlocks /\ a \in HeapBases /\ a \notin Arena /\ p \notin Arena /\ a \in Nat
    BY <1>3, BlockPages, HeapApart DEF MapsInv, LiveBlocks
  <2>2. a \in Run(a, MaxLen)
    BY <2>1, SizesAreNats DEF Run
  <2>3. view[a].kind # "pad"
    BY <2>1 DEF MapsInv, ViewInv
  <2>4. ASSUME NEW q \in DOMAIN view, q \notin Arena, view[q].kind # "pad", q \in Run(a, MaxLen)
        PROVE  view[q].base = a
    <3>1. PICK x \in LiveBlocks : x.base = view[q].base /\ q \in Pages(x)
      BY <2>4 DEF MapsInv, ViewInv
    <3>2. x.base \in HeapBases /\ q \in Run(x.base, MaxLen)
      BY <3>1, BlockPages DEF MapsInv
    <3> QED BY <3>1, <3>2, <2>1, <2>4, HeapApart
  <2>5. p \in Run(a, MaxLen)
    BY <1>3, <2>1, BlockPages DEF MapsInv
  <2>6. view[a].base = a /\ view[p].base = a
    BY <2>1, <2>2, <2>3, <2>4, <2>5, <1>3
  <2>7. view[p] = view[a]
    BY <2>1, <2>3, <2>6, <1>3 DEF MapsInv, UniformInv
  <2> QED BY <2>1, <2>7, <1>1
<1> QED BY <1>1, <1>2, <1>3

LEMMA MunmapStep ==
  ASSUME MapsInv, NEW t \in Threads, NEW a \in DOMAIN view, NEW n \in 1 .. MaxLen,
         NEW k \in Prefixes \cup {NoFailure}, Munmap(t, a, n, k)
  PROVE  MapsInv'
<1> DEFINE ok == k = NoFailure
           H == Run(a, n)
           span == {p \in H : Covers(wmaps, p)}
           written == IF ok THEN span ELSE {p \in span : p < a + k}
           stay == DOMAIN view \ (IF ok THEN H ELSE {})
           cut == Cut(a, n)
           d == IF ok THEN [op |-> "unmap", base |-> a, len |-> n] ELSE Idle
<1>1. a \in Nat /\ n \in Nat \ {0} /\ MayUnmap(a, n) /\ call[t] = Idle
  BY SizesAreNats DEF MapsInv, ViewInv, Munmap
<1>2. /\ file' = [f \in Files |-> [o \in Offsets |->
                    LET p == {q \in written : PlaceOf(q) = <<f, o>>}
                    IN IF p = {} THEN file[f][o] ELSE mem[Max(p)]]]
      /\ wmaps' = cut /\ dirty' = dirty \ written
      /\ orphan' = orphan \cup (stay \cap (span \cup UNION {Pages(wmaps[i]) : i \in Unsplit(a, n)}))
      /\ call' = [call EXCEPT ![t] = d]
      /\ UNCHANGED <<used, fb, pinned, mapc, mem, view>>
  BY DEF Munmap
<1>3. /\ H \subseteq DOMAIN view
      /\ \A u \in Threads : H \cap Leaving(u) = {}
      /\ \A blk \in fb : blk.base = a =>
           \A p \in DOMAIN view : p \in Pages(blk) /\ view[p].kind # "pad" => p \in H
  BY <1>1, UnmapsBlock
<1>4. /\ written \subseteq span /\ (ok => written = span)
      /\ span \subseteq H /\ \A p \in H : Covers(wmaps, p) => p \in span
      /\ \A p \in span : Covers(wmaps, p)
      /\ stay \subseteq DOMAIN view /\ (~ok => stay = DOMAIN view)
      /\ \A p \in DOMAIN view : p \notin H => p \in stay
  OBVIOUS
<1>5. \A p \in H : p \in Nat /\ a <= p /\ p < a + n
  BY <1>1 DEF Run
<1>6. /\ DOMAIN call = Threads /\ DOMAIN call' = Threads
      /\ call'[t] = d /\ \A u \in Threads \ {t} : call'[u] = call[u]
  BY <1>2 DEF MapsInv, CallInv
<1>7. /\ ok => d = [op |-> "unmap", base |-> a, len |-> n]
      /\ ~ok => d = Idle
  OBVIOUS
<1>8. /\ Leaving(t)' = (IF ok THEN H ELSE {}) /\ Leaving(t) = {}
      /\ \A u \in Threads \ {t} : Leaving(u)' = Leaving(u)
      /\ Taken(t)' = {} /\ Taken(t) = {} /\ ~Taking(t)'
  <2>1. ASSUME ok PROVE Leaving(t)' = H /\ ~Taking(t)'
    BY <2>1, <1>6, <1>7 DEF Leaving, Taking
  <2>2. ASSUME ~ok PROVE Leaving(t)' = {} /\ ~Taking(t)'
    BY <2>2, <1>6, <1>7 DEF Leaving, Taking, Idle
  <2>3. Leaving(t) = {} /\ Taken(t) = {} /\ \A u \in Threads \ {t} : Leaving(u)' = Leaving(u)
    BY <1>1, <1>6 DEF Leaving, Taken, Taking, Idle
  <2> QED BY <2>1, <2>2, <2>3 DEF Taken
<1> HIDE DEF ok, span, written, stay, H, d, cut
<1>9. \A u \in Threads \ {t} : /\ (call[u] = Idle \/ MappingInv(call[u]) \/ UnmapInv(call[u]))'
                               /\ Taken(u)' = Taken(u) /\ (Taking(u)' <=> Taking(u))
  BY <1>2, <1>6, OthersStay
<1>10. CallInv'
  <2>1. ASSUME ok PROVE UnmapInv(call[t])'
    <3>1. d \in Unmappings /\ d.base = a /\ d.len = n
      BY <2>1, <1>1, <1>7 DEF Unmappings
    <3> QED BY <3>1, <1>1, <1>2, <1>3, <1>6 DEF UnmapInv, Pages, H
  <2>2. ASSUME ~ok PROVE (call[t] = Idle)'
    BY <2>2, <1>6, <1>7
  <2> QED BY <2>1, <2>2, <1>6, <1>9 DEF CallInv
<1>11. ApartInv'
  <2>1. \A u, v \in Threads : u # v =>
          Taken(u)' \cap Taken(v)' = {} /\ Leaving(u)' \cap Leaving(v)' = {}
    BY <1>3, <1>8, <1>9 DEF MapsInv, ApartInv
  <2>2. \A u \in Threads : Taken(u)' \cap DOMAIN view' = {}
    BY <1>2, <1>8, <1>9 DEF MapsInv, ApartInv
  <2>3. ASSUME NEW u \in Threads, Taking(u)', call'[u].base \notin Arena
        PROVE  /\ Run(call'[u].base, MaxLen) \cap DOMAIN view' = {}
               /\ call'[u].kind = "shared" =>
                    \A p \in Taken(u)' : mem'[p] = <<call'[u].file, p - call'[u].base>>
    <3>1. u # t /\ Taking(u) /\ Taken(u)' = Taken(u) /\ call'[u] = call[u]
      BY <2>3, <1>6, <1>8, <1>9
    <3> QED BY <2>3, <3>1, <1>2 DEF MapsInv, ApartInv
  <2> QED BY <2>1, <2>2, <2>3 DEF ApartInv
<1>12. UsedInv'
  <2>1. \A u \in Threads : Taken(u)' = Taken(u)
    BY <1>8, <1>9
  <2> QED BY <2>1, <1>2 DEF MapsInv, UsedInv, Taker
<1>13. BlocksInv' /\ ViewInv' /\ UniformInv'
  BY <1>2 DEF MapsInv, BlocksInv, ViewInv, UniformInv, LiveBlocks, Pages
<1>14. /\ \A i \in Slots : wmaps[i] \in MapRecords /\ (wmaps[i] # NoMap => wmaps[i].file \in Files)
       /\ WMapsInv
  BY DEF MapsInv, WMapsInv, MapRecords
<1>15. ASSUME NEW i \in Slots, cut[i] # NoMap
       PROVE  \E j \in Slots : wmaps[j] # NoMap /\ Part(cut[i], wmaps[j]) /\ Pages(cut[i]) \cap H = {}
  BY <1>1, <1>14, <1>15, CutParts DEF cut, H
<1>16. WMapsInv'
  <2>1. /\ cut \in [Slots -> MapRecords]
        /\ \A i \in Slots : cut[i] # NoMap => cut[i].len > 0 /\ cut[i].file \in Files
    <3>1. cut = [i \in Slots |-> cut[i]]
      BY DEF cut, Cut
    <3>2. NoMap \in MapRecords
      BY DEF NoMap, MapRecords
    <3>3. ASSUME NEW i \in Slots
          PROVE  cut[i] \in MapRecords /\ (cut[i] # NoMap => cut[i].len > 0 /\ cut[i].file \in Files)
      BY <3>2, <1>14, <1>15 DEF Part
    <3> QED BY <3>1, <3>3
  <2>2. \A i, j \in Slots : i # j => Pages(cut[i]) \cap Pages(cut[j]) = {}
    BY <1>1, <1>14, CutApart DEF cut
  <2>3. ASSUME NEW i \in Slots, NEW p \in Pages(cut[i])
        PROVE  /\ p \in DOMAIN view /\ view[p].kind = "shared"
               /\ PlaceIn(view, p) = <<cut[i].file, cut[i].off + p - cut[i].base>>
               /\ \A u \in Threads : p \notin Leaving(u)'
    <3>1. cut[i] # NoMap
      BY <2>3 DEF NoMap, Pages, Run
    <3>2. PICK j \in Slots : Part(cut[i], wmaps[j]) /\ Pages(cut[i]) \cap H = {}
      BY <3>1, <1>15
    <3>3. /\ p \in Pages(wmaps[j]) /\ p \notin H /\ cut[i].file = wmaps[j].file
          /\ cut[i].off - cut[i].base = wmaps[j].off - wmaps[j].base
          /\ cut[i] \in MapRecords
      BY <3>2, <2>3 DEF Part
    <3>4. /\ p \in DOMAIN view /\ view[p].kind = "shared"
          /\ PlaceIn(view, p) = <<wmaps[j].file, wmaps[j].off + p - wmaps[j].base>>
          /\ \A u \in Threads : p \notin Leaving(u)
      BY <3>3 DEF MapsInv, WMapsInv
    <3>5. cut[i].off + p - cut[i].base = wmaps[j].off + p - wmaps[j].base
      <4>1. /\ p \in Nat /\ cut[i].off \in Nat /\ cut[i].base \in Nat
            /\ wmaps[j].off \in Nat /\ wmaps[j].base \in Nat
        BY <3>3, <1>14, PagesAre
      <4> QED BY <4>1, <3>3
    <3>6. \A u \in Threads : p \notin Leaving(u)'
      BY <3>3, <3>4, <1>8
    <3> QED BY <3>3, <3>4, <3>5, <3>6
  <2>4. wmaps' = cut /\ view' = view
    BY <1>2
  <2> QED BY <2>1, <2>2, <2>3, <2>4 DEF WMapsInv, MapRecords
<1>17. \A p : Covers(wmaps, p) => /\ p \in DOMAIN view /\ view[p].kind = "shared"
                                  /\ PlaceOf(p) = PlaceIn(view, p)
                                  /\ \A u \in Threads : p \notin Leaving(u)
  BY <1>14, PlaceIs
<1>18. SavedInv'
  <2>1. orphan' \subseteq DOMAIN view'
    BY <1>2, <1>4 DEF MapsInv, SavedInv
  <2>2. \A p \in dirty' : p \in DOMAIN view' /\ view'[p].kind = "shared"
    BY <1>2 DEF MapsInv, SavedInv
  <2>3. ASSUME NEW p \in DOMAIN view, view[p].kind = "shared"
        PROVE  Covers(cut, p) \/ p \in orphan' \/ \E u \in Threads : p \in Leaving(u)'
    <3>1. Covers(wmaps, p) \/ p \in orphan \/ \E u \in Threads : p \in Leaving(u)
      BY <2>3 DEF MapsInv, SavedInv
    <3>2. CASE p \in orphan
      BY <3>2, <1>2
    <3>3. CASE \E u \in Threads : p \in Leaving(u)
      BY <3>3, <1>8
    <3>4. CASE Covers(wmaps, p) /\ p \in H
      <4>1. CASE ok
        BY <4>1, <3>4, <1>8
      <4>2. CASE ~ok
        BY <4>2, <3>4, <1>2, <1>4
      <4> QED BY <4>1, <4>2
    <3>5. CASE Covers(wmaps, p) /\ p \notin H
      <4>1. PICK i \in Slots : p \in Pages(wmaps[i])
        BY <3>5 DEF Covers
      <4>2. CASE i \in Unsplit(a, n)
        BY <4>1, <4>2, <3>5, <1>2, <1>4
      <4>3. CASE i \notin Unsplit(a, n)
        BY <4>1, <4>3, <3>5, <1>1, <1>14, CutCovers DEF cut, H
      <4> QED BY <4>2, <4>3
    <3> QED BY <3>1, <3>2, <3>3, <3>4, <3>5
  <2>4. ASSUME NEW u \in Threads, NEW p \in Leaving(u)' \cap dirty' PROVE p \in orphan'
    <3>1. p \in dirty /\ p \notin written
      BY <1>2
    <3>2. CASE u # t
      BY <3>1, <3>2, <1>2, <1>8 DEF MapsInv, SavedInv
    <3>3. CASE u = t
      <4>1. ok /\ p \in H
        BY <3>3, <1>8
      <4>2. p \in DOMAIN view /\ view[p].kind = "shared"
        BY <3>1 DEF MapsInv, SavedInv
      <4>3. ~Covers(wmaps, p)
        BY <3>1, <4>1, <1>4
      <4>4. p \in orphan
        BY <4>1, <4>2, <4>3, <1>3 DEF MapsInv, SavedInv
      <4> QED BY <4>4, <1>2
    <3> QED BY <3>2, <3>3
  <2>5. wmaps' = cut /\ view' = view
    BY <1>2
  <2> QED BY <2>1, <2>2, <2>3, <2>4, <2>5 DEF SavedInv
<1>19. DataInPlace'
  <2>1. ASSUME NEW f \in Files, NEW o \in Offsets PROVE file'[f][o] = <<f, o>>
    <3> DEFINE ps == {q \in written : PlaceOf(q) = <<f, o>>}
    <3>1. file'[f][o] = IF ps = {} THEN file[f][o] ELSE mem[Max(ps)]
      BY <1>2
    <3>2. CASE ps = {}
      BY <3>1, <3>2 DEF MapsInv, DataInPlace
    <3>3. CASE ps # {}
      <4>1. ps \subseteq Nat /\ \A q \in ps : q <= a + n
        BY <1>1, <1>4, <1>5
      <4>2. a + n \in Nat
        BY <1>1
      <4> DEFINE q == Max(ps)
      <4>3. q \in ps
        BY <4>1, <4>2, <3>3, GreatestExists
      <4> HIDE DEF q
      <4>4. Covers(wmaps, q) /\ PlaceOf(q) = <<f, o>>
        BY <4>3, <1>4
      <4>5. mem[q] = PlaceIn(view, q)
        BY <4>4, <1>17 DEF MapsInv, DataInPlace
      <4> QED BY <3>1, <3>3, <4>4, <4>5, <1>17 DEF q
    <3> QED BY <3>2, <3>3
  <2>2. ASSUME NEW p \in DOMAIN view, view[p].kind = "shared"
        PROVE  mem[p] = PlaceIn(view, p) \/ \E u \in Threads : p \in Leaving(u)'
    <3>1. mem[p] = PlaceIn(view, p) \/ \E u \in Threads : p \in Leaving(u)
      BY <2>2 DEF MapsInv, DataInPlace
    <3> QED BY <3>1, <1>8
  <2>3. mem' = mem /\ view' = view
    BY <1>2
  <2> QED BY <2>1, <2>2, <2>3 DEF DataInPlace
<1> QED BY <1>10, <1>11, <1>12, <1>13, <1>16, <1>18, <1>19 DEF MapsInv

-----------------------------------------------------------------------------
(* The theorems. *)

LEMMA MapsStutter == MapsInv /\ UNCHANGED vars => MapsInv'
<1> SUFFICES ASSUME MapsInv, UNCHANGED vars PROVE MapsInv'
  OBVIOUS
<1>1. UNCHANGED <<used, fb, pinned, mapc, wmaps, mem, file, view, dirty, orphan, call>>
  BY DEF vars, tables, ghosts
<1>2. \A u \in Threads : Taken(u)' = Taken(u) /\ (Taking(u)' <=> Taking(u)) /\ Leaving(u)' = Leaving(u)
  BY <1>1 DEF Taken, Taking, Leaving
<1>3. CallInv'
  <2>1. \A u \in Threads : MappingInv(call[u]) => MappingInv(call[u])'
    BY <1>1 DEF MappingInv, InHeap, InArena, LiveBases, LiveBlocks
  <2>2. \A u \in Threads : UnmapInv(call[u]) => UnmapInv(call[u])'
    BY <1>1 DEF UnmapInv, Pages
  <2> QED BY <2>1, <2>2, <1>1 DEF MapsInv, CallInv
<1>4. ApartInv' /\ UsedInv'
  BY <1>1, <1>2 DEF MapsInv, ApartInv, UsedInv, Taker
<1>5. BlocksInv' /\ ViewInv' /\ UniformInv'
  BY <1>1 DEF MapsInv, BlocksInv, ViewInv, UniformInv, LiveBlocks, Pages
<1>6. WMapsInv' /\ SavedInv' /\ DataInPlace'
  BY <1>1, <1>2, DataStays DEF MapsInv
<1> QED BY <1>3, <1>4, <1>5, <1>6 DEF MapsInv

LEMMA MapsNext ==
  ASSUME FitsSlot, MapsInv, Next
  PROVE  MapsInv'
<1>1. ASSUME NEW t \in Threads, NEW kind \in Kinds, NEW f \in Files \cup {"none"}, NEW len \in Lens(kind),
             Mmap(t, kind, f, len)
      PROVE  MapsInv'
  BY <1>1, MmapStep
<1>2. ASSUME NEW t \in Threads, Heap(t) \/ FbAdd(t) \/ MapcPut(t) \/ MapAdd(t) \/ Undo(t) \/ Release(t)
      PROVE  MapsInv'
  BY <1>2, HeapStep, FbAddStep, MapcPutStep, MapAddStep, UndoStep, ReleaseStep
<1>3. ASSUME NEW t \in Threads, NEW a \in DOMAIN view, NEW n \in 1 .. MaxLen,
             NEW k \in Prefixes \cup {NoFailure}, Munmap(t, a, n, k)
      PROVE  MapsInv'
  BY <1>3, MunmapStep
<1>4. ASSUME NEW f \in Files, Store(f) PROVE MapsInv'
  BY <1>4, StoreStep
<1> QED BY <1>1, <1>2, <1>3, <1>4 DEF Next

(* The inductive invariant of mmap_fake, munmap_fake and the four tables   *)
(* behind them: what every thread is in the middle of, whose each page is, *)
(* and which entry of g_writable_maps speaks for it.                       *)
THEOREM MapsInvariant == FitsSlot => (Spec => []MapsInv)
<1> SUFFICES ASSUME FitsSlot PROVE Spec => []MapsInv
  OBVIOUS
<1>1. Init => MapsInv
  BY MapsInitInv
<1>2. MapsInv /\ [Next]_vars => MapsInv'
  BY MapsNext, MapsStutter
<1> QED BY <1>1, <1>2, PTL DEF Spec

(* mmap_arena_alloc_locked and mmap_fallback never give memory twice, and  *)
(* munmap_fake gives back all there is to give back.                       *)
THEOREM Reserved == FitsSlot => (Spec => []ReservedOnce)
<1> SUFFICES ASSUME FitsSlot PROVE Spec => []ReservedOnce
  OBVIOUS
<1>1. ASSUME MapsInv PROVE ReservedOnce
  <2>1. \A t \in Threads : /\ Taken(t) \cap DOMAIN view = {}
                           /\ \A u \in Threads \ {t} : Taken(t) \cap Taken(u) = {}
    BY <1>1 DEF MapsInv, ApartInv
  <2>2. \A p \in DOMAIN view \ Arena : view[p].kind # "pad" => BlockAt(p) # {}
    BY <1>1 DEF MapsInv, ViewInv, BlockAt
  <2> QED BY <1>1, <2>1, <2>2 DEF MapsInv, UsedInv, ReservedOnce
<1>2. Spec => []MapsInv
  BY MapsInvariant
<1> QED BY <1>1, <1>2, PTL

(* Whatever the order of mmap, stores, writable_map_flush and the reuse of *)
(* pages, a file's page only gets data that belongs there, and a shared    *)
(* page in use holds its own.                                              *)
THEOREM InPlace == FitsSlot => (Spec => []DataInPlace)
<1> SUFFICES ASSUME FitsSlot PROVE Spec => []DataInPlace
  OBVIOUS
<1>1. MapsInv => DataInPlace
  BY DEF MapsInv
<1>2. Spec => []MapsInv
  BY MapsInvariant
<1> QED BY <1>1, <1>2, PTL

(* What is stored and not in the file yet, writable_map_flush will find:   *)
(* an entry covers it, with the right file and offset, unless that entry   *)
(* was dropped after a failed write or for want of a slot.                 *)
THEOREM Tracked == FitsSlot => (Spec => []UnsavedIsTracked)
<1> SUFFICES ASSUME FitsSlot PROVE Spec => []UnsavedIsTracked
  OBVIOUS
<1>1. ASSUME MapsInv, NEW p \in dirty \ orphan
      PROVE  p \in DOMAIN view /\ Covers(wmaps, p) /\ PlaceOf(p) = PlaceIn(view, p)
  <2>1. p \in DOMAIN view /\ view[p].kind = "shared"
    BY <1>1 DEF MapsInv, SavedInv
  <2>2. Covers(wmaps, p)
    BY <1>1, <2>1 DEF MapsInv, SavedInv
  <2> QED BY <2>1, <2>2, <1>1, PlaceIs DEF MapsInv
<1>2. MapsInv => UnsavedIsTracked
  BY <1>1 DEF UnsavedIsTracked
<1>3. Spec => []MapsInv
  BY MapsInvariant
<1> QED BY <1>2, <1>3, PTL
-----------------------------------------------------------------------------
(* The lock that is already held. *)

(* No file map is longer than a big slot. *)
FilesFitSlot == \A len \in RoLens \cup SharedLens : len <= STEP

(* Then each gets all of its pages or none. *)
LEMMA FilesGetAll ==
  ASSUME FilesFitSlot, NEW kind \in Kinds, IsFile(kind), NEW len \in Lens(kind)
  PROVE  AllocAt(len).got = 0 \/ AllocAt(len).got = len
<1>1. len \in Nat \ {0} /\ PAGES \in Nat \ {0} /\ STEP \in Nat \ {0, 1} /\ len <= STEP
  <2>1. len <= STEP
    BY DEF FilesFitSlot, Lens, Kinds, IsFile
  <2> QED BY <2>1, LensAre, SizesAreNats
<1>2. TailStarts(len) = {}
  <2> SUFFICES ASSUME NEW i \in TailStarts(len) PROVE FALSE
    OBVIOUS
  <2>1. i \in Nat /\ len >= STEP /\ i + len > PAGES /\ PAGES - i >= Kept(len)
    BY <1>1 DEF TailStarts, BigStarts, Arena
  <2>2. Kept(len) = len
    BY <1>1 DEF Kept
  <2> QED BY <1>1, <2>1, <2>2
<1> QED BY <1>2 DEF AllocAt

Calls ==
  /\ DOMAIN call = Threads
  /\ \A t \in Threads : "op" \in DOMAIN call[t] /\ call[t].op \in Steps \cup {"idle", "unmap"}

LEMMA CallsNext ==
  ASSUME FilesFitSlot, Calls, Next
  PROVE  Calls'
<1>1. ASSUME NEW t \in Threads, NEW c, "op" \in DOMAIN c, c.op \in Steps \cup {"idle", "unmap"},
             call' = [call EXCEPT ![t] = c]
      PROVE  Calls'
  BY <1>1 DEF Calls
<1>2. ASSUME NEW t \in Threads, NEW o \in Steps, call' = [call EXCEPT ![t].op = o]
      PROVE  Calls'
  BY <1>2 DEF Calls
<1>3. "op" \in DOMAIN Idle /\ Idle.op = "idle"
  BY DEF Idle
<1>4. ASSUME NEW t \in Threads, NEW kind \in Kinds, NEW f \in Files \cup {"none"}, NEW len \in Lens(kind),
             Mmap(t, kind, f, len)
      PROVE  Calls'
  <2> DEFINE a == AllocAt(len)
             c == [op |-> "map_add", kind |-> kind, file |-> f, len |-> len,
                   base |-> a.base, got |-> a.got]
  <2>1. call' = [call EXCEPT ![t] = IF a.got = 0 THEN [c EXCEPT !.op = "heap"]
                                    ELSE IF IsFile(kind) /\ a.got < len
                                    THEN [op |-> "stuck"] ELSE c]
    BY <1>4 DEF Mmap
  <2>2. a.got # 0 => ~(IsFile(kind) /\ a.got < len)
    BY FilesGetAll, LensAre
  <2>3. PICK b : b = IF a.got = 0 THEN [c EXCEPT !.op = "heap"] ELSE c
    OBVIOUS
  <2>4. "op" \in DOMAIN b /\ b.op \in Steps
    BY <2>3 DEF Steps
  <2>5. call' = [call EXCEPT ![t] = b]
    BY <2>1, <2>2, <2>3
  <2> QED BY <1>1, <2>4, <2>5
<1>5. ASSUME NEW t \in Threads, Heap(t) PROVE Calls'
  <2>1. CASE call' = [call EXCEPT ![t] = Idle]
    BY <1>1, <1>3, <2>1
  <2>2. ASSUME NEW b, NEW n,
               call' = [call EXCEPT ![t] = [call[t] EXCEPT !.op = "fb_add", !.base = b, !.got = n]]
        PROVE  Calls'
    <3>1. PICK c : c = [call[t] EXCEPT !.op = "fb_add", !.base = b, !.got = n]
      OBVIOUS
    <3>2. "op" \in DOMAIN c /\ c.op \in Steps
      BY <3>1 DEF Calls, Steps
    <3> QED BY <1>1, <2>2, <3>1, <3>2
  <2> QED BY <1>5, <2>1, <2>2 DEF Heap
<1>6. ASSUME NEW t \in Threads, FbAdd(t) \/ MapcPut(t) \/ MapAdd(t) PROVE Calls'
  <2>1. \/ call' = [call EXCEPT ![t] = Idle]
        \/ \E o \in Steps : call' = [call EXCEPT ![t].op = o]
    BY <1>6 DEF FbAdd, MapcPut, MapAdd, Steps
  <2> QED BY <1>1, <1>2, <1>3, <2>1
<1>7. ASSUME NEW t \in Threads, Undo(t) \/ Release(t) PROVE Calls'
  BY <1>1, <1>3, <1>7 DEF Undo, Release
<1>8. ASSUME NEW t \in Threads, NEW a \in DOMAIN view, NEW n \in 1 .. MaxLen,
             NEW k \in Prefixes \cup {NoFailure}, Munmap(t, a, n, k)
      PROVE  Calls'
  <2>1. \/ call' = [call EXCEPT ![t] = [op |-> "unmap", base |-> a, len |-> n]]
        \/ call' = [call EXCEPT ![t] = Idle]
    BY <1>8 DEF Munmap
  <2> QED BY <1>1, <1>3, <2>1
<1>9. ASSUME NEW f \in Files, Store(f) PROVE Calls'
  BY <1>9 DEF Store, Calls
<1> QED BY <1>4, <1>5, <1>6, <1>7, <1>8, <1>9 DEF Next

(* What it takes for mmap_fake to wait for the lock it holds is a file map *)
(* longer than a big slot: without one mmap_arena_free never meets it.     *)
THEOREM LockComesBack == FilesFitSlot => (Spec => []MmapLockFree)
<1> SUFFICES ASSUME FilesFitSlot PROVE Spec => []MmapLockFree
  OBVIOUS
<1>1. Init => Calls
  BY DEF Init, Calls, Idle
<1>2. Calls /\ UNCHANGED vars => Calls'
  BY DEF vars, Calls
<1>3. Calls => MmapLockFree
  BY DEF Calls, Steps, MmapLockFree
<1> QED BY <1>1, <1>2, <1>3, CallsNext, PTL DEF Spec
=============================================================================
