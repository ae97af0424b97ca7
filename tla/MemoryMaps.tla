----------------------------- MODULE MemoryMaps -----------------------------
(***************************************************************************)
(* mmap and munmap as source/libc_shim.c emulates them: a page bitmap over *)
(* one fixed arena, the C library's heap when the arena is full, a cache   *)
(* of read-only file maps, and a table of writable shared maps that munmap *)
(* writes back.  Each has its own lock; a step is what one thread does     *)
(* under one of them, or to memory only it has.                            *)
(*                                                                         *)
(* Abstractions.  Addresses and lengths count pages.  The arena is         *)
(* 0 .. PAGES - 1; a heap block has an address range of its own, far from  *)
(* the others.  What a page or a file's page holds is Zero, or the pair    *)
(* <<file, offset>> of the place its data belongs to.  File maps start at  *)
(* offset 0.  Left out: failing dup, and the overcommit arena, which is    *)
(* never switched on (g_overcommit is 0, oc_arena_init is not called).     *)
(***************************************************************************)
EXTENDS Integers, FiniteSetsExt

CONSTANTS
  Threads, Files,
  PAGES,                \* pages of the arena
  STEP,                 \* pages of MMAP_BIG_ALIGN, where big maps begin
  HEAP,                 \* bound: heap blocks that can exist at once
  MMAP_FALLBACK_MAX, MAPC_N, WRITABLE_FILE_MAPS,
  AnonLens,             \* lengths of anonymous maps, used in full
  OverLens,             \* lengths of anonymous reservations of which the
                        \* client keeps all but the last STEP - 1 pages
  RoLens, SharedLens,   \* lengths of read-only and of writable file maps
  Prefixes,             \* bound: pages a failing write may still write
  MaxMmaps, MaxFails    \* bounds: calls of mmap, munmaps that fail

ASSUME SizesAssumption ==
  /\ {PAGES, STEP, WRITABLE_FILE_MAPS, MMAP_FALLBACK_MAX} \subseteq Nat \ {0}
  /\ STEP > 1 /\ PAGES % STEP = 0 /\ HEAP \in Nat /\ MAPC_N \in Nat
Lengths == AnonLens \cup OverLens \cup RoLens \cup SharedLens
ASSUME LengthsAssumption ==
  /\ Lengths \subseteq Nat \ {0}
  /\ \E longest \in Lengths : \A len \in Lengths : len <= longest
  /\ Prefixes \subseteq Nat
  /\ \A len \in OverLens : len > STEP /\ len % STEP = STEP - 1

VARIABLES
  used,      \* mmap_used: arena pages reserved
  fb,        \* g_fb: the heap blocks munmap can free, [base, len]
  pinned,    \* heap blocks mapcache_put took out of g_fb
  mapc,      \* g_mapc: [file, len, base]
  wmaps,     \* g_writable_maps
  mem,       \* what each page holds
  file,      \* what each page of each file holds
  view,      \* the clients' view: what each page they hold stands for
  dirty,     \* history: pages stored to and not written back since
  orphan,    \* history: held pages whose entry in wmaps was dropped
  call,      \* what each thread is in the middle of
  mmaps,     \* calls of mmap so far
  fails      \* munmaps that failed so far

tables == <<used, fb, pinned, mapc, wmaps>>
ghosts == <<dirty, orphan>>
bounds == <<mmaps, fails>>
vars == <<tables, mem, file, view, ghosts, call, bounds>>

Run(a, n) == a .. a + n - 1
Arena == 0 .. PAGES - 1
MaxLen == Max(Lengths)
Trimmed(len) == len - (STEP - 1)
HeapBases == {j * (PAGES + MaxLen) : j \in 1 .. HEAP}
Addresses == Arena \cup UNION {Run(b, MaxLen) : b \in HeapBases}
Slots == 1 .. WRITABLE_FILE_MAPS
Offsets == 0 .. MaxLen - 1

NoMap == [base |-> 0, len |-> 0, file |-> "none", off |-> 0]
Zero == <<"none", 0>>
Idle == [op |-> "idle"]

LiveBlocks == fb \cup pinned
LiveBases == {blk.base : blk \in LiveBlocks}

(* What a mapping in progress has taken and nobody else may have; a block  *)
(* in the cache is everybody's.                                            *)
Taking(t) ==
  /\ call[t].op \in {"fb_add", "mapc_put", "map_add", "undo"}
  /\ \A blk \in pinned : blk.base # call[t].base
Taken(t) == IF Taking(t) THEN Run(call[t].base, call[t].got) ELSE {}
Leaving(t) == IF call[t].op = "unmap" THEN Run(call[t].base, call[t].len) ELSE {}

Init ==
  /\ used = {}
  /\ fb = {} /\ pinned = {} /\ mapc = {}
  /\ wmaps = [i \in Slots |-> NoMap]
  /\ mem = [p \in Addresses |-> Zero]
  /\ file = [f \in Files |-> [o \in Offsets |-> <<f, o>>]]
  /\ view = <<>>
  /\ dirty = {} /\ orphan = {}
  /\ call = [t \in Threads |-> Idle]
  /\ mmaps = 0 /\ fails = 0

-----------------------------------------------------------------------------
(* mmap_arena_alloc_locked. *)

FreeRun(a, n) == Run(a, n) \cap used = {}
BigStarts == {i \in Arena : i % STEP = 0}
Kept(len) == IF len > STEP THEN len - STEP ELSE len

Starts(len) == {i \in IF len >= STEP THEN BigStarts ELSE Arena :
                  i + len <= PAGES /\ FreeRun(i, len)}
TailStarts(len) == {i \in BigStarts : /\ len >= STEP /\ i + len > PAGES
                                      /\ PAGES - i >= Kept(len)
                                      /\ FreeRun(i, PAGES - i)}

(* Mutant: the tail slot is not checked for pages in use. *)
AllocAt_tail(len) ==
  IF Starts(len) # {} THEN [base |-> Min(Starts(len)), got |-> len]
  ELSE LET tails == {i \in BigStarts : len >= STEP /\ i + len > PAGES /\ PAGES - i >= Kept(len)}
       IN IF tails # {} THEN [base |-> Min(tails), got |-> PAGES - Min(tails)]
          ELSE [base |-> 0, got |-> 0]

(* The lowest run of free pages, a whole multiple of STEP for a big map;   *)
(* when none is long enough, a big map gets the arena's tail and only that *)
(* is reserved.  No pages: NULL.                                           *)
AllocAt(len) ==
  IF Starts(len) # {} THEN [base |-> Min(Starts(len)), got |-> len]
  ELSE IF TailStarts(len) # {}
  THEN [base |-> Min(TailStarts(len)), got |-> PAGES - Min(TailStarts(len))]
  ELSE [base |-> 0, got |-> 0]

(* A thread that met the branch at 1538 waits for the lock it holds. *)
MmapLockFree == \A t \in Threads : call[t].op # "stuck"

Lens(kind) == CASE kind = "anon" -> AnonLens [] kind = "over" -> OverLens
              [] kind = "ro" -> RoLens [] OTHER -> SharedLens
Kinds == {"anon", "over", "ro", "shared"}
IsFile(kind) == kind \in {"ro", "shared"}

(* mmap_fake up to the end of its first critical section.  A file map that *)
(* got a shortened tail slot is given back by mmap_arena_free, which takes *)
(* the lock that is held.                                                  *)
Mmap(t, kind, f, len) ==
  LET a == AllocAt(len)
      c == [op |-> "map_add", kind |-> kind, file |-> f, len |-> len,
            base |-> a.base, got |-> a.got]
  IN /\ call[t] = Idle
     /\ mmaps < MaxMmaps /\ mmaps' = mmaps + 1
     /\ MmapLockFree
     /\ IsFile(kind) <=> f # "none"
     /\ used' = used \cup Run(a.base, a.got)
     /\ call' = [call EXCEPT ![t] = IF a.got = 0 THEN [c EXCEPT !.op = "heap"]
                                    ELSE IF IsFile(kind) /\ a.got < len
                                    THEN [op |-> "stuck"] ELSE c]
     /\ UNCHANGED <<fb, pinned, mapc, wmaps, mem, file, view, ghosts, fails>>

(* The pages zeroed or read from the file, outside every lock: nobody else *)
(* has them, so the model joins this to the step that follows it.         *)
Filled(c, base, got) ==
  [p \in Addresses |-> IF p \notin Run(base, got) THEN mem[p]
                       ELSE IF IsFile(c.kind) THEN file[c.file][p - base] ELSE Zero]

-----------------------------------------------------------------------------
(* The heap, when the arena had no room. *)

(* A new block is far from every other, and from the padding of one that   *)
(* its client still has to trim.                                           *)
HeapFree ==
  {b \in HeapBases \ LiveBases :
     /\ \A t \in Threads : b \notin Taken(t)
     /\ Run(b, MaxLen) \cap DOMAIN view = {}}

(* mapcache_get: the same read-only file was mapped before. *)
Cached(c) == {m \in mapc : c.kind = "ro" /\ m.file = c.file /\ m.len = c.len}

(* What the client believes after a mapping of len pages at base. *)
Stands(c, base, p) ==
  [kind |-> IF c.kind = "over" /\ p - base >= Trimmed(c.len) THEN "pad" ELSE c.kind,
   file |-> c.file, base |-> base]
Hold(c, base) ==
  view' = [p \in DOMAIN view \cup Run(base, c.len) |->
             IF p \in Run(base, c.len) THEN Stands(c, base, p) ELSE view[p]]

(* mapcache_get, then mmap_fallback up to its table: memalign and filling. *)
(* The pages an over-mapping client will trim are not allocated.           *)
Heap(t) ==
  LET c == call[t]
      len == IF c.kind = "over" THEN Trimmed(c.len) ELSE c.len
  IN /\ c.op = "heap"
     /\ IF Cached(c) # {}
        THEN /\ \E m \in Cached(c) : Hold(c, m.base)
             /\ call' = [call EXCEPT ![t] = Idle]
             /\ UNCHANGED mem
        ELSE IF HeapFree = {}
        THEN call' = [call EXCEPT ![t] = Idle] /\ UNCHANGED <<mem, view>>
        ELSE /\ LET b == Min(HeapFree) IN
                  /\ mem' = Filled(c, b, len)
                  /\ call' = [call EXCEPT ![t] = [c EXCEPT !.op = "fb_add", !.base = b, !.got = len]]
             /\ UNCHANGED view
     /\ UNCHANGED <<tables, file, ghosts, bounds>>

(* The table of heap blocks; when it is full the block is freed again. *)
FbAdd(t) ==
  LET c == call[t]
  IN /\ c.op = "fb_add"
     /\ IF Cardinality(fb) >= MMAP_FALLBACK_MAX
        THEN call' = [call EXCEPT ![t] = Idle] /\ UNCHANGED fb
        ELSE /\ fb' = fb \cup {[base |-> c.base, len |-> c.got]}
             /\ call' = [call EXCEPT ![t].op = IF c.kind = "ro" THEN "mapc_put" ELSE "map_add"]
     /\ UNCHANGED <<used, pinned, mapc, wmaps, mem, file, view, ghosts, bounds>>

(* mapcache_put: the block leaves g_fb for ever, and is remembered if the  *)
(* cache has room.                                                         *)
MapcPut(t) ==
  LET c == call[t]
      blk == [base |-> c.base, len |-> c.got]
  IN /\ c.op = "mapc_put"
     /\ fb' = fb \ {blk}
     /\ pinned' = pinned \cup {blk}
     /\ mapc' = IF Cardinality(mapc) < MAPC_N
                THEN mapc \cup {[file |-> c.file, len |-> c.len, base |-> c.base]} ELSE mapc
     /\ call' = [call EXCEPT ![t].op = "map_add"]
     /\ UNCHANGED <<used, wmaps, mem, file, view, ghosts, bounds>>

-----------------------------------------------------------------------------
(* The writable maps. *)

FreeSlots == {i \in Slots : wmaps[i] = NoMap}

(* writable_map_add, and with it the return of mmap.  Without a free slot  *)
(* the memory goes back.                                                   *)
MapAdd(t) ==
  LET c == call[t]
      needed == c.kind = "shared"
  IN /\ c.op = "map_add"
     /\ IF needed /\ FreeSlots = {}
        THEN call' = [call EXCEPT ![t].op = "undo"] /\ UNCHANGED <<wmaps, view>>
        ELSE /\ wmaps' = IF ~needed THEN wmaps
                         ELSE [wmaps EXCEPT ![Min(FreeSlots)] =
                                 [base |-> c.base, len |-> c.got, file |-> c.file, off |-> 0]]
             /\ Hold(c, c.base)
             /\ call' = [call EXCEPT ![t] = Idle]
     /\ mem' = IF c.base \in Arena THEN Filled(c, c.base, c.got) ELSE mem
     /\ UNCHANGED <<used, fb, pinned, mapc, file, ghosts, bounds>>

(* mmap_fallback_free or mmap_arena_free of a mapping that failed. *)
Undo(t) ==
  LET c == call[t]
  IN /\ c.op = "undo"
     /\ MmapLockFree
     /\ fb' = {blk \in fb : blk.base # c.base}
     /\ used' = used \ Run(c.base, c.got)
     /\ call' = [call EXCEPT ![t] = Idle]
     /\ UNCHANGED <<pinned, mapc, wmaps, mem, file, view, ghosts, bounds>>

(* The place in a file that a held page stands for. *)
PlaceIn(v, p) == <<v[p].file, p - v[p].base>>

(* The clients store their own data in every page they share with f. *)
Store(f) ==
  LET pages == {p \in DOMAIN view : /\ view[p].kind = "shared" /\ view[p].file = f
                                    /\ \A t \in Threads : p \notin Leaving(t)}
  IN /\ pages # {}
     /\ mem' = [p \in Addresses |-> IF p \in pages THEN <<f, p - view[p].base>> ELSE mem[p]]
     /\ dirty' = dirty \cup pages
     /\ UNCHANGED <<tables, file, view, orphan, call, bounds>>

Pages(m) == Run(m.base, m.len)

(* Mutant: the offset does not follow when the head is cut off. *)
Head_off(m, end) == [m EXCEPT !.base = end, !.len = m.base + m.len - end]

(* What is left of m behind end. *)
Behind(m, end) ==
  [m EXCEPT !.base = end, !.len = m.base + m.len - end, !.off = @ + end - m.base]

(* Mutant: the part behind the hole is forgotten. *)
Cut_middle(a, n) ==
  LET end == a + n
  IN [i \in Slots |->
        LET m == wmaps[i] IN
        IF Pages(m) \cap Run(a, n) = {} THEN m
        ELSE IF Pages(m) \subseteq Run(a, n) THEN NoMap
        ELSE IF a <= m.base THEN Behind(m, end)
        ELSE [m EXCEPT !.len = a - m.base]]

(* The entries that the hole splits, and those for which there is no slot. *)
Split(a, n) == {i \in Slots : wmaps[i].base < a /\ a + n < wmaps[i].base + wmaps[i].len}
Unsplit(a, n) == {i \in Split(a, n) : FreeSlots = {}}

(* The table after munmap of n pages at a: an entry is dropped, loses its  *)
(* head or its tail, or is split; a split without a free slot drops it.    *)
Cut(a, n) ==
  LET end == a + n
      split == Split(a, n)
  IN [i \in Slots |->
        LET m == wmaps[i] IN
        IF i \in Unsplit(a, n) \/ (m # NoMap /\ Pages(m) \subseteq Run(a, n)) THEN NoMap
        ELSE IF split # {} /\ i \in FreeSlots /\ i = Min(FreeSlots)
        THEN Behind(wmaps[Min(split)], end)
        ELSE IF Pages(m) \cap Run(a, n) = {} THEN m
        ELSE IF a <= m.base THEN Behind(m, end)
        ELSE [m EXCEPT !.len = a - m.base]]

(* Where a table of writable maps would write page p. *)
Covers(maps, p) == \E i \in Slots : p \in Pages(maps[i])
PlaceOf(p) == LET i == CHOOSE i \in Slots : p \in Pages(wmaps[i])
              IN <<wmaps[i].file, wmaps[i].off + p - wmaps[i].base>>

(* What clients unmap: any part of a shared map in the arena, of others    *)
(* all, or all but the padding, or the padding.  (Given a part that starts *)
(* with a heap block, mmap_fallback_free would free all of it.)            *)
BlockAt(p) == {blk \in LiveBlocks : p \in Pages(blk)}
MayUnmap(a, n) ==
  LET same == {p \in DOMAIN view : view[p] = view[a]}
  IN /\ IF view[a].kind = "shared" /\ a \in Arena
        THEN Run(a, n) \subseteq same ELSE Run(a, n) = same
  /\ \A t \in Threads : Run(a, n) \cap Leaving(t) = {}

NoFailure == -1

(* munmap_fake's first half, writable_map_flush: every entry in the range  *)
(* is written to its file, all of it or (with a failing card) up to the    *)
(* first k pages, and then cut out of the table even if writing failed.    *)
(* On failure munmap returns -1 and the client keeps the pages.            *)
Munmap(t, a, n, k) ==
  LET ok == k = NoFailure
      span == {p \in Run(a, n) : Covers(wmaps, p)}
      written == IF ok THEN span ELSE {p \in span : p < a + k}
      stay == DOMAIN view \ (IF ok THEN Run(a, n) ELSE {})
  IN /\ call[t] = Idle
     /\ MayUnmap(a, n)
     /\ ok \/ (span # {} /\ k <= n /\ fails < MaxFails)
     /\ fails' = IF ok THEN fails ELSE fails + 1
     /\ file' = [f \in Files |-> [o \in Offsets |->
                   LET p == {q \in written : PlaceOf(q) = <<f, o>>}
                   IN IF p = {} THEN file[f][o] ELSE mem[Max(p)]]]
     /\ wmaps' = Cut(a, n)
     /\ dirty' = dirty \ written
     /\ orphan' = orphan \cup (stay \cap (span \cup UNION {Pages(wmaps[i]) : i \in Unsplit(a, n)}))
     /\ call' = [call EXCEPT ![t] = IF ok THEN [op |-> "unmap", base |-> a, len |-> n] ELSE Idle]
     /\ UNCHANGED <<used, fb, pinned, mapc, mem, view, mmaps>>

(* The second half: the heap block that starts there, or those pages of    *)
(* the arena (an address outside it is ignored).  What free pages hold is  *)
(* not kept: nobody reads it.                                        *)
Release(t) ==
  LET c == call[t]
      gone == Run(c.base, c.len)
      blk == {x \in fb : x.base = c.base}
  IN /\ c.op = "unmap"
     /\ fb' = fb \ blk
     /\ IF blk # {} THEN UNCHANGED used ELSE MmapLockFree /\ used' = used \ gone
     /\ view' = [p \in DOMAIN view \ gone |-> view[p]]
     /\ mem' = [p \in Addresses |-> IF p \in gone THEN Zero ELSE mem[p]]
     /\ dirty' = dirty \ (orphan \cap gone)
     /\ orphan' = orphan \ gone
     /\ call' = [call EXCEPT ![t] = Idle]
     /\ UNCHANGED <<pinned, mapc, wmaps, file, bounds>>

-----------------------------------------------------------------------------
Next ==
  \/ \E t \in Threads :
       \/ \E kind \in Kinds, f \in Files \cup {"none"} :
            \E len \in Lens(kind) : Mmap(t, kind, f, len)
       \/ Heap(t) \/ FbAdd(t) \/ MapcPut(t) \/ MapAdd(t) \/ Undo(t)
       \/ \E a \in DOMAIN view, n \in 1 .. MaxLen, k \in Prefixes \cup {NoFailure} :
            Munmap(t, a, n, k)
       \/ Release(t)
  \/ \E f \in Files : Store(f)

Spec == Init /\ [][Next]_vars

-----------------------------------------------------------------------------
(* Properties. *)

(* Memory is never given twice: what a mapping in progress has taken is    *)
(* held by nobody and taken by no other, and exactly the pages held or     *)
(* being taken are reserved, so none leaks either.  A page the client uses *)
(* outside the arena lies in a live heap block.                            *)
Taker(t) == Taken(t) \cap Arena
ReservedOnce ==
  /\ \A t \in Threads : /\ Taken(t) \cap DOMAIN view = {}
                        /\ \A u \in Threads \ {t} : Taken(t) \cap Taken(u) = {}
  /\ used = (DOMAIN view \cap Arena) \cup UNION {Taker(t) : t \in Threads}
  /\ \A p \in DOMAIN view \ Arena : view[p].kind # "pad" => BlockAt(p) # {}

(* A file's page only ever receives data that belongs there, and a shared  *)
(* page in use holds its own data: trims, splits and the reuse of pages by *)
(* other threads never mix two maps up.                                    *)
DataInPlace ==
  /\ \A f \in Files, o \in Offsets : file[f][o] = <<f, o>>
  /\ \A p \in DOMAIN view : view[p].kind = "shared" =>
       \/ mem[p] = PlaceIn(view, p)
       \/ \E t \in Threads : p \in Leaving(t)

(* Whatever a client stored in a shared page and the file does not have    *)
(* yet, an entry of the table still covers, at the right place of the      *)
(* right file: a later munmap will write it, and a munmap that reported    *)
(* success has.  Excepted are the pages of entries that were dropped after *)
(* a failed write or a split without a slot.                               *)
UnsavedIsTracked ==
  \A p \in dirty \ orphan :
    /\ p \in DOMAIN view
    /\ Covers(wmaps, p)
    /\ PlaceOf(p) = PlaceIn(view, p)
=============================================================================
