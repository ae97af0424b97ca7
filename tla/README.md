# A verification project for revolt_nx

revolt_nx runs the Android build of RVGL on the Nintendo Switch: it loads the
game's ELF libraries, resolves their imports against its own functions, and
provides in C what Android provided (OpenSL ES, bionic's pthreads, files,
memory maps, sockets, input). The functions are called by several threads of a
binary nobody here can change, so what they promise matters more than how they
are used today. This directory models that layer in TLA+, checks it with TLC
and proves the most important parts with TLAPS.

Sources are named relative to `src/source/`.

## 1. Inventory

| Component | State | Operations | Interacts with | What makes it correct |
|---|---|---|---|---|
| Player (`opensles.c`) | ring `q`, `q_head`, `q_tail`; cursor `cur`, `cur_size`, `cur_fpos`; `playing`, `drained`, callback | Enqueue, Clear, GetState, RegisterCallback, SetPlayState; `mix_player` on the audio thread | client threads and SDL's audio thread share the player; `p->lock` covers only part of it | buffers played in order, each handed back once; reads inside a buffer; no sample lost at a seam |
| Player table (`opensles.c`) | `g_players`, `g_player_count`, `g_reg_lock` | create (with reclaim), destroy, the walk of the audio callback | client threads, audio thread | no use after free, no double free, no leak |
| Asset pack, building (`asset_pack.c`, `main.c`) | four files on the card, the open pack, its RAM copy | open, build, verify, install | the SD card, power cuts, `rv_ramcache.c` | never accept a bad pair, never lose a good one, always recover |
| Pack handles (`asset_pack.c`) | virtual descriptors, positions, directory iterators | open, read, lseek, close, stat, readdir | `libc_shim.c` routes by descriptor | a descriptor names one file from open to close |
| RAM budget (`rv_ramcache.c`) | bytes left | take, give | the pack | all or nothing; always balanced |
| Event queue (`rv_events.c`) | ring of events, pacing flags, key overlay | queue key, text, finger; poll; keyboard state | text entry, cursor, the game's loop | order, no stuck key, no starvation |
| Text entry (`rv_input.c`) | tracked text, flags, cooldown | start, stop, applet, observe | event queue, the applet | the field becomes what the applet returned |
| Profiles and mappings (`rv_input.c`) | tracked profile files, mapping table | rewrite on fopen/fclose/rename, parse | files | a profile is never half written |
| Cursor (`rv_cursor.c`, `nx_pointer.c`) | visible, chord, tap, pad in use | update, swallow, getters | event queue, SDL's pads | touches in order, released when hidden |
| Pthreads (`imports_helpers.c`) | tables of real mutexes and condition variables, words of the game's objects | every pthread_mutex_*, pthread_cond_* | every thread of the game | one real object per object of the game |
| Keys, once, threads (`imports_helpers.c`) | key table, per-thread values | create, delete, get, set, once, create, join | every thread of the game | values belong to their key; initialisers run once, before use |
| Memory maps (`libc_shim.c`) | page bitmap, fallback table, map cache, writable maps | mmap, munmap, msync, mprotect, madvise | files, newlib's heap | mappings are disjoint and backed; flushed data reaches its file |
| Files (`libc_shim.c`) | descriptor tables | open, read, lseek, stat, fopen ... | pack handles, sockets, pipes | each call goes to the layer that made the descriptor |
| Semaphores, rwlocks, futexes (`libc_shim.c`) | tables, futex buckets | wait, post, lock | every thread | no lost wake-up |
| Pipes (`fakefd.c`) | 32 descriptors, 4 KiB rings with reference counts | pipe, read, write, close, wait | the looper, `rv_net.c` | no byte lost; readers see the end |
| Sockets (`rv_net.c`) | tracked descriptors, blocking modes | the BSD calls, poll and select in slices | libnx's sockets, pipes | readiness is never missed |
| Path index (`rv_index.c`) | name table | lookups, notes | not wired to any import | - |
| Loader (`so_util.c`, `main.c`) | `so_list`; per module a copy of its file, an image, its tables, its import slots | load, relocate, resolve, finalize, flush, init, free; dlsym | import tables, the engine | reads only what is mapped; what is called has been initialised |
| Paths and assets (`rv_paths.c`, `rv_assets.c`) | `g_paths`, the scan, `assetcache.bin` | resolve, prepare, scan | the SD card, the user, power cuts | the folder that has the game; a scan that is true |
| Start-up, console (`main.c`, `error.c`, `pps_stdout.c`) | the console, stdout, `g_to_console` | main's phases, refusal, fatal errors | everything | order of the phases; no print to a console that is gone |
| Import tables (`imports.c`) | constant | - | loader | - |
| The rest | - | conversions, logging, stubs | - | - |

**What is hard here.** The audio thread and the client share a player whose lock
covers only part of it. Creating a player may free another. A power cut may
come at any step of installing the pack, and on Horizon a rename does not
replace its target. Events reach the game over many frames while the player
keeps typing. The game's mutexes are made real by whichever thread touches them
first. PROJECT.json lists the hazards line by line, with the properties that
would catch each.

## 2. Plan

1. `BufferQueue` with `BufferPromise` (done, proved), `PlayerRegistry` (done, proved).
2. `PackBuild` (done, proved).
3. `TextEntry`, `Cursor` (done, proved): both use the event queue.
4. `Pthreads` (done, proved).
5. `Descriptors` with `FileApi` (done, proved): descriptor numbers and the tables beside
   them.
6. `MemoryMaps` (done, proved): the arena, the heap, the map cache and the writable maps.
7. `ThreadKeys` (done, proved): keys, destructors and once.
8. `NetPoll` (done, proved): waiting in slices. `NetSockets` (done, proved): modes,
   errors and addresses across two sets of numbers.
9. `Loader` (done, proved): the phases of `LoadModule`.
10. `InstallPaths`, `AssetScan`, `Startup` (done, proved): where the game
    is, what of it is there, and the boots that find out.
11. Next: timed waits in `Pthreads`; semaphores, rwlocks and futexes; a composition
    of `MemoryMaps` with the descriptor its file was mapped from (who moves the
    position they share); the rewriting of profiles.
12. Proofs next: every safety property of the runs that pass is a theorem, so only the
    invariants of what 11 adds.

## 3. Modules

Every module says in its head which source it models and what it leaves out.
Names of variables and actions follow the code. `MC_X` supplies small values for
`X`, or puts two or three modules side by side (`MC_Boot`, `MC_Input`, `MC_Net`,
`MC_Threads`); the `.cfg` files name the run. A definition whose name
ends in a word after an underscore and whose comment begins with "Mutant" is
the definition below it with a plausible bug; nothing uses it, it shows that
the properties notice that bug.

- **BufferQueue** - one player. Every access of `mix_player` that another thread
  can come between is an action: the dequeue (`Fetch`), the two stores after the
  unlock (`StoreCur`, `StoreSize`), the bounds test (`TestInside`), the load and
  the store of `cur_fpos -=` (`Consume`, `LetGo`) and of `cur_fpos +=` (`Read`,
  `Advance`), the callback. A buffer is its number; sizes and the ratio are
  integers, so the carried remainder is exact.
- **BufferPromise** - what a buffer queue promises, without ring or mixer: a
  bounded FIFO, one buffer at a time, each handed back at most once, and Clear,
  which may leave the buffer in play to be dropped or returned. `BufferQueue`
  implements it under the mapping at its end (`KeepsPromise`).
- **PlayerRegistry** - the table, the lock and the memory of players. Addresses
  come back after `free`, so a stale pointer can meet a new player. `pending`
  abstracts the ring of `BufferQueue` to a number.
- **PackBuild** - the four files, `main` and `asset_pack_build` step by step. A
  file is what `load_pair` and `verify_pack_data` can tell about it. `Unlink`
  may fail silently (its result is ignored in the code). `RenameReplaces` is
  FALSE for Horizon.
- **TextEntry** - the keyboard session, the queue, pacing, the tracked copy, and
  the game's field as `rv_input.c` describes it.
- **Cursor** - the pointer, its pads, and the same queue seen from its side. It is a
  swap that looks at the pads, so a button pressed and let go of between two is not felt,
  and without a pad nothing changes: `TapsArrive` is about what the pads show in swaps.
- **Pthreads** - one mutex and one condition variable of the game, backed by
  objects of two tables. `load`, `reserve` and `publish` are the steps of
  `mutex_of` and `cond_of`.
- **ThreadKeys** - `pthread_once`, the key table, the block of values each thread
  has, and `master_key_dtor` slot by slot, without the lock, as the code runs it:
  the test of a slot (`Look`) and the call of its destructor (`Destructor`) are two
  steps, and a key deleted between them may have NULL called (`DestructorGone`, after
  which nothing happens any more). A key may be deleted with values set in it;
  `current` is what a thread set under the key a slot has now, `left` what it had set
  there under keys deleted since.
- **NetPoll** - one call of poll or select: the slice it is cut into, what the
  kernel is asked, what the port sleeps itself. `Empty` lets libnx come back from
  a wait whenever it likes. `age` is how long a wanted event has been there.
- **NetSockets** - two sockets and their conversions. A flag or an address is a pair
  of the side it belongs to (bionic or libnx) and its meaning, so that one passed on
  unconverted shows. Errors are the plain numbers of newlib and bionic, since one that
  `TranslateErrno` passes on means there what that number means. `believes` is what the
  engine makes of errno and `SO_ERROR`; `failure` remembers why a connection failed.
- **Loader** - `so_list`, and for the module being loaded the phase it is in: where
  its pages are, where its symbol table is looked for, what its imports are bound
  to. Exports and shims are any sets.
- **InstallPaths** - `rv_paths.c`: a card is a set of paths; which folder the NRO
  takes for its base, its libraries and its data, and what it makes.
- **AssetScan** - the probes, the fingerprint, the cache file (none, torn, whole).
- **Startup** - boots and power cuts with a user who copies, deletes and renames
  in between; who has the console and where stdout leads. A change dates the
  directories it changes with a time of its own (`now`); `cache` has one
  `assetcache.bin` for each base. The pack and the modules are steps that change nothing there.
- **Descriptors** - the kernel's numbers and five tables that also go by them:
  pack handles, read-ahead slots, sinks, inodes, streams over packed files. A
  call is as many steps as it takes locks; `call` says where each thread is. A
  byte is the pair of its file and offset, so a byte from the wrong place shows.
  The inode table keeps what `open` put there when a stream made by `fdopen` is closed.
- **FileApi** - what a descriptor promises: one file, one position, reads that
  come back short only at the end. `Descriptors` implements it (`ReadsAsFiles`).
- **MemoryMaps** - pages of the arena and of heap blocks, and who holds them.
  `Mmap` is the search of the bitmap, `Heap`, `FbAdd` and `MapcPut` the way over
  the heap, `MapAdd` the table of writable maps, `Munmap` and `Release` the two
  halves of munmap. What a page holds is the place in a file it belongs to.

## 4. Runs

| Run | Question | Bounds, and why they are enough |
|---|---|---|
| `queue` | seams, counts, every buffer back, and refinement, for a client that feeds and one that also stops and clears | 3 slots (2 usable): full, wrapped and empty all occur; sizes of 0, 1 and 2 frames at a ratio of 1.5 make the cursor overrun by a part, a whole and more than a buffer; 5 buffers wrap the ring twice; 2 frames per callback so that a buffer spans callbacks |
| `queue_clearread` | does the clamp keep reads inside when Clear races? | violated, see 7 |
| `registry_feed` | ownership of players | 2 slots, 4 addresses (two more than slots, so that both clients can be creating on a full table), 2 clients; SPENT is 1 instead of 40; symmetric in addresses and clients |
| `registry_starve` | is a reclaimed player always finished? | violated, see 7 |
| `boot` | three parts of a boot, each on its own (`part` in `MC_Boot`): the pack under crashes and errors; the loader; paths, scan and console | pack: 3 builds and 3 stops (installed, replaced, and replaced after a failure), a budget for one copy; loader: 3 modules and 2 symbols with every assignment of exports and shims, so each import can be given by a shim, by either module before or by none; start: every layout of `SmallCard`, 2 changes by the user (a scan, a change, a scan, a change back) and 1 fault; `Ages = 1`: all that is on the first card has one date, so only a change tells directories apart |
| `start_stale` | is a scan always what is on the card? | violated, see 7 |
| `input` | the replacement of the field; touches in order behind paced keys | text: 2 sessions, 4-byte text buffers, a field limit of 3 (the longest text), 2 characters per event; the queue of 10 is what 2 * 4 + 2 needs, tight as the real 512 is not (2 * 64 + 3). Pointer: 2 pads, a replacement of 1 key, a queue of 5: a frame can add two touches while a key waits, and each key is a press and a release, so 4 * keys + 1 are enough (`SwapsFit` in `Input_proofs`): 257 of 512 for the 64 there are |
| `text_reopen` | two replacements at once | violated, see 7 |
| `threads` | the race to back an object, a full table, waits; keys and threads that come and go | 2 threads, 2 objects per table (destroying and backing again fills it), depth 2; 2 keys and 2 values: a key can be deleted with a value in it and its slot reused while the other is set, a value meet two ends; 2 rounds of destructors where the code has 4, so that there is a second and a last |
| `net` | is an event noticed and does a call end in time? do conversions mislead the engine? | slices of 1 and 4 as in the code's ratio of 5 to 20 ms, idle after 6; timeouts for ever, none, less than a slice, and one that ends inside an idle slice; 2 descriptors; 2 peers, one datagram waiting; connections fail with a number that is the same on both sides (111), with one of newlib's that is translated and one that is passed on and not bionic's (114, 125), and with ENETDOWN |
| `descriptors` | do the tables follow the numbers, and is a descriptor one file and one position? | 2 threads, 2 numbers (each is reused by the other thread at once), every table with one entry, so each is empty or full; 2 large files for one read-ahead slot; a file of 2 pages, a cache of 2 bytes and reads of 1 and 2 take the cached and the direct way |
| `memory_maps` | is memory given once, and does data stay with its file? | 2 threads, 3 maps, an arena of one big slot of 4 pages; a file of 3 pages can lose head, tail or middle; a reservation of 7 pages gets the shortened tail slot; 2 writable maps (one split fills the table), 2 heap blocks of which munmap can free 1, one failing write |

Deadlock is checked everywhere except in `boot` and `start_stale`, where the
card need not change any more and boots just end, and in `memory_maps`, where the
clients stop after their last map. Parts that share no state are checked in one
run, side by side and never interleaved: `part` is chosen in the initial state.

## 5. Fairness

- `BufferQueue`: `WF(Mix)`: SDL calls the audio callback while the device is
  open and a callback runs to its end. Nothing makes the client act.
- `PackBuild`, `Startup`: `WF(Boot)`, `WF(Main)`: `main` runs straight through. `Heals` is
  about boots after which nothing fails (`healthy`), and `Starts` about a boot
  after the last fault, so no fairness on failures is needed; nobody has to turn
  the console on or press a button.
- `TextEntry`, `Cursor`: the game polls until there is nothing left, reads the
  keyboard and swaps; time passes. A drain is not assumed to end: real events
  may come for ever (`rv_events.c:27-34` says a resting stick does that).
- `Pthreads`: threads run, the cap on waits passes, and a mutex that is free
  again and again lets a waiter in (`SF`). The game is not assumed to unlock:
  `WaitsReturn` says so in its premise.
- `NetPoll`: the port runs and time passes. Nothing has to arrive: `WaitEnds` is
  about calls with a timeout and about events that have happened.
- `NetSockets`, `ThreadKeys`, `Loader`, `Descriptors`, `MemoryMaps`,
  `PlayerRegistry`: safety only.

## 6. Proofs

Each proof module extends the modules it is about, and proves its theorems for
every value of their constants under their named assumptions.

**BufferQueue_proofs** proves both safety properties of a player and that it
implements `BufferPromise` (`PromiseKept`), for any ring, sizes, ratio and script
of a client. `QueueInv` says that the ring holds exactly the buffers accepted last,
in order (`WaitInv`), what the mixer has in hand at each of its steps, and which
buffer the callback is owed for (`CursorInv`); while no client clears, that the
sample position carried over a seam is the one read next (`StraightInv`, which
`NoSlip` needs and which Clear breaks: see 7). The indices go round by `%`, which
the provers know little of: `ModWrap` takes it away once, and `PutIn` and `TakenOut`
say what the two ends of the ring do to the buffers waiting in it. For the
refinement, the abstract queue is a window of the numbers of buffers (`WindowIs`),
and every step of the ring or of the mixer is shown to move the window as one
step of the promise does, or to leave it.

**PlayerRegistry_proofs** proves all four invariants of the run under `Feeds`, and
that no player is freed twice (clients keep the players they use fed and stop them
before Destroy, which is what `registry_starve` shows to be needed). The properties are not inductive: that
the mixer uses only live players needs who may free an address at all. The
invariant `IInv` says, for each client, what its program counter makes it the
owner of (an address allocated and not registered while creating, unregistered
while destroying), that owners are disjoint, that slots hold live and distinct
players, and what the lock protects while the mixer is inside. One lemma per
action shows that it is kept.

**Boot_proofs** proves both properties of the loader for any list of different
modules, any exports and any shims. `LInv` says of the module being loaded what
each phase has established (the copy of its file is there; its pages and its
tables are both at `load_base`, or both at `load_virtbase`, and apart only inside
`so_finalize`; its imports are bound), and of those before it that they are mapped,
initialised and bound (`Done`). It is needed because `ImportsCallable` speaks of
a binding made several phases before the module it leads to is called. That an
import goes to the first giver rests on a least element of a set of numbers
(`LeastExists`), since `CHOOSE` picks it. Of `Startup` it proves `PrintsLand`, for any
card, user and failures: `ConsoleInv` adds that by the time the engine runs stdout
leads to the log, since nothing else keeps it from a console that `main` has let
go. It also proves `CoveredIsCurrent`, for any cards, probes and lists and any number of
changes and boots (`CachedIsRight`). The property is not inductive, since a stored
answer may be used many changes later, for another directory than it was taken from:
a renamed folder keeps its dates, so one folder can come to be where another was.
`ScanInv` says that every path of the card is in a directory that exists, that no
date is later than `now`, that tracked directories of one name, depth and date have
the same probed entries (`Alike`), and that a stored answer is true of every directory that
the fingerprint would take for the one it is about (`FileOK`); each change to the card
is shown to keep both (`ChangeAlike`, `ChangeFile`), because it gives what it changes a date
no directory had before. `StartAssumption` names what this
rests on. Folders are renamed where they are, and neither from nor to a name the
fingerprint lists: a `cars` put in place of another keeps a date that may be the
stored one's. On the first card directories of one name and date are alike, as copies from one
archive are. What `rv_paths_prepare` makes in one go carries one date: of one depth and
one listed name it makes at most one directory (in the code, of what it makes only `packs`
is listed, and `lib` is not). The runs evaluate these assumptions. Of `PackBuild` it proves the four safety properties. `PInv` says for every step of
a build what is known of the temporary files (complete, verified, on the card), and that
an installed pair of one build is good. `KeepsOldUntilVerified` is an action property
from the same invariant: the only steps that can break an installed pair come after
`VerifyData`.

**Threads_proofs** proves the safety properties of `Pthreads` and `ThreadKeys`, for
any number of threads, objects, keys and values. `HoldersOwn` is that the game's
mutex excludes: with it, no two threads hold it at once (`OneInside`). It needs
what a thread that is backing an object may assume of it between `load` and
`publish`, while others do the same: `WordInv` says that an object once published
stays, `HoldInv` that the real mutex and the game agree on who is inside and how
deep, `ThreadInv` what a thread has read and whether the object it took is its own
still (`OwnInv`), and when it names the published one, from which `AllAgree` follows.
For keys, `BlocksInv` says that a thread's block is the one its game values are in
as long as it is allocated, and `ValuesInv` that a value sits in one block at most,
in the slot it was set in, or is in the hands of one ending thread, and has left the
block when it has been destroyed; without that the destructors of two rounds, or of two
keys of one slot, could meet the same value.

**Net_proofs** proves the safety properties of a call of poll or select and those
of sockets. A call: for any descriptors, any
slices of which the active one is not longer than the idle one, and any timeouts
with a longest. Neither property is inductive: that a call ends in time needs what is
left of its timeout, which no longer agrees with the clock once libnx comes back
early. `PollInv` says that time gone and time left together never exceed the
timeout by more than what is spent of the slice, that a slice fits in what is
left, and that `age` grows only in slices the port sleeps, since the kernel
reports a wanted event as soon as it is asked (`WantedIsReported`). Sockets: for any
sockets and peers, and any errors of the host with which a connection may fail
(`FailuresAssumption`: numbers other than 0 and EINPROGRESS), translated or not.
`ConnectionsTold` excepts ENETDOWN, the one number that reads as bionic's EINPROGRESS
(`ErrorsRead` in `Net_proofs` shows that there is no other). `SocketsInv` says of each socket that the kernel's mode is the one asked
for and that an error is waiting only while the engine believes the connection
pending (`Agrees`), and that what is in an inbox names who sent it.

**Maps_proofs** proves the three safety properties of `MemoryMaps`, for any
threads, files, tables, arena and lengths, as long as no map that is used in full is
longer than a big slot (`FitsSlot`: a longer file map can block for ever, see 7, and a
longer anonymous one is given less than it asked for at the arena's end, which only
a client that trims it anyway can live with). None of the three is inductive.
`ApartInv` says that what a mapping in progress has taken is nobody else's, and that
its heap block is clear of everything held; `BlocksInv` and `ViewInv`, in which block
every page in use lies, and that the blocks of the cache are never ones that munmap
can free; `UniformInv`, that the pages of a block munmap can free all stand for one map,
so that it is freed only when all of them go; `WMapsInv`, that the entries of the table
are disjoint and give each page its place; `SavedInv`, that every shared page is covered,
written off (`orphan`) or being unmapped. The arithmetic is in lemmas of its own: that
the tail of the arena holds what a trimming client keeps (`TailHoldsKept`, where the
lengths modulo a slot matter), that heap blocks are out of each other's reach
(`HeapApart`), and what munmap leaves of the table (`CutParts`, `CutApart`,
`CutCovers`, for a head, a tail, a hole and a hole without a slot for the rest).
`LockComesBack` is about the lock of the arena: without a file map longer than a big
slot (`FilesFitSlot`, less than `FitsSlot` asks) no thread gets stuck on the lock it
holds, since each file map then gets all of its pages or none (`FilesGetAll`).

**Input_proofs** proves the three safety properties of `TextEntry` and the one of
`Cursor`, each of its own module and of both side by side, as `input` checks them
(`InputSafe`). Text entry: for any sizes such that a replacement fits in the queue and
is delivered before the next is queued (`OneFits`: 2 * 64 + 3 of 512 in the code; what
happens otherwise is `text_reopen`). That the field ends up right depends on every
event before: `Shape` says that what is in the queue is the rest of one replacement, so many
keys and so many texts; `Replacing`, that the keys left are enough for what is in the
field and for what is tracked of it, whatever was typed between them; `HandOver` shows
that handing an event over keeps both. `PressHeld` is an action property of a small
invariant (`SeenInv`) and holds for any sizes. The pointer: for any pads and any number
of keys with `4 * Burst < CursorQueue` (`SwapsFit`). `Behind` says that touches are behind
all keys and each is in its place after the one before; `Room`, that a drain hands over at
least one of the keys ahead while a swap adds two touches at most, so that the queue
never fills and `Enqueue` drops none of them, which `FingersInOrder` depends on.

**Descriptors_proofs** proves `NumbersInStep` and the refinement for any threads, files, tables and
numbers, as long as the game calls fdopen only on descriptors without a read-ahead cache
or a sink entry (`~FdopenAny`, see 7: with it the property is false). That a number has
one owner at a time is not inductive: a close gives up the entry, the descriptor and the
number in three steps, and others open between them. `DescInv` says of each number
(`Number`) that it is free and in no table, or has one owner (`OwnedBy`: the game, a
stream or a call) and stands for what that owner was opened with; of each call in
progress what it may still assume (`CallAt`: a handle not learnt yet, a number no table
knows any more); and of each entry of a table which number it is for (`TablesAt`). A step
changes what is said of one number only (`OneStep`, `Elsewhere`), so each action has one
lemma about that number and none about the rest.

`FilesAsPromised` shows that `Descriptors` implements `FileApi`. What the game sees is
`Table`, a file and a position for each descriptor, and `Reads`. The position is kept
where the descriptor is served: by its pack handle, its read-ahead slot or the kernel's
descriptor (`Positions`: there is one such place, `PosIs`), and a read that has started
goes by the place it found then, which is still the same one (`Served`). Every step of an
open or a close either leaves what the game sees alone, or shows it one descriptor more
at position 0, or one less that nobody is reading (`Effect`), however many steps the
call takes. A step of a read hands over the bytes at the position, wherever they come
from (`Hands`): that a cached page holds bytes of this file and at this offset is
`Holding`, part of `DescInv`.

Model-checked only: everything temporal (`BuffersComeBack`, `Heals`, `Starts`,
`QueueDrains`, `TapsArrive`, `WaitsReturn`, `WaitEnds`), which needs fairness and is
beyond the prover. Every invariant and action property of the runs that pass is also a
theorem.

## 7. Disagreements met on the way

- `bq_Clear` takes `p->lock`, the mixer reads `cur`, `cur_size` and `cur_fpos`
  without it: a Clear between the bounds test and the read makes the mixer read
  with no buffer at hand (`queue_clearread`; `opensles.c:403`).
- `drained` is reset by the next callback, not by Enqueue: a player that ran dry
  and was just fed can be reclaimed and freed (`registry_starve`;
  `opensles.c:1249`).
- The cooldown between two keyboard sessions (400 ms) is shorter than the
  delivery of a replacement (up to 128 key events of 16 ms): a session in
  between leaves text of the first one in the field (`text_reopen`;
  `rv_input.c:427`).
- The fingerprint of the asset cache covers eight directories by their own times;
  what is probed elsewhere (`cups/`, a file in the data directory itself) can be
  copied without changing it. A scan that found something missing is cached too,
  so the port goes on refusing to start, through reboots, until something in one
  of the eight changes; `rv_assets_invalidate` has no caller (`start_stale`;
  `rv_assets.c:96`, against `rv_assets.h:25-26`).

Met, and not shown by a run: what the player types between the paced backspaces of the
first replacement is all that is tracked of a field still being cleared, and the field counts as
known from then on (`rv_input.c:438`), so a second session may send too few backspaces and leave old text
in it (`want = Lost`, which `ReplacementExact` excepts); a button pressed before the pointer appears stays
down for the game by its events, since its release is swallowed
(`rv_cursor.c:151`; the comment at line 122 promises a pad at rest); the comment that a cached keyboard pointer works
too (`rv_events.c:103-108`) holds only for a pointer fetched after the first
synthetic key (lines 179-182); the loser of the race to back a mutex gets NULL
instead of the winner's object when the table is full (`imports_helpers.c:133`);
`pthread_once` returns to a second thread before the initialiser is done
(`imports_helpers.c:366`; `Once` and `InitDone` in `ThreadKeys`);
`rvn_poll` and `rvn_select` sleep a slice only once the call is idle
(`rv_net.c:1067`, `1127`), so where libnx comes back early a call in its first
quarter of a second spins and takes slices off its timeout that were not waited,
contrary to the comment at lines 1065-1066 (`Empty` allows it, `EndsInTime` bounds a
call from above only); the broadcast address is that of the network at start-up
(`rv_net.c:568`);
a stream made with `fdopen` from a descriptor with a read-ahead or sink entry is
closed without telling those tables (`libc_shim.c:1863`: the run assumes the
game does not, `FdopenAny = FALSE`, and `NumbersInStep` fails if it
does); nor does such a close clear `g_fd_ino`, so the next stream `fopen` opens at that number has
the inode of the old file in `fstat_fake` (`libc_shim.c:811`), and a `truncate_fake` of the
old path, which looks for "the matching live descriptor" by inode (lines 600-613), would try that
number (the model has it, in runs of `descriptors` too, and `NumbersInStep` excepts
streams; truncate is not modelled);
`pthread_key_create_fake` gives out a slot with the values threads have left in it, which POSIX
says are NULL (`imports_helpers.c:473-480`; `left` in `ThreadKeys`), and `master_key_dtor` reads the
table twice without its lock, so that a value may go to the destructor of another key or
NULL be called (lines 452-454; `Destructor`, `DestructorGone`); `TranslateErrno` passes on newlib's
ENETDOWN, 115, which is bionic's EINPROGRESS: a failed connect is taken for one under
way, and an `SO_ERROR` of 0 later for its success (`rv_net.c:263-265`; `ConnectsAsSeen` excepts it);
`rv_cursor_update` returns at once without a pad (`rv_cursor.c:62-63`), so if the last one goes
during a touch the finger stays down until there is one again; it looks once per swap, so a shorter
tap is not felt (`TapsArrive` says both); `rv_events.h` speaks of a whole frame a press lasts, but in a drain that goes
on for an interval key and release are handed over without one (`PressHeld` says what the code keeps); a file map that got a shortened tail slot blocks on a lock its thread
holds (`libc_shim.c:1538-1541`, `op = "stuck"` in `Mmap`; the run keeps file maps
shorter than that); a munmap whose write fails returns -1 but forgets the map,
and so does a split that finds no slot (`libc_shim.c:1467`, `1500`): those pages
are `orphan` in the model and `UnsavedIsTracked` excepts them; a reservation that
the heap serves is allocated without the padding its client will trim
(`libc_shim.c:1560-1565`), and that trim is a munmap of addresses the map does not own:
with another block there it would cut that block's entry out of the table, or free the
block (`mmap_fallback_free` goes by address alone). The model keeps heap blocks out of
each other's reach and new ones clear of padding not trimmed yet (`HeapFree`), so no
run shows it.

## 8. Not modelled

Semaphores, rwlocks, futexes and timed waits are planned (2). Of files:
directories, stat, renames and the rewriting of profiles; of maps: offsets other
than 0, and maps of a file that is read or written meanwhile by other means. Of
sockets: servers, name resolution, options other than `SO_ERROR`, and IPv6; of the
loader: relocation arithmetic, page permissions and hooks; of a socket's modes: a host `fcntl`
that fails (`rv_net.c:695-697`, where the port remembers a mode the socket does not have); of start-up: what the
reports say. The parts that `boot`, `input`, `threads` and `net` check side by side
share no state in the code either, except that text and touches go through one
queue: `Cursor` has the keys of a replacement in its queue, and `TextEntry` real
events between its own.
Left out for good: `rv_index.c` and `fakefd.c`, which nothing reaches (pipe is not
imported), as pread, dup, msync, mprotect and madvise are not;
the overcommit arenas of `libc_shim.c`, which are never initialised
(`g_overcommit` is 0 and `oc_arena_init` has no caller); decoded audio, since
`mp3_decode.c` always fails; string and number processing (`rv_image.c`,
mappings, pointer positions); logging.
Timing is abstract throughout, an interval has passed or not, except in
`NetPoll`, which counts it.
