---------------------------- MODULE Descriptors ----------------------------
(***************************************************************************)
(* The game's file descriptors (source/libc_shim.c, source/asset_pack.c).  *)
(* A descriptor number is served by the asset pack's handle table, by a    *)
(* read-ahead cache, or by the C library, and which one is decided by      *)
(* looking the number up in tables beside the kernel's own.  Numbers are   *)
(* reused as soon as they are closed, so each table must forget a number   *)
(* before the kernel does and learn it only after.                         *)
(*                                                                         *)
(* A step is what one thread does under one lock, or one call of the C     *)
(* library.  The game uses a descriptor in one thread at a time and never  *)
(* after closing it; different threads use different descriptors at once.  *)
(*                                                                         *)
(* Abstractions.  A byte is <<file, offset>>, so data served from the      *)
(* wrong file or offset shows.  The victim of a full read-ahead cache is   *)
(* any page, where the code takes the least recently used.  Left out:      *)
(* directories, failing reads, failing malloc, the pipes of fakefd.c       *)
(* (their numbers never meet these), and dup and pread, which the import   *)
(* table does not offer.                                                   *)
(***************************************************************************)
EXTENDS Integers, Sequences, FiniteSetsExt

CONSTANTS
  Threads,
  MaxFd,            \* bound: descriptor numbers the kernel hands out
  BigFiles,         \* loose files of 4 MiB or more, opened for reading
  PackedFiles,      \* files the pack holds (and the card, loose)
  UsymFiles,        \* files opened for writing whose name contains ".usym"
  PACK_HANDLES, PACK_FILE_SLOTS, RA_SLOTS, RA_PAGES, MAX_SINK_FDS,
  RA_PAGE,          \* bytes of a read-ahead page
  PACK_CACHE_SIZE,  \* bytes of a handle's cache
  SIZE,             \* bytes in a file
  MaxRead,          \* bound: largest count given to read
  Seeks,            \* bound: the <<offset, whence>> given to lseek
  FdopenAny         \* the game calls fdopen on descriptors that have a
                    \* read-ahead cache or a sink entry, too

Files == BigFiles \cup PackedFiles \cup UsymFiles

ASSUME LimitsAssumption ==
  /\ {MaxFd, PACK_HANDLES, PACK_FILE_SLOTS, RA_SLOTS, RA_PAGES, MAX_SINK_FDS,
      RA_PAGE, PACK_CACHE_SIZE, SIZE, MaxRead} \subseteq Nat \ {0}
  /\ FdopenAny \in BOOLEAN
  /\ Seeks \subseteq Int \X {"SET", "CUR", "END"}
ASSUME FilesAssumption == "none" \notin Files /\ "pack" \notin Files

VARIABLES
  kernel,     \* descriptor number -> [file, pos], or Shut
  handles,    \* g_handles
  ra,         \* g_ra
  sinks,      \* g_sink_fds (0: free)
  ino,        \* g_fd_ino, the path's hash standing for the path
  packFiles,  \* g_pack_files: the descriptor of each slot, NoFd, or Free
  stdio,      \* descriptors owned by the C library's own streams
  desc,       \* the game's view: what each number it holds was opened for
  call        \* what each thread is in the middle of

tables == <<handles, ra, sinks, ino, packFiles>>
vars == <<kernel, tables, stdio, desc, call>>

Fds == 1 .. MaxFd
Shut == [file |-> "none", pos |-> 0]
NoCache == [file |-> "none", off |-> 0, len |-> 0]
NoHandle == [fd |-> 0, entry |-> "none", pos |-> 0, cache |-> NoCache]
NoRa == [fd |-> 0, pos |-> 0, page |-> [p \in 1 .. RA_PAGES |-> NoCache]]
Free == -1
NoFd == 0
Idle == [op |-> "idle"]

Lesser(a, b) == IF a < b THEN a ELSE b
Lowest(S) == IF S = {} THEN 0 ELSE Min(S)

(* get_handle, ra_find: the first entry with that number, 0 for NULL. *)
HandleOf(fd) == Lowest({i \in 1 .. PACK_HANDLES : handles[i].fd = fd})
RaOf(fd) == Lowest({i \in 1 .. RA_SLOTS : ra[i].fd = fd})

(* Whom read_fake, z_lseek and close_fake ask for a number. *)
Route(fd) ==
  IF HandleOf(fd) # 0 THEN "pack" ELSE IF RaOf(fd) # 0 THEN "ra" ELSE "plain"

(* The kernel hands out the lowest free number. *)
NextFd == Lowest({fd \in Fds : kernel[fd] = Shut})

(* g_ra_lock is held for the whole of ra_read. *)
RaLockFree == \A t \in Threads : call[t].op # "ra_read"

InUse(fd) == \E t \in Threads : call[t] # Idle /\ call[t].fd = fd
MayUse(t, fd) == call[t] = Idle /\ desc[fd] # "none" /\ ~InUse(fd)

Busy(t, c) == call' = [call EXCEPT ![t] = c]
Return(t) == Busy(t, Idle)

Bytes(f, from, n) == [i \in 1 .. n |-> <<f, from + i - 1>>]

Init ==
  /\ kernel = [fd \in Fds |-> Shut]
  /\ handles = [i \in 1 .. PACK_HANDLES |-> NoHandle]
  /\ ra = [i \in 1 .. RA_SLOTS |-> NoRa]
  /\ sinks = [i \in 1 .. MAX_SINK_FDS |-> 0]
  /\ ino = [fd \in Fds |-> "none"]
  /\ packFiles = [i \in 1 .. PACK_FILE_SLOTS |-> Free]
  /\ stdio = {}
  /\ desc = [fd \in Fds |-> "none"]
  /\ call = [t \in Threads |-> Idle]

-----------------------------------------------------------------------------
(* open_fake, and packed_fopen with its fallback.  A call in progress says *)
(* for whom it opens: "open" gives the game the number, "fopen" a stream.  *)

(* asset_pack_open_path: a descriptor of its own on the pack.  Without a   *)
(* free number open_fake fails; packed_fopen goes on with no descriptor.   *)
OpenPacked(t, f, for) ==
  /\ call[t] = Idle
  /\ f \in PackedFiles
  /\ IF NextFd # 0
     THEN /\ kernel' = [kernel EXCEPT ![NextFd] = [file |-> "pack", pos |-> 0]]
          /\ Busy(t, [op |-> "add_handle", fd |-> NextFd, file |-> f, for |-> for])
     ELSE /\ for = "fopen"
          /\ Busy(t, [op |-> "add_file", fd |-> NoFd, file |-> f, for |-> for])
          /\ UNCHANGED kernel
  /\ UNCHANGED <<tables, stdio, desc>>

(* The game has its descriptor; fd_ino_set came just before. *)
Opened(t, fd, f) == desc' = [desc EXCEPT ![fd] = f] /\ Return(t)

(* add_handle: with no free handle it closes the descriptor, and open_fake *)
(* goes on to look for a loose file.                                       *)
AddHandle(t) ==
  LET c == call[t]
      i == Lowest({h \in 1 .. PACK_HANDLES : handles[h] = NoHandle})
  IN /\ c.op = "add_handle"
     /\ IF i # 0
        THEN /\ handles' = [handles EXCEPT ![i] = [NoHandle EXCEPT !.fd = c.fd, !.entry = c.file]]
             /\ IF c.for = "open"
                THEN ino' = [ino EXCEPT ![c.fd] = c.file] /\ Opened(t, c.fd, c.file)
                ELSE Busy(t, [c EXCEPT !.op = "add_file"]) /\ UNCHANGED <<ino, desc>>
             /\ UNCHANGED kernel
        ELSE /\ kernel' = [kernel EXCEPT ![c.fd] = Shut]
             /\ Busy(t, IF c.for = "open" THEN [c EXCEPT !.op = "loose", !.fd = NoFd]
                        ELSE [c EXCEPT !.op = "add_file", !.fd = NoFd])
             /\ UNCHANGED <<handles, ino, desc>>
     /\ UNCHANGED <<ra, sinks, packFiles, stdio>>

(* open of a loose file: the number is learnt by g_fd_ino at once, by the  *)
(* sink and the read-ahead tables in steps of their own.                   *)
OpenLoose(t, f) ==
  /\ \/ call[t] = Idle /\ f \notin PackedFiles
     \/ call[t].op = "loose" /\ call[t].for = "open" /\ call[t].file = f
  /\ NextFd # 0
  /\ kernel' = [kernel EXCEPT ![NextFd] = [file |-> f, pos |-> 0]]
  /\ ino' = [ino EXCEPT ![NextFd] = f]
  /\ IF f \in BigFiles \cup UsymFiles
     THEN /\ Busy(t, [op |-> IF f \in BigFiles THEN "ra_attach" ELSE "sink_add",
                      fd |-> NextFd, file |-> f])
          /\ UNCHANGED desc
     ELSE Opened(t, NextFd, f)
  /\ UNCHANGED <<handles, ra, sinks, packFiles, stdio>>

(* Neither the pack nor the kernel has room: open and fopen fail. *)
OpenFails(t) ==
  /\ call[t].op = "loose"
  /\ NextFd = 0
  /\ Return(t)
  /\ UNCHANGED <<kernel, tables, stdio, desc>>

(* Mutant: the pages of the slot's last file are kept with its buffer. *)
RaAttach_keep(t) ==
  LET i == Lowest({s \in 1 .. RA_SLOTS : ra[s].fd = 0})
  IN /\ call[t].op = "ra_attach"
     /\ RaLockFree
     /\ ra' = IF i = 0 THEN ra ELSE [ra EXCEPT ![i].fd = call[t].fd, ![i].pos = 0]
     /\ Opened(t, call[t].fd, call[t].file)
     /\ UNCHANGED <<kernel, handles, sinks, ino, packFiles, stdio>>

(* ra_attach: takes a free slot, if there is one, with no page in it. *)
RaAttach(t) ==
  LET i == Lowest({s \in 1 .. RA_SLOTS : ra[s].fd = 0})
  IN /\ call[t].op = "ra_attach"
     /\ RaLockFree
     /\ ra' = IF i = 0 THEN ra ELSE [ra EXCEPT ![i] = [NoRa EXCEPT !.fd = call[t].fd]]
     /\ Opened(t, call[t].fd, call[t].file)
     /\ UNCHANGED <<kernel, handles, sinks, ino, packFiles, stdio>>

(* usym_sink_add: when the table is full the file is written after all. *)
SinkAdd(t) ==
  LET i == Lowest({s \in 1 .. MAX_SINK_FDS : sinks[s] = 0})
  IN /\ call[t].op = "sink_add"
     /\ sinks' = IF i = 0 THEN sinks ELSE [sinks EXCEPT ![i] = call[t].fd]
     /\ Opened(t, call[t].fd, call[t].file)
     /\ UNCHANGED <<kernel, handles, ra, ino, packFiles, stdio>>

-----------------------------------------------------------------------------
(* Streams over packed files. *)

(* packed_file_add for packed_fopen: on failure the handle goes and fopen  *)
(* tries the loose file.                                                   *)
AddFile(t) ==
  LET c == call[t]
      i == Lowest({s \in 1 .. PACK_FILE_SLOTS : packFiles[s] = Free})
  IN /\ c.op = "add_file"
     /\ IF i # 0
        THEN packFiles' = [packFiles EXCEPT ![i] = c.fd] /\ Return(t)
        ELSE /\ Busy(t, IF c.fd = NoFd THEN [c EXCEPT !.op = "loose"]
                        ELSE [op |-> "pack_close", fd |-> c.fd, file |-> c.file, then |-> "loose"])
             /\ UNCHANGED packFiles
     /\ UNCHANGED <<kernel, handles, ra, sinks, ino, stdio, desc>>

(* fopen of the loose file: a stream of the C library, in none of our tables. *)
OpenLooseStream(t) ==
  /\ call[t].op = "loose" /\ call[t].for = "fopen"
  /\ NextFd # 0
  /\ kernel' = [kernel EXCEPT ![NextFd] = [file |-> call[t].file, pos |-> 0]]
  /\ stdio' = stdio \cup {NextFd}
  /\ Return(t)
  /\ UNCHANGED <<tables, desc>>

(* fdopen_fake: a packed descriptor becomes a stream over a copy of the    *)
(* file, any other is handed to the C library.  When packed_file_add finds *)
(* no slot the game keeps its descriptor.                                  *)
Fdopen(t, fd) ==
  LET i == Lowest({s \in 1 .. PACK_FILE_SLOTS : packFiles[s] = Free})
  IN /\ MayUse(t, fd)
     /\ \/ /\ HandleOf(fd) # 0
           /\ i # 0
           /\ packFiles' = [packFiles EXCEPT ![i] = fd]
           /\ UNCHANGED stdio
        \/ /\ HandleOf(fd) = 0
           /\ FdopenAny \/ (RaOf(fd) = 0 /\ \A s \in DOMAIN sinks : sinks[s] # fd)
           /\ stdio' = stdio \cup {fd}
           /\ UNCHANGED packFiles
     /\ desc' = [desc EXCEPT ![fd] = "none"]
     /\ UNCHANGED <<kernel, handles, ra, sinks, ino, call>>

(* packed_fclose: the slot is emptied, then the handle closed. *)
FclosePacked(t, i) ==
  /\ call[t] = Idle
  /\ packFiles[i] # Free
  /\ packFiles' = [packFiles EXCEPT ![i] = Free]
  /\ IF packFiles[i] = NoFd THEN UNCHANGED call
     ELSE Busy(t, [op |-> "pack_close", fd |-> packFiles[i], file |-> "none", then |-> "idle"])
  /\ UNCHANGED <<kernel, handles, ra, sinks, ino, stdio, desc>>

(* fclose of a stream that is not ours: the C library closes the number,   *)
(* and no table hears of it.  g_fd_ino keeps what open put there.          *)
Fclose(t, fd) ==
  /\ call[t] = Idle
  /\ fd \in stdio
  /\ stdio' = stdio \ {fd}
  /\ kernel' = [kernel EXCEPT ![fd] = Shut]
  /\ UNCHANGED <<tables, desc, call>>

-----------------------------------------------------------------------------
(* close_fake. *)

(* The first half of asset_pack_close_fd: the handle is free, and its      *)
(* cache with it, while the number still is not.                           *)
Release(t, fd, c) ==
  /\ handles' = [handles EXCEPT ![HandleOf(fd)] = NoHandle]
  /\ Busy(t, c)
  /\ UNCHANGED kernel

ClosePacked(t, fd) ==
  /\ MayUse(t, fd)
  /\ Route(fd) = "pack"
  /\ ino' = [ino EXCEPT ![fd] = "none"]
  /\ Release(t, fd, [op |-> "close", fd |-> fd, then |-> "idle"])
  /\ desc' = [desc EXCEPT ![fd] = "none"]
  /\ UNCHANGED <<ra, sinks, packFiles, stdio>>

(* asset_pack_close_fd on behalf of packed_fopen and packed_fclose. *)
ReleaseStream(t) ==
  /\ call[t].op = "pack_close"
  /\ Release(t, call[t].fd, [call[t] EXCEPT !.op = "close"])
  /\ UNCHANGED <<ra, sinks, ino, packFiles, stdio, desc>>

(* Mutant: usym_sink_del is not called. *)
CloseOther_sink(t, fd) ==
  /\ MayUse(t, fd)
  /\ Route(fd) # "pack"
  /\ RaLockFree
  /\ ra' = IF RaOf(fd) = 0 THEN ra ELSE [ra EXCEPT ![RaOf(fd)].fd = 0]
  /\ ino' = [ino EXCEPT ![fd] = "none"]
  /\ Busy(t, [op |-> "close", fd |-> fd, then |-> "idle"])
  /\ desc' = [desc EXCEPT ![fd] = "none"]
  /\ UNCHANGED <<kernel, handles, sinks, packFiles, stdio>>

(* Every other number: the read-ahead slot (its buffer stays), the inode   *)
(* and the sink entry go before the number does.                           *)
CloseOther(t, fd) ==
  LET i == Lowest({s \in DOMAIN sinks : sinks[s] = fd})
  IN /\ MayUse(t, fd)
     /\ Route(fd) # "pack"
     /\ RaLockFree
     /\ ra' = IF RaOf(fd) = 0 THEN ra ELSE [ra EXCEPT ![RaOf(fd)].fd = 0]
     /\ ino' = [ino EXCEPT ![fd] = "none"]
     /\ sinks' = IF i = 0 THEN sinks ELSE [sinks EXCEPT ![i] = 0]
     /\ Busy(t, [op |-> "close", fd |-> fd, then |-> "idle"])
     /\ desc' = [desc EXCEPT ![fd] = "none"]
     /\ UNCHANGED <<kernel, handles, packFiles, stdio>>

(* The close that ends each of them, outside every lock. *)
KernelClose(t) ==
  LET c == call[t]
  IN /\ c.op = "close"
     /\ kernel' = [kernel EXCEPT ![c.fd] = Shut]
     /\ IF c.then = "idle" THEN Return(t)
        ELSE Busy(t, [op |-> "loose", fd |-> NoFd, file |-> c.file, for |-> "fopen"])
     /\ UNCHANGED <<tables, stdio, desc>>

-----------------------------------------------------------------------------
(* z_lseek and write_fake. *)

(* Where the next byte comes from, as the game sees it. *)
Position(fd) ==
  CASE Route(fd) = "pack" -> handles[HandleOf(fd)].pos
    [] Route(fd) = "ra" -> ra[RaOf(fd)].pos
    [] OTHER -> kernel[fd].pos

(* Legal seeks only: the target lies in the file. *)
Seek(t, fd, off, whence) ==
  LET base == CASE whence = "SET" -> 0 [] whence = "CUR" -> Position(fd) [] OTHER -> SIZE
      to == base + off
  IN /\ MayUse(t, fd)
     /\ to \in 0 .. SIZE
     /\ CASE Route(fd) = "pack" -> /\ handles' = [handles EXCEPT ![HandleOf(fd)].pos = to]
                                   /\ UNCHANGED <<kernel, ra>>
          [] Route(fd) = "ra" -> /\ RaLockFree
                                 /\ ra' = [ra EXCEPT ![RaOf(fd)].pos = to]
                                 /\ UNCHANGED <<kernel, handles>>
          [] OTHER -> /\ kernel' = [kernel EXCEPT ![fd].pos = to]
                      /\ UNCHANGED <<handles, ra>>
     /\ UNCHANGED <<sinks, ino, packFiles, stdio, desc, call>>

(* One byte written, or swallowed and reported as written. *)
Write(t, fd) ==
  /\ MayUse(t, fd)
  /\ desc[fd] \in UsymFiles
  /\ kernel[fd].pos < SIZE     \* bound
  /\ kernel' = IF \E s \in DOMAIN sinks : sinks[s] = fd THEN kernel
               ELSE [kernel EXCEPT ![fd].pos = @ + 1]
  /\ UNCHANGED <<tables, stdio, desc, call>>

-----------------------------------------------------------------------------
(* read_fake. *)

(* The route is chosen once.  asset_pack_read_fd reads past the cache when *)
(* the count is more than half of it.                                      *)
BeginRead(t, fd, want) ==
  /\ MayUse(t, fd)
  /\ desc[fd] \in BigFiles \cup PackedFiles
  /\ Route(fd) = "ra" => RaLockFree
  /\ Busy(t, [op |-> CASE Route(fd) = "ra" -> "ra_read"
                       [] Route(fd) = "plain" -> "plain_read"
                       [] Route(fd) = "pack" /\ 2 * want > PACK_CACHE_SIZE -> "pack_direct"
                       [] OTHER -> "pack_read",
              fd |-> fd, slot |-> IF Route(fd) = "pack" THEN HandleOf(fd) ELSE RaOf(fd),
              want |-> want, buf |-> <<>>])
  /\ UNCHANGED <<kernel, tables, stdio, desc>>

Remaining(t) == call[t].want - Len(call[t].buf)
Deliver(t, f, from, n) == Busy(t, [call[t] EXCEPT !.buf = @ \o Bytes(f, from, n)])

(* The C library's read may be short; the loop goes on. *)
PlainRead(t) ==
  LET c == call[t]
      k == kernel[c.fd]
  IN /\ c.op = "plain_read"
     /\ \E n \in 1 .. Lesser(Remaining(t), SIZE - k.pos) :
          /\ Deliver(t, k.file, k.pos, n)
          /\ kernel' = [kernel EXCEPT ![c.fd].pos = @ + n]
     /\ UNCHANGED <<tables, stdio, desc>>

(* What a page holds after a refill at pos: an aligned page of whatever    *)
(* the number stands for now.                                              *)
PageAt(fd, pos) ==
  LET base == (pos \div RA_PAGE) * RA_PAGE
  IN [file |-> kernel[fd].file, off |-> base, len |-> Lesser(RA_PAGE, SIZE - base)]

Holds(cache, pos) == pos \in cache.off .. cache.off + cache.len - 1

(* One turn of ra_read's loop: find the page or refill one (an empty one   *)
(* first), and copy from it.                                               *)
RaRead(t) ==
  LET c == call[t]
      s == ra[c.slot]
      hits == {p \in 1 .. RA_PAGES : Holds(s.page[p], s.pos)}
      empty == {p \in 1 .. RA_PAGES : s.page[p].len = 0}
  IN /\ c.op = "ra_read"
     /\ Remaining(t) > 0
     /\ s.pos < SIZE
     /\ \E p \in IF hits # {} THEN {Min(hits)} ELSE IF empty # {} THEN {Min(empty)}
                 ELSE 1 .. RA_PAGES :
          LET new == IF hits # {} THEN s.page[p] ELSE PageAt(c.fd, s.pos)
              n == Lesser(Remaining(t), new.off + new.len - s.pos)
          IN /\ Deliver(t, new.file, s.pos, n)
             /\ ra' = [ra EXCEPT ![c.slot].page[p] = new, ![c.slot].pos = @ + n]
             /\ kernel' = IF hits # {} THEN kernel
                          ELSE [kernel EXCEPT ![c.fd].pos = new.off + new.len]
     /\ UNCHANGED <<handles, sinks, ino, packFiles, stdio, desc>>

(* The handle's cache covers its position. *)
Cached(h) == h.cache.len > 0 /\ Holds(h.cache, h.pos)

(* One turn of the loop of asset_pack_read_fd over the handle's cache. *)
PackRead(t) ==
  LET c == call[t]
      h == handles[c.slot]
      new == IF Cached(h) THEN h.cache
             ELSE [file |-> h.entry, off |-> h.pos, len |-> Lesser(PACK_CACHE_SIZE, SIZE - h.pos)]
      n == Lesser(Remaining(t), new.off + new.len - h.pos)
  IN /\ c.op = "pack_read"
     /\ Remaining(t) > 0
     /\ h.pos < SIZE
     /\ Deliver(t, new.file, h.pos, n)
     /\ handles' = [handles EXCEPT ![c.slot].cache = new, ![c.slot].pos = @ + n]
     /\ UNCHANGED <<kernel, ra, sinks, ino, packFiles, stdio, desc>>

(* A large count: read_handle_at straight into the caller's buffer. *)
PackDirect(t) ==
  LET c == call[t]
      h == handles[c.slot]
      n == Lesser(c.want, SIZE - h.pos)
  IN /\ c.op = "pack_direct"
     /\ c.buf = <<>>
     /\ n > 0
     /\ Deliver(t, h.entry, h.pos, n)
     /\ handles' = [handles EXCEPT ![c.slot].pos = @ + n]
     /\ UNCHANGED <<kernel, ra, sinks, ino, packFiles, stdio, desc>>

(* The call returns: the count is reached, or the position is at the end.  *)
(* Reaching the end inside the pack's loop empties the handle's cache.     *)
EndRead(t) ==
  LET c == call[t]
  IN /\ c.op \in {"plain_read", "ra_read", "pack_read", "pack_direct"}
     /\ \/ Remaining(t) = 0
        \/ CASE c.op = "plain_read" -> kernel[c.fd].pos >= SIZE
             [] c.op = "ra_read" -> ra[c.slot].pos >= SIZE
             [] OTHER -> handles[c.slot].pos >= SIZE
     /\ handles' = IF c.op = "pack_read" /\ c.buf # <<>> /\ Remaining(t) > 0
                   THEN [handles EXCEPT ![c.slot].cache =
                           [file |-> handles[c.slot].entry, off |-> SIZE, len |-> 0]]
                   ELSE handles
     /\ Return(t)
     /\ UNCHANGED <<kernel, ra, sinks, ino, packFiles, stdio, desc>>

-----------------------------------------------------------------------------
(* A call that has begun goes on. *)
Continue(t) ==
  \/ AddHandle(t) \/ RaAttach(t) \/ SinkAdd(t) \/ OpenFails(t)
  \/ AddFile(t) \/ OpenLooseStream(t) \/ ReleaseStream(t) \/ KernelClose(t)
  \/ PlainRead(t) \/ RaRead(t) \/ PackRead(t) \/ PackDirect(t) \/ EndRead(t)
  \/ \E f \in Files : OpenLoose(t, f)

Begin(t) ==
  \/ \E f \in Files, for \in {"open", "fopen"} : OpenPacked(t, f, for)
  \/ \E fd \in Fds : Fdopen(t, fd) \/ Fclose(t, fd) \/ ClosePacked(t, fd) \/ CloseOther(t, fd)
  \/ \E fd \in Fds : Write(t, fd) \/ \E want \in 1 .. MaxRead : BeginRead(t, fd, want)
  \/ \E fd \in Fds, s \in Seeks : Seek(t, fd, s[1], s[2])
  \/ \E i \in 1 .. PACK_FILE_SLOTS : FclosePacked(t, i)

Next == \E t \in Threads : Begin(t) \/ Continue(t)

Spec == Init /\ [][Next]_vars

-----------------------------------------------------------------------------
(* Properties. *)

(* A handle, read-ahead or sink entry outlives neither its number nor the  *)
(* file and is never doubled, whatever other threads open and close in     *)
(* between.  (The pages kept in a read-ahead slot without a number are not *)
(* asked for.)  Each of the game's descriptors has the inode of its file,  *)
(* and any other open number has that of its file or none.  Not so the     *)
(* numbers of the C library's streams: the inode of a descriptor given to  *)
(* fdopen stays behind after fclose, and a stream that fopen opens at that *)
(* number has the inode of the wrong file.  Nor those of the pack, for     *)
(* which fstat does not ask the table.                                     *)
InodeIsRight(fd) == ino[fd] \in {"none", kernel[fd].file}
EntriesFollowNumbers ==
  /\ \A i \in 1 .. PACK_HANDLES : LET h == handles[i] IN
       h # NoHandle => /\ kernel[h.fd].file = "pack"
                       /\ desc[h.fd] \in {"none", h.entry}
                       /\ h.cache.file \in {"none", h.entry}
                       /\ \A j \in 1 .. PACK_HANDLES : handles[j].fd = h.fd => i = j
  /\ \A i \in 1 .. RA_SLOTS : LET s == ra[i] IN
       s.fd # 0 => /\ kernel[s.fd].file \in BigFiles
                   /\ \A p \in 1 .. RA_PAGES : s.page[p].file \in {"none", kernel[s.fd].file}
                   /\ \A j \in 1 .. RA_SLOTS : ra[j].fd = s.fd => i = j
  /\ \A i \in 1 .. MAX_SINK_FDS : sinks[i] # 0 => kernel[sinks[i]].file \in UsymFiles
  /\ \A fd \in Fds : desc[fd] # "none" => ino[fd] = desc[fd]
  /\ \A fd \in Fds \ stdio : kernel[fd].file \notin {"none", "pack"} => InodeIsRight(fd)

(* Every open number has exactly one owner, who will close it: the game, a *)
(* stream, or a call in progress.  No failing open leaves one behind.      *)
Owners(fd) ==
  (IF desc[fd] # "none" THEN 1 ELSE 0) + (IF fd \in stdio THEN 1 ELSE 0)
  + Cardinality({i \in 1 .. PACK_FILE_SLOTS : packFiles[i] = fd})
  + Cardinality({t \in Threads : call[t] # Idle /\ call[t].fd = fd /\ desc[fd] = "none"})
NumbersAreOwned ==
  \A fd \in Fds : Owners(fd) = IF kernel[fd] = Shut THEN 0 ELSE 1

(* The tables of the port and the numbers of the kernel stay in step,      *)
(* through every open, close and failure of several threads, except for    *)
(* the inodes of streams.                                                  *)
NumbersInStep == EntriesFollowNumbers /\ NumbersAreOwned

(* What the game sees of all this: a file and a position for each of its   *)
(* descriptors, and the reads it is waiting for.                           *)
Table == [fd \in Fds |-> IF desc[fd] = "none" THEN [file |-> "none", pos |-> 0]
                         ELSE [file |-> desc[fd], pos |-> Position(fd)]]
Reads == [t \in Threads |->
            IF call[t].op \in {"plain_read", "ra_read", "pack_read", "pack_direct"}
            THEN [fd |-> call[t].fd, want |-> call[t].want, buf |-> call[t].buf]
            ELSE [fd |-> 0, want |-> 0, buf |-> <<>>]]

(* Through all of this each descriptor behaves as FileApi says. *)
Api == INSTANCE FileApi WITH table <- Table, reading <- Reads
ReadsAsFiles == Api!Spec
=============================================================================
