-------------------------- MODULE Descriptors_proofs --------------------------
(***************************************************************************)
(* Proofs about Descriptors, for any threads, files, numbers and sizes of  *)
(* the tables, as long as the game hands the C library only descriptors    *)
(* that have no read-ahead cache and no sink entry (~FdopenAny).           *)
(*                                                                         *)
(* Every step of the code is about one number, and what is known of a      *)
(* number (Number) speaks of the entries and calls that name it only.  So  *)
(* a step has to be looked at where it happens, and everywhere else it     *)
(* changes nothing (Elsewhere).                                            *)
(***************************************************************************)
EXTENDS Descriptors, WellFoundedInduction, SequenceTheorems, FiniteSetTheorems, TLAPS

Handles == 1 .. PACK_HANDLES
RaSlots == 1 .. RA_SLOTS
Pages == 1 .. RA_PAGES
Sinks == 1 .. MAX_SINK_FDS
FileSlots == 1 .. PACK_FILE_SLOTS

ReadOps == {"plain_read", "ra_read", "pack_read", "pack_direct"}

Caches == [file : Files \cup {"none"}, off : Nat, len : Nat]

(* The calls a thread can be in, as records. *)
OpenCalls == [op : {"add_handle", "add_file", "loose"}, fd : 0 .. MaxFd,
              file : PackedFiles, for : {"open", "fopen"}]
AttachCalls == [op : {"ra_attach", "sink_add"}, fd : Fds, file : Files]
StreamCalls == [op : {"pack_close", "close"}, fd : Fds,
                file : PackedFiles \cup {"none"}, then : {"loose", "idle"}]
CloseCalls == [op : {"close"}, fd : Fds, then : {"idle"}]
ReadCalls == [op : ReadOps, fd : Fds, slot : Nat, want : 1 .. MaxRead, buf : Seq(Files \X Nat)]

Legal(c) ==
  \/ c = Idle
  \/ /\ c \in OpenCalls
     /\ c.op = "add_handle" => c.fd # NoFd
     /\ c.op = "add_file" => c.for = "fopen"
     /\ c.op = "loose" => c.fd = NoFd
  \/ c \in AttachCalls
  \/ c \in StreamCalls /\ (c.then = "loose" => c.file # "none")
  \/ c \in CloseCalls
  \/ c \in ReadCalls /\ Len(c.buf) <= c.want

KernelOK == kernel \in [Fds -> [file : Files \cup {"none", "pack"}, pos : 0 .. SIZE]]
HandlesOK ==
  /\ handles \in [Handles -> [fd : 0 .. MaxFd, entry : Files \cup {"none"},
                              pos : 0 .. SIZE, cache : Caches]]
  /\ \A i \in Handles : handles[i].fd = 0 => handles[i] = NoHandle
RaOK == ra \in [RaSlots -> [fd : 0 .. MaxFd, pos : 0 .. SIZE, page : [Pages -> Caches]]]
EntriesOK ==
  /\ sinks \in [Sinks -> 0 .. MaxFd]
  /\ ino \in [Fds -> Files \cup {"none"}]
  /\ packFiles \in [FileSlots -> -1 .. MaxFd]
  /\ stdio \subseteq Fds
  /\ desc \in [Fds -> Files \cup {"none"}]
CallsOK ==
  /\ call = [t \in Threads |-> call[t]]
  /\ \A t \in Threads : Legal(call[t])
TablesOK == KernelOK /\ HandlesOK /\ RaOK /\ EntriesOK /\ CallsOK

(* A cache of a file holds bytes of that file, from inside it. *)
Holding(cache, f) ==
  /\ cache.file \in {"none", f}
  /\ cache.len > 0 => cache.file = f /\ cache.off + cache.len <= SIZE

Calling(t, fd) == call[t] # Idle /\ call[t].fd = fd

(* What a call in progress may assume of its number. *)
CallAt(t, fd) ==
  LET c == call[t] IN
    /\ c.op \notin ReadOps => desc[fd] = "none"
    /\ c.op \in {"add_handle", "add_file", "pack_close"} => kernel[fd].file = "pack"
    /\ c.op = "close" => kernel[fd].file = "pack" \/ ino[fd] = "none"
    /\ c.op \in {"add_handle", "close", "ra_attach", "sink_add", "plain_read"} =>
         \A i \in Handles : handles[i].fd # fd
    /\ c.op = "ra_attach" => c.file \in BigFiles
    /\ c.op = "sink_add" => c.file \in UsymFiles
    /\ c.op \in {"ra_attach", "sink_add"} =>
         kernel[fd] = [file |-> c.file, pos |-> 0] /\ ino[fd] = c.file
    /\ c.op \in ReadOps => desc[fd] # "none"
    /\ c.op \in {"pack_read", "pack_direct"} => c.slot \in Handles /\ handles[c.slot].fd = fd
    /\ c.op = "ra_read" => c.slot \in RaSlots /\ ra[c.slot].fd = fd
    /\ c.op = "plain_read" => \A i \in RaSlots : ra[i].fd # fd

(* The one owner of a number: nobody, the game, a stream of the C library, *)
(* the slot of a packed stream, or a call that opens or closes it.         *)
OwnedBy(fd, who, x) ==
  /\ \/ who \in {"nobody", "game", "stdio"}
     \/ who = "slot" /\ x \in FileSlots
     \/ who = "call" /\ x \in Threads
  /\ kernel[fd].file = "none" <=> who = "nobody"
  /\ desc[fd] # "none" <=> who = "game"
  /\ fd \in stdio <=> who = "stdio"
  /\ \A i \in FileSlots : packFiles[i] = fd <=> (who = "slot" /\ x = i)
  /\ \A t \in Threads : Calling(t, fd) /\ desc[fd] = "none" <=> (who = "call" /\ x = t)

HandleAt(i, fd) ==
  /\ kernel[fd].file = "pack"
  /\ handles[i].entry \in PackedFiles
  /\ desc[fd] \in {"none", handles[i].entry}
  /\ Holding(handles[i].cache, handles[i].entry)

RaAt(i, fd) ==
  /\ kernel[fd].file \in BigFiles
  /\ desc[fd] = kernel[fd].file
  /\ \A p \in Pages : Holding(ra[i].page[p], kernel[fd].file)

TablesAt(fd) ==
  /\ \A i \in Handles : handles[i].fd = fd => HandleAt(i, fd)
  /\ \A i, j \in Handles : handles[i].fd = fd /\ handles[j].fd = fd => i = j
  /\ \A i \in RaSlots : ra[i].fd = fd => RaAt(i, fd)
  /\ \A i, j \in RaSlots : ra[i].fd = fd /\ ra[j].fd = fd => i = j
  /\ \A i \in Sinks : sinks[i] = fd => kernel[fd].file \in UsymFiles /\ desc[fd] # "none"
  /\ \A i, j \in Sinks : sinks[i] = fd /\ sinks[j] = fd => i = j

GameAt(fd) ==
  /\ kernel[fd].file = "none" => kernel[fd].pos = 0
  /\ fd \in stdio => kernel[fd].file \in Files
  /\ \A i \in FileSlots : packFiles[i] = fd => kernel[fd].file = "pack"
  /\ desc[fd] # "none" =>
       /\ ino[fd] = desc[fd]
       /\ \/ kernel[fd].file = desc[fd]
          \/ \E i \in Handles : handles[i].fd = fd

Number(fd) ==
  /\ TablesAt(fd)
  /\ GameAt(fd)
  /\ \A t \in Threads : Calling(t, fd) => CallAt(t, fd)
  /\ \E who, x : OwnedBy(fd, who, x)

DescInv == TablesOK /\ \A fd \in Fds : Number(fd)

(* Where a number's next byte comes from. *)
PosIs(fd, p) ==
  /\ \A i \in Handles : handles[i].fd = fd => handles[i].pos = p
  /\ \A i \in RaSlots : ra[i].fd = fd => ra[i].pos = p
  /\ \/ \E i \in Handles : handles[i].fd = fd
     \/ \E i \in RaSlots : ra[i].fd = fd
     \/ kernel[fd].pos = p

(* What a step leaves alone. *)
SameAt(fd) ==
  /\ kernel'[fd] = kernel[fd] /\ desc'[fd] = desc[fd] /\ ino'[fd] = ino[fd]
  /\ fd \in stdio' <=> fd \in stdio
  /\ \A i \in Handles : handles'[i].fd = fd \/ handles[i].fd = fd => handles'[i] = handles[i]
  /\ \A i \in RaSlots : ra'[i].fd = fd \/ ra[i].fd = fd => ra'[i] = ra[i]
  /\ \A i \in Sinks : sinks'[i] = fd <=> sinks[i] = fd
  /\ \A i \in FileSlots : packFiles'[i] = fd <=> packFiles[i] = fd
  /\ \A t \in Threads : Calling(t, fd)' \/ Calling(t, fd) => call'[t] = call[t]

(* What the game sees of opening and closing: nothing, a descriptor at the *)
(* start of its file, or one less that no call was using.                  *)
Quiet(x) == x \in Fds => desc[x] = "none" /\ desc'[x] = "none"
Opens(x) == x \in Fds /\ desc[x] = "none" /\ desc'[x] # "none" /\ PosIs(x, 0)'
Closes(x) == /\ x \in Fds /\ desc[x] # "none" /\ desc'[x] = "none"
             /\ \A t \in Threads : ~Calling(t, x)
Effect ==
  /\ \A t \in Threads : \/ call'[t] = call[t]
                        \/ call[t].op \notin ReadOps /\ call'[t].op \notin ReadOps
  /\ \E x : /\ \A fd \in Fds : fd # x => SameAt(fd)
            /\ Quiet(x) \/ Opens(x) \/ Closes(x)

-----------------------------------------------------------------------------
(* Numbers, and where they are looked up. *)

LEMMA SizesAre ==
  /\ MaxFd \in Nat \ {0} /\ PACK_HANDLES \in Nat \ {0} /\ PACK_FILE_SLOTS \in Nat \ {0}
  /\ RA_SLOTS \in Nat \ {0} /\ RA_PAGES \in Nat \ {0} /\ MAX_SINK_FDS \in Nat \ {0}
  /\ RA_PAGE \in Nat \ {0} /\ PACK_CACHE_SIZE \in Nat \ {0}
  /\ SIZE \in Nat \ {0} /\ MaxRead \in Nat \ {0}
  BY LimitsAssumption

LEMMA FilesAre ==
  /\ BigFiles \subseteq Files /\ PackedFiles \subseteq Files /\ UsymFiles \subseteq Files
  /\ \A f \in Files : f # "none" /\ f # "pack"
  BY FilesAssumption DEF Files

LEMMA LeastIs ==
  ASSUME NEW n \in Nat, NEW S \in SUBSET (1 .. n), S # {}
  PROVE  Min(S) \in S /\ \A x \in S : Min(S) <= x
<1>1. S \in SUBSET Nat
  OBVIOUS
<1>2. PICK m \in S : \A y \in S : ~(<<y, m>> \in OpToRel(<, Nat))
  BY <1>1, WFMin, NatLessThanWellFounded
<1>3. \A y \in S : ~(y < m)
  BY <1>1, <1>2 DEF OpToRel
<1>4. \A y \in S : m <= y
  BY <1>1, <1>3
<1>5. \E x \in S : \A y \in S : x <= y
  BY <1>4
<1> QED BY <1>5 DEF Min

LEMMA LowestIs ==
  ASSUME NEW n \in Nat, NEW S \in SUBSET (1 .. n)
  PROVE  /\ Lowest(S) = 0 <=> S = {}
         /\ Lowest(S) # 0 => Lowest(S) \in S
<1>1. CASE S = {}
  BY <1>1 DEF Lowest
<1>2. CASE S # {}
  <2>1. Min(S) \in S
    BY <1>2, LeastIs
  <2> QED BY <1>2, <2>1 DEF Lowest
<1> QED BY <1>1, <1>2

(* get_handle and ra_find: the one entry that goes by the number. *)
Lookups(fd) ==
  /\ HandleOf(fd) \in 0 .. PACK_HANDLES
  /\ HandleOf(fd) = 0 <=> \A i \in Handles : handles[i].fd # fd
  /\ HandleOf(fd) # 0 => handles[HandleOf(fd)].fd = fd
  /\ RaOf(fd) \in 0 .. RA_SLOTS
  /\ RaOf(fd) = 0 <=> \A i \in RaSlots : ra[i].fd # fd
  /\ RaOf(fd) # 0 => ra[RaOf(fd)].fd = fd

LEMMA LookupsFind == \A fd \in Fds : Lookups(fd)
<1> TAKE fd \in Fds
<1> DEFINE H == {i \in Handles : handles[i].fd = fd}
           R == {i \in RaSlots : ra[i].fd = fd}
<1>1. H \in SUBSET (1 .. PACK_HANDLES) /\ R \in SUBSET (1 .. RA_SLOTS)
  BY DEF Handles, RaSlots
<1>2. HandleOf(fd) = Lowest(H) /\ RaOf(fd) = Lowest(R)
  BY DEF HandleOf, RaOf, Handles, RaSlots
<1> HIDE DEF H, R
<1>3. /\ (Lowest(H) = 0 <=> H = {}) /\ (Lowest(H) # 0 => Lowest(H) \in H)
      /\ (Lowest(R) = 0 <=> R = {}) /\ (Lowest(R) # 0 => Lowest(R) \in R)
  BY <1>1, SizesAre, LowestIs
<1>4. Lowest(H) \in 0 .. PACK_HANDLES
  <2>1. Lowest(H) = 0 \/ Lowest(H) \in 1 .. PACK_HANDLES
    BY <1>1, <1>3
  <2> QED BY <2>1, SizesAre
<1>5. Lowest(R) \in 0 .. RA_SLOTS
  <2>1. Lowest(R) = 0 \/ Lowest(R) \in 1 .. RA_SLOTS
    BY <1>1, <1>3
  <2> QED BY <2>1, SizesAre
<1> QED BY <1>2, <1>3, <1>4, <1>5 DEF Lookups, H, R

(* A number the kernel gives is one nobody has. *)
LEMMA NextFdIs ==
  ASSUME NextFd # 0
  PROVE  NextFd \in Fds /\ kernel[NextFd] = Shut
<1> DEFINE S == {fd \in Fds : kernel[fd] = Shut}
<1>1. S \in SUBSET (1 .. MaxFd)
  BY DEF Fds
<1>2. NextFd = Lowest(S)
  BY DEF NextFd
<1> HIDE DEF S
<1>3. Lowest(S) \in S
  BY <1>1, <1>2, SizesAre, LowestIs
<1> QED BY <1>2, <1>3 DEF S

-----------------------------------------------------------------------------
(* A number whose entries and calls a step leaves alone. *)

LEMMA Elsewhere ==
  ASSUME NEW fd \in Fds, Number(fd), SameAt(fd)
  PROVE  Number(fd)'
<1>1. TablesAt(fd) /\ GameAt(fd) /\ \A t \in Threads : Calling(t, fd) => CallAt(t, fd)
  BY DEF Number
<1>2. TablesAt(fd)'
  <2>1. \A i \in Handles : handles'[i].fd = fd => HandleAt(i, fd)'
    BY <1>1 DEF TablesAt, HandleAt, SameAt
  <2>2. \A i, j \in Handles : handles'[i].fd = fd /\ handles'[j].fd = fd => i = j
    BY <1>1 DEF TablesAt, SameAt
  <2>3. \A i \in RaSlots : ra'[i].fd = fd => RaAt(i, fd)'
    BY <1>1 DEF TablesAt, RaAt, SameAt
  <2>4. \A i, j \in RaSlots : ra'[i].fd = fd /\ ra'[j].fd = fd => i = j
    BY <1>1 DEF TablesAt, SameAt
  <2>5. /\ \A i \in Sinks : sinks'[i] = fd => kernel'[fd].file \in UsymFiles /\ desc'[fd] # "none"
        /\ \A i, j \in Sinks : sinks'[i] = fd /\ sinks'[j] = fd => i = j
    BY <1>1 DEF TablesAt, SameAt
  <2> QED BY <2>1, <2>2, <2>3, <2>4, <2>5 DEF TablesAt
<1>3. GameAt(fd)'
  BY <1>1 DEF GameAt, SameAt
<1>4. ASSUME NEW t \in Threads, Calling(t, fd)'
      PROVE  CallAt(t, fd)'
  <2>1. call'[t] = call[t] /\ Calling(t, fd) /\ CallAt(t, fd)
    BY <1>1, <1>4 DEF SameAt, Calling
  <2> QED BY <1>1, <2>1 DEF CallAt, SameAt
<1>5. \E who, x : OwnedBy(fd, who, x)'
  <2>1. PICK who, x : OwnedBy(fd, who, x)
    BY DEF Number
  <2>2. \A t \in Threads : Calling(t, fd)' <=> Calling(t, fd)
    BY DEF SameAt, Calling
  <2>3. OwnedBy(fd, who, x)'
    BY <2>1, <2>2 DEF OwnedBy, SameAt
  <2> QED BY <2>3
<1> QED BY <1>2, <1>3, <1>4, <1>5 DEF Number

LEMMA OneStep ==
  ASSUME DescInv, TablesOK', NEW x, \A fd \in Fds : fd # x => SameAt(fd),
         x \in Fds => Number(x)'
  PROVE  DescInv'
  BY Elsewhere DEF DescInv

(* A step of a call that is no read, about number x. *)
LEMMA Seen ==
  ASSUME NEW x, \A fd \in Fds : fd # x => SameAt(fd),
         NEW t \in Threads, \A s \in Threads : s # t => call'[s] = call[s],
         call[t].op \notin ReadOps, call'[t].op \notin ReadOps,
         Quiet(x) \/ Opens(x) \/ Closes(x)
  PROVE  Effect
  BY DEF Effect

-----------------------------------------------------------------------------
(* What the calls in progress are, and how they change. *)

LEMMA CallIs ==
  ASSUME TablesOK, NEW t \in Threads
  PROVE  /\ call[t].op = "add_handle" =>
              /\ call[t].fd \in Fds /\ call[t].file \in PackedFiles
              /\ call[t].for \in {"open", "fopen"}
              /\ call[t] \in OpenCalls
         /\ call[t].op = "add_file" =>
              /\ call[t].fd \in 0 .. MaxFd /\ call[t].file \in PackedFiles
              /\ call[t].for = "fopen" /\ call[t] \in OpenCalls
         /\ call[t].op = "loose" =>
              /\ call[t].fd = NoFd /\ call[t].file \in PackedFiles
              /\ call[t].for \in {"open", "fopen"}
         /\ call[t].op \in {"ra_attach", "sink_add"} =>
              call[t].fd \in Fds /\ call[t].file \in Files
         /\ call[t].op = "pack_close" =>
              /\ call[t].fd \in Fds /\ call[t] \in StreamCalls
              /\ call[t].then = "loose" => call[t].file # "none"
         /\ call[t].op = "close" =>
              /\ call[t].fd \in Fds /\ call[t].then \in {"loose", "idle"}
              /\ call[t].then = "loose" => call[t].file \in PackedFiles
         /\ call[t].op \in ReadOps =>
              call[t] \in ReadCalls /\ Len(call[t].buf) <= call[t].want
         /\ call[t].op = "idle" <=> call[t] = Idle
         /\ call[t].op \in {"idle", "add_handle", "add_file", "loose", "ra_attach", "sink_add",
                            "pack_close", "close"} \cup ReadOps
<1>1. Legal(call[t])
  BY DEF TablesOK, CallsOK
<1>2. CASE call[t] = Idle
  BY <1>2 DEF Idle, ReadOps
<1>3. CASE /\ call[t] \in OpenCalls
           /\ call[t].op = "add_handle" => call[t].fd # NoFd
           /\ call[t].op = "add_file" => call[t].for = "fopen"
           /\ call[t].op = "loose" => call[t].fd = NoFd
  BY <1>3, SizesAre DEF OpenCalls, Idle, ReadOps, Fds, NoFd
<1>4. CASE call[t] \in AttachCalls
  BY <1>4 DEF AttachCalls, Idle, ReadOps
<1>5. CASE call[t] \in StreamCalls /\ (call[t].then = "loose" => call[t].file # "none")
  BY <1>5 DEF StreamCalls, Idle, ReadOps
<1>6. CASE call[t] \in CloseCalls
  BY <1>6 DEF CloseCalls, Idle, ReadOps
<1>7. CASE call[t] \in ReadCalls /\ Len(call[t].buf) <= call[t].want
  BY <1>7 DEF ReadCalls, Idle, ReadOps
<1> QED BY <1>1, <1>2, <1>3, <1>4, <1>5, <1>6, <1>7 DEF Legal

LEMMA CallChanges ==
  ASSUME TablesOK, NEW t \in Threads, NEW c, Legal(c), Busy(t, c)
  PROVE  /\ call'[t] = c
         /\ \A s \in Threads : s # t => call'[s] = call[s]
         /\ CallsOK'
<1>1. call = [s \in Threads |-> call[s]] /\ \A s \in Threads : Legal(call[s])
  BY DEF TablesOK, CallsOK
<1>2. call' = [s \in Threads |-> IF s = t THEN c ELSE call[s]]
  BY <1>1 DEF Busy
<1>3. call' = [s \in Threads |-> call'[s]]
  BY <1>2
<1>4. \A s \in Threads : Legal(call'[s])
  BY <1>1, <1>2
<1> QED BY <1>2, <1>3, <1>4 DEF CallsOK

(* One entry changes. *)
LEMMA KernelChanges ==
  ASSUME TablesOK, NEW fd \in Fds,
         NEW r \in [file : Files \cup {"none", "pack"}, pos : 0 .. SIZE],
         kernel' = [kernel EXCEPT ![fd] = r]
  PROVE  KernelOK' /\ kernel'[fd] = r /\ \A y \in Fds : y # fd => kernel'[y] = kernel[y]
  BY DEF TablesOK, KernelOK

LEMMA HandlesChange ==
  ASSUME TablesOK, NEW i \in Handles,
         NEW r \in [fd : 0 .. MaxFd, entry : Files \cup {"none"}, pos : 0 .. SIZE, cache : Caches],
         r.fd = 0 => r = NoHandle,
         handles' = [handles EXCEPT ![i] = r]
  PROVE  HandlesOK' /\ handles'[i] = r /\ \A h \in Handles : h # i => handles'[h] = handles[h]
  BY DEF TablesOK, HandlesOK

LEMMA RaChanges ==
  ASSUME TablesOK, NEW i \in RaSlots,
         NEW r \in [fd : 0 .. MaxFd, pos : 0 .. SIZE, page : [Pages -> Caches]],
         ra' = [ra EXCEPT ![i] = r]
  PROVE  RaOK' /\ ra'[i] = r /\ \A s \in RaSlots : s # i => ra'[s] = ra[s]
  BY DEF TablesOK, RaOK

LEMMA EntriesChange ==
  ASSUME TablesOK
  PROVE  /\ \A fd \in Fds, f \in Files \cup {"none"} :
              /\ [ino EXCEPT ![fd] = f] \in [Fds -> Files \cup {"none"}]
              /\ [ino EXCEPT ![fd] = f][fd] = f
              /\ \A y \in Fds : y # fd => [ino EXCEPT ![fd] = f][y] = ino[y]
              /\ [desc EXCEPT ![fd] = f] \in [Fds -> Files \cup {"none"}]
              /\ [desc EXCEPT ![fd] = f][fd] = f
              /\ \A y \in Fds : y # fd => [desc EXCEPT ![fd] = f][y] = desc[y]
         /\ \A i \in Sinks, fd \in 0 .. MaxFd :
              /\ [sinks EXCEPT ![i] = fd] \in [Sinks -> 0 .. MaxFd]
              /\ [sinks EXCEPT ![i] = fd][i] = fd
              /\ \A s \in Sinks : s # i => [sinks EXCEPT ![i] = fd][s] = sinks[s]
         /\ \A i \in FileSlots, fd \in -1 .. MaxFd :
              /\ [packFiles EXCEPT ![i] = fd] \in [FileSlots -> -1 .. MaxFd]
              /\ [packFiles EXCEPT ![i] = fd][i] = fd
              /\ \A s \in FileSlots : s # i => [packFiles EXCEPT ![i] = fd][s] = packFiles[s]
<1>1. /\ sinks \in [Sinks -> 0 .. MaxFd] /\ ino \in [Fds -> Files \cup {"none"}]
      /\ packFiles \in [FileSlots -> -1 .. MaxFd] /\ desc \in [Fds -> Files \cup {"none"}]
  BY DEF TablesOK, EntriesOK
<1> QED BY <1>1

LEMMA IdleIsLegal == Legal(Idle) /\ Idle.op = "idle"
  BY DEF Legal, Idle

-----------------------------------------------------------------------------
(* What a number's owner rules out. *)

Unlisted(fd) ==
  /\ \A i \in RaSlots : ra[i].fd # fd
  /\ \A i \in Sinks : sinks[i] # fd

LEMMA Closed ==
  ASSUME DescInv, NEW fd \in Fds, kernel[fd].file = "none"
  PROVE  /\ desc[fd] = "none" /\ fd \notin stdio /\ Unlisted(fd)
         /\ \A i \in FileSlots : packFiles[i] # fd
         /\ \A t \in Threads : ~Calling(t, fd)
         /\ \A i \in Handles : handles[i].fd # fd
<1>1. PICK who, x : OwnedBy(fd, who, x)
  BY DEF DescInv, Number
<1>2. TablesAt(fd)
  BY DEF DescInv, Number
<1> QED BY <1>1, <1>2, FilesAre DEF OwnedBy, TablesAt, HandleAt, RaAt, Unlisted

LEMMA OfCall ==
  ASSUME DescInv, NEW fd \in Fds, NEW t \in Threads, Calling(t, fd), call[t].op \notin ReadOps
  PROVE  /\ desc[fd] = "none" /\ fd \notin stdio /\ Unlisted(fd)
         /\ \A i \in FileSlots : packFiles[i] # fd
         /\ \A s \in Threads : Calling(s, fd) => s = t
         /\ kernel[fd].file # "none"
         /\ CallAt(t, fd)
<1>1. PICK who, x : OwnedBy(fd, who, x)
  BY DEF DescInv, Number
<1>2. TablesAt(fd) /\ CallAt(t, fd)
  BY DEF DescInv, Number
<1>3. desc[fd] = "none"
  BY <1>2 DEF CallAt
<1>4. who = "call" /\ x = t
  BY <1>1, <1>3 DEF OwnedBy
<1> QED BY <1>1, <1>2, <1>3, <1>4, FilesAre DEF OwnedBy, TablesAt, RaAt, Unlisted

LEMMA OfGame ==
  ASSUME DescInv, NEW fd \in Fds, desc[fd] # "none"
  PROVE  /\ fd \notin stdio /\ kernel[fd].file # "none" /\ ino[fd] = desc[fd]
         /\ \A i \in FileSlots : packFiles[i] # fd
         /\ \A s \in Threads : Calling(s, fd) => call[s].op \in ReadOps
         /\ \/ kernel[fd].file = desc[fd]
            \/ \E i \in Handles : handles[i].fd = fd
<1>1. PICK who, x : OwnedBy(fd, who, x)
  BY DEF DescInv, Number
<1>2. GameAt(fd) /\ \A t \in Threads : Calling(t, fd) => CallAt(t, fd)
  BY DEF DescInv, Number
<1> QED BY <1>1, <1>2 DEF OwnedBy, GameAt, CallAt

LEMMA OfStream ==
  ASSUME DescInv, NEW fd \in Fds, fd \in stdio
  PROVE  /\ desc[fd] = "none" /\ Unlisted(fd) /\ kernel[fd].file # "none"
         /\ \A i \in FileSlots : packFiles[i] # fd
         /\ \A t \in Threads : ~Calling(t, fd)
         /\ \A i \in Handles : handles[i].fd # fd
<1>1. PICK who, x : OwnedBy(fd, who, x)
  BY DEF DescInv, Number
<1>2. TablesAt(fd) /\ GameAt(fd)
  BY DEF DescInv, Number
<1> QED BY <1>1, <1>2, FilesAre DEF OwnedBy, TablesAt, GameAt, HandleAt, RaAt, Unlisted

LEMMA OfSlot ==
  ASSUME DescInv, NEW fd \in Fds, NEW i \in FileSlots, packFiles[i] = fd
  PROVE  /\ desc[fd] = "none" /\ Unlisted(fd) /\ kernel[fd].file = "pack"
         /\ fd \notin stdio
         /\ \A j \in FileSlots : packFiles[j] = fd => j = i
         /\ \A t \in Threads : ~Calling(t, fd)
<1>1. PICK who, x : OwnedBy(fd, who, x)
  BY DEF DescInv, Number
<1>2. TablesAt(fd) /\ GameAt(fd)
  BY DEF DescInv, Number
<1>3. kernel[fd].file = "pack"
  BY <1>2 DEF GameAt
<1> QED BY <1>1, <1>2, <1>3, FilesAre DEF OwnedBy, TablesAt, RaAt, Unlisted

-----------------------------------------------------------------------------
(* Opening.  A call without a number disturbs no number.                   *)

LEMMA CallOnly ==
  ASSUME DescInv, NEW t \in Threads, NEW c, Legal(c), Busy(t, c),
         call[t] = Idle \/ call[t].fd \notin Fds, c = Idle \/ c.fd \notin Fds,
         call[t].op \notin ReadOps, c.op \notin ReadOps,
         kernel' = kernel, handles' = handles, ra' = ra, sinks' = sinks, ino' = ino,
         stdio' = stdio, desc' = desc, packFiles' = packFiles
  PROVE  DescInv' /\ Effect
<1>1. TablesOK
  BY DEF DescInv
<1>2. /\ call'[t] = c
      /\ \A s \in Threads : s # t => call'[s] = call[s]
      /\ CallsOK'
  BY <1>1, CallChanges
<1>3. TablesOK'
  BY <1>1, <1>2 DEF TablesOK, KernelOK, HandlesOK, RaOK, EntriesOK
<1>4. \A fd \in Fds : SameAt(fd)
  BY <1>2 DEF SameAt, Calling
<1>5. 0 \notin Fds
  BY DEF Fds
<1>6. DescInv'
  BY <1>3, <1>4, <1>5, OneStep
<1>7. Quiet(0)
  BY <1>5 DEF Quiet
<1> QED BY <1>2, <1>4, <1>6, <1>7, Seen

(* Numbers that the call is not about. *)
LEMMA SameCalls ==
  ASSUME NEW t \in Threads, NEW fd, call[t] = Idle \/ call[t].fd # fd,
         call'[t] = Idle \/ call'[t].fd # fd, \A s \in Threads : s # t => call'[s] = call[s]
  PROVE  \A s \in Threads : Calling(s, fd)' \/ Calling(s, fd) => call'[s] = call[s]
  BY DEF Calling

LEMMA OpenPackedStep ==
  ASSUME DescInv, NEW t \in Threads, NEW f, NEW for \in {"open", "fopen"},
         OpenPacked(t, f, for)
  PROVE  DescInv' /\ Effect
<1>1. PICK x : x = NextFd
  OBVIOUS
<1>2. /\ handles' = handles /\ ra' = ra /\ sinks' = sinks /\ ino' = ino /\ stdio' = stdio
      /\ desc' = desc /\ packFiles' = packFiles /\ call[t] = Idle /\ f \in PackedFiles
  BY DEF OpenPacked, tables
<1>3. CASE x = 0
  <2>1. PICK c : c = [op |-> "add_file", fd |-> NoFd, file |-> f, for |-> for]
    OBVIOUS
  <2>2. Busy(t, c) /\ kernel' = kernel /\ for = "fopen"
    BY <1>1, <1>3, <2>1 DEF OpenPacked
  <2>3. Legal(c) /\ c.fd \notin Fds
    BY <1>2, <2>1, <2>2, SizesAre DEF Legal, OpenCalls, NoFd, Fds
  <2>4. call[t].op \notin ReadOps /\ c.op \notin ReadOps
    BY <1>2, <2>1 DEF Idle, ReadOps
  <2> QED BY <1>2, <2>2, <2>3, <2>4, CallOnly
<1>4. CASE x # 0
  <2>1. TablesOK /\ x \in Fds /\ kernel[x].file = "none"
    BY <1>1, <1>4, NextFdIs DEF DescInv, Shut
  <2>2. /\ desc[x] = "none" /\ x \notin stdio /\ Unlisted(x)
        /\ \A i \in FileSlots : packFiles[i] # x
        /\ \A s \in Threads : ~Calling(s, x)
        /\ \A i \in Handles : handles[i].fd # x
    BY <2>1, Closed
  <2>3. PICK c : c = [op |-> "add_handle", fd |-> x, file |-> f, for |-> for]
    OBVIOUS
  <2>4. /\ Busy(t, c)
        /\ kernel' = [kernel EXCEPT ![x] = [file |-> "pack", pos |-> 0]]
    BY <1>1, <1>4, <2>3 DEF OpenPacked
  <2>5. Legal(c)
    BY <1>2, <2>1, <2>3, SizesAre DEF Legal, OpenCalls, NoFd, Fds
  <2>6. /\ call'[t] = c
        /\ \A s \in Threads : s # t => call'[s] = call[s]
        /\ CallsOK'
    BY <2>1, <2>4, <2>5, CallChanges
  <2>7. /\ KernelOK' /\ kernel'[x] = [file |-> "pack", pos |-> 0]
        /\ \A y \in Fds : y # x => kernel'[y] = kernel[y]
    <3>1. [file |-> "pack", pos |-> 0] \in [file : Files \cup {"none", "pack"}, pos : 0 .. SIZE]
      BY SizesAre
    <3> QED BY <2>1, <2>4, <3>1, KernelChanges
  <2>8. TablesOK'
    BY <1>2, <2>1, <2>6, <2>7 DEF TablesOK, HandlesOK, RaOK, EntriesOK
  <2>9. ASSUME NEW fd \in Fds, fd # x  PROVE SameAt(fd)
    <3>1. \A s \in Threads : Calling(s, fd)' \/ Calling(s, fd) => call'[s] = call[s]
      BY <1>2, <2>3, <2>6, <2>9, SameCalls
    <3> QED BY <1>2, <2>7, <2>9, <3>1 DEF SameAt
  <2>10. \A s \in Threads : Calling(s, x)' <=> s = t
    BY <1>2, <2>2, <2>3, <2>6 DEF Calling, Idle
  <2>11. TablesAt(x)' /\ GameAt(x)'
    BY <1>2, <2>2, <2>7, FilesAre DEF TablesAt, GameAt, Unlisted
  <2>12. CallAt(t, x)'
    BY <1>2, <2>2, <2>3, <2>6, <2>7 DEF CallAt, ReadOps
  <2>13. OwnedBy(x, "call", t)'
    BY <1>2, <2>2, <2>7, <2>10 DEF OwnedBy
  <2>14. DescInv'
    BY <2>8, <2>9, <2>10, <2>11, <2>12, <2>13, OneStep DEF Number
  <2>15. call[t].op \notin ReadOps /\ call'[t].op \notin ReadOps
    BY <1>2, <2>3, <2>6 DEF Idle, ReadOps
  <2>16. Quiet(x)
    BY <1>2, <2>2 DEF Quiet
  <2> QED BY <2>6, <2>9, <2>14, <2>15, <2>16, Seen
<1> QED BY <1>3, <1>4

(* The free entries the code looks for. *)
LEMMA FreeEntries ==
  /\ LET i == Lowest({h \in 1 .. PACK_HANDLES : handles[h] = NoHandle}) IN
       i # 0 => i \in Handles /\ handles[i] = NoHandle
  /\ LET i == Lowest({s \in 1 .. RA_SLOTS : ra[s].fd = 0}) IN
       i # 0 => i \in RaSlots /\ ra[i].fd = 0
  /\ LET i == Lowest({s \in 1 .. MAX_SINK_FDS : sinks[s] = 0}) IN
       i # 0 => i \in Sinks /\ sinks[i] = 0
  /\ LET i == Lowest({s \in 1 .. PACK_FILE_SLOTS : packFiles[s] = Free}) IN
       i # 0 => i \in FileSlots /\ packFiles[i] = Free
<1> DEFINE H == {h \in 1 .. PACK_HANDLES : handles[h] = NoHandle}
           R == {s \in 1 .. RA_SLOTS : ra[s].fd = 0}
           K == {s \in 1 .. MAX_SINK_FDS : sinks[s] = 0}
           F == {s \in 1 .. PACK_FILE_SLOTS : packFiles[s] = Free}
<1>1. /\ H \in SUBSET (1 .. PACK_HANDLES) /\ R \in SUBSET (1 .. RA_SLOTS)
      /\ K \in SUBSET (1 .. MAX_SINK_FDS) /\ F \in SUBSET (1 .. PACK_FILE_SLOTS)
  OBVIOUS
<1>2. /\ Lowest(H) # 0 => Lowest(H) \in H
      /\ Lowest(R) # 0 => Lowest(R) \in R
      /\ Lowest(K) # 0 => Lowest(K) \in K
      /\ Lowest(F) # 0 => Lowest(F) \in F
  <2> HIDE DEF H, R, K, F
  <2> QED BY <1>1, SizesAre, LowestIs
<1> QED BY <1>2 DEF Handles, RaSlots, Sinks, FileSlots

LEMMA ShutIs == Shut \in [file : Files \cup {"none", "pack"}, pos : 0 .. SIZE]
  BY SizesAre DEF Shut

LEMMA AddHandleStep ==
  ASSUME DescInv, NEW t \in Threads, AddHandle(t)
  PROVE  DescInv' /\ Effect
<1>1. PICK x, f, i : /\ x = call[t].fd /\ f = call[t].file
                     /\ i = Lowest({h \in 1 .. PACK_HANDLES : handles[h] = NoHandle})
  OBVIOUS
<1>2. TablesOK /\ call[t].op = "add_handle"
  BY DEF DescInv, AddHandle
<1>3. /\ x \in Fds /\ f \in PackedFiles /\ call[t].for \in {"open", "fopen"}
      /\ call[t] \in OpenCalls
  BY <1>1, <1>2, CallIs
<1>4. Calling(t, x) /\ call[t].op \notin ReadOps
  BY <1>1, <1>2 DEF Calling, Idle, ReadOps
<1>5. /\ desc[x] = "none" /\ x \notin stdio /\ Unlisted(x)
      /\ \A s \in FileSlots : packFiles[s] # x
      /\ \A s \in Threads : Calling(s, x) => s = t
      /\ kernel[x].file = "pack" /\ \A h \in Handles : handles[h].fd # x
  <2>1. CallAt(t, x) /\ desc[x] = "none" /\ x \notin stdio /\ Unlisted(x)
        /\ (\A s \in FileSlots : packFiles[s] # x)
        /\ (\A s \in Threads : Calling(s, x) => s = t)
    BY <1>3, <1>4, OfCall
  <2> QED BY <1>2, <2>1 DEF CallAt
<1>6. ra' = ra /\ sinks' = sinks /\ packFiles' = packFiles /\ stdio' = stdio
  BY DEF AddHandle
<1>7. CASE i # 0
  <2>1. i \in Handles /\ handles[i] = NoHandle
    BY <1>1, <1>7, FreeEntries
  <2>2. /\ handles' = [handles EXCEPT ![i] = [NoHandle EXCEPT !.fd = x, !.entry = f]]
        /\ kernel' = kernel
    BY <1>1, <1>7 DEF AddHandle
  <2>3. PICK r : r = [fd |-> x, entry |-> f, pos |-> 0, cache |-> NoCache]
    OBVIOUS
  <2>4. /\ HandlesOK' /\ handles'[i] = r
        /\ \A h \in Handles : h # i => handles'[h] = handles[h]
        /\ handles[i].fd = 0 /\ x # 0
    <3>1. handles' = [handles EXCEPT ![i] = r] /\ handles[i].fd = 0 /\ x # 0
      <4>1. [NoHandle EXCEPT !.fd = x, !.entry = f] = r
        <5>1. PICK m : m = [NoHandle EXCEPT !.fd = x]
          OBVIOUS
        <5>2. m = [fd |-> x, entry |-> "none", pos |-> 0, cache |-> NoCache]
          BY <5>1 DEF NoHandle
        <5>3. [m EXCEPT !.entry = f] = r
          BY <2>3, <5>2
        <5>4. [NoHandle EXCEPT !.fd = x, !.entry = f] = [m EXCEPT !.entry = f]
          BY <5>1
        <5> QED BY <5>3, <5>4
      <4>2. handles[i].fd = 0
        BY <2>1 DEF NoHandle
      <4>3. x # 0
        BY <1>3 DEF Fds
      <4> QED BY <2>2, <4>1, <4>2, <4>3
    <3>2. r \in [fd : 0 .. MaxFd, entry : Files \cup {"none"}, pos : 0 .. SIZE, cache : Caches]
      BY <1>3, <2>3, FilesAre, SizesAre DEF Caches, NoCache, Fds
    <3>3. r.fd # 0
      BY <2>3, <3>1
    <3> QED BY <1>2, <2>1, <3>1, <3>2, <3>3, HandlesChange
  <2>5. ASSUME kernel'[x].file = "pack", desc'[x] \in {"none", f}
        PROVE  TablesAt(x)'
    <3>1. HandleAt(i, x)'
      BY <1>3, <2>3, <2>4, <2>5 DEF HandleAt, Holding, NoCache
    <3>2. \A h \in Handles : handles'[h].fd = x => h = i
      BY <1>5, <2>4
    <3> QED BY <1>5, <1>6, <3>1, <3>2 DEF TablesAt, Unlisted
  <2>6. CASE call[t].for = "open"
    <3>1. ino' = [ino EXCEPT ![x] = f] /\ desc' = [desc EXCEPT ![x] = f] /\ Busy(t, Idle)
      BY <1>1, <1>7, <2>6 DEF AddHandle, Opened, Return
    <3>2. /\ call'[t] = Idle
          /\ \A s \in Threads : s # t => call'[s] = call[s]
          /\ CallsOK'
      BY <1>2, <3>1, IdleIsLegal, CallChanges
    <3>3. TablesOK'
      <4>1. f \in Files \cup {"none"}
        BY <1>3, FilesAre
      <4>2. ino' \in [Fds -> Files \cup {"none"}] /\ desc' \in [Fds -> Files \cup {"none"}]
        BY <1>2, <1>3, <3>1, <4>1, EntriesChange
      <4> QED BY <1>2, <1>6, <2>2, <2>4, <3>2, <4>2 DEF TablesOK, KernelOK, RaOK, EntriesOK
    <3>4. ASSUME NEW fd \in Fds, fd # x  PROVE SameAt(fd)
      <4>1. \A s \in Threads : Calling(s, fd)' \/ Calling(s, fd) => call'[s] = call[s]
        BY <1>1, <3>2, <3>4, SameCalls
      <4>2. ino'[fd] = ino[fd] /\ desc'[fd] = desc[fd]
        BY <1>2, <1>3, <3>1, <3>4, FilesAre, EntriesChange
      <4>3. \A h \in Handles : handles'[h].fd = fd \/ handles[h].fd = fd => handles'[h] = handles[h]
        BY <2>3, <2>4, <3>4 DEF Fds
      <4> QED BY <1>6, <2>2, <4>1, <4>2, <4>3 DEF SameAt
    <3>5. /\ desc'[x] = f /\ ino'[x] = f /\ f # "none"
          /\ \A s \in Threads : ~Calling(s, x)'
      <4>1. desc'[x] = f /\ ino'[x] = f /\ f # "none"
        BY <1>2, <1>3, <3>1, FilesAre, EntriesChange
      <4> QED BY <1>5, <3>2, <4>1 DEF Calling
    <3>6. GameAt(x)'
      BY <1>5, <1>6, <2>1, <2>2, <2>3, <2>4, <3>5 DEF GameAt
    <3>7. OwnedBy(x, "game", 0)'
      BY <1>5, <1>6, <2>2, <3>5 DEF OwnedBy
    <3>8. TablesAt(x)'
      BY <1>5, <2>2, <2>5, <3>5
    <3>9. DescInv'
      BY <3>3, <3>4, <3>5, <3>6, <3>7, <3>8, OneStep DEF Number
    <3>10. call[t].op \notin ReadOps /\ call'[t].op \notin ReadOps
      BY <1>4, <3>2, IdleIsLegal DEF ReadOps
    <3>11. Opens(x)
      BY <1>3, <1>5, <1>6, <2>1, <2>3, <2>4, <3>5 DEF Opens, PosIs, Unlisted
    <3> QED BY <3>2, <3>4, <3>9, <3>10, <3>11, Seen
  <2>7. CASE call[t].for # "open"
    <3>1. PICK c : c = [call[t] EXCEPT !.op = "add_file"]
      OBVIOUS
    <3>2. Busy(t, c) /\ ino' = ino /\ desc' = desc
      BY <1>7, <1>1, <2>7, <3>1 DEF AddHandle
    <3>3. c.op = "add_file" /\ c.fd = x /\ c.for = "fopen" /\ c \in OpenCalls
      BY <1>1, <1>3, <2>7, <3>1 DEF OpenCalls
    <3>4. Legal(c)
      BY <3>3 DEF Legal
    <3>5. /\ call'[t] = c
          /\ \A s \in Threads : s # t => call'[s] = call[s]
          /\ CallsOK'
      BY <1>2, <3>2, <3>4, CallChanges
    <3>6. TablesOK'
      BY <1>2, <1>6, <2>2, <2>4, <3>2, <3>5 DEF TablesOK, KernelOK, RaOK, EntriesOK
    <3>7. ASSUME NEW fd \in Fds, fd # x  PROVE SameAt(fd)
      <4>1. \A s \in Threads : Calling(s, fd)' \/ Calling(s, fd) => call'[s] = call[s]
        BY <1>1, <3>3, <3>5, <3>7, SameCalls
      <4>2. \A h \in Handles : handles'[h].fd = fd \/ handles[h].fd = fd => handles'[h] = handles[h]
        BY <2>3, <2>4, <3>7 DEF Fds
      <4> QED BY <1>6, <2>2, <3>2, <4>1, <4>2 DEF SameAt
    <3>8. \A s \in Threads : Calling(s, x)' <=> s = t
      BY <1>5, <3>3, <3>5 DEF Calling, Idle
    <3>9. GameAt(x)' /\ TablesAt(x)'
      BY <1>5, <1>6, <2>2, <2>5, <3>2 DEF GameAt
    <3>10. CallAt(t, x)'
      BY <1>5, <2>2, <3>2, <3>3, <3>5 DEF CallAt, ReadOps
    <3>11. OwnedBy(x, "call", t)'
      BY <1>5, <1>6, <2>2, <3>2, <3>8 DEF OwnedBy
    <3>12. DescInv'
      BY <3>6, <3>7, <3>8, <3>9, <3>10, <3>11, OneStep DEF Number
    <3>13. call[t].op \notin ReadOps /\ call'[t].op \notin ReadOps
      BY <1>4, <3>3, <3>5 DEF ReadOps
    <3>14. Quiet(x)
      BY <1>5, <3>2 DEF Quiet
    <3> QED BY <3>5, <3>7, <3>12, <3>13, <3>14, Seen
  <2> QED BY <2>6, <2>7
<1>8. CASE i = 0
  <2>1. PICK c : c = IF call[t].for = "open" THEN [call[t] EXCEPT !.op = "loose", !.fd = NoFd]
                     ELSE [call[t] EXCEPT !.op = "add_file", !.fd = NoFd]
    OBVIOUS
  <2>2. /\ Busy(t, c) /\ kernel' = [kernel EXCEPT ![x] = Shut]
        /\ handles' = handles /\ ino' = ino /\ desc' = desc
    BY <1>1, <1>8, <2>1 DEF AddHandle
  <2>3. c.fd = 0 /\ c \in OpenCalls /\ c.op \in {"loose", "add_file"} /\ (c.op = "add_file" => c.for = "fopen")
    <3>1. 0 \in 0 .. MaxFd
      BY SizesAre
    <3>2. CASE call[t].for = "open"
      BY <1>3, <2>1, <3>1, <3>2 DEF OpenCalls, NoFd
    <3>3. CASE call[t].for # "open"
      BY <1>3, <2>1, <3>1, <3>3 DEF OpenCalls, NoFd
    <3> QED BY <3>2, <3>3
  <2>4. Legal(c)
    BY <2>3 DEF Legal, NoFd
  <2>5. /\ call'[t] = c
        /\ \A s \in Threads : s # t => call'[s] = call[s]
        /\ CallsOK'
    BY <1>2, <2>2, <2>4, CallChanges
  <2>6. /\ KernelOK' /\ kernel'[x] = Shut
        /\ \A y \in Fds : y # x => kernel'[y] = kernel[y]
    BY <1>2, <1>3, <2>2, ShutIs, KernelChanges
  <2>7. TablesOK'
    BY <1>2, <1>6, <2>2, <2>5, <2>6 DEF TablesOK, HandlesOK, RaOK, EntriesOK
  <2>8. ASSUME NEW fd \in Fds, fd # x  PROVE SameAt(fd)
    <3>1. \A s \in Threads : Calling(s, fd)' \/ Calling(s, fd) => call'[s] = call[s]
      BY <1>1, <2>3, <2>5, <2>8, SameCalls DEF Fds
    <3> QED BY <1>6, <2>2, <2>6, <2>8, <3>1 DEF SameAt
  <2>9. \A s \in Threads : ~Calling(s, x)'
    BY <1>3, <1>5, <2>3, <2>5 DEF Calling, Fds
  <2>10. GameAt(x)' /\ TablesAt(x)'
    BY <1>5, <1>6, <2>2, <2>6 DEF GameAt, TablesAt, Unlisted, Shut
  <2>11. OwnedBy(x, "nobody", 0)'
    BY <1>5, <1>6, <2>2, <2>6, <2>9 DEF OwnedBy, Shut
  <2>12. DescInv'
    BY <2>7, <2>8, <2>9, <2>10, <2>11, OneStep DEF Number
  <2>13. call[t].op \notin ReadOps /\ call'[t].op \notin ReadOps
    BY <1>4, <2>3, <2>5 DEF ReadOps
  <2>14. Quiet(x)
    BY <1>5, <2>2 DEF Quiet
  <2> QED BY <2>5, <2>8, <2>12, <2>13, <2>14, Seen
<1> QED BY <1>7, <1>8

LEMMA OpenLooseStep ==
  ASSUME DescInv, NEW t \in Threads, NEW f \in Files, OpenLoose(t, f)
  PROVE  DescInv' /\ Effect
<1>1. PICK x : x = NextFd
  OBVIOUS
<1>2. /\ handles' = handles /\ ra' = ra /\ sinks' = sinks /\ stdio' = stdio
      /\ packFiles' = packFiles /\ x # 0
      /\ kernel' = [kernel EXCEPT ![x] = [file |-> f, pos |-> 0]]
      /\ ino' = [ino EXCEPT ![x] = f]
  BY <1>1 DEF OpenLoose
<1>3. TablesOK /\ x \in Fds /\ kernel[x].file = "none"
  BY <1>1, <1>2, NextFdIs DEF DescInv, Shut
<1>4. /\ desc[x] = "none" /\ x \notin stdio /\ Unlisted(x)
      /\ \A i \in FileSlots : packFiles[i] # x
      /\ \A s \in Threads : ~Calling(s, x)
      /\ \A i \in Handles : handles[i].fd # x
  BY <1>3, Closed
<1>5. (call[t] = Idle \/ call[t].fd = 0) /\ call[t].op \notin ReadOps
  <2>1. call[t] = Idle \/ call[t].op = "loose"
    BY DEF OpenLoose
  <2> QED BY <1>3, <2>1, CallIs DEF NoFd, Idle, ReadOps
<1>6. /\ KernelOK' /\ kernel'[x] = [file |-> f, pos |-> 0]
      /\ \A y \in Fds : y # x => kernel'[y] = kernel[y]
  <2>1. [file |-> f, pos |-> 0] \in [file : Files \cup {"none", "pack"}, pos : 0 .. SIZE]
    BY SizesAre
  <2> QED BY <1>2, <1>3, <2>1, KernelChanges
<1>7. /\ ino' \in [Fds -> Files \cup {"none"}] /\ ino'[x] = f
      /\ \A y \in Fds : y # x => ino'[y] = ino[y]
  BY <1>2, <1>3, EntriesChange
<1>8. f # "none" /\ f # "pack"
  BY FilesAre
<1>9. CASE f \in BigFiles \cup UsymFiles
  <2>1. PICK c : c = [op |-> IF f \in BigFiles THEN "ra_attach" ELSE "sink_add",
                      fd |-> x, file |-> f]
    OBVIOUS
  <2>2. Busy(t, c) /\ desc' = desc
    BY <1>1, <1>9, <2>1 DEF OpenLoose
  <2>3. Legal(c)
    BY <1>3, <2>1 DEF Legal, AttachCalls
  <2>4. /\ call'[t] = c
        /\ \A s \in Threads : s # t => call'[s] = call[s]
        /\ CallsOK'
    BY <1>3, <2>2, <2>3, CallChanges
  <2>5. TablesOK'
    BY <1>2, <1>3, <1>6, <1>7, <2>2, <2>4 DEF TablesOK, HandlesOK, RaOK, EntriesOK
  <2>6. ASSUME NEW fd \in Fds, fd # x  PROVE SameAt(fd)
    <3>1. \A s \in Threads : Calling(s, fd)' \/ Calling(s, fd) => call'[s] = call[s]
      BY <1>5, <2>1, <2>4, <2>6, SameCalls DEF Fds
    <3> QED BY <1>2, <1>6, <1>7, <2>2, <2>6, <3>1 DEF SameAt
  <2>7. \A s \in Threads : Calling(s, x)' <=> s = t
    BY <1>4, <2>1, <2>4 DEF Calling, Idle
  <2>8. TablesAt(x)' /\ GameAt(x)'
    BY <1>2, <1>4, <1>6, <1>8, <2>2 DEF TablesAt, GameAt, Unlisted
  <2>9. CallAt(t, x)'
    <3>1. /\ c.op \in {"ra_attach", "sink_add"} /\ c.file = f
          /\ (c.op = "ra_attach" => f \in BigFiles) /\ (c.op = "sink_add" => f \in UsymFiles)
      BY <1>9, <2>1
    <3> QED BY <1>2, <1>4, <1>6, <1>7, <2>2, <2>4, <3>1 DEF CallAt, ReadOps
  <2>10. OwnedBy(x, "call", t)'
    BY <1>2, <1>4, <1>6, <1>8, <2>2, <2>7 DEF OwnedBy
  <2>11. DescInv'
    BY <2>5, <2>6, <2>7, <2>8, <2>9, <2>10, OneStep DEF Number
  <2>12. call[t].op \notin ReadOps /\ call'[t].op \notin ReadOps
    BY <1>5, <2>1, <2>4 DEF ReadOps
  <2>13. Quiet(x)
    BY <1>4, <2>2 DEF Quiet
  <2> QED BY <2>4, <2>6, <2>11, <2>12, <2>13, Seen
<1>10. CASE f \notin BigFiles \cup UsymFiles
  <2>1. desc' = [desc EXCEPT ![x] = f] /\ Busy(t, Idle)
    BY <1>1, <1>10 DEF OpenLoose, Opened, Return
  <2>2. /\ desc' \in [Fds -> Files \cup {"none"}] /\ desc'[x] = f
        /\ \A y \in Fds : y # x => desc'[y] = desc[y]
    BY <1>3, <2>1, EntriesChange
  <2>3. /\ call'[t] = Idle
        /\ \A s \in Threads : s # t => call'[s] = call[s]
        /\ CallsOK'
    BY <1>3, <2>1, IdleIsLegal, CallChanges
  <2>4. TablesOK'
    BY <1>2, <1>3, <1>6, <1>7, <2>2, <2>3 DEF TablesOK, HandlesOK, RaOK, EntriesOK
  <2>5. ASSUME NEW fd \in Fds, fd # x  PROVE SameAt(fd)
    <3>1. \A s \in Threads : Calling(s, fd)' \/ Calling(s, fd) => call'[s] = call[s]
      BY <1>5, <2>3, <2>5, SameCalls DEF Fds
    <3> QED BY <1>2, <1>6, <1>7, <2>2, <2>5, <3>1 DEF SameAt
  <2>6. \A s \in Threads : ~Calling(s, x)'
    BY <1>4, <2>3 DEF Calling
  <2>7. TablesAt(x)' /\ GameAt(x)'
    BY <1>2, <1>4, <1>6, <1>7, <1>8, <2>2 DEF TablesAt, GameAt, Unlisted
  <2>8. OwnedBy(x, "game", 0)'
    BY <1>2, <1>4, <1>6, <1>8, <2>2, <2>6 DEF OwnedBy
  <2>9. DescInv'
    BY <2>4, <2>5, <2>6, <2>7, <2>8, OneStep DEF Number
  <2>10. call[t].op \notin ReadOps /\ call'[t].op \notin ReadOps
    BY <1>5, <2>3, IdleIsLegal DEF ReadOps
  <2>11. Opens(x)
    BY <1>2, <1>3, <1>4, <1>6, <1>8, <2>2 DEF Opens, PosIs, Unlisted
  <2> QED BY <2>3, <2>5, <2>9, <2>10, <2>11, Seen
<1> QED BY <1>9, <1>10

LEMMA OpenFailsStep ==
  ASSUME DescInv, NEW t \in Threads, OpenFails(t)
  PROVE  DescInv' /\ Effect
<1>1. TablesOK /\ call[t].op = "loose"
  BY DEF DescInv, OpenFails
<1>2. call[t].fd \notin Fds
  BY <1>1, CallIs DEF NoFd, Fds
<1>3. /\ kernel' = kernel /\ handles' = handles /\ ra' = ra /\ sinks' = sinks /\ ino' = ino
      /\ stdio' = stdio /\ desc' = desc /\ packFiles' = packFiles /\ Busy(t, Idle)
  BY DEF OpenFails, tables, Return
<1>4. call[t].op \notin ReadOps /\ Idle.op \notin ReadOps
  BY <1>1, IdleIsLegal DEF ReadOps
<1> QED BY <1>2, <1>3, <1>4, IdleIsLegal, CallOnly

(* What ra_attach and usym_sink_add find of their number. *)
LEMMA Attaching ==
  ASSUME DescInv, NEW t \in Threads, call[t].op \in {"ra_attach", "sink_add"}
  PROVE  LET x == call[t].fd  f == call[t].file IN
         /\ x \in Fds /\ f \in Files /\ f # "none" /\ f # "pack"
         /\ desc[x] = "none" /\ x \notin stdio /\ Unlisted(x)
         /\ \A i \in FileSlots : packFiles[i] # x
         /\ \A s \in Threads : Calling(s, x) => s = t
         /\ kernel[x] = [file |-> f, pos |-> 0] /\ ino[x] = f
         /\ \A i \in Handles : handles[i].fd # x
         /\ call[t].op = "ra_attach" => f \in BigFiles
         /\ call[t].op = "sink_add" => f \in UsymFiles
<1>1. TablesOK
  BY DEF DescInv
<1>2. call[t].fd \in Fds /\ call[t].file \in Files
  BY <1>1, CallIs
<1>3. Calling(t, call[t].fd) /\ call[t].op \notin ReadOps
  BY DEF Calling, Idle, ReadOps
<1>4. /\ desc[call[t].fd] = "none" /\ call[t].fd \notin stdio /\ Unlisted(call[t].fd)
      /\ \A i \in FileSlots : packFiles[i] # call[t].fd
      /\ \A s \in Threads : Calling(s, call[t].fd) => s = t
      /\ CallAt(t, call[t].fd)
  BY <1>2, <1>3, OfCall
<1>5. call[t].file # "none" /\ call[t].file # "pack"
  BY <1>2, FilesAre
<1> QED BY <1>2, <1>4, <1>5 DEF CallAt

LEMMA RaAttachStep ==
  ASSUME DescInv, NEW t \in Threads, RaAttach(t)
  PROVE  DescInv' /\ Effect
<1>1. PICK x, f, i : /\ x = call[t].fd /\ f = call[t].file
                     /\ i = Lowest({s \in 1 .. RA_SLOTS : ra[s].fd = 0})
  OBVIOUS
<1>2. TablesOK /\ call[t].op = "ra_attach"
  BY DEF DescInv, RaAttach
<1>3. /\ x \in Fds /\ f \in BigFiles /\ f \in Files /\ f # "none" /\ f # "pack"
      /\ desc[x] = "none" /\ x \notin stdio /\ Unlisted(x)
      /\ \A s \in FileSlots : packFiles[s] # x
      /\ \A s \in Threads : Calling(s, x) => s = t
      /\ kernel[x] = [file |-> f, pos |-> 0] /\ ino[x] = f
      /\ \A h \in Handles : handles[h].fd # x
  BY <1>1, <1>2, Attaching
<1>4. /\ kernel' = kernel /\ handles' = handles /\ sinks' = sinks /\ stdio' = stdio
      /\ ino' = ino /\ packFiles' = packFiles
      /\ desc' = [desc EXCEPT ![x] = f] /\ Busy(t, Idle)
  BY <1>1 DEF RaAttach, Opened, Return
<1>5. /\ desc' \in [Fds -> Files \cup {"none"}] /\ desc'[x] = f
      /\ \A y \in Fds : y # x => desc'[y] = desc[y]
  BY <1>2, <1>3, <1>4, EntriesChange
<1>6. /\ call'[t] = Idle
      /\ \A s \in Threads : s # t => call'[s] = call[s]
      /\ CallsOK'
  BY <1>2, <1>4, IdleIsLegal, CallChanges
<1>7. /\ RaOK'
      /\ \A fd \in Fds : fd # x =>
           \A s \in RaSlots : ra'[s].fd = fd \/ ra[s].fd = fd => ra'[s] = ra[s]
      /\ \A s \in RaSlots : ra'[s].fd = x => /\ \A p \in Pages : ra'[s].page[p] = NoCache
                                             /\ ra'[s].pos = 0
      /\ \A s, j \in RaSlots : ra'[s].fd = x /\ ra'[j].fd = x => s = j
  <2>1. CASE i = 0
    <3>1. ra' = ra
      BY <1>1, <2>1 DEF RaAttach
    <3> QED BY <1>2, <1>3, <3>1 DEF TablesOK, RaOK, Unlisted
  <2>2. CASE i # 0
    <3>1. i \in RaSlots /\ ra[i].fd = 0
      BY <1>1, <2>2, FreeEntries
    <3>2. PICK r : r = [NoRa EXCEPT !.fd = x]
      OBVIOUS
    <3>3. r = [fd |-> x, pos |-> 0, page |-> [p \in Pages |-> NoCache]]
      BY <3>2 DEF NoRa, Pages
    <3>4. ra' = [ra EXCEPT ![i] = r]
      BY <1>1, <2>2, <3>2 DEF RaAttach
    <3>5. r \in [fd : 0 .. MaxFd, pos : 0 .. SIZE, page : [Pages -> Caches]]
      <4>1. NoCache \in Caches
        BY DEF NoCache, Caches
      <4>2. [p \in Pages |-> NoCache] \in [Pages -> Caches]
        BY <4>1
      <4> QED BY <1>3, <3>3, <4>2, SizesAre DEF Fds
    <3>6. RaOK' /\ ra'[i] = r /\ \A s \in RaSlots : s # i => ra'[s] = ra[s]
      BY <1>2, <3>1, <3>4, <3>5, RaChanges
    <3>7. r.fd = x /\ r.pos = 0 /\ \A p \in Pages : r.page[p] = NoCache
      BY <3>3
    <3> QED BY <1>3, <3>1, <3>6, <3>7 DEF Unlisted, Fds
  <2> QED BY <2>1, <2>2
<1>8. TablesOK'
  BY <1>2, <1>4, <1>5, <1>6, <1>7 DEF TablesOK, KernelOK, HandlesOK, EntriesOK
<1>9. ASSUME NEW fd \in Fds, fd # x  PROVE SameAt(fd)
  <2>1. \A s \in Threads : Calling(s, fd)' \/ Calling(s, fd) => call'[s] = call[s]
    BY <1>1, <1>6, <1>9, SameCalls
  <2> QED BY <1>4, <1>5, <1>7, <1>9, <2>1 DEF SameAt
<1>10. \A s \in Threads : ~Calling(s, x)'
  BY <1>3, <1>6 DEF Calling
<1>11. \A s \in RaSlots : ra'[s].fd = x => RaAt(s, x)'
  BY <1>3, <1>4, <1>5, <1>7 DEF RaAt, Holding, NoCache
<1>12. TablesAt(x)' /\ GameAt(x)'
  BY <1>3, <1>4, <1>5, <1>7, <1>11 DEF TablesAt, GameAt, Unlisted
<1>13. OwnedBy(x, "game", 0)'
  BY <1>3, <1>4, <1>5, <1>10 DEF OwnedBy
<1>14. DescInv'
  BY <1>8, <1>9, <1>10, <1>12, <1>13, OneStep DEF Number
<1>15. call[t].op \notin ReadOps /\ call'[t].op \notin ReadOps
  BY <1>2, <1>6, IdleIsLegal DEF ReadOps
<1>16. Opens(x)
  BY <1>3, <1>4, <1>5, <1>7 DEF Opens, PosIs
<1> QED BY <1>6, <1>9, <1>14, <1>15, <1>16, Seen

LEMMA SinkAddStep ==
  ASSUME DescInv, NEW t \in Threads, SinkAdd(t)
  PROVE  DescInv' /\ Effect
<1>1. PICK x, f, i : /\ x = call[t].fd /\ f = call[t].file
                     /\ i = Lowest({s \in 1 .. MAX_SINK_FDS : sinks[s] = 0})
  OBVIOUS
<1>2. TablesOK /\ call[t].op = "sink_add"
  BY DEF DescInv, SinkAdd
<1>3. /\ x \in Fds /\ f \in UsymFiles /\ f \in Files /\ f # "none" /\ f # "pack"
      /\ desc[x] = "none" /\ x \notin stdio /\ Unlisted(x)
      /\ \A s \in FileSlots : packFiles[s] # x
      /\ \A s \in Threads : Calling(s, x) => s = t
      /\ kernel[x] = [file |-> f, pos |-> 0] /\ ino[x] = f
      /\ \A h \in Handles : handles[h].fd # x
  BY <1>1, <1>2, Attaching
<1>4. /\ kernel' = kernel /\ handles' = handles /\ ra' = ra /\ stdio' = stdio
      /\ ino' = ino /\ packFiles' = packFiles
      /\ desc' = [desc EXCEPT ![x] = f] /\ Busy(t, Idle)
  BY <1>1 DEF SinkAdd, Opened, Return
<1>5. /\ desc' \in [Fds -> Files \cup {"none"}] /\ desc'[x] = f
      /\ \A y \in Fds : y # x => desc'[y] = desc[y]
  BY <1>2, <1>3, <1>4, EntriesChange
<1>6. /\ call'[t] = Idle
      /\ \A s \in Threads : s # t => call'[s] = call[s]
      /\ CallsOK'
  BY <1>2, <1>4, IdleIsLegal, CallChanges
<1>7. /\ sinks' \in [Sinks -> 0 .. MaxFd]
      /\ \A fd \in Fds : fd # x => \A s \in Sinks : sinks'[s] = fd <=> sinks[s] = fd
      /\ \A s, j \in Sinks : sinks'[s] = x /\ sinks'[j] = x => s = j
  <2>1. CASE i = 0
    <3>1. sinks' = sinks
      BY <1>1, <2>1 DEF SinkAdd
    <3> QED BY <1>2, <1>3, <3>1 DEF TablesOK, EntriesOK, Unlisted
  <2>2. CASE i # 0
    <3>1. i \in Sinks /\ sinks[i] = 0
      BY <1>1, <2>2, FreeEntries
    <3>2. sinks' = [sinks EXCEPT ![i] = x] /\ x \in 0 .. MaxFd
      BY <1>1, <1>3, <2>2 DEF SinkAdd, Fds
    <3>3. /\ sinks' \in [Sinks -> 0 .. MaxFd] /\ sinks'[i] = x
          /\ \A s \in Sinks : s # i => sinks'[s] = sinks[s]
      BY <1>2, <3>1, <3>2, EntriesChange
    <3> QED BY <1>3, <3>1, <3>3 DEF Unlisted, Fds
  <2> QED BY <2>1, <2>2
<1>8. TablesOK'
  BY <1>2, <1>4, <1>5, <1>6, <1>7 DEF TablesOK, KernelOK, HandlesOK, RaOK, EntriesOK
<1>9. ASSUME NEW fd \in Fds, fd # x  PROVE SameAt(fd)
  <2>1. \A s \in Threads : Calling(s, fd)' \/ Calling(s, fd) => call'[s] = call[s]
    BY <1>1, <1>6, <1>9, SameCalls
  <2> QED BY <1>4, <1>5, <1>7, <1>9, <2>1 DEF SameAt
<1>10. \A s \in Threads : ~Calling(s, x)'
  BY <1>3, <1>6 DEF Calling
<1>11. TablesAt(x)' /\ GameAt(x)'
  BY <1>3, <1>4, <1>5, <1>7 DEF TablesAt, GameAt, Unlisted
<1>12. OwnedBy(x, "game", 0)'
  BY <1>3, <1>4, <1>5, <1>10 DEF OwnedBy
<1>13. DescInv'
  BY <1>8, <1>9, <1>10, <1>11, <1>12, OneStep DEF Number
<1>14. call[t].op \notin ReadOps /\ call'[t].op \notin ReadOps
  BY <1>2, <1>6, IdleIsLegal DEF ReadOps
<1>15. Opens(x)
  BY <1>3, <1>4, <1>5 DEF Opens, PosIs, Unlisted
<1> QED BY <1>6, <1>9, <1>13, <1>14, <1>15, Seen

-----------------------------------------------------------------------------
(* Streams. *)

LEMMA AddFileStep ==
  ASSUME DescInv, NEW t \in Threads, AddFile(t)
  PROVE  DescInv' /\ Effect
<1>1. PICK x, i : /\ x = call[t].fd
                  /\ i = Lowest({s \in 1 .. PACK_FILE_SLOTS : packFiles[s] = Free})
  OBVIOUS
<1>2. TablesOK /\ call[t].op = "add_file"
  BY DEF DescInv, AddFile
<1>3. /\ x \in 0 .. MaxFd /\ call[t].file \in PackedFiles /\ call[t].for = "fopen"
      /\ call[t] \in OpenCalls
  BY <1>1, <1>2, CallIs
<1>4. /\ kernel' = kernel /\ handles' = handles /\ ra' = ra /\ sinks' = sinks /\ stdio' = stdio
      /\ ino' = ino /\ desc' = desc
  BY DEF AddFile
<1>5. ASSUME x \in Fds
      PROVE  /\ desc[x] = "none" /\ x \notin stdio /\ Unlisted(x)
             /\ \A s \in FileSlots : packFiles[s] # x
             /\ \A s \in Threads : Calling(s, x) => s = t
             /\ kernel[x].file = "pack"
             /\ TablesAt(x) /\ GameAt(x)
  <2>1. Calling(t, x) /\ call[t].op \notin ReadOps
    BY <1>1, <1>2 DEF Calling, Idle, ReadOps
  <2>2. kernel[x].file = "pack"
    BY <1>2, <1>5, <2>1, OfCall DEF CallAt
  <2> QED BY <1>5, <2>1, <2>2, OfCall DEF DescInv, Number
<1>6. ASSUME x \in Fds  PROVE TablesAt(x)' /\ GameAt(x)'
  BY <1>4, <1>5, <1>6 DEF TablesAt, GameAt, HandleAt, RaAt
<1>7. CASE i # 0
  <2>1. i \in FileSlots /\ packFiles[i] = Free
    BY <1>1, <1>7, FreeEntries
  <2>2. packFiles' = [packFiles EXCEPT ![i] = x] /\ Busy(t, Idle)
    BY <1>1, <1>7 DEF AddFile, Return
  <2>3. /\ packFiles' \in [FileSlots -> -1 .. MaxFd] /\ packFiles'[i] = x
        /\ \A s \in FileSlots : s # i => packFiles'[s] = packFiles[s]
    BY <1>2, <1>3, <2>1, <2>2, EntriesChange
  <2>4. /\ call'[t] = Idle
        /\ \A s \in Threads : s # t => call'[s] = call[s]
        /\ CallsOK'
    BY <1>2, <2>2, IdleIsLegal, CallChanges
  <2>5. TablesOK'
    BY <1>2, <1>4, <2>3, <2>4 DEF TablesOK, KernelOK, HandlesOK, RaOK, EntriesOK
  <2>6. ASSUME NEW fd \in Fds, fd # x  PROVE SameAt(fd)
    <3>1. \A s \in Threads : Calling(s, fd)' \/ Calling(s, fd) => call'[s] = call[s]
      BY <1>1, <2>4, <2>6, SameCalls
    <3>2. \A s \in FileSlots : packFiles'[s] = fd <=> packFiles[s] = fd
      BY <2>1, <2>3, <2>6 DEF Fds, Free
    <3> QED BY <1>4, <3>1, <3>2 DEF SameAt
  <2>7. ASSUME x \in Fds  PROVE Number(x)'
    <3>1. \A s \in Threads : ~Calling(s, x)'
      BY <1>5, <2>4, <2>7 DEF Calling
    <3>2. OwnedBy(x, "slot", i)'
      BY <1>4, <1>5, <2>1, <2>3, <2>7, <3>1 DEF OwnedBy
    <3> QED BY <1>6, <2>7, <3>1, <3>2 DEF Number
  <2>8. DescInv'
    BY <2>5, <2>6, <2>7, OneStep
  <2>9. call[t].op \notin ReadOps /\ call'[t].op \notin ReadOps
    BY <1>2, <2>4, IdleIsLegal DEF ReadOps
  <2>10. Quiet(x)
    BY <1>4, <1>5 DEF Quiet
  <2> QED BY <2>4, <2>6, <2>8, <2>9, <2>10, Seen
<1>8. CASE i = 0 /\ x = NoFd
  <2>1. PICK c : c = [call[t] EXCEPT !.op = "loose"]
    OBVIOUS
  <2>2. Busy(t, c) /\ packFiles' = packFiles
    BY <1>1, <1>8, <2>1 DEF AddFile
  <2>3. c.fd = 0 /\ c \in OpenCalls /\ c.op = "loose"
    BY <1>1, <1>3, <1>8, <2>1 DEF OpenCalls, NoFd
  <2>4. Legal(c) /\ c.fd \notin Fds /\ call[t].fd \notin Fds
    BY <1>1, <1>8, <2>3 DEF Legal, Fds, NoFd
  <2>5. call[t].op \notin ReadOps /\ c.op \notin ReadOps
    BY <1>2, <2>3 DEF ReadOps
  <2> QED BY <1>4, <2>2, <2>4, <2>5, CallOnly
<1>9. CASE i = 0 /\ x # NoFd
  <2>1. x \in Fds
    BY <1>3, <1>9, SizesAre DEF Fds, NoFd
  <2>2. PICK c : c = [op |-> "pack_close", fd |-> x, file |-> call[t].file, then |-> "loose"]
    OBVIOUS
  <2>3. Busy(t, c) /\ packFiles' = packFiles
    BY <1>1, <1>9, <2>2 DEF AddFile
  <2>4. c \in StreamCalls /\ c.file # "none"
    BY <1>3, <2>1, <2>2, FilesAre DEF StreamCalls
  <2>5. Legal(c)
    BY <2>4 DEF Legal
  <2>6. /\ call'[t] = c
        /\ \A s \in Threads : s # t => call'[s] = call[s]
        /\ CallsOK'
    BY <1>2, <2>3, <2>5, CallChanges
  <2>7. TablesOK'
    BY <1>2, <1>4, <2>3, <2>6 DEF TablesOK, KernelOK, HandlesOK, RaOK, EntriesOK
  <2>8. ASSUME NEW fd \in Fds, fd # x  PROVE SameAt(fd)
    <3>1. \A s \in Threads : Calling(s, fd)' \/ Calling(s, fd) => call'[s] = call[s]
      BY <1>1, <2>2, <2>6, <2>8, SameCalls
    <3> QED BY <1>4, <2>3, <3>1 DEF SameAt
  <2>9. \A s \in Threads : Calling(s, x)' <=> s = t
    BY <1>5, <2>1, <2>2, <2>6 DEF Calling, Idle
  <2>10. CallAt(t, x)'
    BY <1>4, <1>5, <2>1, <2>2, <2>6 DEF CallAt, ReadOps
  <2>11. OwnedBy(x, "call", t)'
    BY <1>4, <1>5, <2>1, <2>3, <2>9 DEF OwnedBy
  <2>12. DescInv'
    BY <1>6, <2>1, <2>7, <2>8, <2>9, <2>10, <2>11, OneStep DEF Number
  <2>13. call[t].op \notin ReadOps /\ call'[t].op \notin ReadOps
    BY <1>2, <2>2, <2>6 DEF ReadOps
  <2>14. Quiet(x)
    BY <1>4, <1>5 DEF Quiet
  <2> QED BY <2>6, <2>8, <2>12, <2>13, <2>14, Seen
<1> QED BY <1>7, <1>8, <1>9

LEMMA OpenLooseStreamStep ==
  ASSUME DescInv, NEW t \in Threads, OpenLooseStream(t)
  PROVE  DescInv' /\ Effect
<1>1. PICK x, f : x = NextFd /\ f = call[t].file
  OBVIOUS
<1>2. /\ handles' = handles /\ ra' = ra /\ sinks' = sinks /\ stdio' = stdio \cup {x}
      /\ packFiles' = packFiles /\ x # 0 /\ ino' = ino /\ desc' = desc
      /\ kernel' = [kernel EXCEPT ![x] = [file |-> f, pos |-> 0]]
      /\ Busy(t, Idle) /\ call[t].op = "loose"
  BY <1>1 DEF OpenLooseStream, tables, Return
<1>3. TablesOK /\ x \in Fds /\ kernel[x].file = "none"
  BY <1>1, <1>2, NextFdIs DEF DescInv, Shut
<1>4. /\ desc[x] = "none" /\ x \notin stdio /\ Unlisted(x)
      /\ \A i \in FileSlots : packFiles[i] # x
      /\ \A s \in Threads : ~Calling(s, x)
      /\ \A i \in Handles : handles[i].fd # x
  BY <1>3, Closed
<1>5. call[t].fd = 0 /\ f \in Files /\ f # "none" /\ f # "pack"
  BY <1>1, <1>2, <1>3, CallIs, FilesAre DEF NoFd
<1>6. /\ KernelOK' /\ kernel'[x] = [file |-> f, pos |-> 0]
      /\ \A y \in Fds : y # x => kernel'[y] = kernel[y]
  <2>1. [file |-> f, pos |-> 0] \in [file : Files \cup {"none", "pack"}, pos : 0 .. SIZE]
    BY <1>5, SizesAre
  <2> QED BY <1>2, <1>3, <2>1, KernelChanges
<1>7. /\ call'[t] = Idle
      /\ \A s \in Threads : s # t => call'[s] = call[s]
      /\ CallsOK'
  BY <1>2, <1>3, IdleIsLegal, CallChanges
<1>8. TablesOK'
  BY <1>2, <1>3, <1>6, <1>7 DEF TablesOK, HandlesOK, RaOK, EntriesOK
<1>9. ASSUME NEW fd \in Fds, fd # x  PROVE SameAt(fd)
  <2>1. \A s \in Threads : Calling(s, fd)' \/ Calling(s, fd) => call'[s] = call[s]
    BY <1>5, <1>7, <1>9, SameCalls DEF Fds
  <2> QED BY <1>2, <1>6, <1>9, <2>1 DEF SameAt
<1>10. \A s \in Threads : ~Calling(s, x)'
  BY <1>4, <1>7 DEF Calling
<1>11. TablesAt(x)' /\ GameAt(x)'
  BY <1>2, <1>4, <1>5, <1>6 DEF TablesAt, GameAt, Unlisted
<1>12. OwnedBy(x, "stdio", 0)'
  BY <1>2, <1>4, <1>5, <1>6, <1>10 DEF OwnedBy
<1>13. DescInv'
  BY <1>8, <1>9, <1>10, <1>11, <1>12, OneStep DEF Number
<1>14. call[t].op \notin ReadOps /\ call'[t].op \notin ReadOps
  BY <1>2, <1>7, IdleIsLegal DEF ReadOps
<1>15. Quiet(x)
  BY <1>2, <1>4 DEF Quiet
<1> QED BY <1>7, <1>9, <1>13, <1>14, <1>15, Seen

(* The game lets go of a number that no call is using. *)
LEMMA Using ==
  ASSUME DescInv, NEW t \in Threads, NEW x \in Fds, MayUse(t, x)
  PROVE  /\ call[t] = Idle /\ desc[x] # "none" /\ desc[x] \in Files
         /\ \A s \in Threads : ~Calling(s, x)
         /\ x \notin stdio /\ kernel[x].file # "none"
         /\ \A i \in FileSlots : packFiles[i] # x
         /\ \/ kernel[x].file = desc[x]
            \/ \E i \in Handles : handles[i].fd = x
         /\ Lookups(x)
<1>1. call[t] = Idle /\ desc[x] # "none" /\ \A s \in Threads : ~Calling(s, x)
  BY DEF MayUse, InUse, Calling
<1>2. desc[x] \in Files
  BY <1>1 DEF DescInv, TablesOK, EntriesOK
<1> QED BY <1>1, <1>2, OfGame, LookupsFind

(* Nothing but the pack serves a number that has a handle. *)
LEMMA HandleIsPack ==
  ASSUME DescInv, NEW x \in Fds, NEW i \in Handles, handles[i].fd = x
  PROVE  kernel[x].file = "pack" /\ Unlisted(x) /\ \A h \in Handles : handles[h].fd = x => h = i
<1>1. TablesAt(x)
  BY DEF DescInv, Number
<1>2. kernel[x].file = "pack"
  BY <1>1 DEF TablesAt, HandleAt
<1> QED BY <1>1, <1>2, FilesAre DEF TablesAt, RaAt, Unlisted

LEMMA FdopenStep ==
  ASSUME DescInv, ~FdopenAny, NEW t \in Threads, NEW x \in Fds, Fdopen(t, x)
  PROVE  DescInv' /\ Effect
<1>1. PICK i : i = Lowest({s \in 1 .. PACK_FILE_SLOTS : packFiles[s] = Free})
  OBVIOUS
<1>2. TablesOK /\ MayUse(t, x)
  BY DEF DescInv, Fdopen
<1>3. /\ desc[x] # "none" /\ desc[x] \in Files /\ call[t] = Idle
      /\ \A s \in Threads : ~Calling(s, x)
      /\ x \notin stdio /\ kernel[x].file # "none"
      /\ \A s \in FileSlots : packFiles[s] # x
      /\ \/ kernel[x].file = desc[x]
         \/ \E h \in Handles : handles[h].fd = x
      /\ Lookups(x)
  BY <1>2, Using
<1>4. /\ kernel' = kernel /\ handles' = handles /\ ra' = ra /\ sinks' = sinks
      /\ ino' = ino /\ call' = call /\ desc' = [desc EXCEPT ![x] = "none"]
  BY DEF Fdopen
<1>5. /\ desc' \in [Fds -> Files \cup {"none"}] /\ desc'[x] = "none"
      /\ \A y \in Fds : y # x => desc'[y] = desc[y]
  BY <1>2, <1>4, EntriesChange
<1>6. \A s \in Threads : ~Calling(s, x)'
  BY <1>3, <1>4 DEF Calling
<1>7. TablesAt(x) /\ GameAt(x)
  BY DEF DescInv, Number
<1>8. CASE HandleOf(x) # 0 /\ i # 0 /\ packFiles' = [packFiles EXCEPT ![i] = x] /\ stdio' = stdio
  <2>1. i \in FileSlots /\ packFiles[i] = Free /\ x \in 0 .. MaxFd /\ x # Free
    BY <1>1, <1>8, FreeEntries DEF Fds, Free
  <2>2. /\ packFiles' \in [FileSlots -> -1 .. MaxFd] /\ packFiles'[i] = x
        /\ \A s \in FileSlots : s # i => packFiles'[s] = packFiles[s]
    BY <1>2, <1>8, <2>1, EntriesChange
  <2>3. PICK h \in Handles : handles[h].fd = x
    BY <1>3, <1>8 DEF Lookups
  <2>4. kernel[x].file = "pack" /\ Unlisted(x)
    BY <2>3, HandleIsPack
  <2>5. TablesOK'
    BY <1>2, <1>4, <1>5, <1>8, <2>2 DEF TablesOK, KernelOK, HandlesOK, RaOK, EntriesOK, CallsOK
  <2>6. ASSUME NEW fd \in Fds, fd # x  PROVE SameAt(fd)
    <3>1. \A s \in FileSlots : packFiles'[s] = fd <=> packFiles[s] = fd
      BY <2>1, <2>2, <2>6 DEF Fds, Free
    <3> QED BY <1>4, <1>5, <1>8, <2>6, <3>1 DEF SameAt
  <2>7. TablesAt(x)'
    BY <1>4, <1>5, <1>7, <2>4 DEF TablesAt, HandleAt, Unlisted
  <2>8. GameAt(x)'
    BY <1>3, <1>4, <1>5, <1>7, <1>8, <2>4 DEF GameAt
  <2>9. OwnedBy(x, "slot", i)'
    BY <1>3, <1>4, <1>5, <1>6, <1>8, <2>1, <2>2 DEF OwnedBy
  <2>10. DescInv'
    BY <1>6, <2>5, <2>6, <2>7, <2>8, <2>9, OneStep DEF Number
  <2>11. call[t].op \notin ReadOps /\ call'[t].op \notin ReadOps
    BY <1>3, <1>4, IdleIsLegal DEF ReadOps
  <2>12. Closes(x)
    BY <1>3, <1>5 DEF Closes
  <2> QED BY <1>4, <2>6, <2>10, <2>11, <2>12, Seen
<1>9. CASE /\ HandleOf(x) = 0 /\ packFiles' = packFiles /\ stdio' = stdio \cup {x}
           /\ RaOf(x) = 0 /\ \A s \in DOMAIN sinks : sinks[s] # x
  <2>1. (\A h \in Handles : handles[h].fd # x) /\ Unlisted(x)
    <3>1. DOMAIN sinks = Sinks
      BY <1>2 DEF TablesOK, EntriesOK
    <3> QED BY <1>3, <1>9, <3>1 DEF Lookups, Unlisted
  <2>2. TablesOK'
    BY <1>2, <1>4, <1>5, <1>9 DEF TablesOK, KernelOK, HandlesOK, RaOK, EntriesOK, CallsOK
  <2>3. ASSUME NEW fd \in Fds, fd # x  PROVE SameAt(fd)
    BY <1>4, <1>5, <1>9, <2>3 DEF SameAt
  <2>4. TablesAt(x)'
    BY <1>4, <2>1 DEF TablesAt, Unlisted
  <2>5. GameAt(x)'
    BY <1>3, <1>4, <1>5, <1>7, <1>9, <2>1 DEF GameAt
  <2>6. OwnedBy(x, "stdio", 0)'
    BY <1>3, <1>4, <1>5, <1>6, <1>9 DEF OwnedBy
  <2>7. DescInv'
    BY <1>6, <2>2, <2>3, <2>4, <2>5, <2>6, OneStep DEF Number
  <2>8. call[t].op \notin ReadOps /\ call'[t].op \notin ReadOps
    BY <1>3, <1>4, IdleIsLegal DEF ReadOps
  <2>9. Closes(x)
    BY <1>3, <1>5 DEF Closes
  <2> QED BY <1>4, <2>3, <2>7, <2>8, <2>9, Seen
<1> QED BY <1>1, <1>8, <1>9 DEF Fdopen

LEMMA FclosePackedStep ==
  ASSUME DescInv, NEW t \in Threads, NEW i \in FileSlots, FclosePacked(t, i)
  PROVE  DescInv' /\ Effect
<1>1. PICK x : x = packFiles[i]
  OBVIOUS
<1>2. TablesOK /\ call[t] = Idle /\ x # Free
  BY <1>1 DEF DescInv, FclosePacked
<1>3. /\ kernel' = kernel /\ handles' = handles /\ ra' = ra /\ sinks' = sinks
      /\ ino' = ino /\ stdio' = stdio /\ desc' = desc
      /\ packFiles' = [packFiles EXCEPT ![i] = -1]
  BY DEF FclosePacked, Free
<1>4. x \in 0 .. MaxFd
  <2>1. x \in -1 .. MaxFd
    BY <1>1, <1>2 DEF TablesOK, EntriesOK
  <2> QED BY <1>2, <2>1, SizesAre DEF Free
<1>5. /\ packFiles' \in [FileSlots -> -1 .. MaxFd] /\ packFiles'[i] = -1
      /\ \A s \in FileSlots : s # i => packFiles'[s] = packFiles[s]
  <2>1. -1 \in -1 .. MaxFd
    BY SizesAre
  <2> QED BY <1>2, <1>3, <2>1, EntriesChange
<1>6. \A fd \in Fds : fd # x => \A s \in FileSlots : packFiles'[s] = fd <=> packFiles[s] = fd
  BY <1>1, <1>5 DEF Fds
<1>7. CASE x = NoFd
  <2>1. call' = call
    BY <1>1, <1>7 DEF FclosePacked
  <2>2. TablesOK'
    BY <1>2, <1>3, <1>5, <2>1 DEF TablesOK, KernelOK, HandlesOK, RaOK, EntriesOK, CallsOK
  <2>3. x \notin Fds
    BY <1>7 DEF NoFd, Fds
  <2>4. \A fd \in Fds : SameAt(fd)
    BY <1>3, <1>6, <2>1, <2>3 DEF SameAt
  <2>5. DescInv'
    BY <2>2, <2>3, <2>4, OneStep
  <2>6. call[t].op \notin ReadOps /\ call'[t].op \notin ReadOps
    BY <1>2, <2>1, IdleIsLegal DEF ReadOps
  <2>7. Quiet(x)
    BY <2>3 DEF Quiet
  <2> QED BY <2>1, <2>4, <2>5, <2>6, <2>7, Seen
<1>8. CASE x # NoFd
  <2>1. x \in Fds
    BY <1>4, <1>8, SizesAre DEF NoFd, Fds
  <2>2. PICK c : c = [op |-> "pack_close", fd |-> x, file |-> "none", then |-> "idle"]
    OBVIOUS
  <2>3. Busy(t, c)
    BY <1>1, <1>8, <2>2 DEF FclosePacked
  <2>4. c \in StreamCalls /\ c.then # "loose"
    BY <2>1, <2>2 DEF StreamCalls
  <2>5. Legal(c)
    BY <2>4 DEF Legal
  <2>6. /\ call'[t] = c
        /\ \A s \in Threads : s # t => call'[s] = call[s]
        /\ CallsOK'
    BY <1>2, <2>3, <2>5, CallChanges
  <2>7. TablesOK'
    BY <1>2, <1>3, <1>5, <2>6 DEF TablesOK, KernelOK, HandlesOK, RaOK, EntriesOK
  <2>8. ASSUME NEW fd \in Fds, fd # x  PROVE SameAt(fd)
    <3>1. \A s \in Threads : Calling(s, fd)' \/ Calling(s, fd) => call'[s] = call[s]
      BY <1>2, <2>2, <2>6, <2>8, SameCalls
    <3> QED BY <1>3, <1>6, <2>8, <3>1 DEF SameAt
  <2>9. /\ desc[x] = "none" /\ Unlisted(x) /\ kernel[x].file = "pack"
        /\ x \notin stdio
        /\ \A j \in FileSlots : packFiles[j] = x => j = i
        /\ \A s \in Threads : ~Calling(s, x)
    BY <1>1, <2>1, OfSlot
  <2>10. \A s \in Threads : Calling(s, x)' <=> s = t
    BY <2>2, <2>6, <2>9 DEF Calling, Idle
  <2>11. CallAt(t, x)'
    BY <1>3, <2>2, <2>6, <2>9 DEF CallAt, ReadOps
  <2>12. OwnedBy(x, "call", t)'
    BY <1>3, <1>5, <2>1, <2>9, <2>10 DEF OwnedBy, Fds
  <2>13. TablesAt(x)' /\ GameAt(x)'
    <3>1. TablesAt(x) /\ GameAt(x)
      BY <2>1 DEF DescInv, Number
    <3> QED BY <1>3, <2>9, <3>1 DEF TablesAt, GameAt, HandleAt, RaAt
  <2>14. DescInv'
    BY <2>1, <2>7, <2>8, <2>10, <2>11, <2>12, <2>13, OneStep DEF Number
  <2>15. call[t].op \notin ReadOps /\ call'[t].op \notin ReadOps
    BY <1>2, <2>2, <2>6, IdleIsLegal DEF ReadOps
  <2>16. Quiet(x)
    BY <1>3, <2>9 DEF Quiet
  <2> QED BY <2>6, <2>8, <2>14, <2>15, <2>16, Seen
<1> QED BY <1>7, <1>8

LEMMA FcloseStep ==
  ASSUME DescInv, NEW t \in Threads, NEW x \in Fds, Fclose(t, x)
  PROVE  DescInv' /\ Effect
<1>1. /\ handles' = handles /\ ra' = ra /\ sinks' = sinks /\ ino' = ino /\ call' = call
      /\ packFiles' = packFiles /\ desc' = desc /\ x \in stdio /\ stdio' = stdio \ {x}
      /\ kernel' = [kernel EXCEPT ![x] = Shut] /\ TablesOK /\ call[t] = Idle
  BY DEF Fclose, tables, DescInv
<1>2. /\ KernelOK' /\ kernel'[x] = Shut
      /\ \A y \in Fds : y # x => kernel'[y] = kernel[y]
  BY <1>1, ShutIs, KernelChanges
<1>3. /\ desc[x] = "none" /\ Unlisted(x)
      /\ \A i \in FileSlots : packFiles[i] # x
      /\ \A s \in Threads : ~Calling(s, x)
      /\ \A i \in Handles : handles[i].fd # x
  BY <1>1, OfStream
<1>4. TablesOK'
  BY <1>1, <1>2 DEF TablesOK, HandlesOK, RaOK, EntriesOK, CallsOK
<1>5. ASSUME NEW fd \in Fds, fd # x  PROVE SameAt(fd)
  BY <1>1, <1>2, <1>5 DEF SameAt
<1>6. \A s \in Threads : ~Calling(s, x)'
  BY <1>1, <1>3 DEF Calling
<1>7. GameAt(x)' /\ TablesAt(x)'
  BY <1>1, <1>2, <1>3 DEF GameAt, TablesAt, Unlisted, Shut
<1>8. OwnedBy(x, "nobody", 0)'
  BY <1>1, <1>2, <1>3, <1>6 DEF OwnedBy, Shut
<1>9. DescInv'
  BY <1>4, <1>5, <1>6, <1>7, <1>8, OneStep DEF Number
<1>10. call[t].op \notin ReadOps /\ call'[t].op \notin ReadOps
  BY <1>1, IdleIsLegal DEF ReadOps
<1>11. Quiet(x)
  BY <1>1, <1>3 DEF Quiet
<1> QED BY <1>1, <1>5, <1>9, <1>10, <1>11, Seen

-----------------------------------------------------------------------------
(* Closing. *)

(* The first half of asset_pack_close_fd leaves no handle for the number. *)
LEMMA Released ==
  ASSUME DescInv, NEW x \in Fds, handles' = [handles EXCEPT ![HandleOf(x)] = NoHandle]
  PROVE  /\ HandlesOK'
         /\ \A h \in Handles : handles'[h].fd # x
         /\ \A fd \in Fds : fd # x =>
              \A h \in Handles : handles'[h].fd = fd \/ handles[h].fd = fd =>
                                   handles'[h] = handles[h]
<1>1. PICK i : i = HandleOf(x)
  OBVIOUS
<1>2. TablesOK /\ Lookups(x)
  BY LookupsFind DEF DescInv
<1>3. CASE i = 0
  <2>1. handles' = handles
    BY <1>1, <1>2, <1>3 DEF TablesOK, HandlesOK, Handles
  <2> QED BY <1>1, <1>2, <1>3, <2>1 DEF TablesOK, HandlesOK, Lookups
<1>4. CASE i # 0
  <2>1. i \in Handles /\ handles[i].fd = x
    BY <1>1, <1>2, <1>4, SizesAre DEF Lookups, Handles
  <2>2. NoHandle \in [fd : 0 .. MaxFd, entry : Files \cup {"none"}, pos : 0 .. SIZE, cache : Caches]
        /\ NoHandle.fd = 0
    BY SizesAre DEF NoHandle, NoCache, Caches
  <2>3. /\ HandlesOK' /\ handles'[i] = NoHandle
        /\ \A h \in Handles : h # i => handles'[h] = handles[h]
    BY <1>1, <1>2, <2>1, <2>2, HandlesChange
  <2>4. \A h \in Handles : handles[h].fd = x => h = i
    BY <2>1, HandleIsPack
  <2> QED BY <2>1, <2>2, <2>3, <2>4 DEF Fds
<1> QED BY <1>3, <1>4

LEMMA ClosePackedStep ==
  ASSUME DescInv, NEW t \in Threads, NEW x \in Fds, ClosePacked(t, x)
  PROVE  DescInv' /\ Effect
<1>1. PICK c : c = [op |-> "close", fd |-> x, then |-> "idle"]
  OBVIOUS
<1>2. /\ kernel' = kernel /\ ra' = ra /\ sinks' = sinks /\ stdio' = stdio
      /\ packFiles' = packFiles /\ MayUse(t, x) /\ TablesOK /\ HandleOf(x) # 0
      /\ desc' = [desc EXCEPT ![x] = "none"] /\ ino' = [ino EXCEPT ![x] = "none"]
      /\ handles' = [handles EXCEPT ![HandleOf(x)] = NoHandle] /\ Busy(t, c)
  BY <1>1 DEF ClosePacked, Release, DescInv, Route
<1>3. /\ call[t] = Idle /\ desc[x] # "none"
      /\ \A s \in Threads : ~Calling(s, x)
      /\ x \notin stdio /\ kernel[x].file # "none"
      /\ \A i \in FileSlots : packFiles[i] # x
      /\ Lookups(x)
  BY <1>2, Using
<1>4. Unlisted(x) /\ kernel[x].file = "pack"
  <2>1. PICK h \in Handles : handles[h].fd = x
    BY <1>2, <1>3 DEF Lookups
  <2> QED BY <2>1, HandleIsPack
<1>5. /\ HandlesOK'
      /\ \A h \in Handles : handles'[h].fd # x
      /\ \A fd \in Fds : fd # x =>
           \A h \in Handles : handles'[h].fd = fd \/ handles[h].fd = fd =>
                                handles'[h] = handles[h]
  BY <1>2, Released
<1>6. /\ desc' \in [Fds -> Files \cup {"none"}] /\ desc'[x] = "none"
      /\ ino' \in [Fds -> Files \cup {"none"}]
      /\ \A y \in Fds : y # x => desc'[y] = desc[y] /\ ino'[y] = ino[y]
  BY <1>2, EntriesChange
<1>7. Legal(c)
  BY <1>1 DEF Legal, CloseCalls
<1>8. /\ call'[t] = c
      /\ \A s \in Threads : s # t => call'[s] = call[s]
      /\ CallsOK'
  BY <1>2, <1>7, CallChanges
<1>9. TablesOK'
  BY <1>2, <1>5, <1>6, <1>8 DEF TablesOK, KernelOK, RaOK, EntriesOK
<1>10. ASSUME NEW fd \in Fds, fd # x  PROVE SameAt(fd)
  <2>1. \A s \in Threads : Calling(s, fd)' \/ Calling(s, fd) => call'[s] = call[s]
    BY <1>1, <1>3, <1>8, <1>10, SameCalls
  <2> QED BY <1>2, <1>5, <1>6, <1>10, <2>1 DEF SameAt
<1>11. \A s \in Threads : Calling(s, x)' <=> s = t
  BY <1>1, <1>3, <1>8 DEF Calling, Idle
<1>12. CallAt(t, x)'
  BY <1>1, <1>2, <1>4, <1>5, <1>6, <1>8 DEF CallAt, ReadOps
<1>13. TablesAt(x)' /\ GameAt(x)'
  BY <1>2, <1>3, <1>4, <1>5, <1>6 DEF TablesAt, GameAt, Unlisted
<1>14. OwnedBy(x, "call", t)'
  BY <1>2, <1>3, <1>6, <1>11 DEF OwnedBy
<1>15. DescInv'
  BY <1>9, <1>10, <1>11, <1>12, <1>13, <1>14, OneStep DEF Number
<1>16. call[t].op \notin ReadOps /\ call'[t].op \notin ReadOps
  BY <1>1, <1>3, <1>8, IdleIsLegal DEF ReadOps
<1>17. Closes(x)
  BY <1>3, <1>6 DEF Closes
<1> QED BY <1>8, <1>10, <1>15, <1>16, <1>17, Seen

LEMMA ReleaseStreamStep ==
  ASSUME DescInv, NEW t \in Threads, ReleaseStream(t)
  PROVE  DescInv' /\ Effect
<1>1. PICK x, c : x = call[t].fd /\ c = [call[t] EXCEPT !.op = "close"]
  OBVIOUS
<1>2. /\ kernel' = kernel /\ ra' = ra /\ sinks' = sinks /\ stdio' = stdio /\ ino' = ino
      /\ packFiles' = packFiles /\ desc' = desc /\ TablesOK /\ call[t].op = "pack_close"
      /\ handles' = [handles EXCEPT ![HandleOf(x)] = NoHandle] /\ Busy(t, c)
  BY <1>1 DEF ReleaseStream, Release, DescInv
<1>3. x \in Fds /\ call[t] \in StreamCalls /\ (call[t].then = "loose" => call[t].file # "none")
  BY <1>1, <1>2, CallIs
<1>4. Calling(t, x) /\ call[t].op \notin ReadOps
  BY <1>1, <1>2 DEF Calling, Idle, ReadOps
<1>5. /\ desc[x] = "none" /\ x \notin stdio /\ Unlisted(x)
      /\ \A s \in FileSlots : packFiles[s] # x
      /\ \A s \in Threads : Calling(s, x) => s = t
      /\ kernel[x].file = "pack" /\ GameAt(x)
  <2>1. kernel[x].file = "pack"
    BY <1>2, <1>3, <1>4, OfCall DEF CallAt
  <2> QED BY <1>3, <1>4, <2>1, OfCall DEF DescInv, Number
<1>6. /\ HandlesOK'
      /\ \A h \in Handles : handles'[h].fd # x
      /\ \A fd \in Fds : fd # x =>
           \A h \in Handles : handles'[h].fd = fd \/ handles[h].fd = fd =>
                                handles'[h] = handles[h]
  BY <1>2, <1>3, Released
<1>7. /\ c \in StreamCalls /\ c.fd = x /\ c.op = "close"
      /\ c.then = "loose" => c.file # "none"
  BY <1>1, <1>3 DEF StreamCalls
<1>8. Legal(c)
  BY <1>7 DEF Legal
<1>9. /\ call'[t] = c
      /\ \A s \in Threads : s # t => call'[s] = call[s]
      /\ CallsOK'
  BY <1>2, <1>8, CallChanges
<1>10. TablesOK'
  BY <1>2, <1>6, <1>9 DEF TablesOK, KernelOK, RaOK, EntriesOK
<1>11. ASSUME NEW fd \in Fds, fd # x  PROVE SameAt(fd)
  <2>1. \A s \in Threads : Calling(s, fd)' \/ Calling(s, fd) => call'[s] = call[s]
    BY <1>1, <1>7, <1>9, <1>11, SameCalls
  <2> QED BY <1>2, <1>6, <1>11, <2>1 DEF SameAt
<1>12. \A s \in Threads : Calling(s, x)' <=> s = t
  BY <1>5, <1>7, <1>9 DEF Calling, Idle
<1>13. CallAt(t, x)'
  BY <1>2, <1>5, <1>6, <1>7, <1>9 DEF CallAt, ReadOps
<1>14. TablesAt(x)' /\ GameAt(x)'
  BY <1>2, <1>5, <1>6 DEF TablesAt, GameAt, Unlisted
<1>15. OwnedBy(x, "call", t)'
  BY <1>2, <1>5, <1>12 DEF OwnedBy
<1>16. DescInv'
  BY <1>3, <1>10, <1>11, <1>12, <1>13, <1>14, <1>15, OneStep DEF Number
<1>17. call[t].op \notin ReadOps /\ call'[t].op \notin ReadOps
  BY <1>4, <1>7, <1>9 DEF ReadOps
<1>18. Quiet(x)
  BY <1>2, <1>5 DEF Quiet
<1> QED BY <1>9, <1>11, <1>16, <1>17, <1>18, Seen

LEMMA CloseOtherStep ==
  ASSUME DescInv, NEW t \in Threads, NEW x \in Fds, CloseOther(t, x)
  PROVE  DescInv' /\ Effect
<1>1. PICK c, i, h : /\ c = [op |-> "close", fd |-> x, then |-> "idle"]
                     /\ i = Lowest({s \in DOMAIN sinks : sinks[s] = x})
                     /\ h = RaOf(x)
  OBVIOUS
<1>2. /\ kernel' = kernel /\ handles' = handles /\ stdio' = stdio
      /\ packFiles' = packFiles /\ MayUse(t, x) /\ TablesOK /\ HandleOf(x) = 0
      /\ desc' = [desc EXCEPT ![x] = "none"] /\ ino' = [ino EXCEPT ![x] = "none"]
      /\ Busy(t, c)
      /\ ra' = IF h = 0 THEN ra ELSE [ra EXCEPT ![h].fd = 0]
      /\ sinks' = IF i = 0 THEN sinks ELSE [sinks EXCEPT ![i] = 0]
  BY <1>1 DEF CloseOther, DescInv, Route
<1>3. /\ call[t] = Idle /\ desc[x] # "none"
      /\ \A s \in Threads : ~Calling(s, x)
      /\ x \notin stdio /\ kernel[x].file # "none"
      /\ \A s \in FileSlots : packFiles[s] # x
      /\ Lookups(x)
  BY <1>2, Using
<1>4. (\A s \in Handles : handles[s].fd # x) /\ TablesAt(x)
  BY <1>2, <1>3 DEF Lookups, DescInv, Number
<1>5. /\ RaOK'
      /\ \A s \in RaSlots : ra'[s].fd # x
      /\ \A fd \in Fds : fd # x =>
           \A s \in RaSlots : ra'[s].fd = fd \/ ra[s].fd = fd => ra'[s] = ra[s]
  <2>1. CASE h = 0
    <3>1. ra' = ra
      BY <1>2, <2>1
    <3> QED BY <1>1, <1>2, <1>3, <2>1, <3>1 DEF TablesOK, RaOK, Lookups
  <2>2. CASE h # 0
    <3>1. h \in RaSlots /\ ra[h].fd = x
      BY <1>1, <1>3, <2>2, SizesAre DEF Lookups, RaSlots
    <3>2. PICK r : r = [ra[h] EXCEPT !.fd = 0]
      OBVIOUS
    <3>3. r \in [fd : 0 .. MaxFd, pos : 0 .. SIZE, page : [Pages -> Caches]] /\ r.fd = 0
      <4>1. ra[h] \in [fd : 0 .. MaxFd, pos : 0 .. SIZE, page : [Pages -> Caches]]
        BY <1>2, <3>1 DEF TablesOK, RaOK
      <4> QED BY <3>2, <4>1, SizesAre
    <3>4. ra' = [ra EXCEPT ![h] = r]
      BY <1>2, <2>2, <3>2
    <3>5. RaOK' /\ ra'[h] = r /\ \A s \in RaSlots : s # h => ra'[s] = ra[s]
      BY <1>2, <3>1, <3>3, <3>4, RaChanges
    <3>6. \A s \in RaSlots : ra[s].fd = x => s = h
      BY <1>4, <3>1 DEF TablesAt
    <3> QED BY <3>1, <3>3, <3>5, <3>6 DEF Fds
  <2> QED BY <2>1, <2>2
<1>6. /\ sinks' \in [Sinks -> 0 .. MaxFd]
      /\ \A s \in Sinks : sinks'[s] # x
      /\ \A fd \in Fds : fd # x => \A s \in Sinks : sinks'[s] = fd <=> sinks[s] = fd
  <2>1. DOMAIN sinks = Sinks /\ sinks \in [Sinks -> 0 .. MaxFd]
    BY <1>2 DEF TablesOK, EntriesOK
  <2>2. (i = 0 <=> \A s \in Sinks : sinks[s] # x) /\ (i # 0 => i \in Sinks /\ sinks[i] = x)
    <3> DEFINE S == {s \in Sinks : sinks[s] = x}
    <3>1. S \in SUBSET (1 .. MAX_SINK_FDS)
      BY DEF Sinks
    <3>2. i = Lowest(S)
      BY <1>1, <2>1
    <3> HIDE DEF S
    <3>3. (i = 0 <=> S = {}) /\ (i # 0 => i \in S)
      BY <3>1, <3>2, SizesAre, LowestIs
    <3> QED BY <3>3 DEF S
  <2>3. CASE i = 0
    BY <1>2, <2>1, <2>2, <2>3
  <2>4. CASE i # 0
    <3>1. 0 \in 0 .. MaxFd
      BY SizesAre
    <3>2. sinks' = [sinks EXCEPT ![i] = 0]
      BY <1>2, <2>4
    <3>3. /\ sinks' \in [Sinks -> 0 .. MaxFd] /\ sinks'[i] = 0
          /\ \A s \in Sinks : s # i => sinks'[s] = sinks[s]
      BY <1>2, <2>2, <2>4, <3>1, <3>2, EntriesChange
    <3>4. \A s \in Sinks : sinks[s] = x => s = i
      BY <1>4, <2>2, <2>4 DEF TablesAt
    <3> QED BY <2>2, <2>4, <3>3, <3>4 DEF Fds
  <2> QED BY <2>3, <2>4
<1>7. /\ desc' \in [Fds -> Files \cup {"none"}] /\ desc'[x] = "none"
      /\ ino' \in [Fds -> Files \cup {"none"}]
      /\ \A y \in Fds : y # x => desc'[y] = desc[y] /\ ino'[y] = ino[y]
  BY <1>2, EntriesChange
<1>8. Legal(c)
  BY <1>1 DEF Legal, CloseCalls
<1>9. /\ call'[t] = c
      /\ \A s \in Threads : s # t => call'[s] = call[s]
      /\ CallsOK'
  BY <1>2, <1>8, CallChanges
<1>10. TablesOK'
  BY <1>2, <1>5, <1>6, <1>7, <1>9 DEF TablesOK, KernelOK, HandlesOK, EntriesOK
<1>11. ASSUME NEW fd \in Fds, fd # x  PROVE SameAt(fd)
  <2>1. \A s \in Threads : Calling(s, fd)' \/ Calling(s, fd) => call'[s] = call[s]
    BY <1>1, <1>3, <1>9, <1>11, SameCalls
  <2> QED BY <1>2, <1>5, <1>6, <1>7, <1>11, <2>1 DEF SameAt
<1>12. \A s \in Threads : Calling(s, x)' <=> s = t
  BY <1>1, <1>3, <1>9 DEF Calling, Idle
<1>13. CallAt(t, x)'
  BY <1>1, <1>2, <1>4, <1>7, <1>9 DEF CallAt, ReadOps
<1>14. TablesAt(x)' /\ GameAt(x)'
  BY <1>2, <1>3, <1>4, <1>5, <1>6, <1>7 DEF TablesAt, GameAt
<1>15. OwnedBy(x, "call", t)'
  BY <1>2, <1>3, <1>7, <1>12 DEF OwnedBy
<1>16. DescInv'
  BY <1>10, <1>11, <1>12, <1>13, <1>14, <1>15, OneStep DEF Number
<1>17. call[t].op \notin ReadOps /\ call'[t].op \notin ReadOps
  BY <1>1, <1>3, <1>9, IdleIsLegal DEF ReadOps
<1>18. Closes(x)
  BY <1>3, <1>7 DEF Closes
<1> QED BY <1>9, <1>11, <1>16, <1>17, <1>18, Seen

LEMMA KernelCloseStep ==
  ASSUME DescInv, NEW t \in Threads, KernelClose(t)
  PROVE  DescInv' /\ Effect
<1>1. PICK x, c : /\ x = call[t].fd
                  /\ c = IF call[t].then = "idle" THEN Idle
                         ELSE [op |-> "loose", fd |-> NoFd, file |-> call[t].file, for |-> "fopen"]
  OBVIOUS
<1>2. /\ handles' = handles /\ ra' = ra /\ sinks' = sinks /\ stdio' = stdio /\ ino' = ino
      /\ packFiles' = packFiles /\ desc' = desc /\ TablesOK /\ call[t].op = "close"
      /\ kernel' = [kernel EXCEPT ![x] = Shut]
  BY <1>1 DEF KernelClose, tables, DescInv
<1>3. Busy(t, c)
  BY <1>1 DEF KernelClose, Return
<1>4. /\ x \in Fds /\ call[t].then \in {"loose", "idle"}
      /\ call[t].then = "loose" => call[t].file \in PackedFiles
  BY <1>1, <1>2, CallIs
<1>5. Calling(t, x) /\ call[t].op \notin ReadOps
  BY <1>1, <1>2 DEF Calling, Idle, ReadOps
<1>6. /\ desc[x] = "none" /\ x \notin stdio /\ Unlisted(x)
      /\ \A s \in FileSlots : packFiles[s] # x
      /\ \A s \in Threads : Calling(s, x) => s = t
      /\ CallAt(t, x)
  BY <1>4, <1>5, OfCall
<1>7. \A h \in Handles : handles[h].fd # x
  BY <1>2, <1>6 DEF CallAt
<1>8. Legal(c) /\ (c = Idle \/ c.fd = 0) /\ c.op \notin ReadOps
  <2>1. CASE call[t].then = "idle"
    BY <1>1, <2>1, IdleIsLegal DEF ReadOps
  <2>2. CASE call[t].then # "idle"
    <3>1. c = [op |-> "loose", fd |-> NoFd, file |-> call[t].file, for |-> "fopen"]
      BY <1>1, <2>2
    <3>2. c \in OpenCalls /\ c.op = "loose" /\ c.fd = NoFd
      BY <1>4, <2>2, <3>1, SizesAre DEF OpenCalls, NoFd
    <3> QED BY <3>2 DEF Legal, NoFd, ReadOps
  <2> QED BY <2>1, <2>2
<1>9. /\ call'[t] = c
      /\ \A s \in Threads : s # t => call'[s] = call[s]
      /\ CallsOK'
  BY <1>2, <1>3, <1>8, CallChanges
<1>10. /\ KernelOK' /\ kernel'[x] = Shut
       /\ \A y \in Fds : y # x => kernel'[y] = kernel[y]
  BY <1>2, <1>4, ShutIs, KernelChanges
<1>11. TablesOK'
  BY <1>2, <1>9, <1>10 DEF TablesOK, HandlesOK, RaOK, EntriesOK
<1>12. ASSUME NEW fd \in Fds, fd # x  PROVE SameAt(fd)
  <2>1. \A s \in Threads : Calling(s, fd)' \/ Calling(s, fd) => call'[s] = call[s]
    BY <1>1, <1>8, <1>9, <1>12, SameCalls DEF Fds
  <2> QED BY <1>2, <1>10, <1>12, <2>1 DEF SameAt
<1>13. \A s \in Threads : ~Calling(s, x)'
  BY <1>4, <1>6, <1>8, <1>9 DEF Calling, Fds
<1>14. GameAt(x)' /\ TablesAt(x)'
  BY <1>2, <1>6, <1>7, <1>10 DEF GameAt, TablesAt, Unlisted, Shut
<1>15. OwnedBy(x, "nobody", 0)'
  BY <1>2, <1>6, <1>10, <1>13 DEF OwnedBy, Shut
<1>16. DescInv'
  BY <1>11, <1>12, <1>13, <1>14, <1>15, OneStep DEF Number
<1>17. call[t].op \notin ReadOps /\ call'[t].op \notin ReadOps
  BY <1>5, <1>8, <1>9
<1>18. Quiet(x)
  BY <1>2, <1>6 DEF Quiet
<1> QED BY <1>9, <1>12, <1>16, <1>17, <1>18, Seen

-----------------------------------------------------------------------------
(* Positions and caches.  A step that moves only these changes nothing that *)
(* ties a number to its file.                                               *)

LEMMA Moves ==
  ASSUME DescInv, TablesOK', NEW x \in Fds, desc[x] # "none", NEW t \in Threads,
         desc' = desc, ino' = ino, stdio' = stdio, packFiles' = packFiles, sinks' = sinks,
         kernel'[x].file = kernel[x].file, \A y \in Fds : y # x => kernel'[y] = kernel[y],
         \A i \in Handles : /\ handles'[i].fd = handles[i].fd
                            /\ handles'[i].entry = handles[i].entry
                            /\ handles[i].fd # x => handles'[i] = handles[i]
                            /\ handles[i].fd = x => Holding(handles'[i].cache, handles[i].entry),
         \A i \in RaSlots : /\ ra'[i].fd = ra[i].fd
                            /\ ra[i].fd # x => ra'[i] = ra[i]
                            /\ ra[i].fd = x => \A p \in Pages :
                                                 Holding(ra'[i].page[p], kernel[x].file),
         \A s \in Threads : s # t => call'[s] = call[s],
         call[t] = Idle \/ call[t].fd = x, call'[t] = Idle \/ call'[t].fd = x,
         Calling(t, x)' => CallAt(t, x)'
  PROVE  DescInv' /\ \A fd \in Fds : fd # x => SameAt(fd)
<1>1. TablesAt(x) /\ GameAt(x) /\ \A s \in Threads : Calling(s, x) => CallAt(s, x)
  BY DEF DescInv, Number
<1>2. ASSUME NEW fd \in Fds, fd # x  PROVE SameAt(fd)
  <2>1. \A s \in Threads : Calling(s, fd)' \/ Calling(s, fd) => call'[s] = call[s]
    BY <1>2, SameCalls
  <2> QED BY <1>2, <2>1 DEF SameAt
<1>3. TablesAt(x)'
  <2>1. \A i \in Handles : handles'[i].fd = x => HandleAt(i, x)'
    BY <1>1 DEF TablesAt, HandleAt
  <2>2. \A i \in RaSlots : ra'[i].fd = x => RaAt(i, x)'
    BY <1>1 DEF TablesAt, RaAt
  <2> QED BY <1>1, <2>1, <2>2 DEF TablesAt
<1>4. GameAt(x)'
  <2>1. kernel[x].file # "none"
    BY OfGame
  <2> QED BY <1>1, <2>1 DEF GameAt
<1>5. ASSUME NEW s \in Threads, Calling(s, x)'  PROVE CallAt(s, x)'
  <2>1. CASE s = t
    BY <1>5, <2>1
  <2>2. CASE s # t
    <3>1. call'[s] = call[s] /\ CallAt(s, x)
      BY <1>1, <1>5, <2>2 DEF Calling
    <3>2. call[s].op \in ReadOps
      BY <3>1 DEF CallAt
    <3> QED BY <3>1, <3>2 DEF CallAt, ReadOps
  <2> QED BY <2>1, <2>2
<1>6. \E who, o : OwnedBy(x, who, o)'
  <2>1. PICK who, o : OwnedBy(x, who, o)
    BY DEF DescInv, Number
  <2>2. OwnedBy(x, "game", 0)'
    BY <2>1 DEF OwnedBy
  <2> QED BY <2>2
<1>7. DescInv'
  BY <1>2, <1>3, <1>4, <1>5, <1>6, OneStep DEF Number
<1> QED BY <1>2, <1>7

(* A handle's position and cache. *)
LEMMA HandleMoves ==
  ASSUME TablesOK, NEW h \in Handles, handles[h].fd # 0, NEW to \in 0 .. SIZE, NEW k \in Caches,
         \/ handles' = [handles EXCEPT ![h].pos = to]
         \/ handles' = [handles EXCEPT ![h].cache = k]
         \/ handles' = [handles EXCEPT ![h].cache = k, ![h].pos = to]
  PROVE  /\ HandlesOK'
         /\ \A i \in Handles : /\ handles'[i].fd = handles[i].fd
                               /\ handles'[i].entry = handles[i].entry
                               /\ i # h => handles'[i] = handles[i]
         /\ handles'[h].cache \in {handles[h].cache, k}
<1>1. handles \in [Handles -> [fd : 0 .. MaxFd, entry : Files \cup {"none"},
                              pos : 0 .. SIZE, cache : Caches]]
      /\ \A i \in Handles : handles[i].fd = 0 => handles[i] = NoHandle
  BY DEF TablesOK, HandlesOK
<1>2. CASE handles' = [handles EXCEPT ![h].pos = to]
  <2>1. /\ handles' \in [Handles -> [fd : 0 .. MaxFd, entry : Files \cup {"none"},
                                    pos : 0 .. SIZE, cache : Caches]]
        /\ handles'[h].fd = handles[h].fd /\ handles'[h].entry = handles[h].entry
        /\ handles'[h].cache = handles[h].cache
        /\ \A i \in Handles : i # h => handles'[i] = handles[i]
    BY <1>1, <1>2
  <2> QED BY <1>1, <2>1 DEF HandlesOK
<1>3. CASE handles' = [handles EXCEPT ![h].cache = k]
  <2>1. /\ handles' \in [Handles -> [fd : 0 .. MaxFd, entry : Files \cup {"none"},
                                    pos : 0 .. SIZE, cache : Caches]]
        /\ handles'[h].fd = handles[h].fd /\ handles'[h].entry = handles[h].entry
        /\ handles'[h].cache = k
        /\ \A i \in Handles : i # h => handles'[i] = handles[i]
    BY <1>1, <1>3
  <2> QED BY <1>1, <2>1 DEF HandlesOK
<1>4. CASE handles' = [handles EXCEPT ![h].cache = k, ![h].pos = to]
  <2>1. /\ handles' \in [Handles -> [fd : 0 .. MaxFd, entry : Files \cup {"none"},
                                    pos : 0 .. SIZE, cache : Caches]]
        /\ handles'[h].fd = handles[h].fd /\ handles'[h].entry = handles[h].entry
        /\ handles'[h].cache = k
        /\ \A i \in Handles : i # h => handles'[i] = handles[i]
    BY <1>1, <1>4
  <2> QED BY <1>1, <2>1 DEF HandlesOK
<1> QED BY <1>2, <1>3, <1>4

(* A descriptor the game holds, as a step that moves it finds it. *)
LEMMA Held ==
  ASSUME DescInv, NEW x \in Fds, desc[x] # "none"
  PROVE  /\ TablesOK /\ desc[x] \in Files /\ kernel[x].file # "none"
         /\ kernel[x].pos \in 0 .. SIZE
         /\ \A i \in Handles :
              /\ handles[i].pos \in 0 .. SIZE /\ handles[i].cache \in Caches
              /\ handles[i].fd = x => /\ handles[i].entry = desc[x]
                                      /\ Holding(handles[i].cache, desc[x])
         /\ \A i \in RaSlots :
              /\ ra[i].pos \in 0 .. SIZE
              /\ \A p \in Pages : ra[i].page[p] \in Caches
              /\ ra[i].fd = x => /\ kernel[x].file = desc[x]
                                 /\ \A p \in Pages : Holding(ra[i].page[p], desc[x])
         /\ (\A i \in Handles : handles[i].fd # x) => kernel[x].file = desc[x]
         /\ Lookups(x)
<1>1. TablesOK /\ TablesAt(x) /\ GameAt(x)
  BY DEF DescInv, Number
<1>2. desc[x] \in Files /\ kernel[x].file # "none"
  BY <1>1, OfGame DEF TablesOK, EntriesOK
<1>3. kernel[x].pos \in 0 .. SIZE
  BY <1>1 DEF TablesOK, KernelOK
<1>4. \A i \in Handles : handles[i].pos \in 0 .. SIZE /\ handles[i].cache \in Caches
  BY <1>1 DEF TablesOK, HandlesOK
<1>5. \A i \in RaSlots : ra[i].pos \in 0 .. SIZE /\ \A p \in Pages : ra[i].page[p] \in Caches
  BY <1>1 DEF TablesOK, RaOK
<1>6. \A i \in Handles : handles[i].fd = x => /\ handles[i].entry = desc[x]
                                              /\ Holding(handles[i].cache, desc[x])
  BY <1>1 DEF TablesAt, HandleAt
<1>7. \A i \in RaSlots : ra[i].fd = x => /\ kernel[x].file = desc[x]
                                         /\ \A p \in Pages : Holding(ra[i].page[p], desc[x])
  BY <1>1 DEF TablesAt, RaAt
<1>8. (\A i \in Handles : handles[i].fd # x) => kernel[x].file = desc[x]
  BY <1>1 DEF GameAt
<1> QED BY <1>1, <1>2, <1>3, <1>4, <1>5, <1>6, <1>7, <1>8, LookupsFind

(* What Moves asks of the tables a step leaves as they are. *)
LEMMA Untouched ==
  ASSUME DescInv, NEW x \in Fds, desc[x] # "none"
  PROVE  /\ handles' = handles =>
              \A i \in Handles : /\ handles'[i].fd = handles[i].fd
                                 /\ handles'[i].entry = handles[i].entry
                                 /\ handles[i].fd # x => handles'[i] = handles[i]
                                 /\ handles[i].fd = x => Holding(handles'[i].cache, handles[i].entry)
         /\ ra' = ra =>
              \A i \in RaSlots : /\ ra'[i].fd = ra[i].fd
                                 /\ ra[i].fd # x => ra'[i] = ra[i]
                                 /\ ra[i].fd = x => \A p \in Pages :
                                                      Holding(ra'[i].page[p], kernel[x].file)
  BY Held

LEMMA SeekStep ==
  ASSUME DescInv, NEW t \in Threads, NEW x \in Fds, NEW off, NEW whence,
         Seek(t, x, off, whence)
  PROVE  DescInv' /\ \A fd \in Fds : fd # x => SameAt(fd)
<1>1. PICK to : to = (CASE whence = "SET" -> 0 [] whence = "CUR" -> Position(x)
                        [] OTHER -> SIZE) + off
  OBVIOUS
<1>2. /\ sinks' = sinks /\ ino' = ino /\ packFiles' = packFiles /\ stdio' = stdio
      /\ desc' = desc /\ call' = call /\ MayUse(t, x) /\ to \in 0 .. SIZE
  BY <1>1 DEF Seek
<1>3. call[t] = Idle /\ desc[x] # "none" /\ ~Calling(t, x) /\ Lookups(x)
  BY <1>2, Using
<1>4. /\ TablesOK /\ kernel[x].pos \in 0 .. SIZE
      /\ \A i \in Handles : handles[i].fd = x => /\ handles[i].entry = desc[x]
                                                 /\ Holding(handles[i].cache, desc[x])
      /\ \A i \in RaSlots : ra[i].fd = x =>
           kernel[x].file = desc[x] /\ \A p \in Pages : Holding(ra[i].page[p], desc[x])
  BY <1>3, Held
<1>5. ~Calling(t, x)'
  BY <1>2, <1>3 DEF Calling
<1>6. CASE Route(x) = "pack"
  <2>1. PICK h : h = HandleOf(x)
    OBVIOUS
  <2>2. /\ handles' = [handles EXCEPT ![h].pos = to] /\ kernel' = kernel /\ ra' = ra
    BY <1>1, <1>6, <2>1 DEF Seek
  <2>3. h \in Handles /\ handles[h].fd = x /\ x # 0
    BY <1>3, <1>6, <2>1, SizesAre DEF Lookups, Handles, Route, Fds
  <2>4. NoCache \in Caches
    BY DEF NoCache, Caches
  <2>5. /\ HandlesOK'
        /\ \A i \in Handles : /\ handles'[i].fd = handles[i].fd
                              /\ handles'[i].entry = handles[i].entry
                              /\ i # h => handles'[i] = handles[i]
        /\ handles'[h].cache \in {handles[h].cache, NoCache}
    BY <1>2, <1>4, <2>2, <2>3, <2>4, HandleMoves
  <2>6. Holding(handles'[h].cache, handles[h].entry)
    BY <1>4, <2>3, <2>5 DEF Holding, NoCache
  <2>7. \A i \in Handles : handles[i].fd = x => i = h
    BY <2>3, HandleIsPack
  <2>8. \A i \in Handles : /\ handles'[i].fd = handles[i].fd
                           /\ handles'[i].entry = handles[i].entry
                           /\ handles[i].fd # x => handles'[i] = handles[i]
                           /\ handles[i].fd = x => Holding(handles'[i].cache, handles[i].entry)
    BY <2>3, <2>5, <2>6, <2>7
  <2>9. TablesOK'
    BY <1>2, <1>4, <2>2, <2>5 DEF TablesOK, KernelOK, RaOK, EntriesOK, CallsOK
  <2>10. \A i \in RaSlots : /\ ra'[i].fd = ra[i].fd
                            /\ ra[i].fd # x => ra'[i] = ra[i]
                            /\ ra[i].fd = x => \A p \in Pages :
                                                 Holding(ra'[i].page[p], kernel[x].file)
    BY <1>3, <2>2, Untouched
  <2> QED BY <1>2, <1>3, <1>5, <2>2, <2>8, <2>9, <2>10, Moves
<1>7. CASE Route(x) = "ra"
  <2>1. PICK h : h = RaOf(x)
    OBVIOUS
  <2>2. /\ ra' = [ra EXCEPT ![h].pos = to] /\ kernel' = kernel /\ handles' = handles
    BY <1>1, <1>7, <2>1 DEF Seek
  <2>3. h \in RaSlots /\ ra[h].fd = x
    BY <1>3, <1>7, <2>1, SizesAre DEF Lookups, RaSlots, Route
  <2>4. ra \in [RaSlots -> [fd : 0 .. MaxFd, pos : 0 .. SIZE, page : [Pages -> Caches]]]
    BY <1>4 DEF TablesOK, RaOK
  <2>5. /\ ra' \in [RaSlots -> [fd : 0 .. MaxFd, pos : 0 .. SIZE, page : [Pages -> Caches]]]
        /\ ra'[h].fd = ra[h].fd /\ ra'[h].page = ra[h].page
        /\ \A i \in RaSlots : i # h => ra'[i] = ra[i]
    BY <1>2, <2>2, <2>3, <2>4
  <2>6. TablesOK'
    BY <1>2, <1>4, <2>2, <2>5 DEF TablesOK, KernelOK, RaOK, HandlesOK, EntriesOK, CallsOK
  <2>7. \A i \in RaSlots : /\ ra'[i].fd = ra[i].fd
                           /\ ra[i].fd # x => ra'[i] = ra[i]
                           /\ ra[i].fd = x => \A p \in Pages :
                                                Holding(ra'[i].page[p], kernel[x].file)
    BY <1>4, <2>3, <2>5
  <2>8. \A i \in Handles : /\ handles'[i].fd = handles[i].fd
                           /\ handles'[i].entry = handles[i].entry
                           /\ handles[i].fd # x => handles'[i] = handles[i]
                           /\ handles[i].fd = x => Holding(handles'[i].cache, handles[i].entry)
    BY <1>3, <2>2, Untouched
  <2> QED BY <1>2, <1>3, <1>5, <2>2, <2>6, <2>7, <2>8, Moves
<1>8. CASE Route(x) # "pack" /\ Route(x) # "ra"
  <2>1. kernel' = [kernel EXCEPT ![x].pos = to] /\ handles' = handles /\ ra' = ra
    BY <1>1, <1>8 DEF Seek
  <2>2. KernelOK' /\ kernel'[x].file = kernel[x].file /\ \A y \in Fds : y # x => kernel'[y] = kernel[y]
    BY <1>2, <1>4, <2>1 DEF TablesOK, KernelOK
  <2>3. TablesOK'
    BY <1>2, <1>4, <2>1, <2>2 DEF TablesOK, RaOK, HandlesOK, EntriesOK, CallsOK
  <2> QED BY <1>2, <1>3, <1>5, <2>1, <2>2, <2>3, Untouched, Moves
<1> QED BY <1>6, <1>7, <1>8

LEMMA WriteStep ==
  ASSUME DescInv, NEW t \in Threads, NEW x \in Fds, Write(t, x)
  PROVE  DescInv' /\ \A fd \in Fds : fd # x => SameAt(fd)
<1>1. /\ handles' = handles /\ ra' = ra /\ sinks' = sinks /\ ino' = ino
      /\ packFiles' = packFiles /\ stdio' = stdio
      /\ desc' = desc /\ call' = call /\ MayUse(t, x) /\ kernel[x].pos < SIZE
      /\ kernel' \in {kernel, [kernel EXCEPT ![x].pos = @ + 1]}
  BY DEF Write, tables
<1>2. call[t] = Idle /\ desc[x] # "none" /\ ~Calling(t, x)
  BY <1>1, Using
<1>3. TablesOK
  BY DEF DescInv
<1>4. KernelOK' /\ kernel'[x].file = kernel[x].file /\ \A y \in Fds : y # x => kernel'[y] = kernel[y]
  <2>1. CASE kernel' = kernel
    BY <1>3, <2>1 DEF TablesOK, KernelOK
  <2>2. CASE kernel' = [kernel EXCEPT ![x].pos = @ + 1]
    <3>1. kernel[x].pos \in 0 .. SIZE
      BY <1>2, Held
    <3>2. kernel[x].pos + 1 \in 0 .. SIZE
      BY <1>1, <3>1, SizesAre
    <3> QED BY <1>3, <2>2, <3>2 DEF TablesOK, KernelOK
  <2> QED BY <1>1, <2>1, <2>2
<1>5. TablesOK'
  BY <1>1, <1>3, <1>4 DEF TablesOK, RaOK, HandlesOK, EntriesOK, CallsOK
<1>6. ~Calling(t, x)'
  BY <1>1, <1>2 DEF Calling
<1> QED BY <1>1, <1>2, <1>4, <1>5, <1>6, Untouched, Moves

-----------------------------------------------------------------------------
(* Reading. *)

LEMMA BeginReadStep ==
  ASSUME DescInv, NEW t \in Threads, NEW x \in Fds, NEW want \in 1 .. MaxRead,
         BeginRead(t, x, want)
  PROVE  /\ DescInv'
         /\ call'[t].op \in ReadOps /\ call'[t].fd = x
         /\ call'[t].want = want /\ call'[t].buf = <<>>
         /\ \A s \in Threads : s # t => call'[s] = call[s]
<1>1. PICK o, h : /\ o = CASE Route(x) = "ra" -> "ra_read"
                          [] Route(x) = "plain" -> "plain_read"
                          [] Route(x) = "pack" /\ 2 * want > PACK_CACHE_SIZE -> "pack_direct"
                          [] OTHER -> "pack_read"
                  /\ h = IF Route(x) = "pack" THEN HandleOf(x) ELSE RaOf(x)
  OBVIOUS
<1>2. PICK c : c = [op |-> o, fd |-> x, slot |-> h, want |-> want, buf |-> <<>>]
  OBVIOUS
<1>3. /\ kernel' = kernel /\ handles' = handles /\ ra' = ra /\ sinks' = sinks /\ ino' = ino
      /\ packFiles' = packFiles /\ stdio' = stdio /\ desc' = desc /\ MayUse(t, x)
      /\ Busy(t, c)
  BY <1>1, <1>2 DEF BeginRead, tables
<1>4. call[t] = Idle /\ desc[x] # "none" /\ Lookups(x)
  BY <1>3, Using
<1>5. TablesOK
  BY DEF DescInv
<1>6. /\ o \in ReadOps
      /\ o \in {"pack_read", "pack_direct"} => h = HandleOf(x) /\ h # 0
      /\ o = "ra_read" => h = RaOf(x) /\ h # 0
      /\ o = "plain_read" => HandleOf(x) = 0 /\ RaOf(x) = 0
      /\ h \in {HandleOf(x), RaOf(x)}
  <2>1. CASE Route(x) = "pack"
    <3>1. o \in {"pack_read", "pack_direct"} /\ h = HandleOf(x)
      BY <1>1, <2>1
    <3> QED BY <2>1, <3>1 DEF Route, ReadOps
  <2>2. CASE Route(x) = "ra"
    BY <1>1, <2>2 DEF Route, ReadOps
  <2>3. CASE Route(x) = "plain"
    BY <1>1, <2>3 DEF Route, ReadOps
  <2> QED BY <2>1, <2>2, <2>3 DEF Route
<1>7. h \in Nat
  BY <1>4, <1>6, SizesAre DEF Lookups
<1>8. /\ c.op = o /\ c.fd = x /\ c.slot = h /\ c.want = want /\ c.buf = <<>>
  BY <1>2
<1>9. c \in ReadCalls /\ Len(c.buf) <= c.want
  <2>1. <<>> \in Seq(Files \X Nat)
    OBVIOUS
  <2>2. c \in ReadCalls
    BY <1>2, <1>6, <1>7, <2>1 DEF ReadCalls
  <2>3. Len(<<>>) = 0
    OBVIOUS
  <2> QED BY <1>8, <2>2, <2>3, SizesAre
<1>10. Legal(c)
  BY <1>9 DEF Legal
<1>11. /\ call'[t] = c
       /\ \A s \in Threads : s # t => call'[s] = call[s]
       /\ CallsOK'
  BY <1>3, <1>5, <1>10, CallChanges
<1>12. TablesOK'
  BY <1>3, <1>5, <1>11 DEF TablesOK, KernelOK, HandlesOK, RaOK, EntriesOK
<1>13. CallAt(t, x)'
  <2>1. /\ o \in {"pack_read", "pack_direct"} => h \in Handles /\ handles[h].fd = x
        /\ o = "ra_read" => h \in RaSlots /\ ra[h].fd = x
        /\ o = "plain_read" => /\ \A i \in Handles : handles[i].fd # x
                               /\ \A i \in RaSlots : ra[i].fd # x
    BY <1>4, <1>6, SizesAre DEF Lookups, Handles, RaSlots
  <2> QED BY <1>3, <1>4, <1>6, <1>8, <1>11, <2>1 DEF CallAt, ReadOps
<1>14. DescInv'
  BY <1>3, <1>4, <1>8, <1>11, <1>12, <1>13, Untouched, Moves
<1> QED BY <1>6, <1>8, <1>11, <1>14

(* As much as is wanted, or as is there: from pos up to e. *)
LEMMA Portion ==
  ASSUME NEW a \in Nat, NEW pos \in Nat, NEW e \in Nat, pos <= e, e <= SIZE,
         NEW n, n = Lesser(a, e - pos)
  PROVE  /\ n \in Nat /\ n <= a /\ pos + n <= e /\ pos + n \in 0 .. SIZE
         /\ a > 0 /\ pos < e => n > 0
         /\ n = a \/ pos + n = e
<1>1. SIZE \in Nat
  BY SizesAre
<1>2. CASE a < e - pos
  <2>1. n = a
    BY <1>2 DEF Lesser
  <2> QED BY <1>1, <1>2, <2>1
<1>3. CASE ~(a < e - pos)
  <2>1. n = e - pos
    BY <1>3 DEF Lesser
  <2> QED BY <1>1, <1>3, <2>1
<1> QED BY <1>2, <1>3

(* A read in progress. *)
LEMMA Reading ==
  ASSUME DescInv, NEW t \in Threads, call[t].op \in ReadOps
  PROVE  LET x == call[t].fd IN
         /\ x \in Fds /\ x # 0 /\ desc[x] # "none" /\ CallAt(t, x) /\ Calling(t, x)
         /\ call[t] \in ReadCalls /\ call[t].want \in Nat /\ call[t].buf \in Seq(Files \X Nat)
         /\ Len(call[t].buf) \in Nat /\ Len(call[t].buf) <= call[t].want
         /\ Remaining(t) \in Nat
<1>1. TablesOK
  BY DEF DescInv
<1>2. call[t] \in ReadCalls /\ Len(call[t].buf) <= call[t].want
  BY <1>1, CallIs
<1>3. /\ call[t].fd \in Fds /\ call[t].want \in 1 .. MaxRead
      /\ call[t].buf \in Seq(Files \X Nat)
  BY <1>2 DEF ReadCalls
<1>4. Calling(t, call[t].fd)
  BY DEF Calling, Idle, ReadOps
<1>5. CallAt(t, call[t].fd)
  BY <1>3, <1>4 DEF DescInv, Number
<1>6. desc[call[t].fd] # "none"
  BY <1>5 DEF CallAt
<1>7. call[t].want \in Nat /\ call[t].fd # 0
  BY <1>3, SizesAre DEF Fds
<1>8. Len(call[t].buf) \in Nat
  BY <1>3, LenProperties
<1>9. Remaining(t) \in Nat
  BY <1>2, <1>7, <1>8 DEF Remaining
<1> QED BY <1>2, <1>3, <1>4, <1>5, <1>6, <1>7, <1>8, <1>9

LEMMA BytesAre ==
  ASSUME NEW f \in Files, NEW from \in Nat, NEW n \in Nat
  PROVE  Bytes(f, from, n) \in Seq(Files \X Nat) /\ Len(Bytes(f, from, n)) = n
<1>1. PICK b : b = [i \in 1 .. n |-> <<f, from + i - 1>>]
  OBVIOUS
<1>2. \A i \in 1 .. n : <<f, from + i - 1>> \in Files \X Nat
  OBVIOUS
<1>3. b \in [1 .. n -> Files \X Nat]
  BY <1>1, <1>2
<1>4. b \in Seq(Files \X Nat)
  BY <1>3
<1>5. Len(b) = n
  BY <1>3, LenProperties, <1>4
<1> QED BY <1>1, <1>4, <1>5 DEF Bytes

(* What a delivery leaves of the call. *)
LEMMA Delivered ==
  ASSUME DescInv, NEW t \in Threads, call[t].op \in ReadOps,
         NEW f \in Files, NEW from \in Nat, NEW n \in Nat, n <= Remaining(t),
         Deliver(t, f, from, n)
  PROVE  /\ call'[t].op = call[t].op /\ call'[t].fd = call[t].fd
         /\ call'[t].slot = call[t].slot /\ call'[t].want = call[t].want
         /\ call'[t].buf = call[t].buf \o Bytes(f, from, n)
         /\ \A s \in Threads : s # t => call'[s] = call[s]
         /\ CallsOK'
         /\ call'[t] # Idle
<1>1. TablesOK
  BY DEF DescInv
<1>2. /\ call[t] \in ReadCalls /\ call[t].want \in Nat /\ call[t].buf \in Seq(Files \X Nat)
      /\ Len(call[t].buf) \in Nat
  BY Reading
<1>3. PICK b : b = call[t].buf \o Bytes(f, from, n)
  OBVIOUS
<1>4. b \in Seq(Files \X Nat) /\ Len(b) = Len(call[t].buf) + n
  <2>1. Bytes(f, from, n) \in Seq(Files \X Nat) /\ Len(Bytes(f, from, n)) = n
    BY BytesAre
  <2> QED BY <1>2, <1>3, <2>1, ConcatProperties, ZenonT(60)
<1>5. Len(b) <= call[t].want
  BY <1>2, <1>4 DEF Remaining
<1>6. PICK c : c = [call[t] EXCEPT !.buf = b]
  OBVIOUS
<1>7. Busy(t, c)
  BY <1>3, <1>6 DEF Deliver
<1>8. /\ c \in ReadCalls /\ c.op = call[t].op /\ c.fd = call[t].fd /\ c.slot = call[t].slot
      /\ c.want = call[t].want /\ c.buf = b
  BY <1>2, <1>4, <1>6 DEF ReadCalls
<1>9. Legal(c)
  BY <1>5, <1>8 DEF Legal
<1>10. /\ call'[t] = c
       /\ \A s \in Threads : s # t => call'[s] = call[s]
       /\ CallsOK'
  BY <1>1, <1>7, <1>9, CallChanges
<1>11. c # Idle
  BY <1>8 DEF Idle, ReadOps
<1> QED BY <1>3, <1>8, <1>10, <1>11

(* Every reader hands over the next bytes of the file the game opened.     *)
Hands(t, n, from) ==
  LET x == call[t].fd IN
  /\ n \in Nat /\ n > 0 /\ n <= Remaining(t)
  /\ from \in 0 .. SIZE /\ from + n \in 0 .. SIZE
  /\ Deliver(t, desc[x], from, n)
  /\ desc' = desc /\ ino' = ino /\ stdio' = stdio /\ packFiles' = packFiles /\ sinks' = sinks

LEMMA PlainReadStep ==
  ASSUME DescInv, NEW t \in Threads, PlainRead(t)
  PROVE  /\ DescInv' /\ \A fd \in Fds : fd # call[t].fd => SameAt(fd)
         /\ \E n, from : /\ Hands(t, n, from) /\ from = kernel[call[t].fd].pos
                         /\ kernel'[call[t].fd].pos = from + n
         /\ call[t].op = "plain_read"
<1>1. PICK x, k : x = call[t].fd /\ k = kernel[call[t].fd]
  OBVIOUS
<1>2. call[t].op = "plain_read" /\ call[t].op \in ReadOps
  BY DEF PlainRead, ReadOps
<1>3. /\ x \in Fds /\ desc[x] # "none" /\ CallAt(t, x) /\ Calling(t, x) /\ Remaining(t) \in Nat
  BY <1>1, <1>2, Reading
<1>4. (\A i \in Handles : handles[i].fd # x) /\ (\A i \in RaSlots : ra[i].fd # x)
  BY <1>2, <1>3 DEF CallAt
<1>5. /\ TablesOK /\ desc[x] \in Files /\ k.pos \in 0 .. SIZE /\ k.file = desc[x]
  BY <1>1, <1>3, <1>4, Held
<1>6. PICK n \in 1 .. Lesser(Remaining(t), SIZE - k.pos) :
        /\ Deliver(t, k.file, k.pos, n)
        /\ kernel' = [kernel EXCEPT ![x].pos = @ + n]
  BY <1>1 DEF PlainRead
<1>7. n \in Nat /\ n > 0 /\ n <= Remaining(t) /\ k.pos + n \in 0 .. SIZE
  <2>1. PICK p, m, left : /\ p = k.pos /\ left = Remaining(t)
                          /\ m = Lesser(Remaining(t), SIZE - k.pos)
    OBVIOUS
  <2>2. p \in Nat /\ p <= SIZE /\ SIZE \in Nat /\ left \in Nat
    BY <1>3, <1>5, <2>1, SizesAre
  <2>3. m = Lesser(left, SIZE - p)
    BY <2>1
  <2>4. m \in Nat /\ m <= left /\ p + m <= SIZE
    BY <2>2, <2>3, Portion
  <2>5. n \in Nat /\ n > 0 /\ n <= m
    BY <1>6, <2>1, <2>4
  <2> QED BY <2>1, <2>2, <2>4, <2>5
<1>8. /\ handles' = handles /\ ra' = ra /\ sinks' = sinks /\ ino' = ino
      /\ packFiles' = packFiles /\ stdio' = stdio /\ desc' = desc
  BY DEF PlainRead, tables
<1>9. Hands(t, n, k.pos)
  BY <1>1, <1>5, <1>6, <1>7, <1>8 DEF Hands
<1>10. /\ call'[t].op = call[t].op /\ call'[t].fd = call[t].fd /\ call'[t].slot = call[t].slot
       /\ \A s \in Threads : s # t => call'[s] = call[s]
       /\ CallsOK'
  BY <1>2, <1>5, <1>6, <1>7, Delivered
<1>11. /\ KernelOK' /\ kernel'[x].file = kernel[x].file
       /\ \A y \in Fds : y # x => kernel'[y] = kernel[y]
       /\ kernel'[x].pos = k.pos + n
  BY <1>1, <1>3, <1>5, <1>6, <1>7 DEF TablesOK, KernelOK
<1>12. TablesOK'
  BY <1>5, <1>8, <1>10, <1>11 DEF TablesOK, HandlesOK, RaOK, EntriesOK
<1>13. CallAt(t, x)'
  BY <1>2, <1>3, <1>8, <1>10 DEF CallAt, ReadOps
<1>14. DescInv' /\ \A fd \in Fds : fd # x => SameAt(fd)
  BY <1>1, <1>3, <1>8, <1>10, <1>11, <1>12, <1>13, Untouched, Moves
<1> QED BY <1>1, <1>2, <1>9, <1>11, <1>14

(* One handle moves. *)
LEMMA HandleReads ==
  ASSUME DescInv, NEW t \in Threads, call[t].op \in {"pack_read", "pack_direct"},
         NEW n, NEW from, Hands(t, n, from), from = handles[call[t].slot].pos,
         NEW k \in Caches, Holding(k, desc[call[t].fd]),
         \/ handles' = [handles EXCEPT ![call[t].slot].pos = from + n]
         \/ handles' = [handles EXCEPT ![call[t].slot].cache = k, ![call[t].slot].pos = from + n],
         kernel' = kernel, ra' = ra
  PROVE  /\ DescInv' /\ handles'[call[t].slot].pos = from + n
         /\ \A fd \in Fds : fd # call[t].fd => SameAt(fd)
<1>1. PICK x, h : x = call[t].fd /\ h = call[t].slot
  OBVIOUS
<1>2. /\ x \in Fds /\ x # 0 /\ desc[x] # "none" /\ CallAt(t, x) /\ Calling(t, x)
  BY <1>1, Reading DEF ReadOps
<1>3. h \in Handles /\ handles[h].fd = x
  BY <1>1, <1>2 DEF CallAt
<1>4. /\ TablesOK /\ desc[x] \in Files
      /\ \A i \in Handles : handles[i].fd = x => /\ handles[i].entry = desc[x]
                                                 /\ Holding(handles[i].cache, desc[x])
  BY <1>2, Held
<1>5. /\ n \in Nat /\ n <= Remaining(t) /\ from \in Nat /\ from + n \in 0 .. SIZE
      /\ Deliver(t, desc[x], from, n)
      /\ desc' = desc /\ ino' = ino /\ stdio' = stdio /\ packFiles' = packFiles /\ sinks' = sinks
  BY <1>1, SizesAre, SMTT(40) DEF Hands
<1>6. /\ call'[t].op = call[t].op /\ call'[t].fd = call[t].fd /\ call'[t].slot = call[t].slot
      /\ \A s \in Threads : s # t => call'[s] = call[s]
      /\ CallsOK'
  BY <1>4, <1>5, Delivered, SMTT(40) DEF ReadOps
<1>7. /\ HandlesOK'
      /\ \A i \in Handles : /\ handles'[i].fd = handles[i].fd
                            /\ handles'[i].entry = handles[i].entry
                            /\ i # h => handles'[i] = handles[i]
      /\ handles'[h].cache \in {handles[h].cache, k}
  BY <1>1, <1>2, <1>3, <1>4, <1>5, HandleMoves
<1>8. \A i \in Handles : handles[i].fd = x => i = h
  BY <1>2, <1>3, HandleIsPack
<1>9. \A i \in Handles : /\ handles'[i].fd = handles[i].fd
                         /\ handles'[i].entry = handles[i].entry
                         /\ handles[i].fd # x => handles'[i] = handles[i]
                         /\ handles[i].fd = x => Holding(handles'[i].cache, handles[i].entry)
  BY <1>1, <1>3, <1>4, <1>7, <1>8
<1>10. TablesOK'
  BY <1>4, <1>5, <1>6, <1>7, SMTT(40) DEF TablesOK, KernelOK, RaOK, EntriesOK
<1>11. CallAt(t, x)'
  BY <1>1, <1>2, <1>3, <1>5, <1>6, <1>7 DEF CallAt, ReadOps
<1>12. \A i \in RaSlots : /\ ra'[i].fd = ra[i].fd
                          /\ ra[i].fd # x => ra'[i] = ra[i]
                          /\ ra[i].fd = x => \A p \in Pages :
                                               Holding(ra'[i].page[p], kernel[x].file)
  BY <1>2, Untouched, SMTT(40)
<1>13. DescInv' /\ \A fd \in Fds : fd # x => SameAt(fd)
  BY <1>1, <1>2, <1>5, <1>6, <1>9, <1>10, <1>11, <1>12, Moves
<1>14. handles'[h].pos = from + n
  <2>1. handles \in [Handles -> [fd : 0 .. MaxFd, entry : Files \cup {"none"},
                                 pos : 0 .. SIZE, cache : Caches]]
    BY <1>4 DEF TablesOK, HandlesOK
  <2> QED BY <1>1, <1>3, <2>1
<1> QED BY <1>1, <1>13, <1>14

LEMMA PackReadStep ==
  ASSUME DescInv, NEW t \in Threads, PackRead(t)
  PROVE  /\ DescInv' /\ \A fd \in Fds : fd # call[t].fd => SameAt(fd)
         /\ \E n, from : /\ Hands(t, n, from) /\ from = handles[call[t].slot].pos
                         /\ handles'[call[t].slot].pos = from + n
         /\ call[t].op = "pack_read"
<1>1. PICK x, h : x = call[t].fd /\ h = handles[call[t].slot]
  OBVIOUS
<1>2. call[t].op = "pack_read" /\ call[t].op \in ReadOps /\ Remaining(t) > 0 /\ h.pos < SIZE
  BY <1>1, ZenonT(60) DEF PackRead, ReadOps
<1>3. /\ x \in Fds /\ desc[x] # "none" /\ CallAt(t, x) /\ Remaining(t) \in Nat
  BY <1>1, <1>2, Reading
<1>4. call[t].slot \in Handles /\ h.fd = x
  BY <1>1, <1>2, <1>3 DEF CallAt
<1>5. /\ desc[x] \in Files /\ h.pos \in 0 .. SIZE /\ h.cache \in Caches
      /\ h.entry = desc[x] /\ Holding(h.cache, desc[x])
  BY <1>1, <1>3, <1>4, Held
<1>6. PICK new, n :
        /\ new = IF Cached(h) THEN h.cache
                 ELSE [file |-> h.entry, off |-> h.pos,
                       len |-> Lesser(PACK_CACHE_SIZE, SIZE - h.pos)]
        /\ n = Lesser(Remaining(t), new.off + new.len - h.pos)
  OBVIOUS
<1>7. /\ Deliver(t, new.file, h.pos, n) /\ kernel' = kernel /\ ra' = ra
      /\ handles' = [handles EXCEPT ![call[t].slot].cache = new, ![call[t].slot].pos = @ + n]
      /\ desc' = desc /\ ino' = ino /\ stdio' = stdio /\ packFiles' = packFiles /\ sinks' = sinks
  BY <1>1, <1>6, ZenonT(60) DEF PackRead
<1>8. /\ new \in Caches /\ Holding(new, desc[x]) /\ new.file = desc[x]
      /\ new.off \in Nat /\ new.len \in Nat
      /\ new.off <= h.pos /\ h.pos < new.off + new.len /\ new.off + new.len <= SIZE
  <2>1. CASE Cached(h)
    <3>1. new = h.cache /\ h.cache.off \in Nat /\ h.cache.len \in Nat
      BY <1>5, <1>6, <2>1 DEF Caches
    <3>2. h.cache.len > 0 /\ h.cache.off <= h.pos /\ h.pos < h.cache.off + h.cache.len
      BY <1>5, <2>1, <3>1, SizesAre DEF Cached, Holds
    <3> QED BY <1>5, <3>1, <3>2 DEF Holding
  <2>2. CASE ~Cached(h)
    <3>1. PICK l : l = Lesser(PACK_CACHE_SIZE, SIZE - h.pos)
      OBVIOUS
    <3>2. l \in Nat /\ l > 0 /\ h.pos + l <= SIZE
      <4>1. PICK p : p = h.pos
        OBVIOUS
      <4>2. /\ p \in Nat /\ p < SIZE /\ SIZE \in Nat
            /\ PACK_CACHE_SIZE \in Nat /\ PACK_CACHE_SIZE > 0
        BY <1>2, <1>5, <4>1, SizesAre
      <4>3. l \in Nat /\ l > 0 /\ p + l <= SIZE
        BY <3>1, <4>1, <4>2, Portion
      <4> QED BY <4>1, <4>3
    <3>3. new = [file |-> desc[x], off |-> h.pos, len |-> l]
      BY <1>5, <1>6, <2>2, <3>1
    <3>4. new.file = desc[x] /\ new.off = h.pos /\ new.len = l
      BY <3>3
    <3>5. h.pos \in Nat
      BY <1>5, SizesAre
    <3>6. new \in Caches
      BY <1>5, <3>2, <3>3, <3>5 DEF Caches
    <3> QED BY <3>2, <3>4, <3>5, <3>6 DEF Holding
  <2> QED BY <2>1, <2>2
<1>9. n \in Nat /\ n > 0 /\ n <= Remaining(t) /\ h.pos + n \in 0 .. SIZE
  <2>1. h.pos \in Nat
    BY <1>5, SizesAre
  <2>2. PICK e, left : e = new.off + new.len /\ left = Remaining(t)
    OBVIOUS
  <2>3. e \in Nat /\ h.pos < e /\ e <= SIZE /\ left \in Nat /\ left > 0 /\ SIZE \in Nat
    BY <1>2, <1>3, <1>8, <2>2, SizesAre
  <2>4. n = Lesser(left, e - h.pos)
    <3>1. new.off + new.len - h.pos = e - h.pos
      BY <1>8, <2>1, <2>2
    <3> QED BY <1>6, <2>2, <3>1
  <2>5. PICK p : p = h.pos
    OBVIOUS
  <2>6. p \in Nat /\ p < e /\ p <= e /\ n = Lesser(left, e - p)
    BY <2>1, <2>3, <2>4, <2>5
  <2>7. n \in Nat /\ n > 0 /\ n <= left /\ p + n <= e
    <3>1. CASE left < e - p
      <4>1. n = left
        BY <2>6, <3>1 DEF Lesser
      <4> QED BY <2>3, <2>6, <3>1, <4>1
    <3>2. CASE ~(left < e - p)
      <4>1. n = e - p
        BY <2>6, <3>2 DEF Lesser
      <4> QED BY <2>3, <2>6, <3>2, <4>1
    <3> QED BY <3>1, <3>2
  <2>8. p + n \in 0 .. SIZE
    BY <2>3, <2>6, <2>7
  <2> QED BY <2>2, <2>5, <2>7, <2>8
<1>10. Hands(t, n, h.pos)
  BY <1>1, <1>5, <1>7, <1>8, <1>9 DEF Hands
<1>11. handles' = [handles EXCEPT ![call[t].slot].cache = new, ![call[t].slot].pos = h.pos + n]
  <2>1. TablesOK
    BY DEF DescInv
  <2>2. handles \in [Handles -> [fd : 0 .. MaxFd, entry : Files \cup {"none"},
                                 pos : 0 .. SIZE, cache : Caches]]
    BY <2>1 DEF TablesOK, HandlesOK
  <2> QED BY <1>1, <1>4, <1>7, <2>2
<1>12. /\ DescInv' /\ handles'[call[t].slot].pos = h.pos + n
       /\ \A fd \in Fds : fd # x => SameAt(fd)
  BY <1>1, <1>2, <1>7, <1>8, <1>10, <1>11, HandleReads, ZenonT(60)
<1> QED BY <1>1, <1>2, <1>10, <1>12

LEMMA PackDirectStep ==
  ASSUME DescInv, NEW t \in Threads, PackDirect(t)
  PROVE  /\ DescInv' /\ \A fd \in Fds : fd # call[t].fd => SameAt(fd)
         /\ \E n, from : /\ Hands(t, n, from) /\ from = handles[call[t].slot].pos
                         /\ handles'[call[t].slot].pos = from + n
         /\ call[t].op = "pack_direct"
<1>1. PICK x, h, n : /\ x = call[t].fd /\ h = handles[call[t].slot]
                     /\ n = Lesser(call[t].want, SIZE - h.pos)
  OBVIOUS
<1>2. /\ call[t].op = "pack_direct" /\ call[t].op \in ReadOps /\ call[t].buf = <<>> /\ n > 0
  BY <1>1 DEF PackDirect, ReadOps
<1>3. /\ x \in Fds /\ desc[x] # "none" /\ CallAt(t, x) /\ Remaining(t) \in Nat
      /\ call[t].want \in Nat
  BY <1>1, <1>2, Reading
<1>4. call[t].slot \in Handles /\ h.fd = x
  BY <1>1, <1>2, <1>3 DEF CallAt
<1>5. /\ desc[x] \in Files /\ h.pos \in 0 .. SIZE
      /\ h.entry = desc[x]
  BY <1>1, <1>3, <1>4, Held
<1>6. /\ Deliver(t, h.entry, h.pos, n) /\ kernel' = kernel /\ ra' = ra
      /\ handles' = [handles EXCEPT ![call[t].slot].pos = h.pos + n]
      /\ desc' = desc /\ ino' = ino /\ stdio' = stdio /\ packFiles' = packFiles /\ sinks' = sinks
  BY <1>1 DEF PackDirect
<1>7. Remaining(t) = call[t].want
  <2>1. Len(<<>>) = 0
    OBVIOUS
  <2> QED BY <1>2, <1>3, <2>1 DEF Remaining
<1>8. n \in Nat /\ n > 0 /\ n <= Remaining(t) /\ h.pos + n \in 0 .. SIZE
  <2>1. PICK p, w : p = h.pos /\ w = call[t].want
    OBVIOUS
  <2>2. p \in Nat /\ p <= SIZE /\ SIZE \in Nat /\ w \in Nat
    BY <1>3, <1>5, <2>1, SizesAre
  <2>3. n = Lesser(w, SIZE - p)
    BY <1>1, <2>1
  <2>4. n \in Nat /\ n <= w /\ p + n \in 0 .. SIZE
    BY <2>2, <2>3, Portion, SMTT(40)
  <2> QED BY <1>2, <1>7, <2>1, <2>4
<1>9. Hands(t, n, h.pos)
  BY <1>1, <1>5, <1>6, <1>8 DEF Hands
<1>10. NoCache \in Caches /\ Holding(NoCache, desc[x])
  BY DEF NoCache, Caches, Holding
<1>11. /\ DescInv' /\ handles'[call[t].slot].pos = h.pos + n
       /\ \A fd \in Fds : fd # x => SameAt(fd)
  BY <1>1, <1>2, <1>6, <1>9, <1>10, HandleReads, ZenonT(60)
<1> QED BY <1>1, <1>2, <1>9, <1>11

(* A refilled page covers the position it was filled for. *)
LEMMA PageCovers ==
  ASSUME NEW x \in Fds, NEW pos \in Nat, pos < SIZE, kernel[x].file \in Files
  PROVE  LET new == PageAt(x, pos) IN
         /\ new \in Caches /\ new.file = kernel[x].file
         /\ new.off \in Nat /\ new.len \in Nat
         /\ new.off <= pos /\ pos < new.off + new.len /\ new.off + new.len <= SIZE
<1>1. PICK b, l : b = (pos \div RA_PAGE) * RA_PAGE /\ l = Lesser(RA_PAGE, SIZE - b)
  OBVIOUS
<1>2. b \in Nat /\ b <= pos /\ pos < b + RA_PAGE
  BY <1>1, SizesAre
<1>3. l \in Nat /\ b + l <= SIZE /\ pos < b + l
  <2>1. b <= SIZE /\ SIZE \in Nat /\ RA_PAGE \in Nat
    BY <1>2, SizesAre
  <2>2. l \in Nat /\ b + l <= SIZE /\ (l = RA_PAGE \/ b + l = SIZE)
    BY <1>1, <1>2, <2>1, Portion
  <2> QED BY <1>2, <2>1, <2>2
<1>4. PICK new : new = [file |-> kernel[x].file, off |-> b, len |-> l]
  OBVIOUS
<1>5. new \in Caches /\ new.file = kernel[x].file /\ new.off = b /\ new.len = l
  BY <1>2, <1>3, <1>4 DEF Caches
<1>6. PageAt(x, pos) = new
  BY <1>1, <1>4 DEF PageAt
<1> QED BY <1>2, <1>3, <1>5, <1>6

(* One page of one slot changes, and the slot's position. *)
LEMMA SlotMoves ==
  ASSUME TablesOK, NEW h \in RaSlots, NEW p \in Pages, NEW k \in Caches, NEW n \in Nat,
         ra[h].pos + n \in 0 .. SIZE,
         ra' = [ra EXCEPT ![h].page[p] = k, ![h].pos = @ + n]
  PROVE  /\ RaOK' /\ \A i \in RaSlots : i # h => ra'[i] = ra[i]
         /\ ra'[h].fd = ra[h].fd /\ ra'[h].pos = ra[h].pos + n
         /\ ra'[h].page[p] = k /\ \A q \in Pages : q # p => ra'[h].page[q] = ra[h].page[q]
<1>1. ra \in [RaSlots -> [fd : 0 .. MaxFd, pos : 0 .. SIZE, page : [Pages -> Caches]]]
  BY DEF TablesOK, RaOK
<1>2. ra' = [i \in RaSlots |-> ra'[i]]
  BY <1>1
<1>3. PICK g, r, a, b : /\ g = [ra[h].page EXCEPT ![p] = k] /\ r = ra'[h]
                        /\ a = ra[h].fd /\ b = ra[h].pos + n
  OBVIOUS
<1>4. ra'[h] = [fd |-> ra[h].fd, pos |-> ra[h].pos + n, page |-> g]
  BY <1>1, <1>3
<1>5. \A i \in RaSlots : i # h => ra'[i] = ra[i]
  BY <1>1
<1>6. ra[h].page \in [Pages -> Caches] /\ a \in 0 .. MaxFd /\ b \in 0 .. SIZE
  BY <1>1, <1>3
<1>7. g \in [Pages -> Caches] /\ g[p] = k /\ \A q \in Pages : q # p => g[q] = ra[h].page[q]
  BY <1>3, <1>6
<1>8. r = [fd |-> a, pos |-> b, page |-> g]
  BY <1>3, <1>4
<1>9. r.page = g /\ r.fd = a /\ r.pos = b
  BY <1>8
<1>10. r \in [fd : 0 .. MaxFd, pos : 0 .. SIZE, page : [Pages -> Caches]]
  BY <1>6, <1>7, <1>8
<1>11. RaOK'
  BY <1>1, <1>2, <1>3, <1>5, <1>10, SMTT(40) DEF RaOK
<1> QED BY <1>3, <1>5, <1>7, <1>9, <1>11

LEMMA RaReadStep ==
  ASSUME DescInv, NEW t \in Threads, RaRead(t)
  PROVE  /\ DescInv' /\ \A fd \in Fds : fd # call[t].fd => SameAt(fd)
         /\ \E n, from : /\ Hands(t, n, from) /\ from = ra[call[t].slot].pos
                         /\ ra'[call[t].slot].pos = from + n
         /\ call[t].op = "ra_read"
<1>1. PICK x, s : x = call[t].fd /\ s = ra[call[t].slot]
  OBVIOUS
<1> DEFINE hits == {q \in Pages : Holds(ra[call[t].slot].page[q], ra[call[t].slot].pos)}
           empty == {q \in Pages : ra[call[t].slot].page[q].len = 0}
<1>2. call[t].op = "ra_read" /\ call[t].op \in ReadOps /\ Remaining(t) > 0 /\ s.pos < SIZE
  BY <1>1, ZenonT(60) DEF RaRead, ReadOps
<1>3. /\ x \in Fds /\ desc[x] # "none" /\ CallAt(t, x) /\ Calling(t, x) /\ Remaining(t) \in Nat
  BY <1>1, <1>2, Reading
<1>4. call[t].slot \in RaSlots /\ s.fd = x
  BY <1>1, <1>2, <1>3 DEF CallAt
<1>5. /\ TablesOK /\ desc[x] \in Files /\ s.pos \in 0 .. SIZE /\ kernel[x].file = desc[x]
      /\ \A q \in Pages : s.page[q] \in Caches /\ Holding(s.page[q], desc[x])
  BY <1>1, <1>3, <1>4, Held
<1>6. PICK p \in IF hits # {} THEN {Min(hits)} ELSE IF empty # {} THEN {Min(empty)} ELSE Pages :
        LET new == IF hits # {} THEN ra[call[t].slot].page[p]
                   ELSE PageAt(call[t].fd, ra[call[t].slot].pos)
            n == Lesser(Remaining(t), new.off + new.len - ra[call[t].slot].pos)
        IN /\ Deliver(t, new.file, ra[call[t].slot].pos, n)
           /\ ra' = [ra EXCEPT ![call[t].slot].page[p] = new, ![call[t].slot].pos = @ + n]
           /\ kernel' = IF hits # {} THEN kernel
                        ELSE [kernel EXCEPT ![call[t].fd].pos = new.off + new.len]
  BY ZenonT(60) DEF RaRead, Pages
<1>7. PICK new, n : /\ new = IF hits # {} THEN s.page[p] ELSE PageAt(x, s.pos)
                    /\ n = Lesser(Remaining(t), new.off + new.len - s.pos)
  OBVIOUS
<1>8. /\ Deliver(t, new.file, s.pos, n)
      /\ ra' = [ra EXCEPT ![call[t].slot].page[p] = new, ![call[t].slot].pos = @ + n]
      /\ kernel' = IF hits # {} THEN kernel ELSE [kernel EXCEPT ![x].pos = new.off + new.len]
  BY <1>1, <1>6, <1>7, ZenonT(60)
<1>9. p \in Pages /\ (hits # {} => p \in hits /\ Holds(s.page[p], s.pos))
  <2>1. /\ hits \in SUBSET (1 .. RA_PAGES) /\ empty \in SUBSET (1 .. RA_PAGES)
        /\ RA_PAGES \in Nat
    BY SizesAre DEF Pages
  <2>2. (hits # {} => Min(hits) \in hits) /\ (empty # {} => Min(empty) \in empty)
    <3> HIDE DEF hits, empty
    <3> QED BY <2>1, LeastIs
  <2>3. p \in Pages /\ (hits # {} => p \in hits)
    BY <1>6, <2>2, ZenonT(60)
  <2> QED BY <1>1, <2>3
<1> HIDE DEF hits, empty
<1>10. s.pos \in Nat
  BY <1>5, SizesAre
<1>11. /\ new \in Caches /\ new.file = desc[x] /\ new.off \in Nat /\ new.len \in Nat
       /\ new.off <= s.pos /\ s.pos < new.off + new.len /\ new.off + new.len <= SIZE
  <2>1. CASE hits # {}
    <3>1. new = s.page[p] /\ Holds(new, s.pos) /\ new \in Caches /\ Holding(new, desc[x])
      BY <1>1, <1>5, <1>7, <1>9, <2>1, ZenonT(60)
    <3>2. new.off \in Nat /\ new.len \in Nat
      BY <3>1, SMTT(40) DEF Caches
    <3>3. new.off <= s.pos /\ s.pos < new.off + new.len /\ new.len > 0
      BY <1>10, <3>1, <3>2, SMTT(40) DEF Holds
    <3>4. new.file = desc[x] /\ new.off + new.len <= SIZE
      BY <3>1, <3>3, SMTT(40) DEF Holding
    <3> QED BY <3>1, <3>2, <3>3, <3>4
  <2>2. CASE hits = {}
    <3>1. new = PageAt(x, s.pos)
      BY <1>7, <2>2
    <3> QED BY <1>2, <1>3, <1>5, <1>10, <3>1, PageCovers
  <2> QED BY <2>1, <2>2
<1>12. n \in Nat /\ n > 0 /\ n <= Remaining(t) /\ s.pos + n \in 0 .. SIZE
  <2>1. PICK e, left : e = new.off + new.len /\ left = Remaining(t)
    OBVIOUS
  <2>2. e \in Nat /\ s.pos < e /\ e <= SIZE /\ left \in Nat /\ left > 0 /\ SIZE \in Nat
    BY <1>2, <1>3, <1>11, <2>1, SizesAre
  <2>3. n = Lesser(left, e - s.pos)
    <3>1. new.off + new.len - s.pos = e - s.pos
      BY <1>10, <1>11, <2>1
    <3> QED BY <1>7, <2>1, <3>1
  <2>4. PICK o : o = s.pos
    OBVIOUS
  <2>5. o \in Nat /\ o < e /\ o <= e /\ n = Lesser(left, e - o)
    BY <1>10, <2>2, <2>3, <2>4
  <2>6. n \in Nat /\ n > 0 /\ n <= left /\ o + n <= e
    <3>1. CASE left < e - o
      <4>1. n = left
        BY <2>5, <3>1 DEF Lesser
      <4> QED BY <2>2, <2>5, <3>1, <4>1
    <3>2. CASE ~(left < e - o)
      <4>1. n = e - o
        BY <2>5, <3>2 DEF Lesser
      <4> QED BY <2>2, <2>5, <3>2, <4>1
    <3> QED BY <3>1, <3>2
  <2>7. o + n \in 0 .. SIZE
    BY <2>2, <2>5, <2>6
  <2> QED BY <2>1, <2>4, <2>6, <2>7
<1>13. /\ desc' = desc /\ ino' = ino /\ stdio' = stdio /\ packFiles' = packFiles
       /\ sinks' = sinks /\ handles' = handles
  BY ZenonT(60) DEF RaRead
<1>14. Hands(t, n, s.pos)
  BY <1>1, <1>5, <1>8, <1>11, <1>12, <1>13 DEF Hands
<1>15. /\ call'[t].op = call[t].op /\ call'[t].fd = call[t].fd /\ call'[t].slot = call[t].slot
       /\ \A o \in Threads : o # t => call'[o] = call[o]
       /\ CallsOK'
  BY <1>2, <1>5, <1>8, <1>10, <1>11, <1>12, Delivered
<1>16. /\ KernelOK' /\ kernel'[x].file = kernel[x].file
       /\ \A y \in Fds : y # x => kernel'[y] = kernel[y]
  <2>1. CASE hits # {}
    BY <1>5, <1>8, <2>1 DEF TablesOK, KernelOK
  <2>2. CASE hits = {}
    <3>1. PICK to : to = new.off + new.len
      OBVIOUS
    <3>2. to \in 0 .. SIZE
      BY <1>11, <3>1, SizesAre
    <3>3. kernel' = [kernel EXCEPT ![x].pos = to]
      BY <1>8, <2>2, <3>1, SMTT(40)
    <3> QED BY <1>3, <1>5, <3>2, <3>3 DEF TablesOK, KernelOK
  <2> QED BY <2>1, <2>2
<1>17. /\ RaOK' /\ \A i \in RaSlots : i # call[t].slot => ra'[i] = ra[i]
       /\ ra'[call[t].slot].fd = x /\ ra'[call[t].slot].pos = s.pos + n
       /\ ra'[call[t].slot].page[p] = new
       /\ \A q \in Pages : q # p => ra'[call[t].slot].page[q] = s.page[q]
  <2>1. PICK h : h = call[t].slot
    BY SMTT(40)
  <2>2. /\ h \in RaSlots /\ p \in Pages /\ new \in Caches /\ n \in Nat
        /\ ra[h].pos + n \in 0 .. SIZE /\ TablesOK
        /\ ra' = [ra EXCEPT ![h].page[p] = new, ![h].pos = @ + n]
    BY <1>1, <1>4, <1>5, <1>8, <1>9, <1>11, <1>12, <2>1
  <2>3. /\ RaOK' /\ \A i \in RaSlots : i # h => ra'[i] = ra[i]
        /\ ra'[h].fd = ra[h].fd /\ ra'[h].pos = ra[h].pos + n
        /\ ra'[h].page[p] = new /\ \A q \in Pages : q # p => ra'[h].page[q] = ra[h].page[q]
    BY <2>2, SlotMoves, ZenonT(60)
  <2> QED BY <1>1, <1>4, <2>1, <2>3
<1>18. TablesOK'
  BY <1>5, <1>13, <1>15, <1>16, <1>17, SMTT(40) DEF TablesOK, HandlesOK, EntriesOK
<1>19. \A q \in Pages : Holding(ra'[call[t].slot].page[q], desc[x])
  BY <1>5, <1>11, <1>17 DEF Holding
<1>20. TablesAt(x)
  BY <1>3, SMTT(40) DEF DescInv, Number
<1>21. \A i \in RaSlots : /\ ra'[i].fd = ra[i].fd
                          /\ ra[i].fd # x => ra'[i] = ra[i]
                          /\ ra[i].fd = x => \A q \in Pages :
                                               Holding(ra'[i].page[q], kernel[x].file)
  BY <1>1, <1>4, <1>5, <1>17, <1>19, <1>20 DEF TablesAt
<1>22. CallAt(t, x)'
  BY <1>1, <1>2, <1>3, <1>4, <1>13, <1>15, <1>17, SMTT(40) DEF CallAt, ReadOps
<1>23. DescInv' /\ \A fd \in Fds : fd # x => SameAt(fd)
  BY <1>1, <1>3, <1>13, <1>15, <1>16, <1>18, <1>21, <1>22, Untouched, Moves
<1> QED BY <1>1, <1>2, <1>14, <1>17, <1>23

LEMMA EndReadStep ==
  ASSUME DescInv, NEW t \in Threads, EndRead(t)
  PROVE  /\ DescInv' /\ call[t].op \in ReadOps /\ call'[t] = Idle
         /\ \A fd \in Fds : fd # call[t].fd => SameAt(fd)
         /\ \A s \in Threads : s # t => call'[s] = call[s]
         /\ \A i \in Handles : handles'[i].fd = handles[i].fd /\ handles'[i].pos = handles[i].pos
<1>1. PICK x, h, k : /\ x = call[t].fd /\ h = call[t].slot
                     /\ k = [file |-> handles[h].entry, off |-> SIZE, len |-> 0]
  OBVIOUS
<1>2. call[t].op \in ReadOps /\ Busy(t, Idle)
  BY DEF EndRead, ReadOps, Return
<1>3. /\ kernel' = kernel /\ ra' = ra /\ sinks' = sinks /\ ino' = ino
      /\ packFiles' = packFiles /\ stdio' = stdio /\ desc' = desc
      /\ \/ handles' = handles
         \/ call[t].op = "pack_read" /\ handles' = [handles EXCEPT ![h].cache = k]
  BY <1>1 DEF EndRead
<1>4. /\ x \in Fds /\ x # 0 /\ desc[x] # "none" /\ CallAt(t, x) /\ Calling(t, x)
  BY <1>1, <1>2, Reading
<1>5. /\ TablesOK /\ desc[x] \in Files
      /\ \A i \in Handles : handles[i].fd = x => /\ handles[i].entry = desc[x]
                                                 /\ Holding(handles[i].cache, desc[x])
  BY <1>4, Held
<1>6. /\ call'[t] = Idle
      /\ \A s \in Threads : s # t => call'[s] = call[s]
      /\ CallsOK'
  BY <1>2, <1>5, IdleIsLegal, CallChanges
<1>7. /\ HandlesOK'
      /\ \A i \in Handles : /\ handles'[i].fd = handles[i].fd
                            /\ handles'[i].entry = handles[i].entry
                            /\ handles'[i].pos = handles[i].pos
                            /\ handles[i].fd # x => handles'[i] = handles[i]
                            /\ handles[i].fd = x => Holding(handles'[i].cache, handles[i].entry)
  <2>1. CASE handles' = handles
    BY <1>5, <2>1 DEF TablesOK, HandlesOK
  <2>2. CASE call[t].op = "pack_read" /\ handles' = [handles EXCEPT ![h].cache = k]
    <3>1. h \in Handles /\ handles[h].fd = x /\ handles[h].entry = desc[x]
      BY <1>1, <1>4, <1>5, <2>2 DEF CallAt
    <3>2. k \in Caches /\ Holding(k, desc[x])
      <4>1. k = [file |-> desc[x], off |-> SIZE, len |-> 0]
        BY <1>1, <3>1
      <4> QED BY <1>5, <4>1, SizesAre DEF Caches, Holding
    <3>3. /\ HandlesOK'
          /\ \A i \in Handles : /\ handles'[i].fd = handles[i].fd
                                /\ handles'[i].entry = handles[i].entry
                                /\ i # h => handles'[i] = handles[i]
          /\ handles'[h].cache \in {handles[h].cache, k}
      <4>1. 0 \in 0 .. SIZE
        BY SizesAre
      <4> QED BY <1>4, <1>5, <2>2, <3>1, <3>2, <4>1, HandleMoves
    <3>4. handles'[h].pos = handles[h].pos
      BY <1>5, <2>2, <3>1 DEF TablesOK, HandlesOK
    <3>5. \A i \in Handles : handles[i].fd = x => i = h
      BY <1>4, <3>1, HandleIsPack
    <3> QED BY <1>5, <3>1, <3>2, <3>3, <3>4, <3>5
  <2> QED BY <1>3, <2>1, <2>2
<1>8. TablesOK'
  BY <1>3, <1>5, <1>6, <1>7 DEF TablesOK, KernelOK, RaOK, EntriesOK
<1>9. ~Calling(t, x)'
  BY <1>6 DEF Calling
<1>10. \A i \in RaSlots : /\ ra'[i].fd = ra[i].fd
                          /\ ra[i].fd # x => ra'[i] = ra[i]
                          /\ ra[i].fd = x => \A p \in Pages :
                                               Holding(ra'[i].page[p], kernel[x].file)
  BY <1>3, <1>4, Untouched
<1>11. DescInv' /\ \A fd \in Fds : fd # x => SameAt(fd)
  BY <1>1, <1>3, <1>4, <1>6, <1>7, <1>8, <1>9, <1>10, Moves
<1> QED BY <1>1, <1>2, <1>6, <1>7, <1>11

-----------------------------------------------------------------------------
(* The invariant holds initially, and every step keeps it. *)

LEMMA InitInv == Init => DescInv
<1> SUFFICES ASSUME Init PROVE DescInv
  OBVIOUS
<1>1. /\ kernel = [fd \in Fds |-> Shut]
      /\ handles = [i \in Handles |-> NoHandle]
      /\ ra = [i \in RaSlots |-> NoRa]
      /\ sinks = [i \in Sinks |-> 0]
      /\ ino = [fd \in Fds |-> "none"]
      /\ packFiles = [i \in FileSlots |-> -1]
      /\ stdio = {}
      /\ desc = [fd \in Fds |-> "none"]
      /\ call = [t \in Threads |-> Idle]
  BY DEF Init, Handles, RaSlots, Sinks, FileSlots, Free
<1>2. KernelOK
  BY <1>1, ShutIs DEF KernelOK
<1>3. HandlesOK
  <2>1. NoHandle \in [fd : 0 .. MaxFd, entry : Files \cup {"none"}, pos : 0 .. SIZE, cache : Caches]
    BY SizesAre DEF NoHandle, NoCache, Caches
  <2> QED BY <1>1, <2>1 DEF HandlesOK
<1>4. RaOK
  <2>1. NoCache \in Caches
    BY DEF NoCache, Caches
  <2>2. [p \in Pages |-> NoCache] \in [Pages -> Caches]
    BY <2>1
  <2>3. NoRa \in [fd : 0 .. MaxFd, pos : 0 .. SIZE, page : [Pages -> Caches]]
    BY <2>2, SizesAre DEF NoRa, Pages
  <2> QED BY <1>1, <2>3 DEF RaOK
<1>5. EntriesOK
  <2>1. 0 \in 0 .. MaxFd /\ -1 \in -1 .. MaxFd
    BY SizesAre
  <2> QED BY <1>1, <2>1 DEF EntriesOK
<1>6. CallsOK
  BY <1>1, IdleIsLegal DEF CallsOK
<1>7. ASSUME NEW fd \in Fds  PROVE Number(fd)
  <2>1. /\ fd # 0 /\ fd # -1
    BY DEF Fds
  <2>2. /\ kernel[fd] = Shut /\ desc[fd] = "none" /\ fd \notin stdio
        /\ \A i \in Handles : handles[i].fd # fd
        /\ \A i \in RaSlots : ra[i].fd # fd
        /\ \A i \in Sinks : sinks[i] # fd
        /\ \A i \in FileSlots : packFiles[i] # fd
        /\ \A t \in Threads : ~Calling(t, fd)
    BY <1>1, <2>1 DEF NoHandle, NoRa, Calling
  <2>3. TablesAt(fd) /\ GameAt(fd)
    BY <2>2 DEF TablesAt, GameAt, Shut
  <2>4. OwnedBy(fd, "nobody", 0)
    BY <2>2 DEF OwnedBy, Shut
  <2> QED BY <2>2, <2>3, <2>4 DEF Number
<1> QED BY <1>2, <1>3, <1>4, <1>5, <1>6, <1>7 DEF DescInv, TablesOK

LEMMA StutterInv ==
  ASSUME DescInv, UNCHANGED vars
  PROVE  DescInv'
<1>1. /\ kernel' = kernel /\ handles' = handles /\ ra' = ra /\ sinks' = sinks /\ ino' = ino
      /\ packFiles' = packFiles /\ stdio' = stdio /\ desc' = desc /\ call' = call
  BY DEF vars, tables
<1>2. TablesOK'
  BY <1>1 DEF DescInv, TablesOK, KernelOK, HandlesOK, RaOK, EntriesOK, CallsOK
<1>3. \A fd \in Fds : SameAt(fd)
  BY <1>1 DEF SameAt
<1>4. 0 \notin Fds
  BY DEF Fds
<1> QED BY <1>2, <1>3, <1>4, OneStep

LEMMA NextInv ==
  ASSUME DescInv, ~FdopenAny, [Next]_vars
  PROVE  DescInv'
<1>1. CASE UNCHANGED vars
  BY <1>1, StutterInv
<1>2. ASSUME NEW t \in Threads, Begin(t)  PROVE DescInv'
  <2>1. ASSUME NEW f \in Files, NEW for \in {"open", "fopen"}, OpenPacked(t, f, for)
        PROVE  DescInv'
    BY <2>1, OpenPackedStep
  <2>2. ASSUME NEW fd \in Fds, \/ Fdopen(t, fd) \/ Fclose(t, fd) \/ ClosePacked(t, fd)
                               \/ CloseOther(t, fd) \/ Write(t, fd)
        PROVE  DescInv'
    BY <2>2, FdopenStep, FcloseStep, ClosePackedStep, CloseOtherStep, WriteStep
  <2>3. ASSUME NEW fd \in Fds, NEW want \in 1 .. MaxRead, BeginRead(t, fd, want)
        PROVE  DescInv'
    BY <2>3, BeginReadStep
  <2>4. ASSUME NEW fd \in Fds, NEW s \in Seeks, Seek(t, fd, s[1], s[2])
        PROVE  DescInv'
    BY <2>4, SeekStep
  <2>5. ASSUME NEW i \in FileSlots, FclosePacked(t, i)
        PROVE  DescInv'
    BY <2>5, FclosePackedStep
  <2> QED BY <1>2, <2>1, <2>2, <2>3, <2>4, <2>5 DEF Begin, FileSlots
<1>3. ASSUME NEW t \in Threads, Continue(t)  PROVE DescInv'
  <2>1. ASSUME NEW f \in Files, OpenLoose(t, f)  PROVE DescInv'
    BY <2>1, OpenLooseStep
  <2>2. CASE \/ AddHandle(t) \/ RaAttach(t) \/ SinkAdd(t) \/ OpenFails(t)
             \/ AddFile(t) \/ OpenLooseStream(t) \/ ReleaseStream(t) \/ KernelClose(t)
    BY <2>2, AddHandleStep, RaAttachStep, SinkAddStep, OpenFailsStep, AddFileStep,
       OpenLooseStreamStep, ReleaseStreamStep, KernelCloseStep
  <2>3. CASE PlainRead(t) \/ RaRead(t) \/ PackRead(t) \/ PackDirect(t) \/ EndRead(t)
    BY <2>3, PlainReadStep, RaReadStep, PackReadStep, PackDirectStep, EndReadStep
  <2> QED BY <1>3, <2>1, <2>2, <2>3 DEF Continue
<1> QED BY <1>1, <1>2, <1>3 DEF Next

-----------------------------------------------------------------------------
(* What the invariant says. *)

LEMMA EntriesFollow == DescInv => EntriesFollowNumbers
<1> SUFFICES ASSUME DescInv PROVE EntriesFollowNumbers
  OBVIOUS
<1>1. TablesOK /\ \A fd \in Fds : TablesAt(fd) /\ GameAt(fd)
  BY DEF DescInv, Number
<1>2. \A fd \in 0 .. MaxFd : fd # 0 => fd \in Fds
  BY SizesAre DEF Fds
<1>3. ASSUME NEW i \in Handles, handles[i] # NoHandle
      PROVE  /\ kernel[handles[i].fd].file = "pack"
             /\ desc[handles[i].fd] \in {"none", handles[i].entry}
             /\ handles[i].cache.file \in {"none", handles[i].entry}
             /\ \A j \in Handles : handles[j].fd = handles[i].fd => i = j
  <2>1. handles[i].fd \in Fds
    BY <1>1, <1>2, <1>3 DEF TablesOK, HandlesOK
  <2> QED BY <1>1, <2>1 DEF TablesAt, HandleAt, Holding
<1>4. ASSUME NEW i \in RaSlots, ra[i].fd # 0
      PROVE  /\ kernel[ra[i].fd].file \in BigFiles
             /\ \A p \in Pages : ra[i].page[p].file \in {"none", kernel[ra[i].fd].file}
             /\ \A j \in RaSlots : ra[j].fd = ra[i].fd => i = j
  <2>1. ra[i].fd \in Fds
    BY <1>1, <1>2, <1>4 DEF TablesOK, RaOK
  <2> QED BY <1>1, <2>1 DEF TablesAt, RaAt, Holding
<1>5. ASSUME NEW i \in Sinks, sinks[i] # 0
      PROVE  kernel[sinks[i]].file \in UsymFiles
  <2>1. sinks[i] \in Fds
    BY <1>1, <1>2, <1>5 DEF TablesOK, EntriesOK
  <2> QED BY <1>1, <2>1 DEF TablesAt
<1>6. \A fd \in Fds : desc[fd] # "none" => ino[fd] = desc[fd]
  BY <1>1 DEF GameAt
<1>7. ASSUME NEW fd \in Fds \ stdio, kernel[fd].file \notin {"none", "pack"}
      PROVE  InodeIsRight(fd)
  <2>1. PICK who, x : OwnedBy(fd, who, x)
    BY DEF DescInv, Number
  <2>2. CASE who = "game"
    BY <1>1, <1>7, <2>1, <2>2 DEF OwnedBy, GameAt, TablesAt, HandleAt, InodeIsRight
  <2>3. CASE who = "slot"
    BY <1>1, <1>7, <2>1, <2>3 DEF OwnedBy, GameAt
  <2>4. CASE who = "call"
    <3>1. x \in Threads /\ Calling(x, fd) /\ desc[fd] = "none"
      BY <2>1, <2>4 DEF OwnedBy
    <3>2. CallAt(x, fd) /\ Legal(call[x])
      BY <3>1 DEF DescInv, Number, TablesOK, CallsOK
    <3>3. call[x].op \in {"ra_attach", "sink_add", "close"}
      BY <1>7, <3>1, <3>2, SizesAre DEF CallAt, Legal, Calling, OpenCalls, AttachCalls,
         StreamCalls, CloseCalls, ReadCalls, Idle, Fds, NoFd
    <3> QED BY <1>7, <3>2, <3>3 DEF CallAt, InodeIsRight
  <2> QED BY <1>7, <2>1, <2>2, <2>3, <2>4 DEF OwnedBy
<1> QED BY <1>3, <1>4, <1>5, <1>6, <1>7 DEF EntriesFollowNumbers, Handles, RaSlots, Pages, Sinks

LEMMA OneOwner == DescInv => NumbersAreOwned
<1> SUFFICES ASSUME DescInv, NEW fd \in Fds
             PROVE  Owners(fd) = IF kernel[fd] = Shut THEN 0 ELSE 1
  BY DEF NumbersAreOwned
<1> DEFINE S == {i \in FileSlots : packFiles[i] = fd}
           C == {t \in Threads : call[t] # Idle /\ call[t].fd = fd /\ desc[fd] = "none"}
<1>1. PICK who, x : OwnedBy(fd, who, x)
  BY DEF DescInv, Number
<1>2. Owners(fd) = (IF desc[fd] # "none" THEN 1 ELSE 0) + (IF fd \in stdio THEN 1 ELSE 0)
                   + Cardinality(S) + Cardinality(C)
  BY DEF Owners, FileSlots
<1>3. kernel[fd] = Shut <=> who = "nobody"
  <2>1. kernel[fd] = [file |-> kernel[fd].file, pos |-> kernel[fd].pos]
    BY DEF DescInv, TablesOK, KernelOK
  <2>2. kernel[fd].file = "none" => kernel[fd].pos = 0
    BY DEF DescInv, Number, GameAt
  <2>3. kernel[fd] = Shut <=> kernel[fd].file = "none"
    BY <2>1, <2>2 DEF Shut
  <2> QED BY <1>1, <2>3 DEF OwnedBy
<1>4. /\ S = IF who = "slot" THEN {x} ELSE {}
      /\ C = IF who = "call" THEN {x} ELSE {}
  <2>1. S = IF who = "slot" THEN {x} ELSE {}
    BY <1>1 DEF OwnedBy
  <2>2. C = IF who = "call" THEN {x} ELSE {}
    BY <1>1 DEF OwnedBy, Calling
  <2> QED BY <2>1, <2>2
<1>5. (desc[fd] # "none" <=> who = "game") /\ (fd \in stdio <=> who = "stdio")
      /\ who \in {"nobody", "game", "stdio", "slot", "call"}
  BY <1>1 DEF OwnedBy
<1> HIDE DEF S, C
<1>6. Cardinality({x}) = 1 /\ Cardinality({}) = 0
  BY FS_Singleton, FS_EmptySet
<1>7. /\ Cardinality(S) = IF who = "slot" THEN 1 ELSE 0
      /\ Cardinality(C) = IF who = "call" THEN 1 ELSE 0
  BY <1>4, <1>6
<1> QED BY <1>2, <1>3, <1>5, <1>7

(* Every entry and call is the one its number stands for, and each open    *)
(* number has one owner: DescInv.                                          *)
THEOREM DescriptorsInvariant == ASSUME ~FdopenAny PROVE Spec => []DescInv
<1>1. DescInv /\ [Next]_vars => DescInv'
  BY NextInv
<1> QED BY <1>1, InitInv, PTL DEF Spec

(* The port's tables and the kernel's numbers stay in step, through every  *)
(* open, close and failure of any number of threads: no handle, read-ahead *)
(* or sink entry serves a number for a file it no longer stands for, no    *)
(* descriptor of the game and no number a call opens or closes has the     *)
(* inode of another file, and no number is leaked or closed twice.  The    *)
(* inodes of the C library's streams are not among them.                   *)
THEOREM TablesInStep == ASSUME ~FdopenAny PROVE Spec => []NumbersInStep
<1>1. DescInv => NumbersInStep
  BY EntriesFollow, OneOwner DEF NumbersInStep
<1> QED BY <1>1, DescriptorsInvariant, PTL
-----------------------------------------------------------------------------
(* Each descriptor behaves as FileApi says.                                *)

LEMMA TableIs ==
  /\ Table = [fd \in Fds |-> Table[fd]] /\ Reads = [t \in Threads |-> Reads[t]]
  /\ \A fd \in Fds : /\ desc[fd] = "none" => Table[fd] = [file |-> "none", pos |-> 0]
                     /\ desc[fd] # "none" => Table[fd] = [file |-> desc[fd], pos |-> Position(fd)]
  /\ \A t \in Threads :
       /\ call[t].op \in ReadOps =>
            Reads[t] = [fd |-> call[t].fd, want |-> call[t].want, buf |-> call[t].buf]
       /\ call[t].op \notin ReadOps => Reads[t] = [fd |-> 0, want |-> 0, buf |-> <<>>]
  BY DEF Table, Reads, ReadOps

LEMMA TableNext ==
  /\ Table' = [fd \in Fds |-> Table'[fd]] /\ Reads' = [t \in Threads |-> Reads'[t]]
  /\ \A fd \in Fds : /\ desc'[fd] = "none" => Table'[fd] = [file |-> "none", pos |-> 0]
                     /\ desc'[fd] # "none" => Table'[fd] = [file |-> desc'[fd], pos |-> Position(fd)']
  /\ \A t \in Threads :
       /\ call'[t].op \in ReadOps =>
            Reads'[t] = [fd |-> call'[t].fd, want |-> call'[t].want, buf |-> call'[t].buf]
       /\ call'[t].op \notin ReadOps => Reads'[t] = [fd |-> 0, want |-> 0, buf |-> <<>>]
  BY DEF Table, Reads, ReadOps

(* The position of a descriptor, and whose position a read goes by. *)
Positions ==
  \A fd \in Fds : desc[fd] # "none" =>
    Position(fd) \in 0 .. SIZE /\ \A p : PosIs(fd, p) <=> p = Position(fd)
Served ==
  \A t \in Threads : LET c == call[t] IN
    /\ c.op = "plain_read" => Position(c.fd) = kernel[c.fd].pos
    /\ c.op = "ra_read" => Position(c.fd) = ra[c.slot].pos
    /\ c.op \in {"pack_read", "pack_direct"} => Position(c.fd) = handles[c.slot].pos

LEMMA PositionsAre == DescInv => Positions /\ Served
<1> SUFFICES ASSUME DescInv PROVE Positions /\ Served
  OBVIOUS
<1>1. ASSUME NEW fd \in Fds, desc[fd] # "none"
      PROVE  /\ Position(fd) \in 0 .. SIZE
             /\ \A p : PosIs(fd, p) <=> p = Position(fd)
  <2>1. Lookups(fd) /\ TablesAt(fd)
    BY LookupsFind DEF DescInv, Number
  <2>2. /\ kernel[fd].pos \in 0 .. SIZE /\ \A i \in Handles : handles[i].pos \in 0 .. SIZE
        /\ \A i \in RaSlots : ra[i].pos \in 0 .. SIZE
    BY <1>1, Held
  <2>3. CASE HandleOf(fd) # 0
    <3>1. PICK h : h = HandleOf(fd)
      OBVIOUS
    <3>2. h \in Handles /\ handles[h].fd = fd
      BY <2>1, <2>3, <3>1, SizesAre DEF Lookups, Handles
    <3>3. (\A i \in Handles : handles[i].fd = fd => i = h) /\ \A i \in RaSlots : ra[i].fd # fd
      BY <3>2, HandleIsPack DEF Unlisted
    <3>4. Position(fd) = handles[h].pos
      BY <2>3, <3>1 DEF Position, Route
    <3> QED BY <2>2, <3>2, <3>3, <3>4 DEF PosIs
  <2>4. CASE HandleOf(fd) = 0 /\ RaOf(fd) # 0
    <3>1. PICK h : h = RaOf(fd)
      OBVIOUS
    <3>2. h \in RaSlots /\ ra[h].fd = fd /\ \A i \in Handles : handles[i].fd # fd
      BY <2>1, <2>4, <3>1, SizesAre DEF Lookups, RaSlots
    <3>3. \A i \in RaSlots : ra[i].fd = fd => i = h
      BY <2>1, <3>2 DEF TablesAt
    <3>4. Position(fd) = ra[h].pos
      BY <2>4, <3>1 DEF Position, Route
    <3> QED BY <2>2, <3>2, <3>3, <3>4 DEF PosIs
  <2>5. CASE HandleOf(fd) = 0 /\ RaOf(fd) = 0
    <3>1. (\A i \in Handles : handles[i].fd # fd) /\ \A i \in RaSlots : ra[i].fd # fd
      BY <2>1, <2>5 DEF Lookups
    <3>2. Position(fd) = kernel[fd].pos
      BY <2>5 DEF Position, Route
    <3> QED BY <2>2, <3>1, <3>2 DEF PosIs
  <2> QED BY <2>3, <2>4, <2>5
<1>2. Positions
  BY <1>1 DEF Positions
<1>3. ASSUME NEW t \in Threads, call[t].op \in ReadOps
      PROVE  /\ call[t].op = "plain_read" => Position(call[t].fd) = kernel[call[t].fd].pos
             /\ call[t].op = "ra_read" => Position(call[t].fd) = ra[call[t].slot].pos
             /\ call[t].op \in {"pack_read", "pack_direct"} =>
                  Position(call[t].fd) = handles[call[t].slot].pos
  <2>1. PICK x : x = call[t].fd
    OBVIOUS
  <2>2. x \in Fds /\ desc[x] # "none" /\ CallAt(t, x)
    BY <1>3, <2>1, Reading
  <2>3. PosIs(x, Position(x))
    BY <1>1, <2>2
  <2> QED BY <2>1, <2>2, <2>3 DEF CallAt, PosIs
<1>4. Served
  BY <1>3 DEF Served, ReadOps
<1> QED BY <1>2, <1>4

LEMMA PositionsNext == DescInv' => Positions' /\ Served'
  BY PositionsAre, PTL

(* A step about one number leaves the rest of the table as it was. *)
LEMMA TableChanges ==
  ASSUME DescInv, DescInv', NEW x, \A fd \in Fds : fd # x => SameAt(fd)
  PROVE  /\ \A fd \in Fds : fd # x => Table'[fd] = Table[fd]
         /\ \A r : x \in Fds /\ Table'[x] = r => Table' = [Table EXCEPT ![x] = r]
         /\ x \notin Fds => Table' = Table
<1>1. Positions /\ Positions'
  BY PositionsAre, PositionsNext
<1>2. ASSUME NEW fd \in Fds, fd # x  PROVE Table'[fd] = Table[fd]
  <2>1. SameAt(fd) /\ desc'[fd] = desc[fd]
    BY <1>2 DEF SameAt
  <2>2. CASE desc[fd] = "none"
    BY <2>1, <2>2, TableIs, TableNext
  <2>3. CASE desc[fd] # "none"
    <3>1. PICK p : p = Position(fd)'
      OBVIOUS
    <3>2. PosIs(fd, p)'
      BY <1>1, <2>1, <2>3, <3>1 DEF Positions
    <3>3. PosIs(fd, p)
      BY <2>1, <3>2 DEF PosIs, SameAt
    <3>4. p = Position(fd)
      BY <1>1, <2>3, <3>3 DEF Positions
    <3>5. Table[fd] = [file |-> desc[fd], pos |-> p]
      BY <2>3, <3>4, TableIs
    <3>6. Table'[fd] = [file |-> desc'[fd], pos |-> p]
      BY <2>1, <2>3, <3>1, TableNext
    <3> QED BY <2>1, <3>5, <3>6
  <2> QED BY <2>2, <2>3
<1>3. Table = [fd \in Fds |-> Table[fd]] /\ Table' = [fd \in Fds |-> Table'[fd]]
  BY TableIs, TableNext
<1> QED BY <1>2, <1>3

(* Opening and closing. *)
LEMMA EffectSeen ==
  ASSUME DescInv, DescInv', Effect
  PROVE  [Api!Next]_(Api!vars)
<1>1. PICK x : /\ \A fd \in Fds : fd # x => SameAt(fd)
               /\ Quiet(x) \/ Opens(x) \/ Closes(x)
  BY DEF Effect
<1>2. Reads' = Reads
  <2>1. \A t \in Threads : Reads'[t] = Reads[t]
    BY TableIs, TableNext DEF Effect
  <2> QED BY <2>1, TableIs, TableNext
<1>3. /\ \A r : x \in Fds /\ Table'[x] = r => Table' = [Table EXCEPT ![x] = r]
      /\ x \notin Fds => Table' = Table
      /\ \A fd \in Fds : fd # x => Table'[fd] = Table[fd]
  BY <1>1, TableChanges
<1>4. CASE Quiet(x)
  <2>1. \A fd \in Fds : Table'[fd] = Table[fd]
    BY <1>3, <1>4, TableIs, TableNext DEF Quiet
  <2>2. Table' = Table
    BY <2>1, TableIs, TableNext
  <2> QED BY <1>2, <2>2 DEF Api!vars
<1>5. CASE Opens(x)
  <2>1. x \in Fds /\ desc[x] = "none" /\ desc'[x] # "none" /\ PosIs(x, 0)'
    BY <1>5 DEF Opens
  <2>2. desc'[x] \in Files /\ Position(x)' = 0
    <3>1. desc' \in [Fds -> Files \cup {"none"}]
      BY DEF DescInv, TablesOK, EntriesOK
    <3>2. Positions'
      BY PositionsNext
    <3> QED BY <2>1, <3>1, <3>2 DEF Positions
  <2>3. PICK f \in Files : f = desc'[x]
    BY <2>2
  <2>4. /\ Table[x] = [file |-> "none", pos |-> 0]
        /\ Table' = [Table EXCEPT ![x] = [file |-> f, pos |-> 0]]
    BY <1>3, <2>1, <2>2, <2>3, TableIs, TableNext
  <2>5. Api!Open(x)
    BY <2>4 DEF Api!Open, Api!Shut
  <2> QED BY <1>2, <2>1, <2>5 DEF Api!Next
<1>6. CASE Closes(x)
  <2>1. /\ x \in Fds /\ desc[x] # "none" /\ desc'[x] = "none"
        /\ \A t \in Threads : ~Calling(t, x)
    BY <1>6 DEF Closes
  <2>2. Table' = [Table EXCEPT ![x] = [file |-> "none", pos |-> 0]]
    BY <1>3, <2>1, TableNext
  <2>3. Table[x] # [file |-> "none", pos |-> 0]
    BY <2>1, TableIs
  <2>4. \A t \in Threads : Reads[t].fd # x
    <3>1. \A t \in Threads : call[t].op \in ReadOps => call[t].fd # x
      BY <2>1 DEF Calling, Idle, ReadOps
    <3>2. x # 0
      BY <2>1 DEF Fds
    <3> QED BY <3>1, <3>2, TableIs
  <2>5. Api!Close(x)
    BY <2>2, <2>3, <2>4 DEF Api!Close, Api!Shut
  <2> QED BY <1>2, <2>1, <2>5 DEF Api!Next
<1> QED BY <1>1, <1>4, <1>5, <1>6

(* lseek and write. *)
LEMMA ShiftSeen ==
  ASSUME DescInv, DescInv', NEW t \in Threads, NEW x \in Fds, MayUse(t, x),
         desc' = desc, call' = call, \A fd \in Fds : fd # x => SameAt(fd)
  PROVE  [Api!Next]_(Api!vars)
<1>1. desc[x] # "none" /\ \A s \in Threads : ~Calling(s, x)
  BY Using
<1>2. PICK p : p = Position(x)'
  OBVIOUS
<1>3. p \in 0 .. SIZE
  BY <1>1, <1>2, PositionsNext DEF Positions
<1>4. /\ Table[x] = [file |-> desc[x], pos |-> Position(x)]
      /\ Table'[x] = [file |-> desc[x], pos |-> p]
  BY <1>1, <1>2, TableIs, TableNext
<1>5. Table' = [Table EXCEPT ![x].pos = p]
  <2>1. Table' = [Table EXCEPT ![x] = [file |-> desc[x], pos |-> p]]
    BY <1>4, TableChanges
  <2>2. PICK T, f, q : T = Table /\ f = desc[x] /\ q = Position(x)
    OBVIOUS
  <2>3. T[x] = [file |-> f, pos |-> q]
    BY <1>4, <2>2
  <2>4. [T EXCEPT ![x].pos = p] = [T EXCEPT ![x] = [file |-> f, pos |-> p]]
    <3>1. [T[x] EXCEPT !.pos = p] = [file |-> f, pos |-> p]
      BY <2>3
    <3>2. [T EXCEPT ![x].pos = p] = [T EXCEPT ![x] = [T[x] EXCEPT !.pos = p]]
      OBVIOUS
    <3> QED BY <3>1, <3>2
  <2> QED BY <2>1, <2>2, <2>4
<1>6. Reads' = Reads
  BY DEF Reads
<1>7. \A s \in Threads : Reads[s].fd # x
  <2>1. \A s \in Threads : call[s].op \in ReadOps => call[s].fd # x
    BY <1>1 DEF Calling, Idle, ReadOps
  <2>2. x # 0
    BY DEF Fds
  <2> QED BY <2>1, <2>2, TableIs
<1>8. Table[x] # Api!Shut
  BY <1>1, <1>4 DEF Api!Shut
<1>9. Api!Reposition(x)
  BY <1>3, <1>5, <1>7, <1>8 DEF Api!Reposition, Api!Move
<1> QED BY <1>6, <1>9 DEF Api!Next

LEMMA BeginSeen ==
  ASSUME DescInv, DescInv', NEW t \in Threads, NEW x \in Fds, NEW want \in 1 .. MaxRead,
         BeginRead(t, x, want)
  PROVE  [Api!Next]_(Api!vars)
<1>1. /\ call'[t].op \in ReadOps /\ call'[t].fd = x
      /\ call'[t].want = want /\ call'[t].buf = <<>>
      /\ \A s \in Threads : s # t => call'[s] = call[s]
  BY BeginReadStep
<1>2. /\ kernel' = kernel /\ handles' = handles /\ ra' = ra /\ desc' = desc /\ MayUse(t, x)
  BY DEF BeginRead, tables
<1>3. call[t] = Idle /\ desc[x] # "none"
  BY <1>2 DEF MayUse
<1>4. Table' = Table
  BY <1>2 DEF Table, Position, Route, HandleOf, RaOf
<1>5. Reads[t] = [fd |-> 0, want |-> 0, buf |-> <<>>]
  BY <1>3, IdleIsLegal, TableIs DEF ReadOps
<1>6. Reads' = [Reads EXCEPT ![t] = [fd |-> x, want |-> want, buf |-> <<>>]]
  <2>1. Reads'[t] = [fd |-> x, want |-> want, buf |-> <<>>]
    BY <1>1, TableNext
  <2>2. \A s \in Threads : s # t => Reads'[s] = Reads[s]
    BY <1>1, TableIs, TableNext
  <2> QED BY <2>1, <2>2, TableIs, TableNext
<1>7. Table[x] # Api!Shut
  BY <1>3, TableIs DEF Api!Shut
<1>8. Api!Begin(t)
  BY <1>5, <1>6, <1>7 DEF Api!Begin, Api!Idle
<1> QED BY <1>4, <1>8 DEF Api!Next

(* A read is not idle to the abstract specification either: it has a number. *)
LEMMA ReadIs ==
  ASSUME DescInv, NEW t \in Threads, call[t].op \in ReadOps
  PROVE  /\ Reads[t] = [fd |-> call[t].fd, want |-> call[t].want, buf |-> call[t].buf]
         /\ Reads[t] # Api!Idle
         /\ call[t].fd \in Fds /\ desc[call[t].fd] # "none"
         /\ Table[call[t].fd] = [file |-> desc[call[t].fd], pos |-> Position(call[t].fd)]
         /\ Table[call[t].fd] # Api!Shut
<1>1. call[t].fd \in Fds /\ call[t].fd # 0 /\ desc[call[t].fd] # "none"
  BY Reading
<1>2. Reads[t] = [fd |-> call[t].fd, want |-> call[t].want, buf |-> call[t].buf]
  BY TableIs
<1>3. Reads[t] # Api!Idle
  BY <1>1, <1>2 DEF Api!Idle
<1>4. Table[call[t].fd] = [file |-> desc[call[t].fd], pos |-> Position(call[t].fd)]
  BY <1>1, TableIs
<1> QED BY <1>1, <1>2, <1>3, <1>4 DEF Api!Shut

LEMMA EndSeen ==
  ASSUME DescInv, DescInv', NEW t \in Threads, EndRead(t)
  PROVE  [Api!Next]_(Api!vars)
<1>1. PICK x : x = call[t].fd
  OBVIOUS
<1>2. /\ call[t].op \in ReadOps /\ call'[t] = Idle
      /\ \A s \in Threads : s # t => call'[s] = call[s]
      /\ \A i \in Handles : handles'[i].fd = handles[i].fd /\ handles'[i].pos = handles[i].pos
      /\ \A fd \in Fds : fd # x => SameAt(fd)
  BY <1>1, EndReadStep
<1>3. /\ kernel' = kernel /\ ra' = ra /\ desc' = desc
      /\ Remaining(t) = 0 \/ Position(x) >= SIZE
  <2>1. Served
    BY PositionsAre
  <2> QED BY <1>1, <1>2, <2>1 DEF EndRead, Served, ReadOps
<1>4. /\ Reads[t] = [fd |-> x, want |-> call[t].want, buf |-> call[t].buf]
      /\ Reads[t] # Api!Idle
      /\ x \in Fds /\ desc[x] # "none"
      /\ Table[x] = [file |-> desc[x], pos |-> Position(x)]
  BY <1>1, <1>2, ReadIs
<1>5. Table' = Table
  <2>1. PICK p : p = Position(x)'
    OBVIOUS
  <2>2. PosIs(x, p)'
    BY <1>3, <1>4, <2>1, PositionsNext DEF Positions
  <2>3. PosIs(x, p)
    BY <1>2, <1>3, <2>2 DEF PosIs
  <2>4. p = Position(x)
    BY <1>4, <2>3, PositionsAre DEF Positions
  <2>5. Table[x] = [file |-> desc[x], pos |-> p]
    BY <1>4, <2>4
  <2>6. Table'[x] = [file |-> desc'[x], pos |-> p]
    BY <1>3, <1>4, <2>1, TableNext
  <2>7. Table'[x] = Table[x]
    BY <1>3, <2>5, <2>6
  <2>8. \A fd \in Fds : Table'[fd] = Table[fd]
    BY <1>2, <2>7, TableChanges
  <2> QED BY <2>8, TableIs, TableNext
<1>6. Reads' = [Reads EXCEPT ![t] = [fd |-> 0, want |-> 0, buf |-> <<>>]]
  <2>1. Reads'[t] = [fd |-> 0, want |-> 0, buf |-> <<>>]
    BY <1>2, IdleIsLegal, TableNext DEF ReadOps
  <2>2. \A s \in Threads : s # t => Reads'[s] = Reads[s]
    BY <1>2, TableIs, TableNext
  <2> QED BY <2>1, <2>2, TableIs, TableNext
<1>7. Len(Reads[t].buf) = Reads[t].want \/ Table[Reads[t].fd].pos >= SIZE
  <2>1. Remaining(t) = 0 => Len(call[t].buf) = call[t].want
    <3>1. call[t].want \in Nat /\ Len(call[t].buf) \in Nat
      BY <1>2, Reading
    <3> QED BY <3>1 DEF Remaining
  <2> QED BY <1>3, <1>4, <2>1
<1>8. Api!End(t)
  BY <1>4, <1>6, <1>7 DEF Api!End, Api!Idle
<1> QED BY <1>5, <1>8 DEF Api!Next

(* Whatever serves it, a read hands over the bytes at its position. *)
LEMMA DeliverSeen ==
  ASSUME DescInv, DescInv', NEW t \in Threads, call[t].op \in ReadOps,
         NEW n, NEW from, Hands(t, n, from),
         NEW x, x = call[t].fd, from = Position(x), Position(x)' = from + n,
         \A fd \in Fds : fd # x => SameAt(fd)
  PROVE  [Api!Next]_(Api!vars)
<1>1. PICK f : f = desc[x]
  OBVIOUS
<1>2. /\ n \in Nat /\ n > 0 /\ n <= Remaining(t) /\ from \in 0 .. SIZE
      /\ from + n \in 0 .. SIZE /\ Deliver(t, f, from, n) /\ desc' = desc /\ desc'[x] = f
  BY <1>1 DEF Hands
<1>3. /\ Reads[t] = [fd |-> x, want |-> call[t].want, buf |-> call[t].buf]
      /\ Reads[t] # Api!Idle
      /\ x \in Fds /\ f # "none"
      /\ Table[x] = [file |-> f, pos |-> from] /\ Table[x] # Api!Shut
  BY <1>1, ReadIs
<1>4. f \in Files /\ from \in Nat
  <2>1. desc[x] \in Files
    BY <1>1, <1>3, Held
  <2> QED BY <1>1, <1>2, <2>1, SizesAre
<1>5. /\ call'[t].op = call[t].op /\ call'[t].fd = call[t].fd /\ call'[t].want = call[t].want
      /\ call'[t].buf = call[t].buf \o Bytes(f, from, n)
      /\ \A s \in Threads : s # t => call'[s] = call[s]
  BY <1>2, <1>4, Delivered, ZenonT(60)
<1>6. Table' = [Table EXCEPT ![x].pos = from + n]
  <2>1. Table'[x] = [file |-> f, pos |-> from + n]
    BY <1>1, <1>2, <1>3, TableNext
  <2>2. Table' = [Table EXCEPT ![x] = [file |-> f, pos |-> from + n]]
    BY <1>1, <1>3, <2>1, TableChanges
  <2>3. PICK T, p : T = Table /\ p = from + n
    OBVIOUS
  <2>4. T[x] = [file |-> f, pos |-> from]
    BY <1>3, <2>3
  <2>5. [T EXCEPT ![x].pos = p] = [T EXCEPT ![x] = [file |-> f, pos |-> p]]
    <3>1. [T[x] EXCEPT !.pos = p] = [file |-> f, pos |-> p]
      BY <2>4
    <3>2. [T EXCEPT ![x].pos = p] = [T EXCEPT ![x] = [T[x] EXCEPT !.pos = p]]
      OBVIOUS
    <3> QED BY <3>1, <3>2
  <2> QED BY <2>2, <2>3, <2>5
<1>7. Reads' = [Reads EXCEPT ![t].buf = @ \o Bytes(f, from, n)]
  <2>1. Reads'[t] = [fd |-> x, want |-> call[t].want, buf |-> call[t].buf \o Bytes(f, from, n)]
    BY <1>1, <1>5, TableNext, ZenonT(60)
  <2>2. \A s \in Threads : s # t => Reads'[s] = Reads[s]
    BY <1>5, TableIs, TableNext
  <2>3. Reads' = [Reads EXCEPT ![t] = Reads'[t]]
    BY <2>2, TableIs, TableNext
  <2>4. PICK R, w, b, c : /\ R = Reads /\ w = call[t].want /\ b = call[t].buf
                          /\ c = b \o Bytes(f, from, n)
    OBVIOUS
  <2>5. R[t] = [fd |-> x, want |-> w, buf |-> b]
    BY <1>3, <2>4
  <2>6. [R EXCEPT ![t].buf = c] = [R EXCEPT ![t] = [fd |-> x, want |-> w, buf |-> c]]
    <3>1. [R[t] EXCEPT !.buf = c] = [fd |-> x, want |-> w, buf |-> c]
      BY <2>5
    <3>2. [R EXCEPT ![t].buf = c] = [R EXCEPT ![t] = [R[t] EXCEPT !.buf = c]]
      OBVIOUS
    <3> QED BY <3>1, <3>2
  <2>7. R[t].buf = b
    BY <2>5
  <2>8. Reads' = [R EXCEPT ![t].buf = c]
    BY <2>1, <2>3, <2>4, <2>6
  <2> QED BY <2>4, <2>7, <2>8
<1>8. n \in 1 .. Reads[t].want - Len(Reads[t].buf)
  <2>1. call[t].want \in Nat /\ Len(call[t].buf) \in Nat
    BY Reading
  <2> QED BY <1>2, <1>3, <2>1 DEF Remaining
<1>9. Bytes(f, from, n) = [i \in 1 .. n |-> <<f, from + i - 1>>]
  BY DEF Bytes
<1>10. Api!Move(x, from + n)
  BY <1>2, <1>3, <1>6 DEF Api!Move
<1>11. Reads[t].fd = x /\ Table[x].file = f /\ Table[x].pos = from
  BY <1>3, SMTT(40)
<1>12. Api!Deliver(t)
  BY <1>3, <1>7, <1>8, <1>9, <1>10, <1>11, ZenonT(60) DEF Api!Deliver
<1> QED BY <1>12 DEF Api!Next

LEMMA ReadSeen ==
  ASSUME DescInv, DescInv', NEW t \in Threads,
         PlainRead(t) \/ RaRead(t) \/ PackRead(t) \/ PackDirect(t)
  PROVE  [Api!Next]_(Api!vars)
<1>1. Served /\ Served'
  BY PositionsAre, PositionsNext
<1>2. \E n, from : /\ Hands(t, n, from)
                   /\ \/ /\ call[t].op = "plain_read" /\ from = kernel[call[t].fd].pos
                         /\ kernel'[call[t].fd].pos = from + n
                      \/ /\ call[t].op = "ra_read" /\ from = ra[call[t].slot].pos
                         /\ ra'[call[t].slot].pos = from + n
                      \/ /\ call[t].op \in {"pack_read", "pack_direct"}
                         /\ from = handles[call[t].slot].pos
                         /\ handles'[call[t].slot].pos = from + n
      /\ \A fd \in Fds : fd # call[t].fd => SameAt(fd)
  BY PlainReadStep, RaReadStep, PackReadStep, PackDirectStep
<1>3. PICK n, from :
        /\ Hands(t, n, from)
        /\ \/ /\ call[t].op = "plain_read" /\ from = kernel[call[t].fd].pos
              /\ kernel'[call[t].fd].pos = from + n
           \/ /\ call[t].op = "ra_read" /\ from = ra[call[t].slot].pos
              /\ ra'[call[t].slot].pos = from + n
           \/ /\ call[t].op \in {"pack_read", "pack_direct"}
              /\ from = handles[call[t].slot].pos
              /\ handles'[call[t].slot].pos = from + n
  BY <1>2
<1>4. call[t].op \in ReadOps
  BY <1>3 DEF ReadOps
<1>5. /\ call'[t].op = call[t].op /\ call'[t].fd = call[t].fd /\ call'[t].slot = call[t].slot
  <2>1. /\ n \in Nat /\ n <= Remaining(t) /\ from \in Nat /\ Deliver(t, desc[call[t].fd], from, n)
    BY <1>3, SizesAre DEF Hands
  <2>2. desc[call[t].fd] \in Files
    <3>1. call[t].fd \in Fds /\ desc[call[t].fd] # "none"
      BY <1>4, Reading
    <3> QED BY <3>1, Held
  <2> QED BY <1>4, <2>1, <2>2, Delivered
<1>6. PICK x : x = call[t].fd
  OBVIOUS
<1>7. from = Position(x)
  BY <1>1, <1>3, <1>6 DEF Served
<1>8. Position(x)' = from + n
  <2>1. call'[t].fd = x
    BY <1>5, <1>6
  <2> QED BY <1>1, <1>3, <1>5, <1>6, <2>1 DEF Served
<1>9. \A fd \in Fds : fd # x => SameAt(fd)
  BY <1>2, <1>6
<1> QED BY <1>3, <1>4, <1>6, <1>7, <1>8, <1>9, DeliverSeen

LEMMA ApiInit == Init => Api!Init
<1> SUFFICES ASSUME Init PROVE Api!Init
  OBVIOUS
<1>1. desc = [fd \in Fds |-> "none"] /\ call = [t \in Threads |-> Idle]
  BY DEF Init
<1>2. Table = [fd \in Fds |-> [file |-> "none", pos |-> 0]]
  BY <1>1 DEF Table
<1>3. Reads = [t \in Threads |-> [fd |-> 0, want |-> 0, buf |-> <<>>]]
  <2>1. \A t \in Threads : call[t].op \notin ReadOps
    BY <1>1, IdleIsLegal DEF ReadOps
  <2> QED BY <2>1, TableIs
<1> QED BY <1>2, <1>3 DEF Api!Init, Api!Shut, Api!Idle

LEMMA StepSeen ==
  ASSUME DescInv, DescInv', ~FdopenAny, [Next]_vars
  PROVE  [Api!Next]_(Api!vars)
<1>1. CASE UNCHANGED vars
  <2>1. Table' = Table /\ Reads' = Reads
    BY <1>1 DEF vars, tables, Table, Reads, Position, Route, HandleOf, RaOf
  <2> QED BY <2>1 DEF Api!vars
<1>2. ASSUME NEW t \in Threads, Begin(t)  PROVE [Api!Next]_(Api!vars)
  <2>1. ASSUME NEW f \in Files, NEW for \in {"open", "fopen"}, OpenPacked(t, f, for)
        PROVE  [Api!Next]_(Api!vars)
    BY <2>1, OpenPackedStep, EffectSeen
  <2>2. ASSUME NEW fd \in Fds, Fdopen(t, fd) \/ Fclose(t, fd) \/ ClosePacked(t, fd) \/ CloseOther(t, fd)
        PROVE  [Api!Next]_(Api!vars)
    BY <2>2, FdopenStep, FcloseStep, ClosePackedStep, CloseOtherStep, EffectSeen
  <2>3. ASSUME NEW fd \in Fds, Write(t, fd)
        PROVE  [Api!Next]_(Api!vars)
    <3>1. MayUse(t, fd) /\ desc' = desc /\ call' = call
      BY <2>3 DEF Write
    <3> QED BY <2>3, <3>1, WriteStep, ShiftSeen
  <2>4. ASSUME NEW fd \in Fds, NEW want \in 1 .. MaxRead, BeginRead(t, fd, want)
        PROVE  [Api!Next]_(Api!vars)
    BY <2>4, BeginSeen
  <2>5. ASSUME NEW fd \in Fds, NEW s \in Seeks, Seek(t, fd, s[1], s[2])
        PROVE  [Api!Next]_(Api!vars)
    <3>1. MayUse(t, fd) /\ desc' = desc /\ call' = call
      BY <2>5 DEF Seek
    <3> QED BY <2>5, <3>1, SeekStep, ShiftSeen
  <2>6. ASSUME NEW i \in FileSlots, FclosePacked(t, i)
        PROVE  [Api!Next]_(Api!vars)
    BY <2>6, FclosePackedStep, EffectSeen
  <2> QED BY <1>2, <2>1, <2>2, <2>3, <2>4, <2>5, <2>6 DEF Begin, FileSlots
<1>3. ASSUME NEW t \in Threads, Continue(t)  PROVE [Api!Next]_(Api!vars)
  <2>1. ASSUME NEW f \in Files, OpenLoose(t, f)  PROVE [Api!Next]_(Api!vars)
    BY <2>1, OpenLooseStep, EffectSeen
  <2>2. CASE \/ AddHandle(t) \/ RaAttach(t) \/ SinkAdd(t) \/ OpenFails(t)
             \/ AddFile(t) \/ OpenLooseStream(t) \/ ReleaseStream(t) \/ KernelClose(t)
    <3>1. Effect
      BY <2>2, AddHandleStep, RaAttachStep, SinkAddStep, OpenFailsStep, AddFileStep,
         OpenLooseStreamStep, ReleaseStreamStep, KernelCloseStep
    <3> QED BY <3>1, EffectSeen
  <2>3. CASE PlainRead(t) \/ RaRead(t) \/ PackRead(t) \/ PackDirect(t)
    BY <2>3, ReadSeen
  <2>4. CASE EndRead(t)
    BY <2>4, EndSeen
  <2> QED BY <1>3, <2>1, <2>2, <2>3, <2>4 DEF Continue
<1> QED BY <1>1, <1>2, <1>3 DEF Next

(* Whatever serves a descriptor, and whatever other threads open, read and *)
(* close meanwhile, the game finds one file and one position behind it: a  *)
(* read returns the bytes that follow, and comes back short only at the    *)
(* end of the file.                                                        *)
THEOREM FilesAsPromised == ASSUME ~FdopenAny PROVE Spec => ReadsAsFiles
<1>1. DescInv /\ DescInv' /\ [Next]_vars => [Api!Next]_(Api!vars)
  BY StepSeen
<1> QED BY <1>1, ApiInit, DescriptorsInvariant, PTL DEF Spec, ReadsAsFiles, Api!Spec
=============================================================================
