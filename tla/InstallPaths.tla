---------------------------- MODULE InstallPaths ----------------------------
(* Where the port looks for RVGL's libraries and data: rv_paths.c.         *)
(*                                                                         *)
(* A path is the sequence of its names; a card is the set of the paths     *)
(* that exist on it, with the directory of each.  What is a file and what  *)
(* a directory follows from the last name.  An operator that depends on    *)
(* the order in which readdir lists a directory yields the set of the      *)
(* answers it can give.                                                    *)
EXTENDS Sequences, SequencesExt, FiniteSets

CONSTANTS
  FileNames,     \* the names that are files
  RequiredLibs,  \* kRequiredLibs, libmain.so among them
  FolderNames,   \* kDataFolderNames, in order
  Fallbacks,     \* kFallbackRoots, in order
  SearchRoots,   \* kSearchRoots, in order
  RuntimeDirs    \* kRuntimeDirs, as paths under the data directory

PathNames == STRING
Paths == Seq(PathNames) \ {<<>>}

(* The provers do not know that what is written in quotes is a string.     *)
ASSUME PathsAssumption ==
  /\ {"lib", "rvgl"} \subseteq PathNames
  /\ FolderNames \in Seq(PathNames)
  /\ Fallbacks \in Seq(Paths) \ {<<>>}
  /\ RuntimeDirs \subseteq Paths
  /\ \A r \in RuntimeDirs : Len(r) = 1 \/ Front(r) \in RuntimeDirs

Join(dir, leaf) == Append(dir, leaf)

Exists(card, path) == path \in card

IsDirectory(card, path) == Exists(card, path) /\ Last(path) \notin FileNames

SubDirs(card, dir) == {p \in card : Front(p) = dir /\ IsDirectory(card, p)}

(* The directory of the NRO; a launcher that gives a bare name gives none. *)
Dirname(path) == IF Len(path) > 1 THEN Front(path) ELSE <<>>

LooksLikeLibDir(card, dir) == Exists(card, Join(dir, "libmain.so"))

LooksLikeDataDir(card, dir) ==
  \A leaf \in {"cars", "levels"} : IsDirectory(card, Join(dir, leaf))

-----------------------------------------------------------------------------
(* What is made of a base. *)

(* What a loop over a list takes: the first of those that will do.         *)
First(list, fit) == {list[i] : i \in {i \in fit : \A j \in fit : i <= j}}

(* A known folder name, the base itself, or whichever folder has the data. *)
FindDataDir(card, base) ==
  LET named == {i \in DOMAIN FolderNames : LooksLikeDataDir(card, Join(base, FolderNames[i]))}
  IN CASE named # {}                   -> {Join(base, n) : n \in First(FolderNames, named)}
       [] LooksLikeDataDir(card, base) -> {base}
       [] OTHER -> {d \in SubDirs(card, base) : LooksLikeDataDir(card, d)}

LibDir(card, base) ==
  IF LooksLikeLibDir(card, base) /\ ~LooksLikeLibDir(card, Join(base, "lib"))
  THEN base ELSE Join(base, "lib")

PopulateFrom(card, base) ==
  LET found == FindDataDir(card, base) IN
  {[base |-> base, lib |-> LibDir(card, base), data |-> d, fromArgv |-> FALSE] :
     d \in IF found = {} THEN {Join(base, "rvgl")} ELSE found}

Recognised(card, paths) ==
  LooksLikeLibDir(card, paths.lib) \/ LooksLikeDataDir(card, paths.data)

-----------------------------------------------------------------------------
(* rv_paths_resolve: the folder of the NRO, then the folders earlier       *)
(* versions used, then any folder with libmain.so; failing all of them the *)
(* folder of the NRO again, or the first of the others.                    *)

FromArgv(card, nro) ==
  IF IsDirectory(card, nro) THEN {[p EXCEPT !.fromArgv = TRUE] : p \in PopulateFrom(card, nro)}
  ELSE {}

FromFallbacks(card) ==
  LET good == {i \in DOMAIN Fallbacks :
                 /\ IsDirectory(card, Fallbacks[i])
                 /\ \E p \in PopulateFrom(card, Fallbacks[i]) : Recognised(card, p)}
  IN UNION {PopulateFrom(card, b) : b \in First(Fallbacks, good)}

LibHolders(card, root) ==
  {d \in SubDirs(card, root) :
     LooksLikeLibDir(card, d) \/ LooksLikeLibDir(card, Join(d, "lib"))}

FromSearch(card) ==
  LET good == {i \in DOMAIN SearchRoots : LibHolders(card, SearchRoots[i]) # {}}
  IN UNION {PopulateFrom(card, d) :
              d \in UNION {LibHolders(card, r) : r \in First(SearchRoots, good)}}

Resolve(card, argv) ==
  LET own == IF Dirname(argv) = <<>> THEN {} ELSE FromArgv(card, Dirname(argv)) IN
  CASE \E p \in own : Recognised(card, p) -> own
    [] FromFallbacks(card) # {}           -> FromFallbacks(card)
    [] FromSearch(card) # {}              -> FromSearch(card)
    [] own # {}                           -> own
    [] OTHER                              -> PopulateFrom(card, Fallbacks[1])

-----------------------------------------------------------------------------
(* rv_paths_prepare. *)

(* mkdir of a directory whose parent is missing fails, and nobody looks.   *)
Mkdir(card, dir) == IF Front(dir) \in card THEN card \cup {dir} ELSE card

(* The list of runtime directories has each after its parent. *)
Prepared(card, paths) ==
  LET dirs == Mkdir(Mkdir(Mkdir(card, paths.base), paths.lib), paths.data) IN
  IF paths.data \in dirs THEN dirs \cup {paths.data \o d : d \in RuntimeDirs} ELSE dirs

MissingLibs(card, paths) == {l \in RequiredLibs : Join(paths.lib, l) \notin card}
=============================================================================
