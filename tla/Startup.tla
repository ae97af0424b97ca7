------------------------------ MODULE Startup ------------------------------
(* The boots of a console and what its user does to the card between them: *)
(* main.c, over rv_paths.c (InstallPaths), rv_assets.c (AssetScan) and the *)
(* console of error.c and pps_stdout.c.  Opening or building the asset     *)
(* pack is PackBuild's and loading the modules is Loader's: here they are  *)
(* steps that change nothing below.                                        *)
EXTENDS AssetScan

CONSTANTS
  Cards,       \* the cards to start from
  Wares,       \* those the user copies and deletes
  Moves,       \* the renamings of a data folder: pairs of paths
  Argvs,       \* what the launcher gives as argv[0]
  Ages,        \* how many dates the directories of the cards carry
  MaxChanges,  \* bound: changes by the user
  MaxFaults    \* bound: failures and power cuts

VARIABLES
  card, stamp, \* the card, and when the entries of its directories changed
  now,         \* the time of the last change to the card
  cache,       \* [base -> its assetcache.bin], where there is one
  argv,
  phase,
  paths, scan, \* g_paths and main's copy of the scan
  console,     \* consoleInit has been called, consoleExit not since
  stdout,      \* where stdout leads: "nowhere", "console", "log"
  to_console,  \* g_to_console
  status_active,
  changes, faults

(* Data folders are renamed where they are.  No directory of the list is   *)
(* made twice, and none of them is called as the libraries' is.            *)
ASSUME StartAssumption ==
  /\ Ages \in Nat \ {0} /\ MaxChanges \in Nat
  /\ Cards \subseteq SUBSET Paths /\ Wares \subseteq Paths
  /\ \A c \in Cards : \A p \in c : Len(p) = 1 \/ Front(p) \in c
  /\ \A m \in Moves : /\ m[1] \in Paths /\ m[2] \in Paths
                      /\ Front(m[1]) = Front(m[2])
                      /\ {Last(m[1]), Last(m[2])} \cap FingerprintDirs = {}
  /\ Argvs \subseteq Seq(PathNames)
  /\ "lib" \notin FingerprintDirs
  /\ \A r, s \in RuntimeDirs :
       Len(r) = Len(s) /\ Last(r) = Last(s) /\ Last(r) \in FingerprintDirs => r = s

files  == <<card, stamp, now, cache>>
screen == <<console, stdout, to_console, status_active>>
limits == <<argv, changes, faults>>
startVars == <<files, phase, paths, scan, screen, limits>>

NoPaths == [base |-> <<>>, lib |-> <<>>, data |-> <<>>, fromArgv |-> FALSE]
NoScan  == [missing |-> [g \in Groups |-> {}], stockLevels |-> 0]

(* Directories of one name and one date were copied from one archive: they *)
(* have the same of what is probed.                                        *)
Alike(c, times) ==
  \A p, q \in Tracked(c) :
    Len(p) = Len(q) /\ Last(p) = Last(q) /\ times[p] = times[q] =>
      \A g \in Groups : \A r \in Probes[g] :
        Len(r) = 2 /\ r[1] = Last(p) => (Append(p, r[2]) \in c <=> Append(q, r[2]) \in c)

StartInit ==
  /\ card \in Cards
  /\ argv \in Argvs
  /\ now = Ages
  /\ stamp \in [Tracked(card) -> 1 .. Ages] /\ Alike(card, stamp)
  /\ cache = <<>>
  /\ phase = "off"
  /\ paths = NoPaths /\ scan = NoScan
  /\ console = FALSE /\ stdout = "nowhere" /\ to_console = TRUE /\ status_active = FALSE
  /\ changes = 0 /\ faults = 0

-----------------------------------------------------------------------------
(* The user, while the console is off.  Each change dates what changed and *)
(* the directory it is in.                                                 *)

Dated(c, ps, old) == [p \in Tracked(c) |-> IF p \in ps THEN now + 1 ELSE old[p]]

Off == phase = "off" /\ changes < MaxChanges

Change ==
  /\ changes' = changes + 1 /\ now' = now + 1
  /\ UNCHANGED <<cache, argv, phase, paths, scan, screen, faults>>

Copy(p) ==
  /\ Off
  /\ p \notin card /\ Front(p) \in card
  /\ card' = card \cup {p}
  /\ stamp' = Dated(card', {p, Front(p)}, stamp)
  /\ Change

Delete(p) ==
  /\ Off
  /\ p \in card
  /\ card' = {q \in card : ~IsPrefix(p, q)}
  /\ stamp' = Dated(card', {Front(p)}, stamp)
  /\ Change

(* What is moved keeps its dates. *)
Move(from, to) ==
  LET New(p) == to \o SubSeq(p, Len(from) + 1, Len(p))
      Old(p) == from \o SubSeq(p, Len(to) + 1, Len(p))
      moved  == {p \in card : IsPrefix(from, p)}
  IN
  /\ Off
  /\ from \in card /\ to \notin card
  /\ card' = (card \ moved) \cup {New(p) : p \in moved}
  /\ stamp' = Dated(card', {Front(from)},
                [p \in Tracked(card') |-> IF IsPrefix(to, p) THEN stamp[Old(p)] ELSE stamp[p]])
  /\ Change

-----------------------------------------------------------------------------
(* The console.  A stdout that was sent to the log stays there: libnx's    *)
(* consoleInit only changes what the console device does.                  *)

TakeConsole ==
  /\ console' = TRUE
  /\ stdout' = IF stdout = "log" THEN "log" ELSE "console"
  /\ to_console' = TRUE

LeaveConsole ==
  /\ console' = FALSE
  /\ to_console' = FALSE
  /\ UNCHANGED stdout

-----------------------------------------------------------------------------
(* main, from the launcher to SDL_main and back.                           *)

Enter(label) == phase' = label /\ UNCHANGED limits

PowerOn ==
  /\ phase = "off"
  /\ Enter("resolve")
  /\ UNCHANGED <<files, paths, scan, screen>>

ResolvePaths ==
  /\ phase = "resolve"
  /\ paths' \in Resolve(card, argv)
  /\ TakeConsole
  /\ Enter("prepare")
  /\ UNCHANGED <<files, scan, status_active>>

PrepareDirs ==
  /\ phase = "prepare"
  /\ card' = Prepared(card, paths)
  /\ LET made == card' \ card IN
       /\ stamp' = Dated(card', made \cup {Front(p) : p \in made}, stamp)
       /\ now' = IF made = {} THEN now ELSE now + 1
  /\ Enter("scan")
  /\ UNCHANGED <<cache, paths, scan, screen>>

CardPrint == Fingerprint(card, stamp, paths.data)

CacheOf(base) == IF base \in DOMAIN cache THEN cache[base] ELSE NoFile

Store(file) ==
  cache' = [b \in DOMAIN cache \cup {paths.base} |-> IF b = paths.base THEN file ELSE cache[b]]

ScanCached ==
  /\ phase = "scan"
  /\ CacheHit(CacheOf(paths.base), CardPrint)
  /\ scan' = CacheOf(paths.base).scan
  /\ Enter("decide")
  /\ UNCHANGED <<files, paths, screen>>

(* CacheStore: opening the file empties it.  On a card that cannot be      *)
(* written it is left alone.                                               *)
ScanFresh ==
  /\ phase = "scan"
  /\ ~CacheHit(CacheOf(paths.base), CardPrint)
  /\ scan' = Scan(card, paths.data)
  /\ \/ Store(Torn) /\ Enter("store")
     \/ cache' = cache /\ Enter("decide")
  /\ UNCHANGED <<card, stamp, now, paths, screen>>

StoreCache ==
  /\ phase = "store"
  /\ Store(StoredScan(CardPrint, scan))
  /\ Enter("decide")
  /\ UNCHANGED <<card, stamp, now, paths, scan, screen>>

(* Mutant: the answer has to be on the card. *)
CanStart_stored ==
  Ready(scan) /\ MissingLibs(card, paths) = {} /\ CacheOf(paths.base).kind = "whole"

CanStart == Ready(scan) /\ MissingLibs(card, paths) = {}

(* Everything is there: rvnx_stdout_init, startup_status_begin.            *)
Proceed ==
  /\ phase = "decide" /\ CanStart
  /\ TakeConsole /\ status_active' = TRUE
  /\ Enter("setup")
  /\ UNCHANGED <<files, paths, scan>>

(* ShowMissingFiles takes the console, waits for a button, and lets go.    *)
Refuse ==
  /\ phase = "decide" /\ ~CanStart
  /\ TakeConsole
  /\ Enter("refused")
  /\ UNCHANGED <<files, paths, scan, status_active>>

LeaveRefusal ==
  /\ phase = "refused"
  /\ LeaveConsole
  /\ Enter("end")
  /\ UNCHANGED <<files, paths, scan, status_active>>

(* The pack, thread-local storage, the arena of mmap, SDL, the controls,   *)
(* and the modules one by one.                                             *)
SetUp ==
  /\ phase = "setup"
  /\ Enter("loaded")
  /\ UNCHANGED <<files, paths, scan, screen>>

(* SDL_main is looked up in libmain; startup_status_end lets go of the     *)
(* console ...                                                             *)
HandOver ==
  /\ phase = "loaded"
  /\ LeaveConsole /\ status_active' = FALSE
  /\ Enter("redirect")
  /\ UNCHANGED <<files, paths, scan>>

(* Mutant: it does not. *)
Redirect_skipped ==
  /\ phase = "redirect"
  /\ Enter("run")
  /\ UNCHANGED <<files, paths, scan, screen>>

(* ... and rvnx_redirect_stdio sends stdout to the log.                    *)
Redirect ==
  /\ phase = "redirect"
  /\ stdout' = "log" /\ to_console' = FALSE
  /\ Enter("run")
  /\ UNCHANGED <<files, paths, scan, console, status_active>>

(* SDL_main returns. *)
Return ==
  /\ phase = "run"
  /\ Enter("end")
  /\ UNCHANGED <<files, paths, scan, screen>>

(* The process is gone and its memory with it. *)
Reset ==
  /\ paths' = NoPaths /\ scan' = NoScan
  /\ console' = FALSE /\ stdout' = "nowhere" /\ to_console' = TRUE /\ status_active' = FALSE
  /\ UNCHANGED files

End ==
  /\ phase = "end"
  /\ Enter("off")
  /\ Reset

(* fatal_error, while setting up and loading: the status screen is ended,  *)
(* the console taken again for the message.                                *)
FatalError ==
  /\ phase \in {"setup", "loaded"}
  /\ faults < MaxFaults /\ faults' = faults + 1
  /\ TakeConsole /\ status_active' = FALSE
  /\ phase' = "fatal"
  /\ UNCHANGED <<files, paths, scan, argv, changes>>

LeaveFatal ==
  /\ phase = "fatal"
  /\ LeaveConsole
  /\ Enter("end")
  /\ UNCHANGED <<files, paths, scan, status_active>>

PowerCut ==
  /\ phase # "off"
  /\ faults < MaxFaults /\ faults' = faults + 1
  /\ phase' = "off"
  /\ Reset
  /\ UNCHANGED <<argv, changes>>

Main ==
  \/ ResolvePaths \/ PrepareDirs \/ ScanCached \/ ScanFresh \/ StoreCache
  \/ Proceed \/ Refuse \/ SetUp \/ HandOver \/ Redirect \/ End

User ==
  \/ \E p \in Wares : Copy(p) \/ Delete(p)
  \/ \E m \in Moves : Move(m[1], m[2])
  \/ PowerOn \/ LeaveRefusal \/ LeaveFatal \/ Return

StartNext == Main \/ User \/ FatalError \/ PowerCut

StartSpec == StartInit /\ [][StartNext]_startVars

(* main runs straight through; nobody has to turn the console on, press a  *)
(* button, leave the game or change the card.                              *)
StartFairSpec == StartSpec /\ WF_startVars(Main)

-----------------------------------------------------------------------------
(* Properties. *)

(* A scan taken from the cache is right about everything its fingerprint   *)
(* covers, whatever was copied, deleted or renamed since it was stored, in *)
(* whatever boot, complete or cut short: Fingerprint and CacheLoad.        *)
CoveredIsCurrent ==
  phase = "decide" =>
    \A g \in Groups : \A p \in Probes[g] :
      Covered(p) => (p \in scan.missing[g] <=> paths.data \o p \notin card)

(* "any change to the data directory invalidates it automatically"         *)
(* (rv_assets.h, lines 25-26): a scan says what is on the card.            *)
ScanIsCurrent == phase = "decide" => scan = Scan(card, paths.data)

(* Nothing is printed to a console that is gone, which "faults inside the  *)
(* console renderer" (main.c, lines 426-429): not by the log, which writes *)
(* to stdout while g_to_console is set, on any way out of a boot, and not  *)
(* by the engine, which prints whenever it likes.                          *)
PrintsLand ==
  stdout = "console" /\ (to_console \/ phase = "run") => console

Complete(p) == MissingLibs(card, p) = {} /\ Ready(Scan(card, p.data))

(* A complete install starts, once nothing fails any more, unless an older *)
(* answer is still cached that says it is not complete.                    *)
Starts ==
  (/\ phase = "resolve" /\ faults = MaxFaults
   /\ \A p \in Resolve(card, argv) :
        /\ Complete(p)
        /\ CacheOf(p.base).kind = "whole" => Ready(CacheOf(p.base).scan))
  ~> (phase = "run")
=============================================================================
