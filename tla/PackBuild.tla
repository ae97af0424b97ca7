----------------------------- MODULE PackBuild -----------------------------
(***************************************************************************)
(* The asset pack on the SD card: how source/main.c opens or builds it at  *)
(* start-up, source/asset_pack.c writes, verifies and installs the two     *)
(* files, and what a power cut or an I/O error at any step leaves for the  *)
(* next boot.  Also the RAM copy of an open pack and the budget it is      *)
(* charged to (source/rv_ramcache.c).                                      *)
(*                                                                         *)
(* A file is what load_pair and verify_pack_data can tell about it: which  *)
(* build wrote it (pack_id), whether its length, header and checksums are  *)
(* all in place (whole), whether the asset data is what the sources hold   *)
(* (good), and whether it has reached the card (safe).                     *)
(***************************************************************************)
EXTENDS Integers

CONSTANTS
  PackSize,         \* RAM the pack needs
  Budget,           \* RAM the cache may use (0: switched off)
  RenameReplaces,   \* rename onto an existing file works (not on Horizon)
  MaxBuilds,        \* bound: builds started
  MaxStops          \* bound: crashes and exits of the program

ASSUME SizeAssumption == PackSize \in Nat \ {0} /\ Budget \in Nat
ASSUME RenameAssumption == RenameReplaces \in BOOLEAN
ASSUME LimitsAssumption == MaxBuilds \in Nat /\ MaxStops \in Nat

VARIABLES
  disk,       \* the four files
  pc,         \* where the program is in main and asset_pack_build
  id,         \* pack_id of the last build
  active,     \* pack_id of the open pack, 0 if none (g_pack_fd)
  resident,   \* the pack is held in RAM (g_pack_blob)
  budget,     \* RAM left (g_budget)
  healthy,    \* from now on nothing fails any more
  stops       \* crashes and exits so far

vars == <<disk, pc, id, active, resident, budget, healthy, stops>>

Temps == {"pack.tmp", "index.tmp"}
Names == Temps \cup {"pack", "index"}
Ids == 0 .. MaxBuilds
Files == [id : Ids, whole : BOOLEAN, good : BOOLEAN, safe : BOOLEAN]
Absent == [id |-> 0, whole |-> FALSE, good |-> FALSE, safe |-> TRUE]

(* A write or a read that fails, or malloc: until the machine is healthy. *)
Fails == ~healthy

Init ==
  /\ disk = [n \in Names |-> Absent]
  /\ pc = "boot"
  /\ id = 0 /\ active = 0
  /\ resident = FALSE /\ budget = Budget
  /\ healthy = FALSE
  /\ stops = 0

-----------------------------------------------------------------------------
(* Reading. *)

(* Mutant: any complete pack goes with any complete index. *)
Matches_any(p, i) == TRUE
Matches(p, i) == p.id = i.id

(* load_pair: both files are there and complete, and of one build.  The    *)
(* asset data itself is not looked at.                                     *)
Accepts(p, i) == p.id # 0 /\ i.id # 0 /\ p.whole /\ i.whole /\ Matches(p, i)

Go(step) == pc' = step

(* asset_pack_open_existing, at boot or at the end of a build. *)
OpenExisting(from, otherwise) ==
  /\ pc = from
  /\ \/ /\ Accepts(disk["pack"], disk["index"])
        /\ active' = disk["pack"].id
        /\ Go("take")
     \/ /\ ~Accepts(disk["pack"], disk["index"]) \/ Fails
        /\ Go(otherwise)
        /\ UNCHANGED active
  /\ UNCHANGED <<disk, id, resident, budget, healthy, stops>>

(* load_pack_blob: the whole pack or nothing is charged to the budget ...  *)
TakeBudget ==
  /\ pc = "take"
  /\ IF PackSize <= budget
       THEN budget' = budget - PackSize /\ Go("copy")
       ELSE Go("run") /\ UNCHANGED budget
  /\ UNCHANGED <<disk, id, active, resident, healthy, stops>>

(* Mutant: a copy that fails verification keeps its share of the budget. *)
DropCopy_keeps == UNCHANGED <<budget, resident>>
DropCopy == budget' = budget + PackSize /\ UNCHANGED resident

(* ... and a copy that cannot be made or verified gives it back. *)
CopyPack ==
  /\ pc = "copy"
  /\ \/ resident' = TRUE /\ UNCHANGED budget
     \/ Fails /\ DropCopy
  /\ Go("run")
  /\ UNCHANGED <<disk, id, active, healthy, stops>>

-----------------------------------------------------------------------------
(* asset_pack_build *)

(* unlink, its result ignored: some of the files may stay. *)
Unlink(names) ==
  \E S \in SUBSET names :
    /\ Fails \/ S = names
    /\ disk' = [n \in Names |-> IF n \in S THEN Absent ELSE disk[n]]

Idle == UNCHANGED <<active, resident, budget, healthy, stops>>

(* The body of a step: it fails, or does its work and goes on. *)
Step(from, work, next) ==
  /\ pc = from
  /\ \/ work /\ Go(next)
     \/ Fails /\ Go("failed") /\ UNCHANGED disk
  /\ UNCHANGED id
  /\ Idle

Put(n, f) == disk' = [disk EXCEPT ![n] = f]

DropTemps ==
  /\ pc = "build"
  /\ Unlink(Temps)
  /\ Go("collect")
  /\ UNCHANGED id
  /\ Idle

(* collect_files, the layout and the first header: a new pack_id, and a    *)
(* file that is neither whole nor good.                                    *)
StartPack ==
  /\ pc = "collect"
  /\ id < MaxBuilds
  /\ \/ /\ id' = id + 1
        /\ Put("pack.tmp", [id |-> id', whole |-> FALSE, good |-> FALSE, safe |-> FALSE])
        /\ Go("data")
     \/ Fails /\ Go("failed") /\ UNCHANGED <<disk, id>>
  /\ Idle

(* What a card stores can differ from what was written to it. *)
Stored == IF Fails THEN BOOLEAN ELSE {TRUE}

WriteData ==
  Step("data", \E ok \in Stored : Put("pack.tmp", [disk["pack.tmp"] EXCEPT !.good = ok]), "header")

WriteHeader ==
  Step("header", \E ok \in Stored : Put("pack.tmp", [disk["pack.tmp"] EXCEPT !.whole = ok]), "sync")

(* Mutant: the pack is closed without fsync. *)
SyncPack_none == Step("sync", UNCHANGED disk, "index")
SyncPack == Step("sync", Put("pack.tmp", [disk["pack.tmp"] EXCEPT !.safe = TRUE]), "index")

WriteIndex ==
  Step("index",
       \E ok \in Stored :
         Put("index.tmp", [id |-> id, whole |-> ok, good |-> TRUE, safe |-> FALSE]),
       "syncindex")

SyncIndex ==
  Step("syncindex", Put("index.tmp", [disk["index.tmp"] EXCEPT !.safe = TRUE]), "test")

(* load_pair on the temporary files, then every byte of the data. *)
TestPair ==
  /\ pc = "test"
  /\ \/ Accepts(disk["pack.tmp"], disk["index.tmp"]) /\ Go("verify")
     \/ (~Accepts(disk["pack.tmp"], disk["index.tmp"]) \/ Fails) /\ Go("failed")
  /\ UNCHANGED <<disk, id>> /\ Idle

DataVerifies == disk["pack.tmp"].good

VerifyData ==
  /\ pc = "verify"
  /\ \/ DataVerifies /\ Go("unlink")
     \/ (~DataVerifies \/ Fails) /\ Go("failed")
  /\ UNCHANGED <<disk, id>> /\ Idle

(* Mutant: the old pair is removed before the new one is verified. *)
UnlinkOld_first ==
  /\ pc \in {"collect", "unlink"}
  /\ Unlink({"pack"})
  /\ Go(IF pc = "unlink" THEN "unlinkindex" ELSE pc)
  /\ UNCHANGED id /\ Idle

UnlinkOld ==
  /\ pc = "unlink"
  /\ Unlink({"pack"})
  /\ Go("unlinkindex")
  /\ UNCHANGED id /\ Idle

(* Mutant: the old index is left in the way. *)
UnlinkIndex_skipped ==
  pc = "unlinkindex" /\ Go("rename") /\ UNCHANGED <<disk, id>> /\ Idle

UnlinkIndex ==
  /\ pc = "unlinkindex"
  /\ Unlink({"index"})
  /\ Go("rename")
  /\ UNCHANGED id /\ Idle

(* rename fails on an I/O error, or because the target is still there. *)
Rename(pc0, from, to, next) ==
  /\ pc = pc0
  /\ \/ /\ RenameReplaces \/ disk[to] = Absent
        /\ disk' = [disk EXCEPT ![to] = disk[from], ![from] = Absent]
        /\ Go(next)
     \/ /\ Fails \/ (~RenameReplaces /\ disk[to] # Absent)
        /\ Go("failed")
        /\ UNCHANGED disk
  /\ UNCHANGED id /\ Idle

Install ==
  \/ Rename("rename", "pack.tmp", "pack", "renameindex")
  \/ Rename("renameindex", "index.tmp", "index", "reopen")

(* The failure path: the game runs without a pack. *)
BuildFails ==
  /\ pc = "failed"
  /\ Unlink(Temps)
  /\ Go("run")
  /\ UNCHANGED id /\ Idle

Boot ==
  \/ OpenExisting("boot", "build")
  \/ TakeBudget \/ CopyPack
  \/ DropTemps \/ StartPack \/ WriteData \/ WriteHeader \/ SyncPack
  \/ WriteIndex \/ SyncIndex \/ TestPair \/ VerifyData
  \/ UnlinkOld \/ UnlinkIndex \/ Install
  \/ OpenExisting("reopen", "failed")
  \/ BuildFails

-----------------------------------------------------------------------------
(* The machine. *)

Restart(files) ==
  /\ stops < MaxStops
  /\ stops' = stops + 1
  /\ disk' = files
  /\ pc' = "boot"
  /\ active' = 0 /\ resident' = FALSE /\ budget' = Budget
  /\ UNCHANGED <<id, healthy>>

Exit == pc = "run" /\ Restart(disk)

(* Power is cut: a file that is not on the card yet may be gone, or miss   *)
(* any part of what was written.                                           *)
Worse(f) ==
  IF f.safe THEN {f}
  ELSE {Absent} \cup {[f EXCEPT !.whole = w, !.good = g, !.safe = TRUE] :
                        w \in {FALSE, f.whole}, g \in {FALSE, f.good}}

Crash ==
  /\ ~healthy
  /\ \E p \in Worse(disk["pack.tmp"]), i \in Worse(disk["index.tmp"]) :
       \E q \in Worse(disk["pack"]), j \in Worse(disk["index"]) :
         Restart([disk EXCEPT !["pack.tmp"] = p, !["index.tmp"] = i, !["pack"] = q, !["index"] = j])

Recover ==
  /\ ~healthy
  /\ id < MaxBuilds
  /\ healthy' = TRUE
  /\ UNCHANGED <<disk, pc, id, active, resident, budget, stops>>

Next == Boot \/ Exit \/ Crash \/ Recover

Spec == Init /\ [][Next]_vars

(* main runs straight through. *)
FairSpec == Spec /\ WF_vars(Boot)

-----------------------------------------------------------------------------
(* Properties. *)

(* Every variable has its type. *)
TypeOK ==
  /\ disk \in [Names -> Files]
  /\ pc \in {"boot", "take", "copy", "run", "build", "collect", "data", "header", "sync",
             "index", "syncindex", "test", "verify", "unlink", "unlinkindex", "rename",
             "renameindex", "reopen", "failed"}
  /\ id \in Ids /\ active \in Ids
  /\ resident \in BOOLEAN /\ healthy \in BOOLEAN
  /\ budget \in Nat /\ stops \in Nat

Installed == Accepts(disk["pack"], disk["index"])

(* Whatever crashes and errors hit the build, a pair that load_pair would  *)
(* accept holds the right data: load_pair reads none of it, so everything  *)
(* rests on what asset_pack_build lets through and in which order.         *)
InstalledIsGood == Installed => disk["pack"].good

(* The open pack is the one on the card, untouched while it is open, with  *)
(* the index of the same build.                                            *)
OpenPackStays ==
  active # 0 => Installed /\ disk["pack"].id = active /\ disk["index"].id = active

(* A pair that works is given up only when a verified one is ready to take *)
(* its place.                                                              *)
KeepsOldUntilVerified ==
  [][Installed /\ ~Installed' =>
       /\ Accepts(disk["pack.tmp"], disk["index.tmp"])
       /\ disk["pack.tmp"].good /\ disk["pack.tmp"].safe]_vars

(* Every path through load_pack_blob leaves the budget as it should be. *)
BudgetBalances ==
  pc \notin {"copy"} => budget + (IF resident THEN PackSize ELSE 0) = Budget

(* Whatever earlier boots left on the card, a boot on a machine that works *)
(* ends with an open pack.                                                 *)
Heals == (healthy /\ pc = "boot") ~> (active # 0)
=============================================================================
