----------------------------- MODULE AssetScan -----------------------------
(* What game content is installed, and the file that remembers the answer: *)
(* rv_assets.c.  Paths and cards are those of InstallPaths; a path of this *)
(* module is relative to the data directory.                               *)
EXTENDS InstallPaths, Naturals

CONSTANTS
  RvglProbes, GameProbes,   \* the probes of the two required groups
  MusicProbes, PackProbes,  \* those of the optional ones
  StockLevels,              \* RV_STOCK_LEVELS
  FingerprintDirs           \* kFingerprintDirs

Groups == {"rvgl", "game", "music", "packs"}

Probes == [g \in Groups |->
  CASE g = "rvgl"  -> RvglProbes
    [] g = "game"  -> GameProbes
    [] g = "music" -> MusicProbes
    [] g = "packs" -> PackProbes]

ASSUME ProbesAssumption ==
  /\ \A g \in Groups : Probes[g] \subseteq Paths
  /\ FingerprintDirs \subseteq PathNames

(* What a pass over the directory finds: the probes each group lacks and   *)
(* how many of the stock levels are there.                                 *)
Scan(card, data) ==
  [missing     |-> [g \in Groups |-> {p \in Probes[g] : data \o p \notin card}],
   stockLevels |-> Cardinality({l \in StockLevels : data \o <<"levels", l>> \in card})]

(* rv_assets_ready *)
Ready(scan) ==
  /\ \A g \in {"rvgl", "game"} : scan.missing[g] = {}
  /\ scan.stockLevels * 2 >= Cardinality(StockLevels)

(* The directories of a card whose times the fingerprint may be about.     *)
Tracked(card) == {p \in card : Last(p) \in FingerprintDirs}

(* Mutant: which directories exist, not when they changed. *)
Fingerprint_exists(card, stamp, data) ==
  [data  |-> data,
   times |-> [d \in FingerprintDirs |-> IF data \o <<d>> \in card THEN 1 ELSE 0]]

(* The path of the data, and for each directory of the list the time its   *)
(* entries last changed; 0 stands for a directory that is not there.       *)
Fingerprint(card, stamp, data) ==
  [data  |-> data,
   times |-> [d \in FingerprintDirs |->
                IF data \o <<d>> \in card THEN stamp[data \o <<d>>] ELSE 0]]

-----------------------------------------------------------------------------
(* assetcache.bin: not there, cut short, or a fingerprint and an answer.   *)

NoFile == [kind |-> "none"]
Torn   == [kind |-> "torn"]
StoredScan(print, scan) == [kind |-> "whole", print |-> print, scan |-> scan]

(* CacheLoad takes a whole file with the right fingerprint.                *)
CacheHit(file, print) == file.kind = "whole" /\ file.print = print

(* The probes whose presence the fingerprint covers: the directories of    *)
(* the list and what is directly in one of them.                           *)
Covered(probe) == probe[1] \in FingerprintDirs /\ Len(probe) <= 2
=============================================================================
