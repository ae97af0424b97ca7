------------------------------- MODULE Loader -------------------------------
(* Loading RVGL's modules: LoadModule in main.c and so_util.c.             *)
(*                                                                         *)
(* A module is a file, read into a temporary copy (so_base), and an image. *)
(* The image is written at load_base; so_finalize gives its pages to the   *)
(* code mapping at load_virtbase, after which load_base cannot be touched. *)
(* An import of a module is bound to a shim, or to the first module loaded *)
(* that exports it, or else tainted with the offset of its relocation.     *)
EXTENDS Naturals, Sequences

CONSTANTS
  Modules,   \* g_modules, in load order
  Symbols    \* the names a module can export or import

ASSUME ModulesAssumption ==
  /\ Modules \in Seq(STRING)
  /\ \A j, k \in 1 .. Len(Modules) : Modules[j] = Modules[k] => j = k

VARIABLES
  exports,   \* [module -> the symbols it defines]; it may import all others
  shims,     \* the symbols of dynlib_functions
  loaded,    \* so_list: this many of Modules are registered
  step,      \* where LoadModule stands
  so_base,   \* [module -> is the copy of its file allocated]
  image,     \* [module -> where its pages are]
  syms,      \* [module -> where its symbol table is looked for]
  slots,     \* [module -> [symbol -> what an import of it is bound to]]
  inited     \* the modules whose initialisers have all run

memory == <<so_base, image, syms>>
loader == <<exports, shims, loaded, step, memory, slots, inited>>

ModuleSet == {Modules[k] : k \in 1 .. Len(Modules)}
Registered == {Modules[k] : k \in 1 .. loaded}

LoaderInit ==
  /\ exports \in [ModuleSet -> SUBSET Symbols]
  /\ shims \in SUBSET Symbols
  /\ loaded = 0 /\ step = "load" /\ inited = {}
  /\ so_base = [m \in ModuleSet |-> FALSE]
  /\ image = [m \in ModuleSet |-> "none"]
  /\ syms = [m \in ModuleSet |-> "none"]
  /\ slots = [m \in ModuleSet |-> [i \in Symbols |-> "file"]]

(* The module being loaded: the last one registered. *)
This == Modules[loaded]

Goes(from, to) ==
  /\ step = from /\ step' = to
  /\ UNCHANGED <<exports, shims>>

-----------------------------------------------------------------------------
(* so_load: the file is read, checked and copied to load_base, and the     *)
(* module joins so_list.                                                   *)
SoLoad ==
  /\ Goes("load", "relocate")
  /\ loaded < Len(Modules)
  /\ loaded' = loaded + 1
  /\ LET m == Modules[loaded + 1] IN
     /\ so_base' = [so_base EXCEPT ![m] = TRUE]
     /\ image' = [image EXCEPT ![m] = "base"]
     /\ syms' = [syms EXCEPT ![m] = "base"]
  /\ UNCHANGED <<slots, inited>>

(* so_relocate: what the module defines itself is bound to its own image;  *)
(* an import is left holding an addend.                                    *)
SoRelocate ==
  /\ Goes("relocate", "resolve")
  /\ slots' = [slots EXCEPT ![This] = [i \in Symbols |-> "addend"]]
  /\ UNCHANGED <<loaded, memory, inited>>

(* Mutant: whoever exports it will do, the modules to come too. *)
Givers_all(symbol) == {k \in 1 .. Len(Modules) : symbol \in exports[Modules[k]]}

(* so_resolve_symbol: the shims, then the other modules, in load order.    *)
Givers(symbol) == {k \in 1 .. loaded - 1 : symbol \in exports[Modules[k]]}

Binding(symbol) ==
  IF symbol \in shims THEN "shim"
  ELSE IF Givers(symbol) = {} THEN "offset"
  ELSE Modules[CHOOSE k \in Givers(symbol) : \A j \in Givers(symbol) : k <= j]

SoResolve ==
  /\ Goes("resolve", "map")
  /\ slots' = [slots EXCEPT ![This] = [i \in Symbols |-> Binding(i)]]
  /\ UNCHANGED <<loaded, memory, inited>>

(* so_finalize: the pages move to load_virtbase ...                        *)
SoMap ==
  /\ Goes("map", "rebase")
  /\ image' = [image EXCEPT ![This] = "virt"]
  /\ UNCHANGED <<loaded, so_base, syms, slots, inited>>

(* Mutant: the symbol table is forgotten. *)
SoRebase_forgotten ==
  /\ Goes("rebase", "flush")
  /\ UNCHANGED <<loaded, memory, slots, inited>>

(* ... and the symbol table is looked for there.                           *)
SoRebase ==
  /\ Goes("rebase", "flush")
  /\ syms' = [syms EXCEPT ![This] = "virt"]
  /\ UNCHANGED <<loaded, so_base, image, slots, inited>>

(* so_flush_caches touches load_virtbase. *)
SoFlush ==
  /\ Goes("flush", "init")
  /\ UNCHANGED <<loaded, memory, slots, inited>>

(* so_execute_init_array: the headers are in the copy of the file; the     *)
(* initialisers call what they like.                                       *)
SoInit ==
  /\ Goes("init", "free")
  /\ inited' = inited \cup {This}
  /\ UNCHANGED <<loaded, memory, slots>>

SoFreeTemp ==
  /\ Goes("free", "load")
  /\ so_base' = [so_base EXCEPT ![This] = FALSE]
  /\ UNCHANGED <<loaded, image, syms, slots, inited>>

(* fatal_error: a file that cannot be read, is no ELF or too large, no     *)
(* memory, an unknown relocation, a mapping the kernel refuses.            *)
Fatal ==
  /\ \E s \in {"load", "relocate", "map"} : Goes(s, "dead")
  /\ loaded < Len(Modules) \/ step # "load"
  /\ UNCHANGED <<loaded, memory, slots, inited>>

LoadModule ==
  \/ SoLoad \/ SoRelocate \/ SoResolve \/ SoMap \/ SoRebase \/ SoFlush
  \/ SoInit \/ SoFreeTemp

LoaderNext == LoadModule \/ Fatal

LoaderSpec == LoaderInit /\ [][LoaderNext]_loader

-----------------------------------------------------------------------------
(* Properties. *)

(* The engine has been started, and may load symbols with dlsym. *)
Running == step = "load" /\ loaded = Len(Modules)

(* The loader reads only memory that is there: the headers while the copy  *)
(* of the file is, load_base before so_finalize and load_virtbase after    *)
(* it; and whenever a module resolves its imports, its initialisers call   *)
(* dlsym or the engine does, the symbol tables of all modules are where    *)
(* they are looked for (so_util.c, lines 113-119).                         *)
ReadsWhatIsThere ==
  /\ step \in {"relocate", "resolve", "init"} => so_base[This]
  /\ step \in {"relocate", "resolve"} => image[This] = "base"
  /\ step \in {"flush", "init"} => image[This] = "virt"
  /\ step \in {"resolve", "init"} \/ Running => \A m \in Registered : syms[m] = image[m]

(* A module's initialisers and the engine can call what they import.  An   *)
(* import is bound to the shim if there is one; or to the first module     *)
(* loaded that exports it, which is mapped and has run its initialisers;   *)
(* and it is tainted only if no module loaded before exports it.           *)
ImportsCallable ==
  step = "init" \/ Running =>
    \A k \in 1 .. loaded : \A i \in Symbols :
      LET to == slots[Modules[k]][i] IN
      \/ to = "shim" /\ i \in shims
      \/ /\ i \notin shims
         /\ \E j \in 1 .. k - 1 :
              /\ to = Modules[j] /\ i \in exports[to]
              /\ to \in inited /\ image[to] = "virt"
              /\ \A h \in 1 .. j - 1 : i \notin exports[Modules[h]]
      \/ /\ to = "offset" /\ i \notin shims
         /\ \A j \in 1 .. k - 1 : i \notin exports[Modules[j]]
=============================================================================
