----------------------------- MODULE Boot_proofs -----------------------------
(***************************************************************************)
(* Proofs about Loader, Startup and PackBuild, for any list of modules and *)
(* symbols, any card and user, any builds, crashes and exits.  LoadModule  *)
(* takes each phase of so_util.c while what it reads is where it looks,    *)
(* and what a module is bound to has been initialised before it (LInv).    *)
(* The console is taken and let go in pairs on every way through main      *)
(* (ConsoleInv).  A cached scan is right because whatever changes the      *)
(* entries of a directory dates it anew, and what a directory is called    *)
(* and dated then tells its entries apart for good (ScanInv).              *)
(* load_pair looks at no asset data, so that an installed pack is good     *)
(* rests on the order of asset_pack_build: what is renamed into place has  *)
(* been synced, accepted and read back, and a file called assets.nxpack    *)
(* comes into being in no other way (PInv).                                *)
(***************************************************************************)
EXTENDS PackBuild, Loader, Startup, WellFoundedInduction, SequenceTheorems, TLAPS

-----------------------------------------------------------------------------
(* The modules. *)

Steps == {"load", "relocate", "resolve", "map", "rebase", "flush", "init", "free", "dead"}

LoaderTypeOK ==
  /\ loaded \in 0 .. Len(Modules)
  /\ step \in Steps
  /\ step \notin {"load", "dead"} => loaded # 0
  /\ so_base \in [ModuleSet -> BOOLEAN]
  /\ image \in [ModuleSet -> {"none", "base", "virt"}]
  /\ syms \in [ModuleSet -> {"none", "base", "virt"}]
  /\ slots \in [ModuleSet -> [Symbols -> {"file", "addend", "shim", "offset"} \cup ModuleSet]]
  /\ inited \subseteq ModuleSet

(* The imports of the k-th module, as so_resolve_symbol leaves them. *)
Bound(k) ==
  \A i \in Symbols :
    LET to == slots[Modules[k]][i] IN
    \/ to = "shim" /\ i \in shims
    \/ /\ i \notin shims
       /\ \E j \in 1 .. k - 1 :
            /\ to = Modules[j] /\ i \in exports[to]
            /\ \A h \in 1 .. j - 1 : i \notin exports[Modules[h]]
    \/ /\ to = "offset" /\ i \notin shims
       /\ \A j \in 1 .. k - 1 : i \notin exports[Modules[j]]

(* A module LoadModule has come back from. *)
Done(k) ==
  /\ image[Modules[k]] = "virt" /\ syms[Modules[k]] = "virt"
  /\ Modules[k] \in inited
  /\ Bound(k)

(* The module being loaded, at each step. *)
Current ==
  /\ step \in {"relocate", "resolve", "map", "rebase", "flush", "init", "free"} => so_base[This]
  /\ step \in {"relocate", "resolve", "map"} => image[This] = "base" /\ syms[This] = "base"
  /\ step = "rebase" => image[This] = "virt" /\ syms[This] = "base"
  /\ step \in {"flush", "init", "free"} => image[This] = "virt" /\ syms[This] = "virt"
  /\ step \in {"map", "rebase", "flush", "init", "free"} => Bound(loaded)
  /\ step = "free" => This \in inited

LInv ==
  /\ LoaderTypeOK
  /\ step # "dead" =>
       /\ Current
       /\ \A k \in 1 .. loaded : k < loaded \/ step = "load" => Done(k)

-----------------------------------------------------------------------------
(* Different places of the list hold different modules. *)
LEMMA ModulesFacts ==
  /\ Len(Modules) \in Nat
  /\ \A k \in 1 .. Len(Modules) : Modules[k] \in ModuleSet
  /\ \A j, k \in 1 .. Len(Modules) : Modules[j] = Modules[k] => j = k
<1>1. Len(Modules) \in Nat
  BY ModulesAssumption
<1>2. QED BY <1>1, ModulesAssumption DEF ModuleSet

(* A set of numbers that is not empty has a least one. *)
LEMMA LeastExists ==
  ASSUME NEW S \in SUBSET Nat, S # {}
  PROVE  \E k \in S : \A j \in S : k <= j
<1>1. PICK k \in S : \A j \in S : ~(<<j, k>> \in OpToRel(<, Nat))
  BY WFMin, NatLessThanWellFounded
<1>2. \A j \in S : ~(j < k)
  BY <1>1 DEF OpToRel
<1>3. \A j \in S : k <= j
  BY <1>2
<1> QED BY <1>3

(* so_resolve_symbol binds an import to a shim, to the first module before *)
(* this one that exports it, or to its offset.                             *)
LEMMA BindingIsFirst ==
  ASSUME LoaderTypeOK, loaded # 0, NEW i \in Symbols
  PROVE  \/ Binding(i) = "shim" /\ i \in shims
         \/ /\ i \notin shims
            /\ \E j \in 1 .. loaded - 1 :
                 /\ Binding(i) = Modules[j] /\ i \in exports[Binding(i)]
                 /\ \A h \in 1 .. j - 1 : i \notin exports[Modules[h]]
         \/ /\ Binding(i) = "offset" /\ i \notin shims
            /\ \A j \in 1 .. loaded - 1 : i \notin exports[Modules[j]]
<1>1. CASE i \in shims
  BY <1>1 DEF Binding
<1>2. CASE i \notin shims /\ Givers(i) = {}
  BY <1>2 DEF Binding, Givers
<1>3. CASE i \notin shims /\ Givers(i) # {}
  <2>1. loaded \in Nat /\ Givers(i) \in SUBSET Nat
    BY ModulesFacts DEF LoaderTypeOK, Givers
  <2> DEFINE first == CHOOSE k \in Givers(i) : \A j \in Givers(i) : k <= j
  <2>2. first \in Givers(i) /\ \A j \in Givers(i) : first <= j
    BY <1>3, <2>1, LeastExists
  <2>3. Binding(i) = Modules[first]
    BY <1>3 DEF Binding
  <2> HIDE DEF first
  <2>4. first \in 1 .. loaded - 1 /\ i \in exports[Modules[first]]
    BY <2>2 DEF Givers
  <2>5. \A h \in 1 .. first - 1 : i \notin exports[Modules[h]]
    <3> SUFFICES ASSUME NEW h \in 1 .. first - 1, i \in exports[Modules[h]] PROVE FALSE
      OBVIOUS
    <3>1. h \in Givers(i)
      BY <2>1, <2>4 DEF Givers
    <3> QED BY <2>1, <2>2, <2>4, <3>1
  <2> QED BY <1>3, <2>3, <2>4, <2>5
<1> QED BY <1>1, <1>2, <1>3

-----------------------------------------------------------------------------
(* Before the first module there is nothing to be wrong about. *)
LEMMA LoaderInitInv == LoaderInit => LInv
  BY ModulesFacts DEF LoaderInit, LInv, LoaderTypeOK, Steps, Current

(* What is done stays done: a step only touches the module it is about.    *)
LEMMA DoneStays ==
  ASSUME LInv, NEW k \in 1 .. loaded, Done(k),
         UNCHANGED <<exports, shims>>, inited \subseteq inited',
         image'[Modules[k]] = image[Modules[k]], syms'[Modules[k]] = syms[Modules[k]],
         slots'[Modules[k]] = slots[Modules[k]]
  PROVE  Done(k)'
  BY DEF Done, Bound

(* LoadModule keeps the invariant, phase by phase. *)
LEMMA LoaderStep == LInv /\ [LoaderNext]_loader => LInv'
<1> SUFFICES ASSUME LInv, [LoaderNext]_loader PROVE LInv'
  OBVIOUS
<1> USE ModulesFacts DEF Steps, Goes
<1>0. /\ LoaderTypeOK /\ loaded \in Nat /\ loaded <= Len(Modules)
      /\ loaded # 0 => This \in ModuleSet
      /\ \A k \in 1 .. loaded : Modules[k] \in ModuleSet
      /\ loaded # 0 => \A k \in 1 .. loaded : k < loaded => Modules[k] # This
  BY DEF LInv, LoaderTypeOK, This
<1>1. CASE SoLoad
  <2>1. step = "load" /\ step' = "relocate" /\ loaded' = loaded + 1 /\ loaded < Len(Modules)
        /\ This' = Modules[loaded + 1] /\ Modules[loaded + 1] \in ModuleSet
    BY <1>1, <1>0 DEF SoLoad, This
  <2>2. LoaderTypeOK'
    BY <1>1, <1>0, <2>1 DEF SoLoad, LoaderTypeOK
  <2>3. Current'
    BY <1>1, <1>0, <2>1 DEF SoLoad, LoaderTypeOK, Current
  <2>4. ASSUME NEW k \in 1 .. loaded PROVE Done(k)'
    <3>1. Done(k)
      BY <2>1 DEF LInv
    <3>2. Modules[k] # Modules[loaded + 1]
      BY <1>0, <2>1
    <3> QED BY <1>1, <1>0, <3>1, <3>2, DoneStays DEF SoLoad, LoaderTypeOK
  <2>5. \A k \in 1 .. loaded' : k < loaded' \/ step' = "load" => Done(k)'
    BY <1>0, <2>1, <2>4
  <2> QED BY <2>2, <2>3, <2>5 DEF LInv
<1>2. CASE SoRelocate
  <2>1. step = "relocate" /\ step' = "resolve" /\ UNCHANGED <<loaded, memory, inited>> /\ loaded # 0
    BY <1>2, <1>0 DEF SoRelocate, LoaderTypeOK
  <2>2. LoaderTypeOK'
    BY <1>2, <1>0, <2>1 DEF SoRelocate, LoaderTypeOK, memory
  <2>3. Current'
    BY <2>1 DEF LInv, Current, This, memory
  <2>4. \A k \in 1 .. loaded' : k < loaded' => Done(k)'
    BY <1>2, <1>0, <2>1, DoneStays DEF SoRelocate, LoaderTypeOK, LInv, memory
  <2> QED BY <2>1, <2>2, <2>3, <2>4 DEF LInv
<1>3. CASE SoResolve
  <2>1. step = "resolve" /\ step' = "map" /\ UNCHANGED <<loaded, memory, inited>> /\ loaded # 0
    BY <1>3, <1>0 DEF SoResolve, LoaderTypeOK
  <2>2. \A i \in Symbols : slots'[This][i] = Binding(i)
    BY <1>3, <1>0, <2>1 DEF SoResolve, LoaderTypeOK
  <2>3. \A i \in Symbols : Binding(i) \in {"file", "addend", "shim", "offset"} \cup ModuleSet
    <3>1. \A j \in 1 .. loaded - 1 : Modules[j] \in ModuleSet
      BY <1>0
    <3> QED BY <1>0, <2>1, <3>1, BindingIsFirst
  <2>4. LoaderTypeOK'
    <3>1. slots' \in [ModuleSet -> [Symbols -> {"file", "addend", "shim", "offset"} \cup ModuleSet]]
      BY <1>3, <1>0, <2>3 DEF SoResolve, LoaderTypeOK
    <3> QED BY <1>0, <2>1, <3>1 DEF LoaderTypeOK, memory
  <2>5. Bound(loaded)'
    <3>1. UNCHANGED <<exports, shims>>
      BY <1>3 DEF SoResolve
    <3>2. \A i \in Symbols : slots'[Modules[loaded]][i] = Binding(i)
      BY <2>2 DEF This
    <3> QED BY <1>0, <2>1, <3>1, <3>2, BindingIsFirst DEF Bound
  <2>6. Current'
    BY <2>1, <2>5 DEF LInv, Current, This, memory
  <2>7. \A k \in 1 .. loaded' : k < loaded' => Done(k)'
    BY <1>3, <1>0, <2>1, DoneStays DEF SoResolve, LoaderTypeOK, LInv, memory
  <2> QED BY <2>1, <2>4, <2>6, <2>7 DEF LInv
<1>4. CASE SoMap \/ SoRebase \/ SoFlush \/ SoInit
  <2>1. /\ step' \notin {"load", "dead"} /\ step \notin {"load", "dead"} /\ loaded # 0
        /\ UNCHANGED <<loaded, so_base, slots, exports, shims>> /\ inited \subseteq inited'
    BY <1>4, <1>0 DEF SoMap, SoRebase, SoFlush, SoInit, LoaderTypeOK, memory
  <2>2. LoaderTypeOK'
    BY <1>4, <1>0, <2>1 DEF SoMap, SoRebase, SoFlush, SoInit, LoaderTypeOK, memory
  <2>3. This' = This /\ Bound(loaded)' = Bound(loaded)
    BY <2>1 DEF This, Bound
  <2>4. Current'
    BY <1>4, <1>0, <2>1, <2>3
    DEF SoMap, SoRebase, SoFlush, SoInit, LInv, LoaderTypeOK, Current, memory
  <2>5. \A k \in 1 .. loaded' : k < loaded' => Done(k)'
    BY <1>4, <1>0, <2>1, DoneStays
    DEF SoMap, SoRebase, SoFlush, SoInit, LoaderTypeOK, LInv, memory
  <2> QED BY <2>1, <2>2, <2>4, <2>5 DEF LInv
<1>5. CASE SoFreeTemp
  <2>1. /\ step = "free" /\ step' = "load" /\ loaded # 0
        /\ UNCHANGED <<loaded, image, syms, slots, inited, exports, shims>>
    BY <1>5, <1>0 DEF SoFreeTemp, LoaderTypeOK
  <2>2. LoaderTypeOK'
    BY <1>5, <1>0, <2>1 DEF SoFreeTemp, LoaderTypeOK
  <2>3. Done(loaded)
    BY <2>1 DEF LInv, Current, Done, This
  <2>4. \A k \in 1 .. loaded : Done(k)
    BY <1>0, <2>1, <2>3 DEF LInv
  <2>5. \A k \in 1 .. loaded : Done(k)'
    BY <2>1, <2>4 DEF Done, Bound
  <2> QED BY <2>1, <2>2, <2>5 DEF LInv, Current
<1>6. CASE Fatal
  BY <1>6, <1>0 DEF Fatal, LInv, LoaderTypeOK, memory
<1>7. CASE UNCHANGED loader
  BY <1>7 DEF loader, memory, LInv, LoaderTypeOK, Current, Done, Bound, This
<1> QED BY <1>1, <1>2, <1>3, <1>4, <1>5, <1>6, <1>7 DEF LoaderNext, LoadModule

(* The invariant of LoadModule: what each of its phases has established    *)
(* for the module being loaded, and what stays true of those before it.    *)
THEOREM LoaderInvariant == LoaderSpec => []LInv
  BY LoaderInitInv, LoaderStep, PTL DEF LoaderSpec

(* Whatever modules there are and whatever they export, the loader reads   *)
(* only memory that is there (so_finalize moves the tables with the pages, *)
(* so_free_temp comes last).                                               *)
THEOREM LoaderReads == LoaderSpec => []ReadsWhatIsThere
<1>1. LInv => ReadsWhatIsThere
  <2> SUFFICES ASSUME LInv PROVE ReadsWhatIsThere
    OBVIOUS
  <2>1. loaded \in Nat /\ loaded <= Len(Modules) /\ (step \notin {"load", "dead"} => loaded # 0)
    BY ModulesFacts DEF LInv, LoaderTypeOK
  <2>2. step \in {"relocate", "resolve", "init"} => so_base[This]
    BY DEF LInv, Current
  <2>3. step \in {"relocate", "resolve"} => image[This] = "base"
    BY DEF LInv, Current
  <2>4. step \in {"flush", "init"} => image[This] = "virt"
    BY DEF LInv, Current
  <2>5. ASSUME step \in {"resolve", "init"} \/ Running, NEW k \in 1 .. loaded
        PROVE  syms[Modules[k]] = image[Modules[k]]
    BY <2>1, <2>5 DEF LInv, Current, Done, This, Running
  <2> QED BY <2>2, <2>3, <2>4, <2>5 DEF ReadsWhatIsThere, Registered
<1> QED BY <1>1, LoaderInvariant, PTL

(* Whatever modules there are and whatever they export and import, what an *)
(* initialiser or the engine calls is a shim or a module that is mapped    *)
(* and has run its initialisers (so_resolve_symbol, LoadModule).           *)
THEOREM LoaderImports == LoaderSpec => []ImportsCallable
<1>1. LInv => ImportsCallable
  <2> SUFFICES ASSUME LInv, step = "init" \/ Running, NEW k \in 1 .. loaded, NEW i \in Symbols
               PROVE  LET to == slots[Modules[k]][i] IN
                      \/ to = "shim" /\ i \in shims
                      \/ /\ i \notin shims
                         /\ \E j \in 1 .. k - 1 :
                              /\ to = Modules[j] /\ i \in exports[to]
                              /\ to \in inited /\ image[to] = "virt"
                              /\ \A h \in 1 .. j - 1 : i \notin exports[Modules[h]]
                      \/ /\ to = "offset" /\ i \notin shims
                         /\ \A j \in 1 .. k - 1 : i \notin exports[Modules[j]]
    BY DEF ImportsCallable
  <2>1. loaded \in Nat
    BY ModulesFacts DEF LInv, LoaderTypeOK
  <2>2. Bound(k)
    BY <2>1 DEF LInv, Current, Done, Running
  <2>3. \A j \in 1 .. k - 1 : Modules[j] \in inited /\ image[Modules[j]] = "virt"
    BY <2>1 DEF LInv, Done, Running
  <2> QED BY <2>2, <2>3 DEF Bound
<1> QED BY <1>1, LoaderInvariant, PTL

-----------------------------------------------------------------------------
(* The console. *)

(* While g_to_console is set stdout leads to a console that is there or    *)
(* nowhere yet, and by the time the engine runs it leads to the log.       *)
ConsoleInv ==
  /\ stdout = "console" /\ to_console => console
  /\ phase = "run" => stdout = "log"

LEMMA ConsoleTaken == TakeConsole /\ phase' # "run" => ConsoleInv'
  BY DEF TakeConsole, ConsoleInv

LEMMA ConsoleLeft == LeaveConsole /\ phase' # "run" => ConsoleInv'
  BY DEF LeaveConsole, ConsoleInv

LEMMA ConsoleKept == ConsoleInv /\ UNCHANGED screen /\ phase' # "run" => ConsoleInv'
  BY DEF screen, ConsoleInv

LEMMA ConsoleReset == Reset /\ phase' # "run" => ConsoleInv'
  BY DEF Reset, ConsoleInv

LEMMA ConsoleMain == ConsoleInv /\ Main => ConsoleInv'
<1> SUFFICES ASSUME ConsoleInv, Main PROVE ConsoleInv'
  OBVIOUS
<1>1. CASE ResolvePaths
  BY <1>1, ConsoleTaken DEF ResolvePaths, Enter
<1>2. CASE PrepareDirs \/ ScanCached \/ ScanFresh \/ StoreCache \/ SetUp
  <2>1. UNCHANGED screen
    BY <1>2 DEF PrepareDirs, ScanCached, ScanFresh, StoreCache, SetUp
  <2>2. phase' # "run"
    BY <1>2 DEF PrepareDirs, ScanCached, ScanFresh, StoreCache, SetUp, Enter
  <2> QED BY <2>1, <2>2, ConsoleKept
<1>3. CASE Proceed \/ Refuse
  BY <1>3, ConsoleTaken DEF Proceed, Refuse, Enter
<1>4. CASE HandOver
  BY <1>4, ConsoleLeft DEF HandOver, Enter
<1>5. CASE Redirect
  BY <1>5 DEF Redirect, Enter, ConsoleInv
<1>6. CASE End
  BY <1>6, ConsoleReset DEF End, Enter
<1> QED BY <1>1, <1>2, <1>3, <1>4, <1>5, <1>6 DEF Main

LEMMA ConsoleUser == ConsoleInv /\ User => ConsoleInv'
<1> SUFFICES ASSUME ConsoleInv, User PROVE ConsoleInv'
  OBVIOUS
<1>1. ASSUME NEW p \in Wares, Copy(p) \/ Delete(p) PROVE ConsoleInv'
  BY <1>1, ConsoleKept DEF Copy, Delete, Off, Change
<1>2. ASSUME NEW m \in Moves, Move(m[1], m[2]) PROVE ConsoleInv'
  BY <1>2, ConsoleKept DEF Move, Off, Change
<1>3. CASE PowerOn \/ Return
  BY <1>3, ConsoleKept DEF PowerOn, Return, Enter
<1>4. CASE LeaveRefusal \/ LeaveFatal
  BY <1>4, ConsoleLeft DEF LeaveRefusal, LeaveFatal, Enter
<1> QED BY <1>1, <1>2, <1>3, <1>4 DEF User

(* The console is taken and let go in pairs, on every way through main and *)
(* out of it.                                                              *)
THEOREM ConsoleInvariant == StartSpec => []ConsoleInv
<1>1. StartInit => ConsoleInv
  BY DEF StartInit, ConsoleInv
<1>2. ConsoleInv /\ [StartNext]_startVars => ConsoleInv'
  <2> SUFFICES ASSUME ConsoleInv, [StartNext]_startVars PROVE ConsoleInv'
    OBVIOUS
  <2>1. CASE FatalError
    BY <2>1, ConsoleTaken DEF FatalError
  <2>2. CASE PowerCut
    BY <2>2, ConsoleReset DEF PowerCut
  <2>3. CASE UNCHANGED startVars
    BY <2>3 DEF startVars, screen, ConsoleInv
  <2> QED BY <2>1, <2>2, <2>3, ConsoleMain, ConsoleUser DEF StartNext
<1> QED BY <1>1, <1>2, PTL DEF StartSpec

(* Nothing is printed to a console that is gone, by the log or by the      *)
(* engine, whatever fails and whenever the power goes: PrintsLand.         *)
THEOREM PrintsArrive == StartSpec => []PrintsLand
<1>1. ConsoleInv => PrintsLand
  BY DEF ConsoleInv, PrintsLand
<1> QED BY <1>1, ConsoleInvariant, PTL

-----------------------------------------------------------------------------
(* Paths. *)

(* A directory and a name in it. *)
LEMMA LeafFacts ==
  ASSUME NEW d \in Seq(PathNames), NEW x \in PathNames
  PROVE  /\ Append(d, x) \in Paths
         /\ Front(Append(d, x)) = d /\ Last(Append(d, x)) = x
         /\ Len(d) \in Nat /\ Len(Append(d, x)) = Len(d) + 1
<1>1. /\ Append(d, x) \in Seq(PathNames) /\ Append(d, x) # <<>>
      /\ Len(Append(d, x)) = Len(d) + 1
      /\ \A i \in 1 .. Len(d) : Append(d, x)[i] = d[i]
      /\ Append(d, x)[Len(d) + 1] = x
  BY AppendProperties
<1>2. Len(d) \in Nat
  BY LenProperties
<1>3. Front(Append(d, x)) = SubSeq(Append(d, x), 1, Len(d))
  BY <1>1, <1>2 DEF Front
<1>4. \A i \in 1 .. Len(d) : Append(d, x)[i] \in PathNames
  BY <1>1, ElementOfSeq
<1>5. /\ SubSeq(Append(d, x), 1, Len(d)) \in Seq(PathNames)
      /\ Len(SubSeq(Append(d, x), 1, Len(d))) = Len(d)
      /\ \A i \in 1 .. Len(d) : SubSeq(Append(d, x), 1, Len(d))[i] = Append(d, x)[i]
  BY <1>2, <1>4, SubSeqProperties
<1>6. SubSeq(Append(d, x), 1, Len(d)) = d
  BY <1>1, <1>5, SeqEqual
<1> QED BY <1>1, <1>2, <1>3, <1>6 DEF Last, Paths

(* Every path is one. *)
LEMMA PathFacts ==
  ASSUME NEW p \in Paths
  PROVE  /\ Front(p) \in Seq(PathNames) /\ Last(p) \in PathNames /\ p = Append(Front(p), Last(p))
         /\ Len(p) \in Nat \ {0} /\ Len(Front(p)) = Len(p) - 1
         /\ (Len(p) = 1 <=> Front(p) = <<>>)
<1>1. PICK d \in Seq(PathNames), x \in PathNames : p = Append(d, x)
  BY SequenceEmptyOrAppend DEF Paths
<1>2. /\ Front(p) = d /\ Last(p) = x /\ Len(p) = Len(d) + 1 /\ Len(d) \in Nat
  BY <1>1, LeafFacts
<1>3. Len(d) = 0 <=> d = <<>>
  BY EmptySeq
<1>4. p = Append(Front(p), Last(p))
  BY <1>1, <1>2
<1> QED BY <1>2, <1>3, <1>4

(* A path that starts in a directory. *)
LEMMA UnderFacts ==
  ASSUME NEW d \in Seq(PathNames), NEW r \in Paths
  PROVE  /\ d \o r \in Paths /\ Last(d \o r) = Last(r) /\ Front(d \o r) = d \o Front(r)
         /\ Len(d \o r) = Len(d) + Len(r)
         /\ (Front(r) = <<>> => d \o Front(r) = d)
<1>1. PICK v \in Seq(PathNames), x \in PathNames : r = Append(v, x) /\ Front(r) = v /\ Last(r) = x
  BY PathFacts
<1>2. d \o v \in Seq(PathNames) /\ Len(d \o v) = Len(d) + Len(v)
  BY ConcatProperties
<1>3. d \o r = Append(d \o v, x)
  <2>1. r = v \o <<x>> /\ <<x>> \in Seq(PathNames)
    BY <1>1, AppendIsConcat
  <2>2. (d \o v) \o <<x>> = d \o (v \o <<x>>)
    BY <2>1, ConcatAssociative
  <2> QED BY <1>2, <2>1, <2>2, AppendIsConcat
<1>4. Len(r) = Len(v) + 1 /\ Len(v) \in Nat /\ Len(d) \in Nat
  BY <1>1, LeafFacts
<1>5. d \o <<>> = d
  BY ConcatEmptySeq
<1>6. /\ Len(d \o r) = Len(d) + Len(v) + 1 /\ d \o r \in Paths
      /\ Front(d \o r) = d \o v /\ Last(d \o r) = x
  BY <1>2, <1>3, LeafFacts
<1> QED BY <1>1, <1>4, <1>5, <1>6

(* What is below a path. *)
LEMMA BelowIff ==
  ASSUME NEW s \in Seq(PathNames), NEW t \in Seq(PathNames)
  PROVE  IsPrefix(s, t) <=> \E u \in Seq(PathNames) : t = s \o u
<1>1. ASSUME IsPrefix(s, t) PROVE \E u \in Seq(PathNames) : t = s \o u
  <2>1. Len(s) <= Len(t) /\ SubSeq(s, 1, Len(s)) = SubSeq(t, 1, Len(s))
    BY <1>1 DEF IsPrefix
  <2>2. Len(s) \in Nat /\ Len(t) \in Nat /\ SubSeq(s, 1, Len(s)) = s /\ SubSeq(t, 1, Len(t)) = t
    BY LenProperties, SubSeqFull
  <2>3. SubSeq(t, 1, Len(s)) \o SubSeq(t, Len(s) + 1, Len(t)) = SubSeq(t, 1, Len(t))
    <3>1. /\ 1 \in 1 .. Len(t) + 1 /\ Len(s) \in 1 - 1 .. Len(t)
          /\ Len(t) \in Len(s) .. Len(t)
      BY <2>1, <2>2
    <3> QED BY <3>1, ConcatAdjacentSubSeq
  <2>4. \A i \in Len(s) + 1 .. Len(t) : t[i] \in PathNames
    BY <2>2, ElementOfSeq
  <2>5. SubSeq(t, Len(s) + 1, Len(t)) \in Seq(PathNames)
    BY <2>2, <2>4, SubSeqProperties
  <2> QED BY <2>1, <2>2, <2>3, <2>5
<1>2. ASSUME NEW u \in Seq(PathNames), t = s \o u PROVE IsPrefix(s, t)
  <2>1. Len(s) \in Nat /\ Len(u) \in Nat /\ Len(t) = Len(s) + Len(u)
    BY <1>2, ConcatProperties, LenProperties
  <2>2. SubSeq(t, 1, Len(s)) = SubSeq(s, 1, Len(s))
    <3>1. CASE Len(s) = 0
      BY <3>1, SubSeqEmpty
    <3>2. CASE Len(s) # 0
      BY <1>2, <2>1, <3>2, SubSeqOfConcat1
    <3> QED BY <3>1, <3>2
  <2> QED BY <2>1, <2>2 DEF IsPrefix
<1> QED BY <1>1, <1>2

LEMMA RestIs ==
  ASSUME NEW s \in Seq(PathNames), NEW u \in Seq(PathNames)
  PROVE  SubSeq(s \o u, Len(s) + 1, Len(s \o u)) = u
<1>1. Len(s) \in Nat /\ Len(u) \in Nat /\ Len(s \o u) = Len(s) + Len(u)
  BY ConcatProperties, LenProperties
<1>2. CASE Len(u) = 0
  BY <1>1, <1>2, SubSeqEmpty, EmptySeq
<1>3. CASE Len(u) # 0
  <2>1. SubSeq(s \o u, Len(s) + 1, Len(s) + Len(u)) = SubSeq(u, 1, Len(u))
    BY <1>1, <1>3, SubSeqOfConcat2
  <2> QED BY <1>1, <2>1, SubSeqFull
<1> QED BY <1>2, <1>3

LEMMA BelowLeaf ==
  ASSUME NEW s \in Seq(PathNames), NEW d \in Seq(PathNames), NEW x \in PathNames
  PROVE  IsPrefix(s, Append(d, x)) <=> IsPrefix(s, d) \/ s = Append(d, x)
<1>0. Append(d, x) \in Seq(PathNames) /\ \A v \in Seq(PathNames) : s \o v \in Seq(PathNames)
  BY LeafFacts, ConcatProperties DEF Paths
<1>1. ASSUME NEW u \in Seq(PathNames), Append(d, x) = s \o u, s # Append(d, x)
      PROVE  IsPrefix(s, d)
  <2>1. u \in Paths
    BY <1>1, ConcatEmptySeq DEF Paths
  <2>2. Front(s \o u) = s \o Front(u) /\ Front(u) \in Seq(PathNames)
    BY <2>1, UnderFacts, PathFacts
  <2>3. d = s \o Front(u)
    BY <1>1, <2>2, LeafFacts
  <2> QED BY <2>2, <2>3, BelowIff
<1>2. ASSUME NEW u \in Seq(PathNames), d = s \o u PROVE IsPrefix(s, Append(d, x))
  <2>1. /\ Append(u, x) \in Paths /\ Append(u, x) \in Seq(PathNames)
        /\ Front(Append(u, x)) = u /\ Last(Append(u, x)) = x
    BY LeafFacts DEF Paths
  <2> DEFINE v == Append(u, x)
  <2> HIDE DEF v
  <2>2. s \o v \in Paths /\ Front(s \o v) = s \o Front(v) /\ Last(s \o v) = Last(v)
    BY <2>1, UnderFacts DEF v
  <2>3. s \o v = Append(d, x)
    BY <1>2, <2>1, <2>2, PathFacts DEF v
  <2>4. v \in Seq(PathNames)
    BY <2>1 DEF v
  <2> QED BY <1>0, <2>3, <2>4, BelowIff
<1>3. IsPrefix(s, s)
  BY LenProperties DEF IsPrefix
<1> QED BY <1>0, <1>1, <1>2, <1>3, BelowIff

-----------------------------------------------------------------------------
(* The card. *)

CardOK(c) == c \subseteq Paths /\ \A p \in c : Len(p) = 1 \/ Front(p) \in c

DatesOK(c, times, time) == time \in Nat /\ times \in [Tracked(c) -> 1 .. time]

(* With a path, everything above it is on the card. *)
LEMMA Ancestors ==
  ASSUME NEW c, CardOK(c), NEW s \in Paths, NEW t \in c, IsPrefix(s, t)
  PROVE  s \in c
<1> DEFINE S == {n \in Nat : \E u \in Seq(PathNames) : Len(u) = n /\ s \o u \in c}
<1>1. s \in Seq(PathNames) /\ t \in Seq(PathNames)
  BY DEF CardOK, Paths
<1>2. PICK w \in Seq(PathNames) : t = s \o w
  BY <1>1, BelowIff
<1>3. Len(w) \in S
  BY <1>2, LenProperties
<1>4. PICK n \in S : \A m \in S : n <= m
  BY <1>3, LeastExists
<1>5. PICK u \in Seq(PathNames) : Len(u) = n /\ s \o u \in c
  BY <1>4
<1>6. ASSUME u # <<>> PROVE FALSE
  <2>1. u \in Paths /\ Front(u) \in Seq(PathNames) /\ Len(Front(u)) = n - 1 /\ n \in Nat \ {0}
    BY <1>5, <1>6, PathFacts DEF Paths
  <2>2. Front(s \o u) = s \o Front(u) /\ Len(s \o u) = Len(s) + Len(u) /\ Len(s) \in Nat \ {0}
    BY <1>1, <2>1, UnderFacts, PathFacts
  <2>3. Len(s \o u) # 1
    BY <1>5, <2>1, <2>2
  <2>4. s \o Front(u) \in c
    BY <1>5, <2>2, <2>3 DEF CardOK
  <2>5. n - 1 \in S
    BY <2>1, <2>4
  <2> QED BY <1>4, <2>1, <2>5
<1>7. s \o u = s
  BY <1>1, <1>6, ConcatEmptySeq
<1> QED BY <1>5, <1>7

(* Two directories have the same in them. *)
SameLeaves(p, c, q, d) == \A x \in PathNames : Append(p, x) \in c <=> Append(q, x) \in d

(* What a file remembers of a directory is true of every directory of that *)
(* name and that date as deep on the card.                                 *)
TellsOf(file, r, absent, c, times) ==
  LET time == file.print.times[r[1]] IN
  /\ time = 0 => absent
  /\ time # 0 /\ Len(r) = 1 => ~absent
  /\ time # 0 /\ Len(r) = 2 =>
       \A p \in Tracked(c) :
         Last(p) = r[1] /\ Len(p) = Len(file.print.data) + 1 /\ times[p] = time =>
           (absent <=> Append(p, r[2]) \notin c)

FileOK(file, c, times, time) ==
  file.kind = "whole" =>
    /\ \A d \in FingerprintDirs : file.print.times[d] \in 0 .. time
    /\ \A g \in Groups : \A r \in Probes[g] :
         Covered(r) => TellsOf(file, r, r \in file.scan.missing[g], c, times)

(* A card where what is new carries a later date, and everything else its *)
(* old one.                                                                *)
Changed(c, old, t, d, new) ==
  /\ CardOK(d) /\ DatesOK(d, new, t + 1)
  /\ \A p \in Tracked(d) :
       \/ new[p] = t + 1
       \/ \E q \in Tracked(c) : /\ Len(q) = Len(p) /\ Last(q) = Last(p) /\ new[p] = old[q]
                                /\ SameLeaves(p, d, q, c)
  /\ \A p, q \in Tracked(d) :
       new[p] = t + 1 /\ new[q] = t + 1 /\ Len(p) = Len(q) /\ Last(p) = Last(q) => p = q

(* What a probe is. *)
LEMMA ProbeFacts ==
  ASSUME NEW g \in Groups, NEW r \in Probes[g]
  PROVE  /\ r \in Paths /\ Len(r) \in Nat \ {0} /\ r[1] \in PathNames
         /\ Len(r) = 2 => r[2] \in PathNames
         /\ Len(r) = 1 => r = <<r[1]>>
<1>1. r \in Paths
  BY ProbesAssumption
<1>2. Len(r) \in Nat \ {0} /\ r \in Seq(PathNames)
  BY <1>1, PathFacts DEF Paths
<1>3. \A i \in 1 .. Len(r) : r[i] \in PathNames
  BY <1>2, ElementOfSeq
<1> QED BY <1>1, <1>2, <1>3

(* A change leaves what looks alike alike ... *)
LEMMA ChangeAlike ==
  ASSUME NEW c, NEW old, NEW t, DatesOK(c, old, t), NEW d, NEW new, Changed(c, old, t, d, new),
         Alike(c, old)
  PROVE  Alike(d, new)
<1> SUFFICES ASSUME NEW p \in Tracked(d), NEW q \in Tracked(d),
                    Len(p) = Len(q), Last(p) = Last(q), new[p] = new[q],
                    NEW g \in Groups, NEW r \in Probes[g], Len(r) = 2, r[1] = Last(p)
             PROVE  Append(p, r[2]) \in d <=> Append(q, r[2]) \in d
  BY DEF Alike
<1>1. r[2] \in PathNames
  BY ProbeFacts
<1>2. \A s \in Tracked(c) : old[s] # t + 1
  BY DEF DatesOK
<1>3. CASE new[p] = t + 1
  BY <1>3 DEF Changed
<1>4. CASE new[p] # t + 1
  <2>1. PICK s \in Tracked(c) : /\ Len(s) = Len(p) /\ Last(s) = Last(p) /\ new[p] = old[s]
                                /\ SameLeaves(p, d, s, c)
    BY <1>4 DEF Changed
  <2>2. PICK u \in Tracked(c) : /\ Len(u) = Len(q) /\ Last(u) = Last(q) /\ new[q] = old[u]
                                /\ SameLeaves(q, d, u, c)
    BY <1>4 DEF Changed
  <2>3. Append(s, r[2]) \in c <=> Append(u, r[2]) \in c
    BY <2>1, <2>2 DEF Alike
  <2>4. Append(p, r[2]) \in d <=> Append(s, r[2]) \in c
    BY <1>1, <2>1 DEF SameLeaves
  <2>5. Append(q, r[2]) \in d <=> Append(u, r[2]) \in c
    BY <1>1, <2>2 DEF SameLeaves
  <2> QED BY <2>3, <2>4, <2>5
<1> QED BY <1>3, <1>4

(* ... and what a file remembers true. *)
LEMMA ChangeFile ==
  ASSUME NEW c, NEW old, NEW t, DatesOK(c, old, t), NEW d, NEW new, Changed(c, old, t, d, new),
         NEW file, FileOK(file, c, old, t)
  PROVE  FileOK(file, d, new, t + 1)
<1> SUFFICES ASSUME file.kind = "whole"
             PROVE  /\ \A e \in FingerprintDirs : file.print.times[e] \in 0 .. t + 1
                    /\ \A g \in Groups : \A r \in Probes[g] :
                         Covered(r) => TellsOf(file, r, r \in file.scan.missing[g], d, new)
  BY DEF FileOK
<1>1. t \in Nat
  BY DEF DatesOK
<1>2. \A e \in FingerprintDirs : file.print.times[e] \in 0 .. t
  BY DEF FileOK
<1>3. ASSUME NEW g \in Groups, NEW r \in Probes[g], Covered(r)
      PROVE  TellsOf(file, r, r \in file.scan.missing[g], d, new)
  <2> DEFINE absent == r \in file.scan.missing[g]
  <2>1. TellsOf(file, r, absent, c, old)
    BY <1>3 DEF FileOK
  <2>2. file.print.times[r[1]] \in 0 .. t
    BY <1>2, <1>3 DEF Covered
  <2> HIDE DEF absent
  <2>3. ASSUME file.print.times[r[1]] # 0, Len(r) = 2, NEW p \in Tracked(d), Last(p) = r[1],
               Len(p) = Len(file.print.data) + 1, new[p] = file.print.times[r[1]]
        PROVE  absent <=> Append(p, r[2]) \notin d
    <3>1. new[p] # t + 1
      BY <1>1, <2>2, <2>3
    <3>2. PICK q \in Tracked(c) : /\ Len(q) = Len(p) /\ Last(q) = Last(p) /\ new[p] = old[q]
                                  /\ SameLeaves(p, d, q, c)
      BY <3>1 DEF Changed
    <3>3. absent <=> Append(q, r[2]) \notin c
      BY <2>1, <2>3, <3>2 DEF TellsOf
    <3> QED BY <2>3, <3>2, <3>3, ProbeFacts DEF SameLeaves
  <2>4. TellsOf(file, r, absent, d, new)
    BY <2>1, <2>3 DEF TellsOf
  <2> QED BY <2>4 DEF absent
<1> QED BY <1>1, <1>2, <1>3

-----------------------------------------------------------------------------
(* What becomes of the card. *)

(* What changes its entries gets the new date. *)
LEMMA Touched ==
  ASSUME NEW c, NEW old, NEW t, CardOK(c), DatesOK(c, old, t),
         NEW d, CardOK(d), NEW ps, NEW new,
         new = [p \in Tracked(d) |-> IF p \in ps THEN t + 1 ELSE old[p]],
         \A p \in Tracked(d) \ ps : p \in c /\ SameLeaves(p, d, p, c),
         \A p, q \in Tracked(d) \cap ps : Len(p) = Len(q) /\ Last(p) = Last(q) => p = q
  PROVE  Changed(c, old, t, d, new)
<1>1. t \in Nat /\ \A p \in Tracked(c) : old[p] \in 1 .. t /\ old[p] # t + 1
  BY DEF DatesOK
<1>2. \A p \in Tracked(d) : IF p \in ps THEN new[p] = t + 1
                            ELSE p \in Tracked(c) /\ new[p] = old[p] /\ SameLeaves(p, d, p, c)
  BY DEF Tracked
<1>3. DatesOK(d, new, t + 1)
  <2>1. \A p \in Tracked(d) : new[p] \in 1 .. t + 1
    BY <1>1, <1>2
  <2> QED BY <1>1, <2>1 DEF DatesOK
<1>4. \A p, q \in Tracked(d) :
         new[p] = t + 1 /\ new[q] = t + 1 /\ Len(p) = Len(q) /\ Last(p) = Last(q) => p = q
  <2>1. \A p \in Tracked(d) : new[p] = t + 1 => p \in Tracked(d) \cap ps
    BY <1>1, <1>2
  <2> QED BY <2>1
<1>5. \A p \in Tracked(d) :
        \/ new[p] = t + 1
        \/ \E q \in Tracked(c) : /\ Len(q) = Len(p) /\ Last(q) = Last(p) /\ new[p] = old[q]
                                 /\ SameLeaves(p, d, q, c)
  BY <1>2
<1> QED BY <1>3, <1>4, <1>5 DEF Changed

TreeInv == CardOK(card) /\ DatesOK(card, stamp, now)

(* What the user copies and deletes is such a change, and so is a renamed  *)
(* data folder and what rv_paths_prepare makes.                            *)
LEMMA CopyChanges ==
  ASSUME TreeInv, NEW p \in Wares, Copy(p)
  PROVE  Changed(card, stamp, now, card', stamp')
<1>0. CardOK(card) /\ DatesOK(card, stamp, now)
  BY DEF TreeInv
<1>1. p \in Paths /\ p \notin card /\ Front(p) \in card /\ card' = card \cup {p}
  BY StartAssumption DEF Copy
<1>2. stamp' = [q \in Tracked(card') |-> IF q \in {p, Front(p)} THEN now + 1 ELSE stamp[q]]
  BY DEF Copy, Dated
<1>3. CardOK(card')
  BY <1>0, <1>1 DEF CardOK
<1>4. \A q \in Tracked(card') \ {p, Front(p)} : q \in card /\ SameLeaves(q, card', q, card)
  <2> SUFFICES ASSUME NEW q \in Tracked(card') \ {p, Front(p)}
               PROVE  q \in card /\ SameLeaves(q, card', q, card)
    OBVIOUS
  <2>1. q \in card /\ q \in Seq(PathNames)
    BY <1>0, <1>1 DEF Tracked, CardOK, Paths
  <2>2. \A x \in PathNames : Append(q, x) # p
    BY <2>1, LeafFacts
  <2> QED BY <1>1, <2>1, <2>2 DEF SameLeaves
<1>5. Len(Front(p)) # Len(p)
  BY <1>1, PathFacts
<1>6. \A q, r \in Tracked(card') \cap {p, Front(p)} : Len(q) = Len(r) /\ Last(q) = Last(r) => q = r
  BY <1>5
<1> QED BY <1>0, <1>2, <1>3, <1>4, <1>6, Touched

LEMMA DeleteChanges ==
  ASSUME TreeInv, NEW p \in Wares, Delete(p)
  PROVE  Changed(card, stamp, now, card', stamp')
<1>0. CardOK(card) /\ DatesOK(card, stamp, now)
  BY DEF TreeInv
<1>1. p \in Paths /\ p \in card /\ card' = {q \in card : ~IsPrefix(p, q)}
  BY StartAssumption DEF Delete
<1>2. stamp' = [q \in Tracked(card') |-> IF q \in {Front(p)} THEN now + 1 ELSE stamp[q]]
  BY DEF Delete, Dated
<1>3. CardOK(card')
  <2>1. card' \subseteq Paths
    BY <1>0, <1>1 DEF CardOK
  <2>2. ASSUME NEW q \in card', Len(q) # 1 PROVE Front(q) \in card'
    <3>1. q \in Paths /\ q \in card /\ ~IsPrefix(p, q) /\ Front(q) \in card
      BY <1>0, <1>1, <2>2 DEF CardOK
    <3>2. q = Append(Front(q), Last(q)) /\ Front(q) \in Seq(PathNames) /\ Last(q) \in PathNames
      BY <3>1, PathFacts
    <3>3. IsPrefix(p, Append(Front(q), Last(q))) <=> IsPrefix(p, Front(q)) \/ p = q
      BY <1>1, <3>2, BelowLeaf DEF Paths
    <3>4. ~IsPrefix(p, Front(q))
      BY <3>1, <3>2, <3>3
    <3> QED BY <1>1, <3>1, <3>4
  <2> QED BY <2>1, <2>2 DEF CardOK
<1>4. \A q \in Tracked(card') \ {Front(p)} : q \in card /\ SameLeaves(q, card', q, card)
  <2> SUFFICES ASSUME NEW q \in Tracked(card') \ {Front(p)}
               PROVE  q \in card /\ SameLeaves(q, card', q, card)
    OBVIOUS
  <2>1. q \in card /\ q \in Seq(PathNames) /\ ~IsPrefix(p, q)
    BY <1>0, <1>1 DEF Tracked, CardOK, Paths
  <2>2. ASSUME NEW x \in PathNames PROVE ~IsPrefix(p, Append(q, x))
    <3>1. IsPrefix(p, Append(q, x)) <=> IsPrefix(p, q) \/ p = Append(q, x)
      BY <1>1, <2>1, BelowLeaf DEF Paths
    <3>2. p # Append(q, x)
      BY <2>1, LeafFacts
    <3> QED BY <2>1, <3>1, <3>2
  <2> QED BY <1>1, <2>1, <2>2 DEF SameLeaves
<1>5. \A q, r \in Tracked(card') \cap {Front(p)} : Len(q) = Len(r) /\ Last(q) = Last(r) => q = r
  OBVIOUS
<1> QED BY <1>0, <1>2, <1>3, <1>4, <1>5, Touched

(* What is moved has the same of its path below the folder, and its dates. *)
LEMMA Moved ==
  ASSUME TreeInv, NEW m \in Moves, Move(m[1], m[2])
  PROVE  /\ m[1] \in Paths /\ m[2] \in Paths /\ m[1] \in card /\ m[2] \notin card
         /\ \A q \in card : ~IsPrefix(m[1], q) => q \in card' /\ ~IsPrefix(m[2], q)
         /\ \A u \in Seq(PathNames) : m[2] \o u \in card' <=> m[1] \o u \in card
         /\ \A q \in card' : IF IsPrefix(m[2], q) THEN \E u \in Seq(PathNames) : q = m[2] \o u
                             ELSE q \in card /\ ~IsPrefix(m[1], q)
         /\ DOMAIN stamp' = Tracked(card')
         /\ \A q \in Tracked(card') :
              IF q = Front(m[1]) THEN stamp'[q] = now + 1
              ELSE IF IsPrefix(m[2], q)
                   THEN \A u \in Seq(PathNames) : q = m[2] \o u => stamp'[q] = stamp[m[1] \o u]
                   ELSE stamp'[q] = stamp[q]
<1> DEFINE a == m[1]
           b == m[2]
           Rest(s, p) == SubSeq(p, Len(s) + 1, Len(p))
           ms == {p \in card : IsPrefix(a, p)}
<1>1. /\ a \in Paths /\ b \in Paths /\ a \in card /\ b \notin card
      /\ card' = (card \ ms) \cup {b \o Rest(a, p) : p \in ms}
  BY StartAssumption DEF Move
<1>2. stamp' = [q \in Tracked(card') |->
                  IF q \in {Front(a)} THEN now + 1
                  ELSE [p \in Tracked(card') |->
                          IF IsPrefix(b, p) THEN stamp[a \o Rest(b, p)] ELSE stamp[p]][q]]
  BY DEF Move, Dated
<1>3. /\ a \in Seq(PathNames) /\ b \in Seq(PathNames)
      /\ card \subseteq Seq(PathNames) /\ CardOK(card)
  BY <1>1 DEF TreeInv, CardOK, Paths
<1>4. /\ \A u \in Seq(PathNames) : Rest(a, a \o u) = u /\ IsPrefix(a, a \o u)
      /\ \A u \in Seq(PathNames) : Rest(b, b \o u) = u /\ IsPrefix(b, b \o u)
      /\ \A u \in Seq(PathNames) : a \o u \in Seq(PathNames) /\ b \o u \in Seq(PathNames)
  <2>1. \A s, u \in Seq(PathNames) : s \o u \in Seq(PathNames)
    BY ConcatProperties
  <2>2. \A s, u \in Seq(PathNames) : IsPrefix(s, s \o u)
    BY <2>1, BelowIff
  <2> QED BY <1>3, <2>1, <2>2, RestIs
<1>5. \A q \in card : IsPrefix(a, q) => \E u \in Seq(PathNames) : q = a \o u
  BY <1>3, BelowIff
<1>6. \A q \in card : ~IsPrefix(b, q)
  BY <1>1, <1>3, Ancestors
<1> HIDE DEF Rest, ms
<1>7. ASSUME NEW q \in card, ~IsPrefix(a, q) PROVE q \in card' /\ ~IsPrefix(b, q)
  BY <1>1, <1>6, <1>7 DEF ms
<1>8. ASSUME NEW u \in Seq(PathNames) PROVE b \o u \in card' <=> a \o u \in card
  <2>1. ASSUME a \o u \in card PROVE b \o u \in card'
    <3>1. a \o u \in ms
      BY <1>4, <2>1 DEF ms
    <3>2. b \o Rest(a, a \o u) \in card'
      BY <1>1, <3>1
    <3> QED BY <1>4, <3>2
  <2>2. ASSUME b \o u \in card' PROVE a \o u \in card
    <3>1. PICK p \in ms : b \o u = b \o Rest(a, p)
      BY <1>1, <1>4, <1>6, <2>2 DEF ms
    <3>2. PICK v \in Seq(PathNames) : p = a \o v
      BY <1>5, <3>1 DEF ms
    <3>3. u = v
      BY <1>4, <3>1, <3>2
    <3> QED BY <3>1, <3>2, <3>3 DEF ms
  <2> QED BY <2>1, <2>2
<1>9. ASSUME NEW q \in card'
      PROVE  IF IsPrefix(b, q) THEN \E u \in Seq(PathNames) : q = b \o u
             ELSE q \in card /\ ~IsPrefix(a, q)
  <2>1. CASE q \in card \ ms
    BY <1>6, <2>1 DEF ms
  <2>2. ASSUME NEW p \in ms, q = b \o Rest(a, p)
        PROVE  IsPrefix(b, q) /\ \E u \in Seq(PathNames) : q = b \o u
    <3>1. PICK v \in Seq(PathNames) : p = a \o v
      BY <1>5, <2>2 DEF ms
    <3> QED BY <1>4, <2>2, <3>1
  <2> QED BY <1>1, <2>1, <2>2
<1>10. ASSUME NEW q \in Tracked(card')
       PROVE  IF q = Front(a) THEN stamp'[q] = now + 1
              ELSE IF IsPrefix(b, q)
                   THEN \A u \in Seq(PathNames) : q = b \o u => stamp'[q] = stamp[a \o u]
                   ELSE stamp'[q] = stamp[q]
  <2>1. stamp'[q] = IF q = Front(a) THEN now + 1
                    ELSE IF IsPrefix(b, q) THEN stamp[a \o Rest(b, q)] ELSE stamp[q]
    BY <1>2
  <2>2. \A u \in Seq(PathNames) : q = b \o u => Rest(b, q) = u
    BY <1>4
  <2> QED BY <2>1, <2>2
<1>11. DOMAIN stamp' = Tracked(card')
  BY <1>2
<1> QED BY <1>1, <1>7, <1>8, <1>9, <1>10, <1>11

LEMMA MoveChanges ==
  ASSUME TreeInv, NEW m \in Moves, Move(m[1], m[2])
  PROVE  Changed(card, stamp, now, card', stamp')
<1> DEFINE Same(p, q) == /\ Len(q) = Len(p) /\ Last(q) = Last(p) /\ stamp'[p] = stamp[q]
                         /\ SameLeaves(p, card', q, card)
<1>0. CardOK(card) /\ DatesOK(card, stamp, now)
  BY DEF TreeInv
<1>1. PICK a, b : a = m[1] /\ b = m[2]
  OBVIOUS
<1>2. /\ a \in Paths /\ b \in Paths /\ a \in card /\ b \notin card
      /\ \A q \in card : ~IsPrefix(a, q) => q \in card' /\ ~IsPrefix(b, q)
      /\ \A u \in Seq(PathNames) : b \o u \in card' <=> a \o u \in card
      /\ \A q \in card' : IF IsPrefix(b, q) THEN \E u \in Seq(PathNames) : q = b \o u
                          ELSE q \in card /\ ~IsPrefix(a, q)
      /\ DOMAIN stamp' = Tracked(card')
  BY <1>1, Moved
<1>3. \A q \in Tracked(card') :
        IF q = Front(a) THEN stamp'[q] = now + 1
        ELSE IF IsPrefix(b, q)
             THEN \A u \in Seq(PathNames) : q = b \o u => stamp'[q] = stamp[a \o u]
             ELSE stamp'[q] = stamp[q]
  BY <1>1, Moved
<1>4. Front(a) = Front(b) /\ Last(a) \notin FingerprintDirs /\ Last(b) \notin FingerprintDirs
  BY <1>1, StartAssumption
<1>5. /\ a \in Seq(PathNames) /\ b \in Seq(PathNames) /\ Len(a) \in Nat \ {0} /\ Len(a) = Len(b)
      /\ card \subseteq Seq(PathNames)
  <2>1. Len(Front(a)) = Len(a) - 1 /\ Len(Front(b)) = Len(b) - 1
    BY <1>2, PathFacts
  <2>2. Len(a) \in Nat \ {0} /\ Len(b) \in Nat \ {0}
    BY <1>2, PathFacts
  <2> QED BY <1>0, <1>2, <1>4, <2>1, <2>2 DEF CardOK, Paths
<1>6. a \o <<>> = a /\ b \o <<>> = b /\ <<>> \in Seq(PathNames)
  BY <1>5, ConcatEmptySeq, EmptySeq
<1>7. CardOK(card')
  <2>1. ASSUME NEW u \in Seq(PathNames), b \o u \in card'
        PROVE  b \o u \in Paths /\ (Len(b \o u) # 1 => Front(b \o u) \in card')
    <3>1. a \o u \in card
      BY <1>2, <2>1
    <3>2. CASE u = <<>>
      <4>1. Len(b) # 1 => Front(b) \in card'
        <5> SUFFICES ASSUME Len(b) # 1 PROVE Front(b) \in card'
          OBVIOUS
        <5>1. Front(a) \in card
          BY <1>0, <1>2, <1>5 DEF CardOK
        <5>2. ~IsPrefix(a, Front(a))
          BY <1>2, <1>5, PathFacts DEF IsPrefix
        <5> QED BY <1>2, <1>4, <5>1, <5>2
      <4> QED BY <1>2, <1>6, <3>2, <4>1
    <3>3. CASE u # <<>>
      <4>1. u \in Paths
        BY <3>3 DEF Paths
      <4>2. Front(u) \in Seq(PathNames) /\ Len(u) \in Nat \ {0}
        BY <4>1, PathFacts
      <4>3. /\ Front(a \o u) = a \o Front(u) /\ Front(b \o u) = b \o Front(u)
            /\ Len(a \o u) = Len(a) + Len(u) /\ b \o u \in Paths
        BY <1>5, <4>1, UnderFacts
      <4>4. Len(a \o u) # 1
        BY <1>5, <4>2, <4>3
      <4>5. a \o Front(u) \in card
        BY <1>0, <3>1, <4>3, <4>4 DEF CardOK
      <4> QED BY <1>2, <4>2, <4>3, <4>5
    <3> QED BY <3>2, <3>3
  <2>2. ASSUME NEW q \in card', ~IsPrefix(b, q)
        PROVE  q \in Paths /\ (Len(q) # 1 => Front(q) \in card')
    <3>1. q \in card /\ ~IsPrefix(a, q) /\ q \in Paths
      BY <1>0, <1>2, <2>2 DEF CardOK
    <3>2. ASSUME Len(q) # 1 PROVE Front(q) \in card'
      <4>1. q = Append(Front(q), Last(q)) /\ Front(q) \in Seq(PathNames) /\ Last(q) \in PathNames
        BY <3>1, PathFacts
      <4>2. IsPrefix(a, Append(Front(q), Last(q))) <=>
              IsPrefix(a, Front(q)) \/ a = Append(Front(q), Last(q))
        BY <1>5, <4>1, BelowLeaf
      <4>3. Front(q) \in card
        BY <1>0, <3>1, <3>2 DEF CardOK
      <4> QED BY <1>2, <3>1, <4>1, <4>2, <4>3
    <3> QED BY <3>1, <3>2
  <2> QED BY <1>2, <2>1, <2>2 DEF CardOK
<1>8. ASSUME NEW p \in Tracked(card'), p # Front(a), IsPrefix(b, p)
      PROVE  \E q \in Tracked(card) : Same(p, q)
  <2>1. PICK u \in Seq(PathNames) : p = b \o u
    BY <1>2, <1>8 DEF Tracked
  <2>2. u \in Paths
    BY <1>4, <1>6, <2>1 DEF Tracked, Paths
  <2>3. PICK q : q = a \o u
    OBVIOUS
  <2>4. /\ Len(q) = Len(a) + Len(u) /\ Len(p) = Len(b) + Len(u)
        /\ Last(q) = Last(u) /\ Last(p) = Last(u)
    BY <1>5, <2>1, <2>2, <2>3, UnderFacts
  <2>5. q \in Tracked(card)
    BY <1>2, <2>1, <2>3, <2>4 DEF Tracked
  <2>6. stamp'[p] = stamp[q]
    BY <1>3, <1>8, <2>1, <2>3
  <2>7. SameLeaves(p, card', q, card)
    <3> SUFFICES ASSUME NEW x \in PathNames PROVE Append(p, x) \in card' <=> Append(q, x) \in card
      BY DEF SameLeaves
    <3>1. PICK v : v = Append(u, x)
      OBVIOUS
    <3>2. v \in Paths /\ v \in Seq(PathNames) /\ Front(v) = u /\ Last(v) = x
      BY <3>1, LeafFacts DEF Paths
    <3>3. /\ b \o v \in Paths /\ Front(b \o v) = p /\ Last(b \o v) = x
          /\ a \o v \in Paths /\ Front(a \o v) = q /\ Last(a \o v) = x
      BY <1>5, <2>1, <2>3, <3>2, UnderFacts
    <3>4. b \o v = Append(p, x) /\ a \o v = Append(q, x)
      BY <3>3, PathFacts
    <3> QED BY <1>2, <3>2, <3>4
  <2> QED BY <1>5, <2>4, <2>5, <2>6, <2>7
<1>9. ASSUME NEW p \in Tracked(card'), p # Front(a), ~IsPrefix(b, p)
      PROVE  \E q \in Tracked(card) : Same(p, q)
  <2>1. p \in card /\ ~IsPrefix(a, p) /\ p \in Seq(PathNames) /\ p \in Tracked(card)
    BY <1>2, <1>5, <1>9 DEF Tracked
  <2>2. stamp'[p] = stamp[p]
    BY <1>3, <1>9
  <2>3. ASSUME NEW x \in PathNames PROVE Append(p, x) \in card' <=> Append(p, x) \in card
    <3>1. IsPrefix(a, Append(p, x)) <=> IsPrefix(a, p) \/ a = Append(p, x)
      BY <1>5, <2>1, BelowLeaf
    <3>2. IsPrefix(b, Append(p, x)) <=> IsPrefix(b, p) \/ b = Append(p, x)
      BY <1>5, <2>1, BelowLeaf
    <3>3. Front(Append(p, x)) = p
      BY <2>1, LeafFacts
    <3>4. ~IsPrefix(a, Append(p, x)) /\ ~IsPrefix(b, Append(p, x))
      BY <1>4, <1>9, <2>1, <3>1, <3>2, <3>3
    <3> QED BY <1>2, <3>4
  <2>4. SameLeaves(p, card', p, card)
    BY <2>3 DEF SameLeaves
  <2> QED BY <2>1, <2>2, <2>4
<1>10. \A p \in Tracked(card') : stamp'[p] = now + 1 \/ \E q \in Tracked(card) : Same(p, q)
  BY <1>3, <1>8, <1>9
<1>11. now \in Nat /\ \A q \in Tracked(card) : stamp[q] \in 1 .. now
  BY <1>0 DEF DatesOK
<1>12. \A p \in Tracked(card') : stamp'[p] \in 1 .. now + 1
  BY <1>10, <1>11
<1>13. DatesOK(card', stamp', now + 1)
  <2>1. stamp' \in [Tracked(card') -> 1 .. now + 1]
    <3>1. stamp' = [q \in Tracked(card') |-> stamp'[q]]
      BY DEF Move, Dated
    <3> QED BY <1>12, <3>1
  <2> QED BY <1>11, <2>1 DEF DatesOK
<1>14. \A p \in Tracked(card') : stamp'[p] = now + 1 => p = Front(a)
  <2>1. \A q \in Tracked(card) : stamp[q] # now + 1
    BY <1>11
  <2> QED BY <1>8, <1>9, <2>1
<1>15. \A p, q \in Tracked(card') :
         stamp'[p] = now + 1 /\ stamp'[q] = now + 1 /\ Len(p) = Len(q) /\ Last(p) = Last(q) => p = q
  BY <1>14
<1> QED BY <1>7, <1>10, <1>13, <1>15 DEF Changed

(* The libraries are in the base or in its lib, the data in the base or in *)
(* one of its folders.                                                     *)
Laid(l) ==
  /\ l.base \in Paths
  /\ l.lib \in {l.base, Append(l.base, "lib")}
  /\ l.data = l.base \/ \E x \in PathNames : l.data = Append(l.base, x)

LEMMA MkdirFacts ==
  ASSUME NEW c, CardOK(c), NEW dir \in Paths
  PROVE  /\ CardOK(Mkdir(c, dir)) /\ c \subseteq Mkdir(c, dir)
         /\ Mkdir(c, dir) \subseteq c \cup {dir}
  BY DEF CardOK, Mkdir

(* rv_paths_prepare makes the base, the libraries' and the data directory, *)
(* and the runtime directories, each after the one it is in.               *)
LEMMA PreparedFacts ==
  ASSUME NEW c, CardOK(c), NEW l, Laid(l)
  PROVE  /\ CardOK(Prepared(c, l)) /\ c \subseteq Prepared(c, l)
         /\ Prepared(c, l) \subseteq
              c \cup {l.base, l.lib, l.data} \cup {l.data \o r : r \in RuntimeDirs}
<1>1. l.base \in Paths /\ l.lib \in Paths /\ l.data \in Paths
  BY PathsAssumption, LeafFacts DEF Laid, Paths
<1>2. PICK e : e = Mkdir(c, l.base)
  OBVIOUS
<1>3. PICK f : f = Mkdir(e, l.lib)
  OBVIOUS
<1>4. PICK dirs : dirs = Mkdir(f, l.data)
  OBVIOUS
<1>5. CardOK(e) /\ c \subseteq e /\ e \subseteq c \cup {l.base}
  BY <1>1, <1>2, MkdirFacts
<1>6. CardOK(f) /\ e \subseteq f /\ f \subseteq e \cup {l.lib}
  BY <1>1, <1>3, <1>5, MkdirFacts
<1>7. CardOK(dirs) /\ f \subseteq dirs /\ dirs \subseteq f \cup {l.data}
  BY <1>1, <1>4, <1>6, MkdirFacts
<1>8. Prepared(c, l) = IF l.data \in dirs THEN dirs \cup {l.data \o r : r \in RuntimeDirs} ELSE dirs
  BY <1>2, <1>3, <1>4 DEF Prepared
<1>9. ASSUME l.data \in dirs PROVE CardOK(dirs \cup {l.data \o r : r \in RuntimeDirs})
  <2>1. ASSUME NEW r \in RuntimeDirs
        PROVE  /\ l.data \o r \in Paths
               /\ Front(l.data \o r) \in dirs \cup {l.data \o s : s \in RuntimeDirs}
    <3>1. r \in Paths /\ (Len(r) = 1 \/ Front(r) \in RuntimeDirs)
      BY PathsAssumption
    <3>2. /\ l.data \o r \in Paths /\ Front(l.data \o r) = l.data \o Front(r)
          /\ Front(r) = <<>> => l.data \o Front(r) = l.data
      BY <1>1, <3>1, UnderFacts DEF Paths
    <3>3. Len(r) = 1 => Front(r) = <<>>
      BY <3>1, PathFacts
    <3> QED BY <1>9, <3>1, <3>2, <3>3
  <2> QED BY <1>7, <2>1 DEF CardOK
<1> QED BY <1>5, <1>6, <1>7, <1>8, <1>9

LEMMA PrepareChanges ==
  ASSUME TreeInv, Laid(paths), PrepareDirs
  PROVE  \/ card' = card /\ stamp' = stamp /\ now' = now
         \/ now' = now + 1 /\ Changed(card, stamp, now, card', stamp')
<1>0. CardOK(card) /\ DatesOK(card, stamp, now)
  BY DEF TreeInv
<1>1. /\ CardOK(card') /\ card \subseteq card'
      /\ card' \subseteq card \cup {paths.base, paths.lib, paths.data}
                              \cup {paths.data \o r : r \in RuntimeDirs}
  BY <1>0, PreparedFacts DEF PrepareDirs
<1>2. PICK made : made = card' \ card
  OBVIOUS
<1>3. PICK ps : ps = made \cup {Front(p) : p \in made}
  OBVIOUS
<1>4. /\ stamp' = [p \in Tracked(card') |-> IF p \in ps THEN now + 1 ELSE stamp[p]]
      /\ now' = IF made = {} THEN now ELSE now + 1
  BY <1>2, <1>3 DEF PrepareDirs, Dated
<1>5. CASE made = {}
  <2>1. card' = card /\ ps = {}
    BY <1>1, <1>2, <1>3, <1>5
  <2>2. stamp' = [p \in Tracked(card) |-> stamp[p]]
    BY <1>4, <2>1
  <2>3. stamp = [p \in Tracked(card) |-> stamp[p]]
    BY <1>0 DEF DatesOK
  <2> QED BY <1>4, <1>5, <2>1, <2>2, <2>3
<1>6. CASE made # {}
  <2>1. \A p \in Tracked(card') \ ps : p \in card /\ SameLeaves(p, card', p, card)
    <3> SUFFICES ASSUME NEW p \in Tracked(card') \ ps
                 PROVE  p \in card /\ SameLeaves(p, card', p, card)
      OBVIOUS
    <3>1. p \in card /\ p \in Seq(PathNames)
      BY <1>0, <1>2, <1>3 DEF Tracked, CardOK, Paths
    <3>2. \A x \in PathNames : Append(p, x) \notin made
      BY <1>3, <3>1, LeafFacts
    <3> QED BY <1>1, <1>2, <3>1, <3>2 DEF SameLeaves
  <2>2. \A p, q \in Tracked(card') \cap ps : Len(p) = Len(q) /\ Last(p) = Last(q) => p = q
    <3>1. PICK base, data : base = paths.base /\ data = paths.data
      OBVIOUS
    <3>2. /\ base \in Paths /\ base \in Seq(PathNames) /\ Len(base) \in Nat \ {0}
          /\ Len(Front(base)) = Len(base) - 1
      BY <3>1, PathFacts DEF Laid, Paths
    <3>3. \/ data = base
          \/ /\ data \in Paths /\ Len(data) = Len(base) + 1 /\ Front(data) = base
      BY <3>1, <3>2, LeafFacts DEF Laid
    <3>4. data \in Seq(PathNames) /\ Len(data) \in Nat \ {0}
      BY <3>2, <3>3, PathFacts DEF Paths
    <3>5. paths.lib = base \/ (Last(paths.lib) = "lib" /\ Front(paths.lib) = base)
      BY <3>1, <3>2, PathsAssumption, LeafFacts DEF Laid
    <3>6. ASSUME NEW r \in RuntimeDirs
          PROVE  /\ Len(data \o r) = Len(data) + Len(r) /\ Len(r) \in Nat \ {0}
                 /\ Last(data \o r) = Last(r)
                 /\ \/ Front(data \o r) = data
                    \/ \E s \in RuntimeDirs : Front(data \o r) = data \o s
      <4>1. r \in Paths /\ (Len(r) = 1 \/ Front(r) \in RuntimeDirs)
        BY PathsAssumption
      <4>2. (Len(r) = 1 <=> Front(r) = <<>>) /\ Len(r) \in Nat \ {0}
        BY <4>1, PathFacts
      <4>3. /\ Last(data \o r) = Last(r) /\ Front(data \o r) = data \o Front(r)
            /\ Len(data \o r) = Len(data) + Len(r)
            /\ Front(r) = <<>> => data \o Front(r) = data
        BY <3>4, <4>1, UnderFacts
      <4> QED BY <4>1, <4>2, <4>3
    <3>7. \A p \in ps : \/ p \in {Front(base), base, data}
                        \/ p = paths.lib /\ Last(p) = "lib"
                        \/ \E r \in RuntimeDirs : p = data \o r
      <4>1. \A p \in made : p \in {base, paths.lib, data} \/ \E r \in RuntimeDirs : p = data \o r
        BY <1>1, <1>2, <3>1
      <4>2. ASSUME NEW p \in made
            PROVE  /\ \/ p \in {base, data}
                      \/ p = paths.lib /\ Last(p) = "lib"
                      \/ \E r \in RuntimeDirs : p = data \o r
                   /\ \/ Front(p) \in {Front(base), base, data}
                      \/ \E r \in RuntimeDirs : Front(p) = data \o r
        <5>1. CASE p = base
          BY <5>1
        <5>2. CASE p = paths.lib
          BY <3>5, <5>2
        <5>3. CASE p = data
          BY <3>3, <5>3
        <5>4. CASE \E r \in RuntimeDirs : p = data \o r
          BY <3>6, <5>4
        <5> QED BY <4>1, <5>1, <5>2, <5>3, <5>4
      <4> SUFFICES ASSUME NEW p \in ps
                   PROVE  \/ p \in {Front(base), base, data}
                          \/ p = paths.lib /\ Last(p) = "lib"
                          \/ \E r \in RuntimeDirs : p = data \o r
        OBVIOUS
      <4>3. CASE p \in made
        BY <4>2, <4>3
      <4>4. ASSUME NEW v \in made, p = Front(v)
            PROVE  p \in {Front(base), base, data} \/ \E r \in RuntimeDirs : p = data \o r
        BY <4>2, <4>4
      <4> QED BY <1>3, <4>3, <4>4
    <3>8. \A p \in Tracked(card') \cap ps :
             \/ p \in {Front(base), base, data}
             \/ \E r \in RuntimeDirs : p = data \o r /\ Last(r) \in FingerprintDirs
      <4>1. \A p \in Tracked(card') : Last(p) # "lib" /\ Last(p) \in FingerprintDirs
        BY StartAssumption DEF Tracked
      <4> QED BY <3>6, <3>7, <4>1
    <3>9. \A r, s \in RuntimeDirs :
             Len(r) = Len(s) /\ Last(r) = Last(s) /\ Last(r) \in FingerprintDirs => r = s
      BY StartAssumption
    <3> SUFFICES ASSUME NEW p \in Tracked(card') \cap ps, NEW q \in Tracked(card') \cap ps,
                        Len(p) = Len(q), Last(p) = Last(q)
                 PROVE  p = q
      OBVIOUS
    <3>10. CASE p \in {Front(base), base, data} /\ q \in {Front(base), base, data}
      BY <3>2, <3>3, <3>10
    <3>11. ASSUME NEW u \in {Front(base), base, data}, NEW r \in RuntimeDirs
           PROVE  Len(u) # Len(data \o r)
      BY <3>2, <3>3, <3>4, <3>6, <3>11
    <3>12. ASSUME NEW r \in RuntimeDirs, Last(r) \in FingerprintDirs, p = data \o r,
                  NEW s \in RuntimeDirs, q = data \o s
           PROVE  p = q
      <4>1. Len(r) = Len(s) /\ Last(r) = Last(s)
        <5>1. Len(data) + Len(r) = Len(data) + Len(s) /\ Last(r) = Last(s)
          BY <3>6, <3>12
        <5>2. Len(r) \in Nat /\ Len(s) \in Nat
          BY <3>6
        <5> QED BY <3>4, <5>1, <5>2
      <4> QED BY <3>9, <3>12, <4>1
    <3> QED BY <3>8, <3>10, <3>11, <3>12
  <2> QED BY <1>0, <1>1, <1>4, <1>6, <2>1, <2>2, Touched
<1> QED BY <1>5, <1>6

-----------------------------------------------------------------------------
(* Where the data is looked for. *)

LEMMA FirstOf ==
  ASSUME NEW S, NEW list \in Seq(S), NEW fit \in SUBSET (DOMAIN list)
  PROVE  First(list, fit) \subseteq S
<1>1. DOMAIN list = 1 .. Len(list)
  BY LenProperties
<1> QED BY <1>1, ElementOfSeq DEF First

LEMMA PopulateLaid ==
  ASSUME NEW c, c \subseteq Paths, NEW base \in Paths, NEW l \in PopulateFrom(c, base)
  PROVE  Laid(l)
<1>1. base \in Seq(PathNames) /\ base # <<>>
  BY DEF Paths
<1>2. ASSUME NEW d \in FindDataDir(c, base)
      PROVE  d = base \/ \E x \in PathNames : d = Append(base, x)
  <2> DEFINE named == {i \in DOMAIN FolderNames : LooksLikeDataDir(c, Join(base, FolderNames[i]))}
  <2>1. \/ \E n \in First(FolderNames, named) : d = Join(base, n)
        \/ d = base
        \/ d \in SubDirs(c, base)
    BY <1>2 DEF FindDataDir
  <2>2. ASSUME NEW n \in First(FolderNames, named), d = Join(base, n)
        PROVE  \E x \in PathNames : d = Append(base, x)
    <3>1. n \in PathNames
      BY PathsAssumption, FirstOf
    <3> QED BY <2>2, <3>1 DEF Join
  <2>3. CASE d \in SubDirs(c, base)
    <3>1. d \in Paths /\ Front(d) = base
      BY <2>3 DEF SubDirs
    <3> QED BY <3>1, PathFacts
  <2> QED BY <2>1, <2>2, <2>3
<1>3. PICK d : /\ l = [base |-> base, lib |-> LibDir(c, base), data |-> d, fromArgv |-> FALSE]
               /\ d \in FindDataDir(c, base) \/ d = Join(base, "rvgl")
  BY DEF PopulateFrom
<1>4. l.base = base /\ l.lib = LibDir(c, base) /\ l.data = d
  BY <1>3
<1>5. d = base \/ \E x \in PathNames : d = Append(base, x)
  BY <1>2, <1>3, PathsAssumption DEF Join
<1>6. LibDir(c, base) \in {base, Append(base, "lib")}
  BY DEF LibDir, Join
<1> QED BY <1>4, <1>5, <1>6 DEF Laid

(* Whichever way rv_paths_resolve takes. *)
LEMMA ResolveLaid ==
  ASSUME NEW c, c \subseteq Paths, NEW name \in Seq(PathNames), NEW l \in Resolve(c, name)
  PROVE  Laid(l)
<1>1. ASSUME NEW k \in FromFallbacks(c) PROVE Laid(k)
  <2> DEFINE good == {i \in DOMAIN Fallbacks :
                        /\ IsDirectory(c, Fallbacks[i])
                        /\ \E p \in PopulateFrom(c, Fallbacks[i]) : Recognised(c, p)}
  <2>1. PICK b \in First(Fallbacks, good) : k \in PopulateFrom(c, b)
    BY <1>1 DEF FromFallbacks
  <2>2. b \in Paths
    BY PathsAssumption, FirstOf
  <2> QED BY <2>1, <2>2, PopulateLaid
<1>2. ASSUME NEW k \in FromSearch(c) PROVE Laid(k)
  <2>1. PICK r, d : d \in LibHolders(c, r) /\ k \in PopulateFrom(c, d)
    BY <1>2 DEF FromSearch
  <2>2. d \in Paths
    BY <2>1 DEF LibHolders, SubDirs
  <2> QED BY <2>1, <2>2, PopulateLaid
<1>3. PICK own : own = IF Dirname(name) = <<>> THEN {} ELSE FromArgv(c, Dirname(name))
  OBVIOUS
<1>4. ASSUME NEW k \in own PROVE Laid(k)
  <2>1. Dirname(name) # <<>> /\ k \in FromArgv(c, Dirname(name))
    BY <1>3, <1>4
  <2>2. PICK p \in PopulateFrom(c, Dirname(name)) : k = [p EXCEPT !.fromArgv = TRUE]
    BY <2>1 DEF FromArgv
  <2>3. Dirname(name) \in Paths
    <3>1. name \in Paths /\ Dirname(name) = Front(name)
      BY <2>1, EmptySeq DEF Dirname, Paths
    <3> QED BY <2>1, <3>1, PathFacts DEF Paths
  <2>4. Laid(p)
    BY <2>2, <2>3, PopulateLaid
  <2>5. k.base = p.base /\ k.lib = p.lib /\ k.data = p.data
    BY <2>2 DEF PopulateFrom
  <2> QED BY <2>4, <2>5 DEF Laid
<1>5. ASSUME NEW k \in PopulateFrom(c, Fallbacks[1]) PROVE Laid(k)
  <2>1. Len(Fallbacks) \in Nat \ {0}
    BY PathsAssumption, EmptySeq
  <2>2. Fallbacks[1] \in Paths
    BY <2>1, PathsAssumption, ElementOfSeq
  <2> QED BY <1>5, <2>2, PopulateLaid
<1>6. \/ l \in own \/ l \in FromFallbacks(c) \/ l \in FromSearch(c)
      \/ l \in PopulateFrom(c, Fallbacks[1])
  BY <1>3 DEF Resolve
<1> QED BY <1>1, <1>2, <1>4, <1>5, <1>6

-----------------------------------------------------------------------------
(* What is stored and what is taken. *)

LEMMA ProbePath ==
  ASSUME NEW data \in Seq(PathNames), NEW r \in Paths
  PROVE  /\ Len(r) = 1 => data \o r = Append(data, r[1])
         /\ Len(r) = 2 => data \o r = Append(Append(data, r[1]), r[2])
<1>1. \A s \in Paths : data \o s = Append(data \o Front(s), Last(s))
  <2> SUFFICES ASSUME NEW s \in Paths PROVE data \o s = Append(data \o Front(s), Last(s))
    OBVIOUS
  <2>1. data \o s \in Paths /\ Last(data \o s) = Last(s) /\ Front(data \o s) = data \o Front(s)
    BY UnderFacts
  <2>2. data \o s = Append(Front(data \o s), Last(data \o s))
    BY <2>1, PathFacts
  <2> QED BY <2>1, <2>2
<1>2. \A s \in Paths : Len(s) = 1 => data \o s = Append(data, s[1])
  <2> SUFFICES ASSUME NEW s \in Paths, Len(s) = 1 PROVE data \o s = Append(data, s[1])
    OBVIOUS
  <2>1. Front(s) = <<>>
    BY PathFacts
  <2>2. data \o Front(s) = data
    BY <2>1, ConcatEmptySeq
  <2> QED BY <1>1, <2>2 DEF Last
<1>3. ASSUME Len(r) = 2 PROVE data \o r = Append(Append(data, r[1]), r[2])
  <2>0. Last(r) = r[2] /\ Len(Front(r)) = Len(r) - 1
    BY <1>3, PathFacts DEF Last
  <2>1. /\ Front(r) \in Seq(PathNames) /\ Len(Front(r)) = 1
        /\ r = Append(Front(r), r[2]) /\ r[2] \in PathNames
    BY <1>3, <2>0, PathFacts
  <2>2. \A i \in 1 .. Len(Front(r)) : Append(Front(r), r[2])[i] = Front(r)[i]
    BY <2>1, AppendProperties
  <2>3. Front(r)[1] = r[1]
    BY <2>1, <2>2
  <2>4. Front(r) \in Paths
    BY <2>1, EmptySeq DEF Paths
  <2>5. data \o Front(r) = Append(data, r[1])
    BY <1>2, <2>1, <2>3, <2>4
  <2> QED BY <1>1, <1>3, <2>5 DEF Last
<1> QED BY <1>2, <1>3

LEMMA ShortProbe ==
  ASSUME NEW r, Len(r) \in Nat \ {0}, Len(r) <= 2
  PROVE  Len(r) = 1 \/ Len(r) = 2
<1>1. PICK n \in Nat \ {0} : n = Len(r)
  OBVIOUS
<1>2. n <= 2 => n = 1 \/ n = 2
  OBVIOUS
<1> QED BY <1>1, <1>2

(* What the fingerprint holds of a directory of the list. *)
LEMMA PrintFacts ==
  ASSUME NEW c, NEW times, NEW t, CardOK(c), DatesOK(c, times, t), NEW data \in Paths,
         NEW e \in FingerprintDirs
  PROVE  /\ Fingerprint(c, times, data).data = data
         /\ IF Append(data, e) \in c
            THEN /\ Append(data, e) \in Tracked(c) /\ Len(Append(data, e)) = Len(data) + 1
                 /\ Last(Append(data, e)) = e
                 /\ Fingerprint(c, times, data).times[e] = times[Append(data, e)]
                 /\ times[Append(data, e)] \in 1 .. t
            ELSE Fingerprint(c, times, data).times[e] = 0
<1>1. e \in PathNames /\ data \in Seq(PathNames)
  BY ProbesAssumption DEF Paths
<1>2. data \o <<e>> = Append(data, e)
  BY <1>1, AppendIsConcat
<1>3. Last(Append(data, e)) = e /\ Len(Append(data, e)) = Len(data) + 1
  BY <1>1, LeafFacts
<1>4. Append(data, e) \in c => Append(data, e) \in Tracked(c) /\ times[Append(data, e)] \in 1 .. t
  BY <1>3 DEF Tracked, DatesOK
<1> QED BY <1>2, <1>3, <1>4 DEF Fingerprint

(* CacheStore keeps what is true of every directory that looks the same.   *)
LEMMA StoredOK ==
  ASSUME NEW c, NEW times, NEW t, CardOK(c), DatesOK(c, times, t), Alike(c, times),
         NEW data \in Paths
  PROVE  FileOK(StoredScan(Fingerprint(c, times, data), Scan(c, data)), c, times, t)
<1> DEFINE print == Fingerprint(c, times, data)
<1>1. PICK file : file = StoredScan(print, Scan(c, data))
  OBVIOUS
<1>2. /\ file.print = print
      /\ \A g \in Groups : \A r \in Probes[g] : r \in file.scan.missing[g] <=> data \o r \notin c
  BY <1>1 DEF StoredScan, Scan
<1>3. data \in Seq(PathNames) /\ t \in Nat
  BY DEF Paths, DatesOK
<1>4. \A e \in FingerprintDirs : file.print.times[e] \in 0 .. t
  BY <1>2, <1>3, PrintFacts
<1>5. ASSUME NEW g \in Groups, NEW r \in Probes[g], Covered(r)
      PROVE  TellsOf(file, r, r \in file.scan.missing[g], c, times)
  <2>1. PICK e : e = r[1]
    OBVIOUS
  <2>2. PICK dir : dir = Append(data, e)
    OBVIOUS
  <2>3. e \in FingerprintDirs /\ Len(r) <= 2 /\ r \in Paths /\ Len(r) \in Nat \ {0}
    BY <1>5, <2>1, ProbeFacts DEF Covered
  <2>4. /\ Len(r) = 1 => data \o r = dir
        /\ Len(r) = 2 => data \o r = Append(dir, r[2])
    BY <1>3, <2>1, <2>2, <2>3, ProbePath
  <2>5. PICK absent \in BOOLEAN : absent <=> r \in file.scan.missing[g]
    OBVIOUS
  <2>6. absent <=> data \o r \notin c
    BY <1>2, <2>5
  <2>7. /\ dir \in c => /\ dir \in Tracked(c) /\ Len(dir) = Len(data) + 1 /\ Last(dir) = e
                        /\ file.print.times[e] = times[dir] /\ times[dir] # 0
        /\ dir \notin c => file.print.times[e] = 0
        /\ file.print.data = data
    BY <1>2, <2>2, <2>3, PrintFacts
  <2>8. Len(r) = 2 /\ dir \notin c => absent
    <3> SUFFICES ASSUME Len(r) = 2, Append(dir, r[2]) \in c PROVE dir \in c
      BY <2>4, <2>6
    <3>1. dir \in Paths /\ dir \in Seq(PathNames)
      BY <1>3, <2>2, <2>3, LeafFacts, ProbesAssumption DEF Paths
    <3>2. r[2] \in PathNames /\ Len(dir) \in Nat \ {0}
      BY <3>1, ProbeFacts, PathFacts
    <3>3. Front(Append(dir, r[2])) = dir /\ Len(Append(dir, r[2])) = Len(dir) + 1
      BY <3>1, <3>2, LeafFacts
    <3>4. Len(Append(dir, r[2])) # 1
      BY <3>2, <3>3
    <3> QED BY <3>3, <3>4 DEF CardOK
  <2>9. ASSUME dir \in c, Len(r) = 2, NEW p \in Tracked(c), Last(p) = e, Len(p) = Len(data) + 1,
               times[p] = times[dir]
        PROVE  absent <=> Append(p, r[2]) \notin c
    <3>1. Append(p, r[2]) \in c <=> Append(dir, r[2]) \in c
      BY <2>1, <2>7, <2>9 DEF Alike
    <3> QED BY <2>4, <2>6, <2>9, <3>1
  <2>10. TellsOf(file, r, absent, c, times)
    <3>1. file.print.times[e] = 0 => absent
      <4>1. Len(r) = 1 \/ Len(r) = 2
        BY <2>3, ShortProbe
      <4> QED BY <2>4, <2>6, <2>7, <2>8, <4>1
    <3>2. file.print.times[e] # 0 /\ Len(r) = 1 => ~absent
      BY <2>4, <2>6, <2>7
    <3>3. file.print.times[e] # 0 /\ Len(r) = 2 =>
            \A p \in Tracked(c) :
              Last(p) = e /\ Len(p) = Len(file.print.data) + 1 /\ times[p] = file.print.times[e] =>
                (absent <=> Append(p, r[2]) \notin c)
      BY <2>7, <2>9
    <3> QED BY <2>1, <3>1, <3>2, <3>3 DEF TellsOf
  <2> QED BY <2>5, <2>10
<1>6. FileOK(file, c, times, t)
  BY <1>4, <1>5 DEF FileOK
<1> QED BY <1>1, <1>6

(* CacheLoad takes what is true of the directories it is about. *)
LEMMA TakenIsRight ==
  ASSUME NEW c, NEW times, NEW t, CardOK(c), DatesOK(c, times, t), NEW data \in Paths,
         NEW file, FileOK(file, c, times, t), CacheHit(file, Fingerprint(c, times, data)),
         NEW g \in Groups, NEW r \in Probes[g], Covered(r)
  PROVE  r \in file.scan.missing[g] <=> data \o r \notin c
<1>1. PICK e : e = r[1]
  OBVIOUS
<1>2. PICK dir : dir = Append(data, e)
  OBVIOUS
<1>3. /\ e \in FingerprintDirs /\ Len(r) <= 2 /\ r \in Paths /\ Len(r) \in Nat \ {0}
      /\ data \in Seq(PathNames)
  BY <1>1, ProbeFacts DEF Covered, Paths
<1>4. /\ Len(r) = 1 => data \o r = dir
      /\ Len(r) = 2 => data \o r = Append(dir, r[2])
  BY <1>1, <1>2, <1>3, ProbePath
<1>5. file.kind = "whole" /\ file.print = Fingerprint(c, times, data)
  BY DEF CacheHit
<1>6. PICK absent \in BOOLEAN : absent <=> r \in file.scan.missing[g]
  OBVIOUS
<1>7. TellsOf(file, r, absent, c, times)
  BY <1>5, <1>6 DEF FileOK
<1>8. /\ dir \in c => /\ dir \in Tracked(c) /\ Len(dir) = Len(data) + 1 /\ Last(dir) = e
                      /\ file.print.times[e] = times[dir] /\ times[dir] # 0
      /\ dir \notin c => file.print.times[e] = 0
      /\ file.print.data = data
  BY <1>2, <1>3, <1>5, PrintFacts
<1>9. Len(r) = 2 /\ dir \notin c => Append(dir, r[2]) \notin c
  <2> SUFFICES ASSUME Len(r) = 2, Append(dir, r[2]) \in c PROVE dir \in c
    OBVIOUS
  <2>1. dir \in Paths /\ dir \in Seq(PathNames)
    BY <1>2, <1>3, LeafFacts, ProbesAssumption DEF Paths
  <2>2. r[2] \in PathNames /\ Len(dir) \in Nat \ {0}
    BY <2>1, ProbeFacts, PathFacts
  <2>3. Front(Append(dir, r[2])) = dir /\ Len(Append(dir, r[2])) = Len(dir) + 1
    BY <2>1, <2>2, LeafFacts
  <2>4. Len(Append(dir, r[2])) # 1
    BY <2>2, <2>3
  <2> QED BY <2>3, <2>4 DEF CardOK
<1>0. Len(r) = 1 \/ Len(r) = 2
  BY <1>3, ShortProbe
<1>10. CASE dir \notin c
  <2>1. absent
    BY <1>1, <1>7, <1>8, <1>10 DEF TellsOf
  <2> QED BY <1>0, <1>4, <1>6, <1>9, <1>10, <2>1
<1>11. CASE dir \in c /\ Len(r) = 1
  <2>1. ~absent
    BY <1>1, <1>7, <1>8, <1>11 DEF TellsOf
  <2> QED BY <1>4, <1>6, <1>11, <2>1
<1>12. CASE dir \in c /\ Len(r) = 2
  <2>1. absent <=> Append(dir, r[2]) \notin c
    BY <1>1, <1>7, <1>8, <1>12 DEF TellsOf
  <2> QED BY <1>4, <1>6, <1>12, <2>1
<1> QED BY <1>0, <1>10, <1>11, <1>12

-----------------------------------------------------------------------------
(* The boots. *)

(* Directories that look alike are alike, and every stored answer is true  *)
(* of all that look as its directories did.                                *)
FilesOK ==
  /\ TreeInv
  /\ Alike(card, stamp)
  /\ \A b \in DOMAIN cache : FileOK(cache[b], card, stamp, now)

(* The scan of this boot is this card's, or the cache's. *)
ScanInv ==
  /\ FilesOK
  /\ argv \in Seq(PathNames)
  /\ phase \in {"prepare", "scan", "store", "decide"} => Laid(paths)
  /\ phase = "store" => scan = Scan(card, paths.data)
  /\ CoveredIsCurrent

LEMMA LaidData == Laid(paths) => paths.data \in Paths
<1> SUFFICES ASSUME Laid(paths) PROVE paths.data \in Paths
  OBVIOUS
<1>1. paths.base \in Paths /\ paths.base \in Seq(PathNames)
  BY DEF Laid, Paths
<1> QED BY <1>1, LeafFacts DEF Laid

LEMMA FilesChange ==
  ASSUME FilesOK, now' = now + 1, Changed(card, stamp, now, card', stamp'), cache' = cache
  PROVE  FilesOK'
<1>1. DatesOK(card, stamp, now) /\ Alike(card, stamp)
  BY DEF FilesOK, TreeInv
<1>2. CardOK(card') /\ DatesOK(card', stamp', now + 1)
  BY DEF Changed
<1>3. Alike(card', stamp')
  BY <1>1, ChangeAlike
<1>4. ASSUME NEW b \in DOMAIN cache PROVE FileOK(cache[b], card', stamp', now + 1)
  <2>1. PICK file : file = cache[b]
    OBVIOUS
  <2>2. FileOK(file, card, stamp, now)
    BY <2>1 DEF FilesOK
  <2>3. FileOK(file, card', stamp', now + 1)
    BY <1>1, <2>2, ChangeFile
  <2> QED BY <2>1, <2>3
<1>5. TreeInv'
  BY <1>2 DEF TreeInv
<1> QED BY <1>3, <1>4, <1>5 DEF FilesOK

LEMMA FilesKept ==
  ASSUME FilesOK, UNCHANGED <<card, stamp, now, cache>>
  PROVE  FilesOK'
BY DEF FilesOK, TreeInv

LEMMA FilesStored ==
  ASSUME FilesOK, UNCHANGED <<card, stamp, now>>, NEW file, FileOK(file, card, stamp, now),
         Store(file)
  PROVE  FilesOK'
<1>1. \A b \in DOMAIN cache' : cache'[b] = file \/ (b \in DOMAIN cache /\ cache'[b] = cache[b])
  BY DEF Store
<1>2. \A b \in DOMAIN cache' : FileOK(cache'[b], card, stamp, now)
  BY <1>1 DEF FilesOK
<1>3. TreeInv' /\ Alike(card, stamp)'
  BY DEF FilesOK, TreeInv
<1> QED BY <1>2, <1>3 DEF FilesOK

LEMMA FilesStart == StartInit => FilesOK
<1> SUFFICES ASSUME StartInit PROVE FilesOK
  OBVIOUS
<1>1. CardOK(card)
  BY StartAssumption DEF StartInit, CardOK
<1>2. now \in Nat /\ now = Ages
  BY StartAssumption DEF StartInit
<1>3. DatesOK(card, stamp, now)
  BY <1>2 DEF StartInit, DatesOK
<1>4. DOMAIN cache = {}
  BY DEF StartInit
<1> QED BY <1>1, <1>3, <1>4 DEF StartInit, FilesOK, TreeInv

(* Away from the phases in which the answer matters. *)
LEMMA Elsewhere ==
  ASSUME FilesOK', (argv \in Seq(PathNames))', phase' \notin {"prepare", "scan", "store", "decide"}
  PROVE  ScanInv'
BY DEF FilesOK, ScanInv, CoveredIsCurrent

LEMMA ScanUser == ScanInv /\ User => ScanInv'
<1> SUFFICES ASSUME ScanInv, User PROVE ScanInv'
  OBVIOUS
<1>0. FilesOK /\ TreeInv /\ argv \in Seq(PathNames)
  BY DEF ScanInv, FilesOK
<1>1. ASSUME Off, Change, Changed(card, stamp, now, card', stamp') PROVE ScanInv'
  <2>1. FilesOK'
    BY <1>0, <1>1, FilesChange DEF Change
  <2>2. argv' \in Seq(PathNames) /\ phase' = "off"
    BY <1>0, <1>1 DEF Change, Off
  <2> QED BY <2>1, <2>2, Elsewhere
<1>2. ASSUME NEW p \in Wares, Copy(p) PROVE ScanInv'
  BY <1>0, <1>1, <1>2, CopyChanges DEF Copy
<1>3. ASSUME NEW p \in Wares, Delete(p) PROVE ScanInv'
  BY <1>0, <1>1, <1>3, DeleteChanges DEF Delete
<1>4. ASSUME NEW m \in Moves, Move(m[1], m[2]) PROVE ScanInv'
  BY <1>0, <1>1, <1>4, MoveChanges DEF Move
<1>5. CASE PowerOn \/ LeaveRefusal \/ LeaveFatal \/ Return
  <2>1. UNCHANGED <<card, stamp, now, cache, argv>>
    BY <1>5 DEF PowerOn, LeaveRefusal, LeaveFatal, Return, Enter, files, limits
  <2>2. phase' \notin {"prepare", "scan", "store", "decide"}
    BY <1>5 DEF PowerOn, LeaveRefusal, LeaveFatal, Return, Enter
  <2> QED BY <1>0, <2>1, <2>2, FilesKept, Elsewhere
<1> QED BY <1>2, <1>3, <1>4, <1>5 DEF User

LEMMA ScanMain == ScanInv /\ Main => ScanInv'
<1> SUFFICES ASSUME ScanInv, Main PROVE ScanInv'
  OBVIOUS
<1>0. /\ FilesOK /\ CardOK(card) /\ DatesOK(card, stamp, now) /\ Alike(card, stamp)
      /\ argv \in Seq(PathNames) /\ card \subseteq Paths
  BY DEF ScanInv, FilesOK, TreeInv, CardOK
<1>1. CASE ResolvePaths
  <2>1. /\ UNCHANGED <<card, stamp, now, cache, argv>>
        /\ phase' = "prepare" /\ paths' \in Resolve(card, argv)
    BY <1>1 DEF ResolvePaths, Enter, files, limits
  <2>2. Laid(paths')
    BY <1>0, <2>1, ResolveLaid
  <2>3. FilesOK'
    BY <1>0, <2>1, FilesKept
  <2> QED BY <1>0, <2>1, <2>2, <2>3 DEF ScanInv, FilesOK, CoveredIsCurrent
<1>2. CASE PrepareDirs
  <2>1. Laid(paths) /\ phase' = "scan" /\ UNCHANGED <<cache, paths, argv>>
    BY <1>2 DEF PrepareDirs, ScanInv, Enter, limits
  <2>2. FilesOK'
    BY <1>0, <1>2, <2>1, PrepareChanges, FilesKept, FilesChange DEF FilesOK
  <2> QED BY <1>0, <2>1, <2>2 DEF ScanInv, FilesOK, CoveredIsCurrent
<1>3. CASE ScanCached
  <2>1. /\ Laid(paths) /\ phase' = "decide" /\ UNCHANGED <<card, stamp, now, cache, paths, argv>>
        /\ paths.data \in Paths
    BY <1>3, LaidData DEF ScanCached, ScanInv, Enter, files, limits
  <2>2. PICK file : file = CacheOf(paths.base)
    OBVIOUS
  <2>3. CacheHit(file, Fingerprint(card, stamp, paths.data)) /\ scan' = file.scan
    BY <1>3, <2>2 DEF ScanCached, CardPrint
  <2>4. FileOK(file, card, stamp, now)
    <3>1. CASE paths.base \in DOMAIN cache
      BY <1>0, <2>2, <3>1 DEF FilesOK, CacheOf
    <3>2. CASE paths.base \notin DOMAIN cache
      BY <2>2, <3>2 DEF CacheOf, NoFile, FileOK
    <3> QED BY <3>1, <3>2
  <2>5. ASSUME NEW g \in Groups, NEW r \in Probes[g], Covered(r)
        PROVE  r \in scan'.missing[g] <=> paths'.data \o r \notin card'
    <3>1. r \in file.scan.missing[g] <=> paths.data \o r \notin card
      BY <1>0, <2>1, <2>3, <2>4, <2>5, TakenIsRight
    <3> QED BY <2>1, <2>3, <3>1
  <2>6. CoveredIsCurrent'
    BY <2>5 DEF CoveredIsCurrent
  <2>7. FilesOK'
    BY <1>0, <2>1, FilesKept
  <2> QED BY <1>0, <2>1, <2>6, <2>7 DEF ScanInv, FilesOK
<1>4. ASSUME Laid(paths), UNCHANGED <<card, stamp, now, paths, argv>>, FilesOK',
             scan' = Scan(card, paths.data), phase' \in {"store", "decide"}
      PROVE  ScanInv'
  <2>1. CoveredIsCurrent'
    BY <1>4 DEF CoveredIsCurrent, Scan
  <2> QED BY <1>0, <1>4, <2>1 DEF ScanInv, FilesOK
<1>5. CASE ScanFresh
  <2>1. /\ Laid(paths) /\ UNCHANGED <<card, stamp, now, paths, argv>>
        /\ scan' = Scan(card, paths.data) /\ phase' \in {"store", "decide"}
    BY <1>5 DEF ScanFresh, ScanInv, Enter, limits
  <2>2. FileOK(Torn, card, stamp, now)
    BY DEF FileOK, Torn
  <2>3. FilesOK'
    BY <1>0, <1>5, <2>1, <2>2, FilesKept, FilesStored DEF ScanFresh
  <2> QED BY <1>4, <2>1, <2>3
<1>6. CASE StoreCache
  <2>1. /\ Laid(paths) /\ UNCHANGED <<card, stamp, now, paths, argv>> /\ paths.data \in Paths
        /\ scan' = Scan(card, paths.data) /\ scan = Scan(card, paths.data) /\ phase' = "decide"
    BY <1>6, LaidData DEF StoreCache, ScanInv, Enter, limits
  <2>2. Store(StoredScan(Fingerprint(card, stamp, paths.data), Scan(card, paths.data)))
    BY <1>6, <2>1 DEF StoreCache, CardPrint
  <2>3. FileOK(StoredScan(Fingerprint(card, stamp, paths.data), Scan(card, paths.data)),
               card, stamp, now)
    BY <1>0, <2>1, StoredOK
  <2>4. FilesOK'
    BY <1>0, <2>1, <2>2, <2>3, FilesStored
  <2> QED BY <1>4, <2>1, <2>4
<1>7. CASE Proceed \/ Refuse \/ SetUp \/ HandOver \/ Redirect \/ End
  <2>1. UNCHANGED <<card, stamp, now, cache, argv>>
    BY <1>7 DEF Proceed, Refuse, SetUp, HandOver, Redirect, End, Reset, Enter, files, limits
  <2>2. phase' \notin {"prepare", "scan", "store", "decide"}
    BY <1>7 DEF Proceed, Refuse, SetUp, HandOver, Redirect, End, Enter
  <2> QED BY <1>0, <2>1, <2>2, FilesKept, Elsewhere
<1> QED BY <1>1, <1>2, <1>3, <1>5, <1>6, <1>7 DEF Main

(* The inductive invariant of the boots and of what the user does between  *)
(* them.  That the answers are right when a scan ends is not inductive: it *)
(* rests on what every stored answer says of all directories of its dates, *)
(* wherever they have been moved since.                                    *)
THEOREM ScanInvariant == StartSpec => []ScanInv
<1>1. StartInit => ScanInv
  <2> SUFFICES ASSUME StartInit PROVE ScanInv
    OBVIOUS
  <2>1. FilesOK
    BY FilesStart
  <2>2. argv \in Seq(PathNames) /\ phase = "off"
    BY StartAssumption DEF StartInit
  <2> QED BY <2>1, <2>2 DEF ScanInv, FilesOK, CoveredIsCurrent
<1>2. ScanInv /\ [StartNext]_startVars => ScanInv'
  <2> SUFFICES ASSUME ScanInv, [StartNext]_startVars PROVE ScanInv'
    OBVIOUS
  <2>0. FilesOK /\ argv \in Seq(PathNames)
    BY DEF ScanInv, FilesOK
  <2>1. CASE FatalError \/ PowerCut
    <3>1. UNCHANGED <<card, stamp, now, cache, argv>> /\ phase' \in {"fatal", "off"}
      BY <2>1 DEF FatalError, PowerCut, Reset, files
    <3> QED BY <2>0, <3>1, FilesKept, Elsewhere
  <2>2. CASE UNCHANGED startVars
    <3>1. UNCHANGED <<card, stamp, now, cache, argv, phase, paths, scan>>
      BY <2>2 DEF startVars, files, limits
    <3>2. FilesOK'
      BY <2>0, <3>1, FilesKept
    <3> QED BY <2>0, <3>1, <3>2 DEF ScanInv, FilesOK, CoveredIsCurrent
  <2> QED BY <2>1, <2>2, ScanMain, ScanUser DEF StartNext
<1> QED BY <1>1, <1>2, PTL DEF StartSpec

(* A scan taken from the cache is right about everything its fingerprint   *)
(* covers, on any card and after any number of changes and boots, complete *)
(* or cut short: CoveredIsCurrent.                                         *)
THEOREM CachedIsRight == StartSpec => []CoveredIsCurrent
<1>1. ScanInv => CoveredIsCurrent
  BY DEF ScanInv
<1> QED BY <1>1, ScanInvariant, PTL

-----------------------------------------------------------------------------
(* The asset pack. *)

tpack == disk["pack.tmp"]
tindex == disk["index.tmp"]
pack == disk["pack"]
index == disk["index"]

(* What is known of the temporary files at each step of the build. *)
TempInv ==
  /\ pc \in {"index", "syncindex", "test", "verify", "unlink", "unlinkindex", "rename"} =>
       tpack.safe
  /\ pc \in {"test", "verify", "unlink", "unlinkindex", "rename", "renameindex"} => tindex.safe
  /\ pc \in {"verify", "unlink", "unlinkindex", "rename"} => Accepts(tpack, tindex)
  /\ pc \in {"unlink", "unlinkindex", "rename"} => tpack.good
  /\ pc = "renameindex" => Accepts(pack, tindex)

(* What is known of the installed files. *)
CardInv ==
  /\ pack.id # 0 => pack.good
  /\ pack.safe /\ index.safe

(* The pack is opened last, when no file changes any more. *)
OpenInv ==
  active # 0 => pc \in {"take", "copy", "run"} /\ Installed /\ pack.id = active

BudgetInv ==
  /\ pc \notin {"copy", "run"} => budget = Budget /\ ~resident
  /\ pc = "copy" => budget + PackSize = Budget /\ ~resident
  /\ pc = "run" => budget + (IF resident THEN PackSize ELSE 0) = Budget

PInv == TypeOK /\ TempInv /\ CardInv /\ OpenInv /\ BudgetInv

USE SizeAssumption, RenameAssumption, LimitsAssumption
    DEF tpack, tindex, pack, index, Go, Idle, Installed, Accepts, Matches

-----------------------------------------------------------------------------
(* The pack is well at the first boot of all. *)
LEMMA PackInit == Init => PInv
<1> SUFFICES ASSUME Init PROVE PInv
  OBVIOUS
<1>1. \A n \in Names : disk[n] = Absent
  BY DEF Init
<1>2. TypeOK
  <2>1. Absent \in Files
    BY DEF Absent, Files, Ids
  <2>2. disk \in [Names -> Files]
    BY <2>1 DEF Init
  <2>3. id \in Ids /\ active \in Ids /\ budget \in Nat /\ stops \in Nat
    BY DEF Init, Ids
  <2> QED BY <2>2, <2>3 DEF Init, TypeOK
<1>3. TempInv /\ CardInv /\ OpenInv /\ BudgetInv
  BY <1>1 DEF Init, TempInv, CardInv, OpenInv, BudgetInv, Names, Temps, Absent
<1> QED BY <1>2, <1>3 DEF PInv

(* The four files by name: what is true of a function on Names. *)
LEMMA FourFiles ==
  ASSUME TypeOK
  PROVE  /\ tpack \in Files /\ tindex \in Files /\ pack \in Files /\ index \in Files
         /\ Absent \in Files
         /\ \A f : \A n \in Names : disk' = [disk EXCEPT ![n] = f] =>
              disk'[n] = f /\ \A m \in Names \ {n} : disk'[m] = disk[m]
  BY DEF TypeOK, Names, Temps, Files, Absent, Ids

(* Changing the fields of a file. *)
LEMMA FileEdit ==
  ASSUME NEW f \in Files, NEW v \in BOOLEAN, NEW w \in BOOLEAN
  PROVE  /\ [f EXCEPT !.good = v] \in Files /\ [f EXCEPT !.whole = v] \in Files
         /\ [f EXCEPT !.safe = TRUE] \in Files /\ [f EXCEPT !.safe = TRUE].safe
         /\ [f EXCEPT !.whole = v, !.good = w, !.safe = TRUE] \in Files
  BY DEF Files

(* A step of the build that touches only the temporary files, or nothing. *)
LEMMA InstalledUntouched ==
  ASSUME PInv, Idle, pack' = pack, index' = index, pc \notin {"take", "copy", "run"},
         pc' \notin {"take", "copy"}
  PROVE  CardInv' /\ OpenInv' /\ BudgetInv'
  BY DEF PInv, CardInv, OpenInv, BudgetInv

(* No step of a build, a boot or a crash breaks what PInv says. *)
LEMMA PackStep == PInv /\ [Next]_vars => PInv'
<1> SUFFICES ASSUME PInv, [Next]_vars PROVE PInv'
  OBVIOUS
<1> USE DEF PInv
<1>a. tpack \in Files /\ tindex \in Files /\ pack \in Files /\ index \in Files /\ Absent \in Files
  BY FourFiles
<1>1. ASSUME NEW from \in {"boot", "reopen"}, NEW otherwise \in {"build", "failed"},
             OpenExisting(from, otherwise)
      PROVE  PInv'
  <2> USE <1>1 DEF OpenExisting
  <2>1. TypeOK'
    BY <1>a DEF TypeOK, Files
  <2>2. TempInv' /\ CardInv' /\ OpenInv' /\ BudgetInv'
    BY <1>a DEF TempInv, CardInv, OpenInv, BudgetInv, Files
  <2> QED BY <2>1, <2>2
<1>2. CASE TakeBudget \/ CopyPack
  <2> USE <1>2 DEF TakeBudget, CopyPack, DropCopy
  <2>1. TypeOK'
    <3>1. budget' \in Nat
      BY DEF TypeOK
    <3>2. resident' \in BOOLEAN
      BY DEF TypeOK
    <3>3. pc' \in {"copy", "run"} /\ UNCHANGED <<disk, id, active, healthy, stops>>
      OBVIOUS
    <3> QED BY <3>1, <3>2, <3>3 DEF TypeOK
  <2>2. TempInv' /\ CardInv' /\ OpenInv' /\ BudgetInv'
    BY DEF TypeOK, TempInv, CardInv, OpenInv, BudgetInv
  <2> QED BY <2>1, <2>2
<1>3. CASE DropTemps \/ BuildFails
  <2> USE <1>3 DEF DropTemps, BuildFails
  <2>1. PICK S \in SUBSET Temps : disk' = [n \in Names |-> IF n \in S THEN Absent ELSE disk[n]]
    BY DEF Unlink
  <2>2. disk' \in [Names -> Files]
    BY <2>1, <1>a DEF TypeOK
  <2>3. pack' = pack /\ index' = index
    BY <2>1 DEF Names, Temps
  <2>4. TypeOK' /\ TempInv'
    BY <2>2 DEF TypeOK, TempInv
  <2>5. CardInv' /\ OpenInv' /\ BudgetInv'
    BY <2>3 DEF CardInv, OpenInv, BudgetInv
  <2> QED BY <2>4, <2>5
<1>4. CASE StartPack
  <2> USE <1>4 DEF StartPack
  <2>1. pack' = pack /\ index' = index /\ pc' \in {"data", "failed"} /\ id' \in Ids
    BY DEF Put, TypeOK, Names, Temps, Ids
  <2>2. disk' \in [Names -> Files]
    <3>1. [id |-> id', whole |-> FALSE, good |-> FALSE, safe |-> FALSE] \in Files
      BY <2>1 DEF Files
    <3> QED BY <3>1 DEF Put, TypeOK
  <2>3. TypeOK' /\ TempInv'
    BY <2>1, <2>2 DEF TypeOK, TempInv
  <2> QED BY <2>1, <2>3, InstalledUntouched
<1>5. CASE WriteData \/ WriteHeader \/ SyncPack
  <2> USE <1>5 DEF WriteData, WriteHeader, SyncPack, Step
  <2>1. \/ disk' = disk /\ pc' = "failed"
        \/ /\ disk' = [disk EXCEPT !["pack.tmp"] = disk'["pack.tmp"]] /\ tpack' \in Files
           /\ pc' = "index" => tpack'.safe
           /\ pc' \in {"header", "sync", "index"}
    <3>1. CASE disk' = disk /\ pc' = "failed"
      BY <3>1
    <3>2. CASE /\ pc' \in {"header", "sync"}
               /\ \E v \in BOOLEAN : \/ Put("pack.tmp", [tpack EXCEPT !.good = v])
                                     \/ Put("pack.tmp", [tpack EXCEPT !.whole = v])
      <4>1. PICK f \in Files : Put("pack.tmp", f)
        BY <1>a, <3>2, FileEdit
      <4> QED BY <3>2, <4>1 DEF Put, TypeOK, Names, Temps
    <3>3. CASE pc' = "index" /\ Put("pack.tmp", [tpack EXCEPT !.safe = TRUE])
      BY <1>a, <3>3, FileEdit DEF Put, TypeOK, Names, Temps
    <3> QED BY <3>1, <3>2, <3>3 DEF Stored
  <2>2. pack' = pack /\ index' = index
    BY <2>1 DEF TypeOK, Names, Temps
  <2>3. TypeOK' /\ TempInv'
    BY <2>1 DEF TypeOK, TempInv, Names, Temps
  <2>4. Idle /\ pc \in {"data", "header", "sync"}
    OBVIOUS
  <2> QED BY <2>1, <2>2, <2>3, <2>4, InstalledUntouched
<1>6. CASE WriteIndex \/ SyncIndex
  <2> USE <1>6 DEF WriteIndex, SyncIndex, Step
  <2>1. \/ disk' = disk /\ pc' = "failed"
        \/ /\ disk' = [disk EXCEPT !["index.tmp"] = disk'["index.tmp"]] /\ tindex' \in Files
           /\ pc' = "test" => tindex'.safe
           /\ pc' \in {"syncindex", "test"}
    <3>1. CASE disk' = disk /\ pc' = "failed"
      BY <3>1
    <3>2. ASSUME NEW v \in BOOLEAN, pc' = "syncindex",
                 Put("index.tmp", [id |-> id, whole |-> v, good |-> TRUE, safe |-> FALSE])
          PROVE  /\ disk' = [disk EXCEPT !["index.tmp"] = disk'["index.tmp"]]
                 /\ tindex' \in Files
      <4>1. [id |-> id, whole |-> v, good |-> TRUE, safe |-> FALSE] \in Files
        BY DEF TypeOK, Files
      <4> QED BY <3>2, <4>1 DEF Put, TypeOK, Names, Temps
    <3>3. CASE pc' = "test" /\ Put("index.tmp", [tindex EXCEPT !.safe = TRUE])
      BY <1>a, <3>3, FileEdit DEF Put, TypeOK, Names, Temps
    <3> QED BY <3>1, <3>2, <3>3 DEF Stored
  <2>2. tpack' = tpack /\ pack' = pack /\ index' = index
    BY <2>1 DEF TypeOK, Names, Temps
  <2>3. TypeOK' /\ TempInv'
    BY <2>1, <2>2 DEF TypeOK, TempInv, Names, Temps
  <2>4. Idle /\ pc \in {"index", "syncindex"}
    OBVIOUS
  <2> QED BY <2>1, <2>2, <2>3, <2>4, InstalledUntouched
<1>7. CASE TestPair \/ VerifyData
  <2> USE <1>7 DEF TestPair, VerifyData, DataVerifies
  <2>1. TypeOK' /\ TempInv'
    BY DEF TypeOK, TempInv
  <2>2. CardInv' /\ OpenInv' /\ BudgetInv'
    BY DEF CardInv, OpenInv, BudgetInv
  <2> QED BY <2>1, <2>2
<1>8. CASE UnlinkOld \/ UnlinkIndex
  <2> USE <1>8 DEF UnlinkOld, UnlinkIndex
  <2>1. PICK S \in SUBSET {"pack", "index"} :
          disk' = [n \in Names |-> IF n \in S THEN Absent ELSE disk[n]]
    BY DEF Unlink
  <2>2. disk' \in [Names -> Files]
    BY <2>1, <1>a DEF TypeOK
  <2>3. /\ tpack' = tpack /\ tindex' = tindex
        /\ pack' \in {pack, Absent} /\ index' \in {index, Absent}
    BY <2>1 DEF Names, Temps
  <2>4. TypeOK' /\ TempInv'
    BY <2>2, <2>3 DEF TypeOK, TempInv
  <2>5. CardInv' /\ OpenInv' /\ BudgetInv'
    BY <2>3 DEF CardInv, OpenInv, BudgetInv, Absent
  <2> QED BY <2>4, <2>5
<1>9. CASE Rename("rename", "pack.tmp", "pack", "renameindex")
  <2> USE <1>9 DEF Rename
  <2>1. CASE disk' = [disk EXCEPT !["pack"] = disk["pack.tmp"], !["pack.tmp"] = Absent] /\ pc' = "renameindex"
    <3>1. pack' = tpack /\ tpack' = Absent /\ index' = index /\ tindex' = tindex
      BY <2>1 DEF TypeOK, Names, Temps
    <3>2. TypeOK' /\ TempInv'
      BY <1>a, <2>1, <3>1 DEF TypeOK, TempInv, Names, Temps
    <3>3. CardInv' /\ OpenInv' /\ BudgetInv'
      BY <2>1, <3>1 DEF TempInv, CardInv, OpenInv, BudgetInv
    <3> QED BY <3>2, <3>3
  <2>2. CASE disk' = disk /\ pc' = "failed"
    BY <2>2 DEF TypeOK, TempInv, CardInv, OpenInv, BudgetInv
  <2> QED BY <2>1, <2>2
<1>10. CASE Rename("renameindex", "index.tmp", "index", "reopen")
  <2> USE <1>10 DEF Rename
  <2>1. CASE disk' = [disk EXCEPT !["index"] = disk["index.tmp"], !["index.tmp"] = Absent] /\ pc' = "reopen"
    <3>1. index' = tindex /\ tindex' = Absent /\ pack' = pack /\ tpack' = tpack
      BY <2>1 DEF TypeOK, Names, Temps
    <3>2. TypeOK' /\ TempInv'
      BY <1>a, <2>1, <3>1 DEF TypeOK, TempInv, Names, Temps
    <3>3. CardInv' /\ OpenInv' /\ BudgetInv'
      BY <2>1, <3>1 DEF TempInv, CardInv, OpenInv, BudgetInv
    <3> QED BY <3>2, <3>3
  <2>2. CASE disk' = disk /\ pc' = "failed"
    BY <2>2 DEF TypeOK, TempInv, CardInv, OpenInv, BudgetInv
  <2> QED BY <2>1, <2>2
<1>11. ASSUME NEW left, Restart(left), left["pack"] = pack, left["index"] = index,
              left \in [Names -> Files]
       PROVE  PInv'
  <2> USE <1>11 DEF Restart
  <2>1. pack' = pack /\ index' = index /\ pc' = "boot"
    OBVIOUS
  <2>2. TypeOK'
    <3>1. active' \in Ids /\ budget' \in Nat /\ stops' \in Nat
      BY DEF TypeOK, Ids
    <3> QED BY <3>1 DEF TypeOK
  <2>3. TempInv' /\ CardInv' /\ OpenInv' /\ BudgetInv'
    BY <2>1 DEF TempInv, CardInv, OpenInv, BudgetInv
  <2> QED BY <2>2, <2>3
<1>12. CASE Exit
  BY <1>11, <1>12 DEF Exit, TypeOK
<1>13. CASE Crash
  <2> USE <1>13 DEF Crash
  <2>1. ASSUME NEW f \in Files, NEW g \in Worse(f) PROVE g \in Files
    <3>1. f.whole \in BOOLEAN /\ f.good \in BOOLEAN
      BY DEF Files
    <3>2. \A w \in {FALSE, f.whole}, v \in {FALSE, f.good} :
            [f EXCEPT !.whole = w, !.good = v, !.safe = TRUE] \in Files
      BY <2>1, <3>1, FileEdit
    <3> QED BY <1>a, <2>1, <3>2 DEF Worse
  <2>2. Worse(pack) = {pack} /\ Worse(index) = {index}
    BY DEF CardInv, Worse
  <2>3. PICK p \in Worse(disk["pack.tmp"]), i \in Worse(disk["index.tmp"]) :
          Restart([disk EXCEPT !["pack.tmp"] = p, !["index.tmp"] = i,
                               !["pack"] = pack, !["index"] = index])
    BY <2>2
  <2>4. p \in Files /\ i \in Files
    BY <1>a, <2>1
  <2> DEFINE left == [disk EXCEPT !["pack.tmp"] = p, !["index.tmp"] = i,
                                   !["pack"] = pack, !["index"] = index]
  <2>5. left["pack"] = pack /\ left["index"] = index /\ left \in [Names -> Files]
    BY <1>a, <2>4 DEF TypeOK, Names, Temps
  <2> QED BY <2>3, <2>5, <1>11
<1>14. CASE Recover
  BY <1>14 DEF Recover, TypeOK, TempInv, CardInv, OpenInv, BudgetInv
<1>15. CASE UNCHANGED vars
  BY <1>15 DEF vars, TypeOK, TempInv, CardInv, OpenInv, BudgetInv
<1> QED
  BY <1>1, <1>2, <1>3, <1>4, <1>5, <1>6, <1>7, <1>8, <1>9, <1>10, <1>12, <1>13, <1>14, <1>15
  DEF Next, Boot, Install

(* What each step of main and asset_pack_build has established holds in    *)
(* every state, whatever failed or crashed before it.                      *)
THEOREM PackInvariant == Spec => []PInv
  BY PackInit, PackStep, PTL DEF Spec

(* Every variable keeps its type. *)
THEOREM PackTypes == Spec => []TypeOK
<1>1. PInv => TypeOK
  BY DEF PInv
<1> QED BY <1>1, PackInvariant, PTL

(* A pair that load_pair accepts holds the right data. *)
THEOREM InstalledGood == Spec => []InstalledIsGood
<1>1. PInv => InstalledIsGood
  BY DEF PInv, CardInv, InstalledIsGood
<1> QED BY <1>1, PackInvariant, PTL

(* The open pack stays on the card, with the index of the same build. *)
THEOREM OpenStays == Spec => []OpenPackStays
<1>1. PInv => OpenPackStays
  BY DEF PInv, OpenInv, OpenPackStays
<1> QED BY <1>1, PackInvariant, PTL

(* The budget is charged for the resident pack and nothing else. *)
THEOREM BudgetKept == Spec => []BudgetBalances
<1>1. PInv => BudgetBalances
  BY DEF PInv, TypeOK, BudgetInv, BudgetBalances
<1> QED BY <1>1, PackInvariant, PTL

(* Only the install phase of a build changes the installed files. *)
LEMMA OthersKeepInstalled ==
  ASSUME PInv, [Next]_vars, ~UnlinkOld, ~UnlinkIndex, ~Install
  PROVE  pack' = pack /\ index' = index
<1> USE DEF PInv
<1>1. ASSUME NEW S \in SUBSET Temps,
             disk' = [n \in Names |-> IF n \in S THEN Absent ELSE disk[n]]
      PROVE  pack' = pack /\ index' = index
  BY <1>1 DEF Names, Temps
<1>2. CASE DropTemps \/ BuildFails
  BY <1>1, <1>2 DEF DropTemps, BuildFails, Unlink
<1>3. CASE StartPack \/ WriteData \/ WriteHeader \/ SyncPack \/ WriteIndex \/ SyncIndex
  BY <1>3 DEF StartPack, WriteData, WriteHeader, SyncPack, WriteIndex, SyncIndex, Step, Put, TypeOK,
              Names, Temps
<1>4. CASE TakeBudget \/ CopyPack \/ TestPair \/ VerifyData \/ Exit \/ Recover \/ UNCHANGED vars
  BY <1>4 DEF TakeBudget, CopyPack, TestPair, VerifyData, Exit, Restart, Recover, vars
<1>5. CASE OpenExisting("boot", "build") \/ OpenExisting("reopen", "failed")
  BY <1>5 DEF OpenExisting
<1>6. CASE Crash
  <2>1. Worse(pack) = {pack} /\ Worse(index) = {index}
    BY DEF CardInv, Worse
  <2> QED BY <1>6, <2>1 DEF Crash, Restart, TypeOK, Names, Temps
<1> QED
  BY <1>2, <1>3, <1>4, <1>5, <1>6 DEF Next, Boot

(* A pair that works is given up only for a verified one. *)
THEOREM KeptUntilVerified == Spec => KeepsOldUntilVerified
<1> DEFINE Verified == /\ Accepts(disk["pack.tmp"], disk["index.tmp"])
                    /\ disk["pack.tmp"].good /\ disk["pack.tmp"].safe
<1>1. ASSUME PInv, [Next]_vars, Installed, ~Installed' PROVE Verified
  <2> USE <1>1 DEF PInv
  <2>1. CASE UnlinkOld \/ UnlinkIndex
    BY <2>1 DEF UnlinkOld, UnlinkIndex, TempInv
  <2>2. CASE Rename("rename", "pack.tmp", "pack", "renameindex")
    BY <2>2 DEF Rename, TempInv
  <2>3. CASE Rename("renameindex", "index.tmp", "index", "reopen")
    <3>1. disk' = disk \/ (pack' = pack /\ index' = tindex)
      BY <2>3 DEF Rename, TypeOK, Names, Temps
    <3>2. pc = "renameindex"
      BY <2>3 DEF Rename
    <3> QED BY <1>1, <3>1, <3>2 DEF TempInv
  <2> QED
    BY <1>1, <2>1, <2>2, <2>3, OthersKeepInstalled DEF Install
<1>2. PInv /\ [Next]_vars => [Installed /\ ~Installed' => Verified]_vars
  BY <1>1
<1> QED BY <1>2, PackInvariant, PTL DEF Spec, KeepsOldUntilVerified
=============================================================================
