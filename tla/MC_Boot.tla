------------------------------ MODULE MC_Boot ------------------------------
(* What happens before SDL_main: three parts of the way there, each on its *)
(* own, so that one run covers them.  part says which one a behaviour is   *)
(* about; the other two rest in an initial state.                          *)
EXTENDS PackBuild, Loader, Startup, SmallCard

VARIABLE part

SomeModules == <<"libsndfile.so", "libopenal.so", "libmain.so">>

BootInit ==
  /\ part \in {"pack", "load", "start"}
  /\ Init
  /\ LoaderInit
  /\ part # "load" => shims = {} /\ \A m \in ModuleSet : exports[m] = {}
  /\ StartInit
  /\ part # "start" => card = Roots /\ argv = <<"revoltnx.nro">>

PackPart(A)  == part = "pack" /\ A /\ UNCHANGED <<part, loader, startVars>>
LoadPart(A)  == part = "load" /\ A /\ UNCHANGED <<part, vars, startVars>>
StartPart(A) == part = "start" /\ A /\ UNCHANGED <<part, vars, loader>>

BootNext == PackPart(Next) \/ LoadPart(LoaderNext) \/ StartPart(StartNext)

BootVars == <<part, vars, loader, startVars>>

(* The fairness of PackBuild and of Startup. *)
BootSpec ==
  /\ BootInit /\ [][BootNext]_BootVars
  /\ WF_BootVars(PackPart(Boot))
  /\ WF_BootVars(StartPart(Main))
=============================================================================
