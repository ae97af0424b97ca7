----------------------------- MODULE SmallCard -----------------------------
(* A small card for InstallPaths, AssetScan and Startup: the folder of the *)
(* NRO, the first of the fallback folders and the one both are in.  One    *)
(* runtime directory is part of the fingerprint and one is not, and so it  *)
(* is with the probes.                                                     *)
EXTENDS Sequences

Switch == <<"sd", "switch">>
Mine   == Append(Switch, "mine")
Older  == Append(Switch, "revoltnx")

InFolders(dirs, leaves) == {Append(d, l) : d \in dirs, l \in leaves}

Libs  == {"libmain.so", "libopenal.so"}
Data  == {<<"cars">>, <<"levels">>, <<"levels", "frontend">>, <<"levels", "nhood1">>,
          <<"shaders">>, <<"cups">>}
Under(dir, ps) == {dir \o p : p \in ps}

Roots == {<<"sd">>, Switch, Mine}

WithLibs(dir) == {dir} \cup InFolders({dir}, Libs)
LibLayouts ==
  {{}, WithLibs(Mine), WithLibs(Append(Mine, "lib")),
   {Older} \cup WithLibs(Append(Older, "lib"))}
DataLayouts ==
  {{}, Under(Mine, Data),
   {Append(Mine, "stuff")} \cup Under(Append(Mine, "stuff"), Data),
   {Append(Mine, "rvgl")} \cup Under(Append(Mine, "rvgl"), Data \ {<<"cups">>}),
   {Older, Append(Older, "rvgl")} \cup Under(Append(Older, "rvgl"), Data)}

SomeCards == {Roots \cup l \cup d : l \in LibLayouts, d \in DataLayouts}
SomeArgvs == {Append(Mine, "revoltnx.nro"), <<"revoltnx.nro">>}
SomeWares == Under(Append(Mine, "rvgl"), {<<"cups">>, <<"levels", "frontend">>, <<"shaders">>})
             \cup {Append(Mine, "cups"), Append(Append(Mine, "lib"), "libopenal.so")}
SomeMoves == {<<Append(Mine, "stuff"), Append(Mine, "rvgl")>>,
              <<Append(Mine, "rvgl"), Append(Mine, "stuff")>>}

SomeFallbacks   == <<Older, Switch>>
SomeSearchRoots == <<Switch, <<"sd">>>>
SomeFolders     == <<"rvgl">>
SomeRuntimeDirs == {<<"profiles">>, <<"packs">>}
SomeRvgl  == {<<"shaders">>, <<"cups">>}
SomeGame  == {<<"levels", "frontend">>}
SomePacks == {<<"packs">>}
SomeDirs  == {"cars", "levels", "shaders", "packs"}
SomeLevels == {"frontend", "nhood1"}
=============================================================================
