--------------------------- MODULE PluginManager ---------------------------
(***************************************************************************)
(* Core::PluginManager: the plug-ins that are installed are loaded after   *)
(* the plug-ins they depend on, in passes over those that are left, and    *)
(* are unloaded in the reverse order when coreMain ends, by an exception   *)
(* or not.                                                                 *)
(***************************************************************************)
EXTENDS Integers, Sequences

CONSTANTS Plugin,    \* the ids of the plug-ins that are installed
          Id,        \* the ids that descriptors may name
          Version,   \* major versions
          MetaData,  \* what the descriptors may say
          Directory, \* in which orders the directory may list them
          MayFail    \* what may fail: "load", "unload"

Dependency == [id : Id, majorVersion : Version]
PluginInfo == [version : Version, dependencies : Seq(Dependency)]

ASSUME PluginAssumption ==
  /\ Plugin \subseteq Id
  /\ MetaData \subseteq [Plugin -> PluginInfo]
  /\ Directory \subseteq {s \in Seq(Plugin) : Plugin \subseteq {s[k] : k \in DOMAIN s}}
  /\ MayFail \subseteq {"load", "unload"}

VARIABLES
  idToMetaDataMap,
  plugins,          \* those that are not loaded
  i,                \* the place in plugins that the pass looks at next
  lastCountLoaded,
  loadedPlugins,    \* in the order they were loaded; idToPluginLoaderMap has the same
  phase,            \* of coreMain: "loading", "running", "unloading", "done"
  thrown            \* the exception that ended loading

vars == <<idToMetaDataMap, plugins, i, lastCountLoaded, loadedPlugins, phase, thrown>>

(* scanAllPluginsMetaData lists what loadAllPlugins copies. *)
Init ==
  /\ idToMetaDataMap \in MetaData
  /\ plugins \in Directory
  /\ i = 0 /\ lastCountLoaded = -1
  /\ loadedPlugins = <<>>
  /\ phase = "loading" /\ thrown = "none"

Loaded == {loadedPlugins[k] : k \in DOMAIN loadedPlugins}
NotLoaded == {plugins[k] : k \in DOMAIN plugins}
DependenciesOf(p) == idToMetaDataMap[p].dependencies

(* A mistake: a plug-in that is installed will do. *)
IsPluginLoaded_Installed(id) == id \in Plugin

IsPluginLoaded(id) == id \in Loaded

(* A mistake: the versions are not compared. *)
Mismatch_Never(d) == FALSE

Mismatch(d) ==
  IsPluginLoaded(d.id) /\ idToMetaDataMap[d.id].version # d.majorVersion

(* The loop over the dependencies ends with one that is not loaded, or throws. *)
Throws(p) ==
  \E k \in DOMAIN DependenciesOf(p) :
    /\ Mismatch(DependenciesOf(p)[k])
    /\ \A l \in 1..(k - 1) : IsPluginLoaded(DependenciesOf(p)[l].id)

AllDependenciesLoaded(p) ==
  \A k \in DOMAIN DependenciesOf(p) : IsPluginLoaded(DependenciesOf(p)[k].id)

RemovedAt(s, k) == [l \in 1..(Len(s) - 1) |-> IF l < k THEN s[l] ELSE s[l + 1]]

(* Mistakes: one pass only; passes until all are loaded. *)
AnotherPass_First == lastCountLoaded = -1
AnotherPass_Always == plugins # <<>>

(* Some plug-in is left: loadedPlugins is shorter than pluginMetaData. *)
AnotherPass == lastCountLoaded # Len(loadedPlugins) /\ plugins # <<>>

-----------------------------------------------------------------------------
NextPass ==
  /\ phase = "loading" /\ i = 0 /\ AnotherPass
  /\ lastCountLoaded' = Len(loadedPlugins)
  /\ i' = Len(plugins)
  /\ UNCHANGED <<idToMetaDataMap, plugins, loadedPlugins, phase, thrown>>

(* Leaving the block of coreMain destroys the plug-in manager. *)
Throw(what) ==
  /\ thrown' = what /\ phase' = "unloading"
  /\ UNCHANGED <<idToMetaDataMap, plugins, i, lastCountLoaded, loadedPlugins>>

(* One iteration: a version that does not match, a library that does not load, *)
(* dependencies that are not loaded yet, or a plug-in that is loaded.          *)
VersionThrows ==
  /\ phase = "loading" /\ i > 0
  /\ Throws(plugins[i])
  /\ Throw("version")

Load ==
  /\ phase = "loading" /\ i > 0
  /\ ~Throws(plugins[i]) /\ AllDependenciesLoaded(plugins[i])
  /\ loadedPlugins' = Append(loadedPlugins, plugins[i])
  /\ plugins' = RemovedAt(plugins, i)
  /\ i' = i - 1
  /\ UNCHANGED <<idToMetaDataMap, lastCountLoaded, phase, thrown>>

LoadFails ==
  /\ "load" \in MayFail /\ phase = "loading" /\ i > 0
  /\ ~Throws(plugins[i]) /\ AllDependenciesLoaded(plugins[i])
  /\ Throw("library")

Skip ==
  /\ phase = "loading" /\ i > 0
  /\ ~Throws(plugins[i]) /\ ~AllDependenciesLoaded(plugins[i])
  /\ i' = i - 1
  /\ UNCHANGED <<idToMetaDataMap, plugins, lastCountLoaded, loadedPlugins, phase, thrown>>

LoadAllReturns ==
  /\ phase = "loading" /\ i = 0 /\ ~AnotherPass
  /\ phase' = "running"
  /\ UNCHANGED <<idToMetaDataMap, plugins, i, lastCountLoaded, loadedPlugins, thrown>>

(* The event loop ends, or a test was asked for of a plug-in that is not loaded. *)
Exit ==
  /\ phase = "running"
  /\ phase' = "unloading"
  /\ UNCHANGED <<idToMetaDataMap, plugins, i, lastCountLoaded, loadedPlugins, thrown>>

(* A mistake: takeFirst(). *)
Taken_First(s) == Tail(s)

(* What takeLast() leaves. *)
Taken(s) == SubSeq(s, 1, Len(s) - 1)

(* unloadAllPlugins: one plug-in; one that does not unload ends the program. *)
Unload ==
  /\ phase = "unloading" /\ loadedPlugins # <<>>
  /\ loadedPlugins' = Taken(loadedPlugins)
  /\ \/ UNCHANGED phase
     \/ "unload" \in MayFail /\ phase' = "done"
  /\ UNCHANGED <<idToMetaDataMap, plugins, i, lastCountLoaded, thrown>>

UnloadAllReturns ==
  /\ phase = "unloading" /\ loadedPlugins = <<>>
  /\ phase' = "done"
  /\ UNCHANGED <<idToMetaDataMap, plugins, i, lastCountLoaded, loadedPlugins, thrown>>

LoadAllPlugins ==
  NextPass \/ VersionThrows \/ Load \/ LoadFails \/ Skip \/ LoadAllReturns

Next == LoadAllPlugins \/ Exit \/ Unload \/ UnloadAllReturns

Spec == Init /\ [][Next]_vars

(* One thread runs loadAllPlugins and the destructor. *)
FairSpec == Spec /\ WF_vars(LoadAllPlugins) /\ WF_vars(Unload)

-----------------------------------------------------------------------------
TypeOK ==
  /\ idToMetaDataMap \in [Plugin -> PluginInfo]
  /\ plugins \in Seq(Plugin) /\ loadedPlugins \in Seq(Plugin)
  /\ i \in 0..Len(plugins) /\ lastCountLoaded \in Nat \cup {-1}
  /\ phase \in {"loading", "running", "unloading", "done"}
  /\ thrown \in {"none", "version", "library"}
  /\ phase \in {"loading", "running"} => thrown = "none"

(***************************************************************************)
(* PluginManager.h:55: before a plug-in is loaded all its dependencies are *)
(* loaded first, in the version it asks for; they stay as long as it does. *)
(***************************************************************************)
DependenciesFirst ==
  \A k \in DOMAIN loadedPlugins :
    LET dependencies == DependenciesOf(loadedPlugins[k])
    IN  \A d \in DOMAIN dependencies :
          \E l \in 1..(k - 1) :
            /\ loadedPlugins[l] = dependencies[d].id
            /\ idToMetaDataMap[dependencies[d].id].version = dependencies[d].majorVersion

(***************************************************************************)
(* EnvisionPlugin.h:67: when a plug-in is unloaded, no plug-in depends on  *)
(* it.                                                                     *)
(***************************************************************************)
NoneDependsOn(p) ==
  \A q \in Loaded : \A d \in DOMAIN DependenciesOf(q) : DependenciesOf(q)[d].id # p

UnloadedUnused ==
  [][Unload => \A p \in Loaded \ Loaded' : NoneDependsOn(p)']_vars

(* Plug-ins each of which needs another of them, or one that is not installed. *)
BlockEachOther(ps) ==
  \A p \in ps : \E d \in DOMAIN DependenciesOf(p) :
    DependenciesOf(p)[d].id \in ps \/ DependenciesOf(p)[d].id \notin Plugin

Blocked == UNION {ps \in SUBSET Plugin : BlockEachOther(ps)}

(***************************************************************************)
(* loadAllPlugins: in whatever order the directory lists the plug-ins,     *)
(* exactly those are loaded whose dependencies are installed, all the way  *)
(* down and without a cycle.                                               *)
(***************************************************************************)
AllLoadable == phase = "running" => Loaded = Plugin \ Blocked

(***************************************************************************)
(* A version of a dependency that does not match: what the dependencies    *)
(* before it allow to see.                                                 *)
(***************************************************************************)
Refused(p) ==
  \E k \in DOMAIN DependenciesOf(p) :
    /\ \A l \in 1..k : DependenciesOf(p)[l].id \in Plugin \ Blocked
    /\ idToMetaDataMap[DependenciesOf(p)[k].id].version # DependenciesOf(p)[k].majorVersion

(***************************************************************************)
(* PluginManager.cpp:75-78: loading ends with an exception about a version *)
(* if the installed plug-ins do not fit together, whatever the directory's *)
(* order, and never otherwise.                                             *)
(***************************************************************************)
VersionsChecked ==
  /\ phase = "running" => \A p \in Plugin : ~Refused(p)
  /\ thrown = "version" => \E p \in Plugin : Refused(p)

(* The passes end, also if some plug-ins can never be loaded. *)
LoadingEnds == phase = "loading" ~> phase # "loading"
=============================================================================
