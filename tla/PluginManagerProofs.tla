------------------------ MODULE PluginManagerProofs ------------------------
(***************************************************************************)
(* What PluginManager guarantees for any plug-ins, descriptors and order   *)
(* of the directory.                                                       *)
(***************************************************************************)
EXTENDS PluginManager, TLAPS

(* While plug-ins are loaded, each is loaded or left. *)
AllListed == phase \in {"loading", "running"} => Plugin \subseteq Loaded \cup NotLoaded

(* A plug-in that nothing can be done for, now. *)
Waits(p) == ~Throws(p) /\ ~AllDependenciesLoaded(p)

(* A pass that has loaded nothing so far has seen only plug-ins that wait. *)
PassKnows ==
  /\ lastCountLoaded <= Len(loadedPlugins)
  /\ phase = "loading" /\ lastCountLoaded = Len(loadedPlugins)
       => \A k \in (i + 1)..Len(plugins) : Waits(plugins[k])
  /\ phase = "running" => \A p \in NotLoaded : Waits(p)

(* No loaded plug-in is one of several that block each other. *)
NoneBlocked == Loaded \cap Blocked = {}

Reported == thrown = "version" => \E p \in Plugin : Refused(p)

IInv ==
  /\ TypeOK
  /\ DependenciesFirst
  /\ AllListed
  /\ phase \in {"loading", "running"} => PassKnows
  /\ NoneBlocked
  /\ Reported

-----------------------------------------------------------------------------
(* What is left of a list, and what was taken. *)
LEMMA RemovedAtType ==
  ASSUME NEW S, NEW s \in Seq(S), NEW k \in 1..Len(s)
  PROVE  /\ RemovedAt(s, k) \in Seq(S)
         /\ Len(RemovedAt(s, k)) = Len(s) - 1
         /\ \A l \in DOMAIN s : l # k => \E n \in DOMAIN RemovedAt(s, k) : RemovedAt(s, k)[n] = s[l]
<1> DEFINE r == RemovedAt(s, k)
<1>1. Len(s) \in Nat /\ Len(s) - 1 \in Nat /\ DOMAIN s = 1..Len(s)
  OBVIOUS
<1>2. r = [l \in 1..(Len(s) - 1) |-> IF l < k THEN s[l] ELSE s[l + 1]]
  BY DEF RemovedAt
<1>3. ASSUME NEW l \in 1..(Len(s) - 1) PROVE r[l] \in S
  BY <1>1, <1>2
<1>4. r \in Seq(S) /\ Len(r) = Len(s) - 1
  BY <1>1, <1>2, <1>3
<1>5. ASSUME NEW l \in DOMAIN s, l # k
      PROVE  \E n \in DOMAIN r : r[n] = s[l]
  <2>1. CASE l < k
    <3>1. l \in 1..(Len(s) - 1)
      BY <1>1, <2>1
    <3>2. r[l] = s[l]
      BY <1>2, <2>1, <3>1
    <3> QED BY <1>2, <3>1, <3>2
  <2>2. CASE l > k
    <3>1. l - 1 \in 1..(Len(s) - 1) /\ ~(l - 1 < k) /\ (l - 1) + 1 = l
      BY <1>1, <2>2
    <3>2. r[l - 1] = s[l]
      BY <1>2, <3>1
    <3> QED BY <1>2, <3>1, <3>2
  <2> QED BY <1>1, <1>5, <2>1, <2>2
<1> QED BY <1>4, <1>5

LEMMA LoadStep ==
  ASSUME TypeOK, Load
  PROVE  /\ plugins[i] \in Plugin
         /\ loadedPlugins' \in Seq(Plugin) /\ Len(loadedPlugins') = Len(loadedPlugins) + 1
         /\ \A k \in DOMAIN loadedPlugins : loadedPlugins'[k] = loadedPlugins[k]
         /\ loadedPlugins'[Len(loadedPlugins) + 1] = plugins[i]
         /\ Loaded' = Loaded \cup {plugins[i]}
         /\ plugins' \in Seq(Plugin) /\ Len(plugins') = Len(plugins) - 1
         /\ NotLoaded \subseteq NotLoaded' \cup {plugins[i]}
<1> DEFINE p == plugins[i]
<1>1. plugins \in Seq(Plugin) /\ loadedPlugins \in Seq(Plugin) /\ i \in 1..Len(plugins)
  BY DEF TypeOK, Load
<1>2. p \in Plugin
  BY <1>1
<1>3. loadedPlugins' = Append(loadedPlugins, p) /\ plugins' = RemovedAt(plugins, i)
  BY DEF Load
<1>4. /\ loadedPlugins' \in Seq(Plugin) /\ Len(loadedPlugins') = Len(loadedPlugins) + 1
      /\ \A k \in DOMAIN loadedPlugins : loadedPlugins'[k] = loadedPlugins[k]
      /\ loadedPlugins'[Len(loadedPlugins) + 1] = p
  BY <1>1, <1>2, <1>3
<1>5. Loaded' = Loaded \cup {p}
  <2>1. DOMAIN loadedPlugins' = DOMAIN loadedPlugins \cup {Len(loadedPlugins) + 1}
    BY <1>1, <1>4
  <2> QED BY <1>4, <2>1 DEF Loaded
<1>6. plugins' \in Seq(Plugin) /\ Len(plugins') = Len(plugins) - 1
  BY <1>1, <1>3, RemovedAtType
<1>7. NotLoaded \subseteq NotLoaded' \cup {p}
  <2>1. \A l \in DOMAIN plugins : l # i => \E n \in DOMAIN plugins' : plugins'[n] = plugins[l]
    BY <1>1, <1>3, RemovedAtType
  <2> QED BY <2>1 DEF NotLoaded
<1> QED BY <1>2, <1>4, <1>5, <1>6, <1>7

LEMMA UnloadStep ==
  ASSUME TypeOK, Unload
  PROVE  /\ loadedPlugins' \in Seq(Plugin) /\ Len(loadedPlugins) > 0
         /\ DOMAIN loadedPlugins' = 1..(Len(loadedPlugins) - 1)
         /\ \A k \in DOMAIN loadedPlugins' :
              k \in DOMAIN loadedPlugins /\ loadedPlugins'[k] = loadedPlugins[k]
         /\ Loaded' \subseteq Loaded
<1>1. loadedPlugins \in Seq(Plugin) /\ loadedPlugins # <<>>
  BY DEF TypeOK, Unload
<1>2. loadedPlugins' = SubSeq(loadedPlugins, 1, Len(loadedPlugins) - 1)
  BY DEF Unload, Taken
<1>3. Len(loadedPlugins) \in Nat /\ Len(loadedPlugins) > 0 /\ DOMAIN loadedPlugins = 1..Len(loadedPlugins)
  BY <1>1
<1>4. /\ loadedPlugins' \in Seq(Plugin)
      /\ DOMAIN loadedPlugins' = 1..(Len(loadedPlugins) - 1)
      /\ \A k \in 1..(Len(loadedPlugins) - 1) : loadedPlugins'[k] = loadedPlugins[k]
  BY <1>1, <1>2, <1>3
<1>5. \A k \in DOMAIN loadedPlugins' :
        k \in DOMAIN loadedPlugins /\ loadedPlugins'[k] = loadedPlugins[k]
  BY <1>3, <1>4
<1>6. Loaded' \subseteq Loaded
  BY <1>5 DEF Loaded
<1> QED BY <1>3, <1>4, <1>5, <1>6

(* What the descriptors say alone stays. *)
LEMMA BlockedStays ==
  ASSUME UNCHANGED idToMetaDataMap
  PROVE  /\ Blocked' = Blocked
         /\ \A p \in Plugin : Refused(p)' = Refused(p)
         /\ \A p \in Plugin : DependenciesOf(p)' = DependenciesOf(p)
<1>1. \A p : DependenciesOf(p)' = DependenciesOf(p)
  BY DEF DependenciesOf
<1>2. Blocked' = Blocked
  BY <1>1 DEF Blocked, BlockEachOther
<1>3. \A p : Refused(p)' = Refused(p)
  BY <1>1, <1>2 DEF Refused
<1> QED BY <1>1, <1>2, <1>3

(* With the same plug-ins loaded, the same is missing. *)
LEMMA WaitsStays ==
  ASSUME UNCHANGED <<idToMetaDataMap, loadedPlugins>>
  PROVE  Loaded' = Loaded /\ \A p \in Plugin : Waits(p)' = Waits(p)
<1>1. Loaded' = Loaded
  BY DEF Loaded
<1>2. \A p : DependenciesOf(p)' = DependenciesOf(p)
  BY DEF DependenciesOf
<1>3. \A dep : Mismatch(dep)' = Mismatch(dep)
  BY <1>1 DEF Mismatch, IsPluginLoaded
<1>4. \A p : Throws(p)' = Throws(p) /\ AllDependenciesLoaded(p)' = AllDependenciesLoaded(p)
  BY <1>1, <1>2, <1>3 DEF Throws, AllDependenciesLoaded, IsPluginLoaded
<1>5. \A p : Waits(p)' = Waits(p)
  BY <1>4 DEF Waits
<1> QED BY <1>1, <1>5

(* A plug-in that can be loaded has all it needs, in the right version. *)
LEMMA ReadyToLoad ==
  ASSUME NEW p \in Plugin, TypeOK, AllDependenciesLoaded(p), ~Throws(p)
  PROVE  \A k \in DOMAIN DependenciesOf(p) :
           /\ DependenciesOf(p)[k].id \in Loaded
           /\ idToMetaDataMap[DependenciesOf(p)[k].id].version = DependenciesOf(p)[k].majorVersion
<1> SUFFICES ASSUME NEW k \in DOMAIN DependenciesOf(p)
             PROVE  /\ DependenciesOf(p)[k].id \in Loaded
                    /\ idToMetaDataMap[DependenciesOf(p)[k].id].version = DependenciesOf(p)[k].majorVersion
  OBVIOUS
<1>1. DependenciesOf(p) \in Seq(Dependency)
  BY DEF TypeOK, PluginInfo, DependenciesOf
<1>2. \A l \in DOMAIN DependenciesOf(p) : IsPluginLoaded(DependenciesOf(p)[l].id)
  BY DEF AllDependenciesLoaded
<1>3. 1..(k - 1) \subseteq DOMAIN DependenciesOf(p)
  BY <1>1
<1>4. ~Mismatch(DependenciesOf(p)[k])
  BY <1>2, <1>3 DEF Throws
<1> QED BY <1>2, <1>4 DEF Mismatch, IsPluginLoaded

-----------------------------------------------------------------------------
LEMMA InitIInv == Init => IInv
<1> SUFFICES ASSUME Init PROVE IInv
  OBVIOUS
<1>1. idToMetaDataMap \in [Plugin -> PluginInfo]
  BY PluginAssumption DEF Init
<1>2. plugins \in Seq(Plugin) /\ Plugin \subseteq NotLoaded
  BY PluginAssumption DEF Init, NotLoaded
<1>3. TypeOK
  BY <1>1, <1>2 DEF Init, TypeOK
<1>4. Loaded = {} /\ Len(loadedPlugins) = 0
  BY DEF Init, Loaded
<1>5. DependenciesFirst
  BY DEF Init, DependenciesFirst
<1>6. AllListed
  BY <1>2 DEF AllListed
<1>7. PassKnows
  BY <1>4 DEF Init, PassKnows
<1>8. NoneBlocked /\ Reported
  BY <1>4 DEF Init, NoneBlocked, Reported
<1> QED BY <1>3, <1>5, <1>6, <1>7, <1>8 DEF IInv

LEMMA NextTypeOK ==
  ASSUME TypeOK, [Next]_vars
  PROVE  TypeOK'
<1>1. CASE NextPass
  BY <1>1 DEF TypeOK, NextPass
<1>2. CASE VersionThrows
  BY <1>2 DEF TypeOK, VersionThrows, Throw
<1>3. CASE Load
  <2>1. /\ loadedPlugins' \in Seq(Plugin) /\ plugins' \in Seq(Plugin)
        /\ Len(plugins') = Len(plugins) - 1
    BY <1>3, LoadStep
  <2>2. i' \in 0..Len(plugins')
    BY <1>3, <2>1 DEF TypeOK, Load
  <2> QED BY <1>3, <2>1, <2>2 DEF TypeOK, Load
<1>4. CASE LoadFails
  BY <1>4 DEF TypeOK, LoadFails, Throw
<1>5. CASE Skip
  BY <1>5 DEF TypeOK, Skip
<1>6. CASE LoadAllReturns
  BY <1>6 DEF TypeOK, LoadAllReturns
<1>7. CASE Exit
  BY <1>7 DEF TypeOK, Exit
<1>8. CASE Unload
  <2>1. loadedPlugins' \in Seq(Plugin)
    BY <1>8, UnloadStep
  <2> QED BY <1>8, <2>1 DEF TypeOK, Unload
<1>9. CASE UnloadAllReturns
  BY <1>9 DEF TypeOK, UnloadAllReturns
<1>10. CASE UNCHANGED vars
  BY <1>10 DEF TypeOK, vars
<1> QED BY <1>1, <1>2, <1>3, <1>4, <1>5, <1>6, <1>7, <1>8, <1>9, <1>10 DEF Next, LoadAllPlugins

(* Descriptors are read once; loadedPlugins changes at its end only. *)
LEMMA DescriptorsKept ==
  ASSUME [Next]_vars
  PROVE  /\ UNCHANGED idToMetaDataMap
         /\ Load \/ Unload \/ UNCHANGED loadedPlugins
BY DEF Next, LoadAllPlugins, NextPass, VersionThrows, Load, LoadFails, Skip, LoadAllReturns, Exit, Unload,
       UnloadAllReturns, Throw, vars

LEMMA NextDependenciesFirst ==
  ASSUME TypeOK, DependenciesFirst, [Next]_vars
  PROVE  DependenciesFirst'
<1>1. idToMetaDataMap' = idToMetaDataMap /\ \A p : DependenciesOf(p)' = DependenciesOf(p)
  BY DescriptorsKept DEF DependenciesOf
<1> SUFFICES ASSUME NEW k \in DOMAIN loadedPlugins', NEW n \in DOMAIN DependenciesOf(loadedPlugins'[k])
             PROVE  \E l \in 1..(k - 1) :
                      /\ loadedPlugins'[l] = DependenciesOf(loadedPlugins'[k])[n].id
                      /\ idToMetaDataMap[DependenciesOf(loadedPlugins'[k])[n].id].version
                           = DependenciesOf(loadedPlugins'[k])[n].majorVersion
  BY <1>1 DEF DependenciesFirst
<1> DEFINE dep == DependenciesOf(loadedPlugins'[k])[n]
<1>2. loadedPlugins \in Seq(Plugin)
  BY DEF TypeOK
<1>3. ASSUME k \in DOMAIN loadedPlugins, \A l \in 1..k : loadedPlugins'[l] = loadedPlugins[l]
      PROVE  \E l \in 1..(k - 1) : loadedPlugins'[l] = dep.id
                                  /\ idToMetaDataMap[dep.id].version = dep.majorVersion
  <2>1. loadedPlugins'[k] = loadedPlugins[k] /\ 1..(k - 1) \subseteq 1..k
    BY <1>2, <1>3
  <2>2. \E l \in 1..(k - 1) : loadedPlugins[l] = dep.id
                             /\ idToMetaDataMap[dep.id].version = dep.majorVersion
    BY <1>3, <2>1 DEF DependenciesFirst
  <2> QED BY <1>3, <2>1, <2>2
<1>4. CASE UNCHANGED loadedPlugins
  BY <1>3, <1>4
<1>5. CASE Unload
  <2>1. k \in DOMAIN loadedPlugins /\ 1..k \subseteq DOMAIN loadedPlugins'
    BY <1>2, <1>5, UnloadStep
  <2> QED BY <1>3, <1>5, <2>1, UnloadStep
<1>6. CASE Load
  <2>1. /\ loadedPlugins' \in Seq(Plugin) /\ Len(loadedPlugins') = Len(loadedPlugins) + 1
        /\ \A l \in DOMAIN loadedPlugins : loadedPlugins'[l] = loadedPlugins[l]
        /\ loadedPlugins'[Len(loadedPlugins) + 1] = plugins[i] /\ plugins[i] \in Plugin
    BY <1>6, LoadStep
  <2>2. CASE k \in DOMAIN loadedPlugins
    <3>1. 1..k \subseteq DOMAIN loadedPlugins
      BY <1>2, <2>2
    <3> QED BY <1>3, <2>1, <2>2, <3>1
  <2>3. CASE k = Len(loadedPlugins) + 1
    <3>1. n \in DOMAIN DependenciesOf(plugins[i]) /\ dep = DependenciesOf(plugins[i])[n]
      BY <2>1, <2>3
    <3>2. dep.id \in Loaded /\ idToMetaDataMap[dep.id].version = dep.majorVersion
      BY <1>6, <2>1, <3>1, ReadyToLoad DEF Load
    <3>3. PICK l \in DOMAIN loadedPlugins : loadedPlugins[l] = dep.id
      BY <3>2 DEF Loaded
    <3>4. l \in 1..(k - 1)
      BY <1>2, <2>3
    <3> QED BY <2>1, <3>2, <3>3, <3>4
  <2>4. k \in DOMAIN loadedPlugins \/ k = Len(loadedPlugins) + 1
    BY <1>2, <2>1
  <2> QED BY <2>2, <2>3, <2>4
<1> QED BY <1>4, <1>5, <1>6, DescriptorsKept

LEMMA NextAllListed ==
  ASSUME TypeOK, AllListed, [Next]_vars
  PROVE  AllListed'
<1> SUFFICES ASSUME phase' \in {"loading", "running"}
             PROVE  Plugin \subseteq Loaded' \cup NotLoaded'
  BY DEF AllListed
<1>1. CASE Load
  <2>1. Loaded' = Loaded \cup {plugins[i]} /\ NotLoaded \subseteq NotLoaded' \cup {plugins[i]}
    BY <1>1, LoadStep
  <2>2. Plugin \subseteq Loaded \cup NotLoaded
    BY <1>1 DEF AllListed, Load
  <2> QED BY <2>1, <2>2
<1>2. CASE UNCHANGED <<plugins, loadedPlugins>> /\ phase \in {"loading", "running"}
  BY <1>2 DEF AllListed, Loaded, NotLoaded
<1>3. Load \/ (UNCHANGED <<plugins, loadedPlugins>> /\ phase \in {"loading", "running"})
  BY DEF Next, LoadAllPlugins, NextPass, VersionThrows, Load, LoadFails, Skip, LoadAllReturns, Exit, Unload,
         UnloadAllReturns, Throw, vars
<1> QED BY <1>1, <1>2, <1>3

LEMMA NextPassKnows ==
  ASSUME TypeOK, [Next]_vars, phase \in {"loading", "running"} => PassKnows,
         phase' \in {"loading", "running"}
  PROVE  PassKnows'
<1>1. /\ plugins \in Seq(Plugin) /\ loadedPlugins \in Seq(Plugin)
      /\ i \in 0..Len(plugins) /\ lastCountLoaded \in Nat \cup {-1}
  BY DEF TypeOK
<1>2. \A k \in DOMAIN plugins : plugins[k] \in Plugin
  BY <1>1
<1>3. NotLoaded \subseteq Plugin
  BY <1>2 DEF NotLoaded
<1>4. Load \/ UNCHANGED loadedPlugins
  BY DEF Next, LoadAllPlugins, NextPass, VersionThrows, Load, LoadFails, Skip, LoadAllReturns, Exit, Unload,
         UnloadAllReturns, Throw, vars
<1>5. UNCHANGED loadedPlugins => \A p \in Plugin : Waits(p)' = Waits(p)
  BY WaitsStays, DescriptorsKept
<1>6. CASE NextPass
  <2>1. phase' = "loading" /\ lastCountLoaded' = Len(loadedPlugins') /\ i' = Len(plugins')
    BY <1>6 DEF NextPass
  <2>2. (i' + 1)..Len(plugins') = {}
    BY <1>1, <1>6, <2>1 DEF NextPass
  <2> QED BY <1>1, <1>6, <2>1, <2>2 DEF PassKnows, NextPass
<1>7. CASE Load
  <2>1. Len(loadedPlugins') = Len(loadedPlugins) + 1
    BY <1>7, LoadStep
  <2>2. lastCountLoaded' <= Len(loadedPlugins)
    BY <1>7 DEF Load, PassKnows
  <2>3. phase' = "loading" /\ lastCountLoaded' \in Nat \cup {-1}
    BY <1>1, <1>7 DEF Load
  <2>4. lastCountLoaded' <= Len(loadedPlugins') /\ lastCountLoaded' # Len(loadedPlugins')
    BY <1>1, <2>1, <2>2, <2>3
  <2> QED BY <2>3, <2>4 DEF PassKnows
<1>8. CASE Skip
  <2>1. phase = "loading" /\ phase' = "loading" /\ i \in 1..Len(plugins) /\ i' = i - 1
        /\ UNCHANGED <<plugins, loadedPlugins, lastCountLoaded>>
    BY <1>1, <1>8 DEF Skip
  <2>2. Waits(plugins[i])
    BY <1>8 DEF Skip, Waits
  <2>3. ASSUME lastCountLoaded = Len(loadedPlugins), NEW k \in i..Len(plugins)
        PROVE  Waits(plugins[k])'
    <3>1. k = i \/ k \in (i + 1)..Len(plugins)
      BY <1>1, <2>1
    <3>2. Waits(plugins[k])
      BY <2>1, <2>2, <2>3, <3>1 DEF PassKnows
    <3>3. plugins[k] \in Plugin /\ plugins'[k] = plugins[k]
      BY <1>1, <1>2, <2>1
    <3>4. Waits(plugins[k])' = Waits(plugins[k])
      BY <1>5, <2>1, <3>3 DEF Waits, Throws, AllDependenciesLoaded, DependenciesOf, Mismatch, IsPluginLoaded, Loaded
    <3> QED BY <3>2, <3>4
  <2>4. (i' + 1)..Len(plugins') = i..Len(plugins)
    BY <1>1, <2>1
  <2>5. lastCountLoaded' <= Len(loadedPlugins')
    BY <2>1 DEF PassKnows
  <2> QED BY <2>1, <2>3, <2>4, <2>5 DEF PassKnows
<1>9. CASE LoadAllReturns
  <2>1. phase = "loading" /\ phase' = "running" /\ i = 0 /\ ~AnotherPass
        /\ UNCHANGED <<plugins, loadedPlugins, lastCountLoaded, idToMetaDataMap>>
    BY <1>9 DEF LoadAllReturns
  <2>2. \A p \in NotLoaded : Waits(p)
    <3>1. CASE plugins = <<>>
      BY <3>1 DEF NotLoaded
    <3>2. CASE lastCountLoaded = Len(loadedPlugins)
      <4>1. DOMAIN plugins = (i + 1)..Len(plugins)
        BY <1>1, <2>1
      <4> QED BY <2>1, <3>2, <4>1 DEF PassKnows, NotLoaded
    <3> QED BY <2>1, <3>1, <3>2 DEF AnotherPass
  <2>3. NotLoaded' = NotLoaded
    BY <2>1 DEF NotLoaded
  <2>4. \A p \in NotLoaded' : Waits(p)'
    BY <1>3, <1>5, <2>1, <2>2, <2>3
  <2>5. lastCountLoaded' <= Len(loadedPlugins')
    BY <2>1 DEF PassKnows
  <2> QED BY <2>1, <2>4, <2>5 DEF PassKnows
<1>10. CASE UNCHANGED vars
  <2>1. UNCHANGED <<idToMetaDataMap, plugins, i, lastCountLoaded, loadedPlugins, phase>>
    BY <1>10 DEF vars
  <2>2. PassKnows
    BY <2>1
  <2>3. NotLoaded' = NotLoaded
    BY <2>1 DEF NotLoaded
  <2>4. \A p \in Plugin : Waits(p)' = Waits(p)
    BY <1>5, <2>1
  <2>5. (\A p \in NotLoaded : Waits(p)) => \A p \in NotLoaded' : Waits(p)'
    BY <1>3, <2>3, <2>4
  <2>6. ASSUME NEW k \in (i + 1)..Len(plugins), Waits(plugins[k]) PROVE Waits(plugins[k])'
    <3>1. k \in DOMAIN plugins
      BY <1>1
    <3> QED BY <1>2, <2>1, <2>4, <2>6, <3>1 DEF Waits, Throws, AllDependenciesLoaded, DependenciesOf, Mismatch, IsPluginLoaded, Loaded
  <2> QED BY <2>1, <2>2, <2>5, <2>6 DEF PassKnows
<1> QED BY <1>6, <1>7, <1>8, <1>9, <1>10
        DEF Next, LoadAllPlugins, VersionThrows, LoadFails, Exit, Unload, UnloadAllReturns, Throw

(***************************************************************************)
(* A plug-in that is loaded has its dependencies loaded; if it belonged to *)
(* plug-ins that block each other, so did one of these.                    *)
(***************************************************************************)
LEMMA NextNoneBlocked ==
  ASSUME TypeOK, NoneBlocked, [Next]_vars
  PROVE  NoneBlocked'
<1>1. Blocked' = Blocked
  BY BlockedStays, DescriptorsKept
<1>2. CASE UNCHANGED loadedPlugins
  BY <1>1, <1>2 DEF NoneBlocked, Loaded
<1>3. CASE Unload
  BY <1>1, <1>3, UnloadStep DEF NoneBlocked
<1>4. CASE Load
  <2> DEFINE p == plugins[i]
  <2>1. p \in Plugin /\ Loaded' = Loaded \cup {p}
    BY <1>4, LoadStep
  <2>2. \A k \in DOMAIN DependenciesOf(p) : DependenciesOf(p)[k].id \in Loaded
    BY <1>4, <2>1, ReadyToLoad DEF Load
  <2>3. Loaded \subseteq Plugin
    BY DEF TypeOK, Loaded
  <2>4. ASSUME NEW ps \in SUBSET Plugin, BlockEachOther(ps), p \in ps PROVE FALSE
    <3>1. PICK k \in DOMAIN DependenciesOf(p) :
            DependenciesOf(p)[k].id \in ps \/ DependenciesOf(p)[k].id \notin Plugin
      BY <2>4 DEF BlockEachOther
    <3>2. DependenciesOf(p)[k].id \in Loaded /\ DependenciesOf(p)[k].id \in ps
      BY <2>2, <2>3, <3>1
    <3>3. DependenciesOf(p)[k].id \in Blocked
      BY <2>4, <3>2 DEF Blocked
    <3> QED BY <3>2, <3>3 DEF NoneBlocked
  <2>5. p \notin Blocked
    BY <2>4 DEF Blocked
  <2> QED BY <1>1, <2>1, <2>5 DEF NoneBlocked
<1> QED BY <1>2, <1>3, <1>4, DescriptorsKept

LEMMA NextReported ==
  ASSUME TypeOK, NoneBlocked, Reported, [Next]_vars
  PROVE  Reported'
<1>1. \A p \in Plugin : Refused(p)' = Refused(p)
  BY BlockedStays, DescriptorsKept
<1>2. CASE UNCHANGED thrown \/ LoadFails
  BY <1>1, <1>2 DEF Reported, LoadFails, Throw
<1>3. CASE VersionThrows
  <2> DEFINE p == plugins[i]
  <2>1. p \in Plugin /\ Throws(p)
    BY <1>3 DEF VersionThrows, TypeOK
  <2>2. PICK k \in DOMAIN DependenciesOf(p) :
          /\ Mismatch(DependenciesOf(p)[k])
          /\ \A l \in 1..(k - 1) : IsPluginLoaded(DependenciesOf(p)[l].id)
    BY <2>1 DEF Throws
  <2>3. Loaded \subseteq Plugin \ Blocked
    BY DEF NoneBlocked, TypeOK, Loaded
  <2>4. DependenciesOf(p) \in Seq(Dependency)
    BY <2>1 DEF TypeOK, PluginInfo, DependenciesOf
  <2>5. \A l \in 1..k : l = k \/ l \in 1..(k - 1)
    BY <2>4
  <2>6. \A l \in 1..k : DependenciesOf(p)[l].id \in Plugin \ Blocked
    BY <2>2, <2>3, <2>5 DEF Mismatch, IsPluginLoaded
  <2>7. Refused(p)
    BY <2>2, <2>6 DEF Refused, Mismatch
  <2> QED BY <1>1, <2>1, <2>7 DEF Reported
<1> QED BY <1>2, <1>3
        DEF Next, LoadAllPlugins, NextPass, Load, Skip, LoadAllReturns, Exit, Unload, UnloadAllReturns, vars

-----------------------------------------------------------------------------
(* The invariant that the theorems rest on.                                 *)
THEOREM LoadingInvariant == Spec => []IInv
<1>1. IInv /\ [Next]_vars => IInv'
  BY NextTypeOK, NextDependenciesFirst, NextAllListed, NextPassKnows, NextNoneBlocked, NextReported DEF IInv
<1> QED BY InitIInv, <1>1, PTL DEF Spec

(* Every variable keeps its type, through failures and unloading.           *)
THEOREM TypeCorrect == Spec => []TypeOK
<1>1. IInv => TypeOK
  BY DEF IInv
<1> QED BY LoadingInvariant, <1>1, PTL

(* A loaded plug-in finds its dependencies loaded before it, in the version *)
(* it asks for, at any time: also while others are unloaded.                *)
THEOREM DependenciesAreFirst == Spec => []DependenciesFirst
<1>1. IInv => DependenciesFirst
  BY DEF IInv
<1> QED BY LoadingInvariant, <1>1, PTL

(* What is loaded after the passes.                                         *)
LEMMA LoadedAtEnd ==
  ASSUME IInv, phase = "running"
  PROVE  Loaded = Plugin \ Blocked
<1>1. Loaded \subseteq Plugin
  BY DEF IInv, TypeOK, Loaded
<1>2. Loaded \cap Blocked = {}
  BY DEF IInv, NoneBlocked
<1>3. \A p \in Plugin \ Loaded : Waits(p)
  BY DEF IInv, AllListed, PassKnows
<1>4. BlockEachOther(Plugin \ Loaded)
  BY <1>3 DEF BlockEachOther, Waits, AllDependenciesLoaded, IsPluginLoaded
<1>5. Plugin \ Loaded \subseteq Blocked
  BY <1>4 DEF Blocked
<1> QED BY <1>1, <1>2, <1>5

(* Whatever the order of the directory, exactly the plug-ins are loaded     *)
(* whose dependencies are there, all the way down and without a cycle.      *)
THEOREM AllLoadableAreLoaded == Spec => []AllLoadable
<1>1. IInv => AllLoadable
  BY LoadedAtEnd DEF AllLoadable
<1> QED BY LoadingInvariant, <1>1, PTL

(* Loading fails for a version if and only if the descriptors do not fit.   *)
THEOREM VersionsAreChecked == Spec => []VersionsChecked
<1>1. ASSUME IInv PROVE VersionsChecked
  <2>1. ASSUME phase = "running", NEW p \in Plugin, Refused(p) PROVE FALSE
    <3>1. PICK k \in DOMAIN DependenciesOf(p) :
            /\ \A l \in 1..k : DependenciesOf(p)[l].id \in Plugin \ Blocked
            /\ idToMetaDataMap[DependenciesOf(p)[k].id].version # DependenciesOf(p)[k].majorVersion
      BY <2>1 DEF Refused
    <3>2. \A l \in 1..k : IsPluginLoaded(DependenciesOf(p)[l].id)
      BY <1>1, <2>1, <3>1, LoadedAtEnd DEF IsPluginLoaded
    <3>3. DependenciesOf(p) \in Seq(Dependency)
      BY <1>1 DEF IInv, TypeOK, PluginInfo, DependenciesOf
    <3>4. k \in 1..k /\ 1..(k - 1) \subseteq 1..k
      BY <3>3
    <3>5. Throws(p)
      BY <3>1, <3>2, <3>4 DEF Throws, Mismatch
    <3>6. CASE p \in Loaded
      <4>1. PICK n \in DOMAIN loadedPlugins : loadedPlugins[n] = p
        BY <3>6 DEF Loaded
      <4>2. idToMetaDataMap[DependenciesOf(p)[k].id].version = DependenciesOf(p)[k].majorVersion
        BY <1>1, <4>1 DEF IInv, DependenciesFirst
      <4> QED BY <3>1, <4>2
    <3>7. CASE p \notin Loaded
      BY <1>1, <2>1, <3>5, <3>7 DEF IInv, AllListed, PassKnows, Waits
    <3> QED BY <3>6, <3>7
  <2>2. thrown = "version" => \E p \in Plugin : Refused(p)
    BY <1>1 DEF IInv, Reported
  <2> QED BY <2>1, <2>2 DEF VersionsChecked
<1>2. IInv => VersionsChecked
  BY <1>1
<1> QED BY LoadingInvariant, <1>2, PTL

(* No plug-in that is still loaded depends on one that is unloaded.         *)
THEOREM UnloadedAreUnused == Spec => UnloadedUnused
<1>1. ASSUME IInv, Unload, NEW p \in Loaded \ Loaded' PROVE NoneDependsOn(p)'
  <2>1. \A q : DependenciesOf(q)' = DependenciesOf(q)
    BY <1>1 DEF Unload, DependenciesOf
  <2>2. loadedPlugins \in Seq(Plugin) /\ TypeOK
    BY <1>1 DEF IInv, TypeOK
  <2>3. /\ DOMAIN loadedPlugins' = 1..(Len(loadedPlugins) - 1)
        /\ \A k \in DOMAIN loadedPlugins' :
             k \in DOMAIN loadedPlugins /\ loadedPlugins'[k] = loadedPlugins[k]
    BY <1>1, <2>2, UnloadStep
  <2>4. ASSUME NEW k \in DOMAIN loadedPlugins', NEW n \in DOMAIN DependenciesOf(loadedPlugins'[k])
        PROVE  DependenciesOf(loadedPlugins'[k])[n].id # p
    <3>1. k \in DOMAIN loadedPlugins /\ loadedPlugins'[k] = loadedPlugins[k]
      BY <2>3
    <3>2. PICK l \in 1..(k - 1) : loadedPlugins[l] = DependenciesOf(loadedPlugins[k])[n].id
      BY <1>1, <3>1 DEF IInv, DependenciesFirst
    <3>3. l \in DOMAIN loadedPlugins'
      BY <2>2, <2>3
    <3>4. loadedPlugins[l] \in Loaded'
      BY <2>3, <3>3 DEF Loaded
    <3> QED BY <3>1, <3>2, <3>4
  <2> QED BY <2>1, <2>4 DEF NoneDependsOn, Loaded
<1>2. IInv /\ [Next]_vars => [Unload => \A p \in Loaded \ Loaded' : NoneDependsOn(p)']_vars
  BY <1>1
<1> QED BY LoadingInvariant, <1>2, PTL DEF Spec, UnloadedUnused
=============================================================================
