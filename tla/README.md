# Formal models of Envision

Envision is a structured editor: a program is a tree of nodes, edited on screen,
kept in text files under git, and, for Java, run and debugged from the editor.
This directory holds TLA+ modules for the parts of Envision where order matters,
TLC configurations that check them on small instances, and TLAPS proofs of what
matters most. Paths are relative to the root of the repository (`src/...`).

    tlc -workers 2 -config MCTreeManager_List.cfg MCTreeManager.tla
    tlapm TreeManagerProofs.tla

`PROJECT.json` lists the components, the runs, the source lines behind every
definition, and, for every checked property, a small mistake in the model
(definitions such as `Rest_Dropped`, marked "A mistake") that makes it fail.

1. [The system](#1-the-system)
2. [Plan](#2-plan)
3. [NodeTree and TreeManager](#3-nodetree-and-treemanager)
4. [AccessModes and AccessLocks](#4-accessmodes-and-accesslocks)
5. [DebugConnector](#5-debugconnector)
6. [JavaDebugger](#6-javadebugger)
7. [ChangeGraph](#7-changegraph)
8. [PluginManager](#8-pluginmanager)
9. [References](#9-references)
10. [What is proved](#10-what-is-proved)
11. [What the models say against the code](#11-what-the-models-say-against-the-code)
12. [Not modelled](#12-not-modelled)

## 1. The system

Envision is a set of Qt plug-ins around a core. The plug-ins with program logic
of their own are these; the rest is listed in section 12.

| component | state | operations | talks to |
|---|---|---|---|
| **ModelBase, sessions and undo** (`model/TreeManager`, `commands/*`, `nodes/Node`, `List`, `CompositeNode`, `Text`, `persistence/NodeIdMap`) | the tree: parent, children, manager, fields, revisions; the `QUndoStack` of macros; target and lock of the session; nodes that changed; two maps of node ids | `beginModification`, `changeModificationTarget`, `endModification`, `undo`, `redo`, `save`, the setters of nodes, the destructors | every editor plug-in (setters inside sessions), the stores (`save`), listeners of `nodesModified`, Qt's `QUndoStack` |
| **ModelBase, access locks** (`concurrent/NodeReadWriteLock`, `InterruptibleThread`) | a `QReadWriteLock` per tree and per access unit, the list of interruptible readers, the mutex of the store | lock and unlock for reading and for writing, `requestInterrupt`, exclusive reads | TreeManager, stores, background threads that read trees |
| **ModelBase, references** (`nodes/Reference`, `Node::findSymbols`, `commands/NameChange`, with OOModel's `OOReference` and `NameImport`) | the name, target and state of every reference; the set of pending ones | `setName`, `target`, `resolve`, `resolvePending`, `unresolveNames`, `unresolveAfterNewSubTree` | setters mark references, the end of a session resolves what is pending |
| **FilePersistence, clipboard** (`SystemClipboard`) | an XML document | `putNode(s)`, `create`, `loadNode` | the maps of node ids |
| **FilePersistence, merge** (`version_control/merge/ChangeGraph`, `MergeChange`) | three versions of a tree; changes, their dependencies and conflicts | make the changes of two branches, find conflicts and dependencies, apply changes, break cycles | git (three trees), the user (what is left) |
| **OODebug, JDWP connection** (`debugger/jdwp/DebugConnector`) | bytes not yet parsed, messages not yet handled, request ids, listeners, `vmAlive_`, `resumeRequest_` | `connect`, `sendCommand`/`waitForReply`, `readFromSocket`, `dispatchEvents`, `handleComposite`, `wantResume`, `suspend`, `resume`, `singleStep` | a Java VM over a `QTcpSocket`, JavaDebugger by callbacks |
| **OODebug, JavaDebugger** (`debugger/JavaDebugger`) | breakpoints, set or not yet, by node and by request id; probes; tracked variables | toggle, probe, track, step; handlers of events | DebugConnector, the visual items |
| **Core** (`PluginManager`) | loaded plug-ins | load and unload in the order of their dependencies | the plug-ins |

What is hard in them, and what makes them correct:

* **Sessions and undo.** An undo must find exactly the tree that its command
  left, after any sequence of sessions, undos, redos and macros that fell off
  the stack. A command owns the node that it took out of the tree, and its
  destructor must delete that node exactly when nothing needs it any more: the
  answer depends on which commands are done, on moves, and on the order of
  destruction. Locks, ids, and the lists of changed nodes must follow undo.
  Correct: undo restores; the tree stays a tree; nothing is deleted twice, used
  after, or leaked; a node changes only under the lock of its unit.
* **Access locks.** Sessions, readers of units and readers of whole trees run in
  threads of their own and take two levels of locks; fields that all threads
  share decide whether a session may write. Correct: who writes is alone, nobody
  waits for ever.
* **The JDWP connection** is one thread, but waiting for a reply runs the slots
  of the socket, which run listeners, which send requests and wait again.
  Packets arrive cut and joined. The VM is suspended by its events and must be
  resumed for the right one. VMs exit, are killed, and are started again.
  Correct: no event is lost or out of order, every request gets its own reply,
  every event is handled, calls return.
* **JavaDebugger**: breakpoints in classes that are not loaded yet, several
  virtual ones per node, nodes that share a line, events that overtake replies,
  several VMs one after the other. Correct: debugger and VM agree on the
  breakpoints, each breakpoint of the user stops the VM.
* **Merge**: changes of two branches ordered by their dependencies, applied in
  the order of a hash, with cycles when nodes move into each other. Correct: the
  result is a tree, and the three-way merge of whatever was applied.
* **Plug-ins** are loaded in passes over a list that shrinks. Correct: after
  what they need, all that can be, unloaded in the other order.
* **References** are marked by whatever changes what a name means, resolved
  later in the order of a hash, and resolve and mark one another on the way.
  Correct: no reference keeps a target that a search would not find.
* **Clipboard**: copies carry ids; pasting must not make two nodes share one.

The hazards, each at its line and with the properties that would catch it, are
in `PROJECT.json`.

## 2. Plan

| | modules | composed with | abstract specification | theorems | state |
|---|---|---|---|---|---|
| 1 | `NodeTree`, `TreeManager`, `MCTreeManager` | TreeManager EXTENDS NodeTree | `past`: a linear history of snapshots with a position | section 10 | modelled, checked, proved |
| 2 | `AccessModes`, `AccessLocks`, `MCAccessLocks` | AccessLocks implements AccessModes | `AccessModes` | section 10, the refinement included | modelled, checked, proved |
| 3 | `DebugConnector`, `MCDebugConnector` | | | section 10 | modelled, checked, proved |
| 4 | `JavaDebugger`, `MCJavaDebugger` | with a connector of which only the order of events and replies is left | | section 10 | modelled, checked, proved |
| 5 | `ChangeGraph`, `MCChangeGraph` | | `ThreeWay`, node by node | section 10 | modelled, checked, proved |
| 6 | `PluginManager`, `MCPluginManager` | | `Blocked`, `Refused`: what can be loaded, by the descriptors alone | section 10 | modelled, checked, proved |
| 7 | `References`, `MCReferences` | sessions of TreeManager, reduced to their commands | `Find`: what a search would find now | section 10 | modelled, checked, proved |
| 8 | the clipboard | the maps of ids of TreeManager | ids are unique | | not modelled (section 12) |

The order was that of importance for the editor: the tree and its undo stack
first, then what threads may do to it, then the protocols around it. What a team
would do next: the clipboard, the relabelling of lists in a merge
(`ListMergeComponentV2`), and the loading of trees, which resolves references
across libraries.

Bounds are small because every hazard of the list needs few actors: a command
that names a node of another, three sessions, one reader between two writers,
one event behind one reply, two nodes that move into each other. No module uses a
RECURSIVE operator: what is above or below a node is a least closed set.

## 3. NodeTree and TreeManager

`NodeTree` has no state: it defines the tree as a value (`kids`, `parent`,
`managed`, `value`), what `children()`, `parent()` and `accessLock()` compute
(`Below`, `Ancestry`, `AccessLock`), and what `redo()` and `undo()` of every
command do to the tree (`Redone`, `Undone`). It describes all nodes of the
program, also those outside the managed tree. `setParent` pushes the manager
down exactly as the code does, under the same condition.

`TreeManager` is one `TreeManager` with its `QUndoStack`:

| model | code |
|---|---|
| `commands`, `ends`, `pos` | the undo stack, flat: all commands, where each macro ends, how many are done. A command stands for itself and the `NoteNodeChange` that is pushed behind it |
| `goal` | undo() and redo() run the commands of a macro one by one: `Undo` sets the goal, `UndoCommand` takes a step, and nothing else happens until it is reached |
| `BeginModification`, `BeginModificationAt`, `ChangeModificationTarget`, `EndModification`, `Undo`, `Redo`, `Save`, `Close` | the operations of the same name; `Close` is the destructor |
| `ListInsert`, `ListRemove`, `CompositeSet`, `FieldSet` | the setters, each through `Execute` = `Node::execute`, which decides whether the command is recorded or only run |
| `Push` | `pushCommandOnUndoStack`: destroy the redo branch, run the command, move the revisions, mark changed nodes, move ids |
| `EndMacro` | `endMacro`, with the oldest macro dropped when the limit is exceeded |
| `Owned`, `Deleted`, `DestructorFault` | `~NodeOwningCommand` and its owner bookkeeping, and the moments at which a destructor reaches a deleted node |
| `SwitchTarget` | `SetModificationTarget`, forwards and backwards |
| `MoveIds`, `nodeIdMap`, `nodeIdMapForUndoStack` | `NodeOwningCommand::moveNodes` and `NodeIdMap` |
| `fault` | a deleted node was used: the program has no defined behaviour any more; every safety property that does not speak of it is about states without it |
| `past`, `base`, `joined` | history: the tree after every command, the tree when the session began, the nodes that were ever in the tree |

Threads are left out here (module 2 has them): a session has the tree for itself.
`Client` says what client code does beyond editing nodes of the tree with new
nodes: `"move"` puts a removed node back elsewhere, `"detached"` edits a node
that left the tree, `"build"` assembles new nodes before it inserts them,
`"close"` destroys the manager. The interface permits all of it.

| run | instance | shows |
|---|---|---|
| `tm_list` | 3 nodes: a root list, a list that is an access unit, a new text; moves; undo limit 2 | undo and redo restore (`HistoryRestored`), the tree stays a tree (`TreeWellFormed`), locks follow the target (`TargetLocked`, `EditsUnderLock`), ids follow the nodes (`IdsStay`), listeners hear of every change (`ChangesReported`); 377 000 states |
| `tm_close` | 4 nodes: a composite root with a list, and a list and a node that are new and may be assembled outside the tree, where commands are run and not recorded; the manager destroyed at any time; undo limit 1 | ownership: `NoUseAfterDelete`, `NothingDangles`, `NoLeak`; 116 000 states |
| `tm_move_close` | a move, then the destructor | violated: section 11 |

Bounds. `UndoLimit` is 100 in the code; with 1 and 2 macros fall off the stack
with none and one behind them. `MaxMacro` bounds the commands of a session and
`MaxRevision` the depth of edits: with 2 and 2, and target switches besides,
sessions cross (one removes, the next inserts again, undo of either, redo). Three nodes give
a path of two edges below the root, which is what tells "the node" from "the
nodes below it". The deadlock check is off where `fault` or the destructor may
end the behaviour, and in `tm_list`, where a move may lead to a fault.

No liveness is claimed: clients decide when to end a session.

One thing is left out by a guard: `accessLock()` of a node outside the tree, with
no access unit above it, asks a null manager for its lock (`Node.cpp:385`). A
session whose next step would do that takes no step (`HasAccessLock`).

## 4. AccessModes and AccessLocks

`AccessModes` is what `ModelBase.dox` promises: one session per tree, which has
at most one unit to write; readers of a unit, not while it is written; readers
of a whole tree, not while there is a session.

`AccessLocks` has any number of threads, trees and units. A step is one critical
section: one call of a Qt lock, or what is done under one mutex; the position of
a thread is in `at`. Modelled are `beginModification` up to `endModification`
with `SetModificationTarget`, `NodeReadWriteLock::lockForRead`, `lockForWrite`
and `unlock` with the list of interruptible readers, exclusive reads, and
`saveTree` with the mutex of the store and the way an exception takes.
`QReadWriteLock` is external: readers wait for writers that hold the lock or
wait for it (Qt prefers writers), except, in recursive mode, a thread that
already reads; writers wait for all.

| run | instance | shows |
|---|---|---|
| `al_one_tree` | one tree, two units, three threads of which two write and all read | `WritesAlone`: when `canBeModified` says yes, the thread has the session and the unit and nobody reads; `ReadersRegistered`: the list agrees with the lock; `NoDeadlock`; `ModesSpec`: the locks implement `AccessModes`; `SessionGetsUnit` and `SessionBegins`: sessions begin and get their units; 176 000 states |
| `al_two_trees` | two trees, two writers, two readers | `NoDeadlock` violated: section 11 |

`NoDeadlock` says that no set of threads waits for itself. It holds for one tree
and exclusive reads that are not nested: the configurations with two trees and
with `Nested = TRUE` (`MCAccessLocks_Nested.cfg`) show why both are needed. No
caller in the repository nests exclusive reads; a client could. Two
acquisitions in a read (`MaxReads`) are the least that hold one lock and wait
for another; three give nothing new.

Fairness: `WF` of `Proceed(t)` for every thread, which is that granted locks are
taken, releases happen and reads end; nobody has to begin an operation or to end
a session. The operating system schedules every thread, and readers of trees are
loops over finite trees. `SessionBegins` does not say which thread gets the
session, since Qt promises no order among writers. Readers may starve behind sessions; nothing is claimed of
them.

`MCAccessLocks_Signal.cfg` shows that a reader may be missed by
`requestInterrupt` (section 11).

## 5. DebugConnector

One thread with an event loop, a VM and two byte streams.

| model | code |
|---|---|
| `vm`, `suspends`, `inbox`, `events` | the VM, external: it answers in order, every event but its death suspends it (policy ALL in `EventRequestSet`), every resume takes one suspension back, its packets are numbered from 0 as HotSpot's agent does |
| `wire`, `buffer`, `incompleteData`, `messagesReadyForProcessing` | bytes on the way, in `QTcpSocket`, and in the members of that name. Half a packet is the unit, so a packet can be cut and packets can be joined. The handshake arrives whole: `readHandshake` asserts that |
| `user`, `inner` | the calls of `sendCommand` in progress: one of a command of the user, one of a slot. `QTcpSocket` emits `readyRead` only when no slot of it is running, so there are never more |
| `Send`, `Sent`, `Timeout`, `WaitReturns` | `sendCommand` and `waitForReply`: write, look for the reply, wait, read one packet, look again |
| `Arrive` | the socket reads, in the event loop or inside a wait, and runs the slot |
| `ReadHandshake`, `CheckIdSizes` | `readHandshake`, which connects `dispatchEvents` and asks two things of the VM |
| `DispatchEvents`, `ListenerRequest`, `ListenerReturns` | `dispatchEvents` and `handleComposite`, with listeners that request things, `wantResume` as the listeners of JavaDebugger use it, and the `resume()` at the end |
| `UserRequest`, `Connect` | `suspend`, `resume`, `singleStep` and queries by the user; `connect()` to the next VM |
| `connection`, `handled`, `alone` | history: connects, packets handled, and that the user asked nothing of this VM yet |

The contents of requests and replies are left out; a `Timeout` happens only when
nothing is under way, since 30 s are long compared with a local socket.

| run | instance | shows |
|---|---|---|
| `dc_restart` | all four commands of the user, up to 3 packets with one or two events, exits and crashes, two connections with everything read in between | `EventsInOrder`, `RepliesExpected` and `NoEventForReply`: nothing is lost, reordered or taken for something else; `RequestReturns`: while the VM lives, the user's requests return; as long as the user asks nothing (`alone`), `EventsHandled`: every event is handled in the end, and `ResumesItsOwn`: a resume undoes the suspension of the event it answers; 803 000 states |
| `dc_left` | one `resume` by the user | `NoEventEverLeft` violated: section 11 |

`dc_restart` connects again only when the old VM is gone and all it sent was
handled (`Restart = "clean"`), and `ResumesItsOwn` holds while the user does not
resume: a resume on its way when an event comes undoes that suspension, in every
debugger. `NoEventForReply` needs the VM to number its packets from 0 while
requests are numbered from 1: JDWP itself lets ids clash, and `waitForReply`
compares nothing else. One limit of the code has no property: a reply left in
`incompleteData_` behind another packet is found only when the wait of 30 s ends.

Bounds: three packets with events, seven requests, two connections. A call waits for one reply, at most two calls are nested, and one
reply and two events already give every order of arrival.

Fairness: `WF` of the VM's start and answers, of arrival, and of what the thread
does by itself (`Proceed`). No fairness on new events, on the user or on the end
of the VM. TCP delivers, the event loop runs.

## 6. JavaDebugger

`JavaDebugger` has the breakpoints of the user, of probes and of a tracked
variable on nodes of the program, and the VM's, over several sessions.

| model | code |
|---|---|
| `vm`, `loaded`, `requests`, `prepares`, `stepping` | the VM, external: its classes, its breakpoints by request id, the classes whose loading it reports |
| `unsetBreakpoints`, `setBreakpoints`, `breakOnLoadClasses`, `breakpointIds`, `breakpointListeners`, `userBreakpoints`, `probes`, `trackedVariables` | the members of that name |
| `todo` | what is left of a command of the user (`toggleBreakpoint`, `probe`, `trackVariable`): breakpoints to add and to remove, listeners to add |
| `ask` | a request to the VM whose reply the command waits for: is the class loaded, set, clear, report the class |
| `event` | the packet of events that was not handled yet; `before` tells that it was sent before the reply that is awaited, so that it is handled first, inside the wait (module `DebugConnector`) |
| `HandleVMStart`, `HandleVMDeath`, `HandleBreakpoint` | the handlers. An event suspends the VM, so a handler and the requests it sends meet a VM at rest and are one step. `slot`: the slot has resumed the VM and looks for a further event before it returns to the wait |
| `Go` | `resume()` and `step()`, between commands, of a VM that stopped or runs. A VM that runs ignores the resume; whether it takes a step depends on `currentThreadId_`, which is 0 after `resume()` and may be left over where one listener stops and another resumes: both outcomes are possible |
| `DebugTree` | `debugTree()` for the next VM, when the death of the last one was handled |
| `failed` | the assertion of `JavaDebugger.cpp:478` failed: an event of a breakpoint that is not in `setBreakpoints_` |
| `raced`, `shared` | history: the VM ran while a command waited; a node had two virtual breakpoints |

Run `jd_sessions`: three statements, each at a line of its own, in two classes;
three breakpoints, two sessions; a tracked variable with a reference in each
class; 6 211 000 states.

* `SetIsKnown`: the VM's breakpoints are those of `setBreakpoints_`, but for one
  whose reply is under way.
* `EachOnce`: between commands, each node with a breakpoint is set, or waits to
  be, once, in every session, and nothing is left over (`~shared`).
* `WaitsForClass`: what is not set waits for a class whose loading is going to
  be reported (`~raced`).
* `EventKnownAtRest`: the assertion holds (`~raced`).
* `UserStops`: at a breakpoint of the user the VM stays suspended, whatever probes,
  tracked variables and steps are at its statement.

All five are proved, the last and `EachOnce` with a location for each node alone
(section 10).

The exceptions `raced` and `shared` are real: without them the properties fail
(section 11). Bounds: three breakpoints are a user's, a probe's and one more, of
which two can be on one node; two sessions are the least in which something of
the first may be left. A VM that dies inside a wait is left out, since the wait
then never returns (`MCDebugConnector_Dies`). A key of the user that is handled
between the arrival of an event and its handler is left out too: `Go` takes the
VM out of the suspension of events that were handled only, so that a handler
still finds a VM at rest. The code does not prevent it; what it does to the
connection is in module `DebugConnector`, where the user may resume at any time.
No liveness: every step of the
debugger answers an event or the user, and module `DebugConnector` has the rest.

## 7. ChangeGraph

The three-way merge: two branches become changes, each of the place of a node
(type, parent, label) or of its content; some conflict, some must wait for
others; those that can be are applied to a copy of the base; cycles of moves are
broken; what is left is shown to the user as conflicts.

| model | code |
|---|---|
| `base`, `branchA`, `branchB`, `merged` | `GenericTree`s: every node id has a line (parent, label, content) or is absent |
| `Diff`, `Merged` | `ChangeGraph::init`, `MergeChange::changesFromDiffChange`, identical changes of both branches made one |
| `Conflicts`, `Dependencies` | `addDirectConflicts`, `addDependencies`, clause by clause; conflicts are found when a change of branch B meets one of branch A that is there already |
| `ApplyChange`, `Scan`, `BreakCycle`, `EndScan` | `applyNonConflictingChanges`: apply what is independent until nothing is, then look for cycles in which every change may be applied and drop the dependencies inside them, then again |
| `phase` | where that loop is; `"fault"`: an assertion of `applyChange` or a null parent; `"hang"`: the walk along dependencies never ends |

`QHash` iterates in no fixed order, so a step takes any change that is ready.

Run `cg_merge`: every pair of branches of two bases (two siblings, and one below
the other) that together change the places of at most four nodes, three in one
branch, and the content of one node each; 424 000 states. Run `cg_scan`,
on one base, is violated (section 11).

* `MergedIsTree`: the result is a tree with unique labels, although labels clash
  and nodes are below each other for a moment while a cycle is applied.
* `MergedIsThreeWay`: every node has the place and the content of the three-way
  merge of its line, or that of the base while a change of it is left.
* `ChangesApplicable`: a change that is applied can be, but for a node that one
  branch deletes and whose content the other changes (section 11).
* `MergeEnds`, under `WF` of the whole loop, which one thread runs.

Three ids and two labels give moves into each other, exchanges of labels,
deletions of subtrees, insertions below inserted nodes and every pair of those;
a cycle needs two moves, and entering it from outside a third change.

Elements of lists, whose labels `ListMergeComponentV2` makes anew before the
changes are applied, are not modelled: labels here are names of attributes.

## 8. PluginManager

`loadAllPlugins` in passes (`NextPass`, `Skip`, `Load`, `LoadFails`,
`VersionThrows`, `LoadAllReturns`), with the index `i` into a list that shrinks
under it, and `unloadAllPlugins` (`Unload`), which the destructor runs when
loading threw as well. A version is a value that fits or not; `initialize()` is
a step that does nothing else, its result being ignored by the code; the search
for the library finds it or fails (`MayFail`).

Run `pm_load`: four plug-ins, of which one may ask for anything, two need any
two others, one may need itself and the first, listed in two orders; 858 000
states. `DependenciesFirst`, `AllLoadable` (exactly those outside `Blocked`, the
greatest set of plug-ins that block one another, are loaded), `VersionsChecked`
(loading throws exactly if the descriptors do not fit together, whatever the
order of the directory), `UnloadedUnused` and `LoadingEnds`. Fairness: `WF` of
the loop and of unloading, run by one thread. Four plug-ins make a diamond and a
cycle with something behind it.

## 9. References

| model | code |
|---|---|
| `name`, `target`, `state`, `pending` | `name_`, `target_`, `state_` and `pendingResolution_` of references |
| `parent`, `managed` | `parent_` and `manager_` of modules and references |
| `Decl`, `Import`, `Prefix` | modules; `NameImport`s, of one name or of all; the reference before the dot of an `OOReference` |
| `calls` | the calls of `resolveHelper` that have not returned, each with the declaration where its search is, whom it still asks there and what it found |
| `Ask`, `Climb`, `Return` | the steps of `computeTarget` and `findSymbols`: `target()` of a prefix or an import that is not resolved begins a call of its own; the search goes up; the call returns, and a target that changes marks what depends on it |
| `Rename`, `SetName`, `RemoveNode`, `InsertNode` | `NameChange`, `Reference::setName`, and list commands of a session with what they mark: `unresolveNames`, `unresolveAfterNewSubTree`, `unresolveOOReferencesAfterSubTree` |
| `AskTarget` | `target()`, of a reference that is shown or asked for its type |
| `EndModification`, `ResolveNext`, `NextRound` | `resolvePending`: rounds over the pending references in any order, until none is left |
| `history`, `position`, `session` | the undo stack, flat, with the session of every command |
| `UndoCommand`, `RedoCommand` | undo and redo of a session, one command at a time; no `resolvePending` behind it |
| `Find` | what a search finds when it takes the targets of prefixes and imports to be right: the specification |
| `astray`, `misled` | history: what may be wrong for the reasons named in section 11 |

Facts of the code that the model keeps: `setName` forgets the target before it
is resolved again; its undo restores the name only, also that of an import, and
marks nothing; references that `clone()`
made are not in `allReferences_`; the insertion of a subtree marks what it may
shadow, its removal marks nothing; a call that is begun by another one leaves
its reference pending when it finds nothing; an import that marks its
declaration marks references that are being resolved. While `resolveHelper`
runs, no client code does.

Run `ref_sessions`: a root with modules `A { X }` and `B { }`, `import A.*`,
`import x`, `A.x`, and `x` inside `B`, and a new module `Y` that may be put into
`A`; modules and prefixes get other names; one of the imports is asked for its
target at any time; two commands in a session, one session to undo and redo;
374 000 states.

* `TargetsAreRight`: when nothing is pending, every reference of the tree has
  the target that a search would find now, but for those in `misled`, and not
  while something that was removed is missing (`astray`).
* `AllResolved`: after `resolvePending` none is left unresolved.
* `ResolvingEnds`: the rounds end, under `WF` of the loop, which one thread runs.

`MCReferences_Nested`: `TypeOK`, `UnresolvedPending`, `TargetsAreRight` and
`AllResolved` where the only import has a prefix of its own and gets other names,
in up to two sessions on the stack; 184 000 states.
Two commands are the least with which one hides what the other brings; the nodes
are one of each kind.

## 10. What is proved

By TLAPS, for every value of the constants: every set of nodes and every initial
tree that is one, any threads, trees, units, branches, plug-ins, and every bound.

**Undo** (`TreeManagerProofs`).

* `RecordableKept`: a command that may be recorded leads from a tree to a tree,
  and its undo leads back to exactly the tree before.
* `HistoryLinked`: `Spec => []IInv`. `UndoRestores`: `Spec => []HistoryRestored`.
  `TreeStaysTree`: `Spec => []TreeWellFormed`. `TypeCorrect`: `Spec => []TypeOK`.

Assumptions: the constants' (`NoNodeAssumption`, `RootAssumption`,
`UnitAssumption`, `ConstantsAssumption`, `InitialAssumption`: the initial tree
is well formed), and `OnlyTreeEdits`, that clients edit nodes of the tree only
(`"move"` and `"close"` are allowed, `"build"` and `"detached"` are not; with
`"detached"` the theorem is false, as `MCTreeManager_Detached` shows).

That undo restores is not inductive: undoing a command gives the right tree only
if the command finds the tree it left. `IInv` therefore links the snapshots:
command i leads from `past[i]` to `past[i + 1]` and its undo back
(`PastReversible`), all snapshots are trees, the present tree and revisions are
the snapshot at `pos` (`Present`), the ends of macros are in order and on the
stack (`MacrosOrdered`), and while a session pushes there is nothing to redo
(`TopWhilePushing`). Every action then either moves `pos` by one along the
links, appends a link (`RecordableKept` says that it is one), cuts the stack at
either end, or leaves tree and stack alone; `NextIInv` has one step for each.
`Below` and `Ancestry` are least closed sets, and insertion, removal and
replacement all are an exchange of one child for another
(`ExchangedWellFormed`, `ExchangeForward`, `ExchangeBackward`).

**Sessions** (`TreeManagerProofs`): `TargetIsLocked` (`TargetLocked`) and
`EditsAreLocked` (`EditsUnderLock`), under `OnlyTreeEdits`. What is locked now
follows from nothing in the present state: undo changes the target only where a
SetModificationTarget command is crossed, which is right only if the commands
between two of them were made below that target. `SInv` adds to `IInv` that there
was a target after every command of the stack, which the SetModificationTarget
commands lead from and to, that every edit lies in the unit of the target of its
moment, and that a session has locked the unit of the target at `pos`. Targets
are nodes of the tree at their moment, so undo and redo find them there again.

**Ownership** (`OwnershipProofs`): `NothingIsUsedAfterDelete`
(`NoUseAfterDelete`), `NothingNeededIsDeleted` (`NothingDangles`) and
`NothingLeaks` (`NoLeak`), destruction of the manager included, under
`OnlyNewNodes`: clients edit nodes of the tree and insert nodes that were never
part of it. With moves the first is false (`tm_move_close`, and without
destruction `MCTreeManager_MoveDrop`); nodes that clients assemble outside the
tree (`"build"`) are left to `tm_close`. A destructor decides what to delete by
the tree and the stack of the moment it runs, so `OInv` speaks of all moments of
the history (`Hist`): what the commands own at a moment is apart from the tree
and from what others own (`OwnedApart`), stays as it is for as long as its
command stays on one side (`NothingLost`), has not been deleted (`NothingDead`),
and nodes that never joined the tree are untouched (`NewNodesApart`). `Window`
shows that commands may leave the stack at either end, `Grow` that one may be
pushed, `Destruction` that deleting what left harms nothing that stays.

**Ids and reported changes** (`OwnershipProofs`): `IdsStayWithNodes`
(`IdsStay`) and `AllChangesReported` (`ChangesReported`), under `OnlyNewNodes`.
For ids, `DInv` adds to `OInv` that the map of the undo stack holds only nodes
that were in the tree and are neither in it nor deleted: so ids that come back
are those that left (`IdsExchanged`), and `~TreeManager` drops none of a node that
lives. For reports, `RInv` adds that whatever differs from the tree at
`beginModification` is noted, and why noted nodes are alive although
`endModification` deletes those of the oldest macro first: each is in the tree
or kept by a command of the macro of this session (`Recent`, `ReportedLive`);
undo and redo delete nothing.

**Access locks** (`AccessLocksProofs`): `TypeCorrect`, `WriterAlone`
(`WritesAlone`), `ReadersListed` (`ReadersRegistered`) and `Implementation`
(`Spec => ModesSpec`: AccessLocks implements AccessModes), for any number of
threads, trees and units, under `LocksAssumption`. `IInv` adds to the types what
a thread at a step has as its arguments (`Arguments`), that the counters of a
lock count the threads at the steps behind it (`Counts`), that the fields of a
session belong to the thread that has the tree (`Sessions`), and that a lock held
for writing has no reader (`Exclusion`).

`DeadlockFree` (`NoDeadlock`) under `OneAtATime`: a reader takes one lock at a
time (`MaxReads` is 1), or there is one tree and a reader that has it begins no
further exclusive read (`~Nested`). The assumption is about the clients, and
needed: `al_two_trees` has two trees and readers of both,
`MCAccessLocks_Nested` one tree and nested exclusive reads. The proof shows that
no set of threads can wait within itself, by what its members hold (`Holds`):
whoever has the session and waits for a unit waits for readers that do not wait
for it; then nobody in a session waits, so a reader of a unit has no writer to
wait for; a session that begins waits for readers of its tree only, which do not
wait; so all that is left waits for the store, whose holder does not wait.

**Merge** (`ChangeGraphProofs`): `TypeCorrect` and `MergedThreeWay`
(`MergedIsThreeWay`), for any base and branches that are trees
(`InputsAssumption`, `AbsentAssumption`), any order, any breaking of cycles.
`IInv` says of every node that its line in `merged` is the base's, changed by
those of its changes that are no longer left; it is inductive because two
different changes of one kind of one node conflict, so neither is applied.

`AllApplicable` (`ChangesApplicable`) and `TreeMerged` (`MergedIsTree`) need more
of the graph. `GInv` says that the changes a change was to wait for are still
waited for, if they insert its parent or empty what it deletes (`Kept`), and that
every other dependency that is gone, while the change it was on is left, was on
a cycle that was broken: that change is in a set of changes without conflicts
that wait for nothing outside it and for one another in no ring (`Grouped`), so
one of them is ready. From `Kept` it follows that a change that is applied finds
what it needs; from `Grouped`, that at the end nothing is left that an applied
change was to wait for (`Settled`), and then two siblings of the same label would
be two changes in conflict, or one that did not wait for the label to be free
(`LabelFree`). That no node is below itself is a property of the whole tree:
`MInv` adds that the moves that are applied, or that a broken cycle has freed,
needed one another in no ring (`MovesOrdered`). A ring of nodes in the merged tree
has a moved node on it, since the base and the inserted nodes have no ring, and
the way up from the target of that move stays on the ring up to the next moved
node, whose move it needed (`RingNeeds`): a ring of moves. That changes which one
branch made together are in no such ring is because the branch is a tree
(`NoInsertionRing`, `NoDeletionRing`, `NoMoveRing`).

`TreeMerged` is under `NewNodesAgree`: a node that is new in both branches, which
have it from a commit they share, is below the same parent in both (the runs
assume the same line, in `TrueMerge`). Otherwise the walk of `addMoveDependency`
from an inserted node has two ways on, of which the code takes the first of a
hash, and it may not end.

**Plug-ins** (`PluginManagerProofs`): `TypeCorrect`, `DependenciesAreFirst`,
`AllLoadableAreLoaded`, `VersionsAreChecked` and `UnloadedAreUnused`, for any
descriptors and order of the directory (`PluginAssumption`). `IInv` adds what a
pass knows of the plug-ins it has looked at (`PassKnows`: if none was loaded in
this pass, each lacks something), and that nothing loaded is blocked
(`NoneBlocked`).

**Java debugger** (`JavaDebuggerProofs`): `BreakpointsAgree` (`SetIsKnown`),
`EventsAreKnown` (`EventKnownAtRest`) and `NoneForgotten` (`WaitsForClass`), for
any nodes, classes and tracked variables; `StopsForUser` (`UserStops`) and
`NoneLostOrLeft` (`EachOnce`) under `OneNodeEach`: no two nodes have the same
location, which two statements on one line have, and then the first of the two
is false (`MCJavaDebugger_OneLine`). What the properties say between commands is
not inductive, since a command is several requests and events are handled while
one is on its way. `JInv` therefore says where the breakpoint of a request is at
each phase of it: `Known` excepts the one whose reply is `Returning`, `Waiting`
knows what the last answer about a class was worth, `EventsKnown` that while the
VM rests an event under way was sent before the reply. `CInv` adds what a
command still plans: the listeners come last and name the breakpoints that the
steps before them make (`Planned`, `Listened`), a listener that resumes is none
of the user's (`OfUser`, `UserListens`), and the requests of one event are at
one location (`EventPlace`). `Placed` adds that no node is in two places: not
set and not waiting while its breakpoint is on its way (`Coming`, `Going`).

**Debug connector** (`DebugConnectorProofs`): `TypeCorrect`, `InOrder`
(`EventsInOrder`), `Expectation` (`RepliesExpected`), `NeverMistaken`
(`NoEventForReply`) and `Resumption` (`ResumesItsOwn`), for any number of events,
requests and connections, any packets and any way of cutting them, under
`ConnectorAssumption` and `CleanRestart`: the next `connect()` finds everything
of the VM before handled. With `Restart = "any"` an event of the old VM stays
behind (`MCDebugConnector_Stale`). The properties look at halves of packets in
four places; `IInv` says that there are two sequences of whole packets, all that
are under way and those of them that are unread, such that the unread units are
the handshake, if it was not read, and exactly these packets (`Packets`, `Cut`).
About the packets it says which events and replies they are (`EventsIn`,
`RepliesIn`). Why no event is taken for a reply is in `RepliesAhead`: a VM that
runs has had all its events resumed, each by a request that was answered, so an
event's id is at most the number of answers, and the answer with that id was
sent before. `OnePacketAtATime` is the same count for a user who asks nothing.
The lemmas of each part tell what one more packet, or one less, does to it
(`EventsMore`, `EventsLess` and so on), and every action is one of these.

**References** (`ReferencesProofs`): `TypeCorrect`, `NoneForgotten`
(`UnresolvedPending`), `ResolvedInTheEnd` (`AllResolved`) and `TargetsRight`
(`TargetsAreRight`), for any tree, names, references, prefixes and imports, under
`ReferencesAssumption`: the initial tree is one, prefixes are not imports and move
with what comes after their dot. `NoneForgotten` and `ResolvedInTheEnd` say that `pendingResolution_` loses no reference, and what could lose one is
`Return`: it removes its reference, and a call further down the stack for the same
reference would find it established, or be cut short by it. So `CallInv` says
that no reference is on the stack twice, because every call was begun by one
that comes later in the order in which references ask (`Precedes`): a reference
asks its prefix, and imports above it or further out. That is an order as long
as the tree has no ring. No guard of undo and redo tells that what they make is
a tree, so `TreeInv` links the history like `PastReversible` does above: there are
trees, one for every position, that each command leads through, back and forth
(`Linked`), in each of which the command finds what it takes from its node
(`Fits`), and `managed` is what is below the root (`InTree`). `MarkInv` then says that every
reference of the tree that needs to be resolved is pending, one that is being
resolved is on the stack, and one on the stack is pending.

What `TargetsRight` is about is that all marks together cover whatever a search
looks at. Its invariant, `TargetInv`, is of four parts. `RightInv`: a reference
that is established has the target that a search finds now, or what it saw is
out of the tree (`Excused`). `SearchInv`: a call on the stack has searched a part
of its scopes, and what it found there is there now (`Progress`); so when it
returns, what it found is what a search finds (`SeenSearch`). `AskedInv`: a call
asks what comes next on the stack, and when that has returned without a result,
it has no target. `AwayInv`: declarations that are out of the tree are nowhere.
`Find` is written as a function of tree, names and targets (`Search`,
`FindSearches`), and `Alike` says when two of these look the same to one reference:
the same way up, and on it the same names, imports and targets of imports. Two
that are alike give the same search, level by level (`AlikeSearch`). For every
step it is then shown that who is not marked sees no difference: another target
is seen by `Dependents` only (`OthersAlike`), another name of a declaration by
those that look for one of its two names (`RenamedAlike`), a subtree by those
below it, those with a name that it brings, and where an import is put, by those
below that (`MovedAlike`). The last step needs that what is not below a moved node
has the same above it (`BesideRef`). The invariant was not inductive at first: the
undo of `setName` of an import has no mark behind it (section 11).

Only model-checked: the liveness properties. Liveness under fairness is out of
the prover's reach, and so are ENABLED, RECURSIVE operators and induction over
data.

## 11. What the models say against the code

Runs whose property is a sentence of the code or its documentation and fails:

* `tm_move_close`: `~TreeManager` deletes the tree before its undo stack. After
  a session moved a node, the `ListRemove` of that session looks at, and
  deletes, a node that went with the tree (`TreeManager.cpp:64`,
  `NodeOwningCommand.cpp:56-60`).
* `al_two_trees`: readers that hold a unit of one tree and want one of another,
  with a writer waiting for each, all wait for one another, where
  `ModelBase.dox:182` says that there is no danger of a deadlock.
* `dc_left`: an event that arrives right behind the reply to a command of the
  user is read, or left in `incompleteData_`, and no listener is called until
  something else arrives; the VM is suspended and sends nothing more
  (`DebugConnector.cpp:297`, `DebugConnector.h:67-68`).
* `cg_scan`: the search for a cycle follows one dependency of each change and
  stops at its start; entered from a change outside, a cycle is never left
  (`ChangeGraph.cpp:738-760`).

Further configurations, not among the runs of `PROJECT.json`, that end in a
counterexample and mark the limits of the passing runs:

| configuration | property | what happens |
|---|---|---|
| `MCTreeManager_Detached` | `HistoryRestored` | `Node::execute` finds the undo stack only if it owns the root of the edited node: a node removed from a list that had left the tree before is owned by nobody, its edits are not recorded and survive undo (`Node.cpp:86-90`) |
| `MCTreeManager_MoveDrop` | `NoUseAfterDelete` | a node removed twice in one session: both commands delete it when the macro falls off the stack, since the macro is off the stack already and they do not see each other (`NodeOwningCommand.cpp:60`) |
| `MCAccessLocks_Signal` | `ReadersSignalled` | a reader registers between the writer's look at the list and its wait: nobody asks it to leave (`NodeReadWriteLock.cpp:62`, `ModelBase.dox:185`) |
| `MCAccessLocks_Nested` | `NoDeadlock` | a reader of a tree that saves it while a session waits (`SimpleTextFileStore.cpp:102`, `ModelBase.dox:177`) |
| `MCDebugConnector_Dies` | `RequestAlwaysReturns` | the VM exits between request and reply: `waitForReply` never returns (`DebugConnector.cpp:288`) |
| `MCDebugConnector_Agree` | `AllAgree` | a breakpoint of the user and a probe in one packet: the VM is resumed, though one event did not agree (`DebugConnector.h:83`) |
| `MCDebugConnector_Killed` | `VmAliveTrue` | a killed VM sends no event of its death: `vmAlive()` stays true |
| `MCDebugConnector_Stale` | `OnlyThisVM` | an event of the previous VM is handed to the listeners of the next connection, where `JavaDebugger.cpp:478` asserts that it knows it |
| `MCJavaDebugger_Known` | `EventKnown` | the VM reaches a breakpoint before the reply with its request id was stored: the assertion of `JavaDebugger.cpp:478` fails (`:431`) |
| `MCJavaDebugger_Shared` | `BreakpointsBacked` | of two virtual breakpoints of a node one is removed, and the VM's goes with it, or the node is no longer waiting to be set (`JavaDebugger.cpp:341`, `JavaDebugger.h:163`) |
| `MCJavaDebugger_Untrack` | `OverlayThere` | `trackedVariables_` is never erased: the third press of the key removes a deleted overlay (`JavaDebugger.cpp:193-198`) |
| `MCJavaDebugger_OneLine` | `UserStops` | two statements on one line: only the first event of the packet is looked at (`JavaDebugger.cpp:394`, and its TODO at `:381`) |
| `MCChangeGraph_Content` | `ContentKept` | an inserted node comes into the merged tree without type and value, since its change has no flags (`MergeChange.cpp:79`) |
| `MCChangeGraph_Edits` | `EditsApply` | one branch deletes a node, the other changes its content: not a conflict, and the second change to be applied finds no node (`ChangeGraph.cpp:112`, `:862`) |
| `MCChangeGraph_OneBranch` | `ConflictsBetweenBranches` | nodes that one branch moved together wait for each other through two cycles at once, which are never broken (`ChangeGraph.cpp:283`) |
| `MCReferences_Rounds` | `RoundsAreEnough` | an import whose target changes marks all references of its declaration, itself included, so `target()` returns null to the reference that is resolved through it, whose failure is then final (`Reference.cpp:124`, `:150`, `:277`; `OOReference.cpp:54-84`) |
| `MCReferences_Imports` | `ImportsInLists` | a removed import that is still pending changes its target and looks for its list (`OOReference.cpp:74`) |
| `MCReferences_Renamed` | `SuffixesFollow` | `setName` sets the target to null at once, so that when nothing has the new name, nothing changes any more, and what comes after the reference's dot, or uses the import, is not resolved again and keeps its target (`Reference.cpp:88`, `:124`) |
| `MCReferences_Removed` | `TargetsInTree` | a reference whose target was removed keeps it (`Node.cpp:297`) |
| `MCReferences_Undone` | `NamedOnceAreRight` | `setName` of an import is undone: the name is as before, nothing is marked, and the references that found something by the other name keep it (`FieldSet.h:65-70`, `Reference.cpp:83-91`) |

`MCJavaDebugger_Types` checks the type invariant of `JavaDebugger` on the instance
of its passing run, `MCReferences_Nested` that of `References`; those of the
other modules are checked by the runs or proved.

## 12. Not modelled

* The clipboard (`SystemClipboard`, `List::paste`): it copies ids with nodes.
  `create()` sets the copied id without looking whether another node has it,
  while `loadNode()` looks; the maps of ids that it works on are those of
  `TreeManager`, which has no paste.
* Of ModelBase: construction, type registration, visitors, the loading of trees
  and libraries; of references, those to other symbols than modules and the
  destruction of references.
* Of FilePersistence: formats and parsers of the text store, git, the component
  that relabels lists in a merge, and the first version of the merge
  (`MergeV1` and the classes of conflict units), which is superseded.
* Of OODebug: the contents of JDWP messages, values and plots of variables,
  compilers and external processes.
* InformationScripting composes queries over trees: functions over data, without
  state of their own.
* VisualizationBase, InteractionBase, the OO plug-ins, importers and exporters,
  Comments, Alloy, CodeReview, VersionControlUI and the tools draw, translate or
  react to keys; they use the sessions that are modelled and add no protocol of
  their own.

Together these are most of the lines of the repository: an editor is mainly
node classes, visual items and translations.
