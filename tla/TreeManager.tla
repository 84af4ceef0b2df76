---------------------------- MODULE TreeManager ----------------------------
(***************************************************************************)
(* Model::TreeManager: modification sessions on one managed tree, the      *)
(* undo stack behind them, and who deletes the nodes that leave the tree.  *)
(*                                                                         *)
(* The QUndoStack is kept flat: `commands` holds every command on the      *)
(* stack, `ends` the length of `commands` at the end of every macro, `pos` *)
(* how many commands are done.  undo() and redo() run over a macro one     *)
(* command at a time, towards `goal`; nothing else happens meanwhile.      *)
(*                                                                         *)
(* A delete of, or an access to, a node that is already deleted sets       *)
(* `fault`: the program has no defined behaviour from there on.            *)
(***************************************************************************)
EXTENDS NodeTree, Integers

CONSTANTS ListNode,    \* the nodes that are Lists
          FieldNode,   \* the nodes that hold a plain field, such as Text
          Initial,     \* the tree when the session history starts
          UndoLimit,   \* commands.setUndoLimit(); 100 in the code
          Client,      \* what client code does beyond editing the tree
          MaxMacro,    \* bound: commands in a macro
          MaxRevision  \* bound: revision of the root

(***************************************************************************)
(* Client code always edits nodes of the tree, inside a session, with new  *)
(* nodes.  Further things it may do, each permitted by the interface:      *)
(*   "move"      insert a node again that an earlier command removed;      *)
(*   "detached"  edit a node that has left the tree;                       *)
(*   "build"     edit a node that was never in the tree, outside it;       *)
(*   "close"     destroy the TreeManager.                                  *)
(***************************************************************************)
Behaviours == {"move", "detached", "build", "close"}

ASSUME ConstantsAssumption ==
  /\ ListNode \subseteq Node
  /\ FieldNode \subseteq Node
  /\ UndoLimit \in Nat \ {0}
  /\ Client \subseteq Behaviours
  /\ MaxMacro \in Nat /\ MaxRevision \in Nat

ASSUME InitialAssumption == Initial \in Tree /\ WellFormed(Initial)

VARIABLES
  tree,       \* the nodes
  revision,   \* Node::revision_
  freed,      \* nodes whose destructor has run
  fault,      \* a deleted node was deleted again or used
  closed,     \* the TreeManager is destroyed
  commands, ends, pos, goal,                      \* the undo stack
  modificationInProgress, pushedNewCommandsOnTheStack, performedUndoRedo,
  currentModificationTarget, currentModificationLock,
  held,       \* the access units that the session has locked for writing
  modifiedTargets, removedTargets,
  nodeIdMap, nodeIdMapForUndoStack,               \* the nodes with an id there
  past,       \* history: the tree and the revisions after every command
  base,       \* history: the tree when the session began
  joined      \* history: the nodes that were ever part of the tree

stack == <<commands, ends, pos, goal>>
flags == <<modificationInProgress, pushedNewCommandsOnTheStack, performedUndoRedo>>
locks == <<currentModificationTarget, currentModificationLock, held>>
notes == <<modifiedTargets, removedTargets>>
ids   == <<nodeIdMap, nodeIdMapForUndoStack>>
vars  == <<tree, revision, freed, fault, closed, stack, flags, locks, notes, ids, past, base, joined>>

InTree(t) == {n \in Node : t.managed[n]}

Snapshot(t, r) == [tree |-> t, revision |-> r]

Init ==
  /\ tree = Initial
  /\ revision = [n \in Node |-> 0]
  /\ freed = {} /\ fault = FALSE /\ closed = FALSE
  /\ commands = <<>> /\ ends = <<>> /\ pos = 0 /\ goal = 0
  /\ modificationInProgress = FALSE
  /\ pushedNewCommandsOnTheStack = FALSE
  /\ performedUndoRedo = FALSE
  /\ currentModificationTarget = NoNode
  /\ currentModificationLock = NoNode
  /\ held = {}
  /\ modifiedTargets = {} /\ removedTargets = {}
  /\ nodeIdMap = {} /\ nodeIdMapForUndoStack = {}
  /\ past = <<Snapshot(Initial, revision)>>
  /\ base = Initial
  /\ joined = InTree(Initial)

-----------------------------------------------------------------------------
(* Mistakes: ownership that does not follow undo, and one that is reversed. *)
Owned_Both(cs, p, i) ==
  IF NodeOwning(cs[i]) /\ cs[i].tracked
    THEN IF cs[i].rem = NoNode THEN cs[i].ins ELSE cs[i].rem
    ELSE NoNode

Owned_Reversed(cs, p, i) ==
  IF NodeOwning(cs[i]) /\ cs[i].tracked
    THEN IF i > p THEN cs[i].rem ELSE cs[i].ins
    ELSE NoNode

(* The node that command i of cs owns when p of them are done. *)
Owned(cs, p, i) ==
  IF NodeOwning(cs[i]) /\ cs[i].tracked
    THEN IF i > p THEN cs[i].ins ELSE cs[i].rem
    ELSE NoNode

OwnedByStack(n) == \E i \in DOMAIN commands : Owned(commands, pos, i) = n

(***************************************************************************)
(* ~NodeOwningCommand for the commands D of cs that leave the stack: the   *)
(* nodes they delete, with everything below them.  A node is spared if it  *)
(* has a manager or a command still on the stack owns it.                  *)
(***************************************************************************)
DeletedRoots(cs, p, D) ==
  {n \in Node : /\ ~tree.managed[n]
                /\ \E i \in D : Owned(cs, p, i) = n
                /\ \A i \in DOMAIN cs \ D : Owned(cs, p, i) # n}

Deleted(cs, p, D) == UNION {Below(tree, n) : n \in DeletedRoots(cs, p, D)}

(* Commands i and j belong to the same macro of a stack with these ends. *)
SameMacro(es, i, j) == \A k \in DOMAIN es : i <= es[k] <=> j <= es[k]

(***************************************************************************)
(* The destructors reach a deleted node: an owned node is gone already; a  *)
(* node to delete holds a deleted one, or one that a further command will  *)
(* look at; or two commands of the macro that is destroyed last own it,    *)
(* the macro being off the stack while its commands are destroyed.         *)
(***************************************************************************)
DestructorFault(cs, p, es, D) ==
  LET owns(i) == Owned(cs, p, i)
      doomed == {i \in D : owns(i) # NoNode}
      roots == DeletedRoots(cs, p, D)
  IN  \/ \E i \in doomed : owns(i) \in freed
      \/ \E n \in roots : Below(tree, n) \cap freed # {}
      \/ \E n \in roots, i \in doomed : owns(i) \in Below(tree, n) \ {n}
      \/ \E n \in roots, i, j \in doomed :
           /\ i < j /\ owns(i) = n /\ owns(j) = n
           /\ SameMacro(es, i, j)
           /\ \A k \in doomed : k < i /\ owns(k) = n => SameMacro(es, k, i)

(***************************************************************************)
(* Running one command forwards or backwards.                              *)
(***************************************************************************)
(* The nodes that redo() or undo() of c, or its NoteNodeChange, look at. *)
Reached(t, c) ==
  (UNION {Below(t, n) : n \in {c.ins, c.rem} \ {NoNode}})
  \cup (IF c.kind = "target" THEN {c.from, c.to} \ {NoNode} ELSE Ancestry(t, c.target))

(* A step from target a to target b: accessLock() of both must exist. *)
LocksExist(t, c) ==
  c.kind = "target" => \A n \in {c.from, c.to} \ {NoNode} : HasAccessLock(t, n)

Runs(t, gone, c) == Reached(t, c) \cap gone = {} /\ LocksExist(t, c)

(* A mistake: the lock of the target that is left is not released. *)
SwitchTarget_KeepsLock(from, to) ==
  LET lockOf(n) == IF n = NoNode THEN NoNode ELSE AccessLock(tree, n)
  IN  /\ held' = held \cup ({lockOf(to)} \ {NoNode})
      /\ currentModificationTarget' = to
      /\ currentModificationLock' = lockOf(to)

(* SetModificationTarget from one target to the next. *)
SwitchTarget(from, to) ==
  LET lockOf(n) == IF n = NoNode THEN NoNode ELSE AccessLock(tree, n)
  IN  /\ held' = IF lockOf(from) = lockOf(to)
                   THEN held
                   ELSE (held \ {lockOf(from)}) \cup ({lockOf(to)} \ {NoNode})
      /\ currentModificationTarget' = to
      /\ currentModificationLock' = lockOf(to)

(* UndoCommand: the revision of the target and of all its parents moves. *)
Revised(t, r, n, d) == [m \in Node |-> IF m \in Ancestry(t, n) THEN r[m] + d ELSE r[m]]

(* A mistake: the ids below the node stay behind. *)
MoveIds_NotBelow(t, c, out, in, gone) ==
  LET moves == c.tracked /\ t.managed[c.target]
      leaving == IF moves THEN {out} \cap nodeIdMap ELSE {}
      coming == IF moves THEN {in} \cap nodeIdMapForUndoStack ELSE {}
  IN  /\ nodeIdMap' = ((nodeIdMap \ leaving) \cup coming) \ gone
      /\ nodeIdMapForUndoStack' = ((nodeIdMapForUndoStack \cup leaving) \ coming) \ gone

(* NodeOwningCommand::moveNodes: the ids of the nodes below out and in change maps. *)
MoveIds(t, c, out, in, gone) ==
  LET moves == c.tracked /\ t.managed[c.target]
      leaving == IF moves /\ out # NoNode THEN Below(t, out) \cap nodeIdMap ELSE {}
      coming == IF moves /\ in # NoNode THEN Below(t, in) \cap nodeIdMapForUndoStack ELSE {}
  IN  /\ nodeIdMap' = ((nodeIdMap \ leaving) \cup coming) \ gone
      /\ nodeIdMapForUndoStack' = ((nodeIdMapForUndoStack \cup leaving) \ coming) \ gone

(* A mistake: only the node that leaves is marked as removed. *)
RunEdit_MarksOne(c, t, out, in, d, gone) ==
  /\ tree' = t
  /\ revision' = Revised(t, revision, c.target, d)
  /\ modifiedTargets' = modifiedTargets \cup (IF c.tracked THEN {c.target} ELSE {})
  /\ removedTargets' = removedTargets \cup ({out} \ {NoNode})
  /\ MoveIds(t, c, out, in, gone)
  /\ joined' = joined \cup InTree(t)
  /\ UNCHANGED locks

(***************************************************************************)
(* c is run with `gone` the deleted nodes: forwards, the new tree is t and *)
(* (out, in) = (rem, ins); backwards the other way around.  NoteNodeChange *)
(* marks the target and everything below the node that leaves; it runs     *)
(* after redo() and before undo(), where that node has the same nodes      *)
(* below it.                                                               *)
(***************************************************************************)
RunEdit(c, t, out, in, d, gone) ==
  /\ tree' = t
  /\ revision' = Revised(t, revision, c.target, d)
  /\ modifiedTargets' = modifiedTargets \cup (IF c.tracked THEN {c.target} ELSE {})
  /\ removedTargets' = removedTargets \cup
       (IF NodeOwning(c) /\ c.tracked /\ out # NoNode THEN Below(t, out) ELSE {})
  /\ MoveIds(t, c, out, in, gone)
  /\ joined' = joined \cup InTree(t)
  /\ UNCHANGED locks

RunSwitch(from, to, gone) ==
  /\ SwitchTarget(from, to)
  /\ modifiedTargets' = modifiedTargets \cup ({to} \ {NoNode})
  /\ nodeIdMap' = nodeIdMap \ gone
  /\ nodeIdMapForUndoStack' = nodeIdMapForUndoStack \ gone
  /\ UNCHANGED <<tree, revision, removedTargets, joined>>

RunRedo(c, gone) ==
  IF c.kind = "target" THEN RunSwitch(c.from, c.to, gone)
                       ELSE RunEdit(c, Redone(tree, c), c.rem, c.ins, 1, gone)

RunUndo(c, gone) ==
  IF c.kind = "target" THEN RunSwitch(c.to, c.from, gone)
                       ELSE RunEdit(c, Undone(tree, c), c.ins, c.rem, -1, gone)

(* Undefined behaviour; the operation settles modificationInProgress and base. *)
Crash ==
  /\ fault' = TRUE
  /\ UNCHANGED <<tree, revision, freed, closed, stack, pushedNewCommandsOnTheStack,
                 performedUndoRedo, locks, notes, ids, past, joined>>

-----------------------------------------------------------------------------
(***************************************************************************)
(* pushCommandOnUndoStack(c), and QUndoStack::beginMacro before the first  *)
(* command of a session, which first destroys the commands that were       *)
(* undone.                                                                 *)
(***************************************************************************)
RedoBranch == IF pushedNewCommandsOnTheStack THEN {} ELSE (pos + 1)..Len(commands)

Idle == ~fault /\ ~closed /\ pos = goal

LastEnd == IF ends = <<>> THEN 0 ELSE Last(ends)

MayPush == modificationInProgress /\ ~performedUndoRedo /\ Idle

Push(c) ==
  LET gone == freed \cup Deleted(commands, pos, RedoBranch)
  IN  IF DestructorFault(commands, pos, ends, RedoBranch) \/ ~Runs(tree, gone, c)
        THEN Crash
        ELSE /\ freed' = gone
             /\ commands' = Append(SubSeq(commands, 1, pos), c)
             /\ \E k \in 0..Len(ends) :
                  /\ \A j \in DOMAIN ends : ends[j] <= pos <=> j <= k
                  /\ ends' = SubSeq(ends, 1, k)
             /\ pos' = pos + 1
             /\ goal' = pos + 1
             /\ pushedNewCommandsOnTheStack' = TRUE
             /\ RunRedo(c, gone)
             /\ past' = Append(SubSeq(past, 1, pos + 1), Snapshot(tree', revision'))
             /\ UNCHANGED <<fault, closed, performedUndoRedo>>

MacroHasRoom ==
  pos - LastEnd < MaxMacro \/ ~pushedNewCommandsOnTheStack

SwitchCommand(n) ==
  [kind |-> "target", target |-> NoNode, ins |-> NoNode, rem |-> NoNode, pos |-> 0,
   from |-> currentModificationTarget, to |-> n, tracked |-> FALSE]

(***************************************************************************)
(* beginModification(nullptr), and beginModification(n), which makes n the *)
(* target at once.  exclusiveAccess is free as no session is in progress.  *)
(* The two sets it clears are empty since the end of the last session.     *)
(***************************************************************************)
BeginModification ==
  /\ Idle /\ ~modificationInProgress
  /\ modificationInProgress' = TRUE
  /\ base' = tree
  /\ modifiedTargets' = {} /\ removedTargets' = {}
  /\ UNCHANGED <<tree, revision, freed, fault, closed, stack, pushedNewCommandsOnTheStack,
                 performedUndoRedo, locks, ids, past, joined>>

BeginModificationAt(n) ==
  /\ Idle /\ ~modificationInProgress
  /\ tree.managed[n]
  /\ modificationInProgress' = TRUE
  /\ base' = tree
  /\ Push(SwitchCommand(n))

ChangeModificationTarget(n) ==
  /\ MayPush /\ MacroHasRoom
  /\ tree.managed[n]
  /\ Push(SwitchCommand(n))
  /\ UNCHANGED <<modificationInProgress, base>>

(***************************************************************************)
(* endModification().  A session that pushed commands releases the target  *)
(* and closes the macro; QUndoStack::checkUndoLimit then destroys the      *)
(* oldest macro if there are too many.                                     *)
(***************************************************************************)
EndMacro ==
  LET c == SwitchCommand(NoNode)
      cs == Append(commands, c)
      es == Append(ends, Len(cs))
      drop == IF Len(es) > UndoLimit THEN es[1] ELSE 0
      gone == freed \cup Deleted(cs, Len(cs), 1..drop)
  IN  IF ~Runs(tree, freed, c) \/ DestructorFault(cs, Len(cs), es, 1..drop)
        THEN Crash
        ELSE /\ freed' = gone
             /\ SwitchTarget(currentModificationTarget, NoNode)
             /\ commands' = SubSeq(cs, drop + 1, Len(cs))
             /\ ends' = IF drop = 0 THEN es ELSE [k \in 1..Len(ends) |-> es[k + 1] - drop]
             /\ pos' = Len(cs) - drop
             /\ goal' = Len(cs) - drop
             /\ past' = SubSeq(Append(past, Snapshot(tree, revision)), drop + 1, Len(cs) + 1)
             /\ nodeIdMap' = nodeIdMap \ gone
             /\ nodeIdMapForUndoStack' = nodeIdMapForUndoStack \ gone
             /\ modifiedTargets' = {} /\ removedTargets' = {}
             /\ pushedNewCommandsOnTheStack' = FALSE
             /\ performedUndoRedo' = FALSE
             /\ UNCHANGED <<tree, revision, fault, closed, joined>>

EndModification ==
  /\ Idle /\ modificationInProgress
  /\ modificationInProgress' = FALSE
  /\ base' = base
  /\ IF pushedNewCommandsOnTheStack
       THEN EndMacro
       ELSE /\ performedUndoRedo' = FALSE
            /\ modifiedTargets' = {} /\ removedTargets' = {}
            /\ UNCHANGED <<tree, revision, freed, fault, closed, stack,
                           pushedNewCommandsOnTheStack, locks, ids, past, joined>>

(***************************************************************************)
(* undo() and redo(): QUndoStack runs the commands of one macro, or does   *)
(* nothing at the bottom, or the top, of the stack.                        *)
(***************************************************************************)
MayTravel == Idle /\ modificationInProgress /\ ~pushedNewCommandsOnTheStack

Boundaries == {0} \cup Range(ends)

(* A mistake: one command back instead of one macro, and past the bottom. *)
Undo_OneCommand ==
  /\ MayTravel
  /\ performedUndoRedo' = TRUE
  /\ goal' = pos - 1
  /\ UNCHANGED <<tree, revision, freed, fault, closed, commands, ends, pos,
                 modificationInProgress, pushedNewCommandsOnTheStack, locks, notes, ids,
                 past, base, joined>>

(* The boundary that undo(), or redo(), goes to. *)
Before(g) == g \in Boundaries /\ g < pos /\ \A b \in Boundaries : b < pos => b <= g
After(g) == g \in Boundaries /\ g > pos /\ \A b \in Boundaries : b > pos => b >= g

Undo ==
  /\ MayTravel
  /\ performedUndoRedo' = TRUE
  /\ \E g \in Boundaries \cup {pos} :
       /\ IF pos = 0 THEN g = pos ELSE Before(g)
       /\ goal' = g
  /\ UNCHANGED <<tree, revision, freed, fault, closed, commands, ends, pos,
                 modificationInProgress, pushedNewCommandsOnTheStack, locks, notes, ids,
                 past, base, joined>>

Redo ==
  /\ MayTravel
  /\ performedUndoRedo' = TRUE
  /\ \E g \in Boundaries \cup {pos} :
       /\ IF pos = Len(commands) THEN g = pos ELSE After(g)
       /\ goal' = g
  /\ UNCHANGED <<tree, revision, freed, fault, closed, commands, ends, pos,
                 modificationInProgress, pushedNewCommandsOnTheStack, locks, notes, ids,
                 past, base, joined>>

UndoCommand ==
  /\ ~fault /\ ~closed /\ pos > goal
  /\ IF Runs(tree, freed, commands[pos])
       THEN /\ RunUndo(commands[pos], {})
            /\ pos' = pos - 1
            /\ UNCHANGED <<freed, fault, closed, commands, ends, goal, pushedNewCommandsOnTheStack,
                           performedUndoRedo, past>>
       ELSE Crash
  /\ UNCHANGED <<modificationInProgress, base>>

RedoCommand ==
  /\ ~fault /\ ~closed /\ pos < goal
  /\ IF Runs(tree, freed, commands[pos + 1])
       THEN /\ RunRedo(commands[pos + 1], {})
            /\ pos' = pos + 1
            /\ UNCHANGED <<freed, fault, closed, commands, ends, goal, pushedNewCommandsOnTheStack,
                           performedUndoRedo, past>>
       ELSE Crash
  /\ UNCHANGED <<modificationInProgress, base>>

-----------------------------------------------------------------------------
(***************************************************************************)
(* Node::execute(c).  A command on a node of the tree is pushed if the     *)
(* node may be modified; one on a node outside the tree is pushed if the   *)
(* undo stack owns the root of that node, and otherwise only run: it is    *)
(* not recorded, and being undone is not possible.                         *)
(***************************************************************************)
(* A mistake: any access unit below the target may be edited. *)
CanBeModified_AnyUnit(n) ==
  /\ modificationInProgress
  /\ currentModificationTarget \in Ancestry(tree, n)

CanBeModified(n) ==
  /\ modificationInProgress
  /\ currentModificationTarget \in Ancestry(tree, n)
  /\ AccessLock(tree, n) = currentModificationLock

TopOf(n) == CHOOSE m \in Ancestry(tree, n) : tree.parent[m] = NoNode

Record(c) == MayPush /\ MacroHasRoom /\ Push(c)

RunUnrecorded(c) ==
  /\ ~fault /\ ~closed /\ pos = goal
  /\ IF Reached(tree, c) \cap freed # {}
       THEN Crash
       ELSE /\ tree' = Redone(tree, c)
            /\ revision' = Revised(tree', revision, c.target, 1)
            /\ UNCHANGED <<freed, fault, closed, stack, pushedNewCommandsOnTheStack,
                           performedUndoRedo, locks, notes, ids, past, joined>>

Execute(c) ==
  /\ revision[Root] < MaxRevision
  /\ \/ tree.managed[c.target] /\ CanBeModified(c.target) /\ Record(c)
     \/ /\ ~tree.managed[c.target] /\ c.target \notin freed
        /\ IF Ancestry(tree, c.target) \cap joined = {} THEN "build" \in Client
                                                          ELSE "detached" \in Client
        /\ revision[c.target] < MaxRevision
        /\ IF OwnedByStack(TopOf(c.target)) THEN Record(c) ELSE RunUnrecorded(c)
  /\ UNCHANGED <<modificationInProgress, base>>

(***************************************************************************)
(* The nodes client code may insert below n: parentless, not above n, new, *)
(* or put back after an earlier command removed them.  A node the stack    *)
(* owns must not go below a node outside the tree (the assertions of       *)
(* NodeOwningCommand).                                                     *)
(***************************************************************************)
Insertable(n) ==
  {m \in Node \ (freed \cup {Root}) :
     /\ tree.parent[m] = NoNode /\ n \notin Below(tree, m)
     /\ m \in joined => "move" \in Client /\ \E i \in 1..pos : Owned(commands, pos, i) = m
     /\ ~tree.managed[n] => ~OwnedByStack(m)}

Edit(kind, n, ins, rem, i) ==
  [kind |-> kind, target |-> n, ins |-> ins, rem |-> rem, pos |-> i,
   from |-> NoNode, to |-> NoNode, tracked |-> tree.managed[n]]

(* List::insert, at every position. *)
ListInsert(n, m) ==
  /\ n \in ListNode /\ m \in Insertable(n)
  /\ \E i \in 1..(Len(tree.kids[n]) + 1) : Execute(Edit("insert", n, m, NoNode, i))

(* List::remove. *)
ListRemove(n) ==
  /\ n \in ListNode
  /\ \E i \in DOMAIN tree.kids[n] :
       /\ ~tree.managed[n] => ~OwnedByStack(tree.kids[n][i])
       /\ Execute(Edit("remove", n, NoNode, tree.kids[n][i], i))

(* CompositeNode::set, replaceChild and remove, on an optional attribute. *)
CompositeSet(n, m) ==
  /\ n \notin ListNode
  /\ m \in Insertable(n) \cup {NoNode}
  /\ \E i \in DOMAIN tree.kids[n] :
       /\ ~tree.managed[n] => ~OwnedByStack(tree.kids[n][i])
       /\ Execute(Edit("change", n, m, tree.kids[n][i], i))

(* The setter of a plain field, such as Text::set. *)
FieldSet(n, v) ==
  /\ n \in FieldNode
  /\ Execute([Edit("set", n, NoNode, NoNode, 0) EXCEPT !.from = tree.value[n], !.to = v])

-----------------------------------------------------------------------------
(* save(): outside of a session; the store asks for the id of every node. *)
Save ==
  /\ Idle /\ ~modificationInProgress
  /\ nodeIdMap' = nodeIdMap \cup InTree(tree)
  /\ UNCHANGED <<tree, revision, freed, fault, closed, stack, flags, locks, notes,
                 nodeIdMapForUndoStack, past, base, joined>>

(***************************************************************************)
(* ~TreeManager: out of AllTreeManagers, delete the tree, then destroy the *)
(* undo stack, first command first.  With no manager left to ask, a        *)
(* command deletes the node it owns unless that node has a manager.        *)
(***************************************************************************)
Close ==
  /\ "close" \in Client
  /\ Idle /\ ~modificationInProgress
  /\ LET own == [i \in DOMAIN commands |-> Owned(commands, pos, i)]
         owners == {i \in DOMAIN commands : own[i] # NoNode}
         below == Below(tree, Root) \cup UNION {Below(tree, own[i]) : i \in owners}
     IN  IF \/ \E i \in owners : own[i] \in Below(tree, Root)
            \/ \E i, j \in owners : i # j /\ own[i] \in Below(tree, own[j])
            \/ below \cap freed # {}
           THEN Crash /\ UNCHANGED <<modificationInProgress, base>>
           ELSE /\ freed' = freed \cup below
                /\ closed' = TRUE
                /\ commands' = <<>> /\ ends' = <<>> /\ pos' = 0 /\ goal' = 0
                /\ past' = <<Snapshot(tree, revision)>>
                /\ nodeIdMap' = {} /\ nodeIdMapForUndoStack' = {}
                /\ UNCHANGED <<tree, revision, fault, flags, locks, notes, base, joined>>

Next ==
  \/ BeginModification
  \/ \E n \in Node : BeginModificationAt(n)
  \/ \E n \in Node : ChangeModificationTarget(n)
  \/ EndModification
  \/ Undo \/ Redo \/ UndoCommand \/ RedoCommand
  \/ \E n, m \in Node : ListInsert(n, m)
  \/ \E n \in Node : ListRemove(n)
  \/ \E n \in Node, m \in Node \cup {NoNode} : CompositeSet(n, m)
  \/ \E n \in FieldNode, v \in Value : FieldSet(n, v)
  \/ Save
  \/ Close

Spec == Init /\ [][Next]_vars

-----------------------------------------------------------------------------
TypeOK ==
  /\ tree \in Tree
  /\ revision \in [Node -> Int]
  /\ freed \subseteq Node /\ joined \subseteq Node
  /\ fault \in BOOLEAN /\ closed \in BOOLEAN
  /\ commands \in Seq(Command)
  /\ ends \in Seq(Nat)
  /\ pos \in 0..Len(commands) /\ goal \in 0..Len(commands)
  /\ modificationInProgress \in BOOLEAN
  /\ pushedNewCommandsOnTheStack \in BOOLEAN
  /\ performedUndoRedo \in BOOLEAN
  /\ currentModificationTarget \in Node \cup {NoNode}
  /\ currentModificationLock \in Unit \cup {Root, NoNode}
  /\ held \subseteq Unit \cup {Root}
  /\ modifiedTargets \subseteq Node /\ removedTargets \subseteq Node
  /\ nodeIdMap \subseteq Node /\ nodeIdMapForUndoStack \subseteq Node
  /\ past \in Seq([tree : Tree, revision : [Node -> Int]])
  /\ Len(past) = Len(commands) + 1
  /\ base \in Tree

(***************************************************************************)
(* The parent and the child pointers of all nodes agree, no node has two   *)
(* places, there is no cycle, and exactly the nodes below the root have    *)
(* the manager: setParent and the commands keep this through every edit,   *)
(* undo and redo.                                                          *)
(***************************************************************************)
TreeWellFormed == ~fault => WellFormed(tree)

(***************************************************************************)
(* Undo and redo restore: whenever the first p commands of the stack are   *)
(* done, by whatever route, the nodes of the tree, their fields and their  *)
(* revisions are those right after command p was first executed.           *)
(***************************************************************************)
SameNode(t, r, u, s, n) ==
  /\ t.managed[n] = u.managed[n] /\ t.kids[n] = u.kids[n]
  /\ t.parent[n] = u.parent[n] /\ t.value[n] = u.value[n] /\ r[n] = s[n]

HistoryRestored ==
  ~fault =>
    LET was == past[pos + 1]
    IN  \A n \in InTree(tree) \cup InTree(was.tree) :
          SameNode(tree, revision, was.tree, was.revision, n)

(***************************************************************************)
(* Deleting what leaves the undo stack (~NodeOwningCommand) and the        *)
(* manager (~TreeManager) never deletes a node twice, and no command that  *)
(* runs looks at a deleted node.                                           *)
(***************************************************************************)
NoUseAfterDelete == ~fault

(***************************************************************************)
(* What undo and redo may still need is alive: no node of the tree, no     *)
(* node that a command of the stack names and nothing below it is deleted. *)
(***************************************************************************)
Named(c) ==
  ({c.target, c.ins, c.rem} \cup (IF c.kind = "target" THEN {c.from, c.to} ELSE {})) \ {NoNode}

NothingDangles ==
  ~closed =>
    freed \cap (Below(tree, Root) \cup
                UNION {Below(tree, n) : n \in UNION {Named(c) : c \in Range(commands)}}) = {}

(***************************************************************************)
(* A node that was once part of the tree is in the tree, or below a node   *)
(* that a command on the stack owns and will delete, or deleted; after the *)
(* manager is gone, it is deleted: removed nodes do not leak.              *)
(***************************************************************************)
NoLeak ==
  ~fault =>
    \A n \in joined \ freed :
      /\ ~closed
      /\ \/ tree.managed[n]
         \/ \E i \in DOMAIN commands :
              Owned(commands, pos, i) # NoNode /\ n \in Below(tree, Owned(commands, pos, i))

(***************************************************************************)
(* SetModificationTarget, done, undone and redone: the session has locked  *)
(* exactly the access unit of its target, the target is part of the tree,  *)
(* and between sessions there is no target and nothing is locked.          *)
(***************************************************************************)
TargetLocked ==
  ~fault =>
    /\ currentModificationTarget = NoNode =>
         held = {} /\ currentModificationLock = NoNode
    /\ currentModificationTarget # NoNode =>
         /\ tree.managed[currentModificationTarget]
         /\ currentModificationLock = AccessLock(tree, currentModificationTarget)
         /\ held = {currentModificationLock}
    /\ ~modificationInProgress => currentModificationTarget = NoNode

(***************************************************************************)
(* The children and the field of a node of the tree change only while the  *)
(* access unit of that node is locked for writing, in undo and redo too.   *)
(***************************************************************************)
EditsUnderLock ==
  [][\A n \in InTree(tree) :
       (tree.kids[n] # tree'.kids[n] \/ tree.value[n] # tree'.value[n])
         => modificationInProgress /\ AccessLock(tree, n) \in held]_vars

(***************************************************************************)
(* Ids stay with their nodes: a node with an id has it in the map of where *)
(* the node is, nodeIdMap in the tree and nodeIdMapForUndoStack outside,   *)
(* and loses it only when it is deleted.                                   *)
(***************************************************************************)
IdsFollowTree ==
  ~fault /\ ~closed =>
    /\ nodeIdMap \subseteq InTree(tree)
    /\ nodeIdMapForUndoStack \cap (InTree(tree) \cup freed) = {}

IdsStay ==
  [][/\ IdsFollowTree'
     /\ nodeIdMap \cup nodeIdMapForUndoStack
          \subseteq nodeIdMap' \cup nodeIdMapForUndoStack' \cup freed']_vars

(***************************************************************************)
(* nodesModified, emitted by endModification, tells listeners all they     *)
(* must redraw and no node they may not touch: every node of the tree whose *)
(* children or field differ from the beginning of the session is among the *)
(* modified nodes, every node that left the tree among the removed ones,   *)
(* and none of the reported nodes is deleted.                              *)
(***************************************************************************)
ChangesReported ==
  [][EndModification /\ ~fault' =>
       /\ \A n \in InTree(tree) \cap InTree(base) :
            (tree.kids[n] # base.kids[n] \/ tree.value[n] # base.value[n])
              => n \in modifiedTargets
       /\ InTree(base) \ InTree(tree) \subseteq removedTargets
       /\ freed' \cap (modifiedTargets \cup removedTargets) = {}]_vars
=============================================================================
