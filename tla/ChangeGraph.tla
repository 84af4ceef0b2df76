---------------------------- MODULE ChangeGraph ----------------------------
(***************************************************************************)
(* The three-way merge of FilePersistence: MergeV2 turns the differences   *)
(* of two branches from their common base into changes, the ChangeGraph    *)
(* finds which of them conflict and which must come before which, and      *)
(* applies those it can to a copy of the base.  Changes that are left at   *)
(* the end are the conflicts that the user sees.                           *)
(*                                                                         *)
(* A tree maps every node id to its line in the file store, or to Absent:  *)
(* the id of its parent, its label (unique among siblings) and its content *)
(* (type and value).  QHash iterates in no fixed order, so changes are a   *)
(* set and any order of application is possible.  Lists, whose labels      *)
(* ListMergeComponentV2 renumbers, are not modelled.                       *)
(***************************************************************************)

CONSTANTS Id,         \* ids of the nodes, all but the root
          RootId,     \* the root of the project, which no branch changes
          Label,
          Content,    \* types and values of nodes
          NoContent,  \* an empty type and no value
          Absent,     \* a null id, or a node that is not in a tree
          Inputs      \* the bases and branches that are merged here

Line == [parent : Id \cup {RootId}, label : Label, content : Content \cup {NoContent}]

Trees == [Id -> Line \cup {Absent}]

Nodes(t) == {n \in Id : t[n] # Absent}

(***************************************************************************)
(* A tree of a store: parents are there, nothing is below itself, and no   *)
(* two children of a node have the same label.                             *)
(***************************************************************************)
Rooted(t) ==
  /\ \A n \in Nodes(t) : t[n].parent \in Nodes(t) \cup {RootId}
  /\ \A S \in SUBSET Nodes(t) : S # {} => \E n \in S : t[n].parent \notin S

LabelsUnique(t) ==
  \A n, m \in Nodes(t) :
    n # m => <<t[n].parent, t[n].label>> # <<t[m].parent, t[m].label>>

IsTree(t) == Rooted(t) /\ LabelsUnique(t)

ASSUME RootAssumption == RootId \notin Id
ASSUME AbsentAssumption == Absent \notin Line
ASSUME InputsAssumption ==
  \A t \in UNION {{i.base, i.branchA, i.branchB} : i \in Inputs} : t \in Trees /\ IsTree(t)

VARIABLES base, branchA, branchB,   \* the three trees that were loaded
          merged,                   \* treeMerged_
          changes,                  \* changes_
          dependencies,             \* <<c, d>>: c has to wait for d
          directConflicts,          \* <<c, d>> and <<d, c>>
          phase,                    \* "apply", "scan", "done", and "hang", "fault"
          okToBreakCycle, todo, removedSomeDependencies  \* of the scan for cycles

inputs == <<base, branchA, branchB>>
graph  == <<changes, dependencies, directConflicts>>
scan   == <<okToBreakCycle, todo, removedSomeDependencies>>
vars   == <<inputs, merged, graph, phase, scan>>

-----------------------------------------------------------------------------
(***************************************************************************)
(* The changes of a branch.  ChangeDescription classifies what happened to *)
(* a node, changesFromDiffChange splits it: a change of the place of the   *)
(* node (type, parent, label), which carries no content, and a change of   *)
(* its content, which carries everything.  A node that is inserted or      *)
(* deleted has no flags, so no change of content is made for it.           *)
(***************************************************************************)
Placed(line) == IF line = Absent THEN Absent ELSE [line EXCEPT !.content = NoContent]

ChangeType(from, to) ==
  CASE from = Absent -> "Insertion"
    [] to = Absent -> "Deletion"
    [] from # Absent /\ to # Absent /\ from.parent # to.parent -> "Move"
    [] from # Absent /\ to # Absent /\ from.parent = to.parent -> "Stationary"

Both(from, to) == from # Absent /\ to # Absent

PlaceChange(n, from, to, branch) ==
  [type |-> ChangeType(from, to), node |-> n, branches |-> {branch},
   from |-> Placed(from), to |-> Placed(to),
   label |-> Both(from, to) /\ from.label # to.label, content |-> FALSE]

ContentChange(n, from, to, branch) ==
  [type |-> "Stationary", node |-> n, branches |-> {branch},
   from |-> from, to |-> to, label |-> FALSE, content |-> TRUE]

PlaceChanges(t, u, branch) ==
  {PlaceChange(n, t[n], u[n], branch) : n \in {m \in Id : Placed(t[m]) # Placed(u[m])}}

ContentChanges(t, u, branch) ==
  {ContentChange(n, t[n], u[n], branch) :
     n \in {m \in Id : Both(t[m], u[m]) /\ t[m].content # u[m].content}}

Diff(t, u, branch) == PlaceChanges(t, u, branch) \cup ContentChanges(t, u, branch)

(* findIdenticalChange: what both branches changed alike is one change. *)
Identical(c, d) == [c EXCEPT !.branches = d.branches] = d

Merged(C, D) ==
  {c \in C : \A d \in D : ~Identical(c, d)}
  \cup {d \in D : \A c \in C : ~Identical(c, d)}
  \cup {[c EXCEPT !.branches = {"A", "B"}] : c \in {e \in C : \E d \in D : Identical(e, d)}}

-----------------------------------------------------------------------------
(***************************************************************************)
(* addDirectConflicts: the conflicts of a change c with a change d that    *)
(* was inserted before it.  The changes of branch A are inserted first,    *)
(* and the changes of one branch have no conflict among themselves.        *)
(***************************************************************************)
OldParent(c) == IF c.from = Absent THEN Absent ELSE c.from.parent
NewParent(c) == IF c.to = Absent THEN Absent ELSE c.to.parent

SameNodeConflict(c, d) == c.node = d.node /\ c.content = d.content

LabelConflict(c, d) ==
  /\ ~c.content /\ c.type # "Deletion" /\ d.type # "Deletion"
  /\ c.node # d.node
  /\ NewParent(c) = NewParent(d) /\ c.to.label = d.to.label

DeleteNonEmptyTreeConflict(c, d) ==
  c.type = "Deletion" /\ d.type \in {"Insertion", "Move"} /\ NewParent(d) = c.node

InsertOrMoveToDeletedConflict(c, d) == DeleteNonEmptyTreeConflict(d, c)

DirectConflict(c, d) ==
  \/ SameNodeConflict(c, d)
  \/ LabelConflict(c, d)
  \/ DeleteNonEmptyTreeConflict(c, d)
  \/ InsertOrMoveToDeletedConflict(c, d)

Conflicts(C) ==
  LET later == {e \in C \X C : /\ e[1].branches = {"B"} /\ "A" \in e[2].branches
                               /\ DirectConflict(e[1], e[2])}
  IN  later \cup {<<e[2], e[1]>> : e \in later}

(***************************************************************************)
(* addDependencies: c has to wait for d.                                   *)
(***************************************************************************)
ParentPresentDependency(c, d) ==
  c.type \in {"Insertion", "Move"} /\ d.type = "Insertion" /\ d.node = NewParent(c)

ChildrenRemovedDependency(c, d) ==
  /\ c.type = "Deletion" /\ OldParent(d) = c.node
  /\ d.type \in {"Deletion", "Move"}

LabelDependency(c, d) ==
  /\ c.type \in {"Insertion", "Move"} \/ c.label
  /\ d.from # Absent /\ d.from.label = c.to.label
  /\ NewParent(c) \in {OldParent(d), NewParent(d)}
  /\ \/ d.label
     \/ d.type = "Deletion"
     \/ d.type = "Move" /\ OldParent(d) = NewParent(c)

(* Where a walk along edges of E from n can come to: what is in every set   *)
(* of X that has n and that no edge leaves.                                 *)
Reachable(E, X, n) ==
  LET Closed == {S \in SUBSET X : n \in S /\ \A e \in E : e[1] \in S => e[2] \in S}
  IN  {m \in X : \A S \in Closed : m \in S}

(***************************************************************************)
(* A move waits for the move of the closest ancestor of its target.  The   *)
(* way up goes through inserted nodes first, then through the base.        *)
(***************************************************************************)
Up(C, t) ==
  {<<n, t[n].parent>> : n \in Nodes(t)}
  \cup {<<d.node, NewParent(d)>> : d \in {e \in C : e.type = "Insertion"}}

Ancestors(C, t, n) == Reachable(Up(C, t), Id \cup {RootId}, n)

Moved(C) == {c.node : c \in {d \in C : d.type = "Move"}}

MoveDependency(C, t, c, d) ==
  LET above == Ancestors(C, t, NewParent(c))
  IN  /\ c.type = "Move" /\ d.type = "Move"
      /\ d.node \in above
      /\ above \cap Moved(C) \subseteq Ancestors(C, t, d.node)

(* Mistakes: moves do not wait for each other; a deletion does not wait for *)
(* what becomes of the children.                                            *)
Dependencies_NoMoves(C, t) ==
  {e \in C \X C : \/ ParentPresentDependency(e[1], e[2])
                  \/ ChildrenRemovedDependency(e[1], e[2])
                  \/ LabelDependency(e[1], e[2])}

Dependencies_NoChildren(C, t) ==
  {e \in C \X C : \/ ParentPresentDependency(e[1], e[2])
                  \/ LabelDependency(e[1], e[2])
                  \/ MoveDependency(C, t, e[1], e[2])}

Dependencies(C, t) ==
  {e \in C \X C : \/ ParentPresentDependency(e[1], e[2])
                  \/ ChildrenRemovedDependency(e[1], e[2])
                  \/ LabelDependency(e[1], e[2])
                  \/ MoveDependency(C, t, e[1], e[2])}

(***************************************************************************)
(* performTrueMerge loads the trees and fills the graph.                   *)
(***************************************************************************)
Init ==
  /\ \E i \in Inputs : base = i.base /\ branchA = i.branchA /\ branchB = i.branchB
  /\ merged = base
  /\ changes = Merged(Diff(base, branchA, "A"), Diff(base, branchB, "B"))
  /\ dependencies = Dependencies(changes, base)
  /\ directConflicts = Conflicts(changes)
  /\ phase = "apply"
  /\ okToBreakCycle = {} /\ todo = {} /\ removedSomeDependencies = FALSE

-----------------------------------------------------------------------------
(***************************************************************************)
(* applyChange.  It has no defined outcome if the node, or the new parent, *)
(* is missing, or if it contradicts an assertion.                          *)
(***************************************************************************)
Applicable(t, c) ==
  CASE c.type = "Insertion" -> c.node \notin Nodes(t) /\ NewParent(c) \in Nodes(t) \cup {RootId}
    [] c.type = "Deletion" -> c.node \in Nodes(t) /\ \A n \in Nodes(t) : t[n].parent # c.node
    [] c.type = "Move" -> /\ c.node \in Nodes(t) /\ t[c.node].parent = OldParent(c)
                          /\ NewParent(c) \in Nodes(t) \cup {RootId}
    [] c.type = "Stationary" -> c.node \in Nodes(t)

(* Mistake: a move ends without the "same stuff as for stationary". *)
Applied_Break(t, c) ==
  CASE c.type = "Insertion" -> [t EXCEPT ![c.node] = c.to]
    [] c.type = "Deletion" -> [t EXCEPT ![c.node] = Absent]
    [] c.type = "Move" -> [t EXCEPT ![c.node].parent = NewParent(c)]
    [] c.type = "Stationary" ->
         [t EXCEPT ![c.node] =
            [@ EXCEPT !.label = IF c.label THEN c.to.label ELSE @,
                      !.content = IF c.content THEN c.to.content ELSE @]]

Applied(t, c) ==
  CASE c.type = "Insertion" -> [t EXCEPT ![c.node] = c.to]
    [] c.type = "Deletion" -> [t EXCEPT ![c.node] = Absent]
    [] c.type \in {"Move", "Stationary"} ->
         [t EXCEPT ![c.node] =
            [parent |-> IF c.type = "Move" THEN NewParent(c) ELSE @.parent,
             label |-> IF c.label THEN c.to.label ELSE @.label,
             content |-> IF c.content THEN c.to.content ELSE @.content]]

Independent(c) == \A d \in changes : <<c, d>> \notin dependencies

Ready == {c \in changes : Independent(c) /\ \A d \in changes : <<c, d>> \notin directConflicts}

WithoutChange(c) == {e \in dependencies : c \notin {e[1], e[2]}}

(* One step of applyIndependentNonConflictingChanges. *)
ApplyChange(c) ==
  /\ phase = "apply" /\ c \in Ready
  /\ IF Applicable(merged, c)
       THEN /\ merged' = Applied(merged, c)
            /\ changes' = changes \ {c}
            /\ dependencies' = WithoutChange(c)
            /\ UNCHANGED phase
       ELSE phase' = "fault" /\ UNCHANGED <<merged, changes, dependencies>>
  /\ UNCHANGED <<inputs, directConflicts, scan>>

(***************************************************************************)
(* removeDependenciesInsideNonConflictingAtomicChangeGroups.  A change may *)
(* be on a cycle that can be broken if it has no conflict and waits for    *)
(* one change only, of the same branch.                                    *)
(***************************************************************************)
WaitsFor(c) == {d \in changes : <<c, d>> \in dependencies}

MayBreakCycle ==
  {c \in changes : /\ ~c.content
                   /\ \A d \in changes : <<c, d>> \notin directConflicts
                   /\ \E d \in changes : WaitsFor(c) = {d} /\ d.branches = c.branches}

Scan ==
  /\ phase = "apply" /\ Ready = {}
  /\ phase' = "scan"
  /\ okToBreakCycle' = MayBreakCycle
  /\ todo' = changes
  /\ removedSomeDependencies' = FALSE
  /\ UNCHANGED <<inputs, merged, graph>>

(***************************************************************************)
(* The changes that the walk from c along dependencies collects: it ends   *)
(* when it is back at c, or meets a change that is not okToBreakCycle.     *)
(***************************************************************************)
Walk(c) ==
  Reachable({e \in dependencies : e[2] \in okToBreakCycle}, changes, c)

IsCycle(W, c) == \E d \in W : c \in WaitsFor(d)

Leaves(W) == \E d \in W : WaitsFor(d) \cap okToBreakCycle = {}

(* Mistake: a cycle of labels stays. *)
Remaining_All(W) == dependencies

(* The dependencies that stay when the cycle W is broken. *)
Remaining(W) ==
  {e \in dependencies :
     /\ e[1] \in W /\ e[1].type # "Deletion" => e[2].type = "Insertion"
     /\ e[2] \in W /\ e[2].type # "Insertion" => e[1].type = "Deletion"}

BreakCycle(c) ==
  /\ phase = "scan" /\ c \in todo
  /\ todo' = todo \ {c}
  /\ IF c \notin okToBreakCycle
       THEN UNCHANGED <<phase, dependencies, okToBreakCycle, removedSomeDependencies>>
       ELSE LET W == Walk(c)
            IN  /\ phase' = IF IsCycle(W, c) \/ Leaves(W) THEN phase ELSE "hang"
                /\ okToBreakCycle' = okToBreakCycle \ W
                /\ dependencies' = IF IsCycle(W, c) THEN Remaining(W) ELSE dependencies
                /\ removedSomeDependencies' = (removedSomeDependencies \/ IsCycle(W, c))
  /\ UNCHANGED <<inputs, merged, changes, directConflicts>>

EndScan ==
  /\ phase = "scan" /\ todo = {}
  /\ phase' = IF removedSomeDependencies THEN "apply" ELSE "done"
  /\ UNCHANGED <<inputs, merged, graph, scan>>

Next ==
  \/ \E c \in changes : ApplyChange(c) \/ BreakCycle(c)
  \/ Scan \/ EndScan

Spec == Init /\ [][Next]_vars /\ WF_vars(Next)

-----------------------------------------------------------------------------
TypeOK ==
  /\ {base, branchA, branchB, merged} \subseteq Trees
  /\ \A c \in changes :
       /\ DOMAIN c = {"type", "node", "branches", "from", "to", "label", "content"}
       /\ c.node \in Id /\ {c.from, c.to} \subseteq Line \cup {Absent}
       /\ c.branches \in (SUBSET {"A", "B"}) \ {{}}
       /\ c.content => c.type = "Stationary"
  /\ dependencies \subseteq changes \X changes
  /\ directConflicts \subseteq changes \X changes
  /\ okToBreakCycle \subseteq changes /\ todo \subseteq changes
  /\ phase \in {"apply", "scan", "done", "hang", "fault"}
  /\ removedSomeDependencies \in BOOLEAN

(***************************************************************************)
(* At the end the merged tree is a tree, in whatever order the changes     *)
(* were applied and however the branches moved nodes into each other: no   *)
(* node is left without its parent or below itself, and no two children    *)
(* of a node have the same label.  While a cycle is applied labels clash,  *)
(* and two nodes that change places are below each other for a moment.     *)
(***************************************************************************)
MergedIsTree == phase = "done" => IsTree(merged)

(***************************************************************************)
(* Every node is where the three-way merge of its line puts it, or, as     *)
(* long as a change of its place is left, where the base had it; its       *)
(* content is the merged one unless a change of it is left.  No change is  *)
(* lost, applied in part or over another one.  (Inserted nodes lose their  *)
(* content, see ContentKept.)                                              *)
(***************************************************************************)
ThreeWay(o, s, t) == IF s = o THEN t ELSE s

PlaceLeft(n) == \E c \in changes : c.node = n /\ ~c.content

ContentLeft(n) == \E c \in changes : c.node = n /\ c.content

MergedIsThreeWay ==
  \A n \in Id :
    /\ Placed(merged[n]) =
         IF PlaceLeft(n)
           THEN Placed(base[n])
           ELSE ThreeWay(Placed(base[n]), Placed(branchA[n]), Placed(branchB[n]))
    /\ n \in Nodes(base) /\ n \in Nodes(branchA) /\ n \in Nodes(branchB) =>
         merged[n].content =
           IF ContentLeft(n)
             THEN base[n].content
             ELSE ThreeWay(base[n].content, branchA[n].content, branchB[n].content)

(***************************************************************************)
(* No assertion of applyChange fails and no parent is missing, but for a   *)
(* node that one branch deletes and whose content the other changes.       *)
(***************************************************************************)
DeletedAndEdited(n) ==
  /\ n \in Nodes(base)
  /\ \/ n \notin Nodes(branchA) /\ n \in Nodes(branchB) /\ branchB[n].content # base[n].content
     \/ n \notin Nodes(branchB) /\ n \in Nodes(branchA) /\ branchA[n].content # base[n].content

ChangesApplicable == phase = "fault" => \E n \in Id : DeletedAndEdited(n)

(***************************************************************************)
(* The merge ends, however often cycles are broken and changes applied     *)
(* again (a fault, and a scan that hangs, end it as well).                 *)
(***************************************************************************)
MergeEnds == <>(phase \in {"done", "hang", "fault"})

(***************************************************************************)
(* What the code says of itself, and does not keep.                        *)
(***************************************************************************)
(* The walk along dependencies that looks for a cycle comes to an end. *)
ScanEnds == phase # "hang"

(* ChangeGraph.cpp:109-111: a change of the value of a node does not conflict *)
(* with a change of its place, so both can be applied, in either order.       *)
EditsApply == phase # "fault"

(* An inserted node has the type and the value it has in its branch. *)
ContentKept ==
  phase = "done" =>
    \A n \in Nodes(merged) \ Nodes(base) :
      merged[n].content \in {t[n].content : t \in {u \in {branchA, branchB} : n \in Nodes(u)}}

(* What one branch alone changed together is applied, cycle or not. *)
ConflictsBetweenBranches ==
  phase = "done" /\ changes # {} => UNION {c.branches : c \in changes} = {"A", "B"}
=============================================================================
