------------------------------ MODULE NodeTree ------------------------------
(***************************************************************************)
(* The node tree of ModelBase (src/ModelBase/src/nodes) and the commands   *)
(* that change it (src/ModelBase/src/commands), as operators on values.    *)
(*                                                                         *)
(* A tree is a record of four functions on nodes:                          *)
(*   kids[n]     the child slots of n: the nodes_ of a List, in order, or  *)
(*               the subnodes_ of a CompositeNode, NoNode where a slot is  *)
(*               empty;                                                    *)
(*   parent[n]   Node::parent_;                                            *)
(*   managed[n]  whether Node::manager_ is set (one TreeManager here);     *)
(*   value[n]    the plain field of a Text, Integer, Boolean, ... node.    *)
(* It describes every node of the program, those of client code that are   *)
(* not yet, or no longer, part of the managed tree included.               *)
(***************************************************************************)
EXTENDS SequencesExt

CONSTANTS Node,   \* the Node objects of the program, all constructed at the start
          NoNode, \* nullptr
          Root,   \* the root node of the managed tree
          Unit,   \* nodes whose accessLock() is overridden: own access units
          Value   \* what the plain field of a node may hold

ASSUME NoNodeAssumption == NoNode \notin Node
ASSUME RootAssumption == Root \in Node
ASSUME UnitAssumption == Unit \subseteq Node \ {Root}

Tree == [kids : [Node -> Seq(Node \cup {NoNode})],
         parent : [Node -> Node \cup {NoNode}],
         managed : [Node -> BOOLEAN],
         value : [Node -> Value]]

(***************************************************************************)
(* children(): the nodes in the slots of n.                                *)
(***************************************************************************)
Children(t, n) == Range(t.kids[n]) \ {NoNode}

(***************************************************************************)
(* The nodes a traversal from n through children() visits, n included: the *)
(* least set that holds n and the children of its members.                 *)
(***************************************************************************)
ClosedDown(t, S) == \A m \in S : Children(t, m) \subseteq S

Below(t, n) ==
  {m \in Node : \A S \in SUBSET Node : n \in S /\ ClosedDown(t, S) => m \in S}

(***************************************************************************)
(* The nodes a walk from n through parent() visits, n included.            *)
(***************************************************************************)
ClosedUp(t, S) == \A m \in S : t.parent[m] # NoNode => t.parent[m] \in S

Ancestry(t, n) ==
  {m \in Node : \A S \in SUBSET Node : n \in S /\ ClosedUp(t, S) => m \in S}

(***************************************************************************)
(* Node::accessLock(): the closest access unit on the way to the root; the *)
(* root lock of the manager, named by Root, if there is none.  The call is *)
(* only defined when the walk ends at a unit or at a node with a manager.  *)
(***************************************************************************)
UnitsAbove(t, n) == Ancestry(t, n) \cap Unit

AccessLock(t, n) ==
  IF UnitsAbove(t, n) = {}
    THEN Root
    ELSE CHOOSE u \in UnitsAbove(t, n) : UnitsAbove(t, n) \subseteq Ancestry(t, u)

HasAccessLock(t, n) == t.managed[n] \/ UnitsAbove(t, n) # {}

(***************************************************************************)
(* The parent and the child pointers of all nodes agree, no node has two   *)
(* places, there is no cycle, and exactly the nodes below the root have    *)
(* the manager.                                                            *)
(***************************************************************************)
WellFormed(t) ==
  /\ \A n \in Node : \A c \in Children(t, n) :
        t.parent[c] = n /\ t.managed[c] = t.managed[n] /\ n \notin Below(t, c)
  /\ \A n \in Node : t.parent[n] # NoNode => n \in Children(t, t.parent[n])
  /\ \A n \in Node : \A i, j \in DOMAIN t.kids[n] :
        t.kids[n][i] = t.kids[n][j] /\ t.kids[n][i] # NoNode => i = j
  /\ \A n \in Node : t.parent[n] = NoNode => (t.managed[n] <=> n = Root)
  /\ t.parent[Root] = NoNode
  /\ {n \in Node : t.managed[n]} \subseteq Below(t, Root)

-----------------------------------------------------------------------------
(***************************************************************************)
(* An undo command together with the NoteNodeChange that                   *)
(* TreeManager::pushCommandOnUndoStack pushes behind it.                   *)
(*   kind     the class: ListInsert, ListRemove, CompositeNodeChangeChild, *)
(*            FieldSet or SetModificationTarget;                           *)
(*   target   UndoCommand::target_;                                        *)
(*   ins,rem  the node that the command puts below, takes from, target;    *)
(*   pos      the slot;                                                    *)
(*   from,to  the old and new field, or the old and new target of          *)
(*            SetModificationTarget;                                       *)
(*   tracked  target had a manager when the command was built: only then   *)
(*            does a NodeOwningCommand own ins and rem, and does its       *)
(*            NoteNodeChange keep the target.                              *)
(***************************************************************************)
Kind == {"insert", "remove", "change", "set", "target"}

Command ==
  {c \in [kind : Kind, target : Node \cup {NoNode}, ins : Node \cup {NoNode},
           rem : Node \cup {NoNode}, pos : Nat, from : Node \cup Value \cup {NoNode},
           to : Node \cup Value \cup {NoNode}, tracked : BOOLEAN] :
     /\ c.kind = "target" => {c.from, c.to} \subseteq Node \cup {NoNode} /\ ~c.tracked
     /\ c.kind # "target" => c.target \in Node
     /\ c.kind = "set" => {c.from, c.to} \subseteq Value}

NodeOwning(c) == c.kind \in {"insert", "remove", "change"}

(* A mistake: the manager is set on n only and not on what is below it. *)
SetParent_NotBelow(t, n, p) ==
  IF n = NoNode
    THEN t
    ELSE [t EXCEPT !.parent = [@ EXCEPT ![n] = p],
                   !.managed = [@ EXCEPT ![n] = IF p = NoNode THEN FALSE ELSE t.managed[p]]]

(* Node::setParent(p) on n, with the manager of p (or none) pushed down. *)
SetParent(t, n, p) ==
  LET m == IF p = NoNode THEN FALSE ELSE t.managed[p]
      reached == IF m # t.managed[n] THEN Below(t, n) ELSE {n}
  IN  IF n = NoNode
        THEN t
        ELSE [t EXCEPT !.parent = [@ EXCEPT ![n] = p],
                       !.managed = [k \in Node |-> IF k \in reached THEN m ELSE @[k]]]

(***************************************************************************)
(* redo() and undo() of each command, as far as they change the tree.      *)
(***************************************************************************)
WithKids(t, n, s) == [t EXCEPT !.kids = [@ EXCEPT ![n] = s]]
WithValue(t, n, v) == [t EXCEPT !.value = [@ EXCEPT ![n] = v]]

Redone(t, c) ==
  CASE c.kind = "insert" ->
         SetParent(WithKids(t, c.target, InsertAt(t.kids[c.target], c.pos, c.ins)), c.ins, c.target)
    [] c.kind = "remove" ->
         WithKids(SetParent(t, c.rem, NoNode), c.target, RemoveAt(t.kids[c.target], c.pos))
    [] c.kind = "change" ->
         LET set == WithKids(t, c.target, ReplaceAt(t.kids[c.target], c.pos, c.ins))
         IN  SetParent(SetParent(set, c.ins, c.target), c.rem, NoNode)
    [] c.kind = "set" -> WithValue(t, c.target, c.to)
    [] c.kind = "target" -> t

(* A mistake: a removed node comes back at the end of the list. *)
Undone_AtEnd(t, c) ==
  CASE c.kind = "insert" ->
         SetParent(WithKids(t, c.target, RemoveAt(t.kids[c.target], c.pos)), c.ins, NoNode)
    [] c.kind = "remove" ->
         SetParent(WithKids(t, c.target, Append(t.kids[c.target], c.rem)), c.rem, c.target)
    [] c.kind = "change" ->
         LET set == WithKids(t, c.target, ReplaceAt(t.kids[c.target], c.pos, c.rem))
         IN  SetParent(SetParent(set, c.ins, NoNode), c.rem, c.target)
    [] c.kind = "set" -> WithValue(t, c.target, c.from)
    [] c.kind = "target" -> t

(* A mistake: the undone insertion leaves the node in its slot. *)
Undone_KeepsSlot(t, c) ==
  IF c.kind \in {"insert", "change"}
    THEN SetParent(SetParent(t, c.ins, NoNode), c.rem, c.target)
    ELSE IF c.kind = "remove"
           THEN SetParent(WithKids(t, c.target, InsertAt(t.kids[c.target], c.pos, c.rem)),
                          c.rem, c.target)
           ELSE t

Undone(t, c) ==
  CASE c.kind = "insert" ->
         SetParent(WithKids(t, c.target, RemoveAt(t.kids[c.target], c.pos)), c.ins, NoNode)
    [] c.kind = "remove" ->
         SetParent(WithKids(t, c.target, InsertAt(t.kids[c.target], c.pos, c.rem)), c.rem, c.target)
    [] c.kind = "change" ->
         LET set == WithKids(t, c.target, ReplaceAt(t.kids[c.target], c.pos, c.rem))
         IN  SetParent(SetParent(set, c.ins, NoNode), c.rem, c.target)
    [] c.kind = "set" -> WithValue(t, c.target, c.from)
    [] c.kind = "target" -> t
=============================================================================
