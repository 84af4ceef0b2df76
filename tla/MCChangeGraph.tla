--------------------------- MODULE MCChangeGraph ---------------------------
(* Instances of ChangeGraph for TLC. *)
EXTENDS ChangeGraph, Naturals, FiniteSets, TLC

CONSTANTS root, a, b, c, u, v, none, absent,
  Bases,                 \* the common bases
  MaxMoved, MaxEdited,   \* nodes whose place, or content, a branch changes
  MaxChanged             \* nodes that the branches change, together

At(p, l) == [parent |-> p, label |-> l, content |-> u]

(* Two siblings; one below the other; both, and a place to be inserted. *)
Siblings == (a :> At(root, 0)) @@ (b :> At(root, 1)) @@ (c :> absent)
Chain    == (a :> At(root, 0)) @@ (b :> At(a, 0)) @@ (c :> absent)
Family   == (a :> At(root, 0)) @@ (b :> At(a, 0)) @@ (c :> At(root, 1))

TwoBases  == {Siblings, Chain}
OneBase   == {Siblings}
BigFamily == {Family}

Differ(t, s) == {n \in Id : t[n] # s[n]}

(* All trees; new nodes have the content u. *)
Tree == {t \in [Id -> [parent : Id \cup {root}, label : Label, content : {u}] \cup {absent}] :
           IsTree(t)}

Edited(t, E) ==
  [n \in Id |-> IF n \in E /\ t[n] # absent THEN [t[n] EXCEPT !.content = v] ELSE t[n]]

Branches(o) ==
  {Edited(t, E) : t \in {s \in Tree : Cardinality(Differ(o, s)) <= MaxMoved},
                  E \in {D \in SUBSET Nodes(o) : Cardinality(D) <= MaxEdited}}

(* Both branches changed something, or the merge is a fast forward.  A new *)
(* node has a new id, so it is inserted by one branch or alike by both.    *)
TrueMerge(o, s, t) ==
  /\ s # o /\ t # o
  /\ Cardinality(Differ(o, s)) + Cardinality(Differ(o, t)) <= MaxChanged
  /\ \A n \in (Nodes(s) \cap Nodes(t)) \ Nodes(o) : s[n] = t[n]

Merges(o) ==
  {i \in [base : {o}, branchA : Branches(o), branchB : Branches(o)] :
     TrueMerge(o, i.branchA, i.branchB)}

MCInputs == UNION {Merges(o) : o \in Bases}
=============================================================================
