---------------------------- MODULE MCReferences ----------------------------
(***************************************************************************)
(* TLC instances of References: a package with two modules of which one is *)
(* imported as a whole.                                                    *)
(***************************************************************************)
EXTENDS References, TLC

CONSTANTS root, A, B, X, Y,      \* modules
          all, one,              \* imports
          plain, prefix, suffix, \* other references
          a, b, x, w, z          \* names

(* root { import A.*; import x; A { X } ; B { }; A.x; x }, and a new Y *)
Parents ==
  (root :> NoNode) @@ (A :> root) @@ (B :> root) @@ (X :> A) @@ (Y :> NoNode) @@
  (all :> root) @@ (one :> root) @@ (plain :> B) @@ (suffix :> root) @@ (prefix :> suffix)

Names ==
  (root :> w) @@ (A :> a) @@ (B :> b) @@ (X :> x) @@ (Y :> x) @@
  (all :> a) @@ (one :> x) @@ (plain :> x) @@ (suffix :> x) @@ (prefix :> a)

PrefixOf == [v \in Ref |-> IF v = suffix THEN prefix ELSE NoNode]

Targets ==
  (all :> A) @@ (one :> X) @@ (plain :> X) @@ (suffix :> X) @@ (prefix :> A)

Order == <<all, one>>

(* The names that nodes may be given. *)
FewNames == (A :> {b}) @@ (X :> {a}) @@ (prefix :> {b, z}) @@ [v \in Node |-> {}]

ModuleNames == (A :> {a, b}) @@ (X :> {a, x}) @@ (Y :> {x, b}) @@ [v \in Node |-> {}]

MoreNames == (prefix :> {a, b, z}) @@ ModuleNames

(* root { import A.x; A { X, Y }; B { z } }: an import whose own target is  *)
(* reached through a prefix, and what it brings under either of its names.  *)
NestedParents ==
  (root :> NoNode) @@ (A :> root) @@ (B :> root) @@ (X :> A) @@ (Y :> A) @@
  (one :> root) @@ (prefix :> one) @@ (plain :> B)

NestedNames ==
  (root :> w) @@ (A :> a) @@ (B :> b) @@ (X :> x) @@ (Y :> z) @@
  (one :> x) @@ (prefix :> a) @@ (plain :> z)

NestedPrefix == [v \in Ref |-> IF v = one THEN prefix ELSE NoNode]

NestedTargets == (one :> X) @@ (prefix :> A) @@ (plain :> NoNode)

NestedOrder == <<one>>

ImportNames == (one :> {x, z}) @@ [v \in Node |-> {}]

NestedNewNames == (X :> {x, z}) @@ (prefix :> {a, b}) @@ ImportNames
=============================================================================
