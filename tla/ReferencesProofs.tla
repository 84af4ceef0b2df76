-------------------------- MODULE ReferencesProofs --------------------------
(***************************************************************************)
(* References, for every tree and every number of references, names and    *)
(* sessions: no reference of the tree that needs to be resolved is ever    *)
(* forgotten, after resolvePending all are resolved, and what they found   *)
(* is what a search finds then.                                            *)
(*                                                                         *)
(* When a call of resolveHelper returns, it takes its reference from those *)
(* that are pending.  That loses none only if the same reference is not    *)
(* asked again further down the stack, and this holds because references   *)
(* ask each other in an order: a reference asks its prefix, and imports    *)
(* that are above it or further out.  The order is one as long as the tree *)
(* has no ring, which undo and redo keep from having one, since they find  *)
(* the tree that their command left behind.                                *)
(*                                                                         *)
(* What a reference found stays right as long as its search depends on     *)
(* nothing that changed.  So each step that changes a name, a parent or a  *)
(* target has to mark whatever reference may see it; a search that is      *)
(* under way has not asked those yet that are resolved meanwhile.          *)
(***************************************************************************)
EXTENDS References, SequenceTheorems, TLAPS

(***************************************************************************)
(* What is above what.                                                     *)
(***************************************************************************)
ClosedUp(p, X, S) == \A c \in S : p[c] \in X => p[c] \in S

LEMMA UpLeast ==
  ASSUME NEW p, NEW X, NEW n, NEW S \in SUBSET X, n \in S, ClosedUp(p, X, S)
  PROVE  Up(p, X, n) \subseteq S
BY DEF Up, ClosedUp

LEMMA UpSelf ==
  ASSUME NEW p, NEW X, NEW n \in X
  PROVE  n \in Up(p, X, n)
BY DEF Up

LEMMA UpStep ==
  ASSUME NEW p, NEW X, NEW n, NEW c \in Up(p, X, n), p[c] \in X
  PROVE  p[c] \in Up(p, X, n)
BY DEF Up

LEMMA UpSubset ==
  ASSUME NEW p, NEW X, NEW n
  PROVE  Up(p, X, n) \in SUBSET X /\ ClosedUp(p, X, Up(p, X, n))
BY UpStep DEF Up, ClosedUp

LEMMA UpTrans ==
  ASSUME NEW p, NEW X, NEW n, NEW c \in Up(p, X, n)
  PROVE  Up(p, X, c) \subseteq Up(p, X, n)
<1>. DEFINE U == Up(p, X, n)
<1>1. U \in SUBSET X /\ ClosedUp(p, X, U) /\ c \in U
  BY UpSubset
<1>. HIDE DEF U
<1>2. Up(p, X, c) \subseteq U
  BY <1>1, UpLeast
<1>. QED  BY <1>2 DEF U

(* What is above n, and not n itself, is above its parent. *)
LEMMA UpParent ==
  ASSUME NEW p, NEW X, NEW n \in X, NEW m \in Up(p, X, n), m # n
  PROVE  p[n] \in X /\ m \in Up(p, X, p[n])
<1>1. p[n] \in X
  <2>1. SUFFICES ASSUME p[n] \notin X PROVE FALSE
    OBVIOUS
  <2>2. {n} \in SUBSET X /\ n \in {n} /\ ClosedUp(p, X, {n})
    BY <2>1 DEF ClosedUp
  <2>3. Up(p, X, n) \subseteq {n}
    BY <2>2, UpLeast
  <2>. QED  BY <2>3
<1>. DEFINE U == Up(p, X, p[n])
<1>2. U \in SUBSET X /\ ClosedUp(p, X, U) /\ p[n] \in U
  BY <1>1, UpSubset, UpSelf
<1>. HIDE DEF U
<1>3. {n} \cup U \in SUBSET X /\ ClosedUp(p, X, {n} \cup U) /\ n \in {n} \cup U
  BY <1>2 DEF ClosedUp
<1>4. Up(p, X, n) \subseteq {n} \cup U
  BY <1>3, UpLeast
<1>. QED  BY <1>1, <1>4 DEF U

(* No nodes of X are below each other. *)
NoRing(p, X) == \A S \in SUBSET X : S # {} => \E n \in S : p[n] \notin S

LEMMA UpAgain ==
  ASSUME NEW p, NEW X, NoRing(p, X), NEW n \in X, p[n] \in X
  PROVE  n \notin Up(p, X, p[n])
<1>. SUFFICES ASSUME n \in Up(p, X, p[n]) PROVE FALSE
  OBVIOUS
<1>. DEFINE S == {m \in Up(p, X, p[n]) : n \in Up(p, X, m)}
<1>1. S \in SUBSET X /\ p[n] \in S
  BY UpSubset, UpSelf
<1>2. \A m \in S : p[m] \in S
  <2>. TAKE m \in S
  <2>1. m \in X /\ m \in Up(p, X, p[n]) /\ n \in Up(p, X, m)
    BY <1>1
  <2>2. CASE m = n
    BY <2>2, <1>1
  <2>3. CASE m # n
    <3>1. p[m] \in X /\ n \in Up(p, X, p[m])
      BY <2>1, <2>3, UpParent
    <3>2. p[m] \in Up(p, X, p[n])
      BY <2>1, <3>1, UpStep
    <3>. QED  BY <3>1, <3>2
  <2>. QED  BY <2>2, <2>3
<1>. QED  BY <1>1, <1>2 DEF NoRing

LEMMA UpOneWay ==
  ASSUME NEW p, NEW X, NoRing(p, X), NEW n \in X, NEW m \in X,
         m \in Up(p, X, n), n \in Up(p, X, m)
  PROVE  m = n
<1>. SUFFICES ASSUME m # n PROVE FALSE
  OBVIOUS
<1>1. p[n] \in X /\ m \in Up(p, X, p[n])
  BY UpParent
<1>2. n \in Up(p, X, p[n])
  BY <1>1, UpTrans
<1>. QED  BY <1>1, <1>2, UpAgain

(* The last one above n is one. *)
LEMMA UpLast ==
  ASSUME NEW p, NEW X, NoRing(p, X), NEW n \in X
  PROVE  \E m \in Up(p, X, n) : p[m] \notin X
<1>1. Up(p, X, n) \in SUBSET X /\ n \in Up(p, X, n) /\ ClosedUp(p, X, Up(p, X, n))
  BY UpSelf, UpSubset
<1>2. PICK m \in Up(p, X, n) : p[m] \notin Up(p, X, n)
  BY <1>1 DEF NoRing
<1>. QED  BY <1>1, <1>2 DEF ClosedUp

LEMMA UpLastOne ==
  ASSUME NEW p, NEW X, NEW n \in X,
         NEW m \in Up(p, X, n), p[m] \notin X, NEW q \in Up(p, X, n), p[q] \notin X
  PROVE  m = q
<1>. DEFINE S == {c \in Up(p, X, n) : m \in Up(p, X, c)}
<1>1. S \in SUBSET X /\ n \in S
  BY UpSubset, UpSelf
<1>2. ClosedUp(p, X, S)
  <2>. SUFFICES ASSUME NEW c \in S, p[c] \in X PROVE p[c] \in S
    BY DEF ClosedUp
  <2>1. c \in X /\ c \in Up(p, X, n) /\ m \in Up(p, X, c) /\ c # m
    BY <1>1
  <2>2. m \in Up(p, X, p[c])
    BY <2>1, UpParent
  <2>3. p[c] \in Up(p, X, n)
    BY <2>1, UpStep
  <2>. QED  BY <2>2, <2>3
<1>3. Up(p, X, n) \subseteq S
  <2>. HIDE DEF S
  <2>. QED  BY <1>1, <1>2, UpLeast
<1>4. q \in X /\ m \in Up(p, X, q)
  BY <1>1, <1>3
<1>. QED  BY <1>4, UpParent

LEMMA UpTotal ==
  ASSUME NEW p, NEW X, NEW n \in X, NEW m \in Up(p, X, n), NEW k \in Up(p, X, n)
  PROVE  m \in Up(p, X, k) \/ k \in Up(p, X, m)
<1>. DEFINE S == {c \in Up(p, X, n) : m \in Up(p, X, c) \/ c \in Up(p, X, m)}
<1>1. S \in SUBSET X /\ n \in S /\ m \in X
  BY UpSubset, UpSelf
<1>2. ClosedUp(p, X, S)
  <2>. SUFFICES ASSUME NEW c \in S, p[c] \in X PROVE p[c] \in S
    BY DEF ClosedUp
  <2>1. c \in X /\ p[c] \in Up(p, X, n)
    BY <1>1, UpStep
  <2>2. CASE c \in Up(p, X, m)
    BY <2>1, <2>2, UpStep
  <2>3. CASE m \in Up(p, X, c) /\ m # c
    BY <2>1, <2>3, UpParent
  <2>4. CASE m = c
    BY <1>1, <2>1, <2>4, UpSelf, UpStep
  <2>. QED  BY <2>2, <2>3, <2>4
<1>3. Up(p, X, n) \subseteq S
  <2>. HIDE DEF S
  <2>. QED  BY <1>1, <1>2, UpLeast
<1>. QED  BY <1>3

LEMMA UpAside ==
  ASSUME NEW p, NEW q, NEW X, NEW x, NEW n \in X, x \notin Up(p, X, n),
         \A c \in X \ {x} : q[c] = p[c]
  PROVE  Up(q, X, n) = Up(p, X, n)
<1>. DEFINE U == Up(p, X, n)
            V == Up(q, X, n)
<1>1. /\ U \in SUBSET X /\ n \in U /\ ClosedUp(p, X, U) /\ x \notin U
      /\ V \in SUBSET X /\ n \in V /\ ClosedUp(q, X, V)
  BY UpSubset, UpSelf
<1>2. V \subseteq U
  <2>. HIDE DEF U
  <2>1. ClosedUp(q, X, U)
    BY <1>1 DEF ClosedUp
  <2>. QED  BY <1>1, <2>1, UpLeast
<1>3. U \subseteq V
  <2>1. ClosedUp(p, X, V)
    <3>. HIDE DEF U, V
    <3>. QED  BY <1>1, <1>2 DEF ClosedUp
  <2>. HIDE DEF V
  <2>. QED  BY <1>1, <2>1, UpLeast
<1>. QED  BY <1>2, <1>3

(***************************************************************************)
(* Trees.                                                                  *)
(***************************************************************************)
LEMMA TreeParents ==
  ASSUME NEW p, IsTree(p)
  PROVE  /\ NoRing(p, Decl) /\ NoRing(p, Ref)
         /\ \A n \in Node : p[n] \in Node \cup {NoNode}
         /\ \A d \in Decl : p[d] \in Decl \cup {NoNode}
         /\ p[Root] = NoNode
BY DEF IsTree, NoRing, Node

LEMMA WholeLast ==
  ASSUME NEW p, IsTree(p), NEW r \in Ref
  PROVE  /\ Whole(p, r) \in Ref /\ Whole(p, r) \in Outward(p, r)
         /\ p[Whole(p, r)] \in Decl \cup {NoNode}
<1>1. \E m \in Up(p, Ref, r) : p[m] \notin Ref
  BY TreeParents, UpLast
<1>2. Whole(p, r) \in Outward(p, r) /\ p[Whole(p, r)] \notin Ref
  BY <1>1 DEF Whole, Outward
<1>3. Whole(p, r) \in Ref
  BY <1>2, UpSubset DEF Outward
<1>. QED  BY <1>2, <1>3, TreeParents DEF Node

LEMMA WholeOnly ==
  ASSUME NEW p, IsTree(p), NEW r \in Ref, NEW q \in Outward(p, r), p[q] \notin Ref
  PROVE  Whole(p, r) = q
<1>1. Whole(p, r) \in Up(p, Ref, r) /\ p[Whole(p, r)] \notin Ref
  BY WholeLast, ReferencesAssumption DEF Outward, Node
<1>. QED  BY <1>1, UpLastOne DEF Outward

LEMMA WholeSelf ==
  ASSUME NEW p, IsTree(p), NEW r \in Ref, p[r] \notin Ref
  PROVE  Whole(p, r) = r
BY WholeOnly, UpSelf DEF Outward

LEMMA WholePrefix ==
  ASSUME NEW p, IsTree(p), NEW r \in Dotted
  PROVE  /\ r \in Ref /\ Prefix[r] \in Ref /\ p[Prefix[r]] = r
         /\ r \in Outward(p, Prefix[r]) /\ Prefix[r] # r
         /\ Whole(p, Prefix[r]) = Whole(p, r)
<1>. DEFINE f == Prefix[r]
<1>1. r \in Ref /\ f \in Ref
  BY ReferencesAssumption DEF Dotted
<1>2. p[f] = r
  BY DEF IsTree
<1>3. f # r
  <2>. SUFFICES ASSUME f = r PROVE FALSE
    OBVIOUS
  <2>1. {r} \in SUBSET Ref /\ {r} # {} /\ \A n \in {r} : p[n] \in {r}
    BY <1>1, <1>2
  <2>. QED  BY <2>1, TreeParents DEF NoRing
<1>4. f \in Up(p, Ref, f)
  BY <1>1, UpSelf
<1>5. r \in Up(p, Ref, f)
  BY <1>1, <1>2, <1>4, UpStep
<1>6. Whole(p, r) \in Up(p, Ref, f) /\ p[Whole(p, r)] \notin Ref
  BY <1>1, <1>5, WholeLast, UpTrans, ReferencesAssumption DEF Outward, Node
<1>7. Whole(p, f) = Whole(p, r)
  BY <1>1, <1>6, WholeOnly DEF Outward
<1>. QED  BY <1>1, <1>2, <1>3, <1>5, <1>7 DEF Outward

LEMMA Grafted ==
  ASSUME NEW p, IsTree(p), NEW x \in Movable, p[x] = NoNode, NEW d \in Decl,
         x \notin Above(p, d)
  PROVE  IsTree([p EXCEPT ![x] = d])
<1>. DEFINE q == [p EXCEPT ![x] = d]
<1>1. /\ x \in Node /\ x # Root /\ \A r \in Dotted : x # Prefix[r]
      /\ p \in [Node -> Node \cup {NoNode}] /\ d \in Node /\ NoNode \notin Node
      /\ Decl \cap Ref = {} /\ Root \in Node
  BY ReferencesAssumption DEF IsTree, Node
<1>2. q \in [Node -> Node \cup {NoNode}] /\ \A n \in Node : q[n] = IF n = x THEN d ELSE p[n]
  BY <1>1
<1>3. \A r \in Dotted : Prefix[r] \in Node
  BY ReferencesAssumption DEF Dotted, Node
<1>4. ASSUME NEW S \in SUBSET Node, S # {}
      PROVE  \E n \in S : q[n] \notin S
  <2>1. CASE x \notin S
    <3>1. PICK n \in S : p[n] \notin S
      BY <1>4 DEF IsTree
    <3>. QED  BY <3>1, <2>1, <1>2
  <2>2. CASE x \in S /\ d \notin S
    BY <2>2, <1>2
  <2>3. CASE x \in S /\ d \in S
    <3>. DEFINE T == S \cap Up(p, Decl, d)
    <3>1. T \in SUBSET Decl /\ d \in T /\ x \notin T
      BY <2>3, UpSubset, UpSelf DEF Above
    <3>2. PICK n \in T : p[n] \notin T
      BY <3>1, TreeParents DEF NoRing
    <3>3. n \in Decl /\ n \in S /\ n # x /\ n \in Up(p, Decl, d)
      BY <3>1, <3>2
    <3>4. p[n] \in Decl \cup {NoNode}
      BY <3>3, TreeParents
    <3>5. p[n] \notin S
      <4>1. CASE p[n] = NoNode
        BY <4>1, <1>1
      <4>2. CASE p[n] \in Decl
        BY <4>2, <3>2, <3>3, UpStep
      <4>. QED  BY <3>4, <4>1, <4>2
    <3>. QED  BY <3>3, <3>5, <1>2
  <2>. QED  BY <2>1, <2>2, <2>3
<1>5. /\ q[Root] = NoNode /\ \A c \in Decl : q[c] \in Decl \cup {NoNode}
      /\ \A r \in Ref : q[r] \in Ref => Prefix[q[r]] = r
      /\ \A r \in Dotted : q[Prefix[r]] = r
  BY <1>1, <1>2, <1>3 DEF IsTree, Node
<1>. QED  BY <1>2, <1>4, <1>5 DEF IsTree

LEMMA CutOff ==
  ASSUME NEW p, IsTree(p), NEW x \in Movable
  PROVE  IsTree([p EXCEPT ![x] = NoNode])
<1>. DEFINE q == [p EXCEPT ![x] = NoNode]
<1>1. /\ x \in Node /\ x # Root /\ \A r \in Dotted : x # Prefix[r]
      /\ p \in [Node -> Node \cup {NoNode}] /\ NoNode \notin Node
      /\ Decl \cap Ref = {} /\ Root \in Node
  BY ReferencesAssumption DEF IsTree, Node
<1>2. q \in [Node -> Node \cup {NoNode}] /\ \A n \in Node : q[n] = IF n = x THEN NoNode ELSE p[n]
  BY <1>1
<1>3. \A r \in Dotted : Prefix[r] \in Node
  BY ReferencesAssumption DEF Dotted, Node
<1>4. ASSUME NEW S \in SUBSET Node, S # {}
      PROVE  \E n \in S : q[n] \notin S
  BY <1>1, <1>2, <1>4 DEF IsTree
<1>5. /\ q[Root] = NoNode /\ \A c \in Decl : q[c] \in Decl \cup {NoNode}
      /\ \A r \in Ref : q[r] \in Ref => Prefix[q[r]] = r
      /\ \A r \in Dotted : q[Prefix[r]] = r
  BY <1>1, <1>2, <1>3 DEF IsTree, Node
<1>. QED  BY <1>2, <1>4, <1>5 DEF IsTree

(* What is moved is not before a dot. *)
LEMMA MovableNode ==
  ASSUME NEW p, IsTree(p), NEW x \in Movable
  PROVE  /\ x \in Node /\ x # Root /\ p[x] \in Decl \cup {NoNode}
         /\ \A r \in Dotted : x # Prefix[r]
<1>1. x \in Node /\ x # Root /\ \A r \in Dotted : x # Prefix[r]
  BY ReferencesAssumption DEF Node
<1>2. ASSUME p[x] \in Ref PROVE FALSE
  <2>1. x \in Ref
    BY <1>1, <1>2, TreeParents, ReferencesAssumption DEF Node
  <2>2. Prefix[p[x]] = x
    BY <1>2, <2>1 DEF IsTree
  <2>3. p[x] \in Dotted
    BY <1>1, <1>2, <2>2, ReferencesAssumption DEF Dotted
  <2>. QED  BY <1>1, <2>2, <2>3
<1>. QED  BY <1>1, <1>2, TreeParents DEF Node

(***************************************************************************)
(* In what order references ask each other: a reference asks its prefix,   *)
(* or imports of a declaration that it is in, of those in the same one the *)
(* earlier ones.                                                           *)
(***************************************************************************)
Higher(p, u, v) ==
  /\ u \in Import /\ p[u] \in Decl /\ p[v] \in Decl /\ p[u] \in Above(p, p[v])
  /\ p[u] = p[v] => IsAbove(u, v)

Precedes(p, i, r) ==
  \/ Whole(p, i) = Whole(p, r) /\ i # r /\ r \in Outward(p, i)
  \/ Higher(p, Whole(p, i), Whole(p, r))

LEMMA ImportPlace ==
  ASSUME NEW i \in Import
  PROVE  i \in Ref /\ \E k \in DOMAIN ImportOrder : ImportOrder[k] = i
BY ReferencesAssumption DEF Import, Range

LEMMA HigherOnce ==
  ASSUME NEW p, NEW u
  PROVE  ~Higher(p, u, u)
<1>. SUFFICES ASSUME Higher(p, u, u) PROVE FALSE
  OBVIOUS
<1>1. PICK k \in DOMAIN ImportOrder : ImportOrder[k] = u
  BY ImportPlace DEF Higher
<1>2. k \in Int
  BY ReferencesAssumption
<1>3. k < k
  BY <1>1 DEF Higher, IsAbove
<1>. QED  BY <1>2, <1>3

LEMMA HigherTrans ==
  ASSUME NEW p, IsTree(p), NEW u, NEW v, NEW w, Higher(p, u, v), Higher(p, v, w)
  PROVE  Higher(p, u, w)
<1>1. p[u] \in Up(p, Decl, p[v]) /\ p[v] \in Up(p, Decl, p[w])
  BY DEF Higher, Above
<1>2. p[u] \in Up(p, Decl, p[w])
  BY <1>1, UpTrans
<1>3. ASSUME p[u] = p[w] PROVE IsAbove(u, w)
  <2>1. p[v] = p[w]
    BY <1>1, <1>3, UpOneWay, TreeParents DEF Higher
  <2>2. IsAbove(u, v) /\ IsAbove(v, w)
    BY <1>3, <2>1 DEF Higher
  <2>3. PICK k \in DOMAIN ImportOrder : ImportOrder[k] = v
    BY ImportPlace DEF Higher
  <2>4. DOMAIN ImportOrder \subseteq Int
    BY ReferencesAssumption
  <2>. QED  BY <2>2, <2>3, <2>4 DEF IsAbove
<1>. QED  BY <1>2, <1>3 DEF Higher, Above

LEMMA PrecedesOnce ==
  ASSUME NEW p, NEW r
  PROVE  ~Precedes(p, r, r)
BY HigherOnce DEF Precedes

LEMMA PrecedesTrans ==
  ASSUME NEW p, IsTree(p), NEW i \in Ref, NEW j \in Ref, NEW r \in Ref,
         Precedes(p, i, j), Precedes(p, j, r)
  PROVE  Precedes(p, i, r)
<1>1. CASE Whole(p, i) = Whole(p, j) /\ Whole(p, j) = Whole(p, r)
  <2>1. /\ i # j /\ j \in Up(p, Ref, i) /\ j # r /\ r \in Up(p, Ref, j)
    BY <1>1, HigherOnce DEF Precedes, Outward
  <2>2. r \in Up(p, Ref, i)
    BY <2>1, UpTrans
  <2>3. i # r
    BY <2>1, UpOneWay, TreeParents
  <2>. QED  BY <1>1, <2>2, <2>3 DEF Precedes, Outward
<1>2. CASE Whole(p, i) # Whole(p, j) \/ Whole(p, j) # Whole(p, r)
  BY <1>2, HigherTrans DEF Precedes
<1>. QED  BY <1>1, <1>2

(***************************************************************************)
(* Subtrees, and what it means for the others to remove or insert one.     *)
(***************************************************************************)
LEMMA BelowNodes ==
  ASSUME NEW p, NEW x
  PROVE  Below(p, x) \in SUBSET Node
BY DEF Below, Outward, Up, Node

(* Below what is removed or inserted nothing changes. *)
LEMMA UpChanged ==
  ASSUME NEW p, NEW q, NEW X, NEW x, NEW n, x \in Up(p, X, n),
         \A c \in X \ {x} : p[c] \in X => q[c] = p[c]
  PROVE  x \in Up(q, X, n)
<1>1. ASSUME NEW S \in SUBSET X, n \in S, \A c \in S : q[c] \in X => q[c] \in S, x \notin S
      PROVE  FALSE
  <2>1. \A c \in S : p[c] \in X => p[c] \in S
    BY <1>1
  <2>. QED  BY <1>1, <2>1 DEF Up
<1>. QED  BY <1>1 DEF Up

LEMMA UpSame ==
  ASSUME NEW p, NEW q, NEW X, NEW n, NEW m \in Up(p, X, n),
         \A c \in X : p[c] \in X => q[c] = p[c]
  PROVE  m \in Up(q, X, n)
BY DEF Up

LEMMA SubtreeKept ==
  ASSUME NEW p, IsTree(p), NEW x \in Movable, NEW d \in Decl \cup {NoNode},
         IsTree([p EXCEPT ![x] = d]), NEW n \in Below(p, x)
  PROVE  n \in Below([p EXCEPT ![x] = d], x)
<1>. DEFINE q == [p EXCEPT ![x] = d]
<1>1. x \in Node /\ Decl \cap Ref = {} /\ NoNode \notin Node /\ d \notin Ref
  BY ReferencesAssumption DEF Node
<1>2. \A c \in Node \ {x} : q[c] = p[c]
  BY <1>1 DEF IsTree
<1>3. CASE x \in Ref
  <2>1. n \in Ref /\ x \in Up(p, Ref, n)
    BY <1>1, <1>3 DEF Below, Outward
  <2>2. x \in Up(q, Ref, n)
    <3>. HIDE DEF q
    <3>. QED  BY <1>2, <2>1, UpChanged DEF Node
  <2>. QED  BY <1>1, <1>3, <2>1, <2>2 DEF Below, Outward
<1>4. CASE x \in Decl
  <2>1. ASSUME NEW c, x \in Up(p, Decl, c) PROVE x \in Up(q, Decl, c)
    <3>. HIDE DEF q
    <3>. QED  BY <1>2, <2>1, UpChanged DEF Node
  <2>2. CASE n \in Decl
    BY <1>1, <1>4, <2>1, <2>2 DEF Below, Above
  <2>3. CASE n \in Ref
    <3>1. Scope(p, n) # NoNode /\ x \in Up(p, Decl, Scope(p, n))
      BY <1>1, <1>4, <2>3 DEF Below, Above
    <3>. DEFINE w == Whole(p, n)
    <3>2. w \in Ref /\ w \in Up(p, Ref, n) /\ p[w] \in Decl \cup {NoNode}
      BY <2>3, WholeLast DEF Outward
    <3>3. \A c \in Ref : q[c] = p[c]
      BY <1>1, <1>2, <1>4 DEF Node
    <3>4. w \in Up(q, Ref, n) /\ q[w] = p[w] /\ q[w] \notin Ref
      <4>. HIDE DEF q, w
      <4>. QED  BY <1>1, <3>2, <3>3, UpSame DEF Node
    <3>5. Whole(q, n) = w
      <4>. HIDE DEF w
      <4>. QED  BY <2>3, <3>4, WholeOnly DEF Outward
    <3>6. Scope(q, n) = Scope(p, n)
      BY <3>4, <3>5 DEF Scope
    <3>. QED  BY <1>1, <1>4, <2>1, <2>3, <3>1, <3>6 DEF Below, Above
  <2>. QED  BY <1>4, <2>2, <2>3 DEF Below
<1>. QED  BY <1>1, <1>3, <1>4 DEF Node

LEMMA BelowSelf ==
  ASSUME NEW p, IsTree(p), NEW x \in Node
  PROVE  x \in Below(p, x)
BY UpSelf, ReferencesAssumption DEF Below, Above, Outward, Node

(* Tree q is p, but for the parent of x. *)
ButFor(x, p, q) == \A c \in Node \ {x} : q[c] = p[c]

(* What is not below a node that is moved has the same above it. *)
LEMMA BesideDecl ==
  ASSUME NEW p, NEW q, NEW x \in Movable, ButFor(x, p, q),
         NEW c \in Decl, c \notin Below(p, x)
  PROVE  Above(q, c) = Above(p, c) /\ x \notin Above(p, c)
<1>1. x \notin Up(p, Decl, c)
  <2>1. CASE x \in Decl
    BY <2>1 DEF Below, Above
  <2>2. CASE x \notin Decl
    BY <2>2, UpSubset
  <2>. QED  BY <2>1, <2>2
<1>2. \A e \in Decl \ {x} : q[e] = p[e]
  BY DEF Node, ButFor
<1>3. Up(q, Decl, c) = Up(p, Decl, c)
  BY <1>1, <1>2, UpAside
<1>. QED  BY <1>1, <1>3 DEF Above

LEMMA BesideRef ==
  ASSUME NEW p, IsTree(p), NEW q, IsTree(q), NEW x \in Movable, ButFor(x, p, q),
         NEW r \in Ref, r \notin Below(p, x)
  PROVE  /\ Whole(q, r) = Whole(p, r) /\ Whole(p, r) # x /\ x \notin Outward(p, r)
         /\ Scope(q, r) = Scope(p, r)
         /\ Scope(p, r) # NoNode => /\ Above(q, Scope(p, r)) = Above(p, Scope(p, r))
                                    /\ x \notin Above(p, Scope(p, r))
<1>1. x \in Node /\ Decl \cap Ref = {} /\ NoNode \notin Node
  BY ReferencesAssumption DEF Node
<1>2. x \notin Up(p, Ref, r)
  <2>1. CASE x \in Ref
    BY <1>1, <2>1 DEF Below, Outward
  <2>2. CASE x \notin Ref
    BY <2>2, UpSubset
  <2>. QED  BY <2>1, <2>2
<1>3. \A e \in Ref \ {x} : q[e] = p[e]
  BY DEF Node, ButFor
<1>4. Up(q, Ref, r) = Up(p, Ref, r)
  BY <1>2, <1>3, UpAside
<1>5. PICK w : w = Whole(p, r)
  OBVIOUS
<1>6. w \in Ref /\ w \in Up(p, Ref, r) /\ p[w] \in Decl \cup {NoNode}
  BY <1>5, WholeLast DEF Outward
<1>7. w # x /\ q[w] = p[w] /\ q[w] \notin Ref
  BY <1>1, <1>2, <1>3, <1>6 DEF Node
<1>8. Whole(q, r) = w
  BY <1>4, <1>6, <1>7, WholeOnly DEF Outward
<1>9. Scope(q, r) = p[w] /\ Scope(p, r) = p[w]
  BY <1>5, <1>7, <1>8 DEF Scope
<1>10. ASSUME p[w] # NoNode
       PROVE  x \notin Up(p, Decl, p[w]) /\ Up(q, Decl, p[w]) = Up(p, Decl, p[w])
  <2>1. x \notin Up(p, Decl, p[w])
    <3>1. CASE x \in Decl
      BY <1>9, <1>10, <3>1 DEF Below, Above
    <3>2. CASE x \notin Decl
      BY <3>2, UpSubset
    <3>. QED  BY <3>1, <3>2
  <2>2. p[w] \in Decl /\ \A e \in Decl \ {x} : q[e] = p[e]
    BY <1>6, <1>10 DEF Node, ButFor
  <2>. QED  BY <2>1, <2>2, UpAside
<1>. QED  BY <1>2, <1>5, <1>7, <1>8, <1>9, <1>10 DEF Above, Outward

(* A reference that is moved is a whole expression. *)
LEMMA MovedWhole ==
  ASSUME NEW p, IsTree(p), NEW x \in Movable, x \in Ref, NEW r \in Below(p, x)
  PROVE  r \in Ref /\ Whole(p, r) = x /\ Scope(p, r) = p[x]
<1>1. r \in Ref /\ x \in Outward(p, r)
  BY ReferencesAssumption DEF Below
<1>2. p[x] \notin Ref
  BY MovableNode, ReferencesAssumption DEF Node
<1>. QED  BY <1>1, <1>2, WholeOnly DEF Scope

LEMMA Detached ==
  ASSUME NEW p, IsTree(p), NEW x \in Movable, NEW q, q = [p EXCEPT ![x] = NoNode]
  PROVE  Below(q, Root) = Below(p, Root) \ Below(p, x)
<1>1. /\ IsTree(q) /\ x \in Node /\ x # Root /\ NoNode \notin Node
      /\ Root \in Decl /\ Decl \cap Ref = {} /\ q[x] = NoNode
      /\ q[Root] = NoNode /\ ButFor(x, p, q)
  BY CutOff, MovableNode, TreeParents, ReferencesAssumption DEF IsTree, ButFor
<1>2. ASSUME NEW n \in Node, n \notin Below(p, x)
      PROVE  n \in Below(q, Root) <=> n \in Below(p, Root)
  <2>1. CASE n \in Decl
    <3>1. Above(q, n) = Above(p, n)
      BY <1>1, <1>2, <2>1, BesideDecl
    <3>. QED  BY <1>1, <2>1, <3>1 DEF Below
  <2>2. CASE n \in Ref
    <3>1. /\ Scope(q, n) = Scope(p, n)
          /\ Scope(p, n) # NoNode => Above(q, Scope(p, n)) = Above(p, Scope(p, n))
      BY <1>1, <1>2, <2>2, BesideRef
    <3>. QED  BY <1>1, <2>2, <3>1 DEF Below
  <2>. QED  BY <2>1, <2>2 DEF Node
<1>3. ASSUME NEW n \in Node, n \in Below(p, x), n \in Below(q, Root)
      PROVE  FALSE
  <2>1. n \in Below(q, x)
    BY <1>1, <1>3, SubtreeKept
  <2>2. CASE x \in Ref
    <3>1. n \in Ref /\ Scope(q, n) = NoNode
      BY <1>1, <2>1, <2>2, MovedWhole
    <3>. QED  BY <1>1, <1>3, <3>1 DEF Below
  <2>3. CASE x \in Decl
    <3>1. ASSUME NEW c \in Decl, x \in Up(q, Decl, c), Root \in Up(q, Decl, c) PROVE FALSE
      <4>1. q[x] \notin Decl /\ q[Root] \notin Decl
        BY <1>1 DEF Node
      <4>. QED  BY <1>1, <3>1, <4>1, UpLastOne
    <3>2. CASE n \in Decl
      BY <1>1, <1>3, <2>1, <2>3, <3>1, <3>2 DEF Below, Above
    <3>3. CASE n \in Ref
      <4>1. /\ Scope(q, n) # NoNode /\ Root \in Up(q, Decl, Scope(q, n))
            /\ x \in Up(q, Decl, Scope(q, n))
        BY <1>1, <1>3, <2>1, <2>3, <3>3 DEF Below, Above
      <4>2. Scope(q, n) \in Decl
        BY <1>1, <3>3, <4>1, WholeLast DEF Scope
      <4>. QED  BY <3>1, <4>1, <4>2
    <3>. QED  BY <3>2, <3>3 DEF Node
  <2>. QED  BY <1>1, <2>2, <2>3 DEF Node
<1>4. \A n \in Node : n \in Below(q, Root) <=> n \in Below(p, Root) \ Below(p, x)
  BY <1>2, <1>3
<1>. QED  BY <1>4, BelowNodes

(* What has no parent is not above what is in the tree. *)
LEMMA NotAboveTree ==
  ASSUME NEW p, IsTree(p), NEW x \in Movable, p[x] = NoNode, NEW d \in Decl \cap Below(p, Root)
  PROVE  x \notin Above(p, d) /\ d \notin Below(p, x)
<1>1. /\ Root \in Decl /\ p[Root] \notin Decl /\ x # Root /\ p[x] \notin Decl
      /\ Decl \cap Ref = {}
  BY TreeParents, MovableNode, ReferencesAssumption DEF Node
<1>2. Root \in Up(p, Decl, d)
  BY <1>1 DEF Below, Above
<1>3. x \notin Up(p, Decl, d)
  BY <1>1, <1>2, UpLastOne
<1>. QED  BY <1>1, <1>3 DEF Below, Above

LEMMA Attached ==
  ASSUME NEW p, IsTree(p), NEW x \in Movable, p[x] = NoNode, NEW d \in Decl \cap Below(p, Root),
         NEW q, q = [p EXCEPT ![x] = d]
  PROVE  IsTree(q) /\ Below(q, Root) = Below(p, Root) \cup Below(p, x)
<1>1. /\ x \in Node /\ x # Root /\ NoNode \notin Node /\ p \in [Node -> Node \cup {NoNode}]
      /\ Root \in Decl /\ Decl \cap Ref = {} /\ q[x] = d
      /\ x \notin Above(p, d) /\ d \notin Below(p, x) /\ ButFor(x, p, q)
  BY MovableNode, NotAboveTree, ReferencesAssumption DEF IsTree, ButFor
<1>2. IsTree(q)
  BY <1>1, Grafted
<1>3. ASSUME NEW n \in Node, n \notin Below(p, x)
      PROVE  n \in Below(q, Root) <=> n \in Below(p, Root)
  <2>1. CASE n \in Decl
    <3>1. Above(q, n) = Above(p, n)
      BY <1>1, <1>2, <1>3, <2>1, BesideDecl
    <3>. QED  BY <1>1, <2>1, <3>1 DEF Below
  <2>2. CASE n \in Ref
    <3>1. /\ Scope(q, n) = Scope(p, n)
          /\ Scope(p, n) # NoNode => Above(q, Scope(p, n)) = Above(p, Scope(p, n))
      BY <1>1, <1>2, <1>3, <2>2, BesideRef
    <3>. QED  BY <1>1, <2>2, <3>1 DEF Below
  <2>. QED  BY <2>1, <2>2 DEF Node
<1>4. Root \in Up(q, Decl, d)
  <2>1. Above(q, d) = Above(p, d)
    BY <1>1, <1>2, BesideDecl
  <2>. QED  BY <1>1, <2>1 DEF Below, Above
<1>5. ASSUME NEW n \in Node, n \in Below(p, x)
      PROVE  n \in Below(q, Root)
  <2>1. n \in Below(q, x)
    BY <1>1, <1>2, <1>5, SubtreeKept
  <2>2. CASE x \in Ref
    <3>1. n \in Ref /\ Scope(q, n) = d
      BY <1>1, <1>2, <2>1, <2>2, MovedWhole
    <3>. QED  BY <1>1, <1>4, <3>1 DEF Below, Above, Node
  <2>3. CASE x \in Decl
    <3>1. ASSUME NEW c, x \in Up(q, Decl, c) PROVE Root \in Up(q, Decl, c)
      <4>1. d \in Up(q, Decl, c)
        BY <1>1, <3>1, UpStep
      <4>. QED  BY <1>4, <4>1, UpTrans
    <3>2. CASE n \in Decl
      BY <1>1, <2>1, <2>3, <3>1, <3>2 DEF Below, Above
    <3>3. CASE n \in Ref
      BY <1>1, <2>1, <2>3, <3>1, <3>3 DEF Below, Above
    <3>. QED  BY <3>2, <3>3 DEF Node
  <2>. QED  BY <1>1, <2>2, <2>3 DEF Node
<1>6. \A n \in Node : n \in Below(q, Root) <=> n \in Below(p, Root) \cup Below(p, x)
  BY <1>3, <1>5
<1>. QED  BY <1>2, <1>6, BelowNodes
(***************************************************************************)
(* Types.                                                                  *)
(***************************************************************************)
LEMMA MarkedRefs ==
  ASSUME NEW p, NEW tm, NEW x, NEW names, NEW d
  PROVE  /\ ReferencesIn(p, tm, x) \in SUBSET Ref
         /\ WithNames(p, tm, x, names) \in SUBSET Ref
         /\ AfterNewSubTree(p, tm, x, d) \in SUBSET Ref
<1>1. \A y : ReferencesIn(p, tm, y) \in SUBSET Ref
  BY DEF ReferencesIn
<1>2. \A ns : \A y : WithNames(p, tm, y, ns) \in SUBSET Ref
  BY <1>1 DEF WithNames
<1>. QED  BY <1>1, <1>2 DEF AfterNewSubTree

LEMMA MarkingTypes ==
  ASSUME TypeOK, NEW R \in SUBSET Ref, SetResolutionNeeded(R)
  PROVE  /\ state' \in [Ref -> {"needed", "resolving", "established"}]
         /\ pending' \in SUBSET Ref
BY DEF SetResolutionNeeded, TypeOK

LEMMA PerformTypes ==
  ASSUME TypeOK, NEW c \in Commands, Perform(c)
  PROVE  /\ parent' \in [Node -> Node \cup {NoNode}] /\ name' \in [Node -> Name]
         /\ managed' \in SUBSET Node
         /\ state' \in [Ref -> {"needed", "resolving", "established"}]
         /\ pending' \in SUBSET Ref
         /\ astray' \in SUBSET (Node \X (Node \cup {NoNode}))
<1>1. CASE c.what = "name"
  <2>1. c.node \in Node /\ c.new \in Name
    BY <1>1 DEF Commands
  <2>2. SetNameField(c.node, c.old, c.new)
    BY <1>1 DEF Perform
  <2>3. PICK R \in SUBSET Ref : SetResolutionNeeded(R)
    BY <2>2, MarkedRefs DEF SetNameField
  <2>. QED  BY <2>1, <2>2, <2>3, MarkingTypes DEF SetNameField, TypeOK
<1>2. CASE c.what # "name"
  <2>1. c.node \in Movable /\ c.old \in Decl \cup {NoNode} /\ c.new \in Decl \cup {NoNode}
    BY <1>2 DEF Commands
  <2>2. SetParent(c.node, c.old, c.new)
    BY <1>2 DEF Perform
  <2>3. PICK R \in SUBSET Ref : SetResolutionNeeded(R)
    BY <2>2, MarkedRefs DEF SetParent
  <2>4. state' \in [Ref -> {"needed", "resolving", "established"}] /\ pending' \in SUBSET Ref
    BY <2>3, MarkingTypes
  <2>5. c.node \in Node /\ Decl \subseteq Node
    BY <2>1, ReferencesAssumption DEF Node
  <2>6. parent' \in [Node -> Node \cup {NoNode}] /\ managed' \in SUBSET Node /\ name' = name
    BY <2>1, <2>2, <2>5, BelowNodes DEF SetParent, TypeOK
  <2>7. astray' \in SUBSET (Node \X (Node \cup {NoNode}))
    BY <2>1, <2>2, <2>5 DEF SetParent, TypeOK
  <2>. QED  BY <2>4, <2>6, <2>7 DEF TypeOK
<1>. QED  BY <1>1, <1>2

LEMMA AsksImports ==
  ASSUME NEW c, NEW d, NEW n
  PROVE  /\ Asks(c, d, n) \in SUBSET Ref
         /\ \A i \in Asks(c, d, n) : i \in Import /\ parent[i] = d /\ IsAbove(i, c)
BY ImportPlace DEF Asks

LEMMA GivenDecls ==
  ASSUME TypeOK, NEW call, NEW I \in SUBSET Ref
  PROVE  Given(call, I) \in SUBSET Decl
<1>1. ASSUME NEW i, NEW t \in Decl \cup {NoNode}, NEW n
      PROVE  Brings(i, t, n) \in SUBSET Decl
  BY <1>1 DEF Brings, Named
<1>2. \A i \in I : (IF state[i] = "established" THEN target[i] ELSE NoNode) \in Decl \cup {NoNode}
  BY DEF TypeOK
<1>. QED  BY <1>1, <1>2 DEF Given

LEMMA CallTyped ==
  ASSUME TypeOK, IsTree(parent), NEW r \in Ref, NEW indirect \in BOOLEAN
  PROVE  Call(r, indirect) \in Calls
<1>. DEFINE top == Whole(parent, r)
            place == IF r \in Dotted THEN NoNode ELSE parent[top]
            asks == CASE r \in Dotted -> {Prefix[r]}
                      [] r \notin Dotted /\ place = NoNode -> {}
                      [] r \notin Dotted /\ place # NoNode -> Asks(top, place, name[r])
<1>1. top \in Node /\ place \in Decl \cup {NoNode}
  BY WholeLast DEF Node
<1>2. asks \in SUBSET Ref
  <2>1. CASE r \in Dotted
    BY <2>1, WholePrefix
  <2>2. CASE r \notin Dotted
    BY <2>2, AsksImports
  <2>. QED  BY <2>1, <2>2
<1>3. Call(r, indirect) = [ref |-> r, indirect |-> indirect, child |-> top, place |-> place,
                           asks |-> asks, asked |-> NoNode, found |-> {}]
  BY DEF Call
<1>. HIDE DEF top, place, asks
<1>. QED  BY <1>1, <1>2, <1>3 DEF Calls

(* The stack of calls. *)
LEMMA StackOps ==
  ASSUME NEW S, NEW s \in Seq(S), s # <<>>
  PROVE  /\ Len(s) \in Nat \ {0} /\ Last(s) = s[Len(s)] /\ Last(s) \in S
         /\ Front(s) \in Seq(S) /\ Len(Front(s)) = Len(s) - 1
         /\ \A k \in 1..(Len(s) - 1) : Front(s)[k] = s[k]
<1>1. Len(s) \in Nat \ {0} /\ s[Len(s)] \in S
  OBVIOUS
<1>2. Front(s) = SubSeq(s, 1, Len(s) - 1)
  BY DEF Front
<1>3. SubSeq(s, 1, Len(s) - 1) = [k \in 1..(Len(s) - 1) |-> s[k]]
  BY <1>1
<1>4. /\ [k \in 1..(Len(s) - 1) |-> s[k]] \in Seq(S)
      /\ Len([k \in 1..(Len(s) - 1) |-> s[k]]) = Len(s) - 1
  <2>1. \A k \in 1..(Len(s) - 1) : s[k] \in S
    BY <1>1
  <2>2. Len(s) - 1 \in Nat
    BY <1>1
  <2>. QED  BY <2>1, <2>2
<1>5. PICK f : f = Front(s)
  OBVIOUS
<1>6. f \in Seq(S) /\ Len(f) = Len(s) - 1 /\ \A k \in 1..(Len(s) - 1) : f[k] = s[k]
  BY <1>2, <1>3, <1>4, <1>5
<1>. QED  BY <1>1, <1>5, <1>6 DEF Last

LEMMA StackReplace ==
  ASSUME NEW S, NEW s \in Seq(S), s # <<>>, NEW e \in S
  PROVE  /\ Append(Front(s), e) \in Seq(S) /\ Len(Append(Front(s), e)) = Len(s)
         /\ \A k \in 1..Len(s) : Append(Front(s), e)[k] = IF k = Len(s) THEN e ELSE s[k]
<1>1. PICK f \in Seq(S) : f = Front(s)
  BY StackOps
<1>2. Len(f) = Len(s) - 1 /\ Len(s) \in Nat \ {0} /\ \A k \in 1..(Len(s) - 1) : f[k] = s[k]
  BY <1>1, StackOps
<1>3. Append(f, e) \in Seq(S) /\ Len(Append(f, e)) = Len(s)
  BY <1>2
<1>4. \A k \in 1..Len(s) : Append(f, e)[k] = IF k = Len(s) THEN e ELSE s[k]
  BY <1>2
<1>. QED  BY <1>1, <1>3, <1>4

(***************************************************************************)
(* The tree stays one, whatever is undone and done again: each state of it *)
(* between two commands of the stack is what the commands make of the      *)
(* others, and in each the command finds what it takes from its node.      *)
(***************************************************************************)
Snapshots ==
  {s \in [parent : [Node -> Node \cup {NoNode}], name : [Node -> Name]] : IsTree(s.parent)}

Present == [parent |-> parent, name |-> name]

After(s, c) ==
  IF c.what = "name" THEN [s EXCEPT !.name = [s.name EXCEPT ![c.node] = c.new]]
                     ELSE [s EXCEPT !.parent = [s.parent EXCEPT ![c.node] = c.new]]

Fits(s, c) ==
  IF c.what = "name"
    THEN /\ c.old = s.name[c.node]
         /\ c.node \in Decl => c.node \in Below(s.parent, Root)
    ELSE /\ c.old = s.parent[c.node]
         /\ \/ c.new = NoNode /\ c.node \in Below(s.parent, Root)
            \/ c.old = NoNode /\ c.new \in Decl \cap Below(s.parent, Root)

Joins(s, c, t) ==
  t = After(s, c) /\ s = After(t, Undone(c)) /\ Fits(s, c) /\ Fits(t, Undone(c))

Linked(past, h) ==
  /\ past \in [0..Len(h) -> Snapshots]
  /\ \A k \in 1..Len(h) : Joins(past[k-1], h[k], past[k])

TreeLinked == \E past : Linked(past, history) /\ past[position] = Present

(* What is managed is what is below the root. *)
InTree == managed = Below(parent, Root)

TreeInv == TreeLinked /\ InTree

LEMMA LinkedTree ==
  ASSUME TypeOK, TreeLinked
  PROVE  IsTree(parent)
<1>1. Present \in Snapshots
  BY DEF TypeOK, TreeLinked, Linked
<1>. QED  BY <1>1 DEF Snapshots, Present

LEMMA PresentSnapshot ==
  ASSUME TypeOK, IsTree(parent)
  PROVE  Present \in Snapshots /\ Present.parent = parent /\ Present.name = name
BY DEF Present, Snapshots, TypeOK

LEMMA PerformPresent ==
  ASSUME NEW c, Perform(c)
  PROVE  Present' = After(Present, c)
<1>1. CASE c.what = "name"
  BY <1>1 DEF Perform, After, SetNameField, Present
<1>2. CASE c.what # "name"
  BY <1>2 DEF Perform, After, SetParent, Present
<1>. QED  BY <1>1, <1>2

LEMMA UndoneCommand ==
  ASSUME NEW c \in Commands
  PROVE  /\ Undone(c) \in Commands /\ Undone(c).what = c.what /\ Undone(c).node = c.node
         /\ Undone(c).old = c.new /\ Undone(c).new = c.old
<1>1. CASE c.what = "name"
  BY <1>1 DEF Commands, Undone
<1>2. CASE c.what # "name"
  BY <1>2 DEF Commands, Undone
<1>. QED  BY <1>1, <1>2

LEMMA CommandTyped ==
  ASSUME TypeOK
  PROVE  /\ \A x \in Node, old, new \in Name : Command("name", x, old, new) \in Commands
         /\ \A x \in Movable, old, new \in Decl \cup {NoNode} :
              Command("parent", x, old, new) \in Commands
BY DEF Command, Commands, TypeOK

(* What a command did is undone by its opposite. *)
LEMMA RenameJoins ==
  ASSUME NEW s \in Snapshots, NEW c \in Commands, c.what = "name", Fits(s, c)
  PROVE  After(s, c) \in Snapshots /\ Joins(s, c, After(s, c))
<1>1. /\ c.node \in Node /\ c.old \in Name /\ c.new \in Name
      /\ s.parent \in [Node -> Node \cup {NoNode}] /\ s.name \in [Node -> Name]
      /\ s = [parent |-> s.parent, name |-> s.name] /\ IsTree(s.parent)
  BY DEF Commands, Snapshots
<1>2. PICK t : t = After(s, c)
  OBVIOUS
<1>3. t = [parent |-> s.parent, name |-> [s.name EXCEPT ![c.node] = c.new]]
  BY <1>1, <1>2 DEF After
<1>4. /\ t.parent = s.parent /\ t.name = [s.name EXCEPT ![c.node] = c.new]
      /\ t.name \in [Node -> Name] /\ t \in Snapshots
  BY <1>1, <1>3 DEF Snapshots
<1>5. PICK u : u = Undone(c)
  OBVIOUS
<1>6. u.what = "name" /\ u.node = c.node /\ u.old = c.new /\ u.new = c.old
  BY <1>5, UndoneCommand
<1>7. After(t, u) = [parent |-> s.parent, name |-> [t.name EXCEPT ![c.node] = c.old]]
  BY <1>3, <1>4, <1>6 DEF After
<1>8. c.old = s.name[c.node] /\ (c.node \in Decl => c.node \in Below(s.parent, Root))
  BY DEF Fits
<1>9. [t.name EXCEPT ![c.node] = c.old] = s.name
  BY <1>1, <1>4, <1>8
<1>10. After(t, u) = s
  BY <1>1, <1>7, <1>9
<1>11. Fits(t, u)
  BY <1>1, <1>4, <1>6, <1>8 DEF Fits
<1>. QED  BY <1>2, <1>4, <1>5, <1>10, <1>11 DEF Joins

(* Where a node of the tree is removed from is in the tree without it. *)
LEMMA HomeStays ==
  ASSUME NEW p, IsTree(p), NEW x \in Movable, x \in Below(p, Root)
  PROVE  p[x] \in Decl /\ p[x] \in Below(p, Root) \ Below(p, x)
<1>1. /\ x \in Node /\ x # Root /\ p[x] \in Decl \cup {NoNode} /\ Root \in Decl
      /\ Decl \cap Ref = {} /\ NoNode \notin Node
  BY MovableNode, ReferencesAssumption
<1>2. CASE x \in Decl
  <2>1. Root \in Up(p, Decl, x)
    BY <1>1, <1>2 DEF Below, Above
  <2>2. p[x] \in Decl /\ Root \in Up(p, Decl, p[x])
    BY <1>1, <1>2, <2>1, UpParent
  <2>3. x \notin Up(p, Decl, p[x])
    BY <1>2, <2>2, UpAgain, TreeParents
  <2>. QED  BY <1>1, <1>2, <2>2, <2>3 DEF Below, Above
<1>3. CASE x \in Ref
  <2>1. Whole(p, x) = x
    BY <1>1, <1>3, WholeSelf DEF Node
  <2>2. Scope(p, x) = p[x]
    BY <2>1 DEF Scope
  <2>3. p[x] \in Decl /\ Root \in Up(p, Decl, p[x])
    BY <1>1, <1>3, <2>2 DEF Below, Above
  <2>. QED  BY <1>1, <1>3, <2>3 DEF Below, Above
<1>. QED  BY <1>1, <1>2, <1>3 DEF Node

LEMMA MoveJoins ==
  ASSUME NEW s \in Snapshots, NEW c \in Commands, c.what # "name", Fits(s, c)
  PROVE  After(s, c) \in Snapshots /\ Joins(s, c, After(s, c))
<1>1. /\ c.node \in Movable /\ c.old \in Decl \cup {NoNode} /\ c.new \in Decl \cup {NoNode}
      /\ s.parent \in [Node -> Node \cup {NoNode}] /\ s.name \in [Node -> Name]
      /\ s = [parent |-> s.parent, name |-> s.name] /\ IsTree(s.parent)
  BY DEF Commands, Snapshots
<1>2. PICK t : t = After(s, c)
  OBVIOUS
<1>3. PICK q : q = [s.parent EXCEPT ![c.node] = c.new]
  OBVIOUS
<1>4. t = [parent |-> q, name |-> s.name]
  BY <1>1, <1>2, <1>3 DEF After
<1>5. PICK p : p = s.parent
  OBVIOUS
<1>6. PICK x \in Movable : x = c.node /\ p = s.parent
  BY <1>5, <1>1
<1>7. /\ IsTree(p) /\ x \in Node /\ x # Root /\ NoNode \notin Node
      /\ p \in [Node -> Node \cup {NoNode}] /\ c.new \in Node \cup {NoNode}
  BY <1>1, <1>6, MovableNode, ReferencesAssumption DEF Node
<1>8. /\ c.old = p[x]
      /\ \/ c.new = NoNode /\ x \in Below(p, Root)
         \/ c.old = NoNode /\ c.new \in Decl \cap Below(p, Root)
  BY <1>6 DEF Fits
<1>9. t.parent = q /\ t.name = s.name
  BY <1>4
<1>10. PICK u : u = Undone(c)
  OBVIOUS
<1>11. u.what # "name" /\ u.node = x /\ u.old = c.new /\ u.new = p[x]
  BY <1>6, <1>8, <1>10, UndoneCommand
<1>12. After(t, u) = [parent |-> [q EXCEPT ![x] = p[x]], name |-> s.name]
  BY <1>4, <1>9, <1>11 DEF After
<1>13. SUFFICES /\ q \in [Node -> Node \cup {NoNode}] /\ IsTree(q) /\ [q EXCEPT ![x] = p[x]] = p
               /\ c.new = q[x]
               /\ \/ p[x] = NoNode /\ x \in Below(q, Root)
                  \/ c.new = NoNode /\ p[x] \in Decl \cap Below(q, Root)
  <2>1. t \in Snapshots
    BY <1>1, <1>4, <1>9, <1>13 DEF Snapshots
  <2>2. After(t, u) = s
    BY <1>1, <1>6, <1>12, <1>13
  <2>3. Fits(t, u)
    BY <1>9, <1>11, <1>13 DEF Fits
  <2>. QED  BY <1>2, <1>10, <2>1, <2>2, <2>3 DEF Joins
<1>14. CASE c.new = NoNode /\ x \in Below(p, Root)
  <2>1. q = [p EXCEPT ![x] = NoNode]
    BY <1>3, <1>6, <1>14
  <2>2. IsTree(q) /\ Below(q, Root) = Below(p, Root) \ Below(p, x)
    BY <1>7, <2>1, CutOff, Detached
  <2>3. p[x] \in Decl /\ p[x] \in Below(p, Root) \ Below(p, x)
    BY <1>7, <1>14, HomeStays
  <2>4. q[x] = NoNode /\ [q EXCEPT ![x] = p[x]] = p /\ q \in [Node -> Node \cup {NoNode}]
    BY <1>7, <2>1
  <2>. QED  BY <1>14, <2>2, <2>3, <2>4
<1>15. CASE c.old = NoNode /\ c.new \in Decl \cap Below(p, Root)
  <2>1. PICK d \in Decl \cap Below(p, Root) : d = c.new
    BY <1>15
  <2>2. q = [p EXCEPT ![x] = d] /\ p[x] = NoNode
    BY <1>3, <1>6, <1>8, <1>15, <2>1
  <2>3. IsTree(q) /\ Below(q, Root) = Below(p, Root) \cup Below(p, x)
    BY <1>7, <2>2, Attached
  <2>4. x \in Below(q, Root)
    BY <1>7, <2>3, BelowSelf
  <2>5. q[x] = d /\ [q EXCEPT ![x] = NoNode] = p /\ q \in [Node -> Node \cup {NoNode}]
    BY <1>7, <2>1, <2>2
  <2>. QED  BY <2>1, <2>2, <2>3, <2>4, <2>5
<1>. QED  BY <1>8, <1>14, <1>15

LEMMA CommandJoins ==
  ASSUME NEW s \in Snapshots, NEW c \in Commands, Fits(s, c)
  PROVE  After(s, c) \in Snapshots /\ Joins(s, c, After(s, c))
BY RenameJoins, MoveJoins

LEMMA LinkedExecute ==
  ASSUME TypeOK, TreeLinked, NEW c \in Commands, Execute(c), Fits(Present, c),
         Present' = After(Present, c)
  PROVE  TreeLinked'
<1>1. PICK past : Linked(past, history) /\ past[position] = Present
  BY DEF TreeLinked
<1>2. PICK h : h = history
  OBVIOUS
<1>3. PICK n : n = position
  OBVIOUS
<1>4. PICK s : s = Present
  OBVIOUS
<1>5. h \in Seq(Commands) /\ n \in 0..Len(h) /\ Linked(past, h) /\ past[n] = s
  BY <1>1, <1>2, <1>3, <1>4 DEF TypeOK
<1>. DEFINE g == Append(SubSeq(h, 1, n), c)
            t == After(s, c)
            new == [k \in 0..(n+1) |-> IF k = n + 1 THEN t ELSE past[k]]
<1>6. s \in Snapshots
  BY <1>5 DEF Linked
<1>7. history' = g /\ position' = n + 1 /\ Present' = t /\ t \in Snapshots /\ Joins(s, c, t)
  BY <1>2, <1>3, <1>4, <1>6, CommandJoins DEF Execute
<1>8. n \in Nat /\ Len(h) \in Nat /\ n <= Len(h)
  BY <1>5
<1>9. /\ SubSeq(h, 1, n) \in Seq(Commands) /\ Len(SubSeq(h, 1, n)) = n
      /\ \A k \in 1..n : SubSeq(h, 1, n)[k] = h[k]
  <2>1. \A i \in 1..n : h[i] \in Commands
    BY <1>5, <1>8
  <2>2. /\ SubSeq(h, 1, n) \in Seq(Commands)
        /\ Len(SubSeq(h, 1, n)) = IF 1 <= n THEN n - 1 + 1 ELSE 0
        /\ \A i \in 1..(n - 1 + 1) : SubSeq(h, 1, n)[i] = h[1 + i - 1]
    BY <2>1, <1>8, SubSeqProperties
  <2>. QED  BY <2>2, <1>8
<1>10. Len(g) = n + 1 /\ g[n + 1] = c /\ \A k \in 1..n : g[k] = h[k]
  <2>. DEFINE b == SubSeq(h, 1, n)
  <2>. HIDE DEF b
  <2>1. b \in Seq(Commands) /\ Len(b) = n /\ (\A k \in 1..n : b[k] = h[k]) /\ g = Append(b, c)
    BY <1>9 DEF b
  <2>. HIDE DEF g
  <2>. QED  BY <2>1, <1>8
<1>. HIDE DEF g, t
<1>11. \A k \in 0..n : new[k] = past[k] /\ past[k] \in Snapshots
  BY <1>5, <1>8 DEF Linked
<1>12. new[n + 1] = t
  BY <1>8
<1>13. new \in [0..(n+1) -> Snapshots]
  <2>1. ASSUME NEW k \in 0..(n+1) PROVE new[k] \in Snapshots
    <3>1. k = n + 1 \/ k \in 0..n
      BY <1>8
    <3>. QED  BY <3>1, <1>7, <1>11, <1>12
  <2>. QED  BY <2>1
<1>14. ASSUME NEW k \in 1..(n+1)
       PROVE  Joins(new[k-1], g[k], new[k])
  <2>1. CASE k = n + 1
    <3>1. k - 1 = n /\ n \in 0..n
      BY <2>1, <1>8
    <3>2. new[k-1] = s
      BY <3>1, <1>5, <1>11
    <3>. QED  BY <2>1, <3>2, <1>7, <1>10, <1>12
  <2>2. CASE k # n + 1
    <3>1. k \in 1..n /\ k \in 0..n /\ k - 1 \in 0..n /\ k \in 1..Len(h)
      BY <2>2, <1>8
    <3>2. Joins(past[k-1], h[k], past[k])
      BY <3>1, <1>5 DEF Linked
    <3>. QED  BY <3>1, <3>2, <1>10, <1>11
  <2>. QED  BY <2>1, <2>2
<1>. HIDE DEF new
<1>15. Linked(new, g) /\ new[n + 1] = t
  BY <1>10, <1>12, <1>13, <1>14 DEF Linked
<1>. QED  BY <1>7, <1>15 DEF TreeLinked

(* Undo and redo find what they expect. *)
LEMMA LinkedReplay ==
  ASSUME TypeOK, TreeLinked, UndoCommand \/ RedoCommand
  PROVE  /\ TreeLinked'
         /\ \E c \in Commands : /\ Replay(c) /\ Fits(Present, c)
                                /\ position' \in 0..Len(history)
                                /\ at' \in {"idle", "undo", "redo"}
<1>1. PICK past : Linked(past, history) /\ past[position] = Present
  BY DEF TreeLinked
<1>2. PICK n : n = position
  OBVIOUS
<1>3. PICK h \in Seq(Commands) : h = history
  BY DEF TypeOK
<1>4. n \in 0..Len(h) /\ Len(h) \in Nat
  BY <1>2, <1>3 DEF TypeOK
<1>5. CASE UndoCommand
  <2>1. n \in 1..Len(h) /\ n - 1 \in 0..Len(h)
    BY <1>2, <1>4, <1>5 DEF UndoCommand
  <2>2. PICK c : c = Undone(h[n])
    OBVIOUS
  <2>3. c \in Commands
    <3>1. h[n] \in Commands
      BY <2>1
    <3>. QED  BY <2>2, <3>1, UndoneCommand
  <2>4. Replay(c) /\ position' = n - 1 /\ at' \in {"idle", "undo"}
    BY <1>2, <1>3, <1>5, <2>2 DEF UndoCommand
  <2>5. Present' = After(Present, c) /\ history' = history
    BY <2>4, PerformPresent DEF Replay
  <2>6. past[n - 1] = After(Present, c) /\ Fits(Present, c)
    BY <1>1, <1>2, <1>3, <2>1, <2>2 DEF Linked, Joins
  <2>7. TreeLinked'
    BY <1>1, <2>4, <2>5, <2>6 DEF TreeLinked
  <2>. QED  BY <1>3, <2>1, <2>3, <2>4, <2>6, <2>7
<1>6. CASE RedoCommand
  <2>1. n + 1 \in 1..Len(h) /\ (n + 1) - 1 = n /\ n + 1 \in 0..Len(h)
    BY <1>2, <1>3, <1>4, <1>6 DEF RedoCommand
  <2>2. PICK c : c = h[n + 1]
    OBVIOUS
  <2>3. c \in Commands
    BY <2>1, <2>2
  <2>4. Replay(c) /\ position' = n + 1 /\ at' \in {"idle", "redo"}
    BY <1>2, <1>3, <1>6, <2>2 DEF RedoCommand
  <2>5. Present' = After(Present, c) /\ history' = history
    BY <2>4, PerformPresent DEF Replay
  <2>6. past[n + 1] = After(Present, c) /\ Fits(Present, c)
    BY <1>1, <1>2, <1>3, <2>1, <2>2 DEF Linked, Joins
  <2>7. TreeLinked'
    BY <1>1, <2>4, <2>5, <2>6 DEF TreeLinked
  <2>. QED  BY <1>3, <2>1, <2>3, <2>4, <2>6, <2>7
<1>. QED  BY <1>5, <1>6

(* What is removed leaves the tree with what is below it. *)
LEMMA ManagedStep ==
  ASSUME TypeOK, IsTree(parent), InTree, NEW c \in Commands, Fits(Present, c), Perform(c)
  PROVE  InTree'
<1>0. Present.parent = parent
  BY DEF Present
<1>1. CASE c.what = "name"
  BY <1>1 DEF Perform, SetNameField, InTree
<1>2. CASE c.what # "name"
  <2>1. PICK x \in Movable : x = c.node
    BY <1>2 DEF Commands
  <2>2. PICK p : p = parent
    OBVIOUS
  <2>3. /\ parent' = [p EXCEPT ![x] = c.new]
        /\ managed' = IF c.new \in managed THEN managed \cup Below(p, x) ELSE managed \ Below(p, x)
    BY <1>2, <2>1, <2>2 DEF Perform, SetParent
  <2>4. managed = Below(p, Root) /\ IsTree(p) /\ NoNode \notin managed
    BY <2>2, ReferencesAssumption DEF InTree, TypeOK
  <2>5. CASE c.new = NoNode
    <3>1. parent' = [p EXCEPT ![x] = NoNode]
      BY <2>3, <2>5
    <3>2. Below(parent', Root) = Below(p, Root) \ Below(p, x)
      BY <2>4, <3>1, Detached
    <3>. QED  BY <2>3, <2>4, <2>5, <3>2 DEF InTree
  <2>6. CASE c.new # NoNode
    <3>1. p[x] = NoNode /\ c.new \in Decl \cap Below(p, Root)
      BY <1>0, <1>2, <2>1, <2>2, <2>6 DEF Fits
    <3>. QED  BY <2>3, <2>4, <3>1, Attached DEF InTree
  <2>. QED  BY <2>5, <2>6
<1>. QED  BY <1>1, <1>2

Edit ==
  \/ \E d \in Decl : Rename(d)
  \/ \E r \in Ref : SetName(r)
  \/ \E x \in Node : RemoveNode(x) \/ InsertNode(x)

(* The commands of a session. *)
LEMMA EditCommand ==
  ASSUME TypeOK, IsTree(parent), InTree, Edit
  PROVE  \E c \in Commands :
           /\ Execute(c) /\ Fits(Present, c) /\ Present' = After(Present, c)
           /\ \/ /\ Perform(c) /\ UNCHANGED <<target, misled>>
                 /\ c.what = "name" => c.node \in Decl
              \/ \E r \in Ref : SetName(r)
<1>0. Present.parent = parent /\ Present.name = name
  BY DEF Present
<1>1. CASE \E d \in Decl : Rename(d)
  <2>1. PICK d \in Decl : Rename(d)
    BY <1>1
  <2>2. PICK n \in NewNames[d] : LET c == Command("name", d, name[d], n) IN Execute(c) /\ Perform(c)
    BY <2>1 DEF Rename
  <2>3. PICK c : c = Command("name", d, name[d], n)
    OBVIOUS
  <2>4. c \in Commands /\ c.what = "name" /\ c.node = d /\ c.old = name[d]
    BY <2>3, CommandTyped, ReferencesAssumption DEF TypeOK, Node, Command
  <2>5. Fits(Present, c)
    BY <1>0, <2>1, <2>4 DEF Fits, Rename, InTree
  <2>6. Execute(c) /\ Perform(c) /\ Present' = After(Present, c) /\ UNCHANGED <<target, misled>>
    BY <2>1, <2>2, <2>3, PerformPresent DEF Rename
  <2>. QED  BY <2>4, <2>5, <2>6
<1>2. CASE \E r \in Ref : SetName(r)
  <2>1. PICK r \in Ref : SetName(r)
    BY <1>2
  <2>2. PICK n \in NewNames[r] : /\ Execute(Command("name", r, name[r], n))
                                 /\ name' = [name EXCEPT ![r] = n]
    BY <2>1 DEF SetName
  <2>3. PICK c : c = Command("name", r, name[r], n)
    OBVIOUS
  <2>4. c \in Commands /\ c.what = "name" /\ c.node = r /\ c.old = name[r] /\ c.new = n
    BY <2>3, CommandTyped, ReferencesAssumption DEF TypeOK, Node, Command
  <2>5. Fits(Present, c)
    BY <1>0, <2>4, ReferencesAssumption DEF Fits
  <2>6. Present' = After(Present, c)
    BY <1>0, <2>1, <2>2, <2>4 DEF After, Present, SetName
  <2>. QED  BY <2>1, <2>2, <2>3, <2>4, <2>5, <2>6
<1>3. CASE \E x \in Node : RemoveNode(x) \/ InsertNode(x)
  <2>1. PICK x \in Movable, new \in Decl \cup {NoNode} :
          /\ Execute(Command("parent", x, parent[x], new))
          /\ Perform(Command("parent", x, parent[x], new))
          /\ UNCHANGED <<target, misled>>
          /\ \/ new = NoNode /\ x \in managed
             \/ parent[x] = NoNode /\ new \in Decl \cap managed
    <3>1. CASE \E x \in Node : RemoveNode(x)
      BY <3>1 DEF RemoveNode
    <3>2. CASE \E x \in Node : InsertNode(x)
      BY <3>2, ReferencesAssumption DEF InsertNode
    <3>. QED  BY <1>3, <3>1, <3>2
  <2>2. PICK c : c = Command("parent", x, parent[x], new)
    OBVIOUS
  <2>3. parent[x] \in Decl \cup {NoNode}
    BY MovableNode
  <2>4. c \in Commands /\ c.what = "parent" /\ c.node = x /\ c.old = parent[x] /\ c.new = new
    BY <2>2, <2>3, CommandTyped DEF Command
  <2>5. Fits(Present, c)
    BY <1>0, <2>1, <2>4 DEF Fits, InTree
  <2>6. Execute(c) /\ Perform(c) /\ Present' = After(Present, c) /\ UNCHANGED <<target, misled>>
    BY <2>1, <2>2, PerformPresent
  <2>. QED  BY <2>4, <2>5, <2>6
<1>. QED  BY <1>1, <1>2, <1>3 DEF Edit

(* What they do to the tree. *)
LEMMA EditTree ==
  ASSUME TypeOK, TreeInv, Edit
  PROVE  /\ TreeInv' /\ IsTree(parent')
         /\ \E c \in Commands : Execute(c) /\ (Perform(c) \/ \E r \in Ref : SetName(r))
<1>1. IsTree(parent) /\ TreeLinked /\ InTree
  BY LinkedTree DEF TreeInv
<1>2. PICK c \in Commands :
        /\ Execute(c) /\ Fits(Present, c) /\ Present' = After(Present, c)
        /\ Perform(c) \/ \E r \in Ref : SetName(r)
  BY <1>1, EditCommand
<1>3. TreeLinked'
  BY <1>1, <1>2, LinkedExecute
<1>4. InTree'
  <2>1. CASE Perform(c)
    BY <1>1, <1>2, <2>1, ManagedStep
  <2>2. CASE \E r \in Ref : SetName(r)
    BY <1>1, <2>2 DEF SetName, InTree
  <2>. QED  BY <1>2, <2>1, <2>2
<1>5. IsTree(parent')
  <2>1. PICK s : s = Present
    OBVIOUS
  <2>2. s \in Snapshots /\ After(s, c) = Present' /\ Fits(s, c)
    BY <1>1, <1>2, <2>1, PresentSnapshot
  <2>3. After(s, c) \in Snapshots
    BY <2>2, CommandJoins
  <2>. QED  BY <2>2, <2>3 DEF Snapshots, Present
<1>. QED  BY <1>2, <1>3, <1>4, <1>5 DEF TreeInv

(***************************************************************************)
(* Calls: no reference is on the stack twice, since each precedes the one  *)
(* that asks it.                                                           *)
(***************************************************************************)
AsksBefore(c) ==
  /\ \A i \in c.asks : Precedes(parent, i, c.ref)
  /\ c.place # NoNode => /\ parent[Whole(parent, c.ref)] \in Decl
                         /\ c.place \in Above(parent, parent[Whole(parent, c.ref)])

CallInv ==
  /\ \A k \in DOMAIN calls : AsksBefore(calls[k])
  /\ \A k, l \in DOMAIN calls : k < l => Precedes(parent, calls[l].ref, calls[k].ref)

MarkInv ==
  /\ UnresolvedPending
  /\ \A r \in Ref : state[r] = "resolving" => \E k \in DOMAIN calls : calls[k].ref = r
  /\ \A k \in DOMAIN calls : calls[k].ref \in managed => calls[k].ref \in pending

IInv == TypeOK /\ TreeInv /\ CallInv /\ MarkInv

LEMMA ImportPrecedes ==
  ASSUME IsTree(parent), NEW c, NEW d \in Decl, NEW n, NEW i \in Asks(c, d, n), NEW r \in Ref,
         parent[Whole(parent, r)] \in Decl, d \in Above(parent, parent[Whole(parent, r)]),
         d = parent[Whole(parent, r)] => IsAbove(i, Whole(parent, r))
  PROVE  Precedes(parent, i, r)
<1>1. i \in Import /\ i \in Ref /\ parent[i] = d
  BY AsksImports, ImportPlace
<1>2. Whole(parent, i) = i
  BY <1>1, WholeSelf, ReferencesAssumption
<1>3. Higher(parent, i, Whole(parent, r))
  BY <1>1 DEF Higher
<1>. QED  BY <1>2, <1>3 DEF Precedes

LEMMA CallAsks ==
  ASSUME TypeOK, IsTree(parent), NEW r \in Ref, NEW indirect
  PROVE  AsksBefore(Call(r, indirect)) /\ Call(r, indirect).ref = r
<1>. DEFINE top == Whole(parent, r)
<1>0. PICK c : c = Call(r, indirect)
  OBVIOUS
<1>1. c.ref = r
  BY <1>0 DEF Call
<1>2. CASE r \in Dotted
  <2>1. c.asks = {Prefix[r]} /\ c.place = NoNode
    BY <1>0, <1>2 DEF Call
  <2>2. Precedes(parent, Prefix[r], r)
    BY <1>2, WholePrefix DEF Precedes
  <2>. QED  BY <1>0, <1>1, <2>1, <2>2 DEF AsksBefore
<1>3. CASE r \notin Dotted /\ parent[top] = NoNode
  <2>1. c.asks = {} /\ c.place = NoNode
    BY <1>0, <1>3 DEF Call
  <2>. QED  BY <1>0, <1>1, <2>1 DEF AsksBefore
<1>4. CASE r \notin Dotted /\ parent[top] # NoNode
  <2>1. c.asks = Asks(top, parent[top], name[r]) /\ c.place = parent[top]
    BY <1>0, <1>4 DEF Call
  <2>2. parent[top] \in Decl
    BY <1>4, WholeLast
  <2>3. parent[top] \in Above(parent, parent[top])
    BY <2>2, UpSelf DEF Above
  <2>4. ASSUME NEW i \in Asks(top, parent[top], name[r]) PROVE Precedes(parent, i, r)
    <3>1. IsAbove(i, top)
      BY AsksImports
    <3>. QED  BY <2>2, <2>3, <3>1, ImportPrecedes
  <2>. QED  BY <1>0, <1>1, <2>1, <2>2, <2>3, <2>4 DEF AsksBefore
<1>. QED  BY <1>2, <1>3, <1>4

(* A call for r on top of those in before. *)
LEMMA BeginStep ==
  ASSUME TypeOK, IsTree(parent), NEW before \in Seq(Calls), NEW r \in Ref, NEW indirect \in BOOLEAN,
         Begin(r, before, indirect), UNCHANGED tree,
         \A k \in 1..Len(before) : AsksBefore(before[k]),
         \A k, l \in 1..Len(before) : k < l => Precedes(parent, before[l].ref, before[k].ref),
         \A k \in 1..Len(before) : Precedes(parent, r, before[k].ref)
  PROVE  /\ CallInv' /\ calls' \in Seq(Calls) /\ misled' \in SUBSET Ref
         /\ state' \in [Ref -> {"needed", "resolving", "established"}]
         /\ Len(calls') = Len(before) + 1 /\ calls'[Len(before) + 1].ref = r
         /\ \A k \in 1..Len(before) : calls'[k] = before[k]
<1>1. PICK c \in Calls : c = Call(r, indirect) /\ AsksBefore(c) /\ c.ref = r
  BY CallTyped, CallAsks
<1>2. calls' = Append(before, c) /\ Len(before) \in Nat
  BY <1>1 DEF Begin
<1>3. /\ calls' \in Seq(Calls) /\ Len(calls') = Len(before) + 1 /\ calls'[Len(before) + 1] = c
      /\ \A k \in 1..Len(before) : calls'[k] = before[k]
  BY <1>2
<1>4. DOMAIN calls' = 1..(Len(before) + 1)
  BY <1>2, <1>3
<1>5. parent' = parent
  BY DEF tree
<1>6. \A k \in 1..(Len(before) + 1) : k \in 1..Len(before) \/ k = Len(before) + 1
  BY <1>2
<1>7. \A k \in DOMAIN calls' : AsksBefore(calls'[k])
  BY <1>1, <1>3, <1>4, <1>6
<1>8. ASSUME NEW k \in DOMAIN calls', NEW l \in DOMAIN calls', k < l
      PROVE  Precedes(parent, calls'[l].ref, calls'[k].ref)
  <2>1. k \in 1..Len(before)
    BY <1>2, <1>4, <1>8
  <2>. QED  BY <2>1, <1>1, <1>3, <1>4, <1>6, <1>8
<1>9. CallInv'
  BY <1>5, <1>7, <1>8 DEF CallInv, AsksBefore
<1>10. misled' \in SUBSET Ref /\ state' \in [Ref -> {"needed", "resolving", "established"}]
  BY DEF Begin, TypeOK
<1>. QED  BY <1>1, <1>3, <1>9, <1>10

LEMMA TopCall ==
  ASSUME TypeOK, calls # <<>>
  PROVE  /\ Len(calls) \in Nat \ {0} /\ DOMAIN calls = 1..Len(calls) /\ Top = calls[Len(calls)]
         /\ Len(calls) \in DOMAIN calls /\ Top \in Calls
         /\ \A k \in DOMAIN calls :
              calls[k] \in Calls /\ (k = Len(calls) \/ k \in 1..(Len(calls) - 1))
<1>1. calls \in Seq(Calls)
  BY DEF TypeOK
<1>2. PICK n : n = Len(calls)
  OBVIOUS
<1>3. n \in Nat \ {0} /\ Top = calls[n] /\ Top \in Calls
  BY <1>1, <1>2, StackOps DEF Top
<1>4. DOMAIN calls = 1..n /\ \A k \in 1..n : calls[k] \in Calls /\ (k = n \/ k \in 1..(n - 1))
  BY <1>1, <1>2, <1>3
<1>. QED  BY <1>2, <1>3, <1>4


(***************************************************************************)
(* The invariant, and the steps of a resolution.                           *)
(***************************************************************************)
LEMMA TreeKept ==
  ASSUME TreeInv, UNCHANGED <<tree, stack>>
  PROVE  TreeInv'
<1>1. Present' = Present /\ UNCHANGED <<history, position, managed, parent>>
  BY DEF Present, tree, stack
<1>. QED  BY <1>1 DEF TreeInv, TreeLinked, InTree

LEMMA AskStep ==
  ASSUME IInv, Ask
  PROVE  IInv'
<1>1. /\ TypeOK /\ IsTree(parent) /\ CallInv /\ MarkInv /\ calls # <<>> /\ calls \in Seq(Calls)
      /\ UNCHANGED <<tree, target, failed, astray, at, todo, stack>>
  BY LinkedTree DEF IInv, TreeInv, Ask, TypeOK
<1>0. PICK i \in Waiting(Top) :
        LET before == {j \in Top.asks \ {i} : IsAbove(j, i)}
            call == [Top EXCEPT !.asks = @ \ before, !.asked = i,
                                !.found = @ \cup Given(Top, before)]
        IN  Begin(i, Append(Front(calls), call), TRUE)
  BY DEF Ask
<1>2. PICK before : before = {j \in Top.asks \ {i} : IsAbove(j, i)}
  OBVIOUS
<1>3. PICK call : call = [Top EXCEPT !.asks = @ \ before, !.asked = i,
                                     !.found = @ \cup Given(Top, before)]
  OBVIOUS
<1>4. PICK top : top = Top
  OBVIOUS
<1>5. top \in Calls /\ top.asks \in SUBSET Ref /\ top.found \in SUBSET Decl /\ AsksBefore(top)
  BY <1>1, <1>4, TopCall DEF Calls, CallInv
<1>6. i \in top.asks /\ i \in Ref /\ state[i] = "needed" /\ before \in SUBSET Ref
  BY <1>2, <1>4, <1>5 DEF Waiting
<1>7. Given(Top, before) \in SUBSET Decl
  BY <1>1, <1>6, GivenDecls
<1>8. call \in Calls /\ call.ref = top.ref /\ call.place = top.place /\ call.asks \subseteq top.asks
  BY <1>3, <1>4, <1>5, <1>6, <1>7 DEF Calls
<1>9. PICK s : s = Append(Front(calls), call)
  OBVIOUS
<1>10. PICK n : n = Len(calls)
  OBVIOUS
<1>11. /\ s \in Seq(Calls) /\ Len(s) = n /\ n \in Nat \ {0} /\ DOMAIN calls = 1..n
       /\ \A k \in 1..n : s[k] = IF k = n THEN call ELSE calls[k]
       /\ top = calls[n]
  BY <1>1, <1>4, <1>8, <1>9, <1>10, StackReplace, TopCall
<1>12. \A k \in 1..n : s[k].ref = calls[k].ref
  BY <1>8, <1>11
<1>13. \A k \in 1..n : AsksBefore(s[k])
  BY <1>1, <1>5, <1>8, <1>11 DEF CallInv, AsksBefore
<1>14. \A k, l \in 1..n : k < l => Precedes(parent, s[l].ref, s[k].ref)
  BY <1>1, <1>11, <1>12 DEF CallInv
<1>15. ASSUME NEW k \in 1..n PROVE Precedes(parent, i, s[k].ref)
  <2>1. Precedes(parent, i, top.ref) /\ top.ref \in Ref
    BY <1>5, <1>6 DEF AsksBefore, Calls
  <2>2. CASE k = n
    BY <2>1, <2>2, <1>11, <1>12
  <2>3. CASE k # n
    <3>1. k < n
      BY <2>3, <1>11
    <3>2. Precedes(parent, top.ref, calls[k].ref) /\ calls[k].ref \in Ref
      BY <3>1, <1>1, <1>11, TopCall DEF CallInv, Calls
    <3>. QED  BY <2>1, <3>2, <1>1, <1>6, <1>12, PrecedesTrans
  <2>. QED  BY <2>2, <2>3
<1>16. Begin(i, s, TRUE)
  BY <1>0, <1>2, <1>3, <1>9
<1>17. /\ CallInv' /\ calls' \in Seq(Calls) /\ misled' \in SUBSET Ref
       /\ state' \in [Ref -> {"needed", "resolving", "established"}]
       /\ Len(calls') = n + 1 /\ calls'[n + 1].ref = i
       /\ \A k \in 1..n : calls'[k] = s[k]
  BY <1>1, <1>6, <1>11, <1>13, <1>14, <1>15, <1>16, BeginStep
<1>18. TypeOK'
  BY <1>1, <1>16, <1>17 DEF TypeOK, tree, stack, Begin
<1>19. DOMAIN calls' = 1..(n + 1) /\ \A k \in 1..(n + 1) : k = n + 1 \/ k \in 1..n
  BY <1>11, <1>17
<1>20. /\ state' = [state EXCEPT ![i] = "resolving"] /\ pending' = pending
       /\ managed' = managed /\ state \in [Ref -> {"needed", "resolving", "established"}]
  BY <1>1, <1>16 DEF Begin, tree, TypeOK
<1>21. MarkInv'
  <2>1. UnresolvedPending'
    BY <1>1, <1>6, <1>20 DEF MarkInv, UnresolvedPending
  <2>2. ASSUME NEW r \in Ref, state'[r] = "resolving"
        PROVE  \E k \in DOMAIN calls' : calls'[k].ref = r
    <3>1. CASE r = i
      BY <3>1, <1>11, <1>17, <1>19
    <3>2. CASE r # i
      <4>1. PICK k \in DOMAIN calls : calls[k].ref = r
        BY <3>2, <2>2, <1>1, <1>6, <1>20 DEF MarkInv
      <4>. QED  BY <4>1, <1>11, <1>12, <1>17, <1>19
    <3>. QED  BY <3>1, <3>2
  <2>3. ASSUME NEW k \in DOMAIN calls', calls'[k].ref \in managed' PROVE calls'[k].ref \in pending'
    <3>1. CASE k = n + 1
      BY <3>1, <2>3, <1>1, <1>6, <1>17, <1>20 DEF MarkInv, UnresolvedPending
    <3>2. CASE k \in 1..n
      BY <3>2, <2>3, <1>1, <1>11, <1>12, <1>17, <1>20 DEF MarkInv
    <3>. QED  BY <3>1, <3>2, <1>19
  <2>. QED  BY <2>1, <2>2, <2>3 DEF MarkInv
<1>. QED  BY <1>1, <1>17, <1>18, <1>21, TreeKept DEF IInv

LEMMA StartStep ==
  ASSUME IInv, NEW r \in Ref, NEW indirect \in BOOLEAN, calls = <<>>, state[r] = "needed",
         Begin(r, <<>>, indirect), todo' \in SUBSET Ref,
         UNCHANGED <<tree, target, failed, astray, at, stack>>
  PROVE  IInv'
<1>1. TypeOK /\ IsTree(parent) /\ CallInv /\ MarkInv
  BY LinkedTree DEF IInv, TreeInv
<1>2. <<>> \in Seq(Calls) /\ Len(<<>>) = 0 /\ 1..0 = {} /\ 0 + 1 = 1 /\ 1..1 = {1}
  OBVIOUS
<1>3. /\ CallInv' /\ calls' \in Seq(Calls) /\ misled' \in SUBSET Ref
      /\ state' \in [Ref -> {"needed", "resolving", "established"}]
      /\ Len(calls') = 1 /\ calls'[1].ref = r
  <2>1. PICK b \in Seq(Calls) : b = <<>> /\ Len(b) = 0 /\ 1..Len(b) = {}
    BY <1>2
  <2>2. Begin(r, b, indirect) /\ UNCHANGED tree
    BY <2>1
  <2>3. /\ \A k \in 1..Len(b) : AsksBefore(b[k])
        /\ \A k, l \in 1..Len(b) : k < l => Precedes(parent, b[l].ref, b[k].ref)
        /\ \A k \in 1..Len(b) : Precedes(parent, r, b[k].ref)
    BY <2>1
  <2>4. /\ CallInv' /\ calls' \in Seq(Calls) /\ misled' \in SUBSET Ref
        /\ state' \in [Ref -> {"needed", "resolving", "established"}]
        /\ Len(calls') = Len(b) + 1 /\ calls'[Len(b) + 1].ref = r
    BY <1>1, <2>2, <2>3, BeginStep
  <2>. QED  BY <2>1, <2>4
<1>4. DOMAIN calls' = {1}
  BY <1>2, <1>3
<1>5. TypeOK'
  BY <1>1, <1>3 DEF TypeOK, tree, stack, Begin
<1>6. /\ state' = [state EXCEPT ![r] = "resolving"] /\ pending' = pending
      /\ managed' = managed /\ state \in [Ref -> {"needed", "resolving", "established"}]
  BY <1>1 DEF Begin, tree, TypeOK
<1>7. \A q \in Ref : state[q] # "resolving"
  BY <1>1 DEF MarkInv
<1>8. MarkInv'
  BY <1>1, <1>3, <1>4, <1>6, <1>7 DEF MarkInv, UnresolvedPending
<1>. QED  BY <1>1, <1>3, <1>5, <1>8, TreeKept DEF IInv

LEMMA ClimbStep ==
  ASSUME IInv, Climb
  PROVE  IInv'
<1>1. /\ TypeOK /\ IsTree(parent) /\ CallInv /\ MarkInv /\ calls # <<>> /\ calls \in Seq(Calls)
      /\ UNCHANGED <<tree, marks, target, wrong, at, todo, stack>>
  BY LinkedTree DEF IInv, TreeInv, Climb, TypeOK
<1>2. PICK top : top = Top
  OBVIOUS
<1>3. PICK d : d = parent[top.place]
  OBVIOUS
<1>4. PICK call : call = [top EXCEPT !.child = top.place, !.place = d,
                                     !.asks = Asks(top.place, d, name[top.ref]), !.asked = NoNode]
  OBVIOUS
<1>5. calls' = Append(Front(calls), call) /\ top.place # NoNode /\ d # NoNode
  BY <1>2, <1>3, <1>4 DEF Climb, GoesUp
<1>6. top \in Calls /\ top.ref \in Ref /\ top.place \in Decl /\ AsksBefore(top)
  BY <1>1, <1>2, <1>5, TopCall DEF Calls, CallInv
<1>7. d \in Decl
  BY <1>1, <1>3, <1>5, <1>6, TreeParents
<1>8. /\ call \in Calls /\ call.ref = top.ref /\ call.place = d
      /\ call.asks = Asks(top.place, d, name[top.ref])
  <2>1. PICK A \in SUBSET Ref : A = Asks(top.place, d, name[top.ref])
    BY AsksImports
  <2>2. call = [top EXCEPT !.child = top.place, !.place = d, !.asks = A, !.asked = NoNode]
    BY <1>4, <2>1
  <2>3. top.place \in Node
    BY <1>6 DEF Node
  <2>4. call \in Calls
    BY <1>6, <1>7, <2>2, <2>3 DEF Calls
  <2>5. call.ref = top.ref /\ call.place = d /\ call.asks = A
    BY <1>6, <2>2 DEF Calls
  <2>. QED  BY <2>1, <2>4, <2>5
<1>9. AsksBefore(call)
  <2>. DEFINE u == parent[Whole(parent, top.ref)]
  <2>1. u \in Decl /\ top.place \in Up(parent, Decl, u)
    BY <1>5, <1>6 DEF AsksBefore, Above
  <2>2. d \in Up(parent, Decl, u)
    BY <1>3, <1>7, <2>1, UpStep
  <2>3. d # u
    <3>. SUFFICES ASSUME d = u PROVE FALSE
      OBVIOUS
    <3>1. top.place \in Up(parent, Decl, parent[top.place])
      BY <1>3, <2>1
    <3>. QED  BY <3>1, <1>1, <1>3, <1>6, <1>7, UpAgain, TreeParents
  <2>4. ASSUME NEW i \in call.asks PROVE Precedes(parent, i, call.ref)
    BY <1>1, <1>6, <1>7, <1>8, <2>1, <2>2, <2>3, ImportPrecedes DEF Above
  <2>. QED  BY <1>8, <2>1, <2>2, <2>4 DEF AsksBefore, Above
<1>10. PICK n : n = Len(calls)
  OBVIOUS
<1>11. /\ calls' \in Seq(Calls) /\ Len(calls') = n /\ n \in Nat \ {0} /\ DOMAIN calls = 1..n
       /\ \A k \in 1..n : calls'[k] = IF k = n THEN call ELSE calls[k]
       /\ top = calls[n]
  BY <1>1, <1>2, <1>5, <1>8, <1>10, StackReplace, TopCall
<1>12. DOMAIN calls' = 1..n /\ \A k \in 1..n : calls'[k].ref = calls[k].ref
  BY <1>8, <1>11
<1>13. parent' = parent /\ state' = state /\ pending' = pending /\ managed' = managed
  BY <1>1 DEF tree, marks
<1>14. CallInv'
  BY <1>1, <1>9, <1>11, <1>12, <1>13 DEF CallInv, AsksBefore
<1>15. MarkInv'
  BY <1>1, <1>11, <1>12, <1>13 DEF MarkInv, UnresolvedPending
<1>16. TypeOK'
  BY <1>1, <1>11 DEF TypeOK, tree, marks, wrong, stack
<1>. QED  BY <1>1, <1>14, <1>15, <1>16, TreeKept DEF IInv

LEMMA SeenDecls ==
  ASSUME TypeOK, NEW call \in Calls
  PROVE  SeenBy(call) \in SUBSET Decl
<1>1. call.asks \in SUBSET Ref /\ call.found \in SUBSET Decl /\ call.place \in Decl \cup {NoNode}
  BY DEF Calls
<1>2. Given(call, call.asks) \in SUBSET Decl
  BY <1>1, GivenDecls
<1>3. ASSUME NEW c, NEW d \in Decl \cup {NoNode}, NEW n, NEW found \in SUBSET Decl
      PROVE  Seen(c, d, n, found) \in SUBSET Decl
  BY <1>3 DEF Seen, Named
<1>. QED  BY <1>1, <1>2, <1>3 DEF SeenBy

LEMMA ReturnStep ==
  ASSUME IInv, Return
  PROVE  IInv'
<1>1. /\ TypeOK /\ IsTree(parent) /\ CallInv /\ MarkInv /\ calls # <<>> /\ calls \in Seq(Calls)
      /\ calls' = Front(calls) /\ UNCHANGED <<tree, astray, at, todo, stack>>
  BY LinkedTree DEF IInv, TreeInv, Return, TypeOK
<1>2. PICK r : r = Top.ref
  OBVIOUS
<1>3. r \in Ref /\ Top \in Calls
  BY <1>1, <1>2, TopCall DEF Calls
<1>4. PICK found : found = Only(SeenBy(Top))
  OBVIOUS
<1>5. found \in Decl \cup {NoNode}
  BY <1>1, <1>3, <1>4, SeenDecls DEF Only
<1>6. PICK final \in BOOLEAN : final = (found # NoNode \/ ~Top.indirect)
  OBVIOUS
<1>7. PICK marked : marked = IF Changed(r, found) THEN Dependents(r) ELSE {}
  OBVIOUS
<1>8. marked \in SUBSET Ref
  BY <1>7, MarkedRefs DEF Dependents
<1>9. /\ target' = [target EXCEPT ![r] = found]
      /\ state' = [q \in Ref |-> CASE q \in marked -> "needed"
                                   [] q \notin marked /\ q # r -> state[q]
                                   [] q \notin marked /\ q = r ->
                                        IF final THEN "established" ELSE "needed"]
      /\ pending' = (IF final THEN pending \ {r} ELSE pending) \cup marked
  BY <1>2, <1>4, <1>6, <1>7 DEF Return
<1>10. misled' \in SUBSET Ref
  <2>1. {c.ref : c \in Range(Front(calls))} \in SUBSET Ref
    <3>1. Front(calls) \in Seq(Calls)
      BY <1>1, StackOps
    <3>2. Range(Front(calls)) \in SUBSET Calls
      BY <3>1 DEF Range
    <3>. QED  BY <3>2 DEF Calls
  <2>2. \/ misled' = misled
        \/ misled' = misled \cup {c.ref : c \in Range(Front(calls))}
    BY DEF Return
  <2>. QED  BY <1>1, <2>1, <2>2 DEF TypeOK
<1>11. failed' \in BOOLEAN
  BY DEF Return
<1>12. PICK n : n = Len(calls)
  OBVIOUS
<1>13. /\ n \in Nat \ {0} /\ DOMAIN calls = 1..n /\ calls[n].ref = r
       /\ calls' \in Seq(Calls) /\ Len(calls') = n - 1 /\ \A k \in 1..(n-1) : calls'[k] = calls[k]
  BY <1>1, <1>2, <1>12, TopCall, StackOps
<1>14. DOMAIN calls' = 1..(n - 1) /\ \A k \in 1..(n - 1) : k \in 1..n /\ k < n
  BY <1>13
<1>15. parent' = parent /\ managed' = managed
  BY <1>1 DEF tree
<1>16. CallInv'
  BY <1>1, <1>13, <1>14, <1>15 DEF CallInv, AsksBefore
<1>17. \A k \in 1..(n - 1) : calls[k].ref # r
  <2>. TAKE k \in 1..(n - 1)
  <2>1. n \in DOMAIN calls /\ k \in DOMAIN calls /\ k < n
    BY <1>13, <1>14
  <2>2. Precedes(parent, r, calls[k].ref)
    BY <1>1, <1>13, <2>1 DEF CallInv
  <2>. QED  BY <2>2, PrecedesOnce
<1>18. state \in [Ref -> {"needed", "resolving", "established"}] /\ n \in DOMAIN calls
  BY <1>1, <1>13 DEF TypeOK
<1>19. MarkInv'
  <2>1. UnresolvedPending'
    BY <1>1, <1>3, <1>9, <1>13, <1>15, <1>18 DEF MarkInv, UnresolvedPending
  <2>2. ASSUME NEW q \in Ref, state'[q] = "resolving"
        PROVE  \E k \in DOMAIN calls' : calls'[k].ref = q
    <3>1. q # r /\ state[q] = "resolving"
      BY <2>2, <1>9
    <3>2. PICK k \in DOMAIN calls : calls[k].ref = q
      BY <3>1, <1>1 DEF MarkInv
    <3>3. k \in 1..(n - 1)
      BY <3>1, <3>2, <1>13
    <3>. QED  BY <3>2, <3>3, <1>13, <1>14
  <2>3. ASSUME NEW k \in DOMAIN calls', calls'[k].ref \in managed' PROVE calls'[k].ref \in pending'
    <3>1. calls'[k] = calls[k] /\ k \in DOMAIN calls /\ calls[k].ref # r
      BY <1>13, <1>14, <1>17
    <3>2. calls[k].ref \in pending
      BY <2>3, <3>1, <1>1, <1>15 DEF MarkInv
    <3>. QED  BY <3>1, <3>2, <1>9
  <2>. QED  BY <2>1, <2>2, <2>3 DEF MarkInv
<1>20. TypeOK'
  <2>1. target' \in [Ref -> Decl \cup {NoNode}] /\ pending' \in SUBSET Ref
    BY <1>1, <1>3, <1>5, <1>8, <1>9 DEF TypeOK
  <2>2. state' \in [Ref -> {"needed", "resolving", "established"}]
    BY <1>9, <1>18
  <2>. QED  BY <1>1, <1>10, <1>11, <1>13, <2>1, <2>2 DEF TypeOK, tree, stack
<1>. QED  BY <1>1, <1>16, <1>19, <1>20, TreeKept DEF IInv

LEMMA NoCalls ==
  ASSUME calls' = <<>>
  PROVE  CallInv'
BY DEF CallInv

(***************************************************************************)
(* Commands, undo and redo.                                                *)
(***************************************************************************)
(* Marks are not lost, and what comes into the tree is marked. *)
LEMMA MarkMore ==
  ASSUME TypeOK, MarkInv, calls = <<>>, calls' = calls,
         NEW R \in SUBSET Ref, SetResolutionNeeded(R),
         \A r \in Ref \cap managed' : r \in managed \/ r \in R
  PROVE  MarkInv'
<1>1. /\ state' = [r \in Ref |-> IF r \in R THEN "needed" ELSE state[r]]
      /\ pending' = pending \cup R
  BY DEF SetResolutionNeeded
<1>2. \A r \in Ref : state[r] # "resolving"
  BY DEF MarkInv
<1>3. UnresolvedPending'
  BY <1>1 DEF MarkInv, UnresolvedPending
<1>4. \A r \in Ref : state'[r] # "resolving"
  BY <1>1, <1>2
<1>. QED  BY <1>3, <1>4 DEF MarkInv

LEMMA PerformMarks ==
  ASSUME TypeOK, MarkInv, calls = <<>>, calls' = calls, NEW c \in Commands, Perform(c),
         IsTree(parent), IsTree(parent')
  PROVE  MarkInv'
<1>1. CASE c.what = "name"
  <2>1. PICK R \in SUBSET Ref : SetResolutionNeeded(R) /\ managed' = managed
    BY <1>1, MarkedRefs DEF Perform, SetNameField
  <2>. QED  BY <2>1, MarkMore
<1>2. CASE c.what # "name"
  <2>1. PICK x \in Movable, new \in Decl \cup {NoNode} : \E old : SetParent(x, old, new)
    BY <1>2 DEF Commands, Perform
  <2>2. PICK q : q = [parent EXCEPT ![x] = new]
    OBVIOUS
  <2>3. PICK tm : tm = managed'
    OBVIOUS
  <2>4. PICK R : R = IF x \in tm THEN AfterNewSubTree(q, tm, x, new) ELSE {}
    OBVIOUS
  <2>5. R \in SUBSET Ref
    BY <2>4, MarkedRefs
  <2>6. /\ tm = IF new \in managed THEN managed \cup Below(parent, x)
                                   ELSE managed \ Below(parent, x)
        /\ parent' = q /\ SetResolutionNeeded(R)
    BY <2>1, <2>2, <2>3, <2>4 DEF SetParent
  <2>7. ASSUME NEW r \in Ref, r \in managed', r \notin managed PROVE r \in R
    <3>1. r \in Below(parent, x) /\ new \in managed
      BY <2>3, <2>6, <2>7
    <3>2. x \in tm
      <4>1. x \in Node
        BY ReferencesAssumption
      <4>2. x \in Below(parent, x)
        BY <4>1, BelowSelf
      <4>. QED  BY <3>1, <4>2, <2>6
    <3>3. r \in Below(q, x)
      <4>1. PICK p : p = parent
        OBVIOUS
      <4>2. /\ IsTree(p) /\ r \in Below(p, x)
            /\ q = [p EXCEPT ![x] = new] /\ IsTree([p EXCEPT ![x] = new])
        BY <4>1, <2>2, <2>6, <3>1
      <4>3. r \in Below([p EXCEPT ![x] = new], x)
        BY <4>2, SubtreeKept
      <4>. QED  BY <4>2, <4>3
    <3>. QED  BY <3>2, <3>3, <2>4 DEF AfterNewSubTree
  <2>. QED  BY <2>5, <2>6, <2>7, MarkMore
<1>. QED  BY <1>1, <1>2

LEMMA ExecuteTypes ==
  ASSUME TypeOK, NEW c \in Commands, Execute(c)
  PROVE  /\ history' \in Seq(Commands) /\ position' \in 0..Len(history')
         /\ calls' = calls /\ calls = <<>>
<1>1. PICK h : h = history
  OBVIOUS
<1>2. PICK n : n = position
  OBVIOUS
<1>3. h \in Seq(Commands) /\ n \in 0..Len(h)
  BY <1>1, <1>2 DEF TypeOK
<1>4. SubSeq(h, 1, n) \in Seq(Commands) /\ Len(SubSeq(h, 1, n)) = n
  <2>1. (\A i \in 1..n : h[i] \in Commands) /\ n \in Int /\ n >= 0
    BY <1>3
  <2>2. /\ SubSeq(h, 1, n) \in Seq(Commands)
        /\ Len(SubSeq(h, 1, n)) = IF 1 <= n THEN n - 1 + 1 ELSE 0
    BY <2>1, SubSeqProperties
  <2>. QED  BY <2>1, <2>2
<1>5. PICK b \in Seq(Commands) : b = SubSeq(h, 1, n) /\ Len(b) = n
  BY <1>4
<1>6. history' = Append(b, c) /\ position' = n + 1
  BY <1>1, <1>2, <1>5 DEF Execute
<1>7. Append(b, c) \in Seq(Commands) /\ Len(Append(b, c)) = n + 1
  BY <1>3, <1>5
<1>8. PICK g \in Seq(Commands) : g = Append(b, c) /\ Len(g) = n + 1
  BY <1>7
<1>9. history' = g /\ position' = n + 1 /\ n + 1 \in 0..Len(g)
  BY <1>3, <1>6, <1>8
<1>10. calls' = calls /\ calls = <<>>
  BY DEF Execute
<1>. QED  BY <1>8, <1>9, <1>10

LEMMA EditStep ==
  ASSUME IInv, Edit
  PROVE  IInv'
<1>1. TypeOK /\ TreeInv /\ MarkInv /\ IsTree(parent)
  BY LinkedTree DEF IInv, TreeInv
<1>2. /\ TreeInv' /\ IsTree(parent')
      /\ \E c \in Commands : Execute(c) /\ (Perform(c) \/ \E r \in Ref : SetName(r))
  BY <1>1, EditTree
<1>3. PICK c \in Commands : Execute(c) /\ (Perform(c) \/ \E r \in Ref : SetName(r))
  BY <1>2
<1>4. /\ history' \in Seq(Commands) /\ position' \in 0..Len(history')
      /\ calls' = calls /\ calls = <<>>
      /\ UNCHANGED <<failed, at, todo, session>>
  BY <1>1, <1>3, ExecuteTypes DEF Execute
<1>5. target' \in [Ref -> Decl \cup {NoNode}] /\ misled' \in SUBSET Ref
  <2>1. CASE \E r \in Ref : SetName(r)
    <3>1. PICK r \in Ref : SetName(r)
      BY <2>1
    <3>2. Dependents(r) \in SUBSET Ref
      BY MarkedRefs DEF Dependents
    <3>. QED  BY <1>1, <3>1, <3>2 DEF SetName, TypeOK
  <2>2. CASE ~ \E r \in Ref : SetName(r)
    BY <1>1, <2>2 DEF Edit, Rename, RemoveNode, InsertNode, TypeOK
  <2>. QED  BY <2>1, <2>2
<1>6. CASE Perform(c)
  <2>1. MarkInv'
    BY <1>1, <1>2, <1>4, <1>6, PerformMarks
  <2>2. /\ parent' \in [Node -> Node \cup {NoNode}] /\ name' \in [Node -> Name]
        /\ managed' \in SUBSET Node
        /\ state' \in [Ref -> {"needed", "resolving", "established"}]
        /\ pending' \in SUBSET Ref
        /\ astray' \in SUBSET (Node \X (Node \cup {NoNode}))
    BY <1>1, <1>6, PerformTypes
  <2>3. TypeOK'
    BY <1>1, <1>4, <1>5, <2>2 DEF TypeOK
  <2>. QED  BY <1>2, <1>4, <2>1, <2>3, NoCalls DEF IInv
<1>7. CASE \E r \in Ref : SetName(r)
  <2>1. PICK r \in Ref : SetName(r)
    BY <1>7
  <2>2. PICK n \in NewNames[r] : name' = [name EXCEPT ![r] = n]
    BY <2>1 DEF SetName
  <2>3. SetResolutionNeeded({r}) /\ UNCHANGED <<parent, managed, astray>> /\ {r} \in SUBSET Ref
    BY <2>1 DEF SetName
  <2>4. n \in Name /\ name' \in [Node -> Name]
    BY <1>1, <2>1, <2>2, ReferencesAssumption DEF Node, TypeOK
  <2>5. MarkInv'
    BY <1>1, <1>4, <2>3, MarkMore
  <2>6. state' \in [Ref -> {"needed", "resolving", "established"}] /\ pending' \in SUBSET Ref
    BY <1>1, <2>3, MarkingTypes
  <2>7. TypeOK'
    BY <1>1, <1>4, <1>5, <2>3, <2>4, <2>6 DEF TypeOK
  <2>. QED  BY <1>2, <1>4, <2>5, <2>7, NoCalls DEF IInv
<1>. QED  BY <1>3, <1>6, <1>7

LEMMA ReplayStep ==
  ASSUME IInv, UndoCommand \/ RedoCommand
  PROVE  IInv'
<1>1. TypeOK /\ TreeInv /\ MarkInv /\ IsTree(parent) /\ TreeLinked /\ InTree
  BY LinkedTree DEF IInv, TreeInv
<1>2. TreeLinked'
  BY <1>1, LinkedReplay
<1>3. PICK c \in Commands : /\ Replay(c) /\ Fits(Present, c) /\ position' \in 0..Len(history)
                            /\ at' \in {"idle", "undo", "redo"}
  BY <1>1, LinkedReplay
<1>4. /\ Perform(c) /\ calls = <<>> /\ calls' = calls
      /\ UNCHANGED <<target, failed, todo, history, session>>
  BY <1>3 DEF Replay
<1>5. misled' \in SUBSET Ref
  <2>1. Dependents(c.node) \in SUBSET Ref
    BY MarkedRefs DEF Dependents
  <2>. QED  BY <1>1, <1>3, <2>1 DEF Replay, TypeOK
<1>6. InTree'
  BY <1>1, <1>3, <1>4, ManagedStep
<1>7. /\ parent' \in [Node -> Node \cup {NoNode}] /\ name' \in [Node -> Name]
      /\ managed' \in SUBSET Node
      /\ state' \in [Ref -> {"needed", "resolving", "established"}]
      /\ pending' \in SUBSET Ref
      /\ astray' \in SUBSET (Node \X (Node \cup {NoNode}))
  BY <1>1, <1>4, PerformTypes
<1>8. TypeOK'
  BY <1>1, <1>3, <1>4, <1>5, <1>7 DEF TypeOK
<1>9. (TypeOK /\ TreeLinked => IsTree(parent))'
  BY LinkedTree, PTL
<1>10. MarkInv'
  BY <1>1, <1>2, <1>4, <1>8, <1>9, PerformMarks
<1>. QED  BY <1>2, <1>4, <1>6, <1>8, <1>10, NoCalls DEF IInv, TreeInv

(***************************************************************************)
(* What is in the tree is pending as long as it needs to be resolved.      *)
(***************************************************************************)
LEMMA InitInv ==
  ASSUME Init
  PROVE  IInv
<1>1. TypeOK
  <2>1. parent \in [Node -> Node \cup {NoNode}] /\ name \in [Node -> Name]
    BY ReferencesAssumption DEF Init, IsTree
  <2>2. managed \in SUBSET Node
    BY BelowNodes DEF Init
  <2>3. state \in [Ref -> {"needed", "resolving", "established"}] /\ pending \in SUBSET Ref
    BY DEF Init
  <2>4. target \in [Ref -> Decl \cup {NoNode}]
    BY ReferencesAssumption DEF Init
  <2>5. calls \in Seq(Calls) /\ history \in Seq(Commands) /\ position \in 0..Len(history)
    BY DEF Init
  <2>. QED  BY <2>1, <2>2, <2>3, <2>4, <2>5 DEF TypeOK, Init
<1>2. TreeLinked
  <2>1. Present \in Snapshots
    BY <1>1, PresentSnapshot, ReferencesAssumption DEF Init
  <2>2. PICK s \in Snapshots : s = Present
    BY <2>1
  <2>. DEFINE past == [k \in 0..0 |-> s]
  <2>3. Linked(past, <<>>) /\ past[0] = s
    BY DEF Linked
  <2>. HIDE DEF past
  <2>. QED  BY <2>2, <2>3 DEF TreeLinked, Init
<1>3. InTree
  BY DEF InTree, Init
<1>4. CallInv
  BY DEF Init, CallInv
<1>5. MarkInv
  BY DEF Init, MarkInv, UnresolvedPending
<1>. QED  BY <1>1, <1>2, <1>3, <1>4, <1>5 DEF IInv, TreeInv

LEMMA QuietStep ==
  ASSUME IInv, UNCHANGED <<tree, marks, target, wrong, calls, history, position>>,
         at' \in {"idle", "edit", "undo", "redo", "resolve"}, todo' \in SUBSET Ref, session' \in Nat
  PROVE  IInv'
<1>1. TypeOK /\ TreeInv /\ CallInv /\ MarkInv
  BY DEF IInv
<1>2. TypeOK'
  BY <1>1 DEF TypeOK, tree, marks, wrong
<1>3. TreeInv'
  <2>1. Present' = Present /\ managed' = managed /\ parent' = parent
    BY DEF Present, tree
  <2>. QED  BY <1>1, <2>1 DEF TreeInv, TreeLinked, InTree
<1>4. CallInv'
  BY <1>1 DEF CallInv, AsksBefore, tree
<1>5. MarkInv'
  BY <1>1 DEF MarkInv, UnresolvedPending, tree, marks
<1>. QED  BY <1>2, <1>3, <1>4, <1>5 DEF IInv

LEMMA NextInv ==
  ASSUME IInv, [Next]_vars
  PROVE  IInv'
<1>1. TypeOK
  BY DEF IInv
<1>2. CASE BeginModification
  <2>1. LastSession \in Nat
    <3>1. PICK h \in Seq(Commands) : h = history
      BY <1>1 DEF TypeOK
    <3>2. PICK n \in 0..Len(h) : n = position
      BY <1>1, <3>1 DEF TypeOK
    <3>3. n # 0 => h[n] \in Commands
      BY <3>1, <3>2
    <3>4. n # 0 => h[n].session \in Nat
      BY <3>3 DEF Commands
    <3>. QED  BY <3>1, <3>2, <3>4 DEF LastSession
  <2>. QED  BY <1>1, <1>2, <2>1, QuietStep DEF BeginModification, TypeOK
<1>3. CASE Edit
  BY <1>3, EditStep
<1>4. CASE \E r \in Ref : AskTarget(r)
  BY <1>1, <1>4, StartStep DEF AskTarget, TypeOK
<1>5. CASE \E tryResolvingReferences \in BOOLEAN : EndModification(tryResolvingReferences)
  <2>1. /\ UNCHANGED <<tree, marks, target, wrong, calls, history, position, session>>
        /\ at' \in {"resolve", "idle"} /\ (todo' = pending \/ todo' = todo)
    BY <1>5 DEF EndModification, stack
  <2>. QED  BY <1>1, <2>1, QuietStep DEF TypeOK
<1>6. CASE ResolveNext
  <2>1. PICK r \in todo : /\ todo' = todo \ {r}
                          /\ IF state[r] = "needed" THEN Begin(r, <<>>, FALSE)
                                                    ELSE UNCHANGED <<calls, marks, misled>>
    BY <1>6 DEF ResolveNext
  <2>2. /\ r \in Ref /\ todo' \in SUBSET Ref /\ calls = <<>>
        /\ UNCHANGED <<tree, target, failed, astray, at, stack>>
    BY <1>1, <1>6, <2>1 DEF ResolveNext, TypeOK
  <2>3. CASE state[r] = "needed"
    BY <2>1, <2>2, <2>3, StartStep
  <2>4. CASE state[r] # "needed"
    BY <1>1, <2>1, <2>2, <2>4, QuietStep DEF wrong, stack, TypeOK
  <2>. QED  BY <2>3, <2>4
<1>7. CASE NextRound
  BY <1>1, <1>7, QuietStep DEF NextRound, stack, TypeOK
<1>8. CASE Ask \/ Climb \/ Return
  BY <1>8, AskStep, ClimbStep, ReturnStep
<1>9. CASE UndoCommand \/ RedoCommand
  BY <1>9, ReplayStep
<1>10. CASE UNCHANGED vars
  <2>1. UNCHANGED <<tree, marks, target, wrong, calls, history, position, at, todo, session>>
    BY <1>10 DEF vars, stack
  <2>. QED  BY <1>1, <2>1, QuietStep DEF TypeOK
<1>. QED  BY <1>2, <1>3, <1>4, <1>5, <1>6, <1>7, <1>8, <1>9, <1>10 DEF Next, Edit

THEOREM Inductive == Spec => []IInv
<1>1. Init => IInv
  BY InitInv
<1>2. IInv /\ [Next]_vars => IInv'
  BY NextInv
<1>. QED  BY <1>1, <1>2, PTL DEF Spec

(* The tree, the marks, the stack of calls and the undo stack have their   *)
(* types.                                                                  *)
THEOREM TypeCorrect == Spec => []TypeOK
<1>1. IInv => TypeOK
  BY DEF IInv
<1>. QED  BY <1>1, Inductive, PTL

(* Reference.h:109-113: no reference of the tree is left unresolved for    *)
(* ever, whatever was done, undone and resolved.                           *)
THEOREM NoneForgotten == Spec => []UnresolvedPending
<1>1. IInv => UnresolvedPending
  BY DEF IInv, MarkInv
<1>. QED  BY <1>1, Inductive, PTL

(* TreeManager.cpp:91: after resolvePending no reference of the tree is    *)
(* left unresolved, whatever the resolution of one did to the others.      *)
THEOREM ResolvedInTheEnd == Spec => AllResolved
<1>1. ASSUME IInv, [Next]_vars, at = "resolve", at' = "idle"
      PROVE  \A r \in Ref \cap managed : state[r] = "established"
  <2>1. TypeOK /\ MarkInv
    BY <1>1 DEF IInv
  <2>2. NextRound
    <3>1. CASE Edit
      BY <1>1, <3>1 DEF Edit, Rename, SetName, RemoveNode, InsertNode, Execute
    <3>2. CASE ~Edit
      BY <1>1, <3>2 DEF Next, Edit, BeginModification, AskTarget, EndModification, ResolveNext,
                        Ask, Climb, Return, UndoCommand, RedoCommand, vars
    <3>. QED  BY <3>1, <3>2
  <2>3. pending = {} /\ calls = <<>>
    BY <1>1, <2>2 DEF NextRound
  <2>. QED  BY <2>1, <2>3 DEF TypeOK, MarkInv, UnresolvedPending
<1>2. IInv /\ [Next]_vars =>
        [at = "resolve" /\ at' = "idle" =>
           \A r \in Ref \cap managed : state[r] = "established"]_vars
  BY <1>1
<1>. QED  BY <1>2, Inductive, PTL DEF AllResolved, Spec

(***************************************************************************)
(* Searches, of tree p with names nm and targets tg: Find(r) is a search   *)
(* of the present ones, and a call has made a part of it.                  *)
(***************************************************************************)
ScopesOf(p, r) == IF Scope(p, r) = NoNode THEN {} ELSE Above(p, Scope(p, r))

ChildOf(p, r, d) == CHOOSE c \in ScopesOf(p, r) \cup {Whole(p, r)} : p[c] = d

HasName(p, nm, d, n) == {c \in Decl : p[c] = d /\ nm[c] = n}

ImportsOf(p, nm, d, n) == {i \in Import : p[i] = d /\ (i \in ImportAll \/ nm[i] = n)}

AskedIn(p, nm, c, d, n) ==
  IF c \in Decl /\ HasName(p, nm, d, n) # {}
    THEN {} ELSE {i \in ImportsOf(p, nm, d, n) : IsAbove(i, c)}

Bring(p, nm, i, t, n) ==
  CASE t = NoNode -> {}
    [] t # NoNode /\ i \in Import \ ImportAll -> {d \in {t} : nm[d] = n}
    [] t # NoNode /\ i \notin Import \ ImportAll -> HasName(p, nm, t, n)

BroughtIn(p, nm, tg, I, n) == UNION {Bring(p, nm, i, tg[i], n) : i \in I}

SeenIn(p, nm, c, d, n, found) ==
  CASE d = NoNode \/ (c \in Import /\ found # {}) -> found
    [] d # NoNode /\ ~(c \in Import /\ found # {}) ->
         IF found \cup HasName(p, nm, d, n) = {} /\ nm[d] = n
           THEN {d} ELSE found \cup HasName(p, nm, d, n)

(* What a search for r sees in its scope d. *)
Level(p, nm, tg, r, d) ==
  SeenIn(p, nm, ChildOf(p, r, d), d, nm[r],
         BroughtIn(p, nm, tg, AskedIn(p, nm, ChildOf(p, r, d), d, nm[r]), nm[r]))

Hits(p, nm, tg, r) == {d \in ScopesOf(p, r) : Level(p, nm, tg, r, d) # {}}

Search(p, nm, tg, r) ==
  IF r \in Dotted
    THEN Bring(p, nm, Prefix[r], tg[Prefix[r]], nm[r])
    ELSE UNION {Level(p, nm, tg, r, d) :
                  d \in {e \in Hits(p, nm, tg, r) : Hits(p, nm, tg, r) \subseteq Above(p, e)}}

(* What call c has searched: it sees nothing further in than its place, and *)
(* has what those bring that it does not ask any more.                      *)
Progress(p, nm, tg, c) ==
  IF c.ref \in Dotted
    THEN c.place = NoNode /\ c.asks = {Prefix[c.ref]} /\ c.found = {}
    ELSE /\ c.place \in ScopesOf(p, c.ref) /\ c.child = ChildOf(p, c.ref, c.place)
         /\ c.asks \subseteq AskedIn(p, nm, c.child, c.place, nm[c.ref])
         /\ c.found = BroughtIn(p, nm, tg, AskedIn(p, nm, c.child, c.place, nm[c.ref]) \ c.asks,
                                nm[c.ref])
         /\ \A d \in ScopesOf(p, c.ref) \ {c.place} :
              c.place \in Above(p, d) => Level(p, nm, tg, c.ref, d) = {}

LEMMA FindSearches ==
  ASSUME NEW r \in Ref
  PROVE  Find(r) = Search(parent, name, target, r)
<1>. DEFINE n == name[r]
            top == Whole(parent, r)
            scopes == IF parent[top] = NoNode THEN {} ELSE Above(parent, parent[top])
            Child(d) == CHOOSE c \in scopes \cup {top} : parent[c] = d
            In(d) == Seen(Child(d), d, n,
                          UNION {Brings(i, target[i], n) : i \in Asks(Child(d), d, n)})
            hits == {d \in scopes : In(d) # {}}
<1>1. ScopesOf(parent, r) = scopes
  BY DEF ScopesOf, Scope
<1>2. \A d : ChildOf(parent, r, d) = Child(d)
  BY <1>1 DEF ChildOf
<1>3. \A d, m : HasName(parent, name, d, m) = Named(d, m)
  BY DEF HasName, Named
<1>4. \A c, d, m : AskedIn(parent, name, c, d, m) = Asks(c, d, m)
  BY <1>3 DEF AskedIn, ImportsOf, Asks
<1>5. \A i, t, m : Bring(parent, name, i, t, m) = Brings(i, t, m)
  BY <1>3 DEF Bring, Brings
<1>6. \A c, d, m, f : SeenIn(parent, name, c, d, m, f) = Seen(c, d, m, f)
  BY <1>3 DEF SeenIn, Seen
<1>. HIDE DEF scopes, Child
<1>7. \A d : Level(parent, name, target, r, d) = In(d)
  <2>. TAKE d
  <2>1. PICK c : c = Child(d)
    OBVIOUS
  <2>2. PICK A : A = Asks(c, d, n)
    OBVIOUS
  <2>3. BroughtIn(parent, name, target, A, n) = UNION {Brings(i, target[i], n) : i \in A}
    BY <1>5 DEF BroughtIn
  <2>4. PICK f : f = BroughtIn(parent, name, target, A, n)
    OBVIOUS
  <2>5. ChildOf(parent, r, d) = c /\ AskedIn(parent, name, c, d, n) = A
    BY <1>2, <1>4, <2>1, <2>2
  <2>6. Level(parent, name, target, r, d) = SeenIn(parent, name, c, d, n, f)
    BY <2>4, <2>5 DEF Level
  <2>7. In(d) = Seen(c, d, n, f)
    BY <2>1, <2>2, <2>3, <2>4
  <2>. QED  BY <1>6, <2>6, <2>7
<1>. HIDE DEF In
<1>8. Hits(parent, name, target, r) = hits
  BY <1>1, <1>7 DEF Hits
<1>9. Find(r) = IF r \in Dotted THEN Brings(Prefix[r], target[Prefix[r]], n)
                ELSE UNION {In(d) : d \in {e \in hits : hits \subseteq Above(parent, e)}}
  BY DEF Find, In, Child, scopes
<1>. QED  BY <1>5, <1>7, <1>8, <1>9 DEF Search

LEMMA ScopesUp ==
  ASSUME NEW p, IsTree(p), NEW r \in Ref
  PROVE  /\ ScopesOf(p, r) \in SUBSET Decl /\ NoNode \notin ScopesOf(p, r)
         /\ \A d \in ScopesOf(p, r) :
              /\ Scope(p, r) \in Decl /\ d \in Up(p, Decl, Scope(p, r))
              /\ Above(p, d) \subseteq ScopesOf(p, r)
              /\ p[d] \in Decl => p[d] \in ScopesOf(p, r)
         /\ Scope(p, r) # NoNode => Scope(p, r) \in ScopesOf(p, r)
<1>1. Scope(p, r) \in Decl \cup {NoNode} /\ NoNode \notin Decl
  BY WholeLast, ReferencesAssumption DEF Scope, Node
<1>2. CASE Scope(p, r) = NoNode
  BY <1>2 DEF ScopesOf
<1>3. CASE Scope(p, r) # NoNode
  <2>1. PICK s \in Decl : s = Scope(p, r)
    BY <1>1, <1>3
  <2>2. ScopesOf(p, r) = Up(p, Decl, s)
    BY <1>3, <2>1 DEF ScopesOf, Above
  <2>3. \A d \in Up(p, Decl, s) : Up(p, Decl, d) \subseteq Up(p, Decl, s)
    BY UpTrans
  <2>4. \A d \in Up(p, Decl, s) : p[d] \in Decl => p[d] \in Up(p, Decl, s)
    BY UpStep
  <2>. QED  BY <1>1, <2>1, <2>2, <2>3, <2>4, UpSubset, UpSelf DEF Above
<1>. QED  BY <1>2, <1>3

(* From which node a search comes into a scope. *)
LEMMA ChildFirst ==
  ASSUME NEW p, IsTree(p), NEW r \in Ref, Scope(p, r) # NoNode
  PROVE  ChildOf(p, r, Scope(p, r)) = Whole(p, r)
<1>1. Scope(p, r) \in Decl /\ p[Whole(p, r)] = Scope(p, r)
  BY WholeLast DEF Scope
<1>2. ASSUME NEW c \in ScopesOf(p, r), p[c] = Scope(p, r) PROVE FALSE
  <2>1. c \in Decl /\ p[c] \in Decl /\ c \in Up(p, Decl, p[c])
    BY <1>1, <1>2, ScopesUp
  <2>. QED  BY <2>1, UpAgain, TreeParents
<1>. QED  BY <1>1, <1>2 DEF ChildOf

LEMMA ChildNext ==
  ASSUME NEW p, IsTree(p), NEW r \in Ref, NEW e \in ScopesOf(p, r), p[e] \in Decl
  PROVE  ChildOf(p, r, p[e]) = e
<1>1. /\ e \in Decl /\ Scope(p, r) \in Decl /\ e \in Up(p, Decl, Scope(p, r))
      /\ NoRing(p, Decl)
  BY ScopesUp, TreeParents
<1>2. e \notin Up(p, Decl, p[e])
  BY <1>1, UpAgain
<1>3. ASSUME NEW c \in ScopesOf(p, r), p[c] = p[e], c # e PROVE FALSE
  <2>1. c \in Decl /\ c \in Up(p, Decl, Scope(p, r))
    BY ScopesUp
  <2>2. c \in Up(p, Decl, e) \/ e \in Up(p, Decl, c)
    BY <1>1, <2>1, UpTotal
  <2>3. CASE c \in Up(p, Decl, e)
    <3>1. c \in Up(p, Decl, p[c])
      BY <1>1, <1>3, <2>3, UpParent
    <3>. QED  BY <1>1, <1>3, <2>1, <3>1, UpAgain
  <2>4. CASE e \in Up(p, Decl, c)
    <3>1. e \in Up(p, Decl, p[c])
      BY <2>1, <1>3, <2>4, UpParent
    <3>. QED  BY <1>2, <1>3, <3>1
  <2>. QED  BY <2>2, <2>3, <2>4
<1>4. p[Whole(p, r)] # p[e]
  <2>. SUFFICES ASSUME p[Whole(p, r)] = p[e] PROVE FALSE
    OBVIOUS
  <2>1. Scope(p, r) = p[e]
    BY DEF Scope
  <2>. QED  BY <1>1, <1>2, <2>1
<1>. QED  BY <1>3, <1>4 DEF ChildOf

(* Where the search ends. *)
LEMMA SearchEnds ==
  ASSUME NEW p, IsTree(p), NEW nm, NEW tg, NEW r \in Ref, r \notin Dotted, NEW e \in ScopesOf(p, r),
         \A d \in ScopesOf(p, r) \ {e} : e \in Above(p, d) => Level(p, nm, tg, r, d) = {},
         Level(p, nm, tg, r, e) # {} \/ p[e] \notin Decl
  PROVE  Search(p, nm, tg, r) = Level(p, nm, tg, r, e)
<1>. DEFINE H == Hits(p, nm, tg, r)
            L(d) == Level(p, nm, tg, r, d)
<1>1. /\ e \in Decl /\ Scope(p, r) \in Decl /\ e \in Up(p, Decl, Scope(p, r))
      /\ NoRing(p, Decl)
  BY ScopesUp, TreeParents
<1>2. \A d \in H : d \in ScopesOf(p, r) /\ L(d) # {}
  BY DEF Hits
<1>3. ASSUME NEW d \in H, d # e PROVE d \in Above(p, e)
  <2>1. d \in Decl /\ d \in Up(p, Decl, Scope(p, r)) /\ e \notin Up(p, Decl, d)
    BY <1>2, <1>3, ScopesUp DEF Above
  <2>. QED  BY <1>1, <2>1, UpTotal DEF Above
<1>4. CASE L(e) # {}
  <2>1. e \in H /\ e \in Above(p, e)
    BY <1>1, <1>4, UpSelf DEF Hits, Above
  <2>2. H \subseteq Above(p, e)
    BY <1>3, <2>1
  <2>3. ASSUME NEW d \in H, H \subseteq Above(p, d) PROVE d = e
    <3>1. d \in Decl /\ e \in Up(p, Decl, d) /\ d \in Up(p, Decl, e)
      BY <1>2, <2>1, <2>2, <2>3, ScopesUp DEF Above
    <3>. QED  BY <1>1, <3>1, UpOneWay
  <2>. HIDE DEF H
  <2>4. {d \in H : H \subseteq Above(p, d)} = {e}
    BY <2>1, <2>2, <2>3
  <2>5. Search(p, nm, tg, r) = UNION {L(d) : d \in {e}}
    BY <2>4 DEF Search, H
  <2>. QED  BY <2>5
<1>5. CASE L(e) = {} /\ p[e] \notin Decl
  <2>1. ASSUME NEW d \in H PROVE FALSE
    <3>1. d \in Up(p, Decl, e) /\ d # e
      BY <1>2, <1>3, <1>5 DEF Above
    <3>. QED  BY <1>1, <1>5, <3>1, UpParent
  <2>2. Hits(p, nm, tg, r) = {}
    BY <2>1
  <2>. QED  BY <1>5, <2>2 DEF Search
<1>. QED  BY <1>4, <1>5

(***************************************************************************)
(* What a search depends on.                                               *)
(***************************************************************************)
Alike(p, nm, tg, q, nn, th, r) ==
  /\ nn[r] = nm[r] /\ Whole(q, r) = Whole(p, r) /\ ScopesOf(q, r) = ScopesOf(p, r)
  /\ \A c \in ScopesOf(p, r) \cup {Whole(p, r)} : q[c] = p[c]
  /\ \A d \in ScopesOf(p, r) : Above(q, d) = Above(p, d)
  /\ \A d \in Decl : /\ HasName(q, nn, d, nm[r]) = HasName(p, nm, d, nm[r])
                     /\ nn[d] = nm[r] <=> nm[d] = nm[r]
  /\ \A d \in ScopesOf(p, r) :
       /\ ImportsOf(q, nn, d, nm[r]) = ImportsOf(p, nm, d, nm[r])
       /\ \A i \in AskedIn(p, nm, ChildOf(p, r, d), d, nm[r]) : th[i] = tg[i]
  /\ r \in Dotted => th[Prefix[r]] = tg[Prefix[r]]

LEMMA AlikeLevel ==
  ASSUME NEW p, IsTree(p), NEW nm, NEW tg \in [Ref -> Decl \cup {NoNode}],
         NEW q, NEW nn, NEW th, NEW r \in Ref, Alike(p, nm, tg, q, nn, th, r)
  PROVE  /\ \A i \in Ref : Bring(q, nn, i, tg[i], nm[r]) = Bring(p, nm, i, tg[i], nm[r])
         /\ \A d \in ScopesOf(p, r) :
              /\ ChildOf(q, r, d) = ChildOf(p, r, d)
              /\ \A c : AskedIn(q, nn, c, d, nm[r]) = AskedIn(p, nm, c, d, nm[r])
              /\ \A I \in SUBSET AskedIn(p, nm, ChildOf(p, r, d), d, nm[r]) :
                   BroughtIn(q, nn, th, I, nm[r]) = BroughtIn(p, nm, tg, I, nm[r])
              /\ Level(q, nn, th, r, d) = Level(p, nm, tg, r, d)
<1>. DEFINE n == nm[r]
<1>1. /\ nn[r] = n /\ Whole(q, r) = Whole(p, r) /\ ScopesOf(q, r) = ScopesOf(p, r)
      /\ \A c \in ScopesOf(p, r) \cup {Whole(p, r)} : q[c] = p[c]
      /\ \A d \in Decl : HasName(q, nn, d, n) = HasName(p, nm, d, n) /\ (nn[d] = n <=> nm[d] = n)
      /\ \A d \in ScopesOf(p, r) :
           /\ ImportsOf(q, nn, d, n) = ImportsOf(p, nm, d, n)
           /\ \A i \in AskedIn(p, nm, ChildOf(p, r, d), d, n) : th[i] = tg[i]
  BY DEF Alike
<1>2. ScopesOf(p, r) \in SUBSET Decl
  BY ScopesUp
<1>3. ASSUME NEW i \in Ref
      PROVE  Bring(q, nn, i, tg[i], n) = Bring(p, nm, i, tg[i], n)
  <2>1. tg[i] = NoNode \/ tg[i] \in Decl
    OBVIOUS
  <2>2. tg[i] # NoNode => {d \in {tg[i]} : nn[d] = n} = {d \in {tg[i]} : nm[d] = n}
    BY <1>1, <2>1
  <2>. QED  BY <1>1, <2>1, <2>2 DEF Bring
<1>4. ASSUME NEW d \in ScopesOf(p, r)
      PROVE  ChildOf(q, r, d) = ChildOf(p, r, d)
  BY <1>1 DEF ChildOf
<1>5. ASSUME NEW d \in ScopesOf(p, r), NEW c
      PROVE  AskedIn(q, nn, c, d, n) = AskedIn(p, nm, c, d, n)
  <2>1. d \in Decl
    BY <1>2
  <2>. QED  BY <1>1, <2>1 DEF AskedIn
<1>6. ASSUME NEW d \in ScopesOf(p, r), NEW I \in SUBSET AskedIn(p, nm, ChildOf(p, r, d), d, n)
      PROVE  BroughtIn(q, nn, th, I, n) = BroughtIn(p, nm, tg, I, n)
  <2>1. \A i \in I : i \in Ref /\ th[i] = tg[i]
    BY <1>1, ImportPlace DEF AskedIn, ImportsOf
  <2>2. \A i \in I : Bring(q, nn, i, th[i], n) = Bring(p, nm, i, tg[i], n)
    BY <1>3, <2>1
  <2>. QED  BY <2>2 DEF BroughtIn
<1>7. ASSUME NEW d \in ScopesOf(p, r)
      PROVE  Level(q, nn, th, r, d) = Level(p, nm, tg, r, d)
  <2>1. PICK c : c = ChildOf(p, r, d)
    OBVIOUS
  <2>2. PICK A : A = AskedIn(p, nm, c, d, n)
    OBVIOUS
  <2>3. PICK f : f = BroughtIn(p, nm, tg, A, n)
    OBVIOUS
  <2>4. ChildOf(q, r, d) = c /\ AskedIn(q, nn, c, d, n) = A /\ BroughtIn(q, nn, th, A, n) = f
    BY <1>4, <1>5, <1>6, <2>1, <2>2, <2>3
  <2>5. SeenIn(q, nn, c, d, n, f) = SeenIn(p, nm, c, d, n, f)
    <3>1. HasName(q, nn, d, n) = HasName(p, nm, d, n) /\ (nn[d] = n <=> nm[d] = n)
      BY <1>1, <1>2
    <3>. QED  BY <3>1 DEF SeenIn
  <2>. QED  BY <1>1, <2>1, <2>2, <2>3, <2>4, <2>5 DEF Level
<1>. QED  BY <1>3, <1>4, <1>5, <1>6, <1>7

LEMMA AlikeSearch ==
  ASSUME NEW p, IsTree(p), NEW nm, NEW tg \in [Ref -> Decl \cup {NoNode}],
         NEW q, NEW nn, NEW th, NEW r \in Ref, Alike(p, nm, tg, q, nn, th, r)
  PROVE  Search(q, nn, th, r) = Search(p, nm, tg, r)
<1>1. /\ nn[r] = nm[r] /\ ScopesOf(q, r) = ScopesOf(p, r)
      /\ \A d \in ScopesOf(p, r) : Above(q, d) = Above(p, d)
      /\ r \in Dotted => th[Prefix[r]] = tg[Prefix[r]]
  BY DEF Alike
<1>2. CASE r \in Dotted
  <2>1. Prefix[r] \in Ref
    BY <1>2, WholePrefix
  <2>2. Bring(q, nn, Prefix[r], tg[Prefix[r]], nm[r]) =
          Bring(p, nm, Prefix[r], tg[Prefix[r]], nm[r])
    BY <2>1, AlikeLevel
  <2>. QED  BY <1>1, <1>2, <2>2 DEF Search
<1>3. CASE r \notin Dotted
  <2>1. \A d \in ScopesOf(p, r) : Level(q, nn, th, r, d) = Level(p, nm, tg, r, d)
    BY AlikeLevel
  <2>2. PICK H : H = Hits(p, nm, tg, r)
    OBVIOUS
  <2>3. Hits(q, nn, th, r) = H /\ H \subseteq ScopesOf(p, r)
    BY <1>1, <2>1, <2>2 DEF Hits
  <2>4. {e \in H : H \subseteq Above(q, e)} = {e \in H : H \subseteq Above(p, e)}
    BY <1>1, <2>3
  <2>5. PICK N : N = {e \in H : H \subseteq Above(p, e)}
    OBVIOUS
  <2>6. {Level(q, nn, th, r, d) : d \in N} = {Level(p, nm, tg, r, d) : d \in N}
    BY <2>1, <2>3, <2>5
  <2>7. /\ Search(q, nn, th, r) = UNION {Level(q, nn, th, r, d) : d \in N}
        /\ Search(p, nm, tg, r) = UNION {Level(p, nm, tg, r, d) : d \in N}
    BY <1>3, <2>2, <2>3, <2>4, <2>5 DEF Search
  <2>. QED  BY <2>6, <2>7
<1>. QED  BY <1>2, <1>3

LEMMA AlikeProgress ==
  ASSUME NEW p, IsTree(p), NEW nm, NEW tg \in [Ref -> Decl \cup {NoNode}],
         NEW q, NEW nn, NEW th, NEW c, c.ref \in Ref,
         c.ref \notin Dotted => Alike(p, nm, tg, q, nn, th, c.ref), Progress(p, nm, tg, c)
  PROVE  Progress(q, nn, th, c)
<1>1. CASE c.ref \in Dotted
  BY <1>1 DEF Progress
<1>2. CASE c.ref \notin Dotted
  <2>1. PICK r \in Ref : r = c.ref
    OBVIOUS
  <2>2. PICK A : A = AskedIn(p, nm, c.child, c.place, nm[r])
    OBVIOUS
  <2>3. /\ Alike(p, nm, tg, q, nn, th, r) /\ r \notin Dotted
        /\ c.place \in ScopesOf(p, r) /\ c.child = ChildOf(p, r, c.place) /\ c.asks \subseteq A
        /\ c.found = BroughtIn(p, nm, tg, A \ c.asks, nm[r])
        /\ \A d \in ScopesOf(p, r) \ {c.place} :
             c.place \in Above(p, d) => Level(p, nm, tg, r, d) = {}
    BY <1>2, <2>1, <2>2 DEF Progress
  <2>4. /\ nn[r] = nm[r] /\ ScopesOf(q, r) = ScopesOf(p, r)
        /\ \A d \in ScopesOf(p, r) : Above(q, d) = Above(p, d)
    BY <2>3 DEF Alike
  <2>5. /\ ChildOf(q, r, c.place) = c.child /\ AskedIn(q, nn, c.child, c.place, nm[r]) = A
        /\ \A d \in ScopesOf(p, r) : Level(q, nn, th, r, d) = Level(p, nm, tg, r, d)
    BY <2>2, <2>3, AlikeLevel
  <2>6. A \ c.asks \in SUBSET AskedIn(p, nm, ChildOf(p, r, c.place), c.place, nm[r])
    BY <2>2, <2>3
  <2>7. BroughtIn(q, nn, th, A \ c.asks, nm[r]) = BroughtIn(p, nm, tg, A \ c.asks, nm[r])
    BY <2>3, <2>6, AlikeLevel
  <2>. QED  BY <2>1, <2>3, <2>4, <2>5, <2>7 DEF Progress
<1>. QED  BY <1>1, <1>2

(***************************************************************************)
(* What references found is right: of those in the tree, but for the ones  *)
(* of which TargetsAreRight says nothing.                                  *)
(***************************************************************************)
Counted(r) == r \in (Ref \cap managed) \ (Cloned \cup misled)

(* What r sees is out of the tree, or an import that it saw. *)
Excused(r) ==
  \E m \in astray : \/ m[1] \in Decl /\ name[r] = name[m[1]]
                    \/ m[1] \in Import /\ m[2] \in ScopesOf(parent, r)

RightInv ==
  \A r \in Ref : Counted(r) /\ state[r] = "established" =>
    target[r] = Only(Search(parent, name, target, r)) \/ Excused(r)

(* What a call has searched so far is what it would find there now. *)
SearchInv ==
  \A k \in DOMAIN calls : Counted(calls[k].ref) => Progress(parent, name, target, calls[k])

(* Whom a call asks is the next on the stack; when that has returned and    *)
(* needs to be resolved again, it has no target.                           *)
AskedInv ==
  /\ \A k, l \in DOMAIN calls : l = k + 1 => calls[k].asked = calls[l].ref
  /\ \A k \in DOMAIN calls :
       /\ k = Len(calls) /\ calls[k].asked # NoNode /\ Counted(calls[k].ref)
       /\ state[calls[k].asked] = "needed"
       => target[calls[k].asked] = NoNode

(* A declaration that was taken out of the tree is nowhere. *)
AwayInv ==
  \A m \in astray : /\ m[1] \in Movable \cap (Decl \cup Import)
                    /\ m[1] \in Decl => parent[m[1]] = NoNode

TargetInv == RightInv /\ SearchInv /\ AskedInv /\ AwayInv

LEMMA ManagedScope ==
  ASSUME NEW p, IsTree(p), NEW r \in Ref \cap Below(p, Root)
  PROVE  /\ Scope(p, r) \in Decl /\ Scope(p, r) # NoNode /\ Root \in Up(p, Decl, Scope(p, r))
         /\ Scope(p, r) \in ScopesOf(p, r)
<1>1. Scope(p, r) # NoNode /\ Root \in Up(p, Decl, Scope(p, r))
  BY ReferencesAssumption DEF Below, Above
<1>. QED  BY <1>1, ScopesUp

(* Who sees an import in a scope is searched for there, and who has a name  *)
(* in the whole tree.                                                       *)
LEMMA SeenFrom ==
  ASSUME NEW p, IsTree(p), NEW tm, tm = Below(p, Root), NEW r \in (Ref \cap tm) \ Cloned,
         NEW d \in ScopesOf(p, r)
  PROVE  r \in ReferencesIn(p, tm, d)
<1>1. Root \in Decl /\ Root \in tm /\ p[Root] \notin Decl /\ NoNode \notin Decl
  BY BelowSelf, TreeParents, ReferencesAssumption DEF Node
<1>2. /\ Scope(p, r) \in Decl /\ Scope(p, r) # NoNode /\ Root \in Up(p, Decl, Scope(p, r))
      /\ d \in Decl /\ d \in Up(p, Decl, Scope(p, r))
  BY ManagedScope, ScopesUp
<1>3. CASE p[d] = NoNode
  <2>1. d = Root
    BY <1>1, <1>2, <1>3, UpLastOne
  <2>. QED  BY <1>1, <1>3, <2>1 DEF ReferencesIn
<1>4. CASE p[d] # NoNode
  BY <1>2, <1>4 DEF ReferencesIn, Below, Above
<1>. QED  BY <1>3, <1>4

LEMMA NamedInTree ==
  ASSUME NEW p, IsTree(p), NEW tm, tm = Below(p, Root), NEW r \in (Ref \cap tm) \ Cloned,
         NEW names, name[r] \in names
  PROVE  r \in WithNames(p, tm, Root, names)
<1>1. Root \in Node /\ Root \in tm /\ p[Root] = NoNode
  BY BelowSelf, TreeParents, ReferencesAssumption DEF Node
<1>. QED  BY <1>1 DEF WithNames, ReferencesIn

LEMMA NotDependent ==
  ASSUME IsTree(parent), InTree, NEW q \in (Ref \cap managed) \ Cloned, NEW r \in Ref,
         q \notin Dependents(r)
  PROVE  /\ q \in Dotted => Prefix[q] # r
         /\ \A d \in ScopesOf(parent, q) : r \in Import => parent[r] # d
<1>1. ASSUME q \in Dotted, Prefix[q] = r PROVE FALSE
  <2>1. parent[r] = q
    BY <1>1 DEF IsTree
  <2>2. q \in Ref /\ q \notin Decl
    BY ReferencesAssumption
  <2>. QED  BY <2>1, <2>2 DEF Dependents
<1>2. ASSUME NEW d \in ScopesOf(parent, q), r \in Import, parent[r] = d PROVE FALSE
  <2>1. d \in Decl /\ d \notin Ref
    BY ScopesUp, ReferencesAssumption
  <2>2. q \in ReferencesIn(parent, managed, d)
    BY SeenFrom DEF InTree
  <2>. QED  BY <1>2, <2>1, <2>2 DEF Dependents
<1>. QED  BY <1>1, <1>2

LEMMA StepFacts ==
  ASSUME IInv
  PROVE  /\ TypeOK /\ IsTree(parent) /\ InTree /\ CallInv /\ MarkInv
         /\ target \in [Ref -> Decl \cup {NoNode}]
BY LinkedTree DEF IInv, TreeInv, TypeOK

(***************************************************************************)
(* Targets while references are resolved.                                  *)
(***************************************************************************)
LEMMA BeginProgress ==
  ASSUME TypeOK, IsTree(parent), InTree, NEW r \in Ref, r \in managed, NEW indirect
  PROVE  Progress(parent, name, target, Call(r, indirect))
<1>1. PICK c : c = Call(r, indirect)
  OBVIOUS
<1>2. c.ref = r /\ c.found = {}
  BY <1>1 DEF Call
<1>3. CASE r \in Dotted
  <2>1. c.place = NoNode /\ c.asks = {Prefix[r]}
    BY <1>1, <1>3 DEF Call
  <2>. QED  BY <1>1, <1>2, <1>3, <2>1 DEF Progress
<1>4. CASE r \notin Dotted
  <2>1. PICK p : p = parent
    OBVIOUS
  <2>2. PICK s : s = Scope(p, r)
    OBVIOUS
  <2>3. IsTree(p) /\ r \in Ref \cap Below(p, Root)
    BY <2>1 DEF InTree
  <2>4. s \in Decl /\ s # NoNode /\ s \in ScopesOf(p, r) /\ NoRing(p, Decl)
    BY <2>2, <2>3, ManagedScope, TreeParents
  <2>5. p[Whole(p, r)] = s
    BY <2>2 DEF Scope
  <2>6. c.place = s /\ c.child = Whole(p, r) /\ c.asks = Asks(Whole(p, r), s, name[r])
    BY <1>1, <1>4, <2>1, <2>4, <2>5 DEF Call
  <2>7. c.child = ChildOf(p, r, s)
    BY <2>2, <2>3, <2>4, <2>6, ChildFirst
  <2>8. AskedIn(p, name, c.child, s, name[r]) = c.asks
    BY <2>1, <2>6 DEF AskedIn, HasName, ImportsOf, Asks, Named
  <2>9. BroughtIn(p, name, target, c.asks \ c.asks, name[r]) = {}
    BY DEF BroughtIn
  <2>10. ASSUME NEW d \in ScopesOf(p, r), d # s, s \in Above(p, d) PROVE FALSE
    <3>1. d \in Decl /\ d \in Up(p, Decl, s) /\ s \in Up(p, Decl, d)
      BY <2>2, <2>3, <2>10, ScopesUp DEF Above
    <3>. QED  BY <2>4, <2>10, <3>1, UpOneWay
  <2>. QED  BY <1>1, <1>2, <1>4, <2>1, <2>4, <2>6, <2>7, <2>8, <2>9, <2>10 DEF Progress
<1>. QED  BY <1>3, <1>4

(* Those that a call has asked, or need not ask, say what their target is. *)
LEMMA Answers ==
  ASSUME IInv, AskedInv, calls # <<>>, Counted(Top.ref), NEW I \in SUBSET (Top.asks \ Waiting(Top))
  PROVE  Given(Top, I) = BroughtIn(parent, name, target, I, name[Top.ref])
<1>1. TypeOK /\ IsTree(parent) /\ CallInv /\ MarkInv
  BY StepFacts
<1>2. PICK n : n = Len(calls)
  OBVIOUS
<1>3. n \in Nat \ {0} /\ DOMAIN calls = 1..n /\ Top = calls[n] /\ Top \in Calls
  BY <1>1, <1>2, TopCall
<1>4. ASSUME NEW i \in I
      PROVE  (IF state[i] = "established" THEN target[i] ELSE NoNode) = target[i]
  <2>1. i \in Top.asks /\ i \notin Waiting(Top) /\ i \in Ref /\ Top.ref \in Ref
    BY <1>3 DEF Calls
  <2>2. state[i] # "needed" \/ i = Top.asked
    BY <2>1 DEF Waiting
  <2>3. state[i] # "resolving"
    <3>. SUFFICES ASSUME state[i] = "resolving" PROVE FALSE
      OBVIOUS
    <3>1. PICK k \in DOMAIN calls : calls[k].ref = i
      BY <1>1, <2>1 DEF MarkInv
    <3>2. Precedes(parent, i, Top.ref)
      BY <1>1, <1>3, <2>1 DEF CallInv, AsksBefore
    <3>3. CASE k = n
      BY <1>3, <3>1, <3>2, <3>3, PrecedesOnce
    <3>4. CASE k # n
      <4>1. k < n /\ n \in DOMAIN calls
        BY <1>3, <3>4
      <4>2. Precedes(parent, Top.ref, i)
        BY <1>1, <1>3, <3>1, <4>1 DEF CallInv
      <4>. QED  BY <1>1, <2>1, <3>2, <4>2, PrecedesTrans, PrecedesOnce
    <3>. QED  BY <3>3, <3>4
  <2>4. state[i] \in {"needed", "resolving", "established"}
    BY <1>1, <2>1 DEF TypeOK
  <2>5. CASE state[i] = "needed"
    <3>1. i = Top.asked /\ i # NoNode
      BY <2>1, <2>2, <2>5, ReferencesAssumption DEF Node
    <3>2. target[i] = NoNode
      BY <1>2, <1>3, <2>5, <3>1 DEF AskedInv
    <3>. QED  BY <2>5, <3>2
  <2>. QED  BY <2>3, <2>4, <2>5
<1>5. PICK nm : nm = name[Top.ref]
  OBVIOUS
<1>6. \A i, t : Bring(parent, name, i, t, nm) = Brings(i, t, nm)
  BY DEF Bring, Brings, HasName, Named
<1>7. Given(Top, I) =
        UNION {Brings(i, IF state[i] = "established" THEN target[i] ELSE NoNode, nm) : i \in I}
  BY <1>5 DEF Given
<1>8. BroughtIn(parent, name, target, I, nm) = UNION {Brings(i, target[i], nm) : i \in I}
  BY <1>6 DEF BroughtIn
<1>9. {Brings(i, IF state[i] = "established" THEN target[i] ELSE NoNode, nm) : i \in I}
        = {Brings(i, target[i], nm) : i \in I}
  BY <1>4
<1>. QED  BY <1>5, <1>7, <1>8, <1>9

LEMMA SeenSame ==
  ASSUME NEW c, NEW d, NEW n, NEW f
  PROVE  /\ Seen(c, d, n, f) = SeenIn(parent, name, c, d, n, f)
         /\ Asks(c, d, n) = AskedIn(parent, name, c, d, n)
BY DEF Seen, SeenIn, Asks, AskedIn, HasName, ImportsOf, Named

(* What a call sees when it waits for no answer. *)
LEMMA SeenLevel ==
  ASSUME IInv, AskedInv, SearchInv, calls # <<>>, Counted(Top.ref), Waiting(Top) = {}
  PROVE  /\ Top.ref \in Dotted => SeenBy(Top) = Search(parent, name, target, Top.ref)
         /\ Top.ref \notin Dotted => SeenBy(Top) = Level(parent, name, target, Top.ref, Top.place)
<1>1. TypeOK
  BY StepFacts
<1>2. PICK top \in Calls : top = Top
  BY <1>1, TopCall
<1>3. Progress(parent, name, target, top)
  BY <1>1, <1>2, TopCall DEF SearchInv
<1>4. PICK n : n = name[top.ref]
  OBVIOUS
<1>5. PICK r \in Ref : r = top.ref
  BY DEF Calls
<1>6. Given(top, top.asks) = BroughtIn(parent, name, target, top.asks, n)
  BY <1>2, <1>4, Answers
<1>7. SeenBy(top) = SeenIn(parent, name, top.child, top.place, n,
                           top.found \cup BroughtIn(parent, name, target, top.asks, n))
  BY <1>4, <1>6, SeenSame DEF SeenBy
<1>8. CASE r \in Dotted
  <2>1. top.place = NoNode /\ top.asks = {Prefix[r]} /\ top.found = {}
    BY <1>3, <1>5, <1>8 DEF Progress
  <2>2. BroughtIn(parent, name, target, {Prefix[r]}, n)
          = Bring(parent, name, Prefix[r], target[Prefix[r]], n)
    BY DEF BroughtIn
  <2>3. SeenBy(top) = Bring(parent, name, Prefix[r], target[Prefix[r]], n)
    BY <1>7, <2>1, <2>2 DEF SeenIn
  <2>. QED  BY <1>2, <1>4, <1>5, <1>8, <2>3 DEF Search
<1>9. CASE r \notin Dotted
  <2>1. PICK A : A = AskedIn(parent, name, top.child, top.place, n)
    OBVIOUS
  <2>2. /\ top.child = ChildOf(parent, r, top.place) /\ top.asks \subseteq A
        /\ top.found = BroughtIn(parent, name, target, A \ top.asks, n)
    BY <1>3, <1>4, <1>5, <1>9, <2>1 DEF Progress
  <2>3. top.found \cup BroughtIn(parent, name, target, top.asks, n)
          = BroughtIn(parent, name, target, A, n)
    BY <2>2 DEF BroughtIn
  <2>. QED  BY <1>2, <1>4, <1>5, <1>7, <1>9, <2>1, <2>2, <2>3 DEF Level
<1>. QED  BY <1>2, <1>5, <1>8, <1>9

(* Nothing that was found becomes wrong when a call begins, or searches on. *)
LEMMA StillRight ==
  ASSUME RightInv, AwayInv, UNCHANGED <<parent, name, managed, target, astray>>,
         \A r \in Ref : state'[r] = "established" =>
           state[r] = "established" /\ (r \in misled => r \in misled')
  PROVE  RightInv' /\ AwayInv'
<1>1. /\ parent' = parent /\ name' = name /\ managed' = managed /\ target' = target
      /\ astray' = astray
  OBVIOUS
<1>2. \A r : Excused(r) => Excused(r)'
  BY <1>1 DEF Excused
<1>3. \A r \in Ref : state'[r] = "established" =>
        (state[r] = "established" /\ (Counted(r)' => Counted(r)))
  BY <1>1 DEF Counted
<1>4. RightInv'
  BY <1>1, <1>2, <1>3 DEF RightInv
<1>5. AwayInv'
  BY <1>1 DEF AwayInv
<1>. QED  BY <1>4, <1>5

LEMMA StartTargets ==
  ASSUME IInv, TargetInv, NEW r \in Ref, NEW indirect \in BOOLEAN, calls = <<>>,
         Begin(r, <<>>, indirect), UNCHANGED <<tree, target, astray>>
  PROVE  TargetInv'
<1>1. TypeOK /\ IsTree(parent) /\ InTree
  BY StepFacts
<1>2. PICK c : c = Call(r, indirect)
  OBVIOUS
<1>3. c.ref = r /\ c.asked = NoNode
  BY <1>2 DEF Call
<1>4. calls' = <<c>> /\ DOMAIN calls' = {1} /\ calls'[1] = c /\ Len(calls') = 1
  BY <1>2 DEF Begin
<1>5. /\ parent' = parent /\ name' = name /\ managed' = managed /\ target' = target
      /\ astray' = astray
  BY DEF tree
<1>6. state' = [state EXCEPT ![r] = "resolving"] /\ misled' = misled \ {r}
  BY DEF Begin
<1>7. \A q \in Ref : state'[q] = "established" =>
        state[q] = "established" /\ (q \in misled => q \in misled')
  BY <1>1, <1>6 DEF TypeOK
<1>8. RightInv' /\ AwayInv'
  BY <1>5, <1>7, StillRight DEF TargetInv
<1>9. SearchInv'
  <2>1. Counted(r)' => r \in managed
    BY <1>5 DEF Counted
  <2>2. r \in managed => Progress(parent, name, target, c)
    BY <1>1, <1>2, BeginProgress
  <2>. QED  BY <1>3, <1>4, <1>5, <2>1, <2>2 DEF SearchInv
<1>10. AskedInv'
  BY <1>3, <1>4 DEF AskedInv
<1>. QED  BY <1>8, <1>9, <1>10 DEF TargetInv

LEMMA AskTargets ==
  ASSUME IInv, TargetInv, Ask
  PROVE  TargetInv'
<1>1. /\ TypeOK /\ IsTree(parent) /\ InTree /\ CallInv /\ calls # <<>> /\ calls \in Seq(Calls)
  BY StepFacts DEF Ask, TypeOK
<1>2. PICK i \in Waiting(Top) :
        /\ \A j \in Waiting(Top) \ {i} : IsAbove(i, j)
        /\ LET before == {j \in Top.asks \ {i} : IsAbove(j, i)}
               call == [Top EXCEPT !.asks = @ \ before, !.asked = i,
                                   !.found = @ \cup Given(Top, before)]
           IN  Begin(i, Append(Front(calls), call), TRUE)
  BY DEF Ask
<1>3. PICK before : before = {j \in Top.asks \ {i} : IsAbove(j, i)}
  OBVIOUS
<1>4. PICK top \in Calls : top = Top
  BY <1>1, TopCall
<1>5. PICK given : given = Given(Top, before)
  OBVIOUS
<1>6. PICK call : call = [top EXCEPT !.asks = @ \ before, !.asked = i, !.found = @ \cup given]
  OBVIOUS
<1>7. PICK n : n = Len(calls)
  OBVIOUS
<1>8. n \in Nat \ {0} /\ DOMAIN calls = 1..n /\ top = calls[n] /\ n \in DOMAIN calls
  BY <1>1, <1>4, <1>7, TopCall
<1>9. top.asks \in SUBSET Ref /\ top.found \in SUBSET Decl /\ top.ref \in Ref
  BY DEF Calls
<1>10. i \in top.asks /\ i \in Ref /\ state[i] = "needed" /\ before \subseteq top.asks \ {i}
  BY <1>3, <1>4, <1>9 DEF Waiting
<1>11. given \in SUBSET Decl
  BY <1>1, <1>3, <1>5, <1>9, <1>10, GivenDecls
<1>12. /\ call \in Calls /\ call.ref = top.ref /\ call.place = top.place /\ call.child = top.child
       /\ call.asks = top.asks \ before /\ call.asked = i /\ call.found = top.found \cup given
  BY <1>6, <1>9, <1>10, <1>11 DEF Calls
<1>13. PICK s : s = Append(Front(calls), call)
  OBVIOUS
<1>14. /\ s \in Seq(Calls) /\ Len(s) = n
       /\ \A k \in 1..n : s[k] = IF k = n THEN call ELSE calls[k]
  BY <1>1, <1>7, <1>12, <1>13, StackReplace
<1>15. Begin(i, s, TRUE)
  BY <1>2, <1>3, <1>4, <1>5, <1>6, <1>13
<1>16. PICK e : e = Call(i, TRUE)
  OBVIOUS
<1>17. e.ref = i /\ e.asked = NoNode
  BY <1>16 DEF Call
<1>18. /\ calls' = Append(s, e) /\ Len(calls') = n + 1 /\ DOMAIN calls' = 1..(n + 1)
       /\ calls'[n + 1] = e /\ \A k \in 1..n : calls'[k] = s[k]
  <2>1. e \in Calls
    BY <1>1, <1>10, <1>16, CallTyped
  <2>2. calls' = Append(s, e)
    BY <1>15, <1>16 DEF Begin
  <2>. QED  BY <1>8, <1>14, <2>1, <2>2
<1>19. /\ calls'[n] = call /\ \A k \in 1..(n - 1) : calls'[k] = calls[k]
       /\ \A k \in 1..(n + 1) : k = n + 1 \/ k = n \/ (k \in 1..(n - 1) /\ k \in DOMAIN calls)
  BY <1>8, <1>14, <1>18
<1>20. /\ parent' = parent /\ name' = name /\ managed' = managed /\ target' = target
       /\ astray' = astray
  BY DEF Ask, tree
<1>21. state' = [state EXCEPT ![i] = "resolving"] /\ misled' = misled \ {i}
  BY <1>15 DEF Begin
<1>22. RightInv' /\ AwayInv'
  <2>1. \A q \in Ref : state'[q] = "established" =>
          state[q] = "established" /\ (q \in misled => q \in misled')
    BY <1>1, <1>10, <1>21 DEF TypeOK
  <2>. QED  BY <1>20, <2>1, StillRight DEF TargetInv
<1>23. \A k \in DOMAIN calls : calls[k].ref # i
  <2>1. Precedes(parent, i, top.ref)
    BY <1>1, <1>8, <1>10 DEF CallInv, AsksBefore
  <2>. TAKE k \in DOMAIN calls
  <2>2. CASE k = n
    BY <1>8, <2>1, <2>2, PrecedesOnce
  <2>3. CASE k # n
    <3>1. Precedes(parent, top.ref, calls[k].ref)
      BY <1>1, <1>8, <2>3 DEF CallInv
    <3>. SUFFICES ASSUME calls[k].ref = i PROVE FALSE
      OBVIOUS
    <3>2. Precedes(parent, i, i)
      BY <1>1, <1>9, <1>10, <2>1, <3>1, PrecedesTrans
    <3>. QED  BY <3>2, PrecedesOnce
  <2>. QED  BY <2>2, <2>3
<1>24. \A k \in DOMAIN calls :
         calls[k].ref \in (Ref \cap managed') \ (Cloned \cup misled') => Counted(calls[k].ref)
  BY <1>20, <1>21, <1>23 DEF Counted
<1>25. ASSUME Counted(top.ref) PROVE Progress(parent, name, target, call)
  <2>1. Progress(parent, name, target, top)
    BY <1>8, <1>25 DEF TargetInv, SearchInv
  <2>2. CASE top.ref \in Dotted
    <3>1. top.place = NoNode /\ top.asks = {Prefix[top.ref]} /\ top.found = {}
      BY <2>1, <2>2 DEF Progress
    <3>2. before = {}
      BY <1>10, <3>1
    <3>3. given = {}
      BY <1>5, <3>2 DEF Given
    <3>. QED  BY <1>12, <2>2, <3>1, <3>2, <3>3 DEF Progress
  <2>3. CASE top.ref \notin Dotted
    <3>1. PICK A : A = AskedIn(parent, name, top.child, top.place, name[top.ref])
      OBVIOUS
    <3>2. PICK r : r = top.ref
      OBVIOUS
    <3>3. /\ top.place \in ScopesOf(parent, r) /\ top.child = ChildOf(parent, r, top.place)
          /\ top.asks \subseteq A
          /\ top.found = BroughtIn(parent, name, target, A \ top.asks, name[r])
          /\ \A d \in ScopesOf(parent, r) \ {top.place} :
               top.place \in Above(parent, d) => Level(parent, name, target, r, d) = {}
      BY <2>1, <2>3, <3>1, <3>2 DEF Progress
    <3>4. before \in SUBSET (Top.asks \ Waiting(Top))
      <4>1. ASSUME NEW j \in before, j \in Waiting(Top) PROVE FALSE
        <5>1. IsAbove(i, j) /\ IsAbove(j, i)
          BY <1>2, <1>3, <4>1
        <5>2. i \in Import /\ j \in Import
          BY <1>10, <3>1, <3>3 DEF AskedIn, ImportsOf
        <5>3. PICK k \in DOMAIN ImportOrder : ImportOrder[k] = i
          BY <5>2, ImportPlace
        <5>4. PICK l \in DOMAIN ImportOrder : ImportOrder[l] = j
          BY <5>2, ImportPlace
        <5>5. k < l /\ l < k /\ k \in Int /\ l \in Int
          BY <5>1, <5>3, <5>4, ReferencesAssumption DEF IsAbove
        <5>. QED  BY <5>5
      <4>. QED  BY <1>4, <1>10, <4>1
    <3>5. given = BroughtIn(parent, name, target, before, name[r])
      <4>1. AskedInv /\ Counted(Top.ref)
        BY <1>4, <1>25 DEF TargetInv
      <4>2. Given(Top, before) = BroughtIn(parent, name, target, before, name[Top.ref])
        BY <1>1, <3>4, <4>1, Answers
      <4>. QED  BY <1>4, <1>5, <3>2, <4>2
    <3>6. A \ call.asks = (A \ top.asks) \cup before /\ call.asks \subseteq A
      BY <1>10, <1>12, <3>3
    <3>7. call.found = BroughtIn(parent, name, target, A \ call.asks, name[r])
      BY <1>12, <3>3, <3>5, <3>6 DEF BroughtIn
    <3>. QED  BY <1>12, <2>3, <3>1, <3>2, <3>3, <3>6, <3>7 DEF Progress
  <2>. QED  BY <2>2, <2>3
<1>26. SearchInv'
  <2>1. ASSUME NEW k \in DOMAIN calls',
               calls'[k].ref \in (Ref \cap managed') \ (Cloned \cup misled')
        PROVE  Progress(parent, name, target, calls'[k])
    <3>1. CASE k = n + 1
      <4>1. i \in managed
        BY <1>17, <1>18, <1>20, <2>1, <3>1 DEF Counted
      <4>. QED  BY <1>1, <1>10, <1>16, <1>18, <3>1, <4>1, BeginProgress
    <3>2. CASE k = n
      <4>1. Counted(top.ref)
        BY <1>8, <1>12, <1>19, <1>24, <2>1, <3>2
      <4>. QED  BY <1>19, <1>25, <3>2, <4>1
    <3>3. CASE k \in 1..(n - 1) /\ k \in DOMAIN calls
      <4>1. Counted(calls[k].ref)
        BY <1>19, <1>24, <2>1, <3>3
      <4>. QED  BY <1>19, <3>3, <4>1 DEF TargetInv, SearchInv
    <3>. QED  BY <1>18, <1>19, <3>1, <3>2, <3>3
  <2>. QED  BY <1>20, <2>1 DEF SearchInv, Counted
<1>27. AskedInv'
  <2>1. ASSUME NEW k \in DOMAIN calls', NEW l \in DOMAIN calls', l = k + 1
        PROVE  calls'[k].asked = calls'[l].ref
    <3>1. CASE l = n + 1
      <4>1. k = n
        BY <1>8, <1>18, <2>1, <3>1
      <4>. QED  BY <1>12, <1>17, <1>18, <1>19, <3>1, <4>1
    <3>2. CASE l # n + 1
      <4>1. k \in 1..(n - 1) /\ l \in 1..n /\ k \in DOMAIN calls /\ l \in DOMAIN calls
        BY <1>8, <1>18, <2>1, <3>2
      <4>2. calls'[k] = calls[k] /\ calls'[l].ref = calls[l].ref
        BY <1>8, <1>12, <1>19, <4>1
      <4>. QED  BY <2>1, <4>1, <4>2 DEF TargetInv, AskedInv
    <3>. QED  BY <3>1, <3>2
  <2>2. \A k \in DOMAIN calls' : k = Len(calls') => calls'[k].asked = NoNode
    BY <1>17, <1>18
  <2>. QED  BY <2>1, <2>2 DEF AskedInv
<1>. QED  BY <1>22, <1>26, <1>27 DEF TargetInv

LEMMA ClimbTargets ==
  ASSUME IInv, TargetInv, Climb
  PROVE  TargetInv'
<1>1. /\ TypeOK /\ IsTree(parent) /\ InTree /\ calls # <<>> /\ calls \in Seq(Calls)
      /\ Waiting(Top) = {} /\ GoesUp
  BY StepFacts DEF Climb, TypeOK
<1>2. PICK top \in Calls : top = Top
  BY <1>1, TopCall
<1>3. PICK p : p = parent
  OBVIOUS
<1>4. PICK d : d = p[top.place]
  OBVIOUS
<1>5. PICK A : A = Asks(top.place, d, name[top.ref])
  OBVIOUS
<1>6. PICK call : call = [top EXCEPT !.child = top.place, !.place = d, !.asks = A, !.asked = NoNode]
  OBVIOUS
<1>7. SeenBy(Top) = {} /\ top.place # NoNode /\ d # NoNode
  BY <1>1, <1>2, <1>3, <1>4 DEF GoesUp
<1>8. calls' = Append(Front(calls), call)
  BY <1>2, <1>3, <1>4, <1>5, <1>6 DEF Climb
<1>9. top.ref \in Ref /\ top.place \in Decl /\ top.found \in SUBSET Decl /\ IsTree(p)
  BY <1>1, <1>3, <1>7 DEF Calls
<1>10. d \in Decl
  BY <1>4, <1>7, <1>9, TreeParents
<1>11. /\ call \in Calls /\ call.ref = top.ref /\ call.place = d /\ call.child = top.place
       /\ call.asks = A /\ call.asked = NoNode /\ call.found = top.found
  <2>1. A \in SUBSET Ref /\ top.place \in Node
    BY <1>5, <1>9, AsksImports DEF Node
  <2>. QED  BY <1>6, <1>9, <1>10, <2>1 DEF Calls
<1>12. PICK n : n = Len(calls)
  OBVIOUS
<1>13. /\ n \in Nat \ {0} /\ DOMAIN calls = 1..n /\ n \in DOMAIN calls /\ top = calls[n]
       /\ Len(calls') = n /\ DOMAIN calls' = 1..n
       /\ \A k \in 1..n : calls'[k] = IF k = n THEN call ELSE calls[k]
  BY <1>1, <1>2, <1>8, <1>11, <1>12, StackReplace, TopCall
<1>14. /\ parent' = parent /\ name' = name /\ managed' = managed /\ target' = target
       /\ astray' = astray /\ state' = state /\ misled' = misled
  BY DEF Climb, tree, marks, wrong
<1>15. RightInv' /\ AwayInv'
  BY <1>14, StillRight DEF TargetInv
<1>16. ASSUME Counted(top.ref) PROVE Progress(p, name, target, call)
  <2>1. Progress(p, name, target, top)
    BY <1>3, <1>13, <1>16 DEF TargetInv, SearchInv
  <2>2. PICK r \in Ref : r = top.ref
    BY <1>9
  <2>3. r \notin Dotted
    BY <1>7, <2>1, <2>2 DEF Progress
  <2>4. PICK e : e = top.place
    OBVIOUS
  <2>5. /\ e \in ScopesOf(p, r)
        /\ \A c \in ScopesOf(p, r) \ {e} : e \in Above(p, c) => Level(p, name, target, r, c) = {}
    BY <2>1, <2>2, <2>3, <2>4 DEF Progress
  <2>6. SeenBy(Top) = Level(p, name, target, r, e)
    BY <1>1, <1>2, <1>3, <1>16, <2>2, <2>3, <2>4, SeenLevel DEF TargetInv
  <2>7. top.found = {}
    <3>1. \A c, m, f : Seen(c, e, m, f) = {} => f = {}
      BY DEF Seen
    <3>. QED  BY <1>2, <1>7, <2>4, <3>1 DEF SeenBy
  <2>8. d \in ScopesOf(p, r) /\ ChildOf(p, r, d) = e
    BY <1>4, <1>9, <1>10, <2>4, <2>5, ScopesUp, ChildNext
  <2>9. AskedIn(p, name, e, d, name[r]) = A
    BY <1>3, <1>5, <2>2, <2>4, SeenSame
  <2>10. BroughtIn(p, name, target, A \ A, name[r]) = {}
    BY DEF BroughtIn
  <2>11. ASSUME NEW c \in ScopesOf(p, r), c # d, d \in Above(p, c)
         PROVE  Level(p, name, target, r, c) = {}
    <3>1. /\ c \in Decl /\ e \in Decl /\ Scope(p, r) \in Decl /\ NoRing(p, Decl)
          /\ c \in Up(p, Decl, Scope(p, r)) /\ e \in Up(p, Decl, Scope(p, r))
      BY <1>9, <2>5, ScopesUp, TreeParents
    <3>2. e \in Up(p, Decl, c)
      <4>. SUFFICES ASSUME e \notin Up(p, Decl, c) PROVE FALSE
        OBVIOUS
      <4>1. c \in Up(p, Decl, e) /\ c # e
        BY <3>1, UpTotal, UpSelf
      <4>2. c \in Up(p, Decl, d)
        BY <1>4, <2>4, <3>1, <4>1, UpParent
      <4>. QED  BY <1>10, <2>11, <3>1, <4>2, UpOneWay DEF Above
    <3>. QED  BY <1>7, <2>5, <2>6, <3>2 DEF Above
  <2>. QED  BY <1>11, <2>2, <2>3, <2>4, <2>7, <2>8, <2>9, <2>10, <2>11 DEF Progress
<1>17. SearchInv'
  <2>1. ASSUME NEW k \in DOMAIN calls',
               calls'[k].ref \in (Ref \cap managed') \ (Cloned \cup misled')
        PROVE  Progress(parent, name, target, calls'[k])
    <3>1. Counted(calls[k].ref) /\ k \in DOMAIN calls
      BY <1>11, <1>13, <1>14, <2>1 DEF Counted
    <3>2. CASE k = n
      BY <1>3, <1>13, <1>16, <3>1, <3>2
    <3>3. CASE k # n
      BY <1>13, <3>1, <3>3 DEF TargetInv, SearchInv
    <3>. QED  BY <3>2, <3>3
  <2>. QED  BY <1>14, <2>1 DEF SearchInv, Counted
<1>18. AskedInv'
  <2>1. ASSUME NEW k \in DOMAIN calls', NEW l \in DOMAIN calls', l = k + 1
        PROVE  calls'[k].asked = calls'[l].ref
    <3>1. k # n /\ k \in DOMAIN calls /\ l \in DOMAIN calls
      BY <1>13, <2>1
    <3>2. calls'[k] = calls[k] /\ calls'[l].ref = calls[l].ref
      BY <1>11, <1>13, <3>1
    <3>. QED  BY <2>1, <3>1, <3>2 DEF TargetInv, AskedInv
  <2>2. \A k \in DOMAIN calls' : k = Len(calls') => calls'[k].asked = NoNode
    BY <1>11, <1>13
  <2>. QED  BY <2>1, <2>2 DEF AskedInv
<1>. QED  BY <1>15, <1>17, <1>18 DEF TargetInv

(* A search that goes no further up has found what there is to find. *)
LEMMA SeenSearch ==
  ASSUME IInv, AskedInv, SearchInv, calls # <<>>, Counted(Top.ref), Waiting(Top) = {}, ~GoesUp
  PROVE  SeenBy(Top) = Search(parent, name, target, Top.ref)
<1>1. TypeOK /\ IsTree(parent)
  BY StepFacts
<1>2. PICK top \in Calls : top = Top
  BY <1>1, TopCall
<1>3. PICK r \in Ref : r = top.ref
  BY DEF Calls
<1>4. CASE r \in Dotted
  BY <1>2, <1>3, <1>4, SeenLevel
<1>5. CASE r \notin Dotted
  <2>1. Progress(parent, name, target, top)
    BY <1>1, <1>2, TopCall DEF SearchInv
  <2>2. PICK p : p = parent
    OBVIOUS
  <2>3. PICK e : e = top.place
    OBVIOUS
  <2>4. /\ e \in ScopesOf(p, r) /\ IsTree(p)
        /\ \A d \in ScopesOf(p, r) \ {e} : e \in Above(p, d) => Level(p, name, target, r, d) = {}
    BY <1>1, <1>3, <1>5, <2>1, <2>2, <2>3 DEF Progress
  <2>5. SeenBy(Top) = Level(p, name, target, r, e)
    BY <1>2, <1>3, <1>5, <2>2, <2>3, SeenLevel
  <2>6. e # NoNode /\ NoNode \notin Decl
    BY <2>4, ScopesUp, ReferencesAssumption DEF Node
  <2>7. Level(p, name, target, r, e) # {} \/ p[e] \notin Decl
    BY <1>2, <2>2, <2>3, <2>5, <2>6 DEF GoesUp
  <2>8. Search(p, name, target, r) = Level(p, name, target, r, e)
    BY <1>5, <2>4, <2>7, SearchEnds
  <2>. QED  BY <1>2, <1>3, <2>2, <2>5, <2>8
<1>. QED  BY <1>4, <1>5

(* Another target of r changes no search but of those that depend on r. *)
LEMMA OthersAlike ==
  ASSUME IInv, NEW r \in Ref, NEW q \in (Ref \cap managed) \ Cloned, q \notin Dependents(r),
         NEW found
  PROVE  Alike(parent, name, target, parent, name, [target EXCEPT ![r] = found], q)
<1>1. /\ IsTree(parent) /\ InTree /\ target \in [Ref -> Decl \cup {NoNode}]
  BY StepFacts
<1>2. PICK th : th = [target EXCEPT ![r] = found]
  OBVIOUS
<1>3. \A i \in Ref : i # r => th[i] = target[i]
  BY <1>1, <1>2
<1>4. /\ q \in Dotted => Prefix[q] # r
      /\ \A d \in ScopesOf(parent, q) : r \in Import => parent[r] # d
  BY <1>1, NotDependent
<1>5. q \in Dotted => th[Prefix[q]] = target[Prefix[q]]
  BY <1>1, <1>3, <1>4, WholePrefix
<1>6. ASSUME NEW d \in ScopesOf(parent, q),
             NEW i \in AskedIn(parent, name, ChildOf(parent, q, d), d, name[q])
      PROVE  th[i] = target[i]
  <2>1. i \in Import /\ parent[i] = d
    BY <1>6 DEF AskedIn, ImportsOf
  <2>. QED  BY <1>3, <1>4, <2>1, ImportPlace
<1>. QED  BY <1>2, <1>5, <1>6 DEF Alike

LEMMA ReturnTargets ==
  ASSUME IInv, TargetInv, Return
  PROVE  TargetInv'
<1>1. /\ TypeOK /\ IsTree(parent) /\ InTree /\ CallInv /\ calls # <<>> /\ calls \in Seq(Calls)
      /\ calls' = Front(calls) /\ target \in [Ref -> Decl \cup {NoNode}]
      /\ Waiting(Top) = {} /\ ~GoesUp
  BY StepFacts DEF Return, TypeOK
<1>2. PICK r : r = Top.ref
  OBVIOUS
<1>3. r \in Ref /\ Top \in Calls
  BY <1>1, <1>2, TopCall DEF Calls
<1>4. PICK found : found = Only(SeenBy(Top))
  OBVIOUS
<1>5. PICK final \in BOOLEAN : final = (found # NoNode \/ ~Top.indirect)
  OBVIOUS
<1>6. PICK marked : marked = IF Changed(r, found) THEN Dependents(r) ELSE {}
  OBVIOUS
<1>7. PICK th : th = [target EXCEPT ![r] = found]
  OBVIOUS
<1>8. /\ target' = th
      /\ state' = [q \in Ref |-> CASE q \in marked -> "needed"
                                   [] q \notin marked /\ q # r -> state[q]
                                   [] q \notin marked /\ q = r ->
                                        IF final THEN "established" ELSE "needed"]
      /\ misled' = IF r \in Import /\ marked # {}
                     THEN misled \cup {c.ref : c \in Range(Front(calls))} ELSE misled
  BY <1>2, <1>4, <1>5, <1>6, <1>7 DEF Return
<1>9. /\ parent' = parent /\ name' = name /\ managed' = managed /\ astray' = astray
  BY DEF Return, tree
<1>10. PICK n : n = Len(calls)
  OBVIOUS
<1>11. /\ n \in Nat \ {0} /\ DOMAIN calls = 1..n /\ n \in DOMAIN calls /\ calls[n].ref = r
       /\ Top = calls[n]
       /\ calls' \in Seq(Calls) /\ Len(calls') = n - 1 /\ DOMAIN calls' = 1..(n - 1)
       /\ \A k \in 1..(n - 1) : calls'[k] = calls[k] /\ k \in 1..n /\ k < n
  <2>1. calls' \in Seq(Calls) /\ Len(calls') = n - 1 /\ \A k \in 1..(n-1) : calls'[k] = calls[k]
    BY <1>1, <1>10, StackOps
  <2>2. n \in Nat \ {0} /\ DOMAIN calls = 1..n /\ Top = calls[n]
    BY <1>1, <1>10, TopCall
  <2>. QED  BY <1>2, <2>1, <2>2
<1>12. \A k \in 1..(n - 1) : calls[k].ref # r /\ calls[k].ref \in Ref
  <2>. TAKE k \in 1..(n - 1)
  <2>1. Precedes(parent, r, calls[k].ref) /\ calls[k] \in Calls
    BY <1>1, <1>11 DEF CallInv
  <2>. QED  BY <2>1, PrecedesOnce DEF Calls
<1>13. ASSUME NEW q \in (Ref \cap managed) \ Cloned, q \notin marked
       PROVE  Alike(parent, name, target, parent, name, th, q)
  <2>1. CASE Changed(r, found)
    BY <1>3, <1>6, <1>7, <1>13, <2>1, OthersAlike
  <2>2. CASE ~Changed(r, found)
    <3>1. th = target
      BY <1>1, <1>7, <2>2 DEF Changed
    <3>. QED  BY <3>1 DEF Alike
  <2>. QED  BY <2>1, <2>2
<1>14. ASSUME NEW q \in (Ref \cap managed) \ Cloned, q \notin marked
       PROVE  Search(parent, name, th, q) = Search(parent, name, target, q)
  BY <1>1, <1>13, <1>14, AlikeSearch
(* Whom an import marks includes those that wait for it to be resolved;    *)
(* another reference marks what comes after its dot.                       *)
<1>15. ASSUME NEW k \in 1..(n - 1), marked # {}, r \in Import
       PROVE  calls[k].ref \in misled'
  <2>1. calls[k] \in Range(Front(calls))
    BY <1>1, <1>11 DEF Range
  <2>. QED  BY <1>8, <1>15, <2>1
<1>16. ASSUME NEW q \in marked, r \notin Import
       PROVE  q \in Dotted /\ Prefix[q] = r /\ q # r
  <2>1. q = parent[r] /\ parent[r] \in Ref
    BY <1>6, <1>16 DEF Dependents
  <2>2. Prefix[q] = r
    BY <1>1, <1>3, <2>1 DEF IsTree
  <2>3. q \in Dotted
    BY <1>3, <2>1, <2>2, ReferencesAssumption DEF Dotted, Node
  <2>. QED  BY <1>1, <2>2, <2>3, WholePrefix
<1>17. \A q : q \in (Ref \cap managed') \ (Cloned \cup misled') => Counted(q)
  BY <1>8, <1>9 DEF Counted
<1>18. RightInv'
  <2>1. ASSUME NEW q \in Ref, Counted(q), state'[q] = "established"
        PROVE  th[q] = Only(Search(parent, name, th, q)) \/ Excused(q)
    <3>1. q \notin marked /\ (q # r => state[q] = "established")
      BY <1>8, <2>1
    <3>2. Search(parent, name, th, q) = Search(parent, name, target, q)
      BY <1>14, <2>1, <3>1 DEF Counted
    <3>3. CASE q = r
      <4>1. Counted(Top.ref) /\ AskedInv /\ SearchInv
        BY <1>2, <2>1, <3>3 DEF TargetInv
      <4>2. SeenBy(Top) = Search(parent, name, target, Top.ref)
        BY <1>1, <4>1, SeenSearch
      <4>3. th[r] = found
        BY <1>1, <1>3, <1>7
      <4>. QED  BY <1>2, <1>4, <3>2, <3>3, <4>2, <4>3
    <3>4. CASE q # r
      <4>1. th[q] = target[q]
        BY <1>1, <1>7, <3>4
      <4>. QED  BY <2>1, <3>1, <3>2, <3>4, <4>1 DEF TargetInv, RightInv
    <3>. QED  BY <3>3, <3>4
  <2>2. \A q : Excused(q) => Excused(q)'
    BY <1>9 DEF Excused
  <2>. QED  BY <1>8, <1>9, <1>17, <2>1, <2>2 DEF RightInv, Counted
<1>19. SearchInv'
  <2>1. ASSUME NEW k \in DOMAIN calls',
               calls'[k].ref \in (Ref \cap managed') \ (Cloned \cup misled')
        PROVE  Progress(parent, name, th, calls'[k])
    <3>1. PICK c : c = calls[k]
      OBVIOUS
    <3>2. /\ k \in 1..(n - 1) /\ k \in DOMAIN calls /\ calls'[k] = c /\ c.ref \in Ref
      BY <1>11, <1>12, <2>1, <3>1
    <3>3. Counted(c.ref) /\ c.ref \notin misled'
      BY <1>17, <2>1, <3>2
    <3>4. Progress(parent, name, target, c)
      BY <3>1, <3>2, <3>3 DEF TargetInv, SearchInv
    <3>5. c.ref \notin Dotted => c.ref \notin marked
      BY <1>15, <1>16, <3>1, <3>2, <3>3
    <3>6. c.ref \notin Dotted => Alike(parent, name, target, parent, name, th, c.ref)
      BY <1>13, <3>3, <3>5 DEF Counted
    <3>. QED  BY <1>1, <3>2, <3>4, <3>6, AlikeProgress
  <2>. QED  BY <1>8, <1>9, <2>1 DEF SearchInv, Counted
<1>20. AskedInv'
  <2>1. ASSUME NEW k \in DOMAIN calls', NEW l \in DOMAIN calls', l = k + 1
        PROVE  calls'[k].asked = calls'[l].ref
    BY <1>11, <2>1 DEF TargetInv, AskedInv
  <2>2. ASSUME NEW k \in DOMAIN calls', k = Len(calls'),
               calls'[k].ref \in (Ref \cap managed') \ (Cloned \cup misled'),
               state'[calls'[k].asked] = "needed"
        PROVE  target'[calls'[k].asked] = NoNode
    <3>1. k \in 1..(n - 1) /\ k \in DOMAIN calls /\ n = k + 1 /\ calls'[k] = calls[k]
      BY <1>11, <2>2
    <3>2. calls[k].asked = r
      BY <1>11, <3>1 DEF TargetInv, AskedInv
    <3>3. r \notin marked
      <4>1. marked # {} => r \notin Import
        BY <1>15, <2>2, <3>1
      <4>. QED  BY <1>16, <4>1
    <3>4. ~final
      BY <1>3, <1>8, <2>2, <3>1, <3>2, <3>3
    <3>5. found = NoNode
      BY <1>5, <3>4
    <3>. QED  BY <1>1, <1>3, <1>7, <1>8, <3>1, <3>2, <3>5
  <2>. QED  BY <2>1, <2>2 DEF AskedInv, Counted
<1>21. AwayInv'
  BY <1>9 DEF TargetInv, AwayInv
<1>. QED  BY <1>18, <1>19, <1>20, <1>21 DEF TargetInv

LEMMA QuietTargets ==
  ASSUME TargetInv, UNCHANGED <<tree, marks, target, wrong, calls>>
  PROVE  TargetInv'
<1>1. /\ parent' = parent /\ name' = name /\ managed' = managed /\ target' = target
      /\ astray' = astray /\ state' = state /\ misled' = misled /\ calls' = calls
  BY DEF tree, marks, wrong
<1>2. RightInv' /\ AwayInv'
  BY <1>1, StillRight DEF TargetInv
<1>3. SearchInv'
  BY <1>1 DEF TargetInv, SearchInv, Counted
<1>4. AskedInv'
  BY <1>1 DEF TargetInv, AskedInv, Counted
<1>. QED  BY <1>2, <1>3, <1>4 DEF TargetInv

(***************************************************************************)
(* Targets when commands are done, undone and done again.                  *)
(***************************************************************************)
LEMMA AwayUnmanaged ==
  ASSUME IsTree(parent), InTree, AwayInv, NEW m \in astray, m[1] \in Decl
  PROVE  m[1] \notin managed
<1>. SUFFICES ASSUME m[1] \in managed PROVE FALSE
  OBVIOUS
<1>1. m[1] # Root /\ parent[m[1]] = NoNode /\ NoNode \notin Decl /\ m[1] \notin Ref
  BY ReferencesAssumption DEF AwayInv, Node
<1>2. Root \in Up(parent, Decl, m[1])
  BY <1>1, ReferencesAssumption DEF InTree, Below, Above
<1>. QED  BY <1>1, <1>2, UpParent

(* The name of a declaration that changes is neither before nor after it    *)
(* what r looks for.                                                        *)
LEMMA RenamedAlike ==
  ASSUME TypeOK, NEW d \in Decl, NEW new, NEW r \in Ref, name[r] \notin {name[d], new}
  PROVE  /\ Alike(parent, name, target, parent, [name EXCEPT ![d] = new], target, r)
         /\ [name EXCEPT ![d] = new][r] = name[r]
<1>1. PICK nn : nn = [name EXCEPT ![d] = new]
  OBVIOUS
<1>2. /\ \A n \in Node : nn[n] = IF n = d THEN new ELSE name[n]
      /\ \A n \in Decl : n \in Node
      /\ \A n \in Ref : n \in Node /\ n # d
  BY <1>1, ReferencesAssumption DEF TypeOK, Node
<1>3. \A e \in Decl : nn[e] = name[r] <=> name[e] = name[r]
  BY <1>2
<1>4. \A e \in Decl : HasName(parent, nn, e, name[r]) = HasName(parent, name, e, name[r])
  BY <1>3 DEF HasName
<1>5. \A i \in Ref : nn[i] = name[i]
  BY <1>2
<1>6. \A e : ImportsOf(parent, nn, e, name[r]) = ImportsOf(parent, name, e, name[r])
  BY <1>5, ImportPlace DEF ImportsOf
<1>7. Alike(parent, name, target, parent, nn, target, r)
  BY <1>3, <1>4, <1>5, <1>6 DEF Alike
<1>. QED  BY <1>1, <1>5, <1>7

(* The name of a reference matters to those that depend on it, when it is   *)
(* an import; its target, to all of them.                                   *)
LEMMA RefRenamedAlike ==
  ASSUME IInv, NEW x \in Ref, NEW new, NEW r \in (Ref \cap managed) \ Cloned, r # x,
         x \in Import => r \notin Dependents(x),
         NEW th, th = target \/ (r \notin Dependents(x) /\ th = [target EXCEPT ![x] = NoNode])
  PROVE  /\ Alike(parent, name, target, parent, [name EXCEPT ![x] = new], th, r)
         /\ [name EXCEPT ![x] = new][r] = name[r]
<1>1. /\ TypeOK /\ IsTree(parent) /\ InTree /\ target \in [Ref -> Decl \cup {NoNode}]
  BY StepFacts
<1>2. PICK nn : nn = [name EXCEPT ![x] = new]
  OBVIOUS
<1>3. /\ \A n \in Node : nn[n] = IF n = x THEN new ELSE name[n]
      /\ \A n \in Decl : n \in Node /\ n # x
      /\ \A n \in Ref : n \in Node
  BY <1>1, <1>2, ReferencesAssumption DEF TypeOK, Node
<1>4. \A e \in Decl : HasName(parent, nn, e, name[r]) = HasName(parent, name, e, name[r])
  BY <1>3 DEF HasName
<1>5. \A d \in ScopesOf(parent, r) : x \in Import => parent[x] # d
  BY <1>1, NotDependent
<1>6. ASSUME NEW d \in ScopesOf(parent, r)
      PROVE  ImportsOf(parent, nn, d, name[r]) = ImportsOf(parent, name, d, name[r])
  BY <1>3, <1>5, ImportPlace DEF ImportsOf
<1>7. ASSUME NEW d \in ScopesOf(parent, r),
             NEW i \in AskedIn(parent, name, ChildOf(parent, r, d), d, name[r])
      PROVE  th[i] = target[i]
  <2>1. i \in Ref /\ i # x
    BY <1>5, ImportPlace DEF AskedIn, ImportsOf
  <2>. QED  BY <1>1, <2>1
<1>8. r \in Dotted => th[Prefix[r]] = target[Prefix[r]]
  <2>1. r \in Dotted /\ r \notin Dependents(x) => Prefix[r] # x /\ Prefix[r] \in Ref
    BY <1>1, NotDependent, WholePrefix
  <2>. QED  BY <1>1, <2>1
<1>9. Alike(parent, name, target, parent, nn, th, r)
  BY <1>3, <1>4, <1>6, <1>7, <1>8 DEF Alike
<1>. QED  BY <1>2, <1>3, <1>9

(* What is not below a node that is moved, has another name and sees it     *)
(* nowhere finds the same.                                                  *)
LEMMA MovedAlike ==
  ASSUME NEW p, IsTree(p), NEW q, IsTree(q), NEW x \in Movable, ButFor(x, p, q),
         NEW r \in Ref, r \notin Below(p, x), NEW nm, NEW tg, x \in Decl => nm[r] # nm[x],
         x \in Import => p[x] \notin ScopesOf(p, r) /\ q[x] \notin ScopesOf(p, r)
  PROVE  Alike(p, nm, tg, q, nm, tg, r)
<1>1. /\ Whole(q, r) = Whole(p, r) /\ Whole(p, r) # x /\ Scope(q, r) = Scope(p, r)
      /\ Scope(p, r) # NoNode => /\ Above(q, Scope(p, r)) = Above(p, Scope(p, r))
                                 /\ x \notin Above(p, Scope(p, r))
  BY BesideRef
<1>2. ScopesOf(q, r) = ScopesOf(p, r) /\ x \notin ScopesOf(p, r)
  BY <1>1 DEF ScopesOf
<1>3. Whole(p, r) \in Ref /\ ScopesOf(p, r) \in SUBSET Decl
  BY WholeLast, ScopesUp
<1>4. \A c \in ScopesOf(p, r) \cup {Whole(p, r)} : q[c] = p[c]
  BY <1>1, <1>2, <1>3 DEF ButFor, Node
<1>5. ASSUME NEW d \in ScopesOf(p, r) PROVE Above(q, d) = Above(p, d)
  <2>1. d \in Decl /\ Above(p, d) \subseteq ScopesOf(p, r)
    BY ScopesUp
  <2>2. d \notin Below(p, x)
    BY <1>2, <2>1, ReferencesAssumption DEF Below
  <2>. QED  BY <2>1, <2>2, BesideDecl
<1>6. ASSUME NEW d \in Decl PROVE HasName(q, nm, d, nm[r]) = HasName(p, nm, d, nm[r])
  <2>1. \A c \in Decl : (q[c] = d /\ nm[c] = nm[r]) <=> (p[c] = d /\ nm[c] = nm[r])
    BY DEF ButFor, Node
  <2>. QED  BY <2>1 DEF HasName
<1>7. ASSUME NEW d \in ScopesOf(p, r) PROVE ImportsOf(q, nm, d, nm[r]) = ImportsOf(p, nm, d, nm[r])
  <2>1. \A i \in Import : q[i] = d <=> p[i] = d
    BY ImportPlace DEF ButFor, Node
  <2>. QED  BY <2>1 DEF ImportsOf
<1>. QED  BY <1>1, <1>2, <1>4, <1>5, <1>6, <1>7 DEF Alike

(* Who is not marked and finds the same, has the right target still. *)
LEMMA StillFound ==
  ASSUME IInv, RightInv, NEW r \in Ref, Counted(r), state[r] = "established",
         NEW p, NEW nm, NEW tg, Alike(parent, name, target, p, nm, tg, r), tg[r] = target[r]
  PROVE  tg[r] = Only(Search(p, nm, tg, r)) \/ Excused(r)
<1>1. IsTree(parent) /\ target \in [Ref -> Decl \cup {NoNode}]
  BY StepFacts
<1>2. Search(p, nm, tg, r) = Search(parent, name, target, r)
  BY <1>1, AlikeSearch
<1>. QED  BY <1>2 DEF RightInv

LEMMA NotMarked ==
  ASSUME TypeOK, NEW R, SetResolutionNeeded(R), NEW r \in Ref, state'[r] = "established"
  PROVE  r \notin R /\ state[r] = "established"
BY DEF SetResolutionNeeded, TypeOK

(* Another name excuses as many: what is out of the tree keeps its name. *)
LEMMA RenamedExcused ==
  ASSUME IInv, AwayInv, UNCHANGED <<parent, astray>>, NEW x \in Node, NEW new,
         x \in Decl => x \in managed, name' = [name EXCEPT ![x] = new],
         NEW r \in Ref, r # x, Excused(r)
  PROVE  Excused(r)'
<1>1. TypeOK /\ IsTree(parent) /\ InTree
  BY StepFacts
<1>2. r \in Node /\ name'[r] = name[r] /\ \A d \in Decl \ {x} : d \in Node /\ name'[d] = name[d]
  BY <1>1 DEF TypeOK, Node
<1>3. PICK m \in astray : \/ m[1] \in Decl /\ name[r] = name[m[1]]
                          \/ m[1] \in Import /\ m[2] \in ScopesOf(parent, r)
  BY DEF Excused
<1>4. m[1] \in Decl => m[1] # x
  BY <1>1, AwayUnmanaged
<1>. QED  BY <1>2, <1>3, <1>4 DEF Excused

LEMMA RenameTargets ==
  ASSUME IInv, TargetInv, UNCHANGED <<parent, managed, astray, target, misled>>, calls' = <<>>,
         NEW x \in Decl \cap managed, NEW new, name' = [name EXCEPT ![x] = new],
         SetResolutionNeeded(WithNames(parent, managed, Root, {name[x], new}))
  PROVE  TargetInv'
<1>1. TypeOK /\ IsTree(parent) /\ InTree /\ RightInv /\ AwayInv /\ x \in Node /\ x \notin Ref
  BY StepFacts, ReferencesAssumption DEF TargetInv, Node
<1>2. ASSUME NEW r \in Ref, r \in (Ref \cap managed') \ (Cloned \cup misled'),
             state'[r] = "established"
      PROVE  target[r] = Only(Search(parent, name', target, r)) \/ Excused(r)'
  <2>1. r \notin WithNames(parent, managed, Root, {name[x], new}) /\ state[r] = "established"
    BY <1>1, <1>2, NotMarked
  <2>2. r \in (Ref \cap managed) \ Cloned /\ Counted(r) /\ r # x
    BY <1>1, <1>2 DEF Counted
  <2>3. name[r] \notin {name[x], new}
    <3>1. PICK names : names = {name[x], new}
      OBVIOUS
    <3>2. PICK p : p = parent
      OBVIOUS
    <3>3. name[r] \in names => r \in WithNames(p, managed, Root, names)
      BY <1>1, <2>2, <3>2, NamedInTree DEF InTree
    <3>. QED  BY <2>1, <3>1, <3>2, <3>3
  <2>4. Alike(parent, name, target, parent, name', target, r)
    BY <1>1, <2>3, RenamedAlike
  <2>5. target[r] = Only(Search(parent, name', target, r)) \/ Excused(r)
    BY <1>1, <2>1, <2>2, <2>4, StillFound
  <2>6. Excused(r) => Excused(r)'
    BY <1>1, <2>2, RenamedExcused
  <2>. QED  BY <2>5, <2>6
<1>3. RightInv'
  BY <1>2 DEF RightInv, Counted
<1>4. AwayInv'
  BY <1>1 DEF AwayInv
<1>. QED  BY <1>3, <1>4 DEF TargetInv, SearchInv, AskedInv

(* The name of a reference, and its target with it, or not when it is       *)
(* undone.                                                                  *)
LEMMA SetNameTargets ==
  ASSUME IInv, TargetInv, UNCHANGED <<parent, managed, astray>>, calls' = <<>>,
         NEW x \in Ref, NEW new, name' = [name EXCEPT ![x] = new],
         NEW R, SetResolutionNeeded(R), x \in R \cup misled', misled \subseteq misled',
         x \in Import => Dependents(x) \subseteq misled',
         \/ target' = target
         \/ Dependents(x) \subseteq misled' /\ target' = [target EXCEPT ![x] = NoNode]
  PROVE  TargetInv'
<1>1. /\ TypeOK /\ IsTree(parent) /\ InTree /\ RightInv /\ AwayInv /\ x \in Node /\ x \notin Decl
      /\ target \in [Ref -> Decl \cup {NoNode}]
  BY StepFacts, ReferencesAssumption DEF TargetInv, Node
<1>2. ASSUME NEW r \in Ref, r \in (Ref \cap managed') \ (Cloned \cup misled'),
             state'[r] = "established"
      PROVE  target'[r] = Only(Search(parent, name', target', r)) \/ Excused(r)'
  <2>1. r \notin R /\ state[r] = "established"
    BY <1>1, <1>2, NotMarked
  <2>2. r \in (Ref \cap managed) \ Cloned /\ Counted(r) /\ r # x
    BY <1>1, <1>2, <2>1 DEF Counted
  <2>3. x \in Import => r \notin Dependents(x)
    BY <1>2
  <2>4. PICK th : th = target'
    OBVIOUS
  <2>5. th = target \/ (r \notin Dependents(x) /\ th = [target EXCEPT ![x] = NoNode])
    BY <1>2, <2>4
  <2>6. Alike(parent, name, target, parent, name', th, r)
    BY <2>2, <2>3, <2>5, RefRenamedAlike
  <2>7. th[r] = target[r]
    BY <1>1, <2>2, <2>5
  <2>8. th[r] = Only(Search(parent, name', th, r)) \/ Excused(r)
    BY <1>1, <2>1, <2>2, <2>6, <2>7, StillFound
  <2>9. Excused(r) => Excused(r)'
    BY <1>1, <2>2, RenamedExcused
  <2>. QED  BY <2>4, <2>8, <2>9
<1>3. RightInv'
  BY <1>2 DEF RightInv, Counted
<1>4. AwayInv'
  BY <1>1 DEF AwayInv
<1>. QED  BY <1>3, <1>4 DEF TargetInv, SearchInv, AskedInv

LEMMA RemoveTargets ==
  ASSUME IInv, TargetInv, UNCHANGED <<name, target, misled>>, calls' = <<>>,
         NEW x \in Movable \cap managed, SetParent(x, parent[x], NoNode)
  PROVE  TargetInv'
<1>1. TypeOK /\ IsTree(parent) /\ InTree /\ RightInv /\ AwayInv
  BY StepFacts DEF TargetInv
<1>2. x \in Node /\ x \in Below(parent, x) /\ NoNode \notin managed /\ NoNode \notin Decl
  BY <1>1, MovableNode, BelowSelf, ReferencesAssumption DEF TypeOK, Node
<1>3. PICK q : q = [parent EXCEPT ![x] = NoNode]
  OBVIOUS
<1>4. IsTree(q) /\ ButFor(x, parent, q) /\ q[x] = NoNode
  <2>1. PICK p : p = parent
    OBVIOUS
  <2>2. IsTree([p EXCEPT ![x] = NoNode])
    BY <1>1, <1>2, <2>1, CutOff
  <2>. QED  BY <1>1, <1>2, <1>3, <2>1, <2>2 DEF ButFor, TypeOK
<1>5. /\ parent' = q /\ managed' = managed \ Below(parent, x) /\ state' = state
      /\ astray' = IF x \in Decl \cup Import THEN astray \cup {<<x, parent[x]>>} ELSE astray
  BY <1>1, <1>2, <1>3 DEF SetParent, SetResolutionNeeded, TypeOK
<1>6. ASSUME NEW r \in Ref, r \in (Ref \cap managed') \ (Cloned \cup misled'),
             state'[r] = "established"
      PROVE  target[r] = Only(Search(q, name, target, r)) \/ Excused(r)'
  <2>1. r \in managed /\ r \notin Below(parent, x) /\ Counted(r) /\ state[r] = "established"
    BY <1>5, <1>6 DEF Counted
  <2>2. ScopesOf(q, r) = ScopesOf(parent, r)
    BY <1>1, <1>4, <2>1, BesideRef DEF ScopesOf
  <2>3. CASE x \in Decl /\ name[r] = name[x]
    <3>1. <<x, parent[x]>> \in astray'
      BY <1>5, <2>3
    <3>. QED  BY <2>3, <3>1 DEF Excused
  <2>4. CASE x \in Import /\ parent[x] \in ScopesOf(parent, r)
    <3>1. <<x, parent[x]>> \in astray'
      BY <1>5, <2>4
    <3>. QED  BY <1>5, <2>2, <2>4, <3>1 DEF Excused
  <2>5. CASE /\ x \in Decl => name[r] # name[x]
             /\ x \in Import => parent[x] \notin ScopesOf(parent, r)
    <3>1. q[x] \notin ScopesOf(parent, r)
      BY <1>1, <1>4, ScopesUp
    <3>2. Alike(parent, name, target, q, name, target, r)
      BY <1>1, <1>4, <2>1, <2>5, <3>1, MovedAlike
    <3>3. target[r] = Only(Search(q, name, target, r)) \/ Excused(r)
      BY <1>1, <2>1, <3>2, StillFound
    <3>4. Excused(r) => Excused(r)'
      BY <1>5, <2>2 DEF Excused
    <3>. QED  BY <3>3, <3>4
  <2>. QED  BY <2>3, <2>4, <2>5
<1>7. RightInv'
  BY <1>5, <1>6 DEF RightInv, Counted
<1>8. AwayInv'
  <2>1. ASSUME NEW m \in astray'
        PROVE  m[1] \in Movable \cap (Decl \cup Import) /\ (m[1] \in Decl => q[m[1]] = NoNode)
    <3>1. CASE m \in astray
      BY <1>1, <1>4, <3>1 DEF AwayInv, ButFor, Node
    <3>2. CASE m \notin astray
      <4>1. m[1] = x /\ x \in Decl \cup Import
        BY <1>5, <2>1, <3>2
      <4>. QED  BY <1>4, <4>1
    <3>. QED  BY <3>1, <3>2
  <2>. QED  BY <1>5, <2>1 DEF AwayInv
<1>. QED  BY <1>7, <1>8 DEF TargetInv, SearchInv, AskedInv

(* Who would find something else in the new tree is marked. *)
LEMMA InsertTargets ==
  ASSUME IInv, TargetInv, UNCHANGED <<name, target, misled>>, calls' = <<>>,
         NEW x \in Movable, parent[x] = NoNode, NEW d \in Decl \cap managed,
         SetParent(x, NoNode, d)
  PROVE  TargetInv'
<1>1. TypeOK /\ IsTree(parent) /\ InTree /\ RightInv /\ AwayInv
  BY StepFacts DEF TargetInv
<1>2. PICK p : p = parent
  OBVIOUS
<1>3. PICK q : q = [p EXCEPT ![x] = d]
  OBVIOUS
<1>4. PICK tm : tm = managed \cup Below(p, x)
  OBVIOUS
<1>5. /\ x \in Node /\ x \in Below(p, x) /\ x \notin Decl \cap Ref /\ NoNode \notin Decl
      /\ IsTree(p) /\ d \in Decl \cap Below(p, Root) /\ p[x] = NoNode
  BY <1>1, <1>2, MovableNode, BelowSelf, ReferencesAssumption DEF InTree, Node
<1>6. IsTree(q) /\ Below(q, Root) = tm
  BY <1>1, <1>2, <1>3, <1>4, <1>5, Attached DEF InTree
<1>7. ButFor(x, p, q) /\ q[x] = d
  BY <1>1, <1>2, <1>3, <1>5 DEF ButFor, TypeOK
<1>8. /\ parent' = q /\ managed' = tm /\ SetResolutionNeeded(AfterNewSubTree(q, tm, x, d))
      /\ astray' = {a \in astray : a[1] # x \/ (x \in Import /\ a[2] # d)}
  BY <1>2, <1>3, <1>4, <1>5 DEF SetParent
<1>9. ASSUME NEW r \in Ref, r \in (Ref \cap managed') \ (Cloned \cup misled'),
             state'[r] = "established"
      PROVE  target[r] = Only(Search(q, name, target, r)) \/ Excused(r)'
  <2>1. r \notin AfterNewSubTree(q, tm, x, d) /\ state[r] = "established"
    BY <1>1, <1>8, <1>9, NotMarked
  <2>2. r \notin Below(p, x)
    <3>1. r \notin Below(q, x)
      BY <2>1 DEF AfterNewSubTree
    <3>. QED  BY <1>3, <1>5, <1>6, <3>1, SubtreeKept
  <2>3. r \in (Ref \cap tm) \ Cloned /\ Counted(r)
    BY <1>4, <1>8, <1>9, <2>2 DEF Counted
  <2>4. ASSUME x \in Decl PROVE name[r] # name[x]
    <3>1. PICK names : names = Introduced(x)
      OBVIOUS
    <3>2. name[x] \in names
      BY <1>2, <1>5, <2>4, <3>1 DEF Introduced
    <3>3. r \notin WithNames(q, tm, Root, names)
      BY <2>1, <3>1 DEF AfterNewSubTree
    <3>. QED  BY <1>6, <2>3, <3>2, <3>3, NamedInTree
  <2>5. ScopesOf(q, r) = ScopesOf(p, r)
    BY <1>5, <1>6, <1>7, <2>2, BesideRef DEF ScopesOf
  <2>6. ASSUME x \in Import PROVE d \notin ScopesOf(q, r)
    <3>1. r \notin ReferencesIn(q, tm, d)
      BY <2>1, <2>6 DEF AfterNewSubTree
    <3>. QED  BY <1>6, <2>3, <3>1, SeenFrom
  <2>7. p[x] \notin ScopesOf(p, r)
    BY <1>5, ScopesUp
  <2>8. Alike(p, name, target, q, name, target, r)
    BY <1>5, <1>6, <1>7, <2>2, <2>4, <2>5, <2>6, <2>7, MovedAlike
  <2>9. target[r] = Only(Search(q, name, target, r)) \/ Excused(r)
    BY <1>1, <1>2, <2>1, <2>3, <2>8, StillFound
  <2>10. ASSUME Excused(r) PROVE Excused(r)'
    <3>1. PICK m \in astray : \/ m[1] \in Decl /\ name[r] = name[m[1]]
                              \/ m[1] \in Import /\ m[2] \in ScopesOf(p, r)
      BY <1>2, <2>10 DEF Excused
    <3>2. m \in astray'
      BY <1>5, <1>8, <2>4, <2>5, <2>6, <3>1, ImportPlace
    <3>. QED  BY <1>8, <2>5, <3>1, <3>2 DEF Excused
  <2>. QED  BY <2>9, <2>10
<1>10. RightInv'
  BY <1>8, <1>9 DEF RightInv, Counted
<1>11. AwayInv'
  <2>1. ASSUME NEW m \in astray'
        PROVE  m[1] \in Movable \cap (Decl \cup Import) /\ (m[1] \in Decl => q[m[1]] = NoNode)
    <3>1. m \in astray /\ (m[1] \in Decl => m[1] # x)
      BY <1>5, <1>8, <2>1, ImportPlace
    <3>. QED  BY <1>1, <1>2, <1>7, <3>1 DEF AwayInv, ButFor, Node
  <2>. QED  BY <1>8, <2>1 DEF AwayInv
<1>. QED  BY <1>10, <1>11 DEF TargetInv, SearchInv, AskedInv

LEMMA PerformTargets ==
  ASSUME IInv, TargetInv, NEW c \in Commands, Fits(Present, c), Perform(c),
         UNCHANGED <<target, calls>>, calls = <<>>,
         IF c.what = "name" /\ c.node \in Ref
           THEN misled' = misled \cup {c.node}
                                 \cup (IF c.node \in Import THEN Dependents(c.node) ELSE {})
           ELSE misled' = misled
  PROVE  TargetInv'
<1>1. /\ TypeOK /\ IsTree(parent) /\ InTree /\ Decl \cap Ref = {} /\ NoNode \notin managed
      /\ Present.parent = parent /\ Present.name = name /\ calls' = <<>>
  BY StepFacts, ReferencesAssumption DEF Present, TypeOK
<1>2. CASE c.what = "name" /\ c.node \in Decl
  <2>1. PICK x \in Decl : x = c.node
    BY <1>2
  <2>2. c.old = name[x] /\ x \in managed
    BY <1>1, <1>2, <2>1 DEF Fits, InTree
  <2>3. /\ name' = [name EXCEPT ![x] = c.new] /\ UNCHANGED <<parent, managed, astray>>
        /\ SetResolutionNeeded(WithNames(parent, managed, Root, {name[x], c.new}))
    BY <1>2, <2>1, <2>2 DEF Perform, SetNameField
  <2>4. misled' = misled
    BY <1>1, <1>2
  <2>. QED  BY <1>1, <2>2, <2>3, <2>4, RenameTargets
<1>3. CASE c.what = "name" /\ c.node \in Ref
  <2>1. PICK x \in Ref : x = c.node
    BY <1>3
  <2>2. /\ name' = [name EXCEPT ![x] = c.new] /\ UNCHANGED <<parent, managed, astray>>
        /\ SetResolutionNeeded({})
    BY <1>1, <1>3, <2>1 DEF Perform, SetNameField
  <2>3. /\ x \in misled' /\ misled \subseteq misled'
        /\ x \in Import => Dependents(x) \subseteq misled'
    BY <1>3, <2>1
  <2>. QED  BY <1>1, <2>2, <2>3, SetNameTargets
<1>4. CASE c.what # "name"
  <2>1. PICK x \in Movable : x = c.node
    BY <1>4 DEF Commands
  <2>2. SetParent(x, c.old, c.new) /\ misled' = misled /\ UNCHANGED name
    BY <1>4, <2>1 DEF Perform, SetParent
  <2>3. /\ c.old = parent[x]
        /\ \/ c.new = NoNode /\ x \in managed
           \/ c.old = NoNode /\ c.new \in Decl \cap managed
    BY <1>1, <1>4, <2>1 DEF Fits, InTree
  <2>4. CASE c.new = NoNode /\ x \in managed
    BY <1>1, <2>2, <2>3, <2>4, RemoveTargets
  <2>5. CASE c.old = NoNode /\ c.new \in Decl \cap managed
    BY <1>1, <2>2, <2>3, <2>5, InsertTargets
  <2>. QED  BY <2>3, <2>4, <2>5
<1>5. c.what = "name" => c.node \in Decl \cup Ref
  BY DEF Commands, Node
<1>. QED  BY <1>2, <1>3, <1>4, <1>5

LEMMA EditTargets ==
  ASSUME IInv, TargetInv, Edit
  PROVE  TargetInv'
<1>1. TypeOK /\ IsTree(parent) /\ InTree /\ Decl \cap Ref = {}
  BY StepFacts, ReferencesAssumption
<1>2. PICK c \in Commands :
        /\ Execute(c) /\ Fits(Present, c)
        /\ \/ /\ Perform(c) /\ UNCHANGED <<target, misled>>
              /\ c.what = "name" => c.node \in Decl
           \/ \E r \in Ref : SetName(r)
  BY <1>1, EditCommand
<1>3. calls = <<>> /\ calls' = calls
  BY <1>2 DEF Execute
<1>4. CASE /\ Perform(c) /\ UNCHANGED <<target, misled>>
           /\ c.what = "name" => c.node \in Decl
  <2>1. ~(c.what = "name" /\ c.node \in Ref)
    BY <1>1, <1>4
  <2>. QED  BY <1>2, <1>3, <1>4, <2>1, PerformTargets
<1>5. CASE \E r \in Ref : SetName(r)
  <2>1. PICK r \in Ref : SetName(r)
    BY <1>5
  <2>2. PICK n \in NewNames[r] : name' = [name EXCEPT ![r] = n]
    BY <2>1 DEF SetName
  <2>3. /\ UNCHANGED <<parent, managed, astray>> /\ SetResolutionNeeded({r})
        /\ misled' = misled \cup Dependents(r) /\ target' = [target EXCEPT ![r] = NoNode]
    BY <2>1 DEF SetName
  <2>4. r \in {r} \cup misled' /\ misled \subseteq misled' /\ Dependents(r) \subseteq misled'
    BY <2>3
  <2>. QED  BY <1>3, <2>2, <2>3, <2>4, SetNameTargets
<1>. QED  BY <1>2, <1>4, <1>5

LEMMA ReplayTargets ==
  ASSUME IInv, TargetInv, UndoCommand \/ RedoCommand
  PROVE  TargetInv'
<1>1. TypeOK /\ TreeLinked
  BY DEF IInv, TreeInv
<1>2. PICK c \in Commands : Replay(c) /\ Fits(Present, c)
  BY <1>1, LinkedReplay
<1>. QED  BY <1>2, PerformTargets DEF Replay

LEMMA InitTargets ==
  ASSUME Init
  PROVE  TargetInv
<1>1. ASSUME NEW r \in Ref, Counted(r)
      PROVE  target[r] = Only(Search(parent, name, target, r))
  <2>1. IsRight(r)
    BY <1>1 DEF Init, Counted
  <2>. QED  BY <2>1, FindSearches DEF IsRight
<1>2. RightInv /\ AwayInv
  BY <1>1 DEF RightInv, AwayInv, Init
<1>. QED  BY <1>2 DEF TargetInv, SearchInv, AskedInv, Init

LEMMA NextTargets ==
  ASSUME IInv, TargetInv, [Next]_vars
  PROVE  TargetInv'
<1>1. CASE Edit
  BY <1>1, EditTargets
<1>2. CASE \E r \in Ref : AskTarget(r)
  BY <1>2, StartTargets DEF AskTarget
<1>3. CASE ResolveNext
  <2>1. PICK r \in todo : IF state[r] = "needed" THEN Begin(r, <<>>, FALSE)
                                                 ELSE UNCHANGED <<calls, marks, misled>>
    BY <1>3 DEF ResolveNext
  <2>2. r \in Ref /\ calls = <<>> /\ UNCHANGED <<tree, target, failed, astray>>
    BY <1>3, <2>1, StepFacts DEF ResolveNext, TypeOK
  <2>3. CASE state[r] = "needed"
    BY <2>1, <2>2, <2>3, StartTargets
  <2>4. CASE state[r] # "needed"
    BY <2>1, <2>2, <2>4, QuietTargets DEF wrong
  <2>. QED  BY <2>3, <2>4
<1>4. CASE \/ BeginModification \/ NextRound \/ UNCHANGED vars
           \/ \E tryResolvingReferences \in BOOLEAN : EndModification(tryResolvingReferences)
  <2>1. UNCHANGED <<tree, marks, target, wrong, calls>>
    BY <1>4 DEF BeginModification, NextRound, EndModification, vars
  <2>. QED  BY <2>1, QuietTargets
<1>5. CASE Ask \/ Climb \/ Return
  BY <1>5, AskTargets, ClimbTargets, ReturnTargets
<1>6. CASE UndoCommand \/ RedoCommand
  BY <1>6, ReplayTargets
<1>. QED  BY <1>1, <1>2, <1>3, <1>4, <1>5, <1>6 DEF Next, Edit

(* Reference.h:85: once all marked references are resolved, what those of   *)
(* the tree say that they found is what a search would find now: whatever   *)
(* was renamed, moved, undone, redone and resolved, in whatever order.      *)
THEOREM TargetsRight == Spec => []TargetsAreRight
<1>1. Init => TargetInv
  BY InitTargets
<1>2. IInv /\ TargetInv /\ [Next]_vars => TargetInv'
  BY NextTargets
<1>3. IInv /\ TargetInv => TargetsAreRight
  <2>. SUFFICES ASSUME IInv, TargetInv, pending = {}, astray = {}, NEW r \in Ref, Counted(r)
                PROVE  IsRight(r)
    BY DEF TargetsAreRight, Counted
  <2>1. r \in managed /\ TypeOK /\ MarkInv /\ RightInv
    BY StepFacts DEF Counted, TargetInv
  <2>2. state[r] # "needed"
    BY <2>1 DEF MarkInv, UnresolvedPending
  <2>3. state[r] # "resolving"
    <3>1. \A k \in DOMAIN calls : calls[k].ref # r
      BY <2>1 DEF MarkInv
    <3>. QED  BY <2>1, <3>1 DEF MarkInv
  <2>4. state[r] = "established"
    BY <2>1, <2>2, <2>3 DEF TypeOK
  <2>5. ~Excused(r)
    BY DEF Excused
  <2>. QED  BY <2>1, <2>4, <2>5, FindSearches DEF RightInv, IsRight
<1>. QED  BY <1>1, <1>2, <1>3, Inductive, PTL DEF Spec
=============================================================================
