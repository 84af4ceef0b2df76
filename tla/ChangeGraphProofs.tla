------------------------- MODULE ChangeGraphProofs -------------------------
(***************************************************************************)
(* For any base and any two branches: every node of the merged tree is     *)
(* where the three-way merge puts it, or where the base had it; a change   *)
(* that is applied can be; and at the end the merged tree is a tree.       *)
(*                                                                         *)
(* After walks along edges, the first part is about single nodes (IInv),   *)
(* the second about the changes of trees, and the dependencies the graph   *)
(* starts with, the third about the graph (GInv): what a change creates or *)
(* empties is never forgotten, and a dependency that a broken cycle drops  *)
(* is on a change that is free to be applied.  The last one is about the   *)
(* tree as a whole (MInv).                                                 *)
(***************************************************************************)
EXTENDS ChangeGraph, TLAPS

(* The changes that the graph starts with. *)
Initial == Merged(Diff(base, branchA, "A"), Diff(base, branchB, "B"))

Branch(b) == IF b = "A" THEN branchA ELSE branchB

Fields == {"type", "node", "branches", "from", "to", "label", "content"}

AnyLine == Line \cup {Absent}

(* A change of the place or the content of a node. *)
IsPlaceChange(c) ==
  /\ DOMAIN c = Fields /\ c.content = FALSE /\ c.node \in Id
  /\ c.from \in AnyLine /\ c.to \in AnyLine
  /\ c.type = ChangeType(c.from, c.to)
  /\ c.label = (Both(c.from, c.to) /\ c.from.label # c.to.label)

IsContentChange(c) ==
  /\ DOMAIN c = Fields /\ c.content = TRUE /\ c.node \in Id
  /\ c.from \in Line /\ c.to \in Line
  /\ c.type = "Stationary" /\ c.label = FALSE

(* What c does to its node is what the branch u did. *)
Is(c, o, u) ==
  IF c.content
    THEN /\ c.from = o[c.node] /\ c.to = u[c.node]
         /\ o[c.node].content # u[c.node].content
    ELSE /\ c.from = Placed(o[c.node]) /\ c.to = Placed(u[c.node])
         /\ Placed(o[c.node]) # Placed(u[c.node])

Inputs3 == {base, branchA, branchB} \subseteq Trees

-----------------------------------------------------------------------------
(***************************************************************************)
(* Walks along edges.                                                      *)
(***************************************************************************)
Leaveless(E, S) == \A e \in E : e[1] \in S => e[2] \in S

LEMMA ReachableIs ==
  ASSUME NEW E, NEW X, NEW n
  PROVE  /\ Reachable(E, X, n) \subseteq X
         /\ \A S \in SUBSET X : n \in S /\ Leaveless(E, S) => Reachable(E, X, n) \subseteq S
         /\ \A m \in X : (\A S \in SUBSET X : n \in S /\ Leaveless(E, S) => m \in S)
                           => m \in Reachable(E, X, n)
BY DEF Reachable, Leaveless

LEMMA ReachStart ==
  ASSUME NEW E, NEW X, NEW n \in X
  PROVE  n \in Reachable(E, X, n)
BY ReachableIs

(* What a set with n that no edge leaves has to do with it. *)
LEMMA ReachWithin ==
  ASSUME NEW E, NEW X, E \subseteq X \X X, NEW n \in X, NEW S, n \in S,
         \A e \in E : e[1] \in S /\ e[1] \in Reachable(E, X, n) => e[2] \in S
  PROVE  Reachable(E, X, n) \subseteq S
<1> DEFINE R == Reachable(E, X, n)
           T == S \cap R
<1>1. n \in R /\ R \subseteq X
  BY ReachStart, ReachableIs
<1>2. \A e \in E : e[1] \in R => e[2] \in R
  <2> SUFFICES ASSUME NEW e \in E, e[1] \in R PROVE e[2] \in R
    OBVIOUS
  <2>1. e[2] \in X
    OBVIOUS
  <2>2. ASSUME NEW U \in SUBSET X, n \in U, Leaveless(E, U) PROVE e[2] \in U
    BY <2>2, ReachableIs DEF Leaveless
  <2> QED BY <2>1, <2>2, ReachableIs
<1>3. T \in SUBSET X /\ n \in T /\ Leaveless(E, T)
  BY <1>1, <1>2 DEF Leaveless
<1> HIDE DEF T, R
<1>4. Reachable(E, X, n) \subseteq T
  BY <1>3, ReachableIs
<1> QED BY <1>4 DEF T

LEMMA ReachEdge ==
  ASSUME NEW E, NEW X, E \subseteq X \X X, NEW n \in X, NEW e \in E, e[1] \in Reachable(E, X, n)
  PROVE  e[2] \in Reachable(E, X, n)
<1>1. e[2] \in X
  OBVIOUS
<1>2. ASSUME NEW U \in SUBSET X, n \in U, Leaveless(E, U) PROVE e[2] \in U
  BY <1>2, ReachableIs DEF Leaveless
<1> QED BY <1>1, <1>2, ReachableIs

LEMMA ReachOn ==
  ASSUME NEW E, NEW X, E \subseteq X \X X, NEW n \in X, NEW m \in Reachable(E, X, n)
  PROVE  Reachable(E, X, m) \subseteq Reachable(E, X, n)
<1>1. m \in X
  BY ReachableIs
<1>2. \A e \in E : e[1] \in Reachable(E, X, n) => e[2] \in Reachable(E, X, n)
  BY ReachEdge
<1> QED BY <1>1, <1>2, ReachWithin

(* The first step of a walk. *)
LEMMA ReachFirst ==
  ASSUME NEW E, NEW X, E \subseteq X \X X, NEW n \in X, NEW m \in Reachable(E, X, n), m # n
  PROVE  \E e \in E : e[1] = n /\ m \in Reachable(E, X, e[2])
<1> DEFINE S == {k \in X : k = n \/ \E e \in E : e[1] = n /\ k \in Reachable(E, X, e[2])}
<1>1. ASSUME NEW d \in E, d[1] \in S PROVE d[2] \in S
  <2>1. d[1] \in X /\ d[2] \in X
    OBVIOUS
  <2>2. CASE d[1] = n
    <3>1. d[2] \in Reachable(E, X, d[2])
      BY <2>1, ReachStart
    <3> QED BY <2>1, <2>2, <3>1
  <2>3. CASE d[1] # n
    <3>1. PICK e \in E : e[1] = n /\ d[1] \in Reachable(E, X, e[2])
      BY <1>1, <2>3
    <3>2. e[2] \in X
      OBVIOUS
    <3>3. d[2] \in Reachable(E, X, e[2])
      BY <3>1, <3>2, ReachEdge
    <3> QED BY <2>1, <3>1, <3>3
  <2> QED BY <2>2, <2>3
<1>2. n \in S
  OBVIOUS
<1> HIDE DEF S
<1>3. Reachable(E, X, n) \subseteq S
  BY <1>1, <1>2, ReachWithin
<1> QED BY <1>3 DEF S

(***************************************************************************)
(* Edges without a ring: every set has an element whose edges all leave it.*)
(***************************************************************************)
NoRing(E) == \A S : S # {} => \E x \in S : \A e \in E : e[1] = x => e[2] \notin S

Single(E) == \A e, f \in E : e[1] = f[1] => e[2] = f[2]

(* Nobody walks back to where he comes from. *)
LEMMA NoWayBack ==
  ASSUME NEW E, NEW X, E \subseteq X \X X, NoRing(E), NEW e \in E
  PROVE  e[1] \notin Reachable(E, X, e[2])
<1> SUFFICES ASSUME e[1] \in Reachable(E, X, e[2]) PROVE FALSE
  OBVIOUS
<1> DEFINE S == {k \in Reachable(E, X, e[2]) : e[1] \in Reachable(E, X, k)}
<1>1. e[1] \in X /\ e[2] \in X
  OBVIOUS
<1>2. e[2] \in S /\ e[1] \in S
  BY <1>1, ReachStart
<1>3. ASSUME NEW k \in S PROVE \E d \in E : d[1] = k /\ d[2] \in S
  <2>1. k \in X /\ k \in Reachable(E, X, e[2]) /\ e[1] \in Reachable(E, X, k)
    BY <1>1, ReachableIs
  <2>2. CASE k = e[1]
    BY <1>2, <2>2
  <2>3. CASE k # e[1]
    <3>1. PICK d \in E : d[1] = k /\ e[1] \in Reachable(E, X, d[2])
      BY <2>1, <2>3, ReachFirst
    <3>2. d[2] \in Reachable(E, X, e[2])
      BY <1>1, <2>1, <3>1, ReachEdge
    <3> QED BY <3>1, <3>2
  <2> QED BY <2>2, <2>3
<1> HIDE DEF S
<1>4. S # {}
  BY <1>2
<1>5. PICK x \in S : \A d \in E : d[1] = x => d[2] \notin S
  BY <1>4 DEF NoRing
<1> QED BY <1>3, <1>5

LEMMA NoWayRound ==
  ASSUME NEW E, NEW X, E \subseteq X \X X, NoRing(E), NEW x \in X, NEW y \in X,
         x \in Reachable(E, X, y), y \in Reachable(E, X, x)
  PROVE  x = y
<1> SUFFICES ASSUME x # y PROVE FALSE
  OBVIOUS
<1>1. PICK e \in E : e[1] = x /\ y \in Reachable(E, X, e[2])
  BY ReachFirst
<1>2. e[2] \in X
  OBVIOUS
<1>3. Reachable(E, X, y) \subseteq Reachable(E, X, e[2])
  BY <1>1, <1>2, ReachOn
<1> QED BY <1>1, <1>3, NoWayBack

(* The first of M that a walk from n comes to. *)
LEMMA FirstMet ==
  ASSUME NEW E, NEW X, E \subseteq X \X X, NoRing(E), Single(E), NEW n \in X, NEW M,
         Reachable(E, X, n) \cap M # {}
  PROVE  \E q \in M : /\ q \in Reachable(E, X, n)
                      /\ Reachable(E, X, n) \cap M \subseteq Reachable(E, X, q)
<1> DEFINE B == {y \in Reachable(E, X, n) : Reachable(E, X, n) \cap M \subseteq Reachable(E, X, y)}
<1>1. n \in B
  BY ReachStart
<1> HIDE DEF B
<1>2. B # {}
  BY <1>1
<1>3. PICK y \in B : \A e \in E : e[1] = y => e[2] \notin B
  BY <1>2 DEF NoRing
<1>4. y \in X /\ y \in Reachable(E, X, n) /\ Reachable(E, X, n) \cap M \subseteq Reachable(E, X, y)
  BY ReachableIs DEF B
<1>5. SUFFICES ASSUME y \notin M PROVE FALSE
  BY <1>4
<1>6. PICK m \in Reachable(E, X, n) \cap M : TRUE
  OBVIOUS
<1>7. PICK e \in E : e[1] = y
  <2>1. m \in Reachable(E, X, y) /\ m # y
    BY <1>4, <1>5
  <2> QED BY <1>4, <2>1, ReachFirst
<1>8. e[2] \in Reachable(E, X, n)
  BY <1>4, <1>7, ReachEdge
<1>9. ASSUME NEW k \in Reachable(E, X, n) \cap M PROVE k \in Reachable(E, X, e[2])
  <2>1. k \in Reachable(E, X, y) /\ k # y
    BY <1>4, <1>5
  <2>2. PICK f \in E : f[1] = y /\ k \in Reachable(E, X, f[2])
    BY <1>4, <2>1, ReachFirst
  <2>3. f[2] = e[2]
    BY <1>7, <2>2 DEF Single
  <2> QED BY <2>2, <2>3
<1>10. e[2] \in B
  BY <1>8, <1>9 DEF B
<1> QED BY <1>3, <1>7, <1>10

-----------------------------------------------------------------------------
(* Lines without their contents. *)
LEMMA PlacedLine ==
  ASSUME NEW x \in AnyLine
  PROVE  /\ Placed(x) \in AnyLine
         /\ Placed(x) = Absent <=> x = Absent
         /\ x # Absent => /\ Placed(x).parent = x.parent /\ Placed(x).label = x.label
                          /\ Placed(x) = [parent |-> x.parent, label |-> x.label, content |-> NoContent]
<1>1. CASE x = Absent
  BY <1>1 DEF Placed, AnyLine
<1>2. CASE x # Absent
  <2>1. x \in Line
    BY <1>2 DEF AnyLine
  <2>2. Placed(x) = [parent |-> x.parent, label |-> x.label, content |-> NoContent]
    BY <2>1, <1>2 DEF Placed, Line
  <2>3. Placed(x) \in Line
    BY <2>1, <2>2 DEF Line
  <2> QED BY <1>2, <2>2, <2>3, AbsentAssumption DEF AnyLine
<1> QED BY <1>1, <1>2

LEMMA SamePlace ==
  ASSUME NEW x \in Line, NEW y \in Line
  PROVE  Placed(x) = Placed(y) <=> x.parent = y.parent /\ x.label = y.label
<1>1. x # Absent /\ y # Absent
  BY AbsentAssumption
<1>2. /\ Placed(x) = [parent |-> x.parent, label |-> x.label, content |-> NoContent]
      /\ Placed(y) = [parent |-> y.parent, label |-> y.label, content |-> NoContent]
  BY <1>1, PlacedLine DEF AnyLine
<1> QED BY <1>2

LEMMA TreeLine ==
  ASSUME NEW t \in Trees, NEW n \in Id
  PROVE  t[n] \in AnyLine /\ (n \in Nodes(t) <=> t[n] # Absent)
BY DEF Trees, AnyLine, Nodes

(* The changes of one branch. *)
LEMMA PlaceChangeShape ==
  ASSUME NEW t \in Trees, NEW u \in Trees, NEW b \in {"A", "B"}, NEW c \in PlaceChanges(t, u, b)
  PROVE  IsPlaceChange(c) /\ c.branches = {b} /\ Is(c, t, u)
<1>1. PICK n \in Id : c = PlaceChange(n, t[n], u[n], b) /\ Placed(t[n]) # Placed(u[n])
  BY DEF PlaceChanges
<1>2. /\ DOMAIN c = Fields /\ c.content = FALSE /\ c.node = n /\ c.branches = {b}
      /\ c.from = Placed(t[n]) /\ c.to = Placed(u[n])
      /\ c.type = ChangeType(t[n], u[n])
      /\ c.label = (Both(t[n], u[n]) /\ t[n].label # u[n].label)
  BY <1>1 DEF PlaceChange, Fields
<1>3. t[n] \in AnyLine /\ u[n] \in AnyLine
  BY TreeLine
<1>4. c.from \in AnyLine /\ c.to \in AnyLine
  BY <1>2, <1>3, PlacedLine
<1>5. ChangeType(t[n], u[n]) = ChangeType(Placed(t[n]), Placed(u[n]))
  BY <1>3, PlacedLine DEF ChangeType
<1>6. (Both(t[n], u[n]) /\ t[n].label # u[n].label)
        = (Both(Placed(t[n]), Placed(u[n])) /\ Placed(t[n]).label # Placed(u[n]).label)
  BY <1>3, PlacedLine DEF Both
<1> QED BY <1>1, <1>2, <1>4, <1>5, <1>6 DEF IsPlaceChange, Is

LEMMA ContentChangeShape ==
  ASSUME NEW t \in Trees, NEW u \in Trees, NEW b \in {"A", "B"}, NEW c \in ContentChanges(t, u, b)
  PROVE  IsContentChange(c) /\ c.branches = {b} /\ Is(c, t, u)
<1>1. PICK n \in Id : /\ c = ContentChange(n, t[n], u[n], b)
                      /\ Both(t[n], u[n]) /\ t[n].content # u[n].content
  BY DEF ContentChanges
<1>2. /\ DOMAIN c = Fields /\ c.content = TRUE /\ c.node = n /\ c.branches = {b}
      /\ c.from = t[n] /\ c.to = u[n] /\ c.type = "Stationary" /\ c.label = FALSE
  BY <1>1 DEF ContentChange, Fields
<1>3. t[n] \in Line /\ u[n] \in Line
  BY <1>1, TreeLine DEF Both, AnyLine
<1> QED BY <1>1, <1>2, <1>3 DEF IsContentChange, Is

LEMMA DiffShape ==
  ASSUME NEW t \in Trees, NEW u \in Trees, NEW b \in {"A", "B"}, NEW c \in Diff(t, u, b)
  PROVE  /\ c.branches = {b} /\ Is(c, t, u)
         /\ IsPlaceChange(c) \/ IsContentChange(c)
<1>1. CASE c \in PlaceChanges(t, u, b)
  BY <1>1, PlaceChangeShape
<1>2. CASE c \in ContentChanges(t, u, b)
  BY <1>2, ContentChangeShape
<1> QED BY <1>1, <1>2 DEF Diff

(* A branch has one change of each kind of a node. *)
LEMMA DiffUnique ==
  ASSUME NEW t \in Trees, NEW u \in Trees, NEW b \in {"A", "B"},
         NEW c \in Diff(t, u, b), NEW d \in Diff(t, u, b),
         c.node = d.node, c.content = d.content
  PROVE  c = d
<1>1. ASSUME NEW e \in Diff(t, u, b)
      PROVE  \/ e = PlaceChange(e.node, t[e.node], u[e.node], b) /\ e.content = FALSE
             \/ e = ContentChange(e.node, t[e.node], u[e.node], b) /\ e.content = TRUE
  <2>1. CASE e \in PlaceChanges(t, u, b)
    <3>1. PICK n \in Id : e = PlaceChange(n, t[n], u[n], b)
      BY <2>1 DEF PlaceChanges
    <3>2. e.node = n /\ e.content = FALSE
      BY <3>1 DEF PlaceChange
    <3> QED BY <3>1, <3>2
  <2>2. CASE e \in ContentChanges(t, u, b)
    <3>1. PICK n \in Id : e = ContentChange(n, t[n], u[n], b)
      BY <2>2 DEF ContentChanges
    <3>2. e.node = n /\ e.content = TRUE
      BY <3>1 DEF ContentChange
    <3> QED BY <3>1, <3>2
  <2> QED BY <2>1, <2>2 DEF Diff
<1>2. \/ c = PlaceChange(c.node, t[c.node], u[c.node], b) /\ c.content = FALSE
      \/ c = ContentChange(c.node, t[c.node], u[c.node], b) /\ c.content = TRUE
  BY <1>1
<1>3. \/ d = PlaceChange(d.node, t[d.node], u[d.node], b) /\ d.content = FALSE
      \/ d = ContentChange(d.node, t[d.node], u[d.node], b) /\ d.content = TRUE
  BY <1>1
<1> QED BY <1>2, <1>3

-----------------------------------------------------------------------------
(***************************************************************************)
(* The changes of both branches.                                           *)
(***************************************************************************)
OfBoth(c) == [c EXCEPT !.branches = {"A", "B"}]

(* Two changes that are alike but for their branches. *)
LEMMA IdenticalShape ==
  ASSUME NEW c, NEW d, Identical(c, d), DOMAIN c = Fields
  PROVE  /\ DOMAIN d = Fields
         /\ d.type = c.type /\ d.node = c.node /\ d.from = c.from /\ d.to = c.to
         /\ d.label = c.label /\ d.content = c.content
BY DEF Identical, Fields

LEMMA OfBothShape ==
  ASSUME NEW c, DOMAIN c = Fields
  PROVE  /\ DOMAIN OfBoth(c) = Fields /\ OfBoth(c).branches = {"A", "B"}
         /\ OfBoth(c).type = c.type /\ OfBoth(c).node = c.node
         /\ OfBoth(c).from = c.from /\ OfBoth(c).to = c.to
         /\ OfBoth(c).label = c.label /\ OfBoth(c).content = c.content
BY DEF OfBoth, Fields

(* Where a change of the graph comes from. *)
LEMMA MergedCases ==
  ASSUME NEW C, NEW D, NEW c \in Merged(C, D)
  PROVE  \/ c \in C /\ \A d \in D : ~Identical(c, d)
         \/ c \in D /\ \A d \in C : ~Identical(d, c)
         \/ \E e \in C, d \in D : Identical(e, d) /\ c = OfBoth(e)
BY DEF Merged, OfBoth

(* What a change is does not depend on its branches. *)
LEMMA SameShape ==
  ASSUME NEW c, NEW d, DOMAIN c = Fields, DOMAIN d = Fields,
         d.type = c.type, d.node = c.node, d.from = c.from, d.to = c.to,
         d.label = c.label, d.content = c.content
  PROVE  /\ IsPlaceChange(c) => IsPlaceChange(d)
         /\ IsContentChange(c) => IsContentChange(d)
         /\ \A o, u : Is(c, o, u) => Is(d, o, u)
BY DEF IsPlaceChange, IsContentChange, Is

LEMMA ShapeDomain ==
  ASSUME NEW c, IsPlaceChange(c) \/ IsContentChange(c)
  PROVE  DOMAIN c = Fields /\ c.node \in Id /\ c.content \in BOOLEAN
BY DEF IsPlaceChange, IsContentChange

LEMMA InitialShape ==
  ASSUME Inputs3, NEW c \in Initial
  PROVE  /\ IsPlaceChange(c) \/ IsContentChange(c)
         /\ c.branches \in {{"A"}, {"B"}, {"A", "B"}}
         /\ "A" \in c.branches => Is(c, base, branchA)
         /\ "B" \in c.branches => Is(c, base, branchB)
<1> DEFINE DA == Diff(base, branchA, "A")
           DB == Diff(base, branchB, "B")
<1>0. base \in Trees /\ branchA \in Trees /\ branchB \in Trees
  BY DEF Inputs3
<1>1. CASE c \in DA
  <2>1. c.branches = {"A"} /\ Is(c, base, branchA) /\ (IsPlaceChange(c) \/ IsContentChange(c))
    BY <1>0, <1>1, DiffShape
  <2> QED BY <2>1
<1>2. CASE c \in DB
  <2>1. c.branches = {"B"} /\ Is(c, base, branchB) /\ (IsPlaceChange(c) \/ IsContentChange(c))
    BY <1>0, <1>2, DiffShape
  <2> QED BY <2>1
<1>3. CASE \E e \in DA, d \in DB : Identical(e, d) /\ c = OfBoth(e)
  <2>1. PICK e \in DA, d \in DB : Identical(e, d) /\ c = OfBoth(e)
    BY <1>3
  <2>2. Is(e, base, branchA) /\ (IsPlaceChange(e) \/ IsContentChange(e))
    BY <1>0, DiffShape
  <2>3. Is(d, base, branchB) /\ (IsPlaceChange(d) \/ IsContentChange(d))
    BY <1>0, DiffShape
  <2>4. DOMAIN e = Fields /\ DOMAIN d = Fields
    BY <2>2, <2>3, ShapeDomain
  <2>5. /\ DOMAIN c = Fields /\ c.branches = {"A", "B"}
        /\ c.type = e.type /\ c.node = e.node /\ c.from = e.from /\ c.to = e.to
        /\ c.label = e.label /\ c.content = e.content
    BY <2>1, <2>4, OfBothShape
  <2>6. /\ d.type = e.type /\ d.node = e.node /\ d.from = e.from /\ d.to = e.to
        /\ d.label = e.label /\ d.content = e.content
    BY <2>1, <2>4, IdenticalShape
  <2>7. Is(c, base, branchA) /\ (IsPlaceChange(c) \/ IsContentChange(c))
    BY <2>2, <2>4, <2>5, SameShape
  <2>8. Is(c, base, branchB)
    <3>1. /\ c.type = d.type /\ c.node = d.node /\ c.from = d.from /\ c.to = d.to
          /\ c.label = d.label /\ c.content = d.content
      BY <2>5, <2>6
    <3> QED BY <2>3, <2>4, <2>5, <3>1, SameShape
  <2> QED BY <2>5, <2>7, <2>8
<1> QED BY <1>1, <1>2, <1>3, MergedCases DEF Initial

(* Two changes of one kind of one node come from different branches. *)
LEMMA InitialUnique ==
  ASSUME Inputs3, NEW c \in Initial, NEW d \in Initial,
         c.node = d.node, c.content = d.content, c # d
  PROVE  \/ c.branches = {"A"} /\ d.branches = {"B"}
         \/ c.branches = {"B"} /\ d.branches = {"A"}
<1> DEFINE DA == Diff(base, branchA, "A")
           DB == Diff(base, branchB, "B")
<1>0. base \in Trees /\ branchA \in Trees /\ branchB \in Trees
  BY DEF Inputs3
<1>1. ASSUME NEW e \in DA, NEW f \in DB, Identical(e, f)
      PROVE  /\ DOMAIN e = Fields /\ f.node = e.node /\ f.content = e.content
             /\ OfBoth(e).node = e.node /\ OfBoth(e).content = e.content
  <2>1. DOMAIN e = Fields
    BY <1>0, DiffShape, ShapeDomain
  <2> QED BY <1>1, <2>1, IdenticalShape, OfBothShape
<1>2. ASSUME NEW e \in DA, NEW f \in DA, e.node = f.node, e.content = f.content PROVE e = f
  BY <1>0, <1>2, DiffUnique
<1>3. ASSUME NEW e \in DB, NEW f \in DB, e.node = f.node, e.content = f.content PROVE e = f
  BY <1>0, <1>3, DiffUnique
<1>4. ASSUME NEW e \in DA PROVE e.branches = {"A"}
  BY <1>0, DiffShape
<1>5. ASSUME NEW e \in DB PROVE e.branches = {"B"}
  BY <1>0, DiffShape
<1> HIDE DEF DA, DB
<1>6. ASSUME NEW e \in Initial
      PROVE  \/ e \in DA /\ \A f \in DB : ~Identical(e, f)
             \/ e \in DB /\ \A f \in DA : ~Identical(f, e)
             \/ \E g \in DA, f \in DB : Identical(g, f) /\ e = OfBoth(g)
  BY MergedCases DEF Initial, DA, DB
<1>7. CASE c \in DA /\ \A f \in DB : ~Identical(c, f)
  BY <1>1, <1>2, <1>4, <1>5, <1>6, <1>7
<1>8. CASE c \in DB /\ \A f \in DA : ~Identical(f, c)
  BY <1>1, <1>3, <1>4, <1>5, <1>6, <1>8
<1>9. CASE \E g \in DA, f \in DB : Identical(g, f) /\ c = OfBoth(g)
  <2>1. PICK g \in DA, f \in DB : Identical(g, f) /\ c = OfBoth(g)
    BY <1>9
  <2>2. /\ g.node = d.node /\ g.content = d.content
        /\ f.node = d.node /\ f.content = d.content
    BY <1>1, <2>1
  <2>3. CASE d \in DA /\ \A h \in DB : ~Identical(d, h)
    BY <1>2, <2>1, <2>2, <2>3
  <2>4. CASE d \in DB /\ \A h \in DA : ~Identical(h, d)
    BY <1>3, <2>1, <2>2, <2>4
  <2>5. CASE \E h \in DA, k \in DB : Identical(h, k) /\ d = OfBoth(h)
    BY <1>1, <1>2, <2>1, <2>2, <2>5
  <2> QED BY <1>6, <2>3, <2>4, <2>5
<1> QED BY <1>6, <1>7, <1>8, <1>9

(* What a branch did to a node is among the changes. *)
LEMMA InitialComplete ==
  ASSUME Inputs3
  PROVE  /\ \A c \in Diff(base, branchA, "A") : \E d \in Initial :
              d.node = c.node /\ d.content = c.content /\ "A" \in d.branches
         /\ \A c \in Diff(base, branchB, "B") : \E d \in Initial :
              d.node = c.node /\ d.content = c.content /\ "B" \in d.branches
<1> DEFINE DA == Diff(base, branchA, "A")
           DB == Diff(base, branchB, "B")
<1>0. base \in Trees /\ branchA \in Trees /\ branchB \in Trees
  BY DEF Inputs3
<1>1. ASSUME NEW e \in DA PROVE e.branches = {"A"} /\ DOMAIN e = Fields
  BY <1>0, DiffShape, ShapeDomain
<1>2. ASSUME NEW e \in DB PROVE e.branches = {"B"}
  BY <1>0, DiffShape
<1>3. ASSUME NEW e \in DA, NEW f \in DB, Identical(e, f)
      PROVE  /\ OfBoth(e) \in Initial /\ OfBoth(e).branches = {"A", "B"}
             /\ OfBoth(e).node = e.node /\ OfBoth(e).content = e.content
             /\ f.node = e.node /\ f.content = e.content
  <2>1. OfBoth(e) \in Initial
    BY <1>3 DEF Initial, Merged, OfBoth
  <2> QED BY <1>1, <1>3, <2>1, OfBothShape, IdenticalShape
<1>4. ASSUME NEW e \in DA, \A f \in DB : ~Identical(e, f) PROVE e \in Initial
  BY <1>4 DEF Initial, Merged
<1>5. ASSUME NEW f \in DB, \A e \in DA : ~Identical(e, f) PROVE f \in Initial
  BY <1>5 DEF Initial, Merged
<1> HIDE DEF DA, DB
<1>6. ASSUME NEW c \in DA
      PROVE  \E d \in Initial : d.node = c.node /\ d.content = c.content /\ "A" \in d.branches
  <2>1. CASE \E f \in DB : Identical(c, f)
    BY <1>3, <1>6, <2>1
  <2>2. CASE \A f \in DB : ~Identical(c, f)
    BY <1>1, <1>4, <1>6, <2>2
  <2> QED BY <2>1, <2>2
<1>7. ASSUME NEW c \in DB
      PROVE  \E d \in Initial : d.node = c.node /\ d.content = c.content /\ "B" \in d.branches
  <2>1. CASE \E f \in DA : Identical(f, c)
    <3>1. PICK f \in DA : Identical(f, c)
      BY <2>1
    <3>2. /\ OfBoth(f) \in Initial /\ OfBoth(f).branches = {"A", "B"}
          /\ OfBoth(f).node = f.node /\ OfBoth(f).content = f.content
          /\ c.node = f.node /\ c.content = f.content
      BY <1>3, <3>1
    <3> QED BY <1>7, <3>2
  <2>2. CASE \A f \in DA : ~Identical(f, c)
    BY <1>2, <1>5, <1>7, <2>2
  <2> QED BY <2>1, <2>2
<1> QED BY <1>6, <1>7 DEF DA, DB

(* They conflict. *)
LEMMA InitialConflict ==
  ASSUME Inputs3, NEW c \in Initial, NEW d \in Initial,
         c.node = d.node, c.content = d.content, c # d
  PROVE  <<c, d>> \in Conflicts(Initial) /\ <<d, c>> \in Conflicts(Initial)
<1> DEFINE later == {e \in Initial \X Initial :
                       /\ e[1].branches = {"B"} /\ "A" \in e[2].branches
                       /\ DirectConflict(e[1], e[2])}
<1>1. ASSUME NEW e \in Initial, NEW f \in Initial,
             e.branches = {"B"}, f.branches = {"A"}, e.node = f.node, e.content = f.content
      PROVE  <<e, f>> \in later
  BY <1>1 DEF DirectConflict, SameNodeConflict
<1>2. <<c, d>> \in later \/ <<d, c>> \in later
  BY <1>1, InitialUnique
<1>3. Conflicts(Initial) = later \cup {<<e[2], e[1]>> : e \in later}
  BY DEF Conflicts
<1> HIDE DEF later
<1>4. ASSUME NEW e, NEW f, <<e, f>> \in later
      PROVE <<e, f>> \in Conflicts(Initial) /\ <<f, e>> \in Conflicts(Initial)
  <2>1. <<<<e, f>>[2], <<e, f>>[1]>> = <<f, e>>
    OBVIOUS
  <2> QED BY <1>3, <1>4, <2>1
<1> QED BY <1>2, <1>4

-----------------------------------------------------------------------------
(***************************************************************************)
(* The tree after one change.                                              *)
(***************************************************************************)
LEMMA PlaceChangeTypes ==
  ASSUME NEW c, IsPlaceChange(c), c.from # c.to
  PROVE  \/ c.type = "Insertion" /\ c.from = Absent /\ c.to \in Line /\ c.label = FALSE
         \/ c.type = "Deletion" /\ c.from \in Line /\ c.to = Absent /\ c.label = FALSE
         \/ /\ c.type = "Move" /\ c.from \in Line /\ c.to \in Line
            /\ c.label = (c.from.label # c.to.label)
         \/ /\ c.type = "Stationary" /\ c.from \in Line /\ c.to \in Line
            /\ c.label = (c.from.label # c.to.label) /\ c.from.parent = c.to.parent
<1>1. /\ c.from \in Line \cup {Absent} /\ c.to \in Line \cup {Absent}
      /\ c.type = ChangeType(c.from, c.to)
      /\ c.label = (Both(c.from, c.to) /\ c.from.label # c.to.label)
  BY DEF IsPlaceChange, AnyLine
<1>2. CASE c.from = Absent
  BY <1>1, <1>2 DEF ChangeType, Both
<1>3. CASE c.from # Absent /\ c.to = Absent
  BY <1>1, <1>3 DEF ChangeType, Both
<1>4. CASE c.from # Absent /\ c.to # Absent
  BY <1>1, <1>4 DEF ChangeType, Both
<1> QED BY <1>2, <1>3, <1>4

(* A change of the place of a node puts it where it says. *)
LEMMA PlaceApplied ==
  ASSUME NEW t \in Trees, NEW c, IsPlaceChange(c), c.from # c.to,
         Applicable(t, c), Placed(t[c.node]) = Placed(c.from)
  PROVE  /\ Applied(t, c) \in Trees
         /\ \A m \in Id : m # c.node => Applied(t, c)[m] = t[m]
         /\ Placed(Applied(t, c)[c.node]) = Placed(c.to)
         /\ c.type \in {"Move", "Stationary"} => Applied(t, c)[c.node].content = t[c.node].content
<1> DEFINE n == c.node
<1>1. n \in Id /\ c.content = FALSE /\ DOMAIN t = Id /\ t[n] \in AnyLine
  BY TreeLine DEF IsPlaceChange, Trees
<1>2. CASE c.type = "Insertion" /\ c.to \in Line
  <2>1. Applied(t, c) = [t EXCEPT ![n] = c.to]
    BY <1>2 DEF Applied
  <2> QED BY <1>1, <1>2, <2>1 DEF Trees
<1>3. CASE c.type = "Deletion" /\ c.to = Absent
  <2>1. Applied(t, c) = [t EXCEPT ![n] = Absent]
    BY <1>3 DEF Applied
  <2> QED BY <1>1, <1>3, <2>1 DEF Trees
<1>4. CASE /\ c.type \in {"Move", "Stationary"} /\ c.from \in Line /\ c.to \in Line
           /\ c.label = (c.from.label # c.to.label)
           /\ c.type = "Stationary" => c.from.parent = c.to.parent
  <2>1. t[n] \in Line
    <3>1. t[n] # Absent
      BY <1>1, <1>4, PlacedLine, AbsentAssumption DEF AnyLine
    <3> QED BY <1>1, <3>1 DEF AnyLine
  <2>2. t[n].parent = c.from.parent /\ t[n].label = c.from.label
    BY <1>4, <2>1, SamePlace
  <2> DEFINE r == [parent |-> IF c.type = "Move" THEN NewParent(c) ELSE t[n].parent,
                   label |-> IF c.label THEN c.to.label ELSE t[n].label,
                   content |-> t[n].content]
  <2>3. NewParent(c) = c.to.parent
    BY <1>4, AbsentAssumption DEF NewParent
  <2>4. r.parent = c.to.parent
    BY <1>4, <2>2, <2>3
  <2>5. r.label = c.to.label
    BY <1>4, <2>2
  <2>6. r = [parent |-> c.to.parent, label |-> c.to.label, content |-> t[n].content]
    BY <2>4, <2>5
  <2>7. r \in Line
    BY <1>4, <2>1, <2>6 DEF Line
  <2>8. Applied(t, c) = [t EXCEPT ![n] = r]
    BY <1>1, <1>4 DEF Applied
  <2> HIDE DEF r
  <2>9. Applied(t, c) \in Trees /\ Applied(t, c)[n] = r
    BY <1>1, <2>7, <2>8 DEF Trees
  <2>10. \A m \in Id : m # n => Applied(t, c)[m] = t[m]
    BY <1>1, <2>8
  <2>11. Placed(r) = Placed(c.to)
    <3>1. r.parent = c.to.parent /\ r.label = c.to.label
      BY <2>6
    <3> QED BY <1>4, <2>7, <3>1, SamePlace
  <2>12. r.content = t[n].content
    BY <2>6
  <2> QED BY <2>9, <2>10, <2>11, <2>12
<1> QED BY <1>2, <1>3, <1>4, PlaceChangeTypes

(* A change of the content leaves the node where it is. *)
LEMMA ContentApplied ==
  ASSUME NEW t \in Trees, NEW c, IsContentChange(c), Applicable(t, c)
  PROVE  /\ Applied(t, c) \in Trees
         /\ \A m \in Id : m # c.node => Applied(t, c)[m] = t[m]
         /\ Placed(Applied(t, c)[c.node]) = Placed(t[c.node])
         /\ Applied(t, c)[c.node].content = c.to.content
<1> DEFINE n == c.node
           r == [parent |-> t[n].parent, label |-> t[n].label, content |-> c.to.content]
<1>1. /\ n \in Id /\ DOMAIN t = Id /\ c.type = "Stationary" /\ c.content = TRUE
      /\ c.label = FALSE /\ c.to \in Line
  BY DEF IsContentChange, Trees
<1>2. n \in Nodes(t)
  BY <1>1 DEF Applicable
<1>3. t[n] \in Line
  BY <1>1, <1>2, TreeLine DEF AnyLine
<1>4. Applied(t, c) = [t EXCEPT ![n] = r]
  BY <1>1 DEF Applied
<1>5. r \in Line /\ r.parent = t[n].parent /\ r.label = t[n].label /\ r.content = c.to.content
  BY <1>1, <1>3 DEF Line
<1> HIDE DEF r
<1>6. Placed(r) = Placed(t[n])
  BY <1>3, <1>5, SamePlace
<1>7. Applied(t, c) \in Trees /\ Applied(t, c)[n] = r /\ \A m \in Id : m # n => Applied(t, c)[m] = t[m]
  BY <1>1, <1>4, <1>5 DEF Trees
<1> QED BY <1>5, <1>6, <1>7

-----------------------------------------------------------------------------
(***************************************************************************)
(* The invariant.  Two changes of one kind of one node conflict with each  *)
(* other, so that neither is ever applied.                                 *)
(***************************************************************************)
Paired ==
  /\ \A c, d : <<c, d>> \in directConflicts => <<d, c>> \in directConflicts
  /\ \A c, d \in Initial :
       c.node = d.node /\ c.content = d.content /\ c # d => <<c, d>> \in directConflicts

Scanned == okToBreakCycle \subseteq todo /\ (phase = "apply" => todo = {})

IInv == TypeOK /\ MergedIsThreeWay /\ changes \subseteq Initial /\ Paired /\ Scanned

LEMMA ConflictsPaired ==
  ASSUME NEW C
  PROVE  /\ Conflicts(C) \subseteq C \X C
         /\ \A c, d : <<c, d>> \in Conflicts(C) => <<d, c>> \in Conflicts(C)
<1> DEFINE later == {e \in C \X C : /\ e[1].branches = {"B"} /\ "A" \in e[2].branches
                                    /\ DirectConflict(e[1], e[2])}
<1>1. Conflicts(C) = later \cup {<<e[2], e[1]>> : e \in later}
  BY DEF Conflicts
<1>2. later \subseteq C \X C
  OBVIOUS
<1> HIDE DEF later
<1>3. Conflicts(C) \subseteq C \X C
  BY <1>1, <1>2
<1>4. ASSUME NEW c, NEW d, <<c, d>> \in Conflicts(C) PROVE <<d, c>> \in Conflicts(C)
  <2>1. CASE <<c, d>> \in later
    <3>1. <<<<c, d>>[2], <<c, d>>[1]>> = <<d, c>>
      OBVIOUS
    <3> QED BY <1>1, <2>1, <3>1
  <2>2. CASE \E e \in later : <<c, d>> = <<e[2], e[1]>>
    <3>1. PICK e \in later : <<c, d>> = <<e[2], e[1]>>
      BY <2>2
    <3>2. e = <<d, c>>
      BY <1>2, <3>1
    <3> QED BY <1>1, <3>1, <3>2
  <2> QED BY <1>1, <1>4, <2>1, <2>2
<1> QED BY <1>3, <1>4

(* What TypeOK says of a change. *)
LEMMA InitialTyped ==
  ASSUME Inputs3, NEW c \in Initial
  PROVE  /\ DOMAIN c = {"type", "node", "branches", "from", "to", "label", "content"}
         /\ c.node \in Id /\ {c.from, c.to} \subseteq Line \cup {Absent}
         /\ c.branches \in (SUBSET {"A", "B"}) \ {{}}
         /\ c.content => c.type = "Stationary"
<1>1. c.branches \in (SUBSET {"A", "B"}) \ {{}}
  BY InitialShape
<1>2. CASE IsPlaceChange(c)
  BY <1>1, <1>2 DEF IsPlaceChange, Fields, AnyLine
<1>3. CASE IsContentChange(c)
  BY <1>1, <1>3 DEF IsContentChange, Fields
<1> QED BY <1>2, <1>3, InitialShape

(* What a branch did to a node is a change of the graph. *)
LEMMA BranchesComplete ==
  ASSUME Inputs3, NEW n \in Id
  PROVE  /\ Placed(base[n]) # Placed(branchA[n]) =>
              \E d \in Initial : d.node = n /\ d.content = FALSE /\ "A" \in d.branches
         /\ Placed(base[n]) # Placed(branchB[n]) =>
              \E d \in Initial : d.node = n /\ d.content = FALSE /\ "B" \in d.branches
         /\ Both(base[n], branchA[n]) /\ base[n].content # branchA[n].content =>
              \E d \in Initial : d.node = n /\ d.content = TRUE /\ "A" \in d.branches
         /\ Both(base[n], branchB[n]) /\ base[n].content # branchB[n].content =>
              \E d \in Initial : d.node = n /\ d.content = TRUE /\ "B" \in d.branches
<1>0. base \in Trees /\ branchA \in Trees /\ branchB \in Trees
  BY DEF Inputs3
<1>1. ASSUME Placed(base[n]) # Placed(branchA[n])
      PROVE  \E d \in Initial : d.node = n /\ d.content = FALSE /\ "A" \in d.branches
  <2> DEFINE c == PlaceChange(n, base[n], branchA[n], "A")
  <2>1. c \in Diff(base, branchA, "A")
    BY <1>1 DEF Diff, PlaceChanges
  <2>2. c.node = n /\ c.content = FALSE
    BY DEF PlaceChange
  <2> HIDE DEF c
  <2> QED BY <2>1, <2>2, InitialComplete
<1>2. ASSUME Placed(base[n]) # Placed(branchB[n])
      PROVE  \E d \in Initial : d.node = n /\ d.content = FALSE /\ "B" \in d.branches
  <2> DEFINE c == PlaceChange(n, base[n], branchB[n], "B")
  <2>1. c \in Diff(base, branchB, "B")
    BY <1>2 DEF Diff, PlaceChanges
  <2>2. c.node = n /\ c.content = FALSE
    BY DEF PlaceChange
  <2> HIDE DEF c
  <2> QED BY <2>1, <2>2, InitialComplete
<1>3. ASSUME Both(base[n], branchA[n]), base[n].content # branchA[n].content
      PROVE  \E d \in Initial : d.node = n /\ d.content = TRUE /\ "A" \in d.branches
  <2> DEFINE c == ContentChange(n, base[n], branchA[n], "A")
  <2>1. c \in Diff(base, branchA, "A")
    BY <1>3 DEF Diff, ContentChanges
  <2>2. c.node = n /\ c.content = TRUE
    BY DEF ContentChange
  <2> HIDE DEF c
  <2> QED BY <2>1, <2>2, InitialComplete
<1>4. ASSUME Both(base[n], branchB[n]), base[n].content # branchB[n].content
      PROVE  \E d \in Initial : d.node = n /\ d.content = TRUE /\ "B" \in d.branches
  <2> DEFINE c == ContentChange(n, base[n], branchB[n], "B")
  <2>1. c \in Diff(base, branchB, "B")
    BY <1>4 DEF Diff, ContentChanges
  <2>2. c.node = n /\ c.content = TRUE
    BY DEF ContentChange
  <2> HIDE DEF c
  <2> QED BY <2>1, <2>2, InitialComplete
<1> QED BY <1>1, <1>2, <1>3, <1>4

(***************************************************************************)
(* The place and the content of a node in the merged tree.                 *)
(***************************************************************************)
PlaceOf(n) ==
  ThreeWay(Placed(base[n]), Placed(branchA[n]), Placed(branchB[n]))

ContentOf(n) == ThreeWay(base[n].content, branchA[n].content, branchB[n].content)

InAll(n) == n \in Nodes(base) /\ n \in Nodes(branchA) /\ n \in Nodes(branchB)

LEMMA ThreeWayPlaces ==
  MergedIsThreeWay <=>
    \A n \in Id :
      /\ PlaceLeft(n) => Placed(merged[n]) = Placed(base[n])
      /\ ~PlaceLeft(n) => Placed(merged[n]) = PlaceOf(n)
      /\ InAll(n) /\ ContentLeft(n) => merged[n].content = base[n].content
      /\ InAll(n) /\ ~ContentLeft(n) => merged[n].content = ContentOf(n)
BY DEF MergedIsThreeWay, PlaceOf, ContentOf, InAll

(* The only change of a node's place, or content, is what the merge does. *)
LEMMA OnlyPlaceChange ==
  ASSUME Inputs3, NEW c \in Initial, c.content = FALSE,
         \A d \in Initial : d.node = c.node /\ d.content = FALSE => d = c
  PROVE  /\ c.from = Placed(base[c.node]) /\ c.to = PlaceOf(c.node) /\ c.from # c.to
         /\ IsPlaceChange(c)
<1> DEFINE n == c.node
<1>1. n \in Id /\ IsPlaceChange(c) /\ c.branches \in {{"A"}, {"B"}, {"A", "B"}}
  <2>1. ~IsContentChange(c)
    BY DEF IsContentChange
  <2> QED BY <2>1, InitialShape, ShapeDomain
<1>2. "A" \in c.branches => /\ c.from = Placed(base[n]) /\ c.to = Placed(branchA[n])
                            /\ Placed(base[n]) # Placed(branchA[n])
  BY InitialShape DEF Is
<1>3. "B" \in c.branches => /\ c.from = Placed(base[n]) /\ c.to = Placed(branchB[n])
                            /\ Placed(base[n]) # Placed(branchB[n])
  BY InitialShape DEF Is
<1>4. "A" \notin c.branches => Placed(base[n]) = Placed(branchA[n])
  BY <1>1, BranchesComplete
<1>5. CASE "A" \in c.branches
  BY <1>1, <1>2, <1>5 DEF PlaceOf, ThreeWay
<1>6. CASE "A" \notin c.branches
  BY <1>1, <1>3, <1>4, <1>6 DEF PlaceOf, ThreeWay
<1> QED BY <1>5, <1>6

LEMMA OnlyContentChange ==
  ASSUME Inputs3, NEW c \in Initial, c.content = TRUE, InAll(c.node),
         \A d \in Initial : d.node = c.node /\ d.content = TRUE => d = c
  PROVE  c.to.content = ContentOf(c.node) /\ IsContentChange(c)
<1> DEFINE n == c.node
<1>1. n \in Id /\ IsContentChange(c) /\ c.branches \in {{"A"}, {"B"}, {"A", "B"}}
  <2>1. ~IsPlaceChange(c)
    BY DEF IsPlaceChange
  <2> QED BY <2>1, InitialShape, ShapeDomain
<1>2. "A" \in c.branches => c.to = branchA[n] /\ base[n].content # branchA[n].content
  BY InitialShape DEF Is
<1>3. "B" \in c.branches => c.to = branchB[n] /\ base[n].content # branchB[n].content
  BY InitialShape DEF Is
<1>4. "A" \notin c.branches => base[n].content = branchA[n].content
  <2>1. Both(base[n], branchA[n])
    BY <1>1 DEF InAll, Nodes, Both
  <2> QED BY <1>1, <2>1, BranchesComplete
<1>5. CASE "A" \in c.branches
  BY <1>1, <1>2, <1>5 DEF ContentOf, ThreeWay
<1>6. CASE "A" \notin c.branches
  BY <1>1, <1>3, <1>4, <1>6 DEF ContentOf, ThreeWay
<1> QED BY <1>1, <1>5, <1>6

-----------------------------------------------------------------------------
(* The graph before the first change. *)
LEMMA IInvInit == Init => IInv
<1> SUFFICES ASSUME Init PROVE IInv
  OBVIOUS
<1>1. Inputs3
  <2>1. PICK i \in Inputs : base = i.base /\ branchA = i.branchA /\ branchB = i.branchB
    BY DEF Init
  <2> QED BY <2>1, InputsAssumption DEF Inputs3
<1>2. changes = Initial /\ merged = base /\ directConflicts = Conflicts(Initial)
  BY DEF Init, Initial
<1>3. TypeOK
  <2>1. dependencies \subseteq changes \X changes
    BY DEF Init, Dependencies
  <2>2. directConflicts \subseteq changes \X changes
    BY <1>2, ConflictsPaired
  <2>3. /\ okToBreakCycle = {} /\ todo = {} /\ phase = "apply" /\ removedSomeDependencies = FALSE
    BY DEF Init
  <2>4. \A c \in changes :
          /\ DOMAIN c = {"type", "node", "branches", "from", "to", "label", "content"}
          /\ c.node \in Id /\ {c.from, c.to} \subseteq Line \cup {Absent}
          /\ c.branches \in (SUBSET {"A", "B"}) \ {{}}
          /\ c.content => c.type = "Stationary"
    BY <1>1, <1>2, InitialTyped
  <2> QED BY <1>1, <1>2, <2>1, <2>2, <2>3, <2>4 DEF TypeOK, Inputs3
<1>4. MergedIsThreeWay
  <2> SUFFICES ASSUME NEW n \in Id
               PROVE  /\ PlaceLeft(n) => Placed(merged[n]) = Placed(base[n])
                      /\ ~PlaceLeft(n) => Placed(merged[n]) = PlaceOf(n)
                      /\ InAll(n) /\ ContentLeft(n) => merged[n].content = base[n].content
                      /\ InAll(n) /\ ~ContentLeft(n) => merged[n].content = ContentOf(n)
    BY ThreeWayPlaces
  <2>1. ~PlaceLeft(n) => Placed(base[n]) = Placed(branchA[n]) /\ Placed(base[n]) = Placed(branchB[n])
    BY <1>1, <1>2, BranchesComplete DEF PlaceLeft
  <2>2. InAll(n) => Both(base[n], branchA[n]) /\ Both(base[n], branchB[n])
    BY DEF InAll, Nodes, Both
  <2>3. InAll(n) /\ ~ContentLeft(n) =>
          base[n].content = branchA[n].content /\ base[n].content = branchB[n].content
    BY <1>1, <1>2, <2>2, BranchesComplete DEF ContentLeft
  <2> QED BY <1>2, <2>1, <2>3 DEF PlaceOf, ContentOf, ThreeWay
<1>5. Paired
  BY <1>1, <1>2, ConflictsPaired, InitialConflict DEF Paired
<1>6. Scanned
  BY DEF Init, Scanned
<1> QED BY <1>2, <1>3, <1>4, <1>5, <1>6 DEF IInv

LEMMA PlacedTwice ==
  ASSUME NEW x \in AnyLine
  PROVE  Placed(Placed(x)) = Placed(x)
<1>1. CASE x = Absent
  BY <1>1 DEF Placed
<1>2. CASE x # Absent
  <2>1. x \in Line /\ Placed(x) \in Line
    BY <1>2, PlacedLine DEF AnyLine
  <2>2. Placed(x).parent = x.parent /\ Placed(x).label = x.label
    BY <1>2, PlacedLine
  <2> QED BY <2>1, <2>2, SamePlace
<1> QED BY <1>1, <1>2

LEMMA SameInputs ==
  ASSUME UNCHANGED inputs
  PROVE  /\ Initial' = Initial
         /\ \A n \in Id : PlaceOf(n)' = PlaceOf(n) /\ ContentOf(n)' = ContentOf(n)
                          /\ (InAll(n))' = InAll(n) /\ base'[n] = base[n]
BY DEF inputs, Initial, PlaceOf, ContentOf, InAll

(* The places and contents after a change of the place of a node. *)
LEMMA PlaceStep ==
  ASSUME TypeOK, MergedIsThreeWay, NEW c \in Initial, c \in changes, c.content = FALSE,
         Applicable(merged, c), changes' = changes \ {c}, merged' = Applied(merged, c),
         UNCHANGED inputs,
         \A d \in Initial : d.node = c.node /\ d.content = FALSE => d = c,
         changes \subseteq Initial
  PROVE  merged' \in Trees /\ MergedIsThreeWay'
<1> DEFINE n == c.node
<1>0. Inputs3 /\ merged \in Trees /\ base \in Trees
  BY DEF TypeOK, Inputs3
<1>1. /\ c.from = Placed(base[n]) /\ c.to = PlaceOf(n) /\ c.from # c.to
      /\ IsPlaceChange(c) /\ n \in Id /\ c.from \in AnyLine /\ c.to \in AnyLine
  BY <1>0, OnlyPlaceChange DEF IsPlaceChange
<1>2. Placed(merged[n]) = Placed(base[n])
  BY <1>1, ThreeWayPlaces DEF PlaceLeft
<1>3. Placed(c.from) = c.from /\ Placed(c.to) = c.to
  <2>1. base[n] \in AnyLine /\ branchA[n] \in AnyLine /\ branchB[n] \in AnyLine
    BY <1>0, <1>1, TreeLine DEF Inputs3
  <2>2. PlaceOf(n) \in {Placed(branchA[n]), Placed(branchB[n])}
    BY DEF PlaceOf, ThreeWay
  <2> QED BY <1>1, <2>1, <2>2, PlacedTwice
<1>4. /\ merged' \in Trees
      /\ \A m \in Id : m # n => merged'[m] = merged[m]
      /\ Placed(merged'[n]) = PlaceOf(n)
      /\ c.type \in {"Move", "Stationary"} => merged'[n].content = merged[n].content
  BY <1>0, <1>1, <1>2, <1>3, PlaceApplied
<1>5. InAll(n) => c.type \in {"Move", "Stationary"}
  <2> SUFFICES ASSUME InAll(n) PROVE c.type \in {"Move", "Stationary"}
    OBVIOUS
  <2>1. base[n] \in AnyLine /\ branchA[n] \in AnyLine /\ branchB[n] \in AnyLine
    BY <1>0, <1>1, TreeLine DEF Inputs3
  <2>2. base[n] # Absent /\ branchA[n] # Absent /\ branchB[n] # Absent
    BY DEF InAll, Nodes
  <2>3. c.from # Absent
    BY <1>1, <2>1, <2>2, PlacedLine
  <2>4. c.to # Absent
    BY <1>1, <2>1, <2>2, PlacedLine DEF PlaceOf, ThreeWay
  <2> QED BY <1>1, <2>3, <2>4, PlaceChangeTypes
<1>6. \A m \in Id : /\ m # n => PlaceLeft(m)' = PlaceLeft(m)
                    /\ ContentLeft(m)' = ContentLeft(m)
  BY DEF PlaceLeft, ContentLeft
<1>7. ~PlaceLeft(n)'
  BY DEF PlaceLeft
<1> SUFFICES ASSUME NEW m \in Id
             PROVE  /\ PlaceLeft(m)' => Placed(merged'[m]) = Placed(base'[m])
                    /\ ~PlaceLeft(m)' => Placed(merged'[m]) = PlaceOf(m)'
                    /\ (InAll(m) /\ ContentLeft(m))' => merged'[m].content = base'[m].content
                    /\ (InAll(m) /\ ~ContentLeft(m))' => merged'[m].content = ContentOf(m)'
  BY <1>4 DEF MergedIsThreeWay, PlaceOf, ContentOf, InAll
<1>8. /\ PlaceLeft(m) => Placed(merged[m]) = Placed(base[m])
      /\ ~PlaceLeft(m) => Placed(merged[m]) = PlaceOf(m)
      /\ InAll(m) /\ ContentLeft(m) => merged[m].content = base[m].content
      /\ InAll(m) /\ ~ContentLeft(m) => merged[m].content = ContentOf(m)
  BY ThreeWayPlaces
<1>9. CASE m # n
  BY <1>4, <1>6, <1>8, <1>9, SameInputs
<1>10. CASE m = n
  BY <1>4, <1>5, <1>6, <1>7, <1>8, <1>10, SameInputs
<1> QED BY <1>9, <1>10

(* The places and contents after a change of the content of a node. *)
LEMMA ContentStep ==
  ASSUME TypeOK, MergedIsThreeWay, NEW c \in Initial, c \in changes, c.content = TRUE,
         Applicable(merged, c), changes' = changes \ {c}, merged' = Applied(merged, c),
         UNCHANGED inputs,
         \A d \in Initial : d.node = c.node /\ d.content = TRUE => d = c,
         changes \subseteq Initial
  PROVE  merged' \in Trees /\ MergedIsThreeWay'
<1> DEFINE n == c.node
<1>0. Inputs3 /\ merged \in Trees
  BY DEF TypeOK, Inputs3
<1>1. IsContentChange(c) /\ n \in Id
  <2>1. ~IsPlaceChange(c)
    BY DEF IsPlaceChange
  <2> QED BY <1>0, <2>1, InitialShape, ShapeDomain
<1>2. InAll(n) => c.to.content = ContentOf(n)
  BY <1>0, OnlyContentChange
<1>3. /\ merged' \in Trees
      /\ \A m \in Id : m # n => merged'[m] = merged[m]
      /\ Placed(merged'[n]) = Placed(merged[n])
      /\ merged'[n].content = c.to.content
  BY <1>0, <1>1, ContentApplied
<1>4. \A m \in Id : /\ PlaceLeft(m)' = PlaceLeft(m)
                    /\ m # n => ContentLeft(m)' = ContentLeft(m)
  BY DEF PlaceLeft, ContentLeft
<1>5. ~ContentLeft(n)'
  BY DEF ContentLeft
<1> SUFFICES ASSUME NEW m \in Id
             PROVE  /\ PlaceLeft(m)' => Placed(merged'[m]) = Placed(base'[m])
                    /\ ~PlaceLeft(m)' => Placed(merged'[m]) = PlaceOf(m)'
                    /\ (InAll(m) /\ ContentLeft(m))' => merged'[m].content = base'[m].content
                    /\ (InAll(m) /\ ~ContentLeft(m))' => merged'[m].content = ContentOf(m)'
  BY <1>3 DEF MergedIsThreeWay, PlaceOf, ContentOf, InAll
<1>6. /\ PlaceLeft(m) => Placed(merged[m]) = Placed(base[m])
      /\ ~PlaceLeft(m) => Placed(merged[m]) = PlaceOf(m)
      /\ InAll(m) /\ ContentLeft(m) => merged[m].content = base[m].content
      /\ InAll(m) /\ ~ContentLeft(m) => merged[m].content = ContentOf(m)
  BY ThreeWayPlaces
<1>7. CASE m # n
  BY <1>3, <1>4, <1>6, <1>7, SameInputs
<1>8. CASE m = n
  BY <1>2, <1>3, <1>4, <1>5, <1>6, <1>8, SameInputs
<1> QED BY <1>7, <1>8

-----------------------------------------------------------------------------
(* What the other steps leave alone. *)
LEMMA SameTree ==
  ASSUME MergedIsThreeWay, UNCHANGED <<inputs, merged, changes>>
  PROVE  MergedIsThreeWay'
BY DEF MergedIsThreeWay, PlaceLeft, ContentLeft, ThreeWay, Nodes, inputs

LEMMA SamePairs ==
  ASSUME Paired, UNCHANGED <<inputs, directConflicts>>
  PROVE  Paired'
BY SameInputs DEF Paired

LEMMA ApplyStep ==
  ASSUME IInv, NEW c \in changes, ApplyChange(c)
  PROVE  IInv'
<1>1. /\ TypeOK /\ MergedIsThreeWay /\ changes \subseteq Initial /\ Paired /\ Scanned
      /\ UNCHANGED inputs /\ UNCHANGED <<directConflicts, scan>>
      /\ phase = "apply" /\ c \in Initial
  BY DEF IInv, ApplyChange
<1>2. Initial' = Initial
  BY <1>1, SameInputs
<1>3. Paired'
  BY <1>1, SamePairs
<1>4. CASE ~Applicable(merged, c)
  <2>1. UNCHANGED <<merged, changes, dependencies>> /\ phase' = "fault"
    BY <1>4 DEF ApplyChange
  <2>2. TypeOK'
    BY <1>1, <2>1 DEF TypeOK, inputs, scan
  <2>3. MergedIsThreeWay'
    BY <1>1, <2>1, SameTree
  <2>4. Scanned'
    BY <1>1, <2>1 DEF Scanned, scan
  <2> QED BY <1>1, <1>2, <1>3, <2>1, <2>2, <2>3, <2>4 DEF IInv
<1>5. CASE Applicable(merged, c)
  <2>1. /\ merged' = Applied(merged, c) /\ changes' = changes \ {c}
        /\ dependencies' = WithoutChange(c) /\ phase' = phase
    BY <1>5 DEF ApplyChange
  <2>2. /\ \A d \in changes : <<c, d>> \notin directConflicts
        /\ directConflicts \subseteq changes \X changes
        /\ dependencies \subseteq changes \X changes
    BY <1>1 DEF ApplyChange, Ready, TypeOK
  <2>3. ASSUME NEW d \in Initial, d.node = c.node, d.content = c.content PROVE d = c
    <3> SUFFICES ASSUME d # c PROVE FALSE
      OBVIOUS
    <3>1. <<c, d>> \in directConflicts
      BY <1>1, <2>3 DEF Paired
    <3> QED BY <2>2, <3>1
  <2>4. directConflicts \subseteq (changes \ {c}) \X (changes \ {c})
    <3> SUFFICES ASSUME NEW e \in directConflicts PROVE e[1] # c /\ e[2] # c
      BY <2>2
    <3>1. e \in changes \X changes /\ e = <<e[1], e[2]>>
      BY <2>2
    <3>2. <<e[2], e[1]>> \in directConflicts
      BY <1>1, <3>1 DEF Paired
    <3> QED BY <2>2, <3>1, <3>2
  <2>5. WithoutChange(c) \subseteq (changes \ {c}) \X (changes \ {c})
    <3> SUFFICES ASSUME NEW e \in WithoutChange(c) PROVE e \in (changes \ {c}) \X (changes \ {c})
      OBVIOUS
    <3>1. e \in changes \X changes /\ c \notin {e[1], e[2]}
      BY <2>2 DEF WithoutChange
    <3> QED BY <3>1
  <2>6. okToBreakCycle' = {} /\ todo' = {}
    BY <1>1 DEF Scanned, scan
  <2>7. merged' \in Trees /\ MergedIsThreeWay'
    <3>1. CASE c.content = FALSE
      <4>1. \A d \in Initial : d.node = c.node /\ d.content = FALSE => d = c
        BY <2>3, <3>1
      <4> QED BY <1>1, <1>5, <2>1, <3>1, <4>1, PlaceStep
    <3>2. CASE c.content = TRUE
      <4>1. \A d \in Initial : d.node = c.node /\ d.content = TRUE => d = c
        BY <2>3, <3>2
      <4> QED BY <1>1, <1>5, <2>1, <3>2, <4>1, ContentStep
    <3>3. c.content \in BOOLEAN
      <4>1. Inputs3
        BY <1>1 DEF TypeOK, Inputs3
      <4> QED BY <1>1, <4>1, InitialShape, ShapeDomain
    <3> QED BY <3>1, <3>2, <3>3
  <2>8. TypeOK'
    BY <1>1, <2>1, <2>4, <2>5, <2>6, <2>7 DEF TypeOK, inputs, scan
  <2>9. Scanned'
    BY <2>6 DEF Scanned
  <2> QED BY <1>1, <1>2, <1>3, <2>1, <2>7, <2>8, <2>9 DEF IInv
<1> QED BY <1>4, <1>5

LEMMA BreakStep ==
  ASSUME IInv, NEW c \in changes, BreakCycle(c)
  PROVE  IInv'
<1>1. /\ TypeOK /\ MergedIsThreeWay /\ changes \subseteq Initial /\ Paired /\ Scanned
      /\ UNCHANGED <<inputs, merged, changes>> /\ UNCHANGED <<inputs, directConflicts>>
      /\ UNCHANGED inputs /\ phase = "scan" /\ todo' = todo \ {c}
  BY DEF IInv, BreakCycle
<1>2. /\ Initial' = Initial /\ Paired' /\ MergedIsThreeWay'
  BY <1>1, SameInputs, SamePairs, SameTree
<1>3. /\ phase' \in {"scan", "hang"} /\ dependencies' \subseteq dependencies
      /\ okToBreakCycle' \subseteq okToBreakCycle \ {c}
      /\ removedSomeDependencies' \in BOOLEAN
  <2>1. CASE c \notin okToBreakCycle
    BY <1>1, <2>1 DEF BreakCycle, TypeOK
  <2>2. CASE c \in okToBreakCycle
    <3>1. c \in Walk(c)
      BY ReachStart DEF Walk
    <3>2. /\ phase' = IF IsCycle(Walk(c), c) \/ Leaves(Walk(c)) THEN phase ELSE "hang"
          /\ okToBreakCycle' = okToBreakCycle \ Walk(c)
          /\ dependencies' = IF IsCycle(Walk(c), c) THEN Remaining(Walk(c)) ELSE dependencies
          /\ removedSomeDependencies' = (removedSomeDependencies \/ IsCycle(Walk(c), c))
      BY <2>2 DEF BreakCycle
    <3>3. Remaining(Walk(c)) \subseteq dependencies
      BY DEF Remaining
    <3>4. removedSomeDependencies' \in BOOLEAN
      BY <3>2
    <3>5. phase' \in {"scan", "hang"}
      BY <1>1, <3>2
    <3>6. dependencies' \subseteq dependencies
      BY <3>2, <3>3
    <3> QED BY <3>1, <3>2, <3>4, <3>5, <3>6
  <2> QED BY <2>1, <2>2
<1>4. TypeOK'
  BY <1>1, <1>3 DEF TypeOK, inputs
<1>5. Scanned'
  BY <1>1, <1>3 DEF Scanned
<1> QED BY <1>1, <1>2, <1>4, <1>5 DEF IInv

LEMMA ScanStep ==
  ASSUME IInv, Scan \/ EndScan
  PROVE  IInv'
<1>1. /\ TypeOK /\ MergedIsThreeWay /\ changes \subseteq Initial /\ Paired /\ Scanned
      /\ UNCHANGED <<inputs, merged, changes>> /\ UNCHANGED <<inputs, directConflicts>>
      /\ UNCHANGED inputs /\ dependencies' = dependencies
  BY DEF IInv, Scan, EndScan, graph
<1>2. /\ Initial' = Initial /\ Paired' /\ MergedIsThreeWay'
  BY <1>1, SameInputs, SamePairs, SameTree
<1>3. CASE Scan
  <2>1. /\ phase' = "scan" /\ okToBreakCycle' = MayBreakCycle /\ todo' = changes
        /\ removedSomeDependencies' = FALSE
    BY <1>3 DEF Scan
  <2>2. MayBreakCycle \subseteq changes
    BY DEF MayBreakCycle
  <2>3. TypeOK' /\ Scanned'
    BY <1>1, <2>1, <2>2 DEF TypeOK, Scanned, inputs
  <2> QED BY <1>1, <1>2, <2>3 DEF IInv
<1>4. CASE EndScan
  <2>1. /\ phase' \in {"apply", "done"} /\ todo = {}
        /\ UNCHANGED <<okToBreakCycle, todo, removedSomeDependencies>>
    BY <1>4 DEF EndScan, scan
  <2>2. TypeOK' /\ Scanned'
    BY <1>1, <2>1 DEF TypeOK, Scanned, inputs
  <2> QED BY <1>1, <1>2, <2>2 DEF IInv
<1> QED BY <1>3, <1>4

LEMMA StutterStep ==
  ASSUME IInv, UNCHANGED vars
  PROVE  IInv'
<1>1. /\ TypeOK /\ MergedIsThreeWay /\ changes \subseteq Initial /\ Paired /\ Scanned
      /\ UNCHANGED <<inputs, merged, changes>> /\ UNCHANGED <<inputs, directConflicts>>
      /\ UNCHANGED inputs
  BY DEF IInv, vars, graph
<1>2. /\ Initial' = Initial /\ Paired' /\ MergedIsThreeWay'
  BY <1>1, SameInputs, SamePairs, SameTree
<1>3. TypeOK' /\ Scanned'
  BY <1>1 DEF TypeOK, Scanned, inputs, vars, graph, scan
<1> QED BY <1>1, <1>2, <1>3 DEF IInv

-----------------------------------------------------------------------------
(***************************************************************************)
(* The graph keeps its shape, and no change of place or content is lost,   *)
(* applied in part or over another: ChangeGraph::applyChange with whatever *)
(* order and whatever cycles are broken before.                            *)
(***************************************************************************)
THEOREM GraphInvariant == Spec => []IInv
<1>1. IInv /\ [Next]_vars => IInv'
  BY ApplyStep, BreakStep, ScanStep, StutterStep DEF Next
<1> QED BY <1>1, IInvInit, PTL DEF Spec

(* Every variable of the merge has its type; what is left of the graph is  *)
(* about changes that are left.                                            *)
THEOREM TypeCorrect == Spec => []TypeOK
<1>1. IInv => TypeOK
  BY DEF IInv
<1> QED BY <1>1, GraphInvariant, PTL

(* At any time of the merge every node is where the three-way merge of its *)
(* line puts it, or where the base had it if a change of it is left.       *)
THEOREM MergedThreeWay == Spec => []MergedIsThreeWay
<1>1. IInv => MergedIsThreeWay
  BY DEF IInv
<1> QED BY <1>1, GraphInvariant, PTL

-----------------------------------------------------------------------------
(***************************************************************************)
(* The changes of two trees: what a change says of the branches it is of.  *)
(***************************************************************************)
Trees3 ==
  /\ Inputs3
  /\ IsTree(base) /\ IsTree(branchA) /\ IsTree(branchB)

(* Nodes that are new have new ids: they are inserted by one branch, or    *)
(* below the same parent by both.                                          *)
NewNodesAgree ==
  \A i \in Inputs : \A n \in (Nodes(i.branchA) \cap Nodes(i.branchB)) \ Nodes(i.base) :
    i.branchA[n].parent = i.branchB[n].parent

NewAgree ==
  \A n \in (Nodes(branchA) \cap Nodes(branchB)) \ Nodes(base) :
    branchA[n].parent = branchB[n].parent

LEMMA TreesOfBranches ==
  ASSUME Trees3, NEW b \in {"A", "B"}
  PROVE  Branch(b) \in Trees /\ IsTree(Branch(b)) /\ base \in Trees /\ IsTree(base)
BY DEF Trees3, Inputs3, Branch

LEMMA OfBranch ==
  ASSUME Trees3, NEW c \in Initial, c.content = FALSE, NEW b \in c.branches
  PROVE  /\ b \in {"A", "B"} /\ c.node \in Id /\ IsPlaceChange(c)
         /\ c.from = Placed(base[c.node]) /\ c.to = Placed(Branch(b)[c.node])
         /\ c.from # c.to
<1>1. Inputs3
  BY DEF Trees3
<1>2. ~IsContentChange(c)
  BY DEF IsContentChange
<1>3. IsPlaceChange(c) /\ b \in {"A", "B"}
  BY <1>1, <1>2, InitialShape
<1>4. b = "A" => Is(c, base, branchA)
  BY <1>1, InitialShape
<1>5. b = "B" => Is(c, base, branchB)
  BY <1>1, InitialShape
<1>6. Is(c, base, Branch(b))
  BY <1>3, <1>4, <1>5 DEF Branch
<1> QED BY <1>3, <1>6, ShapeDomain DEF Is

LEMMA SomeBranch ==
  ASSUME Trees3, NEW c \in Initial
  PROVE  \E b \in c.branches : TRUE
<1>1. c.branches \in {{"A"}, {"B"}, {"A", "B"}}
  BY InitialShape DEF Trees3
<1> QED BY <1>1

(* The lines of a node before and after a change of its place.             *)
LEMMA ChangeLines ==
  ASSUME Trees3, NEW c \in Initial, c.content = FALSE, NEW b \in c.branches
  PROVE  /\ c.from = Absent <=> c.node \notin Nodes(base)
         /\ c.to = Absent <=> c.node \notin Nodes(Branch(b))
         /\ c.from # Absent => /\ c.from \in Line /\ c.from.parent = base[c.node].parent
                               /\ c.from.label = base[c.node].label
         /\ c.to # Absent => /\ c.to \in Line /\ c.to.parent = Branch(b)[c.node].parent
                             /\ c.to.label = Branch(b)[c.node].label
<1>1. /\ b \in {"A", "B"} /\ c.node \in Id /\ IsPlaceChange(c)
      /\ c.from = Placed(base[c.node]) /\ c.to = Placed(Branch(b)[c.node])
  BY OfBranch
<1>2. /\ base[c.node] \in AnyLine /\ Branch(b)[c.node] \in AnyLine
      /\ (c.node \in Nodes(base) <=> base[c.node] # Absent)
      /\ (c.node \in Nodes(Branch(b)) <=> Branch(b)[c.node] # Absent)
  BY <1>1, TreesOfBranches, TreeLine
<1>3. c.from \in AnyLine /\ c.to \in AnyLine
  BY <1>1 DEF IsPlaceChange
<1>4. /\ c.from = Absent <=> base[c.node] = Absent
      /\ base[c.node] # Absent => c.from.parent = base[c.node].parent /\ c.from.label = base[c.node].label
  BY <1>1, <1>2, PlacedLine
<1>5. /\ c.to = Absent <=> Branch(b)[c.node] = Absent
      /\ Branch(b)[c.node] # Absent => /\ c.to.parent = Branch(b)[c.node].parent
                                       /\ c.to.label = Branch(b)[c.node].label
  BY <1>1, <1>2, PlacedLine
<1> QED BY <1>2, <1>3, <1>4, <1>5 DEF AnyLine

(* The type of a change of the place of a node.                            *)
LEMMA ChangeTypes ==
  ASSUME Trees3, NEW c \in Initial, c.content = FALSE
  PROVE  \/ /\ c.type = "Insertion" /\ c.from = Absent /\ c.to \in Line /\ c.to # Absent
            /\ c.label = FALSE /\ NewParent(c) = c.to.parent /\ OldParent(c) = Absent
         \/ /\ c.type = "Deletion" /\ c.from \in Line /\ c.from # Absent /\ c.to = Absent
            /\ c.label = FALSE /\ OldParent(c) = c.from.parent /\ NewParent(c) = Absent
         \/ /\ c.type = "Move" /\ c.from \in Line /\ c.to \in Line
            /\ c.from # Absent /\ c.to # Absent
            /\ NewParent(c) = c.to.parent /\ OldParent(c) = c.from.parent
            /\ c.from.parent # c.to.parent
         \/ /\ c.type = "Stationary" /\ c.from \in Line /\ c.to \in Line
            /\ c.from # Absent /\ c.to # Absent
            /\ NewParent(c) = c.to.parent /\ OldParent(c) = c.from.parent
            /\ c.from.parent = c.to.parent /\ c.label = TRUE
<1>1. PICK b \in c.branches : TRUE
  BY SomeBranch
<1>2. /\ IsPlaceChange(c) /\ c.node \in Id /\ b \in {"A", "B"}
      /\ c.from = Placed(base[c.node]) /\ c.to = Placed(Branch(b)[c.node])
      /\ c.from # c.to
  BY OfBranch
<1>3. base[c.node] \in AnyLine /\ Branch(b)[c.node] \in AnyLine
  BY <1>2, TreesOfBranches, TreeLine
<1>4. Absent \notin Line
  BY AbsentAssumption
<1>5. CASE c.type = "Insertion" /\ c.from = Absent /\ c.to \in Line /\ c.label = FALSE
  BY <1>4, <1>5 DEF NewParent, OldParent
<1>6. CASE c.type = "Deletion" /\ c.from \in Line /\ c.to = Absent /\ c.label = FALSE
  BY <1>4, <1>6 DEF NewParent, OldParent
<1>7. CASE /\ c.type \in {"Move", "Stationary"} /\ c.from \in Line /\ c.to \in Line
           /\ c.label = (c.from.label # c.to.label)
  <2>1. c.from # Absent /\ c.to # Absent
    BY <1>4, <1>7
  <2>2. NewParent(c) = c.to.parent /\ OldParent(c) = c.from.parent
    BY <2>1 DEF NewParent, OldParent
  <2>3. c.type = ChangeType(c.from, c.to)
    BY <1>2 DEF IsPlaceChange
  <2>4. CASE c.type = "Move"
    <3>1. c.from.parent # c.to.parent
      BY <2>1, <2>3, <2>4 DEF ChangeType
    <3> QED BY <1>7, <2>1, <2>2, <2>4, <3>1
  <2>5. CASE c.type = "Stationary"
    <3>1. c.from.parent = c.to.parent
      BY <2>1, <2>3, <2>5 DEF ChangeType
    <3>2. c.from.label # c.to.label
      <4>1. c.from = Placed(c.from) /\ c.to = Placed(c.to)
        BY <1>2, <1>3, PlacedTwice
      <4> QED BY <1>2, <1>7, <3>1, <4>1, SamePlace
    <3> QED BY <1>7, <2>1, <2>2, <2>5, <3>1, <3>2
  <2> QED BY <1>7, <2>4, <2>5
<1> QED BY <1>2, <1>5, <1>6, <1>7, PlaceChangeTypes

(* Whatever a branch did to the place of a node is a change of it.         *)
LEMMA PlaceChanged ==
  ASSUME Trees3, NEW n \in Id, NEW b \in {"A", "B"}, Placed(base[n]) # Placed(Branch(b)[n])
  PROVE  \E d \in Initial : d.node = n /\ d.content = FALSE /\ b \in d.branches
<1>1. Inputs3
  BY DEF Trees3
<1>2. CASE b = "A"
  <2>1. Branch(b) = branchA
    BY <1>2 DEF Branch
  <2> QED BY <1>1, <1>2, <2>1, BranchesComplete
<1>3. CASE b = "B"
  <2>1. Branch(b) = branchB
    BY <1>3 DEF Branch
  <2> QED BY <1>1, <1>3, <2>1, BranchesComplete
<1> QED BY <1>2, <1>3

(* Changes of different branches conflict.                                 *)
LEMMA ConflictsOf ==
  ASSUME Trees3, NEW c \in Initial, NEW d \in Initial, c.branches \cap d.branches = {},
         DirectConflict(c, d), DirectConflict(d, c)
  PROVE  <<c, d>> \in Conflicts(Initial) /\ <<d, c>> \in Conflicts(Initial)
<1> DEFINE later == {e \in Initial \X Initial : /\ e[1].branches = {"B"} /\ "A" \in e[2].branches
                                                /\ DirectConflict(e[1], e[2])}
<1>1. c.branches \in {{"A"}, {"B"}, {"A", "B"}} /\ d.branches \in {{"A"}, {"B"}, {"A", "B"}}
  BY InitialShape DEF Trees3
<1>2. \/ c.branches = {"B"} /\ "A" \in d.branches
      \/ d.branches = {"B"} /\ "A" \in c.branches
  BY <1>1
<1>3. <<c, d>> \in later \/ <<d, c>> \in later
  BY <1>2
<1>4. later \subseteq Conflicts(Initial)
  BY DEF Conflicts
<1> QED BY <1>3, <1>4, ConflictsPaired

(* An insertion or a move is not below a node that its branch deletes.     *)
LEMMA NotBelowDeleted ==
  ASSUME Trees3, NEW c \in Initial, NEW d \in Initial, c.content = FALSE, d.content = FALSE,
         c.type = "Deletion", d.type \in {"Insertion", "Move"}, NewParent(d) = c.node
  PROVE  <<c, d>> \in Conflicts(Initial) /\ <<d, c>> \in Conflicts(Initial)
<1>1. c.to = Absent /\ d.to \in Line /\ d.to # Absent /\ NewParent(d) = d.to.parent
  BY ChangeTypes
<1>2. ASSUME NEW b \in c.branches, b \in d.branches PROVE FALSE
  <2>1. /\ b \in {"A", "B"} /\ c.node \in Id /\ d.node \in Id
        /\ c.node \notin Nodes(Branch(b)) /\ d.node \in Nodes(Branch(b))
        /\ d.to.parent = Branch(b)[d.node].parent
    BY <1>1, <1>2, OfBranch, ChangeLines
  <2>2. Branch(b)[d.node].parent \in Nodes(Branch(b)) \cup {RootId}
    BY <2>1, TreesOfBranches DEF IsTree, Rooted
  <2> QED BY <1>1, <2>1, <2>2, RootAssumption
<1>3. DirectConflict(c, d) /\ DirectConflict(d, c)
  BY DEF DirectConflict, DeleteNonEmptyTreeConflict, InsertOrMoveToDeletedConflict
<1> QED BY <1>2, <1>3, ConflictsOf

-----------------------------------------------------------------------------
(***************************************************************************)
(* The dependencies the graph starts with.                                 *)
(***************************************************************************)
Needs == Dependencies(Initial, base)

LEMMA NeedsCases ==
  ASSUME NEW c, NEW d
  PROVE  <<c, d>> \in Needs <=>
           /\ c \in Initial /\ d \in Initial
           /\ \/ ParentPresentDependency(c, d)
              \/ ChildrenRemovedDependency(c, d)
              \/ LabelDependency(c, d)
              \/ MoveDependency(Initial, base, c, d)
BY DEF Needs, Dependencies

LEMMA ContentIsStationary ==
  ASSUME Trees3, NEW c \in Initial
  PROVE  /\ c.content \in BOOLEAN
         /\ c.content = TRUE => c.type = "Stationary" /\ c.label = FALSE
<1>1. IsPlaceChange(c) \/ IsContentChange(c)
  BY InitialShape DEF Trees3
<1> QED BY <1>1, ShapeDomain DEF IsPlaceChange, IsContentChange

(* Only changes of places need one another.                                *)
LEMMA NeedsPlaces ==
  ASSUME Trees3, NEW c, NEW d, <<c, d>> \in Needs
  PROVE  c \in Initial /\ d \in Initial /\ c.content = FALSE /\ d.content = FALSE
<1>1. c \in Initial /\ d \in Initial
  BY NeedsCases
<1>2. c.content = TRUE => c.type = "Stationary" /\ c.label = FALSE
  BY <1>1, ContentIsStationary
<1>3. d.content = TRUE => d.type = "Stationary" /\ d.label = FALSE
  BY <1>1, ContentIsStationary
<1>4. \/ c.type \in {"Insertion", "Move", "Deletion"}
      \/ c.label
  BY NeedsCases DEF ParentPresentDependency, ChildrenRemovedDependency, LabelDependency, MoveDependency
<1>5. \/ d.type \in {"Insertion", "Move", "Deletion"}
      \/ d.label
  BY NeedsCases DEF ParentPresentDependency, ChildrenRemovedDependency, LabelDependency, MoveDependency
<1> QED BY <1>1, <1>2, <1>3, <1>4, <1>5, ContentIsStationary

(* What a deletion, and an insertion, need.                                *)
LEMMA DeletionNeeds ==
  ASSUME Trees3, NEW c, NEW d, <<c, d>> \in Needs, c.type = "Deletion"
  PROVE  d.type \in {"Deletion", "Move"} /\ OldParent(d) = c.node
<1>1. c \in Initial /\ c.content = FALSE
  BY NeedsPlaces
<1>2. c.label = FALSE
  BY <1>1, ChangeTypes
<1> QED BY <1>2, NeedsCases
        DEF ParentPresentDependency, ChildrenRemovedDependency, LabelDependency, MoveDependency

LEMMA InsertionNeeds ==
  ASSUME Trees3, NEW c, NEW d, <<c, d>> \in Needs, d.type = "Insertion"
  PROVE  c.type \in {"Insertion", "Move"} /\ d.node = NewParent(c)
<1>1. d \in Initial /\ d.content = FALSE
  BY NeedsPlaces
<1>2. d.from = Absent
  BY <1>1, ChangeTypes
<1> QED BY <1>2, NeedsCases
        DEF ParentPresentDependency, ChildrenRemovedDependency, LabelDependency, MoveDependency

-----------------------------------------------------------------------------
(***************************************************************************)
(* The way up.                                                             *)
(***************************************************************************)
UpEdges == Up(Initial, base)

Place == Id \cup {RootId}

LEMMA UpEdgeCases ==
  ASSUME NEW e \in UpEdges
  PROVE  /\ e = <<e[1], e[2]>>
         /\ \/ e[1] \in Nodes(base) /\ e[2] = base[e[1]].parent
            \/ \E d \in Initial : d.type = "Insertion" /\ d.node = e[1] /\ e[2] = NewParent(d)
BY DEF UpEdges, Up

LEMMA UpOfBase ==
  ASSUME NEW n \in Nodes(base)
  PROVE  <<n, base[n].parent>> \in UpEdges
BY DEF UpEdges, Up

LEMMA UpOfInserted ==
  ASSUME NEW d \in Initial, d.type = "Insertion"
  PROVE  <<d.node, NewParent(d)>> \in UpEdges
BY DEF UpEdges, Up

(* An inserted node is below what its branch puts it below.                *)
LEMMA InsertedLine ==
  ASSUME Trees3, NEW d \in Initial, d.type = "Insertion", NEW b \in d.branches
  PROVE  /\ d.content = FALSE /\ d.node \in Id /\ b \in {"A", "B"}
         /\ d.node \notin Nodes(base) /\ d.node \in Nodes(Branch(b))
         /\ NewParent(d) = Branch(b)[d.node].parent
         /\ NewParent(d) \in Nodes(Branch(b)) \cup {RootId}
<1>1. d.content = FALSE
  BY ContentIsStationary
<1>2. d.from = Absent /\ d.to # Absent /\ NewParent(d) = d.to.parent
  BY <1>1, ChangeTypes
<1>3. b \in {"A", "B"} /\ d.node \in Id
  BY <1>1, OfBranch
<1>4. /\ d.node \notin Nodes(base) /\ d.node \in Nodes(Branch(b))
      /\ NewParent(d) = Branch(b)[d.node].parent
  BY <1>1, <1>2, ChangeLines
<1>5. NewParent(d) \in Nodes(Branch(b)) \cup {RootId}
  BY <1>3, <1>4, TreesOfBranches DEF IsTree, Rooted
<1> QED BY <1>1, <1>3, <1>4, <1>5

LEMMA NodesAreIds == \A t : Nodes(t) \subseteq Id
BY DEF Nodes

LEMMA BaseParent ==
  ASSUME Trees3, NEW n \in Nodes(base)
  PROVE  base[n].parent \in Nodes(base) \cup {RootId}
BY DEF Trees3, IsTree, Rooted

LEMMA UpWithin ==
  ASSUME Trees3
  PROVE  UpEdges \subseteq Place \X Place
<1> SUFFICES ASSUME NEW e \in UpEdges PROVE e \in Place \X Place
  OBVIOUS
<1>1. e[1] \in Place /\ e[2] \in Place
  <2>1. CASE e[1] \in Nodes(base) /\ e[2] = base[e[1]].parent
    BY <2>1, BaseParent, NodesAreIds DEF Place
  <2>2. CASE \E d \in Initial : d.type = "Insertion" /\ d.node = e[1] /\ e[2] = NewParent(d)
    <3>1. PICK d \in Initial : d.type = "Insertion" /\ d.node = e[1] /\ e[2] = NewParent(d)
      BY <2>2
    <3>2. PICK b \in d.branches : TRUE
      BY SomeBranch
    <3> QED BY <3>1, <3>2, InsertedLine, NodesAreIds DEF Place
  <2> QED BY <2>1, <2>2, UpEdgeCases
<1> QED BY <1>1, UpEdgeCases

(* Up there is one way. *)
LEMMA UpSingle ==
  ASSUME Trees3, NewAgree
  PROVE  Single(UpEdges)
<1> SUFFICES ASSUME NEW e \in UpEdges, NEW f \in UpEdges, e[1] = f[1] PROVE e[2] = f[2]
  BY DEF Single
<1>1. ASSUME NEW d \in Initial, d.type = "Insertion" PROVE d.node \notin Nodes(base)
  <2>1. PICK b \in d.branches : TRUE
    BY SomeBranch
  <2> QED BY <1>1, <2>1, InsertedLine
<1>2. ASSUME NEW c \in Initial, NEW d \in Initial, c.type = "Insertion", d.type = "Insertion",
             c.node = d.node
      PROVE  NewParent(c) = NewParent(d)
  <2>1. PICK b \in c.branches : TRUE
    BY SomeBranch
  <2>2. PICK k \in d.branches : TRUE
    BY SomeBranch
  <2>3. /\ b \in {"A", "B"} /\ c.node \in Nodes(Branch(b)) /\ c.node \notin Nodes(base)
        /\ NewParent(c) = Branch(b)[c.node].parent
    BY <1>2, <2>1, InsertedLine
  <2>4. /\ k \in {"A", "B"} /\ d.node \in Nodes(Branch(k))
        /\ NewParent(d) = Branch(k)[d.node].parent
    BY <1>2, <2>2, InsertedLine
  <2>5. CASE b = k
    BY <1>2, <2>3, <2>4, <2>5
  <2>6. CASE b = "A" /\ k = "B"
    BY <1>2, <2>3, <2>4, <2>6 DEF NewAgree, Branch
  <2>7. CASE b = "B" /\ k = "A"
    BY <1>2, <2>3, <2>4, <2>7 DEF NewAgree, Branch
  <2> QED BY <2>3, <2>4, <2>5, <2>6, <2>7
<1> QED BY <1>1, <1>2, UpEdgeCases

(* And no way round. *)
LEMMA UpNoRing ==
  ASSUME Trees3, NewAgree
  PROVE  NoRing(UpEdges)
<1> SUFFICES ASSUME NEW S, S # {}, \A x \in S : \E e \in UpEdges : e[1] = x /\ e[2] \in S
             PROVE  FALSE
  BY DEF NoRing
<1>1. S \subseteq Place
  BY UpWithin
<1>2. ASSUME NEW t, Rooted(t), NEW T \in SUBSET Nodes(t), T # {}, \A x \in T : t[x].parent \in T
      PROVE  FALSE
  BY <1>2 DEF Rooted
<1>3. ASSUME NEW x \in S, x \in Nodes(base) PROVE base[x].parent \in S
  <2>1. PICK e \in UpEdges : e[1] = x /\ e[2] \in S
    OBVIOUS
  <2>2. <<x, base[x].parent>> \in UpEdges
    BY <1>3, UpOfBase
  <2>3. e[2] = base[x].parent
    BY <2>1, <2>2, UpSingle DEF Single
  <2> QED BY <2>1, <2>3
<1>4. RootId \notin S
  <2> SUFFICES ASSUME RootId \in S PROVE FALSE
    OBVIOUS
  <2>1. PICK e \in UpEdges : e[1] = RootId
    OBVIOUS
  <2>2. CASE RootId \in Nodes(base)
    BY <2>2, RootAssumption, NodesAreIds
  <2>3. CASE \E d \in Initial : d.type = "Insertion" /\ d.node = RootId
    <3>1. PICK d \in Initial : d.type = "Insertion" /\ d.node = RootId
      BY <2>3
    <3>2. PICK b \in d.branches : TRUE
      BY SomeBranch
    <3> QED BY <3>1, <3>2, InsertedLine, RootAssumption
  <2> QED BY <2>1, <2>2, <2>3, UpEdgeCases
<1>5. \A x \in S : x \notin Nodes(base)
  <2> SUFFICES ASSUME NEW x \in S, x \in Nodes(base) PROVE FALSE
    OBVIOUS
  <2> DEFINE T == S \cap Nodes(base)
  <2>1. \A y \in T : base[y].parent \in T
    BY <1>3, <1>4, BaseParent
  <2>2. T # {} /\ T \in SUBSET Nodes(base)
    OBVIOUS
  <2> QED BY <1>2, <2>1, <2>2 DEF Trees3, IsTree
<1>6. PICK x \in S : TRUE
  OBVIOUS
<1>7. PICK c \in Initial : c.type = "Insertion" /\ c.node = x
  BY <1>5, UpEdgeCases
<1>8. PICK b \in c.branches : TRUE
  BY SomeBranch
<1> DEFINE T == S \cap Nodes(Branch(b))
<1>9. x \in T /\ b \in {"A", "B"}
  BY <1>6, <1>7, <1>8, InsertedLine
<1>10. ASSUME NEW y \in T PROVE Branch(b)[y].parent \in T
  <2>1. PICK e \in UpEdges : e[1] = y /\ e[2] \in S
    OBVIOUS
  <2>2. y \in Nodes(Branch(b)) /\ y \notin Nodes(base) /\ y \in Id
    BY <1>5, NodesAreIds
  <2>3. Placed(base[y]) # Placed(Branch(b)[y])
    <3>1. base[y] = Absent /\ Branch(b)[y] # Absent
      BY <2>2 DEF Nodes
    <3>2. base[y] \in AnyLine /\ Branch(b)[y] \in AnyLine
      BY <1>9, <2>2, TreesOfBranches, TreeLine
    <3> QED BY <3>1, <3>2, PlacedLine
  <2>4. PICK d \in Initial : d.node = y /\ d.content = FALSE /\ b \in d.branches
    BY <1>9, <2>2, <2>3, PlaceChanged
  <2>5. d.type = "Insertion"
    <3>1. d.from = Absent
      BY <2>2, <2>4, ChangeLines
    <3> QED BY <2>4, <3>1, ChangeTypes
  <2>6. /\ <<y, NewParent(d)>> \in UpEdges /\ NewParent(d) = Branch(b)[y].parent
        /\ NewParent(d) \in Nodes(Branch(b)) \cup {RootId}
    BY <2>4, <2>5, UpOfInserted, InsertedLine
  <2>7. e[2] = NewParent(d)
    BY <2>1, <2>6, UpSingle DEF Single
  <2> QED BY <1>4, <2>1, <2>6, <2>7
<1>11. IsTree(Branch(b))
  BY <1>9, TreesOfBranches
<1> HIDE DEF T
<1>12. T # {} /\ T \in SUBSET Nodes(Branch(b))
  BY <1>9 DEF T
<1> QED BY <1>2, <1>10, <1>11, <1>12 DEF IsTree

-----------------------------------------------------------------------------
(***************************************************************************)
(* Changes that need one another in a ring.  Insertions, deletions and     *)
(* moves of one branch cannot: the branch, or the base, would not be a     *)
(* tree.                                                                   *)
(***************************************************************************)
LEMMA NoInsertionRing ==
  ASSUME Trees3, NEW Y \in SUBSET Initial, Y # {}, NEW b, \A c \in Y : b \in c.branches,
         \A c \in Y : c.type = "Insertion" /\ \E d \in Y : d.node = NewParent(c)
  PROVE  FALSE
<1> DEFINE T == {c.node : c \in Y}
<1>1. ASSUME NEW n \in T PROVE n \in Nodes(Branch(b)) /\ Branch(b)[n].parent \in T /\ b \in {"A", "B"}
  <2>1. PICK c \in Y : c.node = n
    OBVIOUS
  <2>2. PICK d \in Y : d.node = NewParent(c)
    OBVIOUS
  <2>3. /\ b \in {"A", "B"} /\ c.node \in Nodes(Branch(b))
        /\ NewParent(c) = Branch(b)[c.node].parent
    BY InsertedLine
  <2>4. d.node \in T
    OBVIOUS
  <2> HIDE DEF T
  <2> QED BY <2>1, <2>2, <2>3, <2>4
<1>2. T # {}
  OBVIOUS
<1> HIDE DEF T
<1>3. b \in {"A", "B"} /\ T \in SUBSET Nodes(Branch(b))
  BY <1>1, <1>2
<1> QED BY <1>1, <1>2, <1>3, TreesOfBranches DEF IsTree, Rooted

LEMMA NoDeletionRing ==
  ASSUME Trees3, NEW Y \in SUBSET Initial, Y # {},
         \A c \in Y : c.type = "Deletion" /\ \E d \in Y : OldParent(c) = d.node
  PROVE  FALSE
<1> DEFINE T == {c.node : c \in Y}
<1>1. ASSUME NEW n \in T PROVE n \in Nodes(base) /\ base[n].parent \in T
  <2>1. PICK c \in Y : c.node = n
    OBVIOUS
  <2>2. PICK d \in Y : OldParent(c) = d.node
    OBVIOUS
  <2>3. PICK b \in c.branches : TRUE
    BY SomeBranch
  <2>4. c.content = FALSE
    BY ContentIsStationary
  <2>5. c.from # Absent /\ OldParent(c) = c.from.parent
    BY <2>4, ChangeTypes
  <2>6. c.node \in Nodes(base) /\ c.from.parent = base[c.node].parent
    BY <2>3, <2>4, <2>5, ChangeLines
  <2>7. d.node \in T
    OBVIOUS
  <2> HIDE DEF T
  <2> QED BY <2>1, <2>2, <2>5, <2>6, <2>7
<1>2. T # {}
  OBVIOUS
<1> HIDE DEF T
<1>3. T \in SUBSET Nodes(base)
  BY <1>1
<1> QED BY <1>1, <1>2, <1>3 DEF Trees3, IsTree, Rooted

(* The move that a move waits for is on its way up, and no other is below. *)
LEMMA MoveNeeds ==
  ASSUME NEW c, NEW d, MoveDependency(Initial, base, c, d)
  PROVE  /\ c.type = "Move" /\ d.type = "Move"
         /\ d.node \in Reachable(UpEdges, Place, NewParent(c))
         /\ Reachable(UpEdges, Place, NewParent(c)) \cap Moved(Initial)
              \subseteq Reachable(UpEdges, Place, d.node)
BY DEF MoveDependency, Ancestors, UpEdges, Place

LEMMA MovedLine ==
  ASSUME Trees3, NEW c \in Initial, c.type = "Move", NEW b \in c.branches
  PROVE  /\ c.content = FALSE /\ c.node \in Id /\ b \in {"A", "B"}
         /\ c.node \in Nodes(base) /\ c.node \in Nodes(Branch(b))
         /\ NewParent(c) = Branch(b)[c.node].parent /\ OldParent(c) = base[c.node].parent
         /\ NewParent(c) # OldParent(c)
         /\ NewParent(c) \in Nodes(Branch(b)) \cup {RootId}
         /\ c.node \in Moved(Initial)
<1>1. c.content = FALSE
  BY ContentIsStationary
<1>2. /\ c.from # Absent /\ c.to # Absent /\ NewParent(c) = c.to.parent
      /\ OldParent(c) = c.from.parent /\ c.from.parent # c.to.parent
  BY <1>1, ChangeTypes
<1>3. b \in {"A", "B"} /\ c.node \in Id
  BY <1>1, OfBranch
<1>4. /\ c.node \in Nodes(base) /\ c.node \in Nodes(Branch(b))
      /\ NewParent(c) = Branch(b)[c.node].parent /\ OldParent(c) = base[c.node].parent
  BY <1>1, <1>2, ChangeLines
<1>5. NewParent(c) \in Nodes(Branch(b)) \cup {RootId}
  BY <1>3, <1>4, TreesOfBranches DEF IsTree, Rooted
<1>6. c.node \in Moved(Initial)
  BY DEF Moved
<1> QED BY <1>1, <1>2, <1>3, <1>4, <1>5, <1>6

(* A node that a branch has, and nobody moves, is below what is up there.  *)
LEMMA NotMoved ==
  ASSUME Trees3, NEW b \in {"A", "B"}, NEW n \in Nodes(Branch(b)), n \notin Moved(Initial)
  PROVE  <<n, Branch(b)[n].parent>> \in UpEdges
<1>1. /\ n \in Id /\ base[n] \in AnyLine /\ Branch(b)[n] \in AnyLine /\ Branch(b)[n] # Absent
      /\ (n \in Nodes(base) <=> base[n] # Absent)
  BY TreesOfBranches, TreeLine, NodesAreIds DEF Nodes
<1>2. CASE Placed(base[n]) = Placed(Branch(b)[n])
  <2>1. base[n] # Absent /\ base[n].parent = Branch(b)[n].parent
    <3>1. base[n] # Absent
      BY <1>1, <1>2, PlacedLine
    <3>2. base[n] \in Line /\ Branch(b)[n] \in Line
      BY <1>1, <3>1 DEF AnyLine
    <3> QED BY <1>2, <3>1, <3>2, SamePlace
  <2> QED BY <1>1, <2>1, UpOfBase
<1>3. CASE Placed(base[n]) # Placed(Branch(b)[n])
  <2>1. PICK d \in Initial : d.node = n /\ d.content = FALSE /\ b \in d.branches
    BY <1>1, <1>3, PlaceChanged
  <2>2. d.to # Absent /\ d.to.parent = Branch(b)[n].parent
    BY <2>1, ChangeLines
  <2>3. d.type # "Move"
    BY <2>1 DEF Moved
  <2>4. CASE d.type = "Insertion"
    BY <2>1, <2>4, UpOfInserted, InsertedLine
  <2>5. CASE /\ d.from # Absent /\ d.from.parent = d.to.parent
    <3>1. n \in Nodes(base) /\ d.from.parent = base[n].parent
      BY <2>1, <2>5, ChangeLines
    <3> QED BY <2>2, <2>5, <3>1, UpOfBase
  <2> QED BY <2>1, <2>2, <2>3, <2>4, <2>5, ChangeTypes
<1> QED BY <1>2, <1>3

(* Nothing is above the root. *)
LEMMA RootIsTop ==
  ASSUME Trees3, NEW n, n \in Reachable(UpEdges, Place, RootId)
  PROVE  n = RootId
<1> SUFFICES ASSUME n # RootId PROVE FALSE
  OBVIOUS
<1>1. UpEdges \subseteq Place \X Place /\ RootId \in Place
  BY UpWithin DEF Place
<1>2. PICK e \in UpEdges : e[1] = RootId
  BY <1>1, ReachFirst
<1>3. CASE RootId \in Nodes(base)
  BY <1>3, NodesAreIds, RootAssumption
<1>4. CASE \E f \in Initial : f.type = "Insertion" /\ f.node = RootId
  BY <1>4, SomeBranch, InsertedLine, RootAssumption
<1> QED BY <1>2, <1>3, <1>4, UpEdgeCases

LEMMA NoMoveRing ==
  ASSUME Trees3, NewAgree, NEW Y \in SUBSET Initial, Y # {}, NEW b, \A c \in Y : b \in c.branches,
         \A c \in Y : \E d \in Y : MoveDependency(Initial, base, c, d)
  PROVE  FALSE
<1> DEFINE R(n) == Reachable(UpEdges, Place, n)
           On(c, d, n) == MoveDependency(Initial, base, c, d) /\ n \in R(NewParent(c)) /\ d.node \in R(n)
           T == {n \in Nodes(Branch(b)) : \E c, d \in Y : On(c, d, n)}
<1>1. \A c \in Y : c.type = "Move" /\ b \in c.branches /\ c \in Initial
  BY MoveNeeds
<1>2. b \in {"A", "B"}
  BY <1>1, MovedLine
<1>3. UpEdges \subseteq Place \X Place /\ NoRing(UpEdges) /\ Single(UpEdges)
  BY UpWithin, UpNoRing, UpSingle
<1>4. ASSUME NEW c \in Y PROVE NewParent(c) \in T
  <2>1. PICK d \in Y : MoveDependency(Initial, base, c, d)
    OBVIOUS
  <2>2. NewParent(c) \in Nodes(Branch(b)) \cup {RootId} /\ NewParent(c) \in Place
    BY <1>1, MovedLine, NodesAreIds DEF Place
  <2>3. NewParent(c) \in R(NewParent(c)) /\ d.node \in R(NewParent(c))
    BY <2>1, <2>2, ReachStart, MoveNeeds
  <2>4. NewParent(c) # RootId
    <3>1. d.node # RootId
      BY <1>1, MovedLine, RootAssumption
    <3> QED BY <2>3, <3>1, RootIsTop
  <2> QED BY <2>1, <2>2, <2>3, <2>4
<1>5. ASSUME NEW n \in T PROVE Branch(b)[n].parent \in T
  <2>1. PICK c \in Y, d \in Y : On(c, d, n)
    OBVIOUS
  <2>2. n \in Nodes(Branch(b)) /\ n \in Place /\ NewParent(c) \in Place /\ d.node \in Place
    BY <1>1, <1>2, MovedLine, NodesAreIds DEF Place
  <2>3. CASE n = d.node
    <3>1. NewParent(d) = Branch(b)[n].parent
      BY <1>1, <2>3, MovedLine
    <3> QED BY <1>4, <3>1
  <2>4. CASE n # d.node
    <3>1. n \notin Moved(Initial)
      <4> SUFFICES ASSUME n \in Moved(Initial) PROVE FALSE
        OBVIOUS
      <4>1. n \in R(d.node)
        BY <2>1, MoveNeeds
      <4> QED BY <1>3, <2>1, <2>2, <2>4, <4>1, NoWayRound
    <3>2. <<n, Branch(b)[n].parent>> \in UpEdges
      BY <1>2, <2>2, <3>1, NotMoved
    <3>3. Branch(b)[n].parent \in R(NewParent(c))
      BY <1>3, <2>1, <2>2, <3>2, ReachEdge
    <3>4. PICK e \in UpEdges : e[1] = n /\ d.node \in R(e[2])
      BY <1>3, <2>1, <2>2, <2>4, ReachFirst
    <3>5. e[2] = Branch(b)[n].parent
      BY <1>3, <3>2, <3>4 DEF Single
    <3>6. On(c, d, Branch(b)[n].parent)
      BY <2>1, <3>3, <3>4, <3>5
    <3>7. Branch(b)[n].parent \in Nodes(Branch(b)) \cup {RootId}
      BY <1>2, <2>2, TreesOfBranches DEF IsTree, Rooted
    <3>8. Branch(b)[n].parent # RootId
      <4>1. d.node # RootId
        BY <1>1, MovedLine, RootAssumption
      <4> QED BY <3>4, <3>5, <4>1, RootIsTop
    <3> QED BY <3>6, <3>7, <3>8
  <2> QED BY <2>3, <2>4
<1>6. T # {}
  BY <1>4
<1>7. T \in SUBSET Nodes(Branch(b))
  OBVIOUS
<1> HIDE DEF T
<1> QED BY <1>2, <1>5, <1>6, <1>7, TreesOfBranches DEF IsTree, Rooted

-----------------------------------------------------------------------------
(***************************************************************************)
(* The cycle that a walk along single dependencies closes.                 *)
(***************************************************************************)
Free(c) == \A d : <<c, d>> \notin directConflicts

OkOnes ==
  \A c \in okToBreakCycle :
    /\ Free(c)
    /\ \A d, e \in WaitsFor(c) : d = e
    /\ \A d \in WaitsFor(c) : d.branches = c.branches

LEMMA CycleShape ==
  ASSUME TypeOK, OkOnes, NEW c \in okToBreakCycle, IsCycle(Walk(c), c)
  PROVE  /\ c \in Walk(c) /\ Walk(c) \subseteq okToBreakCycle
         /\ \A w \in Walk(c) : WaitsFor(w) # {} /\ WaitsFor(w) \subseteq Walk(c)
         /\ \A w \in Walk(c) : \E x \in Walk(c) : w \in WaitsFor(x)
         /\ \A Y \in SUBSET Walk(c) : Y # {} /\ (\A y \in Y : WaitsFor(y) \cap Y # {}) => Y = Walk(c)
<1> DEFINE E == {e \in dependencies : e[2] \in okToBreakCycle}
           W == Walk(c)
           R(n) == Reachable(E, changes, n)
<1>1. E \subseteq changes \X changes /\ c \in changes /\ okToBreakCycle \subseteq changes
      /\ dependencies \subseteq changes \X changes
  BY DEF TypeOK
<1>2. W = R(c)
  BY DEF Walk
<1>3. \A e \in E : e = <<e[1], e[2]>> /\ e[2] \in WaitsFor(e[1]) /\ e[2] \in okToBreakCycle
  BY <1>1 DEF WaitsFor
<1>4. \A v, w : w \in WaitsFor(v) /\ w \in okToBreakCycle => <<v, w>> \in E
  BY DEF WaitsFor
<1> HIDE DEF E, W
<1>5. c \in W /\ W \subseteq changes
  BY <1>1, <1>2, ReachStart, ReachableIs
<1>6. W \subseteq okToBreakCycle
  <2>1. \A e \in E : e[1] \in okToBreakCycle => e[2] \in okToBreakCycle
    BY <1>3
  <2> QED BY <1>1, <1>2, <2>1, ReachWithin
<1>7. PICK d \in W : c \in WaitsFor(d)
  BY DEF IsCycle, W
<1>8. \A v \in W : \A x, y \in WaitsFor(v) : x = y
  BY <1>6 DEF OkOnes
<1>9. \A e \in E : e[1] \in W => e[2] \in W
  BY <1>1, <1>2, ReachEdge
(* From everywhere the walk goes on to d, and from d to c.                 *)
<1>10. \A v \in W : d \in R(v)
  <2> DEFINE U == {v \in W : d \in R(v)}
  <2>1. c \in U
    BY <1>2, <1>5, <1>7
  <2>2. ASSUME NEW e \in E, e[1] \in U PROVE e[2] \in U
    <3>1. e[2] \in W
      BY <1>9, <2>2
    <3>2. CASE e[1] = d
      BY <1>3, <1>7, <1>8, <2>1, <2>2, <3>2
    <3>3. CASE e[1] # d
      <4>1. PICK f \in E : f[1] = e[1] /\ d \in R(f[2])
        BY <1>1, <1>5, <2>2, <3>3, ReachFirst
      <4>2. f[2] = e[2]
        BY <1>3, <1>8, <2>2, <4>1
      <4> QED BY <3>1, <4>1, <4>2
    <3> QED BY <3>2, <3>3
  <2> HIDE DEF U
  <2>3. R(c) \subseteq U
    BY <1>1, <2>1, <2>2, ReachWithin
  <2> QED BY <1>2, <2>3 DEF U
<1>11. ASSUME NEW w \in W PROVE \E x \in W : x \in WaitsFor(w)
  <2>1. CASE w = d
    BY <1>5, <1>7, <2>1
  <2>2. CASE w # d
    <3>1. PICK f \in E : f[1] = w
      BY <1>1, <1>5, <1>10, <2>2, ReachFirst
    <3> QED BY <1>3, <1>9, <3>1
  <2> QED BY <2>1, <2>2
<1>12. \A w \in W : WaitsFor(w) # {} /\ WaitsFor(w) \subseteq W
  BY <1>8, <1>11
<1>13. \A w \in W : \E x \in W : w \in WaitsFor(x)
  <2> DEFINE U == {w \in W : \E x \in W : w \in WaitsFor(x)}
  <2>1. c \in U
    BY <1>5, <1>7
  <2>2. ASSUME NEW e \in E, e[1] \in U PROVE e[2] \in U
    BY <1>3, <1>9, <2>2
  <2> HIDE DEF U
  <2>3. R(c) \subseteq U
    BY <1>1, <2>1, <2>2, ReachWithin
  <2> QED BY <1>2, <2>3 DEF U
<1>14. ASSUME NEW Y \in SUBSET W, Y # {}, \A y \in Y : WaitsFor(y) \cap Y # {}
       PROVE  Y = W
  <2>1. \A e \in E : e[1] \in Y => e[2] \in Y
    BY <1>3, <1>8, <1>14
  <2>2. PICK y \in Y : TRUE
    BY <1>14
  <2>3. R(y) \subseteq Y
    BY <1>1, <1>5, <2>1, <2>2, ReachWithin
  <2>4. d \in Y
    BY <1>10, <2>2, <2>3
  <2>5. c \in Y
    BY <1>7, <1>8, <1>14, <2>4
  <2>6. R(c) \subseteq Y
    BY <1>1, <2>1, <2>5, ReachWithin
  <2> QED BY <1>2, <2>6
<1> QED BY <1>5, <1>6, <1>12, <1>13, <1>14 DEF W

-----------------------------------------------------------------------------
(***************************************************************************)
(* What cycles leave.  A change that something no longer waits for, though *)
(* it needs it, is in a group that can be applied whole: it has no         *)
(* conflicts, waits for nothing else, and not in a ring.                   *)
(***************************************************************************)
Loose(d) == d \in changes /\ \E c : <<c, d>> \in Needs /\ <<c, d>> \notin dependencies

Group(V) ==
  /\ \A v \in V : Free(v) /\ WaitsFor(v) \subseteq V
  /\ \A Y \in SUBSET V : Y # {} => \E y \in Y : WaitsFor(y) \cap Y = {}

Static == Trees3 /\ directConflicts = Conflicts(Initial) /\ dependencies \subseteq Needs

Kept ==
  \A c, d : <<c, d>> \in Needs /\ d \in changes /\ (c.type = "Deletion" \/ d.type = "Insertion")
              => <<c, d>> \in dependencies

Grouped == \A d : Loose(d) => \E V \in SUBSET changes : d \in V /\ Group(V)

NoneReady == (phase = "scan" /\ ~removedSomeDependencies) \/ phase = "done" => Ready = {}

GInv == IInv /\ Static /\ Kept /\ Grouped /\ OkOnes /\ NoneReady

(* What stays when a cycle is broken. *)
LEMMA RemainingIs ==
  ASSUME NEW W, NEW e \in dependencies
  PROVE  /\ e \notin Remaining(W) => /\ e[1] \in W \/ e[2] \in W
                                     /\ e[1].type # "Deletion" /\ e[2].type # "Insertion"
         /\ e \in Remaining(W) /\ e[1] \in W => e[1].type = "Deletion" \/ e[2].type = "Insertion"
BY DEF Remaining

LEMMA CycleKeeps ==
  ASSUME TypeOK, Static, changes \subseteq Initial, OkOnes, NEW c \in okToBreakCycle,
         IsCycle(Walk(c), c), NEW Y \in SUBSET Walk(c), Y # {}
  PROVE  \E y \in Y : \A z \in Y : <<y, z>> \notin Remaining(Walk(c))
<1> DEFINE W == Walk(c)
<1> SUFFICES ASSUME \A y \in Y : \E z \in Y : <<y, z>> \in Remaining(W) PROVE FALSE
  OBVIOUS
<1>1. /\ c \in W /\ W \subseteq okToBreakCycle
      /\ \A w \in W : WaitsFor(w) # {} /\ WaitsFor(w) \subseteq W
      /\ \A w \in W : \E x \in W : w \in WaitsFor(x)
      /\ \A Z \in SUBSET W : Z # {} /\ (\A y \in Z : WaitsFor(y) \cap Z # {}) => Z = W
  BY CycleShape
<1> HIDE DEF W
<1>2. \A y, z : <<y, z>> \in Remaining(W) => <<y, z>> \in dependencies
  BY DEF Remaining
<1>3. \A y, z : <<y, z>> \in dependencies => /\ z \in WaitsFor(y) /\ <<y, z>> \in Needs
                                             /\ y \in Initial /\ z \in Initial
  BY DEF WaitsFor, TypeOK, Static
<1>4. Y = W
  <2>1. \A y \in Y : WaitsFor(y) \cap Y # {}
    <3> SUFFICES ASSUME NEW y \in Y PROVE WaitsFor(y) \cap Y # {}
      OBVIOUS
    <3>1. PICK z \in Y : <<y, z>> \in Remaining(W)
      OBVIOUS
    <3> QED BY <1>2, <1>3, <3>1
  <2>2. Y \in SUBSET W /\ Y # {}
    BY DEF W
  <2> QED BY <1>1, <2>1, <2>2
<1>5. \A y \in W : \A z : <<y, z>> \in dependencies => z.branches = y.branches /\ z \in W
  BY <1>1, <1>3 DEF OkOnes
<1>6. Trees3 /\ W \in SUBSET Initial /\ W # {}
  BY <1>1 DEF TypeOK, Static
<1>7. CASE \E i \in W : i.type = "Insertion"
  <2>1. PICK i \in W : i.type = "Insertion"
    BY <1>7
  <2> DEFINE Z == {y \in W : y.type = "Insertion"}
  <2>2. \A y \in Z : \E z \in Z : <<y, z>> \in Remaining(W)
    <3> SUFFICES ASSUME NEW y \in Z PROVE \E z \in Z : <<y, z>> \in Remaining(W)
      OBVIOUS
    <3>1. PICK z \in W : <<y, z>> \in Remaining(W)
      BY <1>4
    <3>2. y.type = "Deletion" \/ z.type = "Insertion"
      <4>1. <<y, z>> \in dependencies /\ <<y, z>>[1] = y /\ <<y, z>>[2] = z
        BY <1>2, <3>1
      <4> QED BY <3>1, <4>1, RemainingIs
    <3> QED BY <3>1, <3>2
  <2>3. Z # {} /\ Z \in SUBSET W
    BY <2>1
  <2>4. \A y \in Z : WaitsFor(y) \cap Z # {}
    BY <1>2, <1>3, <2>2
  <2>5. Z = W
    BY <1>1, <2>3, <2>4
  <2>6. PICK b \in c.branches : TRUE
    BY <1>1, <1>6, SomeBranch
  <2> DEFINE B == {y \in W : b \in y.branches}
  <2>7. B = W
    <3>1. c \in B /\ B \in SUBSET W
      BY <1>1, <2>6
    <3>2. \A y \in B : WaitsFor(y) \cap B # {}
      <4> SUFFICES ASSUME NEW y \in B PROVE WaitsFor(y) \cap B # {}
        OBVIOUS
      <4>1. PICK z : z \in WaitsFor(y)
        BY <1>1
      <4>2. z.branches = y.branches /\ z \in W
        BY <1>1, <4>1 DEF OkOnes
      <4> QED BY <4>1, <4>2
    <3> HIDE DEF B
    <3> QED BY <1>1, <3>1, <3>2
  <2>8. \A y \in W : y.type = "Insertion" /\ \E z \in W : z.node = NewParent(y)
    <3> SUFFICES ASSUME NEW y \in W PROVE y.type = "Insertion" /\ \E z \in W : z.node = NewParent(y)
      OBVIOUS
    <3>1. PICK z \in W : <<y, z>> \in Remaining(W)
      BY <1>4
    <3>2. y.type = "Insertion" /\ z.type = "Insertion" /\ <<y, z>> \in Needs
      BY <1>2, <1>3, <2>5, <3>1
    <3> QED BY <1>6, <3>1, <3>2, InsertionNeeds
  <2>9. \A y \in W : b \in y.branches
    BY <2>7
  <2> HIDE DEF B, Z
  <2> QED BY <1>6, <2>8, <2>9, NoInsertionRing
<1>8. CASE \A i \in W : i.type # "Insertion"
  <2>1. \A y \in W : y.type = "Deletion"
    <3> SUFFICES ASSUME NEW y \in W PROVE y.type = "Deletion"
      OBVIOUS
    <3>1. PICK z \in W : <<y, z>> \in Remaining(W)
      BY <1>4
    <3>2. <<y, z>> \in dependencies /\ <<y, z>>[1] = y /\ <<y, z>>[2] = z
      BY <1>2, <3>1
    <3> QED BY <1>8, <3>1, <3>2, RemainingIs
  <2>2. \A y \in W : \E x \in W : OldParent(y) = x.node
    <3> SUFFICES ASSUME NEW y \in W PROVE \E x \in W : OldParent(y) = x.node
      OBVIOUS
    <3>1. PICK x \in W : y \in WaitsFor(x)
      BY <1>1
    <3>2. <<x, y>> \in Needs
      BY <1>3, <3>1 DEF WaitsFor
    <3> QED BY <1>6, <2>1, <3>1, <3>2, DeletionNeeds
  <2> QED BY <1>6, <2>1, <2>2, NoDeletionRing
<1> QED BY <1>7, <1>8

-----------------------------------------------------------------------------
(* What the merge does not change. *)
LEMMA SameStatic ==
  ASSUME Static, UNCHANGED <<inputs, directConflicts>>, dependencies' \subseteq dependencies
  PROVE  /\ Initial' = Initial /\ Needs' = Needs /\ Static'
         /\ \A c : Free(c)' = Free(c)
<1>1. /\ base' = base /\ branchA' = branchA /\ branchB' = branchB
      /\ directConflicts' = directConflicts
  BY DEF inputs
<1>2. Initial' = Initial
  BY <1>1 DEF Initial
<1>3. Needs' = Needs
  BY <1>1, <1>2 DEF Needs
<1>4. Trees3'
  BY <1>1 DEF Static, Trees3, Inputs3
<1>5. Conflicts(Initial)' = Conflicts(Initial)
  BY <1>2
<1>6. Static'
  BY <1>1, <1>3, <1>4, <1>5 DEF Static
<1>7. \A c : Free(c)' = Free(c)
  BY <1>1 DEF Free
<1> QED BY <1>2, <1>3, <1>6, <1>7

LEMMA GroupStays ==
  ASSUME NEW V, Group(V), NEW U \in SUBSET V, UNCHANGED directConflicts,
         \A v \in U : WaitsFor(v)' \subseteq WaitsFor(v) \cap U
  PROVE  Group(U)'
<1>1. \A v \in U : Free(v)' /\ WaitsFor(v)' \subseteq U
  BY DEF Group, Free
<1>2. ASSUME NEW Y \in SUBSET U, Y # {} PROVE \E y \in Y : WaitsFor(y)' \cap Y = {}
  BY <1>2 DEF Group
<1> QED BY <1>1, <1>2 DEF Group

LEMMA GraphSame ==
  ASSUME GInv, UNCHANGED <<inputs, graph>>, okToBreakCycle' \subseteq okToBreakCycle
  PROVE  Static' /\ Kept' /\ Grouped' /\ OkOnes' /\ Ready' = Ready
<1>1. changes' = changes /\ dependencies' = dependencies /\ directConflicts' = directConflicts
  BY DEF graph
<1>2. /\ Static' /\ Needs' = Needs /\ \A c : Free(c)' = Free(c)
  BY <1>1, SameStatic DEF GInv
<1>3. \A c : WaitsFor(c)' = WaitsFor(c)
  BY <1>1 DEF WaitsFor
<1>4. \A V : Group(V)' = Group(V)
  BY <1>2, <1>3 DEF Group
<1>5. Kept'
  BY <1>1, <1>2 DEF GInv, Kept
<1>6. \A d : Loose(d)' = Loose(d)
  BY <1>1, <1>2 DEF Loose
<1>7. Grouped'
  BY <1>1, <1>4, <1>6 DEF GInv, Grouped
<1>8. OkOnes'
  BY <1>2, <1>3 DEF GInv, OkOnes
<1>9. Ready' = Ready
  BY <1>1 DEF Ready, Independent
<1> QED BY <1>2, <1>5, <1>7, <1>8, <1>9

(* A change that is applied was waited for by nothing it could be loose of. *)
LEMMA AppliedGraph ==
  ASSUME GInv, NEW c \in changes, ApplyChange(c), Applicable(merged, c)
  PROVE  /\ changes' = changes \ {c} /\ dependencies' = WithoutChange(c) /\ phase' = "apply"
         /\ merged' = Applied(merged, c)
         /\ Initial' = Initial /\ Needs' = Needs /\ Static'
         /\ Free(c) /\ WaitsFor(c) = {}
         /\ okToBreakCycle' = {} /\ UNCHANGED directConflicts
         /\ \A d : Loose(d)' => Loose(d) /\ d # c
<1>1. /\ changes' = changes \ {c} /\ dependencies' = WithoutChange(c) /\ phase' = "apply"
      /\ merged' = Applied(merged, c)
      /\ UNCHANGED <<inputs, directConflicts>> /\ UNCHANGED directConflicts
      /\ okToBreakCycle' = okToBreakCycle /\ phase = "apply"
  BY DEF ApplyChange, scan
<1>2. /\ \A d \in changes : <<c, d>> \notin dependencies /\ <<c, d>> \notin directConflicts
  BY DEF ApplyChange, Ready, Independent
<1>3. TypeOK /\ Scanned /\ Static
  BY DEF GInv, IInv
<1>4. Free(c) /\ WaitsFor(c) = {}
  BY <1>2, <1>3 DEF Free, TypeOK, WaitsFor
<1>5. okToBreakCycle' = {}
  BY <1>1, <1>3 DEF Scanned
<1>6. WithoutChange(c) \subseteq dependencies
  BY DEF WithoutChange
<1>7. Initial' = Initial /\ Needs' = Needs /\ Static'
  BY <1>1, <1>3, <1>6, SameStatic
<1>8. ASSUME NEW d, Loose(d)' PROVE Loose(d) /\ d # c
  <2>1. PICK x : <<x, d>> \in Needs /\ <<x, d>> \notin WithoutChange(c)
    BY <1>1, <1>7, <1>8 DEF Loose
  <2>2. d \in changes /\ d # c
    BY <1>1, <1>8 DEF Loose
  <2>3. x # c \/ <<x, d>> \notin dependencies
    BY <1>2, <2>2
  <2>4. <<x, d>>[1] = x /\ <<x, d>>[2] = d
    OBVIOUS
  <2>5. <<x, d>> \notin dependencies
    BY <2>1, <2>2, <2>3, <2>4 DEF WithoutChange
  <2> QED BY <2>1, <2>2, <2>5 DEF Loose
<1> QED BY <1>1, <1>4, <1>5, <1>7, <1>8

LEMMA GApply ==
  ASSUME GInv, NEW c \in changes, ApplyChange(c)
  PROVE  GInv'
<1>1. IInv'
  BY ApplyStep DEF GInv
<1>2. CASE ~Applicable(merged, c)
  <2>1. /\ UNCHANGED <<inputs, graph>> /\ phase' = "fault" /\ okToBreakCycle' \subseteq okToBreakCycle
    BY <1>2 DEF ApplyChange, graph, scan
  <2>2. NoneReady'
    BY <2>1 DEF NoneReady
  <2> QED BY <1>1, <2>1, <2>2, GraphSame DEF GInv
<1>3. CASE Applicable(merged, c)
  <2>1. /\ changes' = changes \ {c} /\ dependencies' = WithoutChange(c) /\ phase' = "apply"
        /\ Initial' = Initial /\ Needs' = Needs /\ Static'
        /\ Free(c) /\ WaitsFor(c) = {}
        /\ okToBreakCycle' = {} /\ UNCHANGED directConflicts
        /\ \A d : Loose(d)' => Loose(d) /\ d # c
    BY <1>3, AppliedGraph
  <2>2. Kept'
    <3> SUFFICES ASSUME NEW x, NEW d, <<x, d>> \in Needs', d \in changes',
                        x.type = "Deletion" \/ d.type = "Insertion"
                 PROVE  <<x, d>> \in dependencies'
      BY DEF Kept
    <3>1. <<x, d>> \in dependencies
      BY <2>1 DEF GInv, Kept
    <3>2. x # c /\ d # c
      BY <2>1, <3>1 DEF WaitsFor
    <3>3. <<x, d>>[1] = x /\ <<x, d>>[2] = d
      OBVIOUS
    <3> QED BY <2>1, <3>1, <3>2, <3>3 DEF WithoutChange
  <2>3. Grouped'
    <3> SUFFICES ASSUME NEW d, Loose(d)' PROVE \E V \in SUBSET changes' : d \in V /\ Group(V)'
      BY DEF Grouped
    <3>1. PICK V \in SUBSET changes : d \in V /\ Group(V)
      BY <2>1 DEF GInv, Grouped
    <3> DEFINE U == V \ {c}
    <3>2. \A v \in U : WaitsFor(v)' \subseteq WaitsFor(v) \cap U
      <4> SUFFICES ASSUME NEW v \in U, NEW w \in WaitsFor(v)' PROVE w \in WaitsFor(v) /\ w \in U
        OBVIOUS
      <4>1. w \in changes \ {c} /\ <<v, w>> \in WithoutChange(c)
        BY <2>1 DEF WaitsFor
      <4>2. w \in WaitsFor(v)
        BY <4>1 DEF WaitsFor, WithoutChange
      <4>3. w \in V
        BY <3>1, <4>2 DEF Group
      <4> QED BY <4>1, <4>2, <4>3
    <3>3. U \in SUBSET V /\ d \in U /\ U \in SUBSET changes'
      BY <2>1, <3>1
    <3> HIDE DEF U
    <3>4. Group(U)'
      BY <2>1, <3>1, <3>2, <3>3, GroupStays
    <3> QED BY <3>3, <3>4
  <2>4. OkOnes' /\ NoneReady'
    BY <2>1 DEF OkOnes, NoneReady
  <2> QED BY <1>1, <2>1, <2>2, <2>3, <2>4 DEF GInv
<1> QED BY <1>2, <1>3

(* The graph after a cycle is broken. *)
LEMMA BrokenGraph ==
  ASSUME GInv, NEW c \in okToBreakCycle, IsCycle(Walk(c), c), dependencies' = Remaining(Walk(c)),
         UNCHANGED <<inputs, changes, directConflicts>>
  PROVE  /\ Initial' = Initial /\ Needs' = Needs /\ Static'
         /\ \A v : WaitsFor(v)' \subseteq WaitsFor(v)
         /\ \A d : Loose(d)' => Loose(d) \/ d \in Walk(c)
         /\ \A v, d : v \in Walk(c) /\ <<v, d>> \in dependencies' =>
                        v.type = "Deletion" \/ d.type = "Insertion"
<1>1. Remaining(Walk(c)) \subseteq dependencies /\ TypeOK /\ Static /\ OkOnes
  BY DEF Remaining, GInv, IInv
<1>2. UNCHANGED <<inputs, directConflicts>>
  OBVIOUS
<1>3. Initial' = Initial /\ Needs' = Needs /\ Static'
  BY <1>1, <1>2, SameStatic
<1>4. \A v : WaitsFor(v)' \subseteq WaitsFor(v)
  BY <1>1 DEF WaitsFor
<1>5. ASSUME NEW d, Loose(d)', d \notin Walk(c) PROVE Loose(d)
  <2>1. d \in changes
    BY <1>5 DEF Loose
  <2>2. PICK x : <<x, d>> \in Needs /\ <<x, d>> \notin Remaining(Walk(c))
    BY <1>3, <1>5 DEF Loose
  <2>3. <<x, d>>[1] = x /\ <<x, d>>[2] = d
    OBVIOUS
  <2>4. CASE <<x, d>> \in dependencies
    <3>1. x \in Walk(c)
      BY <1>5, <2>2, <2>3, <2>4, RemainingIs
    <3>2. d \in WaitsFor(x)
      BY <2>1, <2>4 DEF WaitsFor
    <3> QED BY <1>1, <1>5, <3>1, <3>2, CycleShape
  <2> QED BY <2>1, <2>2, <2>4 DEF Loose
<1>6. ASSUME NEW v, NEW d, v \in Walk(c), <<v, d>> \in dependencies'
      PROVE  v.type = "Deletion" \/ d.type = "Insertion"
  <2>1. <<v, d>>[1] = v /\ <<v, d>>[2] = d
    OBVIOUS
  <2> QED BY <1>1, <1>6, <2>1, RemainingIs
<1> QED BY <1>3, <1>4, <1>5, <1>6

LEMMA GBreakCycle ==
  ASSUME GInv, NEW c \in okToBreakCycle, IsCycle(Walk(c), c), dependencies' = Remaining(Walk(c)),
         UNCHANGED <<inputs, changes, directConflicts>>, okToBreakCycle' \subseteq okToBreakCycle
  PROVE  Static' /\ Kept' /\ Grouped' /\ OkOnes'
<1>0. PICK W : W = Walk(c)
  OBVIOUS
<1>1. TypeOK /\ Static /\ OkOnes /\ changes \subseteq Initial /\ Kept /\ Grouped
      /\ directConflicts' = directConflicts /\ changes' = changes
  BY DEF GInv, IInv
<1>2. /\ Initial' = Initial /\ Needs' = Needs /\ Static'
      /\ \A v : WaitsFor(v)' \subseteq WaitsFor(v)
      /\ \A d : Loose(d)' => Loose(d) \/ d \in W
  BY <1>0, BrokenGraph
<1>3. W \subseteq okToBreakCycle /\ W \subseteq changes /\ \A w \in W : WaitsFor(w) \subseteq W
  BY <1>0, <1>1, CycleShape DEF TypeOK
<1>4. Kept'
  <2> SUFFICES ASSUME NEW x, NEW d, <<x, d>> \in Needs', d \in changes',
                      x.type = "Deletion" \/ d.type = "Insertion"
               PROVE  <<x, d>> \in dependencies'
    BY DEF Kept
  <2>1. <<x, d>> \in dependencies /\ <<x, d>>[1] = x /\ <<x, d>>[2] = d
    BY <1>1, <1>2 DEF Kept
  <2> QED BY <1>0, <2>1, RemainingIs
<1>5. \A w \in W : Free(w)
  BY <1>1, <1>3 DEF OkOnes
<1>6. Group(W)'
  <2>1. \A w \in W : Free(w)' /\ WaitsFor(w)' \subseteq W
    BY <1>1, <1>2, <1>3, <1>5 DEF Free
  <2>2. ASSUME NEW Y \in SUBSET W, Y # {} PROVE \E y \in Y : WaitsFor(y)' \cap Y = {}
    <3>1. PICK y \in Y : \A z \in Y : <<y, z>> \notin Remaining(W)
      BY <1>0, <1>1, <2>2, CycleKeeps
    <3>2. WaitsFor(y)' \cap Y = {}
      BY <1>0, <3>1 DEF WaitsFor
    <3> QED BY <3>2
  <2> QED BY <2>1, <2>2 DEF Group
<1>7. Grouped'
  <2> SUFFICES ASSUME NEW d, Loose(d)' PROVE \E V \in SUBSET changes' : d \in V /\ Group(V)'
    BY DEF Grouped
  <2>1. CASE Loose(d)
    <3>1. PICK V \in SUBSET changes : d \in V /\ Group(V)
      BY <1>1, <2>1 DEF Grouped
    <3>2. \A v \in V : WaitsFor(v)' \subseteq WaitsFor(v) \cap V
      BY <1>2, <3>1 DEF Group
    <3>3. Group(V)'
      BY <1>1, <3>1, <3>2, GroupStays
    <3> QED BY <1>1, <3>1, <3>3
  <2>2. CASE d \in W
    BY <1>1, <1>3, <1>6, <2>2
  <2> QED BY <1>2, <2>1, <2>2
<1>8. OkOnes'
  <2> SUFFICES ASSUME NEW w \in okToBreakCycle
               PROVE  /\ Free(w)'
                      /\ \A d, e \in WaitsFor(w)' : d = e
                      /\ \A d \in WaitsFor(w)' : d.branches = w.branches
    BY DEF OkOnes
  <2> QED BY <1>1, <1>2 DEF OkOnes, Free
<1> QED BY <1>2, <1>4, <1>7, <1>8

LEMMA GBreak ==
  ASSUME GInv, NEW c \in changes, BreakCycle(c)
  PROVE  GInv'
<1>1. IInv'
  BY BreakStep DEF GInv
<1>2. UNCHANGED <<inputs, changes, directConflicts>> /\ phase = "scan" /\ phase' \in {"scan", "hang"}
      /\ okToBreakCycle' \subseteq okToBreakCycle
  <2>1. CASE c \notin okToBreakCycle
    BY <2>1 DEF BreakCycle
  <2>2. CASE c \in okToBreakCycle
    BY <2>2 DEF BreakCycle
  <2> QED BY <2>1, <2>2 DEF BreakCycle
<1>3. CASE c \in okToBreakCycle /\ IsCycle(Walk(c), c)
  <2>1. dependencies' = Remaining(Walk(c)) /\ removedSomeDependencies' = TRUE
    BY <1>3 DEF BreakCycle
  <2>2. Static' /\ Kept' /\ Grouped' /\ OkOnes'
    BY <1>2, <1>3, <2>1, GBreakCycle
  <2>3. NoneReady'
    BY <1>2, <2>1 DEF NoneReady
  <2> QED BY <1>1, <2>2, <2>3 DEF GInv
<1>4. CASE ~(c \in okToBreakCycle /\ IsCycle(Walk(c), c))
  <2>1. dependencies' = dependencies /\ (removedSomeDependencies' <=> removedSomeDependencies)
    <3>1. CASE c \notin okToBreakCycle
      BY <3>1 DEF BreakCycle
    <3>2. CASE c \in okToBreakCycle /\ ~IsCycle(Walk(c), c)
      BY <3>2 DEF BreakCycle
    <3> QED BY <1>4, <3>1, <3>2
  <2>2. UNCHANGED <<inputs, graph>>
    BY <1>2, <2>1 DEF graph
  <2>3. Static' /\ Kept' /\ Grouped' /\ OkOnes' /\ Ready' = Ready
    BY <1>2, <2>2, GraphSame
  <2>4. NoneReady'
    BY <1>2, <2>1, <2>3 DEF GInv, NoneReady
  <2> QED BY <1>1, <2>3, <2>4 DEF GInv
<1> QED BY <1>3, <1>4

LEMMA GScan ==
  ASSUME GInv, Scan \/ EndScan
  PROVE  GInv'
<1>1. IInv'
  BY ScanStep DEF GInv
<1>2. UNCHANGED <<inputs, graph>>
  BY DEF Scan, EndScan
<1>3. CASE Scan
  <2>1. /\ Ready = {} /\ okToBreakCycle' = MayBreakCycle /\ changes' = changes
        /\ dependencies' = dependencies /\ directConflicts' = directConflicts
    BY <1>2, <1>3 DEF Scan, graph
  <2>2. /\ Static' /\ Needs' = Needs
    BY <1>2, <2>1, SameStatic DEF GInv
  <2>3. \A d : WaitsFor(d)' = WaitsFor(d)
    BY <2>1 DEF WaitsFor
  <2>4. \A V : Group(V)' = Group(V)
    BY <2>1, <2>3 DEF Group, Free
  <2>5. Kept'
    BY <2>1, <2>2 DEF GInv, Kept
  <2>6. \A d : Loose(d)' = Loose(d)
    BY <2>1, <2>2 DEF Loose
  <2>7. Grouped'
    BY <2>1, <2>4, <2>6 DEF GInv, Grouped
  <2>8. OkOnes'
    <3> SUFFICES ASSUME NEW c \in MayBreakCycle
                 PROVE  /\ Free(c)'
                        /\ \A d, e \in WaitsFor(c)' : d = e
                        /\ \A d \in WaitsFor(c)' : d.branches = c.branches
      BY <2>1 DEF OkOnes
    <3>1. PICK d \in changes : WaitsFor(c) = {d} /\ d.branches = c.branches
      BY DEF MayBreakCycle
    <3>2. \A e \in changes : <<c, e>> \notin directConflicts
      BY DEF MayBreakCycle
    <3>3. Free(c)'
      BY <2>1, <3>2 DEF Free, GInv, IInv, TypeOK
    <3> QED BY <2>3, <3>1, <3>3
  <2>9. Ready' = Ready
    BY <2>1 DEF Ready, Independent
  <2>10. NoneReady'
    BY <2>1, <2>9 DEF NoneReady
  <2> QED BY <1>1, <2>2, <2>5, <2>7, <2>8, <2>10 DEF GInv
<1>4. CASE EndScan
  <2>1. /\ okToBreakCycle' \subseteq okToBreakCycle /\ phase = "scan"
        /\ phase' = IF removedSomeDependencies THEN "apply" ELSE "done"
    BY <1>4 DEF EndScan, scan
  <2>2. Static' /\ Kept' /\ Grouped' /\ OkOnes' /\ Ready' = Ready
    BY <1>2, <2>1, GraphSame
  <2>3. NoneReady'
    BY <2>1, <2>2 DEF GInv, NoneReady
  <2> QED BY <1>1, <2>2, <2>3 DEF GInv
<1> QED BY <1>3, <1>4

LEMMA GStutter ==
  ASSUME GInv, UNCHANGED vars
  PROVE  GInv'
<1>1. IInv'
  BY StutterStep DEF GInv
<1>2. UNCHANGED <<inputs, graph>> /\ okToBreakCycle' \subseteq okToBreakCycle
      /\ phase' = phase /\ removedSomeDependencies' = removedSomeDependencies
  BY DEF vars, scan
<1>3. Static' /\ Kept' /\ Grouped' /\ OkOnes' /\ Ready' = Ready
  BY <1>2, GraphSame
<1>4. NoneReady'
  BY <1>2, <1>3 DEF GInv, NoneReady
<1> QED BY <1>1, <1>3, <1>4 DEF GInv

LEMMA GInit == Init => GInv
<1> SUFFICES ASSUME Init PROVE GInv
  OBVIOUS
<1>1. IInv
  BY IInvInit
<1>2. Trees3
  <2>1. PICK i \in Inputs : base = i.base /\ branchA = i.branchA /\ branchB = i.branchB
    BY DEF Init
  <2> QED BY <2>1, InputsAssumption DEF Trees3, Inputs3
<1>3. /\ changes = Initial /\ dependencies = Needs /\ directConflicts = Conflicts(Initial)
      /\ okToBreakCycle = {} /\ phase = "apply"
  BY DEF Init, Initial, Needs
<1>4. Static /\ Kept /\ Grouped /\ OkOnes /\ NoneReady
  BY <1>2, <1>3 DEF Static, Kept, Grouped, Loose, OkOnes, NoneReady
<1> QED BY <1>1, <1>4 DEF GInv

LEMMA GraphKept == Spec => []GInv
<1>1. GInv /\ [Next]_vars => GInv'
  BY GApply, GBreak, GScan, GStutter DEF Next
<1> QED BY <1>1, GInit, PTL DEF Spec

-----------------------------------------------------------------------------
(***************************************************************************)
(* The merged tree: a node is where an applied change put it, or where it  *)
(* was.                                                                    *)
(***************************************************************************)
Done == {c \in Initial : c \notin changes /\ c.content = FALSE}

LEMMA DoneAlone ==
  ASSUME GInv, NEW c \in Initial, c \notin changes
  PROVE  /\ \A d \in Initial : d.node = c.node /\ d.content = c.content => d = c
         /\ \A d : <<c, d>> \notin Conflicts(Initial) /\ <<d, c>> \notin Conflicts(Initial)
<1>1. TypeOK /\ Paired /\ directConflicts = Conflicts(Initial)
  BY DEF GInv, IInv, Static
<1>2. \A d : <<c, d>> \notin directConflicts /\ <<d, c>> \notin directConflicts
  BY <1>1 DEF TypeOK
<1> QED BY <1>1, <1>2 DEF Paired

LEMMA DonePlace ==
  ASSUME GInv, NEW c \in Done
  PROVE  /\ c.node \in Id /\ c \in Initial
         /\ c.to = Absent <=> c.node \notin Nodes(merged)
         /\ c.to # Absent => /\ merged[c.node].parent = c.to.parent
                             /\ merged[c.node].label = c.to.label
<1>1. /\ c \in Initial /\ c \notin changes /\ c.content = FALSE /\ changes \subseteq Initial
      /\ MergedIsThreeWay /\ Trees3 /\ merged \in Trees
  BY DEF GInv, IInv, Static, TypeOK, Done
<1>2. \A d \in Initial : d.node = c.node /\ d.content = FALSE => d = c
  BY <1>1, DoneAlone
<1>3. c.to = PlaceOf(c.node) /\ IsPlaceChange(c)
  BY <1>1, <1>2, OnlyPlaceChange DEF Trees3
<1>4. c.node \in Id /\ merged[c.node] \in AnyLine
  BY <1>1, <1>3, TreeLine DEF IsPlaceChange
<1>5. ~PlaceLeft(c.node)
  <2> SUFFICES ASSUME PlaceLeft(c.node) PROVE FALSE
    OBVIOUS
  <2>1. PICK d \in changes : d.node = c.node /\ ~d.content
    BY DEF PlaceLeft
  <2>2. d.content = FALSE
    BY <1>1, <2>1, ContentIsStationary
  <2> QED BY <1>1, <1>2, <2>1, <2>2
<1>6. Placed(merged[c.node]) = c.to
  BY <1>1, <1>3, <1>4, <1>5, ThreeWayPlaces
<1> QED BY <1>1, <1>4, <1>6, PlacedLine, TreeLine

LEMMA NotDone ==
  ASSUME GInv, NEW n \in Id, \A c \in Done : c.node # n
  PROVE  /\ n \in Nodes(merged) <=> n \in Nodes(base)
         /\ n \in Nodes(base) => /\ merged[n].parent = base[n].parent
                                 /\ merged[n].label = base[n].label
<1>1. changes \subseteq Initial /\ MergedIsThreeWay /\ Trees3 /\ merged \in Trees /\ base \in Trees
  BY DEF GInv, IInv, Static, TypeOK
<1>2. Placed(merged[n]) = Placed(base[n])
  <2>1. CASE PlaceLeft(n)
    BY <1>1, <2>1, ThreeWayPlaces
  <2>2. CASE ~PlaceLeft(n)
    <3>1. \A d \in Initial : d.node = n => d.content # FALSE
      BY <2>2 DEF PlaceLeft, Done
    <3>2. Placed(base[n]) = Placed(Branch("A")[n]) /\ Placed(base[n]) = Placed(Branch("B")[n])
      BY <1>1, <3>1, PlaceChanged
    <3>3. PlaceOf(n) = Placed(base[n])
      BY <3>2 DEF PlaceOf, ThreeWay, Branch
    <3> QED BY <1>1, <2>2, <3>3, ThreeWayPlaces
  <2> QED BY <2>1, <2>2
<1>3. merged[n] \in AnyLine /\ base[n] \in AnyLine
  BY <1>1, TreeLine
<1>4. CASE base[n] = Absent
  <2>1. merged[n] = Absent
    BY <1>2, <1>3, <1>4, PlacedLine
  <2> QED BY <1>4, <2>1 DEF Nodes
<1>5. CASE base[n] # Absent
  <2>1. merged[n] # Absent
    BY <1>2, <1>3, <1>5, PlacedLine
  <2>2. merged[n] \in Line /\ base[n] \in Line
    BY <1>3, <1>5, <2>1 DEF AnyLine
  <2> QED BY <1>2, <1>5, <2>1, <2>2, SamePlace DEF Nodes
<1> QED BY <1>4, <1>5

-----------------------------------------------------------------------------
(***************************************************************************)
(* What is applied can be.                                                 *)
(***************************************************************************)
LEMMA ReadyAlone ==
  ASSUME GInv, NEW c \in Ready
  PROVE  /\ c \in Initial /\ c \in changes
         /\ \A d \in Initial : d.node = c.node /\ d.content = c.content => d = c
         /\ \A d : <<c, d>> \notin Conflicts(Initial) /\ <<d, c>> \notin Conflicts(Initial)
         /\ \A d : <<c, d>> \notin dependencies
         /\ c.content = FALSE => \A d \in Done : d.node # c.node
<1>1. TypeOK /\ Paired /\ Static /\ changes \subseteq Initial
  BY DEF GInv, IInv
<1>2. c \in changes /\ c \in Initial
  BY <1>1 DEF Ready
<1>3. \A d : <<c, d>> \notin directConflicts /\ <<d, c>> \notin directConflicts
  BY <1>1 DEF Ready, TypeOK, Paired
<1>4. \A d : <<c, d>> \notin dependencies
  BY <1>1 DEF Ready, Independent, TypeOK
<1>5. \A d \in Initial : d.node = c.node /\ d.content = c.content => d = c
  BY <1>1, <1>2, <1>3 DEF Paired
<1> QED BY <1>1, <1>2, <1>3, <1>4, <1>5 DEF Static, Done

(* The node that an applied insertion made, or an unready one will.        *)
LEMMA NeededIsDone ==
  ASSUME GInv, NEW c \in Ready, NEW d, <<c, d>> \in Needs,
         c.type = "Deletion" \/ d.type = "Insertion"
  PROVE  d \in Done
<1>1. Trees3 /\ Kept
  BY DEF GInv, Static
<1>2. d \in Initial /\ d.content = FALSE
  BY <1>1, NeedsPlaces
<1>3. d \notin changes
  BY <1>1, ReadyAlone DEF Kept
<1> QED BY <1>2, <1>3 DEF Done

LEMMA NewParentPresent ==
  ASSUME GInv, NEW c \in Ready, c.type \in {"Insertion", "Move"}
  PROVE  NewParent(c) \in Nodes(merged) \cup {RootId}
<1> DEFINE p == NewParent(c)
<1> SUFFICES ASSUME p # RootId, p \notin Nodes(merged) PROVE FALSE
  OBVIOUS
<1>1. Trees3 /\ c \in Initial
  BY ReadyAlone DEF GInv, Static
<1>2. PICK b \in c.branches : TRUE
  BY <1>1, SomeBranch
<1>3. b \in {"A", "B"} /\ p \in Nodes(Branch(b)) /\ p \in Id /\ c.content = FALSE
  BY <1>1, <1>2, InsertedLine, MovedLine, NodesAreIds
<1>4. CASE \E e \in Done : e.node = p
  <2>1. PICK e \in Done : e.node = p
    BY <1>4
  <2>2. e.to = Absent /\ e \in Initial /\ e \notin changes /\ e.content = FALSE
    BY <2>1, DonePlace DEF Done
  <2>3. e.type = "Deletion"
    BY <1>1, <2>2, ChangeTypes
  <2>4. <<e, c>> \in Conflicts(Initial)
    BY <1>1, <1>3, <2>1, <2>2, <2>3, NotBelowDeleted
  <2> QED BY <2>2, <2>4, DoneAlone
<1>5. CASE \A e \in Done : e.node # p
  <2>1. p \notin Nodes(base)
    BY <1>3, <1>5, NotDone
  <2>2. Placed(base[p]) # Placed(Branch(b)[p])
    <3>1. base[p] = Absent /\ Branch(b)[p] # Absent
      BY <1>3, <2>1 DEF Nodes
    <3>2. base[p] \in AnyLine /\ Branch(b)[p] \in AnyLine
      BY <1>1, <1>3, TreesOfBranches, TreeLine
    <3> QED BY <3>1, <3>2, PlacedLine
  <2>3. PICK i \in Initial : i.node = p /\ i.content = FALSE /\ b \in i.branches
    BY <1>1, <1>3, <2>2, PlaceChanged
  <2>4. i.from = Absent
    BY <1>1, <2>1, <2>3, ChangeLines
  <2>5. i.type = "Insertion"
    BY <1>1, <2>3, <2>4, ChangeTypes
  <2>6. <<c, i>> \in Needs
    BY <1>1, <2>3, <2>5, NeedsCases DEF ParentPresentDependency
  <2>7. i \in Done
    BY <2>5, <2>6, NeededIsDone
  <2> QED BY <1>5, <2>3, <2>7
<1> QED BY <1>4, <1>5

LEMMA ChildrenGone ==
  ASSUME GInv, NEW c \in Ready, c.type = "Deletion", NEW m \in Nodes(merged)
  PROVE  merged[m].parent # c.node
<1> SUFFICES ASSUME merged[m].parent = c.node PROVE FALSE
  OBVIOUS
<1>1. Trees3 /\ c \in Initial /\ c.content = FALSE /\ m \in Id
  BY ReadyAlone, ContentIsStationary, NodesAreIds DEF GInv, Static
<1>2. PICK b \in c.branches : TRUE
  BY <1>1, SomeBranch
<1>3. c.to = Absent
  BY <1>1, ChangeTypes
<1>4. b \in {"A", "B"} /\ c.node \in Id /\ c.node \notin Nodes(Branch(b))
  BY <1>1, <1>2, <1>3, OfBranch, ChangeLines
<1>5. c.node # RootId
  BY <1>4, RootAssumption
<1>6. CASE m \in Nodes(base) /\ base[m].parent = c.node
  <2>1. ~(m \in Nodes(Branch(b)) /\ Branch(b)[m].parent = c.node)
    BY <1>1, <1>4, <1>5, TreesOfBranches DEF IsTree, Rooted
  <2>2. base[m] \in AnyLine /\ Branch(b)[m] \in AnyLine /\ base[m] # Absent
    BY <1>1, <1>4, <1>6, TreesOfBranches, TreeLine DEF Nodes
  <2>3. Placed(base[m]) # Placed(Branch(b)[m])
    <3> SUFFICES ASSUME Placed(base[m]) = Placed(Branch(b)[m]) PROVE FALSE
      OBVIOUS
    <3>1. Branch(b)[m] # Absent
      BY <2>2, PlacedLine
    <3>2. base[m] \in Line /\ Branch(b)[m] \in Line
      BY <2>2, <3>1 DEF AnyLine
    <3>3. Branch(b)[m].parent = c.node
      BY <1>6, <3>2, SamePlace
    <3> QED BY <1>1, <2>1, <3>1, <3>3 DEF Nodes
  <2>4. PICK d \in Initial : d.node = m /\ d.content = FALSE /\ b \in d.branches
    BY <1>1, <1>4, <2>3, PlaceChanged
  <2>5. d.from # Absent /\ d.from.parent = c.node
    BY <1>1, <1>6, <2>4, ChangeLines
  <2>6. d.to # Absent => d.to.parent # c.node
    BY <1>1, <2>1, <2>4, ChangeLines
  <2>7. d.type \in {"Deletion", "Move"} /\ OldParent(d) = c.node
    BY <1>1, <2>4, <2>5, <2>6, ChangeTypes
  <2>8. <<c, d>> \in Needs
    BY <1>1, <2>4, <2>7, NeedsCases DEF ChildrenRemovedDependency
  <2>9. d \in Done
    BY <2>8, NeededIsDone
  <2> QED BY <2>4, <2>6, <2>9, DonePlace
<1>7. CASE ~(m \in Nodes(base) /\ base[m].parent = c.node)
  <2>1. PICK e \in Done : e.node = m
    BY <1>1, <1>7, NotDone
  <2>2. e \in Initial /\ e \notin changes /\ e.content = FALSE /\ e.to # Absent /\ e.to.parent = c.node
    BY <2>1, DonePlace DEF Done
  <2>3. PICK k \in e.branches : TRUE
    BY <1>1, <2>2, SomeBranch
  <2>4. e.from # Absent => e.from.parent # c.node
    BY <1>1, <1>7, <2>1, <2>2, <2>3, ChangeLines
  <2>5. e.type \in {"Insertion", "Move"} /\ NewParent(e) = c.node
    BY <1>1, <2>2, <2>4, ChangeTypes
  <2>6. <<e, c>> \in Conflicts(Initial)
    BY <1>1, <2>2, <2>5, NotBelowDeleted
  <2> QED BY <2>2, <2>6, DoneAlone
<1> QED BY <1>6, <1>7

(* A change that cannot be applied edits a node that the other branch      *)
(* deletes.                                                                *)
LEMMA FaultIsEdit ==
  ASSUME GInv, NEW c \in Ready, ~Applicable(merged, c)
  PROVE  \E n \in Id : DeletedAndEdited(n)
<1>1. Trees3 /\ c \in Initial
  BY ReadyAlone DEF GInv, Static
<1>2. PICK b \in c.branches : TRUE
  BY <1>1, SomeBranch
<1>3. CASE c.content = FALSE
  <2>1. c.node \in Id /\ \A d \in Done : d.node # c.node
    BY <1>1, <1>2, <1>3, OfBranch, ReadyAlone
  <2>2. /\ c.node \in Nodes(merged) <=> c.from # Absent
        /\ c.from # Absent => merged[c.node].parent = c.from.parent
    BY <1>1, <1>2, <1>3, <2>1, ChangeLines, NotDone
  <2>3. CASE c.type = "Insertion"
    <3>1. c.node \notin Nodes(merged)
      BY <1>1, <1>3, <2>2, <2>3, ChangeTypes
    <3> QED BY <2>3, <3>1, NewParentPresent DEF Applicable
  <2>4. CASE c.type = "Deletion"
    <3>1. c.node \in Nodes(merged)
      BY <1>1, <1>3, <2>2, <2>4, ChangeTypes
    <3> QED BY <2>4, <3>1, ChildrenGone DEF Applicable
  <2>5. CASE c.type = "Move"
    <3>1. c.node \in Nodes(merged) /\ merged[c.node].parent = OldParent(c)
      BY <1>1, <1>3, <2>2, <2>5, ChangeTypes
    <3> QED BY <2>5, <3>1, NewParentPresent DEF Applicable
  <2>6. CASE c.type = "Stationary"
    <3>1. c.node \in Nodes(merged)
      BY <1>1, <1>3, <2>2, <2>6, ChangeTypes
    <3> QED BY <2>6, <3>1 DEF Applicable
  <2> QED BY <1>1, <1>3, <2>3, <2>4, <2>5, <2>6, ChangeTypes
<1>4. CASE c.content = TRUE
  <2>1. c.type = "Stationary" /\ c.node \notin Nodes(merged)
    BY <1>1, <1>4, ContentIsStationary DEF Applicable
  <2>2. IsContentChange(c) /\ b \in {"A", "B"}
    <3>1. ~IsPlaceChange(c)
      BY <1>4 DEF IsPlaceChange
    <3> QED BY <1>1, <1>2, <3>1, InitialShape DEF Trees3
  <2>3. b = "A" => Is(c, base, branchA)
    BY <1>1, <1>2, InitialShape DEF Trees3
  <2>4. b = "B" => Is(c, base, branchB)
    BY <1>1, <1>2, InitialShape DEF Trees3
  <2> DEFINE n == c.node
  <2>5. /\ n \in Id /\ n \in Nodes(base)
        /\ b = "A" => n \in Nodes(branchA) /\ branchA[n].content # base[n].content
        /\ b = "B" => n \in Nodes(branchB) /\ branchB[n].content # base[n].content
    BY <1>4, <2>2, <2>3, <2>4, AbsentAssumption DEF Is, IsContentChange, Nodes
  <2>6. PICK e \in Done : e.node = n
    BY <2>1, <2>5, NotDone
  <2>7. e \in Initial /\ e.content = FALSE /\ e.to = Absent
    BY <2>1, <2>6, DonePlace DEF Done
  <2>8. PICK k \in e.branches : TRUE
    BY <1>1, <2>7, SomeBranch
  <2>9. k \in {"A", "B"} /\ n \notin Nodes(Branch(k))
    BY <1>1, <2>6, <2>7, <2>8, OfBranch, ChangeLines
  <2>10. DeletedAndEdited(n)
    BY <2>2, <2>5, <2>9 DEF DeletedAndEdited, Branch
  <2> QED BY <2>5, <2>10
<1> QED BY <1>1, <1>3, <1>4, ContentIsStationary

(***************************************************************************)
(* applyChange (ChangeGraph.cpp:819) finds the node, its old parent and    *)
(* its new parent, and an empty subtree to delete, whatever was applied    *)
(* before and whatever cycles were broken; but for a change of the content *)
(* of a node that the other branch deletes.                                *)
(***************************************************************************)
THEOREM AllApplicable == Spec => []ChangesApplicable
<1>1. Init => ChangesApplicable
  BY DEF Init, ChangesApplicable
<1>2. ASSUME GInv, ChangesApplicable, [Next]_vars PROVE ChangesApplicable'
  <2>1. UNCHANGED inputs
    BY <1>2 DEF Next, ApplyChange, BreakCycle, Scan, EndScan, vars
  <2>2. \A n : DeletedAndEdited(n)' = DeletedAndEdited(n)
    BY <2>1 DEF inputs, DeletedAndEdited, Nodes
  <2>3. CASE phase = "fault"
    BY <1>2, <2>2, <2>3 DEF ChangesApplicable
  <2>4. CASE phase # "fault"
    <3> SUFFICES ASSUME phase' = "fault" PROVE \E n \in Id : DeletedAndEdited(n)
      BY <2>2 DEF ChangesApplicable
    <3>1. CASE \E c \in changes : ApplyChange(c)
      <4>1. PICK c \in changes : ApplyChange(c)
        BY <3>1
      <4>2. c \in Ready /\ ~Applicable(merged, c)
        BY <2>4, <4>1 DEF ApplyChange
      <4> QED BY <1>2, <4>2, FaultIsEdit
    <3>2. CASE \E c \in changes : BreakCycle(c)
      BY <2>4, <3>2 DEF BreakCycle
    <3>3. CASE Scan \/ EndScan \/ UNCHANGED vars
      BY <2>4, <3>3 DEF Scan, EndScan, vars
    <3> QED BY <1>2, <3>1, <3>2, <3>3 DEF Next
  <2> QED BY <2>3, <2>4
<1> QED BY <1>1, <1>2, GraphKept, PTL DEF Spec

-----------------------------------------------------------------------------
(* At any time every node has its parent. *)
ParentsPresent == \A n \in Nodes(merged) : merged[n].parent \in Nodes(merged) \cup {RootId}

LEMMA ParentsKept ==
  ASSUME GInv, ParentsPresent, NEW c \in changes, ApplyChange(c)
  PROVE  ParentsPresent'
<1>1. CASE ~Applicable(merged, c)
  BY <1>1 DEF ApplyChange, ParentsPresent, Nodes
<1>2. CASE Applicable(merged, c)
  <2>1. PICK t : t = Applied(merged, c)
    OBVIOUS
  <2>2. merged' = t
    BY <1>2, <2>1 DEF ApplyChange
  <2>3. c \in Ready /\ Trees3 /\ c \in Initial /\ merged \in Trees
    BY ReadyAlone DEF ApplyChange, GInv, Static, IInv, TypeOK
  <2> DEFINE n == c.node
  <2>4. CASE c.content = TRUE
    <3>1. IsContentChange(c)
      <4>1. ~IsPlaceChange(c)
        BY <2>4 DEF IsPlaceChange
      <4> QED BY <2>3, <4>1, InitialShape DEF Trees3
    <3>2. /\ t \in Trees /\ \A m \in Id : m # n => t[m] = merged[m]
          /\ Placed(t[n]) = Placed(merged[n])
      BY <1>2, <2>1, <2>3, <3>1, ContentApplied
    <3>3. \A m \in Id : /\ m \in Nodes(t) <=> m \in Nodes(merged)
                        /\ m \in Nodes(t) => t[m].parent = merged[m].parent
      <4> SUFFICES ASSUME NEW m \in Id
                   PROVE  /\ m \in Nodes(t) <=> m \in Nodes(merged)
                          /\ m \in Nodes(t) => t[m].parent = merged[m].parent
        OBVIOUS
      <4>1. Placed(t[m]) = Placed(merged[m]) /\ t[m] \in AnyLine /\ merged[m] \in AnyLine
        BY <2>3, <3>2, TreeLine
      <4>2. t[m] = Absent <=> merged[m] = Absent
        BY <4>1, PlacedLine
      <4>3. t[m] # Absent => t[m].parent = merged[m].parent
        BY <4>1, <4>2, SamePlace DEF AnyLine
      <4> QED BY <4>2, <4>3 DEF Nodes
    <3>4. \A m \in Nodes(t) : t[m].parent \in Nodes(t) \cup {RootId}
      BY <3>3, NodesAreIds DEF ParentsPresent
    <3> QED BY <2>2, <3>4 DEF ParentsPresent, Nodes
  <2>5. CASE c.content = FALSE
    <3>1. PICK b \in c.branches : TRUE
      BY <2>3, SomeBranch
    <3>2. /\ IsPlaceChange(c) /\ n \in Id /\ c.from = Placed(base[n]) /\ c.from # c.to
          /\ b \in {"A", "B"} /\ c.to = Placed(Branch(b)[n])
      BY <2>3, <2>5, <3>1, OfBranch
    <3>3. base[n] \in AnyLine /\ Branch(b)[n] \in AnyLine /\ merged[n] \in AnyLine
      BY <2>3, <3>2, TreesOfBranches, TreeLine
    <3>4. Placed(c.from) = c.from /\ Placed(c.to) = c.to
      BY <3>2, <3>3, PlacedTwice
    <3>5. Placed(merged[n]) = Placed(c.from)
      <4>1. PlaceLeft(n) /\ MergedIsThreeWay
        BY <2>5 DEF PlaceLeft, GInv, IInv
      <4> QED BY <3>2, <3>4, <4>1, ThreeWayPlaces
    <3>6. /\ t \in Trees /\ \A m \in Id : m # n => t[m] = merged[m]
          /\ Placed(t[n]) = c.to
      BY <1>2, <2>1, <2>3, <3>2, <3>4, <3>5, PlaceApplied
    <3>7. /\ n \in Nodes(t) <=> c.to # Absent
          /\ c.to # Absent => t[n].parent = c.to.parent
      BY <3>2, <3>6, TreeLine, PlacedLine
    <3>8. /\ n \in Nodes(merged) <=> c.from # Absent
          /\ c.from # Absent => merged[n].parent = c.from.parent
      BY <2>3, <3>2, <3>3, <3>4, <3>5, PlacedLine, TreeLine
    <3>9. \A m \in Id : m # n => (m \in Nodes(t) <=> m \in Nodes(merged))
      BY <3>6 DEF Nodes
    <3>10. ASSUME NEW m \in Nodes(t), m # n PROVE t[m].parent \in Nodes(t) \cup {RootId}
      <4>1. m \in Nodes(merged) /\ t[m].parent = merged[m].parent
        BY <3>6, <3>9, <3>10, NodesAreIds
      <4>2. merged[m].parent \in Nodes(merged) \cup {RootId}
        BY <4>1 DEF ParentsPresent
      <4>3. CASE merged[m].parent = n
        <5>1. c.type # "Deletion"
          BY <2>3, <4>1, <4>3, ChildrenGone
        <5>2. c.to # Absent
          BY <2>3, <2>5, <5>1, ChangeTypes
        <5> QED BY <3>7, <4>1, <4>3, <5>2
      <4> QED BY <3>9, <4>1, <4>2, <4>3, NodesAreIds
    <3>11. ASSUME n \in Nodes(t) PROVE t[n].parent \in Nodes(t) \cup {RootId}
      <4>1. c.to # Absent /\ t[n].parent = c.to.parent
        BY <3>7, <3>11
      <4>2. c.to.parent \in Nodes(merged) \cup {RootId}
        <5>1. CASE c.type \in {"Insertion", "Move"}
          <6>1. NewParent(c) = c.to.parent
            BY <4>1 DEF NewParent
          <6> QED BY <2>3, <5>1, <6>1, NewParentPresent
        <5>2. CASE c.type = "Stationary"
          <6>1. c.from # Absent /\ c.from.parent = c.to.parent
            BY <2>3, <2>5, <5>2, ChangeTypes
          <6> QED BY <3>8, <6>1 DEF ParentsPresent
        <5>3. c.type # "Deletion"
          BY <2>3, <2>5, <4>1, ChangeTypes
        <5> QED BY <2>3, <2>5, <5>1, <5>2, <5>3, ChangeTypes
      <4> QED BY <3>9, <3>11, <4>1, <4>2, NodesAreIds
    <3>12. \A m \in Nodes(t) : t[m].parent \in Nodes(t) \cup {RootId}
      BY <3>10, <3>11
    <3> QED BY <2>2, <3>12 DEF ParentsPresent, Nodes
  <2> QED BY <2>3, <2>4, <2>5, ContentIsStationary
<1> QED BY <1>1, <1>2

-----------------------------------------------------------------------------
(***************************************************************************)
(* The moves that are applied, or that a broken cycle has set free, do not *)
(* wait for one another in a ring: each was after the one it needs, or in  *)
(* one cycle with it, whose changes one branch made.                       *)
(***************************************************************************)
MoveNeed(c, d) == MoveDependency(Initial, base, c, d)

LooseMoves ==
  \A c, d : Loose(c) /\ c.type = "Move" /\ d.type = "Move" => <<c, d>> \notin dependencies

Earlier == {c \in Initial : c \notin changes \/ Loose(c)}

MovesOrdered ==
  \A X \in SUBSET Earlier : X # {} => \E c \in X : \A d \in X : ~MoveNeed(c, d)

MInv == NewAgree /\ ParentsPresent /\ LooseMoves /\ MovesOrdered

LEMMA NeededMove ==
  ASSUME Static, NEW c \in Initial, NEW d \in Initial, MoveNeed(c, d)
  PROVE  <<c, d>> \in Needs /\ c.type = "Move" /\ d.type = "Move"
BY NeedsCases, MoveNeeds DEF MoveNeed

LEMMA SameMoves ==
  ASSUME UNCHANGED inputs
  PROVE  (\A c, d : MoveNeed(c, d)' = MoveNeed(c, d)) /\ Initial' = Initial /\ NewAgree' = NewAgree
<1>1. base' = base /\ branchA' = branchA /\ branchB' = branchB
  BY DEF inputs
<1>2. Initial' = Initial
  BY <1>1 DEF Initial
<1>3. \A c, d : MoveNeed(c, d)' = MoveNeed(c, d)
  BY <1>1, <1>2 DEF MoveNeed
<1>4. NewAgree' = NewAgree
  BY <1>1 DEF NewAgree, Nodes
<1> QED BY <1>2, <1>3, <1>4

(* What is earlier does not need what is still waited for. *)
LEMMA EarlierNeeds ==
  ASSUME GInv, MInv, NEW c \in Earlier, NEW d \in changes, MoveNeed(c, d)
  PROVE  Loose(d)
<1>1. <<c, d>> \in Needs /\ c.type = "Move" /\ d.type = "Move"
  BY NeededMove DEF Earlier, GInv, IInv
<1>2. <<c, d>> \notin dependencies
  BY <1>1 DEF Earlier, MInv, LooseMoves, GInv, IInv, TypeOK
<1> QED BY <1>1, <1>2 DEF Loose

LEMMA MApply ==
  ASSUME GInv, MInv, NEW c \in changes, ApplyChange(c)
  PROVE  LooseMoves' /\ MovesOrdered'
<1>0. UNCHANGED inputs
  BY DEF ApplyChange
<1>1. (\A x, y : MoveNeed(x, y)' = MoveNeed(x, y)) /\ Initial' = Initial
  BY <1>0, SameMoves
<1>2. CASE ~Applicable(merged, c)
  <2>1. /\ changes' = changes /\ dependencies' = dependencies
        /\ UNCHANGED <<inputs, directConflicts>>
    BY <1>2 DEF ApplyChange
  <2>2. Needs' = Needs
    BY <2>1, SameStatic DEF GInv
  <2>3. \A d : Loose(d)' = Loose(d)
    BY <2>1, <2>2 DEF Loose
  <2>4. Earlier' = Earlier
    BY <1>1, <2>1, <2>3 DEF Earlier
  <2> QED BY <1>1, <2>1, <2>3, <2>4 DEF MInv, LooseMoves, MovesOrdered
<1>3. CASE Applicable(merged, c)
  <2>1. /\ changes' = changes \ {c} /\ dependencies' = WithoutChange(c)
        /\ WaitsFor(c) = {} /\ \A d : Loose(d)' => Loose(d) /\ d # c
    BY <1>3, AppliedGraph
  <2>2. LooseMoves'
    BY <2>1 DEF MInv, LooseMoves, WithoutChange
  <2>3. Earlier' \subseteq Earlier \cup {c}
    BY <1>1, <2>1 DEF Earlier
  <2>4. ASSUME NEW X \in SUBSET (Earlier \cup {c}), X # {}
        PROVE  \E x \in X : \A d \in X : ~MoveNeed(x, d)
    <3> SUFFICES ASSUME \A x \in X : \E d \in X : MoveNeed(x, d) PROVE FALSE
      OBVIOUS
    <3>1. CASE Loose(c)
      <4>1. X \in SUBSET Earlier
        BY <3>1 DEF Earlier, GInv, IInv
      <4> QED BY <2>4, <4>1 DEF MInv, MovesOrdered
    <3>2. CASE ~Loose(c)
      <4> DEFINE Y == X \ {c}
      <4>1. \A x \in Y : ~MoveNeed(x, c)
        BY <3>2, EarlierNeeds
      <4>2. ~MoveNeed(c, c)
        <5> SUFFICES ASSUME MoveNeed(c, c) PROVE FALSE
          OBVIOUS
        <5>1. <<c, c>> \in Needs
          BY NeededMove DEF GInv, IInv
        <5>2. <<c, c>> \in dependencies
          BY <3>2, <5>1 DEF Loose
        <5> QED BY <2>1, <5>2 DEF WaitsFor
      <4>3. Y \in SUBSET Earlier /\ Y # {} /\ \A x \in Y : \E d \in Y : MoveNeed(x, d)
        BY <2>4, <4>1, <4>2
      <4> QED BY <4>3 DEF MInv, MovesOrdered
    <3> QED BY <3>1, <3>2
  <2>5. MovesOrdered'
    BY <1>1, <2>3, <2>4 DEF MovesOrdered
  <2> QED BY <2>2, <2>5
<1> QED BY <1>2, <1>3

LEMMA MBreakCycle ==
  ASSUME GInv, MInv, NEW c \in okToBreakCycle, IsCycle(Walk(c), c), dependencies' = Remaining(Walk(c)),
         UNCHANGED <<inputs, changes, directConflicts>>
  PROVE  LooseMoves' /\ MovesOrdered'
<1>0. PICK W : W = Walk(c)
  OBVIOUS
<1>1. (\A x, y : MoveNeed(x, y)' = MoveNeed(x, y)) /\ Initial' = Initial
  BY SameMoves
<1>2. /\ \A v : WaitsFor(v)' \subseteq WaitsFor(v)
      /\ \A d : Loose(d)' => Loose(d) \/ d \in W
      /\ \A v, d : v \in W /\ <<v, d>> \in dependencies' => v.type = "Deletion" \/ d.type = "Insertion"
  BY <1>0, BrokenGraph
<1>3. dependencies' \subseteq dependencies /\ changes' = changes
  BY DEF Remaining
<1>4. TypeOK /\ Static /\ OkOnes /\ changes \subseteq Initial /\ Trees3 /\ NewAgree
  BY DEF GInv, IInv, Static, MInv
<1>5. W \subseteq okToBreakCycle /\ W \subseteq changes /\ c \in W
      /\ \A w \in W : WaitsFor(w) # {} /\ WaitsFor(w) \subseteq W
      /\ \A Y \in SUBSET W : Y # {} /\ (\A y \in Y : WaitsFor(y) \cap Y # {}) => Y = W
  BY <1>0, <1>4, CycleShape DEF TypeOK
<1>6. LooseMoves'
  BY <1>2, <1>3 DEF MInv, LooseMoves
<1>7. Earlier' \subseteq Earlier \cup W
  BY <1>1, <1>2, <1>3 DEF Earlier
<1>8. ASSUME NEW X \in SUBSET (Earlier \cup W), X # {}
      PROVE  \E x \in X : \A d \in X : ~MoveNeed(x, d)
  <2> SUFFICES ASSUME \A x \in X : \E d \in X : MoveNeed(x, d) PROVE FALSE
    OBVIOUS
  <2>1. X \in SUBSET Initial
    BY <1>4, <1>5 DEF Earlier
  <2> DEFINE Z == X \cap Earlier
  <2>2. ASSUME NEW x \in Z PROVE \E d \in Z : MoveNeed(x, d)
    <3>1. PICK d \in X : MoveNeed(x, d)
      OBVIOUS
    <3>2. d \in changes => Loose(d)
      BY <3>1, EarlierNeeds
    <3>3. d \in Earlier
      BY <2>1, <3>2 DEF Earlier
    <3> QED BY <3>1, <3>3
  <2>3. Z = {}
    BY <2>2 DEF MInv, MovesOrdered
  <2>4. X \in SUBSET W /\ \A x \in X : x \in changes /\ ~Loose(x)
    BY <1>5, <2>1, <2>3 DEF Earlier
  <2>5. \A x, d \in X : MoveNeed(x, d) => d \in WaitsFor(x)
    <3> SUFFICES ASSUME NEW x \in X, NEW d \in X, MoveNeed(x, d) PROVE d \in WaitsFor(x)
      OBVIOUS
    <3>1. <<x, d>> \in Needs
      BY <1>4, <2>1, NeededMove
    <3>2. <<x, d>> \in dependencies
      BY <2>4, <3>1 DEF Loose
    <3> QED BY <2>4, <3>2 DEF WaitsFor
  <2>6. PICK b \in c.branches : TRUE
    BY <1>4, <1>5, SomeBranch
  <2> DEFINE B == {y \in W : b \in y.branches}
  <2>7. B = W
    <3>1. c \in B /\ B \in SUBSET W
      BY <1>5, <2>6
    <3>2. \A y \in B : WaitsFor(y) \cap B # {}
      <4> SUFFICES ASSUME NEW y \in B PROVE WaitsFor(y) \cap B # {}
        OBVIOUS
      <4>1. PICK z : z \in WaitsFor(y)
        BY <1>5
      <4>2. z.branches = y.branches /\ z \in W
        BY <1>4, <1>5, <4>1 DEF OkOnes
      <4> QED BY <4>1, <4>2
    <3> HIDE DEF B
    <3> QED BY <1>5, <3>1, <3>2
  <2>8. \A x \in X : b \in x.branches
    BY <2>4, <2>7
  <2>9. \A x \in X : \E d \in X : MoveDependency(Initial, base, x, d)
    BY DEF MoveNeed
  <2> QED BY <1>4, <1>8, <2>1, <2>8, <2>9, NoMoveRing
<1>9. MovesOrdered'
  BY <1>1, <1>7, <1>8 DEF MovesOrdered
<1> QED BY <1>6, <1>9

LEMMA MSame ==
  ASSUME GInv, MInv, UNCHANGED <<inputs, graph>>
  PROVE  LooseMoves' /\ MovesOrdered'
<1>1. changes' = changes /\ dependencies' = dependencies /\ UNCHANGED <<inputs, directConflicts>>
  BY DEF graph
<1>2. (\A x, y : MoveNeed(x, y)' = MoveNeed(x, y)) /\ Initial' = Initial
  BY <1>1, SameMoves
<1>3. Needs' = Needs
  BY <1>1, SameStatic DEF GInv
<1>4. \A d : Loose(d)' = Loose(d)
  BY <1>1, <1>3 DEF Loose
<1>5. Earlier' = Earlier
  BY <1>1, <1>2, <1>4 DEF Earlier
<1> QED BY <1>1, <1>2, <1>4, <1>5 DEF MInv, LooseMoves, MovesOrdered

LEMMA MInit ==
  ASSUME NewNodesAgree, Init
  PROVE  MInv
<1>1. PICK i \in Inputs : base = i.base /\ branchA = i.branchA /\ branchB = i.branchB
  BY DEF Init
<1>2. NewAgree
  BY <1>1 DEF NewAgree, NewNodesAgree
<1>3. ParentsPresent
  <2>1. IsTree(base) /\ merged = base
    BY <1>1, InputsAssumption DEF Init
  <2> QED BY <2>1 DEF ParentsPresent, IsTree, Rooted
<1>4. changes = Initial /\ dependencies = Needs
  BY DEF Init, Initial, Needs
<1>5. \A d : ~Loose(d)
  BY <1>4 DEF Loose
<1>6. Earlier = {}
  BY <1>4, <1>5 DEF Earlier
<1> QED BY <1>2, <1>3, <1>5, <1>6 DEF MInv, LooseMoves, MovesOrdered

LEMMA MNext ==
  ASSUME GInv, MInv, [Next]_vars
  PROVE  MInv'
<1>1. CASE \E c \in changes : ApplyChange(c)
  <2>1. PICK c \in changes : ApplyChange(c)
    BY <1>1
  <2>2. NewAgree'
    BY <2>1, SameMoves DEF ApplyChange, MInv
  <2> QED BY <2>1, <2>2, MApply, ParentsKept DEF MInv
<1>2. CASE \E c \in changes : BreakCycle(c)
  <2>1. PICK c \in changes : BreakCycle(c)
    BY <1>2
  <2>2. UNCHANGED <<inputs, changes, directConflicts>> /\ merged' = merged
    BY <2>1 DEF BreakCycle
  <2>3. NewAgree' /\ ParentsPresent'
    BY <2>2, SameMoves DEF MInv, ParentsPresent, Nodes
  <2>4. CASE c \in okToBreakCycle /\ IsCycle(Walk(c), c)
    <3>1. dependencies' = Remaining(Walk(c))
      BY <2>1, <2>4 DEF BreakCycle
    <3> QED BY <2>2, <2>3, <2>4, <3>1, MBreakCycle DEF MInv
  <2>5. CASE ~(c \in okToBreakCycle /\ IsCycle(Walk(c), c))
    <3>1. dependencies' = dependencies
      BY <2>1, <2>5 DEF BreakCycle
    <3>2. UNCHANGED <<inputs, graph>>
      BY <2>2, <3>1 DEF graph
    <3> QED BY <2>3, <3>2, MSame DEF MInv
  <2> QED BY <2>4, <2>5
<1>3. CASE Scan \/ EndScan \/ UNCHANGED vars
  <2>1. UNCHANGED <<inputs, graph>> /\ merged' = merged
    BY <1>3 DEF Scan, EndScan, vars
  <2>2. NewAgree' /\ ParentsPresent'
    BY <2>1, SameMoves DEF MInv, ParentsPresent, Nodes
  <2> QED BY <2>1, <2>2, MSame DEF MInv
<1> QED BY <1>1, <1>2, <1>3 DEF Next

-----------------------------------------------------------------------------
(***************************************************************************)
(* The merged tree is a tree.                                              *)
(***************************************************************************)
(* At the end nothing that an applied change needs is left. *)
LEMMA Settled ==
  ASSUME GInv, phase = "done", NEW c \in Initial, c \notin changes, NEW d, <<c, d>> \in Needs
  PROVE  d \notin changes
<1> SUFFICES ASSUME d \in changes PROVE FALSE
  OBVIOUS
<1>1. <<c, d>> \notin dependencies
  BY DEF GInv, IInv, TypeOK
<1>2. Loose(d)
  BY <1>1 DEF Loose
<1>3. PICK V \in SUBSET changes : d \in V /\ Group(V)
  BY <1>2 DEF GInv, Grouped
<1>4. PICK y \in V : WaitsFor(y) \cap V = {}
  BY <1>3 DEF Group
<1>5. WaitsFor(y) = {} /\ Free(y)
  BY <1>3, <1>4 DEF Group
<1>6. y \in Ready
  BY <1>3, <1>5 DEF Ready, Independent, WaitsFor, Free
<1> QED BY <1>6 DEF GInv, NoneReady

(* Only a move takes a node away from the way up. *)
LEMMA ParentEdge ==
  ASSUME GInv, NEW n \in Nodes(merged), \A c \in Done : c.node = n => c.type # "Move"
  PROVE  <<n, merged[n].parent>> \in UpEdges
<1>1. Trees3 /\ n \in Id
  BY NodesAreIds DEF GInv, Static
<1>2. CASE \A c \in Done : c.node # n
  <2>1. n \in Nodes(base) /\ merged[n].parent = base[n].parent
    BY <1>1, <1>2, NotDone
  <2> QED BY <2>1, UpOfBase
<1>3. CASE \E c \in Done : c.node = n
  <2>1. PICK c \in Done : c.node = n
    BY <1>3
  <2>2. c \in Initial /\ c.content = FALSE /\ c.to # Absent /\ merged[n].parent = c.to.parent
    BY <2>1, DonePlace DEF Done
  <2>3. CASE c.type = "Insertion"
    <3>1. NewParent(c) = c.to.parent
      BY <2>2 DEF NewParent
    <3>2. <<c.node, NewParent(c)>> \in UpEdges
      BY <2>2, <2>3, UpOfInserted
    <3> QED BY <2>1, <2>2, <3>1, <3>2
  <2>4. CASE c.type = "Stationary"
    <3>1. c.from # Absent /\ c.from.parent = c.to.parent
      BY <1>1, <2>2, <2>4, ChangeTypes
    <3>2. PICK b \in c.branches : TRUE
      BY <1>1, <2>2, SomeBranch
    <3>3. n \in Nodes(base) /\ base[n].parent = c.from.parent
      BY <1>1, <2>1, <2>2, <3>1, <3>2, ChangeLines
    <3>4. <<n, base[n].parent>> \in UpEdges
      BY <3>3, UpOfBase
    <3> QED BY <2>2, <3>1, <3>3, <3>4
  <2> QED BY <1>1, <2>1, <2>2, <2>3, <2>4, ChangeTypes
<1> QED BY <1>2, <1>3

Above(n) == Reachable(UpEdges, Place, n)

(* A move below a node that is below itself needs another such move. *)
LEMMA RingNeeds ==
  ASSUME GInv, MInv, phase = "done", NEW S \in SUBSET Nodes(merged),
         \A n \in S : merged[n].parent \in S,
         NEW c \in Done, c.type = "Move", c.node \in S
  PROVE  \E d \in Done : d.type = "Move" /\ d.node \in S /\ MoveNeed(c, d)
<1>1. /\ Trees3 /\ c \in Initial /\ c \notin changes /\ UpEdges \subseteq Place \X Place
      /\ Single(UpEdges) /\ NoRing(UpEdges) /\ S \subseteq Place
  BY UpWithin, UpSingle, UpNoRing, NodesAreIds DEF GInv, Static, MInv, Done, Place
<1>2. PICK p : p = NewParent(c)
  OBVIOUS
<1>3. p \in S
  <2>1. merged[c.node].parent = c.to.parent /\ c.to # Absent
    BY DonePlace
  <2> QED BY <1>2, <2>1 DEF NewParent
<1>4. ASSUME NEW x \in S, x \notin Moved(Initial)
      PROVE  <<x, merged[x].parent>> \in UpEdges /\ merged[x].parent \in S
  <2>1. \A d \in Done : d.node = x => d.type # "Move"
    BY <1>4 DEF Moved, Done
  <2> QED BY <2>1, ParentEdge
<1>5. ASSUME NEW x \in S, x \notin Moved(Initial), NEW e \in UpEdges, e[1] = x
      PROVE  e[2] = merged[x].parent /\ e[2] \in S
  <2>1. PICK y : y = merged[x].parent
    OBVIOUS
  <2>2. <<x, y>> \in UpEdges /\ y \in S
    BY <1>4, <1>5, <2>1
  <2>3. <<x, y>>[1] = x /\ <<x, y>>[2] = y
    OBVIOUS
  <2>4. e[2] = y
    BY <1>1, <1>5, <2>2, <2>3 DEF Single
  <2> QED BY <2>1, <2>2, <2>4
<1>6. Above(p) \cap Moved(Initial) # {}
  <2> SUFFICES ASSUME \A x \in Above(p) : x \notin Moved(Initial) PROVE FALSE
    OBVIOUS
  <2>1. \A e \in UpEdges : e[1] \in S /\ e[1] \in Above(p) => e[2] \in S
    BY <1>5
  <2>2. Above(p) \subseteq S
    BY <1>1, <1>3, <2>1, ReachWithin DEF Above
  <2>3. p \in Above(p)
    BY <1>1, <1>3, ReachStart DEF Above
  <2>4. PICK x \in Above(p) : \A e \in UpEdges : e[1] = x => e[2] \notin Above(p)
    BY <1>1, <2>3 DEF NoRing
  <2>5. PICK e : e = <<x, merged[x].parent>>
    OBVIOUS
  <2>6. e \in UpEdges /\ e[1] = x
    BY <1>4, <2>2, <2>5
  <2>7. e[2] \in Above(p)
    BY <1>1, <1>3, <2>6, ReachEdge DEF Above
  <2> QED BY <2>4, <2>6, <2>7
<1>7. PICK q \in Moved(Initial) : q \in Above(p) /\ Above(p) \cap Moved(Initial) \subseteq Above(q)
  BY <1>1, <1>3, <1>6, FirstMet DEF Above
<1>8. q \in S
  <2> SUFFICES ASSUME q \notin S PROVE FALSE
    OBVIOUS
  <2>0. q \in Place
    BY <1>1, <1>3, <1>7, ReachableIs DEF Above
  <2> DEFINE T == {x \in S : q \in Above(x)}
  <2>1. p \in T
    BY <1>3, <1>7
  <2>2. ASSUME NEW e \in UpEdges, e[1] \in T, e[1] \in Above(p)
        PROVE  e[2] \in T
    <3>1. PICK x : x = e[1]
      OBVIOUS
    <3>2. x \in S /\ x \in Place /\ q \in Above(x) /\ x # q /\ x \in Above(p)
      BY <1>1, <2>2, <3>1
    <3>3. x \notin Moved(Initial)
      <4> SUFFICES ASSUME x \in Moved(Initial) PROVE FALSE
        OBVIOUS
      <4>1. x \in Above(q)
        BY <1>7, <3>2
      <4> QED BY <1>1, <2>0, <3>2, <4>1, NoWayRound DEF Above
    <3>4. e[2] \in S
      BY <1>5, <3>1, <3>2, <3>3
    <3>5. PICK f \in UpEdges : f[1] = x /\ q \in Above(f[2])
      BY <1>1, <3>2, ReachFirst DEF Above
    <3>6. f[2] = e[2]
      BY <1>1, <3>1, <3>5 DEF Single
    <3> QED BY <3>4, <3>5, <3>6
  <2>3. Above(p) \subseteq T
    <3> HIDE DEF T
    <3> QED BY <1>1, <1>3, <2>1, <2>2, ReachWithin DEF Above
  <2> QED BY <1>7, <2>3
<1>9. PICK d \in Initial : d.type = "Move" /\ d.node = q
  BY <1>7 DEF Moved
<1>10. MoveNeed(c, d)
  BY <1>2, <1>7, <1>9 DEF MoveNeed, MoveDependency, Ancestors, Above, UpEdges, Place
<1>11. <<c, d>> \in Needs
  BY <1>1, <1>9, <1>10, NeededMove DEF GInv
<1>12. d \notin changes /\ d.content = FALSE
  BY <1>1, <1>11, Settled, NeedsPlaces
<1> QED BY <1>8, <1>9, <1>10, <1>12 DEF Done

LEMMA MergedRooted ==
  ASSUME GInv, MInv, phase = "done"
  PROVE  Rooted(merged)
<1>1. ASSUME NEW S \in SUBSET Nodes(merged), S # {}
      PROVE  \E n \in S : merged[n].parent \notin S
  <2> SUFFICES ASSUME \A n \in S : merged[n].parent \in S PROVE FALSE
    OBVIOUS
  <2> DEFINE X == {c \in Done : c.type = "Move" /\ c.node \in S}
  <2>1. \A c \in X : \E d \in X : MoveNeed(c, d)
    BY RingNeeds
  <2>2. X \in SUBSET Earlier
    BY DEF Earlier, Done
  <2>3. X = {}
    <3> HIDE DEF X
    <3> QED BY <2>1, <2>2 DEF MInv, MovesOrdered
  <2>4. NoRing(UpEdges)
    BY UpNoRing DEF GInv, Static, MInv
  <2>5. PICK x \in S : \A e \in UpEdges : e[1] = x => e[2] \notin S
    BY <1>1, <2>4 DEF NoRing
  <2>6. <<x, merged[x].parent>> \in UpEdges
    BY <2>3, ParentEdge
  <2>7. <<x, merged[x].parent>>[1] = x /\ <<x, merged[x].parent>>[2] = merged[x].parent
    OBVIOUS
  <2> QED BY <2>5, <2>6, <2>7
<1> QED BY <1>1 DEF Rooted, MInv, ParentsPresent

-----------------------------------------------------------------------------
(* Where an applied change put a node, its branch has it as well. *)
LEMMA DoneInBranch ==
  ASSUME GInv, NEW c \in Done, c.node \in Nodes(merged), NEW b \in c.branches
  PROVE  /\ b \in {"A", "B"} /\ c.node \in Nodes(Branch(b)) /\ LabelsUnique(Branch(b))
         /\ Branch(b)[c.node].parent = merged[c.node].parent
         /\ Branch(b)[c.node].label = merged[c.node].label
<1>1. /\ Trees3 /\ c \in Initial /\ c.content = FALSE /\ c.to # Absent
      /\ merged[c.node].parent = c.to.parent /\ merged[c.node].label = c.to.label
  BY DonePlace DEF GInv, Static, Done
<1>2. b \in {"A", "B"}
  BY <1>1, OfBranch
<1> QED BY <1>1, <1>2, ChangeLines, TreesOfBranches DEF IsTree

(* The types of the applied changes of nodes that are there. *)
LEMMA DonePresent ==
  ASSUME GInv, NEW c \in Done, c.node \in Nodes(merged)
  PROVE  /\ c.type \in {"Insertion", "Move"} \/ c.label
         /\ c.type # "Deletion" /\ c.content = FALSE /\ c \in Initial /\ c \notin changes
         /\ NewParent(c) = merged[c.node].parent /\ c.to.label = merged[c.node].label
<1>1. /\ Trees3 /\ c \in Initial /\ c.content = FALSE /\ c.to # Absent /\ c \notin changes
      /\ merged[c.node].parent = c.to.parent /\ merged[c.node].label = c.to.label
  BY DonePlace DEF GInv, Static, Done
<1> QED BY <1>1, ChangeTypes

LEMMA LabelFree ==
  ASSUME GInv, phase = "done", NEW c \in Done, c.node \in Nodes(merged),
         NEW m \in Nodes(merged), \A d \in Done : d.node # m,
         merged[m].parent = merged[c.node].parent, merged[m].label = merged[c.node].label
  PROVE  FALSE
<1>1. Trees3 /\ m \in Id /\ c.node # m
  BY NodesAreIds DEF GInv, Static
<1>2. /\ c.type \in {"Insertion", "Move"} \/ c.label
      /\ c.content = FALSE /\ c \in Initial /\ c \notin changes
      /\ NewParent(c) = merged[m].parent /\ c.to.label = merged[m].label
  BY DonePresent
<1>3. PICK b \in c.branches : TRUE
  BY <1>1, <1>2, SomeBranch
<1>4. /\ b \in {"A", "B"} /\ c.node \in Nodes(Branch(b)) /\ LabelsUnique(Branch(b))
      /\ Branch(b)[c.node].parent = merged[m].parent /\ Branch(b)[c.node].label = merged[m].label
  BY <1>3, DoneInBranch
<1>5. /\ m \in Nodes(base)
      /\ base[m].parent = merged[m].parent /\ base[m].label = merged[m].label
  BY <1>1, NotDone
<1>6. Placed(base[m]) # Placed(Branch(b)[m])
  <2> SUFFICES ASSUME Placed(base[m]) = Placed(Branch(b)[m]) PROVE FALSE
    OBVIOUS
  <2>1. base[m] \in AnyLine /\ Branch(b)[m] \in AnyLine /\ base[m] # Absent
    BY <1>1, <1>4, <1>5, TreesOfBranches, TreeLine
  <2>2. Branch(b)[m] # Absent
    BY <2>1, PlacedLine
  <2>3. Branch(b)[m].parent = base[m].parent /\ Branch(b)[m].label = base[m].label
    BY <2>1, <2>2, SamePlace DEF AnyLine
  <2>4. m \in Nodes(Branch(b))
    BY <1>1, <2>2 DEF Nodes
  <2> QED BY <1>1, <1>4, <1>5, <2>3, <2>4 DEF LabelsUnique
<1>7. PICK d \in Initial : d.node = m /\ d.content = FALSE /\ b \in d.branches
  BY <1>1, <1>4, <1>6, PlaceChanged
<1>8. d.from # Absent /\ d.from.parent = merged[m].parent /\ d.from.label = merged[m].label
  BY <1>1, <1>5, <1>7, ChangeLines
<1>9. OldParent(d) = NewParent(c) /\ (d.label \/ d.type = "Deletion" \/ d.type = "Move")
  BY <1>1, <1>2, <1>7, <1>8, ChangeTypes
<1>10. LabelDependency(c, d)
  BY <1>2, <1>8, <1>9 DEF LabelDependency
<1>11. d \notin changes
  BY <1>2, <1>7, <1>10, NeedsCases, Settled
<1> QED BY <1>7, <1>11 DEF Done

LEMMA MergedLabels ==
  ASSUME GInv, phase = "done"
  PROVE  LabelsUnique(merged)
<1> SUFFICES ASSUME NEW n \in Nodes(merged), NEW m \in Nodes(merged), n # m,
                    merged[n].parent = merged[m].parent, merged[n].label = merged[m].label
             PROVE  FALSE
  BY DEF LabelsUnique
<1>1. Trees3 /\ n \in Id /\ m \in Id
  BY NodesAreIds DEF GInv, Static
<1>2. CASE (\A c \in Done : c.node # n) /\ \A c \in Done : c.node # m
  <2>1. /\ n \in Nodes(base) /\ m \in Nodes(base)
        /\ base[n].parent = base[m].parent /\ base[n].label = base[m].label
    BY <1>1, <1>2, NotDone
  <2> QED BY <1>1, <2>1 DEF Trees3, IsTree, LabelsUnique
<1>3. CASE (\E c \in Done : c.node = n) /\ \A c \in Done : c.node # m
  BY <1>3, LabelFree
<1>4. CASE (\E c \in Done : c.node = m) /\ \A c \in Done : c.node # n
  BY <1>4, LabelFree
<1>5. CASE (\E c \in Done : c.node = n) /\ \E c \in Done : c.node = m
  <2>1. PICK c \in Done : c.node = n
    BY <1>5
  <2>2. PICK d \in Done : d.node = m
    BY <1>5
  <2>3. CASE \E b \in c.branches : b \in d.branches
    <3>1. PICK b \in c.branches : b \in d.branches
      BY <2>3
    <3>2. n \in Nodes(Branch(b)) /\ LabelsUnique(Branch(b))
          /\ Branch(b)[n].parent = merged[n].parent /\ Branch(b)[n].label = merged[n].label
      BY <2>1, <3>1, DoneInBranch
    <3>3. m \in Nodes(Branch(b))
          /\ Branch(b)[m].parent = merged[m].parent /\ Branch(b)[m].label = merged[m].label
      BY <2>2, <3>1, DoneInBranch
    <3> QED BY <3>2, <3>3 DEF LabelsUnique
  <2>4. CASE \A b \in c.branches : b \notin d.branches
    <3>1. /\ c.type # "Deletion" /\ c.content = FALSE /\ c \in Initial /\ c \notin changes
          /\ NewParent(c) = merged[n].parent /\ c.to.label = merged[n].label
      BY <2>1, DonePresent
    <3>2. /\ d.type # "Deletion" /\ d.content = FALSE /\ d \in Initial
          /\ NewParent(d) = merged[m].parent /\ d.to.label = merged[m].label
      BY <2>2, DonePresent
    <3>3. LabelConflict(c, d) /\ LabelConflict(d, c)
      BY <2>1, <2>2, <3>1, <3>2 DEF LabelConflict
    <3>4. DirectConflict(c, d) /\ DirectConflict(d, c)
      BY <3>3 DEF DirectConflict
    <3>5. c.branches \cap d.branches = {}
      BY <2>4
    <3>6. <<c, d>> \in Conflicts(Initial)
      BY <1>1, <3>1, <3>2, <3>4, <3>5, ConflictsOf
    <3> QED BY <3>1, <3>6, DoneAlone
  <2> QED BY <2>3, <2>4
<1> QED BY <1>2, <1>3, <1>4, <1>5

(***************************************************************************)
(* At the end merged is a tree: parents are there, no node is below        *)
(* itself, and siblings have different labels, for any branches that put   *)
(* a node that is new in both below the same parent.                       *)
(***************************************************************************)
THEOREM TreeMerged ==
  ASSUME NewNodesAgree
  PROVE  Spec => []MergedIsTree
<1>1. Init => MInv
  BY MInit
<1>2. GInv /\ MInv /\ [Next]_vars => MInv'
  BY MNext
<1>3. GInv /\ MInv => MergedIsTree
  BY MergedRooted, MergedLabels DEF MergedIsTree, IsTree
<1> QED BY <1>1, <1>2, <1>3, GraphKept, PTL DEF Spec
=============================================================================
