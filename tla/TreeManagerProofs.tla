-------------------------- MODULE TreeManagerProofs --------------------------
(***************************************************************************)
(* TreeManager, for every tree, every number of nodes and every undo       *)
(* limit: as long as client code edits only nodes of the tree, inside      *)
(* sessions, undo and redo restore the tree exactly.                       *)
(*                                                                         *)
(* That undo restores the tree is not inductive: an undone command has to  *)
(* find the tree it left behind.  The inductive invariant says that the    *)
(* trees and revisions in `past` are linked by the commands, forwards and  *)
(* backwards, and that the present ones are those at `pos`.                *)
(*                                                                         *)
(* The first part states facts about the operators of NodeTree: what       *)
(* inserting into and removing from a slot sequence yields, what lies      *)
(* below and above a node, and that the commands keep a tree well formed   *)
(* and are undone exactly.  The last part proves that sessions lock what   *)
(* they edit.                                                              *)
(***************************************************************************)
EXTENDS TreeManager, SequenceTheorems, TLAPS

(***************************************************************************)
(* The elements of a list after QVector::insert and QVector::remove.       *)
(***************************************************************************)
LEMMA InsertAtElements ==
  ASSUME NEW S, NEW s \in Seq(S), NEW e \in S, NEW i \in 1..(Len(s) + 1),
         NEW r, r = InsertAt(s, i, e)
  PROVE  /\ r \in Seq(S) /\ Len(r) = Len(s) + 1 /\ r[i] = e
         /\ \A k \in 1..(i - 1) : r[k] = s[k]
         /\ \A k \in i..Len(s) : r[k + 1] = s[k]
<1> DEFINE a == SubSeq(s, 1, i - 1)
           b == <<e>>
           c == SubSeq(s, i, Len(s))
<1>1. /\ a \in Seq(S) /\ Len(a) = i - 1
      /\ \A k \in 1..(i - 1) : a[k] = s[k]
  BY SubSeqProperties
<1>2. b \in Seq(S) /\ Len(b) = 1 /\ b[1] = e
  OBVIOUS
<1>3. /\ c \in Seq(S) /\ Len(c) = Len(s) - i + 1
      /\ \A k \in 1..(Len(s) - i + 1) : c[k] = s[i + k - 1]
  BY SubSeqProperties
<1> DEFINE ab == a \o b
<1>4. r = ab \o c
  BY DEF InsertAt
<1> HIDE DEF a, b, c
<1>5. /\ ab \in Seq(S) /\ Len(ab) = i
      /\ \A k \in 1..i : ab[k] = IF k < i THEN s[k] ELSE e
  <2>1. /\ ab \in Seq(S) /\ Len(ab) = Len(a) + Len(b)
        /\ \A k \in 1..(Len(a) + Len(b)) : ab[k] = IF k <= Len(a) THEN a[k] ELSE b[k - Len(a)]
    BY <1>1, <1>2, ConcatProperties, Zenon
  <2> HIDE DEF ab
  <2> QED
    BY <1>1, <1>2, <2>1
<1> HIDE DEF ab
<1>6. /\ ab \o c \in Seq(S) /\ Len(ab \o c) = Len(s) + 1
      /\ \A k \in 1..(Len(s) + 1) : (ab \o c)[k] = IF k <= i THEN ab[k] ELSE c[k - i]
  <2>1. /\ ab \o c \in Seq(S) /\ Len(ab \o c) = Len(ab) + Len(c)
        /\ \A k \in 1..(Len(ab) + Len(c)) :
             (ab \o c)[k] = IF k <= Len(ab) THEN ab[k] ELSE c[k - Len(ab)]
    BY <1>3, <1>5, ConcatProperties, Zenon
  <2> DEFINE d == ab \o c
  <2> HIDE DEF d
  <2>2. d \in Seq(S) /\ Len(d) = Len(s) + 1
    BY <1>3, <1>5, <2>1 DEF d
  <2>3. \A k \in 1..(Len(s) + 1) : d[k] = IF k <= i THEN ab[k] ELSE c[k - i]
    BY <1>3, <1>5, <2>1 DEF d
  <2> QED
    BY <2>2, <2>3 DEF d
<1>7. r \in Seq(S) /\ Len(r) = Len(s) + 1 /\ r[i] = e
  BY <1>4, <1>5, <1>6
<1>8. ASSUME NEW k \in 1..(i - 1) PROVE r[k] = s[k]
  BY <1>4, <1>5, <1>6
<1>9. ASSUME NEW k \in i..Len(s) PROVE r[k + 1] = s[k]
  <2>1. r[k + 1] = c[k + 1 - i] /\ k + 1 - i \in 1..(Len(s) - i + 1) /\ i + (k + 1 - i) - 1 = k
    BY <1>4, <1>6
  <2> QED
    BY <1>3, <2>1
<1> QED
  BY <1>7, <1>8, <1>9

LEMMA RemoveAtElements ==
  ASSUME NEW S, NEW s \in Seq(S), NEW i \in 1..Len(s)
  PROVE  /\ RemoveAt(s, i) \in Seq(S)
         /\ Len(RemoveAt(s, i)) = Len(s) - 1
         /\ \A k \in 1..(Len(s) - 1) :
              RemoveAt(s, i)[k] = IF k < i THEN s[k] ELSE s[k + 1]
<1> DEFINE a == SubSeq(s, 1, i - 1)
           c == SubSeq(s, i + 1, Len(s))
<1>1. /\ a \in Seq(S) /\ Len(a) = i - 1
      /\ \A k \in 1..(i - 1) : a[k] = s[k]
  BY SubSeqProperties
<1>2. /\ c \in Seq(S) /\ Len(c) = Len(s) - i
      /\ \A k \in 1..(Len(s) - i) : c[k] = s[i + k]
  BY SubSeqProperties
<1>3. RemoveAt(s, i) = a \o c
  BY DEF RemoveAt
<1> HIDE DEF a, c
<1>4. /\ a \o c \in Seq(S) /\ Len(a \o c) = Len(s) - 1
      /\ \A k \in 1..(Len(s) - 1) : (a \o c)[k] = IF k < i THEN a[k] ELSE c[k - i + 1]
  <2>1. /\ a \o c \in Seq(S) /\ Len(a \o c) = Len(a) + Len(c)
        /\ \A k \in 1..(Len(a) + Len(c)) :
             (a \o c)[k] = IF k <= Len(a) THEN a[k] ELSE c[k - Len(a)]
    BY <1>1, <1>2, ConcatProperties, Zenon
  <2> DEFINE d == a \o c
  <2> HIDE DEF d
  <2>2. d \in Seq(S) /\ Len(d) = Len(s) - 1
    BY <1>1, <1>2, <2>1 DEF d
  <2>3. \A k \in 1..(Len(s) - 1) : d[k] = IF k < i THEN a[k] ELSE c[k - i + 1]
    BY <1>1, <1>2, <2>1 DEF d
  <2> QED
    BY <2>2, <2>3 DEF d
<1>5. ASSUME NEW k \in 1..(Len(s) - 1)
      PROVE  (a \o c)[k] = IF k < i THEN s[k] ELSE s[k + 1]
  BY <1>1, <1>2, <1>4
<1> QED
  BY <1>3, <1>4, <1>5

(***************************************************************************)
(* Inserting and removing at the same position undo each other.            *)
(***************************************************************************)
LEMMA RemoveInserted ==
  ASSUME NEW S, NEW s \in Seq(S), NEW e \in S, NEW i \in 1..(Len(s) + 1)
  PROVE  RemoveAt(InsertAt(s, i, e), i) = s
<1> DEFINE t == InsertAt(s, i, e)
<1>1. /\ t \in Seq(S) /\ Len(t) = Len(s) + 1
      /\ \A k \in 1..(i - 1) : t[k] = s[k]
      /\ \A k \in i..Len(s) : t[k + 1] = s[k]
  BY InsertAtElements
<1> HIDE DEF t
<1> DEFINE r == RemoveAt(t, i)
<1>2. i \in 1..Len(t) /\ Len(s) \in Nat
  BY <1>1
<1>3. /\ r \in Seq(S) /\ Len(r) = Len(t) - 1
      /\ \A k \in 1..(Len(t) - 1) : r[k] = IF k < i THEN t[k] ELSE t[k + 1]
  BY <1>1, <1>2, RemoveAtElements, Zenon
<1> HIDE DEF r
<1>4. ASSUME NEW k \in 1..Len(s) PROVE r[k] = s[k]
  <2>1. r[k] = IF k < i THEN t[k] ELSE t[k + 1]
    BY <1>1, <1>2, <1>3
  <2>2. CASE k < i
    BY <1>1, <2>1, <2>2
  <2>3. CASE ~(k < i)
    BY <1>1, <2>1, <2>3
  <2> QED
    BY <2>2, <2>3
<1> QED
  BY <1>1, <1>3, <1>4, SeqEqual DEF r, t

LEMMA InsertRemoved ==
  ASSUME NEW S, NEW s \in Seq(S), NEW i \in 1..Len(s)
  PROVE  InsertAt(RemoveAt(s, i), i, s[i]) = s
<1> DEFINE t == RemoveAt(s, i)
<1>1. /\ t \in Seq(S) /\ Len(t) = Len(s) - 1
      /\ \A k \in 1..(Len(s) - 1) : t[k] = IF k < i THEN s[k] ELSE s[k + 1]
  BY RemoveAtElements
<1> HIDE DEF t
<1> DEFINE e == s[i]
<1>2. t \in Seq(S) /\ e \in S /\ i \in 1..(Len(t) + 1)
  BY <1>1
<1> HIDE DEF e
<1> DEFINE r == InsertAt(t, i, e)
<1>3. /\ r \in Seq(S) /\ Len(r) = Len(t) + 1 /\ r[i] = e
      /\ \A k \in 1..(i - 1) : r[k] = t[k]
      /\ \A k \in i..Len(t) : r[k + 1] = t[k]
  BY <1>2, InsertAtElements
<1> HIDE DEF r
<1>4. ASSUME NEW k \in 1..Len(s) PROVE r[k] = s[k]
  <2>1. CASE k < i
    BY <1>1, <1>3, <2>1
  <2>2. CASE k = i
    BY <1>3, <2>2 DEF e
  <2>3. CASE k > i
    <3>1. k - 1 \in i..Len(t) /\ k - 1 \in 1..(Len(s) - 1) /\ (k - 1) + 1 = k /\ ~(k - 1 < i)
      BY <1>1, <2>3
    <3>2. r[k] = t[k - 1] /\ t[k - 1] = s[(k - 1) + 1]
      BY <1>1, <1>3, <3>1
    <3> QED
      BY <3>1, <3>2
  <2> QED
    BY <2>1, <2>2, <2>3
<1> QED
  BY <1>1, <1>3, <1>4, SeqEqual DEF r, t, e

-----------------------------------------------------------------------------
(***************************************************************************)
(* What lies below and above a node.                                       *)
(***************************************************************************)
LEMMA ChildrenAreNodes ==
  ASSUME NEW t \in Tree, NEW n \in Node
  PROVE  Children(t, n) \subseteq Node
  BY DEF Children, Tree, Range

LEMMA BelowClosed ==
  ASSUME NEW t \in Tree, NEW n \in Node
  PROVE  /\ n \in Below(t, n)
         /\ Below(t, n) \subseteq Node
         /\ \A m \in Below(t, n) : Children(t, m) \subseteq Below(t, n)
<1>1. ASSUME NEW m \in Below(t, n), NEW c \in Children(t, m)
      PROVE  c \in Below(t, n)
  <2>1. c \in Node
    BY ChildrenAreNodes DEF Below
  <2>2. ASSUME NEW S \in SUBSET Node, n \in S, ClosedDown(t, S)
        PROVE  c \in S
    BY <2>2 DEF Below, ClosedDown
  <2> QED
    BY <2>1, <2>2 DEF Below
<1> QED
  BY <1>1 DEF Below

LEMMA BelowLeast ==
  ASSUME NEW t, NEW n, NEW S \in SUBSET Node, n \in S,
         \A m \in S : Children(t, m) \subseteq S
  PROVE  Below(t, n) \subseteq S
  BY DEF Below, ClosedDown

LEMMA AncestryClosed ==
  ASSUME NEW t \in Tree, NEW n \in Node
  PROVE  /\ n \in Ancestry(t, n)
         /\ Ancestry(t, n) \subseteq Node
         /\ \A m \in Ancestry(t, n) : t.parent[m] # NoNode => t.parent[m] \in Ancestry(t, n)
<1>1. ASSUME NEW m \in Ancestry(t, n), t.parent[m] # NoNode
      PROVE  t.parent[m] \in Ancestry(t, n)
  <2>1. t.parent[m] \in Node
    BY <1>1 DEF Ancestry, Tree
  <2>2. ASSUME NEW S \in SUBSET Node, n \in S, ClosedUp(t, S)
        PROVE  t.parent[m] \in S
    BY <1>1, <2>2 DEF Ancestry, ClosedUp
  <2> QED
    BY <2>1, <2>2 DEF Ancestry
<1> QED
  BY <1>1 DEF Ancestry

LEMMA AncestryLeast ==
  ASSUME NEW t, NEW n, NEW S \in SUBSET Node, n \in S,
         \A m \in S : t.parent[m] # NoNode => t.parent[m] \in S
  PROVE  Ancestry(t, n) \subseteq S
  BY DEF Ancestry, ClosedUp

(***************************************************************************)
(* accessLock() finds an access unit whenever one is above the node: among *)
(* the ancestors from which every unit is still ahead there is a unit, as  *)
(* otherwise the walk to the root would pass the units without meeting one. *)
(***************************************************************************)
LEMMA AccessLockIsUnit ==
  ASSUME NEW t \in Tree, NEW n \in Node
  PROVE  AccessLock(t, n) \in Unit \cup {Root}
<1> DEFINE U == UnitsAbove(t, n)
           S == {m \in Ancestry(t, n) : U \subseteq Ancestry(t, m)}
<1>1. ASSUME U # {} PROVE \E u \in U : U \subseteq Ancestry(t, u)
  <2> SUFFICES ASSUME \A u \in U : ~(U \subseteq Ancestry(t, u)) PROVE FALSE
    OBVIOUS
  <2>1. n \in S /\ S \in SUBSET Node
    BY AncestryClosed DEF UnitsAbove
  <2>2. ASSUME NEW m \in S, t.parent[m] # NoNode PROVE t.parent[m] \in S
    <3> DEFINE p == t.parent[m]
    <3>1. m \in Ancestry(t, n) /\ m \in Node /\ p \in Ancestry(t, n) /\ p \in Node
      BY <2>1, <2>2, AncestryClosed
    <3>2. m \notin U
      BY <2>2
    <3> DEFINE T == {m} \cup Ancestry(t, p)
    <3>3. T \in SUBSET Node /\ m \in T
      BY <3>1, AncestryClosed
    <3>4. p \in Ancestry(t, p)
      BY <3>1, AncestryClosed
    <3>5. \A k \in T : t.parent[k] # NoNode => t.parent[k] \in T
      BY <3>1, <3>4, AncestryClosed
    <3>6. Ancestry(t, m) \subseteq T
      <4> HIDE DEF T, S, U
      <4> QED
        BY <3>3, <3>5, AncestryLeast
    <3> QED
      BY <3>1, <3>2, <3>6
  <2>3. Ancestry(t, n) \subseteq S
    BY <2>1, <2>2, AncestryLeast
  <2> QED
    BY <1>1, <2>3 DEF UnitsAbove
<1>2. CASE UnitsAbove(t, n) = {}
  BY <1>2 DEF AccessLock
<1>3. CASE UnitsAbove(t, n) # {}
  <2>1. AccessLock(t, n) \in UnitsAbove(t, n)
    BY <1>1, <1>3 DEF AccessLock
  <2> QED
    BY <2>1 DEF UnitsAbove
<1> QED
  BY <1>2, <1>3

-----------------------------------------------------------------------------
(***************************************************************************)
(* Well-formed trees.                                                      *)
(***************************************************************************)
LEMMA ChildFacts ==
  ASSUME NEW t \in Tree, WellFormed(t), NEW n \in Node, NEW c \in Children(t, n)
  PROVE  /\ c \in Node /\ t.parent[c] = n /\ t.managed[c] = t.managed[n]
         /\ n \notin Below(t, c)
  BY ChildrenAreNodes DEF WellFormed

(* A manager is set on all nodes below a node or on none. *)
LEMMA ManagedBelow ==
  ASSUME NEW t \in Tree, WellFormed(t), NEW n \in Node, NEW k \in Below(t, n)
  PROVE  t.managed[k] = t.managed[n]
<1> DEFINE S == {m \in Node : t.managed[m] = t.managed[n]}
<1>1. n \in S /\ S \in SUBSET Node
  OBVIOUS
<1>2. \A m \in S : Children(t, m) \subseteq S
  BY ChildFacts
<1>3. Below(t, n) \subseteq S
  BY <1>1, <1>2, BelowLeast
<1> QED
  BY <1>3

LEMMA ParentBelow ==
  ASSUME NEW t \in Tree, WellFormed(t), NEW n \in Node, NEW k \in Below(t, n), k # n
  PROVE  t.parent[k] \in Below(t, n)
<1> DEFINE S == {m \in Below(t, n) : m = n \/ t.parent[m] \in Below(t, n)}
<1>1. n \in S /\ S \in SUBSET Node
  BY BelowClosed
<1>2. ASSUME NEW m \in S, NEW c \in Children(t, m) PROVE c \in S
  BY <1>1, BelowClosed, ChildFacts
<1>3. Below(t, n) \subseteq S
  BY <1>1, <1>2, BelowLeast
<1> QED
  BY <1>3

(* A node is below all its ancestors. *)
LEMMA BelowAncestors ==
  ASSUME NEW t \in Tree, WellFormed(t), NEW n \in Node, NEW k \in Ancestry(t, n)
  PROVE  n \in Below(t, k)
<1> DEFINE S == {m \in Node : n \in Below(t, m)}
<1>1. n \in S /\ S \in SUBSET Node
  BY BelowClosed
<1>2. ASSUME NEW m \in S, t.parent[m] # NoNode PROVE t.parent[m] \in S
  <2> DEFINE p == t.parent[m]
  <2>1. m \in Node /\ p \in Node /\ m \in Children(t, p)
    BY <1>2 DEF Tree, WellFormed
  <2>2. Below(t, p) \in SUBSET Node /\ m \in Below(t, p)
        /\ \A k_1 \in Below(t, p) : Children(t, k_1) \subseteq Below(t, p)
    BY <2>1, BelowClosed
  <2>3. Below(t, m) \subseteq Below(t, p)
    BY <2>2, BelowLeast
  <2> QED
    BY <2>1, <2>3
<1>3. Ancestry(t, n) \subseteq S
  BY <1>1, <1>2, AncestryLeast
<1> QED
  BY <1>3

(***************************************************************************)
(* What is below a node depends on the slots only, and not on those of a   *)
(* node that is not below it.                                              *)
(***************************************************************************)
LEMMA BelowUntouched ==
  ASSUME NEW t \in Tree, NEW u \in Tree, NEW n \in Node, NEW m \in Node,
         n \notin Below(t, m), \A k \in Node \ {n} : u.kids[k] = t.kids[k]
  PROVE  Below(u, m) = Below(t, m)
<1>1. \A k \in Node \ {n} : Children(u, k) = Children(t, k)
  BY DEF Children
<1>2. Below(u, m) \subseteq Below(t, m)
  <2>1. /\ m \in Below(t, m) /\ Below(t, m) \in SUBSET Node
        /\ \A k \in Below(t, m) : Children(u, k) \subseteq Below(t, m)
    BY <1>1, BelowClosed
  <2> QED
    BY <2>1, BelowLeast
<1>3. Below(t, m) \subseteq Below(u, m)
  <2>1. /\ m \in Below(u, m) /\ Below(u, m) \in SUBSET Node
        /\ \A k \in Below(u, m) : Children(t, k) \subseteq Below(u, m)
    BY <1>1, <1>2, BelowClosed
  <2> QED
    BY <2>1, BelowLeast
<1> QED
  BY <1>2, <1>3

LEMMA SameKidsSameBelow ==
  ASSUME NEW t, NEW u, u.kids = t.kids, NEW m
  PROVE  Below(u, m) = Below(t, m)
  BY DEF Below, ClosedDown, Children

-----------------------------------------------------------------------------
(***************************************************************************)
(* An exchange at a node n of the tree: rem, a child of n, leaves and ins, *)
(* a node without a parent, comes (either may be NoNode); the slots of n   *)
(* are s afterwards.  Exchanged is the resulting tree, in one formula.     *)
(***************************************************************************)
BelowSlot(t, x) == IF x = NoNode THEN {} ELSE Below(t, x)

Exchange(t, n, ins, rem, s) ==
  /\ t \in Tree /\ WellFormed(t) /\ n \in Node /\ t.managed[n]
  /\ ins \in Node \cup {NoNode} /\ rem \in Node \cup {NoNode}
  /\ ins # NoNode => t.parent[ins] = NoNode /\ ins # Root
  /\ rem # NoNode => rem \in Children(t, n)
  /\ s \in Seq(Node \cup {NoNode})
  /\ Range(s) \ {NoNode} = (Children(t, n) \ {rem}) \cup ({ins} \ {NoNode})
  /\ \A i, j \in DOMAIN s : s[i] = s[j] /\ s[i] # NoNode => i = j

Exchanged(t, n, ins, rem, s) ==
  [kids |-> [t.kids EXCEPT ![n] = s],
   parent |-> [k \in Node |-> IF k = ins THEN n ELSE IF k = rem THEN NoNode ELSE t.parent[k]],
   managed |-> [k \in Node |-> IF k \in BelowSlot(t, ins) THEN TRUE
                               ELSE IF k \in BelowSlot(t, rem) THEN FALSE ELSE t.managed[k]],
   value |-> t.value]

(* What comes had no manager, what leaves has it; n is below neither. *)
LEMMA ExchangeFacts ==
  ASSUME NEW t, NEW n, NEW ins, NEW rem, NEW s, Exchange(t, n, ins, rem, s)
  PROVE  /\ \A k \in BelowSlot(t, ins) : k \in Node /\ ~t.managed[k]
         /\ \A k \in BelowSlot(t, rem) : k \in Node /\ t.managed[k]
         /\ n \notin BelowSlot(t, ins) /\ n \notin BelowSlot(t, rem)
         /\ ins # NoNode => ins \in BelowSlot(t, ins)
         /\ rem # NoNode => rem \in BelowSlot(t, rem) /\ t.parent[rem] = n
         /\ ins # rem \/ ins = NoNode
<1>1. ASSUME rem # NoNode
      PROVE  /\ rem \in Node /\ rem \in Below(t, rem) /\ t.parent[rem] = n
             /\ n \notin Below(t, rem)
             /\ \A k \in Below(t, rem) : k \in Node /\ t.managed[k]
  <2>1. /\ rem \in Node /\ t.parent[rem] = n /\ n \notin Below(t, rem)
        /\ t.managed[rem] = t.managed[n]
    BY <1>1, ChildFacts DEF Exchange
  <2>2. \A k \in Below(t, rem) : k \in Node /\ t.managed[k] = t.managed[rem]
    BY <2>1, BelowClosed, ManagedBelow DEF Exchange
  <2>3. \A k \in Below(t, rem) : t.managed[k]
    BY <2>1, <2>2 DEF Exchange
  <2> QED
    BY <2>1, <2>2, <2>3, BelowClosed DEF Exchange
<1>2. ASSUME ins # NoNode
      PROVE  /\ ins \in Node /\ ins \in Below(t, ins) /\ t.parent[ins] = NoNode
             /\ \A k \in Below(t, ins) : k \in Node /\ ~t.managed[k]
  <2>1. ins \in Node /\ t.parent[ins] = NoNode /\ ~t.managed[ins]
    BY <1>2 DEF Exchange, WellFormed
  <2>2. \A k \in Below(t, ins) : k \in Node /\ t.managed[k] = t.managed[ins]
    BY <2>1, BelowClosed, ManagedBelow DEF Exchange
  <2>3. \A k \in Below(t, ins) : ~t.managed[k]
    BY <2>1, <2>2
  <2> QED
    BY <2>1, <2>2, <2>3, BelowClosed DEF Exchange
<1>3. n \in Node /\ t.managed[n]
  BY DEF Exchange
<1>4. n # NoNode
  BY <1>3, NoNodeAssumption
<1> QED
  BY <1>1, <1>2, <1>3, <1>4 DEF BelowSlot

LEMMA ExchangedIsTree ==
  ASSUME NEW t, NEW n, NEW ins, NEW rem, NEW s, Exchange(t, n, ins, rem, s)
  PROVE  Exchanged(t, n, ins, rem, s) \in Tree
<1>1. /\ [t.kids EXCEPT ![n] = s] \in [Node -> Seq(Node \cup {NoNode})]
      /\ t.value \in [Node -> Value]
  BY DEF Exchange, Tree
<1>2. [k \in Node |-> IF k = ins THEN n ELSE IF k = rem THEN NoNode ELSE t.parent[k]]
        \in [Node -> Node \cup {NoNode}]
  BY DEF Exchange, Tree
<1>3. [k \in Node |-> IF k \in BelowSlot(t, ins) THEN TRUE
                      ELSE IF k \in BelowSlot(t, rem) THEN FALSE ELSE t.managed[k]]
        \in [Node -> BOOLEAN]
  BY DEF Exchange, Tree
<1> QED
  BY <1>1, <1>2, <1>3 DEF Exchanged, Tree

(* The children after an edit, and what is below a node after it. *)
LEMMA ExchangedChildren ==
  ASSUME NEW t, NEW n, NEW ins, NEW rem, NEW s, Exchange(t, n, ins, rem, s)
  PROVE  LET u == Exchanged(t, n, ins, rem, s)
         IN  /\ Children(u, n) = (Children(t, n) \ {rem}) \cup ({ins} \ {NoNode})
             /\ \A k \in Node \ {n} : u.kids[k] = t.kids[k] /\ Children(u, k) = Children(t, k)
<1> DEFINE u == Exchanged(t, n, ins, rem, s)
<1>1. u.kids[n] = s /\ \A k \in Node \ {n} : u.kids[k] = t.kids[k]
  BY DEF Exchange, Exchanged, Tree
<1> QED
  BY <1>1 DEF Children, Exchange

LEMMA ExchangedBelow ==
  ASSUME NEW t, NEW n, NEW ins, NEW rem, NEW s, Exchange(t, n, ins, rem, s)
  PROVE  LET u == Exchanged(t, n, ins, rem, s)
         IN  \A m \in Node :
               /\ n \notin Below(t, m) => Below(u, m) = Below(t, m)
               /\ Below(u, m) \subseteq Below(t, m) \cup BelowSlot(t, ins)
<1> DEFINE u == Exchanged(t, n, ins, rem, s)
<1> SUFFICES ASSUME NEW m \in Node
             PROVE  /\ n \notin Below(t, m) => Below(u, m) = Below(t, m)
                    /\ Below(u, m) \subseteq Below(t, m) \cup BelowSlot(t, ins)
  OBVIOUS
<1>0. t \in Tree /\ n \in Node /\ u \in Tree /\ ins \in Node \cup {NoNode}
  BY ExchangedIsTree DEF Exchange
<1>1. /\ Children(u, n) = (Children(t, n) \ {rem}) \cup ({ins} \ {NoNode})
      /\ \A k \in Node \ {n} : u.kids[k] = t.kids[k] /\ Children(u, k) = Children(t, k)
  BY ExchangedChildren
<1> HIDE DEF u
<1>2. n \notin Below(t, m) => Below(u, m) = Below(t, m)
  BY <1>0, <1>1, BelowUntouched
<1> DEFINE S == Below(t, m) \cup BelowSlot(t, ins)
<1>3. m \in S /\ S \in SUBSET Node
  BY <1>0, BelowClosed, ExchangeFacts
<1>4. ASSUME NEW k \in Below(t, m) PROVE Children(u, k) \subseteq S
  <2>1. Children(t, k) \subseteq S /\ k \in Node
    BY <1>0, BelowClosed
  <2> QED
    BY <1>1, <2>1, ExchangeFacts
<1>5. ASSUME NEW k \in BelowSlot(t, ins) PROVE Children(u, k) \subseteq S
  <2>1. ins # NoNode /\ k \in Below(t, ins) /\ k \in Node /\ k # n /\ ins \in Node
    BY <1>0, ExchangeFacts DEF BelowSlot
  <2>2. Children(t, k) \subseteq Below(t, ins)
    BY <1>0, <2>1, BelowClosed
  <2> QED
    BY <1>1, <2>1, <2>2 DEF BelowSlot
<1>6. Below(u, m) \subseteq S
  <2>1. \A k \in S : Children(u, k) \subseteq S
    BY <1>4, <1>5
  <2> HIDE DEF S
  <2> QED
    BY <1>3, <2>1, BelowLeast
<1> QED
  BY <1>2, <1>6

(* The nodes of the tree stay below the root, and those that come are below it. *)
LEMMA ExchangedRooted ==
  ASSUME NEW t, NEW n, NEW ins, NEW rem, NEW s, Exchange(t, n, ins, rem, s)
  PROVE  LET u == Exchanged(t, n, ins, rem, s)
         IN  {k \in Node : u.managed[k]} \subseteq Below(u, Root)
<1> DEFINE u == Exchanged(t, n, ins, rem, s)
           S == {k \in Below(t, Root) : k \in BelowSlot(t, rem) \/ k \in Below(u, Root)}
<1>1. /\ t \in Tree /\ n \in Node /\ u \in Tree /\ ins \in Node \cup {NoNode} /\ Root \in Node
      /\ n \in Below(t, Root) /\ {k \in Node : t.managed[k]} \subseteq Below(t, Root)
      /\ rem \in Node \cup {NoNode}
  BY ExchangedIsTree, RootAssumption DEF Exchange, WellFormed
<1>2. /\ Children(u, n) = (Children(t, n) \ {rem}) \cup ({ins} \ {NoNode})
      /\ \A k \in Node \ {n} : u.kids[k] = t.kids[k] /\ Children(u, k) = Children(t, k)
  BY ExchangedChildren
<1>3. /\ n \notin BelowSlot(t, ins) /\ n \notin BelowSlot(t, rem)
      /\ rem # NoNode => rem \in BelowSlot(t, rem)
  BY ExchangeFacts
<1>4. \A k \in Node : u.managed[k] => k \in BelowSlot(t, ins) \/ (t.managed[k] /\ k \notin BelowSlot(t, rem))
  BY DEF Exchanged
<1> HIDE DEF u
<1>5. /\ Root \in Below(u, Root) /\ Below(u, Root) \subseteq Node
      /\ \A k \in Below(u, Root) : Children(u, k) \subseteq Below(u, Root)
  BY <1>1, BelowClosed
<1>6. \A k \in BelowSlot(t, rem) : Children(t, k) \subseteq BelowSlot(t, rem)
  BY <1>1, BelowClosed DEF BelowSlot
<1>7. Below(t, Root) \subseteq S
  <2>1. /\ Root \in Below(t, Root) /\ Below(t, Root) \subseteq Node
        /\ \A k \in Below(t, Root) : Children(t, k) \subseteq Below(t, Root)
    BY <1>1, BelowClosed
  <2>2. Root \in S /\ S \in SUBSET Node
    BY <1>5, <2>1
  <2>3. ASSUME NEW k \in S, NEW c \in Children(t, k) PROVE c \in S
    <3>1. c \in Below(t, Root) /\ k \in Node
      BY <2>1
    <3>2. CASE k \in BelowSlot(t, rem)
      BY <1>6, <3>1, <3>2
    <3>3. CASE k \in Below(u, Root) /\ k # n
      BY <1>2, <1>5, <3>1, <3>3
    <3>4. CASE k \in Below(u, Root) /\ k = n
      BY <1>2, <1>3, <1>5, <3>1, <3>4 DEF Children
    <3> QED
      BY <3>2, <3>3, <3>4
  <2> HIDE DEF S
  <2> QED
    BY <2>2, <2>3, BelowLeast
<1>8. n \in Below(u, Root)
  BY <1>1, <1>3, <1>7
<1>9. BelowSlot(t, ins) \subseteq Below(u, Root)
  <2>1. CASE ins = NoNode
    BY <2>1 DEF BelowSlot
  <2>2. CASE ins # NoNode
    <3>1. ins \in Below(u, Root) /\ ins \in Node /\ BelowSlot(t, ins) = Below(t, ins)
      BY <1>1, <1>2, <1>5, <1>8, <2>2 DEF BelowSlot
    <3>2. Below(u, ins) = Below(t, ins)
      BY <1>1, <1>2, <1>3, <3>1, BelowUntouched
    <3>3. Below(u, ins) \subseteq Below(u, Root)
      BY <1>5, <3>1, BelowLeast
    <3> QED
      BY <3>1, <3>2, <3>3
  <2> QED
    BY <2>1, <2>2
<1>10. {k \in Node : u.managed[k]} \subseteq Below(u, Root)
  BY <1>1, <1>4, <1>7, <1>9
<1> QED
  BY <1>10 DEF u

(***************************************************************************)
(* An edit of a node of the tree keeps the tree well formed.               *)
(***************************************************************************)
LEMMA ExchangedWellFormed ==
  ASSUME NEW t, NEW n, NEW ins, NEW rem, NEW s, Exchange(t, n, ins, rem, s)
  PROVE  WellFormed(Exchanged(t, n, ins, rem, s))
<1> DEFINE u == Exchanged(t, n, ins, rem, s)
<1>1. /\ t \in Tree /\ WellFormed(t) /\ n \in Node /\ t.managed[n] = TRUE /\ u \in Tree
      /\ ins \in Node \cup {NoNode} /\ rem \in Node \cup {NoNode} /\ n # NoNode
      /\ ins # NoNode => t.parent[ins] = NoNode /\ ins # Root
  BY ExchangedIsTree, NoNodeAssumption DEF Exchange, Tree
<1>2. /\ Children(u, n) = (Children(t, n) \ {rem}) \cup ({ins} \ {NoNode})
      /\ \A k \in Node \ {n} : u.kids[k] = t.kids[k] /\ Children(u, k) = Children(t, k)
  BY ExchangedChildren
<1>3. \A k \in Node : u.parent[k] = IF k = ins THEN n ELSE IF k = rem THEN NoNode ELSE t.parent[k]
  BY DEF Exchanged
<1>4. \A k \in Node : u.managed[k] = IF k \in BelowSlot(t, ins) THEN TRUE
                                     ELSE IF k \in BelowSlot(t, rem) THEN FALSE ELSE t.managed[k]
  BY DEF Exchanged
<1>5. \A m \in Node : /\ n \notin Below(t, m) => Below(u, m) = Below(t, m)
                      /\ Below(u, m) \subseteq Below(t, m) \cup BelowSlot(t, ins)
  BY ExchangedBelow
<1>6. /\ \A k \in BelowSlot(t, ins) : k \in Node /\ ~t.managed[k]
      /\ \A k \in BelowSlot(t, rem) : k \in Node /\ t.managed[k]
      /\ n \notin BelowSlot(t, ins) /\ n \notin BelowSlot(t, rem)
      /\ ins # NoNode => ins \in BelowSlot(t, ins)
      /\ rem # NoNode => rem \in BelowSlot(t, rem) /\ t.parent[rem] = n
      /\ ins # rem \/ ins = NoNode
  BY ExchangeFacts
<1>14. /\ \A i, j \in DOMAIN s : s[i] = s[j] /\ s[i] # NoNode => i = j
      /\ u.kids[n] = s
  BY DEF Exchange, Exchanged, Tree
<1>16. {k \in Node : u.managed[k]} \subseteq Below(u, Root)
  BY ExchangedRooted
<1> HIDE DEF u
\* Below an inserted or a removed node, child and parent are there together.
<1>7. ASSUME NEW x \in {ins, rem}, NEW k \in BelowSlot(t, x), k # x
      PROVE  t.parent[k] \in BelowSlot(t, x) /\ t.parent[k] # NoNode
  <2>1. x \in Node /\ k \in Below(t, x) /\ BelowSlot(t, x) = Below(t, x)
    BY <1>1, <1>7 DEF BelowSlot
  <2>2. t.parent[k] \in Below(t, x) /\ Below(t, x) \subseteq Node
    BY <1>1, <1>7, <2>1, ParentBelow, BelowClosed
  <2> QED
    BY <2>1, <2>2, NoNodeAssumption
<1>8. ASSUME NEW x \in {ins, rem}, NEW k \in BelowSlot(t, x)
      PROVE  Children(t, k) \subseteq BelowSlot(t, x)
  <2>1. x \in Node /\ k \in Below(t, x) /\ BelowSlot(t, x) = Below(t, x)
    BY <1>1 DEF BelowSlot
  <2> QED
    BY <1>1, <2>1, BelowClosed
<1>9. ASSUME NEW m \in Node, NEW c \in Children(u, m)
      PROVE  u.parent[c] = m /\ u.managed[c] = u.managed[m] /\ m \notin Below(u, c)
  <2>1. CASE m = n /\ c = ins
    <3>1. c \in Node /\ c # NoNode /\ c \in BelowSlot(t, ins) /\ Below(t, c) = BelowSlot(t, ins)
      BY <1>1, <1>2, <1>6, <2>1, ChildrenAreNodes, NoNodeAssumption DEF BelowSlot
    <3>2. u.parent[c] = m /\ m \notin Below(u, c)
      BY <1>3, <1>5, <1>6, <2>1, <3>1
    <3>3. u.managed[c] = TRUE /\ u.managed[m] = TRUE
      BY <1>1, <1>4, <1>6, <2>1, <3>1
    <3> QED
      BY <3>2, <3>3
  <2>2. CASE m = n /\ c # ins
    <3>1. c \in Children(t, n) /\ c # rem
      BY <1>2, <2>2
    <3>2. c \in Node /\ t.parent[c] = n /\ t.managed[c] = TRUE /\ n \notin Below(t, c)
      BY <1>1, <3>1, ChildFacts
    <3>3. c \notin BelowSlot(t, rem) /\ c \notin BelowSlot(t, ins)
      BY <1>6, <1>7, <2>2, <3>1, <3>2
    <3>4. u.parent[c] = m /\ m \notin Below(u, c)
      BY <1>3, <1>5, <2>2, <3>1, <3>2
    <3>5. u.managed[c] = TRUE /\ u.managed[m] = TRUE
      BY <1>1, <1>4, <1>6, <2>2, <3>2, <3>3
    <3> QED
      BY <3>4, <3>5
  <2>3. CASE m # n
    <3>1. c \in Children(t, m)
      BY <1>2, <2>3
    <3>2. c \in Node /\ t.parent[c] = m /\ t.managed[c] = t.managed[m] /\ m \notin Below(t, c)
      BY <1>1, <3>1, ChildFacts
    <3>3. c # ins /\ c # rem
      BY <1>1, <1>6, <2>3, <3>2, NoNodeAssumption
    <3>4. \A x \in {ins, rem} : c \in BelowSlot(t, x) <=> m \in BelowSlot(t, x)
      BY <1>7, <1>8, <3>1, <3>2, <3>3
    <3>5. u.parent[c] = m
      BY <1>3, <3>2, <3>3
    <3>6. u.managed[c] = u.managed[m]
      BY <1>4, <3>2, <3>4
    <3>7. m \notin Below(u, c)
      <4>1. CASE m \in BelowSlot(t, ins)
        <5>1. /\ c \in BelowSlot(t, ins) /\ BelowSlot(t, ins) \in SUBSET Node
              /\ \A k \in BelowSlot(t, ins) : Children(t, k) \subseteq BelowSlot(t, ins)
          BY <1>6, <1>8, <3>4, <4>1
        <5>2. Below(t, c) \subseteq BelowSlot(t, ins)
          BY <5>1, BelowLeast
        <5> QED
          BY <1>5, <1>6, <3>2, <5>2
      <4>2. CASE m \notin BelowSlot(t, ins)
        BY <1>5, <3>2, <4>2
      <4> QED
        BY <4>1, <4>2
    <3> QED
      BY <3>5, <3>6, <3>7
  <2> QED
    BY <2>1, <2>2, <2>3
<1>10. ASSUME NEW k \in Node, u.parent[k] # NoNode
       PROVE  k \in Children(u, u.parent[k])
  <2>1. CASE k = ins
    BY <1>2, <1>3, <2>1, NoNodeAssumption
  <2>2. CASE k # ins
    <3>1. k # rem /\ u.parent[k] = t.parent[k]
      BY <1>3, <1>10, <2>2
    <3>2. t.parent[k] \in Node /\ k \in Children(t, t.parent[k])
      BY <1>1, <1>10, <3>1 DEF Tree, WellFormed
    <3> QED
      BY <1>2, <3>1, <3>2
  <2> QED
    BY <2>1, <2>2
<1>11. ASSUME NEW k \in Node PROVE \A i, j \in DOMAIN u.kids[k] :
         u.kids[k][i] = u.kids[k][j] /\ u.kids[k][i] # NoNode => i = j
  BY <1>1, <1>2, <1>14 DEF WellFormed
<1>12. ASSUME NEW k \in Node, u.parent[k] = NoNode
       PROVE  u.managed[k] <=> k = Root
  <2>1. k # ins
    BY <1>1, <1>3, <1>12
  <2>2. CASE k = rem
    <3>1. k \in BelowSlot(t, rem) /\ k \notin BelowSlot(t, ins) /\ t.parent[k] = n
      BY <1>6, <2>2, NoNodeAssumption
    <3>2. k # Root
      BY <1>1, <3>1 DEF WellFormed
    <3> QED
      BY <1>4, <3>1, <3>2
  <2>3. CASE k # rem
    <3>1. t.parent[k] = NoNode
      BY <1>3, <1>12, <2>1, <2>3
    <3>2. k \notin BelowSlot(t, ins) /\ k \notin BelowSlot(t, rem)
      BY <1>7, <2>1, <2>3, <3>1
    <3>3. u.managed[k] = t.managed[k]
      BY <1>4, <3>2
    <3> QED
      BY <1>1, <3>1, <3>3 DEF WellFormed
  <2> QED
    BY <2>2, <2>3
<1>13. u.parent[Root] = NoNode
  BY <1>1, <1>3, RootAssumption, NoNodeAssumption DEF WellFormed
<1>15. WellFormed(u)
  BY <1>9, <1>10, <1>11, <1>12, <1>13, <1>16 DEF WellFormed
<1> QED
  BY <1>15 DEF u

(* A walk to the root that meets no changed parent is the same walk. *)
LEMMA SameWalk ==
  ASSUME NEW t \in Tree, NEW u \in Tree, NEW n \in Node,
         \A k \in Ancestry(t, n) : u.parent[k] = t.parent[k]
  PROVE  Ancestry(u, n) = Ancestry(t, n)
<1>1. /\ n \in Ancestry(t, n) /\ Ancestry(t, n) \in SUBSET Node
      /\ \A k \in Ancestry(t, n) : t.parent[k] # NoNode => t.parent[k] \in Ancestry(t, n)
  BY AncestryClosed
<1>2. Ancestry(u, n) \subseteq Ancestry(t, n)
  BY <1>1, AncestryLeast
<1>3. /\ n \in Ancestry(u, n) /\ Ancestry(u, n) \in SUBSET Node
      /\ \A k \in Ancestry(u, n) : u.parent[k] # NoNode => u.parent[k] \in Ancestry(u, n)
  BY AncestryClosed
<1>4. Ancestry(t, n) \subseteq Ancestry(u, n)
  BY <1>2, <1>3, AncestryLeast
<1> QED
  BY <1>2, <1>4

(* The parents and the managers of the edited node and of its ancestors stay. *)
LEMMA ExchangedAbove ==
  ASSUME NEW t, NEW n, NEW ins, NEW rem, NEW s, Exchange(t, n, ins, rem, s),
         NEW k \in Ancestry(t, n)
  PROVE  /\ Exchanged(t, n, ins, rem, s).parent[k] = t.parent[k]
         /\ Exchanged(t, n, ins, rem, s).managed[k] = t.managed[k]
<1>1. k \in Node /\ n \in Below(t, k) /\ t \in Tree /\ n \in Node /\ t.managed[n]
  BY AncestryClosed, BelowAncestors DEF Exchange
<1>2. t.managed[k]
  BY <1>1, ManagedBelow DEF Exchange
<1>3. k \notin BelowSlot(t, rem)
  <2>1. ASSUME k \in BelowSlot(t, rem) PROVE n \in BelowSlot(t, rem)
    <3>1. rem # NoNode /\ rem \in Node /\ k \in Below(t, rem)
      BY <2>1, ChildFacts DEF BelowSlot, Exchange
    <3>2. /\ Below(t, rem) \in SUBSET Node
          /\ \A m \in Below(t, rem) : Children(t, m) \subseteq Below(t, rem)
      BY <1>1, <3>1, BelowClosed
    <3>3. Below(t, k) \subseteq Below(t, rem)
      BY <3>1, <3>2, BelowLeast
    <3> QED
      BY <1>1, <3>1, <3>3 DEF BelowSlot
  <2> QED
    BY <2>1, ExchangeFacts
<1>4. k \notin BelowSlot(t, ins)
  BY <1>2, ExchangeFacts
<1>5. k # ins /\ k # rem
  BY <1>1, <1>3, <1>4, ExchangeFacts, NoNodeAssumption
<1> QED
  BY <1>1, <1>3, <1>4, <1>5 DEF Exchanged

(* So the revisions that move are those of the same nodes. *)
LEMMA ExchangedAncestry ==
  ASSUME NEW t, NEW n, NEW ins, NEW rem, NEW s, Exchange(t, n, ins, rem, s)
  PROVE  Ancestry(Exchanged(t, n, ins, rem, s), n) = Ancestry(t, n)
<1> DEFINE u == Exchanged(t, n, ins, rem, s)
<1>1. t \in Tree /\ n \in Node /\ u \in Tree
  BY ExchangedIsTree DEF Exchange
<1>2. \A k \in Ancestry(t, n) : u.parent[k] = t.parent[k]
  BY ExchangedAbove
<1> HIDE DEF u
<1>3. Ancestry(u, n) = Ancestry(t, n)
  BY <1>1, <1>2, SameWalk
<1> QED
  BY <1>3 DEF u

-----------------------------------------------------------------------------
(***************************************************************************)
(* SetParent in closed form, where it changes the manager.                 *)
(***************************************************************************)
LEMMA TreeEqual ==
  ASSUME NEW t \in Tree, NEW u \in Tree,
         \A k \in Node : /\ t.kids[k] = u.kids[k] /\ t.parent[k] = u.parent[k]
                         /\ (t.managed[k] <=> u.managed[k]) /\ t.value[k] = u.value[k]
  PROVE  t = u
<1>1. /\ t = [kids |-> t.kids, parent |-> t.parent, managed |-> t.managed, value |-> t.value]
      /\ u = [kids |-> u.kids, parent |-> u.parent, managed |-> u.managed, value |-> u.value]
  BY DEF Tree
<1>2. t.kids = u.kids /\ t.parent = u.parent /\ t.value = u.value
  BY DEF Tree
<1>3. t.managed \in [Node -> BOOLEAN] /\ u.managed \in [Node -> BOOLEAN]
  BY DEF Tree
<1>4. \A k \in Node : t.managed[k] = u.managed[k]
  BY <1>3
<1>5. t.managed = u.managed
  BY <1>3, <1>4
<1> QED
  BY <1>1, <1>2, <1>5

LEMMA SetParentNode ==
  ASSUME NEW t \in Tree, NEW x \in Node, NEW p \in Node, t.managed[p], ~t.managed[x],
         NEW u, u = SetParent(t, x, p)
  PROVE  /\ u \in Tree /\ u.kids = t.kids /\ u.value = t.value
         /\ \A k \in Node : u.parent[k] = IF k = x THEN p ELSE t.parent[k]
         /\ \A k \in Node : u.managed[k] <=> k \in Below(t, x) \/ t.managed[k]
<1> DEFINE par == [t.parent EXCEPT ![x] = p]
           man == [k \in Node |-> k \in Below(t, x) \/ t.managed[k]]
<1>1. u = [kids |-> t.kids, parent |-> par, managed |-> man, value |-> t.value]
  BY NoNodeAssumption DEF SetParent, Tree
<1>2. par \in [Node -> Node \cup {NoNode}] /\ man \in [Node -> BOOLEAN]
  BY DEF Tree
<1>3. \A k \in Node : par[k] = IF k = x THEN p ELSE t.parent[k]
  BY DEF Tree
<1>4. \A k \in Node : man[k] <=> k \in Below(t, x) \/ t.managed[k]
  OBVIOUS
<1> HIDE DEF par, man
<1>5. u \in Tree
  BY <1>1, <1>2 DEF Tree
<1>6. u.kids = t.kids /\ u.value = t.value /\ u.parent = par /\ u.managed = man
  BY <1>1
<1> QED
  BY <1>3, <1>4, <1>5, <1>6

LEMMA SetParentNull ==
  ASSUME NEW t \in Tree, NEW x \in Node, t.managed[x],
         NEW u, u = SetParent(t, x, NoNode)
  PROVE  /\ u \in Tree /\ u.kids = t.kids /\ u.value = t.value
         /\ \A k \in Node : u.parent[k] = IF k = x THEN NoNode ELSE t.parent[k]
         /\ \A k \in Node : u.managed[k] <=> k \notin Below(t, x) /\ t.managed[k]
<1> DEFINE par == [t.parent EXCEPT ![x] = NoNode]
           man == [k \in Node |-> k \notin Below(t, x) /\ t.managed[k]]
<1>1. u = [kids |-> t.kids, parent |-> par, managed |-> man, value |-> t.value]
  BY NoNodeAssumption DEF SetParent, Tree
<1>2. par \in [Node -> Node \cup {NoNode}] /\ man \in [Node -> BOOLEAN]
  BY DEF Tree
<1>3. \A k \in Node : par[k] = IF k = x THEN NoNode ELSE t.parent[k]
  BY DEF Tree
<1>4. \A k \in Node : man[k] <=> k \notin Below(t, x) /\ t.managed[k]
  OBVIOUS
<1> HIDE DEF par, man
<1>5. u \in Tree
  BY <1>1, <1>2 DEF Tree
<1>6. u.kids = t.kids /\ u.value = t.value /\ u.parent = par /\ u.managed = man
  BY <1>1
<1> QED
  BY <1>3, <1>4, <1>5, <1>6

LEMMA SetParentNone ==
  ASSUME NEW t, NEW p
  PROVE  SetParent(t, NoNode, p) = t
  BY DEF SetParent

LEMMA WithKidsFacts ==
  ASSUME NEW t \in Tree, NEW n \in Node, NEW s \in Seq(Node \cup {NoNode})
  PROVE  LET u == WithKids(t, n, s)
         IN  /\ u \in Tree /\ u.parent = t.parent /\ u.managed = t.managed /\ u.value = t.value
             /\ \A k \in Node : u.kids[k] = IF k = n THEN s ELSE t.kids[k]
<1> DEFINE new == [t.kids EXCEPT ![n] = s]
<1>1. WithKids(t, n, s) = [kids |-> new, parent |-> t.parent, managed |-> t.managed, value |-> t.value]
  <2>1. WithKids(t, n, s) = [t EXCEPT !.kids = new]
    BY DEF WithKids
  <2> HIDE DEF new
  <2> QED
    BY <2>1 DEF Tree
<1>2. new \in [Node -> Seq(Node \cup {NoNode})] /\ \A k \in Node : new[k] = IF k = n THEN s ELSE t.kids[k]
  BY DEF Tree
<1> HIDE DEF new
<1>3. WithKids(t, n, s) \in Tree
  BY <1>1, <1>2 DEF Tree
<1> QED
  BY <1>1, <1>2, <1>3

(***************************************************************************)
(* Giving n the slots s, ins its parent and rem none, in the order of      *)
(* ListInsert::redo and CompositeNodeChangeChild::redo, is the edit; so is *)
(* the order of ListRemove::redo.                                          *)
(***************************************************************************)
LEMMA ExchangeForward ==
  ASSUME NEW t, NEW n, NEW ins, NEW rem, NEW s, Exchange(t, n, ins, rem, s)
  PROVE  SetParent(SetParent(WithKids(t, n, s), ins, n), rem, NoNode) = Exchanged(t, n, ins, rem, s)
<1> DEFINE w == WithKids(t, n, s)
           v == SetParent(w, ins, n)
           r == SetParent(v, rem, NoNode)
           u == Exchanged(t, n, ins, rem, s)
<1>1. /\ t \in Tree /\ n \in Node /\ t.managed[n] /\ n # NoNode
      /\ ins \in Node \cup {NoNode} /\ rem \in Node \cup {NoNode}
      /\ s \in Seq(Node \cup {NoNode})
  BY NoNodeAssumption DEF Exchange, Tree
<1>2. /\ \A k \in BelowSlot(t, ins) : k \in Node /\ ~t.managed[k]
      /\ \A k \in BelowSlot(t, rem) : k \in Node /\ t.managed[k]
      /\ n \notin BelowSlot(t, ins) /\ n \notin BelowSlot(t, rem)
      /\ ins # NoNode => ins \in BelowSlot(t, ins)
      /\ rem # NoNode => rem \in BelowSlot(t, rem)
      /\ ins # rem \/ ins = NoNode
  BY <1>1, ExchangeFacts DEF Tree
<1>3. /\ w \in Tree /\ w.parent = t.parent /\ w.managed = t.managed /\ w.value = t.value
      /\ \A k \in Node : w.kids[k] = IF k = n THEN s ELSE t.kids[k]
  BY <1>1, WithKidsFacts
<1> HIDE DEF w
<1>4. \A x \in Node : n \notin Below(t, x) => Below(w, x) = Below(t, x)
  BY <1>1, <1>3, BelowUntouched
<1>5. /\ v \in Tree /\ v.kids = w.kids /\ v.value = t.value
      /\ \A k \in Node : v.parent[k] = IF k = ins THEN n ELSE t.parent[k]
      /\ \A k \in Node : v.managed[k] <=> k \in BelowSlot(t, ins) \/ t.managed[k]
  <2>1. CASE ins = NoNode
    BY <1>3, <2>1, SetParentNone, NoNodeAssumption DEF BelowSlot
  <2>2. CASE ins # NoNode
    <3>1. ins \in Node /\ Below(w, ins) = Below(t, ins) /\ ~t.managed[ins]
          /\ BelowSlot(t, ins) = Below(t, ins)
      BY <1>1, <1>2, <1>4, <2>2 DEF BelowSlot
    <3>3. w \in Tree /\ ins \in Node /\ n \in Node
          /\ ~w.managed[ins] /\ w.managed[n]
      BY <1>1, <1>3, <3>1
    <3>4. v = SetParent(w, ins, n)
      OBVIOUS
    <3> HIDE DEF v
    <3>5. /\ v \in Tree /\ v.kids = w.kids /\ v.value = w.value
          /\ \A k \in Node : v.parent[k] = IF k = ins THEN n ELSE w.parent[k]
          /\ \A k \in Node : v.managed[k] <=> k \in Below(w, ins) \/ w.managed[k]
      BY <3>3, <3>4, SetParentNode
    <3> QED
      BY <1>1, <1>3, <3>1, <3>5
  <2> QED
    BY <2>1, <2>2
<1> HIDE DEF v
<1>6. \A x \in Node : n \notin Below(t, x) => Below(v, x) = Below(t, x)
  BY <1>4, <1>5, SameKidsSameBelow
<1>7. /\ r \in Tree /\ r.kids = w.kids /\ r.value = t.value
      /\ \A k \in Node : r.parent[k] = IF k = rem THEN NoNode ELSE v.parent[k]
      /\ \A k \in Node : r.managed[k] <=> k \notin BelowSlot(t, rem) /\ v.managed[k]
  <2>1. CASE rem = NoNode
    BY <1>5, <2>1, SetParentNone, NoNodeAssumption DEF BelowSlot
  <2>2. CASE rem # NoNode
    <3>1. rem \in Node /\ Below(v, rem) = Below(t, rem) /\ BelowSlot(t, rem) = Below(t, rem)
      BY <1>1, <1>2, <1>6, <2>2 DEF BelowSlot
    <3>2. v.managed[rem]
      BY <1>2, <1>5, <2>2, <3>1
    <3>3. v \in Tree /\ rem \in Node
          /\ v.managed[rem]
      BY <1>5, <3>1, <3>2
    <3>4. r = SetParent(v, rem, NoNode)
      OBVIOUS
    <3> HIDE DEF r
    <3>5. /\ r \in Tree /\ r.kids = v.kids /\ r.value = v.value
          /\ \A k \in Node : r.parent[k] = IF k = rem THEN NoNode ELSE v.parent[k]
          /\ \A k \in Node : r.managed[k] <=> k \notin Below(v, rem) /\ v.managed[k]
      BY <3>3, <3>4, SetParentNull
    <3> QED
      BY <1>5, <3>1, <3>2, <3>5
  <2> QED
    BY <2>1, <2>2
<1> HIDE DEF r
<1>8. /\ u \in Tree /\ u.value = t.value
      /\ \A k \in Node : u.kids[k] = IF k = n THEN s ELSE t.kids[k]
      /\ \A k \in Node : u.parent[k] = IF k = ins THEN n ELSE IF k = rem THEN NoNode ELSE t.parent[k]
      /\ \A k \in Node : u.managed[k] <=> (k \in BelowSlot(t, ins)
                          \/ (k \notin BelowSlot(t, rem) /\ t.managed[k]))
  BY <1>1, ExchangedIsTree DEF Exchanged, Tree
<1> HIDE DEF u
<1>9. ASSUME NEW k \in Node
      PROVE  /\ r.kids[k] = u.kids[k] /\ r.value[k] = u.value[k]
             /\ r.parent[k] = u.parent[k] /\ (r.managed[k] <=> u.managed[k])
  <2>1. r.kids[k] = u.kids[k] /\ r.value[k] = u.value[k]
    BY <1>3, <1>7, <1>8
  <2>2. r.parent[k] = u.parent[k]
    BY <1>2, <1>5, <1>7, <1>8, NoNodeAssumption
  <2>3. (r.managed[k] <=> u.managed[k])
    BY <1>2, <1>5, <1>7, <1>8
  <2> QED
    BY <2>1, <2>2, <2>3
<1>10. r = u
  BY <1>7, <1>8, <1>9, TreeEqual
<1> QED
  BY <1>10 DEF r, v, w, u

LEMMA RemoveForward ==
  ASSUME NEW t, NEW n, NEW rem, NEW s, Exchange(t, n, NoNode, rem, s)
  PROVE  WithKids(SetParent(t, rem, NoNode), n, s) = Exchanged(t, n, NoNode, rem, s)
<1> DEFINE v == SetParent(t, rem, NoNode)
           r == WithKids(v, n, s)
           u == Exchanged(t, n, NoNode, rem, s)
<1>1. /\ t \in Tree /\ n \in Node /\ rem \in Node \cup {NoNode}
      /\ s \in Seq(Node \cup {NoNode})
      /\ rem # NoNode => t.managed[rem]
  <2>1. rem # NoNode => rem \in Node /\ t.managed[rem]
    BY ExchangeFacts
  <2> QED
    BY <2>1 DEF Exchange, Tree
<1>2. /\ v \in Tree /\ v.kids = t.kids /\ v.value = t.value
      /\ \A k \in Node : v.parent[k] = IF k = rem THEN NoNode ELSE t.parent[k]
      /\ \A k \in Node : v.managed[k] <=> k \notin BelowSlot(t, rem) /\ t.managed[k]
  <2>1. CASE rem = NoNode
    BY <1>1, <2>1, SetParentNone, NoNodeAssumption DEF BelowSlot
  <2>2. CASE rem # NoNode
    <3>1. rem \in Node /\ BelowSlot(t, rem) = Below(t, rem) /\ t.managed[rem]
      BY <1>1, <2>2 DEF BelowSlot
    <3>3. t \in Tree /\ rem \in Node
          /\ t.managed[rem]
      BY <1>1, <3>1
    <3>4. v = SetParent(t, rem, NoNode)
      OBVIOUS
    <3> HIDE DEF v
    <3>5. /\ v \in Tree /\ v.kids = t.kids /\ v.value = t.value
          /\ \A k \in Node : v.parent[k] = IF k = rem THEN NoNode ELSE t.parent[k]
          /\ \A k \in Node : v.managed[k] <=> k \notin Below(t, rem) /\ t.managed[k]
      BY <3>3, <3>4, SetParentNull
    <3> QED
      BY <1>1, <3>1, <3>5
  <2> QED
    BY <2>1, <2>2
<1> HIDE DEF v
<1>3. /\ r \in Tree /\ r.parent = v.parent /\ r.managed = v.managed /\ r.value = v.value
      /\ \A k \in Node : r.kids[k] = IF k = n THEN s ELSE v.kids[k]
  BY <1>1, <1>2, WithKidsFacts
<1> HIDE DEF r
<1>4. /\ u \in Tree /\ u.value = t.value
      /\ \A k \in Node : u.kids[k] = IF k = n THEN s ELSE t.kids[k]
      /\ \A k \in Node : u.parent[k] = IF k = rem THEN NoNode ELSE t.parent[k]
      /\ \A k \in Node : u.managed[k] <=> k \notin BelowSlot(t, rem) /\ t.managed[k]
  BY <1>1, ExchangedIsTree, NoNodeAssumption DEF Exchanged, Tree, BelowSlot
<1> HIDE DEF u
<1>5. r = u
  BY <1>2, <1>3, <1>4, TreeEqual
<1> QED
  BY <1>5 DEF r, v, u

(***************************************************************************)
(* Going back: the old slots, then no parent for ins and n for rem, give   *)
(* the tree from before the edit.                                          *)
(***************************************************************************)
LEMMA ExchangeBackward ==
  ASSUME NEW t, NEW n, NEW ins, NEW rem, NEW s, Exchange(t, n, ins, rem, s)
  PROVE  SetParent(SetParent(WithKids(Exchanged(t, n, ins, rem, s), n, t.kids[n]), ins, NoNode), rem, n)
           = t
<1> DEFINE u == Exchanged(t, n, ins, rem, s)
           w == WithKids(u, n, t.kids[n])
           v == SetParent(w, ins, NoNode)
           r == SetParent(v, rem, n)
<1>1. /\ t \in Tree /\ n \in Node /\ t.managed[n] /\ n # NoNode
      /\ ins \in Node \cup {NoNode} /\ rem \in Node \cup {NoNode}
      /\ t.kids[n] \in Seq(Node \cup {NoNode})
      /\ ins # NoNode => t.parent[ins] = NoNode
  BY NoNodeAssumption DEF Exchange, Tree
<1>2. /\ \A k \in BelowSlot(t, ins) : k \in Node /\ ~t.managed[k]
      /\ \A k \in BelowSlot(t, rem) : k \in Node /\ t.managed[k]
      /\ n \notin BelowSlot(t, ins) /\ n \notin BelowSlot(t, rem)
      /\ ins # NoNode => ins \in BelowSlot(t, ins)
      /\ rem # NoNode => rem \in BelowSlot(t, rem) /\ t.parent[rem] = n
      /\ ins # rem \/ ins = NoNode
  BY <1>1, ExchangeFacts DEF Tree
<1>3. /\ u \in Tree /\ u.value = t.value
      /\ \A k \in Node : u.kids[k] = IF k = n THEN s ELSE t.kids[k]
      /\ \A k \in Node : u.parent[k] = IF k = ins THEN n ELSE IF k = rem THEN NoNode ELSE t.parent[k]
      /\ \A k \in Node : u.managed[k] <=> (k \in BelowSlot(t, ins)
                          \/ (k \notin BelowSlot(t, rem) /\ t.managed[k]))
  BY <1>1, ExchangedIsTree DEF Exchanged, Tree
<1> HIDE DEF u
<1>4. /\ w \in Tree /\ w.parent = u.parent /\ w.managed = u.managed /\ w.value = t.value
      /\ \A k \in Node : w.kids[k] = t.kids[k]
  BY <1>1, <1>3, WithKidsFacts
<1> HIDE DEF w
<1>5. w.kids = t.kids
  BY <1>1, <1>4 DEF Tree
<1>6. \A x : Below(w, x) = Below(t, x)
  BY <1>5, SameKidsSameBelow
<1>7. /\ v \in Tree /\ v.kids = t.kids /\ v.value = t.value
      /\ \A k \in Node : v.parent[k] = IF k = ins THEN NoNode ELSE u.parent[k]
      /\ \A k \in Node : v.managed[k] <=> k \notin BelowSlot(t, ins) /\ u.managed[k]
  <2>1. CASE ins = NoNode
    BY <1>4, <1>5, <2>1, SetParentNone, NoNodeAssumption DEF BelowSlot
  <2>2. CASE ins # NoNode
    <3>1. ins \in Node /\ BelowSlot(t, ins) = Below(w, ins) /\ ins \in BelowSlot(t, ins)
      BY <1>1, <1>2, <1>6, <2>2 DEF BelowSlot
    <3>2. w.managed[ins]
      BY <1>3, <1>4, <3>1
    <3>3. w \in Tree /\ ins \in Node
          /\ w.managed[ins]
      BY <1>4, <1>5, <3>1, <3>2
    <3>4. v = SetParent(w, ins, NoNode)
      OBVIOUS
    <3> HIDE DEF v
    <3>5. /\ v \in Tree /\ v.kids = w.kids /\ v.value = w.value
          /\ \A k \in Node : v.parent[k] = IF k = ins THEN NoNode ELSE w.parent[k]
          /\ \A k \in Node : v.managed[k] <=> k \notin Below(w, ins) /\ w.managed[k]
      BY <3>3, <3>4, SetParentNull
    <3> QED
      BY <1>4, <1>5, <3>1, <3>2, <3>5
  <2> QED
    BY <2>1, <2>2
<1> HIDE DEF v
<1>8. v.managed[n]
  BY <1>1, <1>2, <1>3, <1>7
<1>9. \A x : Below(v, x) = Below(t, x)
  BY <1>7, SameKidsSameBelow
<1>10. /\ r \in Tree /\ r.kids = t.kids /\ r.value = t.value
       /\ \A k \in Node : r.parent[k] = IF k = rem THEN n ELSE v.parent[k]
       /\ \A k \in Node : r.managed[k] <=> k \in BelowSlot(t, rem) \/ v.managed[k]
  <2>1. CASE rem = NoNode
    BY <1>7, <2>1, SetParentNone, NoNodeAssumption DEF BelowSlot
  <2>2. CASE rem # NoNode
    <3>1. rem \in Node /\ BelowSlot(t, rem) = Below(v, rem) /\ rem \in BelowSlot(t, rem)
          /\ rem \notin BelowSlot(t, ins)
      BY <1>1, <1>2, <1>9, <2>2 DEF BelowSlot
    <3>2. ~v.managed[rem]
      BY <1>3, <1>7, <3>1
    <3>3. v \in Tree /\ rem \in Node /\ n \in Node
          /\ ~v.managed[rem] /\ v.managed[n]
      BY <1>1, <1>7, <1>8, <3>1, <3>2
    <3>4. r = SetParent(v, rem, n)
      OBVIOUS
    <3> HIDE DEF r
    <3>5. /\ r \in Tree /\ r.kids = v.kids /\ r.value = v.value
          /\ \A k \in Node : r.parent[k] = IF k = rem THEN n ELSE v.parent[k]
          /\ \A k \in Node : r.managed[k] <=> k \in Below(v, rem) \/ v.managed[k]
      BY <3>3, <3>4, SetParentNode
    <3> QED
      BY <1>1, <1>7, <1>8, <3>1, <3>2, <3>5
  <2> QED
    BY <2>1, <2>2
<1> HIDE DEF r
<1>11. ASSUME NEW k \in Node
       PROVE  r.parent[k] = t.parent[k] /\ (r.managed[k] <=> t.managed[k])
  <2>1. r.parent[k] = t.parent[k]
    BY <1>1, <1>2, <1>3, <1>7, <1>10, NoNodeAssumption
  <2>2. (r.managed[k] <=> t.managed[k])
    BY <1>1, <1>2, <1>3, <1>7, <1>10
  <2> QED
    BY <2>1, <2>2
<1>12. r = t
  BY <1>1, <1>10, <1>11, TreeEqual
<1> QED
  BY <1>12 DEF r, v, w, u

-----------------------------------------------------------------------------
(***************************************************************************)
(* Slots after an insertion, a removal and a replacement.                  *)
(***************************************************************************)
OnePlace(s) == \A i, j \in DOMAIN s : s[i] = s[j] /\ s[i] # NoNode => i = j

LEMMA InsertSlots ==
  ASSUME NEW s \in Seq(Node \cup {NoNode}), OnePlace(s), NEW i \in 1..(Len(s) + 1),
         NEW e \in Node, e \notin Range(s),
         NEW r, r = InsertAt(s, i, e)
  PROVE  /\ r \in Seq(Node \cup {NoNode}) /\ OnePlace(r)
         /\ Range(r) \ {NoNode} = (Range(s) \ {NoNode}) \cup {e}
<1>1. /\ r \in Seq(Node \cup {NoNode}) /\ Len(r) = Len(s) + 1
      /\ \A k \in 1..(Len(s) + 1) : r[k] = IF k < i THEN s[k] ELSE IF k = i THEN e ELSE s[k - 1]
  <2>1. /\ r \in Seq(Node \cup {NoNode}) /\ Len(r) = Len(s) + 1 /\ r[i] = e
        /\ \A k \in 1..(i - 1) : r[k] = s[k]
        /\ \A k \in i..Len(s) : r[k + 1] = s[k]
    <3> DEFINE T == Node \cup {NoNode}
    <3>1. e \in T /\ s \in Seq(T)
      OBVIOUS
    <3> HIDE DEF T
    <3>2. /\ r \in Seq(T) /\ Len(r) = Len(s) + 1 /\ r[i] = e
          /\ \A k \in 1..(i - 1) : r[k] = s[k]
          /\ \A k \in i..Len(s) : r[k + 1] = s[k]
      BY <3>1, InsertAtElements
    <3> QED
      BY <3>2 DEF T
  <2>2. ASSUME NEW k \in 1..(Len(s) + 1), k > i PROVE r[k] = s[k - 1]
    <3>1. k - 1 \in i..Len(s) /\ (k - 1) + 1 = k
      BY <2>2
    <3> QED
      BY <2>1, <3>1
  <2> QED
    BY <2>1, <2>2
<1>2. Len(s) \in Nat /\ DOMAIN s = 1..Len(s) /\ DOMAIN r = 1..(Len(s) + 1)
  BY <1>1
<1>3. \A k \in DOMAIN s : s[k] # e
  BY DEF Range
<1>4. ASSUME NEW j \in DOMAIN r, NEW k \in DOMAIN r, r[j] = r[k], r[j] # NoNode
      PROVE  j = k
  <2>1. CASE j = i \/ k = i
    <3>1. \A l \in DOMAIN r : l # i => r[l] # e
      <4> SUFFICES ASSUME NEW l \in DOMAIN r, l # i PROVE r[l] # e
        OBVIOUS
      <4>1. CASE l < i
        BY <1>1, <1>2, <1>3, <4>1
      <4>2. CASE l > i
        <5>1. l - 1 \in DOMAIN s /\ r[l] = s[l - 1]
          BY <1>1, <1>2, <4>2
        <5> QED
          BY <1>3, <5>1
      <4> QED
        BY <1>2, <4>1, <4>2
    <3>2. r[i] = e
      BY <1>1
    <3> QED
      BY <1>4, <2>1, <3>1, <3>2
  <2>2. CASE j # i /\ k # i
    <3> DEFINE a == IF j < i THEN j ELSE j - 1
               b == IF k < i THEN k ELSE k - 1
    <3>1. a \in DOMAIN s /\ b \in DOMAIN s /\ r[j] = s[a] /\ r[k] = s[b]
      BY <1>1, <1>2, <2>2
    <3>2. a = b
      BY <1>4, <3>1 DEF OnePlace
    <3> QED
      BY <1>2, <2>2, <3>2
  <2> QED
    BY <2>1, <2>2
<1>5. Range(r) = Range(s) \cup {e}
  <2>1. ASSUME NEW k \in DOMAIN s PROVE \E j \in DOMAIN r : r[j] = s[k]
    <3> DEFINE j == IF k < i THEN k ELSE k + 1
    <3>1. j \in DOMAIN r /\ r[j] = s[k]
      BY <1>1, <1>2
    <3> QED
      BY <3>1
  <2>2. i \in DOMAIN r /\ r[i] = e
    BY <1>1, <1>2
  <2>3. ASSUME NEW j \in DOMAIN r PROVE r[j] = e \/ \E k \in DOMAIN s : r[j] = s[k]
    <3>1. CASE j < i
      BY <1>1, <1>2, <3>1
    <3>2. CASE j = i
      BY <1>1, <1>2, <3>2
    <3>3. CASE j > i
      <4>1. j - 1 \in DOMAIN s /\ r[j] = s[j - 1]
        BY <1>1, <1>2, <3>3
      <4> QED
        BY <4>1
    <3> QED
      BY <1>2, <3>1, <3>2, <3>3
  <2> QED
    BY <2>1, <2>2, <2>3 DEF Range
<1> QED
  BY <1>1, <1>4, <1>5, NoNodeAssumption DEF OnePlace

LEMMA RemoveSlots ==
  ASSUME NEW s \in Seq(Node \cup {NoNode}), OnePlace(s), NEW i \in 1..Len(s),
         NEW r, r = RemoveAt(s, i)
  PROVE  /\ r \in Seq(Node \cup {NoNode}) /\ OnePlace(r)
         /\ Range(r) \ {NoNode} = (Range(s) \ {NoNode}) \ {s[i]}
<1>1. /\ r \in Seq(Node \cup {NoNode}) /\ Len(r) = Len(s) - 1
      /\ \A k \in 1..(Len(s) - 1) : r[k] = IF k < i THEN s[k] ELSE s[k + 1]
  BY RemoveAtElements
<1>2. Len(s) \in Nat /\ DOMAIN s = 1..Len(s) /\ DOMAIN r = 1..(Len(s) - 1)
  BY <1>1
<1>3. ASSUME NEW j \in DOMAIN r, NEW k \in DOMAIN r, r[j] = r[k], r[j] # NoNode
      PROVE  j = k
  <2> DEFINE a == IF j < i THEN j ELSE j + 1
             b == IF k < i THEN k ELSE k + 1
  <2>1. a \in DOMAIN s /\ b \in DOMAIN s /\ r[j] = s[a] /\ r[k] = s[b]
    BY <1>1, <1>2
  <2>2. a = b
    BY <1>3, <2>1 DEF OnePlace
  <2> QED
    BY <1>2, <2>2
<1>4. ASSUME NEW k \in DOMAIN s, k # i PROVE \E j \in DOMAIN r : r[j] = s[k]
  <2>1. CASE k < i
    BY <1>1, <1>2, <2>1
  <2>2. CASE k > i
    <3>1. k - 1 \in DOMAIN r /\ r[k - 1] = s[k]
      BY <1>1, <1>2, <2>2
    <3> QED
      BY <3>1
  <2> QED
    BY <1>2, <1>4, <2>1, <2>2
<1>5. ASSUME NEW j \in DOMAIN r PROVE \E k \in DOMAIN s : k # i /\ r[j] = s[k]
  <2> DEFINE k == IF j < i THEN j ELSE j + 1
  <2>1. k \in DOMAIN s /\ k # i /\ r[j] = s[k]
    BY <1>1, <1>2
  <2> QED
    BY <2>1
<1>6. \A k \in DOMAIN s : s[k] # NoNode /\ k # i => s[k] # s[i]
  BY <1>2 DEF OnePlace
<1>7. Range(r) \ {NoNode} = (Range(s) \ {NoNode}) \ {s[i]}
  BY <1>4, <1>5, <1>6 DEF Range
<1> QED
  BY <1>1, <1>3, <1>7 DEF OnePlace

LEMMA ReplaceSlots ==
  ASSUME NEW s \in Seq(Node \cup {NoNode}), OnePlace(s), NEW i \in 1..Len(s),
         NEW e \in Node \cup {NoNode}, e # NoNode => e \notin Range(s),
         NEW r, r = ReplaceAt(s, i, e)
  PROVE  /\ r \in Seq(Node \cup {NoNode}) /\ OnePlace(r) /\ ReplaceAt(r, i, s[i]) = s
         /\ Range(r) \ {NoNode} = ((Range(s) \ {NoNode}) \ {s[i]}) \cup ({e} \ {NoNode})
<1>1. /\ r \in Seq(Node \cup {NoNode}) /\ DOMAIN r = DOMAIN s /\ i \in DOMAIN s
      /\ \A k \in DOMAIN s : r[k] = IF k = i THEN e ELSE s[k]
  BY DEF ReplaceAt
<1>2. OnePlace(r)
  BY <1>1 DEF OnePlace, Range
<1>3. ReplaceAt(r, i, s[i]) = s
  <2> DEFINE q == ReplaceAt(r, i, s[i])
  <2>1. /\ q \in Seq(Node \cup {NoNode}) /\ Len(q) = Len(r)
        /\ \A j \in 1..Len(r) : q[j] = IF j = i THEN s[i] ELSE r[j]
    BY <1>1, ExceptSeq DEF ReplaceAt
  <2> HIDE DEF q
  <2>2. Len(r) = Len(s) /\ DOMAIN s = 1..Len(s)
    BY <1>1
  <2>3. \A j \in 1..Len(q) : q[j] = s[j]
    BY <1>1, <2>1, <2>2
  <2>4. q = s
    BY <2>1, <2>2, <2>3, SeqEqual
  <2> QED
    BY <2>4 DEF q
<1>4. \A k \in DOMAIN s : s[k] # NoNode /\ k # i => s[k] # s[i]
  BY <1>1 DEF OnePlace
<1>5. Range(r) \ {NoNode} = ((Range(s) \ {NoNode}) \ {s[i]}) \cup ({e} \ {NoNode})
  BY <1>1, <1>4 DEF Range
<1> QED
  BY <1>1, <1>2, <1>3, <1>5

-----------------------------------------------------------------------------
(***************************************************************************)
(* The commands that Node::execute records for a node of the tree t.       *)
(***************************************************************************)
Recordable(t, c) ==
  /\ c \in Command
  /\ c.kind # "target" => t.managed[c.target]
  /\ c.ins # NoNode => t.parent[c.ins] = NoNode /\ c.ins # Root
  /\ c.kind = "insert" =>
       c.ins # NoNode /\ c.rem = NoNode /\ c.pos \in 1..(Len(t.kids[c.target]) + 1)
  /\ c.kind = "remove" =>
       c.ins = NoNode /\ c.pos \in DOMAIN t.kids[c.target] /\ c.rem = t.kids[c.target][c.pos]
  /\ c.kind = "change" =>
       c.pos \in DOMAIN t.kids[c.target] /\ c.rem = t.kids[c.target][c.pos]
  /\ c.kind = "set" => c.from = t.value[c.target]
  /\ ~NodeOwning(c) => c.ins = NoNode /\ c.rem = NoNode
  /\ c.kind # "target" => c.tracked

(***************************************************************************)
(* Only the target's children and field differ from t to u, and what is    *)
(* above the target stays.                                                 *)
(***************************************************************************)
Local(t, u, n) ==
  /\ \A k \in Node \ {n} : u.kids[k] = t.kids[k] /\ u.value[k] = t.value[k]
  /\ \A k \in Ancestry(t, n) : u.parent[k] = t.parent[k] /\ u.managed[k] = t.managed[k]

(* What ins and rem bring and take: managers, parents, and what is below a node. *)
Effects(t, u, n, ins, rem) ==
  /\ \A k \in Node : u.parent[k] = IF k = ins THEN n ELSE IF k = rem THEN NoNode ELSE t.parent[k]
  /\ \A k \in Node :
        u.managed[k] <=> k \in BelowSlot(t, ins) \/ (t.managed[k] /\ k \notin BelowSlot(t, rem))
  /\ \A m \in Node : n \notin Below(t, m) => Below(u, m) = Below(t, m)
  /\ n \notin BelowSlot(t, ins) /\ n \notin BelowSlot(t, rem)
  /\ \A k \in BelowSlot(t, ins) : ~t.managed[k]
  /\ \A k \in BelowSlot(t, rem) : t.managed[k]

(* What the commands keep: the tree stays one, undo restores it exactly, *)
(* and the revisions of the same nodes move in both directions.           *)
Kept(t, c) ==
  /\ Redone(t, c) \in Tree /\ WellFormed(Redone(t, c))
  /\ Undone(Redone(t, c), c) = t
  /\ c.kind # "target" => /\ Ancestry(Redone(t, c), c.target) = Ancestry(t, c.target)
                          /\ Local(t, Redone(t, c), c.target)
                          /\ Effects(t, Redone(t, c), c.target, c.ins, c.rem)

LEMMA ExchangeKept ==
  ASSUME NEW t, NEW c, NEW s,
         Exchange(t, c.target, c.ins, c.rem, s),
         Redone(t, c) = Exchanged(t, c.target, c.ins, c.rem, s),
         Undone(Redone(t, c), c) =
           SetParent(SetParent(WithKids(Redone(t, c), c.target, t.kids[c.target]), c.ins, NoNode),
                     c.rem, c.target)
  PROVE  Kept(t, c)
<1> DEFINE u == Exchanged(t, c.target, c.ins, c.rem, s)
<1>1. \A k \in Node \ {c.target} : u.kids[k] = t.kids[k] /\ u.value[k] = t.value[k]
  BY ExchangedChildren DEF Exchanged
<1>2. Local(t, u, c.target)
  BY <1>1, ExchangedAbove DEF Local
<1>3. Effects(t, u, c.target, c.ins, c.rem)
  <2>1. \A k \in Node :
          u.managed[k] <=> k \in BelowSlot(t, c.ins) \/ (t.managed[k] /\ k \notin BelowSlot(t, c.rem))
    BY ExchangeFacts DEF Exchanged
  <2>2. \A k \in Node : u.parent[k] = IF k = c.ins THEN c.target
                                      ELSE IF k = c.rem THEN NoNode ELSE t.parent[k]
    BY DEF Exchanged
  <2>3. \A m \in Node : c.target \notin Below(t, m) => Below(u, m) = Below(t, m)
    BY ExchangedBelow
  <2> HIDE DEF u
  <2> QED
    BY <2>1, <2>2, <2>3, ExchangeFacts DEF Effects
<1> QED
  BY <1>2, <1>3, ExchangedIsTree, ExchangedWellFormed, ExchangedAncestry, ExchangeBackward DEF Kept

(* The slots of a node, as the lemmas on slots need them. *)
LEMMA SlotFacts ==
  ASSUME NEW t \in Tree, WellFormed(t), NEW n \in Node
  PROVE  /\ t.kids[n] \in Seq(Node \cup {NoNode}) /\ OnePlace(t.kids[n])
         /\ Children(t, n) = Range(t.kids[n]) \ {NoNode}
         /\ \A m \in Node : t.parent[m] = NoNode => m \notin Range(t.kids[n])
<1>1. t.kids[n] \in Seq(Node \cup {NoNode}) /\ Children(t, n) = Range(t.kids[n]) \ {NoNode}
  BY DEF Tree, Children
<1>2. OnePlace(t.kids[n])
  BY DEF OnePlace, WellFormed
<1>3. ASSUME NEW m \in Node, t.parent[m] = NoNode PROVE m \notin Range(t.kids[n])
  BY <1>1, <1>3, ChildFacts, NoNodeAssumption
<1> QED
  BY <1>1, <1>2, <1>3

(* The slots that Redone gives to the target. *)
LEMMA ExchangedSlots ==
  ASSUME NEW t \in Tree, NEW n \in Node, NEW ins, NEW rem, NEW s, Exchange(t, n, ins, rem, s)
  PROVE  Exchanged(t, n, ins, rem, s).kids[n] = s
  BY DEF Exchanged, Tree

LEMMA InsertKept ==
  ASSUME NEW t \in Tree, WellFormed(t), NEW c, Recordable(t, c), c.kind = "insert"
  PROVE  Kept(t, c)
<1> DEFINE n == c.target
           s == InsertAt(t.kids[n], c.pos, c.ins)
<1>1. /\ n \in Node /\ c.ins \in Node /\ c.rem = NoNode /\ t.managed[n]
      /\ t.parent[c.ins] = NoNode /\ c.ins # Root /\ c.pos \in 1..(Len(t.kids[n]) + 1)
  BY DEF Recordable, Command
<1>2. /\ t.kids[n] \in Seq(Node \cup {NoNode}) /\ OnePlace(t.kids[n])
      /\ Children(t, n) = Range(t.kids[n]) \ {NoNode} /\ c.ins \notin Range(t.kids[n])
  BY <1>1, SlotFacts
<1>3. /\ s \in Seq(Node \cup {NoNode}) /\ OnePlace(s)
      /\ Range(s) \ {NoNode} = (Range(t.kids[n]) \ {NoNode}) \cup {c.ins}
  BY <1>1, <1>2, InsertSlots
<1>4. RemoveAt(s, c.pos) = t.kids[n]
  <2> DEFINE k == t.kids[n]
             T == Node \cup {NoNode}
  <2>1. k \in Seq(T) /\ c.ins \in T /\ c.pos \in 1..(Len(k) + 1)
    BY <1>1, <1>2
  <2> HIDE DEF T, k
  <2>2. RemoveAt(InsertAt(k, c.pos, c.ins), c.pos) = k
    BY ONLY <2>1, RemoveInserted
  <2> QED
    BY <2>2 DEF k
<1> HIDE DEF s
<1>5. Exchange(t, n, c.ins, c.rem, s)
  BY <1>1, <1>2, <1>3, NoNodeAssumption DEF Exchange, OnePlace
<1>6. Redone(t, c) = SetParent(WithKids(t, n, s), c.ins, n)
  BY DEF Redone, s
<1>7. Redone(t, c) = Exchanged(t, n, c.ins, c.rem, s)
  BY <1>1, <1>5, <1>6, ExchangeForward, SetParentNone
<1>8. Redone(t, c).kids[n] = s
  BY <1>1, <1>5, <1>7, ExchangedSlots
<1>9. Undone(Redone(t, c), c)
        = SetParent(SetParent(WithKids(Redone(t, c), n, t.kids[n]), c.ins, NoNode), c.rem, n)
  BY <1>1, <1>4, <1>8, SetParentNone DEF Undone
<1> QED
  BY <1>5, <1>7, <1>9, ExchangeKept

LEMMA RemoveKept ==
  ASSUME NEW t \in Tree, WellFormed(t), NEW c, Recordable(t, c), c.kind = "remove"
  PROVE  Kept(t, c)
<1> DEFINE n == c.target
           s == RemoveAt(t.kids[n], c.pos)
<1>1. /\ n \in Node /\ c.ins = NoNode /\ c.rem = t.kids[n][c.pos] /\ t.managed[n]
      /\ c.pos \in DOMAIN t.kids[n]
  BY DEF Recordable, Command
<1>2. /\ t.kids[n] \in Seq(Node \cup {NoNode}) /\ OnePlace(t.kids[n])
      /\ Children(t, n) = Range(t.kids[n]) \ {NoNode}
  BY <1>1, SlotFacts
<1>3. c.pos \in 1..Len(t.kids[n]) /\ c.rem \in Range(t.kids[n]) /\ c.rem \in Node \cup {NoNode}
  BY <1>1, <1>2 DEF Range
<1>4. /\ s \in Seq(Node \cup {NoNode}) /\ OnePlace(s)
      /\ Range(s) \ {NoNode} = (Range(t.kids[n]) \ {NoNode}) \ {c.rem}
  BY <1>1, <1>2, <1>3, RemoveSlots
<1>5. InsertAt(s, c.pos, c.rem) = t.kids[n]
  BY <1>1, <1>2, <1>3, InsertRemoved
<1> HIDE DEF s
<1>6. Exchange(t, n, c.ins, c.rem, s)
  BY <1>1, <1>2, <1>3, <1>4, NoNodeAssumption DEF Exchange, OnePlace
<1>7. Redone(t, c) = WithKids(SetParent(t, c.rem, NoNode), n, s)
  BY DEF Redone, s
<1>8. Redone(t, c) = Exchanged(t, n, c.ins, c.rem, s)
  BY <1>1, <1>6, <1>7, RemoveForward
<1>9. Redone(t, c).kids[n] = s
  BY <1>1, <1>6, <1>8, ExchangedSlots
<1>10. Undone(Redone(t, c), c)
         = SetParent(SetParent(WithKids(Redone(t, c), n, t.kids[n]), c.ins, NoNode), c.rem, n)
  BY <1>1, <1>5, <1>9, SetParentNone DEF Undone
<1> QED
  BY <1>6, <1>8, <1>10, ExchangeKept

LEMMA ChangeKept ==
  ASSUME NEW t \in Tree, WellFormed(t), NEW c, Recordable(t, c), c.kind = "change"
  PROVE  Kept(t, c)
<1> DEFINE n == c.target
           s == ReplaceAt(t.kids[n], c.pos, c.ins)
<1>1. /\ n \in Node /\ c.ins \in Node \cup {NoNode} /\ c.rem = t.kids[n][c.pos] /\ t.managed[n]
      /\ c.ins # NoNode => t.parent[c.ins] = NoNode /\ c.ins # Root
      /\ c.pos \in DOMAIN t.kids[n]
  BY DEF Recordable, Command
<1>2. /\ t.kids[n] \in Seq(Node \cup {NoNode}) /\ OnePlace(t.kids[n])
      /\ Children(t, n) = Range(t.kids[n]) \ {NoNode}
      /\ c.ins # NoNode => c.ins \notin Range(t.kids[n])
  BY <1>1, SlotFacts
<1>3. c.pos \in 1..Len(t.kids[n]) /\ c.rem \in Range(t.kids[n]) /\ c.rem \in Node \cup {NoNode}
  BY <1>1, <1>2 DEF Range
<1>4. /\ s \in Seq(Node \cup {NoNode}) /\ OnePlace(s) /\ ReplaceAt(s, c.pos, c.rem) = t.kids[n]
      /\ Range(s) \ {NoNode}
           = ((Range(t.kids[n]) \ {NoNode}) \ {c.rem}) \cup ({c.ins} \ {NoNode})
  BY <1>1, <1>2, <1>3, ReplaceSlots
<1> HIDE DEF s
<1>5. Exchange(t, n, c.ins, c.rem, s)
  BY <1>1, <1>2, <1>3, <1>4, NoNodeAssumption DEF Exchange, OnePlace
<1>6. Redone(t, c) = SetParent(SetParent(WithKids(t, n, s), c.ins, n), c.rem, NoNode)
  BY DEF Redone, s
<1>7. Redone(t, c) = Exchanged(t, n, c.ins, c.rem, s)
  BY <1>5, <1>6, ExchangeForward
<1>8. Redone(t, c).kids[n] = s
  BY <1>1, <1>5, <1>7, ExchangedSlots
<1>9. Undone(Redone(t, c), c)
        = SetParent(SetParent(WithKids(Redone(t, c), n, t.kids[n]), c.ins, NoNode), c.rem, n)
  BY <1>4, <1>8 DEF Undone
<1> QED
  BY <1>5, <1>7, <1>9, ExchangeKept

LEMMA SetKept ==
  ASSUME NEW t \in Tree, WellFormed(t), NEW c, Recordable(t, c), c.kind = "set"
  PROVE  Kept(t, c)
<1> DEFINE n == c.target
           u == WithValue(t, n, c.to)
<1>1. n \in Node /\ c.from = t.value[n] /\ c.to \in Value /\ c.from \in Value
  BY DEF Recordable, Command
<1>2. /\ u = [kids |-> t.kids, parent |-> t.parent, managed |-> t.managed,
               value |-> [t.value EXCEPT ![n] = c.to]]
      /\ u \in Tree
  <2> DEFINE new == [t.value EXCEPT ![n] = c.to]
  <2>1. new \in [Node -> Value]
    BY <1>1 DEF Tree
  <2>2. u = [t EXCEPT !.value = new]
    BY DEF WithValue
  <2> HIDE DEF new, u
  <2>3. u = [kids |-> t.kids, parent |-> t.parent, managed |-> t.managed, value |-> new]
    BY <2>2 DEF Tree
  <2>4. u \in Tree
    BY <2>1, <2>3 DEF Tree
  <2> QED
    BY <2>3, <2>4 DEF new
<1>3. Redone(t, c) = u /\ Undone(u, c) = WithValue(u, n, c.from)
  BY DEF Redone, Undone
<1> HIDE DEF u
<1>4. WithValue(u, n, c.from) = t
  <2> DEFINE back == [u.value EXCEPT ![n] = c.from]
  <2>1. u.value = [t.value EXCEPT ![n] = c.to]
    BY <1>2
  <2>2. back = t.value
    BY <1>1, <2>1 DEF Tree
  <2>3. WithValue(u, n, c.from) = [u EXCEPT !.value = back]
    BY DEF WithValue
  <2> HIDE DEF back
  <2>4. WithValue(u, n, c.from)
          = [kids |-> t.kids, parent |-> t.parent, managed |-> t.managed, value |-> t.value]
    BY <1>2, <2>2, <2>3
  <2> QED
    BY <2>4 DEF Tree
<1>5. \A m : Below(u, m) = Below(t, m)
  BY <1>2, SameKidsSameBelow
<1>6. WellFormed(u)
  BY <1>2, <1>5 DEF WellFormed, Children
<1>7. Ancestry(u, n) = Ancestry(t, n)
  BY <1>2 DEF Ancestry, ClosedUp
<1>8. Local(t, u, n)
  BY <1>2 DEF Local, Tree
<1>9. Effects(t, u, n, c.ins, c.rem)
  <2>1. c.ins = NoNode /\ c.rem = NoNode
    BY DEF Recordable, NodeOwning
  <2>2. u.parent = t.parent /\ u.managed = t.managed
    BY <1>2
  <2> QED
    BY <1>5, <2>1, <2>2, NoNodeAssumption DEF Effects, BelowSlot, Tree
<1> QED
  BY <1>2, <1>3, <1>4, <1>6, <1>7, <1>8, <1>9 DEF Kept

(***************************************************************************)
(* Every command that is recorded keeps the tree well formed and is undone *)
(* exactly.                                                                *)
(***************************************************************************)
LEMMA RecordableKept ==
  ASSUME NEW t \in Tree, WellFormed(t), NEW c, Recordable(t, c)
  PROVE  Kept(t, c)
<1>1. CASE c.kind = "target"
  BY <1>1 DEF Kept, Redone, Undone
<1>2. c.kind \in Kind
  BY DEF Recordable, Command
<1> QED
  BY <1>1, <1>2, InsertKept, RemoveKept, ChangeKept, SetKept DEF Kind

-----------------------------------------------------------------------------
(* Client code neither edits nodes that left the tree nor builds new ones. *)
OnlyTreeEdits == Client \cap {"build", "detached"} = {}

(* The ends of the macros are in order and on the stack. *)
MacrosOrdered ==
  /\ \A i \in DOMAIN ends : ends[i] <= Len(commands)
  /\ \A i, j \in DOMAIN ends : i <= j => ends[i] <= ends[j]

(* While a session pushes commands, there is nothing to redo. *)
TopWhilePushing ==
  pushedNewCommandsOnTheStack => pos = Len(commands) /\ goal = pos

(* Running c leads from the snapshot b to the snapshot a, undoing it back. *)
Reversible(c, b, a) ==
  /\ a.tree = Redone(b.tree, c) /\ b.tree = Undone(a.tree, c)
  /\ c.kind = "target" => a.revision = b.revision
  /\ c.kind # "target" =>
       /\ a.revision = Revised(a.tree, b.revision, c.target, 1)
       /\ b.revision = Revised(b.tree, a.revision, c.target, -1)

PastReversible ==
  /\ \A p \in 1..Len(past) : WellFormed(past[p].tree)
  /\ \A i \in 1..Len(commands) : Reversible(commands[i], past[i], past[i + 1])

Present == tree = past[pos + 1].tree /\ revision = past[pos + 1].revision

IInv == TypeOK /\ MacrosOrdered /\ TopWhilePushing /\ PastReversible /\ Present

-----------------------------------------------------------------------------
(***************************************************************************)
(* Sequences that are cut and grow.                                        *)
(***************************************************************************)
LEMMA CutAppend ==
  ASSUME NEW S, NEW s \in Seq(S), NEW k \in 0..Len(s), NEW e \in S,
         NEW r, r = Append(SubSeq(s, 1, k), e)
  PROVE  /\ r \in Seq(S) /\ Len(r) = k + 1 /\ r[k + 1] = e
         /\ \A i \in 1..k : r[i] = s[i]
<1> DEFINE q == SubSeq(s, 1, k)
<1>1. q \in Seq(S) /\ Len(q) = k /\ \A i \in 1..k : q[i] = s[i]
  BY SubSeqProperties
<1> HIDE DEF q
<1>2. r = Append(q, e)
  BY DEF q
<1> QED
  BY <1>1, <1>2, AppendProperties

LEMMA Suffix ==
  ASSUME NEW S, NEW s \in Seq(S), NEW d \in 0..Len(s), NEW r, r = SubSeq(s, d + 1, Len(s))
  PROVE  /\ r \in Seq(S) /\ Len(r) = Len(s) - d
         /\ \A i \in 1..(Len(s) - d) : r[i] = s[i + d]
  BY SubSeqProperties

(***************************************************************************)
(* Running commands.                                                       *)
(***************************************************************************)
SnapshotType == [tree : Tree, revision : [Node -> Int]]

LEMMA RevisedType ==
  ASSUME NEW t, NEW r \in [Node -> Int], NEW n, NEW d \in Int
  PROVE  Revised(t, r, n, d) \in [Node -> Int]
  BY DEF Revised

LEMMA RevisedBack ==
  ASSUME NEW t, NEW u, NEW r \in [Node -> Int], NEW n, Ancestry(u, n) = Ancestry(t, n)
  PROVE  Revised(t, Revised(u, r, n, 1), n, -1) = r
<1> DEFINE q == Revised(u, r, n, 1)
<1>1. q \in [Node -> Int] /\ \A m \in Node : q[m] = IF m \in Ancestry(t, n) THEN r[m] + 1 ELSE r[m]
  BY DEF Revised
<1> HIDE DEF q
<1> DEFINE b == Revised(t, q, n, -1)
<1>2. b \in [Node -> Int] /\ \A m \in Node : b[m] = IF m \in Ancestry(t, n) THEN q[m] + (-1) ELSE q[m]
  BY <1>1 DEF Revised
<1> HIDE DEF b
<1>3. \A m \in Node : b[m] = r[m]
  BY <1>1, <1>2
<1>4. b = r
  BY <1>2, <1>3
<1> QED
  BY <1>4 DEF b, q

LEMMA TargetKeepsTree ==
  ASSUME NEW t, NEW c, c.kind = "target"
  PROVE  Redone(t, c) = t /\ Undone(t, c) = t
  BY DEF Redone, Undone

(* The types of what a command changes besides the tree. *)
SideTypes ==
  /\ joined \subseteq Node
  /\ currentModificationTarget \in Node \cup {NoNode}
  /\ currentModificationLock \in Unit \cup {Root, NoNode}
  /\ held \subseteq Unit \cup {Root}
  /\ modifiedTargets \subseteq Node /\ removedTargets \subseteq Node
  /\ nodeIdMap \subseteq Node /\ nodeIdMapForUndoStack \subseteq Node

LEMMA SwitchTypes ==
  ASSUME TypeOK, NEW from \in Node \cup {NoNode}, NEW to \in Node \cup {NoNode},
         SwitchTarget(from, to)
  PROVE  /\ currentModificationTarget' \in Node \cup {NoNode}
         /\ currentModificationLock' \in Unit \cup {Root, NoNode}
         /\ held' \subseteq Unit \cup {Root}
<1> DEFINE lockOf(n) == IF n = NoNode THEN NoNode ELSE AccessLock(tree, n)
<1>1. \A n \in Node \cup {NoNode} : lockOf(n) \in Unit \cup {Root, NoNode}
  BY AccessLockIsUnit DEF TypeOK
<1>2. /\ held' = IF lockOf(from) = lockOf(to)
                   THEN held
                   ELSE (held \ {lockOf(from)}) \cup ({lockOf(to)} \ {NoNode})
      /\ currentModificationTarget' = to
      /\ currentModificationLock' = lockOf(to)
  BY Zenon DEF SwitchTarget
<1>3. lockOf(to) \in Unit \cup {Root, NoNode}
  BY <1>1
<1> HIDE DEF lockOf
<1>4. held \subseteq Unit \cup {Root}
  BY DEF TypeOK
<1> QED
  BY <1>2, <1>3, <1>4

LEMMA EditTypes ==
  ASSUME TypeOK, NEW c \in Command, c.kind # "target", NEW t \in Tree, NEW out, NEW in, NEW d,
         NEW gone, RunEdit(c, t, out, in, d, gone)
  PROVE  SideTypes'
<1>1. c.target \in Node
  BY DEF Command
<1>2. \A n : Below(t, n) \subseteq Node
  BY DEF Below
<1>3. UNCHANGED locks /\ joined' \subseteq Node /\ modifiedTargets' \subseteq Node
  BY <1>1 DEF RunEdit, TypeOK, InTree
<1>4. removedTargets' \subseteq Node
  BY <1>2 DEF RunEdit, TypeOK
<1>5. nodeIdMap' \subseteq Node /\ nodeIdMapForUndoStack' \subseteq Node
  <2>1. MoveIds(t, c, out, in, gone) /\ nodeIdMap \subseteq Node /\ nodeIdMapForUndoStack \subseteq Node
    BY DEF RunEdit, TypeOK
  <2> QED
    BY <1>2, <2>1 DEF MoveIds
<1> QED
  BY <1>3, <1>4, <1>5 DEF SideTypes, locks, TypeOK

LEMMA RunSwitchTypes ==
  ASSUME TypeOK, NEW from \in Node \cup {NoNode}, NEW to \in Node \cup {NoNode}, NEW gone,
         RunSwitch(from, to, gone)
  PROVE  SideTypes' /\ tree' = tree /\ revision' = revision
<1>1. /\ currentModificationTarget' \in Node \cup {NoNode}
      /\ currentModificationLock' \in Unit \cup {Root, NoNode}
      /\ held' \subseteq Unit \cup {Root}
  BY SwitchTypes DEF RunSwitch
<1> QED
  BY <1>1 DEF RunSwitch, SideTypes, TypeOK

-----------------------------------------------------------------------------
(***************************************************************************)
(* The initial states.                                                     *)
(***************************************************************************)
LEMMA InitIInv ==
  ASSUME Init PROVE IInv
<1>1. /\ Initial \in Tree /\ WellFormed(Initial) /\ tree = Initial
      /\ revision \in [Node -> Int] /\ commands = <<>> /\ ends = <<>> /\ pos = 0 /\ goal = 0
      /\ past = <<Snapshot(Initial, revision)>>
  BY InitialAssumption DEF Init
<1>2. /\ past \in Seq(SnapshotType) /\ Len(past) = 1 /\ past[1].tree = tree
      /\ past[1].revision = revision
  BY <1>1 DEF Snapshot, SnapshotType
<1>3. commands \in Seq(Command) /\ Len(commands) = 0 /\ ends \in Seq(Nat) /\ Len(ends) = 0
  BY <1>1
<1>4. TypeOK
  <2>1. past \in Seq([tree : Tree, revision : [Node -> Int]])
    BY <1>2 DEF SnapshotType
  <2>2. /\ pos \in 0..Len(commands) /\ goal \in 0..Len(commands) /\ Len(past) = Len(commands) + 1
        /\ ends \in Seq(Nat)
    BY <1>1, <1>2, <1>3
  <2>3. joined \subseteq Node /\ base \in Tree
    BY <1>1 DEF Init, InTree
  <2>4. /\ freed \subseteq Node /\ fault \in BOOLEAN /\ closed \in BOOLEAN
        /\ modificationInProgress \in BOOLEAN /\ pushedNewCommandsOnTheStack \in BOOLEAN
        /\ performedUndoRedo \in BOOLEAN
        /\ currentModificationTarget \in Node \cup {NoNode}
        /\ currentModificationLock \in Unit \cup {Root, NoNode} /\ held \subseteq Unit \cup {Root}
        /\ modifiedTargets \subseteq Node /\ removedTargets \subseteq Node
        /\ nodeIdMap \subseteq Node /\ nodeIdMapForUndoStack \subseteq Node
    BY DEF Init
  <2> QED
    BY <1>1, <1>3, <2>1, <2>2, <2>3, <2>4 DEF TypeOK
<1>5. MacrosOrdered /\ TopWhilePushing
  BY <1>1, <1>3 DEF MacrosOrdered, TopWhilePushing, Init
<1>6. PastReversible
  <2>1. \A p \in 1..Len(past) : WellFormed(past[p].tree)
    BY <1>1, <1>2
  <2>2. 1..Len(commands) = {}
    BY <1>3
  <2> QED
    BY <2>1, <2>2 DEF PastReversible
<1>7. Present
  BY <1>1, <1>2 DEF Present
<1> QED
  BY <1>4, <1>5, <1>6, <1>7 DEF IInv

(***************************************************************************)
(* The invariant does not read the session's bookkeeping.                  *)
(***************************************************************************)
LEMMA StackUntouched ==
  ASSUME IInv, TypeOK', UNCHANGED <<tree, revision, commands, ends, pos, past>>,
         UNCHANGED goal \/ ~pushedNewCommandsOnTheStack,
         pushedNewCommandsOnTheStack' => pushedNewCommandsOnTheStack
  PROVE  IInv'
<1>1. MacrosOrdered'
  BY DEF IInv, MacrosOrdered
<1>2. TopWhilePushing'
  BY DEF IInv, TopWhilePushing
<1>3. PastReversible'
  BY DEF IInv, PastReversible
<1>4. Present'
  BY DEF IInv, Present
<1> QED
  BY <1>1, <1>2, <1>3, <1>4 DEF IInv

LEMMA CrashIInv ==
  ASSUME IInv, Crash, modificationInProgress' \in BOOLEAN, base' \in Tree
  PROVE  IInv'
<1>1. TypeOK'
  BY DEF IInv, TypeOK, Crash, stack, locks, notes, ids
<1> QED
  BY <1>1, StackUntouched DEF Crash, stack

(***************************************************************************)
(* A command is recorded on top of what is done.                           *)
(***************************************************************************)
LEMMA RunRedoFacts ==
  ASSUME IInv, NEW c, Recordable(tree, c), NEW gone, RunRedo(c, gone)
  PROVE  /\ SideTypes' /\ tree' \in Tree /\ revision' \in [Node -> Int] /\ WellFormed(tree')
         /\ Reversible(c, Snapshot(tree, revision), Snapshot(tree', revision'))
<1>1. tree \in Tree /\ WellFormed(tree) /\ revision \in [Node -> Int] /\ TypeOK
  <2>1. pos + 1 \in 1..Len(past)
    BY DEF IInv, TypeOK
  <2> QED
    BY <2>1 DEF IInv, TypeOK, PastReversible, Present
<1>2. Kept(tree, c) /\ c \in Command
  BY <1>1, RecordableKept DEF Recordable
<1>3. CASE c.kind = "target"
  <2>1. RunSwitch(c.from, c.to, gone) /\ {c.from, c.to} \subseteq Node \cup {NoNode}
    BY <1>2, <1>3 DEF RunRedo, Command
  <2>2. SideTypes' /\ tree' = tree /\ revision' = revision
    BY <1>1, <2>1, RunSwitchTypes
  <2>3. Reversible(c, Snapshot(tree, revision), Snapshot(tree', revision'))
    BY <1>3, <2>2, TargetKeepsTree DEF Reversible, Snapshot
  <2> QED
    BY <1>1, <2>2, <2>3
<1>4. CASE c.kind # "target"
  <2>1. RunEdit(c, Redone(tree, c), c.rem, c.ins, 1, gone)
    BY <1>4 DEF RunRedo
  <2>2. tree' = Redone(tree, c) /\ revision' = Revised(tree', revision, c.target, 1)
    BY <2>1 DEF RunEdit
  <2>3. SideTypes'
    BY <1>1, <1>2, <1>4, <2>1, EditTypes DEF Kept
  <2>4. /\ tree' \in Tree /\ WellFormed(tree') /\ tree = Undone(tree', c)
        /\ Ancestry(tree', c.target) = Ancestry(tree, c.target)
    BY <1>2, <1>4, <2>2 DEF Kept
  <2>5. revision' \in [Node -> Int]
    BY <1>1, <2>2, RevisedType
  <2>6. revision = Revised(tree, revision', c.target, -1)
    BY <1>1, <2>2, <2>4, RevisedBack
  <2>7. Reversible(c, Snapshot(tree, revision), Snapshot(tree', revision'))
    BY <1>4, <2>2, <2>4, <2>6 DEF Reversible, Snapshot
  <2> QED
    BY <2>3, <2>4, <2>5, <2>7
<1> QED
  BY <1>3, <1>4

LEMMA PushIInv ==
  ASSUME IInv, NEW c, Recordable(tree, c), Push(c),
         modificationInProgress' \in BOOLEAN, base' \in Tree
  PROVE  IInv'
<1>1. CASE Crash
  BY <1>1, CrashIInv
<1>2. CASE ~Crash
  <2> DEFINE gone == freed \cup Deleted(commands, pos, RedoBranch)
             now == Snapshot(tree', revision')
  <2>1. /\ freed' = gone
        /\ commands' = Append(SubSeq(commands, 1, pos), c)
        /\ \E k \in 0..Len(ends) :
             /\ \A j \in DOMAIN ends : ends[j] <= pos <=> j <= k
             /\ ends' = SubSeq(ends, 1, k)
        /\ pos' = pos + 1 /\ goal' = pos + 1
        /\ pushedNewCommandsOnTheStack' = TRUE
        /\ RunRedo(c, gone)
        /\ past' = Append(SubSeq(past, 1, pos + 1), now)
        /\ UNCHANGED <<fault, closed, performedUndoRedo>>
    BY <1>2 DEF Push
  <2>2. gone \subseteq Node
    BY DEF IInv, TypeOK, Deleted, Below
  <2> HIDE DEF gone
  <2>3. /\ SideTypes' /\ tree' \in Tree /\ revision' \in [Node -> Int] /\ WellFormed(tree')
        /\ Reversible(c, Snapshot(tree, revision), now)
    BY <2>1, RunRedoFacts
  <2>4. now \in SnapshotType /\ now.tree = tree' /\ now.revision = revision'
    BY <2>3 DEF Snapshot, SnapshotType
  <2> HIDE DEF now
  <2>5. /\ commands \in Seq(Command) /\ c \in Command /\ pos \in 0..Len(commands)
        /\ past \in Seq(SnapshotType) /\ Len(past) = Len(commands) + 1 /\ Len(commands) \in Nat
        /\ ends \in Seq(Nat)
    BY DEF IInv, TypeOK, SnapshotType, Recordable
  <2>6. /\ commands' \in Seq(Command) /\ Len(commands') = pos + 1 /\ commands'[pos + 1] = c
        /\ \A i \in 1..pos : commands'[i] = commands[i]
    BY <2>1, <2>5, CutAppend
  <2>7. /\ past' \in Seq(SnapshotType) /\ Len(past') = pos + 2 /\ past'[pos + 2] = now
        /\ \A i \in 1..(pos + 1) : past'[i] = past[i]
    <3>1. pos + 1 \in 0..Len(past) /\ (pos + 1) + 1 = pos + 2
      BY <2>5
    <3> QED
      BY <2>1, <2>4, <2>5, <3>1, CutAppend
  <2>8. ends' \in Seq(Nat) /\ MacrosOrdered'
    <3>1. PICK k \in 0..Len(ends) : /\ \A j \in DOMAIN ends : ends[j] <= pos <=> j <= k
                                   /\ ends' = SubSeq(ends, 1, k)
      BY <2>1
    <3>2. /\ ends' \in Seq(Nat) /\ Len(ends') = k
          /\ \A i \in 1..k : ends'[i] = ends[i]
      BY <2>5, <3>1, SubSeqProperties
    <3>3. DOMAIN ends' = 1..k /\ \A i \in 1..k : i \in DOMAIN ends /\ ends[i] <= pos /\ ends[i] \in Nat
      BY <2>5, <3>1, <3>2
    <3>4. \A i \in DOMAIN ends' : ends'[i] <= Len(commands')
      BY <2>5, <2>6, <3>2, <3>3
    <3>5. \A i, j \in DOMAIN ends' : i <= j => ends'[i] <= ends'[j]
      BY <3>2, <3>3 DEF IInv, MacrosOrdered
    <3> QED
      BY <3>2, <3>4, <3>5 DEF MacrosOrdered
  <2>9. TypeOK'
    <3>1. /\ commands' \in Seq(Command) /\ ends' \in Seq(Nat)
          /\ pos' \in 0..Len(commands') /\ goal' \in 0..Len(commands')
          /\ Len(past') = Len(commands') + 1
      BY <2>1, <2>5, <2>6, <2>7, <2>8
    <3>2. past' \in Seq([tree : Tree, revision : [Node -> Int]])
      BY <2>7 DEF SnapshotType
    <3>3. /\ freed' \subseteq Node /\ fault' \in BOOLEAN /\ closed' \in BOOLEAN
          /\ pushedNewCommandsOnTheStack' \in BOOLEAN /\ performedUndoRedo' \in BOOLEAN
      BY <2>1, <2>2 DEF IInv, TypeOK
    <3> QED
      BY <2>3, <3>1, <3>2, <3>3, Zenon DEF TypeOK, SideTypes
  <2>10. TopWhilePushing'
    BY <2>1, <2>6 DEF TopWhilePushing
  <2>11. PastReversible'
    <3>1. ASSUME NEW p \in 1..(pos + 2) PROVE WellFormed(past'[p].tree)
      <4>1. CASE p = pos + 2
        BY <2>3, <2>4, <2>7, <4>1
      <4>2. CASE p \in 1..(pos + 1)
        BY <2>5, <2>7, <4>2 DEF IInv, PastReversible
      <4> QED
        BY <2>5, <4>1, <4>2
    <3>2. ASSUME NEW i \in 1..(pos + 1) PROVE Reversible(commands'[i], past'[i], past'[i + 1])
      <4>1. CASE i = pos + 1
        <5>1. past'[i] = past[i] /\ past'[i + 1] = now /\ commands'[i] = c
          BY <2>5, <2>6, <2>7, <4>1
        <5>2. past[i].tree = tree /\ past[i].revision = revision
          BY <4>1 DEF IInv, Present
        <5> QED
          BY <2>3, <5>1, <5>2 DEF Reversible, Snapshot
      <4>2. CASE i \in 1..pos
        <5>1. past'[i] = past[i] /\ past'[i + 1] = past[i + 1] /\ commands'[i] = commands[i]
              /\ i \in 1..Len(commands)
          BY <2>5, <2>6, <2>7, <4>2
        <5> QED
          BY <5>1 DEF IInv, PastReversible
      <4> QED
        BY <2>5, <4>1, <4>2
    <3> QED
      BY <2>6, <2>7, <3>1, <3>2 DEF PastReversible
  <2>12. Present'
    <3>1. pos' + 1 = pos + 2
      BY <2>1, <2>5
    <3> QED
      BY <2>4, <2>7, <3>1 DEF Present
  <2> QED
    BY <2>8, <2>9, <2>10, <2>11, <2>12 DEF IInv
<1> QED
  BY <1>1, <1>2

-----------------------------------------------------------------------------
(***************************************************************************)
(* Undo and redo run the commands on the stack one by one, along `past`.   *)
(***************************************************************************)
(* What `past` holds. *)
LEMMA SnapshotAt ==
  ASSUME NEW s \in Seq(SnapshotType), NEW i \in 1..Len(s)
  PROVE  s[i].tree \in Tree /\ s[i].revision \in [Node -> Int]
<1>1. s[i] \in SnapshotType
  OBVIOUS
<1> DEFINE e == s[i]
<1> HIDE DEF e
<1>2. e \in SnapshotType => e.tree \in Tree /\ e.revision \in [Node -> Int]
  BY DEF SnapshotType
<1> QED
  BY <1>1, <1>2 DEF e

LEMMA StepAlongPast ==
  ASSUME IInv, NEW q \in 0..Len(commands), pos' = q, SideTypes',
         tree' = past[q + 1].tree, revision' = past[q + 1].revision,
         ~pushedNewCommandsOnTheStack,
         UNCHANGED <<freed, fault, closed, commands, ends, goal, modificationInProgress,
                     pushedNewCommandsOnTheStack, performedUndoRedo, past, base>>
  PROVE  IInv'
<1>1. past \in Seq(SnapshotType) /\ q + 1 \in 1..Len(past)
  BY DEF IInv, TypeOK, SnapshotType
<1>2. tree' \in Tree /\ revision' \in [Node -> Int]
  BY <1>1, SnapshotAt
<1>3. TypeOK'
  <2>1. /\ freed' \subseteq Node /\ fault' \in BOOLEAN /\ closed' \in BOOLEAN
        /\ commands' \in Seq(Command) /\ ends' \in Seq(Nat)
        /\ pos' \in 0..Len(commands') /\ goal' \in 0..Len(commands')
        /\ modificationInProgress' \in BOOLEAN /\ pushedNewCommandsOnTheStack' \in BOOLEAN
        /\ performedUndoRedo' \in BOOLEAN
        /\ past' \in Seq([tree : Tree, revision : [Node -> Int]])
        /\ Len(past') = Len(commands') + 1 /\ base' \in Tree
    BY DEF IInv, TypeOK
  <2> QED
    BY <1>2, <2>1, Zenon DEF TypeOK, SideTypes
<1>4. MacrosOrdered' /\ TopWhilePushing' /\ PastReversible' /\ Present'
  BY DEF IInv, MacrosOrdered, TopWhilePushing, PastReversible, Present
<1> QED
  BY <1>3, <1>4 DEF IInv

LEMMA RedoCommandIInv ==
  ASSUME IInv, RedoCommand PROVE IInv'
<1>1. CASE Crash
  BY <1>1, CrashIInv DEF RedoCommand, IInv, TypeOK
<1>2. CASE ~Crash
  <2> DEFINE c == commands[pos + 1]
  <2>1. /\ pos < goal /\ RunRedo(c, {}) /\ pos' = pos + 1
        /\ UNCHANGED <<freed, fault, closed, commands, ends, goal, modificationInProgress,
                       pushedNewCommandsOnTheStack, performedUndoRedo, past, base>>
    BY <1>2 DEF RedoCommand
  <2>2. /\ pos + 1 \in 1..Len(commands) /\ ~pushedNewCommandsOnTheStack
        /\ commands \in Seq(Command)
    BY <2>1 DEF IInv, TypeOK, TopWhilePushing
  <2>3. c \in Command
    BY <2>2
  <2>4. Reversible(c, past[pos + 1], past[pos + 2])
    <3>1. (pos + 1) + 1 = pos + 2
      BY <2>2 DEF IInv, TypeOK
    <3> QED
      BY <2>2, <3>1 DEF IInv, PastReversible
  <2>5. tree = past[pos + 1].tree /\ revision = past[pos + 1].revision /\ TypeOK
    BY DEF IInv, Present
  <2>6. past[pos + 2].tree \in Tree
    <3>1. past \in Seq(SnapshotType) /\ pos + 2 \in 1..Len(past)
      BY <2>2 DEF IInv, TypeOK, SnapshotType
    <3> QED
      BY <3>1, SnapshotAt
  <2> HIDE DEF c
  <2>7. SideTypes' /\ tree' = past[pos + 2].tree /\ revision' = past[pos + 2].revision
    <3>1. CASE c.kind = "target"
      <4>1. RunSwitch(c.from, c.to, {}) /\ {c.from, c.to} \subseteq Node \cup {NoNode}
        BY <2>1, <2>3, <3>1 DEF RunRedo, Command
      <4>2. SideTypes' /\ tree' = tree /\ revision' = revision
        BY <2>5, <4>1, RunSwitchTypes
      <4> QED
        BY <2>4, <2>5, <3>1, <4>2, TargetKeepsTree DEF Reversible
    <3>2. CASE c.kind # "target"
      <4>1. RunEdit(c, Redone(tree, c), c.rem, c.ins, 1, {})
        BY <2>1, <3>2 DEF RunRedo
      <4>2. tree' = Redone(tree, c) /\ revision' = Revised(tree', revision, c.target, 1)
        BY <4>1 DEF RunEdit
      <4>3. past[pos + 2].tree = Redone(tree, c)
        BY <2>4, <2>5 DEF Reversible
      <4>4. SideTypes'
        BY <2>3, <2>5, <2>6, <3>2, <4>1, <4>3, EditTypes
      <4> QED
        BY <2>4, <2>5, <3>2, <4>2, <4>3, <4>4 DEF Reversible
    <3> QED
      BY <3>1, <3>2
  <2>8. (pos + 1) + 1 = pos + 2 /\ pos + 1 \in 0..Len(commands)
    BY <2>2 DEF IInv, TypeOK
  <2> QED
    BY <2>1, <2>2, <2>7, <2>8, StepAlongPast
<1> QED
  BY <1>1, <1>2

LEMMA UndoCommandIInv ==
  ASSUME IInv, UndoCommand PROVE IInv'
<1>1. CASE Crash
  BY <1>1, CrashIInv DEF UndoCommand, IInv, TypeOK
<1>2. CASE ~Crash
  <2> DEFINE c == commands[pos]
  <2>1. /\ pos > goal /\ RunUndo(c, {}) /\ pos' = pos - 1
        /\ UNCHANGED <<freed, fault, closed, commands, ends, goal, modificationInProgress,
                       pushedNewCommandsOnTheStack, performedUndoRedo, past, base>>
    BY <1>2 DEF UndoCommand
  <2>2. /\ pos \in 1..Len(commands) /\ ~pushedNewCommandsOnTheStack
        /\ commands \in Seq(Command)
    BY <2>1 DEF IInv, TypeOK, TopWhilePushing
  <2>3. c \in Command
    BY <2>2
  <2>4. Reversible(c, past[pos], past[pos + 1])
    BY <2>2 DEF IInv, PastReversible
  <2>5. tree = past[pos + 1].tree /\ revision = past[pos + 1].revision /\ TypeOK
    BY DEF IInv, Present
  <2>6. past[pos].tree \in Tree
    <3>1. past \in Seq(SnapshotType) /\ pos \in 1..Len(past)
      BY <2>2 DEF IInv, TypeOK, SnapshotType
    <3> QED
      BY <3>1, SnapshotAt
  <2> HIDE DEF c
  <2>7. SideTypes' /\ tree' = past[pos].tree /\ revision' = past[pos].revision
    <3>1. CASE c.kind = "target"
      <4>1. RunSwitch(c.to, c.from, {}) /\ {c.from, c.to} \subseteq Node \cup {NoNode}
        BY <2>1, <2>3, <3>1 DEF RunUndo, Command
      <4>2. SideTypes' /\ tree' = tree /\ revision' = revision
        BY <2>5, <4>1, RunSwitchTypes
      <4> QED
        BY <2>4, <2>5, <3>1, <4>2, TargetKeepsTree DEF Reversible
    <3>2. CASE c.kind # "target"
      <4>1. RunEdit(c, Undone(tree, c), c.ins, c.rem, -1, {})
        BY <2>1, <3>2 DEF RunUndo
      <4>2. tree' = Undone(tree, c) /\ revision' = Revised(tree', revision, c.target, -1)
        BY <4>1 DEF RunEdit
      <4>3. past[pos].tree = Undone(tree, c)
        BY <2>4, <2>5 DEF Reversible
      <4>4. SideTypes'
        BY <2>3, <2>5, <2>6, <3>2, <4>1, <4>3, EditTypes
      <4> QED
        BY <2>4, <2>5, <3>2, <4>2, <4>3, <4>4 DEF Reversible
    <3> QED
      BY <3>1, <3>2
  <2>8. (pos - 1) + 1 = pos /\ pos - 1 \in 0..Len(commands)
    BY <2>2 DEF IInv, TypeOK
  <2> QED
    BY <2>1, <2>2, <2>7, <2>8, StepAlongPast
<1> QED
  BY <1>1, <1>2

-----------------------------------------------------------------------------
(***************************************************************************)
(* The end of a session: the macro is closed, the oldest one may go.       *)
(***************************************************************************)
LEMMA SwitchRecordable ==
  ASSUME TypeOK, NEW n \in Node \cup {NoNode}
  PROVE  SwitchCommand(n) \in Command /\ Recordable(tree, SwitchCommand(n))
<1>1. SwitchCommand(n) \in Command
  BY DEF SwitchCommand, Command, Kind, TypeOK
<1> QED
  BY <1>1 DEF Recordable, SwitchCommand, NodeOwning

(* The stack with the last command, before the oldest macro goes. *)
LEMMA MacroClosed ==
  ASSUME IInv, pushedNewCommandsOnTheStack, NEW c \in Command, c.kind = "target",
         NEW cs, cs = Append(commands, c), NEW es, es = Append(ends, Len(cs)),
         NEW ps, ps = Append(past, Snapshot(tree, revision))
  PROVE  /\ cs \in Seq(Command) /\ Len(cs) = Len(commands) + 1
         /\ es \in Seq(Nat) /\ Len(es) = Len(ends) + 1
         /\ \A i \in 1..Len(es) : es[i] <= Len(cs)
         /\ \A i, j \in 1..Len(es) : i <= j => es[i] <= es[j]
         /\ ps \in Seq(SnapshotType) /\ Len(ps) = Len(cs) + 1
         /\ \A i \in 1..Len(ps) : WellFormed(ps[i].tree)
         /\ \A i \in 1..Len(cs) : Reversible(cs[i], ps[i], ps[i + 1])
         /\ ps[Len(cs) + 1] = Snapshot(tree, revision)
<1>1. /\ commands \in Seq(Command) /\ ends \in Seq(Nat) /\ past \in Seq(SnapshotType)
      /\ Len(past) = Len(commands) + 1 /\ Len(commands) \in Nat /\ pos = Len(commands)
      /\ tree \in Tree /\ revision \in [Node -> Int]
  BY DEF IInv, TypeOK, SnapshotType, TopWhilePushing
<1>2. /\ cs \in Seq(Command) /\ Len(cs) = Len(commands) + 1 /\ cs[Len(commands) + 1] = c
      /\ \A i \in 1..Len(commands) : cs[i] = commands[i]
  BY <1>1, AppendProperties
<1>3. /\ es \in Seq(Nat) /\ Len(es) = Len(ends) + 1 /\ es[Len(ends) + 1] = Len(cs)
      /\ \A i \in 1..Len(ends) : es[i] = ends[i]
  BY <1>1, <1>2, AppendProperties
<1>4. \A i \in 1..Len(ends) : ends[i] <= Len(commands) /\ ends[i] \in Nat
  BY <1>1 DEF IInv, MacrosOrdered
<1>5. \A i \in 1..Len(es) : es[i] <= Len(cs)
  BY <1>1, <1>2, <1>3, <1>4
<1>6. \A i, j \in 1..Len(es) : i <= j => es[i] <= es[j]
  <2>1. \A i, j \in 1..Len(ends) : i <= j => ends[i] <= ends[j]
    BY <1>1 DEF IInv, MacrosOrdered
  <2> QED
    BY <1>1, <1>2, <1>3, <1>4, <2>1
<1> DEFINE now == Snapshot(tree, revision)
<1>7. now \in SnapshotType /\ now.tree = tree /\ now.revision = revision
  BY <1>1 DEF Snapshot, SnapshotType
<1> HIDE DEF now
<1>8. /\ ps \in Seq(SnapshotType) /\ Len(ps) = Len(cs) + 1 /\ ps[Len(cs) + 1] = now
      /\ \A i \in 1..Len(cs) : ps[i] = past[i]
  <2>1. ps = Append(past, now)
    BY DEF now
  <2> QED
    BY <1>1, <1>2, <1>7, <2>1, AppendProperties
<1>9. past[Len(cs)].tree = tree /\ past[Len(cs)].revision = revision
  BY <1>1, <1>2 DEF IInv, Present
<1>10. \A i \in 1..Len(ps) : WellFormed(ps[i].tree)
  <2>1. \A i \in 1..Len(cs) : WellFormed(past[i].tree)
    BY <1>1, <1>2 DEF IInv, PastReversible
  <2>2. Len(cs) \in 1..Len(cs)
    BY <1>1, <1>2
  <2>3. WellFormed(tree)
    BY <1>9, <2>1, <2>2
  <2> QED
    BY <1>1, <1>2, <1>7, <1>8, <2>1, <2>3
<1>11. ASSUME NEW i \in 1..Len(cs) PROVE Reversible(cs[i], ps[i], ps[i + 1])
  <2>1. CASE i = Len(cs)
    <3>1. cs[i] = c /\ ps[i] = past[i] /\ ps[i + 1] = now
      BY <1>1, <1>2, <1>8, <2>1
    <3>2. past[i].tree = now.tree /\ past[i].revision = now.revision
      BY <1>7, <1>9, <2>1
    <3> QED
      BY <3>1, <3>2, TargetKeepsTree DEF Reversible
  <2>2. CASE i # Len(cs)
    <3>1. /\ i \in 1..Len(commands) /\ cs[i] = commands[i] /\ ps[i] = past[i]
          /\ ps[i + 1] = past[i + 1]
      BY <1>1, <1>2, <1>8, <2>2
    <3> QED
      BY <3>1 DEF IInv, PastReversible
  <2> QED
    BY <2>1, <2>2
<1> QED
  BY <1>2, <1>3, <1>5, <1>6, <1>8, <1>10, <1>11 DEF now

LEMMA EndMacroIInv ==
  ASSUME IInv, pushedNewCommandsOnTheStack, EndMacro, modificationInProgress' \in BOOLEAN,
         base' \in Tree
  PROVE  IInv'
<1>1. CASE Crash
  BY <1>1, CrashIInv
<1>2. CASE ~Crash
  <2> DEFINE c == SwitchCommand(NoNode)
             cs == Append(commands, c)
             es == Append(ends, Len(cs))
             drop == IF Len(es) > UndoLimit THEN es[1] ELSE 0
             gone == freed \cup Deleted(cs, Len(cs), 1..drop)
             ps == Append(past, Snapshot(tree, revision))
  <2>1. /\ freed' = gone
        /\ SwitchTarget(currentModificationTarget, NoNode)
        /\ commands' = SubSeq(cs, drop + 1, Len(cs))
        /\ ends' = IF drop = 0 THEN es ELSE [k \in 1..Len(ends) |-> es[k + 1] - drop]
        /\ pos' = Len(cs) - drop
        /\ goal' = Len(cs) - drop
        /\ past' = SubSeq(ps, drop + 1, Len(cs) + 1)
        /\ nodeIdMap' = nodeIdMap \ gone
        /\ nodeIdMapForUndoStack' = nodeIdMapForUndoStack \ gone
        /\ modifiedTargets' = {} /\ removedTargets' = {}
        /\ pushedNewCommandsOnTheStack' = FALSE
        /\ performedUndoRedo' = FALSE
        /\ UNCHANGED <<tree, revision, fault, closed, joined>>
    BY <1>2, Zenon DEF EndMacro
  <2>2. c \in Command /\ c.kind = "target" /\ TypeOK
    BY SwitchRecordable DEF SwitchCommand, IInv
  <2>3. gone \subseteq Node
    BY DEF IInv, TypeOK, Deleted, Below
  <2> HIDE DEF c, gone
  <2>4. /\ cs \in Seq(Command) /\ Len(cs) = Len(commands) + 1
        /\ es \in Seq(Nat) /\ Len(es) = Len(ends) + 1
        /\ \A i \in 1..Len(es) : es[i] <= Len(cs)
        /\ \A i, j \in 1..Len(es) : i <= j => es[i] <= es[j]
        /\ ps \in Seq(SnapshotType) /\ Len(ps) = Len(cs) + 1
        /\ \A i \in 1..Len(ps) : WellFormed(ps[i].tree)
        /\ \A i \in 1..Len(cs) : Reversible(cs[i], ps[i], ps[i + 1])
        /\ ps[Len(cs) + 1] = Snapshot(tree, revision)
    BY <2>2, MacroClosed
  <2>5. Len(ends) \in Nat /\ Len(commands) \in Nat
    BY DEF IInv, TypeOK
  <2> HIDE DEF cs, es, ps
  <2>6. /\ drop \in 0..Len(cs)
        /\ drop # 0 => drop = es[1]
    BY <2>4, <2>5
  <2> HIDE DEF drop
  <2>7. /\ commands' \in Seq(Command) /\ Len(commands') = Len(cs) - drop
        /\ \A i \in 1..(Len(cs) - drop) : commands'[i] = cs[i + drop]
    <3>1. /\ cs \in Seq(Command) /\ drop \in 0..Len(cs)
          /\ commands' = SubSeq(cs, drop + 1, Len(cs))
      BY <2>1, <2>4, <2>6
    <3> QED
      BY <3>1, Suffix
  <2>8. /\ past' \in Seq(SnapshotType) /\ Len(past') = (Len(cs) + 1) - drop
        /\ \A i \in 1..((Len(cs) + 1) - drop) : past'[i] = ps[i + drop]
    <3>1. ps \in Seq(SnapshotType) /\ Len(ps) = Len(cs) + 1
      BY <2>4
    <3>2. drop \in 0..Len(ps) /\ past' = SubSeq(ps, drop + 1, Len(ps))
      BY <2>1, <2>4, <2>6, <3>1
    <3>3. /\ past' \in Seq(SnapshotType) /\ Len(past') = Len(ps) - drop
          /\ \A i \in 1..(Len(ps) - drop) : past'[i] = ps[i + drop]
      BY <3>1, <3>2, Suffix
    <3> QED
      BY <3>1, <3>3
  <2>9. ends' \in Seq(Nat) /\ MacrosOrdered'
    <3>1. CASE drop = 0
      <4>1. ends' = es /\ Len(commands') = Len(cs)
        BY <2>1, <2>4, <2>5, <2>7, <3>1
      <4> QED
        BY <2>4, <4>1 DEF MacrosOrdered
    <3>2. CASE drop # 0
      <4>1. ends' = [k \in 1..Len(ends) |-> es[k + 1] - drop]
        BY <2>1, <3>2
      <4>2. \A k \in 1..Len(ends) : /\ 1 \in 1..Len(es) /\ k + 1 \in 1..Len(es)
                                    /\ es[k + 1] \in Nat /\ es[1] \in Nat
                                    /\ es[1] <= es[k + 1] /\ es[k + 1] <= Len(cs)
        BY <2>4, <2>5
      <4>3. ASSUME NEW k \in 1..Len(ends)
            PROVE  es[k + 1] - drop \in Nat /\ es[k + 1] - drop <= Len(commands')
        <5>1. /\ es[k + 1] \in Nat /\ drop \in Nat /\ drop <= es[k + 1] /\ es[k + 1] <= Len(cs)
              /\ Len(commands') = Len(cs) - drop /\ Len(cs) \in Nat
          <6>1. es[k + 1] \in Nat /\ es[1] \in Nat /\ es[1] <= es[k + 1] /\ es[k + 1] <= Len(cs)
            BY <4>2
          <6>2. Len(cs) \in Nat /\ drop = es[1] /\ Len(commands') = Len(cs) - drop
            BY <2>4, <2>5, <2>6, <2>7, <3>2
          <6> QED
            BY <6>1, <6>2
        <5> QED
          BY ONLY <5>1
      <4>4. ends' \in Seq(Nat) /\ Len(ends') = Len(ends)
        BY <2>5, <4>1, <4>3
      <4>5. ASSUME NEW i \in 1..Len(ends), NEW j \in 1..Len(ends), i <= j
            PROVE  es[i + 1] - drop <= es[j + 1] - drop
        <5>1. i + 1 <= j + 1 /\ i + 1 \in 1..Len(es) /\ j + 1 \in 1..Len(es)
          BY <2>4, <2>5, <4>5
        <5>2. es[i + 1] <= es[j + 1]
          BY <2>4, <5>1
        <5> QED
          BY <2>6, <4>2, <5>2
      <4> QED
        BY <4>1, <4>3, <4>4, <4>5 DEF MacrosOrdered
    <3> QED
      BY <3>1, <3>2
  <2>10. /\ pos' \in 0..Len(commands') /\ goal' = pos' /\ pos' = Len(commands')
         /\ Len(past') = Len(commands') + 1 /\ past'[pos' + 1] = Snapshot(tree, revision)
    <3>1. Len(cs) \in Nat /\ Len(cs) - drop \in Nat
      BY <2>4, <2>5, <2>6
    <3>2. pos' = Len(cs) - drop /\ goal' = pos' /\ Len(commands') = pos'
      BY <2>1, <2>7
    <3>3. drop \in Nat
      BY <2>6
    <3>4. Len(past') = Len(commands') + 1
      BY <2>8, <3>1, <3>2, <3>3
    <3>5. pos' + 1 \in 1..((Len(cs) + 1) - drop) /\ (pos' + 1) + drop = Len(cs) + 1
      BY <3>1, <3>2, <3>3
    <3>6. past'[pos' + 1] = Snapshot(tree, revision)
      BY <2>4, <2>8, <3>5
    <3> QED
      BY <3>1, <3>2, <3>4, <3>6
  <2>11. TypeOK'
    <3>1. /\ currentModificationTarget' \in Node \cup {NoNode}
          /\ currentModificationLock' \in Unit \cup {Root, NoNode}
          /\ held' \subseteq Unit \cup {Root}
      BY <2>1, <2>2, SwitchTypes DEF TypeOK
    <3>2. past' \in Seq([tree : Tree, revision : [Node -> Int]])
      BY <2>8 DEF SnapshotType
    <3>3. /\ tree' \in Tree /\ revision' \in [Node -> Int] /\ freed' \subseteq Node
          /\ joined' \subseteq Node /\ fault' \in BOOLEAN /\ closed' \in BOOLEAN
          /\ pushedNewCommandsOnTheStack' \in BOOLEAN /\ performedUndoRedo' \in BOOLEAN
          /\ modifiedTargets' \subseteq Node /\ removedTargets' \subseteq Node
          /\ nodeIdMap' \subseteq Node /\ nodeIdMapForUndoStack' \subseteq Node
      BY <2>1, <2>2, <2>3 DEF TypeOK
    <3>4. goal' \in 0..Len(commands')
      BY <2>10
    <3> QED
      BY <2>7, <2>9, <2>10, <3>1, <3>2, <3>3, <3>4, Zenon DEF TypeOK
  <2>12. TopWhilePushing'
    BY <2>1 DEF TopWhilePushing
  <2>13. PastReversible'
    <3>1. Len(cs) \in Nat /\ drop \in Nat
      BY <2>4, <2>5, <2>6
    <3>2. ASSUME NEW p \in 1..Len(past') PROVE WellFormed(past'[p].tree)
      <4>1. p \in 1..((Len(cs) + 1) - drop) /\ Len(ps) = Len(cs) + 1
        BY <2>4, <2>8
      <4>2. p + drop \in 1..Len(ps)
        BY ONLY <3>1, <4>1
      <4>3. past'[p] = ps[p + drop]
        BY <2>8, <4>1
      <4> QED
        BY <2>4, <4>2, <4>3
    <3>3. ASSUME NEW i \in 1..Len(commands') PROVE Reversible(commands'[i], past'[i], past'[i + 1])
      <4>1. /\ i + drop \in 1..Len(cs) /\ commands'[i] = cs[i + drop] /\ past'[i] = ps[i + drop]
            /\ past'[i + 1] = ps[(i + drop) + 1]
        <5>1. i \in 1..(Len(cs) - drop)
          BY <2>7
        <5>2. /\ i + drop \in 1..Len(cs) /\ i \in 1..((Len(cs) + 1) - drop)
              /\ i + 1 \in 1..((Len(cs) + 1) - drop) /\ (i + 1) + drop = (i + drop) + 1
          BY ONLY <3>1, <5>1
        <5>3. commands'[i] = cs[i + drop]
          BY <2>7, <5>1
        <5>4. past'[i] = ps[i + drop] /\ past'[i + 1] = ps[(i + 1) + drop]
          BY <2>8, <5>2
        <5> QED
          BY <5>2, <5>3, <5>4
      <4> QED
        BY <2>4, <4>1
    <3> QED
      BY <3>2, <3>3 DEF PastReversible
  <2>14. Present'
    <3>1. tree' = tree /\ revision' = revision
      BY <2>1
    <3> QED
      BY <2>10, <3>1 DEF Present, Snapshot
  <2> QED
    BY <2>9, <2>11, <2>12, <2>13, <2>14 DEF IInv
<1> QED
  BY <1>1, <1>2

LEMMA EndModificationIInv ==
  ASSUME IInv, EndModification PROVE IInv'
<1>1. modificationInProgress' = FALSE /\ base' = base /\ base \in Tree
  BY DEF EndModification, IInv, TypeOK
<1>2. CASE pushedNewCommandsOnTheStack
  <2>1. EndMacro
    BY <1>2 DEF EndModification
  <2> QED
    BY <1>1, <1>2, <2>1, EndMacroIInv
<1>3. CASE ~pushedNewCommandsOnTheStack
  <2>1. /\ performedUndoRedo' = FALSE
        /\ modifiedTargets' = {} /\ removedTargets' = {}
        /\ UNCHANGED <<tree, revision, freed, fault, closed, stack,
                       pushedNewCommandsOnTheStack, locks, ids, past, joined>>
    BY <1>3 DEF EndModification
  <2>2. TypeOK'
    BY <1>1, <2>1 DEF IInv, TypeOK, stack, locks, ids
  <2> QED
    BY <2>1, <2>2, StackUntouched DEF stack
<1> QED
  BY <1>2, <1>3

-----------------------------------------------------------------------------
(***************************************************************************)
(* The other actions.                                                      *)
(***************************************************************************)
LEMMA BeginModificationIInv ==
  ASSUME IInv, BeginModification PROVE IInv'
<1>1. TypeOK'
  BY DEF BeginModification, IInv, TypeOK, stack, locks, ids
<1> QED
  BY <1>1, StackUntouched DEF BeginModification, stack

LEMMA SwitchIInv ==
  ASSUME IInv, NEW n \in Node, BeginModificationAt(n) \/ ChangeModificationTarget(n)
  PROVE  IInv'
<1>1. Push(SwitchCommand(n)) /\ modificationInProgress' \in BOOLEAN /\ base' \in Tree
  BY DEF BeginModificationAt, ChangeModificationTarget, IInv, TypeOK
<1>2. Recordable(tree, SwitchCommand(n))
  BY SwitchRecordable DEF IInv
<1> QED
  BY <1>1, <1>2, PushIInv

LEMMA TravelIInv ==
  ASSUME IInv, Undo \/ Redo PROVE IInv'
<1>1. /\ ~pushedNewCommandsOnTheStack /\ performedUndoRedo' = TRUE
      /\ goal' \in Boundaries \cup {pos}
      /\ UNCHANGED <<tree, revision, freed, fault, closed, commands, ends, pos,
                     modificationInProgress, pushedNewCommandsOnTheStack, locks, notes, ids,
                     past, base, joined>>
  BY DEF Undo, Redo, MayTravel
<1>2. goal' \in 0..Len(commands)
  <2>1. Range(ends) \subseteq 0..Len(commands)
    <3>1. ASSUME NEW i \in DOMAIN ends PROVE ends[i] \in 0..Len(commands)
      BY DEF IInv, TypeOK, MacrosOrdered
    <3> QED
      BY <3>1 DEF Range
  <2> QED
    BY <1>1, <2>1 DEF Boundaries, IInv, TypeOK
<1>3. TypeOK'
  <2>1. TypeOK
    BY DEF IInv
  <2> QED
    BY <1>1, <1>2, <2>1 DEF TypeOK, locks, notes, ids
<1> QED
  BY <1>1, <1>3, StackUntouched

LEMMA SaveIInv ==
  ASSUME IInv, Save PROVE IInv'
<1>1. TypeOK'
  BY DEF Save, IInv, TypeOK, stack, flags, locks, notes, InTree
<1> QED
  BY <1>1, StackUntouched DEF Save, stack, flags

LEMMA CloseIInv ==
  ASSUME IInv, Close PROVE IInv'
<1>1. CASE Crash
  <2>1. UNCHANGED <<modificationInProgress, base>>
    BY Zenon DEF Close, flags
  <2> QED
    BY <1>1, <2>1, CrashIInv DEF IInv, TypeOK
<1>2. CASE ~Crash
  <2> DEFINE own == [i \in DOMAIN commands |-> Owned(commands, pos, i)]
             owners == {i \in DOMAIN commands : own[i] # NoNode}
             below == Below(tree, Root) \cup UNION {Below(tree, own[i]) : i \in owners}
  <2>1. /\ freed' = freed \cup below /\ closed' = TRUE
        /\ commands' = <<>> /\ ends' = <<>> /\ pos' = 0 /\ goal' = 0
        /\ past' = <<Snapshot(tree, revision)>>
        /\ nodeIdMap' = {} /\ nodeIdMapForUndoStack' = {}
        /\ UNCHANGED <<tree, revision, fault, flags, locks, notes, base, joined>>
    BY <1>2, Zenon DEF Close
  <2>2. below \subseteq Node
    BY DEF Below
  <2> HIDE DEF below
  <2>3. /\ tree \in Tree /\ revision \in [Node -> Int] /\ WellFormed(tree)
        /\ TypeOK
    <3>1. pos + 1 \in 1..Len(past)
      BY DEF IInv, TypeOK
    <3> QED
      BY <3>1 DEF IInv, TypeOK, PastReversible, Present
  <2> DEFINE now == Snapshot(tree, revision)
  <2>4. now \in SnapshotType /\ now.tree = tree /\ now.revision = revision
    BY <2>3 DEF Snapshot, SnapshotType
  <2>5. past' = <<now>>
    BY <2>1
  <2> HIDE DEF now
  <2>6. past' \in Seq(SnapshotType) /\ Len(past') = 1 /\ past'[1] = now
    BY <2>4, <2>5
  <2>7. Len(commands') = 0 /\ commands' \in Seq(Command) /\ ends' \in Seq(Nat) /\ Len(ends') = 0
    BY <2>1
  <2>8. TypeOK'
    <3>1. past' \in Seq([tree : Tree, revision : [Node -> Int]])
      BY <2>6 DEF SnapshotType
    <3>2. /\ pos' \in 0..Len(commands') /\ goal' \in 0..Len(commands')
          /\ Len(past') = Len(commands') + 1
      BY <2>1, <2>6, <2>7
    <3>3. /\ tree' \in Tree /\ revision' \in [Node -> Int]
          /\ freed' \subseteq Node /\ joined' \subseteq Node
          /\ fault' \in BOOLEAN /\ closed' \in BOOLEAN
          /\ nodeIdMap' \subseteq Node /\ nodeIdMapForUndoStack' \subseteq Node
          /\ base' \in Tree
      BY <2>1, <2>2, <2>3 DEF TypeOK
    <3>4. UNCHANGED <<modificationInProgress, pushedNewCommandsOnTheStack, performedUndoRedo,
                      currentModificationTarget, currentModificationLock, held,
                      modifiedTargets, removedTargets>>
      BY <2>1 DEF flags, locks, notes
    <3> QED
      BY <2>3, <2>7, <3>1, <3>2, <3>3, <3>4, Zenon DEF TypeOK
  <2>9. MacrosOrdered' /\ TopWhilePushing'
    BY <2>1, <2>7 DEF MacrosOrdered, TopWhilePushing
  <2>10. PastReversible'
    <3>1. \A p \in 1..Len(past') : WellFormed(past'[p].tree)
      BY <2>3, <2>4, <2>6
    <3>2. 1..Len(commands') = {}
      BY <2>7
    <3> QED
      BY <3>1, <3>2 DEF PastReversible
  <2>11. Present'
    BY <2>1, <2>4, <2>6 DEF Present
  <2> QED
    BY <2>8, <2>9, <2>10, <2>11 DEF IInv
<1> QED
  BY <1>1, <1>2

(***************************************************************************)
(* Client code edits nodes of the tree only: every edit is recorded.       *)
(***************************************************************************)
LEMMA ExecuteIInv ==
  ASSUME OnlyTreeEdits, IInv, NEW c, Execute(c), tree.managed[c.target] => Recordable(tree, c)
  PROVE  IInv'
<1>1. tree.managed[c.target] /\ Push(c)
  BY DEF Execute, Record, OnlyTreeEdits
<1>2. modificationInProgress' \in BOOLEAN /\ base' \in Tree
  BY DEF Execute, IInv, TypeOK
<1> QED
  BY <1>1, <1>2, PushIInv

(* An edit is a command that may be recorded. *)
Recorded ==
  \E c : /\ Execute(c) /\ c.kind # "target"
         /\ tree.managed[c.target] => Recordable(tree, c)
         /\ c.ins # NoNode => c.ins \in Insertable(c.target)

LEMMA RecordedIInv ==
  ASSUME OnlyTreeEdits, IInv, Recorded PROVE IInv'
  BY ExecuteIInv DEF Recorded

LEMMA EditIsCommand ==
  ASSUME TypeOK, NEW kind \in {"insert", "remove", "change"}, NEW n \in Node,
         NEW ins \in Node \cup {NoNode}, NEW rem \in Node \cup {NoNode}, NEW i \in Nat
  PROVE  Edit(kind, n, ins, rem, i) \in Command
<1>1. tree.managed[n] \in BOOLEAN
  BY DEF TypeOK, Tree
<1> QED
  BY <1>1 DEF Edit, Command, Kind

LEMMA EditRecorded ==
  ASSUME IInv,
         \/ \E n, m \in Node : ListInsert(n, m)
         \/ \E n \in Node : ListRemove(n)
         \/ \E n \in Node, m \in Node \cup {NoNode} : CompositeSet(n, m)
  PROVE  Recorded
<1>1. TypeOK /\ tree \in Tree
  BY DEF IInv, TypeOK
<1>2. \A n \in Node : tree.kids[n] \in Seq(Node \cup {NoNode})
  BY <1>1 DEF Tree
<1>3. \A n, m : m \in Insertable(n) => m \in Node /\ m # Root /\ tree.parent[m] = NoNode
  BY DEF Insertable
<1>4. ASSUME NEW n \in Node, NEW m \in Node, ListInsert(n, m) PROVE Recorded
  <2>1. PICK i \in 1..(Len(tree.kids[n]) + 1) : Execute(Edit("insert", n, m, NoNode, i))
    BY <1>4 DEF ListInsert
  <2>2. m # Root /\ tree.parent[m] = NoNode /\ m # NoNode /\ i \in Nat
    BY <1>2, <1>3, <1>4, NoNodeAssumption DEF ListInsert
  <2> DEFINE c == Edit("insert", n, m, NoNode, i)
  <2>3. c \in Command
    BY <1>1, <2>2, EditIsCommand
  <2>4. /\ c.kind = "insert" /\ c.target = n /\ c.ins = m /\ c.rem = NoNode /\ c.pos = i
        /\ c.tracked = tree.managed[n]
    BY DEF Edit
  <2> HIDE DEF c
  <2>5. tree.managed[c.target] => Recordable(tree, c)
    BY <2>2, <2>3, <2>4 DEF Recordable, NodeOwning
  <2>6. Execute(c)
    BY <2>1 DEF c
  <2>7. c.ins \in Insertable(c.target)
    BY <1>4, <2>4 DEF ListInsert
  <2> QED
    BY <2>4, <2>5, <2>6, <2>7 DEF Recorded
<1>5. ASSUME NEW n \in Node, ListRemove(n) PROVE Recorded
  <2>1. PICK i \in DOMAIN tree.kids[n] : Execute(Edit("remove", n, NoNode, tree.kids[n][i], i))
    BY <1>5 DEF ListRemove
  <2>2. tree.kids[n][i] \in Node \cup {NoNode} /\ i \in Nat
    BY <1>2
  <2> DEFINE c == Edit("remove", n, NoNode, tree.kids[n][i], i)
  <2>3. c \in Command
    BY <1>1, <2>2, EditIsCommand
  <2>4. /\ c.kind = "remove" /\ c.target = n /\ c.ins = NoNode /\ c.pos = i
        /\ c.rem = tree.kids[n][i] /\ c.tracked = tree.managed[n]
    BY DEF Edit
  <2> HIDE DEF c
  <2>5. tree.managed[c.target] => Recordable(tree, c)
    BY <2>2, <2>3, <2>4 DEF Recordable, NodeOwning
  <2>6. Execute(c)
    BY <2>1 DEF c
  <2> QED
    BY <2>4, <2>5, <2>6 DEF Recorded
<1>6. ASSUME NEW n \in Node, NEW m \in Node \cup {NoNode}, CompositeSet(n, m) PROVE Recorded
  <2>1. PICK i \in DOMAIN tree.kids[n] : Execute(Edit("change", n, m, tree.kids[n][i], i))
    BY <1>6 DEF CompositeSet
  <2>2. /\ tree.kids[n][i] \in Node \cup {NoNode} /\ i \in Nat
        /\ m # NoNode => m # Root /\ tree.parent[m] = NoNode
    BY <1>2, <1>3, <1>6 DEF CompositeSet
  <2> DEFINE c == Edit("change", n, m, tree.kids[n][i], i)
  <2>3. c \in Command
    BY <1>1, <2>2, EditIsCommand
  <2>4. /\ c.kind = "change" /\ c.target = n /\ c.ins = m /\ c.pos = i
        /\ c.rem = tree.kids[n][i] /\ c.tracked = tree.managed[n]
    BY DEF Edit
  <2> HIDE DEF c
  <2>5. tree.managed[c.target] => Recordable(tree, c)
    BY <2>2, <2>3, <2>4 DEF Recordable, NodeOwning
  <2>6. Execute(c)
    BY <2>1 DEF c
  <2>7. c.ins # NoNode => c.ins \in Insertable(c.target)
    BY <1>6, <2>4 DEF CompositeSet
  <2> QED
    BY <2>4, <2>5, <2>6, <2>7 DEF Recorded
<1> QED
  BY <1>4, <1>5, <1>6

LEMMA FieldSetRecorded ==
  ASSUME IInv, NEW n \in FieldNode, NEW v \in Value, FieldSet(n, v)
  PROVE  Recorded
<1> DEFINE c == [Edit("set", n, NoNode, NoNode, 0) EXCEPT !.from = tree.value[n], !.to = v]
<1>1. n \in Node /\ tree.value[n] \in Value /\ tree.managed[n] \in BOOLEAN
  BY ConstantsAssumption DEF IInv, TypeOK, Tree
<1>2. c = [kind |-> "set", target |-> n, ins |-> NoNode, rem |-> NoNode, pos |-> 0,
           from |-> tree.value[n], to |-> v, tracked |-> tree.managed[n]]
  <2> DEFINE a == tree.value[n]
             b == tree.managed[n]
  <2>1. c = [[kind |-> "set", target |-> n, ins |-> NoNode, rem |-> NoNode, pos |-> 0,
              from |-> NoNode, to |-> NoNode, tracked |-> b] EXCEPT !.from = a, !.to = v]
    BY DEF Edit
  <2> HIDE DEF a, b, c
  <2>2. c = [kind |-> "set", target |-> n, ins |-> NoNode, rem |-> NoNode, pos |-> 0,
             from |-> a, to |-> v, tracked |-> b]
    BY <2>1
  <2> QED
    BY <2>2 DEF a, b
<1>3. Execute(c)
  BY DEF FieldSet
<1> HIDE DEF c
<1>4. c \in Command
  BY <1>1, <1>2 DEF Command, Kind
<1>5. tree.managed[c.target] => Recordable(tree, c)
  BY <1>2, <1>4 DEF Recordable, NodeOwning
<1> QED
  BY <1>2, <1>3, <1>5 DEF Recorded

-----------------------------------------------------------------------------
LEMMA NextIInv ==
  ASSUME OnlyTreeEdits, IInv, [Next]_vars PROVE IInv'
<1>1. CASE BeginModification
  BY <1>1, BeginModificationIInv
<1>2. CASE \E n \in Node : BeginModificationAt(n) \/ ChangeModificationTarget(n)
  BY <1>2, SwitchIInv
<1>3. CASE EndModification
  BY <1>3, EndModificationIInv
<1>4. CASE Undo \/ Redo
  BY <1>4, TravelIInv
<1>5. CASE UndoCommand
  BY <1>5, UndoCommandIInv
<1>6. CASE RedoCommand
  BY <1>6, RedoCommandIInv
<1>7. CASE \/ \E n, m \in Node : ListInsert(n, m)
           \/ \E n \in Node : ListRemove(n)
           \/ \E n \in Node, m \in Node \cup {NoNode} : CompositeSet(n, m)
  BY <1>7, EditRecorded, RecordedIInv
<1>8. CASE \E n \in FieldNode, v \in Value : FieldSet(n, v)
  BY <1>8, FieldSetRecorded, RecordedIInv
<1>9. CASE Save
  BY <1>9, SaveIInv
<1>10. CASE Close
  BY <1>10, CloseIInv
<1>11. CASE UNCHANGED vars
  <2>1. TypeOK'
    BY <1>11 DEF IInv, TypeOK, vars, stack, flags, locks, notes, ids
  <2> QED
    BY <1>11, <2>1, StackUntouched DEF vars, stack, flags
<1> QED
  BY <1>1, <1>2, <1>3, <1>4, <1>5, <1>6, <1>7, <1>8, <1>9, <1>10, <1>11 DEF Next

(***************************************************************************)
(* The inductive invariant: the snapshots that the commands of the undo    *)
(* stack link, forwards and backwards, are trees, and the present tree is  *)
(* the one at the position of the stack.                                   *)
(***************************************************************************)
THEOREM HistoryLinked ==
  ASSUME OnlyTreeEdits PROVE Spec => []IInv
<1>1. Init => IInv
  BY InitIInv
<1>2. IInv /\ [Next]_vars => IInv'
  BY NextIInv
<1> QED
  BY <1>1, <1>2, PTL DEF Spec

(***************************************************************************)
(* Type correctness: among others, the undo stack is never asked to run a  *)
(* command below its bottom or above its top, and the history of trees     *)
(* stays as long as the stack, through undo, redo, a new session that cuts *)
(* the redo branch off, and the undo limit that drops the oldest macro.    *)
(***************************************************************************)
THEOREM TypeCorrect ==
  ASSUME OnlyTreeEdits PROVE Spec => []TypeOK
<1>1. IInv => TypeOK
  BY DEF IInv
<1> QED
  BY <1>1, HistoryLinked, PTL

(***************************************************************************)
(* Undo and redo restore the tree, the fields and the revisions exactly,   *)
(* for every number of nodes, every tree and every undo limit, as long as  *)
(* client code edits nodes of the tree only (NodeOwningCommand and         *)
(* FieldSet through TreeManager::undo and redo).                           *)
(***************************************************************************)
THEOREM UndoRestores ==
  ASSUME OnlyTreeEdits PROVE Spec => []HistoryRestored
<1>1. IInv => HistoryRestored
  BY DEF IInv, Present, HistoryRestored, SameNode
<1> QED
  BY <1>1, HistoryLinked, PTL

(***************************************************************************)
(* The tree stays a tree: parents and children agree, no node has two      *)
(* places, there is no cycle, and exactly the nodes below the root have    *)
(* the manager (Node::setParent, through every command).                   *)
(***************************************************************************)
THEOREM TreeStaysTree ==
  ASSUME OnlyTreeEdits PROVE Spec => []TreeWellFormed
<1>1. ASSUME IInv PROVE TreeWellFormed
  <2>1. pos + 1 \in 1..Len(past)
    BY <1>1 DEF IInv, TypeOK
  <2> QED
    BY <1>1, <2>1 DEF IInv, PastReversible, Present, TreeWellFormed
<1> QED
  BY <1>1, HistoryLinked, PTL

-----------------------------------------------------------------------------
(***************************************************************************)
(* The access units that modification sessions lock, for every tree and    *)
(* every undo limit, as long as client code edits only nodes of the tree.  *)
(*                                                                         *)
(* Which unit is locked while a macro is undone or redone depends on the   *)
(* commands that were run before: SetModificationTarget knows its target   *)
(* and the one before, an edit knows neither.  The invariant therefore     *)
(* says that there was a target tau[p] after every command p of the stack, *)
(* that it agrees with what the commands around p say, and that the edits  *)
(* were made below it, in its unit.                                        *)
(***************************************************************************)

(* An edit of n, for the target m, that leads from the tree b to a or back. *)
Guarded(b, a, m, n) ==
  /\ m \in Node /\ n \in Node
  /\ b.managed[m] /\ a.managed[m]
  /\ AccessLock(b, n) = AccessLock(b, m)
  /\ AccessLock(a, n) = AccessLock(a, m)
  /\ AccessLock(a, m) = AccessLock(b, m)
  /\ \A k \in Node \ {n} : a.kids[k] = b.kids[k] /\ a.value[k] = b.value[k]

(* Command c leads from target `from` to target `to`, and from the tree b to a. *)
Linked(c, from, to, b, a) ==
  /\ c.kind = "target" => c.from = from /\ c.to = to
  /\ c.kind # "target" => from = to /\ Guarded(b, a, to, c.target)

(* After p commands the target was tau[p]. *)
Targets(tau) ==
  /\ \A p \in Boundaries : tau[p] = NoNode
  /\ \A p \in 0..Len(commands) : tau[p] # NoNode => past[p + 1].tree.managed[tau[p]]
  /\ \A p \in 1..Len(commands) :
        Linked(commands[p], tau[p - 1], tau[p], past[p].tree, past[p + 1].tree)
  /\ tau[pos] = currentModificationTarget

(* The unit of the target, and nothing else, is locked. *)
Locked ==
  /\ currentModificationTarget = NoNode => held = {} /\ currentModificationLock = NoNode
  /\ currentModificationTarget # NoNode =>
       /\ currentModificationLock = AccessLock(tree, currentModificationTarget)
       /\ held = {currentModificationLock}

(* Undo and redo end between two macros, and sessions begin there. *)
AtBoundary ==
  /\ ~pushedNewCommandsOnTheStack => goal \in Boundaries
  /\ ~modificationInProgress => ~pushedNewCommandsOnTheStack /\ pos = goal

Session ==
  /\ \E tau \in [0..Len(commands) -> Node \cup {NoNode}] : Targets(tau)
  /\ Locked
  /\ AtBoundary

SInv == IInv /\ (~fault => Session)

(* What EditsUnderLock says of a step. *)
EditsLocked ==
  \A n \in InTree(tree) :
    (tree.kids[n] # tree'.kids[n] \/ tree.value[n] # tree'.value[n])
      => modificationInProgress /\ AccessLock(tree, n) \in held

-----------------------------------------------------------------------------
(***************************************************************************)
(* A local edit changes no unit above the edited node.                     *)
(***************************************************************************)
LEMMA LocalUnits ==
  ASSUME NEW t \in Tree, NEW u \in Tree, NEW n \in Node, Local(t, u, n), NEW k \in Ancestry(t, n)
  PROVE  AccessLock(u, k) = AccessLock(t, k)
<1>1. \A j \in Ancestry(t, n) : j \in Node /\ u.parent[j] = t.parent[j]
  BY AncestryClosed DEF Local
<1>2. \A j \in Ancestry(t, n) : Ancestry(t, j) \subseteq Ancestry(t, n)
  BY AncestryClosed, AncestryLeast
<1>3. ASSUME NEW j \in Ancestry(t, n) PROVE Ancestry(u, j) = Ancestry(t, j)
  BY <1>1, <1>2, SameWalk
<1>4. UnitsAbove(u, k) = UnitsAbove(t, k) /\ UnitsAbove(t, k) \subseteq Ancestry(t, n)
  BY <1>2, <1>3 DEF UnitsAbove
<1> DEFINE U == UnitsAbove(t, k)
<1>5. \A v : (v \in U /\ U \subseteq Ancestry(u, v)) <=> (v \in U /\ U \subseteq Ancestry(t, v))
  BY <1>3, <1>4
<1>6. (CHOOSE v \in U : U \subseteq Ancestry(u, v)) = (CHOOSE v \in U : U \subseteq Ancestry(t, v))
  BY <1>5
<1>7. CASE U = {}
  BY <1>4, <1>7 DEF AccessLock
<1>8. CASE U # {}
  <2>1. AccessLock(t, k) = CHOOSE v \in U : U \subseteq Ancestry(t, v)
    BY <1>8 DEF AccessLock
  <2>2. AccessLock(u, k) = CHOOSE v \in U : U \subseteq Ancestry(u, v)
    BY <1>4, <1>8 DEF AccessLock
  <2> QED
    BY <1>6, <2>1, <2>2
<1> QED
  BY <1>7, <1>8

LEMMA EditGuarded ==
  ASSUME NEW t \in Tree, WellFormed(t), NEW c, Recordable(t, c), c.kind # "target",
         NEW m \in Ancestry(t, c.target), AccessLock(t, c.target) = AccessLock(t, m)
  PROVE  Guarded(t, Redone(t, c), m, c.target)
<1> DEFINE n == c.target
           u == Redone(t, c)
<1>1. n \in Node /\ t.managed[n] /\ u \in Tree /\ Local(t, u, n)
  BY RecordableKept DEF Recordable, Command, Kept
<1> HIDE DEF u
<1>2. m \in Node /\ n \in Below(t, m) /\ n \in Ancestry(t, n)
  BY <1>1, AncestryClosed, BelowAncestors
<1>3. t.managed[m] /\ u.managed[m]
  BY <1>1, <1>2, ManagedBelow DEF Local
<1>4. AccessLock(u, n) = AccessLock(t, n) /\ AccessLock(u, m) = AccessLock(t, m)
  BY <1>1, <1>2, LocalUnits
<1>5. Guarded(t, u, m, n)
  BY <1>1, <1>2, <1>3, <1>4 DEF Guarded, Local
<1> QED
  BY <1>5 DEF u

-----------------------------------------------------------------------------
LEMMA StateFacts ==
  ASSUME IInv
  PROVE  /\ TypeOK /\ tree \in Tree /\ WellFormed(tree) /\ tree = past[pos + 1].tree
         /\ commands \in Seq(Command) /\ Len(commands) \in Nat /\ pos \in 0..Len(commands)
         /\ ends \in Seq(Nat) /\ Boundaries \subseteq 0..Len(commands)
         /\ past \in Seq(SnapshotType) /\ Len(past) = Len(commands) + 1
<1>1. /\ TypeOK /\ tree \in Tree /\ commands \in Seq(Command) /\ Len(commands) \in Nat
      /\ pos \in 0..Len(commands) /\ ends \in Seq(Nat) /\ past \in Seq(SnapshotType)
      /\ Len(past) = Len(commands) + 1
  BY DEF IInv, TypeOK, SnapshotType
<1>2. pos + 1 \in 1..Len(past)
  BY <1>1
<1>3. WellFormed(tree) /\ tree = past[pos + 1].tree
  BY <1>2 DEF IInv, PastReversible, Present
<1>4. Boundaries \subseteq 0..Len(commands)
  <2>1. ASSUME NEW i \in DOMAIN ends PROVE ends[i] \in 0..Len(commands)
    BY <1>1 DEF IInv, MacrosOrdered
  <2> QED
    BY <1>1, <2>1 DEF Boundaries, Range
<1> QED
  BY <1>1, <1>3, <1>4

(* SetModificationTarget locks the unit of the new target only. *)
LEMMA SwitchLocks ==
  ASSUME TypeOK, Locked, NEW from, from = currentModificationTarget,
         NEW to \in Node \cup {NoNode}, SwitchTarget(from, to), tree' = tree
  PROVE  Locked' /\ currentModificationTarget' = to
<1> DEFINE lockOf(n) == IF n = NoNode THEN NoNode ELSE AccessLock(tree, n)
<1>1. \A n \in Node : lockOf(n) = AccessLock(tree, n) /\ lockOf(n) # NoNode
  <2>1. NoNode \notin Unit \cup {Root}
    BY NoNodeAssumption, RootAssumption, UnitAssumption
  <2>2. \A n \in Node : n # NoNode /\ AccessLock(tree, n) # NoNode
    BY <2>1, AccessLockIsUnit, NoNodeAssumption DEF TypeOK
  <2> QED
    BY <2>2
<1>2. lockOf(NoNode) = NoNode
  OBVIOUS
<1>3. /\ held' = IF lockOf(from) = lockOf(to)
                   THEN held
                   ELSE (held \ {lockOf(from)}) \cup ({lockOf(to)} \ {NoNode})
      /\ currentModificationTarget' = to
      /\ currentModificationLock' = lockOf(to)
  BY Zenon DEF SwitchTarget
<1>4. from \in Node \cup {NoNode}
  BY DEF TypeOK
<1>5. from = NoNode => held = {}
  BY DEF Locked
<1>6. from # NoNode => held = {lockOf(from)}
  BY <1>1, <1>4 DEF Locked
<1>7. to # NoNode => lockOf(to) = AccessLock(tree', to)
  BY <1>1
<1> HIDE DEF lockOf
<1>8. to = NoNode => held' = {}
  BY <1>1, <1>2, <1>3, <1>4, <1>5, <1>6
<1>9. to # NoNode => held' = {lockOf(to)}
  BY <1>1, <1>2, <1>3, <1>4, <1>5, <1>6
<1> QED
  BY <1>2, <1>3, <1>7, <1>8, <1>9 DEF Locked

(* An edit under the target keeps the lock, and its node is locked. *)
LEMMA EditLocks ==
  ASSUME Locked, UNCHANGED locks, modificationInProgress, currentModificationTarget # NoNode,
         NEW n, NEW u, u = tree',
         \/ Guarded(tree, u, currentModificationTarget, n)
         \/ Guarded(u, tree, currentModificationTarget, n)
  PROVE  Locked' /\ EditsLocked
<1> DEFINE m == currentModificationTarget
<1>1. /\ n \in Node /\ AccessLock(tree, n) = AccessLock(tree, m)
      /\ AccessLock(u, m) = AccessLock(tree, m)
      /\ \A k \in Node \ {n} : u.kids[k] = tree.kids[k] /\ u.value[k] = tree.value[k]
  BY DEF Guarded
<1>2. held = {AccessLock(tree, m)} /\ currentModificationLock = AccessLock(tree, m)
  BY DEF Locked
<1>3. Locked'
  BY <1>1, <1>2 DEF Locked, locks
<1>4. EditsLocked
  BY <1>1, <1>2 DEF EditsLocked, InTree
<1> QED
  BY <1>3, <1>4

LEMMA TreeKept ==
  ASSUME tree' = tree PROVE EditsLocked
  BY DEF EditsLocked

(* Steps that move neither the stack nor the target. *)
LEMMA SameSession ==
  ASSUME SInv, ~fault, UNCHANGED <<tree, commands, ends, pos, locks, past>>,
         ~pushedNewCommandsOnTheStack' => goal' \in Boundaries,
         ~modificationInProgress' => ~pushedNewCommandsOnTheStack' /\ pos' = goal'
  PROVE  Session' /\ EditsLocked
<1>1. PICK tau \in [0..Len(commands) -> Node \cup {NoNode}] : Targets(tau)
  BY DEF SInv, Session
<1>2. Boundaries' = Boundaries
  BY DEF Boundaries
<1>3. Targets(tau)' /\ tau \in [0..Len(commands') -> Node \cup {NoNode}]
  BY <1>1, <1>2 DEF Targets, locks
<1>4. Locked' /\ AtBoundary'
  BY <1>2 DEF SInv, Session, Locked, AtBoundary, locks
<1> QED
  BY <1>3, <1>4, TreeKept DEF Session

-----------------------------------------------------------------------------
(***************************************************************************)
(* Undo and redo of one command.                                           *)
(***************************************************************************)
LEMMA UndoCommandSession ==
  ASSUME SInv, UndoCommand, ~fault' PROVE Session' /\ EditsLocked
<1>1. ~Crash /\ ~fault
  BY DEF UndoCommand, Crash
<1> DEFINE c == commands[pos]
<1>2. /\ pos > goal /\ RunUndo(c, {}) /\ pos' = pos - 1
      /\ UNCHANGED <<freed, fault, closed, commands, ends, goal, modificationInProgress,
                     pushedNewCommandsOnTheStack, performedUndoRedo, past, base>>
  BY <1>1 DEF UndoCommand
<1>3. IInv /\ IInv' /\ Session
  BY <1>1, UndoCommandIInv DEF SInv
<1>4. PICK tau \in [0..Len(commands) -> Node \cup {NoNode}] : Targets(tau)
  BY <1>3 DEF Session
<1>5. /\ TypeOK /\ pos \in 1..Len(commands) /\ pos - 1 \in 0..Len(commands)
      /\ (pos - 1) + 1 = pos /\ tree = past[pos + 1].tree /\ pos # goal
  <2>1. TypeOK /\ pos \in 0..Len(commands) /\ Len(commands) \in Nat /\ tree = past[pos + 1].tree
    BY <1>3, StateFacts
  <2>2. goal \in Nat
    BY <2>1 DEF TypeOK
  <2> QED
    BY <1>2, <2>1, <2>2
<1>6. tree' = past[pos].tree
  BY <1>2, <1>3, <1>5 DEF IInv, Present
<1>7. /\ tau[pos] = currentModificationTarget /\ tau[pos - 1] \in Node \cup {NoNode}
      /\ Linked(c, tau[pos - 1], tau[pos], tree', tree)
  BY <1>4, <1>5, <1>6 DEF Targets
<1>8. modificationInProgress
  BY <1>3, <1>5 DEF Session, AtBoundary
<1> HIDE DEF c
<1>9. Locked' /\ EditsLocked /\ currentModificationTarget' = tau[pos - 1]
  <2>1. CASE c.kind = "target"
    <3>1. RunSwitch(c.to, c.from, {}) /\ c.to = tau[pos] /\ c.from = tau[pos - 1]
      BY <1>2, <1>7, <2>1 DEF RunUndo, Linked
    <3>2. SwitchTarget(tau[pos], tau[pos - 1]) /\ tree' = tree
      BY <3>1 DEF RunSwitch
    <3>3. Locked /\ TypeOK
      BY <1>3, <1>5 DEF Session
    <3> QED
      BY <1>7, <3>2, <3>3, SwitchLocks, TreeKept
  <2>2. CASE c.kind # "target"
    <3>1. UNCHANGED locks
      BY <1>2, <2>2 DEF RunUndo, RunEdit
    <3>2. tau[pos - 1] = tau[pos] /\ Guarded(tree', tree, currentModificationTarget, c.target)
      BY <1>7, <2>2 DEF Linked
    <3>3. currentModificationTarget # NoNode
      BY <3>2, NoNodeAssumption DEF Guarded
    <3>4. Locked
      BY <1>3 DEF Session
    <3>5. PICK u : u = tree'
      OBVIOUS
    <3>6. Locked' /\ EditsLocked
      BY <1>8, <3>1, <3>2, <3>3, <3>4, <3>5, EditLocks
    <3> QED
      BY <1>7, <3>1, <3>2, <3>6 DEF locks
  <2> QED
    BY <2>1, <2>2
<1>10. Targets(tau)' /\ tau \in [0..Len(commands') -> Node \cup {NoNode}]
  BY <1>2, <1>4, <1>9 DEF Targets, Boundaries
<1>11. AtBoundary'
  BY <1>2, <1>3, <1>8 DEF Session, AtBoundary, Boundaries
<1> QED
  BY <1>9, <1>10, <1>11 DEF Session

LEMMA RedoCommandSession ==
  ASSUME SInv, RedoCommand, ~fault' PROVE Session' /\ EditsLocked
<1>1. ~Crash /\ ~fault
  BY DEF RedoCommand, Crash
<1> DEFINE c == commands[pos + 1]
<1>2. /\ pos < goal /\ RunRedo(c, {}) /\ pos' = pos + 1
      /\ UNCHANGED <<freed, fault, closed, commands, ends, goal, modificationInProgress,
                     pushedNewCommandsOnTheStack, performedUndoRedo, past, base>>
  BY <1>1 DEF RedoCommand
<1>3. IInv /\ IInv' /\ Session
  BY <1>1, RedoCommandIInv DEF SInv
<1>4. PICK tau \in [0..Len(commands) -> Node \cup {NoNode}] : Targets(tau)
  BY <1>3 DEF Session
<1>5. /\ TypeOK /\ pos + 1 \in 1..Len(commands) /\ pos + 1 \in 0..Len(commands)
      /\ (pos + 1) - 1 = pos /\ tree = past[pos + 1].tree /\ pos # goal
  <2>1. TypeOK /\ pos \in 0..Len(commands) /\ Len(commands) \in Nat /\ tree = past[pos + 1].tree
    BY <1>3, StateFacts
  <2>2. goal \in 0..Len(commands)
    BY <2>1 DEF TypeOK
  <2> QED
    BY <1>2, <2>1, <2>2
<1>6. tree' = past[(pos + 1) + 1].tree
  BY <1>2, <1>3, <1>5 DEF IInv, Present
<1>7. /\ tau[pos] = currentModificationTarget /\ tau[pos + 1] \in Node \cup {NoNode}
      /\ Linked(c, tau[pos], tau[pos + 1], tree, tree')
  BY <1>4, <1>5, <1>6 DEF Targets
<1>8. modificationInProgress
  BY <1>3, <1>5 DEF Session, AtBoundary
<1> HIDE DEF c
<1>9. Locked' /\ EditsLocked /\ currentModificationTarget' = tau[pos + 1]
  <2>1. CASE c.kind = "target"
    <3>1. RunSwitch(c.from, c.to, {}) /\ c.from = tau[pos] /\ c.to = tau[pos + 1]
      BY <1>2, <1>7, <2>1 DEF RunRedo, Linked
    <3>2. SwitchTarget(tau[pos], tau[pos + 1]) /\ tree' = tree
      BY <3>1 DEF RunSwitch
    <3>3. Locked /\ TypeOK
      BY <1>3, <1>5 DEF Session
    <3> QED
      BY <1>7, <3>2, <3>3, SwitchLocks, TreeKept
  <2>2. CASE c.kind # "target"
    <3>1. UNCHANGED locks
      BY <1>2, <2>2 DEF RunRedo, RunEdit
    <3>2. tau[pos] = tau[pos + 1] /\ Guarded(tree, tree', currentModificationTarget, c.target)
      BY <1>7, <2>2 DEF Linked
    <3>3. currentModificationTarget # NoNode
      BY <3>2, NoNodeAssumption DEF Guarded
    <3>4. Locked
      BY <1>3 DEF Session
    <3>5. PICK u : u = tree'
      OBVIOUS
    <3>6. Locked' /\ EditsLocked
      BY <1>8, <3>1, <3>2, <3>3, <3>4, <3>5, EditLocks
    <3> QED
      BY <1>7, <3>1, <3>2, <3>6 DEF locks
  <2> QED
    BY <2>1, <2>2
<1>10. Targets(tau)' /\ tau \in [0..Len(commands') -> Node \cup {NoNode}]
  BY <1>2, <1>4, <1>9 DEF Targets, Boundaries
<1>11. AtBoundary'
  BY <1>2, <1>3, <1>8 DEF Session, AtBoundary, Boundaries
<1> QED
  BY <1>9, <1>10, <1>11 DEF Session

-----------------------------------------------------------------------------
(***************************************************************************)
(* A command is recorded: the target after it is the one it sets, or the   *)
(* one below which it edits.                                               *)
(***************************************************************************)
LEMMA PushSession ==
  ASSUME SInv, ~fault, ~fault', IInv', NEW c \in Command, Push(c), modificationInProgress',
         c.kind = "target" =>
           c.from = currentModificationTarget /\ c.to \in Node /\ tree.managed[c.to],
         c.kind # "target" =>
           /\ modificationInProgress
           /\ Guarded(tree, Redone(tree, c), currentModificationTarget, c.target)
  PROVE  Session' /\ EditsLocked
<1> DEFINE gone == freed \cup Deleted(commands, pos, RedoBranch)
           now == Snapshot(tree', revision')
<1>1. ~Crash
  BY DEF Crash
<1>2. /\ commands' = Append(SubSeq(commands, 1, pos), c)
      /\ \E k \in 0..Len(ends) :
           /\ \A j \in DOMAIN ends : ends[j] <= pos <=> j <= k
           /\ ends' = SubSeq(ends, 1, k)
      /\ pos' = pos + 1 /\ goal' = pos + 1
      /\ pushedNewCommandsOnTheStack' = TRUE
      /\ RunRedo(c, gone)
      /\ past' = Append(SubSeq(past, 1, pos + 1), now)
  BY <1>1 DEF Push
<1> HIDE DEF gone
<1>3. IInv /\ Session
  BY DEF SInv
<1>4. PICK tau \in [0..Len(commands) -> Node \cup {NoNode}] : Targets(tau)
  BY <1>3 DEF Session
<1>5. /\ TypeOK /\ tree = past[pos + 1].tree
      /\ commands \in Seq(Command) /\ Len(commands) \in Nat /\ pos \in 0..Len(commands)
      /\ ends \in Seq(Nat) /\ Boundaries \subseteq 0..Len(commands)
      /\ past \in Seq(SnapshotType) /\ Len(past) = Len(commands) + 1
  BY <1>3, StateFacts
<1>6. /\ Len(commands') = pos + 1 /\ commands'[pos + 1] = c
      /\ \A i \in 1..pos : commands'[i] = commands[i]
  BY <1>2, <1>5, CutAppend
<1>7. \A i \in 1..(pos + 1) : past'[i] = past[i]
  <2>1. now \in SnapshotType
    BY DEF Snapshot, SnapshotType, IInv, TypeOK
  <2>2. pos + 1 \in 0..Len(past)
    BY <1>5
  <2> HIDE DEF now
  <2> QED
    BY <1>2, <1>5, <2>1, <2>2, CutAppend
<1>8. past'[(pos + 1) + 1].tree = tree'
  BY <1>2 DEF IInv, Present
<1>9. /\ tau[0] = NoNode /\ tau[pos] = currentModificationTarget
      /\ currentModificationTarget \in Node \cup {NoNode}
  BY <1>4, <1>5 DEF Targets, Boundaries
<1> HIDE DEF now
<1> DEFINE next == currentModificationTarget'
<1>10. /\ Locked' /\ EditsLocked /\ next \in Node \cup {NoNode}
       /\ next # NoNode => tree'.managed[next]
       /\ Linked(c, tau[pos], next, tree, tree')
  <2>1. CASE c.kind = "target"
    <3>1. RunSwitch(c.from, c.to, gone)
      BY <1>2, <2>1 DEF RunRedo
    <3>2. SwitchTarget(c.from, c.to) /\ tree' = tree /\ Locked
      BY <1>3, <3>1 DEF RunSwitch, Session
    <3>3. Locked' /\ currentModificationTarget' = c.to
      BY <1>5, <2>1, <3>2, SwitchLocks
    <3> QED
      BY <1>9, <2>1, <3>2, <3>3, TreeKept DEF Linked
  <2>2. CASE c.kind # "target"
    <3>1. RunEdit(c, Redone(tree, c), c.rem, c.ins, 1, gone)
      BY <1>2, <2>2 DEF RunRedo
    <3>2. UNCHANGED locks /\ tree' = Redone(tree, c) /\ Locked
      BY <1>3, <3>1 DEF RunEdit, Session
    <3>3. PICK u : u = tree'
      OBVIOUS
    <3>4. Guarded(tree, u, currentModificationTarget, c.target)
      BY <2>2, <3>2, <3>3
    <3>5. currentModificationTarget # NoNode
      BY <3>4, NoNodeAssumption DEF Guarded
    <3>6. Locked' /\ EditsLocked
      BY <2>2, <3>2, <3>3, <3>4, <3>5, EditLocks
    <3> QED
      BY <1>9, <2>2, <3>2, <3>3, <3>4, <3>6 DEF Linked, Guarded, locks
  <2> QED
    BY <2>1, <2>2
<1>11. PICK new \in [0..Len(commands') -> Node \cup {NoNode}] :
         new[pos + 1] = next /\ \A p \in 0..pos : new[p] = tau[p]
  <2> DEFINE f == [p \in 0..(pos + 1) |-> IF p <= pos THEN tau[p] ELSE next]
  <2>1. \A p \in 0..(pos + 1) : p <= pos => p \in 0..Len(commands)
    BY <1>5
  <2>2. /\ f \in [0..Len(commands') -> Node \cup {NoNode}]
        /\ f[pos + 1] = next /\ \A p \in 0..pos : f[p] = tau[p]
    BY <1>5, <1>6, <1>10, <2>1
  <2> QED
    BY <2>2
<1> HIDE DEF next
<1>12. \A p \in Boundaries' : new[p] = NoNode
  <2>1. PICK k \in 0..Len(ends) : /\ \A j \in DOMAIN ends : ends[j] <= pos <=> j <= k
                                 /\ ends' = SubSeq(ends, 1, k)
    BY <1>2
  <2>2. Len(ends') = k /\ \A i \in 1..k : ends'[i] = ends[i]
    BY <1>5, <2>1, SubSeqProperties
  <2>3. ASSUME NEW i \in DOMAIN ends' PROVE new[ends'[i]] = NoNode
    <3>1. ends' \in Seq(Nat)
      BY DEF IInv, TypeOK
    <3>2. i \in 1..k /\ i \in DOMAIN ends /\ i <= k
      BY <1>5, <2>1, <2>2, <3>1
    <3>3. ends'[i] = ends[i] /\ ends[i] \in Nat /\ ends[i] <= pos /\ ends[i] \in Boundaries
      BY <1>5, <2>1, <2>2, <3>2 DEF Boundaries, Range
    <3>4. ends[i] \in 0..pos
      BY <1>5, <3>3
    <3> QED
      BY <1>4, <1>11, <3>3, <3>4 DEF Targets
  <2>4. new[0] = NoNode
    BY <1>5, <1>9, <1>11
  <2> QED
    BY <2>3, <2>4 DEF Boundaries, Range
<1>13. ASSUME NEW p \in 0..Len(commands'), new[p] # NoNode PROVE past'[p + 1].tree.managed[new[p]]
  <2>1. CASE p = pos + 1
    BY <1>8, <1>10, <1>11, <1>13, <2>1 DEF next
  <2>2. CASE p \in 0..pos
    <3>1. p \in 0..Len(commands) /\ p + 1 \in 1..(pos + 1)
      BY <1>5, <2>2
    <3> QED
      BY <1>4, <1>7, <1>11, <1>13, <2>2, <3>1 DEF Targets
  <2> QED
    BY <1>5, <1>6, <2>1, <2>2
<1>14. ASSUME NEW p \in 1..Len(commands')
       PROVE  Linked(commands'[p], new[p - 1], new[p], past'[p].tree, past'[p + 1].tree)
  <2>1. CASE p = pos + 1
    <3>1. p - 1 = pos /\ pos \in 0..pos /\ p \in 1..(pos + 1)
      BY <1>5, <2>1
    <3>2. /\ commands'[p] = c /\ new[p - 1] = tau[pos] /\ new[p] = next
          /\ past'[p].tree = tree /\ past'[p + 1].tree = tree'
      BY <1>5, <1>6, <1>7, <1>8, <1>11, <2>1, <3>1
    <3> QED
      BY <1>10, <3>2 DEF next
  <2>2. CASE p \in 1..pos
    <3>1. p - 1 \in 0..pos /\ p \in 0..pos /\ p \in 1..(pos + 1) /\ p + 1 \in 1..(pos + 1)
          /\ p \in 1..Len(commands)
      BY <1>5, <2>2
    <3>2. /\ commands'[p] = commands[p] /\ new[p - 1] = tau[p - 1] /\ new[p] = tau[p]
          /\ past'[p] = past[p] /\ past'[p + 1] = past[p + 1]
      BY <1>6, <1>7, <1>11, <2>2, <3>1
    <3> QED
      BY <1>4, <3>1, <3>2 DEF Targets
  <2> QED
    BY <1>5, <1>6, <2>1, <2>2
<1>15. new[pos'] = currentModificationTarget'
  BY <1>2, <1>11 DEF next
<1>16. Targets(new)'
  BY <1>12, <1>13, <1>14, <1>15 DEF Targets
<1>17. AtBoundary'
  BY <1>2 DEF AtBoundary
<1> QED
  BY <1>10, <1>11, <1>16, <1>17 DEF Session

-----------------------------------------------------------------------------
(***************************************************************************)
(* The end of a session releases the target; the oldest macro, which began *)
(* and ended without one, may go.                                          *)
(***************************************************************************)
LEMMA EndMacroSession ==
  ASSUME SInv, ~fault, ~fault', IInv', EndMacro, pushedNewCommandsOnTheStack,
         ~modificationInProgress'
  PROVE  Session' /\ EditsLocked
<1> DEFINE c == SwitchCommand(NoNode)
           cs == Append(commands, c)
           es == Append(ends, Len(cs))
           drop == IF Len(es) > UndoLimit THEN es[1] ELSE 0
           ps == Append(past, Snapshot(tree, revision))
<1>1. ~Crash
  BY DEF Crash
<1>2. /\ SwitchTarget(currentModificationTarget, NoNode)
      /\ commands' = SubSeq(cs, drop + 1, Len(cs))
      /\ ends' = IF drop = 0 THEN es ELSE [k \in 1..Len(ends) |-> es[k + 1] - drop]
      /\ pos' = Len(cs) - drop
      /\ goal' = Len(cs) - drop
      /\ past' = SubSeq(ps, drop + 1, Len(cs) + 1)
      /\ pushedNewCommandsOnTheStack' = FALSE
      /\ tree' = tree
  BY <1>1, Zenon DEF EndMacro
<1>3. IInv /\ Session
  BY DEF SInv
<1>4. PICK tau \in [0..Len(commands) -> Node \cup {NoNode}] : Targets(tau)
  BY <1>3 DEF Session
<1>5. /\ TypeOK /\ tree = past[pos + 1].tree
      /\ commands \in Seq(Command) /\ Len(commands) \in Nat /\ pos \in 0..Len(commands)
      /\ ends \in Seq(Nat) /\ Boundaries \subseteq 0..Len(commands)
      /\ past \in Seq(SnapshotType) /\ Len(past) = Len(commands) + 1
  BY <1>3, StateFacts
<1>6. pos = Len(commands)
  BY DEF SInv, IInv, TopWhilePushing
<1>7. Locked' /\ EditsLocked /\ currentModificationTarget' = NoNode
  <2>1. Locked
    BY <1>3 DEF Session
  <2> QED
    BY <1>2, <1>5, <2>1, SwitchLocks, TreeKept
<1>8. /\ c \in Command /\ c.kind = "target" /\ c.to = NoNode /\ c.from = tau[Len(commands)]
  <2>1. tau[Len(commands)] = currentModificationTarget
    BY <1>4, <1>6 DEF Targets
  <2> QED
    BY <1>5, <2>1, SwitchRecordable DEF SwitchCommand
<1> HIDE DEF c
<1>9. /\ cs \in Seq(Command) /\ Len(cs) = Len(commands) + 1 /\ cs[Len(commands) + 1] = c
      /\ \A i \in 1..Len(commands) : cs[i] = commands[i]
  BY <1>5, <1>8, AppendProperties
<1>10. /\ es \in Seq(Nat) /\ Len(es) = Len(ends) + 1 /\ es[Len(ends) + 1] = Len(cs)
       /\ \A i \in 1..Len(ends) : es[i] = ends[i]
  BY <1>5, <1>9, AppendProperties
<1>11. /\ ps \in Seq(SnapshotType) /\ Len(ps) = Len(cs) + 1 /\ ps[Len(cs) + 1].tree = tree
       /\ \A i \in 1..Len(cs) : ps[i] = past[i]
  <2>1. Snapshot(tree, revision) \in SnapshotType /\ Snapshot(tree, revision).tree = tree
    BY <1>5 DEF Snapshot, SnapshotType, TypeOK
  <2> DEFINE now == Snapshot(tree, revision)
  <2>2. ps = Append(past, now)
    OBVIOUS
  <2> HIDE DEF now, ps
  <2>3. now \in SnapshotType /\ now.tree = tree
    BY <2>1 DEF now
  <2> QED
    BY <1>5, <1>9, <2>2, <2>3, AppendProperties
<1> HIDE DEF cs, es, ps

(* The targets on the stack before the oldest macro goes. *)
<1>12. PICK full \in [0..Len(cs) -> Node \cup {NoNode}] :
         full[Len(cs)] = NoNode /\ \A p \in 0..Len(commands) : full[p] = tau[p]
  <2> DEFINE f == [p \in 0..Len(cs) |-> IF p <= Len(commands) THEN tau[p] ELSE NoNode]
  <2>1. \A p \in 0..Len(cs) : p <= Len(commands) => p \in 0..Len(commands)
    BY <1>5
  <2>2. /\ f \in [0..Len(cs) -> Node \cup {NoNode}]
        /\ f[Len(cs)] = NoNode /\ \A p \in 0..Len(commands) : f[p] = tau[p]
    BY <1>5, <1>9, <2>1
  <2> QED
    BY <2>2
<1>13. \A i \in 1..Len(es) : es[i] \in 0..Len(cs) /\ full[es[i]] = NoNode
  <2>1. ASSUME NEW i \in 1..Len(ends) PROVE es[i] \in 0..Len(cs) /\ full[es[i]] = NoNode
    <3>1. es[i] = ends[i] /\ ends[i] \in Boundaries
      BY <1>5, <1>10 DEF Boundaries, Range
    <3>2. ends[i] \in 0..Len(commands) /\ tau[ends[i]] = NoNode
      BY <1>4, <1>5, <3>1 DEF Targets
    <3> QED
      BY <1>5, <1>9, <1>12, <3>1, <3>2
  <2> QED
    BY <1>5, <1>9, <1>10, <1>12, <2>1
<1>14. full[0] = NoNode
  BY <1>4, <1>5, <1>12 DEF Targets, Boundaries
<1>15. \A p \in 0..Len(cs) : full[p] # NoNode => ps[p + 1].tree.managed[full[p]]
  <2>1. ASSUME NEW p \in 0..Len(commands), full[p] # NoNode PROVE ps[p + 1].tree.managed[full[p]]
    <3>1. ps[p + 1] = past[p + 1]
      BY <1>5, <1>9, <1>11
    <3> QED
      BY <1>4, <1>12, <2>1, <3>1 DEF Targets
  <2> QED
    BY <1>5, <1>9, <1>12, <2>1
<1>16. ASSUME NEW p \in 1..Len(cs)
       PROVE  Linked(cs[p], full[p - 1], full[p], ps[p].tree, ps[p + 1].tree)
  <2>1. CASE p = Len(cs)
    <3>1. cs[p] = c /\ full[p - 1] = tau[Len(commands)] /\ full[p] = NoNode
      BY <1>5, <1>9, <1>12, <2>1
    <3> QED
      BY <1>8, <3>1 DEF Linked
  <2>2. CASE p \in 1..Len(commands)
    <3>1. p - 1 \in 0..Len(commands) /\ p \in 0..Len(commands) /\ p \in 1..Len(cs)
          /\ p + 1 \in 1..Len(cs)
      BY <1>5, <1>9, <2>2
    <3>2. /\ cs[p] = commands[p] /\ full[p - 1] = tau[p - 1] /\ full[p] = tau[p]
          /\ ps[p] = past[p] /\ ps[p + 1] = past[p + 1]
      BY <1>9, <1>11, <1>12, <2>2, <3>1
    <3> QED
      BY <1>4, <2>2, <3>2 DEF Targets
  <2> QED
    BY <1>5, <1>9, <2>1, <2>2
<1>17. drop \in 0..Len(cs) /\ full[drop] = NoNode /\ (drop # 0 => drop = es[1])
  <2>1. 1 \in 1..Len(es) /\ 0 \in 0..Len(cs)
    BY <1>5, <1>9, <1>10
  <2> QED
    BY <1>13, <1>14, <2>1
<1> HIDE DEF drop
<1>18. Len(cs) \in Nat /\ drop \in Nat /\ Len(cs) - drop \in Nat
  BY <1>5, <1>9, <1>17
<1>19. /\ Len(commands') = Len(cs) - drop
       /\ \A i \in 1..(Len(cs) - drop) : commands'[i] = cs[i + drop]
  <2>1. /\ cs \in Seq(Command) /\ drop \in 0..Len(cs)
        /\ commands' = SubSeq(cs, drop + 1, Len(cs))
    BY <1>2, <1>9, <1>17
  <2> QED
    BY <2>1, Suffix
<1>20. \A i \in 1..((Len(cs) - drop) + 1) : past'[i] = ps[i + drop]
  <2>1. ps \in Seq(SnapshotType) /\ Len(ps) = Len(cs) + 1
    BY <1>11
  <2>2. drop \in 0..Len(ps) /\ past' = SubSeq(ps, drop + 1, Len(ps))
    BY <1>2, <1>9, <1>17, <2>1
  <2>3. \A i \in 1..(Len(ps) - drop) : past'[i] = ps[i + drop]
    BY <2>1, <2>2, Suffix
  <2>4. Len(ps) - drop = (Len(cs) - drop) + 1
    BY <1>18, <2>1
  <2> QED
    BY <2>3, <2>4

<1>21. PICK new \in [0..Len(commands') -> Node \cup {NoNode}] :
         \A p \in 0..(Len(cs) - drop) : new[p] = full[p + drop]
  <2> DEFINE f == [p \in 0..(Len(cs) - drop) |-> full[p + drop]]
  <2>1. \A p \in 0..(Len(cs) - drop) : p + drop \in 0..Len(cs)
    BY <1>18
  <2>2. /\ f \in [0..Len(commands') -> Node \cup {NoNode}]
        /\ \A p \in 0..(Len(cs) - drop) : f[p] = full[p + drop]
    BY <1>19, <2>1
  <2> QED
    BY <2>2
<1>22. \A p \in Boundaries' : new[p] = NoNode
  <2>1. new[0] = NoNode
    <3>1. 0 \in 0..(Len(cs) - drop) /\ 0 + drop = drop
      BY <1>18
    <3> QED
      BY <1>17, <1>21, <3>1
  <2>2. ASSUME NEW i \in DOMAIN ends' PROVE new[ends'[i]] = NoNode
    <3>1. CASE drop = 0
      <4>1. ends' = es /\ i \in 1..Len(es)
        BY <1>2, <1>10, <2>2, <3>1
      <4>2. es[i] \in 0..Len(cs) /\ full[es[i]] = NoNode
        BY <1>13, <4>1
      <4>3. es[i] \in 0..(Len(cs) - drop) /\ es[i] + drop = es[i]
        BY <1>18, <3>1, <4>2
      <4> QED
        BY <1>21, <4>1, <4>2, <4>3
    <3>2. CASE drop # 0
      <4>1. ends' = [k \in 1..Len(ends) |-> es[k + 1] - drop]
        BY <1>2, <3>2
      <4>2. i \in 1..Len(ends) /\ ends'[i] = es[i + 1] - drop /\ i + 1 \in 1..Len(es)
        BY <1>5, <1>10, <2>2, <4>1
      <4>3. es[i + 1] \in 0..Len(cs) /\ full[es[i + 1]] = NoNode
        BY <1>13, <4>2
      <4>4. ends'[i] \in Nat
        <5>1. ends' \in Seq(Nat)
          BY DEF IInv, TypeOK
        <5> QED
          BY <2>2, <5>1
      <4>5. ends'[i] \in 0..(Len(cs) - drop) /\ ends'[i] + drop = es[i + 1]
        BY <1>18, <4>2, <4>3, <4>4
      <4> QED
        BY <1>21, <4>3, <4>5
    <3> QED
      BY <3>1, <3>2
  <2> QED
    BY <2>1, <2>2 DEF Boundaries, Range
<1>23. ASSUME NEW p \in 0..Len(commands'), new[p] # NoNode
       PROVE  past'[p + 1].tree.managed[new[p]]
  <2>1. /\ p \in 0..(Len(cs) - drop) /\ p + 1 \in 1..((Len(cs) - drop) + 1)
        /\ p + drop \in 0..Len(cs) /\ (p + 1) + drop = (p + drop) + 1
    BY <1>18, <1>19
  <2>2. new[p] = full[p + drop] /\ past'[p + 1] = ps[(p + drop) + 1]
    BY <1>20, <1>21, <2>1
  <2> QED
    BY <1>15, <1>23, <2>1, <2>2
<1>24. ASSUME NEW p \in 1..Len(commands')
       PROVE  Linked(commands'[p], new[p - 1], new[p], past'[p].tree, past'[p + 1].tree)
  <2> DEFINE q == p + drop
  <2>1. /\ p \in 1..(Len(cs) - drop) /\ p \in 0..(Len(cs) - drop)
        /\ p - 1 \in 0..(Len(cs) - drop)
        /\ p \in 1..((Len(cs) - drop) + 1) /\ p + 1 \in 1..((Len(cs) - drop) + 1)
        /\ q \in 1..Len(cs) /\ (p + 1) + drop = q + 1 /\ (p - 1) + drop = q - 1
    BY <1>18, <1>19
  <2>2. /\ commands'[p] = cs[q] /\ new[p - 1] = full[q - 1] /\ new[p] = full[q]
        /\ past'[p] = ps[q] /\ past'[p + 1] = ps[q + 1]
    BY <1>19, <1>20, <1>21, <2>1
  <2> HIDE DEF q
  <2> QED
    BY <1>16, <2>1, <2>2
<1>25. new[pos'] = currentModificationTarget'
  <2>1. pos' \in 0..(Len(cs) - drop) /\ pos' + drop = Len(cs)
    BY <1>2, <1>18
  <2> QED
    BY <1>7, <1>12, <1>21, <2>1
<1>26. Targets(new)'
  BY <1>22, <1>23, <1>24, <1>25 DEF Targets
<1>27. goal' \in Boundaries'
  <2>1. CASE drop = 0
    <3>1. ends' = es /\ goal' = Len(cs) /\ Len(es) \in DOMAIN es /\ es[Len(es)] = Len(cs)
      BY <1>2, <1>5, <1>10, <1>18, <2>1
    <3> QED
      BY <3>1 DEF Boundaries, Range
  <2>2. CASE drop # 0 /\ Len(ends) = 0
    <3>1. drop = Len(cs)
      BY <1>10, <1>17, <2>2
    <3>2. goal' = 0
      BY <1>2, <1>18, <3>1
    <3> QED
      BY <3>2 DEF Boundaries
  <2>3. CASE drop # 0 /\ Len(ends) # 0
    <3>1. Len(ends) \in 1..Len(ends)
      BY <1>5, <2>3
    <3>2. Len(ends) \in DOMAIN ends' /\ ends'[Len(ends)] = es[Len(ends) + 1] - drop
      BY <1>2, <2>3, <3>1
    <3>3. goal' = ends'[Len(ends)]
      BY <1>2, <1>10, <3>2
    <3> QED
      BY <3>2, <3>3 DEF Boundaries, Range
  <2> QED
    BY <2>1, <2>2, <2>3
<1>28. AtBoundary'
  BY <1>2, <1>27 DEF AtBoundary
<1> QED
  BY <1>7, <1>21, <1>26, <1>28 DEF Session

-----------------------------------------------------------------------------
(***************************************************************************)
(* The actions.                                                            *)
(***************************************************************************)
LEMMA RecordedSession ==
  ASSUME OnlyTreeEdits, SInv, IInv', Recorded, ~fault' PROVE Session' /\ EditsLocked
<1>1. PICK c : /\ Execute(c) /\ c.kind # "target"
               /\ tree.managed[c.target] => Recordable(tree, c)
  BY DEF Recorded
<1>2. /\ tree.managed[c.target] /\ CanBeModified(c.target) /\ MayPush /\ Push(c)
      /\ UNCHANGED modificationInProgress
  BY <1>1 DEF Execute, Record, OnlyTreeEdits
<1>3. /\ ~fault /\ Recordable(tree, c) /\ c \in Command /\ c.target \in Node
      /\ modificationInProgress /\ modificationInProgress'
  BY <1>1, <1>2 DEF MayPush, Idle, Recordable, Command
<1>4. tree \in Tree /\ WellFormed(tree)
  BY StateFacts DEF SInv
<1> DEFINE m == currentModificationTarget
<1>5. m \in Ancestry(tree, c.target) /\ AccessLock(tree, c.target) = AccessLock(tree, m)
  <2>1. m \in Ancestry(tree, c.target) /\ AccessLock(tree, c.target) = currentModificationLock
    BY <1>2 DEF CanBeModified
  <2>2. m # NoNode
    BY <2>1, NoNodeAssumption DEF Ancestry
  <2> QED
    BY <1>3, <2>1, <2>2 DEF SInv, Session, Locked
<1>6. Guarded(tree, Redone(tree, c), m, c.target)
  BY <1>1, <1>3, <1>4, <1>5, EditGuarded
<1> QED
  BY <1>1, <1>2, <1>3, <1>6, PushSession

LEMMA SwitchSession ==
  ASSUME SInv, IInv', NEW n \in Node, BeginModificationAt(n) \/ ChangeModificationTarget(n), ~fault'
  PROVE  Session' /\ EditsLocked
<1>1. /\ ~fault /\ tree.managed[n] /\ Push(SwitchCommand(n)) /\ modificationInProgress'
  BY DEF BeginModificationAt, ChangeModificationTarget, MayPush, Idle
<1>2. PICK c : c = SwitchCommand(n)
  OBVIOUS
<1>3. /\ c \in Command /\ c.kind = "target" /\ c.from = currentModificationTarget /\ c.to = n
      /\ Push(c)
  BY <1>1, <1>2, SwitchRecordable DEF SwitchCommand, SInv, IInv
<1> QED
  BY <1>1, <1>3, PushSession

LEMMA EndModificationSession ==
  ASSUME SInv, IInv', EndModification, ~fault' PROVE Session' /\ EditsLocked
<1>1. ~fault /\ ~modificationInProgress' /\ pos = goal
  BY DEF EndModification, Idle
<1>2. CASE pushedNewCommandsOnTheStack
  <2>1. EndMacro
    BY <1>2 DEF EndModification
  <2> QED
    BY <1>1, <1>2, <2>1, EndMacroSession
<1>3. CASE ~pushedNewCommandsOnTheStack
  <2>1. UNCHANGED <<tree, stack, locks, past, pushedNewCommandsOnTheStack>>
    BY <1>3 DEF EndModification
  <2>2. goal \in Boundaries
    BY <1>1, <1>3 DEF SInv, Session, AtBoundary
  <2>3. UNCHANGED <<tree, commands, ends, pos, goal, locks, past>>
    BY <2>1 DEF stack
  <2> QED
    BY <1>1, <1>3, <2>1, <2>2, <2>3, SameSession
<1> QED
  BY <1>2, <1>3

LEMMA BeginModificationSession ==
  ASSUME SInv, BeginModification, ~fault' PROVE Session' /\ EditsLocked
<1>1. /\ ~fault /\ modificationInProgress' /\ ~modificationInProgress
      /\ UNCHANGED <<tree, commands, ends, pos, goal, locks, past, pushedNewCommandsOnTheStack>>
  BY DEF BeginModification, Idle, stack
<1>2. goal \in Boundaries
  BY <1>1 DEF SInv, Session, AtBoundary
<1> QED
  BY <1>1, <1>2, SameSession

LEMMA TravelSession ==
  ASSUME SInv, Undo \/ Redo, ~fault' PROVE Session' /\ EditsLocked
<1>1. /\ ~fault /\ pos = goal /\ ~pushedNewCommandsOnTheStack /\ modificationInProgress
      /\ goal' \in Boundaries \cup {pos}
      /\ UNCHANGED <<tree, commands, ends, pos, locks, past, modificationInProgress,
                     pushedNewCommandsOnTheStack>>
  BY DEF Undo, Redo, MayTravel, Idle
<1>2. goal \in Boundaries
  BY <1>1 DEF SInv, Session, AtBoundary
<1> QED
  BY <1>1, <1>2, SameSession

LEMMA SaveSession ==
  ASSUME SInv, Save, ~fault' PROVE Session' /\ EditsLocked
<1>1. /\ ~fault /\ ~modificationInProgress /\ pos = goal
      /\ UNCHANGED <<tree, commands, ends, pos, goal, locks, past, modificationInProgress,
                     pushedNewCommandsOnTheStack>>
  BY DEF Save, Idle, stack, flags
<1>2. goal \in Boundaries /\ ~pushedNewCommandsOnTheStack
  BY <1>1 DEF SInv, Session, AtBoundary
<1> QED
  BY <1>1, <1>2, SameSession

(* Between sessions there is no target. *)
LEMMA NoTarget ==
  ASSUME SInv, ~fault, ~modificationInProgress
  PROVE  currentModificationTarget = NoNode /\ held = {} /\ currentModificationLock = NoNode
<1>1. PICK tau \in [0..Len(commands) -> Node \cup {NoNode}] : Targets(tau)
  BY DEF SInv, Session
<1>2. pos \in Boundaries
  BY DEF SInv, Session, AtBoundary
<1>3. tau[pos] = NoNode /\ tau[pos] = currentModificationTarget
  BY <1>1, <1>2 DEF Targets
<1> QED
  BY <1>3 DEF SInv, Session, Locked

LEMMA CloseSession ==
  ASSUME SInv, IInv', Close, ~fault' PROVE Session' /\ EditsLocked
<1>1. ~Crash
  BY DEF Crash
<1>2. /\ ~fault /\ ~modificationInProgress
      /\ commands' = <<>> /\ ends' = <<>> /\ pos' = 0 /\ goal' = 0
      /\ UNCHANGED <<tree, flags, locks>>
  BY <1>1, Zenon DEF Close, Idle
<1>3. /\ currentModificationTarget' = NoNode /\ held' = {} /\ currentModificationLock' = NoNode
      /\ ~modificationInProgress' /\ ~pushedNewCommandsOnTheStack'
  BY <1>2, NoTarget DEF SInv, Session, AtBoundary, locks, flags
<1>4. Boundaries' = {0} /\ Len(commands') = 0
  BY <1>2 DEF Boundaries, Range
<1>5. PICK new \in [0..Len(commands') -> Node \cup {NoNode}] : new[0] = NoNode
  <2>1. /\ [p \in 0..Len(commands') |-> NoNode] \in [0..Len(commands') -> Node \cup {NoNode}]
        /\ [p \in 0..Len(commands') |-> NoNode][0] = NoNode
    BY <1>4
  <2> QED
    BY <2>1
<1>6. Targets(new)'
  <2>1. 1..Len(commands') = {} /\ 0..Len(commands') = {0}
    BY <1>4
  <2> QED
    BY <1>2, <1>3, <1>4, <1>5, <2>1 DEF Targets
<1>7. Locked' /\ AtBoundary' /\ EditsLocked
  BY <1>2, <1>3, <1>4, TreeKept DEF Locked, AtBoundary
<1> QED
  BY <1>5, <1>6, <1>7 DEF Session

LEMMA InitSession ==
  ASSUME Init PROVE SInv
<1>1. IInv
  BY InitIInv
<1>2. /\ commands = <<>> /\ ends = <<>> /\ pos = 0 /\ goal = 0
      /\ currentModificationTarget = NoNode /\ held = {} /\ currentModificationLock = NoNode
      /\ ~modificationInProgress /\ ~pushedNewCommandsOnTheStack
  BY DEF Init
<1>3. Boundaries = {0} /\ Len(commands) = 0
  BY <1>2 DEF Boundaries, Range
<1>4. 1..Len(commands) = {} /\ 0..Len(commands) = {0}
  BY <1>3
<1>5. PICK new \in [0..Len(commands) -> Node \cup {NoNode}] : new[0] = NoNode
  <2>1. /\ [p \in 0..Len(commands) |-> NoNode] \in [0..Len(commands) -> Node \cup {NoNode}]
        /\ [p \in 0..Len(commands) |-> NoNode][0] = NoNode
    BY <1>3
  <2> QED
    BY <2>1
<1>6. Targets(new)
  BY <1>2, <1>3, <1>4, <1>5 DEF Targets
<1>7. Locked /\ AtBoundary
  BY <1>2, <1>3 DEF Locked, AtBoundary
<1> QED
  BY <1>1, <1>5, <1>6, <1>7 DEF SInv, Session

(* A fault stops the program before the tree changes. *)
LEMMA PushFault ==
  ASSUME ~fault, fault', NEW c, Push(c) PROVE tree' = tree
<1>1. CASE Crash
  BY <1>1 DEF Crash
<1>2. CASE ~Crash
  BY <1>2 DEF Push
<1> QED
  BY <1>1, <1>2

LEMMA RecordedFault ==
  ASSUME OnlyTreeEdits, fault', Recorded PROVE tree' = tree
<1>1. PICK c : Execute(c)
  BY DEF Recorded
<1>2. ~fault /\ Push(c)
  BY <1>1 DEF Execute, Record, MayPush, Idle, OnlyTreeEdits
<1> QED
  BY <1>2, PushFault

LEMMA StackFault ==
  ASSUME fault', EndModification \/ UndoCommand \/ RedoCommand \/ Close PROVE tree' = tree
<1>1. CASE Crash
  BY <1>1 DEF Crash
<1>2. CASE ~Crash
  <2>1. CASE EndModification
    <3>1. CASE pushedNewCommandsOnTheStack
      BY <1>2, <2>1, <3>1, Zenon DEF EndModification, EndMacro
    <3>2. CASE ~pushedNewCommandsOnTheStack
      BY <2>1, <3>2 DEF EndModification
    <3> QED
      BY <3>1, <3>2
  <2>2. CASE UndoCommand
    BY <1>2, <2>2 DEF UndoCommand
  <2>3. CASE RedoCommand
    BY <1>2, <2>3 DEF RedoCommand
  <2>4. CASE Close
    BY <1>2, <2>4, Zenon DEF Close
  <2> QED
    BY <2>1, <2>2, <2>3, <2>4
<1> QED
  BY <1>1, <1>2

LEMMA NextFault ==
  ASSUME OnlyTreeEdits, IInv, [Next]_vars, fault' PROVE tree' = tree
<1>1. CASE BeginModification \/ Undo \/ Redo \/ Save \/ UNCHANGED vars
  BY <1>1 DEF BeginModification, Undo, Redo, Save, vars
<1>2. CASE \E n \in Node : BeginModificationAt(n) \/ ChangeModificationTarget(n)
  <2>1. PICK n \in Node : BeginModificationAt(n) \/ ChangeModificationTarget(n)
    BY <1>2
  <2>2. ~fault /\ Push(SwitchCommand(n))
    BY <2>1 DEF BeginModificationAt, ChangeModificationTarget, MayPush, Idle
  <2>3. PICK c : c = SwitchCommand(n)
    OBVIOUS
  <2> QED
    BY <2>2, <2>3, PushFault
<1>3. CASE EndModification \/ UndoCommand \/ RedoCommand \/ Close
  BY <1>3, StackFault
<1>4. CASE \/ \E n, m \in Node : ListInsert(n, m)
           \/ \E n \in Node : ListRemove(n)
           \/ \E n \in Node, m \in Node \cup {NoNode} : CompositeSet(n, m)
  BY <1>4, EditRecorded, RecordedFault
<1>5. CASE \E n \in FieldNode, v \in Value : FieldSet(n, v)
  BY <1>5, FieldSetRecorded, RecordedFault
<1> QED
  BY <1>1, <1>2, <1>3, <1>4, <1>5 DEF Next

LEMMA NextSession ==
  ASSUME OnlyTreeEdits, SInv, [Next]_vars PROVE SInv' /\ EditsLocked
<1>1. IInv /\ IInv'
  BY NextIInv DEF SInv
<1>2. CASE fault'
  BY <1>1, <1>2, NextFault, TreeKept DEF SInv
<1>3. CASE ~fault'
  <2> SUFFICES Session' /\ EditsLocked
    BY <1>1 DEF SInv
  <2>1. CASE BeginModification
    BY <1>3, <2>1, BeginModificationSession
  <2>2. CASE \E n \in Node : BeginModificationAt(n) \/ ChangeModificationTarget(n)
    BY <1>1, <1>3, <2>2, SwitchSession
  <2>3. CASE EndModification
    BY <1>1, <1>3, <2>3, EndModificationSession
  <2>4. CASE Undo \/ Redo
    BY <1>3, <2>4, TravelSession
  <2>5. CASE UndoCommand
    BY <1>3, <2>5, UndoCommandSession
  <2>6. CASE RedoCommand
    BY <1>3, <2>6, RedoCommandSession
  <2>7. CASE \/ \E n, m \in Node : ListInsert(n, m)
             \/ \E n \in Node : ListRemove(n)
             \/ \E n \in Node, m \in Node \cup {NoNode} : CompositeSet(n, m)
    BY <1>1, <1>3, <2>7, EditRecorded, RecordedSession
  <2>8. CASE \E n \in FieldNode, v \in Value : FieldSet(n, v)
    BY <1>1, <1>3, <2>8, FieldSetRecorded, RecordedSession
  <2>9. CASE Save
    BY <1>3, <2>9, SaveSession
  <2>10. CASE Close
    BY <1>1, <1>3, <2>10, CloseSession
  <2>11. CASE UNCHANGED vars
    <3>1. /\ ~fault
          /\ UNCHANGED <<tree, commands, ends, pos, goal, locks, past, modificationInProgress,
                         pushedNewCommandsOnTheStack>>
      BY <1>3, <2>11 DEF vars, stack, flags
    <3>2. Session
      BY <3>1 DEF SInv
    <3> QED
      BY <3>1, <3>2, SameSession DEF Session, AtBoundary
  <2> QED
    BY <2>1, <2>2, <2>3, <2>4, <2>5, <2>6, <2>7, <2>8, <2>9, <2>10, <2>11 DEF Next
<1> QED
  BY <1>2, <1>3

-----------------------------------------------------------------------------
(* The inductive invariant: there was a target after every command. *)
LEMMA SessionInvariant ==
  ASSUME OnlyTreeEdits PROVE Spec => []SInv
<1>1. Init => SInv
  BY InitSession
<1>2. SInv /\ [Next]_vars => SInv'
  BY NextSession
<1> QED
  BY <1>1, <1>2, PTL DEF Spec

(***************************************************************************)
(* A session has locked exactly the access unit of its target, and the     *)
(* target is part of the tree, while it edits, changes its target, undoes  *)
(* and redoes (SetModificationTarget); outside of sessions nothing is      *)
(* locked (TreeManager::endModification).                                  *)
(***************************************************************************)
THEOREM TargetIsLocked ==
  ASSUME OnlyTreeEdits PROVE Spec => []TargetLocked
<1>1. ASSUME SInv PROVE TargetLocked
  <2>1. SUFFICES ASSUME ~fault
                 PROVE  /\ currentModificationTarget # NoNode =>
                             tree.managed[currentModificationTarget]
                        /\ ~modificationInProgress => currentModificationTarget = NoNode
    BY <1>1 DEF TargetLocked, SInv, Session, Locked
  <2>2. PICK tau \in [0..Len(commands) -> Node \cup {NoNode}] : Targets(tau)
    BY <1>1, <2>1 DEF SInv, Session
  <2>3. tree = past[pos + 1].tree /\ pos \in 0..Len(commands)
    BY <1>1, StateFacts DEF SInv
  <2>4. currentModificationTarget # NoNode => tree.managed[currentModificationTarget]
    BY <2>2, <2>3 DEF Targets
  <2> QED
    BY <1>1, <2>1, <2>4, NoTarget
<1> QED
  BY <1>1, SessionInvariant, PTL

(***************************************************************************)
(* The children and the field of a node of the tree change only while the  *)
(* access unit of that node is locked for writing, in undo and redo too    *)
(* (Node::canBeModified, SetModificationTarget).                           *)
(***************************************************************************)
THEOREM EditsAreLocked ==
  ASSUME OnlyTreeEdits PROVE Spec => EditsUnderLock
<1>1. SInv /\ [Next]_vars => [EditsLocked]_vars
  BY NextSession
<1> QED
  BY <1>1, SessionInvariant, PTL DEF Spec, EditsUnderLock, EditsLocked
=============================================================================
