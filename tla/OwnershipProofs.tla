--------------------------- MODULE OwnershipProofs ---------------------------
(***************************************************************************)
(* Who deletes the nodes that leave the tree: for every tree and every     *)
(* undo limit, nothing is deleted twice, used after it was deleted, or     *)
(* leaked, as long as client code edits only nodes of the tree and inserts *)
(* only new nodes.  (With moves it is false: see MCTreeManager_MoveDrop.)  *)
(*                                                                         *)
(* What a destructor deletes is decided when it runs, by the tree and the  *)
(* stack of that moment, and must be right for every position the stack    *)
(* can still be brought to.  The invariant therefore speaks of the whole   *)
(* history, the tree after every command of the stack, and not of the      *)
(* present: at each of those moments the commands own nodes that are       *)
(* apart from the tree and from one another, what a command owns stays as  *)
(* it is for as long as the command stays done, or undone, and every node  *)
(* that was once part of the tree is in it, owned, or deleted for good.    *)
(*                                                                         *)
(* The last sections prove what rests on this: that ids stay with their    *)
(* nodes, and that the changes of a session are all reported.              *)
(***************************************************************************)
EXTENDS TreeManagerProofs

OnlyNewNodes == Client \cap {"build", "detached", "move"} = {}

(* The tree after p commands. *)
At(ps, p) == ps[p + 1].tree

(* What a command that is pushed does to a tree, edit or target alike. *)
Step(t, u, ins, rem) ==
  /\ t \in Tree /\ u \in Tree /\ WellFormed(t) /\ WellFormed(u)
  /\ ins # NoNode => ins \in Node /\ t.parent[ins] = NoNode
  /\ rem # NoNode => rem \in Node
  /\ \A k \in Node \ {ins} : u.parent[k] = IF k = rem THEN NoNode ELSE t.parent[k]
  /\ \A k \in Node :
        u.managed[k] <=> k \in BelowSlot(t, ins) \/ (t.managed[k] /\ k \notin BelowSlot(t, rem))
  /\ \A m \in Node : ~t.managed[m] \/ m = rem => Below(u, m) = Below(t, m)
  /\ \A k \in Node : ~t.managed[k] => u.kids[k] = t.kids[k]
  /\ \A k \in BelowSlot(t, ins) : ~t.managed[k]
  /\ \A k \in BelowSlot(t, rem) : t.managed[k]

(* The nodes that c names, but does not move, are part of the tree. *)
Touches(c, b, a) ==
  /\ \A n \in (IF c.kind = "target" THEN {c.from, c.to} ELSE {c.target}) \ {NoNode} :
        n \in Node /\ b.managed[n] /\ a.managed[n]
  /\ c.kind = "target" <=> c.target = NoNode
  /\ c.ins # NoNode => c.ins \in Node /\ a.managed[c.ins]
  /\ c.rem # NoNode => c.rem \in Node /\ b.managed[c.rem]
  /\ {c.ins, c.rem} # {NoNode} => NodeOwning(c) /\ c.tracked
  /\ c.kind # "target" => c.tracked
  /\ \A k \in Node \ {c.target} : a.kids[k] = b.kids[k] /\ a.value[k] = b.value[k]

(* c leads from the tree b to the tree a. *)
Leads(c, b, a) == Touches(c, b, a) /\ Step(b, a, c.ins, c.rem)

HistoryShape(cs, ps, J, F) ==
  /\ cs \in Seq(Command) /\ ps \in Seq(SnapshotType) /\ Len(ps) = Len(cs) + 1
  /\ \A p \in 0..Len(cs) : WellFormed(At(ps, p))
  /\ J \subseteq Node /\ F \subseteq J

(* Nodes that were never in the tree stay as they were made. *)
NewNodesApart(cs, ps, J) ==
  \A x \in Node \ J : \A p \in 0..Len(cs) :
    /\ ~At(ps, p).managed[x] /\ Children(At(ps, p), x) \cap J = {}
    /\ \A q \in 0..Len(cs) : /\ At(ps, q).kids[x] = At(ps, p).kids[x]
                             /\ At(ps, q).parent[x] = At(ps, p).parent[x]

CommandsLead(cs, ps) ==
  \A i \in 1..Len(cs) : Leads(cs[i], At(ps, i - 1), At(ps, i))

(* Owned nodes are apart, and stay as they are until their command moves. *)
OwnedApart(cs, ps) ==
  \A p \in 0..Len(cs) : \A i \in 1..Len(cs) :
    LET x == Owned(cs, p, i)
    IN  x # NoNode =>
          /\ x \in Node /\ At(ps, p).parent[x] = NoNode /\ ~At(ps, p).managed[x]
          /\ \A j \in 1..Len(cs) : j # i => Owned(cs, p, j) # x
          /\ \A q \in 0..Len(cs) :
                (i <= p <=> i <= q) => Below(At(ps, q), x) = Below(At(ps, p), x)

(* x is below a node that command i owns when p are done. *)
Keeps(cs, ps, p, i, x) ==
  Owned(cs, p, i) # NoNode /\ x \in Below(At(ps, p), Owned(cs, p, i))

NothingLost(cs, ps, J, F) ==
  \A p \in 0..Len(cs) : \A x \in J \ F :
    At(ps, p).managed[x] \/ \E i \in 1..Len(cs) : Keeps(cs, ps, p, i, x)

NothingDead(cs, ps, F) ==
  \A p \in 0..Len(cs) : \A x \in F :
    ~At(ps, p).managed[x] /\ \A i \in 1..Len(cs) : ~Keeps(cs, ps, p, i, x)

AllJoined(cs, ps, J) ==
  \A p \in 0..Len(cs) : \A x \in Node :
    At(ps, p).managed[x] \/ (\E i \in 1..Len(cs) : Keeps(cs, ps, p, i, x)) => x \in J

(* J are the nodes that were ever in the tree, F those that are deleted. *)
Hist(cs, ps, J, F) ==
  /\ HistoryShape(cs, ps, J, F)
  /\ NewNodesApart(cs, ps, J)
  /\ CommandsLead(cs, ps)
  /\ OwnedApart(cs, ps)
  /\ NothingLost(cs, ps, J, F)
  /\ NothingDead(cs, ps, F)
  /\ AllJoined(cs, ps, J)

OInv ==
  /\ SInv
  /\ ~fault
  /\ ~closed => Hist(commands, past, joined, freed)
  /\ closed => joined \subseteq freed

-----------------------------------------------------------------------------
(***************************************************************************)
(* Below a node.                                                           *)
(***************************************************************************)
LEMMA BelowWithin ==
  ASSUME NEW t \in Tree, NEW m \in Node, NEW k \in Below(t, m)
  PROVE  Below(t, k) \subseteq Below(t, m)
  BY BelowClosed, BelowLeast

(* Two nodes without parent share nothing. *)
LEMMA ParentlessApart ==
  ASSUME NEW t \in Tree, WellFormed(t), NEW a \in Node, NEW b \in Node, a # b,
         t.parent[a] = NoNode, t.parent[b] = NoNode
  PROVE  Below(t, a) \cap Below(t, b) = {}
<1> DEFINE S == Below(t, a) \ Below(t, b)
<1>1. S \in SUBSET Node /\ NoNode \notin Below(t, b)
  BY BelowClosed, NoNodeAssumption
<1>2. a \in S
  BY <1>1, BelowClosed, ParentBelow
<1>3. ASSUME NEW m \in S, NEW c \in Children(t, m) PROVE c \in S
  <2>1. c \in Node /\ t.parent[c] = m /\ m \in Node /\ c \in Below(t, a)
    BY <1>1, <1>3, BelowClosed, ChildFacts
  <2>2. c # b
    BY <2>1, NoNodeAssumption
  <2> QED
    BY <1>3, <2>1, <2>2, ParentBelow
<1>4. \A m \in S : Children(t, m) \subseteq S
  BY <1>3
<1> HIDE DEF S
<1>5. Below(t, a) \subseteq S
  BY <1>1, <1>2, <1>4, BelowLeast
<1> QED
  BY <1>5 DEF S

(* What is below a node depends on the children of a closed set around it. *)
LEMMA SameKidsWithin ==
  ASSUME NEW t \in Tree, NEW u \in Tree, NEW S \in SUBSET Node, NEW m \in S,
         \A k \in S : u.kids[k] = t.kids[k] /\ Children(t, k) \subseteq S
  PROVE  Below(u, m) = Below(t, m) /\ Below(t, m) \subseteq S
<1>1. m \in Node /\ \A k \in S : Children(u, k) = Children(t, k)
  BY DEF Children
<1>2. Below(t, m) \subseteq S /\ Below(u, m) \subseteq S
  BY <1>1, BelowLeast
<1>3. Below(u, m) \subseteq Below(t, m)
  BY <1>1, <1>2, BelowClosed, BelowLeast
<1>4. Below(t, m) \subseteq Below(u, m)
  BY <1>1, <1>2, BelowClosed, BelowLeast
<1> QED
  BY <1>2, <1>3, <1>4

-----------------------------------------------------------------------------
LEMMA SlotSelf ==
  ASSUME NEW t \in Tree, NEW x \in Node
  PROVE  BelowSlot(t, x) = Below(t, x) /\ x \in Below(t, x)
  BY BelowClosed, NoNodeAssumption DEF BelowSlot

LEMMA EditStep ==
  ASSUME NEW t \in Tree, WellFormed(t), NEW c, Recordable(t, c), c.kind # "target",
         NEW u, u = Redone(t, c)
  PROVE  Step(t, u, c.ins, c.rem) /\ Touches(c, t, u)
<1> DEFINE n == c.target
<1>1. /\ u \in Tree /\ WellFormed(u) /\ Local(t, u, n) /\ Effects(t, u, n, c.ins, c.rem)
      /\ n \in Node /\ t.managed[n] /\ c.ins \in Node \cup {NoNode} /\ c.rem \in Node \cup {NoNode}
      /\ c.ins # NoNode => t.parent[c.ins] = NoNode
  BY RecordableKept DEF Kept, Recordable, Command
<1>2. \A m \in Node : ~t.managed[m] => n \notin Below(t, m)
  BY <1>1, ManagedBelow
<1>3. c.rem # NoNode => n \notin Below(t, c.rem) /\ t.managed[c.rem]
  BY <1>1, SlotSelf DEF Effects
<1>4. c.ins # NoNode => u.managed[c.ins]
  BY <1>1, SlotSelf DEF Effects
<1>5. u.managed[n]
  BY <1>1, AncestryClosed DEF Local
<1>6. NoNode \notin Node
  BY NoNodeAssumption
<1>7. \A m \in Node : ~t.managed[m] \/ m = c.rem => Below(u, m) = Below(t, m)
  BY <1>1, <1>2, <1>3, <1>6 DEF Effects
<1>8. \A k \in Node : ~t.managed[k] => u.kids[k] = t.kids[k]
  BY <1>1 DEF Local
<1>9. Step(t, u, c.ins, c.rem)
  BY <1>1, <1>7, <1>8 DEF Step, Effects
<1>10. {c.ins, c.rem} # {NoNode} => NodeOwning(c) /\ c.tracked
  BY DEF Recordable
<1>11. c.tracked /\ \A k \in Node \ {c.target} : u.kids[k] = t.kids[k] /\ u.value[k] = t.value[k]
  BY <1>1 DEF Recordable, Local
<1>12. Touches(c, t, u)
  BY <1>1, <1>3, <1>4, <1>5, <1>6, <1>10, <1>11 DEF Touches
<1> QED
  BY <1>9, <1>12

LEMMA TargetStep ==
  ASSUME NEW t \in Tree, WellFormed(t), NEW c, c.kind = "target", c.ins = NoNode, c.rem = NoNode,
         c.target = NoNode,
         \A n \in {c.from, c.to} \ {NoNode} : n \in Node /\ t.managed[n]
  PROVE  Step(t, t, c.ins, c.rem) /\ Touches(c, t, t)
<1>1. BelowSlot(t, NoNode) = {} /\ NoNode \notin Node
  BY NoNodeAssumption DEF BelowSlot
<1>2. Step(t, t, c.ins, c.rem)
  BY <1>1 DEF Step
<1>3. Touches(c, t, t)
  BY DEF Touches
<1> QED
  BY <1>2, <1>3
-----------------------------------------------------------------------------
(***************************************************************************)
(* What the history says at one moment.                                    *)
(***************************************************************************)
LEMMA HistTrees ==
  ASSUME NEW cs, NEW ps, NEW J, NEW F, HistoryShape(cs, ps, J, F), NEW p \in 0..Len(cs)
  PROVE  /\ At(ps, p) \in Tree /\ WellFormed(At(ps, p))
         /\ \A i \in 1..Len(cs) : cs[i] \in Command /\ Owned(cs, p, i) \in Node \cup {NoNode}
<1>1. p + 1 \in 1..Len(ps) /\ ps \in Seq(SnapshotType) /\ cs \in Seq(Command)
  BY DEF HistoryShape
<1>2. At(ps, p) \in Tree /\ WellFormed(At(ps, p))
  BY <1>1, SnapshotAt DEF At, HistoryShape
<1>3. ASSUME NEW i \in 1..Len(cs)
      PROVE  cs[i] \in Command /\ Owned(cs, p, i) \in Node \cup {NoNode}
  <2>1. cs[i] \in Command
    BY <1>1
  <2> QED
    BY <2>1 DEF Command, Owned
<1> QED
  BY <1>2, <1>3

(* Nothing is below the nodes that two commands own. *)
LEMMA OwnedDisjoint ==
  ASSUME NEW cs, NEW ps, NEW J, NEW F, Hist(cs, ps, J, F), NEW p \in 0..Len(cs),
         NEW i \in 1..Len(cs), NEW j \in 1..Len(cs), i # j, NEW x, Keeps(cs, ps, p, i, x)
  PROVE  ~Keeps(cs, ps, p, j, x)
<1> DEFINE a == Owned(cs, p, i)
           b == Owned(cs, p, j)
           t == At(ps, p)
<1>1. t \in Tree /\ WellFormed(t)
  BY HistTrees DEF Hist
<1>2. a # NoNode /\ x \in Below(t, a)
  BY DEF Keeps
<1>3. a \in Node /\ t.parent[a] = NoNode /\ b # a
  BY <1>2 DEF Hist, OwnedApart
<1>4. b # NoNode => b \in Node /\ t.parent[b] = NoNode
  BY DEF Hist, OwnedApart
<1> HIDE DEF a, b, t
<1>5. b # NoNode => x \notin Below(t, b)
  BY <1>1, <1>2, <1>3, <1>4, ParentlessApart
<1> QED
  BY <1>5 DEF Keeps, b, t

(* What a command owns has no manager. *)
LEMMA KeptUnmanaged ==
  ASSUME NEW cs, NEW ps, NEW J, NEW F, Hist(cs, ps, J, F), NEW p \in 0..Len(cs),
         NEW i \in 1..Len(cs), NEW x, Keeps(cs, ps, p, i, x)
  PROVE  x \in J /\ ~At(ps, p).managed[x]
<1> DEFINE a == Owned(cs, p, i)
           t == At(ps, p)
<1>1. t \in Tree /\ WellFormed(t)
  BY HistTrees DEF Hist
<1>2. a # NoNode /\ x \in Below(t, a)
  BY DEF Keeps
<1>3. a \in Node /\ ~t.managed[a]
  BY <1>2 DEF Hist, OwnedApart
<1> HIDE DEF a, t
<1>4. ~t.managed[x] /\ x \in Node
  BY <1>1, <1>2, <1>3, ManagedBelow, BelowClosed
<1>5. x \in J
  BY <1>4 DEF Hist, AllJoined
<1> QED
  BY <1>4, <1>5 DEF t

(* A command that is done, or undone, at p and at q owns the same there. *)
LEMMA SameSideKeeps ==
  ASSUME NEW cs, NEW ps, NEW J, NEW F, Hist(cs, ps, J, F), NEW p \in 0..Len(cs),
         NEW q \in 0..Len(cs), NEW i \in 1..Len(cs), i <= p <=> i <= q, NEW x,
         Keeps(cs, ps, p, i, x)
  PROVE  Keeps(cs, ps, q, i, x)
<1>1. Owned(cs, q, i) = Owned(cs, p, i)
  <2>1. i > p <=> i > q
    OBVIOUS
  <2> QED
    BY <2>1 DEF Owned
<1>2. Below(At(ps, q), Owned(cs, p, i)) = Below(At(ps, p), Owned(cs, p, i))
  BY DEF Hist, OwnedApart, Keeps
<1> QED
  BY <1>1, <1>2 DEF Keeps

-----------------------------------------------------------------------------
(***************************************************************************)
(* Commands leave the stack while q of them are done: the undone ones when *)
(* a new command is pushed, the oldest macro when the limit is exceeded.   *)
(* Commands a + 1 to b stay; what the others own is deleted.               *)
(***************************************************************************)
Doomed(cs, ps, a, b, q) ==
  {x \in Node : \E i \in 1..Len(cs) : ~(i \in (a + 1)..b) /\ Keeps(cs, ps, q, i, x)}

LEMMA Window ==
  ASSUME NEW cs, NEW ps, NEW J, NEW F, Hist(cs, ps, J, F),
         NEW a \in 0..Len(cs), NEW b \in a..Len(cs), NEW q \in a..b
  PROVE  Hist(SubSeq(cs, a + 1, b), SubSeq(ps, a + 1, b + 1), J, F \cup Doomed(cs, ps, a, b, q))
<1> DEFINE L == Len(cs)
           M == b - a
           ds == SubSeq(cs, a + 1, b)
           qs == SubSeq(ps, a + 1, b + 1)
           G == F \cup Doomed(cs, ps, a, b, q)
<1>1. /\ cs \in Seq(Command) /\ ps \in Seq(SnapshotType) /\ L \in Nat /\ Len(ps) = L + 1
      /\ a \in Nat /\ b \in Nat /\ q \in Nat /\ M \in Nat /\ a <= q /\ q <= b /\ b <= L
      /\ J \subseteq Node /\ F \subseteq J /\ q \in 0..L
  BY DEF Hist, HistoryShape
<1>0. ASSUME NEW S, NEW s \in Seq(S), NEW f \in 0..Len(s), NEW g \in f..Len(s), NEW r,
             r = SubSeq(s, f + 1, g)
      PROVE  /\ r \in Seq(S) /\ Len(r) = g - f
             /\ \A i \in 1..(g - f) : r[i] = s[i + f]
  <2>1. /\ f + 1 \in 1..(Len(s) + 1) /\ g \in f..Len(s) /\ f \in Nat /\ g \in Nat
        /\ Len(s) \in Nat
    BY <1>0
  <2>2. Len(r) = g - f /\ \A i \in 1..(g - f) : r[i] = s[i + f]
    BY <1>0, <2>1, SubSeqProperties
  <2>3. r \in Seq(S)
    BY <1>0, <2>1, SubSeqProperties
  <2> QED
    BY <2>2, <2>3
<1>2. /\ ds \in Seq(Command) /\ Len(ds) = M /\ qs \in Seq(SnapshotType) /\ Len(qs) = M + 1
      /\ \A i \in 1..M : ds[i] = cs[i + a]
      /\ \A p \in 0..M : qs[p + 1] = ps[p + a + 1]
  <2>1. /\ ds \in Seq(Command) /\ Len(ds) = M /\ \A i \in 1..M : ds[i] = cs[i + a]
    BY <1>0, <1>1
  <2>2. a \in 0..Len(ps) /\ b + 1 \in a..Len(ps) /\ (b + 1) - a = M + 1
    BY <1>1
  <2>3. qs \in Seq(SnapshotType) /\ Len(qs) = M + 1 /\ \A i \in 1..(M + 1) : qs[i] = ps[i + a]
    BY <1>0, <1>1, <2>2
  <2>4. \A p \in 0..M : p + 1 \in 1..(M + 1) /\ (p + 1) + a = p + a + 1
    BY <1>1
  <2> QED
    BY <2>1, <2>3, <2>4
<1>3. /\ \A p \in 0..M : At(qs, p) = At(ps, p + a) /\ p + a \in 0..L /\ p + a \in a..b
      /\ \A i \in 1..M : i + a \in 1..L /\ i + a \in (a + 1)..b
  BY <1>1, <1>2 DEF At
<1>4. \A p \in 0..M : \A i \in 1..M : Owned(ds, p, i) = Owned(cs, p + a, i + a)
  <2>1. ASSUME NEW p \in 0..M, NEW i \in 1..M
        PROVE  Owned(ds, p, i) = Owned(cs, p + a, i + a)
    <3>1. ds[i] = cs[i + a] /\ (i > p <=> i + a > p + a)
      BY <1>1, <1>2
    <3> QED
      BY <3>1 DEF Owned
  <2> QED
    BY <2>1
<1>5. \A p \in 0..M : \A i \in 1..M : \A x : Keeps(ds, qs, p, i, x) <=> Keeps(cs, ps, p + a, i + a, x)
  BY <1>3, <1>4 DEF Keeps
<1> HIDE DEF ds, qs, M, L, G
<1>6. HistoryShape(ds, qs, J, G)
  <2>1. \A p \in 0..M : WellFormed(At(qs, p))
    BY <1>3 DEF Hist, HistoryShape, L
  <2>2. G \subseteq J
    BY <1>1, KeptUnmanaged DEF G, Doomed, L
  <2> QED
    BY <1>1, <1>2, <2>1, <2>2 DEF HistoryShape
<1>7. NewNodesApart(ds, qs, J)
  BY <1>2, <1>3 DEF NewNodesApart, Hist, L
<1>8. CommandsLead(ds, qs)
  <2>1. ASSUME NEW i \in 1..M PROVE Leads(ds[i], At(qs, i - 1), At(qs, i))
    <3>1. i - 1 \in 0..M /\ i \in 0..M /\ (i - 1) + a = (i + a) - 1
      BY <1>1
    <3>2. ds[i] = cs[i + a] /\ At(qs, i - 1) = At(ps, (i + a) - 1) /\ At(qs, i) = At(ps, i + a)
      BY <1>2, <1>3, <3>1
    <3>3. Leads(cs[i + a], At(ps, (i + a) - 1), At(ps, i + a))
      BY <1>3 DEF Hist, CommandsLead, L
    <3> QED
      BY <3>2, <3>3
  <2> QED
    BY <1>2, <2>1 DEF CommandsLead
<1>9. OwnedApart(ds, qs)
  <2>1. ASSUME NEW p \in 0..M, NEW i \in 1..M, NEW x, x = Owned(ds, p, i), x # NoNode
        PROVE  /\ x \in Node /\ At(qs, p).parent[x] = NoNode /\ ~At(qs, p).managed[x]
               /\ \A j \in 1..M : j # i => Owned(ds, p, j) # x
               /\ \A r \in 0..M : (i <= p <=> i <= r) => Below(At(qs, r), x) = Below(At(qs, p), x)
    <3>1. x = Owned(cs, p + a, i + a) /\ p + a \in 0..L /\ i + a \in 1..L
      BY <1>3, <1>4, <2>1
    <3>2. /\ x \in Node /\ At(ps, p + a).parent[x] = NoNode /\ ~At(ps, p + a).managed[x]
          /\ \A j \in 1..L : j # i + a => Owned(cs, p + a, j) # x
          /\ \A r \in 0..L : (i + a <= p + a <=> i + a <= r)
                               => Below(At(ps, r), x) = Below(At(ps, p + a), x)
      BY <2>1, <3>1 DEF Hist, OwnedApart, L
    <3>3. ASSUME NEW j \in 1..M, j # i PROVE Owned(ds, p, j) # x
      <4>1. j + a \in 1..L /\ j + a # i + a /\ Owned(ds, p, j) = Owned(cs, p + a, j + a)
        BY <1>1, <1>3, <1>4, <3>3
      <4> QED
        BY <3>2, <4>1
    <3>4. ASSUME NEW r \in 0..M, i <= p <=> i <= r
          PROVE  Below(At(qs, r), x) = Below(At(qs, p), x)
      <4>1. r + a \in 0..L /\ (i + a <= p + a <=> i + a <= r + a)
        BY <1>1, <1>3, <3>4
      <4>2. Below(At(ps, r + a), x) = Below(At(ps, p + a), x)
        BY <3>2, <4>1
      <4> QED
        BY <1>3, <4>2
    <3> QED
      BY <1>3, <3>2, <3>3, <3>4
  <2> QED
    BY <1>2, <2>1 DEF OwnedApart
<1>10. \A i \in 1..L : ~(i \in (a + 1)..b) =>
          \A p \in a..b : \A r \in a..b : i <= p <=> i <= r
  BY <1>1
<1>11. NothingLost(ds, qs, J, G)
  <2>1. ASSUME NEW p \in 0..M, NEW x \in J \ G, ~At(qs, p).managed[x]
        PROVE  \E i \in 1..M : Keeps(ds, qs, p, i, x)
    <3>1. p + a \in 0..L /\ p + a \in a..b /\ ~At(ps, p + a).managed[x] /\ x \in J \ F
      BY <1>3, <2>1 DEF G
    <3>2. PICK i \in 1..L : Keeps(cs, ps, p + a, i, x)
      BY <3>1 DEF Hist, NothingLost, L
    <3>3. i \in (a + 1)..b
      <4> SUFFICES ASSUME ~(i \in (a + 1)..b) PROVE FALSE
        OBVIOUS
      <4>1. i <= p + a <=> i <= q
        BY <1>10, <3>1
      <4>2. Keeps(cs, ps, q, i, x)
        BY <1>1, <3>1, <3>2, <4>1, SameSideKeeps DEF L
      <4>3. x \in G
        BY <1>1, <4>2 DEF G, Doomed, L
      <4> QED
        BY <4>3
    <3>4. i - a \in 1..M /\ (i - a) + a = i
      BY <1>1, <3>3 DEF M
    <3>5. Keeps(ds, qs, p, i - a, x)
      BY <1>5, <3>2, <3>4
    <3> QED
      BY <3>4, <3>5
  <2> QED
    BY <1>2, <2>1 DEF NothingLost
<1>12. NothingDead(ds, qs, G)
  <2>1. ASSUME NEW p \in 0..M, NEW x \in G
        PROVE  ~At(qs, p).managed[x] /\ \A i \in 1..M : ~Keeps(ds, qs, p, i, x)
    <3>1. p + a \in 0..L /\ p + a \in a..b /\ At(qs, p) = At(ps, p + a)
      BY <1>3
    <3>2. CASE x \in F
      <4>1. ~At(ps, p + a).managed[x] /\ \A i \in 1..L : ~Keeps(cs, ps, p + a, i, x)
        BY <3>1, <3>2 DEF Hist, NothingDead, L
      <4> QED
        BY <1>3, <1>5, <3>1, <4>1
    <3>3. CASE x \notin F
      <4>1. PICK j \in 1..L : ~(j \in (a + 1)..b) /\ Keeps(cs, ps, q, j, x)
        BY <3>3 DEF G, Doomed, L
      <4>2. Keeps(cs, ps, p + a, j, x)
        BY <1>1, <1>10, <3>1, <4>1, SameSideKeeps DEF L
      <4>3. ~At(ps, p + a).managed[x]
        BY <3>1, <4>2, KeptUnmanaged DEF L
      <4>4. ASSUME NEW i \in 1..M PROVE ~Keeps(ds, qs, p, i, x)
        <5>1. i + a \in 1..L /\ i + a # j
          BY <1>3, <4>1
        <5>2. ~Keeps(cs, ps, p + a, i + a, x)
          BY <3>1, <4>2, <5>1, OwnedDisjoint DEF L
        <5> QED
          BY <1>5, <5>2
      <4> QED
        BY <3>1, <4>3, <4>4
    <3> QED
      BY <3>2, <3>3
  <2> QED
    BY <1>2, <2>1 DEF NothingDead
<1>13. AllJoined(ds, qs, J)
  BY <1>2, <1>3, <1>5 DEF AllJoined, Hist, L
<1> QED
  BY <1>6, <1>7, <1>8, <1>9, <1>11, <1>12, <1>13 DEF Hist, ds, qs, G
-----------------------------------------------------------------------------
(***************************************************************************)
(* A command is pushed when all are done: it leads from the last tree t to *)
(* u, brings a new node, or none, and joins it to the tree.                *)
(***************************************************************************)
LEMMA Grow ==
  ASSUME NEW cs, NEW ps, NEW J, NEW F, Hist(cs, ps, J, F),
         NEW c \in Command, NEW e \in SnapshotType, NEW t, t = At(ps, Len(cs)),
         NEW u, u = e.tree, Step(t, u, c.ins, c.rem), Touches(c, t, u), c.ins \notin J
  PROVE  Hist(Append(cs, c), Append(ps, e), J \cup InTree(u), F)
<1> DEFINE L == Len(cs)
           ds == Append(cs, c)
           qs == Append(ps, e)
           K == J \cup InTree(u)
           In == BelowSlot(t, c.ins)
           Out == BelowSlot(t, c.rem)
<1>1. /\ cs \in Seq(Command) /\ ps \in Seq(SnapshotType) /\ L \in Nat /\ Len(ps) = L + 1
      /\ J \subseteq Node /\ F \subseteq J /\ NoNode \notin Node /\ L \in 0..L
  BY NoNodeAssumption DEF Hist, HistoryShape
<1>2. /\ ds \in Seq(Command) /\ Len(ds) = L + 1 /\ qs \in Seq(SnapshotType) /\ Len(qs) = L + 2
      /\ \A i \in 1..L : ds[i] = cs[i]
      /\ ds[L + 1] = c /\ qs[(L + 1) + 1] = e
      /\ \A p \in 0..L : qs[p + 1] = ps[p + 1]
  BY <1>1
<1>3. /\ \A p \in 0..L : At(qs, p) = At(ps, p) /\ At(ps, p) \in Tree /\ WellFormed(At(ps, p))
      /\ At(qs, L + 1) = u /\ At(qs, L) = t
  BY <1>1, <1>2, HistTrees DEF At, Hist
<1>4. /\ t \in Tree /\ u \in Tree /\ WellFormed(t) /\ WellFormed(u)
      /\ c.ins \in Node \cup {NoNode} /\ c.rem \in Node \cup {NoNode}
      /\ c.ins # NoNode => t.parent[c.ins] = NoNode
      /\ \A k \in Node \ {c.ins} : u.parent[k] = IF k = c.rem THEN NoNode ELSE t.parent[k]
      /\ \A k \in Node : u.managed[k] <=> k \in In \/ (t.managed[k] /\ k \notin Out)
      /\ \A m \in Node : ~t.managed[m] \/ m = c.rem => Below(u, m) = Below(t, m)
      /\ \A k \in Node : ~t.managed[k] => u.kids[k] = t.kids[k]
      /\ \A k \in In : ~t.managed[k]
      /\ \A k \in Out : t.managed[k]
  BY DEF Step
<1>5. /\ \A x : x \in In <=> c.ins # NoNode /\ x \in Below(t, c.ins)
      /\ \A x : x \in Out <=> c.rem # NoNode /\ x \in Below(t, c.rem)
      /\ c.ins # NoNode => c.ins \in In
      /\ c.rem # NoNode => c.rem \in Out
      /\ In \subseteq Node /\ Out \subseteq Node
  BY <1>4, BelowClosed DEF BelowSlot
<1> HIDE DEF ds, qs, K, L, In, Out
<1>6. \A p \in 0..L : \A i \in 1..L : Owned(ds, p, i) = Owned(cs, p, i)
  BY <1>2 DEF Owned
<1>7. \A i \in 1..L : Owned(ds, L + 1, i) = Owned(cs, L, i)
  <2>1. ASSUME NEW i \in 1..L PROVE Owned(ds, L + 1, i) = Owned(cs, L, i)
    <3>1. ~(i > L + 1) /\ ~(i > L) /\ ds[i] = cs[i]
      BY <1>1, <1>2
    <3> QED
      BY <3>1 DEF Owned
  <2> QED
    BY <2>1
<1>8. \A p \in 0..L : Owned(ds, p, L + 1) = c.ins
  <2>1. ASSUME NEW p \in 0..L PROVE Owned(ds, p, L + 1) = c.ins
    <3>1. L + 1 > p /\ ds[L + 1] = c
      BY <1>1, <1>2
    <3> QED
      BY <3>1 DEF Owned, Touches
  <2> QED
    BY <2>1
<1>9. Owned(ds, L + 1, L + 1) = c.rem
  <2>1. ~(L + 1 > L + 1) /\ ds[L + 1] = c
    BY <1>1, <1>2
  <2> QED
    BY <2>1 DEF Owned, Touches
<1>10. /\ \A p \in 0..(L + 1) : p \in 0..L \/ p = L + 1
       /\ \A i \in 1..(L + 1) : i \in 1..L \/ i = L + 1
       /\ L + 1 \notin 0..L /\ 0..L \subseteq 0..(L + 1)
       /\ 1..L \subseteq 1..(L + 1) /\ L + 1 \in 1..(L + 1) /\ L + 1 \in 0..(L + 1)
  BY <1>1
(* The new node was the same in every tree of the history. *)
<1>11. \A p \in 0..L : \A x \in Node \ J :
         /\ ~At(ps, p).managed[x] /\ Children(At(ps, p), x) \cap J = {}
         /\ At(ps, p).kids[x] = t.kids[x] /\ At(ps, p).parent[x] = t.parent[x]
  BY <1>1 DEF Hist, NewNodesApart, L
<1>12. /\ In \cap J = {}
       /\ c.ins # NoNode => \A p \in 0..L : Below(At(ps, p), c.ins) = Below(t, c.ins)
  <2>1. CASE c.ins = NoNode
    BY <1>5, <2>1
  <2>2. CASE c.ins # NoNode
    <3> DEFINE S == Node \ J
    <3>1. c.ins \in S /\ S \in SUBSET Node
      BY <1>4, <2>2
    <3>2. ASSUME NEW p \in 0..L
          PROVE  \A k \in S : /\ At(ps, p).kids[k] = t.kids[k] /\ Children(t, k) \subseteq S
      BY <1>1, <1>3, <1>4, <1>11, ChildrenAreNodes DEF L
    <3> HIDE DEF S
    <3>3. ASSUME NEW p \in 0..L
          PROVE  Below(At(ps, p), c.ins) = Below(t, c.ins) /\ Below(t, c.ins) \subseteq S
      <4>1. PICK v \in Tree : v = At(ps, p)
        BY <1>3
      <4> QED
        BY <1>4, <3>1, <3>2, <4>1, SameKidsWithin
    <3>4. In \cap J = {}
      BY <1>1, <1>5, <3>3 DEF S
    <3> QED
      BY <3>3, <3>4
  <2> QED
    BY <2>1, <2>2
(* What was owned stays as it was. *)
<1>13. ASSUME NEW i \in 1..L, NEW x, x = Owned(cs, L, i), x # NoNode
       PROVE  /\ x \in J /\ x \in Node /\ u.parent[x] = NoNode /\ ~u.managed[x] /\ ~t.managed[x]
              /\ Below(u, x) = Below(t, x)
  <2>1. x \in Node /\ t.parent[x] = NoNode /\ ~t.managed[x]
    BY <1>1, <1>13 DEF Hist, OwnedApart, L
  <2>2. Keeps(cs, ps, L, i, x)
    BY <1>3, <1>4, <1>13, <2>1, BelowClosed DEF Keeps, L
  <2>3. x \in J
    BY <1>1, <2>2, KeptUnmanaged DEF L
  <2>4. x # c.ins /\ x \notin In
    BY <1>12, <2>3
  <2> QED
    BY <1>4, <2>1, <2>3, <2>4
<1>14. c.rem # NoNode =>
         /\ c.rem \in Node /\ u.parent[c.rem] = NoNode /\ ~u.managed[c.rem] /\ t.managed[c.rem]
         /\ Below(u, c.rem) = Below(t, c.rem)
  BY <1>4, <1>5
<1>15. /\ \A p \in 0..L : \A i \in 1..L : \A x : Keeps(ds, qs, p, i, x) <=> Keeps(cs, ps, p, i, x)
       /\ \A p \in 0..L : \A x : Keeps(ds, qs, p, L + 1, x) <=> x \in In
       /\ \A i \in 1..L : \A x : Keeps(ds, qs, L + 1, i, x) <=> Keeps(cs, ps, L, i, x)
       /\ \A x : Keeps(ds, qs, L + 1, L + 1, x) <=> x \in Out
  <2>1. \A p \in 0..L : \A i \in 1..L : \A x : Keeps(ds, qs, p, i, x) <=> Keeps(cs, ps, p, i, x)
    BY <1>3, <1>6 DEF Keeps
  <2>2. \A p \in 0..L : \A x : Keeps(ds, qs, p, L + 1, x) <=> x \in In
    BY <1>3, <1>5, <1>8, <1>12 DEF Keeps
  <2>3. \A i \in 1..L : \A x : Keeps(ds, qs, L + 1, i, x) <=> Keeps(cs, ps, L, i, x)
    BY <1>1, <1>3, <1>7, <1>13 DEF Keeps
  <2>4. \A x : Keeps(ds, qs, L + 1, L + 1, x) <=> x \in Out
    BY <1>3, <1>5, <1>9, <1>14 DEF Keeps
  <2> QED
    BY <2>1, <2>2, <2>3, <2>4
<1>16. /\ \A x \in Node : t.managed[x] => x \in J
       /\ \A p \in 0..L : \A i \in 1..L : \A x : Keeps(cs, ps, p, i, x) => x \in J /\ ~At(ps, p).managed[x]
       /\ \A x \in Node : x \in K <=> x \in J \/ x \in In
       /\ K \subseteq Node
  <2>1. \A x \in Node : t.managed[x] => x \in J
    BY <1>1, <1>11 DEF L
  <2>2. \A p \in 0..L : \A i \in 1..L : \A x : Keeps(cs, ps, p, i, x) => x \in J /\ ~At(ps, p).managed[x]
    BY KeptUnmanaged DEF L
  <2>3. \A x \in Node : x \in K <=> x \in J \/ x \in In
    BY <1>4, <2>1 DEF K, InTree
  <2>4. K \subseteq Node
    BY <1>1 DEF K, InTree
  <2> QED
    BY <2>1, <2>2, <2>3, <2>4
<1>17. HistoryShape(ds, qs, K, F)
  <2>1. \A p \in 0..(L + 1) : WellFormed(At(qs, p))
    BY <1>3, <1>4, <1>10
  <2>2. F \subseteq K /\ Len(qs) = Len(ds) + 1
    BY <1>1, <1>2 DEF K
  <2> QED
    BY <1>2, <1>16, <2>1, <2>2 DEF HistoryShape
<1>18. NewNodesApart(ds, qs, K)
  <2>1. ASSUME NEW x \in Node \ K
        PROVE  /\ x \notin J /\ x \notin In /\ ~t.managed[x] /\ ~u.managed[x] /\ x # c.ins /\ x # c.rem
               /\ u.kids[x] = t.kids[x] /\ u.parent[x] = t.parent[x]
    <3>1. x \notin J /\ x \notin In /\ ~t.managed[x]
      BY <1>16
    <3>2. x # c.ins /\ x # c.rem
      BY <1>1, <1>5, <1>14, <3>1
    <3> QED
      BY <1>4, <3>1, <3>2
  <2>2. ASSUME NEW x \in Node \ K PROVE Children(t, x) \cap K = {}
    <3>1. ASSUME NEW y \in Children(t, x), y \in In PROVE FALSE
      <4>1. y \in Node /\ t.parent[y] = x /\ c.ins # NoNode /\ y \in Below(t, c.ins)
        BY <1>4, <1>5, <3>1, ChildFacts
      <4>2. y # c.ins
        BY <1>1, <1>4, <4>1
      <4>3. x \in Below(t, c.ins)
        BY <1>4, <4>1, <4>2, ParentBelow
      <4> QED
        BY <1>5, <2>1, <4>1, <4>3
    <3>2. Children(t, x) \subseteq Node /\ Children(t, x) \cap J = {}
      BY <1>1, <1>3, <1>4, <1>11, <2>1, ChildrenAreNodes DEF L
    <3> QED
      BY <1>16, <3>1, <3>2
  <2>3. ASSUME NEW x \in Node \ K, NEW p \in 0..(L + 1)
        PROVE  /\ ~At(qs, p).managed[x]
               /\ At(qs, p).kids[x] = t.kids[x] /\ At(qs, p).parent[x] = t.parent[x]
    BY <1>3, <1>10, <1>11, <2>1
  <2>4. ASSUME NEW x \in Node \ K, NEW p \in 0..(L + 1)
        PROVE  Children(At(qs, p), x) \cap K = {}
    BY <2>2, <2>3 DEF Children
  <2> QED
    BY <1>2, <2>3, <2>4 DEF NewNodesApart
<1>19. CommandsLead(ds, qs)
  <2>1. ASSUME NEW i \in 1..L PROVE Leads(ds[i], At(qs, i - 1), At(qs, i))
    <3>1. i - 1 \in 0..L /\ i \in 0..L
      BY <1>1
    <3>2. Leads(cs[i], At(ps, i - 1), At(ps, i))
      BY DEF Hist, CommandsLead, L
    <3> QED
      BY <1>2, <1>3, <3>1, <3>2
  <2>2. Leads(ds[L + 1], At(qs, (L + 1) - 1), At(qs, L + 1))
    <3>1. (L + 1) - 1 = L
      BY <1>1
    <3> QED
      BY <1>2, <1>3, <3>1 DEF Leads
  <2> QED
    BY <1>2, <1>10, <2>1, <2>2 DEF CommandsLead
<1>20. OwnedApart(ds, qs)
  <2>1. ASSUME NEW p \in 0..L, NEW i \in 1..L, NEW x, x = Owned(cs, p, i), x # NoNode
        PROVE  /\ x \in J /\ x \in Node /\ At(ps, p).parent[x] = NoNode /\ ~At(ps, p).managed[x]
               /\ \A j \in 1..L : j # i => Owned(cs, p, j) # x
               /\ \A q \in 0..L : (i <= p <=> i <= q) => Below(At(ps, q), x) = Below(At(ps, p), x)
    <3>1. /\ x \in Node /\ At(ps, p).parent[x] = NoNode /\ ~At(ps, p).managed[x]
          /\ \A j \in 1..L : j # i => Owned(cs, p, j) # x
          /\ \A q \in 0..L : (i <= p <=> i <= q) => Below(At(ps, q), x) = Below(At(ps, p), x)
      BY <2>1 DEF Hist, OwnedApart, L
    <3>2. Keeps(cs, ps, p, i, x)
      BY <1>3, <2>1, <3>1, BelowClosed DEF Keeps
    <3> QED
      BY <1>16, <3>1, <3>2
  <2>2. ASSUME NEW p \in 0..(L + 1), NEW i \in 1..(L + 1), NEW x, x = Owned(ds, p, i), x # NoNode
        PROVE  /\ x \in Node /\ At(qs, p).parent[x] = NoNode /\ ~At(qs, p).managed[x]
               /\ \A j \in 1..(L + 1) : j # i => Owned(ds, p, j) # x
               /\ \A q \in 0..(L + 1) :
                     (i <= p <=> i <= q) => Below(At(qs, q), x) = Below(At(qs, p), x)
    <3>1. CASE p \in 0..L /\ i \in 1..L
      <4>1. x = Owned(cs, p, i)
        BY <1>6, <2>2, <3>1
      <4>2. \A j \in 1..(L + 1) : j # i => Owned(ds, p, j) # x
        BY <1>6, <1>8, <1>10, <2>1, <2>2, <3>1, <4>1
      <4>3. ASSUME NEW q \in 0..(L + 1), i <= p <=> i <= q
            PROVE  Below(At(qs, q), x) = Below(At(qs, p), x)
        <5>1. CASE q \in 0..L
          BY <1>3, <2>1, <2>2, <3>1, <4>1, <4>3, <5>1
        <5>2. CASE q = L + 1
          <6>1. i <= L /\ i <= p /\ i <= q
            BY <1>1, <3>1, <4>3, <5>2
          <6>2. x = Owned(cs, L, i)
            <7>1. ~(i > L) /\ ~(i > p)
              BY <1>1, <3>1, <6>1
            <7> QED
              BY <4>1, <7>1 DEF Owned
          <6>3. Below(u, x) = Below(t, x)
            BY <1>13, <2>2, <3>1, <6>2
          <6>4. Below(t, x) = Below(At(ps, p), x)
            BY <1>1, <1>3, <2>1, <2>2, <3>1, <4>1, <6>1
          <6> QED
            BY <1>3, <3>1, <5>2, <6>3, <6>4
        <5> QED
          BY <1>10, <5>1, <5>2
      <4> QED
        BY <1>3, <2>1, <2>2, <3>1, <4>1, <4>2, <4>3
    <3>2. CASE p \in 0..L /\ i = L + 1
      <4>1. x = c.ins /\ x \in Node /\ x \notin J
        BY <1>4, <1>8, <2>2, <3>2
      <4>2. At(qs, p).parent[x] = NoNode /\ ~At(qs, p).managed[x]
        BY <1>3, <1>4, <1>11, <2>2, <3>2, <4>1
      <4>3. \A j \in 1..(L + 1) : j # i => Owned(ds, p, j) # x
        BY <1>6, <1>10, <2>1, <2>2, <3>2, <4>1
      <4>4. ASSUME NEW q \in 0..(L + 1), i <= p <=> i <= q
            PROVE  Below(At(qs, q), x) = Below(At(qs, p), x)
        <5>1. q \in 0..L
          BY <1>1, <3>2, <4>4
        <5> QED
          BY <1>3, <1>12, <2>2, <3>2, <4>1, <5>1
      <4> QED
        BY <4>1, <4>2, <4>3, <4>4
    <3>3. CASE p = L + 1 /\ i \in 1..L
      <4>1. x = Owned(cs, L, i)
        BY <1>7, <2>2, <3>3
      <4>2. x \in J /\ x \in Node /\ u.parent[x] = NoNode /\ ~u.managed[x] /\ ~t.managed[x]
        BY <1>13, <2>2, <3>3, <4>1
      <4>3. \A j \in 1..(L + 1) : j # i => Owned(ds, p, j) # x
        <5>1. \A j \in 1..L : j # i => Owned(cs, L, j) # x
          BY <1>1, <2>1, <2>2, <3>3, <4>1
        <5>2. c.rem # x
          BY <1>14, <2>2, <4>2
        <5> QED
          BY <1>7, <1>9, <1>10, <3>3, <5>1, <5>2
      <4>4. ASSUME NEW q \in 0..(L + 1), i <= p <=> i <= q
            PROVE  Below(At(qs, q), x) = Below(At(qs, p), x)
        <5>1. CASE q = L + 1
          BY <3>3, <5>1
        <5>2. CASE q \in 0..L
          <6>1. i <= L /\ i <= q
            BY <1>1, <3>3, <4>4, <5>2
          <6>2. Below(At(ps, q), x) = Below(t, x)
            BY <1>1, <1>3, <2>1, <2>2, <3>3, <4>1, <5>2, <6>1
          <6>3. Below(u, x) = Below(t, x)
            BY <1>13, <2>2, <3>3, <4>1
          <6> QED
            BY <1>3, <3>3, <5>2, <6>2, <6>3
        <5> QED
          BY <1>10, <5>1, <5>2
      <4> QED
        BY <1>3, <3>3, <4>2, <4>3, <4>4
    <3>4. CASE p = L + 1 /\ i = L + 1
      <4>1. x = c.rem
        BY <1>9, <2>2, <3>4
      <4>2. \A j \in 1..(L + 1) : j # i => Owned(ds, p, j) # x
        BY <1>7, <1>10, <1>13, <1>14, <2>2, <3>4, <4>1
      <4>3. \A q \in 0..(L + 1) : (i <= p <=> i <= q) => q = p
        BY <1>1, <3>4
      <4> QED
        BY <1>3, <1>14, <2>2, <3>4, <4>1, <4>2, <4>3
    <3> QED
      BY <1>10, <3>1, <3>2, <3>3, <3>4
  <2> QED
    BY <1>2, <2>2 DEF OwnedApart
<1>21. NothingLost(ds, qs, K, F)
  <2>1. ASSUME NEW p \in 0..L, NEW x \in K \ F
        PROVE  At(qs, p).managed[x] \/ \E i \in 1..(L + 1) : Keeps(ds, qs, p, i, x)
    <3>1. CASE x \in J
      <4>1. At(ps, p).managed[x] \/ \E i \in 1..L : Keeps(cs, ps, p, i, x)
        BY <2>1, <3>1 DEF Hist, NothingLost, L
      <4> QED
        BY <1>3, <1>10, <1>15, <4>1
    <3>2. CASE x \in In
      BY <1>10, <1>15, <3>2
    <3> QED
      BY <1>16, <3>1, <3>2
  <2>2. ASSUME NEW x \in K \ F
        PROVE  u.managed[x] \/ \E i \in 1..(L + 1) : Keeps(ds, qs, L + 1, i, x)
    <3>1. CASE x \in In
      BY <1>4, <1>5, <3>1
    <3>2. CASE x \in Out
      BY <1>10, <1>15, <3>2
    <3>3. CASE x \in J /\ x \notin Out
      <4>1. t.managed[x] \/ \E i \in 1..L : Keeps(cs, ps, L, i, x)
        BY <1>1, <2>2, <3>3 DEF Hist, NothingLost, L
      <4> QED
        BY <1>1, <1>4, <1>10, <1>15, <3>3, <4>1
    <3> QED
      BY <1>16, <3>1, <3>2, <3>3
  <2> QED
    BY <1>2, <1>3, <1>10, <2>1, <2>2 DEF NothingLost
<1>22. NothingDead(ds, qs, F)
  <2>1. ASSUME NEW p \in 0..L, NEW x \in F
        PROVE  ~At(ps, p).managed[x] /\ \A i \in 1..L : ~Keeps(cs, ps, p, i, x)
    BY DEF Hist, NothingDead, L
  <2>2. \A x \in F : x \notin In /\ ~t.managed[x] /\ x \notin Out /\ x \in Node
    BY <1>1, <1>4, <1>12, <2>1 DEF L
  <2>3. ASSUME NEW p \in 0..L, NEW x \in F
        PROVE  ~At(qs, p).managed[x] /\ \A i \in 1..(L + 1) : ~Keeps(ds, qs, p, i, x)
    BY <1>3, <1>10, <1>15, <2>1, <2>2
  <2>4. ASSUME NEW x \in F
        PROVE  ~u.managed[x] /\ \A i \in 1..(L + 1) : ~Keeps(ds, qs, L + 1, i, x)
    <3>1. ~u.managed[x]
      BY <1>4, <2>2
    <3>2. \A i \in 1..L : ~Keeps(cs, ps, L, i, x)
      BY <1>1, <2>1
    <3> QED
      BY <1>10, <1>15, <2>2, <3>1, <3>2
  <2> QED
    BY <1>2, <1>3, <1>10, <2>3, <2>4 DEF NothingDead
<1>23. AllJoined(ds, qs, K)
  <2>1. ASSUME NEW p \in 0..L, NEW x \in Node,
               At(qs, p).managed[x] \/ (\E i \in 1..(L + 1) : Keeps(ds, qs, p, i, x))
        PROVE  x \in K
    <3>1. At(ps, p).managed[x] \/ (\E i \in 1..L : Keeps(cs, ps, p, i, x)) => x \in J
      BY DEF Hist, AllJoined, L
    <3> QED
      BY <1>3, <1>10, <1>15, <1>16, <2>1, <3>1
  <2>2. ASSUME NEW x \in Node,
               u.managed[x] \/ (\E i \in 1..(L + 1) : Keeps(ds, qs, L + 1, i, x))
        PROVE  x \in K
    BY <1>1, <1>4, <1>10, <1>15, <1>16, <2>2
  <2> QED
    BY <1>2, <1>3, <1>10, <2>1, <2>2 DEF AllJoined
<1> QED
  BY <1>17, <1>18, <1>19, <1>20, <1>21, <1>22, <1>23 DEF Hist, ds, qs, K
-----------------------------------------------------------------------------
(***************************************************************************)
(* What the history allows: destructors and commands meet no deleted node. *)
(***************************************************************************)
LEMMA NewNodeApart ==
  ASSUME NEW cs, NEW ps, NEW J, NEW F, Hist(cs, ps, J, F), NEW p \in 0..Len(cs),
         NEW x \in Node \ J
  PROVE  Below(At(ps, p), x) \cap J = {}
<1> DEFINE S == Node \ J
           t == At(ps, p)
<1>1. t \in Tree /\ S \in SUBSET Node /\ x \in S
  BY HistTrees DEF Hist
<1>2. \A k \in S : Children(t, k) \subseteq S
  BY <1>1, ChildrenAreNodes DEF Hist, NewNodesApart
<1> HIDE DEF S, t
<1>3. Below(t, x) \subseteq S
  BY <1>1, <1>2, BelowLeast
<1> QED
  BY <1>3 DEF S, t

(* The destructors of commands that leave the stack delete what these own. *)
LEMMA Destruction ==
  ASSUME NEW cs, NEW ps, Hist(cs, ps, joined, freed), NEW a \in 0..Len(cs), NEW b \in a..Len(cs),
         NEW q \in 0..Len(cs), tree = At(ps, q),
         NEW D, D = {i \in 1..Len(cs) : ~(i \in (a + 1)..b)}, NEW es
  PROVE  /\ ~DestructorFault(cs, q, es, D)
         /\ Deleted(cs, q, D) = Doomed(cs, ps, a, b, q)
<1> DEFINE own(i) == Owned(cs, q, i)
<1>1. /\ tree \in Tree /\ WellFormed(tree) /\ D \subseteq 1..Len(cs) /\ DOMAIN cs = 1..Len(cs)
      /\ NoNode \notin Node
  <2>1. HistoryShape(cs, ps, joined, freed)
    BY DEF Hist
  <2>2. tree \in Tree /\ WellFormed(tree)
    BY <2>1, HistTrees
  <2>3. DOMAIN cs = 1..Len(cs)
    BY <2>1 DEF HistoryShape
  <2> QED
    BY <2>2, <2>3, NoNodeAssumption
<1>2. \A i \in 1..Len(cs) : own(i) # NoNode =>
         /\ own(i) \in Node /\ tree.parent[own(i)] = NoNode /\ ~tree.managed[own(i)]
         /\ \A j \in 1..Len(cs) : j # i => own(j) # own(i)
         /\ Below(tree, own(i)) \cap freed = {}
  <2>1. \A i \in 1..Len(cs) : own(i) # NoNode =>
         /\ own(i) \in Node /\ tree.parent[own(i)] = NoNode /\ ~tree.managed[own(i)]
         /\ \A j \in 1..Len(cs) : j # i => own(j) # own(i)
    BY DEF Hist, OwnedApart
  <2>2. \A i \in 1..Len(cs) : own(i) # NoNode => Below(tree, own(i)) \cap freed = {}
    BY DEF Hist, NothingDead, Keeps
  <2> QED
    BY <2>1, <2>2
<1> DEFINE doomed == {i \in D : own(i) # NoNode}
           roots == DeletedRoots(cs, q, D)
<1>3. \A n : n \in roots <=> \E i \in doomed : own(i) = n
  BY <1>1, <1>2 DEF DeletedRoots
<1>4. \A i \in doomed : i \in 1..Len(cs) /\ own(i) # NoNode /\ own(i) \in Below(tree, own(i))
  BY <1>1, <1>2, BelowClosed
<1>5. \A i \in doomed : own(i) \notin freed
  BY <1>2, <1>4
<1>6. \A n \in roots : Below(tree, n) \cap freed = {}
  BY <1>2, <1>3, <1>4
<1>7. \A n \in roots, i \in doomed : own(i) \notin Below(tree, n) \ {n}
  <2>1. ASSUME NEW n \in roots, NEW i \in doomed, own(i) \in Below(tree, n), own(i) # n
        PROVE  FALSE
    <3>1. n \in Node /\ own(i) \in Node /\ tree.parent[own(i)] = NoNode
      BY <1>2, <1>3, <1>4, <2>1
    <3>2. tree.parent[own(i)] \in Below(tree, n)
      BY <1>1, <2>1, <3>1, ParentBelow
    <3> QED
      BY <1>1, <3>1, <3>2, BelowClosed
  <2> QED
    BY <2>1
<1>8. \A i, j \in doomed : i # j => own(i) # own(j)
  BY <1>2, <1>4
<1>9. \A i, j \in doomed : i < j => i # j
  BY <1>1
<1> HIDE DEF own, doomed, roots
<1>10. ~(\/ \E i \in doomed : own(i) \in freed
         \/ \E n \in roots : Below(tree, n) \cap freed # {}
         \/ \E n \in roots, i \in doomed : own(i) \in Below(tree, n) \ {n}
         \/ \E n \in roots, i, j \in doomed :
              /\ i < j /\ own(i) = n /\ own(j) = n
              /\ SameMacro(es, i, j)
               /\ \A k \in doomed : k < i /\ own(k) = n => SameMacro(es, k, i))
  BY <1>5, <1>6, <1>7, <1>8, <1>9
<1>11. ~DestructorFault(cs, q, es, D)
  BY <1>10 DEF DestructorFault, own, doomed, roots
<1>12. Deleted(cs, q, D) = UNION {Below(tree, n) : n \in roots}
  BY DEF Deleted, roots
<1>13. \A x : x \in Deleted(cs, q, D) <=> \E i \in doomed : x \in Below(tree, own(i))
  BY <1>3, <1>12
<1>14. \A x : x \in Doomed(cs, ps, a, b, q) <=> \E i \in doomed : x \in Below(tree, own(i))
  <2>1. \A i \in D : own(i) # NoNode => Below(tree, own(i)) \subseteq Node
    BY <1>1, <1>2, BelowClosed
  <2> QED
    BY <2>1 DEF Doomed, Keeps, doomed, own
<1> QED
  BY <1>11, <1>13, <1>14

(* A command runs if no node that it moves, or names in the tree, is gone. *)
LEMMA CommandRuns ==
  ASSUME NEW t \in Tree, WellFormed(t), NEW gone, NEW c \in Command,
         \A x \in gone : ~t.managed[x],
         \A n \in (IF c.kind = "target" THEN {c.from, c.to} ELSE {c.target}) \ {NoNode} :
            n \in Node /\ t.managed[n],
         c.ins # NoNode => Below(t, c.ins) \cap gone = {},
         c.rem # NoNode => Below(t, c.rem) \cap gone = {}
  PROVE  Runs(t, gone, c)
<1>1. \A n \in {c.ins, c.rem} \ {NoNode} : Below(t, n) \cap gone = {}
  OBVIOUS
<1>2. CASE c.kind = "target"
  <2>1. \A n \in {c.from, c.to} \ {NoNode} : n \in Node /\ t.managed[n]
    BY <1>2
  <2>2. \A x \in Reached(t, c) : \/ \E n \in {c.ins, c.rem} \ {NoNode} : x \in Below(t, n)
                                \/ x \in {c.from, c.to} \ {NoNode}
    BY <1>2 DEF Reached
  <2>3. Reached(t, c) \cap gone = {}
    BY <1>1, <2>1, <2>2
  <2> QED
    BY <2>1, <2>3 DEF Runs, LocksExist, HasAccessLock
<1>3. CASE c.kind # "target"
  <2>1. c.target \in Node /\ t.managed[c.target]
    BY <1>3, NoNodeAssumption DEF Command
  <2>2. \A k \in Ancestry(t, c.target) : k \in Node /\ t.managed[k]
    BY <2>1, AncestryClosed, BelowAncestors, ManagedBelow
  <2>3. \A x \in Reached(t, c) : \/ \E n \in {c.ins, c.rem} \ {NoNode} : x \in Below(t, n)
                                \/ x \in Ancestry(t, c.target)
    BY <1>3 DEF Reached
  <2>4. Reached(t, c) \cap gone = {}
    BY <1>1, <2>2, <2>3
  <2> QED
    BY <1>3, <2>4 DEF Runs, LocksExist
<1> QED
  BY <1>2, <1>3

-----------------------------------------------------------------------------
(***************************************************************************)
(* The operations.                                                         *)
(***************************************************************************)
LEMMA OFacts ==
  ASSUME OInv, ~closed
  PROVE  /\ IInv /\ TypeOK /\ ~fault /\ Hist(commands, past, joined, freed)
         /\ tree \in Tree /\ WellFormed(tree) /\ tree = At(past, pos)
         /\ Len(commands) \in Nat /\ pos \in 0..Len(commands)
<1>1. IInv /\ ~fault /\ Hist(commands, past, joined, freed)
  BY DEF OInv, SInv
<1> QED
  BY <1>1, StateFacts DEF At

(* The target of a session is part of the tree. *)
LEMMA TargetInTree ==
  ASSUME SInv, ~fault, currentModificationTarget # NoNode
  PROVE  currentModificationTarget \in Node /\ tree.managed[currentModificationTarget]
<1>1. PICK tau \in [0..Len(commands) -> Node \cup {NoNode}] : Targets(tau)
  BY DEF SInv, Session
<1>2. tree = past[pos + 1].tree /\ pos \in 0..Len(commands) /\ TypeOK
  BY StateFacts DEF SInv
<1> QED
  BY <1>1, <1>2 DEF Targets, TypeOK

LEMMA SwitchStep ==
  ASSUME OInv, ~closed, NEW n \in Node \cup {NoNode}, n # NoNode => tree.managed[n],
         NEW c, c = SwitchCommand(n)
  PROVE  /\ c \in Command /\ Recordable(tree, c) /\ Redone(tree, c) = tree
         /\ Step(tree, tree, c.ins, c.rem) /\ Touches(c, tree, tree) /\ c.ins \notin joined
<1>1. TypeOK /\ tree \in Tree /\ WellFormed(tree) /\ NoNode \notin Node
  BY OFacts, NoNodeAssumption
<1>2. c \in Command /\ Recordable(tree, c)
  BY <1>1, SwitchRecordable
<1>3. /\ c.kind = "target" /\ c.ins = NoNode /\ c.rem = NoNode /\ c.target = NoNode
      /\ c.from = currentModificationTarget /\ c.to = n
  BY DEF SwitchCommand
<1>4. \A m \in {c.from, c.to} \ {NoNode} : m \in Node /\ tree.managed[m]
  BY <1>3, TargetInTree DEF OInv
<1>5. Step(tree, tree, c.ins, c.rem) /\ Touches(c, tree, tree)
  BY <1>1, <1>3, <1>4, TargetStep
<1>6. c.ins \notin joined
  BY <1>1, <1>3 DEF TypeOK
<1> QED
  BY <1>2, <1>3, <1>5, <1>6, TargetKeepsTree

LEMMA RunJoins ==
  ASSUME OInv, ~closed, NEW c, NEW gone, RunRedo(c, gone)
  PROVE  tree' = Redone(tree, c) /\ joined' = joined \cup InTree(tree')
<1>1. CASE c.kind = "target"
  <2>1. tree' = tree /\ joined' = joined /\ Redone(tree, c) = tree
    BY <1>1, TargetKeepsTree DEF RunRedo, RunSwitch
  <2>2. InTree(tree) \subseteq joined
    BY OFacts DEF Hist, AllJoined, InTree
  <2> QED
    BY <2>1, <2>2
<1>2. CASE c.kind # "target"
  BY <1>2 DEF RunRedo, RunEdit
<1> QED
  BY <1>1, <1>2

LEMMA PushOwnership ==
  ASSUME OInv, ~closed, NEW c \in Command, Push(c), Recordable(tree, c),
         NEW u, u = Redone(tree, c), Step(tree, u, c.ins, c.rem), Touches(c, tree, u),
         c.ins \notin joined
  PROVE  ~fault' /\ ~closed' /\ Hist(commands', past', joined', freed')
<1> DEFINE D == (pos + 1)..Len(commands)
           gone == freed \cup Doomed(commands, past, 0, pos, pos)
           cs == SubSeq(commands, 1, pos)
           ps == SubSeq(past, 1, pos + 1)
<1>1. /\ IInv /\ TypeOK /\ ~fault /\ Hist(commands, past, joined, freed)
      /\ tree \in Tree /\ WellFormed(tree) /\ tree = At(past, pos)
      /\ Len(commands) \in Nat /\ pos \in 0..Len(commands)
  BY OFacts
<1>2. RedoBranch = D
  <2>1. CASE pushedNewCommandsOnTheStack
    <3>1. pos = Len(commands)
      BY <1>1, <2>1 DEF IInv, TopWhilePushing
    <3>2. D = {}
      BY <1>1, <3>1
    <3> QED
      BY <2>1, <3>2 DEF RedoBranch
  <2>2. CASE ~pushedNewCommandsOnTheStack
    BY <2>2 DEF RedoBranch
  <2> QED
    BY <2>1, <2>2
<1>3. D = {i \in 1..Len(commands) : ~(i \in (0 + 1)..pos)}
  BY <1>1
<1> HIDE DEF D
<1>4. ~DestructorFault(commands, pos, ends, D) /\ Deleted(commands, pos, D) = Doomed(commands, past, 0, pos, pos)
  <2>1. 0 \in 0..Len(commands) /\ pos \in 0..Len(commands)
    BY <1>1
  <2> QED
    BY <1>1, <1>3, <2>1, Destruction
<1>5. Hist(cs, ps, joined, gone)
  <2>1. 0 \in 0..Len(commands) /\ pos \in 0..Len(commands) /\ pos \in 0..pos /\ 0 + 1 = 1
    BY <1>1
  <2> QED
    BY <1>1, <2>1, Window
<1>6. Len(cs) = pos /\ At(ps, Len(cs)) = tree
  <2>1. past \in Seq(SnapshotType) /\ Len(past) = Len(commands) + 1 /\ commands \in Seq(Command)
    BY <1>1 DEF Hist, HistoryShape
  <2>2. Len(cs) = pos
    BY <1>1, <2>1, SubSeqProperties
  <2>3. ps[pos + 1] = past[pos + 1]
    BY <1>1, <2>1, SubSeqProperties
  <2> QED
    BY <1>1, <2>2, <2>3 DEF At
<1> HIDE DEF gone, cs, ps
<1>7. \A x \in gone : ~tree.managed[x] /\ x \in joined
  BY <1>1, <1>5, <1>6 DEF Hist, NothingDead, HistoryShape
<1>8. Runs(tree, gone, c)
  <2>1. \A n \in (IF c.kind = "target" THEN {c.from, c.to} ELSE {c.target}) \ {NoNode} :
           n \in Node /\ tree.managed[n]
    BY DEF Touches
  <2>2. c.ins # NoNode => Below(tree, c.ins) \cap gone = {}
    <3>1. c.ins # NoNode => c.ins \in Node \ joined
      BY DEF Touches
    <3> QED
      BY <1>1, <1>7, <3>1, NewNodeApart
  <2>3. c.rem # NoNode => Below(tree, c.rem) \cap gone = {}
    <3>1. c.rem # NoNode => c.rem \in Node /\ tree.managed[c.rem]
      BY DEF Touches
    <3> QED
      BY <1>1, <1>7, <3>1, ManagedBelow
  <2> QED
    BY <1>1, <1>7, <2>1, <2>2, <2>3, CommandRuns
<1>9. /\ freed' = gone /\ commands' = Append(cs, c) /\ RunRedo(c, gone)
      /\ past' = Append(ps, Snapshot(tree', revision')) /\ UNCHANGED <<fault, closed>>
  BY <1>2, <1>4, <1>8 DEF Push, gone, cs, ps
<1>10. tree' = u /\ joined' = joined \cup InTree(u)
  BY <1>9, RunJoins
<1>11. PICK e \in SnapshotType : e = Snapshot(tree', revision')
  BY <1>1, <1>9, RunRedoFacts DEF SnapshotType, Snapshot
<1>12. e.tree = u
  BY <1>10, <1>11 DEF Snapshot
<1>13. Hist(Append(cs, c), Append(ps, e), joined \cup InTree(u), gone)
  BY <1>5, <1>6, <1>12, Grow
<1> QED
  BY <1>1, <1>9, <1>10, <1>11, <1>13
LEMMA RecordedOwnership ==
  ASSUME OnlyNewNodes, OInv, Recorded
  PROVE  ~fault' /\ ~closed' /\ Hist(commands', past', joined', freed')
<1>1. PICK c : /\ Execute(c) /\ c.kind # "target"
               /\ tree.managed[c.target] => Recordable(tree, c)
               /\ c.ins # NoNode => c.ins \in Insertable(c.target)
  BY DEF Recorded
<1>2. tree.managed[c.target] /\ MayPush /\ Push(c)
  BY <1>1 DEF Execute, Record, OnlyNewNodes
<1>3. ~closed /\ Recordable(tree, c) /\ c \in Command
  BY <1>1, <1>2 DEF MayPush, Idle, Recordable
<1>4. TypeOK /\ tree \in Tree /\ WellFormed(tree)
  BY <1>3, OFacts
<1>5. c.ins \notin joined
  BY <1>1, <1>4, NoNodeAssumption DEF Insertable, OnlyNewNodes, TypeOK
<1>6. Step(tree, Redone(tree, c), c.ins, c.rem) /\ Touches(c, tree, Redone(tree, c))
  BY <1>1, <1>3, <1>4, EditStep
<1> QED
  BY <1>2, <1>3, <1>5, <1>6, PushOwnership

LEMMA SwitchOwnership ==
  ASSUME OInv, NEW n \in Node, BeginModificationAt(n) \/ ChangeModificationTarget(n)
  PROVE  ~fault' /\ ~closed' /\ Hist(commands', past', joined', freed')
<1>1. ~closed /\ tree.managed[n] /\ Push(SwitchCommand(n))
  BY DEF BeginModificationAt, ChangeModificationTarget, MayPush, Idle
<1>2. PICK c : c = SwitchCommand(n)
  OBVIOUS
<1>3. /\ c \in Command /\ Recordable(tree, c) /\ Redone(tree, c) = tree
      /\ Step(tree, tree, c.ins, c.rem) /\ Touches(c, tree, tree) /\ c.ins \notin joined
  BY <1>1, <1>2, SwitchStep
<1> QED
  BY <1>1, <1>2, <1>3, PushOwnership

(* Steps that neither change the stack nor delete anything. *)
LEMMA SameOwnership ==
  ASSUME OInv, ~closed, UNCHANGED <<commands, past, joined, freed, fault, closed>>
  PROVE  ~fault' /\ ~closed' /\ Hist(commands', past', joined', freed')
  BY DEF OInv

LEMMA UndoCommandOwnership ==
  ASSUME OInv, UndoCommand
  PROVE  ~fault' /\ ~closed' /\ Hist(commands', past', joined', freed')
<1>1. ~closed /\ pos > goal
  BY DEF UndoCommand
<1>2. /\ IInv /\ TypeOK /\ Hist(commands, past, joined, freed)
      /\ tree \in Tree /\ WellFormed(tree) /\ tree = At(past, pos)
      /\ Len(commands) \in Nat /\ pos \in 0..Len(commands)
  BY <1>1, OFacts
<1>3. pos \in 1..Len(commands) /\ pos - 1 \in 0..Len(commands)
  BY <1>1, <1>2 DEF TypeOK
<1>4. PICK c \in Command : c = commands[pos]
  BY <1>2, <1>3 DEF TypeOK
<1>5. Touches(c, At(past, pos - 1), tree)
  BY <1>2, <1>3, <1>4 DEF Hist, CommandsLead, Leads
<1>6. \A x \in freed : ~tree.managed[x] /\ ~Keeps(commands, past, pos, pos, x)
  BY <1>2, <1>3 DEF Hist, NothingDead
<1>7. Owned(commands, pos, pos) = c.rem
  <2>1. ~(pos > pos)
    BY <1>2
  <2> QED
    BY <1>4, <1>5, <2>1 DEF Owned, Touches
<1>8. Runs(tree, freed, c)
  <2>1. \A n \in (IF c.kind = "target" THEN {c.from, c.to} ELSE {c.target}) \ {NoNode} :
           n \in Node /\ tree.managed[n]
    BY <1>5 DEF Touches
  <2>2. c.ins # NoNode => Below(tree, c.ins) \cap freed = {}
    <3>1. c.ins # NoNode => c.ins \in Node /\ tree.managed[c.ins]
      BY <1>5 DEF Touches
    <3> QED
      BY <1>2, <1>6, <3>1, ManagedBelow
  <2>3. c.rem # NoNode => Below(tree, c.rem) \cap freed = {}
    BY <1>2, <1>6, <1>7 DEF Keeps
  <2> QED
    BY <1>2, <1>6, <2>1, <2>2, <2>3, CommandRuns
<1>9. RunUndo(c, {}) /\ pos' = pos - 1 /\ UNCHANGED <<commands, past, freed, fault, closed>>
  BY <1>4, <1>8 DEF UndoCommand
<1>10. joined' = joined
  <2>1. CASE c.kind = "target"
    BY <1>9, <2>1 DEF RunUndo, RunSwitch
  <2>2. CASE c.kind # "target"
    <3>1. joined' = joined \cup InTree(tree')
      BY <1>9, <2>2 DEF RunUndo, RunEdit
    <3>2. tree' = Undone(tree, c)
      BY <1>9, <2>2 DEF RunUndo, RunEdit
    <3>3. Undone(tree, c) = At(past, pos - 1)
      BY <1>2, <1>3, <1>4 DEF IInv, PastReversible, Reversible, At
    <3>4. InTree(At(past, pos - 1)) \subseteq joined
      BY <1>2, <1>3 DEF Hist, AllJoined, InTree
    <3> QED
      BY <3>1, <3>2, <3>3, <3>4
  <2> QED
    BY <2>1, <2>2
<1> QED
  BY <1>1, <1>9, <1>10, SameOwnership

LEMMA RedoCommandOwnership ==
  ASSUME OInv, RedoCommand
  PROVE  ~fault' /\ ~closed' /\ Hist(commands', past', joined', freed')
<1>1. ~closed /\ pos < goal
  BY DEF RedoCommand
<1>2. /\ IInv /\ TypeOK /\ Hist(commands, past, joined, freed)
      /\ tree \in Tree /\ WellFormed(tree) /\ tree = At(past, pos)
      /\ Len(commands) \in Nat /\ pos \in 0..Len(commands)
  BY <1>1, OFacts
<1> DEFINE q == pos + 1
<1>3. q \in 1..Len(commands) /\ q \in 0..Len(commands) /\ q - 1 = pos /\ q > pos
  BY <1>1, <1>2 DEF TypeOK
<1>4. PICK c \in Command : c = commands[pos + 1]
  BY <1>2, <1>3 DEF TypeOK
<1>5. Touches(c, tree, At(past, q))
  BY <1>2, <1>3, <1>4 DEF Hist, CommandsLead, Leads
<1>6. \A x \in freed : ~tree.managed[x] /\ ~Keeps(commands, past, pos, q, x)
  BY <1>2, <1>3 DEF Hist, NothingDead
<1>7. Owned(commands, pos, q) = c.ins
  BY <1>3, <1>4, <1>5 DEF Owned, Touches
<1>8. Runs(tree, freed, c)
  <2>1. \A n \in (IF c.kind = "target" THEN {c.from, c.to} ELSE {c.target}) \ {NoNode} :
           n \in Node /\ tree.managed[n]
    BY <1>5 DEF Touches
  <2>2. c.rem # NoNode => Below(tree, c.rem) \cap freed = {}
    <3>1. c.rem # NoNode => c.rem \in Node /\ tree.managed[c.rem]
      BY <1>5 DEF Touches
    <3> QED
      BY <1>2, <1>6, <3>1, ManagedBelow
  <2>3. c.ins # NoNode => Below(tree, c.ins) \cap freed = {}
    BY <1>2, <1>6, <1>7 DEF Keeps
  <2> QED
    BY <1>2, <1>6, <2>1, <2>2, <2>3, CommandRuns
<1>9. RunRedo(c, {}) /\ pos' = pos + 1 /\ UNCHANGED <<commands, past, freed, fault, closed>>
  BY <1>4, <1>8 DEF RedoCommand
<1>10. joined' = joined
  <2>1. joined' = joined \cup InTree(tree') /\ tree' = Redone(tree, c)
    BY <1>1, <1>9, RunJoins
  <2>2. Redone(tree, c) = At(past, q)
    BY <1>2, <1>3, <1>4 DEF IInv, PastReversible, Reversible, At
  <2>3. InTree(At(past, q)) \subseteq joined
    BY <1>2, <1>3 DEF Hist, AllJoined, InTree
  <2> QED
    BY <2>1, <2>2, <2>3
<1> QED
  BY <1>1, <1>9, <1>10, SameOwnership

LEMMA EndMacroOwnership ==
  ASSUME OInv, ~closed, EndMacro, pushedNewCommandsOnTheStack
  PROVE  ~fault' /\ ~closed' /\ Hist(commands', past', joined', freed')
<1> DEFINE now == Snapshot(tree, revision)
<1>1. /\ IInv /\ TypeOK /\ ~fault /\ Hist(commands, past, joined, freed)
      /\ tree \in Tree /\ WellFormed(tree) /\ tree = At(past, Len(commands))
      /\ Len(commands) \in Nat /\ pos = Len(commands)
  BY OFacts DEF IInv, TopWhilePushing
<1>2. PICK c : c = SwitchCommand(NoNode)
  OBVIOUS
<1>3. /\ c \in Command /\ c.kind = "target"
      /\ Step(tree, tree, c.ins, c.rem) /\ Touches(c, tree, tree) /\ c.ins \notin joined
      /\ c.ins = NoNode /\ c.rem = NoNode
  BY <1>2, SwitchStep DEF SwitchCommand
<1>4. PICK cs : cs = Append(commands, c)
  OBVIOUS
<1>5. PICK es : es = Append(ends, Len(cs))
  OBVIOUS
<1>6. PICK ps : ps = Append(past, now)
  OBVIOUS
<1>7. /\ cs \in Seq(Command) /\ Len(cs) = Len(commands) + 1
      /\ es \in Seq(Nat) /\ Len(es) = Len(ends) + 1
      /\ \A i \in 1..Len(es) : es[i] <= Len(cs)
      /\ ps \in Seq(SnapshotType) /\ Len(ps) = Len(cs) + 1 /\ ps[Len(cs) + 1] = now
  BY <1>1, <1>3, <1>4, <1>5, <1>6, MacroClosed
<1>8. PICK drop : drop = IF Len(es) > UndoLimit THEN es[1] ELSE 0
  OBVIOUS
<1>9. drop \in 0..Len(cs) /\ Len(cs) \in Nat
  <2>1. 1 \in 1..Len(es)
    BY <1>1, <1>7 DEF TypeOK
  <2>2. es[1] \in Nat /\ es[1] <= Len(cs)
    BY <1>7, <2>1
  <2> QED
    BY <1>1, <1>7, <1>8, <2>2
<1>10. now \in SnapshotType /\ now.tree = tree
  BY <1>1 DEF Snapshot, SnapshotType, TypeOK
<1> HIDE DEF now
<1>11. Hist(cs, ps, joined, freed)
  <2>1. InTree(tree) \subseteq joined
    BY <1>1 DEF Hist, AllJoined, InTree
  <2>2. PICK e \in SnapshotType : e = now
    BY <1>10
  <2>3. Hist(Append(commands, c), Append(past, e), joined \cup InTree(tree), freed)
    BY <1>1, <1>3, <1>10, <2>2, Grow
  <2>4. joined \cup InTree(tree) = joined
    BY <2>1
  <2> QED
    BY <1>4, <1>6, <2>2, <2>3, <2>4
<1>12. tree = At(ps, Len(cs))
  BY <1>7, <1>10 DEF At
<1>13. 1..drop = {i \in 1..Len(cs) : ~(i \in (drop + 1)..Len(cs))}
  BY <1>9
<1>14. /\ ~DestructorFault(cs, Len(cs), es, 1..drop)
       /\ Deleted(cs, Len(cs), 1..drop) = Doomed(cs, ps, drop, Len(cs), Len(cs))
  <2>1. Len(cs) \in drop..Len(cs) /\ Len(cs) \in 0..Len(cs)
    BY <1>9
  <2> QED
    BY <1>9, <1>11, <1>12, <1>13, <2>1, Destruction
<1>15. Runs(tree, freed, c)
  <2>1. \A n \in (IF c.kind = "target" THEN {c.from, c.to} ELSE {c.target}) \ {NoNode} :
           n \in Node /\ tree.managed[n]
    BY <1>3 DEF Touches
  <2>2. \A x \in freed : ~tree.managed[x]
    BY <1>1 DEF Hist, NothingDead
  <2> QED
    BY <1>1, <1>3, <2>1, <2>2, CommandRuns
<1>16. PICK gone : gone = freed \cup Doomed(cs, ps, drop, Len(cs), Len(cs))
  OBVIOUS
<1>17. /\ freed' = gone /\ commands' = SubSeq(cs, drop + 1, Len(cs))
       /\ past' = SubSeq(ps, drop + 1, Len(cs) + 1)
       /\ UNCHANGED <<fault, closed, joined>>
  BY <1>2, <1>4, <1>5, <1>6, <1>8, <1>14, <1>15, <1>16 DEF EndMacro, now
<1>18. Hist(SubSeq(cs, drop + 1, Len(cs)), SubSeq(ps, drop + 1, Len(cs) + 1), joined, gone)
  <2>1. Len(cs) \in drop..Len(cs)
    BY <1>9
  <2> QED
    BY <1>9, <1>11, <1>16, <2>1, Window
<1> QED
  BY <1>1, <1>17, <1>18

LEMMA EndModificationOwnership ==
  ASSUME OInv, EndModification
  PROVE  ~fault' /\ ~closed' /\ Hist(commands', past', joined', freed')
<1>1. ~closed
  BY DEF EndModification, Idle
<1>2. CASE pushedNewCommandsOnTheStack
  <2>1. EndMacro
    BY <1>2 DEF EndModification
  <2> QED
    BY <1>1, <1>2, <2>1, EndMacroOwnership
<1>3. CASE ~pushedNewCommandsOnTheStack
  <2>1. UNCHANGED <<commands, past, joined, freed, fault, closed>>
    BY <1>3 DEF EndModification, stack
  <2> QED
    BY <1>1, <2>1, SameOwnership
<1> QED
  BY <1>2, <1>3

(* The destructor deletes the tree and all that commands own, each once. *)
LEMMA CloseOwnership ==
  ASSUME OInv, Close
  PROVE  ~fault' /\ closed' /\ joined' \subseteq freed'
<1>1. ~closed
  BY Zenon DEF Close, Idle
<1>2. /\ IInv /\ TypeOK /\ ~fault /\ Hist(commands, past, joined, freed)
      /\ tree \in Tree /\ WellFormed(tree) /\ tree = At(past, pos)
      /\ pos \in 0..Len(commands) /\ DOMAIN commands = 1..Len(commands)
  BY <1>1, OFacts DEF TypeOK
<1> DEFINE own == [i \in DOMAIN commands |-> Owned(commands, pos, i)]
           owners == {i \in DOMAIN commands : own[i] # NoNode}
           below == Below(tree, Root) \cup UNION {Below(tree, own[i]) : i \in owners}
<1>3. \A i \in owners : i \in 1..Len(commands) /\ own[i] = Owned(commands, pos, i) /\ own[i] # NoNode
  BY <1>2
<1>4. \A i \in 1..Len(commands) : Owned(commands, pos, i) # NoNode =>
         i \in owners /\ own[i] = Owned(commands, pos, i)
  BY <1>2
<1>5. \A x : x \in below <=> x \in Below(tree, Root) \/ \E i \in owners : x \in Below(tree, own[i])
  OBVIOUS
<1> HIDE DEF own, owners, below
<1>6. \A i \in owners : /\ own[i] \in Node /\ tree.parent[own[i]] = NoNode /\ ~tree.managed[own[i]]
                        /\ \A j \in owners : j # i => own[j] # own[i]
  BY <1>2, <1>3 DEF Hist, OwnedApart
<1>7. /\ Root \in Node /\ tree.managed[Root] /\ NoNode \notin Node
      /\ {n \in Node : tree.managed[n]} \subseteq Below(tree, Root)
      /\ \A x \in Below(tree, Root) : x \in Node /\ tree.managed[x]
  <2>1. Root \in Node /\ tree.managed[Root] /\ NoNode \notin Node
    BY <1>2, RootAssumption, NoNodeAssumption DEF WellFormed
  <2>2. {n \in Node : tree.managed[n]} \subseteq Below(tree, Root)
    BY <1>2 DEF WellFormed
  <2> QED
    BY <1>2, <2>1, <2>2, ManagedBelow, BelowClosed
<1>8. ~\E i \in owners : own[i] \in Below(tree, Root)
  BY <1>6, <1>7
<1>9. ~\E i, j \in owners : i # j /\ own[i] \in Below(tree, own[j])
  <2>1. ASSUME NEW i \in owners, NEW j \in owners, i # j, own[i] \in Below(tree, own[j])
        PROVE  FALSE
    <3>1. tree.parent[own[i]] \in Below(tree, own[j])
      BY <1>2, <1>6, <2>1, ParentBelow
    <3> QED
      BY <1>2, <1>6, <1>7, <3>1, BelowClosed
  <2> QED
    BY <2>1
<1>10. below \cap freed = {}
  <2>1. \A x \in freed : ~tree.managed[x] /\ \A i \in 1..Len(commands) : ~Keeps(commands, past, pos, i, x)
    BY <1>2 DEF Hist, NothingDead
  <2>2. \A x \in freed : \A i \in owners : x \notin Below(tree, own[i])
    BY <1>2, <1>3, <2>1 DEF Keeps
  <2> QED
    BY <1>5, <1>7, <2>1, <2>2
<1>11. freed' = freed \cup below /\ closed' = TRUE /\ UNCHANGED <<fault, joined>>
  <2>1. ~(\/ \E i \in owners : own[i] \in Below(tree, Root)
          \/ \E i, j \in owners : i # j /\ own[i] \in Below(tree, own[j])
          \/ below \cap freed # {})
    BY <1>8, <1>9, <1>10
  <2> QED
    BY <2>1 DEF Close, own, owners, below
<1>12. joined \subseteq freed \cup below
  <2>1. ASSUME NEW x \in joined \ freed PROVE x \in below
    <3>1. tree.managed[x] \/ \E i \in 1..Len(commands) : Keeps(commands, past, pos, i, x)
      BY <1>2 DEF Hist, NothingLost
    <3>2. x \in Node
      BY <1>2 DEF TypeOK
    <3>3. CASE tree.managed[x]
      BY <1>5, <1>7, <3>2, <3>3
    <3>4. CASE \E i \in 1..Len(commands) : Keeps(commands, past, pos, i, x)
      BY <1>2, <1>4, <1>5, <3>4 DEF Keeps
    <3> QED
      BY <3>1, <3>3, <3>4
  <2> QED
    BY <2>1
<1> QED
  BY <1>2, <1>11, <1>12
LEMMA InitOwnership ==
  ASSUME Init PROVE OInv
<1>1. SInv
  BY InitSession
<1>2. /\ ~fault /\ ~closed /\ commands = <<>> /\ freed = {} /\ joined = InTree(tree)
  BY DEF Init
<1>3. /\ tree \in Tree /\ WellFormed(tree) /\ past \in Seq(SnapshotType) /\ Len(past) = 1
      /\ tree = At(past, 0) /\ commands \in Seq(Command) /\ Len(commands) = 0
  <2>1. pos = 0 /\ Len(commands) = 0 /\ IInv
    BY <1>1, <1>2 DEF Init, SInv
  <2> QED
    BY <2>1, StateFacts DEF At
<1>4. 0..Len(commands) = {0} /\ 1..Len(commands) = {}
  BY <1>3
<1>5. HistoryShape(commands, past, joined, freed)
  BY <1>2, <1>3, <1>4 DEF HistoryShape, InTree
<1>6. NewNodesApart(commands, past, joined)
  <2>1. \A x \in Node \ joined : ~tree.managed[x] /\ Children(tree, x) \cap joined = {}
    BY <1>2, <1>3, ChildFacts DEF InTree
  <2> QED
    BY <1>3, <1>4, <2>1 DEF NewNodesApart
<1>7. CommandsLead(commands, past) /\ OwnedApart(commands, past)
  BY <1>4 DEF CommandsLead, OwnedApart
<1>8. NothingLost(commands, past, joined, freed)
  BY <1>2, <1>3, <1>4 DEF NothingLost, InTree
<1>9. NothingDead(commands, past, freed)
  BY <1>2 DEF NothingDead
<1>10. AllJoined(commands, past, joined)
  BY <1>2, <1>3, <1>4 DEF AllJoined, InTree
<1> QED
  BY <1>1, <1>2, <1>5, <1>6, <1>7, <1>8, <1>9, <1>10 DEF OInv, Hist

LEMMA NextOwnership ==
  ASSUME OnlyNewNodes, OInv, [Next]_vars PROVE OInv'
<1>1. OnlyTreeEdits /\ SInv /\ IInv
  BY DEF OnlyNewNodes, OnlyTreeEdits, OInv, SInv
<1>2. SInv'
  BY <1>1, NextSession
<1> SUFFICES /\ ~fault'
             /\ ~closed' => Hist(commands', past', joined', freed')
             /\ closed' => joined' \subseteq freed'
  BY <1>2 DEF OInv
<1>3. CASE UNCHANGED vars
  <2>1. UNCHANGED <<commands, past, joined, freed, fault, closed>>
    BY <1>3 DEF vars, stack
  <2> QED
    BY <2>1 DEF OInv
<1>4. CASE BeginModification \/ Undo \/ Redo \/ Save
  <2>1. ~closed /\ UNCHANGED <<commands, past, joined, freed, fault, closed>>
    BY <1>4 DEF BeginModification, Undo, Redo, Save, MayTravel, Idle, stack
  <2> QED
    BY <2>1, SameOwnership
<1>5. CASE \E n \in Node : BeginModificationAt(n) \/ ChangeModificationTarget(n)
  BY <1>5, SwitchOwnership
<1>6. CASE EndModification
  BY <1>6, EndModificationOwnership
<1>7. CASE UndoCommand \/ RedoCommand
  BY <1>7, UndoCommandOwnership, RedoCommandOwnership
<1>8. CASE \/ \E n, m \in Node : ListInsert(n, m)
           \/ \E n \in Node : ListRemove(n)
           \/ \E n \in Node, m \in Node \cup {NoNode} : CompositeSet(n, m)
  BY <1>1, <1>8, EditRecorded, RecordedOwnership
<1>9. CASE \E n \in FieldNode, v \in Value : FieldSet(n, v)
  BY <1>1, <1>9, FieldSetRecorded, RecordedOwnership
<1>10. CASE Close
  BY <1>10, CloseOwnership
<1> QED
  BY <1>3, <1>4, <1>5, <1>6, <1>7, <1>8, <1>9, <1>10 DEF Next

-----------------------------------------------------------------------------
(* The inductive invariant: owned nodes are apart at every moment of the history. *)
LEMMA OwnershipInvariant ==
  ASSUME OnlyNewNodes PROVE Spec => []OInv
<1>1. Init => OInv
  BY InitOwnership
<1>2. OInv /\ [Next]_vars => OInv'
  BY NextOwnership
<1> QED
  BY <1>1, <1>2, PTL DEF Spec

(***************************************************************************)
(* No destructor (~NodeOwningCommand, ~TreeManager) deletes a node that is *)
(* deleted already or will be looked at, and no command that runs, undoes  *)
(* or redoes looks at a deleted node.                                      *)
(***************************************************************************)
THEOREM NothingIsUsedAfterDelete ==
  ASSUME OnlyNewNodes PROVE Spec => []NoUseAfterDelete
<1>1. OInv => NoUseAfterDelete
  BY DEF OInv, NoUseAfterDelete
<1> QED
  BY <1>1, OwnershipInvariant, PTL

(***************************************************************************)
(* What undo and redo may still need is alive: no node of the tree, no     *)
(* node that a command of the stack names (~NodeOwningCommand leaves it to *)
(* the commands that stay), and nothing below it is deleted.               *)
(***************************************************************************)
THEOREM NothingNeededIsDeleted ==
  ASSUME OnlyNewNodes PROVE Spec => []NothingDangles
<1>1. ASSUME OInv, ~closed
      PROVE  freed \cap (Below(tree, Root) \cup
                UNION {Below(tree, n) : n \in UNION {Named(c) : c \in Range(commands)}}) = {}
  <2>1. /\ TypeOK /\ Hist(commands, past, joined, freed) /\ NoNode \notin Node
        /\ tree \in Tree /\ WellFormed(tree) /\ tree = At(past, pos)
        /\ Len(commands) \in Nat /\ pos \in 0..Len(commands)
    BY <1>1, OFacts, NoNodeAssumption
  <2>2. ASSUME NEW p \in 0..Len(commands), NEW n \in Node, At(past, p).managed[n]
        PROVE  n \in joined \ freed
    BY <2>1, <2>2 DEF Hist, AllJoined, NothingDead
  <2>3. ASSUME NEW n \in joined \ freed PROVE Below(tree, n) \cap freed = {}
    <3>1. n \in Node
      BY <2>1 DEF TypeOK
    <3>2. CASE tree.managed[n]
      <4>1. \A x \in Below(tree, n) : tree.managed[x]
        BY <2>1, <3>1, <3>2, ManagedBelow
      <4> QED
        BY <2>1, <4>1 DEF Hist, NothingDead
    <3>3. CASE \E i \in 1..Len(commands) : Keeps(commands, past, pos, i, n)
      <4>1. PICK i \in 1..Len(commands) : Keeps(commands, past, pos, i, n)
        BY <3>3
      <4>2. PICK x : x = Owned(commands, pos, i)
        OBVIOUS
      <4>3. x \in Node /\ n \in Below(tree, x)
        BY <2>1, <4>1, <4>2 DEF Keeps, Hist, OwnedApart
      <4>4. Below(tree, n) \subseteq Below(tree, x)
        BY <2>1, <4>3, BelowWithin
      <4>5. Below(tree, x) \cap freed = {}
        BY <2>1, <4>1, <4>2 DEF Hist, NothingDead, Keeps
      <4> QED
        BY <4>4, <4>5
    <3> QED
      BY <2>1, <3>2, <3>3 DEF Hist, NothingLost
  <2>4. Below(tree, Root) \cap freed = {}
    <3>1. Root \in Node /\ tree.managed[Root]
      BY <2>1, RootAssumption DEF WellFormed
    <3> QED
      BY <2>1, <2>2, <2>3, <3>1
  <2>5. ASSUME NEW c \in Range(commands), NEW n \in Named(c) PROVE Below(tree, n) \cap freed = {}
    <3>1. PICK i \in 1..Len(commands) : c = commands[i]
      BY <2>1 DEF TypeOK, Range
    <3>2. i - 1 \in 0..Len(commands) /\ i \in 0..Len(commands)
      BY <2>1
    <3>3. Touches(c, At(past, i - 1), At(past, i)) /\ c \in Command
      BY <2>1, <3>1 DEF Hist, CommandsLead, Leads, TypeOK
    <3>4. n \in Node /\ (At(past, i - 1).managed[n] \/ At(past, i).managed[n])
      <4>1. CASE n \in {c.ins, c.rem}
        BY <3>3, <4>1 DEF Named, Touches
      <4>2. CASE c.kind = "target" /\ n \in {c.from, c.to}
        BY <3>3, <4>2 DEF Named, Touches
      <4>3. CASE c.kind # "target" /\ n = c.target
        BY <3>3, <4>3 DEF Named, Touches
      <4>4. CASE c.kind = "target" /\ n = c.target
        BY <3>3, <4>4 DEF Named, Touches
      <4> QED
        BY <4>1, <4>2, <4>3, <4>4 DEF Named
    <3> QED
      BY <2>2, <2>3, <3>2, <3>4
  <2> QED
    BY <2>4, <2>5
<1>2. OInv => NothingDangles
  BY <1>1 DEF NothingDangles
<1> QED
  BY <1>2, OwnershipInvariant, PTL

(***************************************************************************)
(* A node that was once part of the tree is in the tree, or below a node   *)
(* that a command on the stack owns and will delete, or deleted; after the *)
(* manager is gone, it is deleted (~NodeOwningCommand, ~TreeManager).      *)
(***************************************************************************)
THEOREM NothingLeaks ==
  ASSUME OnlyNewNodes PROVE Spec => []NoLeak
<1>1. ASSUME OInv, NEW n \in joined \ freed
      PROVE  /\ ~closed
             /\ \/ tree.managed[n]
                \/ \E i \in DOMAIN commands :
                     Owned(commands, pos, i) # NoNode /\ n \in Below(tree, Owned(commands, pos, i))
  <2>1. ~closed
    BY <1>1 DEF OInv
  <2>2. /\ Hist(commands, past, joined, freed) /\ tree = At(past, pos)
        /\ pos \in 0..Len(commands) /\ DOMAIN commands = 1..Len(commands)
    BY <1>1, <2>1, OFacts DEF TypeOK
  <2>3. tree.managed[n] \/ \E i \in 1..Len(commands) : Keeps(commands, past, pos, i, n)
    BY <1>1, <2>2 DEF Hist, NothingLost
  <2> QED
    BY <2>1, <2>2, <2>3 DEF Keeps
<1>2. OInv => NoLeak
  BY <1>1 DEF NoLeak
<1> QED
  BY <1>2, OwnershipInvariant, PTL

-----------------------------------------------------------------------------
(***************************************************************************)
(* What the manager keeps about nodes beside the tree: their ids, which    *)
(* move between two maps with the nodes, and the changes of a session,     *)
(* which endModification reports.  For every tree and undo limit, as long  *)
(* as client code edits nodes of the tree only and inserts only new nodes: *)
(* where ids and reports are right depends on which nodes are alive and    *)
(* where, so that all rests on the ownership of removed nodes.             *)
(***************************************************************************)

-----------------------------------------------------------------------------
(***************************************************************************)
(* Ids.  The id of a removed node waits in nodeIdMapForUndoStack, and only *)
(* nodes that were in the tree and are not deleted have one there: so it   *)
(* can come back with the node, and ~TreeManager loses none but of deleted *)
(* nodes.                                                                  *)
(***************************************************************************)
IdsInPlace ==
  /\ nodeIdMap \subseteq InTree(tree)
  /\ nodeIdMapForUndoStack \cap InTree(tree) = {}
  /\ nodeIdMapForUndoStack \subseteq joined \ freed

IdsKept ==
  nodeIdMap \cup nodeIdMapForUndoStack \subseteq nodeIdMap' \cup nodeIdMapForUndoStack' \cup freed'

DInv == OInv /\ (~closed => IdsInPlace)

(* Nodes leave T for the undo stack with their ids in M, others come with theirs in U. *)
LEMMA IdsExchanged ==
  ASSUME NEW T, NEW V, NEW Out, NEW In, NEW M, NEW U, NEW J, NEW F, NEW gone,
         M \subseteq T, U \cap T = {}, U \subseteq J \ F, T \subseteq J, T \cap F = {},
         V = In \cup (T \ Out), In \cap T = {},
         NEW M2, M2 = ((M \ (Out \cap M)) \cup (In \cap U)) \ gone,
         NEW U2, U2 = ((U \cup (Out \cap M)) \ (In \cap U)) \ gone
  PROVE  /\ M2 \subseteq V /\ U2 \cap V = {} /\ U2 \subseteq J \ (F \cup gone)
         /\ M \cup U \subseteq M2 \cup U2 \cup gone
  OBVIOUS

LEMMA MovedIds ==
  ASSUME NEW v, NEW c, NEW out, NEW in, NEW gone, MoveIds(v, c, out, in, gone),
         v.managed[c.target], {out, in} # {NoNode} => c.tracked
  PROVE  /\ nodeIdMap' = ((nodeIdMap \ (BelowSlot(v, out) \cap nodeIdMap))
                            \cup (BelowSlot(v, in) \cap nodeIdMapForUndoStack)) \ gone
         /\ nodeIdMapForUndoStack' =
              ((nodeIdMapForUndoStack \cup (BelowSlot(v, out) \cap nodeIdMap))
                 \ (BelowSlot(v, in) \cap nodeIdMapForUndoStack)) \ gone
<1>1. CASE c.tracked
  <2>1. CASE out = NoNode /\ in = NoNode
    BY <1>1, <2>1 DEF MoveIds, BelowSlot
  <2>2. CASE out = NoNode /\ in # NoNode
    BY <1>1, <2>2 DEF MoveIds, BelowSlot
  <2>3. CASE out # NoNode /\ in = NoNode
    BY <1>1, <2>3 DEF MoveIds, BelowSlot
  <2>4. CASE out # NoNode /\ in # NoNode
    BY <1>1, <2>4 DEF MoveIds, BelowSlot
  <2> QED
    BY <2>1, <2>2, <2>3, <2>4
<1>2. CASE ~c.tracked
  <2>1. out = NoNode /\ in = NoNode
    BY <1>2
  <2> QED
    BY <1>2, <2>1 DEF MoveIds, BelowSlot
<1> QED
  BY <1>1, <1>2

(* A run that moves the nodes Out of the tree and the nodes In into it. *)
LEMMA RunIds ==
  ASSUME DInv, ~closed, NEW Out, NEW In, NEW gone,
         InTree(tree') = In \cup (InTree(tree) \ Out), In \cap InTree(tree) = {},
         nodeIdMap' = ((nodeIdMap \ (Out \cap nodeIdMap))
                         \cup (In \cap nodeIdMapForUndoStack)) \ gone,
         nodeIdMapForUndoStack' = ((nodeIdMapForUndoStack \cup (Out \cap nodeIdMap))
                                     \ (In \cap nodeIdMapForUndoStack)) \ gone,
         freed' = freed \cup gone, joined \subseteq joined'
  PROVE  IdsInPlace' /\ IdsKept
<1>1. IdsInPlace
  BY DEF DInv
<1>2. InTree(tree) \subseteq joined /\ InTree(tree) \cap freed = {}
  <2>1. OInv
    BY DEF DInv
  <2>2. Hist(commands, past, joined, freed) /\ tree = At(past, pos) /\ pos \in 0..Len(commands)
    BY <2>1, OFacts
  <2> QED
    BY <2>2 DEF Hist, AllJoined, NothingDead, InTree
<1>3. PICK T, V, M, U, J, F, M2, U2, F2, J2 :
        /\ T = InTree(tree) /\ V = InTree(tree') /\ M = nodeIdMap /\ U = nodeIdMapForUndoStack
        /\ J = joined /\ F = freed /\ M2 = nodeIdMap' /\ U2 = nodeIdMapForUndoStack'
        /\ F2 = freed' /\ J2 = joined'
  OBVIOUS
<1>4. /\ M \subseteq T /\ U \cap T = {} /\ U \subseteq J \ F /\ T \subseteq J /\ T \cap F = {}
      /\ V = In \cup (T \ Out) /\ In \cap T = {}
      /\ M2 = ((M \ (Out \cap M)) \cup (In \cap U)) \ gone
      /\ U2 = ((U \cup (Out \cap M)) \ (In \cap U)) \ gone
      /\ F2 = F \cup gone /\ J \subseteq J2
  BY <1>1, <1>2, <1>3 DEF IdsInPlace
<1>5. /\ M2 \subseteq V /\ U2 \cap V = {} /\ U2 \subseteq J \ (F \cup gone)
      /\ M \cup U \subseteq M2 \cup U2 \cup gone
  BY <1>4, IdsExchanged
<1>6. M2 \subseteq V /\ U2 \cap V = {} /\ U2 \subseteq J2 \ F2 /\ M \cup U \subseteq M2 \cup U2 \cup F2
  BY <1>4, <1>5
<1>7. IdsKept
  BY <1>3, <1>6 DEF IdsKept
<1>8. IdsInPlace'
  BY <1>3, <1>6 DEF IdsInPlace
<1> QED
  BY <1>7, <1>8

LEMMA SwitchIds ==
  ASSUME DInv, ~closed, NEW from, NEW to, NEW gone, RunSwitch(from, to, gone),
         freed' = freed \cup gone
  PROVE  IdsInPlace' /\ IdsKept
<1>1. /\ tree' = tree /\ joined' = joined
      /\ nodeIdMap' = nodeIdMap \ gone /\ nodeIdMapForUndoStack' = nodeIdMapForUndoStack \ gone
  BY DEF RunSwitch
<1> DEFINE none == {}
<1>2. /\ InTree(tree') = none \cup (InTree(tree) \ none) /\ none \cap InTree(tree) = {}
      /\ nodeIdMap' = ((nodeIdMap \ (none \cap nodeIdMap))
                         \cup (none \cap nodeIdMapForUndoStack)) \ gone
      /\ nodeIdMapForUndoStack' = ((nodeIdMapForUndoStack \cup (none \cap nodeIdMap))
                                     \ (none \cap nodeIdMapForUndoStack)) \ gone
      /\ joined \subseteq joined'
  BY <1>1
<1> HIDE DEF none
<1> QED
  BY <1>2, RunIds

LEMMA StepSlots ==
  ASSUME NEW t, NEW u, NEW ins, NEW rem, Step(t, u, ins, rem)
  PROVE  /\ BelowSlot(u, ins) = BelowSlot(t, ins) /\ BelowSlot(u, rem) = BelowSlot(t, rem)
         /\ InTree(u) = BelowSlot(t, ins) \cup (InTree(t) \ BelowSlot(t, rem))
         /\ InTree(t) = BelowSlot(t, rem) \cup (InTree(u) \ BelowSlot(t, ins))
         /\ BelowSlot(t, ins) \cap InTree(t) = {} /\ BelowSlot(t, rem) \cap InTree(u) = {}
<1>1. t \in Tree /\ BelowSlot(t, ins) \subseteq Node /\ BelowSlot(t, rem) \subseteq Node
  BY BelowClosed DEF Step, BelowSlot
<1>2. \A k \in BelowSlot(t, ins) : ~t.managed[k]
  BY DEF Step
<1>3. \A k \in BelowSlot(t, rem) : t.managed[k]
  BY DEF Step
<1>4. \A k \in Node :
        u.managed[k] <=> k \in BelowSlot(t, ins) \/ (t.managed[k] /\ k \notin BelowSlot(t, rem))
  BY DEF Step
<1>5. BelowSlot(u, ins) = BelowSlot(t, ins)
  BY <1>1, <1>2, SlotSelf DEF Step, BelowSlot
<1>6. BelowSlot(u, rem) = BelowSlot(t, rem)
  BY DEF Step, BelowSlot
<1> QED
  BY <1>1, <1>2, <1>3, <1>4, <1>5, <1>6 DEF InTree

LEMMA ForwardIds ==
  ASSUME DInv, ~closed, NEW c, NEW gone, RunRedo(c, gone), freed' = freed \cup gone,
         NEW u, u = Redone(tree, c), Step(tree, u, c.ins, c.rem), Touches(c, tree, u)
  PROVE  IdsInPlace' /\ IdsKept
<1>1. CASE c.kind = "target"
  <2>1. RunSwitch(c.from, c.to, gone)
    BY <1>1 DEF RunRedo
  <2> QED
    BY <2>1, SwitchIds
<1>2. CASE c.kind # "target"
  <2>1. /\ tree' = u /\ joined \subseteq joined' /\ MoveIds(u, c, c.rem, c.ins, gone)
    BY <1>2 DEF RunRedo, RunEdit
  <2>2. u.managed[c.target] /\ ({c.rem, c.ins} # {NoNode} => c.tracked)
    BY <1>2 DEF Touches
  <2> DEFINE Out == BelowSlot(tree, c.rem)
             In == BelowSlot(tree, c.ins)
  <2>3. /\ BelowSlot(u, c.ins) = In /\ BelowSlot(u, c.rem) = Out
        /\ InTree(u) = In \cup (InTree(tree) \ Out) /\ In \cap InTree(tree) = {}
    BY StepSlots
  <2> HIDE DEF Out, In
  <2>4. /\ nodeIdMap' = ((nodeIdMap \ (Out \cap nodeIdMap))
                           \cup (In \cap nodeIdMapForUndoStack)) \ gone
        /\ nodeIdMapForUndoStack' = ((nodeIdMapForUndoStack \cup (Out \cap nodeIdMap))
                                       \ (In \cap nodeIdMapForUndoStack)) \ gone
    BY <2>1, <2>2, <2>3, MovedIds
  <2> QED
    BY <2>1, <2>3, <2>4, RunIds
<1> QED
  BY <1>1, <1>2

LEMMA BackwardIds ==
  ASSUME DInv, ~closed, NEW c, RunUndo(c, {}), freed' = freed,
         NEW b, b = Undone(tree, c), Step(b, tree, c.ins, c.rem), Touches(c, b, tree)
  PROVE  IdsInPlace' /\ IdsKept
<1>1. CASE c.kind = "target"
  <2>1. RunSwitch(c.to, c.from, {})
    BY <1>1 DEF RunUndo
  <2> QED
    BY <2>1, SwitchIds
<1>2. CASE c.kind # "target"
  <2>1. /\ tree' = b /\ joined \subseteq joined' /\ MoveIds(b, c, c.ins, c.rem, {})
    BY <1>2 DEF RunUndo, RunEdit
  <2>2. b.managed[c.target] /\ ({c.rem, c.ins} # {NoNode} => c.tracked)
    BY <1>2 DEF Touches
  <2> DEFINE Out == BelowSlot(b, c.ins)
             In == BelowSlot(b, c.rem)
  <2>3. InTree(b) = In \cup (InTree(tree) \ Out) /\ In \cap InTree(tree) = {}
    BY StepSlots
  <2>4. /\ nodeIdMap' = ((nodeIdMap \ (Out \cap nodeIdMap))
                           \cup (In \cap nodeIdMapForUndoStack)) \ {}
        /\ nodeIdMapForUndoStack' = ((nodeIdMapForUndoStack \cup (Out \cap nodeIdMap))
                                       \ (In \cap nodeIdMapForUndoStack)) \ {}
    BY <2>1, <2>2, MovedIds
  <2> HIDE DEF Out, In
  <2> QED
    BY <2>1, <2>3, <2>4, RunIds
<1> QED
  BY <1>1, <1>2

LEMMA PushIds ==
  ASSUME DInv, ~closed, NEW c \in Command, Push(c), Recordable(tree, c),
         NEW u, u = Redone(tree, c), Step(tree, u, c.ins, c.rem), Touches(c, tree, u),
         c.ins \notin joined
  PROVE  IdsInPlace' /\ IdsKept
<1>1. ~fault'
  BY PushOwnership DEF DInv
<1>2. PICK gone : gone = freed \cup Deleted(commands, pos, RedoBranch)
  OBVIOUS
<1>3. RunRedo(c, gone) /\ freed' = gone
  BY <1>1, <1>2 DEF Push, Crash
<1>4. freed' = freed \cup gone
  BY <1>2, <1>3
<1> QED
  BY <1>3, <1>4, ForwardIds

LEMMA RecordedIds ==
  ASSUME OnlyNewNodes, DInv, Recorded
  PROVE  IdsInPlace' /\ IdsKept
<1>1. PICK c : /\ Execute(c) /\ c.kind # "target"
               /\ tree.managed[c.target] => Recordable(tree, c)
               /\ c.ins # NoNode => c.ins \in Insertable(c.target)
  BY DEF Recorded
<1>2. OInv /\ tree.managed[c.target] /\ MayPush /\ Push(c)
  BY <1>1 DEF Execute, Record, OnlyNewNodes, DInv
<1>3. ~closed /\ Recordable(tree, c) /\ c \in Command
  BY <1>1, <1>2 DEF MayPush, Idle, Recordable
<1>4. TypeOK /\ tree \in Tree /\ WellFormed(tree)
  BY <1>2, <1>3, OFacts
<1>5. c.ins \notin joined
  BY <1>1, <1>4, NoNodeAssumption DEF Insertable, OnlyNewNodes, TypeOK
<1>6. Step(tree, Redone(tree, c), c.ins, c.rem) /\ Touches(c, tree, Redone(tree, c))
  BY <1>1, <1>3, <1>4, EditStep
<1> QED
  BY <1>2, <1>3, <1>5, <1>6, PushIds

LEMMA TargetIds ==
  ASSUME DInv, NEW n \in Node, BeginModificationAt(n) \/ ChangeModificationTarget(n)
  PROVE  IdsInPlace' /\ IdsKept
<1>1. OInv /\ ~closed /\ tree.managed[n] /\ Push(SwitchCommand(n))
  BY DEF BeginModificationAt, ChangeModificationTarget, MayPush, Idle, DInv
<1>2. PICK c : c = SwitchCommand(n)
  OBVIOUS
<1>3. /\ c \in Command /\ Recordable(tree, c) /\ Redone(tree, c) = tree
      /\ Step(tree, tree, c.ins, c.rem) /\ Touches(c, tree, tree) /\ c.ins \notin joined
  BY <1>1, <1>2, SwitchStep
<1> QED
  BY <1>1, <1>2, <1>3, PushIds

LEMMA UndoCommandIds ==
  ASSUME DInv, UndoCommand PROVE IdsInPlace' /\ IdsKept
<1>1. OInv /\ ~closed /\ pos > goal
  BY DEF UndoCommand, DInv
<1>2. ~fault' /\ IInv /\ TypeOK /\ Hist(commands, past, joined, freed) /\ tree = At(past, pos)
  BY <1>1, OFacts, UndoCommandOwnership
<1>3. pos \in 1..Len(commands)
  BY <1>1, <1>2 DEF TypeOK
<1>4. PICK c : c = commands[pos]
  OBVIOUS
<1>5. RunUndo(c, {}) /\ freed' = freed
  BY <1>2, <1>4 DEF UndoCommand, Crash
<1>6. PICK b : b = At(past, pos - 1)
  OBVIOUS
<1>7. Step(b, tree, c.ins, c.rem) /\ Touches(c, b, tree)
  BY <1>2, <1>3, <1>4, <1>6 DEF Hist, CommandsLead, Leads
<1>8. b = Undone(tree, c)
  BY <1>2, <1>3, <1>4, <1>6 DEF IInv, PastReversible, Reversible, At
<1> QED
  BY <1>1, <1>5, <1>7, <1>8, BackwardIds

LEMMA RedoCommandIds ==
  ASSUME DInv, RedoCommand PROVE IdsInPlace' /\ IdsKept
<1>1. OInv /\ ~closed /\ pos < goal
  BY DEF RedoCommand, DInv
<1>2. ~fault' /\ IInv /\ TypeOK /\ Hist(commands, past, joined, freed) /\ tree = At(past, pos)
  BY <1>1, OFacts, RedoCommandOwnership
<1> DEFINE q == pos + 1
<1>3. q \in 1..Len(commands) /\ q - 1 = pos
  BY <1>1, <1>2 DEF TypeOK
<1>4. PICK c : c = commands[pos + 1]
  OBVIOUS
<1>5. RunRedo(c, {}) /\ freed' = freed \cup {}
  BY <1>2, <1>4 DEF RedoCommand, Crash
<1>6. PICK a : a = At(past, q)
  OBVIOUS
<1>7. Step(tree, a, c.ins, c.rem) /\ Touches(c, tree, a)
  BY <1>2, <1>3, <1>4, <1>6 DEF Hist, CommandsLead, Leads
<1>8. a = Redone(tree, c)
  BY <1>2, <1>3, <1>4, <1>6 DEF IInv, PastReversible, Reversible, At
<1> QED
  BY <1>1, <1>5, <1>7, <1>8, ForwardIds

(* A step that at most deletes nodes, with their ids. *)
LEMMA DeletingIds ==
  ASSUME DInv, ~closed, NEW gone, UNCHANGED <<tree, joined>>, freed' = freed \cup gone,
         nodeIdMap' = nodeIdMap \ gone /\ nodeIdMapForUndoStack' = nodeIdMapForUndoStack \ gone
  PROVE  IdsInPlace' /\ IdsKept
  BY DEF DInv, IdsInPlace, IdsKept

LEMMA EndModificationIds ==
  ASSUME DInv, EndModification PROVE IdsInPlace' /\ IdsKept
<1>1. OInv /\ ~closed /\ ~fault'
  BY EndModificationOwnership DEF EndModification, Idle, DInv
<1>2. CASE pushedNewCommandsOnTheStack
  <2>1. EndMacro
    BY <1>2 DEF EndModification
  <2>2. PICK gone : /\ freed' = freed \cup gone /\ freed \subseteq gone /\ UNCHANGED <<tree, joined>>
                    /\ nodeIdMap' = nodeIdMap \ gone
                    /\ nodeIdMapForUndoStack' = nodeIdMapForUndoStack \ gone
    <3>1. PICK c, cs, es, drop, gone :
             /\ gone = freed \cup Deleted(cs, Len(cs), 1..drop)
             /\ freed' = gone /\ UNCHANGED <<tree, joined>>
             /\ nodeIdMap' = nodeIdMap \ gone
             /\ nodeIdMapForUndoStack' = nodeIdMapForUndoStack \ gone
      BY <1>1, <2>1 DEF EndMacro, Crash
    <3> QED
      BY <3>1
  <2> QED
    BY <1>1, <2>2, DeletingIds
<1>3. CASE ~pushedNewCommandsOnTheStack
  <2>1. UNCHANGED <<tree, joined, freed, nodeIdMap, nodeIdMapForUndoStack>>
    BY <1>3 DEF EndModification, ids
  <2> QED
    BY <1>1, <2>1 DEF DInv, IdsInPlace, IdsKept
<1> QED
  BY <1>2, <1>3

LEMMA SaveIds ==
  ASSUME DInv, Save PROVE IdsInPlace' /\ IdsKept
  BY DEF DInv, IdsInPlace, IdsKept, Save, Idle

LEMMA CloseIds ==
  ASSUME DInv, Close PROVE closed' /\ IdsKept
<1>1. OInv /\ ~closed /\ ~fault
  BY DEF Close, Idle, DInv
<1>2. ~fault' /\ closed' /\ joined' \subseteq freed'
  BY <1>1, CloseOwnership
<1>3. joined' = joined
  BY <1>2, Zenon DEF Close, Crash
<1>4. nodeIdMap \cup nodeIdMapForUndoStack \subseteq joined
  <2>1. Hist(commands, past, joined, freed) /\ tree = At(past, pos) /\ pos \in 0..Len(commands)
    BY <1>1, OFacts
  <2> QED
    BY <1>1, <2>1 DEF Hist, AllJoined, DInv, IdsInPlace, InTree
<1> QED
  BY <1>2, <1>3, <1>4 DEF IdsKept

LEMMA NextIds ==
  ASSUME OnlyNewNodes, DInv, [Next]_vars
  PROVE  DInv' /\ [IdsKept]_vars
<1>1. OnlyTreeEdits /\ OInv /\ SInv /\ IInv
  BY DEF OnlyNewNodes, OnlyTreeEdits, DInv, OInv, SInv
<1>2. OInv'
  BY <1>1, NextOwnership
<1> SUFFICES (~closed' => IdsInPlace') /\ [IdsKept]_vars
  BY <1>2 DEF DInv
<1>3. CASE UNCHANGED vars
  BY <1>3 DEF DInv, IdsInPlace, vars, ids, stack
<1>4. CASE BeginModification \/ Undo \/ Redo
  <2>1. ~closed /\ UNCHANGED <<tree, joined, freed, nodeIdMap, nodeIdMapForUndoStack>>
    BY <1>4 DEF BeginModification, Undo, Redo, MayTravel, Idle, ids
  <2> QED
    BY <2>1 DEF DInv, IdsInPlace, IdsKept
<1>5. CASE Save
  BY <1>5, SaveIds
<1>6. CASE \E n \in Node : BeginModificationAt(n) \/ ChangeModificationTarget(n)
  BY <1>6, TargetIds
<1>7. CASE EndModification
  BY <1>7, EndModificationIds
<1>8. CASE UndoCommand \/ RedoCommand
  BY <1>8, UndoCommandIds, RedoCommandIds
<1>9. CASE \/ \E n, m \in Node : ListInsert(n, m)
           \/ \E n \in Node : ListRemove(n)
           \/ \E n \in Node, m \in Node \cup {NoNode} : CompositeSet(n, m)
  BY <1>1, <1>9, EditRecorded, RecordedIds
<1>10. CASE \E n \in FieldNode, v \in Value : FieldSet(n, v)
  BY <1>1, <1>10, FieldSetRecorded, RecordedIds
<1>11. CASE Close
  BY <1>11, CloseIds
<1> QED
  BY <1>3, <1>4, <1>5, <1>6, <1>7, <1>8, <1>9, <1>10, <1>11 DEF Next

(***************************************************************************)
(* Ids stay with their nodes: a node with an id has it in the map of where *)
(* the node is, nodeIdMap in the tree and nodeIdMapForUndoStack outside,   *)
(* and loses it only when it is deleted (NodeOwningCommand::moveNodes,     *)
(* NodeIdMap::remove in ~Node).                                            *)
(***************************************************************************)
THEOREM IdsStayWithNodes ==
  ASSUME OnlyNewNodes PROVE Spec => IdsStay
<1>1. Init => DInv
  BY InitOwnership DEF DInv, Init, IdsInPlace
<1>2. DInv /\ [Next]_vars => DInv' /\ [IdsKept]_vars
  BY NextIds
<1>3. DInv => IdsFollowTree
  BY DEF DInv, IdsInPlace, IdsFollowTree
<1>4. DInv' /\ [IdsKept]_vars =>
        [/\ IdsFollowTree'
         /\ nodeIdMap \cup nodeIdMapForUndoStack
              \subseteq nodeIdMap' \cup nodeIdMapForUndoStack' \cup freed']_vars
  <2>1. DInv' => IdsFollowTree'
    BY <1>3, PTL
  <2> QED
    BY <2>1 DEF IdsKept
<1> QED
  BY <1>1, <1>2, <1>4, PTL DEF Spec, IdsStay

-----------------------------------------------------------------------------
(***************************************************************************)
(* Reported changes.  What endModification reports is the union of what    *)
(* every command of the session noted; the nodes must be alive although    *)
(* endModification deletes those of the oldest macro first.  They are, as  *)
(* each is in the tree or kept by a command of this session.               *)
(***************************************************************************)
Reported == modifiedTargets \cup removedTargets

(* All that differs from the tree b is noted. *)
Noted(b) ==
  /\ \A n \in Node : tree.kids[n] # b.kids[n] \/ tree.value[n] # b.value[n] => n \in modifiedTargets
  /\ InTree(b) \ InTree(tree) \subseteq removedTargets

(* x is below a node that a command of the present macro owns. *)
Recent(x) ==
  \E i \in (LastEnd + 1)..pos :
    Owned(commands, pos, i) # NoNode /\ x \in Below(tree, Owned(commands, pos, i))

Reports ==
  /\ modificationInProgress => Noted(base)
  /\ ~modificationInProgress => ~pushedNewCommandsOnTheStack /\ ~performedUndoRedo
  /\ performedUndoRedo => ~pushedNewCommandsOnTheStack
  /\ pos # goal => performedUndoRedo /\ modificationInProgress
  /\ ~pushedNewCommandsOnTheStack /\ ~performedUndoRedo => Reported = {}
  /\ ~pushedNewCommandsOnTheStack => Reported \subseteq Node \ freed
  /\ pushedNewCommandsOnTheStack => \A x \in Reported : x \in Node /\ (tree.managed[x] \/ Recent(x))

RInv == OInv /\ (~closed => Reports)

(* A run to the tree v changes the node n only; the nodes Out leave the tree. *)
Notes(v, n, Out) ==
  /\ tree' = v
  /\ \A k \in Node \ {n} : v.kids[k] = tree.kids[k] /\ v.value[k] = tree.value[k]
  /\ n # NoNode => n \in modifiedTargets'
  /\ InTree(tree) \ InTree(v) \subseteq Out
  /\ modifiedTargets \subseteq modifiedTargets' /\ removedTargets \cup Out \subseteq removedTargets'
  /\ \A x \in Reported' \ Reported : x \in Node /\ (v.managed[x] \/ x \in Out)

LEMMA NotedAfter ==
  ASSUME NEW v, NEW n, NEW Out, Notes(v, n, Out), NEW b, Noted(b)
  PROVE  /\ \A k \in Node : v.kids[k] # b.kids[k] \/ v.value[k] # b.value[k] => k \in modifiedTargets'
         /\ InTree(b) \ InTree(v) \subseteq removedTargets'
<1>1. ASSUME NEW k \in Node, v.kids[k] # b.kids[k] \/ v.value[k] # b.value[k]
      PROVE  k \in modifiedTargets'
  <2>1. CASE k = n
    BY <2>1, NoNodeAssumption DEF Notes
  <2>2. CASE k # n
    BY <1>1, <2>2 DEF Notes, Noted
  <2> QED
    BY <2>1, <2>2
<1>2. InTree(b) \ InTree(v) \subseteq removedTargets'
  BY DEF Notes, Noted
<1> QED
  BY <1>1, <1>2

(* What a command notes that runs to the tree v. *)
LEMMA EditNotes ==
  ASSUME NEW v, NEW c, NEW out, NEW in, NEW d, NEW gone, RunEdit(c, v, out, in, d, gone),
         c.target \in Node, v \in Tree, v.managed[c.target], c.tracked,
         {out, in} # {NoNode} => NodeOwning(c),
         \A k \in Node \ {c.target} : v.kids[k] = tree.kids[k] /\ v.value[k] = tree.value[k],
         NEW Out, Out = BelowSlot(v, out), InTree(tree) \ InTree(v) \subseteq Out,
         out \in Node \cup {NoNode}
  PROVE  Notes(v, c.target, Out)
<1>1. /\ tree' = v /\ modifiedTargets' = modifiedTargets \cup {c.target}
      /\ removedTargets' = removedTargets \cup Out
  <2>1. CASE out = NoNode
    BY <2>1 DEF RunEdit, BelowSlot
  <2>2. CASE out # NoNode
    BY <2>2 DEF RunEdit, BelowSlot
  <2> QED
    BY <2>1, <2>2
<1>2. Out \subseteq Node
  BY BelowClosed DEF BelowSlot
<1>3. \A x \in Reported' \ Reported : x \in Node /\ (v.managed[x] \/ x \in Out)
  BY <1>1, <1>2 DEF Reported
<1> QED
  BY <1>1, <1>3 DEF Notes

LEMMA SwitchNotes ==
  ASSUME NEW from, NEW to, NEW gone, RunSwitch(from, to, gone),
         to # NoNode => to \in Node /\ tree.managed[to]
  PROVE  Notes(tree, NoNode, {})
<1>1. /\ tree' = tree /\ removedTargets' = removedTargets
      /\ modifiedTargets' = modifiedTargets \cup ({to} \ {NoNode})
  BY DEF RunSwitch
<1>2. \A x \in Reported' \ Reported : x \in Node /\ tree.managed[x]
  BY <1>1 DEF Reported
<1> QED
  BY <1>1, <1>2 DEF Notes

LEMMA ForwardNotes ==
  ASSUME NEW c \in Command, NEW gone, RunRedo(c, gone),
         NEW u, u = Redone(tree, c), Step(tree, u, c.ins, c.rem), Touches(c, tree, u)
  PROVE  Notes(u, c.target, BelowSlot(tree, c.rem))
<1>1. CASE c.kind = "target"
  <2>1. RunSwitch(c.from, c.to, gone) /\ u = tree
    BY <1>1, TargetKeepsTree DEF RunRedo
  <2>2. c.to # NoNode => c.to \in Node /\ tree.managed[c.to]
    BY <1>1 DEF Touches
  <2>3. c.target = NoNode /\ c.rem = NoNode
    BY <1>1 DEF Touches, NodeOwning
  <2>4. BelowSlot(tree, c.rem) = {}
    BY <2>3 DEF BelowSlot
  <2>5. Notes(tree, NoNode, {})
    BY <2>1, <2>2, SwitchNotes
  <2> QED
    BY <2>1, <2>3, <2>4, <2>5
<1>2. CASE c.kind # "target"
  <2>1. RunEdit(c, u, c.rem, c.ins, 1, gone)
    BY <1>2 DEF RunRedo
  <2>2. /\ c.target \in Node /\ u.managed[c.target] /\ c.tracked /\ u \in Tree
        /\ {c.rem, c.ins} # {NoNode} => NodeOwning(c)
        /\ \A k \in Node \ {c.target} : u.kids[k] = tree.kids[k] /\ u.value[k] = tree.value[k]
    BY <1>2 DEF Touches, Step
  <2>3. /\ BelowSlot(tree, c.rem) = BelowSlot(u, c.rem)
        /\ InTree(tree) \ InTree(u) \subseteq BelowSlot(tree, c.rem)
    BY StepSlots
  <2>4. c.rem \in Node \cup {NoNode}
    BY DEF Command
  <2> QED
    BY <2>1, <2>2, <2>3, <2>4, EditNotes
<1> QED
  BY <1>1, <1>2

LEMMA BackwardNotes ==
  ASSUME NEW c \in Command, NEW gone, RunUndo(c, gone),
         NEW b, b = Undone(tree, c), Step(b, tree, c.ins, c.rem), Touches(c, b, tree)
  PROVE  Notes(b, c.target, BelowSlot(b, c.ins))
<1>1. CASE c.kind = "target"
  <2>1. RunSwitch(c.to, c.from, gone) /\ b = tree
    BY <1>1, TargetKeepsTree DEF RunUndo
  <2>2. c.from # NoNode => c.from \in Node /\ tree.managed[c.from]
    BY <1>1 DEF Touches
  <2>3. c.target = NoNode /\ c.ins = NoNode
    BY <1>1 DEF Touches, NodeOwning
  <2>4. BelowSlot(b, c.ins) = {}
    BY <2>3 DEF BelowSlot
  <2>5. Notes(tree, NoNode, {})
    BY <2>1, <2>2, SwitchNotes
  <2> QED
    BY <2>1, <2>3, <2>4, <2>5
<1>2. CASE c.kind # "target"
  <2>1. RunEdit(c, b, c.ins, c.rem, -1, gone)
    BY <1>2 DEF RunUndo
  <2>2. /\ c.target \in Node /\ b.managed[c.target] /\ c.tracked /\ b \in Tree
        /\ {c.ins, c.rem} # {NoNode} => NodeOwning(c)
        /\ \A k \in Node \ {c.target} : b.kids[k] = tree.kids[k] /\ b.value[k] = tree.value[k]
    BY <1>2 DEF Touches, Step
  <2>3. InTree(tree) \ InTree(b) \subseteq BelowSlot(b, c.ins)
    BY StepSlots
  <2>4. c.ins \in Node \cup {NoNode}
    BY DEF Command
  <2> QED
    BY <2>1, <2>2, <2>3, <2>4, EditNotes
<1> QED
  BY <1>1, <1>2

LEMMA NotedPrimed ==
  ASSUME NEW v, NEW n, NEW Out, Notes(v, n, Out), NEW b, Noted(b), base' = b
  PROVE  Noted(base)'
<1>1. tree' = v
  BY DEF Notes
<1> QED
  BY <1>1, NotedAfter DEF Noted

(* Undo and redo delete nothing, and note only nodes that are not deleted. *)
LEMMA TravelReports ==
  ASSUME RInv, ~closed, pos # goal, NEW v, NEW n, NEW Out, Notes(v, n, Out),
         Out \cap freed = {}, InTree(v) \cap freed = {},
         UNCHANGED <<freed, goal, flags, base>>
  PROVE  Reports'
<1>1. /\ modificationInProgress /\ performedUndoRedo /\ ~pushedNewCommandsOnTheStack
      /\ Noted(base) /\ Reported \subseteq Node \ freed
  BY DEF RInv, Reports
<1>2. PICK b : b = base
  OBVIOUS
<1>3. Noted(base)'
  BY <1>1, <1>2, NotedPrimed
<1>4. \A x \in Reported' \ Reported : x \in Node /\ x \notin freed
  BY DEF Notes, InTree
<1>5. Reported' \subseteq Node \ freed'
  BY <1>1, <1>4
<1>6. modificationInProgress' /\ performedUndoRedo' /\ ~pushedNewCommandsOnTheStack'
  BY <1>1 DEF flags
<1> QED
  BY <1>3, <1>5, <1>6 DEF Reports

LEMMA AliveTrees ==
  ASSUME OInv, ~closed, NEW q \in 0..Len(commands)
  PROVE  InTree(At(past, q)) \cap freed = {}
<1>1. Hist(commands, past, joined, freed)
  BY OFacts
<1> QED
  BY <1>1 DEF Hist, NothingDead, InTree

LEMMA UndoCommandReports ==
  ASSUME RInv, UndoCommand PROVE Reports'
<1>1. OInv /\ ~closed /\ pos > goal
  BY DEF UndoCommand, RInv
<1>2. ~fault' /\ IInv /\ TypeOK /\ Hist(commands, past, joined, freed) /\ tree = At(past, pos)
  BY <1>1, OFacts, UndoCommandOwnership
<1>3. pos \in 1..Len(commands) /\ pos \in 0..Len(commands) /\ pos - 1 \in 0..Len(commands) /\ pos # goal
  BY <1>1, <1>2 DEF TypeOK
<1>4. PICK c \in Command : c = commands[pos]
  BY <1>2, <1>3 DEF TypeOK
<1>5. RunUndo(c, {}) /\ UNCHANGED <<freed, goal, flags, base>>
  BY <1>2, <1>4 DEF UndoCommand, Crash, flags
<1>6. PICK b : b = At(past, pos - 1)
  OBVIOUS
<1>7. Step(b, tree, c.ins, c.rem) /\ Touches(c, b, tree)
  BY <1>2, <1>3, <1>4, <1>6 DEF Hist, CommandsLead, Leads
<1>8. b = Undone(tree, c)
  BY <1>2, <1>3, <1>4, <1>6 DEF IInv, PastReversible, Reversible, At
<1>9. Notes(b, c.target, BelowSlot(b, c.ins))
  BY <1>5, <1>7, <1>8, BackwardNotes
<1>10. InTree(tree) \cap freed = {} /\ InTree(b) \cap freed = {}
  BY <1>1, <1>2, <1>3, <1>6, AliveTrees
<1>11. BelowSlot(b, c.ins) \subseteq InTree(tree)
  BY <1>7, StepSlots
<1>12. BelowSlot(b, c.ins) \cap freed = {}
  BY <1>10, <1>11
<1> QED
  BY <1>1, <1>3, <1>5, <1>9, <1>10, <1>12, TravelReports

LEMMA RedoCommandReports ==
  ASSUME RInv, RedoCommand PROVE Reports'
<1>1. OInv /\ ~closed /\ pos < goal
  BY DEF RedoCommand, RInv
<1>2. ~fault' /\ IInv /\ TypeOK /\ Hist(commands, past, joined, freed) /\ tree = At(past, pos)
  BY <1>1, OFacts, RedoCommandOwnership
<1> DEFINE q == pos + 1
<1>3. /\ q \in 1..Len(commands) /\ q - 1 = pos /\ q \in 0..Len(commands)
      /\ pos \in 0..Len(commands) /\ pos # goal
  BY <1>1, <1>2 DEF TypeOK
<1>4. PICK c \in Command : c = commands[pos + 1]
  BY <1>2, <1>3 DEF TypeOK
<1>5. RunRedo(c, {}) /\ UNCHANGED <<freed, goal, flags, base>>
  BY <1>2, <1>4 DEF RedoCommand, Crash, flags
<1>6. PICK a : a = At(past, q)
  OBVIOUS
<1>7. Step(tree, a, c.ins, c.rem) /\ Touches(c, tree, a)
  BY <1>2, <1>3, <1>4, <1>6 DEF Hist, CommandsLead, Leads
<1>8. a = Redone(tree, c)
  BY <1>2, <1>3, <1>4, <1>6 DEF IInv, PastReversible, Reversible, At
<1>9. Notes(a, c.target, BelowSlot(tree, c.rem))
  BY <1>5, <1>7, <1>8, ForwardNotes
<1>10. InTree(tree) \cap freed = {} /\ InTree(a) \cap freed = {}
  BY <1>1, <1>2, <1>3, <1>6, AliveTrees
<1>11. BelowSlot(tree, c.rem) \cap freed = {}
  <2>1. BelowSlot(tree, c.rem) \subseteq InTree(tree)
    BY <1>7, StepSlots
  <2> QED
    BY <1>10, <2>1
<1> QED
  BY <1>1, <1>3, <1>5, <1>9, <1>10, <1>11, TravelReports

(* What the stack looks like after a command is pushed. *)
LEMMA PushedStack ==
  ASSUME OInv, ~closed, NEW c \in Command, Push(c), ~fault'
  PROVE  /\ pos' = pos + 1 /\ goal' = pos' /\ pushedNewCommandsOnTheStack'
         /\ performedUndoRedo' = performedUndoRedo
         /\ commands'[pos + 1] = c /\ \A i \in 1..pos : commands'[i] = commands[i]
         /\ pos \in Nat /\ LastEnd' \in 0..pos
         /\ pushedNewCommandsOnTheStack => LastEnd' = LastEnd
<1>1. IInv /\ TypeOK /\ Len(commands) \in Nat /\ pos \in 0..Len(commands)
  BY OFacts
<1>2. /\ commands' = Append(SubSeq(commands, 1, pos), c) /\ pos' = pos + 1 /\ goal' = pos + 1
      /\ pushedNewCommandsOnTheStack' /\ performedUndoRedo' = performedUndoRedo
      /\ \E k \in 0..Len(ends) :
           /\ \A j \in DOMAIN ends : ends[j] <= pos <=> j <= k
           /\ ends' = SubSeq(ends, 1, k)
  BY DEF Push, Crash
<1>3. commands'[pos + 1] = c /\ \A i \in 1..pos : commands'[i] = commands[i]
  BY <1>1, <1>2, CutAppend DEF TypeOK
<1>4. PICK k \in 0..Len(ends) : /\ \A j \in DOMAIN ends : ends[j] <= pos <=> j <= k
                                /\ ends' = SubSeq(ends, 1, k)
  BY <1>2
<1>5. ends \in Seq(Nat) /\ Len(ends) \in Nat
  BY <1>1 DEF TypeOK
<1>6. ends' \in Seq(Nat) /\ Len(ends') = k /\ \A i \in 1..k : ends'[i] = ends[i]
  BY <1>4, <1>5, SubSeqProperties
<1>7. LastEnd' = IF ends' = <<>> THEN 0 ELSE ends'[k]
  BY <1>6 DEF LastEnd, Last
<1>8. LastEnd' \in 0..pos
  <2>1. CASE k = 0
    BY <1>1, <1>6, <1>7, <2>1
  <2>2. CASE k # 0
    <3>1. k \in 1..k /\ k \in DOMAIN ends /\ k \in 1..Len(ends)
      BY <1>5, <2>2
    <3>2. ends'[k] = ends[k] /\ ends[k] <= pos /\ ends[k] \in Nat
      BY <1>4, <1>5, <1>6, <3>1
    <3> QED
      BY <1>1, <1>7, <3>2
  <2> QED
    BY <2>1, <2>2
<1>9. ASSUME pushedNewCommandsOnTheStack PROVE LastEnd' = LastEnd
  <2>1. pos = Len(commands)
    BY <1>1, <1>9 DEF IInv, TopWhilePushing
  <2>2. \A j \in DOMAIN ends : j <= k
    BY <1>1, <1>4, <2>1 DEF IInv, MacrosOrdered
  <2>3. k = Len(ends)
    <3>1. Len(ends) # 0 => Len(ends) \in DOMAIN ends
      BY <1>5
    <3> QED
      BY <1>5, <2>2, <3>1
  <2>4. ends' = ends
    BY <1>5, <1>6, <2>3
  <2> QED
    BY <2>4 DEF LastEnd
<1> QED
  BY <1>1, <1>2, <1>3, <1>8, <1>9

LEMMA PushReports ==
  ASSUME RInv, ~closed, NEW c \in Command, Push(c), Recordable(tree, c),
         NEW u, u = Redone(tree, c), Step(tree, u, c.ins, c.rem), Touches(c, tree, u),
         c.ins \notin joined,
         NEW b, Noted(b), base' = b, modificationInProgress', ~performedUndoRedo
  PROVE  Reports'
<1>1. OInv /\ Reports
  BY DEF RInv
<1>2. ~fault'
  BY <1>1, PushOwnership
<1>3. /\ IInv /\ TypeOK /\ tree \in Tree /\ WellFormed(tree)
      /\ Hist(commands, past, joined, freed) /\ tree = At(past, pos)
      /\ Len(commands) \in Nat /\ pos \in 0..Len(commands)
  BY <1>1, OFacts
<1>4. /\ pos' = pos + 1 /\ goal' = pos' /\ pushedNewCommandsOnTheStack'
      /\ ~performedUndoRedo'
      /\ commands'[pos + 1] = c /\ \A i \in 1..pos : commands'[i] = commands[i]
      /\ pos \in Nat /\ LastEnd' \in 0..pos
      /\ pushedNewCommandsOnTheStack => LastEnd' = LastEnd
  BY <1>1, <1>2, PushedStack
<1>5. PICK gone : RunRedo(c, gone)
  BY <1>2 DEF Push, Crash
<1> DEFINE Out == BelowSlot(tree, c.rem)
<1>6. Notes(u, c.target, Out)
  BY <1>5, ForwardNotes
<1>7. Noted(base)' /\ tree' = u
  BY <1>6, NotedPrimed DEF Notes
<1>8. ASSUME NEW x \in Out PROVE x \in Node /\ Recent(x)'
  <2>1. c.rem # NoNode /\ x \in Below(tree, c.rem) /\ c.rem \in Node
    BY <1>8 DEF BelowSlot, Command
  <2>2. x \in Below(u, c.rem) /\ x \in Node
    BY <2>1, BelowClosed DEF Step
  <2>3. NodeOwning(c) /\ c.tracked
    BY <2>1 DEF Touches
  <2>4. ~(pos + 1 > pos + 1) /\ pos + 1 \in (LastEnd' + 1)..(pos + 1)
    BY <1>4
  <2>5. Owned(commands', pos + 1, pos + 1) = c.rem
    BY <1>4, <2>3, <2>4 DEF Owned
  <2> QED
    BY <1>4, <1>7, <2>1, <2>2, <2>4, <2>5 DEF Recent
<1>9. ASSUME pushedNewCommandsOnTheStack, NEW x, Recent(x) PROVE Recent(x)'
  <2>1. PICK i \in (LastEnd + 1)..pos :
           Owned(commands, pos, i) # NoNode /\ x \in Below(tree, Owned(commands, pos, i))
    BY <1>9 DEF Recent
  <2>2. LastEnd' = LastEnd /\ i \in 1..pos /\ i \in 1..Len(commands) /\ i \in (LastEnd' + 1)..(pos + 1)
    BY <1>3, <1>4, <1>9, <2>1
  <2>3. PICK m : m = Owned(commands, pos, i)
    OBVIOUS
  <2>4. m \in Node /\ ~tree.managed[m]
    BY <1>3, <2>1, <2>2, <2>3 DEF Hist, OwnedApart
  <2>5. Below(u, m) = Below(tree, m)
    BY <2>4 DEF Step
  <2>6. Owned(commands', pos + 1, i) = m
    <3>1. ~(i > pos) /\ ~(i > pos + 1) /\ commands'[i] = commands[i]
      BY <1>3, <1>4, <2>2
    <3> QED
      BY <2>3, <3>1 DEF Owned
  <2> QED
    BY <1>4, <1>7, <2>1, <2>2, <2>3, <2>5, <2>6 DEF Recent
<1>10. ASSUME NEW x \in Reported' PROVE x \in Node /\ (tree'.managed[x] \/ Recent(x)')
  <2>1. CASE x \notin Reported
    BY <1>6, <1>7, <1>8, <2>1 DEF Notes
  <2>2. CASE x \in Reported
    <3>1. pushedNewCommandsOnTheStack
      BY <1>1, <2>2 DEF Reports
    <3>2. x \in Node /\ (tree.managed[x] \/ Recent(x))
      BY <1>1, <2>2, <3>1 DEF Reports
    <3>3. CASE Recent(x)
      BY <1>9, <3>1, <3>2, <3>3
    <3>4. CASE tree.managed[x]
      <4>1. u.managed[x] \/ x \in Out
        BY <3>2, <3>4 DEF Step
      <4> QED
        BY <1>7, <1>8, <3>2, <4>1
    <3> QED
      BY <3>2, <3>3, <3>4
  <2> QED
    BY <2>1, <2>2
<1> QED
  BY <1>4, <1>7, <1>10 DEF Reports

LEMMA RecordedReports ==
  ASSUME OnlyNewNodes, RInv, Recorded
  PROVE  Reports'
<1>1. PICK c : /\ Execute(c) /\ c.kind # "target"
               /\ tree.managed[c.target] => Recordable(tree, c)
               /\ c.ins # NoNode => c.ins \in Insertable(c.target)
  BY DEF Recorded
<1>2. /\ OInv /\ tree.managed[c.target] /\ MayPush /\ Push(c)
      /\ UNCHANGED <<modificationInProgress, base>>
  BY <1>1 DEF Execute, Record, OnlyNewNodes, RInv
<1>3. /\ ~closed /\ Recordable(tree, c) /\ c \in Command
      /\ modificationInProgress /\ ~performedUndoRedo
  BY <1>1, <1>2 DEF MayPush, Idle, Recordable
<1>4. TypeOK /\ tree \in Tree /\ WellFormed(tree)
  BY <1>2, <1>3, OFacts
<1>5. c.ins \notin joined
  BY <1>1, <1>4, NoNodeAssumption DEF Insertable, OnlyNewNodes, TypeOK
<1>6. Step(tree, Redone(tree, c), c.ins, c.rem) /\ Touches(c, tree, Redone(tree, c))
  BY <1>1, <1>3, <1>4, EditStep
<1>7. Noted(base)
  BY <1>3 DEF RInv, Reports
<1>8. PICK b : b = base
  OBVIOUS
<1>9. Noted(b) /\ base' = b /\ modificationInProgress'
  BY <1>2, <1>3, <1>7, <1>8
<1> QED
  BY <1>2, <1>3, <1>5, <1>6, <1>9, PushReports

LEMMA TargetReports ==
  ASSUME RInv, NEW n \in Node, BeginModificationAt(n) \/ ChangeModificationTarget(n)
  PROVE  Reports'
<1>1. OInv /\ Reports /\ ~closed /\ tree.managed[n] /\ Push(SwitchCommand(n))
  BY DEF BeginModificationAt, ChangeModificationTarget, MayPush, Idle, RInv
<1>2. PICK c : c = SwitchCommand(n)
  OBVIOUS
<1>3. /\ c \in Command /\ Recordable(tree, c) /\ Redone(tree, c) = tree
      /\ Step(tree, tree, c.ins, c.rem) /\ Touches(c, tree, tree) /\ c.ins \notin joined
  BY <1>1, <1>2, SwitchStep
<1>4. PICK b : b = base'
  OBVIOUS
<1>5. modificationInProgress' /\ ~performedUndoRedo /\ Noted(b)
  <2>1. CASE BeginModificationAt(n)
    <3>1. b = tree /\ ~modificationInProgress /\ modificationInProgress'
      BY <1>4, <2>1 DEF BeginModificationAt
    <3> QED
      BY <1>1, <3>1 DEF Reports, Noted
  <2>2. CASE ChangeModificationTarget(n)
    <3>1. b = base /\ modificationInProgress /\ modificationInProgress' /\ ~performedUndoRedo
      BY <1>4, <2>2 DEF ChangeModificationTarget, MayPush
    <3> QED
      BY <1>1, <3>1 DEF Reports
  <2> QED
    BY <2>1, <2>2
<1> QED
  BY <1>1, <1>2, <1>3, <1>4, <1>5, PushReports

(* endModification deletes only what the oldest macro, an earlier one, keeps. *)
LEMMA ReportedLive ==
  ASSUME RInv, ~closed, EndMacro, pushedNewCommandsOnTheStack, ~fault'
  PROVE  freed' \cap Reported = {}
<1>1. OInv /\ Reports
  BY DEF RInv
<1>2. /\ IInv /\ TypeOK /\ tree \in Tree /\ WellFormed(tree)
      /\ Hist(commands, past, joined, freed) /\ tree = At(past, pos)
      /\ Len(commands) \in Nat /\ pos \in 0..Len(commands) /\ pos = Len(commands)
  BY <1>1, OFacts DEF IInv, TopWhilePushing
<1>3. PICK c : c = SwitchCommand(NoNode)
  OBVIOUS
<1>4. PICK cs : cs = Append(commands, c)
  OBVIOUS
<1>5. PICK es : es = Append(ends, Len(cs))
  OBVIOUS
<1>6. PICK drop : drop = IF Len(es) > UndoLimit THEN es[1] ELSE 0
  OBVIOUS
<1>7. freed' = freed \cup Deleted(cs, Len(cs), 1..drop)
  BY <1>3, <1>4, <1>5, <1>6 DEF EndMacro, Crash
<1>8. c \in Command /\ commands \in Seq(Command) /\ ends \in Seq(Nat)
  BY <1>1, <1>2, <1>3, SwitchStep DEF TypeOK
<1>9. Len(cs) = pos + 1 /\ \A i \in 1..pos : cs[i] = commands[i]
  BY <1>2, <1>4, <1>8, AppendProperties
<1>10. drop \in Nat /\ drop <= LastEnd /\ LastEnd \in 0..pos
  <2>1. Len(ends) \in Nat /\ Len(es) = Len(ends) + 1 /\ \A i \in 1..Len(ends) : es[i] = ends[i]
    BY <1>5, <1>8, <1>9, AppendProperties
  <2>2. UndoLimit \in Nat \ {0}
    BY ConstantsAssumption
  <2>3. CASE Len(ends) = 0
    <3>1. ~(Len(es) > UndoLimit) /\ ends = <<>>
      BY <1>8, <2>1, <2>2, <2>3
    <3> QED
      BY <1>2, <1>6, <3>1 DEF LastEnd
  <2>4. CASE Len(ends) # 0
    <3>1. 1 \in DOMAIN ends /\ Len(ends) \in DOMAIN ends /\ 1 \in 1..Len(ends) /\ 1 <= Len(ends)
      BY <1>8, <2>1, <2>4
    <3>2. LastEnd = ends[Len(ends)]
      BY <1>8, <3>1 DEF LastEnd, Last
    <3>3. ends[1] <= ends[Len(ends)] /\ ends[Len(ends)] <= pos
      BY <1>2, <3>1 DEF IInv, MacrosOrdered
    <3>4. ends[1] \in Nat /\ ends[Len(ends)] \in Nat /\ es[1] = ends[1]
      BY <1>8, <2>1, <3>1
    <3> QED
      BY <1>2, <1>6, <3>2, <3>3, <3>4
  <2> QED
    BY <2>3, <2>4
<1>11. ASSUME NEW x \in Reported PROVE x \in Node /\ (tree.managed[x] \/ Recent(x))
  BY <1>1, <1>11 DEF Reports
<1>12. ASSUME NEW x, Recent(x)
       PROVE  \E j \in 1..Len(commands) : j > LastEnd /\ Keeps(commands, past, pos, j, x)
  <2>1. PICK j \in (LastEnd + 1)..pos :
           Owned(commands, pos, j) # NoNode /\ x \in Below(tree, Owned(commands, pos, j))
    BY <1>12 DEF Recent
  <2>2. j \in 1..Len(commands) /\ j > LastEnd
    BY <1>2, <1>10, <2>1
  <2>3. Keeps(commands, past, pos, j, x)
    BY <1>2, <2>1 DEF Keeps
  <2> QED
    BY <2>2, <2>3
<1>13. ASSUME NEW x \in Reported PROVE x \notin freed
  BY <1>2, <1>11, <1>12, <1>13 DEF Hist, NothingDead
<1>14. ASSUME NEW x \in Reported, x \in Deleted(cs, Len(cs), 1..drop) PROVE FALSE
  <2>1. PICK n \in DeletedRoots(cs, Len(cs), 1..drop) : x \in Below(tree, n)
    BY <1>14 DEF Deleted
  <2>2. PICK i \in 1..drop : Owned(cs, Len(cs), i) = n /\ n \in Node /\ ~tree.managed[n]
    BY <2>1 DEF DeletedRoots
  <2>3. i \in 1..pos /\ i \in 1..Len(commands) /\ ~(i > pos) /\ ~(i > pos + 1) /\ i <= LastEnd
    BY <1>2, <1>10
  <2>4. Owned(commands, pos, i) = n
    BY <1>9, <2>2, <2>3 DEF Owned
  <2>5. Keeps(commands, past, pos, i, x)
    BY <1>2, <2>1, <2>2, <2>4, NoNodeAssumption DEF Keeps
  <2>6. ~tree.managed[x]
    BY <1>2, <2>3, <2>5, KeptUnmanaged
  <2>7. PICK j \in 1..Len(commands) : j > LastEnd /\ Keeps(commands, past, pos, j, x)
    BY <1>11, <1>12, <1>14, <2>6
  <2>8. i # j
    BY <1>10, <2>3, <2>7
  <2> QED
    BY <1>2, <2>3, <2>5, <2>7, <2>8, OwnedDisjoint
<1> QED
  BY <1>7, <1>13, <1>14

LEMMA EndModificationReports ==
  ASSUME RInv, EndModification
  PROVE  /\ Reports'
         /\ Noted(base) /\ freed' \cap Reported = {}
<1>1. OInv /\ Reports /\ ~closed /\ ~fault' /\ modificationInProgress /\ pos = goal
  BY EndModificationOwnership DEF EndModification, Idle, RInv
<1>2. ~modificationInProgress' /\ Reported' = {}
  BY <1>1 DEF EndModification, EndMacro, Crash, Reported
<1>3. ~pushedNewCommandsOnTheStack' /\ ~performedUndoRedo' /\ pos' = goal'
  <2>1. CASE pushedNewCommandsOnTheStack
    <3>1. ~Crash /\ EndMacro
      BY <1>1, <2>1 DEF EndModification, Crash
    <3>2. \E cs, drop : /\ ~pushedNewCommandsOnTheStack' /\ ~performedUndoRedo'
                        /\ pos' = Len(cs) - drop /\ goal' = Len(cs) - drop
      BY <3>1 DEF EndMacro
    <3> QED
      BY <3>2
  <2>2. CASE ~pushedNewCommandsOnTheStack
    BY <1>1, <2>2 DEF EndModification, stack
  <2> QED
    BY <2>1, <2>2
<1>4. Reports'
  BY <1>2, <1>3 DEF Reports
<1>5. Noted(base)
  BY <1>1 DEF Reports
<1>6. freed' \cap Reported = {}
  <2>1. CASE pushedNewCommandsOnTheStack
    <3>1. EndMacro
      BY <2>1 DEF EndModification
    <3> QED
      BY <1>1, <2>1, <3>1, ReportedLive
  <2>2. CASE ~pushedNewCommandsOnTheStack
    <3>1. freed' = freed
      BY <2>2 DEF EndModification
    <3> QED
      BY <1>1, <2>2, <3>1 DEF Reports
  <2> QED
    BY <2>1, <2>2
<1> QED
  BY <1>4, <1>5, <1>6

LEMMA OtherReports ==
  ASSUME RInv, ~closed, BeginModification \/ Undo \/ Redo \/ Save
  PROVE  Reports'
<1>1. Reports /\ pos = goal
  BY DEF RInv, BeginModification, Undo, Redo, Save, MayTravel, Idle
<1>2. CASE BeginModification
  <2>1. /\ base' = tree /\ tree' = tree /\ Reported' = {} /\ ~pushedNewCommandsOnTheStack
        /\ ~performedUndoRedo /\ modificationInProgress'
        /\ UNCHANGED <<pos, goal, pushedNewCommandsOnTheStack, performedUndoRedo>>
    BY <1>1, <1>2 DEF BeginModification, Reports, Reported, stack
  <2>2. Noted(base)'
    BY <2>1 DEF Noted
  <2> QED
    BY <1>1, <2>1, <2>2 DEF Reports
<1>3. CASE Undo \/ Redo
  <2>1. /\ UNCHANGED <<tree, base, freed, modifiedTargets, removedTargets, modificationInProgress,
                       pushedNewCommandsOnTheStack>>
        /\ performedUndoRedo' /\ ~pushedNewCommandsOnTheStack /\ modificationInProgress
    BY <1>3 DEF Undo, Redo, MayTravel, notes
  <2>2. Noted(base)' /\ Reported' = Reported
    BY <1>1, <2>1 DEF Reports, Noted, Reported
  <2> QED
    BY <1>1, <2>1, <2>2 DEF Reports
<1>4. CASE Save
  <2>1. /\ ~modificationInProgress /\ UNCHANGED <<freed, pos, goal, flags, notes>>
    BY <1>4 DEF Save, stack
  <2>2. Reported' = Reported
    BY <2>1 DEF Reported, notes
  <2> QED
    BY <1>1, <2>1, <2>2 DEF Reports, flags
<1> QED
  BY <1>2, <1>3, <1>4

(* endModification reports every change, and only nodes that are not deleted. *)
ReportsChanges ==
  EndModification /\ ~fault' =>
    /\ \A n \in InTree(tree) \cap InTree(base) :
         (tree.kids[n] # base.kids[n] \/ tree.value[n] # base.value[n]) => n \in modifiedTargets
    /\ InTree(base) \ InTree(tree) \subseteq removedTargets
    /\ freed' \cap (modifiedTargets \cup removedTargets) = {}

LEMMA NextReports ==
  ASSUME OnlyNewNodes, RInv, [Next]_vars
  PROVE  RInv' /\ ReportsChanges
<1>1. OnlyTreeEdits /\ OInv /\ SInv /\ IInv
  BY DEF OnlyNewNodes, OnlyTreeEdits, RInv, OInv, SInv
<1>2. OInv'
  BY <1>1, NextOwnership
<1>3. ReportsChanges
  BY EndModificationReports DEF ReportsChanges, Noted, Reported, InTree
<1> SUFFICES ~closed' => Reports'
  BY <1>2, <1>3 DEF RInv
<1>4. CASE UNCHANGED vars
  <2>1. UNCHANGED <<tree, freed, closed, commands, ends, pos, goal, flags, notes, base>>
    BY <1>4 DEF vars, stack
  <2>2. (Reported' = Reported) /\ (Noted(base)' <=> Noted(base)) /\ \A x : Recent(x)' <=> Recent(x)
    BY <2>1 DEF Reported, Noted, Recent, LastEnd, notes
  <2> QED
    BY <2>1, <2>2 DEF RInv, Reports, flags
<1>5. CASE BeginModification \/ Undo \/ Redo \/ Save
  <2>1. ~closed
    BY <1>5 DEF BeginModification, Undo, Redo, Save, MayTravel, Idle
  <2> QED
    BY <1>5, <2>1, OtherReports
<1>6. CASE \E n \in Node : BeginModificationAt(n) \/ ChangeModificationTarget(n)
  BY <1>6, TargetReports
<1>7. CASE EndModification
  BY <1>7, EndModificationReports
<1>8. CASE UndoCommand \/ RedoCommand
  BY <1>8, UndoCommandReports, RedoCommandReports
<1>9. CASE \/ \E n, m \in Node : ListInsert(n, m)
           \/ \E n \in Node : ListRemove(n)
           \/ \E n \in Node, m \in Node \cup {NoNode} : CompositeSet(n, m)
  BY <1>1, <1>9, EditRecorded, RecordedReports
<1>10. CASE \E n \in FieldNode, v \in Value : FieldSet(n, v)
  BY <1>1, <1>10, FieldSetRecorded, RecordedReports
<1>11. CASE Close
  BY <1>1, <1>11, CloseOwnership
<1> QED
  BY <1>4, <1>5, <1>6, <1>7, <1>8, <1>9, <1>10, <1>11 DEF Next

(***************************************************************************)
(* nodesModified, emitted by endModification, tells listeners all they     *)
(* must redraw and no node they may not touch: every node of the tree whose *)
(* children or field changed since beginModification is among the modified *)
(* nodes, every node that left the tree among the removed ones, and none   *)
(* of the reported nodes is deleted (NoteNodeChange,                       *)
(* TreeManager::endModification).                                          *)
(***************************************************************************)
THEOREM AllChangesReported ==
  ASSUME OnlyNewNodes PROVE Spec => ChangesReported
<1>1. Init => RInv
  <2>1. ASSUME Init PROVE Reports
    BY <2>1 DEF Init, Reports, Reported
  <2> QED
    BY <2>1, InitOwnership DEF RInv
<1>2. RInv /\ [Next]_vars => RInv' /\ [ReportsChanges]_vars
  BY NextReports
<1> QED
  BY <1>1, <1>2, PTL DEF Spec, ChangesReported, ReportsChanges
=============================================================================
