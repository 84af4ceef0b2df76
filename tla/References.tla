----------------------------- MODULE References -----------------------------
(***************************************************************************)
(* References and the resolution of their names.  A reference keeps the    *)
(* node that it found when it was resolved; what changes the tree has to   *)
(* mark every reference that would now find something else.  Marked        *)
(* references are resolved when a modification ends, and when they are     *)
(* asked for their target before that.                                     *)
(*                                                                         *)
(* The declarations are modules.  A reference stands for an OOReference    *)
(* with its ReferenceExpression, and an import for a NameImport with the   *)
(* reference to the module that it imports.                                *)
(***************************************************************************)
EXTENDS Integers, SequencesExt

CONSTANTS Decl, Ref, Name,
          NoNode,
          Root,          \* the root of the tree
          Prefix,        \* of a reference: the reference before its dot
          ImportOrder,   \* the imports, in the order of the lists they are in
          ImportAll,     \* the imports of all that is in a module
          Cloned,        \* the references that clone() made
          InitParent, InitName, InitTarget,
          NewNames,      \* the names that a node may be given
          Movable,       \* the nodes that are removed and inserted
          Homes,         \* the declarations into which they are inserted
          Asked,         \* the references that are asked for their targets
          MaxChanges,    \* bound: commands in a session
          MaxSessions    \* bound: sessions that can be undone

Node == Decl \cup Ref
Import == Range(ImportOrder)
Dotted == {r \in Ref : Prefix[r] # NoNode}

(* The nodes of X above n in tree p, with n itself: what is in every set    *)
(* that has n and the parents of its members.                               *)
Up(p, X, n) ==
  {m \in X : \A S \in SUBSET X : n \in S /\ (\A c \in S : p[c] \in X => p[c] \in S) => m \in S}

Above(p, d) == Up(p, Decl, d)

(* What reference r is before the dot of, and so on: its whole expression.  *)
Outward(p, r) == Up(p, Ref, r)

Whole(p, r) == CHOOSE q \in Outward(p, r) : p[q] \notin Ref

Scope(p, r) == p[Whole(p, r)]

(* The nodes of the subtree of x. *)
Below(p, x) ==
  IF x \in Decl
    THEN {d \in Decl : x \in Above(p, d)}
         \cup {r \in Ref : Scope(p, r) # NoNode /\ x \in Above(p, Scope(p, r))}
    ELSE {r \in Ref : x \in Outward(p, r)}

(* A tree: parents are declarations, but for prefixes, no node is below    *)
(* itself.                                                                 *)
IsTree(p) ==
  /\ p \in [Node -> Node \cup {NoNode}] /\ p[Root] = NoNode
  /\ \A d \in Decl : p[d] \in Decl \cup {NoNode}
  /\ \A r \in Ref : p[r] \in Ref => Prefix[p[r]] = r
  /\ \A r \in Dotted : p[Prefix[r]] = r
  /\ \A S \in SUBSET Node : S # {} => \E n \in S : p[n] \notin S

ASSUME ReferencesAssumption ==
  /\ Decl \cap Ref = {} /\ NoNode \notin Node /\ Root \in Decl
  /\ Prefix \in [Ref -> Ref \cup {NoNode}]
  /\ ImportOrder \in Seq(Ref) /\ ImportAll \subseteq Import /\ Cloned \subseteq Ref
  /\ Import \cap {Prefix[r] : r \in Dotted} = {}
  /\ IsTree(InitParent)
  /\ InitName \in [Node -> Name] /\ InitTarget \in [Ref -> Decl \cup {NoNode}]
  /\ NewNames \in [Node -> SUBSET Name]
  /\ Movable \subseteq Node \ ({Root} \cup {Prefix[r] : r \in Dotted}) /\ Homes \subseteq Decl
  /\ Asked \subseteq Ref
  /\ MaxChanges \in Nat /\ MaxSessions \in Nat

VARIABLES
  parent, name,
  managed,         \* the nodes whose manager_ is set: those of the tree
  state, target,   \* of a reference
  pending,         \* pendingResolution_
  failed,          \* has an assertion failed?
  astray,          \* history: what was taken out of the tree, and where it was
  misled,          \* history: references that found no target of an import while
                   \* it was resolved, that undo gave another name, or that
                   \* depend on a reference whose name was set, or on an
                   \* import whose name was undone
  at,              \* "idle", in a session "edit", "undo", "redo", or "resolve"
  todo,            \* the references left in this round of resolvePending
  calls,           \* the calls of resolveHelper that have not returned
  history,         \* the commands of the undo stack
  position,        \* the number of commands that are done
  session          \* the number of the present session

tree  == <<parent, name, managed>>
marks == <<state, pending>>
wrong == <<failed, astray, misled>>
stack == <<history, position, session>>
vars  == <<tree, marks, target, wrong, at, todo, calls, stack>>

Named(d, n) == {c \in Decl : parent[c] = d /\ name[c] = n}

-----------------------------------------------------------------------------
(***************************************************************************)
(* Marking references.                                                     *)
(***************************************************************************)
SetResolutionNeeded(R) ==
  /\ state' = [r \in Ref |-> IF r \in R THEN "needed" ELSE state[r]]
  /\ pending' = pending \cup R

(* References of the subtree of x.  Of a root, allReferences_ is searched,  *)
(* which lacks the clones.                                                  *)
ReferencesIn(p, tm, x) ==
  IF p[x] = NoNode THEN {r \in Ref \ Cloned : r \in tm <=> x \in tm}
                   ELSE Ref \cap Below(p, x)

WithNames(p, tm, x, names) == {r \in ReferencesIn(p, tm, x) : name[r] \in names}

Introduced(x) == {name[d] : d \in Decl \cap Below(parent, x)}

(* What unresolveAfterNewSubTree marks, with                                *)
(* unresolveOOReferencesAfterSubTree, when x is in tree p below d.          *)
AfterNewSubTree(p, tm, x, d) ==
  (Ref \cap Below(p, x))
  \cup WithNames(p, tm, Root, Introduced(x))
  \cup (IF x \in Import THEN ReferencesIn(p, tm, d) ELSE {})

(* What depends on reference r is marked: what comes after its dot, or all  *)
(* that may see the import, itself included.                                *)
Dependents(r) ==
  CASE parent[r] \in Ref -> {parent[r]}
    [] r \in Import /\ parent[r] \in Decl -> ReferencesIn(parent, managed, parent[r])
    [] OTHER -> {}

-----------------------------------------------------------------------------
(***************************************************************************)
(* Resolution.  A search goes up from the reference; in each declaration   *)
(* it sees what is declared there and what the imports bring in, of which  *)
(* an import itself sees only those above it.  What comes after a dot is   *)
(* searched in the target of its prefix.  The search asks for the targets  *)
(* of prefixes and imports, which resolves those first: a call has the     *)
(* declaration "place" where its search is, the node "child" from which it *)
(* came there, whom it still asks, and what it found.                      *)
(***************************************************************************)
IsAbove(i, c) == \A k, l \in DOMAIN ImportOrder : ImportOrder[k] = i /\ ImportOrder[l] = c => k < l

(* The imports of d that are asked for n; the list of child c is searched   *)
(* first, and if that has a declaration n, no import.                       *)
Asks(c, d, n) ==
  IF c \in Decl /\ Named(d, n) # {}
    THEN {}
    ELSE {i \in Import : /\ parent[i] = d /\ IsAbove(i, c)
                         /\ (i \in ImportAll \/ name[i] = n)}

(* What an import or prefix i gives for name n, when its target is t. *)
Brings(i, t, n) ==
  CASE t = NoNode -> {}
    [] t # NoNode /\ i \in Import \ ImportAll -> {d \in {t} : name[d] = n}
    [] t # NoNode /\ i \notin Import \ ImportAll -> Named(t, n)

Call(r, indirect) ==
  LET top == Whole(parent, r)
      place == IF r \in Dotted THEN NoNode ELSE parent[top]
  IN  [ref |-> r, indirect |-> indirect, child |-> top, place |-> place,
       asks |-> CASE r \in Dotted -> {Prefix[r]}
                  [] r \notin Dotted /\ place = NoNode -> {}
                  [] r \notin Dotted /\ place # NoNode -> Asks(top, place, name[r]),
       asked |-> NoNode, found |-> {}]

(* resolveHelper(indirect) is called for r. *)
Begin(r, before, indirect) ==
  /\ calls' = Append(before, Call(r, indirect))
  /\ state' = [state EXCEPT ![r] = "resolving"]
  /\ misled' = misled \ {r}
  /\ UNCHANGED pending

Top == Last(calls)

(* Those that need to be resolved before they answer. *)
Waiting(call) == {i \in call.asks : state[i] = "needed" /\ i # call.asked}

(* What those in I give. *)
Given(call, I) ==
  LET Answer(i) == IF state[i] = "established" THEN target[i] ELSE NoNode
  IN  UNION {Brings(i, Answer(i), name[call.ref]) : i \in I}

(* Reference::target, of the next reference that the search asks and that   *)
(* needs to be resolved; those before it answered.                          *)
Ask ==
  /\ calls # <<>> /\ ~failed
  /\ \E i \in Waiting(Top) :
       /\ \A j \in Waiting(Top) \ {i} : IsAbove(i, j)
       /\ LET before == {j \in Top.asks \ {i} : IsAbove(j, i)}
              call == [Top EXCEPT !.asks = @ \ before, !.asked = i,
                                  !.found = @ \cup Given(Top, before)]
          IN  Begin(i, Append(Front(calls), call), TRUE)
  /\ UNCHANGED <<tree, target, failed, astray, at, todo, stack>>

(* What there is named n in d, where the imports brought found: the list of *)
(* the child is searched first.                                             *)
Seen(c, d, n, found) ==
  CASE d = NoNode \/ (c \in Import /\ found # {}) -> found
    [] d # NoNode /\ ~(c \in Import /\ found # {}) ->
         IF found \cup Named(d, n) = {} /\ name[d] = n THEN {d} ELSE found \cup Named(d, n)

SeenBy(call) ==
  Seen(call.child, call.place, name[call.ref], call.found \cup Given(call, call.asks))

GoesUp == SeenBy(Top) = {} /\ Top.place # NoNode /\ parent[Top.place] # NoNode

Climb ==
  /\ calls # <<>> /\ ~failed
  /\ Waiting(Top) = {} /\ GoesUp
  /\ LET d == parent[Top.place]
     IN  calls' = Append(Front(calls),
                         [Top EXCEPT !.child = Top.place, !.place = d,
                                     !.asks = Asks(Top.place, d, name[Top.ref]), !.asked = NoNode])
  /\ UNCHANGED <<tree, marks, target, wrong, at, todo, stack>>

Only(candidates) ==
  IF \E d \in candidates : candidates = {d} THEN CHOOSE d \in candidates : TRUE ELSE NoNode

(* A mistake: every result counts as a change. *)
Changed_Always(r, found) == TRUE

Changed(r, found) == found # target[r]

(* computeTarget returns; the rest of resolveHelper.  Whom an import marks  *)
(* while it is being resolved takes the import to have no target.  The      *)
(* import is expected to be in a list.                                      *)
Return ==
  /\ calls # <<>> /\ ~failed
  /\ Waiting(Top) = {} /\ ~GoesUp
  /\ LET r == Top.ref
         found == Only(SeenBy(Top))
         final == found # NoNode \/ ~Top.indirect
         marked == IF Changed(r, found) THEN Dependents(r) ELSE {}
     IN  /\ target' = [target EXCEPT ![r] = found]
         /\ state' = [q \in Ref |-> CASE q \in marked -> "needed"
                                      [] q \notin marked /\ q # r -> state[q]
                                      [] q \notin marked /\ q = r ->
                                           IF final THEN "established" ELSE "needed"]
         /\ pending' = (IF final THEN pending \ {r} ELSE pending) \cup marked
         /\ misled' = IF r \in Import /\ marked # {}
                        THEN misled \cup {c.ref : c \in Range(Front(calls))} ELSE misled
         /\ failed' = (Changed(r, found) /\ r \in Import /\ parent[r] = NoNode)
  /\ calls' = Front(calls)
  /\ UNCHANGED <<tree, astray, at, todo, stack>>

-----------------------------------------------------------------------------
(***************************************************************************)
(* What references mean: what a search for r finds now, when it takes      *)
(* prefixes and imports to be right.                                       *)
(***************************************************************************)
Find(r) ==
  LET n == name[r]
      top == Whole(parent, r)
      scopes == IF parent[top] = NoNode THEN {} ELSE Above(parent, parent[top])
      Child(d) == CHOOSE c \in scopes \cup {top} : parent[c] = d
      In(d) == Seen(Child(d), d, n,
                    UNION {Brings(i, target[i], n) : i \in Asks(Child(d), d, n)})
      hits == {d \in scopes : In(d) # {}}
  IN  IF r \in Dotted THEN Brings(Prefix[r], target[Prefix[r]], n)
                      ELSE UNION {In(d) : d \in {e \in hits : hits \subseteq Above(parent, e)}}

IsRight(r) == target[r] = Only(Find(r))

-----------------------------------------------------------------------------
(***************************************************************************)
(* Commands, done and undone.                                              *)
(***************************************************************************)
Command(what, x, old, new) ==
  [what |-> what, node |-> x, old |-> old, new |-> new, session |-> session]

Undone(c) == [c EXCEPT !.old = c.new, !.new = c.old]

(* A mistake: the old name is not looked for. *)
SetName_New(x, old, new) ==
  /\ name' = [name EXCEPT ![x] = new]
  /\ SetResolutionNeeded(IF x \in Decl \cap managed
                          THEN WithNames(parent, managed, Root, {new}) ELSE {})
  /\ UNCHANGED <<parent, managed, astray>>

(* NameChange of a declaration, FieldSet of a reference. *)
SetNameField(x, old, new) ==
  /\ name' = [name EXCEPT ![x] = new]
  /\ SetResolutionNeeded(IF x \in Decl \cap managed
                          THEN WithNames(parent, managed, Root, {old, new}) ELSE {})
  /\ UNCHANGED <<parent, managed, astray>>

(* ListInsert and ListRemove, and what setParent does.  The history keeps   *)
(* what was taken from where, until it is there again; for a declaration,   *)
(* until it is anywhere in the tree.                                        *)
SetParent(x, old, new) ==
  LET p == [parent EXCEPT ![x] = new]
      tm == IF new \in managed THEN managed \cup Below(parent, x) ELSE managed \ Below(parent, x)
  IN  /\ parent' = p /\ managed' = tm
      /\ SetResolutionNeeded(IF x \in tm THEN AfterNewSubTree(p, tm, x, new) ELSE {})
      /\ astray' = IF x \in tm
                     THEN {a \in astray : a[1] # x \/ (x \in Import /\ a[2] # new)}
                     ELSE IF x \in Decl \cup Import THEN astray \cup {<<x, old>>} ELSE astray
      /\ UNCHANGED name

Perform(c) == IF c.what = "name" THEN SetNameField(c.node, c.old, c.new)
                                 ELSE SetParent(c.node, c.old, c.new)

-----------------------------------------------------------------------------
(* A tree that was loaded and resolved; of the nodes that are not in it the *)
(* constructors left their references pending.                              *)
Init ==
  /\ parent = InitParent /\ name = InitName /\ managed = Below(InitParent, Root)
  /\ state = [r \in Ref |-> IF r \in managed THEN "established" ELSE "needed"]
  /\ pending = Ref \ managed
  /\ target = InitTarget
  /\ \A r \in Ref \cap managed : IsRight(r)
  /\ failed = FALSE /\ astray = {} /\ misled = {}
  /\ at = "idle" /\ todo = {} /\ calls = <<>>
  /\ history = <<>> /\ position = 0 /\ session = 0

LastSession == IF position = 0 THEN 0 ELSE history[position].session

BeginModification ==
  /\ at = "idle" /\ calls = <<>> /\ ~failed
  /\ LastSession < MaxSessions
  /\ at' = "edit" /\ session' = LastSession + 1
  /\ UNCHANGED <<tree, marks, target, wrong, todo, calls, history, position>>

(* Command c is put on the stack, and the commands that were undone are     *)
(* dropped.                                                                 *)
Execute(c) ==
  /\ at = "edit" /\ calls = <<>> /\ ~failed
  /\ Cardinality({k \in 1..position : history[k].session = session}) < MaxChanges
  /\ history' = Append(SubSeq(history, 1, position), c)
  /\ position' = position + 1
  /\ UNCHANGED <<failed, at, todo, calls, session>>

(* NameText::set, for the name of a declaration *)
Rename(d) ==
  /\ d \in managed
  /\ \E n \in NewNames[d] \ {name[d]} :
       LET c == Command("name", d, name[d], n) IN Execute(c) /\ Perform(c)
  /\ UNCHANGED <<target, misled>>

(* Reference::setName.  The target goes at once: when nothing has the new   *)
(* name, nothing changes any more, and what depends on r is not marked.     *)
SetName(r) ==
  /\ r \in managed
  /\ \E n \in NewNames[r] \ {name[r]} :
       /\ Execute(Command("name", r, name[r], n))
       /\ name' = [name EXCEPT ![r] = n]
  /\ target' = [target EXCEPT ![r] = NoNode]
  /\ misled' = misled \cup Dependents(r)
  /\ SetResolutionNeeded({r})
  /\ UNCHANGED <<parent, managed, astray>>

RemoveNode(x) ==
  /\ x \in Movable \cap managed
  /\ LET c == Command("parent", x, parent[x], NoNode) IN Execute(c) /\ Perform(c)
  /\ UNCHANGED <<target, misled>>

InsertNode(x) ==
  /\ x \in Movable /\ parent[x] = NoNode
  /\ \E d \in Homes \cap managed :
       LET c == Command("parent", x, NoNode, d) IN Execute(c) /\ Perform(c)
  /\ UNCHANGED <<target, misled>>

(* Reference::target, of a reference that is shown or asked for its type. *)
AskTarget(r) ==
  /\ at \in {"idle", "edit"} /\ calls = <<>> /\ ~failed
  /\ r \in Asked /\ state[r] = "needed"
  /\ Begin(r, <<>>, TRUE)
  /\ UNCHANGED <<tree, target, failed, astray, at, todo, stack>>

(* endModification; some clients do without resolvePending. *)
EndModification(tryResolvingReferences) ==
  /\ at = "edit" /\ calls = <<>> /\ ~failed
  /\ IF LastSession = session /\ tryResolvingReferences
       THEN at' = "resolve" /\ todo' = pending
       ELSE at' = "idle" /\ UNCHANGED todo
  /\ UNCHANGED <<tree, marks, target, wrong, calls, stack>>

(* r->resolve(), in the order of a hash *)
ResolveNext ==
  /\ at = "resolve" /\ calls = <<>> /\ ~failed
  /\ \E r \in todo :
       /\ todo' = todo \ {r}
       /\ IF state[r] = "needed" THEN Begin(r, <<>>, FALSE)
                                 ELSE UNCHANGED <<calls, marks, misled>>
  /\ UNCHANGED <<tree, target, failed, astray, at, stack>>

(* A mistake: what became pending meanwhile is left. *)
NextRound_Once ==
  /\ at = "resolve" /\ todo = {} /\ calls = <<>> /\ ~failed
  /\ at' = "idle"
  /\ UNCHANGED <<tree, marks, target, wrong, todo, calls, stack>>

(* What the last round marked is resolved in another one. *)
NextRound ==
  /\ at = "resolve" /\ todo = {} /\ calls = <<>> /\ ~failed
  /\ todo' = pending
  /\ at' = IF pending = {} THEN "idle" ELSE at
  /\ UNCHANGED <<tree, marks, target, wrong, calls, stack>>

(* Undo and redo of a session, command by command.  The undo of             *)
(* Reference::setName restores nothing but the name, and marks nothing: not *)
(* the reference, nor those that the import may give something else now.    *)
Replay(c) ==
  /\ calls = <<>> /\ ~failed
  /\ Perform(c)
  /\ misled' = IF c.what = "name" /\ c.node \in Ref
                 THEN misled \cup {c.node} \cup (IF c.node \in Import THEN Dependents(c.node) ELSE {})
                 ELSE misled
  /\ UNCHANGED <<target, failed, todo, calls, history, session>>

(* Do the commands at i and j belong together? *)
SameSession(i, j) == {i, j} \subseteq DOMAIN history /\ history[i].session = history[j].session

UndoCommand ==
  /\ at \in {"idle", "undo"} /\ position > 0
  /\ Replay(Undone(history[position]))
  /\ position' = position - 1
  /\ at' = IF SameSession(position - 1, position) THEN "undo" ELSE "idle"

RedoCommand ==
  /\ at \in {"idle", "redo"} /\ position < Len(history)
  /\ Replay(history[position + 1])
  /\ position' = position + 1
  /\ at' = IF SameSession(position + 1, position + 2) THEN "redo" ELSE "idle"

Next ==
  \/ BeginModification
  \/ \E d \in Decl : Rename(d)
  \/ \E r \in Ref : SetName(r) \/ AskTarget(r)
  \/ \E x \in Node : RemoveNode(x) \/ InsertNode(x)
  \/ \E tryResolvingReferences \in BOOLEAN : EndModification(tryResolvingReferences)
  \/ ResolveNext \/ NextRound
  \/ Ask \/ Climb \/ Return
  \/ UndoCommand \/ RedoCommand

Resolving == ResolveNext \/ NextRound \/ Ask \/ Climb \/ Return

(* The loops of resolvePending run to their ends. *)
Spec == Init /\ [][Next]_vars /\ WF_vars(Resolving)

-----------------------------------------------------------------------------
Commands ==
  [what : {"name"}, node : Node, old : Name, new : Name, session : Nat]
  \cup [what : {"parent"}, node : Movable, old : Decl \cup {NoNode}, new : Decl \cup {NoNode},
        session : Nat]

Calls ==
  [ref : Ref, indirect : BOOLEAN, child : Node, place : Decl \cup {NoNode}, asks : SUBSET Ref,
   asked : Ref \cup {NoNode}, found : SUBSET Decl]

TypeOK ==
  /\ parent \in [Node -> Node \cup {NoNode}] /\ name \in [Node -> Name]
  /\ managed \in SUBSET Node
  /\ state \in [Ref -> {"needed", "resolving", "established"}]
  /\ target \in [Ref -> Decl \cup {NoNode}]
  /\ pending \in SUBSET Ref /\ todo \in SUBSET Ref
  /\ failed \in BOOLEAN /\ astray \in SUBSET (Node \X (Node \cup {NoNode})) /\ misled \in SUBSET Ref
  /\ at \in {"idle", "edit", "undo", "redo", "resolve"}
  /\ calls \in Seq(Calls) /\ history \in Seq(Commands)
  /\ position \in 0..Len(history) /\ session \in Nat

(***************************************************************************)
(* Reference.h:85: once all marked references are resolved, what any       *)
(* reference in the tree says that it found is what a search would find    *)
(* now.  (Not while declarations or imports are missing that were removed, *)
(* nor what a reference says whose name was changed by undo, or that of an *)
(* import it depends on, which used an import while the target of the      *)
(* import changed, or which depends on a reference whose name was set to   *)
(* one that nothing has.)                                                  *)
(***************************************************************************)
TargetsAreRight ==
  pending = {} /\ astray = {} => \A r \in (Ref \cap managed) \ (Cloned \cup misled) : IsRight(r)

(* Reference.cpp:277: "As a result of resolution of some references, some   *)
(* other references could have become invalid": the rounds are made to find *)
(* them, those that are resolved meanwhile too.                             *)
RoundsAreEnough ==
  pending = {} /\ astray = {} => \A r \in Ref \cap managed : IsRight(r)

(* OOReference.cpp:54-69: what comes after a dot has no target when its     *)
(* prefix has none, since it is resolved again.                             *)
SuffixesFollow ==
  pending = {} /\ astray = {} =>
    \A r \in Dotted \cap managed : target[Prefix[r]] = NoNode => target[r] = NoNode

(* Reference.h:85, of a reference whose own name never changes, whatever is *)
(* undone.                                                                 *)
NamedOnceAreRight ==
  pending = {} /\ astray = {} => \A r \in Ref \cap managed : NewNames[r] = {} => IsRight(r)

(* Node.cpp:290-298: no reference of the tree has a node for its target     *)
(* that is not in the tree.                                                 *)
TargetsInTree ==
  pending = {} => \A r \in Ref \cap managed : target[r] \in managed \cup {NoNode}

(* Reference.h:109-113: no reference of the tree is left unresolved for     *)
(* ever: those that need it are pending, whatever was done or undone.       *)
UnresolvedPending == \A r \in Ref \cap managed : state[r] = "needed" => r \in pending

(* TreeManager.cpp:91: after resolvePending no reference of the tree is     *)
(* left unresolved, whatever the resolution of one did to the others.       *)
AllResolved ==
  [][at = "resolve" /\ at' = "idle" => \A r \in Ref \cap managed : state[r] = "established"]_vars

(* Reference.cpp:265-279: the rounds of resolvePending come to an end,      *)
(* although resolving a reference may mark others, and itself, again.       *)
ResolvingEnds == at = "resolve" ~> at = "idle"

(* OOReference.cpp:74: "Q_ASSERT(DCast<Model::List>(list))" *)
ImportsInLists == ~failed
=============================================================================
