-------------------------- MODULE MCPluginManager --------------------------
(***************************************************************************)
(* TLC instances of PluginManager: four plug-ins with up to two            *)
(* dependencies each, listed one way or the other.                         *)
(***************************************************************************)
EXTENDS PluginManager, SequencesExt

CONSTANTS a, b, c, d, missing

BothWays == {<<a, b, c, d>>, <<d, c, b, a>>}

Needs(id, v) == [id |-> id, majorVersion |-> v]

(* Up to two dependencies, of versions that are there or not. *)
AnyVersion(ids) ==
  LET one == {Needs(id, v) : id \in ids, v \in {0, 1}} \cup {Needs(missing, 0)}
  IN  {<<>>} \cup {<<n>> : n \in one} \cup {s \in one \X one : s[1].id # s[2].id}

(* The same, of versions that are there. *)
RightVersion(ids) ==
  {SetToSeq({Needs(x, 0), Needs(y, 0)}) : x, y \in ids \cup {missing}} \cup {<<>>}

Info(dependencies) == [version |-> 0, dependencies |-> dependencies]

(* What a asks for may not fit; d may depend on itself. *)
Descriptors ==
  {(a :> Info(da)) @@ (b :> Info(db)) @@ (c :> Info(dc)) @@ (d :> Info(dd)) :
     da \in AnyVersion({b, c, d}), db \in RightVersion({a, c, d}),
     dc \in RightVersion({a, b, d}), dd \in RightVersion({a, d})}
=============================================================================
