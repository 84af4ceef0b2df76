--------------------------- MODULE MCTreeManager ---------------------------
(***************************************************************************)
(* TLC instances of TreeManager.                                           *)
(***************************************************************************)
EXTENDS TreeManager

CONSTANTS top, one, two, three, v1, v2

(* The tree whose child slots are k, all of it below Root in the tree. *)
FromSlots(k, v) ==
  LET parentOf(n) == {p \in Node : n \in Range(k[p])}
      t == [kids |-> k,
            parent |-> [n \in Node |-> IF parentOf(n) = {} THEN NoNode
                                                          ELSE CHOOSE p \in parentOf(n) : TRUE],
            managed |-> [n \in Node |-> FALSE],
            value |-> [n \in Node |-> v]]
  IN  [t EXCEPT !.managed = [n \in Node |-> n \in Below(t, Root)]]

(* A root list with the list `one`, an access unit, below it; `two`, a text, is new. *)
ListSlots == (top :> <<one>>) @@ (one :> <<>>) @@ (two :> <<>>)
ListTree == FromSlots(ListSlots, v1)

(* A composite root whose one attribute holds the list `one`; the list `two` *)
(* and `three` are new and apart.                                            *)
PartsSlots == (top :> <<one>>) @@ (one :> <<>>) @@ (two :> <<>>) @@ (three :> <<>>)
PartsTree == FromSlots(PartsSlots, v1)

(* A root list with the list `one` below it, which holds the text `two`. *)
DeepSlots == (top :> <<one>>) @@ (one :> <<two>>) @@ (two :> <<>>)
DeepTree == FromSlots(DeepSlots, v1)
=============================================================================
