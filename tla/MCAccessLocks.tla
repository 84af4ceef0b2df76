--------------------------- MODULE MCAccessLocks ---------------------------
(***************************************************************************)
(* TLC instances of AccessLocks.                                           *)
(***************************************************************************)
EXTENDS AccessLocks, TLC

CONSTANTS m1, m2, u1, u2, a, b, c, d

(* One tree with two units; two trees with one unit each. *)
OneTree == [u \in Unit |-> m1]
TwoTrees == (u1 :> m1) @@ (u2 :> m2)
=============================================================================
