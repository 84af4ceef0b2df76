--------------------------- MODULE MCJavaDebugger ---------------------------
(***************************************************************************)
(* TLC instances of JavaDebugger: two statements of one class and one of   *)
(* another, each at a line of its own.                                     *)
(***************************************************************************)
EXTENDS JavaDebugger

Statements == {"a1", "a2", "b1"}
ClassOfStatement == [n \in Statements |-> IF n = "b1" THEN "B" ELSE "A"]
LineOfStatement == [n \in Statements |-> n]

(* The statements of A are on one line. *)
LineOfClass == [n \in Statements |-> IF n = "b1" THEN n ELSE "a1"]

(* The variable is used in both classes, the second of which may not be loaded. *)
BothClasses == <<"a1", "b1">>
=============================================================================
