-------------------------- MODULE MCDebugConnector --------------------------
(***************************************************************************)
(* TLC instances of DebugConnector: what one packet of events may hold.    *)
(***************************************************************************)
EXTENDS DebugConnector

(* A probe, a breakpoint of the user, and a step that ends at a probe. *)
Several == {<<"probe">>, <<"stop">>, <<"step", "probe">>}

(* A probe and a breakpoint of the user at the same line. *)
StopAndProbe == {<<"probe">>, <<"probe", "stop">>}
=============================================================================
