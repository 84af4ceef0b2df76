---------------------------- MODULE AccessModes ----------------------------
(***************************************************************************)
(* What TreeManager promises to threads that share trees: one session per  *)
(* tree, that has at most one access unit to write at a time; readers of   *)
(* units, never of the unit that is written; readers of a whole tree,      *)
(* never during a session on it.                                           *)
(***************************************************************************)
CONSTANTS Thread, Manager, Unit, ManagerOf, NoThread

VARIABLES
  session,  \* the thread in a modification session on a tree
  writing,  \* the thread that may write a unit
  local,    \* the threads that read a unit
  global    \* the threads that read a whole tree

modes == <<session, writing, local, global>>

Init ==
  /\ session = [m \in Manager |-> NoThread]
  /\ writing = [u \in Unit |-> NoThread]
  /\ local = [u \in Unit |-> {}]
  /\ global = [m \in Manager |-> {}]

BeginSession(t, m) ==
  /\ session[m] = NoThread /\ global[m] = {}
  /\ session' = [session EXCEPT ![m] = t]
  /\ UNCHANGED <<writing, local, global>>

EndSession(t, m) ==
  /\ session[m] = t
  /\ \A u \in Unit : writing[u] = t => ManagerOf[u] # m
  /\ session' = [session EXCEPT ![m] = NoThread]
  /\ UNCHANGED <<writing, local, global>>

BeginWriting(t, u) ==
  /\ session[ManagerOf[u]] = t /\ local[u] = {}
  /\ \A v \in Unit : ManagerOf[v] = ManagerOf[u] => writing[v] = NoThread
  /\ writing' = [writing EXCEPT ![u] = t]
  /\ UNCHANGED <<session, local, global>>

EndWriting(t, u) ==
  /\ writing[u] = t
  /\ writing' = [writing EXCEPT ![u] = NoThread]
  /\ UNCHANGED <<session, local, global>>

BeginRead(t, u) ==
  /\ writing[u] = NoThread
  /\ local' = [local EXCEPT ![u] = @ \cup {t}]
  /\ UNCHANGED <<session, writing, global>>

EndRead(t, u) ==
  /\ local' = [local EXCEPT ![u] = @ \ {t}]
  /\ UNCHANGED <<session, writing, global>>

BeginExclusiveRead(t, m) ==
  /\ session[m] = NoThread
  /\ global' = [global EXCEPT ![m] = @ \cup {t}]
  /\ UNCHANGED <<session, writing, local>>

EndExclusiveRead(t, m) ==
  /\ global' = [global EXCEPT ![m] = @ \ {t}]
  /\ UNCHANGED <<session, writing, local>>

Next ==
  \E t \in Thread :
    \/ \E m \in Manager : \/ BeginSession(t, m) \/ EndSession(t, m)
                          \/ BeginExclusiveRead(t, m) \/ EndExclusiveRead(t, m)
    \/ \E u \in Unit : \/ BeginWriting(t, u) \/ EndWriting(t, u)
                       \/ BeginRead(t, u) \/ EndRead(t, u)

Spec == Init /\ [][Next]_modes
=============================================================================
