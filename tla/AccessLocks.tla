---------------------------- MODULE AccessLocks ----------------------------
(***************************************************************************)
(* The threads that share managed trees: the exclusiveAccess lock of every *)
(* TreeManager, the NodeReadWriteLock of every access unit with its list   *)
(* of interruptible readers, and the mutex of the store that saves trees.  *)
(*                                                                         *)
(* A step is one critical section: a call of a lock of Qt, or what is done *)
(* under a mutex.  A thread is in one operation at a time: a session, a    *)
(* read of units, or a read of a whole tree.                               *)
(***************************************************************************)
EXTENDS Naturals

CONSTANTS Thread,
          Manager,        \* the trees, each with its exclusiveAccess lock
          Unit,           \* the access units, each with its NodeReadWriteLock
          ManagerOf,      \* the tree of a unit
          Writer, LocalReader, GlobalReader,  \* what a thread may do
          Interruptible,  \* the threads that are InterruptibleThreads
          Nested,         \* may a global reader begin another exclusive read?
          MaxReads,       \* bound: acquisitions in one read operation
          NoThread, NoLock

ASSUME LocksAssumption ==
  /\ Manager \cap Unit = {}
  /\ ManagerOf \in [Unit -> Manager]
  /\ Interruptible \subseteq Thread
  /\ Writer \subseteq Thread /\ LocalReader \subseteq Thread /\ GlobalReader \subseteq Thread
  /\ Nested \in BOOLEAN /\ MaxReads \in Nat
  /\ NoThread \notin Thread /\ NoLock \notin Manager \cup Unit

Lock == Manager \cup Unit

VARIABLES
  writer,                  \* the thread that holds a lock for writing
  readers,                 \* how many times a thread holds a lock for reading
  interruptibleReaders,    \* the list of a unit, as counts
  modificationInProgress, currentModificationLock,  \* of every TreeManager
  storeAccess,             \* the thread inside saveTree
  at,                      \* where a thread is
  manager, unit,           \* the arguments of the call it is in
  reads,                   \* acquisitions in its read operation
  signalled                \* the units it was asked to leave

qtLocks == <<writer, readers>>
fields == <<modificationInProgress, currentModificationLock>>
call == <<manager, unit>>
vars == <<qtLocks, interruptibleReaders, fields, storeAccess, at, call, reads, signalled>>

Location ==
  {"idle",
   "waitSession", "switch", "asked", "waitUnit", "session", "ending",
   "enter", "waitRead", "reading", "leave",
   "waitGlobal", "global", "wantStore", "store", "waitSave", "saving", "saved"}

UnitsOf(m) == {u \in Unit : ManagerOf[u] = m}

Init ==
  /\ writer = [l \in Lock |-> NoThread]
  /\ readers = [l \in Lock |-> [t \in Thread |-> 0]]
  /\ interruptibleReaders = [u \in Unit |-> [t \in Thread |-> 0]]
  /\ modificationInProgress = [m \in Manager |-> FALSE]
  /\ currentModificationLock = [m \in Manager |-> NoLock]
  /\ storeAccess = NoThread
  /\ at = [t \in Thread |-> "idle"]
  /\ manager = [t \in Thread |-> NoLock]
  /\ unit = [t \in Thread |-> NoLock]
  /\ reads = [t \in Thread |-> 0]
  /\ signalled = [t \in Thread |-> {}]

-----------------------------------------------------------------------------
(***************************************************************************)
(* QReadWriteLock.  A reader waits for the writer that has the lock and    *)
(* for all that wait for it; in recursive mode, as units use it, not if    *)
(* the thread already reads.  A writer waits for everybody.                *)
(***************************************************************************)
WaitsToWrite(t, l) ==
  \/ at[t] = "waitSession" /\ l = manager[t]
  \/ at[t] = "waitUnit" /\ l = unit[t]

WaitsToRead(t, l) ==
  \/ at[t] = "waitRead" /\ l = unit[t]
  \/ at[t] \in {"waitGlobal", "waitSave"} /\ l = manager[t]

(* A mistake: a lock whose readers overtake the writers that wait for it. *)
CanRead_Overtakes(t, l) == writer[l] = NoThread \/ readers[l][t] > 0

CanRead(t, l) ==
  \/ l \in Unit /\ readers[l][t] > 0
  \/ writer[l] = NoThread /\ \A s \in Thread : ~WaitsToWrite(s, l)

CanWrite(l) == writer[l] = NoThread /\ \A s \in Thread : readers[l][s] = 0

Goto(t, location) == at' = [at EXCEPT ![t] = location]

LockForRead(t, l, next, blocked) ==
  \/ /\ CanRead(t, l)
     /\ readers' = [readers EXCEPT ![l][t] = @ + 1]
     /\ Goto(t, next)
  \/ /\ ~CanRead(t, l)
     /\ at[t] # blocked /\ Goto(t, blocked)
     /\ UNCHANGED readers

LockForWrite(t, l, next, blocked) ==
  \/ /\ CanWrite(l)
     /\ writer' = [writer EXCEPT ![l] = t]
     /\ Goto(t, next)
  \/ /\ ~CanWrite(l)
     /\ at[t] # blocked /\ Goto(t, blocked)
     /\ UNCHANGED writer

UnlockRead(t, l) == readers' = [readers EXCEPT ![l][t] = @ - 1]

-----------------------------------------------------------------------------
(***************************************************************************)
(* Modification sessions.                                                  *)
(***************************************************************************)
(* exclusiveAccess.lockForWrite(), and what beginModification does with it. *)
EnterSession(t, m, u) ==
  /\ LockForWrite(t, m, IF u = NoLock THEN "session" ELSE "switch", "waitSession")
  /\ modificationInProgress' =
       [modificationInProgress EXCEPT ![m] = @ \/ at'[t] # "waitSession"]
  /\ UNCHANGED <<readers, interruptibleReaders, currentModificationLock, storeAccess, reads, signalled>>

BeginModification(t) ==
  /\ at[t] = "idle" /\ t \in Writer
  /\ \E m \in Manager : \E u \in UnitsOf(m) \cup {NoLock} :
       /\ manager' = [manager EXCEPT ![t] = m]
       /\ unit' = [unit EXCEPT ![t] = u]
       /\ EnterSession(t, m, u)

GetSession(t) ==
  /\ at[t] = "waitSession"
  /\ EnterSession(t, manager[t], unit[t])
  /\ UNCHANGED call

(* A mistake: the next lock is taken before the present one is let go. *)
ReleaseUnit_Not(m) == UNCHANGED writer

(* The lock of the present target, if there is one, is let go. *)
ReleaseUnit(m) ==
  writer' = [l \in Lock |-> IF l = currentModificationLock[m] THEN NoThread ELSE writer[l]]

(* SetModificationTarget, done or undone, up to the unlock() of the old lock. *)
ChangeModificationTarget(t) ==
  LET m == manager[t]
  IN  /\ at[t] = "session"
      /\ \E u \in (UnitsOf(m) \cup {NoLock}) \ {currentModificationLock[m]} :
           /\ ReleaseUnit(m)
           /\ unit' = [unit EXCEPT ![t] = u]
           /\ currentModificationLock' =
                [currentModificationLock EXCEPT ![m] = IF u = NoLock THEN u ELSE @]
           /\ Goto(t, IF u = NoLock THEN "session" ELSE "switch")
      /\ UNCHANGED <<readers, interruptibleReaders, modificationInProgress, storeAccess,
                     manager, reads, signalled>>

(* NodeReadWriteLock::lockForWrite, under the mutex. *)
RequestInterrupts(t) ==
  /\ at[t] = "switch"
  /\ signalled' = [r \in Thread |-> signalled[r] \cup
                     {u \in {unit[t]} : interruptibleReaders[u][r] > 0}]
  /\ Goto(t, "asked")
  /\ UNCHANGED <<qtLocks, interruptibleReaders, fields, storeAccess, call, reads>>

(* lock.lockForWrite(), and the rest of SetModificationTarget. *)
LockUnit(t) ==
  /\ at[t] \in {"asked", "waitUnit"}
  /\ LockForWrite(t, unit[t], "session", "waitUnit")
  /\ currentModificationLock' =
       [currentModificationLock EXCEPT ![manager[t]] = IF at'[t] = "session" THEN unit[t] ELSE @]
  /\ UNCHANGED <<readers, interruptibleReaders, modificationInProgress, storeAccess,
                 call, reads, signalled>>

(* Mistakes: the lock stays in the field; the unit stays locked. *)
EndModification_KeepsField(t) ==
  /\ at[t] = "session"
  /\ ReleaseUnit(manager[t])
  /\ Goto(t, "ending")
  /\ UNCHANGED <<readers, interruptibleReaders, fields, storeAccess, call, reads, signalled>>

EndModification_KeepsUnit(t) ==
  /\ at[t] = "session"
  /\ currentModificationLock' = [currentModificationLock EXCEPT ![manager[t]] = NoLock]
  /\ Goto(t, "ending")
  /\ UNCHANGED <<qtLocks, interruptibleReaders, modificationInProgress, storeAccess,
                 call, reads, signalled>>

EndModification(t) ==
  /\ at[t] = "session"
  /\ ReleaseUnit(manager[t])
  /\ currentModificationLock' = [currentModificationLock EXCEPT ![manager[t]] = NoLock]
  /\ Goto(t, "ending")
  /\ UNCHANGED <<readers, interruptibleReaders, modificationInProgress, storeAccess,
                 call, reads, signalled>>

(* exclusiveAccess.unlock() *)
EndSession(t) ==
  /\ at[t] = "ending"
  /\ modificationInProgress' = [modificationInProgress EXCEPT ![manager[t]] = FALSE]
  /\ writer' = [writer EXCEPT ![manager[t]] = NoThread]
  /\ manager' = [manager EXCEPT ![t] = NoLock]
  /\ unit' = [unit EXCEPT ![t] = NoLock]
  /\ Goto(t, "idle")
  /\ UNCHANGED <<readers, interruptibleReaders, currentModificationLock, storeAccess, reads, signalled>>

(* canBeModified() for the nodes of unit u, asked by a thread in a session. *)
CanBeModified(t, u) ==
  LET m == ManagerOf[u]
  IN  /\ at[t] = "session" /\ manager[t] = m
      /\ modificationInProgress[m] /\ currentModificationLock[m] = u

-----------------------------------------------------------------------------
(***************************************************************************)
(* Readers of units: NodeReadWriteLock::lockForRead and unlock.            *)
(***************************************************************************)
(* interruptibleReaders.append(), under the mutex *)
Register(t, u) ==
  interruptibleReaders' =
    [interruptibleReaders EXCEPT ![u][t] = IF t \in Interruptible THEN @ + 1 ELSE @]

(* Mistakes: removeAll(); the kind of thread is not looked at. *)
Unregister_All(t, u) ==
  interruptibleReaders' = [interruptibleReaders EXCEPT ![u][t] = 0]

Unregister_Anyone(t, u) ==
  interruptibleReaders' = [interruptibleReaders EXCEPT ![u][t] = @ - 1]

(* interruptibleReaders.removeOne(), under the mutex *)
Unregister(t, u) ==
  interruptibleReaders' =
    [interruptibleReaders EXCEPT ![u][t] = IF t \in Interruptible THEN @ - 1 ELSE @]

BeginRead(t) ==
  /\ t \in LocalReader
  /\ at[t] \in {"idle", "reading"} /\ reads[t] < MaxReads
  /\ \E u \in Unit : Register(t, u) /\ unit' = [unit EXCEPT ![t] = u]
  /\ reads' = [reads EXCEPT ![t] = @ + 1]
  /\ Goto(t, "enter")
  /\ UNCHANGED <<qtLocks, fields, storeAccess, manager, signalled>>

(* lock.lockForRead() *)
ReadUnit(t) ==
  /\ at[t] \in {"enter", "waitRead"}
  /\ LockForRead(t, unit[t], "reading", "waitRead")
  /\ UNCHANGED <<writer, interruptibleReaders, fields, storeAccess, call, reads, signalled>>

EndRead(t) ==
  /\ at[t] = "reading"
  /\ \E u \in Unit : /\ readers[u][t] > 0
                     /\ Unregister(t, u)
                     /\ unit' = [unit EXCEPT ![t] = u]
  /\ Goto(t, "leave")
  /\ UNCHANGED <<qtLocks, fields, storeAccess, manager, reads, signalled>>

(* A mistake: unlock() returns if the thread is not interruptible. *)
LeaveUnit_Interruptible(t) ==
  /\ at[t] = "leave"
  /\ readers' = [readers EXCEPT ![unit[t]][t] = IF t \in Interruptible THEN @ - 1 ELSE @]
  /\ unit' = [unit EXCEPT ![t] = NoLock]
  /\ Goto(t, "idle")
  /\ reads' = [reads EXCEPT ![t] = 0]
  /\ UNCHANGED <<writer, interruptibleReaders, fields, storeAccess, manager, signalled>>

(* lock.unlock() *)
LeaveUnit(t) ==
  LET u == unit[t]
      done == \A v \in Unit : readers'[v][t] = 0
  IN  /\ at[t] = "leave"
      /\ UnlockRead(t, u)
      /\ unit' = [unit EXCEPT ![t] = NoLock]
      /\ Goto(t, IF done THEN "idle" ELSE "reading")
      /\ reads' = [reads EXCEPT ![t] = IF done THEN 0 ELSE @]
      /\ signalled' = [signalled EXCEPT ![t] = IF readers'[u][t] = 0 THEN @ \ {u} ELSE @]
      /\ UNCHANGED <<writer, interruptibleReaders, fields, storeAccess, manager>>

-----------------------------------------------------------------------------
(***************************************************************************)
(* Readers of a whole tree: beginExclusiveRead, endExclusiveRead, and      *)
(* saveTree, which locks the store around them.                            *)
(***************************************************************************)
(* A read of tree m may begin: the thread is idle or, nested, reads m. *)
MayReadTree(t, m) ==
  /\ t \in GlobalReader /\ reads[t] < MaxReads
  /\ \/ at[t] = "idle"
     \/ at[t] = "global" /\ Nested /\ manager[t] = m

Reading(t, m) ==
  /\ MayReadTree(t, m)
  /\ manager' = [manager EXCEPT ![t] = m]
  /\ reads' = [reads EXCEPT ![t] = @ + 1]

BeginExclusiveRead(t) ==
  /\ \E m \in Manager : Reading(t, m) /\ LockForRead(t, m, "global", "waitGlobal")
  /\ UNCHANGED <<writer, interruptibleReaders, fields, storeAccess, unit, signalled>>

GetExclusiveRead(t) ==
  /\ at[t] = "waitGlobal"
  /\ LockForRead(t, manager[t], "global", "waitGlobal")
  /\ UNCHANGED <<writer, interruptibleReaders, fields, storeAccess, call, reads, signalled>>

(* The operation of t ends, or the exclusive read around it goes on. *)
Return(t) ==
  LET done == readers'[manager[t]][t] = 0
  IN  /\ Goto(t, IF done THEN "idle" ELSE "global")
      /\ manager' = [manager EXCEPT ![t] = IF done THEN NoLock ELSE @]
      /\ reads' = [reads EXCEPT ![t] = IF done THEN 0 ELSE @]

EndExclusiveRead(t) ==
  /\ at[t] = "global"
  /\ UnlockRead(t, manager[t])
  /\ Return(t)
  /\ UNCHANGED <<writer, interruptibleReaders, fields, storeAccess, unit, signalled>>

SaveTree(t) ==
  /\ \E m \in Manager : Reading(t, m)
  /\ Goto(t, "wantStore")
  /\ UNCHANGED <<qtLocks, interruptibleReaders, fields, storeAccess, unit, signalled>>

(* storeAccess_.lock() *)
LockStore(t) ==
  /\ at[t] = "wantStore" /\ storeAccess = NoThread
  /\ storeAccess' = t
  /\ Goto(t, "store")
  /\ UNCHANGED <<qtLocks, interruptibleReaders, fields, call, reads, signalled>>

SaveBeginExclusiveRead(t) ==
  /\ at[t] \in {"store", "waitSave"}
  /\ LockForRead(t, manager[t], "saving", "waitSave")
  /\ UNCHANGED <<writer, interruptibleReaders, fields, storeAccess, call, reads, signalled>>

(* The tree is written, or an exception is on its way: both end the same way. *)
SaveEndExclusiveRead(t) ==
  /\ at[t] = "saving"
  /\ UnlockRead(t, manager[t])
  /\ Goto(t, "saved")
  /\ UNCHANGED <<writer, interruptibleReaders, fields, storeAccess, call, reads, signalled>>

UnlockStore(t) ==
  /\ at[t] = "saved"
  /\ storeAccess' = NoThread
  /\ UNCHANGED <<qtLocks, interruptibleReaders, fields, unit, signalled>>
  /\ Return(t)

-----------------------------------------------------------------------------
(* A client is free to begin these, or not. *)
Start(t) ==
  \/ BeginModification(t) \/ ChangeModificationTarget(t) \/ EndModification(t)
  \/ BeginRead(t) \/ BeginExclusiveRead(t) \/ SaveTree(t)

(* What goes on by itself, and that a reader comes to an end. *)
Proceed(t) ==
  \/ GetSession(t) \/ RequestInterrupts(t) \/ LockUnit(t) \/ EndSession(t)
  \/ ReadUnit(t) \/ EndRead(t) \/ LeaveUnit(t)
  \/ GetExclusiveRead(t) \/ EndExclusiveRead(t)
  \/ LockStore(t) \/ SaveBeginExclusiveRead(t) \/ SaveEndExclusiveRead(t) \/ UnlockStore(t)

Next == \E t \in Thread : Start(t) \/ Proceed(t)

Spec == Init /\ [][Next]_vars

FairSpec == Spec /\ \A t \in Thread : WF_vars(Proceed(t))

-----------------------------------------------------------------------------
TypeOK ==
  /\ writer \in [Lock -> Thread \cup {NoThread}]
  /\ readers \in [Lock -> [Thread -> Nat]]
  /\ interruptibleReaders \in [Unit -> [Thread -> Nat]]
  /\ modificationInProgress \in [Manager -> BOOLEAN]
  /\ currentModificationLock \in [Manager -> Unit \cup {NoLock}]
  /\ storeAccess \in Thread \cup {NoThread}
  /\ at \in [Thread -> Location]
  /\ manager \in [Thread -> Manager \cup {NoLock}]
  /\ unit \in [Thread -> Unit \cup {NoLock}]
  /\ reads \in [Thread -> 0 .. MaxReads]
  /\ signalled \in [Thread -> SUBSET Unit]

(***************************************************************************)
(* TreeManager.h:159: whenever canBeModified() lets a thread in a session  *)
(* change a unit, this thread alone has the session of the tree and the    *)
(* unit for writing, nobody reads the unit and nobody reads the tree.  The *)
(* fields that canBeModified() asks are shared by all threads; they have   *)
(* to agree with the locks.                                                *)
(***************************************************************************)
WritesAlone ==
  \A t \in Thread, u \in Unit :
    CanBeModified(t, u) =>
      /\ writer[u] = t /\ writer[ManagerOf[u]] = t
      /\ \A s \in Thread : readers[u][s] = 0 /\ readers[ManagerOf[u]][s] = 0

(* NodeReadWriteLock.cpp:42-75: a writer finds every interruptible thread   *)
(* that reads the unit in the list, as often as it reads it, until that     *)
(* thread is about to leave.                                                *)
ReadersRegistered ==
  \A u \in Unit, t \in Interruptible :
    interruptibleReaders[u][t]
      = readers[u][t] + (IF at[t] \in {"enter", "waitRead"} /\ unit[t] = u THEN 1 ELSE 0)
                      - (IF at[t] = "leave" /\ unit[t] = u THEN 1 ELSE 0)

(***************************************************************************)
(* ModelBase.dox:185: an interruptible thread that reads a unit has been   *)
(* told of the writer that waits for it.                                   *)
(***************************************************************************)
ReadersSignalled ==
  \A w \in Thread, t \in Interruptible :
    at[w] = "waitUnit" /\ at[t] = "reading" /\ readers[unit[w]][t] > 0
      => unit[w] \in signalled[t]

(***************************************************************************)
(* Thread t waits for s: s has, or as a writer waits for, what t wants.    *)
(***************************************************************************)
WaitsFor(t, s) ==
  \/ \E l \in Lock : WaitsToWrite(t, l) /\ (writer[l] = s \/ readers[l][s] > 0)
  \/ \E l \in Lock : WaitsToRead(t, l) /\ (writer[l] = s \/ WaitsToWrite(s, l))
  \/ at[t] = "wantStore" /\ storeAccess = s

(* ModelBase.dox:162-183: no threads all wait for one another, for ever.    *)
NoDeadlock ==
  \A S \in SUBSET Thread : S # {} => \E t \in S : \A s \in S : ~WaitsFor(t, s)

(***************************************************************************)
(* The locks as access modes: the locks that a session takes, one unit at  *)
(* a time and within exclusiveAccess, give readers and writers what the    *)
(* documentation promises them (ModelBase.dox:122-143).                    *)
(***************************************************************************)
Modes == INSTANCE AccessModes WITH
  session <- [m \in Manager |-> writer[m]],
  writing <- [u \in Unit |-> writer[u]],
  local <- [u \in Unit |-> {t \in Thread : readers[u][t] > 0}],
  global <- [m \in Manager |-> {t \in Thread : readers[m][t] > 0}]

ModesSpec == Modes!Spec

(* SetModificationTarget.cpp:53: a session that wants a unit gets it, if    *)
(* every read comes to an end.                                              *)
SessionGetsUnit ==
  \A t \in Thread : at[t] \in {"switch", "asked", "waitUnit"} ~> at[t] = "session"

(* TreeManager.cpp:69: while a thread waits for a session, one of them gets *)
(* a session, again and again: readers and savers of the tree do not keep   *)
(* all sessions from their start, however many of them come and go.  (Qt    *)
(* promises no order among writers.)                                        *)
SessionBegins ==
  (\E t \in Thread : at[t] = "waitSession") ~> (\E t \in Thread : at[t] \in {"session", "switch"})
=============================================================================
