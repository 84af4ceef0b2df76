-------------------------- MODULE AccessLocksProofs --------------------------
(***************************************************************************)
(* AccessLocks, for any threads, trees and units: who may write a unit is  *)
(* alone with it, the lists of interruptible readers are complete, the     *)
(* locks implement the access modes of the documentation, and threads that *)
(* read one thing at a time never wait for each other in a circle.         *)
(*                                                                         *)
(* That a session writes alone is not inductive: it rests on what locks    *)
(* the thread at each place of the code holds, on the field                *)
(* currentModificationLock, and on the locks themselves excluding readers  *)
(* and the writer of each other.  IInv says so for every thread.           *)
(***************************************************************************)
EXTENDS AccessLocks, TLAPS

(* Where a thread has exclusiveAccess of its manager for writing.          *)
SessionLocation == {"switch", "asked", "waitUnit", "session", "ending"}

(* Where a thread is about to lock a unit to read it, or to let go of it.  *)
UnitLocation == {"enter", "waitRead", "leave"}

(* Where a thread has a manager in mind.                                   *)
TreeLocation ==
  SessionLocation \cup
  {"waitSession", "waitGlobal", "global", "wantStore", "store", "waitSave", "saving", "saved"}

(* A thread knows the manager and the unit that it is about to use.        *)
Arguments ==
  \A t \in Thread :
    /\ at[t] \in TreeLocation => manager[t] \in Manager
    /\ at[t] \in {"switch", "asked", "waitUnit"} => unit[t] \in UnitsOf(manager[t])
    /\ at[t] = "waitSession" => unit[t] \in UnitsOf(manager[t]) \cup {NoLock}
    /\ at[t] \in {"enter", "waitRead", "leave"} => unit[t] \in Unit

(* A thread lets go only of what it reads.                                 *)
Counts ==
  \A t \in Thread :
    /\ at[t] = "leave" => readers[unit[t]][t] > 0
    /\ at[t] \in {"global", "saving"} => readers[manager[t]][t] > 0

(* exclusiveAccess and the unit in currentModificationLock are locked by the*)
(* thread of the session, and by nobody else.                              *)
Sessions ==
  /\ \A m \in Manager, t \in Thread : writer[m] = t <=> at[t] \in SessionLocation /\ manager[t] = m
  /\ \A u \in Unit, t \in Thread :
       writer[u] = t <=> /\ at[t] = "session" /\ manager[t] = ManagerOf[u]
                         /\ currentModificationLock[ManagerOf[u]] = u
  /\ \A m \in Manager :
       currentModificationLock[m] # NoLock
         => ManagerOf[currentModificationLock[m]] = m /\ writer[m] # NoThread
  /\ \A t \in Thread : at[t] = "ending" => currentModificationLock[manager[t]] = NoLock

(* Nobody reads what is written.                                           *)
Exclusion ==
  \A l \in Lock, s \in Thread : writer[l] # NoThread => readers[l][s] = 0

(* The inductive invariant.                                                *)
IInv == TypeOK /\ Arguments /\ Counts /\ Sessions /\ Exclusion /\ ReadersRegistered

(* What an attempt to lock l for reading does: it succeeds, or t is blocked.*)
Locked(t, l, next, blocked) ==
  /\ readers' \in [Lock -> [Thread -> Nat]] /\ at' \in [Thread -> Location]
  /\ \A s \in Thread : s # t => at'[s] = at[s]
  /\ \A k \in Lock, s \in Thread : k # l \/ s # t => readers'[k][s] = readers[k][s]
  /\ \/ at'[t] = next /\ readers'[l][t] = readers[l][t] + 1 /\ writer[l] = NoThread
     \/ at'[t] = blocked /\ readers'[l][t] = readers[l][t]

(* What an attempt to lock l for writing does.                             *)
LockedToWrite(t, l, next, blocked) ==
  /\ writer' \in [Lock -> Thread \cup {NoThread}] /\ at' \in [Thread -> Location]
  /\ \A s \in Thread : s # t => at'[s] = at[s]
  /\ \A k \in Lock : k # l => writer'[k] = writer[k]
  /\ \/ /\ at'[t] = next /\ writer'[l] = t /\ writer[l] = NoThread
        /\ \A s \in Thread : readers[l][s] = 0
     \/ at'[t] = blocked /\ writer'[l] = writer[l]

(* What it does to let go of l.                                            *)
Unlocked(t, l) ==
  /\ readers' \in [Lock -> [Thread -> Nat]]
  /\ readers'[l][t] = readers[l][t] - 1
  /\ \A k \in Lock, s \in Thread : k # l \/ s # t => readers'[k][s] = readers[k][s]

(* LockForRead succeeds only if nobody writes.                             *)
LEMMA LockedForRead ==
  ASSUME TypeOK, Exclusion, NEW t \in Thread, NEW l \in Lock,
         NEW next \in Location, NEW blocked \in Location, LockForRead(t, l, next, blocked)
  PROVE  Locked(t, l, next, blocked)
<1>1. readers \in [Lock -> [Thread -> Nat]] /\ at \in [Thread -> Location]
  BY DEF TypeOK
<1>2. CASE CanRead(t, l) /\ readers' = [readers EXCEPT ![l][t] = @ + 1] /\ Goto(t, next)
  <2>1. writer[l] = NoThread
    BY <1>1, <1>2 DEF CanRead, Exclusion
  <2>2. readers' \in [Lock -> [Thread -> Nat]]
    BY <1>1, <1>2
  <2>3. /\ readers'[l][t] = readers[l][t] + 1
        /\ \A k \in Lock, s \in Thread : k # l \/ s # t => readers'[k][s] = readers[k][s]
    BY <1>1, <1>2
  <2> QED BY <1>1, <1>2, <2>1, <2>2, <2>3 DEF Goto, Locked
<1>3. CASE readers' = readers /\ Goto(t, blocked)
  BY <1>1, <1>3 DEF Goto, Locked
<1> QED BY <1>2, <1>3 DEF LockForRead

(* LockForWrite succeeds only if nobody reads or writes.                   *)
LEMMA LockedForWrite ==
  ASSUME TypeOK, NEW t \in Thread, NEW l \in Lock,
         NEW next \in Location, NEW blocked \in Location, LockForWrite(t, l, next, blocked)
  PROVE  LockedToWrite(t, l, next, blocked)
<1>1. writer \in [Lock -> Thread \cup {NoThread}] /\ at \in [Thread -> Location]
  BY DEF TypeOK
<1>2. CASE CanWrite(l) /\ writer' = [writer EXCEPT ![l] = t] /\ Goto(t, next)
  BY <1>1, <1>2 DEF CanWrite, Goto, LockedToWrite
<1>3. CASE writer' = writer /\ Goto(t, blocked)
  BY <1>1, <1>3 DEF Goto, LockedToWrite
<1> QED BY <1>2, <1>3 DEF LockForWrite

(* A reader never gets a lock that is written.                             *)
LEMMA ExclusionRead ==
  ASSUME TypeOK, Exclusion, UNCHANGED writer, NEW t \in Thread, NEW l \in Lock,
         NEW next, NEW blocked, Locked(t, l, next, blocked)
  PROVE  Exclusion'
<1> SUFFICES ASSUME NEW k \in Lock, NEW s \in Thread, writer[k] # NoThread
             PROVE  readers'[k][s] = 0
  BY DEF Exclusion
<1>1. readers[k][s] = 0
  BY DEF Exclusion
<1>2. CASE k # l \/ s # t
  BY <1>1, <1>2 DEF Locked
<1>3. CASE k = l /\ s = t
  BY <1>1, <1>3 DEF Locked
<1> QED BY <1>2, <1>3

(* A writer never gets a lock that is read.                                *)
LEMMA ExclusionWrite ==
  ASSUME TypeOK, Exclusion, UNCHANGED readers, NEW t \in Thread, NEW l \in Lock,
         NEW next, NEW blocked, LockedToWrite(t, l, next, blocked)
  PROVE  Exclusion'
BY DEF Exclusion, LockedToWrite

(* UnlockRead takes one from the readers of a lock that is read.           *)
LEMMA UnlockedRead ==
  ASSUME TypeOK, NEW t \in Thread, NEW l \in Lock, readers[l][t] > 0, UnlockRead(t, l)
  PROVE  Unlocked(t, l)
<1>1. readers \in [Lock -> [Thread -> Nat]] /\ readers' = [readers EXCEPT ![l][t] = @ - 1]
  BY DEF TypeOK, UnlockRead
<1>2. readers[l][t] - 1 \in Nat
  BY <1>1
<1>3. readers' \in [Lock -> [Thread -> Nat]]
  BY <1>1, <1>2
<1> QED BY <1>1, <1>3 DEF Unlocked

(* beginModification: the session is entered, or its lock is waited for.   *)
LEMMA BeginModificationStep ==
  ASSUME IInv, NEW t \in Thread, BeginModification(t)
  PROVE  IInv'
<1>1. TypeOK /\ Arguments /\ Counts /\ Sessions /\ Exclusion /\ ReadersRegistered
  BY DEF IInv
<1> DEFINE l == manager'[t]
           next == IF unit'[t] = NoLock THEN "session" ELSE "switch"
<1>2. l \in Lock /\ next \in Location /\ "waitSession" \in Location
  BY <1>1, LocksAssumption DEF BeginModification, Lock, TypeOK, Location
<1>3. LockForWrite(t, l, next, "waitSession") /\ UNCHANGED readers
  BY <1>1, LocksAssumption DEF BeginModification, EnterSession, TypeOK
<1>4. LockedToWrite(t, l, next, "waitSession")
  BY <1>1, <1>2, <1>3, LockedForWrite
<1>5. TypeOK'
  BY <1>1, <1>2, <1>4, LocksAssumption
    DEF BeginModification, TypeOK, LockedToWrite, EnterSession, UnitsOf
<1>6. Arguments'
  BY <1>1, <1>2, <1>4, LocksAssumption DEF BeginModification, TypeOK, Arguments, LockedToWrite
<1>7. Counts'
  BY <1>1, <1>2, <1>4, LocksAssumption
    DEF BeginModification, Counts, LockedToWrite, EnterSession
<1>8. Sessions'
  BY <1>1, <1>2, <1>4, LocksAssumption
    DEF BeginModification, TypeOK, Sessions, SessionLocation, LockedToWrite, EnterSession, Lock
<1>9. Exclusion'
  BY <1>1, <1>2, <1>3, <1>4, ExclusionWrite
<1>10. ReadersRegistered'
  BY <1>1, <1>2, <1>4, LocksAssumption
    DEF BeginModification, ReadersRegistered, LockedToWrite, EnterSession
<1> QED BY <1>5, <1>6, <1>7, <1>8, <1>9, <1>10 DEF IInv

(* SetModificationTarget lets go of the present unit; the field keeps it.  *)
LEMMA ChangeModificationTargetStep ==
  ASSUME IInv, NEW t \in Thread, ChangeModificationTarget(t)
  PROVE  IInv'
<1>1. TypeOK /\ Arguments /\ Counts /\ Sessions /\ Exclusion /\ ReadersRegistered
  BY DEF IInv
<1>2. TypeOK'
  BY <1>1, LocksAssumption
    DEF ChangeModificationTarget, TypeOK, Arguments, Location, TreeLocation, SessionLocation,
        Goto, ReleaseUnit, UnitsOf
<1>3. Arguments'
  BY <1>1, LocksAssumption
    DEF ChangeModificationTarget, TypeOK, Arguments, TreeLocation, SessionLocation, Goto
<1>4. Counts'
  BY <1>1, LocksAssumption DEF ChangeModificationTarget, Counts, Goto
<1>5. Sessions'
  BY <1>1, LocksAssumption
    DEF ChangeModificationTarget, TypeOK, Arguments, Sessions, TreeLocation, SessionLocation,
        Goto, ReleaseUnit, Lock
<1>6. Exclusion'
  BY <1>1, LocksAssumption DEF ChangeModificationTarget, Exclusion, ReleaseUnit
<1>7. ReadersRegistered'
  BY <1>1, LocksAssumption DEF ChangeModificationTarget, ReadersRegistered, Goto
<1> QED BY <1>2, <1>3, <1>4, <1>5, <1>6, <1>7 DEF IInv

(* endModification: unit and field are cleared together.                   *)
LEMMA EndModificationStep ==
  ASSUME IInv, NEW t \in Thread, EndModification(t)
  PROVE  IInv'
<1>1. TypeOK /\ Arguments /\ Counts /\ Sessions /\ Exclusion /\ ReadersRegistered
  BY DEF IInv
<1>2. TypeOK'
  BY <1>1, LocksAssumption DEF EndModification, TypeOK, Location, Goto, ReleaseUnit, call
<1>3. Arguments'
  BY <1>1, LocksAssumption
    DEF EndModification, Arguments, TreeLocation, SessionLocation, Goto, call
<1>4. Counts'
  BY <1>1, LocksAssumption DEF EndModification, Counts, Goto, call
<1>5. Sessions'
  BY <1>1, LocksAssumption
    DEF EndModification, TypeOK, Arguments, Sessions, TreeLocation, SessionLocation, Goto,
        ReleaseUnit, call, Lock
<1>6. Exclusion'
  BY <1>1, LocksAssumption DEF EndModification, Exclusion, ReleaseUnit
<1>7. ReadersRegistered'
  BY <1>1, LocksAssumption DEF EndModification, ReadersRegistered, Goto, call
<1> QED BY <1>2, <1>3, <1>4, <1>5, <1>6, <1>7 DEF IInv

(* A reader enters itself in the list before it has the lock.              *)
LEMMA BeginReadStep ==
  ASSUME IInv, NEW t \in Thread, BeginRead(t)
  PROVE  IInv'
<1>1. TypeOK /\ Arguments /\ Counts /\ Sessions /\ Exclusion /\ ReadersRegistered
  BY DEF IInv
<1>2. TypeOK'
  BY <1>1, LocksAssumption DEF BeginRead, TypeOK, Location, Goto, Register, qtLocks, fields
<1>3. Arguments'
  BY <1>1, LocksAssumption DEF BeginRead, TypeOK, Arguments, TreeLocation, SessionLocation, Goto
<1>4. Counts'
  BY <1>1, LocksAssumption DEF BeginRead, Counts, Goto, qtLocks
<1>5. Sessions'
  BY <1>1, LocksAssumption DEF BeginRead, Sessions, SessionLocation, Goto, qtLocks, fields
<1>6. Exclusion'
  BY <1>1, LocksAssumption DEF BeginRead, Exclusion, qtLocks
<1>7. ReadersRegistered'
  BY <1>1, LocksAssumption
    DEF BeginRead, TypeOK, ReadersRegistered, Goto, Register, qtLocks, Lock
<1> QED BY <1>2, <1>3, <1>4, <1>5, <1>6, <1>7 DEF IInv

(* A read of a whole tree begins, or is waited for.                        *)
LEMMA BeginExclusiveReadStep ==
  ASSUME IInv, NEW t \in Thread, BeginExclusiveRead(t)
  PROVE  IInv'
<1>1. TypeOK /\ Arguments /\ Counts /\ Sessions /\ Exclusion /\ ReadersRegistered
  BY DEF IInv
<1>2. PICK m \in Manager : Reading(t, m) /\ LockForRead(t, m, "global", "waitGlobal")
  BY DEF BeginExclusiveRead
<1> DEFINE l == m
<1>3. l \in Lock /\ m \in Manager /\ m \notin Unit /\ Reading(t, m) /\ UNCHANGED writer
  BY <1>2, LocksAssumption DEF BeginExclusiveRead, Lock
<1>4. "global" \in Location /\ "waitGlobal" \in Location
  BY DEF Location
<1>5. Locked(t, l, "global", "waitGlobal")
  BY <1>1, <1>2, <1>3, <1>4, LockedForRead
<1>6. TypeOK'
  <2>1. reads' \in [Thread -> 0 .. MaxReads]
    BY <1>1, <1>3, LocksAssumption DEF Reading, MayReadTree, TypeOK
  <2>2. manager' \in [Thread -> Manager \cup {NoLock}]
    BY <1>1, <1>3 DEF Reading, TypeOK
  <2> QED BY <1>1, <1>3, <1>5, <2>1, <2>2 DEF BeginExclusiveRead, TypeOK, Locked, fields
<1>7. Arguments'
  BY <1>1, <1>3, <1>5, LocksAssumption
    DEF BeginExclusiveRead, TypeOK, Arguments, Locked, Reading
<1>8. Counts'
  BY <1>1, <1>3, <1>5, LocksAssumption
    DEF BeginExclusiveRead, TypeOK, Arguments, Counts, TreeLocation, Locked, Reading, Lock
<1>9. Sessions'
  BY <1>1, <1>3, <1>5, LocksAssumption
    DEF BeginExclusiveRead, TypeOK, Sessions, SessionLocation, Locked, Reading, MayReadTree,
        fields
<1>10. Exclusion'
  BY <1>1, <1>3, <1>4, <1>5, ExclusionRead
<1>11. ReadersRegistered'
  <2>1. \A u \in Unit, s \in Thread : readers'[u][s] = readers[u][s]
    BY <1>3, <1>5, LocksAssumption DEF Locked, Lock
  <2>2. ASSUME NEW s \in Thread
        PROVE  \/ at'[s] = at[s]
               \/ at[s] \notin UnitLocation /\ at'[s] \notin UnitLocation
    <3>1. CASE s # t
      BY <3>1, <1>5 DEF Locked
    <3>2. CASE s = t
      BY <3>2, <1>3, <1>5 DEF Locked, Reading, MayReadTree, UnitLocation
    <3> QED BY <3>1, <3>2
  <2>3. UNCHANGED <<interruptibleReaders, unit>>
    BY DEF BeginExclusiveRead, call
  <2> QED BY <1>1, <2>1, <2>2, <2>3, LocksAssumption DEF ReadersRegistered, UnitLocation
<1> QED BY <1>6, <1>7, <1>8, <1>9, <1>10, <1>11 DEF IInv

(* saveTree is called.                                                     *)
LEMMA SaveTreeStep ==
  ASSUME IInv, NEW t \in Thread, SaveTree(t)
  PROVE  IInv'
<1>1. TypeOK /\ Arguments /\ Counts /\ Sessions /\ Exclusion /\ ReadersRegistered
  BY DEF IInv
<1>2. TypeOK'
  BY <1>1, LocksAssumption
    DEF SaveTree, TypeOK, Location, Goto, Reading, MayReadTree, qtLocks, fields
<1>3. Arguments'
  BY <1>1, LocksAssumption DEF SaveTree, TypeOK, Arguments, Goto, Reading
<1>4. Counts'
  BY <1>1, LocksAssumption DEF SaveTree, TypeOK, Counts, Goto, Reading, qtLocks
<1>5. Sessions'
  BY <1>1, LocksAssumption
    DEF SaveTree, Sessions, SessionLocation, Goto, Reading, MayReadTree, qtLocks, fields
<1>6. Exclusion'
  BY <1>1, LocksAssumption DEF SaveTree, Exclusion, qtLocks
<1>7. ReadersRegistered'
  BY <1>1, LocksAssumption DEF SaveTree, ReadersRegistered, Goto, Reading, MayReadTree, qtLocks
<1> QED BY <1>2, <1>3, <1>4, <1>5, <1>6, <1>7 DEF IInv

(* A thread that waited for a session gets it, or waits again.             *)
LEMMA GetSessionStep ==
  ASSUME IInv, NEW t \in Thread, GetSession(t)
  PROVE  IInv'
<1>1. TypeOK /\ Arguments /\ Counts /\ Sessions /\ Exclusion /\ ReadersRegistered
  BY DEF IInv
<1> DEFINE l == manager[t]
           next == IF unit[t] = NoLock THEN "session" ELSE "switch"
<1>2. l \in Lock /\ next \in Location /\ "waitSession" \in Location
  BY <1>1, LocksAssumption DEF GetSession, Arguments, TreeLocation, Lock, Location
<1>3. LockForWrite(t, l, next, "waitSession") /\ UNCHANGED readers
  BY <1>1, LocksAssumption DEF GetSession, EnterSession
<1>4. LockedToWrite(t, l, next, "waitSession")
  BY <1>1, <1>2, <1>3, LockedForWrite
<1>5. TypeOK'
  BY <1>1, <1>2, <1>4, LocksAssumption DEF GetSession, TypeOK, LockedToWrite, EnterSession, call
<1>6. Arguments'
  BY <1>1, <1>2, <1>4, LocksAssumption
    DEF GetSession, Arguments, TreeLocation, LockedToWrite, call
<1>7. Counts'
  BY <1>1, <1>2, <1>4, LocksAssumption DEF GetSession, Counts, LockedToWrite, EnterSession, call
<1>8. Sessions'
  BY <1>1, <1>2, <1>4, LocksAssumption
    DEF GetSession, TypeOK, Sessions, SessionLocation, LockedToWrite, EnterSession, call, Lock
<1>9. Exclusion'
  BY <1>1, <1>2, <1>3, <1>4, ExclusionWrite
<1>10. ReadersRegistered'
  BY <1>1, <1>2, <1>4, LocksAssumption
    DEF GetSession, ReadersRegistered, LockedToWrite, EnterSession, call
<1> QED BY <1>5, <1>6, <1>7, <1>8, <1>9, <1>10 DEF IInv

(* The readers in the list are asked to leave.                             *)
LEMMA RequestInterruptsStep ==
  ASSUME IInv, NEW t \in Thread, RequestInterrupts(t)
  PROVE  IInv'
<1>1. TypeOK /\ Arguments /\ Counts /\ Sessions /\ Exclusion /\ ReadersRegistered
  BY DEF IInv
<1>2. TypeOK'
  BY <1>1, LocksAssumption
    DEF RequestInterrupts, TypeOK, Arguments, Location, Goto, qtLocks, fields, call, UnitsOf
<1>3. Arguments'
  BY <1>1, LocksAssumption
    DEF RequestInterrupts, Arguments, TreeLocation, SessionLocation, Goto, call
<1>4. Counts'
  BY <1>1, LocksAssumption DEF RequestInterrupts, Counts, Goto, qtLocks, call
<1>5. Sessions'
  BY <1>1, LocksAssumption
    DEF RequestInterrupts, Sessions, SessionLocation, Goto, qtLocks, fields, call
<1>6. Exclusion'
  BY <1>1, LocksAssumption DEF RequestInterrupts, Exclusion, qtLocks
<1>7. ReadersRegistered'
  BY <1>1, LocksAssumption DEF RequestInterrupts, ReadersRegistered, Goto, qtLocks, call
<1> QED BY <1>2, <1>3, <1>4, <1>5, <1>6, <1>7 DEF IInv

(* The unit is locked for writing, and the field set, or it is waited for. *)
LEMMA LockUnitStep ==
  ASSUME IInv, NEW t \in Thread, LockUnit(t)
  PROVE  IInv'
<1>1. TypeOK /\ Arguments /\ Counts /\ Sessions /\ Exclusion /\ ReadersRegistered
  BY DEF IInv
<1> DEFINE l == unit[t]
           next == "session"
<1>2. l \in Lock /\ next \in Location /\ "waitUnit" \in Location
  BY <1>1, LocksAssumption DEF LockUnit, Arguments, Lock, UnitsOf, Location
<1>3. LockForWrite(t, l, next, "waitUnit") /\ UNCHANGED readers
  BY <1>1, LocksAssumption DEF LockUnit
<1>4. LockedToWrite(t, l, next, "waitUnit")
  BY <1>1, <1>2, <1>3, LockedForWrite
<1>5. TypeOK'
  BY <1>1, <1>2, <1>4, LocksAssumption DEF LockUnit, TypeOK, LockedToWrite, call
<1>6. Arguments'
  BY <1>1, <1>2, <1>4, LocksAssumption
    DEF LockUnit, Arguments, TreeLocation, SessionLocation, LockedToWrite, call
<1>7. Counts'
  BY <1>1, <1>2, <1>4, LocksAssumption DEF LockUnit, Counts, LockedToWrite, call
<1>8. Sessions'
  BY <1>1, <1>2, <1>4, LocksAssumption
    DEF LockUnit, TypeOK, Arguments, Sessions, TreeLocation, SessionLocation, LockedToWrite,
        call, Lock, UnitsOf
<1>9. Exclusion'
  BY <1>1, <1>2, <1>3, <1>4, ExclusionWrite
<1>10. ReadersRegistered'
  BY <1>1, <1>2, <1>4, LocksAssumption
    DEF LockUnit, Arguments, ReadersRegistered, Counts, LockedToWrite, call, Lock, UnitsOf
<1> QED BY <1>5, <1>6, <1>7, <1>8, <1>9, <1>10 DEF IInv

(* exclusiveAccess is let go, after unit and field.                        *)
LEMMA EndSessionStep ==
  ASSUME IInv, NEW t \in Thread, EndSession(t)
  PROVE  IInv'
<1>1. TypeOK /\ Arguments /\ Counts /\ Sessions /\ Exclusion /\ ReadersRegistered
  BY DEF IInv
<1>2. TypeOK'
  BY <1>1, LocksAssumption DEF EndSession, TypeOK, Location, Goto
<1>3. Arguments'
  BY <1>1, LocksAssumption
    DEF EndSession, TypeOK, Arguments, TreeLocation, SessionLocation, Goto
<1>4. Counts'
  BY <1>1, LocksAssumption DEF EndSession, Counts, Goto
<1>5. Sessions'
  BY <1>1, LocksAssumption DEF EndSession, TypeOK, Sessions, SessionLocation, Goto, Lock
<1>6. Exclusion'
  BY <1>1, LocksAssumption DEF EndSession, Exclusion
<1>7. ReadersRegistered'
  BY <1>1, LocksAssumption DEF EndSession, ReadersRegistered, Goto
<1> QED BY <1>2, <1>3, <1>4, <1>5, <1>6, <1>7 DEF IInv

(* The reader in the list gets the lock, or waits.                         *)
LEMMA ReadUnitStep ==
  ASSUME IInv, NEW t \in Thread, ReadUnit(t)
  PROVE  IInv'
<1>1. TypeOK /\ Arguments /\ Counts /\ Sessions /\ Exclusion /\ ReadersRegistered
  BY DEF IInv
<1> DEFINE l == unit[t]
<1>2. l \in Lock /\ unit[t] \in Unit
  BY <1>1, LocksAssumption DEF ReadUnit, Arguments, Lock
<1>3. LockForRead(t, l, "reading", "waitRead") /\ UNCHANGED writer
  BY DEF ReadUnit
<1>4. Locked(t, l, "reading", "waitRead")
  BY <1>1, <1>2, <1>3, LockedForRead DEF Location
<1>5. TypeOK'
  BY <1>1, <1>2, <1>4, LocksAssumption DEF ReadUnit, TypeOK, Locked, fields, call
<1>6. Arguments'
  BY <1>1, <1>2, <1>4, LocksAssumption
    DEF ReadUnit, Arguments, TreeLocation, SessionLocation, Locked, call
<1>7. Counts'
  BY <1>1, <1>2, <1>4, LocksAssumption
    DEF ReadUnit, Arguments, Counts, TreeLocation, Locked, call, Lock
<1>8. Sessions'
  BY <1>1, <1>2, <1>4, LocksAssumption
    DEF ReadUnit, Sessions, SessionLocation, Locked, fields, call
<1>9. Exclusion'
  BY <1>1, <1>2, <1>3, <1>4, ExclusionRead
<1>10. ReadersRegistered'
  <2> SUFFICES ASSUME NEW u \in Unit, NEW s \in Interruptible
               PROVE  interruptibleReaders'[u][s]
                        = readers'[u][s]
                            + (IF at'[s] \in {"enter", "waitRead"} /\ unit'[s] = u THEN 1 ELSE 0)
                            - (IF at'[s] = "leave" /\ unit'[s] = u THEN 1 ELSE 0)
    BY DEF ReadersRegistered
  <2>1. /\ s \in Thread /\ u \in Lock /\ readers[u][s] \in Nat
        /\ interruptibleReaders'[u][s]
             = readers[u][s] + (IF at[s] \in {"enter", "waitRead"} /\ unit[s] = u THEN 1 ELSE 0)
                             - (IF at[s] = "leave" /\ unit[s] = u THEN 1 ELSE 0)
        /\ unit'[s] = unit[s]
    BY <1>1, LocksAssumption DEF ReadUnit, ReadersRegistered, call, TypeOK, Lock
  <2>2. CASE s # t
    BY <2>1, <2>2, <1>4 DEF Locked
  <2>3. CASE s = t /\ u # unit[t]
    BY <2>1, <2>3, <1>4 DEF Locked
  <2>4. CASE s = t /\ u = unit[t] /\ at'[t] = "reading"
    BY <2>1, <2>4, <1>4 DEF Locked, ReadUnit
  <2>5. CASE s = t /\ u = unit[t] /\ at'[t] = "waitRead"
    BY <2>1, <2>5, <1>4 DEF Locked, ReadUnit
  <2> QED BY <2>2, <2>3, <2>4, <2>5, <1>4 DEF Locked
<1> QED BY <1>5, <1>6, <1>7, <1>8, <1>9, <1>10 DEF IInv

(* A reader leaves the list before it lets go of the lock.                 *)
LEMMA EndReadStep ==
  ASSUME IInv, NEW t \in Thread, EndRead(t)
  PROVE  IInv'
<1>1. TypeOK /\ Arguments /\ Counts /\ Sessions /\ Exclusion /\ ReadersRegistered
  BY DEF IInv
<1>2. TypeOK'
  BY <1>1, LocksAssumption
    DEF EndRead, TypeOK, Location, SessionLocation, ReadersRegistered, Goto, Unregister,
        qtLocks, fields, Lock
<1>3. Arguments'
  BY <1>1, LocksAssumption DEF EndRead, TypeOK, Arguments, TreeLocation, SessionLocation, Goto
<1>4. Counts'
  BY <1>1, LocksAssumption DEF EndRead, TypeOK, Counts, Goto, qtLocks
<1>5. Sessions'
  BY <1>1, LocksAssumption DEF EndRead, Sessions, SessionLocation, Goto, qtLocks, fields
<1>6. Exclusion'
  BY <1>1, LocksAssumption DEF EndRead, Exclusion, qtLocks
<1>7. ReadersRegistered'
  BY <1>1, LocksAssumption
    DEF EndRead, TypeOK, ReadersRegistered, Goto, Unregister, qtLocks, Lock
<1> QED BY <1>2, <1>3, <1>4, <1>5, <1>6, <1>7 DEF IInv

(* The lock that the list already lacks is let go.                         *)
LEMMA LeaveUnitStep ==
  ASSUME IInv, NEW t \in Thread, LeaveUnit(t)
  PROVE  IInv'
<1>1. TypeOK /\ Arguments /\ Counts /\ Sessions /\ Exclusion /\ ReadersRegistered
  BY DEF IInv
<1> DEFINE l == unit[t]
<1>2. l \in Lock /\ readers[l][t] > 0 /\ UnlockRead(t, l) /\ UNCHANGED writer
  BY <1>1, LocksAssumption DEF LeaveUnit, Arguments, Counts, Lock
<1>3. Unlocked(t, l)
  BY <1>1, <1>2, UnlockedRead
<1>4. TypeOK'
  BY <1>1, <1>2, <1>3, LocksAssumption DEF LeaveUnit, TypeOK, Location, Unlocked, Goto, fields
<1>5. Arguments'
  BY <1>1, <1>2, <1>3, LocksAssumption
    DEF LeaveUnit, TypeOK, Arguments, TreeLocation, SessionLocation, Goto
<1>6. Counts'
  BY <1>1, <1>2, <1>3, LocksAssumption
    DEF LeaveUnit, TypeOK, Arguments, Counts, TreeLocation, Unlocked, Goto, Lock
<1>7. Sessions'
  BY <1>1, <1>2, <1>3, LocksAssumption DEF LeaveUnit, Sessions, SessionLocation, Goto, fields
<1>8. Exclusion'
  BY <1>1, <1>2, <1>3, LocksAssumption
    DEF Exclusion, TreeLocation, SessionLocation, Unlocked, Goto, fields
<1>9. ReadersRegistered'
  BY <1>1, <1>2, <1>3, LocksAssumption
    DEF LeaveUnit, TypeOK, Arguments, ReadersRegistered, Unlocked, Goto, Lock
<1> QED BY <1>4, <1>5, <1>6, <1>7, <1>8, <1>9 DEF IInv

(* A thread that waited to read a tree reads it, or waits again.           *)
LEMMA GetExclusiveReadStep ==
  ASSUME IInv, NEW t \in Thread, GetExclusiveRead(t)
  PROVE  IInv'
<1>1. TypeOK /\ Arguments /\ Counts /\ Sessions /\ Exclusion /\ ReadersRegistered
  BY DEF IInv
<1> DEFINE l == manager[t]
<1>2. l \in Lock /\ manager[t] \in Manager
  BY <1>1, LocksAssumption DEF GetExclusiveRead, Arguments, TreeLocation, Lock
<1>3. LockForRead(t, l, "global", "waitGlobal") /\ UNCHANGED writer
  BY DEF GetExclusiveRead
<1>4. Locked(t, l, "global", "waitGlobal")
  BY <1>1, <1>2, <1>3, LockedForRead DEF Location
<1>5. TypeOK'
  BY <1>1, <1>2, <1>4, LocksAssumption DEF GetExclusiveRead, TypeOK, Locked, fields, call
<1>6. Arguments'
  BY <1>1, <1>2, <1>4, LocksAssumption DEF GetExclusiveRead, Arguments, Locked, call
<1>7. Counts'
  BY <1>1, <1>2, <1>4, LocksAssumption
    DEF GetExclusiveRead, TypeOK, Arguments, Counts, TreeLocation, Locked, call, Lock
<1>8. Sessions'
  BY <1>1, <1>2, <1>4, LocksAssumption
    DEF GetExclusiveRead, Sessions, SessionLocation, Locked, fields, call
<1>9. Exclusion'
  BY <1>1, <1>2, <1>3, <1>4, ExclusionRead
<1>10. ReadersRegistered'
  <2>1. \A u \in Unit, s \in Thread : readers'[u][s] = readers[u][s]
    BY <1>2, <1>4, LocksAssumption DEF Locked, Lock
  <2>2. ASSUME NEW s \in Thread
        PROVE  \/ at'[s] = at[s]
               \/ at[s] \notin UnitLocation /\ at'[s] \notin UnitLocation
    <3>1. CASE s # t
      BY <3>1, <1>4 DEF Locked
    <3>2. CASE s = t
      BY <3>2, <1>2, <1>4 DEF GetExclusiveRead, Locked, UnitLocation
    <3> QED BY <3>1, <3>2
  <2>3. UNCHANGED <<interruptibleReaders, unit>>
    BY DEF GetExclusiveRead, call
  <2> QED BY <1>1, <2>1, <2>2, <2>3, LocksAssumption DEF ReadersRegistered, UnitLocation
<1> QED BY <1>5, <1>6, <1>7, <1>8, <1>9, <1>10 DEF IInv

(* A read of a whole tree ends, or the one around it goes on.              *)
LEMMA EndExclusiveReadStep ==
  ASSUME IInv, NEW t \in Thread, EndExclusiveRead(t)
  PROVE  IInv'
<1>1. TypeOK /\ Arguments /\ Counts /\ Sessions /\ Exclusion /\ ReadersRegistered
  BY DEF IInv
<1> DEFINE l == manager[t]
<1>2. l \in Lock /\ readers[l][t] > 0 /\ UnlockRead(t, l) /\ UNCHANGED writer
  BY <1>1, LocksAssumption DEF EndExclusiveRead, Arguments, Counts, TreeLocation, Lock
<1>3. Unlocked(t, l)
  BY <1>1, <1>2, UnlockedRead
<1>4. TypeOK'
  BY <1>1, <1>2, <1>3, LocksAssumption
    DEF EndExclusiveRead, TypeOK, Location, Unlocked, Goto, Return, fields
<1>5. Arguments'
  BY <1>1, <1>2, <1>3, LocksAssumption
    DEF EndExclusiveRead, TypeOK, Arguments, TreeLocation, SessionLocation, Goto, Return
<1>6. Counts'
  BY <1>1, <1>2, <1>3, LocksAssumption
    DEF EndExclusiveRead, TypeOK, Arguments, Counts, TreeLocation, Unlocked, Goto, Return, Lock
<1>7. Sessions'
  BY <1>1, <1>2, <1>3, LocksAssumption
    DEF EndExclusiveRead, Sessions, SessionLocation, Goto, Return, fields
<1>8. Exclusion'
  BY <1>1, <1>2, <1>3, LocksAssumption DEF Arguments, Exclusion, Unlocked, Lock
<1>9. ReadersRegistered'
  BY <1>1, <1>2, <1>3, LocksAssumption
    DEF EndExclusiveRead, TypeOK, ReadersRegistered, Unlocked, Goto, Return, Lock
<1> QED BY <1>4, <1>5, <1>6, <1>7, <1>8, <1>9 DEF IInv

(* saveTree locks the store.                                               *)
LEMMA LockStoreStep ==
  ASSUME IInv, NEW t \in Thread, LockStore(t)
  PROVE  IInv'
<1>1. TypeOK /\ Arguments /\ Counts /\ Sessions /\ Exclusion /\ ReadersRegistered
  BY DEF IInv
<1>2. TypeOK'
  BY <1>1, LocksAssumption DEF LockStore, TypeOK, Location, Goto, qtLocks, fields, call
<1>3. Arguments'
  BY <1>1, LocksAssumption DEF LockStore, Arguments, TreeLocation, Goto, call
<1>4. Counts'
  BY <1>1, LocksAssumption DEF LockStore, Counts, Goto, qtLocks, call
<1>5. Sessions'
  BY <1>1, LocksAssumption DEF LockStore, Sessions, SessionLocation, Goto, qtLocks, fields, call
<1>6. Exclusion'
  BY <1>1, LocksAssumption DEF LockStore, Exclusion, qtLocks
<1>7. ReadersRegistered'
  BY <1>1, LocksAssumption DEF LockStore, ReadersRegistered, Goto, qtLocks, call
<1> QED BY <1>2, <1>3, <1>4, <1>5, <1>6, <1>7 DEF IInv

(* saveTree locks the tree to read it, or waits.                           *)
LEMMA SaveBeginExclusiveReadStep ==
  ASSUME IInv, NEW t \in Thread, SaveBeginExclusiveRead(t)
  PROVE  IInv'
<1>1. TypeOK /\ Arguments /\ Counts /\ Sessions /\ Exclusion /\ ReadersRegistered
  BY DEF IInv
<1> DEFINE l == manager[t]
<1>2. l \in Lock /\ manager[t] \in Manager
  BY <1>1, LocksAssumption DEF SaveBeginExclusiveRead, Arguments, TreeLocation, Lock
<1>3. LockForRead(t, l, "saving", "waitSave") /\ UNCHANGED writer
  BY DEF SaveBeginExclusiveRead
<1>4. Locked(t, l, "saving", "waitSave")
  BY <1>1, <1>2, <1>3, LockedForRead DEF Location
<1>5. TypeOK'
  BY <1>1, <1>2, <1>4, LocksAssumption DEF SaveBeginExclusiveRead, TypeOK, Locked, fields, call
<1>6. Arguments'
  BY <1>1, <1>2, <1>4, LocksAssumption DEF SaveBeginExclusiveRead, Arguments, Locked, call
<1>7. Counts'
  BY <1>1, <1>2, <1>4, LocksAssumption
    DEF SaveBeginExclusiveRead, TypeOK, Arguments, Counts, TreeLocation, Locked, call, Lock
<1>8. Sessions'
  BY <1>1, <1>2, <1>4, LocksAssumption
    DEF SaveBeginExclusiveRead, TypeOK, Sessions, SessionLocation, Locked, fields, call
<1>9. Exclusion'
  BY <1>1, <1>2, <1>3, <1>4, ExclusionRead
<1>10. ReadersRegistered'
  <2>1. \A u \in Unit, s \in Thread : readers'[u][s] = readers[u][s]
    BY <1>2, <1>4, LocksAssumption DEF Locked, Lock
  <2>2. ASSUME NEW s \in Thread
        PROVE  \/ at'[s] = at[s]
               \/ at[s] \notin UnitLocation /\ at'[s] \notin UnitLocation
    <3>1. CASE s # t
      BY <3>1, <1>4 DEF Locked
    <3>2. CASE s = t
      BY <3>2, <1>2, <1>4 DEF SaveBeginExclusiveRead, Locked, UnitLocation
    <3> QED BY <3>1, <3>2
  <2>3. UNCHANGED <<interruptibleReaders, unit>>
    BY DEF SaveBeginExclusiveRead, call
  <2> QED BY <1>1, <2>1, <2>2, <2>3, LocksAssumption DEF ReadersRegistered, UnitLocation
<1> QED BY <1>5, <1>6, <1>7, <1>8, <1>9, <1>10 DEF IInv

(* saveTree lets go of the tree.                                           *)
LEMMA SaveEndExclusiveReadStep ==
  ASSUME IInv, NEW t \in Thread, SaveEndExclusiveRead(t)
  PROVE  IInv'
<1>1. TypeOK /\ Arguments /\ Counts /\ Sessions /\ Exclusion /\ ReadersRegistered
  BY DEF IInv
<1> DEFINE l == manager[t]
<1>2. l \in Lock /\ readers[l][t] > 0 /\ UnlockRead(t, l) /\ UNCHANGED writer
  BY <1>1, LocksAssumption DEF SaveEndExclusiveRead, Arguments, Counts, TreeLocation, Lock
<1>3. Unlocked(t, l)
  BY <1>1, <1>2, UnlockedRead
<1>4. TypeOK'
  BY <1>1, <1>2, <1>3, LocksAssumption
    DEF SaveEndExclusiveRead, TypeOK, Location, Unlocked, Goto, fields, call
<1>5. Arguments'
  BY <1>1, <1>2, <1>3, LocksAssumption
    DEF SaveEndExclusiveRead, Arguments, TreeLocation, Goto, call
<1>6. Counts'
  BY <1>1, <1>2, <1>3, LocksAssumption
    DEF SaveEndExclusiveRead, TypeOK, Arguments, Counts, TreeLocation, Unlocked, Goto, call,
        Lock
<1>7. Sessions'
  BY <1>1, <1>2, <1>3, LocksAssumption
    DEF SaveEndExclusiveRead, Sessions, SessionLocation, Goto, fields, call
<1>8. Exclusion'
  BY <1>1, <1>2, <1>3, LocksAssumption DEF Exclusion, Sessions, Unlocked, Goto, Lock
<1>9. ReadersRegistered'
  BY <1>1, <1>2, <1>3, LocksAssumption
    DEF SaveEndExclusiveRead, TypeOK, ReadersRegistered, Unlocked, Goto, call, Lock
<1> QED BY <1>4, <1>5, <1>6, <1>7, <1>8, <1>9 DEF IInv

(* saveTree lets go of the store.                                          *)
LEMMA UnlockStoreStep ==
  ASSUME IInv, NEW t \in Thread, UnlockStore(t)
  PROVE  IInv'
<1>1. TypeOK /\ Arguments /\ Counts /\ Sessions /\ Exclusion /\ ReadersRegistered
  BY DEF IInv
<1>2. TypeOK'
  BY <1>1, LocksAssumption DEF UnlockStore, TypeOK, Location, Goto, Return, qtLocks, fields
<1>3. Arguments'
  BY <1>1, LocksAssumption
    DEF UnlockStore, TypeOK, Arguments, TreeLocation, SessionLocation, Goto, Return
<1>4. Counts'
  BY <1>1, LocksAssumption
    DEF UnlockStore, TypeOK, Arguments, Counts, TreeLocation, Goto, Return, qtLocks, Lock
<1>5. Sessions'
  BY <1>1, LocksAssumption
    DEF UnlockStore, Sessions, SessionLocation, Goto, Return, qtLocks, fields
<1>6. Exclusion'
  BY <1>1, LocksAssumption DEF UnlockStore, Exclusion, qtLocks
<1>7. ReadersRegistered'
  BY <1>1, LocksAssumption DEF UnlockStore, ReadersRegistered, Goto, Return, qtLocks
<1> QED BY <1>2, <1>3, <1>4, <1>5, <1>6, <1>7 DEF IInv

(* Every behaviour of the locks keeps the inductive invariant.             *)
LEMMA Invariant ==
  Spec => []IInv
<1>1. Init => IInv
  BY LocksAssumption
    DEF Init, IInv, TypeOK, Arguments, Counts, Sessions, Exclusion, ReadersRegistered, Location,
        TreeLocation, SessionLocation, Lock
<1>2. ASSUME IInv, [Next]_vars
      PROVE  IInv'
  <2>1. CASE Next
    <3>1. PICK t \in Thread : Start(t) \/ Proceed(t)
      BY <2>1 DEF Next
    <3>2. CASE Start(t)
      BY <1>2, <3>2, BeginModificationStep, ChangeModificationTargetStep, EndModificationStep,
         BeginReadStep, BeginExclusiveReadStep, SaveTreeStep DEF Start
    <3>3. CASE Proceed(t)
      BY <1>2, <3>3, GetSessionStep, RequestInterruptsStep, LockUnitStep, EndSessionStep,
         ReadUnitStep, EndReadStep, LeaveUnitStep, GetExclusiveReadStep, EndExclusiveReadStep,
         LockStoreStep, SaveBeginExclusiveReadStep, SaveEndExclusiveReadStep, UnlockStoreStep
         DEF Proceed
    <3> QED BY <3>1, <3>2, <3>3
  <2>2. CASE UNCHANGED vars
    BY <1>2, <2>2
      DEF vars, qtLocks, fields, call, IInv, TypeOK, Arguments, Counts, Sessions, Exclusion,
          ReadersRegistered
  <2> QED BY <1>2, <2>1, <2>2
<1> QED BY <1>1, <1>2, PTL DEF Spec

(* The locks, the lists and the threads have their types.                  *)
THEOREM TypeCorrect == Spec => []TypeOK
<1>1. IInv => TypeOK
  BY DEF IInv
<1> QED BY <1>1, Invariant, PTL

(* While a thread may modify a unit (TreeManager.cpp:122), it holds the    *)
(* locks of the unit and of the tree, and nobody reads either.             *)
THEOREM WriterAlone == Spec => []WritesAlone
<1>1. ASSUME IInv
      PROVE  WritesAlone
  <2> SUFFICES ASSUME NEW t \in Thread, NEW u \in Unit, CanBeModified(t, u)
               PROVE  /\ writer[u] = t /\ writer[ManagerOf[u]] = t
                      /\ \A s \in Thread : readers[u][s] = 0 /\ readers[ManagerOf[u]][s] = 0
    BY DEF WritesAlone
  <2>1. at[t] = "session" /\ manager[t] = ManagerOf[u] /\ currentModificationLock[ManagerOf[u]] = u
    BY DEF CanBeModified
  <2>2. writer[u] = t /\ writer[ManagerOf[u]] = t
    BY <1>1, <2>1, LocksAssumption DEF IInv, Sessions, SessionLocation
  <2> QED BY <1>1, <2>2, LocksAssumption DEF IInv, Exclusion, Lock
<1> QED BY <1>1, Invariant, PTL

(* The lists of NodeReadWriteLock hold exactly the interruptible readers   *)
(* that read the unit or are about to (NodeReadWriteLock.cpp:48, :73).     *)
THEOREM ReadersListed == Spec => []ReadersRegistered
<1>1. IInv => ReadersRegistered
  BY DEF IInv
<1> QED BY <1>1, Invariant, PTL

(* Who reads l, however often.                                             *)
ReadersOf(l) == {s \in Thread : readers[l][s] > 0}

(* A step of the access modes, or none.                                    *)
ModesStep == Modes!Next \/ UNCHANGED Modes!modes

(* A lock for reading begins the read of a unit or of a tree, or nothing   *)
(* if the thread reads it already or is blocked.                           *)
LEMMA LockedForReadIsMode ==
  ASSUME TypeOK, TypeOK', UNCHANGED writer, NEW t \in Thread, NEW l \in Lock,
         NEW next, NEW blocked, Locked(t, l, next, blocked)
  PROVE  ModesStep
<1>1. /\ readers \in [Lock -> [Thread -> Nat]] /\ readers' \in [Lock -> [Thread -> Nat]]
      /\ writer' = writer
  BY DEF TypeOK
<1>2. CASE readers'[l][t] = readers[l][t]
  <2>1. \A k \in Lock, s \in Thread : readers'[k][s] = readers[k][s]
    BY <1>2 DEF Locked
  <2> QED BY <1>1, <2>1 DEF ModesStep, Modes!modes, Lock
<1>3. CASE readers'[l][t] = readers[l][t] + 1 /\ writer[l] = NoThread
  <2>1. ASSUME NEW k \in Lock, NEW s \in Thread
        PROVE  readers'[k][s] > 0 <=> readers[k][s] > 0 \/ (k = l /\ s = t)
    <3>1. CASE k = l /\ s = t
      BY <1>1, <1>3, <3>1
    <3>2. CASE k # l \/ s # t
      BY <3>2 DEF Locked
    <3> QED BY <3>1, <3>2
  <2>2. \A k \in Lock : ReadersOf(k)' = IF k = l THEN ReadersOf(k) \cup {t} ELSE ReadersOf(k)
    BY <2>1 DEF ReadersOf
  <2>3. CASE l \in Unit
    <3>1. /\ [k \in Unit |-> ReadersOf(k)]'
               = [[k \in Unit |-> ReadersOf(k)] EXCEPT ![l] = ReadersOf(l) \cup {t}]
          /\ [k \in Manager |-> ReadersOf(k)]' = [k \in Manager |-> ReadersOf(k)]
      BY <2>2, <2>3, LocksAssumption DEF Lock
    <3>2. Modes!BeginRead(t, l)
      BY <1>1, <1>3, <2>3, <3>1 DEF Modes!BeginRead, ReadersOf
    <3> QED BY <2>3, <3>2 DEF ModesStep, Modes!Next
  <2>4. CASE l \in Manager
    <3>1. /\ [k \in Manager |-> ReadersOf(k)]'
               = [[k \in Manager |-> ReadersOf(k)] EXCEPT ![l] = ReadersOf(l) \cup {t}]
          /\ [k \in Unit |-> ReadersOf(k)]' = [k \in Unit |-> ReadersOf(k)]
      BY <2>2, <2>4, LocksAssumption DEF Lock
    <3>2. Modes!BeginExclusiveRead(t, l)
      BY <1>1, <1>3, <2>4, <3>1 DEF Modes!BeginExclusiveRead, ReadersOf
    <3> QED BY <2>4, <3>2 DEF ModesStep, Modes!Next
  <2> QED BY <2>3, <2>4 DEF Lock
<1> QED BY <1>2, <1>3 DEF Locked

(* Letting go ends a read, unless an outer one goes on.                    *)
LEMMA UnlockedIsMode ==
  ASSUME TypeOK, TypeOK', UNCHANGED writer, NEW t \in Thread, NEW l \in Lock, Unlocked(t, l)
  PROVE  ModesStep
<1>1. /\ readers \in [Lock -> [Thread -> Nat]] /\ readers' \in [Lock -> [Thread -> Nat]]
      /\ writer' = writer
  BY DEF TypeOK
<1>2. CASE readers'[l][t] > 0
  <2>1. \A k \in Lock, s \in Thread : readers'[k][s] > 0 <=> readers[k][s] > 0
    BY <1>1, <1>2 DEF Unlocked
  <2> QED BY <1>1, <2>1 DEF ModesStep, Modes!modes, Lock
<1>3. CASE readers'[l][t] = 0
  <2>1. \A k \in Lock, s \in Thread : readers'[k][s] > 0 <=> readers[k][s] > 0 /\ ~(k = l /\ s = t)
    BY <1>1, <1>3 DEF Unlocked
  <2>2. \A k \in Lock : ReadersOf(k)' = IF k = l THEN ReadersOf(k) \ {t} ELSE ReadersOf(k)
    BY <2>1 DEF ReadersOf
  <2>3. CASE l \in Unit
    <3>1. /\ [k \in Unit |-> ReadersOf(k)]'
               = [[k \in Unit |-> ReadersOf(k)] EXCEPT ![l] = ReadersOf(l) \ {t}]
          /\ [k \in Manager |-> ReadersOf(k)]' = [k \in Manager |-> ReadersOf(k)]
      BY <2>2, <2>3, LocksAssumption DEF Lock
    <3>2. Modes!EndRead(t, l)
      BY <1>1, <2>3, <3>1 DEF Modes!EndRead, ReadersOf
    <3> QED BY <2>3, <3>2 DEF ModesStep, Modes!Next
  <2>4. CASE l \in Manager
    <3>1. /\ [k \in Manager |-> ReadersOf(k)]'
               = [[k \in Manager |-> ReadersOf(k)] EXCEPT ![l] = ReadersOf(l) \ {t}]
          /\ [k \in Unit |-> ReadersOf(k)]' = [k \in Unit |-> ReadersOf(k)]
      BY <2>2, <2>4, LocksAssumption DEF Lock
    <3>2. Modes!EndExclusiveRead(t, l)
      BY <1>1, <2>4, <3>1 DEF Modes!EndExclusiveRead, ReadersOf
    <3> QED BY <2>4, <3>2 DEF ModesStep, Modes!Next
  <2> QED BY <2>3, <2>4 DEF Lock
<1> QED BY <1>1, <1>2, <1>3

(* exclusiveAccess for writing begins a session.                           *)
LEMMA SessionIsMode ==
  ASSUME TypeOK, UNCHANGED readers, NEW t \in Thread, NEW m \in Manager,
         NEW next, NEW blocked, LockedToWrite(t, m, next, blocked)
  PROVE  ModesStep
<1>1. /\ readers \in [Lock -> [Thread -> Nat]] /\ readers' = readers
      /\ m \in Lock /\ m \notin Unit
  BY LocksAssumption DEF TypeOK, Lock
<1>2. \A k \in Lock : k # m => writer'[k] = writer[k]
  BY DEF LockedToWrite
<1>3. CASE writer'[m] = writer[m]
  BY <1>1, <1>2, <1>3 DEF ModesStep, Modes!modes, Lock
<1>4. CASE writer'[m] = t /\ writer[m] = NoThread /\ \A s \in Thread : readers[m][s] = 0
  <2>1. ReadersOf(m) = {}
    BY <1>4 DEF ReadersOf
  <2>2. Modes!BeginSession(t, m)
    BY <1>1, <1>2, <1>4, <2>1 DEF Modes!BeginSession, Lock, ReadersOf
  <2> QED BY <2>2 DEF ModesStep, Modes!Next
<1> QED BY <1>3, <1>4 DEF LockedToWrite

(* Entering a session begins it or waits.                                  *)
LEMMA EntryIsMode ==
  ASSUME TypeOK, NEW t \in Thread, NEW m \in Manager, NEW u \in Unit \cup {NoLock},
         EnterSession(t, m, u)
  PROVE  ModesStep
<1> DEFINE next == IF u = NoLock THEN "session" ELSE "switch"
<1>1. next \in Location /\ "waitSession" \in Location /\ m \in Lock
  BY DEF Location, Lock
<1>2. LockForWrite(t, m, next, "waitSession") /\ UNCHANGED readers
  BY DEF EnterSession
<1> HIDE DEF next
<1>3. LockedToWrite(t, m, next, "waitSession")
  BY <1>1, <1>2, LockedForWrite
<1> QED BY <1>1, <1>2, <1>3, SessionIsMode

(* A unit locked for writing is written in the session of its tree, which  *)
(* writes no other.                                                        *)
LEMMA WritingIsMode ==
  ASSUME IInv, UNCHANGED readers, NEW t \in Thread, NEW u \in Unit,
         at[t] \in {"asked", "waitUnit"}, manager[t] = ManagerOf[u],
         NEW next, NEW blocked, LockedToWrite(t, u, next, blocked)
  PROVE  ModesStep
<1>1. /\ readers \in [Lock -> [Thread -> Nat]] /\ readers' = readers
      /\ writer \in [Lock -> Thread \cup {NoThread}]
      /\ u \in Lock /\ u \notin Manager /\ ManagerOf[u] \in Manager
  BY LocksAssumption DEF IInv, TypeOK, Lock
<1>2. \A k \in Lock : k # u => writer'[k] = writer[k]
  BY DEF LockedToWrite
<1>3. CASE writer'[u] = writer[u]
  BY <1>1, <1>2, <1>3 DEF ModesStep, Modes!modes, Lock
<1>4. CASE writer'[u] = t /\ writer[u] = NoThread /\ \A s \in Thread : readers[u][s] = 0
  <2>1. writer[ManagerOf[u]] = t
    BY <1>1 DEF IInv, Sessions, SessionLocation
  <2>2. ASSUME NEW v \in Unit, ManagerOf[v] = ManagerOf[u], writer[v] # NoThread
        PROVE  FALSE
    <3>1. writer[v] \in Thread
      BY <1>1, <2>2 DEF Lock
    <3>2. at[writer[v]] = "session" /\ manager[writer[v]] = ManagerOf[u]
      BY <2>2, <3>1 DEF IInv, Sessions
    <3>3. writer[ManagerOf[u]] = writer[v]
      BY <1>1, <3>1, <3>2 DEF IInv, Sessions, SessionLocation
    <3> QED BY <2>1, <3>2, <3>3
  <2>3. ReadersOf(u) = {}
    BY <1>4 DEF ReadersOf
  <2>4. Modes!BeginWriting(t, u)
    BY <1>1, <1>2, <1>4, <2>1, <2>2, <2>3 DEF Modes!BeginWriting, Lock, ReadersOf
  <2> QED BY <2>4 DEF ModesStep, Modes!Next
<1> QED BY <1>3, <1>4 DEF LockedToWrite

(* Releasing the unit of the session ends the writing.                     *)
LEMMA ReleaseIsMode ==
  ASSUME IInv, UNCHANGED readers, NEW t \in Thread, at[t] = "session", ReleaseUnit(manager[t])
  PROVE  ModesStep
<1>1. PICK u \in Unit \cup {NoLock} : u = currentModificationLock[manager[t]]
  BY DEF IInv, TypeOK, Arguments, TreeLocation, SessionLocation
<1>2. /\ manager[t] \in Manager /\ NoLock \notin Lock /\ readers' = readers
      /\ writer' = [l \in Lock |-> IF l = u THEN NoThread ELSE writer[l]]
  BY <1>1, LocksAssumption DEF IInv, Arguments, TreeLocation, SessionLocation, ReleaseUnit, Lock
<1>3. CASE u = NoLock
  BY <1>2, <1>3 DEF ModesStep, Modes!modes, Lock
<1>4. CASE u # NoLock
  <2>1. u \in Unit /\ u \notin Manager /\ ManagerOf[u] = manager[t]
    BY <1>1, <1>2, <1>4, LocksAssumption DEF IInv, TypeOK, Sessions
  <2>2. writer[u] = t
    BY <1>1, <1>2, <2>1 DEF IInv, Sessions
  <2>3. Modes!EndWriting(t, u)
    BY <1>2, <2>1, <2>2 DEF Modes!EndWriting, Lock
  <2> QED BY <2>1, <2>3 DEF ModesStep, Modes!Next
<1> QED BY <1>3, <1>4

(* The session ends when no unit is written any more.                      *)
LEMMA EndSessionIsMode ==
  ASSUME IInv, NEW t \in Thread, EndSession(t)
  PROVE  ModesStep
<1>1. PICK m \in Manager : m = manager[t]
  BY DEF EndSession, IInv, Arguments, TreeLocation, SessionLocation
<1>2. /\ m \in Lock /\ m \notin Unit /\ readers' = readers
      /\ at[t] = "ending" /\ writer' = [writer EXCEPT ![m] = NoThread]
      /\ writer \in [Lock -> Thread \cup {NoThread}]
  BY <1>1, LocksAssumption DEF EndSession, IInv, TypeOK, Lock
<1>3. writer[m] = t
  BY <1>1, <1>2 DEF IInv, Sessions, SessionLocation
<1>4. \A u \in Unit : writer[u] = t => ManagerOf[u] # m
  BY <1>2 DEF IInv, Sessions
<1>5. Modes!EndSession(t, m)
  BY <1>1, <1>2, <1>3, <1>4 DEF Modes!EndSession, Lock
<1> QED BY <1>5 DEF ModesStep, Modes!Next

(* Every step of the locks is a step of the access modes or changes none.  *)
LEMMA Simulation ==
  ASSUME IInv, IInv', [Next]_vars
  PROVE  ModesStep
<1>1. ASSUME UNCHANGED <<writer, readers>>
      PROVE  ModesStep
  BY <1>1 DEF ModesStep, Modes!modes
<1>2. CASE UNCHANGED vars
  BY <1>1, <1>2 DEF vars, qtLocks
<1>3. CASE Next
  <2>1. PICK t \in Thread : Start(t) \/ Proceed(t)
    BY <1>3 DEF Next
  <2>2. CASE \/ RequestInterrupts(t) \/ BeginRead(t) \/ EndRead(t) \/ SaveTree(t)
             \/ LockStore(t) \/ UnlockStore(t)
    BY <1>1, <2>2
      DEF RequestInterrupts, BeginRead, EndRead, SaveTree, LockStore, UnlockStore, qtLocks
  <2>3. CASE BeginModification(t)
    <3>1. PICK m \in Manager : \E u \in UnitsOf(m) \cup {NoLock} : EnterSession(t, m, u)
      BY <2>3 DEF BeginModification
    <3> QED BY <3>1, EntryIsMode DEF IInv, UnitsOf
  <2>4. CASE GetSession(t)
    <3>1. manager[t] \in Manager /\ unit[t] \in Unit \cup {NoLock}
      BY <2>4 DEF GetSession, IInv, TypeOK, Arguments, TreeLocation
    <3> QED BY <2>4, <3>1, EntryIsMode DEF GetSession, IInv
  <2>5. CASE LockUnit(t)
    <3>1. unit[t] \in Unit /\ manager[t] = ManagerOf[unit[t]] /\ at[t] \in {"asked", "waitUnit"}
      BY <2>5 DEF LockUnit, IInv, Arguments, UnitsOf
    <3>2. LockForWrite(t, unit[t], "session", "waitUnit") /\ UNCHANGED readers
      BY <2>5 DEF LockUnit
    <3>3. LockedToWrite(t, unit[t], "session", "waitUnit")
      BY <3>1, <3>2, LockedForWrite DEF IInv, Location, Lock
    <3> QED BY <3>1, <3>2, <3>3, WritingIsMode
  <2>6. CASE ChangeModificationTarget(t) \/ EndModification(t)
    BY <2>6, ReleaseIsMode DEF ChangeModificationTarget, EndModification
  <2>7. CASE EndSession(t)
    BY <2>7, EndSessionIsMode
  <2>8. CASE ReadUnit(t)
    <3>1. unit[t] \in Lock
      BY <2>8, LocksAssumption DEF ReadUnit, IInv, Arguments, Lock
    <3>2. LockForRead(t, unit[t], "reading", "waitRead") /\ UNCHANGED writer
      BY <2>8 DEF ReadUnit
    <3>3. Locked(t, unit[t], "reading", "waitRead")
      BY <3>1, <3>2, LockedForRead DEF IInv, Location
    <3> QED BY <3>1, <3>2, <3>3, LockedForReadIsMode DEF IInv
  <2>9. CASE BeginExclusiveRead(t)
    <3>1. PICK m \in Manager : LockForRead(t, m, "global", "waitGlobal")
      BY <2>9 DEF BeginExclusiveRead
    <3>2. Locked(t, m, "global", "waitGlobal")
      BY <3>1, LockedForRead DEF IInv, Location, Lock
    <3> QED BY <2>9, <3>2, LockedForReadIsMode DEF IInv, BeginExclusiveRead, Lock
  <2>10. CASE GetExclusiveRead(t)
    <3>1. manager[t] \in Lock
      BY <2>10, LocksAssumption DEF GetExclusiveRead, IInv, Arguments, TreeLocation, Lock
    <3>2. LockForRead(t, manager[t], "global", "waitGlobal") /\ UNCHANGED writer
      BY <2>10 DEF GetExclusiveRead
    <3>3. Locked(t, manager[t], "global", "waitGlobal")
      BY <3>1, <3>2, LockedForRead DEF IInv, Location
    <3> QED BY <3>1, <3>2, <3>3, LockedForReadIsMode DEF IInv
  <2>11. CASE SaveBeginExclusiveRead(t)
    <3>1. manager[t] \in Lock
      BY <2>11, LocksAssumption DEF SaveBeginExclusiveRead, IInv, Arguments, TreeLocation, Lock
    <3>2. LockForRead(t, manager[t], "saving", "waitSave") /\ UNCHANGED writer
      BY <2>11 DEF SaveBeginExclusiveRead
    <3>3. Locked(t, manager[t], "saving", "waitSave")
      BY <3>1, <3>2, LockedForRead DEF IInv, Location
    <3> QED BY <3>1, <3>2, <3>3, LockedForReadIsMode DEF IInv
  <2>12. CASE LeaveUnit(t)
    <3>1. unit[t] \in Lock /\ readers[unit[t]][t] > 0
      BY <2>12, LocksAssumption DEF LeaveUnit, IInv, Arguments, Counts, Lock
    <3>2. UnlockRead(t, unit[t]) /\ UNCHANGED writer
      BY <2>12 DEF LeaveUnit
    <3> QED BY <3>1, <3>2, UnlockedRead, UnlockedIsMode DEF IInv
  <2>13. CASE EndExclusiveRead(t)
    <3>1. manager[t] \in Lock /\ readers[manager[t]][t] > 0
      BY <2>13, LocksAssumption
        DEF EndExclusiveRead, IInv, Arguments, Counts, TreeLocation, Lock
    <3>2. UnlockRead(t, manager[t]) /\ UNCHANGED writer
      BY <2>13 DEF EndExclusiveRead
    <3> QED BY <3>1, <3>2, UnlockedRead, UnlockedIsMode DEF IInv
  <2>14. CASE SaveEndExclusiveRead(t)
    <3>1. manager[t] \in Lock /\ readers[manager[t]][t] > 0
      BY <2>14, LocksAssumption
        DEF SaveEndExclusiveRead, IInv, Arguments, Counts, TreeLocation, Lock
    <3>2. UnlockRead(t, manager[t]) /\ UNCHANGED writer
      BY <2>14 DEF SaveEndExclusiveRead
    <3> QED BY <3>1, <3>2, UnlockedRead, UnlockedIsMode DEF IInv
  <2> QED BY <2>1, <2>2, <2>3, <2>4, <2>5, <2>6, <2>7, <2>8, <2>9, <2>10, <2>11, <2>12, <2>13,
     <2>14 DEF Start, Proceed
<1> QED BY <1>2, <1>3

(* Every behaviour of the locks is one of the access modes that the        *)
(* documentation promises (ModelBase.dox:122-143).                         *)
THEOREM Implementation == Spec => ModesSpec
<1>1. Init => Modes!Init
  BY LocksAssumption DEF Init, Modes!Init, Lock
<1>2. ASSUME IInv, IInv', [Next]_vars
      PROVE  [Modes!Next]_Modes!modes
  BY <1>2, Simulation DEF ModesStep
<1> QED BY <1>1, <1>2, Invariant, PTL DEF Spec, ModesSpec, Modes!Spec

-----------------------------------------------------------------------------
(***************************************************************************)
(* No deadlock.  Two things of the locks make one possible: units of       *)
(* several trees, each with a session of its own, that one thread reads    *)
(* together, and exclusiveAccess, whose readers have to wait even for a    *)
(* writer that waits for them.  Without these, whoever waits is waited for *)
(* in an order: savers, readers of trees, sessions that begin, readers of  *)
(* units, and a session that waits for a unit.                             *)
(***************************************************************************)
OneAtATime == MaxReads <= 1 \/ (~Nested /\ \A m, n \in Manager : m = n)

UnitReader == {"enter", "waitRead", "reading", "leave"}
TreeReader == {"waitGlobal", "global", "wantStore", "store", "waitSave", "saving", "saved"}

(* What a thread holds, by where it is.  Who waits to read a unit does not *)
(* read it, and reads no other if each read takes one lock only.           *)
HoldsAt(t) ==
  /\ at[t] \notin UnitReader => \A u \in Unit : readers[u][t] = 0
  /\ \A m \in Manager :
       readers[m][t] = IF at[t] \in {"global", "saving"} /\ m = manager[t] THEN 1 ELSE 0
  /\ at[t] \in UnitReader \cup TreeReader => reads[t] > 0
  /\ at[t] = "waitRead" => readers[unit[t]][t] = 0
  /\ MaxReads <= 1 /\ at[t] \in {"enter", "waitRead"} => \A u \in Unit : readers[u][t] = 0
  /\ storeAccess = t => at[t] \in {"store", "waitSave", "saving", "saved"}

Holds == \A t \in Thread : HoldsAt(t)

(* A step of t leaves alone what the others hold.                          *)
LEMMA OthersHold ==
  ASSUME Holds, NEW t \in Thread, HoldsAt(t)',
         \A s \in Thread \ {t} :
           /\ at'[s] = at[s] /\ manager'[s] = manager[s] /\ unit'[s] = unit[s] /\ reads'[s] = reads[s]
           /\ at[s] \in {"waitRead"} => unit[s] \in Unit
           /\ \A l \in Lock : readers'[l][s] = readers[l][s]
           /\ storeAccess' = s => storeAccess = s
  PROVE  Holds'
<1> SUFFICES ASSUME NEW s \in Thread \ {t} PROVE HoldsAt(s)'
  BY DEF Holds
<1>1. HoldsAt(s)
  BY DEF Holds
<1> QED BY <1>1 DEF HoldsAt, Lock

(* Steps that take or release no lock for reading.                         *)
LEMMA HoldsWithoutReading ==
  ASSUME IInv, Holds, OneAtATime, NEW t \in Thread,
         \/ BeginModification(t) \/ ChangeModificationTarget(t) \/ EndModification(t)
         \/ GetSession(t) \/ RequestInterrupts(t) \/ LockUnit(t) \/ EndSession(t)
  PROVE  Holds'
<1>1. TypeOK /\ Arguments /\ HoldsAt(t)
  BY DEF IInv, Holds
<1>2. UNCHANGED <<readers, storeAccess, reads>>
  BY DEF BeginModification, EnterSession, ChangeModificationTarget, EndModification, GetSession,
         RequestInterrupts, LockUnit, EndSession, qtLocks
<1> DEFINE Elsewhere == SessionLocation \cup {"idle", "waitSession"}
<1>3. \A s \in Thread \ {t} : at'[s] = at[s] /\ manager'[s] = manager[s] /\ unit'[s] = unit[s]
  BY <1>1 DEF BeginModification, EnterSession, ChangeModificationTarget, EndModification, GetSession,
     RequestInterrupts, LockUnit, EndSession, Goto, LockForWrite, TypeOK, call
<1>4. at[t] \in Elsewhere /\ at'[t] \in Elsewhere
  BY <1>1 DEF BeginModification, EnterSession, ChangeModificationTarget, EndModification, GetSession,
     RequestInterrupts, LockUnit, EndSession, Goto, LockForWrite, TypeOK, SessionLocation
<1>5. HoldsAt(t)'
  BY <1>1, <1>2, <1>4 DEF HoldsAt, UnitReader, TreeReader, SessionLocation
<1> QED BY <1>1, <1>2, <1>3, <1>5, OthersHold DEF Arguments

(* Readers of units.                                                       *)
LEMMA HoldsReadingUnits ==
  ASSUME IInv, Holds, OneAtATime, NEW t \in Thread,
         BeginRead(t) \/ ReadUnit(t) \/ EndRead(t) \/ LeaveUnit(t)
  PROVE  Holds'
<1>1. TypeOK /\ Arguments /\ Counts /\ Exclusion /\ HoldsAt(t)
  BY DEF IInv, Holds
<1>2. CASE BeginRead(t)
  <2>1. /\ at'[t] = "enter" /\ reads'[t] = reads[t] + 1 /\ reads[t] < MaxReads
        /\ at[t] \in {"idle", "reading"}
        /\ UNCHANGED <<readers, storeAccess>>
        /\ \A s \in Thread \ {t} : at'[s] = at[s] /\ manager'[s] = manager[s] /\ unit'[s] = unit[s] /\ reads'[s] = reads[s]
    BY <1>1, <1>2 DEF BeginRead, Goto, TypeOK, qtLocks
  <2>2. reads[t] \in Nat /\ MaxReads \in Nat
    BY <1>1, LocksAssumption DEF TypeOK
  <2>3. HoldsAt(t)'
    BY <1>1, <2>1, <2>2 DEF HoldsAt, UnitReader, TreeReader
  <2> QED BY <1>1, <2>1, <2>3, OthersHold DEF Arguments
<1>3. CASE ReadUnit(t)
  <2>1. unit[t] \in Unit /\ unit[t] \in Lock /\ unit[t] \notin Manager
    BY <1>1, <1>3, LocksAssumption DEF ReadUnit, Arguments, Lock
  <2>2. Locked(t, unit[t], "reading", "waitRead")
    BY <1>1, <1>3, <2>1, LockedForRead DEF ReadUnit, Location
  <2>3. at'[t] = "waitRead" => readers[unit[t]][t] = 0
    <3>1. CASE CanRead(t, unit[t])
      BY <1>1, <1>3, <3>1 DEF ReadUnit, LockForRead, Goto, TypeOK
    <3>2. CASE ~CanRead(t, unit[t])
      <4>1. ~(readers[unit[t]][t] > 0) /\ readers[unit[t]][t] \in Nat
        BY <1>1, <3>2, <2>1 DEF CanRead, TypeOK
      <4> QED BY <4>1
    <3> QED BY <3>1, <3>2
  <2>4. HoldsAt(t)'
    <3>1. at[t] \in {"enter", "waitRead"} /\ UNCHANGED <<storeAccess, unit, reads>>
      BY <1>3 DEF ReadUnit, call
    <3>2. \A m \in Manager : readers'[m][t] = readers[m][t]
      BY <2>1, <2>2 DEF Locked, Lock
    <3>3. at'[t] = "waitRead" => \A u \in Unit : readers'[u][t] = readers[u][t]
      BY <2>1, <2>2 DEF Locked, Lock
    <3> QED BY <1>1, <2>1, <2>2, <2>3, <3>1, <3>2, <3>3 DEF HoldsAt, UnitReader, TreeReader, Locked
  <2>5. \A s \in Thread \ {t} : at'[s] = at[s] /\ \A l \in Lock : readers'[l][s] = readers[l][s]
    BY <2>2 DEF Locked
  <2> QED BY <1>1, <1>3, <2>4, <2>5, OthersHold DEF ReadUnit, Arguments, call
<1>4. CASE EndRead(t)
  <2>1. /\ at'[t] = "leave" /\ at[t] = "reading"
        /\ UNCHANGED <<readers, storeAccess, reads>>
        /\ \A s \in Thread \ {t} : at'[s] = at[s] /\ manager'[s] = manager[s] /\ unit'[s] = unit[s]
    BY <1>1, <1>4 DEF EndRead, Goto, TypeOK, qtLocks
  <2>2. HoldsAt(t)'
    BY <1>1, <2>1 DEF HoldsAt, UnitReader, TreeReader
  <2> QED BY <1>1, <2>1, <2>2, OthersHold DEF Arguments
<1>5. CASE LeaveUnit(t)
  <2>1. unit[t] \in Unit /\ unit[t] \in Lock /\ unit[t] \notin Manager /\ readers[unit[t]][t] > 0
    BY <1>1, <1>5, LocksAssumption DEF LeaveUnit, Arguments, Counts, Lock
  <2>2. Unlocked(t, unit[t])
    BY <1>1, <1>5, <2>1, UnlockedRead DEF LeaveUnit
  <2>3. /\ at[t] = "leave" /\ UNCHANGED storeAccess
        /\ \/ at'[t] = "idle" /\ \A v \in Unit : readers'[v][t] = 0
           \/ at'[t] = "reading" /\ reads'[t] = reads[t]
        /\ \A s \in Thread \ {t} : at'[s] = at[s] /\ manager'[s] = manager[s] /\ unit'[s] = unit[s] /\ reads'[s] = reads[s]
    BY <1>1, <1>5 DEF LeaveUnit, Goto, TypeOK
  <2>4. \A m \in Manager : readers'[m][t] = readers[m][t]
    BY <2>1, <2>2 DEF Unlocked, Lock
  <2>5. HoldsAt(t)'
    BY <1>1, <2>3, <2>4 DEF HoldsAt, UnitReader, TreeReader
  <2>6. \A s \in Thread \ {t}, l \in Lock : readers'[l][s] = readers[l][s]
    BY <2>2 DEF Unlocked
  <2> QED BY <1>1, <2>3, <2>5, <2>6, OthersHold DEF Arguments
<1> QED BY <1>2, <1>3, <1>4, <1>5

(* A reader of a tree that may begin to read is not reading.               *)
LEMMA BeginsToRead ==
  ASSUME IInv, Holds, OneAtATime, NEW t \in Thread, NEW m \in Manager, MayReadTree(t, m)
  PROVE  at[t] = "idle"
<1>1. TypeOK /\ HoldsAt(t)
  BY DEF IInv, Holds
<1>2. reads[t] \in Nat /\ MaxReads \in Nat /\ reads[t] < MaxReads
  BY <1>1, LocksAssumption DEF TypeOK, MayReadTree
<1>3. at[t] = "global" => reads[t] > 0 /\ Nested
  BY <1>1 DEF HoldsAt, TreeReader, MayReadTree
<1> QED BY <1>2, <1>3 DEF MayReadTree, OneAtATime

(* Readers of trees, that save them or not.                                *)
LEMMA HoldsReadingTrees ==
  ASSUME IInv, Holds, OneAtATime, NEW t \in Thread,
         \/ BeginExclusiveRead(t) \/ SaveTree(t)
         \/ GetExclusiveRead(t) \/ SaveBeginExclusiveRead(t)
         \/ EndExclusiveRead(t) \/ SaveEndExclusiveRead(t)
         \/ LockStore(t) \/ UnlockStore(t)
  PROVE  Holds'
<1>1. TypeOK /\ Arguments /\ Counts /\ Exclusion /\ HoldsAt(t)
  BY DEF IInv, Holds
<1>2. "global" \in Location /\ "waitGlobal" \in Location /\ "saving" \in Location /\ "waitSave" \in Location
  BY DEF Location
<1>3. ASSUME NEW next \in {"global", "saving"}, NEW blocked \in {"waitGlobal", "waitSave"},
             LockForRead(t, manager'[t], next, blocked), manager'[t] \in Manager,
             at[t] \in {"idle"} \cup (TreeReader \ {"global", "saving"}),
             reads'[t] > 0, UNCHANGED <<storeAccess, unit>>,
             storeAccess = t => {next, blocked} \subseteq {"saving", "waitSave"},
             \A s \in Thread \ {t} : reads'[s] = reads[s] /\ manager'[s] = manager[s]
      PROVE  Holds'
  <2>1. manager'[t] \in Lock /\ manager'[t] \notin Unit
    BY <1>3, LocksAssumption DEF Lock
  <2>2. Locked(t, manager'[t], next, blocked)
    BY <1>1, <1>2, <1>3, <2>1, LockedForRead
  <2>3. \A u \in Unit : readers'[u][t] = readers[u][t]
    BY <2>1, <2>2 DEF Locked, Lock
  <2>4. \A m \in Manager : readers'[m][t] = IF at'[t] = next /\ m = manager'[t] THEN 1 ELSE 0
    <3> SUFFICES ASSUME NEW m \in Manager
                 PROVE  readers'[m][t] = IF at'[t] = next /\ m = manager'[t] THEN 1 ELSE 0
      OBVIOUS
    <3>1. readers[m][t] = 0 /\ m \in Lock
      BY <1>1, <1>3 DEF HoldsAt, TreeReader, Lock
    <3> QED BY <1>3, <3>1, <2>1, <2>2 DEF Locked
  <2>5. at'[t] \in {next, blocked}
    BY <2>2 DEF Locked
  <2>6. \A u \in Unit : readers[u][t] = 0
    BY <1>1, <1>3 DEF HoldsAt, UnitReader, TreeReader
  <2>7. HoldsAt(t)'
    BY <1>3, <2>2, <2>3, <2>4, <2>5, <2>6 DEF HoldsAt, UnitReader, TreeReader
  <2>8. \A s \in Thread \ {t} : at'[s] = at[s] /\ \A l \in Lock : readers'[l][s] = readers[l][s]
    BY <2>2 DEF Locked
  <2> QED BY <1>1, <1>3, <2>7, <2>8, OthersHold DEF Arguments
<1>4. CASE BeginExclusiveRead(t)
  <2>1. PICK m \in Manager : Reading(t, m) /\ LockForRead(t, m, "global", "waitGlobal")
    BY <1>4 DEF BeginExclusiveRead
  <2>2. manager'[t] = m /\ reads'[t] = reads[t] + 1 /\ reads[t] \in Nat
        /\ \A s \in Thread \ {t} : reads'[s] = reads[s] /\ manager'[s] = manager[s]
    BY <1>1, <2>1 DEF Reading, TypeOK
  <2>3. at[t] = "idle"
    BY <2>1, BeginsToRead DEF Reading
  <2>4. storeAccess # t
    BY <1>1, <2>3 DEF HoldsAt
  <2>5. UNCHANGED <<storeAccess, unit>>
    BY <1>4 DEF BeginExclusiveRead
  <2>6. reads'[t] > 0
    BY <2>2
  <2>7. LockForRead(t, manager'[t], "global", "waitGlobal") /\ manager'[t] \in Manager
    BY <2>1, <2>2
  <2> QED BY <1>3, <2>2, <2>3, <2>4, <2>5, <2>6, <2>7 DEF TreeReader
<1>5. CASE SaveTree(t)
  <2>1. PICK m \in Manager : Reading(t, m)
    BY <1>5 DEF SaveTree
  <2>2. at[t] = "idle"
    BY <2>1, BeginsToRead DEF Reading
  <2>3. /\ reads'[t] = reads[t] + 1 /\ reads[t] \in Nat /\ at'[t] = "wantStore"
        /\ UNCHANGED <<readers, storeAccess, unit>>
        /\ \A s \in Thread \ {t} : at'[s] = at[s] /\ manager'[s] = manager[s] /\ reads'[s] = reads[s]
    BY <1>1, <1>5, <2>1 DEF SaveTree, Reading, TypeOK, Goto, qtLocks
  <2>4. HoldsAt(t)'
    BY <1>1, <2>2, <2>3 DEF HoldsAt, UnitReader, TreeReader
  <2> QED BY <1>1, <2>3, <2>4, OthersHold DEF Arguments
<1>6. CASE GetExclusiveRead(t)
  <2>1. /\ at[t] = "waitGlobal" /\ LockForRead(t, manager[t], "global", "waitGlobal")
        /\ UNCHANGED <<storeAccess, unit, manager, reads>>
    BY <1>6 DEF GetExclusiveRead, call
  <2>2. manager[t] \in Manager /\ reads[t] > 0 /\ storeAccess # t
    BY <1>1, <2>1 DEF Arguments, HoldsAt, TreeLocation, TreeReader
  <2>3. LockForRead(t, manager'[t], "global", "waitGlobal") /\ manager'[t] \in Manager /\ reads'[t] > 0
    BY <2>1, <2>2
  <2> QED BY <1>3, <2>1, <2>2, <2>3 DEF TreeReader
<1>7. CASE SaveBeginExclusiveRead(t)
  <2>1. /\ at[t] \in {"store", "waitSave"} /\ LockForRead(t, manager[t], "saving", "waitSave")
        /\ UNCHANGED <<storeAccess, unit, manager, reads>>
    BY <1>7 DEF SaveBeginExclusiveRead, call
  <2>2. manager[t] \in Manager /\ reads[t] > 0
    BY <1>1, <2>1 DEF Arguments, HoldsAt, TreeLocation, TreeReader
  <2>3. LockForRead(t, manager'[t], "saving", "waitSave") /\ manager'[t] \in Manager /\ reads'[t] > 0
    BY <2>1, <2>2
  <2> QED BY <1>3, <2>1, <2>2, <2>3 DEF TreeReader
<1>8. CASE EndExclusiveRead(t) \/ SaveEndExclusiveRead(t)
  <2>1. /\ manager[t] \in Manager /\ manager[t] \in Lock /\ manager[t] \notin Unit
        /\ readers[manager[t]][t] > 0 /\ at[t] \in {"global", "saving"}
    BY <1>1, <1>8, LocksAssumption
       DEF EndExclusiveRead, SaveEndExclusiveRead, Arguments, Counts, TreeLocation, Lock
  <2>2. Unlocked(t, manager[t]) /\ UNCHANGED <<unit, storeAccess>>
    BY <1>1, <1>8, <2>1, UnlockedRead DEF EndExclusiveRead, SaveEndExclusiveRead, call
  <2>3. readers'[manager[t]][t] = 0
    <3>1. readers[manager[t]][t] = 1
      BY <1>1, <2>1 DEF HoldsAt
    <3> QED BY <3>1, <2>1, <2>2 DEF Unlocked
  <2>4. \A m \in Manager : readers'[m][t] = 0
    <3> SUFFICES ASSUME NEW m \in Manager, m # manager[t] PROVE readers'[m][t] = 0
      BY <2>3
    <3>1. readers'[m][t] = readers[m][t] /\ m \in Lock
      BY <2>1, <2>2 DEF Unlocked, Lock
    <3> QED BY <1>1, <3>1 DEF HoldsAt
  <2>5. \A u \in Unit : readers'[u][t] = 0
    <3> SUFFICES ASSUME NEW u \in Unit PROVE readers'[u][t] = 0
      OBVIOUS
    <3>1. readers'[u][t] = readers[u][t] /\ u # manager[t]
      BY <2>1, <2>2, LocksAssumption DEF Unlocked, Lock
    <3> QED BY <1>1, <2>1, <3>1 DEF HoldsAt, UnitReader
  <2>6. /\ \/ at'[t] = "idle" /\ at[t] = "global"
           \/ at'[t] = "saved" /\ at[t] = "saving" /\ reads'[t] = reads[t]
        /\ \A s \in Thread \ {t} : at'[s] = at[s] /\ manager'[s] = manager[s] /\ reads'[s] = reads[s]
    BY <1>1, <1>8, <2>3 DEF EndExclusiveRead, SaveEndExclusiveRead, Return, Goto, TypeOK, call
  <2>7. HoldsAt(t)'
    BY <1>1, <2>2, <2>4, <2>5, <2>6 DEF HoldsAt, UnitReader, TreeReader
  <2>8. \A s \in Thread \ {t}, l \in Lock : readers'[l][s] = readers[l][s]
    BY <2>2 DEF Unlocked
  <2> QED BY <1>1, <2>2, <2>6, <2>7, <2>8, OthersHold DEF Arguments
<1>9. CASE LockStore(t)
  <2>1. /\ at[t] = "wantStore" /\ at'[t] = "store" /\ storeAccess' = t /\ UNCHANGED <<readers, unit, reads>>
        /\ \A s \in Thread \ {t} : at'[s] = at[s] /\ manager'[s] = manager[s]
    BY <1>1, <1>9 DEF LockStore, Goto, TypeOK, qtLocks, call
  <2>2. HoldsAt(t)'
    BY <1>1, <2>1 DEF HoldsAt, UnitReader, TreeReader
  <2> QED BY <1>1, <2>1, <2>2, OthersHold DEF Arguments
<1>10. CASE UnlockStore(t)
  <2>1. at[t] = "saved" /\ UNCHANGED <<readers, unit>> /\ storeAccess' = NoThread /\ manager[t] \in Manager
    BY <1>1, <1>10 DEF UnlockStore, qtLocks, Arguments, TreeLocation
  <2>2. readers'[manager[t]][t] = 0
    BY <1>1, <2>1 DEF HoldsAt
  <2>3. /\ at'[t] = "idle" /\ \A s \in Thread \ {t} : at'[s] = at[s] /\ manager'[s] = manager[s] /\ reads'[s] = reads[s]
    BY <1>1, <1>10, <2>2 DEF UnlockStore, Return, Goto, TypeOK
  <2>4. HoldsAt(t)'
    BY <1>1, <2>1, <2>3, LocksAssumption DEF HoldsAt, UnitReader, TreeReader
  <2> QED BY <1>1, <2>1, <2>3, <2>4, OthersHold, LocksAssumption DEF Arguments
<1> QED BY <1>4, <1>5, <1>6, <1>7, <1>8, <1>9, <1>10

LEMMA HoldsKept ==
  ASSUME OneAtATime
  PROVE  Spec => [](IInv /\ Holds)
<1>1. ASSUME Init PROVE Holds
  <2> SUFFICES ASSUME NEW t \in Thread PROVE HoldsAt(t)
    BY DEF Holds
  <2>1. at[t] = "idle" /\ storeAccess # t /\ \A l \in Lock : readers[l][t] = 0
    BY <1>1, LocksAssumption DEF Init
  <2> QED BY <2>1 DEF HoldsAt, UnitReader, TreeReader, Lock
<1>2. ASSUME IInv, Holds, [Next]_vars
      PROVE  Holds'
  <2>1. CASE Next
    <3>1. PICK t \in Thread : Start(t) \/ Proceed(t)
      BY <2>1 DEF Next
    <3> QED
      BY <1>2, <3>1, HoldsWithoutReading, HoldsReadingUnits, HoldsReadingTrees DEF Start, Proceed
  <2>2. CASE UNCHANGED vars
    BY <1>2, <2>2 DEF vars, qtLocks, call, Holds, HoldsAt
  <2> QED BY <1>2, <2>1, <2>2
<1> QED BY <1>1, <1>2, Invariant, PTL DEF Spec

(* Who waits is at one of these places; a thread in a session waits for    *)
(* nobody but to lock a unit.                                              *)
LEMMA WaitsAt ==
  ASSUME NEW t \in Thread, NEW s, WaitsFor(t, s)
  PROVE  at[t] \in {"waitSession", "waitUnit", "waitRead", "waitGlobal", "waitSave", "wantStore"}
BY DEF WaitsFor, WaitsToWrite, WaitsToRead

(***************************************************************************)
(* ModelBase.dox:162: threads never all wait for one another, as long as   *)
(* they share one tree and exclusive reads are not nested, or each read    *)
(* takes one lock only.                                                    *)
(***************************************************************************)
THEOREM DeadlockFree ==
  ASSUME OneAtATime
  PROVE  Spec => []NoDeadlock
<1>1. ASSUME IInv, Holds, NEW S \in SUBSET Thread, S # {},
             \A t \in S : \E s \in S : WaitsFor(t, s)
      PROVE  FALSE
  <2>1. TypeOK /\ Arguments /\ Sessions /\ \A t \in Thread : HoldsAt(t)
    BY <1>1 DEF IInv, Holds
  <2>2. \A t \in S : t \in Thread /\
          at[t] \in {"waitSession", "waitUnit", "waitRead", "waitGlobal", "waitSave", "wantStore"}
    BY <1>1, WaitsAt
  <2>3. \A u \in Unit, s \in S : writer[u] # s
    BY <2>1, <2>2 DEF Sessions
  <2>4. ASSUME NEW t \in S, at[t] = "waitUnit"
        PROVE  FALSE
    <3>1. PICK s \in S : WaitsFor(t, s)
      BY <1>1
    <3>2. t \in Thread /\ s \in Thread /\ manager[t] \in Manager /\ unit[t] \in Unit
      BY <2>1, <2>2, <2>4 DEF Arguments, TreeLocation, SessionLocation, UnitsOf
    <3>3. readers[unit[t]][s] > 0
      BY <2>3, <2>4, <3>1, <3>2 DEF WaitsFor, WaitsToWrite, WaitsToRead
    <3>4. at[s] = "waitRead" /\ unit[s] \in Unit
      BY <2>1, <2>2, <3>2, <3>3 DEF HoldsAt, UnitReader, Arguments
    <3>5. ~(MaxReads <= 1)
      BY <2>1, <3>2, <3>3, <3>4 DEF HoldsAt
    <3>6. PICK r \in S : WaitsFor(s, r)
      BY <1>1
    <3>7. WaitsToWrite(r, unit[s]) /\ r \in Thread
      BY <2>2, <2>3, <3>4, <3>6 DEF WaitsFor, WaitsToWrite, WaitsToRead
    <3>8. at[r] = "waitUnit" /\ unit[r] = unit[s]
      BY <2>1, <3>4, <3>7, LocksAssumption DEF WaitsToWrite, Arguments, TreeLocation
    <3>9. manager[r] = manager[t]
      BY <2>1, <3>2, <3>5, <3>7, <3>8 DEF OneAtATime, Arguments, TreeLocation, SessionLocation
    <3>10. r = t
      BY <2>1, <2>4, <3>2, <3>7, <3>8, <3>9 DEF Sessions, SessionLocation
    <3> QED BY <2>1, <3>2, <3>3, <3>4, <3>8, <3>10 DEF HoldsAt
  <2>5. ASSUME NEW t \in S, at[t] = "waitRead"
        PROVE  FALSE
    <3>1. PICK s \in S : WaitsFor(t, s)
      BY <1>1
    <3>2. unit[t] \in Unit
      BY <2>1, <2>2, <2>5 DEF Arguments
    <3>3. WaitsToWrite(s, unit[t])
      BY <2>3, <2>5, <3>1, <3>2 DEF WaitsFor, WaitsToWrite, WaitsToRead
    <3>4. at[s] = "waitSession" /\ manager[s] \in Manager
      BY <2>1, <2>2, <2>4, <3>3 DEF WaitsToWrite, Arguments, TreeLocation
    <3> QED BY <3>2, <3>3, <3>4, LocksAssumption DEF WaitsToWrite
  <2>6. \A m \in Manager, s \in S : writer[m] # s
    BY <2>1, <2>2, <2>4 DEF Sessions, SessionLocation
  <2>7. ASSUME NEW t \in S, at[t] = "waitSession"
        PROVE  FALSE
    <3>1. PICK s \in S : WaitsFor(t, s)
      BY <1>1
    <3>2. manager[t] \in Manager
      BY <2>1, <2>2, <2>7 DEF Arguments, TreeLocation
    <3>3. readers[manager[t]][s] > 0
      BY <2>6, <2>7, <3>1, <3>2 DEF WaitsFor, WaitsToWrite, WaitsToRead
    <3>4. readers[manager[t]][s] = 0
      BY <2>1, <2>2, <3>2 DEF HoldsAt
    <3> QED BY <3>3, <3>4
  <2>8. ASSUME NEW t \in S, at[t] \in {"waitGlobal", "waitSave"}
        PROVE  FALSE
    <3>1. PICK s \in S : WaitsFor(t, s)
      BY <1>1
    <3>2. manager[t] \in Manager
      BY <2>1, <2>2, <2>8 DEF Arguments, TreeLocation
    <3>3. WaitsToWrite(s, manager[t])
      BY <2>6, <2>8, <3>1, <3>2 DEF WaitsFor, WaitsToWrite, WaitsToRead
    <3> QED BY <2>4, <2>7, <3>3 DEF WaitsToWrite
  <2>9. \A t \in S : at[t] = "wantStore"
    BY <2>2, <2>4, <2>5, <2>7, <2>8
  <2>10. PICK t \in S : TRUE
    BY <1>1
  <2>11. PICK s \in S : WaitsFor(t, s)
    BY <1>1
  <2>12. storeAccess = s
    BY <2>9, <2>11 DEF WaitsFor, WaitsToWrite, WaitsToRead
  <2> QED BY <2>1, <2>2, <2>9, <2>12 DEF HoldsAt
<1>2. IInv /\ Holds => NoDeadlock
  <2> SUFFICES ASSUME IInv, Holds, NEW S \in SUBSET Thread, S # {}
               PROVE  \E t \in S : \A s \in S : ~WaitsFor(t, s)
    BY DEF NoDeadlock
  <2> QED BY <1>1
<1> QED BY <1>2, HoldsKept, PTL
=============================================================================
