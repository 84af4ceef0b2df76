------------------------- MODULE JavaDebuggerProofs -------------------------
(***************************************************************************)
(* JavaDebugger, for all nodes, classes, tracked variables and bounds: the *)
(* breakpoints of the debugger and those of the VM agree, and no           *)
(* breakpoint is forgotten.                                                *)
(*                                                                         *)
(* Between two commands of the user this is simple, but not inductive: a   *)
(* command is several requests, and while one is on its way events of the  *)
(* VM are handled that set breakpoints of their own.  The invariant says   *)
(* what is true at each of those moments.                                  *)
(***************************************************************************)
EXTENDS JavaDebugger, FiniteSetTheorems, TLAPS

Op == [op : {"add"}, node : Node, type : {"user", "internal"}]
      \cup [op : {"listen"}, ids : SUBSET Nat, action : {"stop", "resume"}]
      \cup [op : {"remove"}, id : Nat]

What == {"class", "set", "prepare", "clear"}

MachineTypes ==
  /\ vm \in {"off", "running", "suspended"}
  /\ lastRequest \in Nat
  /\ DOMAIN requests \subseteq 1..lastRequest
  /\ stepping \in BOOLEAN
  /\ event \in [kind : {"none", "start", "prepare", "break", "death"}, requests : SUBSET Nat,
                step : BOOLEAN, before : BOOLEAN]

PlacesTypes ==
  /\ DOMAIN setBreakpoints \subseteq 1..lastRequest
  /\ \A r \in DOMAIN setBreakpoints : setBreakpoints[r] \in Node
  /\ unsetBreakpoints \subseteq Node /\ IsFiniteSet(unsetBreakpoints)

VirtualTypes ==
  /\ nextBreakpointId \in Nat
  /\ DOMAIN breakpointIds \subseteq 1..nextBreakpointId
  /\ \A id \in DOMAIN breakpointIds : breakpointIds[id] \in Node
  /\ DOMAIN breakpointListeners \subseteq Nat
  /\ \A n \in DOMAIN userBreakpoints : userBreakpoints[n] \in Nat

ShownTypes ==
  /\ trackedVariables \in Seq(Nat)
  /\ \A p \in probes : p[2] \in Nat

CommandTypes ==
  /\ todo \in Seq(Op)
  /\ ask \in [what : What \cup {"none"}, phase : {"none", "asked", "answered"},
              node : Node \cup {NoAsk.node}, result : Nat]

FlagTypes ==
  vmAlive \in BOOLEAN /\ slot \in BOOLEAN /\ failed \in BOOLEAN /\ raced \in BOOLEAN /\ shared \in BOOLEAN

Types ==
  MachineTypes /\ PlacesTypes /\ VirtualTypes /\ ShownTypes /\ CommandTypes /\ FlagTypes

(* A request belongs to the first step of the command. *)
Asks == ask.what # "none"

Asking ==
  /\ ~Asks => ask = NoAsk
  /\ Asks =>
       /\ ask.phase # "none" /\ ask.node \in Node
       /\ todo # <<>>
       /\ ask.what # "clear" => Head(todo).op = "add" /\ Head(todo).node = ask.node
       /\ ask.what = "clear" => Head(todo).op = "remove" /\ ask.result \in 1..lastRequest
       /\ ask.what = "set" /\ ask.phase = "answered"
            => ask.result \in 1..lastRequest /\ ask.result \notin DOMAIN setBreakpoints

(* The VM waits while an event is under way; the debugger knows that it lives. *)
Events_ ==
  /\ event.kind \in {"start", "prepare", "break"} => vm = "suspended"
  /\ event.kind = "death" => vm = "off"
  /\ ~vmAlive /\ vm # "off" =>
       event.kind = "start" /\ DOMAIN requests = {} /\ DOMAIN setBreakpoints = {} /\ ~Asks

(* The breakpoints of the VM are those that are set, but for the one asked for. *)
Known ==
  vm # "off" =>
    /\ \A r \in DOMAIN requests :
         \/ r \in DOMAIN setBreakpoints /\ LocationOf[setBreakpoints[r]] = requests[r]
         \/ Returning("set", r)
    /\ \A r \in DOMAIN setBreakpoints : r \in DOMAIN requests \/ Returning("clear", r)
    /\ ask.what = "set" /\ ask.phase = "answered"
         => ask.result \in DOMAIN requests /\ requests[ask.result] = LocationOf[ask.node]
    /\ ask.what = "clear" /\ ask.phase = "answered" => ask.result \notin DOMAIN requests

(* While the VM rests, the event that is under way is of known breakpoints. *)
EventsKnown ==
  ~raced =>
    /\ ~failed
    /\ event.kind = "break" =>
         event.requests \subseteq DOMAIN setBreakpoints /\ (Asks => event.before)

(* The loading of the class of n is reported, or that is being asked for. *)
Watched(n) ==
  /\ ClassOf[n] \notin loaded
  /\ ClassOf[n] \in prepares \/ (ask.what = "prepare" /\ ClassOf[n] = ClassOf[ask.node])

Waiting ==
  /\ breakOnLoadClasses \subseteq prepares
  /\ ask.what = "prepare" /\ ask.phase = "answered" => ClassOf[ask.node] \in prepares
  /\ ~raced /\ ask.what = "class" /\ ask.phase = "answered" /\ ask.result = 0
       => ClassOf[ask.node] \notin loaded
  /\ ~raced /\ vmAlive /\ event.kind # "prepare" => \A n \in unsetBreakpoints : Watched(n)

(* Each location is that of one node. *)
OneNodeEach == \A m, n \in Node : LocationOf[m] = LocationOf[n] => m = n

(***************************************************************************)
(* A command adds breakpoints and then their listeners, or removes some.   *)
(***************************************************************************)
Finished == nextBreakpointId - (IF Asks THEN 1 ELSE 0)

Planned ==
  /\ \A i \in 1..Len(todo) : todo[i].op = "listen" =>
       /\ i = Len(todo)
       /\ \A j \in 1..(i - 1) : todo[j].op = "add"
       /\ todo[i].ids \subseteq 1..(Finished + i - 1)
       /\ (nextBreakpointId + 1)..(Finished + i - 1) \subseteq todo[i].ids
  /\ \A i \in 1..Len(todo) : todo[i].op = "add" => todo[Len(todo)].op = "listen"

(* The listeners that resume are not those of the user. *)
OfUser ==
  \A i \in 1..Len(todo) : todo[i].op = "listen" /\ todo[i].action = "resume" =>
    /\ \A j \in 1..Len(todo) : todo[j].op = "add" => todo[j].type # "user"
    /\ \A n \in DOMAIN userBreakpoints : userBreakpoints[n] \notin todo[i].ids

UserListens ==
  /\ DOMAIN breakpointListeners \subseteq 1..nextBreakpointId
  /\ \A n \in DOMAIN userBreakpoints :
       LET id == userBreakpoints[n]
       IN  /\ id \in 1..nextBreakpointId
           /\ id \in DOMAIN breakpointIds => breakpointIds[id] = n
           /\ id \in DOMAIN breakpointListeners => breakpointListeners[id] = "stop"

(* The breakpoints of an event are at one location. *)
EventPlace ==
  event.kind = "break" =>
    /\ event.requests \subseteq 1..lastRequest
    /\ \E l \in Location : \A r \in event.requests :
         /\ r \in DOMAIN requests => requests[r] = l
         /\ r \in DOMAIN setBreakpoints => LocationOf[setBreakpoints[r]] = l

(* Each breakpoint has its listeners, or will have. *)
Removing == IF ask.what = "clear" THEN {Head(todo).id} ELSE {}

ToListen(id) == \E i \in 1..Len(todo) : todo[i].op = "listen" /\ id \in todo[i].ids

Listened ==
  /\ Removing \cap DOMAIN breakpointIds = {}
  /\ \A id : id \in DOMAIN breakpointIds \cup Removing
       <=> id \in DOMAIN breakpointListeners \/ (id \in 1..nextBreakpointId /\ ToListen(id))

(* The node whose breakpoint is on its way to a place, or to none. *)
Coming == IF ask.what \in {"class", "set"} THEN {ask.node} ELSE {}
Going == IF ask.what = "clear" THEN {ask.node} ELSE {}

Set == {setBreakpoints[r] : r \in DOMAIN setBreakpoints}
Virtual == {breakpointIds[id] : id \in DOMAIN breakpointIds}

Placed ==
  ~shared =>
    /\ IsInjective(breakpointIds) /\ IsInjective(setBreakpoints)
    /\ unsetBreakpoints \cup Set \cup Coming = Virtual \cup Going
    /\ unsetBreakpoints \cap Set = {}
    /\ Coming \cap (unsetBreakpoints \cup Set) = {} /\ Going \cap Virtual = {}
    /\ ask.what = "clear" => ask.result \in DOMAIN setBreakpoints /\ setBreakpoints[ask.result] = ask.node
    /\ \A n \in DOMAIN userBreakpoints : n \in Virtual \cup Going

JInv == Types /\ Asking /\ Events_ /\ Known /\ EventsKnown /\ Waiting
CInv == Planned /\ OfUser /\ UserListens /\ EventPlace /\ Listened

-----------------------------------------------------------------------------
LEMMA MapOver ==
  ASSUME NEW f, NEW g
  PROVE  /\ DOMAIN Over(g, f) = DOMAIN g \cup DOMAIN f
         /\ \A x \in DOMAIN g : Over(g, f)[x] = g[x]
         /\ \A x \in DOMAIN f \ DOMAIN g : Over(g, f)[x] = f[x]
BY DEF Over

LEMMA MapWith ==
  ASSUME NEW f, NEW x, NEW v
  PROVE  /\ DOMAIN With(f, x, v) = DOMAIN f \cup {x}
         /\ With(f, x, v)[x] = v
         /\ \A y \in DOMAIN f \ {x} : With(f, x, v)[y] = f[y]
BY DEF With, Over

LEMMA MapWithout ==
  ASSUME NEW f, NEW x
  PROVE  /\ DOMAIN Without(f, x) = DOMAIN f \ {x}
         /\ \A y \in DOMAIN f \ {x} : Without(f, x)[y] = f[y]
BY DEF Without, Restrict

LEMMA EmptyMap == DOMAIN Empty = {}
BY DEF Empty

LEMMA NoEventTypes ==
  /\ NoEvent \in [kind : {"none", "start", "prepare", "break", "death"}, requests : SUBSET Nat,
                   step : BOOLEAN, before : BOOLEAN]
  /\ [NoEvent EXCEPT !.kind = "start"]
       \in [kind : {"none", "start", "prepare", "break", "death"}, requests : SUBSET Nat,
            step : BOOLEAN, before : BOOLEAN]
BY DEF NoEvent

LEMMA NoAskFields == NoAsk.what = "none" /\ NoAsk.phase = "none" /\ NoAsk.result = 0
BY DEF NoAsk

(* trySetBreakpoints: the new breakpoints have new ids, and nodes of loaded classes. *)
LEMMA TrySetStep ==
  ASSUME Types, TrySetBreakpoints
  PROVE  \E k \in Nat :
           LET new == (lastRequest + 1)..(lastRequest + k)
           IN  /\ lastRequest' = lastRequest + k
               /\ DOMAIN setBreakpoints' = DOMAIN setBreakpoints \cup new
               /\ DOMAIN requests' = DOMAIN requests \cup new
               /\ \A r \in new : /\ setBreakpoints'[r] \in unsetBreakpoints
                                 /\ ClassOf[setBreakpoints'[r]] \in loaded
                                 /\ requests'[r] = LocationOf[setBreakpoints'[r]]
               /\ \A r \in DOMAIN setBreakpoints : r \notin new /\ setBreakpoints'[r] = setBreakpoints[r]
               /\ \A r \in DOMAIN requests : r \notin new /\ requests'[r] = requests[r]
<1> DEFINE ready == {n \in unsetBreakpoints : ClassOf[n] \in loaded}
           locations == {LocationOf[n] : n \in ready}
           k == Cardinality(locations)
<1>1. k \in Nat
  <2>1. IsFiniteSet(ready)
    BY FS_Subset DEF Types, MachineTypes, PlacesTypes, VirtualTypes, ShownTypes, CommandTypes, FlagTypes
  <2>2. [n \in ready |-> LocationOf[n]] \in Surjection(ready, locations)
    BY DEF Surjection
  <2>3. IsFiniteSet(locations)
    <3> HIDE DEF ready, locations
    <3> QED BY <2>1, <2>2, FS_Surjection
  <2> QED BY <2>3, FS_CardinalityType
<1>2. PICK chosen, order :
        /\ chosen \in SUBSET ready
        /\ order \in Bijection((lastRequest + 1)..(lastRequest + k), chosen)
        /\ setBreakpoints' = Over(order, setBreakpoints)
        /\ requests' = Over([r \in DOMAIN order |-> LocationOf[order[r]]], requests)
        /\ lastRequest' = lastRequest + k
  BY DEF TrySetBreakpoints
<1>3. order \in [(lastRequest + 1)..(lastRequest + k) -> chosen]
  BY <1>2 DEF Bijection, Injection
<1> DEFINE new == (lastRequest + 1)..(lastRequest + k)
           places_ == [r \in DOMAIN order |-> LocationOf[order[r]]]
<1>4. DOMAIN order = new /\ DOMAIN places_ = new
  BY <1>3
<1>5. \A r \in new : order[r] \in unsetBreakpoints /\ ClassOf[order[r]] \in loaded
  BY <1>2, <1>3
<1>6. /\ DOMAIN setBreakpoints \subseteq 1..lastRequest /\ DOMAIN requests \subseteq 1..lastRequest
      /\ lastRequest \in Nat
  BY DEF Types, PlacesTypes, MachineTypes
<1>7. \A r \in 1..lastRequest : r \notin new
  <2> HIDE DEF k
  <2> QED BY <1>1, <1>6
<1> HIDE DEF k, new
<1>8. /\ DOMAIN setBreakpoints' = DOMAIN setBreakpoints \cup new
      /\ \A r \in new : setBreakpoints'[r] = order[r]
      /\ \A r \in DOMAIN setBreakpoints : r \notin new /\ setBreakpoints'[r] = setBreakpoints[r]
  BY <1>2, <1>4, <1>6, <1>7 DEF Over
<1>9. /\ DOMAIN requests' = DOMAIN requests \cup new
      /\ \A r \in new : requests'[r] = LocationOf[order[r]]
      /\ \A r \in DOMAIN requests : r \notin new /\ requests'[r] = requests[r]
  BY <1>2, <1>4, <1>6, <1>7 DEF Over
<1>10. /\ DOMAIN setBreakpoints' = DOMAIN setBreakpoints \cup new
       /\ DOMAIN requests' = DOMAIN requests \cup new
       /\ \A r \in new : /\ setBreakpoints'[r] \in unsetBreakpoints
                         /\ ClassOf[setBreakpoints'[r]] \in loaded
                         /\ requests'[r] = LocationOf[setBreakpoints'[r]]
  BY <1>5, <1>8, <1>9
<1> QED BY <1>1, <1>2, <1>8, <1>9, <1>10 DEF new

LEMMA InitHolds == Init => JInv
<1> SUFFICES ASSUME Init PROVE JInv
  OBVIOUS
<1> USE EmptyMap DEF Init
<1>1. Types
  <2>1. IsFiniteSet(unsetBreakpoints)
    BY FS_EmptySet
  <2>2. MachineTypes
    BY NoEventTypes DEF MachineTypes
  <2>3. PlacesTypes
    BY <2>1 DEF PlacesTypes
  <2>4. VirtualTypes
    BY DEF VirtualTypes
  <2>5. ShownTypes
    BY DEF ShownTypes
  <2>7. FlagTypes
    BY DEF FlagTypes
  <2>6. CommandTypes
    BY DEF CommandTypes, NoAsk
  <2> QED BY <2>2, <2>3, <2>4, <2>5, <2>6, <2>7 DEF Types
<1>2. Asking /\ Events_ /\ Known /\ EventsKnown /\ Waiting
  BY NoAskFields DEF Asks, Asking, Events_, Known, EventsKnown, Waiting, NoEvent
<1> QED BY <1>1, <1>2 DEF JInv

-----------------------------------------------------------------------------
NowAsking ==
  ask' \in [what : What \cup {"none"}, phase : {"none", "asked", "answered"},
            node : Node \cup {NoAsk.node}, result : Nat]

NowEvent ==
  event' \in [kind : {"none", "start", "prepare", "break", "death"}, requests : SUBSET Nat,
              step : BOOLEAN, before : BOOLEAN]

LEMMA SendTypes ==
  ASSUME NEW kind \in {"prepare", "break", "death"}, NEW ids \in SUBSET Nat, NEW step \in BOOLEAN,
         Send(kind, ids, step)
  PROVE  NowEvent
<1>1. (ask.phase = "asked") \in BOOLEAN
  OBVIOUS
<1> QED BY <1>1 DEF Send, NowEvent

LEMMA RequestTypes ==
  ASSUME Types, NEW what \in What, NEW n \in Node, NEW result \in Nat, Request(what, n, result)
  PROVE  NowAsking /\ NowEvent
BY DEF Request, Types, MachineTypes, CommandTypes, NowAsking, NowEvent

LEMMA DoneTypes ==
  ASSUME Types, Done, todo # <<>>
  PROVE  NowAsking /\ NowEvent /\ todo' \in Seq(Op)
BY DEF Done, Types, MachineTypes, CommandTypes, NowAsking, NowEvent, NoAsk

(* The node of a step that adds, the id of one that removes. *)
LEMMA HeadOp ==
  ASSUME CommandTypes, todo # <<>>
  PROVE  /\ Head(todo) \in Op
         /\ Head(todo).op = "add" => Head(todo).node \in Node
         /\ Head(todo).op = "remove" => Head(todo).id \in Nat
         /\ Head(todo).op = "listen" => Head(todo).ids \in SUBSET Nat
BY DEF CommandTypes, Op

LEMMA MachineTypesKept ==
  ASSUME JInv, Next
  PROVE  MachineTypes'
<1> USE DEF JInv, Types, MachineTypes, FlagTypes
<1>1. CASE LoadClass
  <2>1. NowEvent
    BY <1>1, SendTypes DEF LoadClass, NowEvent
  <2> QED BY <1>1, <2>1 DEF LoadClass, NowEvent
<1>2. CASE Reach
  <2>1. PICK l \in Location : Send("break", {r \in DOMAIN requests : requests[r] = l}, stepping)
    BY <1>2 DEF Reach
  <2>2. {r \in DOMAIN requests : requests[r] = l} \in SUBSET Nat /\ stepping \in BOOLEAN
    OBVIOUS
  <2>3. NowEvent
    BY <2>1, <2>2, SendTypes
  <2> QED BY <1>2, <2>3 DEF Reach, NowEvent
<1>3. CASE Exit
  <2>1. NowEvent
    BY <1>3, SendTypes DEF Exit
  <2> QED BY <1>3, <2>1 DEF Exit, NowEvent
<1>4. CASE Answer
  <2>1. \/ UNCHANGED <<requests, lastRequest>>
        \/ lastRequest' = lastRequest + 1 /\ DOMAIN requests' = DOMAIN requests \cup {lastRequest + 1}
        \/ lastRequest' = lastRequest /\ DOMAIN requests' \subseteq DOMAIN requests
    BY <1>4 DEF Answer, With, Over, Without, Restrict
  <2>2. lastRequest' \in Nat /\ DOMAIN requests' \subseteq 1..lastRequest'
    BY <2>1
  <2> QED BY <1>4, <2>2 DEF Answer
<1>5. CASE HandleVMStart
  <2>1. PICK k \in Nat :
          /\ lastRequest' = lastRequest + k
          /\ DOMAIN requests' = DOMAIN requests \cup (lastRequest + 1)..(lastRequest + k)
    BY <1>5, TrySetStep DEF HandleVMStart
  <2>2. lastRequest' \in Nat /\ DOMAIN requests' \subseteq 1..lastRequest'
    BY <2>1
  <2> QED BY <1>5, <2>2, NoEventTypes DEF HandleVMStart, Dispatch, Resumed
<1>6. CASE HandleVMDeath \/ HandleBreakpoint
  BY <1>6, NoEventTypes DEF HandleVMDeath, HandleBreakpoint, Dispatch, Resumed
<1>7. CASE SlotEnds
  BY <1>7 DEF SlotEnds, machine
<1>8. CASE Steps
  <2>1. UNCHANGED ofMachine
    BY <1>8
       DEF Steps, AddBreakpoint, ClassIsLoaded, ClassIsNotLoaded, BreakpointIsSet, ClassIsWatched,
           AddListeners, RemoveBreakpoint, RemoveUnknown, BreakpointIsCleared, ofEvents
  <2>2. event' = event \/ event' = [event EXCEPT !.before = event.kind # "none"]
    BY <1>8
       DEF Steps, AddBreakpoint, ClassIsLoaded, ClassIsNotLoaded, BreakpointIsSet, ClassIsWatched,
           AddListeners, RemoveBreakpoint, RemoveUnknown, BreakpointIsCleared, Request, Done
  <2> QED BY <2>1, <2>2 DEF ofMachine
<1>9. CASE ToggleBreakpoint \/ Probe \/ RemoveProbe \/ TrackVariable \/ UntrackVariable
  BY <1>9
     DEF ToggleBreakpoint, Probe, RemoveProbe, TrackVariable, UntrackVariable, ofCommand, machine
<1>10. CASE Go
  BY <1>10 DEF Go
<1>11. CASE DebugTree
  BY <1>11, EmptyMap, NoEventTypes DEF DebugTree
<1> QED BY <1>1, <1>2, <1>3, <1>4, <1>5, <1>6, <1>7, <1>8, <1>9, <1>10, <1>11
        DEF Next, VM, Events, Commands

LEMMA PlacesTypesKept ==
  ASSUME JInv, Next
  PROVE  PlacesTypes'
<1> USE DEF JInv, Types, PlacesTypes
<1>1. CASE LoadClass \/ Reach \/ Exit \/ HandleVMDeath \/ HandleBreakpoint \/ SlotEnds \/ AddListeners
           \/ RemoveUnknown
  BY <1>1
     DEF LoadClass, Reach, Exit, HandleVMDeath, HandleBreakpoint, SlotEnds, AddListeners,
         RemoveUnknown, ofEvents, ofMachine, machine, ofDebugger, places
<1>2. CASE ToggleBreakpoint \/ Probe \/ RemoveProbe \/ TrackVariable \/ UntrackVariable \/ Go
  BY <1>2
     DEF ToggleBreakpoint, Probe, RemoveProbe, TrackVariable, UntrackVariable, Go, ofCommand,
         machine, places
<1>3. CASE Answer
  <2>1. lastRequest' \in Nat /\ 1..lastRequest \subseteq 1..lastRequest'
    BY <1>3 DEF Answer, MachineTypes
  <2> QED BY <1>3, <2>1 DEF Answer, places
<1>4. CASE HandleVMStart
  <2> DEFINE new(k) == (lastRequest + 1)..(lastRequest + k)
  <2>1. PICK k \in Nat :
          /\ lastRequest' = lastRequest + k
          /\ DOMAIN setBreakpoints' = DOMAIN setBreakpoints \cup new(k)
          /\ \A r \in new(k) : setBreakpoints'[r] \in unsetBreakpoints
          /\ \A r \in DOMAIN setBreakpoints : setBreakpoints'[r] = setBreakpoints[r]
    BY <1>4, TrySetStep DEF HandleVMStart
  <2>2. DOMAIN setBreakpoints' \subseteq 1..lastRequest'
    BY <2>1 DEF MachineTypes
  <2>3. /\ DOMAIN setBreakpoints' \subseteq 1..lastRequest'
        /\ \A r \in DOMAIN setBreakpoints' : setBreakpoints'[r] \in Node
    BY <2>1, <2>2
  <2>4. unsetBreakpoints' \in SUBSET unsetBreakpoints
    BY <1>4 DEF HandleVMStart, TrySetBreakpoints
  <2>5. IsFiniteSet(unsetBreakpoints')
    BY <2>4, FS_Subset
  <2> QED BY <2>3, <2>4, <2>5
<1>5. CASE AddBreakpoint
  <2>1. Head(todo).node \in Node
    BY <1>5, HeadOp DEF AddBreakpoint, Doing
  <2>2. IsFiniteSet(unsetBreakpoints \cup {Head(todo).node})
    BY FS_AddElement
  <2> QED BY <1>5, <2>1, <2>2 DEF AddBreakpoint, ofEvents, ofMachine
<1>6. CASE ClassIsLoaded
  BY <1>6 DEF ClassIsLoaded, ofEvents, ofMachine, places
<1>7. CASE ClassIsNotLoaded
  <2>1. ask.node \in Node
    BY <1>7, NoAskFields DEF ClassIsNotLoaded, Returns, Asks, Asking
  <2>2. IsFiniteSet(unsetBreakpoints \cup {ask.node})
    BY FS_AddElement
  <2> QED BY <1>7, <2>1, <2>2 DEF ClassIsNotLoaded, ofEvents, ofMachine
<1>8. CASE BreakpointIsSet
  <2>1. ask.node \in Node /\ ask.result \in 1..lastRequest
    BY <1>8, NoAskFields DEF BreakpointIsSet, Returns, Asks, Asking
  <2>2. /\ DOMAIN setBreakpoints' = DOMAIN setBreakpoints \cup {ask.result}
        /\ \A r \in DOMAIN setBreakpoints' : setBreakpoints'[r] \in {ask.node, setBreakpoints[r]}
        /\ setBreakpoints'[ask.result] = ask.node
    BY <1>8 DEF BreakpointIsSet, With, Over
  <2> QED BY <1>8, <2>1, <2>2 DEF BreakpointIsSet, ofEvents, ofMachine
<1>9. CASE ClassIsWatched
  BY <1>9 DEF ClassIsWatched, ofEvents, ofMachine
<1>10. CASE RemoveBreakpoint
  <2>1. /\ DOMAIN setBreakpoints' \subseteq DOMAIN setBreakpoints
        /\ \A r \in DOMAIN setBreakpoints' : setBreakpoints'[r] = setBreakpoints[r]
    BY <1>10 DEF RemoveBreakpoint, Without, Restrict
  <2>2. unsetBreakpoints' \in SUBSET unsetBreakpoints /\ lastRequest' = lastRequest
    BY <1>10 DEF RemoveBreakpoint, Unset, ofEvents, ofMachine
  <2>3. IsFiniteSet(unsetBreakpoints')
    BY <2>2, FS_Subset
  <2> QED BY <2>1, <2>2, <2>3
<1>11. CASE BreakpointIsCleared
  <2>1. /\ DOMAIN setBreakpoints' \subseteq DOMAIN setBreakpoints
        /\ \A r \in DOMAIN setBreakpoints' : setBreakpoints'[r] = setBreakpoints[r]
    BY <1>11 DEF BreakpointIsCleared, Cleared, Without, Restrict
  <2> QED BY <1>11, <2>1 DEF BreakpointIsCleared, ofEvents, ofMachine
<1>12. CASE DebugTree
  <2>1. unsetBreakpoints' = unsetBreakpoints \cup Range(setBreakpoints)
    BY <1>12 DEF DebugTree, UnsetAgain
  <2>2. IsFiniteSet(DOMAIN setBreakpoints)
    BY FS_Interval, FS_Subset DEF MachineTypes
  <2> DEFINE nodes == [r \in DOMAIN setBreakpoints |-> setBreakpoints[r]]
  <2>3. nodes \in Surjection(DOMAIN setBreakpoints, Range(setBreakpoints))
    BY DEF Surjection, Range
  <2> HIDE DEF nodes
  <2>4. IsFiniteSet(unsetBreakpoints')
    BY <2>1, <2>2, <2>3, FS_Surjection, FS_Union
  <2>5. unsetBreakpoints' \subseteq Node
    BY <2>1 DEF Range
  <2> QED BY <1>12, <2>4, <2>5 DEF DebugTree, Empty
<1> QED BY <1>1, <1>2, <1>3, <1>4, <1>5, <1>6, <1>7, <1>8, <1>9, <1>10, <1>11, <1>12
        DEF Next, VM, Events, Steps, Commands

LEMMA VirtualTypesKept ==
  ASSUME JInv, Next
  PROVE  VirtualTypes'
<1> USE DEF JInv, Types, VirtualTypes
<1>1. CASE VM \/ Events
  BY <1>1
     DEF VM, Events, LoadClass, Reach, Exit, Answer, HandleVMStart, HandleVMDeath, HandleBreakpoint,
         SlotEnds, ofDebugger, virtual
<1>2. CASE ToggleBreakpoint \/ Probe \/ RemoveProbe \/ TrackVariable \/ UntrackVariable \/ Go \/ DebugTree
  BY <1>2
     DEF ToggleBreakpoint, Probe, RemoveProbe, TrackVariable, UntrackVariable, Go, DebugTree, ofCommand,
         virtual
<1>3. CASE AddBreakpoint
  <2> DEFINE n == Head(todo).node
  <2>1. n \in Node
    BY <1>3, HeadOp DEF AddBreakpoint, Doing
  <2>2. NewBreakpoint(n, Head(todo).type) /\ UNCHANGED breakpointListeners
    BY <1>3 DEF AddBreakpoint
  <2>3. /\ DOMAIN breakpointIds' = DOMAIN breakpointIds \cup {nextBreakpointId'}
        /\ \A id \in DOMAIN breakpointIds' : breakpointIds'[id] \in {n, breakpointIds[id]}
        /\ breakpointIds'[nextBreakpointId'] = n
        /\ nextBreakpointId' = nextBreakpointId + 1
    BY <2>2 DEF NewBreakpoint, With, Over
  <2>4. \A m \in DOMAIN userBreakpoints' :
          \/ userBreakpoints'[m] = nextBreakpointId + 1
          \/ m \in DOMAIN userBreakpoints /\ userBreakpoints'[m] = userBreakpoints[m]
    BY <2>2 DEF NewBreakpoint, With, Over
  <2> QED BY <2>1, <2>2, <2>3, <2>4
<1>4. CASE ClassIsLoaded \/ ClassIsNotLoaded \/ BreakpointIsSet \/ ClassIsWatched
  BY <1>4 DEF ClassIsLoaded, ClassIsNotLoaded, BreakpointIsSet, ClassIsWatched, virtual
<1>5. CASE AddListeners
  <2>1. Head(todo).ids \in SUBSET Nat
    BY <1>5, HeadOp DEF AddListeners, Doing
  <2>2. DOMAIN breakpointListeners' = Head(todo).ids \cup DOMAIN breakpointListeners
    BY <1>5 DEF AddListeners, Over
  <2> QED BY <1>5, <2>1, <2>2 DEF AddListeners
<1>6. CASE RemoveBreakpoint
  <2>1. /\ DOMAIN breakpointIds' \subseteq DOMAIN breakpointIds
        /\ \A id \in DOMAIN breakpointIds' : breakpointIds'[id] = breakpointIds[id]
        /\ UNCHANGED nextBreakpointId
    BY <1>6 DEF RemoveBreakpoint, Without, Restrict
  <2>2. \/ UNCHANGED <<userBreakpoints, breakpointListeners>>
        \/ \E id, n : Forget(id, n)
    BY <1>6 DEF RemoveBreakpoint
  <2>3. /\ DOMAIN breakpointListeners' \subseteq DOMAIN breakpointListeners
        /\ \A n \in DOMAIN userBreakpoints' :
             n \in DOMAIN userBreakpoints /\ userBreakpoints'[n] = userBreakpoints[n]
    BY <2>2 DEF Forget, Without, Restrict
  <2> QED BY <2>1, <2>3
<1>7. CASE RemoveUnknown
  BY <1>7 DEF RemoveUnknown, Without, Restrict
<1>8. CASE BreakpointIsCleared
  <2>1. /\ DOMAIN breakpointListeners' \subseteq DOMAIN breakpointListeners
        /\ \A n \in DOMAIN userBreakpoints' :
             n \in DOMAIN userBreakpoints /\ userBreakpoints'[n] = userBreakpoints[n]
    BY <1>8 DEF BreakpointIsCleared, Forget, Without, Restrict
  <2> QED BY <1>8, <2>1 DEF BreakpointIsCleared
<1> QED BY <1>1, <1>2, <1>3, <1>4, <1>5, <1>6, <1>7, <1>8 DEF Next, Steps, Commands

LEMMA ShownTypesKept ==
  ASSUME JInv, Next
  PROVE  ShownTypes'
<1> USE DEF JInv, Types, ShownTypes
<1>1. CASE VM \/ Events
  BY <1>1
     DEF VM, Events, LoadClass, Reach, Exit, Answer, HandleVMStart, HandleVMDeath, HandleBreakpoint,
         SlotEnds, ofDebugger, shown
<1>2. CASE Steps
  BY <1>2
     DEF Steps, AddBreakpoint, ClassIsLoaded, ClassIsNotLoaded, BreakpointIsSet, ClassIsWatched,
         AddListeners, RemoveBreakpoint, RemoveUnknown, BreakpointIsCleared, shown
<1>3. CASE ToggleBreakpoint \/ UntrackVariable \/ RemoveProbe \/ Go \/ DebugTree
  BY <1>3 DEF ToggleBreakpoint, UntrackVariable, RemoveProbe, Go, DebugTree, shown
<1>4. CASE Probe
  BY <1>4 DEF Probe, VirtualTypes
<1>5. CASE TrackVariable
  <2>1. Len(References) \in Nat
    BY DebuggerAssumption DEF DebuggerAssumption
  <2>2. trackedVariables' = [i \in 1..Len(References) |-> nextBreakpointId + i] /\ UNCHANGED probes
    BY <1>5 DEF TrackVariable
  <2>3. \A i \in 1..Len(References) : nextBreakpointId + i \in Nat
    BY <2>1 DEF VirtualTypes
  <2> QED BY <2>1, <2>2, <2>3
<1> QED BY <1>1, <1>2, <1>3, <1>4, <1>5 DEF Next, Commands

LEMMA CommandTypesKept ==
  ASSUME JInv, Next
  PROVE  CommandTypes'
<1> USE DEF JInv, Types
<1>1. CASE LoadClass \/ Reach \/ Exit \/ Events \/ Go \/ DebugTree
  BY <1>1
     DEF LoadClass, Reach, Exit, Events, HandleVMStart, HandleVMDeath, HandleBreakpoint, SlotEnds, Go,
         DebugTree, ofDebugger, CommandTypes, NoAsk, What, Op
<1>2. CASE Answer
  <2>1. /\ ask' = [ask EXCEPT !.phase = "answered", !.result = ask'.result]
        /\ ask'.result \in {0, 1, lastRequest + 1, ask.result}
        /\ UNCHANGED todo
    BY <1>2 DEF Answer, CommandTypes
  <2>2. ask'.result \in Nat
    BY <2>1 DEF CommandTypes, MachineTypes
  <2>3. ask' \in [what : What \cup {"none"}, phase : {"none", "asked", "answered"},
                  node : Node \cup {NoAsk.node}, result : Nat]
    <3> DEFINE result == ask'.result
    <3> HIDE DEF result
    <3>1. ask' = [ask EXCEPT !.phase = "answered", !.result = result] /\ result \in Nat
      BY <2>1, <2>2 DEF result
    <3> QED BY <3>1 DEF CommandTypes
  <2> QED BY <2>1, <2>3 DEF CommandTypes, NoAsk, What, Op
<1>3. CASE AddBreakpoint
  <2>1. Head(todo).node \in Node /\ todo # <<>>
    BY <1>3, HeadOp DEF AddBreakpoint, Doing
  <2>2. \/ Request("class", Head(todo).node, 0) /\ UNCHANGED todo
        \/ Done
    BY <1>3 DEF AddBreakpoint
  <2> QED BY <2>1, <2>2, RequestTypes, DoneTypes DEF NowAsking, CommandTypes, NoAsk, What, Op
<1>4. CASE ClassIsLoaded \/ ClassIsNotLoaded \/ BreakpointIsSet \/ ClassIsWatched \/ BreakpointIsCleared
  <2>1. ask.node \in Node /\ todo # <<>>
    BY <1>4, NoAskFields
       DEF ClassIsLoaded, ClassIsNotLoaded, BreakpointIsSet, ClassIsWatched, BreakpointIsCleared, Returns,
           Asks, Asking
  <2>2. \/ \E what \in {"set", "prepare"} : Request(what, ask.node, 0) /\ UNCHANGED todo
        \/ Done
    BY <1>4 DEF ClassIsLoaded, ClassIsNotLoaded, BreakpointIsSet, ClassIsWatched, BreakpointIsCleared
  <2> QED BY <2>1, <2>2, RequestTypes, DoneTypes DEF NowAsking, CommandTypes, NoAsk, What, Op
<1>5. CASE AddListeners \/ RemoveUnknown
  <2>1. todo # <<>> /\ Done
    BY <1>5 DEF AddListeners, RemoveUnknown, Doing
  <2> QED BY <2>1, DoneTypes DEF NowAsking, CommandTypes, NoAsk, What, Op
<1>6. CASE RemoveBreakpoint
  <2>1. todo # <<>> /\ Head(todo).id \in DOMAIN breakpointIds
    BY <1>6 DEF RemoveBreakpoint, Doing
  <2>2. breakpointIds[Head(todo).id] \in Node
    BY <2>1 DEF VirtualTypes
  <2>3. \/ \E r \in DOMAIN setBreakpoints :
             Request("clear", breakpointIds[Head(todo).id], r) /\ UNCHANGED todo
        \/ Done
    BY <1>6 DEF RemoveBreakpoint
  <2>4. DOMAIN setBreakpoints \subseteq Nat
    BY DEF PlacesTypes, MachineTypes
  <2> QED BY <2>1, <2>2, <2>3, <2>4, RequestTypes, DoneTypes
          DEF NowAsking, CommandTypes, NoAsk, What, Op
<1>7. CASE ToggleBreakpoint \/ Probe \/ RemoveProbe \/ TrackVariable \/ UntrackVariable
  <2>1. UNCHANGED ask
    BY <1>7 DEF ToggleBreakpoint, Probe, RemoveProbe, TrackVariable, UntrackVariable, ofCommand
  <2>2. /\ \A n \in Node, type \in {"user", "internal"} : Add(n, type) \in Op
        /\ \A ids \in SUBSET Nat, action \in {"stop", "resume"} : Listen(ids, action) \in Op
        /\ \A id \in Nat : Remove(id) \in Op
    BY DEF Add, Listen, Remove, Op
  <2>3. nextBreakpointId + 1 \in Nat
    BY DEF VirtualTypes
  <2>4. todo' \in Seq(Op)
    <3>1. CASE ToggleBreakpoint
      <4>1. PICK n \in Node :
              \/ n \in DOMAIN userBreakpoints /\ todo' = <<Remove(userBreakpoints[n])>>
              \/ todo' = <<Add(n, "user"), Listen({nextBreakpointId + 1}, "stop")>>
        BY <3>1 DEF ToggleBreakpoint
      <4>2. CASE n \in DOMAIN userBreakpoints /\ todo' = <<Remove(userBreakpoints[n])>>
        <5>1. Remove(userBreakpoints[n]) \in Op
          BY <2>2, <4>2 DEF VirtualTypes
        <5> QED BY <4>2, <5>1
      <4>3. CASE todo' = <<Add(n, "user"), Listen({nextBreakpointId + 1}, "stop")>>
        BY <2>2, <2>3, <4>3
      <4> QED BY <4>1, <4>2, <4>3
    <3>2. CASE Probe
      BY <2>2, <2>3, <3>2 DEF Probe
    <3>3. CASE RemoveProbe
      BY <2>2, <3>3 DEF RemoveProbe, ShownTypes
    <3>4. CASE UntrackVariable
      <4>1. trackedVariables \in Seq(Nat)
        BY DEF ShownTypes
      <4>2. todo' = [i \in DOMAIN trackedVariables |-> Remove(trackedVariables[i])]
        BY <3>4 DEF UntrackVariable
      <4>3. /\ DOMAIN trackedVariables = 1..Len(trackedVariables) /\ Len(trackedVariables) \in Nat
            /\ \A i \in DOMAIN trackedVariables : Remove(trackedVariables[i]) \in Op
        BY <2>2, <4>1
      <4> QED BY <4>2, <4>3
    <3>5. CASE TrackVariable
      <4> DEFINE k == Len(References)
                 adds == [i \in 1..k |-> Add(References[i], "internal")]
                 ids == [i \in 1..k |-> nextBreakpointId + i]
      <4>1. References \in Seq(Node) /\ k \in Nat
        BY DebuggerAssumption DEF DebuggerAssumption
      <4>2. adds \in Seq(Op)
        <5>1. \A i \in 1..k : References[i] \in Node
          BY <4>1
        <5>2. \A i \in 1..k : Add(References[i], "internal") \in Op
          BY <2>2, <5>1
        <5> QED BY <4>1, <5>2
      <4>3. Listen(Range(ids), "resume") \in Op
        <5>1. Range(ids) \in SUBSET Nat
          BY <4>1 DEF Range, VirtualTypes
        <5> QED BY <2>2, <5>1
      <4>4. todo' = adds \o <<Listen(Range(ids), "resume")>>
        BY <3>5 DEF TrackVariable
      <4> HIDE DEF adds, ids
      <4> QED BY <4>2, <4>3, <4>4
    <3> QED BY <1>7, <3>1, <3>2, <3>3, <3>4, <3>5
  <2> QED BY <2>1, <2>4 DEF CommandTypes, NoAsk, What, Op
<1> QED BY <1>1, <1>2, <1>3, <1>4, <1>5, <1>6, <1>7 DEF Next, VM, Steps, Commands

LEMMA FlagTypesKept ==
  ASSUME JInv, Next
  PROVE  FlagTypes'
<1> USE DEF JInv, Types, FlagTypes
<1>1. CASE VM
  BY <1>1 DEF VM, LoadClass, Reach, Exit, Answer, Send, ofDebugger, virtual
<1>2. CASE Events
  BY <1>2
     DEF Events, HandleVMStart, HandleVMDeath, HandleBreakpoint, SlotEnds, Resumed, virtual
<1>3. CASE AddBreakpoint
  BY <1>3 DEF AddBreakpoint, NewBreakpoint, ofEvents
<1>4. CASE ClassIsLoaded \/ ClassIsNotLoaded \/ BreakpointIsSet \/ ClassIsWatched \/ AddListeners
           \/ RemoveBreakpoint \/ RemoveUnknown \/ BreakpointIsCleared
  BY <1>4
     DEF ClassIsLoaded, ClassIsNotLoaded, BreakpointIsSet, ClassIsWatched, AddListeners,
         RemoveBreakpoint, RemoveUnknown, BreakpointIsCleared, ofEvents, virtual
<1>5. CASE Commands
  BY <1>5
     DEF Commands, ToggleBreakpoint, Probe, RemoveProbe, TrackVariable, UntrackVariable, Go, DebugTree,
         ofCommand, virtual
<1> QED BY <1>1, <1>2, <1>3, <1>4, <1>5 DEF Next, Steps

LEMMA TypesKept ==
  ASSUME JInv, Next
  PROVE  Types'
BY MachineTypesKept, PlacesTypesKept, VirtualTypesKept, ShownTypesKept, CommandTypesKept, FlagTypesKept
   DEF Types

-----------------------------------------------------------------------------
LEMMA RequestStep ==
  ASSUME MachineTypes, NEW what, NEW n, NEW result, Request(what, n, result)
  PROVE  /\ ask' = [what |-> what, phase |-> "asked", node |-> n, result |-> result]
         /\ ask'.what = what /\ ask'.phase = "asked" /\ ask'.node = n /\ ask'.result = result
         /\ event'.kind = event.kind /\ event'.requests = event.requests
         /\ event'.before = (event.kind # "none")
BY DEF Request, MachineTypes

LEMMA DoneStep ==
  ASSUME Done
  PROVE  /\ ask' = NoAsk /\ ask'.what = "none" /\ ask'.phase = "none"
         /\ event' = event
BY NoAskFields DEF Done

LEMMA AnswerStep ==
  ASSUME CommandTypes, Answer
  PROVE  /\ ask.phase = "asked" /\ vm # "off"
         /\ ask'.what = ask.what /\ ask'.node = ask.node /\ ask'.phase = "answered"
         /\ ask.what = "class" /\ ask'.result = 0 => ClassOf[ask.node] \notin loaded
         /\ ask.what = "set" => ask'.result = lastRequest + 1
         /\ ask.what \notin {"class", "set"} => ask'.result = ask.result
BY DEF Answer, CommandTypes

LEMMA IdleAsks == ASSUME Asking, todo = <<>> PROVE ask = NoAsk /\ ~Asks
BY DEF Asking

LEMMA AskingKept ==
  ASSUME JInv, Next
  PROVE  Asking'
<1> USE NoAskFields DEF JInv, Types, Asking, Asks
<1>1. CASE LoadClass \/ Reach \/ Exit
  BY <1>1 DEF LoadClass, Reach, Exit, ofDebugger, places, NoAsk
<1>2. CASE Answer
  <2>1. Asks /\ ask.phase = "asked" /\ UNCHANGED <<todo, setBreakpoints>>
    BY <1>2, AnswerStep DEF Answer, places
  <2>2. lastRequest' \in Nat /\ lastRequest \in Nat /\ 1..lastRequest \subseteq 1..lastRequest'
        /\ (ask.what = "set" => lastRequest' = lastRequest + 1)
    BY <1>2 DEF Answer, MachineTypes
  <2>3. lastRequest + 1 \notin DOMAIN setBreakpoints
    BY <2>2 DEF PlacesTypes
  <2> QED BY <1>2, <2>1, <2>2, <2>3, AnswerStep
<1>3. CASE HandleVMStart
  <2> DEFINE new(k) == (lastRequest + 1)..(lastRequest + k)
  <2>1. PICK k \in Nat : /\ lastRequest' = lastRequest + k
                         /\ DOMAIN setBreakpoints' = DOMAIN setBreakpoints \cup new(k)
    BY <1>3, TrySetStep DEF HandleVMStart
  <2>2. 1..lastRequest \subseteq 1..lastRequest' /\ \A r \in 1..lastRequest : r \notin new(k)
    BY <2>1 DEF MachineTypes
  <2> HIDE DEF new
  <2> QED BY <1>3, <2>1, <2>2 DEF HandleVMStart, NoAsk
<1>4. CASE HandleVMDeath \/ HandleBreakpoint \/ SlotEnds
  BY <1>4 DEF HandleVMDeath, HandleBreakpoint, SlotEnds, machine, places, NoAsk
<1>5. CASE Done
  BY <1>5, DoneStep DEF NoAsk
<1>6. CASE AddBreakpoint
  <2>1. CASE vmAlive
    <3>1. /\ Request("class", Head(todo).node, 0) /\ UNCHANGED todo
          /\ todo # <<>> /\ Head(todo).op = "add" /\ Head(todo).node \in Node
      BY <1>6, <2>1, HeadOp DEF AddBreakpoint, Doing
    <3> QED BY <3>1, RequestStep DEF NoAsk
  <2>2. CASE ~vmAlive
    BY <1>5, <1>6, <2>2 DEF AddBreakpoint
  <2> QED BY <2>1, <2>2
<1>7. CASE ClassIsLoaded \/ ClassIsNotLoaded
  <2>1. CASE Done
    BY <1>5, <2>1
  <2>2. CASE ~Done
    <3>1. \E what \in {"set", "prepare"} : Request(what, ask.node, 0)
      BY <1>7, <2>2 DEF ClassIsLoaded, ClassIsNotLoaded
    <3>2. Asks /\ ask.what = "class" /\ UNCHANGED todo
      BY <1>7, <2>2 DEF ClassIsLoaded, ClassIsNotLoaded, Returns
    <3> QED BY <3>1, <3>2, RequestStep DEF NoAsk
  <2> QED BY <2>1, <2>2
<1>8. CASE BreakpointIsSet \/ ClassIsWatched \/ AddListeners \/ RemoveUnknown \/ BreakpointIsCleared
  BY <1>5, <1>8 DEF BreakpointIsSet, ClassIsWatched, AddListeners, RemoveUnknown, BreakpointIsCleared
<1>9. CASE RemoveBreakpoint
  <2>1. CASE Done
    BY <1>5, <2>1
  <2>2. CASE ~Done
    <3>1. PICK r \in DOMAIN setBreakpoints : Request("clear", breakpointIds[Head(todo).id], r)
      BY <1>9, <2>2 DEF RemoveBreakpoint
    <3>2. /\ todo # <<>> /\ Head(todo).op = "remove" /\ UNCHANGED <<todo, lastRequest>>
          /\ breakpointIds[Head(todo).id] \in Node
      BY <1>9, <2>2 DEF RemoveBreakpoint, Doing, ofEvents, ofMachine, VirtualTypes
    <3> QED BY <3>1, <3>2, RequestStep DEF PlacesTypes, NoAsk
  <2> QED BY <2>1, <2>2
<1>10. CASE Commands
  <2>1. todo = <<>> /\ UNCHANGED ask
    BY <1>10
       DEF Commands, ToggleBreakpoint, Probe, RemoveProbe, TrackVariable, UntrackVariable, Go, DebugTree,
           Command, Idle, ofCommand
  <2> QED BY <2>1 DEF NoAsk
<1> QED BY <1>1, <1>2, <1>3, <1>4, <1>6, <1>7, <1>8, <1>9, <1>10 DEF Next, VM, Events, Steps

LEMMA Events_Kept ==
  ASSUME JInv, Next
  PROVE  Events_'
<1> USE DEF JInv, Types, Events_
<1>1. CASE LoadClass \/ Reach \/ Exit
  BY <1>1 DEF LoadClass, Reach, Exit, Send, ofDebugger, Asks
<1>2. CASE Answer
  <2>1. Asks /\ vmAlive /\ UNCHANGED <<event, vm, vmAlive>>
    BY <1>2, NoAskFields DEF Answer, Asking
  <2> QED BY <2>1 DEF FlagTypes
<1>3. CASE HandleVMStart
  BY <1>3 DEF HandleVMStart, Dispatch, NoEvent, Resumed
<1>4. CASE HandleVMDeath
  BY <1>4 DEF HandleVMDeath, Dispatch, NoEvent
<1>5. CASE HandleBreakpoint
  BY <1>5 DEF HandleBreakpoint, Dispatch, Resumed, NoEvent
<1>6. CASE SlotEnds
  BY <1>6 DEF SlotEnds, machine, places, Asks
<1>7. CASE Steps
  <2>1. /\ UNCHANGED <<vm, vmAlive, requests>>
    BY <1>7
       DEF Steps, AddBreakpoint, ClassIsLoaded, ClassIsNotLoaded, BreakpointIsSet, ClassIsWatched,
           AddListeners, RemoveBreakpoint, RemoveUnknown, BreakpointIsCleared, ofEvents, ofMachine
  <2>2. event'.kind = event.kind
    <3>1. Done \/ \E what, n, result : Request(what, n, result)
      BY <1>7
         DEF Steps, AddBreakpoint, ClassIsLoaded, ClassIsNotLoaded, BreakpointIsSet, ClassIsWatched,
             AddListeners, RemoveBreakpoint, RemoveUnknown, BreakpointIsCleared
    <3> QED BY <3>1, DoneStep, RequestStep
  <2>3. ASSUME ~vmAlive, vm # "off"
        PROVE  UNCHANGED setBreakpoints /\ ~Asks'
    <3>1. ask = NoAsk /\ ~Asks
      BY <2>3 DEF Asking
    <3>2. AddBreakpoint \/ AddListeners \/ RemoveBreakpoint \/ RemoveUnknown
      BY <1>7, <3>1, NoAskFields
         DEF Steps, ClassIsLoaded, ClassIsNotLoaded, BreakpointIsSet, ClassIsWatched, BreakpointIsCleared,
             Returns
    <3>3. Done
      BY <2>3, <3>2 DEF AddBreakpoint, AddListeners, RemoveBreakpoint, RemoveUnknown
    <3>4. UNCHANGED setBreakpoints
      BY <2>3, <3>2 DEF AddBreakpoint, AddListeners, RemoveBreakpoint, RemoveUnknown, places
    <3> QED BY <3>3, <3>4, DoneStep DEF Asks
  <2> QED BY <2>1, <2>2, <2>3
<1>8. CASE ToggleBreakpoint \/ Probe \/ RemoveProbe \/ TrackVariable \/ UntrackVariable
  BY <1>8
     DEF ToggleBreakpoint, Probe, RemoveProbe, TrackVariable, UntrackVariable, ofCommand, machine, places,
         Asks
<1>9. CASE Go
  BY <1>9 DEF Go, NoEvent
<1>10. CASE DebugTree
  BY <1>10, EmptyMap, IdleAsks DEF DebugTree, Idle, NoEvent, Asks
<1> QED BY <1>1, <1>2, <1>3, <1>4, <1>5, <1>6, <1>7, <1>8, <1>9, <1>10
        DEF Next, VM, Events, Commands

(* A step of the command that leaves the breakpoints alone, and asks for nothing that is known. *)
LEMMA KnownStays ==
  ASSUME Known, UNCHANGED <<vm, requests, setBreakpoints>>,
         ask.what # "clear" \/ ask.phase # "answered", ask.what # "set" \/ ask.phase # "answered",
         ask'.phase # "answered"
  PROVE  Known'
BY DEF Known, Returning

LEMMA KnownKept ==
  ASSUME JInv, Next
  PROVE  Known'
<1> USE DEF JInv, Types
<1>1. CASE LoadClass \/ Reach \/ Exit
  BY <1>1 DEF LoadClass, Reach, Exit, ofDebugger, places, Known, Returning
<1>2. CASE Answer
  <2>1. Asks /\ ask.phase = "asked" /\ vm # "off" /\ UNCHANGED <<vm, setBreakpoints>>
    BY <1>2, NoAskFields DEF Answer, Asking, places
  <2>2. CASE ask.what = "set"
    <3>1. /\ DOMAIN requests' = DOMAIN requests \cup {lastRequest + 1}
          /\ requests'[lastRequest + 1] = LocationOf[ask.node]
          /\ \A r \in DOMAIN requests \ {lastRequest + 1} : requests'[r] = requests[r]
      BY <1>2, <2>2 DEF Answer, With, Over
    <3>2. ask'.what = "set" /\ ask'.phase = "answered" /\ ask'.node = ask.node /\ ask'.result = lastRequest + 1
      BY <1>2, <2>2, AnswerStep
    <3> QED BY <2>1, <2>2, <3>1, <3>2 DEF Known, Returning
  <2>3. CASE ask.what = "clear"
    <3>1. /\ DOMAIN requests' = DOMAIN requests \ {ask.result}
          /\ \A r \in DOMAIN requests' : requests'[r] = requests[r]
      BY <1>2, <2>3 DEF Answer, Without, Restrict
    <3>2. ask'.what = "clear" /\ ask'.phase = "answered" /\ ask'.result = ask.result
      BY <1>2, <2>3, AnswerStep
    <3> QED BY <2>1, <2>3, <3>1, <3>2 DEF Known, Returning
  <2>4. CASE ask.what \notin {"set", "clear"}
    <3>1. UNCHANGED requests
      BY <1>2, <2>4 DEF Answer
    <3>2. ask'.what = ask.what
      BY <1>2, AnswerStep
    <3> QED BY <2>1, <2>4, <3>1, <3>2 DEF Known, Returning
  <2> QED BY <2>2, <2>3, <2>4
<1>3. CASE HandleVMStart
  <2> DEFINE new(k) == (lastRequest + 1)..(lastRequest + k)
  <2>1. PICK k \in Nat :
          /\ DOMAIN setBreakpoints' = DOMAIN setBreakpoints \cup new(k)
          /\ DOMAIN requests' = DOMAIN requests \cup new(k)
          /\ \A r \in new(k) : requests'[r] = LocationOf[setBreakpoints'[r]]
          /\ \A r \in DOMAIN setBreakpoints : r \notin new(k) /\ setBreakpoints'[r] = setBreakpoints[r]
          /\ \A r \in DOMAIN requests : r \notin new(k) /\ requests'[r] = requests[r]
    BY <1>3, TrySetStep DEF HandleVMStart
  <2>2. UNCHANGED ask /\ vm # "off"
    BY <1>3 DEF HandleVMStart, Dispatch, Events_
  <2>3. \A r \in 1..lastRequest : r \notin new(k)
    BY <2>1 DEF MachineTypes
  <2>4. ask.what \in {"set", "clear"} /\ ask.phase = "answered" => ask.result \notin new(k)
    BY <2>3 DEF Asking, Asks
  <2> HIDE DEF new
  <2> QED BY <2>1, <2>2, <2>4 DEF Known, Returning
<1>4. CASE HandleVMDeath
  BY <1>4 DEF HandleVMDeath, places, Known, Returning
<1>5. CASE HandleBreakpoint
  BY <1>5 DEF HandleBreakpoint, Dispatch, Resumed, Events_, places, Known, Returning
<1>6. CASE SlotEnds
  BY <1>6 DEF SlotEnds, machine, places, Known, Returning
<1>7. CASE AddBreakpoint
  <2>1. ask'.phase # "answered"
    BY <1>7, RequestStep, DoneStep DEF AddBreakpoint
  <2> QED BY <1>7, <2>1, KnownStays, NoAskFields DEF AddBreakpoint, Doing, ofEvents, ofMachine
<1>8. CASE ClassIsLoaded \/ ClassIsNotLoaded
  <2>1. ask'.phase # "answered" /\ ask.what = "class"
    BY <1>8, RequestStep, DoneStep DEF ClassIsLoaded, ClassIsNotLoaded, Returns
  <2> QED BY <1>8, <2>1, KnownStays
          DEF ClassIsLoaded, ClassIsNotLoaded, ofEvents, ofMachine, places
<1>9. CASE BreakpointIsSet
  <2>1. /\ DOMAIN setBreakpoints' = DOMAIN setBreakpoints \cup {ask.result}
        /\ setBreakpoints'[ask.result] = ask.node
        /\ \A r \in DOMAIN setBreakpoints \ {ask.result} : setBreakpoints'[r] = setBreakpoints[r]
    BY <1>9 DEF BreakpointIsSet, With, Over
  <2>2. ask.what = "set" /\ ask.phase = "answered" /\ ask'.what = "none" /\ UNCHANGED <<vm, requests>>
    BY <1>9, DoneStep DEF BreakpointIsSet, Returns, ofEvents, ofMachine
  <2> QED BY <2>1, <2>2 DEF Known, Returning
<1>10. CASE ClassIsWatched
  <2>1. ask'.phase # "answered" /\ ask.what = "prepare"
    BY <1>10, DoneStep DEF ClassIsWatched, Returns
  <2> QED BY <1>10, <2>1, KnownStays DEF ClassIsWatched, ofEvents, ofMachine
<1>11. CASE AddListeners \/ RemoveUnknown
  <2>1. ask'.phase # "answered" /\ ask = NoAsk
    BY <1>11, DoneStep DEF AddListeners, RemoveUnknown, Doing
  <2> QED BY <1>11, <2>1, KnownStays, NoAskFields DEF AddListeners, RemoveUnknown, ofEvents, ofMachine, places
<1>12. CASE RemoveBreakpoint
  <2>1. ask'.phase # "answered" /\ ask = NoAsk
    BY <1>12, DoneStep, RequestStep DEF RemoveBreakpoint, Doing
  <2>2. UNCHANGED <<vm, requests>>
    BY <1>12 DEF RemoveBreakpoint, ofEvents, ofMachine
  <2>3. CASE UNCHANGED setBreakpoints
    BY <2>1, <2>2, <2>3, KnownStays, NoAskFields
  <2>4. CASE ~UNCHANGED setBreakpoints
    <3>1. ~vmAlive /\ DOMAIN setBreakpoints # {}
      BY <1>12, <2>4 DEF RemoveBreakpoint
    <3>2. vm = "off"
      BY <3>1 DEF Events_
    <3> QED BY <2>2, <3>2 DEF Known
  <2> QED BY <2>3, <2>4
<1>13. CASE BreakpointIsCleared
  <2>1. /\ DOMAIN setBreakpoints' = DOMAIN setBreakpoints \ {ask.result}
        /\ \A r \in DOMAIN setBreakpoints' : setBreakpoints'[r] = setBreakpoints[r]
    BY <1>13 DEF BreakpointIsCleared, Cleared, Without, Restrict
  <2>2. ask.what = "clear" /\ ask.phase = "answered" /\ ask'.what = "none" /\ UNCHANGED <<vm, requests>>
    BY <1>13, DoneStep DEF BreakpointIsCleared, Returns, ofEvents, ofMachine
  <2> QED BY <2>1, <2>2 DEF Known, Returning
<1>14. CASE ToggleBreakpoint \/ Probe \/ RemoveProbe \/ TrackVariable \/ UntrackVariable
  BY <1>14
     DEF ToggleBreakpoint, Probe, RemoveProbe, TrackVariable, UntrackVariable, ofCommand, machine, places,
         Known, Returning
<1>15. CASE Go
  BY <1>15 DEF Go, places, Known, Returning
<1>16. CASE DebugTree
  <2>1. ~Asks /\ ask' = ask
    BY <1>16, IdleAsks DEF DebugTree, Idle
  <2>2. DOMAIN requests' = {} /\ DOMAIN setBreakpoints' = {}
    BY <1>16, EmptyMap DEF DebugTree
  <2> QED BY <2>1, <2>2 DEF Known, Returning, Asks
<1> QED BY <1>1, <1>2, <1>3, <1>4, <1>5, <1>6, <1>7, <1>8, <1>9, <1>10, <1>11, <1>12, <1>13, <1>14,
           <1>15, <1>16
        DEF Next, VM, Events, Steps, Commands

(* A step of the command keeps the event, which it may have to wait for. *)
LEMMA EventsKnownStays ==
  ASSUME MachineTypes, EventsKnown, UNCHANGED <<raced, failed>>, setBreakpoints' = setBreakpoints,
         Done \/ \E what, n, result : Request(what, n, result)
  PROVE  EventsKnown'
<1>1. CASE Done
  BY <1>1, DoneStep DEF EventsKnown, Asks
<1>2. CASE \E what, n, result : Request(what, n, result)
  <2>1. PICK what, n, result : Request(what, n, result)
    BY <1>2
  <2> QED BY <2>1, RequestStep DEF EventsKnown
<1> QED BY <1>1, <1>2

LEMMA EventsKnownKept ==
  ASSUME JInv, Next
  PROVE  EventsKnown'
<1> USE DEF JInv, Types
<1>1. CASE LoadClass
  <2>1. UNCHANGED <<setBreakpoints, failed, ask>> /\ (~raced' => ~raced)
    BY <1>1 DEF LoadClass, Send, ofDebugger, places
  <2>2. event'.kind = "prepare" \/ event' = event
    BY <1>1 DEF LoadClass, Send
  <2> QED BY <2>1, <2>2 DEF EventsKnown, Asks
<1>2. CASE Reach
  <2>1. SUFFICES ASSUME ~raced' PROVE EventsKnown'
    BY DEF EventsKnown
  <2>2. ~raced /\ todo = <<>> /\ UNCHANGED <<setBreakpoints, failed, ask>>
    BY <1>2, <2>1 DEF Reach, Send, ofDebugger, places
  <2>3. ~Asks
    BY <2>2, IdleAsks
  <2>4. event'.requests \subseteq DOMAIN requests
    BY <1>2 DEF Reach, Send
  <2>5. DOMAIN requests \subseteq DOMAIN setBreakpoints
    BY <1>2, <2>3 DEF Reach, Known, Returning, Asks
  <2> QED BY <2>2, <2>3, <2>4, <2>5 DEF EventsKnown, Asks
<1>3. CASE Exit
  BY <1>3 DEF Exit, Send, EventsKnown, ofDebugger
<1>4. CASE Answer
  <2>1. ask'.what = ask.what
    BY <1>4, AnswerStep
  <2> QED BY <1>4, <2>1 DEF Answer, EventsKnown, Asks, places
<1>5. CASE HandleVMStart
  BY <1>5 DEF HandleVMStart, Dispatch, NoEvent, EventsKnown
<1>6. CASE HandleVMDeath
  BY <1>6 DEF HandleVMDeath, Dispatch, NoEvent, EventsKnown
<1>7. CASE HandleBreakpoint
  <2>1. event'.kind = "none" /\ event.kind = "break" /\ UNCHANGED raced
    BY <1>7 DEF HandleBreakpoint, Dispatch, NoEvent
  <2>2. ~raced => ~failed'
    BY <1>7, <2>1 DEF HandleBreakpoint, EventsKnown
  <2> QED BY <2>1, <2>2 DEF EventsKnown
<1>8. CASE SlotEnds
  BY <1>8 DEF SlotEnds, machine, places, EventsKnown, Asks
<1>9. CASE AddBreakpoint
  BY <1>9, EventsKnownStays DEF AddBreakpoint, ofEvents
<1>10. CASE ClassIsLoaded \/ ClassIsNotLoaded \/ ClassIsWatched
  BY <1>10, EventsKnownStays DEF ClassIsLoaded, ClassIsNotLoaded, ClassIsWatched, ofEvents, places
<1>11. CASE AddListeners \/ RemoveUnknown
  BY <1>11, EventsKnownStays DEF AddListeners, RemoveUnknown, ofEvents, places
<1>12. CASE BreakpointIsSet \/ BreakpointIsCleared
  <2>1. ~event.before /\ Asks /\ Done /\ UNCHANGED <<raced, failed>>
    BY <1>12 DEF BreakpointIsSet, BreakpointIsCleared, Returns, ofEvents, Asks
  <2> QED BY <2>1, DoneStep DEF EventsKnown
<1>13. CASE RemoveBreakpoint
  <2>1. UNCHANGED <<raced, failed>> /\ (Done \/ \E what, n, result : Request(what, n, result))
    BY <1>13 DEF RemoveBreakpoint, ofEvents
  <2>2. CASE UNCHANGED setBreakpoints
    BY <2>1, <2>2, EventsKnownStays
  <2>3. CASE ~UNCHANGED setBreakpoints
    <3>1. ~vmAlive /\ Done
      BY <1>13, <2>3 DEF RemoveBreakpoint
    <3>2. event.kind # "break"
      BY <3>1 DEF Events_
    <3> QED BY <2>1, <3>1, <3>2, DoneStep DEF EventsKnown
  <2> QED BY <2>2, <2>3
<1>14. CASE ToggleBreakpoint \/ Probe \/ RemoveProbe \/ TrackVariable \/ UntrackVariable
  BY <1>14
     DEF ToggleBreakpoint, Probe, RemoveProbe, TrackVariable, UntrackVariable, ofCommand, machine, places,
         EventsKnown, Asks
<1>15. CASE Go
  BY <1>15 DEF Go, NoEvent, EventsKnown
<1>16. CASE DebugTree
  BY <1>16 DEF DebugTree, NoEvent, EventsKnown
<1> QED BY <1>1, <1>2, <1>3, <1>4, <1>5, <1>6, <1>7, <1>8, <1>9, <1>10, <1>11, <1>12, <1>13, <1>14,
           <1>15, <1>16
        DEF Next, VM, Events, Steps, Commands

(* A step that loads no class keeps what is known of the nodes that wait. *)
LEMMA WaitingStays ==
  ASSUME Waiting, UNCHANGED <<loaded, prepares, breakOnLoadClasses, raced>>,
         vmAlive' => vmAlive, event.kind = "prepare" => event'.kind = "prepare",
         unsetBreakpoints' \subseteq unsetBreakpoints,
         ask.what # "prepare", ask'.phase # "answered"
  PROVE  Waiting'
BY DEF Waiting, Watched

LEMMA WaitingKept ==
  ASSUME JInv, Next
  PROVE  Waiting'
<1> USE DEF JInv, Types
<1>1. CASE LoadClass
  <2>1. /\ UNCHANGED <<prepares, breakOnLoadClasses, unsetBreakpoints, vmAlive, ask>>
        /\ ~raced' => ~raced /\ todo = <<>>
    BY <1>1 DEF LoadClass, Send, ofDebugger, places
  <2>2. ~raced' => ~Asks
    BY <2>1, IdleAsks
  <2>3. PICK c \in Class :
          /\ loaded' = loaded \cup {c}
          /\ c \in prepares => event'.kind = "prepare"
          /\ c \notin prepares => event' = event
    BY <1>1 DEF LoadClass, Send
  <2>4. event.kind # "prepare"
    BY <1>1 DEF LoadClass, Events_
  <2>5. ASSUME ~raced', vmAlive', event'.kind # "prepare", NEW n \in unsetBreakpoints
        PROVE  Watched(n)'
    <3>1. c \notin prepares /\ Watched(n) /\ ~Asks
      BY <2>1, <2>2, <2>3, <2>4, <2>5 DEF Waiting
    <3> QED BY <2>1, <2>3, <3>1 DEF Watched, Asks
  <2> QED BY <2>1, <2>2, <2>5 DEF Waiting, Asks
<1>2. CASE Reach \/ Exit
  <2>1. /\ UNCHANGED <<loaded, prepares, breakOnLoadClasses, unsetBreakpoints, vmAlive, ask>>
        /\ ~raced' => ~raced
    BY <1>2 DEF Reach, Exit, Send, ofDebugger, places
  <2>2. event.kind # "prepare"
    BY <1>2 DEF Reach, Exit, Events_
  <2> QED BY <2>1, <2>2 DEF Waiting, Watched
<1>3. CASE Answer
  <2>1. /\ UNCHANGED <<loaded, breakOnLoadClasses, unsetBreakpoints, vmAlive, event, raced>>
        /\ prepares \subseteq prepares'
        /\ ask.what = "prepare" => ClassOf[ask.node] \in prepares'
    BY <1>3 DEF Answer, places
  <2>2. ask'.what = ask.what /\ ask'.node = ask.node
        /\ (ask.what = "class" /\ ask'.result = 0 => ClassOf[ask.node] \notin loaded)
    BY <1>3, AnswerStep
  <2> QED BY <2>1, <2>2 DEF Waiting, Watched
<1>4. CASE HandleVMStart
  <2>1. /\ UNCHANGED <<loaded, ask, raced>>
        /\ prepares' = prepares \cup ToPrepare(unsetBreakpoints')
        /\ breakOnLoadClasses' = breakOnLoadClasses \cup ToPrepare(unsetBreakpoints')
        /\ unsetBreakpoints' \subseteq unsetBreakpoints
        /\ \A n \in unsetBreakpoints' : ClassOf[n] \notin loaded
    BY <1>4 DEF HandleVMStart, TrySetBreakpoints
  <2>2. \A n \in unsetBreakpoints' : ClassOf[n] \in breakOnLoadClasses'
    BY <2>1 DEF ToPrepare
  <2>3. breakOnLoadClasses' \subseteq prepares'
    BY <2>1 DEF Waiting
  <2> QED BY <2>1, <2>2, <2>3 DEF Waiting, Watched
<1>5. CASE HandleVMDeath \/ HandleBreakpoint
  <2>1. /\ UNCHANGED <<loaded, prepares, breakOnLoadClasses, unsetBreakpoints, ask, raced>>
        /\ vmAlive' => vmAlive
        /\ event.kind # "prepare"
    BY <1>5 DEF HandleVMDeath, HandleBreakpoint, Dispatch, places
  <2> QED BY <2>1 DEF Waiting, Watched
<1>6. CASE SlotEnds
  BY <1>6 DEF SlotEnds, machine, places, Waiting, Watched
<1>7. CASE AddBreakpoint
  <2>1. /\ UNCHANGED <<loaded, prepares, breakOnLoadClasses, raced, vmAlive>>
        /\ ask = NoAsk
    BY <1>7 DEF AddBreakpoint, ofEvents, ofMachine, Doing
  <2>2. event'.kind = event.kind /\ ask'.phase # "answered" /\ ask'.what # "prepare"
    BY <1>7, RequestStep, DoneStep DEF AddBreakpoint
  <2>3. vmAlive => UNCHANGED unsetBreakpoints
    BY <1>7 DEF AddBreakpoint
  <2> QED BY <2>1, <2>2, <2>3, NoAskFields DEF Waiting, Watched
<1>8. CASE ClassIsLoaded
  <2>1. /\ UNCHANGED <<loaded, prepares, breakOnLoadClasses, raced, vmAlive, unsetBreakpoints>>
        /\ ask.what = "class"
    BY <1>8 DEF ClassIsLoaded, ofEvents, ofMachine, places, Returns
  <2>2. event'.kind = event.kind /\ ask'.phase # "answered"
    BY <1>8, RequestStep DEF ClassIsLoaded
  <2> QED BY <2>1, <2>2, WaitingStays
<1>9. CASE ClassIsNotLoaded
  <2>1. /\ UNCHANGED <<loaded, prepares, breakOnLoadClasses, raced, vmAlive>>
        /\ ask.what = "class" /\ ask.phase = "answered" /\ ask.result = 0
        /\ unsetBreakpoints' = unsetBreakpoints \cup {ask.node}
    BY <1>9 DEF ClassIsNotLoaded, ofEvents, ofMachine, Returns
  <2>2. event'.kind = event.kind /\ ask'.phase # "answered"
    BY <1>9, RequestStep, DoneStep DEF ClassIsNotLoaded
  <2>3. ClassOf[ask.node] \in prepares \/ (ask'.what = "prepare" /\ ask'.node = ask.node)
    <3>1. CASE ToPrepare({ask.node}) # {}
      BY <1>9, <3>1, RequestStep DEF ClassIsNotLoaded
    <3>2. CASE ToPrepare({ask.node}) = {}
      BY <3>2 DEF ToPrepare, Waiting
    <3> QED BY <3>1, <3>2
  <2> QED BY <2>1, <2>2, <2>3 DEF Waiting, Watched
<1>10. CASE ClassIsWatched
  <2>1. /\ UNCHANGED <<loaded, prepares, unsetBreakpoints, raced, vmAlive, event>>
        /\ ask.what = "prepare" /\ ask.phase = "answered" /\ ask'.phase = "none"
        /\ breakOnLoadClasses' = breakOnLoadClasses \cup {ClassOf[ask.node]}
    BY <1>10, DoneStep DEF ClassIsWatched, ofEvents, ofMachine, Returns
  <2> QED BY <2>1 DEF Waiting, Watched
<1>11. CASE BreakpointIsSet \/ AddListeners \/ RemoveUnknown \/ BreakpointIsCleared
  <2>1. /\ UNCHANGED <<loaded, prepares, breakOnLoadClasses, raced, vmAlive, unsetBreakpoints>>
        /\ ask.what # "prepare"
    BY <1>11, NoAskFields
       DEF BreakpointIsSet, AddListeners, RemoveUnknown, BreakpointIsCleared, ofEvents, ofMachine, places,
           Returns, Doing
  <2>2. event' = event /\ ask'.phase # "answered"
    BY <1>11, DoneStep DEF BreakpointIsSet, AddListeners, RemoveUnknown, BreakpointIsCleared
  <2> QED BY <2>1, <2>2, WaitingStays
<1>12. CASE RemoveBreakpoint
  <2>1. /\ UNCHANGED <<loaded, prepares, breakOnLoadClasses, raced, vmAlive>>
        /\ ask = NoAsk /\ unsetBreakpoints' \subseteq unsetBreakpoints
    BY <1>12 DEF RemoveBreakpoint, Doing, Unset, ofEvents, ofMachine
  <2>2. event'.kind = event.kind /\ ask'.phase # "answered"
    BY <1>12, RequestStep, DoneStep DEF RemoveBreakpoint
  <2> QED BY <2>1, <2>2, NoAskFields, WaitingStays
<1>13. CASE ToggleBreakpoint \/ Probe \/ RemoveProbe \/ TrackVariable \/ UntrackVariable
  BY <1>13
     DEF ToggleBreakpoint, Probe, RemoveProbe, TrackVariable, UntrackVariable, ofCommand, machine, places,
         Waiting, Watched
<1>14. CASE Go
  BY <1>14 DEF Go, places, Waiting, Watched
<1>15. CASE DebugTree
  <2>1. ~Asks /\ ask' = ask /\ ~vmAlive' /\ breakOnLoadClasses' = {}
    BY <1>15, IdleAsks DEF DebugTree, Idle, NoClasses
  <2> QED BY <2>1 DEF Waiting, Asks
<1> QED BY <1>1, <1>2, <1>3, <1>4, <1>5, <1>6, <1>7, <1>8, <1>9, <1>10, <1>11, <1>12, <1>13, <1>14, <1>15
        DEF Next, VM, Events, Steps, Commands

-----------------------------------------------------------------------------
LEMMA Stutters == ASSUME JInv, UNCHANGED vars PROVE JInv'
<1> USE DEF vars, machine, places, virtual, shown, JInv
<1>1. Types'
  BY DEF Types, MachineTypes, PlacesTypes, VirtualTypes, ShownTypes, CommandTypes, FlagTypes, NoAsk,
         What, Op
<1>2. Asking' /\ Events_'
  BY DEF Asking, Asks, Events_, NoAsk
<1>3. Known'
  BY DEF Known, Returning
<1>4. EventsKnown' /\ Waiting'
  BY DEF EventsKnown, Asks, Waiting, Watched
<1> QED BY <1>1, <1>2, <1>3, <1>4

(* What holds at each moment of a command, and while events come. *)
THEOREM Invariant == Spec => []JInv
<1>1. JInv /\ [Next]_vars => JInv'
  BY Stutters, TypesKept, AskingKept, Events_Kept, KnownKept, EventsKnownKept, WaitingKept DEF JInv
<1> QED BY <1>1, InitHolds, PTL DEF Spec

(* The breakpoints of the debugger and those of the VM agree (setBreakpoints_). *)
THEOREM BreakpointsAgree == Spec => []SetIsKnown
<1>1. JInv => SetIsKnown
  BY DEF JInv, Known, SetIsKnown
<1> QED BY <1>1, Invariant, PTL

(* handleBreakpoint finds the node of each event. *)
THEOREM EventsAreKnown == Spec => []EventKnownAtRest
<1>1. JInv => EventKnownAtRest
  BY DEF JInv, EventsKnown, EventKnownAtRest
<1> QED BY <1>1, Invariant, PTL

(* A breakpoint that is not set waits for a class whose loading is reported. *)
THEOREM NoneForgotten == Spec => []WaitsForClass
<1>1. JInv => WaitsForClass
  BY IdleAsks DEF JInv, Waiting, Watched, WaitsForClass, Idle, NoEvent, Asks
<1> QED BY <1>1, Invariant, PTL

-----------------------------------------------------------------------------
(***************************************************************************)
(* The commands: what they are to do, and for whom.                        *)
(***************************************************************************)
Starts == ToggleBreakpoint \/ Probe \/ RemoveProbe \/ TrackVariable \/ UntrackVariable

LEMMA TodoStep ==
  ASSUME CommandTypes
  PROVE  /\ Len(todo) \in Nat /\ DOMAIN todo = 1..Len(todo)
         /\ todo # <<>> => /\ Head(todo) = todo[1] /\ 1 \in 1..Len(todo)
                           /\ Len(Tail(todo)) = Len(todo) - 1
                           /\ \A i \in 1..(Len(todo) - 1) : Tail(todo)[i] = todo[i + 1]
BY DEF CommandTypes

LEMMA AppendLast ==
  ASSUME NEW T, NEW s \in Seq(T), NEW x \in T
  PROVE  /\ Len(s \o <<x>>) = Len(s) + 1
         /\ (s \o <<x>>)[Len(s) + 1] = x
         /\ \A i \in 1..Len(s) : (s \o <<x>>)[i] = s[i]
OBVIOUS

LEMMA Before == ASSUME NEW a \in Int, NEW b \in Int, b + 1 = a PROVE b = a - 1
OBVIOUS

LEMMA RangeFrom ==
  ASSUME NEW a \in Int, NEW b \in {a, a + 1}, NEW c \in Int
  PROVE  (b + 1)..c \subseteq (a + 1)..c
OBVIOUS

LEMMA StartStep ==
  ASSUME JInv, Starts
  PROVE  /\ todo = <<>> /\ UNCHANGED <<machine, vmAlive, places, virtual, ask, slot, failed, raced>>
         /\ \/ \A i \in 1..Len(todo') : todo'[i].op = "remove"
            \/ \E k \in Nat, type \in {"user", "internal"}, action \in {"stop", "resume"} :
                 /\ Len(todo') = k + 1
                 /\ \A i \in 1..k : todo'[i].op = "add" /\ todo'[i].type = type
                 /\ todo'[k + 1].op = "listen"
                 /\ todo'[k + 1].ids = (nextBreakpointId + 1)..(nextBreakpointId + k)
                 /\ todo'[k + 1].action = action
                 /\ action = "resume" => type = "internal"
<1> USE DEF JInv, Types
<1>1. todo = <<>> /\ UNCHANGED <<machine, vmAlive, places, virtual, ask, slot, failed, raced>>
  BY DEF Starts, ToggleBreakpoint, Probe, RemoveProbe, TrackVariable, UntrackVariable, Command, Idle,
         ofCommand
<1> DEFINE Removes == \A i \in 1..Len(todo') : todo'[i].op = "remove"
           Listens(k, type, action) ==
             /\ Len(todo') = k + 1
             /\ \A i \in 1..k : todo'[i].op = "add" /\ todo'[i].type = type
             /\ todo'[k + 1].op = "listen"
             /\ todo'[k + 1].ids = (nextBreakpointId + 1)..(nextBreakpointId + k)
             /\ todo'[k + 1].action = action
<1>2. nextBreakpointId \in Nat /\ (nextBreakpointId + 1)..(nextBreakpointId + 1) = {nextBreakpointId + 1}
  BY DEF VirtualTypes
<1>3. ASSUME NEW n, NEW type, NEW action,
             todo' = <<Add(n, type), Listen({nextBreakpointId + 1}, action)>>
      PROVE  Listens(1, type, action)
  BY <1>2, <1>3 DEF Add, Listen
<1>4. ASSUME NEW id, todo' = <<Remove(id)>> PROVE Removes
  BY <1>4 DEF Remove
<1>5. CASE ToggleBreakpoint
  <2>1. PICK n \in Node :
          \/ todo' = <<Remove(userBreakpoints[n])>>
          \/ todo' = <<Add(n, "user"), Listen({nextBreakpointId + 1}, "stop")>>
    BY <1>5 DEF ToggleBreakpoint
  <2>2. Removes \/ Listens(1, "user", "stop")
    BY <1>3, <1>4, <2>1
  <2> QED BY <1>1, <2>2
<1>6. CASE Probe
  <2>1. PICK n \in Node : todo' = <<Add(n, "internal"), Listen({nextBreakpointId + 1}, "resume")>>
    BY <1>6 DEF Probe
  <2>2. Listens(1, "internal", "resume")
    BY <1>3, <2>1
  <2> QED BY <1>1, <2>2
<1>7. CASE RemoveProbe
  <2>1. \E id : todo' = <<Remove(id)>>
    BY <1>7 DEF RemoveProbe
  <2> QED BY <1>1, <1>4, <2>1
<1>8. CASE UntrackVariable
  <2>1. todo' = [i \in DOMAIN trackedVariables |-> Remove(trackedVariables[i])]
        /\ DOMAIN trackedVariables = 1..Len(trackedVariables) /\ Len(trackedVariables) \in Nat
    BY <1>8 DEF UntrackVariable, ShownTypes
  <2>2. Removes
    BY <2>1 DEF Remove
  <2> QED BY <1>1, <2>2
<1>9. CASE TrackVariable
  <2> DEFINE k == Len(References)
             adds == [i \in 1..k |-> Add(References[i], "internal")]
             ids == [i \in 1..k |-> nextBreakpointId + i]
             last == Listen(Range(ids), "resume")
  <2>1. k \in Nat
    BY DebuggerAssumption DEF DebuggerAssumption
  <2>2. todo' = adds \o <<last>>
    BY <1>9 DEF TrackVariable
  <2>3. Range(ids) = (nextBreakpointId + 1)..(nextBreakpointId + k)
    <3>1. \A id \in (nextBreakpointId + 1)..(nextBreakpointId + k) :
            id - nextBreakpointId \in 1..k /\ nextBreakpointId + (id - nextBreakpointId) = id
      BY <1>2, <2>1
    <3>2. \A id \in (nextBreakpointId + 1)..(nextBreakpointId + k) : \E i \in 1..k : ids[i] = id
      BY <3>1
    <3>3. \A i \in 1..k : nextBreakpointId + i \in (nextBreakpointId + 1)..(nextBreakpointId + k)
      BY <1>2, <2>1
    <3> QED BY <3>2, <3>3 DEF Range
  <2> DEFINE T == {adds[i] : i \in 1..k} \cup {last}
  <2>4. Len(adds) = k /\ adds \in Seq(T) /\ last \in T
    BY <2>1
  <2>5. Len(todo') = k + 1 /\ todo'[k + 1] = last /\ \A i \in 1..k : todo'[i] = adds[i]
    <3> HIDE DEF adds, last, k, T
    <3> QED BY <2>2, <2>4, AppendLast
  <2> HIDE DEF T, last
  <2>6. ASSUME NEW i \in 1..k
        PROVE  todo'[i].op = "add" /\ todo'[i].type = "internal"
    <3>1. todo'[i] = Add(References[i], "internal")
      BY <2>5
    <3> QED BY <3>1 DEF Add
  <2>7. todo'[k + 1].op = "listen" /\ todo'[k + 1].ids = Range(ids) /\ todo'[k + 1].action = "resume"
    BY <2>5 DEF Listen, last
  <2>8. Listens(k, "internal", "resume")
    BY <2>3, <2>5, <2>6, <2>7
  <2> QED BY <1>1, <2>1, <2>8
<1> QED BY <1>5, <1>6, <1>7, <1>8, <1>9 DEF Starts

LEMMA PlannedStays ==
  ASSUME Planned, CommandTypes, VirtualTypes, UNCHANGED todo, Finished' = Finished,
         nextBreakpointId' \in {nextBreakpointId, nextBreakpointId + 1}
  PROVE  Planned'
<1>1. nextBreakpointId \in Nat /\ nextBreakpointId' \in Nat /\ Finished \in Int /\ Len(todo) \in Nat
  BY TodoStep DEF VirtualTypes, Finished
<1>2. ASSUME NEW i \in 1..Len(todo)
      PROVE  (nextBreakpointId' + 1)..(Finished + i - 1) \subseteq (nextBreakpointId + 1)..(Finished + i - 1)
  <2>1. Finished + i - 1 \in Int /\ nextBreakpointId \in Int
    BY <1>1
  <2> QED BY <2>1, RangeFrom
<1> QED BY <1>2 DEF Planned

(* Nothing listens behind a step that does not add. *)
LEMMA NoListener ==
  ASSUME Planned, CommandTypes, todo # <<>>, Head(todo).op # "add"
  PROVE  /\ \A i \in 2..Len(todo) : todo[i].op # "listen"
         /\ \A i \in 2..Len(todo) : todo[i].op # "add"
         /\ Head(todo).op = "listen" => Len(todo) = 1
<1>1. Len(todo) \in Nat /\ Head(todo) = todo[1] /\ 1 \in 1..Len(todo)
  BY TodoStep
<1>2. \A i \in 2..Len(todo) : todo[i].op # "listen"
  <2>1. SUFFICES ASSUME NEW i \in 2..Len(todo), todo[i].op = "listen" PROVE FALSE
    OBVIOUS
  <2>2. i \in 1..Len(todo) /\ 1 \in 1..(i - 1)
    BY <1>1
  <2> QED BY <1>1, <2>1, <2>2 DEF Planned
<1>3. \A i \in 2..Len(todo) : todo[i].op # "add"
  <2>1. SUFFICES ASSUME NEW i \in 2..Len(todo), todo[i].op = "add" PROVE FALSE
    OBVIOUS
  <2>2. i \in 1..Len(todo) /\ Len(todo) \in 2..Len(todo)
    BY <1>1
  <2> QED BY <1>2, <2>1, <2>2 DEF Planned
<1>4. Head(todo).op = "listen" => Len(todo) = 1
  BY <1>1 DEF Planned
<1> QED BY <1>2, <1>3, <1>4

LEMMA PlannedTail ==
  ASSUME Planned, CommandTypes, VirtualTypes, todo # <<>>, todo' = Tail(todo),
         nextBreakpointId' \in {nextBreakpointId, nextBreakpointId + 1},
         Head(todo).op = "add" => Finished' = Finished + 1
  PROVE  Planned'
<1>1. /\ Len(todo) \in Nat /\ Len(todo) >= 1 /\ Head(todo) = todo[1] /\ Len(todo') = Len(todo) - 1
      /\ \A i \in 1..Len(todo') : todo'[i] = todo[i + 1] /\ i + 1 \in 1..Len(todo) /\ i + 1 \in 2..Len(todo)
  <2>1. Len(todo) \in Nat /\ 1 \in 1..Len(todo) /\ Head(todo) = todo[1] /\ Len(todo') = Len(todo) - 1
    BY TodoStep
  <2>2. \A i \in 1..Len(todo') : i \in 1..(Len(todo) - 1) /\ i + 1 \in 1..Len(todo) /\ i + 1 \in 2..Len(todo)
    BY <2>1
  <2>3. \A i \in 1..Len(todo') : todo'[i] = todo[i + 1]
    BY <2>2, TodoStep
  <2>4. Len(todo) >= 1
    BY <2>1
  <2> QED BY <2>1, <2>2, <2>3, <2>4
<1>2. CASE Head(todo).op # "add"
  <2>1. \A i \in 1..Len(todo') : todo'[i].op # "listen" /\ todo'[i].op # "add"
    BY <1>1, <1>2, NoListener
  <2> QED BY <2>1 DEF Planned
<1>3. CASE Head(todo).op = "add"
  <2>1. nextBreakpointId \in Nat /\ nextBreakpointId' \in Nat /\ Finished \in Int
    BY DEF VirtualTypes, Finished
  <2>4. Finished' = Finished + 1
    BY <1>3
  <2>2. ASSUME NEW i \in 1..Len(todo'), todo'[i].op = "listen"
        PROVE  /\ i = Len(todo')
               /\ \A j \in 1..(i - 1) : todo'[j].op = "add"
               /\ todo'[i].ids \subseteq 1..(Finished' + i - 1)
               /\ (nextBreakpointId' + 1)..(Finished' + i - 1) \subseteq todo'[i].ids
    <3>1. i + 1 \in 1..Len(todo) /\ todo'[i] = todo[i + 1]
      BY <1>1
    <3>2. /\ i + 1 = Len(todo)
          /\ \A j \in 1..i : todo[j].op = "add"
          /\ todo[i + 1].ids \subseteq 1..(Finished + i)
          /\ (nextBreakpointId + 1)..(Finished + i) \subseteq todo[i + 1].ids
      <4>1. (i + 1) - 1 = i /\ Finished + (i + 1) - 1 = Finished + i
        BY <2>1
      <4> QED BY <2>2, <3>1, <4>1 DEF Planned
    <3>3. Finished' + i - 1 = Finished + i /\ Finished + i \in Int
      <4>1. i \in Int
        OBVIOUS
      <4>2. Finished + 1 + i - 1 = Finished + i /\ Finished + i \in Int
        BY <2>1, <4>1
      <4> QED BY <2>4, <4>2
    <3>7. (nextBreakpointId' + 1)..(Finished + i) \subseteq (nextBreakpointId + 1)..(Finished + i)
      <4>1. nextBreakpointId \in Int
        BY <2>1
      <4> QED BY <3>3, <4>1, RangeFrom
    <3>4. \A j \in 1..(i - 1) : j + 1 \in 1..i /\ j \in 1..Len(todo')
      BY <1>1
    <3>5. \A j \in 1..(i - 1) : todo'[j].op = "add"
      BY <1>1, <3>2, <3>4
    <3>6. i = Len(todo')
      <4>1. Len(todo) \in Nat /\ Len(todo') = Len(todo) - 1
        BY <1>1
      <4>2. i \in Int
        BY <4>1
      <4>3. i + 1 = Len(todo)
        BY <3>2
      <4>4. Len(todo) \in Int
        BY <4>1
      <4>5. i = Len(todo) - 1
        BY <4>2, <4>3, <4>4, Before
      <4> QED BY <4>1, <4>5
    <3> QED BY <3>1, <3>2, <3>3, <3>5, <3>6, <3>7
  <2>3. \A i \in 1..Len(todo') : todo'[i].op = "add" => todo'[Len(todo')].op = "listen"
    <3>1. SUFFICES ASSUME NEW i \in 1..Len(todo'), todo'[i].op = "add" PROVE todo'[Len(todo')].op = "listen"
      OBVIOUS
    <3>2. todo[Len(todo)].op = "listen"
      BY <1>1, <3>1 DEF Planned
    <3>3. Len(todo') \in 1..Len(todo') /\ Len(todo') + 1 = Len(todo)
      BY <1>1
    <3> QED BY <1>1, <3>2, <3>3
  <2> QED BY <2>2, <2>3 DEF Planned
<1> QED BY <1>2, <1>3

-----------------------------------------------------------------------------
(* Steps that are not of the command. *)
Outside == VM \/ Events \/ Go \/ DebugTree

LEMMA OutsideStep ==
  ASSUME CommandTypes, Outside
  PROVE  /\ UNCHANGED <<todo, breakpointIds, breakpointListeners, nextBreakpointId, userBreakpoints, shared>>
         /\ ask'.what = ask.what /\ ask'.node = ask.node
         /\ (ask.what = "clear" => ask'.result = ask.result)
<1>1. CASE Answer
  BY <1>1, AnswerStep DEF Answer, virtual
<1>2. CASE ~Answer
  BY <1>2
     DEF Outside, VM, Events, LoadClass, Reach, Exit, HandleVMStart, HandleVMDeath, HandleBreakpoint,
         SlotEnds, Go, DebugTree, ofDebugger, virtual
<1> QED BY <1>1, <1>2

LEMMA PlannedKept ==
  ASSUME JInv, Planned, Next
  PROVE  Planned'
<1> USE DEF JInv, Types
<1>1. CASE Outside
  BY <1>1, OutsideStep, PlannedStays DEF Finished, Asks
<1>2. CASE AddBreakpoint
  <2>1. ask = NoAsk /\ todo # <<>> /\ nextBreakpointId' = nextBreakpointId + 1 /\ ~Asks
    BY <1>2, NoAskFields DEF AddBreakpoint, Doing, NewBreakpoint, Asks
  <2>2. CASE vmAlive
    <3>1. UNCHANGED todo /\ Asks'
      BY <1>2, <2>2, RequestStep DEF AddBreakpoint, Asks
    <3>2. Finished' = Finished
      BY <2>1, <3>1 DEF Finished, VirtualTypes
    <3> QED BY <2>1, <3>1, <3>2, PlannedStays
  <2>3. CASE ~vmAlive
    <3>1. todo' = Tail(todo) /\ ~Asks'
      BY <1>2, <2>3, DoneStep DEF AddBreakpoint, Asks, Done
    <3>2. Finished' = Finished + 1
      BY <2>1, <3>1 DEF Finished, VirtualTypes
    <3> QED BY <2>1, <3>1, <3>2, PlannedTail
  <2> QED BY <2>2, <2>3
<1>3. CASE ClassIsLoaded \/ ClassIsNotLoaded \/ BreakpointIsSet \/ ClassIsWatched \/ BreakpointIsCleared
  <2>1. UNCHANGED nextBreakpointId /\ Asks /\ todo # <<>>
    BY <1>3, NoAskFields
       DEF ClassIsLoaded, ClassIsNotLoaded, BreakpointIsSet, ClassIsWatched, BreakpointIsCleared, Returns,
           virtual, Asking, Asks
  <2>2. CASE Done
    <3>1. todo' = Tail(todo) /\ ~Asks'
      BY <2>2, DoneStep DEF Asks, Done
    <3>2. Finished' = Finished + 1
      BY <2>1, <3>1 DEF Finished, VirtualTypes
    <3> QED BY <2>1, <3>1, <3>2, PlannedTail
  <2>3. CASE ~Done
    <3>1. UNCHANGED todo /\ Asks'
      BY <1>3, <2>3, RequestStep
         DEF ClassIsLoaded, ClassIsNotLoaded, BreakpointIsSet, ClassIsWatched, BreakpointIsCleared, Asks
    <3> QED BY <2>1, <3>1, PlannedStays DEF Finished
  <2> QED BY <2>2, <2>3
<1>4. CASE AddListeners \/ RemoveUnknown
  <2>1. UNCHANGED nextBreakpointId /\ todo # <<>> /\ todo' = Tail(todo) /\ Head(todo).op # "add"
    BY <1>4 DEF AddListeners, RemoveUnknown, Doing, Done
  <2> QED BY <2>1, PlannedTail
<1>5. CASE RemoveBreakpoint
  <2>1. UNCHANGED nextBreakpointId /\ todo # <<>> /\ Head(todo).op = "remove"
    BY <1>5 DEF RemoveBreakpoint, Doing
  <2>2. CASE Done
    BY <2>1, <2>2, PlannedTail DEF Done
  <2>3. CASE ~Done
    <3>1. UNCHANGED todo
      BY <1>5, <2>3 DEF RemoveBreakpoint
    <3>2. \A i \in 1..Len(todo) : todo[i].op # "listen" /\ todo[i].op # "add"
      <4>1. Head(todo) = todo[1] /\ \A i \in 1..Len(todo) : i = 1 \/ i \in 2..Len(todo)
        BY <2>1, TodoStep
      <4> QED BY <2>1, <4>1, NoListener
    <3> QED BY <3>1, <3>2 DEF Planned
  <2> QED BY <2>2, <2>3
<1>6. CASE Starts
  <2>1. todo = <<>> /\ UNCHANGED <<ask, nextBreakpointId>>
    BY <1>6, StartStep DEF virtual
  <2>2. nextBreakpointId \in Nat /\ Finished' = nextBreakpointId /\ nextBreakpointId' = nextBreakpointId
    BY <2>1, IdleAsks DEF Finished, Asks, VirtualTypes
  <2>3. CASE \A i \in 1..Len(todo') : todo'[i].op = "remove"
    BY <2>3 DEF Planned
  <2>4. CASE ~\A i \in 1..Len(todo') : todo'[i].op = "remove"
    <3>1. PICK k \in Nat :
            /\ Len(todo') = k + 1
            /\ \A i \in 1..k : todo'[i].op = "add"
            /\ todo'[k + 1].op = "listen"
            /\ todo'[k + 1].ids = (nextBreakpointId + 1)..(nextBreakpointId + k)
      BY <1>6, <2>4, StartStep
    <3>2. /\ \A i \in 1..(k + 1) : i \in 1..k \/ i = k + 1
          /\ (k + 1) - 1 = k /\ nextBreakpointId + (k + 1) - 1 = nextBreakpointId + k
          /\ (nextBreakpointId + 1)..(nextBreakpointId + k) \subseteq 1..(nextBreakpointId + k)
      BY <2>2
    <3> QED BY <2>2, <3>1, <3>2 DEF Planned
  <2> QED BY <2>3, <2>4
<1> QED BY <1>1, <1>2, <1>3, <1>4, <1>5, <1>6 DEF Next, Steps, Commands, Outside, Starts

LEMMA OfUserStays ==
  ASSUME OfUser, CommandTypes, todo' = todo \/ (todo # <<>> /\ todo' = Tail(todo)),
         \A n \in DOMAIN userBreakpoints' :
           n \in DOMAIN userBreakpoints /\ userBreakpoints'[n] = userBreakpoints[n]
  PROVE  OfUser'
<1>1. CASE todo' = todo
  BY <1>1 DEF OfUser
<1>2. CASE todo # <<>> /\ todo' = Tail(todo)
  <2>1. \A i \in 1..Len(todo') : \E j \in 1..Len(todo) : todo'[i] = todo[j]
    <3>1. Len(todo) \in Nat /\ Len(todo') = Len(todo) - 1
      BY <1>2, TodoStep
    <3>2. \A i \in 1..Len(todo') : i \in 1..(Len(todo) - 1) /\ i + 1 \in 1..Len(todo)
      BY <3>1
    <3> QED BY <1>2, <3>2, TodoStep
  <2> QED BY <2>1 DEF OfUser
<1> QED BY <1>1, <1>2

LEMMA OfUserKept ==
  ASSUME JInv, OfUser, UserListens, Next
  PROVE  OfUser'
<1> USE DEF JInv, Types
<1>1. CASE Outside
  BY <1>1, OutsideStep, OfUserStays
<1>2. CASE AddBreakpoint
  <2>1. todo # <<>> /\ Head(todo).op = "add" /\ (todo' = todo \/ todo' = Tail(todo))
    BY <1>2 DEF AddBreakpoint, Doing, Done
  <2>2. CASE Head(todo).type = "user"
    <3>1. todo[1].op = "add" /\ todo[1].type = "user" /\ 1 \in 1..Len(todo)
      BY <2>1, <2>2, TodoStep
    <3>2. \A i \in 1..Len(todo) : ~(todo[i].op = "listen" /\ todo[i].action = "resume")
      BY <3>1 DEF OfUser
    <3>3. \A i \in 1..Len(todo') : \E j \in 1..Len(todo) : todo'[i] = todo[j]
      <4>1. CASE todo' = todo
        BY <4>1
      <4>2. CASE todo' = Tail(todo)
        <5>1. Len(todo) \in Nat /\ Len(todo') = Len(todo) - 1
          BY <2>1, <4>2, TodoStep
        <5>2. \A i \in 1..Len(todo') : i \in 1..(Len(todo) - 1) /\ i + 1 \in 1..Len(todo)
          BY <5>1
        <5> QED BY <2>1, <4>2, <5>2, TodoStep
      <4> QED BY <2>1, <4>1, <4>2
    <3> QED BY <3>2, <3>3 DEF OfUser
  <2>3. CASE Head(todo).type # "user"
    <3>1. UNCHANGED userBreakpoints
      BY <1>2, <2>3 DEF AddBreakpoint, NewBreakpoint
    <3> QED BY <2>1, <3>1, OfUserStays
  <2> QED BY <2>2, <2>3
<1>3. CASE Steps /\ ~AddBreakpoint
  <2>1. todo # <<>> /\ (todo' = todo \/ todo' = Tail(todo))
    BY <1>3, NoAskFields
       DEF Steps, ClassIsLoaded, ClassIsNotLoaded, BreakpointIsSet, ClassIsWatched, AddListeners,
           RemoveBreakpoint, RemoveUnknown, BreakpointIsCleared, Doing, Done, Returns, Asking, Asks
  <2>2. UNCHANGED userBreakpoints \/ \E id, n : Forget(id, n)
    BY <1>3
       DEF Steps, ClassIsLoaded, ClassIsNotLoaded, BreakpointIsSet, ClassIsWatched, AddListeners,
           RemoveBreakpoint, RemoveUnknown, BreakpointIsCleared, virtual
  <2>3. \A n \in DOMAIN userBreakpoints' :
          n \in DOMAIN userBreakpoints /\ userBreakpoints'[n] = userBreakpoints[n]
    BY <2>2 DEF Forget, Without, Restrict
  <2> QED BY <2>1, <2>3, OfUserStays
<1>4. CASE Starts
  <2>1. UNCHANGED userBreakpoints
    BY <1>4, StartStep DEF virtual
  <2>2. CASE \A i \in 1..Len(todo') : todo'[i].op = "remove"
    BY <2>2 DEF OfUser
  <2>3. CASE ~\A i \in 1..Len(todo') : todo'[i].op = "remove"
    <3>1. PICK k \in Nat, type \in {"user", "internal"}, action \in {"stop", "resume"} :
            /\ Len(todo') = k + 1
            /\ \A i \in 1..k : todo'[i].op = "add" /\ todo'[i].type = type
            /\ todo'[k + 1].op = "listen"
            /\ todo'[k + 1].ids = (nextBreakpointId + 1)..(nextBreakpointId + k)
            /\ todo'[k + 1].action = action
            /\ action = "resume" => type = "internal"
      BY <1>4, <2>3, StartStep
    <3>2. /\ \A i \in 1..(k + 1) : i \in 1..k \/ i = k + 1
          /\ \A id \in 1..nextBreakpointId : id \notin (nextBreakpointId + 1)..(nextBreakpointId + k)
      BY DEF VirtualTypes
    <3>3. \A n \in DOMAIN userBreakpoints : userBreakpoints[n] \in 1..nextBreakpointId
      BY DEF UserListens
    <3> QED BY <2>1, <3>1, <3>2, <3>3 DEF OfUser
  <2> QED BY <2>2, <2>3
<1> QED BY <1>1, <1>2, <1>3, <1>4 DEF Next, Steps, Commands, Outside, Starts

(* A step that adds no breakpoint and no listener. *)
LEMMA UserListensStays ==
  ASSUME UserListens, UNCHANGED nextBreakpointId,
         DOMAIN breakpointIds' \subseteq DOMAIN breakpointIds,
         \A id \in DOMAIN breakpointIds' : breakpointIds'[id] = breakpointIds[id],
         DOMAIN breakpointListeners' \subseteq DOMAIN breakpointListeners,
         \A id \in DOMAIN breakpointListeners' : breakpointListeners'[id] = breakpointListeners[id],
         \A n \in DOMAIN userBreakpoints' :
           n \in DOMAIN userBreakpoints /\ userBreakpoints'[n] = userBreakpoints[n]
  PROVE  UserListens'
BY DEF UserListens

LEMMA UserListensKept ==
  ASSUME JInv, Planned, OfUser, UserListens, Next
  PROVE  UserListens'
<1> USE DEF JInv, Types
<1>1. CASE Outside \/ Starts
  <2>1. UNCHANGED <<breakpointIds, breakpointListeners, nextBreakpointId, userBreakpoints>>
    BY <1>1, OutsideStep, StartStep DEF virtual
  <2> QED BY <2>1 DEF UserListens
<1>2. CASE AddBreakpoint
  <2> DEFINE n == Head(todo).node
             new == nextBreakpointId + 1
  <2>1. UNCHANGED breakpointListeners /\ NewBreakpoint(n, Head(todo).type)
    BY <1>2 DEF AddBreakpoint
  <2>2. /\ nextBreakpointId' = new
        /\ DOMAIN breakpointIds' = DOMAIN breakpointIds \cup {new}
        /\ breakpointIds'[new] = n
        /\ \A id \in DOMAIN breakpointIds \ {new} : breakpointIds'[id] = breakpointIds[id]
    BY <2>1 DEF NewBreakpoint, With, Over
  <2>3. \A m \in DOMAIN userBreakpoints' :
          \/ m = n /\ userBreakpoints'[m] = new
          \/ m \in DOMAIN userBreakpoints /\ userBreakpoints'[m] = userBreakpoints[m]
    BY <2>1 DEF NewBreakpoint, With, Over
  <2>4. nextBreakpointId \in Nat /\ 1..nextBreakpointId \subseteq 1..new /\ new \in 1..new
        /\ new \notin 1..nextBreakpointId
    BY DEF VirtualTypes
  <2> HIDE DEF n, new
  <2>5. new \notin DOMAIN breakpointListeners
    BY <2>4 DEF UserListens
  <2>6. DOMAIN breakpointListeners' \subseteq 1..nextBreakpointId'
    BY <2>1, <2>2, <2>4 DEF UserListens
  <2>7. ASSUME NEW m \in DOMAIN userBreakpoints'
        PROVE  /\ userBreakpoints'[m] \in 1..nextBreakpointId'
               /\ userBreakpoints'[m] \in DOMAIN breakpointIds' => breakpointIds'[userBreakpoints'[m]] = m
               /\ userBreakpoints'[m] \in DOMAIN breakpointListeners'
                    => breakpointListeners'[userBreakpoints'[m]] = "stop"
    <3>1. CASE m = n /\ userBreakpoints'[m] = new
      BY <2>1, <2>2, <2>4, <2>5, <3>1
    <3>2. CASE m \in DOMAIN userBreakpoints /\ userBreakpoints'[m] = userBreakpoints[m]
      <4>1. userBreakpoints[m] \in 1..nextBreakpointId /\ userBreakpoints[m] # new
        BY <2>4, <3>2 DEF UserListens
      <4> QED BY <2>1, <2>2, <2>4, <3>2, <4>1 DEF UserListens
    <3> QED BY <2>3, <3>1, <3>2
  <2> QED BY <2>6, <2>7 DEF UserListens
<1>3. CASE ClassIsLoaded \/ ClassIsNotLoaded \/ BreakpointIsSet \/ ClassIsWatched
  BY <1>3 DEF ClassIsLoaded, ClassIsNotLoaded, BreakpointIsSet, ClassIsWatched, virtual, UserListens
<1>4. CASE AddListeners
  <2> DEFINE ids == Head(todo).ids
             action == Head(todo).action
  <2>1. /\ todo # <<>> /\ Head(todo).op = "listen" /\ ask = NoAsk
        /\ UNCHANGED <<breakpointIds, nextBreakpointId, userBreakpoints>>
    BY <1>4 DEF AddListeners, Doing
  <2>2. /\ DOMAIN breakpointListeners' = ids \cup DOMAIN breakpointListeners
        /\ \A id \in ids : breakpointListeners'[id] = action
        /\ \A id \in DOMAIN breakpointListeners \ ids : breakpointListeners'[id] = breakpointListeners[id]
    BY <1>4 DEF AddListeners, Over
  <2>3. Head(todo) = todo[1] /\ 1 \in 1..Len(todo)
    BY <2>1, TodoStep
  <2>4. Finished = nextBreakpointId
    BY <2>1, NoAskFields DEF Finished, Asks, VirtualTypes
  <2>5. ids \subseteq 1..nextBreakpointId
    <3>1. ids \subseteq 1..(Finished + 1 - 1)
      BY <2>1, <2>3 DEF Planned
    <3>2. nextBreakpointId + 1 - 1 = nextBreakpointId
      BY DEF VirtualTypes
    <3> QED BY <2>4, <3>1, <3>2
  <2>6. action = "resume" => \A n \in DOMAIN userBreakpoints : userBreakpoints[n] \notin ids
    BY <2>1, <2>3 DEF OfUser
  <2>7. action \in {"stop", "resume"}
    BY <2>1, HeadOp DEF Op
  <2> HIDE DEF ids, action
  <2> QED BY <2>1, <2>2, <2>5, <2>6, <2>7 DEF UserListens
<1>5. CASE RemoveBreakpoint \/ BreakpointIsCleared \/ RemoveUnknown
  <2>1. /\ UNCHANGED nextBreakpointId
        /\ DOMAIN breakpointIds' \subseteq DOMAIN breakpointIds
        /\ \A id \in DOMAIN breakpointIds' : breakpointIds'[id] = breakpointIds[id]
    BY <1>5 DEF RemoveBreakpoint, BreakpointIsCleared, RemoveUnknown, Without, Restrict
  <2>2. \/ UNCHANGED <<breakpointListeners, userBreakpoints>>
        \/ \E id, n : Forget(id, n)
        \/ UNCHANGED userBreakpoints /\ \E id : breakpointListeners' = Without(breakpointListeners, id)
    BY <1>5 DEF RemoveBreakpoint, BreakpointIsCleared, RemoveUnknown
  <2>3. /\ DOMAIN breakpointListeners' \subseteq DOMAIN breakpointListeners
        /\ \A id \in DOMAIN breakpointListeners' : breakpointListeners'[id] = breakpointListeners[id]
    BY <2>2 DEF Forget, Without, Restrict
  <2>4. \A n \in DOMAIN userBreakpoints' :
          n \in DOMAIN userBreakpoints /\ userBreakpoints'[n] = userBreakpoints[n]
    BY <2>2 DEF Forget, Without, Restrict
  <2> QED BY <2>1, <2>3, <2>4, UserListensStays
<1> QED BY <1>1, <1>2, <1>3, <1>4, <1>5 DEF Next, Steps, Commands, Outside, Starts

(* The breakpoints that are set and left keep their places, while an event is under way. *)
LEMMA EventPlaceStays ==
  ASSUME EventPlace, event'.kind = event.kind, event'.requests = event.requests,
         UNCHANGED <<lastRequest, requests>>,
         DOMAIN setBreakpoints' \subseteq DOMAIN setBreakpoints,
         \A r \in DOMAIN setBreakpoints' : setBreakpoints'[r] = setBreakpoints[r]
  PROVE  EventPlace'
<1>1. SUFFICES ASSUME event.kind = "break"
               PROVE  /\ event'.requests \subseteq 1..lastRequest'
                      /\ \E l \in Location : \A r \in event'.requests :
                           /\ r \in DOMAIN requests' => requests'[r] = l
                           /\ r \in DOMAIN setBreakpoints' => LocationOf[setBreakpoints'[r]] = l
  BY DEF EventPlace
<1>2. PICK l \in Location : \A r \in event.requests :
         /\ r \in DOMAIN requests => requests[r] = l
         /\ r \in DOMAIN setBreakpoints => LocationOf[setBreakpoints[r]] = l
  BY <1>1 DEF EventPlace
<1> QED BY <1>1, <1>2 DEF EventPlace

LEMMA EventPlaceKept ==
  ASSUME JInv, EventPlace, Next
  PROVE  EventPlace'
<1> USE DEF JInv, Types
<1>1. CASE LoadClass
  <2>1. event'.kind = "prepare" \/ event' = event
    BY <1>1 DEF LoadClass, Send
  <2>2. UNCHANGED <<lastRequest, requests, setBreakpoints>>
    BY <1>1 DEF LoadClass, ofDebugger, places
  <2>3. CASE event'.kind = "prepare"
    BY <2>3 DEF EventPlace
  <2> QED BY <2>1, <2>2, <2>3, EventPlaceStays
<1>2. CASE Reach
  <2>1. PICK l \in Location :
          event'.requests = {r \in DOMAIN requests : requests[r] = l}
    BY <1>2 DEF Reach, Send
  <2>2. UNCHANGED <<lastRequest, requests, setBreakpoints>> /\ vm # "off"
    BY <1>2 DEF Reach, ofDebugger, places
  <2>3. event'.requests \subseteq 1..lastRequest'
    BY <2>1, <2>2 DEF MachineTypes
  <2>4. ASSUME NEW r \in event'.requests
        PROVE  /\ r \in DOMAIN requests' => requests'[r] = l
               /\ r \in DOMAIN setBreakpoints' => LocationOf[setBreakpoints'[r]] = l
    <3>1. r \in DOMAIN requests /\ requests[r] = l
      BY <2>1
    <3>2. r \in DOMAIN setBreakpoints => ~Returning("set", r)
      BY DEF Returning, Asking, Asks
    <3> QED BY <2>2, <3>1, <3>2 DEF Known
  <2> QED BY <2>3, <2>4 DEF EventPlace
<1>3. CASE Exit
  BY <1>3 DEF Exit, Send, EventPlace
<1>4. CASE Answer
  <2>1. SUFFICES ASSUME event'.kind = "break" PROVE EventPlace'
    BY DEF EventPlace
  <2>2. UNCHANGED <<event, setBreakpoints>>
    BY <1>4 DEF Answer, places
  <2>3. lastRequest \in Nat /\ lastRequest' \in {lastRequest, lastRequest + 1}
    BY <1>4 DEF Answer, MachineTypes
  <2>4. PICK l \in Location : \A r \in event.requests :
           /\ r \in DOMAIN requests => requests[r] = l
           /\ r \in DOMAIN setBreakpoints => LocationOf[setBreakpoints[r]] = l
    BY <2>1, <2>2 DEF EventPlace
  <2>5. event.requests \subseteq 1..lastRequest
    BY <2>1, <2>2 DEF EventPlace
  <2>6. \A r \in 1..lastRequest : r \in DOMAIN requests' => r \in DOMAIN requests /\ requests'[r] = requests[r]
    <3>1. lastRequest + 1 \notin 1..lastRequest
      BY <2>3
    <3> QED BY <1>4, <3>1 DEF Answer, With, Over, Without, Restrict
  <2>7. event.requests \subseteq 1..lastRequest'
    BY <2>3, <2>5
  <2> QED BY <2>2, <2>4, <2>5, <2>6, <2>7 DEF EventPlace
<1>5. CASE HandleVMStart \/ HandleVMDeath \/ HandleBreakpoint
  BY <1>5 DEF HandleVMStart, HandleVMDeath, HandleBreakpoint, Dispatch, NoEvent, EventPlace
<1>6. CASE SlotEnds
  BY <1>6 DEF SlotEnds, machine, places, EventPlace
<1>7. CASE BreakpointIsSet
  <2>1. SUFFICES ASSUME event'.kind = "break" PROVE EventPlace'
    BY DEF EventPlace
  <2>2. /\ event' = event /\ UNCHANGED <<lastRequest, requests>>
        /\ ask.what = "set" /\ ask.phase = "answered"
    BY <1>7 DEF BreakpointIsSet, Done, Returns, ofEvents, ofMachine
  <2>3. ask.result \in DOMAIN requests /\ requests[ask.result] = LocationOf[ask.node]
    BY <2>1, <2>2 DEF Events_, Known
  <2>4. /\ DOMAIN setBreakpoints' = DOMAIN setBreakpoints \cup {ask.result}
        /\ setBreakpoints'[ask.result] = ask.node
        /\ \A r \in DOMAIN setBreakpoints \ {ask.result} : setBreakpoints'[r] = setBreakpoints[r]
    BY <1>7 DEF BreakpointIsSet, With, Over
  <2>5. PICK l \in Location : \A r \in event.requests :
           /\ r \in DOMAIN requests => requests[r] = l
           /\ r \in DOMAIN setBreakpoints => LocationOf[setBreakpoints[r]] = l
    BY <2>1, <2>2 DEF EventPlace
  <2>6. event.requests \subseteq 1..lastRequest
    BY <2>1, <2>2 DEF EventPlace
  <2>7. ASSUME NEW r \in event.requests
        PROVE  /\ r \in DOMAIN requests => requests[r] = l
               /\ r \in DOMAIN setBreakpoints' => LocationOf[setBreakpoints'[r]] = l
    BY <2>3, <2>4, <2>5
  <2> QED BY <2>2, <2>6, <2>7 DEF EventPlace
<1>8. CASE Steps /\ ~BreakpointIsSet
  <2>1. UNCHANGED <<lastRequest, requests>>
    BY <1>8
       DEF Steps, AddBreakpoint, ClassIsLoaded, ClassIsNotLoaded, ClassIsWatched, AddListeners,
           RemoveBreakpoint, RemoveUnknown, BreakpointIsCleared, ofEvents, ofMachine
  <2>2. event'.kind = event.kind /\ event'.requests = event.requests
    <3>1. Done \/ \E what, n, result : Request(what, n, result)
      BY <1>8
         DEF Steps, AddBreakpoint, ClassIsLoaded, ClassIsNotLoaded, ClassIsWatched, AddListeners,
             RemoveBreakpoint, RemoveUnknown, BreakpointIsCleared
    <3> QED BY <3>1, DoneStep, RequestStep
  <2>3. \/ UNCHANGED setBreakpoints
        \/ \E r : setBreakpoints' = Without(setBreakpoints, r)
    BY <1>8
       DEF Steps, AddBreakpoint, ClassIsLoaded, ClassIsNotLoaded, ClassIsWatched, AddListeners,
           RemoveBreakpoint, RemoveUnknown, BreakpointIsCleared, Cleared, places
  <2>4. /\ DOMAIN setBreakpoints' \subseteq DOMAIN setBreakpoints
        /\ \A r \in DOMAIN setBreakpoints' : setBreakpoints'[r] = setBreakpoints[r]
    BY <2>3 DEF Without, Restrict
  <2> QED BY <2>1, <2>2, <2>4, EventPlaceStays
<1>9. CASE Starts
  BY <1>9, StartStep, EventPlaceStays DEF machine, places
<1>10. CASE Go \/ DebugTree
  <2>1. event' = NoEvent \/ event' = [NoEvent EXCEPT !.kind = "start"]
    BY <1>10 DEF Go, DebugTree
  <2>2. NoEvent.kind = "none" /\ [NoEvent EXCEPT !.kind = "start"].kind = "start"
    BY DEF NoEvent
  <2>3. event'.kind # "break"
    BY <2>1, <2>2
  <2> QED BY <2>3 DEF EventPlace
<1> QED BY <1>1, <1>2, <1>3, <1>4, <1>5, <1>6, <1>7, <1>8, <1>9, <1>10
        DEF Next, VM, Events, Commands, Starts

LEMMA ToListenStays ==
  ASSUME CommandTypes,
         todo' = todo \/ (todo # <<>> /\ todo' = Tail(todo) /\ Head(todo).op # "listen")
  PROVE  \A id : ToListen(id)' <=> ToListen(id)
<1>1. CASE todo' = todo
  BY <1>1 DEF ToListen
<1>2. CASE todo # <<>> /\ todo' = Tail(todo) /\ Head(todo).op # "listen"
  <2>1. Len(todo) \in Nat /\ Len(todo') = Len(todo) - 1 /\ Head(todo) = todo[1]
    BY <1>2, TodoStep
  <2>2. \A i \in 1..Len(todo') : i \in 1..(Len(todo) - 1) /\ i + 1 \in 1..Len(todo)
    BY <2>1
  <2>3. \A i \in 1..Len(todo') : todo'[i] = todo[i + 1]
    BY <1>2, <2>2, TodoStep
  <2>4. \A i \in 1..Len(todo) : i = 1 \/ (i - 1 \in 1..Len(todo') /\ (i - 1) + 1 = i)
    BY <2>1
  <2>5. \A i \in 1..Len(todo) : todo[i].op = "listen" => i - 1 \in 1..Len(todo') /\ todo'[i - 1] = todo[i]
    BY <1>2, <2>1, <2>3, <2>4
  <2> QED BY <2>2, <2>3, <2>5 DEF ToListen
<1> QED BY <1>1, <1>2

LEMMA ListenedStays ==
  ASSUME Listened, Removing' = Removing, UNCHANGED nextBreakpointId,
         DOMAIN breakpointIds' = DOMAIN breakpointIds,
         DOMAIN breakpointListeners' = DOMAIN breakpointListeners,
         \A id : ToListen(id)' <=> ToListen(id)
  PROVE  Listened'
BY DEF Listened

LEMMA ListenedKept ==
  ASSUME JInv, Planned, Listened, Next
  PROVE  Listened'
<1> USE DEF JInv, Types
<1>1. CASE Outside
  <2>1. Removing' = Removing /\ UNCHANGED <<todo, breakpointIds, breakpointListeners, nextBreakpointId>>
    BY <1>1, OutsideStep DEF Removing
  <2> QED BY <2>1, ToListenStays, ListenedStays
<1>2. CASE AddBreakpoint
  <2> DEFINE new == nextBreakpointId + 1
  <2>1. /\ todo # <<>> /\ Head(todo).op = "add" /\ ask = NoAsk
        /\ todo' = todo \/ todo' = Tail(todo)
        /\ UNCHANGED breakpointListeners
    BY <1>2 DEF AddBreakpoint, Doing, Done
  <2>2. ask'.what # "clear"
    BY <1>2, RequestStep, DoneStep DEF AddBreakpoint
  <2>3. Removing = {} /\ Removing' = {}
    BY <2>1, <2>2, NoAskFields DEF Removing
  <2>4. nextBreakpointId' = new /\ DOMAIN breakpointIds' = DOMAIN breakpointIds \cup {new}
    BY <1>2 DEF AddBreakpoint, NewBreakpoint, With, Over
  <2>5. ToListen(new)
    <3>1. todo[1].op = "add" /\ 1 \in 1..Len(todo) /\ Len(todo) \in Nat
      BY <2>1, TodoStep
    <3>2. todo[Len(todo)].op = "listen" /\ Len(todo) \in 1..Len(todo)
      BY <3>1 DEF Planned
    <3>3. (nextBreakpointId + 1)..(Finished + Len(todo) - 1) \subseteq todo[Len(todo)].ids
      BY <3>2 DEF Planned
    <3>4. Finished = nextBreakpointId /\ nextBreakpointId \in Nat
      BY <2>1, NoAskFields DEF Finished, Asks, VirtualTypes
    <3>5. Len(todo) # 1
      BY <3>1, <3>2
    <3>6. Len(todo) - 1 \in Nat /\ Len(todo) - 1 >= 1
      BY <3>1, <3>5
    <3>7. new \in (nextBreakpointId + 1)..(Finished + Len(todo) - 1)
      <4>1. \A a, b \in Nat : b - 1 >= 1 => a + 1 \in (a + 1)..(a + b - 1)
        OBVIOUS
      <4> QED BY <3>1, <3>4, <3>6, <4>1
    <3> QED BY <3>2, <3>3, <3>7 DEF ToListen
  <2>6. \A id : ToListen(id)' <=> ToListen(id)
    BY <2>1, ToListenStays
  <2>7. /\ \A id : id \in 1..nextBreakpointId' <=> id \in 1..nextBreakpointId \/ id = new
        /\ new \notin 1..nextBreakpointId
    BY <2>4 DEF VirtualTypes
  <2> HIDE DEF new
  <2> QED BY <2>1, <2>3, <2>4, <2>5, <2>6, <2>7 DEF Listened
<1>3. CASE ClassIsLoaded \/ ClassIsNotLoaded \/ BreakpointIsSet \/ ClassIsWatched
  <2>1. /\ UNCHANGED <<breakpointIds, breakpointListeners, nextBreakpointId>>
        /\ Asks /\ ask.what # "clear" /\ todo # <<>>
        /\ todo' = todo \/ todo' = Tail(todo)
    BY <1>3, NoAskFields
       DEF ClassIsLoaded, ClassIsNotLoaded, BreakpointIsSet, ClassIsWatched, virtual, Done, Returns,
           Asking, Asks
  <2>2. ask'.what # "clear"
    BY <1>3, RequestStep, DoneStep
       DEF ClassIsLoaded, ClassIsNotLoaded, BreakpointIsSet, ClassIsWatched
  <2>3. Head(todo).op = "add"
    BY <2>1 DEF Asking
  <2>4. Removing' = Removing
    BY <2>1, <2>2 DEF Removing
  <2> QED BY <2>1, <2>3, <2>4, ToListenStays, ListenedStays
<1>4. CASE AddListeners
  <2> DEFINE ids == Head(todo).ids
  <2>1. /\ todo # <<>> /\ Head(todo).op = "listen" /\ ask = NoAsk /\ todo' = Tail(todo)
        /\ ask'.what = "none"
        /\ UNCHANGED <<breakpointIds, nextBreakpointId>>
        /\ DOMAIN breakpointListeners' = ids \cup DOMAIN breakpointListeners
    BY <1>4, DoneStep DEF AddListeners, Doing, Done, Over
  <2>2. Len(todo) = 1 /\ Head(todo) = todo[1] /\ 1 \in 1..Len(todo) /\ Len(todo') = 0
    BY <2>1, TodoStep, NoListener
  <2>3. ids \subseteq 1..nextBreakpointId
    <3>1. Finished = nextBreakpointId
      BY <2>1, NoAskFields DEF Finished, Asks, VirtualTypes
    <3>2. ids \subseteq 1..(Finished + 1 - 1)
      BY <2>1, <2>2 DEF Planned
    <3>3. nextBreakpointId + 1 - 1 = nextBreakpointId
      BY DEF VirtualTypes
    <3> QED BY <3>1, <3>2, <3>3
  <2>4. \A id : (ToListen(id) <=> id \in ids) /\ ~ToListen(id)'
    <3>1. \A i : i \in 1..Len(todo) <=> i = 1
      BY <2>2
    <3>2. \A id : ToListen(id) <=> id \in ids
      BY <2>1, <2>2, <3>1 DEF ToListen
    <3>3. \A i : i \notin 1..Len(todo')
      BY <2>2
    <3> QED BY <3>2, <3>3 DEF ToListen
  <2>5. Removing = {} /\ Removing' = {}
    BY <2>1, NoAskFields DEF Removing
  <2> HIDE DEF ids
  <2> QED BY <2>1, <2>3, <2>4, <2>5 DEF Listened
<1>5. CASE RemoveUnknown \/ RemoveBreakpoint \/ BreakpointIsCleared
  <2> DEFINE id == Head(todo).id
  <2>1. todo # <<>> /\ Head(todo).op = "remove" /\ UNCHANGED nextBreakpointId
    BY <1>5, NoAskFields DEF RemoveUnknown, RemoveBreakpoint, BreakpointIsCleared, Doing, Returns, Asking, Asks
  <2>2. todo' = todo \/ todo' = Tail(todo)
    BY <1>5 DEF RemoveUnknown, RemoveBreakpoint, BreakpointIsCleared, Done
  <2>3. \A x : ToListen(x)' <=> ToListen(x)
    BY <2>1, <2>2, ToListenStays
  <2>4. \A x : ~ToListen(x)
    <3>1. Head(todo) = todo[1] /\ \A i \in 1..Len(todo) : i = 1 \/ i \in 2..Len(todo)
      BY <2>1, TodoStep
    <3> QED BY <2>1, <3>1, NoListener DEF ToListen
  <2>5. CASE RemoveUnknown
    <3>1. /\ id \notin DOMAIN breakpointIds /\ UNCHANGED breakpointIds /\ ask = NoAsk /\ ask'.what = "none"
          /\ DOMAIN breakpointListeners' = DOMAIN breakpointListeners \ {id}
      BY <2>5, DoneStep DEF RemoveUnknown, Doing, Without, Restrict
    <3>2. Removing = {} /\ Removing' = {}
      BY <3>1, NoAskFields DEF Removing
    <3> QED BY <2>3, <2>4, <3>1, <3>2 DEF Listened
  <2>6. CASE RemoveBreakpoint
    <3>1. DOMAIN breakpointIds' = DOMAIN breakpointIds \ {id} /\ id \in DOMAIN breakpointIds /\ ask = NoAsk
      BY <2>6 DEF RemoveBreakpoint, Doing, Without, Restrict
    <3>2. Removing = {}
      BY <3>1, NoAskFields DEF Removing
    <3>3. \/ Removing' = {} /\ DOMAIN breakpointListeners' = DOMAIN breakpointListeners \ {id}
          \/ Removing' = {id} /\ UNCHANGED breakpointListeners
      <4>1. CASE Done
        <5>1. ask'.what = "none"
          BY <4>1, DoneStep
        <5>2. \E n : Forget(id, n)
          <6>1. todo' # todo
            <7>1. Len(Tail(todo)) = Len(todo) - 1 /\ Len(todo) \in Nat
              BY <2>1, TodoStep
            <7> QED BY <4>1, <7>1 DEF Done
          <6> QED BY <2>6, <6>1 DEF RemoveBreakpoint
        <5>3. DOMAIN breakpointListeners' = DOMAIN breakpointListeners \ {id}
          BY <5>2 DEF Forget, Without, Restrict
        <5> QED BY <5>1, <5>3 DEF Removing
      <4>2. CASE ~Done
        <5>1. UNCHANGED <<breakpointListeners, todo>> /\ ask'.what = "clear"
          BY <2>6, <4>2, RequestStep DEF RemoveBreakpoint
        <5> QED BY <5>1 DEF Removing
      <4> QED BY <4>1, <4>2
    <3> HIDE DEF id
    <3> QED BY <2>1, <2>3, <2>4, <3>1, <3>2, <3>3 DEF Listened
  <2>7. CASE BreakpointIsCleared
    <3>1. /\ UNCHANGED breakpointIds /\ ask.what = "clear" /\ ask'.what = "none"
          /\ DOMAIN breakpointListeners' = DOMAIN breakpointListeners \ {id}
      BY <2>7, DoneStep DEF BreakpointIsCleared, Forget, Returns, Without, Restrict
    <3>2. Removing = {id} /\ Removing' = {}
      BY <3>1 DEF Removing
    <3> HIDE DEF id
    <3> QED BY <2>1, <2>3, <2>4, <3>1, <3>2 DEF Listened
  <2> QED BY <1>5, <2>5, <2>6, <2>7
<1>6. CASE Starts
  <2>1. todo = <<>> /\ UNCHANGED <<ask, breakpointIds, breakpointListeners, nextBreakpointId>>
    BY <1>6, StartStep DEF virtual
  <2>2. Removing = {} /\ Removing' = {} /\ \A id : ~ToListen(id)
    BY <2>1, IdleAsks, NoAskFields DEF Removing, ToListen
  <2>3. ASSUME NEW id, ToListen(id)'
        PROVE  id \notin 1..nextBreakpointId
    <3>1. PICK k \in Nat :
            /\ Len(todo') = k + 1
            /\ \A i \in 1..k : todo'[i].op = "add"
            /\ todo'[k + 1].ids = (nextBreakpointId + 1)..(nextBreakpointId + k)
      BY <1>6, <2>3, StartStep DEF ToListen
    <3>2. \A i \in 1..(k + 1) : i \in 1..k \/ i = k + 1
      OBVIOUS
    <3>3. id \in (nextBreakpointId + 1)..(nextBreakpointId + k)
      BY <2>3, <3>1, <3>2 DEF ToListen
    <3> QED BY <3>3 DEF VirtualTypes
  <2> QED BY <2>1, <2>2, <2>3 DEF Listened
<1> QED BY <1>1, <1>2, <1>3, <1>4, <1>5, <1>6 DEF Next, Steps, Commands, Outside, Starts

-----------------------------------------------------------------------------
LEMMA CommandInitHolds == Init => CInv
<1> SUFFICES ASSUME Init PROVE CInv
  OBVIOUS
<1> USE EmptyMap, NoAskFields, NoEventTypes DEF Init
<1>1. Len(todo) = 0
  OBVIOUS
<1>2. Planned /\ OfUser /\ UserListens
  BY <1>1 DEF Planned, OfUser, UserListens
<1>3. EventPlace
  BY DEF EventPlace, NoEvent
<1>4. Listened
  BY <1>1 DEF Listened, Removing, ToListen
<1> QED BY <1>2, <1>3, <1>4 DEF CInv

LEMMA CommandStutters == ASSUME CInv, UNCHANGED vars PROVE CInv'
<1> USE DEF vars, machine, places, virtual, CInv
<1>1. Planned' /\ OfUser' /\ UserListens'
  BY DEF Planned, Finished, Asks, OfUser, UserListens
<1>2. EventPlace'
  BY EventPlaceStays
<1>3. Listened'
  BY DEF Listened, Removing, ToListen
<1> QED BY <1>1, <1>2, <1>3

(* What is true of a command of the user until it has ended. *)
THEOREM CommandInvariant == Spec => [](JInv /\ CInv)
<1>1. JInv /\ CInv /\ Next => CInv'
  BY PlannedKept, OfUserKept, UserListensKept, EventPlaceKept, ListenedKept DEF CInv
<1>2. JInv /\ CInv /\ [Next]_vars => (JInv /\ CInv)'
  BY <1>1, CommandStutters, Stutters, TypesKept, AskingKept, Events_Kept, KnownKept, EventsKnownKept,
     WaitingKept
     DEF JInv
<1> QED BY <1>2, InitHolds, CommandInitHolds, PTL DEF Spec

(***************************************************************************)
(* handleBreakpoint: no listener that resumes wins over a breakpoint of    *)
(* the user, if each location is that of one node.                         *)
(***************************************************************************)
THEOREM StopsForUser ==
  ASSUME OneNodeEach
  PROVE  Spec => UserStops
<1>1. ASSUME JInv, CInv, HandleBreakpoint, ~failed', NEW n \in DOMAIN userBreakpoints, StopsAt(n)
      PROVE  vm' = "suspended"
  <2>1. event.kind = "break" /\ vm = "suspended"
    BY <1>1 DEF HandleBreakpoint, Dispatch, JInv, Events_
  <2>2. event.requests \subseteq DOMAIN setBreakpoints
    BY <1>1 DEF HandleBreakpoint
  <2> DEFINE id == userBreakpoints[n]
  <2>3. /\ id \in DOMAIN breakpointIds /\ id \in DOMAIN breakpointListeners
        /\ breakpointIds[id] = n /\ breakpointListeners[id] = "stop"
    BY <1>1 DEF StopsAt, CInv, UserListens
  <2>4. Stops(n)
    BY <2>3 DEF Stops, IdsAt
  <2>5. ASSUME NEW r \in event.requests
        PROVE  setBreakpoints[r] = n
    <3>1. PICK l \in Location : \A s \in event.requests :
             /\ s \in DOMAIN requests => requests[s] = l
             /\ s \in DOMAIN setBreakpoints => LocationOf[setBreakpoints[s]] = l
      BY <1>1, <2>1 DEF CInv, EventPlace
    <3>2. LocationOf[n] = l
      BY <1>1, <3>1 DEF StopsAt
    <3>3. LocationOf[setBreakpoints[r]] = l
      BY <2>2, <3>1
    <3>4. setBreakpoints[r] \in Node /\ n \in Node
      BY <1>1, <2>2, <2>3 DEF JInv, Types, PlacesTypes, VirtualTypes
    <3> QED BY <3>2, <3>3, <3>4 DEF OneNodeEach
  <2>6. vm' = vm
    BY <1>1, <2>2, <2>4, <2>5 DEF HandleBreakpoint
  <2> QED BY <2>1, <2>6
<1>2. JInv /\ CInv /\ [Next]_vars
        => [HandleBreakpoint /\ ~failed' /\ (\E n \in DOMAIN userBreakpoints : StopsAt(n))
              => vm' = "suspended"]_vars
  BY <1>1
<1> QED BY <1>2, CommandInvariant, PTL DEF Spec, UserStops

-----------------------------------------------------------------------------
(***************************************************************************)
(* With one node at each location, trySetBreakpoints sets every node that  *)
(* is ready.                                                               *)
(***************************************************************************)
LEMMA TrySetAll ==
  ASSUME OneNodeEach, JInv, TrySetBreakpoints,
         IsInjective(setBreakpoints), unsetBreakpoints \cap Set = {}
  PROVE  /\ unsetBreakpoints' \cup Set' = unsetBreakpoints \cup Set
         /\ unsetBreakpoints' \cap Set' = {}
         /\ IsInjective(setBreakpoints')
         /\ \A r \in DOMAIN setBreakpoints : r \in DOMAIN setBreakpoints' /\ setBreakpoints'[r] = setBreakpoints[r]
<1> USE DEF JInv, Types
<1> DEFINE ready == {n \in unsetBreakpoints : ClassOf[n] \in loaded}
           locations == {LocationOf[n] : n \in ready}
           k == Cardinality(locations)
           new == (lastRequest + 1)..(lastRequest + k)
<1>1. PICK chosen, order :
        /\ chosen \in SUBSET ready /\ {LocationOf[n] : n \in chosen} = locations
        /\ order \in Bijection(new, chosen)
        /\ unsetBreakpoints' = unsetBreakpoints \ ready
        /\ setBreakpoints' = Over(order, setBreakpoints)
        /\ lastRequest' = lastRequest + k
  BY DEF TrySetBreakpoints
<1>2. chosen = ready
  <2>1. ASSUME NEW n \in ready
        PROVE  n \in chosen
    <3>1. LocationOf[n] \in {LocationOf[m] : m \in chosen}
      BY <1>1, <2>1
    <3>2. PICK m \in chosen : LocationOf[m] = LocationOf[n]
      BY <3>1
    <3>3. m \in Node /\ n \in Node
      BY <1>1, <2>1, <3>2 DEF PlacesTypes
    <3>4. m = n
      BY <3>2, <3>3 DEF OneNodeEach
    <3> QED BY <3>2, <3>4
  <2> QED BY <1>1, <2>1
<1>3. /\ DOMAIN order = new
      /\ \A r \in new : order[r] \in ready
      /\ \A n \in ready : \E r \in new : order[r] = n
      /\ \A r, t \in new : order[r] = order[t] => r = t
  <2> HIDE DEF ready, new
  <2> QED BY <1>1, <1>2 DEF Bijection, Injection, Surjection, IsInjective
<1>4. \A r \in DOMAIN setBreakpoints : r \notin new
  <2>1. \E j \in Nat :
          /\ lastRequest' = lastRequest + j
          /\ \A r \in DOMAIN setBreakpoints : r \notin (lastRequest + 1)..(lastRequest + j)
    BY TrySetStep
  <2>2. PICK j \in Nat :
          /\ lastRequest' = lastRequest + j
          /\ \A r \in DOMAIN setBreakpoints : r \notin (lastRequest + 1)..(lastRequest + j)
    BY <2>1
  <2>3. lastRequest + k = lastRequest + j
    BY <1>1, <2>2
  <2> HIDE DEF k
  <2> QED BY <2>2, <2>3
<1> HIDE DEF ready, new
<1>5. /\ DOMAIN setBreakpoints' = new \cup DOMAIN setBreakpoints
      /\ \A r \in new : setBreakpoints'[r] = order[r]
      /\ \A r \in DOMAIN setBreakpoints : r \notin new /\ setBreakpoints'[r] = setBreakpoints[r]
  BY <1>1, <1>3, <1>4 DEF Over
<1>6. Set' = Set \cup ready
  <2>1. \A r \in DOMAIN setBreakpoints' : setBreakpoints'[r] \in Set \cup ready
    BY <1>3, <1>5 DEF Set
  <2>2. \A n \in Set : \E r \in DOMAIN setBreakpoints' : setBreakpoints'[r] = n
    BY <1>5 DEF Set
  <2>3. \A n \in ready : \E r \in DOMAIN setBreakpoints' : setBreakpoints'[r] = n
    BY <1>3, <1>5
  <2> QED BY <2>1, <2>2, <2>3 DEF Set
<1>7. ready \subseteq unsetBreakpoints
  BY DEF ready
<1>8. IsInjective(setBreakpoints')
  <2>1. \A r \in DOMAIN setBreakpoints, t \in new : setBreakpoints'[r] # setBreakpoints'[t]
    <3>1. SUFFICES ASSUME NEW r \in DOMAIN setBreakpoints, NEW t \in new
                   PROVE  setBreakpoints'[r] # setBreakpoints'[t]
      OBVIOUS
    <3>2. setBreakpoints'[r] \in Set
      BY <1>5 DEF Set
    <3>3. setBreakpoints'[t] \in unsetBreakpoints
      BY <1>3, <1>5, <1>7
    <3> QED BY <3>2, <3>3
  <2>2. \A r, t \in new : setBreakpoints'[r] = setBreakpoints'[t] => r = t
    BY <1>3, <1>5
  <2>3. \A r, t \in DOMAIN setBreakpoints : setBreakpoints'[r] = setBreakpoints'[t] => r = t
    BY <1>5 DEF IsInjective
  <2> QED BY <1>5, <2>1, <2>2, <2>3 DEF IsInjective
<1> QED BY <1>1, <1>5, <1>6, <1>7, <1>8

LEMMA PlacedStays ==
  ASSUME Placed, UNCHANGED <<unsetBreakpoints, setBreakpoints, breakpointIds, shared>>,
         \A n \in DOMAIN userBreakpoints' : n \in DOMAIN userBreakpoints,
         Coming' = Coming, Going' = Going,
         ask'.what = "clear" => ask.what = "clear" /\ ask'.result = ask.result /\ ask'.node = ask.node
  PROVE  Placed'
<1>1. Set' = Set /\ Virtual' = Virtual
  BY DEF Set, Virtual
<1> QED BY <1>1 DEF Placed

LEMMA PlacedKept ==
  ASSUME OneNodeEach, JInv, Placed, Next
  PROVE  Placed'
<1> USE DEF JInv, Types
<1>1. CASE Outside /\ ~HandleVMStart /\ ~DebugTree
  <2>1. UNCHANGED <<unsetBreakpoints, setBreakpoints>>
    BY <1>1
       DEF Outside, VM, Events, LoadClass, Reach, Exit, Answer, HandleVMDeath, HandleBreakpoint, SlotEnds,
           Go, ofDebugger, places
  <2>2. Coming' = Coming /\ Going' = Going
    BY <1>1, OutsideStep DEF Coming, Going
  <2> QED BY <1>1, <2>1, <2>2, OutsideStep, PlacedStays
<1>2. CASE Starts
  BY <1>2, StartStep, PlacedStays DEF places, virtual, Coming, Going
<1>3. CASE AddListeners \/ RemoveUnknown
  <2>1. /\ ask = NoAsk /\ ask'.what = "none"
        /\ UNCHANGED <<unsetBreakpoints, setBreakpoints, breakpointIds, shared, userBreakpoints>>
    BY <1>3, DoneStep DEF AddListeners, RemoveUnknown, Doing, places
  <2>2. Coming' = Coming /\ Going' = Going
    BY <2>1, NoAskFields DEF Coming, Going
  <2> QED BY <2>1, <2>2, PlacedStays
<1>4. CASE ClassIsLoaded
  <2>1. /\ ask.what = "class" /\ ask'.what = "set" /\ ask'.node = ask.node
        /\ UNCHANGED <<unsetBreakpoints, setBreakpoints, breakpointIds, shared, userBreakpoints>>
    BY <1>4, RequestStep DEF ClassIsLoaded, Returns, places, virtual
  <2>2. Coming' = Coming /\ Going' = Going
    BY <2>1 DEF Coming, Going
  <2> QED BY <2>1, <2>2, PlacedStays
<1>5. CASE ClassIsWatched
  <2>1. /\ ask.what = "prepare" /\ ask'.what = "none"
        /\ UNCHANGED <<unsetBreakpoints, setBreakpoints, breakpointIds, shared, userBreakpoints>>
    BY <1>5, DoneStep DEF ClassIsWatched, Returns, virtual
  <2>2. Coming' = Coming /\ Going' = Going
    BY <2>1 DEF Coming, Going
  <2> QED BY <2>1, <2>2, PlacedStays
<1>6. SUFFICES ASSUME ~shared',
                      \/ HandleVMStart \/ DebugTree \/ AddBreakpoint \/ ClassIsNotLoaded
                      \/ BreakpointIsSet \/ RemoveBreakpoint \/ BreakpointIsCleared
               PROVE  Placed'
  BY <1>1, <1>2, <1>3, <1>4, <1>5 DEF Placed, Next, Steps, Commands, Outside, Starts
<1>7. ~shared
  BY <1>6 DEF HandleVMStart, DebugTree, AddBreakpoint, ClassIsNotLoaded, BreakpointIsSet, RemoveBreakpoint,
              BreakpointIsCleared, NewBreakpoint, virtual
<1>8. /\ IsInjective(breakpointIds) /\ IsInjective(setBreakpoints)
      /\ unsetBreakpoints \cup Set \cup Coming = Virtual \cup Going
      /\ unsetBreakpoints \cap Set = {}
      /\ Coming \cap (unsetBreakpoints \cup Set) = {} /\ Going \cap Virtual = {}
      /\ ask.what = "clear" => ask.result \in DOMAIN setBreakpoints /\ setBreakpoints[ask.result] = ask.node
      /\ \A n \in DOMAIN userBreakpoints : n \in Virtual \cup Going
  BY <1>7 DEF Placed
<1>9. CASE HandleVMStart
  <2>1. /\ TrySetBreakpoints
        /\ UNCHANGED <<ask, breakpointIds, userBreakpoints, shared>>
    BY <1>9 DEF HandleVMStart, virtual
  <2>2. Coming' = Coming /\ Going' = Going /\ Virtual' = Virtual
    BY <2>1 DEF Coming, Going, Virtual
  <2>3. /\ unsetBreakpoints' \cup Set' = unsetBreakpoints \cup Set
        /\ unsetBreakpoints' \cap Set' = {}
        /\ IsInjective(setBreakpoints')
        /\ \A r \in DOMAIN setBreakpoints :
             r \in DOMAIN setBreakpoints' /\ setBreakpoints'[r] = setBreakpoints[r]
    BY <1>8, <2>1, TrySetAll
  <2>4. unsetBreakpoints' \cup Set' \cup Coming' = Virtual' \cup Going'
    BY <1>8, <2>2, <2>3
  <2> QED BY <1>8, <2>1, <2>2, <2>3, <2>4 DEF Placed
<1>10. CASE DebugTree
  <2>1. /\ todo = <<>> /\ UNCHANGED <<ask, breakpointIds, userBreakpoints, shared>>
        /\ unsetBreakpoints' = unsetBreakpoints \cup Set /\ DOMAIN setBreakpoints' = {}
    BY <1>10, EmptyMap DEF DebugTree, Idle, UnsetAgain, virtual, Range, Set
  <2>2. Coming = {} /\ Coming' = {} /\ Going = {} /\ Going' = {} /\ ask'.what # "clear"
    BY <2>1, IdleAsks DEF Coming, Going, Asks
  <2>3. Set' = {} /\ Virtual' = Virtual
    BY <2>1 DEF Set, Virtual
  <2>4. IsInjective(setBreakpoints') /\ IsInjective(breakpointIds')
    BY <1>8, <2>1 DEF IsInjective
  <2> QED BY <1>8, <2>1, <2>2, <2>3, <2>4 DEF Placed
<1>11. CASE AddBreakpoint
  <2> DEFINE n == Head(todo).node
             new == nextBreakpointId + 1
  <2>1. ask = NoAsk /\ NewBreakpoint(n, Head(todo).type) /\ UNCHANGED setBreakpoints
    BY <1>11 DEF AddBreakpoint, Doing
  <2>2. n \notin Virtual
    BY <1>6, <2>1 DEF NewBreakpoint, Range, Virtual
  <2>3. /\ DOMAIN breakpointIds' = DOMAIN breakpointIds \cup {new}
        /\ breakpointIds'[new] = n
        /\ \A id \in DOMAIN breakpointIds \ {new} : breakpointIds'[id] = breakpointIds[id]
        /\ \A m \in DOMAIN userBreakpoints' : m \in DOMAIN userBreakpoints \/ m = n
    BY <2>1 DEF NewBreakpoint, With, Over
  <2>4. new \notin DOMAIN breakpointIds
    BY DEF VirtualTypes
  <2>5. \/ unsetBreakpoints' = unsetBreakpoints /\ ask'.what = "class" /\ ask'.node = n
        \/ unsetBreakpoints' = unsetBreakpoints \cup {n} /\ ask'.what = "none"
    BY <1>11, RequestStep, DoneStep DEF AddBreakpoint
  <2> HIDE DEF n, new
  <2>6. Virtual' = Virtual \cup {n} /\ IsInjective(breakpointIds')
    <3>1. \A id \in DOMAIN breakpointIds : id # new /\ breakpointIds[id] # n
      BY <2>2, <2>4 DEF Virtual
    <3> QED BY <1>8, <2>3, <3>1 DEF Virtual, IsInjective
  <2>7. Set' = Set /\ Coming = {} /\ Going = {} /\ Going' = {}
    BY <2>1, <2>5, NoAskFields DEF Set, Coming, Going
  <2>8. \/ unsetBreakpoints' = unsetBreakpoints /\ Coming' = {n}
        \/ unsetBreakpoints' = unsetBreakpoints \cup {n} /\ Coming' = {}
    BY <2>5 DEF Coming
  <2>9. unsetBreakpoints \cup Set = Virtual
    BY <1>8, <2>7
  <2> QED BY <1>8, <2>1, <2>2, <2>3, <2>5, <2>6, <2>7, <2>8, <2>9 DEF Placed
<1>12. CASE ClassIsNotLoaded
  <2>1. /\ ask.what = "class" /\ ask'.what \in {"none", "prepare"}
        /\ unsetBreakpoints' = unsetBreakpoints \cup {ask.node}
        /\ UNCHANGED <<setBreakpoints, breakpointIds, userBreakpoints, shared>>
    BY <1>12, RequestStep, DoneStep DEF ClassIsNotLoaded, Returns, virtual
  <2>2. Set' = Set /\ Virtual' = Virtual
    BY <2>1 DEF Set, Virtual
  <2>3. Coming = {ask.node} /\ Going = {} /\ Coming' = {} /\ Going' = {}
    BY <2>1 DEF Coming, Going
  <2> QED BY <1>8, <2>1, <2>2, <2>3 DEF Placed
<1>13. CASE BreakpointIsSet
  <2>1. /\ ask.what = "set" /\ ask.phase = "answered" /\ ask'.what = "none"
        /\ UNCHANGED <<unsetBreakpoints, breakpointIds, userBreakpoints, shared>>
    BY <1>13, DoneStep DEF BreakpointIsSet, Returns, virtual
  <2>2. ask.result \notin DOMAIN setBreakpoints
    BY <2>1 DEF Asking, Asks
  <2>3. /\ DOMAIN setBreakpoints' = DOMAIN setBreakpoints \cup {ask.result}
        /\ setBreakpoints'[ask.result] = ask.node
        /\ \A r \in DOMAIN setBreakpoints : setBreakpoints'[r] = setBreakpoints[r]
    BY <1>13, <2>2 DEF BreakpointIsSet, With, Over
  <2>4. Coming = {ask.node} /\ Going = {} /\ Coming' = {} /\ Going' = {} /\ Virtual' = Virtual
    BY <2>1 DEF Coming, Going, Virtual
  <2>5. Set' = Set \cup {ask.node}
    BY <2>3 DEF Set
  <2>6. ask.node \notin unsetBreakpoints /\ ask.node \notin Set
    BY <1>8, <2>4
  <2>7. IsInjective(setBreakpoints')
    <3>1. \A r \in DOMAIN setBreakpoints : setBreakpoints[r] # ask.node
      BY <2>6 DEF Set
    <3> QED BY <1>8, <2>3, <3>1 DEF IsInjective
  <2> QED BY <1>8, <2>1, <2>4, <2>5, <2>6, <2>7 DEF Placed
<1>14. CASE RemoveBreakpoint
  <2> DEFINE id == Head(todo).id
             n == breakpointIds[id]
  <2>1. /\ ask = NoAsk /\ id \in DOMAIN breakpointIds
        /\ DOMAIN breakpointIds' = DOMAIN breakpointIds \ {id}
        /\ \A i \in DOMAIN breakpointIds' : breakpointIds'[i] = breakpointIds[i]
        /\ unsetBreakpoints' = unsetBreakpoints \ {n}
    BY <1>14 DEF RemoveBreakpoint, Doing, Without, Restrict, Unset
  <2>2. Virtual' = Virtual \ {n} /\ n \in Virtual /\ IsInjective(breakpointIds')
    <3>1. \A i \in DOMAIN breakpointIds \ {id} : breakpointIds[i] # n
      BY <1>8, <2>1 DEF IsInjective
    <3> QED BY <1>8, <2>1, <3>1 DEF Virtual, IsInjective
  <2>3. Coming = {} /\ Going = {}
    BY <2>1, NoAskFields DEF Coming, Going
  <2>4. unsetBreakpoints \cup Set = Virtual /\ DOMAIN userBreakpoints \subseteq Virtual
    BY <1>8, <2>3
  <2>5. CASE /\ n \notin Set /\ UNCHANGED setBreakpoints /\ ask'.what = "none"
             /\ DOMAIN userBreakpoints' = DOMAIN userBreakpoints \ {n}
    <3>1. Set' = Set /\ Coming' = {} /\ Going' = {}
      BY <2>5 DEF Set, Coming, Going
    <3> HIDE DEF n
    <3> QED BY <1>8, <2>1, <2>2, <2>4, <2>5, <3>1 DEF Placed
  <2>6. CASE \E r \in DOMAIN setBreakpoints :
               /\ setBreakpoints[r] = n /\ setBreakpoints' = Without(setBreakpoints, r)
               /\ ask'.what = "none" /\ DOMAIN userBreakpoints' = DOMAIN userBreakpoints \ {n}
    <3>1. PICK r \in DOMAIN setBreakpoints :
               /\ setBreakpoints[r] = n /\ setBreakpoints' = Without(setBreakpoints, r)
               /\ ask'.what = "none" /\ DOMAIN userBreakpoints' = DOMAIN userBreakpoints \ {n}
      BY <2>6
    <3>2. /\ DOMAIN setBreakpoints' = DOMAIN setBreakpoints \ {r}
          /\ \A t \in DOMAIN setBreakpoints' : setBreakpoints'[t] = setBreakpoints[t]
      BY <3>1 DEF Without, Restrict
    <3>3. Set' = Set \ {n} /\ IsInjective(setBreakpoints')
      <4>1. \A t \in DOMAIN setBreakpoints \ {r} : setBreakpoints[t] # n
        BY <1>8, <3>1 DEF IsInjective
      <4> HIDE DEF n
      <4> QED BY <1>8, <3>1, <3>2, <4>1 DEF Set, IsInjective
    <3>4. Coming' = {} /\ Going' = {}
      BY <3>1 DEF Coming, Going
    <3> HIDE DEF n
    <3> QED BY <1>8, <2>1, <2>2, <2>4, <3>1, <3>3, <3>4 DEF Placed
  <2>7. CASE /\ UNCHANGED <<setBreakpoints, userBreakpoints>>
             /\ \E r \in DOMAIN setBreakpoints :
                  /\ setBreakpoints[r] = n
                  /\ ask'.what = "clear" /\ ask'.node = n /\ ask'.result = r
    <3>1. n \in Set /\ Set' = Set /\ Coming' = {} /\ Going' = {n} /\ ask'.what = "clear"
      BY <2>7 DEF Set, Coming, Going
    <3>2. ask'.result \in DOMAIN setBreakpoints' /\ setBreakpoints'[ask'.result] = ask'.node
      BY <2>7
    <3> HIDE DEF n
    <3> QED BY <1>8, <2>1, <2>2, <2>4, <2>7, <3>1, <3>2 DEF Placed
  <2>8. \/ /\ {t \in DOMAIN setBreakpoints : setBreakpoints[t] = n} = {}
           /\ UNCHANGED setBreakpoints /\ Forget(id, n) /\ Done
        \/ /\ \E r \in DOMAIN setBreakpoints :
                setBreakpoints[r] = n /\ setBreakpoints' = Without(setBreakpoints, r)
           /\ Forget(id, n) /\ Done
        \/ /\ \E r \in DOMAIN setBreakpoints : setBreakpoints[r] = n /\ Request("clear", n, r)
           /\ UNCHANGED <<setBreakpoints, userBreakpoints>>
    BY <1>14 DEF RemoveBreakpoint
  <2>9. Forget(id, n) => DOMAIN userBreakpoints' = DOMAIN userBreakpoints \ {n}
    BY DEF Forget, Without, Restrict
  <2>10. {t \in DOMAIN setBreakpoints : setBreakpoints[t] = n} = {} => n \notin Set
    BY DEF Set
  <2> HIDE DEF n, id
  <2> QED BY <2>5, <2>6, <2>7, <2>8, <2>9, <2>10, DoneStep, RequestStep
<1>15. CASE BreakpointIsCleared
  <2>1. /\ ask.what = "clear" /\ ask'.what = "none"
        /\ DOMAIN setBreakpoints' = DOMAIN setBreakpoints \ {ask.result}
        /\ \A r \in DOMAIN setBreakpoints' : setBreakpoints'[r] = setBreakpoints[r]
        /\ DOMAIN userBreakpoints' = DOMAIN userBreakpoints \ {ask.node}
        /\ UNCHANGED <<unsetBreakpoints, breakpointIds, shared>>
    BY <1>15, DoneStep DEF BreakpointIsCleared, Returns, Cleared, Forget, Without, Restrict
  <2>2. ask.result \in DOMAIN setBreakpoints /\ setBreakpoints[ask.result] = ask.node
    BY <1>8, <2>1
  <2>3. Set' = Set \ {ask.node} /\ ask.node \in Set /\ IsInjective(setBreakpoints')
    <3>1. \A t \in DOMAIN setBreakpoints \ {ask.result} : setBreakpoints[t] # ask.node
      BY <1>8, <2>2 DEF IsInjective
    <3> QED BY <1>8, <2>1, <2>2, <3>1 DEF Set, IsInjective
  <2>4. Coming = {} /\ Going = {ask.node} /\ Coming' = {} /\ Going' = {} /\ Virtual' = Virtual
    BY <2>1 DEF Coming, Going, Virtual
  <2> QED BY <1>8, <2>1, <2>3, <2>4 DEF Placed
<1> QED BY <1>6, <1>9, <1>10, <1>11, <1>12, <1>13, <1>14, <1>15

-----------------------------------------------------------------------------
LEMMA PlacedInitHolds == Init => Placed
BY EmptyMap, NoAskFields DEF Init, Placed, IsInjective, Set, Virtual, Coming, Going

LEMMA PlacedStutters == ASSUME Placed, UNCHANGED vars PROVE Placed'
BY DEF vars, places, virtual, Placed, Set, Virtual, Coming, Going, IsInjective

(***************************************************************************)
(* addBreakpoint, removeBreakpoint: between commands, the nodes with a     *)
(* breakpoint are set or wait to be set, each once, if each location is    *)
(* that of one node.                                                       *)
(***************************************************************************)
THEOREM NoneLostOrLeft ==
  ASSUME OneNodeEach
  PROVE  Spec => []EachOnce
<1>1. JInv /\ Placed /\ [Next]_vars => Placed'
  BY PlacedKept, PlacedStutters
<1>2. Spec => [](JInv /\ CInv /\ Placed)
  BY <1>1, PlacedInitHolds, CommandInvariant, PTL DEF Spec
<1>3. ASSUME JInv, CInv, Placed, Idle, ~shared
      PROVE  /\ unsetBreakpoints \cup Range(setBreakpoints) = Range(breakpointIds)
             /\ unsetBreakpoints \cap Range(setBreakpoints) = {}
             /\ IsInjective(setBreakpoints)
             /\ DOMAIN breakpointListeners = DOMAIN breakpointIds
             /\ \A n \in DOMAIN userBreakpoints : n \in Range(breakpointIds)
  <2>1. ~Asks /\ Len(todo) = 0
    BY <1>3, IdleAsks DEF Idle, JInv
  <2>2. Coming = {} /\ Going = {} /\ Removing = {} /\ \A id : ~ToListen(id)
    BY <2>1 DEF Coming, Going, Removing, ToListen, Asks
  <2>3. Set = Range(setBreakpoints) /\ Virtual = Range(breakpointIds)
    BY DEF Set, Virtual, Range
  <2>4. DOMAIN breakpointListeners = DOMAIN breakpointIds
    BY <1>3, <2>2 DEF CInv, Listened
  <2> QED BY <1>3, <2>2, <2>3, <2>4 DEF Placed
<1>4. JInv /\ CInv /\ Placed => EachOnce
  BY <1>3 DEF EachOnce
<1> QED BY <1>2, <1>4, PTL

=============================================================================
