---------------------------- MODULE JavaDebugger ----------------------------
(***************************************************************************)
(* OODebug::JavaDebugger: breakpoints of the user, probes and tracked      *)
(* variables on nodes of a tree, and the breakpoints of a Java VM that     *)
(* stand for them.                                                         *)
(*                                                                         *)
(* A request to the VM waits for its reply, and events that were sent      *)
(* before the reply are handled while it waits, by the slot of the socket  *)
(* (module DebugConnector).  An event suspends the VM, so the requests of  *)
(* its handler find a VM at rest: a handler is one step.                   *)
(***************************************************************************)
EXTENDS Naturals, Sequences, FiniteSetsExt, Functions

CONSTANTS Node, Class, Location,
          ClassOf, LocationOf,  \* of a node
          References,           \* nodes that refer to the variable that is tracked
          Acts,                 \* what the user does: "toggle", "probe", "track", "go", "step"
          MaxBreakpoints,       \* bound: virtual breakpoints
          MaxSessions           \* bound: calls of debugTree()

ASSUME DebuggerAssumption ==
  /\ ClassOf \in [Node -> Class] /\ LocationOf \in [Node -> Location]
  /\ \A m, n \in Node : LocationOf[m] = LocationOf[n] => ClassOf[m] = ClassOf[n]
  /\ References \in Seq(Node)
  /\ Acts \subseteq {"toggle", "probe", "track", "go", "step"}
  /\ MaxBreakpoints \in Nat /\ MaxSessions \in Nat

VARIABLES
  vm,           \* "off", "running" or "suspended"
  loaded,       \* its classes
  requests,     \* its breakpoints: request id -> location
  prepares,     \* the classes whose loading it reports
  stepping,     \* it reports the end of a step
  lastRequest,  \* the last request id
  event,        \* the packet of events that was not handled yet
  vmAlive,
  unsetBreakpoints, setBreakpoints, breakOnLoadClasses,
  breakpointIds, breakpointListeners, nextBreakpointId,
  userBreakpoints, probes, trackedVariables,
  plotOverlay,  \* of the tracked variable: "none", "shown" or "deleted"
  todo,         \* what is left of the user's command
  ask,          \* its request to the VM
  slot,         \* the slot has resumed the VM and looks for the next event
  failed,       \* an assertion failed
  sessions,     \* history: calls of debugTree()
  raced,        \* history: the VM ran during a command
  shared        \* history: some node had two breakpoints

machine == <<vm, loaded, requests, prepares, stepping, lastRequest, event>>
places == <<unsetBreakpoints, setBreakpoints, breakOnLoadClasses>>
virtual == <<breakpointIds, breakpointListeners, nextBreakpointId, userBreakpoints, shared>>
shown == <<probes, trackedVariables, plotOverlay>>
vars == <<machine, vmAlive, places, virtual, shown, todo, ask, slot, failed, sessions, raced>>

Empty == << >>
Over(g, f) == [x \in DOMAIN g \cup DOMAIN f |-> IF x \in DOMAIN g THEN g[x] ELSE f[x]]
With(f, x, v) == Over([y \in {x} |-> v], f)
Without(f, x) == Restrict(f, DOMAIN f \ {x})

NoEvent == [kind |-> "none", requests |-> {}, step |-> FALSE, before |-> FALSE]
NoAsk == [what |-> "none", phase |-> "none", node |-> CHOOSE n \in Node : TRUE, result |-> 0]

Idle == todo = <<>> /\ ~slot

Init ==
  /\ vm = "off" /\ loaded = {} /\ requests = Empty /\ prepares = {} /\ stepping = FALSE
  /\ lastRequest = 0 /\ event = NoEvent
  /\ vmAlive = FALSE
  /\ unsetBreakpoints = {} /\ setBreakpoints = Empty /\ breakOnLoadClasses = {}
  /\ breakpointIds = Empty /\ breakpointListeners = Empty /\ nextBreakpointId = 0
  /\ userBreakpoints = Empty /\ probes = {}
  /\ trackedVariables = <<>> /\ plotOverlay = "none"
  /\ todo = <<>> /\ ask = NoAsk /\ slot = FALSE /\ failed = FALSE
  /\ sessions = 0 /\ raced = FALSE /\ shared = FALSE

-----------------------------------------------------------------------------
(***************************************************************************)
(* The VM.  Its events suspend it; one is sent before the reply to a       *)
(* request that it has not answered.                                       *)
(***************************************************************************)
ofDebugger == <<vmAlive, places, virtual, shown, todo, ask, slot, failed, sessions>>

Send(kind, ids, step) ==
  /\ event' = [kind |-> kind, requests |-> ids, step |-> step, before |-> ask.phase = "asked"]
  /\ raced' = (raced \/ todo # <<>>)

LoadClass ==
  /\ vm = "running"
  /\ \E c \in Class \ loaded :
       /\ loaded' = loaded \cup {c}
       /\ IF c \in prepares
            THEN Send("prepare", {}, FALSE) /\ vm' = "suspended"
            ELSE UNCHANGED <<event, vm>> /\ raced' = (raced \/ todo # <<>>)
  /\ UNCHANGED <<requests, prepares, stepping, lastRequest, ofDebugger>>

(* It comes to a line with breakpoints, or to the end of a step. *)
Reach ==
  /\ vm = "running"
  /\ \E l \in Location :
       LET ids == {r \in DOMAIN requests : requests[r] = l}
       IN  /\ ids # {} \/ stepping
           /\ Send("break", ids, stepping)
  /\ vm' = "suspended" /\ stepping' = FALSE
  /\ UNCHANGED <<loaded, requests, prepares, lastRequest, ofDebugger>>

Exit ==
  /\ vm = "running"
  /\ Send("death", {}, FALSE)
  /\ vm' = "off"
  /\ UNCHANGED <<loaded, requests, prepares, stepping, lastRequest, ofDebugger>>

(* The request of the user's command; a node stands for its class or place. *)
Answer ==
  /\ ask.phase = "asked" /\ vm # "off"
  /\ ask' = [ask EXCEPT !.phase = "answered",
                        !.result = CASE ask.what = "class" /\ ClassOf[ask.node] \in loaded -> 1
                                     [] ask.what = "class" /\ ClassOf[ask.node] \notin loaded -> 0
                                     [] ask.what = "set" -> lastRequest + 1
                                     [] OTHER -> @]
  /\ requests' = CASE ask.what = "set" -> With(requests, lastRequest + 1, LocationOf[ask.node])
                   [] ask.what = "clear" -> Without(requests, ask.result)
                   [] OTHER -> requests
  /\ lastRequest' = IF ask.what = "set" THEN lastRequest + 1 ELSE lastRequest
  /\ prepares' = IF ask.what = "prepare" THEN prepares \cup {ClassOf[ask.node]} ELSE prepares
  /\ UNCHANGED <<vm, loaded, stepping, event, vmAlive, places, virtual, shown, todo, slot,
                 failed, sessions, raced>>

-----------------------------------------------------------------------------
(***************************************************************************)
(* The handlers of events.                                                 *)
(***************************************************************************)
ToPrepare(nodes) == {ClassOf[n] : n \in nodes} \ breakOnLoadClasses

(***************************************************************************)
(* trySetBreakpoints: the nodes whose class is loaded are set, one node    *)
(* for each location, whichever the hash tables yield last; the loading of *)
(* the other classes is to be reported.                                    *)
(***************************************************************************)
TrySetBreakpoints ==
  LET ready == {n \in unsetBreakpoints : ClassOf[n] \in loaded}
      locations == {LocationOf[n] : n \in ready}
      classes == ToPrepare(unsetBreakpoints \ ready)
      k == Cardinality(locations)
  IN  \E chosen \in {ns \in SUBSET ready : Cardinality(ns) = k /\ {LocationOf[n] : n \in ns} = locations} :
        \E order \in Bijection((lastRequest + 1)..(lastRequest + k), chosen) :
          /\ unsetBreakpoints' = unsetBreakpoints \ ready
          /\ breakOnLoadClasses' = breakOnLoadClasses \cup classes
          /\ prepares' = prepares \cup classes
          /\ setBreakpoints' = Over(order, setBreakpoints)
          /\ requests' = Over([r \in DOMAIN order |-> LocationOf[order[r]]], requests)
          /\ lastRequest' = lastRequest + k

(* Dispatched: in the event loop, before the reply that the command waits for, *)
(* or right after another event.                                               *)
Dispatch(kinds) ==
  /\ event.kind \in kinds
  /\ \/ Idle
     \/ ask.phase = "answered" /\ (event.before \/ slot)
     \/ todo = <<>> /\ slot
  /\ event' = NoEvent

Resumed == vm' = "running" /\ slot' = TRUE

HandleVMStart ==
  /\ Dispatch({"start", "prepare"})
  /\ vmAlive' = TRUE  \* it is, when a class is prepared
  /\ TrySetBreakpoints
  /\ Resumed
  /\ UNCHANGED <<loaded, stepping, virtual, shown, todo, ask, failed, sessions, raced>>

HandleVMDeath ==
  /\ Dispatch({"death"})
  /\ vmAlive' = FALSE /\ slot' = FALSE
  /\ UNCHANGED <<vm, loaded, requests, prepares, stepping, lastRequest, places, virtual, shown, todo,
                 ask, failed, sessions, raced>>

IdsAt(n) == {id \in DOMAIN breakpointIds : breakpointIds[id] = n}

(* A mistake: the oldest listener decides. *)
Stops_First(n) ==
  LET ids == IdsAt(n) \cap DOMAIN breakpointListeners
  IN  ids # {} /\ breakpointListeners[Min(ids)] = "stop"

(* handleBreakpoint: one listener that stops is enough. *)
Stops(n) ==
  \E id \in IdsAt(n) \cap DOMAIN breakpointListeners : breakpointListeners[id] = "stop"

(***************************************************************************)
(* handleBreakpoint for each event of the packet, handleSingleStep: the VM *)
(* is resumed if one of them wants it and no step is among them.  The      *)
(* request of each breakpoint must be known.                               *)
(***************************************************************************)
HandleBreakpoint ==
  /\ Dispatch({"break"})
  /\ IF event.requests \subseteq DOMAIN setBreakpoints
       THEN /\ UNCHANGED failed
            /\ IF ~event.step /\ \E r \in event.requests : ~Stops(setBreakpoints[r])
                 THEN Resumed
                 ELSE slot' = FALSE /\ UNCHANGED vm
       ELSE failed' = TRUE /\ UNCHANGED <<vm, slot>>
  /\ UNCHANGED <<loaded, requests, prepares, stepping, lastRequest, vmAlive, places, virtual, shown,
                 todo, ask, sessions, raced>>

(* dispatchEvents finds no further event. *)
SlotEnds ==
  /\ slot
  /\ slot' = FALSE
  /\ UNCHANGED <<machine, vmAlive, places, virtual, shown, todo, ask, failed, sessions, raced>>

-----------------------------------------------------------------------------
(***************************************************************************)
(* addBreakpoint and removeBreakpoint, as the head of todo.  A request     *)
(* that was answered returns when the slot is done and all that came       *)
(* before the reply is handled.                                            *)
(***************************************************************************)
Request(what, n, result) ==
  /\ ask' = [what |-> what, phase |-> "asked", node |-> n, result |-> result]
  /\ event' = [event EXCEPT !.before = event.kind # "none"]

Done == todo' = Tail(todo) /\ ask' = NoAsk /\ UNCHANGED event

Returns(what) ==
  ask.what = what /\ ask.phase = "answered" /\ ~slot /\ ~event.before

ofMachine == <<vm, loaded, requests, prepares, stepping, lastRequest>>
ofEvents == <<ofMachine, vmAlive, slot, failed, sessions, raced>>

Doing(what) == todo # <<>> /\ Head(todo).op = what /\ ask = NoAsk

NewBreakpoint(n, type) ==
  /\ nextBreakpointId' = nextBreakpointId + 1
  /\ shared' = (shared \/ n \in Range(breakpointIds))
  /\ breakpointIds' = With(breakpointIds, nextBreakpointId + 1, n)
  /\ userBreakpoints' = IF type = "user" THEN With(userBreakpoints, n, nextBreakpointId + 1)
                                         ELSE userBreakpoints

AddBreakpoint ==
  /\ Doing("add")
  /\ NewBreakpoint(Head(todo).node, Head(todo).type)
  /\ IF vmAlive
       THEN Request("class", Head(todo).node, 0) /\ UNCHANGED <<todo, unsetBreakpoints>>
       ELSE /\ unsetBreakpoints' = unsetBreakpoints \cup {Head(todo).node}
            /\ Done
  /\ UNCHANGED <<ofEvents, setBreakpoints, breakOnLoadClasses, breakpointListeners, shown>>

(* isParentClassLoaded returns in addBreakpointAt. *)
ClassIsLoaded ==
  /\ Returns("class") /\ ask.result = 1
  /\ Request("set", ask.node, 0)
  /\ UNCHANGED <<ofEvents, places, virtual, shown, todo>>

ClassIsNotLoaded ==
  /\ Returns("class") /\ ask.result = 0
  /\ unsetBreakpoints' = unsetBreakpoints \cup {ask.node}
  /\ IF ToPrepare({ask.node}) # {}
       THEN Request("prepare", ask.node, 0) /\ UNCHANGED todo
       ELSE Done
  /\ UNCHANGED <<ofEvents, setBreakpoints, breakOnLoadClasses, virtual, shown>>

BreakpointIsSet ==
  /\ Returns("set")
  /\ setBreakpoints' = With(setBreakpoints, ask.result, ask.node)
  /\ Done
  /\ UNCHANGED <<ofEvents, unsetBreakpoints, breakOnLoadClasses, virtual, shown>>

ClassIsWatched ==
  /\ Returns("prepare")
  /\ breakOnLoadClasses' = breakOnLoadClasses \cup {ClassOf[ask.node]}
  /\ Done
  /\ UNCHANGED <<ofEvents, unsetBreakpoints, setBreakpoints, virtual, shown>>

AddListeners ==
  /\ Doing("listen")
  /\ breakpointListeners' = Over([id \in Head(todo).ids |-> Head(todo).action], breakpointListeners)
  /\ Done
  /\ UNCHANGED <<ofEvents, places, breakpointIds, nextBreakpointId, shared, userBreakpoints, shown>>

(* The end of removeBreakpoint. *)
Forget(id, n) ==
  /\ userBreakpoints' = Without(userBreakpoints, n)
  /\ breakpointListeners' = Without(breakpointListeners, id)

(* A mistake: a node that is not set yet stays. *)
Unset_Kept(n) == unsetBreakpoints

Unset(n) == unsetBreakpoints \ {n}

(* removeBreakpoint, up to the request of removeBreakpointAt. *)
RemoveBreakpoint ==
  LET id == Head(todo).id
      n == breakpointIds[id]
      set == {r \in DOMAIN setBreakpoints : setBreakpoints[r] = n}
  IN  /\ Doing("remove") /\ id \in DOMAIN breakpointIds
      /\ breakpointIds' = Without(breakpointIds, id)
      /\ unsetBreakpoints' = Unset(n)
      /\ \/ /\ set = {} /\ UNCHANGED setBreakpoints
            /\ Forget(id, n) /\ Done
         \/ /\ ~vmAlive
            /\ \E r \in set : setBreakpoints' = Without(setBreakpoints, r)
            /\ Forget(id, n) /\ Done
         \/ /\ vmAlive
            /\ \E r \in set : Request("clear", n, r)
            /\ UNCHANGED <<setBreakpoints, userBreakpoints, breakpointListeners, todo>>
      /\ UNCHANGED <<ofEvents, breakOnLoadClasses, nextBreakpointId, shared, shown>>

RemoveUnknown ==
  /\ Doing("remove") /\ Head(todo).id \notin DOMAIN breakpointIds
  /\ breakpointListeners' = Without(breakpointListeners, Head(todo).id)
  /\ Done
  /\ UNCHANGED <<ofEvents, places, breakpointIds, nextBreakpointId, shared, userBreakpoints, shown>>

(* A mistake: the request stays. *)
Cleared_Kept(r) == setBreakpoints

(* A mistake: every request of the node goes. *)
Cleared_Node(r) ==
  Restrict(setBreakpoints, {s \in DOMAIN setBreakpoints : setBreakpoints[s] # setBreakpoints[r]})

Cleared(r) == Without(setBreakpoints, r)

BreakpointIsCleared ==
  /\ Returns("clear")
  /\ setBreakpoints' = Cleared(ask.result)
  /\ Forget(Head(todo).id, ask.node)
  /\ Done
  /\ UNCHANGED <<ofEvents, unsetBreakpoints, breakOnLoadClasses, breakpointIds, nextBreakpointId,
                 shared, shown>>

-----------------------------------------------------------------------------
(***************************************************************************)
(* Commands of the user.                                                   *)
(***************************************************************************)
Add(n, type) == [op |-> "add", node |-> n, type |-> type]
Listen(ids, action) == [op |-> "listen", ids |-> ids, action |-> action]
Remove(id) == [op |-> "remove", id |-> id]

Command(act) == act \in Acts /\ Idle
Fits(ns) == nextBreakpointId + Len(ns) <= MaxBreakpoints

ofCommand == <<machine, vmAlive, places, virtual, ask, slot, failed, sessions, raced>>

ToggleBreakpoint ==
  /\ Command("toggle")
  /\ \E n \in Node :
       IF n \in DOMAIN userBreakpoints
         THEN todo' = <<Remove(userBreakpoints[n])>>
         ELSE /\ Fits(<<n>>)
              /\ todo' = <<Add(n, "user"), Listen({nextBreakpointId + 1}, "stop")>>
  /\ UNCHANGED <<ofCommand, shown>>

Probe ==
  /\ Command("probe")
  /\ \E n \in Node :
       /\ Fits(<<n>>)
       /\ todo' = <<Add(n, "internal"), Listen({nextBreakpointId + 1}, "resume")>>
       /\ probes' = probes \cup {<<n, nextBreakpointId + 1>>}
  /\ UNCHANGED <<ofCommand, trackedVariables, plotOverlay>>

RemoveProbe ==
  /\ Command("probe")
  /\ \E p \in probes : todo' = <<Remove(p[2])>> /\ probes' = probes \ {p}
  /\ UNCHANGED <<ofCommand, trackedVariables, plotOverlay>>

(* The listeners come last. *)
TrackVariable ==
  LET k == Len(References)
      ids == [i \in 1..k |-> nextBreakpointId + i]
      Added(i) == Add(References[i], "internal")
  IN  /\ Command("track") /\ plotOverlay = "none" /\ Fits(References)
      /\ todo' = [i \in 1..k |-> Added(i)] \o <<Listen(Range(ids), "resume")>>
      /\ trackedVariables' = ids /\ plotOverlay' = "shown"
      /\ UNCHANGED <<ofCommand, probes>>

(* The entry in trackedVariables stays. *)
UntrackVariable ==
  /\ Command("track") /\ plotOverlay # "none"
  /\ todo' = [i \in DOMAIN trackedVariables |-> Remove(trackedVariables[i])]
  /\ plotOverlay' = "deleted"
  /\ UNCHANGED <<ofCommand, probes, trackedVariables>>

(***************************************************************************)
(* resume and step.  A VM that runs goes on as it was, or takes the step,  *)
(* if the thread that stopped last is still known (currentThreadId_).      *)
(* Assumed: an event under way is handled before the key is.               *)
(***************************************************************************)
Go ==
  /\ Command("go") /\ vmAlive /\ vm # "off" /\ event = NoEvent
  /\ vm' = "running"
  /\ \/ UNCHANGED stepping
     \/ "step" \in Acts /\ stepping' = TRUE
  /\ UNCHANGED <<loaded, requests, prepares, lastRequest, event, vmAlive, places, virtual, shown, todo,
                 ask, slot, failed, sessions, raced>>

UnsetAgain == unsetBreakpoints \cup Range(setBreakpoints)

(* A mistake: the classes of the last session stay. *)
NoClasses_Kept == breakOnLoadClasses

NoClasses == {}

(* debugTree, when the last VM is gone; the new one reports its start. *)
DebugTree ==
  /\ Idle /\ vm = "off" /\ ~vmAlive /\ event = NoEvent /\ sessions < MaxSessions
  /\ unsetBreakpoints' = UnsetAgain
  /\ setBreakpoints' = Empty /\ breakOnLoadClasses' = NoClasses
  /\ vm' = "suspended" /\ loaded' = {} /\ requests' = Empty /\ prepares' = {} /\ stepping' = FALSE
  /\ lastRequest' = 0
  /\ event' = [NoEvent EXCEPT !.kind = "start"]
  /\ sessions' = sessions + 1
  /\ UNCHANGED <<vmAlive, virtual, shown, todo, ask, slot, failed, raced>>

VM == LoadClass \/ Reach \/ Exit \/ Answer

Events == HandleVMStart \/ HandleVMDeath \/ HandleBreakpoint \/ SlotEnds

Steps ==
  \/ AddBreakpoint \/ ClassIsLoaded \/ ClassIsNotLoaded \/ BreakpointIsSet \/ ClassIsWatched
  \/ AddListeners \/ RemoveBreakpoint \/ RemoveUnknown \/ BreakpointIsCleared

Commands ==
  ToggleBreakpoint \/ Probe \/ RemoveProbe \/ TrackVariable \/ UntrackVariable \/ Go \/ DebugTree

Next == ~failed /\ (VM \/ Events \/ Steps \/ Commands)

Spec == Init /\ [][Next]_vars

-----------------------------------------------------------------------------
IsMap(f, S, T) == DOMAIN f \subseteq S /\ Range(f) \subseteq T

TypeOK ==
  /\ vm \in {"off", "running", "suspended"}
  /\ loaded \subseteq Class /\ prepares \subseteq Class /\ breakOnLoadClasses \subseteq Class
  /\ IsMap(requests, 1..lastRequest, Location) /\ IsMap(setBreakpoints, Nat, Node)
  /\ event.kind \in {"none", "start", "prepare", "break", "death"}
  /\ event.kind # "none" => vm # "running"
  /\ unsetBreakpoints \subseteq Node
  /\ IsMap(breakpointIds, 1..nextBreakpointId, Node)
  /\ IsMap(breakpointListeners, 1..nextBreakpointId, {"stop", "resume"})
  /\ IsMap(userBreakpoints, Node, 1..nextBreakpointId)
  /\ ask.phase # "none" => todo # <<>> /\ Head(todo).op \in {"add", "remove"}

(***************************************************************************)
(* JavaDebugger.h:156: a set breakpoint is known to the VM by its request  *)
(* id, and the VM has no other, whatever events come while the user's      *)
(* command waits for a reply.                                              *)
(***************************************************************************)
Returning(what, r) == ask.what = what /\ ask.phase = "answered" /\ ask.result = r

SetIsKnown ==
  vm # "off" =>
    /\ \A r \in DOMAIN requests :
         \/ r \in DOMAIN setBreakpoints /\ LocationOf[setBreakpoints[r]] = requests[r]
         \/ Returning("set", r)
    /\ \A r \in DOMAIN setBreakpoints : r \in DOMAIN requests \/ Returning("clear", r)

(***************************************************************************)
(* addBreakpoint, removeBreakpoint: between commands of the user, the      *)
(* nodes with a breakpoint are those that are set or wait to be set, each  *)
(* once, in every session; none is forgotten, none is left over.           *)
(***************************************************************************)
EachOnce ==
  Idle /\ ~shared =>
    /\ unsetBreakpoints \cup Range(setBreakpoints) = Range(breakpointIds)
    /\ unsetBreakpoints \cap Range(setBreakpoints) = {}
    /\ IsInjective(setBreakpoints)
    /\ DOMAIN breakpointListeners = DOMAIN breakpointIds
    /\ \A n \in DOMAIN userBreakpoints : n \in Range(breakpointIds)

(***************************************************************************)
(* JavaDebugger.h:163, 101: several breakpoints are allowed on one node,   *)
(* and removeBreakpoint removes one: the node is set or waits to be set as *)
(* long as it has any.                                                     *)
(***************************************************************************)
BreakpointsBacked ==
  Idle => Range(breakpointIds) \subseteq unsetBreakpoints \cup Range(setBreakpoints)

(***************************************************************************)
(* trySetBreakpoints, breaktAtParentClassLoad: a breakpoint that is not    *)
(* set waits for the loading of its class, which is going to be reported,  *)
(* unless the VM ran while a command waited for a reply.                   *)
(***************************************************************************)
WaitsForClass ==
  vmAlive /\ Idle /\ event = NoEvent /\ ~raced =>
    \A n \in unsetBreakpoints : ClassOf[n] \in prepares \ loaded

(* JavaDebugger.cpp:478: no event comes of a breakpoint that is unknown.    *)
EventKnown == ~failed

(* The same, unless the VM ran while a command waited for a reply.         *)
EventKnownAtRest == ~raced => ~failed

(***************************************************************************)
(* handleBreakpoint: at a breakpoint of the user the VM stays suspended,   *)
(* whatever else is at that place.                                         *)
(***************************************************************************)
StopsAt(n) ==
  /\ userBreakpoints[n] \in DOMAIN breakpointIds \cap DOMAIN breakpointListeners
  /\ \E r \in event.requests \cap DOMAIN requests : requests[r] = LocationOf[n]

UserStops ==
  [][HandleBreakpoint /\ ~failed' /\ (\E n \in DOMAIN userBreakpoints : StopsAt(n))
       => vm' = "suspended"]_vars

(* JavaDebugger.cpp:197: the overlay of a tracked variable is removed once. *)
OverlayThere == [][UntrackVariable => plotOverlay = "shown"]_vars
=============================================================================
