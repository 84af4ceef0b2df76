--------------------------- MODULE DebugConnector ---------------------------
(***************************************************************************)
(* OODebug::DebugConnector: requests to a Java VM, their replies and the   *)
(* VM's events, all over one socket and in one thread.                     *)
(*                                                                         *)
(* sendCommand() waits for the reply.  While it waits, the socket emits    *)
(* readyRead, unless a slot of readyRead is running already (QTcpSocket    *)
(* guards against that), and dispatchEvents() runs listeners that call     *)
(* sendCommand() again.  So two calls are in progress at most: `user`, of  *)
(* the user interface, and `inner`, of a slot.                             *)
(*                                                                         *)
(* Half a packet is the unit of the byte streams; the first half holds the *)
(* header.  The handshake is one unit.                                     *)
(***************************************************************************)
EXTENDS Naturals, SequencesExt

CONSTANTS Composites,     \* the events that may come in one packet
          UserCommand,    \* what the user may request of the VM
          Ends,           \* how a VM may end: "exit", "crash"
          Restart,        \* connect() again: "clean" or "any" time
          MaxEvents,      \* bound: packets with events of one VM
          MaxId,          \* bound: requests of one connection
          MaxConnections  \* bound: calls of connect()

Kind == {"start", "prepare", "probe", "stop", "step", "death"}
Command == {"query", "suspend", "resume", "step"}

ASSUME ConnectorAssumption ==
  /\ Composites \subseteq Seq(Kind \ {"start", "death"}) \ {<<>>}
  /\ UserCommand \subseteq Command
  /\ Ends \subseteq {"exit", "crash"} /\ Restart \in {"clean", "any"}
  /\ MaxEvents \in Nat /\ MaxId \in Nat /\ MaxConnections \in Nat \ {0}

VARIABLES
  vm,          \* the VM: "starting", "up", "exiting" or "gone"
  suspends,    \* how often it is suspended
  inbox,       \* the requests it has not answered
  events,      \* how many packets with events it sent
  wire,        \* what it sent and QTcpSocket has not read
  buffer,      \* what QTcpSocket has read and the connector has not
  incompleteData, messagesReadyForProcessing, vmAlive, resumeRequest,
  nextId,      \* Command::nextId_
  onReadyRead, \* the slot that is connected to readyRead
  slot,        \* where the slot is that is running
  composite,   \* the packet that handleComposite handles
  current,     \* which of its events
  inner, user, \* the calls of sendCommand
  connection,  \* history: calls of connect()
  handled,     \* history: packets with events of this VM that were handled
  alone        \* history: the user asked nothing of this VM

machine == <<vm, suspends, inbox, events>>
stream == <<wire, buffer, incompleteData>>
calls == <<inner, user>>
vars == <<machine, stream, messagesReadyForProcessing, vmAlive, resumeRequest, nextId,
          onReadyRead, slot, composite, current, calls, connection, alone, handled>>

NoCall == [id |-> 0, phase |-> "none"]
Handshake == <<"handshake">>

(* A packet of the present VM: a reply if it has no events. *)
Packet(id, es) == [vm |-> connection, id |-> id, events |-> es]
NoPacket == [vm |-> 0, id |-> 0, events |-> <<>>]
Units(p) == <<<<p, 1>>, <<p, 2>>>>

IsEvent(p) == p.events # <<>>

Init ==
  /\ vm = "starting" /\ suspends = 0 /\ inbox = <<>> /\ events = 0
  /\ wire = <<Handshake>> /\ buffer = <<>> /\ incompleteData = <<>>
  /\ messagesReadyForProcessing = <<>>
  /\ vmAlive = FALSE /\ resumeRequest = "neutral" /\ nextId = 0
  /\ onReadyRead = "readHandshake"
  /\ slot = "idle" /\ composite = NoPacket /\ current = 0
  /\ inner = NoCall /\ user = NoCall
  /\ connection = 1 /\ handled = 0 /\ alone = TRUE

-----------------------------------------------------------------------------
(***************************************************************************)
(* The VM, as far as the connector relies on it: it answers requests in    *)
(* order, is suspended by every event but its death, runs when each        *)
(* suspension is resumed, and numbers its packets from 0.                  *)
(***************************************************************************)
SendEvents(es) ==
  /\ wire' = wire \o Units(Packet(events, es))
  /\ events' = events + 1

ofConnector == <<buffer, incompleteData, messagesReadyForProcessing, vmAlive, resumeRequest, nextId,
                 onReadyRead, slot, composite, current, calls, connection, alone, handled>>

VMStart ==
  /\ vm = "starting"
  /\ SendEvents(<<"start">>)
  /\ vm' = "up" /\ suspends' = suspends + 1
  /\ UNCHANGED <<inbox, ofConnector>>

VMEvents ==
  /\ vm = "up" /\ suspends = 0 /\ events < MaxEvents
  /\ \E es \in Composites : SendEvents(es)
  /\ suspends' = 1
  /\ UNCHANGED <<vm, inbox, ofConnector>>

VMAnswer ==
  /\ vm # "gone" /\ inbox # <<>>
  /\ wire' = wire \o Units(Packet(Head(inbox).id, <<>>))
  /\ inbox' = Tail(inbox)
  /\ suspends' = CASE Head(inbox).command = "suspend" -> suspends + 1
                   [] Head(inbox).command = "resume" /\ suspends > 0 -> suspends - 1
                   [] OTHER -> suspends
  /\ UNCHANGED <<vm, events, ofConnector>>

VMExit ==
  /\ "exit" \in Ends /\ vm = "up" /\ suspends = 0
  /\ SendEvents(<<"death">>)
  /\ vm' = "exiting"
  /\ UNCHANGED <<suspends, inbox, ofConnector>>

VMGone ==
  /\ \/ vm = "exiting"
     \/ vm \in {"starting", "up"} /\ "crash" \in Ends
  /\ vm' = "gone"
  /\ UNCHANGED <<suspends, inbox, events, wire, ofConnector>>

-----------------------------------------------------------------------------
(***************************************************************************)
(* sendCommand and waitForReply, by the slot if one is running.            *)
(***************************************************************************)
Calling == IF slot = "idle" THEN user ELSE inner

SetCalling(c) ==
  IF slot = "idle" THEN user' = c /\ UNCHANGED inner
                   ELSE inner' = c /\ UNCHANGED user

(* A mistake: nextId_++ *)
NewId_Before == nextId

NewId == nextId + 1
NewCall == [id |-> NewId, phase |-> "sending"]

(* The first part: the command is written. *)
Send(command, cause) ==
  /\ nextId' = nextId + 1
  /\ inbox' = Append(inbox, [id |-> NewId, command |-> command, cause |-> cause])

SendInner(command, cause) ==
  /\ Send(command, cause)
  /\ inner' = NewCall
  /\ UNCHANGED user

(***************************************************************************)
(* readFromSocket: one packet, if it is whole; the rest is kept.           *)
(***************************************************************************)
(* A mistake: the part that came before is lost. *)
Data_Forgotten == buffer

Data == incompleteData \o buffer

Whole(data) == Len(data) >= 2

(* A mistake: what follows the packet is lost. *)
Rest_Dropped(data) == IF Whole(data) THEN <<>> ELSE data

Rest(data) == IF Whole(data) THEN SubSeq(data, 3, Len(data)) ELSE data

WithNext(list, data) == IF Whole(data) THEN Append(list, data[1][1]) ELSE list

ReadFromSocket == incompleteData' = Rest(Data) /\ buffer' = <<>>

Ready == WithNext(messagesReadyForProcessing, Data)

(* A mistake: the message stays in the list. *)
Without_Not(list, i) == list

(* takeAt(i), erase(i) *)
Without(list, i) == RemoveAt(list, i)

(* The search for the reply in list; without it, waitForReadyRead(). *)
Search(list) ==
  LET found == {i \in DOMAIN list : list[i].id = Calling.id}
  IN  IF found = {}
        THEN /\ messagesReadyForProcessing' = list
             /\ SetCalling([Calling EXCEPT !.phase = "waiting"])
        ELSE /\ messagesReadyForProcessing' = Without(list, Min(found))
             /\ SetCalling(NoCall)

ofVM == <<machine, wire>>
ofSlot == <<vmAlive, resumeRequest, onReadyRead, slot, composite, current, handled>>

(* waitForBytesWritten() ends. *)
Sent ==
  /\ Calling.phase = "sending"
  /\ Search(messagesReadyForProcessing)
  /\ UNCHANGED <<ofVM, buffer, incompleteData, nextId, ofSlot, connection, alone>>

(* waitForReadyRead() gives up: after 30 seconds, or as the VM is gone. *)
Timeout ==
  /\ Calling.phase = "waiting" /\ wire = <<>>
  /\ SetCalling([Calling EXCEPT !.phase = "returned"])
  /\ UNCHANGED <<ofVM, buffer, incompleteData, messagesReadyForProcessing, nextId, ofSlot, connection, alone>>

WaitReturns ==
  /\ Calling.phase = "returned"
  /\ ReadFromSocket
  /\ Search(Ready)
  /\ UNCHANGED <<ofVM, nextId, ofSlot, connection, alone>>

(***************************************************************************)
(* QTcpSocket reads from the network: in the event loop, and inside both   *)
(* waitForBytesWritten() and waitForReadyRead(), which then returns.       *)
(***************************************************************************)
Arrive ==
  /\ \/ slot = "idle" /\ user = NoCall
     \/ Calling.phase \in {"sending", "waiting"}
  /\ \E k \in 1..Len(wire) :
       /\ buffer' = buffer \o SubSeq(wire, 1, k)
       /\ wire' = SubSeq(wire, k + 1, Len(wire))
  /\ SetCalling([Calling EXCEPT !.phase = IF @ = "waiting" THEN "returned" ELSE @])
  /\ slot' = IF slot = "idle" THEN onReadyRead ELSE slot
  /\ UNCHANGED <<machine, incompleteData, messagesReadyForProcessing, vmAlive, resumeRequest,
                 nextId, onReadyRead, composite, current, connection, alone, handled>>

-----------------------------------------------------------------------------
(***************************************************************************)
(* The slots of readyRead.                                                 *)
(***************************************************************************)
BehindHandshake == Tail(buffer)

(* readHandshake, up to the request of checkVersion. *)
ReadHandshake ==
  /\ slot = "readHandshake"
  /\ onReadyRead' = "dispatchEvents" /\ slot' = "checkVersion"
  /\ buffer' = <<>>
  /\ IF BehindHandshake # <<>>
       THEN /\ incompleteData' = Rest(BehindHandshake)
            /\ messagesReadyForProcessing' = WithNext(messagesReadyForProcessing, BehindHandshake)
       ELSE UNCHANGED <<incompleteData, messagesReadyForProcessing>>
  /\ SendInner("query", 0)
  /\ UNCHANGED <<vm, suspends, events, wire, vmAlive, resumeRequest, composite, current, connection, alone, handled>>

CheckIdSizes ==
  /\ slot = "checkVersion" /\ inner = NoCall
  /\ slot' = "checkIdSizes"
  /\ SendInner("query", 0)
  /\ UNCHANGED <<vm, suspends, events, stream, messagesReadyForProcessing, vmAlive, resumeRequest,
                 onReadyRead, composite, current, connection, alone, handled>>

Alive(kind) == IF kind = "start" THEN TRUE ELSE IF kind = "death" THEN FALSE ELSE vmAlive

(***************************************************************************)
(* dispatchEvents(), on readyRead, at the end of readHandshake and again   *)
(* after handleComposite, up to the first listener: it handles the first   *)
(* event among the messages, and is done if there is none.                 *)
(***************************************************************************)
DispatchEvents ==
  LET found == {i \in DOMAIN Ready : IsEvent(Ready[i])}
      i == Min(found)
  IN  /\ slot \in {"dispatchEvents", "checkIdSizes", "resume"} /\ inner = NoCall
      /\ ReadFromSocket
      /\ IF found = {}
           THEN /\ slot' = "idle" /\ messagesReadyForProcessing' = Ready
                /\ UNCHANGED <<vmAlive, resumeRequest, composite, current, handled>>
           ELSE /\ slot' = "listener"
                /\ messagesReadyForProcessing' = Without(Ready, i)
                /\ composite' = Ready[i] /\ current' = 1
                /\ resumeRequest' = "neutral"
                /\ vmAlive' = Alive(Head(Ready[i].events))
                /\ handled' = handled + 1
      /\ UNCHANGED <<ofVM, nextId, onReadyRead, calls, connection, alone>>

(* A listener asks the VM for something. *)
ListenerRequest ==
  /\ slot = "listener" /\ inner = NoCall /\ nextId < MaxId
  /\ composite.events[current] # "death"
  /\ SendInner("query", 0)
  /\ UNCHANGED <<vm, suspends, events, stream, messagesReadyForProcessing, ofSlot, connection, alone>>

(* wantResume(), as the listeners of JavaDebugger call it. *)
WantResume(kind) ==
  CASE kind \in {"start", "prepare", "probe"} ->
         IF resumeRequest = "dontresume" THEN resumeRequest ELSE "resume"
    [] kind = "step" -> "dontresume"
    [] OTHER -> resumeRequest

(* The listener returns: the next event, the end of handleComposite, or its resume(). *)
ListenerReturns ==
  LET es == composite.events
      last == current = Len(es)
  IN  /\ slot = "listener" /\ inner = NoCall
      /\ resumeRequest' = WantResume(es[current])
      /\ vmAlive' = IF last THEN vmAlive ELSE Alive(es[current + 1])
      /\ current' = IF last THEN 0 ELSE current + 1
      /\ composite' = IF last THEN NoPacket ELSE composite
      /\ IF last /\ resumeRequest' = "resume" /\ vmAlive
           THEN SendInner("resume", composite.id + 1) /\ slot' = "resume"
           ELSE /\ slot' = IF last THEN "dispatchEvents" ELSE slot
                /\ UNCHANGED <<inbox, nextId, calls>>
      /\ UNCHANGED <<vm, suspends, events, stream, messagesReadyForProcessing, onReadyRead,
                     connection, alone, handled>>

-----------------------------------------------------------------------------
(* A command of the user, in the event loop; step() alone does not look at vmAlive. *)
UserRequest ==
  /\ slot = "idle" /\ user = NoCall /\ nextId < MaxId
  /\ \E c \in UserCommand :
       /\ vmAlive \/ c = "step"
       /\ Send(c, 0)
  /\ user' = NewCall
  /\ UNCHANGED <<vm, suspends, events, stream, messagesReadyForProcessing, ofSlot, inner, connection>>
  /\ alone' = FALSE

(* All that the VM had sent is handled, and it is gone. *)
CleanEnd ==
  vm = "gone" /\ wire = <<>> /\ buffer = <<>> /\ incompleteData = <<>>
  /\ messagesReadyForProcessing = <<>>

(* The next connect(), to a new VM; the old one is killed before. *)
Connect ==
  /\ slot = "idle" /\ user = NoCall /\ connection < MaxConnections
  /\ Restart = "clean" => CleanEnd
  /\ vm' = "starting" /\ suspends' = 0 /\ inbox' = <<>> /\ events' = 0
  /\ wire' = <<Handshake>> /\ buffer' = <<>>
  /\ nextId' = 0
  /\ onReadyRead' = "readHandshake"
  /\ connection' = connection + 1 /\ handled' = 0 /\ alone' = TRUE
  /\ UNCHANGED <<incompleteData, messagesReadyForProcessing, vmAlive, resumeRequest, slot,
                 composite, current, calls>>

(* What the thread of the user interface does by itself. *)
Proceed ==
  \/ Sent \/ Timeout \/ WaitReturns
  \/ ReadHandshake \/ CheckIdSizes \/ DispatchEvents \/ ListenerRequest \/ ListenerReturns

VM == VMStart \/ VMEvents \/ VMAnswer \/ VMExit \/ VMGone

Next == VM \/ Arrive \/ Proceed \/ UserRequest \/ Connect

Spec == Init /\ [][Next]_vars

FairSpec ==
  Spec /\ WF_vars(VMStart) /\ WF_vars(VMAnswer) /\ WF_vars(Arrive) /\ WF_vars(Proceed)

-----------------------------------------------------------------------------
TypeOK ==
  /\ vm \in {"starting", "up", "exiting", "gone"}
  /\ suspends \in Nat /\ events \in Nat /\ nextId \in Nat /\ handled \in 0..events
  /\ \A i \in DOMAIN inbox : inbox[i].command \in Command /\ inbox[i].id <= nextId
  /\ vmAlive \in BOOLEAN
  /\ resumeRequest \in {"neutral", "resume", "dontresume"}
  /\ onReadyRead \in {"readHandshake", "dispatchEvents"}
  /\ slot \in {"idle", "readHandshake", "checkVersion", "checkIdSizes", "dispatchEvents",
               "listener", "resume"}
  /\ \A c \in {inner, user} :
       c.id <= nextId /\ c.phase \in {"none", "sending", "waiting", "returned"}
  /\ slot \in {"idle", "readHandshake", "dispatchEvents"} => inner = NoCall
  /\ connection \in 1..MaxConnections /\ alone \in BOOLEAN

(***************************************************************************)
(* The packets on their way to the listeners and to waitForReply, with     *)
(* their places in what is read, and what is not.                          *)
(***************************************************************************)
IsHeader(u) == u # Handshake /\ u[2] = 1
Underway ==
  LET us == [i \in DOMAIN messagesReadyForProcessing |-> <<messagesReadyForProcessing[i], 1>>]
            \o incompleteData \o buffer \o wire
  IN  {[place |-> i, packet |-> us[i][1]] : i \in {j \in DOMAIN us : IsHeader(us[j])}}

EventsUnderway == {e \in Underway : IsEvent(e.packet)}
RepliesUnderway == {r \in Underway : ~IsEvent(r.packet)}

(***************************************************************************)
(* readFromSocket, dispatchEvents: no event is lost, handled twice or out  *)
(* of order, however packets are cut, joined and read inside other calls:  *)
(* the packets under way are those sent after the ones handled.            *)
(***************************************************************************)
EventsInOrder ==
  /\ {e.packet.id : e \in EventsUnderway} = handled .. (events - 1)
  /\ \A e, f \in EventsUnderway : e.place < f.place => e.packet.id < f.packet.id

(* The ids that calls in progress wait for. *)
Expected == {c.id : c \in {d \in {inner, user} : d.phase # "none"}}

(***************************************************************************)
(* waitForReply: each call in progress waits for one request or reply that *)
(* is still under way, there is no other, and replies come in the order of *)
(* the requests.                                                           *)
(***************************************************************************)
RepliesExpected ==
  /\ {inbox[i].id : i \in DOMAIN inbox} \cup {r.packet.id : r \in RepliesUnderway} = Expected
  /\ \A q, r \in RepliesUnderway : q.place < r.place => q.packet.id < r.packet.id
  /\ \A r \in RepliesUnderway, i \in DOMAIN inbox : r.packet.id < inbox[i].id
  /\ \A i, j \in DOMAIN inbox : i < j => inbox[i].id < inbox[j].id

(***************************************************************************)
(* waitForReply takes the first message with the id of its request, reply  *)
(* or not, while the VM numbers its packets by itself: an event with an id *)
(* that a call waits for comes after the reply.                            *)
(***************************************************************************)
NoEventForReply ==
  \A e \in EventsUnderway : e.packet.id \in Expected =>
    \E r \in RepliesUnderway : r.place < e.place /\ r.packet.id = e.packet.id

(* DebugConnector.h:67: listeners are called whenever an event is received: *)
(* when the thread is back in the event loop, and all that was sent has     *)
(* arrived, no event is left.                                               *)
NoEventEverLeft ==
  slot = "idle" /\ user = NoCall /\ wire = <<>> => handled = events

(***************************************************************************)
(* handleComposite: the resume() after a packet of events reaches the VM   *)
(* while it is suspended by that packet, never after a later one, if the   *)
(* user does not resume as well.                                           *)
(***************************************************************************)
ResumesItsOwn ==
  alone => \A i \in DOMAIN inbox : inbox[i].cause # 0 => inbox[i].cause = events

(***************************************************************************)
(* DebugConnector.h:83: if there are multiple events all should agree to   *)
(* resume, otherwise the VM is not resumed.                                *)
(***************************************************************************)
AllAgree ==
  [][ListenerReturns /\ slot' = "resume"
       => Range(composite.events) \subseteq {"start", "prepare", "probe"}]_vars

(* DebugConnector.h:114: vmAlive() tells whether the program is running.    *)
VmAliveTrue ==
  slot = "idle" /\ user = NoCall /\ vm = "gone" /\ wire = <<>> => ~vmAlive

(* JavaDebugger.cpp:478: no listener hears of an event of an earlier VM.    *)
OnlyThisVM == slot = "listener" => composite.vm = connection

(* sendCommand: every request of the user returns, as long as the VM lives. *)
RequestReturns == user # NoCall ~> (user = NoCall \/ vm \in {"exiting", "gone"})

(* The same when the VM ends meanwhile. *)
RequestAlwaysReturns == user # NoCall ~> user = NoCall

(***************************************************************************)
(* The events a VM sent are all handled in the end, unless the user asks   *)
(* something or the VM is gone before it answered the listeners.           *)
(***************************************************************************)
EventsHandled == handled < events ~> handled = events \/ ~alone \/ vm = "gone"
=============================================================================
