------------------------ MODULE DebugConnectorProofs ------------------------
(***************************************************************************)
(* Proofs about DebugConnector: what holds of the messages between a VM    *)
(* and the connector, however many packets, requests and connections.      *)
(*                                                                         *)
(* The properties speak of halves of packets in five places.  The proofs   *)
(* speak of two sequences instead: `all`, the packets under way, whole and *)
(* in the order in which they are read, and `ps`, those of them that are   *)
(* unread.  Invariant(ps, all) says which bytes that makes (Packets), which*)
(* events and replies they are (EventsIn, RepliesIn), and why a reply comes*)
(* before the events with its id (RepliesAhead): a VM that runs has had    *)
(* each of its events resumed, and each resume is an answered request.     *)
(*                                                                         *)
(* First the lemmas about sequences, then what the invariant is for, then  *)
(* what a packet more or less does to each part of it, then the steps.     *)
(***************************************************************************)
EXTENDS DebugConnector, SequenceTheorems, FiniteSetTheorems, TLAPS

(* connect() only after all of the VM before was read (see Connect). *)
CleanRestart == Restart = "clean"

PacketSet == [vm : Nat, id : Nat, events : Seq(Kind)]
Unit == {Handshake} \cup (PacketSet \X {1, 2})
Request == [id : Nat, command : Command, cause : Nat]
Call == [id : Nat, phase : {"none", "sending", "waiting", "returned"}]

Types ==
  /\ vm \in {"starting", "up", "exiting", "gone"}
  /\ suspends \in Nat /\ events \in Nat /\ nextId \in Nat /\ handled \in Nat
  /\ inbox \in Seq(Request)
  /\ wire \in Seq(Unit) /\ buffer \in Seq(Unit) /\ incompleteData \in Seq(Unit)
  /\ messagesReadyForProcessing \in Seq(PacketSet)
  /\ vmAlive \in BOOLEAN /\ alone \in BOOLEAN
  /\ resumeRequest \in {"neutral", "resume", "dontresume"}
  /\ onReadyRead \in {"readHandshake", "dispatchEvents"}
  /\ slot \in {"idle", "readHandshake", "checkVersion", "checkIdSizes", "dispatchEvents",
               "listener", "resume"}
  /\ inner \in Call /\ user \in Call
  /\ inner.id <= nextId /\ user.id <= nextId
  /\ connection \in 1 .. MaxConnections

(* The slot that runs, and what it has at hand. *)
Slots ==
  /\ slot \in {"idle", "readHandshake", "dispatchEvents"} => inner = NoCall
  /\ slot = "listener" =>
       /\ composite \in PacketSet /\ current \in DOMAIN composite.events
       /\ composite.id + 1 = handled
  /\ slot = "readHandshake" => onReadyRead = "readHandshake" /\ buffer # <<>>
  /\ onReadyRead = "readHandshake" =>
       /\ slot \in {"idle", "readHandshake"}
       /\ messagesReadyForProcessing = <<>> /\ incompleteData = <<>>
       /\ slot = "idle" => buffer = <<>> /\ user.phase # "returned"

(* The unread units us are the handshake, if h is 1, and the packets ps, whole. *)
Cut(us, h, ps) ==
  /\ Len(us) = h + 2 * Len(ps)
  /\ \A i \in 1 .. Len(ps) : us[h + 2 * i - 1] = <<ps[i], 1>> /\ us[h + 2 * i] = <<ps[i], 2>>
  /\ h = 1 => us[1] = Handshake

Shake == IF onReadyRead = "readHandshake" THEN 1 ELSE 0

(* The packets under way, ps of them unread. *)
Packets(ps, all) ==
  /\ ps \in Seq(PacketSet) /\ all \in Seq(PacketSet)
  /\ Cut((incompleteData \o buffer) \o wire, Shake, ps)
  /\ all = messagesReadyForProcessing \o ps

(* Their events are those that were not handled, in order. *)
EventsIn(ps) ==
  /\ \A k \in DOMAIN ps : IsEvent(ps[k]) => handled <= ps[k].id /\ ps[k].id < events
  /\ \A e \in Nat : handled <= e /\ e < events =>
       \E k \in DOMAIN ps : IsEvent(ps[k]) /\ ps[k].id = e
  /\ \A j, k \in DOMAIN ps : j < k /\ IsEvent(ps[j]) /\ IsEvent(ps[k]) => ps[j].id < ps[k].id
  /\ handled <= events

(* A call in progress waits for the reply x. *)
Awaits(x) ==
  \/ user.phase # "none" /\ user.id = x
  \/ inner.phase # "none" /\ inner.id = x

Answered == nextId - Len(inbox)

Distinct == user.phase # "none" /\ inner.phase # "none" => user.id # inner.id

(* The replies are to the calls in progress, in the order of the requests. *)
RepliesIn(ps) ==
  /\ Len(inbox) <= nextId
  /\ \A i \in DOMAIN inbox : inbox[i].id = Answered + i /\ Awaits(inbox[i].id)
  /\ \A k \in DOMAIN ps : ~IsEvent(ps[k]) => ps[k].id <= Answered /\ Awaits(ps[k].id)
  /\ \A j, k \in DOMAIN ps : j < k /\ ~IsEvent(ps[j]) /\ ~IsEvent(ps[k]) => ps[j].id < ps[k].id
  /\ \A x \in Nat : Awaits(x) =>
       x > Answered \/ \E k \in DOMAIN ps : ~IsEvent(ps[k]) /\ ps[k].id = x
  /\ Distinct

(* A VM that runs has been resumed, by a request that was answered, after   *)
(* every packet of events, so that requests are ahead of events.           *)
RepliesAhead(ps) ==
  /\ vm \in {"starting", "up"} => events <= suspends + Answered
  /\ vm = "starting" => events = 0
  /\ \A k \in DOMAIN ps : IsEvent(ps[k]) => ps[k].id <= Answered
  /\ \A j, k \in DOMAIN ps : j < k /\ IsEvent(ps[j]) /\ ~IsEvent(ps[k]) => ps[j].id < ps[k].id

(* Without requests of the user, there is one packet of events at a time.  *)
OnePacketAtATime ==
  alone =>
    /\ user = NoCall /\ events <= handled + 1
    /\ \A i \in DOMAIN inbox :
         \/ inbox[i].cause = 0 /\ inbox[i].command = "query"
         \/ /\ inbox[i].cause = events /\ inbox[i].command = "resume"
            /\ handled = events /\ slot = "resume"
    /\ slot = "listener" => handled = events
    /\ suspends = 0 /\ vm \in {"starting", "up"} =>
         /\ handled = events /\ slot # "listener"
         /\ \A i \in DOMAIN inbox : inbox[i].command = "query"
    /\ vm = "starting" => suspends = 0

Invariant(ps, all) ==
  /\ Types /\ Slots /\ Packets(ps, all)
  /\ EventsIn(all) /\ RepliesIn(all) /\ RepliesAhead(all) /\ OnePacketAtATime

IInv == \E ps, all : Invariant(ps, all)

-----------------------------------------------------------------------------

LEMMA LeastElement ==
  ASSUME NEW S \in SUBSET Nat, S # {}
  PROVE  Min(S) \in S /\ \A y \in S : Min(S) <= y
<1> DEFINE R    == StrictSubsetOrdering(Nat)
           UpTo(y) == S \cap (0 .. y)
           T    == {UpTo(y) : y \in S}
<1>1. IsWellFoundedOn(R, FiniteSubsetsOf(Nat))
  BY FS_StrictSubsetOrderingWellFounded
<1>2. T \subseteq FiniteSubsetsOf(Nat) /\ T # {}
  <2>1. ASSUME NEW y \in S
        PROVE  UpTo(y) \in FiniteSubsetsOf(Nat)
    <3>1. IsFiniteSet(0 .. y)
      BY FS_Interval
    <3>2. IsFiniteSet(UpTo(y))
      BY <3>1, FS_Subset
    <3> QED BY <3>2 DEF FiniteSubsetsOf
  <2> QED BY <2>1
<1>3. PICK z \in T : \A u \in T : <<u, z>> \notin R
  <2> HIDE DEF R, T
  <2> QED BY <1>1, <1>2, WFMin
<1>4. PICK x \in S : z = UpTo(x)
  BY <1>3
<1>5. ASSUME NEW y \in S, y < x
      PROVE  FALSE
  <2>1. UpTo(y) \subseteq UpTo(x) /\ x \in UpTo(x) /\ x \notin UpTo(y)
    BY <1>5
  <2>2. UpTo(y) \in SUBSET Nat /\ UpTo(x) \in SUBSET Nat
    OBVIOUS
  <2>3. <<UpTo(y), UpTo(x)>> \in R
    BY <2>1, <2>2 DEF StrictSubsetOrdering
  <2> QED BY <1>3, <1>4, <2>3
<1>6. \A y \in S : x <= y
  BY <1>5
<1> QED BY <1>6 DEF Min

(* What is left when the i-th element is taken out. *)
LEMMA RemoveAtProperties ==
  ASSUME NEW S, NEW s \in Seq(S), NEW i \in 1 .. Len(s)
  PROVE  /\ RemoveAt(s, i) \in Seq(S)
         /\ Len(RemoveAt(s, i)) = Len(s) - 1
         /\ \A k \in 1 .. Len(s) - 1 :
              RemoveAt(s, i)[k] = IF k < i THEN s[k] ELSE s[k + 1]
<1> DEFINE a == SubSeq(s, 1, i - 1)
           c == SubSeq(s, i + 1, Len(s))
<1>1. /\ a \in Seq(S) /\ Len(a) = i - 1
      /\ \A k \in 1..(i - 1) : a[k] = s[k]
  BY SubSeqProperties
<1>2. /\ c \in Seq(S) /\ Len(c) = Len(s) - i
      /\ \A k \in 1..(Len(s) - i) : c[k] = s[i + k]
  BY SubSeqProperties
<1>3. RemoveAt(s, i) = a \o c
  BY DEF RemoveAt
<1> HIDE DEF a, c
<1>4. /\ a \o c \in Seq(S) /\ Len(a \o c) = Len(s) - 1
      /\ \A k \in 1..(Len(s) - 1) : (a \o c)[k] = IF k < i THEN a[k] ELSE c[k - i + 1]
  <2>1. /\ a \o c \in Seq(S) /\ Len(a \o c) = Len(a) + Len(c)
        /\ \A k \in 1..(Len(a) + Len(c)) :
             (a \o c)[k] = IF k <= Len(a) THEN a[k] ELSE c[k - Len(a)]
    BY <1>1, <1>2, ConcatProperties, Zenon
  <2> DEFINE d == a \o c
  <2> HIDE DEF d
  <2>2. d \in Seq(S) /\ Len(d) = Len(s) - 1
    BY <1>1, <1>2, <2>1 DEF d
  <2>3. \A k \in 1..(Len(s) - 1) : d[k] = IF k < i THEN a[k] ELSE c[k - i + 1]
    BY <1>1, <1>2, <2>1 DEF d
  <2> QED
    BY <2>2, <2>3 DEF d
<1>5. ASSUME NEW k \in 1..(Len(s) - 1)
      PROVE  (a \o c)[k] = IF k < i THEN s[k] ELSE s[k + 1]
  BY <1>1, <1>2, <1>4
<1> QED
  BY <1>3, <1>4, <1>5

LEMMA RemoveAtConcat ==
  ASSUME NEW S, NEW s \in Seq(S), NEW t \in Seq(S), NEW i \in 1 .. Len(s)
  PROVE  RemoveAt(s, i) \o t = RemoveAt(s \o t, i)
<1>1. /\ s \o t \in Seq(S) /\ Len(s \o t) = Len(s) + Len(t) /\ i \in 1 .. Len(s \o t)
      /\ Len(s) \in Nat /\ Len(t) \in Nat
  BY ConcatProperties, LenProperties
<1>2. /\ RemoveAt(s, i) \in Seq(S) /\ Len(RemoveAt(s, i)) = Len(s) - 1
      /\ RemoveAt(s \o t, i) \in Seq(S) /\ Len(RemoveAt(s \o t, i)) = Len(s) + Len(t) - 1
  <2>1. /\ RemoveAt(s \o t, i) \in Seq(S)
        /\ Len(RemoveAt(s \o t, i)) = Len(s \o t) - 1
    BY <1>1, RemoveAtProperties
  <2> QED BY <1>1, <2>1, RemoveAtProperties
<1>3. RemoveAt(s, i) \o t \in Seq(S) /\ Len(RemoveAt(s, i) \o t) = Len(s) + Len(t) - 1
  BY <1>1, <1>2, ConcatProperties
<1>4. ASSUME NEW k \in 1 .. Len(s) + Len(t) - 1
      PROVE  (RemoveAt(s, i) \o t)[k] = RemoveAt(s \o t, i)[k]
  <2>1. RemoveAt(s \o t, i)[k] = IF k < i THEN (s \o t)[k] ELSE (s \o t)[k + 1]
    <3>1. \A j \in 1 .. Len(s \o t) - 1 :
            RemoveAt(s \o t, i)[j] = IF j < i THEN (s \o t)[j] ELSE (s \o t)[j + 1]
      BY <1>1, RemoveAtProperties
    <3> QED BY <1>1, <3>1
  <2>2. \A j \in 1 .. Len(s) + Len(t) : (s \o t)[j] = IF j <= Len(s) THEN s[j] ELSE t[j - Len(s)]
    BY ConcatProperties
  <2>3. (RemoveAt(s, i) \o t)[k] =
           IF k <= Len(s) - 1 THEN RemoveAt(s, i)[k] ELSE t[k - (Len(s) - 1)]
    BY <1>1, <1>2, ConcatProperties
  <2>4. k <= Len(s) - 1 => RemoveAt(s, i)[k] = IF k < i THEN s[k] ELSE s[k + 1]
    <3>1. k <= Len(s) - 1 => k \in 1 .. Len(s) - 1
      BY <1>1
    <3>2. \A j \in 1 .. Len(s) - 1 :
            RemoveAt(s, i)[j] = IF j < i THEN s[j] ELSE s[j + 1]
      BY RemoveAtProperties
    <3> QED BY <3>1, <3>2
  <2> QED BY <1>1, <2>1, <2>2, <2>3, <2>4
<1> QED BY <1>2, <1>3, <1>4, SeqEqual

-----------------------------------------------------------------------------
LEMMA UnitsOf ==
  ASSUME NEW p \in PacketSet
  PROVE  /\ Units(p) \in Seq(Unit) /\ Len(Units(p)) = 2
         /\ Units(p)[1] = <<p, 1>> /\ Units(p)[2] = <<p, 2>>
BY DEF Units, Unit

(* The handshake is taken from the front, or a packet. *)
LEMMA CutShaken ==
  ASSUME NEW us, NEW vs, NEW ps \in Seq(PacketSet), Cut(us, 1, ps),
         Len(vs) \in Nat, Len(us) \in Nat,
         Len(us) = Len(vs) + 1, \A j \in 1 .. Len(vs) : vs[j] = us[j + 1]
  PROVE  Cut(vs, 0, ps)
<1>1. Len(ps) \in Nat /\ Len(us) = 1 + 2 * Len(ps)
  BY LenProperties DEF Cut
<1>2. ASSUME NEW i \in 1 .. Len(ps)
      PROVE  vs[0 + 2 * i - 1] = <<ps[i], 1>> /\ vs[0 + 2 * i] = <<ps[i], 2>>
  <2>1. us[1 + 2 * i - 1] = <<ps[i], 1>> /\ us[1 + 2 * i] = <<ps[i], 2>>
    BY DEF Cut
  <2>2. /\ 0 + 2 * i - 1 \in 1 .. Len(vs) /\ 0 + 2 * i \in 1 .. Len(vs)
        /\ (0 + 2 * i - 1) + 1 = 1 + 2 * i - 1 /\ (0 + 2 * i) + 1 = 1 + 2 * i
    BY <1>1
  <2> QED BY <2>1, <2>2
<1> QED BY <1>1, <1>2 DEF Cut

LEMMA CutRead ==
  ASSUME NEW us, NEW vs, NEW ps \in Seq(PacketSet), Cut(us, 0, ps),
         Len(vs) \in Nat, Len(us) \in Nat,
         Len(us) = Len(vs) + 2, \A j \in 1 .. Len(vs) : vs[j] = us[j + 2]
  PROVE  ps # <<>> /\ us[1] = <<ps[1], 1>> /\ Cut(vs, 0, Tail(ps))
<1>1. Len(ps) \in Nat /\ Len(us) = 2 * Len(ps)
  BY LenProperties DEF Cut
<1>2. Len(ps) >= 1
  BY <1>1
<1>3. ps # <<>>
  BY <1>2, EmptySeq
<1>4. us[0 + 2 * 1 - 1] = <<ps[1], 1>>
  BY <1>1, <1>2 DEF Cut
<1>5. /\ Len(Tail(ps)) = Len(ps) - 1
      /\ \A i \in 1 .. Len(ps) - 1 : Tail(ps)[i] = ps[i + 1]
  BY <1>1, <1>3, HeadTailProperties
<1>6. ASSUME NEW i \in 1 .. Len(ps) - 1
      PROVE  /\ vs[0 + 2 * i - 1] = <<Tail(ps)[i], 1>>
             /\ vs[0 + 2 * i] = <<Tail(ps)[i], 2>>
  <2>1. PICK k \in 1 .. Len(ps) : k = i + 1
    BY <1>1
  <2>2. us[0 + 2 * k - 1] = <<ps[k], 1>> /\ us[0 + 2 * k] = <<ps[k], 2>>
    BY DEF Cut
  <2>3. /\ 0 + 2 * i - 1 \in 1 .. Len(vs) /\ 0 + 2 * i \in 1 .. Len(vs)
        /\ (0 + 2 * i - 1) + 2 = 0 + 2 * k - 1 /\ (0 + 2 * i) + 2 = 0 + 2 * k
    BY <1>1, <2>1
  <2>4. Tail(ps)[i] = ps[k]
    BY <1>5, <2>1
  <2> QED BY <2>2, <2>3, <2>4
<1>7. Len(vs) = 0 + 2 * Len(Tail(ps))
  BY <1>1, <1>5
<1>8. \A i \in 1 .. Len(Tail(ps)) : /\ vs[0 + 2 * i - 1] = <<Tail(ps)[i], 1>>
                                     /\ vs[0 + 2 * i] = <<Tail(ps)[i], 2>>
  BY <1>5, <1>6
<1>9. Cut(vs, 0, Tail(ps))
  <2> DEFINE ts == Tail(ps)
  <2>1. /\ Len(vs) = 0 + 2 * Len(ts)
        /\ \A i \in 1 .. Len(ts) : /\ vs[0 + 2 * i - 1] = <<ts[i], 1>>
                                   /\ vs[0 + 2 * i] = <<ts[i], 2>>
    BY <1>7, <1>8
  <2> HIDE DEF ts
  <2>2. Cut(vs, 0, ts)
    <3>1. 0 # 1
      OBVIOUS
    <3> QED BY <2>1, <3>1 DEF Cut
  <2> QED BY <2>2 DEF ts
<1>10. 0 + 2 * 1 - 1 = 1
  OBVIOUS
<1> QED BY <1>3, <1>4, <1>9, <1>10

LEMMA Dropped ==
  ASSUME NEW S, NEW s \in Seq(S), NEW i \in 1 .. Len(s)
  PROVE  /\ SubSeq(s, i + 1, Len(s)) \in Seq(S) /\ Len(SubSeq(s, i + 1, Len(s))) = Len(s) - i
         /\ \A k \in 1 .. Len(s) - i : SubSeq(s, i + 1, Len(s))[k] = s[i + k]
BY SubSeqProperties

(* Another packet is written. *)
LEMMA CutAppend ==
  ASSUME NEW us \in Seq(Unit), NEW ps \in Seq(PacketSet), NEW p \in PacketSet,
         NEW h \in {0, 1}, Cut(us, h, ps)
  PROVE  /\ us \o Units(p) \in Seq(Unit)
         /\ Append(ps, p) \in Seq(PacketSet)
         /\ Cut(us \o Units(p), h, Append(ps, p))
<1>1. /\ us \o Units(p) \in Seq(Unit)
      /\ Len(us \o Units(p)) = Len(us) + 2
      /\ \A i \in 1 .. Len(us) + 2 :
           (us \o Units(p))[i] = IF i <= Len(us) THEN us[i] ELSE Units(p)[i - Len(us)]
  <2>1. Units(p) \in Seq(Unit) /\ Len(Units(p)) = 2
    BY UnitsOf
  <2> DEFINE v == Units(p)
  <2> HIDE DEF v
  <2>2. v \in Seq(Unit) /\ Len(v) = 2
    BY <2>1 DEF v
  <2>3. /\ us \o v \in Seq(Unit)
        /\ Len(us \o v) = Len(us) + Len(v)
        /\ \A i \in 1 .. Len(us) + Len(v) :
             (us \o v)[i] = IF i <= Len(us) THEN us[i] ELSE v[i - Len(us)]
    BY <2>2, ConcatProperties
  <2> QED BY <2>2, <2>3 DEF v
<1>2. /\ Append(ps, p) \in Seq(PacketSet) /\ Len(Append(ps, p)) = Len(ps) + 1
      /\ \A i \in 1 .. Len(ps) : Append(ps, p)[i] = ps[i]
      /\ Append(ps, p)[Len(ps) + 1] = p
  BY AppendProperties
<1>3. Len(ps) \in Nat /\ Len(us) \in Nat /\ Len(us) = h + 2 * Len(ps)
  BY LenProperties DEF Cut
<1>4. ASSUME NEW i \in 1 .. Len(ps)
      PROVE  /\ (us \o Units(p))[h + 2 * i - 1] = <<ps[i], 1>>
             /\ (us \o Units(p))[h + 2 * i] = <<ps[i], 2>>
  <2>1. h + 2 * i - 1 \in 1 .. Len(us) /\ h + 2 * i \in 1 .. Len(us)
    BY <1>3
  <2>2. us[h + 2 * i - 1] = <<ps[i], 1>> /\ us[h + 2 * i] = <<ps[i], 2>>
    BY DEF Cut
  <2> QED BY <1>1, <1>3, <2>1, <2>2
<1>5. /\ (us \o Units(p))[Len(us) + 1] = <<p, 1>>
      /\ (us \o Units(p))[Len(us) + 2] = <<p, 2>>
  BY <1>1, <1>3, UnitsOf
<1>6. h = 1 => (us \o Units(p))[1] = Handshake
  BY <1>1, <1>3 DEF Cut
<1>7. \A i \in 1 .. Len(ps) + 1 : i \in 1 .. Len(ps) \/ i = Len(ps) + 1
  BY <1>3
<1>8. h + 2 * (Len(ps) + 1) - 1 = Len(us) + 1 /\ h + 2 * (Len(ps) + 1) = Len(us) + 2
  BY <1>3
<1> QED BY <1>1, <1>2, <1>3, <1>4, <1>5, <1>6, <1>7, <1>8 DEF Cut

(* QTcpSocket reads k units: they are where they were in the stream. *)
InBuffer(a, b, w, k) ==
  /\ b \o SubSeq(w, 1, k) \in Seq(Unit) /\ SubSeq(w, k + 1, Len(w)) \in Seq(Unit)
  /\ b \o SubSeq(w, 1, k) # <<>>
  /\ (a \o (b \o SubSeq(w, 1, k))) \o SubSeq(w, k + 1, Len(w)) = (a \o b) \o w

LEMMA Moved ==
  ASSUME NEW a \in Seq(Unit), NEW b \in Seq(Unit), NEW w \in Seq(Unit), NEW k \in 1 .. Len(w)
  PROVE  InBuffer(a, b, w, k)
<1> DEFINE u == SubSeq(w, 1, k)
           v == SubSeq(w, k + 1, Len(w))
<1>1. u \in Seq(Unit) /\ Len(u) = k
  BY SubSeqProperties
<1>2. v \in Seq(Unit)
  BY SubSeqProperties
<1>3. u \o v = w
  <2>1. /\ 1 \in 1 .. Len(w) + 1 /\ k \in 1 - 1 .. Len(w) /\ Len(w) \in k .. Len(w)
    BY LenProperties
  <2>2. u \o v = SubSeq(w, 1, Len(w))
    BY <2>1, ConcatAdjacentSubSeq
  <2> QED BY <2>2, SubSeqFull
<1> HIDE DEF u, v
<1>4. b \o u \in Seq(Unit) /\ Len(b \o u) = Len(b) + k /\ a \o b \in Seq(Unit)
  BY <1>1, ConcatProperties
<1>5. b \o u # <<>>
  <2>1. Len(b \o u) # 0
    BY <1>4, LenProperties
  <2> QED BY <2>1
<1>6. (a \o (b \o u)) \o v = (a \o b) \o w
  <2>1. u \in Seq(Unit) /\ a \o b \in Seq(Unit)
    BY <1>1, <1>4
  <2>2. a \o (b \o u) = (a \o b) \o u
    BY <2>1
  <2>3. ((a \o b) \o u) \o v = (a \o b) \o (u \o v)
    BY <2>1, <1>2
  <2> QED BY <1>3, <2>2, <2>3
<1> QED BY <1>2, <1>4, <1>5, <1>6 DEF u, v, InBuffer

(* readFromSocket takes the packet that is whole, and no other. *)
ReadFrom(data, w, list, ps) ==
  /\ Rest(data) \in Seq(Unit) /\ WithNext(list, data) \in Seq(PacketSet)
  /\ \E qs \in Seq(PacketSet) : /\ Cut(Rest(data) \o w, 0, qs)
                                /\ WithNext(list, data) \o qs = list \o ps

LEMMA OneRead ==
  ASSUME NEW data \in Seq(Unit), NEW w \in Seq(Unit), NEW list \in Seq(PacketSet),
         NEW ps \in Seq(PacketSet), Cut(data \o w, 0, ps)
  PROVE  ReadFrom(data, w, list, ps)
<1>0. Len(data) \in Nat /\ Len(w) \in Nat /\ Len(ps) \in Nat
  BY LenProperties
<1>1. CASE ~Whole(data)
  BY <1>1 DEF Rest, WithNext, ReadFrom
<1>2. CASE Whole(data)
  <2> DEFINE rest == SubSeq(data, 3, Len(data))
  <2>1. Len(data) >= 2
    BY <1>2 DEF Whole
  <2>2. Rest(data) = rest /\ WithNext(list, data) = Append(list, data[1][1])
    BY <1>2 DEF Rest, WithNext
  <2>3. /\ rest \in Seq(Unit) /\ Len(rest) = Len(data) - 2
        /\ \A i \in 1 .. Len(data) - 2 : rest[i] = data[i + 2]
    <3>1. 2 \in 1 .. Len(data) /\ 2 + 1 = 3
      BY <1>0, <2>1
    <3>2. /\ SubSeq(data, 2 + 1, Len(data)) \in Seq(Unit)
          /\ Len(SubSeq(data, 2 + 1, Len(data))) = Len(data) - 2
          /\ \A k \in 1 .. Len(data) - 2 : SubSeq(data, 2 + 1, Len(data))[k] = data[2 + k]
      BY <3>1, Dropped
    <3>3. \A k \in 1 .. Len(data) - 2 : 2 + k = k + 2
      BY <1>0
    <3> QED BY <3>1, <3>2, <3>3
  <2> HIDE DEF rest
  <2>4. /\ Len(data \o w) = Len(data) + Len(w)
        /\ \A i \in 1 .. Len(data) + Len(w) :
             (data \o w)[i] = IF i <= Len(data) THEN data[i] ELSE w[i - Len(data)]
    BY ConcatProperties
  <2>5. /\ Len(rest \o w) = Len(data) - 2 + Len(w)
        /\ \A i \in 1 .. Len(data) - 2 + Len(w) :
             (rest \o w)[i] = IF i <= Len(data) - 2 THEN rest[i] ELSE w[i - (Len(data) - 2)]
    <3>1. /\ Len(rest \o w) = Len(rest) + Len(w)
          /\ \A i \in 1 .. Len(rest) + Len(w) :
               (rest \o w)[i] = IF i <= Len(rest) THEN rest[i] ELSE w[i - Len(rest)]
      BY <2>3, ConcatProperties
    <3> QED BY <2>3, <3>1
  <2>6. \A j \in 1 .. Len(data) - 2 + Len(w) : (rest \o w)[j] = (data \o w)[j + 2]
    <3> SUFFICES ASSUME NEW j \in 1 .. Len(data) - 2 + Len(w)
                 PROVE  (rest \o w)[j] = (data \o w)[j + 2]
      OBVIOUS
    <3>1. (rest \o w)[j] = IF j <= Len(data) - 2 THEN rest[j] ELSE w[j - (Len(data) - 2)]
      BY <2>5
    <3>2. j + 2 \in 1 .. Len(data) + Len(w)
      BY <1>0, <2>1
    <3>3. (data \o w)[j + 2] = IF j + 2 <= Len(data) THEN data[j + 2] ELSE w[j + 2 - Len(data)]
      BY <2>4, <3>2
    <3>4. j <= Len(data) - 2 => rest[j] = data[j + 2]
      BY <1>0, <2>1, <2>3
    <3>5. j + 2 <= Len(data) <=> j <= Len(data) - 2
      BY <1>0, <2>1
    <3>6. j + 2 - Len(data) = j - (Len(data) - 2)
      BY <1>0, <2>1
    <3> QED BY <3>1, <3>3, <3>4, <3>5, <3>6
  <2>7. ps # <<>> /\ (data \o w)[1] = <<ps[1], 1>> /\ Cut(rest \o w, 0, Tail(ps))
    <3> DEFINE us == data \o w
               vs == rest \o w
    <3>1. /\ Cut(us, 0, ps) /\ Len(vs) \in Nat /\ Len(us) \in Nat
          /\ Len(us) = Len(vs) + 2
          /\ \A j \in 1 .. Len(vs) : vs[j] = us[j + 2]
      BY <1>0, <2>1, <2>4, <2>5, <2>6
    <3> HIDE DEF us, vs
    <3>2. ps # <<>> /\ us[1] = <<ps[1], 1>> /\ Cut(vs, 0, Tail(ps))
      BY <3>1, CutRead
    <3> QED BY <3>2 DEF us, vs
  <2>8. data[1][1] = ps[1] /\ ps[1] \in PacketSet
    <3>1. (data \o w)[1] = data[1]
      BY <1>0, <2>1, <2>4
    <3>2. 1 \in 1 .. Len(ps)
      BY <1>0, <2>7, EmptySeq
    <3>3. data[1] = <<ps[1], 1>>
      BY <2>7, <3>1
    <3> QED BY <3>2, <3>3, ElementOfSeq
  <2>9. Tail(ps) \in Seq(PacketSet)
    BY <2>7, HeadTailProperties
  <2>11. /\ Append(list, ps[1]) \in Seq(PacketSet)
         /\ Append(list, ps[1]) \o Tail(ps) = list \o ps
    <3>1. Append(list, ps[1]) \in Seq(PacketSet) /\ Append(list, ps[1]) = list \o <<ps[1]>>
      BY <2>8, AppendProperties, AppendIsConcat
    <3>2. <<ps[1]>> \in Seq(PacketSet)
      BY <2>8
    <3>3. <<ps[1]>> \o Tail(ps) = ps
      <4>1. ps = SubSeq(ps, 1, Len(ps))
        BY SubSeqFull
      <4>2. SubSeq(ps, 1, Len(ps)) = <<ps[1]>> \o SubSeq(ps, 1 + 1, Len(ps))
        <5>1. 1 \in 1 .. Len(ps) /\ Len(ps) \in 1 .. Len(ps)
          BY <1>0, <2>7, EmptySeq
        <5> QED BY <5>1, SubSeqRecursiveFirst
      <4>3. Tail(ps) = SubSeq(ps, 2, Len(ps))
        BY <2>7, TailIsSubSeq
      <4> QED BY <4>1, <4>2, <4>3
    <3>4. (list \o <<ps[1]>>) \o Tail(ps) = list \o (<<ps[1]>> \o Tail(ps))
        BY <2>9, <3>2, ConcatAssociative, SMT
    <3> QED BY <3>1, <3>3, <3>4
  <2> QED BY <2>2, <2>3, <2>7, <2>8, <2>9, <2>11 DEF ReadFrom
<1> QED BY <1>1, <1>2

(* readHandshake takes the handshake. *)
LEMMA HandshakeRead ==
  ASSUME NEW b \in Seq(Unit), NEW w \in Seq(Unit), NEW ps \in Seq(PacketSet),
         b # <<>>, Cut(b \o w, 1, ps)
  PROVE  Tail(b) \in Seq(Unit) /\ Cut(Tail(b) \o w, 0, ps)
<1>0. Len(b) \in Nat \ {0} /\ Len(w) \in Nat /\ Len(ps) \in Nat
  BY LenProperties, EmptySeq
<1>1. /\ Tail(b) \in Seq(Unit) /\ Len(Tail(b)) = Len(b) - 1
      /\ \A i \in 1 .. Len(b) - 1 : Tail(b)[i] = b[i + 1]
  BY <1>0, HeadTailProperties
<1>2. /\ Len(b \o w) = Len(b) + Len(w)
      /\ \A i \in 1 .. Len(b) + Len(w) :
           (b \o w)[i] = IF i <= Len(b) THEN b[i] ELSE w[i - Len(b)]
  BY ConcatProperties
<1>3. /\ Len(Tail(b) \o w) = Len(b) - 1 + Len(w)
      /\ \A i \in 1 .. Len(b) - 1 + Len(w) :
           (Tail(b) \o w)[i] = IF i <= Len(b) - 1 THEN Tail(b)[i] ELSE w[i - (Len(b) - 1)]
  BY <1>1, ConcatProperties
<1>4. \A j \in 1 .. Len(b) - 1 + Len(w) : (Tail(b) \o w)[j] = (b \o w)[j + 1]
  BY <1>0, <1>1, <1>2, <1>3
<1>5. Cut(Tail(b) \o w, 0, ps)
  <2> DEFINE us == b \o w
             vs == Tail(b) \o w
  <2>1. /\ Cut(us, 1, ps) /\ Len(vs) \in Nat /\ Len(us) \in Nat
        /\ Len(us) = Len(vs) + 1
        /\ \A j \in 1 .. Len(vs) : vs[j] = us[j + 1]
    BY <1>0, <1>2, <1>3, <1>4
  <2> HIDE DEF us, vs
  <2>2. Cut(vs, 0, ps)
    BY <2>1, CutShaken
  <2> QED BY <2>2 DEF vs
<1> QED BY <1>1, <1>5

-----------------------------------------------------------------------------
(* Where the k-th packet starts, among what is read and what is not. *)
Place(k) ==
  IF k <= Len(messagesReadyForProcessing) THEN k
  ELSE Len(messagesReadyForProcessing) + Shake + 2 * (k - Len(messagesReadyForProcessing)) - 1

LEMMA HeaderUnits ==
  ASSUME NEW p
  PROVE  IsHeader(<<p, 1>>) /\ ~IsHeader(<<p, 2>>) /\ ~IsHeader(Handshake)
<1>1. Len(<<p, 1>>) = 2 /\ Len(Handshake) = 1
  BY DEF Handshake
<1>2. <<p, 1>> # Handshake
  BY <1>1
<1> QED BY <1>2 DEF IsHeader

(* Of the units of a stream those at odd places, behind the handshake, are headers. *)
Headers(us, h, ps) ==
  /\ \A i \in 1 .. Len(ps) : /\ h + 2 * i - 1 \in 1 .. Len(us)
                             /\ IsHeader(us[h + 2 * i - 1])
                             /\ us[h + 2 * i - 1][1] = ps[i]
  /\ \A j \in 1 .. Len(us) :
       IsHeader(us[j]) => \E i \in 1 .. Len(ps) : j = h + 2 * i - 1

LEMMA HeadersIn ==
  ASSUME NEW us, NEW ps \in Seq(PacketSet), NEW h \in {0, 1}, Cut(us, h, ps)
  PROVE  Headers(us, h, ps)
<1>1. Len(ps) \in Nat /\ Len(us) = h + 2 * Len(ps)
  BY LenProperties DEF Cut
<1>2. ASSUME NEW i \in 1 .. Len(ps)
      PROVE  /\ h + 2 * i - 1 \in 1 .. Len(us)
             /\ IsHeader(us[h + 2 * i - 1]) /\ us[h + 2 * i - 1][1] = ps[i]
             /\ ~IsHeader(us[h + 2 * i])
  <2>1. us[h + 2 * i - 1] = <<ps[i], 1>> /\ us[h + 2 * i] = <<ps[i], 2>>
    BY DEF Cut
  <2>2. h + 2 * i - 1 \in 1 .. Len(us)
    BY <1>1
  <2> QED BY <2>1, <2>2, HeaderUnits
<1>3. ASSUME NEW j \in 1 .. Len(us), IsHeader(us[j])
      PROVE  \E i \in 1 .. Len(ps) : j = h + 2 * i - 1
  <2>1. ~(h = 1 /\ j = 1)
    BY <1>3, HeaderUnits DEF Cut
  <2>2. PICK i \in Nat : j - h = 2 * i - 1 \/ j - h = 2 * i
    <3>1. j - h \in Nat
      BY <1>1, <2>1
    <3>2. \A n \in Nat : \E i \in Nat : n = 2 * i - 1 \/ n = 2 * i
      <4> SUFFICES ASSUME NEW n \in Nat
                   PROVE  \E i \in Nat : n = 2 * i - 1 \/ n = 2 * i
        OBVIOUS
      <4>1. (n + 1) \div 2 \in Nat /\ (n = 2 * ((n + 1) \div 2) - 1 \/ n = 2 * ((n + 1) \div 2))
        OBVIOUS
      <4> QED BY <4>1
    <3> QED BY <3>1, <3>2
  <2>3. i \in 1 .. Len(ps)
    BY <1>1, <2>1, <2>2
  <2>4. j # h + 2 * i
    BY <1>2, <1>3, <2>3
  <2>5. j = h + 2 * i - 1
    BY <2>2, <2>4, <1>1
  <2> QED BY <2>3, <2>5
<1> QED BY <1>2, <1>3 DEF Headers

(* The units that Underway looks through. *)
AllUnits ==
  [i \in DOMAIN messagesReadyForProcessing |-> <<messagesReadyForProcessing[i], 1>>]
  \o incompleteData \o buffer \o wire

LEMMA UnitsUnderway ==
  ASSUME Types
  PROVE  LET l  == Len(messagesReadyForProcessing)
             us == (incompleteData \o buffer) \o wire
         IN  /\ DOMAIN AllUnits = 1 .. l + Len(us)
             /\ us \in Seq(Unit)
             /\ \A i \in 1 .. l : AllUnits[i] = <<messagesReadyForProcessing[i], 1>>
             /\ \A j \in 1 .. Len(us) : AllUnits[l + j] = us[j]
<1> DEFINE l == Len(messagesReadyForProcessing)
           m == [i \in DOMAIN messagesReadyForProcessing |-> <<messagesReadyForProcessing[i], 1>>]
           us == (incompleteData \o buffer) \o wire
<1>1. /\ messagesReadyForProcessing \in Seq(PacketSet)
      /\ incompleteData \in Seq(Unit) /\ buffer \in Seq(Unit) /\ wire \in Seq(Unit)
  BY DEF Types
<1>2. l \in Nat /\ DOMAIN messagesReadyForProcessing = 1 .. l
  BY <1>1, LenProperties
<1>3. m \in Seq(Unit) /\ Len(m) = l /\ \A i \in 1 .. l : m[i] = <<messagesReadyForProcessing[i], 1>>
  <2>1. \A i \in 1 .. l : <<messagesReadyForProcessing[i], 1>> \in Unit
    BY <1>1, <1>2, ElementOfSeq DEF Unit
  <2>2. m = [i \in 1 .. l |-> <<messagesReadyForProcessing[i], 1>>]
    BY <1>2
  <2> QED BY <1>2, <2>1, <2>2
<1>4. us \in Seq(Unit)
  <2>1. incompleteData \o buffer \in Seq(Unit)
    BY <1>1, ConcatProperties
  <2> QED BY <1>1, <2>1, ConcatProperties
<1>5. AllUnits = m \o us
  <2> HIDE DEF m
  <2>1. m \o incompleteData \in Seq(Unit) /\ m \in Seq(Unit)
    BY <1>1, <1>3, ConcatProperties
  <2>2. (m \o incompleteData) \o buffer = m \o (incompleteData \o buffer)
    BY <1>1, <2>1
  <2>3. incompleteData \o buffer \in Seq(Unit)
    BY <1>1, ConcatProperties
  <2>4. (m \o (incompleteData \o buffer)) \o wire = m \o us
    BY <1>1, <2>1, <2>3
  <2> QED BY <2>2, <2>4 DEF AllUnits, m
<1> HIDE DEF m, us, l
<1>6. /\ Len(m \o us) = Len(m) + Len(us) /\ m \o us \in Seq(Unit)
      /\ \A i \in 1 .. Len(m) + Len(us) :
           (m \o us)[i] = IF i <= Len(m) THEN m[i] ELSE us[i - Len(m)]
  BY <1>3, <1>4, ConcatProperties
<1>7. Len(us) \in Nat
  BY <1>4, LenProperties
<1>8. DOMAIN AllUnits = 1 .. l + Len(us)
  <2>1. DOMAIN (m \o us) = 1 .. Len(m \o us)
    BY <1>6, LenProperties
  <2> QED BY <1>3, <1>5, <1>6, <2>1
<1>9. \A i \in 1 .. l : AllUnits[i] = m[i]
  BY <1>2, <1>3, <1>5, <1>6, <1>7 DEF l
<1>10. ASSUME NEW j \in 1 .. Len(us)
       PROVE  AllUnits[l + j] = us[j]
  <2>1. l + j \in 1 .. Len(m) + Len(us) /\ ~(l + j <= Len(m)) /\ (l + j) - Len(m) = j
    BY <1>2, <1>3, <1>7 DEF l
  <2> QED BY <1>5, <1>6, <2>1
<1> QED BY <1>3, <1>4, <1>8, <1>9, <1>10 DEF l, us, m

LEMMA ShakeIs == Shake \in {0, 1}
BY DEF Shake

LEMMA HeadsUnderway ==
  ASSUME Types, NEW ps, NEW all, Packets(ps, all)
  PROVE  /\ \A k \in DOMAIN all : /\ Place(k) \in Nat
                                  /\ [place |-> Place(k), packet |-> all[k]] \in Underway
         /\ \A e \in Underway :
              \E k \in DOMAIN all : e = [place |-> Place(k), packet |-> all[k]]
         /\ \A j, k \in DOMAIN all : Place(j) < Place(k) <=> j < k
<1> DEFINE l == Len(messagesReadyForProcessing)
           us == (incompleteData \o buffer) \o wire
<1>1. /\ ps \in Seq(PacketSet) /\ all \in Seq(PacketSet) /\ Cut(us, Shake, ps)
      /\ messagesReadyForProcessing \in Seq(PacketSet)
      /\ all = messagesReadyForProcessing \o ps
  BY DEF Packets, Types
<1>2. l \in Nat /\ Len(ps) \in Nat /\ Shake \in {0, 1}
  BY <1>1, LenProperties, ShakeIs
<1>3. /\ DOMAIN all = 1 .. l + Len(ps)
      /\ \A k \in 1 .. l + Len(ps) :
           all[k] = IF k <= l THEN messagesReadyForProcessing[k] ELSE ps[k - l]
  <2>1. /\ Len(messagesReadyForProcessing \o ps) = Len(messagesReadyForProcessing) + Len(ps)
        /\ \A k \in 1 .. Len(messagesReadyForProcessing) + Len(ps) :
             (messagesReadyForProcessing \o ps)[k] =
               IF k <= Len(messagesReadyForProcessing) THEN messagesReadyForProcessing[k]
               ELSE ps[k - Len(messagesReadyForProcessing)]
    BY <1>1, ConcatProperties
  <2>2. DOMAIN all = 1 .. Len(all)
    BY <1>1, LenProperties
  <2> QED BY <1>1, <2>1, <2>2
<1>4. /\ DOMAIN AllUnits = 1 .. l + Len(us)
      /\ us \in Seq(Unit)
      /\ \A i \in 1 .. l : AllUnits[i] = <<messagesReadyForProcessing[i], 1>>
      /\ \A j \in 1 .. Len(us) : AllUnits[l + j] = us[j]
  BY UnitsUnderway
<1> HIDE DEF us
<1>5. /\ \A i \in 1 .. Len(ps) : /\ Shake + 2 * i - 1 \in 1 .. Len(us)
                                 /\ IsHeader(us[Shake + 2 * i - 1])
                                 /\ us[Shake + 2 * i - 1][1] = ps[i]
      /\ \A j \in 1 .. Len(us) :
           IsHeader(us[j]) => \E i \in 1 .. Len(ps) : j = Shake + 2 * i - 1
  <2>1. Headers(us, Shake, ps)
    BY <1>1, <1>2, HeadersIn
  <2> QED BY <2>1 DEF Headers
<1>6. Underway = {[place |-> i, packet |-> AllUnits[i][1]] :
                     i \in {j \in DOMAIN AllUnits : IsHeader(AllUnits[j])}}
  BY DEF Underway, AllUnits
<1>7. Len(us) \in Nat
  BY <1>4, LenProperties
<1>8. ASSUME NEW k \in DOMAIN all
      PROVE  /\ Place(k) \in DOMAIN AllUnits /\ Place(k) \in Nat
             /\ IsHeader(AllUnits[Place(k)]) /\ AllUnits[Place(k)][1] = all[k]
  <2>1. CASE k <= l
    <3>1. Place(k) = k /\ k \in 1 .. l /\ all[k] = messagesReadyForProcessing[k]
      BY <1>2, <1>3, <2>1 DEF Place
    <3>2. AllUnits[k] = <<messagesReadyForProcessing[k], 1>>
      BY <1>4, <3>1
    <3>3. k \in DOMAIN AllUnits
      BY <1>2, <1>4, <1>7, <3>1
    <3>4. IsHeader(AllUnits[k]) /\ AllUnits[k][1] = messagesReadyForProcessing[k]
      <4> DEFINE p == messagesReadyForProcessing[k]
      <4> HIDE DEF p
      <4>1. IsHeader(<<p, 1>>) /\ <<p, 1>>[1] = p
        BY HeaderUnits
      <4> QED BY <3>2, <4>1 DEF p
    <3> QED BY <1>2, <3>1, <3>3, <3>4
  <2>2. CASE ~(k <= l)
    <3>1. k - l \in 1 .. Len(ps) /\ all[k] = ps[k - l]
      BY <1>2, <1>3, <2>2
    <3>2. PICK i \in 1 .. Len(ps) : i = k - l
      BY <3>1
    <3>3. PICK j \in 1 .. Len(us) : j = Shake + 2 * i - 1
      BY <1>5
    <3>4. Place(k) = l + j
      BY <1>2, <2>2, <3>2, <3>3 DEF Place
    <3>5. AllUnits[l + j] = us[j] /\ IsHeader(us[j]) /\ us[j][1] = ps[i]
      BY <1>4, <1>5, <3>3
    <3>6. l + j \in DOMAIN AllUnits /\ l + j \in Nat
      BY <1>2, <1>4, <1>7
    <3> QED BY <3>1, <3>2, <3>4, <3>5, <3>6
  <2> QED BY <2>1, <2>2
<1>9. ASSUME NEW i \in DOMAIN AllUnits, IsHeader(AllUnits[i])
      PROVE  \E k \in DOMAIN all : i = Place(k)
  <2>1. CASE i <= l
    <3>1. i \in DOMAIN all /\ Place(i) = i
      BY <1>2, <1>3, <1>4, <2>1 DEF Place
    <3> QED BY <3>1
  <2>2. CASE ~(i <= l)
    <3>1. PICK j \in 1 .. Len(us) : i = l + j
      <4>1. i - l \in 1 .. Len(us) /\ i = l + (i - l)
        BY <1>2, <1>4, <1>7, <2>2
      <4> QED BY <4>1
    <3>2. IsHeader(us[j])
      BY <1>4, <1>9, <3>1
    <3>3. PICK n \in 1 .. Len(ps) : j = Shake + 2 * n - 1
      BY <1>5, <3>2
    <3>4. l + n \in DOMAIN all /\ Place(l + n) = l + j
      BY <1>2, <1>3, <3>3 DEF Place
    <3> QED BY <3>1, <3>4
  <2> QED BY <2>1, <2>2
<1>10. ASSUME NEW j \in DOMAIN all, NEW k \in DOMAIN all
       PROVE  Place(j) < Place(k) <=> j < k
  BY <1>2, <1>3 DEF Place
<1>11. \A k \in DOMAIN all : [place |-> Place(k), packet |-> all[k]] \in Underway
  BY <1>6, <1>8
<1>12. ASSUME NEW e \in Underway
       PROVE  \E k \in DOMAIN all : e = [place |-> Place(k), packet |-> all[k]]
  <2>1. PICK i \in DOMAIN AllUnits : IsHeader(AllUnits[i]) /\ e = [place |-> i, packet |-> AllUnits[i][1]]
    BY <1>6
  <2>2. PICK k \in DOMAIN all : i = Place(k)
    BY <1>9, <2>1
  <2>3. AllUnits[i][1] = all[k]
    BY <1>8, <2>2
  <2> QED BY <2>1, <2>2, <2>3
<1> QED BY <1>8, <1>10, <1>11, <1>12

-----------------------------------------------------------------------------
(* What the invariant is for. *)
LEMMA ExpectedIs == \A x : x \in Expected <=> Awaits(x)
BY DEF Expected, Awaits

LEMMA PacketIds ==
  ASSUME NEW ps, NEW all, Packets(ps, all)
  PROVE  /\ DOMAIN all = 1 .. Len(all) /\ Len(all) \in Nat
         /\ \A k \in DOMAIN all : all[k] \in PacketSet /\ all[k].id \in Nat
<1>1. DOMAIN all = 1 .. Len(all) /\ Len(all) \in Nat /\ \A k \in DOMAIN all : all[k] \in PacketSet
  BY ElementOfSeq, LenProperties DEF Packets
<1> QED BY <1>1 DEF PacketSet

LEMMA WhatIsUnderway ==
  ASSUME Types, NEW ps, NEW all, Packets(ps, all)
  PROVE  /\ \A e \in EventsUnderway :
              \E k \in DOMAIN all : e.place = Place(k) /\ e.packet = all[k] /\ IsEvent(all[k])
         /\ \A e \in RepliesUnderway :
              \E k \in DOMAIN all : e.place = Place(k) /\ e.packet = all[k] /\ ~IsEvent(all[k])
         /\ \A k \in DOMAIN all :
              /\ IsEvent(all[k]) => [place |-> Place(k), packet |-> all[k]] \in EventsUnderway
              /\ ~IsEvent(all[k]) => [place |-> Place(k), packet |-> all[k]] \in RepliesUnderway
<1>1. ASSUME NEW e \in Underway
      PROVE  \E k \in DOMAIN all : e.place = Place(k) /\ e.packet = all[k]
  <2>1. PICK k \in DOMAIN all : e = [place |-> Place(k), packet |-> all[k]]
    BY HeadsUnderway
  <2> QED BY <2>1
<1>2. ASSUME NEW k \in DOMAIN all
      PROVE  /\ IsEvent(all[k]) => [place |-> Place(k), packet |-> all[k]] \in EventsUnderway
             /\ ~IsEvent(all[k]) => [place |-> Place(k), packet |-> all[k]] \in RepliesUnderway
  <2> DEFINE e == [place |-> Place(k), packet |-> all[k]]
  <2>1. e \in Underway
    BY HeadsUnderway
  <2>2. e.packet = all[k]
    OBVIOUS
  <2> QED BY <2>1, <2>2 DEF EventsUnderway, RepliesUnderway
<1>3. ASSUME NEW e \in EventsUnderway
      PROVE  \E k \in DOMAIN all : e.place = Place(k) /\ e.packet = all[k] /\ IsEvent(all[k])
  <2>1. e \in Underway /\ IsEvent(e.packet)
    BY DEF EventsUnderway
  <2>2. PICK k \in DOMAIN all : e.place = Place(k) /\ e.packet = all[k]
    BY <1>1, <2>1
  <2> QED BY <2>1, <2>2
<1>4. ASSUME NEW e \in RepliesUnderway
      PROVE  \E k \in DOMAIN all : e.place = Place(k) /\ e.packet = all[k] /\ ~IsEvent(all[k])
  <2>1. e \in Underway /\ ~IsEvent(e.packet)
    BY DEF RepliesUnderway
  <2>2. PICK k \in DOMAIN all : e.place = Place(k) /\ e.packet = all[k]
    BY <1>1, <2>1
  <2> QED BY <2>1, <2>2
<1> QED BY <1>2, <1>3, <1>4

LEMMA EventsOrdered ==
  ASSUME Types, NEW ps, NEW all, Packets(ps, all), EventsIn(all)
  PROVE  EventsInOrder
<1>2. \A k \in DOMAIN all : all[k].id \in Nat
  BY PacketIds
<1>3. handled \in Nat /\ events \in Nat
  BY DEF Types
<1>4. \A e \in EventsUnderway :
        \E k \in DOMAIN all : e.place = Place(k) /\ e.packet = all[k] /\ IsEvent(all[k])
  BY WhatIsUnderway
<1>5. \A k \in DOMAIN all :
        IsEvent(all[k]) => [place |-> Place(k), packet |-> all[k]] \in EventsUnderway
  BY WhatIsUnderway
<1>6. {e.packet.id : e \in EventsUnderway} = handled .. (events - 1)
  <2>1. ASSUME NEW e \in EventsUnderway
        PROVE  e.packet.id \in handled .. (events - 1)
    <3>1. PICK k \in DOMAIN all : e.packet = all[k] /\ IsEvent(all[k])
      BY <1>4
    <3>2. handled <= all[k].id /\ all[k].id < events /\ all[k].id \in Nat
      BY <1>2, <3>1 DEF EventsIn
    <3> QED BY <1>3, <3>1, <3>2
  <2>2. ASSUME NEW x \in handled .. (events - 1)
        PROVE  \E e \in EventsUnderway : e.packet.id = x
    <3>1. x \in Nat /\ handled <= x /\ x < events
      BY <1>3
    <3>2. PICK k \in DOMAIN all : IsEvent(all[k]) /\ all[k].id = x
      BY <3>1 DEF EventsIn
    <3> DEFINE e == [place |-> Place(k), packet |-> all[k]]
    <3>3. e \in EventsUnderway /\ e.packet.id = x
      BY <1>5, <3>2
    <3> QED BY <3>3
  <2> QED BY <2>1, <2>2
<1>7. ASSUME NEW e \in EventsUnderway, NEW f \in EventsUnderway, e.place < f.place
      PROVE  e.packet.id < f.packet.id
  <2>1. PICK j \in DOMAIN all : e.place = Place(j) /\ e.packet = all[j] /\ IsEvent(all[j])
    BY <1>4
  <2>2. PICK k \in DOMAIN all : f.place = Place(k) /\ f.packet = all[k] /\ IsEvent(all[k])
    BY <1>4
  <2>3. j < k
    BY <1>7, <2>1, <2>2, HeadsUnderway
  <2> QED BY <2>1, <2>2, <2>3 DEF EventsIn
<1> QED BY <1>6, <1>7 DEF EventsInOrder

LEMMA RepliesOrdered ==
  ASSUME Types, NEW ps, NEW all, Packets(ps, all), RepliesIn(all)
  PROVE  RepliesExpected
<1>1. \A k \in DOMAIN all : all[k].id \in Nat
  BY PacketIds
<1>2. /\ nextId \in Nat /\ Len(inbox) \in Nat /\ DOMAIN inbox = 1 .. Len(inbox)
      /\ user.id \in Nat /\ inner.id \in Nat /\ user.id <= nextId /\ inner.id <= nextId
      /\ Answered \in Nat
  <2>1. Len(inbox) \in Nat /\ DOMAIN inbox = 1 .. Len(inbox)
    BY LenProperties DEF Types
  <2> QED BY <2>1 DEF Types, Call, RepliesIn, Answered
<1>3. ASSUME NEW i \in DOMAIN inbox
      PROVE  inbox[i].id \in Expected /\ inbox[i].id = Answered + i
  BY ExpectedIs DEF RepliesIn
<1>4. \A r \in RepliesUnderway :
        \E k \in DOMAIN all : r.place = Place(k) /\ r.packet = all[k] /\ ~IsEvent(all[k])
  BY WhatIsUnderway
<1>5. ASSUME NEW r \in RepliesUnderway
      PROVE  r.packet.id \in Expected /\ r.packet.id <= Answered /\ r.packet.id \in Nat
  <2>1. PICK k \in DOMAIN all : r.packet = all[k] /\ ~IsEvent(all[k])
    BY <1>4
  <2> QED BY <1>1, <2>1, ExpectedIs DEF RepliesIn
<1>6. ASSUME NEW x \in Expected
      PROVE  \/ \E i \in DOMAIN inbox : inbox[i].id = x
             \/ \E r \in RepliesUnderway : r.packet.id = x
  <2>1. Awaits(x) /\ x \in Nat /\ x <= nextId
    BY <1>2, ExpectedIs DEF Awaits
  <2>2. CASE x > Answered
    <3>1. PICK i \in DOMAIN inbox : i = x - Answered
      BY <1>2, <2>1, <2>2 DEF Answered
    <3>2. inbox[i].id = x
      BY <1>2, <1>3, <2>1, <3>1
    <3> QED BY <3>2
  <2>3. CASE ~(x > Answered)
    <3>1. PICK k \in DOMAIN all : ~IsEvent(all[k]) /\ all[k].id = x
      BY <2>1, <2>3 DEF RepliesIn
    <3> DEFINE r == [place |-> Place(k), packet |-> all[k]]
    <3>2. r \in RepliesUnderway /\ r.packet.id = x
      BY <3>1, WhatIsUnderway
    <3> QED BY <3>2
  <2> QED BY <2>2, <2>3
<1>7. {inbox[i].id : i \in DOMAIN inbox} \cup {r.packet.id : r \in RepliesUnderway} = Expected
  BY <1>3, <1>5, <1>6
<1>8. ASSUME NEW q \in RepliesUnderway, NEW r \in RepliesUnderway, q.place < r.place
      PROVE  q.packet.id < r.packet.id
  <2>1. PICK j \in DOMAIN all : q.place = Place(j) /\ q.packet = all[j] /\ ~IsEvent(all[j])
    BY <1>4
  <2>2. PICK k \in DOMAIN all : r.place = Place(k) /\ r.packet = all[k] /\ ~IsEvent(all[k])
    BY <1>4
  <2>3. j < k
    BY <1>8, <2>1, <2>2, HeadsUnderway
  <2> QED BY <2>1, <2>2, <2>3 DEF RepliesIn
<1>9. \A r \in RepliesUnderway, i \in DOMAIN inbox : r.packet.id < inbox[i].id
  BY <1>2, <1>3, <1>5
<1>10. \A i, j \in DOMAIN inbox : i < j => inbox[i].id < inbox[j].id
  BY <1>2, <1>3
<1> QED BY <1>7, <1>8, <1>9, <1>10 DEF RepliesExpected

LEMMA RepliesFirst ==
  ASSUME Types, NEW ps, NEW all, Packets(ps, all), RepliesIn(all), RepliesAhead(all)
  PROVE  NoEventForReply
<1>1. \A k \in DOMAIN all : all[k].id \in Nat
  BY PacketIds
<1>2. Answered \in Nat /\ DOMAIN all = 1 .. Len(all) /\ Len(all) \in Nat
  <2>1. Len(inbox) \in Nat
    BY LenProperties DEF Types
  <2> QED BY <2>1, PacketIds DEF Types, RepliesIn, Answered
<1>3. ASSUME NEW e \in EventsUnderway, e.packet.id \in Expected
      PROVE  \E r \in RepliesUnderway : r.place < e.place /\ r.packet.id = e.packet.id
  <2>1. PICK j \in DOMAIN all : e.place = Place(j) /\ e.packet = all[j] /\ IsEvent(all[j])
    BY WhatIsUnderway
  <2>2. Awaits(all[j].id) /\ all[j].id <= Answered /\ all[j].id \in Nat
    BY <1>1, <1>3, <2>1, ExpectedIs DEF RepliesAhead
  <2>3. PICK k \in DOMAIN all : ~IsEvent(all[k]) /\ all[k].id = all[j].id
    BY <1>2, <2>2 DEF RepliesIn
  <2>4. ~(j < k)
    BY <1>1, <2>1, <2>3 DEF RepliesAhead
  <2>5. k < j
    BY <1>2, <2>1, <2>3, <2>4
  <2> DEFINE r == [place |-> Place(k), packet |-> all[k]]
  <2>6. r \in RepliesUnderway /\ r.place = Place(k) /\ r.packet = all[k]
    BY <2>3, WhatIsUnderway
  <2>7. Place(k) < Place(j)
    BY <2>5, HeadsUnderway
  <2> QED BY <2>1, <2>3, <2>6, <2>7
<1> QED BY <1>3 DEF NoEventForReply

LEMMA TypesAreOK ==
  ASSUME Types, Slots, NEW all, EventsIn(all), RepliesIn(all)
  PROVE  TypeOK
<1>1. ASSUME NEW i \in DOMAIN inbox
      PROVE  inbox[i].command \in Command /\ inbox[i].id <= nextId
  <2>1. /\ DOMAIN inbox = 1 .. Len(inbox) /\ Len(inbox) \in Nat /\ inbox[i] \in Request
        /\ nextId \in Nat
    BY LenProperties, ElementOfSeq DEF Types
  <2>2. inbox[i].id = Answered + i
    BY DEF RepliesIn
  <2> QED BY <2>1, <2>2 DEF Request, Answered
<1>2. handled \in 0 .. events
  BY DEF Types, EventsIn
<1> QED BY <1>1, <1>2 DEF TypeOK, Types, Slots, Call

LEMMA ResumesOwn ==
  ASSUME OnePacketAtATime
  PROVE  ResumesItsOwn
BY DEF OnePacketAtATime, ResumesItsOwn

-----------------------------------------------------------------------------
(* What the steps do to the n packets under way: one more, or one less.    *)
List(all, n) ==
  /\ n \in Nat /\ DOMAIN all = 1 .. n
  /\ \A k \in 1 .. n : all[k].id \in Nat

More(all, n, p, new) ==
  /\ DOMAIN new = 1 .. n + 1 /\ new[n + 1] = p
  /\ \A k \in 1 .. n : new[k] = all[k]

(* The place that the packet, now at k, had before the i-th was taken. *)
Before(i, k) == IF k < i THEN k ELSE k + 1

Less(all, n, i, new) ==
  /\ i \in 1 .. n /\ DOMAIN new = 1 .. n - 1
  /\ \A k \in 1 .. n - 1 : new[k] = all[Before(i, k)]

LEMMA BeforeIs ==
  ASSUME NEW n \in Nat, NEW i \in 1 .. n
  PROVE  /\ \A k \in 1 .. n - 1 : Before(i, k) \in 1 .. n /\ Before(i, k) # i
         /\ \A j, k \in 1 .. n - 1 : j < k => Before(i, j) < Before(i, k)
         /\ \A m \in 1 .. n : m # i => \E k \in 1 .. n - 1 : m = Before(i, k)
<1>1. ASSUME NEW m \in 1 .. n, m # i
      PROVE  \E k \in 1 .. n - 1 : m = Before(i, k)
  <2>1. CASE m < i
    BY <2>1 DEF Before
  <2>2. CASE ~(m < i)
    <3>1. m - 1 \in 1 .. n - 1 /\ ~(m - 1 < i) /\ m = (m - 1) + 1
      BY <1>1, <2>2
    <3> QED BY <3>1 DEF Before
  <2> QED BY <2>1, <2>2
<1>2. /\ \A k \in 1 .. n - 1 : Before(i, k) \in 1 .. n /\ Before(i, k) # i
      /\ \A j, k \in 1 .. n - 1 : j < k => Before(i, j) < Before(i, k)
  BY DEF Before
<1> QED BY <1>1, <1>2

LEMMA EventsSame ==
  ASSUME NEW all, EventsIn(all), UNCHANGED <<handled, events>>
  PROVE  EventsIn(all)'
BY DEF EventsIn

LEMMA EventsMore ==
  ASSUME NEW all, NEW n, List(all, n), NEW p, NEW new, More(all, n, p, new),
         EventsIn(all), handled \in Nat, events \in Nat, handled' = handled,
         \/ IsEvent(p) /\ p.id = events /\ events' = events + 1
         \/ ~IsEvent(p) /\ events' = events
  PROVE  EventsIn(new)'
<1>1. DOMAIN all = 1 .. n /\ n \in Nat /\ \A k \in 1 .. n : all[k].id \in Nat
  BY DEF List
<1>2. DOMAIN new = 1 .. n + 1 /\ new[n + 1] = p /\ \A k \in 1 .. n : new[k] = all[k]
  BY DEF More
<1>3. \A k \in 1 .. n + 1 : k \in 1 .. n \/ k = n + 1
  BY <1>1
<1>4. events' \in Nat /\ events <= events' /\ handled <= events
  BY DEF EventsIn
<1>5. ASSUME NEW k \in 1 .. n + 1, IsEvent(new[k])
      PROVE  handled' <= new[k].id /\ new[k].id < events'
  <2>1. CASE k \in 1 .. n
    BY <1>1, <1>2, <1>4, <1>5, <2>1 DEF EventsIn
  <2>2. CASE k = n + 1
    BY <1>2, <1>4, <1>5, <2>2
  <2> QED BY <1>3, <2>1, <2>2
<1>6. ASSUME NEW e \in Nat, handled' <= e, e < events'
      PROVE  \E k \in 1 .. n + 1 : IsEvent(new[k]) /\ new[k].id = e
  <2>1. CASE e < events
    <3>1. PICK k \in 1 .. n : IsEvent(all[k]) /\ all[k].id = e
      BY <1>1, <1>6, <2>1 DEF EventsIn
    <3>2. k \in 1 .. n + 1 /\ new[k] = all[k]
      BY <1>1, <1>2
    <3> QED BY <3>1, <3>2
  <2>2. CASE ~(e < events)
    <3>1. IsEvent(p) /\ p.id = e
      BY <1>4, <1>6, <2>2
    <3>2. n + 1 \in 1 .. n + 1
      BY <1>1
    <3> QED BY <1>2, <3>1, <3>2
  <2> QED BY <2>1, <2>2
<1>7. ASSUME NEW j \in 1 .. n + 1, NEW k \in 1 .. n + 1, j < k, IsEvent(new[j]), IsEvent(new[k])
      PROVE  new[j].id < new[k].id
  <2>1. j \in 1 .. n /\ new[j] = all[j]
    BY <1>1, <1>2, <1>7
  <2>2. CASE k \in 1 .. n
    BY <1>1, <1>2, <1>7, <2>1, <2>2 DEF EventsIn
  <2>3. CASE k = n + 1
    BY <1>1, <1>2, <1>7, <2>1, <2>3 DEF EventsIn
  <2> QED BY <1>3, <2>2, <2>3
<1> QED BY <1>2, <1>4, <1>5, <1>6, <1>7 DEF EventsIn

(* Without the reply, or the event, at i. *)
LEMMA EventsLess ==
  ASSUME NEW all, NEW n, List(all, n), NEW i, NEW new, Less(all, n, i, new),
         EventsIn(all), handled \in Nat, events \in Nat, events' = events,
         \/ ~IsEvent(all[i]) /\ handled' = handled
         \/ /\ IsEvent(all[i]) /\ handled' = handled + 1
            /\ \A k \in 1 .. n : k < i => ~IsEvent(all[k])
  PROVE  EventsIn(new)' /\ (IsEvent(all[i]) => all[i].id = handled /\ handled < events)
<1>1. DOMAIN all = 1 .. n /\ n \in Nat /\ \A k \in 1 .. n : all[k].id \in Nat
  BY DEF List
<1>2. /\ i \in 1 .. n /\ DOMAIN new = 1 .. n - 1
      /\ \A k \in 1 .. n - 1 : new[k] = all[Before(i, k)]
  BY DEF Less
<1>3. /\ \A k \in 1 .. n - 1 : Before(i, k) \in 1 .. n /\ Before(i, k) # i
      /\ \A j, k \in 1 .. n - 1 : j < k => Before(i, j) < Before(i, k)
      /\ \A m \in 1 .. n : m # i => \E k \in 1 .. n - 1 : m = Before(i, k)
  BY <1>1, <1>2, BeforeIs
<1>4. IsEvent(all[i]) => all[i].id = handled /\ handled < events
  <2> SUFFICES ASSUME IsEvent(all[i])
               PROVE  all[i].id = handled /\ handled < events
    OBVIOUS
  <2>1. handled <= all[i].id /\ all[i].id < events /\ handled < events
    BY <1>1, <1>2 DEF EventsIn
  <2>2. PICK k \in 1 .. n : IsEvent(all[k]) /\ all[k].id = handled
    BY <1>1, <2>1 DEF EventsIn
  <2>3. ~(k < i)
    BY <2>2
  <2>4. ~(i < k)
    <3> SUFFICES ASSUME i < k
                 PROVE  FALSE
      OBVIOUS
    <3>1. i \in DOMAIN all /\ k \in DOMAIN all
      BY <1>1, <1>2
    <3>2. all[i].id < all[k].id
      BY <2>2, <3>1 DEF EventsIn
    <3>3. all[i].id \in Nat
      BY <1>1, <1>2
    <3> QED BY <2>1, <2>2, <3>2, <3>3
  <2>5. k = i
    BY <1>1, <1>2, <2>3, <2>4
  <2> QED BY <2>1, <2>2, <2>5
<1>5. ASSUME NEW j \in 1 .. n - 1, NEW k \in 1 .. n - 1, j < k, IsEvent(new[j]), IsEvent(new[k])
      PROVE  new[j].id < new[k].id
  <2>1. PICK a \in 1 .. n : a = Before(i, j) /\ new[j] = all[a]
    BY <1>2, <1>3
  <2>2. PICK b \in 1 .. n : b = Before(i, k) /\ new[k] = all[b]
    BY <1>2, <1>3
  <2>3. a < b
    BY <1>3, <1>5, <2>1, <2>2
  <2> QED BY <1>1, <1>5, <2>1, <2>2, <2>3 DEF EventsIn
<1>6. ASSUME NEW k \in 1 .. n - 1, IsEvent(new[k])
      PROVE  handled' <= new[k].id /\ new[k].id < events'
  <2>1. PICK b \in 1 .. n : b = Before(i, k) /\ new[k] = all[b] /\ b # i
    BY <1>2, <1>3
  <2>2. handled <= all[b].id /\ all[b].id < events /\ all[b].id \in Nat
    BY <1>1, <1>6, <2>1 DEF EventsIn
  <2>3. CASE IsEvent(all[i])
    <3>1. i < b
      BY <1>1, <1>2, <1>6, <2>1, <2>3
    <3>2. all[i].id < all[b].id
      BY <1>1, <1>2, <1>6, <2>1, <2>3, <3>1 DEF EventsIn
    <3> QED BY <1>4, <2>1, <2>2, <2>3, <3>2
  <2>4. CASE ~IsEvent(all[i])
    BY <2>1, <2>2, <2>4
  <2> QED BY <2>3, <2>4
<1>7. ASSUME NEW e \in Nat, handled' <= e, e < events'
      PROVE  \E k \in 1 .. n - 1 : IsEvent(new[k]) /\ new[k].id = e
  <2>1. handled <= e /\ e < events
    BY <1>7
  <2>2. PICK m \in 1 .. n : IsEvent(all[m]) /\ all[m].id = e
    BY <1>1, <2>1 DEF EventsIn
  <2>3. m # i
    BY <1>4, <1>7, <2>2
  <2>4. PICK k \in 1 .. n - 1 : m = Before(i, k)
    BY <1>3, <2>3
  <2> QED BY <1>2, <2>2, <2>4
<1>8. handled' <= events'
  BY <1>4 DEF EventsIn
<1> QED BY <1>2, <1>4, <1>5, <1>6, <1>7, <1>8 DEF EventsIn

(* The same for replies. *)
LEMMA InboxIs ==
  ASSUME inbox \in Seq(Request), nextId \in Nat, NEW all, RepliesIn(all)
  PROVE  /\ Len(inbox) \in Nat /\ DOMAIN inbox = 1 .. Len(inbox)
         /\ Answered \in Nat /\ nextId = Answered + Len(inbox)
<1>1. Len(inbox) \in Nat /\ DOMAIN inbox = 1 .. Len(inbox)
  BY LenProperties
<1> QED BY <1>1 DEF RepliesIn, Answered

LEMMA RepliesSame ==
  ASSUME NEW all, RepliesIn(all), UNCHANGED <<nextId, inbox>>, Distinct',
         \A x : Awaits(x)' <=> Awaits(x)
  PROVE  RepliesIn(all)'
<1>1. Answered' = Answered
  BY DEF Answered
<1> QED BY <1>1 DEF RepliesIn

LEMMA RepliesMoreEvents ==
  ASSUME NEW all, NEW n, List(all, n), NEW p, NEW new, More(all, n, p, new),
         RepliesIn(all), IsEvent(p), UNCHANGED <<nextId, inbox>>, Distinct',
         \A x : Awaits(x)' <=> Awaits(x)
  PROVE  RepliesIn(new)'
<1>1. DOMAIN all = 1 .. n /\ n \in Nat
  BY DEF List
<1>2. DOMAIN new = 1 .. n + 1 /\ new[n + 1] = p /\ \A k \in 1 .. n : new[k] = all[k]
  BY DEF More
<1>3. Answered' = Answered
  BY DEF Answered
<1>4. \A k \in 1 .. n + 1 : ~IsEvent(new[k]) => k \in 1 .. n /\ new[k] = all[k]
  BY <1>1, <1>2
<1>5. \A k \in 1 .. n : k \in 1 .. n + 1 /\ new[k] = all[k]
  BY <1>1, <1>2
<1>6. \A k \in 1 .. n + 1 : ~IsEvent(new[k]) => new[k].id <= Answered' /\ Awaits(new[k].id)'
  BY <1>1, <1>3, <1>4 DEF RepliesIn
<1>7. \A j, k \in 1 .. n + 1 :
         j < k /\ ~IsEvent(new[j]) /\ ~IsEvent(new[k]) => new[j].id < new[k].id
  BY <1>1, <1>4 DEF RepliesIn
<1>8. \A x \in Nat : Awaits(x)' =>
         x > Answered' \/ \E k \in 1 .. n + 1 : ~IsEvent(new[k]) /\ new[k].id = x
  BY <1>1, <1>3, <1>5 DEF RepliesIn
<1>9. /\ Len(inbox) <= nextId
      /\ \A i \in DOMAIN inbox : inbox[i].id = Answered' + i /\ Awaits(inbox[i].id)'
  <2>1. ASSUME NEW i \in DOMAIN inbox
        PROVE  inbox[i].id = Answered' + i /\ Awaits(inbox[i].id)'
    <3>1. PICK x : x = inbox[i].id
      OBVIOUS
    <3>2. x = Answered + i /\ Awaits(x)
      BY <3>1 DEF RepliesIn
    <3>3. Awaits(x)' /\ inbox'[i].id = x
      BY <3>1, <3>2
    <3> QED BY <1>3, <3>2, <3>3 DEF Awaits
  <2> QED BY <2>1 DEF RepliesIn
<1> QED BY <1>2, <1>6, <1>7, <1>8, <1>9 DEF RepliesIn

(* The VM answers the first of the requests. *)
LEMMA RepliesMore ==
  ASSUME NEW all, NEW n, List(all, n), NEW p, NEW new, More(all, n, p, new),
         RepliesIn(all), ~IsEvent(p), p.id = Head(inbox).id,
         inbox \in Seq(Request), nextId \in Nat, inbox # <<>>, inbox' = Tail(inbox),
         nextId' = nextId, Distinct', \A x : Awaits(x)' <=> Awaits(x)
  PROVE  RepliesIn(new)' /\ Answered' = Answered + 1 /\ p.id = Answered + 1
<1>1. DOMAIN all = 1 .. n /\ n \in Nat /\ \A k \in 1 .. n : all[k].id \in Nat
  BY DEF List
<1>2. DOMAIN new = 1 .. n + 1 /\ new[n + 1] = p /\ \A k \in 1 .. n : new[k] = all[k]
  BY DEF More
<1>3. /\ Len(inbox) \in Nat /\ DOMAIN inbox = 1 .. Len(inbox)
      /\ Answered \in Nat /\ nextId = Answered + Len(inbox)
  BY InboxIs
<1>4. /\ Len(inbox') = Len(inbox) - 1 /\ Len(inbox) >= 1 /\ DOMAIN inbox' = 1 .. Len(inbox) - 1
      /\ \A i \in 1 .. Len(inbox) - 1 : inbox'[i] = inbox[i + 1]
      /\ Head(inbox) = inbox[1]
  <2>1. Len(inbox) >= 1
    BY <1>3, EmptySeq
  <2>2. /\ Tail(inbox) \in Seq(Request) /\ Len(Tail(inbox)) = Len(inbox) - 1
        /\ \A i \in 1 .. Len(inbox) - 1 : Tail(inbox)[i] = inbox[i + 1]
    BY <1>3, HeadTailProperties
  <2>3. DOMAIN Tail(inbox) = 1 .. Len(inbox) - 1
    BY <2>2, LenProperties
  <2> QED BY <2>1, <2>2, <2>3
<1>5. Answered' = Answered + 1
  <2>1. Answered' = nextId - (Len(inbox) - 1)
    BY <1>4 DEF Answered
  <2> QED BY <1>3, <2>1
<1>6. p.id = Answered + 1 /\ Awaits(p.id)
  <2>1. inbox[1].id = Answered + 1 /\ Awaits(inbox[1].id)
    BY <1>3, <1>4 DEF RepliesIn
  <2> QED BY <1>4, <2>1
<1>7. \A k \in 1 .. n + 1 : (k \in 1 .. n /\ new[k] = all[k]) \/ (k = n + 1 /\ new[k] = p)
  BY <1>1, <1>2
<1>8. \A k \in 1 .. n : k \in 1 .. n + 1 /\ new[k] = all[k]
  BY <1>1, <1>2
<1>9. \A k \in 1 .. n : ~IsEvent(all[k]) => all[k].id <= Answered /\ Awaits(all[k].id)
  BY <1>1 DEF RepliesIn
<1>10. ASSUME NEW k \in 1 .. n + 1, ~IsEvent(new[k])
       PROVE  new[k].id <= Answered' /\ Awaits(new[k].id)'
  <2>1. CASE k \in 1 .. n
    BY <1>1, <1>2, <1>3, <1>5, <1>9, <1>10, <2>1
  <2>2. CASE k = n + 1
    BY <1>2, <1>3, <1>5, <1>6, <2>2
  <2> QED BY <1>7, <2>1, <2>2
<1>11. ASSUME NEW j \in 1 .. n + 1, NEW k \in 1 .. n + 1, j < k, ~IsEvent(new[j]), ~IsEvent(new[k])
       PROVE  new[j].id < new[k].id
  <2>1. j \in 1 .. n /\ new[j] = all[j]
    BY <1>1, <1>2, <1>11
  <2>2. CASE k \in 1 .. n
    BY <1>1, <1>2, <1>11, <2>1, <2>2 DEF RepliesIn
  <2>3. CASE k = n + 1
    <3>1. ~IsEvent(all[j]) /\ all[j].id <= Answered /\ all[j].id \in Nat
      BY <1>1, <1>9, <1>11, <2>1
    <3>2. new[k].id = Answered + 1
      BY <1>2, <1>6, <2>3
    <3> QED BY <1>3, <2>1, <3>1, <3>2
  <2> QED BY <1>7, <2>2, <2>3
<1>12. ASSUME NEW x \in Nat, Awaits(x)'
       PROVE  x > Answered' \/ \E k \in 1 .. n + 1 : ~IsEvent(new[k]) /\ new[k].id = x
  <2>1. Awaits(x)
    BY <1>12
  <2>2. x > Answered \/ \E k \in 1 .. n : ~IsEvent(all[k]) /\ all[k].id = x
    BY <1>1, <2>1 DEF RepliesIn
  <2>3. CASE x > Answered
    <3>1. x > Answered + 1 \/ x = Answered + 1
      BY <1>3, <2>3
    <3>2. n + 1 \in 1 .. n + 1
      BY <1>1
    <3> QED BY <1>2, <1>5, <1>6, <3>1, <3>2
  <2>4. CASE \E k \in 1 .. n : ~IsEvent(all[k]) /\ all[k].id = x
    BY <1>8, <2>4
  <2> QED BY <2>2, <2>3, <2>4
<1>13. Len(inbox') <= nextId'
  BY <1>3, <1>4
<1>14. ASSUME NEW i \in DOMAIN inbox', NEW x, x = inbox'[i].id
       PROVE  x = Answered' + i /\ Awaits(x)'
  <2>1. PICK m \in DOMAIN inbox : m = i + 1 /\ inbox'[i] = inbox[m]
    BY <1>3, <1>4
  <2>2. x = Answered + m /\ Awaits(x)
    BY <1>14, <2>1 DEF RepliesIn
  <2>3. m \in Nat /\ i \in Nat
    BY <1>3, <1>4
  <2> QED BY <1>3, <1>5, <2>1, <2>2, <2>3
<1>15. (\A i \in DOMAIN inbox : inbox[i].id = Answered + i /\ Awaits(inbox[i].id))'
  BY <1>14 DEF Awaits
<1> QED BY <1>2, <1>5, <1>6, <1>10, <1>11, <1>12, <1>13, <1>15 DEF RepliesIn

(* Without the event, or the reply, at i: its call no longer waits. *)
LEMMA RepliesLess ==
  ASSUME NEW all, NEW n, List(all, n), NEW i, NEW new, Less(all, n, i, new),
         RepliesIn(all), UNCHANGED <<nextId, inbox>>, inbox \in Seq(Request), nextId \in Nat,
         Distinct',
         \A x \in Nat : Awaits(x)' <=> Awaits(x) /\ (IsEvent(all[i]) \/ x # all[i].id)
  PROVE  RepliesIn(new)'
<1>1. DOMAIN all = 1 .. n /\ n \in Nat /\ \A k \in 1 .. n : all[k].id \in Nat
  BY DEF List
<1>2. /\ i \in 1 .. n /\ DOMAIN new = 1 .. n - 1
      /\ \A k \in 1 .. n - 1 : new[k] = all[Before(i, k)]
  BY DEF Less
<1>3. /\ \A k \in 1 .. n - 1 : Before(i, k) \in 1 .. n /\ Before(i, k) # i
      /\ \A j, k \in 1 .. n - 1 : j < k => Before(i, j) < Before(i, k)
      /\ \A m \in 1 .. n : m # i => \E k \in 1 .. n - 1 : m = Before(i, k)
  BY <1>1, <1>2, BeforeIs
<1>4. Answered' = Answered
  BY DEF Answered
<1>5. /\ Len(inbox) \in Nat /\ DOMAIN inbox = 1 .. Len(inbox)
      /\ Answered \in Nat /\ nextId = Answered + Len(inbox)
  BY InboxIs
<1>6. ASSUME NEW j \in 1 .. n - 1, NEW k \in 1 .. n - 1, j < k, ~IsEvent(new[j]), ~IsEvent(new[k])
      PROVE  new[j].id < new[k].id
  <2>1. PICK a \in 1 .. n : a = Before(i, j) /\ new[j] = all[a]
    BY <1>2, <1>3
  <2>2. PICK b \in 1 .. n : b = Before(i, k) /\ new[k] = all[b]
    BY <1>2, <1>3
  <2>3. a < b
    BY <1>3, <1>6, <2>1, <2>2
  <2> QED BY <1>1, <1>6, <2>1, <2>2, <2>3 DEF RepliesIn
<1>7. ASSUME NEW k \in 1 .. n - 1, ~IsEvent(new[k])
      PROVE  new[k].id <= Answered' /\ Awaits(new[k].id)'
  <2>1. PICK b \in 1 .. n : b = Before(i, k) /\ new[k] = all[b] /\ b # i
    BY <1>2, <1>3
  <2>2. all[b].id <= Answered /\ Awaits(all[b].id) /\ all[b].id \in Nat
    BY <1>1, <1>7, <2>1 DEF RepliesIn
  <2>3. ~IsEvent(all[i]) => all[b].id # all[i].id
    <3>1. b < i \/ i < b
      BY <1>1, <1>2, <2>1
    <3>2. ~IsEvent(all[b])
      BY <1>7, <2>1
    <3>3. ASSUME ~IsEvent(all[i])
          PROVE  all[b].id < all[i].id \/ all[i].id < all[b].id
      BY <1>1, <1>2, <3>1, <3>2, <3>3 DEF RepliesIn
    <3> QED BY <1>1, <1>2, <2>1, <3>3
  <2> QED BY <1>4, <2>1, <2>2, <2>3
<1>8. ASSUME NEW x \in Nat, Awaits(x)'
      PROVE  x > Answered' \/ \E k \in 1 .. n - 1 : ~IsEvent(new[k]) /\ new[k].id = x
  <2>1. Awaits(x) /\ (IsEvent(all[i]) \/ x # all[i].id)
    BY <1>8
  <2>2. CASE \E m \in 1 .. n : ~IsEvent(all[m]) /\ all[m].id = x
    <3>1. PICK m \in 1 .. n : ~IsEvent(all[m]) /\ all[m].id = x
      BY <2>2
    <3>2. m # i
      BY <2>1, <3>1
    <3>3. PICK k \in 1 .. n - 1 : m = Before(i, k)
      BY <1>3, <3>2
    <3> QED BY <1>2, <3>1, <3>3
  <2>3. x > Answered \/ \E m \in 1 .. n : ~IsEvent(all[m]) /\ all[m].id = x
    BY <1>1, <2>1 DEF RepliesIn
  <2> QED BY <1>4, <2>2, <2>3
<1>9. ASSUME NEW m \in DOMAIN inbox
      PROVE  inbox[m].id = Answered + m /\ Awaits(inbox[m].id)'
  <2>1. inbox[m].id = Answered + m /\ Awaits(inbox[m].id) /\ inbox[m].id \in Nat
    BY <1>5 DEF RepliesIn
  <2>2. ~IsEvent(all[i]) => all[i].id <= Answered
    BY <1>1, <1>2 DEF RepliesIn
  <2>3. ~IsEvent(all[i]) => inbox[m].id # all[i].id
    BY <1>1, <1>2, <1>5, <2>1, <2>2
  <2> QED BY <2>1, <2>3
<1>10. Len(inbox') <= nextId'
  BY <1>5
<1> QED BY <1>2, <1>4, <1>6, <1>7, <1>8, <1>9, <1>10 DEF RepliesIn

(* A request is sent. *)
LEMMA RepliesSent ==
  ASSUME NEW all, RepliesIn(all), inbox \in Seq(Request), nextId \in Nat,
         NEW r \in Request, r.id = nextId + 1, inbox' = Append(inbox, r), nextId' = nextId + 1,
         Distinct', \A x : Awaits(x)' <=> Awaits(x) \/ x = nextId + 1
  PROVE  RepliesIn(all)' /\ Answered' = Answered
<1>1. /\ Len(inbox) \in Nat /\ DOMAIN inbox = 1 .. Len(inbox)
      /\ Answered \in Nat /\ nextId = Answered + Len(inbox)
  BY InboxIs
<1>2. /\ Len(inbox') = Len(inbox) + 1 /\ DOMAIN inbox' = 1 .. Len(inbox) + 1
      /\ inbox'[Len(inbox) + 1] = r
      /\ \A i \in 1 .. Len(inbox) : inbox'[i] = inbox[i]
  <2>1. /\ Append(inbox, r) \in Seq(Request) /\ Len(Append(inbox, r)) = Len(inbox) + 1
        /\ Append(inbox, r)[Len(inbox) + 1] = r
        /\ \A i \in 1 .. Len(inbox) : Append(inbox, r)[i] = inbox[i]
    BY AppendProperties
  <2>2. DOMAIN Append(inbox, r) = 1 .. Len(inbox) + 1
    BY <2>1, LenProperties
  <2> QED BY <2>1, <2>2
<1>3. Answered' = Answered
  <2>1. Answered' = (nextId + 1) - (Len(inbox) + 1)
    BY <1>2 DEF Answered
  <2> QED BY <1>1, <2>1
<1>4. ASSUME NEW i \in 1 .. Len(inbox) + 1, NEW x, x = inbox'[i].id
      PROVE  x = Answered' + i /\ Awaits(x)'
  <2>1. CASE i \in 1 .. Len(inbox)
    <3>1. x = Answered + i /\ Awaits(x)
      BY <1>1, <1>2, <1>4, <2>1 DEF RepliesIn
    <3> QED BY <1>3, <3>1
  <2>2. CASE i = Len(inbox) + 1
    <3>1. x = nextId + 1
      BY <1>2, <1>4, <2>2
    <3> QED BY <1>1, <1>3, <2>2, <3>1
  <2> QED BY <1>1, <2>1, <2>2
<1>5. ASSUME NEW x \in Nat, Awaits(x)'
      PROVE  x > Answered' \/ \E k \in DOMAIN all : ~IsEvent(all[k]) /\ all[k].id = x
  <2>1. CASE x = nextId + 1
    BY <1>1, <1>3, <2>1
  <2>2. CASE Awaits(x)
    BY <1>3, <2>2 DEF RepliesIn
  <2> QED BY <1>5, <2>1, <2>2
<1>6. /\ \A k \in DOMAIN all : ~IsEvent(all[k]) => all[k].id <= Answered' /\ Awaits(all[k].id)'
      /\ \A j, k \in DOMAIN all :
           j < k /\ ~IsEvent(all[j]) /\ ~IsEvent(all[k]) => all[j].id < all[k].id
  BY <1>3 DEF RepliesIn
<1>7. Len(inbox') <= nextId'
  BY <1>1, <1>2
<1>8. (\A i \in DOMAIN inbox : inbox[i].id = Answered + i /\ Awaits(inbox[i].id))'
  BY <1>2, <1>4 DEF Awaits
<1> QED BY <1>2, <1>3, <1>5, <1>6, <1>7, <1>8 DEF RepliesIn

LEMMA Concatenation ==
  ASSUME NEW S, NEW s \in Seq(S), NEW t \in Seq(S), NEW u \in Seq(S)
  PROVE  s \o (t \o u) = (s \o t) \o u
OBVIOUS

AppendsBehind(s, t, e) == Append(s \o t, e) = s \o Append(t, e)

LEMMA AppendToConcat ==
  ASSUME NEW S, NEW s \in Seq(S), NEW t \in Seq(S), NEW e \in S
  PROVE  AppendsBehind(s, t, e)
BY DEF AppendsBehind

LEMMA AheadSame ==
  ASSUME NEW all, RepliesAhead(all), UNCHANGED <<events, suspends>>, Answered' = Answered,
         vm' = vm \/ vm' = "gone"
  PROVE  RepliesAhead(all)'
BY DEF RepliesAhead

LEMMA AheadMore ==
  ASSUME NEW all, NEW n, List(all, n), NEW p, NEW new, More(all, n, p, new),
         RepliesAhead(all), Answered \in Nat, p.id \in Nat,
         \/ IsEvent(p) /\ p.id <= Answered /\ Answered' = Answered
         \/ ~IsEvent(p) /\ p.id = Answered + 1 /\ Answered' = Answered + 1,
         vm' \in {"starting", "up"} => events' <= suspends' + Answered',
         vm' = "starting" => events' = 0
  PROVE  RepliesAhead(new)'
<1>1. DOMAIN all = 1 .. n /\ n \in Nat /\ \A k \in 1 .. n : all[k].id \in Nat
  BY DEF List
<1>2. DOMAIN new = 1 .. n + 1 /\ new[n + 1] = p /\ \A k \in 1 .. n : new[k] = all[k]
  BY DEF More
<1>3. \A k \in 1 .. n + 1 : (k \in 1 .. n /\ new[k] = all[k]) \/ (k = n + 1 /\ new[k] = p)
  BY <1>1, <1>2
<1>4. ASSUME NEW k \in 1 .. n + 1, IsEvent(new[k])
      PROVE  new[k].id <= Answered'
  <2>1. CASE k \in 1 .. n
    BY <1>1, <1>2, <1>4, <2>1 DEF RepliesAhead
  <2>2. CASE k = n + 1
    BY <1>2, <1>4, <2>2
  <2> QED BY <1>3, <2>1, <2>2
<1>5. ASSUME NEW j \in 1 .. n + 1, NEW k \in 1 .. n + 1, j < k, IsEvent(new[j]), ~IsEvent(new[k])
      PROVE  new[j].id < new[k].id
  <2>1. j \in 1 .. n /\ new[j] = all[j]
    BY <1>1, <1>2, <1>5
  <2>2. CASE k \in 1 .. n
    BY <1>1, <1>2, <1>5, <2>1, <2>2 DEF RepliesAhead
  <2>3. CASE k = n + 1
    <3>1. all[j].id <= Answered /\ all[j].id \in Nat
      BY <1>1, <1>5, <2>1 DEF RepliesAhead
    <3> QED BY <1>2, <1>5, <2>1, <2>3, <3>1
  <2> QED BY <1>3, <2>2, <2>3
<1> QED BY <1>2, <1>4, <1>5 DEF RepliesAhead

LEMMA AheadLess ==
  ASSUME NEW all, NEW n, List(all, n), NEW i, NEW new, Less(all, n, i, new),
         RepliesAhead(all), UNCHANGED <<vm, events, suspends>>, Answered' = Answered
  PROVE  RepliesAhead(new)'
<1>1. DOMAIN all = 1 .. n /\ n \in Nat /\ \A k \in 1 .. n : all[k].id \in Nat
  BY DEF List
<1>2. /\ i \in 1 .. n /\ DOMAIN new = 1 .. n - 1
      /\ \A k \in 1 .. n - 1 : new[k] = all[Before(i, k)]
  BY DEF Less
<1>3. /\ \A k \in 1 .. n - 1 : Before(i, k) \in 1 .. n
      /\ \A j, k \in 1 .. n - 1 : j < k => Before(i, j) < Before(i, k)
  BY <1>1, <1>2, BeforeIs
<1>4. ASSUME NEW k \in 1 .. n - 1, IsEvent(new[k])
      PROVE  new[k].id <= Answered'
  <2>1. PICK b \in 1 .. n : b = Before(i, k) /\ new[k] = all[b]
    BY <1>2, <1>3
  <2> QED BY <1>1, <1>4, <2>1 DEF RepliesAhead
<1>5. ASSUME NEW j \in 1 .. n - 1, NEW k \in 1 .. n - 1, j < k, IsEvent(new[j]), ~IsEvent(new[k])
      PROVE  new[j].id < new[k].id
  <2>1. PICK a \in 1 .. n : a = Before(i, j) /\ new[j] = all[a]
    BY <1>2, <1>3
  <2>2. PICK b \in 1 .. n : b = Before(i, k) /\ new[k] = all[b]
    BY <1>2, <1>3
  <2>3. a < b
    BY <1>3, <1>5, <2>1, <2>2
  <2> QED BY <1>1, <1>5, <2>1, <2>2, <2>3 DEF RepliesAhead
<1> QED BY <1>2, <1>4, <1>5 DEF RepliesAhead

(* How the packets under way change. *)
LEMMA ListOf ==
  ASSUME NEW ps, NEW all, Packets(ps, all)
  PROVE  List(all, Len(all))
BY PacketIds DEF List

LEMMA PacketsSame ==
  ASSUME NEW ps, NEW all, Packets(ps, all),
         UNCHANGED <<incompleteData, buffer, wire, messagesReadyForProcessing, onReadyRead>>
  PROVE  Packets(ps, all)'
BY DEF Packets, Shake

LEMMA PacketsMore ==
  ASSUME Types, NEW ps, NEW all, Packets(ps, all), NEW p \in PacketSet,
         wire' = wire \o Units(p),
         UNCHANGED <<incompleteData, buffer, messagesReadyForProcessing, onReadyRead>>
  PROVE  /\ Packets(Append(ps, p), Append(all, p))'
         /\ More(all, Len(all), p, Append(all, p))
         /\ wire' \in Seq(Unit)
<1> DEFINE us == (incompleteData \o buffer) \o wire
           v == Units(p)
           m == messagesReadyForProcessing
<1>1. /\ ps \in Seq(PacketSet) /\ all \in Seq(PacketSet) /\ Cut(us, Shake, ps) /\ all = m \o ps
      /\ m \in Seq(PacketSet)
      /\ incompleteData \in Seq(Unit) /\ buffer \in Seq(Unit) /\ wire \in Seq(Unit)
  BY DEF Packets, Types
<1>2. us \in Seq(Unit) /\ incompleteData \o buffer \in Seq(Unit)
  BY <1>1, UnitsUnderway
<1>3. v \in Seq(Unit)
  BY UnitsOf
<1>4. wire' \in Seq(Unit)
  <2> HIDE DEF v
  <2>1. wire \o v \in Seq(Unit)
    BY <1>1, <1>3, ConcatProperties
  <2> QED BY <2>1 DEF v
<1>5. ((incompleteData \o buffer) \o wire)' = us \o v
  <2>1. PICK a \in Seq(Unit), b \in Seq(Unit), x \in Seq(Unit) :
          a = incompleteData \o buffer /\ b = wire /\ x = v
    BY <1>1, <1>2, <1>3
  <2>2. a \o (b \o x) = (a \o b) \o x
    BY Concatenation
  <2> QED BY <2>1, <2>2
<1>6. Append(ps, p) \in Seq(PacketSet) /\ Cut(us \o v, Shake, Append(ps, p))
  <2> HIDE DEF us
  <2>1. Shake \in {0, 1}
    BY ShakeIs
  <2> QED BY <1>1, <1>2, <2>1, CutAppend
<1>7. Shake' = Shake
  BY DEF Shake
<1>8. /\ Append(all, p) \in Seq(PacketSet) /\ Len(Append(all, p)) = Len(all) + 1
      /\ \A i \in 1 .. Len(all) : Append(all, p)[i] = all[i]
      /\ Append(all, p)[Len(all) + 1] = p
  BY <1>1, AppendProperties
<1>9. Append(all, p) = m \o Append(ps, p)
  <2>1. PICK a \in Seq(PacketSet) : a = m
    BY <1>1
  <2>2. Append(a \o ps, p) = a \o Append(ps, p)
    <3>1. ps \in Seq(PacketSet)
      BY <1>1
    <3>2. AppendsBehind(a, ps, p)
      BY <3>1, AppendToConcat
    <3> QED BY <3>2 DEF AppendsBehind
  <2> QED BY <1>1, <2>1, <2>2
<1>10. DOMAIN Append(all, p) = 1 .. Len(all) + 1
  BY <1>8, LenProperties
<1>11. Packets(Append(ps, p), Append(all, p))'
  BY <1>5, <1>6, <1>7, <1>8, <1>9 DEF Packets
<1> QED BY <1>4, <1>8, <1>10, <1>11 DEF More

LEMMA PacketsArrive ==
  ASSUME Types, NEW ps, NEW all, Packets(ps, all), NEW k \in 1 .. Len(wire),
         buffer' = buffer \o SubSeq(wire, 1, k),
         wire' = SubSeq(wire, k + 1, Len(wire)),
         UNCHANGED <<incompleteData, messagesReadyForProcessing, onReadyRead>>
  PROVE  /\ Packets(ps, all)'
         /\ buffer' \in Seq(Unit) /\ wire' \in Seq(Unit) /\ buffer' # <<>>
<1>1. PICK a \in Seq(Unit), b \in Seq(Unit), w \in Seq(Unit) :
        a = incompleteData /\ b = buffer /\ w = wire
  BY DEF Types
<1>a. InBuffer(a, b, w, k)
  <2>1. k \in 1 .. Len(w)
    BY <1>1
  <2> QED BY <2>1, Moved
<1>2. /\ buffer \o SubSeq(wire, 1, k) \in Seq(Unit) /\ SubSeq(wire, k + 1, Len(wire)) \in Seq(Unit)
      /\ buffer \o SubSeq(wire, 1, k) # <<>>
      /\ (incompleteData \o (buffer \o SubSeq(wire, 1, k))) \o SubSeq(wire, k + 1, Len(wire))
           = (incompleteData \o buffer) \o wire
  BY <1>1, <1>a DEF InBuffer
<1>3. ((incompleteData \o buffer) \o wire)' = (incompleteData \o buffer) \o wire
  BY <1>2
<1>4. Shake' = Shake
  BY DEF Shake
<1> QED BY <1>2, <1>3, <1>4 DEF Packets

(* The messages that are ready are the first of all. *)
FirstOf(list, qs, all) ==
  /\ DOMAIN list = 1 .. Len(list) /\ Len(list) \in Nat /\ Len(all) \in Nat
  /\ \A k \in DOMAIN list : k \in 1 .. Len(all) /\ list[k] = all[k]
  /\ \A i \in DOMAIN list :
       /\ RemoveAt(list, i) \in Seq(PacketSet) /\ RemoveAt(all, i) \in Seq(PacketSet)
       /\ RemoveAt(all, i) = RemoveAt(list, i) \o qs
       /\ Less(all, Len(all), i, RemoveAt(all, i))

LEMMA ReadyFirst ==
  ASSUME NEW list \in Seq(PacketSet), NEW qs \in Seq(PacketSet), NEW all, all = list \o qs
  PROVE  FirstOf(list, qs, all)
<1>1. /\ DOMAIN list = 1 .. Len(list) /\ Len(list) \in Nat /\ Len(qs) \in Nat
      /\ Len(all) = Len(list) + Len(qs) /\ all \in Seq(PacketSet)
      /\ \A k \in 1 .. Len(list) + Len(qs) : all[k] = IF k <= Len(list) THEN list[k] ELSE qs[k - Len(list)]
  BY ConcatProperties, LenProperties
<1>2. \A k \in DOMAIN list : k \in 1 .. Len(all) /\ list[k] = all[k]
  BY <1>1
<1>3. ASSUME NEW i \in DOMAIN list
      PROVE  /\ RemoveAt(list, i) \in Seq(PacketSet) /\ RemoveAt(all, i) \in Seq(PacketSet)
             /\ RemoveAt(all, i) = RemoveAt(list, i) \o qs
             /\ Less(all, Len(all), i, RemoveAt(all, i))
  <2>1. i \in 1 .. Len(list) /\ i \in 1 .. Len(all)
    BY <1>1, <1>2
  <2>2. RemoveAt(list, i) \in Seq(PacketSet)
    BY <2>1, RemoveAtProperties
  <2>3. RemoveAt(list \o qs, i) = RemoveAt(list, i) \o qs
    BY <2>1, RemoveAtConcat
  <2>4. /\ RemoveAt(all, i) \in Seq(PacketSet) /\ Len(RemoveAt(all, i)) = Len(all) - 1
        /\ \A k \in 1 .. Len(all) - 1 :
             RemoveAt(all, i)[k] = IF k < i THEN all[k] ELSE all[k + 1]
    BY <1>1, <2>1, RemoveAtProperties
  <2>5. DOMAIN RemoveAt(all, i) = 1 .. Len(all) - 1
    BY <2>4, LenProperties
  <2>6. ASSUME NEW k \in 1 .. Len(all) - 1
        PROVE  RemoveAt(all, i)[k] = all[Before(i, k)]
    BY <2>4 DEF Before
  <2>7. Less(all, Len(all), i, RemoveAt(all, i))
    BY <2>1, <2>5, <2>6 DEF Less
  <2> QED BY <2>2, <2>3, <2>4, <2>7
<1> QED BY <1>1, <1>2, <1>3 DEF FirstOf

LEMMA Read ==
  ASSUME Types, NEW ps, NEW all, Packets(ps, all), onReadyRead = "dispatchEvents"
  PROVE  /\ Rest(Data) \in Seq(Unit) /\ Ready \in Seq(PacketSet)
         /\ \E qs \in Seq(PacketSet) : Cut(Rest(Data) \o wire, 0, qs) /\ all = Ready \o qs
<1>1. /\ ps \in Seq(PacketSet) /\ messagesReadyForProcessing \in Seq(PacketSet)
      /\ incompleteData \in Seq(Unit) /\ buffer \in Seq(Unit) /\ wire \in Seq(Unit)
      /\ all = messagesReadyForProcessing \o ps
  BY DEF Types, Packets
<1>2. Data \in Seq(Unit)
  BY <1>1, ConcatProperties DEF Data
<1>3. Cut(Data \o wire, 0, ps)
  BY DEF Data, Packets, Shake
<1>4. /\ Rest(Data) \in Seq(Unit) /\ WithNext(messagesReadyForProcessing, Data) \in Seq(PacketSet)
      /\ \E qs \in Seq(PacketSet) :
           /\ Cut(Rest(Data) \o wire, 0, qs)
           /\ WithNext(messagesReadyForProcessing, Data) \o qs = messagesReadyForProcessing \o ps
    <2>1. PICK d \in Seq(Unit), w \in Seq(Unit), list \in Seq(PacketSet) :
          d = Data /\ w = wire /\ list = messagesReadyForProcessing
    BY <1>1, <1>2
  <2>2. Cut(d \o w, 0, ps) /\ ps \in Seq(PacketSet)
    BY <1>1, <1>3, <2>1
  <2>3. ReadFrom(d, w, list, ps)
    BY <2>2, OneRead
  <2> QED BY <2>1, <2>3 DEF ReadFrom
<1> QED BY <1>1, <1>4 DEF Ready

(* The messages that are left of those read, with what is unread. *)
LEMMA PacketsRead ==
  ASSUME NEW qs \in Seq(PacketSet), NEW all, Rest(Data) \in Seq(Unit), Cut(Rest(Data) \o wire, 0, qs),
         ReadFromSocket, wire' = wire, onReadyRead' = "dispatchEvents",
         all \in Seq(PacketSet), all = messagesReadyForProcessing' \o qs
  PROVE  Packets(qs, all)'
<1>1. Rest(Data) \o <<>> = Rest(Data)
  BY ConcatEmptySeq
<1>2. incompleteData' = Rest(Data) /\ buffer' = <<>>
  BY DEF ReadFromSocket
<1>3. (incompleteData' \o buffer') \o wire' = Rest(Data) \o wire
  BY <1>1, <1>2
<1>4. Shake' = 0
  BY DEF Shake
<1>5. (Cut((incompleteData \o buffer) \o wire, Shake, qs))'
  BY <1>3, <1>4
<1> QED BY <1>5 DEF Packets

-----------------------------------------------------------------------------
(* The steps. *)

(* What every step may use of the invariant. *)
LEMMA Numbers ==
  ASSUME Types, NEW all, RepliesIn(all)
  PROVE  /\ Len(inbox) \in Nat /\ DOMAIN inbox = 1 .. Len(inbox) /\ inbox \in Seq(Request)
         /\ Answered \in Nat /\ nextId \in Nat /\ nextId = Answered + Len(inbox)
         /\ events \in Nat /\ handled \in Nat /\ suspends \in Nat /\ connection \in Nat
         /\ user \in Call /\ inner \in Call /\ user.id \in Nat /\ inner.id \in Nat
<1>1. inbox \in Seq(Request) /\ nextId \in Nat
  BY DEF Types
<1>2. connection \in Nat
  BY ConnectorAssumption DEF Types
<1>3. user \in Call /\ inner \in Call /\ user.id \in Nat /\ inner.id \in Nat
  BY DEF Types, Call
<1> QED BY <1>1, <1>2, <1>3, InboxIs DEF Types

LEMMA CallsSame ==
  ASSUME UNCHANGED calls
  PROVE  (\A x : Awaits(x)' <=> Awaits(x)) /\ (Distinct => Distinct')
BY DEF calls, Awaits, Distinct

LEMMA PacketOf ==
  ASSUME Types, NEW i \in Nat, NEW es \in Seq(Kind)
  PROVE  /\ Packet(i, es) \in PacketSet /\ Packet(i, es).id = i
         /\ IsEvent(Packet(i, es)) <=> es # <<>>
<1>1. connection \in Nat
  BY ConnectorAssumption DEF Types
<1> QED BY <1>1 DEF Packet, PacketSet, IsEvent

(* The VM sends a packet with events: all before it have been resumed. *)
LEMMA EventsSent ==
  ASSUME NEW ps, NEW all, Invariant(ps, all), NEW es \in Seq(Kind), es # <<>>, SendEvents(es),
         UNCHANGED <<ofConnector, inbox>>, vm = "starting" \/ (vm = "up" /\ suspends = 0),
         \/ vm' = "up" /\ suspends' = suspends + 1
         \/ vm' = "exiting" /\ suspends' = suspends
  PROVE  \E qs, new : Invariant(qs, new)'
<1>0. PICK p : p = Packet(events, es)
  OBVIOUS
<1> DEFINE n == Len(all)
           new == Append(all, p)
<1>1. /\ Types /\ Slots /\ Packets(ps, all)
      /\ EventsIn(all) /\ RepliesIn(all) /\ RepliesAhead(all) /\ OnePacketAtATime /\ Distinct
  BY DEF Invariant, RepliesIn
<1>2. /\ Answered \in Nat /\ events \in Nat /\ handled \in Nat /\ suspends \in Nat
      /\ nextId \in Nat /\ DOMAIN inbox = 1 .. Len(inbox)
  BY <1>1, Numbers
<1>3. p \in PacketSet /\ p.id = events /\ IsEvent(p)
  BY <1>0, <1>1, <1>2, PacketOf
<1>4. wire' = wire \o Units(p) /\ events' = events + 1
  BY <1>0 DEF SendEvents
<1>5. events <= Answered /\ events <= suspends + Answered
  BY <1>1, <1>2 DEF RepliesAhead
<1>6. /\ UNCHANGED <<buffer, incompleteData, messagesReadyForProcessing, vmAlive, resumeRequest>>
      /\ UNCHANGED <<nextId, onReadyRead, slot, composite, current, inner, user, inbox>>
      /\ UNCHANGED <<connection, alone, handled>>
  BY DEF ofConnector, calls
<1>7. Answered' = Answered
  BY <1>6 DEF Answered
<1> HIDE DEF new, n
<1>8. Packets(Append(ps, p), new)' /\ More(all, n, p, new) /\ wire' \in Seq(Unit) /\ List(all, n)
  BY <1>1, <1>3, <1>4, <1>6, PacketsMore, ListOf DEF new, n
<1>9. (\A x : Awaits(x)' <=> Awaits(x)) /\ Distinct'
  BY <1>1, <1>6, CallsSame DEF calls
<1>10. EventsIn(new)'
  BY <1>1, <1>2, <1>3, <1>4, <1>6, <1>8, EventsMore
<1>11. RepliesIn(new)'
  BY <1>1, <1>3, <1>6, <1>8, <1>9, RepliesMoreEvents
<1>12. RepliesAhead(new)'
  <2>1. vm' \in {"starting", "up"} => events' <= suspends' + Answered'
    BY <1>2, <1>4, <1>5, <1>7
  <2> QED BY <1>1, <1>2, <1>3, <1>5, <1>7, <1>8, <2>1, AheadMore
<1>13. Types'
  BY <1>1, <1>2, <1>4, <1>6, <1>8 DEF Types
<1>14. Slots'
  BY <1>1, <1>6 DEF Slots
<1>15. OnePacketAtATime'
  <2> SUFFICES ASSUME alone
               PROVE  OnePacketAtATime'
    BY <1>6 DEF OnePacketAtATime
  <2>1. suspends = 0 /\ vm \in {"starting", "up"}
    BY <1>1 DEF OnePacketAtATime
  <2>2. handled = events /\ slot # "listener" /\ user = NoCall
    BY <1>1, <2>1 DEF OnePacketAtATime
  <2>3. \A i \in DOMAIN inbox : inbox[i].cause = 0 /\ inbox[i].command = "query"
    BY <1>1, <2>1 DEF OnePacketAtATime
  <2>4. /\ vm' # "starting" /\ (vm' = "up" => suspends' # 0)
        /\ events' <= handled' + 1
    BY <1>2, <1>4, <1>6, <2>1, <2>2
  <2> QED BY <1>2, <1>6, <2>2, <2>3, <2>4 DEF OnePacketAtATime
<1>16. Invariant(Append(ps, p), new)'
  BY <1>8, <1>10, <1>11, <1>12, <1>13, <1>14, <1>15 DEF Invariant
<1> QED BY <1>16

LEMMA VMStartStep ==
  ASSUME NEW ps, NEW all, Invariant(ps, all), VMStart
  PROVE  \E qs, new : Invariant(qs, new)'
<1>1. <<"start">> \in Seq(Kind) /\ <<"start">> # <<>>
  BY DEF Kind
<1>2. /\ vm = "starting" /\ SendEvents(<<"start">>) /\ vm' = "up" /\ suspends' = suspends + 1
      /\ UNCHANGED <<ofConnector, inbox>>
  BY DEF VMStart
<1> QED BY <1>1, <1>2, EventsSent

LEMMA VMEventsStep ==
  ASSUME NEW ps, NEW all, Invariant(ps, all), VMEvents
  PROVE  \E qs, new : Invariant(qs, new)'
<1>1. PICK es \in Composites : SendEvents(es)
  BY DEF VMEvents
<1>2. es \in Seq(Kind) /\ es # <<>>
  <2>1. es \in Seq(Kind \ {"start", "death"}) /\ es # <<>>
    BY ConnectorAssumption
  <2>2. Kind \ {"start", "death"} \subseteq Kind
    OBVIOUS
  <2> QED BY <2>1, <2>2
<1>3. /\ vm = "up" /\ suspends = 0 /\ vm' = "up" /\ suspends' = suspends + 1
      /\ UNCHANGED <<ofConnector, inbox>>
  BY DEF VMEvents
<1> QED BY <1>1, <1>2, <1>3, EventsSent

LEMMA VMExitStep ==
  ASSUME NEW ps, NEW all, Invariant(ps, all), VMExit
  PROVE  \E qs, new : Invariant(qs, new)'
<1>1. <<"death">> \in Seq(Kind) /\ <<"death">> # <<>>
  BY DEF Kind
<1>2. /\ vm = "up" /\ suspends = 0 /\ SendEvents(<<"death">>) /\ vm' = "exiting"
      /\ suspends' = suspends /\ UNCHANGED <<ofConnector, inbox>>
  BY DEF VMExit
<1> QED BY <1>1, <1>2, EventsSent

LEMMA VMGoneStep ==
  ASSUME NEW ps, NEW all, Invariant(ps, all), VMGone
  PROVE  \E qs, new : Invariant(qs, new)'
<1>1. /\ Types /\ Slots /\ Packets(ps, all)
      /\ EventsIn(all) /\ RepliesIn(all) /\ RepliesAhead(all) /\ OnePacketAtATime /\ Distinct
  BY DEF Invariant, RepliesIn
<1>2. /\ UNCHANGED <<buffer, incompleteData, messagesReadyForProcessing, vmAlive, resumeRequest>>
      /\ UNCHANGED <<nextId, onReadyRead, slot, composite, current, inner, user, inbox>>
      /\ UNCHANGED <<connection, alone, handled, suspends, events, wire>> /\ vm' = "gone"
  BY DEF VMGone, ofConnector, calls
<1>3. (\A x : Awaits(x)' <=> Awaits(x)) /\ Distinct'
  BY <1>1, <1>2, CallsSame DEF calls
<1>4. Answered' = Answered
  BY <1>2 DEF Answered
<1>5. Packets(ps, all)' /\ EventsIn(all)' /\ RepliesIn(all)' /\ RepliesAhead(all)'
  BY <1>1, <1>2, <1>3, <1>4, PacketsSame, EventsSame, RepliesSame, AheadSame
<1>6. Types' /\ Slots'
  BY <1>1, <1>2 DEF Types, Slots
<1>7. OnePacketAtATime'
  BY <1>1, <1>2 DEF OnePacketAtATime
<1>8. Invariant(ps, all)'
  BY <1>5, <1>6, <1>7 DEF Invariant
<1> QED BY <1>8

(* Without requests of the user, there is one request at a time. *)
LEMMA OneRequest ==
  ASSUME Types, NEW all, RepliesIn(all), user = NoCall
  PROVE  Len(inbox) <= 1 /\ (inner = NoCall => Len(inbox) = 0)
<1>1. /\ Len(inbox) \in Nat /\ DOMAIN inbox = 1 .. Len(inbox) /\ Answered \in Nat
  BY Numbers
<1>2. \A i \in 1 .. Len(inbox) : inbox[i].id = Answered + i /\ Awaits(inbox[i].id)
  BY <1>1 DEF RepliesIn
<1>3. \A i \in 1 .. Len(inbox) : inner.phase # "none" /\ inner.id = Answered + i
  <2>1. user.phase = "none"
    BY DEF NoCall
  <2> QED BY <1>2, <2>1 DEF Awaits
<1>4. Len(inbox) <= 1
  <2> SUFFICES ASSUME Len(inbox) >= 2
               PROVE  FALSE
    BY <1>1
  <2>1. 1 \in 1 .. Len(inbox) /\ 2 \in 1 .. Len(inbox)
    BY <1>1
  <2>2. inner.id = Answered + 1 /\ inner.id = Answered + 2
    BY <1>3, <2>1
  <2> QED BY <1>1, <2>2
<1>5. inner = NoCall => Len(inbox) = 0
  <2> SUFFICES ASSUME inner = NoCall, Len(inbox) >= 1
               PROVE  FALSE
    BY <1>1
  <2>1. 1 \in 1 .. Len(inbox)
    BY <1>1
  <2> QED BY <1>3, <2>1 DEF NoCall
<1> QED BY <1>4, <1>5

LEMMA VMAnswerStep ==
  ASSUME NEW ps, NEW all, Invariant(ps, all), VMAnswer
  PROVE  \E qs, new : Invariant(qs, new)'
<1>0. PICK p : p = Packet(Head(inbox).id, <<>>)
  OBVIOUS
<1> DEFINE n == Len(all)
           new == Append(all, p)
<1>1. /\ Types /\ Slots /\ Packets(ps, all)
      /\ EventsIn(all) /\ RepliesIn(all) /\ RepliesAhead(all) /\ OnePacketAtATime /\ Distinct
  BY DEF Invariant, RepliesIn
<1>2. /\ Answered \in Nat /\ events \in Nat /\ handled \in Nat /\ suspends \in Nat
      /\ nextId \in Nat /\ DOMAIN inbox = 1 .. Len(inbox) /\ inbox \in Seq(Request)
      /\ Len(inbox) \in Nat
  BY <1>1, Numbers
<1>3. /\ vm # "gone" /\ inbox # <<>> /\ wire' = wire \o Units(p) /\ inbox' = Tail(inbox)
      /\ UNCHANGED <<vm, events, ofConnector>>
  BY <1>0 DEF VMAnswer
<1>4. /\ UNCHANGED <<buffer, incompleteData, messagesReadyForProcessing, vmAlive, resumeRequest>>
      /\ UNCHANGED <<nextId, onReadyRead, slot, composite, current, inner, user>>
      /\ UNCHANGED <<connection, alone, handled>>
  BY <1>3 DEF ofConnector, calls
<1>5. Head(inbox) \in Request /\ Head(inbox) = inbox[1] /\ 1 \in DOMAIN inbox
  <2>1. Len(inbox) >= 1
    BY <1>2, <1>3, EmptySeq
  <2> QED BY <1>2, <2>1, ElementOfSeq
<1>6. p \in PacketSet /\ p.id = Head(inbox).id /\ ~IsEvent(p) /\ p.id \in Nat
  <2>1. Head(inbox).id \in Nat /\ <<>> \in Seq(Kind)
    BY <1>5 DEF Request
  <2> QED BY <1>0, <1>1, <2>1, PacketOf
<1>7. /\ suspends' \in Nat /\ suspends <= suspends' + 1
      /\ Head(inbox).command = "query" => suspends' = suspends
  BY <1>2 DEF VMAnswer
<1> HIDE DEF new, n
<1>8. Packets(Append(ps, p), new)' /\ More(all, n, p, new) /\ wire' \in Seq(Unit) /\ List(all, n)
  BY <1>1, <1>3, <1>4, <1>6, PacketsMore, ListOf DEF new, n
<1>9. (\A x : Awaits(x)' <=> Awaits(x)) /\ Distinct'
  BY <1>1, <1>4, CallsSame DEF calls
<1>10. EventsIn(new)'
  BY <1>1, <1>2, <1>3, <1>4, <1>6, <1>8, EventsMore
<1>11. RepliesIn(new)' /\ Answered' = Answered + 1 /\ p.id = Answered + 1
  BY <1>1, <1>2, <1>3, <1>4, <1>6, <1>8, <1>9, RepliesMore
<1>12. RepliesAhead(new)'
  <2>1. vm' \in {"starting", "up"} => events' <= suspends' + Answered'
    <3>1. vm \in {"starting", "up"} => events <= suspends + Answered
      BY <1>1 DEF RepliesAhead
    <3>2. vm' = vm /\ events' = events
      BY <1>3
    <3>3. events \in Nat /\ suspends \in Nat /\ Answered \in Nat
      BY <1>2
    <3>4. suspends' \in Nat /\ suspends <= suspends' + 1 /\ Answered' = Answered + 1
      BY <1>7, <1>11
    <3>5. \A e, a, m, k \in Nat : m <= k + 1 /\ e <= m + a => e <= k + (a + 1)
      OBVIOUS
    <3>6. events <= suspends + Answered => events <= suspends' + (Answered + 1)
      BY <3>3, <3>4, <3>5
    <3> QED BY <3>1, <3>2, <3>4, <3>6
  <2>2. vm' = "starting" => events' = 0
    BY <1>1, <1>3 DEF RepliesAhead
  <2> QED BY <1>1, <1>2, <1>6, <1>8, <1>11, <2>1, <2>2, AheadMore
<1>13. Types'
  <2>1. inbox' \in Seq(Request)
    BY <1>2, <1>3, HeadTailProperties
  <2> QED BY <1>1, <1>2, <1>3, <1>4, <1>7, <1>8, <2>1 DEF Types
<1>14. Slots'
  BY <1>1, <1>4 DEF Slots
<1>15. OnePacketAtATime'
  <2> SUFFICES ASSUME alone
               PROVE  OnePacketAtATime'
    BY <1>4 DEF OnePacketAtATime
  <2>1. user = NoCall /\ user' = NoCall
    BY <1>1, <1>4 DEF OnePacketAtATime
  <2>2. DOMAIN inbox' = {}
    <3>1. Len(inbox) = 1
      BY <1>1, <1>2, <1>3, <2>1, OneRequest, EmptySeq
    <3>2. Tail(inbox) \in Seq(Request) /\ Len(Tail(inbox)) = 0
      BY <1>2, <1>3, <3>1, HeadTailProperties
    <3>3. DOMAIN Tail(inbox) = 1 .. 0
      BY <3>2, LenProperties
    <3> QED BY <1>3, <3>3
  <2>3. CASE Head(inbox).command = "query"
    BY <1>1, <1>3, <1>4, <1>7, <2>1, <2>2, <2>3 DEF OnePacketAtATime
  <2>4. CASE Head(inbox).command # "query"
    <3>1. handled = events /\ slot = "resume"
      BY <1>1, <1>5, <2>4 DEF OnePacketAtATime
    <3>2. vm = "starting" => FALSE
      BY <1>1, <1>5, <2>4 DEF OnePacketAtATime
    <3>3. events' <= handled' + 1
      BY <1>2, <1>3, <1>4, <3>1
    <3> QED BY <1>3, <1>4, <2>1, <2>2, <3>1, <3>2, <3>3 DEF OnePacketAtATime
  <2> QED BY <2>3, <2>4
<1>16. Invariant(Append(ps, p), new)'
  BY <1>8, <1>10, <1>11, <1>12, <1>13, <1>14, <1>15 DEF Invariant
<1> QED BY <1>16

(* A call goes on. *)
LEMMA PhaseChanged ==
  ASSUME Types, Distinct, NEW ph \in {"none", "sending", "waiting", "returned"},
         ph = "none" <=> Calling.phase = "none",
         SetCalling([Calling EXCEPT !.phase = ph])
  PROVE  /\ inner' \in Call /\ user' \in Call /\ user'.id = user.id /\ inner'.id = inner.id
         /\ user = NoCall => user' = NoCall
         /\ slot # "idle" => user' = user
         /\ slot = "idle" => inner' = inner /\ user'.phase = ph
         /\ Distinct' /\ \A x : Awaits(x)' <=> Awaits(x)
<1>1. user \in Call /\ inner \in Call
  BY DEF Types
<1>2. CASE slot = "idle"
  <2>1. user' = [user EXCEPT !.phase = ph] /\ inner' = inner
    BY <1>2 DEF SetCalling, Calling
  <2>2. user' \in Call /\ user'.id = user.id /\ user'.phase = ph
    BY <1>1, <2>1 DEF Call
  <2>3. ph = "none" <=> user.phase = "none"
    BY <1>2 DEF Calling
  <2>4. user = NoCall => user' = NoCall
    BY <2>1, <2>3 DEF NoCall
  <2> QED BY <1>1, <1>2, <2>1, <2>2, <2>3, <2>4 DEF Distinct, Awaits
<1>3. CASE slot # "idle"
  <2>1. inner' = [inner EXCEPT !.phase = ph] /\ user' = user
    BY <1>3 DEF SetCalling, Calling
  <2>2. inner' \in Call /\ inner'.id = inner.id /\ inner'.phase = ph
    BY <1>1, <2>1 DEF Call
  <2>3. ph = "none" <=> inner.phase = "none"
    BY <1>3 DEF Calling
  <2> QED BY <1>1, <1>3, <2>1, <2>2, <2>3 DEF Distinct, Awaits
<1> QED BY <1>2, <1>3

(* A call ends. *)
LEMMA CallEnds ==
  ASSUME Types, Slots, Distinct, Calling.phase # "none", SetCalling(NoCall)
  PROVE  /\ inner' \in Call /\ user' \in Call
         /\ inner'.id <= nextId /\ user'.id <= nextId
         /\ user = NoCall => user' = NoCall
         /\ slot # "idle" => user' = user
         /\ slot = "idle" => inner' = inner /\ user'.phase = "none"
         /\ Distinct' /\ \A x \in Nat : Awaits(x)' <=> Awaits(x) /\ x # Calling.id
<1>1. user \in Call /\ inner \in Call /\ nextId \in Nat /\ user.id <= nextId /\ inner.id <= nextId
  BY DEF Types
<1>2. NoCall \in Call /\ NoCall.id <= nextId /\ NoCall.phase = "none"
  BY <1>1 DEF NoCall, Call
<1>3. CASE slot = "idle"
  <2>1. user' = NoCall /\ inner' = inner /\ Calling = user /\ inner.phase = "none"
    BY <1>2, <1>3 DEF SetCalling, Calling, Slots
  <2> QED BY <1>1, <1>2, <1>3, <2>1 DEF Distinct, Awaits
<1>4. CASE slot # "idle"
  <2>1. inner' = NoCall /\ user' = user /\ Calling = inner
    BY <1>4 DEF SetCalling, Calling
  <2> QED BY <1>1, <1>2, <1>4, <2>1 DEF Distinct, Awaits
<1> QED BY <1>3, <1>4

(* The first message with the id that a call waits for is its reply. *)
LEMMA FirstIsReply ==
  ASSUME NEW all, NEW n, List(all, n), RepliesIn(all), RepliesAhead(all), Answered \in Nat,
         NEW i \in 1 .. n, Awaits(all[i].id),
         \A k \in 1 .. n : k < i => all[k].id # all[i].id
  PROVE  ~IsEvent(all[i])
<1> SUFFICES ASSUME IsEvent(all[i])
             PROVE  FALSE
  OBVIOUS
<1>1. DOMAIN all = 1 .. n /\ n \in Nat /\ \A k \in 1 .. n : all[k].id \in Nat
  BY DEF List
<1>2. all[i].id <= Answered
  BY <1>1 DEF RepliesAhead
<1>3. PICK k \in 1 .. n : ~IsEvent(all[k]) /\ all[k].id = all[i].id
  BY <1>1, <1>2 DEF RepliesIn
<1>4. ~(i < k)
  BY <1>1, <1>3 DEF RepliesAhead
<1>5. ~(k < i)
  BY <1>3
<1>6. k = i
  BY <1>1, <1>4, <1>5
<1> QED BY <1>3, <1>6

LEMMA SearchStep ==
  ASSUME NEW ps, NEW all, Invariant(ps, all),
         NEW list \in Seq(PacketSet), NEW qs \in Seq(PacketSet), all = list \o qs,
         Calling.phase \in {"sending", "returned"}, Search(list),
         incompleteData' \in Seq(Unit), buffer' \in Seq(Unit),
         (Cut((incompleteData \o buffer) \o wire, Shake, qs))',
         onReadyRead = "readHandshake" =>
           /\ list = messagesReadyForProcessing
           /\ UNCHANGED <<incompleteData, buffer>>,
         UNCHANGED <<ofVM, nextId, ofSlot, connection, alone>>
  PROVE  \E rs, new : Invariant(rs, new)'
<1> DEFINE n == Len(all)
           found == {i \in DOMAIN list : list[i].id = Calling.id}
<1>1. /\ Types /\ Slots /\ Packets(ps, all)
      /\ EventsIn(all) /\ RepliesIn(all) /\ RepliesAhead(all) /\ OnePacketAtATime /\ Distinct
  BY DEF Invariant, RepliesIn
<1>2. /\ Answered \in Nat /\ events \in Nat /\ handled \in Nat /\ suspends \in Nat
      /\ nextId \in Nat /\ DOMAIN inbox = 1 .. Len(inbox) /\ inbox \in Seq(Request)
      /\ Len(inbox) \in Nat
  BY <1>1, Numbers
<1>3. /\ UNCHANGED <<vm, suspends, inbox, events, wire, nextId, connection, alone>>
      /\ UNCHANGED <<vmAlive, resumeRequest, onReadyRead, slot, composite, current, handled>>
  BY DEF ofVM, machine, ofSlot
<1>4. Answered' = Answered
  BY <1>3 DEF Answered
<1>5. /\ DOMAIN list = 1 .. Len(list) /\ Len(list) \in Nat /\ n \in Nat
      /\ \A k \in DOMAIN list : k \in 1 .. n /\ list[k] = all[k]
      /\ \A i \in DOMAIN list :
           /\ RemoveAt(list, i) \in Seq(PacketSet) /\ RemoveAt(all, i) \in Seq(PacketSet)
           /\ RemoveAt(all, i) = RemoveAt(list, i) \o qs
           /\ Less(all, n, i, RemoveAt(all, i))
  <2>1. FirstOf(list, qs, all)
    BY ReadyFirst
  <2> QED BY <2>1 DEF FirstOf
<1>6. List(all, n) /\ all \in Seq(PacketSet)
  BY <1>1, ListOf DEF Packets
<1>7. slot \notin {"readHandshake", "dispatchEvents"}
  BY <1>1 DEF Slots, Calling, NoCall
<1>8. alone => user = NoCall /\ slot # "idle"
  BY <1>1 DEF OnePacketAtATime, Calling, NoCall
<1> HIDE DEF n
<1>9. ASSUME /\ inner' \in Call /\ user' \in Call /\ inner'.id <= nextId /\ user'.id <= nextId
             /\ slot # "idle" => user' = user
             /\ slot = "idle" => inner' = inner /\ user'.phase # "returned",
             messagesReadyForProcessing' \in Seq(PacketSet),
             onReadyRead = "readHandshake" => messagesReadyForProcessing' = <<>>
      PROVE  Types' /\ Slots' /\ OnePacketAtATime'
  <2>1. Types'
    BY <1>1, <1>3, <1>9 DEF Types
  <2>2. Slots'
    <3>1. onReadyRead = "readHandshake" => slot = "idle" /\ buffer' = <<>> /\ incompleteData' = <<>>
      BY <1>1, <1>7 DEF Slots
    <3> QED BY <1>1, <1>3, <1>7, <1>9, <3>1 DEF Slots
  <2>3. OnePacketAtATime'
    BY <1>1, <1>3, <1>8, <1>9 DEF OnePacketAtATime
  <2> QED BY <2>1, <2>2, <2>3
<1>10. CASE found = {}
  <2>1. messagesReadyForProcessing' = list /\ SetCalling([Calling EXCEPT !.phase = "waiting"])
    BY <1>10 DEF Search
  <2>2. /\ inner' \in Call /\ user' \in Call /\ user'.id = user.id /\ inner'.id = inner.id
        /\ slot # "idle" => user' = user
        /\ slot = "idle" => inner' = inner /\ user'.phase = "waiting"
        /\ Distinct' /\ \A x : Awaits(x)' <=> Awaits(x)
    BY <1>1, <2>1, PhaseChanged
  <2>3. EventsIn(all)' /\ RepliesIn(all)' /\ RepliesAhead(all)'
    BY <1>1, <1>3, <1>4, <2>2, EventsSame, RepliesSame, AheadSame
  <2>4. Packets(qs, all)'
    BY <1>6, <2>1 DEF Packets
  <2>5. onReadyRead = "readHandshake" => list = <<>>
    BY <1>1 DEF Slots
  <2>6. user.id <= nextId /\ inner.id <= nextId
    BY <1>1 DEF Types
  <2>7. Types' /\ Slots' /\ OnePacketAtATime'
    BY <1>9, <2>1, <2>2, <2>5, <2>6
  <2>8. Invariant(qs, all)'
    BY <2>3, <2>4, <2>7 DEF Invariant
  <2> QED BY <2>8
<1>11. CASE found # {}
  <2>1. PICK i : i = Min(found)
    OBVIOUS
  <2>2. i \in DOMAIN list /\ list[i].id = Calling.id /\ \A k \in found : i <= k
    <3>1. found \in SUBSET Nat
      BY <1>5
    <3>2. i \in found /\ \A k \in found : i <= k
      <4> HIDE DEF found
      <4> QED BY <1>11, <2>1, <3>1, LeastElement
    <3> QED BY <3>2
  <2>3. i \in 1 .. n /\ all[i].id = Calling.id
    BY <1>5, <2>2
  <2>4. \A k \in 1 .. n : k < i => all[k].id # all[i].id
    <3> SUFFICES ASSUME NEW k \in 1 .. n, k < i, all[k].id = all[i].id
                 PROVE  FALSE
      OBVIOUS
    <3>1. k \in DOMAIN list
      BY <1>5, <2>2
    <3>2. k \in found
      BY <1>5, <2>3, <3>1
    <3>3. i <= k
      BY <2>2, <3>2
    <3>4. i \in Nat /\ k \in Nat
      BY <1>5, <2>2
    <3> QED BY <3>3, <3>4
  <2>5. Awaits(all[i].id)
    BY <2>3 DEF Calling, Awaits
  <2>6. ~IsEvent(all[i])
    BY <1>1, <1>2, <1>6, <2>3, <2>4, <2>5, FirstIsReply
  <2>7. messagesReadyForProcessing' = RemoveAt(list, i) /\ SetCalling(NoCall)
    BY <1>11, <2>1 DEF Search, Without
  <2>8. /\ inner' \in Call /\ user' \in Call
        /\ inner'.id <= nextId /\ user'.id <= nextId
        /\ slot # "idle" => user' = user
        /\ slot = "idle" => inner' = inner /\ user'.phase = "none"
        /\ Distinct' /\ \A x \in Nat : Awaits(x)' <=> Awaits(x) /\ x # Calling.id
    BY <1>1, <2>7, CallEnds
  <2>9. PICK new : new = RemoveAt(all, i)
    OBVIOUS
  <2>10. Less(all, n, i, new) /\ new \in Seq(PacketSet) /\ new = messagesReadyForProcessing' \o qs
         /\ messagesReadyForProcessing' \in Seq(PacketSet)
    BY <1>5, <2>2, <2>7, <2>9
  <2>11. EventsIn(new)'
    BY <1>1, <1>2, <1>3, <1>6, <2>6, <2>10, EventsLess
  <2>12. \A x \in Nat : Awaits(x)' <=> Awaits(x) /\ (IsEvent(all[i]) \/ x # all[i].id)
    BY <2>3, <2>6, <2>8
  <2>13. RepliesIn(new)'
    BY <1>1, <1>2, <1>3, <1>6, <2>8, <2>10, <2>12, RepliesLess
  <2>14. RepliesAhead(new)'
    BY <1>1, <1>3, <1>4, <1>6, <2>10, AheadLess
  <2>15. Packets(qs, new)'
    BY <2>10 DEF Packets
  <2>16. onReadyRead # "readHandshake"
    <3> SUFFICES ASSUME onReadyRead = "readHandshake"
                 PROVE  FALSE
      OBVIOUS
    <3>1. list = <<>>
      BY <1>1 DEF Slots
    <3> QED BY <1>5, <2>2, <3>1
  <2>17. Types' /\ Slots' /\ OnePacketAtATime'
    BY <1>9, <2>8, <2>10, <2>16
  <2>18. Invariant(qs, new)'
    BY <2>11, <2>13, <2>14, <2>15, <2>17 DEF Invariant
  <2> QED BY <2>18
<1> QED BY <1>10, <1>11

LEMMA SentStep ==
  ASSUME NEW ps, NEW all, Invariant(ps, all), Sent
  PROVE  \E qs, new : Invariant(qs, new)'
<1>1. PICK list \in Seq(PacketSet) : list = messagesReadyForProcessing
  BY DEF Invariant, Types
<1>2. ps \in Seq(PacketSet) /\ all = list \o ps /\ Cut((incompleteData \o buffer) \o wire, Shake, ps)
  BY <1>1 DEF Invariant, Packets
<1>3. /\ Calling.phase = "sending" /\ Search(list)
      /\ UNCHANGED <<ofVM, buffer, incompleteData, nextId, ofSlot, connection, alone>>
  BY <1>1 DEF Sent
<1>4. UNCHANGED <<wire, onReadyRead, buffer, incompleteData>>
  BY <1>3 DEF ofVM, ofSlot
<1>5. incompleteData' \in Seq(Unit) /\ buffer' \in Seq(Unit)
  BY <1>4 DEF Invariant, Types
<1>6. (Cut((incompleteData \o buffer) \o wire, Shake, ps))'
  BY <1>2, <1>4 DEF Shake
<1>7. UNCHANGED <<ofVM, nextId, ofSlot, connection, alone>> /\ UNCHANGED <<incompleteData, buffer>>
  BY <1>3
<1> QED BY <1>1, <1>2, <1>3, <1>5, <1>6, <1>7, SearchStep

LEMMA WaitReturnsStep ==
  ASSUME NEW ps, NEW all, Invariant(ps, all), WaitReturns
  PROVE  \E qs, new : Invariant(qs, new)'
<1>1. /\ Calling.phase = "returned" /\ ReadFromSocket /\ Search(Ready)
      /\ UNCHANGED <<ofVM, nextId, ofSlot, connection, alone>>
  BY DEF WaitReturns
<1>2. Types /\ Slots /\ Packets(ps, all)
  BY DEF Invariant
<1>3. onReadyRead = "dispatchEvents"
  BY <1>1, <1>2 DEF Types, Slots, Calling, NoCall
<1>4. PICK list \in Seq(PacketSet) : list = Ready
  BY <1>2, <1>3, Read
<1>5. PICK qs \in Seq(PacketSet) : Cut(Rest(Data) \o wire, 0, qs) /\ all = Ready \o qs
  BY <1>2, <1>3, Read
<1>6. incompleteData' = Rest(Data) /\ buffer' = <<>> /\ wire' = wire /\ onReadyRead' = onReadyRead
  BY <1>1 DEF ReadFromSocket, ofVM, ofSlot
<1>7. incompleteData' \in Seq(Unit) /\ buffer' \in Seq(Unit)
  <2>1. Rest(Data) \in Seq(Unit)
    BY <1>2, <1>3, Read
  <2> QED BY <1>6, <2>1
<1>8. (Cut((incompleteData \o buffer) \o wire, Shake, qs))'
  <2>1. Rest(Data) \o <<>> = Rest(Data)
    <3>1. Rest(Data) \in Seq(Unit)
      BY <1>2, <1>3, Read
    <3> QED BY <3>1, ConcatEmptySeq
  <2>2. (incompleteData' \o buffer') \o wire' = Rest(Data) \o wire
    BY <1>6, <2>1
  <2>3. Shake' = 0
    BY <1>3, <1>6 DEF Shake
  <2> QED BY <1>5, <2>2, <2>3
<1>9. all = list \o qs /\ Search(list) /\ Calling.phase \in {"sending", "returned"}
  BY <1>1, <1>4, <1>5
<1> QED BY <1>1, <1>3, <1>7, <1>8, <1>9, SearchStep

(* waitForReadyRead() does not give up before the handshake: it has arrived. *)
LEMMA TimeoutStep ==
  ASSUME NEW ps, NEW all, Invariant(ps, all), Timeout
  PROVE  \E qs, new : Invariant(qs, new)'
<1>1. /\ Types /\ Slots /\ Packets(ps, all)
      /\ EventsIn(all) /\ RepliesIn(all) /\ RepliesAhead(all) /\ OnePacketAtATime /\ Distinct
  BY DEF Invariant, RepliesIn
<1>2. /\ Calling.phase = "waiting" /\ wire = <<>> /\ SetCalling([Calling EXCEPT !.phase = "returned"])
      /\ UNCHANGED <<vm, suspends, inbox, events, wire, nextId, connection, alone>>
      /\ UNCHANGED <<vmAlive, resumeRequest, onReadyRead, slot, composite, current, handled>>
      /\ UNCHANGED <<buffer, incompleteData, messagesReadyForProcessing>>
  BY DEF Timeout, ofVM, machine, ofSlot
<1>3. /\ inner' \in Call /\ user' \in Call /\ user'.id = user.id /\ inner'.id = inner.id
      /\ user = NoCall => user' = NoCall
      /\ slot # "idle" => user' = user
      /\ slot = "idle" => inner' = inner
      /\ Distinct' /\ \A x : Awaits(x)' <=> Awaits(x)
  BY <1>1, <1>2, PhaseChanged
<1>4. Answered' = Answered
  BY <1>2 DEF Answered
<1>5. Packets(ps, all)' /\ EventsIn(all)' /\ RepliesIn(all)' /\ RepliesAhead(all)'
  BY <1>1, <1>2, <1>3, <1>4, PacketsSame, EventsSame, RepliesSame, AheadSame
<1>6. slot \notin {"readHandshake", "dispatchEvents"}
  BY <1>1, <1>2 DEF Slots, Calling, NoCall
<1>7. onReadyRead = "dispatchEvents"
  <2> SUFFICES ASSUME onReadyRead = "readHandshake"
               PROVE  FALSE
    BY <1>1 DEF Types
  <2>1. buffer = <<>> /\ incompleteData = <<>>
    BY <1>1, <1>6 DEF Slots
  <2>2. Cut((<<>> \o <<>>) \o <<>>, 1, ps) /\ ps \in Seq(PacketSet)
    BY <1>1, <1>2, <2>1 DEF Packets, Shake
  <2>3. Len((<<>> \o <<>>) \o <<>>) = 0
    OBVIOUS
  <2>4. Len(ps) \in Nat /\ Len((<<>> \o <<>>) \o <<>>) = 1 + 2 * Len(ps)
    BY <2>2, LenProperties DEF Cut
  <2> QED BY <2>3, <2>4
<1>8. Types'
  BY <1>1, <1>2, <1>3 DEF Types
<1>9. Slots'
  BY <1>1, <1>2, <1>3, <1>6, <1>7 DEF Slots
<1>10. OnePacketAtATime'
  BY <1>1, <1>2, <1>3 DEF OnePacketAtATime
<1>11. Invariant(ps, all)'
  BY <1>5, <1>8, <1>9, <1>10 DEF Invariant
<1> QED BY <1>11

LEMMA ArriveStep ==
  ASSUME NEW ps, NEW all, Invariant(ps, all), Arrive
  PROVE  \E qs, new : Invariant(qs, new)'
<1>1. /\ Types /\ Slots /\ Packets(ps, all)
      /\ EventsIn(all) /\ RepliesIn(all) /\ RepliesAhead(all) /\ OnePacketAtATime /\ Distinct
  BY DEF Invariant, RepliesIn
<1>2. PICK k \in 1 .. Len(wire) :
        buffer' = buffer \o SubSeq(wire, 1, k) /\ wire' = SubSeq(wire, k + 1, Len(wire))
  BY DEF Arrive
<1>3. /\ UNCHANGED <<vm, suspends, inbox, events, nextId, connection, alone>>
      /\ UNCHANGED <<vmAlive, resumeRequest, onReadyRead, composite, current, handled>>
      /\ UNCHANGED <<incompleteData, messagesReadyForProcessing>>
  BY DEF Arrive, machine
<1>4. /\ (slot = "idle" /\ user = NoCall) \/ Calling.phase \in {"sending", "waiting"}
      /\ slot' = IF slot = "idle" THEN onReadyRead ELSE slot
  BY DEF Arrive
<1>5. PICK ph : ph = IF Calling.phase = "waiting" THEN "returned" ELSE Calling.phase
  OBVIOUS
<1>6. SetCalling([Calling EXCEPT !.phase = ph])
  BY <1>5 DEF Arrive
<1>7. ph \in {"none", "sending", "waiting", "returned"} /\ (ph = "none" <=> Calling.phase = "none")
  BY <1>1, <1>5 DEF Types, Calling, Call
<1>8. /\ inner' \in Call /\ user' \in Call /\ user'.id = user.id /\ inner'.id = inner.id
      /\ user = NoCall => user' = NoCall
      /\ slot # "idle" => user' = user
      /\ slot = "idle" => inner' = inner
      /\ Distinct' /\ \A x : Awaits(x)' <=> Awaits(x)
  BY <1>1, <1>6, <1>7, PhaseChanged
<1>9. Answered' = Answered
  BY <1>3 DEF Answered
<1>10. Packets(ps, all)' /\ buffer' \in Seq(Unit) /\ wire' \in Seq(Unit) /\ buffer' # <<>>
  BY <1>1, <1>2, <1>3, PacketsArrive
<1>11. EventsIn(all)' /\ RepliesIn(all)' /\ RepliesAhead(all)'
  BY <1>1, <1>3, <1>8, <1>9, EventsSame, RepliesSame, AheadSame
<1>12. slot # "idle" => slot \notin {"readHandshake", "dispatchEvents"}
  BY <1>1, <1>4 DEF Slots, Calling, NoCall
<1>13. Types'
  BY <1>1, <1>3, <1>4, <1>8, <1>10 DEF Types
<1>14. Slots'
  <2>1. CASE slot = "idle"
    <3>1. inner' = NoCall /\ slot' = onReadyRead /\ onReadyRead \in {"readHandshake", "dispatchEvents"}
      BY <1>1, <1>4, <1>8, <2>1 DEF Slots, Types
    <3> QED BY <1>1, <1>3, <1>10, <2>1, <3>1 DEF Slots
  <2>2. CASE slot # "idle"
    <3>1. slot' = slot /\ onReadyRead # "readHandshake"
      BY <1>1, <1>4, <1>12, <2>2 DEF Slots
    <3> QED BY <1>1, <1>3, <1>12, <2>2, <3>1 DEF Slots
  <2> QED BY <2>1, <2>2
<1>15. OnePacketAtATime'
  <2>1. (slot' = "resume" <=> slot = "resume") /\ (slot' = "listener" <=> slot = "listener")
    BY <1>1, <1>4 DEF Types
  <2> QED BY <1>1, <1>3, <1>8, <2>1 DEF OnePacketAtATime
<1>16. Invariant(ps, all)'
  BY <1>10, <1>11, <1>13, <1>14, <1>15 DEF Invariant
<1> QED BY <1>16

(* A request is sent, by the user or by a slot. *)
LEMMA RequestSent ==
  ASSUME Types, NEW all, EventsIn(all), RepliesIn(all), RepliesAhead(all),
         NEW command \in Command, NEW cause \in Nat, Send(command, cause),
         \/ inner = NoCall /\ inner' = NewCall /\ user' = user
         \/ user = NoCall /\ user' = NewCall /\ inner' = inner,
         UNCHANGED <<vm, suspends, events, handled>>
  PROVE  /\ EventsIn(all)' /\ RepliesIn(all)' /\ RepliesAhead(all)'
         /\ inbox' \in Seq(Request) /\ nextId' \in Nat
         /\ DOMAIN inbox' = 1 .. Len(inbox) + 1
         /\ \A i \in 1 .. Len(inbox) : inbox'[i] = inbox[i]
         /\ inbox'[Len(inbox) + 1].command = command /\ inbox'[Len(inbox) + 1].cause = cause
         /\ inner' \in Call /\ user' \in Call /\ inner'.id <= nextId' /\ user'.id <= nextId'
<1>1. /\ Answered \in Nat /\ nextId \in Nat /\ inbox \in Seq(Request) /\ Len(inbox) \in Nat
      /\ user \in Call /\ inner \in Call /\ user.id \in Nat /\ inner.id \in Nat
  BY Numbers
<1>2. user.id <= nextId /\ inner.id <= nextId
  BY DEF Types
<1>3. PICK r : r = [id |-> nextId + 1, command |-> command, cause |-> cause]
  OBVIOUS
<1>4. r \in Request /\ r.id = nextId + 1 /\ r.command = command /\ r.cause = cause
  BY <1>1, <1>3 DEF Request
<1>5. inbox' = Append(inbox, r) /\ nextId' = nextId + 1
  BY <1>3 DEF Send, NewId
<1>6. /\ Append(inbox, r) \in Seq(Request) /\ Len(Append(inbox, r)) = Len(inbox) + 1
      /\ \A i \in 1 .. Len(inbox) : Append(inbox, r)[i] = inbox[i]
      /\ Append(inbox, r)[Len(inbox) + 1] = r
  BY <1>1, <1>4, AppendProperties
<1>7. DOMAIN Append(inbox, r) = 1 .. Len(inbox) + 1
  BY <1>6, LenProperties
<1>8. NewCall \in Call /\ NewCall.id = nextId + 1 /\ NewCall.phase = "sending"
  BY <1>1 DEF NewCall, NewId, Call
<1>9. inner' \in Call /\ user' \in Call /\ inner'.id <= nextId' /\ user'.id <= nextId'
  BY <1>1, <1>2, <1>5, <1>8
<1>10. Distinct' /\ \A x : Awaits(x)' <=> Awaits(x) \/ x = nextId + 1
  <2>1. NoCall.phase = "none"
    BY DEF NoCall
  <2> QED BY <1>1, <1>2, <1>8, <2>1 DEF Distinct, Awaits
<1>11. RepliesIn(all)' /\ Answered' = Answered
  BY <1>1, <1>4, <1>5, <1>10, RepliesSent
<1>12. EventsIn(all)' /\ RepliesAhead(all)'
  BY <1>11, EventsSame, AheadSame
<1> QED BY <1>1, <1>4, <1>5, <1>6, <1>7, <1>9, <1>11, <1>12

(* A slot asks the VM for something. *)
LEMMA Asked ==
  ASSUME Types, OnePacketAtATime, Len(inbox) \in Nat, DOMAIN inbox = 1 .. Len(inbox),
         DOMAIN inbox' = 1 .. Len(inbox) + 1,
         \A i \in 1 .. Len(inbox) : inbox'[i] = inbox[i],
         inbox'[Len(inbox) + 1].command = "query", inbox'[Len(inbox) + 1].cause = 0,
         UNCHANGED <<vm, suspends, events, handled, user, alone>>,
         slot' = slot \/ (slot \notin {"listener", "resume"} /\ slot' # "listener")
  PROVE  OnePacketAtATime'
<1> SUFFICES ASSUME alone
             PROVE  OnePacketAtATime'
  BY DEF OnePacketAtATime
<1>1. \A i \in DOMAIN inbox' : i \in DOMAIN inbox \/ i = Len(inbox) + 1
  OBVIOUS
<1>2. slot = "resume" => slot' = "resume"
  OBVIOUS
<1>3. ASSUME NEW i \in DOMAIN inbox'
      PROVE  \/ inbox'[i].cause = 0 /\ inbox'[i].command = "query"
             \/ /\ inbox'[i].cause = events' /\ inbox'[i].command = "resume"
                /\ handled' = events' /\ slot' = "resume"
  BY <1>1, <1>2 DEF OnePacketAtATime
<1>4. suspends = 0 /\ vm \in {"starting", "up"} =>
        \A i \in DOMAIN inbox' : inbox'[i].command = "query"
  BY <1>1 DEF OnePacketAtATime
<1>5. slot' = "listener" <=> slot = "listener"
  OBVIOUS
<1> QED BY <1>3, <1>4, <1>5 DEF OnePacketAtATime

LEMMA UserRequestStep ==
  ASSUME NEW ps, NEW all, Invariant(ps, all), UserRequest
  PROVE  \E qs, new : Invariant(qs, new)'
<1>1. /\ Types /\ Slots /\ Packets(ps, all)
      /\ EventsIn(all) /\ RepliesIn(all) /\ RepliesAhead(all) /\ OnePacketAtATime
  BY DEF Invariant
<1>2. PICK c \in UserCommand : Send(c, 0)
  BY DEF UserRequest
<1>3. c \in Command
  BY ConnectorAssumption
<1>4. /\ UNCHANGED <<vm, suspends, events, wire, connection, inner>>
      /\ UNCHANGED <<vmAlive, resumeRequest, onReadyRead, slot, composite, current, handled>>
      /\ UNCHANGED <<buffer, incompleteData, messagesReadyForProcessing>>
      /\ slot = "idle" /\ user = NoCall /\ user' = NewCall /\ alone' = FALSE
  BY DEF UserRequest, stream, ofSlot
<1>5. /\ EventsIn(all)' /\ RepliesIn(all)' /\ RepliesAhead(all)'
      /\ inbox' \in Seq(Request) /\ nextId' \in Nat
      /\ inner' \in Call /\ user' \in Call /\ inner'.id <= nextId' /\ user'.id <= nextId'
  BY <1>1, <1>2, <1>3, <1>4, RequestSent
<1>6. Packets(ps, all)'
  BY <1>1, <1>4, PacketsSame
<1>7. Types'
  BY <1>1, <1>4, <1>5 DEF Types
<1>8. Slots'
  BY <1>1, <1>4 DEF Slots, NewCall
<1>9. OnePacketAtATime'
  BY <1>4 DEF OnePacketAtATime
<1>10. Invariant(ps, all)'
  BY <1>5, <1>6, <1>7, <1>8, <1>9 DEF Invariant
<1> QED BY <1>10

LEMMA CheckIdSizesStep ==
  ASSUME NEW ps, NEW all, Invariant(ps, all), CheckIdSizes
  PROVE  \E qs, new : Invariant(qs, new)'
<1>1. /\ Types /\ Slots /\ Packets(ps, all)
      /\ EventsIn(all) /\ RepliesIn(all) /\ RepliesAhead(all) /\ OnePacketAtATime
  BY DEF Invariant
<1>2. /\ UNCHANGED <<vm, suspends, events, wire, connection, user, alone>>
      /\ UNCHANGED <<vmAlive, resumeRequest, onReadyRead, composite, current, handled>>
      /\ UNCHANGED <<buffer, incompleteData, messagesReadyForProcessing>>
      /\ slot = "checkVersion" /\ slot' = "checkIdSizes" /\ inner = NoCall /\ inner' = NewCall
      /\ Send("query", 0)
  BY DEF CheckIdSizes, SendInner, stream
<1>3. "query" \in Command
  BY DEF Command
<1>4. /\ EventsIn(all)' /\ RepliesIn(all)' /\ RepliesAhead(all)'
      /\ inbox' \in Seq(Request) /\ nextId' \in Nat
      /\ DOMAIN inbox' = 1 .. Len(inbox) + 1
      /\ \A i \in 1 .. Len(inbox) : inbox'[i] = inbox[i]
      /\ inbox'[Len(inbox) + 1].command = "query" /\ inbox'[Len(inbox) + 1].cause = 0
      /\ inner' \in Call /\ user' \in Call /\ inner'.id <= nextId' /\ user'.id <= nextId'
  BY <1>1, <1>2, <1>3, RequestSent
<1>5. Packets(ps, all)'
  BY <1>1, <1>2, PacketsSame
<1>6. Types'
  BY <1>1, <1>2, <1>4 DEF Types
<1>7. Slots'
  BY <1>1, <1>2 DEF Slots
<1>8. OnePacketAtATime'
  <2>1. Len(inbox) \in Nat /\ DOMAIN inbox = 1 .. Len(inbox)
    BY <1>1, Numbers
  <2> QED BY <1>1, <1>2, <1>4, <2>1, Asked
<1>9. Invariant(ps, all)'
  BY <1>4, <1>5, <1>6, <1>7, <1>8 DEF Invariant
<1> QED BY <1>9

LEMMA ListenerRequestStep ==
  ASSUME NEW ps, NEW all, Invariant(ps, all), ListenerRequest
  PROVE  \E qs, new : Invariant(qs, new)'
<1>1. /\ Types /\ Slots /\ Packets(ps, all)
      /\ EventsIn(all) /\ RepliesIn(all) /\ RepliesAhead(all) /\ OnePacketAtATime
  BY DEF Invariant
<1>2. /\ UNCHANGED <<vm, suspends, events, wire, connection, user, alone>>
      /\ UNCHANGED <<vmAlive, resumeRequest, onReadyRead, slot, composite, current, handled>>
      /\ UNCHANGED <<buffer, incompleteData, messagesReadyForProcessing>>
      /\ slot = "listener" /\ inner = NoCall /\ inner' = NewCall /\ Send("query", 0)
  BY DEF ListenerRequest, SendInner, stream, ofSlot
<1>3. "query" \in Command
  BY DEF Command
<1>4. /\ EventsIn(all)' /\ RepliesIn(all)' /\ RepliesAhead(all)'
      /\ inbox' \in Seq(Request) /\ nextId' \in Nat
      /\ DOMAIN inbox' = 1 .. Len(inbox) + 1
      /\ \A i \in 1 .. Len(inbox) : inbox'[i] = inbox[i]
      /\ inbox'[Len(inbox) + 1].command = "query" /\ inbox'[Len(inbox) + 1].cause = 0
      /\ inner' \in Call /\ user' \in Call /\ inner'.id <= nextId' /\ user'.id <= nextId'
  BY <1>1, <1>2, <1>3, RequestSent
<1>5. Packets(ps, all)'
  BY <1>1, <1>2, PacketsSame
<1>6. Types'
  BY <1>1, <1>2, <1>4 DEF Types
<1>7. Slots'
  BY <1>1, <1>2 DEF Slots
<1>8. OnePacketAtATime'
  <2>1. Len(inbox) \in Nat /\ DOMAIN inbox = 1 .. Len(inbox)
    BY <1>1, Numbers
  <2> QED BY <1>1, <1>2, <1>4, <2>1, Asked
<1>9. Invariant(ps, all)'
  BY <1>4, <1>5, <1>6, <1>7, <1>8 DEF Invariant
<1> QED BY <1>9

LEMMA ReadHandshakeStep ==
  ASSUME NEW ps, NEW all, Invariant(ps, all), ReadHandshake
  PROVE  \E qs, new : Invariant(qs, new)'
<1>1. /\ Types /\ Slots /\ Packets(ps, all)
      /\ EventsIn(all) /\ RepliesIn(all) /\ RepliesAhead(all) /\ OnePacketAtATime
  BY DEF Invariant
<1>2. /\ UNCHANGED <<vm, suspends, events, wire, connection, user, alone>>
      /\ UNCHANGED <<vmAlive, resumeRequest, composite, current, handled>>
      /\ slot = "readHandshake" /\ slot' = "checkVersion" /\ buffer' = <<>>
      /\ onReadyRead' = "dispatchEvents"
      /\ inner' = NewCall /\ Send("query", 0)
  BY DEF ReadHandshake, SendInner
<1>3. /\ inner = NoCall /\ onReadyRead = "readHandshake" /\ buffer # <<>>
      /\ messagesReadyForProcessing = <<>> /\ incompleteData = <<>>
  BY <1>1, <1>2 DEF Slots
<1>4. PICK b \in Seq(Unit), w \in Seq(Unit), list \in Seq(PacketSet) :
        b = buffer /\ w = wire /\ list = messagesReadyForProcessing
  BY <1>1 DEF Types
<1>5. ps \in Seq(PacketSet) /\ all \in Seq(PacketSet) /\ all = list \o ps
  BY <1>1, <1>4 DEF Packets
<1>6. Cut(b \o w, 1, ps)
  <2>1. Cut((<<>> \o b) \o w, 1, ps)
    BY <1>1, <1>3, <1>4 DEF Packets, Shake
  <2>2. <<>> \o b = b
    BY ConcatEmptySeq
  <2> QED BY <2>1, <2>2
<1>7. PICK d : d = Tail(b)
  OBVIOUS
<1>8. d \in Seq(Unit) /\ Cut(d \o w, 0, ps)
  <2>1. Tail(b) \in Seq(Unit) /\ Cut(Tail(b) \o w, 0, ps)
    BY <1>3, <1>4, <1>5, <1>6, HandshakeRead
  <2> QED BY <1>7, <2>1
<1>9. ReadFrom(d, w, list, ps)
  BY <1>5, <1>8, OneRead
<1>10. PICK qs \in Seq(PacketSet) : Cut(Rest(d) \o w, 0, qs) /\ WithNext(list, d) \o qs = all
  BY <1>5, <1>9 DEF ReadFrom
<1>11. incompleteData' = Rest(d) /\ messagesReadyForProcessing' = WithNext(list, d)
  <2>1. CASE d # <<>>
    BY <1>4, <1>7, <2>1 DEF ReadHandshake, BehindHandshake
  <2>2. CASE d = <<>>
    <3>1. ~Whole(d)
      BY <2>2 DEF Whole
    <3>2. Rest(d) = <<>> /\ WithNext(list, d) = list
      BY <2>2, <3>1 DEF Rest, WithNext
    <3>3. incompleteData' = incompleteData /\ messagesReadyForProcessing' = messagesReadyForProcessing
      BY <1>4, <1>7, <2>2 DEF ReadHandshake, BehindHandshake
    <3> QED BY <1>3, <1>4, <3>2, <3>3
  <2> QED BY <2>1, <2>2
<1>12. Rest(d) \in Seq(Unit) /\ WithNext(list, d) \in Seq(PacketSet)
  BY <1>9 DEF ReadFrom
<1>13. Packets(qs, all)'
  <2>1. Rest(d) \o <<>> = Rest(d)
    BY <1>12, ConcatEmptySeq
  <2>2. (incompleteData' \o buffer') \o wire' = Rest(d) \o w
    BY <1>2, <1>4, <1>11, <2>1
  <2>3. Shake' = 0
    BY <1>2 DEF Shake
  <2>4. (Cut((incompleteData \o buffer) \o wire, Shake, qs))'
    BY <1>10, <2>2, <2>3
  <2>5. all = messagesReadyForProcessing' \o qs
    BY <1>10, <1>11
  <2> QED BY <1>5, <2>4, <2>5 DEF Packets
<1>14. "query" \in Command
  BY DEF Command
<1>15. /\ EventsIn(all)' /\ RepliesIn(all)' /\ RepliesAhead(all)'
       /\ inbox' \in Seq(Request) /\ nextId' \in Nat
       /\ DOMAIN inbox' = 1 .. Len(inbox) + 1
       /\ \A i \in 1 .. Len(inbox) : inbox'[i] = inbox[i]
       /\ inbox'[Len(inbox) + 1].command = "query" /\ inbox'[Len(inbox) + 1].cause = 0
       /\ inner' \in Call /\ user' \in Call /\ inner'.id <= nextId' /\ user'.id <= nextId'
  BY <1>1, <1>2, <1>3, <1>14, RequestSent
<1>16. Types'
  <2>1. buffer' \in Seq(Unit)
    BY <1>2
  <2> QED BY <1>1, <1>2, <1>11, <1>12, <1>15, <2>1 DEF Types
<1>17. Slots'
  BY <1>1, <1>2 DEF Slots
<1>18. OnePacketAtATime'
  <2>1. Len(inbox) \in Nat /\ DOMAIN inbox = 1 .. Len(inbox)
    BY <1>1, Numbers
  <2> QED BY <1>1, <1>2, <1>15, <2>1, Asked
<1>19. Invariant(qs, all)'
  BY <1>13, <1>15, <1>16, <1>17, <1>18 DEF Invariant
<1> QED BY <1>19

(* The events are handled one after the other. *)
LEMMA DispatchEventsStep ==
  ASSUME NEW ps, NEW all, Invariant(ps, all), DispatchEvents
  PROVE  \E qs, new : Invariant(qs, new)'
<1> DEFINE n == Len(all)
           found == {i \in DOMAIN Ready : IsEvent(Ready[i])}
<1>1. /\ Types /\ Slots /\ Packets(ps, all)
      /\ EventsIn(all) /\ RepliesIn(all) /\ RepliesAhead(all) /\ OnePacketAtATime /\ Distinct
  BY DEF Invariant, RepliesIn
<1>2. /\ UNCHANGED <<vm, suspends, inbox, events, wire, nextId, onReadyRead, inner, user>>
      /\ UNCHANGED <<connection, alone>>
      /\ slot \in {"dispatchEvents", "checkIdSizes", "resume"} /\ inner = NoCall
      /\ ReadFromSocket
  BY DEF DispatchEvents, ofVM, machine, calls
<1>3. onReadyRead = "dispatchEvents"
  BY <1>1, <1>2 DEF Types, Slots
<1>4. PICK list \in Seq(PacketSet) : list = Ready
  BY <1>1, <1>3, Read
<1>5. PICK qs \in Seq(PacketSet) : Cut(Rest(Data) \o wire, 0, qs) /\ all = Ready \o qs
  BY <1>1, <1>3, Read
<1>6. Rest(Data) \in Seq(Unit)
  BY <1>1, <1>3, Read
<1>7. incompleteData' \in Seq(Unit) /\ buffer' \in Seq(Unit)
  BY <1>2, <1>6 DEF ReadFromSocket
<1>8. all = list \o qs /\ all \in Seq(PacketSet) /\ List(all, n)
  BY <1>1, <1>4, <1>5, ListOf DEF Packets
<1>9. FirstOf(list, qs, all)
  BY <1>8, ReadyFirst
<1>10. /\ DOMAIN list = 1 .. Len(list) /\ Len(list) \in Nat /\ n \in Nat
       /\ \A k \in DOMAIN list : k \in 1 .. n /\ list[k] = all[k]
       /\ \A i \in DOMAIN list :
            /\ RemoveAt(list, i) \in Seq(PacketSet) /\ RemoveAt(all, i) \in Seq(PacketSet)
            /\ RemoveAt(all, i) = RemoveAt(list, i) \o qs
            /\ Less(all, n, i, RemoveAt(all, i))
  BY <1>9 DEF FirstOf
<1>11. /\ Answered \in Nat /\ events \in Nat /\ handled \in Nat /\ suspends \in Nat
       /\ nextId \in Nat /\ DOMAIN inbox = 1 .. Len(inbox) /\ inbox \in Seq(Request)
       /\ Len(inbox) \in Nat
  BY <1>1, Numbers
<1>12. (\A x : Awaits(x)' <=> Awaits(x)) /\ Distinct'
  BY <1>1, <1>2, CallsSame DEF calls
<1>13. Answered' = Answered
  BY <1>2 DEF Answered
<1>14. alone => DOMAIN inbox = {} /\ user = NoCall
  <2> SUFFICES ASSUME alone
               PROVE  DOMAIN inbox = {} /\ user = NoCall
    OBVIOUS
  <2>1. user = NoCall
    BY <1>1 DEF OnePacketAtATime
  <2>2. Len(inbox) = 0
    BY <1>1, <1>2, <2>1, OneRequest
  <2> QED BY <1>11, <2>1, <2>2
<1> HIDE DEF n
<1>15. CASE found = {}
  <2>1. /\ slot' = "idle" /\ messagesReadyForProcessing' = Ready
        /\ UNCHANGED <<vmAlive, resumeRequest, composite, current, handled>>
    BY <1>15 DEF DispatchEvents
  <2>2. Packets(qs, all)'
    BY <1>2, <1>3, <1>5, <1>6, <1>8, <2>1, PacketsRead
  <2>3. EventsIn(all)' /\ RepliesIn(all)' /\ RepliesAhead(all)'
    BY <1>1, <1>2, <1>12, <1>13, <2>1, EventsSame, RepliesSame, AheadSame
  <2>4. messagesReadyForProcessing' \in Seq(PacketSet)
    BY <1>4, <2>1
  <2>5. Types'
    BY <1>1, <1>2, <1>7, <2>1, <2>4 DEF Types
  <2>6. Slots'
    BY <1>1, <1>2, <1>3, <2>1 DEF Slots
  <2>7. OnePacketAtATime'
    BY <1>1, <1>2, <1>14, <2>1 DEF OnePacketAtATime
  <2>8. Invariant(qs, all)'
    BY <2>2, <2>3, <2>5, <2>6, <2>7 DEF Invariant
  <2> QED BY <2>8
<1>16. CASE found # {}
  <2>1. PICK i : i = Min(found)
    OBVIOUS
  <2>2. i \in found /\ \A k \in found : i <= k
    <3>1. found \in SUBSET Nat
      BY <1>4, <1>10
    <3> HIDE DEF found
    <3> QED BY <1>16, <2>1, <3>1, LeastElement
  <2>3. i \in DOMAIN list /\ IsEvent(list[i]) /\ i \in 1 .. n /\ list[i] = all[i] /\ i \in Nat
    BY <1>4, <1>10, <2>2
  <2>4. \A k \in 1 .. n : k < i => ~IsEvent(all[k])
    <3> SUFFICES ASSUME NEW k \in 1 .. n, k < i, IsEvent(all[k])
                 PROVE  FALSE
      OBVIOUS
    <3>1. k \in DOMAIN list /\ k \in Nat
      BY <1>10, <2>3
    <3>2. k \in found
      BY <1>4, <1>10, <3>1
    <3>3. i <= k
      BY <2>2, <3>2
    <3> QED BY <2>3, <3>1, <3>3
  <2>5. /\ slot' = "listener" /\ messagesReadyForProcessing' = RemoveAt(list, i)
        /\ composite' = list[i] /\ current' = 1 /\ resumeRequest' = "neutral"
        /\ vmAlive' = Alive(Head(list[i].events)) /\ handled' = handled + 1
    BY <1>4, <1>16, <2>1 DEF DispatchEvents, Without
  <2>6. PICK new : new = RemoveAt(all, i)
    OBVIOUS
  <2>7. /\ Less(all, n, i, new) /\ new \in Seq(PacketSet)
        /\ new = messagesReadyForProcessing' \o qs
        /\ messagesReadyForProcessing' \in Seq(PacketSet)
    BY <1>10, <2>3, <2>5, <2>6
  <2>8. Packets(qs, new)'
    BY <1>2, <1>3, <1>5, <1>6, <2>7, PacketsRead
  <2>9. EventsIn(new)' /\ all[i].id = handled /\ handled < events
    BY <1>1, <1>2, <1>8, <1>11, <2>3, <2>4, <2>5, <2>7, EventsLess
  <2>10. RepliesIn(new)'
    BY <1>1, <1>2, <1>8, <1>11, <1>12, <2>3, <2>7, RepliesLess
  <2>11. RepliesAhead(new)'
    BY <1>1, <1>2, <1>8, <1>13, <2>7, AheadLess
  <2>12. Types'
    <3>1. vmAlive' \in BOOLEAN
      BY <1>1, <2>5 DEF Alive, Types
    <3>2. handled' \in Nat /\ resumeRequest' \in {"neutral", "resume", "dontresume"}
      BY <1>11, <2>5
    <3> QED BY <1>1, <1>2, <1>7, <2>5, <2>7, <3>1, <3>2 DEF Types
  <2>13. Slots'
    <3>1. composite' \in PacketSet /\ composite'.events # <<>> /\ composite'.id = handled
      BY <2>3, <2>5, <2>9, ElementOfSeq DEF IsEvent
    <3>2. current' \in DOMAIN composite'.events
      <4>1. composite'.events \in Seq(Kind)
        BY <3>1 DEF PacketSet
      <4>2. Len(composite'.events) >= 1 /\ DOMAIN composite'.events = 1 .. Len(composite'.events)
        BY <3>1, <4>1, EmptySeq, LenProperties
      <4> QED BY <2>5, <4>2
    <3> QED BY <1>2, <1>3, <2>5, <3>1, <3>2 DEF Slots
  <2>14. OnePacketAtATime'
    <3> SUFFICES ASSUME alone
                 PROVE  OnePacketAtATime'
      BY <1>2 DEF OnePacketAtATime
    <3>1. events <= handled + 1
      BY <1>1 DEF OnePacketAtATime
    <3>2. events = handled' /\ events' <= handled' + 1
      BY <1>2, <1>11, <2>5, <2>9, <3>1
    <3>3. ~(suspends = 0 /\ vm \in {"starting", "up"})
      BY <1>1, <1>11, <2>9 DEF OnePacketAtATime
    <3> QED BY <1>1, <1>2, <1>14, <3>2, <3>3 DEF OnePacketAtATime
  <2>15. Invariant(qs, new)'
    BY <2>8, <2>9, <2>10, <2>11, <2>12, <2>13, <2>14 DEF Invariant
  <2> QED BY <2>15
<1> QED BY <1>15, <1>16

LEMMA ListenerReturnsStep ==
  ASSUME NEW ps, NEW all, Invariant(ps, all), ListenerReturns
  PROVE  \E qs, new : Invariant(qs, new)'
<1> DEFINE es == composite.events
           last == current = Len(es)
<1>1. /\ Types /\ Slots /\ Packets(ps, all)
      /\ EventsIn(all) /\ RepliesIn(all) /\ RepliesAhead(all) /\ OnePacketAtATime /\ Distinct
  BY DEF Invariant, RepliesIn
<1>2. /\ UNCHANGED <<vm, suspends, events, connection, alone, handled>>
      /\ UNCHANGED <<wire, buffer, incompleteData, messagesReadyForProcessing, onReadyRead>>
      /\ slot = "listener" /\ inner = NoCall
      /\ resumeRequest' = WantResume(es[current])
      /\ vmAlive' = IF last THEN vmAlive ELSE Alive(es[current + 1])
      /\ current' = IF last THEN 0 ELSE current + 1
      /\ composite' = IF last THEN NoPacket ELSE composite
  BY DEF ListenerReturns, stream
<1>3. /\ composite \in PacketSet /\ current \in DOMAIN es /\ composite.id + 1 = handled
      /\ onReadyRead = "dispatchEvents"
  BY <1>1, <1>2 DEF Slots, Types
<1>4. es \in Seq(Kind) /\ DOMAIN es = 1 .. Len(es) /\ Len(es) \in Nat
  <2>1. es \in Seq(Kind)
    BY <1>3 DEF PacketSet
  <2> HIDE DEF es
  <2> QED BY <2>1, LenProperties
<1>5. /\ Answered \in Nat /\ events \in Nat /\ handled \in Nat
      /\ DOMAIN inbox = 1 .. Len(inbox) /\ Len(inbox) \in Nat /\ handled <= events
  BY <1>1, Numbers DEF EventsIn
<1>6. resumeRequest' \in {"neutral", "resume", "dontresume"} /\ vmAlive' \in BOOLEAN
  <2>1. resumeRequest \in {"neutral", "resume", "dontresume"} /\ vmAlive \in BOOLEAN
    BY <1>1 DEF Types
  <2> HIDE DEF es, last
  <2>2. \A k : WantResume(k) \in {"neutral", "resume", "dontresume"} /\ Alive(k) \in BOOLEAN
    BY <2>1 DEF WantResume, Alive
  <2> QED BY <1>2, <2>1, <2>2
<1>7. Packets(ps, all)'
  BY <1>1, <1>2, PacketsSame
<1>8. CASE last /\ resumeRequest' = "resume" /\ vmAlive
  <2>1. PICK cause : cause = composite.id + 1
    OBVIOUS
  <2>2. Send("resume", cause) /\ inner' = NewCall /\ user' = user /\ slot' = "resume"
    BY <1>8, <2>1 DEF ListenerReturns, SendInner
  <2>3. "resume" \in Command /\ cause \in Nat /\ cause = handled
    BY <1>3, <1>5, <2>1 DEF Command
  <2>4. /\ EventsIn(all)' /\ RepliesIn(all)' /\ RepliesAhead(all)'
        /\ inbox' \in Seq(Request) /\ nextId' \in Nat
        /\ DOMAIN inbox' = 1 .. Len(inbox) + 1
        /\ \A i \in 1 .. Len(inbox) : inbox'[i] = inbox[i]
        /\ inbox'[Len(inbox) + 1].command = "resume" /\ inbox'[Len(inbox) + 1].cause = cause
        /\ inner' \in Call /\ user' \in Call /\ inner'.id <= nextId' /\ user'.id <= nextId'
    BY <1>1, <1>2, <2>2, <2>3, RequestSent
  <2>5. Types'
    <3> HIDE DEF es, last
    <3> QED BY <1>1, <1>2, <1>6, <2>2, <2>4 DEF Types
  <2>6. Slots'
    BY <1>2, <1>3, <2>2 DEF Slots
  <2>7. OnePacketAtATime'
    <3> HIDE DEF es, last
    <3> SUFFICES ASSUME alone
                 PROVE  OnePacketAtATime'
      BY <1>2 DEF OnePacketAtATime
    <3>1. /\ user = NoCall /\ handled = events /\ events <= handled + 1
          /\ ~(suspends = 0 /\ vm \in {"starting", "up"})
          /\ vm = "starting" => suspends = 0
      BY <1>1, <1>2 DEF OnePacketAtATime
    <3>2. \A i \in DOMAIN inbox : inbox[i].cause = 0 /\ inbox[i].command = "query"
      BY <1>1, <1>2 DEF OnePacketAtATime
    <3>3. ASSUME NEW i \in DOMAIN inbox'
          PROVE  \/ inbox'[i].cause = 0 /\ inbox'[i].command = "query"
                 \/ inbox'[i].cause = events' /\ inbox'[i].command = "resume"
      <4>1. i \in 1 .. Len(inbox) \/ i = Len(inbox) + 1
        BY <1>5, <2>4
      <4>2. cause = events'
        BY <1>2, <2>3, <3>1
      <4> QED BY <1>5, <2>4, <3>2, <4>1, <4>2
    <3>4. events' <= handled' + 1 /\ handled' = events' /\ slot' = "resume" /\ user' = NoCall
      BY <1>2, <2>2, <3>1
    <3> QED BY <1>2, <3>1, <3>3, <3>4 DEF OnePacketAtATime
  <2>8. Invariant(ps, all)'
    BY <1>7, <2>4, <2>5, <2>6, <2>7 DEF Invariant
  <2> QED BY <2>8
<1>9. CASE ~(last /\ resumeRequest' = "resume" /\ vmAlive)
  <2>1. /\ slot' = IF last THEN "dispatchEvents" ELSE slot
        /\ UNCHANGED <<inbox, nextId, inner, user>>
    BY <1>9 DEF ListenerReturns, calls
  <2>2. (\A x : Awaits(x)' <=> Awaits(x)) /\ Distinct'
    BY <1>1, <2>1, CallsSame DEF calls
  <2>3. Answered' = Answered
    BY <2>1 DEF Answered
  <2>4. EventsIn(all)' /\ RepliesIn(all)' /\ RepliesAhead(all)'
    BY <1>1, <1>2, <2>1, <2>2, <2>3, EventsSame, RepliesSame, AheadSame
  <2>5. Types'
    <3> HIDE DEF es, last
    <3> QED BY <1>1, <1>2, <1>6, <2>1 DEF Types
  <2>6. Slots'
    <3>1. CASE last
      BY <1>2, <1>3, <2>1, <3>1 DEF Slots
    <3>2. CASE ~last
      <4>1. current' \in DOMAIN composite'.events /\ composite' = composite
        BY <1>2, <1>3, <1>4, <3>2
      <4> QED BY <1>2, <1>3, <2>1, <3>2, <4>1 DEF Slots
    <3> QED BY <3>1, <3>2
  <2>7. OnePacketAtATime'
    <3> HIDE DEF es, last
    <3> QED BY <1>1, <1>2, <2>1 DEF OnePacketAtATime
  <2>8. Invariant(ps, all)'
    BY <1>7, <2>4, <2>5, <2>6, <2>7 DEF Invariant
  <2> QED BY <2>8
<1> QED BY <1>8, <1>9

(* A VM is started, and nothing of another one is left. *)
Fresh ==
  /\ messagesReadyForProcessing = <<>> /\ incompleteData = <<>> /\ buffer = <<>>
  /\ wire = <<Handshake>> /\ onReadyRead = "readHandshake"
  /\ events = 0 /\ handled = 0 /\ suspends = 0 /\ inbox = <<>> /\ nextId = 0
  /\ user = NoCall /\ inner = NoCall

LEMMA FreshHolds ==
  Fresh => Packets(<<>>, <<>>) /\ EventsIn(<<>>) /\ RepliesIn(<<>>) /\ RepliesAhead(<<>>)
<1> SUFFICES ASSUME Fresh
             PROVE  Packets(<<>>, <<>>) /\ EventsIn(<<>>) /\ RepliesIn(<<>>) /\ RepliesAhead(<<>>)
  OBVIOUS
<1>1. DOMAIN <<>> = {} /\ Len(<<>>) = 0
  OBVIOUS
<1>2. EventsIn(<<>>)
  BY <1>1 DEF EventsIn, Fresh
<1>3. RepliesIn(<<>>)
  BY <1>1 DEF RepliesIn, Answered, Awaits, Distinct, NoCall, Fresh
<1>4. RepliesAhead(<<>>)
  BY <1>1 DEF RepliesAhead, Answered, Fresh
<1>5. Packets(<<>>, <<>>)
  <2>1. (incompleteData \o buffer) \o wire = <<Handshake>>
    BY DEF Fresh
  <2>2. Cut(<<Handshake>>, 1, <<>>)
    BY <1>1 DEF Cut
  <2> QED BY <2>1, <2>2 DEF Packets, Shake, Fresh
<1> QED BY <1>2, <1>3, <1>4, <1>5

LEMMA InitHolds ==
  ASSUME Init
  PROVE  Invariant(<<>>, <<>>)
<1>1. Packets(<<>>, <<>>) /\ EventsIn(<<>>) /\ RepliesIn(<<>>) /\ RepliesAhead(<<>>)
  BY FreshHolds DEF Fresh, Init
<1>2. Types
  <2>1. <<Handshake>> \in Seq(Unit)
    BY DEF Unit
  <2>2. 1 \in 1 .. MaxConnections
    BY ConnectorAssumption
  <2>3. NoCall \in Call /\ NoCall.id = 0
    BY DEF NoCall, Call
  <2>4. /\ wire \in Seq(Unit) /\ buffer \in Seq(Unit) /\ incompleteData \in Seq(Unit)
        /\ messagesReadyForProcessing \in Seq(PacketSet) /\ inbox \in Seq(Request)
    BY <2>1 DEF Init
  <2>5. inner \in Call /\ user \in Call /\ inner.id <= nextId /\ user.id <= nextId
    BY <2>3 DEF Init
  <2>6. connection \in 1 .. MaxConnections
    BY <2>2 DEF Init
  <2> QED BY <2>4, <2>5, <2>6 DEF Init, Types
<1>3. Slots
  BY DEF Init, Slots, NoCall
<1>4. OnePacketAtATime
  BY DEF Init, OnePacketAtATime
<1> QED BY <1>1, <1>2, <1>3, <1>4 DEF Invariant

LEMMA ConnectStep ==
  ASSUME CleanRestart, NEW ps, NEW all, Invariant(ps, all), Connect
  PROVE  \E qs, new : Invariant(qs, new)'
<1>1. Types /\ Slots
  BY DEF Invariant
<1>2. /\ slot = "idle" /\ user = NoCall /\ connection < MaxConnections
      /\ vm' = "starting" /\ suspends' = 0 /\ inbox' = <<>> /\ events' = 0
      /\ wire' = <<Handshake>> /\ buffer' = <<>> /\ nextId' = 0
      /\ onReadyRead' = "readHandshake"
      /\ connection' = connection + 1 /\ handled' = 0 /\ alone' = TRUE
      /\ UNCHANGED <<incompleteData, messagesReadyForProcessing, vmAlive, resumeRequest, slot>>
      /\ UNCHANGED <<composite, current, inner, user>>
  BY DEF Connect, calls
<1>3. incompleteData' = <<>> /\ messagesReadyForProcessing' = <<>>
  BY <1>2 DEF Connect, CleanRestart, CleanEnd
<1>4. inner' = NoCall /\ user' = NoCall
  BY <1>1, <1>2 DEF Slots
<1>5. (Packets(<<>>, <<>>) /\ EventsIn(<<>>) /\ RepliesIn(<<>>) /\ RepliesAhead(<<>>))'
  <2>1. (Fresh => Packets(<<>>, <<>>) /\ EventsIn(<<>>) /\ RepliesIn(<<>>) /\ RepliesAhead(<<>>))'
    BY FreshHolds, PTL
  <2>2. Fresh'
    BY <1>2, <1>3, <1>4 DEF Fresh
  <2> QED BY <2>1, <2>2
<1>6. Types'
  <2>1. <<Handshake>> \in Seq(Unit)
    BY DEF Unit
  <2>2. connection' \in 1 .. MaxConnections
    BY <1>1, <1>2, ConnectorAssumption DEF Types
  <2> QED BY <1>1, <1>2, <1>3, <1>4, <2>1, <2>2 DEF Types, NoCall, Call
<1>7. Slots'
  BY <1>2, <1>3, <1>4 DEF Slots, NoCall
<1>8. OnePacketAtATime'
  BY <1>2, <1>4 DEF OnePacketAtATime
<1>9. Invariant(<<>>, <<>>)'
  BY <1>5, <1>6, <1>7, <1>8 DEF Invariant
<1> QED BY <1>9

LEMMA Stutter ==
  ASSUME NEW ps, NEW all, Invariant(ps, all), UNCHANGED vars
  PROVE  \E qs, new : Invariant(qs, new)'
<1>1. /\ UNCHANGED <<vm, suspends, inbox, events, wire, buffer, incompleteData, onReadyRead>>
      /\ UNCHANGED <<messagesReadyForProcessing, vmAlive, resumeRequest, nextId, slot>>
      /\ UNCHANGED <<composite, current, inner, user, connection, alone, handled>>
  BY DEF vars, machine, stream, calls
<1>2. /\ Types /\ Slots /\ Packets(ps, all)
      /\ EventsIn(all) /\ RepliesIn(all) /\ RepliesAhead(all) /\ OnePacketAtATime /\ Distinct
  BY DEF Invariant, RepliesIn
<1>3. (\A x : Awaits(x)' <=> Awaits(x)) /\ Distinct'
  BY <1>1, <1>2, CallsSame DEF calls
<1>4. Answered' = Answered
  BY <1>1 DEF Answered
<1>5. Packets(ps, all)' /\ EventsIn(all)' /\ RepliesIn(all)' /\ RepliesAhead(all)'
  BY <1>1, <1>2, <1>3, <1>4, PacketsSame, EventsSame, RepliesSame, AheadSame
<1>6. Types' /\ Slots' /\ OnePacketAtATime'
  BY <1>1, <1>2 DEF Types, Slots, OnePacketAtATime
<1>7. Invariant(ps, all)'
  BY <1>5, <1>6 DEF Invariant
<1> QED BY <1>7
-----------------------------------------------------------------------------
(***************************************************************************)
(* What is unread, and what is ready, are whole packets: the events that   *)
(* were not handled and the replies that are waited for, each in order and *)
(* a reply before every event with its id.                                 *)
(***************************************************************************)
THEOREM Invariance ==
  ASSUME CleanRestart
  PROVE  Spec => []IInv
<1>1. Init => IInv
  BY InitHolds DEF IInv
<1>2. IInv /\ [Next]_vars => IInv'
  <2> SUFFICES ASSUME IInv, [Next]_vars
               PROVE  IInv'
    OBVIOUS
  <2>1. PICK ps, all : Invariant(ps, all)
    BY DEF IInv
  <2>2. CASE VM
    <3>1. \E qs, new : Invariant(qs, new)'
      BY <2>1, <2>2, VMStartStep, VMEventsStep, VMAnswerStep, VMExitStep, VMGoneStep DEF VM
    <3> QED BY <3>1 DEF IInv
  <2>3. CASE Arrive
    <3>1. \E qs, new : Invariant(qs, new)'
      BY <2>1, <2>3, ArriveStep
    <3> QED BY <3>1 DEF IInv
  <2>4. CASE Proceed
    <3>1. \E qs, new : Invariant(qs, new)'
      BY <2>1, <2>4, SentStep, TimeoutStep, WaitReturnsStep, ReadHandshakeStep, CheckIdSizesStep,
         DispatchEventsStep, ListenerRequestStep, ListenerReturnsStep DEF Proceed
    <3> QED BY <3>1 DEF IInv
  <2>5. CASE UserRequest
    <3>1. \E qs, new : Invariant(qs, new)'
      BY <2>1, <2>5, UserRequestStep
    <3> QED BY <3>1 DEF IInv
  <2>6. CASE Connect
    <3>1. \E qs, new : Invariant(qs, new)'
      BY <2>1, <2>6, ConnectStep
    <3> QED BY <3>1 DEF IInv
  <2>7. CASE UNCHANGED vars
    <3>1. \E qs, new : Invariant(qs, new)'
      BY <2>1, <2>7, Stutter
    <3> QED BY <3>1 DEF IInv
  <2> QED BY <2>2, <2>3, <2>4, <2>5, <2>6, <2>7 DEF Next
<1> QED BY <1>1, <1>2, PTL DEF Spec

(***************************************************************************)
(* The variables have their types, nothing handled was not sent, and the   *)
(* slots that wait for nothing do not wait.                                *)
(***************************************************************************)
THEOREM TypeCorrect ==
  ASSUME CleanRestart
  PROVE  Spec => []TypeOK
<1>1. IInv => TypeOK
  BY TypesAreOK DEF IInv, Invariant
<1> QED BY <1>1, Invariance, PTL

(***************************************************************************)
(* readFromSocket and dispatchEvents lose no event, handle none twice and  *)
(* none out of order, however the network cuts and joins the packets.      *)
(***************************************************************************)
THEOREM InOrder ==
  ASSUME CleanRestart
  PROVE  Spec => []EventsInOrder
<1>1. IInv => EventsInOrder
  BY EventsOrdered DEF IInv, Invariant
<1> QED BY <1>1, Invariance, PTL

(***************************************************************************)
(* Every call of sendCommand in progress has its request or its reply      *)
(* under way, and there is no reply that no call waits for.                *)
(***************************************************************************)
THEOREM Expectation ==
  ASSUME CleanRestart
  PROVE  Spec => []RepliesExpected
<1>1. IInv => RepliesExpected
  BY RepliesOrdered DEF IInv, Invariant
<1> QED BY <1>1, Invariance, PTL

(***************************************************************************)
(* The search of waitForReply, by id alone, never takes an event for the   *)
(* reply, although the VM numbers its events from 0 as well.               *)
(***************************************************************************)
THEOREM NeverMistaken ==
  ASSUME CleanRestart
  PROVE  Spec => []NoEventForReply
<1>1. IInv => NoEventForReply
  BY RepliesFirst DEF IInv, Invariant
<1> QED BY <1>1, Invariance, PTL

(***************************************************************************)
(* The resume() of handleComposite finds the VM suspended by the packet    *)
(* that was handled, if the user asked nothing.                            *)
(***************************************************************************)
THEOREM Resumption ==
  ASSUME CleanRestart
  PROVE  Spec => []ResumesItsOwn
<1>1. IInv => ResumesItsOwn
  BY ResumesOwn DEF IInv, Invariant
<1> QED BY <1>1, Invariance, PTL
=============================================================================
