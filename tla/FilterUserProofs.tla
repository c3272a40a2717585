--------------------------- MODULE FilterUserProofs ---------------------------
(***************************************************************************)
(* Proofs about the user program of the MiniFilter, for any number of      *)
(* events and faults.  First the event sender by itself, with a caller     *)
(* that uses the class in any way: types, and that it keeps the promise    *)
(* of Delivery.  Then the program: it uses the sender as that allows, so   *)
(* that the promise holds in it; the main routine has its driver and its   *)
(* port; the end of the program leaves nothing; and the sending thread     *)
(* does not end before its time.                                           *)
(***************************************************************************)
EXTENDS FilterUser, SequenceTheorems, TLAPS

(***************************************************************************)
(* The event sender.                                                       *)
(***************************************************************************)
Working == {"transmit", "receive", "await", "pop", "reconnect"}

\* The thread is at work on an event that is there, and not without a handshake.
OnFront ==
  /\ sender \in {"front"} \cup Working => ~Empty
  /\ handle = "new" => sender \notin Working

\* e is the event in front or one that has left the queue.
OnQueue(e) == \E k \in 1 .. acked + 1 : k \in DOMAIN accepted /\ e = accepted[k]

\* What is under way, on this connection or on those that are gone, was at the front once.
Sent ==
  /\ wire # <<>> => sock = "up"
  /\ \A i \in DOMAIN wire : OnQueue(wire[i])
  /\ \A e \in stray : OnQueue(e)

InFlight == wire # <<>> \/ inbound # <<>>

\* One event is under way, the one in front, or one answer to it.
OneAtATime ==
  /\ InFlight => ~Empty
  /\ wire # <<>> => Len(wire) = 1 /\ wire[1] = Front /\ inbound = <<>>
  /\ inbound # <<>> => Len(inbound) = 1 /\ wire = <<>> /\ Front \in received

\* The thread sends when nothing is under way, and takes off what has been answered; it leaves
\* something behind only when it has lost its handle, without which it does not send again.
InStep ==
  /\ sender \in {"transmit", "pop"} => ~InFlight
  /\ sender \in {"idle", "front", "reconnect"} /\ InFlight => handle = "null"
  /\ sender = "pop" => Front \in received

\* TypeOK in three parts, the Boolean one apart.
FlagTypes ==
  bShouldStop \in BOOLEAN /\ bIsHandshakeSuccessful \in BOOLEAN /\ orderly \in BOOLEAN

PlaceTypes ==
  /\ handle \in {"null", "new", "ready", "aborted", "dangling"}
  /\ sock \in {"none", "up", "closed", "dead"}
  /\ sender \in {"none", "idle", "front", "transmit", "receive", "await", "pop", "reconnect",
                 "ended", "spinning", "crashed"}
  /\ server \in {"ws", "ws2"}
  /\ faults \in 0 .. MaxFaults

Frame == {"answer", "part", "rest", "close"}

DataTypes ==
  /\ accepted \in Seq(Event) /\ acked \in 0 .. Len(accepted)
  /\ wire \in Seq(Event) /\ inbound \in Seq(Frame)
  /\ stray \subseteq Event /\ received \subseteq Event

Ordered == orderly => OneAtATime /\ InStep

SInv == FlagTypes /\ PlaceTypes /\ DataTypes /\ OnFront /\ Sent /\ Ordered

-----------------------------------------------------------------------------
\* SInv has the types.
LEMMA TypesOfSInv == FlagTypes /\ PlaceTypes /\ DataTypes <=> TypeOK
  BY DEF FlagTypes, PlaceTypes, DataTypes, Frame, TypeOK

\* A step that leaves the queue alone leaves its front alone.
LEMMA FrontStays ==
  ASSUME UNCHANGED queue
  PROVE  Front' = Front /\ Empty' = Empty /\ \A e : OnQueue(e) => OnQueue(e)'
  BY DEF queue, Front, Empty, OnQueue

\* A push behind the front leaves that where it is.
LEMMA FrontBehindPush ==
  ASSUME accepted \in Seq(Event), acked \in 0 .. Len(accepted),
         NEW s \in Seq(Event), accepted' = accepted \o s, acked' = acked
  PROVE  /\ accepted' \in Seq(Event) /\ acked' \in 0 .. Len(accepted')
         /\ ~Empty => ~Empty' /\ Front' = Front
         /\ \A e : OnQueue(e) => OnQueue(e)'
<1>1. /\ accepted' \in Seq(Event) /\ Len(accepted') = Len(accepted) + Len(s)
      /\ \A i \in 1 .. Len(accepted) : accepted'[i] = accepted[i]
  BY ConcatProperties, LenProperties
<1>2. acked' \in 0 .. Len(accepted') /\ acked \in Nat /\ Len(accepted) \in Nat /\ Len(s) \in Nat
  BY <1>1, LenProperties
<1>3. ASSUME ~Empty PROVE ~Empty' /\ Front' = Front
  BY <1>1, <1>2, <1>3 DEF Empty, Front
<1>4. ASSUME NEW e, OnQueue(e) PROVE OnQueue(e)'
  <2>1. PICK k \in 1 .. acked + 1 : k \in DOMAIN accepted /\ e = accepted[k]
    BY <1>4 DEF OnQueue
  <2>2. k \in 1 .. Len(accepted) /\ DOMAIN accepted' = 1 .. Len(accepted')
    BY <1>1, <2>1, LenProperties
  <2>3. k \in DOMAIN accepted' /\ e = accepted'[k] /\ k \in 1 .. acked' + 1
    BY <1>1, <1>2, <2>1, <2>2
  <2>. QED  BY <2>3 DEF OnQueue
<1>. QED  BY <1>1, <1>2, <1>3, <1>4

\* What a push may leave behind is events and blank places.
LEMMA PushedIsEvents ==
  ASSUME NEW e \in Event, NEW s \in Pushed(e)
  PROVE  s \in Seq(Event)
<1>1. Blank \in Event
  BY SenderAssumption DEF Blank, Event
<1>2. \A a, b \in Event : <<a>> \in Seq(Event) /\ <<a, b>> \in Seq(Event) /\ <<>> \in Seq(Event)
  OBVIOUS
<1>3. s \in {<<e>>, <<>>, <<Blank>>, <<e, Blank>>}
  BY DEF Pushed
<1>4. QED
  BY <1>1, <1>2, <1>3

\* A fault stays within its bound.
LEMMA FaultCounts == ASSUME faults \in 0 .. MaxFaults, Fault PROVE faults' \in 0 .. MaxFaults
  BY SenderAssumption DEF Fault

\* The event in front is on the queue, and is an event.
LEMMA FrontOnQueue ==
  ASSUME DataTypes, ~Empty
  PROVE  Front \in Event /\ OnQueue(Front) /\ acked + 1 \in 0 .. Len(accepted)
<1>1. acked \in Nat /\ Len(accepted) \in Nat
  BY LenProperties DEF DataTypes
<1>2. DOMAIN accepted = 1 .. Len(accepted)
  BY LenProperties DEF DataTypes
<1>3. acked <= Len(accepted) /\ acked # Len(accepted)
  BY <1>1 DEF DataTypes, Empty
<1>4. acked + 1 \in 1 .. acked + 1 /\ acked + 1 \in 1 .. Len(accepted)
  BY <1>1, <1>3
<1>. QED  BY <1>1, <1>2, <1>4, ElementOfSeq DEF DataTypes, Front, OnQueue

\* The initial state, before there is a thread.
LEMMA SInvInit == Init => SInv
<1> SUFFICES ASSUME Init PROVE SInv
  OBVIOUS
<1>1. FlagTypes
  BY Zenon DEF Init, FlagTypes
<1>2. PlaceTypes
  BY SenderAssumption DEF Init, PlaceTypes
<1>3. \A S : <<>> \in Seq(S) /\ Len(<<>>) = 0
  BY EmptySeq
<1>4. DataTypes
  BY <1>3 DEF Init, DataTypes
<1>5. OnFront /\ Sent /\ Ordered
  BY DEF Init, OnFront, Working, Sent, Ordered, OneAtATime, InStep, InFlight
<1>. QED  BY <1>1, <1>2, <1>4, <1>5 DEF SInv

\* A turn to another socket leaves nothing under way but on connections that are gone.
LEMMA TurnKeeps ==
  ASSUME SInv, NEW s \in {"none", "up", "closed", "dead"}, Turn(s), UNCHANGED queue,
         UNCHANGED received
  PROVE  sock' \in {"none", "up", "closed", "dead"} /\ DataTypes' /\ Sent' /\ OneAtATime'
         /\ ~InFlight'
<1>1. wire' = <<>> /\ stray' = stray \cup Range(wire) /\ inbound' = <<>> /\ sock' = s
  BY DEF Turn
<1>2. \A S : <<>> \in Seq(S)
  BY EmptySeq
<1>3. \A e \in Range(wire) : e \in Event /\ OnQueue(e)
  BY LenProperties, ElementOfSeq DEF Range, SInv, DataTypes, Sent
<1>4. DataTypes'
  BY <1>1, <1>2, <1>3 DEF queue, SInv, DataTypes
<1>5. \A e \in stray' : OnQueue(e)'
  BY <1>1, <1>3, FrontStays DEF SInv, Sent
<1>6. Sent' /\ OneAtATime' /\ ~InFlight'
  BY <1>1, <1>5 DEF Sent, OneAtATime, InFlight
<1>. QED  BY <1>1, <1>4, <1>6

\* A step that sends and receives nothing.
LEMMA ConnStays ==
  ASSUME SInv, UNCHANGED <<queue, conn, far>>
  PROVE  /\ DataTypes' /\ Sent' /\ (orderly' => OneAtATime /\ OneAtATime' /\ InStep)
         /\ InFlight' = InFlight /\ Front' = Front /\ Empty' = Empty
         /\ sock' \in {"none", "up", "closed", "dead"} /\ server' \in {"ws", "ws2"}
<1>1. Front' = Front /\ Empty' = Empty /\ \A e : OnQueue(e) => OnQueue(e)'
  BY FrontStays
<1>2. DataTypes' /\ sock' \in {"none", "up", "closed", "dead"} /\ server' \in {"ws", "ws2"}
  BY DEF queue, conn, far, SInv, DataTypes, PlaceTypes
<1>3. Sent'
  BY <1>1 DEF conn, SInv, Sent
<1>4. InFlight' = InFlight
  BY DEF conn, InFlight
<1>5. orderly' => orderly
  BY Zenon DEF far
<1>6. orderly' => OneAtATime /\ InStep
  BY <1>5 DEF SInv, Ordered
<1>7. OneAtATime => OneAtATime'
  BY <1>1, <1>4 DEF OneAtATime, conn, far
<1>. QED  BY <1>1, <1>2, <1>3, <1>4, <1>6, <1>7
-----------------------------------------------------------------------------
\* The steps of the caller keep SInv.
LEMMA CallerKeeps == ASSUME SInv, Caller PROVE SInv'
<1> USE DEF Working
<1>1. CASE init
  <2>1. DataTypes' /\ Sent' /\ OneAtATime' /\ ~InFlight'
        /\ sock' \in {"none", "up", "closed", "dead"}
    BY <1>1, TurnKeeps DEF init, far
  <2>2. FlagTypes'
    BY <1>1, Zenon DEF init, flags, far, FlagTypes, SInv
  <2>3. PlaceTypes' /\ OnFront' /\ Ordered'
    BY <1>1, <2>1 DEF init, far, PlaceTypes, SInv, OnFront, Ordered, InStep
  <2>. QED  BY <2>1, <2>2, <2>3 DEF SInv
<1>2. CASE handshake
  <2>1. PICK s \in {"up", "closed", "dead"} : Turn(s)
    BY <1>2 DEF handshake, HandshakeSucceeds, HandshakeFails
  <2>2. DataTypes' /\ Sent' /\ OneAtATime' /\ ~InFlight'
        /\ sock' \in {"none", "up", "closed", "dead"}
    BY <1>2, <2>1, TurnKeeps DEF handshake, far
  <2>3. FlagTypes'
    BY <1>2, Zenon DEF handshake, HandshakeSucceeds, HandshakeFails, far, FlagTypes, SInv
  <2>4. faults' \in 0 .. MaxFaults
    BY <1>2, FaultCounts DEF handshake, HandshakeSucceeds, HandshakeFails, SInv, PlaceTypes
  <2>5. sender' = sender /\ sender \notin Working /\ Empty' = Empty
    BY <1>2, FrontStays DEF handshake, SInv, OnFront
  <2>6. PlaceTypes' /\ OnFront' /\ Ordered'
    BY <1>2, <2>2, <2>4, <2>5
    DEF handshake, HandshakeSucceeds, HandshakeFails, far, PlaceTypes, SInv, OnFront, Ordered,
        InStep
  <2>. QED  BY <2>2, <2>3, <2>6 DEF SInv
<1>3. CASE setShouldStop
  <2>1. FlagTypes'
    BY <1>3, Zenon DEF setShouldStop, far, FlagTypes, SInv
  <2>2. PlaceTypes' /\ OnFront' /\ DataTypes' /\ Sent' /\ Ordered'
    BY <1>3, ConnStays DEF setShouldStop, far, PlaceTypes, SInv, OnFront, Ordered, InStep
  <2>. QED  BY <2>1, <2>2 DEF SInv
<1>4. CASE cleanup
  <2>1. PICK s \in {"closed", "dead"} : Turn(s)
    BY <1>4 DEF cleanup
  <2>2. DataTypes' /\ Sent' /\ OneAtATime' /\ ~InFlight'
        /\ sock' \in {"none", "up", "closed", "dead"}
    BY <1>4, <2>1, TurnKeeps DEF cleanup, far
  <2>3. FlagTypes'
    BY <1>4, Zenon DEF cleanup, far, FlagTypes, SInv
  <2>4. PlaceTypes' /\ OnFront' /\ Ordered'
    BY <1>4, <2>2 DEF cleanup, DeletesTwice, far, PlaceTypes, SInv, OnFront, Ordered, InStep
  <2>. QED  BY <2>2, <2>3, <2>4 DEF SInv
<1>5. CASE destroy
  <2>1. FlagTypes'
    BY <1>5, Zenon DEF destroy, flags, far, FlagTypes, SInv
  <2>2. PlaceTypes' /\ OnFront' /\ DataTypes' /\ Sent' /\ Ordered'
    BY <1>5, ConnStays
    DEF destroy, DeletesTwice, far, PlaceTypes, SInv, OnFront, Ordered, InStep
  <2>. QED  BY <2>1, <2>2 DEF SInv
<1>6. CASE CallFails
  <2>1. FlagTypes'
    BY <1>6, Zenon DEF CallFails, flags, far, FlagTypes, SInv
  <2>2. faults' \in 0 .. MaxFaults
    BY <1>6, FaultCounts DEF CallFails, SInv, PlaceTypes
  <2>3. PlaceTypes' /\ OnFront' /\ DataTypes' /\ Sent' /\ Ordered'
    BY <1>6, <2>2, ConnStays DEF CallFails, far, PlaceTypes, SInv, OnFront, Ordered, InStep
  <2>. QED  BY <2>1, <2>3 DEF SInv
<1>7. ASSUME NEW e \in Event, queueMsg(e) PROVE SInv'
  <2>1. FlagTypes'
    BY <1>7, Zenon DEF queueMsg, flags, far, FlagTypes, SInv
  <2>2. CASE UNCHANGED accepted
    <3>1. UNCHANGED <<queue, conn, far>>
      BY <1>7, <2>2 DEF queueMsg, queue
    <3>2. PlaceTypes' /\ OnFront' /\ DataTypes' /\ Sent' /\ Ordered'
      BY <1>7, <3>1, ConnStays DEF queueMsg, far, PlaceTypes, SInv, OnFront, Ordered, InStep
    <3>. QED  BY <2>1, <3>2 DEF SInv
  <2>3. CASE UNCHANGED sender /\ \E s \in Pushed(e) : accepted' = accepted \o s
    <3>1. PICK s \in Pushed(e) : accepted' = accepted \o s
      BY <2>3
    <3>2. /\ accepted' \in Seq(Event) /\ acked' \in 0 .. Len(accepted')
          /\ ~Empty => ~Empty' /\ Front' = Front
          /\ \A f : OnQueue(f) => OnQueue(f)'
      BY <1>7, <3>1, PushedIsEvents, FrontBehindPush DEF queueMsg, SInv, DataTypes
    <3>3. PlaceTypes' /\ DataTypes'
      BY <1>7, <2>3, <3>2 DEF queueMsg, conn, far, PlaceTypes, DataTypes, SInv
    <3>4. Sent'
      BY <1>7, <3>2 DEF queueMsg, conn, Sent, SInv
    <3>5. OnFront'
      BY <1>7, <2>3, <3>2 DEF queueMsg, SInv, OnFront
    <3>6. Ordered'
      <4>1. SUFFICES ASSUME orderly' PROVE OneAtATime' /\ InStep'
        BY DEF Ordered
      <4>2. orderly
        BY <1>7, <4>1, Zenon DEF queueMsg, far
      <4>3. OneAtATime /\ InStep
        BY <4>2 DEF SInv, Ordered
      <4>4. (sender = "pop" => ~Empty) /\ InFlight' = InFlight
        BY <1>7 DEF SInv, OnFront, queueMsg, conn, InFlight
      <4>. QED
        BY <1>7, <2>3, <3>2, <4>3, <4>4 DEF queueMsg, conn, far, OneAtATime, InStep, InFlight
    <3>. QED  BY <2>1, <3>3, <3>4, <3>5, <3>6 DEF SInv
  <2>. QED  BY <1>7, <2>2, <2>3 DEF queueMsg
<1>. QED  BY <1>1, <1>2, <1>3, <1>4, <1>5, <1>6, <1>7 DEF Caller

\* A call of the library that is refused or not.
LEMMA CallsKeep == ASSUME SInv, WebSocketSend \/ WebSocketReceive PROVE SInv'
<1> USE DEF Working, WebSocketSend, WebSocketReceive
<1>1. FlagTypes'
  BY Zenon DEF Calls, flags, far, FlagTypes, SInv
<1>2. faults' \in 0 .. MaxFaults
  BY FaultCounts DEF Calls, SInv, PlaceTypes
<1>3. PlaceTypes' /\ OnFront' /\ DataTypes' /\ Sent' /\ Ordered'
  BY <1>2, ConnStays DEF Calls, far, PlaceTypes, SInv, OnFront, Ordered, InStep
<1>. QED  BY <1>1, <1>3 DEF SInv

\* The event in front is sent behind those that are under way; in good order there is none.
LEMMA TransmitKeeps == ASSUME SInv, Transmit PROVE SInv'
<1> USE DEF Working
<1>1. FlagTypes'
  BY Zenon DEF Transmit, flags, far, FlagTypes, SInv
<1>2. ~Empty /\ ~Empty' /\ Front' = Front /\ Front \in Event /\ OnQueue(Front)
      /\ \A e : OnQueue(e) => OnQueue(e)'
  BY FrontStays, FrontOnQueue DEF Transmit, SInv, OnFront
<1>3. PlaceTypes'
  BY DEF Transmit, LoopWithoutHandle, Aborted, far, PlaceTypes, SInv
<1>4. OnFront'
  BY <1>2 DEF Transmit, LoopWithoutHandle, Aborted, SInv, PlaceTypes, OnFront
<1>5. CASE UNCHANGED wire
  <2>1. UNCHANGED <<queue, conn, far>>
    BY <1>5 DEF Transmit, conn
  <2>2. DataTypes' /\ Sent' /\ Ordered'
    BY <2>1, ConnStays DEF Transmit, LoopWithoutHandle, Ordered, InStep
  <2>. QED  BY <1>1, <1>3, <1>4, <2>2 DEF SInv
<1>6. CASE handle # "null" /\ sock = "up" /\ wire' = Append(wire, Front) /\ sender' = "receive"
  <2>1. wire' \in Seq(Event) /\ wire' # <<>> /\ Len(wire') = Len(wire) + 1
        /\ DOMAIN wire' = 1 .. Len(wire) + 1 /\ DOMAIN wire = 1 .. Len(wire) /\ Len(wire) \in Nat
        /\ wire'[Len(wire) + 1] = Front /\ \A i \in DOMAIN wire : wire'[i] = wire[i]
    BY <1>2, <1>6, AppendProperties, LenProperties DEF SInv, DataTypes
  <2>2. DataTypes'
    BY <2>1 DEF Transmit, queue, far, SInv, DataTypes
  <2>3. \A i \in DOMAIN wire' : OnQueue(wire'[i])
    BY <2>1, <1>2 DEF SInv, Sent
  <2>4. Sent'
    BY <1>2, <1>6, <2>3 DEF Transmit, SInv, Sent
  <2>5. ASSUME orderly' PROVE OneAtATime' /\ InStep'
    <3>1. orderly
      BY <2>5, Zenon DEF Transmit, far
    <3>2. wire = <<>> /\ inbound = <<>> /\ inbound' = inbound
      BY <3>1 DEF Transmit, SInv, Ordered, InStep, InFlight
    <3>3. Len(wire) = 0
      BY <3>2, EmptySeq
    <3>. QED
      BY <1>2, <1>6, <2>1, <3>2, <3>3 DEF OneAtATime, InStep, InFlight
  <2>. QED  BY <1>1, <1>3, <1>4, <2>2, <2>4, <2>5 DEF SInv, Ordered
<1>. QED  BY <1>5, <1>6 DEF Transmit

\* A frame is taken; in good order it is the answer, and the only one.
LEMMA AwaitReplyKeeps == ASSUME SInv, AwaitReply PROVE SInv'
<1> USE DEF Working
<1>1. FlagTypes'
  BY Zenon DEF AwaitReply, flags, far, FlagTypes, SInv
<1>2. ~Empty /\ ~Empty' /\ Front' = Front /\ \A e : OnQueue(e) => OnQueue(e)'
  BY FrontStays DEF AwaitReply, SInv, OnFront
<1>3. PlaceTypes'
  BY DEF AwaitReply, LoopWithoutHandle, Aborted, far, PlaceTypes, SInv
<1>4. OnFront'
  BY <1>2 DEF AwaitReply, LoopWithoutHandle, Aborted, SInv, PlaceTypes, OnFront
<1>5. CASE UNCHANGED inbound
  <2>1. UNCHANGED <<queue, conn, far>>
    BY <1>5 DEF AwaitReply, conn
  <2>2. sender' \in {"spinning", "reconnect", "pop"}
    BY DEF AwaitReply, LoopWithoutHandle
  <2>3. sender' # "pop"
    <3>1. inbound # <<>> => Len(Tail(inbound)) = Len(inbound) - 1 /\ Len(inbound) \in Nat
      BY HeadTailProperties, LenProperties DEF SInv, DataTypes
    <3>2. inbound # <<>> => Tail(inbound) # inbound
      BY <3>1
    <3>. QED  BY <1>5, <3>2 DEF AwaitReply, LoopWithoutHandle
  <2>4. sender' = "reconnect" /\ InFlight => handle' = "null"
    BY <1>5, <2>3 DEF AwaitReply, LoopWithoutHandle, InFlight, SInv, Sent
  <2>5. DataTypes' /\ Sent' /\ Ordered'
    BY <2>1, <2>2, <2>3, <2>4, ConnStays DEF Ordered, InStep
  <2>. QED  BY <1>1, <1>3, <1>4, <2>5 DEF SInv
<1>6. CASE inbound # <<>> /\ sender' = "pop" /\ inbound' = Tail(inbound)
  <2>1. inbound' \in Seq(Frame) /\ Len(inbound') = Len(inbound) - 1
    BY <1>6, HeadTailProperties DEF SInv, DataTypes
  <2>2. DataTypes'
    BY <2>1 DEF AwaitReply, queue, far, SInv, DataTypes
  <2>3. Sent'
    BY <1>2 DEF AwaitReply, SInv, Sent
  <2>4. ASSUME orderly' PROVE OneAtATime' /\ InStep'
    <3>1. orderly
      BY <2>4, Zenon DEF AwaitReply, far
    <3>2. Len(inbound) = 1 /\ wire = <<>> /\ Front \in received
      BY <1>6, <3>1 DEF SInv, Ordered, OneAtATime
    <3>3. inbound' = <<>>
      BY <2>1, <3>2, EmptySeq
    <3>4. wire' = <<>> /\ received' = received
      BY <3>2 DEF AwaitReply, far
    <3>. QED  BY <1>2, <1>6, <3>2, <3>3, <3>4 DEF OneAtATime, InStep, InFlight
  <2>. QED  BY <1>1, <1>3, <1>4, <2>2, <2>3, <2>4 DEF SInv, Ordered
<1>. QED  BY <1>5, <1>6 DEF AwaitReply

\* The front moves on; in good order nothing is under way.
LEMMA PopKeeps == ASSUME SInv, Pop PROVE SInv'
<1> USE DEF Working
<1>1. FlagTypes'
  BY Zenon DEF Pop, flags, far, FlagTypes, SInv
<1>2. ~Empty
  BY DEF Pop, SInv, OnFront
<1>3. acked' \in 0 .. Len(accepted) /\ acked \in Nat
  BY <1>2, FrontOnQueue DEF Pop, SInv, DataTypes
<1>4. \A e : OnQueue(e) => OnQueue(e)'
  BY <1>3 DEF Pop, OnQueue
<1>5. PlaceTypes' /\ OnFront' /\ DataTypes' /\ Sent'
  BY <1>3, <1>4 DEF Pop, conn, far, PlaceTypes, OnFront, DataTypes, Sent, SInv
<1>6. ASSUME orderly' PROVE OneAtATime' /\ InStep'
  <2>1. orderly
    BY <1>6, Zenon DEF Pop, far
  <2>2. wire = <<>> /\ inbound = <<>> /\ wire' = wire /\ inbound' = inbound /\ sender' = "idle"
    BY <2>1 DEF Pop, conn, SInv, Ordered, InStep, InFlight
  <2>. QED  BY <2>2 DEF OneAtATime, InStep, InFlight
<1>. QED  BY <1>1, <1>5, <1>6 DEF SInv, Ordered

\* There is another socket, or nothing changes but that the thread comes back to its loop.
LEMMA ReconnectKeeps == ASSUME SInv, Reconnect PROVE SInv'
<1> USE DEF Working
<1>1. FlagTypes'
  BY Zenon
  DEF Reconnect, HandshakeSucceeds, HandshakeFails, CreateFails, far, FlagTypes, SInv
<1>2. faults' \in 0 .. MaxFaults
  BY FaultCounts
  DEF Reconnect, HandshakeSucceeds, HandshakeFails, CreateFails, SInv, PlaceTypes
<1>3. CASE UNCHANGED <<handle, conn>>
  <2>1. PlaceTypes' /\ OnFront' /\ DataTypes' /\ Sent' /\ Ordered'
    BY <1>2, <1>3, ConnStays DEF Reconnect, far, PlaceTypes, SInv, OnFront, Ordered, InStep
  <2>. QED  BY <1>1, <2>1 DEF SInv
<1>4. CASE HandshakeSucceeds \/ HandshakeFails \/ CreateFails
  <2>1. PICK s \in {"up", "closed", "dead"} : Turn(s)
    BY <1>4 DEF HandshakeSucceeds, HandshakeFails, CreateFails
  <2>2. DataTypes' /\ Sent' /\ OneAtATime' /\ ~InFlight'
        /\ sock' \in {"none", "up", "closed", "dead"}
    BY <2>1, TurnKeeps DEF Reconnect, far
  <2>3. handle' \in {"null", "new", "ready", "aborted", "dangling"}
    BY <1>4 DEF HandshakeSucceeds, HandshakeFails, CreateFails
  <2>4. PlaceTypes' /\ OnFront' /\ Ordered'
    BY <1>2, <2>2, <2>3 DEF Reconnect, far, PlaceTypes, SInv, OnFront, Ordered, InStep
  <2>. QED  BY <1>1, <2>2, <2>4 DEF SInv
<1>. QED  BY <1>3, <1>4 DEF Reconnect

\* The steps of the sending thread keep SInv.
LEMMA SenderKeeps == ASSUME SInv, SenderStep PROVE SInv'
<1>1. CASE SendStops \/ TakeFront \/ ThreadCrashes
  <2>1. FlagTypes'
    BY <1>1, Zenon DEF SendStops, TakeFront, ThreadCrashes, flags, far, FlagTypes, SInv
  <2>2. PlaceTypes' /\ OnFront' /\ DataTypes' /\ Sent' /\ Ordered'
    BY <1>1, ConnStays
    DEF SendStops, TakeFront, ThreadCrashes, far, PlaceTypes, SInv, OnFront, Working, Ordered,
        InStep
  <2>. QED  BY <2>1, <2>2 DEF SInv
<1>. QED
  BY <1>1, CallsKeep, TransmitKeeps, AwaitReplyKeeps, PopKeeps, ReconnectKeeps DEF SenderStep

\* The handler takes the oldest event that is under way; in good order that is the front, and the
\* answer is the only frame.
LEMMA HandlerKeeps ==
  ASSUME SInv, handler
  PROVE  SInv' /\ OnQueue(Head(wire)) /\ (orderly' => orderly)
<1>1. orderly' => orderly
  BY Zenon DEF handler
<1>2. FlagTypes'
  BY Zenon DEF handler, flags, FlagTypes, SInv
<1>3. PlaceTypes'
  BY DEF handler, PlaceTypes, SInv
<1>4. Front' = Front /\ Empty' = Empty /\ \A e : OnQueue(e) => OnQueue(e)'
  BY FrontStays DEF handler
<1>5. wire # <<>> /\ wire' = Tail(wire) /\ received' = received \cup {Head(wire)}
      /\ UNCHANGED <<queue, sock, stray, sender, handle>>
  BY DEF handler
<1>6. /\ wire' \in Seq(Event) /\ Len(wire') = Len(wire) - 1 /\ Head(wire) \in Event
      /\ Len(wire) \in Nat \ {0} /\ DOMAIN wire = 1 .. Len(wire) /\ DOMAIN wire' = 1 .. Len(wire')
      /\ \A i \in 1 .. Len(wire') : wire'[i] = wire[i + 1]
      /\ Head(wire) = wire[1]
  BY <1>5, HeadTailProperties, LenProperties, EmptySeq DEF SInv, DataTypes
<1>7. \A i \in DOMAIN wire' : OnQueue(wire'[i])
  BY <1>6 DEF SInv, Sent
<1>8. Sent' /\ OnQueue(Head(wire))
  BY <1>4, <1>5, <1>6, <1>7 DEF SInv, Sent
<1>9. OnFront'
  BY <1>4, <1>5 DEF SInv, OnFront
<1>10. inbound' \in Seq(Frame)
  <2>1. inbound \in Seq(Frame) /\ "answer" \in Frame /\ <<"part", "rest">> \in Seq(Frame)
    BY DEF SInv, DataTypes, Frame
  <2>2. inbound' \in {inbound, Append(inbound, "answer"), inbound \o <<"part", "rest">>}
    BY DEF handler
  <2>3. Append(inbound, "answer") \in Seq(Frame)
    BY <2>1, AppendProperties
  <2>4. inbound \o <<"part", "rest">> \in Seq(Frame)
    BY <2>1, ConcatProperties
  <2>. QED  BY <2>1, <2>2, <2>3, <2>4
<1>11. DataTypes'
  BY <1>5, <1>6, <1>10 DEF queue, SInv, DataTypes
<1>12. ASSUME orderly' PROVE OneAtATime' /\ InStep'
  <2>1. OneAtATime /\ InStep
    BY <1>1, <1>12 DEF SInv, Ordered
  <2>2. ~Empty /\ Len(wire) = 1 /\ wire[1] = Front /\ inbound = <<>> /\ InFlight
    BY <1>5, <2>1 DEF OneAtATime, InFlight
  <2>3. wire' = <<>>
    BY <1>6, <2>2, EmptySeq
  <2>4. inbound' \in {<<>>, Append(<<>>, "answer")}
    BY <1>12, <2>2 DEF handler
  <2>5. inbound' # <<>> => Len(inbound') = 1
    BY <2>4
  <2>. QED  BY <1>4, <1>5, <1>6, <2>1, <2>2, <2>3, <2>5 DEF OneAtATime, InStep, InFlight
<1>. QED  BY <1>1, <1>2, <1>3, <1>8, <1>9, <1>11, <1>12 DEF SInv, Ordered

\* Behind an exception of the handler nothing is in good order.
LEMMA HandlerRaisesKeeps ==
  ASSUME SInv, handlerRaises
  PROVE  SInv' /\ ~orderly' /\ OnQueue(Head(wire))
<1>1. FlagTypes' /\ ~orderly'
  BY Zenon DEF handlerRaises, flags, FlagTypes, SInv
<1>2. faults' \in 0 .. MaxFaults
  BY FaultCounts DEF handlerRaises, SInv, PlaceTypes
<1>3. PlaceTypes'
  BY <1>2 DEF handlerRaises, PlaceTypes, SInv
<1>4. Front' = Front /\ Empty' = Empty /\ \A e : OnQueue(e) => OnQueue(e)'
  BY FrontStays DEF handlerRaises
<1>5. Head(wire) \in Event /\ Head(wire) = wire[1] /\ 1 \in DOMAIN wire
  BY HeadTailProperties, LenProperties, EmptySeq DEF handlerRaises, SInv, DataTypes
<1>6. <<>> \in Seq(Event) /\ inbound' \in Seq(Frame)
  <2>1. inbound \in Seq(Frame) /\ "close" \in Frame
    BY DEF SInv, DataTypes, Frame
  <2>. QED  BY <2>1, AppendProperties, EmptySeq DEF handlerRaises
<1>7. DataTypes'
  BY <1>5, <1>6 DEF handlerRaises, queue, SInv, DataTypes
<1>8. Sent' /\ OnQueue(Head(wire))
  BY <1>4, <1>5 DEF handlerRaises, SInv, Sent
<1>9. OnFront'
  BY <1>4 DEF handlerRaises, SInv, OnFront
<1>. QED  BY <1>1, <1>3, <1>7, <1>8, <1>9 DEF SInv, Ordered

\* What is handled late was at the front once.
LEMMA HandlerLateKeeps == ASSUME SInv, handlerLate PROVE SInv'
<1>1. PICK e \in stray : received' = received \cup {e} /\ stray' = stray \ {e}
  BY DEF handlerLate
<1>2. FlagTypes'
  BY Zenon DEF handlerLate, flags, FlagTypes, SInv
<1>3. Front' = Front /\ Empty' = Empty /\ \A f : OnQueue(f) => OnQueue(f)'
  BY FrontStays DEF handlerLate
<1>4. PlaceTypes' /\ DataTypes' /\ OnFront'
  BY <1>1, <1>3 DEF handlerLate, queue, PlaceTypes, DataTypes, OnFront, SInv
<1>5. Sent'
  BY <1>1, <1>3 DEF handlerLate, Sent, SInv
<1>6. ASSUME orderly' PROVE OneAtATime' /\ InStep'
  <2>1. orderly
    BY <1>6, Zenon DEF handlerLate
  <2>2. OneAtATime /\ InStep
    BY <2>1 DEF SInv, Ordered
  <2>3. InFlight' = InFlight /\ received \subseteq received'
    BY <1>1 DEF handlerLate, InFlight
  <2>. QED  BY <1>3, <2>2, <2>3 DEF handlerLate, OneAtATime, InStep
<1>. QED  BY <1>2, <1>4, <1>5, <1>6 DEF SInv, Ordered

\* A connection that breaks takes its events with it; an answer that has come may stay.
LEMMA BreakKeeps == ASSUME SInv, Break PROVE SInv'
<1>1. FlagTypes'
  BY Zenon DEF Break, flags, FlagTypes, SInv
<1>2. faults' \in 0 .. MaxFaults
  BY FaultCounts DEF Break, SInv, PlaceTypes
<1>3. PlaceTypes'
  BY <1>2 DEF Break, PlaceTypes, SInv
<1>4. Front' = Front /\ Empty' = Empty /\ \A e : OnQueue(e) => OnQueue(e)'
  BY FrontStays DEF Break
<1>5. \A e \in Range(wire) : e \in Event /\ OnQueue(e)
  BY LenProperties, ElementOfSeq DEF Range, SInv, DataTypes, Sent
<1>6. <<>> \in Seq(Event) /\ inbound' \in Seq(Frame)
  <2>1. inbound \in Seq(Frame) /\ "close" \in Frame /\ <<>> \in Seq(Frame)
    BY EmptySeq DEF SInv, DataTypes, Frame
  <2>2. inbound' \in {inbound, <<>>, Append(inbound, "close")}
    BY DEF Break
  <2>3. Append(inbound, "close") \in Seq(Frame)
    BY <2>1, AppendProperties
  <2>. QED  BY <2>1, <2>2, <2>3, EmptySeq
<1>7. DataTypes'
  BY <1>5, <1>6 DEF Break, queue, SInv, DataTypes
<1>8. Sent'
  BY <1>4, <1>5 DEF Break, SInv, Sent
<1>9. OnFront'
  BY <1>4 DEF Break, SInv, OnFront
<1>10. ASSUME orderly' PROVE OneAtATime' /\ InStep'
  <2>1. orderly
    BY <1>10, Zenon DEF Break
  <2>2. OneAtATime /\ InStep
    BY <2>1 DEF SInv, Ordered
  <2>3. inbound' \in {inbound, <<>>} /\ wire' = <<>>
    BY <1>10 DEF Break
  <2>4. InFlight' => inbound' = inbound /\ inbound # <<>> /\ InFlight
    BY <2>3 DEF InFlight
  <2>. QED  BY <1>4, <2>2, <2>3, <2>4 DEF Break, OneAtATime, InStep, InFlight
<1>. QED  BY <1>1, <1>3, <1>7, <1>8, <1>9, <1>10 DEF SInv, Ordered

\* A step that changes nothing of the sender keeps SInv.
LEMMA StutterKeeps == ASSUME SInv, UNCHANGED vars PROVE SInv'
<1>1. UNCHANGED <<queue, conn, far, flags, sender, handle, faults>>
  BY DEF vars
<1>2. FlagTypes'
  BY <1>1, Zenon DEF flags, far, SInv, FlagTypes
<1>. QED
  BY <1>1, <1>2, ConnStays DEF SInv, PlaceTypes, OnFront, Ordered, InStep, far

\* SInv holds of the sender with any caller.
THEOREM SInvHolds == Spec => []SInv
<1>1. SInv /\ [Next]_vars => SInv'
  BY CallerKeeps, SenderKeeps, HandlerKeeps, HandlerRaisesKeeps, HandlerLateKeeps, BreakKeeps,
     StutterKeeps
  DEF Next, Environment
<1>2. QED
  BY SInvInit, <1>1, PTL DEF Spec

\* Types, for any number of events and faults.
THEOREM TypeCorrect == Spec => []TypeOK
  BY SInvHolds, TypesOfSInv, PTL DEF SInv
-----------------------------------------------------------------------------
(***************************************************************************)
(* The promise of Delivery.                                                *)
(***************************************************************************)
\* A push puts an event, a blank place, both or nothing on the queue.
LEMMA PushAccepts ==
  ASSUME accepted \in Seq(Event), NEW e \in Event, queueMsg(e)
  PROVE  [Promise!Next]_(Promise!vars)
<1>1. UNCHANGED <<acked, received, orderly>>
  BY DEF queueMsg, far
<1>2. CASE UNCHANGED accepted
  BY <1>1, <1>2 DEF Promise!vars
<1>3. CASE \E s \in Pushed(e) : accepted' = accepted \o s
  <2>1. PICK s \in {<<e>>, <<>>, <<Blank>>, <<e, Blank>>} : accepted' = accepted \o s
    BY <1>3 DEF Pushed
  <2>2. Blank \in Event
    BY SenderAssumption DEF Blank, Event
  <2>3. CASE accepted' = accepted \o <<>>
    BY <1>1, <2>3 DEF Promise!vars
  <2>4. CASE \E f, g \in Event : accepted' \in {Append(accepted, f), accepted \o <<f, g>>}
    BY <1>1, <2>4 DEF Promise!Accept, Promise!Next
  <2>5. \A f \in Event : accepted \o <<f>> = Append(accepted, f)
    OBVIOUS
  <2>6. CASE s = <<e>> \/ s = <<Blank>>
    BY <2>1, <2>2, <2>4, <2>5, <2>6
  <2>7. CASE s = <<e, Blank>>
    BY <2>1, <2>2, <2>4, <2>7
  <2>. QED  BY <2>1, <2>3, <2>6, <2>7
<1>. QED  BY <1>2, <1>3 DEF queueMsg

\* What the server gets is the event in front or one that has left the queue.
LEMMA GetsOnQueue ==
  ASSUME NEW e, OnQueue(e), received' = received \cup {e}, UNCHANGED queue,
         orderly' = orderly \/ orderly' = FALSE
  PROVE  Promise!Next
<1>1. PICK k \in 1 .. acked + 1 : k \in DOMAIN accepted /\ e = accepted[k]
  BY DEF OnQueue
<1>2. orderly' \in {orderly, FALSE}
  BY Zenon
<1>3. Promise!Store
  BY <1>1, <1>2 DEF Promise!Store, queue
<1>. QED  BY <1>3 DEF Promise!Next

\* A step of the sender is one of the promise, or changes nothing of it.
LEMMA StepKeepsPromise == SInv /\ [Next]_vars => [Promise!Next]_(Promise!vars)
<1> SUFFICES ASSUME SInv, [Next]_vars PROVE [Promise!Next]_(Promise!vars)
  OBVIOUS
<1>1. ASSUME UNCHANGED <<queue, received, orderly>> PROVE [Promise!Next]_(Promise!vars)
  BY <1>1 DEF Promise!vars, queue
<1>2. CASE \E e \in Event \ {Blank} : queueMsg(e)
  BY <1>2, PushAccepts DEF SInv, DataTypes
<1>3. CASE Pop
  <2>1. acked < Len(accepted)
    BY <1>3 DEF Pop, SInv, DataTypes, OnFront, Working, Empty
  <2>2. orderly => accepted[acked + 1] \in received
    BY <1>3 DEF Pop, SInv, Ordered, InStep, Front
  <2>3. Promise!Acknowledge
    BY <1>3, <2>1, <2>2 DEF Pop, far, Promise!Acknowledge
  <2>. QED  BY <2>3 DEF Promise!Next
<1>4. CASE handler
  <2>1. OnQueue(Head(wire)) /\ received' = received \cup {Head(wire)} /\ UNCHANGED queue
    BY <1>4, HandlerKeeps DEF handler
  <2>2. orderly' = orderly \/ orderly' = FALSE
    BY <1>4, Zenon DEF handler
  <2>. QED  BY <2>1, <2>2, GetsOnQueue
<1>5. CASE handlerRaises
  <2>1. OnQueue(Head(wire)) /\ UNCHANGED queue /\ orderly' = FALSE
    BY <1>5, HandlerRaisesKeeps DEF handlerRaises
  <2>2. CASE received' = received \cup {Head(wire)}
    BY <2>1, <2>2, GetsOnQueue
  <2>3. CASE received' = received
    <3>1. Promise!Disorder
      BY <2>1, <2>3 DEF Promise!Disorder, queue
    <3>. QED  BY <3>1 DEF Promise!Next
  <2>. QED  BY <1>5, <2>2, <2>3 DEF handlerRaises
<1>6. CASE handlerLate
  <2>1. PICK e \in stray : received' = received \cup {e}
    BY <1>6 DEF handlerLate
  <2>2. OnQueue(e) /\ UNCHANGED queue /\ orderly' = orderly
    BY <1>6 DEF handlerLate, SInv, Sent
  <2>. QED  BY <2>1, <2>2, GetsOnQueue
<1>7. CASE Break
  <2>1. UNCHANGED <<queue, received>> /\ (orderly' = orderly \/ orderly' = FALSE)
    BY <1>7, Zenon DEF Break
  <2>2. CASE orderly' = FALSE
    <3>1. Promise!Disorder
      BY <2>1, <2>2 DEF Promise!Disorder, queue
    <3>. QED  BY <3>1 DEF Promise!Next
  <2>. QED  BY <1>1, <2>1, <2>2
<1>8. CASE init \/ handshake \/ setShouldStop \/ cleanup \/ destroy \/ CallFails
  BY <1>1, <1>8
  DEF init, handshake, setShouldStop, cleanup, destroy, CallFails, far
<1>9. CASE SendStops \/ TakeFront \/ WebSocketSend \/ WebSocketReceive \/ ThreadCrashes
  BY <1>1, <1>9
  DEF SendStops, TakeFront, WebSocketSend, WebSocketReceive, Calls, ThreadCrashes, far
<1>10. CASE Transmit \/ AwaitReply \/ Reconnect
  BY <1>1, <1>10 DEF Transmit, AwaitReply, Reconnect, far
<1>11. CASE UNCHANGED vars
  BY <1>1, <1>11 DEF vars, far
<1>. QED
  BY <1>2, <1>3, <1>4, <1>5, <1>6, <1>7, <1>8, <1>9, <1>10, <1>11
  DEF Next, Caller, SenderStep, Environment

\* Whatever the caller does with the class, and whatever breaks: the events on the queue get to
\* the server in order, and as long as what comes back is whole answers, pop in send takes off
\* only what the server has.
THEOREM SenderImplementsDelivery == Spec => KeepsPromise
<1>1. Init => Promise!Init
  BY DEF Init, Promise!Init
<1>2. QED
  BY <1>1, SInvHolds, StepKeepsPromise, PTL DEF Spec, KeepsPromise, Promise!Spec

-----------------------------------------------------------------------------
(***************************************************************************)
(* The user program.                                                       *)
(***************************************************************************)
\* The events that the program makes are those that the bound allows.
Numbered == uiEventId \in 0 .. MaxEvents

\* An event that the program makes is queued as an event of the sender.
LEMMA QueuesEvents ==
  ASSUME Numbered, uiEventId < MaxEvents, uiEventId' = uiEventId + 1
  PROVE  uiEventId' \in Event \ {Blank} /\ Numbered'
  BY SenderAssumption DEF Numbered, Event, Blank

\* The main routine changes the sender only by queueMsg.
LEMMA RoutineIsCaller == ASSUME Numbered, Routine PROVE [Next]_vars /\ Numbered'
<1>1. CASE TestStop
  BY <1>1 DEF TestStop, log, Numbered
<1>2. CASE getRecord
  BY <1>2 DEF getRecord, log, Numbered, Next, Caller
<1>3. CASE composeEventLog
  <2>1. CASE uiEventId < MaxEvents /\ uiEventId' = uiEventId + 1
    BY <1>3, <2>1, QueuesEvents DEF composeEventLog, Next, Caller
  <2>2. CASE UNCHANGED <<vars, uiEventId>>
    BY <2>2 DEF Numbered
  <2>3. QED
    BY <1>3, <2>1, <2>2 DEF composeEventLog
<1>4. QED
  BY <1>1, <1>2, <1>3 DEF Routine

\* The console changes the sender only by calls of the class.
LEMMA ConsoleIsCaller == ASSUME Numbered, Console PROVE [Next]_vars /\ Numbered'
<1>1. CASE loadFilter \/ Started \/ stop \/ Join \/ unloadFilter \/ disconnectFromServer
           \/ connectToServer \/ Exit
  BY <1>1
  DEF loadFilter, Started, stop, Join, unloadFilter, disconnectFromServer, connectToServer,
      Exit, log, Numbered, Next, Caller
<1>2. CASE quit \/ Destroy
  BY <1>2 DEF quit, Destroy, log, Numbered, Next, Caller
<1>3. CASE TestInit \/ TestHandshake \/ TestKey \/ TestReturn
  BY <1>3 DEF TestInit, TestHandshake, TestKey, TestReturn, log, Numbered, Next, Caller
<1>4. CASE TestQueue
  BY <1>4, QueuesEvents DEF TestQueue, Next, Caller
<1>5. QED
  BY <1>1, <1>2, <1>3, <1>4 DEF Console

\* The user program is one of the callers that WebSocketSender allows.
THEOREM UserIsCaller == UserSpec => Spec
<1>1. UserInit => Init /\ Numbered
  BY SenderAssumption DEF UserInit, Numbered
<1>2. Numbered /\ [UserNext]_userVars => [Next]_vars /\ Numbered'
  BY RoutineIsCaller, ConsoleIsCaller
  DEF UserNext, Others, userVars, log, Numbered, Next
<1>3. QED
  BY <1>1, <1>2, PTL DEF UserSpec, Spec

\* So the program keeps it, whatever is typed, and so does the test.
THEOREM UserKeepsPromise == UserSpec => KeepsPromise
  BY UserIsCaller, SenderImplementsDelivery, PTL

-----------------------------------------------------------------------------
(***************************************************************************)
(* The main routine, the filter and the end.                               *)
(***************************************************************************)
AtWork == routine \in {"test", "get", "log"}

\* Types of what FilterUser adds to the sender.
FlagsOfUser ==
  /\ loaded \in BOOLEAN /\ bIsFilterLoaded \in BOOLEAN /\ bIsComPortConnected \in BOOLEAN
  /\ bMainShouldStop \in BOOLEAN /\ bHasStarted \in BOOLEAN /\ fMainRoutine \in BOOLEAN

PlacesOfUser ==
  /\ routine \in {"none", "test", "get", "log", "returned"}
  /\ console \in {"prompt", "init", "handshake", "join", "unload", "cleanup",
                  "destroy", "exiting", "exited", "crashed",
                  "test_init", "test_handshake", "test_queue"}

\* Where the console is when the program ends, and in the test.
Ending == {"destroy", "exiting", "exited"}
Testing == {"test_init", "test_handshake", "test_queue"}

\* The console has joined the routine before it comes to the filter, the filter is what
\* bIsFilterLoaded says, and the port is closed before the end.
Order ==
  /\ loaded = bIsFilterLoaded
  /\ console \in {"init", "handshake"} => loaded /\ bIsComPortConnected
  /\ console \in {"unload", "cleanup"} \cup Ending \cup Testing => ~AtWork
  /\ console \in Ending \cup Testing => ~bIsComPortConnected
  /\ console = "exited" => Destroyed

UInv == FlagsOfUser /\ PlacesOfUser /\ RoutineHasItsPort /\ Order

\* Both programs begin with nothing loaded and nothing at work.
LEMMA UInvInit == UserInit => UInv
<1> SUFFICES ASSUME UserInit PROVE UInv
  OBVIOUS
<1>1. FlagsOfUser
  BY Zenon DEF UserInit, FlagsOfUser
<1>2. PlacesOfUser
  BY DEF UserInit, PlacesOfUser
<1>3. RoutineHasItsPort
  BY DEF UserInit, RoutineHasItsPort
<1>4. Order
  BY DEF UserInit, Order, AtWork, Ending, Testing
<1>5. QED
  BY <1>1, <1>2, <1>3, <1>4 DEF UInv

\* A step of the console.  RoutineHasItsPort is what keeps "start", "quit" and a failed unload
\* away from a routine that is at work.
LEMMA ConsoleKeepsOrder == ASSUME UInv, Console PROVE UInv'
<1> USE DEF log, filter, main, shell
<1>1. CASE loadFilter
  <2>1. FlagsOfUser'
    BY <1>1, Zenon DEF loadFilter, UInv, FlagsOfUser
  <2>2. PlacesOfUser' /\ RoutineHasItsPort' /\ Order'
    BY <1>1
    DEF loadFilter, UInv, PlacesOfUser, RoutineHasItsPort, Order, AtWork, Ending, Testing
  <2>3. QED
    BY <2>1, <2>2 DEF UInv
<1>2. CASE connectToServer
  <2>1. FlagsOfUser'
    BY <1>2, Zenon DEF connectToServer, UInv, FlagsOfUser
  <2>2. PlacesOfUser' /\ RoutineHasItsPort' /\ Order'
    BY <1>2
    DEF connectToServer, UInv, PlacesOfUser, RoutineHasItsPort, Order, AtWork, Ending, Testing
  <2>3. QED
    BY <2>1, <2>2 DEF UInv
<1>3. CASE Started
  <2>1. FlagsOfUser'
    BY <1>3, Zenon DEF Started, UInv, FlagsOfUser
  <2>2. PlacesOfUser' /\ RoutineHasItsPort' /\ Order'
    BY <1>3
    DEF Started, UInv, PlacesOfUser, RoutineHasItsPort, Order, AtWork, Ending, Testing
  <2>3. QED
    BY <2>1, <2>2 DEF UInv
<1>4. CASE stop
  <2>1. FlagsOfUser'
    BY <1>4, Zenon DEF stop, UInv, FlagsOfUser
  <2>2. PlacesOfUser' /\ RoutineHasItsPort' /\ Order'
    BY <1>4 DEF stop, UInv, PlacesOfUser, RoutineHasItsPort, Order, AtWork, Ending, Testing
  <2>3. QED
    BY <2>1, <2>2 DEF UInv
<1>5. CASE Join
  <2>1. FlagsOfUser'
    BY <1>5, Zenon DEF Join, UInv, FlagsOfUser
  <2>2. PlacesOfUser' /\ RoutineHasItsPort' /\ Order'
    BY <1>5 DEF Join, UInv, PlacesOfUser, RoutineHasItsPort, Order, AtWork, Ending, Testing
  <2>3. QED
    BY <2>1, <2>2 DEF UInv
<1>6. CASE unloadFilter
  <2>1. FlagsOfUser'
    BY <1>6, Zenon DEF unloadFilter, UInv, FlagsOfUser
  <2>2. PlacesOfUser' /\ RoutineHasItsPort' /\ Order'
    BY <1>6
    DEF unloadFilter, UInv, PlacesOfUser, RoutineHasItsPort, Order, AtWork, Ending, Testing
  <2>3. QED
    BY <2>1, <2>2 DEF UInv
<1>7. CASE disconnectFromServer
  <2>1. FlagsOfUser'
    BY <1>7, Zenon DEF disconnectFromServer, UInv, FlagsOfUser
  <2>2. PlacesOfUser' /\ RoutineHasItsPort' /\ Order'
    BY <1>7
    DEF disconnectFromServer, UInv, PlacesOfUser, RoutineHasItsPort, Order, AtWork, Ending,
        Testing
  <2>3. QED
    BY <2>1, <2>2 DEF UInv
<1>8. CASE quit
  <2>1. ~AtWork
    BY <1>8 DEF quit, UInv, RoutineHasItsPort, AtWork
  <2>2. FlagsOfUser'
    BY <1>8, Zenon DEF quit, UInv, FlagsOfUser, Order
  <2>3. loaded' = bIsFilterLoaded'
    BY <1>8 DEF quit, UInv, Order, FlagsOfUser
  <2>4. PlacesOfUser' /\ RoutineHasItsPort' /\ Order'
    BY <1>8, <2>1, <2>3
    DEF quit, UInv, PlacesOfUser, RoutineHasItsPort, Order, AtWork, Ending, Testing
  <2>5. QED
    BY <2>2, <2>4 DEF UInv
<1>9. CASE Destroy \/ Exit
  <2>1. FlagsOfUser'
    BY <1>9, Zenon DEF Destroy, Exit, UInv, FlagsOfUser
  <2>2. console' = "exited" => Destroyed'
    BY <1>9 DEF Destroy, Exit, Destroyed, vars
  <2>3. PlacesOfUser' /\ RoutineHasItsPort' /\ Order'
    BY <1>9, <2>2
    DEF Destroy, Exit, UInv, PlacesOfUser, RoutineHasItsPort, Order, AtWork, Ending, Testing
  <2>4. QED
    BY <2>1, <2>3 DEF UInv
<1>10. CASE TestInit \/ TestHandshake \/ TestQueue \/ TestKey \/ TestReturn
  <2>1. FlagsOfUser'
    BY <1>10, Zenon
    DEF TestInit, TestHandshake, TestQueue, TestKey, TestReturn, UInv, FlagsOfUser
  <2>2. PlacesOfUser' /\ RoutineHasItsPort' /\ Order'
    BY <1>10
    DEF TestInit, TestHandshake, TestQueue, TestKey, TestReturn, UInv, PlacesOfUser,
        RoutineHasItsPort, Order, AtWork, Ending, Testing
  <2>3. QED
    BY <2>1, <2>2 DEF UInv
<1>11. QED
  BY <1>1, <1>2, <1>3, <1>4, <1>5, <1>6, <1>7, <1>8, <1>9, <1>10 DEF Console

\* A step of the main routine, which stays at work or returns.
LEMMA RoutineKeepsOrder == ASSUME UInv, Routine PROVE UInv'
<1> USE DEF log, filter, main, shell
<1>1. AtWork
  BY DEF Routine, TestStop, getRecord, composeEventLog, AtWork
<1>2. routine' \in {"none", "test", "get", "log", "returned"}
      /\ UNCHANGED <<filter, shell>>
  BY DEF Routine, TestStop, getRecord, composeEventLog
<1>3. bMainShouldStop' \in BOOLEAN
  BY Zenon DEF Routine, TestStop, getRecord, composeEventLog, UInv, FlagsOfUser
<1>4. FlagsOfUser'
  BY <1>2, <1>3, Zenon DEF UInv, FlagsOfUser
<1>5. PlacesOfUser' /\ RoutineHasItsPort' /\ Order'
  BY <1>1, <1>2
  DEF UInv, PlacesOfUser, RoutineHasItsPort, Order, AtWork, Ending, Testing
<1>6. QED
  BY <1>4, <1>5 DEF UInv

\* The sender and its surroundings leave the user program alone; a thread that has ended stays so.
LEMMA OthersKeepOrder == ASSUME UInv, SenderStep \/ Environment, Others PROVE UInv'
<1>1. Destroyed => Destroyed'
  BY DEF SenderStep, SendStops, TakeFront, WebSocketSend, WebSocketReceive, Calls, Transmit,
         AwaitReply, Pop, Reconnect, ThreadCrashes, Environment, handler, handlerRaises,
         handlerLate, Break, Destroyed
<1>2. FlagsOfUser'
  BY Zenon DEF Others, filter, main, shell, UInv, FlagsOfUser
<1>3. PlacesOfUser' /\ RoutineHasItsPort' /\ Order'
  BY <1>1
  DEF Others, filter, main, shell, UInv, PlacesOfUser, RoutineHasItsPort, Order, AtWork
<1>4. QED
  BY <1>2, <1>3 DEF UInv

\* UInv holds of the user program.
THEOREM UInvHolds == UserSpec => []UInv
<1>1. ASSUME UInv, UNCHANGED userVars PROVE UInv'
  <2>1. FlagsOfUser'
    BY <1>1, Zenon DEF userVars, filter, main, shell, UInv, FlagsOfUser
  <2>2. PlacesOfUser' /\ RoutineHasItsPort' /\ Order'
    BY <1>1
    DEF userVars, vars, filter, main, shell, UInv, PlacesOfUser, RoutineHasItsPort, Order,
        AtWork, Destroyed
  <2>3. QED
    BY <2>1, <2>2 DEF UInv
<1>2. UInv /\ [UserNext]_userVars => UInv'
  BY <1>1, ConsoleKeepsOrder, RoutineKeepsOrder, OthersKeepOrder DEF UserNext
<1>3. QED
  BY UInvInit, <1>2, PTL DEF UserSpec

\* No order of commands and failures unloads the driver, closes the port or destroys FilterUser
\* under the main routine.
THEOREM RoutineKeepsItsPort == UserSpec => []RoutineHasItsPort
  BY UInvHolds, PTL DEF UInv

\* Behind the end of the program no port, no thread and no driver is left, but for a driver
\* whose unload has failed.
THEOREM EndLeavesNothing == UserSpec => []ExitLeavesNothing
<1>1. UInv => ExitLeavesNothing
  BY DEF UInv, Order, ExitLeavesNothing, AtWork, Ending, Testing
<1>2. QED
  BY <1>1, UInvHolds, PTL

-----------------------------------------------------------------------------
\* getFileHash leaves the handle of the image and nothing else, whichever call fails.
LEMMA HashLeavesFile == \A l \in logged : l \subseteq {"file"}
<1>1. \A s \in HashSteps : getFileHash(s) \subseteq {"file"}
  BY DEF getFileHash, HashSteps
<1>2. QED
  BY <1>1 DEF logged

Released == leaked \subseteq {"file"}

\* What hashing an image leaves open is the handle of the file or nothing.
LEMMA LeakKeeps ==
  ASSUME Released, [UserNext]_userVars
  PROVE  Released'
<1>1. CASE composeEventLog
  BY <1>1, HashLeavesFile DEF composeEventLog, Released
<1>2. CASE ~composeEventLog
  <2>1. leaked' = leaked
    BY <1>2
    DEF UserNext, Console, Routine, Others, userVars, log, loadFilter, connectToServer, Started,
        stop, Join, unloadFilter, disconnectFromServer, quit, Destroy, Exit, TestInit,
        TestHandshake, TestQueue, TestKey, TestReturn, TestStop, getRecord
  <2>2. QED
    BY <2>1 DEF Released
<1>3. QED
  BY <1>1, <1>2

\* Types of the user program, and that hashing releases what the cryptographic provider gives.
THEOREM UserTypeCorrect == UserSpec => []UserTypeOK
<1>1. UserInit => Released /\ Numbered
  BY SenderAssumption DEF UserInit, Numbered, Released
<1>2. Numbered /\ Released /\ [UserNext]_userVars
        => Numbered' /\ Released'
  BY RoutineIsCaller, ConsoleIsCaller, LeakKeeps DEF UserNext, Others, userVars, log, Numbered
<1>3. UserSpec => [](Numbered /\ Released)
  BY <1>1, <1>2, PTL DEF UserSpec
<1>4. TypeOK /\ UInv /\ Numbered /\ Released => UserTypeOK
  BY DEF UInv, FlagsOfUser, PlacesOfUser, Numbered, Released, UserTypeOK
<1>5. QED
  BY <1>3, <1>4, UserIsCaller, TypeCorrect, UInvHolds, PTL

-----------------------------------------------------------------------------
(***************************************************************************)
(* The sending thread while nothing fails: it idles before the handshake   *)
(* with nothing on the queue, and is behind one with a connection from     *)
(* then on.                                                                *)
(***************************************************************************)
\* "start" has not yet succeeded while it runs, nor at the end, nor in the test; after it has, the
\* driver is there until the clean-up.
StartOrder ==
  /\ bHasStarted => loaded \/ console = "cleanup"
  /\ console \in {"init", "handshake"} \cup Ending \cup Testing => ~bHasStarted

Calm == faults = 0 /\ ~bShouldStop

BehindHandshake == bHasStarted \/ console = "test_queue"

\* Where the thread is then; that it meets a push may be the end of the process.
Serving == {"idle", "front", "transmit", "receive", "await", "pop", "crashed"}

CalmThread ==
  Calm =>
    IF BehindHandshake
    THEN handle = "ready" /\ sock = "up" /\ sender \in Serving
    ELSE /\ accepted = <<>> /\ sender \in {"none", "idle"} /\ handle # "dangling"
         /\ console \in {"handshake", "test_handshake"} => handle = "new" /\ sender = "idle"

CInv == StartOrder /\ CalmThread

\* No step takes a fault or a stop back, so what is calm behind it was calm before it, and
\* the step was none of those that fail.
LEMMA CalmBefore ==
  ASSUME TypeOK, [Next]_vars, Calm'
  PROVE  Calm /\ ~Fault
<1>1. faults \in Nat
  BY SenderAssumption DEF TypeOK
<1>2. ~Fault
  BY <1>1 DEF Fault, Calm
<1>3. CASE init \/ handshake \/ setShouldStop \/ cleanup \/ destroy
  BY <1>2, <1>3
  DEF init, handshake, HandshakeSucceeds, HandshakeFails, setShouldStop, cleanup, destroy, flags,
      Calm
<1>4. CASE CallFails \/ \E e \in Event \ {Blank} : queueMsg(e)
  BY <1>2, <1>4 DEF CallFails, queueMsg, flags, Calm
<1>5. CASE SenderStep
  BY <1>2, <1>5
  DEF SenderStep, SendStops, TakeFront, WebSocketSend, WebSocketReceive, Calls, Transmit,
      AwaitReply, Pop, Reconnect, ThreadCrashes, HandshakeSucceeds, HandshakeFails, CreateFails,
      flags, Calm
<1>6. CASE Environment
  <2>1. UNCHANGED flags /\ UNCHANGED faults
    BY <1>2, <1>6 DEF Environment, handler, handlerRaises, handlerLate, Break
  <2>. QED  BY <1>2, <2>1 DEF flags, Calm
<1>7. CASE UNCHANGED vars
  BY <1>2, <1>7 DEF vars, flags, Calm
<1>. QED  BY <1>3, <1>4, <1>5, <1>6, <1>7 DEF Next, Caller

\* Nothing has started in either program.
LEMMA CInvInit == UserInit => CInv
  BY DEF UserInit, Init, CInv, StartOrder, CalmThread, BehindHandshake, Ending, Testing

\* A step of the console keeps the order of "start" and "stop".
LEMMA ConsoleKeepsStartOrder == ASSUME UInv, StartOrder, Console PROVE StartOrder'
<1> USE DEF StartOrder, Ending, Testing, filter
<1>1. CASE loadFilter \/ connectToServer \/ Started
  BY <1>1 DEF loadFilter, connectToServer, Started, UInv, Order
<1>2. CASE stop \/ Join \/ unloadFilter \/ disconnectFromServer
  BY <1>2 DEF stop, Join, unloadFilter, disconnectFromServer
<1>3. CASE quit \/ Destroy \/ Exit
  BY <1>3 DEF quit, Destroy, Exit
<1>4. CASE TestInit \/ TestHandshake \/ TestQueue \/ TestKey \/ TestReturn
  BY <1>4 DEF TestInit, TestHandshake, TestQueue, TestKey, TestReturn, shell
<1>. QED  BY <1>1, <1>2, <1>3, <1>4 DEF Console

\* A step of the console: only "start" and the test make a thread and a handshake, in this order,
\* and no clean-up gets past a thread that has not ended.
LEMMA ConsoleKeepsCalm ==
  ASSUME TypeOK, UInv, CInv, Console, [Next]_vars
  PROVE  CalmThread'
<1>. SUFFICES ASSUME Calm' PROVE CalmThread'
  BY DEF CalmThread
<1>1. Calm /\ ~Fault
  BY CalmBefore
<1>2. ~CallFails /\ ~HandshakeFails
  BY <1>1 DEF CallFails, HandshakeFails
<1>3. IF BehindHandshake
      THEN handle = "ready" /\ sock = "up" /\ sender \in Serving
      ELSE /\ accepted = <<>> /\ sender \in {"none", "idle"} /\ handle # "dangling"
           /\ console \in {"handshake", "test_handshake"} => handle = "new" /\ sender = "idle"
  BY <1>1 DEF CInv, CalmThread
<1> USE DEF CalmThread, BehindHandshake, Serving, filter, log, main, shell, vars, queue, conn, flags
<1>4. CASE loadFilter \/ connectToServer
  BY <1>2, <1>3, <1>4 DEF loadFilter, connectToServer, init, CInv, StartOrder
<1>5. CASE Started
  BY <1>2, <1>3, <1>5 DEF Started, handshake, HandshakeSucceeds, Turn, CInv, StartOrder
<1>6. CASE stop \/ Join
  BY <1>3, <1>6 DEF stop, Join
<1>7. CASE unloadFilter \/ disconnectFromServer
  BY <1>2, <1>3, <1>7 DEF unloadFilter, disconnectFromServer, cleanup
<1>8. CASE quit \/ Destroy \/ Exit
  BY <1>2, <1>3, <1>8 DEF quit, Destroy, Exit, destroy, DeletesTwice, CInv, StartOrder, Ending
<1>9. CASE TestInit
  BY <1>2, <1>3, <1>9 DEF TestInit, init, CInv, StartOrder, Testing
<1>10. CASE TestHandshake
  BY <1>2, <1>3, <1>10
  DEF TestHandshake, handshake, HandshakeSucceeds, Turn, CInv, StartOrder, Testing
<1>11. CASE TestQueue
  BY <1>3, <1>11 DEF TestQueue, queueMsg
<1>12. CASE TestKey \/ TestReturn
  BY <1>1, <1>3, <1>12 DEF TestKey, TestReturn, setShouldStop, Calm
<1>. QED
  BY <1>4, <1>5, <1>6, <1>7, <1>8, <1>9, <1>10, <1>11, <1>12 DEF Console

\* The main routine queues events only behind "start".
LEMMA RoutineKeepsCalm ==
  ASSUME TypeOK, UInv, CInv, Routine, [Next]_vars
  PROVE  CInv'
<1>1. bHasStarted /\ UNCHANGED <<filter, shell>>
  BY DEF Routine, TestStop, getRecord, composeEventLog, UInv, RoutineHasItsPort
<1>2. StartOrder'
  BY <1>1 DEF CInv, StartOrder, Ending, Testing, filter, shell
<1>3. CalmThread'
  <2>. SUFFICES ASSUME Calm' PROVE CalmThread'
    BY DEF CalmThread
  <2>1. Calm /\ ~CallFails
    BY CalmBefore DEF CallFails
  <2>2. UNCHANGED <<handle, sock>> /\ sender' \in {sender, "crashed"}
    BY <2>1 DEF Routine, TestStop, getRecord, composeEventLog, queueMsg, vars, conn
  <2>. QED  BY <1>1, <2>1, <2>2 DEF CInv, CalmThread, BehindHandshake, Serving, shell
<1>. QED  BY <1>2, <1>3 DEF CInv

\* The thread and the network: before the handshake the thread finds nothing to send, and
\* behind it a connection that nothing breaks.
LEMMA OthersKeepCalm ==
  ASSUME TypeOK, CInv, SenderStep \/ Environment, Others, [Next]_vars
  PROVE  CInv'
<1>1. StartOrder'
  BY DEF CInv, StartOrder, Ending, Testing, Others, filter, shell
<1>2. CalmThread'
  <2>. SUFFICES ASSUME Calm' PROVE CalmThread'
    BY DEF CalmThread
  <2>1. Calm /\ ~Fault
    BY CalmBefore
  <2>2. BehindHandshake' <=> BehindHandshake
    BY DEF Others, shell, BehindHandshake
  <2>3. UNCHANGED console
    BY DEF Others, shell
  <2> USE DEF CInv, CalmThread, Serving, queue, conn
  <2>4. CASE Environment
    BY <2>1, <2>2, <2>3, <2>4 DEF Environment, handler, handlerRaises, handlerLate, Break
  <2>5. CASE SenderStep /\ BehindHandshake
    BY <2>1, <2>2, <2>5
    DEF SenderStep, SendStops, TakeFront, WebSocketSend, WebSocketReceive, Calls, Transmit,
        AwaitReply, LoopWithoutHandle, Pop, Reconnect, ThreadCrashes, Calm
  <2>6. CASE SenderStep /\ ~BehindHandshake
    <3>1. Empty
      BY <2>1, <2>6 DEF TypeOK, Empty
    <3>. QED
      BY <2>1, <2>6, <3>1
      DEF SenderStep, SendStops, TakeFront, WebSocketSend, WebSocketReceive, Calls, Transmit,
          AwaitReply, Pop, Reconnect, ThreadCrashes, Calm
  <2>. QED  BY <2>4, <2>5, <2>6
<1>. QED  BY <1>1, <1>2 DEF CInv

\* No order of commands and events ends the sending thread under the caller as long as no call and
\* no connection fails and nobody stops it: send never finds an event before the handshake.
THEOREM ThreadStaysInCalm == UserSpec => []ThreadOutlivesCalm
<1>1. ASSUME TypeOK, UInv, Numbered, CInv, [UserNext]_userVars PROVE CInv' /\ Numbered'
  <2>1. CASE Console
    BY <1>1, <2>1, ConsoleIsCaller, ConsoleKeepsStartOrder, ConsoleKeepsCalm DEF CInv
  <2>2. CASE Routine
    BY <1>1, <2>2, RoutineIsCaller, RoutineKeepsCalm
  <2>3. CASE (SenderStep \/ Environment) /\ Others
    <3>1. [Next]_vars /\ Numbered'
      BY <1>1, <2>3 DEF Next, Others, log, Numbered
    <3>. QED  BY <1>1, <2>3, <3>1, OthersKeepCalm
  <2>4. CASE UNCHANGED userVars
    BY <1>1, <2>4
    DEF userVars, vars, queue, conn, flags, log, filter, main, shell, Numbered, CInv, StartOrder,
        CalmThread, Calm, BehindHandshake
  <2>. QED  BY <1>1, <2>1, <2>2, <2>3, <2>4 DEF UserNext
<1>2. UserInit => CInv /\ Numbered
  BY CInvInit, SenderAssumption DEF UserInit, Numbered
<1>3. TypeOK /\ CInv => ThreadOutlivesCalm
  <2>1. TypeOK => faults \in Nat
    BY SenderAssumption DEF TypeOK
  <2>. QED  BY <2>1 DEF CInv, CalmThread, Serving, Calm, ThreadOutlivesCalm
<1>. QED  BY <1>1, <1>2, <1>3, UserIsCaller, TypeCorrect, UInvHolds, PTL DEF UserSpec
=============================================================================
