-------------------------- MODULE WebSocketSender --------------------------
(***************************************************************************)
(* WebSocketClient.cpp of the MiniFilter's user program, with the sockets  *)
(* below it and the two servers it can talk to.  The caller puts events on *)
(* a queue; a thread of the client sends the one in front, waits for       *)
(* something to come back, and takes it off.  A connection that breaks is  *)
(* replaced, and the event is sent again.                                  *)
(*                                                                         *)
(* Nothing guards the queue: a push that meets a pop changes its size with *)
(* the pop, and one of the two changes may be lost; one that makes the     *)
(* deque grow frees the map that the thread may be reading.  What is read  *)
(* in a place of the queue that holds no event is Blank.                   *)
(*                                                                         *)
(* Of websocket.dll (external) the module takes: WebSocketSend and         *)
(* WebSocketReceive refuse a handle that is not behind a handshake, and    *)
(* may refuse others; every frame completes a receive, whatever its type;  *)
(* an action loop on an aborted handle, or behind a socket call that       *)
(* failed, ends; a handle that cannot be created is NULL.                  *)
(*                                                                         *)
(* An event is its uiEventId.  Next lets the caller do whatever the class  *)
(* allows; FilterUser has the callers that there are.                      *)
(***************************************************************************)
EXTENDS Naturals, Sequences, Functions

CONSTANTS
  MaxEvents,  \* bound: the events that the caller makes
  MaxFaults   \* bound: connections that break or that the server ends, and calls that fail

ASSUME SenderAssumption == MaxEvents \in Nat /\ MaxFaults \in Nat

Blank == 0
Event == 0 .. MaxEvents

VARIABLES
  accepted,    \* qwsMsgQueue and all that has left it: the queue is what follows
  acked,       \*   the first acked events
  bShouldStop,
  bIsHandshakeSuccessful,
  handle,      \* wshClient: "null", "new", "ready" behind a handshake, "aborted", or
               \*   "dangling": deleted
  sock,        \* connectSocket: "none", "up", "closed" by the server in good order,
               \*   or "dead": a shutdown of it fails
  sender,      \* the thread of fSendMsgFuture: where it is; "none" when get() has returned;
               \*   "spinning" in an action loop that does not end; "crashed" with the process
  wire,        \* the events that are under way on this connection
  stray,       \* those that were under way on connections that are gone
  inbound,     \* the frames that the client has not received
  server,      \* which one it is: "ws" or "ws2"
  received,    \* the events that the handler of the server has been through with
  orderly,     \* history: every frame so far was one whole answer
  faults

queue == <<accepted, acked>>
conn == <<sock, wire, stray, inbound>>
flags == <<bShouldStop, bIsHandshakeSuccessful>>
far == <<server, received, orderly>>
vars == <<queue, flags, handle, conn, sender, far, faults>>

Empty == acked = Len(accepted)
Front == accepted[acked + 1]

Init ==
  /\ accepted = <<>> /\ acked = 0
  /\ bShouldStop = FALSE /\ bIsHandshakeSuccessful = FALSE
  /\ handle = "null" /\ sock = "none" /\ sender = "none"
  /\ wire = <<>> /\ stray = {} /\ inbound = <<>>
  /\ server \in {"ws", "ws2"} /\ received = {} /\ orderly = TRUE
  /\ faults = 0

Fault == faults < MaxFaults /\ faults' = faults + 1

\* The client turns to another socket; the one before is not closed.
Turn(s) ==
  /\ sock' = s
  /\ wire' = <<>> /\ stray' = stray \cup Range(wire)
  /\ inbound' = <<>>

(***************************************************************************)
(* The caller.                                                             *)
(***************************************************************************)
\* The thread starts before there is a connection.  Its future is assigned, which would wait
\* for the thread of an earlier init; no caller comes here while there is one.
init ==
  /\ sender \in {"none", "ended"}
  /\ handle' = "new" /\ sender' = "idle"
  /\ Turn("none")
  /\ UNCHANGED <<queue, flags, far, faults>>

\* connectToHost, the GET request and its response: 101 and a good response make the
\* handle ready.  That connect fails is seen only when the response does not come.
HandshakeSucceeds ==
  /\ Turn("up")
  /\ handle' = "ready"
  /\ bIsHandshakeSuccessful' = TRUE
  /\ UNCHANGED faults

HandshakeFails ==
  /\ Fault
  /\ \E s \in {"up", "closed", "dead"} : Turn(s)
  /\ handle' = "new"
  /\ UNCHANGED bIsHandshakeSuccessful

handshake ==
  /\ handle = "new"
  /\ HandshakeSucceeds \/ HandshakeFails
  /\ UNCHANGED <<queue, bShouldStop, sender, far>>

\* What a push leaves on the queue: when it meets a pop, the size may miss the one or the
\* other, so that the event is not seen, or a place without an event is.
Pushed(e) == IF sender = "pop" THEN {<<e>>, <<>>, <<Blank>>, <<e, Blank>>} ELSE {<<e>>}

queueMsg(e) ==
  /\ \/ (\E s \in Pushed(e) : accepted' = accepted \o s) /\ UNCHANGED sender
     \/ sender \in {"front", "pop"} /\ sender' = "crashed" /\ UNCHANGED accepted
  /\ UNCHANGED <<acked, flags, handle, conn, far, faults>>

setShouldStop ==
  /\ bShouldStop' = TRUE
  /\ UNCHANGED <<queue, bIsHandshakeSuccessful, handle, conn, sender, far, faults>>

\* A handle that reconnect has deleted is deleted a second time.
DeletesTwice == handle = "dangling" /\ sender' = "crashed"

\* get() waits for the thread, and nothing here tells the thread to stop.
cleanup ==
  /\ sender = "ended"
  /\ sender' = "none" \/ DeletesTwice
  /\ handle' = "null"
  /\ bIsHandshakeSuccessful' = FALSE
  /\ \E s \in {"closed", "dead"} : Turn(s)
  /\ UNCHANGED <<queue, bShouldStop, far, faults>>

\* ~WebSocketClient drops the handle, also under the thread; Destroyed follows, when the
\* destructor of fSendMsgFuture has waited for the thread.
destroy ==
  /\ handle' = "null"
  /\ UNCHANGED sender \/ DeletesTwice
  /\ UNCHANGED <<queue, flags, conn, far, faults>>

Destroyed == sender \in {"none", "ended"}

\* A call that fails and leaves everything as it is.
CallFails ==
  /\ Fault
  /\ UNCHANGED <<queue, flags, handle, conn, sender, far>>

Caller ==
  \/ init \/ handshake \/ setShouldStop \/ cleanup \/ destroy \/ CallFails
  \/ \E e \in Event \ {Blank} : queueMsg(e)

(***************************************************************************)
(* The sending thread: send, runGetActionLoop and reconnect.               *)
(***************************************************************************)
SendStops ==
  /\ sender = "idle" /\ bShouldStop
  /\ sender' = "ended"
  /\ UNCHANGED <<queue, flags, handle, conn, far, faults>>

\* The queue is not empty, and front() is copied.
TakeFront ==
  /\ sender = "idle" /\ ~bShouldStop /\ ~Empty
  /\ sender' = "front"
  /\ UNCHANGED <<queue, flags, handle, conn, far, faults>>

\* A call that sends or receives; when it is refused, the thread returns.
Calls(from, to) ==
  /\ sender = from
  /\ \/ handle \in {"ready", "dangling"} /\ sender' = to /\ UNCHANGED faults
     \/ handle # "ready" /\ sender' = "ended" /\ UNCHANGED faults
     \/ Fault /\ sender' = "ended"
  /\ UNCHANGED <<queue, flags, handle, conn, far>>

WebSocketSend == Calls("front", "transmit")

WebSocketReceive == Calls("receive", "await")

\* runGetActionLoop without a handle: WebSocketGetAction fails in every round and leaves the
\* action as it was, so the loop ends at once or never.
LoopWithoutHandle ==
  /\ handle = "null"
  /\ sender' \in {"spinning", "reconnect"}
  /\ UNCHANGED handle

Aborted == IF handle = "dangling" THEN "dangling" ELSE "aborted"

\* The first action loop.  A code of WSAGetLastError is no FAILED(hr), so the thread goes on
\* to WebSocketReceive; the library may refuse to go on, and then the handle is aborted.
Transmit ==
  /\ sender = "transmit"
  /\ \/ /\ handle # "null" /\ sock = "up"
        /\ wire' = Append(wire, Front)
        /\ sender' = "receive"
        /\ UNCHANGED handle
     \/ /\ handle # "null" /\ sock # "up"
        /\ \/ sender' = "receive" /\ handle' \in {handle, Aborted}
           \/ sender' = "reconnect" /\ handle' = Aborted
        /\ UNCHANGED wire
     \/ LoopWithoutHandle /\ UNCHANGED wire
  /\ UNCHANGED <<queue, flags, sock, stray, inbound, far, faults>>

\* Mutant of AwaitReply: FAILED(hr), which a code of WSAGetLastError is not, for hr.
AwaitReplyFailed ==
  /\ sender = "await"
  /\ \/ /\ handle # "null" /\ inbound # <<>>
        /\ sender' = "pop" /\ inbound' = Tail(inbound)
     \/ /\ handle # "null" /\ inbound = <<>> /\ sock # "up"
        /\ sender' = IF sock = "dead" THEN "pop" ELSE "reconnect"
        /\ UNCHANGED inbound
  /\ UNCHANGED <<queue, flags, handle, sock, wire, stray, far, faults>>

\* The second action loop: a frame, whichever, or an end of the connection, of either kind.
AwaitReply ==
  /\ sender = "await"
  /\ \/ /\ handle # "null" /\ inbound # <<>>
        /\ sender' = "pop" /\ inbound' = Tail(inbound)
        /\ UNCHANGED handle
     \/ /\ handle # "null" /\ inbound = <<>> /\ sock # "up"
        /\ sender' = "reconnect" /\ handle' \in {handle, Aborted}
        /\ UNCHANGED inbound
     \/ LoopWithoutHandle /\ UNCHANGED inbound
  /\ UNCHANGED <<queue, flags, sock, wire, stray, far, faults>>

Pop ==
  /\ sender = "pop"
  /\ acked' = acked + 1
  /\ sender' = "idle"
  /\ UNCHANGED <<accepted, flags, handle, conn, far, faults>>

\* The old handle is deleted, and there is no new one.
CreateFails ==
  /\ Fault
  /\ Turn("closed")
  /\ handle' = IF handle = "null" THEN "null" ELSE "dangling"
  /\ UNCHANGED bIsHandshakeSuccessful

\* Mutant of Reconnect: it tries again until there is a connection.
ReconnectUntil ==
  /\ sender = "reconnect"
  /\ \/ /\ sock = "dead"
        /\ sender' = "reconnect"
        /\ UNCHANGED <<handle, bIsHandshakeSuccessful, conn, faults>>
     \/ /\ sock # "dead"
        /\ HandshakeSucceeds \/ HandshakeFails \/ CreateFails
        /\ sender' = "idle"
  /\ UNCHANGED <<queue, bShouldStop, far>>

\* Mutant of Reconnect: the test of disconnectFromCurrentHost's result is the wrong way round.
ReconnectInverted ==
  /\ sender = "reconnect"
  /\ \/ sock # "dead" /\ UNCHANGED <<handle, bIsHandshakeSuccessful, conn, faults>>
     \/ sock = "dead" /\ (HandshakeSucceeds \/ HandshakeFails \/ CreateFails)
  /\ sender' = "idle"
  /\ UNCHANGED <<queue, bShouldStop, far>>

\* When the shutdown of the old socket fails there is no new one.  Otherwise the handle is
\* made anew; the flag of the old handshake stays, and send does not look at the result.
Reconnect ==
  /\ sender = "reconnect"
  /\ \/ sock = "dead" /\ UNCHANGED <<handle, bIsHandshakeSuccessful, conn, faults>>
     \/ sock # "dead" /\ (HandshakeSucceeds \/ HandshakeFails \/ CreateFails)
  /\ sender' = "idle"
  /\ UNCHANGED <<queue, bShouldStop, far>>

\* A call with a handle that is or was deleted under it, or a place of the queue without an
\* event, which is read and destroyed again, may be the end of the process.
ThreadCrashes ==
  /\ \/ /\ handle \in {"null", "dangling"}
        /\ sender \in {"front", "transmit", "receive", "await", "reconnect"}
     \/ sender \in {"front", "pop"} /\ Front = Blank
  /\ sender' = "crashed"
  /\ UNCHANGED <<queue, flags, handle, conn, far, faults>>

SenderStep ==
  \/ SendStops \/ TakeFront \/ WebSocketSend \/ Transmit \/ WebSocketReceive \/ AwaitReply
  \/ Pop \/ Reconnect \/ ThreadCrashes

(***************************************************************************)
(* The server and the network.                                             *)
(***************************************************************************)
\* The handler of ws writes the event to the file of its id, so that a second copy changes
\* nothing, and sends nothing back; the one of ws2 prints it and sends it back, in one frame
\* that the client may get in parts.
handler ==
  /\ wire # <<>>
  /\ received' = received \cup {Head(wire)}
  /\ wire' = Tail(wire)
  /\ \/ server = "ws" /\ UNCHANGED <<inbound, orderly>>
     \/ server = "ws2" /\ inbound' = Append(inbound, "answer") /\ UNCHANGED orderly
     \/ server = "ws2" /\ inbound' = inbound \o <<"part", "rest">> /\ orderly' = FALSE
  /\ UNCHANGED <<queue, flags, handle, sock, stray, sender, server, faults>>

\* An exception of the handler of ws, which every message of the test is good for, before the
\* event is written or behind it, ends the connection with a CLOSE frame.
handlerRaises ==
  /\ server = "ws" /\ wire # <<>> /\ Fault
  /\ received' \in {received, received \cup {Head(wire)}}
  /\ wire' = <<>>
  /\ sock' = "closed" /\ inbound' = Append(inbound, "close") /\ orderly' = FALSE
  /\ UNCHANGED <<queue, flags, handle, stray, sender, server>>

\* What was sent before its connection broke may still be handled, and nobody reads the answer.
handlerLate ==
  \E e \in stray :
    /\ received' = received \cup {e}
    /\ stray' = stray \ {e}
    /\ UNCHANGED <<queue, flags, handle, sock, wire, inbound, sender, server, orderly, faults>>

\* The server goes away, with a CLOSE frame or without; frames under way may be lost.
Break ==
  /\ sock = "up" /\ Fault
  /\ wire' = <<>> /\ stray' = stray \cup Range(wire)
  /\ \/ sock' \in {"closed", "dead"} /\ inbound' \in {inbound, <<>>} /\ UNCHANGED orderly
     \/ sock' = "closed" /\ inbound' = Append(inbound, "close") /\ orderly' = FALSE
  /\ UNCHANGED <<queue, flags, handle, sender, server, received>>

Environment == handler \/ handlerRaises \/ handlerLate \/ Break

Next == Caller \/ SenderStep \/ Environment

Spec == Init /\ [][Next]_vars

-----------------------------------------------------------------------------
TypeOK ==
  /\ accepted \in Seq(Event) /\ acked \in 0 .. Len(accepted)
  /\ bShouldStop \in BOOLEAN /\ bIsHandshakeSuccessful \in BOOLEAN
  /\ handle \in {"null", "new", "ready", "aborted", "dangling"}
  /\ sock \in {"none", "up", "closed", "dead"}
  /\ sender \in {"none", "idle", "front", "transmit", "receive", "await", "pop", "reconnect",
                 "ended", "spinning", "crashed"}
  /\ wire \in Seq(Event) /\ stray \subseteq Event /\ received \subseteq Event
  /\ inbound \in Seq({"answer", "part", "rest", "close"})
  /\ server \in {"ws", "ws2"} /\ orderly \in BOOLEAN
  /\ faults \in 0 .. MaxFaults

\* Whatever breaks, and whichever copies arrive late: the events on the queue reach the
\* server in order, and as long as what comes back is whole answers, pop in send takes off
\* only what the server has.  (A CLOSE frame, or the first part of an answer, takes an event
\* off that the server may never get.)
Promise == INSTANCE Delivery
  WITH Event <- Event, accepted <- accepted, acked <- acked, stored <- received,
       orderly <- orderly
KeepsPromise == Promise!Spec

\* The thread is there for the events that are queued as long as no connection has failed:
\* it is started before the handshake, but must not find an event before that has ended.
ThreadOutlivesCalm == sender = "ended" /\ ~bShouldStop => faults > 0

\* The thread is in an action loop that will not end, or gone with the process.
Lost == sender \in {"spinning", "crashed"}

\* With the server that answers, and as long as it does so in whole answers, an event on the
\* queue gets to it, through every connection that breaks in good order, unless the thread has
\* been stopped, has given up after a call that was refused or a handshake that failed, is
\* lost, or holds a socket that it will not replace.
EventuallyStored ==
  \A e \in Event :
    [](e \in {accepted[k] : k \in DOMAIN accepted}
        => <>(e \in received \/ server = "ws" \/ ~orderly \/ Destroyed \/ Lost \/ sock = "dead"))

\* With the server that answers, setShouldStop gets the thread to end wherever it is, on a
\* socket that is dead as well, unless ~WebSocketClient, or reconnect, deletes the handle
\* under it.
StopEndsThread == bShouldStop ~> (Destroyed \/ server = "ws" \/ Lost)
=============================================================================
