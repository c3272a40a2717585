----------------------- MODULE MiniFilterKernelProofs -----------------------
(***************************************************************************)
(* Proofs about the minifilter's kernel side: types, that an orderly       *)
(* unload leaves no notify routine behind, and that a client that connects *)
(* finds no port of another client.                                        *)
(***************************************************************************)
EXTENDS MiniFilterKernel, TLAPS

Leaving == {"unload_notify", "unload_port", "draining"}

\* From its removal on, the notify routine is neither registered nor running.
NotifyRemoved ==
  phase \in Leaving => ~notify /\ \A e \in ProcEvents : ev[e] \notin InCallback

\* The port is that of the connection, and without a port of the driver there is none.
PortOfClient ==
  /\ port <=> conn # "none"
  /\ phase \in {"absent", "registered"} => conn = "none"

KernelInv == TypeOK /\ NotifyRemoved /\ PortOfClient

\* The initial state.
LEMMA KernelInvInit == Init => KernelInv
<1> SUFFICES ASSUME Init PROVE KernelInv
  OBVIOUS
<1> USE DEF Init
<1>1. TypeOK
  <2>1. connects \in 0 .. MaxConnects
    BY EventAssumption
  <2>2. QED
    BY <2>1 DEF TypeOK, Phases
<1>2. NotifyRemoved
  BY DEF NotifyRemoved, Leaving
<1>3. PortOfClient
  BY DEF PortOfClient
<1>4. QED
  BY <1>1, <1>2, <1>3 DEF KernelInv

\* The machine goes down: nothing else changes.
LEMMA GoDownKeeps ==
  ASSUME KernelInv, NEW why \in {"no_pool", "stale_notify"}, GoDown(why)
  PROVE  KernelInv'
  BY DEF GoDown, KernelInv, TypeOK, NotifyRemoved, PortOfClient

\* The image goes when there is no client.
LEMMA ImageGoneKeeps ==
  ASSUME KernelInv, Up, conn = "none", ImageGone
  PROVE  KernelInv'
  BY DEF ImageGone, Up, KernelInv, TypeOK, NotifyRemoved, PortOfClient, Phases, Leaving

\* DriverEntry and DriverUnload.
LEMMA EntryKeeps == ASSUME KernelInv, Entry \/ Unload PROVE KernelInv'
<1> USE DEF KernelInv
<1>1. CASE RegisterFilter \/ CreatePort \/ SetNotify \/ StartFiltering
  <2>1. TypeOK'
    BY <1>1 DEF RegisterFilter, CreatePort, SetNotify, StartFiltering, TypeOK, Phases
  <2>2. NotifyRemoved' /\ PortOfClient'
    BY <1>1 DEF RegisterFilter, CreatePort, SetNotify, StartFiltering, NotifyRemoved,
                PortOfClient, Leaving
  <2>3. QED  BY <2>1, <2>2
<1>2. CASE UnloadNotify \/ UnloadPort \/ Unregister
  <2>1. TypeOK'
    BY <1>2 DEF UnloadNotify, UnloadPort, Unregister, TypeOK, Phases
  <2>2. NotifyRemoved' /\ PortOfClient'
    BY <1>2 DEF UnloadNotify, UnloadPort, Unregister, NotifyRemoved, PortOfClient, Leaving
  <2>3. QED  BY <2>1, <2>2
<1>3. CASE EntryFailed \/ Unloaded
  BY <1>3, ImageGoneKeeps DEF EntryFailed, Unloaded
<1>4. QED
  BY <1>1, <1>2, <1>3 DEF Entry, Unload

\* A record is moved on.  Only a process event whose routine is registered gets into a callback.
LEMMA MoveKeeps ==
  ASSUME KernelInv, NEW e \in Events, NEW s \in {"none", "freed", "leaked"} \cup InCallback \cup InWorkItem,
         ev' = [ev EXCEPT ![e] = s],
         s \in InCallback => e \in FileEvents \/ notify,
         got' \subseteq Events,
         UNCHANGED <<phase, notify, stale, port, comClosed, conn, connects, bugcheck>>
  PROVE  KernelInv'
<1>1. TypeOK'
  BY DEF KernelInv, TypeOK
<1>2. NotifyRemoved'
  <2> SUFFICES ASSUME phase \in Leaving, NEW p \in ProcEvents
               PROVE  ev'[p] \notin InCallback
    BY DEF KernelInv, NotifyRemoved
  <2>1. ~notify /\ ev[p] \notin InCallback
    BY DEF KernelInv, NotifyRemoved
  <2>2. CASE p = e
    BY <2>1, <2>2, EventAssumption DEF KernelInv, TypeOK, Events
  <2>3. CASE p # e
    BY <2>1, <2>3 DEF KernelInv, TypeOK, Events
  <2>4. QED  BY <2>2, <2>3
<1>3. PortOfClient'
  BY DEF KernelInv, PortOfClient
<1>4. QED
  BY <1>1, <1>2, <1>3 DEF KernelInv

\* Callbacks and work items.
LEMMA EventKeeps ==
  ASSUME KernelInv, NEW e \in Events,
         \/ e \in FileEvents /\ PostOp(e)
         \/ e \in ProcEvents /\ (CreateProcessNotify(e) \/ StaleNotify(e))
         \/ QueueWorkItem(e) \/ WorkItem(e)
  PROVE  KernelInv'
<1>1. CASE GoDown("no_pool") \/ GoDown("stale_notify")
  BY <1>1, GoDownKeeps
<1>2. CASE ~GoDown("no_pool") /\ ~GoDown("stale_notify")
  <2>1. CASE Record(e) /\ (e \in FileEvents \/ notify)
    BY <1>2, <2>1, MoveKeeps DEF Record, InCallback, KernelInv, TypeOK
  <2>2. CASE QueueWorkItem(e)
    BY <1>2, <2>2, MoveKeeps DEF QueueWorkItem, InCallback, InWorkItem, KernelInv, TypeOK
  <2>3. CASE WorkItem(e)
    <3>1. PICK s \in {"checked", "freed", "sending"} : ev' = [ev EXCEPT ![e] = s]
      BY <2>3 DEF WorkItem, CheckClientPort, CheckComPortClosed, SendDelivered, SendFailed, Moves
    <3>2. /\ got' \subseteq Events
          /\ UNCHANGED <<phase, notify, stale, port, comClosed, conn, connects, bugcheck>>
      BY <2>3 DEF WorkItem, CheckClientPort, CheckComPortClosed, SendDelivered, SendFailed,
                  KernelInv, TypeOK
    <3>3. QED
      BY <3>1, <3>2, MoveKeeps DEF InCallback, InWorkItem
  <2>4. QED
    BY <1>2, <2>1, <2>2, <2>3 DEF PostOp, CreateProcessNotify, StaleNotify
<1>3. QED
  BY <1>1, <1>2

\* The client comes and goes.
LEMMA ClientKeeps == ASSUME KernelInv, Connect \/ CloseHandle \/ Disconnect PROVE KernelInv'
<1> USE DEF Connect, CloseHandle, Disconnect, DisconnectFlag, DisconnectPort, KernelInv
<1>1. TypeOK'
  <2>1. connects' \in 0 .. MaxConnects
    BY EventAssumption DEF TypeOK
  <2>2. QED
    BY <2>1 DEF TypeOK
<1>2. NotifyRemoved'
  BY DEF NotifyRemoved
<1>3. PortOfClient'
  BY DEF PortOfClient
<1>4. QED
  BY <1>1, <1>2, <1>3

\* Every step, and none.
LEMMA KernelInvNext == ASSUME KernelInv, [Next]_vars PROVE KernelInv'
<1>1. CASE Next
  BY <1>1, EntryKeeps, EventKeeps, ClientKeeps DEF Next, Events
<1>2. CASE UNCHANGED vars
  BY <1>2 DEF vars, KernelInv, TypeOK, NotifyRemoved, PortOfClient
<1>3. QED
  BY <1>1, <1>2

\* The inductive invariant: types, the notify routine during an unload, and the port of the
\* client, for any number of events and connections.
THEOREM KernelInvHolds == Spec => []KernelInv
<1>1. Init => KernelInv
  BY KernelInvInit
<1>2. KernelInv /\ [Next]_vars => KernelInv'
  BY KernelInvNext
<1>3. QED
  BY <1>1, <1>2, PTL DEF Spec

\* Types: every record ends up freed or leaked with a refused work item (Entry.c:383-391).
THEOREM TypeCorrect == Spec => []TypeOK
<1>1. KernelInv => TypeOK
  BY DEF KernelInv
<1>2. QED
  BY <1>1, KernelInvHolds, PTL

\* DriverUnload removes the notify routine before it unregisters the filter (Entry.c:80), so
\* whatever runs meanwhile, an orderly unload leaves none registered or running.
THEOREM UnloadIsClean == Spec => UnloadLeavesNoNotify
<1>1. ASSUME KernelInv, Next, phase = "draining", phase' = "absent"
      PROVE  stale' = stale /\ bugcheck' = "no"
  <2>1. phase' = phase \/ (ImageGone /\ Up)
    BY <1>1 DEF Next, Entry, Unload, RegisterFilter, CreatePort, SetNotify, StartFiltering,
                EntryFailed, UnloadNotify, UnloadPort, Unregister, Unloaded, PostOp,
                CreateProcessNotify, StaleNotify, Record, GoDown, QueueWorkItem, WorkItem,
                CheckClientPort, CheckComPortClosed, SendDelivered, SendFailed, Connect,
                CloseHandle, Disconnect, DisconnectFlag, DisconnectPort
  <2>2. ImageGone /\ Up
    BY <1>1, <2>1
  <2>3. ~notify /\ \A e \in ProcEvents : ev[e] \notin InCallback
    BY <1>1 DEF KernelInv, NotifyRemoved, Leaving
  <2>4. QED
    BY <1>1, <2>2, <2>3 DEF ImageGone, Up, KernelInv, TypeOK
<1>2. KernelInv /\ [Next]_vars =>
        [(phase = "draining" /\ phase' = "absent") => stale' = stale /\ bugcheck' = "no"]_vars
  BY <1>1
<1>3. QED
  BY <1>2, KernelInvHolds, PTL DEF Spec, UnloadLeavesNoNotify

\* mfltComDisconnect closes the port before the filter manager lets the next client in, so
\* the FLT_ASSERT of mfltComConnect (Entry.c:100) holds for every client.
THEOREM EveryClientFindsNoPort == Spec => ConnectFindsNoPort
<1>1. KernelInv /\ [Next]_vars => [(conn = "none" /\ conn' = "up") => ~port]_vars
  BY DEF KernelInv, PortOfClient
<1>2. QED
  BY <1>1, KernelInvHolds, PTL DEF Spec, ConnectFindsNoPort
=============================================================================
