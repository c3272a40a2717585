-------------------------- MODULE MiniFilterKernel --------------------------
(***************************************************************************)
(* The MiniFilter driver (kernel/MiniFilter/Entry.c): DriverEntry step by  *)
(* step with its failure paths, DriverUnload, the callbacks that record    *)
(* file and process events, the work items that send the records, and the  *)
(* connection of the one user mode client.                                 *)
(*                                                                         *)
(* Callbacks run on the threads that do the I/O, work items on system      *)
(* worker threads, connect and disconnect on the client's threads, entry   *)
(* and unload on a system thread.  Nothing in the driver synchronises      *)
(* them: pClientPort and bIsComPortClosed are read and written bare, so    *)
(* each access is a step.                                                  *)
(*                                                                         *)
(* Of the filter manager (external) the module takes: a generic work item  *)
(* keeps the filter object referenced; FltUnregisterFilter stops the       *)
(* callbacks, drops the client and waits for callbacks and work items; a   *)
(* filter that is being unregistered may refuse a new work item; the next  *)
(* client connects only after the disconnect callback of the previous one  *)
(* has returned (MaxConnections is 1).                                     *)
(***************************************************************************)
EXTENDS Naturals

CONSTANTS
  FileEvents,   \* file operations that reach mfltPostOp with a file name
  ProcEvents,   \* process creations and exits
  MaxConnects   \* bound: connections of user mode clients

ASSUME EventAssumption == FileEvents \cap ProcEvents = {} /\ MaxConnects \in Nat

Events == FileEvents \cup ProcEvents

VARIABLES
  phase,      \* where DriverEntry or DriverUnload is; "absent": no image loaded
  notify,     \* the process notify routine of the loaded image is registered
  stale,      \* a notify routine is registered whose image has been unloaded
  port,       \* mfltData.pClientPort # NULL
  comClosed,  \* mfltData.bIsComPortClosed
  conn,       \* the client's connection: "none", "up", "closing", "flagged"
  connects,   \* how many connections there have been
  ev,         \* per event: where its record is
  got,        \* events delivered to user mode
  bugcheck    \* "no", or what brought the machine down

vars == <<phase, notify, stale, port, comClosed, conn, connects, ev, got, bugcheck>>

Phases == {"absent", "registered", "port", "notify", "started", "entry_failed",
           "unload_notify", "unload_port", "draining"}
InCallback == {"callback"}
InWorkItem == {"queued", "checked", "sending"}

Init ==
  /\ phase = "absent" /\ notify = FALSE /\ stale = FALSE
  /\ port = FALSE /\ comClosed = FALSE
  /\ conn = "none" /\ connects = 0
  /\ ev = [e \in Events |-> "none"]
  /\ got = {}
  /\ bugcheck = "no"

\* What FltUnregisterFilter waits for.  The process notify routine is not a
\* callback of the filter.
Drained ==
  /\ \A e \in FileEvents : ev[e] \notin InCallback
  /\ \A e \in Events : ev[e] \notin InWorkItem

Up == bugcheck = "no"

GoDown(why) ==
  /\ bugcheck' = why
  /\ UNCHANGED <<phase, notify, stale, port, comClosed, conn, connects, ev, got>>

(***************************************************************************)
(* DriverEntry.                                                            *)
(***************************************************************************)

\* The image is loaded, its data are zero, and FltRegisterFilter succeeds (its
\* failure leaves nothing behind).
RegisterFilter ==
  /\ Up
  /\ phase = "absent"
  /\ phase' = "registered"
  /\ port' = FALSE /\ comClosed' = FALSE
  /\ UNCHANGED <<notify, stale, conn, connects, ev, got, bugcheck>>

\* The security descriptor and the port; on failure the filter is unregistered.
CreatePort ==
  /\ Up
  /\ phase = "registered"
  /\ phase' \in {"port", "absent"}
  /\ UNCHANGED <<notify, stale, port, comClosed, conn, connects, ev, got, bugcheck>>

\* A failure is only printed.
SetNotify ==
  /\ Up
  /\ phase = "port"
  /\ phase' = "notify"
  /\ notify' \in BOOLEAN
  /\ UNCHANGED <<stale, port, comClosed, conn, connects, ev, got, bugcheck>>

\* On failure the port is closed and the filter unregistered; the notify
\* routine stays registered.
StartFiltering ==
  /\ Up
  /\ phase = "notify"
  /\ phase' \in {"started", "entry_failed"}
  /\ UNCHANGED <<notify, stale, port, comClosed, conn, connects, ev, got, bugcheck>>

\* FltUnregisterFilter returns and, with DriverEntry failed or the driver
\* unloaded, the image goes, from under a notify routine that is running.
ImageGone ==
  /\ phase' = "absent"
  /\ stale' = (stale \/ notify)
  /\ notify' = FALSE
  /\ bugcheck' = IF \E e \in ProcEvents : ev[e] \in InCallback
                 THEN "stale_notify" ELSE bugcheck
  /\ UNCHANGED <<port, comClosed, conn, connects, ev, got>>

EntryFailed ==
  /\ Up
  /\ phase = "entry_failed"
  /\ Drained /\ conn = "none"
  /\ ImageGone

(***************************************************************************)
(* DriverUnload.  Removing the notify routine waits for its calls.         *)
(***************************************************************************)
\* Mutant of UnloadNotify: the routine is not removed.
UnloadNotifyKept ==
  /\ Up
  /\ phase = "started"
  /\ phase' = "unload_notify"
  /\ UNCHANGED <<notify, stale, port, comClosed, conn, connects, ev, got, bugcheck>>

UnloadNotify ==
  /\ Up
  /\ phase = "started"
  /\ \A e \in ProcEvents : ev[e] \notin InCallback
  /\ phase' = "unload_notify"
  /\ notify' = FALSE
  /\ UNCHANGED <<stale, port, comClosed, conn, connects, ev, got, bugcheck>>

UnloadPort ==
  /\ Up
  /\ phase = "unload_notify"
  /\ phase' = "unload_port"
  /\ UNCHANGED <<notify, stale, port, comClosed, conn, connects, ev, got, bugcheck>>

Unregister ==
  /\ Up
  /\ phase = "unload_port"
  /\ phase' = "draining"
  /\ UNCHANGED <<notify, stale, port, comClosed, conn, connects, ev, got, bugcheck>>

Unloaded ==
  /\ Up
  /\ phase = "draining"
  /\ Drained /\ conn = "none"
  /\ ImageGone

(***************************************************************************)
(* mfltPostOp and mfltCreateProcessNotify: a record is allocated and       *)
(* filled, then a work item allocated and queued.  Neither allocation is   *)
(* checked before it is used, nor the result of the queueing.              *)
(***************************************************************************)
Record(e) ==
  /\ Up
  /\ ev[e] = "none"
  /\ \/ /\ ev' = [ev EXCEPT ![e] = "callback"]
        /\ UNCHANGED <<phase, notify, stale, port, comClosed, conn, connects, got, bugcheck>>
     \/ GoDown("no_pool")

PostOp(e) == phase \in {"started", "unload_notify", "unload_port"} /\ Record(e)

CreateProcessNotify(e) == notify /\ Record(e)

\* The routine is called after its image has gone.
StaleNotify(e) == Up /\ stale /\ ev[e] = "none" /\ GoDown("stale_notify")

QueueWorkItem(e) ==
  /\ Up
  /\ ev[e] = "callback"
  /\ \/ /\ \/ ev' = [ev EXCEPT ![e] = "queued"]
           \/ phase \in {"entry_failed", "draining"} /\ ev' = [ev EXCEPT ![e] = "leaked"]
        /\ UNCHANGED <<phase, notify, stale, port, comClosed, conn, connects, got, bugcheck>>
     \/ GoDown("no_pool")

(***************************************************************************)
(* mfltSendMessageWorkItemRoutine.                                         *)
(***************************************************************************)
Moves(e, from, to) == ev[e] = from /\ ev' = [ev EXCEPT ![e] = to]

CheckClientPort(e) ==
  /\ Up
  /\ Moves(e, "queued", IF port THEN "checked" ELSE "freed")
  /\ UNCHANGED <<phase, notify, stale, port, comClosed, conn, connects, got, bugcheck>>

\* Mutant of CheckComPortClosed: the test is the wrong way round.
CheckComPortClosedInverted(e) ==
  /\ Up
  /\ Moves(e, "checked", IF comClosed THEN "sending" ELSE "freed")
  /\ UNCHANGED <<phase, notify, stale, port, comClosed, conn, connects, got, bugcheck>>

\* Mutant of CheckComPortClosed: waits for an open port instead of giving up.
CheckComPortClosedWaits(e) ==
  /\ Up
  /\ ~comClosed
  /\ Moves(e, "checked", "sending")
  /\ UNCHANGED <<phase, notify, stale, port, comClosed, conn, connects, got, bugcheck>>

CheckComPortClosed(e) ==
  /\ Up
  /\ Moves(e, "checked", IF comClosed THEN "freed" ELSE "sending")
  /\ UNCHANGED <<phase, notify, stale, port, comClosed, conn, connects, got, bugcheck>>

\* FltSendMessage without a timeout: it returns when the client takes the
\* message or when there is no connection any more.
SendDelivered(e) ==
  /\ Up
  /\ port /\ conn = "up"
  /\ Moves(e, "sending", "freed")
  /\ got' = got \cup {e}
  /\ UNCHANGED <<phase, notify, stale, port, comClosed, conn, connects, bugcheck>>

\* Mutant of SendFailed: an early return before ExFreePool.
SendFailedUnfreed(e) ==
  /\ Up
  /\ ~port \/ conn # "up"
  /\ Moves(e, "sending", "unfreed")
  /\ UNCHANGED <<phase, notify, stale, port, comClosed, conn, connects, got, bugcheck>>

SendFailed(e) ==
  /\ Up
  /\ ~port \/ conn # "up"
  /\ Moves(e, "sending", "freed")
  /\ UNCHANGED <<phase, notify, stale, port, comClosed, conn, connects, got, bugcheck>>

(***************************************************************************)
(* The client connects (mfltComConnect) and closes its handle, or is       *)
(* dropped; mfltComDisconnect sets the flag and then closes the port.      *)
(***************************************************************************)
Connect ==
  /\ Up
  /\ phase \in {"port", "notify", "started", "unload_notify"}
  /\ conn = "none"
  /\ connects < MaxConnects
  /\ conn' = "up"
  /\ connects' = connects + 1
  /\ port' = TRUE
  /\ UNCHANGED <<phase, notify, stale, comClosed, ev, got, bugcheck>>

CloseHandle ==
  /\ Up
  /\ conn = "up"
  /\ conn' = "closing"
  /\ UNCHANGED <<phase, notify, stale, port, comClosed, connects, ev, got, bugcheck>>

DisconnectFlag ==
  /\ Up
  /\ conn = "closing"
  /\ conn' = "flagged"
  /\ comClosed' = TRUE
  /\ UNCHANGED <<phase, notify, stale, port, connects, ev, got, bugcheck>>

\* Mutant of DisconnectPort: FltCloseClientPort is forgotten.
DisconnectPortKept ==
  /\ Up
  /\ conn = "flagged"
  /\ conn' = "none"
  /\ UNCHANGED <<phase, notify, stale, port, comClosed, connects, ev, got, bugcheck>>

DisconnectPort ==
  /\ Up
  /\ conn = "flagged"
  /\ conn' = "none"
  /\ port' = FALSE
  /\ UNCHANGED <<phase, notify, stale, comClosed, connects, ev, got, bugcheck>>

-----------------------------------------------------------------------------
Entry == RegisterFilter \/ CreatePort \/ SetNotify \/ StartFiltering \/ EntryFailed
Unload == UnloadNotify \/ UnloadPort \/ Unregister \/ Unloaded
WorkItem(e) ==
  CheckClientPort(e) \/ CheckComPortClosed(e) \/ SendDelivered(e) \/ SendFailed(e)
Disconnect == DisconnectFlag \/ DisconnectPort

Next ==
  \/ Entry \/ Unload
  \/ \E e \in FileEvents : PostOp(e)
  \/ \E e \in ProcEvents : CreateProcessNotify(e) \/ StaleNotify(e)
  \/ \E e \in Events : QueueWorkItem(e) \/ WorkItem(e)
  \/ Connect \/ CloseHandle \/ Disconnect

(***************************************************************************)
(* Threads that have begun go on: callbacks, work items, disconnects, and  *)
(* an unload under way; the filter manager drops the client while the      *)
(* filter is unregistered.  The client keeps calling FilterGetMessage      *)
(* (FilterUser::doMainRoutine) or closes its handle.  Nothing makes an     *)
(* event happen, a client connect, or the driver load or unload.           *)
(***************************************************************************)
Fairness ==
  /\ \A e \in Events : WF_vars(QueueWorkItem(e)) /\ WF_vars(WorkItem(e))
  /\ WF_vars(Disconnect)
  /\ WF_vars(UnloadPort \/ Unregister \/ Unloaded \/ EntryFailed)
  /\ WF_vars(phase \in {"draining", "entry_failed"} /\ CloseHandle)

Spec == Init /\ [][Next]_vars /\ Fairness

-----------------------------------------------------------------------------
\* Types: in particular every record that a callback has allocated ends up freed
\* or, if its work item was refused, leaked; it has no other fate.
TypeOK ==
  /\ phase \in Phases
  /\ notify \in BOOLEAN /\ stale \in BOOLEAN
  /\ port \in BOOLEAN /\ comClosed \in BOOLEAN
  /\ conn \in {"none", "up", "closing", "flagged"}
  /\ connects \in 0 .. MaxConnects
  /\ ev \in [Events -> {"none", "freed", "leaked"} \cup InCallback \cup InWorkItem]
  /\ got \subseteq Events
  /\ bugcheck \in {"no", "no_pool", "stale_notify"}

\* An orderly unload leaves no notify routine registered or running, whatever
\* callbacks and work items were under way: FltUnregisterFilter does not wait
\* for that routine, so DriverUnload must have removed it (Entry.c:80).
UnloadLeavesNoNotify ==
  [][(phase = "draining" /\ phase' = "absent") =>
       stale' = stale /\ bugcheck' = "no"]_vars

\* FLT_ASSERT(mfltData.pClientPort == NULL) in mfltComConnect (Entry.c:100):
\* it holds also for a client that connects while work items and the previous
\* client's disconnect are under way, and across reloads of the driver.
ConnectFindsNoPort == [][(conn = "none" /\ conn' = "up") => ~port]_vars

\* Until the first disconnect every event whose work item has been queued while
\* a client is connected reaches that client, unless it leaves first.  (Not so
\* after it: bIsComPortClosed is never cleared, and a later client gets
\* nothing until the driver is loaded again.)
FirstClientIsServed ==
  \A e \in Events :
    (ev[e] = "queued" /\ conn = "up" /\ ~comClosed)
      ~> (e \in got \/ conn # "up" \/ ~Up)

\* An unload ends: FltUnregisterFilter waits for work items that sit in a
\* FltSendMessage without a timeout, but the drop of the client wakes them.
UnloadEnds == (phase = "unload_notify") ~> (phase = "absent" \/ ~Up)
=============================================================================
