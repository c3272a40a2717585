------------------------------ MODULE SvcStatus ------------------------------
(***************************************************************************)
(* commandServer's service wrapper (NPServerSvc.cpp): svcMain, which       *)
(* starts NPServer and waits for it to end, and svcCtrlHandler, which the  *)
(* service control manager calls on another thread.  Both write svcStatus  *)
(* and pass it on, without a lock: SetServiceStatus takes a copy of it,    *)
(* which may have what the other thread has written since, and the copies  *)
(* of the two threads may arrive in the other order.                       *)
(*                                                                         *)
(* Of the control manager (external) the module takes: it calls the        *)
(* handler once at a time, with STOP or SHUTDOWN only while it has RUNNING *)
(* reported, and not behind STOPPED; a report behind STOPPED may be        *)
(* refused; the dispatcher returns, and the process with it ends, when     *)
(* STOPPED is reported and no handler runs.                                *)
(*                                                                         *)
(* Check points and exit codes are left out, and pauseFlag, which nobody   *)
(* reads.                                                                  *)
(***************************************************************************)

VARIABLES
  dwCurrentState,   \* of svcStatus
  copy,             \* what a SetServiceStatus of each thread carries, or "none"
  reported,         \* the state that the control manager has
  svcStatusHandle,  \* the handle is there
  shutdownFlag,
  child,            \* the NPServer process: "none", "running", "ending", "dead"
  main,             \* svcMain and svcSpecific: the next step
  handler           \* svcCtrlHandler: the next step, "idle" when it is not called

svcStatus == <<dwCurrentState, svcStatusHandle>>
vars == <<svcStatus, copy, reported, shutdownFlag, child, main, handler>>

Threads == {"main", "handler"}
States == {"START_PENDING", "RUNNING", "STOP_PENDING", "STOPPED"}
MainSteps == {"register", "refused", "announce", "start", "create", "no_child", "run",
              "report_run", "loop", "report", "stop", "report_stop", "returned"}
HandlerSteps == {"idle", "write", "report", "acknowledge"}

Init ==
  /\ dwCurrentState = "START_PENDING" /\ reported = "START_PENDING"
  /\ copy = [t \in Threads |-> "none"]
  /\ svcStatusHandle = FALSE /\ shutdownFlag = FALSE
  /\ child = "none" /\ main = "register" /\ handler = "idle"

Process == main \notin {"exited", "crashed"}

\* The process is gone; the control manager takes the service for stopped.
Gone(how) ==
  /\ main' = how /\ handler' = "idle"
  /\ copy' = [t \in Threads |-> "none"]
  /\ reported' = "STOPPED"
  /\ UNCHANGED <<svcStatus, shutdownFlag, child>>

(***************************************************************************)
(* svcStatusUpdate behind its assignments: the status is copied, and then  *)
(* the copy arrives.  When it is refused the function calls itself with    *)
(* the same handle until the stack is used up.                             *)
(***************************************************************************)
Copied(t) ==
  /\ copy[t] = "none" /\ copy' = [copy EXCEPT ![t] = dwCurrentState]
  /\ UNCHANGED <<svcStatus, reported, shutdownFlag, child, main, handler>>

Accepted(t) ==
  /\ copy[t] # "none" /\ svcStatusHandle
  /\ reported' = copy[t] /\ copy' = [copy EXCEPT ![t] = "none"]
  /\ UNCHANGED <<svcStatus, shutdownFlag, child>>

Refused(t) ==
  /\ copy[t] # "none"
  /\ ~svcStatusHandle \/ reported = "STOPPED"
  /\ Gone("crashed")

MainReports(from, to) ==
  /\ main = from
  /\ \/ Copied("main")
     \/ Accepted("main") /\ main' = to /\ UNCHANGED handler
     \/ Refused("main")

HandlerReports(from, to) ==
  /\ handler = from
  /\ \/ Copied("handler")
     \/ Accepted("handler") /\ handler' = to /\ UNCHANGED main
     \/ Refused("handler")

(***************************************************************************)
(* svcMain and svcSpecific.                                                *)
(***************************************************************************)
Register ==
  /\ main = "register"
  /\ \/ svcStatusHandle' = TRUE /\ main' = "announce" /\ UNCHANGED dwCurrentState
     \/ dwCurrentState' = "STOPPED" /\ main' = "refused" /\ UNCHANGED svcStatusHandle
  /\ UNCHANGED <<copy, reported, shutdownFlag, child, handler>>

NotRegistered == MainReports("refused", "returned")

Announce == MainReports("announce", "start") \/ MainReports("start", "create")

\* Mutant of CreateProcess: the function goes on when there is no process.
CreateProcessGoesOn ==
  /\ main = "create"
  /\ \/ child' = "running" /\ main' = "run" /\ UNCHANGED dwCurrentState
     \/ dwCurrentState' = "STOPPED" /\ main' = "run" /\ UNCHANGED child
  /\ UNCHANGED <<svcStatusHandle, copy, reported, shutdownFlag, handler>>

CreateProcess ==
  /\ main = "create"
  /\ \/ child' = "running" /\ main' = "run" /\ UNCHANGED dwCurrentState
     \/ dwCurrentState' = "STOPPED" /\ main' = "no_child" /\ UNCHANGED child
  /\ UNCHANGED <<svcStatusHandle, copy, reported, shutdownFlag, handler>>

\* svcSpecific reports STOPPED, and then svcMain does so again.
NoChild == MainReports("no_child", "stop")

Writes(from, to, state) ==
  /\ main = from /\ main' = to
  /\ dwCurrentState' = state
  /\ UNCHANGED <<svcStatusHandle, copy, reported, shutdownFlag, child, handler>>

Run == Writes("run", "report_run", "RUNNING") \/ MainReports("report_run", "loop")

ChildEnded ==
  /\ main = "loop" /\ child = "dead"
  /\ main' = "stop"
  /\ UNCHANGED <<svcStatus, copy, reported, shutdownFlag, child, handler>>

\* Mutant of WaitTimesOut: the loop is left when the child has been told to end.
WaitTimesOutLeaves ==
  /\ main = "loop" /\ child # "dead"
  /\ IF shutdownFlag
     THEN child' = "ending" /\ main' = "stop"
     ELSE main' = "report" /\ UNCHANGED child
  /\ UNCHANGED <<svcStatus, copy, reported, shutdownFlag, handler>>

\* Mutant of WaitTimesOut: the child is not terminated but waited for.
WaitTimesOutWaits ==
  /\ main = "loop" /\ child # "dead"
  /\ main' = IF shutdownFlag THEN "loop" ELSE "report"
  /\ UNCHANGED <<svcStatus, copy, reported, shutdownFlag, child, handler>>

\* A wait of a second is over: TerminateProcess, which does not wait, or a report.
WaitTimesOut ==
  /\ main = "loop" /\ child # "dead"
  /\ IF shutdownFlag
     THEN child' = "ending" /\ UNCHANGED main
     ELSE main' = "report" /\ UNCHANGED child
  /\ UNCHANGED <<svcStatus, copy, reported, shutdownFlag, handler>>

\* Mutant of ReportAgain: the loop reports RUNNING, not what svcStatus has.
ReportAgainRunning ==
  /\ main = "report"
  /\ \/ copy["main"] = "none" /\ dwCurrentState' = "RUNNING"
        /\ copy' = [copy EXCEPT !["main"] = "RUNNING"]
        /\ UNCHANGED <<svcStatusHandle, reported, shutdownFlag, child, main, handler>>
     \/ Accepted("main") /\ main' = "loop" /\ UNCHANGED handler

ReportAgain == MainReports("report", "loop")

Stopped == Writes("stop", "report_stop", "STOPPED") \/ MainReports("report_stop", "returned")

Main ==
  \/ Register \/ NotRegistered \/ Announce \/ CreateProcess \/ NoChild
  \/ Run \/ ChildEnded \/ WaitTimesOut \/ ReportAgain \/ Stopped

(***************************************************************************)
(* svcCtrlHandler.                                                         *)
(***************************************************************************)
Called(to) == Process /\ svcStatusHandle /\ handler = "idle" /\ handler' = to

ControlStop ==
  /\ Called("write") /\ reported = "RUNNING"
  /\ shutdownFlag' = TRUE
  /\ UNCHANGED <<svcStatus, copy, reported, child, main>>

ControlOther ==
  /\ Called("acknowledge") /\ reported # "STOPPED"
  /\ UNCHANGED <<svcStatus, copy, reported, shutdownFlag, child, main>>

StopPending ==
  \/ /\ handler = "write" /\ handler' = "report"
     /\ dwCurrentState' = "STOP_PENDING"
     /\ UNCHANGED <<svcStatusHandle, copy, reported, shutdownFlag, child, main>>
  \/ HandlerReports("report", "acknowledge")

Acknowledge == HandlerReports("acknowledge", "idle")

Handler == StopPending \/ Acknowledge

(***************************************************************************)
(* The child and the end of the service's own process.                     *)
(***************************************************************************)
\* NPServer ends by itself, on a client's server_stop, or because it is terminated.
ChildEnds ==
  /\ child \in {"running", "ending"}
  /\ child' = "dead"
  /\ UNCHANGED <<svcStatus, copy, reported, shutdownFlag, main, handler>>

\* The dispatcher returns to wmain, whether or not svcMain has.
Exit == Process /\ reported = "STOPPED" /\ handler = "idle" /\ Gone("exited")

Next == Main \/ ControlStop \/ ControlOther \/ Handler \/ ChildEnds \/ Exit

\* The threads go on, and a process that has been terminated ends.
Fairness == WF_vars(Main) /\ WF_vars(Handler) /\ WF_vars(child = "ending" /\ ChildEnds)

Spec == Init /\ [][Next]_vars /\ Fairness

-----------------------------------------------------------------------------
\* Types: in particular the loop never waits for a process that procInfo does not have.
TypeOK ==
  /\ dwCurrentState \in States /\ reported \in States
  /\ copy \in [Threads -> States \cup {"none"}]
  /\ svcStatusHandle \in BOOLEAN /\ shutdownFlag \in BOOLEAN
  /\ child \in {"none", "running", "ending", "dead"}
  /\ main \in MainSteps \cup {"exited", "crashed"}
  /\ handler \in HandlerSteps
  /\ main \in {"run", "report_run", "loop", "report"} => child # "none"

\* The service is not reported as stopped while NPServer is still there, in whichever order
\* the two threads write and report the status that they share.
StoppedMeansChildGone == reported = "STOPPED" => child \in {"none", "dead"}

\* The loop in svcSpecific reports every second and must not undo what the handler has
\* reported: no report that is begun behind a stop says that the service runs.  One that was
\* under way may still arrive behind the stop and show the service running again, but only
\* one: then no other is under way, and the next report puts it right.
Stop == {"STOP_PENDING", "STOPPED"}
BegunToRun(t) == copy'[t] = "RUNNING" /\ copy[t] # "RUNNING"
NeverRunsAgain ==
  [][/\ reported \in Stop => ~\E t \in Threads : BegunToRun(t)
     /\ reported \in Stop /\ reported' = "RUNNING" =>
          dwCurrentState # "RUNNING" /\ \A t \in Threads : copy'[t] # "RUNNING"
    ]_vars

\* A stop takes NPServer down, and svcMain comes to its end.
StopEndsChild == shutdownFlag ~> (child = "dead" /\ main \in {"returned", "exited", "crashed"})

-----------------------------------------------------------------------------
\* NPServerSvc.cpp:36, the log behind the last report of svcMain: "Status set to
\* SERVICE_STOPPED".
StoppedIsReported ==
  [][main = "report_stop" /\ main' = "returned" => reported' = "STOPPED"]_vars
=============================================================================
