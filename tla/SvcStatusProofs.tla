--------------------------- MODULE SvcStatusProofs ---------------------------
(***************************************************************************)
(* Proofs about the service wrapper: types, and that the two threads which *)
(* write and report one status without a lock do not report the service as *)
(* stopped while its child is there, and let it run again at most for the  *)
(* one report that was under way when the stop was reported.               *)
(***************************************************************************)
EXTENDS SvcStatus, TLAPS

\* Before RUNNING is written, and when there is nothing left to wait for.
Early == {"register", "announce", "start", "create"}
Late  == {"refused", "no_child", "stop", "report_stop", "returned", "crashed", "exited"}

\* Nobody can stop the service before it has reported that it runs.
Starting ==
  /\ main \in Early \cup {"run"} =>
       /\ dwCurrentState = "START_PENDING" /\ reported = "START_PENDING"
       /\ handler \in {"idle", "acknowledge"} /\ ~shutdownFlag
       /\ copy["main"] \in {"none", "START_PENDING"}
       /\ copy["handler"] \in {"none", "START_PENDING"}
  /\ main \in Early => child = "none"
  /\ ~svcStatusHandle => main \in {"register", "refused", "crashed", "exited"}
                           /\ child = "none" /\ dwCurrentState # "RUNNING"

\* STOPPED is written when the child is gone, or has never been there.
Stopping ==
  /\ main \in Late => child \in {"none", "dead"}
  /\ main \in Late \ {"stop"} => dwCurrentState # "RUNNING"
  /\ dwCurrentState = "STOPPED" \/ reported = "STOPPED" => main \in Late
  /\ copy["main"] = "STOPPED" \/ copy["handler"] = "STOPPED" => main \in Late

\* A thread carries a copy only while it reports; svcMain has none of RUNNING when it stops.
Carrying ==
  /\ main \in {"create", "run", "loop", "stop"} => copy["main"] = "none"
  /\ main \in Late => copy["main"] # "RUNNING"
  /\ handler \in {"idle", "write"} => copy["handler"] = "none"

\* RUNNING is written before any stop, and the handler takes no copy of it behind one.
RunningIsOver ==
  /\ reported \in Stop \/ copy["main"] \in Stop \/ copy["handler"] \in Stop =>
       dwCurrentState # "RUNNING"
  /\ "STOP_PENDING" \in {dwCurrentState, reported, copy["main"], copy["handler"]} => shutdownFlag
  /\ handler = "write" => shutdownFlag
  /\ shutdownFlag => copy["handler"] # "RUNNING"
  /\ shutdownFlag /\ handler # "write" => dwCurrentState # "RUNNING"

SvcInv == TypeOK /\ Starting /\ Stopping /\ Carrying /\ RunningIsOver

\* The initial state.
LEMMA SvcInvInit == Init => SvcInv
  BY DEF Init, SvcInv, TypeOK, Starting, Stopping, Carrying, RunningIsOver, States, MainSteps,
         HandlerSteps, Early, Late, Threads, Stop

\* The process may go when its child is gone, or there has been none.
LEMMA GoneKeeps ==
  ASSUME SvcInv, NEW how \in {"crashed", "exited"}, Gone(how),
         ~svcStatusHandle \/ reported = "STOPPED"
  PROVE  SvcInv'
<1> USE DEF svcStatus, Gone
<1>1. child \in {"none", "dead"} /\ dwCurrentState # "RUNNING"
  BY DEF SvcInv, Starting, Stopping, RunningIsOver, Stop
<1>2. copy' \in [Threads -> States \cup {"none"}]
      /\ copy'["main"] = "none" /\ copy'["handler"] = "none"
  BY DEF Threads
<1>3. TypeOK'
  BY <1>2 DEF SvcInv, TypeOK, States, HandlerSteps
<1>4. Starting'
  BY <1>1 DEF SvcInv, Starting, Early
<1>5. Stopping' /\ Carrying'
  BY <1>1, <1>2 DEF Stopping, Carrying, Late
<1>6. RunningIsOver'
  BY <1>1, <1>2 DEF SvcInv, RunningIsOver, Stop
<1>7. QED
  BY <1>3, <1>4, <1>5, <1>6 DEF SvcInv

\* A copy that is taken.
LEMMA CopiedKeeps ==
  ASSUME SvcInv, NEW t \in Threads, Copied(t),
         t = "main" => main \notin {"create", "run", "loop", "stop"},
         t = "handler" => handler \notin {"idle", "write"}
  PROVE  SvcInv'
<1> USE DEF Copied, svcStatus
<1>1. copy' \in [Threads -> States \cup {"none"}]
  BY DEF SvcInv, TypeOK
<1>2. /\ copy'[t] = dwCurrentState
      /\ t = "main" => copy'["handler"] = copy["handler"]
      /\ t = "handler" => copy'["main"] = copy["main"]
  BY DEF SvcInv, TypeOK, Threads
<1>3. t \in {"main", "handler"}
  BY DEF Threads
<1>4. TypeOK' /\ Starting'
  BY <1>1, <1>2, <1>3 DEF SvcInv, TypeOK, Starting
<1>5. Stopping'
  BY <1>2, <1>3 DEF SvcInv, Stopping
<1>6. Carrying' /\ RunningIsOver'
  BY <1>2, <1>3 DEF SvcInv, Stopping, Carrying, RunningIsOver, Late, Stop
<1>7. QED
  BY <1>4, <1>5, <1>6 DEF SvcInv

\* A copy that arrives; the thread that carried it goes on.
LEMMA AcceptedKeeps ==
  ASSUME SvcInv, NEW t \in Threads, Accepted(t),
         main' \in MainSteps \cup {"exited", "crashed"}, handler' \in HandlerSteps,
         t = "main" => handler' = handler, t = "handler" => main' = main,
         main' \in Early <=> main \in Early,
         main' \in Late <=> main \in Late,
         main' \in {"run", "report_run", "loop", "report"} =>
           main' = main \/ main \in {"report_run", "report"},
         main = "refused" => main' \in {"refused", "returned"},
         main' \in {"register", "run"} => main' = main,
         main = "stop" => main' = "stop",
         t = "handler" => handler \in {"report", "acknowledge"}
                            /\ handler' \in {"acknowledge", "idle"},
         t = "main" => main \notin {"create", "run", "loop", "stop"}
  PROVE  SvcInv'
<1> USE DEF Accepted, svcStatus
<1>1. copy' \in [Threads -> States \cup {"none"}] /\ reported' \in States
  BY DEF SvcInv, TypeOK
<1>2. /\ copy'[t] = "none" /\ reported' = copy[t]
      /\ t = "main" => copy'["handler"] = copy["handler"]
      /\ t = "handler" => copy'["main"] = copy["main"]
  BY DEF SvcInv, TypeOK, Threads
<1>3. t \in {"main", "handler"}
  BY DEF Threads
<1>4. TypeOK'
  BY <1>1 DEF SvcInv, TypeOK
<1>5. Starting'
  BY <1>2, <1>3 DEF SvcInv, Starting, Early
<1>6. Stopping'
  BY <1>2, <1>3 DEF SvcInv, Stopping, Late
<1>7. Carrying'
  BY <1>2, <1>3 DEF SvcInv, Carrying, Late
<1>8. RunningIsOver'
  BY <1>2, <1>3 DEF SvcInv, Carrying, RunningIsOver, Stop
<1>9. QED
  BY <1>4, <1>5, <1>6, <1>7, <1>8 DEF SvcInv

\* A report of svcMain.
LEMMA MainReportKeeps ==
  ASSUME SvcInv, NEW from \in MainSteps \ {"create", "run", "loop", "stop"}, NEW to \in MainSteps,
         MainReports(from, to),
         to \in Early <=> from \in Early,
         to \in Late <=> from \in Late,
         to \in {"run", "report_run", "loop", "report"} => from \in {"report_run", "report"},
         to \notin {"register", "run"}, from = "refused" => to = "returned"
  PROVE  SvcInv'
<1>1. "main" \in Threads /\ handler \in HandlerSteps
  <2>1. handler \in HandlerSteps
    BY DEF SvcInv, TypeOK
  <2>2. QED
    BY <2>1 DEF Threads
<1>2. CASE Copied("main")
  BY <1>1, <1>2, CopiedKeeps DEF MainReports
<1>3. CASE Accepted("main") /\ main' = to /\ UNCHANGED handler
  BY <1>1, <1>3, AcceptedKeeps DEF MainReports
<1>4. CASE Refused("main")
  BY <1>4, GoneKeeps DEF Refused
<1>5. QED
  BY <1>2, <1>3, <1>4 DEF MainReports

\* The steps of svcMain.
LEMMA MainKeeps == ASSUME SvcInv, Main PROVE SvcInv'
<1> USE DEF svcStatus
<1> DEFINE Parts == Starting' /\ Stopping' /\ Carrying' /\ RunningIsOver'
<1>1. CASE Register
  <2>1. TypeOK'
    BY <1>1 DEF Register, SvcInv, TypeOK, States, MainSteps
  <2>2. Parts
    BY <1>1 DEF Register, SvcInv, Starting, Stopping, Carrying, RunningIsOver, Early, Late, Stop
  <2>3. QED
    BY <2>1, <2>2 DEF SvcInv
<1>2. CASE NotRegistered \/ Announce \/ NoChild \/ ReportAgain
           \/ MainReports("report_run", "loop") \/ MainReports("report_stop", "returned")
  BY <1>2, MainReportKeeps
  DEF NotRegistered, Announce, NoChild, ReportAgain, MainSteps, Early, Late
<1>3. CASE CreateProcess
  <2>1. TypeOK'
    BY <1>3 DEF CreateProcess, SvcInv, TypeOK, States, MainSteps
  <2>2. Parts
    BY <1>3 DEF CreateProcess, SvcInv, Starting, Stopping, Carrying, RunningIsOver, Early, Late,
                Stop
  <2>3. QED
    BY <2>1, <2>2 DEF SvcInv
<1>4. CASE Writes("run", "report_run", "RUNNING")
  <2>1. TypeOK'
    BY <1>4 DEF Writes, SvcInv, TypeOK, States, MainSteps
  <2>2. Parts
    BY <1>4 DEF Writes, SvcInv, Starting, Stopping, Carrying, RunningIsOver, Early, Late, Stop
  <2>3. QED
    BY <2>1, <2>2 DEF SvcInv
<1>5. CASE ChildEnded \/ WaitTimesOut
  <2>1. TypeOK'
    BY <1>5 DEF ChildEnded, WaitTimesOut, SvcInv, TypeOK, MainSteps
  <2>2. Parts
    BY <1>5 DEF ChildEnded, WaitTimesOut, SvcInv, Starting, Stopping, Carrying, RunningIsOver,
                Early, Late
  <2>3. QED
    BY <2>1, <2>2 DEF SvcInv
<1>6. CASE Writes("stop", "report_stop", "STOPPED")
  <2>1. TypeOK'
    BY <1>6 DEF Writes, SvcInv, TypeOK, States, MainSteps
  <2>2. Parts
    BY <1>6 DEF Writes, SvcInv, Starting, Stopping, Carrying, RunningIsOver, Early, Late, Stop
  <2>3. QED
    BY <2>1, <2>2 DEF SvcInv
<1>7. QED
  BY <1>1, <1>2, <1>3, <1>4, <1>5, <1>6 DEF Main, Run, Stopped

\* The steps of svcCtrlHandler, and its calls.
LEMMA HandlerKeeps == ASSUME SvcInv, Handler \/ ControlStop \/ ControlOther PROVE SvcInv'
<1> USE DEF svcStatus
<1> DEFINE Parts == Starting' /\ Stopping' /\ Carrying' /\ RunningIsOver'
<1>1. CASE ControlStop \/ ControlOther
  <2>1. TypeOK'
    <3>1. shutdownFlag' \in BOOLEAN
      BY <1>1, Zenon DEF ControlStop, ControlOther, SvcInv, TypeOK
    <3>2. QED
      BY <1>1, <3>1 DEF ControlStop, ControlOther, Called, SvcInv, TypeOK, HandlerSteps
  <2>2. Parts
    BY <1>1 DEF ControlStop, ControlOther, Called, SvcInv, Starting, Stopping, Carrying,
                RunningIsOver, Stop
  <2>3. QED
    BY <2>1, <2>2 DEF SvcInv
<1>2. ASSUME NEW from \in {"report", "acknowledge"}, NEW to \in {"acknowledge", "idle"},
             HandlerReports(from, to)
      PROVE  SvcInv'
  <2>1. "handler" \in Threads /\ main \in MainSteps \cup {"exited", "crashed"}
    BY DEF SvcInv, TypeOK, Threads
  <2>2. CASE Copied("handler")
    BY <1>2, <2>1, <2>2, CopiedKeeps DEF HandlerReports
  <2>3. CASE Accepted("handler") /\ handler' = to /\ UNCHANGED main
    BY <1>2, <2>1, <2>3, AcceptedKeeps DEF HandlerReports, HandlerSteps
  <2>4. CASE Refused("handler")
    BY <2>4, GoneKeeps DEF Refused
  <2>5. QED
    BY <1>2, <2>2, <2>3, <2>4 DEF HandlerReports
<1>3. CASE handler = "write" /\ handler' = "report" /\ dwCurrentState' = "STOP_PENDING"
           /\ UNCHANGED <<svcStatusHandle, copy, reported, shutdownFlag, child, main>>
  <2>1. TypeOK'
    BY <1>3 DEF SvcInv, TypeOK, States, HandlerSteps
  <2>2. Parts
    BY <1>3 DEF SvcInv, Starting, Stopping, Carrying, RunningIsOver
  <2>3. QED
    BY <2>1, <2>2 DEF SvcInv
<1>4. QED
  BY <1>1, <1>2, <1>3 DEF Handler, StopPending, Acknowledge, HandlerSteps

\* The end of the child and of the process.
LEMMA EndsKeep == ASSUME SvcInv, ChildEnds \/ Exit PROVE SvcInv'
<1>1. CASE ChildEnds
  <2>1. TypeOK'
    BY <1>1 DEF ChildEnds, svcStatus, SvcInv, TypeOK
  <2>2. Starting' /\ Stopping' /\ Carrying' /\ RunningIsOver'
    BY <1>1 DEF ChildEnds, svcStatus, SvcInv, Starting, Stopping, Carrying, RunningIsOver
  <2>3. QED
    BY <2>1, <2>2 DEF SvcInv
<1>2. CASE Exit
  BY <1>2, GoneKeeps DEF Exit
<1>3. QED
  BY <1>1, <1>2

\* SvcInv holds of the service.
THEOREM SvcInvHolds == Spec => []SvcInv
<1>1. ASSUME SvcInv, UNCHANGED vars PROVE SvcInv'
  BY <1>1 DEF vars, svcStatus, SvcInv, TypeOK, Starting, Stopping, Carrying, RunningIsOver
<1>2. SvcInv /\ [Next]_vars => SvcInv'
  BY <1>1, MainKeeps, HandlerKeeps, EndsKeep DEF Next
<1>3. QED
  BY SvcInvInit, <1>2, PTL DEF Spec

\* Types; the loop of svcSpecific has a process to wait for.
THEOREM TypeCorrect == Spec => []TypeOK
  BY SvcInvHolds, PTL DEF SvcInv

\* In whichever order the threads write and report, and the reports arrive: not STOPPED
\* while NPServer is there.
THEOREM StoppedWithoutChild == Spec => []StoppedMeansChildGone
<1>1. SvcInv => StoppedMeansChildGone
  BY DEF SvcInv, Stopping, StoppedMeansChildGone
<1>2. QED
  BY <1>1, SvcInvHolds, PTL

\* What a step does to the copies and to what is reported.
LEMMA ReportsOfAStep ==
  ASSUME SvcInv, Next
  PROVE  \/ copy' = [t \in Threads |-> "none"] /\ reported' = "STOPPED"
         \/ \E t \in Threads : copy' = [copy EXCEPT ![t] = dwCurrentState] /\ reported' = reported
         \/ \E t \in Threads : /\ copy[t] # "none" /\ reported' = copy[t]
                              /\ copy' = [copy EXCEPT ![t] = "none"]
         \/ copy' = copy /\ reported' = reported
  BY DEF Next, Main, Register, NotRegistered, Announce, CreateProcess, NoChild, Run, ChildEnded,
         WaitTimesOut, ReportAgain, Stopped, MainReports, Writes, Copied, Accepted, Refused, Gone,
         ControlStop, ControlOther, Handler, StopPending, Acknowledge, HandlerReports,
         ChildEnds, Exit, Threads

\* Behind a stop that has been reported, no report is begun that says that the service runs,
\* and of those under way at most one arrives.
THEOREM StaysStopped == Spec => NeverRunsAgain
<1> DEFINE Step == /\ reported \in Stop => ~\E t \in Threads : BegunToRun(t)
                   /\ reported \in Stop /\ reported' = "RUNNING" =>
                        dwCurrentState # "RUNNING" /\ \A t \in Threads : copy'[t] # "RUNNING"
<1>1. SvcInv /\ [Next]_vars => [Step]_vars
  <2> SUFFICES ASSUME SvcInv, Next, reported \in Stop
               PROVE  /\ ~\E t \in Threads : BegunToRun(t)
                      /\ reported' = "RUNNING" =>
                           dwCurrentState # "RUNNING" /\ \A t \in Threads : copy'[t] # "RUNNING"
    BY DEF vars
  <2>1. dwCurrentState # "RUNNING" /\ copy \in [Threads -> States \cup {"none"}]
    BY DEF SvcInv, RunningIsOver, TypeOK
  <2>2. ~\E t \in Threads : BegunToRun(t)
    BY <2>1, ReportsOfAStep DEF BegunToRun
  <2>3. ~(copy["main"] = "RUNNING" /\ copy["handler"] = "RUNNING")
    BY DEF SvcInv, Stopping, Carrying, RunningIsOver, Stop
  <2>4. reported' = "RUNNING" => \A t \in Threads : copy'[t] # "RUNNING"
    BY <2>1, <2>3, ReportsOfAStep DEF Threads, Stop
  <2>5. QED
    BY <2>1, <2>2, <2>4
<1>2. QED
  BY <1>1, SvcInvHolds, PTL DEF Spec, NeverRunsAgain
=============================================================================
