--------------------------- MODULE GrepJoinProofs ---------------------------
(***************************************************************************)
(* Proofs about GrepJoin, for any number of files, any length of args and  *)
(* any number of hits.                                                     *)
(***************************************************************************)
EXTENDS GrepJoin, TLAPS


\* Before the first thread there is nothing to join.
LEMMA InitIndInv == Init => IndInv
BY GrepAssumption
   DEF Init, IndInv, TypeOK, ArgsIntact, OutputComplete, WorkOf, Starting, Unjoined,
       MovedOverEnded, Picked, Files, Slots, Running, Waited

-----------------------------------------------------------------------------
(***************************************************************************)
(* The steps of a thread.                                                  *)
(***************************************************************************)
\* A thread takes its arguments, from its own slot.
LEMMA BeginStep ==
  ASSUME IndInv, NEW t \in Files, Begin(t)
  PROVE  IndInv'
<1>. USE GrepAssumption DEF IndInv, Begin, joins
<1>1. TypeOK'
  BY DEF TypeOK, ArgsIntact, Running
<1>2. ArgsIntact'
  BY DEF TypeOK, ArgsIntact, Running
<1>3. OutputComplete'
  BY DEF OutputComplete
<1>4. WorkOf'
  BY DEF TypeOK, WorkOf, ArgsIntact, Running
<1>5. Starting'
  BY DEF TypeOK, Starting
<1>6. Unjoined'
  BY DEF TypeOK, Unjoined, Waited
<1>7. MovedOverEnded'
  BY DEF TypeOK, MovedOverEnded, Waited, Files
<1>8. Picked'
  BY DEF TypeOK, Picked, Waited
<1>. QED  BY <1>1, <1>2, <1>3, <1>4, <1>5, <1>6, <1>7, <1>8

\* A thread pushes a hit, or ends with all of its file.
LEMMA ScanStep ==
  ASSUME IndInv, NEW t \in Files, Scan(t)
  PROVE  IndInv'
<1>. USE GrepAssumption DEF IndInv, Scan, joins
<1>1. TypeOK'
  BY DEF TypeOK, WorkOf
<1>2. ArgsIntact'
  BY DEF TypeOK, ArgsIntact, Running
<1>3. OutputComplete'
  BY DEF OutputComplete
<1>4. WorkOf'
  BY DEF TypeOK, WorkOf
<1>5. Starting'
  BY DEF TypeOK, Starting
<1>6. Unjoined'
  BY DEF TypeOK, Unjoined, Waited
<1>7. MovedOverEnded'
  BY DEF TypeOK, MovedOverEnded, Waited, Files
<1>8. Picked'
  BY DEF TypeOK, Picked, Waited
<1>. QED  BY <1>1, <1>2, <1>3, <1>4, <1>5, <1>6, <1>7, <1>8

-----------------------------------------------------------------------------
(***************************************************************************)
(* The steps of wmain.                                                     *)
(***************************************************************************)
\* The start loop fills the next slot and the next handle.
LEMMA StartThreadStep ==
  ASSUME IndInv, StartThread
  PROVE  IndInv'
<1>. USE GrepAssumption DEF IndInv, StartThread
<1>1. i \in Files /\ thread[i] = "unborn" /\ i + 1 <= MaxArgs
  BY DEF TypeOK, Starting, Slots, Files
<1>2. TypeOK'
  <2>1. i' \in 0 .. files
    BY DEF TypeOK
  <2>2. args' \in [Slots -> Files \cup {Null}]
    BY <1>1 DEF TypeOK
  <2>3. /\ threadHandles' \in [Files -> Files \cup {Null}]
        /\ thread' \in [Files -> {"unborn", "begun", "scanning", "ended"}]
    BY <1>1 DEF TypeOK
  <2>. QED  BY <2>1, <2>2, <2>3 DEF TypeOK
<1>3. ArgsIntact'
  BY <1>1 DEF TypeOK, ArgsIntact, Running
<1>4. OutputComplete'
  BY DEF OutputComplete
<1>5. WorkOf'
  BY <1>1 DEF TypeOK, WorkOf
<1>6. Starting'
  <2>1. \A t \in Files : t # i => thread'[t] = thread[t] /\ threadHandles'[t] = threadHandles[t]
    BY DEF TypeOK
  <2>2. threadHandles'[i] = IF thread'[i] = "unborn" THEN Null ELSE i
    BY <1>1 DEF TypeOK, Starting
  <2>3. \A t \in Files : t >= i' => t >= i /\ t # i
    BY DEF TypeOK, Files
  <2>. QED  BY <1>1, <2>1, <2>2, <2>3 DEF Starting
<1>7. Unjoined' /\ MovedOverEnded' /\ Picked'
  BY DEF Unjoined, MovedOverEnded, Picked
<1>. QED  BY <1>2, <1>3, <1>4, <1>5, <1>6, <1>7

\* Behind an access outside an array nothing is claimed of main.
LEMMA UndefinedStep ==
  ASSUME IndInv, Undefined
  PROVE  IndInv'
BY DEF IndInv, Undefined, joins, threads, TypeOK, ArgsIntact, OutputComplete, WorkOf,
       Starting, Unjoined, MovedOverEnded, Picked

\* The join loop begins with the handles of all threads.
LEMMA AllStartedStep ==
  ASSUME IndInv, AllStarted
  PROVE  IndInv'
<1>. USE GrepAssumption DEF IndInv, AllStarted, threads
<1>1. TypeOK'
  BY DEF TypeOK
<1>2. ArgsIntact' /\ OutputComplete' /\ WorkOf' /\ Starting'
  BY DEF ArgsIntact, OutputComplete, WorkOf, Starting
<1>3. Unjoined'
  BY DEF TypeOK, Starting, Unjoined, Waited, Files
<1>4. MovedOverEnded'
  BY DEF TypeOK, Starting, MovedOverEnded, Waited
<1>5. Picked'
  BY DEF Picked
<1>. QED  BY <1>1, <1>2, <1>3, <1>4, <1>5

\* The handle that the wait picks is that of a thread that has ended.
LEMMA WaitStep ==
  ASSUME IndInv, Wait
  PROVE  IndInv'
<1>. USE GrepAssumption DEF IndInv, Wait, threads
<1>1. TypeOK'
  <2>1. threadId' \in Files
    BY DEF Signalled, Waited
  <2>. QED  BY <2>1 DEF TypeOK, Files
<1>2. ArgsIntact' /\ OutputComplete' /\ WorkOf' /\ Starting'
  BY DEF ArgsIntact, OutputComplete, WorkOf, Starting
<1>3. Unjoined'
  BY DEF TypeOK, Unjoined, Waited
<1>4. MovedOverEnded'
  BY DEF TypeOK, MovedOverEnded, Waited
<1>5. Picked'
  BY DEF Picked, Signalled, Waited
<1>. QED  BY <1>1, <1>2, <1>3, <1>4, <1>5

\* The handle that is closed is open, and its thread has ended.
LEMMA CloseStep ==
  ASSUME IndInv, Close
  PROVE  IndInv'
<1>. USE GrepAssumption DEF IndInv, Close, threads
<1>1. /\ threadId \in Waited /\ threadHandles[threadId] \in Files
      /\ thread[threadHandles[threadId]] = "ended"
      /\ \A k \in Waited : threadHandles[k] # Null /\ k \in Files
  BY DEF TypeOK, Picked, Waited
<1>2. TypeOK'
  BY <1>1 DEF TypeOK
<1>3. ArgsIntact' /\ OutputComplete' /\ WorkOf' /\ Starting'
  BY DEF ArgsIntact, OutputComplete, WorkOf, Starting
<1>4. Unjoined'
  BY <1>1 DEF TypeOK, Unjoined, Waited
<1>5. MovedOverEnded'
  BY DEF TypeOK, MovedOverEnded, Waited
<1>6. Picked'
  BY <1>1 DEF Picked, Waited
<1>. QED  BY <1>2, <1>3, <1>4, <1>5, <1>6

\* The last handle and the last arguments move to the place that has become free.
LEMMA MoveLastStep ==
  ASSUME IndInv, MoveLast
  PROVE  IndInv'
<1>. USE GrepAssumption DEF IndInv, MoveLast, threads
<1>. DEFINE last == threadCount - 1
<1>1. /\ threadId \in Waited /\ last \in Waited
      /\ threadId \in Files /\ last \in Files
      /\ \A k \in Waited : threadHandles[k] \in Files
      /\ thread[threadHandles[threadId]] = "ended"
      /\ threadHandles[threadId] \in closed
  BY DEF TypeOK, Picked, Waited, Files
<1>2. Waited' \subseteq Waited /\ \A k \in Waited : k \in Waited' \/ k = last
  BY <1>1 DEF TypeOK, Waited, Files
<1>3. thread[threadId] = "ended" \/ threadHandles[threadId] = threadId
  BY <1>1 DEF MovedOverEnded
<1>4. thread[threadId] = "ended"
  BY <1>1, <1>3
<1>5. TypeOK'
  <2>1. threadCount' \in 0 .. files
    BY <1>1 DEF TypeOK, Waited, Files
  <2>2. threadHandles' \in [Files -> Files \cup {Null}]
    BY <1>1 DEF TypeOK
  <2>3. threadId \in Slots /\ last \in Slots
    BY <1>1 DEF TypeOK, Unjoined, Waited, Files, Slots
  <2>4. args' \in [Slots -> Files \cup {Null}]
    BY <2>3 DEF TypeOK
  <2>. QED  BY <2>1, <2>2, <2>4 DEF TypeOK
<1>6. ArgsIntact'
  BY <1>1, <1>4 DEF TypeOK, ArgsIntact, Running
<1>7. OutputComplete' /\ WorkOf' /\ Starting'
  BY DEF OutputComplete, WorkOf, Starting
<1>8. Unjoined'
  <2>1. \A k \in Waited' :
          threadHandles'[k] = IF k = threadId THEN threadHandles[last] ELSE threadHandles[k]
    BY <1>1, <1>2 DEF TypeOK, Waited
  <2>. QED  BY <1>1, <1>2, <2>1 DEF TypeOK, Unjoined, Waited
<1>9. MovedOverEnded'
  BY <1>1, <1>2, <1>4 DEF TypeOK, MovedOverEnded, Waited
<1>10. Picked'
  BY DEF Picked
<1>. QED  BY <1>5, <1>6, <1>7, <1>8, <1>9, <1>10

\* When the count is 0, no thread is left.
LEMMA JoinedStep ==
  ASSUME IndInv, Joined
  PROVE  IndInv'
BY DEF IndInv, Joined, joins, threads, TypeOK, ArgsIntact, OutputComplete, WorkOf,
       Starting, Unjoined, MovedOverEnded, Picked, Waited

\* The results are written when every thread has pushed its hits.
LEMMA WriteResultStep ==
  ASSUME IndInv, WriteResult
  PROVE  IndInv'
<1>. USE GrepAssumption DEF IndInv, WriteResult, joins, threads
<1>1. Waited = {}
  BY DEF TypeOK, Picked, Waited, Files
<1>2. \A f \in Files : f < files => thread[f] = "ended"
  BY <1>1 DEF Unjoined
<1>3. \A f \in Files : f < files => result[f] = Hits[f]
  BY <1>2 DEF WorkOf
<1>4. TypeOK'
  BY DEF TypeOK
<1>5. OutputComplete'
  BY <1>3 DEF OutputComplete
<1>6. ArgsIntact' /\ WorkOf' /\ Starting' /\ Unjoined' /\ MovedOverEnded' /\ Picked'
  BY DEF ArgsIntact, WorkOf, Starting, Unjoined, MovedOverEnded, Picked
<1>. QED  BY <1>4, <1>5, <1>6

-----------------------------------------------------------------------------
\* IndInv is an invariant: it holds at the start and every step keeps it.
THEOREM InvHolds == Spec => []IndInv
<1>1. IndInv /\ [Next]_vars => IndInv'
  <2>. SUFFICES ASSUME IndInv, [Next]_vars
                PROVE  IndInv'
    OBVIOUS
  <2>1. CASE Main
    BY <2>1, StartThreadStep, UndefinedStep, AllStartedStep, WaitStep, CloseStep,
       MoveLastStep, JoinedStep, WriteResultStep
       DEF Main, StartBeyond, WaitFailed
  <2>2. ASSUME NEW t \in Files, Thread(t) PROVE IndInv'
    BY <2>2, BeginStep, ScanStep DEF Thread
  <2>3. CASE UNCHANGED vars
    BY <2>3 DEF vars, IndInv, TypeOK, ArgsIntact, OutputComplete, WorkOf, Starting,
                Unjoined, MovedOverEnded, Picked, Waited
  <2>. QED  BY <2>1, <2>2, <2>3 DEF Next
<1>. QED  BY <1>1, InitIndInv, PTL DEF Spec

\* Indices stay inside the arrays, and no file gets more hits than it has.
THEOREM TypeCorrect == Spec => []TypeOK
<1>1. IndInv => TypeOK
  BY DEF IndInv
<1>. QED  BY <1>1, InvHolds, PTL

\* The join loop never assigns to the arguments of a thread that runs.
THEOREM ArgsStayIntact == Spec => []ArgsIntact
<1>1. IndInv => ArgsIntact
  BY DEF IndInv
<1>. QED  BY <1>1, InvHolds, PTL

\* Every handle is closed once, after its thread has ended, and none stays.
THEOREM HandlesAreExact == Spec => []HandlesExact
<1>1. IndInv => HandlesExact
  <2>. SUFFICES ASSUME IndInv, main \in {"waiting", "closing", "writing"}
                PROVE  /\ {threadHandles[k] : k \in Waited} \ {Null} =
                            {t \in Files : thread[t] # "unborn"} \ closed
                       /\ \A j, k \in Waited : threadHandles[j] = threadHandles[k] =>
                            j = k \/ threadHandles[j] = Null
                       /\ \A t \in closed : thread[t] = "ended"
    BY DEF HandlesExact
  <2>1. \A k \in Waited : threadHandles[k] \in Files \cup {Null}
    BY DEF IndInv, TypeOK, Waited
  <2>2. \A k \in Waited : threadHandles[k] # Null =>
          thread[threadHandles[k]] # "unborn" /\ threadHandles[k] \notin closed
    BY DEF IndInv, Unjoined
  <2>3. \A t \in Files : thread[t] # "unborn" /\ t \notin closed =>
          t # Null /\ \E k \in Waited : threadHandles[k] = t
    BY GrepAssumption DEF IndInv, Unjoined
  <2>. QED  BY <2>1, <2>2, <2>3 DEF IndInv, Unjoined
<1>. QED  BY <1>1, InvHolds, PTL

\* What is written to result.out is everything the threads had to find.
THEOREM OutputIsComplete == Spec => []OutputComplete
<1>1. IndInv => OutputComplete
  BY DEF IndInv
<1>. QED  BY <1>1, InvHolds, PTL
=============================================================================
