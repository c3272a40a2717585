------------------------------ MODULE GrepJoin ------------------------------
(***************************************************************************)
(* grepMT/WinThreads.cpp: wmain starts a thread per file, joins them with  *)
(* WaitForMultipleObjects in the order in which they end, and writes what  *)
(* they have found.                                                        *)
(*                                                                         *)
(* The arguments of thread i are in args[i]; the thread keeps a pointer to *)
(* them and references to the strings in them for as long as it runs.  The *)
(* join loop moves the last handle, and the last arguments, to the place   *)
(* of the thread that has ended.                                           *)
(*                                                                         *)
(* A file is the position of its name on the command line, and a thread is *)
(* the file it was started for.                                            *)
(***************************************************************************)
EXTENDS Integers, FiniteSets

CONSTANTS
  MaxFiles,  \* bound: files on the command line
  MaxArgs,   \* the length of args: 10 in the code
  Hits,      \* per file: how often the string is in it
  Null       \* the handle of a thread that could not be started; no file

Files == 0 .. MaxFiles - 1

ASSUME GrepAssumption ==
  /\ MaxFiles \in Nat
  /\ MaxArgs \in 0 .. 64   \* MAXIMUM_WAIT_OBJECTS
  /\ Hits \in [Files -> Nat]
  /\ Null \notin Files

VARIABLES
  files,        \* fileNameList.size()
  main,         \* wmain: "starting", "waiting", "closing", "moving", "writing", "done",
                \* or "undefined" behind an access outside an array
  i,            \* the start loop's i
  threadCount,
  threadId,     \* the index of the handle that WaitForMultipleObjects returned
  threadHandles,
  args,         \* per slot: the file that is named in it
  thread,       \* per thread: "unborn", "begun", "scanning" or "ended"
  work,         \* per thread: the file it has opened
  result,       \* per file: how many hits have been pushed
  closed,       \* the threads whose handle has been closed
  out           \* per file: the hits written to result.out

vars == <<files, main, i, threadCount, threadId, threadHandles, args, thread, work,
          result, closed, out>>
threads == <<thread, work, result>>
joins == <<threadCount, threadId, threadHandles, closed>>

Slots == Files \cap 0 .. MaxArgs - 1
Running == {"begun", "scanning"}

Init ==
  /\ files \in 0 .. MaxFiles
  /\ main = IF files = 0 THEN "done" ELSE "starting"
  /\ i = 0 /\ threadCount = 0 /\ threadId = 0
  /\ threadHandles = [f \in Files |-> Null]
  /\ args = [s \in Slots |-> Null]
  /\ thread = [f \in Files |-> "unborn"]
  /\ work = [f \in Files |-> Null]
  /\ result = [f \in Files |-> 0]
  /\ closed = {}
  /\ out = [f \in Files |-> 0]

Undefined ==
  /\ main' = "undefined"
  /\ UNCHANGED <<files, i, joins, args, threads, out>>

(***************************************************************************)
(* The threads: findInFileThread and findInFile.                           *)
(***************************************************************************)
\* The pointer to args[t] is followed: the name is used to open the file.
Begin(t) ==
  /\ thread[t] = "begun"
  /\ thread' = [thread EXCEPT ![t] = "scanning"]
  /\ work' = [work EXCEPT ![t] = args[t]]
  /\ UNCHANGED <<files, main, i, joins, args, result, out>>

\* Mutant of Scan: every hit is pushed once more when the line has ended.
ScanTwice(t) ==
  LET f == work[t] IN
  /\ thread[t] = "scanning"
  /\ IF result[f] < Hits[f]
     THEN result' = [result EXCEPT ![f] = @ + 2] /\ UNCHANGED thread
     ELSE thread' = [thread EXCEPT ![t] = "ended"] /\ UNCHANGED result
  /\ UNCHANGED <<files, main, i, joins, args, work, out>>

\* The next hit, or the end of the file.
Scan(t) ==
  LET f == work[t] IN
  /\ thread[t] = "scanning"
  /\ IF result[f] < Hits[f]
     THEN result' = [result EXCEPT ![f] = @ + 1] /\ UNCHANGED thread
     ELSE thread' = [thread EXCEPT ![t] = "ended"] /\ UNCHANGED result
  /\ UNCHANGED <<files, main, i, joins, args, work, out>>

(***************************************************************************)
(* wmain: the start loop.  Nothing checks i against the length of args,    *)
(* nor the handle against 0.                                               *)
(***************************************************************************)
StartThread ==
  /\ main = "starting" /\ i < files /\ i \in Slots
  /\ args' = [args EXCEPT ![i] = i]
  /\ \/ /\ thread' = [thread EXCEPT ![i] = "begun"]
        /\ threadHandles' = [threadHandles EXCEPT ![i] = i]
     \/ UNCHANGED <<thread, threadHandles>>
  /\ i' = i + 1
  /\ UNCHANGED <<files, main, threadCount, threadId, closed, work, result, out>>

StartBeyond == main = "starting" /\ i < files /\ i \notin Slots /\ Undefined

AllStarted ==
  /\ main = "starting" /\ i = files
  /\ main' = "waiting"
  /\ threadCount' = files
  /\ UNCHANGED <<files, i, threadId, threadHandles, closed, args, threads, out>>

(***************************************************************************)
(* wmain: the join loop.                                                   *)
(***************************************************************************)
Waited == {k \in Files : k < threadCount}

Signalled == {k \in Waited : threadHandles[k] # Null /\ thread[threadHandles[k]] = "ended"}

\* Of the signalled handles, WaitForMultipleObjects returns the first.
Wait ==
  /\ main = "waiting" /\ threadCount > 0
  /\ \A k \in Waited : threadHandles[k] # Null
  /\ \E k \in Signalled :
       /\ \A j \in Signalled : k <= j
       /\ threadId' = k
  /\ main' = "closing"
  /\ UNCHANGED <<files, i, threadCount, threadHandles, closed, args, threads, out>>

\* WAIT_FAILED is printed and then taken for an index.
WaitFailed ==
  /\ main = "waiting" /\ threadCount > 0
  /\ \E k \in Waited : threadHandles[k] = Null
  /\ Undefined

Close ==
  /\ main = "closing"
  /\ main' = "moving"
  /\ closed' = closed \cup {threadHandles[threadId]}
  /\ UNCHANGED <<files, i, threadCount, threadId, threadHandles, args, threads, out>>

\* Mutant of MoveLast: the ended thread is moved to the last place.
MoveLastSwapped ==
  LET last == threadCount - 1 IN
  /\ main = "moving"
  /\ main' = "waiting"
  /\ threadHandles' = [threadHandles EXCEPT ![threadId] = threadHandles[last]]
  /\ args' = [args EXCEPT ![last] = args[threadId]]
  /\ threadCount' = threadCount - 1
  /\ UNCHANGED <<files, i, threadId, closed, threads, out>>

\* Mutant of MoveLast: only the arguments are moved.
MoveLastNoHandle ==
  LET last == threadCount - 1 IN
  /\ main = "moving"
  /\ main' = "waiting"
  /\ args' = [args EXCEPT ![threadId] = args[last]]
  /\ threadCount' = threadCount - 1
  /\ UNCHANGED <<files, i, threadId, threadHandles, closed, threads, out>>

\* Mutant of MoveLast: threadCount is not decreased.
MoveLastUncounted ==
  LET last == threadCount - 1 IN
  /\ main = "moving"
  /\ main' = "waiting"
  /\ threadHandles' = [threadHandles EXCEPT ![threadId] = threadHandles[last]]
  /\ args' = [args EXCEPT ![threadId] = args[last]]
  /\ UNCHANGED <<files, i, threadCount, threadId, closed, threads, out>>

MoveLast ==
  LET last == threadCount - 1 IN
  /\ main = "moving"
  /\ main' = "waiting"
  /\ threadHandles' = [threadHandles EXCEPT ![threadId] = threadHandles[last]]
  /\ args' = [args EXCEPT ![threadId] = args[last]]
  /\ threadCount' = threadCount - 1
  /\ UNCHANGED <<files, i, threadId, closed, threads, out>>

\* Mutant of Joined: the loop ends while one thread is left.
JoinedEarly ==
  /\ main = "waiting" /\ threadCount <= 1
  /\ main' = "writing"
  /\ UNCHANGED <<files, i, joins, args, threads, out>>

Joined ==
  /\ main = "waiting" /\ threadCount = 0
  /\ main' = "writing"
  /\ UNCHANGED <<files, i, joins, args, threads, out>>

WriteResult ==
  /\ main = "writing"
  /\ main' = "done"
  /\ out' = [f \in Files |-> IF f < files THEN result[f] ELSE 0]
  /\ UNCHANGED <<files, i, joins, args, threads>>

-----------------------------------------------------------------------------
Main ==
  \/ StartThread \/ StartBeyond \/ AllStarted
  \/ Wait \/ WaitFailed \/ Close \/ MoveLast \/ Joined
  \/ WriteResult

Thread(t) == Begin(t) \/ Scan(t)

Next == Main \/ \E t \in Files : Thread(t)

\* The system runs the threads, and files end.
Fairness == WF_vars(Main) /\ \A t \in Files : WF_vars(Thread(t))

Spec == Init /\ [][Next]_vars /\ Fairness

-----------------------------------------------------------------------------
\* Types: in particular no file ever gets more hits than it has.
TypeOK ==
  /\ files \in 0 .. MaxFiles
  /\ main \in {"starting", "waiting", "closing", "moving", "writing", "done", "undefined"}
  /\ i \in 0 .. files /\ threadCount \in 0 .. files /\ threadId \in 0 .. MaxFiles
  /\ threadHandles \in [Files -> Files \cup {Null}]
  /\ args \in [Slots -> Files \cup {Null}]
  /\ thread \in [Files -> {"unborn", "begun", "scanning", "ended"}]
  /\ work \in [Files -> Files \cup {Null}]
  /\ result \in [Files -> Nat] /\ \A f \in Files : result[f] <= Hits[f]
  /\ closed \subseteq Files
  /\ out \in [Files -> Nat]

\* The join loop assigns to slots of args while other threads run on theirs
\* (line 108), but never to the slot that a running thread points to, although
\* a handle that has been moved is no longer at the index of its slot.
ArgsIntact == \A t \in Files : thread[t] \in Running => t \in Slots /\ args[t] = t

\* While threads are joined, the first threadCount handles are those of the
\* threads not joined yet, each once: no handle is closed twice, none is left
\* open, and no thread is joined before it has ended.
HandlesExact ==
  main \in {"waiting", "closing", "writing"} =>
    /\ {threadHandles[k] : k \in Waited} \ {Null} =
         {t \in Files : thread[t] # "unborn"} \ closed
    /\ \A j, k \in Waited : threadHandles[j] = threadHandles[k] =>
         j = k \/ threadHandles[j] = Null
    /\ \A t \in closed : thread[t] = "ended"

\* result.out has all hits of all files: every thread has ended before the
\* results are read.
OutputComplete ==
  main = "done" => \A f \in Files : out[f] = IF f < files THEN Hits[f] ELSE 0

\* The program comes to an end.
JoinEnds == <>(main \in {"done", "undefined"})

(***************************************************************************)
(* The strengthening under which the invariants are inductive.             *)
(***************************************************************************)
\* What a thread has pushed at each stage.
WorkOf ==
  \A t \in Files :
    /\ thread[t] \in {"unborn", "begun"} => result[t] = 0
    /\ thread[t] = "scanning" => work[t] = t
    /\ thread[t] = "ended" => result[t] = Hits[t]

Starting ==
  main = "starting" =>
    /\ \A t \in Files : t >= i => thread[t] = "unborn"
    /\ \A t \in Files : threadHandles[t] = IF thread[t] = "unborn" THEN Null ELSE t
    /\ i <= MaxArgs /\ closed = {}

\* The handles of the threads that are still to be joined.
Unjoined ==
  main \in {"waiting", "closing", "moving", "writing"} =>
    /\ files <= MaxArgs
    /\ \A t \in Files : t >= files => thread[t] = "unborn"
    /\ \A t \in closed : thread[t] = "ended"
    /\ \A j, k \in Waited : threadHandles[j] = threadHandles[k] =>
         j = k \/ threadHandles[j] = Null
    /\ \A k \in Waited : threadHandles[k] # Null =>
         /\ thread[threadHandles[k]] # "unborn"
         /\ threadHandles[k] \in closed => main = "moving" /\ k = threadId
    /\ \A t \in Files : thread[t] # "unborn" /\ t \notin closed =>
         \E k \in Waited : threadHandles[k] = t
    /\ \A t \in Files : t < files /\ thread[t] = "unborn" =>
         \E k \in Waited : threadHandles[k] = Null

\* Where a handle has been moved to, the thread of the slot has ended.
MovedOverEnded ==
  main \in {"waiting", "closing", "moving"} =>
    \A k \in Waited : threadHandles[k] \in {k, Null} \/ thread[k] = "ended"

\* The handle that is being closed.
Picked ==
  /\ main \in {"closing", "moving"} =>
       /\ threadId \in Waited
       /\ \A k \in Waited : threadHandles[k] # Null
       /\ thread[threadHandles[threadId]] = "ended"
  /\ main = "moving" => threadHandles[threadId] \in closed
  /\ main = "writing" => threadCount = 0

IndInv ==
  /\ TypeOK /\ ArgsIntact /\ OutputComplete
  /\ WorkOf /\ Starting /\ Unjoined /\ MovedOverEnded /\ Picked
=============================================================================
