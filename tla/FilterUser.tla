----------------------------- MODULE FilterUser -----------------------------
(***************************************************************************)
(* The MiniFilter's user program: wmain, the filter and port control and   *)
(* the main routine of FilterUser, composed with the event sender          *)
(* (WebSocketSender).                                                      *)
(*                                                                         *)
(* Three threads: the console, the main routine that waits for events on   *)
(* the port, and the sender.  The console starts the other two and joins   *)
(* them on "stop", the routine first.  As it stands wmain is a test of the *)
(* sender that returns before it comes to the console: console says which  *)
(* of the two programs runs.                                               *)
(*                                                                         *)
(* A command that changes nothing, because it is refused or its first call *)
(* fails, has no action.                                                   *)
(***************************************************************************)
EXTENDS WebSocketSender

VARIABLES
  \* FilterUser
  uiEventId,            \* the last event that was made
  leaked,               \* what getFileHash has left open: "provider", "hash", "file"
  loaded,               \* the driver is loaded
  bIsFilterLoaded,
  bIsComPortConnected,
  bMainShouldStop,      \* FilterUser's own bShouldStop
  routine,              \* doMainRoutine: "none", "test", "get", "log", "returned"
  \* wmain
  bHasStarted,
  fMainRoutine,         \* the future holds a result to wait for
  console               \* "prompt", in "start": "init", "handshake"; in "stop": "join",
                        \* "unload", "cleanup"; "destroy", "exiting", "exited", or "crashed";
                        \* of the test: "test_init", "test_handshake", "test_queue"

log == <<uiEventId, leaked>>
filter == <<loaded, bIsFilterLoaded, bIsComPortConnected>>
main == <<bMainShouldStop, routine>>
shell == <<bHasStarted, fMainRoutine, console>>
userVars == <<vars, log, filter, main, shell>>

Alive == sender # "crashed"

UserInit ==
  /\ Init
  /\ uiEventId = 0 /\ leaked = {}
  /\ loaded = FALSE /\ bIsFilterLoaded = FALSE /\ bIsComPortConnected = FALSE
  /\ bMainShouldStop = FALSE /\ routine = "none"
  /\ bHasStarted = FALSE /\ fMainRoutine = FALSE
  /\ console \in {"prompt", "test_init"}

(***************************************************************************)
(* "start".                                                                *)
(***************************************************************************)
\* Mutant of loadFilter: bIsFilterLoaded is set only when the port is connected as well.
loadFilterLate ==
  /\ console = "prompt" /\ ~loaded
  /\ loaded' = TRUE
  /\ \/ /\ bIsComPortConnected' = TRUE /\ bIsFilterLoaded' = TRUE
        /\ console' = "init"
        /\ UNCHANGED vars
     \/ CallFails /\ UNCHANGED <<bIsFilterLoaded, bIsComPortConnected, console>>
  /\ UNCHANGED <<log, main, bHasStarted, fMainRoutine>>

\* FilterLoad refuses a driver that is loaded: the error is negative, and line 46 compares it
\* with a code that is not.  When the port cannot be connected the driver stays loaded.
loadFilter ==
  /\ console = "prompt" /\ ~loaded
  /\ loaded' = TRUE /\ bIsFilterLoaded' = TRUE
  /\ \/ bIsComPortConnected' = TRUE /\ console' = "init" /\ UNCHANGED vars
     \/ CallFails /\ UNCHANGED <<bIsComPortConnected, console>>
  /\ UNCHANGED <<log, main, bHasStarted, fMainRoutine>>

connectToServer ==
  /\ console = "init"
  /\ \/ init /\ console' = "handshake"
     \/ CallFails /\ console' = "prompt"
  /\ UNCHANGED <<log, filter, main, bHasStarted, fMainRoutine>>

Started ==
  /\ console = "handshake" /\ handshake
  /\ console' = "prompt"
  /\ IF handle' = "ready"
     THEN routine' = "test" /\ bHasStarted' = TRUE /\ fMainRoutine' = TRUE
     ELSE UNCHANGED <<routine, bHasStarted, fMainRoutine>>
  /\ UNCHANGED <<log, filter, bMainShouldStop>>

(***************************************************************************)
(* doMainRoutine.                                                          *)
(***************************************************************************)
\* Mutant of TestStop: the flag is cleared when the routine is started, not when it ends.
TestStopLost ==
  /\ routine = "test"
  /\ bMainShouldStop' = FALSE
  /\ routine' = "get"
  /\ UNCHANGED <<vars, log, filter, shell>>

TestStop ==
  /\ routine = "test"
  /\ IF bMainShouldStop
     THEN routine' = "returned" /\ bMainShouldStop' = FALSE
     ELSE routine' = "get" /\ UNCHANGED bMainShouldStop
  /\ UNCHANGED <<vars, log, filter, shell>>

\* FilterGetMessage has no timeout.  An error ends the routine and leaves the flag as it is.
getRecord ==
  /\ routine = "get"
  /\ \/ loaded /\ bIsComPortConnected /\ routine' = "log" /\ UNCHANGED vars
     \/ ~bIsComPortConnected /\ routine' = "returned" /\ UNCHANGED vars
     \/ CallFails /\ routine' = "returned"
  /\ UNCHANGED <<log, filter, bMainShouldStop, shell>>

\* Mutant of getFileHash: the provider is not released when the hash cannot be made.
getFileHashKeepsProvider(step) ==
  CASE step = "CryptAcquireContext" -> {}
    [] step = "CryptCreateHash"     -> {"provider"}
    [] step = "CreateFile"          -> {}
    [] OTHER                        -> {"file"}

\* What is left open when step is the one that fails, or none does: each return gives back
\* the provider and the hash that it has, and none closes the file.  CreateFile is not
\* checked; without a file it is ReadFile that fails.
getFileHash(step) ==
  CASE step \in {"CryptAcquireContext", "CryptCreateHash", "CreateFile"} -> {}
    [] OTHER -> {"file"}

HashSteps == {"CryptAcquireContext", "CryptCreateHash", "CreateFile", "ReadFile",
              "CryptHashData", "CryptGetHashParam", "none"}

\* The image of a new process is hashed with three algorithms; other events take nothing.
logged == {{}} \cup {getFileHash(f) \cup getFileHash(g) \cup getFileHash(h) :
                      f, g, h \in HashSteps}

\* The event gets its id, is written to the log, and goes on to the sender when the handshake
\* has been successful.  Events behind MaxEvents are not followed.
composeEventLog ==
  /\ routine = "log"
  /\ routine' = "test"
  /\ leaked' \in {leaked \cup l : l \in logged}
  /\ IF uiEventId < MaxEvents
     THEN /\ uiEventId' = uiEventId + 1
          /\ IF bIsHandshakeSuccessful THEN queueMsg(uiEventId') ELSE UNCHANGED vars
     ELSE UNCHANGED <<vars, uiEventId>>
  /\ UNCHANGED <<filter, bMainShouldStop, shell>>

Routine == Alive /\ (TestStop \/ getRecord \/ composeEventLog)

(***************************************************************************)
(* "stop".                                                                 *)
(***************************************************************************)
\* A second "stop", behind one whose unload has failed, waits on a future that has been used.
stop ==
  /\ console = "prompt" /\ bHasStarted
  /\ bMainShouldStop' = TRUE
  /\ console' = IF fMainRoutine THEN "join" ELSE "crashed"
  /\ UNCHANGED <<vars, log, filter, routine, bHasStarted, fMainRoutine>>

\* Mutant of Join: the filter is unloaded first, to wake a routine that waits for an event.
JoinLater ==
  /\ console = "join"
  /\ console' = "unload"
  /\ fMainRoutine' = FALSE /\ routine' = IF routine = "returned" THEN "none" ELSE routine
  /\ UNCHANGED <<vars, log, filter, bMainShouldStop, bHasStarted>>

Join ==
  /\ console = "join" /\ routine = "returned"
  /\ console' = "unload"
  /\ fMainRoutine' = FALSE /\ routine' = "none"
  /\ UNCHANGED <<vars, log, filter, bMainShouldStop, bHasStarted>>

unloadFilter ==
  /\ console = "unload"
  /\ bIsComPortConnected' = FALSE
  /\ \/ /\ loaded' = FALSE /\ bIsFilterLoaded' = FALSE
        /\ console' = "cleanup"
        /\ UNCHANGED vars
     \/ CallFails /\ console' = "prompt" /\ UNCHANGED <<loaded, bIsFilterLoaded>>
  /\ UNCHANGED <<log, main, bHasStarted, fMainRoutine>>

\* Waits for the sender's thread, which nobody has told to stop.
disconnectFromServer ==
  /\ console = "cleanup" /\ cleanup
  /\ console' = "prompt"
  /\ bHasStarted' = FALSE
  /\ UNCHANGED <<log, filter, main, fMainRoutine>>

(***************************************************************************)
(* "quit" and the destructors.                                             *)
(***************************************************************************)
\* ~FilterUser closes the port and unloads what "start" has left.
quit ==
  /\ console = "prompt" /\ ~bHasStarted
  /\ console' = "destroy"
  /\ bMainShouldStop' = FALSE /\ bIsComPortConnected' = FALSE
  /\ \/ /\ loaded' = (loaded /\ ~bIsFilterLoaded) /\ bIsFilterLoaded' = FALSE
        /\ UNCHANGED vars
     \/ CallFails /\ UNCHANGED <<loaded, bIsFilterLoaded>>
  /\ UNCHANGED <<log, routine, bHasStarted, fMainRoutine>>

Destroy ==
  /\ console = "destroy" /\ destroy
  /\ console' = "exiting"
  /\ UNCHANGED <<log, filter, main, bHasStarted, fMainRoutine>>

Exit ==
  /\ console = "exiting" /\ Destroyed
  /\ console' = "exited"
  /\ UNCHANGED <<vars, log, filter, main, bHasStarted, fMainRoutine>>

(***************************************************************************)
(* wmain as it stands: the test.  No result is looked at.                  *)
(***************************************************************************)
\* Mutant of TestInit: the handshake is left out.
TestInitOnly ==
  /\ console = "test_init"
  /\ init
  /\ console' = "test_queue"
  /\ UNCHANGED <<log, filter, main, bHasStarted, fMainRoutine>>

TestInit ==
  /\ console = "test_init"
  /\ init \/ CallFails
  /\ console' = "test_handshake"
  /\ UNCHANGED <<log, filter, main, bHasStarted, fMainRoutine>>

TestHandshake ==
  /\ console = "test_handshake"
  /\ handshake \/ (handle = "null" /\ UNCHANGED vars)
  /\ console' = "test_queue"
  /\ UNCHANGED <<log, filter, main, bHasStarted, fMainRoutine>>

TestQueue ==
  /\ console = "test_queue" /\ uiEventId < MaxEvents
  /\ uiEventId' = uiEventId + 1
  /\ queueMsg(uiEventId')
  /\ UNCHANGED <<leaked, filter, main, shell>>

\* A key is pressed.
TestKey ==
  /\ console = "test_queue" /\ uiEventId = MaxEvents /\ ~bShouldStop
  /\ setShouldStop
  /\ UNCHANGED <<log, filter, main, shell>>

TestReturn ==
  /\ console = "test_queue" /\ bShouldStop
  /\ console' = "destroy"
  /\ UNCHANGED <<vars, log, filter, main, bHasStarted, fMainRoutine>>

Console ==
  /\ Alive
  /\ \/ loadFilter \/ connectToServer \/ Started
     \/ stop \/ Join \/ unloadFilter \/ disconnectFromServer
     \/ quit \/ Destroy \/ Exit
     \/ TestInit \/ TestHandshake \/ TestQueue \/ TestKey \/ TestReturn

Others == UNCHANGED <<log, filter, main, shell>>

UserNext ==
  \/ Console
  \/ Routine
  \/ (SenderStep \/ Environment) /\ Others

\* The console goes on with a command once it has begun it; file and process events never
\* cease on a running system, so getRecord does not wait for ever.  Nobody has to type.
UserFairness ==
  /\ WF_userVars(Console /\ console \notin {"prompt", "test_queue"})
  /\ WF_userVars(Routine)
  /\ WF_userVars(SenderStep /\ Others)
  /\ WF_userVars(handler /\ Others)

UserSpec == UserInit /\ [][UserNext]_userVars /\ UserFairness

-----------------------------------------------------------------------------
\* Types: in particular, whichever call fails, hashing an image leaves no provider and no hash
\* behind; the handle of the image is what it does leave.
UserTypeOK ==
  /\ TypeOK
  /\ uiEventId \in 0 .. MaxEvents
  /\ leaked \subseteq {"file"}
  /\ loaded \in BOOLEAN /\ bIsFilterLoaded \in BOOLEAN /\ bIsComPortConnected \in BOOLEAN
  /\ bMainShouldStop \in BOOLEAN
  /\ routine \in {"none", "test", "get", "log", "returned"}
  /\ bHasStarted \in BOOLEAN /\ fMainRoutine \in BOOLEAN
  /\ console \in {"prompt", "init", "handshake", "join", "unload", "cleanup",
                  "destroy", "exiting", "exited", "crashed",
                  "test_init", "test_handshake", "test_queue"}

\* While the main routine is at work, wmain holds its future and means to join it, the port
\* is open and the driver loaded: no order of commands and failures unloads the filter, or
\* destroys FilterUser, under it.
RoutineHasItsPort ==
  routine \in {"test", "get", "log"} =>
    bHasStarted /\ fMainRoutine /\ loaded /\ bIsComPortConnected

\* Behind "quit" neither the driver nor the port nor a thread is left, whichever step of
\* "start" has failed; only a failed unload leaves the driver.
ExitLeavesNothing ==
  console = "exited" =>
    /\ ~bIsComPortConnected
    /\ routine \notin {"test", "get", "log"}
    /\ Destroyed
    /\ loaded => bIsFilterLoaded

\* With events coming in, "stop" gets the main routine to return, although it waits for an
\* event without a timeout, and although the flag is cleared by the routine itself; unless the
\* sending thread takes the process with it.
StopJoins == console = "join" ~> (console # "join" \/ ~Alive)
=============================================================================
