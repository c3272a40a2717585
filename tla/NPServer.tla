------------------------------ MODULE NPServer ------------------------------
(***************************************************************************)
(* commandServer: the named pipe server (NPServer.cpp) and its clients     *)
(* (NPClient.cpp).                                                         *)
(*                                                                         *)
(* Every server thread owns one pipe instance and, for each client it      *)
(* waits for, starts a thread that sits in ConnectNamedPipe.  All threads  *)
(* share stopFlag, a bare volatile bool.  wmain starts the server threads, *)
(* clears stopFlag and joins them.                                         *)
(*                                                                         *)
(* Of the pipe (external) the module takes: a new instance listens at      *)
(* once, a disconnected one only after ConnectNamedPipe; CreateFile opens  *)
(* any listening instance; the handle is synchronous, so other calls on it *)
(* wait for a ConnectNamedPipe that is under way; a read fails at once on  *)
(* an instance that nobody has opened; a message that is longer than the   *)
(* buffer fails its read, and the rest of it is the next message; a write  *)
(* does not wait for its reader.                                           *)
(***************************************************************************)
EXTENDS Integers, Sequences, SequencesExt

CONSTANTS
  MaxClients,  \* server threads and pipe instances: 3 in the code
  Clients,     \* NPClient processes
  MaxQueries,  \* bound: the queries of all clients together
  MaxLate,     \* bound: more of them once the shutdown message has been written
  MaxRefusals, \* bound: how often _beginthreadex fails
  None         \* no client, no instance, no query

Threads == 1 .. MaxClients
Pseudo == "pseudo"   \* the client end that a server thread opens itself

ASSUME ServerAssumption ==
  /\ MaxClients \in Nat \ {0}
  /\ MaxQueries \in Nat /\ MaxLate \in Nat /\ MaxRefusals \in Nat
  /\ None \notin Clients \cup Nat
  /\ Pseudo \notin Clients \cup {None}

VARIABLES
  stopFlag,
  main,       \* wmain: "starting", "joining" or "exited"
  pc,         \* per thread: the next step of serverThreadFunc
  connector,  \* per thread: the connection thread
  pipe,       \* per thread: state of its instance and who is at the client end
  inbox,      \* per instance: queries the server has not read
  outbox,     \* per instance: messages the client has not read
  query,      \* per thread: the query it last read
  tmp,        \* per thread: the lines of the temporary file
  client,     \* per client: pc, its instance, its last query, and "long":
              \* history, whether it has met a message longer than its buffer
  asked,      \* how many queries there have been
  refused,    \* how often _beginthreadex has failed
  told        \* history: the shutdown message has been written

vars == <<stopFlag, main, pc, connector, pipe, inbox, outbox, query, tmp, client, asked, refused, told>>
shared == <<stopFlag, main, asked, refused, told>>

Commands == {"run", "quit", "server_stop"}

NoQuery == [from |-> None, number |-> 0, cmd |-> None, late |-> FALSE]

Client(state) == [pc |-> state, at |-> None, last |-> NoQuery, long |-> FALSE]

Init ==
  /\ stopFlag = FALSE
  /\ main = "starting"
  /\ pc = [t \in Threads |-> "unborn"]
  /\ connector = [t \in Threads |-> "none"]
  /\ pipe = [t \in Threads |-> [state |-> "none", at |-> None]]
  /\ inbox = [t \in Threads |-> << >>]
  /\ outbox = [t \in Threads |-> << >>]
  /\ query = [t \in Threads |-> NoQuery]
  /\ tmp = [t \in Threads |-> << >>]
  /\ client = [c \in Clients |-> Client("connect")]
  /\ asked = 0 /\ refused = 0 /\ told = FALSE

Message(kind, q) == [kind |-> kind, of |-> q]

Goes(t, from, to) == pc[t] = from /\ pc' = [pc EXCEPT ![t] = to]

(***************************************************************************)
(* wmain.                                                                  *)
(***************************************************************************)
StartThread ==
  /\ main = "starting"
  /\ \E t \in Threads :
       /\ Goes(t, "unborn", "outer")
       /\ \A u \in 1 .. t - 1 : pc[u] # "unborn"
       /\ pipe' = [pipe EXCEPT ![t].state = "listening"]
  /\ UNCHANGED <<main, stopFlag, connector, inbox, outbox, query, tmp, client, asked, refused, told>>

ClearStop ==
  /\ main = "starting"
  /\ \A t \in Threads : pc[t] # "unborn"
  /\ main' = "joining"
  /\ stopFlag' = FALSE
  /\ UNCHANGED <<pc, connector, pipe, inbox, outbox, query, tmp, client, asked, refused, told>>

\* All threads are joined; with the process go its handles.
Exit ==
  /\ main = "joining"
  /\ \A t \in Threads : pc[t] = "finished"
  /\ main' = "exited"
  /\ pipe' = [t \in Threads |-> [state |-> "none", at |-> None]]
  /\ outbox' = [t \in Threads |-> << >>]
  /\ client' = [c \in Clients |-> [client[c] EXCEPT !.at = None]]
  /\ UNCHANGED <<stopFlag, pc, connector, inbox, query, tmp, asked, refused, told>>

(***************************************************************************)
(* connectNamedPipeThreadFunc, from _beginthreadex to its exit.            *)
(***************************************************************************)
\* Mutant of ConnectNamedPipe: the instance listens even with a client there.
ConnectNamedPipeAgain(t) ==
  /\ connector[t] = "begun"
  /\ connector' = [connector EXCEPT ![t] = "connecting"]
  /\ pipe' = [pipe EXCEPT ![t].state = "listening"]
  /\ UNCHANGED <<shared, pc, inbox, outbox, query, tmp, client>>

ConnectNamedPipe(t) ==
  /\ connector[t] = "begun"
  /\ connector' = [connector EXCEPT ![t] = "connecting"]
  /\ pipe' = [pipe EXCEPT ![t].state = IF @ = "disconnected" THEN "listening" ELSE @]
  /\ UNCHANGED <<shared, pc, inbox, outbox, query, tmp, client>>

ConnectReturns(t) ==
  /\ connector[t] = "connecting"
  /\ pipe[t].state \in {"connected", "closing"}
  /\ connector' = [connector EXCEPT ![t] = "ended"]
  /\ UNCHANGED <<shared, pc, pipe, inbox, outbox, query, tmp, client>>

\* Other calls on the synchronous handle wait.
HandleFree(t) == connector[t] # "connecting"

(***************************************************************************)
(* serverThreadFunc.                                                       *)
(***************************************************************************)
Outer(t) ==
  \/ /\ stopFlag
     /\ Goes(t, "outer", "finished")
     /\ UNCHANGED <<shared, connector, pipe, inbox, outbox, query, tmp, client>>
  \/ /\ ~stopFlag
     /\ Goes(t, "outer", "poll")
     /\ connector' = [connector EXCEPT ![t] = "begun"]
     /\ UNCHANGED <<shared, pipe, inbox, outbox, query, tmp, client>>

\* _beginthreadex fails: there is no connection thread to wait for.
OuterRefused(t) ==
  /\ ~stopFlag /\ refused < MaxRefusals
  /\ Goes(t, "outer", "poll")
  /\ connector' = [connector EXCEPT ![t] = "none"]
  /\ refused' = refused + 1
  /\ UNCHANGED <<stopFlag, main, asked, told, pipe, inbox, outbox, query, tmp, client>>

\* Mutant of Poll: the wait has no timeout, so stopFlag is not looked at.
PollForever(t) ==
  /\ connector[t] \in {"ended", "none"}
  /\ Goes(t, "poll", "announce")
  /\ UNCHANGED <<shared, connector, pipe, inbox, outbox, query, tmp, client>>

\* A wait that times out comes back here and changes nothing.
Poll(t) ==
  /\ stopFlag \/ connector[t] \in {"ended", "none"}
  /\ Goes(t, "poll", "announce")
  /\ UNCHANGED <<shared, connector, pipe, inbox, outbox, query, tmp, client>>

Announce(t) ==
  /\ Goes(t, "announce", IF stopFlag THEN "loop" ELSE "who")
  /\ UNCHANGED <<shared, connector, pipe, inbox, outbox, query, tmp, client>>

GetNamedPipeClientProcessId(t) ==
  /\ HandleFree(t)
  /\ Goes(t, "who", "loop")
  /\ UNCHANGED <<shared, connector, pipe, inbox, outbox, query, tmp, client>>

Loop(t) ==
  /\ Goes(t, "loop", IF stopFlag THEN "after" ELSE "reading")
  /\ UNCHANGED <<shared, connector, pipe, inbox, outbox, query, tmp, client>>

ReadQuery(t) ==
  /\ HandleFree(t)
  /\ inbox[t] # << >> /\ Head(inbox[t]).cmd # "oversized"
  /\ Goes(t, "reading", "test")
  /\ query' = [query EXCEPT ![t] = Head(inbox[t])]
  /\ inbox' = [inbox EXCEPT ![t] = Tail(@)]
  /\ UNCHANGED <<shared, connector, pipe, outbox, tmp, client>>

\* ERROR_MORE_DATA: what the buffer has no room for stays, whatever command it is.
ReadOversized(t) ==
  /\ HandleFree(t)
  /\ inbox[t] # << >> /\ Head(inbox[t]).cmd = "oversized"
  /\ Goes(t, "reading", "after")
  /\ \E rest \in Commands : inbox' = [inbox EXCEPT ![t][1].cmd = rest]
  /\ UNCHANGED <<shared, connector, pipe, outbox, query, tmp, client>>

ReadFails(t) ==
  /\ HandleFree(t)
  /\ inbox[t] = << >>
  /\ pipe[t].state \in {"listening", "closing", "disconnected"}
  /\ Goes(t, "reading", "after")
  /\ UNCHANGED <<shared, connector, pipe, inbox, outbox, query, tmp, client>>

\* Nothing arrives at a client end that is gone.
Send(t, messages) ==
  outbox' = [outbox EXCEPT ![t] =
               IF pipe[t].state = "connected" THEN @ \o messages ELSE @]

TestStop(t) ==
  IF stopFlag \/ query[t].cmd = "server_stop"
  THEN /\ Goes(t, "test", "stopping")
       /\ Send(t, <<Message("shutdown", query[t])>>)
       /\ told' = TRUE
       /\ UNCHANGED <<stopFlag, main, asked, refused, connector, pipe, inbox, query, tmp, client>>
  ELSE /\ Goes(t, "test", "answer")
       /\ UNCHANGED <<shared, connector, pipe, inbox, outbox, query, tmp, client>>

SetStop(t) ==
  /\ Goes(t, "stopping", "loop")
  /\ stopFlag' = TRUE
  /\ query' = [query EXCEPT ![t] = NoQuery]
  /\ UNCHANGED <<main, connector, pipe, inbox, outbox, tmp, client, asked, refused, told>>

\* Mutant of StartCommand: the temporary file is opened without CREATE_ALWAYS,
\* so it keeps the output of earlier queries.
StartCommandAppends(t) ==
  \/ Goes(t, "answer", "command") /\ UNCHANGED <<tmp, outbox>>
  \/ /\ Goes(t, "answer", "flush")
     /\ UNCHANGED tmp
     /\ Send(t, <<Message("line", query[t]), Message("end", query[t])>>)

\* processQuery empties the temporary file and creates the process; when that
\* fails, the answer is one line.
StartCommand(t) ==
  /\ tmp' = [tmp EXCEPT ![t] = << >>]
  /\ \/ Goes(t, "answer", "command") /\ UNCHANGED outbox
     \/ /\ Goes(t, "answer", "flush")
        /\ Send(t, <<Message("line", query[t]), Message("end", query[t])>>)

\* What the temporary file holds, and the end of the answer.
SendFile(t) ==
  /\ Goes(t, "answer", "flush")
  /\ UNCHANGED tmp
  /\ Send(t, tmp[t] \o <<Message("end", query[t])>>)

\* "quit" runs nothing, so what is sent is what the file holds from before.
Answer(t) ==
  /\ \/ /\ stopFlag /\ Goes(t, "answer", "flush")
        /\ UNCHANGED tmp
        /\ Send(t, <<Message("end", query[t])>>)
     \/ ~stopFlag /\ query[t].cmd # "quit" /\ StartCommand(t)
     \/ ~stopFlag /\ query[t].cmd = "quit" /\ SendFile(t)
  /\ UNCHANGED <<shared, connector, pipe, inbox, query, client>>

Outputs(q) == {<< >>, <<Message("line", q)>>, <<Message("long", q)>>}

\* Mutant of CommandEnds: the terminator is written before the output.
CommandEndsEndFirst(t) ==
  /\ Goes(t, "command", "flush")
  /\ \E output \in Outputs(query[t]) :
       /\ tmp' = [tmp EXCEPT ![t] = @ \o output]
       /\ Send(t, <<Message("end", query[t])>> \o tmp'[t])
  /\ UNCHANGED <<shared, connector, pipe, inbox, query, client>>

\* The process has ended; what it has written to the temporary file is sent.
CommandEnds(t) ==
  /\ Goes(t, "command", "flush")
  /\ \E output \in Outputs(query[t]) :
       /\ tmp' = [tmp EXCEPT ![t] = @ \o output]
       /\ Send(t, tmp'[t] \o <<Message("end", query[t])>>)
  /\ UNCHANGED <<shared, connector, pipe, inbox, query, client>>

\* FlushFileBuffers returns when the client has read everything, or has gone.
Flush(t) ==
  /\ outbox[t] = << >>
  /\ Goes(t, "flush", "loop")
  /\ query' = [query EXCEPT ![t] = NoQuery]
  /\ UNCHANGED <<shared, connector, pipe, inbox, outbox, tmp, client>>

\* After the loop, unless the server stops: FlushFileBuffers, then
\* DisconnectNamedPipe, which cuts off a client that is still there.
TestDisconnect(t) ==
  /\ Goes(t, "after", IF stopFlag THEN "exitcode" ELSE "disconnect")
  /\ UNCHANGED <<shared, connector, pipe, inbox, outbox, query, tmp, client>>

\* Mutant of Disconnect: an unread query of the old client stays.
DisconnectUnread(t) ==
  /\ HandleFree(t)
  /\ outbox[t] = << >>
  /\ Goes(t, "disconnect", "exitcode")
  /\ pipe' = [pipe EXCEPT ![t] = [state |-> "disconnected", at |-> None]]
  /\ client' = [c \in Clients |->
                  IF pipe[t].at = c THEN [client[c] EXCEPT !.at = None] ELSE client[c]]
  /\ UNCHANGED <<shared, connector, inbox, outbox, query, tmp>>

\* Mutant of Disconnect: DisconnectNamedPipe is forgotten.
DisconnectForgotten(t) ==
  /\ HandleFree(t)
  /\ outbox[t] = << >>
  /\ Goes(t, "disconnect", "exitcode")
  /\ UNCHANGED <<shared, connector, pipe, inbox, outbox, query, tmp, client>>

Disconnect(t) ==
  /\ HandleFree(t)
  /\ outbox[t] = << >>
  /\ Goes(t, "disconnect", "exitcode")
  /\ pipe' = [pipe EXCEPT ![t] = [state |-> "disconnected", at |-> None]]
  /\ inbox' = [inbox EXCEPT ![t] = << >>]
  /\ client' = [c \in Clients |->
                  IF pipe[t].at = c THEN [client[c] EXCEPT !.at = None] ELSE client[c]]
  /\ UNCHANGED <<shared, connector, outbox, query, tmp>>

\* GetExitCodeThread: a connection thread that has not ended is woken by a
\* client end of the server's own.
ExitCode(t) ==
  /\ Goes(t, "exitcode", IF connector[t] \in {"ended", "none"} THEN "outer" ELSE "pseudo")
  /\ UNCHANGED <<shared, connector, pipe, inbox, outbox, query, tmp, client>>

Listening == {u \in Threads : pipe[u].state = "listening"}

\* CreateFile opens whichever instance listens, not this thread's; the handle
\* stays open until the process exits.
PseudoClient(t) ==
  /\ Goes(t, "pseudo", "await")
  /\ \/ /\ Listening = {}
        /\ UNCHANGED pipe
     \/ \E u \in Listening :
          pipe' = [pipe EXCEPT ![u] = [state |-> "connected", at |-> Pseudo]]
  /\ UNCHANGED <<shared, connector, inbox, outbox, query, tmp, client>>

\* Mutant of AwaitConnector: the connection thread is not waited for.
AwaitConnectorNot(t) ==
  /\ Goes(t, "await", "outer")
  /\ UNCHANGED <<shared, connector, pipe, inbox, outbox, query, tmp, client>>

AwaitConnector(t) ==
  /\ connector[t] = "ended"
  /\ Goes(t, "await", "outer")
  /\ UNCHANGED <<shared, connector, pipe, inbox, outbox, query, tmp, client>>

(***************************************************************************)
(* NPClient: connect, then query and read the answer until a message that  *)
(* does not end a line, or until a read fails.                             *)
(***************************************************************************)
ClientIs(c, from) == client[c].pc = from

Open(c) ==
  /\ ClientIs(c, "connect")
  /\ \E t \in Listening :
       /\ pipe' = [pipe EXCEPT ![t] = [state |-> "connected", at |-> c]]
       /\ client' = [client EXCEPT ![c].pc = "ready", ![c].at = t]
  /\ UNCHANGED <<shared, pc, connector, inbox, outbox, query, tmp>>

Ask(c, cmd) ==
  LET t == client[c].at
      q == [from |-> c, number |-> asked + 1, cmd |-> cmd, late |-> told]
  IN  /\ ClientIs(c, "ready")
      /\ asked < MaxQueries + (IF told THEN MaxLate ELSE 0)
      /\ asked' = asked + 1
      /\ client' = [client EXCEPT ![c].pc = "reading", ![c].last = q]
      /\ inbox' = IF t = None THEN inbox ELSE [inbox EXCEPT ![t] = Append(@, q)]
      /\ UNCHANGED <<stopFlag, main, told, refused, pc, connector, pipe, outbox, query, tmp>>

\* The client leaves: its unread messages go with its end of the pipe.
Leave(c, t) ==
  /\ client' = [client EXCEPT ![c] = Client("gone")]
  /\ IF t = None THEN UNCHANGED <<pipe, outbox>>
     ELSE /\ pipe' = [pipe EXCEPT ![t] = [state |-> "closing", at |-> None]]
          /\ outbox' = [outbox EXCEPT ![t] = << >>]
  /\ UNCHANGED <<shared, pc, connector, inbox, query, tmp>>

\* The answer has ended: the client leaves if the command was "quit".
Prompt(c, t, box) ==
  IF client[c].last.cmd = "quit" THEN Leave(c, t)
  ELSE /\ client' = [client EXCEPT ![c].pc = "ready",
                                   ![c].long = @ \/ (box # << >> /\ Head(box).kind = "rest")]
       /\ outbox' = IF t = None THEN outbox ELSE [outbox EXCEPT ![t] = box]
       /\ UNCHANGED <<shared, pc, connector, pipe, inbox, query, tmp>>

ReadAnswer(c) ==
  LET t   == client[c].at
      box == outbox[t]
      m   == Head(box)
  IN  /\ ClientIs(c, "reading") /\ t # None
      /\ box # << >>
      /\ \/ /\ m.kind \in {"line", "rest", "shutdown"}
            /\ outbox' = [outbox EXCEPT ![t] = Tail(@)]
            /\ UNCHANGED <<shared, pc, connector, pipe, inbox, query, tmp, client>>
         \/ m.kind = "end" /\ Prompt(c, t, Tail(box))
         \/ m.kind = "long" /\ Prompt(c, t, <<Message("rest", m.of)>> \o Tail(box))

ReadBroken(c) ==
  /\ ClientIs(c, "reading")
  /\ client[c].at = None
  /\ Prompt(c, None, << >>)

\* The process is ended from outside.
Die(c) == client[c].pc \in {"ready", "reading"} /\ Leave(c, client[c].at)

-----------------------------------------------------------------------------
Main == StartThread \/ ClearStop \/ Exit

Connector(t) == ConnectNamedPipe(t) \/ ConnectReturns(t)

Server(t) ==
  \/ Outer(t) \/ OuterRefused(t) \/ Poll(t) \/ Announce(t) \/ GetNamedPipeClientProcessId(t) \/ Loop(t)
  \/ ReadQuery(t) \/ ReadOversized(t) \/ ReadFails(t)
  \/ TestStop(t) \/ SetStop(t) \/ Answer(t) \/ Flush(t)
  \/ TestDisconnect(t) \/ Disconnect(t) \/ ExitCode(t) \/ PseudoClient(t)
  \/ AwaitConnector(t)

Next ==
  \/ Main
  \/ \E t \in Threads : Connector(t) \/ Server(t) \/ CommandEnds(t)
  \/ \E c \in Clients :
       \/ Open(c) \/ ReadAnswer(c) \/ ReadBroken(c) \/ Die(c)
       \/ \E cmd \in Commands \cup {"oversized"} : Ask(c, cmd)

(***************************************************************************)
(* The system runs the threads of the server, and the clients read what is *)
(* sent to them.  Nobody has to connect, to type a query or to leave, and  *)
(* no command has to end.                                                  *)
(***************************************************************************)
Fairness ==
  /\ WF_vars(Main)
  /\ \A t \in Threads : WF_vars(Connector(t)) /\ WF_vars(Server(t))
  /\ \A c \in Clients : WF_vars(ReadAnswer(c) \/ ReadBroken(c))

Spec == Init /\ [][Next]_vars /\ Fairness

-----------------------------------------------------------------------------
Queries == [from : Clients \cup {None}, number : 0 .. MaxQueries + MaxLate,
            cmd : Commands \cup {"oversized", None}, late : BOOLEAN]
Messages == [kind : {"line", "long", "rest", "shutdown", "end"}, of : Queries]

\* Types: in particular an instance has a client end exactly while it is
\* connected, so ConnectNamedPipe never offers an instance that is in use.
TypeOK ==
  /\ stopFlag \in BOOLEAN /\ told \in BOOLEAN /\ asked \in 0 .. MaxQueries + MaxLate
  /\ refused \in 0 .. MaxRefusals
  /\ main \in {"starting", "joining", "exited"}
  /\ pc \in [Threads -> {"unborn", "outer", "poll", "announce", "who", "loop", "reading", "test",
                         "stopping", "answer", "command", "flush", "after", "disconnect", "exitcode",
                         "pseudo", "await", "finished"}]
  /\ connector \in [Threads -> {"none", "begun", "connecting", "ended"}]
  /\ \A t \in Threads :
       /\ pipe[t].state \in {"none", "listening", "connected", "closing", "disconnected"}
       /\ pipe[t].at \in IF pipe[t].state = "connected" THEN Clients \cup {Pseudo} ELSE {None}
       /\ inbox[t] \in Seq(Queries) /\ outbox[t] \in Seq(Messages)
       /\ tmp[t] \in Seq(Messages)
  /\ query \in [Threads -> Queries]
  /\ \A c \in Clients :
       /\ client[c].pc \in {"connect", "ready", "reading", "gone"}
       /\ client[c].at \in Threads \cup {None}
       /\ client[c].last \in Queries /\ client[c].long \in BOOLEAN

\* Client and server stay in step: whenever a client is ready for the next
\* query, it has read its previous answer to the end, and the server has read
\* all its queries.  (Not so once a line has been longer than its buffer:
\* ERROR_MORE_DATA ends its loop early, and the rest is read with the next
\* answer.)
InStep ==
  \A c \in Clients :
    LET t == client[c].at IN
    (client[c].pc = "ready" /\ ~client[c].long /\ t # None) =>
      outbox[t] = << >> /\ inbox[t] = << >>

\* What waits for a client was written for that client and for its last query,
\* although threads keep their temporary file from query to query and client to
\* client.  (Not so for "quit", which gets the output of the query before it,
\* perhaps another client's; the rest of a query longer than the buffer may be "quit".)
OwnAnswer ==
  \A t \in Threads : \A c \in Clients :
    (pipe[t].at = c /\ client[c].last.cmd \notin {"quit", "oversized"} /\ ~client[c].long) =>
      \A m \in Range(outbox[t]) : m.of = client[c].last

\* A thread works on a query only while the client that sent it is at the other
\* end, or has left: a new client never meets the answer to the previous one.
AnswersTheAsker ==
  \A t \in Threads :
    pc[t] \in {"test", "stopping", "answer", "command", "flush"} =>
      pipe[t].at \in {query[t].from, None}

\* There is at most one connection thread per pipe handle, and none is left
\* when wmain closes the handles.
ConnectorJoined ==
  \A t \in Threads : pc[t] \in {"outer", "finished"} => connector[t] \in {"none", "ended"}

\* An instance whose client has left is offered to the next client, unless the
\* server is stopped, the instance's thread has finished, or the command of the client
\* never ends (NPServer.cpp:69 waits for it without a timeout).
SlotRecycled ==
  \A t \in Threads :
    [](pipe[t].state = "closing" =>
         \/ <>(pipe[t].state = "listening" \/ stopFlag \/ pc[t] = "finished")
         \/ <>[](pc[t] = "command"))

\* Once wmain has cleared it, stopFlag gets every thread out of its loops; what
\* can keep a thread from finishing is one of the calls that block: on a client
\* that does nothing, on a command that does not end, or on its connection thread (the
\* wait for it, and every call on the handle that this thread sits on,
\* GetNamedPipeClientProcessId and DisconnectNamedPipe among them).
StopEndsLoops ==
  (main = "joining" /\ stopFlag) ~>
    [](\A t \in Threads :
         pc[t] \in {"who", "reading", "command", "flush", "disconnect", "await", "finished"})

-----------------------------------------------------------------------------
\* NPServer.cpp:129, the message to the client that stops the server: "Server
\* is shutting down and will no longer answer queries".  A query that is sent
\* after the message has been written is answered like any other.
NoAnswerAfterStop ==
  \A t \in Threads : \A m \in Range(outbox[t]) :
    m.kind \in {"line", "long"} => ~m.of.late
=============================================================================
