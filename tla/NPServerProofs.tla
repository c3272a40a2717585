--------------------------- MODULE NPServerProofs ---------------------------
(***************************************************************************)
(* Proofs about the command server, for any number of threads, clients and *)
(* queries: types, that no connection thread is left behind, and that a    *)
(* thread never works on a query with another client at the other end.     *)
(***************************************************************************)
EXTENDS NPServer, SequenceTheorems, TLAPS

Steps == {"unborn", "outer", "poll", "announce", "who", "loop", "reading", "test", "stopping",
          "answer", "command", "flush", "after", "disconnect", "exitcode", "pseudo", "await",
          "finished"}
Working == {"test", "stopping", "answer", "command", "flush"}
PipeStates == {"none", "listening", "connected", "closing", "disconnected"}
Ends == Clients \cup {Pseudo, None}
ClientRecords == [pc : {"connect", "ready", "reading", "gone"}, at : Threads \cup {None},
                  last : Queries, long : BOOLEAN]

\* TypeOK with the domains of the functions.
ServerShape ==
  /\ stopFlag \in BOOLEAN
  /\ main \in {"starting", "joining", "exited"}
  /\ pc \in [Threads -> Steps]
  /\ connector \in [Threads -> {"none", "begun", "connecting", "ended"}]
PipeShape ==
  /\ pipe \in [Threads -> [state : PipeStates, at : Ends]]
  /\ inbox \in [Threads -> Seq(Queries)]
  /\ query \in [Threads -> Queries]
BoxShape ==
  /\ outbox \in [Threads -> Seq(Messages)]
  /\ tmp \in [Threads -> Seq(Messages)]
ClientShape ==
  /\ client \in [Clients -> ClientRecords]
  /\ asked \in 0 .. MaxQueries + MaxLate
  /\ refused \in 0 .. MaxRefusals
  /\ told \in BOOLEAN
Shape == ServerShape /\ PipeShape /\ BoxShape /\ ClientShape

\* The connection threads: none yet, or ended where the loop starts anew.
ConnectorInv(t) ==
  /\ pc[t] = "unborn" => connector[t] = "none"
  /\ pc[t] \in {"outer", "finished"} => connector[t] \in {"none", "ended"}

\* Only a connected instance has a client end.
EndInv(t) ==
  /\ pipe[t].at \in IF pipe[t].state = "connected" THEN Clients \cup {Pseudo} ELSE {None}
  /\ pc[t] = "unborn" => pipe[t].state = "none"

\* What the server has of its client, in the instance and at work, is that client's; before
\* the instance takes another one there is nothing left of it.
QueryInv(t) ==
  /\ \A i \in 1 .. Len(inbox[t]) : pipe[t].at \in {inbox[t][i].from, None}
  /\ pc[t] \in Working => pipe[t].at \in {query[t].from, None}
  /\ pc[t] = "unborn" \/ pipe[t].state \in {"listening", "disconnected"} =>
       inbox[t] = << >> /\ pc[t] \notin Working

\* A client's end is at the instance that has it.
ClientInv(c) ==
  client[c].at # None =>
    /\ client[c].pc # "connect"
    /\ pipe[client[c].at].state = "connected"
    /\ pipe[client[c].at].at = c

PipeInv ==
  /\ \A t \in Threads : ConnectorInv(t) /\ EndInv(t) /\ QueryInv(t)
  /\ \A c \in Clients : ClientInv(c)

ServerInv == Shape /\ PipeInv

\* None is nothing else.
LEMMA NoneApart == None \notin Threads /\ None \notin Clients
  BY ServerAssumption DEF Threads

\* NoQuery is a query.
LEMMA NoQueryTyped == NoQuery \in Queries
  BY ServerAssumption DEF NoQuery, Queries

\* The initial state.
LEMMA ServerInvInit == Init => ServerInv
<1> SUFFICES ASSUME Init PROVE ServerInv
  OBVIOUS
<1> USE DEF Init
<1>1. ServerShape
  BY DEF ServerShape, Steps
<1>2. PipeShape
  BY NoQueryTyped DEF PipeShape, PipeStates, Ends
<1>3. BoxShape
  BY DEF BoxShape
<1>4. ClientShape
  <2>1. asked \in 0 .. MaxQueries + MaxLate /\ refused \in 0 .. MaxRefusals
    BY ServerAssumption
  <2>2. client \in [Clients -> ClientRecords]
    BY NoQueryTyped DEF ClientRecords, Client
  <2>3. QED
    BY <2>1, <2>2 DEF ClientShape
<1>5. PipeInv
  BY DEF PipeInv, ConnectorInv, EndInv, QueryInv, ClientInv, Client, Working
<1>6. QED
  BY <1>1, <1>2, <1>3, <1>4, <1>5 DEF ServerInv, Shape

-----------------------------------------------------------------------------
\* The message of a query.
LEMMA MessageTyped ==
  ASSUME NEW kind \in {"line", "long", "rest", "shutdown", "end"}, NEW q \in Queries
  PROVE  Message(kind, q) \in Messages
  BY DEF Message, Messages

\* What is sent stays a sequence of messages.
LEMMA SendTyped ==
  ASSUME BoxShape, NEW t \in Threads, NEW m \in Seq(Messages), Send(t, m)
  PROVE  outbox' \in [Threads -> Seq(Messages)]
  BY DEF BoxShape, Send

\* A step of a thread that leaves the pipe and the connection threads alone, and does not
\* begin or leave off with a query, nor come to or from a state between two clients.
LEMMA PlainStepKeeps ==
  ASSUME ServerInv, NEW t \in Threads, NEW to \in Steps,
         pc' = [pc EXCEPT ![t] = to],
         pc[t] # "unborn", to # "unborn",
         to \in Working => pc[t] \in Working,
         to \in {"outer", "finished"} => connector[t] \in {"none", "ended"},
         query' = query \/ (to \notin Working /\ query' = [query EXCEPT ![t] = NoQuery]),
         stopFlag' \in BOOLEAN, told' \in BOOLEAN, BoxShape',
         UNCHANGED <<main, asked, refused, connector, pipe, inbox, client>>
  PROVE  ServerInv'
<1>1. ServerShape' /\ PipeShape' /\ ClientShape'
  BY NoQueryTyped DEF ServerInv, Shape, ServerShape, PipeShape, ClientShape
<1>2. PipeInv'
  <2>1. ASSUME NEW u \in Threads PROVE ConnectorInv(u)' /\ EndInv(u)' /\ QueryInv(u)'
    <3>1. ConnectorInv(u) /\ EndInv(u) /\ QueryInv(u)
      BY DEF ServerInv, PipeInv
    <3>2. CASE u = t
      BY <3>1, <3>2 DEF ConnectorInv, EndInv, QueryInv, ServerInv, Shape, ServerShape, PipeShape
    <3>3. CASE u # t
      BY <3>1, <3>3 DEF ConnectorInv, EndInv, QueryInv, ServerInv, Shape, ServerShape, PipeShape
    <3>4. QED  BY <3>2, <3>3
  <2>2. ASSUME NEW c \in Clients PROVE ClientInv(c)'
    BY DEF ClientInv, ServerInv, PipeInv
  <2>3. QED
    BY <2>1, <2>2 DEF PipeInv
<1>3. QED
  BY <1>1, <1>2 DEF ServerInv, Shape

\* Steps of serverThreadFunc that only go on.
LEMMA GoesOnKeeps ==
  ASSUME ServerInv, NEW t \in Threads,
         \/ Poll(t) \/ Announce(t) \/ GetNamedPipeClientProcessId(t) \/ Loop(t) \/ ReadFails(t)
         \/ TestDisconnect(t) \/ ExitCode(t) \/ AwaitConnector(t)
  PROVE  ServerInv'
<1>1. BoxShape'
  BY DEF Poll, Announce, GetNamedPipeClientProcessId, Loop, ReadFails, TestDisconnect, ExitCode,
         AwaitConnector, ServerInv, Shape, BoxShape
<1>2. QED
  BY <1>1, PlainStepKeeps
     DEF Poll, Announce, GetNamedPipeClientProcessId, Loop, ReadFails, TestDisconnect, ExitCode,
         AwaitConnector, Goes, Steps, Working, shared, ServerInv, Shape, ServerShape, ClientShape

\* The answers: they change what is sent, and the temporary file.
LEMMA AnswerKeeps ==
  ASSUME ServerInv, NEW t \in Threads,
         TestStop(t) \/ SetStop(t) \/ Answer(t) \/ CommandEnds(t) \/ Flush(t)
  PROVE  ServerInv'
<1>1. query[t] \in Queries /\ tmp[t] \in Seq(Messages) /\ BoxShape
  BY DEF ServerInv, Shape, PipeShape, BoxShape
<1> DEFINE M(kind) == Message(kind, query[t])
<1>2. /\ M("line") \in Messages /\ M("long") \in Messages
      /\ M("end") \in Messages /\ M("shutdown") \in Messages
  BY <1>1, MessageTyped
<1> HIDE DEF M
<1>3. CASE TestStop(t)
  <2>1. BoxShape'
    <3>1. <<M("shutdown")>> \in Seq(Messages)
      BY <1>2
    <3>2. /\ UNCHANGED tmp
          /\ Send(t, <<M("shutdown")>>) \/ UNCHANGED outbox
      BY <1>3 DEF TestStop, M
    <3>3. QED
      BY <1>1, <3>1, <3>2, SendTyped DEF BoxShape
  <2>2. QED
    BY <1>3, <2>1, PlainStepKeeps
       DEF TestStop, Goes, Steps, Working, shared, ServerInv, Shape, ServerShape, ClientShape
<1>4. CASE SetStop(t) \/ Flush(t)
  <2>1. BoxShape'
    BY <1>4 DEF SetStop, Flush, BoxShape, ServerInv, Shape
  <2>2. QED
    BY <1>4, <2>1, PlainStepKeeps
       DEF SetStop, Flush, Goes, Steps, Working, shared, ServerInv, Shape, ServerShape,
           ClientShape
<1>5. CASE Answer(t)
  <2>1. /\ <<M("end")>> \in Seq(Messages) /\ tmp[t] \o <<M("end")>> \in Seq(Messages)
        /\ <<M("line"), M("end")>> \in Seq(Messages)
    BY <1>1, <1>2
  <2>2. /\ UNCHANGED tmp \/ tmp' = [tmp EXCEPT ![t] = << >>]
        /\ \/ UNCHANGED outbox \/ Send(t, <<M("end")>>) \/ Send(t, tmp[t] \o <<M("end")>>)
           \/ Send(t, <<M("line"), M("end")>>)
    BY <1>5 DEF Answer, StartCommand, SendFile, M
  <2>3. tmp' \in [Threads -> Seq(Messages)]
    <3>1. << >> \in Seq(Messages)
      OBVIOUS
    <3>2. QED
      BY <1>1, <2>2, <3>1 DEF BoxShape
  <2>4. BoxShape'
    BY <1>1, <2>1, <2>2, <2>3, SendTyped DEF BoxShape
  <2>5. PICK to \in {"command", "flush"} : Goes(t, "answer", to)
    BY <1>5, Zenon DEF Answer, StartCommand, SendFile
  <2>6. UNCHANGED <<shared, connector, pipe, inbox, query, client>>
    BY <1>5 DEF Answer
  <2>7. QED
    BY <2>4, <2>5, <2>6, PlainStepKeeps
       DEF Goes, Steps, Working, shared, ServerInv, Shape, ServerShape, ClientShape
<1>6. CASE CommandEnds(t)
  <2>1. PICK output \in Outputs(query[t]) :
          /\ tmp' = [tmp EXCEPT ![t] = tmp[t] \o output]
          /\ Send(t, tmp'[t] \o <<M("end")>>)
    BY <1>6 DEF CommandEnds, M
  <2>2. output \in {<< >>, <<M("line")>>, <<M("long")>>}
    BY DEF Outputs, M
  <2>3. output \in Seq(Messages)
    <3>1. /\ << >> \in Seq(Messages) /\ <<M("line")>> \in Seq(Messages)
          /\ <<M("long")>> \in Seq(Messages)
      BY <1>2
    <3>2. QED
      BY <2>2, <3>1
  <2>4. tmp[t] \o output \in Seq(Messages)
    BY <1>1, <2>3
  <2>5. tmp' \in [Threads -> Seq(Messages)] /\ tmp'[t] \in Seq(Messages)
    BY <1>1, <2>1, <2>4 DEF BoxShape
  <2>6. tmp'[t] \o <<M("end")>> \in Seq(Messages)
    BY <1>2, <2>5
  <2>7. BoxShape'
    BY <1>1, <2>1, <2>5, <2>6, SendTyped DEF BoxShape
  <2>8. QED
    BY <1>6, <2>7, PlainStepKeeps
       DEF CommandEnds, Goes, Steps, Working, shared, ServerInv, Shape, ServerShape, ClientShape
<1>7. QED
  BY <1>3, <1>4, <1>5, <1>6

-----------------------------------------------------------------------------
\* The start of a thread: its instance is new.
LEMMA StartKeeps == ASSUME ServerInv, StartThread PROVE ServerInv'
<1>1. PICK t \in Threads :
        /\ Goes(t, "unborn", "outer")
        /\ pipe' = [pipe EXCEPT ![t].state = "listening"]
        /\ UNCHANGED <<main, stopFlag, connector, inbox, outbox, query, tmp, client, asked, refused, told>>
  BY DEF StartThread
<1>2. Shape'
  BY <1>1 DEF Goes, ServerInv, Shape, ServerShape, PipeShape, BoxShape, ClientShape, Steps,
              PipeStates
<1>3. pipe[t].state = "none" /\ pipe[t].at = None /\ inbox[t] = << >> /\ connector[t] = "none"
  BY <1>1 DEF Goes, ServerInv, PipeInv, EndInv, ConnectorInv, QueryInv
<1>4. ASSUME NEW u \in Threads PROVE ConnectorInv(u)' /\ EndInv(u)' /\ QueryInv(u)'
  <2>1. ConnectorInv(u) /\ EndInv(u) /\ QueryInv(u)
    BY DEF ServerInv, PipeInv
  <2>2. CASE u = t
    BY <1>1, <1>3, <2>1, <2>2
       DEF Goes, ConnectorInv, EndInv, QueryInv, Working, ServerInv, Shape, ServerShape, PipeShape
  <2>3. CASE u # t
    BY <1>1, <2>1, <2>3
       DEF Goes, ConnectorInv, EndInv, QueryInv, ServerInv, Shape, ServerShape, PipeShape
  <2>4. QED  BY <2>2, <2>3
<1>5. ASSUME NEW c \in Clients PROVE ClientInv(c)'
  BY <1>1, <1>3 DEF ClientInv, ServerInv, PipeInv, Shape, PipeShape, ClientShape, ClientRecords
<1>6. QED
  BY <1>2, <1>4, <1>5 DEF ServerInv, PipeInv

\* The rest of wmain.
LEMMA MainKeeps == ASSUME ServerInv, Main PROVE ServerInv'
<1>1. CASE StartThread
  BY <1>1, StartKeeps
<1>2. CASE ClearStop
  <2>1. Shape'
    BY <1>2 DEF ClearStop, ServerInv, Shape, ServerShape, PipeShape, BoxShape, ClientShape
  <2>2. PipeInv'
    BY <1>2 DEF ClearStop, ServerInv, PipeInv, ConnectorInv, EndInv, QueryInv, ClientInv
  <2>3. QED  BY <2>1, <2>2 DEF ServerInv
<1>3. CASE Exit
  <2>1. ServerShape' /\ PipeShape'
    BY <1>3 DEF Exit, ServerInv, Shape, ServerShape, PipeShape, PipeStates, Ends
  <2>2. BoxShape'
    BY <1>3 DEF Exit, ServerInv, Shape, BoxShape
  <2>3. ClientShape'
    BY <1>3 DEF Exit, ServerInv, Shape, ClientShape, ClientRecords
  <2>4. ASSUME NEW u \in Threads PROVE ConnectorInv(u)' /\ EndInv(u)' /\ QueryInv(u)'
    <3>1. ConnectorInv(u) /\ pc[u] = "finished"
      BY <1>3 DEF Exit, ServerInv, PipeInv
    <3>2. QED
      BY <1>3, <3>1 DEF Exit, ConnectorInv, EndInv, QueryInv, Working
  <2>5. ASSUME NEW c \in Clients PROVE ClientInv(c)'
    BY <1>3 DEF Exit, ClientInv, ServerInv, Shape, ClientShape, ClientRecords
  <2>6. QED
    BY <2>1, <2>2, <2>3, <2>4, <2>5 DEF ServerInv, Shape, PipeInv
<1>4. QED
  BY <1>1, <1>2, <1>3 DEF Main

\* The connection thread, and the round of the outer loop that starts it.
LEMMA ConnectorKeeps ==
  ASSUME ServerInv, NEW t \in Threads, Connector(t) \/ Outer(t) \/ OuterRefused(t)
  PROVE  ServerInv'
<1> USE DEF Connector, ConnectReturns, Outer, OuterRefused, Goes, shared
<1> DEFINE Turned(u) ==
      /\ pipe'[u].at = pipe[u].at
      /\ \/ pipe'[u].state = pipe[u].state
         \/ pipe[u].state = "disconnected" /\ pipe'[u].state = "listening"
<1>1. PipeShape' /\ \A u \in Threads : Turned(u)
  <2>1. CASE ConnectNamedPipe(t)
    <3>1. CASE pipe[t].state = "disconnected"
      <4>1. pipe' = [pipe EXCEPT ![t].state = "listening"]
        BY <2>1, <3>1 DEF ConnectNamedPipe
      <4>2. pipe \in [Threads -> [state : PipeStates, at : Ends]] /\ "listening" \in PipeStates
        BY DEF ServerInv, Shape, PipeShape, PipeStates
      <4>3. pipe' \in [Threads -> [state : PipeStates, at : Ends]]
        BY <4>1, <4>2
      <4>4. \A u \in Threads : Turned(u)
        BY <3>1, <4>1, <4>2
      <4>5. QED
        BY <2>1, <4>3, <4>4 DEF ConnectNamedPipe, ServerInv, Shape, PipeShape
    <3>2. CASE pipe[t].state # "disconnected"
      <4>1. pipe' = [pipe EXCEPT ![t].state = pipe[t].state]
        BY <2>1, <3>2 DEF ConnectNamedPipe
      <4>2. QED
        BY <2>1, <4>1 DEF ConnectNamedPipe, ServerInv, Shape, PipeShape
    <3>3. QED  BY <3>1, <3>2
  <2>2. CASE ~ConnectNamedPipe(t)
    BY <2>2 DEF ServerInv, Shape, PipeShape
  <2>3. QED  BY <2>1, <2>2
<1> HIDE DEF Turned
<1> USE DEF ConnectNamedPipe
<1>2. ServerShape' /\ BoxShape' /\ ClientShape'
  <2>1. refused' \in 0 .. MaxRefusals
    BY ServerAssumption DEF ServerInv, Shape, ClientShape
  <2>2. QED
    BY <2>1 DEF ServerInv, Shape, ServerShape, BoxShape, ClientShape, Steps
<1>3. ASSUME NEW u \in Threads PROVE ConnectorInv(u)' /\ EndInv(u)' /\ QueryInv(u)'
  <2>1. ConnectorInv(u) /\ EndInv(u) /\ QueryInv(u) /\ Turned(u)
    BY <1>1 DEF ServerInv, PipeInv
  <2>2. /\ pc'[u] = "unborn" => pc[u] = "unborn"
        /\ pc'[u] \in Working => pc[u] \in Working
        /\ inbox' = inbox /\ query' = query
    BY DEF ServerInv, Shape, ServerShape, Working
  <2>3. ConnectorInv(u)'
    BY <2>1 DEF ConnectorInv, ServerInv, Shape, ServerShape
  <2>4. EndInv(u)'
    BY <2>1, <2>2 DEF EndInv, Turned
  <2>5. QueryInv(u)'
    BY <2>1, <2>2 DEF QueryInv, Turned
  <2>6. QED  BY <2>3, <2>4, <2>5
<1>4. ASSUME NEW c \in Clients PROVE ClientInv(c)'
  <2>1. ClientInv(c) /\ client' = client /\ client[c].at \in Threads \cup {None}
    BY DEF ServerInv, PipeInv, Shape, ClientShape, ClientRecords
  <2>2. QED
    BY <1>1, <2>1 DEF ClientInv, Turned
<1>5. QED
  BY <1>1, <1>2, <1>3, <1>4 DEF ServerInv, Shape, PipeInv

\* A query is taken from the instance: its client is there, or has left.
LEMMA ReadKeeps == ASSUME ServerInv, NEW t \in Threads, ReadQuery(t) PROVE ServerInv'
<1> USE DEF ReadQuery, Goes, shared
<1>1. /\ inbox[t] \in Seq(Queries) /\ inbox[t] # << >>
      /\ Head(inbox[t]) \in Queries /\ Head(inbox[t]) = inbox[t][1]
      /\ Tail(inbox[t]) \in Seq(Queries) /\ Len(inbox[t]) > 0
      /\ Len(Tail(inbox[t])) = Len(inbox[t]) - 1
      /\ \A i \in 1 .. Len(Tail(inbox[t])) : Tail(inbox[t])[i] = inbox[t][i + 1]
  BY DEF ServerInv, Shape, PipeShape
<1>2. ServerShape' /\ PipeShape'
  BY <1>1 DEF ServerInv, Shape, ServerShape, PipeShape, Steps
<1>3. BoxShape' /\ ClientShape'
  BY DEF ServerInv, Shape, BoxShape, ClientShape
<1>4. ASSUME NEW u \in Threads PROVE ConnectorInv(u)' /\ EndInv(u)' /\ QueryInv(u)'
  <2>1. ConnectorInv(u) /\ EndInv(u) /\ QueryInv(u)
    BY DEF ServerInv, PipeInv
  <2>2. CASE u = t
    <3>1. ConnectorInv(u)' /\ EndInv(u)'
      BY <2>1, <2>2 DEF ConnectorInv, EndInv, ServerInv, Shape, ServerShape
    <3>2. /\ pc'[u] = "test" /\ query'[u] = inbox[u][1] /\ inbox'[u] = Tail(inbox[u])
          /\ pipe' = pipe /\ pc[u] = "reading"
      BY <1>1, <2>2 DEF ServerInv, Shape, ServerShape, PipeShape
    <3>3. pipe[u].at \in {inbox[u][1].from, None}
      BY <1>1, <2>1, <2>2 DEF QueryInv
    <3>4. \A i \in 1 .. Len(inbox'[u]) : pipe[u].at \in {inbox'[u][i].from, None}
      BY <1>1, <2>1, <2>2, <3>2 DEF QueryInv
    <3>5. pipe[u].state \notin {"listening", "disconnected"}
      BY <1>1, <2>1, <2>2 DEF QueryInv
    <3>6. QED
      BY <3>1, <3>2, <3>3, <3>4, <3>5 DEF QueryInv
  <2>3. CASE u # t
    BY <2>1, <2>3 DEF ConnectorInv, EndInv, QueryInv, ServerInv, Shape, ServerShape, PipeShape
  <2>4. QED  BY <2>2, <2>3
<1>5. ASSUME NEW c \in Clients PROVE ClientInv(c)'
  BY DEF ClientInv, ServerInv, PipeInv
<1>6. QED
  BY <1>2, <1>3, <1>4, <1>5 DEF ServerInv, Shape, PipeInv

\* The rest of a query is a query, of the same client; no other instance is touched.
LEMMA RestTyped ==
  ASSUME ServerInv, NEW t \in Threads, ReadOversized(t)
  PROVE  /\ inbox' \in [Threads -> Seq(Queries)]
         /\ Len(inbox'[t]) = Len(inbox[t])
         /\ \A i \in 1 .. Len(inbox[t]) : inbox'[t][i].from = inbox[t][i].from
         /\ \A u \in Threads \ {t} : inbox'[u] = inbox[u]
<1>1. PICK rest \in Commands : inbox' = [inbox EXCEPT ![t][1].cmd = rest]
  BY DEF ReadOversized
<1> DEFINE old == inbox[t]
           e == [old[1] EXCEPT !.cmd = rest]
           new == [old EXCEPT ![1] = e]
<1>2. inbox \in [Threads -> Seq(Queries)] /\ old \in Seq(Queries) /\ old # << >>
  BY DEF ReadOversized, ServerInv, Shape, PipeShape
<1>3. 1 \in 1 .. Len(old) /\ old[1] \in Queries
  BY <1>2
<1>4. e \in Queries /\ e.from = old[1].from
  BY <1>3 DEF Queries
<1>5. inbox' = [inbox EXCEPT ![t] = new]
  BY <1>1
<1> HIDE DEF old, e
<1>6. /\ new \in Seq(Queries) /\ Len(new) = Len(old)
      /\ \A i \in 1 .. Len(old) : new[i] = IF i = 1 THEN e ELSE old[i]
  BY <1>2, <1>3, <1>4, ExceptSeq
<1> HIDE DEF new
<1>7. inbox'[t] = new /\ inbox' \in [Threads -> Seq(Queries)]
  BY <1>2, <1>5, <1>6
<1>8. QED
  BY <1>2, <1>4, <1>5, <1>6, <1>7 DEF old

\* The start of a query that is too long is lost.
LEMMA ReadOversizedKeeps ==
  ASSUME ServerInv, NEW t \in Threads, ReadOversized(t)
  PROVE  ServerInv'
<1> USE DEF Goes, shared
<1>1. ServerShape' /\ PipeShape'
  BY RestTyped DEF ReadOversized, ServerInv, Shape, ServerShape, PipeShape, Steps
<1>2. BoxShape' /\ ClientShape'
  BY DEF ReadOversized, ServerInv, Shape, BoxShape, ClientShape
<1>3. ASSUME NEW u \in Threads PROVE ConnectorInv(u)' /\ EndInv(u)' /\ QueryInv(u)'
  <2>1. ConnectorInv(u) /\ EndInv(u) /\ QueryInv(u)
    BY DEF ServerInv, PipeInv
  <2>2. UNCHANGED <<connector, pipe, query>>
    BY DEF ReadOversized
  <2>3. CASE u = t
    <3>1. /\ pc[u] = "reading" /\ pc'[u] = "after" /\ inbox[u] # << >>
          /\ inbox[u] \in Seq(Queries)
      BY <2>3 DEF ReadOversized, ServerInv, Shape, ServerShape, PipeShape
    <3>2. pipe[u].state \notin {"listening", "disconnected"}
      BY <2>1, <3>1 DEF QueryInv
    <3>3. \A i \in 1 .. Len(inbox'[u]) : pipe[u].at \in {inbox'[u][i].from, None}
      BY <2>1, <2>3, RestTyped DEF QueryInv
    <3>4. QED
      BY <2>1, <2>2, <3>1, <3>2, <3>3 DEF ConnectorInv, EndInv, QueryInv, Working
  <2>4. CASE u # t
    <3>1. pc'[u] = pc[u] /\ inbox'[u] = inbox[u]
      BY <2>4, RestTyped DEF ReadOversized, ServerInv, Shape, ServerShape
    <3>2. QED
      BY <2>1, <2>2, <3>1 DEF ConnectorInv, EndInv, QueryInv
  <2>5. QED  BY <2>3, <2>4
<1>4. ASSUME NEW c \in Clients PROVE ClientInv(c)'
  BY DEF ReadOversized, ClientInv, ServerInv, PipeInv
<1>5. QED
  BY <1>1, <1>2, <1>3, <1>4 DEF ServerInv, Shape, PipeInv

\* The client is cut off: with it goes what it has sent.
LEMMA DisconnectKeeps == ASSUME ServerInv, NEW t \in Threads, Disconnect(t) PROVE ServerInv'
<1> USE DEF Disconnect, Goes, shared
<1>1. ServerShape' /\ PipeShape'
  BY DEF ServerInv, Shape, ServerShape, PipeShape, Steps, PipeStates, Ends
<1>2. BoxShape' /\ ClientShape'
  BY DEF ServerInv, Shape, BoxShape, ClientShape, ClientRecords
<1>3. ASSUME NEW u \in Threads PROVE ConnectorInv(u)' /\ EndInv(u)' /\ QueryInv(u)'
  <2>1. ConnectorInv(u) /\ EndInv(u) /\ QueryInv(u)
    BY DEF ServerInv, PipeInv
  <2>2. CASE u = t
    BY <2>1, <2>2
       DEF ConnectorInv, EndInv, QueryInv, Working, ServerInv, Shape, ServerShape, PipeShape
  <2>3. CASE u # t
    BY <2>1, <2>3 DEF ConnectorInv, EndInv, QueryInv, ServerInv, Shape, ServerShape, PipeShape
  <2>4. QED  BY <2>2, <2>3
<1>4. ASSUME NEW c \in Clients PROVE ClientInv(c)'
  <2>1. ClientInv(c) /\ client[c].at \in Threads \cup {None}
    BY DEF ServerInv, PipeInv, Shape, ClientShape, ClientRecords
  <2>2. CASE pipe[t].at = c
    BY <2>2 DEF ClientInv, ServerInv, Shape, ClientShape, ClientRecords
  <2>3. CASE pipe[t].at # c
    BY <2>1, <2>3 DEF ClientInv, ServerInv, Shape, PipeShape
  <2>4. QED  BY <2>2, <2>3
<1>5. QED
  BY <1>1, <1>2, <1>3, <1>4 DEF ServerInv, Shape, PipeInv

\* A client end is opened, by a client or by the server itself: nothing is left in an instance
\* that listens.
LEMMA OpensKeeps ==
  ASSUME ServerInv, NEW u \in Threads, NEW who \in Clients \cup {Pseudo},
         pipe[u].state = "listening",
         pipe' = [pipe EXCEPT ![u] = [state |-> "connected", at |-> who]],
         UNCHANGED <<inbox, query>>,
         pc' \in [Threads -> Steps],
         \A v \in Threads : pc'[v] = pc[v] \/ (pc[v] = "pseudo" /\ pc'[v] = "await"),
         UNCHANGED <<connector, stopFlag, main>>
  PROVE  /\ ServerShape' /\ PipeShape'
         /\ \A v \in Threads : ConnectorInv(v)' /\ EndInv(v)' /\ QueryInv(v)'
<1>1. ServerShape'
  BY DEF ServerInv, Shape, ServerShape
<1>2. PipeShape'
  BY DEF ServerInv, Shape, PipeShape, PipeStates, Ends
<1>3. ASSUME NEW v \in Threads PROVE ConnectorInv(v)' /\ EndInv(v)' /\ QueryInv(v)'
  <2>1. ConnectorInv(v) /\ EndInv(v) /\ QueryInv(v)
    BY DEF ServerInv, PipeInv
  <2>2. ConnectorInv(v)'
    BY <2>1 DEF ConnectorInv
  <2>3. CASE v = u
    BY <2>1, <2>2, <2>3 DEF EndInv, QueryInv, Working, ServerInv, Shape, PipeShape
  <2>4. CASE v # u
    BY <2>1, <2>2, <2>4 DEF EndInv, QueryInv, Working, ServerInv, Shape, PipeShape
  <2>5. QED  BY <2>3, <2>4
<1>4. QED
  BY <1>1, <1>2, <1>3

\* The server's own client end.
LEMMA PseudoKeeps == ASSUME ServerInv, NEW t \in Threads, PseudoClient(t) PROVE ServerInv'
<1> USE DEF Goes, shared
<1>1. CASE UNCHANGED pipe
  <2>1. BoxShape'
    BY DEF PseudoClient, ServerInv, Shape, BoxShape
  <2>2. QED
    BY <1>1, <2>1, PlainStepKeeps
       DEF PseudoClient, Steps, Working, ServerInv, Shape, ServerShape, ClientShape
<1>2. CASE \E u \in Listening :
             pipe' = [pipe EXCEPT ![u] = [state |-> "connected", at |-> Pseudo]]
  <2>1. PICK u \in Listening :
          pipe' = [pipe EXCEPT ![u] = [state |-> "connected", at |-> Pseudo]]
    BY <1>2
  <2>2. u \in Threads /\ pipe[u].state = "listening"
    BY DEF Listening
  <2>3. /\ pc' \in [Threads -> Steps]
        /\ \A v \in Threads : pc'[v] = pc[v] \/ (pc[v] = "pseudo" /\ pc'[v] = "await")
    BY DEF PseudoClient, ServerInv, Shape, ServerShape, Steps
  <2>4. /\ ServerShape' /\ PipeShape'
        /\ \A v \in Threads : ConnectorInv(v)' /\ EndInv(v)' /\ QueryInv(v)'
    BY <2>1, <2>2, <2>3, OpensKeeps DEF PseudoClient
  <2>5. BoxShape' /\ ClientShape'
    BY DEF PseudoClient, ServerInv, Shape, BoxShape, ClientShape
  <2>6. ASSUME NEW c \in Clients PROVE ClientInv(c)'
    BY <2>1, <2>2 DEF PseudoClient, ClientInv, ServerInv, PipeInv, Shape, PipeShape,
                      ClientShape, ClientRecords
  <2>7. QED
    BY <2>4, <2>5, <2>6 DEF ServerInv, Shape, PipeInv
<1>3. QED
  BY <1>1, <1>2 DEF PseudoClient

\* A client connects.
LEMMA OpenKeeps == ASSUME ServerInv, NEW c \in Clients, Open(c) PROVE ServerInv'
<1> USE DEF Open, shared
<1>1. PICK t \in Listening :
        /\ pipe' = [pipe EXCEPT ![t] = [state |-> "connected", at |-> c]]
        /\ client' = [client EXCEPT ![c].pc = "ready", ![c].at = t]
  OBVIOUS
<1>2. t \in Threads /\ pipe[t].state = "listening"
  BY DEF Listening
<1>3. pc' \in [Threads -> Steps] /\ \A v \in Threads : pc'[v] = pc[v]
  BY DEF ServerInv, Shape, ServerShape
<1>4. /\ ServerShape' /\ PipeShape'
      /\ \A v \in Threads : ConnectorInv(v)' /\ EndInv(v)' /\ QueryInv(v)'
  BY <1>1, <1>2, <1>3, OpensKeeps
<1>5. BoxShape'
  BY DEF ServerInv, Shape, BoxShape
<1>6. ClientShape'
  <2>1. /\ client \in [Clients -> ClientRecords]
        /\ "ready" \in {"connect", "ready", "reading", "gone"} /\ t \in Threads \cup {None}
    BY <1>2 DEF ServerInv, Shape, ClientShape
  <2>2. client' \in [Clients -> ClientRecords]
    <3> HIDE DEF Open
    <3>1. [client[c] EXCEPT !.pc = "ready", !.at = t] \in ClientRecords
      BY <2>1 DEF ClientRecords
    <3>2. client' = [client EXCEPT ![c] = [@ EXCEPT !.pc = "ready", !.at = t]]
      BY <1>1, <2>1
    <3>3. QED
      BY <2>1, <3>1, <3>2
  <2>3. QED
    BY <2>2 DEF ServerInv, Shape, ClientShape
<1>7. ASSUME NEW d \in Clients PROVE ClientInv(d)'
  <2>1. ClientInv(d) /\ client[d].at \in Threads \cup {None}
    BY DEF ServerInv, PipeInv, Shape, ClientShape, ClientRecords
  <2>2. CASE d = c
    BY <1>1, <1>2, <2>2 DEF ClientInv, ServerInv, Shape, PipeShape, ClientShape, ClientRecords
  <2>3. CASE d # c
    BY <1>1, <1>2, <2>1, <2>3 DEF ClientInv, ServerInv, Shape, PipeShape, ClientShape
  <2>4. QED  BY <2>2, <2>3
<1>8. QED
  BY <1>4, <1>5, <1>6, <1>7 DEF ServerInv, Shape, PipeInv

\* A query is sent, to the instance that the client has.
LEMMA AskKeeps ==
  ASSUME ServerInv, NEW c \in Clients, NEW cmd \in Commands \cup {"oversized"}, Ask(c, cmd)
  PROVE  ServerInv'
<1> DEFINE t == client[c].at
           q == [from |-> c, number |-> asked + 1, cmd |-> cmd, late |-> told]
<1>1. t \in Threads \cup {None} /\ ClientInv(c)
  BY DEF ServerInv, PipeInv, Shape, ClientShape, ClientRecords
<1>2. q \in Queries /\ asked' \in 0 .. MaxQueries + MaxLate
  BY ServerAssumption DEF Ask, Queries, ServerInv, Shape, ClientShape
<1>3. /\ asked' = asked + 1
      /\ client' = [client EXCEPT ![c].pc = "reading", ![c].last = q]
      /\ inbox' = IF t = None THEN inbox ELSE [inbox EXCEPT ![t] = Append(@, q)]
      /\ UNCHANGED <<stopFlag, main, told, refused, pc, connector, pipe, outbox, query, tmp>>
  BY DEF Ask
<1>4. q.from = c
  OBVIOUS
<1> HIDE DEF t, q
<1>5. ServerShape' /\ BoxShape'
  BY <1>3 DEF ServerInv, Shape, ServerShape, BoxShape
<1>6. PipeShape'
  BY <1>1, <1>2, <1>3 DEF ServerInv, Shape, PipeShape
<1>7. ClientShape'
  BY <1>2, <1>3 DEF ServerInv, Shape, ClientShape, ClientRecords
<1>8. ASSUME NEW u \in Threads PROVE ConnectorInv(u)' /\ EndInv(u)' /\ QueryInv(u)'
  <2>1. ConnectorInv(u) /\ EndInv(u) /\ QueryInv(u)
    BY DEF ServerInv, PipeInv
  <2>2. ConnectorInv(u)' /\ EndInv(u)'
    BY <1>3, <2>1 DEF ConnectorInv, EndInv
  <2>3. CASE u = t /\ t # None
    <3>1. /\ inbox[u] \in Seq(Queries)
          /\ inbox'[u] = Append(inbox[u], q)
      BY <1>3, <2>3 DEF ServerInv, Shape, PipeShape
    <3>2. pipe[u].state = "connected" /\ pipe[u].at = c
      BY <1>1, <2>3 DEF ClientInv, t
    <3>3. ASSUME NEW i \in 1 .. Len(inbox'[u]) PROVE pipe[u].at \in {inbox'[u][i].from, None}
      <4>1. CASE i = Len(inbox[u]) + 1
        BY <1>2, <1>4, <3>1, <3>2, <4>1
      <4>2. CASE i # Len(inbox[u]) + 1
        <5>1. i \in 1 .. Len(inbox[u]) /\ inbox'[u][i] = inbox[u][i]
          BY <1>2, <3>1, <4>2
        <5>2. QED
          BY <2>1, <5>1 DEF QueryInv
      <4>3. QED  BY <4>1, <4>2
    <3>4. pc[u] # "unborn"
      BY <2>1, <3>2 DEF EndInv
    <3>5. QED
      BY <1>3, <2>1, <2>2, <3>2, <3>3, <3>4 DEF QueryInv
  <2>4. CASE ~(u = t /\ t # None)
    <3>1. inbox'[u] = inbox[u]
      BY <1>1, <1>3, <2>4 DEF ServerInv, Shape, PipeShape
    <3>2. QED
      BY <1>3, <2>1, <2>2, <3>1 DEF QueryInv
  <2>5. QED  BY <2>3, <2>4
<1>9. ASSUME NEW d \in Clients PROVE ClientInv(d)'
  <2>1. /\ ClientInv(d) /\ client'[d].at = client[d].at
        /\ client'[d].pc \in {client[d].pc, "reading"}
    BY <1>3 DEF ServerInv, PipeInv, Shape, ClientShape, ClientRecords
  <2>2. QED
    BY <1>3, <2>1 DEF ClientInv
<1>10. QED
  BY <1>5, <1>6, <1>7, <1>8, <1>9 DEF ServerInv, Shape, PipeInv

\* A client leaves: its instance has no client end from then on.
LEMMA LeaveKeeps ==
  ASSUME ServerInv, NEW c \in Clients, Leave(c, client[c].at)
  PROVE  ServerInv'
<1> DEFINE t == client[c].at
<1>1. t \in Threads \cup {None} /\ ClientInv(c)
  BY DEF ServerInv, PipeInv, Shape, ClientShape, ClientRecords
<1>2. /\ client' = [client EXCEPT ![c] = Client("gone")]
      /\ UNCHANGED <<stopFlag, main, asked, refused, told, pc, connector, inbox, query, tmp>>
      /\ IF t = None THEN UNCHANGED <<pipe, outbox>>
         ELSE /\ pipe' = [pipe EXCEPT ![t] = [state |-> "closing", at |-> None]]
              /\ outbox' = [outbox EXCEPT ![t] = << >>]
  BY DEF Leave, shared
<1>3. t # None => pipe[t].state = "connected" /\ pipe[t].at = c
  BY <1>1 DEF ClientInv
<1>4. ASSUME NEW d \in Clients, d # c PROVE ClientInv(d) /\ (client[d].at = t => t = None)
  BY <1>3, <1>4 DEF ServerInv, PipeInv, ClientInv
<1> HIDE DEF t
<1>5. ServerShape'
  BY <1>2 DEF ServerInv, Shape, ServerShape
<1>6. PipeShape'
  BY <1>1, <1>2 DEF ServerInv, Shape, PipeShape, PipeStates, Ends
<1>7. BoxShape'
  <2>1. << >> \in Seq(Messages)
    OBVIOUS
  <2>2. QED
    BY <1>1, <1>2, <2>1 DEF ServerInv, Shape, BoxShape
<1>8. ClientShape'
  BY <1>2, NoQueryTyped DEF ServerInv, Shape, ClientShape, ClientRecords, Client
<1>9. ASSUME NEW u \in Threads PROVE ConnectorInv(u)' /\ EndInv(u)' /\ QueryInv(u)'
  <2>1. ConnectorInv(u) /\ EndInv(u) /\ QueryInv(u)
    BY DEF ServerInv, PipeInv
  <2>2. CASE u = t /\ t # None
    <3>1. pipe'[u] = [state |-> "closing", at |-> None]
      BY <1>2, <2>2 DEF ServerInv, Shape, PipeShape
    <3>2. QED
      BY <1>2, <1>3, <2>1, <2>2, <3>1 DEF ConnectorInv, EndInv, QueryInv
  <2>3. CASE ~(u = t /\ t # None)
    <3>1. pipe'[u] = pipe[u]
      BY <1>1, <1>2, <2>3 DEF ServerInv, Shape, PipeShape
    <3>2. QED
      BY <1>2, <2>1, <3>1 DEF ConnectorInv, EndInv, QueryInv
  <2>4. QED  BY <2>2, <2>3
<1>10. ASSUME NEW d \in Clients PROVE ClientInv(d)'
  <2>1. CASE d = c
    BY <1>2, <2>1 DEF ClientInv, Client, ServerInv, Shape, ClientShape
  <2>2. CASE d # c
    <3>1. client'[d] = client[d] /\ ClientInv(d) /\ client[d].at \in Threads \cup {None}
      BY <1>2, <1>4, <2>2 DEF ServerInv, Shape, ClientShape, ClientRecords
    <3>2. client[d].at # None => pipe'[client[d].at] = pipe[client[d].at]
      BY <1>1, <1>2, <1>4, <2>2, <3>1 DEF ServerInv, Shape, PipeShape
    <3>3. QED
      BY <3>1, <3>2 DEF ClientInv
  <2>3. QED  BY <2>1, <2>2
<1>11. QED
  BY <1>5, <1>6, <1>7, <1>8, <1>9, <1>10 DEF ServerInv, Shape, PipeInv

\* A client at its prompt.
LEMMA ReadyTyped ==
  ASSUME NEW r \in ClientRecords, NEW long \in BOOLEAN
  PROVE  /\ [r EXCEPT !.pc = "ready", !.long = long] \in ClientRecords
         /\ [r EXCEPT !.pc = "ready", !.long = long].at = r.at
         /\ [r EXCEPT !.pc = "ready", !.long = long].pc = "ready"
  BY DEF ClientRecords

\* A client reads on, or comes to its prompt.
LEMMA ReadsOnKeeps ==
  ASSUME ServerInv, NEW c \in Clients,
         outbox' \in [Threads -> Seq(Messages)],
         \/ UNCHANGED client
         \/ \E long \in BOOLEAN : client' = [client EXCEPT ![c].pc = "ready", ![c].long = long],
         UNCHANGED <<shared, pc, connector, pipe, inbox, query, tmp>>
  PROVE  ServerInv'
<1>1. ServerShape' /\ PipeShape' /\ BoxShape'
  BY DEF ServerInv, Shape, ServerShape, PipeShape, BoxShape, shared
<1>2. /\ client' \in [Clients -> ClientRecords]
      /\ \A d \in Clients :
           client'[d].at = client[d].at /\ client'[d].pc \in {client[d].pc, "ready"}
  <2>1. CASE UNCHANGED client
    BY <2>1 DEF ServerInv, Shape, ClientShape
  <2>2. CASE \E long \in BOOLEAN : client' = [client EXCEPT ![c].pc = "ready", ![c].long = long]
    <3>1. PICK long \in BOOLEAN : client' = [client EXCEPT ![c].pc = "ready", ![c].long = long]
      BY <2>2
    <3>2. client \in [Clients -> ClientRecords]
      BY DEF ServerInv, Shape, ClientShape
    <3>3. /\ [client[c] EXCEPT !.pc = "ready", !.long = long] \in ClientRecords
          /\ [client[c] EXCEPT !.pc = "ready", !.long = long].at = client[c].at
          /\ [client[c] EXCEPT !.pc = "ready", !.long = long].pc = "ready"
      BY <3>2, ReadyTyped
    <3>4. client' = [client EXCEPT ![c] = [@ EXCEPT !.pc = "ready", !.long = long]]
      BY <3>1, <3>2
    <3>5. QED
      BY <3>2, <3>3, <3>4
  <2>3. QED  BY <2>1, <2>2
<1>3. ClientShape'
  BY <1>2 DEF ServerInv, Shape, ClientShape, shared
<1>4. PipeInv'
  BY <1>2 DEF ServerInv, PipeInv, ConnectorInv, EndInv, QueryInv, ClientInv
<1>5. QED
  BY <1>1, <1>3, <1>4 DEF ServerInv, Shape

\* The answer ends: the client is back at its prompt, or leaves.
LEMMA PromptKeeps ==
  ASSUME ServerInv, NEW c \in Clients, NEW box \in Seq(Messages),
         Prompt(c, client[c].at, box)
  PROVE  ServerInv'
<1> DEFINE t == client[c].at
<1>1. CASE client[c].last.cmd = "quit"
  BY <1>1, LeaveKeeps DEF Prompt
<1>2. CASE client[c].last.cmd # "quit"
  <2>1. t \in Threads \cup {None} /\ BoxShape /\ client[c].long \in BOOLEAN
    BY DEF ServerInv, Shape, ClientShape, ClientRecords
  <2>2. /\ client' = [client EXCEPT ![c].pc = "ready",
                       ![c].long = @ \/ (box # << >> /\ Head(box).kind = "rest")]
        /\ outbox' = IF t = None THEN outbox ELSE [outbox EXCEPT ![t] = box]
        /\ UNCHANGED <<shared, pc, connector, pipe, inbox, query, tmp>>
    BY <1>2 DEF Prompt
  <2>3. outbox' \in [Threads -> Seq(Messages)]
    BY <2>1, <2>2 DEF BoxShape
  <2>4. \E long \in BOOLEAN : client' = [client EXCEPT ![c].pc = "ready", ![c].long = long]
    <3>1. client' = [client EXCEPT ![c].pc = "ready",
                     ![c].long = client[c].long \/ (box # << >> /\ Head(box).kind = "rest")]
      BY <2>2
    <3>2. QED
      BY <3>1, Zenon
  <2>5. QED
    BY <2>2, <2>3, <2>4, ReadsOnKeeps
<1>3. QED
  BY <1>1, <1>2

\* Reading an answer, a broken pipe, and the end of a client.
LEMMA ClientKeeps ==
  ASSUME ServerInv, NEW c \in Clients, ReadAnswer(c) \/ ReadBroken(c) \/ Die(c)
  PROVE  ServerInv'
<1>1. CASE ReadAnswer(c)
  <2> DEFINE t == client[c].at
             box == outbox[t]
             m == Head(box)
  <2>1. t \in Threads /\ box # << >> /\ box \in Seq(Messages)
    BY <1>1 DEF ReadAnswer, ServerInv, Shape, ClientShape, ClientRecords, BoxShape
  <2>2. Tail(box) \in Seq(Messages) /\ m \in Messages
    BY <2>1
  <2>3. Message("rest", m.of) \in Messages
    BY <2>2, MessageTyped DEF Messages
  <2>4. <<Message("rest", m.of)>> \o Tail(box) \in Seq(Messages)
    BY <2>2, <2>3
  <2>5. \/ /\ outbox' = [outbox EXCEPT ![t] = Tail(@)]
           /\ UNCHANGED <<shared, pc, connector, pipe, inbox, query, tmp, client>>
        \/ Prompt(c, t, Tail(box))
        \/ Prompt(c, t, <<Message("rest", m.of)>> \o Tail(box))
    BY <1>1 DEF ReadAnswer
  <2>6. CASE /\ outbox' = [outbox EXCEPT ![t] = Tail(@)]
             /\ UNCHANGED <<shared, pc, connector, pipe, inbox, query, tmp, client>>
    <3>1. outbox' \in [Threads -> Seq(Messages)]
      BY <2>1, <2>2, <2>6 DEF ServerInv, Shape, BoxShape
    <3>2. QED
      BY <2>6, <3>1, ReadsOnKeeps
  <2>7. QED
    BY <2>2, <2>4, <2>5, <2>6, PromptKeeps
<1>2. CASE ReadBroken(c)
  <2>1. << >> \in Seq(Messages)
    OBVIOUS
  <2>2. QED
    BY <1>2, <2>1, PromptKeeps DEF ReadBroken
<1>3. CASE Die(c)
  BY <1>3, LeaveKeeps DEF Die
<1>4. QED
  BY <1>1, <1>2, <1>3

\* Every step, and none.
LEMMA ServerInvNext == ASSUME ServerInv, [Next]_vars PROVE ServerInv'
<1>1. CASE Next
  BY <1>1, MainKeeps, ConnectorKeeps, GoesOnKeeps, ReadKeeps, ReadOversizedKeeps, AnswerKeeps, DisconnectKeeps,
     PseudoKeeps, OpenKeeps, AskKeeps, ClientKeeps
     DEF Next, Server
<1>2. CASE UNCHANGED vars
  BY <1>2 DEF vars, ServerInv, Shape, ServerShape, PipeShape, BoxShape, ClientShape, PipeInv,
              ConnectorInv, EndInv, QueryInv, ClientInv
<1>3. QED
  BY <1>1, <1>2

-----------------------------------------------------------------------------
\* What is left of a client goes before the next one comes, a temporary file has no
\* terminator and is empty when a command starts, and an instance that has a client is that
\* client's.
BoxInv(t) ==
  /\ pc[t] = "unborn" \/ pipe[t].state \in {"listening", "disconnected"} => outbox[t] = << >>
  /\ \A i \in 1 .. Len(tmp[t]) : tmp[t][i].kind # "end"
  /\ pc[t] = "command" => tmp[t] = << >>
  /\ pipe[t].at \in Clients => client[pipe[t].at].at = t

\* Where the query of a client is: it has none, or the server has not read it, or works on it,
\* or has answered; and then a terminator is the last that the client has not read.
\* What is left of a query longer than the server's buffer may be another command.
AtWork(t) == pc[t] \in {"test", "answer", "command"}
OfLast(c, q) == client[c].last.cmd = "oversized" \/ q = client[c].last
Prompted(c, t) ==
  client[c].pc = "ready" /\ inbox[t] = << >> /\ outbox[t] = << >> /\ ~AtWork(t)
Asked(c, t) ==
  /\ client[c].pc = "reading" /\ outbox[t] = << >> /\ ~AtWork(t)
  /\ Len(inbox[t]) = 1 /\ OfLast(c, inbox[t][1])
Served(c, t) ==
  /\ client[c].pc = "reading" /\ inbox[t] = << >> /\ outbox[t] = << >>
  /\ AtWork(t) /\ OfLast(c, query[t])
Answered(c, t) ==
  /\ client[c].pc = "reading" /\ inbox[t] = << >> /\ ~AtWork(t)
  /\ \A i \in 1 .. Len(outbox[t]) :
       /\ outbox[t][i].kind = "end" => i = Len(outbox[t])
       /\ client[c].last.cmd \notin {"quit", "oversized"} => outbox[t][i].of = client[c].last

Dialog(c, t) == Prompted(c, t) \/ Asked(c, t) \/ Served(c, t) \/ Answered(c, t)

DialogInv(c) == client[c].at # None /\ ~client[c].long => Dialog(c, client[c].at)

TalkInv == (\A t \in Threads : BoxInv(t)) /\ (\A c \in Clients : DialogInv(c))

\* The dialog of a client goes on when its own end and its instance are as they were.
LEMMA DialogFrame ==
  ASSUME NEW c \in Clients, DialogInv(c), client'[c] = client[c],
         NEW t, t = client[c].at,
         t # None =>
           /\ AtWork(t)' <=> AtWork(t)
           /\ inbox'[t] = inbox[t] /\ outbox'[t] = outbox[t] /\ query'[t] = query[t]
  PROVE  DialogInv(c)'
<1> HIDE DEF AtWork
<1>1. CASE t # None
  BY <1>1 DEF DialogInv, Dialog, Prompted, Asked, Served, Answered, OfLast
<1>2. CASE t = None
  BY <1>2 DEF DialogInv
<1>3. QED
  BY <1>1, <1>2

\* What a thread does with its own queries concerns its own client only.
LEMMA ThreadTalks ==
  ASSUME ServerInv, TalkInv, NEW t \in Threads,
         UNCHANGED <<pipe, client>>,
         \A u \in Threads \ {t} :
           /\ pc'[u] = pc[u] /\ query'[u] = query[u] /\ tmp'[u] = tmp[u]
           /\ inbox'[u] = inbox[u] /\ outbox'[u] = outbox[u],
         BoxInv(t)',
         \A c \in Clients : client[c].at = t => DialogInv(c)'
  PROVE  TalkInv'
<1>1. ASSUME NEW u \in Threads PROVE BoxInv(u)'
  <2>1. CASE u # t
    BY <2>1 DEF TalkInv, BoxInv
  <2>2. QED
    BY <2>1
<1>2. ASSUME NEW c \in Clients PROVE DialogInv(c)'
  <2>1. CASE client[c].at # t
    <3>1. DialogInv(c) /\ client[c].at \in Threads \cup {None}
      BY DEF TalkInv, ServerInv, Shape, ClientShape, ClientRecords
    <3>2. QED
      BY <2>1, <3>1 DEF DialogInv, Dialog, Prompted, Asked, Served, Answered, AtWork, OfLast
  <2>2. QED
    BY <2>1
<1>3. QED
  BY <1>1, <1>2 DEF TalkInv

\* A thread that is not at work goes on.
LEMMA GoesOnTalks ==
  ASSUME ServerInv, TalkInv, NEW t \in Threads, NEW to \in Steps \ {"unborn", "test", "answer", "command"},
         pc' = [pc EXCEPT ![t] = to] \/ UNCHANGED pc,
         ~AtWork(t), pc[t] # "unborn",
         \A u \in Threads \ {t} : query'[u] = query[u],
         UNCHANGED <<pipe, client, inbox, outbox, tmp>>
  PROVE  TalkInv'
<1>1. pc \in [Threads -> Steps]
  BY DEF ServerInv, Shape, ServerShape
<1>2. pc'[t] # "unborn" /\ ~AtWork(t)'
  BY <1>1 DEF AtWork
<1>3. BoxInv(t)'
  BY <1>2 DEF TalkInv, BoxInv, AtWork
<1>4. ASSUME NEW c \in Clients, client[c].at = t PROVE DialogInv(c)'
  <2>1. DialogInv(c)
    BY DEF TalkInv
  <2>2. ~AtWork(t) /\ ~AtWork(t)'
    BY <1>2
  <2> HIDE DEF AtWork
  <2>3. CASE client[c].at # None /\ ~client[c].long
    <3>1. Prompted(c, t) \/ Asked(c, t) \/ Answered(c, t)
      BY <1>4, <2>1, <2>2, <2>3 DEF DialogInv, Dialog, Served
    <3>2. Prompted(c, t)' \/ Asked(c, t)' \/ Answered(c, t)'
      BY <2>2, <3>1 DEF Prompted, Asked, Answered, OfLast
    <3>3. QED
      BY <1>4, <3>2 DEF DialogInv, Dialog
  <2>4. CASE ~(client[c].at # None /\ ~client[c].long)
    BY <2>4 DEF DialogInv
  <2>5. QED  BY <2>3, <2>4
<1>5. QED
  BY <1>1, <1>3, <1>4, ThreadTalks

\* The steps of serverThreadFunc that neither read nor answer.
LEMMA PlainTalks ==
  ASSUME ServerInv, TalkInv, NEW t \in Threads,
         \/ Outer(t) \/ OuterRefused(t) \/ Poll(t) \/ Announce(t)
         \/ GetNamedPipeClientProcessId(t) \/ Loop(t) \/ ReadFails(t) \/ SetStop(t)
         \/ Flush(t) \/ TestDisconnect(t) \/ ExitCode(t) \/ AwaitConnector(t)
         \/ (PseudoClient(t) /\ UNCHANGED pipe)
  PROVE  TalkInv'
<1>1. ~AtWork(t) /\ pc[t] # "unborn"
  BY DEF Outer, OuterRefused, Poll, Announce, GetNamedPipeClientProcessId, Loop, ReadFails, SetStop, Flush, TestDisconnect, ExitCode,
         AwaitConnector, PseudoClient, Goes, AtWork
<1>2. UNCHANGED <<pipe, client, inbox, outbox, tmp>>
  BY DEF Outer, OuterRefused, Poll, Announce, GetNamedPipeClientProcessId, Loop, ReadFails, SetStop, Flush, TestDisconnect, ExitCode,
         AwaitConnector, PseudoClient
<1>3. \A u \in Threads \ {t} : query'[u] = query[u]
  BY DEF Outer, OuterRefused, Poll, Announce, GetNamedPipeClientProcessId, Loop, ReadFails, SetStop, Flush, TestDisconnect, ExitCode,
         AwaitConnector, PseudoClient, ServerInv, Shape, PipeShape
<1>4. PICK to \in Steps \ {"unborn", "test", "answer", "command"} : pc' = [pc EXCEPT ![t] = to]
  BY DEF Outer, OuterRefused, Poll, Announce, GetNamedPipeClientProcessId, Loop, ReadFails, SetStop, Flush, TestDisconnect, ExitCode,
         AwaitConnector, PseudoClient, Goes, Steps
<1>5. QED
  BY <1>1, <1>2, <1>3, <1>4, GoesOnTalks

\* A query is read: it is the last one of the client that is there.
LEMMA ReadTalks == ASSUME ServerInv, TalkInv, NEW t \in Threads, ReadQuery(t) PROVE TalkInv'
<1>1. /\ pc[t] = "reading" /\ pc' = [pc EXCEPT ![t] = "test"]
      /\ inbox[t] # << >> /\ inbox' = [inbox EXCEPT ![t] = Tail(inbox[t])]
      /\ query' = [query EXCEPT ![t] = Head(inbox[t])]
      /\ UNCHANGED <<pipe, client, outbox, tmp>>
  BY DEF ReadQuery, Goes
<1>2. /\ pc \in [Threads -> Steps] /\ inbox \in [Threads -> Seq(Queries)]
      /\ query \in [Threads -> Queries]
  BY DEF ServerInv, Shape, ServerShape, PipeShape
<1>3. /\ pc'[t] = "test" /\ inbox'[t] = Tail(inbox[t]) /\ query'[t] = Head(inbox[t])
      /\ \A u \in Threads \ {t} :
           pc'[u] = pc[u] /\ inbox'[u] = inbox[u] /\ query'[u] = query[u]
  BY <1>1, <1>2
<1>4. BoxInv(t)'
  BY <1>1, <1>3 DEF TalkInv, BoxInv
<1>5. ASSUME NEW c \in Clients, client[c].at = t PROVE DialogInv(c)'
  <2>1. CASE client[c].at # None /\ ~client[c].long
    <3>1. Asked(c, t)
      BY <1>1, <1>5, <2>1 DEF TalkInv, DialogInv, Dialog, Prompted, Served, Answered
    <3>2. Tail(inbox[t]) = << >> /\ Head(inbox[t]) = inbox[t][1]
      <4>1. inbox[t] \in Seq(Queries) /\ Len(inbox[t]) = 1
        BY <1>2, <3>1 DEF Asked
      <4> DEFINE rest == Tail(inbox[t])
      <4>2. rest \in Seq(Queries) /\ Len(rest) = 0 /\ Head(inbox[t]) = inbox[t][1]
        <5> DEFINE all == inbox[t]
        <5>1. all \in Seq(Queries) /\ Len(all) = 1 /\ all # << >>
          BY <1>1, <4>1
        <5> HIDE DEF all
        <5>2. Tail(all) \in Seq(Queries) /\ Len(Tail(all)) = 0 /\ Head(all) = all[1]
          BY <5>1
        <5>3. QED
          BY <5>2 DEF all
      <4> HIDE DEF rest
      <4>3. rest = << >>
        BY <4>2
      <4>4. QED
        BY <4>2, <4>3 DEF rest
    <3>3. Served(c, t)'
      BY <1>1, <1>3, <3>1, <3>2 DEF Asked, Served, AtWork, OfLast
    <3>4. QED
      BY <1>1, <1>5, <3>3 DEF DialogInv, Dialog
  <2>2. CASE ~(client[c].at # None /\ ~client[c].long)
    BY <1>1, <2>2 DEF DialogInv
  <2>3. QED  BY <2>1, <2>2
<1>6. QED
  BY <1>1, <1>3, <1>4, <1>5, ThreadTalks

\* The start of a query that is too long is lost: the rest of it is what the instance has of
\* its client.
LEMMA ReadOversizedTalks ==
  ASSUME ServerInv, TalkInv, NEW t \in Threads, ReadOversized(t)
  PROVE  TalkInv'
<1>1. /\ pc[t] = "reading" /\ pc' = [pc EXCEPT ![t] = "after"]
      /\ inbox[t] # << >> /\ Head(inbox[t]).cmd = "oversized"
      /\ UNCHANGED <<pipe, client, outbox, query, tmp>>
  BY DEF ReadOversized, Goes
<1>2. pc \in [Threads -> Steps] /\ inbox[t] \in Seq(Queries) /\ Head(inbox[t]) = inbox[t][1]
  BY <1>1 DEF ServerInv, Shape, ServerShape, PipeShape
<1>3. /\ pc'[t] = "after"
      /\ \A u \in Threads \ {t} : pc'[u] = pc[u] /\ inbox'[u] = inbox[u]
  BY <1>1, <1>2, RestTyped
<1>4. BoxInv(t)'
  BY <1>1, <1>3 DEF TalkInv, BoxInv
<1>5. ASSUME NEW c \in Clients, client[c].at = t PROVE DialogInv(c)'
  <2>1. CASE client[c].at # None /\ ~client[c].long
    <3>1. Asked(c, t)
      BY <1>1, <1>5, <2>1 DEF TalkInv, DialogInv, Dialog, Prompted, Served, Answered
    <3>2. client[c].last.cmd = "oversized"
      BY <1>1, <1>2, <3>1 DEF Asked, OfLast
    <3>3. Asked(c, t)'
      BY <1>1, <1>3, <3>1, <3>2, RestTyped DEF Asked, AtWork, OfLast
    <3>4. QED
      BY <1>1, <1>5, <3>3 DEF DialogInv, Dialog
  <2>2. CASE ~(client[c].at # None /\ ~client[c].long)
    BY <1>1, <2>2 DEF DialogInv
  <2>3. QED  BY <2>1, <2>2
<1>6. QED
  BY <1>1, <1>3, <1>4, <1>5, ThreadTalks

\* A thread at work writes an answer: a sequence whose terminator, if any, is the last, and
\* that is about its query unless that is "quit".
LEMMA WritesTalks ==
  ASSUME ServerInv, TalkInv, NEW t \in Threads, NEW m \in Seq(Messages),
         NEW to \in {"stopping", "flush"},
         AtWork(t), pc' = [pc EXCEPT ![t] = to],
         Send(t, m),
         \A i \in 1 .. Len(m) :
           /\ m[i].kind = "end" => i = Len(m)
           /\ query[t].cmd # "quit" => m[i].of = query[t],
         \A u \in Threads \ {t} : tmp'[u] = tmp[u],
         \A i \in 1 .. Len(tmp'[t]) : tmp'[t][i].kind # "end",
         UNCHANGED <<pipe, inbox, query, client>>
  PROVE  TalkInv'
<1>1. pc \in [Threads -> Steps] /\ outbox \in [Threads -> Seq(Messages)] /\ QueryInv(t)
  BY DEF ServerInv, Shape, ServerShape, BoxShape, PipeInv
<1>2. /\ pc'[t] = to /\ \A u \in Threads \ {t} : pc'[u] = pc[u] /\ outbox'[u] = outbox[u]
      /\ outbox'[t] = IF pipe[t].state = "connected" THEN outbox[t] \o m ELSE outbox[t]
  BY <1>1 DEF Send
<1>3. pc[t] # "unborn" /\ pipe[t].state \notin {"listening", "disconnected"}
  BY <1>1 DEF QueryInv, AtWork, Working
<1>4. BoxInv(t)'
  BY <1>2, <1>3 DEF TalkInv, BoxInv
<1>5. ASSUME NEW c \in Clients, client[c].at = t PROVE DialogInv(c)'
  <2>1. CASE client[c].at # None /\ ~client[c].long
    <3>1. Served(c, t)
      BY <1>5, <2>1 DEF TalkInv, DialogInv, Dialog, Prompted, Asked, Answered
    <3>2. pipe[t].state = "connected"
      BY <1>5, <2>1 DEF ServerInv, PipeInv, ClientInv
    <3>3. outbox'[t] = m
      BY <1>2, <3>1, <3>2 DEF Served
    <3>4. Answered(c, t)'
      BY <1>2, <3>1, <3>3 DEF Served, Answered, AtWork, OfLast
    <3>5. QED
      BY <1>5, <3>4 DEF DialogInv, Dialog
  <2>2. CASE ~(client[c].at # None /\ ~client[c].long)
    BY <2>2 DEF DialogInv
  <2>3. QED  BY <2>1, <2>2
<1>6. QED
  BY <1>2, <1>4, <1>5, ThreadTalks

\* A thread stays at work.
LEMMA WorksOnTalks ==
  ASSUME ServerInv, TalkInv, NEW t \in Threads, NEW to \in {"answer", "command"},
         AtWork(t), pc' = [pc EXCEPT ![t] = to],
         tmp' = [tmp EXCEPT ![t] = << >>] \/ (to # "command" /\ UNCHANGED tmp),
         UNCHANGED <<pipe, inbox, outbox, query, client>>
  PROVE  TalkInv'
<1>1. /\ pc \in [Threads -> Steps] /\ tmp \in [Threads -> Seq(Messages)] /\ pc[t] # "unborn"
  BY DEF ServerInv, Shape, ServerShape, BoxShape, AtWork
<1>2. /\ pc'[t] = to /\ (tmp'[t] = << >> \/ (to # "command" /\ tmp'[t] = tmp[t]))
      /\ \A u \in Threads \ {t} : pc'[u] = pc[u] /\ tmp'[u] = tmp[u]
  BY <1>1
<1>3. BoxInv(t)'
  BY <1>1, <1>2 DEF TalkInv, BoxInv
<1>4. ASSUME NEW c \in Clients, client[c].at = t PROVE DialogInv(c)'
  <2>1. CASE client[c].at # None /\ ~client[c].long
    <3>1. Served(c, t)
      BY <1>4, <2>1 DEF TalkInv, DialogInv, Dialog, Prompted, Asked, Answered
    <3>2. Served(c, t)'
      BY <1>2, <3>1 DEF Served, AtWork, OfLast
    <3>3. QED
      BY <1>4, <3>2 DEF DialogInv, Dialog
  <2>2. CASE ~(client[c].at # None /\ ~client[c].long)
    BY <2>2 DEF DialogInv
  <2>3. QED  BY <2>1, <2>2
<1>5. QED
  BY <1>2, <1>3, <1>4, ThreadTalks

\* A thread looks at the query and at stopFlag.
LEMMA TestTalks == ASSUME ServerInv, TalkInv, NEW t \in Threads, TestStop(t) PROVE TalkInv'
<1>1. /\ pc \in [Threads -> Steps] /\ query[t] \in Queries /\ pc[t] = "test"
      /\ UNCHANGED <<pipe, inbox, query, client, tmp>>
      /\ \A i \in 1 .. Len(tmp[t]) : tmp[t][i].kind # "end"
  BY DEF TestStop, Goes, ServerInv, Shape, ServerShape, PipeShape, TalkInv, BoxInv
<1>2. CASE stopFlag \/ query[t].cmd = "server_stop"
  <2> DEFINE m == Message("shutdown", query[t])
  <2>1. m \in Messages /\ m.kind = "shutdown" /\ m.of = query[t]
    BY <1>1, MessageTyped DEF Message
  <2>2. pc' = [pc EXCEPT ![t] = "stopping"] /\ Send(t, <<m>>)
    BY <1>2 DEF TestStop, Goes
  <2> HIDE DEF m
  <2>3. <<m>> \in Seq(Messages) /\ Len(<<m>>) = 1 /\ <<m>>[1] = m
    BY <2>1
  <2>4. \A i \in 1 .. Len(<<m>>) :
          /\ <<m>>[i].kind = "end" => i = Len(<<m>>)
          /\ query[t].cmd # "quit" => <<m>>[i].of = query[t]
    BY <2>1, <2>3
  <2>5. AtWork(t)
    BY <1>1 DEF AtWork
  <2> HIDE DEF AtWork
  <2>6. QED
    BY <1>1, <2>2, <2>3, <2>4, <2>5, WritesTalks
<1>3. CASE ~(stopFlag \/ query[t].cmd = "server_stop")
  <2>1. pc' = [pc EXCEPT ![t] = "answer"] /\ UNCHANGED outbox
    BY <1>3 DEF TestStop, Goes
  <2>2. AtWork(t)
    BY <1>1 DEF AtWork
  <2>3. QED
    BY <1>1, <2>1, <2>2, WorksOnTalks
<1>4. QED
  BY <1>2, <1>3

\* The output of a command, with a terminator behind it.
LEMMA OutputTalks ==
  ASSUME ServerInv, TalkInv, NEW t \in Threads, NEW output \in Seq(Messages), AtWork(t),
         pc' = [pc EXCEPT ![t] = "flush"],
         Send(t, output \o <<Message("end", query[t])>>),
         tmp' = [tmp EXCEPT ![t] = output] \/ UNCHANGED tmp,
         \A i \in 1 .. Len(output) :
           /\ output[i].kind # "end"
           /\ query[t].cmd # "quit" => output[i].of = query[t],
         UNCHANGED <<pipe, inbox, query, client>>
  PROVE  TalkInv'
<1> DEFINE e == Message("end", query[t])
           m == output \o <<e>>
<1>1. /\ query[t] \in Queries /\ tmp \in [Threads -> Seq(Messages)]
      /\ \A i \in 1 .. Len(tmp[t]) : tmp[t][i].kind # "end"
  BY DEF ServerInv, Shape, PipeShape, BoxShape, TalkInv, BoxInv
<1>2. e \in Messages /\ e.kind = "end" /\ e.of = query[t]
  BY <1>1, MessageTyped DEF Message
<1> HIDE DEF e
<1>3. /\ m \in Seq(Messages) /\ Len(m) = Len(output) + 1 /\ m[Len(output) + 1] = e
      /\ \A i \in 1 .. Len(output) : m[i] = output[i]
  BY <1>2
<1>4. Send(t, m)
  BY DEF e
<1> HIDE DEF m
<1>5. \A i \in 1 .. Len(m) :
        /\ m[i].kind = "end" => i = Len(m)
        /\ query[t].cmd # "quit" => m[i].of = query[t]
  <2> SUFFICES ASSUME NEW i \in 1 .. Len(m)
               PROVE  /\ m[i].kind = "end" => i = Len(m)
                      /\ query[t].cmd # "quit" => m[i].of = query[t]
    OBVIOUS
  <2>1. i \in 1 .. Len(output) \/ i = Len(output) + 1
    BY <1>3
  <2>2. QED
    BY <1>2, <1>3, <2>1
<1>6. /\ \A u \in Threads \ {t} : tmp'[u] = tmp[u]
      /\ \A i \in 1 .. Len(tmp'[t]) : tmp'[t][i].kind # "end"
  BY <1>1
<1>7. QED
  BY <1>3, <1>4, <1>5, <1>6, WritesTalks

\* An answer without the output of a command: nothing, what the file holds from before for
\* "quit", or one line when the process cannot be created; or the command is started.
LEMMA AnswerTalks == ASSUME ServerInv, TalkInv, NEW t \in Threads, Answer(t) PROVE TalkInv'
<1> DEFINE M(kind) == Message(kind, query[t])
<1>1. /\ query[t] \in Queries /\ tmp \in [Threads -> Seq(Messages)] /\ AtWork(t)
      /\ UNCHANGED <<pipe, inbox, query, client>>
      /\ \A i \in 1 .. Len(tmp[t]) : tmp[t][i].kind # "end"
  BY DEF Answer, StartCommand, SendFile, Goes, AtWork, ServerInv, Shape, PipeShape, BoxShape,
         TalkInv, BoxInv
<1>2. /\ M("line") \in Messages /\ M("line").kind = "line" /\ M("line").of = query[t]
      /\ M("end") \in Messages /\ M("end").kind = "end" /\ M("end").of = query[t]
  BY <1>1, MessageTyped DEF Message
<1>3. \/ Goes(t, "answer", "flush") /\ UNCHANGED tmp /\ Send(t, <<M("end")>>)
      \/ /\ query[t].cmd = "quit"
         /\ Goes(t, "answer", "flush") /\ UNCHANGED tmp /\ Send(t, tmp[t] \o <<M("end")>>)
      \/ /\ tmp' = [tmp EXCEPT ![t] = << >>]
         /\ Goes(t, "answer", "command") /\ UNCHANGED outbox
      \/ /\ tmp' = [tmp EXCEPT ![t] = << >>]
         /\ Goes(t, "answer", "flush") /\ Send(t, <<M("line"), M("end")>>)
  BY DEF Answer, StartCommand, SendFile
<1> HIDE DEF M
<1>4. CASE Goes(t, "answer", "flush") /\ UNCHANGED tmp /\ Send(t, <<M("end")>>)
  <2>1. <<M("end")>> \in Seq(Messages) /\ Len(<<M("end")>>) = 1 /\ <<M("end")>>[1] = M("end")
    BY <1>2
  <2>2. \A i \in 1 .. Len(<<M("end")>>) : i = 1 /\ <<M("end")>>[i].of = query[t]
    BY <1>2, <2>1
  <2>3. QED
    BY <1>1, <1>4, <2>1, <2>2, WritesTalks DEF Goes
<1>5. CASE /\ query[t].cmd = "quit"
           /\ Goes(t, "answer", "flush") /\ UNCHANGED tmp /\ Send(t, tmp[t] \o <<M("end")>>)
  <2>1. tmp[t] \in Seq(Messages)
    BY <1>1
  <2>2. QED
    BY <1>1, <1>5, <2>1, OutputTalks DEF M, Goes
<1>6. CASE /\ tmp' = [tmp EXCEPT ![t] = << >>]
           /\ Goes(t, "answer", "command") /\ UNCHANGED outbox
  BY <1>1, <1>6, WorksOnTalks DEF Goes
<1>7. CASE /\ tmp' = [tmp EXCEPT ![t] = << >>]
           /\ Goes(t, "answer", "flush") /\ Send(t, <<M("line"), M("end")>>)
  <2> DEFINE m == <<M("line"), M("end")>>
  <2>1. m \in Seq(Messages) /\ Len(m) = 2 /\ m[1] = M("line") /\ m[2] = M("end")
    BY <1>2
  <2>2. Send(t, m) /\ pc' = [pc EXCEPT ![t] = "flush"]
    BY <1>7 DEF Goes
  <2> HIDE DEF m
  <2>3. \A i \in 1 .. Len(m) : (m[i].kind = "end" => i = Len(m)) /\ m[i].of = query[t]
    <3>1. \A i \in 1 .. Len(m) : i = 1 \/ i = 2
      BY <2>1
    <3>2. QED
      BY <1>2, <2>1, <3>1
  <2>4. /\ \A u \in Threads \ {t} : tmp'[u] = tmp[u]
        /\ tmp'[t] = << >>
    BY <1>1, <1>7
  <2>5. \A i \in 1 .. Len(tmp'[t]) : tmp'[t][i].kind # "end"
    BY <2>4
  <2>6. QED
    BY <1>1, <2>1, <2>2, <2>3, <2>4, <2>5, WritesTalks
<1>8. QED
  BY <1>3, <1>4, <1>5, <1>6, <1>7

\* The command ends: the file was empty when it started.
LEMMA CommandTalks ==
  ASSUME ServerInv, TalkInv, NEW t \in Threads, CommandEnds(t)
  PROVE  TalkInv'
<1> DEFINE M(kind) == Message(kind, query[t])
<1>1. /\ query[t] \in Queries /\ tmp \in [Threads -> Seq(Messages)] /\ AtWork(t)
      /\ pc' = [pc EXCEPT ![t] = "flush"] /\ tmp[t] = << >>
      /\ UNCHANGED <<pipe, inbox, query, client>>
  BY DEF CommandEnds, Goes, AtWork, ServerInv, Shape, PipeShape, BoxShape, TalkInv, BoxInv
<1>2. /\ M("line") \in Messages /\ M("line").kind = "line" /\ M("line").of = query[t]
      /\ M("long") \in Messages /\ M("long").kind = "long" /\ M("long").of = query[t]
  BY <1>1, MessageTyped DEF Message
<1>3. PICK output \in Outputs(query[t]) :
        /\ tmp' = [tmp EXCEPT ![t] = tmp[t] \o output]
        /\ Send(t, tmp'[t] \o <<M("end")>>)
  BY DEF CommandEnds
<1>4. output \in {<< >>, <<M("line")>>, <<M("long")>>}
  BY DEF Outputs
<1> HIDE DEF M
<1>5. /\ output \in Seq(Messages)
      /\ \A i \in 1 .. Len(output) : output[i].kind # "end" /\ output[i].of = query[t]
  <2>1. CASE output = << >>
    BY <2>1
  <2>2. CASE output = <<M("line")>>
    BY <1>2, <2>2
  <2>3. CASE output = <<M("long")>>
    BY <1>2, <2>3
  <2>4. QED
    BY <1>4, <2>1, <2>2, <2>3
<1>6. tmp[t] \o output = output
  BY <1>1, <1>5
<1>7. tmp' = [tmp EXCEPT ![t] = output] /\ tmp'[t] = output
  BY <1>1, <1>3, <1>6
<1>8. QED
  BY <1>1, <1>3, <1>5, <1>7, OutputTalks DEF M

\* Steps that leave what passes between the clients and the threads as it is.
LEMMA ApartTalks ==
  ASSUME ServerInv, TalkInv,
         UNCHANGED <<inbox, outbox, query, tmp, client>>,
         \A t \in Threads :
           /\ pc'[t] = pc[t] \/ (~AtWork(t) /\ ~AtWork(t)')
           /\ pc'[t] = "unborn" => pc[t] = "unborn"
           /\ pipe'[t].at = pipe[t].at \/ pipe'[t].at \notin Clients
           /\ pipe'[t].state \in {"listening", "disconnected"} =>
                pc[t] = "unborn" \/ pipe[t].state \in {"listening", "disconnected"}
  PROVE  TalkInv'
<1>1. ASSUME NEW t \in Threads PROVE BoxInv(t)'
  BY DEF TalkInv, BoxInv, AtWork
<1>2. ASSUME NEW c \in Clients PROVE DialogInv(c)'
  <2>1. DialogInv(c) /\ client[c].at \in Threads \cup {None}
    BY DEF TalkInv, ServerInv, Shape, ClientShape, ClientRecords
  <2>2. CASE client[c].at # None
    <3>1. AtWork(client[c].at)' <=> AtWork(client[c].at)
      BY <2>1, <2>2 DEF AtWork
    <3> HIDE DEF AtWork
    <3>2. QED
      BY <2>1, <3>1 DEF DialogInv, Dialog, Prompted, Asked, Served, Answered, OfLast
  <2>3. CASE client[c].at = None
    BY <2>3 DEF DialogInv
  <2>4. QED  BY <2>2, <2>3
<1>3. QED
  BY <1>1, <1>2 DEF TalkInv

\* The connection threads, the start of a server thread, and the server's own client end.
LEMMA EndTalks ==
  ASSUME ServerInv, TalkInv,
         \/ \E t \in Threads : Connector(t) \/ (PseudoClient(t) /\ ~UNCHANGED pipe)
         \/ StartThread \/ ClearStop
  PROVE  TalkInv'
<1>1. /\ pc \in [Threads -> Steps] /\ pipe \in [Threads -> [state : PipeStates, at : Ends]]
      /\ Pseudo \notin Clients
  BY ServerAssumption DEF ServerInv, Shape, ServerShape, PipeShape
<1>2. CASE \E t \in Threads : Connector(t)
  <2>1. PICK t \in Threads : Connector(t)
    BY <1>2
  <2>2. UNCHANGED <<pc, inbox, outbox, query, tmp, client>>
    BY <2>1 DEF Connector, ConnectNamedPipe, ConnectReturns
  <2>3. ASSUME NEW u \in Threads
        PROVE  /\ pipe'[u].at = pipe[u].at
               /\ pipe'[u].state = pipe[u].state \/ pipe[u].state = "disconnected"
    BY <1>1, <2>1 DEF Connector, ConnectNamedPipe, ConnectReturns
  <2>4. QED
    BY <2>2, <2>3, ApartTalks
<1>3. CASE \E t \in Threads : PseudoClient(t) /\ ~UNCHANGED pipe
  <2>1. PICK t \in Threads, u \in Listening :
          /\ Goes(t, "pseudo", "await")
          /\ pipe' = [pipe EXCEPT ![u] = [state |-> "connected", at |-> Pseudo]]
          /\ UNCHANGED <<inbox, outbox, query, tmp, client>>
    BY <1>3 DEF PseudoClient
  <2>2. ASSUME NEW v \in Threads
        PROVE  /\ pc'[v] = pc[v] \/ (~AtWork(v) /\ ~AtWork(v)')
               /\ pc'[v] = "unborn" => pc[v] = "unborn"
    BY <1>1, <2>1 DEF Goes, AtWork
  <2>3. ASSUME NEW v \in Threads
        PROVE  pipe'[v] = pipe[v] \/ pipe'[v] = [state |-> "connected", at |-> Pseudo]
    BY <1>1, <2>1
  <2>4. QED
    BY <1>1, <2>1, <2>2, <2>3, ApartTalks
<1>4. CASE StartThread
  <2>1. PICK t \in Threads :
          /\ Goes(t, "unborn", "outer")
          /\ pipe' = [pipe EXCEPT ![t].state = "listening"]
          /\ UNCHANGED <<inbox, outbox, query, tmp, client>>
    BY <1>4 DEF StartThread
  <2>2. ASSUME NEW v \in Threads
        PROVE  /\ pc'[v] = pc[v] \/ (~AtWork(v) /\ ~AtWork(v)')
               /\ pc'[v] = "unborn" => pc[v] = "unborn"
    BY <1>1, <2>1 DEF Goes, AtWork
  <2>3. ASSUME NEW v \in Threads
        PROVE  /\ pipe'[v].at = pipe[v].at
               /\ pipe'[v].state = pipe[v].state \/ pc[v] = "unborn"
    BY <1>1, <2>1 DEF Goes
  <2>4. QED
    BY <2>1, <2>2, <2>3, ApartTalks
<1>5. CASE ClearStop
  BY <1>5, ApartTalks DEF ClearStop
<1>6. QED
  BY <1>2, <1>3, <1>4, <1>5

\* Ends of clients: those that are cut off, and the end of the server.
LEMMA CutTalks ==
  ASSUME ServerInv, TalkInv, Exit \/ \E t \in Threads : Disconnect(t)
  PROVE  TalkInv'
<1>1. /\ pc \in [Threads -> Steps] /\ pipe \in [Threads -> [state : PipeStates, at : Ends]]
      /\ inbox \in [Threads -> Seq(Queries)] /\ client \in [Clients -> ClientRecords]
  BY DEF ServerInv, Shape, ServerShape, PipeShape, ClientShape
<1>2. CASE Exit
  <2>1. ASSUME NEW u \in Threads PROVE BoxInv(u)'
    BY <1>2, NoneApart DEF Exit, TalkInv, BoxInv
  <2>2. ASSUME NEW c \in Clients PROVE DialogInv(c)'
    BY <1>1, <1>2 DEF Exit, DialogInv, ClientRecords
  <2>3. QED
    BY <2>1, <2>2 DEF TalkInv
<1>3. CASE \E t \in Threads : Disconnect(t)
  <2>1. PICK t \in Threads : Disconnect(t)
    BY <1>3
  <2>2. /\ outbox[t] = << >> /\ pc' = [pc EXCEPT ![t] = "exitcode"]
        /\ pipe' = [pipe EXCEPT ![t] = [state |-> "disconnected", at |-> None]]
        /\ inbox' = [inbox EXCEPT ![t] = << >>]
        /\ client' = [c \in Clients |->
                        IF pipe[t].at = c THEN [client[c] EXCEPT !.at = None] ELSE client[c]]
        /\ UNCHANGED <<outbox, query, tmp>>
    BY <2>1 DEF Disconnect, Goes
  <2>3. ASSUME NEW c \in Clients
        PROVE  \/ client'[c].at = None
               \/ client'[c] = client[c] /\ pipe[t].at # c /\ client[c].at # t
    <3>1. ClientInv(c) /\ client[c] \in ClientRecords
      BY <1>1 DEF ServerInv, PipeInv
    <3>2. CASE pipe[t].at = c
      BY <2>2, <3>1, <3>2 DEF ClientRecords
    <3>3. CASE pipe[t].at # c
      BY <2>2, <3>1, <3>3, NoneApart DEF ClientInv
    <3>4. QED  BY <3>2, <3>3
  <2>4. ASSUME NEW u \in Threads PROVE BoxInv(u)'
    <3>1. BoxInv(u)
      BY DEF TalkInv
    <3>2. CASE u = t
      BY <1>1, <2>2, <3>1, <3>2, NoneApart DEF BoxInv
    <3>3. CASE u # t
      <4>1. pipe'[u] = pipe[u] /\ pc'[u] = pc[u]
        BY <1>1, <2>2, <3>3
      <4>2. pipe[u].at \in Clients => client'[pipe[u].at].at = u
        <5>1. SUFFICES ASSUME pipe[u].at \in Clients, pipe[u].at = pipe[t].at PROVE FALSE
          BY <2>2, <3>1 DEF BoxInv
        <5>2. BoxInv(t)
          BY DEF TalkInv
        <5>3. QED
          BY <3>1, <3>3, <5>1, <5>2 DEF BoxInv
      <4>3. QED
        BY <2>2, <3>1, <4>1, <4>2 DEF BoxInv
    <3>4. QED  BY <3>2, <3>3
  <2>5. ASSUME NEW c \in Clients PROVE DialogInv(c)'
    <3>1. CASE client'[c].at = None
      BY <3>1 DEF DialogInv
    <3>2. CASE client'[c].at # None
      <4>1. client'[c] = client[c] /\ client[c].at # t /\ client[c].at \in Threads
        BY <1>1, <2>3, <3>2 DEF ClientRecords
      <4>2. pc'[client[c].at] = pc[client[c].at] /\ inbox'[client[c].at] = inbox[client[c].at]
        BY <1>1, <2>2, <4>1
      <4>3. AtWork(client[c].at)' <=> AtWork(client[c].at)
        BY <4>1, <4>2 DEF AtWork
      <4>4. DialogInv(c) /\ outbox' = outbox /\ query' = query
        BY <2>2 DEF TalkInv
      <4>5. QED
        BY <4>1, <4>2, <4>3, <4>4, DialogFrame
    <3>3. QED  BY <3>1, <3>2
  <2>6. QED
    BY <2>4, <2>5 DEF TalkInv
<1>4. QED
  BY <1>2, <1>3

\* Steps of a client that concern its own instance only.
LEMMA OneTalks ==
  ASSUME ServerInv, TalkInv, NEW c \in Clients,
         UNCHANGED <<pc, query, tmp>>,
         \A d \in Clients \ {c} : client'[d] = client[d],
         DialogInv(c)',
         \A u \in Threads : BoxInv(u)',
         \A u \in Threads :
           u # client[c].at /\ pipe[u].state # "listening" =>
             inbox'[u] = inbox[u] /\ outbox'[u] = outbox[u]
  PROVE  TalkInv'
<1>1. ASSUME NEW d \in Clients, d # c PROVE DialogInv(d)'
  <2>1. DialogInv(d) /\ client'[d] = client[d] /\ client[d].at \in Threads \cup {None}
    BY <1>1 DEF TalkInv, ServerInv, Shape, ClientShape, ClientRecords
  <2>2. CASE client[d].at # None
    <3>1. /\ client[d].at \in Threads /\ pipe[client[d].at].at = d
          /\ pipe[client[d].at].state = "connected"
      BY <2>1, <2>2 DEF ServerInv, PipeInv, ClientInv
    <3>2. client[d].at # client[c].at
      BY <1>1, <2>2, <3>1 DEF ServerInv, PipeInv, ClientInv
    <3>3. /\ inbox'[client[d].at] = inbox[client[d].at]
          /\ outbox'[client[d].at] = outbox[client[d].at]
      BY <3>1, <3>2
    <3>4. AtWork(client[d].at)' <=> AtWork(client[d].at)
      BY <2>1 DEF AtWork
    <3>5. QED
      BY <2>1, <3>3, <3>4, DialogFrame
  <2>3. CASE client[d].at = None
    BY <2>1, <2>3 DEF DialogInv
  <2>4. QED  BY <2>2, <2>3
<1>2. QED
  BY <1>1 DEF TalkInv

\* A client opens an instance that listens: there is nothing in it.
LEMMA OpenTalks == ASSUME ServerInv, TalkInv, NEW c \in Clients, Open(c) PROVE TalkInv'
<1>1. PICK t \in Listening :
        /\ pipe' = [pipe EXCEPT ![t] = [state |-> "connected", at |-> c]]
        /\ client' = [client EXCEPT ![c].pc = "ready", ![c].at = t]
        /\ client[c].pc = "connect"
        /\ UNCHANGED <<pc, inbox, outbox, query, tmp>>
  BY DEF Open, ClientIs
<1>2. /\ t \in Threads /\ pipe[t].state = "listening" /\ client[c].pc = "connect"
      /\ pipe \in [Threads -> [state : PipeStates, at : Ends]]
      /\ client \in [Clients -> ClientRecords]
  BY <1>1 DEF Listening, ServerInv, Shape, PipeShape, ClientShape
<1>3. inbox[t] = << >> /\ pc[t] \notin Working /\ outbox[t] = << >> /\ pc[t] # "unborn"
  BY <1>2 DEF ServerInv, PipeInv, QueryInv, EndInv, TalkInv, BoxInv
<1>4. /\ client'[c].at = t /\ client'[c].pc = "ready"
      /\ \A d \in Clients \ {c} : client'[d] = client[d]
  BY <1>1, <1>2 DEF ClientRecords
<1>5. DialogInv(c)'
  BY <1>1, <1>3, <1>4 DEF DialogInv, Dialog, Prompted, AtWork, Working
<1>6. ASSUME NEW u \in Threads PROVE BoxInv(u)'
  <2>1. BoxInv(u)
    BY DEF TalkInv
  <2>2. CASE u = t
    BY <1>1, <1>2, <1>3, <1>4, <2>1, <2>2 DEF BoxInv
  <2>3. CASE u # t
    <3>1. pipe'[u] = pipe[u]
      BY <1>1, <1>2, <2>3
    <3>2. pipe[u].at = c => client[c].at = u
      BY <2>1 DEF BoxInv
    <3>3. pipe[u].at # c
      BY <1>2, <3>2, NoneApart DEF ServerInv, PipeInv, ClientInv
    <3>4. QED
      BY <1>1, <1>4, <2>1, <3>1, <3>3 DEF BoxInv
  <2>4. QED  BY <2>2, <2>3
<1>7. QED
  BY <1>1, <1>4, <1>5, <1>6, OneTalks

\* A client asks: nothing of its previous query is left.
LEMMA AskTalks ==
  ASSUME ServerInv, TalkInv, NEW c \in Clients, NEW cmd \in Commands \cup {"oversized"},
         Ask(c, cmd)
  PROVE  TalkInv'
<1> DEFINE t == client[c].at
           q == [from |-> c, number |-> asked + 1, cmd |-> cmd, late |-> told]
<1>1. /\ client[c].pc = "ready"
      /\ client' = [client EXCEPT ![c].pc = "reading", ![c].last = q]
      /\ inbox' = IF t = None THEN inbox ELSE [inbox EXCEPT ![t] = Append(@, q)]
      /\ UNCHANGED <<pc, pipe, outbox, query, tmp>>
  BY DEF Ask, ClientIs
<1> HIDE DEF q
<1>2. /\ client \in [Clients -> ClientRecords] /\ inbox \in [Threads -> Seq(Queries)]
      /\ t \in Threads \cup {None}
  BY DEF ServerInv, Shape, ClientShape, PipeShape, ClientRecords
<1>3. /\ client'[c].pc = "reading" /\ client'[c].last = q
      /\ client'[c].at = t /\ client'[c].long = client[c].long
      /\ \A d \in Clients \ {c} : client'[d] = client[d]
  BY <1>1, <1>2 DEF ClientRecords
<1>4. DialogInv(c)'
  <2>1. CASE t # None /\ ~client[c].long
    <3>1. Prompted(c, t)
      BY <1>1, <2>1 DEF TalkInv, DialogInv, Dialog, Asked, Served, Answered
    <3>2. inbox'[t] = Append(<< >>, q)
      BY <1>1, <1>2, <2>1, <3>1 DEF Prompted
    <3>3. Len(inbox'[t]) = 1 /\ inbox'[t][1] = q
      BY <3>2
    <3>4. outbox'[t] = << >> /\ ~(pc'[t] \in {"test", "answer", "command"})
      BY <1>1, <3>1 DEF Prompted, AtWork
    <3>5. QED
      BY <1>3, <3>3, <3>4 DEF DialogInv, Dialog, Asked, AtWork, OfLast
  <2>2. CASE ~(t # None /\ ~client[c].long)
    BY <1>3, <2>2 DEF DialogInv
  <2>3. QED  BY <2>1, <2>2
<1>5. ASSUME NEW u \in Threads PROVE BoxInv(u)'
  <2>1. BoxInv(u) /\ \A d \in Clients : client'[d].at = client[d].at
    BY <1>3 DEF TalkInv
  <2>2. QED
    BY <1>1, <2>1 DEF BoxInv
<1>6. ASSUME NEW u \in Threads, u # t PROVE inbox'[u] = inbox[u] /\ outbox'[u] = outbox[u]
  BY <1>1, <1>2, <1>6
<1>7. QED
  BY <1>1, <1>3, <1>4, <1>5, <1>6, OneTalks

\* A client leaves.
LEMMA LeaveTalks ==
  ASSUME ServerInv, TalkInv, NEW c \in Clients, Leave(c, client[c].at)
  PROVE  TalkInv'
<1> DEFINE t == client[c].at
<1>1. /\ client' = [client EXCEPT ![c] = Client("gone")]
      /\ UNCHANGED <<pc, inbox, query, tmp>>
      /\ IF t = None THEN UNCHANGED <<pipe, outbox>>
         ELSE /\ pipe' = [pipe EXCEPT ![t] = [state |-> "closing", at |-> None]]
              /\ outbox' = [outbox EXCEPT ![t] = << >>]
  BY DEF Leave
<1>2. /\ client \in [Clients -> ClientRecords]
      /\ outbox \in [Threads -> Seq(Messages)]
      /\ pipe \in [Threads -> [state : PipeStates, at : Ends]]
      /\ t \in Threads \cup {None}
  BY DEF ServerInv, Shape, ClientShape, PipeShape, BoxShape, ClientRecords
<1>3. client'[c].at = None /\ \A d \in Clients \ {c} : client'[d] = client[d]
  BY <1>1, <1>2 DEF Client
<1>4. DialogInv(c)'
  BY <1>3 DEF DialogInv
<1>5. ASSUME NEW u \in Threads PROVE BoxInv(u)'
  <2>1. BoxInv(u)
    BY DEF TalkInv
  <2>2. CASE u = t
    <3>1. t # None /\ pipe'[u] = [state |-> "closing", at |-> None] /\ outbox'[u] = << >>
      BY <1>1, <1>2, <2>2, NoneApart
    <3>2. QED
      BY <1>1, <2>1, <3>1, NoneApart DEF BoxInv
  <2>3. CASE u # t
    <3>1. pipe'[u] = pipe[u] /\ outbox'[u] = outbox[u]
      BY <1>1, <1>2, <2>3
    <3>2. pipe[u].at # c
      BY <2>1, <2>3 DEF BoxInv
    <3>3. QED
      BY <1>1, <1>3, <2>1, <3>1, <3>2 DEF BoxInv
  <2>4. QED  BY <2>2, <2>3
<1>6. ASSUME NEW u \in Threads, u # t PROVE inbox'[u] = inbox[u] /\ outbox'[u] = outbox[u]
  BY <1>1, <1>2, <1>6
<1>7. QED
  BY <1>1, <1>3, <1>4, <1>5, <1>6, OneTalks

\* A client takes a message or more from its instance.
LEMMA TakesTalks ==
  ASSUME ServerInv, TalkInv, NEW c \in Clients,
         NEW t, t = client[c].at, NEW box \in Seq(Messages),
         outbox' = IF t = None THEN outbox ELSE [outbox EXCEPT ![t] = box],
         \A d \in Clients \ {c} : client'[d] = client[d],
         client'[c].at = t,
         DialogInv(c)',
         UNCHANGED <<pc, pipe, inbox, query, tmp>>
  PROVE  TalkInv'
<1>1. outbox \in [Threads -> Seq(Messages)] /\ t \in Threads \cup {None}
  BY DEF ServerInv, Shape, BoxShape, ClientShape, ClientRecords
<1>2. ASSUME NEW u \in Threads PROVE BoxInv(u)'
  <2>1. BoxInv(u) /\ \A d \in Clients : client'[d].at = client[d].at
    BY DEF TalkInv
  <2>2. CASE u = t /\ t # None
    <3>1. pipe[u].state = "connected" /\ pc[u] # "unborn"
      BY <2>2 DEF ServerInv, PipeInv, ClientInv, EndInv
    <3>2. QED
      BY <2>1, <3>1 DEF BoxInv
  <2>3. CASE ~(u = t /\ t # None)
    <3>1. outbox'[u] = outbox[u]
      BY <1>1, <2>3
    <3>2. QED
      BY <2>1, <3>1 DEF BoxInv
  <2>4. QED  BY <2>2, <2>3
<1>3. ASSUME NEW u \in Threads, u # client[c].at
      PROVE  inbox'[u] = inbox[u] /\ outbox'[u] = outbox[u]
  BY <1>1, <1>3
<1>4. QED
  BY <1>2, <1>3, OneTalks

\* A client comes to its prompt: with nothing before it, or with the rest of a long line.
LEMMA PromptTalks ==
  ASSUME ServerInv, TalkInv, NEW c \in Clients, NEW box \in Seq(Messages),
         Prompt(c, client[c].at, box),
         client[c].at # None /\ ~client[c].long =>
           /\ inbox[client[c].at] = << >> /\ ~AtWork(client[c].at)
           /\ box = << >> \/ (box # << >> /\ Head(box).kind = "rest")
  PROVE  TalkInv'
<1> DEFINE t == client[c].at
           rest == box # << >> /\ Head(box).kind = "rest"
<1>1. CASE client[c].last.cmd = "quit"
  BY <1>1, LeaveTalks DEF Prompt
<1>2. CASE client[c].last.cmd # "quit"
  <2>1. /\ client' = [client EXCEPT ![c].pc = "ready", ![c].long = client[c].long \/ rest]
        /\ outbox' = IF t = None THEN outbox ELSE [outbox EXCEPT ![t] = box]
        /\ UNCHANGED <<pc, pipe, inbox, query, tmp>>
    BY <1>2 DEF Prompt, shared
  <2>2. /\ client \in [Clients -> ClientRecords] /\ outbox \in [Threads -> Seq(Messages)]
        /\ t \in Threads \cup {None}
    BY DEF ServerInv, Shape, ClientShape, BoxShape, ClientRecords
  <2> HIDE DEF rest
  <2>3. /\ client'[c].at = t /\ client'[c].pc = "ready"
        /\ client'[c].long = (client[c].long \/ rest)
        /\ \A d \in Clients \ {c} : client'[d] = client[d]
    BY <2>1, <2>2 DEF ClientRecords
  <2>4. DialogInv(c)'
    <3>1. CASE t # None /\ ~client[c].long /\ ~rest
      <4>1. inbox[t] = << >> /\ ~AtWork(t) /\ box = << >>
        BY <3>1 DEF rest
      <4>2. outbox'[t] = << >>
        BY <2>1, <2>2, <3>1, <4>1
      <4>3. Prompted(c, t)'
        BY <2>1, <2>3, <4>1, <4>2 DEF Prompted, AtWork
      <4>4. QED
        BY <2>3, <4>3 DEF DialogInv, Dialog
    <3>2. CASE ~(t # None /\ ~client[c].long /\ ~rest)
      BY <2>3, <3>2 DEF DialogInv
    <3>3. QED  BY <3>1, <3>2
  <2>5. QED
    BY <2>1, <2>3, <2>4, TakesTalks
<1>3. QED
  BY <1>1, <1>2

\* Reading an answer, a broken pipe, and the end of a client.
LEMMA ClientTalks ==
  ASSUME ServerInv, TalkInv, NEW c \in Clients, ReadAnswer(c) \/ ReadBroken(c) \/ Die(c)
  PROVE  TalkInv'
<1>1. CASE ReadAnswer(c)
  <2> DEFINE t == client[c].at
             box == outbox[t]
             m == Head(box)
  <2>1. t \in Threads /\ box # << >> /\ box \in Seq(Messages) /\ client[c].pc = "reading"
    BY <1>1 DEF ReadAnswer, ClientIs, ServerInv, Shape, ClientShape, ClientRecords, BoxShape
  <2>2. /\ Tail(box) \in Seq(Messages) /\ m \in Messages /\ m = box[1] /\ Len(box) > 0
        /\ Len(Tail(box)) = Len(box) - 1
        /\ \A i \in 1 .. Len(Tail(box)) : Tail(box)[i] = box[i + 1]
    BY <2>1
  <2>3. ~client[c].long => Answered(c, t)
    BY <2>1, NoneApart DEF TalkInv, DialogInv, Dialog, Prompted, Asked, Served
  <2>4. \/ /\ outbox' = [outbox EXCEPT ![t] = Tail(box)]
           /\ UNCHANGED <<pc, pipe, inbox, query, tmp, client>>
        \/ m.kind = "end" /\ Prompt(c, t, Tail(box))
        \/ Prompt(c, t, <<Message("rest", m.of)>> \o Tail(box))
    BY <1>1 DEF ReadAnswer
  <2>5. CASE /\ outbox' = [outbox EXCEPT ![t] = Tail(box)]
             /\ UNCHANGED <<pc, pipe, inbox, query, tmp, client>>
    <3>1. outbox'[t] = Tail(box)
      BY <2>1, <2>5 DEF ServerInv, Shape, BoxShape
    <3>2. DialogInv(c)'
      <4>1. CASE ~client[c].long
        <5>1. /\ client[c].pc = "reading" /\ inbox[t] = << >> /\ ~AtWork(t)
              /\ \A i \in 1 .. Len(box) :
                   /\ box[i].kind = "end" => i = Len(box)
                   /\ client[c].last.cmd \notin {"quit", "oversized"} => box[i].of = client[c].last
          BY <2>3, <4>1 DEF Answered
        <5>2. \A i \in 1 .. Len(Tail(box)) :
                /\ Tail(box)[i].kind = "end" => i = Len(Tail(box))
                /\ client[c].last.cmd \notin {"quit", "oversized"} => Tail(box)[i].of = client[c].last
          BY <2>1, <2>2, <5>1
        <5>3. Answered(c, t)'
          BY <2>5, <3>1, <5>1, <5>2 DEF Answered, AtWork
        <5>4. QED
          BY <2>5, <5>3 DEF DialogInv, Dialog
      <4>2. CASE client[c].long
        BY <2>5, <4>2 DEF DialogInv
      <4>3. QED  BY <4>1, <4>2
    <3>3. QED
      BY <2>1, <2>2, <2>5, <3>2, TakesTalks, NoneApart
  <2>6. CASE m.kind = "end" /\ Prompt(c, t, Tail(box))
    <3>1. ~client[c].long => inbox[t] = << >> /\ ~AtWork(t) /\ Tail(box) = << >>
      <4>1. SUFFICES ASSUME ~client[c].long
                     PROVE  inbox[t] = << >> /\ ~AtWork(t) /\ Tail(box) = << >>
        OBVIOUS
      <4>2. 1 = Len(box)
        <5>1. \A i \in 1 .. Len(box) : box[i].kind = "end" => i = Len(box)
          BY <2>3, <4>1 DEF Answered
        <5>2. box[1].kind = "end" /\ 1 \in 1 .. Len(box)
          BY <2>1, <2>2, <2>6
        <5> HIDE DEF box
        <5>3. QED
          BY <5>1, <5>2
      <4>3. Tail(box) = << >>
        <5> DEFINE rest == Tail(box)
        <5>1. rest \in Seq(Messages) /\ Len(rest) = 0
          BY <2>2, <4>2
        <5> HIDE DEF rest
        <5>2. rest = << >>
          BY <5>1
        <5>3. QED
          BY <5>2 DEF rest
      <4>4. QED
        BY <2>3, <4>1, <4>3 DEF Answered
    <3>2. QED
      BY <2>2, <2>6, <3>1, PromptTalks
  <2>7. CASE Prompt(c, t, <<Message("rest", m.of)>> \o Tail(box))
    <3> DEFINE r == Message("rest", m.of)
    <3>1. r \in Messages /\ r.kind = "rest"
      BY <2>2, MessageTyped DEF Messages, Message
    <3> HIDE DEF r
    <3>2. /\ <<r>> \o Tail(box) \in Seq(Messages) /\ <<r>> \o Tail(box) # << >>
          /\ Head(<<r>> \o Tail(box)) = r
      BY <2>2, <3>1
    <3>3. ~client[c].long => inbox[t] = << >> /\ ~AtWork(t)
      BY <2>3 DEF Answered
    <3>4. QED
      BY <2>7, <3>1, <3>2, <3>3, PromptTalks DEF r
  <2>8. QED
    BY <2>4, <2>5, <2>6, <2>7
<1>2. CASE ReadBroken(c)
  <2>1. << >> \in Seq(Messages)
    OBVIOUS
  <2>2. QED
    BY <1>2, <2>1, PromptTalks DEF ReadBroken
<1>3. CASE Die(c)
  BY <1>3, LeaveTalks DEF Die
<1>4. QED
  BY <1>1, <1>2, <1>3

\* Every step, and none.
LEMMA TalkInvNext == ASSUME ServerInv, TalkInv, [Next]_vars PROVE TalkInv'
<1>1. CASE Next
  <2>1. ASSUME NEW t \in Threads, Connector(t) \/ Server(t) \/ CommandEnds(t) PROVE TalkInv'
    BY <2>1, EndTalks, PlainTalks, ReadTalks, ReadOversizedTalks, TestTalks, AnswerTalks,
       CommandTalks, CutTalks
       DEF Server
  <2>2. CASE Main
    BY <2>2, EndTalks, CutTalks DEF Main
  <2>3. QED
    BY <1>1, <2>1, <2>2, OpenTalks, AskTalks, ClientTalks DEF Next
<1>2. CASE UNCHANGED vars
  <2>1. ASSUME NEW u \in Threads PROVE BoxInv(u)'
    BY <1>2 DEF vars, TalkInv, BoxInv
  <2>2. ASSUME NEW c \in Clients PROVE DialogInv(c)'
    <3>1. DialogInv(c)
      BY DEF TalkInv
    <3>2. QED
      BY <1>2, <3>1
         DEF vars, DialogInv, Dialog, Prompted, Asked, Served, Answered, AtWork, OfLast
  <2>3. QED
    BY <2>1, <2>2 DEF TalkInv
<1>3. QED
  BY <1>1, <1>2

-----------------------------------------------------------------------------
\* The inductive invariant: types, and per instance whose queries and client end are in it.
THEOREM ServerInvHolds == Spec => []ServerInv
<1>1. Init => ServerInv
  BY ServerInvInit
<1>2. ServerInv /\ [Next]_vars => ServerInv'
  BY ServerInvNext
<1>3. QED
  BY <1>1, <1>2, PTL DEF Spec

\* Types: an instance has a client end exactly while it is connected, so ConnectNamedPipe
\* (NPServer.cpp:78) never offers one that is in use.
THEOREM TypeCorrect == Spec => []TypeOK
<1>1. ServerInv => TypeOK
  BY DEF ServerInv, Shape, ServerShape, PipeShape, BoxShape, ClientShape, PipeInv, EndInv,
         TypeOK, Steps, PipeStates, ClientRecords
<1>2. QED
  BY <1>1, ServerInvHolds, PTL

\* The outer loop of serverThreadFunc starts a connection thread only when the one before has
\* ended, and a server thread leaves none behind, whichever way a stop comes.
THEOREM ConnectorsAreJoined == Spec => []ConnectorJoined
<1>1. ServerInv => ConnectorJoined
  BY DEF ServerInv, PipeInv, ConnectorInv, ConnectorJoined
<1>2. QED
  BY <1>1, ServerInvHolds, PTL

\* A thread that has read a query, and whose client leaves or dies, does not meet the next
\* client before it is done with that query.
THEOREM TheAskerIsAnswered == Spec => []AnswersTheAsker
<1>1. ServerInv => AnswersTheAsker
  BY DEF ServerInv, PipeInv, QueryInv, Working, AnswersTheAsker
<1>2. QED
  BY <1>1, ServerInvHolds, PTL

\* The second one, over the first: where a client's query is, and what of the answer is left.
THEOREM TalkInvHolds == Spec => []TalkInv
<1>1. Init => TalkInv
  <2> SUFFICES ASSUME Init PROVE TalkInv
    OBVIOUS
  <2>1. ASSUME NEW t \in Threads PROVE BoxInv(t)
    BY NoneApart DEF Init, BoxInv
  <2>2. ASSUME NEW c \in Clients PROVE DialogInv(c)
    BY DEF Init, DialogInv, Client
  <2>3. QED
    BY <2>1, <2>2 DEF TalkInv
<1>2. ServerInv /\ TalkInv /\ [Next]_vars => TalkInv'
  BY TalkInvNext
<1>3. QED
  BY <1>1, <1>2, ServerInvHolds, PTL DEF Spec

\* The client's loop ends at a message that does not end a line (NPClient.cpp), the server's
\* answer at its terminator: the two agree as long as no line is longer than the client's
\* buffer, whichever threads, stops and deaths of clients come in between.
THEOREM ClientStaysInStep == Spec => []InStep
<1>1. TalkInv => InStep
  BY DEF TalkInv, DialogInv, Dialog, Prompted, Asked, Served, Answered, InStep
<1>2. QED
  BY <1>1, TalkInvHolds, PTL

\* A thread keeps its temporary file from client to client, but what a client finds in its
\* instance is about its own last query, except for "quit" and for queries that are longer
\* than the server's buffer.
THEOREM AnswerIsOwn == Spec => []OwnAnswer
<1>1. ServerInv /\ TalkInv => OwnAnswer
  <2> SUFFICES ASSUME ServerInv, TalkInv, NEW t \in Threads, NEW c \in Clients,
                      pipe[t].at = c, client[c].last.cmd \notin {"quit", "oversized"},
                      ~client[c].long,
                      NEW m \in Range(outbox[t])
               PROVE  m.of = client[c].last
    BY DEF OwnAnswer
  <2>1. client[c].at = t /\ t # None
    BY NoneApart DEF TalkInv, BoxInv
  <2>2. Dialog(c, t)
    BY <2>1 DEF TalkInv, DialogInv
  <2>3. outbox[t] \in Seq(Messages)
    BY DEF ServerInv, Shape, BoxShape
  <2>4. PICK i \in 1 .. Len(outbox[t]) : m = outbox[t][i]
    BY <2>3 DEF Range
  <2>5. QED
    BY <2>2, <2>3, <2>4 DEF Dialog, Prompted, Asked, Served, Answered
<1>2. QED
  BY <1>1, ServerInvHolds, TalkInvHolds, PTL
=============================================================================
