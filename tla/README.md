# Verification of the winsysprog_learn programs

The repository is a collection of Windows system programs: kernel drivers, a
file system minifilter with its user mode agent, a named pipe command server,
a parallel grep, WebSocket senders and a few GUI exercises. This directory has
TLA+ modules of the ones that have a protocol, concurrency or an invariant of
their own, TLC runs over them, and TLAPS proofs of what matters most.

## 1. Inventory

| Component | Source | State it keeps | Operations |
|---|---|---|---|
| Circular buffer of a pipe | `ExampleDrv2/.../drvFunc.c` 483-756, `include.h` 39-67 | `uiStartIndex`, `uiStopIndex`, `pcCircularBuffer` | `readPipeContext`, `writePipeContext` |
| Pipe contexts, file objects | `drvFunc.c` 57-283, `entry.c` | list of `EXAMPLE_LIST` (`pNext`, `uiRefCount`), `FsContext` of every file object | load, unload, `handleCreateFile`, `handleCloseFile`, `handleReadFile`, `handleWriteFile` |
| Device control | `drvFunc.c` 33-55, 329-416 | none of its own: the system buffer of a request | `handleDeviceIoControl`, `handleSampleIoctlBufferedIo`, `handleUnsupportedFunction` |
| MiniFilter kernel driver | `MiniFilter/kernel/MiniFilter/Entry.c` | `mfltData`: filter, server port, `pClientPort`, `bIsComPortClosed`; records in flight | `DriverEntry`, `DriverUnload`, post-operation and process callbacks, work items, connect, disconnect |
| MiniFilter user mode control | `MiniFilter/user/MiniFilter/FilterUser.cpp`, `ComPort.cpp`, `MiniFilter.cpp` | filter loaded, port connected, stop flag; `bHasStarted` and the future of the main routine | `start` (load, connect, handshake), main routine, `stop` (join, unload, disconnect), `quit`; the test that `wmain` is |
| WebSocket event sender | `MiniFilter/user/MiniFilter/WebSocketClient.cpp` | message queue, handshake flag, stop flag, WebSocket handle, socket, sending thread | `init`, `handshake`, `queueMsg`, `setShouldStop`, `cleanup`, destructor; `send`, `runGetActionLoop`, `reconnect` on the thread |
| Event server | `ws/server/server.py`, `ws2/server/server.py` | events by computer and id | request handler |
| commandServer | `commandServer/NPServer.cpp`, `NPClient.cpp` | pipe instances, server and connection threads, `stopFlag`, a temporary file per thread | accept, query, answer, stop; client loop |
| Service wrapper | `commandServer/NPServerSvc.cpp` | `svcStatus` and its handle, `shutdownFlag`, the child process | `svcMain`, `svcSpecific`, `svcCtrlHandler`, `svcStatusUpdate` |
| grepMT | `grepMT/WinThreads.cpp` | ten argument slots, thread handles, result file | start loop, join loop, result pass |

Interactions. The minifilter's callbacks run on the threads that do the I/O and
hand records to work items; these send them over a filter communication port to
the agent, which reads them in `FilterUser::doMainRoutine`, writes a log and
queues a JSON message that a thread of `WebSocketClient` sends to the Python
server. The console of the agent starts and joins the main routine; the main
routine pushes to the queue that the sender's thread pops. The service wrapper
starts commandServer as a child process and reports its state. commandServer's
threads share a `volatile bool` with each other and with `wmain`, and meet
clients only through pipe instances. The pipe driver's requests meet in two
kernel mutexes, one for the list and one per context.

What is hard in them:

- *interleavings*: the minifilter has no lock at all; `stopFlag` is cleared
  after the threads that read it were started; `queueMsg` is unsynchronised; two
  threads of the service write one status;
- *long sequences of legal calls*: open, close, read and write of the pipe
  driver reach states that no single call shows (wrapped indices, a list whose
  head is freed pool);
- *blocking and stopping*: `FltSendMessage` without a timeout during an unload,
  `ConnectNamedPipe` that only a client wakes, the polling loop around it, the
  wait for a command that its client has chosen;
- *failure*: entry failures after something was registered, pool exhaustion,
  clients that die, replies that are lost, a server that closes the dialog.

What makes each component correct:

- buffer: indices in range, no unwritten byte readable, writes never damage
  unread data, full and empty distinguishable, FIFO order;
- contexts: counts equal to users, every open file object on an allocated
  context of its name, no search without an end, no bytes of another pipe; a name
  that has to be cut is the exception to one context per name;
- minifilter: nothing registered after an unload, no lost client port, events
  reach a connected client, unloads end;
- commandServer: answers go to the asker and to nobody else, client and server
  stay in step, instances are offered again, a stop gets through;
- device control: it leaves the pipes alone;
- sender: the events on the queue reach the server in their order, whatever
  breaks, and none leaves the queue before the server has it as long as what
  comes back is whole answers;
- agent: the filter and its port are there for as long as the main routine
  works, `stop` gets through, and nothing is left at the end;
- service wrapper: STOPPED is not reported while the child is there, a stop
  that was reported is undone by at most the one report that was under way, and
  it ends the child;
- grepMT: no slot changes under the thread that uses it, every handle is closed
  once and after its thread, and the output has all hits.

## 2. Plan

Done:

1. `PipeRing`, `PipeBuffer`: the circular buffer.
2. `PipeDevice` (uses `PipeRing`): the driver around it.
3. `MiniFilterKernel`: the minifilter's kernel side.
4. `NPServer`: the command server and its clients.
5. `GrepJoin`: the start and join loops of the parallel grep.
6. `Delivery` and `WebSocketSender`, which implements it; the event server's
   store is part of it.
7. `SvcStatus`: service main against control handler and child.
8. `FilterUser`: the agent's threads, composed with `WebSocketSender`.
9. `DeviceControl`: the requests of the pipe driver that leave the pipes alone,
   beside `PipeBuffer`.
10. A module of proofs for each component that a run checks: every safety and
    every action property of the passing runs is a theorem. `PipeRingProofs` has
    the lemmas that `PipeBufferProofs` and `PipeDeviceProofs` share;
    `DeviceControl` is in `PipeBufferProofs`, `WebSocketSender` in
    `FilterUserProofs`, since each pair is proved together.
11. The circular buffer as a bounded queue of bytes, in every lap
    (`RequestsAreOfAQueue`).

How they compose: `PipeDevice` and `PipeBuffer` both use the operators of
`PipeRing`, `DeviceControl` extends `PipeBuffer` by its requests, `FilterUser`
extends `WebSocketSender` and takes the place of its caller, and
`WebSocketSender` refines `Delivery`.

Next, in this order:

12. `FilterUser` with `MiniFilterKernel` in the place of its port, so that the
    unload that the console asks for meets the work items of the kernel side.
13. The classification of file events (`Entry.c` 335-370) as an operator, against
    what the names of the event types say: the switch on the disposition
    overwrites `MFLT_DELETE`.

## 3. The modules

### PipeRing and PipeBuffer

A context is a record of `start`, `stop` and `buf`. `Written(c, data)` and
`ReadFrom(c, len)` are `writePipeContext` and `readPipeContext`, one operator
for each branch: `WriteGap` (start > stop + 1), `WriteToEnd` (start <= stop,
with the wrap and the second copy), `ReadLinear` and `ReadToEnd`. Subtractions
of `UINT32` that can wrap are taken modulo `Word`. Both functions hold
`kmInstanceBufferMutex` over all their accesses, so a call is one step, and any
number of threads amounts to a sequence of calls. `PipeBuffer` adds the two
request handlers, numbers the bytes in the order they are offered, and keeps
the histories `accepted` and `delivered`.

`ReadToEnd` follows the code: it adds the length to `stop`, and its test for
`start = Size` can then never hold. The branch behind the test is kept.

### DeviceControl

The requests of `handleDeviceIoControl` and `handleUnsupportedFunction`, in any
order with the reads and writes of `PipeBuffer`, which they leave alone;
`control` is the last of them. A message is a sequence of bytes of which only
one thing matters, whether it is zero (TRUE). The scan of `isStringTerminated`
(`drvFunc.c:38-45`) is the set of places it stops at. For a message of odd length
its last place is half a wide character, and the code looks at the byte behind
the message (line 39); that byte is whatever it is, so the outcome of such a
request is a choice. An unsupported request is never completed in the code, and
here. No property is about the reply itself: whether it fits is one comparison.
What is asked of these requests is that the pipes' properties survive them.

### PipeDevice

The state is the driver's: the list head, blocks of pool, per block the name,
count and successor, per file object its `FsContext`. A block that was freed
keeps its contents, and the pool may hand it out again, uncleared. A context
keeps what fits of its name into the 256 wide characters of `pwcPipeName`
(`drvFunc.c:262`), which is `Cut` of the name, and the search compares that with
the whole name of the file object (line 224). So a name that is cut is never
found: each create of it makes a context, and that context is found by a file
object that has the cut name in full. The history `cut` of a block tells these
contexts apart. Create and close run under `kmListMutex`, so each is one step.
The search of `createPipeContext` is `Walk`, which follows `pNext` for as many
steps as there are blocks; a name that is not found by then, with no end of the
list either, is a search that never ends, and the machine is `hung` with the
mutex held. Touching a freed block gives what was left in it or a bug check, as
a choice.

`releasePipeContext` has `bNotFound` FALSE from the start, so its loop runs
once: `ReleaseHead`, `ReleaseSecond` and `ReleaseMissed` are its outcomes. The
message behind a release of the head reads the name in the block that has just
been freed (lines 123-125), which may be a bug check of its own,
`PrintFreedName`. Two history variables keep apart what the driver does right
from what follows from its two defects: `missed` (contexts a release has not
found) and `tailFreed` (a context other than the head was freed, after which the
head of the list is a freed block). Up to `tailFreed` the list, the counts and
the names are right, and the properties say so, each with what a release that
misses or a cut name leaves of it; beyond it the model goes on and shows the
damage.

### MiniFilterKernel

`DriverEntry` and `DriverUnload` are a sequence of phases, one step per call
into the system, with the failure paths. Each event goes through
`none -> callback -> queued -> checked -> sending -> freed`; the reads of
`pClientPort` and `bIsComPortClosed` are steps of their own since nothing
protects them. The connection is `up`, `closing` (the handle is closed),
`flagged` (`bIsComPortClosed` is set) and `none`. `bugcheck` records a machine
that is down: a NULL pool pointer is used, or a process notify routine runs in
an image that was unloaded. What a record contains is not modelled.

The filter manager is external: its rules that the model uses are listed at the
head of the module.

### NPServer

One program counter per server thread over `serverThreadFunc`, one state per
connection thread, per pipe instance its state and message queues, per client
its loop. `stopFlag` is tested at exactly the places the code tests it. The
rules of named pipes that the model takes are at the head of the module.
Commands are one of `run`, `quit`, `server_stop` and `oversized`, a query that is
longer than the server's buffer: its `ReadFile` returns FALSE, the thread
disconnects, and what the buffer had no room for stays the next message of the
instance (`ReadOversized`). The output of a command is nothing, a line, or a line
longer than the client's buffer.

`processQuery` is `StartCommand` and `CommandEnds`: a process is created, or an
answer of one line says that it was not; then the thread is in `command` for as
long as the process lives (`NPServer.cpp:69`), which may be for ever, since the
client chose the program. What the temporary file holds at the end is sent in
one step, since nobody else reads the flags of the instance in between and the
client can only lag behind. `quit` runs nothing and sends the file as it is.
`Announce` tests the flag, and `GetNamedPipeClientProcessId`, which waits while
the connection thread sits on the handle, is a step of its own (`who`).
`OuterRefused` is a `_beginthreadex` that fails.

### SvcStatus

Program counters for `svcMain` with `svcSpecific` and for `svcCtrlHandler`, the
status that both write, what the control manager was last told (`reported`),
and the child. Writing the status, copying it in the call of `SetServiceStatus`
and the arrival of the copy at the control manager are three steps, so one
thread may report what the other wrote, and the two reports may arrive in the
other order. `svcStatusUpdate` calls itself without
end when its report is refused, which ends in a used-up stack: `crashed`. The
rules of the control manager (external) are at the head of the module. The state
space is finite without a bound. Check points, exit codes and `pauseFlag`, which
nobody reads, are left out.

### Delivery and WebSocketSender

`Delivery` is what the sender promises to its caller: the events on the queue
reach the server one after the other, and as long as the server's side of the
dialog is in order (`orderly`) an event leaves the queue only when the server has
it. Its state is the sequence of the events ever queued, how many of them have
left, the set the server has, and `orderly`. Its steps are `Accept`, `Store`,
`Disorder` and `Acknowledge`.

`WebSocketSender` has the same queue. A push that finds the thread in `pop`
meets a change of the same size field without a lock, so one of the two changes
may be lost: the event is not seen, or one place more is, which holds whatever
was there (`Blank`). To read such a place, or to destroy what is in it, may be
the end of the process, and so may a push that makes the deque grow while the
thread is in `front` or `pop`: `crashed`.

The thread is a program counter over `send`, a step per call: `idle`, `front`
(the event is copied), `transmit` (the first action loop), `receive`, `await`
(the second loop), `pop`, `reconnect`, `ended`. A `WebSocketSend` or
`WebSocketReceive` that is refused makes the thread return. The second loop never
looks at the type of what it has got (`WebSocketClient.cpp:262-271`), so
`inbound` is a sequence of frames, an `answer`, a `part` and the `rest` of one, a
`close`, and each of them completes a receive, upon which `send` pops.

`sock` is `none`, `up`, `closed` when its shutdown will succeed, and `dead` when it
will fail. `handle` is `null`, `new`, `ready` behind a handshake, `aborted`, or
`dangling`: `reconnect` deletes the old handle before it makes the new one, and
returns when that fails (line 386). `~WebSocketClient` makes it NULL under the
thread (line 19), and an action loop without a handle ends at once or never,
according to what the action was (`LoopWithoutHandle`): `spinning`. What was
under way when a connection broke becomes `stray` and may still get to the
server, later than what the next connection sends.

`server` is chosen at the start. `ws2` prints what it gets and sends it back, in
one frame or in parts; `ws` writes it to a file and sends nothing. The handler
of `ws` may raise, before the file is written or after (`handlerRaises`), and
each of the two messages of the test in `wmain` makes it: one is a number and no
object (`ws/server/server.py:73`), the other no JSON at all (line 67). The
connection then ends with a CLOSE frame. What the module takes of the library is
at its head.

### FilterUser

Three threads: the console, the main routine, the sender of the module it
extends. `wmain` at this commit is a test of the sender that returns before it
gets to the console code, which is compiled all the same; the initial value of
`console` says which of the two programs runs. Commands are sequences of steps
that a failing call cuts short, and each cut leaves behind what the code leaves
behind. A command that changes nothing (an unknown one, `start` when the filter
cannot be loaded, `stop` before `start`) has no action. `getFileHash` is what it
leaves open for the step at which it fails, since that is what its return paths
can get wrong. A failing allocation is not modelled. When the sender's thread has
taken the process down, the console and the routine stop (`Alive`).

### GrepJoin

`wmain` starts a thread per file and joins the threads in the order in which
they end: `Wait`, `Close` and `MoveLast` are the steps of the join loop, which
moves the last handle and the last arguments to the place that has become
free, while the threads run on. A thread is the file it was started for; it
points to its own slot of `args` for as long as it runs, whatever the loop
moves. `findInFile` pushes hits one by one. A file that cannot be opened is one
without hits. More files than slots, and a thread that could not be started
(its handle is 0, so the wait fails), make the code access memory outside an
array: `main` is `undefined` from there on.

## 4. The runs

| Run | Question | Bounds |
|---|---|---|
| `pipe_buffer` | indices, unwritten bytes, unread data, first lap, whatever device control requests come in between | 4 positions, requests of 0 to 4, 9 bytes offered and 9 delivered; messages of 0 to 4 bytes, replies of 1 |
| `pipe_device` | list, counts, names, bytes, endless search | 3 names, one of them cut to another, 3 blocks, 3 file objects, 3 references; 3 writes of 1 or 2 bytes, 3 positions, within `WrittenFocus` |
| `minifilter_kernel` | unload, connect, delivery, ends | 2 file events, 1 process event, 2 connections |
| `npserver` | answers, order, connection threads | 2 threads, 2 clients, 2 queries, 1 connection thread refused |
| `npserver_live` | instances offered again, stop gets through | 2 threads, 2 clients, 1 query, and 1 more once a shutdown message has been written |
| `grep_join` | arguments, handles, output, end | 0 to 6 files with 0 to 2 hits each, 5 slots |
| `filter_user` | refinement of `Delivery`, delivery, ends of the threads, what `stop` and `quit` leave | 2 events, 2 faults |
| `svc_status` | status against child, stop | none |
| `pipe_read_moves_stop`, `device_leak`, `npserver_stop`, `svc_stopped` | claims of comments and messages that the code does not keep | `pipe_read_moves_stop` as `pipe_buffer`; `device_leak` with the names of `pipe_device`, 2 blocks, 2 file objects, 1 write, 2 positions; `npserver_stop` with 2 threads, 2 clients, 2 queries |

Why the bounds are enough for what they ask. With 4 positions and requests of up
to 4 bytes every branch of both functions is taken with every relation of start,
stop and length, and 9 bytes are two laps and one more. Three contexts are the
fewest for which a list has a head, a second and a further element, which
`releasePipeContext` treats in three ways; three file objects let two share a
context. A name that is cut, the one it is cut to and a third give every way in
which a search meets a cut name. Three writes on three positions let a ring
wrap, and the second owner of a block write when the first one has. The
constraint `WrittenFocus` cuts that part: once there is a write the run stays
with lists that are right, two blocks and two file objects in use; what the list
can become, damage included, is explored without writes to the end. Three events
let two work items be in flight while a callback runs; two connections are the
fewest for a client after a client. Two server threads are the fewest for which
the client end that one opens can be taken for another's, and a second query is
the fewest for "the output of the query before". A stop that `wmain` has
cleared, followed by another query, needs the late one of `npserver_live`. With
five slots and threads that end in every order, handles are moved to the place
of handles that were moved, and six files are one too many. A push meets a pop
when there are two events, and then the second is the one that may be lost or
hidden behind a blank place. Two faults are a connection that breaks with an
event under way and a handshake, or the making of a handle, that fails after it,
so that a copy arrives late while the event is sent again; and they are both
messages of the test raising at `ws`. Messages of 0 to 4 bytes have a terminator
at every place and at none, at even and at odd lengths, and a reply of one byte
fits or does not.

The counters `MaxBytes`, `MaxRefs`, `MaxWrites`, `MaxConnects`, `MaxQueries`,
`MaxLate`, `MaxRefusals`, `MaxEvents` and `MaxFaults` only stop further
requests, events and faults. Every run may stop when its requests are used up or
the program has ended, so deadlock is not checked except in `pipe_buffer`, where
a request of length 0 is always possible. In `NPServer` a server thread really
can wait for ever; `StopEndsLoops` says where.

Symmetry is used in `pipe_device` and `npserver`, where only safety is checked.

Every property of a passing run has an operator beside the definition it
concerns, marked as a mutant, which is that definition with a plausible bug: a
dropped reference count, a swapped order, a missing reset. With the mutant in
place TLC finds the property violated. The other definitions do not use them.

### Fairness

- `MiniFilterKernel`: callbacks that have begun, work items, disconnect
  callbacks and an unload under way go on, for they run on system threads. The
  filter manager drops the client while the filter is being unregistered. A
  client that is connected takes its messages (`FilterUser::doMainRoutine`
  reads in a loop) or leaves. Nothing makes an event happen, a client connect or
  the driver load.
- `NPServer`: the system runs the server's threads, and a client that waits for
  an answer reads what is sent to it. Nobody has to connect, to type a query or
  to leave, and no command has to end: `SlotRecycled` and `StopEndsLoops` name
  the wait for one. In the liveness run no connection thread is refused.
- `GrepJoin`: the system runs the threads, and files end.
- `FilterUser`: the system runs the threads. The console goes on with a command
  that has begun, but nobody has to type one. The main routine goes on, which
  for `FilterGetMessage`, a call without a timeout, means that file and process
  events never cease; on a running system they do not. The server handles what
  reaches it. Its handler need not raise, connections need not break, and late
  copies need not arrive.
- `SvcStatus`: both threads go on, and a process that was terminated ends. The
  control manager need not stop the service, and the child need not end by
  itself.
- `PipeBuffer`, `DeviceControl`, `PipeDevice`: only safety is checked, no
  fairness.


## 5. What the runs show

Right, on the instances above:

- the buffer never exposes unwritten bytes, although reads move the wrong index;
- the driver's list and counts are right until a context behind the head is
  freed, but for the contexts that a release has missed, whose count is too high,
  and for names that are cut, which have a context for each create;
- an orderly unload of the minifilter leaves nothing registered and ends; a
  connecting client never finds the previous one's port;
- commandServer's answers reach the one who asked, and its instances are offered
  again unless a command never ends;
- the join loop of the grep never touches what a running thread uses, and the
  output is complete;
- the sender implements `Delivery`, although its queue has no lock, its
  connections break, copies of an event arrive late, and its handle may go while
  it is used: until something comes back that is not a whole answer, no event
  leaves the queue before the server has it;
- no order of commands and failures takes the port from a working main routine,
  and `quit` leaves no thread and no port;
- the status that two threads of the service write never says STOPPED while the
  child is there, and RUNNING after a reported stop only by the one report that
  was under way already.

Not as documented:

- `pipe_read_moves_stop`: a read of a wrapped buffer advances `uiStopIndex`
  (`drvFunc.c:543`), which `include.h:59` reserves for writes. In the run a read
  of one byte moves `stop` onto `start`: the buffer looks empty, and two unread
  bytes are lost.
- `device_leak`: releasing the second context makes the freed context the head
  of the list (`drvFunc.c:140`), so the first one is never deleted. And a release
  of a context that is neither the first nor the second of the list subtracts
  nothing from its count (`drvFunc.c:150`; `include.h:50-51` says it does).
- `npserver_stop`: the message that no more queries are answered goes out
  before `stopFlag` is set (`NPServer.cpp:127-133`), and `wmain` clears the flag
  after the threads started; a query sent after the message is answered like any
  other.
- `svc_stopped`: between the write of STOPPED (`NPServerSvc.cpp:141`) and its
  report (line 143) the handler of a late stop writes STOP_PENDING (line 112),
  and that is what the last report says. Nobody reports STOPPED afterwards, so
  the dispatcher does not return.

Seen while modelling. Where the models have a step for one of these, it is named;
no document of the repository says otherwise, so no run is about them:

- a write that does not wrap reports twice its length (`drvFunc.c:719`);
- the second copy of a wrapping write starts at `data[0]` again, so from the first
  wrap on the bytes are not in the order they were written in (`drvFunc.c:739`;
  `WriteToEnd`, and `QueueSteps` of the proofs);
- the scan for a terminator looks at a byte behind a message of odd length
  (`drvFunc.c:39`; `ByteAt`);
- the message about a context that has been released last reads its name in the
  block just freed (`drvFunc.c:124`; `PrintFreedName`);
- a name of more than 256 wide characters is cut when it is stored and not when it
  is looked for: two file objects of that name never share a context, and one may
  share it with those of the cut name (`drvFunc.c:262`, 224; `Cut`);
- `driverUnload` frees no context and deletes a link of another name than the
  one that was created (`entry.c:81`);
- a failed `FltStartFiltering` leaves the process notify routine registered
  although the driver does not load (`Entry.c:66`; `EntryFailed`, `StaleNotify`);
- the switch on the disposition overwrites the type `MFLT_DELETE`
  (`Entry.c:342`);
- the shutdown message ends a line and no terminator follows, so the client
  waits until the server process has ended (`NPClient.cpp:56`);
- `stop` waits for the sender's thread, which nobody has told to stop
  (`MiniFilter.cpp:151`, `WebSocketClient.cpp:309`; `disconnectFromServer`);
- a second `stop` after a failed unload waits on a future that has been used
  (`MiniFilter.cpp:135`; `stop`, `crashed`);
- `FilterUser.cpp:46` compares a negative HRESULT with a positive error code, so
  a driver that is loaded already cannot be started;
- the host header of the handshake is a `static` that keeps a pointer into the
  string of the first call (`WebSocketClient.cpp:91`);
- when the shutdown of the old socket fails, `reconnect` returns without a new
  one, and `send` tries the same socket again for ever
  (`WebSocketClient.cpp:380-383`; `Reconnect` with `dead`);
- whatever frame comes back takes the event off the queue, a CLOSE frame and each
  part of an answer as well, so an event may leave that the server does not have
  (`WebSocketClient.cpp:262-271`, 364-371; `AwaitReply`, `orderly`);
- `reconnect` deletes the handle before it has the new one and leaves it at that
  when there is none (`WebSocketClient.cpp:386`; `CreateFails`);
- the destructor drops the handle under the thread, whose action loop may then go
  round without end, without a look at `bShouldStop`, while the destructor waits
  for it (`WebSocketClient.cpp:19`; `LoopWithoutHandle`);
- `queueMsg` pushes without a lock to the queue that the thread reads and pops: an
  event may be lost or the process end (`WebSocketClient.cpp:182`; `Pushed`);
- the two messages that `wmain` sends as a test make the handler of `ws` raise, so
  nothing of them is stored (`ws/server/server.py:73`, 67; `handlerRaises`);
- a refused status report is reported again, without end
  (`NPServerSvc.cpp:149`; `Refused`, `crashed`);
- the handle of a hashed image is never closed (`FilterUser.cpp:568`; `leaked`).

Some properties are limited to what the code does get right, and their
comments say where they stop:

- the order of bytes after the first lap;
- the list of contexts once one behind its head was freed, and names longer than
  256 characters;
- `quit`, which sends the output of the previous command of that thread, and
  queries and answers longer than the other side's buffer (`OwnAnswer`,
  `InStep`);
- an instance whose client has left while its command never ends
  (`SlotRecycled`);
- clients of the minifilter after the first one, which get nothing because
  `bIsComPortClosed` is never cleared;
- `KeepsPromise`, whose second half holds until the server has sent something
  that is not a whole answer;
- `EventuallyStored`, which is about a server that answers, in whole answers (a
  sender that waits for the answer of `ws/server` waits for ever), a socket that
  can be shut down, and a thread that has not ended and is neither `spinning` nor
  gone with the process; an event lost in a push that meets a pop is not on the
  queue;
- `StopEndsThread`, about a server that answers, for the same reason, and about a
  thread that is not `spinning` or `crashed`.

## 6. The proofs

Every theorem is about the module's `Spec` and holds for all values of the
constants that satisfy the module's assumption. Every invariant and every action
property of a passing run is a theorem, and so is the refinement of `Delivery`.

### PipeRingProofs

Lemmas on contexts alone, from `SizeAssumption`, for bytes of any set:

- `WrittenOK`, `ReadFromOK`: what a call does to the indices, to the positions
  that hold data and to the unread bytes, with a lemma per branch of the code;
- `OpenedFilled`, `WriteKeepsFilled`, `ReadKeepsFilled`, `FilledReadable`: either
  the whole block holds data of the pipe, or start <= stop and all below stop
  does, whatever the calls; so what is readable is data;
- `WriteAppends`, `WriteTakesRoom`, `ReadTakesFront`: the buffer is a queue of
  `Size - 1` bytes as long as a write makes no second copy and a read finds start
  <= stop.

### PipeBufferProofs

From `SizeAssumption` and `BoundAssumption`:

| Theorem | Statement |
|---|---|
| `InvHolds` | `Spec => []IndInv` |
| `TypeCorrect` | `Spec => []TypeOK`: indices stay inside the buffer |
| `NoJunk` | `Spec => []NoJunkReadable` |
| `WritesKeepUnread` | `Spec => WriteKeepsUnread` |
| `FullNeverEmpty` | `Spec => FullIsNotEmpty` |
| `FirstLapIsFifo` | `Spec => []FirstLapFifo` |
| `RequestsAreOfAQueue` | `Spec => QueueSteps` |

`IndInv` is `TypeOK /\ FilledBelowStop /\ FirstLapLayout`. `NoJunkReadable`
alone is not inductive: reads of a wrapped buffer advance `stop` over positions
that have to have been written. `FilledBelowStop` says why they have: either
the whole block has been written, or start <= stop and all below stop has;
the indices can only cross by a write that fills the block to its end.
`FirstLapFifo` needs the layout: in the first lap, position i holds the i-th
byte taken, and start and stop count the bytes delivered and taken.

`QueueSteps` tells exactly which requests break the queue, in whatever lap: a
write that goes on at the beginning of the block (`SecondCopy`) and a read of a
wrapped buffer (`WrappedRead`). Every other write takes all there is room for, up
to `Size - 1` unread bytes, and appends it; every other read takes the front.

With `ControlAssumption`, of `DeviceControl`:

| Theorem | Statement |
|---|---|
| `ControlKeepsPipes` | `ControlSpec => Spec` of `PipeBuffer` |
| `NoJunkWithControl` | `ControlSpec => []NoJunkReadable` |

The first carries every theorem of the first table over; the second is one.

### PipeDeviceProofs

From `SizeAssumption` and `DeviceAssumption`, for any number of names, pool
blocks and file objects:

| Theorem | Statement |
|---|---|
| `InvHolds` | `Spec => []DInv` |
| `TypeCorrect` | `Spec => []TypeOK` |
| `HandlesStayOnLive` | `Spec => []HandlesOnLive` |
| `CountsAreExact` | `Spec => []RefCountExact` |
| `OneContext` | `Spec => []OneContextPerName` |
| `NoForeign` | `Spec => []NoForeignBytes` |
| `FreedPoolUntouched` | `Spec => []PoolIsLive` |
| `TwoBugChecks` | `Spec => BugChecksAreTwo` |

`DInv` is `TypeOK /\ NoneUnloaded /\ FiniteOpens /\ (~tailFreed => DeviceRight)`.
The run's properties are not inductive. `ListRight` says of the walk from the
list head that it comes to an end, over allocated contexts and over each name
once; `FilesRight` that the context of an open file object is on it; `CountsRight`
that a count is never too low, which is why a context that goes has no file
object left; `RingsRight` that a buffer holds data of its own name wherever a
read may come to. `NoneUnloaded` is needed since contexts a release has missed
outlive the unload, and no file object may still be on one when the next load
clears the list head.

The walk is a recursive function over the distance from the head. The lemmas
about it (that it exists and is unique, what a new head and the loss of the head
make of it, that it never comes back from `Null`) are proved by taking the least
distance at which they fail: `NatLessThanWellFounded` and `WFMin` give that least
distance, and no induction rule over an operator is needed. `RoomForOne` is the
pigeonhole argument: a walk without repetition over n blocks ends after n steps,
so the bound `Depth` of the search cuts nothing off.

Names that are cut are in all of it: `HandlesOnLive` says that the context of a
file object has the file object's name or what a context keeps of it,
`OneContextPerName` that two contexts of one name are those of a longer name, and
`NoForeignBytes` that what can be read was written under a name that is cut to
the same.

`FreedPoolUntouched` says that until a context behind the head is freed, every
context that a request finds when it starts is allocated. The block that a close
frees itself it does touch afterwards, for its message, so `TwoBugChecks` has two
ways in which the machine goes down by then: that message, and the read through a
null pointer after an exhausted pool.

### GrepJoinProofs

From `GrepAssumption`, for any number of files, of slots (up to the 64 handles
that `WaitForMultipleObjects` takes) and of hits:

| Theorem | Statement |
|---|---|
| `InvHolds` | `Spec => []IndInv` |
| `TypeCorrect` | `Spec => []TypeOK` |
| `ArgsStayIntact` | `Spec => []ArgsIntact` |
| `HandlesAreExact` | `Spec => []HandlesExact` |
| `OutputIsComplete` | `Spec => []OutputComplete` |

`ArgsIntact` is not inductive: the loop assigns to slot k when the handle at
index k has ended, and that handle may be another thread's by then.
`MovedOverEnded` says why slot k is free all the same: either the handle at k is
still the one of thread k, or thread k has ended. `Unjoined` says that the
first `threadCount` handles are those of the threads that are not joined, each
once, so that when the loop ends no thread is left, and `WorkOf` what a thread
that has ended has pushed. There is a lemma per step; each has a case per
conjunct of `IndInv`.

### MiniFilterKernelProofs

From `EventAssumption`, for any sets of events and any number of connections:

| Theorem | Statement |
|---|---|
| `KernelInvHolds` | `Spec => []KernelInv` |
| `TypeCorrect` | `Spec => []TypeOK` |
| `UnloadIsClean` | `Spec => UnloadLeavesNoNotify` |
| `EveryClientFindsNoPort` | `Spec => ConnectFindsNoPort` |

`KernelInv` is `TypeOK /\ NotifyRemoved /\ PortOfClient`. That an unload leaves
no notify routine is decided two phases before the image goes: `NotifyRemoved`
carries it along, for the routine that is registered and for those that run.
`PortOfClient` says that `pClientPort` is set exactly while there is a
connection.

### NPServerProofs

From `ServerAssumption`, for any number of threads, clients and queries:

| Theorem | Statement |
|---|---|
| `ServerInvHolds` | `Spec => []ServerInv` |
| `TypeCorrect` | `Spec => []TypeOK` |
| `ConnectorsAreJoined` | `Spec => []ConnectorJoined` |
| `TheAskerIsAnswered` | `Spec => []AnswersTheAsker` |
| `TalkInvHolds` | `Spec => []TalkInv` |
| `ClientStaysInStep` | `Spec => []InStep` |
| `AnswerIsOwn` | `Spec => []OwnAnswer` |

Two invariants, the second proved on top of the first. `ServerInv` is about the
instances: per thread where its connection thread is, who may be at the client
end, and that a query at work is of the client at the other end; per client that
the instance it is connected to has it at its end. `TalkInv` is about the
dialogue. `InStep` and `OwnAnswer` are not inductive, since they speak of a
client at its prompt and of the messages before it; `DialogInv` says for every
client where its last query is: not asked (`Prompted`), not read by the server
(`Asked`), at work (`Served`), or answered with a terminator as the last message
that the client has not read (`Answered`). `BoxInv` says that a client that
connects finds nothing of its predecessor, and that a temporary file, which
outlives the client it was written for, has no terminator in it.

### SvcStatusProofs

No constants and no assumption; the theorems hold for the two threads in any
interleaving.

| Theorem | Statement |
|---|---|
| `SvcInvHolds` | `Spec => []SvcInv` |
| `TypeCorrect` | `Spec => []TypeOK` |
| `StoppedWithoutChild` | `Spec => []StoppedMeansChildGone` |
| `StaysStopped` | `Spec => NeverRunsAgain` |

`SvcInv` is `TypeOK /\ Starting /\ Stopping /\ Carrying /\ RunningIsOver`: what the
status and the control manager can have before the child runs; that STOPPED is
only ever written when the child is gone; when a thread can have a copy under
way; and that RUNNING is no longer in `svcStatus`, nor in a copy of the handler,
when a stop has been reported. The last is why the repeated report of the loop
undoes a stop at most once, with the copy that it had taken before.

### FilterUserProofs

From `SenderAssumption`. First the sender alone, for any caller, any number of
events and of faults:

| Theorem | Statement |
|---|---|
| `SInvHolds` | `Spec => []SInv` |
| `TypeCorrect` | `Spec => []TypeOK` |
| `SenderImplementsDelivery` | `Spec => KeepsPromise`, the specification of `Delivery` under the mapping |

`SInv` is the types and `OnFront /\ Sent /\ Ordered`. The thread only works with a
queue that is not empty (`OnFront`). Whatever is under way, on this connection
or on one that is gone, was at the front of the queue once (`Sent`), which is what
makes late arrivals harmless: it is the front, or has left already. `Ordered`
says that while what comes back is whole answers, there is at most one event or
answer under way (`OneAtATime`), and it is the front or the answer to it, which
the server then has (`InStep`). So `Pop` is an `Acknowledge` of `Delivery`, and each
step of the sender is a step of it or a stutter.

Then the user program:

| Theorem | Statement |
|---|---|
| `UserIsCaller` | `UserSpec => Spec` of `WebSocketSender` |
| `UserKeepsPromise` | `UserSpec => KeepsPromise` |
| `UInvHolds` | `UserSpec => []UInv` |
| `RoutineKeepsItsPort` | `UserSpec => []RoutineHasItsPort` |
| `EndLeavesNothing` | `UserSpec => []ExitLeavesNothing` |
| `UserTypeCorrect` | `UserSpec => []UserTypeOK` |
| `ThreadStaysInCalm` | `UserSpec => []ThreadOutlivesCalm` |

`UserIsCaller` says that the program uses the sender in no other way than its
module allows, so what is proved for any caller holds in the program. `UInv`
adds to `RoutineHasItsPort` the `Order` of the console's steps: which of them
may be under way while the routine is at work, and that there is a port between
the steps of `start`.

`ThreadStaysInCalm` holds in the program only, not for any caller: the thread is
started before the handshake and would give up on an event that it finds before
that has ended. Its invariant `CInv` is `StartOrder /\ CalmThread`: as long as
there has been no fault and no stop, behind the handshake the handle is ready, the
socket up and the thread somewhere in its round (`Serving`), and before it the
program has queued nothing, the thread waits, and the handle is not `dangling`.

### Model-checked only

Liveness: `FirstClientIsServed`, `UnloadEnds`, `SlotRecycled`, `StopEndsLoops`,
`JoinEnds`, `EventuallyStored`, `StopEndsThread`, `StopJoins` and `StopEndsChild`.
The prover does not handle liveness under fairness, nor `ENABLED`.

## 7. Not modelled

- Logging and formatting, so also what the `DbgPrint` of `drvFunc.c:241` makes
  of the name of a context that does not exist yet. (The one of line 279 reads
  through a null pointer itself when the pool is exhausted; that is
  `CreateOutOfPool`.)
- The contents of a minifilter record and the text of the JSON that is made of
  it. `attachFilterToVolume` and `detachFilterFromVolume`, which nothing calls,
  and `setPrivilege`, whose result nobody looks at.
- The YARA scan of the event server, which changes nothing that is stored.
- Check points, exit codes and `pauseFlag` of the service wrapper.
- `ExampleDrv`, the predecessor of the pipe driver, keeps no state, and its
  device control is the one of `DeviceControl`. The `ws` and `ws2` clients are
  predecessors of the sender: one thread, one message, no queue and no retry.
- `HelloWorldUMDF` is the template of the tool; the GUI, dialog, library, listing
  and timing exercises make library calls and keep no state; the sequential grep
  has no concurrency; `kernel/MiniFilter/tmp/Entry.c` is not built.
