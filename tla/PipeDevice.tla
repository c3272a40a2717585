----------------------------- MODULE PipeDevice -----------------------------
(***************************************************************************)
(* The ExampleDrv2 device: named pipe contexts in a singly linked list,    *)
(* counted by the file objects that use them, each with the circular       *)
(* buffer of PipeRing.  DriverEntry and driverUnload (entry.c); the        *)
(* handlers of IRP_MJ_CREATE, CLOSE, READ and WRITE (drvFunc.c).           *)
(*                                                                         *)
(* Create and close run under kmListMutex, read and write under the        *)
(* context's kmInstanceBufferMutex, so each request is one step.           *)
(*                                                                         *)
(* A context lives in a block of non-paged pool.  The pool hands a freed   *)
(* block out again without clearing it.  A request that touches a freed    *)
(* block finds what was left in it, or brings the machine down.            *)
(*                                                                         *)
(* A context keeps as much of its name as pwcPipeName has room for, and    *)
(* the search compares that with the whole name of a file object.  A name  *)
(* of the model stands for all that differ from it in case only.           *)
(***************************************************************************)
EXTENDS PipeRing, FiniteSets

CONSTANTS
  Names,      \* pipe names
  Cut,        \* per name: what fits into the 256 WCHARs of pwcPipeName
  Blocks,     \* pool blocks of the size of an EXAMPLE_LIST
  Handles,    \* file objects
  Null,       \* the null pointer
  MaxRequest, \* the longest read or write
  MaxRefs,    \* bound: references of one context
  MaxWrites   \* bound: write requests

ASSUME DeviceAssumption ==
  /\ Null \notin Blocks
  /\ IsFiniteSet(Blocks)
  /\ Junk \notin Names /\ Null \notin Names
  /\ Cut \in [Names -> Names] /\ \A n \in Names : Cut[Cut[n]] = Cut[n]
  /\ MaxRequest \in Nat /\ MaxRefs \in Nat /\ MaxWrites \in Nat

VARIABLES
  machine,   \* "unloaded", "running", "bugcheck", or "hung" with kmListMutex held
  head,      \* pExampleList of the device context
  live,      \* the blocks that are allocated
  node,      \* per block: name, ref (uiRefCount) and next (pNext); as history, whether
             \* the name was cut
  ring,      \* per block: start, stop and buffer; a byte is the name it was written under
  file,      \* per file object: whether it is open, its name and FsContext
  writes,    \* how many write requests there have been
  missed,    \* history: the contexts that a release has not found
  tailFreed  \* history: a context other than the head of the list has been freed

vars == <<machine, head, live, node, ring, file, writes, missed, tailFreed>>

Pointers == Blocks \cup {Null}
Bytes == Names \cup {Junk}
Closed == [open |-> FALSE, name |-> Null, fs |-> Null]

Init ==
  /\ machine = "unloaded"
  /\ head = Null
  /\ live = {}
  /\ node = [b \in Blocks |-> [name |-> Null, ref |-> 0, next |-> Null, cut |-> FALSE]]
  /\ ring = [b \in Blocks |-> Opened([i \in Index |-> Junk])]
  /\ file = [h \in Handles |-> Closed]
  /\ writes = 0
  /\ missed = {}
  /\ tailFreed = FALSE

Context(n, refs) == [name |-> Cut[n], ref |-> refs, next |-> head, cut |-> Cut[n] # n]

Opens(b) == {h \in Handles : file[h].open /\ file[h].fs = b}

(***************************************************************************)
(* DriverEntry makes a device with an empty list.  driverUnload runs when  *)
(* no file object is left; it deletes the device and frees no context.     *)
(***************************************************************************)
Load ==
  /\ machine = "unloaded"
  /\ machine' = "running"
  /\ head' = Null
  /\ UNCHANGED <<live, node, ring, file, writes, missed, tailFreed>>

Unload ==
  /\ machine = "running"
  /\ \A h \in Handles : ~file[h].open
  /\ machine' = "unloaded"
  /\ UNCHANGED <<head, live, node, ring, file, writes, missed, tailFreed>>

Crash ==
  /\ machine' = "bugcheck"
  /\ UNCHANGED <<head, live, node, ring, file, writes, missed, tailFreed>>

(***************************************************************************)
(* The blocks that the search of createPipeContext comes to, by distance   *)
(* from the head.  A list that has neither the name nor an end within the  *)
(* number of blocks is a cycle, in which the search goes round for ever.   *)
(***************************************************************************)
Depth == Cardinality(Blocks)

Follow(p) == IF p = Null THEN Null ELSE node[p].next

Walk ==
  LET at[k \in 0 .. Depth] == IF k = 0 THEN head ELSE Follow(at[k - 1]) IN at

\* Mutant of Hits: the search starts behind the head.
HitsBehindHead(n) == {k \in 1 .. Depth : Walk[k] # Null /\ node[Walk[k]].name = n}

Listed == {Walk[k] : k \in 0 .. Depth} \ {Null}

Hits(n) == {k \in 0 .. Depth : Walk[k] # Null /\ node[Walk[k]].name = n}

FirstHit(n) == CHOOSE k \in Hits(n) : \A j \in Hits(n) : k <= j

Visited(n) ==
  {Walk[k] : k \in {j \in 0 .. Depth : \A i \in Hits(n) : j <= i}} \ {Null}

\* Mutant of CreateShared: the new reference is not counted.
CreateSharedUncounted(h, n) ==
  /\ Hits(n) # {}
  /\ file' = [file EXCEPT ![h] = [open |-> TRUE, name |-> n, fs |-> Walk[FirstHit(n)]]]
  /\ UNCHANGED <<machine, head, live, node, ring, writes, missed, tailFreed>>

\* A context with this name exists: one more reference.
CreateShared(h, n) ==
  LET b == Walk[FirstHit(n)] IN
  /\ Hits(n) # {}
  /\ node[b].ref < MaxRefs
  /\ node' = [node EXCEPT ![b].ref = @ + 1]
  /\ file' = [file EXCEPT ![h] = [open |-> TRUE, name |-> n, fs |-> b]]
  /\ UNCHANGED <<machine, head, live, ring, writes, missed, tailFreed>>

\* Mutant of CreateNew: the reference count starts at 0.
CreateNewZeroRef(h, n) ==
  /\ Hits(n) = {}
  /\ \E k \in 0 .. Depth : Walk[k] = Null
  /\ \E b \in Blocks \ live :
       /\ live' = live \cup {b}
       /\ head' = b
       /\ node' = [node EXCEPT ![b] = Context(n, 0)]
       /\ ring' = [ring EXCEPT ![b] = Opened(@.buf)]
       /\ file' = [file EXCEPT ![h] = [open |-> TRUE, name |-> n, fs |-> b]]
       /\ missed' = missed \ {b}
  /\ UNCHANGED <<machine, writes, tailFreed>>

\* Mutant of CreateNew: FsContext is only set when the context was found.
CreateNewNoFsContext(h, n) ==
  /\ Hits(n) = {}
  /\ \E k \in 0 .. Depth : Walk[k] = Null
  /\ \E b \in Blocks \ live :
       /\ live' = live \cup {b}
       /\ head' = b
       /\ node' = [node EXCEPT ![b] = Context(n, 1)]
       /\ ring' = [ring EXCEPT ![b] = Opened(@.buf)]
       /\ file' = [file EXCEPT ![h] = [open |-> TRUE, name |-> n, fs |-> Null]]
       /\ missed' = missed \ {b}
  /\ UNCHANGED <<machine, writes, tailFreed>>

\* No such context: a new one at the head of the list.
CreateNew(h, n) ==
  /\ Hits(n) = {}
  /\ \E k \in 0 .. Depth : Walk[k] = Null
  /\ \E b \in Blocks \ live :
       /\ live' = live \cup {b}
       /\ head' = b
       /\ node' = [node EXCEPT ![b] = Context(n, 1)]
       /\ ring' = [ring EXCEPT ![b] = Opened(@.buf)]
       /\ file' = [file EXCEPT ![h] = [open |-> TRUE, name |-> n, fs |-> b]]
       /\ missed' = missed \ {b}
  /\ UNCHANGED <<machine, writes, tailFreed>>

\* The pool is exhausted: STATUS_INSUFFICIENT_RESOURCES is set, and then the
\* reference count of the context that was not allocated is read.
CreateOutOfPool(n) ==
  /\ Hits(n) = {}
  /\ \E k \in 0 .. Depth : Walk[k] = Null
  /\ Crash

CreateEndless(n) ==
  /\ Hits(n) = {}
  /\ \A k \in 0 .. Depth : Walk[k] # Null
  /\ machine' = "hung"
  /\ UNCHANGED <<head, live, node, ring, file, writes, missed, tailFreed>>

Create(h, n) ==
  /\ machine = "running"
  /\ ~file[h].open
  /\ \/ CreateShared(h, n)
     \/ CreateNew(h, n)
     \/ CreateOutOfPool(n)
     \/ CreateEndless(n)
     \/ ~(Visited(n) \subseteq live) /\ Crash

(***************************************************************************)
(* releasePipeContext.  The loop over the list ends after one round, since *)
(* bNotFound is FALSE from the start: only the head and its successor are  *)
(* looked at.  When the successor goes, the list head is set to it.        *)
(***************************************************************************)
Release(b, newHead) ==
  LET last == Minus(node[b].ref, 1) = 0 IN
  /\ node' = [node EXCEPT ![b].ref = Minus(@, 1)]
  /\ IF last THEN head' = newHead /\ live' = live \ {b} ELSE UNCHANGED <<head, live>>
  /\ tailFreed' = (tailFreed \/ (last /\ b # head))
  /\ UNCHANGED <<writes, missed>>

ReleaseHead(b) == head = b /\ Release(b, node[b].next)

\* The last message of a release of the head reads the name in the block just freed.
PrintFreedName(b) == head = b /\ Minus(node[b].ref, 1) = 0 /\ Crash

ReleaseSecond(b) ==
  /\ head \notin {b, Null}
  /\ node[head].next = b
  /\ Release(b, node[head].next)

ReleaseMissed(b) ==
  /\ head \notin {b, Null}
  /\ node[head].next # b
  /\ missed' = missed \cup {b}
  /\ UNCHANGED <<head, live, node, writes, tailFreed>>

Close(h) ==
  LET b == file[h].fs IN
  /\ machine = "running"
  /\ file[h].open
  /\ \/ /\ ReleaseHead(b) \/ ReleaseSecond(b) \/ ReleaseMissed(b)
        /\ file' = [file EXCEPT ![h] = Closed]
        /\ UNCHANGED <<machine, ring>>
     \/ PrintFreedName(b)
     \/ (head = Null \/ ~({head, b} \subseteq live)) /\ Crash

(***************************************************************************)
(* handleWriteFile and handleReadFile.                                     *)
(***************************************************************************)
WriteFile(h, len) ==
  LET b    == file[h].fs
      data == [k \in 1 .. len |-> file[h].name]
  IN  /\ machine = "running"
      /\ file[h].open
      /\ writes < MaxWrites
      /\ \/ /\ ring' = [ring EXCEPT ![b] = Written(@, data).ctx]
            /\ writes' = writes + 1
            /\ UNCHANGED <<machine, head, live, node, file, missed, tailFreed>>
         \/ b \notin live /\ Crash

ReadFile(h, len) ==
  LET b == file[h].fs
  IN  /\ machine = "running"
      /\ file[h].open
      /\ \/ /\ ring' = [ring EXCEPT ![b] = ReadFrom(@, len).ctx]
            /\ UNCHANGED <<machine, head, live, node, file, writes, missed, tailFreed>>
         \/ b \notin live /\ Crash

Next ==
  \/ Load \/ Unload
  \/ \E h \in Handles :
       \/ \E n \in Names : Create(h, n)
       \/ Close(h)
       \/ \E len \in 1 .. MaxRequest : WriteFile(h, len) \/ ReadFile(h, len)

Spec == Init /\ [][Next]_vars

-----------------------------------------------------------------------------
\* Types: in particular start and stop stay inside pcCircularBuffer in every
\* block, also in those that are freed and used again for another pipe, and the
\* FsContext of an open file object is never NULL.
TypeOK ==
  /\ machine \in {"unloaded", "running", "bugcheck", "hung"}
  /\ head \in Pointers
  /\ live \subseteq Blocks
  /\ node \in [Blocks -> [name : Names \cup {Null}, ref : Nat, next : Pointers,
                       cut : BOOLEAN]]
  /\ ring \in [Blocks -> Contexts(Bytes)]
  /\ file \in [Handles -> {Closed} \cup [open : {TRUE}, name : Names, fs : Blocks]]
  /\ writes \in 0 .. MaxWrites
  /\ missed \subseteq Blocks
  /\ tailFreed \in BOOLEAN

(***************************************************************************)
(* The driver keeps its list right until it frees a context that is not    *)
(* the head of the list.  The properties say what is right until then.     *)
(***************************************************************************)

\* Every file object uses an allocated context that has its name, or as much of it as a
\* context keeps, and the list leads to it; no search goes round for ever with kmListMutex
\* held.  So nothing that a file object or the list leads to is freed pool.
HandlesOnLive ==
  ~tailFreed =>
    /\ machine # "hung"
    /\ \A h \in Handles : file[h].open =>
         LET b == file[h].fs IN
         /\ b \in live
         /\ node[b].name = Cut[file[h].name]
         /\ b \in Listed

\* A context that is in use is never taken for unused: the count is not 0, and not lower
\* than the number of file objects.  It is that number unless a release has missed the
\* context and left its reference (which include.h:51 does not foresee).
RefCountExact ==
  ~tailFreed => \A b \in live :
    /\ node[b].ref > 0
    /\ Cardinality(Opens(b)) <= node[b].ref
    /\ b \notin missed => node[b].ref = Cardinality(Opens(b))

\* The list has two contexts of one name only if a longer name was cut to it: that is never
\* found, and gets a context of its own with every create.  (Contexts that were left behind
\* when the driver was unloaded are not on the list.)
OneContextPerName ==
  ~tailFreed => \A b, c \in Listed :
    node[b].name = node[c].name => b = c \/ node[b].cut \/ node[c].cut

\* What can be read from a pipe was written to a pipe of that name, or of one that was cut to
\* it, also when the pool block belonged to another pipe before and was not cleared.
Alike(n) == {m \in Names : Cut[m] = n}
NoForeignBytes ==
  ~tailFreed => \A b \in live : \A i \in Readable(ring[b]) : ring[b].buf[i] \in Alike(node[b].name)

-----------------------------------------------------------------------------
\* drvFunc.c:87: "Release a pipe context instance and delete it when no
\* reference is left".
LastCloseDeletes ==
  (machine = "running" /\ \A h \in Handles : ~file[h].open) => live = {}
=============================================================================
