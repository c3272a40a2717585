----------------------------- MODULE PipeBuffer -----------------------------
(***************************************************************************)
(* One pipe context of the ExampleDrv2 driver under IRP_MJ_READ and        *)
(* IRP_MJ_WRITE: handleReadFile and handleWriteFile around the circular    *)
(* buffer of PipeRing.  Any number of threads may use the pipe; each       *)
(* request is atomic under kmInstanceBufferMutex, so a behaviour is a      *)
(* sequence of requests.                                                   *)
(*                                                                         *)
(* Bytes are numbered in the order in which writers offer them, so that a  *)
(* lost, repeated or reordered byte shows.                                 *)
(***************************************************************************)
EXTENDS PipeRing

CONSTANTS
  MaxRequest, \* the longest request
  MaxBytes    \* bound: bytes offered by writers, and bytes given to readers

ASSUME BoundAssumption == MaxRequest \in Nat /\ MaxBytes \in Nat

VARIABLES
  ctx,        \* start, stop and buffer of the pipe context
  irp,        \* the last completed request: its status and information
  offered,    \* how many bytes writers have offered
  accepted,   \* history: the bytes taken from writers, in order
  delivered   \* history: the bytes handed to readers, in order

vars == <<ctx, irp, offered, accepted, delivered>>

Completed(op, len, status, information) ==
  [op |-> op, len |-> len, status |-> status, information |-> information]

Init ==
  /\ ctx = Opened([i \in Index |-> Junk])
  /\ irp = Completed("create", 0, "success", 0)
  /\ offered = 0
  /\ accepted = << >>
  /\ delivered = << >>

\* handleWriteFile: the status is STATUS_SUCCESS whatever is written; a
\* request of length 0 has no system buffer and does nothing.
Write(len) ==
  LET data == [k \in 1 .. len |-> offered + k]
      w    == IF len = 0 THEN Refused(ctx) ELSE Written(ctx, data)
  IN  /\ offered + len <= MaxBytes
      /\ offered' = offered + len
      /\ ctx' = w.ctx
      /\ accepted' = accepted \o SubSeq(data, 1, w.taken)
      /\ irp' = Completed("write", len, "success", w.reported)
      /\ UNCHANGED delivered

\* handleReadFile: STATUS_BUFFER_TOO_SMALL when nothing is read.
Read(len) ==
  LET r == IF len = 0 THEN [ctx |-> ctx, got |-> << >>] ELSE ReadFrom(ctx, len)
  IN  /\ Len(delivered) + len <= MaxBytes
      /\ ctx' = r.ctx
      /\ delivered' = delivered \o r.got
      /\ irp' = Completed("read", len,
                          IF r.got = << >> THEN "buffer_too_small" ELSE "success",
                          Len(r.got))
      /\ UNCHANGED <<offered, accepted>>

Next == \E len \in 0 .. MaxRequest : Write(len) \/ Read(len)

Spec == Init /\ [][Next]_vars

-----------------------------------------------------------------------------
Byte == Nat

\* Both indices stay inside pcCircularBuffer, although the read of a wrapped
\* buffer moves the wrong one of them.
TypeOK ==
  /\ ctx \in Contexts(Byte)
  /\ irp \in [op : {"create", "read", "write"}, len : Nat,
              status : {"success", "buffer_too_small"}, information : Nat]
  /\ offered \in Nat
  /\ accepted \in Seq(Byte)
  /\ delivered \in Seq(Byte)

\* The pool block of a context is not zeroed, and yet a read never returns
\* what the block held before: every readable position has been written, also
\* after the reads that move stop (drvFunc.c:543) and expose old positions.
NoJunkReadable == \A i \in Readable(ctx) : ctx.buf[i] # Junk

\* writePipeContext "will not overwrite data, so excess data will fail"
\* (drvFunc.c:636): a write leaves every unread byte readable, unchanged and
\* ahead of what it adds, in every position of start and stop.
WriteKeepsUnread ==
  [][irp'.op = "write" =>
       /\ ctx'.start = ctx.start
       /\ \A i \in Readable(ctx) : i \in Readable(ctx') /\ ctx'.buf[i] = ctx.buf[i]]_vars

\* The pipe never takes a byte it has no room for: one position stays free, so
\* that start = stop only when there is nothing to read (drvFunc.c:670).
FullIsNotEmpty ==
  [][(irp'.op = "write" /\ accepted' # accepted) => ctx'.start # ctx'.stop]_vars

\* Until stop has gone round the buffer for the first time, the pipe is a FIFO
\* that loses, repeats and reorders nothing: what readers got, followed by what
\* is still readable, is what was taken from writers.
FirstLapFifo == Len(accepted) < Size => delivered \o Unread(ctx) = accepted

\* The strengthening under which NoJunkReadable is inductive: either the whole
\* block has been written, or start <= stop and everything below stop has.
FilledBelowStop ==
  \/ \A i \in Index : ctx.buf[i] # Junk
  \/ /\ ctx.start <= ctx.stop
     /\ \A i \in Index : i < ctx.stop => ctx.buf[i] # Junk

\* The same for FirstLapFifo: in the first lap position i holds the i-th byte
\* taken (from 0), and start and stop count the bytes delivered and taken.
FirstLapLayout ==
  Len(accepted) < Size =>
    /\ ctx.start = Len(delivered)
    /\ ctx.stop = Len(accepted)
    /\ ctx.start <= ctx.stop
    /\ \A i \in Index : i < ctx.stop => ctx.buf[i] = accepted[i + 1]
    /\ \A k \in 1 .. Len(delivered) : delivered[k] = accepted[k]

IndInv == TypeOK /\ FilledBelowStop /\ FirstLapLayout

-----------------------------------------------------------------------------
(***************************************************************************)
(* A claim of a comment that the code does not keep.                       *)
(***************************************************************************)

\* include.h:59, of uiStopIndex: "This value may only be modified by write
\* operations".
OnlyWritesMoveStop == [][ctx'.stop # ctx.stop => irp'.op = "write"]_vars
=============================================================================
