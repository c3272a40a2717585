------------------------------ MODULE PipeRing ------------------------------
(***************************************************************************)
(* The circular buffer of one pipe context of the ExampleDrv2 driver       *)
(* (include.h, drvFunc.c): what readPipeContext and writePipeContext do to *)
(* uiStartIndex, uiStopIndex and pcCircularBuffer.  Both hold              *)
(* kmInstanceBufferMutex from their first to their last access, so each is *)
(* one operator here: a function from the context before to the context    *)
(* after and the outcome of the call.                                      *)
(***************************************************************************)
EXTENDS Integers, Sequences

CONSTANTS
  Size,   \* sizeof(pcCircularBuffer): 2000 in the driver
  Word    \* 2^32: the modulus of the UINT32 subtractions

ASSUME SizeAssumption == Size \in Nat \ {0} /\ Word \in Nat /\ Word > Size

Index == 0 .. Size - 1

\* A byte of the pool block that no request has written: the block is not
\* zeroed when it is allocated.
Junk == 0

\* The MIN macro.
Lesser(x, y) == IF x <= y THEN x ELSE y

\* UINT32 subtraction, for operands below Word.
Minus(x, y) == IF x >= y THEN x - y ELSE x - y + Word

\* RtlCopyMemory into the circular buffer: the first n bytes of data, at i.
Store(buf, i, data, n) ==
  [j \in Index |-> IF i <= j /\ j < i + n THEN data[j - i + 1] ELSE buf[j]]

\* RtlCopyMemory out of the circular buffer: n bytes from i on.
Fetch(buf, i, n) == [k \in 1 .. n |-> buf[i + k - 1]]

\* Mutant of Opened: uiStopIndex is not initialised.
OpenedUnset(buf) == [start |-> 0, stop |-> Size - 1, buf |-> buf]

\* The indices createPipeContext gives a new context.
Opened(buf) == [start |-> 0, stop |-> 0, buf |-> buf]

(***************************************************************************)
(* writePipeContext.  The outcome has the context afterwards, *puiWritten, *)
(* and how many bytes of data the call has really taken.                   *)
(***************************************************************************)
Refused(c) == [ctx |-> c, reported |-> 0, taken |-> 0]

\* Mutant of WriteGap: no position is kept free.
WriteGapFull(c, data) ==
  LET n == Lesser(Minus(c.start, c.stop), Len(data))
  IN  [ctx |-> [c EXCEPT !.stop = @ + n, !.buf = Store(@, c.stop, data, n)],
       reported |-> n,
       taken    |-> n]

\* start > stop + 1: the gap before start is filled, all but one byte.
WriteGap(c, data) ==
  LET n == Lesser(Minus(c.start, c.stop + 1), Len(data))
  IN  [ctx |-> [c EXCEPT !.stop = @ + n, !.buf = Store(@, c.stop, data, n)],
       reported |-> n,
       taken    |-> n]

\* Mutant of RoomToEnd: the free position is forgotten when start is 0.
RoomToEndNoGap(c) == Size - c.stop

\* start <= stop: the room up to the end of the buffer, and then, when stop
\* has come to the end, the room from 0 to start.  The second copy starts at
\* data[0] again, and the count is only right when there is a second copy.
RoomToEnd(c) == IF c.start = 0 THEN Size - (c.stop + 1) ELSE Size - c.stop

\* Mutant of WriteToEnd: stop is not set back to 0 at the end of the buffer.
WriteToEndNoReset(c, data) ==
  LET n == Lesser(RoomToEnd(c), Len(data))
  IN  [ctx |-> [c EXCEPT !.stop = @ + n, !.buf = Store(@, c.stop, data, n)],
       reported |-> n + n,
       taken    |-> n]

WriteToEnd(c, data) ==
  LET n      == Lesser(RoomToEnd(c), Len(data))
      first  == Store(c.buf, c.stop, data, n)
      atEnd  == c.stop + n = Size
      second == IF n > 0 /\ atEnd
                THEN Lesser(Minus(c.start, 1), Len(data) - n) ELSE 0
  IN  [ctx |-> [c EXCEPT !.stop = IF n > 0 /\ atEnd THEN second ELSE @ + n,
                         !.buf  = Store(first, 0, data, second)],
       reported |-> IF second > 0 THEN n + second ELSE n + n,
       taken    |-> n + second]

Written(c, data) ==
  IF c.start > c.stop + 1 THEN WriteGap(c, data)
  ELSE IF c.start <= c.stop THEN WriteToEnd(c, data)
  ELSE Refused(c)

(***************************************************************************)
(* readPipeContext.  The outcome has the context afterwards and the bytes  *)
(* that the caller's buffer holds, as many as *puiRead says.               *)
(***************************************************************************)
\* Mutant of ReadLinear: reads on past stop.
ReadLinearPastStop(c, len) ==
  LET n == Lesser(Size - 1 - c.start, len)
  IN  [ctx |-> [c EXCEPT !.start = @ + n], got |-> Fetch(c.buf, c.start, n)]

\* Mutant of ReadLinear: the bytes read are not taken out.
ReadLinearKeepsStart(c, len) ==
  LET n == Lesser(c.stop - c.start, len)
  IN  [ctx |-> c, got |-> Fetch(c.buf, c.start, n)]

ReadLinear(c, len) ==
  LET n == Lesser(c.stop - c.start, len)
  IN  [ctx |-> [c EXCEPT !.start = @ + n], got |-> Fetch(c.buf, c.start, n)]

\* start > stop: the bytes up to the end of the buffer.  The code then adds
\* their number to stop, not to start, so its test for start = Size, which
\* guards the wrap and the second copy, sees the start of before the call.
ReadToEnd(c, len) ==
  LET n      == Lesser(Size - c.start, len)
      moved  == [c EXCEPT !.stop = @ + n]
      second == Lesser(moved.stop, len - n)
  IN  IF n > 0 /\ c.start = Size
      THEN [ctx |-> [moved EXCEPT !.start = second],
            got |-> [k \in 1 .. n + second |->
                       IF k <= second THEN c.buf[k - 1] ELSE c.buf[c.start + k - 1]]]
      ELSE [ctx |-> moved, got |-> Fetch(c.buf, c.start, n)]

ReadFrom(c, len) ==
  IF c.start < c.stop THEN ReadLinear(c, len)
  ELSE IF c.start > c.stop THEN ReadToEnd(c, len)
  ELSE [ctx |-> c, got |-> << >>]

-----------------------------------------------------------------------------
(***************************************************************************)
(* What the indices stand for: the readable bytes are those from start on, *)
(* cyclically, up to and without stop.                                     *)
(***************************************************************************)
Contexts(Byte) == [start : Index, stop : Index, buf : [Index -> Byte]]

Readable(c) ==
  IF c.start <= c.stop THEN {i \in Index : c.start <= i /\ i < c.stop}
  ELSE {i \in Index : c.start <= i \/ i < c.stop}

\* The readable bytes in the order in which they were written.
Unread(c) ==
  LET n == IF c.start <= c.stop THEN c.stop - c.start ELSE c.stop - c.start + Size
  IN  [k \in 1 .. n |-> c.buf[IF c.start + k - 1 < Size THEN c.start + k - 1
                                                       ELSE c.start + k - 1 - Size]]
=============================================================================
