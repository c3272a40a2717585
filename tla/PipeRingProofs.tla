--------------------------- MODULE PipeRingProofs ---------------------------
(***************************************************************************)
(* What a write and a read do to the circular buffer of PipeRing, for      *)
(* every Size, for bytes of any set Byte and data of any subset D of it.   *)
(* PipeBufferProofs uses it with numbered bytes, PipeDeviceProofs with     *)
(* bytes that are the name of the pipe they were written to.               *)
(***************************************************************************)
EXTENDS PipeRing, SequenceTheorems, TLAPS

-----------------------------------------------------------------------------
(***************************************************************************)
(* What a write does in terms of the context it finds.                     *)
(***************************************************************************)
WriteOK(Byte, D, c, data, w) ==
  /\ w.ctx \in Contexts(Byte)
  /\ w.ctx.start = c.start
  /\ w.taken \in 0 .. Len(data)
  /\ w.reported \in Nat
  /\ w.taken > 0 => w.ctx.start # w.ctx.stop
  /\ \A i \in Readable(c) : i \in Readable(w.ctx) /\ w.ctx.buf[i] = c.buf[i]
  /\ \A i \in Index : c.buf[i] \in D => w.ctx.buf[i] \in D
  /\ c.start <= c.stop =>
       IF c.stop + w.taken < Size
       THEN /\ w.ctx.stop = c.stop + w.taken
            /\ \A i \in Index : i < c.stop => w.ctx.buf[i] = c.buf[i]
            /\ \A i \in Index : c.stop <= i /\ i < c.stop + w.taken =>
                 w.ctx.buf[i] = data[i - c.stop + 1] /\ w.ctx.buf[i] \in D
       ELSE \A i \in Index : c.stop <= i => w.ctx.buf[i] \in D

\* A write into the gap below start.
LEMMA WriteGapOK ==
  ASSUME NEW Byte, NEW D, D \subseteq Byte, NEW c \in Contexts(Byte), NEW data \in Seq(D), c.start > c.stop + 1
  PROVE  WriteOK(Byte, D, c, data, WriteGap(c, data))
<1>. DEFINE n == Lesser(Minus(c.start, c.stop + 1), Len(data))
            new == Store(c.buf, c.stop, data, n)
            w == WriteGap(c, data)
<1>1. /\ c.start \in Index /\ c.stop \in Index /\ c.buf \in [Index -> Byte]
      /\ Len(data) \in Nat
  BY DEF Contexts
<1>2. n \in 0 .. Len(data) /\ c.stop + n < c.start
  BY <1>1, SizeAssumption DEF Lesser, Minus, Index
<1>3. /\ new \in [Index -> Byte]
      /\ \A j \in Index :
           /\ c.stop <= j /\ j < c.stop + n => new[j] = data[j - c.stop + 1]
           /\ c.stop <= j /\ j < c.stop + n => new[j] \in D
           /\ ~(c.stop <= j /\ j < c.stop + n) => new[j] = c.buf[j]
  <2>. HIDE DEF n
  <2>1. \A j \in Index : c.stop <= j /\ j < c.stop + n => data[j - c.stop + 1] \in D
    BY <1>1, <1>2, SizeAssumption DEF Index
  <2>. QED  BY <1>1, <2>1 DEF new, Store
<1>4. /\ w.ctx = [c EXCEPT !.stop = c.stop + n, !.buf = new]
      /\ w.taken = n /\ w.reported = n
  BY DEF WriteGap
<1>5. c.stop + n \in Index
  BY <1>1, <1>2, SizeAssumption DEF Index
<1>6. /\ w.ctx.start = c.start /\ w.ctx.stop = c.stop + n /\ w.ctx.buf = new
      /\ w.ctx \in Contexts(Byte)
  <2>. HIDE DEF n, new, w
  <2>. QED  BY <1>3, <1>4, <1>5 DEF Contexts
<1>. HIDE DEF n, new, w
<1>7. WriteOK(Byte, D, c, data, w)
  BY <1>1, <1>2, <1>3, <1>4, <1>6, SizeAssumption DEF WriteOK, Readable, Index
<1>. QED  BY <1>7 DEF w

(***************************************************************************)
(* The case with two copies.  The second copy goes to 0 .. second - 1,     *)
(* which lies below start, and the first to stop .. Size - 1.              *)
(***************************************************************************)
\* A write up to the end of the block, and on at its beginning.
LEMMA WriteToEndOK ==
  ASSUME NEW Byte, NEW D, D \subseteq Byte, NEW c \in Contexts(Byte), NEW data \in Seq(D), c.start <= c.stop
  PROVE  WriteOK(Byte, D, c, data, WriteToEnd(c, data))
<1>. DEFINE n == Lesser(RoomToEnd(c), Len(data))
            first == Store(c.buf, c.stop, data, n)
            second == IF n > 0 /\ c.stop + n = Size
                      THEN Lesser(Minus(c.start, 1), Len(data) - n) ELSE 0
            stop == IF n > 0 /\ c.stop + n = Size THEN second ELSE c.stop + n
            new == Store(first, 0, data, second)
            w == WriteToEnd(c, data)
<1>1. /\ c.start \in Index /\ c.stop \in Index /\ c.buf \in [Index -> Byte]
      /\ c.stop \in Nat /\ Len(data) \in Nat
  BY SizeAssumption DEF Contexts, Index
<1>2. /\ n \in 0 .. Len(data)
      /\ c.stop + n <= Size
      /\ c.start = 0 => c.stop + n < Size
      /\ n < Len(data) => n = RoomToEnd(c)
  BY <1>1, SizeAssumption DEF Lesser, RoomToEnd, Index
<1>3. /\ second \in 0 .. Len(data) /\ n + second \in 0 .. Len(data)
      /\ second > 0 => second < c.start /\ c.stop + n = Size
      /\ c.stop + n = Size => second < c.start
      /\ stop \in Index
      /\ c.stop + n < Size => stop = c.stop + n /\ second = 0
      /\ c.stop + n = Size => stop = second /\ n > 0
  <2>. HIDE DEF n
  <2>1. CASE c.stop + n < Size
    BY <2>1, <1>1, <1>2, SizeAssumption DEF Index
  <2>2. CASE c.stop + n = Size
    <3>1. n > 0 /\ c.start >= 1
      BY <2>2, <1>1, <1>2, SizeAssumption DEF Index
    <3>2. second \in 0 .. Len(data) - n /\ second < c.start
      BY <2>2, <3>1, <1>1, <1>2, SizeAssumption DEF Lesser, Minus, Index
    <3>. QED  BY <2>2, <3>1, <3>2, <1>1, <1>2, SizeAssumption DEF Index
  <2>. QED  BY <2>1, <2>2, <1>1, <1>2, SizeAssumption
<1>4. /\ first \in [Index -> Byte]
      /\ \A j \in Index :
           /\ c.stop <= j /\ j < c.stop + n => first[j] = data[j - c.stop + 1]
           /\ c.stop <= j /\ j < c.stop + n => first[j] \in D
           /\ ~(c.stop <= j /\ j < c.stop + n) => first[j] = c.buf[j]
  <2>. HIDE DEF n
  <2>1. \A j \in Index : c.stop <= j /\ j < c.stop + n => data[j - c.stop + 1] \in D
    BY <1>1, <1>2, SizeAssumption DEF Index
  <2>. QED  BY <1>1, <2>1 DEF first, Store
<1>5. /\ new \in [Index -> Byte]
      /\ \A j \in Index :
           /\ 0 <= j /\ j < 0 + second => new[j] \in D
           /\ ~(0 <= j /\ j < 0 + second) => new[j] = first[j]
  <2>. HIDE DEF first, second
  <2>1. \A j \in Index : 0 <= j /\ j < 0 + second => data[j - 0 + 1] \in D
    BY <1>3, SizeAssumption DEF Index
  <2>. QED  BY <1>4, <2>1 DEF new, Store
<1>6. /\ w.taken = n + second
      /\ w.reported = IF second > 0 THEN n + second ELSE n + n
  BY DEF WriteToEnd
<1>7. /\ w.ctx.start = c.start /\ w.ctx.stop = stop /\ w.ctx.buf = new
      /\ w.ctx \in Contexts(Byte)
  <2>1. w.ctx = [c EXCEPT !.stop = stop, !.buf = new]
    BY DEF WriteToEnd
  <2>. HIDE DEF stop, new, w
  <2>. QED  BY <1>3, <1>5, <2>1 DEF Contexts
<1>. HIDE DEF n, first, second, stop, new, w
<1>8. w.reported \in Nat /\ w.taken \in 0 .. Len(data)
  BY <1>1, <1>2, <1>3, <1>6
<1>9. w.taken > 0 => w.ctx.start # w.ctx.stop
  <2>1. n + second > 0 => c.start # stop
    <3>. HIDE DEF Index
    <3>1. c.stop + n < Size \/ c.stop + n = Size
      BY <1>1, <1>2, SizeAssumption
    <3>. QED  BY <3>1, <1>1, <1>2, <1>3, SizeAssumption DEF Index
  <2>. QED  BY <2>1, <1>6, <1>7
<1>10. \A i \in Readable(c) : i \in Readable(w.ctx) /\ w.ctx.buf[i] = c.buf[i]
  <2>. SUFFICES ASSUME NEW i \in Index, c.start <= i, i < c.stop
                PROVE  i \in Readable(w.ctx) /\ new[i] = c.buf[i]
    BY <1>7 DEF Readable
  <2>1. new[i] = c.buf[i]
    BY <1>1, <1>2, <1>3, <1>4, <1>5, SizeAssumption DEF Index
  <2>2. i < stop \/ stop < c.start
    <3>1. CASE c.stop + n < Size
      <4>1. stop = c.stop + n /\ n \in Nat /\ i \in Int
        BY <1>2, <1>3, <3>1, SizeAssumption DEF Index
      <4>. QED  BY <1>1, <4>1
    <3>2. CASE c.stop + n = Size
      BY <1>3, <3>2
    <3>3. c.stop + n < Size \/ c.stop + n = Size
      BY <1>1, <1>2, SizeAssumption
    <3>. QED  BY <3>1, <3>2, <3>3
  <2>3. i \in Readable(w.ctx)
    BY <1>1, <1>3, <1>7, <2>2, SizeAssumption DEF Readable, Index
  <2>. QED  BY <2>1, <2>3
<1>11. \A i \in Index : c.buf[i] \in D => w.ctx.buf[i] \in D
  BY <1>1, <1>2, <1>3, <1>4, <1>5, <1>7, SizeAssumption DEF Index
<1>12. c.stop + w.taken < Size =>
          /\ w.ctx.stop = c.stop + w.taken
          /\ \A i \in Index : i < c.stop => w.ctx.buf[i] = c.buf[i]
          /\ \A i \in Index : c.stop <= i /\ i < c.stop + w.taken =>
               w.ctx.buf[i] = data[i - c.stop + 1] /\ w.ctx.buf[i] \in D
  <2>. SUFFICES ASSUME c.stop + w.taken < Size
                PROVE  /\ stop = c.stop + w.taken
                       /\ \A i \in Index : i < c.stop => new[i] = c.buf[i]
                       /\ \A i \in Index : c.stop <= i /\ i < c.stop + w.taken =>
                            new[i] = data[i - c.stop + 1] /\ new[i] \in D
    BY <1>7
  <2>1. c.stop + n < Size
    BY <1>1, <1>2, <1>3, <1>6, SizeAssumption
  <2>2. second = 0 /\ stop = c.stop + n /\ w.taken = n
    BY <1>2, <1>3, <1>6, <2>1
  <2>3. \A j \in Index : new[j] = first[j]
    BY <1>5, <2>2, SizeAssumption DEF Index
  <2>4. \A i \in Index : i < c.stop => ~(c.stop <= i /\ i < c.stop + n)
    BY <1>1, SizeAssumption DEF Index
  <2>. QED  BY <1>4, <2>2, <2>3, <2>4
<1>13. c.stop + w.taken >= Size =>
          \A i \in Index : c.stop <= i => w.ctx.buf[i] \in D
  BY <1>1, <1>2, <1>3, <1>4, <1>5, <1>6, <1>7, SizeAssumption DEF Index
<1>14. c.stop + w.taken < Size \/ c.stop + w.taken >= Size
  BY <1>1, <1>8, SizeAssumption
<1>15. WriteOK(Byte, D, c, data, w)
  BY <1>7, <1>8, <1>9, <1>10, <1>11, <1>12, <1>13, <1>14 DEF WriteOK
<1>. QED  BY <1>15 DEF w

\* A write of any length.
LEMMA WrittenOK ==
  ASSUME NEW Byte, NEW D, D \subseteq Byte, NEW c \in Contexts(Byte), NEW data \in Seq(D)
  PROVE  WriteOK(Byte, D, c, data, Written(c, data))
<1>1. CASE c.start > c.stop + 1
  BY <1>1, WriteGapOK DEF Written
<1>2. CASE c.start <= c.stop
  <2>1. ~(c.start > c.stop + 1)
    BY <1>2, SizeAssumption DEF Contexts, Index
  <2>. QED  BY <1>2, <2>1, WriteToEndOK DEF Written
<1>3. CASE ~(c.start > c.stop + 1) /\ ~(c.start <= c.stop)
  <2>1. Written(c, data) = Refused(c)
    BY <1>3 DEF Written
  <2>2. WriteOK(Byte, D, c, data, Refused(c))
    BY <1>3 DEF WriteOK, Refused
  <2>. QED  BY <2>1, <2>2
<1>. QED  BY <1>1, <1>2, <1>3

(***************************************************************************)
(* What a read does in terms of the context it finds.                      *)
(***************************************************************************)
ReadOK(Byte, c, r) ==
  /\ r.ctx \in Contexts(Byte)
  /\ r.ctx.buf = c.buf
  /\ r.got \in Seq(Byte)
  /\ c.start <= c.stop =>
       /\ r.ctx.stop = c.stop
       /\ r.ctx.start = c.start + Len(r.got)
       /\ r.ctx.start <= c.stop
       /\ \A k \in 1 .. Len(r.got) : r.got[k] = c.buf[c.start + k - 1]

\* Fetch takes its n bytes from inside the buffer.
LEMMA FetchSpec ==
  ASSUME NEW Byte, NEW buf \in [Index -> Byte], NEW i \in Nat, NEW n \in Nat, i + n <= Size
  PROVE  Fetch(buf, i, n) \in Seq(Byte)
<1>1. \A k \in 1 .. n : i + k - 1 \in Index
  BY SizeAssumption DEF Index
<1>2. Fetch(buf, i, n) \in [1 .. n -> Byte]
  BY <1>1 DEF Fetch
<1>. QED  BY <1>2

\* A read of any length.
LEMMA ReadFromOK ==
  ASSUME NEW Byte, NEW c \in Contexts(Byte), NEW len \in Nat
  PROVE  ReadOK(Byte, c, ReadFrom(c, len))
<1>. DEFINE r == ReadFrom(c, len)
<1>. SUFFICES ReadOK(Byte, c, r)
  OBVIOUS
<1>1. /\ c.start \in Index /\ c.stop \in Index /\ c.buf \in [Index -> Byte]
      /\ c.start \in Nat /\ c.stop \in Nat /\ Index \subseteq Nat
      /\ c.start < Size /\ c.stop < Size
  BY SizeAssumption DEF Contexts, Index
<1>2. CASE c.start < c.stop
  <2>. DEFINE n == Lesser(c.stop - c.start, len)
  <2>1. n \in Nat /\ c.start + n <= c.stop
    BY <1>1, <1>2 DEF Lesser
  <2>2. r = [ctx |-> [c EXCEPT !.start = @ + n], got |-> Fetch(c.buf, c.start, n)]
    BY <1>2 DEF ReadFrom, ReadLinear
  <2>. HIDE DEF n, r
  <2>3. c.start + n \in Index
    BY <1>1, <2>1, SizeAssumption DEF Index
  <2>4. /\ r.ctx \in Contexts(Byte) /\ r.ctx.buf = c.buf /\ r.ctx.stop = c.stop
        /\ r.ctx.start = c.start + n /\ r.got = Fetch(c.buf, c.start, n)
    BY <2>2, <2>3 DEF Contexts
  <2>5. c.start + n <= Size
    BY <1>1, <2>1, SizeAssumption
  <2>6. /\ r.got \in Seq(Byte) /\ Len(r.got) = n
        /\ \A k \in 1 .. n : r.got[k] = c.buf[c.start + k - 1]
    <3>1. Fetch(c.buf, c.start, n) \in Seq(Byte)
      BY <1>1, <2>1, <2>5, FetchSpec
    <3>2. /\ Len(Fetch(c.buf, c.start, n)) = n
          /\ \A k \in 1 .. n : Fetch(c.buf, c.start, n)[k] = c.buf[c.start + k - 1]
      BY <2>1 DEF Fetch
    <3>. QED  BY <2>4, <3>1, <3>2
  <2>. QED  BY <2>1, <2>4, <2>6 DEF ReadOK
<1>3. CASE c.start > c.stop
  <2>. DEFINE n == Lesser(Size - c.start, len)
  <2>1. n \in Nat /\ c.start + n <= Size
    BY <1>1, <1>3, SizeAssumption DEF Lesser
  <2>2. r = [ctx |-> [c EXCEPT !.stop = @ + n], got |-> Fetch(c.buf, c.start, n)]
    BY <1>1, <1>3, SizeAssumption DEF ReadFrom, ReadToEnd
  <2>. HIDE DEF n, r
  <2>3. c.stop + n \in Index
    BY <1>1, <1>3, <2>1, SizeAssumption DEF Index
  <2>4. /\ r.ctx \in Contexts(Byte) /\ r.ctx.buf = c.buf
        /\ r.got = Fetch(c.buf, c.start, n)
    BY <2>2, <2>3 DEF Contexts
  <2>5. r.got \in Seq(Byte)
    BY <1>1, <2>1, <2>4, FetchSpec
  <2>. QED  BY <1>1, <1>3, <2>4, <2>5 DEF ReadOK
<1>4. CASE c.start = c.stop
  <2>1. r = [ctx |-> c, got |-> << >>]
    BY <1>1, <1>4 DEF ReadFrom
  <2>. HIDE DEF r
  <2>2. r.ctx = c /\ r.got = << >> /\ r.got \in Seq(Byte) /\ Len(r.got) = 0
    BY <2>1
  <2>. QED  BY <1>1, <1>4, <2>2 DEF ReadOK
<1>. QED  BY <1>1, <1>2, <1>3, <1>4

-----------------------------------------------------------------------------
(***************************************************************************)
(* Where the data of a pipe are: either the whole block holds data, or     *)
(* start <= stop and everything below stop does.  What the block held      *)
(* before the pipe was opened stays unreadable.                            *)
(***************************************************************************)
Filled(c, D) ==
  \/ \A i \in Index : c.buf[i] \in D
  \/ /\ c.start <= c.stop
     /\ \A i \in Index : i < c.stop => c.buf[i] \in D

\* A context that has just been opened, whatever its block holds.
LEMMA OpenedFilled ==
  ASSUME NEW buf, NEW D
  PROVE  Filled(Opened(buf), D)
BY SizeAssumption DEF Filled, Opened, Index

\* What is readable is data.
LEMMA FilledReadable ==
  ASSUME NEW Byte, NEW D, NEW c \in Contexts(Byte), Filled(c, D), NEW i \in Readable(c)
  PROVE  c.buf[i] \in D
<1>1. c.start \in Int /\ c.stop \in Int /\ Index \subseteq Int
  BY SizeAssumption DEF Contexts, Index
<1>. QED  BY <1>1 DEF Filled, Readable

\* A write keeps it: up to the end of the block only data come to lie below
\* stop, and a write that gets there has filled the block.
LEMMA WriteKeepsFilled ==
  ASSUME NEW Byte, NEW D, D \subseteq Byte, NEW c \in Contexts(Byte), NEW data \in Seq(D),
         NEW w, WriteOK(Byte, D, c, data, w), Filled(c, D)
  PROVE  Filled(w.ctx, D)
<1>1. /\ c.start \in Nat /\ c.stop \in Nat /\ c.stop < Size /\ Index \subseteq Nat
      /\ w.taken \in Nat
  BY SizeAssumption DEF WriteOK, Contexts, Index
<1>2. CASE \A i \in Index : c.buf[i] \in D
  BY <1>2 DEF WriteOK, Filled
<1>3. CASE c.start <= c.stop /\ \A i \in Index : i < c.stop => c.buf[i] \in D
  <2>1. CASE c.stop + w.taken < Size
    <3>1. w.ctx.start = c.start /\ w.ctx.stop = c.stop + w.taken
      BY <1>3, <2>1 DEF WriteOK
    <3>2. ASSUME NEW i \in Index, i < c.stop + w.taken PROVE w.ctx.buf[i] \in D
      BY <1>1, <1>3, <2>1, <3>2 DEF WriteOK
    <3>. QED  BY <1>1, <1>3, <3>1, <3>2 DEF Filled
  <2>2. CASE ~(c.stop + w.taken < Size)
    BY <1>1, <1>3, <2>2 DEF WriteOK, Filled
  <2>. QED  BY <2>1, <2>2
<1>. QED  BY <1>2, <1>3 DEF Filled

\* A read keeps it: it changes no byte, and of a buffer that is not wrapped it
\* moves start only, up to stop at most.
LEMMA ReadKeepsFilled ==
  ASSUME NEW Byte, NEW D, NEW c \in Contexts(Byte), NEW r, ReadOK(Byte, c, r), Filled(c, D)
  PROVE  Filled(r.ctx, D)
BY DEF ReadOK, Filled

-----------------------------------------------------------------------------
(***************************************************************************)
(* The circular buffer as a queue.  What is unread is named by its places: *)
(* the k-th unread byte is at Place(c, k), for k up to Pending(c).         *)
(***************************************************************************)
Pending(c) == IF c.start <= c.stop THEN c.stop - c.start ELSE c.stop - c.start + Size

Place(c, k) == IF c.start + k - 1 < Size THEN c.start + k - 1 ELSE c.start + k - 1 - Size

\* When a sequence is the concatenation of two others.
LEMMA IsConcat ==
  ASSUME NEW S, NEW s \in Seq(S), NEW t \in Seq(S), NEW u \in Seq(S),
         Len(u) = Len(s) + Len(t),
         \A k \in 1 .. Len(s) : u[k] = s[k],
         \A k \in 1 .. Len(t) : u[Len(s) + k] = t[k]
  PROVE  u = s \o t
<1>1. s \o t \in Seq(S) /\ Len(s \o t) = Len(u)
  OBVIOUS
<1>2. ASSUME NEW k \in 1 .. Len(u) PROVE u[k] = (s \o t)[k]
  <2>1. CASE k <= Len(s)
    BY <2>1
  <2>2. CASE k > Len(s)
    <3>1. k - Len(s) \in 1 .. Len(t) /\ Len(s) + (k - Len(s)) = k
      BY <2>2
    <3>2. u[k] = t[k - Len(s)]
      BY <3>1
    <3>3. (s \o t)[k] = t[k - Len(s)]
      BY <2>2
    <3>. QED  BY <3>2, <3>3
  <2>. QED  BY <2>1, <2>2
<1>. QED  BY <1>1, <1>2, SeqEqual

\* What is inside the block.
LEMMA InIndex == ASSUME NEW i \in Nat, i < Size PROVE i \in Index
BY SizeAssumption DEF Index

\* Unread is the sequence of what is at these places.
LEMMA UnreadSpec ==
  ASSUME NEW Byte, NEW c \in Contexts(Byte)
  PROVE  /\ Pending(c) \in Nat /\ Pending(c) < Size
         /\ \A k \in 1 .. Size : Place(c, k) \in Index
         /\ Unread(c) \in Seq(Byte)
         /\ Len(Unread(c)) = Pending(c)
         /\ \A k \in 1 .. Pending(c) : Unread(c)[k] = c.buf[Place(c, k)]
<1>1. /\ c.start \in Nat /\ c.stop \in Nat /\ c.start < Size /\ c.stop < Size
      /\ c.buf \in [Index -> Byte]
  BY SizeAssumption DEF Contexts, Index
<1>2. Pending(c) \in Nat /\ Pending(c) < Size
  BY <1>1, SizeAssumption DEF Pending
<1>3. \A k \in 1 .. Size : Place(c, k) \in Index
  BY <1>1, SizeAssumption DEF Place, Index
<1>4. Unread(c) = [k \in 1 .. Pending(c) |-> c.buf[Place(c, k)]]
  BY DEF Unread, Pending, Place
<1>5. [k \in 1 .. Pending(c) |-> c.buf[Place(c, k)]] \in Seq(Byte)
  <2>1. \A k \in 1 .. Pending(c) : c.buf[Place(c, k)] \in Byte
    BY <1>1, <1>2, <1>3, SizeAssumption
  <2>2. [k \in 1 .. Pending(c) |-> c.buf[Place(c, k)]] \in [1 .. Pending(c) -> Byte]
    BY <2>1
  <2>. QED  BY <1>2, <2>2
<1>. QED  BY <1>2, <1>3, <1>4, <1>5

\* The write has put the bytes it has taken at the places behind the unread
\* ones, and has left those.
PutBehind(c, data, w) ==
  /\ w.ctx.start = c.start
  /\ Pending(w.ctx) = Pending(c) + w.taken
  /\ \A k \in 1 .. Pending(c) : w.ctx.buf[Place(c, k)] = c.buf[Place(c, k)]
  /\ \A k \in 1 .. w.taken : w.ctx.buf[Place(c, Pending(c) + k)] = data[k]

\* A write that stays in front of the end of the block, or ends there, or goes
\* into the gap: all but the write with a second copy.
OneCopy(c, w) == c.start <= c.stop => c.stop + w.taken <= Size

\* Into the gap.
LEMMA GapPutsBehind ==
  ASSUME NEW Byte, NEW c \in Contexts(Byte), NEW data \in Seq(Byte), c.start > c.stop + 1
  PROVE  PutBehind(c, data, WriteGap(c, data))
<1>. DEFINE n == Lesser(Minus(c.start, c.stop + 1), Len(data))
            new == Store(c.buf, c.stop, data, n)
            w == WriteGap(c, data)
<1>1. /\ c.start \in Nat /\ c.stop \in Nat /\ c.start < Size /\ Len(data) \in Nat
  BY SizeAssumption DEF Contexts, Index
<1>2. n \in Nat /\ n \in 0 .. Len(data) /\ c.stop + n < c.start
  BY <1>1, SizeAssumption DEF Lesser, Minus
<1>3. w.ctx.start = c.start /\ w.ctx.stop = c.stop + n /\ w.ctx.buf = new /\ w.taken = n
  <2>1. w.ctx = [c EXCEPT !.stop = c.stop + n, !.buf = new] /\ w.taken = n
    BY DEF WriteGap
  <2>. HIDE DEF n, new, w
  <2>. QED  BY <2>1 DEF Contexts
<1>4. \A j \in Index : new[j] = IF c.stop <= j /\ j < c.stop + n THEN data[j - c.stop + 1] ELSE c.buf[j]
  BY DEF Store
<1>. HIDE DEF n, new, w
<1>5. Pending(c) = c.stop - c.start + Size /\ Pending(w.ctx) = Pending(c) + w.taken
  <2>1. Pending(c) = c.stop - c.start + Size
    BY <1>1 DEF Pending
  <2>2. ~(w.ctx.start <= w.ctx.stop)
    BY <1>1, <1>2, <1>3
  <2>3. Pending(w.ctx) = w.ctx.stop - w.ctx.start + Size
    BY <2>2, Zenon DEF Pending
  <2>. QED  BY <1>1, <1>2, <1>3, <2>1, <2>3, SizeAssumption
<1>6. ASSUME NEW k \in 1 .. Pending(c)
      PROVE  w.ctx.buf[Place(c, k)] = c.buf[Place(c, k)]
  <2>1. k \in Nat /\ 1 <= k /\ k <= c.stop - c.start + Size
    BY <1>1, <1>5, SizeAssumption
  <2>2. CASE c.start + k - 1 < Size
    <3>1. Place(c, k) = c.start + k - 1
      BY <2>2, Zenon DEF Place
    <3>2. c.start + k - 1 \in Nat /\ c.start <= c.start + k - 1
      BY <1>1, <2>1
    <3>3. c.start + k - 1 \in Index
      BY <2>2, <3>2, InIndex
    <3>4. ~(c.start + k - 1 < c.stop + n)
      BY <1>1, <1>2, <3>2
    <3>. QED  BY <1>3, <1>4, <3>1, <3>3, <3>4
  <2>3. CASE ~(c.start + k - 1 < Size)
    <3>1. Place(c, k) = c.start + k - 1 - Size
      BY <2>3, Zenon DEF Place
    <3>2. /\ c.start + k - 1 - Size \in Nat
          /\ c.start + k - 1 - Size < c.stop
      BY <1>1, <2>1, <2>3, SizeAssumption
    <3>3. c.start + k - 1 - Size < Size /\ ~(c.stop <= c.start + k - 1 - Size)
      BY <1>1, <1>2, <3>2, SizeAssumption
    <3>4. c.start + k - 1 - Size \in Index
      BY <3>2, <3>3, InIndex
    <3>. QED  BY <1>3, <1>4, <3>1, <3>3, <3>4
  <2>. QED  BY <2>2, <2>3
<1>7. ASSUME NEW k \in 1 .. w.taken
      PROVE  w.ctx.buf[Place(c, Pending(c) + k)] = data[k]
  <2>0. k \in Nat /\ 1 <= k /\ k <= n
    BY <1>2, <1>3
  <2>1. Place(c, Pending(c) + k) = c.stop + k - 1
    <3>1. /\ ~(c.start + (Pending(c) + k) - 1 < Size)
          /\ c.start + (Pending(c) + k) - 1 - Size = c.stop + k - 1
      BY <1>1, <1>5, <2>0, SizeAssumption
    <3>2. Place(c, Pending(c) + k) = c.start + (Pending(c) + k) - 1 - Size
      BY <3>1, Zenon DEF Place
    <3>. QED  BY <3>1, <3>2
  <2>2. /\ c.stop + k - 1 \in Nat /\ (c.stop + k - 1) - c.stop + 1 = k
        /\ c.stop <= c.stop + k - 1 /\ c.stop + k - 1 < c.stop + n
    <3>1. c.stop + k - 1 \in Nat /\ (c.stop + k - 1) - c.stop + 1 = k
      BY <1>1, <2>0
    <3>2. c.stop <= c.stop + k - 1 /\ c.stop + k - 1 < c.stop + n
      BY <1>1, <1>2, <2>0
    <3>. QED  BY <3>1, <3>2
  <2>3. c.stop + k - 1 \in Index
    <3>1. c.stop + k - 1 < Size
      BY <1>1, <1>2, <2>0, <2>2, SizeAssumption
    <3>. QED  BY <2>2, <3>1, InIndex
  <2>. QED  BY <1>3, <1>4, <2>1, <2>2, <2>3
<1>8. PutBehind(c, data, w)
  BY <1>3, <1>5, <1>6, <1>7 DEF PutBehind
<1>. QED  BY <1>8 DEF w

\* Towards the end of the block, without a second copy.  When stop comes to the
\* end it goes back to 0, below start, so that nothing is lost from view.
LEMMA ToEndPutsBehind ==
  ASSUME NEW Byte, NEW c \in Contexts(Byte), NEW data \in Seq(Byte), c.start <= c.stop,
         OneCopy(c, WriteToEnd(c, data))
  PROVE  PutBehind(c, data, WriteToEnd(c, data))
<1>. DEFINE n == Lesser(RoomToEnd(c), Len(data))
            first == Store(c.buf, c.stop, data, n)
            second == IF n > 0 /\ c.stop + n = Size
                      THEN Lesser(Minus(c.start, 1), Len(data) - n) ELSE 0
            stop == IF n > 0 /\ c.stop + n = Size THEN second ELSE c.stop + n
            new == Store(first, 0, data, second)
            w == WriteToEnd(c, data)
<1>1. /\ c.start \in Nat /\ c.stop \in Nat /\ c.stop < Size /\ Len(data) \in Nat
  BY SizeAssumption DEF Contexts, Index
<1>2. /\ n \in Nat /\ n \in 0 .. Len(data) /\ c.stop + n <= Size
      /\ c.stop + n = Size => n > 0 /\ c.start > 0
  BY <1>1, SizeAssumption DEF Lesser, RoomToEnd
<1>3. second \in Nat
  <2>. HIDE DEF n
  <2>. QED  BY <1>1, <1>2, SizeAssumption DEF Lesser, Minus
<1>4. w.ctx.start = c.start /\ w.ctx.stop = stop /\ w.ctx.buf = new /\ w.taken = n + second
  <2>1. w.ctx = [c EXCEPT !.stop = stop, !.buf = new] /\ w.taken = n + second
    BY DEF WriteToEnd
  <2>. HIDE DEF n, second, stop, new, w
  <2>. QED  BY <2>1 DEF Contexts
<1>5. c.stop + n + second <= Size
  <2>1. c.stop + w.taken <= Size
    BY DEF OneCopy
  <2>. HIDE DEF n, second, w
  <2>. QED  BY <1>1, <1>2, <1>3, <1>4, <2>1
<1>6. second = 0
  <2>1. c.stop + n # Size => second = 0
    OBVIOUS
  <2>. HIDE DEF n, second
  <2>. QED  BY <1>1, <1>2, <1>3, <1>5, <2>1, SizeAssumption
<1>7. stop = IF c.stop + n = Size THEN 0 ELSE c.stop + n
  <2>. HIDE DEF n, second
  <2>. QED  BY <1>2, <1>6
<1>8. \A j \in Index : new[j] = IF c.stop <= j /\ j < c.stop + n THEN data[j - c.stop + 1] ELSE c.buf[j]
  <2>1. \A j \in Index : ~(0 <= j /\ j < 0 + second)
    <3>. HIDE DEF second
    <3>. QED  BY <1>6, SizeAssumption DEF Index
  <2>2. \A j \in Index : new[j] = first[j]
    <3>. HIDE DEF first, second
    <3>. QED  BY <2>1 DEF Store
  <2>. QED  BY <2>2 DEF Store
<1>. HIDE DEF n, first, second, stop, new, w
<1>9. Pending(c) = c.stop - c.start /\ Pending(w.ctx) = Pending(c) + w.taken
  <2>1. Pending(c) = c.stop - c.start /\ w.taken = n
    BY <1>1, <1>2, <1>4, <1>6 DEF Pending
  <2>2. Pending(w.ctx) = IF c.start <= stop THEN stop - c.start ELSE stop - c.start + Size
    BY <1>4 DEF Pending
  <2>3. CASE c.stop + n = Size
    BY <1>1, <1>2, <1>7, <2>1, <2>2, <2>3, SizeAssumption
  <2>4. CASE c.stop + n # Size
    BY <1>1, <1>2, <1>7, <2>1, <2>2, <2>4, SizeAssumption
  <2>. QED  BY <2>1, <2>3, <2>4
<1>10. ASSUME NEW k \in 1 .. Pending(c)
       PROVE  w.ctx.buf[Place(c, k)] = c.buf[Place(c, k)]
  <2>1. k \in Nat /\ 1 <= k /\ c.start + k - 1 < c.stop
    BY <1>1, <1>9
  <2>2. Place(c, k) = c.start + k - 1
    <3>1. c.start + k - 1 < Size
      BY <1>1, <2>1, SizeAssumption
    <3>. QED  BY <3>1 DEF Place
  <2>3. c.start + k - 1 \in Index /\ ~(c.stop <= c.start + k - 1)
    BY <1>1, <2>1, SizeAssumption DEF Index
  <2>. QED  BY <1>4, <1>8, <2>2, <2>3
<1>11. ASSUME NEW k \in 1 .. w.taken
       PROVE  w.ctx.buf[Place(c, Pending(c) + k)] = data[k]
  <2>0. k \in Nat /\ 1 <= k /\ k <= n
    BY <1>2, <1>4, <1>6
  <2>1. Place(c, Pending(c) + k) = c.stop + k - 1
    <3>1. c.start + (Pending(c) + k) - 1 = c.stop + k - 1
      BY <1>1, <1>9, <2>0
    <3>2. c.stop + k - 1 < Size
      BY <1>1, <1>2, <2>0, SizeAssumption
    <3>. QED  BY <3>1, <3>2, Zenon DEF Place
  <2>2. /\ c.stop + k - 1 \in Nat /\ (c.stop + k - 1) - c.stop + 1 = k
        /\ c.stop <= c.stop + k - 1 /\ c.stop + k - 1 < c.stop + n
    <3>1. c.stop + k - 1 \in Nat /\ (c.stop + k - 1) - c.stop + 1 = k
      BY <1>1, <2>0
    <3>2. c.stop <= c.stop + k - 1 /\ c.stop + k - 1 < c.stop + n
      BY <1>1, <1>2, <2>0
    <3>. QED  BY <3>1, <3>2
  <2>3. c.stop + k - 1 \in Index
    <3>1. c.stop + k - 1 < Size
      BY <1>1, <1>2, <2>0, <2>2, SizeAssumption
    <3>. QED  BY <2>2, <3>1, InIndex
  <2>. QED  BY <1>4, <1>8, <2>1, <2>2, <2>3
<1>12. PutBehind(c, data, w)
  BY <1>4, <1>9, <1>10, <1>11 DEF PutBehind
<1>. QED  BY <1>12 DEF w

\* Every write without a second copy: what it takes comes behind what was
\* unread, and is what the writer gave.
LEMMA WriteAppends ==
  ASSUME NEW Byte, NEW c \in Contexts(Byte), NEW data \in Seq(Byte),
         NEW w, w = Written(c, data), OneCopy(c, w)
  PROVE  Unread(w.ctx) = Unread(c) \o SubSeq(data, 1, w.taken)
<1>1. w.ctx \in Contexts(Byte) /\ w.taken \in 0 .. Len(data)
  BY WrittenOK DEF WriteOK
<1>2. PutBehind(c, data, w)
  <2>1. CASE c.start > c.stop + 1
    BY <2>1, GapPutsBehind DEF Written
  <2>2. CASE c.start <= c.stop
    <3>1. ~(c.start > c.stop + 1)
      BY <2>2, SizeAssumption DEF Contexts, Index
    <3>. QED  BY <2>2, <3>1, ToEndPutsBehind DEF Written
  <2>3. CASE ~(c.start > c.stop + 1) /\ ~(c.start <= c.stop)
    <3>1. w = Refused(c)
      BY <2>3 DEF Written
    <3>2. w.ctx = c /\ w.taken = 0
      BY <3>1 DEF Refused
    <3>3. Pending(c) \in Nat
      BY UnreadSpec
    <3>. QED  BY <3>2, <3>3 DEF PutBehind
  <2>. QED  BY <2>1, <2>2, <2>3
<1>3. /\ Pending(c) \in Nat /\ Pending(w.ctx) \in Nat /\ Pending(w.ctx) < Size
      /\ Unread(c) \in Seq(Byte) /\ Len(Unread(c)) = Pending(c)
      /\ \A k \in 1 .. Pending(c) : Unread(c)[k] = c.buf[Place(c, k)]
  BY <1>1, UnreadSpec
<1>4. /\ Unread(w.ctx) \in Seq(Byte) /\ Len(Unread(w.ctx)) = Pending(w.ctx)
      /\ \A k \in 1 .. Pending(w.ctx) : Unread(w.ctx)[k] = w.ctx.buf[Place(w.ctx, k)]
  BY <1>1, UnreadSpec
<1>. DEFINE taken == SubSeq(data, 1, w.taken)
<1>5. /\ taken \in Seq(Byte) /\ Len(taken) = w.taken
      /\ \A k \in 1 .. w.taken : taken[k] = data[k]
  BY <1>1
<1>6. \A k : Place(w.ctx, k) = Place(c, k)
  BY <1>2 DEF PutBehind, Place
<1>7. Len(Unread(w.ctx)) = Len(Unread(c)) + Len(taken)
  BY <1>2, <1>3, <1>4, <1>5 DEF PutBehind
<1>8. \A k \in 1 .. Len(Unread(c)) : Unread(w.ctx)[k] = Unread(c)[k]
  <2>. SUFFICES ASSUME NEW k \in 1 .. Pending(c)
                PROVE  Unread(w.ctx)[k] = Unread(c)[k]
    BY <1>3
  <2>1. k \in 1 .. Pending(w.ctx)
    BY <1>1, <1>2, <1>3 DEF PutBehind
  <2>2. Unread(w.ctx)[k] = w.ctx.buf[Place(c, k)]
    BY <1>4, <1>6, <2>1
  <2>. QED  BY <1>2, <1>3, <2>2 DEF PutBehind
<1>9. \A k \in 1 .. Len(taken) : Unread(w.ctx)[Len(Unread(c)) + k] = taken[k]
  <2>. SUFFICES ASSUME NEW k \in 1 .. w.taken
                PROVE  Unread(w.ctx)[Pending(c) + k] = taken[k]
    BY <1>3, <1>5
  <2>1. Pending(c) + k \in 1 .. Pending(w.ctx)
    BY <1>1, <1>2, <1>3 DEF PutBehind
  <2>2. Unread(w.ctx)[Pending(c) + k] = w.ctx.buf[Place(c, Pending(c) + k)]
    BY <1>4, <1>6, <2>1
  <2>. QED  BY <1>2, <1>5, <2>2 DEF PutBehind
<1>. HIDE DEF taken
<1>10. Unread(w.ctx) = Unread(c) \o taken
  BY <1>3, <1>4, <1>5, <1>7, <1>8, <1>9, IsConcat
<1>. QED  BY <1>10 DEF taken

\* A write with one copy takes all there is room for: Size - 1 bytes may be
\* unread at a time.
LEMMA WriteTakesRoom ==
  ASSUME NEW Byte, NEW c \in Contexts(Byte), NEW data \in Seq(Byte),
         NEW w, w = Written(c, data), OneCopy(c, w)
  PROVE  w.taken = Lesser(Size - 1 - Pending(c), Len(data))
<1>1. /\ c.start \in Nat /\ c.stop \in Nat /\ c.start < Size /\ c.stop < Size
      /\ Len(data) \in Nat
  BY SizeAssumption DEF Contexts, Index
<1>2. CASE c.start > c.stop + 1
  <2>1. w.taken = Lesser(Minus(c.start, c.stop + 1), Len(data))
    BY <1>2 DEF Written, WriteGap
  <2>2. Minus(c.start, c.stop + 1) = c.start - (c.stop + 1)
    BY <1>1, <1>2 DEF Minus
  <2>3. Size - 1 - Pending(c) = c.start - (c.stop + 1)
    BY <1>1, <1>2, SizeAssumption DEF Pending
  <2>. QED  BY <2>1, <2>2, <2>3
<1>3. CASE c.start <= c.stop
  <2>. DEFINE n == Lesser(RoomToEnd(c), Len(data))
              second == IF n > 0 /\ c.stop + n = Size
                        THEN Lesser(Minus(c.start, 1), Len(data) - n) ELSE 0
  <2>1. w.taken = n + second /\ c.stop + w.taken <= Size
    BY <1>1, <1>3 DEF Written, WriteToEnd, OneCopy
  <2>2. Pending(c) = c.stop - c.start
    BY <1>3 DEF Pending
  <2>3. CASE c.start = 0
    <3>1. n = Lesser(Size - 1 - Pending(c), Len(data)) /\ c.stop + n < Size /\ n \in Nat
      BY <1>1, <2>2, <2>3, SizeAssumption DEF RoomToEnd, Lesser
    <3>2. second = 0
      <4>. HIDE DEF n
      <4>. QED  BY <1>1, <3>1, SizeAssumption
    <3>. HIDE DEF n, second
    <3>. QED  BY <2>1, <3>1, <3>2
  <2>4. CASE c.start # 0
    <3>1. n = Lesser(Size - c.stop, Len(data)) /\ n \in Nat /\ n <= Len(data)
      BY <1>1, <2>4, SizeAssumption DEF RoomToEnd, Lesser
    <3>2. CASE Len(data) < Size - c.stop
      <4>1. n = Len(data) /\ c.stop + n # Size
        BY <1>1, <3>1, <3>2, SizeAssumption DEF Lesser
      <4>2. second = 0
        <5>. HIDE DEF n
        <5>. QED  BY <4>1
      <4>. HIDE DEF n, second
      <4>. QED  BY <1>1, <1>3, <2>1, <2>2, <2>4, <3>2, <4>1, <4>2, SizeAssumption DEF Lesser
    <3>3. CASE ~(Len(data) < Size - c.stop)
      <4>1. n = Size - c.stop /\ c.stop + n = Size /\ n > 0
        BY <1>1, <3>1, <3>3, SizeAssumption DEF Lesser
      <4>2. Minus(c.start, 1) = c.start - 1
        BY <1>1, <2>4 DEF Minus
      <4>3. second = Lesser(c.start - 1, Len(data) - n)
        <5>. HIDE DEF n
        <5>. QED  BY <4>1, <4>2
      <4>. HIDE DEF n, second
      <4>4. Lesser(c.start - 1, Len(data) - n) = 0 /\ w.taken = n
        <5>1. second \in Nat
          BY <1>1, <2>4, <3>1, <4>3 DEF Lesser
        <5>2. second = 0
          BY <1>1, <2>1, <3>1, <4>1, <5>1, SizeAssumption
        <5>. QED  BY <2>1, <3>1, <4>3, <5>2
      <4>5. c.start = 1 \/ Len(data) = n
        BY <1>1, <2>4, <3>1, <4>4 DEF Lesser
      <4>6. Size - 1 - Pending(c) = n + (c.start - 1)
        BY <1>1, <2>2, <4>1, SizeAssumption
      <4>7. Lesser(n + (c.start - 1), Len(data)) = n
        BY <1>1, <2>4, <3>1, <4>5 DEF Lesser
      <4>. QED  BY <4>4, <4>6, <4>7
    <3>. QED  BY <3>2, <3>3
  <2>. QED  BY <2>3, <2>4
<1>4. CASE ~(c.start > c.stop + 1) /\ ~(c.start <= c.stop)
  <2>1. w.taken = 0
    BY <1>4 DEF Written, Refused
  <2>2. Size - 1 - Pending(c) = 0
    BY <1>1, <1>4, SizeAssumption DEF Pending
  <2>. QED  BY <1>1, <2>1, <2>2 DEF Lesser
<1>. QED  BY <1>2, <1>3, <1>4

\* A read of a buffer that is not wrapped takes what has been unread longest,
\* as much of it as is asked for, and leaves the rest.
LEMMA ReadTakesFront ==
  ASSUME NEW Byte, NEW c \in Contexts(Byte), NEW len \in Nat, NEW r,
         c.start <= c.stop, r = ReadFrom(c, len)
  PROVE  /\ r.got \in Seq(Byte)
         /\ Len(r.got) = Lesser(Pending(c), len)
         /\ Unread(c) = r.got \o Unread(r.ctx)
<1>1. /\ c.start \in Nat /\ c.stop \in Nat /\ c.start < Size /\ c.stop < Size
      /\ Pending(c) = c.stop - c.start
  BY SizeAssumption DEF Contexts, Index, Pending
<1>2. /\ r.ctx \in Contexts(Byte) /\ r.ctx.buf = c.buf /\ r.got \in Seq(Byte)
      /\ r.ctx.stop = c.stop
      /\ r.ctx.start = c.start + Len(r.got)
      /\ r.ctx.start <= c.stop
      /\ \A k \in 1 .. Len(r.got) : r.got[k] = c.buf[c.start + k - 1]
  <2>1. ReadOK(Byte, c, r)
    BY ReadFromOK
  <2>. QED  BY <2>1 DEF ReadOK
<1>3. Len(r.got) = Lesser(Pending(c), len)
  <2>1. CASE c.start < c.stop
    <3>1. r.got = Fetch(c.buf, c.start, Lesser(c.stop - c.start, len))
      BY <2>1 DEF ReadFrom, ReadLinear
    <3>2. Lesser(c.stop - c.start, len) \in Nat
      BY <1>1, <2>1 DEF Lesser
    <3>. QED  BY <1>1, <3>1, <3>2 DEF Fetch
  <2>2. CASE c.start = c.stop
    <3>1. r.got = << >>
      BY <1>1, <2>2 DEF ReadFrom
    <3>. QED  BY <1>1, <2>2, <3>1 DEF Lesser
  <2>. QED  BY <1>1, <2>1, <2>2
<1>4. Pending(r.ctx) = Pending(c) - Len(r.got) /\ Len(r.got) \in Nat
  BY <1>1, <1>2 DEF Pending
<1>5. /\ Unread(c) \in Seq(Byte) /\ Len(Unread(c)) = Pending(c)
      /\ \A k \in 1 .. Pending(c) : Unread(c)[k] = c.buf[Place(c, k)]
  BY UnreadSpec
<1>6. /\ Unread(r.ctx) \in Seq(Byte) /\ Len(Unread(r.ctx)) = Pending(r.ctx)
      /\ \A k \in 1 .. Pending(r.ctx) : Unread(r.ctx)[k] = r.ctx.buf[Place(r.ctx, k)]
  BY <1>2, UnreadSpec
<1>7. \A k \in 1 .. Len(r.got) : Unread(c)[k] = r.got[k]
  <2>. SUFFICES ASSUME NEW k \in 1 .. Len(r.got) PROVE Unread(c)[k] = r.got[k]
    OBVIOUS
  <2>1. k \in 1 .. Pending(c)
    BY <1>1, <1>2, <1>4
  <2>2. Place(c, k) = c.start + k - 1
    BY <1>1, <2>1, SizeAssumption DEF Place
  <2>. QED  BY <1>2, <1>5, <2>1, <2>2
<1>8. \A k \in 1 .. Len(Unread(r.ctx)) : Unread(c)[Len(r.got) + k] = Unread(r.ctx)[k]
  <2>. SUFFICES ASSUME NEW k \in 1 .. Pending(r.ctx)
                PROVE  Unread(c)[Len(r.got) + k] = Unread(r.ctx)[k]
    BY <1>6
  <2>1. k \in Nat /\ Len(r.got) \in Nat /\ 1 <= k /\ k <= Pending(c) - Len(r.got)
    BY <1>1, <1>4
  <2>2. Len(r.got) + k \in 1 .. Pending(c)
    BY <1>1, <2>1
  <2>3. c.start + (Len(r.got) + k) - 1 < Size
    BY <1>1, <2>1, SizeAssumption
  <2>4. Place(c, Len(r.got) + k) = c.start + (Len(r.got) + k) - 1
    BY <2>3 DEF Place
  <2>5. r.ctx.start + k - 1 = c.start + (Len(r.got) + k) - 1
    <3>1. c.start + Len(r.got) + k - 1 = c.start + (Len(r.got) + k) - 1
      BY <1>1, <2>1
    <3>. QED  BY <1>2, <3>1
  <2>6. Place(r.ctx, k) = r.ctx.start + k - 1
    BY <2>3, <2>5 DEF Place
  <2>7. Unread(c)[Len(r.got) + k] = c.buf[Place(c, Len(r.got) + k)]
    BY <1>5, <2>2
  <2>8. Unread(r.ctx)[k] = c.buf[Place(r.ctx, k)]
    BY <1>2, <1>6
  <2>. QED  BY <2>4, <2>5, <2>6, <2>7, <2>8
<1>9. Len(Unread(c)) = Len(r.got) + Len(Unread(r.ctx))
  BY <1>1, <1>4, <1>5, <1>6
<1>10. Unread(c) = r.got \o Unread(r.ctx)
  BY <1>2, <1>5, <1>6, <1>7, <1>8, <1>9, IsConcat
<1>. QED  BY <1>2, <1>3, <1>10
=============================================================================
