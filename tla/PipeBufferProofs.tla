-------------------------- MODULE PipeBufferProofs --------------------------
(***************************************************************************)
(* Proofs about the circular buffer of PipeBuffer, for every Size, every   *)
(* length of request and any number of bytes, and about DeviceControl:     *)
(* device control leaves the pipes alone, so that all that is shown of     *)
(* PipeBuffer's specification holds of the driver with both.               *)
(***************************************************************************)
EXTENDS DeviceControl, PipeRingProofs, SequenceTheorems

\* Bytes that a writer offers: anything but Junk.
Datum == Byte \ {Junk}

\* The strengthening of NoJunkReadable is that of PipeRingProofs.
LEMMA FilledIs ==
  ASSUME NEW c \in Contexts(Byte)
  PROVE  Filled(c, Datum) <=>
           \/ \A i \in Index : c.buf[i] # Junk
           \/ /\ c.start <= c.stop
              /\ \A i \in Index : i < c.stop => c.buf[i] # Junk
<1>1. \A i \in Index : c.buf[i] \in Datum <=> c.buf[i] # Junk
  BY DEF Contexts, Datum
<1>. QED  BY <1>1 DEF Filled

-----------------------------------------------------------------------------
(***************************************************************************)
(* The inductive invariant.                                                *)
(***************************************************************************)
\* The empty pipe.
LEMMA InitInv == Init => IndInv
<1>. SUFFICES ASSUME Init PROVE IndInv
  OBVIOUS
<1>1. /\ ctx.start = 0 /\ ctx.stop = 0 /\ ctx.buf = [i \in Index |-> Junk]
      /\ ctx \in Contexts(Byte)
  BY SizeAssumption DEF Init, Opened, Contexts, Index, Byte, Junk
<1>2. TypeOK
  BY <1>1 DEF Init, TypeOK, Completed, Byte
<1>3. FilledBelowStop
  BY <1>1 DEF FilledBelowStop, Index
<1>4. FirstLapLayout
  <2>1. accepted = << >> /\ delivered = << >>
    BY DEF Init
  <2>2. Len(accepted) = 0 /\ Len(delivered) = 0
    BY <2>1
  <2>. QED  BY <1>1, <2>2 DEF FirstLapLayout, Index
<1>. QED  BY <1>2, <1>3, <1>4 DEF IndInv

\* The bytes of a write request.
LEMMA OfferedData ==
  ASSUME NEW len \in Nat, offered \in Nat
  PROVE  /\ [k \in 1 .. len |-> offered + k] \in Seq(Datum)
         /\ Len([k \in 1 .. len |-> offered + k]) = len
<1>1. [k \in 1 .. len |-> offered + k] \in [1 .. len -> Datum]
  BY DEF Datum, Byte, Junk
<1>. QED  BY <1>1

\* What a write of len > 0 bytes is, in terms of WriteOK.
LEMMA WriteStep ==
  ASSUME TypeOK, NEW len \in 0 .. MaxRequest, Write(len)
  PROVE  \E data \in Seq(Datum), w \in [ctx : Contexts(Byte), reported : Nat, taken : Nat] :
           /\ WriteOK(Byte, Datum, ctx, data, w)
           /\ ctx' = w.ctx
           /\ accepted' = accepted \o SubSeq(data, 1, w.taken)
           /\ delivered' = delivered
           /\ irp' = Completed("write", len, "success", w.reported)
           /\ offered' = offered + len
<1>. DEFINE data == [k \in 1 .. len |-> offered + k]
            w == IF len = 0 THEN Refused(ctx) ELSE Written(ctx, data)
<1>1. len \in Nat /\ ctx \in Contexts(Byte) /\ offered \in Nat
  BY BoundAssumption DEF TypeOK
<1>2. data \in Seq(Datum) /\ Len(data) = len
  BY <1>1, OfferedData
<1>3. /\ ctx' = w.ctx
      /\ accepted' = accepted \o SubSeq(data, 1, w.taken)
      /\ delivered' = delivered
      /\ irp' = Completed("write", len, "success", w.reported)
      /\ offered' = offered + len
  BY DEF Write
<1>4. WriteOK(Byte, Datum, ctx, data, w)
  <2>. HIDE DEF data
  <2>1. CASE len = 0
    <3>1. w = Refused(ctx)
      BY <2>1
    <3>2. ctx.stop \in Nat /\ ctx.stop < Size
      BY <1>1, SizeAssumption DEF Contexts, Index
    <3>3. WriteOK(Byte, Datum, ctx, data, Refused(ctx))
      BY <1>1, <1>2, <2>1, <3>2, SizeAssumption DEF WriteOK, Refused, Index, Contexts
    <3>. QED  BY <3>1, <3>3
  <2>2. CASE len # 0
    <3>1. Datum \subseteq Byte
      BY DEF Datum
    <3>. QED  BY <1>1, <1>2, <2>2, <3>1, WrittenOK
  <2>. QED  BY <2>1, <2>2
<1>. HIDE DEF data
<1>5. w \in [ctx : Contexts(Byte), reported : Nat, taken : Nat]
  <2>1. w.ctx \in Contexts(Byte) /\ w.reported \in Nat /\ w.taken \in Nat
    BY <1>2, <1>4 DEF WriteOK
  <2>2. w = [ctx |-> w.ctx, reported |-> w.reported, taken |-> w.taken]
    BY DEF Refused, Written, WriteGap, WriteToEnd
  <2>. HIDE DEF w
  <2>. QED  BY <2>1, <2>2
<1>. HIDE DEF w
<1>. QED  BY <1>2, <1>3, <1>4, <1>5

\* The concatenation of two sequences of bytes, by length and by element.
LEMMA ConcatSpec ==
  ASSUME NEW s \in Seq(Byte), NEW t \in Seq(Byte)
  PROVE  /\ s \o t \in Seq(Byte)
         /\ Len(s \o t) = Len(s) + Len(t)
         /\ \A k \in 1 .. Len(s) : (s \o t)[k] = s[k]
         /\ \A k \in 1 .. Len(t) : (s \o t)[Len(s) + k] = t[k]
OBVIOUS

\* The two parts of a concatenation.
LEMMA SplitsAt ==
  ASSUME NEW s \in Seq(Byte), NEW t \in Seq(Byte), NEW u, u = s \o t
  PROVE  SubSeq(u, 1, Len(s)) = s /\ SubSeq(u, Len(s) + 1, Len(u)) = t
<1>1. /\ u \in Seq(Byte) /\ Len(u) = Len(s) + Len(t)
      /\ \A k \in 1 .. Len(s) : u[k] = s[k]
      /\ \A k \in 1 .. Len(t) : u[Len(s) + k] = t[k]
  BY ConcatSpec
<1>2. SubSeq(u, 1, Len(s)) = s
  <2>. DEFINE v == SubSeq(u, 1, Len(s))
  <2>1. /\ v \in Seq(Byte) /\ Len(v) = Len(s)
        /\ \A k \in 1 .. Len(s) : v[k] = u[k]
    BY <1>1
  <2>. HIDE DEF v
  <2>2. v = s
    BY <1>1, <2>1, SeqEqual
  <2>. QED  BY <2>2 DEF v
<1>3. SubSeq(u, Len(s) + 1, Len(u)) = t
  <2>. DEFINE v == SubSeq(u, Len(s) + 1, Len(u))
  <2>1. /\ v \in Seq(Byte) /\ Len(v) = Len(t)
        /\ \A k \in 1 .. Len(t) : v[k] = u[Len(s) + k]
    BY <1>1
  <2>. HIDE DEF v
  <2>2. v = t
    BY <1>1, <2>1, SeqEqual
  <2>. QED  BY <2>2 DEF v
<1>. QED  BY <1>2, <1>3

\* A prefix of a sequence, by length and by element.
LEMMA PrefixSpec ==
  ASSUME NEW data \in Seq(Datum), NEW n \in 0 .. Len(data)
  PROVE  /\ SubSeq(data, 1, n) \in Seq(Byte)
         /\ Len(SubSeq(data, 1, n)) = n
         /\ \A k \in 1 .. n : SubSeq(data, 1, n)[k] = data[k]
<1>1. \A k \in 1 .. n : data[k] \in Byte
  BY DEF Datum
<1>. QED  BY <1>1

\* A write request keeps IndInv.
LEMMA WriteInv ==
  ASSUME IndInv, NEW len \in 0 .. MaxRequest, Write(len)
  PROVE  IndInv'
<1>. TypeOK /\ FilledBelowStop /\ FirstLapLayout
  BY DEF IndInv
<1>1. PICK data \in Seq(Datum), w \in [ctx : Contexts(Byte), reported : Nat, taken : Nat] :
           /\ WriteOK(Byte, Datum, ctx, data, w)
           /\ ctx' = w.ctx
           /\ accepted' = accepted \o SubSeq(data, 1, w.taken)
           /\ delivered' = delivered
           /\ irp' = Completed("write", len, "success", w.reported)
           /\ offered' = offered + len
  BY WriteStep
<1>2. /\ ctx.start \in Nat /\ ctx.stop \in Nat /\ ctx.start < Size /\ ctx.stop < Size
      /\ ctx.start \in Index /\ ctx.stop \in Index /\ Index \subseteq Nat
      /\ ctx.buf \in [Index -> Byte]
  BY SizeAssumption DEF TypeOK, Contexts, Index
<1>3. w.taken \in 0 .. Len(data) /\ w.taken \in Nat /\ ctx'.start = ctx.start
  BY <1>1 DEF WriteOK
<1>4. ctx.start <= ctx.stop /\ ctx.stop + w.taken < Size =>
        /\ ctx'.stop = ctx.stop + w.taken
        /\ \A i \in Index : i < ctx.stop => ctx'.buf[i] = ctx.buf[i]
        /\ \A i \in Index : ctx.stop <= i /\ i < ctx.stop + w.taken =>
             ctx'.buf[i] = data[i - ctx.stop + 1]
  BY <1>1 DEF WriteOK
<1>6. /\ accepted' \in Seq(Byte)
      /\ Len(accepted') = Len(accepted) + w.taken
      /\ \A k \in 1 .. Len(accepted) : accepted'[k] = accepted[k]
      /\ \A k \in 1 .. w.taken : accepted'[Len(accepted) + k] = data[k]
  BY <1>1, <1>3, ConcatSpec, PrefixSpec DEF TypeOK
<1>7. TypeOK'
  <2>1. len \in Nat /\ w.reported \in Nat /\ w.ctx \in Contexts(Byte)
    BY BoundAssumption
  <2>. QED  BY <1>1, <1>6, <2>1 DEF TypeOK, Completed
<1>8. FilledBelowStop'
  <2>1. Filled(ctx, Datum)
    BY FilledIs DEF TypeOK, FilledBelowStop
  <2>2. Filled(ctx', Datum)
    BY <1>1, <2>1, WriteKeepsFilled DEF TypeOK, Datum
  <2>3. ctx' \in Contexts(Byte)
    BY <1>7 DEF TypeOK
  <2>. QED  BY <2>2, <2>3, FilledIs DEF FilledBelowStop
<1>9. FirstLapLayout'
  <2>. SUFFICES ASSUME Len(accepted') < Size
                PROVE  /\ ctx'.start = Len(delivered')
                       /\ ctx'.stop = Len(accepted')
                       /\ ctx'.start <= ctx'.stop
                       /\ \A i \in Index : i < ctx'.stop => ctx'.buf[i] = accepted'[i + 1]
                       /\ \A k \in 1 .. Len(delivered') : delivered'[k] = accepted'[k]
    BY DEF FirstLapLayout
  <2>0. Len(accepted) \in Nat /\ Len(delivered) \in Nat
    BY DEF TypeOK
  <2>1. Len(accepted) < Size
    BY <1>3, <1>6, <2>0, SizeAssumption
  <2>2. /\ ctx.start = Len(delivered)
        /\ ctx.stop = Len(accepted)
        /\ ctx.start <= ctx.stop
        /\ \A i \in Index : i < ctx.stop => ctx.buf[i] = accepted[i + 1]
        /\ \A k \in 1 .. Len(delivered) : delivered[k] = accepted[k]
    BY <2>1 DEF FirstLapLayout
  <2>3. /\ ctx'.stop = ctx.stop + w.taken
        /\ \A i \in Index : i < ctx.stop => ctx'.buf[i] = ctx.buf[i]
        /\ \A i \in Index : ctx.stop <= i /\ i < ctx.stop + w.taken =>
             ctx'.buf[i] = data[i - ctx.stop + 1]
    BY <1>4, <1>6, <2>2
  <2>4. ASSUME NEW i \in Index, i < ctx'.stop
        PROVE  ctx'.buf[i] = accepted'[i + 1]
    <3>1. CASE i < ctx.stop
      <4>1. i + 1 \in 1 .. Len(accepted)
        BY <1>2, <2>0, <2>2, <3>1
      <4>. QED  BY <1>6, <2>2, <2>3, <3>1, <4>1
    <3>2. CASE ctx.stop <= i
      <4>1. i - ctx.stop + 1 \in 1 .. w.taken /\ Len(accepted) + (i - ctx.stop + 1) = i + 1
        BY <1>2, <1>3, <2>0, <2>2, <2>3, <2>4, <3>2
      <4>. QED  BY <1>2, <1>6, <2>3, <2>4, <3>2, <4>1
    <3>. QED  BY <1>2, <3>1, <3>2
  <2>5. \A k \in 1 .. Len(delivered') : delivered'[k] = accepted'[k]
    <3>1. delivered' = delivered /\ Len(delivered) <= Len(accepted)
      BY <1>1, <2>2
    <3>2. \A k \in 1 .. Len(delivered) : k \in 1 .. Len(accepted)
      BY <2>0, <3>1
    <3>. QED  BY <1>6, <2>2, <3>1, <3>2
  <2>6. delivered' = delivered /\ ctx'.start = ctx.start /\ Len(accepted') = Len(accepted) + w.taken
    BY <1>1, <1>3, <1>6
  <2>7. ctx.start <= ctx.stop + w.taken
    BY <1>2, <1>3, <2>2
  <2>. QED  BY <2>2, <2>3, <2>4, <2>5, <2>6, <2>7
<1>. QED  BY <1>7, <1>8, <1>9 DEF IndInv

\* What a read request is, in terms of ReadOK.
LEMMA ReadStep ==
  ASSUME TypeOK, NEW len \in 0 .. MaxRequest, Read(len)
  PROVE  \E r \in [ctx : Contexts(Byte), got : Seq(Byte)] :
           /\ ReadOK(Byte, ctx, r)
           /\ ctx' = r.ctx
           /\ delivered' = delivered \o r.got
           /\ irp' = Completed("read", len,
                               IF r.got = << >> THEN "buffer_too_small" ELSE "success",
                               Len(r.got))
           /\ UNCHANGED <<offered, accepted>>
<1>. DEFINE r == IF len = 0 THEN [ctx |-> ctx, got |-> << >>] ELSE ReadFrom(ctx, len)
<1>1. len \in Nat /\ ctx \in Contexts(Byte)
  BY BoundAssumption DEF TypeOK
<1>2. /\ ctx' = r.ctx
      /\ delivered' = delivered \o r.got
      /\ irp' = Completed("read", len,
                          IF r.got = << >> THEN "buffer_too_small" ELSE "success",
                          Len(r.got))
      /\ UNCHANGED <<offered, accepted>>
  BY DEF Read
<1>3. ReadOK(Byte, ctx, r)
  <2>1. CASE len = 0
    <3>1. ctx.start \in Nat /\ ctx.stop \in Nat
      BY <1>1, SizeAssumption DEF Contexts, Index
    <3>2. r.ctx = ctx /\ r.got = << >> /\ r.got \in Seq(Byte) /\ Len(r.got) = 0
      BY <2>1
    <3>. HIDE DEF r
    <3>. QED  BY <1>1, <3>1, <3>2 DEF ReadOK
  <2>2. CASE len # 0
    BY <1>1, <2>2, ReadFromOK
  <2>. QED  BY <2>1, <2>2
<1>4. r \in [ctx : Contexts(Byte), got : Seq(Byte)]
  <2>1. r.ctx \in Contexts(Byte) /\ r.got \in Seq(Byte)
    BY <1>3 DEF ReadOK
  <2>2. r = [ctx |-> r.ctx, got |-> r.got]
    BY DEF ReadFrom, ReadLinear, ReadToEnd
  <2>. HIDE DEF r
  <2>. QED  BY <2>1, <2>2
<1>. HIDE DEF r
<1>. QED  BY <1>2, <1>3, <1>4

\* A read request keeps IndInv.
LEMMA ReadInv ==
  ASSUME IndInv, NEW len \in 0 .. MaxRequest, Read(len)
  PROVE  IndInv'
<1>. TypeOK /\ FilledBelowStop /\ FirstLapLayout
  BY DEF IndInv
<1>1. PICK r \in [ctx : Contexts(Byte), got : Seq(Byte)] :
           /\ ReadOK(Byte, ctx, r)
           /\ ctx' = r.ctx
           /\ delivered' = delivered \o r.got
           /\ irp' = Completed("read", len,
                               IF r.got = << >> THEN "buffer_too_small" ELSE "success",
                               Len(r.got))
           /\ UNCHANGED <<offered, accepted>>
  BY ReadStep
<1>2. /\ ctx.start \in Nat /\ ctx.stop \in Nat /\ ctx.start < Size /\ ctx.stop < Size
      /\ Index \subseteq Nat /\ ctx.buf \in [Index -> Byte]
  BY SizeAssumption DEF TypeOK, Contexts, Index
<1>3. /\ ctx'.buf = ctx.buf
      /\ ctx.start <= ctx.stop =>
           /\ ctx'.stop = ctx.stop
           /\ ctx'.start = ctx.start + Len(r.got)
           /\ ctx'.start <= ctx.stop
           /\ \A k \in 1 .. Len(r.got) : r.got[k] = ctx.buf[ctx.start + k - 1]
  BY <1>1 DEF ReadOK
<1>4. /\ delivered' \in Seq(Byte)
      /\ Len(delivered') = Len(delivered) + Len(r.got)
      /\ \A k \in 1 .. Len(delivered) : delivered'[k] = delivered[k]
      /\ \A k \in 1 .. Len(r.got) : delivered'[Len(delivered) + k] = r.got[k]
  BY <1>1, ConcatSpec DEF TypeOK
<1>5. TypeOK'
  <2>1. len \in Nat /\ Len(r.got) \in Nat /\ r.ctx \in Contexts(Byte)
    BY BoundAssumption
  <2>. QED  BY <1>1, <1>4, <2>1 DEF TypeOK, Completed
<1>6. FilledBelowStop'
  BY <1>2, <1>3 DEF FilledBelowStop
<1>7. FirstLapLayout'
  <2>. SUFFICES ASSUME Len(accepted) < Size
                PROVE  /\ ctx'.start = Len(delivered')
                       /\ ctx'.stop = Len(accepted)
                       /\ ctx'.start <= ctx'.stop
                       /\ \A i \in Index : i < ctx'.stop => ctx'.buf[i] = accepted[i + 1]
                       /\ \A k \in 1 .. Len(delivered') : delivered'[k] = accepted[k]
    BY <1>1 DEF FirstLapLayout
  <2>0. Len(delivered) \in Nat /\ Len(r.got) \in Nat
    BY DEF TypeOK
  <2>1. /\ ctx.start = Len(delivered)
        /\ ctx.stop = Len(accepted)
        /\ ctx.start <= ctx.stop
        /\ \A i \in Index : i < ctx.stop => ctx.buf[i] = accepted[i + 1]
        /\ \A k \in 1 .. Len(delivered) : delivered[k] = accepted[k]
    BY DEF FirstLapLayout
  <2>2. ASSUME NEW k \in 1 .. Len(delivered')
        PROVE  delivered'[k] = accepted[k]
    <3>1. CASE k <= Len(delivered)
      BY <1>4, <2>0, <2>1, <3>1
    <3>2. CASE k > Len(delivered)
      <4>. DEFINE j == k - Len(delivered)
      <4>1. j \in 1 .. Len(r.got) /\ Len(delivered) + j = k
        BY <1>4, <2>0, <3>2
      <4>2. /\ ctx.start + j - 1 \in Index /\ ctx.start + j - 1 < ctx.stop
            /\ ctx.start + j - 1 = k - 1 /\ (k - 1) + 1 = k
        BY <1>2, <1>3, <2>0, <2>1, <4>1, SizeAssumption DEF Index
      <4>3. delivered'[k] = r.got[j]
        BY <1>4, <4>1
      <4>4. r.got[j] = ctx.buf[ctx.start + j - 1]
        BY <1>3, <2>1, <4>1
      <4>5. ctx.buf[k - 1] = accepted[(k - 1) + 1]
        BY <2>1, <4>2
      <4>. HIDE DEF j
      <4>. QED  BY <4>2, <4>3, <4>4, <4>5
    <3>. QED  BY <2>0, <3>1, <3>2
  <2>. QED  BY <1>3, <1>4, <2>1, <2>2
<1>. QED  BY <1>5, <1>6, <1>7 DEF IndInv

(***************************************************************************)
(* For every Size and every sequence of requests the indices stay inside   *)
(* the circular buffer, and the layout facts hold.                         *)
(***************************************************************************)
THEOREM InvHolds == Spec => []IndInv
<1>1. Init => IndInv
  BY InitInv
<1>2. IndInv /\ [Next]_vars => IndInv'
  <2>. SUFFICES ASSUME IndInv, [Next]_vars PROVE IndInv'
    OBVIOUS
  <2>1. ASSUME NEW len \in 0 .. MaxRequest, Write(len) PROVE IndInv'
    BY <2>1, WriteInv
  <2>2. ASSUME NEW len \in 0 .. MaxRequest, Read(len) PROVE IndInv'
    BY <2>2, ReadInv
  <2>3. CASE UNCHANGED vars
    BY <2>3 DEF vars, IndInv, TypeOK, FilledBelowStop, FirstLapLayout
  <2>. QED  BY <2>1, <2>2, <2>3 DEF Next
<1>. QED  BY <1>1, <1>2, PTL DEF Spec

\* The indices of the pipe context never leave pcCircularBuffer, whatever is
\* written and read: readPipeContext and writePipeContext copy inside it.
THEOREM TypeCorrect == Spec => []TypeOK
<1>1. IndInv => TypeOK
  BY DEF IndInv
<1>. QED  BY <1>1, InvHolds, PTL

\* No read of a pipe returns what its pool block held before the pipe existed.
THEOREM NoJunk == Spec => []NoJunkReadable
<1>1. IndInv => NoJunkReadable
  <2>. SUFFICES ASSUME IndInv, NEW i \in Readable(ctx) PROVE ctx.buf[i] # Junk
    BY DEF NoJunkReadable
  <2>1. ctx.start \in Int /\ ctx.stop \in Int /\ Index \subseteq Int
    BY SizeAssumption DEF IndInv, TypeOK, Contexts, Index
  <2>. QED  BY <2>1 DEF IndInv, FilledBelowStop, Readable
<1>. QED  BY <1>1, InvHolds, PTL

\* writePipeContext never overwrites, drops or reorders a byte that is waiting
\* to be read.
THEOREM WritesKeepUnread == Spec => WriteKeepsUnread
<1>. DEFINE A == irp'.op = "write" =>
                   /\ ctx'.start = ctx.start
                   /\ \A i \in Readable(ctx) :
                        i \in Readable(ctx') /\ ctx'.buf[i] = ctx.buf[i]
<1>1. TypeOK /\ [Next]_vars => [A]_vars
  <2>. SUFFICES ASSUME TypeOK, Next PROVE A
    BY DEF vars
  <2>1. ASSUME NEW len \in 0 .. MaxRequest, Write(len) PROVE A
    <3>1. PICK data \in Seq(Datum), w \in [ctx : Contexts(Byte), reported : Nat, taken : Nat] :
             WriteOK(Byte, Datum, ctx, data, w) /\ ctx' = w.ctx
      BY <2>1, WriteStep
    <3>. QED  BY <3>1 DEF WriteOK
  <2>2. ASSUME NEW len \in 0 .. MaxRequest, Read(len) PROVE A
    <3>1. irp'.op = "read"
      BY <2>2 DEF Read, Completed
    <3>. QED  BY <3>1
  <2>. QED  BY <2>1, <2>2 DEF Next
<1>. QED  BY <1>1, TypeCorrect, PTL DEF Spec, WriteKeepsUnread

\* A write that takes any byte leaves the pipe readable: a full buffer is never
\* mistaken for an empty one.
THEOREM FullNeverEmpty == Spec => FullIsNotEmpty
<1>. DEFINE A == (irp'.op = "write" /\ accepted' # accepted) => ctx'.start # ctx'.stop
<1>1. TypeOK /\ [Next]_vars => [A]_vars
  <2>. SUFFICES ASSUME TypeOK, Next PROVE A
    BY DEF vars
  <2>1. ASSUME NEW len \in 0 .. MaxRequest, Write(len), accepted' # accepted
        PROVE  ctx'.start # ctx'.stop
    <3>1. PICK data \in Seq(Datum), w \in [ctx : Contexts(Byte), reported : Nat, taken : Nat] :
             /\ WriteOK(Byte, Datum, ctx, data, w) /\ ctx' = w.ctx
             /\ accepted' = accepted \o SubSeq(data, 1, w.taken)
      BY <2>1, WriteStep
    <3>2. w.taken # 0
      <4>1. SubSeq(data, 1, 0) = << >> /\ accepted \o << >> = accepted
        BY DEF TypeOK
      <4>. QED  BY <2>1, <3>1, <4>1
    <3>. QED  BY <3>1, <3>2 DEF WriteOK
  <2>2. ASSUME NEW len \in 0 .. MaxRequest, Read(len) PROVE A
    <3>1. irp'.op = "read"
      BY <2>2 DEF Read, Completed
    <3>. QED  BY <3>1
  <2>. QED  BY <2>1, <2>2 DEF Next
<1>. QED  BY <1>1, TypeCorrect, PTL DEF Spec, FullIsNotEmpty

\* Until stop goes round for the first time, the pipe is a FIFO.
THEOREM FirstLapIsFifo == Spec => []FirstLapFifo
<1>1. IndInv => FirstLapFifo
  <2>. SUFFICES ASSUME IndInv, Len(accepted) < Size
                PROVE  delivered \o Unread(ctx) = accepted
    BY DEF FirstLapFifo
  <2>. DEFINE n == ctx.stop - ctx.start
              u == Unread(ctx)
  <2>1. /\ ctx.start \in Nat /\ ctx.stop \in Nat /\ ctx.stop < Size
        /\ ctx.buf \in [Index -> Byte]
        /\ accepted \in Seq(Byte) /\ delivered \in Seq(Byte)
    BY SizeAssumption DEF IndInv, TypeOK, Contexts, Index
  <2>2. /\ ctx.start = Len(delivered)
        /\ ctx.stop = Len(accepted)
        /\ ctx.start <= ctx.stop
        /\ \A i \in Index : i < ctx.stop => ctx.buf[i] = accepted[i + 1]
        /\ \A k \in 1 .. Len(delivered) : delivered[k] = accepted[k]
    BY DEF IndInv, FirstLapLayout
  <2>3. n \in Nat
    BY <2>1, <2>2
  <2>4. u = [k \in 1 .. n |-> ctx.buf[IF ctx.start + k - 1 < Size THEN ctx.start + k - 1
                                       ELSE ctx.start + k - 1 - Size]]
    BY <2>2 DEF Unread
  <2>5. \A k \in 1 .. n : /\ ctx.start + k - 1 \in Index
                           /\ ctx.start + k - 1 < ctx.stop
                           /\ ctx.start + k - 1 < Size
                           /\ (ctx.start + k - 1) + 1 = ctx.start + k
    BY <2>1, <2>2, SizeAssumption DEF Index
  <2>. HIDE DEF u, n
  <2>6. \A k \in 1 .. n : u[k] = ctx.buf[ctx.start + k - 1]
    BY <2>4, <2>5
  <2>7. u \in [1 .. n -> Byte]
    BY <2>1, <2>4, <2>5
  <2>8. u \in Seq(Byte) /\ Len(u) = n
    BY <2>3, <2>7
  <2>9. /\ delivered \o u \in Seq(Byte)
        /\ Len(delivered \o u) = Len(delivered) + n
        /\ \A k \in 1 .. Len(delivered) : (delivered \o u)[k] = delivered[k]
        /\ \A k \in 1 .. n : (delivered \o u)[Len(delivered) + k] = u[k]
    BY <2>1, <2>8, ConcatSpec
  <2>10. Len(delivered \o u) = Len(accepted)
    BY <2>1, <2>2, <2>9 DEF n
  <2>11. ASSUME NEW k \in 1 .. Len(accepted)
         PROVE  (delivered \o u)[k] = accepted[k]
    <3>1. CASE k <= Len(delivered)
      BY <2>1, <2>2, <2>9, <3>1
    <3>2. CASE k > Len(delivered)
      <4>. DEFINE j == k - Len(delivered)
      <4>1. j \in 1 .. n /\ Len(delivered) + j = k /\ ctx.start + j = k
        BY <2>1, <2>2, <3>2 DEF n
      <4>. HIDE DEF j
      <4>2. (delivered \o u)[k] = ctx.buf[ctx.start + j - 1]
        BY <2>6, <2>9, <4>1
      <4>3. ctx.buf[ctx.start + j - 1] = accepted[(ctx.start + j - 1) + 1]
        BY <2>2, <2>5, <4>1
      <4>. QED  BY <2>5, <4>1, <4>2, <4>3
    <3>3. k <= Len(delivered) \/ k > Len(delivered)
      BY <2>1
    <3>. QED  BY <3>1, <3>2, <3>3
  <2>12. delivered \o u = accepted
    BY <2>1, <2>9, <2>10, <2>11, SeqEqual
  <2>. QED  BY <2>12 DEF u
<1>. QED  BY <1>1, InvHolds, PTL

-----------------------------------------------------------------------------
(***************************************************************************)
(* The pipe as a queue of at most Size - 1 bytes, and the two branches     *)
(* that are not one: the second copy of a write, which gives data from the *)
(* beginning again, and the read of a wrapped buffer, which moves the      *)
(* wrong index.                                                            *)
(***************************************************************************)
\* A write of len bytes to such a queue: it takes as many as it has room for,
\* from the front of what is offered.
QueueWrite(len) ==
  LET data == [k \in 1 .. len |-> offered + k]
      n    == Lesser(Size - 1 - Len(Unread(ctx)), len)
  IN  /\ accepted' = accepted \o SubSeq(data, 1, n)
      /\ Unread(ctx') = Unread(ctx) \o SubSeq(data, 1, n)
      /\ delivered' = delivered

\* A read of len bytes: as many as are there, those that came first.
QueueRead(len) ==
  LET n == Lesser(Len(Unread(ctx)), len)
  IN  /\ delivered' = delivered \o SubSeq(Unread(ctx), 1, n)
      /\ Unread(ctx') = SubSeq(Unread(ctx), n + 1, Len(Unread(ctx)))
      /\ accepted' = accepted
      /\ irp'.information = n

\* The write that comes to the end of the block and goes on at its beginning.
SecondCopy ==
  /\ irp'.op = "write"
  /\ ctx.start <= ctx.stop
  /\ ctx.stop + (Len(accepted') - Len(accepted)) > Size

\* The read of a buffer whose unread bytes go round the end of the block.
WrappedRead == irp'.op = "read" /\ ctx.start > ctx.stop

\* A pipe loses, repeats and reorders nothing, in any lap, but in the two
\* branches of drvFunc.c:543 and drvFunc.c:739: every other request is one of a
\* bounded queue, which takes what it has room for and gives what it holds.
QueueSteps ==
  [][\E len \in 0 .. MaxRequest :
       QueueWrite(len) \/ QueueRead(len) \/ SecondCopy \/ WrappedRead]_vars

\* A write request that makes no second copy.
LEMMA WriteIsQueueWrite ==
  ASSUME TypeOK, NEW len \in 0 .. MaxRequest, Write(len)
  PROVE  QueueWrite(len) \/ SecondCopy
<1>. DEFINE data == [k \in 1 .. len |-> offered + k]
            w == IF len = 0 THEN Refused(ctx) ELSE Written(ctx, data)
<1>1. len \in Nat /\ ctx \in Contexts(Byte) /\ offered \in Nat /\ accepted \in Seq(Byte)
  BY BoundAssumption DEF TypeOK
<1>2. data \in Seq(Byte) /\ Len(data) = len
  <2>1. data \in Seq(Datum) /\ Len(data) = len
    BY <1>1, OfferedData
  <2>2. Seq(Datum) \subseteq Seq(Byte)
    BY DEF Datum
  <2>. QED  BY <2>1, <2>2
<1>3. /\ ctx' = w.ctx
      /\ accepted' = accepted \o SubSeq(data, 1, w.taken)
      /\ delivered' = delivered
      /\ irp'.op = "write"
  BY DEF Write, Completed
<1>4. /\ Unread(ctx) \in Seq(Byte) /\ Len(Unread(ctx)) = Pending(ctx)
      /\ Pending(ctx) \in Nat /\ Pending(ctx) < Size
  BY <1>1, UnreadSpec
<1>5. CASE len = 0
  <2>1. w.ctx = ctx /\ w.taken = 0
    BY <1>5 DEF Refused
  <2>2. Lesser(Size - 1 - Len(Unread(ctx)), len) = 0
    BY <1>4, <1>5, SizeAssumption DEF Lesser
  <2>3. SubSeq(data, 1, 0) = << >>
    OBVIOUS
  <2>4. Unread(ctx) \o << >> = Unread(ctx)
    BY <1>4
  <2>. HIDE DEF w
  <2>5. Unread(ctx') = Unread(ctx)
    BY <1>3, <2>1
  <2>. QED  BY <1>3, <2>1, <2>2, <2>3, <2>4, <2>5 DEF QueueWrite
<1>6. CASE len # 0 /\ OneCopy(ctx, w)
  <2>1. w = Written(ctx, data)
    BY <1>6
  <2>. HIDE DEF data, w
  <2>2. Unread(w.ctx) = Unread(ctx) \o SubSeq(data, 1, w.taken)
    BY <1>1, <1>2, <1>6, <2>1, WriteAppends
  <2>3. w.taken = Lesser(Size - 1 - Len(Unread(ctx)), len)
    BY <1>1, <1>2, <1>4, <1>6, <2>1, WriteTakesRoom
  <2>. QED  BY <1>3, <2>2, <2>3 DEF QueueWrite, data
<1>7. CASE len # 0 /\ ~OneCopy(ctx, w)
  <2>1. w = Written(ctx, data)
    BY <1>7
  <2>. HIDE DEF data, w
  <2>2. w.taken \in 0 .. Len(data)
    BY <1>1, <1>2, <2>1, WrittenOK DEF WriteOK
  <2>3. Len(accepted') = Len(accepted) + w.taken
    <3>1. SubSeq(data, 1, w.taken) \in Seq(Byte) /\ Len(SubSeq(data, 1, w.taken)) = w.taken
      BY <1>2, <2>2
    <3>. QED  BY <1>1, <1>3, <3>1
  <2>4. /\ ctx.start <= ctx.stop /\ ~(ctx.stop + w.taken <= Size)
        /\ ctx.stop \in Nat /\ w.taken \in Nat /\ Len(accepted) \in Nat
    BY <1>1, <1>2, <1>7, <2>2, SizeAssumption DEF OneCopy, Contexts, Index
  <2>. QED  BY <1>3, <2>3, <2>4, SizeAssumption DEF SecondCopy
<1>. QED  BY <1>5, <1>6, <1>7

\* A read request on a buffer that is not wrapped.
LEMMA ReadIsQueueRead ==
  ASSUME TypeOK, NEW len \in 0 .. MaxRequest, Read(len)
  PROVE  QueueRead(len) \/ WrappedRead
<1>. DEFINE out == IF len = 0 THEN [ctx |-> ctx, got |-> << >>] ELSE ReadFrom(ctx, len)
            held == Unread(ctx)
<1>1. len \in Nat /\ ctx \in Contexts(Byte)
  BY BoundAssumption DEF TypeOK
<1>2. /\ ctx' = out.ctx
      /\ delivered' = delivered \o out.got
      /\ accepted' = accepted
      /\ irp'.op = "read" /\ irp'.information = Len(out.got)
  BY DEF Read, Completed
<1>3. CASE ctx.start > ctx.stop
  BY <1>2, <1>3 DEF WrappedRead
<1>4. CASE ~(ctx.start > ctx.stop)
  <2>1. ctx.start <= ctx.stop
    BY <1>1, <1>4, SizeAssumption DEF Contexts, Index
  <2>2. held \in Seq(Byte) /\ Len(held) = Pending(ctx)
    BY <1>1, UnreadSpec
  <2>3. /\ out.got \in Seq(Byte) /\ Unread(out.ctx) \in Seq(Byte)
        /\ Len(out.got) = Lesser(Len(held), len)
        /\ held = out.got \o Unread(out.ctx)
    <3>1. CASE len = 0
      <4>1. out.ctx = ctx /\ out.got = << >>
        BY <3>1
      <4>2. Lesser(Len(held), 0) = 0
        BY <2>2 DEF Lesser
      <4>. HIDE DEF out
      <4>. QED  BY <2>2, <3>1, <4>1, <4>2
    <3>2. CASE len # 0
      <4>1. out = ReadFrom(ctx, len)
        BY <3>2
      <4>. HIDE DEF out
      <4>2. out.ctx \in Contexts(Byte)
        BY <1>1, <4>1, ReadFromOK DEF ReadOK
      <4>3. Unread(out.ctx) \in Seq(Byte)
        BY <4>2, UnreadSpec
      <4>4. out.got \in Seq(Byte)
        BY <1>1, <2>1, <4>1, ReadTakesFront
      <4>5. Len(out.got) = Lesser(Pending(ctx), len)
        BY <1>1, <2>1, <4>1, ReadTakesFront
      <4>6. Unread(ctx) = out.got \o Unread(out.ctx)
        BY <1>1, <2>1, <4>1, ReadTakesFront
      <4>. QED  BY <2>2, <4>3, <4>4, <4>5, <4>6
    <3>. QED  BY <3>1, <3>2
  <2>. HIDE DEF out, held
  <2>4. PICK got \in Seq(Byte), rest \in Seq(Byte), all \in Seq(Byte) :
           got = out.got /\ rest = Unread(out.ctx) /\ all = held
    BY <2>2, <2>3
  <2>5. all = got \o rest
    BY <2>3, <2>4
  <2>6. SubSeq(all, 1, Len(got)) = got /\ SubSeq(all, Len(got) + 1, Len(all)) = rest
    BY <2>5, SplitsAt
  <2>. QED  BY <1>2, <2>3, <2>4, <2>6 DEF QueueRead, held
<1>. QED  BY <1>3, <1>4

\* In every behaviour of the driver a request is one of a bounded queue, or
\* takes one of the two branches.
THEOREM RequestsAreOfAQueue == Spec => QueueSteps
<1>. DEFINE A == \E len \in 0 .. MaxRequest :
                   QueueWrite(len) \/ QueueRead(len) \/ SecondCopy \/ WrappedRead
<1>1. TypeOK /\ [Next]_vars => [A]_vars
  <2>. SUFFICES ASSUME TypeOK, Next PROVE A
    BY DEF vars
  <2>1. ASSUME NEW len \in 0 .. MaxRequest, Write(len) PROVE A
    BY <2>1, WriteIsQueueWrite
  <2>2. ASSUME NEW len \in 0 .. MaxRequest, Read(len) PROVE A
    BY <2>2, ReadIsQueueRead
  <2>. QED  BY <2>1, <2>2 DEF Next
<1>. QED  BY <1>1, TypeCorrect, PTL DEF Spec, QueueSteps

-----------------------------------------------------------------------------
\* handleDeviceIoControl and handleUnsupportedFunction touch no pipe context: the driver
\* behaves as the pipe of PipeBuffer.
THEOREM ControlKeepsPipes == ControlSpec => Spec
<1>1. ControlInit => Init
  BY DEF ControlInit
<1>2. [ControlNext]_controlVars => [Next]_vars
  BY DEF ControlNext, Control, controlVars
<1>3. QED
  BY <1>1, <1>2, PTL DEF ControlSpec, Spec

\* Hence no read returns a byte that was not written, whatever requests come in between.
THEOREM NoJunkWithControl == ControlSpec => []NoJunkReadable
  BY ControlKeepsPipes, NoJunk, PTL
=============================================================================
