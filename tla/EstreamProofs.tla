---------------------------- MODULE EstreamProofs ----------------------------
(***************************************************************************)
(* Theorems about a stream of Estream, for every buffer size, request,     *)
(* offset and number of calls and faults.  First the type invariant and    *)
(* the bounds of the buffer, for an object that seeks or that is only read *)
(* or only written.  Then what the stream does with the bytes it is given  *)
(* and asked for: no failure but that of a flush event is swallowed, a     *)
(* read falls short only at the end of the object, and what is written     *)
(* reaches an object that cannot seek, every byte after those written      *)
(* before it.                                                              *)
(***************************************************************************)
EXTENDS Estream, SequenceTheorems, TLAPS

ReadLabels  == {"es_read_nbf", "es_read_fbf", "es_fill"}
WriteLabels == {"es_write_nbf", "es_write_lbf", "es_write_fbf", "write_copy"}

(* Which call is in which function.                                        *)
ControlInv ==
  /\ op \in Ops \cup {"fclose", "none"}
  /\ pc \in {"es_readn", "es_read_nbf", "es_read_fbf"} => op = "read"
  /\ pc \in {"doreadline", "es_peek"} => op = "getline"
  /\ pc = "es_fill" => op \in {"read", "getline"}
  /\ pc = "es_seek" => op \in {"write", "fseek"} /\ (op = "write" => ~ writing)
  /\ pc \in WriteLabels \cup {"es_writen"} => op = "write"
  /\ pc = "do_fflush" => op = "fflush"
  /\ pc \in {"es_set_buffering", "new_buffer"} => op = "setvbuf"
  /\ pc \in {"es_deinitialize", "func_close"} => op = "fclose"
  /\ pc = "switch" => op \in {"read", "getline", "fseek"}
  /\ pc = "es_flush" /\ cont = "switch" => op \in {"read", "getline", "fseek"}
  /\ pc = "es_flush" /\ cont = "new_buffer" => op = "setvbuf"
  /\ pc = "es_flush" =>
       /\ cont \in {"es_write_nbf", "write_copy"} <=> op = "write"
       /\ cont = "func_close" <=> op = "fclose"
  /\ stored => /\ op = "write"
               /\ pc \in {"es_write_nbf", "es_write_fbf", "write_copy",
                          "es_flush", "out", "aborted"}

(* What the buffer holds in which function.                                *)
ContentInv ==
  /\ data_offset <= buffer_size /\ data_len <= buffer_size
  /\ HoldsOutput => data_len = 0
  /\ ~ HoldsOutput => data_offset <= data_len
  /\ flushed <= data_offset
  /\ flushed # 0 => pc = "es_flush" /\ writing
  /\ pc \in ReadLabels => ~ writing
  /\ pc = "switch" => writing /\ data_offset = 0
  /\ pc = "new_buffer" => data_offset = 0 /\ data_len = 0
  /\ pc \in WriteLabels /\ ~ HoldsOutput => data_offset = 0 /\ data_len = 0
  /\ ~ Seekable /\ "write" \in Ops => data_len = 0

(* The inductive invariant.                                                *)
IInv == TypeOK /\ ControlInv /\ ContentInv

-----------------------------------------------------------------------------
(* Slicing a sequence of bytes gives a sequence of bytes, of the length    *)
(* the offsets say: SubSeq as es_write and es_read use it.                 *)
LEMMA SubSeqBytes ==
  ASSUME NEW s \in Seq(Int), NEW m \in Nat \ {0}, NEW n \in Int, n <= Len(s)
  PROVE  /\ SubSeq(s, m, n) \in Seq(Int)
         /\ Len(SubSeq(s, m, n)) = IF m <= n THEN n - m + 1 ELSE 0
<1>1. \A i \in m .. n : s[i] \in Int
  BY ElementOfSeq
<1> QED
  BY <1>1, SubSeqProperties

(* Storing bytes at an offset gives a sequence of bytes, lengthened only   *)
(* by what reaches past its end.                                           *)
LEMMA OverlayBytes ==
  ASSUME NEW f \in Seq(Int), NEW p \in Nat, NEW s \in Seq(Int)
  PROVE  /\ Overlay(f, p, s) \in Seq(Int)
         /\ p + Len(s) <= Len(f) => Len(Overlay(f, p, s)) = Len(f)
<1>1. CASE s = <<>>
  BY <1>1 DEF Overlay
<1>2. CASE s # <<>>
  <2> DEFINE n == IF Len(f) > p + Len(s) THEN Len(f) ELSE p + Len(s)
             e(i) == IF i > p /\ i <= p + Len(s) THEN s[i - p]
                     ELSE IF i <= Len(f) THEN f[i] ELSE 0
  <2>1. n \in Nat /\ (p + Len(s) <= Len(f) => n = Len(f))
    BY LenProperties
  <2>2. \A i \in 1 .. n : e(i) \in Int
    <3> TAKE i \in 1 .. n
    <3>1. CASE i > p /\ i <= p + Len(s)
      <4>1. i - p \in 1 .. Len(s)
        BY <3>1, <2>1, LenProperties
      <4> QED  BY <3>1, <4>1, ElementOfSeq
    <3>2. CASE ~ (i > p /\ i <= p + Len(s)) /\ i <= Len(f)
      <4>1. i \in 1 .. Len(f)
        BY <3>2, <2>1, LenProperties
      <4> QED  BY <3>2, <4>1, ElementOfSeq
    <3>3. CASE ~ (i > p /\ i <= p + Len(s)) /\ ~ i <= Len(f)
      BY <3>3
    <3> QED  BY <3>1, <3>2, <3>3
  <2>3. Overlay(f, p, s) = [i \in 1 .. n |-> e(i)]
    BY <1>2 DEF Overlay, Larger
  <2> HIDE DEF n, e
  <2>4. [i \in 1 .. n |-> e(i)] \in [1 .. n -> Int]
    BY <2>2
  <2>5. [i \in 1 .. n |-> e(i)] \in Seq(Int)
    BY <2>1, <2>4, SeqDef
  <2>6. Len([i \in 1 .. n |-> e(i)]) = n
    BY <2>1, <2>5, LenProperties
  <2> QED  BY <2>1, <2>3, <2>5, <2>6
<1> QED  BY <1>1, <1>2

(* What is copied out of the buffer is a sequence of bytes of that length. *)
LEMMA BufferBytesBytes ==
  ASSUME buffer \in Seq(Int), NEW i \in Nat, NEW j \in Nat
  PROVE  /\ BufferBytes(i, j) \in Seq(Int)
         /\ Len(BufferBytes(i, j)) = IF i <= j THEN j - i ELSE 0
<1> DEFINE n == IF i <= j THEN j - i ELSE 0
           e(k) == IF i + k \in DOMAIN buffer THEN buffer[i + k] ELSE Junk
<1>1. n \in Nat /\ 1 .. j - i = 1 .. n
  OBVIOUS
<1>2. \A k \in 1 .. n : e(k) \in Int
  BY LenProperties, ElementOfSeq DEF Junk
<1>3. BufferBytes(i, j) = [k \in 1 .. n |-> e(k)]
  BY <1>1 DEF BufferBytes
<1> HIDE DEF n, e
<1>4. [k \in 1 .. n |-> e(k)] \in [1 .. n -> Int]
  BY <1>2
<1>5. [k \in 1 .. n |-> e(k)] \in Seq(Int)
  BY <1>1, <1>4, SeqDef
<1>6. Len([k \in 1 .. n |-> e(k)]) = n
  BY <1>1, <1>5, LenProperties
<1> QED  BY <1>3, <1>5, <1>6 DEF n

(* A buffer that was never written is a sequence of bytes of its size.     *)
LEMMA FreshBufferBytes ==
  ASSUME NEW n \in Nat
  PROVE  /\ [i \in 1 .. n |-> Junk] \in Seq(Int)
         /\ Len([i \in 1 .. n |-> Junk]) = n
<1>1. [i \in 1 .. n |-> Junk] \in [1 .. n -> Int]
  BY DEF Junk
<1>2. [i \in 1 .. n |-> Junk] \in Seq(Int)
  BY <1>1, SeqDef
<1> QED  BY <1>2, LenProperties

-----------------------------------------------------------------------------
(* The initial states satisfy the invariant.                               *)
LEMMA IInvInit == Init => IInv
<1> SUFFICES ASSUME Init PROVE IInv
  OBVIOUS
<1>1. BlockSize \in Nat /\ buffer \in Seq(Int) /\ Len(buffer) = BlockSize
  BY SizeAssumption, FreshBufferBytes DEF Init
<1>2. TypeOK
  <2>1. <<>> \in Seq(Int)
    BY EmptySeq
  <2>2. calls \in 0 .. MaxCalls /\ faults \in 0 .. MaxFaults
    BY BoundAssumption DEF Init
  <2> QED
    BY <1>1, <2>1, <2>2, FileAssumption
       DEF Init, TypeOK, Labels, FlushTargets, AllModes, AllOps
<1>3. ControlInv
  BY DEF Init, ControlInv, WriteLabels
<1>4. ContentInv
  BY <1>1 DEF Init, ContentInv, HoldsOutput, buffer_size, Seekable, ReadLabels, WriteLabels
<1> QED  BY <1>2, <1>3, <1>4 DEF IInv

(* An object's write function leaves sequences of bytes behind.            *)
LEMMA WriteTakesBytes ==
  ASSUME TypeOK, NEW s \in Seq(Int), NEW n \in 0 .. Len(s), WriteTakes(s, n)
  PROVE  /\ file' \in Seq(Int) /\ kpos' \in Nat /\ sink' \in Seq(Int)
         /\ faults' \in 0 .. MaxFaults /\ faulted' \in BOOLEAN
         /\ UNCHANGED <<calls, fresh>>
<1> DEFINE t == SubSeq(s, 1, n)
<1>1. t \in Seq(Int) /\ Len(t) \in Nat
  BY SubSeqBytes, LenProperties
<1>2. StoreOutput(t)
  BY DEF WriteTakes
<1> HIDE DEF t
<1>3. /\ Overlay(file, kpos, t) \in Seq(Int) /\ file \o t \in Seq(Int)
      /\ sink \o t \in Seq(Int) /\ Len(file) \in Nat
  BY <1>1, OverlayBytes, ConcatProperties, LenProperties DEF TypeOK
<1>4. file' \in Seq(Int) /\ kpos' \in Nat /\ sink' \in Seq(Int)
  <2>0. kpos \in Nat /\ file \in Seq(Int) /\ sink \in Seq(Int)
    BY DEF TypeOK
  <2>1. CASE Kind = "file" /\ file' = Overlay(file, kpos, t) /\ kpos' = kpos + Len(t)
             /\ sink' = sink
    BY <1>1, <1>3, <2>0, <2>1
  <2>2. CASE Kind = "append" /\ file' = file \o t /\ sink' = sink
             /\ kpos' = IF t = <<>> THEN kpos ELSE Len(file) + Len(t)
    <3>1. file' \in Seq(Int) BY <1>3, <2>2
    <3>2. kpos' \in Nat BY <1>1, <1>3, <2>0, <2>2
    <3>3. sink' \in Seq(Int) BY <2>0, <2>2
    <3> QED BY <3>1, <3>2, <3>3
  <2>3. CASE file' = file /\ kpos' = kpos
             /\ sink' = IF "over" \in Faults THEN sink ELSE sink \o t
    BY <1>3, <2>0, <2>3
  <2> QED  BY <1>2, <2>1, <2>2, <2>3 DEF StoreOutput
<1>5. faults' \in 0 .. MaxFaults /\ faulted' \in BOOLEAN /\ UNCHANGED <<calls, fresh>>
  BY BoundAssumption DEF WriteTakes, TypeOK
<1> QED  BY <1>4, <1>5

(* An object's read function hands out bytes it holds.                     *)
LEMMA ReadTakesBytes ==
  ASSUME TypeOK, NEW size \in Nat, NEW n \in ReadCounts(size), TakeInput(n)
  PROVE  /\ n \in 0 .. size
         /\ file' \in Seq(Int) /\ kpos' \in Nat /\ sink' \in Seq(Int)
         /\ Slice(file, kpos, kpos + n) \in Seq(Int)
         /\ Len(Slice(file, kpos, kpos + n)) = n
<1>1. n \in 0 .. size /\ (n > 0 => kpos + n <= Len(file))
  BY LenProperties DEF ReadCounts, SmallerOf, TypeOK
<1>2. file' \in Seq(Int) /\ kpos' \in Nat /\ sink' \in Seq(Int)
  BY <1>1 DEF TakeInput, TypeOK
<1>3. CASE n > 0
  <2>1. /\ file \in Seq(Int) /\ kpos \in Nat /\ n \in Nat
        /\ kpos + n \in Int /\ kpos + n <= Len(file)
    BY <1>1, <1>3 DEF TypeOK
  <2>2. /\ kpos + 1 \in Nat \ {0} /\ kpos + 1 <= kpos + n
        /\ (kpos + n) - (kpos + 1) + 1 = n
    BY <2>1, <1>3
  <2>3. /\ SubSeq(file, kpos + 1, kpos + n) \in Seq(Int)
        /\ Len(SubSeq(file, kpos + 1, kpos + n)) = n
    BY <2>1, <2>2, SubSeqBytes
  <2> QED  BY <1>1, <1>2, <2>3 DEF Slice
<1>4. CASE n = 0
  BY <1>1, <1>2, <1>4, SubSeqEmpty, EmptySeq DEF Slice, TypeOK
<1> QED  BY <1>1, <1>3, <1>4

(* es_flush keeps the invariant.                                           *)
LEMMA FlushKeepsIInv ==
  ASSUME OneWayOrSeekable, IInv, es_flush
  PROVE  IInv'
<1> USE DEF IInv, Goto, Fault, backend, stream, flushing, request, ghosts
<1>1. CASE FlushAssertFails
  <2>1. TypeOK'     BY <1>1 DEF FlushAssertFails, TypeOK, Labels
  <2>2. ControlInv' BY <1>1 DEF FlushAssertFails, ControlInv, WriteLabels
  <2>3. ContentInv'
    BY <1>1 DEF FlushAssertFails, ContentInv, ReadLabels, WriteLabels,
                HoldsOutput, buffer_size, Seekable
  <2> QED  BY <2>1, <2>2, <2>3
<1>2. CASE FlushWrite
  <2> PICK n \in 0 .. data_offset - flushed :
         WriteTakes(BufferBytes(flushed, data_offset), n) /\ flushed' = flushed + n
    BY <1>2 DEF FlushWrite
  <2>1. /\ file' \in Seq(Int) /\ kpos' \in Nat /\ sink' \in Seq(Int)
        /\ faults' \in 0 .. MaxFaults /\ faulted' \in BOOLEAN
        /\ UNCHANGED <<calls, fresh>>
    BY WriteTakesBytes, BufferBytesBytes DEF ContentInv, TypeOK
  <2>2. TypeOK'     BY <1>2, <2>1 DEF FlushWrite, TypeOK
  <2>3. ControlInv' BY <1>2 DEF FlushWrite, ControlInv
  <2>4. ContentInv'
    BY <1>2 DEF FlushWrite, ContentInv, TypeOK, HoldsOutput, buffer_size, Seekable
  <2> QED  BY <2>2, <2>3, <2>4
<1>3. CASE FlushWriteOver
  BY <1>3 DEF FlushWriteOver, OneWayOrSeekable
<1>4. CASE FlushFails
  <2>1. TypeOK'
    BY <1>4, BoundAssumption DEF FlushFails, TypeOK, Labels, FlushTargets
  <2>2. ControlInv'
    BY <1>4 DEF FlushFails, ControlInv, TypeOK, WriteLabels, FlushTargets
  <2>3. ContentInv'
    BY <1>4 DEF FlushFails, ContentInv, ControlInv, TypeOK, ReadLabels, WriteLabels,
                HoldsOutput, buffer_size, Seekable, FlushTargets
  <2> QED  BY <2>1, <2>2, <2>3
<1>5. CASE FlushReturns
  <2>1. TypeOK'
    BY <1>5, BoundAssumption DEF FlushReturns, FlushEvent, TypeOK, Labels, FlushTargets
  <2>2. ControlInv'
    BY <1>5 DEF FlushReturns, FlushEvent, ControlInv, TypeOK, WriteLabels, FlushTargets
  <2>3. ContentInv'
    BY <1>5 DEF FlushReturns, FlushEvent, ContentInv, ControlInv, TypeOK, ReadLabels, WriteLabels,
                HoldsOutput, buffer_size, Seekable, FlushTargets
  <2> QED  BY <2>1, <2>2, <2>3
<1> QED  BY <1>1, <1>2, <1>3, <1>4, <1>5 DEF es_flush

(* The reading functions keep the invariant.                               *)
LEMMA ReadingKeepsIInv ==
  ASSUME OneWayOrSeekable, IInv,
         es_readn \/ es_read_nbf \/ es_read_fbf \/ es_fill \/ doreadline
           \/ es_peek \/ LineAllocFails \/ SwitchToReading
  PROVE  IInv'
<1> USE DEF IInv, Goto, Fail, Fault, CallFlush, backend, stream, flushing, request,
            ghosts
<1>1. CASE es_readn
  <2>1. TypeOK'
    <3>1. CASE writing BY <1>1, <3>1 DEF es_readn, TypeOK, Labels, FlushTargets
    <3>2. CASE ~ writing BY <1>1, <3>2 DEF es_readn, TypeOK, Labels, FlushTargets
    <3> QED BY <3>1, <3>2
  <2>2. ControlInv' BY <1>1 DEF es_readn, ControlInv, WriteLabels
  <2>3. ContentInv'
    BY <1>1 DEF es_readn, ContentInv, ReadLabels, WriteLabels,
                HoldsOutput, buffer_size, Seekable
  <2> QED  BY <2>1, <2>2, <2>3
<1>2. CASE es_read_nbf
  <2>1. /\ file' \in Seq(Int) /\ kpos' \in Nat /\ sink' \in Seq(Int)
        /\ got' \in Seq(Int)
    <3>1. CASE /\ Len(got) < want
               /\ \E n \in ReadCounts(want - Len(got)) :
                    TakeInput(n) /\ got' = got \o Slice(file, kpos, kpos + n)
      <4>1. want - Len(got) \in Nat
        BY <3>1, LenProperties DEF TypeOK
      <4> QED
        BY <3>1, <4>1, ReadTakesBytes, ConcatProperties DEF TypeOK
    <3>2. CASE UNCHANGED <<backend, got>>
      BY <3>2 DEF TypeOK
    <3> QED  BY <1>2, <3>1, <3>2 DEF es_read_nbf
  <2>2. TypeOK'
    <3>1. CASE UNCHANGED ghosts /\ pc' \in {"out", "es_read_nbf"} /\ UNCHANGED err
      BY <1>2, <2>1, <3>1 DEF es_read_nbf, TypeOK, Labels, FlushTargets
    <3>2. CASE Fault("read") /\ Fail
      BY <1>2, <2>1, <3>2, BoundAssumption
         DEF es_read_nbf, TypeOK, Labels, FlushTargets
    <3> QED  BY <1>2, <3>1, <3>2 DEF es_read_nbf
  <2>3. ControlInv' BY <1>2 DEF es_read_nbf, ControlInv, WriteLabels
  <2>4. ContentInv'
    BY <1>2 DEF es_read_nbf, ContentInv, ReadLabels, WriteLabels,
                HoldsOutput, buffer_size, Seekable
  <2> QED  BY <2>2, <2>3, <2>4
<1>3. CASE es_read_fbf
  <2>1. ~ HoldsOutput /\ Len(got) \in Nat /\ Len(buffer) \in Nat
    BY <1>3, LenProperties
       DEF es_read_fbf, HoldsOutput, ContentInv, ControlInv, ReadLabels, TypeOK
  <2>2. /\ got' \in Seq(Int) /\ data_offset' \in Nat
        /\ data_offset' <= data_len
    <3>1. CASE UNCHANGED <<data_offset, got>>
      BY <2>1, <3>1 DEF TypeOK, ContentInv
    <3>2. CASE ~ UNCHANGED <<data_offset, got>>
      <4> DEFINE n == SmallerOf(want - Len(got), data_len - data_offset)
      <4>1. n \in Nat /\ data_offset + n <= data_len
        BY <1>3, <2>1, <3>2 DEF es_read_fbf, SmallerOf, TypeOK, ContentInv
      <4>2. got' = got \o BufferBytes(data_offset, data_offset + n)
            /\ data_offset' = data_offset + n
        BY <1>3, <3>2 DEF es_read_fbf
      <4> HIDE DEF n
      <4>3. BufferBytes(data_offset, data_offset + n) \in Seq(Int)
        BY <4>1, BufferBytesBytes DEF TypeOK
      <4>4. got' \in Seq(Int)
        BY <4>2, <4>3, ConcatProperties DEF TypeOK
      <4> QED  BY <4>1, <4>2, <4>4 DEF TypeOK
    <3> QED  BY <3>1, <3>2
  <2>3. TypeOK'     BY <1>3, <2>2 DEF es_read_fbf, TypeOK, Labels, FlushTargets
  <2>4. ControlInv' BY <1>3 DEF es_read_fbf, ControlInv, WriteLabels
  <2>5. /\ pc' \in {"out", "es_fill", "es_read_fbf"} /\ pc = "es_read_fbf"
        /\ UNCHANGED <<buffer, data_len, writing, stored, flushed>>
    BY <1>3 DEF es_read_fbf
  <2>6. ContentInv'
    <3>1. /\ ~ writing' /\ ~ stored'
          /\ data_len' = data_len /\ buffer' = buffer /\ flushed' = flushed
      BY <2>1, <2>5 DEF HoldsOutput
    <3>2. /\ data_len \in Nat /\ flushed = 0 /\ data_len <= Len(buffer)
          /\ (~ Seekable /\ "write" \in Ops => data_len = 0)
      BY <2>5 DEF TypeOK, ContentInv, buffer_size
    <3> QED  BY <2>1, <2>2, <2>5, <3>1, <3>2
      DEF ContentInv, ReadLabels, WriteLabels, HoldsOutput, buffer_size, Seekable
  <2> QED  BY <2>3, <2>4, <2>6
<1>4. CASE es_fill
  <2>1. ~ HoldsOutput /\ Len(buffer) \in Nat
    BY <1>4, LenProperties DEF es_fill, FillReads, FillFails, HoldsOutput,
         ContentInv, ControlInv, ReadLabels, TypeOK
  <2>2. /\ file' \in Seq(Int) /\ kpos' \in Nat /\ sink' \in Seq(Int)
        /\ buffer' \in Seq(Int) /\ Len(buffer') = Len(buffer)
        /\ data_len' \in 0 .. Len(buffer)
    <3>1. CASE FillReads
      <4> PICK n \in ReadCounts(buffer_size) :
             /\ TakeInput(n)
             /\ buffer' = Overlay(buffer, 0, Slice(file, kpos, kpos + n))
             /\ data_len' = n
        BY <3>1 DEF FillReads
      <4>1. /\ n \in 0 .. Len(buffer)
            /\ file' \in Seq(Int) /\ kpos' \in Nat /\ sink' \in Seq(Int)
            /\ Slice(file, kpos, kpos + n) \in Seq(Int)
            /\ Len(Slice(file, kpos, kpos + n)) = n
        BY <2>1, ReadTakesBytes DEF buffer_size
      <4> QED  BY <2>1, <4>1, OverlayBytes DEF TypeOK
    <3>2. CASE FillFails
      BY <2>1, <3>2 DEF FillFails, es_empty, TypeOK
    <3> QED  BY <1>4, <3>1, <3>2 DEF es_fill
  <2>3. TypeOK'
    <3>1. CASE FillReads
      <4>1. pc' \in {"out", "es_read_fbf", "es_peek"} /\ pc = "es_fill"
        BY <3>1 DEF FillReads
      <4>2. data_offset' = 0 /\ ind_eof' \in BOOLEAN
            /\ UNCHANGED <<writing, strategy, ind_err, flushing, op, err, request,
                           ghosts>>
        BY <3>1 DEF FillReads
      <4>3. data_len' \in Nat
        BY <2>2
      <4> QED  BY <2>2, <4>1, <4>2, <4>3 DEF TypeOK, Labels, FlushTargets
    <3>2. CASE FillFails
      BY <2>2, <3>2, BoundAssumption
         DEF FillFails, es_empty, TypeOK, Labels, FlushTargets
    <3> QED  BY <1>4, <3>1, <3>2 DEF es_fill
  <2>4. ControlInv'
    BY <1>4 DEF es_fill, FillReads, FillFails, ControlInv, WriteLabels
  <2>5. /\ pc' \in {"out", "es_read_fbf", "es_peek"} /\ pc = "es_fill"
        /\ data_offset' = 0 /\ UNCHANGED <<writing, stored, flushed>>
    BY <1>4 DEF es_fill, FillReads, FillFails, es_empty
  <2>6. ~ (~ Seekable /\ "write" \in Ops)
    BY <2>5 DEF ControlInv, OneWayOrSeekable
  <2>7. ContentInv'
    BY <2>1, <2>2, <2>5, <2>6
       DEF ContentInv, ReadLabels, WriteLabels, HoldsOutput, buffer_size, Seekable
  <2> QED  BY <2>3, <2>4, <2>7
<1>5. CASE es_peek
  <2>1. Len(buffer) \in Nat /\ ~ stored
    BY <1>5, LenProperties DEF es_peek, TypeOK, ControlInv
  <2>2. CASE writing \/ data_offset = data_len
    <3>1. TypeOK'
      <4>1. CASE writing
        BY <1>5, <4>1 DEF es_peek, TypeOK, Labels, FlushTargets
      <4>2. CASE ~ writing
        BY <1>5, <2>2, <4>2 DEF es_peek, TypeOK, Labels, FlushTargets
      <4> QED  BY <4>1, <4>2
    <3>2. ControlInv' BY <1>5, <2>2 DEF es_peek, ControlInv, WriteLabels
    <3>3. ContentInv'
      BY <1>5, <2>2 DEF es_peek, ContentInv, ReadLabels, WriteLabels,
                  HoldsOutput, buffer_size, Seekable
    <3> QED  BY <3>1, <3>2, <3>3
  <2>3. CASE ~ writing /\ data_offset # data_len
    <3> DEFINE data == BufferBytes(data_offset, data_len)
    <3>1. data \in Seq(Int) /\ Len(data) = data_len - data_offset
      BY <2>1, <2>3, BufferBytesBytes DEF TypeOK, ContentInv, HoldsOutput
    <3> PICK n \in 1 .. Len(data) :
           got' = got \o SubSeq(data, 1, n) /\ data_offset' = data_offset + n
      BY <1>5, <2>3 DEF es_peek
    <3>2. pc' \in {"out", "es_peek"}
      BY <1>5, <2>3 DEF es_peek
    <3> HIDE DEF data
    <3>3. /\ got' \in Seq(Int) /\ data_offset' \in Nat
          /\ data_offset' <= data_len
      <4>1. SubSeq(data, 1, n) \in Seq(Int)
        BY <3>1, SubSeqBytes
      <4>2. got' \in Seq(Int)
        BY <4>1, ConcatProperties DEF TypeOK
      <4>3. n \in Nat /\ n <= data_len - data_offset
        BY <3>1, LenProperties
      <4> QED  BY <4>2, <4>3 DEF TypeOK
    <3>4. /\ UNCHANGED <<backend, buffer, data_len, writing, strategy, ind_err,
                         ind_eof, flushing, want, src, tail, stored, ghosts,
                         op, err>>
          /\ pc = "es_peek"
      BY <1>5, <2>3 DEF es_peek
    <3>5. TypeOK'
      BY <3>2, <3>3, <3>4 DEF TypeOK, Labels, FlushTargets
    <3>6. ControlInv' BY <2>1, <3>2, <3>4 DEF ControlInv, WriteLabels
    <3>7. ContentInv'
      <4>1. /\ ~ writing' /\ ~ stored'
            /\ data_len' = data_len /\ buffer' = buffer /\ flushed' = flushed
        BY <2>1, <2>3, <3>4
      <4>2. /\ data_len \in Nat /\ data_offset \in Nat /\ flushed = 0
            /\ data_len <= Len(buffer)
            /\ (~ Seekable /\ "write" \in Ops => data_len = 0)
        BY <1>5, <2>3 DEF TypeOK, ContentInv, buffer_size, es_peek
      <4> QED  BY <2>1, <3>2, <3>3, <4>1, <4>2
        DEF ContentInv, ReadLabels, WriteLabels, HoldsOutput, buffer_size,
            Seekable
    <3> QED  BY <3>5, <3>6, <3>7
  <2> QED  BY <2>2, <2>3
<1>6. CASE doreadline \/ LineAllocFails
  <2>0. /\ pc' \in {"es_peek", "out", "broken"} /\ err' \in {err, -1}
        /\ pc \in {"doreadline", "es_peek", "out"} /\ (pc' = "es_peek" => op = "getline")
        /\ UNCHANGED <<backend, stream, flushing, op, request, calls, fresh, accepted>>
    BY <1>6 DEF LineAllocFails, doreadline, LineStreamMade, LineStreamFails, ControlInv
  <2>1. TypeOK'
    <3>1. faults' \in 0 .. MaxFaults /\ faulted' \in BOOLEAN
      <4>1. /\ faults' = faults \/ (faults < MaxFaults /\ faults' = faults + 1)
            /\ faulted' = faulted \/ faulted' = TRUE
        BY <1>6 DEF LineAllocFails, doreadline, LineStreamMade, LineStreamFails
      <4>2. faults \in 0 .. MaxFaults /\ faulted \in BOOLEAN /\ MaxFaults \in Nat
        BY BoundAssumption DEF TypeOK
      <4>3. faults' \in 0 .. MaxFaults
        BY <4>1, <4>2
      <4>4. faulted' \in BOOLEAN
        BY <4>1, <4>2
      <4> QED BY <4>3, <4>4
    <3> QED BY <2>0, <3>1 DEF TypeOK, Labels, FlushTargets
  <2>2. ControlInv'
    <3>1. stored => op = "write"
      BY DEF ControlInv
    <3>2. op = "getline"
      BY <1>6 DEF LineAllocFails, doreadline, LineStreamMade, LineStreamFails, ControlInv
    <3> QED BY <2>0, <3>1, <3>2 DEF ControlInv, WriteLabels
  <2>3. ContentInv'
    BY <2>0 DEF ContentInv, ReadLabels, WriteLabels, HoldsOutput, buffer_size, Seekable
  <2> QED  BY <2>1, <2>2, <2>3
<1>7. CASE SwitchToReading
  <2>1. TypeOK'
    BY <1>7 DEF SwitchToReading, TypeOK, Labels, FlushTargets
  <2>2. ControlInv' BY <1>7 DEF SwitchToReading, ControlInv, WriteLabels
  <2>3. ContentInv'
    BY <1>7 DEF SwitchToReading, ContentInv, ControlInv, ReadLabels, WriteLabels,
                HoldsOutput, buffer_size, Seekable, TypeOK
  <2> QED  BY <2>1, <2>2, <2>3
<1> QED  BY <1>1, <1>2, <1>3, <1>4, <1>5, <1>6, <1>7

(* es_seek keeps the invariant: it leaves an empty buffer, or fails and    *)
(* leaves it as it was.                                                    *)
LEMMA SeekKeepsIInv ==
  ASSUME OneWayOrSeekable, IInv, es_seek
  PROVE  IInv'
<1> USE DEF IInv, Goto, Fail, Fault, CallFlush, backend, stream, flushing, request,
            ghosts
<1>0. WriteFunction \in {"es_write_nbf", "es_write_lbf", "es_write_fbf"}
  BY DEF WriteFunction
<1>1. CASE SeekFlushes
  <2>1. TypeOK'     BY <1>1 DEF SeekFlushes, TypeOK, Labels, FlushTargets
  <2>2. ControlInv'
    BY <1>1 DEF SeekFlushes, ControlInv, ContentInv, WriteLabels
  <2>3. ContentInv'
    BY <1>1 DEF SeekFlushes, ContentInv, ReadLabels, WriteLabels,
                HoldsOutput, buffer_size, Seekable
  <2> QED  BY <2>1, <2>2, <2>3
<1>2. CASE SeekMoves
  <2>1. /\ pc = "es_seek" /\ ~ writing /\ Seekable
        /\ data_len' = 0 /\ data_offset' = 0 /\ ind_eof' = FALSE
        /\ UNCHANGED <<file, sink, buffer, writing, strategy, ind_err, flushing,
                       request, ghosts, op, err>>
    BY <1>2 DEF SeekMoves, es_empty
  <2>2. pc' \in {"es_write_nbf", "es_write_lbf", "es_write_fbf", "out"}
        /\ (pc' # "out" => op = "write")
    BY <1>0, <1>2 DEF SeekMoves
  <2>3. kpos' \in Nat
    <3> PICK target \in SeekTargets : target >= 0 /\ kpos' = target
      BY <1>2 DEF SeekMoves
    <3>1. target \in Int
      <4> DEFINE here == kpos - data_len + data_offset
      <4>1. here \in Int /\ Len(file) \in Int
        BY LenProperties DEF TypeOK
      <4>2. \A o \in SeekOffsets : here + o \in Int /\ Len(file) + o \in Int
        BY <4>1, ClientAssumption
      <4>3. target = here \/ target \in SeekOffsets
              \/ \E o \in SeekOffsets : target = here + o \/ target = Len(file) + o
        BY DEF SeekTargets
      <4> HIDE DEF here
      <4> QED  BY <4>1, <4>2, <4>3, ClientAssumption
    <3> QED  BY <3>1
  <2>4. TypeOK'     BY <2>1, <2>2, <2>3 DEF TypeOK, Labels, FlushTargets
  <2>5. ControlInv' BY <2>1, <2>2 DEF ControlInv, WriteLabels
  <2>6. ContentInv'
    BY <2>1, <2>2, LenProperties DEF ContentInv, ReadLabels, WriteLabels,
         HoldsOutput, buffer_size, Seekable, TypeOK
  <2> QED  BY <2>4, <2>5, <2>6
<1>3. CASE SeekFails
  <2>1. /\ pc = "es_seek" /\ ind_err' = TRUE
        /\ UNCHANGED <<backend, buffer, data_len, data_offset, writing, strategy,
                       ind_eof, flushing, request, op>>
    BY <1>3 DEF SeekFails
  <2>2. /\ UNCHANGED <<calls, fresh, accepted>>
        /\ faults' \in 0 .. MaxFaults /\ faulted' \in BOOLEAN
    <3>1. CASE UNCHANGED ghosts     BY <3>1 DEF TypeOK
    <3>2. CASE Fault("seek")        BY <3>2, BoundAssumption DEF TypeOK
    <3> QED  BY <1>3, <3>1, <3>2 DEF SeekFails
  <2>3. \/ pc' = "out" /\ err' = -1
        \/ op = "write" /\ Kind = "pipe" /\ pc' = WriteFunction /\ err' = err
    BY <1>3 DEF SeekFails
  <2>4. TypeOK'
    BY <1>0, <2>1, <2>2, <2>3 DEF TypeOK, Labels, FlushTargets
  <2>5. ControlInv' BY <1>0, <2>1, <2>3 DEF ControlInv, WriteLabels
  <2>6. pc' # "out" /\ ~ HoldsOutput => data_offset = 0 /\ data_len = 0
    BY <2>1, <2>3 DEF ContentInv, ControlInv, TypeOK, Seekable, AllOps
  <2>7. ContentInv'
    BY <1>0, <2>1, <2>3, <2>6 DEF ContentInv, ReadLabels, WriteLabels,
         HoldsOutput, buffer_size, Seekable
  <2> QED  BY <2>4, <2>5, <2>7
<1> QED  BY <1>1, <1>2, <1>3 DEF es_seek

(* The writing functions keep the invariant: output is stored within the   *)
(* buffer, and never over input.                                           *)
LEMMA WritingKeepsIInv ==
  ASSUME OneWayOrSeekable, IInv,
         es_writen \/ es_write_lbf \/ es_write_nbf \/ es_write_fbf \/ write_copy
  PROVE  IInv'
<1> USE DEF IInv, Goto, Fail, Fault, CallFlush, backend, stream, flushing, request,
            ghosts
<1>0. WriteFunction \in {"es_write_nbf", "es_write_lbf", "es_write_fbf"}
  BY DEF WriteFunction
<1>00. Len(buffer) \in Nat /\ Len(src) \in Nat
  BY LenProperties DEF TypeOK
<1>1. CASE es_writen
  <2>1. /\ pc = "es_writen" /\ op = "write" /\ ~ stored
        /\ UNCHANGED <<backend, stream, flushing, request, ghosts, op, err>>
    BY <1>1 DEF es_writen, ControlInv
  <2>2. \/ ~ writing /\ pc' = "es_seek"
        \/ (writing \/ Kind = "noseek") /\ pc' = WriteFunction
    BY <1>1 DEF es_writen
  <2>3. TypeOK'     BY <1>0, <2>1, <2>2 DEF TypeOK, Labels, FlushTargets
  <2>4. ControlInv' BY <1>0, <2>1, <2>2 DEF ControlInv, WriteLabels
  <2>5. pc' # "es_seek" /\ ~ HoldsOutput => data_offset = 0 /\ data_len = 0
    BY <2>1, <2>2 DEF ContentInv, ControlInv, HoldsOutput, Seekable, TypeOK
  <2>6. ContentInv'
    BY <1>0, <2>1, <2>2, <2>5 DEF ContentInv, ReadLabels, WriteLabels,
         HoldsOutput, buffer_size, Seekable
  <2> QED  BY <2>3, <2>4, <2>6
<1>2. CASE es_write_lbf
  <2>1. /\ pc = "es_write_lbf" /\ op = "write" /\ ~ stored
        /\ UNCHANGED <<backend, stream, want, got, stored, ghosts, op, err>>
    BY <1>2 DEF es_write_lbf, ControlInv, WriteLabels
  <2>2. \/ pc' = "es_write_fbf" /\ UNCHANGED <<src, tail, cont, flushed>>
        \/ /\ pc' = "es_flush" /\ cont' = "es_write_nbf" /\ flushed' = 0
           /\ \E n \in 1 .. Len(src) :
                src' = SubSeq(src, 1, n) /\ tail' = SubSeq(src, n + 1, Len(src))
    BY <1>2, <1>00 DEF es_write_lbf
  <2>3. src' \in Seq(Int) /\ tail' \in Seq(Int)
    <3>1. src \in Seq(Int) /\ tail \in Seq(Int)
      BY DEF TypeOK
    <3>2. ASSUME NEW n \in 1 .. Len(src)
          PROVE  /\ SubSeq(src, 1, n) \in Seq(Int)
                 /\ SubSeq(src, n + 1, Len(src)) \in Seq(Int)
      <4>1. /\ n \in Int /\ n <= Len(src) /\ 1 \in Nat \ {0}
            /\ n + 1 \in Nat \ {0} /\ Len(src) \in Int /\ Len(src) <= Len(src)
        BY <1>00
      <4>2. SubSeq(src, 1, n) \in Seq(Int)
        BY <3>1, <4>1, SubSeqBytes
      <4>3. SubSeq(src, n + 1, Len(src)) \in Seq(Int)
        BY <3>1, <4>1, SubSeqBytes
      <4> QED  BY <4>2, <4>3
    <3> QED  BY <2>2, <3>1, <3>2
  <2>4. TypeOK'
    <3>1. CASE pc' = "es_write_fbf"
      BY <2>1, <2>2, <2>3, <3>1 DEF TypeOK, Labels, FlushTargets
    <3>2. CASE pc' = "es_flush"
      <4>1. cont' = "es_write_nbf" /\ flushed' = 0
        BY <2>2, <3>2
      <4> QED  BY <2>1, <2>3, <3>2, <4>1 DEF TypeOK, Labels, FlushTargets
    <3> QED  BY <2>2, <3>1, <3>2
  <2>5. ControlInv' BY <2>1, <2>2 DEF ControlInv, WriteLabels
  <2>6. ContentInv'
    BY <2>1, <2>2 DEF ContentInv, ReadLabels, WriteLabels, HoldsOutput,
         buffer_size, Seekable
  <2> QED  BY <2>4, <2>5, <2>6
<1>3. CASE es_write_nbf
  <2>1. /\ pc = "es_write_nbf" /\ op = "write"
        /\ UNCHANGED <<stream, cont, flushed, want, got, op>>
    BY <1>3 DEF es_write_nbf, ControlInv, WriteLabels
  <2>2. /\ pc' \in {"es_write_nbf", "es_write_fbf", "out"} /\ err' \in {0, -1}
        /\ stored' \in BOOLEAN /\ (stored => stored')
    BY <1>3 DEF es_write_nbf, Accept, TypeOK
  <2>3. /\ file' \in Seq(Int) /\ kpos' \in Nat /\ sink' \in Seq(Int)
        /\ src' \in Seq(Int) /\ tail' \in Seq(Int) /\ accepted' \in Seq(Int)
        /\ calls' \in 0 .. MaxCalls /\ faults' \in 0 .. MaxFaults
        /\ fresh' \in Nat /\ faulted' \in BOOLEAN
    <3>1. CASE /\ UNCHANGED tail
               /\ \E n \in 0 .. Len(src) :
                    /\ WriteTakes(src, n)
                    /\ Accept(SubSeq(src, 1, n))
                    /\ src' = SubSeq(src, n + 1, Len(src))
      <4> PICK n \in 0 .. Len(src) : /\ WriteTakes(src, n)
                                     /\ Accept(SubSeq(src, 1, n))
                                     /\ src' = SubSeq(src, n + 1, Len(src))
        BY <3>1
      <4>1. /\ file' \in Seq(Int) /\ kpos' \in Nat /\ sink' \in Seq(Int)
            /\ faults' \in 0 .. MaxFaults /\ faulted' \in BOOLEAN
            /\ UNCHANGED <<calls, fresh>>
        BY WriteTakesBytes DEF TypeOK
      <4>2. SubSeq(src, 1, n) \in Seq(Int) /\ src' \in Seq(Int)
        <5>1. n + 1 \in Nat \ {0} /\ n \in Int /\ n <= Len(src)
          BY <1>00
        <5>2. SubSeq(src, 1, n) \in Seq(Int)
          BY <5>1, SubSeqBytes DEF TypeOK
        <5>3. SubSeq(src, n + 1, Len(src)) \in Seq(Int)
          BY <1>00, <5>1, SubSeqBytes DEF TypeOK
        <5> QED  BY <5>2, <5>3
      <4>3. accepted' \in Seq(Int)
        BY <4>2, ConcatProperties DEF Accept, TypeOK
      <4> QED  BY <3>1, <4>1, <4>2, <4>3 DEF TypeOK
    <3>2. CASE Fault("write") /\ UNCHANGED <<backend, src, tail>>
      BY <3>2, BoundAssumption DEF TypeOK
    <3>3. CASE UNCHANGED <<backend, ghosts>> /\ src' = tail /\ tail' = <<>>
      BY <3>3, EmptySeq DEF TypeOK
    <3> QED  BY <1>3, <3>1, <3>2, <3>3 DEF es_write_nbf
  <2>4. TypeOK'
    BY <2>1, <2>2, <2>3 DEF TypeOK, Labels, FlushTargets
  <2>5. ControlInv' BY <2>1, <2>2 DEF ControlInv, WriteLabels
  <2>6. ContentInv'
    BY <2>1, <2>2, <1>00 DEF ContentInv, ReadLabels, WriteLabels, HoldsOutput,
         buffer_size, Seekable, TypeOK
  <2> QED  BY <2>4, <2>5, <2>6
<1>4. CASE es_write_fbf
  <2>1. /\ pc = "es_write_fbf" /\ op = "write"
        /\ UNCHANGED <<backend, stream, request, ghosts, op, err>>
    BY <1>4 DEF es_write_fbf, ControlInv, WriteLabels
  <2>2. \/ pc' \in {"out", "write_copy"} /\ UNCHANGED <<cont, flushed>>
        \/ pc' = "es_flush" /\ cont' = "write_copy" /\ flushed' = 0
    BY <1>4 DEF es_write_fbf
  <2>3. TypeOK'     BY <2>1, <2>2 DEF TypeOK, Labels, FlushTargets
  <2>4. ControlInv' BY <2>1, <2>2 DEF ControlInv, WriteLabels
  <2>5. ContentInv'
    BY <2>1, <2>2 DEF ContentInv, ReadLabels, WriteLabels, HoldsOutput,
         buffer_size, Seekable
  <2> QED  BY <2>3, <2>4, <2>5
<1>5. CASE write_copy
  <2> DEFINE n == SmallerOf(Len(src), buffer_size - data_offset)
  <2>1. /\ pc = "write_copy" /\ op = "write" /\ pc' = "es_write_fbf"
        /\ UNCHANGED <<backend, data_len, writing, strategy, ind_err, ind_eof,
                       flushing, want, got, tail, calls, faults, fresh, faulted,
                       op, err>>
    BY <1>5 DEF write_copy, ControlInv, WriteLabels
  <2>2. n \in Nat /\ n <= Len(src) /\ data_offset + n <= Len(buffer)
    BY <1>00 DEF SmallerOf, ContentInv, TypeOK, buffer_size
  <2>3. /\ buffer' = Overlay(buffer, data_offset, SubSeq(src, 1, n))
        /\ data_offset' = data_offset + n
        /\ src' = SubSeq(src, n + 1, Len(src))
        /\ Accept(SubSeq(src, 1, n))
    BY <1>5 DEF write_copy
  <2> HIDE DEF n
  <2>4. /\ SubSeq(src, 1, n) \in Seq(Int) /\ Len(SubSeq(src, 1, n)) = n
        /\ SubSeq(src, n + 1, Len(src)) \in Seq(Int)
    <3>1. /\ n + 1 \in Nat \ {0} /\ n \in Int /\ n <= Len(src)
          /\ 1 \in Nat \ {0} /\ (IF 1 <= n THEN n - 1 + 1 ELSE 0) = n
          /\ Len(src) \in Int /\ Len(src) <= Len(src)
      BY <1>00, <2>2
    <3>2. src \in Seq(Int)
      BY DEF TypeOK
    <3>3. SubSeq(src, 1, n) \in Seq(Int) /\ Len(SubSeq(src, 1, n)) = n
      BY <3>1, <3>2, SubSeqBytes
    <3>4. SubSeq(src, n + 1, Len(src)) \in Seq(Int)
      BY <3>1, <3>2, SubSeqBytes
    <3> QED  BY <3>3, <3>4
  <2>5. buffer' \in Seq(Int) /\ Len(buffer') = Len(buffer)
    BY <2>2, <2>3, <2>4, OverlayBytes DEF TypeOK
  <2>6. /\ stored' \in BOOLEAN /\ (stored => stored')
        /\ accepted' \in Seq(Int) /\ (~ stored' => n = 0)
    <3>1. accepted \o SubSeq(src, 1, n) \in Seq(Int)
      BY <2>4, ConcatProperties DEF TypeOK
    <3>2. SubSeq(src, 1, n) = <<>> => n = 0
      BY <2>4, EmptySeq
    <3> QED  BY <2>3, <3>1, <3>2 DEF Accept, TypeOK
  <2>7. TypeOK'
    BY <2>1, <2>2, <2>3, <2>4, <2>5, <2>6 DEF TypeOK, Labels, FlushTargets
  <2>8. ControlInv' BY <2>1, <2>6 DEF ControlInv, WriteLabels
  <2>9. ContentInv'
    BY <2>1, <2>2, <2>3, <2>5, <2>6, <1>00 DEF ContentInv, ReadLabels, WriteLabels,
         HoldsOutput, buffer_size, Seekable, TypeOK
  <2> QED  BY <2>7, <2>8, <2>9
<1> QED  BY <1>1, <1>2, <1>3, <1>4, <1>5

(* The remaining functions, and the ends of a call, keep the invariant.    *)
LEMMA OthersKeepIInv ==
  ASSUME OneWayOrSeekable, IInv,
         do_fflush \/ es_set_buffering \/ new_buffer \/ es_deinitialize
           \/ func_close \/ Return
  PROVE  IInv'
<1> USE DEF IInv, Goto, Fault, CallFlush, backend, stream, flushing, request, ghosts
<1>0. Len(buffer) \in Nat
  BY LenProperties DEF TypeOK
<1>1. CASE do_fflush
  <2>1. TypeOK'
    <3>1. CASE writing
      BY <1>1, <3>1 DEF do_fflush, es_empty, TypeOK, Labels, FlushTargets
    <3>2. CASE ~ writing
      <4>1. /\ pc' = "out" /\ data_len' = 0 /\ data_offset' = 0
            /\ UNCHANGED <<backend, buffer, writing, strategy, ind_err,
                           ind_eof, flushing, ghosts, request, op, err>>
        BY <1>1, <3>2 DEF do_fflush, es_empty
      <4>2. pc' \in Labels /\ cont' \in FlushTargets \cup {"none"}
        BY <4>1 DEF TypeOK, Labels
      <4>3. data_len' \in Nat /\ data_offset' \in Nat /\ pc' # "es_flush"
        BY <4>1
      <4> QED  BY <4>1, <4>2, <4>3 DEF TypeOK
    <3> QED  BY <3>1, <3>2
  <2>2. ControlInv'
    BY <1>1 DEF do_fflush, ControlInv, WriteLabels
  <2>3. ContentInv'
    BY <1>0, <1>1 DEF do_fflush, es_empty, ContentInv, ReadLabels, WriteLabels,
         HoldsOutput, buffer_size, Seekable
  <2> QED  BY <2>1, <2>2, <2>3
<1>2. CASE es_set_buffering
  <2>1. TypeOK'
    <3>1. CASE writing
      BY <1>2, <3>1 DEF es_set_buffering, es_empty, TypeOK, Labels, FlushTargets
    <3>2. CASE ~ writing
      <4>1. /\ pc' = "new_buffer" /\ data_len' = 0 /\ data_offset' = 0
            /\ UNCHANGED <<backend, buffer, writing, strategy, ind_err,
                           ind_eof, flushing, ghosts, request, op, err>>
        BY <1>2, <3>2 DEF es_set_buffering, es_empty
      <4>2. pc' \in Labels /\ cont' \in FlushTargets \cup {"none"}
        BY <4>1 DEF TypeOK, Labels
      <4>3. data_len' \in Nat /\ data_offset' \in Nat /\ pc' # "es_flush"
        BY <4>1
      <4> QED  BY <4>1, <4>2, <4>3 DEF TypeOK
    <3> QED  BY <3>1, <3>2
  <2>2. ControlInv'
    BY <1>2 DEF es_set_buffering, ControlInv, WriteLabels
  <2>3. ContentInv'
    BY <1>0, <1>2 DEF es_set_buffering, es_empty, ContentInv, ReadLabels, WriteLabels,
         HoldsOutput, buffer_size, Seekable
  <2> QED  BY <2>1, <2>2, <2>3
<1>3. CASE new_buffer
  <2>1. buffer' \in Seq(Int) /\ Len(buffer') \in Nat
    <3>1. buffer' = <<>> \/ \E n \in VBufSizes : buffer' = [i \in 1 .. n |-> Junk]
      BY <1>3 DEF new_buffer
    <3>2. \A n \in VBufSizes : [i \in 1 .. n |-> Junk] \in Seq(Int)
      BY SizeAssumption, FreshBufferBytes
    <3>3. buffer' \in Seq(Int)
      BY <3>1, <3>2, EmptySeq
    <3> QED  BY <3>3, LenProperties
  <2>2. /\ pc = "new_buffer" /\ pc' = "out" /\ ind_eof' = FALSE
        /\ strategy' \in AllModes
        /\ UNCHANGED <<backend, data_len, data_offset, writing, ind_err, flushing,
                       request, ghosts, op, err>>
    BY <1>3, ClientAssumption DEF new_buffer
  <2>3. TypeOK'     BY <2>1, <2>2 DEF TypeOK, Labels, FlushTargets
  <2>4. ControlInv' BY <2>2 DEF ControlInv, WriteLabels
  <2>5. ContentInv'
    BY <2>1, <2>2 DEF ContentInv, ReadLabels, WriteLabels, HoldsOutput,
         buffer_size, Seekable
  <2> QED  BY <2>3, <2>4, <2>5
<1>4. CASE es_deinitialize
  <2>1. TypeOK'
    <3>1. CASE writing
      BY <1>4, <3>1 DEF es_deinitialize, TypeOK, Labels, FlushTargets
    <3>2. CASE ~ writing
      BY <1>4, <3>2 DEF es_deinitialize, TypeOK, Labels, FlushTargets
    <3> QED  BY <3>1, <3>2
  <2>2. ControlInv'
    BY <1>4 DEF es_deinitialize, ControlInv, WriteLabels
  <2>3. ContentInv'
    BY <1>4 DEF es_deinitialize, ContentInv, ReadLabels, WriteLabels,
         HoldsOutput, buffer_size, Seekable
  <2> QED  BY <2>1, <2>2, <2>3
<1>5. CASE func_close
  <2>1. TypeOK'
    <3>1. CASE UNCHANGED <<err, ghosts>>
      BY <1>5, <3>1 DEF func_close, TypeOK, Labels, FlushTargets
    <3>2. CASE Fault("close") /\ err' = -1
      BY <1>5, <3>2, BoundAssumption DEF func_close, TypeOK, Labels, FlushTargets
    <3> QED  BY <1>5, <3>1, <3>2 DEF func_close
  <2>2. ControlInv' BY <1>5 DEF func_close, ControlInv, WriteLabels
  <2>3. ContentInv'
    BY <1>5 DEF func_close, ContentInv, ReadLabels, WriteLabels,
         HoldsOutput, buffer_size, Seekable
  <2> QED  BY <2>1, <2>2, <2>3
<1>6. CASE Return
  <2>1. TypeOK'
    BY <1>6, EmptySeq DEF Return, TypeOK, Labels, FlushTargets
  <2>2. ControlInv' BY <1>6 DEF Return, ControlInv, WriteLabels
  <2>3. ContentInv'
    BY <1>6 DEF Return, ContentInv, ControlInv, ReadLabels, WriteLabels,
         HoldsOutput, buffer_size, Seekable
  <2> QED  BY <2>1, <2>2, <2>3
<1> QED  BY <1>1, <1>2, <1>3, <1>4, <1>5, <1>6

(* A client's call keeps the invariant.                                    *)
LEMMA CallKeepsIInv ==
  ASSUME IInv, Call
  PROVE  IInv'
<1> USE DEF IInv, backend, stream, flushing, request, ghosts
<1> DEFINE Enters(p, o) == pc' = p /\ op' = o
<1>1. /\ pc = "idle"
      /\ UNCHANGED <<file, kpos, sink, buffer, data_len, data_offset, writing,
                     strategy, cont, flushed, tail, stored, faults, accepted>>
      /\ \/ Enters("es_readn", "read")     \/ Enters("es_writen", "write")
         \/ Enters("doreadline", "getline") \/ Enters("es_seek", "fseek")
         \/ Enters("do_fflush", "fflush")  \/ Enters("es_set_buffering", "setvbuf")
         \/ Enters("es_deinitialize", "fclose") \/ Enters("idle", op)
  BY DEF Call, Begin, es_read, es_write, es_getline, es_fseek, es_fflush,
         es_setvbuf, es_clearerr, es_fclose
<1>2. op' \in Ops \cup {"fclose", "none"}
  BY DEF Call, Begin, es_read, es_write, es_getline, es_fseek, es_fflush,
         es_setvbuf, es_clearerr, es_fclose, ControlInv
<1>3. /\ ind_err' \in BOOLEAN /\ ind_eof' \in BOOLEAN /\ err' \in {0, -1}
      /\ faulted' \in BOOLEAN /\ calls' \in 0 .. MaxCalls
  <2>1. CASE calls' = calls
    BY <2>1
       DEF Call, Begin, es_read, es_write, es_getline, es_fseek, es_fflush,
           es_setvbuf, es_clearerr, es_fclose, TypeOK
  <2>2. CASE calls < MaxCalls /\ calls' = calls + 1
    <3>1. calls' \in 0 .. MaxCalls
      BY <2>2, BoundAssumption DEF TypeOK
    <3> QED
      BY <3>1
         DEF Call, Begin, es_read, es_write, es_getline, es_fseek, es_fflush,
             es_setvbuf, es_clearerr, es_fclose, TypeOK
  <2> QED
    BY <2>1, <2>2
       DEF Call, Begin, es_read, es_write, es_getline, es_fseek, es_fflush,
           es_setvbuf, es_clearerr, es_fclose
<1>4. want' \in Nat /\ got' \in Seq(Int) /\ src' \in Seq(Int) /\ fresh' \in Nat
  <2>1. CASE es_read
    BY <2>1, BoundAssumption, EmptySeq DEF es_read, Begin, TypeOK
  <2>2. CASE es_write
    <3> PICK n \in 0 .. MaxRequest : \E nl \in 0 .. n :
               src' = NewBytes(n, nl) /\ fresh' = fresh + n
      BY <2>2 DEF es_write
    <3> PICK nl \in 0 .. n : src' = NewBytes(n, nl) /\ fresh' = fresh + n
      OBVIOUS
    <3>1. n \in Nat
      BY BoundAssumption
    <3>2. NewBytes(n, nl) \in Seq(Int)
      <4>1. Len(InitFile) \in Nat /\ fresh \in Nat
        BY FileAssumption, LenProperties DEF TypeOK
      <4>2. NewBytes(n, nl) \in [1 .. n -> Int]
        BY <3>1, <4>1 DEF NewBytes
      <4> QED  BY <3>1, <4>2, SeqDef
    <3> QED  BY <2>2, <3>1, <3>2 DEF es_write, Begin, TypeOK
  <2>3. CASE es_getline
    BY <2>3, EmptySeq DEF es_getline, Begin, TypeOK
  <2>4. CASE es_fseek \/ es_fflush \/ es_setvbuf \/ es_clearerr \/ es_fclose
    BY <2>4 DEF es_fseek, es_fflush, es_setvbuf, es_clearerr, es_fclose, Begin, TypeOK
  <2> QED  BY <2>1, <2>2, <2>3, <2>4 DEF Call
<1>5. TypeOK'
  BY <1>1, <1>2, <1>3, <1>4, ClientAssumption DEF TypeOK, Labels, FlushTargets
<1>6. ControlInv'
  BY <1>1, <1>2 DEF ControlInv, WriteLabels
<1>7. ContentInv'
  BY <1>1 DEF ContentInv, ControlInv, ReadLabels, WriteLabels, HoldsOutput,
              buffer_size, Seekable
<1> QED  BY <1>5, <1>6, <1>7

-----------------------------------------------------------------------------
(* Every step keeps the invariant.                                         *)
LEMMA NextKeepsIInv ==
  ASSUME OneWayOrSeekable
  PROVE  IInv /\ [Next]_vars => IInv'
<1> SUFFICES ASSUME IInv, [Next]_vars PROVE IInv'
  OBVIOUS
<1>1. CASE Call
  BY <1>1, CallKeepsIInv
<1>2. CASE Step
  BY <1>2, FlushKeepsIInv, ReadingKeepsIInv, SeekKeepsIInv, WritingKeepsIInv,
     OthersKeepIInv DEF Step
<1>3. CASE UNCHANGED vars
  BY <1>3 DEF vars, backend, stream, flushing, request, ghosts, IInv, TypeOK,
       ControlInv, ContentInv, HoldsOutput, buffer_size
<1> QED  BY <1>1, <1>2, <1>3 DEF Next, Terminated

(* The invariant holds throughout.                                         *)
LEMMA SpecIInv ==
  ASSUME OneWayOrSeekable
  PROVE  Spec => []IInv
BY IInvInit, NextKeepsIInv, PTL DEF Spec

(* Types: whatever the sizes, requests, offsets, calls and faults, a       *)
(* stream over an object that seeks, or that is only read or only written, *)
(* stays within the types of struct estream_internal and of its callers.   *)
THEOREM TypeCorrect ==
  ASSUME OneWayOrSeekable
  PROVE  Spec => []TypeOK
<1>1. IInv => TypeOK
  BY DEF IInv
<1> QED  BY <1>1, SpecIInv, PTL

(* The bounds of the buffer, through every switch between input and output,*)
(* partial transfer, failure and change of buffer: es_fill, es_write_fbf   *)
(* and es_read_fbf stay within it, and output never covers unread input.   *)
THEOREM BufferIsBounded == Spec => []BufferBounds
<1>1. CASE OneWayOrSeekable
  <2>1. IInv => BufferBounds
    BY DEF IInv, ContentInv, BufferBounds
  <2> QED  BY <1>1, <2>1, SpecIInv, PTL
<1>2. CASE ~ OneWayOrSeekable
  <2>1. BufferBounds
    BY <1>2 DEF BufferBounds
  <2> QED  BY <2>1, PTL
<1> QED  BY <1>1, <1>2

-----------------------------------------------------------------------------
(* No failure is swallowed.                                                *)

(* After a failure the call is on its way out with an error, or doreadline *)
(* has freed its object twice; only es_fclose goes on, and es_flush goes   *)
(* on to nothing else there.                                               *)
FaultInv ==
  /\ faulted => \/ err = -1 /\ pc \in {"out", "func_close", "closed"}
                \/ pc = "broken"
  /\ op = "fclose" => pc \in {"es_deinitialize", "es_flush", "func_close",
                              "closed", "aborted"}
  /\ pc = "es_flush" /\ op = "fclose" => cont = "func_close"

(* Every step keeps it, for every kind of object.                          *)
LEMMA NextFault == FaultInv /\ [Next]_vars => FaultInv'
<1> SUFFICES ASSUME FaultInv, [Next]_vars PROVE FaultInv'
  OBVIOUS
<1> USE DEF FaultInv, Goto, Fail, Fault, CallFlush, backend, stream, flushing,
            request, ghosts
<1>1. CASE Call
  <2>1. CASE es_read \/ es_write \/ es_getline \/ es_fseek \/ es_fflush \/ es_setvbuf
    BY <2>1 DEF es_read, es_write, es_getline, es_fseek, es_fflush, es_setvbuf, Begin
  <2>2. CASE es_clearerr \/ es_fclose
    BY <2>2 DEF es_clearerr, es_fclose
  <2> QED BY <1>1, <2>1, <2>2 DEF Call
<1>2. CASE es_flush
  <2>1. CASE FlushAssertFails BY <2>1 DEF FlushAssertFails
  <2>2. CASE FlushWrite       BY <2>2 DEF FlushWrite, WriteTakes
  <2>3. CASE FlushWriteOver   BY <2>3 DEF FlushWriteOver
  <2>4. CASE FlushFails       BY <2>4 DEF FlushFails
  <2>5. CASE FlushReturns     BY <2>5 DEF FlushReturns, FlushEvent
  <2> QED BY <1>2, <2>1, <2>2, <2>3, <2>4, <2>5 DEF es_flush
<1>3. CASE es_readn           BY <1>3 DEF es_readn
<1>4. CASE es_read_nbf        BY <1>4 DEF es_read_nbf
<1>5. CASE es_read_fbf        BY <1>5 DEF es_read_fbf
<1>6. CASE es_fill            BY <1>6 DEF es_fill, FillReads, FillFails
<1>7. CASE es_peek            BY <1>7 DEF es_peek
<1>8. CASE doreadline \/ LineAllocFails
  BY <1>8 DEF LineAllocFails, doreadline, LineStreamMade, LineStreamFails
<1>9. CASE SwitchToReading    BY <1>9 DEF SwitchToReading
<1>10. CASE es_seek
  <2>1. CASE SeekFlushes      BY <2>1 DEF SeekFlushes
  <2>2. CASE SeekMoves        BY <2>2 DEF SeekMoves
  <2>3. CASE SeekFails        BY <2>3 DEF SeekFails, Seekable
  <2> QED BY <1>10, <2>1, <2>2, <2>3 DEF es_seek
<1>11. CASE es_writen         BY <1>11 DEF es_writen
<1>12. CASE es_write_lbf      BY <1>12 DEF es_write_lbf
<1>13. CASE es_write_nbf      BY <1>13 DEF es_write_nbf, WriteTakes
<1>14. CASE es_write_fbf      BY <1>14 DEF es_write_fbf
<1>15. CASE write_copy        BY <1>15 DEF write_copy
<1>16. CASE do_fflush         BY <1>16 DEF do_fflush
<1>17. CASE es_set_buffering  BY <1>17 DEF es_set_buffering
<1>18. CASE new_buffer        BY <1>18 DEF new_buffer
<1>19. CASE es_deinitialize   BY <1>19 DEF es_deinitialize
<1>20. CASE func_close        BY <1>20 DEF func_close
<1>21. CASE Return            BY <1>21 DEF Return
<1>22. CASE UNCHANGED vars    BY <1>22 DEF vars
<1> QED
  BY <1>1, <1>2, <1>3, <1>4, <1>5, <1>6, <1>7, <1>8, <1>9, <1>10, <1>11, <1>12,
     <1>13, <1>14, <1>15, <1>16, <1>17, <1>18, <1>19, <1>20, <1>21, <1>22
     DEF Next, Step, Terminated

(* A call during which a read, write, seek, close or allocation has failed *)
(* returns an error, if it returns, whatever it was doing: es_flush,       *)
(* es_fill and es_write_nbf pass it on, and es_deinitialize keeps the      *)
(* error of the flush when the close succeeds.  What the write function    *)
(* returns for the flush event (estream.c:1089) is not among them: the     *)
(* code drops it, with no byte lost.  Nor are the callers that drop the    *)
(* results of these functions, es_fread and es_fwrite.                     *)
THEOREM NoFaultIsSilent == Spec => []NoSilentFault
<1>1. Init => FaultInv
  BY DEF Init, FaultInv
<1>2. FaultInv => NoSilentFault
  BY DEF FaultInv, NoSilentFault
<1> QED BY <1>1, <1>2, NextFault, PTL DEF Spec

-----------------------------------------------------------------------------
(* A read falls short only at the end of the object.                       *)

(* An unbuffered stream has no buffer and reads with es_read_nbf, a        *)
(* buffered one fills only a buffer it has used up.  es_read never has     *)
(* more than it was asked for, so it is done when it has as much.          *)
ReadInv ==
  /\ strategy = "nbf" <=> Len(buffer) = 0
  /\ pc = "es_read_nbf" => strategy = "nbf"
  /\ pc = "es_read_fbf" => strategy # "nbf"
  /\ pc = "es_fill" => data_offset = data_len /\ (op = "read" => strategy # "nbf")
  /\ op = "read" => Len(got) <= want
  /\ pc = "es_flush" /\ cont = "out" => op = "fflush"
  /\ ShortOnlyAtEnd

(* A read that brings nothing was made at the end of the object.           *)
LEMMA NothingReadAtEnd ==
  ASSUME TypeOK, NEW size \in Nat \ {0}, 0 \in ReadCounts(size)
  PROVE  kpos >= Len(file)
BY LenProperties DEF ReadCounts, SmallerOf, TypeOK

(* The last byte of a line is the last byte that was added to it.          *)
LEMMA LastOfConcat ==
  ASSUME NEW s \in Seq(Int), NEW d \in Seq(Int), NEW n \in 1 .. Len(d)
  PROVE  /\ s \o SubSeq(d, 1, n) # <<>>
         /\ (s \o SubSeq(d, 1, n))[Len(s \o SubSeq(d, 1, n))] = d[n]
<1> DEFINE u == SubSeq(d, 1, n)
<1>0. Len(s) \in Nat /\ Len(d) \in Nat /\ n \in Nat /\ n >= 1
  BY LenProperties
<1>1. \A i \in 1 .. n : d[i] \in Int
  BY <1>0, ElementOfSeq
<1>2. u \in Seq(Int) /\ Len(u) = n /\ u[n] = d[n]
  BY <1>0, <1>1, SubSeqProperties
<1> HIDE DEF u
<1>3. /\ s \o u \in Seq(Int) /\ Len(s \o u) = Len(s) + n
      /\ (s \o u)[Len(s) + n] = u[n]
  <2>1. Len(s) + n \in 1 .. Len(s) + Len(u) /\ ~ (Len(s) + n <= Len(s))
        /\ Len(s) + n - Len(s) = n
    BY <1>0, <1>2
  <2>2. /\ s \o u \in Seq(Int) /\ Len(s \o u) = Len(s) + Len(u)
        /\ \A i \in 1 .. Len(s) + Len(u) :
             (s \o u)[i] = IF i <= Len(s) THEN s[i] ELSE u[i - Len(s)]
    BY <1>2, ConcatProperties
  <2> QED BY <1>2, <2>1, <2>2
<1>4. s \o u # <<>>
  BY <1>0, <1>3, EmptySeq
<1> QED BY <1>2, <1>3, <1>4 DEF u

(* Nothing is unread in a buffer that is used up.                          *)
LEMMA NothingUnread ==
  ASSUME NEW i \in Nat
  PROVE  BufferBytes(i, i) = <<>>
<1>1. 1 .. i - i = {}
  OBVIOUS
<1> QED BY <1>1 DEF BufferBytes

LEMMA InitRead == Init => ReadInv
<1> SUFFICES ASSUME Init PROVE ReadInv
  OBVIOUS
<1>1. Len(buffer) = BlockSize
  BY FreshBufferBytes, SizeAssumption DEF Init
<1> QED BY <1>1, SizeAssumption DEF Init, ReadInv, ShortOnlyAtEnd

(* Every step keeps it.                                                    *)
LEMMA NextRead ==
  ASSUME OneWayOrSeekable
  PROVE  IInv /\ ReadInv /\ [Next]_vars => ReadInv'
<1> SUFFICES ASSUME IInv, ReadInv, [Next]_vars PROVE ReadInv'
  OBVIOUS
<1> USE DEF Goto, Fail, Fault, CallFlush, backend, stream, flushing, request, ghosts
<1>0. TypeOK /\ ControlInv /\ ContentInv /\ Len(buffer) \in Nat /\ IInv'
  BY NextKeepsIInv, LenProperties DEF IInv, TypeOK
<1>1. CASE Call
  <2>1. CASE es_read
    BY <2>1, BoundAssumption DEF es_read, Begin, ReadInv, ShortOnlyAtEnd
  <2>2. CASE es_write \/ es_getline \/ es_fseek \/ es_fflush \/ es_setvbuf
    BY <2>2 DEF es_write, es_getline, es_fseek, es_fflush, es_setvbuf, Begin, ReadInv,
                ShortOnlyAtEnd
  <2>3. CASE es_clearerr \/ es_fclose
    BY <2>3 DEF es_clearerr, es_fclose, ReadInv, ShortOnlyAtEnd
  <2> QED BY <1>1, <2>1, <2>2, <2>3 DEF Call
<1>2. CASE es_flush
  <2>1. CASE FlushAssertFails BY <2>1 DEF FlushAssertFails, ReadInv, ShortOnlyAtEnd
  <2>2. CASE FlushWrite       BY <2>2 DEF FlushWrite, WriteTakes, ReadInv, ShortOnlyAtEnd
  <2>3. CASE FlushWriteOver   BY <2>3 DEF FlushWriteOver, OneWayOrSeekable
  <2>4. CASE FlushFails
    BY <1>0, <2>4 DEF FlushFails, ReadInv, ShortOnlyAtEnd, ControlInv
  <2>5. CASE FlushReturns
    BY <1>0, <2>5 DEF FlushReturns, FlushEvent, ReadInv, ShortOnlyAtEnd, TypeOK, FlushTargets
  <2> QED BY <1>2, <2>1, <2>2, <2>3, <2>4, <2>5 DEF es_flush
<1>3. CASE es_readn
  BY <1>0, <1>3 DEF es_readn, ReadInv, ShortOnlyAtEnd, ControlInv
<1>4. CASE es_read_nbf
  <2>0. /\ op = "read" /\ strategy = "nbf" /\ ~ HoldsOutput
        /\ Len(got) \in Nat /\ want \in Nat /\ Len(got) <= want
    BY <1>0, <1>4, LenProperties DEF es_read_nbf, ReadInv, ControlInv, ContentInv,
       ReadLabels, HoldsOutput, TypeOK
  <2>1. data_len = 0 /\ data_offset = 0 /\ Unread = <<>>
    <3>1. data_len = 0 /\ data_offset = 0
      BY <1>0, <2>0 DEF ReadInv, ContentInv, buffer_size, TypeOK
    <3> QED BY <2>0, <3>1, NothingUnread DEF Unread
  <2>2. UNCHANGED <<buffer, data_len, data_offset, writing, strategy, stored, op, want, file>>
    BY <1>4 DEF es_read_nbf, TakeInput
  <2>3. Unread' = <<>>
    <3>1. Unread' = Unread
      BY <2>2 DEF Unread, HoldsOutput, BufferBytes
    <3> QED BY <2>1, <3>1
  <2>4. /\ Len(got') <= want
        /\ pc' = "out" /\ err' = 0 => Len(got') = want \/ kpos' >= Len(file)
        /\ pc' \in {"out", "es_read_nbf"}
    <3>1. CASE /\ Len(got) < want
               /\ \E n \in ReadCounts(want - Len(got)) :
                    /\ TakeInput(n) /\ got' = got \o Slice(file, kpos, kpos + n)
                    /\ Goto(IF n = 0 THEN "out" ELSE "es_read_nbf")
      <4> PICK n \in ReadCounts(want - Len(got)) :
             /\ TakeInput(n) /\ got' = got \o Slice(file, kpos, kpos + n)
             /\ Goto(IF n = 0 THEN "out" ELSE "es_read_nbf")
        BY <3>1
      <4>1. want - Len(got) \in Nat \ {0}
        BY <2>0, <3>1
      <4>2. /\ n \in 0 .. want - Len(got)
            /\ Slice(file, kpos, kpos + n) \in Seq(Int)
            /\ Len(Slice(file, kpos, kpos + n)) = n
        BY <1>0, <4>1, ReadTakesBytes
      <4>3. Len(got') = Len(got) + n
        BY <1>0, <4>2, ConcatProperties DEF TypeOK
      <4>4. n = 0 => kpos >= Len(file) /\ kpos' = kpos
        BY <1>0, <4>1, NothingReadAtEnd DEF TakeInput, TypeOK
      <4> QED BY <2>0, <4>2, <4>3, <4>4
    <3>2. CASE Len(got) < want /\ Fail /\ UNCHANGED got
      BY <2>0, <3>2
    <3>3. CASE Len(got) >= want /\ Goto("out") /\ UNCHANGED got
      BY <2>0, <3>3
    <3> QED BY <1>4, <3>1, <3>2, <3>3 DEF es_read_nbf
  <2> QED BY <2>0, <2>2, <2>3, <2>4 DEF ReadInv, ShortOnlyAtEnd
<1>5. CASE es_read_fbf
  <2>0. /\ op = "read" /\ strategy # "nbf" /\ Len(got) <= want /\ data_offset <= data_len
        /\ Len(got) \in Nat /\ want \in Nat /\ data_offset \in Nat /\ data_len \in Nat
    BY <1>0, <1>5, LenProperties DEF es_read_fbf, ReadInv, ControlInv, ContentInv, TypeOK,
       ReadLabels, HoldsOutput
  <2>1. CASE Len(got) >= want /\ Goto("out") /\ UNCHANGED <<data_offset, got>>
    BY <1>5, <2>0, <2>1 DEF es_read_fbf, ReadInv, ShortOnlyAtEnd
  <2>2. CASE data_offset = data_len /\ Goto("es_fill") /\ UNCHANGED <<data_offset, got>>
    BY <1>5, <2>0, <2>2 DEF es_read_fbf, ReadInv, ShortOnlyAtEnd
  <2>3. CASE /\ Len(got) < want /\ data_offset # data_len /\ Goto("es_read_fbf")
             /\ LET n == SmallerOf(want - Len(got), data_len - data_offset)
                IN  /\ got' = got \o BufferBytes(data_offset, data_offset + n)
                    /\ data_offset' = data_offset + n
    <3> DEFINE n == SmallerOf(want - Len(got), data_len - data_offset)
    <3>1. n \in Nat /\ n <= want - Len(got)
      BY <2>0, <2>3 DEF SmallerOf
    <3>2. got' = got \o BufferBytes(data_offset, data_offset + n)
      BY <2>3
    <3> HIDE DEF n
    <3>3. /\ BufferBytes(data_offset, data_offset + n) \in Seq(Int)
          /\ Len(BufferBytes(data_offset, data_offset + n)) = n
      <4> DEFINE k == data_offset + n
      <4>1. k \in Nat /\ data_offset <= k /\ k - data_offset = n /\ buffer \in Seq(Int)
        BY <1>0, <2>0, <3>1 DEF TypeOK
      <4> HIDE DEF k
      <4>2. /\ BufferBytes(data_offset, k) \in Seq(Int)
            /\ Len(BufferBytes(data_offset, k)) = IF data_offset <= k THEN k - data_offset ELSE 0
        BY <2>0, <4>1, BufferBytesBytes
      <4> QED BY <4>1, <4>2 DEF k
    <3>4. Len(got') <= want
      BY <1>0, <2>0, <3>1, <3>2, <3>3, ConcatProperties DEF TypeOK
    <3> QED BY <1>5, <2>0, <2>3, <3>4 DEF es_read_fbf, ReadInv, ShortOnlyAtEnd
  <2> QED BY <1>5, <2>1, <2>2, <2>3 DEF es_read_fbf
<1>6. CASE es_fill
  <2>0. /\ op \in {"read", "getline"} /\ (op = "read" => strategy # "nbf") /\ ~ HoldsOutput
        /\ UNCHANGED <<writing, strategy, stored, op, want, got>>
        /\ pc' \in {"out", "es_read_fbf", "es_peek"} /\ (pc' = "es_read_fbf" => op = "read")
    BY <1>0, <1>6 DEF es_fill, FillReads, FillFails, es_empty, ReadInv, ControlInv,
       ContentInv, ReadLabels, HoldsOutput
  <2>1. Len(buffer') = Len(buffer)
    <3>1. CASE FillReads
      <4> PICK n \in ReadCounts(buffer_size) :
             TakeInput(n) /\ buffer' = Overlay(buffer, 0, Slice(file, kpos, kpos + n))
        BY <3>1 DEF FillReads
      <4>1. /\ n \in 0 .. Len(buffer) /\ Slice(file, kpos, kpos + n) \in Seq(Int)
            /\ Len(Slice(file, kpos, kpos + n)) = n
        BY <1>0, ReadTakesBytes DEF buffer_size
      <4> QED BY <1>0, <4>1, OverlayBytes DEF TypeOK
    <3>2. CASE FillFails
      BY <3>2 DEF FillFails
    <3> QED BY <1>6, <3>1, <3>2 DEF es_fill
  <2>2. pc' = "out" /\ err' = 0 /\ strategy # "nbf" => kpos' >= Len(file') /\ Unread' = <<>>
    <3> SUFFICES ASSUME pc' = "out", err' = 0, strategy # "nbf"
                 PROVE  kpos' >= Len(file') /\ Unread' = <<>>
      OBVIOUS
    <3>1. 0 \in ReadCounts(buffer_size) /\ TakeInput(0) /\ data_len' = 0 /\ data_offset' = 0
      BY <1>6 DEF es_fill, FillReads, FillFails
    <3>2. buffer_size \in Nat \ {0}
      BY <1>0 DEF ReadInv, buffer_size
    <3>3. kpos >= Len(file)
      BY <1>0, <3>1, <3>2, NothingReadAtEnd
    <3>4. Unread' = BufferBytes(0, 0)'
      BY <2>0, <3>1 DEF Unread, HoldsOutput
    <3>5. BufferBytes(0, 0)' = <<>>
      BY DEF BufferBytes
    <3> QED BY <1>0, <3>1, <3>3, <3>4, <3>5 DEF TakeInput, TypeOK
  <2> QED BY <2>0, <2>1, <2>2 DEF ReadInv, ShortOnlyAtEnd
<1>7. CASE es_peek
  <2>1. CASE writing \/ data_offset = data_len
    BY <1>0, <1>7, <2>1 DEF es_peek, ReadInv, ShortOnlyAtEnd, ControlInv
  <2>2. CASE ~ writing /\ data_offset # data_len
    <3> DEFINE data == BufferBytes(data_offset, data_len)
    <3>1. PICK n \in 1 .. Len(data) :
            /\ got' = got \o SubSeq(data, 1, n)
            /\ Goto(IF IsNewline(data[n]) THEN "out" ELSE "es_peek")
      BY <1>7, <2>2 DEF es_peek
    <3>2. data \in Seq(Int)
      BY <1>0, BufferBytesBytes DEF TypeOK
    <3>3. op = "getline" /\ UNCHANGED <<buffer, data_len, strategy, op, want, writing>>
      BY <1>0, <1>7, <2>2 DEF es_peek, ControlInv
    <3> HIDE DEF data
    <3>4. got' # <<>> /\ got'[Len(got')] = data[n]
      BY <1>0, <3>1, <3>2, LastOfConcat DEF TypeOK
    <3> QED BY <3>1, <3>3, <3>4 DEF ReadInv, ShortOnlyAtEnd
  <2> QED BY <2>1, <2>2
<1>8. CASE doreadline \/ LineAllocFails
  BY <1>8 DEF LineAllocFails, doreadline, LineStreamMade, LineStreamFails, ReadInv, ShortOnlyAtEnd
<1>9. CASE SwitchToReading
  BY <1>9 DEF SwitchToReading, ReadInv, ShortOnlyAtEnd
<1>10. CASE es_seek
  <2>0. pc = "es_seek" /\ op \in {"write", "fseek"}
    BY <1>0, <1>10 DEF es_seek, SeekFlushes, SeekMoves, SeekFails, ControlInv
  <2>1. CASE SeekFlushes      BY <2>0, <2>1 DEF SeekFlushes, ReadInv, ShortOnlyAtEnd
  <2>2. CASE SeekMoves
    BY <2>0, <2>2 DEF SeekMoves, WriteFunction, ReadInv, ShortOnlyAtEnd
  <2>3. CASE SeekFails
    BY <2>0, <2>3 DEF SeekFails, WriteFunction, ReadInv, ShortOnlyAtEnd
  <2> QED BY <1>10, <2>1, <2>2, <2>3 DEF es_seek
<1>11. CASE es_writen
  BY <1>11 DEF es_writen, WriteFunction, ReadInv, ShortOnlyAtEnd
<1>12. CASE es_write_lbf
  BY <1>0, <1>12 DEF es_write_lbf, ReadInv, ShortOnlyAtEnd, ControlInv, WriteLabels
<1>13. CASE es_write_nbf
  <2>1. /\ op = "write" /\ pc' \in {"es_write_nbf", "es_write_fbf", "out"}
        /\ UNCHANGED <<strategy, buffer, op>>
    BY <1>0, <1>13 DEF es_write_nbf, ControlInv, WriteLabels
  <2> QED BY <2>1 DEF ReadInv, ShortOnlyAtEnd
<1>14. CASE es_write_fbf
  BY <1>0, <1>14 DEF es_write_fbf, ReadInv, ShortOnlyAtEnd, ControlInv, WriteLabels
<1>15. CASE write_copy
  <2> DEFINE n == SmallerOf(Len(src), buffer_size - data_offset)
  <2>1. op = "write" /\ pc' = "es_write_fbf" /\ UNCHANGED <<strategy, op>>
        /\ buffer' = Overlay(buffer, data_offset, SubSeq(src, 1, n))
    BY <1>0, <1>15 DEF write_copy, ControlInv, WriteLabels
  <2>2. n \in Nat /\ n <= Len(src) /\ data_offset + n <= Len(buffer)
    BY <1>0, LenProperties DEF SmallerOf, ContentInv, TypeOK, buffer_size
  <2> HIDE DEF n
  <2>3. SubSeq(src, 1, n) \in Seq(Int) /\ Len(SubSeq(src, 1, n)) = n
    <3>1. src \in Seq(Int) /\ 1 \in Nat \ {0} /\ n \in Int /\ n <= Len(src)
      BY <1>0, <2>2 DEF TypeOK
    <3>2. /\ SubSeq(src, 1, n) \in Seq(Int)
          /\ Len(SubSeq(src, 1, n)) = IF 1 <= n THEN n - 1 + 1 ELSE 0
      BY <3>1, SubSeqBytes
    <3> QED BY <2>2, <3>2
  <2>4. Len(buffer') = Len(buffer)
    BY <1>0, <2>1, <2>2, <2>3, OverlayBytes DEF TypeOK
  <2> QED BY <2>1, <2>4 DEF ReadInv, ShortOnlyAtEnd
<1>16. CASE do_fflush
  BY <1>0, <1>16 DEF do_fflush, ReadInv, ShortOnlyAtEnd, ControlInv
<1>17. CASE es_set_buffering
  BY <1>17 DEF es_set_buffering, ReadInv, ShortOnlyAtEnd
<1>18. CASE new_buffer
  <2>1. op = "setvbuf" /\ pc' = "out" /\ op' = op
    BY <1>0, <1>18 DEF new_buffer, ControlInv
  <2>2. strategy' = "nbf" <=> Len(buffer') = 0
    <3>1. CASE strategy' = "nbf"
      BY <1>18, <3>1 DEF new_buffer
    <3>2. CASE strategy' # "nbf"
      <4> PICK n \in VBufSizes : buffer' = [i \in 1 .. n |-> Junk]
        BY <1>18, <3>2 DEF new_buffer
      <4> QED BY <3>2, SizeAssumption, FreshBufferBytes
    <3> QED BY <3>1, <3>2
  <2> QED BY <2>1, <2>2 DEF ReadInv, ShortOnlyAtEnd
<1>19. CASE es_deinitialize
  BY <1>19 DEF es_deinitialize, ReadInv, ShortOnlyAtEnd
<1>20. CASE func_close
  BY <1>20 DEF func_close, ReadInv, ShortOnlyAtEnd
<1>21. CASE Return
  BY <1>21 DEF Return, ReadInv, ShortOnlyAtEnd
<1>22. CASE UNCHANGED vars
  BY <1>22 DEF vars, ReadInv, ShortOnlyAtEnd, Unread, HoldsOutput, BufferBytes
<1> QED
  BY <1>1, <1>2, <1>3, <1>4, <1>5, <1>6, <1>7, <1>8, <1>9, <1>10, <1>11, <1>12,
     <1>13, <1>14, <1>15, <1>16, <1>17, <1>18, <1>19, <1>20, <1>21, <1>22
     DEF Next, Step, Terminated

(* es_read and es_getline return success with less than was asked for, or  *)
(* without the end of the line, only when the object has no more: through  *)
(* short transfers, failures and changes of buffer, on an object that      *)
(* seeks or that is only read or only written.                             *)
THEOREM ReadsFallShortAtEnd ==
  ASSUME OneWayOrSeekable
  PROVE  Spec => []ShortOnlyAtEnd
<1>1. ReadInv => ShortOnlyAtEnd
  BY DEF ReadInv
<1> QED BY <1>1, IInvInit, NextKeepsIInv, InitRead, NextRead, PTL DEF Spec

-----------------------------------------------------------------------------
(* What is written reaches an object that cannot seek.                     *)

(* The bytes in the buffer that es_write has accepted, sent already or not *)
Buffered == IF HoldsOutput THEN BufferBytes(0, data_offset) ELSE <<>>

(* b is last at place i of s.                                              *)
IsLast(s, b, i) == s[i] = b /\ \A j \in i + 1 .. Len(s) : s[j] # b

(* Every byte of a is in x, and their last places there are in order.      *)
Ordered(a, x) ==
  /\ \A i \in 1 .. Len(a) : \E p \in 1 .. Len(x) : IsLast(x, a[i], p)
  /\ \A i, j \in 1 .. Len(a) : \A p, q \in 1 .. Len(x) :
       i < j /\ IsLast(x, a[i], p) /\ IsLast(x, a[j], q) => p < q

Magnitude(b) == IF b < 0 THEN - b ELSE b

(* The bytes of s are distinct, and the client made them up before m more. *)
Distinct(s, m) ==
  /\ \A i, j \in 1 .. Len(s) : s[i] = s[j] => i = j
  /\ \A i \in 1 .. Len(s) : Magnitude(s[i]) <= m

(* The buffer is the end both of what es_write has accepted and of what    *)
(* was and will be sent, whatever es_flush has to send again; what comes   *)
(* before the buffer has been sent, in order.                              *)
Kept(a, x) ==
  /\ accepted = a \o Buffered /\ sink \o Pending = x \o Buffered
  /\ Ordered(a, x)

(* The invariant: an unbuffered write finds the buffer flushed, es_fclose  *)
(* leaves nothing there unless it reports an error, and the bytes of a     *)
(* write are new.                                                          *)
OutInv == ~ Seekable =>
  /\ pc = "es_write_nbf" => data_offset = 0
  /\ pc \in {"func_close", "closed"} => Pending = <<>> \/ (err = -1 /\ faults # 0)
  /\ faults = 0 => accepted = sink \o Pending
  /\ \E a, x \in Seq(Int) : Kept(a, x)
  /\ tail # <<>> => \/ pc \in {"es_write_nbf", "out", "aborted"}
                    \/ pc = "es_flush" /\ cont = "es_write_nbf"
  /\ Distinct(accepted \o (src \o tail), Len(InitFile) + fresh)

(* Concatenation and equality, of sequences of bytes.                      *)
LEMMA ConcatBytes ==
  ASSUME NEW s \in Seq(Int), NEW t \in Seq(Int)
  PROVE  /\ s \o t \in Seq(Int)
         /\ Len(s) \in Nat /\ Len(t) \in Nat /\ Len(s \o t) = Len(s) + Len(t)
         /\ \A i \in 1 .. Len(s) : (s \o t)[i] = s[i]
         /\ \A i \in 1 .. Len(t) : (s \o t)[Len(s) + i] = t[i]
<1>1. Len(s) \in Nat /\ Len(t) \in Nat
  BY LenProperties
<1>2. /\ s \o t \in Seq(Int)
      /\ Len(s \o t) = Len(s) + Len(t)
      /\ \A i \in 1 .. Len(s) + Len(t) :
           (s \o t)[i] = IF i <= Len(s) THEN s[i] ELSE t[i - Len(s)]
  BY ConcatProperties
<1>3. ASSUME NEW i \in 1 .. Len(s) PROVE (s \o t)[i] = s[i]
  <2>1. i \in 1 .. Len(s) + Len(t) /\ i <= Len(s)
    BY <1>1
  <2> QED BY <1>2, <2>1
<1>4. ASSUME NEW i \in 1 .. Len(t) PROVE (s \o t)[Len(s) + i] = t[i]
  <2>1. /\ Len(s) + i \in 1 .. Len(s) + Len(t) /\ ~ (Len(s) + i <= Len(s))
        /\ Len(s) + i - Len(s) = i
    BY <1>1
  <2> QED BY <1>2, <2>1
<1> QED BY <1>1, <1>2, <1>3, <1>4

LEMMA SameBytes ==
  ASSUME NEW s \in Seq(Int), NEW t \in Seq(Int), Len(s) = Len(t),
         \A i \in 1 .. Len(s) : s[i] = t[i]
  PROVE  s = t
BY SeqEqual

(* A sequence is its first n bytes and the rest.                           *)
LEMMA SplitBytes ==
  ASSUME NEW s \in Seq(Int), NEW n \in 0 .. Len(s)
  PROVE  /\ SubSeq(s, 1, n) \in Seq(Int) /\ Len(SubSeq(s, 1, n)) = n
         /\ SubSeq(s, n + 1, Len(s)) \in Seq(Int)
         /\ Len(SubSeq(s, n + 1, Len(s))) = Len(s) - n
         /\ s = SubSeq(s, 1, n) \o SubSeq(s, n + 1, Len(s))
<1>0. Len(s) \in Nat /\ n \in Nat /\ n <= Len(s)
  BY LenProperties
<1>1. \A i \in 1 .. Len(s) : s[i] \in Int
  BY ElementOfSeq
<1>2. /\ SubSeq(s, 1, n) \in Seq(Int)
      /\ Len(SubSeq(s, 1, n)) = IF 1 <= n THEN n - 1 + 1 ELSE 0
  BY <1>0, <1>1, SubSeqProperties
<1>3. /\ SubSeq(s, n + 1, Len(s)) \in Seq(Int)
      /\ Len(SubSeq(s, n + 1, Len(s)))
           = IF n + 1 <= Len(s) THEN Len(s) - (n + 1) + 1 ELSE 0
  BY <1>0, <1>1, SubSeqProperties
<1>4. SubSeq(s, 1, n) \o SubSeq(s, n + 1, Len(s)) = SubSeq(s, 1, Len(s))
  <2>1. 1 \in 1 .. Len(s) + 1 /\ n \in 1 - 1 .. Len(s) /\ Len(s) \in n .. Len(s)
    BY <1>0
  <2> QED BY <2>1, ConcatAdjacentSubSeq
<1>5. SubSeq(s, 1, Len(s)) = s
  BY SubSeqFull
<1>6. (IF 1 <= n THEN n - 1 + 1 ELSE 0) = n
      /\ (IF n + 1 <= Len(s) THEN Len(s) - (n + 1) + 1 ELSE 0) = Len(s) - n
  BY <1>0
<1>7. Len(SubSeq(s, 1, n)) = n
  BY <1>2, <1>6
<1>8. Len(SubSeq(s, n + 1, Len(s))) = Len(s) - n
  BY <1>3, <1>6
<1>9. s = SubSeq(s, 1, n) \o SubSeq(s, n + 1, Len(s))
  BY <1>4, <1>5
<1>10. SubSeq(s, 1, n) \in Seq(Int) /\ SubSeq(s, n + 1, Len(s)) \in Seq(Int)
  BY <1>2, <1>3
<1> QED BY <1>7, <1>8, <1>9, <1>10

(* The buffer between two offsets, cut at a third.                         *)
LEMMA BufferSplit ==
  ASSUME buffer \in Seq(Int), NEW i \in Nat, NEW j \in Nat, i <= j, NEW n \in 0 .. j - i
  PROVE  /\ SubSeq(BufferBytes(i, j), 1, n) = BufferBytes(i, i + n)
         /\ BufferBytes(i, j) = BufferBytes(i, i + n) \o BufferBytes(i + n, j)
<1> DEFINE k == i + n
           s == BufferBytes(i, j)
           u == BufferBytes(i, k)
           v == BufferBytes(k, j)
           e(m) == IF m \in DOMAIN buffer THEN buffer[m] ELSE Junk
<1>0. k \in Nat /\ i <= k /\ k <= j /\ k - i = n /\ n \in Nat /\ n <= j - i
  OBVIOUS
<1>1. /\ \A m \in 1 .. j - i : s[m] = e(i + m)
      /\ \A m \in 1 .. k - i : u[m] = e(i + m)
      /\ \A m \in 1 .. j - k : v[m] = e(k + m)
  BY DEF BufferBytes
<1> HIDE DEF k, e
<1>2. s \in Seq(Int) /\ Len(s) = j - i /\ u \in Seq(Int) /\ Len(u) = n
      /\ v \in Seq(Int) /\ Len(v) = j - k
  BY <1>0, BufferBytesBytes
<1> HIDE DEF s, u, v
<1>3. SubSeq(s, 1, n) \in Seq(Int) /\ Len(SubSeq(s, 1, n)) = n
  BY <1>0, <1>2, SplitBytes
<1>4. \A m \in 1 .. n : SubSeq(s, 1, n)[m] = s[m]
  <2>1. \A m \in 1 .. n : s[m] \in Int
    BY <1>0, <1>2, ElementOfSeq
  <2>2. \A m \in 1 .. n - 1 + 1 : SubSeq(s, 1, n)[m] = s[1 + m - 1]
    BY <1>0, <2>1, SubSeqProperties
  <2> QED BY <1>0, <2>2
<1>5. SubSeq(s, 1, n) = u
  <2>1. \A m \in 1 .. n : SubSeq(s, 1, n)[m] = u[m]
    BY <1>0, <1>1, <1>4
  <2> QED BY <1>2, <1>3, <2>1, SameBytes
<1>6. /\ u \o v \in Seq(Int) /\ Len(u \o v) = j - i
      /\ \A m \in 1 .. n : (u \o v)[m] = u[m]
      /\ \A m \in 1 .. j - k : (u \o v)[n + m] = v[m]
  <2>1. /\ u \o v \in Seq(Int) /\ Len(u \o v) = Len(u) + Len(v)
        /\ \A m \in 1 .. Len(u) : (u \o v)[m] = u[m]
        /\ \A m \in 1 .. Len(v) : (u \o v)[Len(u) + m] = v[m]
    BY <1>2, ConcatBytes
  <2>2. n + (j - k) = j - i
    BY <1>0
  <2> QED BY <1>2, <2>1, <2>2
<1>7. \A m \in 1 .. j - i : s[m] = (u \o v)[m]
  <2> TAKE m \in 1 .. j - i
  <2>1. CASE m <= n
    BY <1>0, <1>1, <1>6, <2>1
  <2>2. CASE ~ m <= n
    <3>1. m - n \in 1 .. j - k /\ k + (m - n) = i + m /\ n + (m - n) = m
      BY <1>0, <2>2
    <3> QED BY <1>1, <1>6, <3>1
  <2> QED BY <2>1, <2>2
<1>8. s = u \o v
  BY <1>2, <1>6, <1>7, SameBytes
<1> QED BY <1>5, <1>8 DEF s, u, v, k

(* Bytes stored at data_offset, when they fit, come after those before it. *)
LEMMA BufferStored ==
  ASSUME buffer \in Seq(Int), data_offset \in Nat, NEW s \in Seq(Int),
         data_offset + Len(s) <= Len(buffer),
         buffer' = Overlay(buffer, data_offset, s),
         data_offset' = data_offset + Len(s)
  PROVE  BufferBytes(0, data_offset)' = BufferBytes(0, data_offset) \o s
<1> DEFINE d == data_offset
           b == BufferBytes(0, d)
           c == BufferBytes(0, d)'
<1>0. /\ d \in Nat /\ Len(s) \in Nat /\ Len(buffer) \in Nat /\ d + Len(s) <= Len(buffer)
      /\ data_offset' \in Nat
  BY LenProperties
<1>1. buffer' \in Seq(Int) /\ Len(buffer') = Len(buffer)
  BY OverlayBytes
<1>2. /\ DOMAIN buffer = 1 .. Len(buffer) /\ DOMAIN buffer' = 1 .. Len(buffer)
  BY <1>1, LenProperties
<1>3. \A i \in 1 .. d + Len(s) :
        buffer'[i] = IF i > d THEN s[i - d] ELSE buffer[i]
  <2> TAKE i \in 1 .. d + Len(s)
  <2>1. CASE s = <<>>
    <3>1. Len(s) = 0 /\ buffer' = buffer
      BY <2>1 DEF Overlay
    <3> QED BY <1>0, <3>1
  <2>2. CASE s # <<>>
    <3>1. i \in 1 .. Larger(Len(buffer), d + Len(s)) /\ i <= Len(buffer)
      BY <1>0 DEF Larger
    <3>2. buffer' = [k \in 1 .. Larger(Len(buffer), d + Len(s)) |->
                       IF k > d /\ k <= d + Len(s) THEN s[k - d]
                       ELSE IF k <= Len(buffer) THEN buffer[k] ELSE 0]
      BY <2>2 DEF Overlay
    <3> QED BY <1>0, <3>1, <3>2
  <2> QED BY <2>1, <2>2
<1>4. /\ b \in Seq(Int) /\ Len(b) = d
      /\ c \in Seq(Int) /\ Len(c) = d + Len(s)
  <2>1. b \in Seq(Int) /\ Len(b) = d
    <3>1. 0 \in Nat /\ 0 <= d /\ d - 0 = d
      BY <1>0
    <3>2. b \in Seq(Int) /\ Len(b) = IF 0 <= d THEN d - 0 ELSE 0
      BY <1>0, <3>1, BufferBytesBytes
    <3> QED BY <3>1, <3>2
  <2>2. \A i \in 1 .. d + Len(s) : buffer'[i] \in Int
    BY <1>0, <1>1, ElementOfSeq
  <2>3. c = [k \in 1 .. d + Len(s) |-> buffer'[k]]
    BY <1>0, <1>2 DEF BufferBytes
  <2>4. [k \in 1 .. d + Len(s) |-> buffer'[k]] \in [1 .. d + Len(s) -> Int]
    BY <2>2
  <2>5. c \in Seq(Int) /\ DOMAIN c = 1 .. d + Len(s)
    <3> DEFINE n == d + Len(s)
    <3>1. n \in Nat /\ c \in [1 .. n -> Int]
      BY <1>0, <2>3, <2>4
    <3> HIDE DEF n, c
    <3>2. c \in Seq(Int) /\ DOMAIN c = 1 .. n
      BY <3>1, SeqDef
    <3> QED BY <3>2 DEF n
  <2>6. Len(c) = d + Len(s)
    <3>1. DOMAIN c = 1 .. Len(c) /\ Len(c) \in Nat
      BY <2>5, LenProperties
    <3> HIDE DEF c
    <3> QED BY <1>0, <2>5, <3>1
  <2> QED BY <2>1, <2>5, <2>6
<1>5. /\ \A i \in 1 .. d : b[i] = buffer[i]
      /\ \A i \in 1 .. d + Len(s) : c[i] = buffer'[i]
  BY <1>0, <1>2 DEF BufferBytes
<1> HIDE DEF b, c
<1>6. /\ b \o s \in Seq(Int) /\ Len(b \o s) = d + Len(s)
      /\ \A i \in 1 .. d : (b \o s)[i] = b[i]
      /\ \A i \in 1 .. Len(s) : (b \o s)[d + i] = s[i]
  BY <1>4, ConcatBytes
<1>7. \A i \in 1 .. d + Len(s) : c[i] = (b \o s)[i]
  <2> TAKE i \in 1 .. d + Len(s)
  <2>1. CASE i <= d
    BY <1>0, <1>3, <1>5, <1>6, <2>1
  <2>2. CASE i > d
    <3>1. i - d \in 1 .. Len(s) /\ d + (i - d) = i
      BY <1>0, <2>2
    <3> QED BY <1>3, <1>5, <1>6, <2>2, <3>1
  <2>3. i <= d \/ i > d
    BY <1>0
  <2> QED BY <2>1, <2>2, <2>3
<1>8. c = b \o s
  BY <1>4, <1>6, <1>7, SameBytes
<1> QED BY <1>8 DEF b, c

(* A byte has one last place.                                              *)
LEMMA LastIsUnique ==
  ASSUME NEW s \in Seq(Int), NEW b \in Int, NEW p \in 1 .. Len(s), NEW q \in 1 .. Len(s),
         IsLast(s, b, p), IsLast(s, b, q)
  PROVE  p = q
<1>1. Len(s) \in Nat
  BY LenProperties
<1> QED BY <1>1 DEF IsLast

(* It stays the last one when bytes follow it that are different.          *)
LEMMA LastStays ==
  ASSUME NEW s \in Seq(Int), NEW t \in Seq(Int), NEW b \in Int, NEW p \in 1 .. Len(s),
         IsLast(s, b, p), \A i \in 1 .. Len(t) : t[i] # b
  PROVE  p \in 1 .. Len(s \o t) /\ IsLast(s \o t, b, p)
<1>1. /\ Len(s) \in Nat /\ Len(t) \in Nat /\ Len(s \o t) = Len(s) + Len(t)
      /\ \A i \in 1 .. Len(s) : (s \o t)[i] = s[i]
      /\ \A i \in 1 .. Len(t) : (s \o t)[Len(s) + i] = t[i]
  BY ConcatBytes
<1>2. ASSUME NEW j \in p + 1 .. Len(s \o t) PROVE (s \o t)[j] # b
  <2>1. CASE j <= Len(s)
    BY <1>1, <2>1 DEF IsLast
  <2>2. CASE j > Len(s)
    <3>1. j - Len(s) \in 1 .. Len(t) /\ Len(s) + (j - Len(s)) = j
      BY <1>1, <2>2
    <3> QED BY <1>1, <3>1
  <2> QED BY <1>1, <2>1, <2>2
<1>3. (s \o t)[p] = b
  BY <1>1 DEF IsLast
<1> QED BY <1>1, <1>2, <1>3 DEF IsLast

(* Bytes sent after those of a that are none of them leave a in order.     *)
LEMMA OrderedExtend ==
  ASSUME NEW a \in Seq(Int), NEW x \in Seq(Int), NEW t \in Seq(Int), Ordered(a, x),
         \A i \in 1 .. Len(a), k \in 1 .. Len(t) : t[k] # a[i]
  PROVE  Ordered(a, x \o t)
<1>0. x \o t \in Seq(Int) /\ \A i \in 1 .. Len(a) : a[i] \in Int
  BY ConcatBytes, ElementOfSeq
<1>1. ASSUME NEW i \in 1 .. Len(a)
      PROVE  \E p \in 1 .. Len(x) : /\ IsLast(x, a[i], p)
                                    /\ p \in 1 .. Len(x \o t) /\ IsLast(x \o t, a[i], p)
  <2>1. PICK p \in 1 .. Len(x) : IsLast(x, a[i], p)
    BY DEF Ordered
  <2>2. p \in 1 .. Len(x \o t) /\ IsLast(x \o t, a[i], p)
    BY <1>0, <2>1, LastStays
  <2> QED BY <2>1, <2>2
<1>2. ASSUME NEW i \in 1 .. Len(a), NEW j \in 1 .. Len(a),
             NEW p \in 1 .. Len(x \o t), NEW q \in 1 .. Len(x \o t),
             i < j, IsLast(x \o t, a[i], p), IsLast(x \o t, a[j], q)
      PROVE  p < q
  <2>1. PICK p0 \in 1 .. Len(x) : /\ IsLast(x, a[i], p0)
                                  /\ p0 \in 1 .. Len(x \o t) /\ IsLast(x \o t, a[i], p0)
    BY <1>1
  <2>2. PICK q0 \in 1 .. Len(x) : /\ IsLast(x, a[j], q0)
                                  /\ q0 \in 1 .. Len(x \o t) /\ IsLast(x \o t, a[j], q0)
    BY <1>1
  <2>3. p = p0
    BY <1>0, <1>2, <2>1, LastIsUnique
  <2>4. q = q0
    BY <1>0, <1>2, <2>2, LastIsUnique
  <2>5. p0 < q0
    BY <1>2, <2>1, <2>2 DEF Ordered
  <2> QED BY <2>3, <2>4, <2>5
<1> QED BY <1>1, <1>2 DEF Ordered

(* So do new bytes that are both accepted and sent.                        *)
LEMMA OrderedAppend ==
  ASSUME NEW a \in Seq(Int), NEW x \in Seq(Int), NEW t \in Seq(Int), Ordered(a, x),
         \A i, j \in 1 .. Len(a \o t) : (a \o t)[i] = (a \o t)[j] => i = j
  PROVE  Ordered(a \o t, x \o t)
<1> DEFINE la == Len(a)
           lx == Len(x)
           lt == Len(t)
<1>1. /\ la \in Nat /\ lt \in Nat /\ Len(a \o t) = la + lt /\ a \o t \in Seq(Int)
      /\ \A i \in 1 .. la : (a \o t)[i] = a[i]
      /\ \A i \in 1 .. lt : (a \o t)[la + i] = t[i]
  BY ConcatBytes
<1>2. /\ lx \in Nat /\ Len(x \o t) = lx + lt /\ x \o t \in Seq(Int)
      /\ \A i \in 1 .. lx : (x \o t)[i] = x[i]
      /\ \A i \in 1 .. lt : (x \o t)[lx + i] = t[i]
  BY ConcatBytes
<1> HIDE DEF la, lx, lt
<1>3. ASSUME NEW i \in 1 .. la, NEW k \in 1 .. lt PROVE t[k] # a[i]
  <2>1. i \in 1 .. Len(a \o t) /\ la + k \in 1 .. Len(a \o t) /\ i # la + k
    BY <1>1
  <2> QED BY <1>1, <2>1
<1>4. Ordered(a, x \o t)
  BY <1>3, OrderedExtend DEF la, lt
<1>5. ASSUME NEW k \in 1 .. lt
      PROVE  lx + k \in 1 .. Len(x \o t) /\ IsLast(x \o t, t[k], lx + k)
  <2>1. ASSUME NEW j \in lx + k + 1 .. Len(x \o t) PROVE (x \o t)[j] # t[k]
    <3>1. /\ j - lx \in 1 .. lt /\ j - lx # k /\ lx + (j - lx) = j
          /\ la + k \in 1 .. Len(a \o t) /\ la + (j - lx) \in 1 .. Len(a \o t)
          /\ la + k # la + (j - lx)
      BY <1>1, <1>2
    <3>2. (x \o t)[j] = t[j - lx]
      BY <1>2, <3>1
    <3> QED BY <1>1, <3>1, <3>2
  <2>2. (x \o t)[lx + k] = t[k]
    BY <1>2
  <2>3. lx + k \in 1 .. Len(x \o t)
    BY <1>1, <1>2
  <2> QED BY <2>1, <2>2, <2>3 DEF IsLast
<1>6. \A i \in 1 .. Len(a \o t) : (a \o t)[i] \in Int
  BY <1>1, ElementOfSeq
<1>7. ASSUME NEW i \in 1 .. Len(a \o t)
      PROVE  \E p \in 1 .. Len(x \o t) : IsLast(x \o t, (a \o t)[i], p)
  <2>1. CASE i <= la
    <3>1. i \in 1 .. Len(a) /\ (a \o t)[i] = a[i]
      BY <1>1, <2>1 DEF la
    <3> QED BY <1>4, <3>1 DEF Ordered
  <2>2. CASE i > la
    <3>1. i - la \in 1 .. lt /\ la + (i - la) = i
      BY <1>1, <2>2
    <3>2. (a \o t)[i] = t[i - la]
      BY <1>1, <3>1
    <3> QED BY <1>5, <3>1, <3>2
  <2> QED BY <1>1, <2>1, <2>2
<1>8. ASSUME NEW i \in 1 .. Len(a \o t), NEW j \in 1 .. Len(a \o t),
             NEW p \in 1 .. Len(x \o t), NEW q \in 1 .. Len(x \o t),
             i < j, IsLast(x \o t, (a \o t)[i], p), IsLast(x \o t, (a \o t)[j], q)
      PROVE  p < q
  <2>1. CASE j <= la
    <3>1. i \in 1 .. Len(a) /\ j \in 1 .. Len(a) /\ (a \o t)[i] = a[i] /\ (a \o t)[j] = a[j]
      BY <1>1, <1>8, <2>1 DEF la
    <3> QED BY <1>4, <1>8, <3>1 DEF Ordered
  <2>2. CASE j > la
    <3>1. j - la \in 1 .. lt /\ la + (j - la) = j /\ (a \o t)[j] = t[j - la]
      BY <1>1, <2>2
    <3>2. lx + (j - la) \in 1 .. Len(x \o t) /\ IsLast(x \o t, (a \o t)[j], lx + (j - la))
      BY <1>5, <3>1
    <3>3. q = lx + (j - la)
      BY <1>2, <1>6, <1>8, <3>2, LastIsUnique
    <3>4. CASE i <= la
      <4>1. i \in 1 .. Len(a) /\ (a \o t)[i] = a[i] /\ a[i] \in Int
        BY <1>1, <1>6, <3>4 DEF la
      <4>2. PICK p0 \in 1 .. Len(x) : IsLast(x, a[i], p0)
        BY <4>1 DEF Ordered
      <4>3. \A k \in 1 .. Len(t) : t[k] # a[i]
        BY <1>3, <4>1 DEF la, lt
      <4>4. p0 \in 1 .. Len(x \o t) /\ IsLast(x \o t, a[i], p0)
        BY <4>1, <4>2, <4>3, LastStays
      <4>5. p = p0
        BY <1>2, <1>8, <4>1, <4>4, LastIsUnique
      <4>6. p0 \in 1 .. lx
        BY DEF lx
      <4> QED BY <1>2, <3>1, <3>3, <4>5, <4>6
    <3>5. CASE i > la
      <4>0. i - la \in 1 .. lt /\ la + (i - la) = i
        BY <1>1, <3>5
      <4>1. i - la \in 1 .. lt /\ la + (i - la) = i /\ (a \o t)[i] = t[i - la]
        BY <1>1, <4>0
      <4>2. lx + (i - la) \in 1 .. Len(x \o t) /\ IsLast(x \o t, (a \o t)[i], lx + (i - la))
        BY <1>5, <4>1
      <4>3. p = lx + (i - la)
        BY <1>2, <1>6, <1>8, <4>2, LastIsUnique
      <4> QED BY <1>1, <1>2, <1>8, <3>3, <4>3
    <3> QED BY <1>1, <3>4, <3>5
  <2> QED BY <1>1, <2>1, <2>2
<1> QED BY <1>7, <1>8 DEF Ordered

(* Seq(Int) by a name: the provers need not know what it is closed under.  *)
Bytes == Seq(Int)

LEMMA BytesAssociative ==
  ASSUME NEW s \in Bytes, NEW t \in Bytes, NEW u \in Bytes
  PROVE  (s \o t) \o u = s \o (t \o u)
<1>1. s \in Seq(Int) /\ t \in Seq(Int) /\ u \in Seq(Int)
  BY DEF Bytes
<1> QED BY <1>1, ConcatAssociative, SMTT(30)

(* Concatenation is associative, and empty sequences do not matter.        *)
LEMMA ConcatThree ==
  ASSUME NEW s \in Seq(Int), NEW t \in Seq(Int), NEW u \in Seq(Int)
  PROVE  /\ (s \o t) \o u = s \o (t \o u)
         /\ s \o t \in Seq(Int) /\ s \o <<>> = s /\ <<>> \o s = s
<1>1. (s \o t) \o u = s \o (t \o u)
  <2>1. s \in Bytes /\ t \in Bytes /\ u \in Bytes
    BY DEF Bytes
  <2> QED BY <2>1, BytesAssociative
<1>2. s \o t \in Seq(Int)
  BY ConcatProperties
<1>3. s \o <<>> = s /\ <<>> \o s = s
  BY ConcatEmptySeq
<1> QED BY <1>1, <1>2, <1>3

(* The beginning of a sequence of distinct bytes is one.                   *)
LEMMA DistinctStart ==
  ASSUME NEW s \in Seq(Int), NEW t \in Seq(Int), NEW m \in Nat, Distinct(s \o t, m)
  PROVE  Distinct(s, m)
<1>1. /\ Len(s) \in Nat /\ Len(t) \in Nat /\ Len(s \o t) = Len(s) + Len(t)
      /\ \A i \in 1 .. Len(s) : (s \o t)[i] = s[i]
  BY ConcatBytes
<1>2. \A i \in 1 .. Len(s) : i \in 1 .. Len(s \o t)
  BY <1>1
<1> QED BY <1>1, <1>2 DEF Distinct

(* The bytes of a new request are distinct from all before them.           *)
LEMMA DistinctRequest ==
  ASSUME fresh \in Nat, NEW s \in Seq(Int), Distinct(s, Len(InitFile) + fresh),
         NEW n \in Nat, NEW nl \in Nat
  PROVE  /\ NewBytes(n, nl) \in Seq(Int)
         /\ Distinct(s \o NewBytes(n, nl), Len(InitFile) + (fresh + n))
<1> DEFINE m == Len(InitFile) + fresh
           t == NewBytes(n, nl)
           e(i) == IF i = nl THEN - (m + i) ELSE m + i
<1>1. m \in Nat
  BY FileAssumption, LenProperties
<1>2. t = [i \in 1 .. n |-> e(i)]
  BY DEF NewBytes
<1>3. \A i \in 1 .. n : e(i) \in Int
  BY <1>1
<1>4. Len(InitFile) + (fresh + n) = m + n
  BY FileAssumption, LenProperties
<1>5. Distinct(s, m)
  OBVIOUS
<1> HIDE DEF m
<1>6. \A i \in 1 .. n : t[i] = e(i) /\ Magnitude(t[i]) = m + i
  BY <1>1, <1>2 DEF Magnitude
<1> HIDE DEF t
<1>7. t \in Seq(Int) /\ Len(t) = n
  <2>1. t \in [1 .. n -> Int]
    BY <1>2, <1>3
  <2>2. t \in Seq(Int) /\ DOMAIN t = 1 .. n
    BY <2>1, SeqDef
  <2>3. DOMAIN t = 1 .. Len(t) /\ Len(t) \in Nat
    BY <2>2, LenProperties
  <2> QED BY <2>2, <2>3
<1>8. /\ Len(s) \in Nat /\ Len(s \o t) = Len(s) + n
      /\ \A i \in 1 .. Len(s) : (s \o t)[i] = s[i]
      /\ \A i \in 1 .. n : (s \o t)[Len(s) + i] = t[i]
  <2>1. /\ Len(s) \in Nat /\ Len(s \o t) = Len(s) + Len(t)
        /\ \A i \in 1 .. Len(s) : (s \o t)[i] = s[i]
        /\ \A i \in 1 .. Len(t) : (s \o t)[Len(s) + i] = t[i]
    BY <1>7, ConcatBytes
  <2> QED BY <1>7, <2>1
<1>9. /\ \A i \in 1 .. Len(s) : Magnitude((s \o t)[i]) <= m
      /\ \A i \in 1 .. n : Magnitude((s \o t)[Len(s) + i]) = m + i
  BY <1>5, <1>6, <1>8 DEF Distinct
<1>10. \A i \in Len(s) + 1 .. Len(s) + n :
         /\ i - Len(s) \in 1 .. n /\ i = Len(s) + (i - Len(s))
         /\ Magnitude((s \o t)[i]) = m + (i - Len(s))
  <2> TAKE i \in Len(s) + 1 .. Len(s) + n
  <2>1. i - Len(s) \in 1 .. n /\ i = Len(s) + (i - Len(s))
    BY <1>8
  <2> QED BY <1>9, <2>1
<1>11. ASSUME NEW i \in 1 .. Len(s \o t), NEW j \in 1 .. Len(s \o t),
              (s \o t)[i] = (s \o t)[j]
       PROVE  i = j
  <2>1. CASE i <= Len(s) /\ j <= Len(s)
    <3>1. i \in 1 .. Len(s) /\ j \in 1 .. Len(s)
      BY <1>8, <2>1
    <3> QED BY <1>5, <1>8, <1>11, <3>1 DEF Distinct
  <2>2. CASE i <= Len(s) /\ j > Len(s)
    <3>1. i \in 1 .. Len(s) /\ j \in Len(s) + 1 .. Len(s) + n
      BY <1>8, <2>2
    <3>2. Magnitude((s \o t)[i]) <= m /\ Magnitude((s \o t)[j]) = m + (j - Len(s))
      BY <1>9, <1>10, <3>1
    <3>3. Magnitude((s \o t)[i]) = m + (j - Len(s)) /\ j - Len(s) > 0
      BY <1>8, <1>11, <3>1, <3>2
    <3> QED BY <1>1, <1>8, <3>2, <3>3
  <2>3. CASE i > Len(s) /\ j <= Len(s)
    <3>1. j \in 1 .. Len(s) /\ i \in Len(s) + 1 .. Len(s) + n
      BY <1>8, <2>3
    <3>2. Magnitude((s \o t)[j]) <= m /\ Magnitude((s \o t)[i]) = m + (i - Len(s))
      BY <1>9, <1>10, <3>1
    <3>3. Magnitude((s \o t)[j]) = m + (i - Len(s)) /\ i - Len(s) > 0
      BY <1>8, <1>11, <3>1, <3>2
    <3> QED BY <1>1, <1>8, <3>2, <3>3
  <2>4. CASE i > Len(s) /\ j > Len(s)
    <3>1. i \in Len(s) + 1 .. Len(s) + n /\ j \in Len(s) + 1 .. Len(s) + n
      BY <1>8, <2>4
    <3>2. m + (i - Len(s)) = m + (j - Len(s))
      BY <1>10, <1>11, <3>1
    <3> QED BY <1>1, <1>8, <3>2
  <2> QED BY <1>8, <2>1, <2>2, <2>3, <2>4
<1>12. ASSUME NEW i \in 1 .. Len(s \o t) PROVE Magnitude((s \o t)[i]) <= m + n
  <2>1. CASE i <= Len(s)
    <3>1. i \in 1 .. Len(s) /\ (s \o t)[i] = s[i]
      BY <1>8, <2>1
    <3>2. s[i] \in Int /\ Magnitude(s[i]) <= m
      BY <1>5, <3>1, ElementOfSeq DEF Distinct
    <3> QED BY <1>1, <3>1, <3>2 DEF Magnitude
  <2>2. CASE i > Len(s)
    <3>1. i \in Len(s) + 1 .. Len(s) + n
      BY <1>8, <2>2
    <3> QED BY <1>1, <1>8, <1>10, <3>1
  <2> QED BY <1>8, <2>1, <2>2
<1>13. Distinct(s \o t, m + n)
  BY <1>11, <1>12 DEF Distinct
<1> QED BY <1>4, <1>7, <1>13 DEF t

(* Where the conjuncts of the invariant come from when es_write has        *)
(* accepted nothing new and nothing is lost.                               *)
LEMMA OutputStays ==
  ASSUME ~ Seekable, OutInv,
         UNCHANGED accepted, Buffered' = Buffered, sink' \o Pending' = sink \o Pending,
         faults' = 0 => faults = 0,
         pc' = "es_write_nbf" => data_offset' = 0,
         pc' \in {"func_close", "closed"} => Pending' = <<>> \/ (err' = -1 /\ faults' # 0),
         tail' # <<>> => \/ pc' \in {"es_write_nbf", "out", "aborted"}
                         \/ pc' = "es_flush" /\ cont' = "es_write_nbf",
         Distinct(accepted \o (src' \o tail'), Len(InitFile) + fresh')
  PROVE  OutInv'
BY DEF OutInv, Kept

(* A step that does not touch the output in the buffer.                    *)
LEMMA QuietStep ==
  ASSUME ~ Seekable, OutInv, TypeOK,
         UNCHANGED <<accepted, sink, src, tail, fresh>>, faults' \in {faults, faults + 1},
         HoldsOutput' <=> HoldsOutput,
         HoldsOutput => UNCHANGED <<buffer, data_offset, flushed>>,
         pc' = "es_write_nbf" => data_offset' = 0,
         pc' \in {"func_close", "closed"} => Pending = <<>> \/ (err' = -1 /\ faults' # 0),
         tail # <<>> => \/ pc' \in {"es_write_nbf", "out", "aborted"}
                        \/ pc' = "es_flush" /\ cont' = "es_write_nbf"
  PROVE  OutInv'
<1>1. Buffered' = Buffered /\ Pending' = Pending
  <2>1. CASE HoldsOutput
    BY <2>1 DEF Buffered, Pending, BufferBytes
  <2>2. CASE ~ HoldsOutput
    BY <2>2 DEF Buffered, Pending
  <2> QED BY <2>1, <2>2
<1>2. faults' = 0 => faults = 0
  BY DEF TypeOK
<1>3. Distinct(accepted \o (src' \o tail'), Len(InitFile) + fresh')
  BY DEF OutInv
<1> QED BY <1>1, <1>2, <1>3, OutputStays

LEMMA InitOut == Init => OutInv
<1> SUFFICES ASSUME Init, ~ Seekable PROVE OutInv
  BY DEF OutInv
<1>1. Buffered = <<>> /\ Pending = <<>>
  BY NothingUnread DEF Init, Buffered, Pending
<1>2. <<>> \in Seq(Int) /\ Len(<<>>) = 0 /\ <<>> \o <<>> = <<>>
  <2>1. <<>> \in Seq(Int) /\ Len(<<>>) = 0
    BY EmptySeq
  <2> QED BY <2>1, ConcatEmptySeq
<1>3. Kept(<<>>, <<>>)
  BY <1>1, <1>2 DEF Init, Kept, Ordered
<1>4. Distinct(accepted \o (src \o tail), Len(InitFile) + fresh)
  BY <1>2 DEF Init, Distinct
<1>5. /\ pc = "idle" /\ tail = <<>> /\ accepted = sink \o Pending
  BY <1>1, <1>2 DEF Init
<1> QED BY <1>2, <1>3, <1>4, <1>5 DEF OutInv

(* An object that cannot seek takes n bytes of s.                          *)
LEMMA SinkTakes ==
  ASSUME ~ Seekable, OneWayOrSeekable, NEW s, NEW n, WriteTakes(s, n)
  PROVE  /\ sink' = sink \o SubSeq(s, 1, n)
         /\ UNCHANGED fresh /\ faults' \in {faults, faults + 1}
BY DEF WriteTakes, StoreOutput, Seekable, OneWayOrSeekable

(* An empty buffer holds no output.                                        *)
LEMMA NoOutput ==
  ASSUME data_offset = 0, flushed = 0
  PROVE  Buffered = <<>> /\ Pending = <<>>
BY NothingUnread DEF Buffered, Pending

LEMMA NoOutputNext ==
  ASSUME data_offset' = 0, flushed' = 0
  PROVE  Buffered' = <<>> /\ Pending' = <<>>
<1>1. BufferBytes(0, 0)' = <<>>
  BY DEF BufferBytes
<1> QED BY <1>1 DEF Buffered, Pending

(* The output in the buffer is made of bytes.                              *)
LEMMA OutputBytes ==
  ASSUME TypeOK
  PROVE  Buffered \in Seq(Int) /\ Pending \in Seq(Int)
<1>1. <<>> \in Seq(Int)
  BY EmptySeq
<1>2. BufferBytes(0, data_offset) \in Seq(Int) /\ BufferBytes(flushed, data_offset) \in Seq(Int)
  BY BufferBytesBytes DEF TypeOK
<1> QED BY <1>1, <1>2 DEF Buffered, Pending

(* es_flush keeps it.  What the object takes leaves the buffer; after an   *)
(* error the buffer is sent again from its first byte, which moves what    *)
(* was sent of it among the bytes before it.                               *)
LEMMA FlushOut ==
  ASSUME OneWayOrSeekable, ~ Seekable, IInv, OutInv, es_flush
  PROVE  OutInv'
<1> USE DEF Goto, Fault, backend, stream, flushing, request, ghosts
<1>0. TypeOK /\ ControlInv /\ ContentInv
  BY DEF IInv
<1>1. CASE FlushAssertFails
  BY <1>0, <1>1, QuietStep DEF FlushAssertFails, HoldsOutput
<1>2. CASE FlushWriteOver
  BY <1>2 DEF FlushWriteOver, OneWayOrSeekable
<1>3. pc = "es_flush" /\ tail' = tail /\ UNCHANGED <<fresh, src>>
  BY DEF es_flush, FlushAssertFails, FlushWrite, FlushWriteOver, FlushFails, FlushReturns,
         FlushEvent, WriteTakes
<1>4. Distinct(accepted \o (src' \o tail'), Len(InitFile) + fresh')
  BY <1>3 DEF OutInv
<1>5. CASE FlushWrite
  <2>0. PICK n \in 0 .. data_offset - flushed :
          WriteTakes(BufferBytes(flushed, data_offset), n) /\ flushed' = flushed + n
    BY <1>5 DEF FlushWrite
  <2>1. /\ writing /\ pc' = pc /\ cont' = cont /\ UNCHANGED accepted
        /\ UNCHANGED <<buffer, data_offset, writing>>
    BY <1>5 DEF FlushWrite
  <2>2. flushed \in Nat /\ data_offset \in Nat /\ flushed <= data_offset /\ buffer \in Seq(Int)
    BY <1>0 DEF TypeOK, ContentInv
  <2> DEFINE u == BufferBytes(flushed, flushed + n)
             v == BufferBytes(flushed + n, data_offset)
  <2>3. /\ SubSeq(BufferBytes(flushed, data_offset), 1, n) = u
        /\ BufferBytes(flushed, data_offset) = u \o v
    BY <2>2, BufferSplit
  <2>4. u \in Seq(Int) /\ v \in Seq(Int) /\ sink \in Seq(Int)
    <3>1. flushed + n \in Nat
      BY <2>2
    <3>2. sink \in Seq(Int)
      BY <1>0 DEF TypeOK
    <3> QED BY <2>2, <3>1, <3>2, BufferBytesBytes
  <2>5. sink' = sink \o u /\ faults' \in {faults, faults + 1}
    BY <2>0, <2>3, SinkTakes
  <2>6. Buffered' = Buffered
    BY <2>1 DEF Buffered, HoldsOutput, BufferBytes
  <2>7. Pending = u \o v /\ Pending' = v
    BY <2>0, <2>1, <2>3 DEF Pending, HoldsOutput, BufferBytes
  <2> HIDE DEF u, v
  <2>8. sink' \o Pending' = sink \o Pending
    <3>1. u \in Bytes /\ v \in Bytes /\ sink \in Bytes
      BY <2>4 DEF Bytes
    <3>2. (sink \o u) \o v = sink \o (u \o v)
      BY <3>1, BytesAssociative
    <3> QED BY <2>5, <2>7, <3>2
  <2>9. faults' = 0 => faults = 0
    BY <1>0, <2>5 DEF TypeOK
  <2> QED BY <1>3, <1>4, <2>1, <2>6, <2>8, <2>9, OutputStays DEF OutInv
<1>6. CASE FlushFails
  <2>1. /\ writing /\ flushed' = 0 /\ err' = -1 /\ UNCHANGED <<accepted, sink>>
        /\ UNCHANGED <<buffer, data_offset, writing, stored>>
        /\ pc' = (IF op = "fclose" THEN cont ELSE "out") /\ faults' = faults + 1
    BY <1>6 DEF FlushFails
  <2>2. /\ flushed \in Nat /\ data_offset \in Nat /\ flushed <= data_offset /\ buffer \in Seq(Int)
        /\ sink \in Seq(Int) /\ accepted \in Seq(Int)
    BY <1>0 DEF TypeOK, ContentInv
  <2>3. faults' # 0 /\ pc' \in {"func_close", "out"}
    BY <1>0, <1>3, <2>1 DEF TypeOK, ControlInv, FlushTargets
  <2> DEFINE u == BufferBytes(0, flushed)
             v == BufferBytes(flushed, data_offset)
  <2>4. u \in Seq(Int) /\ v \in Seq(Int)
    BY <2>2, BufferBytesBytes
  <2>5. /\ Buffered = u \o v /\ Pending = v
        /\ Buffered' = u \o v /\ Pending' = u \o v
    <3>1. flushed \in 0 .. data_offset - 0 /\ 0 + flushed = flushed
      BY <2>2
    <3>2. BufferBytes(0, data_offset) = u \o v
      <4>1. 0 \in Nat /\ 0 <= data_offset
        BY <2>2
      <4>2. BufferBytes(0, data_offset)
              = BufferBytes(0, 0 + flushed) \o BufferBytes(0 + flushed, data_offset)
        BY <2>2, <3>1, <4>1, BufferSplit
      <4> QED BY <3>1, <4>2
    <3>3. Buffered = u \o v /\ Pending = v
      BY <2>1, <3>2 DEF Buffered, Pending, HoldsOutput
    <3>4. Buffered' = BufferBytes(0, data_offset) /\ Pending' = BufferBytes(0, data_offset)
      BY <2>1 DEF Buffered, Pending, HoldsOutput, BufferBytes
    <3> QED BY <3>2, <3>3, <3>4
  <2> HIDE DEF u, v
  <2>6. PICK a \in Seq(Int), x \in Seq(Int) :
          /\ accepted = a \o (u \o v) /\ sink \o v = x \o (u \o v)
          /\ Ordered(a, x)
    BY <2>5 DEF OutInv, Kept
  <2>7. x \o u \in Seq(Int) /\ u \o v \in Seq(Int) /\ x \o (u \o v) = (x \o u) \o v
    <3>1. u \in Bytes /\ v \in Bytes /\ x \in Bytes
      BY <2>4 DEF Bytes
    <3>2. (x \o u) \o v = x \o (u \o v)
      BY <3>1, BytesAssociative
    <3>3. x \o u \in Seq(Int) /\ u \o v \in Seq(Int)
      BY <2>4, ConcatProperties
    <3> QED BY <3>2, <3>3
  <2>8. sink = x \o u
    BY <2>2, <2>4, <2>6, <2>7, ConcatSimplifications
  <2>9. \A i \in 1 .. Len(a), k \in 1 .. Len(u) : u[k] # a[i]
    <3> TAKE i \in 1 .. Len(a), k \in 1 .. Len(u)
    <3>1. /\ Len(a) \in Nat /\ Len(u) \in Nat
          /\ Len(a \o (u \o v)) = Len(a) + Len(u \o v)
          /\ \A j \in 1 .. Len(a) : (a \o (u \o v))[j] = a[j]
          /\ \A j \in 1 .. Len(u \o v) : (a \o (u \o v))[Len(a) + j] = (u \o v)[j]
      BY <2>4, <2>7, ConcatBytes
    <3>2. /\ Len(v) \in Nat /\ Len(u \o v) = Len(u) + Len(v)
          /\ \A j \in 1 .. Len(u) : (u \o v)[j] = u[j]
      BY <2>4, ConcatBytes
    <3>3. /\ k \in 1 .. Len(u \o v) /\ i \in 1 .. Len(accepted)
          /\ Len(a) + k \in 1 .. Len(accepted) /\ Len(a) + k # i
      BY <2>6, <3>1, <3>2
    <3>4. accepted[i] = a[i] /\ accepted[Len(a) + k] = u[k]
      BY <2>6, <3>1, <3>2, <3>3
    <3>5. Distinct(accepted, Len(InitFile) + fresh)
      <4>1. /\ src \o tail \in Seq(Int) /\ Len(InitFile) + fresh \in Nat
        BY <1>0, ConcatThree, FileAssumption, LenProperties DEF TypeOK
      <4> QED BY <2>2, <4>1, DistinctStart DEF OutInv
    <3> QED BY <3>3, <3>4, <3>5 DEF Distinct
  <2>10. Ordered(a, x \o u)
    BY <2>4, <2>6, <2>9, OrderedExtend
  <2>11. accepted' = a \o Buffered' /\ sink' \o Pending' = (x \o u) \o Buffered'
    BY <2>1, <2>5, <2>6, <2>8
  <2>12. \E b \in Seq(Int), y \in Seq(Int) : Kept(b, y)'
    BY <2>7, <2>10, <2>11 DEF Kept
  <2> QED
    BY <1>0, <1>3, <1>4, <2>1, <2>3, <2>12 DEF OutInv
<1>7. CASE FlushReturns
  <2>1. /\ flushed = data_offset /\ data_offset' = 0 /\ flushed' = 0
        /\ UNCHANGED <<accepted, sink, err>> /\ pc' = cont /\ writing
        /\ faults' = 0 => faults = 0
    BY <1>0, <1>7 DEF FlushReturns, FlushEvent, TypeOK, ContentInv
  <2>2. accepted \in Seq(Int) /\ sink \in Seq(Int) /\ Buffered \in Seq(Int)
    BY <1>0, OutputBytes DEF TypeOK
  <2>3. Pending = <<>> /\ Buffered' = <<>> /\ Pending' = <<>>
    <3>1. Pending = <<>>
      BY <1>0, <2>1, NothingUnread DEF Pending, TypeOK
    <3> QED BY <2>1, <3>1, NoOutputNext
  <2>4. /\ sink \o <<>> = sink /\ accepted \o <<>> = accepted
    BY <2>2, ConcatThree
  <2>5. PICK a \in Seq(Int), x \in Seq(Int) :
          accepted = a \o Buffered /\ sink = x \o Buffered /\ Ordered(a, x)
    BY <2>3, <2>4 DEF OutInv, Kept
  <2>6. Ordered(accepted, sink)
    <3>1. Distinct(accepted, Len(InitFile) + fresh)
      <4>1. /\ src \o tail \in Seq(Int) /\ Len(InitFile) + fresh \in Nat
        BY <1>0, ConcatThree, FileAssumption, LenProperties DEF TypeOK
      <4> QED BY <2>2, <4>1, DistinctStart DEF OutInv
    <3>2. \A i, j \in 1 .. Len(a \o Buffered) :
            (a \o Buffered)[i] = (a \o Buffered)[j] => i = j
      BY <2>5, <3>1 DEF Distinct
    <3> QED BY <2>2, <2>5, <3>2, OrderedAppend
  <2>7. Kept(accepted, sink)'
    BY <2>1, <2>3, <2>4, <2>6 DEF Kept
  <2>8. \E b \in Seq(Int), y \in Seq(Int) : Kept(b, y)'
    BY <2>1, <2>2, <2>7 DEF Kept
  <2>9. tail' # <<>> => pc' = "es_write_nbf"
    BY <1>3, <2>1 DEF OutInv
  <2>10. faults' = 0 => accepted' = sink' \o Pending'
    BY <2>1, <2>3, <2>4 DEF OutInv
  <2> QED BY <1>4, <2>1, <2>3, <2>8, <2>9, <2>10 DEF OutInv
<1> QED BY <1>1, <1>2, <1>5, <1>6, <1>7 DEF es_flush

(* An unbuffered write keeps it: the buffer is empty, and what the object  *)
(* takes has been accepted.                                                *)
LEMMA UnbufferedOut ==
  ASSUME OneWayOrSeekable, ~ Seekable, IInv, OutInv, es_write_nbf
  PROVE  OutInv'
<1> USE DEF Goto, Fail, Fault, backend, stream, flushing, request, ghosts
<1>0. TypeOK /\ ControlInv /\ ContentInv
  BY DEF IInv
<1>1. /\ pc = "es_write_nbf" /\ data_offset = 0 /\ flushed = 0 /\ op = "write"
      /\ UNCHANGED <<data_offset, flushed, buffer, writing>>
  BY <1>0 DEF es_write_nbf, OutInv, ContentInv, ControlInv, WriteLabels
<1>2. Buffered = <<>> /\ Pending = <<>> /\ Buffered' = <<>> /\ Pending' = <<>>
  BY <1>1, NoOutput, NoOutputNext
<1>3. /\ src \in Seq(Int) /\ tail \in Seq(Int) /\ accepted \in Seq(Int) /\ sink \in Seq(Int)
  BY <1>0 DEF TypeOK
<1>4. CASE /\ \E n \in 0 .. Len(src) :
                /\ WriteTakes(src, n) /\ Accept(SubSeq(src, 1, n))
                /\ src' = SubSeq(src, n + 1, Len(src))
           /\ Goto("es_write_nbf") /\ UNCHANGED tail
  <2>0. PICK n \in 0 .. Len(src) :
             /\ WriteTakes(src, n) /\ Accept(SubSeq(src, 1, n))
             /\ src' = SubSeq(src, n + 1, Len(src))
    BY <1>4
  <2> DEFINE s == SubSeq(src, 1, n)
  <2>1. /\ s \in Seq(Int) /\ src' \in Seq(Int) /\ src = s \o src'
    BY <1>3, <2>0, SplitBytes
  <2>2. /\ accepted' = accepted \o s /\ sink' = sink \o s
        /\ UNCHANGED fresh /\ faults' \in {faults, faults + 1}
    BY <2>0, SinkTakes DEF Accept
  <2> HIDE DEF s
  <2>3. accepted' \o (src' \o tail') = accepted \o (src \o tail)
    <3>1. s \in Bytes /\ src' \in Bytes /\ tail \in Bytes /\ accepted \in Bytes
      BY <1>3, <2>1 DEF Bytes
    <3>2. src' \o tail \in Bytes
      BY <3>1, ConcatProperties DEF Bytes
    <3>3. (s \o src') \o tail = s \o (src' \o tail)
      BY <3>1, BytesAssociative
    <3>4. (accepted \o s) \o (src' \o tail) = accepted \o (s \o (src' \o tail))
      BY <3>1, <3>2, BytesAssociative
    <3>5. tail' = tail
      BY <1>4
    <3> QED BY <2>1, <2>2, <3>3, <3>4, <3>5
  <2>4. Distinct(accepted' \o (src' \o tail'), Len(InitFile) + fresh')
    BY <2>2, <2>3 DEF OutInv
  <2>5. /\ accepted \o s \in Seq(Int) /\ sink \o s \in Seq(Int)
        /\ accepted \o <<>> = accepted /\ sink \o <<>> = sink
        /\ accepted' \o <<>> = accepted' /\ sink' \o <<>> = sink'
    BY <1>3, <2>1, <2>2, ConcatThree
  <2>6. Ordered(accepted, sink)
    <3>1. PICK a \in Seq(Int), x \in Seq(Int) :
            accepted = a \o <<>> /\ sink \o <<>> = x \o <<>> /\ Ordered(a, x)
      BY <1>2 DEF OutInv, Kept
    <3>2. a \o <<>> = a /\ x \o <<>> = x
      BY ConcatThree
    <3> QED BY <2>5, <3>1, <3>2
  <2>7. Ordered(accepted \o s, sink \o s)
    <3>0. src' \in Seq(Int) /\ tail' \in Seq(Int)
      BY <1>3, <1>4, <2>1
    <3>1. src' \o tail' \in Seq(Int) /\ Len(InitFile) + fresh' \in Nat
      <4>1. src' \o tail' \in Seq(Int)
        BY <3>0, ConcatThree
      <4> QED BY <1>0, <2>2, <4>1, FileAssumption, LenProperties DEF TypeOK
    <3>2. Distinct(accepted', Len(InitFile) + fresh')
      BY <2>2, <2>4, <2>5, <3>1, DistinctStart
    <3>3. \A i, j \in 1 .. Len(accepted \o s) :
            (accepted \o s)[i] = (accepted \o s)[j] => i = j
      BY <2>2, <3>2 DEF Distinct
    <3> QED BY <1>3, <2>1, <2>6, <3>3, OrderedAppend
  <2>9. \E b \in Seq(Int), y \in Seq(Int) : Kept(b, y)'
    <3>1. PICK b \in Seq(Int), y \in Seq(Int) : b = accepted' /\ y = sink'
      BY <2>2, <2>5
    <3>2. accepted' = b \o <<>> /\ sink' \o <<>> = y \o <<>> /\ Ordered(b, y)
      BY <2>2, <2>5, <2>7, <3>1
    <3>3. Kept(b, y)'
      BY <1>2, <3>2 DEF Kept
    <3> QED BY <3>3
  <2>10. faults' = 0 => accepted' = sink' \o Pending'
    <3>1. faults' = 0 => accepted = sink
      BY <1>0, <1>2, <2>2, <2>5 DEF OutInv, TypeOK
    <3> QED BY <1>2, <2>2, <2>5, <3>1
  <2> QED BY <1>1, <1>2, <1>4, <2>4, <2>9, <2>10 DEF OutInv
<1>5. CASE Fault("write") /\ Fail /\ UNCHANGED <<backend, src, tail, stored>>
  BY <1>0, <1>1, <1>5, QuietStep DEF HoldsOutput
<1>6. CASE /\ src = <<>> /\ src' = tail /\ tail' = <<>> /\ UNCHANGED <<backend, stored, ghosts>>
           /\ Goto(IF strategy = "lbf" THEN "es_write_fbf" ELSE "out")
  <2>1. src \o tail = tail /\ src' \o tail' = tail
    BY <1>3, <1>6, ConcatThree
  <2>2. Distinct(accepted \o (src' \o tail'), Len(InitFile) + fresh')
    BY <1>6, <2>1 DEF OutInv
  <2> QED BY <1>2, <1>6, <2>2, OutputStays
<1> QED BY <1>4, <1>5, <1>6 DEF es_write_nbf

(* Storing in the buffer keeps it.                                         *)
LEMMA CopyOut ==
  ASSUME ~ Seekable, IInv, OutInv, write_copy
  PROVE  OutInv'
<1> USE DEF Goto
<1>0. TypeOK /\ ControlInv /\ ContentInv
  BY DEF IInv
<1> DEFINE n == SmallerOf(Len(src), buffer_size - data_offset)
           s == SubSeq(src, 1, n)
<1>1. /\ pc = "write_copy" /\ pc' = "es_write_fbf" /\ flushed = 0 /\ flushed' = 0
      /\ UNCHANGED <<sink, faults, fresh, tail, writing>>
      /\ buffer' = Overlay(buffer, data_offset, s) /\ data_offset' = data_offset + n
      /\ src' = SubSeq(src, n + 1, Len(src))
      /\ stored' = (stored \/ s # <<>>) /\ accepted' = accepted \o s
  BY <1>0 DEF write_copy, Accept, backend, flushing, ContentInv
<1>2. /\ src \in Seq(Int) /\ tail \in Seq(Int) /\ accepted \in Seq(Int) /\ sink \in Seq(Int)
      /\ buffer \in Seq(Int) /\ data_offset \in Nat /\ Len(buffer) \in Nat /\ Len(src) \in Nat
  BY <1>0, LenProperties DEF TypeOK
<1>3. n \in 0 .. Len(src) /\ data_offset + n <= Len(buffer)
  BY <1>0, <1>2 DEF SmallerOf, ContentInv, buffer_size
<1> HIDE DEF n
<1>4. s \in Seq(Int) /\ Len(s) = n /\ src' \in Seq(Int) /\ src = s \o src'
  BY <1>1, <1>2, <1>3, SplitBytes
<1> HIDE DEF s
<1>5. /\ BufferBytes(0, data_offset)' = BufferBytes(0, data_offset) \o s
      /\ BufferBytes(0, data_offset) \in Seq(Int) /\ 0 \in Nat
  BY <1>1, <1>2, <1>3, <1>4, BufferStored, BufferBytesBytes
<1>6. Buffered \in Seq(Int) /\ Buffered' = Buffered \o s /\ Pending = Buffered
      /\ Pending' = Buffered'
  <2>1. CASE HoldsOutput
    <3>1. HoldsOutput'
      BY <1>1, <2>1 DEF HoldsOutput
    <3>2. Buffered = BufferBytes(0, data_offset) /\ Pending = Buffered
      BY <1>1, <2>1 DEF Buffered, Pending
    <3>3. Buffered' = BufferBytes(0, data_offset)' /\ Pending' = Buffered'
      BY <1>1, <3>1 DEF Buffered, Pending, BufferBytes
    <3> QED BY <1>5, <3>2, <3>3
  <2>2. CASE ~ HoldsOutput
    <3>1. data_offset = 0
      BY <1>0, <1>1, <2>2 DEF ContentInv, WriteLabels
    <3>2. BufferBytes(0, data_offset) = <<>> /\ <<>> \o s = s
      BY <1>4, <3>1, NothingUnread, ConcatThree
    <3>3. Buffered = <<>> /\ Pending = <<>>
      BY <2>2 DEF Buffered, Pending
    <3>4. CASE s = <<>>
      <4>1. ~ HoldsOutput'
        BY <1>1, <2>2, <3>4 DEF HoldsOutput
      <4> QED BY <1>5, <3>2, <3>3, <3>4, <4>1 DEF Buffered, Pending
    <3>5. CASE s # <<>>
      <4>1. HoldsOutput'
        BY <1>1, <3>5 DEF HoldsOutput
      <4>2. Buffered' = BufferBytes(0, data_offset)' /\ Pending' = Buffered'
        BY <1>1, <4>1 DEF Buffered, Pending, BufferBytes
      <4> QED BY <1>5, <3>2, <3>3, <4>2
    <3> QED BY <3>4, <3>5
  <2> QED BY <2>1, <2>2
<1>7. Distinct(accepted' \o (src' \o tail'), Len(InitFile) + fresh')
  <2>1. s \in Bytes /\ src' \in Bytes /\ tail \in Bytes /\ accepted \in Bytes
    BY <1>2, <1>4 DEF Bytes
  <2>2. src' \o tail \in Bytes
    BY <2>1, ConcatProperties DEF Bytes
  <2>3. (s \o src') \o tail = s \o (src' \o tail)
    BY <2>1, BytesAssociative
  <2>4. (accepted \o s) \o (src' \o tail) = accepted \o (s \o (src' \o tail))
    BY <2>1, <2>2, BytesAssociative
  <2>5. accepted' \o (src' \o tail') = accepted \o (src \o tail)
    BY <1>1, <1>4, <2>3, <2>4
  <2> QED BY <1>1, <2>5 DEF OutInv
<1>8. \E b \in Seq(Int), y \in Seq(Int) : Kept(b, y)'
  <2>0. s \in Seq(Int) /\ Buffered \in Seq(Int)
    BY <1>4, <1>6
  <2>1. \A b \in Seq(Int) : (b \o Buffered) \o s = b \o (Buffered \o s)
    <3>1. s \in Bytes /\ Buffered \in Bytes
      BY <2>0 DEF Bytes
    <3>2. \A b \in Bytes : (b \o Buffered) \o s = b \o (Buffered \o s)
      BY <3>1, BytesAssociative
    <3> QED BY <3>2 DEF Bytes
  <2>2. PICK a \in Seq(Int), x \in Seq(Int) :
          /\ accepted = a \o Buffered /\ sink \o Buffered = x \o Buffered
          /\ Ordered(a, x)
    BY <1>6 DEF OutInv, Kept
  <2>3. accepted' = a \o Buffered'
    BY <1>1, <1>6, <2>1, <2>2
  <2>4. sink' \o Pending' = x \o Buffered'
    BY <1>1, <1>2, <1>6, <2>1, <2>2
  <2>5. Kept(a, x)'
    BY <2>2, <2>3, <2>4 DEF Kept
  <2> QED BY <2>5
<1>9. faults' = 0 => accepted' = sink' \o Pending'
  <2>0. s \in Seq(Int) /\ sink \in Seq(Int) /\ Buffered \in Seq(Int)
    BY <1>2, <1>4, <1>6
  <2>1. (sink \o Buffered) \o s = sink \o (Buffered \o s)
    <3>1. s \in Bytes /\ Buffered \in Bytes /\ sink \in Bytes
      BY <2>0 DEF Bytes
    <3> QED BY <3>1, BytesAssociative
  <2> QED BY <1>1, <1>6, <2>1 DEF OutInv
<1>10. tail' = <<>>
  BY <1>1 DEF OutInv
<1> QED BY <1>1, <1>7, <1>8, <1>9, <1>10 DEF OutInv

(* Every step keeps it.                                                    *)
LEMMA NextOut ==
  ASSUME OneWayOrSeekable
  PROVE  IInv /\ ReadInv /\ OutInv /\ [Next]_vars => OutInv'
<1> SUFFICES ASSUME ~ Seekable, IInv, ReadInv, OutInv, [Next]_vars PROVE OutInv'
  BY DEF OutInv, Seekable
<1> USE DEF Goto, Fail, Fault, CallFlush, backend, stream, flushing, request, ghosts
<1>0. TypeOK /\ ControlInv /\ ContentInv /\ IInv'
  BY NextKeepsIInv DEF IInv
<1>1. CASE Call
  <2>1. CASE es_read \/ es_getline \/ es_fseek \/ es_fflush \/ es_setvbuf
    <3>1. /\ pc' \notin {"es_write_nbf", "func_close", "closed"}
          /\ UNCHANGED <<backend, stream, flushing, src, tail, stored, fresh, faults, accepted>>
      BY <2>1 DEF es_read, es_getline, es_fseek, es_fflush, es_setvbuf, Begin
    <3>2. tail = <<>>
      BY <2>1 DEF es_read, es_getline, es_fseek, es_fflush, es_setvbuf, Begin, OutInv
    <3> QED BY <1>0, <3>1, <3>2, QuietStep DEF HoldsOutput
  <2>2. CASE es_clearerr \/ es_fclose
    <3>1. /\ pc' \notin {"es_write_nbf", "func_close", "closed"}
          /\ UNCHANGED <<backend, buffer, data_offset, writing, flushed, src, tail, stored,
                         fresh, faults, accepted>>
      BY <2>2 DEF es_clearerr, es_fclose
    <3>2. tail = <<>>
      BY <2>2 DEF es_clearerr, es_fclose, OutInv
    <3> QED BY <1>0, <3>1, <3>2, QuietStep DEF HoldsOutput
  <2>3. CASE es_write
    <3>1. PICK n \in 0 .. MaxRequest :
            (\E nl \in 0 .. n : src' = NewBytes(n, nl)) /\ fresh' = fresh + n
      BY <2>3 DEF es_write
    <3> PICK nl \in 0 .. n : src' = NewBytes(n, nl)
      BY <3>1
    <3>2. /\ UNCHANGED <<sink, accepted, faults, tail, buffer, data_offset, writing, stored,
                         flushed>>
          /\ pc = "idle" /\ pc' = "es_writen"
      BY <2>3 DEF es_write, Begin
    <3>3. tail' = <<>>
      BY <3>2 DEF OutInv
    <3>4. Distinct(accepted, Len(InitFile) + fresh)
      <4>1. /\ src \o tail \in Seq(Int) /\ Len(InitFile) + fresh \in Nat /\ accepted \in Seq(Int)
        BY <1>0, ConcatThree, FileAssumption, LenProperties DEF TypeOK
      <4> QED BY <4>1, DistinctStart DEF OutInv
    <3>5. /\ NewBytes(n, nl) \in Seq(Int)
          /\ Distinct(accepted \o NewBytes(n, nl), Len(InitFile) + (fresh + n))
      <4>1. n \in Nat /\ nl \in Nat /\ fresh \in Nat /\ accepted \in Seq(Int)
        BY <1>0, BoundAssumption DEF TypeOK
      <4> QED BY <3>4, <4>1, DistinctRequest
    <3>6. Distinct(accepted \o (src' \o tail'), Len(InitFile) + fresh')
      BY <3>1, <3>3, <3>5, ConcatThree
    <3>7. Buffered' = Buffered /\ Pending' = Pending
      BY <3>2 DEF Buffered, Pending, HoldsOutput, BufferBytes
    <3> QED BY <3>2, <3>3, <3>6, <3>7, OutputStays
  <2> QED BY <1>1, <2>1, <2>2, <2>3 DEF Call
<1>2. CASE es_flush
  BY <1>2, FlushOut
<1>3. CASE es_readn
  BY <1>0, <1>3, QuietStep DEF es_readn, HoldsOutput, OutInv, ContentInv
<1>4. CASE es_read_nbf
  <2>1. /\ UNCHANGED <<accepted, sink, src, tail, fresh, writing, stored, buffer, data_offset,
                       flushed>>
        /\ faults' \in {faults, faults + 1} /\ pc' \in {"out", "es_read_nbf"}
    BY <1>4 DEF es_read_nbf, TakeInput
  <2>2. tail = <<>>
    BY <1>4 DEF es_read_nbf, OutInv
  <2> QED BY <1>0, <2>1, <2>2, QuietStep DEF HoldsOutput
<1>5. CASE es_read_fbf
  <2>1. /\ UNCHANGED <<accepted, sink, src, tail, fresh, faults, writing, stored>>
        /\ pc' \in {"out", "es_read_fbf", "es_fill"} /\ ~ HoldsOutput /\ tail = <<>>
    BY <1>0, <1>5 DEF es_read_fbf, HoldsOutput, ControlInv, ContentInv, ReadLabels, OutInv
  <2> QED BY <1>0, <2>1, QuietStep DEF HoldsOutput
<1>6. CASE es_fill
  <2>1. /\ UNCHANGED <<accepted, sink, src, tail, fresh, writing, stored>>
        /\ faults' \in {faults, faults + 1} /\ tail = <<>>
        /\ pc' \in {"out", "es_read_fbf", "es_peek"} /\ ~ HoldsOutput
    BY <1>0, <1>6 DEF es_fill, FillReads, FillFails, TakeInput, HoldsOutput, ControlInv,
       ContentInv, ReadLabels, OutInv
  <2> QED BY <1>0, <2>1, QuietStep DEF HoldsOutput
<1>7. CASE es_peek
  <2>1. CASE writing \/ data_offset = data_len
    BY <1>0, <1>7, <2>1, QuietStep DEF es_peek, HoldsOutput, OutInv, ContentInv
  <2>2. CASE ~ writing /\ data_offset # data_len
    <3>1. /\ UNCHANGED <<accepted, sink, src, tail, fresh, faults, writing, stored>>
          /\ pc' \in {"out", "es_peek"} /\ ~ HoldsOutput /\ tail = <<>>
      BY <1>0, <1>7, <2>2 DEF es_peek, HoldsOutput, ControlInv, OutInv
    <3> QED BY <1>0, <3>1, QuietStep DEF HoldsOutput
  <2> QED BY <2>1, <2>2
<1>8. CASE doreadline \/ LineAllocFails
  BY <1>0, <1>8, QuietStep
     DEF LineAllocFails, doreadline, LineStreamMade, LineStreamFails, HoldsOutput, OutInv
<1>9. CASE SwitchToReading
  <2>1. /\ data_offset = 0 /\ flushed = 0 /\ data_offset' = 0 /\ flushed' = 0 /\ tail = <<>>
        /\ UNCHANGED <<accepted, sink, src, tail, fresh, faults>>
        /\ pc' \in {"es_readn", "es_peek", "es_seek"}
    BY <1>0, <1>9 DEF SwitchToReading, ContentInv, OutInv
  <2>2. Buffered' = Buffered /\ Pending' = Pending
    BY <2>1, NoOutput, NoOutputNext
  <2>3. Distinct(accepted \o (src' \o tail'), Len(InitFile) + fresh')
    BY <2>1 DEF OutInv
  <2> QED BY <2>1, <2>2, <2>3, OutputStays
<1>10. CASE es_seek
  <2>1. CASE SeekFlushes
    BY <1>0, <2>1, QuietStep DEF SeekFlushes, HoldsOutput, OutInv, ContentInv
  <2>2. CASE SeekMoves
    BY <2>2 DEF SeekMoves
  <2>3. CASE SeekFails
    <3>1. /\ UNCHANGED <<accepted, sink, src, tail, fresh, writing, stored, buffer, data_offset,
                         flushed>>
          /\ faults' \in {faults, faults + 1} /\ tail = <<>> /\ pc = "es_seek"
          /\ pc' \in {"out", "es_write_nbf", "es_write_lbf", "es_write_fbf"}
          /\ pc' = "es_write_nbf" => op = "write"
      BY <2>3 DEF SeekFails, WriteFunction, OutInv
    <3>2. pc' = "es_write_nbf" => data_offset' = 0
      BY <1>0, <3>1 DEF IInv, ControlInv, ContentInv, WriteLabels, HoldsOutput
    <3> QED BY <1>0, <3>1, <3>2, QuietStep DEF HoldsOutput
  <2> QED BY <1>10, <2>1, <2>2, <2>3 DEF es_seek
<1>11. CASE es_writen
  <2>1. /\ UNCHANGED <<accepted, sink, src, tail, fresh, faults, writing, stored, buffer,
                       data_offset, flushed>>
        /\ tail = <<>>
        /\ pc' \in {"es_seek", "es_write_nbf", "es_write_lbf", "es_write_fbf"}
        /\ pc' = "es_write_nbf" => strategy = "nbf"
    BY <1>11 DEF es_writen, WriteFunction, OutInv
  <2>2. pc' = "es_write_nbf" => data_offset' = 0
    BY <1>0, <2>1 DEF ReadInv, ContentInv, TypeOK, buffer_size
  <2> QED BY <1>0, <2>1, <2>2, QuietStep DEF HoldsOutput
<1>12. CASE es_write_lbf
  <2>0. PICK n \in 0 .. Len(src) :
          \/ n = 0 /\ Goto("es_write_fbf")
             /\ UNCHANGED <<backend, stream, flushing, request, ghosts>>
          \/ /\ n > 0 /\ CallFlush("es_write_nbf")
             /\ src' = SubSeq(src, 1, n) /\ tail' = SubSeq(src, n + 1, Len(src))
             /\ UNCHANGED <<want, got, stored>>
    BY <1>12 DEF es_write_lbf
  <2>1. CASE n = 0 /\ Goto("es_write_fbf")
             /\ UNCHANGED <<backend, stream, flushing, request, ghosts>>
    BY <1>0, <1>12, <2>1, QuietStep DEF es_write_lbf, HoldsOutput, OutInv
  <2>2. CASE /\ n > 0 /\ CallFlush("es_write_nbf")
             /\ src' = SubSeq(src, 1, n) /\ tail' = SubSeq(src, n + 1, Len(src))
             /\ UNCHANGED <<want, got, stored>>
    <3>1. /\ pc = "es_write_lbf" /\ flushed = 0 /\ flushed' = 0 /\ tail = <<>>
          /\ pc' = "es_flush" /\ cont' = "es_write_nbf"
          /\ UNCHANGED <<accepted, sink, fresh, faults, writing, stored, buffer, data_offset>>
      BY <1>0, <1>12, <2>2 DEF es_write_lbf, ContentInv, OutInv
    <3>2. src' \o tail' = src \o tail
      <4>1. src \in Seq(Int) /\ src \o tail = src
        BY <1>0, <3>1, ConcatThree DEF TypeOK
      <4>2. src = SubSeq(src, 1, n) \o SubSeq(src, n + 1, Len(src))
        BY <4>1, SplitBytes
      <4> QED BY <2>2, <4>1, <4>2
    <3>3. Buffered' = Buffered /\ Pending' = Pending
      BY <3>1 DEF Buffered, Pending, HoldsOutput, BufferBytes
    <3>4. Distinct(accepted \o (src' \o tail'), Len(InitFile) + fresh')
      BY <3>1, <3>2 DEF OutInv
    <3> QED BY <3>1, <3>3, <3>4, OutputStays
  <2> QED BY <2>0, <2>1, <2>2
<1>13. CASE es_write_nbf
  BY <1>13, UnbufferedOut
<1>14. CASE es_write_fbf
  BY <1>0, <1>14, QuietStep DEF es_write_fbf, HoldsOutput, OutInv, ContentInv
<1>15. CASE write_copy
  BY <1>15, CopyOut
<1>16. CASE do_fflush
  BY <1>0, <1>16, QuietStep
     DEF do_fflush, es_empty, HoldsOutput, OutInv, ContentInv, ControlInv
<1>17. CASE es_set_buffering
  BY <1>0, <1>17, QuietStep
     DEF es_set_buffering, es_empty, HoldsOutput, OutInv, ContentInv, ControlInv
<1>18. CASE new_buffer
  <2>1. /\ data_offset = 0 /\ flushed = 0 /\ data_offset' = 0 /\ flushed' = 0 /\ tail = <<>>
        /\ UNCHANGED <<accepted, sink, src, tail, fresh, faults>> /\ pc' = "out"
    BY <1>0, <1>18 DEF new_buffer, ContentInv, OutInv
  <2>2. Buffered' = Buffered /\ Pending' = Pending
    BY <2>1, NoOutput, NoOutputNext
  <2>3. Distinct(accepted \o (src' \o tail'), Len(InitFile) + fresh')
    BY <2>1 DEF OutInv
  <2> QED BY <2>1, <2>2, <2>3, OutputStays
<1>19. CASE es_deinitialize
  <2>1. CASE writing
    BY <1>0, <1>19, <2>1, QuietStep DEF es_deinitialize, HoldsOutput, OutInv, ContentInv
  <2>2. CASE ~ writing
    <3>1. ~ HoldsOutput /\ Pending = <<>>
      BY <1>0, <1>19, <2>2 DEF es_deinitialize, HoldsOutput, ControlInv, Pending
    <3> QED
      BY <1>0, <1>19, <2>2, <3>1, QuietStep DEF es_deinitialize, HoldsOutput, OutInv
  <2> QED BY <2>1, <2>2
<1>20. CASE func_close
  <2>1. Pending = <<>> \/ (err' = -1 /\ faults' # 0)
    BY <1>0, <1>20, BoundAssumption DEF func_close, OutInv, TypeOK
  <2> QED BY <1>0, <1>20, <2>1, QuietStep DEF func_close, HoldsOutput, OutInv
<1>21. CASE Return
  <2>1. /\ UNCHANGED <<accepted, sink, fresh, faults, buffer, data_offset, flushed>>
        /\ pc' = "idle" /\ src' = <<>> /\ tail' = <<>>
    BY <1>21 DEF Return
  <2>2. HoldsOutput' <=> HoldsOutput
    BY <1>0, <1>21 DEF Return, HoldsOutput, ControlInv
  <2>3. Buffered' = Buffered /\ Pending' = Pending
    BY <2>1, <2>2 DEF Buffered, Pending, BufferBytes
  <2>4. Distinct(accepted \o (src' \o tail'), Len(InitFile) + fresh')
    <3>1. /\ src \o tail \in Seq(Int) /\ Len(InitFile) + fresh \in Nat /\ accepted \in Seq(Int)
          /\ <<>> \in Seq(Int)
      BY <1>0, ConcatThree, FileAssumption, LenProperties, EmptySeq DEF TypeOK
    <3>2. Distinct(accepted, Len(InitFile) + fresh)
      BY <3>1, DistinctStart DEF OutInv
    <3>3. accepted \o (<<>> \o <<>>) = accepted
      BY <3>1, ConcatThree
    <3> QED BY <2>1, <3>2, <3>3
  <2> QED BY <2>1, <2>3, <2>4, OutputStays
<1>22. CASE UNCHANGED vars
  BY <1>0, <1>22, QuietStep DEF vars, HoldsOutput, OutInv
<1> QED
  BY <1>1, <1>2, <1>3, <1>4, <1>5, <1>6, <1>7, <1>8, <1>9, <1>10, <1>11, <1>12,
     <1>13, <1>14, <1>15, <1>16, <1>17, <1>18, <1>19, <1>20, <1>21, <1>22
     DEF Next, Step, Terminated

(* The invariant says what the two properties say.                         *)
LEMMA OutSaysExact ==
  ASSUME IInv, OutInv
  PROVE  OutputExact
<1> SUFFICES ASSUME ~ Seekable, faults = 0
             PROVE  accepted = IF pc = "closed" THEN sink ELSE sink \o Pending
  BY DEF OutputExact
<1>1. accepted = sink \o Pending /\ (pc = "closed" => Pending = <<>>)
  BY DEF OutInv
<1>2. sink \o <<>> = sink
  BY ConcatThree DEF IInv, TypeOK
<1> QED BY <1>1, <1>2

LEMMA OutSaysKept ==
  ASSUME IInv, OutInv
  PROVE  OutputKept
<1> SUFFICES ASSUME ~ Seekable, ~ (pc = "closed" /\ err # 0)
             PROVE  LET out == IF pc = "closed" THEN sink ELSE sink \o Pending
                    IN  \A i \in 1 .. Len(accepted) :
                          /\ LastPlace(out, accepted[i]) # 0
                          /\ i > 1 => LastPlace(out, accepted[i - 1])
                                        < LastPlace(out, accepted[i])
  BY DEF OutputKept
<1> DEFINE out == IF pc = "closed" THEN sink ELSE sink \o Pending
<1>1. /\ TypeOK /\ accepted \in Seq(Int) /\ sink \in Seq(Int)
      /\ Buffered \in Seq(Int) /\ Pending \in Seq(Int)
  BY OutputBytes DEF IInv, TypeOK
<1>2. out = sink \o Pending /\ out \in Seq(Int)
  <2>1. pc = "closed" => Pending = <<>>
    BY <1>1 DEF OutInv
  <2>2. sink \o <<>> = sink /\ sink \o Pending \in Seq(Int)
    BY <1>1, ConcatThree
  <2> QED BY <2>1, <2>2
<1> HIDE DEF out
<1>3. Ordered(accepted, out)
  <2>1. PICK a \in Seq(Int), x \in Seq(Int) :
          accepted = a \o Buffered /\ out = x \o Buffered /\ Ordered(a, x)
    BY <1>2 DEF OutInv, Kept
  <2>2. Distinct(accepted, Len(InitFile) + fresh)
    <3>1. /\ src \o tail \in Seq(Int) /\ Len(InitFile) + fresh \in Nat
      BY <1>1, ConcatThree, FileAssumption, LenProperties DEF TypeOK
    <3> QED BY <1>1, <3>1, DistinctStart DEF OutInv
  <2>3. \A i, j \in 1 .. Len(a \o Buffered) :
          (a \o Buffered)[i] = (a \o Buffered)[j] => i = j
    BY <2>1, <2>2 DEF Distinct
  <2> QED BY <1>1, <2>1, <2>3, OrderedAppend
<1>4. ASSUME NEW i \in 1 .. Len(accepted)
      PROVE  /\ LastPlace(out, accepted[i]) \in 1 .. Len(out)
             /\ IsLast(out, accepted[i], LastPlace(out, accepted[i]))
  <2>1. \E p \in 1 .. Len(out) : IsLast(out, accepted[i], p)
    BY <1>3 DEF Ordered
  <2> QED BY <2>1 DEF LastPlace, IsLast
<1>5. ASSUME NEW i \in 1 .. Len(accepted)
      PROVE  /\ LastPlace(out, accepted[i]) # 0
             /\ i > 1 => LastPlace(out, accepted[i - 1]) < LastPlace(out, accepted[i])
  <2>1. LastPlace(out, accepted[i]) # 0
    BY <1>2, <1>4, LenProperties
  <2>2. ASSUME i > 1
        PROVE  LastPlace(out, accepted[i - 1]) < LastPlace(out, accepted[i])
    <3>1. i - 1 \in 1 .. Len(accepted) /\ i - 1 < i
      BY <1>1, <2>2, LenProperties
    <3> QED BY <1>3, <1>4, <3>1 DEF Ordered
  <2> QED BY <2>1, <2>2
<1> QED BY <1>5 DEF out

(* On an object that cannot seek, and is only read or only written, the    *)
(* bytes es_write reports are the bytes sent and the bytes in the buffer,  *)
(* each once and in order, until a function of the object fails.           *)
THEOREM OutputIsExact ==
  ASSUME OneWayOrSeekable
  PROVE  Spec => []OutputExact
<1>1. IInv /\ OutInv => OutputExact
  BY OutSaysExact
<1> QED
  BY <1>1, IInvInit, NextKeepsIInv, InitRead, NextRead, InitOut, NextOut, PTL DEF Spec

(* And when its functions fail, at any call and however often, es_flush,   *)
(* which sends the whole buffer again, loses none of them and lets none    *)
(* overtake another, until es_fclose returns an error.                     *)
THEOREM OutputIsKept ==
  ASSUME OneWayOrSeekable
  PROVE  Spec => []OutputKept
<1>1. IInv /\ OutInv => OutputKept
  BY OutSaysKept
<1> QED
  BY <1>1, IInvInit, NextKeepsIInv, InitRead, NextRead, InitOut, NextOut, PTL DEF Spec

=============================================================================
