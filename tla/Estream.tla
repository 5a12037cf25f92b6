------------------------------ MODULE Estream ------------------------------
(***************************************************************************)
(* One stream of src/src/estream.c: the buffer it keeps between a client   *)
(* and an object with read, write and seek functions.                      *)
(*                                                                         *)
(* The C code is sequential: a client calls es_read, es_write, es_getline, *)
(* es_fseek, es_fflush, es_setvbuf, es_clearerr or es_fclose and the call  *)
(* returns before the next one starts.  What makes it hard is that one     *)
(* buffer holds input at one time and output at another, that every call   *)
(* may run into the object's functions, which transfer fewer bytes than    *)
(* asked or fail, and that an error leaves the stream in a state that the  *)
(* next call starts from.  So the model takes one step per call of an      *)
(* object's function and per loop iteration: pc is the C function the call *)
(* is in, cont where es_flush returns to.                                  *)
(*                                                                         *)
(* Not in the model, because nothing reads them: intern->offset and        *)
(* stream->data_flushed.  The unread buffer is always empty (no es_ungetc  *)
(* exists), so the loops over it are left out.                             *)
(*                                                                         *)
(* A definition headed "Variant" is the one it precedes with a bug in it:  *)
(* nothing uses it, it shows what a property of this module tells apart.   *)
(***************************************************************************)
EXTENDS FileContent, FiniteSets

CONSTANTS
  Kind,          (* "file": a seekable object, "append": one opened O_APPEND,
                    "pipe": its seek function fails with ESPIPE,
                    "noseek": it has no seek function.                     *)
  InitFile,      (* What the object holds at first.                        *)
  InitWriting,   (* Opened for writing (O_WRONLY or O_RDWR).               *)
  BlockSize,     (* BUFFER_BLOCK_SIZE, the size of the built-in buffer.    *)
  VBufSizes,     (* Sizes the client passes to es_setvbuf.                 *)
  Strategies,    (* Buffering modes it passes: among "nbf", "lbf", "fbf".  *)
  MaxRequest,    (* Bound on the bytes of one es_read or es_write.         *)
  SeekOffsets,   (* Offsets it passes to es_fseek.                         *)
  Ops,           (* The calls the client makes, es_fclose apart.           *)
  MaxCalls,      (* Bound on the number of calls.                          *)
  Faults,        (* What may go wrong in the object's functions and the
                    allocator: "read", "write", "seek", "close", "alloc"
                    fail; "event": the write function fails when it is
                    told of a flush; "zero": a write takes nothing; "over":
                    a user's one may return more than it was given.        *)
  MaxFaults      (* Bound on the number of faults ("over" is not counted). *)

Kinds      == {"file", "append", "pipe", "noseek"}
AllModes   == {"nbf", "lbf", "fbf"}
AllOps     == {"read", "write", "getline", "fseek", "fflush", "setvbuf",
               "clearerr"}
AllFaults  == {"read", "write", "seek", "close", "alloc", "event", "zero",
               "over"}
Seekable   == Kind \in {"file", "append"}

ASSUME KindAssumption      == Kind \in Kinds
ASSUME FileAssumption      == InitFile \in Seq(Int) /\ InitWriting \in BOOLEAN
ASSUME SizeAssumption      == /\ BlockSize \in Nat \ {0}
                              /\ VBufSizes \subseteq Nat \ {0}
ASSUME ClientAssumption    == /\ Strategies \subseteq AllModes
                              /\ Ops \subseteq AllOps
                              /\ SeekOffsets \subseteq Int
ASSUME BoundAssumption     == /\ MaxRequest \in Nat /\ MaxCalls \in Nat
                              /\ MaxFaults \in Nat
ASSUME FaultAssumption     == Faults \subseteq AllFaults
(* A write function that over-reports makes the size_t arithmetic of the   *)
(* unbuffered paths wrap: such an object is only followed through es_flush.*)
ASSUME OverAssumption      == "over" \in Faults =>
                                Ops \subseteq {"write", "fflush", "clearerr"}

VARIABLES
  file, kpos,       (* the object: its contents and its offset             *)
  sink,             (* what an object that is not seekable was sent        *)
  buffer,           (* stream->buffer, buffer_size bytes                   *)
  data_len,         (* bytes of input in it                                *)
  data_offset,      (* where the next byte is read from or stored          *)
  writing,          (* flags.writing                                       *)
  strategy,         (* intern->strategy                                    *)
  ind_err, ind_eof, (* intern->indicators                                  *)
  pc, cont,         (* the function the call is in; where es_flush returns *)
  op, err,          (* the call; its result so far, 0 or -1                *)
  want, got,        (* es_read: bytes asked for, bytes transferred         *)
  src, tail,        (* es_write: bytes to write, bytes after the last line *)
  stored,           (* es_write: *bytes_written is not 0                   *)
  flushed,          (* data_flushed in es_flush                            *)
  calls, faults,    (* bounds: calls made, faults met                      *)
  fresh,            (* number of bytes the client has made up              *)
  faulted,          (* the object failed during this call, flush events
                       apart                                               *)
  accepted          (* not seekable: bytes es_write has reported written   *)

backend == <<file, kpos, sink>>
stream  == <<buffer, data_len, data_offset, writing, strategy, ind_err, ind_eof>>
flushing == <<cont, flushed>>
request == <<want, got, src, tail, stored>>
ghosts  == <<calls, faults, fresh, faulted, accepted>>
vars    == <<backend, stream, pc, flushing, op, err, request, ghosts>>

buffer_size == Len(buffer)
SmallerOf(a, b) == IF a < b THEN a ELSE b

(* What memory that was never written holds.                               *)
Junk == 0

(* What the C code finds between two offsets of the buffer.                *)
BufferBytes(i, j) ==
  [k \in 1 .. j - i |->
     IF i + k \in DOMAIN buffer THEN buffer[i + k] ELSE Junk]

-----------------------------------------------------------------------------
(* The object's functions.                                                 *)

(* A fault of kind f: counted, and remembered unless the object retries.   *)
Fault(f) ==
  /\ f \in Faults /\ faults < MaxFaults
  /\ faults' = faults + 1
  /\ faulted' = TRUE
  /\ UNCHANGED <<calls, fresh, accepted>>

(* func_read (cookie, buf, size): some of the bytes at the offset, none    *)
(* only at the end of the object.                                          *)
ReadCounts(size) ==
  LET most == SmallerOf(size, Len(file) - kpos)
  IN  IF most <= 0 THEN {0} ELSE 1 .. most

TakeInput(n) == /\ kpos' = kpos + n
                /\ UNCHANGED <<file, sink>>

(* The object takes the bytes of s.  One that over-reports keeps nothing.  *)
StoreOutput(s) ==
  \/ /\ Kind = "file"
     /\ file' = Overlay(file, kpos, s)
     /\ kpos' = kpos + Len(s)
     /\ UNCHANGED sink
  \/ /\ Kind = "append"
     /\ file' = file \o s
     /\ kpos' = IF s = <<>> THEN kpos ELSE Len(file) + Len(s)
     /\ UNCHANGED sink
  \/ /\ ~ Seekable
     /\ sink' = IF "over" \in Faults THEN sink ELSE sink \o s
     /\ UNCHANGED <<file, kpos>>

(* A call of func_write with s that takes n bytes: all or some of them, or *)
(* none when the object has that fault.                                    *)
WriteTakes(s, n) ==
  /\ StoreOutput(SubSeq(s, 1, n))
  /\ \/ n \in 1 .. Len(s) /\ UNCHANGED <<faults, faulted>>
     \/ /\ n = 0 /\ "zero" \in Faults /\ faults < MaxFaults
        /\ faults' = faults + 1
        /\ UNCHANGED faulted
  /\ UNCHANGED <<calls, fresh>>

-----------------------------------------------------------------------------
Init ==
  /\ file = InitFile /\ kpos = 0 /\ sink = <<>>
  /\ buffer = [i \in 1 .. BlockSize |-> Junk]
  /\ data_len = 0 /\ data_offset = 0
  /\ writing = InitWriting
  /\ strategy = "fbf"
  /\ ind_err = FALSE /\ ind_eof = FALSE
  /\ pc = "idle" /\ cont = "none" /\ flushed = 0
  /\ op = "none" /\ err = 0
  /\ want = 0 /\ got = <<>> /\ src = <<>> /\ tail = <<>> /\ stored = FALSE
  /\ calls = 0 /\ faults = 0 /\ fresh = 0 /\ faulted = FALSE
  /\ accepted = <<>>

(* A call starts: o is the client's call, p the function that serves it.   *)
Begin(o, p) ==
  /\ pc = "idle" /\ calls < MaxCalls /\ o \in Ops
  /\ pc' = p /\ op' = o /\ err' = 0
  /\ calls' = calls + 1 /\ faulted' = FALSE
  /\ UNCHANGED <<backend, stream, flushing, faults, accepted>>

es_read ==
  /\ Begin("read", "es_readn")
  /\ want' \in 1 .. MaxRequest /\ got' = <<>>
  /\ UNCHANGED <<src, tail, stored, fresh>>

(* n new bytes, the nl-th of them a newline (none when nl is 0).           *)
NewBytes(n, nl) ==
  LET id(i) == Len(InitFile) + fresh + i
  IN  [i \in 1 .. n |-> IF i = nl THEN - id(i) ELSE id(i)]

(* es_write, es_fwrite and the output function of es_printf, which also    *)
(* passes empty strings on.                                                *)
es_write ==
  /\ Begin("write", "es_writen")
  /\ \E n \in 0 .. MaxRequest : \E nl \in 0 .. n :
       /\ src' = NewBytes(n, nl)
       /\ fresh' = fresh + n
  /\ UNCHANGED <<want, got, tail, stored>>

(* The client lets es_getline allocate the line ( *n = 0 ): a line of its  *)
(* own that has to grow can also fail at the very end, unmarked.           *)
es_getline ==
  /\ Begin("getline", "doreadline")
  /\ got' = <<>>
  /\ UNCHANGED <<want, src, tail, stored, fresh>>

es_fseek   == Begin("fseek", "es_seek") /\ UNCHANGED <<request, fresh>>
es_fflush  == Begin("fflush", "do_fflush") /\ UNCHANGED <<request, fresh>>
es_setvbuf == Begin("setvbuf", "es_set_buffering") /\ UNCHANGED <<request, fresh>>

es_clearerr ==
  /\ pc = "idle" /\ calls < MaxCalls /\ "clearerr" \in Ops
  /\ ind_err' = FALSE /\ ind_eof' = FALSE
  /\ calls' = calls + 1
  /\ UNCHANGED <<backend, buffer, data_len, data_offset, writing, strategy,
                 pc, flushing, op, err, request, faults, fresh, faulted, accepted>>

es_fclose ==
  /\ pc = "idle"
  /\ pc' = "es_deinitialize" /\ op' = "fclose" /\ err' = 0
  /\ faulted' = FALSE
  /\ UNCHANGED <<backend, stream, flushing, request, calls, faults, fresh, accepted>>

-----------------------------------------------------------------------------
(* Moves within a call.                                                    *)

Goto(p) == pc' = p /\ UNCHANGED <<op, err>>

(* Leave the call with an error.                                           *)
Fail == pc' = "out" /\ err' = -1 /\ UNCHANGED op

(* Call es_flush, to go on at k when it succeeds.                          *)
CallFlush(k) ==
  /\ Goto("es_flush")
  /\ cont' = k /\ flushed' = 0
  /\ UNCHANGED <<backend, stream, ghosts>>

(* es_empty: drop what was read ahead.                                     *)
es_empty == data_len' = 0 /\ data_offset' = 0

-----------------------------------------------------------------------------
(* es_flush: write out the bytes before data_offset.                       *)

(* assert (stream->flags.writing)                                          *)
FlushAssertFails ==
  /\ pc = "es_flush" /\ ~ writing
  /\ Goto("aborted")
  /\ UNCHANGED <<backend, stream, flushing, request, ghosts>>

FlushWrite ==
  /\ pc = "es_flush" /\ writing /\ flushed < data_offset
  /\ \E n \in 0 .. data_offset - flushed :
       /\ WriteTakes(BufferBytes(flushed, data_offset), n)
       /\ flushed' = flushed + n
  /\ Goto("es_flush")
  /\ UNCHANGED <<stream, cont, request, accepted>>

(* A write function that reports one byte more than it was given.          *)
FlushWriteOver ==
  /\ pc = "es_flush" /\ writing /\ flushed < data_offset
  /\ "over" \in Faults
  /\ flushed' = data_offset + 1
  /\ Goto("es_flush")
  /\ UNCHANGED <<backend, stream, cont, request, ghosts>>

(* Variant: the error of the write function is not passed on.              *)
FlushFailsUnreported ==
  /\ pc = "es_flush" /\ writing /\ flushed < data_offset
  /\ Fault("write")
  /\ ind_err' = TRUE
  /\ Goto(IF op = "fclose" THEN cont ELSE "out")
  /\ flushed' = 0 /\ cont' = "none"
  /\ UNCHANGED <<backend, buffer, data_len, data_offset, writing, strategy,
                 ind_eof, request>>

(* Variant: the buffer is emptied although it could not be written.        *)
FlushFailsEmptying ==
  /\ pc = "es_flush" /\ writing /\ flushed < data_offset
  /\ Fault("write")
  /\ ind_err' = TRUE
  /\ err' = -1
  /\ pc' = IF op = "fclose" THEN cont ELSE "out"
  /\ flushed' = 0 /\ cont' = "none" /\ data_offset' = 0
  /\ UNCHANGED <<backend, buffer, data_len, writing, strategy, ind_eof, op,
                 request>>

(* A write error: the next es_flush starts over at the first byte.  Only   *)
(* es_deinitialize goes on after an error.                                 *)
FlushFails ==
  /\ pc = "es_flush" /\ writing /\ flushed < data_offset
  /\ Fault("write")
  /\ ind_err' = TRUE
  /\ err' = -1
  /\ pc' = IF op = "fclose" THEN cont ELSE "out"
  /\ flushed' = 0 /\ cont' = "none"
  /\ UNCHANGED <<backend, buffer, data_len, data_offset, writing, strategy,
                 ind_eof, op, request>>

(* The write function is told that the buffer was flushed, with no bytes:  *)
(* what it returns is not looked at.                                       *)
FlushEvent ==
  \/ UNCHANGED ghosts
  \/ /\ "event" \in Faults /\ faults < MaxFaults
     /\ data_offset > 0 /\ flushed = data_offset
     /\ faults' = faults + 1
     /\ UNCHANGED <<calls, fresh, faulted, accepted>>

(* Variant: data_offset is not reset.                                      *)
FlushReturnsKeeping ==
  /\ pc = "es_flush" /\ writing /\ flushed >= data_offset
  /\ flushed' = 0 /\ cont' = "none"
  /\ Goto(cont)
  /\ FlushEvent
  /\ UNCHANGED <<backend, stream, request>>

(* Variant: the loop tests for a rest instead of a positive rest.          *)
FlushReturnsWhenExact ==
  /\ pc = "es_flush" /\ writing /\ flushed >= data_offset
  /\ \/ /\ flushed = data_offset
        /\ data_offset' = 0 /\ flushed' = 0 /\ cont' = "none"
        /\ Goto(cont)
        /\ FlushEvent
     \/ /\ flushed > data_offset
        /\ Goto("es_flush")
        /\ UNCHANGED <<data_offset, flushed, cont, ghosts>>
  /\ UNCHANGED <<backend, buffer, data_len, writing, strategy, ind_err, ind_eof,
                 request>>

FlushReturns ==
  /\ pc = "es_flush" /\ writing /\ flushed >= data_offset
  /\ data_offset' = IF flushed = data_offset THEN 0 ELSE data_offset
  /\ flushed' = 0 /\ cont' = "none"
  /\ Goto(cont)
  /\ FlushEvent
  /\ UNCHANGED <<backend, buffer, data_len, writing, strategy, ind_err, ind_eof,
                 request>>

es_flush == FlushAssertFails \/ FlushWrite \/ FlushWriteOver \/ FlushFails
              \/ FlushReturns

(* flags.writing = 0, once the output is flushed, in es_readn, es_peek and *)
(* es_seek; the call then goes on as it does in reading mode.              *)
SwitchToReading ==
  /\ pc = "switch"
  /\ writing' = FALSE
  /\ Goto(CASE op = "read" -> "es_readn" [] op = "getline" -> "es_peek"
            [] OTHER -> "es_seek")
  /\ UNCHANGED <<backend, buffer, data_len, data_offset, strategy, ind_err,
                 ind_eof, flushing, request, ghosts>>

-----------------------------------------------------------------------------
(* Reading.                                                                *)

es_readn ==
  /\ pc = "es_readn"
  /\ \/ writing /\ CallFlush("switch")
     \/ /\ ~ writing
        /\ Goto(IF strategy = "nbf" THEN "es_read_nbf" ELSE "es_read_fbf")
        /\ UNCHANGED <<backend, stream, flushing, ghosts>>
  /\ UNCHANGED request

(* Read straight into the client's memory until all has come or the end is *)
(* met.  Neither an error nor the end is remembered in the indicators.     *)
es_read_nbf ==
  /\ pc = "es_read_nbf"
  /\ \/ /\ Len(got) < want
        /\ \E n \in ReadCounts(want - Len(got)) :
             /\ TakeInput(n)
             /\ got' = got \o Slice(file, kpos, kpos + n)
             /\ Goto(IF n = 0 THEN "out" ELSE "es_read_nbf")
        /\ UNCHANGED ghosts
     \/ /\ Len(got) < want
        /\ Fault("read") /\ Fail
        /\ UNCHANGED <<backend, got>>
     \/ /\ Len(got) >= want
        /\ Goto("out")
        /\ UNCHANGED <<backend, got, ghosts>>
  /\ UNCHANGED <<stream, flushing, want, src, tail, stored>>

(* Variant: the loop ends after the first container.                       *)
es_read_fbf_once ==
  /\ pc = "es_read_fbf"
  /\ \/ /\ data_offset = data_len
        /\ Goto("es_fill")
        /\ UNCHANGED <<data_offset, got>>
     \/ /\ data_offset # data_len
        /\ LET n == SmallerOf(want, data_len - data_offset)
           IN  /\ got' = BufferBytes(data_offset, data_offset + n)
               /\ data_offset' = data_offset + n
        /\ Goto("out")
  /\ UNCHANGED <<backend, buffer, data_len, writing, strategy, ind_err, ind_eof,
                 flushing, want, src, tail, stored, ghosts>>

es_read_fbf ==
  /\ pc = "es_read_fbf"
  /\ \/ /\ Len(got) >= want /\ Goto("out")
        /\ UNCHANGED <<data_offset, got>>
     \/ /\ Len(got) < want /\ data_offset = data_len
        /\ Goto("es_fill")
        /\ UNCHANGED <<data_offset, got>>
     \/ /\ Len(got) < want /\ data_offset # data_len
        /\ LET n == SmallerOf(want - Len(got), data_len - data_offset)
           IN  /\ got' = got \o BufferBytes(data_offset, data_offset + n)
               /\ data_offset' = data_offset + n
        /\ Goto("es_read_fbf")
  /\ UNCHANGED <<backend, buffer, data_len, writing, strategy, ind_err, ind_eof,
                 flushing, want, src, tail, stored, ghosts>>

(* Variant: es_read_fbf does not stop when filling brings nothing.         *)
FillReadsOn ==
  /\ pc = "es_fill"
  /\ \E n \in ReadCounts(buffer_size) :
       /\ TakeInput(n)
       /\ buffer' = Overlay(buffer, 0, Slice(file, kpos, kpos + n))
       /\ data_len' = n /\ data_offset' = 0
       /\ ind_eof' = (ind_eof \/ n = 0)
       /\ Goto(IF op = "read" THEN "es_read_fbf"
               ELSE IF n = 0 THEN "out" ELSE "es_peek")
  /\ UNCHANGED <<writing, strategy, ind_err, flushing, request, ghosts>>

(* Fill the buffer, for es_read_fbf or es_peek.                            *)
FillReads ==
  /\ pc = "es_fill"
  /\ \E n \in ReadCounts(buffer_size) :
       /\ TakeInput(n)
       /\ buffer' = Overlay(buffer, 0, Slice(file, kpos, kpos + n))
       /\ data_len' = n /\ data_offset' = 0
       /\ ind_eof' = (ind_eof \/ n = 0)
       /\ Goto(IF n = 0 THEN "out"
               ELSE IF op = "read" THEN "es_read_fbf" ELSE "es_peek")
  /\ UNCHANGED <<writing, strategy, ind_err, flushing, request, ghosts>>

(* Variant: the error sets the indicator only.                             *)
FillFailsUnreported ==
  /\ pc = "es_fill"
  /\ Fault("read") /\ Goto("out")
  /\ ind_err' = TRUE
  /\ es_empty
  /\ UNCHANGED <<backend, buffer, writing, strategy, ind_eof, flushing, request>>

FillFails ==
  /\ pc = "es_fill"
  /\ Fault("read") /\ Fail
  /\ ind_err' = TRUE
  /\ es_empty
  /\ UNCHANGED <<backend, buffer, writing, strategy, ind_eof, flushing, request>>

es_fill == FillReads \/ FillFails

(* doreadline makes a memory object and a stream on it, for the line.      *)
LineStreamMade ==
  /\ pc = "doreadline"
  /\ Goto("es_peek")
  /\ UNCHANGED <<backend, stream, flushing, request, ghosts>>

(* The first two allocations fail cleanly.  After them es_create closes    *)
(* the object, whose address doreadline keeps and destroys once more (and  *)
(* when it is the intern record that is missing, closing reads it all the  *)
(* same): what happens is not defined.                                     *)
LineStreamFails ==
  /\ pc = "doreadline"
  /\ Fault("alloc")
  /\ Fail \/ Goto("broken")
  /\ UNCHANGED <<backend, stream, flushing, request>>

doreadline == LineStreamMade \/ LineStreamFails

(* Variant: all that es_peek returned is skipped, not the line only.       *)
es_peek_skipping ==
  /\ pc = "es_peek"
  /\ \/ /\ writing /\ CallFlush("switch")
        /\ UNCHANGED request
     \/ /\ ~ writing /\ data_offset = data_len
        /\ Goto("es_fill")
        /\ UNCHANGED <<backend, stream, flushing, request, ghosts>>
     \/ /\ ~ writing /\ data_offset # data_len
        /\ LET data == BufferBytes(data_offset, data_len)
           IN  \E n \in 1 .. Len(data) :
                 /\ IsFirstLineEnd(data, n)
                 /\ got' = got \o SubSeq(data, 1, n)
                 /\ data_offset' = data_len
                 /\ Goto(IF IsNewline(data[n]) THEN "out" ELSE "es_peek")
        /\ UNCHANGED <<backend, buffer, data_len, writing, strategy, ind_err,
                       ind_eof, flushing, want, src, tail, stored, ghosts>>

(* doreadline: peek at the buffer, copy up to a newline to the line stream *)
(* and skip what was copied, until a newline or the end of the input.      *)
es_peek ==
  /\ pc = "es_peek"
  /\ \/ /\ writing /\ CallFlush("switch")
        /\ UNCHANGED request
     \/ /\ ~ writing /\ data_offset = data_len
        /\ Goto("es_fill")
        /\ UNCHANGED <<backend, stream, flushing, request, ghosts>>
     \/ /\ ~ writing /\ data_offset # data_len
        /\ LET data == BufferBytes(data_offset, data_len)
           IN  \E n \in 1 .. Len(data) :
                 /\ IsFirstLineEnd(data, n)
                 /\ got' = got \o SubSeq(data, 1, n)
                 /\ data_offset' = data_offset + n
                 /\ Goto(IF IsNewline(data[n]) THEN "out" ELSE "es_peek")
        /\ UNCHANGED <<backend, buffer, data_len, writing, strategy, ind_err,
                       ind_eof, flushing, want, src, tail, stored, ghosts>>

(* The memory object cannot grow, or the line itself not be allocated:     *)
(* what was skipped is lost to the client.                                 *)
LineAllocFails ==
  /\ op = "getline" /\ err = 0
  /\ pc = "out" \/ (pc = "es_peek" /\ ~ writing /\ data_offset # data_len)
  /\ Fault("alloc") /\ Fail
  /\ UNCHANGED <<backend, stream, flushing, request>>

-----------------------------------------------------------------------------
(* Seeking, for es_fseek and for es_writen after input was read.           *)

WriteFunction == CASE strategy = "nbf" -> "es_write_nbf"
                   [] strategy = "lbf" -> "es_write_lbf"
                   [] OTHER            -> "es_write_fbf"

(* Variant: SEEK_CUR is not corrected for what was read ahead.             *)
SeekTargetsUncorrected ==
  IF op = "write" THEN {kpos}
  ELSE SeekOffsets \cup {kpos + o : o \in SeekOffsets}
         \cup {Len(file) + o : o \in SeekOffsets}

(* The offsets lseek would be asked for.  SEEK_CUR is relative to the byte *)
(* the client reads next, which is behind the object's offset.             *)
SeekTargets ==
  LET here == kpos - data_len + data_offset
  IN  IF op = "write" THEN {here}
      ELSE SeekOffsets \cup {here + o : o \in SeekOffsets}
             \cup {Len(file) + o : o \in SeekOffsets}

(* Variant: output is not flushed before the offset changes.               *)
SeekFlushesNot ==
  /\ pc = "es_seek" /\ Kind # "noseek" /\ writing
  /\ Goto("switch")
  /\ UNCHANGED <<backend, stream, flushing, request, ghosts>>

SeekFlushes ==
  /\ pc = "es_seek" /\ Kind # "noseek" /\ writing
  /\ CallFlush("switch")
  /\ UNCHANGED request

(* Variant: what was read ahead stays in the buffer.                       *)
SeekMovesKeeping ==
  /\ pc = "es_seek" /\ Seekable /\ ~ writing
  /\ \E target \in SeekTargets : target >= 0 /\ kpos' = target
  /\ ind_eof' = FALSE
  /\ Goto(IF op = "write" THEN WriteFunction ELSE "out")
  /\ UNCHANGED <<file, sink, buffer, data_len, data_offset, writing, strategy,
                 ind_err, flushing, request, ghosts>>

(* Variant: the seek function accepts offsets before the first byte.       *)
SeekMovesAnywhere ==
  /\ pc = "es_seek" /\ Seekable /\ ~ writing
  /\ kpos' \in SeekTargets
  /\ es_empty
  /\ ind_eof' = FALSE
  /\ Goto(IF op = "write" THEN WriteFunction ELSE "out")
  /\ UNCHANGED <<file, sink, buffer, writing, strategy, ind_err, flushing,
                 request, ghosts>>

SeekMoves ==
  /\ pc = "es_seek" /\ Seekable /\ ~ writing
  /\ \E target \in SeekTargets : target >= 0 /\ kpos' = target
  /\ es_empty
  /\ ind_eof' = FALSE
  /\ Goto(IF op = "write" THEN WriteFunction ELSE "out")
  /\ UNCHANGED <<file, sink, buffer, writing, strategy, ind_err, flushing,
                 request, ghosts>>

(* The seek function fails, or there is none.  es_writen goes on after     *)
(* ESPIPE, with the buffer and the error indicator as es_seek left them.   *)
SeekFails ==
  /\ pc = "es_seek"
  /\ \/ /\ Kind = "noseek"
        /\ UNCHANGED ghosts
     \/ /\ Kind = "pipe" /\ ~ writing
        /\ UNCHANGED ghosts
     \/ /\ Seekable /\ ~ writing /\ \E target \in SeekTargets : target < 0
        /\ UNCHANGED ghosts
     \/ /\ Seekable /\ ~ writing /\ Fault("seek")
  /\ ind_err' = TRUE
  /\ IF op = "write" /\ Kind = "pipe" THEN Goto(WriteFunction) ELSE Fail
  /\ UNCHANGED <<backend, buffer, data_len, data_offset, writing, strategy,
                 ind_eof, flushing, request>>

es_seek == SeekFlushes \/ SeekMoves \/ SeekFails

-----------------------------------------------------------------------------
(* Writing.                                                                *)

es_writen ==
  /\ pc = "es_writen"
  /\ Goto(IF ~ writing /\ Kind # "noseek" THEN "es_seek" ELSE WriteFunction)
  /\ UNCHANGED <<backend, stream, flushing, request, ghosts>>

(* s counts in *bytes_written.  Only what an object without a seek         *)
(* function was given is remembered: a file shows it itself.               *)
Accept(s) ==
  /\ stored' = (stored \/ s # <<>>)
  /\ accepted' = IF Seekable THEN accepted ELSE accepted \o s

(* Lines go out at once; what follows the last newline is buffered.        *)
es_write_lbf ==
  /\ pc = "es_write_lbf"
  /\ \E n \in 0 .. Len(src) :
       /\ IsLastLineEnd(src, n)
       /\ \/ /\ n = 0
             /\ Goto("es_write_fbf")
             /\ UNCHANGED <<backend, stream, flushing, request, ghosts>>
          \/ /\ n > 0
             /\ CallFlush("es_write_nbf")
             /\ src' = SubSeq(src, 1, n)
             /\ tail' = SubSeq(src, n + 1, Len(src))
             /\ UNCHANGED <<want, got, stored>>

es_write_nbf ==
  /\ pc = "es_write_nbf"
  /\ \/ /\ src # <<>>
        /\ \E n \in 0 .. Len(src) :
             /\ WriteTakes(src, n)
             /\ Accept(SubSeq(src, 1, n))
             /\ src' = SubSeq(src, n + 1, Len(src))
        /\ Goto("es_write_nbf")
        /\ UNCHANGED tail
     \/ /\ src # <<>>
        /\ Fault("write") /\ Fail
        /\ UNCHANGED <<backend, src, tail, stored>>
     \/ /\ src = <<>>
        /\ src' = tail /\ tail' = <<>>
        /\ Goto(IF strategy = "lbf" THEN "es_write_fbf" ELSE "out")
        /\ UNCHANGED <<backend, stored, ghosts>>
  /\ UNCHANGED <<stream, flushing, want, got>>

es_write_fbf ==
  /\ pc = "es_write_fbf"
  /\ \/ /\ src = <<>>
        /\ Goto("out")
        /\ UNCHANGED <<backend, stream, flushing, ghosts>>
     \/ /\ src # <<>> /\ data_offset = buffer_size
        /\ CallFlush("write_copy")
     \/ /\ src # <<>> /\ data_offset # buffer_size
        /\ Goto("write_copy")
        /\ UNCHANGED <<backend, stream, flushing, ghosts>>
  /\ UNCHANGED request

(* The memcpy in the loop of es_write_fbf.                                 *)
write_copy ==
  /\ pc = "write_copy"
  /\ LET n == SmallerOf(Len(src), buffer_size - data_offset)
     IN  /\ buffer' = Overlay(buffer, data_offset, SubSeq(src, 1, n))
         /\ data_offset' = data_offset + n
         /\ src' = SubSeq(src, n + 1, Len(src))
         /\ Accept(SubSeq(src, 1, n))
  /\ Goto("es_write_fbf")
  /\ UNCHANGED <<backend, data_len, writing, strategy, ind_err, ind_eof, flushing,
                 want, got, tail, calls, faults, fresh, faulted>>

-----------------------------------------------------------------------------
(* es_fflush, es_setvbuf, es_fclose.                                       *)

do_fflush ==
  /\ pc = "do_fflush"
  /\ \/ writing /\ CallFlush("out")
     \/ /\ ~ writing
        /\ es_empty /\ Goto("out")
        /\ UNCHANGED <<backend, buffer, writing, strategy, ind_err, ind_eof,
                       flushing, ghosts>>
  /\ UNCHANGED request

(* Variant: the buffer is replaced with output still in it.                *)
es_set_buffering_unflushed ==
  /\ pc = "es_set_buffering"
  /\ Goto("new_buffer")
  /\ UNCHANGED <<backend, stream, flushing, request, ghosts>>

es_set_buffering ==
  /\ pc = "es_set_buffering"
  /\ \/ writing /\ CallFlush("new_buffer")
     \/ /\ ~ writing
        /\ es_empty /\ Goto("new_buffer")
        /\ UNCHANGED <<backend, buffer, writing, strategy, ind_err, ind_eof,
                       flushing, ghosts>>
  /\ UNCHANGED request

(* The buffer of the new mode.                                             *)
new_buffer ==
  /\ pc = "new_buffer"
  /\ ind_eof' = FALSE
  /\ strategy' \in Strategies
  /\ IF strategy' = "nbf" THEN buffer' = <<>>
     ELSE \E n \in VBufSizes : buffer' = [i \in 1 .. n |-> Junk]
  /\ Goto("out")
  /\ UNCHANGED <<backend, data_len, data_offset, writing, ind_err, flushing,
                 request, ghosts>>

es_deinitialize ==
  /\ pc = "es_deinitialize"
  /\ \/ writing /\ CallFlush("func_close")
     \/ /\ ~ writing
        /\ Goto("func_close")
        /\ UNCHANGED <<backend, stream, flushing, ghosts>>
  /\ UNCHANGED request

(* func_close, and the stream is gone.  The first error is the result.     *)
func_close ==
  /\ pc = "func_close"
  /\ \/ UNCHANGED <<err, ghosts>>
     \/ Fault("close") /\ err' = -1
  /\ pc' = "closed"
  /\ UNCHANGED <<backend, stream, flushing, op, request>>

(* The end of a call: es_writen goes over to writing when it has stored    *)
(* something, doreadline marks its errors.  The request is forgotten.      *)
Return ==
  /\ pc = "out"
  /\ writing' = (writing \/ (op = "write" /\ stored))
  /\ ind_err' = (ind_err \/ (op = "getline" /\ err # 0))
  /\ pc' = "idle" /\ op' = "none" /\ err' = 0
  /\ want' = 0 /\ got' = <<>> /\ src' = <<>> /\ tail' = <<>> /\ stored' = FALSE
  /\ faulted' = FALSE
  /\ UNCHANGED <<backend, buffer, data_len, data_offset, strategy, ind_eof,
                 flushing, calls, faults, fresh, accepted>>

-----------------------------------------------------------------------------
Call == es_read \/ es_write \/ es_getline \/ es_fseek \/ es_fflush
          \/ es_setvbuf \/ es_clearerr \/ es_fclose

Step == es_readn \/ es_read_nbf \/ es_read_fbf \/ es_fill \/ doreadline
          \/ es_peek \/ LineAllocFails \/ SwitchToReading \/ es_flush \/ es_seek
          \/ es_writen \/ es_write_lbf \/ es_write_nbf \/ es_write_fbf
          \/ write_copy \/ do_fflush \/ es_set_buffering \/ new_buffer
          \/ es_deinitialize \/ func_close \/ Return

(* After es_fclose, an abort, or an object freed twice, nothing more is    *)
(* said about this stream.                                                 *)
Terminated == pc \in {"closed", "aborted", "broken"} /\ UNCHANGED vars

Next == Call \/ Step \/ Terminated

Spec == Init /\ [][Next]_vars

(* The thread that made a call runs on until the call returns.             *)
FairSpec == Spec /\ WF_vars(Step)

-----------------------------------------------------------------------------
(* Properties.                                                             *)

Labels == {"idle", "out", "switch", "closed", "aborted", "broken",
           "es_readn", "es_read_nbf", "es_read_fbf", "es_fill",
           "doreadline", "es_peek", "es_seek",
           "es_flush", "es_writen", "es_write_nbf", "es_write_lbf",
           "es_write_fbf", "write_copy", "do_fflush", "es_set_buffering",
           "new_buffer", "es_deinitialize", "func_close"}
FlushTargets == {"switch", "es_write_nbf", "write_copy", "out", "new_buffer",
                 "func_close"}

(* The type invariant of the stream, its object and the call it serves.    *)
TypeOK ==
  /\ file \in Seq(Int) /\ kpos \in Nat /\ sink \in Seq(Int)
  /\ buffer \in Seq(Int) /\ data_len \in Nat /\ data_offset \in Nat
  /\ writing \in BOOLEAN /\ strategy \in AllModes
  /\ ind_err \in BOOLEAN /\ ind_eof \in BOOLEAN
  /\ pc \in Labels /\ flushed \in Nat
  /\ cont \in IF pc = "es_flush" THEN FlushTargets ELSE FlushTargets \cup {"none"}
  /\ op \in AllOps \cup {"fclose", "none"} /\ err \in {0, -1}
  /\ want \in Nat /\ got \in Seq(Int)
  /\ src \in Seq(Int) /\ tail \in Seq(Int) /\ stored \in BOOLEAN
  /\ calls \in 0 .. MaxCalls /\ faults \in 0 .. MaxFaults
  /\ fresh \in Nat /\ faulted \in BOOLEAN /\ accepted \in Seq(Int)

(* The buffer holds output: es_write stores before it sets flags.writing.  *)
HoldsOutput == writing \/ stored

(* Output that has not reached the object.                                 *)
Pending == IF HoldsOutput THEN BufferBytes(flushed, data_offset) ELSE <<>>

(* Input that has been read ahead.                                         *)
Unread == IF HoldsOutput THEN <<>> ELSE BufferBytes(data_offset, data_len)

(* Of an object that seeks, or that is only read or only written: every    *)
(* switch between input and output is one the buffer can follow.           *)
OneWayOrSeekable ==
  /\ "over" \notin Faults
  /\ Seekable \/ "write" \notin Ops \/ Ops \cap {"read", "getline"} = {}

(* Of an object that seeks or is only read or written: the buffer is never *)
(* overrun, what is read ahead lies within it, and output is never stored  *)
(* over input that is still to be read.  es_read_fbf, es_skip and es_flush *)
(* compute sizes as unsigned differences that this keeps from wrapping.    *)
BufferBounds == OneWayOrSeekable =>
  /\ data_offset <= buffer_size /\ data_len <= buffer_size
  /\ HoldsOutput => data_len = 0
  /\ ~ HoldsOutput => data_offset <= data_len
  /\ flushed <= data_offset

(* es_read and es_getline report success with less than was asked for, or  *)
(* with an unfinished line, only at the end of the object.  es_getline     *)
(* sees the end at once on an unbuffered stream (es_fill with a size of 0).*)
ShortOnlyAtEnd ==
  pc = "out" /\ err = 0 /\ writing = FALSE =>
    \/ op = "read" /\ Len(got) = want
    \/ op = "getline" /\ (strategy = "nbf" \/
                          (got # <<>> /\ IsNewline(got[Len(got)])))
    \/ kpos >= Len(file) /\ Unread = <<>>
    \/ op \notin {"read", "getline"}

(* A failed read, write, seek, close or allocation is never swallowed: the *)
(* call it happened in reports an error.  The flush event is the exception *)
(* (es_flush drops what the write function returns for it), and so are the *)
(* calls that drop the result of es_readn or es_writen, es_fread and       *)
(* es_fwrite, which are not calls of this module.                          *)
NoSilentFault == pc \in {"out", "closed"} /\ faulted => err = -1

(* While nothing has failed, what an object without seek function was sent *)
(* and what is still in the buffer is exactly what es_write has reported   *)
(* written, in order; after es_fclose all of it has been sent.             *)
OutputExact ==
  ~ Seekable /\ faults = 0 /\ pc # "aborted" =>
    accepted = IF pc = "closed" THEN sink ELSE sink \o Pending

(* The last place of b in s, 0 when it is not there.                       *)
LastPlace(s, b) ==
  IF \E i \in 1 .. Len(s) : s[i] = b
  THEN CHOOSE i \in 1 .. Len(s) : s[i] = b /\ \A j \in i + 1 .. Len(s) : s[j] # b
  ELSE 0

(* Write errors may make es_flush send bytes twice, since it starts over   *)
(* at the first byte of the buffer, but they lose none and reorder none: a *)
(* byte es_write has reported written has been sent or is in the buffer,   *)
(* after every byte written before it, until es_fclose reports an error.   *)
OutputKept ==
  ~ Seekable /\ ~ (pc = "closed" /\ err # 0) =>
    LET out == IF pc = "closed" THEN sink ELSE sink \o Pending
    IN  \A i \in 1 .. Len(accepted) :
          /\ LastPlace(out, accepted[i]) # 0
          /\ i > 1 => LastPlace(out, accepted[i - 1]) < LastPlace(out, accepted[i])

(* Every call returns, if the process does not abort and no object is      *)
(* freed twice.                                                            *)
CallsReturn == (pc \notin {"idle", "closed", "aborted", "broken"}) ~>
                 (pc \in {"idle", "closed", "aborted", "broken"})

(* es_flush itself comes to an end, whatever a user's write function says  *)
(* it has written: its loop tests for a positive rest, not for a rest.     *)
FlushEnds == pc = "es_flush" ~> pc # "es_flush"

(* es_flush: assert (stream->flags.writing).                               *)
FlushAssertHolds == pc # "aborted"

(* es_writen: "Switching to writing mode -> discard input data": the bytes *)
(* the stream sends are bytes the client wrote.                            *)
InputDiscarded ==
  \A i \in 1 .. Len(sink) : \E k \in 1 .. fresh :
    sink[i] \in {Len(InitFile) + k, - (Len(InitFile) + k)}

(* The unbuffered file the client of a seekable stream may believe in:     *)
(* output in the buffer is already in the content, input in it is not yet  *)
(* behind the position.                                                    *)
Abstract == INSTANCE AbstractFile WITH
  Appending <- Kind = "append",
  content  <- IF pc = "closed" THEN file
              ELSE IF Kind = "append" THEN file \o Pending
              ELSE Overlay(file, kpos, Pending),
  position <- IF Pending = <<>> THEN kpos - Len(Unread)
              ELSE IF Kind = "append" THEN Len(file) + Len(Pending)
              ELSE kpos + Len(Pending),
  op       <- IF pc = "closed" THEN "closed" ELSE op,
  todo     <- src \o tail

(* The stream refines that file as long as no write fails: reads, writes,  *)
(* lines and seeks in any order see one content and one position, whatever *)
(* the buffer holds, in every buffering mode, through short transfers and  *)
(* failing reads and seeks, and es_fclose leaves the content in the object.*)
ImplementsFile == Abstract!Spec
=============================================================================
