----------------------- MODULE EstreamRefinementProofs -----------------------
(***************************************************************************)
(* Proof that a stream implements the unbuffered file of AbstractFile, for *)
(* every buffer, request and offset: over an object that seeks, or one     *)
(* that is only read, as long as no write fails.  A step of the stream is  *)
(* a step of the file or leaves the file as it was.                        *)
(***************************************************************************)
EXTENDS EstreamProofs

(* What the file's client sees, by the names of the refinement mapping.    *)
Content  == IF pc = "closed" THEN file
            ELSE IF Kind = "append" THEN file \o Pending
            ELSE Overlay(file, kpos, Pending)
Position == IF Pending = <<>> THEN kpos - Len(Unread)
            ELSE IF Kind = "append" THEN Len(file) + Len(Pending)
            ELSE kpos + Len(Pending)
CallOf   == IF pc = "closed" THEN "closed" ELSE op
Todo     == src \o tail

(* What is left in the buffer of what was read is what the object holds    *)
(* before its offset.                                                      *)
Coherent ==
  /\ data_len <= kpos /\ (data_len > 0 => kpos <= Len(file))
  /\ \A i \in 1 .. data_len : buffer[i] = file[kpos - data_len + i]

(* What the calls keep: nothing is left over when one returns, a line is   *)
(* looked for from where none was found, an unbuffered write and es_fclose *)
(* find the output flushed, and an object that does not seek has none.     *)
CallInv ==
  /\ pc = "idle" <=> op = "none"
  /\ pc = "idle" => got = <<>> /\ src = <<>> /\ tail = <<>>
  /\ pc = "out" => op # "fclose"
  /\ tail # <<>> => \/ pc \in {"es_write_nbf", "out", "aborted"}
                    \/ pc = "es_flush" /\ cont = "es_write_nbf"
  /\ op = "getline" /\ pc # "out" => \A i \in 1 .. Len(got) : ~ IsNewline(got[i])
  /\ pc = "es_write_nbf" => data_offset = 0
  /\ pc \in {"func_close", "closed"} => Pending = <<>>
  /\ ~ Seekable /\ HoldsOutput => data_offset = 0

(* The inductive invariant.                                                *)
FileInv == IInv /\ ReadInv /\ Coherent /\ CallInv

(* The objects for which the stream is the file.                           *)
FaithfulObject == /\ Seekable \/ "write" \notin Ops
                  /\ "write" \notin Faults /\ "over" \notin Faults

LEMMA FaithfulIsOneWay == FaithfulObject => OneWayOrSeekable
BY DEF FaithfulObject, OneWayOrSeekable

-----------------------------------------------------------------------------
(* The steps of the file, in the terms of the stream.                      *)

LEMMA SameOperators ==
  /\ \A f, p, s : Abstract!Overlay(f, p, s) = Overlay(f, p, s)
  /\ \A s, i, j : Abstract!Slice(s, i, j) = Slice(s, i, j)
  /\ \A s : Abstract!WithinOneLine(s) <=> WithinOneLine(s)
BY DEF Abstract!Overlay, Abstract!Larger, Overlay, Larger, Abstract!Slice, Slice,
       Abstract!WithinOneLine, Abstract!IsNewline, WithinOneLine, IsNewline

(* A step that the client does not see.                                    *)
LEMMA HiddenStep ==
  ASSUME UNCHANGED <<Content, Position, CallOf, got, Todo>>
  PROVE  UNCHANGED Abstract!vars
BY DEF Abstract!vars, Content, Position, CallOf, Todo

LEMMA BeginStep ==
  ASSUME CallOf = "none", CallOf' \in Ops \cup {"fclose"}, got' = <<>>,
         CallOf' # "write" => Todo' = <<>>, UNCHANGED <<Content, Position>>
  PROVE  Abstract!Next
BY DEF Abstract!Next, Abstract!Begin, Content, Position, CallOf, Todo

LEMMA ReadStep ==
  ASSUME CallOf \in {"read", "getline"}, Position < Len(Content),
         NEW n \in 1 .. Len(Content) - Position,
         got' = got \o Slice(Content, Position, Position + n), Position' = Position + n,
         CallOf = "getline" => WithinOneLine(got'),
         UNCHANGED <<Content, CallOf, Todo>>
  PROVE  Abstract!Next
BY SameOperators DEF Abstract!Next, Abstract!Read, Content, Position, CallOf, Todo

LEMMA WriteStep ==
  ASSUME CallOf = "write", NEW n \in 1 .. Len(Todo),
         NEW at, at = IF Kind = "append" THEN Len(Content) ELSE Position,
         Content' = Overlay(Content, at, SubSeq(Todo, 1, n)), Position' = at + n,
         Todo' = SubSeq(Todo, n + 1, Len(Todo)), UNCHANGED <<CallOf, got>>
  PROVE  Abstract!Next
BY SameOperators DEF Abstract!Next, Abstract!Write, Content, Position, CallOf, Todo

LEMMA SeekStep ==
  ASSUME CallOf = "fseek", NEW o \in SeekOffsets,
         Position' \in {p \in {o, Position + o, Len(Content) + o} : p >= 0},
         UNCHANGED <<Content, CallOf, got, Todo>>
  PROVE  Abstract!Next
BY DEF Abstract!Next, Abstract!Seek, Content, Position, CallOf, Todo

LEMMA SkipStep ==
  ASSUME CallOf \in {"fflush", "setvbuf"}, Position' > Position, Position' <= Len(Content),
         UNCHANGED <<Content, CallOf, got, Todo>>
  PROVE  Abstract!Next
BY DEF Abstract!Next, Abstract!SkipInput, Content, Position, CallOf, Todo

LEMMA CloseStep ==
  ASSUME CallOf = "fclose", CallOf' = "closed", Position' >= Position,
         UNCHANGED <<Content, got, Todo>>
  PROVE  Abstract!Next
BY DEF Abstract!Next, Abstract!Close, Content, Position, CallOf, Todo

LEMMA EndStep ==
  ASSUME CallOf \notin {"none", "fclose", "closed"}, CallOf' = "none",
         got' = <<>>, Todo' = <<>>, UNCHANGED <<Content, Position>>
  PROVE  Abstract!Next
BY DEF Abstract!Next, Abstract!End, Content, Position, CallOf, Todo

-----------------------------------------------------------------------------
(* Overlay, the effect of a write.                                         *)

LEMMA OverlayAt ==
  ASSUME NEW f \in Seq(Int), NEW p \in Nat, NEW s \in Seq(Int), s # <<>>
  PROVE  /\ Overlay(f, p, s) \in Seq(Int)
         /\ Len(Overlay(f, p, s)) = Larger(Len(f), p + Len(s))
         /\ \A i \in 1 .. Larger(Len(f), p + Len(s)) :
              Overlay(f, p, s)[i] = IF i > p /\ i <= p + Len(s) THEN s[i - p]
                                    ELSE IF i <= Len(f) THEN f[i] ELSE 0
<1> DEFINE n == Larger(Len(f), p + Len(s))
           o == Overlay(f, p, s)
           e(i) == IF i > p /\ i <= p + Len(s) THEN s[i - p]
                   ELSE IF i <= Len(f) THEN f[i] ELSE 0
<1>1. n \in Nat
  BY LenProperties DEF Larger
<1>2. o = [i \in 1 .. n |-> e(i)]
  BY DEF Overlay
<1>3. o \in Seq(Int)
  BY OverlayBytes
<1> HIDE DEF n, e
<1>4. DOMAIN o = 1 .. n /\ \A i \in 1 .. n : o[i] = e(i)
  BY <1>2
<1> HIDE DEF o
<1>5. DOMAIN o = 1 .. Len(o) /\ Len(o) \in Nat
  BY <1>3, LenProperties
<1>6. Len(o) = n
  BY <1>1, <1>4, <1>5
<1> QED BY <1>3, <1>4, <1>6 DEF o, n, e

(* Two writes one after the other are one write of both.                   *)
LEMMA OverlayTwice ==
  ASSUME NEW f \in Seq(Int), NEW p \in Nat, NEW a \in Seq(Int), NEW b \in Seq(Int)
  PROVE  Overlay(Overlay(f, p, a), p + Len(a), b) = Overlay(f, p, a \o b)
<1>1. CASE a = <<>>
  <2>1. Len(a) = 0 /\ p + 0 = p /\ a \o b = b
    BY <1>1, ConcatEmptySeq
  <2>2. Overlay(f, p, a) = f
    BY <1>1 DEF Overlay
  <2> QED BY <2>1, <2>2
<1>2. CASE b = <<>>
  <2>1. a \o b = a
    BY <1>2, ConcatEmptySeq
  <2> QED BY <1>2, <2>1 DEF Overlay
<1>3. CASE a # <<>> /\ b # <<>>
  <2> DEFINE g == Overlay(f, p, a)
             la == Len(a)
             lb == Len(b)
             lf == Len(f)
             lg == Larger(lf, p + la)
             c == a \o b
             n == Larger(lf, p + (la + lb))
  <2>1. la \in Nat /\ lb \in Nat /\ lf \in Nat
    BY LenProperties
  <2>2. /\ c \in Seq(Int) /\ Len(c) = la + lb
        /\ \A i \in 1 .. la : c[i] = a[i]
        /\ \A i \in 1 .. lb : c[la + i] = b[i]
    BY ConcatBytes
  <2>3. c # <<>>
    BY <1>3, ConcatEqualIffEmpty
  <2>4. /\ g \in Seq(Int) /\ Len(g) = lg
        /\ \A i \in 1 .. lg : g[i] = IF i > p /\ i <= p + la THEN a[i - p]
                                     ELSE IF i <= lf THEN f[i] ELSE 0
    BY <1>3, OverlayAt
  <2> HIDE DEF g, la, lb, lf, c
  <2>5. p + la \in Nat /\ Larger(lg, p + la + lb) = n /\ lg \in Nat /\ n \in Nat
    BY <2>1 DEF Larger
  <2>6. /\ Overlay(g, p + la, b) \in Seq(Int)
        /\ Len(Overlay(g, p + la, b)) = Larger(Len(g), p + la + Len(b))
        /\ \A i \in 1 .. Larger(Len(g), p + la + Len(b)) :
             Overlay(g, p + la, b)[i]
               = IF i > p + la /\ i <= p + la + Len(b) THEN b[i - (p + la)]
                 ELSE IF i <= Len(g) THEN g[i] ELSE 0
    BY <1>3, <2>4, <2>5, OverlayAt
  <2>7. /\ Len(Overlay(g, p + la, b)) = n
        /\ \A i \in 1 .. n :
             Overlay(g, p + la, b)[i]
               = IF i > p + la /\ i <= p + la + lb THEN b[i - (p + la)]
                 ELSE IF i <= lg THEN g[i] ELSE 0
    BY <2>4, <2>5, <2>6 DEF lb
  <2>8. /\ Overlay(f, p, c) \in Seq(Int) /\ Len(Overlay(f, p, c)) = n
        /\ \A i \in 1 .. n :
             Overlay(f, p, c)[i] = IF i > p /\ i <= p + (la + lb) THEN c[i - p]
                                   ELSE IF i <= lf THEN f[i] ELSE 0
    <3>1. /\ Overlay(f, p, c) \in Seq(Int)
          /\ Len(Overlay(f, p, c)) = Larger(Len(f), p + Len(c))
          /\ \A i \in 1 .. Larger(Len(f), p + Len(c)) :
               Overlay(f, p, c)[i] = IF i > p /\ i <= p + Len(c) THEN c[i - p]
                                     ELSE IF i <= Len(f) THEN f[i] ELSE 0
      BY <2>2, <2>3, OverlayAt
    <3> QED BY <2>2, <3>1 DEF lf
  <2>9. ASSUME NEW i \in 1 .. n
        PROVE  Overlay(g, p + la, b)[i] = Overlay(f, p, c)[i]
    <3>1. CASE i > p + la /\ i <= p + la + lb
      <4>1. i - (p + la) \in 1 .. lb /\ la + (i - (p + la)) = i - p
            /\ i > p /\ i <= p + (la + lb)
        BY <2>1, <2>5, <3>1
      <4>2. c[i - p] = b[i - (p + la)]
        BY <2>2, <4>1
      <4> QED BY <2>7, <2>8, <3>1, <4>1, <4>2
    <3>2. CASE i > p /\ i <= p + la
      <4>1. i - p \in 1 .. la /\ i \in 1 .. lg /\ i <= p + (la + lb) /\ ~ i > p + la
        BY <2>1, <2>5, <3>2 DEF Larger
      <4>2. g[i] = a[i - p] /\ c[i - p] = a[i - p]
        BY <2>2, <2>4, <3>2, <4>1
      <4>3. Overlay(g, p + la, b)[i] = g[i]
        BY <2>7, <4>1
      <4>4. Overlay(f, p, c)[i] = c[i - p]
        BY <2>8, <3>2, <4>1
      <4> QED BY <4>2, <4>3, <4>4
    <3>3. CASE i <= p \/ i > p + la + lb
      <4>1. /\ ~ (i > p + la /\ i <= p + la + lb) /\ ~ (i > p /\ i <= p + la)
            /\ ~ (i > p /\ i <= p + (la + lb))
        BY <2>1, <2>5, <3>3
      <4>2. CASE i <= lg
        <5>1. i \in 1 .. lg
          BY <2>5, <4>2
        <5> QED BY <2>4, <2>7, <2>8, <4>1, <4>2, <5>1
      <4>3. CASE ~ i <= lg
        <5>1. ~ i <= lf
          BY <2>1, <2>5, <4>3 DEF Larger
        <5> QED BY <2>7, <2>8, <4>1, <4>3, <5>1
      <4> QED BY <4>2, <4>3
    <3>4. \/ i > p + la /\ i <= p + la + lb
          \/ i > p /\ i <= p + la
          \/ i <= p \/ i > p + la + lb
      BY <2>1, <2>5
    <3> QED BY <3>1, <3>2, <3>3, <3>4
  <2>10. Overlay(g, p + la, b) = Overlay(f, p, c)
    BY <2>6, <2>7, <2>8, <2>9, SameBytes
  <2> QED BY <2>10 DEF g, la, c
<1> QED BY <1>1, <1>2, <1>3

-----------------------------------------------------------------------------
(* What the file is while the buffer holds input, and while it holds       *)
(* output.                                                                 *)

LEMMA ReadingMaps ==
  IInv /\ ~ HoldsOutput => /\ Pending = <<>> /\ Content = file
                           /\ Position = kpos - data_len + data_offset
<1> SUFFICES ASSUME IInv, ~ HoldsOutput
             PROVE  /\ Pending = <<>> /\ Content = file
                    /\ Position = kpos - data_len + data_offset
  OBVIOUS
<1>1. /\ buffer \in Seq(Int) /\ data_offset \in Nat /\ data_len \in Nat
      /\ data_offset <= data_len /\ kpos \in Nat /\ file \in Seq(Int)
  BY DEF IInv, TypeOK, ContentInv
<1>2. Pending = <<>> /\ Unread = BufferBytes(data_offset, data_len)
  BY DEF Pending, Unread
<1>3. Len(Unread) = data_len - data_offset
  BY <1>1, <1>2, BufferBytesBytes
<1>4. Content = file
  BY <1>1, <1>2, ConcatEmptySeq DEF Content, Overlay
<1> QED BY <1>1, <1>2, <1>3, <1>4 DEF Position

LEMMA WritingMaps ==
  IInv /\ HoldsOutput => /\ Unread = <<>> /\ Pending = BufferBytes(flushed, data_offset)
                         /\ Pending \in Seq(Int)
                         /\ Len(Pending) = data_offset - flushed
                         /\ Pending = <<>> => Content = file /\ Position = kpos
<1> SUFFICES ASSUME IInv, HoldsOutput
             PROVE  /\ Unread = <<>> /\ Pending = BufferBytes(flushed, data_offset)
                    /\ Pending \in Seq(Int)
                    /\ Len(Pending) = data_offset - flushed
                    /\ Pending = <<>> => Content = file /\ Position = kpos
  OBVIOUS
<1>1. /\ buffer \in Seq(Int) /\ data_offset \in Nat /\ flushed \in Nat
      /\ flushed <= data_offset /\ kpos \in Nat /\ file \in Seq(Int)
  BY DEF IInv, TypeOK, ContentInv
<1>2. Unread = <<>> /\ Pending = BufferBytes(flushed, data_offset)
  BY DEF Pending, Unread
<1>3. Pending \in Seq(Int) /\ Len(Pending) = data_offset - flushed
  BY <1>1, <1>2, BufferBytesBytes
<1>4. Pending = <<>> => Content = file
  BY <1>1, ConcatEmptySeq DEF Content, Overlay
<1>5. Pending = <<>> => Position = kpos
  BY <1>1, <1>2 DEF Position
<1> QED BY <1>2, <1>3, <1>4, <1>5

(* The same after a step.                                                  *)
LEMMA ReadingMapsNext ==
  (IInv /\ ~ HoldsOutput => /\ Pending = <<>> /\ Content = file
                            /\ Position = kpos - data_len + data_offset)'
<1>1. IInv /\ ~ HoldsOutput => /\ Pending = <<>> /\ Content = file
                              /\ Position = kpos - data_len + data_offset
  BY ReadingMaps
<1> QED BY <1>1, PTL

LEMMA WritingMapsNext ==
  (IInv /\ HoldsOutput /\ Pending = <<>> => Content = file /\ Position = kpos)'
<1>1. IInv /\ HoldsOutput /\ Pending = <<>> => Content = file /\ Position = kpos
  BY WritingMaps
<1> QED BY <1>1, PTL

(* An empty buffer, whatever it is for.                                    *)
LEMMA EmptyMaps ==
  IInv /\ data_offset = 0 /\ data_len = 0 =>
    /\ Pending = <<>> /\ Unread = <<>> /\ Content = file /\ Position = kpos
<1> SUFFICES ASSUME IInv, data_offset = 0, data_len = 0
             PROVE  Pending = <<>> /\ Unread = <<>> /\ Content = file /\ Position = kpos
  OBVIOUS
<1>1. flushed = 0 /\ kpos \in Nat
  BY DEF IInv, ContentInv, TypeOK
<1>2. Pending = <<>> /\ Unread = <<>>
  BY <1>1, NothingUnread DEF Pending, Unread
<1>3. CASE HoldsOutput
  BY <1>2, <1>3, WritingMaps
<1>4. CASE ~ HoldsOutput
  BY <1>1, <1>2, <1>4, ReadingMaps
<1> QED BY <1>2, <1>3, <1>4

LEMMA EmptyMapsNext ==
  (IInv /\ data_offset = 0 /\ data_len = 0 =>
     /\ Pending = <<>> /\ Unread = <<>> /\ Content = file /\ Position = kpos)'
<1>1. IInv /\ data_offset = 0 /\ data_len = 0 =>
        /\ Pending = <<>> /\ Unread = <<>> /\ Content = file /\ Position = kpos
  BY EmptyMaps
<1> QED BY <1>1, PTL

(* Input in the buffer is a part of the object, before its offset.         *)
LEMMA BufferIsContent ==
  ASSUME IInv, Coherent, NEW i \in Nat, NEW n \in Nat \ {0}, i + n <= data_len
  PROVE  /\ kpos - data_len + i \in Nat /\ kpos - data_len + i + n <= Len(file)
         /\ BufferBytes(i, i + n) = Slice(file, kpos - data_len + i, kpos - data_len + i + n)
<1> DEFINE p == kpos - data_len + i
           j == i + n
           b == BufferBytes(i, j)
           s == SubSeq(file, p + 1, p + n)
<1>1. /\ buffer \in Seq(Int) /\ file \in Seq(Int) /\ kpos \in Nat /\ data_len \in Nat
      /\ Len(file) \in Nat /\ Len(buffer) \in Nat /\ data_len <= Len(buffer)
  BY LenProperties DEF IInv, TypeOK, ContentInv, buffer_size
<1>2. /\ data_len <= kpos /\ kpos <= Len(file)
      /\ \A k \in 1 .. data_len : buffer[k] = file[kpos - data_len + k]
  BY <1>1 DEF Coherent
<1>3. p \in Nat /\ p + n <= Len(file) /\ j \in Nat /\ i <= j /\ j - i = n /\ j <= data_len
  BY <1>1, <1>2
<1> HIDE DEF j
<1>4. b \in Seq(Int) /\ Len(b) = n
  BY <1>1, <1>3, BufferBytesBytes
<1>5. \A k \in 1 .. n : b[k] = buffer[i + k]
  BY <1>1, <1>3 DEF BufferBytes
<1> HIDE DEF p, b
<1>6. \A k \in p + 1 .. p + n : file[k] \in Int
  BY <1>1, <1>3, ElementOfSeq
<1>7. /\ s \in Seq(Int) /\ Len(s) = IF p + 1 <= p + n THEN p + n - (p + 1) + 1 ELSE 0
      /\ \A k \in 1 .. p + n - (p + 1) + 1 : s[k] = file[p + 1 + k - 1]
  BY <1>3, <1>6, SubSeqProperties
<1> HIDE DEF s
<1>8. p + 1 <= p + n /\ p + n - (p + 1) + 1 = n /\ \A k \in 1 .. n : p + 1 + k - 1 = p + k
  BY <1>3
<1>9. Len(s) = n /\ \A k \in 1 .. n : s[k] = file[p + k]
  BY <1>7, <1>8
<1>10. \A k \in 1 .. n : b[k] = s[k]
  <2> TAKE k \in 1 .. n
  <2>1. i + k \in 1 .. data_len /\ kpos - data_len + (i + k) = p + k
    BY <1>1, <1>3 DEF p, j
  <2> QED BY <1>2, <1>5, <1>9, <2>1
<1>11. b = s
  BY <1>4, <1>7, <1>9, <1>10, SameBytes
<1> QED BY <1>3, <1>11 DEF p, j, b, s, Slice

(* A write at the end of the file appends to it.                           *)
LEMMA OverlayEnd ==
  ASSUME NEW f \in Seq(Int), NEW s \in Seq(Int)
  PROVE  Overlay(f, Len(f), s) = f \o s
<1>0. Len(f) \in Nat /\ Len(s) \in Nat
  BY LenProperties
<1>1. CASE s = <<>>
  BY <1>1, ConcatEmptySeq DEF Overlay
<1>2. CASE s # <<>>
  <2> DEFINE o == Overlay(f, Len(f), s)
             c == f \o s
             n == Len(f) + Len(s)
  <2>1. Larger(Len(f), Len(f) + Len(s)) = n
    BY <1>0 DEF Larger
  <2>2. /\ o \in Seq(Int) /\ Len(o) = n
        /\ \A i \in 1 .. n : o[i] = IF i > Len(f) /\ i <= Len(f) + Len(s) THEN s[i - Len(f)]
                                    ELSE IF i <= Len(f) THEN f[i] ELSE 0
    <3>1. /\ o \in Seq(Int) /\ Len(o) = Larger(Len(f), Len(f) + Len(s))
          /\ \A i \in 1 .. Larger(Len(f), Len(f) + Len(s)) :
               o[i] = IF i > Len(f) /\ i <= Len(f) + Len(s) THEN s[i - Len(f)]
                      ELSE IF i <= Len(f) THEN f[i] ELSE 0
      BY <1>0, <1>2, OverlayAt
    <3> HIDE DEF n, o
    <3> QED BY <2>1, <3>1
  <2>3. /\ c \in Seq(Int) /\ Len(c) = n
        /\ \A i \in 1 .. n : c[i] = IF i <= Len(f) THEN f[i] ELSE s[i - Len(f)]
    BY ConcatProperties
  <2> HIDE DEF o, c
  <2>4. \A i \in 1 .. n : o[i] = c[i]
    <3> SUFFICES ASSUME NEW i \in 1 .. n PROVE o[i] = c[i]
      OBVIOUS
    <3>1. CASE i <= Len(f)
      <4>1. ~ (i > Len(f) /\ i <= Len(f) + Len(s))
        BY <1>0, <3>1
      <4> QED BY <2>2, <2>3, <3>1, <4>1
    <3>2. CASE ~ i <= Len(f)
      <4>1. i > Len(f) /\ i <= Len(f) + Len(s)
        BY <1>0, <3>2
      <4> QED BY <2>2, <2>3, <3>2, <4>1
    <3> QED BY <3>1, <3>2
  <2>5. o = c
    BY <2>2, <2>3, <2>4, SameBytes
  <2> QED BY <2>5 DEF o, c
<1> QED BY <1>1, <1>2

(* A step that touches neither the object nor the buffer's bytes.          *)
LEMMA UntouchedMaps ==
  ASSUME UNCHANGED <<file, kpos, src, tail, got, op>>, pc # "closed", pc' # "closed",
         HoldsOutput' <=> HoldsOutput,
         HoldsOutput => UNCHANGED <<buffer, data_offset, flushed>>,
         ~ HoldsOutput => UNCHANGED <<buffer, data_offset, data_len>>
  PROVE  UNCHANGED Abstract!vars
<1>1. Pending' = Pending /\ Unread' = Unread
  <2>1. CASE HoldsOutput
    BY <2>1 DEF Pending, Unread, BufferBytes
  <2>2. CASE ~ HoldsOutput
    BY <2>2 DEF Pending, Unread, BufferBytes
  <2> QED BY <2>1, <2>2
<1>2. UNCHANGED <<Content, Position, CallOf, got, Todo>>
  BY <1>1 DEF Content, Position, CallOf, Todo
<1> QED BY <1>2, HiddenStep

-----------------------------------------------------------------------------
(* The invariant.                                                          *)

LEMMA InitFileInv == Init => FileInv
<1> SUFFICES ASSUME Init PROVE Coherent /\ CallInv
  BY IInvInit, InitRead DEF FileInv
<1>1. data_len = 0 /\ kpos = 0 /\ got = <<>> /\ src = <<>> /\ tail = <<>>
      /\ pc = "idle" /\ op = "none" /\ data_offset = 0
  BY DEF Init
<1> QED BY <1>1 DEF Coherent, CallInv

LEMMA CoherentStays ==
  ASSUME IInv', data_len' = 0 \/ (Coherent /\ UNCHANGED <<buffer, data_len, kpos, file>>)
  PROVE  Coherent'
<1>1. CASE data_len' = 0
  <2>1. kpos' \in Nat /\ 1 .. 0 = {}
    BY DEF IInv, TypeOK
  <2> QED BY <1>1, <2>1 DEF Coherent
<1>2. CASE Coherent /\ UNCHANGED <<buffer, data_len, kpos, file>>
  BY <1>2 DEF Coherent
<1> QED BY <1>1, <1>2

LEMMA NextCoherent ==
  ASSUME FaithfulObject
  PROVE  FileInv /\ [Next]_vars => Coherent'
<1> SUFFICES ASSUME FileInv, [Next]_vars PROVE Coherent'
  OBVIOUS
<1> USE DEF Goto, Fail, Fault, CallFlush, backend, stream, flushing, request, ghosts
<1>0. TypeOK /\ ControlInv /\ ContentInv /\ ReadInv /\ Coherent /\ CallInv /\ IInv'
  BY FaithfulIsOneWay, NextKeepsIInv DEF IInv, FileInv
<1>1. CASE UNCHANGED <<buffer, data_len, kpos, file>> \/ data_len' = 0
  BY <1>0, <1>1, CoherentStays
<1>2. CASE Call
  BY <1>1, <1>2 DEF Call, es_read, es_write, es_getline, es_fseek, es_fflush, es_setvbuf,
                    es_clearerr, es_fclose, Begin
<1>3. CASE es_flush
  <2>1. CASE FlushAssertFails BY <1>1, <2>1 DEF FlushAssertFails
  <2>2. CASE FlushWrite
    <3>1. data_len' = 0
      BY <1>0, <2>2 DEF FlushWrite, ContentInv, HoldsOutput
    <3> QED BY <1>1, <3>1
  <2>3. CASE FlushWriteOver   BY <1>1, <2>3 DEF FlushWriteOver
  <2>4. CASE FlushFails       BY <1>1, <2>4 DEF FlushFails
  <2>5. CASE FlushReturns     BY <1>1, <2>5 DEF FlushReturns, FlushEvent
  <2> QED BY <1>3, <2>1, <2>2, <2>3, <2>4, <2>5 DEF es_flush
<1>4. CASE es_readn           BY <1>1, <1>4 DEF es_readn
<1>5. CASE es_read_nbf
  <2>1. data_len' = 0
    BY <1>0, <1>5 DEF es_read_nbf, ReadInv, ContentInv, TypeOK, buffer_size
  <2> QED BY <1>1, <2>1
<1>6. CASE es_read_fbf        BY <1>1, <1>6 DEF es_read_fbf
<1>7. CASE es_fill
  <2>1. CASE FillReads
    <3>1. PICK n \in ReadCounts(buffer_size) :
             /\ TakeInput(n) /\ data_len' = n
             /\ buffer' = Overlay(buffer, 0, Slice(file, kpos, kpos + n))
      BY <2>1 DEF FillReads
    <3> DEFINE s == Slice(file, kpos, kpos + n)
    <3>2. /\ n \in Nat /\ n <= Len(buffer) /\ s \in Seq(Int) /\ Len(s) = n
          /\ kpos' = kpos + n /\ UNCHANGED file
          /\ kpos \in Nat /\ file \in Seq(Int) /\ Len(file) \in Nat /\ Len(buffer) \in Nat
      <4>1. /\ Len(buffer) \in Nat /\ buffer_size = Len(buffer) /\ Len(file) \in Nat
            /\ kpos \in Nat /\ file \in Seq(Int)
        BY <1>0, LenProperties DEF TypeOK, buffer_size
      <4>2. /\ n \in 0 .. buffer_size /\ s \in Seq(Int) /\ Len(s) = n
        BY <1>0, <3>1, <4>1, ReadTakesBytes
      <4> QED BY <3>1, <4>1, <4>2 DEF TakeInput
    <3>3. CASE n = 0
      BY <1>1, <3>1, <3>3
    <3>4. CASE n # 0
      <4>1. kpos + n <= Len(file)
        BY <3>1, <3>2, <3>4 DEF ReadCounts, SmallerOf, buffer_size
      <4>2. \A i \in 1 .. n : s[i] = file[kpos + i]
        <5>1. \A i \in kpos + 1 .. kpos + n : file[i] \in Int
          BY <3>2, <4>1, ElementOfSeq
        <5>2. \A i \in 1 .. kpos + n - (kpos + 1) + 1 : s[i] = file[kpos + 1 + i - 1]
          BY <3>2, <5>1, SubSeqProperties DEF Slice
        <5>3. kpos + n - (kpos + 1) + 1 = n /\ \A i \in 1 .. n : kpos + 1 + i - 1 = kpos + i
          BY <3>2
        <5> QED BY <5>2, <5>3
      <4> HIDE DEF s
      <4>3. \A i \in 1 .. n : buffer'[i] = s[i]
        <5>1. s # <<>> /\ buffer \in Seq(Int) /\ 0 \in Nat
          BY <1>0, <3>2, <3>4, EmptySeq DEF TypeOK
        <5>2. \A i \in 1 .. Larger(Len(buffer), 0 + Len(s)) :
                Overlay(buffer, 0, s)[i] = IF i > 0 /\ i <= 0 + Len(s) THEN s[i - 0]
                                           ELSE IF i <= Len(buffer) THEN buffer[i] ELSE 0
          BY <3>2, <5>1, OverlayAt
        <5>3. \A i \in 1 .. n : /\ i \in 1 .. Larger(Len(buffer), 0 + Len(s))
                                /\ i > 0 /\ i <= 0 + Len(s) /\ i - 0 = i
          BY <3>2 DEF Larger
        <5>4. buffer' = Overlay(buffer, 0, s)
          BY <3>1 DEF s
        <5> QED BY <5>2, <5>3, <5>4
      <4>4. \A i \in 1 .. n : kpos' - n + i = kpos + i
        BY <3>2
      <4>5. data_len' <= kpos' /\ kpos' <= Len(file')
        BY <3>1, <3>2, <4>1
      <4> QED BY <3>1, <3>2, <4>2, <4>3, <4>4, <4>5 DEF Coherent
    <3> QED BY <3>3, <3>4
  <2>2. CASE FillFails
    BY <1>1, <2>2 DEF FillFails, es_empty
  <2> QED BY <1>7, <2>1, <2>2 DEF es_fill
<1>8. CASE es_peek            BY <1>1, <1>8 DEF es_peek
<1>9. CASE doreadline \/ LineAllocFails
  BY <1>1, <1>9 DEF LineAllocFails, doreadline, LineStreamMade, LineStreamFails
<1>10. CASE SwitchToReading   BY <1>1, <1>10 DEF SwitchToReading
<1>11. CASE es_seek
  BY <1>1, <1>11 DEF es_seek, SeekFlushes, SeekMoves, SeekFails, es_empty
<1>12. CASE es_writen         BY <1>1, <1>12 DEF es_writen
<1>13. CASE es_write_lbf      BY <1>1, <1>13 DEF es_write_lbf
<1>14. CASE es_write_nbf \/ write_copy
  <2>1. pc \in WriteLabels /\ UNCHANGED data_len
    BY <1>14 DEF es_write_nbf, write_copy, WriteLabels
  <2>2. data_len = 0
    BY <1>0, <2>1 DEF ContentInv
  <2> QED BY <1>1, <2>1, <2>2
<1>15. CASE es_write_fbf      BY <1>1, <1>15 DEF es_write_fbf
<1>16. CASE do_fflush         BY <1>1, <1>16 DEF do_fflush, es_empty
<1>17. CASE es_set_buffering  BY <1>1, <1>17 DEF es_set_buffering, es_empty
<1>18. CASE new_buffer
  <2>1. data_len' = 0
    BY <1>0, <1>18 DEF new_buffer, ContentInv
  <2> QED BY <1>1, <2>1
<1>19. CASE es_deinitialize   BY <1>1, <1>19 DEF es_deinitialize
<1>20. CASE func_close        BY <1>1, <1>20 DEF func_close
<1>21. CASE Return            BY <1>1, <1>21 DEF Return
<1>22. CASE UNCHANGED vars    BY <1>1, <1>22 DEF vars
<1> QED
  BY <1>2, <1>3, <1>4, <1>5, <1>6, <1>7, <1>8, <1>9, <1>10, <1>11, <1>12, <1>13, <1>14,
     <1>15, <1>16, <1>17, <1>18, <1>19, <1>20, <1>21, <1>22 DEF Next, Step, Terminated

LEMMA NextCall ==
  ASSUME FaithfulObject
  PROVE  FileInv /\ [Next]_vars => CallInv'
<1> SUFFICES ASSUME FileInv, [Next]_vars PROVE CallInv'
  OBVIOUS
<1> USE DEF Goto, Fail, Fault, CallFlush, backend, stream, flushing, request, ghosts
<1>0. TypeOK /\ ControlInv /\ ContentInv /\ ReadInv /\ Coherent /\ CallInv /\ IInv'
  BY FaithfulIsOneWay, NextKeepsIInv DEF IInv, FileInv
<1>1. CASE Call
  <2>1. CASE es_read \/ es_write \/ es_getline \/ es_fseek \/ es_fflush \/ es_setvbuf
    BY <1>0, <2>1, ClientAssumption
       DEF es_read, es_write, es_getline, es_fseek, es_fflush, es_setvbuf, Begin, CallInv,
           HoldsOutput, AllOps
  <2>2. CASE es_clearerr
    BY <1>0, <2>2 DEF es_clearerr, CallInv, HoldsOutput, Pending, BufferBytes
  <2>3. CASE es_fclose
    BY <1>0, <2>3 DEF es_fclose, CallInv, HoldsOutput
  <2> QED BY <1>1, <2>1, <2>2, <2>3 DEF Call
<1>2. CASE es_flush
  <2>1. CASE FlushAssertFails
    BY <1>0, <2>1 DEF FlushAssertFails, CallInv, HoldsOutput
  <2>2. CASE FlushWrite
    BY <1>0, <2>2 DEF FlushWrite, CallInv, HoldsOutput
  <2>3. CASE FlushWriteOver
    BY <2>3 DEF FlushWriteOver, FaithfulObject
  <2>4. CASE FlushFails
    BY <2>4 DEF FlushFails, FaithfulObject
  <2>5. CASE FlushReturns
    <3>1. data_offset' = 0 /\ flushed' = 0
      BY <1>0, <2>5 DEF FlushReturns, FlushEvent, ContentInv, TypeOK
    <3>2. Pending' = <<>>
      BY <3>1, NoOutputNext
    <3> QED BY <1>0, <2>5, <3>1, <3>2
            DEF FlushReturns, FlushEvent, CallInv, HoldsOutput, TypeOK, FlushTargets, ControlInv
  <2> QED BY <1>2, <2>1, <2>2, <2>3, <2>4, <2>5 DEF es_flush
<1>3. CASE es_readn
  BY <1>0, <1>3 DEF es_readn, CallInv, HoldsOutput, ControlInv
<1>4. CASE es_read_nbf
  <2>1. /\ pc = "es_read_nbf" /\ op = "read" /\ op' = op /\ UNCHANGED <<src, tail>>
        /\ pc' \in {"out", "es_read_nbf"} /\ UNCHANGED <<data_offset, writing, stored>>
    BY <1>0, <1>4 DEF es_read_nbf, ControlInv
  <2> QED BY <1>0, <2>1 DEF CallInv, HoldsOutput
<1>5. CASE es_read_fbf
  BY <1>0, <1>5 DEF es_read_fbf, CallInv, HoldsOutput, ControlInv, ContentInv, ReadLabels
<1>6. CASE es_fill
  <2>1. /\ pc = "es_fill" /\ op \in {"read", "getline"} /\ op' = op /\ ~ HoldsOutput
        /\ UNCHANGED <<src, tail, got, writing, stored>>
        /\ pc' \in {"out", "es_read_fbf", "es_peek"}
    BY <1>0, <1>6 DEF es_fill, FillReads, FillFails, ControlInv, ContentInv, ReadLabels,
       HoldsOutput
  <2> QED BY <1>0, <2>1 DEF CallInv, HoldsOutput
<1>7. CASE es_peek
  <2>1. CASE writing \/ data_offset = data_len
    BY <1>0, <1>7, <2>1 DEF es_peek, CallInv, HoldsOutput, ControlInv
  <2>2. CASE ~ writing /\ data_offset # data_len
    <3> DEFINE data == BufferBytes(data_offset, data_len)
    <3>1. PICK n \in 1 .. Len(data) :
            /\ IsFirstLineEnd(data, n) /\ got' = got \o SubSeq(data, 1, n)
            /\ Goto(IF IsNewline(data[n]) THEN "out" ELSE "es_peek")
      BY <1>7, <2>2 DEF es_peek
    <3>2. /\ pc = "es_peek" /\ op = "getline" /\ op' = op /\ ~ HoldsOutput
          /\ UNCHANGED <<src, tail, writing, stored>> /\ pc' \in {"out", "es_peek"}
      BY <1>0, <1>7, <2>2 DEF es_peek, ControlInv, HoldsOutput
    <3>3. data \in Seq(Int)
      BY <1>0, BufferBytesBytes DEF TypeOK
    <3> HIDE DEF data
    <3>4. pc' # "out" => \A i \in 1 .. n : ~ IsNewline(data[i])
      BY <3>1, <3>3, LenProperties DEF IsFirstLineEnd
    <3>5. pc' # "out" => \A i \in 1 .. Len(got') : ~ IsNewline(got'[i])
      <4> DEFINE u == SubSeq(data, 1, n)
      <4>1. n \in Nat /\ n <= Len(data) /\ \A i \in 1 .. n : data[i] \in Int
        BY <3>3, LenProperties, ElementOfSeq
      <4>2. u \in Seq(Int) /\ Len(u) = n /\ \A i \in 1 .. n : u[i] = data[i]
        <5>1. /\ u \in Seq(Int) /\ Len(u) = IF 1 <= n THEN n - 1 + 1 ELSE 0
              /\ \A i \in 1 .. n - 1 + 1 : u[i] = data[1 + i - 1]
          BY <4>1, SubSeqProperties
        <5>2. Len(u) = n
          BY <4>1, <5>1
        <5>3. \A i \in 1 .. n : i \in 1 .. n - 1 + 1 /\ 1 + i - 1 = i
          BY <4>1
        <5> QED BY <5>1, <5>2, <5>3
      <4> HIDE DEF u
      <4>3. got' = got \o u
        BY <3>1 DEF u
      <4>4. /\ Len(got) \in Nat /\ Len(got \o u) = Len(got) + Len(u)
            /\ \A i \in 1 .. Len(got) : (got \o u)[i] = got[i]
            /\ \A i \in 1 .. Len(u) : (got \o u)[Len(got) + i] = u[i]
        <5>1. got \in Seq(Int)
          BY <1>0 DEF TypeOK
        <5> QED BY <4>2, <5>1, ConcatBytes
      <4>5. \A i \in 1 .. Len(got) : ~ IsNewline(got[i])
        BY <1>0, <3>2 DEF CallInv
      <4> SUFFICES ASSUME pc' # "out", NEW i \in 1 .. Len(got') PROVE ~ IsNewline(got'[i])
        OBVIOUS
      <4>6. CASE i <= Len(got)
        BY <4>3, <4>4, <4>5, <4>6
      <4>7. CASE i > Len(got)
        <5>1. i - Len(got) \in 1 .. n /\ Len(got) + (i - Len(got)) = i
          BY <4>1, <4>2, <4>3, <4>4, <4>7
        <5>2. got'[i] = data[i - Len(got)]
          BY <4>2, <4>3, <4>4, <5>1
        <5> QED BY <3>4, <5>1, <5>2
      <4> QED BY <4>3, <4>4, <4>6, <4>7
    <3> QED BY <1>0, <3>2, <3>5 DEF CallInv, HoldsOutput
  <2> QED BY <2>1, <2>2
<1>8. CASE doreadline \/ LineAllocFails
  <2>1. CASE LineStreamMade
    BY <1>0, <2>1 DEF LineStreamMade, CallInv, HoldsOutput
  <2>2. CASE LineStreamFails
    <3>1. /\ pc = "doreadline" /\ op # "fclose" /\ op' = op /\ pc' \in {"out", "broken"}
          /\ UNCHANGED <<src, tail, got, writing, stored, data_offset>>
      BY <1>0, <2>2 DEF LineStreamFails, Fail, Goto, ControlInv
    <3> QED BY <1>0, <3>1 DEF CallInv, HoldsOutput
  <2>3. CASE LineAllocFails
    BY <1>0, <2>3 DEF LineAllocFails, CallInv, HoldsOutput
  <2> QED BY <1>8, <2>1, <2>2, <2>3 DEF doreadline
<1>9. CASE SwitchToReading
  BY <1>0, <1>9 DEF SwitchToReading, CallInv, HoldsOutput, ControlInv, ContentInv
<1>10. CASE es_seek
  <2>1. CASE SeekFlushes
    BY <1>0, <2>1 DEF SeekFlushes, CallInv, HoldsOutput, ControlInv
  <2>2. CASE SeekMoves
    BY <1>0, <2>2 DEF SeekMoves, WriteFunction, es_empty, CallInv, HoldsOutput, ControlInv
  <2>3. CASE SeekFails
    <3>1. /\ pc = "es_seek" /\ op \in {"write", "fseek"} /\ op' = op
          /\ UNCHANGED <<src, tail, got, writing, stored, data_offset>>
          /\ pc' \in {"out", "es_write_nbf", "es_write_lbf", "es_write_fbf"}
          /\ pc' = "es_write_nbf" => op = "write"
      BY <1>0, <2>3 DEF SeekFails, WriteFunction, ControlInv
    <3>2. pc' = "es_write_nbf" => data_offset' = 0
      BY <1>0, <3>1 DEF IInv, ControlInv, ContentInv, WriteLabels, HoldsOutput
    <3> QED BY <1>0, <3>1, <3>2 DEF CallInv, HoldsOutput
  <2> QED BY <1>10, <2>1, <2>2, <2>3 DEF es_seek
<1>11. CASE es_writen
  <2>1. pc' = "es_write_nbf" => data_offset' = 0
    BY <1>0, <1>11 DEF es_writen, WriteFunction, ReadInv, ContentInv, TypeOK, buffer_size
  <2> QED BY <1>0, <1>11, <2>1 DEF es_writen, WriteFunction, CallInv, HoldsOutput, ControlInv
<1>12. CASE es_write_lbf
  <2>1. /\ pc = "es_write_lbf" /\ op = "write" /\ op' = op /\ tail = <<>>
        /\ UNCHANGED <<got, writing, stored, data_offset>>
        /\ \/ pc' = "es_write_fbf" /\ tail' = tail
           \/ pc' = "es_flush" /\ cont' = "es_write_nbf"
    BY <1>0, <1>12 DEF es_write_lbf, ControlInv, CallInv, WriteLabels
  <2> QED BY <1>0, <2>1 DEF CallInv, HoldsOutput
<1>13. CASE es_write_nbf
  <2>1. /\ pc = "es_write_nbf" /\ op = "write" /\ op' = op /\ data_offset = 0
        /\ UNCHANGED <<got, writing, data_offset>>
        /\ \/ pc' = "es_write_nbf" /\ tail' = tail
           \/ pc' = "out" /\ tail' = tail
           \/ pc' \in {"es_write_fbf", "out"} /\ tail' = <<>>
    BY <1>0, <1>13 DEF es_write_nbf, ControlInv, CallInv, WriteLabels
  <2> QED BY <1>0, <2>1 DEF CallInv, HoldsOutput
<1>14. CASE es_write_fbf
  BY <1>0, <1>14 DEF es_write_fbf, CallInv, HoldsOutput, ControlInv, WriteLabels
<1>15. CASE write_copy
  <2>1. /\ pc = "write_copy" /\ op = "write" /\ op' = op /\ pc' = "es_write_fbf"
        /\ UNCHANGED <<got, tail>> /\ Seekable
    BY <1>0, <1>15, ClientAssumption
       DEF write_copy, ControlInv, WriteLabels, FaithfulObject
  <2>2. Seekable'
    BY <2>1 DEF Seekable
  <2> QED BY <1>0, <2>1, <2>2 DEF CallInv
<1>16. CASE do_fflush
  BY <1>0, <1>16 DEF do_fflush, es_empty, CallInv, HoldsOutput, ControlInv
<1>17. CASE es_set_buffering
  BY <1>0, <1>17 DEF es_set_buffering, es_empty, CallInv, HoldsOutput, ControlInv
<1>18. CASE new_buffer
  BY <1>0, <1>18 DEF new_buffer, CallInv, HoldsOutput, ControlInv
<1>19. CASE es_deinitialize
  <2>1. CASE writing
    BY <1>0, <1>19, <2>1 DEF es_deinitialize, CallInv, HoldsOutput, ControlInv
  <2>2. CASE ~ writing
    BY <1>0, <1>19, <2>2 DEF es_deinitialize, CallInv, HoldsOutput, ControlInv, Pending
  <2> QED BY <2>1, <2>2
<1>20. CASE func_close
  BY <1>0, <1>20 DEF func_close, CallInv, HoldsOutput, ControlInv, Pending, BufferBytes
<1>21. CASE Return
  BY <1>0, <1>21 DEF Return, CallInv, HoldsOutput, ControlInv
<1>22. CASE UNCHANGED vars
  BY <1>0, <1>22 DEF vars, CallInv, HoldsOutput, Pending, BufferBytes
<1> QED
  BY <1>1, <1>2, <1>3, <1>4, <1>5, <1>6, <1>7, <1>8, <1>9, <1>10, <1>11, <1>12,
     <1>13, <1>14, <1>15, <1>16, <1>17, <1>18, <1>19, <1>20, <1>21, <1>22
     DEF Next, Step, Terminated

-----------------------------------------------------------------------------
(* Every step of the stream is a step of the file, or hidden.              *)

LEMMA NextFileInv ==
  ASSUME FaithfulObject
  PROVE  FileInv /\ [Next]_vars => FileInv'
BY FaithfulIsOneWay, NextKeepsIInv, NextRead, NextCoherent, NextCall DEF FileInv

(* The first bytes of a request that is in two parts.                      *)
LEMMA FrontOfConcat ==
  ASSUME NEW s \in Seq(Int), NEW t \in Seq(Int), NEW n \in 1 .. Len(s)
  PROVE  /\ n \in 1 .. Len(s \o t)
         /\ SubSeq(s \o t, 1, n) = SubSeq(s, 1, n)
         /\ SubSeq(s \o t, n + 1, Len(s \o t)) = SubSeq(s, n + 1, Len(s)) \o t
<1> DEFINE u == SubSeq(s, 1, n)
           v == SubSeq(s, n + 1, Len(s))
           c == s \o t
<1>1. /\ Len(s) \in Nat /\ Len(t) \in Nat /\ c \in Seq(Int) /\ Len(c) = Len(s) + Len(t)
  BY ConcatBytes
<1>2. n \in 0 .. Len(s) /\ n \in 1 .. Len(c) /\ n \in 0 .. Len(c) /\ 1 \in 1 .. Len(s)
  BY <1>1
<1>3. u \in Seq(Int) /\ Len(u) = n /\ v \in Seq(Int) /\ s = u \o v
  BY <1>2, SplitBytes
<1>4. SubSeq(c, 1, n) = u
  BY <1>2, SubSeqOfConcat1
<1> DEFINE w == SubSeq(c, n + 1, Len(c))
<1>5. w \in Seq(Int) /\ c = SubSeq(c, 1, n) \o w
  BY <1>1, <1>2, SplitBytes
<1>6. c = u \o (v \o t) /\ v \o t \in Seq(Int)
  <2>1. u \in Bytes /\ v \in Bytes /\ t \in Bytes
    BY <1>3 DEF Bytes
  <2> HIDE DEF u, v
  <2>2. (u \o v) \o t = u \o (v \o t)
    BY <2>1, BytesAssociative
  <2> QED BY <1>3, <2>2, ConcatThree
<1> HIDE DEF u, v, w, c
<1>7. u \o w = u \o (v \o t)
  BY <1>4, <1>5, <1>6
<1>8. w = v \o t
  BY <1>3, <1>5, <1>6, <1>7, ConcatSimplifications
<1> QED BY <1>2, <1>4, <1>8 DEF u, v, w, c

(* The calls.                                                              *)
LEMMA CallMaps ==
  ASSUME FileInv, FileInv', Call
  PROVE  [Abstract!Next]_Abstract!vars
<1>0. IInv /\ CallInv /\ TypeOK
  BY DEF FileInv, IInv
<1>1. CASE es_clearerr
  BY <1>1, UntouchedMaps DEF es_clearerr, backend, flushing, request, HoldsOutput
<1>2. CASE es_read \/ es_write \/ es_getline \/ es_fseek \/ es_fflush \/ es_setvbuf \/ es_fclose
  <2>1. /\ pc = "idle" /\ op = "none" /\ got = <<>> /\ src = <<>> /\ tail = <<>>
        /\ op' \in Ops \cup {"fclose"} /\ pc' # "closed" /\ got' = <<>> /\ tail' = <<>>
        /\ op' # "write" => src' = <<>>
        /\ UNCHANGED <<file, kpos, buffer, data_offset, data_len, flushed, writing, stored>>
    BY <1>0, <1>2 DEF es_read, es_write, es_getline, es_fseek, es_fflush, es_setvbuf,
       es_fclose, Begin, CallInv, backend, stream, flushing, request
  <2>2. Pending' = Pending /\ Unread' = Unread
    BY <2>1 DEF Pending, Unread, HoldsOutput, BufferBytes
  <2>3. UNCHANGED <<Content, Position>>
    BY <2>1, <2>2 DEF Content, Position
  <2>4. CallOf = "none" /\ CallOf' \in Ops \cup {"fclose"} /\ CallOf' = op'
    BY <2>1 DEF CallOf
  <2>5. CallOf' # "write" => Todo' = <<>>
    <3>1. <<>> \o <<>> = <<>>
      BY EmptySeq, ConcatEmptySeq
    <3> QED BY <2>1, <2>4, <3>1 DEF Todo
  <2> QED BY <2>1, <2>3, <2>4, <2>5, BeginStep
<1> QED BY <1>1, <1>2 DEF Call

(* es_flush: what leaves the buffer reaches the object, at its offset.     *)
LEMMA FlushMaps ==
  ASSUME FaithfulObject, FileInv, FileInv', es_flush
  PROVE  [Abstract!Next]_Abstract!vars
<1> USE DEF Goto, backend, stream, flushing, request, ghosts
<1>0. /\ IInv /\ CallInv /\ TypeOK /\ ContentInv /\ IInv' /\ CallInv' /\ TypeOK'
  BY DEF FileInv, IInv
<1>1. CASE FlushAssertFails
  BY <1>1, UntouchedMaps DEF FlushAssertFails, HoldsOutput
<1>2. CASE FlushWriteOver
  BY <1>2 DEF FlushWriteOver, FaithfulObject
<1>3. CASE FlushFails
  BY <1>3 DEF FlushFails, Fault, FaithfulObject
<1>4. CASE FlushReturns
  <2>1. /\ flushed = data_offset /\ data_offset' = 0 /\ flushed' = 0 /\ pc = "es_flush"
        /\ UNCHANGED <<file, kpos, src, tail, got, op, data_len, writing, stored>>
        /\ HoldsOutput /\ HoldsOutput' /\ pc' # "closed" /\ data_offset \in Nat
    BY <1>0, <1>4 DEF FlushReturns, FlushEvent, ContentInv, TypeOK, HoldsOutput, FlushTargets
  <2>2. Pending = <<>>
    BY <2>1, NothingUnread DEF Pending
  <2>3. Pending' = <<>>
    BY <2>1, NoOutputNext
  <2>4. Content = file /\ Position = kpos
    BY <1>0, <2>1, <2>2, WritingMaps
  <2>5. Content' = file' /\ Position' = kpos'
    BY <1>0, <2>1, <2>3, WritingMapsNext
  <2>6. UNCHANGED <<Content, Position, CallOf, got, Todo>>
    BY <1>0, <2>1, <2>3, <2>4, <2>5 DEF CallOf, Todo
  <2> QED BY <2>6, HiddenStep
<1>5. CASE FlushWrite
  <2>0. PICK n \in 0 .. data_offset - flushed :
          WriteTakes(BufferBytes(flushed, data_offset), n) /\ flushed' = flushed + n
    BY <1>5 DEF FlushWrite
  <2>1. /\ pc = "es_flush" /\ pc' = pc /\ HoldsOutput /\ HoldsOutput' /\ flushed < data_offset
        /\ UNCHANGED <<buffer, data_offset, data_len, writing, stored, src, tail, got, op>>
    BY <1>5 DEF FlushWrite, HoldsOutput
  <2>2. /\ flushed \in Nat /\ data_offset \in Nat /\ flushed <= data_offset
        /\ buffer \in Seq(Int) /\ file \in Seq(Int) /\ kpos \in Nat /\ Len(file) \in Nat
        /\ file' \in Seq(Int) /\ kpos' \in Nat
    BY <1>0, LenProperties DEF TypeOK, ContentInv
  <2> DEFINE u == BufferBytes(flushed, flushed + n)
             v == BufferBytes(flushed + n, data_offset)
  <2>3. /\ SubSeq(BufferBytes(flushed, data_offset), 1, n) = u
        /\ BufferBytes(flushed, data_offset) = u \o v
    BY <2>2, BufferSplit
  <2>4. u \in Seq(Int) /\ Len(u) = n /\ v \in Seq(Int) /\ Len(v) = data_offset - flushed - n
    <3>1. /\ flushed + n \in Nat /\ flushed <= flushed + n /\ flushed + n - flushed = n
          /\ flushed + n <= data_offset
          /\ data_offset - (flushed + n) = data_offset - flushed - n
      BY <2>2
    <3> DEFINE k == flushed + n
    <3>2. k \in Nat
      BY <3>1
    <3> HIDE DEF k
    <3>3. /\ BufferBytes(flushed, k) \in Seq(Int)
          /\ Len(BufferBytes(flushed, k)) = IF flushed <= k THEN k - flushed ELSE 0
      BY <2>2, <3>2, BufferBytesBytes
    <3>4. /\ BufferBytes(k, data_offset) \in Seq(Int)
          /\ Len(BufferBytes(k, data_offset)) = IF k <= data_offset THEN data_offset - k ELSE 0
      BY <2>2, <3>2, BufferBytesBytes
    <3>5. k = flushed + n /\ flushed <= k /\ k <= data_offset
          /\ k - flushed = n /\ data_offset - k = data_offset - flushed - n
      BY <2>2, <3>1 DEF k
    <3>6. Len(BufferBytes(flushed, k)) = n
      BY <3>3, <3>5
    <3>7. Len(BufferBytes(k, data_offset)) = data_offset - flushed - n
      BY <3>4, <3>5
    <3> QED BY <3>3, <3>4, <3>6, <3>7 DEF k
  <2>5. Pending = u \o v /\ Pending' = v
    BY <2>0, <2>1, <2>3 DEF Pending, BufferBytes
  <2>6. Unread = <<>> /\ Unread' = <<>>
    BY <2>1 DEF Unread
  <2>7. StoreOutput(u)
    BY <2>0, <2>3 DEF WriteTakes
  <2> HIDE DEF u, v
  <2>8. /\ Pending # <<>> /\ Len(Pending) = data_offset - flushed /\ Len(u \o v) = Len(u) + Len(v)
        /\ (v = <<>> <=> Len(v) = 0) /\ (u = <<>> <=> Len(u) = 0)
    <3>1. Len(u \o v) = Len(u) + Len(v)
      BY <2>4, ConcatBytes
    <3>2. Len(u \o v) = data_offset - flushed /\ data_offset - flushed # 0
      BY <2>1, <2>2, <2>4, <3>1
    <3> QED BY <2>4, <2>5, <3>1, <3>2, EmptySeq
  <2>9. CASE Seekable
    <3>1. CASE Kind = "file"
      <4>1. file' = Overlay(file, kpos, u) /\ kpos' = kpos + Len(u)
        BY <2>7, <3>1 DEF StoreOutput, Seekable
      <4>2. Overlay(file', kpos', v) = Overlay(file, kpos, u \o v)
        <5>1. Overlay(Overlay(file, kpos, u), kpos + Len(u), v) = Overlay(file, kpos, u \o v)
          <6>1. file \in Seq(Int) /\ kpos \in Nat /\ u \in Seq(Int) /\ v \in Seq(Int)
            BY <2>2, <2>4
          <6> QED BY <6>1, OverlayTwice
        <5> QED BY <4>1, <5>1
      <4>3. Content' = Content
        BY <2>1, <2>5, <3>1, <4>2 DEF Content
      <4>4. Position = kpos + (Len(u) + Len(v))
        BY <2>5, <2>8, <3>1 DEF Position
      <4>5. Position' = kpos' + Len(v)
        <5>1. Len(Unread') = 0
          BY <2>6
        <5> QED BY <2>2, <2>5, <2>8, <3>1, <5>1 DEF Position
      <4>6. Position' = Position
        BY <2>2, <2>4, <4>1, <4>4, <4>5
      <4> QED BY <2>1, <4>3, <4>6, HiddenStep DEF CallOf, Todo
    <3>2. CASE Kind = "append"
      <4>1. file' = file \o u /\ kpos' = IF u = <<>> THEN kpos ELSE Len(file) + Len(u)
        BY <2>7, <3>2 DEF StoreOutput, Seekable
      <4>2. (file \o u) \o v = file \o (u \o v) /\ Len(file') = Len(file) + Len(u)
        <5>1. file \in Bytes /\ u \in Bytes /\ v \in Bytes
          BY <2>2, <2>4 DEF Bytes
        <5>2. (file \o u) \o v = file \o (u \o v)
          BY <5>1, BytesAssociative
        <5>3. Len(file \o u) = Len(file) + Len(u)
          <6>1. file \in Seq(Int) /\ u \in Seq(Int)
            BY <2>2, <2>4
          <6> QED BY <6>1, ConcatBytes
        <5> QED BY <4>1, <5>2, <5>3
      <4>3. Content' = Content
        BY <2>1, <2>5, <3>2, <4>1, <4>2 DEF Content
      <4>4. Position = Len(file) + (Len(u) + Len(v))
        BY <2>5, <2>8, <3>2 DEF Position
      <4>5. Position' = Len(file) + (Len(u) + Len(v))
        <5>1. CASE v = <<>>
          <6>1. u # <<>> /\ Len(v) = 0
            BY <2>1, <2>2, <2>4, <2>8, <5>1
          <6>2. Position' = kpos' - Len(<<>>)
            BY <2>5, <2>6, <5>1 DEF Position
          <6>3. kpos' = Len(file) + Len(u) /\ Len(<<>>) = 0
            BY <4>1, <6>1
          <6>4. Len(file) + Len(u) \in Nat /\ Len(u) \in Nat
            BY <2>2, <2>4
          <6>5. Position' = Len(file) + Len(u)
            BY <6>2, <6>3, <6>4
          <6> QED BY <2>2, <6>1, <6>4, <6>5
        <5>2. CASE v # <<>>
          <6>1. Position' = Len(file') + Len(v)
            BY <2>5, <3>2, <5>2 DEF Position
          <6> QED BY <2>2, <2>4, <4>2, <6>1
        <5> QED BY <5>1, <5>2
      <4>6. Position' = Position
        BY <4>4, <4>5
      <4> QED BY <2>1, <4>3, <4>6, HiddenStep DEF CallOf, Todo
    <3> QED BY <2>9, <3>1, <3>2 DEF Seekable
  <2>10. CASE ~ Seekable
    BY <1>0, <2>1, <2>2, <2>10 DEF CallInv
  <2> QED BY <2>9, <2>10
<1> QED BY <1>1, <1>2, <1>3, <1>4, <1>5 DEF es_flush

(* n bytes move from the file to the client, or none: es_fill only moves   *)
(* them to the buffer.                                                     *)
LEMMA TransferMaps ==
  ASSUME IInv, IInv', ~ HoldsOutput, ~ HoldsOutput', pc # "closed", pc' # "closed",
         op \in {"read", "getline"}, UNCHANGED <<op, file, src, tail>>, NEW n \in Nat,
         kpos' - data_len' + data_offset' = kpos - data_len + data_offset + n,
         n = 0 => got' = got,
         n # 0 => /\ kpos - data_len + data_offset + n <= Len(file)
                  /\ got' = got \o Slice(file, kpos - data_len + data_offset,
                                        kpos - data_len + data_offset + n),
         n # 0 /\ op = "getline" => WithinOneLine(got')
  PROVE  [Abstract!Next]_Abstract!vars
<1> DEFINE p == kpos - data_len + data_offset
<1>1. Content = file /\ Position = p
  BY ReadingMaps
<1>2. Content' = file' /\ Position' = kpos' - data_len' + data_offset'
  BY ReadingMapsNext
<1>3. UNCHANGED <<Content, CallOf, Todo>> /\ CallOf = op
  BY <1>1, <1>2 DEF CallOf, Todo
<1>4. p \in Int /\ Len(file) \in Nat
  BY LenProperties DEF IInv, TypeOK
<1>5. CASE n = 0
  <2>1. Position' = Position
    BY <1>1, <1>2, <1>4, <1>5
  <2> QED BY <1>3, <1>5, <2>1, HiddenStep
<1>6. CASE n # 0
  <2>1. Position' = Position + n
    BY <1>1, <1>2
  <2>2. got' = got \o Slice(Content, Position, Position + n)
    BY <1>1, <1>6
  <2>3. Position < Len(Content) /\ n \in 1 .. Len(Content) - Position
    <3>1. p + n <= Len(file)
      BY <1>6
    <3> HIDE DEF p
    <3> QED BY <1>1, <1>4, <1>6, <3>1
  <2>4. CallOf \in {"read", "getline"} /\ (CallOf = "getline" => WithinOneLine(got'))
    BY <1>3, <1>6
  <2> QED BY <1>3, <2>1, <2>2, <2>3, <2>4, ReadStep
<1> QED BY <1>5, <1>6

(* Reading.                                                                *)
LEMMA UnbufferedReadMaps ==
  ASSUME FaithfulObject, FileInv, FileInv', es_read_nbf
  PROVE  [Abstract!Next]_Abstract!vars
<1> USE DEF Goto, Fail, Fault, backend, stream, flushing, request, ghosts
<1>0. /\ IInv /\ IInv' /\ TypeOK /\ ContentInv /\ ReadInv
      /\ Len(got) \in Nat /\ want \in Nat /\ kpos \in Nat /\ Len(file) \in Nat
  BY LenProperties DEF FileInv, IInv, TypeOK
<1>1. /\ pc = "es_read_nbf" /\ op = "read" /\ op' = op /\ pc' \in {"es_read_nbf", "out"}
      /\ ~ HoldsOutput /\ UNCHANGED <<data_len, data_offset, writing, stored, src, tail>>
      /\ UNCHANGED buffer
  BY <1>0 DEF es_read_nbf, IInv, ControlInv, ContentInv, ReadLabels, HoldsOutput
<1>2. ~ HoldsOutput'
  BY <1>1 DEF HoldsOutput
<1>3. data_len = 0 /\ data_offset = 0
  BY <1>0, <1>1 DEF ReadInv, ContentInv, buffer_size, TypeOK
<1>4. CASE UNCHANGED <<backend, got>>
  BY <1>0, <1>1, <1>2, <1>3, <1>4, TransferMaps
<1>5. CASE /\ Len(got) < want
           /\ \E n \in ReadCounts(want - Len(got)) :
                TakeInput(n) /\ got' = got \o Slice(file, kpos, kpos + n)
  <2>0. PICK n \in ReadCounts(want - Len(got)) :
          TakeInput(n) /\ got' = got \o Slice(file, kpos, kpos + n)
    BY <1>5
  <2>1. want - Len(got) \in Nat
    BY <1>0, <1>5
  <2>2. n \in Nat /\ n <= want - Len(got) /\ kpos' = kpos + n /\ UNCHANGED file
    BY <1>0, <2>0, <2>1, ReadTakesBytes DEF TakeInput
  <2>3. n # 0 => kpos + n <= Len(file)
    BY <1>0, <2>0, <2>1 DEF ReadCounts, SmallerOf
  <2>4. n = 0 => got' = got
    <3>1. SubSeq(file, kpos + 1, kpos) = <<>> /\ kpos + 0 = kpos
      BY <1>0, SubSeqEmpty
    <3> QED BY <1>0, <2>0, <3>1, ConcatEmptySeq DEF Slice, TypeOK
  <2>5. kpos - 0 + 0 = kpos /\ kpos' - 0 + 0 = kpos - 0 + 0 + n
    BY <1>0, <2>2
  <2> QED BY <1>0, <1>1, <1>2, <1>3, <2>0, <2>2, <2>3, <2>4, <2>5, TransferMaps
<1> QED BY <1>4, <1>5 DEF es_read_nbf

LEMMA BufferedReadMaps ==
  ASSUME FaithfulObject, FileInv, FileInv', es_read_fbf
  PROVE  [Abstract!Next]_Abstract!vars
<1> USE DEF Goto, backend, stream, flushing, request, ghosts
<1>0. /\ IInv /\ IInv' /\ TypeOK /\ ContentInv /\ Coherent
      /\ Len(got) \in Nat /\ want \in Nat /\ kpos \in Nat /\ Len(file) \in Nat
      /\ data_offset \in Nat /\ data_len \in Nat
  BY LenProperties DEF FileInv, IInv, TypeOK
<1>1. /\ op = "read" /\ op' = op /\ pc = "es_read_fbf" /\ pc' # "closed"
      /\ ~ HoldsOutput /\ UNCHANGED <<buffer, data_len, writing, stored, src, tail>>
      /\ UNCHANGED <<file, kpos, flushed>>
  BY <1>0 DEF es_read_fbf, IInv, ControlInv, ContentInv, ReadLabels, HoldsOutput
<1>2. ~ HoldsOutput'
  BY <1>1 DEF HoldsOutput
<1>3. CASE UNCHANGED <<data_offset, got>>
  BY <1>0, <1>1, <1>2, <1>3, TransferMaps
<1>4. CASE /\ Len(got) < want /\ data_offset # data_len
           /\ LET n == SmallerOf(want - Len(got), data_len - data_offset)
              IN  /\ got' = got \o BufferBytes(data_offset, data_offset + n)
                  /\ data_offset' = data_offset + n
  <2> DEFINE n == SmallerOf(want - Len(got), data_len - data_offset)
  <2>1. n \in Nat \ {0} /\ data_offset + n <= data_len
    BY <1>0, <1>1, <1>4 DEF SmallerOf, ContentInv
  <2>2. got' = got \o BufferBytes(data_offset, data_offset + n)
        /\ data_offset' = data_offset + n
    BY <1>4
  <2> HIDE DEF n
  <2>3. /\ kpos - data_len + data_offset + n <= Len(file)
        /\ BufferBytes(data_offset, data_offset + n)
             = Slice(file, kpos - data_len + data_offset, kpos - data_len + data_offset + n)
    BY <1>0, <2>1, BufferIsContent
  <2>4. kpos' - data_len' + data_offset' = kpos - data_len + data_offset + n /\ n \in Nat
    BY <1>0, <1>1, <2>1, <2>2
  <2> QED BY <1>0, <1>1, <1>2, <2>1, <2>2, <2>3, <2>4, TransferMaps
<1> QED BY <1>3, <1>4 DEF es_read_fbf

(* es_getline finds its lines in the same bytes.                           *)
LEMMA LineMaps ==
  ASSUME FaithfulObject, FileInv, FileInv', es_peek
  PROVE  [Abstract!Next]_Abstract!vars
<1> USE DEF Goto, backend, stream, flushing, request, ghosts
<1>0. /\ IInv /\ IInv' /\ TypeOK /\ ContentInv /\ ControlInv /\ Coherent /\ CallInv
      /\ kpos \in Nat /\ Len(file) \in Nat /\ data_offset \in Nat /\ data_len \in Nat
      /\ buffer \in Seq(Int) /\ got \in Seq(Int)
  BY LenProperties DEF FileInv, IInv, TypeOK
<1>1. CASE writing \/ data_offset = data_len
  <2>1. /\ pc = "es_peek" /\ pc' \in {"es_flush", "es_fill"} /\ UNCHANGED op
        /\ flushed = 0 /\ flushed' = 0 /\ UNCHANGED <<stream, backend, request>>
    BY <1>0, <1>1 DEF es_peek, CallFlush, ContentInv
  <2> QED BY <2>1, UntouchedMaps DEF HoldsOutput
<1>2. CASE ~ writing /\ data_offset # data_len
  <2> DEFINE data == BufferBytes(data_offset, data_len)
  <2>1. PICK n \in 1 .. Len(data) :
          /\ IsFirstLineEnd(data, n) /\ got' = got \o SubSeq(data, 1, n)
          /\ data_offset' = data_offset + n
    BY <1>2 DEF es_peek
  <2>2. /\ pc = "es_peek" /\ op = "getline" /\ op' = op /\ ~ HoldsOutput /\ pc' # "closed"
        /\ UNCHANGED <<buffer, data_len, writing, stored, src, tail, file, kpos>>
    BY <1>0, <1>2 DEF es_peek, ControlInv, HoldsOutput
  <2>3. ~ HoldsOutput'
    BY <2>2 DEF HoldsOutput
  <2>4. /\ data_offset <= data_len /\ data \in Seq(Int)
        /\ Len(data) = data_len - data_offset
    <3>1. data_offset <= data_len
      BY <1>0, <2>2 DEF ContentInv
    <3> QED BY <1>0, <3>1, BufferBytesBytes
  <2>5. n \in Nat \ {0} /\ n \in 0 .. data_len - data_offset /\ data_offset + n <= data_len
    BY <1>0, <2>1, <2>4
  <2>6. SubSeq(data, 1, n) = BufferBytes(data_offset, data_offset + n)
    BY <1>0, <2>4, <2>5, BufferSplit
  <2>7. /\ kpos - data_len + data_offset + n <= Len(file)
        /\ BufferBytes(data_offset, data_offset + n)
             = Slice(file, kpos - data_len + data_offset, kpos - data_len + data_offset + n)
    BY <1>0, <2>5, BufferIsContent
  <2> HIDE DEF data
  <2>8. kpos' - data_len' + data_offset' = kpos - data_len + data_offset + n
    BY <1>0, <2>1, <2>2, <2>5
  <2>9. WithinOneLine(got')
    <3> DEFINE u == SubSeq(data, 1, n)
    <3>1. u \in Seq(Int) /\ Len(u) = n /\ \A i \in 1 .. n : u[i] = data[i]
      <4>1. \A i \in 1 .. n : data[i] \in Int
        BY <2>4, <2>5, ElementOfSeq
      <4>2. /\ u \in Seq(Int) /\ Len(u) = IF 1 <= n THEN n - 1 + 1 ELSE 0
            /\ \A i \in 1 .. n - 1 + 1 : u[i] = data[1 + i - 1]
        BY <2>5, <4>1, SubSeqProperties
      <4>3. 1 <= n /\ n - 1 + 1 = n /\ \A i \in 1 .. n : 1 + i - 1 = i
        BY <2>5
      <4> QED BY <4>2, <4>3
    <3>2. \A i \in 1 .. n - 1 : ~ IsNewline(data[i])
      BY <2>1 DEF IsFirstLineEnd
    <3>3. \A i \in 1 .. Len(got) : ~ IsNewline(got[i])
      BY <1>0, <2>2 DEF CallInv
    <3> HIDE DEF u
    <3>4. /\ Len(got) \in Nat /\ Len(got \o u) = Len(got) + n
          /\ \A i \in 1 .. Len(got) : (got \o u)[i] = got[i]
          /\ \A i \in 1 .. n : (got \o u)[Len(got) + i] = u[i]
      BY <1>0, <3>1, ConcatBytes
    <3>5. got' = got \o u
      BY <2>1 DEF u
    <3> SUFFICES ASSUME NEW i \in 1 .. Len(got') - 1 PROVE ~ IsNewline(got'[i])
      BY DEF WithinOneLine
    <3>6. CASE i <= Len(got)
      BY <3>3, <3>4, <3>5, <3>6
    <3>7. CASE i > Len(got)
      <4>1. i - Len(got) \in 1 .. n - 1 /\ i - Len(got) \in 1 .. n
            /\ Len(got) + (i - Len(got)) = i
        BY <2>5, <3>4, <3>5, <3>7
      <4>2. got'[i] = data[i - Len(got)]
        BY <3>1, <3>4, <3>5, <4>1
      <4> QED BY <3>2, <4>1, <4>2
    <3>8. i \in Int
      BY <3>4, <3>5
    <3> QED BY <3>4, <3>6, <3>7, <3>8
  <2>10. got' = got \o Slice(file, kpos - data_len + data_offset,
                             kpos - data_len + data_offset + n)
    BY <2>1, <2>6, <2>7
  <2> QED BY <1>0, <2>2, <2>3, <2>5, <2>7, <2>8, <2>9, <2>10, TransferMaps
<1> QED BY <1>1, <1>2

(* es_fill moves bytes to the buffer, and only once it is used up.         *)
LEMMA FillMaps ==
  ASSUME FaithfulObject, FileInv, FileInv', es_fill
  PROVE  [Abstract!Next]_Abstract!vars
<1> USE DEF Goto, Fail, Fault, backend, stream, flushing, request, ghosts
<1>0. /\ IInv /\ IInv' /\ TypeOK /\ ContentInv /\ ControlInv /\ ReadInv
      /\ kpos \in Nat /\ data_offset \in Nat /\ data_len \in Nat /\ buffer_size \in Nat
  BY LenProperties DEF FileInv, IInv, TypeOK, buffer_size
<1>1. /\ pc = "es_fill" /\ op \in {"read", "getline"} /\ op' = op /\ pc' # "closed"
      /\ ~ HoldsOutput /\ ~ HoldsOutput' /\ data_offset = data_len
      /\ UNCHANGED <<file, src, tail, got>>
  BY <1>0 DEF es_fill, FillReads, FillFails, TakeInput, ControlInv, ContentInv,
     ReadLabels, HoldsOutput, ReadInv
<1>2. kpos' - data_len' + data_offset' = kpos - data_len + data_offset + 0
  <2>1. CASE FillReads
    <3>1. PICK n \in ReadCounts(buffer_size) : TakeInput(n) /\ data_len' = n
      BY <2>1 DEF FillReads
    <3>2. n \in Nat /\ kpos' = kpos + n /\ data_offset' = 0
      BY <1>0, <2>1, <3>1, ReadTakesBytes DEF TakeInput, FillReads
    <3> QED BY <1>0, <1>1, <3>1, <3>2
  <2>2. CASE FillFails
    BY <1>0, <1>1, <2>2 DEF FillFails, es_empty
  <2> QED BY <2>1, <2>2 DEF es_fill
<1> QED BY <1>0, <1>1, <1>2, TransferMaps

-----------------------------------------------------------------------------
(* Seeking, flushing and closing.                                          *)

LEMMA SeekMaps ==
  ASSUME FaithfulObject, FileInv, FileInv', es_seek
  PROVE  [Abstract!Next]_Abstract!vars
<1> USE DEF Goto, Fail, Fault, CallFlush, backend, stream, flushing, request, ghosts
<1>0. /\ IInv /\ IInv' /\ ContentInv /\ ControlInv
      /\ kpos \in Nat /\ data_offset \in Nat /\ data_len \in Nat /\ Len(file) \in Nat
  BY LenProperties DEF FileInv, IInv, TypeOK
<1>1. CASE SeekFlushes
  <2>1. pc = "es_seek" /\ pc' = "es_flush" /\ flushed = 0 /\ flushed' = 0
    BY <1>0, <1>1 DEF SeekFlushes, ContentInv
  <2> QED BY <1>1, <2>1, UntouchedMaps DEF SeekFlushes, HoldsOutput
<1>2. CASE SeekFails
  <2>1. /\ pc = "es_seek" /\ pc' # "closed" /\ UNCHANGED flushed
        /\ UNCHANGED <<file, kpos, src, tail, got, op, writing, stored, buffer>>
        /\ UNCHANGED <<data_offset, data_len>>
    BY <1>2 DEF SeekFails, WriteFunction
  <2> QED BY <2>1, UntouchedMaps DEF HoldsOutput
<1>3. CASE SeekMoves
  <2>0. PICK target \in SeekTargets : target >= 0 /\ kpos' = target
    BY <1>3 DEF SeekMoves
  <2>1. /\ pc = "es_seek" /\ pc' # "closed" /\ op \in {"write", "fseek"} /\ ~ HoldsOutput
        /\ data_len' = 0 /\ data_offset' = 0
        /\ UNCHANGED <<file, src, tail, got, op>>
    BY <1>0, <1>3 DEF SeekMoves, WriteFunction, es_empty, ControlInv, HoldsOutput
  <2>2. Content = file /\ Position = kpos - data_len + data_offset
    BY <1>0, <2>1, ReadingMaps
  <2>3. Content' = file' /\ Position' = target
    BY <1>0, <2>0, <2>1, EmptyMapsNext
  <2>4. UNCHANGED <<Content, CallOf, got, Todo>> /\ CallOf = op
    BY <2>1, <2>2, <2>3 DEF CallOf, Todo
  <2>5. CASE op = "write"
    <3>1. target = kpos - data_len + data_offset
      BY <2>0, <2>5 DEF SeekTargets
    <3> QED BY <2>2, <2>3, <2>4, <3>1, HiddenStep
  <2>6. CASE op = "fseek"
    <3>1. PICK o \in SeekOffsets :
            target \in {o, kpos - data_len + data_offset + o, Len(file) + o}
      BY <2>0, <2>6 DEF SeekTargets
    <3>2. Position' \in {p \in {o, Position + o, Len(Content) + o} : p >= 0}
      BY <2>0, <2>2, <2>3, <3>1
    <3> QED BY <2>4, <2>6, <3>2, SeekStep
  <2> QED BY <2>1, <2>5, <2>6
<1> QED BY <1>1, <1>2, <1>3 DEF es_seek

(* es_fflush and es_setvbuf skip what is read ahead, or start to flush.    *)
LEMMA EmptyingMaps ==
  ASSUME FaithfulObject, FileInv, FileInv', do_fflush \/ es_set_buffering
  PROVE  [Abstract!Next]_Abstract!vars
<1> USE DEF Goto, CallFlush, es_empty, backend, stream, flushing, request, ghosts
<1>0. /\ IInv /\ IInv' /\ ContentInv /\ ControlInv /\ Coherent
      /\ kpos \in Nat /\ data_offset \in Nat /\ data_len \in Nat /\ Len(file) \in Nat
  BY LenProperties DEF FileInv, IInv, TypeOK
<1>1. /\ pc \in {"do_fflush", "es_set_buffering"} /\ op \in {"fflush", "setvbuf"}
      /\ UNCHANGED <<file, kpos, src, tail, got, op, buffer, writing, stored>> /\ ~ stored
      /\ pc' # "closed" /\ flushed = 0
  BY <1>0 DEF do_fflush, es_set_buffering, ControlInv, ContentInv
<1>2. CASE writing
  <2>1. flushed' = 0 /\ UNCHANGED <<data_offset, data_len>>
    BY <1>2 DEF do_fflush, es_set_buffering
  <2> QED BY <1>1, <2>1, UntouchedMaps DEF HoldsOutput
<1>3. CASE ~ writing
  <2>1. data_len' = 0 /\ data_offset' = 0 /\ ~ HoldsOutput /\ data_offset <= data_len
    BY <1>0, <1>1, <1>3 DEF do_fflush, es_set_buffering, HoldsOutput, ContentInv
  <2>2. Content = file /\ Position = kpos - data_len + data_offset
    BY <1>0, <2>1, ReadingMaps
  <2>3. Content' = file' /\ Position' = kpos'
    BY <1>0, <2>1, EmptyMapsNext
  <2>4. UNCHANGED <<Content, CallOf, got, Todo>> /\ CallOf = op
    BY <1>1, <2>2, <2>3 DEF CallOf, Todo
  <2>5. CASE data_offset = data_len
    <3>1. Position' = Position
      BY <1>0, <1>1, <2>2, <2>3, <2>5
    <3> QED BY <2>4, <3>1, HiddenStep
  <2>6. CASE data_offset # data_len
    <3>1. data_len > 0 /\ kpos <= Len(file) /\ Position < kpos
      BY <1>0, <2>1, <2>2, <2>6 DEF Coherent
    <3>2. Position' > Position /\ Position' <= Len(Content)
      BY <1>0, <1>1, <2>2, <2>3, <3>1
    <3> QED BY <1>1, <2>4, <3>2, SkipStep
  <2> QED BY <2>5, <2>6
<1> QED BY <1>2, <1>3

(* A new buffer is as empty as the old one.                                *)
LEMMA EmptyBufferMaps ==
  ASSUME FaithfulObject, FileInv, FileInv', new_buffer \/ SwitchToReading
  PROVE  [Abstract!Next]_Abstract!vars
<1> USE DEF Goto, backend, stream, flushing, request, ghosts
<1>0. IInv /\ IInv' /\ ContentInv
  BY DEF FileInv, IInv
<1>1. /\ data_offset = 0 /\ data_len = 0 /\ pc # "closed" /\ pc' # "closed"
      /\ UNCHANGED <<file, kpos, src, tail, got, op, data_offset, data_len>>
  BY <1>0 DEF new_buffer, SwitchToReading, ContentInv, HoldsOutput
<1>2. Content = file /\ Position = kpos /\ Content' = file' /\ Position' = kpos'
  BY <1>0, <1>1, EmptyMaps, EmptyMapsNext
<1> QED BY <1>1, <1>2, HiddenStep DEF CallOf, Todo

(* es_fclose has flushed what it could; the file is closed as it is.       *)
LEMMA CloseMaps ==
  ASSUME FileInv, FileInv', func_close
  PROVE  [Abstract!Next]_Abstract!vars
<1>0. IInv /\ ControlInv /\ CallInv /\ TypeOK
  BY DEF FileInv, IInv
<1>1. /\ pc = "func_close" /\ pc' = "closed" /\ op = "fclose" /\ Pending = <<>>
      /\ UNCHANGED <<backend, stream, flushing, op, request>>
  BY <1>0 DEF func_close, ControlInv, CallInv
<1>2. Pending' = Pending /\ Unread' = Unread
  BY <1>1 DEF Pending, Unread, HoldsOutput, BufferBytes, stream, request, flushing
<1>3. Content = file /\ Position \in Int
  <2>1. CASE HoldsOutput
    BY <1>0, <1>1, <2>1, WritingMaps DEF TypeOK
  <2>2. CASE ~ HoldsOutput
    BY <1>0, <2>2, ReadingMaps DEF TypeOK
  <2> QED BY <2>1, <2>2
<1>4. Content' = file'
  BY <1>1 DEF Content
<1>5. Position' = Position
  BY <1>1, <1>2 DEF Position, backend
<1>6. UNCHANGED <<Content, got, Todo>> /\ CallOf = "fclose" /\ CallOf' = "closed"
  BY <1>1, <1>3, <1>4 DEF backend, request, Todo, CallOf
<1> QED BY <1>3, <1>5, <1>6, CloseStep

(* The call returns.                                                       *)
LEMMA ReturnMaps ==
  ASSUME FileInv, FileInv', Return
  PROVE  [Abstract!Next]_Abstract!vars
<1>0. IInv /\ ControlInv /\ CallInv /\ TypeOK
  BY DEF FileInv, IInv
<1>1. /\ pc = "out" /\ pc' = "idle" /\ op' = "none" /\ op \notin {"none", "fclose", "closed"}
      /\ got' = <<>> /\ src' = <<>> /\ tail' = <<>>
      /\ UNCHANGED <<file, kpos, buffer, data_offset, data_len, flushed>>
  BY <1>0 DEF Return, CallInv, TypeOK, AllOps, backend, flushing
<1>2. HoldsOutput' <=> HoldsOutput
  BY <1>0 DEF Return, HoldsOutput, ControlInv, TypeOK
<1>3. Pending' = Pending /\ Unread' = Unread
  BY <1>1, <1>2 DEF Pending, Unread, BufferBytes
<1>4. UNCHANGED <<Content, Position>>
  BY <1>1, <1>3 DEF Content, Position
<1>5. Todo' = <<>>
  <2>1. <<>> \o <<>> = <<>>
    BY EmptySeq, ConcatEmptySeq
  <2> QED BY <1>1, <2>1 DEF Todo
<1>6. CallOf = op /\ CallOf' = "none"
  BY <1>1 DEF CallOf
<1> QED BY <1>1, <1>4, <1>5, <1>6, EndStep

-----------------------------------------------------------------------------
(* Writing.                                                                *)

(* Where a request is cut does not matter to what is still to be written.  *)
LEMMA LineCutMaps ==
  ASSUME FaithfulObject, FileInv, FileInv', es_write_lbf
  PROVE  [Abstract!Next]_Abstract!vars
<1> USE DEF Goto, CallFlush, backend, stream, flushing, request, ghosts
<1>0. /\ IInv /\ CallInv /\ ContentInv /\ TypeOK
  BY DEF FileInv, IInv
<1>1. /\ pc = "es_write_lbf" /\ tail = <<>> /\ flushed = 0 /\ flushed' = 0
      /\ UNCHANGED <<file, kpos, stream, got, op, stored>> /\ pc' # "closed"
  BY <1>0 DEF es_write_lbf, CallInv, ContentInv
<1>2. Todo' = Todo
  <2>1. PICK n \in 0 .. Len(src) :
          \/ n = 0 /\ UNCHANGED <<src, tail>>
          \/ src' = SubSeq(src, 1, n) /\ tail' = SubSeq(src, n + 1, Len(src))
    BY DEF es_write_lbf
  <2>2. src \in Seq(Int) /\ src \o <<>> = src
    BY <1>0, ConcatEmptySeq DEF TypeOK
  <2>3. src = SubSeq(src, 1, n) \o SubSeq(src, n + 1, Len(src))
    BY <2>2, SplitBytes
  <2> QED BY <1>1, <2>1, <2>2, <2>3 DEF Todo
<1>3. Pending' = Pending /\ Unread' = Unread
  BY <1>1 DEF Pending, Unread, HoldsOutput, BufferBytes
<1>4. UNCHANGED <<Content, Position, CallOf>>
  BY <1>1, <1>3 DEF Content, Position, CallOf
<1> QED BY <1>1, <1>2, <1>4, HiddenStep

(* The object takes bytes of the request.                                  *)
LEMMA UnbufferedWriteMaps ==
  ASSUME FaithfulObject, FileInv, FileInv', es_write_nbf
  PROVE  [Abstract!Next]_Abstract!vars
<1> USE DEF Goto, Fail, Fault, backend, stream, flushing, request, ghosts
<1>0. /\ IInv /\ IInv' /\ CallInv /\ ContentInv /\ ControlInv /\ TypeOK
      /\ src \in Seq(Int) /\ tail \in Seq(Int) /\ file \in Seq(Int) /\ kpos \in Nat
      /\ Len(src) \in Nat /\ Len(file) \in Nat
  BY LenProperties DEF FileInv, IInv, TypeOK
<1>1. /\ pc = "es_write_nbf" /\ op = "write" /\ op' = op /\ pc' # "closed"
      /\ data_offset = 0 /\ data_len = 0
      /\ UNCHANGED <<stream, got, flushed>>
  BY <1>0 DEF es_write_nbf, CallInv, ContentInv, ControlInv, WriteLabels
<1>2. /\ Content = file /\ Position = kpos /\ Content' = file' /\ Position' = kpos'
      /\ CallOf = "write" /\ UNCHANGED CallOf
  BY <1>0, <1>1, EmptyMaps, EmptyMapsNext DEF CallOf
<1>3. Seekable
  BY <1>0, <1>1 DEF ControlInv, FaithfulObject
<1>4. CASE src = <<>> /\ src' = tail /\ tail' = <<>> /\ UNCHANGED backend
  <2>1. tail \o <<>> = tail /\ <<>> \o tail = tail
    BY <1>0, ConcatEmptySeq
  <2> QED BY <1>1, <1>2, <1>4, <2>1, HiddenStep DEF Todo
<1>5. CASE /\ UNCHANGED tail
           /\ \E n \in 0 .. Len(src) :
                WriteTakes(src, n) /\ src' = SubSeq(src, n + 1, Len(src))
  <2>0. PICK n \in 0 .. Len(src) :
          WriteTakes(src, n) /\ src' = SubSeq(src, n + 1, Len(src))
    BY <1>5
  <2> DEFINE s == SubSeq(src, 1, n)
  <2>1. s \in Seq(Int) /\ Len(s) = n /\ n \in Nat
    BY <1>0, SplitBytes
  <2>2. StoreOutput(s)
    BY <2>0 DEF WriteTakes
  <2> HIDE DEF s
  <2>3. CASE n = 0
    <3>1. s = <<>>
      BY <2>1, <2>3, EmptySeq
    <3>2. file' = file /\ kpos' = kpos
      BY <1>0, <1>3, <2>1, <2>2, <2>3, <3>1, ConcatEmptySeq DEF StoreOutput, Overlay, Seekable
    <3>3. src' = src
      BY <1>0, <2>0, <2>3, SubSeqFull
    <3> QED BY <1>1, <1>2, <1>5, <3>2, <3>3, HiddenStep DEF Todo
  <2>4. CASE n # 0
    <3>0. n \in 1 .. Len(src) /\ s # <<>>
      BY <1>0, <2>1, <2>4, EmptySeq
    <3>1. /\ n \in 1 .. Len(Todo) /\ SubSeq(Todo, 1, n) = s
          /\ Todo' = SubSeq(Todo, n + 1, Len(Todo))
      <4>1. /\ n \in 1 .. Len(src \o tail) /\ SubSeq(src \o tail, 1, n) = SubSeq(src, 1, n)
            /\ SubSeq(src \o tail, n + 1, Len(src \o tail))
                 = SubSeq(src, n + 1, Len(src)) \o tail
        BY <1>0, <3>0, FrontOfConcat
      <4> QED BY <1>5, <2>0, <4>1 DEF Todo, s
    <3> DEFINE at == IF Kind = "append" THEN Len(Content) ELSE Position
    <3>2. Content' = Overlay(Content, at, s) /\ Position' = at + n
      <4>1. CASE Kind = "file"
        BY <1>2, <2>1, <2>2, <4>1 DEF StoreOutput, Seekable
      <4>2. CASE Kind = "append"
        <5>1. file' = file \o s /\ kpos' = Len(file) + n /\ at = Len(file)
          BY <1>2, <2>1, <2>2, <3>0, <4>2 DEF StoreOutput, Seekable
        <5>2. Overlay(file, Len(file), s) = file \o s
          BY <1>0, <2>1, OverlayEnd
        <5> QED BY <1>2, <5>1, <5>2
      <4> QED BY <1>3, <4>1, <4>2 DEF Seekable
    <3> QED BY <1>1, <1>2, <3>1, <3>2, WriteStep
  <2> QED BY <2>3, <2>4
<1> QED BY <1>4, <1>5 DEF es_write_nbf, FaithfulObject

(* The buffer takes them: to the client they are written.                  *)
LEMMA BufferedWriteMaps ==
  ASSUME FaithfulObject, FileInv, FileInv', write_copy
  PROVE  [Abstract!Next]_Abstract!vars
<1> USE DEF Goto, backend, stream, flushing, request, ghosts
<1>0. /\ IInv /\ CallInv /\ ContentInv /\ ControlInv /\ TypeOK
      /\ src \in Seq(Int) /\ tail \in Seq(Int) /\ file \in Seq(Int) /\ kpos \in Nat
      /\ buffer \in Seq(Int) /\ data_offset \in Nat /\ buffer_size \in Nat
      /\ Len(src) \in Nat /\ Len(file) \in Nat /\ Len(buffer) \in Nat
  BY LenProperties DEF FileInv, IInv, TypeOK, buffer_size
<1>1. /\ pc = "write_copy" /\ op = "write" /\ op' = op /\ pc' # "closed"
      /\ UNCHANGED <<file, kpos, got, tail, data_len, writing>> /\ flushed = 0 /\ flushed' = 0
      /\ data_offset <= buffer_size
  BY <1>0 DEF write_copy, CallInv, ContentInv, ControlInv, WriteLabels
<1>2. Seekable
  BY <1>0, <1>1 DEF ControlInv, FaithfulObject
<1> DEFINE n == SmallerOf(Len(src), buffer_size - data_offset)
           s == SubSeq(src, 1, n)
<1>3. n \in 0 .. Len(src) /\ data_offset + n <= buffer_size
  BY <1>0, <1>1 DEF SmallerOf
<1>4. /\ buffer' = Overlay(buffer, data_offset, s) /\ data_offset' = data_offset + n
      /\ src' = SubSeq(src, n + 1, Len(src)) /\ stored' = (stored \/ s # <<>>)
  BY DEF write_copy, Accept
<1> HIDE DEF n
<1>5. s \in Seq(Int) /\ Len(s) = n /\ n \in Nat
  BY <1>0, <1>3, SplitBytes
<1> HIDE DEF s
<1>6. CASE n = 0
  <2>1. s = <<>>
    BY <1>5, <1>6, EmptySeq
  <2>2. buffer' = buffer /\ data_offset' = data_offset /\ (stored' <=> stored)
    BY <1>0, <1>4, <1>6, <2>1 DEF Overlay, TypeOK
  <2>3. src' = src
    BY <1>0, <1>4, <1>6, SubSeqFull
  <2> QED BY <1>1, <2>2, <2>3, UntouchedMaps DEF HoldsOutput
<1>7. CASE n # 0
  <2>0. n \in 1 .. Len(src) /\ s # <<>> /\ HoldsOutput'
    <3>1. n \in 1 .. Len(src)
      BY <1>0, <1>3, <1>5, <1>7
    <3>2. s # <<>>
      BY <1>5, <1>7, EmptySeq
    <3>3. stored'
      BY <1>4, <3>2
    <3> QED BY <3>1, <3>2, <3>3 DEF HoldsOutput
  <2>1. /\ n \in 1 .. Len(Todo) /\ SubSeq(Todo, 1, n) = s
        /\ Todo' = SubSeq(Todo, n + 1, Len(Todo))
    <3>1. /\ n \in 1 .. Len(src \o tail) /\ SubSeq(src \o tail, 1, n) = SubSeq(src, 1, n)
          /\ SubSeq(src \o tail, n + 1, Len(src \o tail))
               = SubSeq(src, n + 1, Len(src)) \o tail
      BY <1>0, <2>0, FrontOfConcat
    <3> QED BY <1>1, <1>4, <3>1 DEF Todo, s
  <2> DEFINE b == BufferBytes(0, data_offset)
  <2>2. Pending = b /\ Unread = <<>>
    <3>1. CASE HoldsOutput
      BY <1>1, <3>1 DEF Pending, Unread
    <3>2. CASE ~ HoldsOutput
      <4>1. data_offset = 0 /\ data_len = 0
        BY <1>0, <1>1, <3>2 DEF ContentInv, WriteLabels
      <4>2. b = <<>>
        BY <4>1, NothingUnread
      <4> QED BY <1>0, <4>1, <4>2, EmptyMaps
    <3> QED BY <3>1, <3>2
  <2>3. Pending' = b \o s /\ Unread' = <<>>
    <3>1. BufferBytes(0, data_offset)' = b \o s
      <4>1. data_offset + Len(s) <= Len(buffer) /\ data_offset' = data_offset + Len(s)
        BY <1>3, <1>4, <1>5 DEF buffer_size
      <4> QED BY <1>0, <1>4, <1>5, <4>1, BufferStored
    <3>2. Pending' = BufferBytes(0, data_offset)'
      BY <1>1, <2>0 DEF Pending, BufferBytes
    <3> QED BY <2>0, <3>1, <3>2 DEF Unread
  <2>4. b \in Seq(Int) /\ Len(b) \in Nat
    <3>1. 0 \in Nat
      OBVIOUS
    <3>2. b \in Seq(Int)
      BY <1>0, <3>1, BufferBytesBytes
    <3> QED BY <3>2, LenProperties
  <2> HIDE DEF b
  <2>5. Len(b \o s) = Len(b) + n /\ b \o s # <<>> /\ b \o s \in Seq(Int)
    <3>1. Len(b \o s) = Len(b) + n /\ b \o s \in Seq(Int)
      BY <1>5, <2>4, ConcatBytes
    <3>2. Len(b \o s) # 0
      BY <1>5, <1>7, <2>4, <3>1
    <3> QED BY <3>1, <3>2, EmptySeq
  <2> DEFINE at == IF Kind = "append" THEN Len(Content) ELSE Position
  <2>6. Content' = Overlay(Content, at, s) /\ Position' = at + n
    <3>1. CASE Kind = "file"
      <4>1. Content = Overlay(file, kpos, b) /\ Content' = Overlay(file, kpos, b \o s)
        BY <1>1, <2>2, <2>3, <3>1 DEF Content
      <4>2. Position = kpos + Len(b)
        <5>1. CASE b = <<>>
          <6>1. Position = kpos - Len(<<>>) /\ Len(<<>>) = 0 /\ Len(b) = 0
            BY <2>2, <5>1 DEF Position
          <6> QED BY <1>0, <6>1
        <5>2. CASE b # <<>>
          BY <2>2, <3>1, <5>2 DEF Position
        <5> QED BY <5>1, <5>2
      <4>3. Position' = kpos + (Len(b) + n)
        BY <1>1, <2>3, <2>5, <3>1 DEF Position
      <4>4. Overlay(Overlay(file, kpos, b), kpos + Len(b), s) = Overlay(file, kpos, b \o s)
        BY <1>0, <1>5, <2>4, OverlayTwice
      <4>5. at = kpos + Len(b)
        BY <3>1, <4>2
      <4>6. Position' = at + n
        BY <1>0, <1>5, <2>4, <4>3, <4>5
      <4> QED BY <4>1, <4>4, <4>5, <4>6
    <3>2. CASE Kind = "append"
      <4>1. Content = file \o b /\ Content' = file \o (b \o s)
        BY <1>1, <2>2, <2>3, <3>2 DEF Content
      <4>2. Position' = Len(file) + (Len(b) + n)
        BY <1>1, <2>3, <2>5, <3>2 DEF Position
      <4>3. file \o b \in Seq(Int) /\ Len(file \o b) = Len(file) + Len(b)
        BY <1>0, <2>4, ConcatBytes
      <4>4. (file \o b) \o s = file \o (b \o s)
        <5>1. file \in Bytes /\ b \in Bytes /\ s \in Bytes
          BY <1>0, <1>5, <2>4 DEF Bytes
        <5> QED BY <5>1, BytesAssociative
      <4>5. Overlay(file \o b, Len(file \o b), s) = (file \o b) \o s
        BY <1>5, <4>3, OverlayEnd
      <4>6. at = Len(file \o b)
        BY <3>2, <4>1
      <4>7. Position' = at + n
        <5>1. at = Len(file) + Len(b)
          BY <4>3, <4>6
        <5>2. Len(file) + (Len(b) + n) = Len(file) + Len(b) + n
          BY <1>0, <1>5, <2>4
        <5> HIDE DEF at
        <5> QED BY <4>2, <5>1, <5>2
      <4> QED BY <4>1, <4>4, <4>5, <4>6, <4>7
    <3> QED BY <1>2, <3>1, <3>2 DEF Seekable
  <2>7. CallOf = "write" /\ UNCHANGED <<CallOf, got>>
    BY <1>1 DEF CallOf
  <2> QED BY <2>1, <2>6, <2>7, WriteStep
<1> QED BY <1>6, <1>7

-----------------------------------------------------------------------------
(* The refinement.                                                         *)

LEMMA InitMaps == Init => Abstract!Init
<1> SUFFICES ASSUME Init PROVE Abstract!Init
  OBVIOUS
<1>1. /\ data_offset = 0 /\ data_len = 0 /\ file = InitFile /\ kpos = 0 /\ pc = "idle"
      /\ op = "none" /\ got = <<>> /\ src = <<>> /\ tail = <<>>
  BY DEF Init
<1>2. Content = file /\ Position = kpos
  BY <1>1, IInvInit, EmptyMaps
<1>3. Todo = <<>>
  BY <1>1, EmptySeq, ConcatEmptySeq DEF Todo
<1> QED BY <1>1, <1>2, <1>3 DEF Abstract!Init, Content, Position, Todo

(* A step of the stream is a step of the file, or hidden.                  *)
LEMMA NextMaps ==
  ASSUME FaithfulObject
  PROVE  FileInv /\ [Next]_vars => [Abstract!Next]_Abstract!vars
<1> SUFFICES ASSUME FileInv, [Next]_vars PROVE [Abstract!Next]_Abstract!vars
  OBVIOUS
<1> USE DEF Goto, Fail, Fault, CallFlush, backend, stream, flushing, request, ghosts
<1>0. FileInv' /\ ContentInv /\ TypeOK
  BY NextFileInv DEF FileInv, IInv
<1>1. CASE Call
  BY <1>0, <1>1, CallMaps
<1>2. CASE es_flush
  BY <1>0, <1>2, FlushMaps
<1>3. CASE es_read_nbf
  BY <1>0, <1>3, UnbufferedReadMaps
<1>4. CASE es_read_fbf
  BY <1>0, <1>4, BufferedReadMaps
<1>5. CASE es_peek
  BY <1>0, <1>5, LineMaps
<1>6. CASE es_fill
  BY <1>0, <1>6, FillMaps
<1>7. CASE es_seek
  BY <1>0, <1>7, SeekMaps
<1>8. CASE do_fflush \/ es_set_buffering
  BY <1>0, <1>8, EmptyingMaps
<1>9. CASE new_buffer \/ SwitchToReading
  BY <1>0, <1>9, EmptyBufferMaps
<1>10. CASE func_close
  BY <1>0, <1>10, CloseMaps
<1>11. CASE Return
  BY <1>0, <1>11, ReturnMaps
<1>12. CASE es_write_lbf
  BY <1>0, <1>12, LineCutMaps
<1>13. CASE es_write_nbf
  BY <1>0, <1>13, UnbufferedWriteMaps
<1>14. CASE write_copy
  BY <1>0, <1>14, BufferedWriteMaps
<1>15. CASE es_readn \/ es_writen \/ es_write_fbf \/ doreadline \/ LineAllocFails \/ es_deinitialize
  <2>1. /\ pc # "closed" /\ pc' # "closed" /\ UNCHANGED <<file, kpos, src, tail, got, op>>
        /\ UNCHANGED <<buffer, data_offset, data_len, writing, stored, flushed>>
    <3>1. flushed = 0 \/ pc = "es_flush"
      BY <1>0 DEF ContentInv
    <3>2. CASE es_readn
      BY <3>1, <3>2 DEF es_readn
    <3>3. CASE es_writen
      BY <3>3 DEF es_writen, WriteFunction
    <3>4. CASE es_write_fbf
      BY <3>1, <3>4 DEF es_write_fbf
    <3>5. CASE doreadline \/ LineAllocFails
      BY <3>5 DEF LineAllocFails, doreadline, LineStreamMade, LineStreamFails
    <3>6. CASE es_deinitialize
      BY <3>1, <3>6 DEF es_deinitialize
    <3> QED BY <1>15, <3>2, <3>3, <3>4, <3>5, <3>6
  <2> QED BY <2>1, UntouchedMaps DEF HoldsOutput
<1>16. CASE UNCHANGED vars
  <2>1. Pending' = Pending /\ Unread' = Unread
    BY <1>16 DEF vars, Pending, Unread, HoldsOutput, BufferBytes
  <2>2. UNCHANGED <<Content, Position, CallOf, got, Todo>>
    BY <1>16, <2>1 DEF vars, Content, Position, CallOf, Todo
  <2> QED BY <2>2, HiddenStep
<1> QED
  BY <1>1, <1>2, <1>3, <1>4, <1>5, <1>6, <1>7, <1>8, <1>9, <1>10, <1>11, <1>12,
     <1>13, <1>14, <1>15, <1>16 DEF Next, Step, Terminated

(* A stream over an object that seeks, or that is only read, implements    *)
(* the unbuffered file as long as no write fails: es_read, es_getline,     *)
(* es_write and es_fseek in any order, in every buffering mode, see one    *)
(* content and one position, and es_fclose leaves the content in the       *)
(* object.                                                                 *)
THEOREM StreamImplementsFile ==
  ASSUME FaithfulObject
  PROVE  Spec => ImplementsFile
<1>1. Init => FileInv
  BY InitFileInv
<1>2. FileInv /\ [Next]_vars => FileInv'
  BY NextFileInv
<1>3. Init => Abstract!Init
  BY InitMaps
<1>4. FileInv /\ [Next]_vars => [Abstract!Next]_Abstract!vars
  BY NextMaps
<1> QED BY <1>1, <1>2, <1>3, <1>4, PTL DEF Spec, ImplementsFile, Abstract!Spec
=============================================================================
