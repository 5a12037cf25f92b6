---------------------------- MODULE FileContent ----------------------------
(***************************************************************************)
(* Contents of the object behind a stream: a sequence of bytes.  A byte is *)
(* an integer whose magnitude says which byte it is (every byte a client   *)
(* writes has a magnitude of its own) and whose sign says whether it is a  *)
(* newline.  The byte 0 is the NUL that fills the hole left by a write     *)
(* past the end of a file.                                                 *)
(***************************************************************************)
EXTENDS Integers, Sequences

Larger(a, b) == IF a > b THEN a ELSE b

IsNewline(b) == b < 0

(* The bytes i+1 .. j of s, counted as C does from a 0-based offset.       *)
Slice(s, i, j) == SubSeq(s, i + 1, j)

(* f after the bytes of s have been stored at offset p: what write(2) does *)
(* to a regular file whose offset is p, the hole before p included.        *)
Overlay(f, p, s) ==
  IF s = <<>> THEN f
  ELSE [i \in 1 .. Larger(Len(f), p + Len(s)) |->
          IF i > p /\ i <= p + Len(s) THEN s[i - p]
          ELSE IF i <= Len(f) THEN f[i] ELSE 0]

(* The last newline of s is just before offset n, n = 0 when it has none:  *)
(* memrchr (s, '\n', Len(s)) - s + 1, a null result read as "no line".     *)
IsLastLineEnd(s, n) ==
  /\ n > 0 => IsNewline(s[n])
  /\ \A i \in n + 1 .. Len(s) : ~ IsNewline(s[i])

(* The first newline of s is just before offset n, n = Len(s) when it has  *)
(* none: the data_len doreadline takes from the bytes it peeked at.        *)
IsFirstLineEnd(s, n) ==
  /\ n < Len(s) => IsNewline(s[n])
  /\ \A i \in 1 .. n - 1 : ~ IsNewline(s[i])

(* s is a line, or the start of one: no newline but perhaps the last byte. *)
WithinOneLine(s) == \A i \in 1 .. Len(s) - 1 : ~ IsNewline(s[i])
=============================================================================
