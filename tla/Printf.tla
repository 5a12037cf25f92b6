------------------------------- MODULE Printf -------------------------------
(***************************************************************************)
(* src/src/estream-printf.c.  estream_format first parses the format into  *)
(* an array of directives, gives every directive the positions of its      *)
(* arguments, makes a table of their types and reads them all; only then   *)
(* do_format goes through the format again, directive by directive.  An    *)
(* action reads one character of the format or makes one of these passes.  *)
(*                                                                         *)
(* Characters are strings of length one; "T" stands for any that means     *)
(* nothing.  An argument is an integer: for %s the length of the string,   *)
(* or a null pointer when it is negative.  What do_format writes is the    *)
(* sequence of the pieces it passes to the output function.  The fields of *)
(* numbers and strings are checked by themselves, under every combination  *)
(* of flags, width and precision: ChooseField.                             *)
(*                                                                         *)
(* A definition headed "Variant" is the one it precedes with a bug in it:  *)
(* nothing uses it, it shows what a property of this module tells apart.   *)
(***************************************************************************)
EXTENDS Integers, SequencesExt

CONSTANTS
  DEFAULT_MAX_ARGSPECS,  (* Directives the array on the stack holds.       *)
  ARGSPECS_BUMP_VALUE,   (* Directives by which it grows.                  *)
  DEFAULT_MAX_VALUES,    (* Values the table on the stack holds.           *)
  PAD,                   (* Bytes pad_out writes at a time: 32.            *)
  BLOCK,                 (* Bytes of the first buffer of vasprintf: 512.   *)
  SIZE_MOD,              (* One more than the largest size_t.              *)
  FormatChars,           (* The characters of formats, all of them up to   *)
  MaxFormat,             (* this length.                                   *)
  LongFormats,           (* Formats that may be longer, of any characters. *)
  MaxNumber,             (* Bound on the numbers in a format.              *)
  Arguments,             (* The values of arguments.                       *)
  BufSizes,              (* Sizes of the buffer of snprintf.               *)
  FieldFlags, FieldWidths, FieldPrecisions, FieldSpecs, FieldValues

ASSUME PrintfAssumption ==
  /\ {DEFAULT_MAX_ARGSPECS, DEFAULT_MAX_VALUES, MaxFormat, MaxNumber} \subseteq Nat
  /\ {ARGSPECS_BUMP_VALUE, PAD, BLOCK} \subseteq Nat \ {0}
  /\ Arguments \cup FieldValues \subseteq Int /\ BufSizes \subseteq Nat

NO_FIELD_VALUE == -1
STAR_FIELD_VALUE == -2

VARIABLES
  fph,     (* what estream_format does next                                *)
  format,  (* the characters parsed                                        *)
  dir,     (* the directive being parsed                                   *)
  specs,   (* argspecs                                                     *)
  room,    (* how many of them the array holds                             *)
  table,   (* valuetable: the types                                        *)
  values,  (* and the values                                               *)
  output,  (* what do_format did                                           *)
  field    (* a directive and its value, checked by itself                 *)

fmtVars == <<fph, format, dir, specs, room, table, values, output, field>>

NoDir == [start |-> 0, pos |-> 0, flags |-> {}, width |-> NO_FIELD_VALUE, wpos |-> 0,
          prec |-> NO_FIELD_VALUE, ppos |-> 0, lenmod |-> ""]
NoOutput == [pieces |-> <<>>, nbytes |-> 0, stored |-> <<>>, rc |-> 0]
NoField == [flags |-> {}, width |-> NO_FIELD_VALUE, prec |-> NO_FIELD_VALUE, conv |-> "d",
            vt |-> "INT", value |-> 0]

FmtInit ==
  /\ fph = "text" /\ format = <<>> /\ dir = NoDir /\ specs = <<>>
  /\ room = DEFAULT_MAX_ARGSPECS /\ table = <<>> /\ values = <<>>
  /\ output = NoOutput /\ field = NoField

-----------------------------------------------------------------------------
(* compute_type: the type a directive reads.                               *)

Digits1 == {"1", "2", "3", "4", "5", "6", "7", "8", "9"}
Digits0 == Digits1 \cup {"0"}
Digit == [c \in Digits0 |->
            CHOOSE n \in 0..9 : << "0", "1", "2", "3", "4", "5", "6", "7", "8", "9" >>[n + 1] = c]
Unsigned == {"o", "u", "x", "X"}
Float == {"f", "F", "e", "E", "g", "G", "a", "A"}
Conversions == {"d", "i", "c", "s", "p", "n", "C", "S", "m"} \cup Unsigned \cup Float

Sized(lenmod) ==
  CASE lenmod = "hh" -> "SCHAR" [] lenmod = "h" -> "SHORT" [] lenmod = "l" -> "LONG"
    [] lenmod = "ll" -> "LONGLONG" [] lenmod = "j" -> "INTMAX" [] lenmod = "z" -> "SIZE"
    [] lenmod = "t" -> "PTRDIFF" [] OTHER -> "INT"

compute_type(conv, lenmod) ==
  LET size == Sized(lenmod)
  IN  CASE conv \in {"d", "i"} -> size
        [] conv \in Unsigned ->
             IF size = "SCHAR" THEN "UCHAR"
             ELSE IF size \in {"SIZE", "PTRDIFF"} THEN size ELSE "U" \o size
        [] conv \in Float -> IF lenmod = "L" THEN "LONGDOUBLE" ELSE "DOUBLE"
        [] conv \in {"c", "C"} -> "INT"
        [] conv \in {"s", "S", "m"} -> "STRING"
        [] conv = "p" -> "POINTER"
        [] conv = "n" -> size \o "_PTR"
        [] OTHER -> "UNSUPPORTED"

-----------------------------------------------------------------------------
(* parse_format.                                                           *)

(* The part of a directive that is read next if c is the next character:   *)
(* what is optional and not there is passed over.                          *)
PartOf(p, c) ==
  LET afterLen == IF c \in {"h", "l", "j", "z", "t", "L"} THEN "lenmod" ELSE "conv"
      afterWidth == IF c = "." THEN "dot" ELSE afterLen
  IN  CASE p = "percent" ->
             IF c = "%" THEN "quoted" ELSE IF c \in Digits1 THEN "number"
             ELSE IF c \in {"'", "-", "+", " ", "#", "0"} THEN "flags"
             ELSE IF c = "*" THEN "wstar" ELSE afterWidth
        [] p = "number" -> IF c \in Digits0 THEN "number" ELSE IF c = "$" THEN "pos"
                           ELSE afterWidth
        [] p \in {"pos", "flags"} ->
             IF c \in {"'", "-", "+", " ", "#", "0"} THEN "flags"
             ELSE IF c = "*" THEN "wstar" ELSE IF c \in Digits1 THEN "wnum" ELSE afterWidth
        [] p = "wstar" -> IF dir.pos # 0 /\ c \in Digits1 THEN "wpos" ELSE afterWidth
        [] p = "wpos" -> IF c \in Digits0 THEN "wpos" ELSE IF c = "$" THEN "wdone" ELSE "bad"
        [] p = "wnum" -> IF c \in Digits0 THEN "wnum" ELSE afterWidth
        [] p = "wdone" -> afterWidth
        [] p = "dot" -> IF c = "*" THEN "pstar" ELSE IF c \in Digits0 THEN "pnum" ELSE afterLen
        [] p = "pstar" -> IF dir.pos # 0 /\ c \in Digits1 THEN "ppos" ELSE afterLen
        [] p = "ppos" -> IF c \in Digits0 THEN "ppos" ELSE IF c = "$" THEN "pdone" ELSE "bad"
        [] p = "pnum" -> IF c \notin Digits0 THEN afterLen
                         ELSE IF dir.prec = 0 /\ c = "0" THEN "bad" ELSE "pnum"
        [] p = "pdone" -> afterLen
        [] p = "lenmod" -> IF c \in {"h", "l"} /\ dir.lenmod = c THEN "lenmod" ELSE "conv"

(* What the character adds to the directive.                               *)
Taken(p, c) ==
  CASE p = "number" ->
         [dir EXCEPT !.width = IF fph = p THEN 10 * @ + Digit[c] ELSE Digit[c]]
    [] p = "pos" -> [dir EXCEPT !.pos = dir.width, !.width = NO_FIELD_VALUE]
    [] p = "flags" -> [dir EXCEPT !.flags = @ \cup {c}]
    [] p = "wnum" -> [dir EXCEPT !.width = IF fph = p THEN 10 * @ + Digit[c] ELSE Digit[c]]
    [] p = "wstar" -> [dir EXCEPT !.width = STAR_FIELD_VALUE]
    [] p = "wpos" -> [dir EXCEPT !.wpos = 10 * @ + Digit[c]]
    [] p = "dot" -> [dir EXCEPT !.prec = 0]
    [] p = "pnum" -> [dir EXCEPT !.prec = 10 * @ + Digit[c]]
    [] p = "pstar" -> [dir EXCEPT !.prec = STAR_FIELD_VALUE]
    [] p = "ppos" -> [dir EXCEPT !.ppos = 10 * @ + Digit[c]]
    [] p = "lenmod" -> [dir EXCEPT !.lenmod = @ \o c]
    [] OTHER -> dir

(* The format is read as far as it is one of those, or begins one.         *)
Chars == FormatChars \cup UNION {ToSet(f) : f \in LongFormats} \cup {"%", "T"}
Bounded(f) ==
  \/ ToSet(f) \subseteq FormatChars /\ Len(f) <= MaxFormat
  \/ \E long \in LongFormats : IsPrefix(f, long)
Read(c) == format' = Append(format, c) /\ Bounded(format')
KeepTable == UNCHANGED <<table, values, output, field>>

Text ==
  /\ fph = "text"
  /\ \E c \in {"%", "T"} :
       /\ Read(c)
       /\ fph' = IF c = "%" THEN "percent" ELSE "text"
       /\ dir' = [NoDir EXCEPT !.start = Len(format) + 1]
  /\ UNCHANGED <<specs, room>> /\ KeepTable

Parts == {"percent", "number", "pos", "flags", "wstar", "wpos", "wnum", "wdone", "dot",
          "pstar", "ppos", "pnum", "pdone", "lenmod"}

Part ==
  /\ fph \in Parts
  /\ \E c \in Chars :
       LET p == PartOf(fph, c)
       IN  /\ p # "conv" /\ Read(c) /\ dir' = Taken(p, c)
           /\ \A n \in {dir'.width, dir'.wpos, dir'.prec, dir'.ppos} : n <= MaxNumber
           /\ fph' = CASE p = "quoted" -> "text" [] p = "bad" -> "einval" [] OTHER -> p
  /\ UNCHANGED <<specs, room>> /\ KeepTable

Spec1(c) ==
  [length |-> Len(format) + 2 - dir.start, flags |-> dir.flags, width |-> dir.width,
   prec |-> dir.prec, conv |-> c, vt |-> compute_type(c, dir.lenmod),
   pos |-> IF c = "m" THEN -1 ELSE dir.pos, wpos |-> dir.wpos, ppos |-> dir.ppos]

(* Variant: the array grows one directive too late.                        *)
ConvertLate ==
  /\ fph \in Parts
  /\ \E c \in Chars :
       /\ PartOf(fph, c) = "conv" /\ Read(c)
       /\ fph' = "text" /\ specs' = Append(specs, Spec1(c)) /\ dir' = NoDir
       /\ room' = room + IF Len(specs) > room THEN ARGSPECS_BUMP_VALUE ELSE 0
  /\ KeepTable

(* The conversion specifier: the directive is saved, in a larger array if  *)
(* this one is full.                                                       *)
Convert ==
  /\ fph \in Parts
  /\ \E c \in Chars :
       /\ PartOf(fph, c) = "conv" /\ Read(c)
       /\ \/ /\ fph' = "text" /\ specs' = Append(specs, Spec1(c)) /\ dir' = NoDir
             /\ room' = room + IF Len(specs) >= room THEN ARGSPECS_BUMP_VALUE ELSE 0
          \/ /\ Len(specs) >= room /\ fph' = "failed"
             /\ UNCHANGED <<specs, room, dir>>
  /\ KeepTable

(* The end of the format.  After a percent sign or in a position it is an  *)
(* error; elsewhere in a directive it is taken for an unknown conversion   *)
(* and the loop goes on past it, where nothing is known.                   *)
End ==
  /\ fph \in Parts \cup {"text"}
  /\ fph' = CASE fph = "text" -> "positions" [] fph \in {"percent", "wpos", "ppos"} -> "einval"
              [] OTHER -> "past"
  /\ UNCHANGED <<format, dir, specs, room>> /\ KeepTable

-----------------------------------------------------------------------------
(* estream_format: positions, the table of types, the values.              *)

MaxPos(ss) ==
  FoldLeft(LAMBDA m, a : Max({m, a.pos, a.wpos, a.ppos}), 0, ss)

(* Without positions the arguments are taken in order: width, precision,   *)
(* value.                                                                  *)
Fill(ss) ==
  FoldLeft(LAMBDA f, a :
             LET w == f.max + IF a.width = STAR_FIELD_VALUE THEN 1 ELSE 0
                 p == w + IF a.prec = STAR_FIELD_VALUE THEN 1 ELSE 0
                 v == p + IF a.pos # -1 THEN 1 ELSE 0
             IN  [max |-> v,
                  ss |-> Append(f.ss, [a EXCEPT !.wpos = IF w > f.max THEN w ELSE @,
                                                !.ppos = IF p > w THEN p ELSE @,
                                                !.pos = IF v > p THEN v ELSE @])],
           [max |-> 0, ss |-> <<>>], ss)

Filled(ss) ==
  \A i \in DOMAIN ss :
    /\ ss[i].pos # 0
    /\ ss[i].width = STAR_FIELD_VALUE => ss[i].wpos # 0
    /\ ss[i].prec = STAR_FIELD_VALUE => ss[i].ppos # 0

(* The table starts as UNSUPPORTED everywhere, on the stack or allocated.  *)
Positions ==
  LET none == MaxPos(specs) = 0
      ss == IF none THEN Fill(specs).ss ELSE specs
      max == IF none THEN Fill(specs).max ELSE MaxPos(specs)
  IN  /\ fph = "positions"
      /\ \/ /\ (none \/ Filled(specs)) /\ max < Len(format)
            /\ specs' = ss /\ fph' = "table"
            /\ table' = [i \in 1..max |-> "UNSUPPORTED"]
         \/ /\ ~((none \/ Filled(specs)) /\ max < Len(format))
            /\ fph' = "einval" /\ UNCHANGED <<specs, table>>
         \/ /\ max > DEFAULT_MAX_VALUES /\ fph' = "failed" /\ UNCHANGED <<specs, table>>
      /\ UNCHANGED <<format, dir, room, values, output, field>>

(* The places a directive uses, with their types.                          *)
Uses(a) ==
  (IF a.pos # -1 THEN << [at |-> a.pos, vt |-> a.vt] >> ELSE <<>>)
    \o (IF a.width = STAR_FIELD_VALUE THEN << [at |-> a.wpos, vt |-> "INT"] >> ELSE <<>>)
    \o (IF a.prec = STAR_FIELD_VALUE THEN << [at |-> a.ppos, vt |-> "INT"] >> ELSE <<>>)

(* Variant: a place that is used twice keeps the later type.               *)
DefineAgain(t, u) == [t EXCEPT !.vt[u.at] = u.vt]

Define(t, u) ==
  IF t.vt[u.at] # "UNSUPPORTED" THEN [t EXCEPT !.twice = TRUE]
  ELSE [t EXCEPT !.vt[u.at] = u.vt]

Table ==
  LET uses == FlattenSeq([i \in DOMAIN specs |-> Uses(specs[i])])
      t == FoldLeft(Define, [vt |-> table, twice |-> FALSE], uses)
  IN  /\ fph = "table"
      /\ fph' = IF t.twice THEN "einval" ELSE "values"
      /\ table' = t.vt
      /\ UNCHANGED <<format, dir, specs, room, values, output, field>>

(* read_values stops at a type that is not supported, a place no directive *)
(* uses among them.                                                        *)
read_values ==
  /\ fph = "values"
  /\ IF \E i \in DOMAIN table : table[i] = "UNSUPPORTED"
     THEN fph' = "einval" /\ UNCHANGED values
     ELSE fph' = "format" /\ \E v \in [DOMAIN table -> Arguments] : values' = v
  /\ UNCHANGED <<format, dir, specs, room, table, output, field>>

-----------------------------------------------------------------------------
(* The fields: the pieces that are passed to the output function, which    *)
(* succeeds; o is what has been written so far.                            *)

Times(c, n) == [i \in 1..n |-> c]
When(cond, pieces) == IF cond THEN pieces ELSE <<>>
Emit(o, pieces) ==
  [o EXCEPT !.pieces = @ \o pieces, !.nbytes = @ + Len(FlattenSeq(pieces))]

(* A size_t, and what is left of it as an int.                             *)
ToSize(n) == n % SIZE_MOD
ToInt(n) == IF ToSize(n) >= SIZE_MOD \div 2 THEN ToSize(n) - SIZE_MOD ELSE ToSize(n)

(* Variant: the last, short piece of the padding is left out.              *)
PadsWhole(c, count) == Times(Times(c, PAD), Max({ToInt(count), 0}) \div PAD)

(* pad_out gets its count as an int and writes PAD bytes at a time.        *)
pad_out(c, count) ==
  LET n == Max({ToInt(count), 0})
  IN  Times(Times(c, PAD), n \div PAD) \o When(n % PAD # 0, << Times(c, n % PAD) >>)

Sign(a, neg) ==
  IF neg THEN << "-" >> ELSE IF "+" \in a.flags THEN << "+" >>
  ELSE IF " " \in a.flags THEN << " " >> ELSE <<>>

HexDigits == << "0", "1", "2", "3", "4", "5", "6", "7", "8", "9", "a", "b", "c", "d", "e", "f" >>
(* The digits of n, last one first; numbers here have at most ten.         *)
Backwards(n, base) ==
  FoldLeft(LAMBDA d, i : IF d.n = 0 THEN d
                         ELSE [n |-> d.n \div base, s |-> << HexDigits[(d.n % base) + 1] >> \o d.s],
           [n |-> n \div base, s |-> << HexDigits[(n % base) + 1] >>], Times(0, 10)).s
Grouped(s) ==
  FoldRightDomain(LAMBDA i, g : (IF i < Len(s) /\ (Len(s) - i) % 3 = 0
                                 THEN << s[i], "'" >> ELSE << s[i] >>) \o g, s, <<>>)

Base(conv) == CASE conv = "o" -> 8 [] conv \in {"x", "X"} -> 16 [] OTHER -> 10

(* The string built in numbuf.                                             *)
NumberString(a, n) ==
  LET s == Backwards(n, Base(a.conv))
  IN  CASE n = 0 /\ a.prec = 0 -> <<>>
        [] Base(a.conv) = 10 /\ "'" \in a.flags -> Grouped(s)
        [] a.conv = "o" /\ "#" \in a.flags /\ s[1] # "0" -> << "0" >> \o s
        [] OTHER -> s

AltHex(a) == a.conv \in {"x", "X"} /\ "#" \in a.flags

(* pr_integer compares the width, an int, with a size_t: a negative        *)
(* difference is a large number.                                           *)
pr_integer(a, value) ==
  LET neg == a.conv \in {"d", "i"} /\ value < 0
      s == NumberString(a, IF neg THEN -value ELSE ToSize(value))
      n == Len(s)
      sign == Sign(a, neg)
      extra == Len(sign) + IF AltHex(a) /\ s # <<>> THEN 2 ELSE 0
      left == "-" \in a.flags
      prec == IF "0" \in a.flags /\ a.prec = NO_FIELD_VALUE /\ ~left /\ n # 0
                   /\ ToSize(a.width - extra) > n
              THEN ToInt(a.width - extra - n)
              ELSE IF a.prec > 0 /\ a.prec > n THEN a.prec - n ELSE 0
      spaces == pad_out(" ", a.width - extra - n - prec)
      before == /\ ~left /\ a.width >= 0 /\ ToSize(a.width - extra) > n
                /\ ToSize(a.width - extra - n) >= ToSize(prec)
      after == left /\ a.width >= 0 /\ ToSize(a.width - extra - prec) > n
  IN  When(before, spaces) \o When(sign # <<>>, << sign >>)
        \o When(AltHex(a), << << "0", a.conv >> >>) \o pad_out("0", prec)
        \o << s >> \o When(after, spaces)

(* pr_float: sprintf writes the number, with the sign.                     *)
SprintfFloat(value) == Backwards(IF value < 0 THEN -value ELSE value, 10) \o << "." , "0" >>
pr_float(a, value) ==
  LET s == SprintfFloat(value)
      sign == Sign(a, value < 0)
      room1 == a.width - Len(sign)
      wide == a.width >= 0 /\ ToSize(room1) > Len(s)
      spaces == pad_out(" ", room1 - Len(s))
  IN  When(wide /\ "-" \notin a.flags, spaces) \o When(sign # <<>>, << sign >>)
        \o << s >> \o When(wide /\ "-" \in a.flags, spaces)

StringOf(value) ==
  IF value < 0 THEN << "(", "n", "u", "l", "l", ")" >> ELSE Times("s", value)

pr_string(a, value) ==
  LET s == StringOf(value)
      n == IF a.prec >= 0 /\ a.prec < Len(s) THEN a.prec ELSE Len(s)
      wide == a.width >= 0 /\ ToSize(a.width) > n
      spaces == pad_out(" ", a.width - n)
  IN  When(wide /\ "-" \notin a.flags, spaces) \o << SubSeq(s, 1, n) >>
        \o When(wide /\ "-" \in a.flags, spaces)

pr_char == << << "c" >> >>
pr_pointer == << << "0", "x" >> \o Times("0", 16) >>
pr_bytes_so_far(o) == [o EXCEPT !.stored = Append(@, [at |-> Len(FlattenSeq(o.pieces)),
                                                      nbytes |-> o.nbytes])]

Formatted(a, value) ==
  CASE a.conv \in {"d", "i"} \cup Unsigned -> pr_integer(a, value)
    [] a.conv \in Float -> pr_float(a, value)
    [] a.conv \in {"c", "C"} -> pr_char
    [] a.conv \in {"s", "S", "m"} -> pr_string(a, value)
    [] a.conv = "p" -> pr_pointer

(* One directive.  pr_integer does not know the types of char arguments.   *)
OutputOne(o, a, value) ==
  IF a.vt \in {"SCHAR", "UCHAR"} THEN [o EXCEPT !.rc = -1]
  ELSE IF a.conv = "n" THEN pr_bytes_so_far(o)
  ELSE Emit(o, Formatted(a, value))

-----------------------------------------------------------------------------
(* do_format.                                                              *)

(* Widths and precisions that are arguments.  A negative width stands for  *)
(* its absolute value, to the left.                                        *)
Starred(a) ==
  LET w == IF a.width = STAR_FIELD_VALUE THEN values[a.wpos] ELSE a.width
      p == IF a.prec = STAR_FIELD_VALUE THEN values[a.ppos] ELSE a.prec
      turn == a.width = STAR_FIELD_VALUE /\ w < 0
  IN  [a EXCEPT !.width = IF turn THEN -w ELSE w,
                !.flags = IF turn THEN @ \cup {"-"} ELSE @,
                !.prec = IF a.prec = STAR_FIELD_VALUE /\ p < 0 THEN NO_FIELD_VALUE ELSE p]

(* What is wrong when do_format comes to directive k, its assertions.      *)
AssertsFail(k) ==
  k > Len(specs) \/
    LET a == specs[k]
        int(i) == i \in DOMAIN table /\ table[i] = "INT"
    IN  ~ /\ a.width = STAR_FIELD_VALUE => int(a.wpos)
          /\ a.prec = STAR_FIELD_VALUE => int(a.ppos)
          /\ a.pos = -1 => a.conv = "m"
          /\ a.pos # -1 => a.pos \in DOMAIN table /\ a.vt = table[a.pos]

(* Character i; d.skip are the characters of a directive still to pass,    *)
(* d.k the directives done, d.from is where the text not yet written       *)
(* begins.  specs' has the widths and precisions of the arguments.         *)
Scan(d, i) ==
  LET a == specs[d.k + 1]
      text == When(i > d.from, << SubSeq(format, d.from, i - 1) >>)
  IN  IF d.skip > 0 THEN [d EXCEPT !.skip = @ - 1]
      ELSE IF format[i] # "%" \/ d.o.rc # 0 THEN d
      ELSE IF i < Len(format) /\ format[i + 1] = "%"
      THEN [d EXCEPT !.o = Emit(@, text \o << << "%" >> >>), !.skip = 1, !.from = i + 2]
      ELSE IF AssertsFail(d.k + 1) THEN [d EXCEPT !.o.rc = 134]
      ELSE [d EXCEPT !.o = OutputOne(Emit(@, text), specs'[d.k + 1],
                                     IF a.pos = -1 THEN 7 ELSE values[a.pos]),
                     !.k = @ + 1, !.skip = a.length - 1, !.from = i + a.length]

do_format ==
  /\ fph = "format" /\ fph' = "done"
  /\ specs' = [k \in DOMAIN specs |-> Starred(specs[k])]
  /\ \E d \in {FoldLeftDomain(Scan, [o |-> NoOutput, k |-> 0, skip |-> 0, from |-> 1],
                              format)} :
       output' = IF d.o.rc # 0 THEN d.o
                 ELSE Emit(d.o, When(d.from <= Len(format),
                                     << SubSeq(format, d.from, Len(format)) >>))
  /\ UNCHANGED <<format, dir, room, table, values, field>>

ChooseField ==
  /\ fph = "text" /\ format = <<>> /\ fph' = "field"
  /\ \E f \in FieldFlags, w \in FieldWidths, p \in FieldPrecisions, c \in FieldSpecs,
        v \in FieldValues :
       /\ field' = [flags |-> f, width |-> w, prec |-> p, conv |-> c,
                    vt |-> compute_type(c, ""), value |-> v]
       /\ output' = OutputOne(NoOutput, field', v)
  /\ UNCHANGED <<format, dir, specs, room, table, values>>

FmtNext ==
  \/ Text \/ Part \/ Convert \/ End \/ Positions \/ Table \/ read_values \/ do_format
  \/ ChooseField
FmtSpec == FmtInit /\ [][FmtNext]_fmtVars

-----------------------------------------------------------------------------
(* Where the pieces go.                                                    *)

(* Variant: what fills the buffer exactly leaves no room for the null.     *)
FixedForgets(p, piece) ==
  IF p.used + Len(piece) <= p.size
  THEN [p EXCEPT !.count = @ + Len(piece), !.used = @ + Len(piece), !.buf = @ \o piece]
  ELSE [p EXCEPT !.count = @ + Len(piece)]

fixed_buffer_out(p, piece) ==
  LET n == IF p.used + Len(piece) < p.size THEN Len(piece)
           ELSE Min({Len(piece), p.size - p.used})
  IN  [p EXCEPT !.count = @ + Len(piece), !.used = @ + n, !.buf = @ \o SubSeq(piece, 1, n)]

(* vsnprintf into a buffer of that size: the null goes out like the rest,  *)
(* and is put at the end if there was no room for it.                      *)
vsnprintf(size) ==
  LET p == FoldLeft(fixed_buffer_out, [size |-> size, count |-> 0, used |-> 0, buf |-> <<>>],
                    Append(output.pieces, << "NUL" >>))
  IN  [buf |-> IF p.count >= size /\ size > 0 THEN [p.buf EXCEPT ![size] = "NUL"] ELSE p.buf,
       ret |-> p.count - 1]

(* One piece for vasprintf; the n-th call of realloc fails.                *)
dynamic_buffer_out(p, piece, n) ==
  LET grow == p.used + Len(piece) >= p.alloced
      fail == grow /\ p.calls + 1 = n
  IN  IF p.error THEN p
      ELSE IF fail THEN [p EXCEPT !.error = TRUE]
      ELSE [p EXCEPT !.alloced = IF grow THEN @ + Len(piece) + BLOCK ELSE @,
                     !.calls = IF grow THEN @ + 1 ELSE @,
                     !.used = @ + Len(piece), !.buf = @ \o piece,
                     !.over = (@ \/ p.used + Len(piece) >
                                 IF grow THEN p.alloced + Len(piece) + BLOCK ELSE p.alloced)]

vasprintf(n) ==
  LET p == FoldLeft(LAMBDA q, piece : dynamic_buffer_out(q, piece, n),
                    [alloced |-> BLOCK, used |-> 0, buf |-> <<>>, calls |-> 0,
                     error |-> FALSE, over |-> FALSE],
                    Append(output.pieces, << "NUL" >>))
  IN  [buf |-> IF p.error THEN <<>> ELSE p.buf, ret |-> IF p.error THEN -1 ELSE p.used - 1,
       over |-> p.over]

-----------------------------------------------------------------------------
(* Properties.                                                             *)

(* The array of directives is never overrun, and everything else has its   *)
(* type.                                                                   *)
FmtTypeOK ==
  /\ fph \in Parts \cup {"text", "positions", "table", "values", "format", "done", "field",
                         "einval", "failed", "past"}
  /\ Bounded(format)
  /\ Len(specs) <= room /\ DOMAIN values \subseteq DOMAIN table
  /\ output.nbytes \in Nat

(* An unknown conversion whose value has the position of a star: its type  *)
(* is the mark of a free place in the table, so the star takes the place   *)
(* and read_values does not notice.                                        *)
UnknownShared ==
  \E i, j \in DOMAIN specs :
    /\ specs[i].vt = "UNSUPPORTED"
    /\ \/ specs[i].pos \in {specs[j].wpos, specs[j].ppos}
       \/ j # i /\ specs[j].pos = specs[i].pos

(* Whatever the format, positions given, stars and %m mixed in any way:    *)
(* do_format finds every directive where parse_format found it and its     *)
(* assertions hold; every argument is read once, with the type of the      *)
(* directive that uses it; %n and the count are the bytes written; and the *)
(* text between directives is written as it stands.                        *)
(* Left out is UnknownShared: do_format then aborts where an error is      *)
(* promised.                                                               *)
ArgumentsFit ==
  UnknownShared \/
  /\ fph = "format" =>
       LET uses == FlattenSeq([i \in DOMAIN specs |-> Uses(specs[i])])
       IN  /\ Len(uses) = Len(table)
           /\ \A i \in DOMAIN table : \E u \in DOMAIN uses :
                uses[u].at = i /\ uses[u].vt = table[i]
  /\ fph = "done" =>
       /\ output.rc # 134
       /\ output.nbytes = Len(FlattenSeq(output.pieces))
       /\ \A i \in DOMAIN output.stored : output.stored[i].at = output.stored[i].nbytes
       /\ output.rc = 0 =>
            SelectSeq(FlattenSeq(output.pieces), LAMBDA c : c = "T")
              = SelectSeq(format, LAMBDA c : c = "T")

(* The digits of n in a base, by their places.                             *)
Digits(n, base) ==
  LET k == CHOOSE k \in 1..10 : n < base ^ k /\ (k = 1 \/ base ^ (k - 1) <= n)
  IN  [i \in 1..k |-> HexDigits[((n \div base ^ (k - i)) % base) + 1]]

(* The field of a number, a float or a string by C-99, 7.19.6.1: the sign  *)
(* of a signed conversion, the prefix of what is not 0, digits with zeros  *)
(* before them, and spaces on one side.  The flag ' is not C-99's: by it   *)
(* the thousands of a decimal integer are set apart.                       *)
C99Field(a) ==
  LET number == a.conv \in {"d", "i"} \cup Unsigned
      signed == a.conv \in {"d", "i"} \cup Float
      neg == signed /\ a.value < 0
      n == IF neg THEN -a.value ELSE ToSize(a.value)
      digits ==
        CASE number -> IF n = 0 /\ a.prec = 0 THEN <<>>
                       ELSE IF "'" \in a.flags /\ Base(a.conv) = 10 THEN Grouped(Digits(n, 10))
                       ELSE Digits(n, Base(a.conv))
          [] a.conv \in Float -> SprintfFloat(a.value)
          [] a.conv = "s" -> IF a.prec = NO_FIELD_VALUE THEN StringOf(a.value)
                             ELSE SubSeq(StringOf(a.value), 1, Min({a.prec, Len(StringOf(a.value))}))
      head == (IF signed THEN Sign(a, neg) ELSE <<>>)
                \o (IF AltHex(a) /\ n # 0 THEN << "0", a.conv >> ELSE <<>>)
      left == "-" \in a.flags
      wanted == IF number /\ a.prec # NO_FIELD_VALUE THEN a.prec
                ELSE IF (number \/ signed) /\ "0" \in a.flags /\ ~left
                THEN a.width - Len(head) ELSE 0
      octal == a.conv = "o" /\ "#" \in a.flags /\ (digits = <<>> \/ digits[1] # "0")
      zeros == Max({wanted - Len(digits), IF octal THEN 1 ELSE 0})
      core == head \o Times("0", zeros) \o digits
      spaces == Times(" ", Max({a.width - Len(core), 0}))
  IN  IF left THEN core \o spaces ELSE spaces \o core

(* Where the code departs from C-99: the flag 0 does nothing to a float,   *)
(* %#x of 0 has a prefix (and does not count it in the width when the      *)
(* precision is 0 too), the flags + and space put a sign on an unsigned    *)
(* number, and %#o of 0 with precision 0 is empty.                         *)
Departs(a) ==
  \/ a.conv \in Float /\ "0" \in a.flags /\ "-" \notin a.flags
  \/ AltHex(a) /\ a.value = 0
  \/ a.conv \in Unsigned /\ a.flags \cap {"+", " "} # {}
  \/ a.conv = "o" /\ "#" \in a.flags /\ a.value = 0 /\ a.prec = 0

(* "Versatile C-99 compliant printf formatting": except where it Departs,  *)
(* every field is what C-99 says, although pr_integer and the others       *)
(* compare widths, which are ints, with lengths, which are size_ts, and    *)
(* write padding a few bytes at a time.                                    *)
FieldMeaning ==
  (fph = "field" /\ ~Departs(field)) => FlattenSeq(output.pieces) = C99Field(field)

(* vsnprintf stores the beginning of the output, as much as fits before a  *)
(* null, and returns the length of all of it, for every size; vasprintf    *)
(* stores all of it in a buffer that is never too small or fails, whichever *)
(* of its allocations does.                                                *)
OutputBuffered ==
  (fph = "done" /\ output.rc = 0) =>
    LET all == Append(FlattenSeq(output.pieces), "NUL")
    IN  /\ \A size \in BufSizes :
             LET r == vsnprintf(size)
             IN  /\ r.ret = Len(all) - 1
                 /\ r.buf = IF size >= Len(all) THEN all
                            ELSE IF size = 0 THEN <<>>
                            ELSE Append(SubSeq(all, 1, size - 1), "NUL")
        /\ \A n \in 0..3 :
             LET r == vasprintf(n)
             IN  /\ ~r.over
                 /\ \/ r.buf = all /\ r.ret = Len(all) - 1
                    \/ n > 0 /\ r.ret = -1
=============================================================================
