--------------------------------- MODULE Vis ---------------------------------
(***************************************************************************)
(* vis and unvis, src/src/vis.c and src/src/unvis.c: strings with          *)
(* characters a terminal would not show are written with escapes and read  *)
(* back.  The string is fed one character at a time; what the functions    *)
(* make of it so far, and of every size of buffer, are operators.          *)
(*                                                                         *)
(* A character is its code, in the C locale; the flags of a call are a set *)
(* of names.  The decoder is the state machine unvis keeps in *astate.     *)
(*                                                                         *)
(* A definition headed "Variant" is the one it precedes with a bug in it:  *)
(* nothing uses it, it shows what a property of this module tells apart.   *)
(***************************************************************************)
EXTENDS Integers, SequencesExt

CONSTANTS
  VisFlags,    (* The combinations of flags that are used.                 *)
  FirstChars,  (* Characters a string may begin with.                      *)
  NextChars,   (* Characters that may follow.                              *)
  MaxVis,      (* Bound on the length of a string.                         *)
  VisSizes     (* Sizes of the buffer strnvis and strnunvis are given.     *)

ASSUME VisAssumption ==
  /\ FirstChars \cup NextChars \subseteq 0..255
  /\ MaxVis \in Nat /\ VisSizes \subseteq Nat
  /\ \A f \in VisFlags : f \subseteq {"OCTAL", "CSTYLE", "SP", "TAB", "NL", "SAFE",
                                      "NOSLASH", "HTTPSTYLE", "GLOB"}

VARIABLES
  vflag,   (* the flags                                                    *)
  vstr     (* the string                                                   *)

visVars == <<vflag, vstr>>
VisInit == vflag = {} /\ vstr = <<>>

-----------------------------------------------------------------------------
(* Characters by what they are.                                            *)

BS == 92  (* the backslash *)
isdigit == 48..57
isoctal == 48..55
ishex == isdigit \cup (97..102)
isgraph == 33..126
iscntrl == (0..31) \cup {127}
tolower(c) == IF c \in 65..90 THEN c + 32 ELSE c
Magic == {42, 63, 91, 35}  (* the characters glob treats specially *)
UrlSafe == isdigit \cup (65..90) \cup (97..122)
             \cup {36, 45, 95, 46, 43, 33, 42, 39, 40, 41, 44}

(* The letter of VIS_CSTYLE for a control character.                       *)
CLetter == [c \in {7, 8, 9, 10, 11, 12, 13, 32} |->
              CASE c = 7 -> 97 [] c = 8 -> 98 [] c = 9 -> 116 [] c = 10 -> 110
                [] c = 11 -> 118 [] c = 12 -> 102 [] c = 13 -> 114 [] c = 32 -> 115]

-----------------------------------------------------------------------------
(* Encoding.                                                               *)

Hex(d) == IF d < 10 THEN 48 + d ELSE 55 + d
Octal(c) == << BS, 48 + c \div 64, 48 + ((c \div 8) % 8), 48 + (c % 8) >>
Meta(c, flag) ==
  LET low == c % 128
  IN  (IF "NOSLASH" \in flag THEN <<>> ELSE << BS >>)
      \o (IF c >= 128 THEN << 77 >> ELSE <<>>)
      \o IF low \in iscntrl THEN << 94, IF low = 127 THEN 63 ELSE low + 64 >>
         ELSE << 45, low >>

Plain1(c, flag) ==
  \/ c \in isgraph
  \/ "SP" \notin flag /\ c = 32
  \/ "TAB" \notin flag /\ c = 9
  \/ "NL" \notin flag /\ c = 10
  \/ "SAFE" \in flag /\ c \in {7, 8, 13}

(* Variant: a null character is short whatever follows.                    *)
visShortNull(c, flag, nextc) ==
  CASE "HTTPSTYLE" \in flag /\ c \notin UrlSafe -> << 37, Hex(c \div 16), Hex(c % 16) >>
    [] ~("GLOB" \in flag /\ c \in Magic) /\ Plain1(c, flag) ->
         IF c = BS /\ "NOSLASH" \notin flag THEN << BS, BS >> ELSE << c >>
    [] "CSTYLE" \in flag /\ c \in DOMAIN CLetter -> << BS, CLetter[c] >>
    [] "CSTYLE" \in flag /\ c = 0 -> << BS, 48 >>
    [] c % 128 = 32 \/ c \in isgraph \/ "OCTAL" \in flag -> Octal(c)
    [] OTHER -> Meta(c, flag)

vis(c, flag, nextc) ==
  LET glob == "GLOB" \in flag /\ c \in Magic
      cstyle == "CSTYLE" \in flag /\ (glob \/ ~Plain1(c, flag))
  IN  IF "HTTPSTYLE" \in flag /\ c \notin UrlSafe
      THEN << 37, Hex(c \div 16), Hex(c % 16) >>
      ELSE IF ~glob /\ Plain1(c, flag)
      THEN IF c = BS /\ "NOSLASH" \notin flag THEN << BS, BS >> ELSE << c >>
      ELSE IF cstyle /\ c \in DOMAIN CLetter THEN << BS, CLetter[c] >>
      ELSE IF cstyle /\ c = 0
      THEN << BS, 48 >> \o IF nextc \in isoctal THEN << 48, 48 >> ELSE <<>>
      ELSE IF c % 128 = 32 \/ c \in isgraph \/ "OCTAL" \in flag THEN Octal(c)
      ELSE Meta(c, flag)

(* strvisx; strvis is the same for a string without null characters.       *)
After(src, k) == IF k < Len(src) THEN src[k + 1] ELSE 0
strvisx(src, flag) ==
  FoldLeftDomain(LAMBDA dst, k : dst \o vis(src[k], flag, After(src, k)), <<>>, src)

isvisible(c, flag) ==
  \/ c \in isgraph /\ (c \notin Magic \/ "GLOB" \notin flag)
  \/ "SP" \notin flag /\ c = 32
  \/ "TAB" \notin flag /\ c = 9
  \/ "NL" \notin flag /\ c = 10
  \/ "SAFE" \in flag /\ (c \in {7, 8, 13} \/ c \in isgraph)

(* Variant: room for one of the two backslashes is enough.                 *)
strnvisHalfSlash(src, siz, flag) ==
  LET end == siz - 1
      Step(d, k) ==
        LET code == vis(src[k], flag, After(src, k))
            fits == Len(d.dst) + Len(code) <= end \/ (src[k] = BS /\ Len(d.dst) < end)
        IN  IF d.stop \/ Len(d.dst) >= end THEN [d EXCEPT !.stop = TRUE]
            ELSE IF fits THEN [d EXCEPT !.dst = @ \o code, !.i = Len(code), !.at = k + 1]
            ELSE [d EXCEPT !.i = Len(code), !.stop = TRUE]
      d == FoldLeftDomain(Step, [dst |-> <<>>, i |-> 0, at |-> 1, stop |-> FALSE], src)
      rest == [k \in 1..(Len(src) - d.at + 1) |-> k + d.at - 1]
  IN  [dst |-> d.dst,
       ret |-> Len(d.dst) + IF Len(d.dst) + d.i > end
               THEN FoldLeft(LAMBDA n, k : n + Len(vis(src[k], flag, After(src, k))), 0, rest)
               ELSE 0]

(* strnvis: the bytes it stores before the null, and what it returns.      *)
strnvis(src, siz, flag) ==
  LET end == siz - 1
      Step(d, k) ==
        LET slash == src[k] = BS /\ "NOSLASH" \notin flag
            code == IF ~isvisible(src[k], flag) THEN vis(src[k], flag, After(src, k))
                    ELSE IF slash THEN << BS, BS >> ELSE << src[k] >>
            i == IF isvisible(src[k], flag) /\ Len(d.dst) + Len(code) <= end
                 THEN 1 ELSE Len(code)
        IN  IF d.stop \/ Len(d.dst) >= end THEN [d EXCEPT !.stop = TRUE]
            ELSE IF Len(d.dst) + Len(code) <= end
            THEN [d EXCEPT !.dst = @ \o code, !.i = i, !.at = k + 1]
            ELSE [d EXCEPT !.i = i, !.stop = TRUE]
      d == FoldLeftDomain(Step, [dst |-> <<>>, i |-> 0, at |-> 1, stop |-> FALSE], src)
      rest == [k \in 1..(Len(src) - d.at + 1) |-> k + d.at - 1]
  IN  [dst |-> d.dst,
       ret |-> Len(d.dst) + IF Len(d.dst) + d.i > end
               THEN FoldLeft(LAMBDA n, k : n + Len(vis(src[k], flag, After(src, k))), 0, rest)
               ELSE 0]

-----------------------------------------------------------------------------
(* Decoding.  cp is the character being made, a byte.                      *)

Ground == [state |-> "GROUND", http |-> FALSE, cp |-> 0]
To(s, cp, state) == [st |-> [s EXCEPT !.cp = cp % 256, !.state = state, !.http = FALSE],
                     ret |-> "0"]
Ends(s, cp, ret) == [st |-> [Ground EXCEPT !.cp = cp % 256], ret |-> ret]

EscapeValue == [c \in {BS, 110, 114, 98, 97, 118, 116, 102, 115, 69} |->
                  CASE c = BS -> BS [] c = 110 -> 10 [] c = 114 -> 13 [] c = 98 -> 8
                    [] c = 97 -> 7 [] c = 118 -> 11 [] c = 116 -> 9 [] c = 102 -> 12
                    [] c = 115 -> 32 [] c = 69 -> 27]

InGround(s, c, flag) ==
  IF c = BS THEN To(s, 0, "START")
  ELSE IF "HTTPSTYLE" \in flag /\ c = 37
  THEN [st |-> [state |-> "START", http |-> TRUE, cp |-> 0], ret |-> "0"]
  ELSE Ends(s, c, "VALID")

InStart(s, c) ==
  IF s.http /\ tolower(c) \in ishex
  THEN To(s, IF c \in isdigit THEN c - 48 ELSE tolower(c) - 97, "HEX2")
  ELSE IF c \in DOMAIN EscapeValue THEN Ends(s, EscapeValue[c], "VALID")
  ELSE IF c \in isoctal THEN To(s, c - 48, "OCTAL2")
  ELSE IF c = 77 THEN To(s, 128, "META")
  ELSE IF c = 94 THEN To(s, s.cp, "CTRL")
  ELSE Ends(s, s.cp, IF c \in {10, 36} THEN "NOCHAR" ELSE "SYNBAD")

InMeta(s, c) ==
  CASE c = 45 -> To(s, s.cp, "META1")
    [] c = 94 -> To(s, s.cp, "CTRL")
    [] OTHER -> Ends(s, s.cp, "SYNBAD")

(* cp is 0 or 128 here: a bitwise or is a sum.                             *)
InMeta1(s, c) == Ends(s, IF c >= 128 THEN c ELSE s.cp + c, "VALID")
InCtrl(s, c) == Ends(s, s.cp + IF c = 63 THEN 127 ELSE c % 32, "VALID")

(* Variant: the character after two digits is swallowed.                   *)
OctalSwallows(s, c) ==
  IF c \in isoctal
  THEN IF s.state = "OCTAL2" THEN To(s, s.cp * 8 + c - 48, "OCTAL3")
       ELSE Ends(s, s.cp * 8 + c - 48, "VALID")
  ELSE Ends(s, s.cp, "VALID")

InOctal(s, c) ==
  IF c \in isoctal
  THEN IF s.state = "OCTAL2" THEN To(s, s.cp * 8 + c - 48, "OCTAL3")
       ELSE Ends(s, s.cp * 8 + c - 48, "VALID")
  ELSE Ends(s, s.cp, "VALIDPUSH")

InHex2(s, c) ==
  Ends(s, IF tolower(c) \notin ishex THEN s.cp
          ELSE s.cp * 16 + IF c \in isdigit THEN c - 48 ELSE tolower(c) - 87, "VALID")

unvis(s, c, flag) ==
  CASE s.state = "GROUND" -> InGround(s, c, flag)
    [] s.state = "START" -> InStart(s, c)
    [] s.state = "META" -> InMeta(s, c)
    [] s.state = "META1" -> InMeta1(s, c)
    [] s.state = "CTRL" -> InCtrl(s, c)
    [] s.state \in {"OCTAL2", "OCTAL3"} -> InOctal(s, c)
    [] s.state = "HEX2" -> InHex2(s, c)

(* The call with UNVIS_END: does it give a last character?                 *)
UnvisEnd(s) == s.state \in {"OCTAL2", "OCTAL3"}

(* One round of the loops of strunvis, strnunvis and strunvisx: n          *)
(* characters are decoded, and those before the end are stored.            *)
Give(d, u, end) ==
  CASE u.ret \in {"VALID", "VALIDPUSH"} ->
         [d EXCEPT !.s = u.st, !.n = @ + 1,
                   !.out = IF d.n < end THEN Append(@, u.st.cp) ELSE @]
    [] u.ret \in {"0", "NOCHAR"} -> [d EXCEPT !.s = u.st]
    [] OTHER -> [d EXCEPT !.s = u.st, !.bad = TRUE]

Decode(d, c, flag, end) ==
  LET r == unvis(d.s, c, flag)
      given == Give(d, r, end)
  IN  IF d.bad THEN d
      ELSE IF r.ret = "VALIDPUSH" THEN Give(given, unvis(r.st, c, flag), end)
      ELSE given

(* The call with UNVIS_END gives a character in the middle of an octal one. *)
DecodeAll(src, flag, end) ==
  LET d == FoldLeft(LAMBDA e, c : Decode(e, c, flag, end),
                    [s |-> Ground, n |-> 0, out |-> <<>>, bad |-> FALSE], src)
      last == IF d.s.state \in {"OCTAL2", "OCTAL3"}
              THEN Give(d, [st |-> d.s, ret |-> "VALID"], end) ELSE d
  IN  [dst |-> last.out, ret |-> IF last.bad THEN -1 ELSE last.n]

(* No character of src decodes to more than one: its length is no bound.   *)
strunvisx(src, flag) == DecodeAll(src, flag, Len(src))
strnunvis(src, sz) == DecodeAll(src, {}, sz - 1)

-----------------------------------------------------------------------------
ChooseFlags ==
  /\ vstr = <<>> /\ vflag = {}
  /\ vflag' \in VisFlags \ {{}} /\ UNCHANGED vstr

Feed ==
  /\ Len(vstr) < MaxVis
  /\ \E c \in IF vstr = <<>> THEN FirstChars ELSE NextChars : vstr' = Append(vstr, c)
  /\ UNCHANGED vflag

VisNext == ChooseFlags \/ Feed
VisSpec == VisInit /\ [][VisNext]_visVars

-----------------------------------------------------------------------------
(* Properties.                                                             *)

(* The string and its flags have their types.                              *)
VisTypeOK == vflag \in VisFlags \cup {{}} /\ \A k \in DOMAIN vstr : vstr[k] \in 0..255

(* "Decode characters previously encoded by vis": every string comes back, *)
(* null characters, backslashes, digits after an octal escape and bytes    *)
(* above 127 included.  Left out are VIS_NOSLASH, which leaves the escapes *)
(* out on purpose, and bytes of which VIS_HTTPSTYLE writes a first hex     *)
(* digit A to F: unvis takes that digit as 0 to 5.                         *)
VisRoundTrip ==
  ( /\ "NOSLASH" \notin vflag
    /\ "HTTPSTYLE" \in vflag => \A k \in DOMAIN vstr : vstr[k] < 160 ) =>
    LET back == strunvisx(strvisx(vstr, vflag), vflag \cap {"HTTPSTYLE"})
    IN  back.dst = vstr /\ back.ret = Len(vstr)

(* strnvis stores whole escapes and no more bytes than there is room for,  *)
(* as many of strvis's as fit, and returns the length of all of them.      *)
(* Left out are a size of 1, for which it returns 0, and the flags         *)
(* isvisible does not treat as vis does.  strnunvis likewise returns what  *)
(* strunvis does and stores its beginning, of any string at all.           *)
StrnvisFits ==
  \A siz \in VisSizes :
    /\ ( /\ 0 \notin ToSet(vstr) /\ siz # 1
         /\ "HTTPSTYLE" \notin vflag /\ ~({"GLOB", "SAFE"} \subseteq vflag) ) =>
         LET whole(k) == FoldLeft(LAMBDA n, j : n \o vis(vstr[j], vflag, After(vstr, j)),
                                  <<>>, [j \in 1..k |-> j])
         IN  \A r \in {strnvis(vstr, siz, vflag)} :
             /\ r.ret = Len(whole(Len(vstr)))
             /\ IF siz = 0 THEN r.dst = <<>>
                ELSE \E k \in 0..Len(vstr) :
                       /\ r.dst = whole(k) /\ Len(r.dst) < siz
                       /\ k < Len(vstr) => Len(whole(k + 1)) >= siz
    /\ 0 \notin ToSet(vstr) =>
         LET r == strnunvis(vstr, siz)
             all == strunvisx(vstr, {})
         IN  /\ r.ret = all.ret /\ IsPrefix(r.dst, all.dst)
             /\ Len(r.dst) = IF siz > Len(all.dst) THEN Len(all.dst)
                             ELSE IF siz = 0 THEN 0 ELSE siz - 1
=============================================================================
