------------------------------- MODULE Setmode -------------------------------
(***************************************************************************)
(* setmode and getmode, src/src/setmode.c: a symbolic mode, read one       *)
(* character at a time, becomes an array of commands which getmode applies *)
(* to a mode.  An action reads one character, or makes one of the system   *)
(* calls before that.  The array grows as ADDCMD needs it and is           *)
(* compressed in place at the end.                                         *)
(*                                                                         *)
(* A mode is a set of bits and a bit a pair of a class and a permission;   *)
(* the set-id bits belong to the class of their owner.  The flags of cmd2  *)
(* are the elements of a set.                                              *)
(*                                                                         *)
(* A definition headed "Variant" is the one it precedes with a bug in it:  *)
(* nothing uses it, it shows what a property of this module tells apart.   *)
(***************************************************************************)
EXTENDS Integers, SequencesExt

CONSTANTS
  SET_LEN,        (* Commands the first array has room for.                *)
  SET_LEN_INCR,   (* Commands by which it grows.                           *)
  Umasks,         (* File creation masks the process may have.             *)
  OldModes,       (* Modes the result is applied to.                       *)
  Absolutes,      (* Octal modes a string may name.                        *)
  ModeLetters,    (* The characters of the strings.                        *)
  MaxModeString   (* Bound on the length of a string.                      *)

Class == {"u", "g", "o"}
Rwx == {"r", "w", "x"}
ISUID == <<"u", "s">>
ISGID == <<"g", "s">>
ISTXT == <<"t", "t">>
IFDIR == <<"d", "d">>
STANDARD_BITS == {ISUID, ISGID} \cup (Class \X Rwx)
AllBits == STANDARD_BITS \cup {ISTXT, IFDIR}
IX == Class \X {"x"}

ASSUME SetLenAssumption == SET_LEN \in Nat /\ SET_LEN_INCR \in Nat \ {0, 1}
ASSUME ModesAssumption ==
  /\ OldModes \subseteq SUBSET AllBits /\ Absolutes \subseteq SUBSET AllBits
  /\ Umasks \subseteq SUBSET (Class \X Rwx) /\ MaxModeString \in Nat

VARIABLES
  mph,      (* what setmode does next                                      *)
  umask,    (* the process's file creation mask                            *)
  blocked,  (* all signals are blocked                                     *)
  mask,     (* what setmode has read of the mask, then its complement      *)
  parse,    (* who, op, perm, permXbits and equalopdone                    *)
  arr,      (* the array: its commands, setlen, every write was inside it  *)
  result,   (* the array setmode returns                                   *)
  asked,    (* what the string says: its actions one by one                *)
  process,  (* the mask the process had                                    *)
  read      (* characters read                                             *)

modeVars == <<mph, umask, blocked, mask, parse, arr, result, asked, process,
              read>>

NoParse == [who |-> {}, op |-> "=", perm |-> {}, x |-> {}, eq |-> FALSE]
NoArr == [cmds |-> <<>>, setlen |-> 0, fits |-> TRUE]

ModeInit ==
  /\ mph = "idle" /\ umask = {} /\ process = {} /\ blocked = FALSE
  /\ mask = {} /\ parse = NoParse /\ arr = NoArr /\ result = <<>>
  /\ asked = <<>> /\ read = 0

-----------------------------------------------------------------------------
(* getmode: one command applied to newmode.                                *)

Command(cmd, bits, cmd2) == [cmd |-> cmd, bits |-> bits, cmd2 |-> cmd2]

(* Variant: what is copied does not replace what was there.                *)
CopyAdds(newmode, set) ==
  LET value == {p \in Rwx : <<set.cmd, p>> \in newmode}
      Into(v) == ((set.cmd2 \cap Class) \X v) \cap set.bits
  IN  (newmode \ IF "CLR" \in set.cmd2 THEN Into(value) ELSE {})
      \cup IF "SET" \in set.cmd2 THEN Into(value) ELSE {}

(* The bits of one class copied to others.                                 *)
Copy(newmode, set) ==
  LET value == {p \in Rwx : <<set.cmd, p>> \in newmode}
      clrval == IF "SET" \in set.cmd2 THEN Rwx ELSE value
      Into(v) == ((set.cmd2 \cap Class) \X v) \cap set.bits
  IN  (newmode \ IF "CLR" \in set.cmd2 THEN Into(clrval) ELSE {})
      \cup IF "SET" \in set.cmd2 THEN Into(value) ELSE {}

Apply(omode, newmode, set) ==
  CASE set.cmd \in Class -> Copy(newmode, set)
    [] set.cmd = "+" -> newmode \cup set.bits
    [] set.cmd = "-" -> newmode \ set.bits
    [] set.cmd = "X" -> newmode \cup
                          IF omode \cap ({IFDIR} \cup IX) # {} THEN set.bits ELSE {}

getmode(cmds, omode) ==
  FoldLeft(LAMBDA newmode, set : Apply(omode, newmode, set), omode, cmds)

-----------------------------------------------------------------------------
(* addcmd, and ADDCMD which makes room for it.                             *)

addcmd(op, who, oparg, m) ==
  LET bits(perm) == (IF who = {} THEN m ELSE who) \cap perm
      flags == CASE oparg = "+" -> {"SET"}
                 [] oparg = "-" -> {"CLR"}
                 [] oparg = "=" -> {"SET", "CLR"}
                 [] OTHER -> {}
  IN  CASE op = "=" -> << Command("-", IF who = {} THEN STANDARD_BITS ELSE who, {}),
                          Command("+", bits(oparg), {}) >>
        [] op \in {"+", "-", "X"} -> << Command(op, bits(oparg), {}) >>
        [] op \in Class ->
             << Command(op, IF who = {} THEN m ELSE AllBits,
                        flags \cup {c \in Class : who = {} \/ <<c, "r">> \in who}) >>

(* Variant: the array grows when it is full to the last command but one.   *)
GrowsLate(a, op, who, oparg, m) ==
  LET cmds == a.cmds \o addcmd(op, who, oparg, m)
      setlen == IF Len(a.cmds) >= a.setlen - 1 THEN a.setlen + SET_LEN_INCR
                ELSE a.setlen
  IN  [cmds |-> cmds, setlen |-> setlen, fits |-> a.fits /\ Len(cmds) <= setlen]

ADDCMD(a, op, who, oparg, m) ==
  LET cmds == a.cmds \o addcmd(op, who, oparg, m)
      setlen == IF Len(a.cmds) >= a.setlen - 2 THEN a.setlen + SET_LEN_INCR
                ELSE a.setlen
  IN  [cmds |-> cmds, setlen |-> setlen, fits |-> a.fits /\ Len(cmds) <= setlen]

(* set->cmd = 0 where the next command would be.                           *)
Terminate(a) == [a EXCEPT !.fits = (@ /\ Len(a.cmds) < a.setlen)]

-----------------------------------------------------------------------------
(* compress_mode: a run of +, - and X commands becomes at most one of each. *)

Run0 == [out |-> <<>>, clr |-> {}, set |-> {}, X |-> {}]

Flush(r) ==
  LET one(cmd, bits) == IF bits = {} THEN <<>> ELSE << Command(cmd, bits, {}) >>
  IN  [Run0 EXCEPT !.out =
         r.out \o one("-", r.clr) \o one("+", r.set) \o one("X", r.X)]

(* Variant: X asks for bits although a + has set them.                     *)
MergeLosesX(r, set) ==
  CASE set.cmd = "-" -> [r EXCEPT !.clr = @ \cup set.bits, !.set = @ \ set.bits]
    [] set.cmd = "+" -> [r EXCEPT !.set = @ \cup set.bits, !.clr = @ \ set.bits,
                                  !.X = @ \ set.bits]
    [] set.cmd = "X" -> [r EXCEPT !.X = @ \cup (set.bits \ r.set)]
    [] OTHER -> [Flush(r) EXCEPT !.out = Append(@, set)]

Merge(r, set) ==
  CASE set.cmd = "-" -> [r EXCEPT !.clr = @ \cup set.bits, !.set = @ \ set.bits,
                                  !.X = @ \ set.bits]
    [] set.cmd = "+" -> [r EXCEPT !.set = @ \cup set.bits, !.clr = @ \ set.bits,
                                  !.X = @ \ set.bits]
    [] set.cmd = "X" -> [r EXCEPT !.X = @ \cup (set.bits \ r.set)]
    [] OTHER -> [Flush(r) EXCEPT !.out = Append(@, set)]

compress_mode(cmds) == Flush(FoldLeft(Merge, Run0, cmds)).out

-----------------------------------------------------------------------------
(* setmode: the mask, the first array, an octal mode.                      *)

(* Variant: the mask is read with signals let in.                          *)
NotBlocked ==
  /\ mph = "idle" /\ mph' = "zero"
  /\ \E m \in Umasks : umask' = m /\ process' = m
  /\ UNCHANGED <<blocked, mask, parse, arr, result, asked, read>>

BlockSignals ==
  /\ mph = "idle" /\ mph' = "zero"
  /\ \E m \in Umasks : umask' = m /\ process' = m
  /\ blocked' = TRUE
  /\ UNCHANGED <<mask, parse, arr, result, asked, read>>

ZeroUmask ==
  /\ mph = "zero" /\ mph' = "restore"
  /\ mask' = umask /\ umask' = {}
  /\ UNCHANGED <<blocked, parse, arr, result, asked, process, read>>

RestoreUmask ==
  /\ mph = "restore" /\ mph' = "unblock"
  /\ umask' = mask /\ mask' = AllBits \ mask
  /\ UNCHANGED <<blocked, parse, arr, result, asked, process, read>>

UnblockSignals ==
  /\ mph = "unblock" /\ blocked' = FALSE /\ mph' = "alloc"
  /\ UNCHANGED <<umask, mask, parse, arr, result, asked, process, read>>

Fail == mph' = "failed" /\ arr' = NoArr

FirstArray ==
  /\ mph = "alloc"
  /\ \/ mph' = "first" /\ arr' = [NoArr EXCEPT !.setlen = SET_LEN + 2]
     \/ Fail
  /\ UNCHANGED <<umask, blocked, mask, parse, result, asked, process, read>>

Absolute ==
  /\ mph = "first"
  /\ \/ \E perm \in Absolutes :
          /\ perm \subseteq STANDARD_BITS \cup {ISTXT}
          /\ arr' = Terminate(ADDCMD(arr, "=", STANDARD_BITS \cup {ISTXT}, perm, mask))
          /\ result' = arr'.cmds /\ mph' = "done"
          /\ asked' = << [who |-> perm, op |-> "octal", perms |-> {}, copies |-> <<>>] >>
     \/ /\ \E perm \in Absolutes : ~(perm \subseteq STANDARD_BITS \cup {ISTXT})
        /\ Fail /\ UNCHANGED <<result, asked>>
  /\ UNCHANGED <<umask, blocked, mask, parse, process, read>>

-----------------------------------------------------------------------------
(* setmode: one character of a symbolic mode.                              *)

Char(c) == c \in ModeLetters /\ read < MaxModeString /\ read' = read + 1

KeepMask == UNCHANGED <<umask, blocked, mask, process>>

WhoBits(c) ==
  CASE c = "a" -> STANDARD_BITS
    [] c = "u" -> {ISUID} \cup ({"u"} \X Rwx)
    [] c = "g" -> {ISGID} \cup ({"g"} \X Rwx)
    [] c = "o" -> {"o"} \X Rwx

(* Which bits might be modified.  A clause begins with who = 0.            *)
Who ==
  /\ mph \in {"first", "who"} /\ mph' = "who"
  /\ \E c \in {"a", "u", "g", "o"} :
       Char(c) /\ parse' = [parse EXCEPT !.who = @ \cup WhoBits(c)]
  /\ KeepMask /\ UNCHANGED <<arr, result, asked>>

(* The operator; a clause that ends or goes on without one is an error.    *)
GetOp ==
  /\ mph \in {"first", "who", "op"}
  /\ \/ \E c \in {"+", "-", "="} :
          /\ Char(c) /\ mph' = "perm"
          /\ parse' = [who |-> parse.who \ {ISTXT}, op |-> c, perm |-> {}, x |-> {},
                       eq |-> parse.eq /\ c # "="]
          /\ asked' = Append(asked, [who |-> parse'.who, op |-> c, perms |-> {},
                                     copies |-> <<>>])
          /\ UNCHANGED arr
     \/ /\ \E c \in ModeLetters \ {"+", "-", "="} :
             Char(c) /\ IF mph = "op" THEN c = "a" ELSE c \notin {"a", "u", "g", "o"}
        /\ Fail /\ UNCHANGED <<parse, asked>>
     \/ mph = "who" /\ Fail /\ UNCHANGED <<parse, asked, read>>
  /\ KeepMask /\ UNCHANGED result

(* s and t are ignored when only others are named.                         *)
SetIdCounts == parse.who = {} \/ parse.who \ ({"o"} \X Rwx) # {}

Perm ==
  /\ mph = "perm"
  /\ \E c \in {"r", "w", "x", "X", "s", "t"} :
       /\ Char(c)
       /\ parse' =
            CASE c \in Rwx -> [parse EXCEPT !.perm = @ \cup (Class \X {c})]
              [] c = "X" -> [parse EXCEPT !.x = IX]
              [] c = "s" /\ SetIdCounts -> [parse EXCEPT !.perm = @ \cup {ISUID, ISGID}]
              [] c = "t" /\ SetIdCounts -> [parse EXCEPT !.perm = @ \cup {ISTXT},
                                                         !.who = @ \cup {ISTXT}]
              [] OTHER -> parse
       /\ asked' = [asked EXCEPT ![Len(asked)].perms = @ \cup {c}]
  /\ KeepMask /\ UNCHANGED <<mph, arr, result>>

AddIf(when, a, op, arg) ==
  IF when THEN ADDCMD(a, op, parse.who, arg, mask) ELSE a

CopyFrom ==
  /\ mph = "perm"
  /\ \E c \in Class :
       LET withX == parse.op = "+" /\ parse.x # {}
           flushed == AddIf(withX, AddIf(parse.perm # {}, arr, parse.op, parse.perm),
                            "X", parse.x)
           added == ADDCMD(flushed, c, parse.who, parse.op, mask)
       IN  /\ Char(c)
           /\ \/ /\ arr' = added /\ mph' = "perm"
                 /\ parse' = [parse EXCEPT !.perm = {}, !.x = IF withX THEN {} ELSE @,
                                           !.eq = (@ \/ parse.op = "=")]
                 /\ asked' = [asked EXCEPT ![Len(asked)].copies = Append(@, c)]
              \/ added.setlen > arr.setlen /\ Fail /\ UNCHANGED <<parse, asked>>
  /\ KeepMask /\ UNCHANGED result

(* Variant: a second clause that assigns nothing does not clear.           *)
EndClauseClearsOnce ==
  LET assign == parse.perm # {} \/ (parse.op = "=" /\ ~parse.eq /\ Len(asked) = 1)
      added == AddIf(parse.x # {}, AddIf(assign, arr, parse.op, parse.perm), "X", parse.x)
  IN  /\ mph = "perm"
      /\ \/ /\ mph' = "done" /\ arr' = Terminate(added)
            /\ result' = compress_mode(added.cmds)
            /\ UNCHANGED <<parse, read>>
         \/ /\ mph' = "who" /\ Char(",") /\ arr' = added
            /\ parse' = [parse EXCEPT !.who = {}]
            /\ UNCHANGED result
         \/ /\ mph' = "op" /\ arr' = added
            /\ parse' = [parse EXCEPT !.eq = (@ \/ (assign /\ parse.op = "="))]
            /\ UNCHANGED <<result, read>>
         \/ added.setlen > arr.setlen /\ Fail /\ UNCHANGED <<parse, result, read>>
      /\ KeepMask /\ UNCHANGED asked

(* Any other character ends an action; "," a clause, and the terminating   *)
(* null character the mode.  Anything else goes to getop.                  *)
EndClause ==
  LET assign == parse.perm # {} \/ (parse.op = "=" /\ ~parse.eq)
      added == AddIf(parse.x # {}, AddIf(assign, arr, parse.op, parse.perm), "X", parse.x)
      next == [parse EXCEPT !.eq = (@ \/ (assign /\ parse.op = "="))]
  IN  /\ mph = "perm"
      /\ \/ /\ mph' = "done" /\ arr' = Terminate(added)
            /\ result' = compress_mode(added.cmds)
            /\ UNCHANGED <<parse, read>>
         \/ /\ mph' = "who" /\ Char(",") /\ arr' = added
            /\ parse' = [next EXCEPT !.who = {}]
            /\ UNCHANGED result
         \/ /\ mph' = "op" /\ arr' = added /\ parse' = next
            /\ UNCHANGED <<result, read>>
         \/ added.setlen > arr.setlen /\ Fail /\ UNCHANGED <<parse, result, read>>
      /\ KeepMask /\ UNCHANGED asked

ModeNext ==
  \/ BlockSignals \/ ZeroUmask \/ RestoreUmask \/ UnblockSignals \/ FirstArray
  \/ Absolute \/ Who \/ GetOp \/ Perm \/ CopyFrom \/ EndClause

ModeSpec == ModeInit /\ [][ModeNext]_modeVars

-----------------------------------------------------------------------------
(* Properties.                                                             *)

Commands ==
  [cmd : Class \cup {"+", "-", "X"}, bits : SUBSET AllBits,
   cmd2 : SUBSET (Class \cup {"SET", "CLR"})]

(* Every variable of setmode has its type.                                 *)
ModeTypeOK ==
  /\ mph \in {"idle", "zero", "restore", "unblock", "alloc", "first", "who", "op",
              "perm", "done", "failed"}
  /\ {umask, mask, process, parse.who, parse.perm, parse.x} \subseteq SUBSET AllBits
  /\ {blocked, parse.eq, arr.fits} \subseteq BOOLEAN
  /\ parse.op \in {"+", "-", "="} /\ arr.setlen \in Nat /\ read \in 0..MaxModeString
  /\ \A s \in {arr.cmds, result} : \A i \in DOMAIN s : s[i] \in Commands

(* ADDCMD grows the array two commands before its end, because = adds two  *)
(* and the terminator follows: no command and no terminator is written     *)
(* past the end, however long the mode is.                                 *)
ArrayHolds == arr.fits

(* While the mask is zero no signal handler can run and create a file that *)
(* everybody may write; and setmode leaves the mask it found.              *)
MaskProtected == (~blocked /\ mph # "idle") => umask = process

(* compress_mode reorders and merges commands.  What getmode makes of any  *)
(* old mode stays the same, and the commands take no more room.            *)
CompressKeeps ==
  (mph = "done" /\ asked[1].op # "octal") =>
    /\ \A m \in OldModes : getmode(result, m) = getmode(arr.cmds, m)
    /\ Len(result) <= Len(arr.cmds)

(* What one action of a mode asks for, by its letters.                     *)
Chmod(omode, mode, a) ==
  LET all == a.who = {}
      within == IF all THEN AllBits \ process ELSE a.who
      letter(c) == CASE c \in Rwx -> Class \X {c}
                     [] c = "s" -> {ISUID, ISGID}
                     [] c = "X" -> IF omode \cap ({IFDIR} \cup IX) # {} THEN IX ELSE {}
                     [] OTHER -> {}
      sticky == IF "t" \in a.perms /\ ~(a.who \subseteq {"o"} \X Rwx) THEN {ISTXT} ELSE {}
      wanted == (UNION {letter(c) : c \in a.perms} \cap within) \cup sticky
      targets == {c \in Class : all \/ <<c, "r">> \in a.who}
      from(c) == (targets \X {p \in Rwx : <<c, p>> \in mode})
                   \cap IF all THEN within ELSE AllBits
      room == (targets \X Rwx) \cap IF all THEN within ELSE AllBits
  IN  CASE a.op = "octal" -> (mode \ (STANDARD_BITS \cup {ISTXT})) \cup a.who
        [] a.copies # <<>> /\ a.op = "+" -> mode \cup from(a.copies[1])
        [] a.copies # <<>> /\ a.op = "-" -> mode \ from(a.copies[1])
        [] a.copies # <<>> /\ a.op = "=" -> (mode \ room) \cup from(a.copies[1])
        [] a.op = "+" -> mode \cup wanted
        [] a.op = "-" -> mode \ wanted
        [] a.op = "=" -> (mode \ (sticky \cup IF all THEN STANDARD_BITS ELSE a.who))
                           \cup wanted

(* Actions with a meaning of their own: letters, or one class to copy.  X  *)
(* goes with + and =, and t names somebody: without, t is the only letter  *)
(* that counts, because setmode then takes it for the who.                 *)
Plain(a) ==
  /\ a.copies = <<>> \/ (Len(a.copies) = 1 /\ a.perms = {})
  /\ "X" \in a.perms => a.op # "-"
  /\ "t" \in a.perms => a.who # {}

(* The commands do what the mode says: applied to any old mode they give   *)
(* what its actions give one after the other, with the mask where nobody   *)
(* is named, and = also when the action before it was one.                 *)
ModeMeaning ==
  (mph = "done" /\ \A i \in DOMAIN asked : Plain(asked[i])) =>
    \A m \in OldModes :
      getmode(result, m) = FoldLeft(LAMBDA mode, a : Chmod(m, mode, a), m, asked)
=============================================================================
