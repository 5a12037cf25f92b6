------------------------------- MODULE Growing -------------------------------
(***************************************************************************)
(* The arrays that grow: the string list of src/src/stringlist.c, and the  *)
(* line buffers of getdelim (src/src/getline.c) and fgetln                 *)
(* (src/src/fgetln.c).  A function of the list is one step; reading a line *)
(* takes one step per character, each of which may find the end of the     *)
(* file, an error, or no memory.                                           *)
(*                                                                         *)
(* An array is a sequence as long as the memory it was given.              *)
(*                                                                         *)
(* A definition headed "Variant" is the one it precedes with a bug in it:  *)
(* nothing uses it, it shows what a property of this module tells apart.   *)
(***************************************************************************)
EXTENDS Integers, SequencesExt

CONSTANTS
  SL_CHUNKSIZE,  (* Entries by which a string list grows.                  *)
  SlStrings,     (* The strings of the caller, by address.                 *)
  SlName,        (* What each of them spells.                              *)
  BUFSIZ,        (* First size of a line buffer.                           *)
  LineSizes,     (* Sizes of buffers a caller may have allocated itself.   *)
  Texts          (* Contents of the file; "n" is the delimiter.            *)

(* A buffer of one byte that a caller gives to getdelim has no room for    *)
(* the null after a delimiter: it is left out.                             *)
ASSUME GrowingAssumption ==
  /\ SL_CHUNKSIZE \in Nat \ {0, 1} /\ BUFSIZ \in Nat \ {0, 1}
  /\ LineSizes \subseteq Nat \ {0, 1} /\ Texts \subseteq Seq(STRING)

VARIABLES
  sl,       (* the array of the list and sl_cur                            *)
  slKept,   (* the strings that were added and not deleted, in order       *)
  slFreed,  (* the strings that were freed                                 *)
  lbuf,     (* the buffer of each function, empty before it has one        *)
  line,     (* the call: its function, ptr, the character that was read,   *)
            (* what it returned, every store was inside the buffer         *)
  text, at, (* the file and how much of it has been read                   *)
  from      (* where in it the call began                                  *)

slVars == <<sl, slKept, slFreed>>
lineVars == <<lbuf, line, text, at, from>>
growVars == <<sl, slKept, slFreed, lbuf, line, text, at, from>>

NoList == [str |-> <<>>, cur |-> 0]
NoLine == [fn |-> "getdelim", busy |-> FALSE, ptr |-> 0, grows |-> FALSE, ret |-> 0, ok |-> TRUE]
Junk(n) == [i \in 1..n |-> "junk"]

GrowInit ==
  /\ sl = NoList /\ slKept = <<>> /\ slFreed = {}
  /\ lbuf = [fn \in {"getdelim", "fgetln"} |-> <<>>] /\ line = NoLine
  /\ text = <<>> /\ at = 0 /\ from = 0

-----------------------------------------------------------------------------
(* The string list.                                                        *)

SlMax == Len(sl.str)

(* A failing sl_init leaves no list.                                       *)
sl_init ==
  /\ SlMax = 0
  /\ sl' = [str |-> Junk(SL_CHUNKSIZE), cur |-> 0]
  /\ slKept' = <<>> /\ UNCHANGED slFreed /\ UNCHANGED lineVars

(* The array grows when one place is left; without memory nothing happens. *)
sl_add ==
  /\ SlMax > 0
  /\ \E s \in SlStrings \ (slFreed \cup ToSet(slKept)) :
       LET grown == IF sl.cur = SlMax - 1 THEN sl.str \o Junk(SL_CHUNKSIZE) ELSE sl.str
       IN  \/ /\ sl' = [str |-> [grown EXCEPT ![sl.cur + 1] = s], cur |-> sl.cur + 1]
              /\ slKept' = Append(slKept, s)
           \/ sl.cur = SlMax - 1 /\ UNCHANGED <<sl, slKept>>
  /\ UNCHANGED slFreed /\ UNCHANGED lineVars

(* The first entry that spells name, or 0.                                 *)
sl_find(name) ==
  LET places == {i \in 1..sl.cur : SlName[sl.str[i]] = name}
  IN  IF places = {} THEN 0 ELSE Min(places)

(* Variant: the entry after the deleted one is skipped when they move.     *)
Moved1(i) ==
  [j \in 1..SlMax |-> IF j = sl.cur THEN "NULL"
                      ELSE IF j > i /\ j < sl.cur THEN sl.str[j + 1] ELSE sl.str[j]]

(* The entries above i move down and the last one becomes NULL.            *)
Moved(i) ==
  [j \in 1..SlMax |-> IF j = sl.cur THEN "NULL"
                      ELSE IF j >= i /\ j < sl.cur THEN sl.str[j + 1] ELSE sl.str[j]]

sl_delete ==
  \E name \in {SlName[s] : s \in SlStrings}, all \in BOOLEAN :
    LET i == sl_find(name)
        first == SelectInSeq(slKept, LAMBDA s : SlName[s] = name)
    IN  /\ i # 0
        /\ slFreed' = slFreed \cup IF all THEN {sl.str[i]} ELSE {}
        /\ sl' = [str |-> Moved(i), cur |-> sl.cur - 1]
        /\ slKept' = IF first = 0 THEN slKept ELSE RemoveAt(slKept, first)
        /\ UNCHANGED lineVars

sl_free ==
  /\ SlMax > 0
  /\ \E all \in BOOLEAN :
       slFreed' = slFreed \cup IF all THEN {sl.str[i] : i \in 1..sl.cur} ELSE {}
  /\ sl' = NoList /\ slKept' = <<>> /\ UNCHANGED lineVars

-----------------------------------------------------------------------------
(* The line buffers.                                                       *)

Idle == ~line.busy
Buf == lbuf[line.fn]
Size == Len(Buf)
Returns(ret) == [line EXCEPT !.busy = FALSE, !.ret = ret]

OpenFile ==
  /\ text = <<>> /\ text' \in Texts
  /\ UNCHANGED <<lbuf, line, at, from>> /\ UNCHANGED slVars

(* getdelim uses the buffer of its caller, which may be of any size, and   *)
(* fgetln one for all calls.                                               *)
CallLine ==
  /\ Idle
  /\ \E fn \in {"getdelim", "fgetln"}, n \in LineSizes \cup {BUFSIZ} :
       /\ lbuf' = IF lbuf[fn] # <<>> THEN lbuf ELSE [lbuf EXCEPT ![fn] = Junk(n)]
       /\ fn = "fgetln" => n = BUFSIZ
       /\ line' = [NoLine EXCEPT !.fn = fn, !.busy = TRUE]
  /\ from' = at /\ UNCHANGED <<text, at>> /\ UNCHANGED slVars

(* Variant: getdelim forgets the null and the next character.              *)
FullLate(ptr) == ptr = Size

Full(ptr) == IF line.fn = "getdelim" THEN ptr + 2 >= Size ELSE ptr = Size

(* The next character: getdelim looks for the delimiter first and puts a   *)
(* null after it, fgetln looks for room first.                             *)
NextChar ==
  /\ ~Idle /\ ~line.grows /\ at < Len(text)
  /\ LET c == text[at + 1]
         put == << c >> \o IF line.fn = "getdelim" /\ c = "n" THEN << "NUL" >> ELSE <<>>
         room == line.ptr + Len(put) <= Size
         stored == IF room THEN [i \in 1..Size |-> IF i - line.ptr \in DOMAIN put
                                                   THEN put[i - line.ptr] ELSE Buf[i]]
                   ELSE Buf
         grows == Full(line.ptr + 1) /\ (c # "n" \/ line.fn = "fgetln")
         next == [line EXCEPT !.ptr = @ + 1, !.ok = (@ /\ room), !.grows = grows]
     IN  /\ lbuf' = [lbuf EXCEPT ![line.fn] = stored] /\ at' = at + 1
         /\ line' = IF c = "n" /\ ~grows
                    THEN [next EXCEPT !.busy = FALSE, !.ret = next.ptr] ELSE next
  /\ UNCHANGED <<text, from>> /\ UNCHANGED slVars

(* Twice the room; the line may have ended.  Without memory the call fails *)
(* and fgetln frees its buffer.                                            *)
Grow ==
  /\ ~Idle /\ line.grows
  /\ \/ /\ lbuf' = [lbuf EXCEPT ![line.fn] = @ \o Junk(Size)]
        /\ line' = IF Buf[line.ptr] = "n"
                   THEN [Returns(line.ptr) EXCEPT !.grows = FALSE]
                   ELSE [line EXCEPT !.grows = FALSE]
     \/ /\ lbuf' = IF line.fn = "fgetln" THEN [lbuf EXCEPT !.fgetln = <<>>] ELSE lbuf
        /\ line' = [Returns(-1) EXCEPT !.grows = FALSE]
  /\ UNCHANGED <<text, at, from>> /\ UNCHANGED slVars

(* At the end of the file what has been read is returned, without a null.  *)
(* After an error getdelim fails and fgetln does not tell it from the end. *)
EndOfFile ==
  /\ ~Idle /\ ~line.grows
  /\ \/ at = Len(text) /\ line' = Returns(IF line.ptr = 0 THEN -1 ELSE line.ptr)
     \/ line' = Returns(IF line.fn = "getdelim" \/ line.ptr = 0 THEN -1 ELSE line.ptr)
  /\ UNCHANGED <<lbuf, text, at, from>> /\ UNCHANGED slVars

(* The caller frees the buffer getdelim filled and starts without one.     *)
FreeLine ==
  /\ Idle /\ lbuf' = [lbuf EXCEPT !.getdelim = <<>>] /\ line' = NoLine
  /\ from' = at /\ UNCHANGED <<text, at>> /\ UNCHANGED slVars

SlNext == sl_init \/ sl_add \/ sl_delete \/ sl_free
LineNext == OpenFile \/ CallLine \/ NextChar \/ Grow \/ EndOfFile \/ FreeLine
GrowNext == SlNext \/ LineNext
GrowSpec == GrowInit /\ [][GrowNext]_growVars

-----------------------------------------------------------------------------
(* Properties.                                                             *)

(* Every variable has its type, and a place is left in the list.           *)
GrowTypeOK ==
  /\ ToSet(sl.str) \subseteq SlStrings \cup {"junk", "NULL"}
  /\ sl = NoList \/ sl.cur \in 0..(SlMax - 1)
  /\ line.fn \in DOMAIN lbuf /\ line.ret \in -1..Len(text)
  /\ at \in 0..Len(text) /\ from \in 0..at

(* The list holds the strings that were added and not deleted, in order,   *)
(* and none that was freed, however it grew and whichever was deleted.     *)
StringsKept ==
  /\ SubSeq(sl.str, 1, sl.cur) = slKept
  /\ ToSet(slKept) \cap slFreed = {}

(* No line is stored past the end of its buffer, and a line that is        *)
(* returned is what the call has read, all of it, up to the first          *)
(* delimiter; getdelim puts a null after a delimiter.                      *)
LinesKept ==
  LET read1 == SubSeq(text, from + 1, at)
  IN  /\ line.ok
      /\ (Idle /\ line.ret > 0) =>
           /\ line.ret = Len(read1) /\ SubSeq(Buf, 1, line.ret) = read1
           /\ "n" \notin ToSet(Front(read1))
           /\ (line.fn = "getdelim" /\ Last(read1) = "n") => Buf[line.ret + 1] = "NUL"

(* Nothing is lost and nothing overrun when an array grows or fails to.    *)
GrowthKeeps == StringsKept /\ LinesKept
=============================================================================
