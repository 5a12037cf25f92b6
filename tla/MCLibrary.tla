------------------------------- MODULE MCLibrary -------------------------------
(***************************************************************************)
(* The functions of the library that share nothing with each other nor     *)
(* with streams, side by side: a behaviour uses one of them, which.        *)
(***************************************************************************)
EXTENDS Setmode, Trees, Vis, Printf, Growing, Numbers, SystemCalls

VARIABLE which

libVars == <<which, modeVars, treeVars, visVars, fmtVars, growVars, numVars, sysVars>>

LibraryInit ==
  /\ which \in {"setmode", "rbtree", "splaytree", "vis", "printf", "stringlist", "lines",
                "numbers", "system"}
  /\ ModeInit /\ TreesInit /\ VisInit /\ FmtInit /\ GrowInit /\ NumInit /\ SysInit

ModeStep ==
  /\ which = "setmode" /\ ModeNext
  /\ UNCHANGED <<which, treeVars, visVars, fmtVars, growVars, numVars, sysVars>>
TreeStep ==
  /\ \/ which = "rbtree" /\ RBNext
     \/ which = "splaytree" /\ SplayNext
  /\ UNCHANGED <<which, modeVars, visVars, fmtVars, growVars, numVars, sysVars>>
VisStep ==
  /\ which = "vis" /\ VisNext
  /\ UNCHANGED <<which, modeVars, treeVars, fmtVars, growVars, numVars, sysVars>>
FmtStep ==
  /\ which = "printf" /\ FmtNext
  /\ UNCHANGED <<which, modeVars, treeVars, visVars, growVars, numVars, sysVars>>
GrowStep ==
  /\ \/ which = "stringlist" /\ SlNext
     \/ which = "lines" /\ LineNext
  /\ UNCHANGED <<which, modeVars, treeVars, visVars, fmtVars, numVars, sysVars>>
NumStep ==
  /\ which = "numbers" /\ NumNext
  /\ UNCHANGED <<which, modeVars, treeVars, visVars, fmtVars, growVars, sysVars>>

SysStep ==
  /\ which = "system" /\ SysNext
  /\ UNCHANGED <<which, modeVars, treeVars, visVars, fmtVars, growVars, numVars>>

LibraryNext ==
  ModeStep \/ TreeStep \/ VisStep \/ FmtStep \/ GrowStep \/ NumStep \/ SysStep
LibrarySpec == LibraryInit /\ [][LibraryNext]_libVars

(* Every variable of these functions has its type.                         *)
LibraryTypeOK ==
  /\ ModeTypeOK /\ TreesTypeOK /\ VisTypeOK /\ FmtTypeOK /\ GrowTypeOK /\ NumTypeOK
  /\ SysTypeOK

-----------------------------------------------------------------------------
(* The instance.                                                           *)

MCOldModes ==
  { {}, AllBits, {IFDIR}, {<<"u", "x">>, <<"g", "r">>},
    {<<"u", "r">>, <<"u", "w">>, ISTXT}, {<<"g", "x">>, ISUID, <<"o", "w">>} }
MCUmasks == { {<<"g", "w">>, <<"o", "w">>, <<"o", "r">>} }
MCAbsolutes == { {<<"u", "r">>, ISTXT}, {IFDIR} }

MCNodes == 1..7
MCNodeKey == [n \in MCNodes |-> IF n = 7 THEN 4 ELSE n]

MCVisFlags ==
  { {}, {"CSTYLE"}, {"OCTAL"}, {"CSTYLE", "SP", "TAB", "NL"}, {"SAFE"}, {"GLOB"},
    {"CSTYLE", "GLOB", "SP"}, {"HTTPSTYLE"}, {"SAFE", "CSTYLE", "NL"}, {"NOSLASH"} }

(* Two directives with positions, in and out of order, stars of the width  *)
(* and the precision with positions, and text between directives.          *)
MCLongFormats ==
  { << "%", "2", "$", "d", "%", "1", "$", "d" >>,
    << "%", "2", "$", "s", "T", "%", "1", "$", "d", "T" >>,
    << "%", "1", "$", ".", "*", "2", "$", "d" >>,
    << "%", "3", "$", "*", "1", "$", ".", "*", "2", "$", "d", "T" >>,
    << "T", "%", "*", ".", "*", "d", "T", "%", "s", "%", "%", "T", "%", "n" >>,
    << "%", "2", "$", "*", "1", "$", "s", "%", "3", "$", "n", "T" >>,
    << "T", "%", "m", "T", "%", "d", "%", "x", "T" >> }

MCFieldFlags == SUBSET {"-", "0", "+", "#"} \cup {{" "}, {"'"}}
MCArguments == {-3, 0, 4}
MCFieldWidths == {-1, 0, 1, 4, 7}
MCFieldPrecisions == {-1, 0, 2, 5}
MCFieldValues == {-3000, -11, 0, 9, 200}

MCSlName == [s \in {"s1", "s2", "s3", "s4"} |-> IF s \in {"s1", "s2"} THEN "x" ELSE s]
MCTexts ==
  { <<"n", "a", "n">>, <<"a", "b", "c", "a", "n", "b">>, <<"a", "n", "n", "a", "b", "n">> }

(* Dates on both sides of every boundary, and some whose products are no   *)
(* ints of 30 bits.                                                        *)
Date(s, m, h, d, o, y) == [sec |-> s, min |-> m, hour |-> h, mday |-> d, mon |-> o, year |-> y]
MCDates ==
  { Date(s, m, h, d, o, y) :
      s \in {-1, 0, 86400}, m \in {-1, 61}, h \in {-25, 23}, d \in {-30, 0, 1, 29, 31, 60, 366},
      o \in {-13, -12, -1, 0, 1, 11, 26}, y \in {5, 60, 69, 70, 72, 99, 100, 134} }
  \cup
  { Date(0, m, h, d, 0, 70) :
      m \in {0, 8947848, 8947849}, h \in {0, -149130, -149131}, d \in {1, 6214, 6215} }
=============================================================================
