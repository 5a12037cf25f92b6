----------------------------- MODULE MCEstream ------------------------------
(***************************************************************************)
(* Instances of Estream for TLC.  The object starts with three bytes, the  *)
(* second a newline; the built-in buffer holds two.                        *)
(***************************************************************************)
EXTENDS Estream

ThreeBytes == <<1, -2, 3>>
NoBytes    == <<>>
Offsets    == {-1, 0, 1}
=============================================================================
