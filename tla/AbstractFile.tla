---------------------------- MODULE AbstractFile ----------------------------
(***************************************************************************)
(* What a stream over a seekable object promises its client, as if there   *)
(* were no buffer: a sequence of bytes and one position in it, which reads *)
(* and writes share.  A call transfers its bytes in one or more pieces and *)
(* may end early; the position is always just past the last byte it has    *)
(* transferred.                                                            *)
(***************************************************************************)
EXTENDS FileContent

CONSTANTS
  Appending,     (* Writes go to the end of the content.                   *)
  InitFile,      (* What the object holds at first.                        *)
  SeekOffsets,   (* Offsets the client passes to es_fseek.                 *)
  Ops            (* The calls it makes.                                    *)

VARIABLES
  content,       (* the file, output that is still buffered included       *)
  position,      (* of the next byte read or written                       *)
  op,            (* the call in progress                                   *)
  got,           (* what a reading call has transferred                    *)
  todo           (* what a writing call has still to transfer              *)

vars == <<content, position, op, got, todo>>

Init == /\ content = InitFile /\ position = 0
        /\ op = "none" /\ got = <<>> /\ todo = <<>>

Begin ==
  /\ op = "none" /\ op' \in Ops \cup {"fclose"}
  /\ got' = <<>>
  /\ op' # "write" => todo' = <<>>
  /\ UNCHANGED <<content, position>>

(* The next bytes of the content; es_getline never goes past a newline.    *)
Read ==
  /\ op \in {"read", "getline"} /\ position < Len(content)
  /\ \E n \in 1 .. Len(content) - position :
       /\ got' = got \o Slice(content, position, position + n)
       /\ position' = position + n
  /\ op = "getline" => WithinOneLine(got')
  /\ UNCHANGED <<content, op, todo>>

(* The next bytes of the request replace those at the position.            *)
Write ==
  /\ op = "write"
  /\ \E n \in 1 .. Len(todo) :
       LET s  == SubSeq(todo, 1, n)
           at == IF Appending THEN Len(content) ELSE position
       IN  /\ content' = Overlay(content, at, s)
           /\ position' = at + n
           /\ todo' = SubSeq(todo, n + 1, Len(todo))
  /\ UNCHANGED <<op, got>>

Seek ==
  /\ op = "fseek"
  /\ \E o \in SeekOffsets :
       position' \in {p \in {o, position + o, Len(content) + o} : p >= 0}
  /\ UNCHANGED <<content, op, got, todo>>

(* es_fflush and es_setvbuf on a stream that was being read throw away what*)
(* was read ahead: the position jumps over it.  Output is never lost, and  *)
(* no other call moves the position without transferring bytes.            *)
SkipInput ==
  /\ op \in {"fflush", "setvbuf"}
  /\ position' > position /\ position' <= Len(content)
  /\ UNCHANGED <<content, op, got, todo>>

(* The stream is closed: what was read ahead does not matter any more.     *)
Close ==
  /\ op = "fclose" /\ op' = "closed"
  /\ position' >= position
  /\ UNCHANGED <<content, got, todo>>

End ==
  /\ op \notin {"none", "fclose", "closed"}
  /\ op' = "none" /\ got' = <<>> /\ todo' = <<>>
  /\ UNCHANGED <<content, position>>

Next == Begin \/ Read \/ Write \/ Seek \/ SkipInput \/ Close \/ End

Spec == Init /\ [][Next]_vars
=============================================================================
