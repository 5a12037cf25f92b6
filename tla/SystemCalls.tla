----------------------------- MODULE SystemCalls -----------------------------
(***************************************************************************)
(* Functions that are a few calls of the system, any of which may fail:    *)
(* getentropy (src/src/getentropy_solaris.c), fchmodat, dprintf, vasprintf *)
(* and reallocf.  An action is one call of the system with what the        *)
(* function does about its outcome.                                        *)
(*                                                                         *)
(* A definition headed "Variant" is the one it precedes with a bug in it:  *)
(* nothing uses it, it shows what a property of this module tells apart.   *)
(***************************************************************************)
EXTENDS Integers, Sequences

CONSTANTS
  ENTROPY_MAX,   (* Bytes getentropy gives at most: 256.                   *)
  EntropySizes   (* The sizes it is asked for.                             *)

ASSUME EntropyAssumption == ENTROPY_MAX \in Nat /\ EntropySizes \subseteq Nat

VARIABLES
  sph,     (* the function and the system call it makes next               *)
  held,    (* the descriptors, streams and memory the call has             *)
  errno,
  saved,   (* save_errno                                                   *)
  ret,     (* what was returned                                            *)
  path,    (* the device getentropy is trying: 1 or 2                      *)
  ebuf,    (* its buffer: of each byte the device, and whether it is not 0 *)
  got,     (* i: how much of it has been read                              *)
  fmode    (* the mode of the file fchmodat is given                       *)

sysVars == <<sph, held, errno, saved, ret, path, ebuf, got, fmode>>

SysInit ==
  /\ sph = <<"caller", "calls">> /\ held = {} /\ errno = "before" /\ saved = "before"
  /\ ret = 0 /\ path = 1 /\ ebuf = <<>> /\ got = 0 /\ fmode = "old"

Calls == sph = <<"caller", "calls">>
ReturnsWith(fn, r) == sph' = <<fn, "returns">> /\ ret' = r

-----------------------------------------------------------------------------
(* getentropy: two devices, one after the other.                           *)

KeepFile == UNCHANGED fmode

CallEntropy ==
  /\ Calls
  /\ \E len \in EntropySizes :
       /\ ebuf' = [i \in 1..len |-> [dev |-> 0, set |-> FALSE]]
       /\ \/ len > ENTROPY_MAX /\ errno' = "EIO" /\ ReturnsWith("getentropy", -1)
          \/ len <= ENTROPY_MAX /\ sph' = <<"getentropy", "open">>
             /\ UNCHANGED <<errno, ret>>
  /\ saved' = errno /\ KeepFile /\ UNCHANGED <<held, path, got>>

(* What printf leaves in errno where EIO was: it may ask whether standard  *)
(* output is a terminal, and it may fail.                                  *)
Printed == {"EIO", "ENOTTY", "EBADF", "ENOSPC"}

(* nodevrandom, and what getentropy does about it: it tries the second     *)
(* device, or prints a message and returns.                                *)
Nodevrandom ==
  /\ held' = {} /\ KeepFile /\ UNCHANGED got
  /\ \/ /\ path = 1 /\ path' = 2 /\ errno' = "EIO" /\ saved' = "EIO"
        /\ sph' = <<"getentropy", "open">> /\ UNCHANGED ret
     \/ /\ path = 2 /\ errno' \in Printed /\ ReturnsWith("getentropy", -1)
        /\ UNCHANGED <<path, saved>>

OpenDevice ==
  /\ sph = <<"getentropy", "open">>
  /\ \/ held' = {"fd"} /\ sph' = <<"getentropy", "fstat">>
        /\ KeepFile /\ UNCHANGED <<errno, saved, ret, path, got>>
     \/ errno' = "EINTR" /\ KeepFile /\ UNCHANGED <<sph, held, saved, ret, path, got>>
     \/ Nodevrandom
  /\ UNCHANGED ebuf

(* Variant: the second device goes on where the first one failed.          *)
CheckDeviceGoesOn ==
  /\ sph = <<"getentropy", "fstat">>
  /\ \/ sph' = <<"getentropy", "read">>
        /\ KeepFile /\ UNCHANGED <<held, errno, saved, ret, path, got>>
     \/ Nodevrandom
  /\ UNCHANGED ebuf

(* fstat: a device that does not look like one is closed.                  *)
CheckDevice ==
  /\ sph = <<"getentropy", "fstat">>
  /\ \/ sph' = <<"getentropy", "read">> /\ got' = 0
        /\ KeepFile /\ UNCHANGED <<held, errno, saved, ret, path>>
     \/ Nodevrandom
  /\ UNCHANGED ebuf

ReadDevice ==
  /\ sph = <<"getentropy", "read">> /\ got < Len(ebuf)
  /\ \/ \E n \in 0..(Len(ebuf) - got) : \E set \in [1..n -> BOOLEAN] :
          /\ got' = got + n
          /\ ebuf' = [i \in DOMAIN ebuf |->
                        IF i \in (got + 1)..(got + n)
                        THEN [dev |-> path, set |-> set[i - got]] ELSE ebuf[i]]
          /\ KeepFile /\ UNCHANGED <<sph, held, errno, saved, ret, path>>
     \/ /\ errno' \in {"EAGAIN", "EINTR"} /\ KeepFile
        /\ UNCHANGED <<sph, held, saved, ret, path, ebuf, got>>
     \/ Nodevrandom /\ UNCHANGED ebuf

gotdata == \E i \in DOMAIN ebuf : ebuf[i].set

CloseDevice ==
  /\ sph = <<"getentropy", "read">> /\ got = Len(ebuf)
  /\ \/ /\ gotdata /\ held' = {} /\ errno' = saved /\ ReturnsWith("getentropy", 0)
        /\ KeepFile /\ UNCHANGED <<saved, path, got>>
     \/ ~gotdata /\ Nodevrandom
  /\ UNCHANGED ebuf

-----------------------------------------------------------------------------
(* fchmodat and dprintf: a descriptor of their own.                        *)

KeepEntropy == UNCHANGED <<path, ebuf, got>>

CallChmod ==
  /\ Calls
  /\ \/ held' = {"fd"} /\ sph' = <<"fchmodat", "fchmod">> /\ UNCHANGED <<errno, ret>>
     \/ errno' \in {"ENOTSUP", "EACCES"} /\ ReturnsWith("fchmodat", -1) /\ UNCHANGED held
  /\ KeepEntropy /\ UNCHANGED <<saved, fmode>>

ChangeMode ==
  /\ sph = <<"fchmodat", "fchmod">> /\ sph' = <<"fchmodat", "close">>
  /\ \/ fmode' = "new" /\ ret' = 0 /\ UNCHANGED errno
     \/ errno' = "EPERM" /\ ret' = -1 /\ UNCHANGED fmode
  /\ saved' = errno' /\ KeepEntropy /\ UNCHANGED held

CloseFile ==
  /\ sph = <<"fchmodat", "close">> /\ held' = {}
  /\ \/ sph' = <<"fchmodat", "returns">> /\ UNCHANGED errno
     \/ sph' = <<"fchmodat", "restore">> /\ errno' = "EIO"
  /\ KeepEntropy /\ UNCHANGED <<saved, ret, fmode>>

(* When close has failed errno is put back.                                *)
RestoreErrno ==
  /\ sph = <<"fchmodat", "restore">> /\ sph' = <<"fchmodat", "returns">>
  /\ errno' = saved
  /\ KeepEntropy /\ UNCHANGED <<held, saved, ret, fmode>>

CallDprintf ==
  /\ Calls
  /\ \/ held' = {"fd"} /\ sph' = <<"dprintf", "fdopen">> /\ UNCHANGED <<errno, ret>>
     \/ errno' = "EMFILE" /\ ReturnsWith("dprintf", -1) /\ UNCHANGED held
  /\ KeepEntropy /\ UNCHANGED <<saved, fmode>>

Fdopen ==
  /\ sph = <<"dprintf", "fdopen">>
  /\ \/ held' = {"FILE"} /\ sph' = <<"dprintf", "vfprintf">> /\ UNCHANGED <<errno, ret>>
     \/ held' = {} /\ errno' = "EINVAL" /\ ReturnsWith("dprintf", -1)
  /\ KeepEntropy /\ UNCHANGED <<saved, fmode>>

(* fclose closes the descriptor too; what it returns is not looked at.     *)
PrintAndClose ==
  /\ sph = <<"dprintf", "vfprintf">> /\ held' = {}
  /\ \E e \in {-1, 1} : ReturnsWith("dprintf", e)
  /\ errno' \in {errno, "EIO"}
  /\ KeepEntropy /\ UNCHANGED <<saved, fmode>>

-----------------------------------------------------------------------------
(* vasprintf and reallocf: memory that the caller gets or that is freed.   *)

Keep == KeepEntropy /\ UNCHANGED <<errno, saved, fmode>>

(* ret is -1 where the pointer that is handed out is null.                 *)
Measure ==
  /\ Calls
  /\ \/ held' = {"memory"} /\ sph' = <<"vasprintf", "vsnprintf">> /\ UNCHANGED ret
     \/ ReturnsWith("vasprintf", -1) /\ UNCHANGED held
  /\ Keep

PrintAll ==
  /\ sph = <<"vasprintf", "vsnprintf">>
  /\ \/ ReturnsWith("vasprintf", 1) /\ UNCHANGED held
     \/ ReturnsWith("vasprintf", -1) /\ held' = {}
  /\ Keep

(* realloc of a null pointer or of memory; a size of 0 frees it and may    *)
(* return null.                                                            *)
reallocf ==
  /\ Calls
  /\ \E ptr \in {{}, {"memory"}}, size \in {0, 1} :
       \/ held' = {"memory"} /\ ReturnsWith("reallocf", 1)
       \/ size = 0 /\ held' = {} /\ ReturnsWith("reallocf", -1)
       \/ size # 0 /\ held' = ptr /\ sph' = <<"reallocf", "free">> /\ UNCHANGED ret
  /\ Keep

FreeOld ==
  /\ sph = <<"reallocf", "free">> /\ held' = {} /\ ReturnsWith("reallocf", -1)
  /\ Keep

SysNext ==
  \/ CallEntropy \/ OpenDevice \/ CheckDevice \/ ReadDevice \/ CloseDevice
  \/ CallChmod \/ ChangeMode \/ CloseFile \/ RestoreErrno
  \/ CallDprintf \/ Fdopen \/ PrintAndClose
  \/ Measure \/ PrintAll \/ reallocf \/ FreeOld

SysSpec == SysInit /\ [][SysNext]_sysVars

-----------------------------------------------------------------------------
(* Properties.                                                             *)

(* Every variable of these functions has its type.                         *)
SysTypeOK ==
  /\ held \in SUBSET {"fd", "FILE", "memory"} /\ ret \in {-1, 0, 1}
  /\ {errno, saved} \subseteq {"before", "EIO", "EINTR", "EAGAIN", "ENOTSUP", "EACCES",
                              "EPERM", "EMFILE", "EINVAL"} \cup Printed
  /\ path \in {1, 2} /\ got \in 0..Len(ebuf) /\ fmode \in {"old", "new"}
  /\ \A i \in DOMAIN ebuf : ebuf[i] \in [dev : 0..2, set : BOOLEAN]

Returned(fn) == sph = <<fn, "returns">>

(* A call that returns has closed and freed all it had, on every path,     *)
(* except the memory it hands to the caller.                               *)
NothingLeft ==
  \A fn \in {"getentropy", "fchmodat", "dprintf", "vasprintf", "reallocf"} :
    Returned(fn) =>
      held = IF fn \in {"vasprintf", "reallocf"} /\ ret = 1 THEN {"memory"} ELSE {}

(* getentropy succeeds only with a buffer that one device has filled to    *)
(* its end, however short its reads were and wherever the other one        *)
(* failed; the interrupted calls before do not show in errno.  After the   *)
(* first device has failed errno is EIO all the same.  It fails only if    *)
(* too much is asked for or both devices fail; in the second case errno is *)
(* EIO no more when the message changes it.                                *)
EntropyFull ==
  Returned("getentropy") =>
    \/ /\ ret = -1 /\ errno \in Printed
       /\ path = 1 => errno = "EIO" /\ Len(ebuf) > ENTROPY_MAX
    \/ /\ ret = 0 /\ \A i \in DOMAIN ebuf : ebuf[i].dev = path
       /\ gotdata /\ errno = IF path = 1 THEN "before" ELSE "EIO"

(* fchmodat succeeds when and only when the mode has changed, and errno is *)
(* never that of the close.                                                *)
ChmodTold ==
  Returned("fchmodat") =>
    /\ (ret = 0) = (fmode = "new")
    /\ ret = 0 => errno = "before"
    /\ ret = -1 => errno \in {"ENOTSUP", "EACCES", "EPERM"}

(* What these functions return is true, and they keep nothing back.        *)
CallsAccounted == NothingLeft /\ EntropyFull /\ ChmodTold
=============================================================================
