----------------------------- MODULE LibraryProofs -----------------------------
(***************************************************************************)
(* Theorems about functions of the library that share nothing with a       *)
(* stream nor with each other: those that are a few calls of the system    *)
(* (SystemCalls), those that are nothing but arithmetic (Numbers), the     *)
(* arrays that grow (Growing) and setmode (Setmode).  They hold for every  *)
(* length of a buffer, every size of a word, every growth of an array,     *)
(* every file, and modes of any length with any mask.                      *)
(***************************************************************************)
EXTENDS Growing, Numbers, SystemCalls, Setmode, FiniteSetTheorems, SequenceTheorems,
        WellFoundedInduction, TLAPS

-----------------------------------------------------------------------------
(* The calls of the system.                                                *)

Errnos == {"before", "EIO", "EINTR", "EAGAIN", "ENOTSUP", "EACCES", "EPERM", "EMFILE",
           "EINVAL"} \cup Printed
SysFunctions == {"getentropy", "fchmodat", "dprintf", "vasprintf", "reallocf"}
Bytes == [dev : 0..2, set : BOOLEAN]

(* The type of the variables.                                              *)
SysTypes ==
  /\ held \in SUBSET {"fd", "FILE", "memory"} /\ ret \in {-1, 0, 1}
  /\ errno \in Errnos /\ saved \in Errnos
  /\ path \in {1, 2} /\ fmode \in {"old", "new"}
  /\ ebuf \in Seq(Bytes) /\ got \in 0..Len(ebuf)

(* Before the call nothing has happened yet.                               *)
CallerInv == Calls => held = {} /\ errno = "before" /\ saved = "before" /\ fmode = "old"
                      /\ path = 1 /\ got = 0

(* In getentropy, what save_errno holds tells which device is tried; what  *)
(* has been read, all of it, is from that device.                          *)
EntropyInv ==
  /\ sph \in {<<"getentropy", "open">>, <<"getentropy", "fstat">>, <<"getentropy", "read">>}
       => saved = IF path = 1 THEN "before" ELSE "EIO"
  /\ sph = <<"getentropy", "open">> => held = {}
  /\ sph \in {<<"getentropy", "fstat">>, <<"getentropy", "read">>} => held = {"fd"}
  /\ sph = <<"getentropy", "read">> => \A i \in 1..got : ebuf[i].dev = path

(* In fchmodat, save_errno holds what fchmod has set.                      *)
ChmodInv ==
  /\ sph = <<"fchmodat", "fchmod">> => errno = "before" /\ fmode = "old"
  /\ sph = <<"fchmodat", "close">> => saved = errno
  /\ sph \in {<<"fchmodat", "close">>, <<"fchmodat", "restore">>} =>
       /\ ret \in {-1, 0} /\ (ret = 0) = (fmode = "new")
       /\ saved = IF ret = 0 THEN "before" ELSE "EPERM"

(* What vasprintf writes into is what it will hand out.                    *)
MemoryInv ==
  /\ sph = <<"vasprintf", "vsnprintf">> => held = {"memory"}
  /\ sph = <<"fchmodat", "restore">> => held = {}

SysInv == SysTypes /\ CallerInv /\ EntropyInv /\ ChmodInv /\ MemoryInv /\ CallsAccounted

(* Nothing has been done before the call.                                  *)
LEMMA SysInitially == SysInit => SysInv
BY DEF SysInit, SysInv, SysTypes, CallerInv, EntropyInv, ChmodInv, MemoryInv, CallsAccounted,
   NothingLeft, EntropyFull, ChmodTold, Returned, Errnos, Bytes, Calls

(* A read puts bytes of the device behind those it found: a function on    *)
(* the places of a buffer whose values are bytes is a buffer as long.      *)
LEMMA SameLength ==
  ASSUME NEW b \in Seq(Bytes), NEW c \in [DOMAIN b -> Bytes]
  PROVE  c \in Seq(Bytes) /\ Len(c) = Len(b)
OBVIOUS

(* Every call, and every outcome of it, keeps the invariant.               *)
LEMMA SysStep == SysInv /\ [SysNext]_sysVars => SysInv'
<1> SUFFICES ASSUME SysInv, [SysNext]_sysVars PROVE SysInv'
  OBVIOUS
<1> USE DEF SysInv, CallsAccounted, Calls, Returned, ReturnsWith
<1>1. CASE CallEntropy
  <2>1. SysTypes'
    <3>1. PICK len \in EntropySizes : ebuf' = [i \in 1..len |-> [dev |-> 0, set |-> FALSE]]
      BY <1>1 DEF CallEntropy
    <3>2. len \in Nat /\ [dev |-> 0, set |-> FALSE] \in Bytes
      BY EntropyAssumption DEF Bytes
    <3>3. ebuf' \in Seq(Bytes) /\ Len(ebuf') = len
      BY <3>1, <3>2
    <3>4. held' = {} /\ got' = 0 /\ path' = 1 /\ fmode' = "old"
      BY <1>1 DEF CallEntropy, KeepFile, CallerInv
    <3>5. ret' \in {-1, 0, 1}
      BY <1>1 DEF CallEntropy, SysTypes
    <3>6. errno' \in Errnos /\ saved' \in Errnos
      BY <1>1 DEF CallEntropy, SysTypes, Errnos, Printed
    <3> QED
      BY <3>2, <3>3, <3>4, <3>5, <3>6 DEF SysTypes
  <2>2. CallerInv'
    BY <1>1 DEF CallEntropy, KeepFile, CallerInv
  <2>3. EntropyInv'
    BY <1>1 DEF CallEntropy, KeepFile, CallerInv, EntropyInv, SysTypes
  <2>4. ChmodInv'
    BY <1>1 DEF CallEntropy, KeepFile, CallerInv, ChmodInv, SysTypes
  <2>5. MemoryInv'
    BY <1>1 DEF CallEntropy, KeepFile, CallerInv, MemoryInv
  <2>6. NothingLeft'
    BY <1>1 DEF CallEntropy, KeepFile, NothingLeft, CallerInv, EntropyInv, MemoryInv, SysTypes
  <2>7. EntropyFull'
    <3>1. PICK len \in EntropySizes :
            /\ ebuf' = [i \in 1..len |-> [dev |-> 0, set |-> FALSE]]
            /\ \/ len > ENTROPY_MAX /\ errno' = "EIO" /\ ReturnsWith("getentropy", -1)
               \/ sph' = <<"getentropy", "open">>
      BY <1>1 DEF CallEntropy
    <3>2. len \in Nat /\ Len(ebuf') = len
      BY <3>1, EntropyAssumption
    <3> QED
      BY <3>1, <3>2 DEF EntropyFull, Printed
  <2>8. ChmodTold'
    BY <1>1 DEF CallEntropy, KeepFile, ChmodTold, ChmodInv, CallerInv, SysTypes
  <2> QED
    BY <2>1, <2>2, <2>3, <2>4, <2>5, <2>6, <2>7, <2>8
<1>2. CASE OpenDevice
  <2>1. SysTypes'
    <3>1. ebuf' = ebuf /\ got' = got /\ ret' \in {-1, ret}
      BY <1>2 DEF OpenDevice, KeepFile, Nodevrandom
    <3>2. /\ held' \in {held, {}, {"fd"}} /\ errno' \in {errno, "EINTR"} \cup Printed
          /\ saved' \in {saved, "EIO"}
      BY <1>2 DEF OpenDevice, KeepFile, Nodevrandom, Printed
    <3>3. path' \in {1, 2} /\ fmode' = fmode
      BY <1>2 DEF OpenDevice, KeepFile, Nodevrandom, SysTypes
    <3>4. errno' \in Errnos /\ saved' \in Errnos
      BY <3>2 DEF SysTypes, Errnos, Printed
    <3> QED
      BY <3>1, <3>2, <3>3, <3>4 DEF SysTypes
  <2>2. CallerInv'
    BY <1>2 DEF OpenDevice, KeepFile, Nodevrandom, CallerInv
  <2>3. EntropyInv'
    <3>1. CASE sph' = <<"getentropy", "fstat">>
      BY <1>2, <3>1 DEF OpenDevice, KeepFile, Nodevrandom, EntropyInv
    <3>2. CASE Nodevrandom
      BY <1>2, <3>2 DEF OpenDevice, KeepFile, Nodevrandom, EntropyInv, SysTypes
    <3>3. CASE sph' = <<"getentropy", "open">> /\ UNCHANGED <<held, saved, path>>
      BY <1>2, <3>3 DEF OpenDevice, EntropyInv
    <3> QED
      BY <1>2, <3>1, <3>2, <3>3 DEF OpenDevice
  <2>4. ChmodInv'
    BY <1>2 DEF OpenDevice, KeepFile, Nodevrandom, CallerInv, ChmodInv, SysTypes
  <2>5. MemoryInv'
    BY <1>2 DEF OpenDevice, KeepFile, Nodevrandom, CallerInv, MemoryInv
  <2>6. NothingLeft'
    BY <1>2 DEF OpenDevice, KeepFile, Nodevrandom, NothingLeft, CallerInv, EntropyInv, MemoryInv, SysTypes
  <2>7. EntropyFull'
    BY <1>2 DEF OpenDevice, KeepFile, Nodevrandom, Printed, EntropyFull, EntropyInv, SysTypes, gotdata
  <2>8. ChmodTold'
    BY <1>2 DEF OpenDevice, KeepFile, Nodevrandom, ChmodTold, ChmodInv, CallerInv, SysTypes
  <2> QED
    BY <2>1, <2>2, <2>3, <2>4, <2>5, <2>6, <2>7, <2>8
<1>3. CASE CheckDevice
  <2>1. SysTypes'
    <3>1. ebuf' = ebuf /\ got' \in {0, got} /\ ret' \in {-1, ret}
      BY <1>3 DEF CheckDevice, KeepFile, Nodevrandom
    <3>2. Len(ebuf) \in Nat
      BY DEF SysTypes
    <3>3. /\ held' \in {held, {}} /\ errno' \in {errno} \cup Printed
          /\ saved' \in {saved, "EIO"}
      BY <1>3 DEF CheckDevice, KeepFile, Nodevrandom, Printed
    <3>4. path' \in {1, 2} /\ fmode' = fmode
      BY <1>3 DEF CheckDevice, KeepFile, Nodevrandom, SysTypes
    <3> QED
      BY <3>1, <3>2, <3>3, <3>4 DEF SysTypes, Errnos, Printed
  <2>2. CallerInv'
    BY <1>3 DEF CheckDevice, KeepFile, Nodevrandom, CallerInv
  <2>3. EntropyInv'
    BY <1>3 DEF CheckDevice, KeepFile, Nodevrandom, CallerInv, EntropyInv, SysTypes
  <2>4. ChmodInv'
    BY <1>3 DEF CheckDevice, KeepFile, Nodevrandom, CallerInv, ChmodInv, SysTypes
  <2>5. MemoryInv'
    BY <1>3 DEF CheckDevice, KeepFile, Nodevrandom, CallerInv, MemoryInv
  <2>6. NothingLeft'
    BY <1>3 DEF CheckDevice, KeepFile, Nodevrandom, NothingLeft, CallerInv, EntropyInv, MemoryInv, SysTypes
  <2>7. EntropyFull'
    BY <1>3 DEF CheckDevice, KeepFile, Nodevrandom, Printed, EntropyFull, EntropyInv, SysTypes, gotdata
  <2>8. ChmodTold'
    BY <1>3 DEF CheckDevice, KeepFile, Nodevrandom, ChmodTold, ChmodInv, CallerInv, SysTypes
  <2> QED
    BY <2>1, <2>2, <2>3, <2>4, <2>5, <2>6, <2>7, <2>8
<1>4. CASE ReadDevice
  <2>1. SysTypes'
    <3>1. ebuf' \in Seq(Bytes) /\ got' \in 0..Len(ebuf')
      <4>1. CASE UNCHANGED <<ebuf, got>>
        BY <4>1 DEF SysTypes
      <4>2. ASSUME NEW n \in 0..(Len(ebuf) - got), NEW set \in [1..n -> BOOLEAN], got' = got + n,
                   ebuf' = [i \in DOMAIN ebuf |->
                              IF i \in (got + 1)..(got + n)
                              THEN [dev |-> path, set |-> set[i - got]] ELSE ebuf[i]]
            PROVE  ebuf' \in Seq(Bytes) /\ got' \in 0..Len(ebuf')
        <5>1. ebuf \in Seq(Bytes) /\ got \in 0..Len(ebuf) /\ path \in {1, 2}
          BY DEF SysTypes
        <5>2. ASSUME NEW i \in DOMAIN ebuf
              PROVE  (IF i \in (got + 1)..(got + n)
                      THEN [dev |-> path, set |-> set[i - got]] ELSE ebuf[i]) \in Bytes
          <6>1. ebuf[i] \in Bytes /\ i \in Int /\ got \in Int /\ n \in Int
            BY <5>1
          <6>2. CASE i \in (got + 1)..(got + n)
            <7>1. i - got \in 1..n
              BY <6>1, <6>2
            <7> QED
              BY <5>1, <7>1, <6>2 DEF Bytes
          <6> QED
            BY <6>1, <6>2
        <5>3. ebuf' \in [DOMAIN ebuf -> Bytes]
          BY <4>2, <5>2
        <5>4. ebuf' \in Seq(Bytes) /\ Len(ebuf') = Len(ebuf)
          BY <5>1, <5>3, SameLength
        <5>5. got + n \in 0..Len(ebuf)
          BY <5>1
        <5> QED
          BY <4>2, <5>4, <5>5
      <4> QED
        BY <1>4, <4>1, <4>2 DEF ReadDevice, KeepFile, Nodevrandom
    <3>2. held' \in SUBSET {"fd", "FILE", "memory"} /\ errno' \in Errnos /\ saved' \in Errnos
      BY <1>4 DEF ReadDevice, KeepFile, Nodevrandom, SysTypes, Errnos, Printed
    <3>3. ret' \in {-1, 0, 1} /\ path' \in {1, 2} /\ fmode' \in {"old", "new"}
      BY <1>4 DEF ReadDevice, KeepFile, Nodevrandom, SysTypes
    <3> QED
      BY <3>1, <3>2, <3>3 DEF SysTypes
  <2>2. CallerInv'
    BY <1>4 DEF ReadDevice, KeepFile, Nodevrandom, CallerInv
  <2>3. EntropyInv'
    BY <1>4 DEF ReadDevice, KeepFile, Nodevrandom, CallerInv, EntropyInv, SysTypes
  <2>4. ChmodInv'
    BY <1>4 DEF ReadDevice, KeepFile, Nodevrandom, CallerInv, ChmodInv, SysTypes
  <2>5. MemoryInv'
    BY <1>4 DEF ReadDevice, KeepFile, Nodevrandom, CallerInv, MemoryInv
  <2>6. NothingLeft'
    BY <1>4 DEF ReadDevice, KeepFile, Nodevrandom, NothingLeft, CallerInv, EntropyInv, MemoryInv, SysTypes
  <2>7. EntropyFull'
    BY <1>4 DEF ReadDevice, KeepFile, Nodevrandom, Printed, EntropyFull, EntropyInv, SysTypes, gotdata
  <2>8. ChmodTold'
    BY <1>4 DEF ReadDevice, KeepFile, Nodevrandom, ChmodTold, ChmodInv, CallerInv, SysTypes
  <2> QED
    BY <2>1, <2>2, <2>3, <2>4, <2>5, <2>6, <2>7, <2>8
<1>5. CASE CloseDevice
  <2>1. SysTypes'
    BY <1>5 DEF CloseDevice, KeepFile, Nodevrandom, gotdata, SysTypes, Errnos, Printed
  <2>2. CallerInv'
    BY <1>5 DEF CloseDevice, KeepFile, Nodevrandom, gotdata, CallerInv
  <2>3. EntropyInv'
    BY <1>5 DEF CloseDevice, KeepFile, Nodevrandom, gotdata, CallerInv, EntropyInv, SysTypes
  <2>4. ChmodInv'
    BY <1>5 DEF CloseDevice, KeepFile, Nodevrandom, gotdata, CallerInv, ChmodInv, SysTypes
  <2>5. MemoryInv'
    BY <1>5 DEF CloseDevice, KeepFile, Nodevrandom, gotdata, CallerInv, MemoryInv
  <2>6. NothingLeft'
    BY <1>5 DEF CloseDevice, KeepFile, Nodevrandom, gotdata, NothingLeft, CallerInv, EntropyInv, MemoryInv, SysTypes
  <2>7. EntropyFull'
    BY <1>5 DEF CloseDevice, KeepFile, Nodevrandom, gotdata, Printed, EntropyFull, EntropyInv, SysTypes, gotdata
  <2>8. ChmodTold'
    BY <1>5 DEF CloseDevice, KeepFile, Nodevrandom, gotdata, ChmodTold, ChmodInv, CallerInv, SysTypes
  <2> QED
    BY <2>1, <2>2, <2>3, <2>4, <2>5, <2>6, <2>7, <2>8
<1>6. CASE CallChmod
  <2>1. SysTypes'
    <3>1. /\ errno' \in {errno, "ENOTSUP", "EACCES"} /\ held' \in {held, {"fd"}}
          /\ ret' \in {ret, -1} /\ UNCHANGED <<saved, fmode, path, ebuf, got>>
      BY <1>6 DEF CallChmod, KeepEntropy
    <3>2. errno' \in Errnos
      BY <3>1 DEF SysTypes, Errnos
    <3> QED
      BY <3>1, <3>2 DEF SysTypes
  <2>2. CallerInv'
    BY <1>6 DEF CallChmod, KeepEntropy, CallerInv
  <2>3. EntropyInv'
    BY <1>6 DEF CallChmod, KeepEntropy, CallerInv, EntropyInv, SysTypes
  <2>4. ChmodInv'
    BY <1>6 DEF CallChmod, KeepEntropy, CallerInv, ChmodInv, SysTypes
  <2>5. MemoryInv'
    BY <1>6 DEF CallChmod, KeepEntropy, CallerInv, MemoryInv
  <2>6. NothingLeft'
    <3> SUFFICES ASSUME NEW fn \in SysFunctions, Returned(fn)'
                 PROVE  held' = {} /\ ret' = -1
      BY DEF NothingLeft, SysFunctions
    <3> QED
      BY <1>6 DEF CallChmod, KeepEntropy, CallerInv, SysTypes
  <2>7. EntropyFull'
    BY <1>6 DEF CallChmod, KeepEntropy, EntropyFull, EntropyInv, SysTypes, gotdata
  <2>8. ChmodTold'
    BY <1>6 DEF CallChmod, KeepEntropy, ChmodTold, ChmodInv, CallerInv, SysTypes
  <2> QED
    BY <2>1, <2>2, <2>3, <2>4, <2>5, <2>6, <2>7, <2>8
<1>7. CASE ChangeMode
  <2>1. SysTypes'
    BY <1>7 DEF ChangeMode, KeepEntropy, SysTypes, Errnos, Printed
  <2>2. CallerInv'
    BY <1>7 DEF ChangeMode, KeepEntropy, CallerInv
  <2>3. EntropyInv'
    BY <1>7 DEF ChangeMode, KeepEntropy, CallerInv, EntropyInv, SysTypes
  <2>4. ChmodInv'
    BY <1>7 DEF ChangeMode, KeepEntropy, CallerInv, ChmodInv, SysTypes
  <2>5. MemoryInv'
    BY <1>7 DEF ChangeMode, KeepEntropy, CallerInv, MemoryInv
  <2>6. NothingLeft'
    BY <1>7 DEF ChangeMode, KeepEntropy, NothingLeft, CallerInv, EntropyInv, MemoryInv, SysTypes
  <2>7. EntropyFull'
    BY <1>7 DEF ChangeMode, KeepEntropy, EntropyFull, EntropyInv, SysTypes, gotdata
  <2>8. ChmodTold'
    BY <1>7 DEF ChangeMode, KeepEntropy, ChmodTold, ChmodInv, CallerInv, SysTypes
  <2> QED
    BY <2>1, <2>2, <2>3, <2>4, <2>5, <2>6, <2>7, <2>8
<1>8. CASE CloseFile
  <2>1. SysTypes'
    BY <1>8 DEF CloseFile, KeepEntropy, SysTypes, Errnos, Printed
  <2>2. CallerInv'
    BY <1>8 DEF CloseFile, KeepEntropy, CallerInv
  <2>3. EntropyInv'
    BY <1>8 DEF CloseFile, KeepEntropy, CallerInv, EntropyInv, SysTypes
  <2>4. ChmodInv'
    BY <1>8 DEF CloseFile, KeepEntropy, CallerInv, ChmodInv, SysTypes
  <2>5. MemoryInv'
    BY <1>8 DEF CloseFile, KeepEntropy, CallerInv, MemoryInv
  <2>6. NothingLeft'
    BY <1>8 DEF CloseFile, KeepEntropy, NothingLeft, CallerInv, EntropyInv, MemoryInv, SysTypes
  <2>7. EntropyFull'
    BY <1>8 DEF CloseFile, KeepEntropy, EntropyFull, EntropyInv, SysTypes, gotdata
  <2>8. ChmodTold'
    BY <1>8 DEF CloseFile, KeepEntropy, ChmodTold, ChmodInv, CallerInv, SysTypes
  <2> QED
    BY <2>1, <2>2, <2>3, <2>4, <2>5, <2>6, <2>7, <2>8
<1>8a. CASE RestoreErrno
  <2>1. SysTypes'
    BY <1>8a DEF RestoreErrno, KeepEntropy, SysTypes, Errnos, Printed
  <2>2. CallerInv'
    BY <1>8a DEF RestoreErrno, KeepEntropy, CallerInv
  <2>3. EntropyInv'
    BY <1>8a DEF RestoreErrno, KeepEntropy, CallerInv, EntropyInv, SysTypes
  <2>4. ChmodInv'
    BY <1>8a DEF RestoreErrno, KeepEntropy, CallerInv, ChmodInv, SysTypes
  <2>5. MemoryInv'
    BY <1>8a DEF RestoreErrno, KeepEntropy, CallerInv, MemoryInv
  <2>6. NothingLeft'
    BY <1>8a DEF RestoreErrno, KeepEntropy, NothingLeft, CallerInv, EntropyInv, MemoryInv, SysTypes
  <2>7. EntropyFull'
    BY <1>8a DEF RestoreErrno, KeepEntropy, EntropyFull, EntropyInv, SysTypes, gotdata
  <2>8. ChmodTold'
    BY <1>8a DEF RestoreErrno, KeepEntropy, ChmodTold, ChmodInv, CallerInv, SysTypes
  <2> QED
    BY <2>1, <2>2, <2>3, <2>4, <2>5, <2>6, <2>7, <2>8
<1>9. CASE CallDprintf
  <2>1. SysTypes'
    BY <1>9 DEF CallDprintf, KeepEntropy, SysTypes, Errnos, Printed
  <2>2. CallerInv'
    BY <1>9 DEF CallDprintf, KeepEntropy, CallerInv
  <2>3. EntropyInv'
    BY <1>9 DEF CallDprintf, KeepEntropy, CallerInv, EntropyInv, SysTypes
  <2>4. ChmodInv'
    BY <1>9 DEF CallDprintf, KeepEntropy, CallerInv, ChmodInv, SysTypes
  <2>5. MemoryInv'
    BY <1>9 DEF CallDprintf, KeepEntropy, CallerInv, MemoryInv
  <2>6. NothingLeft'
    <3> SUFFICES ASSUME NEW fn \in SysFunctions, Returned(fn)'
                 PROVE  held' = {} /\ ret' = -1
      BY DEF NothingLeft, SysFunctions
    <3> QED
      BY <1>9 DEF CallDprintf, KeepEntropy, CallerInv, SysTypes
  <2>7. EntropyFull'
    BY <1>9 DEF CallDprintf, KeepEntropy, EntropyFull, EntropyInv, SysTypes, gotdata
  <2>8. ChmodTold'
    BY <1>9 DEF CallDprintf, KeepEntropy, ChmodTold, ChmodInv, CallerInv, SysTypes
  <2> QED
    BY <2>1, <2>2, <2>3, <2>4, <2>5, <2>6, <2>7, <2>8
<1>10. CASE Fdopen
  <2>1. SysTypes'
    BY <1>10 DEF Fdopen, KeepEntropy, SysTypes, Errnos, Printed
  <2>2. CallerInv'
    BY <1>10 DEF Fdopen, KeepEntropy, CallerInv
  <2>3. EntropyInv'
    BY <1>10 DEF Fdopen, KeepEntropy, CallerInv, EntropyInv, SysTypes
  <2>4. ChmodInv'
    BY <1>10 DEF Fdopen, KeepEntropy, CallerInv, ChmodInv, SysTypes
  <2>5. MemoryInv'
    BY <1>10 DEF Fdopen, KeepEntropy, CallerInv, MemoryInv
  <2>6. NothingLeft'
    BY <1>10 DEF Fdopen, KeepEntropy, NothingLeft, CallerInv, EntropyInv, MemoryInv, SysTypes
  <2>7. EntropyFull'
    BY <1>10 DEF Fdopen, KeepEntropy, EntropyFull, EntropyInv, SysTypes, gotdata
  <2>8. ChmodTold'
    BY <1>10 DEF Fdopen, KeepEntropy, ChmodTold, ChmodInv, CallerInv, SysTypes
  <2> QED
    BY <2>1, <2>2, <2>3, <2>4, <2>5, <2>6, <2>7, <2>8
<1>11. CASE PrintAndClose
  <2>1. SysTypes'
    BY <1>11 DEF PrintAndClose, KeepEntropy, SysTypes, Errnos, Printed
  <2>2. CallerInv'
    BY <1>11 DEF PrintAndClose, KeepEntropy, CallerInv
  <2>3. EntropyInv'
    BY <1>11 DEF PrintAndClose, KeepEntropy, CallerInv, EntropyInv, SysTypes
  <2>4. ChmodInv'
    BY <1>11 DEF PrintAndClose, KeepEntropy, CallerInv, ChmodInv, SysTypes
  <2>5. MemoryInv'
    BY <1>11 DEF PrintAndClose, KeepEntropy, CallerInv, MemoryInv
  <2>6. NothingLeft'
    BY <1>11 DEF PrintAndClose, KeepEntropy, NothingLeft, CallerInv, EntropyInv, MemoryInv, SysTypes
  <2>7. EntropyFull'
    BY <1>11 DEF PrintAndClose, KeepEntropy, EntropyFull, EntropyInv, SysTypes, gotdata
  <2>8. ChmodTold'
    BY <1>11 DEF PrintAndClose, KeepEntropy, ChmodTold, ChmodInv, CallerInv, SysTypes
  <2> QED
    BY <2>1, <2>2, <2>3, <2>4, <2>5, <2>6, <2>7, <2>8
<1>12. CASE Measure
  <2>1. SysTypes'
    BY <1>12 DEF Measure, Keep, KeepEntropy, SysTypes, Errnos, Printed
  <2>2. CallerInv'
    BY <1>12 DEF Measure, Keep, KeepEntropy, CallerInv
  <2>3. EntropyInv'
    BY <1>12 DEF Measure, Keep, KeepEntropy, CallerInv, EntropyInv, SysTypes
  <2>4. ChmodInv'
    BY <1>12 DEF Measure, Keep, KeepEntropy, CallerInv, ChmodInv, SysTypes
  <2>5. MemoryInv'
    BY <1>12 DEF Measure, Keep, KeepEntropy, CallerInv, MemoryInv
  <2>6. NothingLeft'
    <3> SUFFICES ASSUME NEW fn \in SysFunctions, Returned(fn)'
                 PROVE  held' = {} /\ ret' = -1
      BY DEF NothingLeft, SysFunctions
    <3> QED
      BY <1>12 DEF Measure, Keep, KeepEntropy, CallerInv, SysTypes
  <2>7. EntropyFull'
    BY <1>12 DEF Measure, Keep, KeepEntropy, EntropyFull, EntropyInv, SysTypes, gotdata
  <2>8. ChmodTold'
    BY <1>12 DEF Measure, Keep, KeepEntropy, ChmodTold, ChmodInv, CallerInv, SysTypes
  <2> QED
    BY <2>1, <2>2, <2>3, <2>4, <2>5, <2>6, <2>7, <2>8
<1>13. CASE PrintAll
  <2>1. SysTypes'
    BY <1>13 DEF PrintAll, Keep, KeepEntropy, SysTypes, Errnos, Printed
  <2>2. CallerInv'
    BY <1>13 DEF PrintAll, Keep, KeepEntropy, CallerInv
  <2>3. EntropyInv'
    BY <1>13 DEF PrintAll, Keep, KeepEntropy, CallerInv, EntropyInv, SysTypes
  <2>4. ChmodInv'
    BY <1>13 DEF PrintAll, Keep, KeepEntropy, CallerInv, ChmodInv, SysTypes
  <2>5. MemoryInv'
    BY <1>13 DEF PrintAll, Keep, KeepEntropy, CallerInv, MemoryInv
  <2>6. NothingLeft'
    BY <1>13 DEF PrintAll, Keep, KeepEntropy, NothingLeft, CallerInv, EntropyInv, MemoryInv, SysTypes
  <2>7. EntropyFull'
    BY <1>13 DEF PrintAll, Keep, KeepEntropy, EntropyFull, EntropyInv, SysTypes, gotdata
  <2>8. ChmodTold'
    BY <1>13 DEF PrintAll, Keep, KeepEntropy, ChmodTold, ChmodInv, CallerInv, SysTypes
  <2> QED
    BY <2>1, <2>2, <2>3, <2>4, <2>5, <2>6, <2>7, <2>8
<1>14. CASE reallocf
  <2>1. SysTypes'
    BY <1>14 DEF reallocf, Keep, KeepEntropy, SysTypes, Errnos, Printed
  <2>2. CallerInv'
    BY <1>14 DEF reallocf, Keep, KeepEntropy, CallerInv
  <2>3. EntropyInv'
    BY <1>14 DEF reallocf, Keep, KeepEntropy, CallerInv, EntropyInv, SysTypes
  <2>4. ChmodInv'
    BY <1>14 DEF reallocf, Keep, KeepEntropy, CallerInv, ChmodInv, SysTypes
  <2>5. MemoryInv'
    BY <1>14 DEF reallocf, Keep, KeepEntropy, CallerInv, MemoryInv
  <2>6. NothingLeft'
    BY <1>14 DEF reallocf, Keep, KeepEntropy, NothingLeft, CallerInv, EntropyInv, MemoryInv, SysTypes
  <2>7. EntropyFull'
    BY <1>14 DEF reallocf, Keep, KeepEntropy, EntropyFull, EntropyInv, SysTypes, gotdata
  <2>8. ChmodTold'
    BY <1>14 DEF reallocf, Keep, KeepEntropy, ChmodTold, ChmodInv, CallerInv, SysTypes
  <2> QED
    BY <2>1, <2>2, <2>3, <2>4, <2>5, <2>6, <2>7, <2>8
<1>15. CASE FreeOld
  <2>1. SysTypes'
    BY <1>15 DEF FreeOld, Keep, KeepEntropy, SysTypes, Errnos, Printed
  <2>2. CallerInv'
    BY <1>15 DEF FreeOld, Keep, KeepEntropy, CallerInv
  <2>3. EntropyInv'
    BY <1>15 DEF FreeOld, Keep, KeepEntropy, CallerInv, EntropyInv, SysTypes
  <2>4. ChmodInv'
    BY <1>15 DEF FreeOld, Keep, KeepEntropy, CallerInv, ChmodInv, SysTypes
  <2>5. MemoryInv'
    BY <1>15 DEF FreeOld, Keep, KeepEntropy, CallerInv, MemoryInv
  <2>6. NothingLeft'
    BY <1>15 DEF FreeOld, Keep, KeepEntropy, NothingLeft, CallerInv, EntropyInv, MemoryInv, SysTypes
  <2>7. EntropyFull'
    BY <1>15 DEF FreeOld, Keep, KeepEntropy, EntropyFull, EntropyInv, SysTypes, gotdata
  <2>8. ChmodTold'
    BY <1>15 DEF FreeOld, Keep, KeepEntropy, ChmodTold, ChmodInv, CallerInv, SysTypes
  <2> QED
    BY <2>1, <2>2, <2>3, <2>4, <2>5, <2>6, <2>7, <2>8
<1>16. CASE UNCHANGED sysVars
  BY <1>16 DEF sysVars, SysTypes, CallerInv, EntropyInv, ChmodInv, MemoryInv, NothingLeft,
     EntropyFull, ChmodTold, gotdata
<1> QED
  BY <1>1, <1>2, <1>3, <1>4, <1>5, <1>6, <1>7, <1>8, <1>8a, <1>9, <1>10, <1>11, <1>12, <1>13, <1>14, <1>15, <1>16 DEF SysNext

(* getentropy, fchmodat, dprintf, vasprintf and reallocf keep this         *)
(* invariant, whichever of their calls fail and however short reads are.   *)
LEMMA SysInvariant == SysSpec => []SysInv
BY SysInitially, SysStep, PTL DEF SysSpec

(* A call that returns has closed and freed all it had except what it      *)
(* hands out; getentropy succeeds only with a buffer one device has filled *)
(* to its end and fails only if too much is asked for or both devices      *)
(* failed, with EIO or what the printing of its message left in errno;     *)
(* fchmodat succeeds exactly when the mode has changed, and errno is never *)
(* that of its close.                                                      *)
THEOREM CallsAreAccounted == SysSpec => []CallsAccounted
<1>1. SysInv => CallsAccounted
  BY DEF SysInv
<1> QED
  BY <1>1, SysInvariant, PTL

-----------------------------------------------------------------------------
(* Words.                                                                  *)

(* A number is its quotient and its remainder.                             *)
LEMMA DivMod ==
  ASSUME NEW a \in Int, NEW b \in Int, b > 0
  PROVE  /\ a \div b \in Int /\ a % b \in Int
         /\ 0 <= a % b /\ a % b < b /\ a = b * (a \div b) + (a % b)
<1>1. a = b * (a \div b) + (a % b)
  OBVIOUS
<1> QED
  BY <1>1

(* And no other pair: what is below the divisor is the remainder.          *)
LEMMA DivModUnique ==
  ASSUME NEW a \in Int, NEW b \in Int, b > 0, NEW q \in Int, NEW k \in Int, 0 <= k, k < b,
         a = b * q + k
  PROVE  a % b = k /\ a \div b = q
OBVIOUS

(* One more is a whole divisor more.                                       *)
LEMMA MulStep ==
  ASSUME NEW b \in Int, b > 0, NEW q \in Int, NEW r \in Int, q < r
  PROVE  b * q + b <= b * r
OBVIOUS

(* The larger and the smaller of two numbers.                              *)
LEMMA MaxOfTwo ==
  ASSUME NEW a \in Int, NEW b \in Int
  PROVE  Max({a, b}) = (IF a >= b THEN a ELSE b) /\ Min({a, b}) = (IF a <= b THEN a ELSE b)
<1>1. Max({a, b}) = IF a >= b THEN a ELSE b
  BY DEF Max
<1>2. Min({a, b}) = IF a <= b THEN a ELSE b
  BY DEF Min
<1> QED
  BY <1>1, <1>2

(* The square of half the bits.                                            *)
LEMMA WordType == Word \in Nat /\ Word > RootSize /\ RootSize > 1 /\ RootSize \in Nat
<1>1. RootSize \in Nat /\ RootSize > 1
  BY NumbersAssumption
<1>2. RootSize * 1 + RootSize <= RootSize * RootSize
  BY <1>1, MulStep
<1> QED
  BY <1>1, <1>2 DEF Word

-----------------------------------------------------------------------------
(* arc4random_uniform.                                                     *)

(* The numbers that are kept begin at the remainder of the word.           *)
LEMMA KeptFrom ==
  ASSUME NEW b \in Int, b > 1, b < Word, NEW r \in Int
  PROVE  Kept(r, b) <=> r >= Word % b
<1>1. Word \in Int /\ Word > 0
  BY WordType
<1>2. (Word - b) % Word = Word - b
  <2>1. Word - b = Word * 0 + (Word - b)
    BY <1>1
  <2> QED
    BY <1>1, <2>1, DivModUnique
<1>3. Word - b = b * (Word \div b - 1) + (Word % b)
  BY <1>1, DivMod
<1>4. (Word - b) % b = Word % b
  <2>1. Word \div b - 1 \in Int /\ Word % b \in Int /\ 0 <= Word % b /\ Word % b < b
    BY <1>1, DivMod
  <2> DEFINE q == Word \div b - 1
             m == Word % b
             a == Word - b
  <2>2. a \in Int /\ q \in Int /\ m \in Int /\ 0 <= m /\ m < b /\ a = b * q + m
    BY <1>1, <1>3, <2>1
  <2> HIDE DEF q, m, a
  <2>3. a % b = m
    BY <2>2, DivModUnique
  <2> QED
    BY <2>3 DEF a, m
<1> QED
  BY <1>2, <1>4 DEF Kept

(* For every bound, each number below it is what equally many of the words *)
(* that are kept lead to: the q-th of them is q times the bound away.      *)
LEMMA FairDraw ==
  ASSUME NEW b \in Int, b > 1, b < Word, NEW k \in 0..(b - 1)
  PROVE  Cardinality({r \in 0..(Word - 1) : Kept(r, b) /\ r % b = k}) = Word \div b
<1> DEFINE m == Word % b
           fair == Word \div b
           S == {r \in 0..(Word - 1) : Kept(r, b) /\ r % b = k}
           shift == IF k < m THEN 1 ELSE 0
           f == [q \in 0..(fair - 1) |-> b * (q + shift) + k]
<1>1. Word \in Int /\ m \in Int /\ fair \in Int /\ 0 <= m /\ m < b /\ Word = b * fair + m
  BY WordType, DivMod
<1>2. fair >= 0
  <2> SUFFICES ASSUME fair < 0 PROVE FALSE
    BY <1>1
  <2>1. b * fair + b <= b * 0
    BY <1>1, MulStep
  <2> QED
    BY <1>1, <2>1, WordType
<1>3. \A r \in Int : Kept(r, b) <=> r >= m
  BY KeptFrom
<1> HIDE DEF m, fair
<1>4. f \in [0..(fair - 1) -> S]
  <2> SUFFICES ASSUME NEW q \in 0..(fair - 1)
               PROVE  b * (q + shift) + k \in S
    OBVIOUS
  <2>1. q \in Int /\ shift \in Int /\ k \in Int /\ 0 <= k /\ k < b
    OBVIOUS
  <2>2. (b * (q + shift) + k) % b = k
    <3> DEFINE d == q + shift
               a == b * d + k
    <3>1. d \in Int /\ a \in Int /\ a = b * d + k
      BY <2>1
    <3> HIDE DEF d, a
    <3>2. a % b = k
      BY <2>1, <3>1, DivModUnique
    <3> QED
      BY <3>2 DEF a, d
  <2>3. b * (q + shift) \in Int
    BY <2>1
  <2>4. b * (q + shift) >= b * shift
    BY <2>1
  <2>5. b * shift + k >= m
    BY <1>1, <2>1
  <2>6. b * (q + 1) <= b * fair
    BY <1>1, <2>1
  <2>7. b * (q + shift) + k < b * fair + m
    BY <1>1, <2>1, <2>6
  <2> HIDE DEF shift
  <2>8. b * (q + shift) + k \in 0..(Word - 1)
    BY <1>1, <2>1, <2>3, <2>4, <2>5, <2>7
  <2>9. Kept(b * (q + shift) + k, b)
    BY <1>1, <1>3, <2>1, <2>3, <2>4, <2>5
  <2> QED
    BY <2>2, <2>8, <2>9
<1>5. ASSUME NEW p \in 0..(fair - 1), NEW q \in 0..(fair - 1), f[p] = f[q]
      PROVE  p = q
  <2>1. b * (p + shift) = b * (q + shift)
    BY <1>5
  <2>2. (p + shift) \in Int /\ (q + shift) \in Int
    OBVIOUS
  <2>3. p + shift = q + shift
    BY <2>1, <2>2, MulStep
  <2> QED
    BY <2>3
<1>6. ASSUME NEW r \in S
      PROVE  \E q \in 0..(fair - 1) : f[q] = r
  <2>1. r \in Int /\ 0 <= r /\ r < Word /\ r >= m /\ r % b = k
    BY <1>1, <1>3
  <2> DEFINE d == r \div b
  <2>2. d \in Int /\ r = b * d + k
    BY <2>1, DivMod
  <2> HIDE DEF d
  <2>3. d - shift >= 0
    <3> SUFFICES ASSUME d < shift PROVE FALSE
      BY <2>2
    <3>1. b * d + b <= b * shift
      BY <2>2, MulStep
    <3>2. CASE k < m
      BY <3>1, <3>2, <2>1, <2>2, <1>1
    <3>3. CASE ~(k < m)
      BY <3>1, <3>3, <2>1, <2>2, <1>1
    <3> QED
      BY <3>2, <3>3
  <2>4. d - shift < fair
    <3> SUFFICES ASSUME d - shift >= fair PROVE FALSE
      BY <2>2, <1>1
    <3>1. CASE k < m
      <4>1. b * fair + b <= b * d
        BY <3>1, <1>1, <2>2, MulStep
      <4> QED
        BY <4>1, <2>1, <2>2, <1>1
    <3>2. CASE ~(k < m)
      <4>1. d = fair \/ b * fair + b <= b * d
        BY <3>2, <1>1, <2>2, MulStep
      <4> QED
        BY <3>2, <4>1, <2>1, <2>2, <1>1
    <3> QED
      BY <3>1, <3>2
  <2>5. d - shift \in 0..(fair - 1)
    BY <2>2, <2>3, <2>4, <1>1
  <2>6. f[d - shift] = r
    <3>1. (d - shift) + shift = d
      BY <2>2
    <3> QED
      BY <2>2, <2>5, <3>1
  <2> QED
    BY <2>5, <2>6
<1>7. ExistsBijection(0..(fair - 1), S)
  <2>1. f \in Bijection(0..(fair - 1), S)
    BY <1>4, <1>5, <1>6 DEF Bijection, Injection, Surjection, IsInjective
  <2> QED
    BY <2>1 DEF ExistsBijection
<1>8. IsFiniteSet(0..(fair - 1)) /\ Cardinality(0..(fair - 1)) = fair
  BY <1>1, <1>2, FS_Interval
<1>9. Cardinality(S) = fair
  BY <1>7, <1>8, FS_Bijection
<1> QED
  BY <1>9 DEF fair

-----------------------------------------------------------------------------
(* reallocarray and strtonum.                                              *)

(* The quotient tells whether the product passes a limit.                  *)
LEMMA QuotientTells ==
  ASSUME NEW n \in Int, n > 0, NEW s \in Int, NEW w \in Int
  PROVE  w \div n < s <=> w < n * s
<1> DEFINE q == w \div n
           k == w % n
<1>1. q \in Int /\ k \in Int /\ 0 <= k /\ k < n /\ w = n * q + k
  BY DivMod
<1> HIDE DEF q, k
<1>2. CASE q < s
  <2>1. n * q + n <= n * s
    BY <1>2, <1>1, MulStep
  <2> QED
    BY <1>1, <1>2, <2>1 DEF q
<1>3. CASE ~(q < s)
  <2>1. n * s <= n * q
    BY <1>3, <1>1
  <2> QED
    BY <1>1, <1>3, <2>1 DEF q
<1> QED
  BY <1>2, <1>3

(* reallocarray refuses exactly the products that are no word.             *)
LEMMA OverflowExact ==
  ASSUME NEW n \in Nat, NEW s \in Nat
  PROVE  Overflows(n, s) <=> n * s >= Word
<1>1. RootSize \in Nat /\ RootSize > 1 /\ Word \in Nat /\ Word > 0
  BY WordType
<1>2. n * s \in Nat
  OBVIOUS
<1>3. CASE n < RootSize /\ s < RootSize
  <2>1. n * s < RootSize * RootSize
    BY <1>1, <1>3
  <2> QED
    BY <1>1, <1>2, <1>3, <2>1 DEF Overflows, Word
<1>4. CASE n = 0
  BY <1>1, <1>4 DEF Overflows
<1>5. CASE n > 0 /\ ~(n < RootSize /\ s < RootSize)
  <2>1. Word - 1 \in Int
    BY <1>1
  <2>2. (Word - 1) \div n < s <=> Word - 1 < n * s
    BY <1>5, <2>1, QuotientTells
  <2>3. Word - 1 < n * s <=> n * s >= Word
    BY <1>1, <1>2
  <2> QED
    BY <1>1, <1>5, <2>2, <2>3 DEF Overflows
<1> QED
  BY <1>3, <1>4, <1>5

(* strtonum has no error exactly for a number in the range, and the error  *)
(* it has for another says on which side of it the number is.              *)
LEMMA ErrorsExact ==
  ASSUME NEW v \in Int, NEW isnumber \in BOOLEAN,
         NEW low \in LLONG_MIN..LLONG_MAX, NEW high \in LLONG_MIN..LLONG_MAX
  PROVE  LET error == Errors(v, isnumber, low, high)
         IN  /\ error = "none" <=> isnumber /\ v \in low..high
             /\ error = "none" => strtoll(v).ll = v
             /\ error = "too small" => v < low
             /\ error = "too large" => v > high
<1>1. LLONG_MAX \in Int /\ LLONG_MIN \in Int /\ LLONG_MIN < LLONG_MAX /\ low \in Int /\ high \in Int
      /\ LLONG_MIN <= low /\ low <= LLONG_MAX /\ LLONG_MIN <= high /\ high <= LLONG_MAX
  BY NumbersAssumption DEF LLONG_MIN
<1> DEFINE ll == strtoll(v).ll
           out == strtoll(v).ERANGE
<1>2. ll = IF v < LLONG_MIN THEN LLONG_MIN ELSE IF v > LLONG_MAX THEN LLONG_MAX ELSE v
  <2>1. Min({LLONG_MAX, v}) = IF v > LLONG_MAX THEN LLONG_MAX ELSE v
    BY <1>1, MaxOfTwo
  <2> DEFINE u == Min({LLONG_MAX, v})
  <2>2. u \in Int
    BY <1>1, <2>1
  <2> HIDE DEF u
  <2>3. Max({LLONG_MIN, u}) = IF LLONG_MIN >= u THEN LLONG_MIN ELSE u
    BY <1>1, <2>2, MaxOfTwo
  <2>4. ll = Max({LLONG_MIN, u})
    BY DEF strtoll, u
  <2> QED
    BY <1>1, <2>1, <2>3, <2>4 DEF u
<1>3. out = (v \notin LLONG_MIN..LLONG_MAX)
  BY DEF strtoll
<1> DEFINE error == Errors(v, isnumber, low, high)
           invalid == low > high \/ ~isnumber
           small == (ll = LLONG_MIN /\ out) \/ ll < low
           large == (ll = LLONG_MAX /\ out) \/ ll > high
<1>4. error = IF invalid THEN "invalid" ELSE IF small THEN "too small"
              ELSE IF large THEN "too large" ELSE "none"
  BY DEF Errors
<1>5. small <=> v < low
  <2>1. CASE v \in LLONG_MIN..LLONG_MAX
    <3>1. ~out
      BY <1>3, <2>1, Zenon
    <3> QED
      BY <1>1, <1>2, <2>1, <3>1
  <2>2. CASE v \notin LLONG_MIN..LLONG_MAX
    <3>1. out
      BY <1>3, <2>2, Zenon
    <3>2. (v < LLONG_MIN /\ ll = LLONG_MIN) \/ (v > LLONG_MAX /\ ll = LLONG_MAX)
      BY <1>1, <1>2, <2>2
    <3> HIDE DEF ll, out
    <3> QED
      BY <1>1, <3>1, <3>2
  <2> QED
    BY <2>1, <2>2
<1>6. large <=> v > high
  <2>1. CASE v \in LLONG_MIN..LLONG_MAX
    <3>1. ~out
      BY <1>3, <2>1, Zenon
    <3> QED
      BY <1>1, <1>2, <2>1, <3>1
  <2>2. CASE v \notin LLONG_MIN..LLONG_MAX
    <3>1. out
      BY <1>3, <2>2, Zenon
    <3>2. (v < LLONG_MIN /\ ll = LLONG_MIN) \/ (v > LLONG_MAX /\ ll = LLONG_MAX)
      BY <1>1, <1>2, <2>2
    <3> HIDE DEF ll, out
    <3> QED
      BY <1>1, <3>1, <3>2
  <2> QED
    BY <2>1, <2>2
<1>7. ~invalid /\ ~small /\ ~large <=> isnumber /\ v \in low..high
  BY <1>1, <1>5, <1>6
<1>8. ~small /\ ~large /\ ~invalid => ll = v
  BY <1>1, <1>2, <1>5, <1>6
<1> HIDE DEF invalid, small, large, error, ll
<1>9. /\ error = "none" <=> ~invalid /\ ~small /\ ~large
      /\ error = "too small" => small
      /\ error = "too large" => large
  BY <1>4
<1> QED
  BY <1>5, <1>6, <1>7, <1>8, <1>9 DEF error, ll

-----------------------------------------------------------------------------
(* Numbers.                                                                *)

(* What each function has been given and returns, whichever is called: a   *)
(* bound below 2 needs no draw, a draw that is kept is below the bound.    *)
UniformInv ==
  nph = "uniform" =>
    /\ num \in [bound : 0..(Word - 1), ret : -1..(Word - 1)]
    /\ num.ret = -1 => num.bound > 1
    /\ num.ret = -1 \/ num.ret = 0 \/ num.ret < num.bound

NumInv == UniformInv /\ NumbersExact

(* No function has been called.                                            *)
LEMMA NumInitially == NumInit => NumInv
BY DEF NumInit, NumInv, UniformInv, NumbersExact

(* Every call and every draw keep the invariant.                           *)
LEMMA NumStep == NumInv /\ [NumNext]_numVars => NumInv'
<1> SUFFICES ASSUME NumInv, [NumNext]_numVars PROVE NumInv'
  OBVIOUS
<1>1. CASE timegm
  <2>1. nph' \in {"timegm", "EOVERFLOW", "outside"}
    BY <1>1 DEF timegm
  <2> QED
    BY <2>1 DEF NumInv, UniformInv, NumbersExact
<1>2. CASE arc4random_uniform
  <2>1. nph' = "uniform"
    BY <1>2 DEF arc4random_uniform
  <2>2. UniformInv'
    <3>1. CASE nph = "idle"
      <4>1. PICK b \in 0..(Word - 1) :
              num' = [bound |-> b, ret |-> IF b < 2 THEN 0 ELSE -1]
        BY <1>2, <3>1 DEF arc4random_uniform
      <4>2. Word \in Nat /\ Word > 0
        BY WordType
      <4> QED
        BY <4>1, <4>2 DEF UniformInv
    <3>2. CASE nph = "uniform"
      <4>1. PICK r \in 0..(Word - 1) :
              num' = IF Kept(r, num.bound) THEN [num EXCEPT !.ret = r % num.bound] ELSE num
        BY <1>2, <3>2 DEF arc4random_uniform
      <4>2. /\ num \in [bound : 0..(Word - 1), ret : -1..(Word - 1)]
            /\ num.bound > 1 /\ num.bound \in Int /\ num.bound < Word
        BY <1>2, <3>2, WordType DEF arc4random_uniform, NumInv, UniformInv
      <4>3. r % num.bound \in Int /\ 0 <= r % num.bound /\ r % num.bound < num.bound
        BY <4>2, DivMod
      <4>4. r % num.bound \in -1..(Word - 1)
        BY <4>2, <4>3, WordType
      <4>5. CASE num' = num
        BY <2>1, <4>2, <4>5, <3>2 DEF NumInv, UniformInv
      <4>6. CASE num' = [num EXCEPT !.ret = r % num.bound]
        <5>1. num'.bound = num.bound /\ num'.ret = r % num.bound
          BY <4>2, <4>6
        <5>2. num' \in [bound : 0..(Word - 1), ret : -1..(Word - 1)]
          BY <4>2, <4>4, <4>6
        <5> QED
          BY <4>2, <4>3, <5>1, <5>2 DEF UniformInv
      <4> QED
        BY <4>1, <4>5, <4>6
    <3> QED
      BY <1>2, <3>1, <3>2 DEF arc4random_uniform
  <2>3. NumbersExact'
    <3>1. num'.bound > 1 => \A k \in 0..(num'.bound - 1) :
            Cardinality({r \in 0..(Word - 1) : Kept(r, num'.bound) /\ r % num'.bound = k})
              = Word \div num'.bound
      <4> SUFFICES ASSUME num'.bound > 1, NEW k \in 0..(num'.bound - 1)
                   PROVE  Cardinality({r \in 0..(Word - 1) :
                            Kept(r, num'.bound) /\ r % num'.bound = k}) = Word \div num'.bound
        OBVIOUS
      <4>1. num'.bound \in Int /\ num'.bound < Word
        BY <2>1, <2>2, WordType DEF UniformInv
      <4> QED
        BY <4>1, FairDraw
    <3>2. num'.ret = -1 \/ num'.ret \in 0..Max({num'.bound - 1, 0})
      <4>1. /\ num'.bound \in Int /\ num'.bound >= 0 /\ num'.ret \in Int /\ num'.ret >= -1
            /\ num'.ret = -1 \/ num'.ret = 0 \/ num'.ret < num'.bound
        BY <2>1, <2>2 DEF UniformInv
      <4>2. Max({num'.bound - 1, 0}) = IF num'.bound - 1 >= 0 THEN num'.bound - 1 ELSE 0
        BY <4>1, MaxOfTwo
      <4> QED
        BY <4>1, <4>2
    <3> QED
      BY <2>1, <3>1, <3>2 DEF NumbersExact
  <2> QED
    BY <2>2, <2>3 DEF NumInv
<1>3. CASE reallocarray
  <2>1. nph' = "reallocarray"
    BY <1>3 DEF reallocarray
  <2>2. PICK n \in 0..(Word - 1), s \in 0..(Word - 1) :
          num' = [nmemb |-> n, size |-> s,
                  ret |-> IF Overflows(n, s) THEN -1 ELSE (s * n) % Word]
    BY <1>3 DEF reallocarray
  <2>3. n \in Nat /\ s \in Nat /\ n * s \in Nat /\ n * s = s * n
    OBVIOUS
  <2>4. Overflows(n, s) <=> n * s >= Word
    BY <2>3, OverflowExact
  <2>5. n * s < Word => (s * n) % Word = n * s
    <3> DEFINE p == n * s
    <3> SUFFICES ASSUME p < Word PROVE p % Word = p
      BY <2>3
    <3>1. p \in Int /\ 0 <= p /\ p = Word * 0 + p /\ Word \in Int /\ Word > 0
      BY <2>3, WordType
    <3> HIDE DEF p
    <3> QED
      BY <3>1, DivModUnique
  <2>6. num'.ret = IF n * s < Word THEN n * s ELSE -1
    BY <2>2, <2>3, <2>4, <2>5, WordType
  <2>7. num'.nmemb = n /\ num'.size = s
    BY <2>2
  <2> QED
    BY <2>1, <2>6, <2>7 DEF NumInv, UniformInv, NumbersExact
<1>4. CASE strtonum
  <2>1. nph' = "strtonum"
    BY <1>4 DEF strtonum
  <2>2. PICK v \in (LLONG_MIN - 2)..(LLONG_MAX + 2), isnumber \in BOOLEAN,
             low \in LLONG_MIN..LLONG_MAX, high \in LLONG_MIN..LLONG_MAX :
          num' = [v |-> v, isnumber |-> isnumber, min |-> low, max |-> high,
                  error |-> Errors(v, isnumber, low, high),
                  ret |-> IF Errors(v, isnumber, low, high) = "none" THEN strtoll(v).ll ELSE 0]
    BY <1>4 DEF strtonum
  <2> DEFINE error == Errors(v, isnumber, low, high)
  <2>3. v \in Int
    BY NumbersAssumption DEF LLONG_MIN
  <2>4. /\ error = "none" <=> isnumber /\ v \in low..high
        /\ error = "none" => strtoll(v).ll = v
        /\ error = "too small" => v < low
        /\ error = "too large" => v > high
    BY <2>3, ErrorsExact
  <2>5. /\ num'.v = v /\ num'.isnumber = isnumber /\ num'.min = low /\ num'.max = high
        /\ num'.error = error /\ num'.ret = IF error = "none" THEN strtoll(v).ll ELSE 0
    BY <2>2
  <2> HIDE DEF error
  <2> QED
    BY <2>1, <2>4, <2>5 DEF NumInv, UniformInv, NumbersExact
<1>5. CASE UNCHANGED numVars
  BY <1>5 DEF numVars, NumInv, UniformInv, NumbersExact
<1> QED
  BY <1>1, <1>2, <1>3, <1>4, <1>5 DEF NumNext

(* The functions of Numbers keep this invariant, in words of any size.     *)
LEMMA NumInvariant == NumSpec => []NumInv
BY NumInitially, NumStep, PTL DEF NumSpec

(* In words of any size: arc4random_uniform gives every number below its   *)
(* bound the same chance, reallocarray refuses exactly the products that   *)
(* do not fit, strtonum exactly the numbers outside the range.             *)
THEOREM NumbersAreExact == NumSpec => []NumbersExact
<1>1. NumInv => NumbersExact
  BY DEF NumInv
<1> QED
  BY <1>1, NumInvariant, PTL

-----------------------------------------------------------------------------
(* The calendar.                                                           *)

(* A set of positive numbers that is not empty has a smallest one.         *)
LEMMA MinProperties ==
  ASSUME NEW S \in SUBSET Nat, S # {}
  PROVE  Min(S) \in S /\ \A x \in S : Min(S) <= x
<1> DEFINE R == OpToRel(<, Nat)
<1>1. \A x, y \in Nat : x < y => <<x, y>> \in R
  BY DEF OpToRel
<1>2. IsWellFoundedOn(R, Nat)
  BY NatLessThanWellFounded
<1> HIDE DEF R
<1>3. PICK x \in S : \A y \in S : ~ (<<y, x>> \in R)
  BY <1>2, WFMin
<1>4. ASSUME NEW y \in S
      PROVE  x <= y
  <2>1. x \in Nat /\ y \in Nat
    OBVIOUS
  <2>2. ~ (<<y, x>> \in R)
    BY <1>3
  <2>3. ~ (y < x)
    BY <1>1, <2>1, <2>2
  <2> QED
    BY <2>1, <2>3
<1> QED
  BY <1>4 DEF Min

-----------------------------------------------------------------------------
(* timegm.                                                                 *)

(* A set of numbers up to n that is not empty has a largest one.           *)
LEMMA MaxProperties ==
  ASSUME NEW n \in Nat, NEW S \in SUBSET (0..n), S # {}
  PROVE  Max(S) \in S /\ \A x \in S : x <= Max(S)
<1> DEFINE T == {n - x : x \in S}
<1>1. T \in SUBSET Nat /\ T # {}
  <2>1. \A x \in S : n - x \in Nat
    OBVIOUS
  <2>2. \A y \in T : y \in Nat
    BY <2>1
  <2>3. T # {}
    OBVIOUS
  <2> HIDE DEF T
  <2> QED BY <2>2, <2>3
<1>2. Min(T) \in T /\ \A x \in T : Min(T) <= x
  <2> HIDE DEF T
  <2> QED BY <1>1, MinProperties
<1>3. PICK m \in S : n - m = Min(T)
  BY <1>2
<1>4. ASSUME NEW x \in S PROVE m >= x
  <2>1. n - m <= n - x
    BY <1>2, <1>3
  <2> QED BY <2>1
<1> QED
  BY <1>4 DEF Max

(* The leap years before a year, and the days from 1970 to its beginning.  *)
LeapsBefore(year) == (year + 1899) \div 4 - (year + 1899) \div 100 + (year + 1899) \div 400
FirstDay(year) == 365 * (year - 70) + LeapsBefore(year) - 477

(* The same of the years the loop backward goes over.                     *)
LEMMA MaxBackward ==
  ASSUME NEW S \in SUBSET (0..69), S # {}
  PROVE  Max(S) \in S /\ \A x \in S : x <= Max(S)
<1>1. PICK n \in Nat : n = 69
  OBVIOUS
<1>2. S \in SUBSET (0..n)
  BY <1>1
<1> QED BY <1>2, MaxProperties

(* Quotients and remainders of a year and the next one.                    *)
LEMMA NextQuotient ==
  ASSUME NEW y \in Nat
  PROVE  /\ (y + 1) \div 4 = y \div 4 + IF (y + 1) % 4 = 0 THEN 1 ELSE 0
         /\ (y + 1) \div 100 = y \div 100 + IF (y + 1) % 100 = 0 THEN 1 ELSE 0
         /\ (y + 1) \div 400 = y \div 400 + IF (y + 1) % 400 = 0 THEN 1 ELSE 0
OBVIOUS

(* A leap year has one more day.                                           *)
LEMMA YearLength ==
  ASSUME NEW year \in Nat
  PROVE  /\ FirstDay(year) \in Int /\ FirstDay(year + 1) \in Int
         /\ is_leapyear(year) \in BOOLEAN
         /\ FirstDay(year + 1) = FirstDay(year) + IF is_leapyear(year) THEN 366 ELSE 365
<1> DEFINE y == year + 1899
<1>1. y \in Nat /\ year + 1900 = y + 1 /\ (year + 1) + 1899 = y + 1
  OBVIOUS
<1>2. /\ (y + 1) \div 4 = y \div 4 + IF (y + 1) % 4 = 0 THEN 1 ELSE 0
      /\ (y + 1) \div 100 = y \div 100 + IF (y + 1) % 100 = 0 THEN 1 ELSE 0
      /\ (y + 1) \div 400 = y \div 400 + IF (y + 1) % 400 = 0 THEN 1 ELSE 0
  BY <1>1, NextQuotient
<1>3. /\ (y + 1) % 400 = 0 => (y + 1) % 100 = 0
      /\ (y + 1) % 100 = 0 => (y + 1) % 4 = 0
  BY <1>1
<1>4. y \div 4 \in Int /\ y \div 100 \in Int /\ y \div 400 \in Int
  BY <1>1
<1> QED
  BY <1>1, <1>2, <1>3, <1>4 DEF FirstDay, LeapsBefore, is_leapyear

(* The sums over years are that.                                           *)
LEMMA BeginsIs == \A y \in TimeYears : Begins[y] = 86400 * FirstDay(y)
<1> DEFINE g == [y \in TimeYears |-> 86400 * FirstDay(y)]
           rec(f) == [y \in TimeYears |->
                        IF y < 70 THEN f[y + 1] - seconds_per_year(y)
                        ELSE IF y = 70 THEN 0
                        ELSE f[y - 1] + seconds_per_year(y - 1)]
<1>1. \A y \in Nat : FirstDay(y) \in Int
  BY YearLength
<1>2. \A y \in Nat : 86400 * FirstDay(y + 1) = 86400 * FirstDay(y) + seconds_per_year(y)
                     /\ seconds_per_year(y) \in Int
  BY YearLength DEF seconds_per_year
<1>3. FirstDay(70) = 0
  BY DEF FirstDay, LeapsBefore
<1>4. g = rec(g)
  <2>1. ASSUME NEW y \in TimeYears PROVE g[y] = rec(g)[y]
    <3>1. CASE y < 70
      <4>1. y + 1 \in TimeYears /\ y \in Nat
        BY <3>1 DEF TimeYears
      <4>2. g[y] = 86400 * FirstDay(y) /\ g[y + 1] = 86400 * FirstDay(y + 1)
        BY <4>1
      <4> HIDE DEF g
      <4> QED BY <3>1, <4>1, <4>2, <1>1, <1>2
    <3>2. CASE y = 70
      BY <3>2, <1>3
    <3>3. CASE y > 70
      <4>1. y - 1 \in TimeYears /\ y - 1 \in Nat /\ (y - 1) + 1 = y
        BY <3>3 DEF TimeYears
      <4>2. g[y] = 86400 * FirstDay(y) /\ g[y - 1] = 86400 * FirstDay(y - 1)
        BY <4>1
      <4>3. 86400 * FirstDay(y) = 86400 * FirstDay(y - 1) + seconds_per_year(y - 1)
        BY <4>1, <1>2
      <4> HIDE DEF g
      <4> QED BY <3>3, <4>1, <4>2, <4>3
    <3> QED BY <3>1, <3>2, <3>3 DEF TimeYears
  <2> QED BY <2>1
<1>5. Begins = rec(Begins)
  <2>1. Begins = CHOOSE f : f = rec(f)
    BY DEF Begins
  <2> HIDE DEF g, rec
  <2> QED BY <1>4, <2>1
<1>6. /\ Begins[70] = 0
      /\ \A y \in TimeYears : y < 70 => Begins[y] = Begins[y + 1] - seconds_per_year(y)
      /\ \A y \in TimeYears : y > 70 => Begins[y] = Begins[y - 1] + seconds_per_year(y - 1)
  <2> HIDE DEF g
  <2>1. \A y \in TimeYears : Begins[y] = rec(Begins)[y]
    BY <1>5
  <2> QED BY <2>1 DEF TimeYears
<1> HIDE DEF g, rec
<1> DEFINE Right(y) == y \in TimeYears => Begins[y] = 86400 * FirstDay(y)
           S == {k \in Nat : ~ Right(70 + k) \/ ~ Right(70 - k)}
<1>7. Right(70)
  BY <1>3, <1>6
<1>8. ASSUME NEW y \in Int, Right(y - 1), y > 70 PROVE Right(y)
  <2> SUFFICES ASSUME y \in TimeYears PROVE Begins[y] = 86400 * FirstDay(y)
    OBVIOUS
  <2>1. y - 1 \in TimeYears /\ y - 1 \in Nat /\ (y - 1) + 1 = y
    BY <1>8 DEF TimeYears
  <2>2. Begins[y] = 86400 * FirstDay(y - 1) + seconds_per_year(y - 1)
    BY <2>1, <1>8, <1>6
  <2>3. 86400 * FirstDay(y) = 86400 * FirstDay(y - 1) + seconds_per_year(y - 1)
    BY <2>1, <1>2
  <2> QED BY <2>2, <2>3
<1>9. ASSUME NEW y \in Int, Right(y + 1), y < 70 PROVE Right(y)
  <2> SUFFICES ASSUME y \in TimeYears PROVE Begins[y] = 86400 * FirstDay(y)
    OBVIOUS
  <2>1. y + 1 \in TimeYears /\ y \in Nat
    BY <1>9 DEF TimeYears
  <2>2. Begins[y] = 86400 * FirstDay(y + 1) - seconds_per_year(y)
    BY <2>1, <1>9, <1>6
  <2>3. /\ 86400 * FirstDay(y + 1) = 86400 * FirstDay(y) + seconds_per_year(y)
        /\ seconds_per_year(y) \in Int /\ FirstDay(y) \in Int
    BY <2>1, <1>1, <1>2
  <2> QED BY <2>2, <2>3
<1> HIDE DEF Right
<1>10. S = {}
  <2>1. S \in SUBSET Nat /\ \A k \in Nat : k \in S <=> ~ Right(70 + k) \/ ~ Right(70 - k)
    OBVIOUS
  <2> HIDE DEF S
  <2> SUFFICES ASSUME S # {} PROVE FALSE
    OBVIOUS
  <2>2. PICK k \in S : \A j \in S : k <= j
    <3>1. Min(S) \in S /\ \A x \in S : Min(S) <= x
      BY <2>1, MinProperties
    <3> QED BY <3>1
  <2>3. k \in Nat /\ (~ Right(70 + k) \/ ~ Right(70 - k))
    BY <2>1
  <2>4. k # 0
    <3> SUFFICES ASSUME k = 0 PROVE FALSE
      OBVIOUS
    <3>1. 70 + k = 70 /\ 70 - k = 70
      OBVIOUS
    <3> QED BY <3>1, <2>3, <1>7
  <2>5. k - 1 \in Nat /\ ~ (k <= k - 1)
    BY <2>3, <2>4
  <2>6. Right(70 + (k - 1)) /\ Right(70 - (k - 1))
    BY <2>5, <2>1, <2>2
  <2>7. /\ 70 + (k - 1) = (70 + k) - 1 /\ 70 + k > 70 /\ 70 + k \in Int
        /\ 70 - (k - 1) = (70 - k) + 1 /\ 70 - k < 70 /\ 70 - k \in Int
    BY <2>3, <2>5
  <2>8. Right((70 + k) - 1) /\ Right((70 - k) + 1)
    BY <2>6, <2>7
  <2> QED BY <2>3, <2>7, <2>8, <1>8, <1>9
<1>11. ASSUME NEW y \in TimeYears PROVE Right(y)
  <2> SUFFICES ASSUME ~ Right(y) PROVE FALSE
    OBVIOUS
  <2>1. CASE y >= 70
    <3>1. y - 70 \in Nat /\ 70 + (y - 70) = y
      BY <2>1 DEF TimeYears
    <3>2. y - 70 \in S
      BY <3>1
    <3> QED BY <3>2, <1>10
  <2>2. CASE y < 70
    <3>1. 70 - y \in Nat /\ 70 - (70 - y) = y
      BY <2>2 DEF TimeYears
    <3>2. 70 - y \in S
      BY <3>1
    <3> QED BY <3>2, <1>10
  <2> QED BY <2>1, <2>2 DEF TimeYears
<1> QED BY <1>11 DEF Right

(* The first day of a year, and of a month in it.                          *)
LEMMA MonthBegins ==
  ASSUME NEW year \in Nat, NEW mon \in 0..11, NEW mday \in Int
  PROVE  /\ days_past(is_leapyear(year))[mon + 1] \in Int
         /\ CivilDay(year, mon, mday)
              = FirstDay(year) + days_past(is_leapyear(year))[mon + 1] + mday - 1
<1> DEFINE y == year + 1899
<1>1. y \in Nat /\ year + 1900 = y + 1
  OBVIOUS
<1>2. /\ (y + 1) \div 4 = y \div 4 + IF (y + 1) % 4 = 0 THEN 1 ELSE 0
      /\ (y + 1) \div 100 = y \div 100 + IF (y + 1) % 100 = 0 THEN 1 ELSE 0
      /\ (y + 1) \div 400 = y \div 400 + IF (y + 1) % 400 = 0 THEN 1 ELSE 0
  BY <1>1, NextQuotient
<1>3. /\ (y + 1) % 400 = 0 => (y + 1) % 100 = 0
      /\ (y + 1) % 100 = 0 => (y + 1) % 4 = 0
  BY <1>1
<1>4. y \div 4 \in Int /\ y \div 100 \in Int /\ y \div 400 \in Int
  BY <1>1
<1> DEFINE quarters == y \div 4 - y \div 100 + y \div 400
           more == IF is_leapyear(year) THEN 1 ELSE 0
           march(m) == (153 * ((m + 10) % 12) + 2) \div 5
<1>5. /\ quarters \in Int /\ FirstDay(year) = 365 * y + quarters - 719162
      /\ (y + 1) \div 4 - (y + 1) \div 100 + (y + 1) \div 400 = quarters + more
  <2>1. FirstDay(year) = 365 * y + quarters - 719162
    BY <1>4 DEF FirstDay, LeapsBefore
  <2>2. (y + 1) \div 4 - (y + 1) \div 100 + (y + 1) \div 400 = quarters + more
    BY <1>1, <1>2, <1>3, <1>4 DEF is_leapyear
  <2> QED BY <1>4, <2>1, <2>2
<1>6. CivilDay(year, mon, mday)
       = IF mon < 2 THEN 365 * y + quarters + march(mon) + mday - 719469
         ELSE 365 * (y + 1) + (quarters + more) + march(mon) + mday - 719469
  <2>1. CASE mon < 2
    <3>1. year + 1900 - (IF mon < 2 THEN 1 ELSE 0) = y
      BY <2>1
    <3> QED BY <2>1, <3>1, <1>4 DEF CivilDay
  <2>2. CASE ~ (mon < 2)
    <3>1. year + 1900 - (IF mon < 2 THEN 1 ELSE 0) = y + 1
      BY <2>2
    <3>2. /\ (y + 1) \div 4 \in Int /\ (y + 1) \div 100 \in Int /\ (y + 1) \div 400 \in Int
          /\ march(mon) \in Int
      BY <1>1
    <3>3. CivilDay(year, mon, mday)
            = 365 * (y + 1) + (y + 1) \div 4 - (y + 1) \div 100 + (y + 1) \div 400
                + march(mon) + mday - 719469
      BY <3>1 DEF CivilDay
    <3> HIDE DEF quarters, more, march
    <3> QED BY <2>2, <3>2, <3>3, <1>1, <1>5
  <2> QED BY <2>1, <2>2
<1>7. /\ march(0) = 306 /\ march(1) = 337 /\ march(2) = 0 /\ march(3) = 31
      /\ march(4) = 61 /\ march(5) = 92 /\ march(6) = 122 /\ march(7) = 153
      /\ march(8) = 184 /\ march(9) = 214 /\ march(10) = 245 /\ march(11) = 275
  OBVIOUS
<1>8. is_leapyear(year) \in BOOLEAN
  BY YearLength
<1> HIDE DEF y, quarters, march
<1>9. \/ mon = 0 \/ mon = 1 \/ mon = 2 \/ mon = 3 \/ mon = 4 \/ mon = 5
      \/ mon = 6 \/ mon = 7 \/ mon = 8 \/ mon = 9 \/ mon = 10 \/ mon = 11
  OBVIOUS
<1>10. CASE is_leapyear(year)
  <2>1. more = 1
    BY <1>10
  <2> HIDE DEF more
  <2> QED BY <1>1, <1>5, <1>6, <1>7, <1>9, <1>10, <2>1 DEF days_past
<1>11. CASE ~ is_leapyear(year)
  <2>1. more = 0
    BY <1>11
  <2> HIDE DEF more
  <2> QED BY <1>1, <1>5, <1>6, <1>7, <1>9, <1>11, <2>1 DEF days_past
<1> QED BY <1>10, <1>11

(* The loops over years find the year of a time, forward and backward.     *)
LEMMA YearFound ==
  ASSUME NEW time \in Int, 86400 * FirstDay(2) <= time, time < 86400 * FirstDay(138)
  PROVE  LET y == YearOf(time)
         IN  /\ y.year \in 2..137 /\ y.left = time - 86400 * FirstDay(y.year)
             /\ y.left \in Int /\ 0 <= y.left /\ y.left < seconds_per_year(y.year)
<1> DEFINE counter(y) == time - Begins[y]
           forward == {y \in 70..137 : counter(y) - seconds_per_year(y) < 0}
           backward == {y \in 2..69 : counter(y + 1) + seconds_per_year(y) >= 0}
<1>1. \A y \in 2..138 : counter(y) = time - 86400 * FirstDay(y)
  BY BeginsIs DEF TimeYears
<1>2. ASSUME NEW y \in 2..137
      PROVE  /\ counter(y) - seconds_per_year(y) = time - 86400 * FirstDay(y + 1)
             /\ counter(y + 1) + seconds_per_year(y) = time - 86400 * FirstDay(y)
             /\ FirstDay(y) \in Int /\ FirstDay(y + 1) \in Int /\ seconds_per_year(y) \in Int
             /\ 86400 * FirstDay(y + 1) = 86400 * FirstDay(y) + seconds_per_year(y)
  <2>1. y \in Nat /\ y \in 2..138 /\ y + 1 \in 2..138
    OBVIOUS
  <2>2. /\ FirstDay(y) \in Int /\ FirstDay(y + 1) \in Int /\ seconds_per_year(y) \in Int
        /\ 86400 * FirstDay(y + 1) = 86400 * FirstDay(y) + seconds_per_year(y)
    BY <2>1, YearLength DEF seconds_per_year
  <2>3. /\ counter(y) = time - 86400 * FirstDay(y)
        /\ counter(y + 1) = time - 86400 * FirstDay(y + 1)
    BY <1>1, <2>1
  <2> HIDE DEF counter
  <2> QED BY <2>2, <2>3
<1>3. FirstDay(70) = 0
  BY DEF FirstDay, LeapsBefore
<1>4. YearOf(time) = IF time >= 0
                       THEN [year |-> Min(forward), left |-> counter(Min(forward))]
                       ELSE [year |-> Max(backward),
                             left |-> counter(Max(backward) + 1) + seconds_per_year(Max(backward))]
  BY DEF YearOf
<1> DEFINE Found(y) == y \in 2..137 /\ 86400 * FirstDay(y) <= time
                       /\ time < 86400 * FirstDay(y + 1)
<1> HIDE DEF counter
<1>5. CASE time >= 0
  <2> DEFINE y == Min(forward)
  <2>1. 137 \in forward
    <3>1. counter(137) - seconds_per_year(137) = time - 86400 * FirstDay(138)
      <4>1. 137 \in 2..137 /\ 137 + 1 = 138
        OBVIOUS
      <4> QED BY <4>1, <1>2
    <3>2. FirstDay(138) \in Int
      BY YearLength
    <3> QED BY <3>1, <3>2
  <2>2. y \in forward /\ \A x \in forward : y <= x
    <3>1. forward \in SUBSET Nat /\ forward # {}
      BY <2>1
    <3> HIDE DEF forward
    <3> QED BY <3>1, MinProperties
  <2> HIDE DEF y
  <2>3. y \in 70..137 /\ y \in 2..137 /\ counter(y) - seconds_per_year(y) < 0
    BY <2>2
  <2>4. time < 86400 * FirstDay(y + 1)
    BY <2>3, <1>2
  <2>5. 86400 * FirstDay(y) <= time
    <3>1. CASE y = 70
      BY <3>1, <1>3, <1>5
    <3>2. CASE y # 70
      <4>1. y - 1 \in 70..137 /\ y - 1 \in 2..137 /\ (y - 1) + 1 = y /\ ~ (y <= y - 1)
        BY <2>3, <3>2
      <4>2. ~ (counter(y - 1) - seconds_per_year(y - 1) < 0)
        BY <2>2, <4>1
      <4>3. counter(y - 1) - seconds_per_year(y - 1) = time - 86400 * FirstDay(y)
            /\ FirstDay(y) \in Int
        BY <4>1, <1>2
      <4> QED BY <4>2, <4>3
    <3> QED BY <3>1, <3>2
  <2>6. YearOf(time) = [year |-> y, left |-> counter(y)]
    BY <1>4, <1>5 DEF y
  <2>7. counter(y) = time - 86400 * FirstDay(y)
    BY <2>3, <1>1
  <2> QED BY <2>3, <2>4, <2>5, <2>6, <2>7, <1>2
<1>6. CASE time < 0
  <2> DEFINE y == Max(backward)
  <2>1. 2 \in backward
    <3>1. counter(2 + 1) + seconds_per_year(2) = time - 86400 * FirstDay(2)
      <4>1. 2 \in 2..137
        OBVIOUS
      <4> QED BY <4>1, <1>2
    <3>2. FirstDay(2) \in Int
      BY YearLength
    <3> QED BY <3>1, <3>2
  <2>2. y \in backward /\ \A x \in backward : x <= y
    <3>1. backward \in SUBSET (0..69) /\ backward # {}
      BY <2>1
    <3> HIDE DEF backward
    <3> QED BY <3>1, MaxBackward
  <2> HIDE DEF y
  <2>3. y \in 2..69 /\ y \in 2..137 /\ counter(y + 1) + seconds_per_year(y) >= 0
    BY <2>2
  <2>4. 86400 * FirstDay(y) <= time
    BY <2>3, <1>2
  <2>5. time < 86400 * FirstDay(y + 1)
    <3>1. CASE y = 69
      <4>1. y + 1 = 70
        BY <3>1
      <4> QED BY <4>1, <1>3, <1>6
    <3>2. CASE y # 69
      <4>1. y + 1 \in 2..69 /\ y + 1 \in 2..137 /\ ~ (y + 1 <= y)
        BY <2>3, <3>2
      <4>2. ~ (counter((y + 1) + 1) + seconds_per_year(y + 1) >= 0)
        BY <2>2, <4>1
      <4>3. counter((y + 1) + 1) + seconds_per_year(y + 1) = time - 86400 * FirstDay(y + 1)
            /\ FirstDay(y + 1) \in Int
        BY <4>1, <1>2
      <4> QED BY <4>2, <4>3
    <3> QED BY <3>1, <3>2
  <2>6. YearOf(time) = [year |-> y, left |-> counter(y + 1) + seconds_per_year(y)]
    BY <1>4, <1>6 DEF y
  <2> QED BY <2>3, <2>4, <2>5, <2>6, <1>2
<1> QED BY <1>5, <1>6

(* The table of the days before each month, which ends with the year.      *)
LEMMA MonthsOfYear ==
  ASSUME NEW leap \in BOOLEAN
  PROVE  /\ days_past(leap)[1] = 0
         /\ \A i \in 1..12 : days_past(leap)[i] \in Nat
         /\ days_past(leap)[12] < IF leap THEN 366 ELSE 365
BY DEF days_past

(* Before 1970 as after it, the weekday is that of the day.                *)
LEMMA WeekDayIs ==
  ASSUME NEW time \in Int, NEW today \in Int, time \div 86400 = today
  PROVE  WeekDay(time) = (4 + today) % 7
<1>1. CASE time >= 0
  BY <1>1 DEF WeekDay
<1>2. CASE time < 0
  <2> DEFINE k == (-(time + 1)) \div 86400
  <2>1. k \in Nat /\ today = -1 - k
    BY <1>2
  <2> HIDE DEF k
  <2>2. \/ k % 7 = 0 \/ k % 7 = 1 \/ k % 7 = 2 \/ k % 7 = 3 \/ k % 7 = 4 \/ k % 7 = 5
        \/ k % 7 = 6
    BY <2>1
  <2>3. (4 + (-1 - k)) % 7 = << 3, 2, 1, 0, 6, 5, 4 >>[(k % 7) + 1]
    BY <2>1, <2>2
  <2> QED BY <2>1, <2>3, <1>2 DEF WeekDay, k
<1> QED BY <1>1, <1>2

(* The last month of a year that has begun, when so much of it is left.    *)
LastBegun(leap, left) == Max({i \in 0..11 : left - days_past(leap)[i + 1] * 86400 >= 0})

(* The loop over months finds it.                                          *)
LEMMA MonthFound ==
  ASSUME NEW leap \in BOOLEAN, NEW left \in Int, 0 <= left
  PROVE  LET mon  == LastBegun(leap, left)
             past == days_past(leap)
         IN  /\ mon \in 0..11 /\ past[mon + 1] \in Nat /\ past[mon + 1] * 86400 <= left
             /\ mon < 11 => past[mon + 2] \in Nat /\ left < past[mon + 2] * 86400
<1> DEFINE past == days_past(leap)
           months == {i \in 0..11 : left - past[i + 1] * 86400 >= 0}
           mon == LastBegun(leap, left)
<1>1. past[1] = 0 /\ \A i \in 1..12 : past[i] \in Nat
  BY MonthsOfYear
<1>2. \A i \in 0..11 : i \in months <=> left - past[i + 1] * 86400 >= 0
  OBVIOUS
<1>3. mon = Max(months) /\ months \in SUBSET (0..11)
  BY DEF LastBegun
<1> HIDE DEF past, months, mon
<1>4. 0 \in months
  <2>1. 0 + 1 = 1 /\ 0 \in 0..11
    OBVIOUS
  <2>2. left - past[0 + 1] * 86400 >= 0
    BY <1>1, <2>1
  <2> QED BY <1>2, <2>1, <2>2
<1>5. mon \in months /\ \A i \in months : i <= mon
  <2>1. months # {} /\ 11 \in Nat
    BY <1>4
  <2>2. Max(months) \in months /\ \A x \in months : x <= Max(months)
    BY <1>3, <2>1, MaxProperties
  <2> QED BY <1>3, <2>2
<1>6. mon \in 0..11 /\ left - past[mon + 1] * 86400 >= 0
  BY <1>2, <1>3, <1>5
<1>7. past[mon + 1] \in Nat
  <2>1. mon + 1 \in 1..12
    BY <1>6
  <2> QED BY <1>1, <2>1
<1>8. ASSUME mon < 11 PROVE past[mon + 2] \in Nat /\ left < past[mon + 2] * 86400
  <2>1. mon + 1 \in 0..11 /\ (mon + 1) + 1 = mon + 2 /\ mon + 2 \in 1..12 /\ ~ (mon + 1 <= mon)
    BY <1>6, <1>8
  <2>2. past[mon + 2] \in Nat
    BY <1>1, <2>1
  <2>3. ~ (left - past[(mon + 1) + 1] * 86400 >= 0)
    BY <1>2, <1>5, <2>1
  <2>4. ~ (left - past[mon + 2] * 86400 >= 0)
    BY <2>1, <2>3
  <2> QED BY <2>2, <2>4
<1>9. past[mon + 1] * 86400 <= left
  BY <1>6, <1>7
<1>10. /\ mon \in 0..11 /\ past[mon + 1] \in Nat /\ past[mon + 1] * 86400 <= left
       /\ mon < 11 => past[mon + 2] \in Nat /\ left < past[mon + 2] * 86400
  BY <1>6, <1>7, <1>8, <1>9
<1> QED BY <1>10 DEF past, mon

(* Hours, minutes and seconds of a day.                                    *)
LEMMA TimeOfDay ==
  ASSUME NEW rest \in Int, 0 <= rest, rest < 86400
  PROVE  /\ rest \div 3600 \in 0..23 /\ (rest % 3600) \div 60 \in 0..59 /\ rest % 60 \in 0..59
         /\ rest = (rest \div 3600) * 3600 + ((rest % 3600) \div 60) * 60 + (rest % 60)
<1>1. /\ rest \div 3600 \in 0..23 /\ rest % 3600 \in 0..3599
      /\ rest = 3600 * (rest \div 3600) + (rest % 3600)
  OBVIOUS
<1> DEFINE r == rest % 3600
<1>2. r \in 0..3599
  BY <1>1
<1>3. r % 60 = rest % 60
  OBVIOUS
<1> HIDE DEF r
<1>4. r \div 60 \in 0..59 /\ r % 60 \in 0..59 /\ r = 60 * (r \div 60) + (r % 60)
  BY <1>2
<1> QED BY <1>1, <1>3, <1>4 DEF r

(* The day of a time is the only one from whose beginning it is so long.   *)
LEMMA DayUnique ==
  ASSUME NEW time \in Int, NEW today \in Int, NEW rest \in Int, 0 <= rest, rest < 86400,
         time = 86400 * today + rest
  PROVE  time \div 86400 = today
OBVIOUS

(* Days of a time.                                                         *)
LEMMA DaysOf ==
  ASSUME NEW left \in Int, 0 <= left
  PROVE  /\ left \div 86400 \in Nat /\ left % 86400 \in Int /\ 0 <= left % 86400 /\ left % 86400 < 86400
         /\ left = 86400 * (left \div 86400) + (left % 86400)
OBVIOUS

(* The parts of a time: its year, month, days in the month, and the rest.  *)
YearAt(time)  == YearOf(time).year
LeapAt(time)  == is_leapyear(YearAt(time))
MonthAt(time) == LastBegun(LeapAt(time), YearOf(time).left)
PastAt(time)  == days_past(LeapAt(time))[MonthAt(time) + 1]
LeftAt(time)  == YearOf(time).left - PastAt(time) * 86400
DaysAt(time)  == LeftAt(time) \div 86400
RestAt(time)  == LeftAt(time) % 86400

LEMMA Parts ==
  ASSUME NEW time
  PROVE  Normalized(time) =
           [year |-> YearAt(time), mon |-> MonthAt(time), mday |-> 1 + DaysAt(time),
            yday |-> PastAt(time) + DaysAt(time), wday |-> WeekDay(time),
            hour |-> RestAt(time) \div 3600, min |-> (RestAt(time) % 3600) \div 60,
            sec |-> RestAt(time) % 60]
BY DEF Normalized, YearAt, LeapAt, MonthAt, PastAt, LeftAt, DaysAt, RestAt, LastBegun

(* The days before the month, those of the month before the day, and the   *)
(* rest make up the time; the next month has not begun.                    *)
LEMMA PartsMeanTime ==
  ASSUME NEW time \in Int, 86400 * FirstDay(2) <= time, time < 86400 * FirstDay(138)
  PROVE  LET year  == YearAt(time)
             today == FirstDay(year) + PastAt(time) + DaysAt(time)
         IN  /\ year \in Nat /\ FirstDay(year) \in Int /\ MonthAt(time) \in 0..11
             /\ PastAt(time) \in Nat /\ DaysAt(time) \in Nat
             /\ RestAt(time) \in Int /\ 0 <= RestAt(time) /\ RestAt(time) < 86400
             /\ time = 86400 * today + RestAt(time)
             /\ today < FirstDay(year + 1)
             /\ MonthAt(time) < 11 =>
                  /\ days_past(LeapAt(time))[MonthAt(time) + 2] \in Nat
                  /\ today < FirstDay(year) + days_past(LeapAt(time))[MonthAt(time) + 2]
<1> DEFINE y    == YearOf(time)
           year == YearAt(time)
           leap == LeapAt(time)
           mon  == MonthAt(time)
           p    == PastAt(time)
           left == LeftAt(time)
           days == DaysAt(time)
           rest == RestAt(time)
           first == FirstDay(year)
           next == days_past(leap)[mon + 2]
<1>1. /\ year = y.year /\ leap = is_leapyear(year) /\ mon = LastBegun(leap, y.left)
      /\ p = days_past(leap)[mon + 1] /\ left = y.left - p * 86400
      /\ days = left \div 86400 /\ rest = left % 86400
  BY DEF YearAt, LeapAt, MonthAt, PastAt, LeftAt, DaysAt, RestAt
<1>2. /\ year \in 2..137 /\ y.left = time - 86400 * first
      /\ y.left \in Int /\ 0 <= y.left /\ y.left < seconds_per_year(year)
  BY <1>1, YearFound
<1> HIDE DEF y, year, leap, mon, p, left, days, rest
<1>3. /\ year \in Nat /\ leap \in BOOLEAN /\ first \in Int /\ FirstDay(year + 1) \in Int
      /\ FirstDay(year + 1) = first + IF leap THEN 366 ELSE 365
      /\ y.left < 86400 * (IF leap THEN 366 ELSE 365)
  <2>1. year \in Nat
    BY <1>2
  <2> QED BY <1>1, <1>2, <2>1, YearLength DEF seconds_per_year
<1>4. /\ mon \in 0..11 /\ p \in Nat /\ p * 86400 <= y.left
      /\ mon < 11 => next \in Nat /\ y.left < next * 86400
  BY <1>1, <1>2, <1>3, MonthFound
<1> HIDE DEF first, next
<1>5. left \in Int /\ 0 <= left /\ y.left = left + p * 86400
  BY <1>1, <1>2, <1>4
<1>6. /\ days \in Nat /\ rest \in Int /\ 0 <= rest /\ rest < 86400
      /\ left = 86400 * days + rest
  <2>1. days = left \div 86400 /\ rest = left % 86400
    BY <1>1
  <2>2. /\ left \div 86400 \in Nat
        /\ left % 86400 \in Int /\ 0 <= left % 86400 /\ left % 86400 < 86400
        /\ left = 86400 * (left \div 86400) + (left % 86400)
    BY <1>5, DaysOf
  <2> QED BY <2>1, <2>2
<1>7. time = 86400 * (first + p + days) + rest
  BY <1>2, <1>3, <1>4, <1>5, <1>6
<1>8. first + p + days < FirstDay(year + 1)
  BY <1>3, <1>4, <1>5, <1>6
<1>9. mon < 11 => next \in Nat /\ first + p + days < first + next
  BY <1>3, <1>4, <1>5, <1>6
<1> QED BY <1>3, <1>4, <1>6, <1>7, <1>8, <1>9 DEF year, leap, mon, p, days, rest, first, next

(* A year begins on its first day.                                         *)
LEMMA YearBegins ==
  ASSUME NEW year \in Nat
  PROVE  CivilDay(year, 0, 1) = FirstDay(year) /\ FirstDay(year) \in Int
<1>1. 0 \in 0..11 /\ 1 \in Int /\ 0 + 1 = 1
  OBVIOUS
<1>2. CivilDay(year, 0, 1) = FirstDay(year) + days_past(is_leapyear(year))[0 + 1] + 1 - 1
  BY <1>1, MonthBegins
<1>3. FirstDay(year) \in Int /\ days_past(is_leapyear(year))[1] = 0
  BY YearLength, MonthsOfYear
<1> QED BY <1>1, <1>2, <1>3

(* What is left in a year is divided into month, day and time of the day.  *)
LEMMA NormalizedMeans ==
  ASSUME NEW time \in Int, 86400 * FirstDay(2) <= time, time < 86400 * FirstDay(138)
  PROVE  LET t == Normalized(time)
             today == CivilDay(t.year, t.mon, t.mday)
         IN  /\ time = today * 86400 + t.hour * 3600 + t.min * 60 + t.sec
             /\ t.sec \in 0..59 /\ t.min \in 0..59 /\ t.hour \in 0..23
             /\ today < CivilDay(t.year + ((t.mon + 1) \div 12), (t.mon + 1) % 12, 1)
             /\ t.mday >= 1
             /\ t.wday = (4 + today) % 7 /\ t.yday = today - CivilDay(t.year, 0, 1)
<1> DEFINE t    == Normalized(time)
           year == YearAt(time)
           leap == LeapAt(time)
           mon  == MonthAt(time)
           p    == PastAt(time)
           days == DaysAt(time)
           rest == RestAt(time)
           first == FirstDay(year)
           next == days_past(leap)[mon + 2]
           today == first + p + days
<1>1. /\ t.year = year /\ t.mon = mon /\ t.mday = 1 + days /\ t.yday = p + days
      /\ t.wday = WeekDay(time) /\ t.hour = rest \div 3600
      /\ t.min = (rest % 3600) \div 60 /\ t.sec = rest % 60
  BY Parts
<1>2. leap = is_leapyear(year) /\ p = days_past(leap)[mon + 1]
  BY DEF LeapAt, PastAt
<1>3. /\ year \in Nat /\ first \in Int /\ mon \in 0..11 /\ p \in Nat /\ days \in Nat
      /\ rest \in Int /\ 0 <= rest /\ rest < 86400
      /\ time = 86400 * today + rest /\ today < FirstDay(year + 1)
      /\ mon < 11 => next \in Nat /\ today < first + next
  BY PartsMeanTime
<1> HIDE DEF t, year, leap, mon, p, days, rest
<1>4. CivilDay(t.year, t.mon, t.mday) = today
  <2>1. year \in Nat /\ mon \in 0..11 /\ 1 + days \in Int
    BY <1>3
  <2>2. CivilDay(year, mon, 1 + days)
          = first + days_past(is_leapyear(year))[mon + 1] + (1 + days) - 1
    BY <2>1, MonthBegins
  <2> HIDE DEF first
  <2>3. CivilDay(t.year, t.mon, t.mday) = first + p + (1 + days) - 1
    BY <1>1, <1>2, <2>2
  <2> QED BY <1>3, <2>3
<1>5. CivilDay(t.year, 0, 1) = first
  BY <1>1, <1>3, YearBegins
<1>6. today < CivilDay(t.year + ((t.mon + 1) \div 12), (t.mon + 1) % 12, 1)
  <2>1. CASE mon < 11
    <3>1. /\ (mon + 1) \div 12 = 0 /\ (mon + 1) % 12 = mon + 1 /\ mon + 1 \in 0..11
          /\ (mon + 1) + 1 = mon + 2 /\ 1 \in Int /\ year + 0 = year
          /\ year \in Nat
      BY <1>3, <2>1
    <3>2. CivilDay(year, mon + 1, 1)
            = first + days_past(is_leapyear(year))[(mon + 1) + 1] + 1 - 1
      BY <3>1, MonthBegins
    <3>3. days_past(is_leapyear(year))[(mon + 1) + 1] = next
      BY <1>2, <3>1
    <3> HIDE DEF first, next
    <3>4. CivilDay(year, mon + 1, 1) = first + next
      BY <1>3, <2>1, <3>2, <3>3
    <3> QED BY <1>1, <1>3, <2>1, <3>1, <3>4
  <2>2. CASE mon = 11
    <3>1. (mon + 1) \div 12 = 1 /\ (mon + 1) % 12 = 0 /\ year + 1 \in Nat
      BY <1>3, <2>2
    <3>2. CivilDay(year + 1, 0, 1) = FirstDay(year + 1)
      BY <3>1, YearBegins
    <3> QED BY <1>1, <1>3, <3>1, <3>2
  <2> QED BY <1>3, <2>1, <2>2
<1> HIDE DEF first, next
<1>7. /\ t.hour \in 0..23 /\ t.min \in 0..59 /\ t.sec \in 0..59
      /\ rest = t.hour * 3600 + t.min * 60 + t.sec
  BY <1>1, <1>3, TimeOfDay
<1>8. today \in Int
  BY <1>3
<1>9. t.wday = (4 + today) % 7
  <2> HIDE DEF today
  <2>1. time \div 86400 = today
    BY <1>3, <1>8, DayUnique
  <2>2. t.wday = WeekDay(time)
    BY <1>1
  <2>3. WeekDay(time) = (4 + today) % 7
    BY <1>8, <2>1, WeekDayIs
  <2> QED BY <2>2, <2>3
<1>10. t.mday >= 1 /\ t.yday = today - first
  BY <1>1, <1>3
<1>11. time = today * 86400 + t.hour * 3600 + t.min * 60 + t.sec
  <2> HIDE DEF today
  <2>1. t.hour \in Int /\ t.min \in Int /\ t.sec \in Int
    BY <1>7
  <2> QED BY <1>3, <1>7, <1>8, <2>1
<1> HIDE DEF today
<1> QED BY <1>4, <1>5, <1>6, <1>7, <1>9, <1>10, <1>11 DEF t

(* A broken-down time.                                                     *)
Tm(s, m, h, d, o, y) == [sec |-> s, min |-> m, hour |-> h, mday |-> d, mon |-> o, year |-> y]

LEMMA TmFields ==
  ASSUME NEW s, NEW m, NEW h, NEW d, NEW o, NEW y
  PROVE  /\ Tm(s, m, h, d, o, y).sec = s /\ Tm(s, m, h, d, o, y).min = m
         /\ Tm(s, m, h, d, o, y).hour = h /\ Tm(s, m, h, d, o, y).mday = d
         /\ Tm(s, m, h, d, o, y).mon = o /\ Tm(s, m, h, d, o, y).year = y
BY DEF Tm

(* A date in another month.                                                *)
MonthMoved(t, a, b) == [t EXCEPT !.mon = a, !.year = b]

(* It with its month and its year replaced.                                *)
LEMMA TmMoved ==
  ASSUME NEW s, NEW m, NEW h, NEW d, NEW o, NEW y, NEW a, NEW b
  PROVE  MonthMoved(Tm(s, m, h, d, o, y), a, b) = Tm(s, m, h, d, a, b)
<1> DEFINE t == Tm(s, m, h, d, o, y)
           r == [t EXCEPT !.mon = a, !.year = b]
           F == {"sec", "min", "hour", "mday", "mon", "year"}
<1>1. t = [f \in F |-> t[f]]
  BY DEF Tm
<1>2. r = [f \in F |-> IF f = "year" THEN b ELSE IF f = "mon" THEN a ELSE t[f]]
  <2> HIDE DEF t, F
  <2>1. DOMAIN t = F
    BY <1>1
  <2> QED BY <1>1, <2>1 DEF F
<1>3. Tm(s, m, h, d, a, b)
        = [f \in F |-> IF f = "year" THEN b ELSE IF f = "mon" THEN a ELSE t[f]]
  BY DEF Tm
<1> QED BY <1>2, <1>3 DEF MonthMoved

(* What MonthInYear makes of a month beyond the year, and of one before it.*)
LEMMA MonthCases ==
  ASSUME NEW s, NEW m, NEW h, NEW d, NEW o \in Int, NEW y \in Int
  PROVE  /\ o > 11 => MonthInYear(Tm(s, m, h, d, o, y))
                         = Tm(s, m, h, d, o % 12, y + (o \div 12))
         /\ o < 0 => MonthInYear(Tm(s, m, h, d, o, y))
                        = Tm(s, m, h, d, o + 12 * (1 + ((-o) \div 12)), y - (1 + ((-o) \div 12)))
         /\ o \in 0..11 => MonthInYear(Tm(s, m, h, d, o, y)) = Tm(s, m, h, d, o, y)
<1> DEFINE t == Tm(s, m, h, d, o, y)
<1>1. t.mon = o /\ t.year = y
  BY TmFields
<1>2. \A a, b : MonthMoved(t, a, b) = Tm(s, m, h, d, a, b)
  BY TmMoved
<1> HIDE DEF t
<1>3. o > 11 => MonthInYear(t) = MonthMoved(t, o % 12, y + (o \div 12))
  BY <1>1 DEF MonthInYear, MonthMoved
<1>4. o < 0 => MonthInYear(t) = MonthMoved(t, o + 12 * (1 + ((-o) \div 12)),
                                      y - (1 + ((-o) \div 12)))
  BY <1>1 DEF MonthInYear, MonthMoved
<1>5. o \in 0..11 => MonthInYear(t) = t
  BY <1>1 DEF MonthInYear
<1>6. /\ o > 11 => MonthInYear(t) = Tm(s, m, h, d, o % 12, y + (o \div 12))
      /\ o < 0 => MonthInYear(t) = Tm(s, m, h, d, o + 12 * (1 + ((-o) \div 12)),
                                      y - (1 + ((-o) \div 12)))
  BY <1>2, <1>3, <1>4
<1> QED BY <1>5, <1>6 DEF t

(* The quotient and the remainder of a month by the months of a year.      *)
LEMMA MonthQuotient ==
  ASSUME NEW o \in Int
  PROVE  LET k == 1 + ((-o) \div 12)
         IN  /\ o % 12 \in 0..11 /\ (o \in 0..11 => o % 12 = o /\ o \div 12 = 0)
             /\ o < 0 /\ o + 12 * k < 12 => o % 12 = o + 12 * k /\ o \div 12 = -k
OBVIOUS

(* A month out of its range is moved into its year, unless it is a         *)
(* multiple of 12 below 0.                                                 *)
LEMMA MonthMoves ==
  ASSUME NEW s, NEW m, NEW h, NEW d, NEW o \in Int, NEW y \in Int,
         MonthInYear(Tm(s, m, h, d, o, y)).mon < 12
  PROVE  /\ o % 12 \in 0..11
         /\ MonthInYear(Tm(s, m, h, d, o, y)) = Tm(s, m, h, d, o % 12, y + (o \div 12))
<1> DEFINE u == MonthInYear(Tm(s, m, h, d, o, y))
           k == 1 + ((-o) \div 12)
<1>1. u.mon < 12
  OBVIOUS
<1>2. /\ o > 11 => u = Tm(s, m, h, d, o % 12, y + (o \div 12))
      /\ o < 0 => u = Tm(s, m, h, d, o + 12 * k, y - k)
      /\ o \in 0..11 => u = Tm(s, m, h, d, o, y)
  BY MonthCases
<1>3. /\ o % 12 \in 0..11 /\ (o \in 0..11 => o % 12 = o /\ o \div 12 = 0)
      /\ o < 0 /\ o + 12 * k < 12 => o % 12 = o + 12 * k /\ o \div 12 = -k
  BY MonthQuotient
<1>4. k \in Int
  OBVIOUS
<1> HIDE DEF u, k
<1>5. CASE o > 11
  BY <1>2, <1>3, <1>5 DEF u
<1>6. CASE o < 0
  <2>1. u = Tm(s, m, h, d, o + 12 * k, y - k)
    BY <1>2, <1>6
  <2>2. o + 12 * k < 12
    BY <1>1, <2>1, TmFields
  <2>3. o % 12 = o + 12 * k /\ o \div 12 = -k
    BY <1>3, <1>6, <2>2
  <2>4. y + (o \div 12) = y - k
    BY <1>4, <2>3
  <2> QED BY <1>3, <2>1, <2>3, <2>4 DEF u
<1>7. CASE o \in 0..11
  <2>1. o % 12 = o /\ y + (o \div 12) = y
    BY <1>3, <1>7
  <2> QED BY <1>2, <1>3, <1>7, <2>1 DEF u
<1> QED BY <1>5, <1>6, <1>7

(* A broken-down time whose month is in its year, and the seconds from     *)
(* 1970 to it.                                                             *)
InYear(t) ==
  /\ t.sec \in Int /\ t.min \in Int /\ t.hour \in Int /\ t.mday \in Int
  /\ t.mon \in 0..11 /\ t.year \in TimeYears

TimeOf(t) == CivilDay(t.year, t.mon, t.mday) * 86400 + t.hour * 3600 + t.min * 60 + t.sec

(* A time is the sum that timegm adds up, with products of any size.       *)
LEMMA TimeIs ==
  ASSUME NEW t, InYear(t)
  PROVE  /\ days_past(is_leapyear(t.year))[t.mon + 1] \in Int /\ Begins[t.year] \in Int
         /\ TimeOf(t) \in Int
         /\ TimeOf(t) = t.sec + t.min * 60 + t.hour * 3600
                          + days_past(is_leapyear(t.year))[t.mon + 1] * 86400
                          + (t.mday - 1) * 86400 + Begins[t.year]
<1> DEFINE p == days_past(is_leapyear(t.year))[t.mon + 1]
           first == FirstDay(t.year)
           day == CivilDay(t.year, t.mon, t.mday)
<1>1. /\ t.sec \in Int /\ t.min \in Int /\ t.hour \in Int /\ t.mday \in Int
      /\ t.mon \in 0..11 /\ t.year \in TimeYears /\ t.year \in Nat
  BY DEF InYear, TimeYears
<1>2. p \in Int /\ day = first + p + t.mday - 1
  BY <1>1, MonthBegins
<1>3. first \in Int
  BY <1>1, YearLength
<1>4. Begins[t.year] = 86400 * first
  BY <1>1, BeginsIs
<1>5. TimeOf(t) = day * 86400 + t.hour * 3600 + t.min * 60 + t.sec
  BY DEF TimeOf
<1> HIDE DEF p, first, day
<1>6. /\ day \in Int /\ Begins[t.year] \in Int /\ TimeOf(t) \in Int
      /\ TimeOf(t) = t.sec + t.min * 60 + t.hour * 3600 + p * 86400 + (t.mday - 1) * 86400
                       + Begins[t.year]
  BY <1>1, <1>2, <1>3, <1>4, <1>5
<1> QED BY <1>2, <1>6 DEF p

(* Whatever the build makes of a product is an int or the product.         *)
LEMMA ProductIs ==
  ASSUME NEW n \in Int, NEW m \in Product(n)
  PROVE  m \in Int /\ (n \in Ints => m = n)
<1>1. INT_MAX \in Nat
  BY NumbersAssumption
<1>2. (n + INT_MAX + 1) % (2 * (INT_MAX + 1)) \in Int
  <2> DEFINE a == n + INT_MAX + 1
             b == 2 * (INT_MAX + 1)
  <2>1. a \in Int /\ b \in Int /\ b > 0
    BY <1>1
  <2> HIDE DEF a, b
  <2>2. a % b \in Int
    BY <2>1, DivMod
  <2> QED BY <2>2 DEF a, b
<1>3. Wrapped(n) \in Int
  BY <1>1, <1>2 DEF Wrapped
<1> QED BY <1>3 DEF Product

(* The seconds of a date are a number, whatever its products become, and   *)
(* its time if they fit.                                                   *)
LEMMA SecondsOfProducts ==
  ASSUME NEW t, InYear(t), NEW p \in Products(t)
  PROVE  /\ Seconds(t, p) \in Int /\ TimeOf(t) \in Int
         /\ ProductsFit(t) => Seconds(t, p) = TimeOf(t)
<1> DEFINE past == days_past(is_leapyear(t.year))[t.mon + 1]
<1>1. /\ t.sec \in Int /\ t.min \in Int /\ t.hour \in Int /\ t.mday \in Int
      /\ t.mon \in 0..11 /\ t.year \in TimeYears /\ t.year \in Nat
  BY DEF InYear, TimeYears
<1>2. /\ p.min \in Product(t.min * 60) /\ p.hour \in Product(t.hour * 3600)
      /\ p.days \in Product((t.mday - 1) * 86400)
  BY DEF Products
<1>3. /\ p.min \in Int /\ (t.min * 60 \in Ints => p.min = t.min * 60)
      /\ p.hour \in Int /\ (t.hour * 3600 \in Ints => p.hour = t.hour * 3600)
      /\ p.days \in Int /\ ((t.mday - 1) * 86400 \in Ints => p.days = (t.mday - 1) * 86400)
  <2>1. t.min * 60 \in Int /\ t.hour * 3600 \in Int /\ (t.mday - 1) * 86400 \in Int
    BY <1>1
  <2> QED BY <1>2, <2>1, ProductIs
<1>4. /\ past \in Int /\ Begins[t.year] \in Int /\ TimeOf(t) \in Int
      /\ TimeOf(t) = t.sec + t.min * 60 + t.hour * 3600 + past * 86400 + (t.mday - 1) * 86400
                       + Begins[t.year]
  BY TimeIs
<1>5. Seconds(t, p) = t.sec + p.min + p.hour + past * 86400 + p.days + Begins[t.year]
  BY DEF Seconds
<1> HIDE DEF past
<1>6. Seconds(t, p) \in Int
  BY <1>1, <1>3, <1>4, <1>5
<1>7. ProductsFit(t) => Seconds(t, p) = TimeOf(t)
  <2> SUFFICES ASSUME ProductsFit(t) PROVE Seconds(t, p) = TimeOf(t)
    OBVIOUS
  <2>1. p.min = t.min * 60 /\ p.hour = t.hour * 3600 /\ p.days = (t.mday - 1) * 86400
    BY <1>3 DEF ProductsFit
  <2> QED BY <1>4, <1>5, <2>1
<1> QED BY <1>4, <1>6, <1>7

(* A date with its month in its year.                                      *)
InItsYear(t) == Tm(t.sec, t.min, t.hour, t.mday, t.mon % 12, t.year + (t.mon \div 12))

(* The dates timegm is given are in the years that begin in a time_t of 32 *)
(* bits, and so is the time they come to, however far out of their ranges  *)
(* the fields are and whatever becomes of products that are no ints.       *)
DatesFit ==
  \A t \in Dates :
    /\ InItsYear(t).year \in TimeYears
    /\ \A p \in Products(InItsYear(t)) :
         /\ CivilDay(2, 0, 1) * 86400 <= Seconds(InItsYear(t), p)
         /\ Seconds(InItsYear(t), p) < CivilDay(138, 0, 1) * 86400

(* A normalized time means the time it was made of.                        *)
Means(time, n) ==
  LET today == CivilDay(n.year, n.mon, n.mday)
  IN  /\ time = today * 86400 + n.hour * 3600 + n.min * 60 + n.sec
      /\ n.sec \in 0..59 /\ n.min \in 0..59 /\ n.hour \in 0..23
      /\ today < CivilDay(n.year + ((n.mon + 1) \div 12), (n.mon + 1) % 12, 1)
      /\ n.mday >= 1
      /\ n.wday = (4 + today) % 7 /\ n.yday = today - CivilDay(n.year, 0, 1)

(* Any time of the years it knows is normalized to what means it.          *)
LEMMA TimeMeans ==
  ASSUME NEW time \in Int, CivilDay(2, 0, 1) * 86400 <= time, time < CivilDay(138, 0, 1) * 86400
  PROVE  Means(time, Normalized(time))
<1>1. 2 \in Nat /\ 138 \in Nat
  OBVIOUS
<1>2. /\ CivilDay(2, 0, 1) = FirstDay(2) /\ CivilDay(138, 0, 1) = FirstDay(138)
      /\ FirstDay(2) \in Int /\ FirstDay(138) \in Int
  BY <1>1, YearBegins
<1>3. 86400 * FirstDay(2) <= time /\ time < 86400 * FirstDay(138)
  BY <1>2
<1>4. LET n == Normalized(time)
          today == CivilDay(n.year, n.mon, n.mday)
      IN  /\ time = today * 86400 + n.hour * 3600 + n.min * 60 + n.sec
          /\ n.sec \in 0..59 /\ n.min \in 0..59 /\ n.hour \in 0..23
          /\ today < CivilDay(n.year + ((n.mon + 1) \div 12), (n.mon + 1) % 12, 1)
          /\ n.mday >= 1
          /\ n.wday = (4 + today) % 7 /\ n.yday = today - CivilDay(n.year, 0, 1)
  BY <1>3, NormalizedMeans
<1> QED BY <1>4 DEF Means

(* Calling timegm makes the result agree with the calendar.                *)
LEMMA TimegmStep == DatesFit /\ timegm => CalendarAgrees'
<1> SUFFICES ASSUME DatesFit, timegm, nph' # "outside" PROVE CalendarAgrees'
  BY DEF CalendarAgrees
<1>1. PICK t \in Dates : \E p \in Products(MonthInYear(t)) :
        LET u == MonthInYear(t)
        IN  /\ given' = t /\ u.mon < 12
            /\ \/ num' = Seconds(u, p) /\ tm' = Normalized(num') /\ nph' = "timegm"
               \/ num' = -1 /\ Seconds(u, p) \notin Ints /\ nph' = "EOVERFLOW"
  BY DEF timegm
<1>2. /\ t.sec \in Int /\ t.min \in Int /\ t.hour \in Int /\ t.mday \in Int
      /\ t.mon \in Int /\ t.year \in Int
      /\ t = Tm(t.sec, t.min, t.hour, t.mday, t.mon, t.year)
  <2>1. t \in [sec : Int, min : Int, hour : Int, mday : Int, mon : Int, year : TimeYears]
    BY DatesAssumption DEF BrokenDown
  <2>2. t.year \in Int
    BY <2>1 DEF TimeYears
  <2>3. t = [sec |-> t.sec, min |-> t.min, hour |-> t.hour, mday |-> t.mday, mon |-> t.mon,
             year |-> t.year]
    BY <2>1
  <2> QED BY <2>1, <2>2, <2>3 DEF Tm
<1> DEFINE u == InItsYear(t)
<1>3. t.mon % 12 \in 0..11 /\ MonthInYear(t) = u
  BY <1>1, <1>2, MonthMoves DEF InItsYear
<1>4. /\ u.sec = t.sec /\ u.min = t.min /\ u.hour = t.hour /\ u.mday = t.mday
      /\ u.mon = t.mon % 12 /\ u.year = t.year + (t.mon \div 12)
  BY TmFields DEF InItsYear
<1>5. /\ u.year \in TimeYears
      /\ \A p \in Products(u) :
           /\ CivilDay(2, 0, 1) * 86400 <= Seconds(u, p)
           /\ Seconds(u, p) < CivilDay(138, 0, 1) * 86400
  BY DEF DatesFit
<1> HIDE DEF u
<1>6. InYear(u)
  BY <1>2, <1>3, <1>4, <1>5 DEF InYear
<1>7. TimeOf(u) = CalendarTime(t) /\ (ProductsFit(u) <=> ProductsFit(t))
  BY <1>4 DEF TimeOf, CalendarTime, ProductsFit
<1>8. PICK p \in Products(u) :
        /\ given' = t
        /\ \/ num' = Seconds(u, p) /\ tm' = Normalized(num') /\ nph' = "timegm"
           \/ num' = -1 /\ Seconds(u, p) \notin Ints /\ nph' = "EOVERFLOW"
  BY <1>1, <1>3
<1>9. Seconds(u, p) \in Int /\ (ProductsFit(t) => Seconds(u, p) = CalendarTime(t))
  BY <1>6, <1>7, SecondsOfProducts
<1>10. CASE nph' = "timegm"
  <2>1. num' = Seconds(u, p) /\ tm' = Normalized(num')
    BY <1>8, <1>10
  <2>2. Means(num', tm')
    BY <1>5, <1>9, <2>1, TimeMeans
  <2>3. ProductsFit(given') => num' = CalendarTime(given')
    BY <1>8, <1>9, <2>1
  <2> QED BY <1>10, <2>2, <2>3 DEF CalendarAgrees, Means, CalendarTime, ProductsFit, Ints
<1>11. CASE nph' = "EOVERFLOW"
  <2>1. num' = -1 /\ (ProductsFit(given') => CalendarTime(given') \notin Ints)
    BY <1>8, <1>9, <1>11
  <2> QED BY <1>11, <2>1 DEF CalendarAgrees, CalendarTime, ProductsFit, Ints
<1> QED BY <1>8, <1>10, <1>11

(* timegm agrees with the Gregorian calendar, for every set of dates in the *)
(* years of a time_t of 32 bits: what it returns is the time of the date,   *)
(* as long as the products of its fields are ints, and the fields it leaves *)
(* are what it returns; what it refuses is no time_t.                       *)
THEOREM TimegmAgrees == ASSUME DatesFit PROVE NumSpec => []CalendarAgrees
<1>1. NumInit => CalendarAgrees
  BY DEF NumInit, CalendarAgrees
<1>2. CalendarAgrees /\ [NumNext]_numVars => CalendarAgrees'
  <2> SUFFICES ASSUME CalendarAgrees, [NumNext]_numVars PROVE CalendarAgrees'
    OBVIOUS
  <2>1. CASE timegm
    BY <2>1, TimegmStep
  <2>2. CASE arc4random_uniform \/ reallocarray \/ strtonum
    BY <2>2 DEF arc4random_uniform, reallocarray, strtonum, CalendarAgrees
  <2>3. CASE UNCHANGED numVars
    BY <2>3 DEF numVars, CalendarAgrees
  <2> QED BY <2>1, <2>2, <2>3 DEF NumNext
<1> QED BY <1>1, <1>2, PTL DEF NumSpec

-----------------------------------------------------------------------------
(* The string list.                                                        *)

Entries == SlStrings \cup {"junk", "NULL"}

(* The list is an array with a place left, and the entries up to sl_cur    *)
(* are the strings that were kept: all different, none of them freed.      *)
SlTypes ==
  /\ sl \in [str : Seq(Entries), cur : Nat] /\ slKept \in Seq(SlStrings)
  /\ sl = NoList \/ sl.cur < Len(sl.str)
KeptInv ==
  /\ Len(slKept) = sl.cur
  /\ \A i \in 1..sl.cur : sl.str[i] = slKept[i] /\ slKept[i] \notin slFreed
  /\ \A i, j \in 1..sl.cur : i # j => slKept[i] # slKept[j]

SlInv == SlTypes /\ KeptInv

(* What the invariant says of the list is StringsKept.                     *)
LEMMA SlInvKeeps == SlInv => StringsKept
<1> SUFFICES ASSUME SlInv PROVE StringsKept
  OBVIOUS
<1>1. sl.str \in Seq(Entries) /\ sl.cur \in Nat /\ slKept \in Seq(SlStrings)
      /\ sl.cur <= Len(sl.str) /\ slKept \in Seq(Entries)
  <2>1. sl.str \in Seq(Entries) /\ sl.cur \in Nat /\ slKept \in Seq(SlStrings)
    BY DEF SlInv, SlTypes
  <2>2. sl.cur <= Len(sl.str)
    BY <2>1 DEF SlInv, SlTypes, NoList
  <2>3. slKept \in Seq(Entries)
    BY <2>1, SeqMonotonic DEF Entries
  <2> QED
    BY <2>1, <2>2, <2>3
<1>2. SubSeq(sl.str, 1, sl.cur) = slKept
  <2>1. \A i \in 1..sl.cur : sl.str[i] \in Entries
    BY <1>1
  <2>2. /\ SubSeq(sl.str, 1, sl.cur) \in Seq(Entries)
        /\ Len(SubSeq(sl.str, 1, sl.cur)) = sl.cur
        /\ \A i \in 1..sl.cur : SubSeq(sl.str, 1, sl.cur)[i] = sl.str[i]
    BY <1>1, <2>1, SubSeqProperties
  <2> QED
    BY <1>1, <2>2, SeqEqual DEF SlInv, KeptInv
<1>3. ToSet(slKept) \cap slFreed = {}
  BY <1>1 DEF ToSet, SlInv, KeptInv
<1> QED
  BY <1>2, <1>3 DEF StringsKept

(* A list of fresh memory.                                                 *)
LEMMA JunkType ==
  ASSUME NEW n \in Nat
  PROVE  Junk(n) \in Seq(Entries) /\ Len(Junk(n)) = n
<1>1. "junk" \in Entries
  BY DEF Entries
<1> QED
  BY <1>1 DEF Junk

(* Without one element the others close up.                                *)
LEMMA RemoveAtProperties ==
  ASSUME NEW S, NEW s \in Seq(S), NEW i \in 1..Len(s)
  PROVE  /\ RemoveAt(s, i) \in Seq(S) /\ Len(RemoveAt(s, i)) = Len(s) - 1
         /\ \A j \in 1..(Len(s) - 1) : RemoveAt(s, i)[j] = IF j < i THEN s[j] ELSE s[j + 1]
<1> DEFINE a == SubSeq(s, 1, i - 1)
           b == SubSeq(s, i + 1, Len(s))
<1>1. Len(s) \in Nat /\ i \in Int /\ 1 <= i /\ i <= Len(s) /\ \A j \in 1..Len(s) : s[j] \in S
  OBVIOUS
<1>2. a \in Seq(S) /\ Len(a) = i - 1 /\ \A j \in 1..(i - 1) : a[j] = s[j]
  <2>1. \A j \in 1..(i - 1) : s[j] \in S
    BY <1>1
  <2> QED
    BY <1>1, <2>1, SubSeqProperties
<1>3. b \in Seq(S) /\ Len(b) = Len(s) - i /\ \A j \in 1..(Len(s) - i) : b[j] = s[j + i]
  <2>1. \A j \in (i + 1)..Len(s) : s[j] \in S
    BY <1>1
  <2>2. /\ b \in Seq(S) /\ Len(b) = IF i + 1 <= Len(s) THEN Len(s) - (i + 1) + 1 ELSE 0
        /\ \A j \in 1..(Len(s) - (i + 1) + 1) : b[j] = s[(i + 1) + j - 1]
    BY <1>1, <2>1, SubSeqProperties
  <2> HIDE DEF b
  <2>3. Len(b) = Len(s) - i
    BY <1>1, <2>2
  <2>4. \A j \in 1..(Len(s) - i) : b[j] = s[j + i]
    <3> TAKE j \in 1..(Len(s) - i)
    <3>1. (i + 1) + j - 1 = j + i /\ j \in 1..(Len(s) - (i + 1) + 1)
      BY <1>1
    <3> QED
      BY <2>2, <3>1
  <2> QED
    BY <2>2, <2>3, <2>4
<1> HIDE DEF a, b
<1>4. /\ a \o b \in Seq(S) /\ Len(a \o b) = Len(s) - 1
      /\ \A j \in 1..(Len(s) - 1) : (a \o b)[j] = IF j < i THEN s[j] ELSE s[j + 1]
  <2>1. /\ a \o b \in Seq(S) /\ Len(a \o b) = Len(a) + Len(b)
        /\ \A j \in 1..(Len(a) + Len(b)) : (a \o b)[j] = IF j <= Len(a) THEN a[j] ELSE b[j - Len(a)]
    BY <1>2, <1>3, ConcatProperties
  <2>2. ASSUME NEW j \in 1..(Len(s) - 1)
        PROVE  (a \o b)[j] = IF j < i THEN s[j] ELSE s[j + 1]
    <3>1. j \in Int /\ j \in 1..(Len(a) + Len(b))
      BY <1>1, <1>2, <1>3
    <3>2. CASE j < i
      BY <1>1, <1>2, <2>1, <3>1, <3>2
    <3>3. CASE ~(j < i)
      <4>1. (a \o b)[j] = b[j - (i - 1)]
        BY <1>1, <1>2, <2>1, <3>1, <3>3
      <4>2. j - (i - 1) \in 1..(Len(s) - i) /\ (j - (i - 1)) + i = j + 1
        BY <1>1, <3>1, <3>3
      <4> QED
        BY <1>3, <3>3, <4>1, <4>2
    <3> QED
      BY <3>2, <3>3
  <2> QED
    BY <1>1, <1>2, <1>3, <2>1, <2>2
<1> QED
  BY <1>4 DEF RemoveAt, a, b

(* sl_find gives the first of the strings that spell the name.             *)
LEMMA FindFirst ==
  ASSUME SlInv, NEW name, sl_find(name) # 0
  PROVE  /\ sl_find(name) \in 1..sl.cur
         /\ SelectInSeq(slKept, LAMBDA s : SlName[s] = name) = sl_find(name)
<1> DEFINE places == {i \in 1..sl.cur : SlName[sl.str[i]] = name}
<1>1. places # {} /\ sl_find(name) = Min(places)
  BY DEF sl_find
<1>2. sl.cur \in Nat /\ Len(slKept) = sl.cur
  BY DEF SlInv, SlTypes, KeptInv
<1>3. places = {i \in 1..Len(slKept) : SlName[slKept[i]] = name}
  BY <1>2 DEF SlInv, KeptInv
<1>4. SelectInSeq(slKept, LAMBDA s : SlName[s] = name) = Min(places)
  BY <1>1, <1>3 DEF SelectInSeq
<1>5. Min(places) \in places
  <2>1. places \in SUBSET Nat
    BY <1>2
  <2> HIDE DEF places
  <2> QED
    BY <1>1, <2>1, MinProperties
<1> QED
  BY <1>1, <1>4, <1>5

(* The list begins empty.                                                  *)
LEMMA SlInitially == GrowInit => SlInv
<1> SUFFICES ASSUME GrowInit PROVE SlInv
  OBVIOUS
<1>1. sl = NoList /\ slKept = <<>> /\ NoList \in [str : Seq(Entries), cur : Nat]
      /\ NoList.cur = 0
  BY DEF GrowInit, NoList
<1> QED
  BY <1>1 DEF SlInv, SlTypes, KeptInv

(* Every function of the list keeps the invariant, memory or not.          *)
LEMMA SlStep == SlInv /\ [SlNext]_slVars => SlInv'
<1> SUFFICES ASSUME SlInv, [SlNext]_slVars PROVE SlInv'
  OBVIOUS
<1>1. /\ sl \in [str : Seq(Entries), cur : Nat] /\ slKept \in Seq(SlStrings)
      /\ sl.str \in Seq(Entries) /\ sl.cur \in Nat /\ Len(sl.str) \in Nat
      /\ Len(slKept) = sl.cur
  BY DEF SlInv, SlTypes, KeptInv
<1>2. SlMax > 0 => sl.cur < SlMax
  BY DEF SlInv, SlTypes, NoList, SlMax
<1>3. CASE sl_init
  <2>1. sl' = [str |-> Junk(SL_CHUNKSIZE), cur |-> 0] /\ slKept' = <<>>
    BY <1>3 DEF sl_init
  <2>2. SL_CHUNKSIZE \in Nat /\ SL_CHUNKSIZE > 0
    BY GrowingAssumption
  <2>3. sl'.cur = 0 /\ sl'.str = Junk(SL_CHUNKSIZE)
    BY <2>1
  <2>4. SlTypes'
    BY <2>1, <2>2, <2>3, JunkType DEF SlTypes
  <2> QED
    BY <2>1, <2>3, <2>4 DEF SlInv, KeptInv
<1>4. CASE sl_add
  <2>1. SlMax > 0 /\ slFreed' = slFreed
    BY <1>4 DEF sl_add
  <2> DEFINE grown == IF sl.cur = SlMax - 1 THEN sl.str \o Junk(SL_CHUNKSIZE) ELSE sl.str
  <2>2. PICK s \in SlStrings \ (slFreed \cup ToSet(slKept)) :
          \/ /\ sl' = [str |-> [grown EXCEPT ![sl.cur + 1] = s], cur |-> sl.cur + 1]
             /\ slKept' = Append(slKept, s)
          \/ sl.cur = SlMax - 1 /\ UNCHANGED <<sl, slKept>>
    BY <1>4 DEF sl_add
  <2>3. CASE UNCHANGED <<sl, slKept>>
    BY <2>1, <2>3 DEF SlInv, SlTypes, KeptInv
  <2>4. CASE /\ sl' = [str |-> [grown EXCEPT ![sl.cur + 1] = s], cur |-> sl.cur + 1]
             /\ slKept' = Append(slKept, s)
    <3>1. /\ grown \in Seq(Entries) /\ sl.cur + 1 < Len(grown)
          /\ \A i \in 1..sl.cur : grown[i] = sl.str[i]
      <4>1. CASE sl.cur = SlMax - 1
        <5> DEFINE j == Junk(SL_CHUNKSIZE)
        <5>1. SL_CHUNKSIZE \in Nat /\ SL_CHUNKSIZE > 1
          BY GrowingAssumption
        <5>2. j \in Seq(Entries) /\ Len(j) = SL_CHUNKSIZE
          BY <5>1, JunkType
        <5> HIDE DEF j
        <5> DEFINE a == sl.str
        <5>3. a \in Seq(Entries) /\ Len(a) = SlMax /\ SlMax \in Nat
          BY <1>1 DEF SlMax
        <5> HIDE DEF a
        <5>4. /\ a \o j \in Seq(Entries) /\ Len(a \o j) = Len(a) + Len(j)
              /\ \A i \in 1..(Len(a) + Len(j)) :
                   (a \o j)[i] = IF i <= Len(a) THEN a[i] ELSE j[i - Len(a)]
          BY <5>2, <5>3, ConcatProperties
        <5>5. \A i \in 1..sl.cur : (a \o j)[i] = a[i]
          BY <1>1, <4>1, <5>1, <5>2, <5>3, <5>4
        <5>6. sl.cur + 1 < Len(a \o j)
          BY <1>1, <4>1, <5>1, <5>2, <5>3, <5>4
        <5> QED
          BY <4>1, <5>4, <5>5, <5>6 DEF a, j
      <4>2. CASE sl.cur # SlMax - 1
        BY <1>1, <1>2, <2>1, <4>2 DEF SlMax
      <4> QED
        BY <4>1, <4>2
    <3> HIDE DEF grown
    <3> DEFINE new == [grown EXCEPT ![sl.cur + 1] = s]
    <3>2. s \in Entries /\ sl.cur + 1 \in 1..Len(grown)
      BY <1>1, <3>1 DEF Entries
    <3>3. /\ new \in Seq(Entries) /\ Len(new) = Len(grown)
          /\ \A i \in 1..Len(grown) : new[i] = IF i = sl.cur + 1 THEN s ELSE grown[i]
      BY <3>1, <3>2, ExceptSeq
    <3> HIDE DEF new
    <3>4. sl'.str = new /\ sl'.cur = sl.cur + 1 /\ sl' = [str |-> new, cur |-> sl.cur + 1]
      BY <2>4 DEF new
    <3>5. /\ slKept' \in Seq(SlStrings) /\ Len(slKept') = sl.cur + 1
          /\ \A i \in 1..sl.cur : slKept'[i] = slKept[i]
          /\ slKept'[sl.cur + 1] = s
      BY <1>1, <2>4, AppendProperties
    <3>6. SlTypes'
      BY <1>1, <3>1, <3>3, <3>4, <3>5 DEF SlTypes
    <3>7. s \notin slFreed /\ \A i \in 1..sl.cur : slKept[i] # s
      BY <1>1 DEF ToSet
    <3>8. ASSUME NEW i \in 1..sl.cur
          PROVE  new[i] = slKept[i]
      <4>1. i \in 1..Len(grown) /\ i # sl.cur + 1
        BY <1>1, <3>1
      <4>2. new[i] = grown[i]
        BY <3>3, <4>1
      <4> QED
        BY <3>1, <4>2 DEF SlInv, KeptInv
    <3>9. new[sl.cur + 1] = s
      BY <3>2, <3>3
    <3>10. \A i \in 1..(sl.cur + 1) : i \in 1..sl.cur \/ i = sl.cur + 1
      BY <1>1
    <3>11. \A i \in 1..(sl.cur + 1) : new[i] = slKept'[i] /\ slKept'[i] \notin slFreed
      BY <3>5, <3>7, <3>8, <3>9, <3>10 DEF SlInv, KeptInv
    <3>12. \A i, j \in 1..(sl.cur + 1) : i # j => slKept'[i] # slKept'[j]
      BY <3>5, <3>7, <3>10 DEF SlInv, KeptInv
    <3> QED
      BY <2>1, <3>4, <3>5, <3>6, <3>11, <3>12 DEF SlInv, KeptInv
  <2> QED
    BY <2>2, <2>3, <2>4
<1>5. CASE sl_delete
  <2>1. PICK name \in {SlName[s] : s \in SlStrings}, all \in BOOLEAN :
          /\ sl_find(name) # 0
          /\ slFreed' = slFreed \cup IF all THEN {sl.str[sl_find(name)]} ELSE {}
          /\ sl' = [str |-> Moved(sl_find(name)), cur |-> sl.cur - 1]
          /\ LET first == SelectInSeq(slKept, LAMBDA s : SlName[s] = name)
             IN  slKept' = IF first = 0 THEN slKept ELSE RemoveAt(slKept, first)
    BY <1>5 DEF sl_delete
  <2> DEFINE i == sl_find(name)
  <2>2. i \in 1..sl.cur /\ slKept' = RemoveAt(slKept, i)
    BY <2>1, FindFirst
  <2>3. slFreed' \subseteq slFreed \cup {sl.str[i]}
    BY <2>1
  <2>4. sl' = [str |-> Moved(i), cur |-> sl.cur - 1]
    BY <2>1
  <2> HIDE DEF i
  <2>5. i \in Int /\ 1 <= i /\ i <= sl.cur /\ sl.cur > 0 /\ sl.cur - 1 \in Nat
    BY <1>1, <2>2
  <2>6. sl.cur < SlMax /\ SlMax \in Nat /\ \A j \in 1..SlMax : sl.str[j] \in Entries
    <3>1. SlMax > 0
      BY <1>1, <2>5 DEF SlInv, SlTypes, NoList, SlMax
    <3> QED
      BY <1>1, <1>2, <3>1 DEF SlMax
  <2>7. ASSUME NEW j \in 1..SlMax
        PROVE  Moved(i)[j] \in Entries /\ (j < sl.cur => Moved(i)[j] = IF j < i THEN sl.str[j] ELSE sl.str[j + 1])
    <3>1. Moved(i)[j] = IF j = sl.cur THEN "NULL"
                        ELSE IF j >= i /\ j < sl.cur THEN sl.str[j + 1] ELSE sl.str[j]
      BY DEF Moved
    <3>2. sl.str[j] \in Entries /\ "NULL" \in Entries /\ (j < sl.cur => sl.str[j + 1] \in Entries)
      BY <1>1, <2>6 DEF Entries
    <3>3. j \in Int /\ sl.cur \in Int
      BY <1>1
    <3>4. j < sl.cur => Moved(i)[j] = IF j < i THEN sl.str[j] ELSE sl.str[j + 1]
      BY <2>5, <3>1, <3>3
    <3> QED
      BY <3>1, <3>2, <3>4
  <2>8. Moved(i) \in Seq(Entries) /\ Len(Moved(i)) = SlMax
    <3>1. Moved(i) \in [1..SlMax -> Entries]
      BY <2>7 DEF Moved
    <3> QED
      BY <2>6, <3>1
  <2>9. /\ slKept' \in Seq(SlStrings) /\ Len(slKept') = sl.cur - 1
        /\ \A j \in 1..(sl.cur - 1) : slKept'[j] = IF j < i THEN slKept[j] ELSE slKept[j + 1]
    <3>1. slKept \in Seq(SlStrings) /\ Len(slKept) = sl.cur /\ i \in 1..Len(slKept)
      BY <1>1, <2>2
    <3> QED
      BY <2>2, <3>1, RemoveAtProperties
  <2>10. sl'.str = Moved(i) /\ sl'.cur = sl.cur - 1
    BY <2>4
  <2>11. SlTypes'
    <3>1. sl' \in [str : Seq(Entries), cur : Nat]
      BY <2>4, <2>5, <2>8
    <3>2. sl'.cur < Len(sl'.str)
      BY <1>1, <2>6, <2>8, <2>10
    <3> QED
      BY <2>9, <3>1, <3>2 DEF SlTypes
  <2> DEFINE old(j) == IF j < i THEN j ELSE j + 1
  <2>12. ASSUME NEW j \in 1..(sl.cur - 1)
         PROVE  /\ old(j) \in 1..sl.cur /\ old(j) # i
                /\ slKept'[j] = slKept[old(j)] /\ Moved(i)[j] = sl.str[old(j)]
    <3>1. j \in 1..SlMax /\ j < sl.cur /\ j \in Int
      BY <1>1, <2>6
    <3>2. old(j) \in 1..sl.cur /\ old(j) # i
      BY <1>1, <2>5, <3>1
    <3>3. slKept'[j] = slKept[old(j)]
      BY <2>9
    <3>4. Moved(i)[j] = sl.str[old(j)]
      BY <2>7, <3>1
    <3> QED
      BY <3>2, <3>3, <3>4
  <2>13. \A j, k \in 1..(sl.cur - 1) : j # k => old(j) # old(k)
    BY <1>1, <2>5
  <2> HIDE DEF old
  <2>14. ASSUME NEW j \in 1..(sl.cur - 1)
         PROVE  Moved(i)[j] = slKept'[j] /\ slKept'[j] \notin slFreed'
    <3>1. slKept[old(j)] \notin slFreed /\ sl.str[old(j)] = slKept[old(j)]
      BY <2>12 DEF SlInv, KeptInv
    <3>2. slKept[old(j)] # sl.str[i]
      BY <2>2, <2>12 DEF SlInv, KeptInv
    <3> QED
      BY <2>3, <2>12, <3>1, <3>2
  <2>15. \A j, k \in 1..(sl.cur - 1) : j # k => slKept'[j] # slKept'[k]
    BY <2>12, <2>13 DEF SlInv, KeptInv
  <2> QED
    BY <2>9, <2>10, <2>11, <2>14, <2>15 DEF SlInv, KeptInv
<1>6. CASE sl_free
  <2>1. sl' = NoList /\ slKept' = <<>> /\ NoList \in [str : Seq(Entries), cur : Nat]
        /\ NoList.cur = 0
    BY <1>6 DEF sl_free, NoList
  <2> QED
    BY <2>1 DEF SlInv, SlTypes, KeptInv
<1>7. CASE UNCHANGED slVars
  BY <1>7 DEF slVars, SlInv, SlTypes, KeptInv
<1> QED
  BY <1>3, <1>4, <1>5, <1>6, <1>7 DEF SlNext

-----------------------------------------------------------------------------
(* The line buffers.                                                       *)

Fns == {"getdelim", "fgetln"}
Stored == STRING \cup {"junk", "NUL"}
Lines == [fn : Fns, busy : BOOLEAN, ptr : Nat, grows : BOOLEAN, ret : Int, ok : BOOLEAN]

(* The types; a buffer has room for two characters or is none yet.         *)
LineTypes ==
  /\ text \in Seq(STRING) /\ at \in 0..Len(text) /\ from \in 0..at
  /\ line \in Lines /\ line.ok
  /\ lbuf \in [Fns -> Seq(Stored)]
  /\ \A fn \in Fns : lbuf[fn] = <<>> \/ Len(lbuf[fn]) >= 2

(* The first n characters after from are in the buffer, and none of them   *)
(* but the last is a delimiter.                                            *)
Holds(n) ==
  /\ n = at - from /\ n <= Size
  /\ \A i \in 1..n : Buf[i] = text[from + i]
  /\ \A i \in 1..(n - 1) : text[from + i] # "n"

(* A call that reads has stored what it has read, and has room for the     *)
(* next character, with a null in getdelim, or is about to get it.         *)
BusyInv ==
  line.busy =>
    /\ Size >= 2 /\ Holds(line.ptr)
    /\ ~line.grows =>
         /\ line.ptr > 0 => text[at] # "n"
         /\ IF line.fn = "getdelim" THEN line.ptr + 2 <= Size ELSE line.ptr < Size
    /\ line.grows =>
         /\ line.ptr > 0
         /\ line.fn = "getdelim" => text[at] # "n" /\ line.ptr + 1 <= Size

(* A line that was returned is still there, with its null.                 *)
ReturnedInv ==
  (~line.busy /\ line.ret > 0) =>
    /\ Holds(line.ret)
    /\ (line.fn = "getdelim" /\ text[at] = "n") => Buf[line.ret + 1] = "NUL"

LineInv == LineTypes /\ BusyInv /\ ReturnedInv

(* What the invariant says of a returned line is LinesKept.                *)
LEMMA LineInvKeeps == LineInv => LinesKept
<1> SUFFICES ASSUME LineInv PROVE LinesKept
  OBVIOUS
<1> DEFINE read1 == SubSeq(text, from + 1, at)
<1>1. line.ok
  BY DEF LineInv, LineTypes
<1>2. ASSUME Idle, line.ret > 0
      PROVE  /\ line.ret = Len(read1) /\ SubSeq(Buf, 1, line.ret) = read1
             /\ "n" \notin ToSet(Front(read1))
             /\ (line.fn = "getdelim" /\ Last(read1) = "n") => Buf[line.ret + 1] = "NUL"
  <2> DEFINE n == line.ret
  <2>1. /\ text \in Seq(STRING) /\ at \in Int /\ from \in Int /\ 0 <= from /\ from <= at
        /\ at <= Len(text) /\ Len(text) \in Nat /\ text \in Seq(Stored) /\ Buf \in Seq(Stored) /\ Size \in Nat
        /\ n \in Int /\ n > 0
    <3>1. text \in Seq(STRING) /\ at \in 0..Len(text) /\ from \in 0..at /\ Buf \in Seq(Stored)
      BY DEF LineInv, LineTypes, Lines, Buf
    <3>2. text \in Seq(Stored)
      BY <3>1, SeqMonotonic DEF Stored
    <3>3. line.ret \in Int
      BY DEF LineInv, LineTypes, Lines
    <3> QED
      BY <1>2, <3>1, <3>2, <3>3 DEF Size
  <2>2. /\ n = at - from /\ n <= Size
        /\ \A i \in 1..n : Buf[i] = text[from + i]
        /\ \A i \in 1..(n - 1) : text[from + i] # "n"
        /\ (line.fn = "getdelim" /\ text[at] = "n") => Buf[n + 1] = "NUL"
    BY <1>2 DEF LineInv, ReturnedInv, Holds, Idle
  <2> HIDE DEF n
  <2>3. read1 \in Seq(Stored) /\ Len(read1) = n /\ \A i \in 1..n : read1[i] = text[from + i]
    <3>1. \A i \in (from + 1)..at : text[i] \in Stored
      BY <2>1
    <3>2. /\ read1 \in Seq(Stored)
          /\ Len(read1) = IF from + 1 <= at THEN at - (from + 1) + 1 ELSE 0
          /\ \A i \in 1..(at - (from + 1) + 1) : read1[i] = text[(from + 1) + i - 1]
      BY <2>1, <3>1, SubSeqProperties
    <3> HIDE DEF read1
    <3>3. ASSUME NEW i \in 1..n
          PROVE  read1[i] = text[from + i]
      <4>1. (from + 1) + i - 1 = from + i /\ i \in 1..(at - (from + 1) + 1)
        BY <2>1, <2>2
      <4> QED
        BY <3>2, <4>1
    <3> QED
      BY <2>1, <2>2, <3>2, <3>3
  <2>4. /\ SubSeq(Buf, 1, n) \in Seq(Stored) /\ Len(SubSeq(Buf, 1, n)) = n
        /\ \A i \in 1..n : SubSeq(Buf, 1, n)[i] = Buf[i]
    <3>1. \A i \in 1..n : Buf[i] \in Stored
      BY <2>1, <2>2 DEF Size
    <3> QED
      BY <2>1, <3>1, SubSeqProperties
  <2> HIDE DEF read1
  <2>5. SubSeq(Buf, 1, n) = read1
    BY <2>1, <2>2, <2>3, <2>4, SeqEqual
  <2>6. "n" \notin ToSet(Front(read1))
    <3>1. /\ Front(read1) \in Seq(Stored) /\ Len(Front(read1)) = n - 1
          /\ \A i \in 1..(n - 1) : Front(read1)[i] = read1[i]
      <4>1. \A i \in 1..(n - 1) : read1[i] \in Stored
        BY <2>1, <2>3
      <4>2. n - 1 \in Int
        BY <2>1
      <4>3. /\ SubSeq(read1, 1, n - 1) \in Seq(Stored)
            /\ Len(SubSeq(read1, 1, n - 1)) = n - 1
            /\ \A i \in 1..(n - 1) : SubSeq(read1, 1, n - 1)[i] = read1[i]
        BY <2>1, <4>1, <4>2, SubSeqProperties
      <4> QED
        BY <2>3, <4>3 DEF Front
    <3>2. \A i \in 1..(n - 1) : i \in 1..n
      BY <2>1
    <3> QED
      BY <2>2, <2>3, <3>1, <3>2 DEF ToSet
  <2>7. Last(read1) = text[at]
    BY <2>1, <2>2, <2>3 DEF Last
  <2> QED
    BY <2>2, <2>3, <2>5, <2>6, <2>7 DEF n
<1> QED
  BY <1>1, <1>2 DEF LinesKept

(* No line has been read.                                                  *)
LEMMA LineInitially == GrowInit => LineInv
<1> SUFFICES ASSUME GrowInit PROVE LineInv
  OBVIOUS
<1>1. /\ text = <<>> /\ at = 0 /\ from = 0 /\ line = NoLine
      /\ lbuf = [fn \in {"getdelim", "fgetln"} |-> <<>>]
  BY DEF GrowInit
<1>2. NoLine \in Lines /\ NoLine.ok /\ ~NoLine.busy /\ NoLine.ret = 0
  BY DEF NoLine, Lines, Fns
<1> QED
  BY <1>1, <1>2 DEF LineInv, LineTypes, BusyInv, ReturnedInv, Fns

(* The characters NextChar puts: one, or two.                              *)
LEMMA PairProperties ==
  ASSUME NEW c, NEW put, put = << c >> \o << "NUL" >>
  PROVE  Len(put) = 2 /\ DOMAIN put = 1..2 /\ put[1] = c /\ put[2] = "NUL"
<1> DEFINE S == {c, "NUL"}
<1>1. << c >> \in Seq(S) /\ << "NUL" >> \in Seq(S) /\ Len(<< c >>) = 1 /\ Len(<< "NUL" >>) = 1
  OBVIOUS
<1>2. /\ put \in Seq(S) /\ Len(put) = 2
      /\ \A i \in 1..2 : put[i] = IF i <= 1 THEN << c >>[i] ELSE << "NUL" >>[i - 1]
  BY <1>1, ConcatProperties
<1>3. DOMAIN put = 1..2
  BY <1>2
<1>4. put[1] = << c >>[1] /\ put[2] = << "NUL" >>[1]
  BY <1>2
<1> QED
  BY <1>2, <1>3, <1>4

(* A character, with the null after it if it is the delimiter.             *)
LEMMA PutProperties ==
  ASSUME NEW c, NEW two \in BOOLEAN, NEW put,
         put = << c >> \o IF two THEN << "NUL" >> ELSE <<>>
  PROVE  /\ Len(put) = (IF two THEN 2 ELSE 1) /\ DOMAIN put = 1..Len(put)
         /\ put[1] = c /\ (two => put[2] = "NUL")
<1>1. CASE two
  <2>1. put = << c >> \o << "NUL" >>
    BY <1>1
  <2> QED
    BY <1>1, <2>1, PairProperties
<1>2. CASE ~two
  <2>1. put = << c >>
    BY <1>2
  <2> QED
    BY <1>2, <2>1
<1> QED
  BY <1>1, <1>2

(* Stored after what is there, with room for it.                           *)
LEMMA StoredProperties ==
  ASSUME NEW b \in Seq(Stored), NEW p \in Nat, NEW put, NEW n \in 1..2,
         DOMAIN put = 1..n, \A i \in 1..n : put[i] \in Stored, p + n <= Len(b), NEW s,
         s = [i \in 1..Len(b) |-> IF i - p \in DOMAIN put THEN put[i - p] ELSE b[i]]
  PROVE  /\ s \in Seq(Stored) /\ Len(s) = Len(b)
         /\ \A i \in 1..p : s[i] = b[i]
         /\ \A i \in 1..n : s[p + i] = put[i]
<1>1. Len(b) \in Nat /\ \A i \in 1..Len(b) : b[i] \in Stored
  OBVIOUS
<1>2. ASSUME NEW i \in 1..Len(b)
      PROVE  (IF i - p \in DOMAIN put THEN put[i - p] ELSE b[i]) \in Stored
  BY <1>1
<1>3. s \in [1..Len(b) -> Stored]
  BY <1>2
<1>4. s \in Seq(Stored) /\ Len(s) = Len(b)
  BY <1>1, <1>3
<1>5. \A i \in 1..p : s[i] = b[i]
  BY <1>1
<1>6. ASSUME NEW i \in 1..n
      PROVE  s[p + i] = put[i]
  <2>1. p + i \in 1..Len(b) /\ (p + i) - p = i
    BY <1>1
  <2> QED
    BY <2>1
<1> QED
  BY <1>4, <1>5, <1>6

(* A character, or two, are read and stored where there is room for them.  *)
LEMMA NextCharStep == LineInv /\ NextChar => LineInv'
<1> SUFFICES ASSUME LineInv, NextChar PROVE LineInv'
  OBVIOUS
<1> DEFINE c == text[at + 1]
           two == line.fn = "getdelim" /\ c = "n"
           put == << c >> \o IF two THEN << "NUL" >> ELSE <<>>
           room == line.ptr + Len(put) <= Size
           stored == IF room THEN [i \in 1..Size |-> IF i - line.ptr \in DOMAIN put
                                                     THEN put[i - line.ptr] ELSE Buf[i]]
                     ELSE Buf
           grows == Full(line.ptr + 1) /\ (c # "n" \/ line.fn = "fgetln")
           next == [line EXCEPT !.ptr = @ + 1, !.ok = (@ /\ room), !.grows = grows]
<1>1. /\ line.busy /\ ~line.grows /\ at < Len(text)
      /\ lbuf' = [lbuf EXCEPT ![line.fn] = stored] /\ at' = at + 1
      /\ line' = IF c = "n" /\ ~grows
                 THEN [next EXCEPT !.busy = FALSE, !.ret = next.ptr] ELSE next
      /\ text' = text /\ from' = from
  BY DEF NextChar, Idle
<1>0. PICK p \in Nat : p = line.ptr
  BY DEF LineInv, LineTypes, Lines
<1>2. /\ text \in Seq(STRING) /\ at \in Int /\ from \in Int /\ 0 <= from /\ from <= at
      /\ at <= Len(text) /\ Len(text) \in Nat /\ Buf \in Seq(Stored) /\ Size \in Nat
      /\ Size = Len(Buf) /\ line \in Lines /\ line.ok /\ line.fn \in Fns
      /\ lbuf \in [Fns -> Seq(Stored)]
      /\ \A fn \in Fns : lbuf[fn] = <<>> \/ Len(lbuf[fn]) >= 2
  BY DEF LineInv, LineTypes, Lines, Buf, Size
<1>3. /\ Size >= 2 /\ p = at - from /\ p <= Size
      /\ \A i \in 1..p : Buf[i] = text[from + i]
      /\ \A i \in 1..(p - 1) : text[from + i] # "n"
      /\ p > 0 => text[at] # "n"
      /\ IF line.fn = "getdelim" THEN p + 2 <= Size ELSE p < Size
  BY <1>0, <1>1 DEF LineInv, BusyInv, Holds
<1>4. c \in Stored
  BY <1>1, <1>2 DEF Stored
<1>5. /\ Len(put) = (IF two THEN 2 ELSE 1) /\ DOMAIN put = 1..Len(put)
      /\ put[1] = c /\ (two => put[2] = "NUL")
  BY PutProperties
<1> HIDE DEF put, c
<1>6. room
  BY <1>0, <1>2, <1>3, <1>5
<1>7. /\ stored \in Seq(Stored) /\ Len(stored) = Size
      /\ \A i \in 1..p : stored[i] = Buf[i]
      /\ \A i \in 1..Len(put) : stored[p + i] = put[i]
  <2>1. stored = [i \in 1..Len(Buf) |-> IF i - p \in DOMAIN put THEN put[i - p] ELSE Buf[i]]
    BY <1>0, <1>2, <1>6
  <2>2. Len(put) \in 1..2 /\ p + Len(put) <= Len(Buf)
    BY <1>0, <1>2, <1>5, <1>6
  <2>3. ASSUME NEW i \in 1..Len(put)
        PROVE  put[i] \in Stored
    <3> HIDE DEF two
    <3>1. i = 1 \/ (i = 2 /\ two)
      BY <1>5
    <3>2. put[i] = c \/ put[i] = "NUL"
      BY <1>5, <3>1
    <3> QED
      <4>1. "NUL" \in Stored
        BY DEF Stored
      <4> QED
        BY <1>4, <3>2, <4>1, Zenon
  <2> HIDE DEF stored, room, two
  <2> QED
    BY <1>2, <1>5, <2>1, <2>2, <2>3, StoredProperties
<1>8. room \in BOOLEAN /\ grows \in BOOLEAN
  BY DEF Full
<1> HIDE DEF stored, room
<1>9. stored[p + 1] = c /\ (two => stored[p + 2] = "NUL")
  BY <1>5, <1>7
<1>10. /\ next \in Lines
       /\ next.fn = line.fn /\ next.ptr = p + 1 /\ next.ret = line.ret
       /\ next.busy /\ (next.grows <=> grows) /\ next.ok
  <2> HIDE DEF grows, two
  <2>0. next = [line EXCEPT !.ptr = @ + 1, !.ok = (@ /\ room), !.grows = grows]
    OBVIOUS
  <2> HIDE DEF next
  <2>1. /\ next \in Lines
        /\ next.fn = line.fn /\ next.ptr = line.ptr + 1 /\ next.ret = line.ret
        /\ (next.busy <=> line.busy) /\ (next.grows <=> grows) /\ (line.ok /\ room => next.ok)
    <3>1. PICK l \in Lines : l = line
      BY <1>2
    <3>2. PICK g \in BOOLEAN : g = grows
      BY <1>8
    <3>3. PICK r \in BOOLEAN : r = room
      BY <1>8
    <3>4. PICK n : n = next
      OBVIOUS
    <3>5. n = [l EXCEPT !.ptr = @ + 1, !.ok = (@ /\ r), !.grows = g]
      BY <2>0, <3>1, <3>2, <3>3, <3>4
    <3>6. /\ n \in Lines
          /\ n.fn = l.fn /\ n.ptr = l.ptr + 1 /\ n.ret = l.ret
          /\ (n.busy <=> l.busy) /\ (n.grows <=> g) /\ (l.ok /\ r => n.ok)
      <4> DEFINE o == l.ok /\ r
      <4>1. l.ptr + 1 \in Nat /\ o \in BOOLEAN
        BY DEF Lines
      <4>2. n = [l EXCEPT !.ptr = l.ptr + 1, !.ok = o, !.grows = g]
        BY <3>5
      <4> HIDE DEF o
      <4>3. n \in Lines
        BY <3>2, <4>1, <4>2 DEF Lines
      <4>4. n.fn = l.fn /\ n.ptr = l.ptr + 1 /\ n.ret = l.ret
        BY <4>2 DEF Lines
      <4>5. (n.busy <=> l.busy) /\ (n.grows <=> g)
        BY <4>2 DEF Lines
      <4>6. o => n.ok
        BY <4>2 DEF Lines
      <4> QED
        BY <4>3, <4>4, <4>5, <4>6 DEF o
    <3> QED
      BY <3>1, <3>2, <3>3, <3>4, <3>6
  <2> QED
    BY <1>0, <1>1, <1>2, <1>6, <2>1
<1> HIDE DEF next, grows, two
<1>11. /\ line'.fn = line.fn /\ line'.ptr = p + 1 /\ line'.ok /\ line' \in Lines
       /\ (line'.grows <=> grows)
       /\ (c = "n" /\ ~grows) => ~line'.busy /\ line'.ret = p + 1
       /\ ~(c = "n" /\ ~grows) => line'.busy
  <2>1. CASE c = "n" /\ ~grows
    <3>1. line' = [next EXCEPT !.busy = FALSE, !.ret = p + 1]
      BY <1>1, <1>10, <2>1
    <3>2. /\ line' \in Lines /\ line'.fn = next.fn /\ line'.ptr = next.ptr /\ line'.ret = p + 1
          /\ (line'.grows <=> next.grows) /\ (next.ok => line'.ok) /\ ~line'.busy
      <4>1. PICK n \in Lines : n = next
        BY <1>10
      <4>2. PICK m : m = line'
        OBVIOUS
      <4>3. p + 1 \in Int /\ m = [n EXCEPT !.busy = FALSE, !.ret = p + 1]
        BY <3>1, <4>1, <4>2
      <4>4. /\ m \in Lines /\ m.fn = n.fn /\ m.ptr = n.ptr /\ m.ret = p + 1
            /\ (m.grows <=> n.grows) /\ (n.ok => m.ok) /\ ~m.busy
        <5>1. m \in Lines
          BY <4>3 DEF Lines
        <5>2. m.fn = n.fn /\ m.ptr = n.ptr /\ m.ret = p + 1
          BY <4>3 DEF Lines
        <5>3. m.grows <=> n.grows
          BY <4>3 DEF Lines
        <5>4. n.ok => m.ok
          BY <4>3 DEF Lines
        <5>5. ~m.busy
          BY <4>3 DEF Lines
        <5> QED
          BY <5>1, <5>2, <5>3, <5>4, <5>5
      <4> QED
        BY <4>1, <4>2, <4>4
    <3> QED
      BY <1>0, <1>10, <2>1, <3>2
  <2>2. CASE ~(c = "n" /\ ~grows)
    BY <1>1, <1>10, <2>2
  <2> QED
    BY <2>1, <2>2
<1>12. Buf' = stored /\ Size' = Size
  BY <1>1, <1>2, <1>7, <1>11 DEF Buf, Size
<1>13. LineTypes'
  <2>1. lbuf' \in [Fns -> Seq(Stored)]
    BY <1>1, <1>2, <1>7
  <2>2. \A fn \in Fns : lbuf'[fn] = <<>> \/ Len(lbuf'[fn]) >= 2
    BY <1>1, <1>2, <1>3, <1>7
  <2>3. at' \in 0..Len(text') /\ from' \in 0..at'
    BY <1>1, <1>2
  <2> QED
    BY <1>1, <1>2, <1>11, <2>1, <2>2, <2>3 DEF LineTypes
<1>14. Holds(p + 1)'
  <2>1. p + 1 = at' - from' /\ p + 1 <= Size'
    BY <1>1, <1>2, <1>3, <1>12
  <2>2. ASSUME NEW i \in 1..(p + 1)
        PROVE  stored[i] = text[from + i]
    <3>1. CASE i \in 1..p
      BY <1>3, <1>7, <3>1
    <3>2. CASE i = p + 1
      <4>1. from + i = at + 1
        BY <1>2, <1>3, <3>2
      <4> QED
        BY <1>9, <3>2, <4>1 DEF c
    <3> QED
      BY <1>2, <3>1, <3>2
  <2>3. ASSUME NEW i \in 1..p
        PROVE  text[from + i] # "n"
    <3>1. CASE i \in 1..(p - 1)
      BY <1>3, <3>1
    <3>2. CASE i = p
      <4>1. from + i = at /\ p > 0
        BY <1>2, <1>3, <3>2
      <4> QED
        BY <1>3, <4>1
    <3> QED
      BY <1>2, <3>1, <3>2
  <2>4. (p + 1) - 1 = p
    BY <1>2
  <2> QED
    BY <1>1, <1>12, <2>1, <2>2, <2>3, <2>4 DEF Holds
<1>15. grows <=> (c # "n" \/ line.fn = "fgetln")
                 /\ IF line.fn = "getdelim" THEN p + 3 >= Size ELSE p + 1 = Size
  BY <1>0, <1>2 DEF grows, Full
<1>16. text'[at'] = c
  BY <1>1 DEF c
<1>17. BusyInv'
  <2> SUFFICES ASSUME line'.busy PROVE BusyInv'
    BY DEF BusyInv
  <2>1. c # "n" \/ grows
    BY <1>11
  <2>2. ~grows => IF line.fn = "getdelim" THEN p + 1 + 2 <= Size ELSE p + 1 < Size
    <3>1. CASE line.fn = "getdelim"
      BY <1>2, <1>15, <2>1, <3>1
    <3>2. CASE line.fn # "getdelim"
      <4>1. line.fn = "fgetln"
        BY <1>2, <3>2 DEF Fns
      <4>2. p < Size /\ (grows <=> p + 1 = Size)
        BY <1>3, <1>15, <3>2, <4>1
      <4> QED
        BY <1>2, <3>2, <4>2
    <3> QED
      BY <3>1, <3>2
  <2>3. grows /\ line.fn = "getdelim" => c # "n" /\ p + 2 <= Size
    BY <1>2, <1>3, <1>15
  <2>4. p + 1 > 0 /\ Size' >= 2
    BY <1>2, <1>3, <1>12
  <2> QED
    BY <1>1, <1>2, <1>11, <1>12, <1>14, <1>16, <2>1, <2>2, <2>3, <2>4 DEF BusyInv
<1>18. ReturnedInv'
  <2> SUFFICES ASSUME ~line'.busy PROVE ReturnedInv'
    BY DEF ReturnedInv
  <2>1. c = "n" /\ line'.ret = p + 1
    BY <1>11
  <2>2. line.fn = "getdelim" => stored[(p + 1) + 1] = "NUL"
    BY <1>2, <1>9, <2>1 DEF two
  <2> QED
    BY <1>11, <1>12, <1>14, <2>1, <2>2 DEF ReturnedInv
<1> QED
  BY <1>13, <1>17, <1>18 DEF LineInv

(* A file is opened where none was; what has been read is nothing.         *)
LEMMA OpenFileStep == LineInv /\ OpenFile => LineInv'
<1> SUFFICES ASSUME LineInv, OpenFile PROVE LineInv'
  OBVIOUS
<1>1. /\ text = <<>> /\ text' \in Seq(STRING) /\ UNCHANGED <<lbuf, line, at, from>>
  BY GrowingAssumption DEF OpenFile
<1>2. at = 0 /\ from = 0 /\ Len(text') \in Nat
  BY <1>1 DEF LineInv, LineTypes
<1>3. LineTypes'
  BY <1>1, <1>2 DEF LineInv, LineTypes
<1>4. line.busy => line.ptr = 0
  BY <1>2 DEF LineInv, BusyInv, Holds
<1>5. line.busy => Holds(0)'
  <2>1. Size \in Nat
    BY DEF LineInv, LineTypes, Lines, Buf, Size
  <2> QED
    BY <1>1, <1>2, <2>1 DEF Holds, Buf, Size
<1>6. BusyInv'
  BY <1>1, <1>4, <1>5 DEF LineInv, BusyInv, Holds, Buf, Size
<1>7. ~(~line.busy /\ line.ret > 0)
  BY <1>2 DEF LineInv, ReturnedInv, Holds, LineTypes, Lines
<1>8. ReturnedInv'
  BY <1>1, <1>7 DEF ReturnedInv
<1> QED
  BY <1>3, <1>6, <1>8 DEF LineInv

(* A call begins with an empty line in a buffer that has room for it.      *)
LEMMA CallLineStep == LineInv /\ CallLine => LineInv'
<1> SUFFICES ASSUME LineInv, CallLine PROVE LineInv'
  OBVIOUS
<1>1. PICK fn \in Fns, n \in LineSizes \cup {BUFSIZ} :
        /\ lbuf' = IF lbuf[fn] # <<>> THEN lbuf ELSE [lbuf EXCEPT ![fn] = Junk(n)]
        /\ line' = [NoLine EXCEPT !.fn = fn, !.busy = TRUE]
  BY DEF CallLine, Fns
<1>2. from' = at /\ text' = text /\ at' = at
  BY DEF CallLine
<1>3. /\ text \in Seq(STRING) /\ at \in Int /\ 0 <= at /\ at <= Len(text) /\ from \in Int
      /\ lbuf \in [Fns -> Seq(Stored)]
      /\ \A f \in Fns : lbuf[f] = <<>> \/ Len(lbuf[f]) >= 2
  BY DEF LineInv, LineTypes
<1>4. /\ line' \in Lines /\ line'.fn = fn /\ line'.ptr = 0
  <2>1. NoLine \in Lines
    BY DEF NoLine, Lines, Fns
  <2>2. line' \in Lines
    BY <1>1, <2>1 DEF Lines
  <2>3. line'.fn = fn /\ line'.ptr = 0
    BY <1>1 DEF NoLine
  <2> QED
    BY <2>2, <2>3
<1>5. line'.busy /\ ~line'.grows
  BY <1>1 DEF NoLine, Lines, Fns
<1>6. line'.ok
  BY <1>1 DEF NoLine, Lines, Fns
<1>7. Junk(n) \in Seq(Stored) /\ Len(Junk(n)) >= 2
  <2>1. n \in Nat /\ n >= 2
    BY GrowingAssumption
  <2> QED
    BY <2>1 DEF Junk, Stored
<1>8. /\ lbuf' \in [Fns -> Seq(Stored)]
      /\ \A f \in Fns : lbuf'[f] = <<>> \/ Len(lbuf'[f]) >= 2
      /\ Len(lbuf'[fn]) >= 2
  <2>1. CASE lbuf[fn] # <<>>
    BY <1>1, <1>3, <2>1
  <2>2. CASE lbuf[fn] = <<>>
    BY <1>1, <1>3, <1>7, <2>2
  <2> QED
    BY <2>1, <2>2
<1>9. Buf' = lbuf'[fn] /\ Size' >= 2 /\ Size' \in Nat
  BY <1>4, <1>8 DEF Buf, Size
<1>10. LineTypes'
  BY <1>2, <1>3, <1>4, <1>6, <1>8 DEF LineTypes
<1>11. Holds(0)'
  BY <1>2, <1>3, <1>9 DEF Holds
<1>12. BusyInv'
  BY <1>4, <1>5, <1>9, <1>11 DEF BusyInv, Holds
<1>13. ReturnedInv'
  BY <1>5 DEF ReturnedInv
<1> QED
  BY <1>10, <1>12, <1>13 DEF LineInv

(* The caller frees the buffer of getdelim.                                *)
LEMMA FreeLineStep == LineInv /\ FreeLine => LineInv'
<1> SUFFICES ASSUME LineInv, FreeLine PROVE LineInv'
  OBVIOUS
<1>1. /\ lbuf' = [lbuf EXCEPT !.getdelim = <<>>] /\ line' = NoLine /\ from' = at
      /\ text' = text /\ at' = at
  BY DEF FreeLine
<1>2. /\ text \in Seq(STRING) /\ at \in Int /\ 0 <= at /\ at <= Len(text) /\ from \in Int
      /\ lbuf \in [Fns -> Seq(Stored)]
      /\ \A f \in Fns : lbuf[f] = <<>> \/ Len(lbuf[f]) >= 2
  BY DEF LineInv, LineTypes
<1>3. NoLine \in Lines /\ NoLine.ok /\ ~NoLine.busy /\ NoLine.ret = 0
  BY DEF NoLine, Lines, Fns
<1>4. /\ lbuf' \in [Fns -> Seq(Stored)]
      /\ \A f \in Fns : lbuf'[f] = <<>> \/ Len(lbuf'[f]) >= 2
  <2>1. <<>> \in Seq(Stored) /\ "getdelim" \in Fns
    BY DEF Fns
  <2>2. lbuf' \in [Fns -> Seq(Stored)]
    BY <1>1, <1>2, <2>1
  <2>3. \A f \in Fns : lbuf'[f] = <<>> \/ lbuf'[f] = lbuf[f]
    BY <1>1, <1>2
  <2> QED
    BY <1>2, <2>2, <2>3
<1>5. LineTypes'
  <2>1. line' \in Lines /\ line'.ok
    BY <1>1, <1>3
  <2>2. text' \in Seq(STRING) /\ at' \in 0..Len(text') /\ from' \in 0..at'
    BY <1>1, <1>2
  <2> QED
    BY <1>4, <2>1, <2>2 DEF LineTypes
<1> QED
  BY <1>1, <1>3, <1>5 DEF LineInv, BusyInv, ReturnedInv

(* At the end of the file, or after an error, what was read is returned or *)
(* the call fails.                                                         *)
LEMMA EndOfFileStep == LineInv /\ EndOfFile => LineInv'
<1> SUFFICES ASSUME LineInv, EndOfFile PROVE LineInv'
  OBVIOUS
<1>1. /\ line.busy /\ ~line.grows /\ UNCHANGED <<lbuf, text, at, from>>
      /\ line.ptr \in Nat /\ line \in Lines /\ line.ok
  BY DEF EndOfFile, Idle, LineInv, LineTypes, Lines
<1>2. PICK k \in {-1, line.ptr} : line' = [line EXCEPT !.busy = FALSE, !.ret = k]
  BY DEF EndOfFile, Returns
<1>3. line' \in Lines
  <2>1. k \in Int
    BY <1>1
  <2> QED
    BY <1>1, <1>2, <2>1 DEF Lines
<1>4. line'.fn = line.fn /\ line'.ret = k
  BY <1>1, <1>2 DEF Lines
<1>5. line'.ok
  BY <1>1, <1>2 DEF Lines
<1>6. ~line'.busy
  BY <1>1, <1>2 DEF Lines
<1>7. LineTypes'
  BY <1>1, <1>3, <1>5 DEF LineInv, LineTypes
<1>8. /\ Holds(line.ptr) /\ (line.ptr > 0 => text[at] # "n")
  BY <1>1 DEF LineInv, BusyInv
<1>9. ReturnedInv'
  <2> SUFFICES ASSUME line'.ret > 0 PROVE ReturnedInv'
    BY DEF ReturnedInv
  <2>1. k = line.ptr /\ line.ptr > 0
    BY <1>1, <1>4
  <2>2. Buf' = Buf /\ Size' = Size
    BY <1>1, <1>4 DEF Buf, Size
  <2>3. Holds(line.ret)'
    BY <1>1, <1>4, <1>8, <2>1, <2>2 DEF Holds
  <2> QED
    BY <1>1, <1>8, <2>1, <2>3 DEF ReturnedInv
<1> QED
  BY <1>6, <1>7, <1>9 DEF LineInv, BusyInv

(* A call that returns is a call.                                          *)
LEMMA ReturnsType ==
  ASSUME line \in Lines, NEW k \in Int
  PROVE  Returns(k) \in Lines
BY DEF Returns, Lines

(* Twice the room, with what was stored; or no memory and no line.         *)
LEMMA GrowStep == LineInv /\ Grow => LineInv'
<1> SUFFICES ASSUME LineInv, Grow PROVE LineInv'
  OBVIOUS
<1>1. /\ line.busy /\ line.grows /\ UNCHANGED <<text, at, from>>
      /\ line.ptr \in Nat /\ line \in Lines /\ line.ok /\ line.fn \in Fns
  BY DEF Grow, Idle, LineInv, LineTypes, Lines
<1>2. /\ text \in Seq(STRING) /\ at \in Int /\ from \in Int /\ 0 <= from /\ from <= at
      /\ at <= Len(text) /\ Buf \in Seq(Stored) /\ Size \in Nat /\ Size = Len(Buf)
      /\ lbuf \in [Fns -> Seq(Stored)] /\ Buf = lbuf[line.fn]
      /\ \A fn \in Fns : lbuf[fn] = <<>> \/ Len(lbuf[fn]) >= 2
  BY <1>1 DEF LineInv, LineTypes, Buf, Size
<1>3. PICK p \in Nat : p = line.ptr
  BY <1>1
<1>4. /\ Size >= 2 /\ p = at - from /\ p <= Size /\ p > 0
      /\ \A i \in 1..p : Buf[i] = text[from + i]
      /\ \A i \in 1..(p - 1) : text[from + i] # "n"
      /\ line.fn = "getdelim" => text[at] # "n" /\ p + 1 <= Size
  BY <1>1, <1>3 DEF LineInv, BusyInv, Holds
<1>5. CASE /\ lbuf' = [lbuf EXCEPT ![line.fn] = @ \o Junk(Size)]
           /\ line' = IF Buf[line.ptr] = "n"
                      THEN [Returns(line.ptr) EXCEPT !.grows = FALSE]
                      ELSE [line EXCEPT !.grows = FALSE]
  <2> DEFINE b == Buf
             j == Junk(Size)
  <2>1. j \in Seq(Stored) /\ Len(j) = Size /\ b \in Seq(Stored) /\ Len(b) = Size
    BY <1>2 DEF Junk, Stored
  <2>2. lbuf' = [lbuf EXCEPT ![line.fn] = b \o j]
    BY <1>2, <1>5
  <2>3. b[p] = text[at]
    BY <1>2, <1>4
  <2>4. \A i \in 1..p : b[i] = text[from + i]
    BY <1>4
  <2> HIDE DEF b, j
  <2>5. /\ b \o j \in Seq(Stored) /\ Len(b \o j) = Len(b) + Len(j)
        /\ \A i \in 1..(Len(b) + Len(j)) : (b \o j)[i] = IF i <= Len(b) THEN b[i] ELSE j[i - Len(b)]
    BY <2>1, ConcatProperties
  <2>6. Len(b \o j) = 2 * Size /\ \A i \in 1..p : (b \o j)[i] = text[from + i]
    <3>1. Len(b \o j) = 2 * Size
      <4>1. Len(b \o j) = Size + Size
        BY <2>1, <2>5, Zenon
      <4>2. Size + Size = 2 * Size
        BY <1>2
      <4> QED
        BY <4>1, <4>2, Zenon
    <3>2. ASSUME NEW i \in 1..p
          PROVE  (b \o j)[i] = text[from + i]
      <4>1. i \in 1..(Len(b) + Len(j)) /\ i <= Len(b)
        BY <1>2, <1>4, <2>1
      <4> QED
        BY <2>4, <2>5, <4>1
    <3> QED
      BY <3>1, <3>2
  <2>7. line' \in Lines
    <3>1. [line EXCEPT !.grows = FALSE] \in Lines
      BY <1>1 DEF Lines
    <3>2. Returns(line.ptr) \in Lines
      <4>1. line.ptr \in Int
        BY <1>1
      <4> QED
        BY <1>1, <4>1, ReturnsType
    <3>3. [Returns(line.ptr) EXCEPT !.grows = FALSE] \in Lines
      BY <3>2 DEF Lines
    <3> QED
      BY <1>5, <3>1, <3>3
  <2>8. line'.fn = line.fn /\ line'.ptr = line.ptr
    BY <1>1, <1>5 DEF Lines, Returns
  <2>9. line'.ok
    BY <1>1, <1>5 DEF Lines, Returns
  <2>10. ~line'.grows
    BY <1>1, <1>5 DEF Lines, Returns
  <2>11. line'.busy => text[at] # "n"
    <3>1. CASE text[at] = "n"
      <4>1. line' = [Returns(line.ptr) EXCEPT !.grows = FALSE]
        BY <1>3, <1>5, <2>3, <3>1 DEF b
      <4> QED
        BY <1>1, <4>1 DEF Lines, Returns
    <3> QED
      BY <3>1
  <2>12. ~line'.busy => text[at] = "n" /\ line'.ret = p
    <3>1. CASE text[at] = "n"
      <4>1. line' = [Returns(line.ptr) EXCEPT !.grows = FALSE]
        BY <1>3, <1>5, <2>3, <3>1 DEF b
      <4>2. line'.ret = line.ptr
        BY <1>1, <4>1 DEF Lines, Returns
      <4> QED
        BY <1>3, <3>1, <4>2
    <3>2. CASE text[at] # "n"
      <4>1. line' = [line EXCEPT !.grows = FALSE]
        BY <1>3, <1>5, <2>3, <3>2 DEF b
      <4>2. line'.busy
        BY <1>1, <4>1 DEF Lines
      <4> QED
        BY <4>2
    <3> QED
      BY <3>1, <3>2
  <2>13. Buf' = b \o j /\ Size' = 2 * Size
    BY <1>1, <1>2, <2>2, <2>6, <2>8 DEF Buf, Size
  <2>14. LineTypes'
    <3>1. lbuf' \in [Fns -> Seq(Stored)]
      BY <1>2, <2>2, <2>5
    <3>2. \A fn \in Fns : lbuf'[fn] = <<>> \/ Len(lbuf'[fn]) >= 2
      BY <1>1, <1>2, <1>4, <2>2, <2>6
    <3>3. text' \in Seq(STRING) /\ at' \in 0..Len(text') /\ from' \in 0..at'
      BY <1>1, <1>2
    <3> QED
      BY <2>7, <2>9, <3>1, <3>2, <3>3 DEF LineTypes
  <2>15. Holds(p)'
    <3>1. p = at - from /\ p <= Size /\ Size \in Nat /\ at' = at /\ from' = from /\ text' = text
      BY <1>1, <1>2, <1>4
    <3>2. p <= Size' /\ p = at' - from'
      BY <1>1, <1>2, <2>13, <3>1
    <3>3. \A i \in 1..p : Buf'[i] = text'[from' + i]
      BY <2>6, <2>13, <3>1
    <3>4. \A i \in 1..(p - 1) : text'[from' + i] # "n"
      BY <1>4, <3>1
    <3> QED
      BY <3>2, <3>3, <3>4 DEF Holds
  <2>16. BusyInv'
    <3> SUFFICES ASSUME line'.busy PROVE BusyInv'
      BY DEF BusyInv
    <3>1. line'.ptr = p /\ text'[at'] # "n"
      BY <1>1, <1>3, <2>8, <2>11
    <3>2. Size' >= 2 /\ p + 2 <= Size' /\ p < Size'
      <4>1. line'.fn = "getdelim" => p + 1 <= Size
        BY <1>4, <2>8
      <4> QED
        BY <1>2, <1>4, <2>13
    <3> QED
      BY <2>10, <2>15, <3>1, <3>2 DEF BusyInv
  <2>17. ReturnedInv'
    <3> SUFFICES ASSUME ~line'.busy PROVE ReturnedInv'
      BY DEF ReturnedInv
    <3>1. line'.ret = p /\ line'.fn # "getdelim"
      BY <1>4, <2>8, <2>12
    <3> QED
      BY <2>15, <3>1 DEF ReturnedInv
  <2> QED
    BY <2>14, <2>16, <2>17 DEF LineInv
<1>6. CASE /\ lbuf' = IF line.fn = "fgetln" THEN [lbuf EXCEPT !.fgetln = <<>>] ELSE lbuf
           /\ line' = [Returns(-1) EXCEPT !.grows = FALSE]
  <2>1. line' \in Lines
    <3>1. Returns(-1) \in Lines
      BY <1>1, ReturnsType
    <3> QED
      BY <1>6, <3>1 DEF Lines
  <2>2. line'.ok
    BY <1>1, <1>6 DEF Lines, Returns
  <2>3. ~line'.busy
    BY <1>1, <1>6 DEF Lines, Returns
  <2>4. line'.ret = -1
    BY <1>1, <1>6 DEF Lines, Returns
  <2>5. LineTypes'
    <3>1. lbuf' \in [Fns -> Seq(Stored)]
      <4>1. <<>> \in Seq(Stored) /\ "fgetln" \in Fns
        BY DEF Fns
      <4> QED
        BY <1>2, <1>6, <4>1
    <3>2. \A fn \in Fns : lbuf'[fn] = <<>> \/ lbuf'[fn] = lbuf[fn]
      BY <1>2, <1>6
    <3>3. \A fn \in Fns : lbuf'[fn] = <<>> \/ Len(lbuf'[fn]) >= 2
      BY <1>2, <3>2
    <3>4. text' \in Seq(STRING) /\ at' \in 0..Len(text') /\ from' \in 0..at'
      BY <1>1, <1>2
    <3> QED
      BY <2>1, <2>2, <3>1, <3>3, <3>4 DEF LineTypes
  <2> QED
    BY <2>3, <2>4, <2>5 DEF LineInv, BusyInv, ReturnedInv
<1> QED
  BY <1>5, <1>6 DEF Grow

(* Where the line buffers are left alone.                                  *)
LEMMA LineKept == LineInv /\ UNCHANGED lineVars => LineInv'
BY DEF lineVars, LineInv, LineTypes, BusyInv, ReturnedInv, Holds, Buf, Size

(* Every step of the list and of the lines keeps both invariants.          *)
LEMMA GrowthStep == SlInv /\ LineInv /\ [GrowNext]_growVars => SlInv' /\ LineInv'
<1> SUFFICES ASSUME SlInv, LineInv, [GrowNext]_growVars PROVE SlInv' /\ LineInv'
  OBVIOUS
<1>1. CASE SlNext
  <2>1. UNCHANGED lineVars
    BY <1>1 DEF SlNext, sl_init, sl_add, sl_delete, sl_free
  <2> QED
    BY <1>1, <2>1, SlStep, LineKept
<1>2. CASE LineNext
  <2>1. UNCHANGED slVars
    BY <1>2 DEF LineNext, OpenFile, CallLine, NextChar, Grow, EndOfFile, FreeLine
  <2>2. LineInv'
    BY <1>2, OpenFileStep, CallLineStep, NextCharStep, GrowStep, EndOfFileStep, FreeLineStep
       DEF LineNext
  <2> QED
    BY <2>1, <2>2, SlStep
<1>3. CASE UNCHANGED growVars
  <2>1. UNCHANGED slVars /\ UNCHANGED lineVars
    BY <1>3 DEF growVars, slVars, lineVars
  <2> QED
    BY <2>1, SlStep, LineKept
<1> QED
  BY <1>1, <1>2, <1>3 DEF GrowNext

(* The string list and the line buffers keep their invariants.             *)
LEMMA GrowthInvariant == GrowSpec => [](SlInv /\ LineInv)
<1>1. GrowInit => SlInv /\ LineInv
  BY SlInitially, LineInitially
<1> QED
  BY <1>1, GrowthStep, PTL DEF GrowSpec

(* For every growth and first size of the arrays, every file and failure   *)
(* of memory: the list holds the strings that were added and not deleted,  *)
(* in order, and none that was freed; no line is stored past the end of    *)
(* its buffer, and one that is returned is what was read, up to the first  *)
(* delimiter.                                                              *)
THEOREM GrowthLosesNothing == GrowSpec => []GrowthKeeps
<1>1. SlInv /\ LineInv => GrowthKeeps
  BY SlInvKeeps, LineInvKeeps DEF GrowthKeeps
<1> QED
  BY <1>1, GrowthInvariant, PTL

-----------------------------------------------------------------------------
(* setmode: every command and the terminator are written inside the array, *)
(* and the mask of zero is never seen by a signal handler.                 *)

Parses ==
  [who : SUBSET AllBits, op : {"+", "-", "="}, perm : SUBSET AllBits,
   x : SUBSET AllBits, eq : BOOLEAN]
Arrays == [cmds : Seq(Commands), setlen : Nat, fits : BOOLEAN]

(* Where setmode reads characters and may use ADDCMD.                      *)
Reading == {"first", "who", "op", "perm"}

(* What the commands are made of has its type, and while setmode reads     *)
(* there is always a place left for the terminator.                        *)
ArrayInv ==
  /\ {umask, mask} \subseteq SUBSET AllBits
  /\ parse \in Parses /\ arr \in Arrays
  /\ arr.fits
  /\ mph \in Reading => Len(arr.cmds) < arr.setlen

(* Where the mask is, at every one of the system calls.                    *)
MaskInv ==
  /\ mph \in {"zero", "restore", "unblock"} => blocked
  /\ mph = "restore" => mask = process
  /\ mph \notin {"idle", "restore"} => umask = process

-----------------------------------------------------------------------------
(* Lemmas: what ADDCMD does to the array.                                  *)

(* The bits a command may be about.                                        *)
LEMMA BitsType ==
  /\ STANDARD_BITS \subseteq AllBits /\ IX \subseteq AllBits
  /\ (Class \X Rwx) \subseteq AllBits
BY DEF STANDARD_BITS, AllBits, IX, Rwx

(* The array grows in time for two commands and the terminator.            *)
LEMMA GrowsInTime ==
  ASSUME NEW n \in Nat, NEW new \in 1 .. 2, NEW room \in Nat, n < room
  PROVE  LET setlen == IF n >= room - 2 THEN room + SET_LEN_INCR ELSE room
         IN  setlen \in Nat /\ n + new < setlen
BY SetLenAssumption

(* An array with room for the terminator still has it after ADDCMD, which  *)
(* has written nothing outside.                                            *)
LEMMA RoomKept ==
  ASSUME NEW a \in Arrays, a.fits, Len(a.cmds) < a.setlen,
         NEW op, NEW who, NEW oparg, NEW m,
         addcmd(op, who, oparg, m) \in Seq(Commands),
         Len(addcmd(op, who, oparg, m)) \in 1 .. 2
  PROVE  LET b == ADDCMD(a, op, who, oparg, m)
         IN  b \in Arrays /\ b.fits /\ Len(b.cmds) < b.setlen
<1> DEFINE new == addcmd(op, who, oparg, m)
           cmds == a.cmds \o new
           setlen == IF Len(a.cmds) >= a.setlen - 2 THEN a.setlen + SET_LEN_INCR
                     ELSE a.setlen
<1>1. /\ a.cmds \in Seq(Commands) /\ a.setlen \in Nat
      /\ new \in Seq(Commands) /\ Len(new) \in 1 .. 2
  BY DEF Arrays
<1>2. ADDCMD(a, op, who, oparg, m) =
        [cmds |-> cmds, setlen |-> setlen, fits |-> a.fits /\ Len(cmds) <= setlen]
  BY DEF ADDCMD
<1> HIDE DEF new
<1>3. cmds \in Seq(Commands) /\ Len(cmds) = Len(a.cmds) + Len(new) /\ Len(a.cmds) \in Nat
  BY <1>1
<1> HIDE DEF cmds
<1>4. setlen \in Nat /\ Len(cmds) < setlen
  BY <1>1, <1>3, GrowsInTime
<1> HIDE DEF setlen
<1>5. Len(cmds) <= setlen
  BY <1>3, <1>4
<1> QED BY <1>2, <1>3, <1>4, <1>5 DEF Arrays

(* addcmd with the bits of +, -, = and X: well formed, two commands at    *)
(* most.                                                                   *)
LEMMA BitCommands ==
  ASSUME NEW op \in {"=", "+", "-", "X"}, NEW who \in SUBSET AllBits,
         NEW perm \in SUBSET AllBits, NEW m \in SUBSET AllBits
  PROVE  /\ addcmd(op, who, perm, m) \in Seq(Commands)
         /\ Len(addcmd(op, who, perm, m)) \in 1 .. 2
<1> DEFINE bits == (IF who = {} THEN m ELSE who) \cap perm
           clear == Command("-", IF who = {} THEN STANDARD_BITS ELSE who, {})
<1>1. bits \in SUBSET AllBits
  OBVIOUS
<1>2. \A c \in {"+", "-", "X"} : Command(c, bits, {}) \in Commands
  BY <1>1 DEF Command, Commands
<1>3. clear \in Commands
  BY BitsType DEF Command, Commands
<1>0. op \notin Class
  BY DEF Class
<1>4. CASE op = "="
  <2>1. addcmd(op, who, perm, m) = << clear, Command("+", bits, {}) >>
    BY <1>4, <1>0 DEF addcmd
  <2> HIDE DEF bits, clear
  <2> QED BY <1>2, <1>3, <2>1
<1>5. CASE op \in {"+", "-", "X"}
  <2>1. addcmd(op, who, perm, m) = << Command(op, bits, {}) >>
    BY <1>5, <1>0 DEF addcmd
  <2> HIDE DEF bits
  <2> QED BY <1>2, <1>5, <2>1
<1> QED BY <1>4, <1>5

(* addcmd with a class whose bits are copied: one command.                 *)
LEMMA CopyCommands ==
  ASSUME NEW c \in Class, NEW who \in SUBSET AllBits, NEW op \in {"+", "-", "="},
         NEW m \in SUBSET AllBits
  PROVE  /\ addcmd(c, who, op, m) \in Seq(Commands)
         /\ Len(addcmd(c, who, op, m)) \in 1 .. 2
<1> DEFINE flags == CASE op = "+" -> {"SET"}
                      [] op = "-" -> {"CLR"}
                      [] op = "=" -> {"SET", "CLR"}
                      [] OTHER -> {}
           classes == {d \in Class : who = {} \/ <<d, "r">> \in who}
           copy == Command(c, IF who = {} THEN m ELSE AllBits, flags \cup classes)
<1>1. c \notin {"=", "+", "-", "X"}
  BY DEF Class
<1>2. addcmd(c, who, op, m) = << copy >>
  BY <1>1 DEF addcmd
<1>3. flags \cup classes \in SUBSET (Class \cup {"SET", "CLR"})
  OBVIOUS
<1> HIDE DEF flags, classes
<1>4. copy \in Commands
  BY <1>3 DEF Command, Commands
<1> HIDE DEF copy
<1> QED BY <1>2, <1>4

-----------------------------------------------------------------------------
(* The array.                                                              *)

(* An array that setmode may write to.                                     *)
Roomy(a) == a \in Arrays /\ a.fits /\ Len(a.cmds) < a.setlen

(* ADDCMD with bits, or not, keeps the array so.                           *)
LEMMA AddIfKept ==
  ASSUME NEW when \in BOOLEAN, NEW a, Roomy(a), NEW op \in {"=", "+", "-", "X"},
         NEW arg \in SUBSET AllBits, parse \in Parses, mask \in SUBSET AllBits
  PROVE  Roomy(AddIf(when, a, op, arg))
<1>1. parse.who \in SUBSET AllBits
  BY DEF Parses
<1>2. Roomy(ADDCMD(a, op, parse.who, arg, mask))
  BY <1>1, BitCommands, RoomKept DEF Roomy
<1> QED BY <1>2 DEF AddIf

(* The array is well formed and fits when setmode starts and stays so      *)
(* through every system call, every character and every failure.           *)
LEMMA ArrayStep == ArrayInv /\ [ModeNext]_modeVars => ArrayInv'
<1> SUFFICES ASSUME ArrayInv, [ModeNext]_modeVars PROVE ArrayInv'
  OBVIOUS
<1>0. /\ umask \in SUBSET AllBits /\ mask \in SUBSET AllBits
      /\ parse \in Parses /\ arr \in Arrays /\ arr.fits
      /\ mph \in Reading => Roomy(arr)
  BY DEF ArrayInv, Roomy
<1>f. ASSUME Fail PROVE arr' \in Arrays /\ arr'.fits /\ mph' \notin Reading
  <2>1. << >> \in Seq(Commands)
    OBVIOUS
  <2> QED BY <1>f, <2>1 DEF Fail, NoArr, Arrays, Reading
<1>1. CASE BlockSignals \/ ZeroUmask \/ RestoreUmask \/ UnblockSignals
  <2>1. mph' \notin Reading /\ UNCHANGED <<parse, arr>>
    BY <1>1 DEF BlockSignals, ZeroUmask, RestoreUmask, UnblockSignals, Reading
  <2>2. umask' \in SUBSET AllBits /\ mask' \in SUBSET AllBits
    <3>1. CASE BlockSignals
      BY <1>0, <3>1, ModesAssumption, BitsType DEF BlockSignals
    <3>2. CASE ZeroUmask \/ RestoreUmask \/ UnblockSignals
      BY <1>0, <3>2 DEF ZeroUmask, RestoreUmask, UnblockSignals
    <3> QED BY <1>1, <3>1, <3>2
  <2> QED BY <1>0, <2>1, <2>2 DEF ArrayInv
<1>2. CASE FirstArray
  <2>1. CASE mph' = "first" /\ arr' = [NoArr EXCEPT !.setlen = SET_LEN + 2]
    <3>1. arr' = [cmds |-> << >>, setlen |-> SET_LEN + 2, fits |-> TRUE]
      BY <2>1 DEF NoArr
    <3>2. SET_LEN + 2 \in Nat /\ 0 < SET_LEN + 2
      BY SetLenAssumption
    <3>3. << >> \in Seq(Commands) /\ Len(<< >>) = 0
      OBVIOUS
    <3>4. Roomy(arr')
      BY <3>1, <3>2, <3>3 DEF Roomy, Arrays
    <3> QED BY <1>0, <1>2, <3>4 DEF FirstArray, ArrayInv, Roomy
  <2>2. CASE Fail
    BY <1>0, <1>2, <1>f, <2>2 DEF FirstArray, ArrayInv
  <2> QED BY <1>2, <2>1, <2>2 DEF FirstArray
<1>t. ASSUME NEW a, Roomy(a) PROVE Terminate(a) \in Arrays /\ Terminate(a).fits
  BY <1>t DEF Roomy, Terminate, Arrays
<1>3. CASE Absolute
  <2>1. Roomy(arr) /\ UNCHANGED <<umask, mask, parse>>
    BY <1>0, <1>3 DEF Absolute, Reading
  <2>2. ASSUME NEW perm \in Absolutes,
               arr' = Terminate(ADDCMD(arr, "=", STANDARD_BITS \cup {ISTXT}, perm, mask)),
               mph' = "done"
        PROVE  ArrayInv'
    <3>1. perm \in SUBSET AllBits /\ STANDARD_BITS \cup {ISTXT} \in SUBSET AllBits
      BY ModesAssumption DEF AllBits
    <3>2. Roomy(ADDCMD(arr, "=", STANDARD_BITS \cup {ISTXT}, perm, mask))
      BY <1>0, <2>1, <3>1, BitCommands, RoomKept DEF Roomy
    <3> QED BY <1>0, <1>t, <2>1, <2>2, <3>2 DEF ArrayInv, Reading
  <2>3. CASE Fail
    BY <1>0, <1>f, <2>1, <2>3 DEF ArrayInv
  <2> QED BY <1>3, <2>2, <2>3 DEF Absolute
<1>4. CASE Who
  <2>1. PICK c \in {"a", "u", "g", "o"} :
          parse' = [parse EXCEPT !.who = @ \cup WhoBits(c)]
    BY <1>4 DEF Who
  <2>2. WhoBits(c) \in SUBSET AllBits
    BY DEF WhoBits, STANDARD_BITS, AllBits, Class, Rwx
  <2>3. parse' \in Parses
    BY <1>0, <2>1, <2>2 DEF Parses
  <2> QED BY <1>0, <1>4, <2>3 DEF Who, KeepMask, ArrayInv, Reading, Roomy
<1>5. CASE GetOp
  <2>1. UNCHANGED <<umask, mask>> /\ Roomy(arr)
    BY <1>0, <1>5 DEF GetOp, KeepMask, Reading
  <2>2. ASSUME NEW c \in {"+", "-", "="}, mph' = "perm", UNCHANGED arr,
               parse' = [who |-> parse.who \ {ISTXT}, op |-> c, perm |-> {}, x |-> {},
                         eq |-> parse.eq /\ c # "="]
        PROVE  ArrayInv'
    <3>1. parse' \in Parses
      BY <1>0, <2>2 DEF Parses
    <3> QED BY <1>0, <2>1, <2>2, <3>1 DEF ArrayInv, Roomy
  <2>3. CASE Fail /\ UNCHANGED parse
    BY <1>0, <1>f, <2>1, <2>3 DEF ArrayInv
  <2> QED BY <1>5, <2>2, <2>3 DEF GetOp
<1>6. CASE Perm
  <2>1. PICK c \in {"r", "w", "x", "X", "s", "t"} :
          parse' =
            CASE c \in Rwx -> [parse EXCEPT !.perm = @ \cup (Class \X {c})]
              [] c = "X" -> [parse EXCEPT !.x = IX]
              [] c = "s" /\ SetIdCounts -> [parse EXCEPT !.perm = @ \cup {ISUID, ISGID}]
              [] c = "t" /\ SetIdCounts -> [parse EXCEPT !.perm = @ \cup {ISTXT},
                                                         !.who = @ \cup {ISTXT}]
              [] OTHER -> parse
    BY <1>6 DEF Perm
  <2>2. /\ {ISUID, ISGID} \in SUBSET AllBits /\ {ISTXT} \in SUBSET AllBits
        /\ c \in Rwx => Class \X {c} \in SUBSET AllBits
    BY DEF AllBits, STANDARD_BITS
  <2>3. parse' \in Parses
    <3>1. CASE c \in Rwx
      BY <1>0, <2>1, <2>2, <3>1 DEF Parses, Rwx
    <3>2. CASE c = "X"
      BY <1>0, <2>1, <3>2, BitsType DEF Parses, Rwx
    <3>3. CASE c = "s" /\ SetIdCounts
      BY <1>0, <2>1, <2>2, <3>3 DEF Parses, Rwx
    <3>4. CASE c = "t" /\ SetIdCounts
      BY <1>0, <2>1, <2>2, <3>4 DEF Parses, Rwx
    <3>5. CASE c \in {"s", "t"} /\ ~ SetIdCounts
      BY <1>0, <2>1, <3>5 DEF Rwx
    <3> QED BY <3>1, <3>2, <3>3, <3>4, <3>5 DEF Rwx
  <2> QED BY <1>0, <1>6, <2>3 DEF Perm, KeepMask, ArrayInv, Roomy
<1>7. CASE CopyFrom
  <2>1. UNCHANGED <<umask, mask>> /\ Roomy(arr)
    BY <1>0, <1>7 DEF CopyFrom, KeepMask, Reading
  <2>2. /\ parse.op \in {"=", "+", "-", "X"} /\ parse.op \in {"+", "-", "="}
        /\ {parse.who, parse.perm, parse.x} \subseteq SUBSET AllBits
    BY <1>0 DEF Parses
  <2> DEFINE withX == parse.op = "+" /\ parse.x # {}
             flushed == AddIf(withX, AddIf(parse.perm # {}, arr, parse.op, parse.perm),
                              "X", parse.x)
             added(c) == ADDCMD(flushed, c, parse.who, parse.op, mask)
  <2>3. Roomy(flushed)
    BY <1>0, <2>1, <2>2, AddIfKept
  <2>4. ASSUME NEW c \in Class PROVE Roomy(added(c))
    <3> HIDE DEF flushed
    <3> QED BY <1>0, <2>2, <2>3, CopyCommands, RoomKept DEF Roomy
  <2>5. ASSUME NEW c \in Class, arr' = added(c), mph' = "perm",
               parse' = [parse EXCEPT !.perm = {}, !.x = IF withX THEN {} ELSE @,
                                      !.eq = (@ \/ parse.op = "=")]
        PROVE  ArrayInv'
    <3>1. parse' \in Parses
      BY <1>0, <2>5 DEF Parses
    <3>2. Roomy(arr')
      BY <2>4, <2>5
    <3> QED BY <1>0, <2>1, <3>1, <3>2 DEF ArrayInv, Roomy
  <2>6. CASE Fail /\ UNCHANGED parse
    BY <1>0, <1>f, <2>1, <2>6 DEF ArrayInv
  <2> QED BY <1>7, <2>5, <2>6 DEF CopyFrom
<1>8. CASE EndClause
  <2>1. UNCHANGED <<umask, mask>> /\ Roomy(arr)
    BY <1>0, <1>8 DEF EndClause, KeepMask, Reading
  <2>2. /\ parse.op \in {"=", "+", "-", "X"}
        /\ {parse.who, parse.perm, parse.x} \subseteq SUBSET AllBits
    BY <1>0 DEF Parses
  <2> DEFINE assign == parse.perm # {} \/ (parse.op = "=" /\ ~ parse.eq)
             added == AddIf(parse.x # {}, AddIf(assign, arr, parse.op, parse.perm),
                            "X", parse.x)
             next == [parse EXCEPT !.eq = (@ \/ (assign /\ parse.op = "="))]
  <2>3. Roomy(added)
    BY <1>0, <2>1, <2>2, AddIfKept
  <2>4. next \in Parses /\ [next EXCEPT !.who = {}] \in Parses
    BY <1>0 DEF Parses
  <2>5. \/ mph' = "done" /\ arr' = Terminate(added) /\ parse' = parse
        \/ mph' = "who" /\ arr' = added /\ parse' = [next EXCEPT !.who = {}]
        \/ mph' = "op" /\ arr' = added /\ parse' = next
        \/ Fail /\ parse' = parse
    BY <1>8 DEF EndClause
  <2> HIDE DEF added, next
  <2> QED BY <1>0, <1>f, <1>t, <2>1, <2>3, <2>4, <2>5 DEF ArrayInv, Roomy, Reading
<1>9. CASE UNCHANGED modeVars
  BY <1>9 DEF ArrayInv, modeVars
<1> QED BY <1>1, <1>2, <1>3, <1>4, <1>5, <1>6, <1>7, <1>8, <1>9 DEF ModeNext

(* No command and no terminator is written past the end of the array,      *)
(* however long the mode is and whatever it asks for: ADDCMD grows when    *)
(* two places are left, and the growth is at least two.                    *)
THEOREM ArrayFits == ModeSpec => []ArrayHolds
<1>1. ModeInit => ArrayInv
  <2>1. << >> \in Seq(Commands)
    OBVIOUS
  <2> QED BY <2>1 DEF ModeInit, ArrayInv, NoParse, NoArr, Parses, Arrays, Reading
<1>2. ArrayInv => ArrayHolds
  BY DEF ArrayInv, ArrayHolds
<1> QED BY <1>1, <1>2, ArrayStep, PTL DEF ModeSpec

-----------------------------------------------------------------------------
(* The mask.                                                               *)

(* A signal handler never runs while the mask is zero, and the mask that   *)
(* setmode leaves is the one it found.  MaskInv adds where setmode keeps   *)
(* the mask meanwhile.                                                     *)
THEOREM MaskIsProtected == ModeSpec => []MaskProtected
<1>1. ModeInit => MaskInv
  BY DEF ModeInit, MaskInv
<1>2. MaskInv /\ [ModeNext]_modeVars => MaskInv'
  <2> SUFFICES ASSUME MaskInv, [ModeNext]_modeVars PROVE MaskInv'
    OBVIOUS
  <2>1. CASE BlockSignals
    BY <2>1 DEF BlockSignals, MaskInv
  <2>2. CASE ZeroUmask
    BY <2>2 DEF ZeroUmask, MaskInv
  <2>3. CASE RestoreUmask
    BY <2>3 DEF RestoreUmask, MaskInv
  <2>4. CASE UnblockSignals
    BY <2>4 DEF UnblockSignals, MaskInv
  <2>5. CASE FirstArray \/ Absolute
    BY <2>5 DEF FirstArray, Absolute, Fail, MaskInv
  <2>6. CASE Who \/ GetOp \/ Perm \/ CopyFrom
    BY <2>6 DEF Who, GetOp, Perm, CopyFrom, KeepMask, Fail, MaskInv
  <2>7. CASE EndClause
    BY <2>7 DEF EndClause, KeepMask, Fail, MaskInv
  <2>8. CASE UNCHANGED modeVars
    BY <2>8 DEF modeVars, MaskInv
  <2> QED BY <2>1, <2>2, <2>3, <2>4, <2>5, <2>6, <2>7, <2>8 DEF ModeNext
<1>3. MaskInv => MaskProtected
  BY DEF MaskInv, MaskProtected
<1> QED BY <1>1, <1>2, <1>3, PTL DEF ModeSpec

=============================================================================
