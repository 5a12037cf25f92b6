----------------------------- MODULE Arc4random -----------------------------
(***************************************************************************)
(* The random number generator of src/src/arc4random.c with its Solaris    *)
(* part, src/src/arc4random_solaris.h: one generator per process, shared by *)
(* its threads under a mutex, and copied by fork.                          *)
(*                                                                         *)
(* What chacha and getentropy compute is abstracted to where a byte comes  *)
(* from.  A key is <<seed, generation>>: the entropy it was made of and    *)
(* how often the generator has rekeyed itself since.  The byte at place i  *)
(* of a buffer filled under that key is <<seed, generation, i>>, and a     *)
(* byte handed out twice is a triple handed out twice.  A seed is          *)
(* <<process, number>>, the entropy that process drew at that time.        *)
(*                                                                         *)
(* What happens between _ARC4_LOCK and _ARC4_UNLOCK is seen by nobody but  *)
(* the holder of the mutex, and by a child that fork gives a locked mutex, *)
(* which never looks at it: a call takes one step there, _rs_random_buf    *)
(* one for each round of its loop.                                         *)
(*                                                                         *)
(* A definition headed "Variant" is the one it precedes with a bug in it:  *)
(* nothing uses it, it shows what a property of this module tells apart.   *)
(***************************************************************************)
EXTENDS Integers, FiniteSets

CONSTANTS
  Threads,       (* The threads of the first process.                      *)
  NoThread,      (* Nobody holds the mutex.                                *)
  Procs,         (* Processes: the first one and those fork may make.      *)
  FirstProc,     (* The one that runs first.                               *)
  Pids,          (* Process ids.  A dead process's id is used again.       *)
  FirstPid,      (* The first process's.                                   *)
  RSBUFSZ,       (* Bytes of keystream in rs_buf.                          *)
  SEEDSZ,        (* KEYSZ + IVSZ, the part of them that makes the next key. *)
  WORDSZ,        (* sizeof (uint32_t).                                     *)
  RESEED,        (* Bytes until the next reseed: 1600000.                  *)
  Requests,      (* Sizes passed to arc4random_buf.                        *)
  Calls,         (* The functions the client calls.                        *)
  MaxCalls,      (* Bound on the number of calls.                          *)
  EntropyFails,  (* getentropy may fail.                                   *)
  AtforkFails    (* So may pthread_atfork.                                 *)

AllCalls == {"arc4random", "arc4random_buf", "arc4random_stir",
             "arc4random_addrandom"}

ASSUME ThreadAssumption == NoThread \notin Threads
ASSUME ProcAssumption ==
  /\ FirstProc \in Procs /\ Pids \subseteq Nat \ {0} /\ FirstPid \in Pids
ASSUME SizeAssumption ==
  /\ RSBUFSZ \in Nat /\ SEEDSZ \in Nat \ {0} /\ WORDSZ \in Nat \ {0}
  /\ SEEDSZ + WORDSZ <= RSBUFSZ
  /\ RESEED \in Nat \ {0} /\ WORDSZ <= RESEED /\ Requests \subseteq Nat
ASSUME ClientAssumption ==
  /\ Calls \subseteq AllCalls /\ MaxCalls \in Nat
  /\ EntropyFails \in BOOLEAN /\ AtforkFails \in BOOLEAN

VARIABLES
  life,      (* of each process: "unborn", "alive" or "dead"               *)
  pid,       (* its process id                                             *)
  mem,       (* its copy of the generator: what fork copies                *)
  pc,        (* where each of its threads is; "none": it has no such thread *)
  op, need,  (* the call it makes; the bytes it has still to be given      *)
  seeds,     (* how often each process has drawn entropy                   *)
  starved,   (* getentropy has failed                                      *)
  unheard,   (* the atfork handler of some process could not be registered *)
  given,     (* the bytes each process has handed out, and their number    *)
  count,
  served,    (* bytes handed out or asked for since it was last seeded     *)
  calls      (* calls made                                                 *)

vars == <<life, pid, mem, pc, op, need, seeds, starved, unheard, given, count,
          served, calls>>

Zeros == <<FirstProc, 0>>    (* what getentropy leaves in rnd when it fails *)
Zero  == <<Zeros, 0, 0>>     (* a byte that memset has cleared             *)
Places   == 1 .. RSBUFSZ

Smaller(a, b) == IF a < b THEN a ELSE b

-----------------------------------------------------------------------------
(* The generator's memory.                                                 *)

(* Before the first call: rs is NULL, and so is every static variable.     *)
InitMem ==
  [allocated |-> FALSE, registered |-> FALSE, rs_have |-> 0, rs_count |-> 0, key |-> <<Zeros, 0>>,
   rs_buf |-> [i \in Places |-> Zero], rs_pid |-> 0, rs_forked |-> FALSE,
   mutex |-> NoThread]

(* The first byte of rs_buf that has not been handed out.                  *)
Next_(m) == RSBUFSZ - m.rs_have + 1

(* _rs_rekey (NULL, 0): the buffer is filled with keystream whose first    *)
(* bytes become the next key and are cleared.                              *)
_rs_rekey(m) ==
  [m EXCEPT !.rs_buf = [i \in Places |->
                          IF i <= SEEDSZ THEN Zero ELSE <<m.key[1], m.key[2], i>>],
            !.rs_have = RSBUFSZ - SEEDSZ,
            !.key = <<m.key[1], m.key[2] + 1>>]

(* _rs_stir, with seed s.  When getentropy has failed rnd is all zeros and *)
(* mixing it in changes nothing.  The first time the generator is          *)
(* allocated; r: the atfork handler is registered from now on.             *)
_rs_stir(m, s, r) ==
  [m EXCEPT !.allocated = TRUE, !.registered = r,
            !.key = IF s # Zeros \/ ~ m.allocated THEN <<s, 0>>
                    ELSE <<m.key[1], m.key[2] + 1>>,
            !.rs_have = 0,
            !.rs_buf = [i \in Places |-> Zero],
            !.rs_count = RESEED]

(* Variant: the atfork handler's flag is not looked at.                    *)
ForkedByPid(m, me) == m.rs_pid = 0 \/ m.rs_pid # me

(* The condition in _rs_forkdetect.                                        *)
Forked(m, me) == m.rs_pid = 0 \/ m.rs_pid # me \/ m.rs_forked

(* _rs_forkdetect: after a fork *rs is cleared, rs_buf is not.             *)
_rs_forkdetect(m, me) ==
  IF Forked(m, me)
  THEN [m EXCEPT !.rs_pid = me, !.rs_forked = FALSE, !.rs_have = 0, !.rs_count = 0]
  ELSE m

(* Variant: a reseed is due one call late.                                 *)
StirNeededLate(m, len) == ~ m.allocated \/ m.rs_count <= 0

StirNeeded(m, len) == ~ m.allocated \/ m.rs_count <= len

(* The end of _rs_stir_if_needed.                                          *)
Counted(m, len) ==
  [m EXCEPT !.rs_count = IF m.rs_count <= len THEN 0 ELSE m.rs_count - len]

(* Variant: the bytes handed out are not cleared.                          *)
TakenKept(m, n) == [m EXCEPT !.rs_have = @ - n]

(* n bytes have been handed out: they are cleared in rs_buf.               *)
Taken(m, n) ==
  [m EXCEPT !.rs_buf = [i \in Places |->
                          IF i \in Next_(m) .. Next_(m) + n - 1 THEN Zero
                          ELSE m.rs_buf[i]],
            !.rs_have = @ - n]

-----------------------------------------------------------------------------
Init ==
  /\ life = [p \in Procs |-> IF p = FirstProc THEN "alive" ELSE "unborn"]
  /\ pid = [p \in Procs |-> IF p = FirstProc THEN FirstPid ELSE 0]
  /\ mem = [p \in Procs |-> InitMem]
  /\ pc = [p \in Procs |-> [t \in Threads |->
                              IF p = FirstProc THEN "idle" ELSE "none"]]
  /\ op = [p \in Procs |-> [t \in Threads |-> "none"]]
  /\ need = [p \in Procs |-> [t \in Threads |-> 0]]
  /\ seeds = [p \in Procs |-> 0] /\ starved = FALSE /\ unheard = FALSE
  /\ given = [p \in Procs |-> {}] /\ count = [p \in Procs |-> 0]
  /\ served = [p \in Procs |-> 0]
  /\ calls = 0

At(p, t, where) == life[p] = "alive" /\ pc[p][t] = where
Goto(p, t, where) == pc' = [pc EXCEPT ![p][t] = where]

(* A client calls f, for n bytes.                                          *)
Call(p, t) ==
  /\ At(p, t, "idle") /\ calls < MaxCalls
  /\ \E f \in Calls :
       /\ op' = [op EXCEPT ![p][t] = f]
       /\ \E n \in CASE f = "arc4random"      -> {WORDSZ}
                     [] f = "arc4random_stir" -> {0}
                     [] OTHER                 -> Requests :
            need' = [need EXCEPT ![p][t] = n]
  /\ calls' = calls + 1
  /\ Goto(p, t, "lock")
  /\ UNCHANGED <<life, pid, mem, seeds, starved, unheard, given, count,
                 served>>

_ARC4_LOCK(p, t) ==
  /\ At(p, t, "lock") /\ mem[p].mutex = NoThread
  /\ mem' = [mem EXCEPT ![p].mutex = t]
  /\ Goto(p, t, "locked")
  /\ UNCHANGED <<life, pid, op, need, seeds, starved, unheard, given, count,
                 served, calls>>

(* Variant: arc4random_stir does not unlock.                               *)
UnlockForgotten(p, t, m) ==
  /\ mem' = [mem EXCEPT ![p] =
               IF op[p][t] = "arc4random_stir" THEN m ELSE [m EXCEPT !.mutex = NoThread]]
  /\ Goto(p, t, "idle")
  /\ op' = [op EXCEPT ![p][t] = "none"] /\ need' = [need EXCEPT ![p][t] = 0]

(* m is the memory the call leaves behind; it returns.                     *)
_ARC4_UNLOCK(p, t, m) ==
  /\ mem' = [mem EXCEPT ![p] = [m EXCEPT !.mutex = NoThread]]
  /\ Goto(p, t, "idle")
  /\ op' = [op EXCEPT ![p][t] = "none"] /\ need' = [need EXCEPT ![p][t] = 0]

(* getentropy in process p: new entropy, or none.                          *)
Entropy(p, s) ==
  \/ /\ s = <<p, seeds[p] + 1>>
     /\ seeds' = [seeds EXCEPT ![p] = @ + 1]
     /\ UNCHANGED starved
  \/ /\ s = Zeros /\ EntropyFails
     /\ starved' = TRUE
     /\ UNCHANGED seeds

(* pthread_atfork, when the generator is allocated: r, whether the handler *)
(* is registered after it.  Its result is not looked at.                   *)
_ARC4_ATFORK(p, r) ==
  \/ mem[p].allocated /\ r = mem[p].registered /\ UNCHANGED unheard
  \/ ~ mem[p].allocated /\ r = TRUE /\ UNCHANGED unheard
  \/ ~ mem[p].allocated /\ r = FALSE /\ AtforkFails /\ unheard' = TRUE

arc4random_stir(p, t) ==
  /\ At(p, t, "locked") /\ op[p][t] = "arc4random_stir"
  /\ \E s \in {Zeros, <<p, seeds[p] + 1>>}, r \in BOOLEAN :
       /\ Entropy(p, s) /\ _ARC4_ATFORK(p, r)
       /\ _ARC4_UNLOCK(p, t, _rs_stir(mem[p], s, r))
  /\ served' = [served EXCEPT ![p] = 0]
  /\ UNCHANGED <<life, pid, given, count, calls>>

(* _rs_stir_if_needed (len) makes m of the memory.                         *)
_rs_stir_if_needed(p, len, m) ==
  LET found == _rs_forkdetect(mem[p], pid[p])
  IN  \/ /\ StirNeeded(found, len)
         /\ \E s \in {Zeros, <<p, seeds[p] + 1>>}, r \in BOOLEAN :
              /\ Entropy(p, s) /\ _ARC4_ATFORK(p, r)
              /\ m = Counted(_rs_stir(found, s, r), len)
         /\ served' = [served EXCEPT ![p] = len]
      \/ /\ ~ StirNeeded(found, len)
         /\ m = Counted(found, len)
         /\ served' = [served EXCEPT ![p] = @ + len]
         /\ UNCHANGED <<seeds, starved, unheard>>

(* What it may make of it.                                                 *)
Stirred(p, len) ==
  LET found == _rs_forkdetect(mem[p], pid[p])
  IN  {Counted(m, len) :
         m \in {found} \cup {_rs_stir(found, s, r) :
                    s \in {Zeros, <<p, seeds[p] + 1>>}, r \in BOOLEAN}}

(* A byte at a place that is not in the buffer could be anything.          *)
ByteAt(m, i) == IF i \in Places THEN m.rs_buf[i] ELSE Zero

(* n bytes of m's buffer go to the client.                                 *)
Give(p, m, n) ==
  /\ given' = [given EXCEPT ![p] =
                 @ \cup {ByteAt(m, i) : i \in Next_(m) .. Next_(m) + n - 1}]
  /\ count' = [count EXCEPT ![p] = @ + n]

(* Variant: only an empty buffer is refilled.                              *)
WordRekeyEmpty(m) == IF m.rs_have = 0 THEN _rs_rekey(m) ELSE m

(* _rs_random_u32 takes a whole word: less than that is thrown away.       *)
WordRekey(m) == IF m.rs_have < WORDSZ THEN _rs_rekey(m) ELSE m

arc4random(p, t) ==
  /\ At(p, t, "locked") /\ op[p][t] = "arc4random"
  /\ \E m \in Stirred(p, WORDSZ) :
       /\ _rs_stir_if_needed(p, WORDSZ, m)
       /\ Give(p, WordRekey(m), WORDSZ)
       /\ _ARC4_UNLOCK(p, t, Taken(WordRekey(m), WORDSZ))
  /\ UNCHANGED <<life, pid, calls>>

arc4random_buf(p, t) ==
  /\ At(p, t, "locked") /\ op[p][t] = "arc4random_buf"
  /\ \E m \in Stirred(p, need[p][t]) :
       /\ _rs_stir_if_needed(p, need[p][t], m)
       /\ mem' = [mem EXCEPT ![p] = m]
  /\ Goto(p, t, "_rs_random_buf")
  /\ UNCHANGED <<life, pid, op, need, given, count, calls>>

(* One round of the loop in _rs_random_buf: it refills an empty buffer,    *)
(* also after the last byte.                                               *)
_rs_random_buf(p, t) ==
  /\ At(p, t, "_rs_random_buf")
  /\ LET n == Smaller(need[p][t], mem[p].rs_have)
         m == Taken(mem[p], n)
         refilled == IF m.rs_have = 0 THEN _rs_rekey(m) ELSE m
     IN  \/ /\ need[p][t] = 0
            /\ _ARC4_UNLOCK(p, t, mem[p])
            /\ UNCHANGED <<given, count>>
         \/ /\ need[p][t] > 0
            /\ Give(p, mem[p], n)
            /\ need' = [need EXCEPT ![p][t] = @ - n]
            /\ mem' = [mem EXCEPT ![p] = refilled]
            /\ UNCHANGED <<pc, op>>
  /\ UNCHANGED <<life, pid, seeds, starved, unheard, served, calls>>

(* _rs_rekey (dat, datlen): what the client adds may change the key, but   *)
(* nothing relies on it.                                                   *)
arc4random_addrandom(p, t) ==
  /\ At(p, t, "locked") /\ op[p][t] = "arc4random_addrandom"
  /\ \E m \in Stirred(p, need[p][t]) :
       /\ _rs_stir_if_needed(p, need[p][t], m)
       /\ _ARC4_UNLOCK(p, t, _rs_rekey(m))
  /\ UNCHANGED <<life, pid, given, count, calls>>

(* A thread outside the library forks: the child q has a copy of the       *)
(* memory, of the mutex too, and only the thread that forked.  The atfork  *)
(* handler, if it could be registered by now, runs in the child.           *)
fork(p, t, q) ==
  /\ At(p, t, "idle") /\ life[q] = "unborn"
  /\ life' = [life EXCEPT ![q] = "alive"]
  /\ \E id \in Pids :
       /\ \A r \in Procs : life[r] = "alive" => pid[r] # id
       /\ pid' = [pid EXCEPT ![q] = id]
  /\ mem' = [mem EXCEPT ![q] = [mem[p] EXCEPT !.rs_forked = @ \/ mem[p].registered]]
  /\ pc' = [pc EXCEPT ![q][t] = "idle"]
  /\ served' = [served EXCEPT ![q] = served[p]]
  /\ UNCHANGED <<op, need, seeds, starved, unheard, given, count, calls>>

(* A process ends, or abort is called because the generator could not be   *)
(* allocated.  Its memory is gone.                                         *)
exit(p) ==
  /\ life[p] = "alive"
  /\ life' = [life EXCEPT ![p] = "dead"]
  /\ mem' = [mem EXCEPT ![p] = InitMem]
  /\ pc' = [pc EXCEPT ![p] = [t \in Threads |-> "none"]]
  /\ op' = [op EXCEPT ![p] = [t \in Threads |-> "none"]]
  /\ need' = [need EXCEPT ![p] = [t \in Threads |-> 0]]
  /\ served' = [served EXCEPT ![p] = 0]
  /\ UNCHANGED <<pid, seeds, starved, unheard, given, count, calls>>

-----------------------------------------------------------------------------
Step(p, t) ==
  \/ _ARC4_LOCK(p, t) \/ arc4random_stir(p, t) \/ arc4random(p, t)
  \/ arc4random_buf(p, t) \/ _rs_random_buf(p, t) \/ arc4random_addrandom(p, t)

Next ==
  \/ \E p \in Procs, t \in Threads :
       \/ Call(p, t) \/ Step(p, t) \/ \E q \in Procs : fork(p, t, q)
  \/ \E p \in Procs : exit(p)

Spec == Init /\ [][Next]_vars

-----------------------------------------------------------------------------
(* Properties.                                                             *)

Seeds  == Procs \X Nat
Bytes  == Seeds \X Nat \X (0 .. RSBUFSZ)
Memory == [allocated : BOOLEAN, registered : BOOLEAN,
           rs_have : 0 .. RSBUFSZ - SEEDSZ,
           rs_count : 0 .. RESEED, key : Seeds \X Nat, rs_buf : [Places -> Bytes],
           rs_pid : Pids \cup {0}, rs_forked : BOOLEAN,
           mutex : Threads \cup {NoThread}]
Labels == {"none", "idle", "lock", "locked", "_rs_random_buf"}

(* The type invariant: of a process's generator, its threads, the ghosts.  *)
(* rs_have never wraps below 0.                                            *)
TypeOK ==
  /\ life \in [Procs -> {"unborn", "alive", "dead"}]
  /\ pid \in [Procs -> Pids \cup {0}]
  /\ mem \in [Procs -> Memory]
  /\ pc \in [Procs -> [Threads -> Labels]]
  /\ op \in [Procs -> [Threads -> AllCalls \cup {"none"}]]
  /\ need \in [Procs -> [Threads -> Nat]]
  /\ seeds \in [Procs -> Nat] /\ starved \in BOOLEAN /\ unheard \in BOOLEAN
  /\ given \in [Procs -> SUBSET Bytes]
  /\ count \in [Procs -> Nat] /\ served \in [Procs -> Nat] /\ calls \in Nat

(* Two processes have had the same id, one after the other.                *)
IdUsedAgain ==
  \E p, q \in Procs : /\ p # q /\ pid[p] = pid[q]
                     /\ life[p] # "unborn" /\ life[q] # "unborn"

(* No byte of the keystream is handed out twice, to two callers, to two    *)
(* threads, or to a process and a child that had a copy of its generator,  *)
(* as long as getentropy works: however ids are used again, if the atfork  *)
(* handler could be registered, and otherwise if no id is.  Without either *)
(* _rs_forkdetect cannot see the fork of a process that has the id of the  *)
(* one its generator was made in, and gives out bytes a second time: the   *)
(* code drops the result of pthread_atfork.  Bytes cleared already are     *)
(* never handed out.                                                       *)
NoByteTwice == ~ starved /\ ~ (unheard /\ IdUsedAgain) =>
  /\ \A p \in Procs : Cardinality(given[p]) = count[p] /\ Zero \notin given[p]
  /\ \A p, q \in Procs : p # q => given[p] \cap given[q] = {}

(* What a process has handed out cannot be found in its memory any more,   *)
(* neither in rs_buf nor by running its key again (_rs_rekey: "immediately *)
(* reinit for backtracking resistance").                                   *)
Backtracking == ~ starved =>
  \A p \in Procs :
    /\ \A i \in Places : mem[p].rs_buf[i] \notin given[p] \ {Zero}
    /\ \A b \in given[p] : b[1] = mem[p].key[1] => b[2] < mem[p].key[2]

(* Between two seedings a process hands out fewer than RESEED bytes, one   *)
(* larger request apart: rs_count counts down what may still be handed out.*)
ReseedInTime ==
  \A p \in Procs : mem[p].allocated =>
    \/ served[p] <= RESEED
    \/ mem[p].rs_count = 0 /\ \E n \in Requests : served[p] = n

Inside == {"locked", "_rs_random_buf"}

(* The mutex excludes: a thread between _ARC4_LOCK and _ARC4_UNLOCK holds  *)
(* it, and no call leaves it locked.  So arc4random blocks for ever only   *)
(* in a child that was forked while a thread it does not have was inside   *)
(* the library, since _ARC4_ATFORK registers no handler for the parent.    *)
MutexHeld ==
  \A p \in Procs :
    /\ \A t \in Threads : pc[p][t] \in Inside => mem[p].mutex = t
    /\ \A t \in Threads : mem[p].mutex = t => pc[p][t] \in Inside \cup {"none"}
=============================================================================
