--------------------------- MODULE Arc4randomProofs ---------------------------
(***************************************************************************)
(* Theorems about the generator of Arc4random, for any number of threads,  *)
(* processes and process ids, any buffer, seed, word and request size, any *)
(* number of forks and calls: its memory stays well formed, so that        *)
(* rs_have is never decremented below 0, and its mutex excludes; it hands  *)
(* out no byte twice, keeps no way back to a byte it handed out, and       *)
(* reseeds in time.                                                        *)
(***************************************************************************)
EXTENDS Arc4random, FiniteSetTheorems, TLAPS

-----------------------------------------------------------------------------
(* Lemmas: what each function of the generator does to its memory.         *)

(* The constants that stand for cleared memory are of their types.         *)
LEMMA ZeroType == Zeros \in Seeds /\ Zero \in Bytes /\ RSBUFSZ \in Nat
BY ProcAssumption, SizeAssumption DEF Zeros, Zero, Seeds, Bytes

(* The generator before the first call.                                    *)
LEMMA InitMemType == InitMem \in Memory /\ InitMem.mutex = NoThread
<1>1. [i \in Places |-> Zero] \in [Places -> Bytes]
  BY ZeroType
<1>2. <<Zeros, 0>> \in Seeds \X Nat
  BY ZeroType
<1> QED BY <1>1, <1>2, SizeAssumption DEF InitMem, Memory

(* _rs_rekey leaves a full buffer, less the next key.                      *)
LEMMA RekeyType ==
  ASSUME NEW m \in Memory
  PROVE  /\ _rs_rekey(m) \in Memory
         /\ _rs_rekey(m).mutex = m.mutex
         /\ _rs_rekey(m).rs_have = RSBUFSZ - SEEDSZ
<1> DEFINE buf == [i \in Places |->
                     IF i <= SEEDSZ THEN Zero ELSE <<m.key[1], m.key[2], i>>]
           key == <<m.key[1], m.key[2] + 1>>
<1>1. m.key[1] \in Seeds /\ m.key[2] \in Nat
  BY DEF Memory
<1>2. buf \in [Places -> Bytes]
  <2>1. \A i \in Places : i \in 0 .. RSBUFSZ
    BY SizeAssumption DEF Places
  <2> QED BY <1>1, <2>1, ZeroType DEF Bytes
<1>3. key \in Seeds \X Nat
  BY <1>1
<1>4. RSBUFSZ - SEEDSZ \in 0 .. RSBUFSZ - SEEDSZ
  BY SizeAssumption
<1>5. _rs_rekey(m) = [m EXCEPT !.rs_buf = buf, !.rs_have = RSBUFSZ - SEEDSZ, !.key = key]
  BY DEF _rs_rekey
<1> HIDE DEF buf, key
<1> QED BY <1>2, <1>3, <1>4, <1>5 DEF Memory

(* _rs_stir, with whatever getentropy has returned.                        *)
LEMMA StirType ==
  ASSUME NEW m \in Memory, NEW s \in Seeds, NEW r \in BOOLEAN
  PROVE  _rs_stir(m, s, r) \in Memory /\ _rs_stir(m, s, r).mutex = m.mutex
<1> DEFINE buf == [i \in Places |-> Zero]
           key == IF s # Zeros \/ ~ m.allocated THEN <<s, 0>>
                  ELSE <<m.key[1], m.key[2] + 1>>
<1>1. m.key[1] \in Seeds /\ m.key[2] \in Nat
  BY DEF Memory
<1>2. buf \in [Places -> Bytes]
  BY ZeroType
<1>3. key \in Seeds \X Nat
  BY <1>1
<1>4. 0 \in 0 .. RSBUFSZ - SEEDSZ /\ RESEED \in 0 .. RESEED
  BY SizeAssumption
<1>5. _rs_stir(m, s, r) = [m EXCEPT !.allocated = TRUE, !.registered = r, !.key = key,
                                    !.rs_have = 0, !.rs_buf = buf, !.rs_count = RESEED]
  BY DEF _rs_stir
<1> HIDE DEF buf, key
<1> QED BY <1>2, <1>3, <1>4, <1>5 DEF Memory

(* _rs_forkdetect.                                                         *)
LEMMA ForkdetectType ==
  ASSUME NEW m \in Memory, NEW me \in Pids \cup {0}
  PROVE  /\ _rs_forkdetect(m, me) \in Memory
         /\ _rs_forkdetect(m, me).mutex = m.mutex
<1>1. 0 \in 0 .. RSBUFSZ - SEEDSZ /\ 0 \in 0 .. RESEED
  BY SizeAssumption
<1>2. [m EXCEPT !.rs_pid = me, !.rs_forked = FALSE, !.rs_have = 0, !.rs_count = 0]
        \in Memory
  BY <1>1 DEF Memory
<1> QED BY <1>2 DEF _rs_forkdetect, Memory

(* The count down to the next reseed.                                      *)
LEMMA CountedType ==
  ASSUME NEW m \in Memory, NEW len \in Nat
  PROVE  Counted(m, len) \in Memory /\ Counted(m, len).mutex = m.mutex
<1>1. m.rs_count \in 0 .. RESEED /\ RESEED \in Nat
  BY SizeAssumption DEF Memory
<1>2. (IF m.rs_count <= len THEN 0 ELSE m.rs_count - len) \in 0 .. RESEED
  BY <1>1
<1> QED BY <1>2 DEF Counted, Memory

(* Bytes are taken: as many as there are, never more.                      *)
LEMMA TakenType ==
  ASSUME NEW m \in Memory, NEW n \in Nat, n <= m.rs_have
  PROVE  Taken(m, n) \in Memory /\ Taken(m, n).mutex = m.mutex
<1> DEFINE buf == [i \in Places |->
                     IF i \in Next_(m) .. Next_(m) + n - 1 THEN Zero ELSE m.rs_buf[i]]
<1>1. buf \in [Places -> Bytes]
  BY ZeroType DEF Memory
<1>2. m.rs_have - n \in 0 .. RSBUFSZ - SEEDSZ
  BY SizeAssumption DEF Memory
<1>3. Taken(m, n) = [m EXCEPT !.rs_buf = buf, !.rs_have = m.rs_have - n]
  BY DEF Taken, Memory
<1> HIDE DEF buf
<1> QED BY <1>1, <1>2, <1>3 DEF Memory

(* _rs_random_u32 has a word to take when it takes one.                    *)
LEMMA WordRekeyType ==
  ASSUME NEW m \in Memory
  PROVE  /\ WordRekey(m) \in Memory
         /\ WordRekey(m).mutex = m.mutex
         /\ WORDSZ <= WordRekey(m).rs_have
<1>1. m.rs_have \in Nat
  BY SizeAssumption DEF Memory
<1> QED BY <1>1, RekeyType, SizeAssumption DEF WordRekey

(* _rs_stir_if_needed.                                                     *)
LEMMA StirredType ==
  ASSUME TypeOK, NEW p \in Procs, NEW len \in Nat, NEW m \in Stirred(p, len)
  PROVE  m \in Memory /\ m.mutex = mem[p].mutex
<1> DEFINE found == _rs_forkdetect(mem[p], pid[p])
           seed  == <<p, seeds[p] + 1>>
<1>1. mem[p] \in Memory /\ pid[p] \in Pids \cup {0} /\ seed \in Seeds
  BY DEF TypeOK, Seeds
<1>2. found \in Memory /\ found.mutex = mem[p].mutex
  BY <1>1, ForkdetectType
<1>3. PICK w \in {found} \cup {_rs_stir(found, s, r) : s \in {Zeros, seed}, r \in BOOLEAN} :
        m = Counted(w, len)
  BY DEF Stirred
<1> HIDE DEF found, seed
<1>4. w \in Memory /\ w.mutex = mem[p].mutex
  BY <1>1, <1>2, <1>3, StirType, ZeroType
<1> QED BY <1>3, <1>4, CountedType

(* What _ARC4_UNLOCK does to the process's memory and to its threads.      *)
LEMMA UnlockType ==
  ASSUME TypeOK, NEW p \in Procs, NEW t \in Threads, NEW m \in Memory,
         _ARC4_UNLOCK(p, t, m)
  PROVE  /\ mem' \in [Procs -> Memory] /\ pc' \in [Procs -> [Threads -> Labels]]
         /\ op' \in [Procs -> [Threads -> AllCalls \cup {"none"}]]
         /\ need' \in [Procs -> [Threads -> Nat]]
<1>1. [m EXCEPT !.mutex = NoThread] \in Memory
  BY DEF Memory
<1> QED BY <1>1 DEF TypeOK, _ARC4_UNLOCK, Goto, Labels

(* What _rs_stir_if_needed does to the seeds and to the bytes served.      *)
LEMMA SeededType ==
  ASSUME TypeOK, NEW p \in Procs, NEW len \in Nat, NEW m, _rs_stir_if_needed(p, len, m)
  PROVE  /\ seeds' \in [Procs -> Nat] /\ starved' \in BOOLEAN /\ unheard' \in BOOLEAN
         /\ served' \in [Procs -> Nat]
<1> DEFINE found == _rs_forkdetect(mem[p], pid[p])
<1>1. CASE /\ \E s \in {Zeros, <<p, seeds[p] + 1>>}, r \in BOOLEAN :
                /\ Entropy(p, s) /\ _ARC4_ATFORK(p, r)
                /\ m = Counted(_rs_stir(found, s, r), len)
           /\ served' = [served EXCEPT ![p] = len]
  <2>1. PICK s \in {Zeros, <<p, seeds[p] + 1>>}, r \in BOOLEAN :
          Entropy(p, s) /\ _ARC4_ATFORK(p, r)
    BY <1>1
  <2>2. seeds[p] + 1 \in Nat
    BY DEF TypeOK
  <2>3. seeds' \in [Procs -> Nat] /\ starved' \in BOOLEAN /\ unheard' \in BOOLEAN
    BY <2>1, <2>2 DEF Entropy, _ARC4_ATFORK, TypeOK
  <2> QED BY <1>1, <2>3 DEF TypeOK
<1>2. CASE /\ served' = [served EXCEPT ![p] = @ + len]
           /\ UNCHANGED <<seeds, starved, unheard>>
  <2>1. served[p] + len \in Nat
    BY DEF TypeOK
  <2> QED BY <1>2, <2>1 DEF TypeOK
<1> QED BY <1>1, <1>2 DEF _rs_stir_if_needed

(* The bytes given to a client come from the buffer.                       *)
LEMMA GiveType ==
  ASSUME TypeOK, NEW p \in Procs, NEW m \in Memory, NEW n \in Nat, Give(p, m, n)
  PROVE  given' \in [Procs -> SUBSET Bytes] /\ count' \in [Procs -> Nat]
<1>1. \A i : ByteAt(m, i) \in Bytes
  BY ZeroType DEF ByteAt, Memory
<1> QED BY <1>1 DEF TypeOK, Give

-----------------------------------------------------------------------------
LEMMA InitType == Init => TypeOK
<1> SUFFICES ASSUME Init PROVE TypeOK
  OBVIOUS
<1>1. mem \in [Procs -> Memory]
  BY InitMemType DEF Init
<1>2. life \in [Procs -> {"unborn", "alive", "dead"}] /\ pid \in [Procs -> Pids \cup {0}]
  BY ProcAssumption DEF Init
<1>3. pc \in [Procs -> [Threads -> Labels]]
  BY DEF Init, Labels
<1>4. /\ op \in [Procs -> [Threads -> AllCalls \cup {"none"}]]
      /\ need \in [Procs -> [Threads -> Nat]]
  BY DEF Init
<1>5. /\ seeds \in [Procs -> Nat] /\ starved \in BOOLEAN /\ unheard \in BOOLEAN
      /\ given \in [Procs -> SUBSET Bytes]
      /\ count \in [Procs -> Nat] /\ served \in [Procs -> Nat] /\ calls \in Nat
  BY DEF Init
<1> QED BY <1>1, <1>2, <1>3, <1>4, <1>5 DEF TypeOK

LEMMA NextType == TypeOK /\ [Next]_vars => TypeOK'
<1> SUFFICES ASSUME TypeOK, [Next]_vars PROVE TypeOK'
  OBVIOUS
<1>1. ASSUME NEW p \in Procs, NEW t \in Threads, Call(p, t) PROVE TypeOK'
  <2>1. PICK f \in Calls :
          /\ op' = [op EXCEPT ![p][t] = f]
          /\ \E n \in CASE f = "arc4random"      -> {WORDSZ}
                        [] f = "arc4random_stir" -> {0}
                        [] OTHER                 -> Requests :
               need' = [need EXCEPT ![p][t] = n]
    BY <1>1 DEF Call
  <2>2. PICK n \in Nat : need' = [need EXCEPT ![p][t] = n]
    BY <2>1, SizeAssumption
  <2> QED BY <1>1, <2>1, <2>2, ClientAssumption DEF Call, TypeOK, Goto, Labels
<1>2. ASSUME NEW p \in Procs, NEW t \in Threads, _ARC4_LOCK(p, t) PROVE TypeOK'
  <2>1. mem[p] \in Memory
    BY DEF TypeOK
  <2>2. [mem[p] EXCEPT !.mutex = t] \in Memory
    BY <2>1 DEF Memory
  <2>3. mem' \in [Procs -> Memory]
    BY <1>2, <2>2 DEF _ARC4_LOCK, TypeOK
  <2> QED BY <1>2, <2>3 DEF _ARC4_LOCK, TypeOK, Goto, Labels
<1>3. ASSUME NEW p \in Procs, NEW t \in Threads, arc4random_stir(p, t) PROVE TypeOK'
  <2>1. PICK s \in {Zeros, <<p, seeds[p] + 1>>}, r \in BOOLEAN :
          /\ Entropy(p, s) /\ _ARC4_ATFORK(p, r)
          /\ _ARC4_UNLOCK(p, t, _rs_stir(mem[p], s, r))
    BY <1>3 DEF arc4random_stir
  <2>2. s \in Seeds
    BY <2>1, ZeroType DEF TypeOK, Seeds
  <2>3. _rs_stir(mem[p], s, r) \in Memory
    BY <2>2, StirType DEF TypeOK
  <2>4. seeds[p] + 1 \in Nat
    BY DEF TypeOK
  <2>5. seeds' \in [Procs -> Nat] /\ starved' \in BOOLEAN /\ unheard' \in BOOLEAN
    BY <2>1, <2>4 DEF Entropy, _ARC4_ATFORK, TypeOK
  <2> QED BY <1>3, <2>1, <2>3, <2>5, UnlockType DEF arc4random_stir, TypeOK
<1>4. ASSUME NEW p \in Procs, NEW t \in Threads, arc4random(p, t) PROVE TypeOK'
  <2>1. PICK m \in Stirred(p, WORDSZ) :
          /\ _rs_stir_if_needed(p, WORDSZ, m)
          /\ Give(p, WordRekey(m), WORDSZ)
          /\ _ARC4_UNLOCK(p, t, Taken(WordRekey(m), WORDSZ))
    BY <1>4 DEF arc4random
  <2>2. WORDSZ \in Nat
    BY SizeAssumption
  <2>3. m \in Memory
    BY <2>2, StirredType
  <2>4. WordRekey(m) \in Memory /\ WORDSZ <= WordRekey(m).rs_have
    BY <2>3, WordRekeyType
  <2>5. Taken(WordRekey(m), WORDSZ) \in Memory
    BY <2>2, <2>4, TakenType
  <2> QED BY <1>4, <2>1, <2>2, <2>4, <2>5, UnlockType, SeededType, GiveType
          DEF arc4random, TypeOK
<1>5. ASSUME NEW p \in Procs, NEW t \in Threads, arc4random_buf(p, t) PROVE TypeOK'
  <2>1. need[p][t] \in Nat
    BY DEF TypeOK
  <2>2. PICK m \in Stirred(p, need[p][t]) :
          /\ _rs_stir_if_needed(p, need[p][t], m)
          /\ mem' = [mem EXCEPT ![p] = m]
    BY <1>5 DEF arc4random_buf
  <2>3. m \in Memory
    BY <2>1, StirredType
  <2>4. /\ seeds' \in [Procs -> Nat] /\ starved' \in BOOLEAN /\ unheard' \in BOOLEAN
        /\ served' \in [Procs -> Nat]
    BY <2>1, <2>2, SeededType
  <2> QED BY <1>5, <2>2, <2>3, <2>4 DEF arc4random_buf, TypeOK, Goto, Labels
<1>6. ASSUME NEW p \in Procs, NEW t \in Threads, _rs_random_buf(p, t) PROVE TypeOK'
  <2> DEFINE n == Smaller(need[p][t], mem[p].rs_have)
             m == Taken(mem[p], n)
             refilled == IF m.rs_have = 0 THEN _rs_rekey(m) ELSE m
  <2>1. mem[p] \in Memory /\ need[p][t] \in Nat /\ mem[p].rs_have \in Nat
    BY SizeAssumption DEF TypeOK, Memory
  <2>2. n \in Nat /\ n <= mem[p].rs_have /\ need[p][t] - n \in Nat
    BY <2>1 DEF Smaller
  <2>3. refilled \in Memory
    BY <2>1, <2>2, TakenType, RekeyType
  <2>4. CASE need[p][t] = 0 /\ _ARC4_UNLOCK(p, t, mem[p]) /\ UNCHANGED <<given, count>>
    BY <1>6, <2>1, <2>4, UnlockType DEF _rs_random_buf, TypeOK
  <2>5. CASE /\ Give(p, mem[p], n) /\ need' = [need EXCEPT ![p][t] = @ - n]
             /\ mem' = [mem EXCEPT ![p] = refilled] /\ UNCHANGED <<pc, op>>
    <3>1. need' \in [Procs -> [Threads -> Nat]] /\ mem' \in [Procs -> Memory]
      BY <2>2, <2>3, <2>5 DEF TypeOK
    <3>2. given' \in [Procs -> SUBSET Bytes] /\ count' \in [Procs -> Nat]
      BY <2>1, <2>2, <2>5, GiveType
    <3> QED BY <1>6, <2>5, <3>1, <3>2 DEF _rs_random_buf, TypeOK
  <2> QED BY <1>6, <2>4, <2>5 DEF _rs_random_buf
<1>7. ASSUME NEW p \in Procs, NEW t \in Threads, arc4random_addrandom(p, t)
      PROVE  TypeOK'
  <2>1. need[p][t] \in Nat
    BY DEF TypeOK
  <2>2. PICK m \in Stirred(p, need[p][t]) :
          /\ _rs_stir_if_needed(p, need[p][t], m)
          /\ _ARC4_UNLOCK(p, t, _rs_rekey(m))
    BY <1>7 DEF arc4random_addrandom
  <2>3. _rs_rekey(m) \in Memory
    BY <2>1, StirredType, RekeyType
  <2> QED BY <1>7, <2>1, <2>2, <2>3, UnlockType, SeededType
          DEF arc4random_addrandom, TypeOK
<1>8. ASSUME NEW p \in Procs, NEW t \in Threads, NEW q \in Procs, fork(p, t, q)
      PROVE  TypeOK'
  <2> DEFINE forked == mem[p].rs_forked \/ mem[p].registered
  <2>1. mem[p] \in Memory
    BY DEF TypeOK
  <2>2. forked \in BOOLEAN
    BY <2>1 DEF Memory
  <2> HIDE DEF forked
  <2>3. [mem[p] EXCEPT !.rs_forked = forked] \in Memory
    BY <2>1, <2>2 DEF Memory
  <2>4. mem' = [mem EXCEPT ![q] = [mem[p] EXCEPT !.rs_forked = forked]]
    BY <1>8 DEF fork, forked
  <2>5. mem' \in [Procs -> Memory]
    BY <2>3, <2>4 DEF TypeOK
  <2> QED BY <1>8, <2>5 DEF fork, TypeOK, Labels
<1>9. ASSUME NEW p \in Procs, exit(p) PROVE TypeOK'
  BY <1>9, InitMemType DEF exit, TypeOK, Labels
<1>10. CASE UNCHANGED vars
  BY <1>10 DEF TypeOK, vars
<1> QED BY <1>1, <1>2, <1>3, <1>4, <1>5, <1>6, <1>7, <1>8, <1>9, <1>10
        DEF Next, Step

(* The memory of every process's generator stays well formed, whatever is  *)
(* called and however it forks: _rs_random_u32 and _rs_random_buf never    *)
(* take more bytes than rs_have counts, and rs_have, a size_t, never wraps. *)
THEOREM TypeCorrect == Spec => []TypeOK
<1> QED BY InitType, NextType, PTL DEF Spec

-----------------------------------------------------------------------------
(* A process that is not yet born has no thread.                           *)
NoneUnborn ==
  \A p \in Procs : life[p] = "unborn" => \A t \in Threads : pc[p][t] = "none"

IInv == TypeOK /\ NoneUnborn /\ MutexHeld

LEMMA InitMutex == Init => NoneUnborn /\ MutexHeld
BY ThreadAssumption DEF Init, InitMem, NoneUnborn, MutexHeld, Inside

(* One thread goes to another place: what that and the mutex's new holder  *)
(* have to satisfy.                                                        *)
LEMMA MoveMutex ==
  ASSUME IInv, NEW p \in Procs, NEW t \in Threads, NEW l \in Labels,
         life[p] = "alive", Goto(p, t, l), UNCHANGED life,
         mem' \in [Procs -> Memory],
         \A q \in Procs : q # p => mem'[q] = mem[q],
         mem[p].mutex \in {NoThread, t} \/ mem'[p].mutex = mem[p].mutex,
         l \in Inside <=> mem'[p].mutex = t,
         mem'[p].mutex \in {NoThread, t, mem[p].mutex}
  PROVE  NoneUnborn' /\ MutexHeld'
<1>1. pc' = [pc EXCEPT ![p][t] = l] /\ pc \in [Procs -> [Threads -> Labels]]
  BY DEF Goto, IInv, TypeOK
<1>2. \A q \in Procs, u \in Threads :
        pc'[q][u] = IF q = p /\ u = t THEN l ELSE pc[q][u]
  BY <1>1
<1>3. NoneUnborn'
  BY <1>2 DEF NoneUnborn, IInv
<1>4. \A q \in Procs, u \in Threads : pc'[q][u] \in Inside => mem'[q].mutex = u
  <2> SUFFICES ASSUME NEW q \in Procs, NEW u \in Threads, pc'[q][u] \in Inside
               PROVE  mem'[q].mutex = u
    OBVIOUS
  <2>1. CASE q # p
    BY <1>2, <2>1 DEF IInv, MutexHeld
  <2>2. CASE q = p /\ u = t
    BY <1>2, <2>2
  <2>3. CASE q = p /\ u # t
    <3>1. mem[p].mutex = u
      BY <1>2, <2>3 DEF IInv, MutexHeld
    <3> QED BY <2>3, <3>1, ThreadAssumption
  <2> QED BY <2>1, <2>2, <2>3
<1>5. \A q \in Procs, u \in Threads :
        mem'[q].mutex = u => pc'[q][u] \in Inside \cup {"none"}
  BY <1>2, ThreadAssumption DEF IInv, MutexHeld
<1> QED BY <1>3, <1>4, <1>5 DEF MutexHeld

(* The same for a call that returns.                                       *)
LEMMA ReturnMutex ==
  ASSUME IInv, NEW p \in Procs, NEW t \in Threads, NEW m \in Memory,
         life[p] = "alive", pc[p][t] \in Inside, _ARC4_UNLOCK(p, t, m),
         UNCHANGED life
  PROVE  NoneUnborn' /\ MutexHeld'
<1>1. [m EXCEPT !.mutex = NoThread] \in Memory
  BY DEF Memory
<1>2. /\ mem' \in [Procs -> Memory] /\ mem'[p].mutex = NoThread
      /\ \A q \in Procs : q # p => mem'[q] = mem[q]
  BY <1>1 DEF _ARC4_UNLOCK, IInv, TypeOK, Memory
<1>3. mem[p].mutex = t
  BY DEF IInv, MutexHeld
<1>4. "idle" \in Labels /\ "idle" \notin Inside /\ Goto(p, t, "idle")
  BY DEF Labels, Inside, _ARC4_UNLOCK
<1> QED BY <1>2, <1>3, <1>4, ThreadAssumption, MoveMutex

LEMMA NextMutex == IInv /\ [Next]_vars => NoneUnborn' /\ MutexHeld'
<1> SUFFICES ASSUME IInv, [Next]_vars PROVE NoneUnborn' /\ MutexHeld'
  OBVIOUS
<1> USE DEF At
<1>0. TypeOK /\ TypeOK' /\ mem \in [Procs -> Memory] /\ mem' \in [Procs -> Memory]
  BY NextType DEF IInv, TypeOK
<1>1. ASSUME NEW p \in Procs, NEW t \in Threads, Call(p, t)
      PROVE  NoneUnborn' /\ MutexHeld'
  <2>1. mem[p].mutex # t
    BY <1>1 DEF Call, IInv, MutexHeld, Inside
  <2>2. "lock" \in Labels /\ "lock" \notin Inside
    BY DEF Labels, Inside
  <2> QED BY <1>0, <1>1, <2>1, <2>2, MoveMutex DEF Call
<1>2. ASSUME NEW p \in Procs, NEW t \in Threads, _ARC4_LOCK(p, t)
      PROVE  NoneUnborn' /\ MutexHeld'
  <2>1. /\ mem'[p].mutex = t /\ mem[p].mutex = NoThread
        /\ \A q \in Procs : q # p => mem'[q] = mem[q]
    BY <1>0, <1>2 DEF _ARC4_LOCK, Memory
  <2>2. "locked" \in Labels /\ "locked" \in Inside
    BY DEF Labels, Inside
  <2> QED BY <1>0, <1>2, <2>1, <2>2, MoveMutex DEF _ARC4_LOCK
<1>3. ASSUME NEW p \in Procs, NEW t \in Threads, arc4random_stir(p, t)
      PROVE  NoneUnborn' /\ MutexHeld'
  <2>1. PICK s \in {Zeros, <<p, seeds[p] + 1>>}, r \in BOOLEAN :
          _ARC4_UNLOCK(p, t, _rs_stir(mem[p], s, r))
    BY <1>3 DEF arc4random_stir
  <2>2. s \in Seeds
    BY <1>0, <2>1, ZeroType DEF TypeOK, Seeds
  <2>3. _rs_stir(mem[p], s, r) \in Memory
    BY <1>0, <2>2, StirType
  <2> QED BY <1>3, <2>1, <2>3, ReturnMutex DEF arc4random_stir, Inside
<1>4. ASSUME NEW p \in Procs, NEW t \in Threads, arc4random(p, t)
      PROVE  NoneUnborn' /\ MutexHeld'
  <2>1. PICK m \in Stirred(p, WORDSZ) : _ARC4_UNLOCK(p, t, Taken(WordRekey(m), WORDSZ))
    BY <1>4 DEF arc4random
  <2>2. WordRekey(m) \in Memory /\ WORDSZ \in Nat /\ WORDSZ <= WordRekey(m).rs_have
    BY <1>0, SizeAssumption, StirredType, WordRekeyType
  <2>3. Taken(WordRekey(m), WORDSZ) \in Memory
    BY <2>2, TakenType
  <2> QED BY <1>4, <2>1, <2>3, ReturnMutex DEF arc4random, Inside
<1>5. ASSUME NEW p \in Procs, NEW t \in Threads, arc4random_buf(p, t)
      PROVE  NoneUnborn' /\ MutexHeld'
  <2>1. need[p][t] \in Nat
    BY <1>0 DEF TypeOK
  <2>2. PICK m \in Stirred(p, need[p][t]) : mem' = [mem EXCEPT ![p] = m]
    BY <1>5 DEF arc4random_buf
  <2>3. m.mutex = mem[p].mutex /\ mem[p].mutex = t
    BY <1>0, <1>5, <2>1, StirredType DEF arc4random_buf, IInv, MutexHeld, Inside
  <2>4. /\ mem'[p].mutex = mem[p].mutex /\ mem'[p].mutex = t
        /\ \A q \in Procs : q # p => mem'[q] = mem[q]
    BY <1>0, <2>2, <2>3
  <2>5. "_rs_random_buf" \in Labels /\ "_rs_random_buf" \in Inside
    BY DEF Labels, Inside
  <2> QED BY <1>0, <1>5, <2>4, <2>5, MoveMutex DEF arc4random_buf
<1>6. ASSUME NEW p \in Procs, NEW t \in Threads, _rs_random_buf(p, t)
      PROVE  NoneUnborn' /\ MutexHeld'
  <2> DEFINE n == Smaller(need[p][t], mem[p].rs_have)
             m == Taken(mem[p], n)
             refilled == IF m.rs_have = 0 THEN _rs_rekey(m) ELSE m
  <2>1. mem[p] \in Memory /\ need[p][t] \in Nat /\ mem[p].rs_have \in Nat
    BY <1>0, SizeAssumption DEF TypeOK, Memory
  <2>2. n \in Nat /\ n <= mem[p].rs_have
    BY <2>1 DEF Smaller
  <2>3. refilled.mutex = mem[p].mutex
    BY <2>1, <2>2, TakenType, RekeyType
  <2>4. CASE _ARC4_UNLOCK(p, t, mem[p])
    BY <1>6, <2>1, <2>4, ReturnMutex DEF _rs_random_buf, Inside
  <2>5. CASE mem' = [mem EXCEPT ![p] = refilled] /\ UNCHANGED <<pc, op>>
    <3> HIDE DEF refilled
    <3>1. \A q \in Procs : mem'[q].mutex = mem[q].mutex
      BY <1>0, <2>3, <2>5
    <3> QED BY <1>6, <2>5, <3>1 DEF _rs_random_buf, IInv, NoneUnborn, MutexHeld
  <2> QED BY <1>6, <2>4, <2>5 DEF _rs_random_buf
<1>7. ASSUME NEW p \in Procs, NEW t \in Threads, arc4random_addrandom(p, t)
      PROVE  NoneUnborn' /\ MutexHeld'
  <2>1. need[p][t] \in Nat
    BY <1>0 DEF TypeOK
  <2>2. PICK m \in Stirred(p, need[p][t]) : _ARC4_UNLOCK(p, t, _rs_rekey(m))
    BY <1>7 DEF arc4random_addrandom
  <2>3. _rs_rekey(m) \in Memory
    BY <1>0, <2>1, StirredType, RekeyType
  <2> QED BY <1>7, <2>2, <2>3, ReturnMutex DEF arc4random_addrandom, Inside
<1>8. ASSUME NEW p \in Procs, NEW t \in Threads, NEW q \in Procs, fork(p, t, q)
      PROVE  NoneUnborn' /\ MutexHeld'
  <2>1. /\ pc' = [pc EXCEPT ![q][t] = "idle"] /\ pc \in [Procs -> [Threads -> Labels]]
        /\ life' = [life EXCEPT ![q] = "alive"]
        /\ life \in [Procs -> {"unborn", "alive", "dead"}]
        /\ life[q] = "unborn" /\ life[p] = "alive" /\ pc[p][t] = "idle"
    BY <1>0, <1>8 DEF fork, TypeOK
  <2>2. \A r \in Procs : mem'[r].mutex = IF r = q THEN mem[p].mutex ELSE mem[r].mutex
    BY <1>0, <1>8 DEF fork, Memory
  <2>3. \A u \in Threads : pc[q][u] = "none"
    BY <2>1 DEF IInv, NoneUnborn
  <2>4. \A r \in Procs, u \in Threads :
          pc'[r][u] = IF r = q /\ u = t THEN "idle" ELSE pc[r][u]
    BY <2>1
  <2>5. NoneUnborn'
    BY <2>1, <2>4 DEF IInv, NoneUnborn
  <2>6. mem[p].mutex # t
    BY <2>1 DEF IInv, MutexHeld, Inside
  <2>7. MutexHeld'
    BY <2>2, <2>3, <2>4, <2>6 DEF IInv, MutexHeld, Inside
  <2> QED BY <2>5, <2>7
<1>9. ASSUME NEW p \in Procs, exit(p) PROVE NoneUnborn' /\ MutexHeld'
  <2>1. /\ pc' = [pc EXCEPT ![p] = [t \in Threads |-> "none"]]
        /\ pc \in [Procs -> [Threads -> Labels]]
        /\ life' = [life EXCEPT ![p] = "dead"] /\ mem' = [mem EXCEPT ![p] = InitMem]
        /\ life \in [Procs -> {"unborn", "alive", "dead"}]
    BY <1>0, <1>9 DEF exit, TypeOK
  <2>2. NoneUnborn'
    BY <2>1 DEF IInv, NoneUnborn
  <2>3. MutexHeld'
    BY <1>0, <2>1, InitMemType, ThreadAssumption DEF IInv, MutexHeld, Inside
  <2> QED BY <2>2, <2>3
<1>10. CASE UNCHANGED vars
  BY <1>10 DEF IInv, NoneUnborn, MutexHeld, vars
<1> QED BY <1>1, <1>2, <1>3, <1>4, <1>5, <1>6, <1>7, <1>8, <1>9, <1>10
        DEF Next, Step

(* A thread is between _ARC4_LOCK and _ARC4_UNLOCK only while it holds     *)
(* arc4random_mtx, and no function returns with the mutex locked, in any   *)
(* process, however often it forks.  NoneUnborn is needed because a child  *)
(* copies a mutex that another thread of its parent may hold.              *)
THEOREM MutexExcludes == Spec => []MutexHeld
<1>1. Init => IInv
  BY InitType, InitMutex DEF IInv
<1>2. IInv /\ [Next]_vars => IInv'
  BY NextType, NextMutex DEF IInv
<1>3. IInv => MutexHeld
  BY DEF IInv
<1> QED BY <1>1, <1>2, <1>3, PTL DEF Spec

-----------------------------------------------------------------------------
(* What it hands out.                                                      *)

(* What getentropy has given process p when it was asked n times.          *)
SeedsOf(p, n) == {<<p, k>> : k \in 1 .. n}

(* What it has given all of them.                                          *)
AllSeeds == {s \in Seeds : s[2] \in 1 .. seeds[s[1]]}

(* The seeds a process may have handed out bytes of: its own.  Where a     *)
(* fork may go unnoticed, of any process.                                  *)
Sources(p) == IF unheard /\ IdUsedAgain THEN AllSeeds ELSE SeedsOf(p, seeds[p])

(* Every place of rs_buf either has been handed out, and is cleared, or    *)
(* holds keystream of the generation before the next key's.                *)
Filled(m) == \A i \in Places :
  m.rs_buf[i] = IF i < Next_(m) THEN Zero ELSE <<m.key[1], m.key[2] - 1, i>>

(* The bytes of out that were made under m's seed lie before what m has to *)
(* give: of earlier generations, or of earlier places of the last one.     *)
Behind(m, out) == \A b \in out : b[1] = m.key[1] =>
  /\ b[2] < m.key[2]
  /\ b[2] = m.key[2] - 1 => b[3] < Next_(m)

Owned(m, S) == m.key[1] \in S
Drawn(out, S) == \A b \in out : b[1] \in S
Counts(out, n) == IsFiniteSet(out) /\ Cardinality(out) = n

(* No process with this id was ever born.                                  *)
Unused(id) == \A r \in Procs : life[r] # "unborn" => pid[r] # id

(* What does not depend on getentropy: the memory is filled as above, a    *)
(* generator that knows its process has been allocated, by a process that  *)
(* was born, and has an atfork handler unless there was none to be had;    *)
(* who is not born has drawn and handed out nothing, who lives has an id,  *)
(* and nobody is in the loop of _rs_random_buf with a memory copied by a   *)
(* fork since it was seeded.                                               *)
MemoryInv ==
  /\ \A p \in Procs :
       /\ Filled(mem[p])
       /\ mem[p].rs_pid # 0 => mem[p].allocated /\ ~ Unused(mem[p].rs_pid)
       /\ mem[p].allocated /\ ~ mem[p].registered => unheard
       /\ life[p] = "unborn" => seeds[p] = 0 /\ given[p] = {}
       /\ life[p] = "alive" => pid[p] # 0
  /\ \A p \in Procs, t \in Threads :
       pc[p][t] = "_rs_random_buf" => ~ Forked(mem[p], pid[p])

(* Where the bytes come from while getentropy works: a process hands out   *)
(* bytes of its Sources only, a memory that would be used as it is has a   *)
(* seed of them, and every generator was seeded.                           *)
ByteInv == ~ starved => \A p \in Procs :
  /\ ~ Forked(mem[p], pid[p]) => Owned(mem[p], Sources(p))
  /\ mem[p].allocated => Owned(mem[p], AllSeeds)
  /\ Drawn(given[p], Sources(p))
  /\ Behind(mem[p], given[p])
  /\ Counts(given[p], count[p])

(* A request in progress is one a client made.                             *)
Asked == \A p \in Procs, t \in Threads :
  pc[p][t] \in {"lock", "locked"} /\ op[p][t] \in {"arc4random_buf", "arc4random_addrandom"}
    => need[p][t] \in Requests

(* What was handed out since the last seeding and what may still be makes  *)
(* no more than RESEED, unless one request was larger than that.           *)
CountDown == \A p \in Procs : mem[p].allocated =>
  \/ served[p] + mem[p].rs_count <= RESEED
  \/ mem[p].rs_count = 0 /\ served[p] \in Requests

(* The inductive invariant.                                                *)
GInv == IInv /\ MemoryInv /\ ByteInv /\ Asked /\ CountDown

-----------------------------------------------------------------------------
(* Lemmas: what each function of the generator does to the bytes.          *)

(* Before the first call, and after the last, nothing is in the buffer.    *)
LEMMA InitFilled == Filled(InitMem)
BY SizeAssumption DEF Filled, InitMem, Places, Next_

(* Only the place where bytes are taken, the key and the buffer matter.    *)
LEMMA SameFilled ==
  ASSUME NEW m, NEW w, w.rs_buf = m.rs_buf, w.key = m.key, w.rs_have = m.rs_have
  PROVE  /\ Filled(m) => Filled(w)
         /\ \A out : Behind(m, out) => Behind(w, out)
         /\ \A S : Owned(m, S) => Owned(w, S)
BY DEF Filled, Behind, Owned, Next_

(* More seeds, more to draw bytes from.                                    *)
LEMMA MoreSources ==
  ASSUME NEW S, NEW T, S \subseteq T
  PROVE  /\ \A out : Drawn(out, S) => Drawn(out, T)
         /\ \A m : Owned(m, S) => Owned(m, T)
BY DEF Drawn, Owned

(* The entropy drawn next is nobody's yet, and no failure is among it.     *)
LEMMA FreshSeed ==
  ASSUME TypeOK, NEW p \in Procs
  PROVE  /\ <<p, seeds[p] + 1>> \in Seeds /\ <<p, seeds[p] + 1>> # Zeros
         /\ <<p, seeds[p] + 1>> \notin Sources(p)
         /\ \A q \in Procs : Zeros \notin Sources(q)
<1>1. seeds \in [Procs -> Nat] /\ FirstProc \in Procs
  BY ProcAssumption DEF TypeOK
<1>2. \A q \in Procs : Zeros \notin SeedsOf(q, seeds[q]) /\ Zeros \notin AllSeeds
  BY <1>1 DEF SeedsOf, AllSeeds, Zeros
<1>3. <<p, seeds[p] + 1>> \notin SeedsOf(p, seeds[p]) /\ <<p, seeds[p] + 1>> \notin AllSeeds
  BY <1>1 DEF SeedsOf, AllSeeds
<1> QED BY <1>1, <1>2, <1>3 DEF Sources, Seeds, Zeros

(* A fork that may go unnoticed may go unnoticed ever after, and entropy   *)
(* drawn stays drawn.                                                      *)
LEMMA SourcesGrow ==
  ASSUME TypeOK, seeds' \in [Procs -> Nat], \A q \in Procs : seeds[q] <= seeds'[q],
         unheard => unheard', IdUsedAgain => IdUsedAgain'
  PROVE  /\ \A q \in Procs : Sources(q) \subseteq Sources(q)'
         /\ AllSeeds \subseteq AllSeeds'
<1>1. seeds \in [Procs -> Nat]
  BY DEF TypeOK
<1>2. ASSUME NEW q \in Procs PROVE 1 .. seeds[q] \subseteq 1 .. seeds'[q]
  BY <1>1
<1>3. AllSeeds \subseteq AllSeeds'
  BY <1>2 DEF AllSeeds, Seeds
<1>4. ASSUME NEW q \in Procs
      PROVE  /\ SeedsOf(q, seeds[q]) \subseteq SeedsOf(q, seeds'[q])
             /\ SeedsOf(q, seeds[q]) \subseteq AllSeeds'
  BY <1>1, <1>2 DEF SeedsOf, AllSeeds, Seeds
<1> QED BY <1>3, <1>4 DEF Sources

(* New entropy is the process's.                                           *)
LEMMA SeedDrawn ==
  ASSUME seeds' \in [Procs -> Nat], NEW p \in Procs, seeds'[p] # 0
  PROVE  <<p, seeds'[p]>> \in Sources(p)' /\ <<p, seeds'[p]>> \in AllSeeds'
BY DEF Sources, SeedsOf, AllSeeds, Seeds

(* _rs_stir empties the buffer.  With new entropy, what was handed out has *)
(* nothing to do with the new key.                                         *)
LEMMA StirFills ==
  ASSUME NEW m \in Memory, NEW s \in Seeds, NEW r \in BOOLEAN
  PROVE  /\ Filled(_rs_stir(m, s, r))
         /\ _rs_stir(m, s, r).allocated /\ _rs_stir(m, s, r).registered = r
         /\ _rs_stir(m, s, r).rs_pid = m.rs_pid /\ _rs_stir(m, s, r).rs_forked = m.rs_forked
         /\ _rs_stir(m, s, r).rs_count = RESEED
         /\ s # Zeros => _rs_stir(m, s, r).key = <<s, 0>>
<1> DEFINE w == _rs_stir(m, s, r)
<1>1. /\ w.rs_buf = [i \in Places |-> Zero] /\ w.rs_have = 0 /\ w.allocated
      /\ w.rs_pid = m.rs_pid /\ w.rs_forked = m.rs_forked /\ w.rs_count = RESEED
      /\ w.registered = r
      /\ s # Zeros => w.key = <<s, 0>>
  BY DEF _rs_stir, Memory
<1>2. Next_(w) = RSBUFSZ + 1
  BY <1>1, SizeAssumption DEF Next_
<1>3. \A i \in Places : i < Next_(w)
  BY <1>2, SizeAssumption DEF Places
<1> HIDE DEF w
<1>4. Filled(w)
  BY <1>1, <1>3 DEF Filled
<1> QED BY <1>1, <1>4 DEF w

(* New entropy: the key is the process's, nothing was made under it.       *)
LEMMA StirOwns ==
  ASSUME NEW m \in Memory, NEW s \in Seeds, NEW r \in BOOLEAN, s # Zeros,
         NEW S, s \notin S, NEW out, Drawn(out, S)
  PROVE  /\ \A T : s \in T => Owned(_rs_stir(m, s, r), T)
         /\ Behind(_rs_stir(m, s, r), out)
<1>1. _rs_stir(m, s, r).key = <<s, 0>>
  BY StirFills
<1> QED BY <1>1 DEF Owned, Behind, Drawn

(* _rs_rekey fills the buffer with a new generation: everything handed out *)
(* is of earlier ones.                                                     *)
LEMMA RekeyFills ==
  ASSUME NEW m \in Memory, NEW out, Behind(m, out), out \subseteq Bytes
  PROVE  /\ Filled(_rs_rekey(m))
         /\ Behind(_rs_rekey(m), out)
         /\ \A S : Owned(m, S) => Owned(_rs_rekey(m), S)
         /\ _rs_rekey(m).allocated = m.allocated /\ _rs_rekey(m).registered = m.registered
         /\ _rs_rekey(m).rs_pid = m.rs_pid /\ _rs_rekey(m).rs_forked = m.rs_forked
         /\ _rs_rekey(m).rs_count = m.rs_count
<1> DEFINE w == _rs_rekey(m)
<1>0. m.key[1] \in Seeds /\ m.key[2] \in Nat /\ \A b \in out : b[2] \in Nat
  BY DEF Memory, Bytes
<1>1. /\ w.rs_buf = [i \in Places |->
                       IF i <= SEEDSZ THEN Zero ELSE <<m.key[1], m.key[2], i>>]
      /\ w.key = <<m.key[1], m.key[2] + 1>> /\ w.rs_have = RSBUFSZ - SEEDSZ
      /\ w.allocated = m.allocated /\ w.registered = m.registered /\ w.rs_pid = m.rs_pid
      /\ w.rs_forked = m.rs_forked /\ w.rs_count = m.rs_count
  BY DEF _rs_rekey, Memory
<1>2. Next_(w) = SEEDSZ + 1
  BY <1>1, SizeAssumption DEF Next_
<1>3. w.key[1] = m.key[1] /\ w.key[2] = m.key[2] + 1 /\ w.key[2] - 1 = m.key[2]
  BY <1>0, <1>1
<1>4. \A i \in Places : i <= SEEDSZ <=> i < SEEDSZ + 1
  BY SizeAssumption DEF Places
<1> HIDE DEF w
<1>5. Filled(w)
  BY <1>1, <1>2, <1>3, <1>4 DEF Filled
<1>6. Behind(w, out)
  BY <1>0, <1>3 DEF Behind
<1>7. \A S : Owned(m, S) => Owned(w, S)
  BY <1>3 DEF Owned
<1> QED BY <1>1, <1>5, <1>6, <1>7 DEF w

(* The next bytes to be taken are keystream, each place's own.             *)
LEMMA Available ==
  ASSUME NEW m \in Memory, NEW n \in Nat, n <= m.rs_have, Filled(m),
         NEW i \in Next_(m) .. Next_(m) + n - 1
  PROVE  /\ ByteAt(m, i) = <<m.key[1], m.key[2] - 1, i>>
         /\ i \in Nat /\ Next_(m) <= i /\ i < Next_(m) + n
<1>1. /\ Next_(m) \in Nat /\ Next_(m) >= 1 /\ Next_(m) + n - 1 <= RSBUFSZ
      /\ RSBUFSZ \in Nat
  BY SizeAssumption DEF Memory, Next_
<1>2. i \in Int /\ i >= Next_(m) /\ i < Next_(m) + n
  BY <1>1
<1>3. i \in Places /\ ~ (i < Next_(m))
  BY <1>1, <1>2 DEF Places
<1>4. ByteAt(m, i) = m.rs_buf[i]
  BY <1>3 DEF ByteAt
<1>5. m.rs_buf[i] = <<m.key[1], m.key[2] - 1, i>>
  BY <1>3 DEF Filled
<1> QED BY <1>1, <1>2, <1>4, <1>5

(* Taking n bytes leaves their places cleared.                             *)
LEMMA TakenFills ==
  ASSUME NEW m \in Memory, NEW n \in Nat, n <= m.rs_have, Filled(m)
  PROVE  /\ Filled(Taken(m, n))
         /\ \A S : Owned(m, S) => Owned(Taken(m, n), S)
         /\ Next_(Taken(m, n)) = Next_(m) + n /\ Taken(m, n).key = m.key
         /\ Taken(m, n).allocated = m.allocated /\ Taken(m, n).registered = m.registered
         /\ Taken(m, n).rs_pid = m.rs_pid /\ Taken(m, n).rs_forked = m.rs_forked
         /\ Taken(m, n).rs_count = m.rs_count
<1> DEFINE w == Taken(m, n)
           first == Next_(m)
<1>0. /\ m.rs_have \in Nat /\ m.rs_have <= RSBUFSZ - SEEDSZ
      /\ RSBUFSZ \in Nat /\ SEEDSZ \in Nat
  BY SizeAssumption DEF Memory
<1>1. /\ w.rs_buf = [i \in Places |->
                       IF i \in first .. first + n - 1 THEN Zero ELSE m.rs_buf[i]]
      /\ w.key = m.key /\ w.rs_have = m.rs_have - n
      /\ w.allocated = m.allocated /\ w.registered = m.registered /\ w.rs_pid = m.rs_pid
      /\ w.rs_forked = m.rs_forked /\ w.rs_count = m.rs_count
  BY DEF Taken, Memory
<1>2. first \in Nat /\ Next_(w) = first + n
  BY <1>0, <1>1 DEF Next_
<1> HIDE DEF w
<1>3. ASSUME NEW i \in Places
      PROVE  w.rs_buf[i] = IF i < first + n THEN Zero ELSE <<w.key[1], w.key[2] - 1, i>>
  <2>1. m.rs_buf[i] = IF i < first THEN Zero ELSE <<m.key[1], m.key[2] - 1, i>>
    BY DEF Filled
  <2>2. i \in Nat
    BY DEF Places
  <2> HIDE DEF first
  <2> QED BY <1>1, <1>2, <2>1, <2>2
<1>4. Filled(w)
  BY <1>2, <1>3 DEF Filled
<1>5. \A S : Owned(m, S) => Owned(w, S)
  BY <1>1 DEF Owned
<1> QED BY <1>1, <1>2, <1>4, <1>5 DEF w

(* The bytes taken were not handed out before: they lie between what had   *)
(* been and what is left.                                                  *)
LEMMA TakenBehind ==
  ASSUME NEW m \in Memory, NEW n \in Nat, n <= m.rs_have, Filled(m),
         NEW out, Behind(m, out), out \subseteq Bytes,
         NEW new, new = {ByteAt(m, i) : i \in Next_(m) .. Next_(m) + n - 1}
  PROVE  /\ Behind(Taken(m, n), out \cup new)
         /\ \A S : Owned(m, S) => Drawn(new, S)
<1> DEFINE w == Taken(m, n)
           first == Next_(m)
<1>1. /\ m.key[2] \in Nat /\ first \in Nat
      /\ \A b \in out : b[2] \in Nat /\ b[3] \in Nat
  BY SizeAssumption DEF Memory, Bytes, Next_
<1>2. w.key = m.key /\ Next_(w) = first + n
  BY TakenFills
<1>3. \A i \in first .. first + n - 1 : ByteAt(m, i) = <<m.key[1], m.key[2] - 1, i>>
  BY Available
<1> HIDE DEF w
<1>4. ASSUME NEW b \in out, b[1] = w.key[1]
      PROVE  b[2] < w.key[2] /\ (b[2] = w.key[2] - 1 => b[3] < Next_(w))
  <2>1. b[2] < m.key[2] /\ (b[2] = m.key[2] - 1 => b[3] < first)
    BY <1>2, <1>4 DEF Behind
  <2> HIDE DEF first
  <2> QED BY <1>1, <1>2, <2>1
<1>5. ASSUME NEW b \in new
      PROVE  b[2] < w.key[2] /\ (b[2] = w.key[2] - 1 => b[3] < Next_(w))
  <2>1. PICK i \in first .. first + n - 1 : b = <<m.key[1], m.key[2] - 1, i>>
    BY <1>3
  <2>2. b[2] = m.key[2] - 1 /\ b[3] = i
    BY <2>1
  <2> HIDE DEF first
  <2> QED BY <1>1, <1>2, <2>2
<1>6. Behind(w, out \cup new)
  BY <1>4, <1>5 DEF Behind
<1>7. \A b \in new : b[1] = m.key[1]
  BY <1>3
<1> QED BY <1>6, <1>7 DEF w, Owned, Drawn

(* The bytes taken are as many as were asked for, and none was given yet.  *)
LEMMA TakenCounts ==
  ASSUME NEW m \in Memory, NEW n \in Nat, n <= m.rs_have, Filled(m),
         NEW out, Behind(m, out), out \subseteq Bytes, NEW c \in Nat, Counts(out, c),
         NEW new, new = {ByteAt(m, i) : i \in Next_(m) .. Next_(m) + n - 1}
  PROVE  Counts(out \cup new, c + n)
<1> DEFINE first == Next_(m)
           places == first .. first + n - 1
           f == [i \in places |-> ByteAt(m, i)]
<1>0. m.key[2] \in Nat /\ m.rs_have \in Nat /\ RSBUFSZ \in Nat /\ SEEDSZ \in Nat
      /\ m.rs_have <= RSBUFSZ - SEEDSZ
  BY SizeAssumption DEF Memory
<1>1. first \in Nat /\ first + n - 1 <= RSBUFSZ /\ first >= 1
  BY <1>0 DEF Next_
<1>2. \A i \in places : ByteAt(m, i) = <<m.key[1], m.key[2] - 1, i>>
  BY Available
<1>3. IsFiniteSet(places) /\ Cardinality(places) = n
  <2>1. first \in Int /\ first + n - 1 \in Int
    BY <1>1
  <2>2. (IF first > first + n - 1 THEN 0 ELSE (first + n - 1) - first + 1) = n
    BY <1>1
  <2> HIDE DEF first
  <2> QED BY <2>1, <2>2, FS_Interval
<1>4. f \in Bijection(places, new)
  <2>1. f \in [places -> new] /\ \A b \in new : \E i \in places : f[i] = b
    OBVIOUS
  <2>2. \A i, j \in places : f[i] = f[j] => i = j
    BY <1>2
  <2> QED BY <2>1, <2>2 DEF Bijection, Injection, Surjection, IsInjective
<1>5. IsFiniteSet(new) /\ Cardinality(new) = n
  <2>1. ExistsBijection(places, new)
    BY <1>4 DEF ExistsBijection
  <2> HIDE DEF places
  <2> QED BY <1>3, <2>1, FS_Bijection
<1>6. out \cap new = {}
  <2> SUFFICES ASSUME NEW b \in out, b \in new PROVE FALSE
    OBVIOUS
  <2>1. PICK i \in places : b = <<m.key[1], m.key[2] - 1, i>>
    BY <1>2
  <2>2. b[1] = m.key[1] /\ b[2] = m.key[2] - 1 /\ b[3] = i /\ i \in Nat /\ i >= first
    BY <1>1, <2>1
  <2>3. b[3] < first
    BY <2>2 DEF Behind
  <2> HIDE DEF first
  <2> QED BY <1>1, <2>2, <2>3
<1>7. /\ IsFiniteSet(out \cup new)
      /\ Cardinality(out \cup new) = Cardinality(out) + Cardinality(new) - Cardinality(out \cap new)
  BY <1>5, FS_Union DEF Counts
<1>8. Cardinality(out \cap new) = 0
  BY <1>6, FS_EmptySet
<1> QED BY <1>5, <1>7, <1>8 DEF Counts

(* What _ARC4_UNLOCK changes in the memory is the mutex.                   *)
LEMMA UnlockKeeps ==
  ASSUME NEW m \in Memory, NEW w, w = [m EXCEPT !.mutex = NoThread]
  PROVE  /\ Filled(m) => Filled(w)
         /\ \A out : Behind(m, out) => Behind(w, out)
         /\ \A S : Owned(m, S) => Owned(w, S)
         /\ \A id : Forked(w, id) <=> Forked(m, id)
         /\ w.allocated = m.allocated /\ w.registered = m.registered
         /\ w.rs_pid = m.rs_pid /\ w.rs_count = m.rs_count
<1>1. /\ w.rs_buf = m.rs_buf /\ w.key = m.key /\ w.rs_have = m.rs_have
      /\ w.allocated = m.allocated /\ w.registered = m.registered /\ w.rs_pid = m.rs_pid
      /\ w.rs_forked = m.rs_forked /\ w.rs_count = m.rs_count
  BY DEF Memory
<1> QED BY <1>1, SameFilled DEF Forked

(* _rs_forkdetect: the memory is the process's own afterwards, and nothing *)
(* is counted as left in one that was not.                                 *)
LEMMA ForkdetectOwns ==
  ASSUME NEW m \in Memory, NEW me \in Pids
  PROVE  /\ ~ Forked(_rs_forkdetect(m, me), me)
         /\ \/ _rs_forkdetect(m, me) = m /\ ~ Forked(m, me)
            \/ _rs_forkdetect(m, me).rs_count = 0
<1>1. me # 0
  BY ProcAssumption
<1>2. CASE Forked(m, me)
  <2> DEFINE w == [m EXCEPT !.rs_pid = me, !.rs_forked = FALSE, !.rs_have = 0, !.rs_count = 0]
  <2>1. w.rs_pid = me /\ w.rs_forked = FALSE /\ w.rs_count = 0
    BY DEF Memory
  <2>2. _rs_forkdetect(m, me) = w
    BY <1>2 DEF _rs_forkdetect
  <2> HIDE DEF w
  <2> QED BY <1>1, <2>1, <2>2 DEF Forked
<1>3. CASE ~ Forked(m, me)
  BY <1>3 DEF _rs_forkdetect
<1> QED BY <1>2, <1>3

(* What a process has in its memory and has handed out, as ByteInv says,   *)
(* after the step.                                                         *)
Held(p, m) ==
  /\ ~ Forked(m, pid[p]) => Owned(m, Sources(p)')
  /\ m.allocated => Owned(m, AllSeeds')
  /\ Drawn(given'[p], Sources(p)')
  /\ Behind(m, given'[p])
  /\ Counts(given'[p], count'[p])

(* The generator is not allocated without a handler unless that failed.    *)
Heard(m) == m.allocated /\ ~ m.registered => unheard'

(* Process p draws entropy, or none: the others draw nothing.              *)
Draws(p) ==
  /\ seeds' \in [Procs -> Nat] /\ seeds[p] <= seeds'[p] /\ (unheard => unheard')
  /\ \A q \in Procs : q # p => seeds'[q] = seeds[q]

(* _rs_stir with what getentropy and pthread_atfork return.                *)
LEMMA StirDraws ==
  ASSUME GInv, NEW p \in Procs, UNCHANGED <<life, pid>>,
         NEW m \in Memory, m.allocated = mem[p].allocated, m.registered = mem[p].registered,
         NEW s \in {Zeros, <<p, seeds[p] + 1>>}, NEW r \in BOOLEAN,
         Entropy(p, s), _ARC4_ATFORK(p, r)
  PROVE  /\ Draws(p) /\ Heard(_rs_stir(m, s, r))
         /\ ~ starved' => /\ ~ starved
                          /\ Owned(_rs_stir(m, s, r), Sources(p)')
                          /\ Owned(_rs_stir(m, s, r), AllSeeds')
                          /\ Drawn(given[p], Sources(p)')
                          /\ Behind(_rs_stir(m, s, r), given[p])
<1>1. /\ seeds \in [Procs -> Nat] /\ starved \in BOOLEAN /\ unheard \in BOOLEAN
      /\ s \in Seeds /\ TypeOK /\ seeds[p] + 1 \in Nat
  BY FreshSeed, ZeroType DEF GInv, IInv, TypeOK
<1>2. Draws(p)
  <2>1. CASE seeds' = [seeds EXCEPT ![p] = @ + 1]
    BY <1>1, <2>1 DEF _ARC4_ATFORK, Draws
  <2>2. CASE UNCHANGED seeds
    BY <1>1, <2>2 DEF _ARC4_ATFORK, Draws
  <2> QED BY <2>1, <2>2 DEF Entropy
<1>3. Heard(_rs_stir(m, s, r))
  <2>1. _rs_stir(m, s, r).registered = r
    BY <1>1, StirFills
  <2>2. ~ r => unheard'
    BY <1>1 DEF _ARC4_ATFORK, GInv, MemoryInv
  <2> QED BY <2>1, <2>2 DEF Heard
<1>4. ASSUME ~ starved'
      PROVE  /\ ~ starved /\ s = <<p, seeds[p] + 1>> /\ s = <<p, seeds'[p]>> /\ seeds'[p] # 0
  <2>1. CASE s = <<p, seeds[p] + 1>> /\ seeds' = [seeds EXCEPT ![p] = @ + 1] /\ UNCHANGED starved
    <3>1. seeds'[p] = seeds[p] + 1
      BY <1>1, <2>1
    <3> QED BY <1>1, <1>4, <2>1, <3>1
  <2>2. CASE starved' = TRUE
    BY <1>4, <2>2
  <2> QED BY <2>1, <2>2 DEF Entropy
<1>5. \A q \in Procs : Sources(q) \subseteq Sources(q)'
  <2>1. IdUsedAgain => IdUsedAgain'
    BY DEF IdUsedAgain
  <2>2. \A q \in Procs : seeds[q] <= seeds'[q]
    BY <1>1, <1>2 DEF Draws
  <2> QED BY <1>1, <1>2, <2>1, <2>2, SourcesGrow DEF Draws
<1>6. ASSUME ~ starved'
      PROVE  /\ Owned(_rs_stir(m, s, r), Sources(p)') /\ Owned(_rs_stir(m, s, r), AllSeeds')
             /\ Drawn(given[p], Sources(p)') /\ Behind(_rs_stir(m, s, r), given[p])
  <2>1. Drawn(given[p], Sources(p))
    BY <1>4, <1>6 DEF GInv, ByteInv
  <2>2. s # Zeros /\ s \notin Sources(p)
    BY <1>1, <1>4, <1>6, FreshSeed
  <2>3. s \in Sources(p)' /\ s \in AllSeeds'
    BY <1>2, <1>4, <1>6, SeedDrawn DEF Draws
  <2>4. Drawn(given[p], Sources(p)')
    BY <1>5, <2>1, MoreSources
  <2> QED BY <1>1, <2>1, <2>2, <2>3, <2>4, StirOwns
<1> QED BY <1>2, <1>3, <1>4, <1>6

(* _rs_stir_if_needed: whatever it returns may be used as it is, and the   *)
(* count starts from this request or goes on from the last one.            *)
LEMMA StirredBytes ==
  ASSUME GInv, NEW p \in Procs, life[p] = "alive", UNCHANGED <<life, pid>>, NEW len \in Nat,
         NEW m \in Stirred(p, len), _rs_stir_if_needed(p, len, m)
  PROVE  /\ Filled(m) /\ m.allocated /\ ~ Forked(m, pid[p])
         /\ Draws(p) /\ Heard(m)
         /\ \A q \in Procs : q # p => served'[q] = served[q]
         /\ ~ starved' => /\ ~ starved
                          /\ Owned(m, Sources(p)') /\ Owned(m, AllSeeds')
                          /\ Drawn(given[p], Sources(p)')
                          /\ Behind(m, given[p])
         /\ \/ served'[p] + m.rs_count <= RESEED
            \/ m.rs_count = 0 /\ served'[p] = len
<1> DEFINE found == _rs_forkdetect(mem[p], pid[p])
           seed  == <<p, seeds[p] + 1>>
<1>1. /\ mem[p] \in Memory /\ pid[p] \in Pids /\ seed \in Seeds /\ seeds[p] \in Nat
      /\ served[p] \in Nat /\ seeds \in [Procs -> Nat] /\ served \in [Procs -> Nat]
      /\ starved \in BOOLEAN
  BY DEF GInv, IInv, TypeOK, Seeds, MemoryInv
<1>2. /\ found \in Memory
      /\ found.allocated = mem[p].allocated /\ found.registered = mem[p].registered
  <2>1. found.allocated = mem[p].allocated /\ found.registered = mem[p].registered
    BY <1>1 DEF _rs_forkdetect, Memory
  <2> QED BY <1>1, <2>1, ForkdetectType
<1>3. /\ ~ Forked(found, pid[p])
      /\ found = mem[p] \/ found.rs_count = 0
  BY <1>1, ForkdetectOwns
<1>4. CASE /\ StirNeeded(found, len)
           /\ \E s \in {Zeros, seed}, r \in BOOLEAN :
                /\ Entropy(p, s) /\ _ARC4_ATFORK(p, r)
                /\ m = Counted(_rs_stir(found, s, r), len)
           /\ served' = [served EXCEPT ![p] = len]
  <2> PICK s \in {Zeros, seed}, r \in BOOLEAN :
        /\ Entropy(p, s) /\ _ARC4_ATFORK(p, r)
        /\ m = Counted(_rs_stir(found, s, r), len)
    BY <1>4
  <2> DEFINE w == _rs_stir(found, s, r)
  <2>1. s \in Seeds
    BY <1>1, ZeroType
  <2>2. /\ Draws(p) /\ Heard(w)
        /\ ~ starved' => /\ ~ starved
                         /\ Owned(w, Sources(p)') /\ Owned(w, AllSeeds')
                         /\ Drawn(given[p], Sources(p)') /\ Behind(w, given[p])
    <3> HIDE DEF found
    <3> QED BY <1>2, StirDraws DEF seed
  <2> HIDE DEF found, seed
  <2>3. /\ w \in Memory /\ Filled(w) /\ w.allocated /\ w.rs_pid = found.rs_pid
        /\ w.rs_forked = found.rs_forked /\ w.rs_count = RESEED
    BY <1>2, <2>1, StirFills, StirType
  <2> HIDE DEF w
  <2>4. /\ m.rs_buf = w.rs_buf /\ m.key = w.key /\ m.rs_have = w.rs_have
        /\ m.allocated = w.allocated /\ m.registered = w.registered
        /\ m.rs_pid = w.rs_pid /\ m.rs_forked = w.rs_forked
        /\ m.rs_count = IF RESEED <= len THEN 0 ELSE RESEED - len
    BY <2>3 DEF Counted, Memory, w
  <2>5. Filled(m) /\ m.allocated /\ ~ Forked(m, pid[p]) /\ Heard(m)
    BY <1>3, <2>2, <2>3, <2>4, SameFilled DEF Forked, Heard
  <2>6. \A q \in Procs : q # p => served'[q] = served[q]
    BY <1>1, <1>4
  <2>7. ~ starved' => Owned(m, Sources(p)') /\ Owned(m, AllSeeds') /\ Behind(m, given[p])
    BY <2>2, <2>4, SameFilled
  <2>8. served'[p] + m.rs_count <= RESEED \/ (m.rs_count = 0 /\ served'[p] = len)
    BY <1>1, <1>4, <2>4, SizeAssumption
  <2> QED BY <2>2, <2>5, <2>6, <2>7, <2>8
<1>5. CASE /\ ~ StirNeeded(found, len) /\ m = Counted(found, len)
           /\ served' = [served EXCEPT ![p] = @ + len] /\ UNCHANGED <<seeds, starved, unheard>>
  <2>1. found.allocated /\ found.rs_count \in Nat /\ ~ found.rs_count <= len
    BY <1>2, <1>5, SizeAssumption DEF StirNeeded, Memory
  <2>2. found = mem[p] /\ ~ Forked(mem[p], pid[p])
    BY <1>3, <2>1
  <2> HIDE DEF found
  <2>3. /\ m.rs_buf = found.rs_buf /\ m.key = found.key /\ m.rs_have = found.rs_have
        /\ m.allocated = found.allocated /\ m.registered = found.registered
        /\ m.rs_pid = found.rs_pid
        /\ m.rs_forked = found.rs_forked /\ m.rs_count = found.rs_count - len
    BY <1>2, <1>5, <2>1 DEF Counted, Memory
  <2>4. Filled(m) /\ m.allocated /\ ~ Forked(m, pid[p])
    BY <1>3, <2>1, <2>2, <2>3, SameFilled DEF Forked, GInv, MemoryInv
  <2>5. Sources(p)' = Sources(p) /\ AllSeeds' = AllSeeds
    BY <1>5 DEF Sources, AllSeeds, IdUsedAgain
  <2>6. Draws(p) /\ Heard(m)
    BY <1>1, <1>5, <2>2, <2>3 DEF Draws, Heard, GInv, MemoryInv
  <2>7. ~ starved' => /\ ~ starved /\ Owned(m, Sources(p)') /\ Owned(m, AllSeeds')
                      /\ Behind(m, given[p]) /\ Drawn(given[p], Sources(p)')
    BY <1>5, <2>1, <2>2, <2>3, <2>5, SameFilled DEF GInv, ByteInv
  <2>8. served[p] + found.rs_count <= RESEED \/ found.rs_count = 0
    BY <2>1, <2>2 DEF GInv, CountDown
  <2>9. served'[p] + m.rs_count <= RESEED
    BY <1>1, <1>5, <2>1, <2>3, <2>8
  <2> QED BY <1>1, <1>5, <2>4, <2>6, <2>7, <2>9
<1> QED BY <1>4, <1>5 DEF _rs_stir_if_needed

-----------------------------------------------------------------------------
(* A step of one process: what it has to satisfy there, the others being   *)
(* as they were.                                                           *)
LEMMA ProcessStep ==
  ASSUME GInv, NEW p \in Procs, life[p] = "alive", UNCHANGED <<life, pid>>, Draws(p),
         \A q \in Procs : q # p =>
           /\ mem'[q] = mem[q] /\ pc'[q] = pc[q]
           /\ given'[q] = given[q] /\ count'[q] = count[q],
         Filled(mem'[p]), Heard(mem'[p]), mem'[p].rs_pid \in {0, mem[p].rs_pid, pid[p]},
         mem'[p].rs_pid # 0 => mem'[p].allocated,
         \A t \in Threads : pc'[p][t] = "_rs_random_buf" => ~ Forked(mem'[p], pid[p]),
         ~ starved' => ~ starved /\ Held(p, mem'[p])
  PROVE  MemoryInv' /\ ByteInv'
<1>1. MemoryInv'
  <2>1. \A id : Unused(id)' <=> Unused(id)
    BY DEF Unused
  <2>2. ~ Unused(pid[p])
    BY DEF Unused
  <2>3. ASSUME NEW q \in Procs
        PROVE  /\ Filled(mem'[q])
               /\ mem'[q].rs_pid # 0 => mem'[q].allocated /\ ~ Unused(mem'[q].rs_pid)
               /\ mem'[q].allocated /\ ~ mem'[q].registered => unheard'
               /\ life[q] = "unborn" => seeds'[q] = 0 /\ given'[q] = {}
               /\ life[q] = "alive" => pid[q] # 0
    BY <2>2 DEF GInv, MemoryInv, Draws, Heard
  <2>4. ASSUME NEW q \in Procs, NEW t \in Threads, pc'[q][t] = "_rs_random_buf"
        PROVE  ~ Forked(mem'[q], pid[q])
    BY <2>4 DEF GInv, MemoryInv
  <2> QED BY <2>1, <2>3, <2>4 DEF MemoryInv
<1>2. ByteInv'
  <2> SUFFICES ASSUME ~ starved', NEW q \in Procs
               PROVE  /\ ~ Forked(mem'[q], pid[q]) => Owned(mem'[q], Sources(q)')
                      /\ mem'[q].allocated => Owned(mem'[q], AllSeeds')
                      /\ Drawn(given'[q], Sources(q)')
                      /\ Behind(mem'[q], given'[q])
                      /\ Counts(given'[q], count'[q])
    BY DEF ByteInv
  <2>1. TypeOK /\ IdUsedAgain' = IdUsedAgain
    BY DEF GInv, IInv, IdUsedAgain
  <2>2. \A r \in Procs : seeds[r] <= seeds'[r]
    <3>1. seeds \in [Procs -> Nat]
      BY <2>1 DEF TypeOK
    <3> QED BY <3>1 DEF Draws
  <2>3. Sources(q) \subseteq Sources(q)' /\ AllSeeds \subseteq AllSeeds'
    BY <2>1, <2>2, SourcesGrow DEF Draws
  <2>4. CASE q # p
    BY <2>3, <2>4, MoreSources DEF GInv, ByteInv
  <2>5. CASE q = p
    BY <2>5 DEF Held
  <2> QED BY <2>4, <2>5
<1> QED BY <1>1, <1>2

(* Only the thread that holds the mutex is in the loop of _rs_random_buf.  *)
LEMMA OneInside ==
  ASSUME GInv, NEW p \in Procs, NEW t \in Threads, pc[p][t] \in Inside,
         NEW l, Goto(p, t, l)
  PROVE  /\ \A u \in Threads : pc'[p][u] = "_rs_random_buf" => u = t /\ l = "_rs_random_buf"
         /\ \A q \in Procs : q # p => pc'[q] = pc[q]
<1>1. pc' = [pc EXCEPT ![p][t] = l] /\ pc \in [Procs -> [Threads -> Labels]]
  BY DEF Goto, GInv, IInv, TypeOK
<1>2. \A u \in Threads : pc[p][u] \in Inside => u = t
  BY DEF GInv, IInv, MutexHeld
<1> QED BY <1>1, <1>2 DEF Inside

(* The same for a call that returns with m in its memory.                  *)
LEMMA ReturnStep ==
  ASSUME GInv, NEW p \in Procs, NEW t \in Threads, NEW m \in Memory,
         life[p] = "alive", pc[p][t] \in Inside, _ARC4_UNLOCK(p, t, m),
         UNCHANGED <<life, pid>>, Draws(p),
         \A q \in Procs : q # p => given'[q] = given[q] /\ count'[q] = count[q],
         Filled(m), Heard(m), m.rs_pid \in {0, mem[p].rs_pid, pid[p]},
         m.rs_pid # 0 => m.allocated,
         ~ starved' => ~ starved /\ Held(p, m)
  PROVE  MemoryInv' /\ ByteInv'
<1> DEFINE w == [m EXCEPT !.mutex = NoThread]
<1>1. mem'[p] = w /\ \A q \in Procs : q # p => mem'[q] = mem[q]
  BY DEF _ARC4_UNLOCK, GInv, IInv, TypeOK
<1>2. /\ \A u \in Threads : pc'[p][u] # "_rs_random_buf"
      /\ \A q \in Procs : q # p => pc'[q] = pc[q]
  BY OneInside DEF _ARC4_UNLOCK
<1> HIDE DEF w
<1>3. /\ Filled(w) /\ w.rs_pid = m.rs_pid /\ w.allocated = m.allocated /\ Heard(w)
      /\ Held(p, m) => Held(p, w)
  BY UnlockKeeps DEF w, Heard, Held
<1> QED BY <1>1, <1>2, <1>3, ProcessStep

(* Bytes of a memory that is the process's own are handed out.             *)
LEMMA GiveBytes ==
  ASSUME TypeOK, NEW p \in Procs, NEW m \in Memory, NEW n \in Nat, n <= m.rs_have,
         Filled(m), Give(p, m, n), NEW S, Owned(m, S), Drawn(given[p], S),
         Behind(m, given[p]), Counts(given[p], count[p])
  PROVE  /\ Drawn(given'[p], S)
         /\ Behind(Taken(m, n), given'[p])
         /\ Counts(given'[p], count'[p])
<1> DEFINE new == {ByteAt(m, i) : i \in Next_(m) .. Next_(m) + n - 1}
<1>1. given[p] \subseteq Bytes /\ count[p] \in Nat
  BY DEF TypeOK
<1>2. given'[p] = given[p] \cup new /\ count'[p] = count[p] + n
  BY DEF Give, TypeOK
<1>3. Drawn(new, S) /\ Behind(Taken(m, n), given[p] \cup new)
  BY <1>1, TakenBehind
<1>4. Counts(given[p] \cup new, count[p] + n)
  BY <1>1, TakenCounts
<1> HIDE DEF new
<1> QED BY <1>2, <1>3, <1>4 DEF Drawn

-----------------------------------------------------------------------------
(* Before the first call nothing has been drawn or handed out.             *)
LEMMA InitBytes == Init => MemoryInv /\ ByteInv /\ Asked /\ CountDown
<1> SUFFICES ASSUME Init PROVE MemoryInv /\ ByteInv /\ Asked /\ CountDown
  OBVIOUS
<1>1. \A p \in Procs : mem[p] = InitMem /\ seeds[p] = 0 /\ given[p] = {} /\ count[p] = 0
  BY DEF Init
<1>2. InitMem.rs_pid = 0 /\ ~ InitMem.allocated /\ Filled(InitMem)
  BY InitFilled DEF InitMem
<1>3. \A p \in Procs, t \in Threads : pc[p][t] \in {"idle", "none"}
  BY DEF Init
<1>4. \A p \in Procs : life[p] = "alive" => pid[p] # 0
  BY ProcAssumption DEF Init
<1>5. MemoryInv
  BY <1>1, <1>2, <1>3, <1>4 DEF MemoryInv
<1>6. Counts({}, 0)
  BY FS_EmptySet DEF Counts
<1>7. ByteInv
  BY <1>1, <1>2, <1>6 DEF ByteInv, Forked, Drawn, Behind
<1> QED BY <1>1, <1>2, <1>3, <1>5, <1>7 DEF Asked, CountDown

(* The child of a fork takes itself for forked, or the fork may go         *)
(* unnoticed: its parent's generator has no atfork handler and its id is   *)
(* one that was used before.                                               *)
LEMMA ChildForked ==
  ASSUME GInv, NEW p \in Procs, NEW t \in Threads, NEW q \in Procs, fork(p, t, q),
         ~ (unheard' /\ IdUsedAgain')
  PROVE  Forked(mem'[q], pid'[q])
<1>1. PICK id \in Pids : pid' = [pid EXCEPT ![q] = id]
  BY DEF fork
<1>2. /\ life[q] = "unborn" /\ life'[q] = "alive" /\ pid'[q] = id /\ unheard' = unheard
      /\ \A r \in Procs : r # q => life'[r] = life[r] /\ pid'[r] = pid[r]
  BY <1>1 DEF fork, GInv, IInv, TypeOK
<1>3. /\ mem'[q].rs_pid = mem[p].rs_pid
      /\ mem[p].registered => mem'[q].rs_forked
  BY DEF fork, GInv, IInv, TypeOK, Memory
<1>4. CASE mem[p].rs_pid = 0 \/ mem[p].registered
  BY <1>3, <1>4 DEF Forked
<1>5. CASE mem[p].rs_pid # 0 /\ ~ mem[p].registered
  <2>1. unheard /\ ~ Unused(mem[p].rs_pid)
    BY <1>5 DEF GInv, MemoryInv
  <2>2. PICK r \in Procs : life[r] # "unborn" /\ pid[r] = mem[p].rs_pid
    BY <2>1 DEF Unused
  <2>3. r # q /\ life'[r] # "unborn" /\ pid'[r] = mem[p].rs_pid
    BY <1>2, <2>2
  <2>4. pid'[r] # pid'[q]
    BY <1>2, <2>1, <2>3 DEF IdUsedAgain
  <2> QED BY <1>3, <2>3, <2>4 DEF Forked
<1> QED BY <1>4, <1>5

(* Every step keeps where the bytes come from.                             *)
LEMMA NextBytes == GInv /\ [Next]_vars => MemoryInv' /\ ByteInv'
<1> SUFFICES ASSUME GInv, [Next]_vars PROVE MemoryInv' /\ ByteInv'
  OBVIOUS
<1> USE DEF At
<1>0. /\ TypeOK /\ TypeOK' /\ mem \in [Procs -> Memory] /\ mem' \in [Procs -> Memory]
      /\ seeds \in [Procs -> Nat] /\ count \in [Procs -> Nat]
      /\ given \in [Procs -> SUBSET Bytes] /\ need \in [Procs -> [Threads -> Nat]]
      /\ served \in [Procs -> Nat]
  BY NextType DEF GInv, IInv, TypeOK
<1>1. ASSUME NEW p \in Procs, NEW t \in Threads, Call(p, t) PROVE MemoryInv' /\ ByteInv'
  <2>1. \A q \in Procs, u \in Threads : pc'[q][u] = "_rs_random_buf" => pc[q][u] = "_rs_random_buf"
    BY <1>0, <1>1 DEF Call, Goto, TypeOK
  <2>2. UNCHANGED <<life, pid, mem, seeds, starved, unheard, given, count>>
    BY <1>1 DEF Call
  <2>3. MemoryInv'
    BY <2>1, <2>2 DEF GInv, MemoryInv, Unused
  <2>4. ByteInv'
    BY <2>2 DEF GInv, ByteInv, Sources, AllSeeds, IdUsedAgain
  <2> QED BY <2>3, <2>4
<1>2. ASSUME NEW p \in Procs, NEW t \in Threads, _ARC4_LOCK(p, t)
      PROVE  MemoryInv' /\ ByteInv'
  <2>1. \A q \in Procs, u \in Threads : pc'[q][u] = "_rs_random_buf" => pc[q][u] = "_rs_random_buf"
    BY <1>0, <1>2 DEF _ARC4_LOCK, Goto, TypeOK
  <2>2. \A q \in Procs :
          /\ mem'[q].rs_buf = mem[q].rs_buf /\ mem'[q].key = mem[q].key
          /\ mem'[q].rs_have = mem[q].rs_have /\ mem'[q].allocated = mem[q].allocated
          /\ mem'[q].registered = mem[q].registered
          /\ mem'[q].rs_pid = mem[q].rs_pid /\ mem'[q].rs_forked = mem[q].rs_forked
    BY <1>0, <1>2 DEF _ARC4_LOCK, Memory
  <2>3. \A q \in Procs :
          /\ Filled(mem[q]) => Filled(mem'[q])
          /\ \A out : Behind(mem[q], out) => Behind(mem'[q], out)
          /\ \A S : Owned(mem[q], S) => Owned(mem'[q], S)
          /\ \A id : Forked(mem'[q], id) <=> Forked(mem[q], id)
    BY <2>2, SameFilled DEF Forked
  <2>4. UNCHANGED <<life, pid, seeds, starved, unheard, given, count>>
    BY <1>2 DEF _ARC4_LOCK
  <2>5. /\ \A q \in Procs : Sources(q)' = Sources(q)
        /\ AllSeeds' = AllSeeds /\ \A id : Unused(id)' <=> Unused(id)
    BY <2>4 DEF Sources, AllSeeds, IdUsedAgain, Unused
  <2>6. MemoryInv'
    BY <2>1, <2>2, <2>3, <2>4, <2>5 DEF GInv, MemoryInv
  <2>7. ByteInv'
    <3> SUFFICES ASSUME ~ starved', NEW q \in Procs
                 PROVE  /\ ~ Forked(mem'[q], pid'[q]) => Owned(mem'[q], Sources(q)')
                        /\ mem'[q].allocated => Owned(mem'[q], AllSeeds')
                        /\ Drawn(given'[q], Sources(q)')
                        /\ Behind(mem'[q], given'[q])
                        /\ Counts(given'[q], count'[q])
      BY DEF ByteInv
    <3> QED BY <2>2, <2>3, <2>4, <2>5 DEF GInv, ByteInv
  <2> QED BY <2>6, <2>7
<1>3. ASSUME NEW p \in Procs, NEW t \in Threads, arc4random_stir(p, t)
      PROVE  MemoryInv' /\ ByteInv'
  <2>1. PICK s \in {Zeros, <<p, seeds[p] + 1>>}, r \in BOOLEAN :
          /\ Entropy(p, s) /\ _ARC4_ATFORK(p, r)
          /\ _ARC4_UNLOCK(p, t, _rs_stir(mem[p], s, r))
    BY <1>3 DEF arc4random_stir
  <2> DEFINE m == _rs_stir(mem[p], s, r)
  <2>2. s \in Seeds /\ mem[p] \in Memory
    BY <1>0, <2>1, ZeroType DEF Seeds
  <2>3. m \in Memory /\ Filled(m) /\ m.allocated /\ m.rs_pid = mem[p].rs_pid
    BY <2>2, StirType, StirFills
  <2>4. /\ life[p] = "alive" /\ pc[p][t] \in Inside /\ UNCHANGED <<life, pid>>
        /\ given' = given /\ count' = count
    BY <1>3 DEF arc4random_stir, Inside
  <2>5. /\ Draws(p) /\ Heard(m)
        /\ ~ starved' => /\ ~ starved
                         /\ Owned(m, Sources(p)') /\ Owned(m, AllSeeds')
                         /\ Drawn(given[p], Sources(p)') /\ Behind(m, given[p])
    BY <2>1, <2>2, <2>4, StirDraws
  <2> HIDE DEF m
  <2>6. ~ starved' => ~ starved /\ Held(p, m)
    BY <2>4, <2>5 DEF Held, GInv, ByteInv
  <2>7. _ARC4_UNLOCK(p, t, m)
    BY <2>1 DEF m
  <2> QED BY <2>3, <2>4, <2>5, <2>6, <2>7, ReturnStep
<1>4. ASSUME NEW p \in Procs, NEW t \in Threads, arc4random(p, t)
      PROVE  MemoryInv' /\ ByteInv'
  <2>1. PICK m \in Stirred(p, WORDSZ) :
          /\ _rs_stir_if_needed(p, WORDSZ, m)
          /\ Give(p, WordRekey(m), WORDSZ)
          /\ _ARC4_UNLOCK(p, t, Taken(WordRekey(m), WORDSZ))
    BY <1>4 DEF arc4random
  <2> DEFINE w == WordRekey(m)
             left == Taken(w, WORDSZ)
  <2>2. WORDSZ \in Nat /\ life[p] = "alive" /\ pc[p][t] \in Inside /\ UNCHANGED <<life, pid>>
    BY <1>4, SizeAssumption DEF arc4random, Inside
  <2>3. m \in Memory /\ w \in Memory /\ WORDSZ <= w.rs_have /\ left \in Memory
    BY <1>0, <2>2, StirredType, WordRekeyType, TakenType
  <2>4. /\ Filled(m) /\ m.allocated /\ ~ Forked(m, pid[p]) /\ Draws(p) /\ Heard(m)
        /\ ~ starved' => /\ ~ starved /\ Owned(m, Sources(p)') /\ Owned(m, AllSeeds')
                         /\ Drawn(given[p], Sources(p)') /\ Behind(m, given[p])
    BY <2>1, <2>2, StirredBytes
  <2>5. /\ Filled(w) /\ w.allocated /\ w.registered = m.registered /\ w.rs_pid = m.rs_pid
        /\ Behind(m, given[p]) => Behind(w, given[p])
        /\ \A S : Owned(m, S) => Owned(w, S)
    <3>1. CASE m.rs_have < WORDSZ
      <4>1. w = _rs_rekey(m) /\ given[p] \subseteq Bytes /\ Behind(m, {})
        BY <1>0, <3>1 DEF WordRekey, Behind
      <4> HIDE DEF w
      <4> QED BY <2>3, <2>4, <4>1, RekeyFills
    <3>2. CASE ~ m.rs_have < WORDSZ
      BY <2>4, <3>2 DEF WordRekey
    <3> QED BY <3>1, <3>2
  <2> HIDE DEF w
  <2>6. /\ Filled(left) /\ left.allocated /\ left.registered = w.registered
        /\ left.rs_pid = w.rs_pid /\ \A S : Owned(w, S) => Owned(left, S)
    BY <2>2, <2>3, <2>5, TakenFills
  <2> HIDE DEF left
  <2>7. ~ starved' => ~ starved /\ Held(p, left)
    <3> SUFFICES ASSUME ~ starved' PROVE Held(p, left)
      BY <2>4
    <3>1. Counts(given[p], count[p])
      BY <2>4 DEF GInv, ByteInv
    <3>2. Give(p, w, WORDSZ)
      BY <2>1 DEF w
    <3>3. Owned(w, Sources(p)') /\ Drawn(given[p], Sources(p)') /\ Behind(w, given[p])
      BY <2>4, <2>5
    <3>4. /\ Drawn(given'[p], Sources(p)') /\ Behind(left, given'[p])
          /\ Counts(given'[p], count'[p])
      BY <1>0, <2>2, <2>3, <2>5, <3>1, <3>2, <3>3, GiveBytes DEF left
    <3> QED BY <2>4, <2>5, <2>6, <3>3, <3>4 DEF Held
  <2>8. \A q \in Procs : q # p => given'[q] = given[q] /\ count'[q] = count[q]
    BY <1>0, <2>1 DEF Give
  <2>9. _ARC4_UNLOCK(p, t, left)
    BY <2>1 DEF w, left
  <2>10. Heard(left) /\ left.rs_pid \in {0, mem[p].rs_pid, pid[p]}
    BY <2>4, <2>5, <2>6 DEF Heard, Forked
  <2> QED BY <2>2, <2>3, <2>4, <2>6, <2>7, <2>8, <2>9, <2>10, ReturnStep
<1>5. ASSUME NEW p \in Procs, NEW t \in Threads, arc4random_buf(p, t)
      PROVE  MemoryInv' /\ ByteInv'
  <2>1. PICK m \in Stirred(p, need[p][t]) :
          _rs_stir_if_needed(p, need[p][t], m) /\ mem' = [mem EXCEPT ![p] = m]
    BY <1>5 DEF arc4random_buf
  <2>2. need[p][t] \in Nat /\ life[p] = "alive" /\ pc[p][t] \in Inside /\ UNCHANGED <<life, pid>>
    BY <1>0, <1>5 DEF arc4random_buf, Inside
  <2>3. /\ Filled(m) /\ m.allocated /\ ~ Forked(m, pid[p]) /\ Draws(p) /\ Heard(m)
        /\ ~ starved' => /\ ~ starved /\ Owned(m, Sources(p)') /\ Owned(m, AllSeeds')
                         /\ Drawn(given[p], Sources(p)') /\ Behind(m, given[p])
    BY <2>1, <2>2, StirredBytes
  <2>4. mem'[p] = m /\ (\A q \in Procs : q # p => mem'[q] = mem[q])
        /\ given' = given /\ count' = count
    BY <1>0, <1>5, <2>1 DEF arc4random_buf
  <2>5. ~ starved' => ~ starved /\ Held(p, m)
    BY <2>3, <2>4 DEF Held, GInv, ByteInv
  <2>6. \A q \in Procs : q # p => pc'[q] = pc[q]
    BY <1>5, <2>2, OneInside DEF arc4random_buf
  <2>7. m.rs_pid \in {0, mem[p].rs_pid, pid[p]}
    BY <2>3 DEF Forked
  <2> QED BY <2>2, <2>3, <2>4, <2>5, <2>6, <2>7, ProcessStep
<1>6. ASSUME NEW p \in Procs, NEW t \in Threads, _rs_random_buf(p, t)
      PROVE  MemoryInv' /\ ByteInv'
  <2> DEFINE n == Smaller(need[p][t], mem[p].rs_have)
             m == Taken(mem[p], n)
             refilled == IF m.rs_have = 0 THEN _rs_rekey(m) ELSE m
  <2>1. mem[p] \in Memory /\ need[p][t] \in Nat /\ mem[p].rs_have \in Nat
    BY <1>0, SizeAssumption DEF Memory
  <2>2. n \in Nat /\ n <= mem[p].rs_have
    BY <2>1 DEF Smaller
  <2>3. /\ life[p] = "alive" /\ pc[p][t] \in Inside
        /\ UNCHANGED <<life, pid, seeds, starved, unheard>>
        /\ pc[p][t] = "_rs_random_buf"
    BY <1>6 DEF _rs_random_buf, Inside
  <2>4. /\ Filled(mem[p]) /\ (mem[p].rs_pid # 0 => mem[p].allocated)
        /\ mem[p].allocated /\ ~ mem[p].registered => unheard
        /\ ~ Forked(mem[p], pid[p])
        /\ ~ starved => /\ Owned(mem[p], Sources(p))
                        /\ mem[p].allocated => Owned(mem[p], AllSeeds)
                        /\ Drawn(given[p], Sources(p))
                        /\ Behind(mem[p], given[p]) /\ Counts(given[p], count[p])
    BY <2>3 DEF GInv, MemoryInv, ByteInv
  <2>5. Draws(p) /\ Sources(p)' = Sources(p) /\ AllSeeds' = AllSeeds
    BY <1>0, <2>3 DEF Draws, Sources, AllSeeds, IdUsedAgain
  <2>6. CASE _ARC4_UNLOCK(p, t, mem[p]) /\ UNCHANGED <<given, count>>
    <3>1. Heard(mem[p]) /\ (~ starved' => ~ starved /\ Held(p, mem[p]))
      BY <2>3, <2>4, <2>5, <2>6 DEF Held, Heard
    <3> QED BY <2>1, <2>3, <2>4, <2>5, <2>6, <3>1, ReturnStep
  <2>7. CASE Give(p, mem[p], n) /\ mem' = [mem EXCEPT ![p] = refilled] /\ UNCHANGED pc
    <3> HIDE DEF n
    <3>1. /\ m \in Memory /\ Filled(m) /\ m.allocated = mem[p].allocated
          /\ m.registered = mem[p].registered
          /\ m.rs_pid = mem[p].rs_pid /\ m.rs_forked = mem[p].rs_forked
          /\ \A S : Owned(mem[p], S) => Owned(m, S)
      BY <2>1, <2>2, <2>4, TakenType, TakenFills
    <3>2. ~ starved => /\ Drawn(given'[p], Sources(p)) /\ Behind(m, given'[p])
                       /\ Counts(given'[p], count'[p])
      BY <1>0, <2>1, <2>2, <2>4, <2>7, GiveBytes
    <3> HIDE DEF m
    <3>3. /\ Filled(refilled) /\ refilled.allocated = mem[p].allocated
          /\ refilled.registered = mem[p].registered
          /\ refilled.rs_pid = mem[p].rs_pid /\ refilled.rs_forked = mem[p].rs_forked
          /\ \A S : Owned(mem[p], S) => Owned(refilled, S)
          /\ Behind(m, given'[p]) => Behind(refilled, given'[p])
      <4>1. CASE m.rs_have = 0
        <5>1. refilled = _rs_rekey(m) /\ Behind(m, {}) /\ given'[p] \subseteq Bytes
          BY <1>0, <4>1 DEF Behind, TypeOK
        <5> HIDE DEF refilled
        <5> QED BY <3>1, <5>1, RekeyFills
      <4>2. CASE m.rs_have # 0
        BY <3>1, <4>2
      <4> QED BY <4>1, <4>2
    <3>4. mem'[p] = refilled /\ \A q \in Procs : q # p => mem'[q] = mem[q]
      BY <1>0, <2>7
    <3>5. \A q \in Procs : q # p => given'[q] = given[q] /\ count'[q] = count[q]
      BY <1>0, <2>7 DEF Give
    <3> HIDE DEF refilled
    <3>6. ~ Forked(mem'[p], pid[p]) /\ Heard(mem'[p])
      BY <2>3, <2>4, <3>3, <3>4 DEF Forked, Heard
    <3>7. ~ starved' => ~ starved /\ Held(p, mem'[p])
      BY <2>3, <2>4, <2>5, <3>2, <3>3, <3>4 DEF Held
    <3> QED BY <2>3, <2>4, <2>5, <2>7, <3>3, <3>4, <3>5, <3>6, <3>7, ProcessStep
  <2> QED BY <1>6, <2>6, <2>7 DEF _rs_random_buf
<1>7. ASSUME NEW p \in Procs, NEW t \in Threads, arc4random_addrandom(p, t)
      PROVE  MemoryInv' /\ ByteInv'
  <2>1. PICK m \in Stirred(p, need[p][t]) :
          _rs_stir_if_needed(p, need[p][t], m) /\ _ARC4_UNLOCK(p, t, _rs_rekey(m))
    BY <1>7 DEF arc4random_addrandom
  <2> DEFINE w == _rs_rekey(m)
  <2>2. need[p][t] \in Nat /\ life[p] = "alive" /\ pc[p][t] \in Inside /\ UNCHANGED <<life, pid>>
    BY <1>0, <1>7 DEF arc4random_addrandom, Inside
  <2>3. m \in Memory /\ w \in Memory
    BY <1>0, <2>2, StirredType, RekeyType
  <2>4. /\ m.allocated /\ ~ Forked(m, pid[p]) /\ Draws(p) /\ Heard(m)
        /\ ~ starved' => /\ ~ starved /\ Owned(m, Sources(p)') /\ Owned(m, AllSeeds')
                         /\ Drawn(given[p], Sources(p)') /\ Behind(m, given[p])
    BY <2>1, <2>2, StirredBytes
  <2>5. /\ Filled(w) /\ w.allocated /\ w.registered = m.registered /\ w.rs_pid = m.rs_pid
        /\ Behind(m, given[p]) => Behind(w, given[p])
        /\ \A S : Owned(m, S) => Owned(w, S)
    <3>1. Behind(m, {}) /\ given[p] \subseteq Bytes
      BY <1>0 DEF Behind
    <3> QED BY <2>3, <2>4, <3>1, RekeyFills
  <2>6. given' = given /\ count' = count
    BY <1>7 DEF arc4random_addrandom
  <2>7. _ARC4_UNLOCK(p, t, w)
    BY <2>1
  <2> HIDE DEF w
  <2>8. ~ starved' => ~ starved /\ Held(p, w)
    BY <2>4, <2>5, <2>6 DEF Held, GInv, ByteInv
  <2>9. Heard(w) /\ w.rs_pid \in {0, mem[p].rs_pid, pid[p]}
    BY <2>4, <2>5 DEF Heard, Forked
  <2> QED BY <2>2, <2>3, <2>4, <2>5, <2>6, <2>7, <2>8, <2>9, ReturnStep
<1>8. ASSUME NEW p \in Procs, NEW t \in Threads, NEW q \in Procs, fork(p, t, q)
      PROVE  MemoryInv' /\ ByteInv'
  <2> DEFINE child == [mem[p] EXCEPT !.rs_forked = mem[p].rs_forked \/ mem[p].registered]
  <2>1. PICK id \in Pids : pid' = [pid EXCEPT ![q] = id]
    BY <1>8 DEF fork
  <2>2. /\ life[q] = "unborn" /\ life' = [life EXCEPT ![q] = "alive"]
        /\ mem' = [mem EXCEPT ![q] = child] /\ pc' = [pc EXCEPT ![q][t] = "idle"]
        /\ UNCHANGED <<seeds, starved, unheard, given, count>> /\ mem[p] \in Memory
    BY <1>0, <1>8 DEF fork
  <2>3. /\ child.rs_buf = mem[p].rs_buf /\ child.key = mem[p].key
        /\ child.rs_have = mem[p].rs_have /\ child.allocated = mem[p].allocated
        /\ child.registered = mem[p].registered /\ child.rs_pid = mem[p].rs_pid
    BY <2>2 DEF Memory
  <2> HIDE DEF child
  <2>4. /\ Filled(child)
        /\ child.rs_pid # 0 => child.allocated /\ ~ Unused(child.rs_pid)
        /\ child.allocated /\ ~ child.registered => unheard
        /\ \A S : Owned(mem[p], S) => Owned(child, S)
    BY <2>3, SameFilled DEF GInv, MemoryInv
  <2>5. /\ \A r \in Procs : mem'[r] = IF r = q THEN child ELSE mem[r]
        /\ \A r \in Procs : pid'[r] = IF r = q THEN id ELSE pid[r]
        /\ \A r \in Procs : life'[r] = IF r = q THEN "alive" ELSE life[r]
        /\ \A r \in Procs, u \in Threads :
             pc'[r][u] = "_rs_random_buf" => pc[r][u] = "_rs_random_buf"
    BY <1>0, <2>1, <2>2 DEF TypeOK
  <2>6. id # 0 /\ \A u \in Threads : pc[q][u] = "none"
    BY <2>2, ProcAssumption DEF GInv, IInv, NoneUnborn
  <2>7. \A me : ~ Unused(me) => ~ Unused(me)'
    BY <2>2, <2>5 DEF Unused
  <2>8. MemoryInv'
    <3>1. \A r \in Procs :
            /\ Filled(mem'[r])
            /\ mem'[r].rs_pid # 0 => mem'[r].allocated /\ ~ Unused(mem'[r].rs_pid)
            /\ mem'[r].allocated /\ ~ mem'[r].registered => unheard'
            /\ life'[r] = "unborn" => seeds'[r] = 0 /\ given'[r] = {}
            /\ life'[r] = "alive" => pid'[r] # 0
      BY <2>2, <2>4, <2>5, <2>6 DEF GInv, MemoryInv
    <3>2. \A r \in Procs, u \in Threads :
            pc'[r][u] = "_rs_random_buf" => ~ Forked(mem'[r], pid'[r])
      BY <2>5, <2>6 DEF GInv, MemoryInv
    <3> QED BY <2>7, <3>1, <3>2 DEF MemoryInv
  <2>9. (\A r \in Procs : Sources(r) \subseteq Sources(r)') /\ AllSeeds' = AllSeeds
    <3>1. IdUsedAgain => IdUsedAgain'
      BY <2>2, <2>5 DEF IdUsedAgain
    <3>2. seeds' \in [Procs -> Nat] /\ \A r \in Procs : seeds[r] <= seeds'[r]
      BY <1>0, <2>2
    <3> QED BY <1>0, <2>2, <3>1, <3>2, SourcesGrow DEF AllSeeds
  <2>10. ByteInv'
    <3> SUFFICES ASSUME ~ starved', NEW r \in Procs
                 PROVE  /\ ~ Forked(mem'[r], pid'[r]) => Owned(mem'[r], Sources(r)')
                        /\ mem'[r].allocated => Owned(mem'[r], AllSeeds')
                        /\ Drawn(given'[r], Sources(r)')
                        /\ Behind(mem'[r], given'[r])
                        /\ Counts(given'[r], count'[r])
      BY DEF ByteInv
    <3>1. /\ Drawn(given[r], Sources(r)) /\ Counts(given[r], count[r])
          /\ mem[p].allocated => Owned(mem[p], AllSeeds)
      BY <2>2 DEF GInv, ByteInv
    <3>2. Drawn(given'[r], Sources(r)') /\ Counts(given'[r], count'[r])
      BY <2>2, <2>9, <3>1, MoreSources
    <3>3. CASE r = q
      <4>1. given'[r] = {} /\ mem'[r] = child
        BY <2>2, <2>5, <3>3 DEF GInv, MemoryInv
      <4>2. Behind(mem'[r], given'[r])
        BY <4>1 DEF Behind
      <4>3. mem'[r].allocated => Owned(mem'[r], AllSeeds')
        BY <2>3, <2>4, <2>9, <3>1, <4>1
      <4>4. ~ Forked(mem'[r], pid'[r]) => Owned(mem'[r], Sources(r)')
        <5> SUFFICES ASSUME ~ Forked(mem'[r], pid'[r]) PROVE Owned(mem'[r], Sources(r)')
          OBVIOUS
        <5>1. unheard' /\ IdUsedAgain'
          BY <1>8, <3>3, ChildForked
        <5>2. Sources(r)' = AllSeeds'
          BY <5>1 DEF Sources
        <5>3. mem'[r].rs_pid # 0
          BY DEF Forked
        <5> QED BY <2>4, <4>1, <4>3, <5>2, <5>3
      <4> QED BY <3>2, <4>2, <4>3, <4>4
    <3>4. CASE r # q
      BY <2>2, <2>5, <2>9, <3>2, <3>4, MoreSources DEF GInv, ByteInv
    <3> QED BY <3>3, <3>4
  <2> QED BY <2>8, <2>10
<1>9. ASSUME NEW p \in Procs, exit(p) PROVE MemoryInv' /\ ByteInv'
  <2>1. /\ life' = [life EXCEPT ![p] = "dead"] /\ mem' = [mem EXCEPT ![p] = InitMem]
        /\ pc' = [pc EXCEPT ![p] = [t \in Threads |-> "none"]]
        /\ UNCHANGED <<pid, seeds, starved, unheard, given, count>> /\ life[p] = "alive"
    BY <1>9 DEF exit
  <2>2. InitMem.rs_pid = 0 /\ Filled(InitMem) /\ InitMem.key = <<Zeros, 0>>
        /\ ~ InitMem.allocated /\ \A me : Forked(InitMem, me)
    BY InitFilled DEF InitMem, Forked
  <2>3. /\ \A r \in Procs : mem'[r] = IF r = p THEN InitMem ELSE mem[r]
        /\ \A r \in Procs : life'[r] = IF r = p THEN "dead" ELSE life[r]
        /\ \A r \in Procs, u \in Threads :
             pc'[r][u] = IF r = p THEN "none" ELSE pc[r][u]
    BY <1>0, <2>1 DEF TypeOK
  <2>4. /\ \A r \in Procs : life'[r] = "unborn" <=> life[r] = "unborn"
        /\ \A r \in Procs : life'[r] = "alive" => life[r] = "alive"
    BY <2>1, <2>3
  <2>5. /\ \A r \in Procs : Sources(r)' = Sources(r)
        /\ AllSeeds' = AllSeeds /\ \A id : Unused(id)' <=> Unused(id)
    BY <2>1, <2>4 DEF Sources, AllSeeds, IdUsedAgain, Unused
  <2>6. MemoryInv'
    BY <2>1, <2>2, <2>3, <2>4, <2>5 DEF GInv, MemoryInv
  <2>7. ByteInv'
    <3> SUFFICES ASSUME ~ starved', NEW r \in Procs
                 PROVE  /\ ~ Forked(mem'[r], pid'[r]) => Owned(mem'[r], Sources(r)')
                        /\ mem'[r].allocated => Owned(mem'[r], AllSeeds')
                        /\ Drawn(given'[r], Sources(r)')
                        /\ Behind(mem'[r], given'[r])
                        /\ Counts(given'[r], count'[r])
      BY DEF ByteInv
    <3>1. Drawn(given[r], Sources(r)) /\ Counts(given[r], count[r]) /\ Behind(mem[r], given[r])
      BY <2>1 DEF GInv, ByteInv
    <3>2. Behind(InitMem, given[r])
      <4>1. Zeros \notin Sources(r)
        BY <1>0, FreshSeed
      <4> QED BY <2>2, <3>1, <4>1 DEF Behind, Drawn
    <3> QED BY <2>1, <2>2, <2>3, <2>5, <3>1, <3>2 DEF GInv, ByteInv
  <2> QED BY <2>6, <2>7
<1>10. CASE UNCHANGED vars
  <2>1. /\ \A r \in Procs : Sources(r)' = Sources(r)
        /\ AllSeeds' = AllSeeds /\ \A id : Unused(id)' <=> Unused(id)
    BY <1>10 DEF Sources, AllSeeds, IdUsedAgain, Unused, vars
  <2> QED BY <1>10, <2>1 DEF GInv, MemoryInv, ByteInv, vars
<1> QED BY <1>1, <1>2, <1>3, <1>4, <1>5, <1>6, <1>7, <1>8, <1>9, <1>10
        DEF Next, Step

(* A step of one process that keeps its count down.                        *)
LEMMA CountStep ==
  ASSUME GInv, NEW p \in Procs,
         \A q \in Procs : q # p => mem'[q] = mem[q] /\ served'[q] = served[q],
         \/ served'[p] + mem'[p].rs_count <= RESEED
         \/ mem'[p].rs_count = 0 /\ served'[p] \in Requests
  PROVE  CountDown'
BY DEF GInv, CountDown

(* The same for a call that returns with m in its memory.                  *)
LEMMA CountReturn ==
  ASSUME GInv, NEW p \in Procs, NEW t \in Threads, NEW m \in Memory, _ARC4_UNLOCK(p, t, m),
         \A q \in Procs : q # p => served'[q] = served[q],
         \/ served'[p] + m.rs_count <= RESEED
         \/ m.rs_count = 0 /\ served'[p] \in Requests
  PROVE  CountDown'
<1> DEFINE w == [m EXCEPT !.mutex = NoThread]
<1>1. w.rs_count = m.rs_count
  BY UnlockKeeps
<1>2. mem'[p] = w /\ \A q \in Procs : q # p => mem'[q] = mem[q]
  BY DEF _ARC4_UNLOCK, GInv, IInv, TypeOK
<1> HIDE DEF w
<1> QED BY <1>1, <1>2, CountStep

(* Every step keeps the count down to the next reseed.                     *)
LEMMA NextCountDown == GInv /\ [Next]_vars => CountDown'
<1> SUFFICES ASSUME GInv, [Next]_vars PROVE CountDown'
  OBVIOUS
<1> USE DEF At
<1>0. /\ TypeOK /\ mem \in [Procs -> Memory] /\ seeds \in [Procs -> Nat]
      /\ need \in [Procs -> [Threads -> Nat]] /\ served \in [Procs -> Nat]
      /\ pid \in [Procs -> Pids \cup {0}]
  BY DEF GInv, IInv, TypeOK
<1>1. ASSUME UNCHANGED <<mem, served>> PROVE CountDown'
  BY <1>1 DEF GInv, CountDown
<1>2. ASSUME NEW p \in Procs, NEW t \in Threads, _ARC4_LOCK(p, t) PROVE CountDown'
  <2>1. \A q \in Procs : /\ mem'[q].rs_count = mem[q].rs_count
                         /\ mem'[q].allocated = mem[q].allocated
    BY <1>0, <1>2 DEF _ARC4_LOCK, Memory
  <2> QED BY <1>2, <2>1 DEF _ARC4_LOCK, GInv, CountDown
<1>3. ASSUME NEW p \in Procs, NEW t \in Threads, arc4random_stir(p, t) PROVE CountDown'
  <2>1. PICK s \in {Zeros, <<p, seeds[p] + 1>>}, r \in BOOLEAN :
          _ARC4_UNLOCK(p, t, _rs_stir(mem[p], s, r))
    BY <1>3 DEF arc4random_stir
  <2>2. s \in Seeds /\ mem[p] \in Memory
    BY <1>0, <2>1, ZeroType DEF Seeds
  <2>3. _rs_stir(mem[p], s, r) \in Memory /\ _rs_stir(mem[p], s, r).rs_count = RESEED
    BY <2>2, StirType, StirFills
  <2>4. served'[p] = 0 /\ \A q \in Procs : q # p => served'[q] = served[q]
    BY <1>0, <1>3 DEF arc4random_stir
  <2>5. 0 + RESEED <= RESEED
    BY SizeAssumption
  <2> QED BY <2>1, <2>3, <2>4, <2>5, CountReturn
<1>4. ASSUME NEW p \in Procs, NEW t \in Threads, arc4random(p, t) PROVE CountDown'
  <2>1. PICK m \in Stirred(p, WORDSZ) :
          /\ _rs_stir_if_needed(p, WORDSZ, m)
          /\ _ARC4_UNLOCK(p, t, Taken(WordRekey(m), WORDSZ))
    BY <1>4 DEF arc4random
  <2> DEFINE w == WordRekey(m)
             left == Taken(w, WORDSZ)
  <2>2. WORDSZ \in Nat /\ life[p] = "alive" /\ UNCHANGED <<life, pid>>
    BY <1>4, SizeAssumption DEF arc4random
  <2>3. /\ Filled(m) /\ \A q \in Procs : q # p => served'[q] = served[q]
        /\ \/ served'[p] + m.rs_count <= RESEED
           \/ m.rs_count = 0 /\ served'[p] = WORDSZ
    BY <2>1, <2>2, StirredBytes
  <2>4. m \in Memory /\ w \in Memory /\ WORDSZ <= w.rs_have /\ left \in Memory
    BY <1>0, <2>2, StirredType, WordRekeyType, TakenType
  <2>5. Filled(w) /\ w.rs_count = m.rs_count
    <3>1. CASE m.rs_have < WORDSZ
      <4>1. w = _rs_rekey(m) /\ Behind(m, {}) /\ {} \subseteq Bytes
        BY <3>1 DEF WordRekey, Behind
      <4> HIDE DEF w
      <4> QED BY <2>4, <4>1, RekeyFills
    <3>2. CASE ~ m.rs_have < WORDSZ
      BY <2>3, <3>2 DEF WordRekey
    <3> QED BY <3>1, <3>2
  <2> HIDE DEF w
  <2>6. left.rs_count = m.rs_count
    BY <2>2, <2>4, <2>5, TakenFills
  <2>7. served'[p] + left.rs_count <= RESEED
    BY <2>3, <2>6, SizeAssumption
  <2>8. _ARC4_UNLOCK(p, t, left)
    BY <2>1 DEF w
  <2> HIDE DEF left
  <2> QED BY <2>3, <2>4, <2>7, <2>8, CountReturn
<1>5. ASSUME NEW p \in Procs, NEW t \in Threads, arc4random_buf(p, t) PROVE CountDown'
  <2>1. PICK m \in Stirred(p, need[p][t]) :
          _rs_stir_if_needed(p, need[p][t], m) /\ mem' = [mem EXCEPT ![p] = m]
    BY <1>5 DEF arc4random_buf
  <2>2. need[p][t] \in Nat /\ life[p] = "alive" /\ need[p][t] \in Requests
        /\ UNCHANGED <<life, pid>>
    BY <1>0, <1>5 DEF arc4random_buf, GInv, Asked
  <2>3. /\ \A q \in Procs : q # p => served'[q] = served[q]
        /\ \/ served'[p] + m.rs_count <= RESEED
           \/ m.rs_count = 0 /\ served'[p] = need[p][t]
    BY <2>1, <2>2, StirredBytes
  <2>4. mem'[p] = m /\ \A q \in Procs : q # p => mem'[q] = mem[q]
    BY <1>0, <2>1
  <2> QED BY <2>2, <2>3, <2>4, CountStep
<1>6. ASSUME NEW p \in Procs, NEW t \in Threads, _rs_random_buf(p, t) PROVE CountDown'
  <2> DEFINE n == Smaller(need[p][t], mem[p].rs_have)
             m == Taken(mem[p], n)
             refilled == IF m.rs_have = 0 THEN _rs_rekey(m) ELSE m
  <2>1. /\ mem[p] \in Memory /\ need[p][t] \in Nat /\ mem[p].rs_have \in Nat
        /\ Filled(mem[p]) /\ served' = served /\ mem[p].allocated
    <3>1. mem[p].rs_pid # 0
      BY <1>6 DEF GInv, MemoryInv, Forked, _rs_random_buf
    <3> QED BY <1>0, <1>6, <3>1, SizeAssumption DEF Memory, GInv, MemoryInv, _rs_random_buf
  <2>2. n \in Nat /\ n <= mem[p].rs_have
    BY <2>1 DEF Smaller
  <2>3. served[p] + mem[p].rs_count <= RESEED \/ (mem[p].rs_count = 0 /\ served[p] \in Requests)
    BY <2>1 DEF GInv, CountDown
  <2>4. CASE _ARC4_UNLOCK(p, t, mem[p])
    BY <2>1, <2>3, <2>4, CountReturn
  <2>5. CASE mem' = [mem EXCEPT ![p] = refilled]
    <3> HIDE DEF n
    <3>1. m \in Memory /\ m.rs_count = mem[p].rs_count
      BY <2>1, <2>2, TakenType, TakenFills
    <3> HIDE DEF m
    <3>2. refilled.rs_count = mem[p].rs_count
      <4>1. Behind(m, {}) /\ {} \subseteq Bytes
        BY DEF Behind
      <4> QED BY <3>1, <4>1, RekeyFills
    <3> HIDE DEF refilled
    <3>3. mem'[p] = refilled /\ \A q \in Procs : q # p => mem'[q] = mem[q]
      BY <1>0, <2>5
    <3> QED BY <2>1, <2>3, <3>2, <3>3, CountStep
  <2> QED BY <1>6, <2>4, <2>5 DEF _rs_random_buf
<1>7. ASSUME NEW p \in Procs, NEW t \in Threads, arc4random_addrandom(p, t) PROVE CountDown'
  <2>1. PICK m \in Stirred(p, need[p][t]) :
          _rs_stir_if_needed(p, need[p][t], m) /\ _ARC4_UNLOCK(p, t, _rs_rekey(m))
    BY <1>7 DEF arc4random_addrandom
  <2>2. need[p][t] \in Nat /\ life[p] = "alive" /\ need[p][t] \in Requests
        /\ UNCHANGED <<life, pid>>
    BY <1>0, <1>7 DEF arc4random_addrandom, GInv, Asked
  <2>3. /\ \A q \in Procs : q # p => served'[q] = served[q]
        /\ \/ served'[p] + m.rs_count <= RESEED
           \/ m.rs_count = 0 /\ served'[p] = need[p][t]
    BY <2>1, <2>2, StirredBytes
  <2>4. m \in Memory /\ _rs_rekey(m) \in Memory
    BY <1>0, <2>2, StirredType, RekeyType
  <2>5. _rs_rekey(m).rs_count = m.rs_count
    <3>1. Behind(m, {}) /\ {} \subseteq Bytes
      BY DEF Behind
    <3> QED BY <2>4, <3>1, RekeyFills
  <2> QED BY <2>1, <2>2, <2>3, <2>4, <2>5, CountReturn
<1>8. ASSUME NEW p \in Procs, NEW t \in Threads, NEW q \in Procs, fork(p, t, q)
      PROVE  CountDown'
  <2> DEFINE child == [mem[p] EXCEPT !.rs_forked = mem[p].rs_forked \/ mem[p].registered]
  <2>1. mem' = [mem EXCEPT ![q] = child] /\ served' = [served EXCEPT ![q] = served[p]]
    BY <1>8 DEF fork
  <2>2. child.rs_count = mem[p].rs_count /\ child.allocated = mem[p].allocated
    BY <1>0 DEF Memory
  <2> HIDE DEF child
  <2> QED BY <1>0, <2>1, <2>2 DEF GInv, CountDown
<1>9. ASSUME NEW p \in Procs, exit(p) PROVE CountDown'
  <2>1. \A q \in Procs : mem'[q] = IF q = p THEN InitMem ELSE mem[q]
    BY <1>0, <1>9 DEF exit
  <2>2. \A q \in Procs : q # p => served'[q] = served[q]
    BY <1>0, <1>9 DEF exit
  <2>3. ~ InitMem.allocated
    BY DEF InitMem
  <2> QED BY <2>1, <2>2, <2>3 DEF GInv, CountDown
<1> QED BY <1>1, <1>2, <1>3, <1>4, <1>5, <1>6, <1>7, <1>8, <1>9
        DEF Next, Step, Call, vars

(* Only Call makes a request, and what has been asked for is not changed   *)
(* before the mutex is held.                                               *)
LEMMA NextAsked == GInv /\ [Next]_vars => Asked'
<1> SUFFICES ASSUME GInv, [Next]_vars PROVE Asked'
  OBVIOUS
<1> USE DEF At
<1>0. /\ pc \in [Procs -> [Threads -> Labels]] /\ need \in [Procs -> [Threads -> Nat]]
      /\ op \in [Procs -> [Threads -> AllCalls \cup {"none"}]]
  BY DEF GInv, IInv, TypeOK
<1>1. ASSUME NEW p \in Procs, NEW t \in Threads, Call(p, t) PROVE Asked'
  <2>1. PICK f \in Calls :
          /\ op' = [op EXCEPT ![p][t] = f]
          /\ \E n \in CASE f = "arc4random"      -> {WORDSZ}
                        [] f = "arc4random_stir" -> {0}
                        [] OTHER                 -> Requests :
               need' = [need EXCEPT ![p][t] = n]
    BY <1>1 DEF Call
  <2>2. PICK n : /\ need' = [need EXCEPT ![p][t] = n]
                 /\ f \in {"arc4random_buf", "arc4random_addrandom"} => n \in Requests
    BY <2>1
  <2>3. \A q \in Procs, u \in Threads :
          /\ pc'[q][u] = IF q = p /\ u = t THEN "lock" ELSE pc[q][u]
          /\ op'[q][u] = IF q = p /\ u = t THEN f ELSE op[q][u]
          /\ need'[q][u] = IF q = p /\ u = t THEN n ELSE need[q][u]
    BY <1>0, <1>1, <2>1, <2>2 DEF Call, Goto
  <2> QED BY <2>2, <2>3 DEF GInv, Asked
<1>2. ASSUME NEW p \in Procs, NEW t \in Threads, NEW l \in Labels, Goto(p, t, l),
             UNCHANGED <<op, need>>, l = "locked" => pc[p][t] = "lock", l # "lock"
      PROVE  Asked'
  <2>1. \A q \in Procs, u \in Threads : pc'[q][u] = IF q = p /\ u = t THEN l ELSE pc[q][u]
    BY <1>0, <1>2 DEF Goto
  <2> QED BY <1>2, <2>1 DEF GInv, Asked
<1>3. ASSUME NEW p \in Procs, NEW t \in Threads, NEW m, _ARC4_UNLOCK(p, t, m) PROVE Asked'
  <2>1. \A q \in Procs, u \in Threads :
          /\ pc'[q][u] = IF q = p /\ u = t THEN "idle" ELSE pc[q][u]
          /\ q # p \/ u # t => op'[q][u] = op[q][u] /\ need'[q][u] = need[q][u]
    BY <1>0, <1>3 DEF _ARC4_UNLOCK, Goto
  <2> QED BY <2>1 DEF GInv, Asked
<1>4. ASSUME NEW p \in Procs, NEW t \in Threads, _ARC4_LOCK(p, t) PROVE Asked'
  BY <1>2, <1>4 DEF _ARC4_LOCK, Labels
<1>5. ASSUME NEW p \in Procs, NEW t \in Threads, arc4random_buf(p, t) PROVE Asked'
  BY <1>2, <1>5 DEF arc4random_buf, Labels
<1>6. ASSUME NEW p \in Procs, NEW t \in Threads, _rs_random_buf(p, t) PROVE Asked'
  <2>1. CASE \E n : need' = [need EXCEPT ![p][t] = n] /\ UNCHANGED <<pc, op>>
    <3>1. \A q \in Procs, u \in Threads : q # p \/ u # t => need'[q][u] = need[q][u]
      BY <1>0, <2>1
    <3> QED BY <1>6, <2>1, <3>1 DEF GInv, Asked, _rs_random_buf
  <2> QED BY <1>3, <1>6, <2>1 DEF _rs_random_buf
<1>7. ASSUME NEW p \in Procs, NEW t \in Threads, NEW q \in Procs, fork(p, t, q) PROVE Asked'
  BY <1>0, <1>7 DEF fork, GInv, Asked
<1>8. ASSUME NEW p \in Procs, exit(p) PROVE Asked'
  <2>1. \A q \in Procs, u \in Threads :
          /\ pc'[q][u] = IF q = p THEN "none" ELSE pc[q][u]
          /\ q # p => op'[q][u] = op[q][u] /\ need'[q][u] = need[q][u]
    BY <1>0, <1>8 DEF exit
  <2> QED BY <2>1 DEF GInv, Asked
<1>9. ASSUME NEW p \in Procs, NEW t \in Threads,
             arc4random_stir(p, t) \/ arc4random(p, t) \/ arc4random_addrandom(p, t)
      PROVE  Asked'
  <2>1. \E m : _ARC4_UNLOCK(p, t, m)
    BY <1>9 DEF arc4random_stir, arc4random, arc4random_addrandom
  <2> QED BY <1>3, <2>1
<1>10. CASE UNCHANGED vars
  BY <1>10 DEF GInv, Asked, vars
<1> QED BY <1>1, <1>4, <1>5, <1>6, <1>7, <1>8, <1>9, <1>10 DEF Next, Step

-----------------------------------------------------------------------------
(* The invariant is inductive.                                             *)
LEMMA InitG == Init => GInv
BY InitType, InitMutex, InitBytes DEF GInv, IInv

LEMMA NextG == GInv /\ [Next]_vars => GInv'
BY NextType, NextMutex, NextBytes, NextAsked, NextCountDown DEF GInv, IInv

LEMMA InvariantG == Spec => []GInv
BY InitG, NextG, PTL DEF Spec

(* arc4random and arc4random_buf never hand out a byte of keystream twice, *)
(* to two threads, to a process and the one it was forked from, or when a  *)
(* dead process's id is used again, as long as getentropy works: what      *)
(* _rs_forkdetect has to see to, by rs_pid and by the atfork handler.  If  *)
(* pthread_atfork failed, which the code does not look at, rs_pid is       *)
(* enough until an id is used again; the theorem says nothing after that.  *)
THEOREM NoByteIsGivenTwice == Spec => []NoByteTwice
<1>1. ASSUME GInv PROVE NoByteTwice
  <2> SUFFICES ASSUME ~ starved, ~ (unheard /\ IdUsedAgain) PROVE NoByteTwice
    BY DEF NoByteTwice
  <2>1. \A p \in Procs : Drawn(given[p], SeedsOf(p, seeds[p])) /\ Counts(given[p], count[p])
    BY <1>1 DEF GInv, ByteInv, Sources
  <2>2. \A p \in Procs : Cardinality(given[p]) = count[p] /\ Zero \notin given[p]
    BY <2>1 DEF Drawn, Counts, SeedsOf, Zero, Zeros
  <2>3. \A p, q \in Procs : p # q => given[p] \cap given[q] = {}
    BY <2>1 DEF Drawn, SeedsOf
  <2> QED BY <2>2, <2>3 DEF NoByteTwice
<1> QED BY <1>1, InvariantG, PTL

(* Nothing that has been handed out is left in the generator's memory, in  *)
(* rs_buf or as a key it could be made of again: what _rs_rekey's and      *)
(* _rs_random_buf's memset are for.                                        *)
THEOREM BacktrackingResistance == Spec => []Backtracking
<1>1. ASSUME GInv PROVE Backtracking
  <2> SUFFICES ASSUME ~ starved, NEW p \in Procs
               PROVE  /\ \A i \in Places : mem[p].rs_buf[i] \notin given[p] \ {Zero}
                      /\ \A b \in given[p] : b[1] = mem[p].key[1] => b[2] < mem[p].key[2]
    BY DEF Backtracking
  <2>1. Behind(mem[p], given[p]) /\ Filled(mem[p])
    BY <1>1 DEF GInv, ByteInv, MemoryInv
  <2>2. ASSUME NEW i \in Places, mem[p].rs_buf[i] # Zero PROVE mem[p].rs_buf[i] \notin given[p]
    <3>1. ~ (i < Next_(mem[p])) /\ mem[p].rs_buf[i] = <<mem[p].key[1], mem[p].key[2] - 1, i>>
      BY <2>1, <2>2 DEF Filled
    <3> QED BY <2>1, <3>1 DEF Behind
  <2> QED BY <2>1, <2>2 DEF Behind
<1> QED BY <1>1, InvariantG, PTL

(* Between two seedings a process hands out no more than RESEED bytes,     *)
(* unless a single request is larger: rs_count, which _rs_stir_if_needed   *)
(* lowers and a fork copies, says in time that a reseed is due.            *)
THEOREM ReseedsInTime == Spec => []ReseedInTime
<1>1. ASSUME GInv PROVE ReseedInTime
  <2> SUFFICES ASSUME NEW p \in Procs, mem[p].allocated
               PROVE  \/ served[p] <= RESEED
                      \/ mem[p].rs_count = 0 /\ \E n \in Requests : served[p] = n
    BY DEF ReseedInTime
  <2>1. mem[p].rs_count \in Nat /\ served[p] \in Nat
    BY <1>1, SizeAssumption DEF GInv, IInv, TypeOK, Memory
  <2>2. served[p] + mem[p].rs_count <= RESEED \/ (mem[p].rs_count = 0 /\ served[p] \in Requests)
    BY <1>1 DEF GInv, CountDown
  <2> QED BY <2>1, <2>2, SizeAssumption
<1> QED BY <1>1, InvariantG, PTL

=============================================================================
