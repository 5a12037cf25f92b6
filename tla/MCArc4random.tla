---------------------------- MODULE MCArc4random ----------------------------
(***************************************************************************)
(* An instance of Arc4random for TLC: two threads, three processes, two    *)
(* process ids, a buffer of five bytes two of which make the next key.     *)
(***************************************************************************)
EXTENDS Arc4random, TLC

Sym == Permutations(Threads) \cup Permutations(Procs \ {FirstProc})

(* Bound: getentropy or pthread_atfork fails, in one behaviour.  What the  *)
(* failure of either leaves to be said does not depend on the other.       *)
OneFailure == ~ (starved /\ unheard)
=============================================================================
