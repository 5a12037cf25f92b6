-------------------------- MODULE MCEstreamRegistry --------------------------
(***************************************************************************)
(* EstreamRegistry for TLC.  Addresses and threads are interchangeable.    *)
(***************************************************************************)
EXTENDS EstreamRegistry, TLC

(* Numbers of standard streams: one with the remainder 2, and one with -2, *)
(* of which stdstream_fd keeps what it keeps of 2.                         *)
MCStdFds == {5, -5}

(* So are the cookies: each is used once, in this order.                   *)
InOrder == \A o, p \in Objects : o < p /\ object[p].made = 1 => object[o].made = 1

(* Bound: of streams that were made for negative numbers there are two at  *)
(* a time when they are alone, and one otherwise.                          *)
FewNegative ==
  LET live == {s \in Streams : stream[s].live}
  IN  Cardinality({s \in live : stream[s].std < 0}) <= IF Cardinality(live) = 2 THEN 2 ELSE 1

Sym == Permutations(Streams) \cup Permutations(Nodes) \cup Permutations(Threads)
=============================================================================
