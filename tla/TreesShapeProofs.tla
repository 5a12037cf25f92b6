--------------------------- MODULE TreesShapeProofs ---------------------------
(***************************************************************************)
(* Proofs about the links of the red-black tree of Trees, for any nodes    *)
(* and any keys.  Shape says that t is a search tree of the nodes in M in  *)
(* which every node knows its parent; its witness U gives the nodes under  *)
(* each node, so that what a function does to the tree is seen in the few  *)
(* U[n] it changes.  Shape is kept by a rotation, by a leaf hung where     *)
(* Descend ends, and by the two ways RB_REMOVE takes a node out.           *)
(***************************************************************************)
EXTENDS Trees, FiniteSetTheorems, WellFoundedInduction, TLAPS

(* A set of numbers that is not empty has a smallest one.                  *)
LEMMA SmallestNumber ==
  ASSUME NEW S \in SUBSET Nat, S # {}
  PROVE  \E x \in S : \A y \in S : x <= y
<1> DEFINE R == OpToRel(<, Nat)
<1>1. \A x, y \in Nat : x < y => <<x, y>> \in R
  BY DEF OpToRel
<1>2. IsWellFoundedOn(R, Nat)
  BY NatLessThanWellFounded
<1> HIDE DEF R
<1>3. PICK x \in S : \A y \in S : ~ (<<y, x>> \in R)
  BY <1>2, WFMin
<1>4. ASSUME NEW y \in S
      PROVE  x <= y
  <2>1. x \in Nat /\ y \in Nat
    OBVIOUS
  <2>2. ~ (<<y, x>> \in R)
    BY <1>3
  <2>3. ~ (y < x)
    BY <1>1, <2>1, <2>2
  <2> QED
    BY <2>1, <2>3
<1> QED
  BY <1>4

(* What holds of 0 and of the next number holds up to any bound.           *)
LEMMA Counting ==
  ASSUME NEW N \in Nat, NEW S, 0 \in S, \A i \in 0..N : i < N /\ i \in S => i + 1 \in S
  PROVE  \A i \in 0..N : i \in S
<1> DEFINE Bad == {i \in 0..N : i \notin S}
<1> SUFFICES ASSUME Bad # {} PROVE FALSE
  OBVIOUS
<1>1. PICK x \in Bad : \A y \in Bad : x <= y
  <2>1. Bad \in SUBSET Nat
    OBVIOUS
  <2> HIDE DEF Bad
  <2> QED BY <2>1, SmallestNumber
<1>2. x \in 0..N /\ x \notin S /\ x # 0
  OBVIOUS
<1>3. x - 1 \in 0..N /\ x - 1 < N /\ (x - 1) + 1 = x /\ ~ (x <= x - 1)
  BY <1>2
<1>4. x - 1 \in S
  BY <1>1, <1>3
<1> QED BY <1>2, <1>3, <1>4

(* The values of a function that is applied again and again.               *)
IteratesOf(x, N, X, F, start) ==
  x \in [0..N -> X] /\ x[0] = start /\ \A i \in 1..N : x[i] = F[x[i - 1]]

(* A function can be applied any number of times.                          *)
LEMMA Iterates ==
  ASSUME NEW N \in Nat, NEW X, NEW F \in [X -> X], NEW start \in X
  PROVE  \E x : IteratesOf(x, N, X, F, start)
<1> DEFINE Is(x, n) == IteratesOf(x, n, X, F, start)
           S == {n \in 0..N : \E x : Is(x, n)}
<1>1. 0 \in S
  <2>1. Is([i \in 0..0 |-> start], 0)
    BY DEF IteratesOf
  <2>2. 0 \in 0..N
    OBVIOUS
  <2> QED BY <2>1, <2>2
<1>2. ASSUME NEW n \in 0..N, n < N, n \in S PROVE n + 1 \in S
  <2>1. PICK x : Is(x, n)
    BY <1>2
  <2> DEFINE y == [i \in 0..(n + 1) |-> IF i = n + 1 THEN F[x[n]] ELSE x[i]]
  <2>2. x[n] \in X /\ F[x[n]] \in X
    BY <2>1 DEF IteratesOf
  <2>3. y \in [0..(n + 1) -> X]
    BY <2>1, <2>2 DEF IteratesOf
  <2>4. y[0] = start
    BY <2>1 DEF IteratesOf
  <2>5. \A i \in 1..(n + 1) : y[i] = F[y[i - 1]]
    BY <2>1 DEF IteratesOf
  <2>6. Is(y, n + 1)
    BY <2>3, <2>4, <2>5 DEF IteratesOf
  <2>7. n + 1 \in 0..N
    BY <1>2
  <2> QED BY <2>6, <2>7
<1> HIDE DEF S
<1>3. N \in S
  <2>1. \A i \in 0..N : i \in S
    BY <1>1, <1>2, Counting
  <2> QED BY <2>1
<1>4. PICK x : Is(x, N)
  BY <1>3 DEF S
<1> QED BY <1>4

(* The number of rounds of a loop.                                         *)
Rounds == Cardinality(Nodes) + 1

LEMMA RoundsType == Rounds \in Nat /\ Cardinality(Nodes) \in Nat
BY NodesAssumption, FS_CardinalityType DEF Rounds

-----------------------------------------------------------------------------
Links == Nodes \cup {NULL}
Linked(t) == \A s \in Sides, n \in Nodes : t.kid[s][n] \in Links

(* The loop of Furthest, round by round.                                   *)
LEMMA FurthestRounds ==
  ASSUME NEW t, Linked(t), NEW s \in Sides, NEW n \in Links
  PROVE  \E x \in [0..Rounds -> Links] :
           /\ x[0] = n /\ Furthest(t, n, s) = x[Rounds]
           /\ \A i \in 0..Rounds : i < Rounds =>
                x[i + 1] = IF x[i] = NULL \/ t.kid[s][x[i]] = NULL THEN x[i] ELSE t.kid[s][x[i]]
<1> DEFINE step(m) == IF m = NULL \/ t.kid[s][m] = NULL THEN m ELSE t.kid[s][m]
           F == [m \in Links |-> step(m)]
           Eq(x) == x = [i \in 0..Rounds |-> IF i = 0 THEN n ELSE step(x[i - 1])]
           z == CHOOSE x : Eq(x)
<1>1. Furthest(t, n, s) = z[Rounds]
  BY DEF Furthest, Loop, Rounds
<1>2. F \in [Links -> Links]
  BY DEF Linked, Links
<1>3. Rounds \in Nat
  BY RoundsType
<1>4. PICK x : IteratesOf(x, Rounds, Links, F, n)
  <2> HIDE DEF F
  <2> QED BY <1>2, <1>3, Iterates
<1>5. Eq(x)
  <2>1. \A i \in 1..Rounds : F[x[i - 1]] = step(x[i - 1])
    <3>1. \A i \in 1..Rounds : x[i - 1] \in Links
      BY <1>3, <1>4 DEF IteratesOf
    <3> HIDE DEF step
    <3> QED BY <3>1
  <2> HIDE DEF F, step
  <2> QED BY <1>4, <2>1 DEF IteratesOf
<1>6. Eq(z)
  <2> HIDE DEF Eq
  <2> QED BY <1>5
<1>7. z = [i \in 0..Rounds |-> IF i = 0 THEN n ELSE step(z[i - 1])]
  BY <1>6
<1> HIDE DEF z
<1> DEFINE S == {i \in 0..Rounds : z[i] \in Links}
<1>8. \A i \in 0..Rounds : i < Rounds => z[i + 1] = step(z[i])
  <2> TAKE i \in 0..Rounds
  <2> HAVE i < Rounds
  <2>1. i + 1 \in 0..Rounds /\ i + 1 # 0 /\ (i + 1) - 1 = i
    BY <1>3
  <2> HIDE DEF step
  <2> QED BY <1>7, <2>1
<1>9. z[0] = n
  <2> HIDE DEF step
  <2>1. 0 \in 0..Rounds
    BY <1>3
  <2> QED BY <1>7, <2>1
<1>10. \A i \in 0..Rounds : i \in S
  <2>1. 0 \in S
    BY <1>3, <1>9
  <2>2. \A i \in 0..Rounds : i < Rounds /\ i \in S => i + 1 \in S
    BY <1>3, <1>8 DEF Linked, Links
  <2> HIDE DEF S
  <2> QED BY <1>3, <2>1, <2>2, Counting
<1>11. z \in [0..Rounds -> Links]
  <2> HIDE DEF step
  <2> QED BY <1>7, <1>10
<1> QED BY <1>1, <1>8, <1>9, <1>11

-----------------------------------------------------------------------------
(* One round of the loop that collects the nodes below some nodes.         *)
Below(t, S) == (S \cup UNION {{t.kid["left"][m], t.kid["right"][m]} : m \in S}) \ {NULL}

LEMMA BelowIs ==
  ASSUME NEW t, Linked(t), NEW S \in SUBSET Nodes
  PROVE  /\ Below(t, S) \in SUBSET Nodes /\ S \subseteq Below(t, S)
         /\ \A m \in S, s \in Sides : t.kid[s][m] # NULL => t.kid[s][m] \in Below(t, S)
         /\ \A k \in Below(t, S) : k \in S \/ \E m \in S, s \in Sides : k = t.kid[s][m]
<1>1. \A k : k \in Below(t, S) <=>
               k # NULL /\ (k \in S \/ \E m \in S : k = t.kid["left"][m] \/ k = t.kid["right"][m])
  BY DEF Below
<1>2. NULL \notin S /\ S \subseteq Nodes
  BY NodesAssumption
<1>3. \A m \in S, s \in Sides : t.kid[s][m] \in Nodes \/ t.kid[s][m] = NULL
  BY <1>2 DEF Linked, Links
<1>4. Sides = {"left", "right"}
  BY DEF Sides
<1> QED BY <1>1, <1>2, <1>3, <1>4

(* The loop of Under, round by round.                                      *)
LEMMA UnderRounds ==
  ASSUME NEW t, Linked(t), NEW n \in Links
  PROVE  \E x \in [0..Rounds -> SUBSET Nodes] :
           /\ x[0] = {n} \ {NULL} /\ Under(t, n) = x[Rounds]
           /\ \A i \in 0..Rounds : i < Rounds => x[i + 1] = Below(t, x[i])
<1> DEFINE F == [S \in SUBSET Nodes |-> Below(t, S)]
           Eq(x) == x = [i \in 0..Rounds |-> IF i = 0 THEN {n} \ {NULL} ELSE Below(t, x[i - 1])]
           z == CHOOSE x : Eq(x)
<1>1. Under(t, n) = z[Rounds]
  BY DEF Under, Loop, Rounds, Below
<1>2. F \in [SUBSET Nodes -> SUBSET Nodes]
  BY BelowIs
<1>3. Rounds \in Nat /\ {n} \ {NULL} \in SUBSET Nodes
  BY RoundsType DEF Links
<1>4. PICK x : IteratesOf(x, Rounds, SUBSET Nodes, F, {n} \ {NULL})
  <2> HIDE DEF F
  <2> QED BY <1>2, <1>3, Iterates
<1>5. Eq(x)
  <2>1. \A i \in 1..Rounds : F[x[i - 1]] = Below(t, x[i - 1])
    <3>1. \A i \in 1..Rounds : x[i - 1] \in SUBSET Nodes
      BY <1>3, <1>4 DEF IteratesOf
    <3> QED BY <3>1
  <2> HIDE DEF F
  <2> QED BY <1>4, <2>1 DEF IteratesOf
<1>6. Eq(z)
  <2> HIDE DEF Eq
  <2> QED BY <1>5
<1>7. z = [i \in 0..Rounds |-> IF i = 0 THEN {n} \ {NULL} ELSE Below(t, z[i - 1])]
  BY <1>6
<1> HIDE DEF z
<1> DEFINE S == {i \in 0..Rounds : z[i] \in SUBSET Nodes}
<1>8. \A i \in 0..Rounds : i < Rounds => z[i + 1] = Below(t, z[i])
  <2> TAKE i \in 0..Rounds
  <2> HAVE i < Rounds
  <2>1. i + 1 \in 0..Rounds /\ i + 1 # 0 /\ (i + 1) - 1 = i
    BY <1>3
  <2> QED BY <1>7, <2>1
<1>9. z[0] = {n} \ {NULL}
  <2>1. 0 \in 0..Rounds
    BY <1>3
  <2> QED BY <1>7, <2>1
<1>10. \A i \in 0..Rounds : i \in S
  <2>1. 0 \in S
    BY <1>3, <1>9
  <2>2. \A i \in 0..Rounds : i < Rounds /\ i \in S => i + 1 \in S
    BY <1>3, <1>8, BelowIs
  <2> HIDE DEF S
  <2> QED BY <1>3, <2>1, <2>2, Counting
<1>11. z \in [0..Rounds -> SUBSET Nodes]
  BY <1>7, <1>10
<1> QED BY <1>1, <1>8, <1>9, <1>11

(* A set of nodes with the kids of its nodes.                              *)
Closed(t, C) == C \in SUBSET Nodes /\ \A m \in C, s \in Sides : t.kid[s][m] \in C \cup {NULL}

(* Under(t, n) is the smallest one with n: the rounds end only after it    *)
(* has grown as often as there are nodes.                                  *)
LEMMA UnderIsLeast ==
  ASSUME NEW t, Linked(t), NEW n \in Links
  PROVE  /\ Closed(t, Under(t, n)) /\ (n # NULL => n \in Under(t, n))
         /\ \A C : Closed(t, C) /\ n \in C \cup {NULL} => Under(t, n) \subseteq C
<1>1. PICK x \in [0..Rounds -> SUBSET Nodes] :
        /\ x[0] = {n} \ {NULL} /\ Under(t, n) = x[Rounds]
        /\ \A i \in 0..Rounds : i < Rounds => x[i + 1] = Below(t, x[i])
  BY UnderRounds
<1>2. Rounds \in Nat /\ Cardinality(Nodes) \in Nat /\ Rounds = Cardinality(Nodes) + 1
  BY RoundsType DEF Rounds
<1>3. \A i \in 0..Rounds : x[i] \in SUBSET Nodes
  BY <1>1
<1>4. \A i \in 0..Rounds : i < Rounds => x[i] \subseteq x[i + 1]
  BY <1>1, <1>3, BelowIs
<1>5. ASSUME NEW C, Closed(t, C), n \in C \cup {NULL} PROVE Under(t, n) \subseteq C
  <2> DEFINE S == {i \in 0..Rounds : x[i] \subseteq C}
  <2>1. 0 \in S
    BY <1>1, <1>2, <1>5
  <2>2. ASSUME NEW i \in 0..Rounds, i < Rounds, i \in S PROVE i + 1 \in S
    <3>1. x[i] \in SUBSET Nodes /\ x[i] \subseteq C /\ x[i + 1] = Below(t, x[i])
      BY <1>1, <1>3, <2>2
    <3>2. ASSUME NEW k \in Below(t, x[i]) PROVE k \in C
      <4>1. k \in x[i] \/ \E m \in x[i], s \in Sides : k = t.kid[s][m]
        BY <3>1, BelowIs
      <4>2. k # NULL
        BY DEF Below
      <4> QED BY <1>5, <3>1, <4>1, <4>2 DEF Closed
    <3>3. i + 1 \in 0..Rounds
      BY <1>2, <2>2
    <3> QED BY <3>1, <3>2, <3>3
  <2>3. \A i \in 0..Rounds : i \in S
    <3> HIDE DEF S
    <3> QED BY <1>2, <2>1, <2>2, Counting
  <2>4. Rounds \in 0..Rounds
    BY <1>2
  <2> QED BY <1>1, <2>3, <2>4
<1>6. n # NULL => n \in Under(t, n)
  <2> DEFINE S == {i \in 0..Rounds : n # NULL => n \in x[i]}
  <2>1. 0 \in S
    BY <1>1, <1>2
  <2>2. \A i \in 0..Rounds : i < Rounds /\ i \in S => i + 1 \in S
    BY <1>2, <1>4
  <2>3. \A i \in 0..Rounds : i \in S
    <3> HIDE DEF S
    <3> QED BY <1>2, <2>1, <2>2, Counting
  <2>4. Rounds \in 0..Rounds
    BY <1>2
  <2> QED BY <1>1, <2>3, <2>4
<1>7. \A i \in 0..Rounds : IsFiniteSet(x[i]) /\ Cardinality(x[i]) \in Nat
                           /\ Cardinality(x[i]) <= Cardinality(Nodes)
  BY <1>3, NodesAssumption, FS_Subset, FS_CardinalityType
<1>8. \E i \in 0..Rounds : i < Rounds /\ x[i + 1] = x[i]
  <2> SUFFICES ASSUME \A i \in 0..Rounds : i < Rounds => x[i + 1] # x[i] PROVE FALSE
    OBVIOUS
  <2> DEFINE S == {i \in 0..Rounds : Cardinality(x[i]) >= i}
  <2>1. 0 \in S
    BY <1>2, <1>7
  <2>2. ASSUME NEW i \in 0..Rounds, i < Rounds, i \in S PROVE i + 1 \in S
    <3>1. i + 1 \in 0..Rounds /\ i \in Nat
      BY <1>2, <2>2
    <3>2. x[i] \subseteq x[i + 1] /\ x[i] # x[i + 1]
      BY <1>4, <2>2
    <3>3. Cardinality(x[i]) < Cardinality(x[i + 1])
      BY <1>7, <3>1, <3>2, FS_Subset
    <3> QED BY <1>7, <2>2, <3>1, <3>3
  <2>3. \A i \in 0..Rounds : i \in S
    <3> HIDE DEF S
    <3> QED BY <1>2, <2>1, <2>2, Counting
  <2>4. Rounds \in 0..Rounds
    BY <1>2
  <2>5. Cardinality(x[Rounds]) >= Rounds /\ Cardinality(x[Rounds]) <= Cardinality(Nodes)
    BY <1>7, <2>3, <2>4
  <2> QED BY <1>2, <1>7, <2>4, <2>5
<1>9. PICK j \in 0..Rounds : j < Rounds /\ x[j + 1] = x[j]
  BY <1>8
<1>10. Below(t, x[j]) = x[j] /\ x[j] \in SUBSET Nodes
  BY <1>1, <1>3, <1>9
<1>11. Under(t, n) = x[j]
  <2> DEFINE S == {i \in 0..Rounds : i >= j => x[i] = x[j]}
  <2>1. 0 \in S
    BY <1>2, <1>9
  <2>2. ASSUME NEW i \in 0..Rounds, i < Rounds, i \in S PROVE i + 1 \in S
    <3>1. i + 1 \in 0..Rounds /\ i \in Nat /\ j \in Nat
      BY <1>2, <2>2
    <3>2. CASE i >= j
      BY <1>1, <1>10, <2>2, <3>1, <3>2
    <3>3. CASE i + 1 = j
      BY <3>1, <3>3
    <3>4. CASE i + 1 < j
      BY <3>1, <3>4
    <3> QED BY <3>1, <3>2, <3>3, <3>4
  <2>3. \A i \in 0..Rounds : i \in S
    <3> HIDE DEF S
    <3> QED BY <1>2, <2>1, <2>2, Counting
  <2>4. Rounds \in 0..Rounds /\ Rounds >= j
    BY <1>2, <1>9
  <2> QED BY <1>1, <2>3, <2>4
<1>12. Closed(t, x[j])
  <2>1. \A m \in x[j], s \in Sides : t.kid[s][m] # NULL => t.kid[s][m] \in x[j]
    BY <1>10, BelowIs
  <2> QED BY <1>10, <2>1 DEF Closed
<1> QED BY <1>5, <1>6, <1>11, <1>12

-----------------------------------------------------------------------------
(* The two sides of a node.                                                *)
LEMMA OtherSide ==
  /\ \A s \in Sides : Other(s) \in Sides /\ Other(s) # s /\ Other(Other(s)) = s
  /\ \A s, z \in Sides : z # s => z = Other(s)
BY DEF Sides, Other

(* m belongs on the side s of n.                                           *)
On(s, m, n) == IF s = "left" THEN NodeKey[m] < NodeKey[n] ELSE NodeKey[m] > NodeKey[n]

LEMMA OnOrder ==
  ASSUME NEW M \in SUBSET Nodes, NEW s \in Sides, NEW a \in M, NEW b \in M
  PROVE  /\ On(s, a, b) <=> On(Other(s), b, a)
         /\ \A c \in M : On(s, a, b) /\ On(s, b, c) => On(s, a, c)
         /\ ~ On(s, a, a)
<1>1. NodeKey[a] \in Int /\ NodeKey[b] \in Int /\ \A c \in M : NodeKey[c] \in Int
  BY NodesAssumption
<1> QED BY <1>1 DEF On, Other, Sides

(* The links of the nodes in M make search trees, and U[n] are the nodes   *)
(* of the subtree of n.                                                    *)
Forest(t, M, U) ==
  /\ M \in SUBSET Nodes
  /\ U \in [Links -> SUBSET Nodes] /\ U[NULL] = {}
  /\ \A n \in M, s \in Sides : t.kid[s][n] \in M \cup {NULL}
  /\ \A n \in M : U[n] \subseteq M
                  /\ U[n] = {n} \cup U[t.kid["left"][n]] \cup U[t.kid["right"][n]]
  /\ \A n \in M : \A m \in U[t.kid["left"][n]] : NodeKey[m] < NodeKey[n]
  /\ \A n \in M : \A m \in U[t.kid["right"][n]] : NodeKey[m] > NodeKey[n]

(* A node is in its own subtree and in none of its kids'.                  *)
LEMMA ForestSelf ==
  ASSUME NEW t, NEW M, NEW U, Forest(t, M, U)
  PROVE  /\ NULL \notin M /\ IsFiniteSet(M) /\ \A n \in M : NodeKey[n] \in Int
         /\ \A n \in M : /\ n \in U[n] /\ IsFiniteSet(U[n]) /\ Cardinality(U[n]) \in Nat
                         /\ \A s \in Sides : n \notin U[t.kid[s][n]] /\ U[t.kid[s][n]] \subseteq U[n]
<1>1. M \subseteq Nodes /\ NULL \notin M /\ \A n \in M : NodeKey[n] \in Int
  BY NodesAssumption DEF Forest
<1>2. \A n \in M : U[n] \subseteq Nodes
  BY <1>1 DEF Forest
<1>3. IsFiniteSet(M) /\ \A n \in M : IsFiniteSet(U[n]) /\ Cardinality(U[n]) \in Nat
  BY <1>1, <1>2, NodesAssumption, FS_Subset, FS_CardinalityType
<1>4. \A n \in M : n \in U[n] /\ n \notin U[t.kid["left"][n]] /\ n \notin U[t.kid["right"][n]]
  <2> TAKE n \in M
  <2>1. ~ (NodeKey[n] < NodeKey[n]) /\ ~ (NodeKey[n] > NodeKey[n])
    BY <1>1
  <2> QED BY <2>1 DEF Forest
<1>5. \A n \in M : U[t.kid["left"][n]] \subseteq U[n] /\ U[t.kid["right"][n]] \subseteq U[n]
  BY DEF Forest
<1> QED BY <1>1, <1>3, <1>4, <1>5 DEF Sides

(* Induction over the size of a subtree: a property of nodes that holds of *)
(* a node when it holds of its kids holds of all of them.                  *)
LEMMA ForestFromKids ==
  ASSUME NEW t, NEW M, NEW U, Forest(t, M, U), NEW S,
         \A n \in M : (\A s \in Sides : t.kid[s][n] \in S \cup {NULL}) => n \in S
  PROVE  M \subseteq S
<1> SUFFICES ASSUME NEW b \in M, b \notin S PROVE FALSE
  OBVIOUS
<1> DEFINE Sizes == {Cardinality(U[n]) : n \in M \ S}
<1>1. \A n \in M : Cardinality(U[n]) \in Nat /\ IsFiniteSet(U[n])
  BY ForestSelf
<1>2. Sizes \in SUBSET Nat /\ Sizes # {}
  BY <1>1
<1>3. PICK x \in Sizes : \A y \in Sizes : x <= y
  <2> HIDE DEF Sizes
  <2> QED BY <1>2, SmallestNumber
<1>4. PICK n \in M \ S : x = Cardinality(U[n])
  OBVIOUS
<1>5. PICK s \in Sides : t.kid[s][n] \notin S \cup {NULL}
  BY <1>4
<1> DEFINE k == t.kid[s][n]
<1>6. k \in M \ S
  BY <1>4, <1>5 DEF Forest
<1>7. Cardinality(U[k]) \in Sizes
  BY <1>6
<1>8. n \in U[n] /\ n \notin U[k] /\ U[k] \subseteq U[n]
  BY <1>4, ForestSelf
<1>9. Cardinality(U[k]) < Cardinality(U[n])
  BY <1>1, <1>4, <1>6, <1>8, FS_Subset
<1>10. Cardinality(U[n]) <= Cardinality(U[k])
  BY <1>3, <1>4, <1>7
<1> QED BY <1>1, <1>4, <1>6, <1>9, <1>10

(* The subtree of a node in a subtree is part of it.                       *)
LEMMA ForestTransitive ==
  ASSUME NEW t, NEW M, NEW U, Forest(t, M, U), NEW n \in M, NEW m \in U[n]
  PROVE  m \in M /\ U[m] \subseteq U[n]
<1> DEFINE S == {a \in M : \A b \in U[a] : U[b] \subseteq U[a]}
<1>1. ASSUME NEW a \in M, \A s \in Sides : t.kid[s][a] \in S \cup {NULL} PROVE a \in S
  <2>1. ASSUME NEW b \in U[a] PROVE U[b] \subseteq U[a]
    <3>1. CASE b = a
      BY <3>1
    <3>2. CASE b # a
      <4>1. PICK s \in Sides : b \in U[t.kid[s][a]]
        BY <3>2 DEF Forest, Sides
      <4>2. t.kid[s][a] # NULL
        BY <4>1 DEF Forest
      <4>3. U[b] \subseteq U[t.kid[s][a]]
        BY <1>1, <4>1, <4>2
      <4> QED BY <4>3, ForestSelf
    <3> QED BY <3>1, <3>2
  <2> QED BY <2>1
<1>2. M \subseteq S
  <2> HIDE DEF S
  <2> QED BY <1>1, ForestFromKids
<1> QED BY <1>2 DEF Forest

(* A node and its kids, without saying which side is which.                *)
LEMMA ForestSides ==
  ASSUME NEW t, NEW M, NEW U, Forest(t, M, U), NEW n \in M, NEW s \in Sides
  PROVE  /\ U[n] = {n} \cup U[t.kid[s][n]] \cup U[t.kid[Other(s)][n]]
         /\ t.kid[s][n] \in M \cup {NULL}
         /\ \A m \in U[t.kid[s][n]] : m \in M /\ On(s, m, n)
         /\ t.kid[s][n] # NULL => t.kid[s][n] \in U[t.kid[s][n]]
<1>1. U[n] = {n} \cup U[t.kid[s][n]] \cup U[t.kid[Other(s)][n]]
  BY DEF Forest, Sides, Other
<1>2. \A m \in U[t.kid[s][n]] : m \in M
  BY <1>1 DEF Forest
<1>3. \A m \in U[t.kid[s][n]] : On(s, m, n)
  BY DEF Forest, On, Sides
<1>4. t.kid[s][n] \in M \cup {NULL}
  BY DEF Forest
<1> QED BY <1>1, <1>2, <1>3, <1>4, ForestSelf

(* The subtree of a kid is smaller.                                        *)
LEMMA ForestKidSmaller ==
  ASSUME NEW t, NEW M, NEW U, Forest(t, M, U), NEW n \in M, NEW s \in Sides,
         t.kid[s][n] # NULL
  PROVE  /\ Cardinality(U[n]) \in Nat /\ Cardinality(U[t.kid[s][n]]) \in Nat
         /\ Cardinality(U[t.kid[s][n]]) < Cardinality(U[n])
<1> DEFINE k == t.kid[s][n]
<1>1. k \in M
  BY DEF Forest
<1>2. /\ n \in U[n] /\ n \notin U[k] /\ U[k] \subseteq U[n] /\ IsFiniteSet(U[n])
      /\ Cardinality(U[n]) \in Nat /\ Cardinality(U[k]) \in Nat
  BY <1>1, ForestSelf
<1> QED BY <1>2, FS_Subset

(* U is what the loop of Under collects.                                   *)
LEMMA ForestUnder ==
  ASSUME NEW t, NEW M, NEW U, Forest(t, M, U), Linked(t), NEW n \in M \cup {NULL}
  PROVE  Under(t, n) = U[n]
<1>1. Linked(t) /\ M \subseteq Nodes /\ n \in Links
  BY DEF Forest, Links
<1>2. Under(t, n) \subseteq U[n]
  <2>1. CASE n = NULL
    <3>1. Closed(t, {})
      BY DEF Closed
    <3>2. Under(t, n) \subseteq {}
      BY <1>1, <2>1, <3>1, UnderIsLeast
    <3> QED BY <3>2
  <2>2. CASE n \in M
    <3>1. \A m \in U[n], s \in Sides : t.kid[s][m] \in U[n] \cup {NULL}
      <4> TAKE m \in U[n], s \in Sides
      <4>1. m \in M /\ U[m] \subseteq U[n]
        BY <2>2, ForestTransitive
      <4>2. t.kid[s][m] \in M \cup {NULL} /\ U[t.kid[s][m]] \subseteq U[m]
        BY <4>1, ForestSelf DEF Forest
      <4>3. t.kid[s][m] \in M => t.kid[s][m] \in U[t.kid[s][m]]
        BY ForestSelf
      <4> QED BY <4>1, <4>2, <4>3
    <3>2. Closed(t, U[n])
      BY <1>1, <2>2, <3>1 DEF Closed, Forest
    <3>3. n \in U[n]
      BY <2>2, ForestSelf
    <3> QED BY <1>1, <3>2, <3>3, UnderIsLeast
  <2> QED BY <2>1, <2>2
<1>3. U[n] \subseteq Under(t, n)
  <2> DEFINE S == {a \in M : a \in Under(t, n) => U[a] \subseteq Under(t, n)}
  <2>1. ASSUME NEW a \in M, \A s \in Sides : t.kid[s][a] \in S \cup {NULL} PROVE a \in S
    <3>1. ASSUME a \in Under(t, n) PROVE U[a] \subseteq Under(t, n)
      <4>1. \A s \in Sides : t.kid[s][a] \in Under(t, n) \cup {NULL}
        BY <1>1, <3>1, UnderIsLeast DEF Closed
      <4>2. \A s \in Sides : U[t.kid[s][a]] \subseteq Under(t, n)
        BY <2>1, <4>1 DEF Forest
      <4> QED BY <3>1, <4>2 DEF Forest, Sides
    <3> QED BY <3>1
  <2>2. M \subseteq S
    <3> HIDE DEF S
    <3> QED BY <2>1, ForestFromKids
  <2>3. n # NULL => n \in Under(t, n)
    BY <1>1, UnderIsLeast
  <2> QED BY <2>2, <2>3 DEF Forest
<1> QED BY <1>2, <1>3

(* Furthest goes down to the last node on its side.                        *)
LEMMA ForestFurthest ==
  ASSUME NEW t, NEW M, NEW U, Forest(t, M, U), Linked(t), NEW n \in M, NEW s \in Sides
  PROVE  LET f == Furthest(t, n, s)
         IN  /\ f \in U[n] /\ f \in M /\ t.kid[s][f] = NULL
             /\ \A m \in U[n] : m = f \/ On(Other(s), m, f)
<1>1. Linked(t) /\ M \subseteq Nodes /\ NULL \notin M /\ n \in Links
  BY ForestSelf DEF Forest, Links
<1>2. PICK x \in [0..Rounds -> Links] :
        /\ x[0] = n /\ Furthest(t, n, s) = x[Rounds]
        /\ \A i \in 0..Rounds : i < Rounds =>
             x[i + 1] = IF x[i] = NULL \/ t.kid[s][x[i]] = NULL THEN x[i] ELSE t.kid[s][x[i]]
  BY <1>1, FurthestRounds
<1>3. Rounds \in Nat /\ Cardinality(Nodes) \in Nat /\ Rounds = Cardinality(Nodes) + 1
  BY RoundsType DEF Rounds
<1> DEFINE Good(f) == /\ f \in U[n] /\ f \in M
                      /\ \A m \in U[n] : m \in U[f] \/ On(Other(s), m, f)
           S == {i \in 0..Rounds : /\ Good(x[i])
                                   /\ \/ t.kid[s][x[i]] = NULL
                                      \/ i + Cardinality(U[x[i]]) <= Cardinality(Nodes)}
<1>4. 0 \in S
  <2>1. Cardinality(U[n]) <= Cardinality(Nodes)
    <3>1. U[n] \subseteq Nodes
      BY <1>1 DEF Forest
    <3> QED BY <3>1, NodesAssumption, FS_Subset
  <2>2. n \in U[n] /\ Cardinality(U[n]) \in Nat
    BY ForestSelf
  <2>3. Good(x[0]) /\ 0 + Cardinality(U[x[0]]) <= Cardinality(Nodes) /\ 0 \in 0..Rounds
    BY <1>2, <1>3, <2>1, <2>2
  <2> QED BY <2>3
<1>5. ASSUME NEW i \in 0..Rounds, i < Rounds, i \in S PROVE i + 1 \in S
  <2> DEFINE f == x[i]
             k == t.kid[s][f]
  <2>1. i + 1 \in 0..Rounds /\ i \in Nat
    BY <1>3, <1>5
  <2>2. Good(f) /\ (k = NULL \/ i + Cardinality(U[f]) <= Cardinality(Nodes)) /\ f # NULL
    BY <1>1, <1>5
  <2>3. CASE k = NULL
    <3>1. x[i + 1] = f
      BY <1>2, <1>5, <2>3
    <3> HIDE DEF Good
    <3> QED BY <2>1, <2>2, <2>3, <3>1
  <2>4. CASE k # NULL
    <3>1. x[i + 1] = k
      BY <1>2, <1>5, <2>2, <2>4
    <3>2. /\ Cardinality(U[f]) \in Nat /\ Cardinality(U[k]) \in Nat
          /\ Cardinality(U[k]) < Cardinality(U[f])
      BY <2>2, <2>4, ForestKidSmaller
    <3>3. (i + 1) + Cardinality(U[k]) <= Cardinality(Nodes)
      <4> HIDE DEF f, k, Good
      <4> QED BY <1>3, <2>1, <2>2, <2>4, <3>2
    <3>4. /\ U[f] = {f} \cup U[k] \cup U[t.kid[Other(s)][f]]
          /\ k \in M /\ k \in U[k]
          /\ \A m \in U[k] : m \in M /\ On(s, m, f)
      BY <1>1, <2>2, <2>4, ForestSides
    <3>5. U[f] \subseteq U[n] /\ Other(s) \in Sides
      BY <2>2, ForestTransitive, OtherSide
    <3>6. \A m \in U[t.kid[Other(s)][f]] : m \in M /\ On(Other(s), m, f)
      BY <2>2, <3>5, ForestSides
    <3>7. On(Other(s), f, k)
      <4>1. M \in SUBSET Nodes /\ f \in M /\ k \in M /\ On(s, k, f)
        BY <1>1, <2>2, <3>4
      <4> HIDE DEF f, k, Good
      <4> QED BY <4>1, OnOrder
    <3>8. ASSUME NEW m \in U[n], m \notin U[k] PROVE On(Other(s), m, k)
      <4>1. m \in M
        BY DEF Forest
      <4>2. m = f \/ On(Other(s), m, f)
        BY <2>2, <3>4, <3>6, <3>8
      <4>3. CASE m = f
        BY <3>7, <4>3
      <4>4. CASE On(Other(s), m, f)
        <5>1. M \in SUBSET Nodes /\ f \in M /\ k \in M /\ Other(s) \in Sides
          BY <1>1, <2>2, <3>4, <3>5
        <5> HIDE DEF f, k, Good
        <5> QED BY <3>7, <4>1, <4>4, <5>1, OnOrder
      <4> QED BY <4>2, <4>3, <4>4
    <3>9. Good(k)
      BY <3>4, <3>5, <3>8
    <3> HIDE DEF Good
    <3> QED BY <2>1, <3>1, <3>3, <3>9
  <2> QED BY <2>3, <2>4
<1>6. Rounds \in S
  <2>1. \A i \in 0..Rounds : i \in S
    <3> HIDE DEF S
    <3> QED BY <1>3, <1>4, <1>5, Counting
  <2> QED BY <1>3, <2>1
<1> DEFINE f == x[Rounds]
<1>7. Good(f) /\ (t.kid[s][f] = NULL \/ Rounds + Cardinality(U[f]) <= Cardinality(Nodes))
  BY <1>6
<1>8. t.kid[s][f] = NULL
  <2>1. Cardinality(U[f]) \in Nat
    BY <1>7, ForestSelf
  <2> HIDE DEF f, Good
  <2> QED BY <1>3, <1>7, <2>1
<1>9. \A m \in U[n] : m = f \/ On(Other(s), m, f)
  <2>1. U[f] = {f} \cup U[NULL] \cup U[t.kid[Other(s)][f]] /\ U[NULL] = {}
    <3>1. U[f] = {f} \cup U[t.kid[s][f]] \cup U[t.kid[Other(s)][f]]
      BY <1>7, ForestSides
    <3> QED BY <1>8, <3>1 DEF Forest
  <2>2. \A m \in U[t.kid[Other(s)][f]] : On(Other(s), m, f)
    BY <1>7, OtherSide, ForestSides
  <2> QED BY <1>7, <2>1, <2>2
<1> QED BY <1>2, <1>7, <1>8, <1>9

-----------------------------------------------------------------------------
Colors == {"RED", "BLACK"}

RBTrees ==
  [kid : [Sides -> [Nodes -> Links]], parent : [Nodes -> Links],
   color : [Nodes -> Colors], root : Links]

(* The fields of a tree have their types.                                  *)
LEMMA TreeType ==
  ASSUME NEW t \in RBTrees
  PROVE  /\ Linked(t) /\ t.root \in Links
         /\ \A n \in Nodes : t.parent[n] \in Links /\ t.color[n] \in Colors
         /\ \A s \in Sides, n \in Nodes : t.kid[s][n] \in Links
BY DEF RBTrees, Linked

(* t is a search tree of the nodes in M, every node knows its parent, and  *)
(* U[n] are the nodes of the subtree of n.                                 *)
Shape(t, M, U) ==
  /\ t \in RBTrees /\ M \in SUBSET Nodes
  /\ U \in [Links -> SUBSET Nodes] /\ U[NULL] = {}
  /\ t.root \in M \cup {NULL} /\ U[t.root] = M
  /\ \A n \in M, s \in Sides : t.kid[s][n] \in M \cup {NULL}
  /\ \A n \in M : U[n] \subseteq M
                  /\ U[n] = {n} \cup U[t.kid["left"][n]] \cup U[t.kid["right"][n]]
  /\ \A n \in M : \A m \in U[t.kid["left"][n]] : NodeKey[m] < NodeKey[n]
  /\ \A n \in M : \A m \in U[t.kid["right"][n]] : NodeKey[m] > NodeKey[n]
  /\ t.root # NULL => t.parent[t.root] = NULL
  /\ \A n \in M, s \in Sides : t.kid[s][n] # NULL => t.parent[t.kid[s][n]] = n

(* The tree is a forest.                                                   *)
LEMMA ShapeForest ==
  ASSUME NEW t, NEW M, NEW U, Shape(t, M, U)
  PROVE  Forest(t, M, U)
BY DEF Shape, Forest

(* A node is in its own subtree and in none of its kids'.                  *)
LEMMA ShapeSelf ==
  ASSUME NEW t, NEW M, NEW U, Shape(t, M, U)
  PROVE  /\ NULL \notin M /\ IsFiniteSet(M) /\ \A n \in M : NodeKey[n] \in Int
         /\ \A n \in M : /\ n \in U[n] /\ IsFiniteSet(U[n]) /\ Cardinality(U[n]) \in Nat
                         /\ \A s \in Sides : n \notin U[t.kid[s][n]] /\ U[t.kid[s][n]] \subseteq U[n]
BY ShapeForest, ForestSelf

(* Induction over the size of a subtree: a property of nodes that holds of *)
(* a node when it holds of its kids holds of all of them.                  *)
LEMMA FromKids ==
  ASSUME NEW t, NEW M, NEW U, Shape(t, M, U), NEW S,
         \A n \in M : (\A s \in Sides : t.kid[s][n] \in S \cup {NULL}) => n \in S
  PROVE  M \subseteq S
BY ShapeForest, ForestFromKids

(* The subtree of a node in a subtree is part of it.                       *)
LEMMA ShapeTransitive ==
  ASSUME NEW t, NEW M, NEW U, Shape(t, M, U), NEW n \in M, NEW m \in U[n]
  PROVE  m \in M /\ U[m] \subseteq U[n]
BY ShapeForest, ForestTransitive

(* Every node of a subtree but its top has its parent there, and is a kid  *)
(* of it.                                                                  *)
LEMMA ShapeUpwards ==
  ASSUME NEW t, NEW M, NEW U, Shape(t, M, U), NEW n \in M, NEW m \in U[n], m # n
  PROVE  t.parent[m] \in U[n] /\ \E s \in Sides : t.kid[s][t.parent[m]] = m
<1> DEFINE P(b, a) == t.parent[b] \in U[a] /\ \E s \in Sides : t.kid[s][t.parent[b]] = b
           S == {a \in M : \A b \in U[a] : b # a => P(b, a)}
<1>1. ASSUME NEW a \in M, \A s \in Sides : t.kid[s][a] \in S \cup {NULL} PROVE a \in S
  <2>1. ASSUME NEW b \in U[a], b # a PROVE P(b, a)
    <3>1. PICK s \in Sides : b \in U[t.kid[s][a]]
      BY <2>1 DEF Shape, Sides
    <3>2. t.kid[s][a] # NULL
      BY <3>1 DEF Shape
    <3>3. CASE b = t.kid[s][a]
      <4>1. t.parent[b] = a
        BY <3>2, <3>3 DEF Shape
      <4>2. a \in U[a]
        BY ShapeSelf
      <4> QED BY <3>3, <4>1, <4>2
    <3>4. CASE b # t.kid[s][a]
      <4>1. P(b, t.kid[s][a])
        BY <1>1, <3>1, <3>2, <3>4
      <4>2. U[t.kid[s][a]] \subseteq U[a]
        BY ShapeSelf
      <4> QED BY <4>1, <4>2
    <3> QED BY <3>3, <3>4
  <2> HIDE DEF P
  <2> QED BY <2>1
<1>2. M \subseteq S
  <2> HIDE DEF S
  <2> QED BY <1>1, FromKids
<1> QED BY <1>2

(* A node that is not the root is a kid of its parent.                     *)
LEMMA ShapeParent ==
  ASSUME NEW t, NEW M, NEW U, Shape(t, M, U), NEW n \in M, n # t.root
  PROVE  /\ t.parent[n] \in M /\ t.parent[n] # n /\ t.parent[n] # NULL
         /\ \E s \in Sides : t.kid[s][t.parent[n]] = n
<1>1. t.root \in M /\ U[t.root] = M
  BY DEF Shape
<1>2. t.parent[n] \in M /\ \E s \in Sides : t.kid[s][t.parent[n]] = n
  BY <1>1, ShapeUpwards
<1>3. t.parent[n] # n
  BY <1>2, ShapeSelf
<1> QED BY <1>2, <1>3, ShapeSelf

(* The two kids of a node are different, and no two nodes are in each      *)
(* other's subtree.                                                        *)
LEMMA ShapeApart ==
  ASSUME NEW t, NEW M, NEW U, Shape(t, M, U), NEW n \in M
  PROVE  /\ \A k \in U[t.kid["left"][n]] : k \notin U[t.kid["right"][n]]
         /\ t.kid["left"][n] = t.kid["right"][n] => t.kid["left"][n] = NULL
         /\ \A m \in U[n] : n \in U[m] => m = n
<1>1. ASSUME NEW k \in U[t.kid["left"][n]], k \in U[t.kid["right"][n]] PROVE FALSE
  <2>1. k \in M
    <3>1. k \in U[n] /\ U[n] \subseteq M
      BY <1>1 DEF Shape
    <3> QED BY <3>1
  <2>2. NodeKey[k] < NodeKey[n] /\ NodeKey[k] > NodeKey[n] /\ NodeKey[k] \in Int /\ NodeKey[n] \in Int
    BY <1>1, <2>1, ShapeSelf DEF Shape
  <2> QED BY <2>2
<1>2. ASSUME t.kid["left"][n] = t.kid["right"][n], t.kid["left"][n] # NULL PROVE FALSE
  <2>1. t.kid["left"][n] \in M
    BY <1>2 DEF Shape, Sides
  <2>2. t.kid["left"][n] \in U[t.kid["left"][n]]
    BY <2>1, ShapeSelf
  <2> QED BY <1>1, <1>2, <2>2
<1>3. ASSUME NEW m \in U[n], n \in U[m], m # n PROVE FALSE
  <2>1. PICK s \in Sides : m \in U[t.kid[s][n]]
    BY <1>3 DEF Shape, Sides
  <2>2. t.kid[s][n] \in M
    BY <2>1 DEF Shape
  <2>3. U[m] \subseteq U[t.kid[s][n]]
    BY <2>1, <2>2, ShapeTransitive
  <2> QED BY <1>3, <2>3, ShapeSelf
<1> QED BY <1>1, <1>2, <1>3

(* U is what the loop of Under collects.                                   *)
LEMMA ShapeUnder ==
  ASSUME NEW t, NEW M, NEW U, Shape(t, M, U), NEW n \in M \cup {NULL}
  PROVE  Under(t, n) = U[n]
<1>1. Linked(t) /\ Forest(t, M, U)
  BY ShapeForest, TreeType DEF Shape
<1> QED BY <1>1, ForestUnder

(* What the macros that assign to links and colours leave.                 *)
LEMMA SetKidIs ==
  ASSUME NEW t \in RBTrees, NEW s \in Sides, NEW n \in Nodes, NEW m \in Links
  PROVE  LET r == SetKid(t, s, n, m)
         IN  /\ r \in RBTrees /\ r.parent = t.parent /\ r.color = t.color /\ r.root = t.root
             /\ \A z \in Sides, a \in Nodes : r.kid[z][a] = IF z = s /\ a = n THEN m ELSE t.kid[z][a]
BY DEF SetKid, RBTrees

LEMMA SetParentIs ==
  ASSUME NEW t \in RBTrees, NEW n \in Links, NEW p \in Links
  PROVE  LET r == SetParent(t, n, p)
         IN  /\ r \in RBTrees /\ r.kid = t.kid /\ r.color = t.color /\ r.root = t.root
             /\ \A a \in Nodes : r.parent[a] = IF a = n THEN p ELSE t.parent[a]
BY NodesAssumption DEF SetParent, RBTrees, Links

LEMMA PaintIs ==
  ASSUME NEW t \in RBTrees, NEW n \in Nodes, NEW c \in Colors
  PROVE  LET r == Paint(t, n, c)
         IN  /\ r \in RBTrees /\ r.kid = t.kid /\ r.parent = t.parent /\ r.root = t.root
             /\ \A a \in Nodes : r.color[a] = IF a = n THEN c ELSE t.color[a]
BY DEF Paint, RBTrees

LEMMA SetRootIs ==
  ASSUME NEW t \in RBTrees, NEW m \in Links
  PROVE  LET r == [t EXCEPT !.root = m]
         IN  r \in RBTrees /\ r.kid = t.kid /\ r.parent = t.parent /\ r.color = t.color /\ r.root = m
BY DEF RBTrees

LEMMA ReplaceIs ==
  ASSUME NEW t \in RBTrees, NEW p \in Links, NEW n \in Nodes, NEW m \in Links,
         p # NULL => \E s \in Sides : t.kid[s][p] = n /\ t.kid[Other(s)][p] # n
  PROVE  LET r == Replace(t, p, n, m)
         IN  /\ r \in RBTrees /\ r.parent = t.parent /\ r.color = t.color
             /\ r.root = IF p = NULL THEN m ELSE t.root
             /\ \A z \in Sides, a \in Nodes :
                  r.kid[z][a] = IF a = p /\ t.kid[z][a] = n THEN m ELSE t.kid[z][a]
<1>1. CASE p = NULL
  <2>1. Replace(t, p, n, m) = [t EXCEPT !.root = m]
    BY <1>1 DEF Replace
  <2> QED BY <1>1, <2>1, SetRootIs, NodesAssumption
<1>2. CASE p # NULL
  <2> DEFINE s == IF t.kid["left"][p] = n THEN "left" ELSE "right"
  <2>1. Replace(t, p, n, m) = SetKid(t, s, p, m) /\ p \in Nodes /\ s \in Sides
    BY <1>2 DEF Replace, Links, Sides
  <2>2. t.kid[s][p] = n /\ \A z \in Sides : z # s => t.kid[z][p] # n
    BY <1>2 DEF Sides, Other
  <2> HIDE DEF s
  <2> DEFINE r == SetKid(t, s, p, m)
  <2>3. /\ r \in RBTrees /\ r.parent = t.parent /\ r.color = t.color /\ r.root = t.root
        /\ \A z \in Sides, a \in Nodes : r.kid[z][a] = IF z = s /\ a = p THEN m ELSE t.kid[z][a]
    <3>1. m \in Links
      OBVIOUS
    <3> QED BY <2>1, <3>1, SetKidIs, SMTT(30)
  <2> HIDE DEF r
  <2>4. \A z \in Sides, a \in Nodes :
          r.kid[z][a] = IF a = p /\ t.kid[z][a] = n THEN m ELSE t.kid[z][a]
    BY <2>2, <2>3
  <2>5. Replace(t, p, n, m) = r
    BY <2>1 DEF r
  <2> QED BY <1>2, <2>3, <2>4, <2>5
<1> QED BY <1>1, <1>2

(* What points to a node does so on one side.                              *)
LEMMA PointsOnce ==
  ASSUME NEW t, NEW M, NEW U, Shape(t, M, U), NEW n \in M
  PROVE  /\ t.parent[n] = NULL <=> n = t.root
         /\ t.parent[n] # NULL => /\ t.parent[n] \in M /\ t.parent[n] # n
                                  /\ \E s \in Sides : t.kid[s][t.parent[n]] = n
                                                      /\ t.kid[Other(s)][t.parent[n]] # n
         /\ \A a \in M, s \in Sides : t.kid[s][a] = n => a = t.parent[n]
<1>1. n # NULL
  BY ShapeSelf
<1>2. n = t.root => t.parent[n] = NULL
  BY <1>1 DEF Shape
<1>3. n # t.root => /\ t.parent[n] \in M /\ t.parent[n] # n /\ t.parent[n] # NULL
                    /\ \E s \in Sides : t.kid[s][t.parent[n]] = n
  BY ShapeParent
<1>4. \A a \in M, s \in Sides : t.kid[s][a] = n => a = t.parent[n] /\ t.kid[Other(s)][a] # n
  <2> TAKE a \in M, s \in Sides
  <2> HAVE t.kid[s][a] = n
  <2>1. a = t.parent[n]
    BY <1>1 DEF Shape
  <2>2. t.kid["left"][a] = t.kid["right"][a] => t.kid["left"][a] = NULL
    BY ShapeApart
  <2> QED BY <1>1, <2>1, <2>2 DEF Sides, Other
<1> QED BY <1>2, <1>3, <1>4

(* What a rotation leaves.                                                 *)
LEMMA RotateIs ==
  ASSUME NEW t, NEW M, NEW U, Shape(t, M, U), NEW e \in M, NEW s \in Sides,
         t.kid[Other(s)][e] # NULL
  PROVE  LET r == RB_ROTATE(t, e, s)
             tmp == t.kid[Other(s)][e]
             inner == t.kid[s][tmp]
         IN  /\ r \in RBTrees /\ r.color = t.color
             /\ r.root = IF e = t.root THEN tmp ELSE t.root
             /\ \A z \in Sides, a \in Nodes :
                  r.kid[z][a] = IF a = e /\ z = Other(s) THEN inner
                                ELSE IF a = tmp /\ z = s THEN e
                                ELSE IF a = t.parent[e] /\ t.kid[z][a] = e THEN tmp
                                ELSE t.kid[z][a]
             /\ \A a \in Nodes : r.parent[a] = IF a = e THEN tmp
                                               ELSE IF a = tmp THEN t.parent[e]
                                               ELSE IF a = inner THEN e ELSE t.parent[a]
<1> DEFINE tmp == t.kid[Other(s)][e]
           inner == t.kid[s][tmp]
           p == t.parent[e]
           t0 == SetKid(t, Other(s), e, inner)
           t1 == SetParent(t0, inner, e)
           t2 == Replace(t1, p, e, tmp)
           t3 == SetParent(t2, tmp, p)
           t4 == SetKid(t3, s, tmp, e)
           t5 == SetParent(t4, e, tmp)
<1>1. RB_ROTATE(t, e, s) = t5
  <2>1. RB_ROTATE(t, e, s) = TurnUp(t, e, s, tmp)
    BY Zenon DEF RB_ROTATE
  <2>2. t.kid[s][tmp] = inner /\ t.parent[e] = p
    OBVIOUS
  <2> HIDE DEF tmp, inner, p
  <2>3. TurnUp(t, e, s, tmp)
          = Hang(SetParent(Replace(Hang(t, Other(s), e, inner), p, e, tmp), tmp, p), s, tmp, e)
    BY <2>2, Zenon DEF TurnUp
  <2>4. Hang(t, Other(s), e, inner) = t1
    BY Zenon DEF Hang
  <2> HIDE DEF t1
  <2>5. Hang(t3, s, tmp, e) = t5
    BY Zenon DEF Hang
  <2> HIDE DEF t5
  <2> QED BY <2>1, <2>3, <2>4, <2>5
<1>2. t \in RBTrees /\ M \subseteq Nodes /\ NULL \notin M /\ Other(s) \in Sides /\ Other(s) # s
  BY ShapeSelf, OtherSide DEF Shape
<1>3. tmp \in M /\ inner \in M \cup {NULL} /\ p \in M \cup {NULL} /\ e # NULL /\ tmp # NULL
  <2>1. tmp \in M
    BY <1>2 DEF Shape
  <2>2. inner \in M \cup {NULL}
    BY <1>2, <2>1 DEF Shape
  <2>3. p \in M \cup {NULL}
    BY PointsOnce
  <2> QED BY <1>2, <2>1, <2>2, <2>3
<1>4. /\ p = NULL <=> e = t.root
      /\ p # NULL => /\ p \in M /\ p # e
                     /\ \E z \in Sides : t.kid[z][p] = e /\ t.kid[Other(z)][p] # e
  BY PointsOnce
<1>5. /\ tmp # e /\ tmp # p /\ inner # tmp /\ inner # e
  <2>1. tmp # e
    <3>1. tmp \in U[tmp] /\ e \notin U[tmp]
      BY <1>2, <1>3, ShapeSelf
    <3> QED BY <3>1
  <2>2. t.parent[tmp] = e
    BY <1>2, <1>3 DEF Shape
  <2>3. tmp # p
    <3>1. tmp \in U[e]
      <4>1. U[tmp] \subseteq U[e] /\ tmp \in U[tmp]
        BY <1>2, <1>3, ShapeSelf
      <4> QED BY <4>1
    <3>2. p # NULL => e \in U[p]
      <4>1. ASSUME p # NULL PROVE e \in U[p]
        <5>1. PICK z \in Sides : t.kid[z][p] = e
          BY <1>4, <4>1
        <5>2. U[t.kid[z][p]] \subseteq U[p] /\ e \in U[e]
          BY <1>4, <4>1, ShapeSelf
        <5> QED BY <5>1, <5>2
      <4> QED BY <4>1
    <3> QED BY <1>3, <2>1, <3>1, <3>2, ShapeApart
  <2>4. inner # NULL => t.parent[inner] = tmp
    BY <1>3 DEF Shape
  <2>5. inner # tmp
    <3>1. inner # NULL => inner \in U[inner] /\ tmp \notin U[inner]
      BY <1>3, ShapeSelf
    <3> QED BY <1>3, <3>1
  <2>6. inner # e
    <3>1. inner # NULL => U[inner] \subseteq U[tmp] /\ inner \in U[inner] /\ e \notin U[tmp]
      BY <1>2, <1>3, ShapeSelf
    <3> QED BY <1>3, <3>1
  <2> QED BY <2>1, <2>3, <2>5, <2>6
<1>6. e \in Nodes /\ tmp \in Nodes /\ inner \in Links /\ p \in Links /\ tmp \in Links /\ e \in Links
  BY <1>2, <1>3 DEF Links
<1>a. e \in M /\ s \in Sides
  OBVIOUS
<1> HIDE DEF tmp, inner, p
<1>7. /\ t0 \in RBTrees /\ t0.parent = t.parent /\ t0.color = t.color /\ t0.root = t.root
      /\ \A z \in Sides, a \in Nodes :
           t0.kid[z][a] = IF z = Other(s) /\ a = e THEN inner ELSE t.kid[z][a]
  <2>1. t \in RBTrees /\ Other(s) \in Sides /\ e \in Nodes /\ inner \in Links
    BY <1>2, <1>6
  <2> QED BY <2>1, SetKidIs
<1> HIDE DEF t0
<1>8. /\ t1 \in RBTrees /\ t1.kid = t0.kid /\ t1.color = t0.color /\ t1.root = t0.root
      /\ \A a \in Nodes : t1.parent[a] = IF a = inner THEN e ELSE t0.parent[a]
  <2>1. t0 \in RBTrees /\ inner \in Links /\ e \in Links
    BY <1>6, <1>7
  <2> QED BY <2>1, SetParentIs
<1> HIDE DEF t1
<1>9. /\ t2 \in RBTrees /\ t2.parent = t1.parent /\ t2.color = t1.color
      /\ t2.root = IF p = NULL THEN tmp ELSE t1.root
      /\ \A z \in Sides, a \in Nodes :
           t2.kid[z][a] = IF a = p /\ t1.kid[z][a] = e THEN tmp ELSE t1.kid[z][a]
  <2>1. p # NULL => \E z \in Sides : t1.kid[z][p] = e /\ t1.kid[Other(z)][p] # e
    <3>1. p # NULL => p \in Nodes
      BY <1>6 DEF Links
    <3> QED BY <1>4, <1>7, <1>8, <3>1, OtherSide
  <2>2. t1 \in RBTrees /\ p \in Links /\ e \in Nodes /\ tmp \in Links
    BY <1>6, <1>8
  <2> QED BY <2>1, <2>2, ReplaceIs
<1> HIDE DEF t2
<1>10. /\ t3 \in RBTrees /\ t3.kid = t2.kid /\ t3.color = t2.color /\ t3.root = t2.root
       /\ \A a \in Nodes : t3.parent[a] = IF a = tmp THEN p ELSE t2.parent[a]
  <2>1. t2 \in RBTrees /\ tmp \in Links /\ p \in Links
    BY <1>6, <1>9
  <2> QED BY <2>1, SetParentIs
<1> HIDE DEF t3
<1>11. /\ t4 \in RBTrees /\ t4.parent = t3.parent /\ t4.color = t3.color /\ t4.root = t3.root
       /\ \A z \in Sides, a \in Nodes :
            t4.kid[z][a] = IF z = s /\ a = tmp THEN e ELSE t3.kid[z][a]
  <2>1. t3 \in RBTrees /\ s \in Sides /\ tmp \in Nodes /\ e \in Links
    BY <1>6, <1>10
  <2> QED BY <2>1, SetKidIs
<1> HIDE DEF t4
<1>12. /\ t5 \in RBTrees /\ t5.kid = t4.kid /\ t5.color = t4.color /\ t5.root = t4.root
       /\ \A a \in Nodes : t5.parent[a] = IF a = e THEN tmp ELSE t4.parent[a]
  <2>1. t4 \in RBTrees /\ e \in Links /\ tmp \in Links
    BY <1>6, <1>11
  <2> QED BY <2>1, SetParentIs
<1> HIDE DEF t5
<1>13. t5.color = t.color /\ t5.root = IF e = t.root THEN tmp ELSE t.root
  BY <1>4, <1>7, <1>8, <1>9, <1>10, <1>11, <1>12
<1>14. \A a \in Nodes : t5.parent[a] = IF a = e THEN tmp ELSE IF a = tmp THEN p
                                       ELSE IF a = inner THEN e ELSE t.parent[a]
  BY <1>5, <1>7, <1>8, <1>9, <1>10, <1>11, <1>12
<1>15. \A z \in Sides, a \in Nodes :
         t5.kid[z][a] = IF a = e /\ z = Other(s) THEN inner
                        ELSE IF a = tmp /\ z = s THEN e
                        ELSE IF a = p /\ t.kid[z][a] = e THEN tmp ELSE t.kid[z][a]
  BY <1>2, <1>4, <1>5, <1>7, <1>8, <1>9, <1>10, <1>11, <1>12
<1> QED BY <1>1, <1>12, <1>13, <1>14, <1>15 DEF tmp, inner, p

(* A node and its kids, without saying which side is which.                *)
LEMMA ShapeSides ==
  ASSUME NEW t, NEW M, NEW U, Shape(t, M, U), NEW n \in M, NEW s \in Sides
  PROVE  /\ U[n] = {n} \cup U[t.kid[s][n]] \cup U[t.kid[Other(s)][n]]
         /\ t.kid[s][n] \in M \cup {NULL}
         /\ \A m \in U[t.kid[s][n]] : m \in M /\ On(s, m, n)
         /\ t.kid[s][n] # NULL => t.kid[s][n] \in U[t.kid[s][n]]
BY ShapeForest, ForestSides

(* What is enough for a shape.                                             *)
LEMMA ShapeFrom ==
  ASSUME NEW t \in RBTrees, NEW M \in SUBSET Nodes, NEW U \in [Links -> SUBSET Nodes],
         U[NULL] = {}, t.root \in M \cup {NULL}, U[t.root] = M,
         t.root # NULL => t.parent[t.root] = NULL,
         \A n \in M : U[n] \subseteq M,
         \A n \in M, s \in Sides : t.kid[s][n] \in M \cup {NULL},
         \A n \in M : \E s \in Sides : U[n] = {n} \cup U[t.kid[s][n]] \cup U[t.kid[Other(s)][n]],
         \A n \in M, s \in Sides : \A m \in U[t.kid[s][n]] : On(s, m, n),
         \A n \in M, s \in Sides : t.kid[s][n] # NULL => t.parent[t.kid[s][n]] = n
  PROVE  Shape(t, M, U)
<1>1. \A n \in M : U[n] = {n} \cup U[t.kid["left"][n]] \cup U[t.kid["right"][n]]
  BY DEF Sides, Other
<1>2. /\ \A n \in M : \A m \in U[t.kid["left"][n]] : NodeKey[m] < NodeKey[n]
      /\ \A n \in M : \A m \in U[t.kid["right"][n]] : NodeKey[m] > NodeKey[n]
  BY DEF On, Sides
<1> QED BY <1>1, <1>2 DEF Shape

(* Who is who around a rotation.                                           *)
AroundIs(t, M, U, e, s) ==
  LET tmp == t.kid[Other(s)][e]
      inner == t.kid[s][tmp]
      outer == t.kid[Other(s)][tmp]
      near == t.kid[s][e]
  IN  /\ tmp \in M /\ {inner, outer, near} \subseteq M \cup {NULL}
      /\ t.parent[tmp] = e
      /\ tmp # e /\ t.parent[e] # e /\ t.parent[e] # tmp
      /\ {e, tmp} \cap {inner, outer, near} = {}
      /\ inner # NULL => inner # outer /\ inner # near
      /\ outer # NULL => outer # near
      /\ U[e] = {e} \cup U[near] \cup U[tmp]
      /\ U[tmp] = {tmp} \cup U[inner] \cup U[outer]
      /\ e \notin U[tmp] /\ tmp \notin U[near] /\ e \notin U[near]
      /\ tmp \notin U[inner] /\ tmp \notin U[outer]

LEMMA Around ==
  ASSUME NEW t, NEW M, NEW U, Shape(t, M, U), NEW e \in M, NEW s \in Sides,
         t.kid[Other(s)][e] # NULL
  PROVE  AroundIs(t, M, U, e, s)
<1> DEFINE tmp == t.kid[Other(s)][e]
           inner == t.kid[s][tmp]
           outer == t.kid[Other(s)][tmp]
           near == t.kid[s][e]
<1>1. Other(s) \in Sides /\ Other(Other(s)) = s /\ Other(s) # s /\ M \in SUBSET Nodes
  BY OtherSide DEF Shape
<1>2. /\ tmp \in M /\ tmp \in U[tmp] /\ near \in M \cup {NULL}
      /\ U[e] = {e} \cup U[near] \cup U[tmp]
      /\ near # NULL => near \in U[near]
  BY <1>1, ShapeSides
<1>3. /\ {inner, outer} \subseteq M \cup {NULL}
      /\ U[tmp] = {tmp} \cup U[inner] \cup U[outer]
      /\ inner # NULL => inner \in U[inner]
      /\ outer # NULL => outer \in U[outer]
  <2>1. tmp \in M /\ s \in Sides /\ Other(s) \in Sides
    BY <1>1, <1>2
  <2> HIDE DEF tmp
  <2> QED BY <2>1, ShapeSides
<1>4. t.parent[tmp] = e
  BY <1>1, <1>2 DEF Shape
<1>5. e \notin U[near] /\ e \notin U[tmp] /\ tmp \notin U[inner] /\ tmp \notin U[outer]
  BY <1>1, <1>2, ShapeSelf
<1>6. \A k \in U[near] : k \notin U[tmp]
  BY <1>1, ShapeApart DEF Sides, Other
<1>7. \A k \in U[inner] : k \notin U[outer]
  BY <1>1, <1>2, ShapeApart DEF Sides, Other
<1>8. t.parent[e] # e /\ t.parent[e] # tmp
  <2>1. t.parent[e] # NULL => t.parent[e] # e /\ t.parent[e] \in M
                              /\ \E z \in Sides : t.kid[z][t.parent[e]] = e
    BY PointsOnce
  <2>2. e # NULL /\ tmp # NULL
    BY <1>2, ShapeSelf
  <2>3. t.parent[e] # tmp
    <3> SUFFICES ASSUME t.parent[e] = tmp PROVE FALSE
      OBVIOUS
    <3>1. PICK z \in Sides : t.kid[z][tmp] = e
      BY <2>1, <2>2
    <3>2. e \in U[tmp]
      <4>1. U[t.kid[z][tmp]] \subseteq U[tmp] /\ e \in U[e]
        BY <1>2, ShapeSelf
      <4> QED BY <3>1, <4>1
    <3> QED BY <1>5, <3>2
  <2> QED BY <2>1, <2>2, <2>3
<1>9. NULL \notin M
  BY ShapeSelf
<1> HIDE DEF tmp, inner, outer, near
<1>10. /\ {e, tmp} \cap {inner, outer, near} = {}
       /\ inner # NULL => inner # outer /\ inner # near
       /\ outer # NULL => outer # near
       /\ tmp # e /\ tmp \notin U[near]
  BY <1>2, <1>3, <1>5, <1>6, <1>7, <1>9
<1> QED BY <1>2, <1>3, <1>4, <1>5, <1>8, <1>10 DEF AroundIs, tmp, inner, outer, near

(* The subtrees after a rotation.                                          *)
Turned(t, U, e, s) ==
  LET tmp == t.kid[Other(s)][e]
  IN  [n \in Links |-> IF n = e THEN {e} \cup U[t.kid[s][e]] \cup U[t.kid[s][tmp]]
                       ELSE IF n = tmp THEN U[e] ELSE U[n]]

(* A rotation keeps a search tree one.                                     *)
LEMMA RotateShape ==
  ASSUME NEW t, NEW M, NEW U, Shape(t, M, U), NEW e \in M, NEW s \in Sides,
         t.kid[Other(s)][e] # NULL
  PROVE  Shape(RB_ROTATE(t, e, s), M, Turned(t, U, e, s))
<1> DEFINE r == RB_ROTATE(t, e, s)
           V == Turned(t, U, e, s)
           o == Other(s)
           tmp == t.kid[o][e]
           inner == t.kid[s][tmp]
           outer == t.kid[o][tmp]
           near == t.kid[s][e]
           p == t.parent[e]
<1>1. /\ r \in RBTrees /\ r.root = IF e = t.root THEN tmp ELSE t.root
      /\ \A z \in Sides, a \in Nodes :
           r.kid[z][a] = IF a = e /\ z = o THEN inner
                         ELSE IF a = tmp /\ z = s THEN e
                         ELSE IF a = p /\ t.kid[z][a] = e THEN tmp ELSE t.kid[z][a]
      /\ \A a \in Nodes : r.parent[a] = IF a = e THEN tmp ELSE IF a = tmp THEN p
                                        ELSE IF a = inner THEN e ELSE t.parent[a]
  BY RotateIs
<1>2. /\ tmp \in M /\ {inner, outer, near} \subseteq M \cup {NULL}
      /\ t.parent[tmp] = e
      /\ tmp # e /\ p # e /\ p # tmp
      /\ {e, tmp} \cap {inner, outer, near} = {}
      /\ inner # NULL => inner # outer /\ inner # near
      /\ outer # NULL => outer # near
      /\ U[e] = {e} \cup U[near] \cup U[tmp]
      /\ U[tmp] = {tmp} \cup U[inner] \cup U[outer]
  <2>1. AroundIs(t, M, U, e, s)
    BY Around
  <2> QED BY <2>1 DEF AroundIs
<1>3. /\ o \in Sides /\ o # s /\ Other(o) = s /\ \A z \in Sides : z = s \/ z = o
  BY OtherSide
<1>4. M \in SUBSET Nodes /\ NULL \notin M /\ U[NULL] = {} /\ e # NULL /\ tmp # NULL
  <2>1. M \in SUBSET Nodes /\ U[NULL] = {}
    BY DEF Shape
  <2>2. NULL \notin M
    BY ShapeSelf
  <2> HIDE DEF tmp
  <2> QED BY <1>2, <2>1, <2>2
<1>5. /\ \A n \in Links : V[n] = IF n = e THEN {e} \cup U[near] \cup U[inner]
                                 ELSE IF n = tmp THEN U[e] ELSE U[n]
      /\ V \in [Links -> SUBSET Nodes]
  <2>1. /\ U \in [Links -> SUBSET Nodes] /\ near \in Links /\ inner \in Links
        /\ e \in Links /\ e \in Nodes
    BY <1>2, <1>4 DEF Shape, Links
  <2>2. V = [n \in Links |-> IF n = e THEN {e} \cup U[near] \cup U[inner]
                             ELSE IF n = tmp THEN U[e] ELSE U[n]]
    BY Zenon DEF Turned
  <2> HIDE DEF V, near, inner, tmp
  <2>3. \A n \in Links : U[n] \in SUBSET Nodes
    BY <2>1
  <2>4. {e} \cup U[near] \cup U[inner] \in SUBSET Nodes /\ U[e] \in SUBSET Nodes
    BY <2>1, <2>3
  <2> QED BY <2>2, <2>3, <2>4
<1>6. \A n \in M, z \in Sides :
        /\ t.kid[z][n] \in M \cup {NULL}
        /\ t.kid[z][n] = e => n = p
        /\ t.kid[z][n] = tmp => n = e /\ z = o
  <2>1. \A n \in M, z \in Sides : t.kid[z][n] = e => n = p
    BY PointsOnce
  <2>2. \A n \in M, z \in Sides : t.kid[z][n] = tmp => n = e
    <3>1. tmp \in M
      BY <1>2
    <3>2. \A n \in M, z \in Sides : t.kid[z][n] = tmp => n = t.parent[tmp]
      <4> HIDE DEF tmp
      <4> QED BY <3>1, PointsOnce
    <3> QED BY <1>2, <3>2
  <2> QED BY <1>2, <1>3, <2>1, <2>2 DEF Shape
<1>7. /\ t.root \in M \cup {NULL} /\ U[t.root] = M /\ t.root # tmp
      /\ e = t.root <=> p = NULL
      /\ t.root # NULL => t.parent[t.root] = NULL
  <2>1. /\ t.root \in M \cup {NULL} /\ U[t.root] = M
        /\ t.root # NULL => t.parent[t.root] = NULL
    BY DEF Shape
  <2>2. e = t.root <=> p = NULL
    BY PointsOnce
  <2> HIDE DEF tmp, p
  <2> QED BY <1>2, <1>4, <2>1, <2>2
<1>8. \A n \in M : U[n] \subseteq M
  BY DEF Shape
<1>9. \A n \in M, z \in Sides : t.kid[z][n] # NULL => t.parent[t.kid[z][n]] = n
  BY DEF Shape
<1>a. p \in M \cup {NULL}
  BY PointsOnce
<1>b. M \cup {NULL} \subseteq Links
  BY <1>4 DEF Links
<1>c. e \in M
  OBVIOUS
<1>d. ASSUME NEW n \in M, NEW z \in Sides
      PROVE  \A m \in U[t.kid[z][n]] : m \in M /\ On(z, m, n)
  BY ShapeSides
<1>e. \A n \in M, z \in Sides :
        U[n] = {n} \cup U[t.kid[z][n]] \cup U[t.kid[Other(z)][n]]
  BY ShapeSides
<1>f. On(o, tmp, e)
  <2>1. tmp \in U[tmp]
    BY <1>2
  <2> QED BY <1>3, <1>c, <1>d, <2>1
<1> HIDE DEF r, V, o
<1>10. \A n \in M : V[n] \subseteq M
  BY <1>2, <1>5, <1>8, <1>b, <1>c
<1>11. \A n \in M, z \in Sides : r.kid[z][n] \in M \cup {NULL}
  <2>1. /\ M \subseteq Nodes /\ {e, tmp, inner} \subseteq M \cup {NULL}
        /\ \A n \in M, z \in Sides : t.kid[z][n] \in M \cup {NULL}
    BY <1>2, <1>4, <1>6, <1>c
  <2> HIDE DEF tmp, inner, outer, near, p
  <2> QED BY <1>1, <2>1
<1>12. r.root \in M \cup {NULL} /\ V[r.root] = M
  <2>1. CASE e = t.root
    <3>1. r.root = tmp /\ tmp \in M /\ tmp # e /\ tmp \in Links
      BY <1>1, <1>2, <1>b, <2>1
    <3> HIDE DEF tmp, inner, outer, near, p
    <3> QED BY <1>5, <1>7, <2>1, <3>1
  <2>2. CASE e # t.root
    BY <1>1, <1>5, <1>7, <1>b, <2>2
  <2> QED BY <2>1, <2>2
<1>13. r.root # NULL => r.parent[r.root] = NULL
  <2>1. CASE e = t.root
    <3>1. r.root = tmp /\ r.parent[tmp] = p /\ p = NULL
      <4>1. tmp \in Nodes /\ tmp # e
        BY <1>2, <1>4
      <4> HIDE DEF tmp, inner, outer, near, p
      <4> QED BY <1>1, <1>7, <2>1, <4>1
    <3> QED BY <3>1
  <2>2. CASE e # t.root
    <3>1. t.root # NULL => t.root # inner
      BY <1>2, <1>4, <1>7, <1>9, <1>3
    <3> QED BY <1>1, <1>4, <1>7, <2>2, <3>1
  <2> QED BY <2>1, <2>2
<1>14. /\ r.kid[s][e] = near /\ r.kid[o][e] = inner
       /\ r.kid[s][tmp] = e /\ r.kid[o][tmp] = outer
       /\ \A n \in M, z \in Sides : n # e /\ n # tmp =>
            r.kid[z][n] = IF t.kid[z][n] = e THEN tmp ELSE t.kid[z][n]
  <2>1. /\ t.kid[s][e] = near /\ t.kid[o][e] = tmp
        /\ t.kid[s][tmp] = inner /\ t.kid[o][tmp] = outer
    BY DEF o
  <2>2. e \in Nodes /\ tmp \in Nodes /\ tmp # e /\ p # e /\ p # tmp /\ M \subseteq Nodes
    BY <1>2, <1>4, <1>c
  <2> HIDE DEF tmp, inner, outer, near, p
  <2> QED BY <1>1, <1>3, <1>6, <2>1, <2>2
<1>15. /\ V[near] = U[near] /\ V[inner] = U[inner] /\ V[outer] = U[outer]
       /\ V[e] = {e} \cup U[near] \cup U[inner] /\ V[tmp] = U[e]
       /\ \A n \in M, z \in Sides : n # e /\ n # tmp => V[r.kid[z][n]] = U[t.kid[z][n]]
  <2>1. /\ V[near] = U[near] /\ V[inner] = U[inner] /\ V[outer] = U[outer]
        /\ V[e] = {e} \cup U[near] \cup U[inner] /\ V[tmp] = U[e]
    BY <1>2, <1>5, <1>b, <1>c
  <2>2. ASSUME NEW n \in M, NEW z \in Sides, n # e, n # tmp
        PROVE  V[r.kid[z][n]] = U[t.kid[z][n]]
    <3>1. CASE t.kid[z][n] = e
      BY <1>14, <2>1, <2>2, <3>1
    <3>2. CASE t.kid[z][n] # e
      <4>1. t.kid[z][n] # tmp /\ t.kid[z][n] \in Links
        BY <1>6, <1>b, <2>2
      <4> QED BY <1>5, <1>14, <2>2, <3>2, <4>1
    <3> QED BY <3>1, <3>2
  <2> QED BY <2>1, <2>2
<1>16. \A n \in M : \E z \in Sides : V[n] = {n} \cup V[r.kid[z][n]] \cup V[r.kid[Other(z)][n]]
  <2> TAKE n \in M
  <2>1. CASE n = e
    <3>1. V[e] = {e} \cup V[r.kid[s][e]] \cup V[r.kid[o][e]]
      BY <1>14, <1>15
    <3> QED BY <2>1, <3>1 DEF o
  <2>2. CASE n = tmp
    <3>1. V[tmp] = {tmp} \cup V[r.kid[s][tmp]] \cup V[r.kid[o][tmp]]
      BY <1>2, <1>14, <1>15
    <3> QED BY <2>2, <3>1 DEF o
  <2>3. CASE n # e /\ n # tmp
    <3>1. V[n] = U[n]
      BY <1>5, <1>b, <2>3
    <3>2. V[r.kid[s][n]] = U[t.kid[s][n]] /\ V[r.kid[o][n]] = U[t.kid[o][n]]
      BY <1>3, <1>15, <2>3
    <3>3. U[n] = {n} \cup U[t.kid[s][n]] \cup U[t.kid[Other(s)][n]]
      BY <1>e
    <3> QED BY <3>1, <3>2, <3>3 DEF o
  <2> QED BY <2>1, <2>2, <2>3
<1>17. \A n \in M, z \in Sides : \A m \in V[r.kid[z][n]] : On(z, m, n)
  <2> TAKE n \in M, z \in Sides
  <2> TAKE m \in V[r.kid[z][n]]
  <2>1. CASE n # e /\ n # tmp
    BY <1>15, <1>d, <2>1
  <2>2. CASE n = e
    <3>1. CASE z = s
      BY <1>14, <1>15, <1>c, <1>d, <2>2, <3>1
    <3>2. CASE z = o
      <4>1. m \in U[tmp]
        BY <1>2, <1>14, <1>15, <2>2, <3>2
      <4> QED BY <1>3, <1>c, <1>d, <2>2, <3>2, <4>1
    <3> QED BY <1>3, <3>1, <3>2
  <2>3. CASE n = tmp
    <3>1. CASE z = o
      BY <1>2, <1>3, <1>14, <1>15, <1>d, <2>3, <3>1
    <3>2. CASE z = s
      <4>1. On(s, e, tmp)
        <5>1. Other(o) = s /\ o \in Sides /\ e \in M /\ tmp \in M /\ M \in SUBSET Nodes
          BY <1>2, <1>3, <1>4, <1>c
        <5> HIDE DEF tmp, inner, outer, near, p
        <5> QED BY <1>f, <5>1, OnOrder
      <4>2. m = e \/ m \in U[near] \/ m \in U[inner]
        BY <1>14, <1>15, <2>3, <3>2
      <4>3. m \in U[inner] => On(s, m, tmp)
        BY <1>2, <1>d
      <4>4. m \in U[near] => m \in M /\ On(s, m, e)
        BY <1>c, <1>d
      <4>5. m \in U[near] => On(s, m, tmp)
        BY <1>2, <1>4, <1>c, <4>1, <4>4, OnOrder
      <4> QED BY <2>3, <3>2, <4>1, <4>2, <4>3, <4>5
    <3> QED BY <1>3, <3>1, <3>2
  <2> QED BY <2>1, <2>2, <2>3
<1>18. \A n \in M, z \in Sides : r.kid[z][n] # NULL => r.parent[r.kid[z][n]] = n
  <2> TAKE n \in M, z \in Sides
  <2> HAVE r.kid[z][n] # NULL
  <2>1. CASE n = e
    <3>1. near # NULL => near \in Nodes /\ t.parent[near] = e
      BY <1>2, <1>4, <1>9, <1>c
    <3>2. inner # NULL => inner \in Nodes
      BY <1>2, <1>4
    <3>3. CASE z = s
      <4>1. r.kid[z][n] = near /\ near # NULL /\ near # tmp /\ near # inner /\ near # e
        BY <1>2, <1>14, <2>1, <3>3
      <4>2. r.parent[near] = t.parent[near]
        BY <1>1, <3>1, <4>1
      <4> QED BY <2>1, <3>1, <4>1, <4>2
    <3>4. CASE z = o
      <4>1. r.kid[z][n] = inner /\ inner # NULL /\ inner # e /\ inner # tmp
        BY <1>2, <1>14, <2>1, <3>4
      <4>2. r.parent[inner] = e
        BY <1>1, <3>2, <4>1
      <4> QED BY <2>1, <4>1, <4>2
    <3> QED BY <1>3, <3>3, <3>4
  <2>2. CASE n = tmp
    <3>1. outer # NULL => outer \in Nodes /\ t.parent[outer] = tmp
      BY <1>2, <1>3, <1>4, <1>9
    <3>2. CASE z = s
      <4>1. r.kid[z][n] = e /\ r.parent[e] = tmp
        BY <1>1, <1>4, <1>14, <1>c, <2>2, <3>2
      <4> QED BY <2>2, <4>1
    <3>3. CASE z = o
      <4>1. r.kid[z][n] = outer /\ outer # NULL /\ outer # e /\ outer # tmp /\ outer # inner
        BY <1>2, <1>14, <2>2, <3>3
      <4>2. r.parent[outer] = t.parent[outer]
        BY <1>1, <3>1, <4>1
      <4> QED BY <2>2, <3>1, <4>1, <4>2
    <3> QED BY <1>3, <3>2, <3>3
  <2>3. CASE n # e /\ n # tmp
    <3>1. CASE t.kid[z][n] = e
      <4>1. n = p /\ r.kid[z][n] = tmp
        BY <1>6, <1>14, <2>3, <3>1
      <4> QED BY <1>1, <1>2, <1>4, <4>1
    <3>2. CASE t.kid[z][n] # e
      <4> DEFINE k == t.kid[z][n]
      <4>1. r.kid[z][n] = k
        BY <1>14, <2>3, <3>2
      <4>2. k \in Nodes /\ t.parent[k] = n /\ k # tmp
        BY <1>4, <1>6, <1>9, <2>3, <4>1
      <4>3. k # inner
        <5>1. inner # NULL => t.parent[inner] = tmp
          BY <1>2, <1>9
        <5> QED BY <2>3, <4>1, <4>2, <5>1
      <4> HIDE DEF k
      <4> QED BY <1>1, <3>2, <4>1, <4>2, <4>3 DEF k
    <3> QED BY <3>1, <3>2
  <2> QED BY <2>1, <2>2, <2>3
<1>19. M \in SUBSET Nodes /\ V \in [Links -> SUBSET Nodes] /\ V[NULL] = {} /\ r \in RBTrees
  <2>1. NULL \in Links
    BY DEF Links
  <2> QED BY <1>1, <1>4, <1>5, <2>1
<1> HIDE DEF tmp, inner, outer, near, p
<1>20. Shape(r, M, V)
  BY <1>10, <1>11, <1>12, <1>13, <1>16, <1>17, <1>18, <1>19, ShapeFrom
<1> QED BY <1>20 DEF r, V

(* All the fields of a node.                                               *)
LEMMA RBSetIs ==
  ASSUME NEW t \in RBTrees, NEW e \in Nodes, NEW l \in Links, NEW k \in Links,
         NEW p \in Links, NEW c \in Colors
  PROVE  LET r == RB_SET(t, e, l, k, p, c)
         IN  /\ r \in RBTrees /\ r.root = t.root
             /\ r.kid["left"][e] = l /\ r.kid["right"][e] = k
             /\ r.parent[e] = p /\ r.color[e] = c
             /\ \A a \in Nodes \ {e} : /\ r.parent[a] = t.parent[a] /\ r.color[a] = t.color[a]
                                       /\ \A z \in Sides : r.kid[z][a] = t.kid[z][a]
<1> DEFINE t1 == SetKid(t, "left", e, l)
           t2 == SetKid(t1, "right", e, k)
           t3 == SetParent(t2, e, p)
           t4 == Paint(t3, e, c)
<1>1. RB_SET(t, e, l, k, p, c) = t4
  BY DEF RB_SET
<1>2. "left" \in Sides /\ "right" \in Sides /\ "left" # "right" /\ e \in Links
  BY DEF Sides, Links
<1>3. /\ t1 \in RBTrees /\ t1.parent = t.parent /\ t1.color = t.color /\ t1.root = t.root
      /\ \A z \in Sides, a \in Nodes : t1.kid[z][a] = IF z = "left" /\ a = e THEN l ELSE t.kid[z][a]
  BY <1>2, SetKidIs
<1> HIDE DEF t1
<1>4. /\ t2 \in RBTrees /\ t2.parent = t1.parent /\ t2.color = t1.color /\ t2.root = t1.root
      /\ \A z \in Sides, a \in Nodes : t2.kid[z][a] = IF z = "right" /\ a = e THEN k ELSE t1.kid[z][a]
  BY <1>2, <1>3, SetKidIs
<1> HIDE DEF t2
<1>5. /\ t3 \in RBTrees /\ t3.kid = t2.kid /\ t3.color = t2.color /\ t3.root = t2.root
      /\ \A a \in Nodes : t3.parent[a] = IF a = e THEN p ELSE t2.parent[a]
  <2>1. t2 \in RBTrees /\ e \in Links /\ p \in Links
    BY <1>2, <1>4
  <2> QED BY <2>1, SetParentIs
<1> HIDE DEF t3
<1>6. /\ t4 \in RBTrees /\ t4.kid = t3.kid /\ t4.parent = t3.parent /\ t4.root = t3.root
      /\ \A a \in Nodes : t4.color[a] = IF a = e THEN c ELSE t3.color[a]
  <2>1. t3 \in RBTrees /\ e \in Nodes /\ c \in Colors
    BY <1>5
  <2> QED BY <2>1, PaintIs
<1> HIDE DEF t4
<1> QED BY <1>1, <1>2, <1>3, <1>4, <1>5, <1>6

(* A shape is in the links of the nodes of the tree.                       *)
LEMMA SameShape ==
  ASSUME NEW t, NEW M, NEW U, Shape(t, M, U), NEW r \in RBTrees, r.root = t.root,
         \A n \in M : /\ r.parent[n] = t.parent[n]
                      /\ \A s \in Sides : r.kid[s][n] = t.kid[s][n]
  PROVE  Shape(r, M, U)
<1>1. "left" \in Sides /\ "right" \in Sides
  BY DEF Sides
<1>2. \A n \in M, s \in Sides : r.kid[s][n] # NULL => r.parent[r.kid[s][n]] = n
  BY DEF Shape
<1>3. r.root # NULL => r.parent[r.root] = NULL
  BY DEF Shape
<1>4. \A n \in M : /\ U[n] \subseteq M
                   /\ U[n] = {n} \cup U[r.kid["left"][n]] \cup U[r.kid["right"][n]]
                   /\ \A m \in U[r.kid["left"][n]] : NodeKey[m] < NodeKey[n]
                   /\ \A m \in U[r.kid["right"][n]] : NodeKey[m] > NodeKey[n]
  BY <1>1 DEF Shape
<1>5. \A n \in M, s \in Sides : r.kid[s][n] \in M \cup {NULL}
  BY DEF Shape
<1> QED BY <1>2, <1>3, <1>4, <1>5 DEF Shape

LEMMA PaintShape ==
  ASSUME NEW t, NEW M, NEW U, Shape(t, M, U), NEW n \in Nodes, NEW c \in Colors
  PROVE  Shape(Paint(t, n, c), M, U)
<1>1. t \in RBTrees
  BY DEF Shape
<1> DEFINE r == Paint(t, n, c)
<1>2. r \in RBTrees /\ r.kid = t.kid /\ r.parent = t.parent /\ r.root = t.root
  BY <1>1, PaintIs
<1> HIDE DEF r
<1>3. Shape(r, M, U)
  BY <1>2, SameShape
<1> QED BY <1>3 DEF r

(* A search tree is what RBOrdered asks for.                               *)
LEMMA ShapeOrdered ==
  ASSUME NEW U, Shape(rb, members, U)
  PROVE  RBOrdered
<1>1. Under(rb, rb.root) = members
  <2>1. rb.root \in members \cup {NULL} /\ U[rb.root] = members
    BY DEF Shape
  <2> QED BY <2>1, ShapeUnder
<1>2. ASSUME NEW n \in members
      PROVE  /\ \A m \in Under(rb, rb.kid["left"][n]) : NodeKey[m] < NodeKey[n]
             /\ \A m \in Under(rb, rb.kid["right"][n]) : NodeKey[m] > NodeKey[n]
  <2>1. rb.kid["left"][n] \in members \cup {NULL} /\ rb.kid["right"][n] \in members \cup {NULL}
    BY DEF Shape, Sides
  <2>2. /\ Under(rb, rb.kid["left"][n]) = U[rb.kid["left"][n]]
        /\ Under(rb, rb.kid["right"][n]) = U[rb.kid["right"][n]]
    BY <2>1, ShapeUnder
  <2> QED BY <2>2 DEF Shape
<1>3. /\ rb.root # NULL => rb.parent[rb.root] = NULL
      /\ \A n \in members, s \in Sides :
           rb.kid[s][n] # NULL => rb.parent[rb.kid[s][n]] = n
  BY DEF Shape
<1> QED BY <1>1, <1>2, <1>3 DEF RBOrdered, Ordered

(* The subtree of a kid is smaller.                                        *)
LEMMA KidSmaller ==
  ASSUME NEW t, NEW M, NEW U, Shape(t, M, U), NEW n \in M, NEW s \in Sides,
         t.kid[s][n] # NULL
  PROVE  /\ Cardinality(U[n]) \in Nat /\ Cardinality(U[t.kid[s][n]]) \in Nat
         /\ Cardinality(U[t.kid[s][n]]) < Cardinality(U[n])
BY ShapeForest, ForestKidSmaller

(* Furthest goes down to the last node on its side.                        *)
LEMMA FurthestIs ==
  ASSUME NEW t, NEW M, NEW U, Shape(t, M, U), NEW n \in M, NEW s \in Sides
  PROVE  LET f == Furthest(t, n, s)
         IN  /\ f \in U[n] /\ f \in M /\ t.kid[s][f] = NULL
             /\ \A m \in U[n] : m = f \/ On(Other(s), m, f)
<1>1. Linked(t) /\ Forest(t, M, U)
  BY ShapeForest, TreeType DEF Shape
<1> QED BY <1>1, ForestFurthest

(* One round of Descend.                                                   *)
Places == [tmp : Links, parent : Links, found : Links]
DescendRound(t, e, d) ==
  IF d.tmp = NULL \/ d.found # NULL THEN d
  ELSE IF NodeKey[e] = NodeKey[d.tmp] THEN [d EXCEPT !.found = d.tmp]
  ELSE [tmp |-> t.kid[KeySide(e, d.tmp)][d.tmp], parent |-> d.tmp, found |-> NULL]

LEMMA DescendRoundIs ==
  ASSUME NEW t, Linked(t), NEW e \in Nodes, NEW d \in Places
  PROVE  LET r == DescendRound(t, e, d)
         IN  /\ r \in Places
             /\ d.tmp = NULL \/ d.found # NULL => r = d
             /\ ~ (d.tmp = NULL \/ d.found # NULL) =>
                  IF NodeKey[e] = NodeKey[d.tmp]
                  THEN r.found = d.tmp /\ r.tmp = d.tmp /\ r.parent = d.parent
                  ELSE /\ r.tmp = t.kid[KeySide(e, d.tmp)][d.tmp]
                       /\ r.parent = d.tmp /\ r.found = NULL
<1>1. \A m \in Links : KeySide(e, m) \in Sides
  BY DEF KeySide, Sides
<1>2. d.tmp \in Links /\ d.parent \in Links /\ d.found \in Links /\ NULL \in Links
  BY DEF Places, Links
<1>3. d.tmp # NULL => t.kid[KeySide(e, d.tmp)][d.tmp] \in Links
  BY <1>1, <1>2 DEF Linked, Links
<1>4. CASE d.tmp = NULL \/ d.found # NULL
  BY <1>4 DEF DescendRound
<1>5. CASE ~ (d.tmp = NULL \/ d.found # NULL) /\ NodeKey[e] = NodeKey[d.tmp]
  <2>1. DescendRound(t, e, d) = [d EXCEPT !.found = d.tmp]
    BY <1>5 DEF DescendRound
  <2> QED BY <1>2, <1>5, <2>1 DEF Places
<1>6. CASE ~ (d.tmp = NULL \/ d.found # NULL) /\ NodeKey[e] # NodeKey[d.tmp]
  <2>1. DescendRound(t, e, d)
          = [tmp |-> t.kid[KeySide(e, d.tmp)][d.tmp], parent |-> d.tmp, found |-> NULL]
    BY <1>6 DEF DescendRound
  <2> QED BY <1>2, <1>3, <1>6, <2>1 DEF Places
<1> QED BY <1>4, <1>5, <1>6

(* The loop of Descend, round by round.                                    *)
LEMMA DescendRounds ==
  ASSUME NEW t, Linked(t), t.root \in Links, NEW e \in Nodes
  PROVE  \E x \in [0..Rounds -> Places] :
           /\ x[0] = [tmp |-> t.root, parent |-> NULL, found |-> NULL]
           /\ Descend(t, e) = x[Rounds]
           /\ \A i \in 0..Rounds : i < Rounds => x[i + 1] = DescendRound(t, e, x[i])
<1> DEFINE n == [tmp |-> t.root, parent |-> NULL, found |-> NULL]
           step(d) == DescendRound(t, e, d)
           F == [d \in Places |-> step(d)]
           Eq(x) == x = [i \in 0..Rounds |-> IF i = 0 THEN n ELSE step(x[i - 1])]
           z == CHOOSE x : Eq(x)
<1>1. Descend(t, e) = z[Rounds]
  BY Zenon DEF Descend, Loop, Rounds, DescendRound
<1>2. F \in [Places -> Places]
  BY DescendRoundIs
<1>3. Rounds \in Nat /\ n \in Places
  BY RoundsType DEF Places, Links
<1>4. PICK x : IteratesOf(x, Rounds, Places, F, n)
  <2> HIDE DEF F, n
  <2> QED BY <1>2, <1>3, Iterates
<1> HIDE DEF n
<1>5. Eq(x)
  <2>1. \A i \in 1..Rounds : F[x[i - 1]] = step(x[i - 1])
    <3>1. \A i \in 1..Rounds : x[i - 1] \in Places
      BY <1>3, <1>4 DEF IteratesOf
    <3> HIDE DEF step
    <3> QED BY <3>1
  <2> HIDE DEF F, step
  <2> QED BY <1>4, <2>1 DEF IteratesOf
<1>6. Eq(z)
  <2> HIDE DEF Eq
  <2> QED BY <1>5
<1>7. z = [i \in 0..Rounds |-> IF i = 0 THEN n ELSE step(z[i - 1])]
  BY <1>6
<1> HIDE DEF z
<1> DEFINE S == {i \in 0..Rounds : z[i] \in Places}
<1>8. \A i \in 0..Rounds : i < Rounds => z[i + 1] = step(z[i])
  <2> TAKE i \in 0..Rounds
  <2> HAVE i < Rounds
  <2>1. i + 1 \in 0..Rounds /\ i + 1 # 0 /\ (i + 1) - 1 = i
    BY <1>3
  <2> HIDE DEF step
  <2> QED BY <1>7, <2>1
<1>9. z[0] = n
  <2> HIDE DEF step
  <2>1. 0 \in 0..Rounds
    BY <1>3
  <2> QED BY <1>7, <2>1
<1>10. \A i \in 0..Rounds : i \in S
  <2>1. 0 \in S
    BY <1>3, <1>9
  <2>2. \A i \in 0..Rounds : i < Rounds /\ i \in S => i + 1 \in S
    BY <1>3, <1>8, DescendRoundIs
  <2> HIDE DEF S
  <2> QED BY <1>3, <2>1, <2>2, Counting
<1>11. z \in [0..Rounds -> Places]
  <2> HIDE DEF step
  <2> QED BY <1>7, <1>10
<1> QED BY <1>1, <1>8, <1>9, <1>11 DEF n

(* What Descend has done so far: the nodes it has passed lie on the sides  *)
(* it went, and the key is nowhere but below.                              *)
Descending(t, M, U, e, d) ==
  /\ d.tmp \in M \cup {NULL} /\ d.parent \in M \cup {NULL}
  /\ d.found \in M \cup {NULL} /\ (d.found # NULL => NodeKey[d.found] = NodeKey[e])
  /\ d.parent = NULL => d.tmp = t.root
  /\ d.parent # NULL => d.tmp = t.kid[KeySide(e, d.parent)][d.parent]
  /\ \A a \in M : d.parent \in U[a] => /\ NodeKey[a] # NodeKey[e]
                                       /\ a # d.parent => d.parent \in U[t.kid[KeySide(e, a)][a]]
  /\ \A m \in M : NodeKey[m] = NodeKey[e] => m \in U[d.tmp]

(* Every round of Descend goes on so.                                      *)
LEMMA DescendGoesOn ==
  ASSUME NEW t, NEW M, NEW U, Shape(t, M, U), NEW e \in Nodes,
         NEW d \in Places, Descending(t, M, U, e, d)
  PROVE  /\ Descending(t, M, U, e, DescendRound(t, e, d))
         /\ ~ (d.tmp = NULL \/ d.found # NULL) =>
              LET r == DescendRound(t, e, d)
              IN  \/ r.tmp = NULL \/ r.found # NULL
                  \/ /\ Cardinality(U[d.tmp]) \in Nat /\ Cardinality(U[r.tmp]) \in Nat
                     /\ Cardinality(U[r.tmp]) < Cardinality(U[d.tmp])
<1> DEFINE r == DescendRound(t, e, d)
           q == d.tmp
           s == KeySide(e, q)
           k == t.kid[s][q]
<1>1. t \in RBTrees /\ Linked(t) /\ M \in SUBSET Nodes /\ NULL \notin M
  <2>1. t \in RBTrees
    BY DEF Shape
  <2> QED BY <2>1, TreeType, ShapeSelf DEF Shape
<1>2. /\ r \in Places
      /\ q = NULL \/ d.found # NULL => r = d
      /\ ~ (q = NULL \/ d.found # NULL) =>
           IF NodeKey[e] = NodeKey[q]
           THEN r.found = q /\ r.tmp = q /\ r.parent = d.parent
           ELSE r.tmp = k /\ r.parent = q /\ r.found = NULL
  BY <1>1, DescendRoundIs
<1> HIDE DEF r
<1>3. s \in Sides /\ \A a \in M : KeySide(e, a) \in Sides
  BY DEF KeySide, Sides
<1>4. CASE q = NULL \/ d.found # NULL
  BY <1>2, <1>4 DEF r
<1>5. CASE q # NULL /\ d.found = NULL /\ NodeKey[e] = NodeKey[q]
  <2>1. q \in M /\ r.found = q /\ r.tmp = q /\ r.parent = d.parent
    BY <1>2, <1>5 DEF Descending
  <2>2. Descending(t, M, U, e, r)
    BY <1>5, <2>1 DEF Descending
  <2> QED BY <1>5, <2>1, <2>2 DEF r
<1>6. CASE q # NULL /\ d.found = NULL /\ NodeKey[e] # NodeKey[q]
  <2>1. q \in M /\ r.tmp = k /\ r.parent = q /\ r.found = NULL
    BY <1>2, <1>6 DEF Descending
  <2>2. /\ U[q] = {q} \cup U[k] \cup U[t.kid[Other(s)][q]]
        /\ k \in M \cup {NULL} /\ q \in U[q]
    BY <1>3, <2>1, ShapeSides, ShapeSelf
  <2>3. ASSUME NEW a \in M, q \in U[a]
        PROVE  NodeKey[a] # NodeKey[e] /\ (a # q => q \in U[t.kid[KeySide(e, a)][a]])
    <3>1. CASE a = q
      BY <1>6, <3>1
    <3>2. CASE a # q
      <4> DEFINE p == d.parent
      <4>1. p # NULL
        <5> SUFFICES ASSUME p = NULL PROVE FALSE
          OBVIOUS
        <5>1. q = t.root /\ a \in U[q]
          BY DEF Descending, Shape
        <5> QED BY <2>1, <2>3, <3>2, <5>1, ShapeApart
      <4>2. p \in M /\ q = t.kid[KeySide(e, p)][p] /\ t.parent[q] = p
        BY <1>3, <1>6, <4>1 DEF Descending, Shape
      <4>3. p \in U[a]
        BY <2>3, <3>2, <4>2, ShapeUpwards
      <4>4. NodeKey[a] # NodeKey[e] /\ (a # p => p \in U[t.kid[KeySide(e, a)][a]])
        BY <4>3 DEF Descending
      <4>5. CASE a = p
        BY <2>2, <4>2, <4>4, <4>5
      <4>6. CASE a # p
        <5> DEFINE b == t.kid[KeySide(e, a)][a]
        <5>1. p \in U[b] /\ b \in M
          <6>1. U[NULL] = {} /\ b \in M \cup {NULL} /\ p \in U[b]
            BY <1>3, <4>4, <4>6 DEF Shape
          <6> QED BY <6>1
        <5>2. U[p] \subseteq U[b]
          BY <5>1, ShapeTransitive
        <5>3. q \in U[p]
          <6>1. U[t.kid[KeySide(e, p)][p]] \subseteq U[p]
            <7>1. KeySide(e, p) \in Sides /\ p \in M
              BY <1>3, <4>2
            <7> QED BY <7>1, ShapeSelf
          <6> QED BY <2>2, <4>2, <6>1
        <5> QED BY <4>4, <5>2, <5>3
      <4> QED BY <4>5, <4>6
    <3> QED BY <3>1, <3>2
  <2>4. ASSUME NEW m \in M, NodeKey[m] = NodeKey[e] PROVE m \in U[k]
    <3>1. m \in U[q] /\ m # q
      BY <1>6, <2>4 DEF Descending
    <3>2. m \notin U[t.kid[Other(s)][q]]
      <4> SUFFICES ASSUME m \in U[t.kid[Other(s)][q]] PROVE FALSE
        OBVIOUS
      <4>1. On(Other(s), m, q) /\ Other(s) \in Sides
        BY <1>3, <2>1, OtherSide, ShapeSides
      <4>2. NodeKey[m] \in Int /\ NodeKey[q] \in Int /\ NodeKey[e] \in Int
        BY <1>1, <2>1, NodesAssumption
      <4> QED BY <2>4, <4>1, <4>2 DEF On, KeySide, Other
    <3> QED BY <2>2, <3>1, <3>2
  <2>5. Descending(t, M, U, e, r)
    <3>1. /\ r.tmp \in M \cup {NULL} /\ r.parent \in M /\ r.parent # NULL /\ r.found = NULL
          /\ r.tmp = t.kid[KeySide(e, r.parent)][r.parent]
      BY <1>1, <2>1, <2>2
    <3>2. \A a \in M : r.parent \in U[a] =>
            NodeKey[a] # NodeKey[e] /\ (a # r.parent => r.parent \in U[t.kid[KeySide(e, a)][a]])
      BY <2>1, <2>3
    <3>3. \A m \in M : NodeKey[m] = NodeKey[e] => m \in U[r.tmp]
      BY <2>1, <2>4
    <3> QED BY <3>1, <3>2, <3>3 DEF Descending
  <2>6. k = NULL \/ ( /\ Cardinality(U[q]) \in Nat /\ Cardinality(U[k]) \in Nat
                      /\ Cardinality(U[k]) < Cardinality(U[q]) )
    BY <1>3, <2>1, KidSmaller
  <2> QED BY <2>1, <2>5, <2>6 DEF r
<1> QED BY <1>4, <1>5, <1>6

(* Descend finds the key if it is there, and else where it belongs.        *)
LEMMA DescendIs ==
  ASSUME NEW t, NEW M, NEW U, Shape(t, M, U), NEW e \in Nodes
  PROVE  LET d == Descend(t, e)
         IN  d \in Places /\ Descending(t, M, U, e, d) /\ (d.tmp = NULL \/ d.found # NULL)
<1>1. t \in RBTrees /\ Linked(t) /\ t.root \in Links /\ M \subseteq Nodes /\ NULL \notin M
  <2>1. t \in RBTrees
    BY DEF Shape
  <2> QED BY <2>1, TreeType, ShapeSelf DEF Shape
<1>2. PICK x \in [0..Rounds -> Places] :
        /\ x[0] = [tmp |-> t.root, parent |-> NULL, found |-> NULL]
        /\ Descend(t, e) = x[Rounds]
        /\ \A i \in 0..Rounds : i < Rounds => x[i + 1] = DescendRound(t, e, x[i])
  BY <1>1, DescendRounds
<1>3. Rounds \in Nat /\ Cardinality(Nodes) \in Nat /\ Rounds = Cardinality(Nodes) + 1
  BY RoundsType DEF Rounds
<1> DEFINE Stopped(d) == d.tmp = NULL \/ d.found # NULL
           Size(d) == Cardinality(U[d.tmp])
           Good(d) == Descending(t, M, U, e, d)
           S == {i \in 0..Rounds : /\ Good(x[i])
                                   /\ Stopped(x[i]) \/ i + Size(x[i]) <= Cardinality(Nodes)}
<1>4. 0 \in S
  <2>1. x[0].tmp = t.root /\ x[0].parent = NULL /\ x[0].found = NULL
    BY <1>2
  <2>2. Good(x[0])
    <3>1. \A a \in M : NULL \notin U[a]
      BY <1>1 DEF Shape
    <3> HIDE DEF Places
    <3> QED BY <2>1, <3>1 DEF Descending, Shape
  <2>3. Size(x[0]) <= Cardinality(Nodes) /\ Size(x[0]) \in Nat
    <3>1. U[t.root] = M
      BY DEF Shape
    <3> QED BY <1>1, <2>1, <3>1, NodesAssumption, FS_Subset, FS_CardinalityType
  <2> HIDE DEF Good, Size, Stopped
  <2> QED BY <1>3, <2>2, <2>3
<1>5. ASSUME NEW i \in 0..Rounds, i < Rounds, i \in S PROVE i + 1 \in S
  <2>1. i + 1 \in 0..Rounds /\ i \in Nat
    BY <1>3, <1>5
  <2>2. x[i] \in Places /\ Good(x[i]) /\ (Stopped(x[i]) \/ i + Size(x[i]) <= Cardinality(Nodes))
    BY <1>5
  <2>3. x[i + 1] = DescendRound(t, e, x[i])
    BY <1>2, <1>5
  <2>4. Good(x[i + 1])
    BY <2>2, <2>3, DescendGoesOn
  <2>5. CASE Stopped(x[i])
    <3>1. x[i + 1] = x[i]
      BY <2>3, <2>5 DEF DescendRound
    <3> HIDE DEF Good, Size, Stopped
    <3> QED BY <2>1, <2>4, <2>5, <3>1
  <2>6. CASE ~ Stopped(x[i])
    <3>1. Stopped(x[i + 1]) \/ (Size(x[i]) \in Nat /\ Size(x[i + 1]) \in Nat /\ Size(x[i + 1]) < Size(x[i]))
      BY <2>2, <2>3, <2>6, DescendGoesOn
    <3> HIDE DEF Good, Size, Stopped
    <3> QED BY <1>3, <2>1, <2>2, <2>4, <2>6, <3>1
  <2> QED BY <2>5, <2>6
<1>6. Rounds \in S
  <2>1. \A i \in 0..Rounds : i \in S
    <3> HIDE DEF S
    <3> QED BY <1>3, <1>4, <1>5, Counting
  <2> QED BY <1>3, <2>1
<1>7. Good(x[Rounds]) /\ (Stopped(x[Rounds]) \/ Rounds + Size(x[Rounds]) <= Cardinality(Nodes))
      /\ x[Rounds] \in Places
  BY <1>3, <1>6
<1>8. Stopped(x[Rounds])
  <2>1. x[Rounds].tmp # NULL => Size(x[Rounds]) \in Nat
    <3>1. x[Rounds].tmp \in M \cup {NULL}
      BY <1>7 DEF Descending
    <3> QED BY <3>1, ShapeSelf
  <2>2. x[Rounds].tmp = NULL => Stopped(x[Rounds])
    OBVIOUS
  <2> HIDE DEF Size, Stopped
  <2> QED BY <1>3, <1>7, <2>1, <2>2
<1> QED BY <1>2, <1>7, <1>8

(* A node with a key unlike n's is on the side of n where it is looked for. *)
LEMMA KeySideOn ==
  ASSUME NEW e \in Nodes, NEW n \in Nodes
  PROVE  /\ KeySide(e, n) \in Sides
         /\ NodeKey[n] # NodeKey[e] => On(KeySide(e, n), e, n)
<1>1. NodeKey[e] \in Int /\ NodeKey[n] \in Int
  BY NodesAssumption
<1> QED BY <1>1 DEF KeySide, On, Sides

LEMMA ApartSides ==
  ASSUME NEW t, NEW M, NEW U, Shape(t, M, U), NEW n \in M, NEW s \in Sides
  PROVE  \A k \in U[t.kid[s][n]] : k \notin U[t.kid[Other(s)][n]]
<1>1. \A k \in U[t.kid["left"][n]] : k \notin U[t.kid["right"][n]]
  BY ShapeApart
<1> QED BY <1>1 DEF Sides, Other

(* A new node hangs from p, or is the root.                                *)
HangLeaf(t, e, p) ==
  IF p = NULL THEN [RB_SET(t, e, NULL, NULL, p, "RED") EXCEPT !.root = e]
  ELSE SetKid(RB_SET(t, e, NULL, NULL, p, "RED"), KeySide(e, p), p, e)

LEMMA HangIs ==
  ASSUME NEW t \in RBTrees, NEW e \in Nodes, NEW p \in Links, p # e
  PROVE  LET r == HangLeaf(t, e, p)
         IN  /\ r \in RBTrees /\ r.root = IF p = NULL THEN e ELSE t.root
             /\ \A a \in Nodes : /\ r.parent[a] = IF a = e THEN p ELSE t.parent[a]
                                 /\ r.color[a] = IF a = e THEN "RED" ELSE t.color[a]
             /\ \A z \in Sides, a \in Nodes :
                  r.kid[z][a] = IF a = e THEN NULL
                                ELSE IF a = p /\ z = KeySide(e, p) THEN e ELSE t.kid[z][a]
<1> DEFINE set == RB_SET(t, e, NULL, NULL, p, "RED")
<1>1. NULL \in Links /\ "RED" \in Colors /\ NULL \notin Nodes /\ e \in Links
  BY NodesAssumption DEF Links, Colors
<1>2. /\ set \in RBTrees /\ set.root = t.root
      /\ set.kid["left"][e] = NULL /\ set.kid["right"][e] = NULL
      /\ set.parent[e] = p /\ set.color[e] = "RED"
      /\ \A a \in Nodes \ {e} : /\ set.parent[a] = t.parent[a] /\ set.color[a] = t.color[a]
                                /\ \A z \in Sides : set.kid[z][a] = t.kid[z][a]
  BY <1>1, RBSetIs
<1> HIDE DEF set
<1>3. \A z \in Sides, a \in Nodes : set.kid[z][a] = IF a = e THEN NULL ELSE t.kid[z][a]
  BY <1>2 DEF Sides
<1>4. CASE p = NULL
  <2> DEFINE r == [set EXCEPT !.root = e]
  <2>1. HangLeaf(t, e, p) = r
    BY <1>4 DEF HangLeaf, set
  <2>2. /\ r \in RBTrees /\ r.kid = set.kid /\ r.parent = set.parent
        /\ r.color = set.color /\ r.root = e
    BY <1>1, <1>2, SetRootIs
  <2> HIDE DEF r
  <2> QED BY <1>1, <1>2, <1>3, <1>4, <2>1, <2>2
<1>5. CASE p # NULL
  <2> DEFINE r == SetKid(set, KeySide(e, p), p, e)
  <2>1. HangLeaf(t, e, p) = r
    BY <1>5 DEF HangLeaf, set
  <2>2. p \in Nodes /\ KeySide(e, p) \in Sides
    BY <1>5, KeySideOn DEF Links
  <2>3. /\ r \in RBTrees /\ r.parent = set.parent /\ r.color = set.color /\ r.root = set.root
        /\ \A z \in Sides, a \in Nodes :
             r.kid[z][a] = IF z = KeySide(e, p) /\ a = p THEN e ELSE set.kid[z][a]
    BY <1>1, <1>2, <2>2, SetKidIs
  <2> HIDE DEF r
  <2> QED BY <1>2, <1>3, <1>5, <2>1, <2>3
<1> QED BY <1>4, <1>5

(* p is where the key of e belongs.                                        *)
BelongsAt(t, M, U, e, p) ==
  /\ p \in M \cup {NULL} /\ (p = NULL => M = {})
  /\ p # NULL => t.kid[KeySide(e, p)][p] = NULL
  /\ \A a \in M : p \in U[a] => /\ NodeKey[a] # NodeKey[e]
                                /\ a # p => p \in U[t.kid[KeySide(e, a)][a]]

(* The subtrees when e hangs from p.                                       *)
HungUnder(M, U, e, p) ==
  [n \in Links |-> IF n = e THEN {e} ELSE IF n \in M /\ p \in U[n] THEN U[n] \cup {e} ELSE U[n]]

(* A search tree stays one when a node is hung where its key belongs.      *)
LEMMA HangShape ==
  ASSUME NEW t, NEW M, NEW U, Shape(t, M, U), NEW e \in Nodes, e \notin M,
         NEW p, BelongsAt(t, M, U, e, p)
  PROVE  Shape(HangLeaf(t, e, p), M \cup {e}, HungUnder(M, U, e, p))
<1> DEFINE r == HangLeaf(t, e, p)
           V == HungUnder(M, U, e, p)
           N == M \cup {e}
           s == KeySide(e, p)
<1>1. /\ t \in RBTrees /\ M \subseteq Nodes /\ NULL \notin M /\ NULL \notin Nodes
      /\ p \in Links /\ p # e /\ M \cup {NULL} \subseteq Links /\ e \in Links /\ e # NULL
      /\ U \in [Links -> SUBSET Nodes] /\ U[NULL] = {}
  BY NodesAssumption DEF Shape, BelongsAt, Links
<1>2. /\ r \in RBTrees /\ r.root = IF p = NULL THEN e ELSE t.root
      /\ \A a \in Nodes : r.parent[a] = IF a = e THEN p ELSE t.parent[a]
      /\ \A z \in Sides, a \in Nodes :
           r.kid[z][a] = IF a = e THEN NULL
                         ELSE IF a = p /\ z = s THEN e ELSE t.kid[z][a]
  BY <1>1, HangIs
<1> HIDE DEF r
<1>3. /\ V \in [Links -> SUBSET Nodes]
      /\ V[e] = {e} /\ V[NULL] = {}
      /\ \A n \in M : V[n] = IF p \in U[n] THEN U[n] \cup {e} ELSE U[n]
  <2>1. V = [n \in Links |-> IF n = e THEN {e}
                             ELSE IF n \in M /\ p \in U[n] THEN U[n] \cup {e} ELSE U[n]]
    BY Zenon DEF HungUnder
  <2> HIDE DEF V
  <2>2. \A n \in Links : U[n] \in SUBSET Nodes /\ U[n] \cup {e} \in SUBSET Nodes /\ {e} \in SUBSET Nodes
    BY <1>1
  <2>3. V \in [Links -> SUBSET Nodes]
    BY <2>1, <2>2
  <2> QED BY <1>1, <2>1, <2>3
<1> HIDE DEF V
<1>4. /\ p # NULL => p \in M /\ t.kid[s][p] = NULL
      /\ p = NULL => M = {}
      /\ \A a \in M : p \in U[a] => /\ NodeKey[a] # NodeKey[e]
                                    /\ a # p => p \in U[t.kid[KeySide(e, a)][a]]
  BY <1>1 DEF BelongsAt
<1>5. \A n \in M : /\ U[n] \subseteq M /\ n \in U[n] /\ KeySide(e, n) \in Sides
                   /\ \A z \in Sides : t.kid[z][n] \in M \cup {NULL} /\ n \notin U[t.kid[z][n]]
  <2> TAKE n \in M
  <2>1. U[n] \subseteq M /\ \A z \in Sides : t.kid[z][n] \in M \cup {NULL}
    BY DEF Shape
  <2>2. n \in U[n] /\ \A z \in Sides : n \notin U[t.kid[z][n]]
    BY ShapeSelf
  <2>3. KeySide(e, n) \in Sides
    BY <1>1, KeySideOn
  <2> QED BY <2>1, <2>2, <2>3
<1>6. \A n \in M : p # NULL => s \in Sides
  BY <1>4, <1>5
<1>7. \A n \in M, z \in Sides :
        V[t.kid[z][n]] = IF p \in U[t.kid[z][n]] THEN U[t.kid[z][n]] \cup {e} ELSE U[t.kid[z][n]]
  BY <1>1, <1>3, <1>5
<1>8. \A n \in M, z \in Sides : r.kid[z][n] = IF n = p /\ z = s THEN e ELSE t.kid[z][n]
  BY <1>1, <1>2
<1>9. \A z \in Sides : r.kid[z][e] = NULL
  BY <1>2
<1>10. r.root \in N \cup {NULL} /\ V[r.root] = N /\ r.parent[r.root] = NULL
  <2>1. CASE p = NULL
    BY <1>2, <1>3, <1>4, <2>1
  <2>2. CASE p # NULL
    <3>1. t.root \in M /\ U[t.root] = M /\ t.parent[t.root] = NULL
      BY <1>1, <1>4, <2>2 DEF Shape
    <3>2. r.root = t.root /\ p \in U[t.root] /\ t.root \in Nodes /\ t.root # e
      BY <1>1, <1>2, <1>4, <2>2, <3>1
    <3>3. V[t.root] = M \cup {e}
      BY <1>3, <3>1, <3>2
    <3>4. r.parent[t.root] = NULL
      BY <1>2, <3>1, <3>2
    <3> QED BY <3>1, <3>2, <3>3, <3>4
  <2> QED BY <2>1, <2>2
<1>11. \A n \in N : V[n] \subseteq N
  <2> TAKE n \in N
  <2>1. n \in M => U[n] \subseteq M
    BY <1>5
  <2>2. n \in M => V[n] \subseteq U[n] \cup {e}
    BY <1>3
  <2>3. n = e => V[n] = {e}
    BY <1>3
  <2> QED BY <2>1, <2>2, <2>3
<1>12. \A n \in N, z \in Sides : r.kid[z][n] \in N \cup {NULL}
  BY <1>5, <1>8, <1>9
<1>13. ASSUME NEW n \in M, p \in U[n], n # p
       PROVE  /\ p \in U[t.kid[KeySide(e, n)][n]]
              /\ p \notin U[t.kid[Other(KeySide(e, n))][n]]
              /\ NodeKey[n] # NodeKey[e]
  <2>1. p \in U[t.kid[KeySide(e, n)][n]] /\ KeySide(e, n) \in Sides /\ NodeKey[n] # NodeKey[e]
    BY <1>4, <1>5, <1>13
  <2> QED BY <2>1, ApartSides
<1>14. \A n \in N : \E z \in Sides : V[n] = {n} \cup V[r.kid[z][n]] \cup V[r.kid[Other(z)][n]]
  <2> TAKE n \in N
  <2>1. CASE n = e
    <3>1. \E z \in Sides : z \in Sides /\ Other(z) \in Sides
      BY OtherSide DEF Sides
    <3> QED BY <1>3, <1>9, <2>1, <3>1
  <2>2. CASE n \in M /\ n = p
    <3>1. s \in Sides /\ Other(s) \in Sides /\ Other(s) # s /\ p # NULL
      BY <1>1, <1>5, <2>2, OtherSide
    <3>2. U[p] = {p} \cup U[t.kid[s][p]] \cup U[t.kid[Other(s)][p]] /\ t.kid[s][p] = NULL
      BY <1>4, <2>2, <3>1, ShapeSides
    <3>3. r.kid[s][p] = e /\ r.kid[Other(s)][p] = t.kid[Other(s)][p]
      BY <1>8, <2>2, <3>1
    <3>4. V[t.kid[Other(s)][p]] = U[t.kid[Other(s)][p]]
      BY <1>5, <1>7, <2>2, <3>1
    <3>5. V[p] = U[p] \cup {e}
      BY <1>3, <1>5, <2>2
    <3>6. V[p] = {p} \cup V[r.kid[s][p]] \cup V[r.kid[Other(s)][p]]
      BY <1>1, <1>3, <3>2, <3>3, <3>4, <3>5
    <3> HIDE DEF s
    <3> QED BY <2>2, <3>1, <3>6
  <2>3. CASE n \in M /\ n # p
    <3> DEFINE z == KeySide(e, n)
    <3>1. z \in Sides /\ Other(z) \in Sides
      BY <1>5, <2>3, OtherSide
    <3> HIDE DEF z
    <3>2. r.kid[z][n] = t.kid[z][n] /\ r.kid[Other(z)][n] = t.kid[Other(z)][n]
      BY <1>8, <2>3, <3>1
    <3>3. U[n] = {n} \cup U[t.kid[z][n]] \cup U[t.kid[Other(z)][n]]
      BY <2>3, <3>1, ShapeSides
    <3>4. /\ V[t.kid[z][n]] = IF p \in U[t.kid[z][n]] THEN U[t.kid[z][n]] \cup {e} ELSE U[t.kid[z][n]]
          /\ V[t.kid[Other(z)][n]] = IF p \in U[t.kid[Other(z)][n]] THEN U[t.kid[Other(z)][n]] \cup {e}
                                     ELSE U[t.kid[Other(z)][n]]
      BY <1>7, <2>3, <3>1
    <3>5. V[n] = IF p \in U[n] THEN U[n] \cup {e} ELSE U[n]
      BY <1>3, <2>3
    <3>6. V[n] = {n} \cup V[r.kid[z][n]] \cup V[r.kid[Other(z)][n]]
      BY <2>3, <3>2, <3>3, <3>4, <3>5
    <3> QED BY <3>1, <3>6
  <2> QED BY <2>1, <2>2, <2>3
<1>15. \A n \in N, z \in Sides : \A m \in V[r.kid[z][n]] : On(z, m, n)
  <2> TAKE n \in N, z \in Sides
  <2> TAKE m \in V[r.kid[z][n]]
  <2>1. n \in M
    BY <1>3, <1>9
  <2>2. CASE r.kid[z][n] = e /\ n = p /\ z = s
    <3>1. m = e /\ p \in U[p] /\ n \in Nodes
      BY <1>1, <1>3, <1>5, <2>1, <2>2
    <3>2. NodeKey[n] # NodeKey[e]
      BY <1>4, <2>1, <2>2, <3>1
    <3> QED BY <2>2, <3>1, <3>2, KeySideOn
  <2>3. CASE r.kid[z][n] = t.kid[z][n] /\ ~ (n = p /\ z = s)
    <3>1. CASE m \in U[t.kid[z][n]]
      BY <2>1, <3>1, ShapeSides
    <3>2. CASE m \notin U[t.kid[z][n]]
      <4>1. m = e /\ p \in U[t.kid[z][n]]
        <5>1. V[t.kid[z][n]] = IF p \in U[t.kid[z][n]] THEN U[t.kid[z][n]] \cup {e} ELSE U[t.kid[z][n]]
          BY <1>7, <2>1
        <5>2. m \in V[t.kid[z][n]]
          BY <2>3
        <5> QED BY <3>2, <5>1, <5>2
      <4>2. p \in U[n] /\ n # p
        <5>1. U[t.kid[z][n]] \subseteq U[n]
          BY <2>1, ShapeSelf
        <5> QED BY <1>5, <2>1, <4>1, <5>1
      <4>3. z = KeySide(e, n)
        BY <1>5, <1>13, <2>1, <4>1, <4>2, OtherSide
      <4> QED BY <1>1, <1>13, <2>1, <4>1, <4>2, <4>3, KeySideOn
    <3> QED BY <3>1, <3>2
  <2> QED BY <1>8, <2>1, <2>2, <2>3
<1>16. \A n \in N, z \in Sides : r.kid[z][n] # NULL => r.parent[r.kid[z][n]] = n
  <2> TAKE n \in N, z \in Sides
  <2> HAVE r.kid[z][n] # NULL
  <2>1. n \in M
    BY <1>9
  <2>2. CASE r.kid[z][n] = e /\ n = p /\ z = s
    BY <1>2, <2>2
  <2>3. CASE r.kid[z][n] = t.kid[z][n]
    <3>1. t.kid[z][n] \in M /\ t.parent[t.kid[z][n]] = n
      BY <1>5, <2>1, <2>3 DEF Shape
    <3>2. t.kid[z][n] # e /\ t.kid[z][n] \in Nodes
      BY <1>1, <3>1
    <3> QED BY <1>2, <2>3, <3>1, <3>2
  <2> QED BY <1>8, <2>1, <2>2, <2>3
<1>17. N \in SUBSET Nodes
  BY <1>1
<1> HIDE DEF N, s
<1>18. Shape(r, N, V)
  BY <1>2, <1>3, <1>10, <1>11, <1>12, <1>14, <1>15, <1>16, <1>17, ShapeFrom
<1> QED BY <1>18 DEF r, N, V

(* What is left when a node with at most one kid is taken out.             *)
LEMMA UnlinkIs ==
  ASSUME NEW t, NEW M, NEW U, Shape(t, M, U), NEW e \in M, NEW child \in M \cup {NULL}
  PROVE  LET r == Unlink(t, e, child)
         IN  /\ r \in RBTrees /\ r.color = t.color
             /\ r.root = IF e = t.root THEN child ELSE t.root
             /\ \A a \in Nodes : r.parent[a] = IF a = child THEN t.parent[e] ELSE t.parent[a]
             /\ \A z \in Sides, a \in M : r.kid[z][a] = IF t.kid[z][a] = e THEN child ELSE t.kid[z][a]
<1> DEFINE p == t.parent[e]
           t1 == SetParent(t, child, p)
           r == Replace(t1, p, e, child)
<1>1. Unlink(t, e, child) = r
  BY DEF Unlink
<1>2. t \in RBTrees /\ M \subseteq Nodes /\ NULL \notin M
  BY ShapeSelf DEF Shape
<1>3. /\ p = NULL <=> e = t.root
      /\ p # NULL => p \in M /\ \E z \in Sides : t.kid[z][p] = e /\ t.kid[Other(z)][p] # e
      /\ \A a \in M, z \in Sides : t.kid[z][a] = e => a = p
  BY PointsOnce
<1>4. p \in Links /\ child \in Links /\ e \in Nodes
  BY <1>2, <1>3 DEF Links
<1> HIDE DEF p
<1>5. /\ t1 \in RBTrees /\ t1.kid = t.kid /\ t1.color = t.color /\ t1.root = t.root
      /\ \A a \in Nodes : t1.parent[a] = IF a = child THEN p ELSE t.parent[a]
  BY <1>2, <1>4, SetParentIs
<1> HIDE DEF t1
<1>6. /\ r \in RBTrees /\ r.parent = t1.parent /\ r.color = t1.color
      /\ r.root = IF p = NULL THEN child ELSE t1.root
      /\ \A z \in Sides, a \in Nodes :
           r.kid[z][a] = IF a = p /\ t1.kid[z][a] = e THEN child ELSE t1.kid[z][a]
  <2>1. t1 \in RBTrees /\ p # NULL => \E z \in Sides : t1.kid[z][p] = e /\ t1.kid[Other(z)][p] # e
    BY <1>3, <1>5
  <2> QED BY <1>4, <1>5, <2>1, ReplaceIs
<1> HIDE DEF r
<1>7. \A z \in Sides, a \in M : r.kid[z][a] = IF t.kid[z][a] = e THEN child ELSE t.kid[z][a]
  BY <1>2, <1>3, <1>5, <1>6
<1>8. r.root = IF e = t.root THEN child ELSE t.root
  BY <1>3, <1>5, <1>6
<1> QED BY <1>1, <1>5, <1>6, <1>7, <1>8 DEF p

(* The rest is a search tree.                                              *)
LEMMA UnlinkShape ==
  ASSUME NEW t, NEW M, NEW U, Shape(t, M, U), NEW e \in M, NEW s \in Sides,
         t.kid[s][e] = NULL
  PROVE  Shape(Unlink(t, e, t.kid[Other(s)][e]), M \ {e}, [n \in Links |-> U[n] \ {e}])
<1> DEFINE child == t.kid[Other(s)][e]
           r == Unlink(t, e, child)
           N == M \ {e}
           V == [n \in Links |-> U[n] \ {e}]
<1>1. /\ t \in RBTrees /\ M \subseteq Nodes /\ NULL \notin M
      /\ U \in [Links -> SUBSET Nodes] /\ U[NULL] = {} /\ M \cup {NULL} \subseteq Links
      /\ t.root \in M \cup {NULL} /\ U[t.root] = M
  <2>1. /\ t \in RBTrees /\ M \subseteq Nodes
        /\ U \in [Links -> SUBSET Nodes] /\ U[NULL] = {}
        /\ t.root \in M \cup {NULL} /\ U[t.root] = M
    BY DEF Shape
  <2>2. NULL \notin M
    BY ShapeSelf
  <2> QED BY <2>1, <2>2 DEF Links
<1>2. /\ child \in M \cup {NULL} /\ e \notin U[child] /\ child # e
      /\ U[e] = {e} \cup U[child] /\ (child # NULL => t.parent[child] = e)
  <2>1. U[e] = {e} \cup U[NULL] \cup U[child] /\ Other(s) \in Sides /\ U[NULL] = {}
    BY <1>1, ShapeSides, OtherSide
  <2>2. child \in M \cup {NULL} /\ (child # NULL => t.parent[child] = e)
    BY <2>1 DEF Shape
  <2>3. e \notin U[child] /\ (child # NULL => child \in U[child])
    BY <2>1, <2>2, ShapeSelf
  <2> QED BY <1>1, <2>1, <2>2, <2>3
<1> HIDE DEF child
<1>3. /\ r \in RBTrees /\ r.root = IF e = t.root THEN child ELSE t.root
      /\ \A a \in Nodes : r.parent[a] = IF a = child THEN t.parent[e] ELSE t.parent[a]
      /\ \A z \in Sides, a \in M : r.kid[z][a] = IF t.kid[z][a] = e THEN child ELSE t.kid[z][a]
  BY <1>2, UnlinkIs
<1> HIDE DEF r
<1>4. V \in [Links -> SUBSET Nodes] /\ \A n \in Links : V[n] = U[n] \ {e}
  <2>1. \A n \in Links : U[n] \ {e} \in SUBSET Nodes
    BY <1>1
  <2> QED BY <2>1
<1> HIDE DEF V
<1>5. \A n \in M : /\ U[n] \subseteq M
                   /\ \A z \in Sides : /\ t.kid[z][n] \in M \cup {NULL}
                                       /\ t.kid[z][n] # NULL => t.parent[t.kid[z][n]] = n
                                       /\ \A m \in U[t.kid[z][n]] : On(z, m, n)
                                       /\ U[n] = {n} \cup U[t.kid[z][n]] \cup U[t.kid[Other(z)][n]]
  BY ShapeSides DEF Shape
<1>6. \A n \in M, z \in Sides : t.kid[z][n] = e => t.parent[e] = n
  BY <1>1, <1>5
<1>7. \A n \in N, z \in Sides : r.kid[z][n] \in N \cup {NULL} /\ V[r.kid[z][n]] = U[t.kid[z][n]] \ {e}
  <2> TAKE n \in N, z \in Sides
  <2>1. CASE t.kid[z][n] = e
    BY <1>1, <1>2, <1>3, <1>4, <2>1
  <2>2. CASE t.kid[z][n] # e
    BY <1>1, <1>3, <1>4, <1>5, <2>2
  <2> QED BY <2>1, <2>2
<1>8. r.root \in N \cup {NULL} /\ V[r.root] = N
  <2>1. CASE e = t.root
    <3>1. V[child] = U[child] \ {e}
      BY <1>1, <1>2, <1>4
    <3> QED BY <1>1, <1>2, <1>3, <2>1, <3>1
  <2>2. CASE e # t.root
    <3>1. V[t.root] = U[t.root] \ {e}
      BY <1>1, <1>4
    <3> QED BY <1>1, <1>3, <2>2, <3>1
  <2> QED BY <2>1, <2>2
<1>9. r.root # NULL => r.parent[r.root] = NULL
  <2>1. t.root # NULL => t.parent[t.root] = NULL
    BY DEF Shape
  <2>2. t.root # NULL => t.root # child
    BY <1>1, <1>2, <2>1
  <2>3. CASE e = t.root
    BY <1>1, <1>2, <1>3, <2>1, <2>3
  <2>4. CASE e # t.root
    BY <1>1, <1>3, <2>1, <2>2, <2>4
  <2> QED BY <2>3, <2>4
<1>10. \A n \in N : V[n] \subseteq N
  BY <1>1, <1>4, <1>5
<1>11. \A n \in N : \E z \in Sides : V[n] = {n} \cup V[r.kid[z][n]] \cup V[r.kid[Other(z)][n]]
  <2> TAKE n \in N
  <2>1. Other(s) \in Sides
    BY OtherSide
  <2>2. V[r.kid[s][n]] = U[t.kid[s][n]] \ {e} /\ V[r.kid[Other(s)][n]] = U[t.kid[Other(s)][n]] \ {e}
    BY <1>7, <2>1
  <2>3. U[n] = {n} \cup U[t.kid[s][n]] \cup U[t.kid[Other(s)][n]] /\ V[n] = U[n] \ {e} /\ n # e
    BY <1>1, <1>4, <1>5
  <2>4. V[n] = {n} \cup V[r.kid[s][n]] \cup V[r.kid[Other(s)][n]]
    BY <2>2, <2>3
  <2> QED BY <2>4
<1>12. \A n \in N, z \in Sides : \A m \in V[r.kid[z][n]] : On(z, m, n)
  BY <1>5, <1>7
<1>13. \A n \in N, z \in Sides : r.kid[z][n] # NULL => r.parent[r.kid[z][n]] = n
  <2> TAKE n \in N, z \in Sides
  <2> HAVE r.kid[z][n] # NULL
  <2>1. CASE t.kid[z][n] = e
    <3>1. r.kid[z][n] = child /\ child \in Nodes
      BY <1>1, <1>2, <1>3, <2>1
    <3> QED BY <1>3, <1>6, <2>1, <3>1
  <2>2. CASE t.kid[z][n] # e
    <3>1. r.kid[z][n] = t.kid[z][n] /\ t.kid[z][n] \in Nodes
      BY <1>1, <1>3, <1>5, <2>2
    <3>2. t.parent[t.kid[z][n]] = n /\ t.kid[z][n] # child
      BY <1>2, <1>5, <3>1
    <3> QED BY <1>3, <3>1, <3>2
  <2> QED BY <2>1, <2>2
<1>14. N \in SUBSET Nodes /\ V[NULL] = {}
  BY <1>1, <1>4
<1> HIDE DEF N
<1>15. Shape(r, N, V)
  BY <1>3, <1>4, <1>7, <1>8, <1>9, <1>10, <1>11, <1>12, <1>13, <1>14, ShapeFrom
<1> QED BY <1>15 DEF r, N, V, child

(* What is left when a node outside takes the place of one inside.         *)
LEMMA SubstituteIs ==
  ASSUME NEW t, NEW M, NEW U, Shape(t, M, U), NEW old \in M, NEW e \in Nodes, e \notin M
  PROVE  LET r == Substitute(t, old, e)
         IN  /\ r \in RBTrees /\ r.root = IF old = t.root THEN e ELSE t.root
             /\ r.parent[e] = t.parent[old] /\ r.color[e] = t.color[old]
             /\ \A z \in Sides : r.kid[z][e] = t.kid[z][old]
             /\ \A a \in M \ {old} :
                  /\ r.parent[a] = IF t.parent[a] = old THEN e ELSE t.parent[a]
                  /\ r.color[a] = t.color[a]
                  /\ \A z \in Sides : r.kid[z][a] = IF t.kid[z][a] = old THEN e ELSE t.kid[z][a]
<1> DEFINE p == t.parent[old]
           l == t.kid["left"][old]
           k == t.kid["right"][old]
           c == t.color[old]
           t1 == RB_SET(t, e, l, k, p, c)
           t2 == Replace(t1, p, old, e)
           t3 == SetParent(t2, l, e)
           r == SetParent(t3, k, e)
<1>1. Substitute(t, old, e) = r
  BY DEF Substitute
<1>2. t \in RBTrees /\ M \subseteq Nodes /\ NULL \notin M /\ NULL \notin Nodes
  BY NodesAssumption DEF Shape
<1>3. /\ p = NULL <=> old = t.root
      /\ p # NULL => /\ p \in M /\ p # old
                     /\ \E z \in Sides : t.kid[z][p] = old /\ t.kid[Other(z)][p] # old
      /\ \A a \in M, z \in Sides : t.kid[z][a] = old => a = p
  BY PointsOnce
<1>4. /\ l \in M \cup {NULL} /\ k \in M \cup {NULL} /\ l # old /\ k # old
      /\ l # NULL => t.parent[l] = old
      /\ k # NULL => t.parent[k] = old
  <2>1. "left" \in Sides /\ "right" \in Sides
    BY DEF Sides
  <2>2. /\ l \in M \cup {NULL} /\ k \in M \cup {NULL}
        /\ l # NULL => t.parent[l] = old
        /\ k # NULL => t.parent[k] = old
    BY <2>1 DEF Shape
  <2>3. old \notin U[l] /\ old \notin U[k] /\ old \in U[old]
    BY <2>1, ShapeSelf
  <2> QED BY <1>2, <2>2, <2>3
<1>5. \A a \in M : t.parent[a] = old => a = l \/ a = k
  <2> TAKE a \in M
  <2> HAVE t.parent[a] = old
  <2>1. \E z \in Sides : t.kid[z][old] = a
    BY <1>2, PointsOnce
  <2> QED BY <2>1 DEF Sides
<1>6. \A z \in Sides : t.kid[z][old] = IF z = "left" THEN l ELSE k
  BY DEF Sides
<1>7. p \in Links /\ l \in Links /\ k \in Links /\ c \in Colors /\ e \in Links
  <2>1. old \in Nodes
    BY <1>2
  <2> QED BY <1>2, <1>3, <1>4, <2>1, TreeType DEF Links
<1> HIDE DEF p, l, k, c
<1>8. /\ t1 \in RBTrees /\ t1.root = t.root
      /\ t1.kid["left"][e] = l /\ t1.kid["right"][e] = k
      /\ t1.parent[e] = p /\ t1.color[e] = c
      /\ \A a \in Nodes \ {e} : /\ t1.parent[a] = t.parent[a] /\ t1.color[a] = t.color[a]
                                /\ \A z \in Sides : t1.kid[z][a] = t.kid[z][a]
  BY <1>2, <1>7, RBSetIs
<1> HIDE DEF t1
<1>9. /\ t2 \in RBTrees /\ t2.parent = t1.parent /\ t2.color = t1.color
      /\ t2.root = IF p = NULL THEN e ELSE t1.root
      /\ \A z \in Sides, a \in Nodes :
           t2.kid[z][a] = IF a = p /\ t1.kid[z][a] = old THEN e ELSE t1.kid[z][a]
  <2>1. p # NULL => \E z \in Sides : t1.kid[z][p] = old /\ t1.kid[Other(z)][p] # old
    BY <1>2, <1>3, <1>8, OtherSide
  <2>2. old \in Nodes
    BY <1>2
  <2> QED BY <1>7, <1>8, <2>1, <2>2, ReplaceIs
<1> HIDE DEF t2
<1>10. /\ t3 \in RBTrees /\ t3.kid = t2.kid /\ t3.color = t2.color /\ t3.root = t2.root
       /\ \A a \in Nodes : t3.parent[a] = IF a = l THEN e ELSE t2.parent[a]
  <2>1. t2 \in RBTrees
    BY <1>9
  <2> QED BY <1>7, <2>1, SetParentIs
<1> HIDE DEF t3
<1>11. /\ r \in RBTrees /\ r.kid = t3.kid /\ r.color = t3.color /\ r.root = t3.root
       /\ \A a \in Nodes : r.parent[a] = IF a = k THEN e ELSE t3.parent[a]
  <2>1. t3 \in RBTrees
    BY <1>10
  <2> QED BY <1>7, <2>1, SetParentIs
<1> HIDE DEF r
<1>12. r.root = IF old = t.root THEN e ELSE t.root
  BY <1>3, <1>8, <1>9, <1>10, <1>11
<1>13. r.parent[e] = p /\ r.color[e] = c
  <2>1. e # l /\ e # k
    BY <1>2, <1>4
  <2> QED BY <1>8, <1>9, <1>10, <1>11, <2>1
<1>14. \A z \in Sides : r.kid[z][e] = t.kid[z][old]
  <2>1. e # p
    BY <1>2, <1>3
  <2> QED BY <1>6, <1>8, <1>9, <1>10, <1>11, <2>1 DEF Sides
<1>15. ASSUME NEW a \in M \ {old}
       PROVE  /\ r.parent[a] = IF t.parent[a] = old THEN e ELSE t.parent[a]
              /\ r.color[a] = t.color[a]
              /\ \A z \in Sides : r.kid[z][a] = IF t.kid[z][a] = old THEN e ELSE t.kid[z][a]
  <2>1. a \in Nodes \ {e} /\ a # NULL
    BY <1>2
  <2>2. r.color[a] = t.color[a]
    BY <1>8, <1>9, <1>10, <1>11, <2>1
  <2>3. r.parent[a] = IF a = k \/ a = l THEN e ELSE t.parent[a]
    BY <1>8, <1>9, <1>10, <1>11, <2>1
  <2>4. \A z \in Sides : r.kid[z][a] = IF t.kid[z][a] = old THEN e ELSE t.kid[z][a]
    BY <1>3, <1>8, <1>9, <1>10, <1>11, <2>1
  <2> QED BY <1>4, <1>5, <2>1, <2>2, <2>3, <2>4
<1> QED BY <1>1, <1>11, <1>12, <1>13, <1>14, <1>15 DEF p, c

(* e in the place of old.                                                  *)
Swapped(S, old, e) == IF old \in S THEN (S \ {old}) \cup {e} ELSE S

(* The tree is a search tree if the key of e belongs where old is.         *)
LEMMA SubstituteShape ==
  ASSUME NEW t, NEW M, NEW U, Shape(t, M, U), NEW old \in M, NEW e \in Nodes, e \notin M,
         \A z \in Sides : \A m \in U[t.kid[z][old]] : On(z, m, e),
         \A n \in M, z \in Sides : old \in U[t.kid[z][n]] => On(z, e, n)
  PROVE  Shape(Substitute(t, old, e), (M \ {old}) \cup {e},
               [n \in Links |-> Swapped(U[IF n = e THEN old ELSE n], old, e)])
<1> DEFINE r == Substitute(t, old, e)
           N == (M \ {old}) \cup {e}
           W(S) == Swapped(S, old, e)
           V == [n \in Links |-> W(U[IF n = e THEN old ELSE n])]
<1>1. /\ t \in RBTrees /\ M \subseteq Nodes /\ NULL \notin M /\ NULL \notin Nodes
      /\ U \in [Links -> SUBSET Nodes] /\ U[NULL] = {} /\ M \cup {NULL} \subseteq Links
      /\ t.root \in M \cup {NULL} /\ U[t.root] = M /\ e \in Links /\ e # NULL
      /\ t.root # NULL => t.parent[t.root] = NULL
  BY NodesAssumption DEF Shape, Links
<1>2. /\ r \in RBTrees /\ r.root = IF old = t.root THEN e ELSE t.root
      /\ r.parent[e] = t.parent[old]
      /\ \A z \in Sides : r.kid[z][e] = t.kid[z][old]
      /\ \A a \in M \ {old} :
           /\ r.parent[a] = IF t.parent[a] = old THEN e ELSE t.parent[a]
           /\ \A z \in Sides : r.kid[z][a] = IF t.kid[z][a] = old THEN e ELSE t.kid[z][a]
  BY SubstituteIs
<1> HIDE DEF r
<1>3. \A S : S \subseteq M => W(S) \subseteq N /\ (old \notin S => W(S) = S)
  BY DEF Swapped
<1>4. \A S \in SUBSET Nodes : W(S) \in SUBSET Nodes
  BY DEF Swapped
<1> HIDE DEF W
<1>5. V \in [Links -> SUBSET Nodes] /\ V[e] = W(U[old]) /\ \A n \in Links \ {e} : V[n] = W(U[n])
  <2>1. \A n \in Links : IF n = e THEN V[n] = W(U[old]) ELSE V[n] = W(U[n])
    OBVIOUS
  <2>2. \A n \in Links : U[n] \in SUBSET Nodes
    BY <1>1
  <2>3. old \in Links
    BY <1>1
  <2>4. \A n \in Links : V[n] \in SUBSET Nodes
    BY <1>4, <2>2, <2>3
  <2> QED BY <1>1, <2>1, <2>4
<1> HIDE DEF V
<1>6. ASSUME NEW n \in M
      PROVE  /\ U[n] \subseteq M /\ n \in U[n]
             /\ \A z \in Sides : /\ t.kid[z][n] \in M \cup {NULL}
                                 /\ t.kid[z][n] # NULL => t.parent[t.kid[z][n]] = n
                                 /\ n \notin U[t.kid[z][n]] /\ U[t.kid[z][n]] \subseteq M
                                 /\ \A m \in U[t.kid[z][n]] : On(z, m, n)
                                 /\ U[n] = {n} \cup U[t.kid[z][n]] \cup U[t.kid[Other(z)][n]]
  <2>1. U[n] \subseteq M /\ n \in U[n]
    BY ShapeSelf DEF Shape
  <2>2. ASSUME NEW z \in Sides
        PROVE  /\ t.kid[z][n] \in M \cup {NULL}
               /\ t.kid[z][n] # NULL => t.parent[t.kid[z][n]] = n
               /\ n \notin U[t.kid[z][n]] /\ U[t.kid[z][n]] \subseteq M
               /\ \A m \in U[t.kid[z][n]] : On(z, m, n)
               /\ U[n] = {n} \cup U[t.kid[z][n]] \cup U[t.kid[Other(z)][n]]
    <3>1. /\ t.kid[z][n] \in M \cup {NULL}
          /\ t.kid[z][n] # NULL => t.parent[t.kid[z][n]] = n
      BY DEF Shape
    <3>2. /\ \A m \in U[t.kid[z][n]] : On(z, m, n)
          /\ U[n] = {n} \cup U[t.kid[z][n]] \cup U[t.kid[Other(z)][n]]
      BY ShapeSides
    <3>3. n \notin U[t.kid[z][n]]
      BY ShapeSelf
    <3> QED BY <2>1, <3>1, <3>2, <3>3
  <2> QED BY <2>1, <2>2
<1>7. \A z \in Sides : /\ r.kid[z][e] = t.kid[z][old]
                       /\ V[t.kid[z][old]] = U[t.kid[z][old]] /\ t.kid[z][old] \in N \cup {NULL}
                       /\ t.kid[z][old] # e /\ t.kid[z][old] # old
  <2> TAKE z \in Sides
  <2> DEFINE k == t.kid[z][old]
  <2>1. k \in M \cup {NULL} /\ old \notin U[k] /\ U[k] \subseteq M
    BY <1>6
  <2>2. k # old
    BY <1>1, <1>6, <2>1
  <2>3. V[k] = W(U[k]) /\ W(U[k]) = U[k]
    BY <1>1, <1>3, <1>5, <2>1
  <2> QED BY <1>1, <1>2, <2>1, <2>2, <2>3
<1>8. \A n \in M \ {old}, z \in Sides :
        r.kid[z][n] \in N \cup {NULL} /\ V[r.kid[z][n]] = W(U[t.kid[z][n]])
  <2> TAKE n \in M \ {old}, z \in Sides
  <2>1. CASE t.kid[z][n] = old
    BY <1>2, <1>5, <2>1
  <2>2. CASE t.kid[z][n] # old
    BY <1>1, <1>2, <1>5, <1>6, <2>2
  <2> QED BY <2>1, <2>2
<1>9. r.root \in N \cup {NULL} /\ V[r.root] = N
  <2>1. W(M) = N
    BY DEF W, Swapped
  <2> QED BY <1>1, <1>2, <1>5, <2>1
<1>10. r.root # NULL => r.parent[r.root] = NULL
  BY <1>1, <1>2
<1>11. \A n \in N : V[n] \subseteq N
  BY <1>1, <1>3, <1>5, <1>6
<1>12. \A n \in N, z \in Sides : r.kid[z][n] \in N \cup {NULL}
  BY <1>7, <1>8
<1>13. \A n \in N : \E z \in Sides : V[n] = {n} \cup V[r.kid[z][n]] \cup V[r.kid[Other(z)][n]]
  <2> TAKE n \in N
  <2> DEFINE z == "left"
  <2>1. z \in Sides /\ Other(z) \in Sides
    BY OtherSide DEF Sides
  <2> HIDE DEF z
  <2>2. CASE n = e
    <3>1. U[old] = {old} \cup U[t.kid[z][old]] \cup U[t.kid[Other(z)][old]]
          /\ old \notin U[t.kid[z][old]] /\ old \notin U[t.kid[Other(z)][old]]
      BY <1>6, <2>1
    <3>2. W(U[old]) = {e} \cup U[t.kid[z][old]] \cup U[t.kid[Other(z)][old]]
      BY <3>1 DEF W, Swapped
    <3>3. V[e] = {e} \cup V[r.kid[z][e]] \cup V[r.kid[Other(z)][e]]
      BY <1>5, <1>7, <2>1, <3>2
    <3> QED BY <2>1, <2>2, <3>3
  <2>3. CASE n \in M \ {old}
    <3>1. U[n] = {n} \cup U[t.kid[z][n]] \cup U[t.kid[Other(z)][n]]
      BY <1>6, <2>1, <2>3
    <3>2. W(U[n]) = {n} \cup W(U[t.kid[z][n]]) \cup W(U[t.kid[Other(z)][n]])
      BY <2>3, <3>1 DEF W, Swapped
    <3>3. V[n] = {n} \cup V[r.kid[z][n]] \cup V[r.kid[Other(z)][n]]
      BY <1>1, <1>5, <1>8, <2>1, <2>3, <3>2
    <3> QED BY <2>1, <3>3
  <2> QED BY <2>2, <2>3
<1>14. \A n \in N, z \in Sides : \A m \in V[r.kid[z][n]] : On(z, m, n)
  <2> TAKE n \in N, z \in Sides
  <2> TAKE m \in V[r.kid[z][n]]
  <2>1. CASE n = e
    BY <1>7, <2>1
  <2>2. CASE n \in M \ {old}
    <3>1. m \in U[t.kid[z][n]] \/ (m = e /\ old \in U[t.kid[z][n]])
      <4>1. m \in W(U[t.kid[z][n]])
        BY <1>8, <2>2
      <4> QED BY <4>1 DEF W, Swapped
    <3> QED BY <1>6, <2>2, <3>1
  <2> QED BY <2>1, <2>2
<1>15. \A n \in N, z \in Sides : r.kid[z][n] # NULL => r.parent[r.kid[z][n]] = n
  <2> TAKE n \in N, z \in Sides
  <2> HAVE r.kid[z][n] # NULL
  <2>1. CASE n = e
    <3>1. r.kid[z][n] = t.kid[z][old] /\ t.kid[z][old] \in M \ {old} /\ t.parent[t.kid[z][old]] = old
      BY <1>6, <1>7, <2>1
    <3> QED BY <1>2, <2>1, <3>1
  <2>2. CASE n \in M \ {old}
    <3>1. CASE t.kid[z][n] = old
      BY <1>1, <1>2, <1>6, <2>2, <3>1
    <3>2. CASE t.kid[z][n] # old
      <4>1. r.kid[z][n] = t.kid[z][n] /\ t.kid[z][n] \in M \ {old} /\ t.parent[t.kid[z][n]] = n
        BY <1>2, <1>6, <2>2, <3>2
      <4> QED BY <1>2, <2>2, <4>1
    <3> QED BY <3>1, <3>2
  <2> QED BY <2>1, <2>2
<1>16. N \in SUBSET Nodes /\ V[NULL] = {}
  BY <1>1, <1>3, <1>5
<1> HIDE DEF N
<1>17. Shape(r, N, V)
  BY <1>2, <1>5, <1>9, <1>10, <1>11, <1>12, <1>13, <1>14, <1>15, <1>16, ShapeFrom
<1> QED BY <1>17 DEF r, N, V, W

(* The node that takes the place of one with two kids.                     *)
Successor(t, old) == Furthest(t, t.kid["right"][old], "left")

(* The tree when it has left its own place.                                *)
WithoutSuccessor(t, old) ==
  Unlink(t, Successor(t, old), t.kid["right"][Successor(t, old)])

LEMMA SuccessorIs ==
  ASSUME NEW t, NEW M, NEW U, Shape(t, M, U), NEW old \in M,
         NULL \notin {t.kid[s][old] : s \in Sides}
  PROVE  LET e == Successor(t, old)
             k == t.kid["right"][old]
         IN  /\ k \in M /\ e \in M /\ e # old /\ e \in U[k] /\ e \in U[old]
             /\ t.kid["left"][e] = NULL
             /\ t.kid["right"][e] \in M \cup {NULL} /\ t.kid["right"][e] # old
             /\ On("right", e, old)
             /\ \A m \in U[k] : m = e \/ On("right", m, e)
<1> DEFINE e == Successor(t, old)
           k == t.kid["right"][old]
<1>1. "right" \in Sides /\ "left" \in Sides /\ Other("left") = "right" /\ NULL \notin M
  BY ShapeSelf DEF Sides, Other
<1>2. k \in M
  BY <1>1 DEF Shape
<1>3. /\ e \in U[k] /\ e \in M /\ t.kid["left"][e] = NULL
      /\ \A m \in U[k] : m = e \/ On("right", m, e)
  BY <1>1, <1>2, FurthestIs DEF Successor
<1>4. old \notin U[k] /\ U[k] \subseteq U[old] /\ On("right", e, old)
  BY <1>1, <1>3, ShapeSelf, ShapeSides
<1>5. t.kid["right"][e] \in M \cup {NULL} /\ t.kid["right"][e] # old
  <2>1. t.kid["right"][e] \in M \cup {NULL}
    BY <1>1, <1>3 DEF Shape
  <2>2. U[t.kid["right"][e]] \subseteq U[e] /\ U[e] \subseteq U[k]
    BY <1>1, <1>2, <1>3, ShapeSelf, ShapeTransitive
  <2>3. old \in U[old]
    BY ShapeSelf
  <2> QED BY <1>4, <2>1, <2>2, <2>3
<1> HIDE DEF e, k
<1>6. e # old /\ e \in U[old]
  BY <1>3, <1>4
<1> QED BY <1>2, <1>3, <1>4, <1>5, <1>6 DEF e, k

(* It belongs where the node was.                                          *)
LEMMA SuccessorFits ==
  ASSUME NEW t, NEW M, NEW U, Shape(t, M, U), NEW old \in M,
         NULL \notin {t.kid[s][old] : s \in Sides}
  PROVE  LET e == Successor(t, old)
             t1 == WithoutSuccessor(t, old)
             N == M \ {e}
             V == [n \in Links |-> U[n] \ {e}]
         IN  /\ Shape(t1, N, V)
             /\ \A z \in Sides : \A m \in V[t1.kid[z][old]] : On(z, m, e)
             /\ \A n \in N, z \in Sides : old \in V[t1.kid[z][n]] => On(z, e, n)
<1> DEFINE e == Successor(t, old)
           k == t.kid["right"][old]
           t1 == WithoutSuccessor(t, old)
           N == M \ {e}
           V == [n \in Links |-> U[n] \ {e}]
<1>1. /\ k \in M /\ e \in M /\ e # old /\ e \in U[k] /\ e \in U[old]
      /\ t.kid["left"][e] = NULL
      /\ On("right", e, old)
      /\ \A m \in U[k] : m = e \/ On("right", m, e)
  BY SuccessorIs
<1>2. "right" \in Sides /\ "left" \in Sides /\ Other("left") = "right"
      /\ Other("right") = "left" /\ M \in SUBSET Nodes /\ M \subseteq Links
  BY DEF Sides, Other, Shape, Links
<1> HIDE DEF e
<1>3. Shape(t1, N, V)
  <2>1. t1 = Unlink(t, e, t.kid["right"][e])
    BY Zenon DEF WithoutSuccessor, e
  <2>2. Shape(Unlink(t, e, t.kid[Other("left")][e]), M \ {e}, [n \in Links |-> U[n] \ {e}])
    <3>1. e \in M /\ "left" \in Sides /\ t.kid["left"][e] = NULL
      BY <1>1, <1>2
    <3> HIDE DEF k, t1, N, V
    <3> QED BY <3>1, UnlinkShape
  <2> QED BY <1>2, <2>1, <2>2
<1>4. \A n \in N : V[n] = U[n] \ {e} /\ n \in M
  BY <1>2
<1> HIDE DEF V, t1
<1>5. ASSUME NEW z \in Sides, NEW m \in V[t1.kid[z][old]] PROVE On(z, m, e)
  <2>1. old \in N
    BY <1>1
  <2>2. m \in V[old] /\ m \in N /\ On(z, m, old)
    <3> HIDE DEF N
    <3>1. /\ V[old] = {old} \cup V[t1.kid[z][old]] \cup V[t1.kid[Other(z)][old]]
          /\ \A a \in V[t1.kid[z][old]] : a \in N /\ On(z, a, old)
      BY <1>3, <2>1, ShapeSides
    <3> QED BY <1>5, <3>1
  <2>3. m \in M /\ m \in U[old] /\ m # e
    BY <1>4, <2>1, <2>2
  <2>4. CASE z = "left"
    <3>1. On("left", old, e)
      BY <1>1, <1>2, OnOrder
    <3> QED BY <1>1, <1>2, <2>2, <2>3, <2>4, <3>1, OnOrder
  <2>5. CASE z = "right"
    <3>1. m = old \/ m \in U[k] \/ m \in U[t.kid["left"][old]]
      BY <1>2, <2>3, ShapeSides
    <3>2. m # old
      BY <1>2, <2>2, <2>3, OnOrder
    <3>3. m \notin U[t.kid["left"][old]]
      <4> SUFFICES ASSUME m \in U[t.kid["left"][old]] PROVE FALSE
        OBVIOUS
      <4>1. On("left", m, old) /\ On("right", m, old)
        BY <1>2, <2>2, <2>5, ShapeSides
      <4>2. NodeKey[m] \in Int /\ NodeKey[old] \in Int
        BY <1>2, <2>3, NodesAssumption
      <4> QED BY <4>1, <4>2 DEF On
    <3> QED BY <1>1, <2>3, <2>5, <3>1, <3>2, <3>3
  <2> QED BY <2>4, <2>5 DEF Sides
<1>6. ASSUME NEW n \in N, NEW z \in Sides, old \in V[t1.kid[z][n]] PROVE On(z, e, n)
  <2>1. old \in V[n] /\ On(z, old, n) /\ n # old
    <3>1. old \in V[n] /\ On(z, old, n)
      BY <1>3, <1>6, ShapeSides
    <3>2. n # old
      BY <1>2, <1>4, <3>1, OnOrder
    <3> QED BY <3>1, <3>2
  <2>2. old \in U[n] /\ n \in M
    BY <1>4, <2>1
  <2>3. Other(z) \in Sides
    BY OtherSide
  <2>4. old \in U[t.kid[z][n]] \/ old \in U[t.kid[Other(z)][n]]
    BY <2>1, <2>2, ShapeSides
  <2>5. old \notin U[t.kid[Other(z)][n]]
    <3> SUFFICES ASSUME old \in U[t.kid[Other(z)][n]] PROVE FALSE
      OBVIOUS
    <3>1. On(Other(z), old, n)
      BY <2>2, <2>3, ShapeSides
    <3>2. NodeKey[n] \in Int /\ NodeKey[old] \in Int
      BY <1>2, <2>2, NodesAssumption
    <3> QED BY <2>1, <3>1, <3>2 DEF On, Other, Sides
  <2>6. old \in U[t.kid[z][n]] /\ t.kid[z][n] \in M
    BY <2>2, <2>4, <2>5 DEF Shape
  <2>7. e \in U[t.kid[z][n]]
    BY <1>1, <2>6, ShapeTransitive
  <2> QED BY <2>2, <2>7, ShapeSides
<1> QED BY <1>3, <1>5, <1>6 DEF e, t1, V

(* The tree of Removed is a search tree of the other nodes.                *)
LEMMA RemovedShape ==
  ASSUME NEW t, NEW M, NEW U, Shape(t, M, U), NEW old \in M
  PROVE  \E V : Shape(Removed(t, old).t, M \ {old}, V)
<1>1. CASE NULL \in {t.kid[s][old] : s \in Sides}
  <2> DEFINE s == IF t.kid["left"][old] = NULL THEN "left" ELSE "right"
  <2>1. s \in Sides /\ t.kid[s][old] = NULL
        /\ Other(s) = IF t.kid["left"][old] = NULL THEN "right" ELSE "left"
    BY <1>1 DEF Sides, Other
  <2>2. Removed(t, old).t = Unlink(t, old, t.kid[Other(s)][old])
    <3> DEFINE child == t.kid[IF t.kid["left"][old] = NULL THEN "right" ELSE "left"][old]
    <3>1. Removed(t, old) = [t |-> Unlink(t, old, child), child |-> child,
                             parent |-> t.parent[old], color |-> t.color[old]]
      BY <1>1, Zenon DEF Removed
    <3>2. Removed(t, old).t = Unlink(t, old, child)
      BY <3>1
    <3> QED BY <2>1, <3>2
  <2> HIDE DEF s
  <2> DEFINE V == [n \in Links |-> U[n] \ {old}]
  <2>3. Shape(Unlink(t, old, t.kid[Other(s)][old]), M \ {old}, V)
    BY <2>1, UnlinkShape
  <2> HIDE DEF V
  <2> QED BY <2>2, <2>3
<1>2. CASE NULL \notin {t.kid[s][old] : s \in Sides}
  <2> DEFINE e == Successor(t, old)
             t1 == WithoutSuccessor(t, old)
             N == M \ {e}
             V == [n \in Links |-> U[n] \ {e}]
  <2>1. Removed(t, old).t = Substitute(t1, old, e)
    <3> DEFINE child == t.kid["right"][e]
    <3>1. Removed(t, old) = [t |-> Substitute(t1, old, e), child |-> child,
                             parent |-> IF t1.parent[e] = old THEN e ELSE t.parent[e],
                             color |-> t.color[e]]
      BY <1>2, Zenon DEF Removed, Successor, WithoutSuccessor
    <3> QED BY <3>1
  <2>2. /\ Shape(t1, N, V)
        /\ \A z \in Sides : \A m \in V[t1.kid[z][old]] : On(z, m, e)
        /\ \A n \in N, z \in Sides : old \in V[t1.kid[z][n]] => On(z, e, n)
    BY <1>2, SuccessorFits
  <2>3. e \in M /\ e # old /\ M \subseteq Nodes
    BY <1>2, SuccessorIs DEF Shape
  <2> HIDE DEF e, t1, V
  <2>4. old \in N /\ e \in Nodes /\ e \notin N /\ (N \ {old}) \cup {e} = M \ {old}
    BY <2>3
  <2> HIDE DEF N
  <2>5. \E W : Shape(Substitute(t1, old, e), (N \ {old}) \cup {e}, W)
    BY <2>2, <2>4, SubstituteShape
  <2> QED BY <2>1, <2>4, <2>5
<1> QED BY <1>1, <1>2

-----------------------------------------------------------------------------
(* No two of the nodes have the same key.                                  *)
Distinct(M) == M \in SUBSET Nodes /\ \A a, b \in M : NodeKey[a] = NodeKey[b] => a = b

LEMMA ForestKeys ==
  ASSUME NEW t, NEW M, NEW U, Forest(t, M, U), NEW a \in M \cup {NULL}
  PROVE  Distinct(U[a])
<1> DEFINE S == {n \in M : \A c, d \in U[n] : NodeKey[c] = NodeKey[d] => c = d}
<1>1. ASSUME NEW n \in M, \A s \in Sides : t.kid[s][n] \in S \cup {NULL} PROVE n \in S
  <2> SUFFICES ASSUME NEW c \in U[n], NEW d \in U[n], NodeKey[c] = NodeKey[d] PROVE c = d
    OBVIOUS
  <2> DEFINE l == t.kid["left"][n]
             r == t.kid["right"][n]
  <2>1. /\ U[n] = {n} \cup U[l] \cup U[r] /\ U[NULL] = {}
        /\ \A m \in U[l] : NodeKey[m] < NodeKey[n]
        /\ \A m \in U[r] : NodeKey[m] > NodeKey[n]
    BY DEF Forest
  <2>2. l \in S \cup {NULL} /\ r \in S \cup {NULL}
    BY <1>1 DEF Sides
  <2>3. NodeKey[n] \in Int /\ NodeKey[c] \in Int /\ NodeKey[d] \in Int
    <3>1. c \in M /\ d \in M
      BY DEF Forest
    <3> QED BY <3>1, ForestSelf
  <2>4. CASE c \in U[l] /\ d \in U[l]
    BY <2>1, <2>2, <2>4
  <2>5. CASE c \in U[r] /\ d \in U[r]
    BY <2>1, <2>2, <2>5
  <2>6. CASE ~ (c \in U[l] /\ d \in U[l]) /\ ~ (c \in U[r] /\ d \in U[r])
    <3> HIDE DEF l, r, S
    <3> QED BY <2>1, <2>3, <2>6
  <2> QED BY <2>4, <2>5, <2>6
<1>2. M \subseteq S
  <2> HIDE DEF S
  <2> QED BY <1>1, ForestFromKids
<1>3. CASE a = NULL
  <2>1. U[a] = {}
    BY <1>3 DEF Forest
  <2> QED BY <2>1 DEF Distinct
<1>4. CASE a \in M
  <2>1. a \in S /\ U[a] \subseteq Nodes
    BY <1>2, <1>4 DEF Forest
  <2> QED BY <2>1 DEF Distinct
<1> QED BY <1>3, <1>4

LEMMA ShapeKeys ==
  ASSUME NEW t, NEW M, NEW U, Shape(t, M, U)
  PROVE  Distinct(M)
<1>1. t.root \in M \cup {NULL} /\ U[t.root] = M
  BY DEF Shape
<1> QED BY <1>1, ShapeForest, ForestKeys

(* The first and the last of some nodes, and the next one on a side.       *)
LEMMA LeastIs ==
  ASSUME NEW M, Distinct(M), NEW S \in SUBSET M, NEW f \in S
  PROVE  /\ (\A m \in S : NodeKey[f] <= NodeKey[m]) => Least(S) = f
         /\ (\A m \in S : NodeKey[m] <= NodeKey[f]) => Greatest(S) = f
<1>1. \A m \in M : NodeKey[m] \in Int
  BY NodesAssumption DEF Distinct
<1>2. \A a, b \in M : NodeKey[a] = NodeKey[b] => a = b
  BY DEF Distinct
<1>3. ASSUME \A m \in S : NodeKey[f] <= NodeKey[m] PROVE Least(S) = f
  <2> DEFINE Lowest(n) == \A m \in S : NodeKey[n] <= NodeKey[m]
             c == CHOOSE n \in S : Lowest(n)
  <2>1. c \in S /\ Lowest(c)
    BY <1>3
  <2>2. Least(S) = c
    BY DEF Least
  <2> HIDE DEF c
  <2>3. NodeKey[c] = NodeKey[f]
    BY <1>1, <1>3, <2>1
  <2> QED BY <1>2, <2>1, <2>2, <2>3
<1>4. ASSUME \A m \in S : NodeKey[m] <= NodeKey[f] PROVE Greatest(S) = f
  <2> DEFINE Highest(n) == \A m \in S : NodeKey[m] <= NodeKey[n]
             c == CHOOSE n \in S : Highest(n)
  <2>1. c \in S /\ Highest(c)
    BY <1>4
  <2>2. Greatest(S) = c
    BY DEF Greatest
  <2> HIDE DEF c
  <2>3. NodeKey[c] = NodeKey[f]
    BY <1>1, <1>4, <2>1
  <2> QED BY <1>2, <2>1, <2>2, <2>3
<1> QED BY <1>3, <1>4

(* Where a walk to the side s starts, and where it goes from n.            *)
FirstOf(S, s) == IF s = "left" THEN Least(S) ELSE Greatest(S)

LEMMA FirstIs ==
  ASSUME NEW M, Distinct(M), NEW S \in SUBSET M, NEW f \in S, NEW s \in Sides,
         \A m \in S : m = f \/ On(Other(s), m, f)
  PROVE  FirstOf(S, s) = f
<1>1. \A m \in M : NodeKey[m] \in Int
  BY NodesAssumption DEF Distinct
<1>2. CASE s = "left"
  <2>1. \A m \in S : NodeKey[f] <= NodeKey[m]
    BY <1>1, <1>2 DEF On, Other
  <2> QED BY <1>2, <2>1, LeastIs DEF FirstOf
<1>3. CASE s = "right"
  <2>1. \A m \in S : NodeKey[m] <= NodeKey[f]
    BY <1>1, <1>3 DEF On, Other
  <2> QED BY <1>3, <2>1, LeastIs DEF FirstOf
<1> QED BY <1>2, <1>3 DEF Sides

LEMMA BeyondFirst ==
  ASSUME NEW S, NEW n, NEW s \in Sides
  PROVE  Beyond(S, n, s) = FirstOf({m \in S : On(s, m, n)}, Other(s))
<1>1. CASE s = "left"
  BY <1>1 DEF Beyond, FirstOf, On, Other
<1>2. CASE s = "right"
  BY <1>2 DEF Beyond, FirstOf, On, Other
<1> QED BY <1>1, <1>2 DEF Sides

LEMMA BeyondIs ==
  ASSUME NEW M, Distinct(M), NEW n, NEW s \in Sides, NEW f \in M,
         On(s, f, n), \A m \in M : On(s, m, n) => m = f \/ On(s, m, f)
  PROVE  Beyond(M, n, s) = f
<1> DEFINE S == {m \in M : On(s, m, n)}
<1>1. f \in S /\ S \in SUBSET M /\ Other(s) \in Sides /\ Other(Other(s)) = s
  BY DEF Sides, Other
<1>2. \A m \in S : m = f \/ On(Other(Other(s)), m, f)
  BY <1>1
<1>3. Beyond(M, n, s) = FirstOf(S, Other(s))
  BY BeyondFirst
<1> HIDE DEF S
<1> QED BY <1>1, <1>2, <1>3, FirstIs

LEMMA NoneFirst ==
  ASSUME NEW s PROVE FirstOf({}, s) = NULL
BY DEF FirstOf, Least, Greatest

(* Some nodes have a first one.                                            *)
LEMMA FirstExists ==
  ASSUME NEW M, Distinct(M), NEW S \in SUBSET M, S # {}, NEW s \in Sides
  PROVE  /\ FirstOf(S, s) \in S
         /\ \A m \in S : m = FirstOf(S, s) \/ On(Other(s), m, FirstOf(S, s))
<1> DEFINE Before(a) == {b \in S : On(s, b, a)}
           Sizes == {Cardinality(Before(a)) : a \in S}
<1>1. M \in SUBSET Nodes /\ IsFiniteSet(S)
  <2>1. M \in SUBSET Nodes /\ S \subseteq Nodes
    BY DEF Distinct
  <2> QED BY <2>1, NodesAssumption, FS_Subset
<1>2. \A a \in S : IsFiniteSet(Before(a)) /\ Cardinality(Before(a)) \in Nat
  BY <1>1, FS_Subset, FS_CardinalityType
<1>3. PICK x \in Sizes : \A y \in Sizes : x <= y
  <2>1. Sizes \in SUBSET Nat /\ Sizes # {}
    BY <1>2
  <2> HIDE DEF Sizes
  <2> QED BY <2>1, SmallestNumber
<1>4. PICK f \in S : x = Cardinality(Before(f))
  OBVIOUS
<1>5. ASSUME NEW m \in S, m # f PROVE On(Other(s), m, f)
  <2>1. ~ On(s, m, f)
    <3> SUFFICES ASSUME On(s, m, f) PROVE FALSE
      OBVIOUS
    <3>1. Before(m) \subseteq Before(f)
      <4>1. \A b \in S : On(s, b, m) => On(s, b, f)
        <5>1. \A b \in S : b \in M
          OBVIOUS
        <5> QED BY <1>1, <5>1, OnOrder
      <4> QED BY <4>1
    <3>2. m \in Before(f) /\ m \notin Before(m)
      <4>1. m \in M /\ ~ On(s, m, m)
        BY <1>1, OnOrder
      <4> QED BY <4>1
    <3>3. Cardinality(Before(m)) < Cardinality(Before(f))
      <4> HIDE DEF Before
      <4> QED BY <1>2, <3>1, <3>2, FS_Subset
    <3>4. Cardinality(Before(f)) <= Cardinality(Before(m))
      BY <1>3, <1>4
    <3> HIDE DEF Before
    <3> QED BY <1>2, <3>3, <3>4
  <2>2. NodeKey[m] # NodeKey[f] /\ NodeKey[m] \in Int /\ NodeKey[f] \in Int
    <3>1. m \in M /\ f \in M
      OBVIOUS
    <3> QED BY <1>1, <1>5, <3>1, NodesAssumption DEF Distinct
  <2> QED BY <2>1, <2>2 DEF On, Other, Sides
<1>6. FirstOf(S, s) = f
  BY <1>5, FirstIs
<1> QED BY <1>5, <1>6

================================================================================
