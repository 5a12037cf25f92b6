----------------------------- MODULE SplayProofs -----------------------------
(***************************************************************************)
(* Theorem about the splay tree of Trees, for any nodes and any keys: it   *)
(* is a search tree of the nodes in it whatever is called, and the lookups *)
(* find what is there.                                                     *)
(*                                                                         *)
(* In the middle of SPLAY there are three trees, the one with the root and *)
(* the two that grow at its sides, with an open end each.  With the ends   *)
(* closed by NULL (Opened) they are one Forest, which Splaying describes;  *)
(* a round turns it (TurnForest) and hangs the root at an end (LinkForest),*)
(* and SPLAY_ASSEMBLE makes it one tree again (AssembleForest).  Local     *)
(* holds the roots of the two, on the side opposite to their own.  Kept is *)
(* what holds between two calls, and SplayInv says it of sp.               *)
(***************************************************************************)
EXTENDS TreesShapeProofs

-----------------------------------------------------------------------------
(* Forests.  What is enough for one.                                       *)
LEMMA ForestFrom ==
  ASSUME NEW t, NEW M \in SUBSET Nodes, NEW U \in [Links -> SUBSET Nodes], U[NULL] = {},
         \A n \in M : U[n] \subseteq M,
         \A n \in M, s \in Sides : t.kid[s][n] \in M \cup {NULL},
         \A n \in M : \E s \in Sides : U[n] = {n} \cup U[t.kid[s][n]] \cup U[t.kid[Other(s)][n]],
         \A n \in M, s \in Sides : \A m \in U[t.kid[s][n]] : On(s, m, n)
  PROVE  Forest(t, M, U)
<1>1. \A n \in M : U[n] = {n} \cup U[t.kid["left"][n]] \cup U[t.kid["right"][n]]
  BY DEF Sides, Other
<1>2. /\ \A n \in M : \A m \in U[t.kid["left"][n]] : NodeKey[m] < NodeKey[n]
      /\ \A n \in M : \A m \in U[t.kid["right"][n]] : NodeKey[m] > NodeKey[n]
  BY DEF On, Sides
<1> QED BY <1>1, <1>2 DEF Forest

LEMMA ForestType ==
  ASSUME NEW t, NEW M, NEW U, Forest(t, M, U)
  PROVE  /\ M \in SUBSET Nodes /\ NULL \notin M /\ U \in [Links -> SUBSET Nodes] /\ U[NULL] = {}
         /\ \A n \in M \cup {NULL} : n \in Links /\ U[n] \in SUBSET M
         /\ \A n \in M, s \in Sides : t.kid[s][n] \in M \cup {NULL}
<1>1. M \in SUBSET Nodes /\ NULL \notin M /\ U \in [Links -> SUBSET Nodes] /\ U[NULL] = {}
  BY NodesAssumption DEF Forest
<1>2. \A n \in M : U[n] \in SUBSET M
  BY DEF Forest
<1>3. \A n \in M, s \in Sides : t.kid[s][n] \in M \cup {NULL}
  BY DEF Forest
<1> QED BY <1>1, <1>2, <1>3 DEF Links

(* No node is below both kids of a node, and no two nodes are below each   *)
(* other.                                                                  *)
LEMMA ForestApart ==
  ASSUME NEW t, NEW M, NEW U, Forest(t, M, U), NEW n \in M
  PROVE  /\ \A s \in Sides : \A a \in U[t.kid[s][n]] : a \notin U[t.kid[Other(s)][n]]
         /\ \A m \in U[n] : n \in U[m] => m = n
<1>1. ASSUME NEW s \in Sides, NEW a \in U[t.kid[s][n]], a \in U[t.kid[Other(s)][n]] PROVE FALSE
  <2>1. a \in M /\ On(s, a, n)
    BY <1>1, ForestSides
  <2>2. Other(s) \in Sides
    BY OtherSide
  <2>3. On(Other(s), a, n)
    BY <1>1, <2>2, ForestSides
  <2>4. NodeKey[a] \in Int /\ NodeKey[n] \in Int
    BY <2>1, ForestSelf
  <2> QED BY <2>1, <2>3, <2>4 DEF On, Other, Sides
<1>2. ASSUME NEW m \in U[n], n \in U[m], m # n PROVE FALSE
  <2>1. PICK s \in Sides : m \in U[t.kid[s][n]]
    BY <1>2 DEF Forest, Sides
  <2>2. t.kid[s][n] \in M
    BY <2>1 DEF Forest
  <2>3. U[m] \subseteq U[t.kid[s][n]]
    BY <2>1, <2>2, ForestTransitive
  <2> QED BY <1>2, <2>3, ForestSelf
<1> QED BY <1>1, <1>2

(* Only the links of the nodes count.                                      *)
LEMMA ForestSame ==
  ASSUME NEW t, NEW M, NEW U, Forest(t, M, U), NEW r,
         \A s \in Sides, n \in M : r.kid[s][n] = t.kid[s][n]
  PROVE  Forest(r, M, U)
BY DEF Forest, Sides

(* The nodes of some of the trees alone.                                   *)
LEMMA ForestPart ==
  ASSUME NEW t, NEW M, NEW U, Forest(t, M, U), NEW N \in SUBSET M,
         \A n \in N : U[n] \subseteq N
  PROVE  Forest(t, N, U)
<1>1. \A n \in N, s \in Sides : t.kid[s][n] \in N \cup {NULL}
  <2> TAKE n \in N, s \in Sides
  <2>1. U[t.kid[s][n]] \subseteq U[n] /\ t.kid[s][n] \in M \cup {NULL}
    BY ForestSelf DEF Forest
  <2>2. t.kid[s][n] \in M => t.kid[s][n] \in U[t.kid[s][n]]
    BY ForestSelf
  <2> QED BY <2>1, <2>2
<1> QED BY <1>1 DEF Forest

(* The top of a tree loses a subtree.                                      *)
LEMMA CutForest ==
  ASSUME NEW t, NEW M, NEW U, Forest(t, M, U), NEW s \in Sides, NEW p \in M,
         \A n \in M : p \in U[n] => n = p,
         NEW r, \A z \in Sides, n \in M : r.kid[z][n] = IF z = s /\ n = p THEN NULL ELSE t.kid[z][n]
  PROVE  Forest(r, M, [n \in Links |-> IF n = p THEN {p} \cup U[t.kid[Other(s)][p]] ELSE U[n]])
<1> DEFINE new == {p} \cup U[t.kid[Other(s)][p]]
           V == [n \in Links |-> IF n = p THEN new ELSE U[n]]
<1>1. M \in SUBSET Nodes /\ U \in [Links -> SUBSET Nodes] /\ U[NULL] = {} /\ NULL \notin M
      /\ Other(s) \in Sides /\ Other(s) # s
  BY ForestType, OtherSide
<1>2. new \subseteq U[p] /\ U[p] \subseteq M /\ p \in new
  BY ForestType, ForestSides
<1> HIDE DEF new
<1>3. \A n \in Links : V[n] = IF n = p THEN new ELSE U[n]
  OBVIOUS
<1>4. V \in [Links -> SUBSET Nodes]
  BY <1>1, <1>2
<1> HIDE DEF V
<1>5. \A n \in M, z \in Sides : t.kid[z][n] \in M \cup {NULL} /\ t.kid[z][n] # p
  <2> TAKE n \in M, z \in Sides
  <2>1. t.kid[z][n] \in M \cup {NULL} /\ U[t.kid[z][n]] \subseteq U[n]
    BY ForestSelf DEF Forest
  <2>2. p \in U[p] /\ p \notin U[t.kid[z][p]]
    BY ForestSelf
  <2> QED BY <2>1, <2>2
<1>6. \A n \in M, z \in Sides : V[t.kid[z][n]] = U[t.kid[z][n]]
  BY <1>1, <1>3, <1>5 DEF Links
<1>7. V[NULL] = {}
  BY <1>1, <1>3 DEF Links
<1>8. \A n \in M : V[n] \subseteq M
  BY <1>1, <1>2, <1>3 DEF Forest, Links
<1>9. \A n \in M, z \in Sides : r.kid[z][n] \in M \cup {NULL}
  BY <1>5
<1>10. ASSUME NEW n \in M
       PROVE  \E z \in Sides : V[n] = {n} \cup V[r.kid[z][n]] \cup V[r.kid[Other(z)][n]]
  <2>1. CASE n = p
    <3>1. r.kid[s][n] = NULL /\ r.kid[Other(s)][n] = t.kid[Other(s)][n]
      BY <1>1, <2>1
    <3>2. V[n] = {n} \cup V[r.kid[s][n]] \cup V[r.kid[Other(s)][n]]
      BY <1>1, <1>3, <1>6, <1>7, <2>1, <3>1 DEF Links, new
    <3> QED BY <3>2
  <2>2. CASE n # p
    <3>1. \A z \in Sides : r.kid[z][n] = t.kid[z][n]
      BY <2>2
    <3>2. V[n] = {n} \cup V[r.kid[s][n]] \cup V[r.kid[Other(s)][n]]
      BY <1>1, <1>3, <1>6, <2>2, <3>1, ForestSides DEF Links
    <3> QED BY <3>2
  <2> QED BY <2>1, <2>2
<1>11. \A n \in M, z \in Sides : \A m \in V[r.kid[z][n]] : On(z, m, n)
  <2> TAKE n \in M, z \in Sides
  <2>1. V[r.kid[z][n]] \subseteq U[t.kid[z][n]]
    BY <1>6, <1>7
  <2> QED BY <2>1, ForestSides
<1>12. Forest(r, M, V)
  BY <1>1, <1>4, <1>7, <1>8, <1>9, <1>10, <1>11, ForestFrom
<1> QED BY <1>12 DEF V, new

(* A tree is hung in an empty place of another one.                        *)
LEMMA GraftForest ==
  ASSUME NEW t, NEW M, NEW U, Forest(t, M, U), NEW s \in Sides,
         NEW p \in M, NEW q \in M \cup {NULL},
         t.kid[s][p] = NULL, p \notin U[q],
         \A m \in U[q] : On(s, m, p),
         \A n \in M, z \in Sides : p \in U[t.kid[z][n]] => \A m \in U[q] : On(z, m, n),
         NEW r, \A z \in Sides, n \in M : r.kid[z][n] = IF z = s /\ n = p THEN q ELSE t.kid[z][n]
  PROVE  Forest(r, M, [n \in Links |-> IF p \in U[n] THEN U[n] \cup U[q] ELSE U[n]])
<1> DEFINE V == [n \in Links |-> IF p \in U[n] THEN U[n] \cup U[q] ELSE U[n]]
<1>1. M \in SUBSET Nodes /\ U \in [Links -> SUBSET Nodes] /\ U[NULL] = {} /\ NULL \notin M
      /\ Other(s) \in Sides /\ Other(s) # s /\ Other(Other(s)) = s
  BY ForestType, OtherSide
<1>2. U[q] \subseteq M /\ q \in Links
  BY ForestType
<1>3. \A n \in Links : V[n] = IF p \in U[n] THEN U[n] \cup U[q] ELSE U[n]
  OBVIOUS
<1>4. V \in [Links -> SUBSET Nodes]
  <2>1. U[q] \in SUBSET Nodes
    BY <1>1, <1>2
  <2> QED BY <1>1, <2>1
<1> HIDE DEF V
<1>5. V[NULL] = {} /\ V[q] = U[q]
  BY <1>1, <1>2, <1>3 DEF Links
<1>6. \A n \in M : V[n] \subseteq M
  <2>1. \A n \in M : n \in Links /\ U[n] \subseteq M
    BY ForestType
  <2> QED BY <1>2, <1>3, <2>1
<1>7. \A n \in M, z \in Sides : r.kid[z][n] \in M \cup {NULL}
  BY DEF Forest
<1>8. ASSUME NEW n \in M
      PROVE  \E z \in Sides : V[n] = {n} \cup V[r.kid[z][n]] \cup V[r.kid[Other(z)][n]]
  <2> DEFINE k == t.kid[s][n]
             o == t.kid[Other(s)][n]
  <2>1. U[n] = {n} \cup U[k] \cup U[o] /\ k \in Links /\ o \in Links /\ n \in Links
    BY <1>1, ForestSides DEF Links
  <2>2. r.kid[Other(s)][n] = o
    BY <1>1
  <2> HIDE DEF o
  <2>3. CASE n = p
    <3>1. r.kid[s][n] = q /\ k = NULL /\ p \in U[n]
      BY <2>3, ForestSelf
    <3>2. p \notin U[o]
      BY <1>1, <2>3, ForestSelf DEF o
    <3>3. V[n] = {n} \cup V[q] \cup V[o]
      BY <1>1, <1>3, <1>5, <2>1, <3>1, <3>2
    <3> QED BY <2>2, <3>1, <3>3
  <2>4. CASE n # p
    <3>1. r.kid[s][n] = k
      BY <2>4
    <3> HIDE DEF k
    <3>2. V[n] = {n} \cup V[k] \cup V[o]
      BY <1>3, <2>1, <2>4
    <3> QED BY <2>2, <3>1, <3>2
  <2> QED BY <2>3, <2>4
<1>9. \A n \in M, z \in Sides : \A m \in V[r.kid[z][n]] : On(z, m, n)
  <2> TAKE n \in M, z \in Sides
  <2>1. CASE z = s /\ n = p
    BY <1>5, <2>1
  <2>2. CASE ~ (z = s /\ n = p)
    <3> DEFINE k == t.kid[z][n]
    <3>1. r.kid[z][n] = k
      BY <2>2
    <3>2. k \in Links /\ \A m \in U[k] : On(z, m, n)
      BY ForestType, ForestSides
    <3>3. p \in U[k] => \A m \in U[q] : On(z, m, n)
      OBVIOUS
    <3> HIDE DEF k
    <3>4. \A m \in V[k] : On(z, m, n)
      BY <1>3, <3>2, <3>3
    <3> QED BY <3>1, <3>4
  <2> QED BY <2>1, <2>2
<1>10. Forest(r, M, V)
  BY <1>1, <1>4, <1>5, <1>6, <1>7, <1>8, <1>9, ForestFrom
<1> QED BY <1>10 DEF V

(* No other tree shares a node with that of x.                             *)
Whole(M, U, x) == \A n \in M : n \notin U[x] => U[n] \cap U[x] = {}

(* Three trees that have all the nodes and share none.                     *)
LEMMA WholeFrom ==
  ASSUME NEW t, NEW M, NEW U, Forest(t, M, U),
         NEW x \in M \cup {NULL}, NEW y \in M \cup {NULL}, NEW z \in M \cup {NULL},
         M = U[x] \cup U[y] \cup U[z],
         U[x] \cap U[y] = {}, U[x] \cap U[z] = {}, U[y] \cap U[z] = {}
  PROVE  Whole(M, U, x) /\ Whole(M, U, y) /\ Whole(M, U, z)
<1>1. ASSUME NEW a \in M \cup {NULL}, NEW n \in U[a] PROVE U[n] \subseteq U[a]
  <2>1. CASE a = NULL
    BY <1>1, <2>1, ForestType
  <2>2. CASE a \in M
    BY <1>1, <2>2, ForestTransitive
  <2> QED BY <2>1, <2>2
<1>2. \A n \in M : U[n] \subseteq U[x] \/ U[n] \subseteq U[y] \/ U[n] \subseteq U[z]
  BY <1>1
<1>3. \A n \in M : n \in U[n]
  BY ForestSelf
<1> QED BY <1>2, <1>3 DEF Whole

(* The top of a whole tree is below no other node.                         *)
LEMMA WholeTop ==
  ASSUME NEW t, NEW M, NEW U, Forest(t, M, U), NEW x \in M, Whole(M, U, x)
  PROVE  \A n \in M : x \in U[n] => n = x
<1> TAKE n \in M
<1> HAVE x \in U[n]
<1>1. x \in U[x]
  BY ForestSelf
<1>2. n \in U[x]
  BY <1>1 DEF Whole
<1> QED BY <1>2, ForestApart

(* SPLAY_ROTATE: the kid of the root takes its place.                      *)
LEMMA TurnForest ==
  ASSUME NEW t, NEW M, NEW U, Forest(t, M, U), NEW s \in Sides, NEW x \in M, NEW tmp \in M,
         tmp = t.kid[s][x], Whole(M, U, x),
         NEW r, \A z \in Sides, n \in M : r.kid[z][n] = IF z = s /\ n = x THEN t.kid[Other(s)][tmp]
                                                    ELSE IF z = Other(s) /\ n = tmp THEN x
                                                    ELSE t.kid[z][n]
  PROVE  \E V : /\ Forest(r, M, V) /\ V[tmp] = U[x]
                /\ \A n \in Links \ U[x] : V[n] = U[n]
<1> DEFINE o == Other(s)
           ko == t.kid[o][x]
           inner == t.kid[o][tmp]
           outer == t.kid[s][tmp]
           new == {x} \cup U[ko] \cup U[inner]
           V == [n \in Links |-> IF n = x THEN new ELSE IF n = tmp THEN U[x] ELSE U[n]]
<1>1. M \in SUBSET Nodes /\ U \in [Links -> SUBSET Nodes] /\ U[NULL] = {} /\ NULL \notin M
      /\ o \in Sides /\ o # s /\ Other(o) = s
  BY ForestType, OtherSide
<1>2. U[x] = {x} \cup U[tmp] \cup U[ko] /\ U[tmp] = {tmp} \cup U[outer] \cup U[inner]
      /\ U[x] \subseteq M
  BY <1>1, ForestSides, ForestType
<1>3. {ko, inner, outer} \subseteq M \cup {NULL}
  BY <1>1, ForestType
<1>4. x # tmp /\ x \notin U[tmp] /\ x \notin U[ko] /\ tmp \notin U[ko]
      /\ tmp \notin U[inner] /\ tmp \notin U[outer]
  <2>1. x \notin U[tmp] /\ x \notin U[ko] /\ tmp \notin U[inner] /\ tmp \notin U[outer] /\ tmp \in U[tmp]
    BY <1>1, ForestSelf
  <2>2. tmp \notin U[ko]
    BY <2>1, ForestApart
  <2> QED BY <2>1, <2>2
<1>5. x \notin {ko, inner, outer} /\ tmp \notin {ko, inner, outer}
  <2>1. \A n \in M : n \in U[n]
    BY ForestSelf
  <2> QED BY <1>2, <1>4, <2>1
<1>6. \A n \in M, z \in Sides : t.kid[z][n] # x
  <2> TAKE n \in M, z \in Sides
  <2>1. t.kid[z][n] \in M => U[t.kid[z][n]] \subseteq U[n] /\ n \notin U[t.kid[z][n]]
    BY ForestSelf
  <2>2. x \in U[x] /\ \A a \in M : x \in U[a] => a = x
    BY WholeTop, ForestSelf
  <2> QED BY <2>1, <2>2
<1>7. ASSUME NEW n \in M, NEW z \in Sides, t.kid[z][n] = tmp PROVE n = x /\ z = s
  <2>1. tmp \in U[n] /\ tmp \in U[x] /\ n \notin U[tmp]
    BY <1>2, <1>7, ForestSelf
  <2>2. n \in U[x]
    BY <2>1 DEF Whole
  <2>3. n \notin U[ko]
    <3>1. ko \in M => \A a \in U[ko] : U[a] \subseteq U[ko]
      BY ForestTransitive
    <3> QED BY <1>1, <1>3, <1>4, <2>1, <3>1
  <2>4. n = x
    BY <1>2, <2>1, <2>2, <2>3
  <2>5. z # o
    BY <1>5, <1>7, <2>4
  <2> QED BY <2>4, <2>5, OtherSide
<1>8. /\ \A n \in Links : V[n] = IF n = x THEN new ELSE IF n = tmp THEN U[x] ELSE U[n]
      /\ new \subseteq U[x]
  BY <1>2
<1>9. V \in [Links -> SUBSET Nodes]
  BY <1>1, <1>2, <1>8
<1> HIDE DEF V
<1>10. V[NULL] = {} /\ V[ko] = U[ko] /\ V[inner] = U[inner] /\ V[outer] = U[outer]
       /\ V[tmp] = U[x] /\ V[x] = new
  BY <1>1, <1>3, <1>4, <1>5, <1>8 DEF Links
<1>11. \A n \in M : V[n] \subseteq M
  <2>1. \A n \in M : n \in Links /\ U[n] \subseteq M
    BY ForestType
  <2> HIDE DEF new
  <2> TAKE n \in M
  <2>2. V[n] = new \/ V[n] = U[x] \/ V[n] = U[n]
    BY <1>8, <2>1
  <2> QED BY <1>2, <1>8, <2>1, <2>2
<1> HIDE DEF ko, inner, outer
<1>12. /\ r.kid[s][x] = inner /\ r.kid[o][x] = ko
       /\ r.kid[s][tmp] = outer /\ r.kid[o][tmp] = x
       /\ \A n \in M \ {x, tmp}, z \in Sides : r.kid[z][n] = t.kid[z][n]
  BY <1>1, <1>4 DEF ko, inner, outer
<1> HIDE DEF o
<1>13. \A n \in M \ {x, tmp}, z \in Sides :
         r.kid[z][n] = t.kid[z][n] /\ V[t.kid[z][n]] = U[t.kid[z][n]]
  <2>1. \A n \in M, z \in Sides : t.kid[z][n] \in Links
    BY ForestType
  <2> QED BY <1>6, <1>7, <1>8, <1>12, <2>1
<1>14. \A n \in M, z \in Sides : r.kid[z][n] \in M \cup {NULL}
  <2>1. \A z \in Sides : z = s \/ z = o
    BY OtherSide DEF o
  <2>2. \A n \in M, z \in Sides : t.kid[z][n] \in M \cup {NULL}
    BY ForestType
  <2> QED BY <1>3, <1>12, <1>13, <2>1, <2>2
<1>15. ASSUME NEW n \in M
       PROVE  \E z \in Sides : V[n] = {n} \cup V[r.kid[z][n]] \cup V[r.kid[Other(z)][n]]
  <2>1. CASE n = x
    <3>1. V[n] = {n} \cup V[r.kid[s][n]] \cup V[r.kid[o][n]]
      BY <1>10, <1>12, <2>1
    <3> QED BY <3>1 DEF o
  <2>2. CASE n = tmp
    <3>1. V[n] = {n} \cup V[r.kid[s][n]] \cup V[r.kid[o][n]]
      BY <1>2, <1>10, <1>12, <2>2
    <3> QED BY <3>1 DEF o
  <2>3. CASE n \notin {x, tmp}
    <3>1. U[n] = {n} \cup U[t.kid[s][n]] \cup U[t.kid[o][n]]
      BY ForestSides DEF o
    <3>2. V[n] = U[n]
      BY <1>8, <2>3, ForestType
    <3>3. V[n] = {n} \cup V[r.kid[s][n]] \cup V[r.kid[o][n]]
      BY <1>1, <1>13, <2>3, <3>1, <3>2
    <3> QED BY <3>3 DEF o
  <2> QED BY <2>1, <2>2, <2>3
<1>16. ASSUME NEW n \in M, NEW z \in Sides, NEW m \in V[r.kid[z][n]] PROVE On(z, m, n)
  <2>1. CASE n \notin {x, tmp}
    BY <1>13, <1>16, <2>1, ForestSides
  <2>2. CASE n = x
    <3>1. CASE z = s
      <4>1. m \in U[tmp]
        BY <1>2, <1>10, <1>12, <1>16, <2>2, <3>1
      <4> QED BY <2>2, <3>1, <4>1, ForestSides
    <3>2. CASE z = o
      BY <1>10, <1>12, <1>16, <2>2, <3>2, ForestSides DEF ko
    <3> QED BY <3>1, <3>2, OtherSide DEF o
  <2>3. CASE n = tmp
    <3>1. CASE z = s
      BY <1>10, <1>12, <1>16, <2>3, <3>1, ForestSides DEF outer
    <3>2. CASE z = o
      <4>1. m = x \/ m \in U[ko] \/ m \in U[inner]
        BY <1>10, <1>12, <1>16, <2>3, <3>2
      <4>2. On(s, tmp, x)
        BY <1>4, ForestSides
      <4>3. On(o, x, tmp)
        BY <1>1, <4>2, OnOrder DEF o
      <4>4. m \in U[ko] => m \in M /\ On(o, m, x)
        BY <1>1, ForestSides DEF ko
      <4>5. m \in U[ko] => On(o, m, tmp)
        BY <1>1, <4>3, <4>4, OnOrder
      <4>6. m \in U[inner] => On(o, m, tmp)
        BY <1>1, ForestSides DEF inner
      <4> QED BY <2>3, <3>2, <4>1, <4>3, <4>5, <4>6
    <3> QED BY <3>1, <3>2, OtherSide DEF o
  <2> QED BY <2>1, <2>2, <2>3
<1>17. Forest(r, M, V)
  BY <1>1, <1>9, <1>10, <1>11, <1>14, <1>15, <1>16, ForestFrom
<1>18. \A n \in Links \ U[x] : V[n] = U[n]
  BY <1>2, <1>4, <1>8, ForestSelf
<1> QED BY <1>10, <1>17, <1>18

(* e is the end of the tree of h on the side s, where a tree of nodes that *)
(* are all on that side can be hung.                                       *)
End(t, U, s, h, e) ==
  e \in U[h] /\ t.kid[s][e] = NULL /\ \A a \in U[h] : a = e \/ On(s, e, a)

(* The nodes under x are on the side s of those under h.                   *)
Beside(U, s, x, h) == \A a \in U[h] : \A m \in U[x] : On(s, m, a)

LEMMA BesideApart ==
  ASSUME NEW t, NEW M, NEW U, Forest(t, M, U), NEW s \in Sides,
         NEW x \in M \cup {NULL}, NEW h \in M \cup {NULL}, Beside(U, s, x, h)
  PROVE  U[x] \cap U[h] = {}
<1>1. U[h] \subseteq M /\ \A a \in M : ~ On(s, a, a)
  BY ForestType, OnOrder
<1> QED BY <1>1 DEF Beside

(* r differs from t in one link: on the side s of n it leads to q.         *)
Relinked(r, t, M, s, n, q) ==
  \A z \in Sides, m \in M : r.kid[z][m] = IF z = s /\ m = n THEN q ELSE t.kid[z][m]

(* A tree is hung at the end of another one.                               *)
LEMMA GraftAtEnd ==
  ASSUME NEW t, NEW M, NEW U, Forest(t, M, U), NEW s \in Sides, NEW h \in M, NEW e,
         End(t, U, s, h, e), Whole(M, U, h), NEW q \in M \cup {NULL}, Beside(U, s, q, h),
         NEW r, Relinked(r, t, M, s, e, q)
  PROVE  \E V : /\ Forest(r, M, V) /\ V[h] = U[h] \cup U[q]
                /\ \A n \in M \ U[h] : V[n] = U[n]
<1> DEFINE V == [n \in Links |-> IF e \in U[n] THEN U[n] \cup U[q] ELSE U[n]]
<1>1. M \in SUBSET Nodes /\ U[NULL] = {} /\ U[h] \subseteq M /\ e \in M /\ h \in Links
      /\ e \in U[h] /\ U[q] \subseteq M
  BY ForestType DEF End
<1>2. \A m \in U[q] : On(s, m, e)
  BY <1>1 DEF Beside
<1>3. e \notin U[q]
  BY <1>1, <1>2, OnOrder
<1>4. \A n \in M, z \in Sides : e \in U[t.kid[z][n]] => \A m \in U[q] : On(z, m, n)
  <2> TAKE n \in M, z \in Sides
  <2> HAVE e \in U[t.kid[z][n]]
  <2>1. On(z, e, n) /\ e \in U[n]
    BY ForestSides, ForestSelf
  <2>2. n \in U[h]
    BY <1>1, <2>1 DEF Whole
  <2>3. n # e
    BY <1>1, <2>1, OnOrder
  <2>4. On(s, e, n)
    BY <2>2, <2>3 DEF End
  <2>5. z = s
    <3>1. NodeKey[e] \in Int /\ NodeKey[n] \in Int
      BY <1>1, ForestSelf
    <3> QED BY <2>1, <2>4, <3>1 DEF On, Sides
  <2> QED BY <2>2, <2>5 DEF Beside
<1>5. t.kid[s][e] = NULL
  BY DEF End
<1>6. Forest(r, M, V)
  BY <1>1, <1>2, <1>3, <1>4, <1>5, GraftForest DEF Relinked
<1>7. \A n \in M \ U[h] : e \notin U[n] /\ n \in Links
  BY <1>1, ForestType DEF Whole
<1> QED BY <1>1, <1>6, <1>7

(* What SPLAY_LINKLEFT and SPLAY_LINKRIGHT do to the links.                *)
LinkedTo(r, t, M, s, x, h, e) ==
  \A z \in Sides, n \in M : r.kid[z][n] = IF z = s /\ n = x THEN NULL
                                         ELSE IF h # NULL /\ z = s /\ n = e THEN x
                                         ELSE t.kid[z][n]

(* The nodes of the subtrees then.                                         *)
AfterLink(V, t, M, U, s, x, h) ==
  /\ V[IF h = NULL THEN x ELSE h] = U[h] \cup {x} \cup U[t.kid[Other(s)][x]]
  /\ \A n \in M \ (U[h] \cup {x}) : V[n] = U[n]

(* The root leaves its kid on the side s and goes, with its other kid, to  *)
(* the end of the tree of h.                                               *)
LEMMA LinkForest ==
  ASSUME NEW t, NEW M, NEW U, Forest(t, M, U), NEW s \in Sides, NEW x \in M, Whole(M, U, x),
         NEW h \in M \cup {NULL}, Whole(M, U, h), Beside(U, s, x, h),
         NEW e, h # NULL => End(t, U, s, h, e), NEW r, LinkedTo(r, t, M, s, x, h, e)
  PROVE  \E V : Forest(r, M, V) /\ AfterLink(V, t, M, U, s, x, h)
<1> USE DEF AfterLink
<1> DEFINE new == {x} \cup U[t.kid[Other(s)][x]]
           V == [n \in Links |-> IF n = x THEN new ELSE U[n]]
           c == [kid |-> [z \in Sides |-> [n \in M |->
                            IF z = s /\ n = x THEN NULL ELSE t.kid[z][n]]]]
<1>1. M \in SUBSET Nodes /\ U[NULL] = {} /\ U[h] \subseteq M /\ h \in Links /\ x \in Links
      /\ NULL \notin M
  BY ForestType
<1>2. \A z \in Sides, n \in M : c.kid[z][n] = IF z = s /\ n = x THEN NULL ELSE t.kid[z][n]
  OBVIOUS
<1> HIDE DEF c
<1>3. Forest(c, M, V)
  BY <1>2, WholeTop, CutForest
<1>4. new \subseteq U[x] /\ U[x] \cap U[h] = {} /\ x \in U[x] /\ x \notin U[h]
  BY BesideApart, ForestSelf, ForestSides
<1>5. V[x] = new /\ \A n \in M \ {x} : V[n] = U[n]
  BY <1>1, ForestType
<1>6. \A n \in Links \ {x} : V[n] = U[n]
  OBVIOUS
<1> HIDE DEF V
<1>7. CASE h = NULL
  <2>1. Forest(r, M, V)
    BY <1>2, <1>3, <1>7, ForestSame DEF LinkedTo
  <2> QED BY <1>1, <1>5, <1>7, <2>1
<1>8. CASE h # NULL
  <2>1. h \in M /\ h \in U[h] /\ h # x /\ V[h] = U[h] /\ End(t, U, s, h, e)
    BY <1>4, <1>5, <1>8, ForestSelf
  <2>2. e \in U[h] /\ e \in M /\ e # x
    BY <1>1, <1>4, <2>1 DEF End
  <2>3. End(c, V, s, h, e)
    BY <1>2, <2>1, <2>2 DEF End
  <2>4. Whole(M, V, h)
    <3> SUFFICES ASSUME NEW n \in M, n \notin V[h] PROVE V[n] \cap V[h] = {}
      BY DEF Whole
    <3>1. U[n] \cap U[h] = {}
      BY <2>1 DEF Whole
    <3> QED BY <1>4, <1>5, <2>1, <3>1
  <2>5. Beside(V, s, x, h)
    BY <1>4, <1>5, <2>1 DEF Beside
  <2>6. Relinked(r, c, M, s, e, x)
    BY <1>2, <1>8, <2>2 DEF Relinked, LinkedTo
  <2>7. PICK W : /\ Forest(r, M, W) /\ W[h] = V[h] \cup V[x]
                 /\ \A n \in M \ V[h] : W[n] = V[n]
    BY <1>3, <2>1, <2>3, <2>4, <2>5, <2>6, GraftAtEnd
  <2>8. \A n \in M \ (U[h] \cup {x}) : W[n] = U[n]
    BY <1>5, <2>1, <2>7
  <2>9. W[h] = U[h] \cup {x} \cup U[t.kid[Other(s)][x]]
    BY <1>5, <2>1, <2>7
  <2> QED BY <1>8, <2>7, <2>8, <2>9
<1> QED BY <1>7, <1>8

(* What SPLAY_ASSEMBLE does to the links on one side, and the nodes of the *)
(* subtrees then.                                                          *)
AssembledOn(r, t, M, s, x, h, e) ==
  \A z \in Sides, n \in M : r.kid[z][n] = IF h = NULL THEN t.kid[z][n]
                                         ELSE IF z = s /\ n = e THEN t.kid[Other(s)][x]
                                         ELSE IF z = Other(s) /\ n = x THEN h ELSE t.kid[z][n]
AfterAssembly(V, M, U, x, h) ==
  V[x] = U[x] \cup U[h] /\ \A n \in M \ (U[h] \cup {x}) : V[n] = U[n]

(* SPLAY_ASSEMBLE, on one side: the tree of h gets the other kid of the    *)
(* root at its end and becomes that kid.                                   *)
LEMMA AssembleForest ==
  ASSUME NEW t, NEW M, NEW U, Forest(t, M, U), NEW s \in Sides, NEW x \in M, Whole(M, U, x),
         NEW h \in M, Whole(M, U, h), Beside(U, s, x, h), NEW e, End(t, U, s, h, e),
         NEW r, AssembledOn(r, t, M, s, x, h, e)
  PROVE  \E V : Forest(r, M, V) /\ AfterAssembly(V, M, U, x, h)
<1> DEFINE o == Other(s)
           ko == t.kid[o][x]
           ks == t.kid[s][x]
           V == [n \in Links |-> IF n = x THEN {x} \cup U[ks] ELSE U[n]]
           c == [kid |-> [z \in Sides |-> [n \in M |-> IF z = o /\ n = x THEN NULL ELSE t.kid[z][n]]]]
           g == [kid |-> [z \in Sides |-> [n \in M |-> IF z = s /\ n = e THEN ko ELSE c.kid[z][n]]]]
<1>1. M \in SUBSET Nodes /\ U[NULL] = {} /\ U[h] \subseteq M /\ h \in Links /\ x \in Links
      /\ NULL \notin M /\ o \in Sides /\ o # s /\ Other(o) = s
  BY ForestType, OtherSide
<1>2. U[x] = {x} \cup U[ks] \cup U[ko] /\ ko \in M \cup {NULL} /\ ks \in M \cup {NULL}
      /\ x \notin U[ks] /\ x \notin U[ko] /\ U[x] \subseteq M
  BY <1>1, ForestSides, ForestSelf, ForestType
<1>3. U[x] \cap U[h] = {} /\ h \in U[h] /\ h # x /\ e \in U[h] /\ e # x /\ e \in M
  <2>1. U[x] \cap U[h] = {} /\ h \in U[h] /\ e \in U[h] /\ x \in U[x]
    BY BesideApart, ForestSelf DEF End
  <2> QED BY <1>1, <2>1
<1>4. /\ \A z \in Sides, n \in M : c.kid[z][n] = IF z = o /\ n = x THEN NULL ELSE t.kid[z][n]
      /\ \A z \in Sides, n \in M : g.kid[z][n] = IF z = s /\ n = e THEN ko ELSE c.kid[z][n]
      /\ Relinked(g, c, M, s, e, ko)
  BY DEF Relinked
<1> HIDE DEF c, g
<1>5. Forest(c, M, V)
  <2>1. \A n \in M : x \in U[n] => n = x
    BY WholeTop
  <2> HIDE DEF V
  <2>2. Forest(c, M, [n \in Links |-> IF n = x THEN {x} \cup U[t.kid[Other(o)][x]] ELSE U[n]])
    BY <1>1, <1>4, <2>1, CutForest
  <2> QED BY <1>1, <2>2 DEF V
<1>6. V[x] = {x} \cup U[ks] /\ \A n \in (M \cup {NULL}) \ {x} : V[n] = U[n]
  BY <1>1, ForestType
<1> HIDE DEF V
<1>7. V[h] = U[h] /\ V[ko] = U[ko]
  <2>1. ko # x
    BY <1>2, ForestSelf
  <2> QED BY <1>2, <1>3, <1>6, <2>1
<1> HIDE DEF ks
<1>8. End(c, V, s, h, e)
  BY <1>1, <1>3, <1>4, <1>7 DEF End
<1>9. Whole(M, V, h)
  <2> SUFFICES ASSUME NEW n \in M, n \notin V[h] PROVE V[n] \cap V[h] = {}
    BY DEF Whole
  <2>1. U[n] \cap U[h] = {}
    BY <1>7 DEF Whole
  <2>2. V[n] \subseteq U[n] \cup U[x]
    BY <1>2, <1>6
  <2> QED BY <1>3, <1>7, <2>1, <2>2
<1>10. Beside(V, s, ko, h)
  BY <1>2, <1>7 DEF Beside
<1> HIDE DEF ko
<1>11. PICK W : /\ Forest(g, M, W) /\ W[h] = V[h] \cup V[ko]
                /\ \A n \in M \ V[h] : W[n] = V[n]
  <2>1. h \in M /\ ko \in M \cup {NULL} /\ Relinked(g, c, M, s, e, ko)
    BY <1>2, <1>4
  <2> HIDE DEF Relinked
  <2> QED BY <1>5, <1>8, <1>9, <1>10, <2>1, GraftAtEnd
<1>12. W[x] = {x} \cup U[ks] /\ W[h] = U[h] \cup U[ko] /\ \A n \in M \ (U[h] \cup {x}) : W[n] = U[n]
  BY <1>3, <1>6, <1>7, <1>11, ForestSelf
<1> DEFINE X == [n \in Links |-> IF x \in W[n] THEN W[n] \cup W[h] ELSE W[n]]
<1>13. \A n \in M : x \in W[n] => n = x
  <2> TAKE n \in M
  <2>1. CASE n \in U[h]
    <3>1. W[n] \subseteq W[h]
      BY <1>11, <1>12, <2>1, ForestTransitive
    <3> QED BY <1>2, <1>3, <1>12, <3>1, ForestSelf
  <2>2. CASE n \notin U[h] /\ n # x
    <3>1. W[n] = U[n]
      BY <1>12, <2>2
    <3> QED BY <2>2, <3>1, WholeTop
  <2> QED BY <2>1, <2>2
<1>14. \A m \in W[h] : On(o, m, x)
  <2> TAKE m \in W[h]
  <2>1. CASE m \in U[ko]
    BY <1>1, <2>1, ForestSides DEF ko
  <2>2. CASE m \in U[h]
    <3>1. On(s, x, m) /\ m \in M
      BY <1>1, <2>2, ForestSelf DEF Beside
    <3> QED BY <1>1, <3>1, OnOrder
  <2> QED BY <1>12, <2>1, <2>2
<1>15. \A n \in M, z \in Sides : x \in W[g.kid[z][n]] => \A m \in W[h] : On(z, m, n)
  <2> SUFFICES ASSUME NEW n \in M, NEW z \in Sides, x \in W[g.kid[z][n]] PROVE FALSE
    OBVIOUS
  <2>1. W[g.kid[z][n]] \subseteq W[n] /\ n \notin W[g.kid[z][n]]
    BY <1>11, ForestSelf
  <2> QED BY <1>13, <2>1
<1>16. g.kid[o][x] = NULL /\ x \notin W[h]
  BY <1>1, <1>3, <1>4, <1>13
<1>17. \A z \in Sides, n \in M : r.kid[z][n] = IF z = o /\ n = x THEN h ELSE g.kid[z][n]
  BY <1>1, <1>3, <1>4 DEF ko, AssembledOn
<1>18. Forest(r, M, X)
  <2> HIDE DEF o
  <2> QED BY <1>1, <1>11, <1>14, <1>15, <1>16, <1>17, GraftForest, SMTT(20)
<1>19. X[x] = W[x] \cup W[h] /\ \A n \in M \ {x} : X[n] = W[n]
  <2>1. x \in W[x]
    BY <1>12
  <2> QED BY <1>1, <1>13, <2>1, ForestType
<1> HIDE DEF X
<1>20. X[x] = U[x] \cup U[h] /\ \A n \in M \ (U[h] \cup {x}) : X[n] = U[n]
  BY <1>2, <1>12, <1>19
<1> QED BY <1>18, <1>20 DEF AfterAssembly

-----------------------------------------------------------------------------
(* The splay tree, and the loop of SPLAY: the tree, whether it has stopped *)
(* and the ends of the two trees that it takes apart.                      *)
Spots == Nodes \cup {Local}
STrees == [kid : [Sides -> [Spots -> Links]], root : Links]
SStates == [t : STrees, stop : BOOLEAN, end : [Sides -> Spots]]

LEMMA LocalApart == Local \notin Nodes /\ Local # NULL /\ Nodes \subseteq Spots
                    /\ NULL \notin Spots /\ Local \in Spots
BY NodesAssumption DEF Spots

LEMMA STreeType ==
  ASSUME NEW t \in STrees
  PROVE  /\ Linked(t) /\ t.root \in Links
         /\ \A z \in Sides, n \in Spots : t.kid[z][n] \in Links
BY DEF STrees, Linked, Spots

LEMMA SetSpotIs ==
  ASSUME NEW t \in STrees, NEW s \in Sides, NEW n \in Spots, NEW m \in Links
  PROVE  LET r == [t EXCEPT !.kid[s][n] = m]
         IN  /\ r \in STrees /\ r.root = t.root
             /\ \A z \in Sides, a \in Spots : r.kid[z][a] = IF z = s /\ a = n THEN m ELSE t.kid[z][a]
BY DEF STrees

LEMMA SetTopIs ==
  ASSUME NEW t \in STrees, NEW m \in Links
  PROVE  LET r == [t EXCEPT !.root = m]
         IN  r \in STrees /\ r.root = m /\ r.kid = t.kid
BY DEF STrees

(* r is t with tmp, a kid of the root, rotated to the root.                *)
Rotated(r, t, tmp, s) ==
  /\ r \in STrees /\ r.root = tmp
  /\ \A z \in Sides, a \in Spots :
       r.kid[z][a] = IF z = Other(s) /\ a = t.root THEN t.kid[s][tmp]
                     ELSE IF z = s /\ a = tmp THEN t.root ELSE t.kid[z][a]

LEMMA SplayRotateIs ==
  ASSUME NEW t \in STrees, NEW s \in Sides, NEW tmp \in Nodes, t.root \in Nodes
  PROVE  Rotated(SPLAY_ROTATE(t, tmp, s), t, tmp, s)
<1> DEFINE r1 == [t EXCEPT !.kid[Other(s)][t.root] = t.kid[s][tmp]]
           r2 == [r1 EXCEPT !.kid[s][tmp] = t.root]
           r3 == [r2 EXCEPT !.root = tmp]
<1>1. t.root \in Spots /\ tmp \in Spots /\ t.kid[s][tmp] \in Links /\ t.root \in Links /\ tmp \in Links
      /\ Other(s) \in Sides /\ Other(s) # s
  BY LocalApart, STreeType, OtherSide DEF Links
<1>2. /\ r1 \in STrees /\ r1.root = t.root
      /\ \A z \in Sides, a \in Spots :
           r1.kid[z][a] = IF z = Other(s) /\ a = t.root THEN t.kid[s][tmp] ELSE t.kid[z][a]
  BY <1>1, SetSpotIs, SMTT(30)
<1> HIDE DEF r1
<1>3. /\ r2 \in STrees /\ r2.root = r1.root
      /\ \A z \in Sides, a \in Spots :
           r2.kid[z][a] = IF z = s /\ a = tmp THEN t.root ELSE r1.kid[z][a]
  BY <1>1, <1>2, SetSpotIs, SMTT(30)
<1> HIDE DEF r2
<1>4. r3 \in STrees /\ r3.root = tmp /\ r3.kid = r2.kid
  BY <1>1, <1>3, SetTopIs
<1> HIDE DEF r3
<1>5. SPLAY_ROTATE(t, tmp, s) = r3
  BY DEF SPLAY_ROTATE, r1, r2, r3
<1>6. Rotated(r3, t, tmp, s)
  BY <1>1, <1>2, <1>3, <1>4 DEF Rotated
<1> QED BY <1>5, <1>6

LEMMA SplayLinkIs ==
  ASSUME NEW d \in SStates, NEW s \in Sides, d.t.root \in Nodes
  PROVE  LET r == SPLAY_LINK(d, s)
         IN  /\ r \in SStates /\ r.stop = d.stop
             /\ r.t.root = d.t.kid[s][d.t.root]
             /\ \A z \in Sides : r.end[z] = IF z = s THEN d.t.root ELSE d.end[z]
             /\ \A z \in Sides, a \in Spots :
                  r.t.kid[z][a] = IF z = s /\ a = d.end[s] THEN d.t.root ELSE d.t.kid[z][a]
<1> DEFINE u1 == [d.t EXCEPT !.kid[s][d.end[s]] = d.t.root]
           u2 == [u1 EXCEPT !.root = d.t.kid[s][d.t.root]]
           f == [d.end EXCEPT ![s] = d.t.root]
<1>1. d.t \in STrees /\ d.end \in [Sides -> Spots] /\ d.stop \in BOOLEAN
  BY DEF SStates
<1>2. d.t.root \in Spots /\ d.t.root \in Links /\ d.t.kid[s][d.t.root] \in Links /\ d.end[s] \in Spots
  BY <1>1, LocalApart, STreeType DEF Links
<1>3. /\ u1 \in STrees /\ u1.root = d.t.root
      /\ \A z \in Sides, a \in Spots :
           u1.kid[z][a] = IF z = s /\ a = d.end[s] THEN d.t.root ELSE d.t.kid[z][a]
  <2> DEFINE t == d.t
             e == d.end[s]
             x == d.t.root
  <2>1. t \in STrees /\ e \in Spots /\ x \in Links
    BY <1>1, <1>2
  <2> HIDE DEF t, e, x
  <2>2. LET r == [t EXCEPT !.kid[s][e] = x]
        IN  /\ r \in STrees /\ r.root = t.root
            /\ \A z \in Sides, a \in Spots : r.kid[z][a] = IF z = s /\ a = e THEN x ELSE t.kid[z][a]
    BY <2>1, SetSpotIs
  <2> QED BY <2>2 DEF t, e, x
<1> HIDE DEF u1
<1>4. u2 \in STrees /\ u2.root = d.t.kid[s][d.t.root] /\ u2.kid = u1.kid
  BY <1>2, <1>3, SetTopIs
<1> HIDE DEF u2
<1>5. f \in [Sides -> Spots] /\ \A z \in Sides : f[z] = IF z = s THEN d.t.root ELSE d.end[z]
  BY <1>1, <1>2
<1> HIDE DEF f
<1>6. SPLAY_LINK(d, s) = [t |-> u2, stop |-> d.stop, end |-> f]
  <2> DEFINE d1 == [d EXCEPT !.t.kid[s][d.end[s]] = d.t.root]
             d2 == [d1 EXCEPT !.end[s] = d.t.root]
             d3 == [d2 EXCEPT !.t.root = d.t.kid[s][d.t.root]]
  <2>1. d1 = [t |-> u1, stop |-> d.stop, end |-> d.end]
    BY DEF SStates, u1
  <2>2. d2 = [t |-> u1, stop |-> d.stop, end |-> f]
    <3> HIDE DEF d1
    <3> QED BY <2>1 DEF f
  <2>3. d3 = [t |-> u2, stop |-> d.stop, end |-> f]
    <3> HIDE DEF d2
    <3> QED BY <2>2 DEF u2
  <2>4. SPLAY_LINK(d, s) = d3
    BY DEF SPLAY_LINK
  <2> QED BY <2>3, <2>4
<1>7. [t |-> u2, stop |-> d.stop, end |-> f] \in SStates
  BY <1>1, <1>4, <1>5 DEF SStates
<1> QED BY <1>3, <1>4, <1>5, <1>6, <1>7

(* Without the links that the ends still hold.                             *)
Opened(d) ==
  [kid |-> [s \in Sides |-> [n \in Nodes |-> IF n = d.end[s] THEN NULL ELSE d.t.kid[s][n]]]]

(* The top of the tree that was taken apart on the side s.                 *)
Aside(d, s) == IF d.end[s] = Local THEN NULL ELSE d.t.kid[s][Local]

(* A key lies beyond the nodes that lie beyond a node it is beyond.        *)
Sided(M, side) ==
  \A n \in M : /\ side[n] \in Sides \cup {"here"}
               /\ \A s \in Sides : side[n] = s => \A m \in M : On(Other(s), m, n) => side[m] = s

Stopped(t, side) == side[t.root] = "here" \/ t.kid[side[t.root]][t.root] = NULL

(* The loop of SPLAY over a tree of the nodes in M that began as t0: the   *)
(* tree at the root and the two that were taken apart have all the nodes,  *)
(* and the key lies, as side says, between those two.                      *)
Splaying(d, t0, M, side, U) ==
  /\ d \in SStates /\ Forest(Opened(d), M, U) /\ d.t.root \in M
  /\ M = U[d.t.root] \cup U[Aside(d, "left")] \cup U[Aside(d, "right")]
  /\ \A z \in Sides : /\ Beside(U, z, d.t.root, Aside(d, z))
                      /\ \A a \in U[Aside(d, z)] : side[a] = z
                      /\ d.end[z] = Local \/ /\ Aside(d, z) \in M
                                             /\ End(Opened(d), U, z, Aside(d, z), d.end[z])
  /\ \A z \in Sides : \A n \in Nodes \ M : d.t.kid[z][n] = t0.kid[z][n]
  /\ d.stop => Stopped(d.t, side)

LEMMA OpenedIs ==
  ASSUME NEW d
  PROVE  \A z \in Sides, n \in Nodes :
           Opened(d).kid[z][n] = IF n = d.end[z] THEN NULL ELSE d.t.kid[z][n]
BY DEF Opened

(* The three trees share no node, and the links of the one at the root are *)
(* those of the tree.                                                      *)
LEMMA SplayingParts ==
  ASSUME NEW d, NEW t0, NEW M, NEW side, NEW U, Splaying(d, t0, M, side, U)
  PROVE  /\ Whole(M, U, d.t.root) /\ U[d.t.root] \subseteq M
         /\ \A z \in Sides :
              /\ Aside(d, z) \in M \cup {NULL} /\ Whole(M, U, Aside(d, z))
              /\ U[d.t.root] \cap U[Aside(d, z)] = {} /\ U[Aside(d, z)] \cap U[Aside(d, Other(z))] = {}
              /\ d.end[z] # Local => d.end[z] \in U[Aside(d, z)] /\ Aside(d, z) # NULL
              /\ \A n \in U[d.t.root] : Opened(d).kid[z][n] = d.t.kid[z][n] /\ n # d.end[z]
<1>1. Forest(Opened(d), M, U) /\ d.t.root \in M
      /\ M = U[d.t.root] \cup U[Aside(d, "left")] \cup U[Aside(d, "right")]
  BY DEF Splaying
<1>2. /\ M \in SUBSET Nodes /\ NULL \notin M /\ U[NULL] = {}
      /\ \A n \in M \cup {NULL} : U[n] \subseteq M
  BY <1>1, ForestType
<1>3. \A z \in Sides : Aside(d, z) \in M \cup {NULL}
  BY DEF Splaying, Aside
<1>4. \A z \in Sides : U[d.t.root] \cap U[Aside(d, z)] = {}
  <2> TAKE z \in Sides
  <2>1. Beside(U, z, d.t.root, Aside(d, z)) /\ Aside(d, z) \in M \cup {NULL}
    BY <1>3 DEF Splaying
  <2> QED BY <1>1, <2>1, BesideApart
<1>5. \A z \in Sides : U[Aside(d, z)] \cap U[Aside(d, Other(z))] = {}
  <2> TAKE z \in Sides
  <2>1. \A y \in Sides : \A a \in U[Aside(d, y)] : side[a] = y
    BY DEF Splaying
  <2> QED BY <2>1, OtherSide
<1>6. /\ "left" \in Sides /\ "right" \in Sides /\ Other("left") = "right"
      /\ \A z \in Sides : z = "left" \/ z = "right"
  BY DEF Sides, Other
<1>7. Whole(M, U, d.t.root) /\ Whole(M, U, Aside(d, "left")) /\ Whole(M, U, Aside(d, "right"))
  <2> DEFINE l == Aside(d, "left")
             k == Aside(d, "right")
             x == d.t.root
  <2>1. /\ l \in M \cup {NULL} /\ k \in M \cup {NULL} /\ x \in M \cup {NULL}
        /\ M = U[x] \cup U[l] \cup U[k]
        /\ U[x] \cap U[l] = {} /\ U[x] \cap U[k] = {} /\ U[l] \cap U[k] = {}
    BY <1>1, <1>3, <1>4, <1>5, <1>6
  <2> HIDE DEF l, k, x
  <2>2. Whole(M, U, x) /\ Whole(M, U, l) /\ Whole(M, U, k)
    BY <1>1, <2>1, WholeFrom
  <2> QED BY <2>2 DEF l, k, x
<1>8. \A z \in Sides : d.end[z] # Local => d.end[z] \in U[Aside(d, z)] /\ Aside(d, z) # NULL
  BY <1>2 DEF Splaying, End
<1>9. \A z \in Sides : \A n \in U[d.t.root] : Opened(d).kid[z][n] = d.t.kid[z][n] /\ n # d.end[z]
  <2> TAKE z \in Sides
  <2> TAKE n \in U[d.t.root]
  <2>1. n \in Nodes /\ n # Local
    BY <1>1, <1>2, LocalApart
  <2>2. n # d.end[z]
    BY <1>4, <1>8, <2>1
  <2> QED BY <2>1, <2>2, OpenedIs
<1> QED BY <1>1, <1>2, <1>3, <1>4, <1>5, <1>6, <1>7, <1>8, <1>9

(* The rotation leaves the nodes of the tree at the root what they are.    *)
LEMMA SplayTurns ==
  ASSUME NEW d, NEW t0, NEW M, NEW side, NEW U, Splaying(d, t0, M, side, U), ~ d.stop,
         NEW s \in Sides, NEW tmp, tmp = d.t.kid[s][d.t.root], tmp # NULL
  PROVE  LET r == [d EXCEPT !.t = SPLAY_ROTATE(d.t, tmp, Other(s))]
         IN  /\ r.t.root = tmp /\ r.stop = d.stop
             /\ \E V : Splaying(r, t0, M, side, V) /\ V[tmp] = U[d.t.root]
<1> DEFINE x == d.t.root
           o == Other(s)
           t1 == SPLAY_ROTATE(d.t, tmp, o)
           r == [d EXCEPT !.t = t1]
<1>1. /\ d \in SStates /\ Forest(Opened(d), M, U) /\ x \in M
      /\ M = U[x] \cup U[Aside(d, "left")] \cup U[Aside(d, "right")]
      /\ M \in SUBSET Nodes /\ NULL \notin M /\ U[NULL] = {} /\ M \subseteq Links
      /\ o \in Sides /\ o # s /\ Other(o) = s
  BY ForestType, OtherSide DEF Splaying, Links
<1>2. /\ Whole(M, U, x) /\ U[x] \subseteq M
      /\ \A z \in Sides :
           /\ Aside(d, z) \in M \cup {NULL}
           /\ U[x] \cap U[Aside(d, z)] = {}
           /\ d.end[z] # Local => d.end[z] \in U[Aside(d, z)]
           /\ \A n \in U[x] : Opened(d).kid[z][n] = d.t.kid[z][n] /\ n # d.end[z]
  BY SplayingParts
<1>3. tmp = Opened(d).kid[s][x] /\ tmp \in M /\ tmp \in U[x] /\ x \in U[x]
  <2>1. x \in U[x]
    BY <1>1, ForestSelf
  <2>2. tmp = Opened(d).kid[s][x]
    BY <1>2, <2>1
  <2> QED BY <1>1, <2>1, <2>2, ForestSides
<1>4. d.t \in STrees /\ d.end \in [Sides -> Spots] /\ d.stop \in BOOLEAN
      /\ d = [t |-> d.t, stop |-> d.stop, end |-> d.end]
  BY <1>1 DEF SStates
<1>5. /\ t1 \in STrees /\ t1.root = tmp
      /\ \A z \in Sides, a \in Spots :
           t1.kid[z][a] = IF z = s /\ a = x THEN d.t.kid[o][tmp]
                          ELSE IF z = o /\ a = tmp THEN x ELSE d.t.kid[z][a]
  <2>1. tmp \in Nodes /\ x \in Nodes
    BY <1>1, <1>3
  <2> HIDE DEF o
  <2>2. /\ t1 \in STrees /\ t1.root = tmp
        /\ \A z \in Sides, a \in Spots :
             t1.kid[z][a] = IF z = Other(o) /\ a = d.t.root THEN d.t.kid[o][tmp]
                            ELSE IF z = o /\ a = tmp THEN d.t.root ELSE d.t.kid[z][a]
    <3>1. d.t \in STrees
      BY <1>4
    <3>2. o \in Sides /\ tmp \in Nodes /\ d.t.root \in Nodes
      BY <1>1, <2>1
    <3>3. Rotated(t1, d.t, tmp, o)
      BY <3>1, <3>2, SplayRotateIs
    <3> HIDE DEF t1
    <3> QED BY <3>3 DEF Rotated
  <2> HIDE DEF t1
  <2> QED BY <1>1, <2>2
<1> HIDE DEF t1
<1>6. r = [t |-> t1, stop |-> d.stop, end |-> d.end]
  BY <1>4
<1>7. r \in SStates /\ r.t = t1 /\ r.stop = d.stop /\ r.end = d.end
  BY <1>4, <1>5, <1>6 DEF SStates
<1> HIDE DEF r
<1>8. \A z \in Sides : Aside(r, z) = Aside(d, z)
  <2> TAKE z \in Sides
  <2>1. Local \in Spots /\ Local # x /\ Local # tmp
    BY <1>1, <1>3, LocalApart
  <2>2. t1.kid[z][Local] = d.t.kid[z][Local]
    BY <1>5, <2>1
  <2> QED BY <1>7, <2>2 DEF Aside
<1>9. \A z \in Sides, n \in M :
        Opened(r).kid[z][n] = IF z = s /\ n = x THEN Opened(d).kid[o][tmp]
                              ELSE IF z = o /\ n = tmp THEN x ELSE Opened(d).kid[z][n]
  <2> TAKE z \in Sides, n \in M
  <2>1. n \in Nodes /\ n \in Spots
    BY <1>1, LocalApart
  <2>2. Opened(r).kid[z][n] = IF n = d.end[z] THEN NULL ELSE t1.kid[z][n]
    BY <1>7, <2>1, OpenedIs
  <2>3. Opened(d).kid[z][n] = IF n = d.end[z] THEN NULL ELSE d.t.kid[z][n]
    BY <2>1, OpenedIs
  <2>4. Opened(d).kid[o][tmp] = d.t.kid[o][tmp] /\ x # d.end[z] /\ tmp # d.end[z]
    BY <1>1, <1>2, <1>3
  <2> QED BY <1>5, <2>1, <2>2, <2>3, <2>4
<1>10. PICK V : /\ Forest(Opened(r), M, V) /\ V[tmp] = U[x]
                /\ \A n \in Links \ U[x] : V[n] = U[n]
  <2>1. \A z \in Sides, n \in M :
          Opened(r).kid[z][n] = IF z = s /\ n = x THEN Opened(d).kid[Other(s)][tmp]
                                ELSE IF z = Other(s) /\ n = tmp THEN x ELSE Opened(d).kid[z][n]
    BY <1>9
  <2> HIDE DEF o, x
  <2> QED BY <1>1, <1>2, <1>3, <2>1, TurnForest
<1>11. \A z \in Sides : V[Aside(r, z)] = U[Aside(d, z)]
  <2> TAKE z \in Sides
  <2>1. Aside(d, z) \notin U[x] /\ Aside(d, z) \in Links
    <3>1. Aside(d, z) \in M => Aside(d, z) \in U[Aside(d, z)]
      BY <1>1, ForestSelf
    <3>2. NULL \notin U[x] /\ NULL \in Links
      BY <1>1, <1>2 DEF Links
    <3> QED BY <1>1, <1>2, <3>1, <3>2
  <2> QED BY <1>8, <1>10, <2>1
<1>12. \A z \in Sides : /\ Beside(V, z, tmp, Aside(r, z))
                        /\ \A a \in V[Aside(r, z)] : side[a] = z
                        /\ r.end[z] = Local \/ /\ Aside(r, z) \in M
                                               /\ End(Opened(r), V, z, Aside(r, z), r.end[z])
  <2> TAKE z \in Sides
  <2>1. /\ Beside(U, z, x, Aside(d, z))
        /\ \A a \in U[Aside(d, z)] : side[a] = z
        /\ d.end[z] = Local \/ /\ Aside(d, z) \in M
                               /\ End(Opened(d), U, z, Aside(d, z), d.end[z])
    BY DEF Splaying
  <2>2. Beside(V, z, tmp, Aside(r, z))
    BY <1>10, <1>11, <2>1 DEF Beside
  <2>3. ASSUME d.end[z] # Local PROVE End(Opened(r), V, z, Aside(r, z), r.end[z])
    <3>1. End(Opened(d), U, z, Aside(d, z), d.end[z])
      BY <2>1, <2>3
    <3>2. d.end[z] \in Nodes
      BY <1>4, <2>3 DEF Spots
    <3>3. Opened(r).kid[z][d.end[z]] = NULL
      BY <1>7, <3>2, OpenedIs
    <3> QED BY <1>7, <1>11, <3>1, <3>3 DEF End
  <2> QED BY <1>7, <1>8, <1>11, <2>1, <2>2, <2>3
<1>13. M = V[tmp] \cup V[Aside(r, "left")] \cup V[Aside(r, "right")]
  BY <1>1, <1>10, <1>11 DEF Sides
<1>14. \A z \in Sides : \A n \in Nodes \ M : t1.kid[z][n] = t0.kid[z][n]
  <2> TAKE z \in Sides
  <2> TAKE n \in Nodes \ M
  <2>1. d.t.kid[z][n] = t0.kid[z][n]
    BY DEF Splaying
  <2>2. n \in Spots /\ n # x /\ n # tmp
    BY <1>1, <1>3, LocalApart
  <2>3. t1.kid[z][n] = d.t.kid[z][n]
    BY <1>5, <2>2
  <2> QED BY <2>1, <2>3
<1>15. Splaying(r, t0, M, side, V)
  <2>1. r.t.root = tmp /\ ~ r.stop
    BY <1>5, <1>7
  <2>2. \A z \in Sides : \A n \in Nodes \ M : r.t.kid[z][n] = t0.kid[z][n]
    BY <1>7, <1>14
  <2> QED BY <1>3, <1>7, <1>10, <1>12, <1>13, <2>1, <2>2 DEF Splaying
<1> QED BY <1>5, <1>7, <1>10, <1>15 DEF r, t1

(* A link leaves a smaller tree at the root.                               *)
LEMMA SplayLinks ==
  ASSUME NEW d, NEW t0, NEW M, NEW side, NEW U, Splaying(d, t0, M, side, U), ~ d.stop,
         Sided(M, side), NEW s \in Sides, side[d.t.root] = s, d.t.kid[s][d.t.root] # NULL
  PROVE  LET r == SPLAY_LINK(d, s)
         IN  \E V : /\ Splaying(r, t0, M, side, V)
                    /\ Cardinality(V[r.t.root]) \in Nat /\ Cardinality(U[d.t.root]) \in Nat
                    /\ Cardinality(V[r.t.root]) < Cardinality(U[d.t.root])
<1> DEFINE x == d.t.root
           o == Other(s)
           q == d.t.kid[s][x]
           e == d.end[s]
           h == Aside(d, s)
           g == Aside(d, o)
           ko == Opened(d).kid[o][x]
           r == SPLAY_LINK(d, s)
           top == IF h = NULL THEN x ELSE h
<1>1. /\ d \in SStates /\ Forest(Opened(d), M, U) /\ x \in M
      /\ M \in SUBSET Nodes /\ NULL \notin M /\ U[NULL] = {} /\ M \subseteq Links
      /\ o \in Sides /\ o # s /\ Other(o) = s
  BY ForestType, OtherSide DEF Splaying, Links
<1>2. /\ Whole(M, U, x) /\ U[x] \subseteq M
      /\ h \in M \cup {NULL} /\ Whole(M, U, h) /\ g \in M \cup {NULL}
      /\ U[x] \cap U[h] = {} /\ U[x] \cap U[g] = {} /\ U[h] \cap U[g] = {}
      /\ e # Local => e \in U[h] /\ h # NULL
      /\ \A z \in Sides : \A n \in U[x] : Opened(d).kid[z][n] = d.t.kid[z][n] /\ n # d.end[z]
  <2> HIDE DEF o
  <2> QED BY <1>1, SplayingParts DEF o
<1>3. M = U[x] \cup U[h] \cup U[g]
  <2>1. M = U[x] \cup U[Aside(d, "left")] \cup U[Aside(d, "right")]
    BY DEF Splaying
  <2> QED BY <2>1 DEF Sides, Other
<1>4. x \in U[x] /\ q = Opened(d).kid[s][x] /\ q \in M /\ q # x
      /\ U[x] = {x} \cup U[q] \cup U[ko] /\ x \notin U[q] /\ q \in U[q]
  <2>1. x \in U[x]
    BY <1>1, ForestSelf
  <2>2. q = Opened(d).kid[s][x]
    BY <1>2, <2>1
  <2>3. q \in M \cup {NULL} /\ U[x] = {x} \cup U[q] \cup U[ko] /\ x \notin U[q]
    <3> HIDE DEF q
    <3>1. q \in M \cup {NULL} /\ U[x] = {x} \cup U[q] \cup U[ko]
      BY <1>1, <2>2, ForestSides
    <3>2. x \notin U[q]
      BY <1>1, <2>2, ForestSelf
    <3> QED BY <3>1, <3>2
  <2>4. q \in M
    BY <2>3
  <2>5. q \in U[q]
    <3> HIDE DEF q
    <3> QED BY <1>1, <2>4, ForestSelf
  <2> QED BY <2>1, <2>2, <2>3, <2>4, <2>5
<1>5. /\ Beside(U, s, x, h) /\ \A a \in U[h] : side[a] = s
      /\ Beside(U, o, x, g) /\ \A a \in U[g] : side[a] = o
      /\ h # NULL => e # Local /\ End(Opened(d), U, s, h, e)
      /\ d.end[o] # Local => g \in M /\ End(Opened(d), U, o, g, d.end[o])
  BY <1>1 DEF Splaying, Aside
<1>6. /\ r \in SStates /\ r.stop = d.stop /\ r.t.root = q
      /\ \A z \in Sides : r.end[z] = IF z = s THEN x ELSE d.end[z]
      /\ \A z \in Sides, a \in Spots :
           r.t.kid[z][a] = IF z = s /\ a = e THEN x ELSE d.t.kid[z][a]
  BY <1>1, SplayLinkIs
<1> HIDE DEF r
<1>7. Aside(r, s) = top /\ Aside(r, o) = g
  <2>1. x # Local /\ Local \in Spots
    BY <1>1, LocalApart
  <2>2. e = Local <=> h = NULL
    BY <1>2 DEF Aside
  <2> QED BY <1>1, <1>6, <2>1, <2>2 DEF Aside
<1>8. \A z \in Sides, n \in M :
        Opened(r).kid[z][n] = IF z = s /\ n = x THEN NULL
                              ELSE IF h # NULL /\ z = s /\ n = e THEN x
                              ELSE Opened(d).kid[z][n]
  <2> TAKE z \in Sides, n \in M
  <2>1. n \in Nodes /\ n \in Spots /\ n # Local
    BY <1>1, LocalApart
  <2>5. x # e
    BY <1>2, <1>4
  <2>2. Opened(r).kid[z][n] = IF n = r.end[z] THEN NULL ELSE r.t.kid[z][n]
    BY <2>1, OpenedIs
  <2>3. Opened(d).kid[z][n] = IF n = d.end[z] THEN NULL ELSE d.t.kid[z][n]
    BY <2>1, OpenedIs
  <2>4. n = e => h # NULL
    BY <1>2, <2>1
  <2> QED BY <1>6, <2>1, <2>2, <2>3, <2>4, <2>5
<1>9. PICK V : /\ Forest(Opened(r), M, V)
               /\ V[top] = U[h] \cup {x} \cup U[ko]
               /\ \A n \in M \ (U[h] \cup {x}) : V[n] = U[n]
  <2>1. h # NULL => End(Opened(d), U, s, h, e)
    BY <1>5
  <2>2. LinkedTo(Opened(r), Opened(d), M, s, x, h, e)
    BY <1>8 DEF LinkedTo
  <2> DEFINE a == Opened(d)
             b == Opened(r)
  <2>3. /\ Forest(a, M, U) /\ x \in M /\ Whole(M, U, x) /\ h \in M \cup {NULL}
        /\ Whole(M, U, h) /\ Beside(U, s, x, h) /\ (h # NULL => End(a, U, s, h, e))
        /\ LinkedTo(b, a, M, s, x, h, e)
    BY <1>1, <1>2, <1>5, <2>1, <2>2
  <2> HIDE DEF x, h, e, q, a, b, Whole, Beside, End, LinkedTo
  <2>4. \E V : Forest(b, M, V) /\ AfterLink(V, a, M, U, s, x, h)
    BY <2>3, LinkForest
  <2> QED BY <2>4 DEF a, b, x, AfterLink
<1>10. V[q] = U[q] /\ V[g] = U[g] /\ q # NULL /\ V[NULL] = {}
  <2>1. q \notin U[h] \cup {x}
    BY <1>2, <1>4
  <2>2. g \in M => g \notin U[h] \cup {x}
    <3>1. g \in M => g \in U[g]
      BY <1>1, ForestSelf
    <3> QED BY <1>2, <1>4, <3>1
  <2>3. V[NULL] = {}
    BY <1>9, ForestType
  <2> HIDE DEF q, x, h, g, top
  <2> QED BY <1>1, <1>2, <1>4, <1>9, <2>1, <2>2, <2>3
<1>11. \A a \in U[ko] : side[a] = s /\ On(s, x, a) /\ a \in M
  <2> TAKE a \in U[ko]
  <2>1. a \in M /\ On(o, a, x)
    BY <1>1, ForestSides
  <2>2. On(s, x, a)
    BY <1>1, <2>1, OnOrder
  <2>3. side[a] = s
    BY <1>1, <2>1 DEF Sided
  <2> QED BY <2>1, <2>2, <2>3
<1>12. \A m \in U[q] : On(s, m, x) /\ m \in M
  <2> HIDE DEF q, x
  <2>1. \A m \in U[Opened(d).kid[s][x]] : m \in M /\ On(s, m, x)
    BY <1>1, ForestSides
  <2> QED BY <1>4, <2>1
<1> HIDE DEF ko
<1>13. Beside(V, s, q, top) /\ Beside(V, o, q, g)
  <2>1. ASSUME NEW a \in V[top], NEW m \in U[q] PROVE On(s, m, a)
    <3>1. CASE a \in U[h]
      BY <1>4, <1>5, <2>1, <3>1 DEF Beside
    <3>2. CASE a = x
      BY <1>12, <2>1, <3>2
    <3>3. CASE a \in U[ko]
      BY <1>1, <1>11, <1>12, <2>1, <3>3, OnOrder
    <3> QED BY <1>9, <2>1, <3>1, <3>2, <3>3
  <2>2. \A a \in U[g] : \A m \in U[q] : On(o, m, a)
    BY <1>4, <1>5 DEF Beside
  <2> QED BY <1>10, <2>1, <2>2 DEF Beside
<1>14. \A a \in V[top] : side[a] = s
  BY <1>5, <1>9, <1>11
<1>15. End(Opened(r), V, s, top, x) /\ top \in M
  <2>1. Opened(r).kid[s][x] = NULL
    BY <1>1, <1>8
  <2>2. \A a \in U[h] : On(s, x, a)
    BY <1>4, <1>5 DEF Beside
  <2>3. \A a \in V[top] : a = x \/ On(s, x, a)
    BY <1>9, <1>11, <2>2
  <2>4. x \in V[top] /\ top \in M
    BY <1>1, <1>2, <1>9
  <2> QED BY <2>1, <2>3, <2>4 DEF End
<1>16. d.end[o] # Local => g \in M /\ End(Opened(r), V, o, g, d.end[o])
  <2> HAVE d.end[o] # Local
  <2>1. g \in M /\ End(Opened(d), U, o, g, d.end[o])
    BY <1>5
  <2>2. d.end[o] \in M /\ d.end[o] # x
    <3>1. d.end[o] \in U[g] /\ U[g] \subseteq M
      BY <1>1, <2>1, ForestType DEF End
    <3> QED BY <1>2, <1>4, <3>1
  <2>3. Opened(r).kid[o][d.end[o]] = Opened(d).kid[o][d.end[o]]
    BY <1>1, <1>8, <2>2
  <2> QED BY <1>10, <2>1, <2>3 DEF End
<1>17. \A z \in Sides : /\ Beside(V, z, q, Aside(r, z))
                        /\ \A a \in V[Aside(r, z)] : side[a] = z
                        /\ r.end[z] = Local \/ /\ Aside(r, z) \in M
                                               /\ End(Opened(r), V, z, Aside(r, z), r.end[z])
  <2> TAKE z \in Sides
  <2>1. CASE z = s
    BY <1>6, <1>7, <1>13, <1>14, <1>15, <2>1
  <2>2. CASE z = o
    <3>1. r.end[z] = d.end[o] /\ Aside(r, z) = g
      BY <1>1, <1>6, <1>7, <2>2
    <3>2. \A a \in V[g] : side[a] = o
      BY <1>5, <1>10
    <3> HIDE DEF g, o
    <3> QED BY <1>13, <1>16, <2>2, <3>1, <3>2
  <2> QED BY <2>1, <2>2, OtherSide
<1>18. M = V[q] \cup V[Aside(r, "left")] \cup V[Aside(r, "right")]
  <2>1. M = V[q] \cup V[Aside(r, s)] \cup V[Aside(r, o)]
    BY <1>3, <1>4, <1>7, <1>9, <1>10
  <2> QED BY <2>1 DEF Sides, Other
<1>19. \A z \in Sides : \A n \in Nodes \ M : r.t.kid[z][n] = t0.kid[z][n]
  <2> TAKE z \in Sides
  <2> TAKE n \in Nodes \ M
  <2>1. d.t.kid[z][n] = t0.kid[z][n]
    BY DEF Splaying
  <2>2. U[h] \subseteq M
    BY <1>1, <1>2, ForestType
  <2>3. n # e /\ n \in Spots
    BY <1>2, <2>2, LocalApart
  <2> QED BY <1>6, <2>1, <2>3
<1>20. Splaying(r, t0, M, side, V)
  BY <1>4, <1>6, <1>9, <1>17, <1>18, <1>19 DEF Splaying
<1>21. /\ Cardinality(V[q]) \in Nat /\ Cardinality(U[x]) \in Nat
       /\ Cardinality(V[q]) < Cardinality(U[x])
  <2> HIDE DEF q, x
  <2>1. Opened(d).kid[s][x] # NULL
    BY <1>4, <1>10
  <2>2. /\ Cardinality(U[Opened(d).kid[s][x]]) \in Nat /\ Cardinality(U[x]) \in Nat
        /\ Cardinality(U[Opened(d).kid[s][x]]) < Cardinality(U[x])
    BY <1>1, <2>1, ForestKidSmaller
  <2> QED BY <1>4, <1>10, <2>2
<1> QED BY <1>6, <1>20, <1>21 DEF r

LEMMA SplayingStops ==
  ASSUME NEW d, NEW t0, NEW M, NEW side, NEW U, Splaying(d, t0, M, side, U), Stopped(d.t, side)
  PROVE  LET r == [d EXCEPT !.stop = TRUE] IN Splaying(r, t0, M, side, U) /\ r.stop
<1> DEFINE r == [d EXCEPT !.stop = TRUE]
<1>1. d \in SStates
  BY DEF Splaying
<1>2. r \in SStates /\ r.t = d.t /\ r.end = d.end /\ r.stop
  BY <1>1 DEF SStates
<1> HIDE DEF r
<1>3. Opened(r) = Opened(d) /\ \A z \in Sides : Aside(r, z) = Aside(d, z)
  BY <1>2 DEF Opened, Aside
<1>4. "left" \in Sides /\ "right" \in Sides
  BY DEF Sides
<1>5. Splaying(r, t0, M, side, U)
  BY <1>2, <1>3, <1>4 DEF Splaying
<1> QED BY <1>2, <1>5 DEF r

(* A round keeps all of it, and stops or leaves a smaller tree.            *)
LEMMA RoundKeeps ==
  ASSUME NEW d, NEW t0, NEW M, NEW side, NEW U, Splaying(d, t0, M, side, U), Sided(M, side)
  PROVE  LET r == SplayRound(d, side)
         IN  \E V : /\ Splaying(r, t0, M, side, V)
                    /\ r.stop \/ /\ ~ d.stop
                                 /\ Cardinality(V[r.t.root]) \in Nat
                                 /\ Cardinality(U[d.t.root]) \in Nat
                                 /\ Cardinality(V[r.t.root]) < Cardinality(U[d.t.root])
<1> DEFINE s == side[d.t.root]
           tmp == d.t.kid[s][d.t.root]
           turned == IF side[tmp] = s THEN SPLAY_ROTATE(d.t, tmp, Other(s)) ELSE d.t
           a == [d EXCEPT !.t = turned]
           r == SplayRound(d, side)
<1>1. r = IF d.stop \/ s = "here" THEN [d EXCEPT !.stop = TRUE]
          ELSE IF tmp = NULL THEN [d EXCEPT !.stop = TRUE]
          ELSE IF turned.kid[s][turned.root] = NULL THEN [d EXCEPT !.t = turned, !.stop = TRUE]
          ELSE SPLAY_LINK([d EXCEPT !.t = turned], s)
  BY DEF SplayRound
<1> HIDE DEF r
<1>2. d \in SStates /\ d.t.root \in M /\ s \in Sides \cup {"here"}
  BY DEF Splaying, Sided
<1>3. CASE d.stop \/ s = "here" \/ tmp = NULL
  <2>1. Stopped(d.t, side)
    BY <1>3 DEF Splaying, Stopped
  <2>2. r = [d EXCEPT !.stop = TRUE]
    BY <1>1, <1>3
  <2>3. Splaying(r, t0, M, side, U) /\ r.stop
    BY <2>1, <2>2, SplayingStops
  <2> QED BY <2>3 DEF r
<1>4. CASE ~ (d.stop \/ s = "here" \/ tmp = NULL)
  <2>1. s \in Sides /\ s # "here" /\ ~ d.stop /\ tmp # NULL
    BY <1>2, <1>4
  <2>2. \E V : /\ Splaying(a, t0, M, side, V) /\ V[a.t.root] = U[d.t.root]
               /\ ~ a.stop /\ side[a.t.root] = s /\ a.t = turned
    <3>1. CASE side[tmp] = s
      <4>1. a = [d EXCEPT !.t = SPLAY_ROTATE(d.t, tmp, Other(s))]
        BY <3>1
      <4> HIDE DEF a, tmp, s
      <4>2. a.t.root = tmp /\ a.stop = d.stop
            /\ \E V : Splaying(a, t0, M, side, V) /\ V[tmp] = U[d.t.root]
        BY <2>1, <4>1, SplayTurns DEF tmp
      <4>3. a.t = turned
        BY <1>2 DEF a, SStates
      <4> QED BY <2>1, <3>1, <4>2, <4>3
    <3>2. CASE side[tmp] # s
      <4>1. turned = d.t
        BY <3>2
      <4> HIDE DEF turned
      <4>2. a = d
        BY <1>2, <4>1 DEF SStates
      <4> HIDE DEF a
      <4> QED BY <2>1, <4>1, <4>2
    <3> QED BY <3>1, <3>2
  <2>3. PICK V : /\ Splaying(a, t0, M, side, V) /\ V[a.t.root] = U[d.t.root]
                 /\ ~ a.stop /\ side[a.t.root] = s /\ a.t = turned
    BY <2>2
  <2>4. CASE turned.kid[s][turned.root] = NULL
    <3>1. Stopped(a.t, side)
      BY <2>3, <2>4 DEF Stopped
    <3>2. r = [a EXCEPT !.stop = TRUE]
      <4> HIDE DEF turned, tmp, s
      <4>1. r = [d EXCEPT !.t = turned, !.stop = TRUE]
        BY <1>1, <2>1, <2>4
      <4> QED BY <4>1
    <3> HIDE DEF a
    <3>3. Splaying(r, t0, M, side, V) /\ r.stop
      BY <2>3, <3>1, <3>2, SplayingStops
    <3> QED BY <3>3 DEF r
  <2>5. CASE turned.kid[s][turned.root] # NULL
    <3>1. r = SPLAY_LINK(a, s)
      <4> HIDE DEF turned, tmp, s
      <4> QED BY <1>1, <2>1, <2>5
    <3>2. a.t.kid[s][a.t.root] # NULL
      BY <2>3, <2>5
    <3> HIDE DEF a, s, turned
    <3>3. \E W : /\ Splaying(r, t0, M, side, W)
                 /\ Cardinality(W[r.t.root]) \in Nat /\ Cardinality(V[a.t.root]) \in Nat
                 /\ Cardinality(W[r.t.root]) < Cardinality(V[a.t.root])
      BY <2>1, <2>3, <3>1, <3>2, SplayLinks
    <3> QED BY <2>1, <2>3, <3>3 DEF r
  <2> QED BY <2>4, <2>5
<1> QED BY <1>3, <1>4

(* The loop of SPLAY.                                                      *)
Start(t) == [t |-> t, stop |-> FALSE, end |-> [s \in Sides |-> Local]]
Splayed(t, side) == Loop(LAMBDA d : SplayRound(d, side), Start(t))

SplayTree(t, M, U) ==
  /\ t \in STrees /\ Forest(t, M, U) /\ t.root \in M \cup {NULL} /\ U[t.root] = M
  /\ \A z \in Sides : t.kid[z][Local] = NULL

LEMMA SplayStarts ==
  ASSUME NEW t, NEW M, NEW U, SplayTree(t, M, U), t.root # NULL, NEW side
  PROVE  Splaying(Start(t), t, M, side, U)
<1> DEFINE d == Start(t)
<1>1. d \in SStates /\ d.t = t /\ ~ d.stop /\ \A z \in Sides : d.end[z] = Local
  BY LocalApart DEF Start, SStates, SplayTree
<1> HIDE DEF d
<1>2. Forest(t, M, U) /\ t.root \in M /\ M = U[t.root] /\ M \in SUBSET Nodes /\ U[NULL] = {}
  BY ForestType DEF SplayTree
<1>3. Forest(Opened(d), M, U)
  <2>1. \A z \in Sides, n \in M : Opened(d).kid[z][n] = t.kid[z][n]
    BY <1>1, <1>2, OpenedIs, LocalApart
  <2> QED BY <1>2, <2>1, ForestSame
<1>4. \A z \in Sides : U[Aside(d, z)] = {}
  BY <1>1, <1>2 DEF Aside
<1>5. M = U[d.t.root] \cup U[Aside(d, "left")] \cup U[Aside(d, "right")]
  BY <1>1, <1>2, <1>4 DEF Sides
<1>6. \A z \in Sides : Beside(U, z, d.t.root, Aside(d, z))
  BY <1>4 DEF Beside
<1>7. Splaying(d, t, M, side, U)
  BY <1>1, <1>2, <1>3, <1>4, <1>5, <1>6 DEF Splaying
<1> QED BY <1>7 DEF d

LEMMA SplayLoop ==
  ASSUME NEW t, NEW M, NEW U, SplayTree(t, M, U), t.root # NULL, NEW side, Sided(M, side)
  PROVE  LET d == Splayed(t, side)
         IN  d.stop /\ \E V : Splaying(d, t, M, side, V)
<1> DEFINE X == {d \in SStates : \E V : Splaying(d, t, M, side, V)}
           F == [d \in X |-> SplayRound(d, side)]
           Eq(x) == x = [i \in 0..Rounds |-> IF i = 0 THEN Start(t) ELSE SplayRound(x[i - 1], side)]
           y == CHOOSE x : Eq(x)
<1>1. Splayed(t, side) = y[Rounds]
  BY DEF Splayed, Loop, Rounds
<1>2. Rounds \in Nat /\ Cardinality(Nodes) \in Nat /\ Rounds = Cardinality(Nodes) + 1
  BY RoundsType DEF Rounds
<1>3. \A d : d \in X <=> \E V : Splaying(d, t, M, side, V)
  BY DEF Splaying
<1>4. Start(t) \in X
  <2> HIDE DEF X
  <2> QED BY <1>3, SplayStarts
<1> HIDE DEF X
<1>5. F \in [X -> X]
  <2> SUFFICES ASSUME NEW d \in X PROVE SplayRound(d, side) \in X
    OBVIOUS
  <2>1. PICK V : Splaying(d, t, M, side, V)
    BY <1>3
  <2>2. \E W : Splaying(SplayRound(d, side), t, M, side, W)
    BY <2>1, RoundKeeps
  <2> QED BY <1>3, <2>2
<1>6. PICK x : IteratesOf(x, Rounds, X, F, Start(t))
  <2> HIDE DEF F
  <2> QED BY <1>2, <1>4, <1>5, Iterates
<1>7. Eq(x)
  <2>1. \A i \in 1..Rounds : F[x[i - 1]] = SplayRound(x[i - 1], side)
    <3>1. \A i \in 1..Rounds : x[i - 1] \in X
      BY <1>2, <1>6 DEF IteratesOf
    <3> QED BY <3>1
  <2> HIDE DEF F
  <2> QED BY <1>6, <2>1 DEF IteratesOf
<1>8. Eq(y)
  <2> HIDE DEF Eq
  <2> QED BY <1>7
<1>9. y = [i \in 0..Rounds |-> IF i = 0 THEN Start(t) ELSE SplayRound(y[i - 1], side)]
  BY <1>8
<1> HIDE DEF y, F
<1>10. y[0] = Start(t) /\ \A i \in 0..Rounds : i < Rounds => y[i + 1] = SplayRound(y[i], side)
  <2>1. 0 \in 0..Rounds
    BY <1>2
  <2>2. \A i \in 0..Rounds : i < Rounds => i + 1 \in 0..Rounds /\ i + 1 # 0 /\ (i + 1) - 1 = i
    BY <1>2
  <2> QED BY <1>9, <2>1, <2>2
<1> DEFINE Good(d, i) == \E V : /\ Splaying(d, t, M, side, V)
                                /\ d.stop \/ /\ Cardinality(V[d.t.root]) \in Nat
                                             /\ i + Cardinality(V[d.t.root]) <= Cardinality(Nodes)
           S == {i \in 0..Rounds : Good(y[i], i)}
<1>11. 0 \in S
  <2>1. 0 \in 0..Rounds
    BY <1>2
  <2>2. Splaying(Start(t), t, M, side, U) /\ Start(t).t.root = t.root /\ U[t.root] = M
    BY SplayStarts DEF Start, SplayTree
  <2>3. M \in SUBSET Nodes
    BY DEF SplayTree, Forest
  <2>4. Cardinality(M) \in Nat /\ Cardinality(M) <= Cardinality(Nodes)
    BY <2>3, NodesAssumption, FS_Subset, FS_CardinalityType
  <2>5. Good(Start(t), 0)
    BY <1>2, <2>2, <2>4
  <2> HIDE DEF Good
  <2> QED BY <1>10, <2>1, <2>5
<1>12. ASSUME NEW i \in 0..Rounds, i < Rounds, i \in S PROVE i + 1 \in S
  <2> DEFINE d == y[i]
             r == SplayRound(d, side)
  <2>1. i + 1 \in 0..Rounds /\ y[i + 1] = r /\ i \in Nat
    BY <1>2, <1>10, <1>12
  <2>2. Good(d, i)
    BY <1>12
  <2> HIDE DEF d
  <2>3. PICK V : /\ Splaying(d, t, M, side, V)
                 /\ d.stop \/ /\ Cardinality(V[d.t.root]) \in Nat
                              /\ i + Cardinality(V[d.t.root]) <= Cardinality(Nodes)
    BY <2>2
  <2>4. PICK W : /\ Splaying(r, t, M, side, W)
                 /\ r.stop \/ /\ ~ d.stop
                              /\ Cardinality(W[r.t.root]) \in Nat
                              /\ Cardinality(V[d.t.root]) \in Nat
                              /\ Cardinality(W[r.t.root]) < Cardinality(V[d.t.root])
    BY <2>3, RoundKeeps
  <2> HIDE DEF r
  <2>5. r.stop \/ /\ Cardinality(W[r.t.root]) \in Nat
                  /\ (i + 1) + Cardinality(W[r.t.root]) <= Cardinality(Nodes)
    <3> DEFINE w == Cardinality(W[r.t.root])
               v == Cardinality(V[d.t.root])
               N == Cardinality(Nodes)
    <3>1. N \in Nat /\ i \in Nat
      BY <1>2, <2>1
    <3>2. r.stop \/ (w \in Nat /\ v \in Nat /\ w < v /\ i + v <= N)
      BY <2>3, <2>4
    <3> HIDE DEF w, v, N
    <3>3. r.stop \/ (w \in Nat /\ (i + 1) + w <= N)
      BY <3>1, <3>2
    <3> QED BY <3>3 DEF w, N
  <2>6. Good(r, i + 1)
    BY <2>4, <2>5
  <2> HIDE DEF Good
  <2> QED BY <2>1, <2>6
<1>13. \A i \in 0..Rounds : i \in S
  <2> HIDE DEF S
  <2> QED BY <1>2, <1>11, <1>12, Counting
<1>14. Good(y[Rounds], Rounds)
  <2>1. Rounds \in 0..Rounds
    BY <1>2
  <2> HIDE DEF Good
  <2> QED BY <1>13, <2>1
<1> DEFINE d == y[Rounds]
<1>15. PICK V : /\ Splaying(d, t, M, side, V)
                /\ d.stop \/ /\ Cardinality(V[d.t.root]) \in Nat
                             /\ Rounds + Cardinality(V[d.t.root]) <= Cardinality(Nodes)
  BY <1>14
<1> HIDE DEF d
<1>16. d.stop
  <2> DEFINE v == Cardinality(V[d.t.root])
             N == Cardinality(Nodes)
  <2>1. N \in Nat /\ Rounds = N + 1 /\ (d.stop \/ (v \in Nat /\ Rounds + v <= N))
    BY <1>2, <1>15
  <2> HIDE DEF v, N
  <2> QED BY <2>1
<1> QED BY <1>1, <1>15, <1>16 DEF d

(* SPLAY_ASSEMBLE on one side, where there may be no tree.                 *)
LEMMA AssembleSide ==
  ASSUME NEW t, NEW M, NEW U, Forest(t, M, U), NEW s \in Sides, NEW x \in M, Whole(M, U, x),
         NEW h \in M \cup {NULL}, Whole(M, U, h), Beside(U, s, x, h),
         NEW e, h # NULL => End(t, U, s, h, e), NEW r, AssembledOn(r, t, M, s, x, h, e)
  PROVE  \E V : Forest(r, M, V) /\ AfterAssembly(V, M, U, x, h)
<1>1. CASE h = NULL
  <2>1. Forest(r, M, U)
    BY <1>1, ForestSame DEF AssembledOn
  <2>2. AfterAssembly(U, M, U, x, h)
    BY <1>1, ForestType DEF AfterAssembly
  <2> QED BY <2>1, <2>2
<1>2. CASE h # NULL
  BY <1>2, AssembleForest
<1> QED BY <1>1, <1>2

(* SPLAY_ASSEMBLE on both sides.                                           *)
LEMMA AssembleBoth ==
  ASSUME NEW d, NEW t0, NEW M, NEW side, NEW U, Splaying(d, t0, M, side, U),
         NEW l, AssembledOn(l, Opened(d), M, "left", d.t.root, Aside(d, "left"), d.end["left"]),
         NEW r, AssembledOn(r, l, M, "right", d.t.root, Aside(d, "right"), d.end["right"])
  PROVE  \E V : Forest(r, M, V) /\ V[d.t.root] = M
<1> DEFINE x == d.t.root
           f == Opened(d)
           h == Aside(d, "left")
           k == Aside(d, "right")
           e == d.end["left"]
           g == d.end["right"]
<1>1. /\ Forest(f, M, U) /\ x \in M /\ M = U[x] \cup U[h] \cup U[k]
      /\ Beside(U, "left", x, h) /\ Beside(U, "right", x, k)
      /\ "left" \in Sides /\ "right" \in Sides /\ Other("left") = "right" /\ Other("right") = "left"
      /\ (e = Local \/ (h \in M /\ End(f, U, "left", h, e)))
      /\ (g = Local \/ (k \in M /\ End(f, U, "right", k, g)))
  BY DEF Splaying, Sides, Other
<1>2. /\ Whole(M, U, x) /\ Whole(M, U, h) /\ Whole(M, U, k)
      /\ h \in M \cup {NULL} /\ k \in M \cup {NULL}
      /\ U[x] \cap U[h] = {} /\ U[x] \cap U[k] = {} /\ U[h] \cap U[k] = {}
  <2> HIDE DEF x, h, k
  <2> QED BY <1>1, SplayingParts DEF x, h, k
<1>3. h # NULL => End(f, U, "left", h, e)
  BY <1>1 DEF Aside
<1>4. k # NULL => End(f, U, "right", k, g)
  BY <1>1 DEF Aside
<1>5. AssembledOn(l, f, M, "left", x, h, e) /\ AssembledOn(r, l, M, "right", x, k, g)
  OBVIOUS
<1> HIDE DEF x, f, h, k, e, g
<1>6. PICK V : Forest(l, M, V) /\ AfterAssembly(V, M, U, x, h)
  BY <1>1, <1>2, <1>3, <1>5, AssembleSide
<1>7. /\ M \in SUBSET Nodes /\ NULL \notin M /\ U[NULL] = {} /\ V[NULL] = {}
      /\ U[k] \subseteq M /\ U[h] \subseteq M
      /\ x \in U[x] /\ (k # NULL => k \in U[k])
  <2>1. M \in SUBSET Nodes /\ NULL \notin M /\ U[NULL] = {} /\ U[k] \subseteq M /\ U[h] \subseteq M
    BY <1>1, <1>2, ForestType
  <2>2. V[NULL] = {}
    BY <1>6, ForestType
  <2>3. x \in U[x] /\ (k # NULL => k \in U[k])
    BY <1>1, <1>2, ForestSelf
  <2> QED BY <2>1, <2>2, <2>3
<1>8. V[x] = U[x] \cup U[h] /\ V[k] = U[k] /\ M = V[x] \cup V[k] /\ V[x] \cap V[k] = {}
  <2>1. k \in M => k \notin U[h] \cup {x}
    BY <1>2, <1>7
  <2> QED BY <1>1, <1>2, <1>6, <1>7, <2>1 DEF AfterAssembly
<1>9. Whole(M, V, x) /\ Whole(M, V, k)
  <2>1. M = V[x] \cup V[k] \cup V[NULL] /\ V[x] \cap V[NULL] = {} /\ V[k] \cap V[NULL] = {}
    BY <1>7, <1>8
  <2> QED BY <1>1, <1>2, <1>6, <1>8, <2>1, WholeFrom
<1>10. Beside(V, "right", x, k)
  <2> SUFFICES ASSUME NEW a \in V[k], NEW m \in V[x] PROVE On("right", m, a)
    BY DEF Beside
  <2>1. a \in U[k] /\ a \in M /\ On("right", x, a)
    BY <1>1, <1>7, <1>8 DEF Beside
  <2>2. CASE m \in U[x]
    BY <1>1, <2>1, <2>2 DEF Beside
  <2>3. CASE m \in U[h]
    <3>1. On("left", x, m) /\ m \in M
      BY <1>1, <1>7, <2>3 DEF Beside
    <3>2. On("right", m, x)
      BY <1>1, <1>7, <3>1, OnOrder
    <3> QED BY <1>1, <1>7, <2>1, <3>1, <3>2, OnOrder
  <2> QED BY <1>8, <2>2, <2>3
<1>11. k # NULL => End(l, V, "right", k, g)
  <2> HAVE k # NULL
  <2>1. End(f, U, "right", k, g)
    BY <1>4
  <2>2. g \in U[k] /\ g \in M /\ f.kid["right"][g] = NULL
    BY <1>7, <2>1 DEF End
  <2>3. g # x
    BY <1>2, <1>7, <2>2
  <2>4. l.kid["right"][g] = f.kid["right"][g]
    BY <1>1, <1>5, <2>2, <2>3 DEF AssembledOn
  <2> QED BY <1>8, <2>1, <2>2, <2>4 DEF End
<1>12. PICK W : Forest(r, M, W) /\ AfterAssembly(W, M, V, x, k)
  BY <1>1, <1>2, <1>5, <1>6, <1>9, <1>10, <1>11, AssembleSide
<1>13. W[x] = M
  BY <1>8, <1>12 DEF AfterAssembly
<1> QED BY <1>12, <1>13 DEF x

LEMMA AssembleIs ==
  ASSUME NEW d \in SStates, d.t.root \in Nodes
  PROVE  LET x == d.t.root
             r == SPLAY_ASSEMBLE(d)
         IN  /\ r \in STrees /\ r.root = x
             /\ \A z \in Sides, n \in Spots :
                  r.kid[z][n] =
                    IF n = x THEN IF d.end[Other(z)] = Local THEN d.t.kid[z][x]
                                  ELSE d.t.kid[Other(z)][Local]
                    ELSE IF n = d.end[z] THEN d.t.kid[Other(z)][x] ELSE d.t.kid[z][n]
<1> DEFINE t == d.t
           x == t.root
           e == d.end["left"]
           g == d.end["right"]
           t1 == [t EXCEPT !.kid["right"][g] = t.kid["left"][x]]
           t2 == [t1 EXCEPT !.kid["left"][e] = t.kid["right"][x]]
           a == t2.kid["right"][Local]
           b == t2.kid["left"][Local]
           t3 == [t2 EXCEPT !.kid["left"][x] = a]
           t4 == [t3 EXCEPT !.kid["right"][x] = b]
<1>1. /\ t \in STrees /\ e \in Spots /\ g \in Spots /\ x \in Spots /\ x # Local /\ Local \in Spots
      /\ "left" \in Sides /\ "right" \in Sides
  BY LocalApart DEF SStates, Sides
<1>2. SPLAY_ASSEMBLE(d) = t4
  BY DEF SPLAY_ASSEMBLE
<1>3. t.kid["left"][x] \in Links /\ t.kid["right"][x] \in Links
  BY <1>1, STreeType
<1> HIDE DEF t, x, e, g
<1>4. /\ t1 \in STrees /\ t1.root = t.root
      /\ \A z \in Sides, n \in Spots :
           t1.kid[z][n] = IF z = "right" /\ n = g THEN t.kid["left"][x] ELSE t.kid[z][n]
  BY <1>1, <1>3, SetSpotIs
<1> HIDE DEF t1
<1>5. /\ t2 \in STrees /\ t2.root = t1.root
      /\ \A z \in Sides, n \in Spots :
           t2.kid[z][n] = IF z = "left" /\ n = e THEN t.kid["right"][x] ELSE t1.kid[z][n]
  BY <1>1, <1>3, <1>4, SetSpotIs, SMTT(20)
<1> HIDE DEF t2
<1>6. a \in Links /\ b \in Links
  BY <1>1, <1>5, STreeType
<1> HIDE DEF a, b
<1>7. /\ t3 \in STrees /\ t3.root = t2.root
      /\ \A z \in Sides, n \in Spots :
           t3.kid[z][n] = IF z = "left" /\ n = x THEN a ELSE t2.kid[z][n]
  BY <1>1, <1>5, <1>6, SetSpotIs
<1> HIDE DEF t3
<1>8. /\ t4 \in STrees /\ t4.root = t3.root
      /\ \A z \in Sides, n \in Spots :
           t4.kid[z][n] = IF z = "right" /\ n = x THEN b ELSE t3.kid[z][n]
  BY <1>1, <1>6, <1>7, SetSpotIs
<1> HIDE DEF t4
<1>9. ASSUME NEW n \in Spots
      PROVE  /\ t4.kid["left"][n] = IF n = x THEN IF g = Local THEN t.kid["left"][x]
                                                  ELSE t.kid["right"][Local]
                                    ELSE IF n = e THEN t.kid["right"][x] ELSE t.kid["left"][n]
             /\ t4.kid["right"][n] = IF n = x THEN IF e = Local THEN t.kid["right"][x]
                                                   ELSE t.kid["left"][Local]
                                     ELSE IF n = g THEN t.kid["left"][x] ELSE t.kid["right"][n]
  <2>1. b = IF e = Local THEN t.kid["right"][x] ELSE t.kid["left"][Local]
    BY <1>1, <1>4, <1>5 DEF b
  <2>2. a = IF g = Local THEN t.kid["left"][x] ELSE t.kid["right"][Local]
    BY <1>1, <1>4, <1>5 DEF a
  <2>3. t4.kid["left"][n] = IF n = x THEN a ELSE t2.kid["left"][n]
    BY <1>1, <1>7, <1>8
  <2>4. t4.kid["right"][n] = IF n = x THEN b ELSE t2.kid["right"][n]
    BY <1>1, <1>7, <1>8
  <2>5. t2.kid["left"][n] = IF n = e THEN t.kid["right"][x] ELSE t.kid["left"][n]
    BY <1>1, <1>4, <1>5
  <2>6. t2.kid["right"][n] = IF n = g THEN t.kid["left"][x] ELSE t.kid["right"][n]
    BY <1>1, <1>4, <1>5
  <2> QED BY <2>1, <2>2, <2>3, <2>4, <2>5, <2>6
<1>10. Other("left") = "right" /\ Other("right") = "left" /\ \A z \in Sides : z = "left" \/ z = "right"
  BY DEF Sides, Other
<1>11. \A z \in Sides, n \in Spots :
         t4.kid[z][n] = IF n = x THEN IF d.end[Other(z)] = Local THEN t.kid[z][x]
                                      ELSE t.kid[Other(z)][Local]
                        ELSE IF n = d.end[z] THEN t.kid[Other(z)][x] ELSE t.kid[z][n]
  <2> TAKE z \in Sides
  <2> TAKE n \in Spots
  <2>1. CASE z = "left"
    BY <1>9, <1>10, <2>1 DEF e, g
  <2>2. CASE z = "right"
    BY <1>9, <1>10, <2>2 DEF e, g
  <2> QED BY <1>10, <2>1, <2>2
<1> QED BY <1>2, <1>4, <1>5, <1>7, <1>8, <1>11 DEF t, x

(* The key lies right where the root is: at the root, or nothing lies      *)
(* between the two.                                                        *)
Nearest(M, side, x) ==
  /\ x \in M /\ side[x] \in Sides \cup {"here"}
  /\ \A s \in Sides : side[x] = s => \A m \in M : On(s, m, x) => side[m] = Other(s)

LEMMA SplayingNearest ==
  ASSUME NEW d, NEW t0, NEW M, NEW side, NEW U, Splaying(d, t0, M, side, U), d.stop, Sided(M, side)
  PROVE  Nearest(M, side, d.t.root)
<1> DEFINE x == d.t.root
<1>1. /\ Forest(Opened(d), M, U) /\ x \in M /\ Stopped(d.t, side) /\ side[x] \in Sides \cup {"here"}
      /\ M \in SUBSET Nodes /\ U[NULL] = {}
  BY ForestType DEF Splaying, Sided
<1> SUFFICES ASSUME NEW s \in Sides, side[x] = s, NEW m \in M, On(s, m, x)
             PROVE  side[m] = Other(s)
  BY <1>1 DEF Nearest
<1> DEFINE o == Other(s)
<1>2. o \in Sides /\ o # s /\ Other(o) = s /\ s # "here"
  <2>1. s # "here"
    BY DEF Sides
  <2> QED BY <2>1, OtherSide
<1>3. M = U[x] \cup U[Aside(d, s)] \cup U[Aside(d, o)]
  <2>1. M = U[x] \cup U[Aside(d, "left")] \cup U[Aside(d, "right")]
    BY DEF Splaying
  <2> QED BY <2>1 DEF Sides, Other
<1>4. ~ On(o, m, x)
  <2>1. NodeKey[m] \in Int /\ NodeKey[x] \in Int
    BY <1>1, ForestSelf
  <2> QED BY <2>1 DEF On, Sides, Other
<1>5. m \notin U[x]
  <2>1. x \in U[x]
    BY <1>1, ForestSelf
  <2>2. Opened(d).kid[s][x] = NULL
    <3>1. d.t.kid[s][x] = NULL
      BY <1>1, <1>2 DEF Stopped
    <3>2. Opened(d).kid[s][x] = d.t.kid[s][x]
      BY <2>1, SplayingParts
    <3> QED BY <3>1, <3>2
  <2>3. U[x] = {x} \cup U[Opened(d).kid[s][x]] \cup U[Opened(d).kid[o][x]]
    BY <1>1, ForestSides
  <2>4. \A a \in U[Opened(d).kid[o][x]] : On(o, a, x)
    BY <1>1, <1>2, ForestSides
  <2>5. m # x
    BY <1>1, OnOrder
  <2> HIDE DEF x, o
  <2> QED BY <1>1, <1>4, <2>2, <2>3, <2>4, <2>5
<1>6. m \notin U[Aside(d, s)]
  <2>1. Beside(U, s, x, Aside(d, s)) /\ x \in U[x]
    BY <1>1, ForestSelf DEF Splaying
  <2>2. m \in U[Aside(d, s)] => On(s, x, m)
    BY <2>1 DEF Beside
  <2> QED BY <1>1, <1>2, <1>4, <2>2, OnOrder
<1>7. m \in U[Aside(d, o)]
  BY <1>3, <1>5, <1>6
<1> QED BY <1>2, <1>7 DEF Splaying

(* What SPLAY does: a search tree of the same nodes, with the node at its  *)
(* root that is nearest to the key.                                        *)
Untouched(r, t, M) == \A z \in Sides, n \in Nodes \ M : r.kid[z][n] = t.kid[z][n]

LEMMA SplayByIs ==
  ASSUME NEW t, NEW M, NEW U, SplayTree(t, M, U), t.root # NULL, NEW side, Sided(M, side)
  PROVE  LET r == SplayBy(t, side)
         IN  /\ \E V : SplayTree(r, M, V)
             /\ Untouched(r, t, M) /\ Nearest(M, side, r.root)
<1> DEFINE d == Splayed(t, side)
           a == SPLAY_ASSEMBLE(d)
           r1 == [a EXCEPT !.kid["left"][Local] = NULL]
           r == [r1 EXCEPT !.kid["right"][Local] = NULL]
           x == d.t.root
<1>1. SplayBy(t, side) = r
  BY DEF SplayBy, Splayed, Start
<1>2. d.stop /\ \E V : Splaying(d, t, M, side, V)
  BY SplayLoop
<1> HIDE DEF d
<1>3. PICK U1 : Splaying(d, t, M, side, U1)
  BY <1>2
<1>4. /\ d \in SStates /\ Forest(Opened(d), M, U1) /\ x \in M /\ M \in SUBSET Nodes /\ x \in Nodes
      /\ x \in Links /\ NULL \in Links
  BY <1>3, ForestType DEF Splaying, Links
<1>5. /\ a \in STrees /\ a.root = x
      /\ \A z \in Sides, n \in Spots :
           a.kid[z][n] =
             IF n = x THEN IF d.end[Other(z)] = Local THEN d.t.kid[z][x]
                           ELSE d.t.kid[Other(z)][Local]
             ELSE IF n = d.end[z] THEN d.t.kid[Other(z)][x] ELSE d.t.kid[z][n]
  BY <1>4, AssembleIs
<1> HIDE DEF a
<1>6. Local \in Spots /\ Nodes \subseteq Spots /\ Local \notin Nodes
      /\ "left" \in Sides /\ "right" \in Sides /\ \A z \in Sides : z = "left" \/ z = "right"
  BY LocalApart DEF Sides
<1>7. /\ r1 \in STrees /\ r1.root = x
      /\ \A z \in Sides, n \in Spots :
           r1.kid[z][n] = IF z = "left" /\ n = Local THEN NULL ELSE a.kid[z][n]
  BY <1>4, <1>5, <1>6, SetSpotIs
<1> HIDE DEF r1
<1>8. /\ r \in STrees /\ r.root = x
      /\ \A z \in Sides, n \in Spots :
           r.kid[z][n] = IF z = "right" /\ n = Local THEN NULL ELSE r1.kid[z][n]
  BY <1>4, <1>6, <1>7, SetSpotIs
<1> HIDE DEF r
<1>9. /\ \A z \in Sides : r.kid[z][Local] = NULL
      /\ \A z \in Sides, n \in Nodes : r.kid[z][n] = a.kid[z][n]
  BY <1>6, <1>7, <1>8
<1>10. /\ Whole(M, U1, x) /\ x \in U1[x]
       /\ \A z \in Sides : /\ d.end[z] # Local => d.end[z] \in U1[Aside(d, z)]
                           /\ Aside(d, z) = IF d.end[z] = Local THEN NULL ELSE d.t.kid[z][Local]
                           /\ Aside(d, z) \in M \cup {NULL}
                           /\ Aside(d, z) = NULL <=> d.end[z] = Local
                           /\ d.end[z] # x /\ Opened(d).kid[z][x] = d.t.kid[z][x]
                           /\ U1[Aside(d, z)] \subseteq M
  <2>1. x \in U1[x]
    BY <1>4, ForestSelf
  <2>2. \A z \in Sides : U1[Aside(d, z)] \subseteq M
    <3>1. \A z \in Sides : Aside(d, z) \in M \cup {NULL}
      BY <1>3, SplayingParts
    <3> QED BY <1>4, <3>1, ForestType
  <2>3. \A z \in Sides : Aside(d, z) = IF d.end[z] = Local THEN NULL ELSE d.t.kid[z][Local]
    BY DEF Aside
  <2>4. /\ Whole(M, U1, x)
        /\ \A z \in Sides : /\ d.end[z] # Local => d.end[z] \in U1[Aside(d, z)] /\ Aside(d, z) # NULL
                            /\ Aside(d, z) \in M \cup {NULL}
                            /\ d.end[z] # x /\ Opened(d).kid[z][x] = d.t.kid[z][x]
    BY <1>3, <2>1, SplayingParts
  <2> QED BY <2>1, <2>2, <2>3, <2>4
<1> DEFINE h == Aside(d, "left")
           k == Aside(d, "right")
           e == d.end["left"]
           g == d.end["right"]
           l == [kid |-> [z \in Sides |-> [n \in M |->
                   IF h = NULL THEN Opened(d).kid[z][n]
                   ELSE IF z = "left" /\ n = e THEN Opened(d).kid[Other("left")][x]
                   ELSE IF z = Other("left") /\ n = x THEN h ELSE Opened(d).kid[z][n]]]]
<1>11. \A z \in Sides, n \in M :
         l.kid[z][n] = IF h = NULL THEN Opened(d).kid[z][n]
                       ELSE IF z = "left" /\ n = e THEN Opened(d).kid[Other("left")][x]
                       ELSE IF z = Other("left") /\ n = x THEN h ELSE Opened(d).kid[z][n]
  OBVIOUS
<1> HIDE DEF l
<1>12. AssembledOn(l, Opened(d), M, "left", x, h, e)
  BY <1>11 DEF AssembledOn
<1>13. AssembledOn(r, l, M, "right", x, k, g)
  <2> SUFFICES ASSUME NEW z \in Sides, NEW n \in M
               PROVE  r.kid[z][n] = IF k = NULL THEN l.kid[z][n]
                                    ELSE IF z = "right" /\ n = g THEN l.kid[Other("right")][x]
                                    ELSE IF z = Other("right") /\ n = x THEN k ELSE l.kid[z][n]
    BY DEF AssembledOn
  <2>1. n \in Nodes /\ n \in Spots /\ n # Local
    BY <1>4, <1>6
  <2>2. Other("left") = "right" /\ Other("right") = "left"
    BY DEF Other
  <2>3. Opened(d).kid[z][n] = IF n = d.end[z] THEN NULL ELSE d.t.kid[z][n]
    BY <2>1, OpenedIs
  <2>4. r.kid[z][n] = IF n = x THEN IF d.end[Other(z)] = Local THEN d.t.kid[z][x]
                                    ELSE d.t.kid[Other(z)][Local]
                      ELSE IF n = d.end[z] THEN d.t.kid[Other(z)][x] ELSE d.t.kid[z][n]
    BY <1>5, <1>9, <2>1
  <2>5. /\ h = (IF e = Local THEN NULL ELSE d.t.kid["left"][Local])
        /\ k = (IF g = Local THEN NULL ELSE d.t.kid["right"][Local])
        /\ (h = NULL <=> e = Local) /\ (k = NULL <=> g = Local)
        /\ e # x /\ g # x
        /\ Opened(d).kid["left"][x] = d.t.kid["left"][x]
        /\ Opened(d).kid["right"][x] = d.t.kid["right"][x]
    BY <1>6, <1>10
  <2>6. /\ l.kid["left"][x] = d.t.kid["left"][x]
        /\ l.kid["right"][x] = IF h = NULL THEN d.t.kid["right"][x] ELSE h
    BY <1>4, <1>6, <1>11, <2>2, <2>5
  <2> DEFINE lk == d.t.kid["left"][x]
             rk == d.t.kid["right"][x]
  <2> HIDE DEF h, k, e, g, x
  <2>7. CASE z = "left"
    <3>1. l.kid[z][n] = IF h # NULL /\ n = e THEN rk ELSE IF n = e THEN NULL ELSE d.t.kid[z][n]
      BY <1>11, <2>2, <2>3, <2>5, <2>7 DEF e
    <3>2. r.kid[z][n] = IF n = x THEN IF g = Local THEN lk ELSE d.t.kid["right"][Local]
                        ELSE IF n = e THEN rk ELSE d.t.kid[z][n]
      BY <2>2, <2>4, <2>7 DEF e, g
    <3> QED BY <2>1, <2>2, <2>5, <2>7, <3>1, <3>2
  <2>8. CASE z = "right"
    <3>1. l.kid[z][n] = IF h # NULL /\ n = x THEN h ELSE IF n = g THEN NULL ELSE d.t.kid[z][n]
      BY <1>11, <2>2, <2>3, <2>8 DEF g
    <3>2. r.kid[z][n] = IF n = x THEN IF e = Local THEN rk ELSE d.t.kid["left"][Local]
                        ELSE IF n = g THEN lk ELSE d.t.kid[z][n]
      BY <2>2, <2>4, <2>8 DEF e, g
    <3> QED BY <2>1, <2>2, <2>5, <2>6, <2>8, <3>1, <3>2
  <2> QED BY <1>6, <2>7, <2>8
<1>14. PICK V : Forest(r, M, V) /\ V[x] = M
  <2>1. \E V : Forest(r, M, V) /\ V[d.t.root] = M
    BY <1>3, <1>12, <1>13, AssembleBoth
  <2> QED BY <2>1
<1>15. SplayTree(r, M, V)
  BY <1>4, <1>8, <1>9, <1>14 DEF SplayTree
<1>16. Untouched(r, t, M)
  <2> SUFFICES ASSUME NEW z \in Sides, NEW n \in Nodes \ M PROVE r.kid[z][n] = t.kid[z][n]
    BY DEF Untouched
  <2>1. d.t.kid[z][n] = t.kid[z][n]
    BY <1>3 DEF Splaying
  <2>2. n \in Spots /\ n # x /\ n # d.end[z]
    BY <1>4, <1>6, <1>10
  <2> QED BY <1>5, <1>9, <2>1, <2>2
<1>17. Nearest(M, side, x)
  BY <1>2, <1>3, SplayingNearest
<1> QED BY <1>1, <1>8, <1>15, <1>16, <1>17

-----------------------------------------------------------------------------
(* What SPLAY and SPLAY_MINMAX do.                                         *)
KeySides(e) == [n \in Nodes |-> IF NodeKey[e] = NodeKey[n] THEN "here" ELSE KeySide(e, n)]

LEMMA KeySidesAre ==
  ASSUME NEW e \in Nodes, NEW M \in SUBSET Nodes
  PROVE  /\ Sided(M, KeySides(e))
         /\ \A x \in M : Nearest(M, KeySides(e), x) /\ NodeKey[x] # NodeKey[e] =>
              /\ KeySide(e, x) \in Sides /\ On(KeySide(e, x), e, x)
              /\ \A m \in M : /\ NodeKey[m] # NodeKey[e]
                              /\ On(KeySide(e, x), m, x) => On(KeySide(e, x), m, e)
<1> DEFINE side == KeySides(e)
<1>1. NodeKey[e] \in Int /\ \A n \in M : n \in Nodes /\ NodeKey[n] \in Int
  BY NodesAssumption
<1>2. \A n \in M : side[n] = IF NodeKey[e] = NodeKey[n] THEN "here"
                             ELSE IF NodeKey[e] < NodeKey[n] THEN "left" ELSE "right"
  BY <1>1 DEF KeySides, KeySide
<1> HIDE DEF side
<1>3. ASSUME NEW n \in M, NEW s \in Sides, side[n] = s, NEW m \in M, On(Other(s), m, n)
      PROVE  side[m] = s
  <2>1. CASE s = "left"
    <3>1. NodeKey[e] < NodeKey[n] /\ NodeKey[m] > NodeKey[n]
      BY <1>1, <1>2, <1>3, <2>1 DEF On, Other
    <3> QED BY <1>1, <1>2, <2>1, <3>1
  <2>2. CASE s = "right"
    <3>1. NodeKey[e] > NodeKey[n] /\ NodeKey[m] < NodeKey[n]
      BY <1>1, <1>2, <1>3, <2>2 DEF On, Other
    <3> QED BY <1>1, <1>2, <2>2, <3>1
  <2> QED BY <2>1, <2>2 DEF Sides
<1>4. Sided(M, side)
  <2>1. \A n \in M : side[n] \in Sides \cup {"here"}
    BY <1>2 DEF Sides
  <2> QED BY <1>3, <2>1 DEF Sided
<1>5. ASSUME NEW x \in M, Nearest(M, side, x), NodeKey[x] # NodeKey[e]
      PROVE  /\ KeySide(e, x) \in Sides /\ On(KeySide(e, x), e, x)
             /\ \A m \in M : /\ NodeKey[m] # NodeKey[e]
                             /\ On(KeySide(e, x), m, x) => On(KeySide(e, x), m, e)
  <2> DEFINE s == KeySide(e, x)
  <2>1. s \in Sides /\ side[x] = s /\ On(s, e, x)
    BY <1>1, <1>2, <1>5 DEF KeySide, Sides, On
  <2> HIDE DEF s
  <2>2. \A m \in M : On(s, m, x) => side[m] = Other(s)
    BY <1>5, <2>1 DEF Nearest
  <2>3. ASSUME NEW m \in M PROVE NodeKey[m] # NodeKey[e] /\ (On(s, m, x) => On(s, m, e))
    <3>1. CASE s = "left"
      <4>1. On(s, m, x) => side[m] = "right"
        BY <2>2, <3>1 DEF Other
      <4>2. NodeKey[e] < NodeKey[x]
        BY <2>1, <3>1 DEF On
      <4> QED BY <1>1, <1>2, <3>1, <4>1, <4>2 DEF On
    <3>2. CASE s = "right"
      <4>1. On(s, m, x) => side[m] = "left"
        BY <2>2, <3>2 DEF Other
      <4>2. NodeKey[e] > NodeKey[x]
        BY <2>1, <3>2 DEF On
      <4> QED BY <1>1, <1>2, <3>2, <4>1, <4>2 DEF On
    <3> QED BY <2>1, <3>1, <3>2 DEF Sides
  <2> QED BY <2>1, <2>3 DEF s
<1> QED BY <1>4, <1>5 DEF side

LEMMA SplayIs ==
  ASSUME NEW t, NEW M, NEW U, SplayTree(t, M, U), t.root # NULL, NEW e \in Nodes
  PROVE  LET r == SPLAY(t, e)
             s == KeySide(e, r.root)
         IN  /\ \E V : SplayTree(r, M, V)
             /\ Untouched(r, t, M) /\ r.root \in M
             /\ NodeKey[r.root] # NodeKey[e] =>
                  /\ s \in Sides /\ On(s, e, r.root)
                  /\ \A m \in M : NodeKey[m] # NodeKey[e] /\ (On(s, m, r.root) => On(s, m, e))
<1> DEFINE r == SPLAY(t, e)
<1>1. M \in SUBSET Nodes
  BY DEF SplayTree, Forest
<1>2. r = SplayBy(t, KeySides(e))
  BY DEF SPLAY, KeySides
<1> HIDE DEF r
<1>3. Sided(M, KeySides(e))
  BY <1>1, KeySidesAre
<1>4. /\ \E V : SplayTree(r, M, V)
      /\ Untouched(r, t, M) /\ Nearest(M, KeySides(e), r.root)
  BY <1>2, <1>3, SplayByIs
<1>5. r.root \in M
  BY <1>4 DEF Nearest
<1>6. NodeKey[r.root] # NodeKey[e] =>
        /\ KeySide(e, r.root) \in Sides /\ On(KeySide(e, r.root), e, r.root)
        /\ \A m \in M : /\ NodeKey[m] # NodeKey[e]
                        /\ On(KeySide(e, r.root), m, r.root) => On(KeySide(e, r.root), m, e)
  BY <1>1, <1>4, <1>5, KeySidesAre
<1> QED BY <1>4, <1>5, <1>6 DEF r

LEMMA SplayMinMaxIs ==
  ASSUME NEW t, NEW M, NEW U, SplayTree(t, M, U), t.root # NULL, NEW s \in Sides
  PROVE  LET r == SPLAY_MINMAX(t, s)
         IN  /\ \E V : SplayTree(r, M, V)
             /\ Untouched(r, t, M) /\ r.root \in M
             /\ \A m \in M : ~ On(s, m, r.root)
<1> DEFINE r == SPLAY_MINMAX(t, s)
           side == [n \in Nodes |-> s]
<1>1. M \in SUBSET Nodes
  BY DEF SplayTree, Forest
<1>2. r = SplayBy(t, side)
  BY DEF SPLAY_MINMAX
<1>3. \A n \in M : side[n] = s
  BY <1>1
<1> HIDE DEF r, side
<1>4. Sided(M, side)
  BY <1>3 DEF Sided
<1>5. /\ \E V : SplayTree(r, M, V)
      /\ Untouched(r, t, M) /\ Nearest(M, side, r.root)
  BY <1>2, <1>4, SplayByIs
<1>6. r.root \in M /\ \A m \in M : On(s, m, r.root) => side[m] = Other(s)
  BY <1>3, <1>5 DEF Nearest
<1>7. \A m \in M : ~ On(s, m, r.root)
  BY <1>3, <1>6, OtherSide
<1> QED BY <1>5, <1>6, <1>7 DEF r

-----------------------------------------------------------------------------
(* The links of a node e over two trees.                                   *)
Crowned(r, t, M, s, e, q, p) ==
  /\ r.kid[s][e] = q /\ r.kid[Other(s)][e] = p
  /\ \A z \in Sides, n \in M : r.kid[z][n] = t.kid[z][n]
Over(M, U, s, e, q, p) ==
  M = U[q] \cup U[p] /\ (\A m \in U[q] : On(s, m, e)) /\ (\A m \in U[p] : On(Other(s), m, e))

TreeAt(r, N, e) == \E V : Forest(r, N, V) /\ V[e] = N

LEMMA CrownForest ==
  ASSUME NEW t, NEW M, NEW U, Forest(t, M, U), NEW e \in Nodes, e \notin M, NEW s \in Sides,
         NEW q \in M \cup {NULL}, NEW p \in M \cup {NULL}, Over(M, U, s, e, q, p),
         NEW r, Crowned(r, t, M, s, e, q, p), NEW N, N = M \cup {e}
  PROVE  TreeAt(r, N, e)
<1> USE DEF Crowned, Over
<1> DEFINE V == [n \in Links |-> IF n = e THEN N ELSE U[n]]
<1>1. /\ M \in SUBSET Nodes /\ NULL \notin M /\ U \in [Links -> SUBSET Nodes] /\ U[NULL] = {}
      /\ e # NULL /\ e \in Links
  <2>1. e # NULL /\ e \in Links
    BY NodesAssumption DEF Links
  <2> QED BY <2>1, ForestType
<1>2. N \in SUBSET Nodes /\ \A n \in Links : V[n] = IF n = e THEN N ELSE U[n]
  BY <1>1
<1>3. V \in [Links -> SUBSET Nodes]
  BY <1>1, <1>2
<1> HIDE DEF V
<1>4. /\ V[e] = N /\ V[NULL] = {} /\ \A n \in M \cup {NULL} : V[n] = U[n]
      /\ \A n \in N : V[n] \subseteq N
  <2>1. \A n \in M \cup {NULL} : n \in Links /\ n # e /\ U[n] \subseteq M
    BY <1>1, ForestType
  <2> QED BY <1>1, <1>2, <2>1
<1>5. \A n \in M, z \in Sides : r.kid[z][n] = t.kid[z][n] /\ t.kid[z][n] \in M \cup {NULL}
  BY ForestType
<1>6. \A z \in Sides : z = s \/ z = Other(s)
  BY OtherSide
<1>7. \A n \in N, z \in Sides : r.kid[z][n] \in N \cup {NULL}
  BY <1>5, <1>6
<1>8. ASSUME NEW n \in N
      PROVE  \E z \in Sides : V[n] = {n} \cup V[r.kid[z][n]] \cup V[r.kid[Other(z)][n]]
  <2>1. CASE n = e
    <3>1. V[n] = {n} \cup V[r.kid[s][n]] \cup V[r.kid[Other(s)][n]]
      BY <1>4, <2>1
    <3> QED BY <3>1
  <2>2. CASE n \in M
    <3>1. U[n] = {n} \cup U[t.kid[s][n]] \cup U[t.kid[Other(s)][n]] /\ Other(s) \in Sides
      BY <2>2, ForestSides, OtherSide
    <3>2. V[n] = {n} \cup V[r.kid[s][n]] \cup V[r.kid[Other(s)][n]]
      BY <1>4, <1>5, <2>2, <3>1
    <3> QED BY <3>2
  <2> QED BY <2>1, <2>2
<1>9. \A n \in N, z \in Sides : \A m \in V[r.kid[z][n]] : On(z, m, n)
  <2> TAKE n \in N, z \in Sides
  <2>1. CASE n = e
    BY <1>4, <1>6, <2>1
  <2>2. CASE n \in M
    BY <1>4, <1>5, <2>2, ForestSides
  <2> QED BY <2>1, <2>2
<1>10. Forest(r, N, V)
  <2> QED BY <1>2, <1>3, <1>4, <1>7, <1>8, <1>9, ForestFrom
<1> QED BY <1>4, <1>10 DEF TreeAt

(* Trees that share no node.                                               *)
SideBySide(t, M, U, N, V, W) ==
  Forest(t, M \cup N, W) /\ (\A n \in M : W[n] = U[n]) /\ (\A n \in N : W[n] = V[n])

LEMMA JoinForest ==
  ASSUME NEW t, NEW M, NEW U, Forest(t, M, U), NEW N, NEW V, Forest(t, N, V), M \cap N = {}
  PROVE  \E W : SideBySide(t, M, U, N, V, W)
<1> DEFINE W == [n \in Links |-> IF n \in M THEN U[n] ELSE V[n]]
<1>1. /\ M \in SUBSET Nodes /\ NULL \notin M /\ U \in [Links -> SUBSET Nodes] /\ U[NULL] = {}
      /\ N \in SUBSET Nodes /\ NULL \notin N /\ V \in [Links -> SUBSET Nodes] /\ V[NULL] = {}
      /\ \A n \in M : n \in Links /\ U[n] \subseteq M
      /\ \A n \in N : n \in Links /\ V[n] \subseteq N
      /\ \A n \in M, z \in Sides : t.kid[z][n] \in M \cup {NULL}
      /\ \A n \in N, z \in Sides : t.kid[z][n] \in N \cup {NULL}
  BY ForestType
<1>2. W \in [Links -> SUBSET Nodes]
  BY <1>1
<1>3. /\ \A n \in M \cup {NULL} : W[n] = U[n]
      /\ \A n \in N \cup {NULL} : W[n] = V[n]
  BY <1>1 DEF Links
<1> HIDE DEF W
<1>4. \A n \in M \cup N : W[n] \subseteq M \cup N
  BY <1>1, <1>3
<1>5. \A n \in M \cup N, z \in Sides : t.kid[z][n] \in M \cup N \cup {NULL}
  BY <1>1
<1>6. ASSUME NEW n \in M \cup N
      PROVE  \E z \in Sides : W[n] = {n} \cup W[t.kid[z][n]] \cup W[t.kid[Other(z)][n]]
  <2>1. "left" \in Sides /\ Other("left") \in Sides
    BY OtherSide DEF Sides
  <2>2. CASE n \in M
    <3>1. U[n] = {n} \cup U[t.kid["left"][n]] \cup U[t.kid[Other("left")][n]]
      BY <2>1, <2>2, ForestSides
    <3>2. W[n] = {n} \cup W[t.kid["left"][n]] \cup W[t.kid[Other("left")][n]]
      BY <1>1, <1>3, <2>1, <2>2, <3>1
    <3> QED BY <2>1, <3>2
  <2>3. CASE n \in N
    <3>1. V[n] = {n} \cup V[t.kid["left"][n]] \cup V[t.kid[Other("left")][n]]
      BY <2>1, <2>3, ForestSides
    <3>2. W[n] = {n} \cup W[t.kid["left"][n]] \cup W[t.kid[Other("left")][n]]
      BY <1>1, <1>3, <2>1, <2>3, <3>1
    <3> QED BY <2>1, <3>2
  <2> QED BY <2>2, <2>3
<1>7. \A n \in M \cup N, z \in Sides : \A m \in W[t.kid[z][n]] : On(z, m, n)
  <2> TAKE n \in M \cup N, z \in Sides
  <2>1. CASE n \in M
    BY <1>1, <1>3, <2>1, ForestSides
  <2>2. CASE n \in N
    BY <1>1, <1>3, <2>2, ForestSides
  <2> QED BY <2>1, <2>2
<1>8. Forest(t, M \cup N, W)
  <2> DEFINE P == M \cup N
  <2>1. P \in SUBSET Nodes /\ W[NULL] = {}
    BY <1>1, <1>3
  <2> HIDE DEF P
  <2>2. Forest(t, P, W)
    BY <1>2, <1>4, <1>5, <1>6, <1>7, <2>1, ForestFrom DEF P
  <2> QED BY <2>2 DEF P
<1> QED BY <1>3, <1>8 DEF SideBySide

-----------------------------------------------------------------------------
(* The splay tree between two calls.                                       *)
Kept(t, M, U) ==
  SplayTree(t, M, U) /\ \A z \in Sides, n \in Nodes \ M : t.kid[z][n] = NULL

LEMMA KeptAlong ==
  ASSUME NEW t, NEW M, NEW U, Kept(t, M, U), NEW r, Untouched(r, t, M),
         \E V : SplayTree(r, M, V)
  PROVE  \E V : Kept(r, M, V)
BY DEF Kept, Untouched

(* SPLAY_INSERT of a key that is not in the tree.                          *)
Inserted(t, e) ==
  LET s == KeySide(e, t.root)
  IN  [t EXCEPT !.kid[s][e] = t.kid[s][t.root], !.kid[Other(s)][e] = t.root,
                !.kid[s][t.root] = NULL, !.root = e]

LEMMA InsertedIs ==
  ASSUME NEW t \in STrees, NEW e \in Nodes, t.root \in Nodes, t.root # e,
         NEW s \in Sides, s = KeySide(e, t.root)
  PROVE  LET r == Inserted(t, e)
         IN  /\ r \in STrees /\ r.root = e
             /\ \A z \in Sides, n \in Spots :
                  r.kid[z][n] = IF n = e THEN IF z = s THEN t.kid[s][t.root] ELSE t.root
                                ELSE IF z = s /\ n = t.root THEN NULL ELSE t.kid[z][n]
<1> DEFINE x == t.root
           q == t.kid[s][x]
           r1 == [t EXCEPT !.kid[s][e] = q]
           r2 == [r1 EXCEPT !.kid[Other(s)][e] = x]
           none == NULL
           r3 == [r2 EXCEPT !.kid[s][x] = none]
           r4 == [r3 EXCEPT !.root = e]
<1>1. x \in Spots /\ x \in Links /\ e \in Spots /\ e \in Links /\ none \in Links /\ q \in Links
      /\ Other(s) \in Sides /\ Other(s) # s /\ \A z \in Sides : z = s \/ z = Other(s)
  BY LocalApart, STreeType, OtherSide DEF Links
<1>2. Inserted(t, e) = r4
  BY DEF Inserted
<1> HIDE DEF x, q, none
<1>3. /\ r1 \in STrees /\ r1.root = t.root
      /\ \A z \in Sides, n \in Spots : r1.kid[z][n] = IF z = s /\ n = e THEN q ELSE t.kid[z][n]
  BY <1>1, SetSpotIs
<1> HIDE DEF r1
<1>4. /\ r2 \in STrees /\ r2.root = r1.root
      /\ \A z \in Sides, n \in Spots : r2.kid[z][n] = IF z = Other(s) /\ n = e THEN x ELSE r1.kid[z][n]
  BY <1>1, <1>3, SetSpotIs
<1> HIDE DEF r2
<1>5. /\ r3 \in STrees /\ r3.root = r2.root
      /\ \A z \in Sides, n \in Spots : r3.kid[z][n] = IF z = s /\ n = x THEN none ELSE r2.kid[z][n]
  <2>1. r2 \in STrees /\ x \in Spots /\ none \in Links
    BY <1>1, <1>4
  <2> QED BY <2>1, SetSpotIs
<1> HIDE DEF r3
<1>6. r4 \in STrees /\ r4.root = e /\ r4.kid = r3.kid
  BY <1>1, <1>5, SetTopIs
<1> HIDE DEF r4
<1>7. \A z \in Sides, n \in Spots :
        r4.kid[z][n] = IF n = e THEN IF z = s THEN q ELSE x
                       ELSE IF z = s /\ n = x THEN NULL ELSE t.kid[z][n]
  <2>1. x # e
    BY DEF x
  <2> QED BY <1>1, <1>3, <1>4, <1>5, <1>6, <2>1 DEF none
<1> QED BY <1>2, <1>6, <1>7 DEF x, q

LEMMA InsertKept ==
  ASSUME NEW t, NEW M, NEW U, Kept(t, M, U), t.root \in M, NEW e \in Nodes, e \notin M,
         NEW s \in Sides, s = KeySide(e, t.root), On(s, e, t.root),
         \A m \in M : On(s, m, t.root) => On(s, m, e)
  PROVE  \E V : Kept(Inserted(t, e), M \cup {e}, V)
<1> DEFINE x == t.root
           o == Other(s)
           q == t.kid[s][x]
           r == Inserted(t, e)
           V == [n \in Links |-> IF n = x THEN {x} \cup U[t.kid[Other(s)][x]] ELSE U[n]]
           c == [kid |-> [z \in Sides |-> [n \in M |-> IF z = s /\ n = x THEN NULL ELSE t.kid[z][n]]]]
<1>1. /\ t \in STrees /\ Forest(t, M, U) /\ x \in M /\ U[x] = M
      /\ M \in SUBSET Nodes /\ NULL \notin M /\ U[NULL] = {} /\ x \in Nodes /\ x # e
      /\ o \in Sides /\ o # s /\ Other(o) = s
      /\ \A z \in Sides : t.kid[z][Local] = NULL
      /\ \A z \in Sides, n \in Nodes \ M : t.kid[z][n] = NULL
  BY ForestType, OtherSide DEF Kept, SplayTree
<1>2. /\ r \in STrees /\ r.root = e
      /\ \A z \in Sides, n \in Spots :
           r.kid[z][n] = IF n = e THEN IF z = s THEN q ELSE x
                         ELSE IF z = s /\ n = x THEN NULL ELSE t.kid[z][n]
  BY <1>1, InsertedIs
<1> HIDE DEF r
<1>3. /\ M = {x} \cup U[q] \cup U[t.kid[o][x]] /\ q \in M \cup {NULL}
      /\ \A m \in U[q] : On(s, m, x) /\ m \in M
      /\ \A m \in U[t.kid[o][x]] : On(o, m, x) /\ m \in M
      /\ x \notin U[q]
  <2> HIDE DEF o, x
  <2>1. /\ U[x] = {x} \cup U[t.kid[s][x]] \cup U[t.kid[o][x]] /\ t.kid[s][x] \in M \cup {NULL}
        /\ \A m \in U[t.kid[s][x]] : On(s, m, x) /\ m \in M
    BY <1>1, ForestSides DEF o
  <2>2. \A m \in U[t.kid[o][x]] : On(o, m, x) /\ m \in M
    BY <1>1, ForestSides
  <2>3. x \notin U[t.kid[s][x]]
    BY <1>1, ForestSelf
  <2> QED BY <1>1, <2>1, <2>2, <2>3
<1>4. /\ \A z \in Sides, n \in M : c.kid[z][n] = IF z = s /\ n = x THEN NULL ELSE t.kid[z][n]
      /\ \A n \in Links : V[n] = IF n = x THEN {x} \cup U[t.kid[Other(s)][x]] ELSE U[n]
  OBVIOUS
<1> HIDE DEF c
<1>5. Forest(c, M, V)
  <2>1. \A n \in M : x \in U[n] => n = x
    BY <1>1, ForestApart
  <2> HIDE DEF x
  <2> QED BY <1>1, <1>4, <2>1, CutForest
<1> HIDE DEF V
<1>6. V[q] = U[q] /\ V[x] = {x} \cup U[t.kid[o][x]]
  <2>1. q # x
    BY <1>1, <1>3, ForestSelf
  <2>2. q \in Links /\ x \in Links
    BY <1>1, <1>3 DEF Links
  <2> QED BY <1>4, <2>1, <2>2
<1>7. \A m \in V[q] : On(s, m, e)
  BY <1>3, <1>6
<1>8. \A m \in V[x] : On(o, m, e)
  <2>1. On(o, x, e)
    BY <1>1, OnOrder
  <2>2. \A m \in U[t.kid[o][x]] : On(o, m, e)
    <3> TAKE m \in U[t.kid[o][x]]
    <3>1. m \in Nodes /\ On(o, m, x)
      BY <1>1, <1>3
    <3> HIDE DEF o, x
    <3> QED BY <1>1, <2>1, <3>1, OnOrder
  <2> QED BY <1>6, <2>1, <2>2
<1>9. Nodes \subseteq Spots /\ Local \in Spots /\ Local \notin Nodes
  BY LocalApart
<1>10. \E W : Forest(r, M \cup {e}, W) /\ W[e] = M \cup {e}
  <2>1. M = V[q] \cup V[x]
    BY <1>3, <1>6
  <2>2. r.kid[s][e] = q /\ r.kid[o][e] = x
    BY <1>1, <1>2, <1>9
  <2>3. \A z \in Sides, n \in M : r.kid[z][n] = c.kid[z][n]
    BY <1>1, <1>2, <1>4, <1>9
  <2>4. Crowned(r, c, M, s, e, q, x)
    BY <2>2, <2>3 DEF Crowned
  <2>5. q \in M \cup {NULL} /\ x \in M \cup {NULL} /\ Over(M, V, s, e, q, x)
    BY <2>1, <1>1, <1>3, <1>7, <1>8 DEF Over
  <2> DEFINE N == M \cup {e}
  <2>6. N = M \cup {e}
    OBVIOUS
  <2> HIDE DEF q, x, o, N
  <2>7. q \in M \cup {NULL} /\ x \in M \cup {NULL} /\ e \in Nodes /\ e \notin M
    BY <2>5
  <2>8. TreeAt(r, N, e)
    BY <1>5, <2>4, <2>5, <2>6, <2>7, CrownForest
  <2> QED BY <2>8 DEF N, TreeAt
<1>11. \A y \in Sides : r.kid[y][Local] = NULL
  BY <1>1, <1>2, <1>9
<1>12. \A z \in Sides, n \in Nodes \ (M \cup {e}) : r.kid[z][n] = NULL
  BY <1>1, <1>2, <1>9
<1> QED BY <1>2, <1>10, <1>11, <1>12 DEF Kept, SplayTree, r

(* SPLAY_INSERT into an empty tree.                                        *)
LEMMA FirstKept ==
  ASSUME NEW t, NEW M, NEW U, Kept(t, M, U), t.root = NULL, NEW e \in Nodes
  PROVE  M = {} /\ \E V : Kept([t EXCEPT !.root = e], {e}, V)
<1> DEFINE r == [t EXCEPT !.root = e]
<1>1. /\ t \in STrees /\ Forest(t, M, U) /\ M = {} /\ U[NULL] = {}
      /\ \A z \in Sides : t.kid[z][Local] = NULL
      /\ \A z \in Sides, n \in Nodes : t.kid[z][n] = NULL
  BY ForestType DEF Kept, SplayTree
<1>2. e \in Links
  BY DEF Links
<1>3. r \in STrees /\ r.root = e /\ r.kid = t.kid
  BY <1>1, <1>2, SetTopIs
<1> HIDE DEF r
<1>4. "left" \in Sides /\ Other("left") \in Sides
  BY OtherSide DEF Sides
<1>5. \E V : Forest(r, {e}, V) /\ V[e] = {e}
  <2>1. Crowned(r, t, M, "left", e, NULL, NULL)
    BY <1>1, <1>3, <1>4 DEF Crowned
  <2> DEFINE N == {e}
  <2>2. e \notin M /\ NULL \in M \cup {NULL} /\ Over(M, U, "left", e, NULL, NULL) /\ N = M \cup {e}
    BY <1>1 DEF Over
  <2> HIDE DEF N
  <2>3. TreeAt(r, N, e)
    BY <1>1, <1>4, <2>1, <2>2, CrownForest
  <2> QED BY <2>3 DEF N, TreeAt
<1> QED BY <1>1, <1>3, <1>5 DEF Kept, SplayTree, r

(* SPLAY_REMOVE of the root x: it is cut off from what is left.            *)
CutOff(j, x) == [j EXCEPT !.kid["left"][x] = NULL, !.kid["right"][x] = NULL]
Joined(t, e) ==
  LET tmp == t.kid["right"][t.root]
      lower == SPLAY([t EXCEPT !.root = t.kid["left"][t.root]], e)
  IN  IF t.kid["left"][t.root] = NULL THEN [t EXCEPT !.root = tmp]
      ELSE [lower EXCEPT !.kid["right"][lower.root] = tmp]

LEMMA CutOffKept ==
  ASSUME NEW j, NEW N, NEW V, SplayTree(j, N, V), NEW x \in Nodes, x \notin N,
         \A z \in Sides, n \in Nodes \ (N \cup {x}) : j.kid[z][n] = NULL
  PROVE  Kept(CutOff(j, x), N, V)
<1> DEFINE j1 == [j EXCEPT !.kid["left"][x] = NULL]
           j2 == [j1 EXCEPT !.kid["right"][x] = NULL]
<1>1. /\ j \in STrees /\ x \in Spots /\ NULL \in Links /\ "left" \in Sides /\ "right" \in Sides
      /\ \A z \in Sides : z = "left" \/ z = "right"
      /\ Local \in Spots /\ Local # x /\ N \subseteq Nodes /\ Nodes \subseteq Spots
  BY LocalApart, ForestType DEF SplayTree, Links, Sides
<1>2. CutOff(j, x) = j2
  BY DEF CutOff
<1>3. /\ j1 \in STrees /\ j1.root = j.root
      /\ \A z \in Sides, a \in Spots : j1.kid[z][a] = IF z = "left" /\ a = x THEN NULL ELSE j.kid[z][a]
  BY <1>1, SetSpotIs
<1> HIDE DEF j1
<1>4. /\ j2 \in STrees /\ j2.root = j1.root
      /\ \A z \in Sides, a \in Spots : j2.kid[z][a] = IF z = "right" /\ a = x THEN NULL ELSE j1.kid[z][a]
  BY <1>1, <1>3, SetSpotIs
<1> HIDE DEF j2
<1>5. \A z \in Sides, a \in Spots : j2.kid[z][a] = IF a = x THEN NULL ELSE j.kid[z][a]
  BY <1>1, <1>3, <1>4
<1>6. Forest(j2, N, V)
  <2>1. Forest(j, N, V) /\ \A z \in Sides, n \in N : j2.kid[z][n] = j.kid[z][n]
    BY <1>1, <1>5 DEF SplayTree
  <2> QED BY <2>1, ForestSame
<1>7. SplayTree(j2, N, V)
  BY <1>1, <1>3, <1>4, <1>5, <1>6 DEF SplayTree
<1>8. \A z \in Sides, n \in Nodes \ N : j2.kid[z][n] = NULL
  BY <1>1, <1>5
<1> QED BY <1>2, <1>7, <1>8 DEF Kept

(* What hangs below a link is a tree of its own.                           *)
LEMMA PartTree ==
  ASSUME NEW t, NEW M, NEW U, SplayTree(t, M, U), NEW a \in M \cup {NULL}
  PROVE  LET r == [t EXCEPT !.root = a]
         IN  SplayTree(r, U[a], U) /\ r.root = a /\ r.kid = t.kid
<1> DEFINE r == [t EXCEPT !.root = a]
<1>1. /\ t \in STrees /\ Forest(t, M, U) /\ a \in Links /\ U[a] \subseteq M /\ U[NULL] = {}
      /\ \A z \in Sides : t.kid[z][Local] = NULL
  BY ForestType DEF SplayTree
<1>2. r \in STrees /\ r.root = a /\ r.kid = t.kid
  BY <1>1, SetTopIs
<1> HIDE DEF r
<1>3. \A n \in U[a] : U[n] \subseteq U[a]
  <2>1. CASE a = NULL
    BY <1>1, <2>1
  <2>2. CASE a \in M
    BY <1>1, <2>2, ForestTransitive
  <2> QED BY <2>1, <2>2
<1>4. Forest(t, U[a], U)
  BY <1>1, <1>3, ForestPart
<1>5. Forest(r, U[a], U)
  BY <1>2, <1>4, ForestSame
<1>6. a \in U[a] \cup {NULL}
  BY <1>1, ForestSelf
<1> QED BY <1>1, <1>2, <1>5, <1>6 DEF SplayTree, r

(* The root and the two trees below it.                                    *)
LEMMA RootParts ==
  ASSUME NEW t, NEW M, NEW U, SplayTree(t, M, U), t.root \in M
  PROVE  LET x == t.root
             l == t.kid["left"][x]
             q == t.kid["right"][x]
         IN  /\ l \in M \cup {NULL} /\ q \in M \cup {NULL}
             /\ M \ {x} = U[l] \cup U[q] /\ U[l] \cap U[q] = {}
             /\ \A m \in U[l] : m \in M /\ On("left", m, x)
             /\ \A m \in U[q] : m \in M /\ On("right", m, x)
<1>1. "left" \in Sides /\ "right" \in Sides /\ Other("left") = "right" /\ Other("right") = "left"
  BY DEF Sides, Other
<1>2. Forest(t, M, U) /\ U[t.root] = M
  BY DEF SplayTree
<1>3. /\ U[t.root] = {t.root} \cup U[t.kid["left"][t.root]] \cup U[t.kid["right"][t.root]]
      /\ t.kid["left"][t.root] \in M \cup {NULL}
      /\ \A m \in U[t.kid["left"][t.root]] : m \in M /\ On("left", m, t.root)
  BY <1>1, <1>2, ForestSides
<1>4. /\ t.kid["right"][t.root] \in M \cup {NULL}
      /\ \A m \in U[t.kid["right"][t.root]] : m \in M /\ On("right", m, t.root)
  BY <1>1, <1>2, ForestSides
<1>5. t.root \notin U[t.kid["left"][t.root]] /\ t.root \notin U[t.kid["right"][t.root]]
  BY <1>1, <1>2, ForestSelf
<1>6. \A a \in U[t.kid["left"][t.root]] : a \notin U[t.kid["right"][t.root]]
  BY <1>1, <1>2, ForestApart
<1> QED BY <1>2, <1>3, <1>4, <1>5, <1>6

(* The root has no left subtree: its right one is what is left.            *)
LEMMA LoneJoined ==
  ASSUME NEW t, NEW M, NEW U, SplayTree(t, M, U), t.root \in M, NEW e,
         t.kid["left"][t.root] = NULL
  PROVE  /\ SplayTree(Joined(t, e), M \ {t.root}, U)
         /\ Joined(t, e).kid = t.kid
<1> DEFINE q == t.kid["right"][t.root]
<1>1. q \in M \cup {NULL} /\ M \ {t.root} = U[q]
  <2>1. U[NULL] = {}
    BY ForestType DEF SplayTree
  <2> QED BY <2>1, RootParts
<1>2. Joined(t, e) = [t EXCEPT !.root = q]
  BY DEF Joined
<1> HIDE DEF q
<1> QED BY <1>1, <1>2, PartTree

(* The largest node of the left subtree is brought to its top.             *)
LEMMA LowerIs ==
  ASSUME NEW t, NEW M, NEW U, SplayTree(t, M, U), t.root \in M, NEW e \in Nodes,
         NodeKey[e] = NodeKey[t.root], NEW l, l = t.kid["left"][t.root], l # NULL
  PROVE  LET r == SPLAY([t EXCEPT !.root = l], e)
         IN  /\ \E V : SplayTree(r, U[l], V)
             /\ r.root \in U[l] /\ r.kid["right"][r.root] = NULL
             /\ \A a \in U[l] : a = r.root \/ On("right", r.root, a)
             /\ Untouched(r, t, U[l])
<1> DEFINE t1 == [t EXCEPT !.root = l]
           r == SPLAY(t1, e)
           y == r.root
           s == KeySide(e, y)
<1>1. /\ l \in M /\ \A m \in U[l] : m \in M /\ On("left", m, t.root)
  BY RootParts
<1>2. SplayTree(t1, U[l], U) /\ t1.root = l /\ t1.kid = t.kid
  BY <1>1, PartTree
<1> HIDE DEF t1
<1>3. /\ \E V : SplayTree(r, U[l], V)
      /\ Untouched(r, t1, U[l]) /\ y \in U[l]
      /\ NodeKey[y] # NodeKey[e] =>
           /\ s \in Sides /\ On(s, e, y)
           /\ \A m \in U[l] : NodeKey[m] # NodeKey[e] /\ (On(s, m, y) => On(s, m, e))
  BY <1>2, SplayIs
<1> HIDE DEF r
<1>4. M \subseteq Nodes /\ \A m \in M : NodeKey[m] \in Int
  BY ForestType, NodesAssumption DEF SplayTree
<1>5. NodeKey[y] < NodeKey[e] /\ \A m \in U[l] : NodeKey[m] < NodeKey[e]
  BY <1>1, <1>3, <1>4 DEF On
<1>6. s = "right"
  BY <1>1, <1>3, <1>4, <1>5 DEF KeySide
<1>7. NodeKey[y] # NodeKey[e] /\ NodeKey[e] \in Int
  BY <1>1, <1>3, <1>4, <1>5
<1> HIDE DEF s
<1>8. \A m \in U[l] : ~ On("right", m, y)
  <2>1. \A m \in U[l] : On("right", m, y) => On("right", m, e)
    BY <1>3, <1>6, <1>7
  <2> QED BY <1>1, <1>4, <1>5, <1>7, <2>1 DEF On
<1>9. PICK V : SplayTree(r, U[l], V)
  BY <1>3
<1> HIDE DEF y
<1>10. y = r.root /\ y \in U[l]
  BY <1>3 DEF y
<1>11. /\ r.kid["right"][y] \in U[l] \cup {NULL} /\ V[NULL] = {}
       /\ U[l] \ {y} = V[r.kid["left"][y]] \cup V[r.kid["right"][y]]
       /\ \A m \in V[r.kid["right"][y]] : m \in U[l] /\ On("right", m, y)
       /\ \A m \in V[r.kid["left"][y]] : m \in U[l] /\ On("left", m, y)
  <2>1. V[NULL] = {}
    BY <1>9, ForestType DEF SplayTree
  <2>2. r.root \in U[l]
    BY <1>10
  <2>3. /\ r.kid["right"][r.root] \in U[l] \cup {NULL}
        /\ U[l] \ {r.root} = V[r.kid["left"][r.root]] \cup V[r.kid["right"][r.root]]
        /\ \A m \in V[r.kid["right"][r.root]] : m \in U[l] /\ On("right", m, r.root)
        /\ \A m \in V[r.kid["left"][r.root]] : m \in U[l] /\ On("left", m, r.root)
    BY <1>9, <2>2, RootParts
  <2> QED BY <1>10, <2>1, <2>3
<1>12. r.kid["right"][y] = NULL
  <2> SUFFICES ASSUME r.kid["right"][y] # NULL PROVE FALSE
    OBVIOUS
  <2> DEFINE k == r.kid["right"][y]
  <2>1. k \in U[l] /\ Forest(r, U[l], V)
    BY <1>9, <1>11 DEF SplayTree
  <2>2. k \in V[k]
    BY <2>1, ForestSelf
  <2> QED BY <1>8, <1>11, <2>1, <2>2
<1>13. \A a \in U[l] : a = y \/ On("right", y, a)
  <2> TAKE a \in U[l]
  <2>1. a = y \/ On("left", a, y)
    BY <1>11, <1>12
  <2>2. On("left", a, y) => On("right", y, a)
    BY <1>1, <1>4, <1>10 DEF On
  <2> QED BY <2>1, <2>2
<1>14. Untouched(r, t, U[l])
  BY <1>2, <1>3 DEF Untouched
<1> QED BY <1>3, <1>10, <1>12, <1>13, <1>14 DEF r, y, t1

(* The right subtree is hung below that node.                              *)
IsTree(r, M) == \E V : SplayTree(r, M, V)

LEMMA BothJoined ==
  ASSUME NEW t, NEW M, NEW U, SplayTree(t, M, U), t.root \in M, NEW e \in Nodes,
         NodeKey[e] = NodeKey[t.root], t.kid["left"][t.root] # NULL
  PROVE  /\ IsTree(Joined(t, e), M \ {t.root})
         /\ \A z \in Sides, n \in Nodes \ M : Joined(t, e).kid[z][n] = t.kid[z][n]
<1> DEFINE x == t.root
           l == t.kid["left"][x]
           q == t.kid["right"][x]
           r == SPLAY([t EXCEPT !.root = l], e)
           y == r.root
           j == [r EXCEPT !.kid["right"][y] = q]
           N == U[l]
           P == U[q]
           R == M \ {x}
<1>1. Joined(t, e) = j
  BY DEF Joined
<1>2. /\ l \in M /\ q \in M \cup {NULL} /\ R = N \cup P /\ N \cap P = {}
      /\ \A m \in N : m \in M /\ On("left", m, x)
      /\ \A m \in P : m \in M /\ On("right", m, x)
  BY RootParts
<1>3. /\ \E V : SplayTree(r, N, V)
      /\ y \in N /\ r.kid["right"][y] = NULL
      /\ \A a \in N : a = y \/ On("right", y, a)
      /\ Untouched(r, t, N)
  BY LowerIs
<1>4. PICK V : SplayTree(r, N, V)
  BY <1>3
<1>5. /\ Forest(t, M, U) /\ M \subseteq Nodes /\ NULL \notin M /\ x \in M
      /\ \A m \in M : NodeKey[m] \in Int
  BY ForestType, NodesAssumption DEF SplayTree
<1>6. SplayTree([t EXCEPT !.root = q], P, U) /\ [t EXCEPT !.root = q].kid = t.kid
  BY <1>2, PartTree
<1> HIDE DEF r, q, l, x, j, R
<1>7. /\ r \in STrees /\ r.root = y /\ Forest(r, N, V) /\ V[y] = N
      /\ \A z \in Sides : r.kid[z][Local] = NULL
  BY <1>4 DEF SplayTree
<1> HIDE DEF y
<1>8. Forest(r, P, U)
  <2> DEFINE w == [t EXCEPT !.root = q]
  <2>1. Forest(w, P, U) /\ w.kid = t.kid
    BY <1>6 DEF SplayTree
  <2> HIDE DEF w
  <2>2. \A z \in Sides, n \in P : r.kid[z][n] = w.kid[z][n]
    BY <1>2, <1>3, <1>5, <2>1 DEF Untouched
  <2> HIDE DEF P
  <2> QED BY <2>1, <2>2, ForestSame
<1>9. q \in P \cup {NULL} /\ \A n \in P : U[n] \subseteq P
  <2>1. q \in M => q \in P
    BY <1>5, ForestSelf
  <2> QED BY <1>2, <1>8, <2>1, ForestType
<1>10. \A n \in N : V[n] \subseteq N
  BY <1>7, ForestType
<1>11. U[NULL] = {}
  BY <1>5, ForestType
<1> HIDE DEF N, P
<1>12. PICK W : /\ Forest(r, R, W)
                /\ \A n \in N : W[n] = V[n]
                /\ \A n \in P : W[n] = U[n]
  <2>1. \E W : SideBySide(r, N, V, P, U, W)
    BY <1>2, <1>7, <1>8, JoinForest
  <2> QED BY <1>2, <2>1 DEF SideBySide
<1>13. W[y] = N /\ W[q] = P /\ y \in R /\ q \in R \cup {NULL}
  <2>1. W[NULL] = {}
    BY <1>12, ForestType
  <2>2. W[q] = P
    <3>1. CASE q = NULL
      BY <1>11, <2>1, <3>1 DEF P
    <3>2. CASE q \in P
      BY <1>12, <3>2 DEF P
    <3> QED BY <1>9, <3>1, <3>2
  <2> QED BY <1>2, <1>3, <1>7, <1>9, <1>12, <2>2
<1>14. End(r, W, "right", y, y)
  BY <1>3, <1>13 DEF End
<1>15. Whole(R, W, y)
  BY <1>2, <1>9, <1>12, <1>13 DEF Whole
<1>16. Beside(W, "right", q, y)
  <2> SUFFICES ASSUME NEW a \in N, NEW m \in P PROVE On("right", m, a)
    BY <1>13 DEF Beside
  <2>1. On("left", a, x) /\ On("right", m, x) /\ a \in M /\ m \in M
    BY <1>2
  <2> QED BY <1>5, <2>1 DEF On
<1>17. /\ j \in STrees /\ j.root = y
       /\ \A z \in Sides, a \in Spots : j.kid[z][a] = IF z = "right" /\ a = y THEN q ELSE r.kid[z][a]
  <2>1. y \in Spots /\ q \in Links /\ "right" \in Sides
    BY <1>2, <1>3, <1>5, LocalApart DEF Links, Sides
  <2> QED BY <1>7, <2>1, SetSpotIs DEF j
<1>18. Relinked(j, r, R, "right", y, q)
  BY <1>5, <1>17, LocalApart DEF Relinked, R
<1>19. \E Z : Forest(j, R, Z) /\ Z[y] = R
  <2>1. \E Z : Forest(j, R, Z) /\ Z[y] = W[y] \cup W[q]
    <3>1. "right" \in Sides
      BY DEF Sides
    <3> QED BY <1>12, <1>13, <1>14, <1>15, <1>16, <1>18, <3>1, GraftAtEnd
  <2> QED BY <1>2, <1>13, <2>1
<1>20. y \in Nodes /\ y # Local /\ Local \in Spots /\ Nodes \subseteq Spots
  BY <1>2, <1>3, <1>5, LocalApart
<1>21. \E Z : SplayTree(j, R, Z)
  BY <1>7, <1>13, <1>17, <1>19, <1>20 DEF SplayTree
<1>22. \A z \in Sides, n \in Nodes \ M : j.kid[z][n] = t.kid[z][n]
  <2> TAKE z \in Sides, n \in Nodes \ M
  <2>1. n # y /\ n \notin N
    BY <1>2, <1>3
  <2> QED BY <1>3, <1>17, <1>20, <2>1 DEF Untouched
<1> QED BY <1>1, <1>21, <1>22 DEF R, x, IsTree

LEMMA RemoveKept ==
  ASSUME NEW t, NEW M, NEW U, Kept(t, M, U), t.root \in M, NEW e \in Nodes,
         NodeKey[e] = NodeKey[t.root]
  PROVE  \E V : Kept(CutOff(Joined(t, e), t.root), M \ {t.root}, V)
<1> DEFINE j == Joined(t, e)
           x == t.root
           N == M \ {x}
<1>1. SplayTree(t, M, U) /\ M \subseteq Nodes /\ x \in M
      /\ \A z \in Sides, n \in Nodes \ M : t.kid[z][n] = NULL
  BY ForestType DEF Kept, SplayTree
<1>2. /\ IsTree(j, N)
      /\ \A z \in Sides, n \in Nodes \ M : j.kid[z][n] = t.kid[z][n]
  <2>1. CASE t.kid["left"][x] = NULL
    BY <1>1, <2>1, LoneJoined DEF IsTree
  <2>2. CASE t.kid["left"][x] # NULL
    BY <1>1, <2>2, BothJoined, SMTT(20)
  <2> QED BY <2>1, <2>2
<1>3. \A z \in Sides, n \in Nodes \ (N \cup {x}) : j.kid[z][n] = NULL
  BY <1>1, <1>2
<1> HIDE DEF j, N
<1>4. \E V : Kept(CutOff(j, x), N, V)
  <2>1. x \in Nodes /\ x \notin N
    BY <1>1 DEF N
  <2> QED BY <1>2, <1>3, <2>1, CutOffKept DEF IsTree
<1> QED BY <1>4 DEF j, N

-----------------------------------------------------------------------------
(* The invariant of the splay tree.                                        *)
IsKept(t, M) == \E U : Kept(t, M, U)
SplayInv == IsKept(sp, spIn) /\ spIn \subseteq SplayNodes

(* No node of M has a key strictly between those of e and x.               *)
NoneBetween(M, e, x) ==
  \A n \in M : /\ ~ (NodeKey[e] < NodeKey[n] /\ NodeKey[n] < NodeKey[x])
               /\ ~ (NodeKey[x] < NodeKey[n] /\ NodeKey[n] < NodeKey[e])

LEMMA KeptIs ==
  ASSUME NEW t, NEW M, IsKept(t, M)
  PROVE  /\ t \in STrees /\ M \in SUBSET Nodes /\ Distinct(M) /\ t.root \in M \cup {NULL}
         /\ t.root = NULL => M = {}
         /\ \A m \in M : m \in Nodes /\ m # NULL /\ NodeKey[m] \in Int
<1>1. PICK U : SplayTree(t, M, U)
  BY DEF IsKept, Kept
<1>2. t \in STrees /\ Forest(t, M, U) /\ t.root \in M \cup {NULL} /\ U[t.root] = M
  BY <1>1 DEF SplayTree
<1>3. M \in SUBSET Nodes /\ U[NULL] = {} /\ NULL \notin M
  BY <1>2, ForestType
<1>4. Distinct(M)
  BY <1>2, ForestKeys
<1>5. \A m \in M : NodeKey[m] \in Int
  BY <1>3, NodesAssumption
<1> QED BY <1>2, <1>3, <1>4, <1>5

LEMMA SplayKept ==
  ASSUME NEW t, NEW M, IsKept(t, M), t.root # NULL, NEW e \in Nodes
  PROVE  LET r == SPLAY(t, e)
             s == KeySide(e, r.root)
         IN  /\ IsKept(r, M) /\ r.root \in M /\ NoneBetween(M, e, r.root)
             /\ NodeKey[r.root] # NodeKey[e] =>
                  /\ s \in Sides /\ On(s, e, r.root)
                  /\ \A m \in M : NodeKey[m] # NodeKey[e] /\ (On(s, m, r.root) => On(s, m, e))
<1> DEFINE r == SPLAY(t, e)
           s == KeySide(e, r.root)
<1>1. PICK U : Kept(t, M, U)
  BY DEF IsKept
<1>2. /\ \E V : SplayTree(r, M, V)
      /\ Untouched(r, t, M) /\ r.root \in M
      /\ NodeKey[r.root] # NodeKey[e] =>
           /\ s \in Sides /\ On(s, e, r.root)
           /\ \A m \in M : NodeKey[m] # NodeKey[e] /\ (On(s, m, r.root) => On(s, m, e))
  <2>1. SplayTree(t, M, U)
    BY <1>1 DEF Kept
  <2> QED BY <2>1, SplayIs
<1> HIDE DEF r
<1>3. IsKept(r, M)
  BY <1>1, <1>2, KeptAlong DEF IsKept
<1>4. NoneBetween(M, e, r.root)
  <2>1. NodeKey[e] \in Int /\ \A m \in M : NodeKey[m] \in Int
    BY KeptIs, NodesAssumption
  <2>2. CASE NodeKey[r.root] = NodeKey[e]
    BY <1>2, <2>1, <2>2 DEF NoneBetween
  <2>3. CASE NodeKey[r.root] # NodeKey[e]
    <3> HIDE DEF s
    <3>1. s = "left" \/ s = "right"
      BY <1>2, <2>3 DEF Sides
    <3> QED BY <1>2, <2>1, <2>3, <3>1 DEF NoneBetween, On
  <2> QED BY <2>2, <2>3
<1> QED BY <1>2, <1>3, <1>4 DEF r

LEMMA MinMaxKept ==
  ASSUME NEW t, NEW M, IsKept(t, M), t.root # NULL, NEW s \in Sides
  PROVE  LET r == SPLAY_MINMAX(t, s)
         IN  IsKept(r, M) /\ r.root \in M /\ \A m \in M : ~ On(s, m, r.root)
<1> DEFINE r == SPLAY_MINMAX(t, s)
<1>1. PICK U : Kept(t, M, U)
  BY DEF IsKept
<1>2. /\ \E V : SplayTree(r, M, V)
      /\ Untouched(r, t, M) /\ r.root \in M
      /\ \A m \in M : ~ On(s, m, r.root)
  <2>1. SplayTree(t, M, U)
    BY <1>1 DEF Kept
  <2> QED BY <2>1, SplayMinMaxIs
<1> HIDE DEF r
<1>3. IsKept(r, M)
  BY <1>1, <1>2, KeptAlong DEF IsKept
<1> QED BY <1>2, <1>3 DEF r

LEMMA SplayInvInit == TreesInit => SplayInv
<1> SUFFICES ASSUME TreesInit PROVE SplayInv
  OBVIOUS
<1>1. sp = [kid |-> [s \in Sides |-> [n \in Spots |-> NULL]], root |-> NULL] /\ spIn = {}
  BY DEF TreesInit, Spots
<1> DEFINE U == [n \in Links |-> {}]
<1>2. sp \in STrees /\ sp.root = NULL /\ \A z \in Sides, n \in Spots : sp.kid[z][n] = NULL
  BY <1>1 DEF STrees, Links
<1>3. U \in [Links -> SUBSET Nodes] /\ U[NULL] = {}
  BY DEF Links
<1> HIDE DEF U
<1>4. Forest(sp, {}, U)
  BY <1>3 DEF Forest
<1>5. SplayTree(sp, {}, U)
  BY <1>2, <1>3, <1>4, LocalApart DEF SplayTree
<1>6. Kept(sp, {}, U)
  BY <1>2, <1>5, LocalApart DEF Kept
<1> QED BY <1>1, <1>6 DEF SplayInv, IsKept

LEMMA SplayInvInsert ==
  ASSUME SplayInv, SPLAY_INSERT PROVE SplayInv'
<1>1. IsKept(sp, spIn) /\ spIn \subseteq SplayNodes /\ SplayNodes \subseteq Nodes
  BY NodesAssumption DEF SplayInv
<1> DEFINE T(e) == IF sp.root = NULL THEN sp ELSE SPLAY(sp, e)
<1>2. PICK e \in SplayNodes \ spIn :
        IF T(e).root = NULL
        THEN sp' = [T(e) EXCEPT !.root = e] /\ spIn' = {e}
        ELSE IF NodeKey[e] = NodeKey[T(e).root]
        THEN sp' = T(e) /\ UNCHANGED spIn
        ELSE sp' = Inserted(T(e), e) /\ spIn' = spIn \cup {e}
  BY DEF SPLAY_INSERT, Inserted
<1>3. e \in Nodes /\ e \notin spIn
  BY <1>1, <1>2
<1>4. CASE sp.root = NULL
  <2>1. sp' = [sp EXCEPT !.root = e] /\ spIn' = {e}
    BY <1>2, <1>4
  <2>2. \E V : Kept([sp EXCEPT !.root = e], {e}, V)
    <3>1. PICK U : Kept(sp, spIn, U)
      BY <1>1 DEF IsKept
    <3> QED BY <1>3, <1>4, <3>1, FirstKept
  <2> QED BY <2>1, <2>2 DEF SplayInv, IsKept
<1>5. CASE sp.root # NULL
  <2> DEFINE t == SPLAY(sp, e)
             s == KeySide(e, t.root)
  <2>1. /\ IsKept(t, spIn) /\ t.root \in spIn
        /\ NodeKey[t.root] # NodeKey[e] =>
             /\ s \in Sides /\ On(s, e, t.root)
             /\ \A m \in spIn : On(s, m, t.root) => On(s, m, e)
    BY <1>1, <1>3, <1>5, SplayKept
  <2>2. T(e) = t
    BY <1>5
  <2> HIDE DEF t, T
  <2>3. t.root # NULL
    BY <2>1, KeptIs
  <2>4. CASE NodeKey[e] = NodeKey[t.root]
    <3>1. sp' = t /\ spIn' = spIn
      BY <1>2, <2>2, <2>3, <2>4
    <3> QED BY <1>1, <2>1, <3>1 DEF SplayInv
  <2>5. CASE NodeKey[e] # NodeKey[t.root]
    <3>1. sp' = Inserted(t, e) /\ spIn' = spIn \cup {e}
      BY <1>2, <2>2, <2>3, <2>5
    <3>2. PICK U : Kept(t, spIn, U)
      BY <2>1 DEF IsKept
    <3>3. s \in Sides /\ On(s, e, t.root) /\ \A m \in spIn : On(s, m, t.root) => On(s, m, e)
      BY <2>1, <2>5
    <3>4. s = KeySide(e, t.root)
      OBVIOUS
    <3> HIDE DEF s
    <3>5. \E V : Kept(Inserted(t, e), spIn \cup {e}, V)
      BY <1>3, <2>1, <3>2, <3>3, <3>4, InsertKept
    <3> QED BY <1>1, <3>1, <3>5 DEF SplayInv, IsKept
  <2> QED BY <2>4, <2>5
<1> QED BY <1>4, <1>5

LEMMA SplayInvRemove ==
  ASSUME SplayInv, SPLAY_REMOVE PROVE SplayInv'
<1>1. IsKept(sp, spIn) /\ spIn \subseteq SplayNodes /\ SplayNodes \subseteq Nodes
  BY NodesAssumption DEF SplayInv
<1> DEFINE T(e) == SPLAY(sp, e)
<1>2. /\ sp.root # NULL
      /\ \E e \in SplayNodes :
           IF NodeKey[e] = NodeKey[T(e).root]
           THEN sp' = CutOff(Joined(T(e), e), T(e).root) /\ spIn' = spIn \ {T(e).root}
           ELSE sp' = T(e) /\ UNCHANGED spIn
  BY DEF SPLAY_REMOVE, CutOff, Joined
<1>3. PICK e \in SplayNodes :
        IF NodeKey[e] = NodeKey[T(e).root]
        THEN sp' = CutOff(Joined(T(e), e), T(e).root) /\ spIn' = spIn \ {T(e).root}
        ELSE sp' = T(e) /\ UNCHANGED spIn
  BY <1>2
<1> DEFINE t == T(e)
<1>4. IsKept(t, spIn) /\ t.root \in spIn /\ e \in Nodes
  BY <1>1, <1>2, SplayKept
<1> HIDE DEF T
<1>5. CASE NodeKey[e] = NodeKey[t.root]
  <2>1. sp' = CutOff(Joined(t, e), t.root) /\ spIn' = spIn \ {t.root}
    BY <1>3, <1>5
  <2>2. PICK U : Kept(t, spIn, U)
    BY <1>4 DEF IsKept
  <2> HIDE DEF t
  <2>3. \E V : Kept(CutOff(Joined(t, e), t.root), spIn \ {t.root}, V)
    BY <1>4, <1>5, <2>2, RemoveKept
  <2> QED BY <1>1, <2>1, <2>3 DEF SplayInv, IsKept
<1>6. CASE NodeKey[e] # NodeKey[t.root]
  <2>1. sp' = t /\ spIn' = spIn
    BY <1>3, <1>6
  <2> QED BY <1>1, <1>4, <2>1 DEF SplayInv
<1> QED BY <1>5, <1>6

LEMMA SplayInvLookup ==
  ASSUME SplayInv, SplayLookup PROVE SplayInv'
<1>1. IsKept(sp, spIn) /\ spIn \subseteq SplayNodes /\ SplayNodes \subseteq Nodes
  BY NodesAssumption DEF SplayInv
<1>2. /\ sp.root # NULL /\ spIn' = spIn
      /\ (\E e \in Nodes : sp' = SPLAY(sp, e)) \/ (\E s \in Sides : sp' = SPLAY_MINMAX(sp, s))
  BY <1>1 DEF SplayLookup, SPLAY_FIND, SPLAY_NEXT
<1>3. CASE \E e \in Nodes : sp' = SPLAY(sp, e)
  <2>1. PICK e \in Nodes : sp' = SPLAY(sp, e)
    BY <1>3
  <2>2. IsKept(SPLAY(sp, e), spIn)
    BY <1>1, <1>2, SplayKept
  <2> QED BY <1>1, <1>2, <2>1, <2>2 DEF SplayInv
<1>4. CASE \E s \in Sides : sp' = SPLAY_MINMAX(sp, s)
  <2>1. PICK s \in Sides : sp' = SPLAY_MINMAX(sp, s)
    BY <1>4
  <2>2. IsKept(SPLAY_MINMAX(sp, s), spIn)
    BY <1>1, <1>2, MinMaxKept
  <2> QED BY <1>1, <1>2, <2>1, <2>2 DEF SplayInv
<1> QED BY <1>2, <1>3, <1>4

LEMMA SplayInvNext == SplayInv /\ [TreesNext]_treeVars => SplayInv'
<1> SUFFICES ASSUME SplayInv, [TreesNext]_treeVars PROVE SplayInv'
  OBVIOUS
<1>1. CASE UNCHANGED spVars
  BY <1>1 DEF SplayInv, IsKept, spVars
<1>2. CASE RBNext \/ UNCHANGED treeVars
  <2>1. UNCHANGED spVars
    BY <1>2 DEF RBNext, RB_INSERT, InsertTurns, InsertPaints, InsertEnds, RB_REMOVE, RemoveRound,
                RemoveEnds, WalkStarts, WalkRemoves, WalkMoves, treeVars, spVars
  <2> QED BY <1>1, <2>1
<1>3. CASE SPLAY_INSERT
  BY <1>3, SplayInvInsert
<1>4. CASE SPLAY_REMOVE
  BY <1>4, SplayInvRemove
<1>5. CASE SplayLookup
  BY <1>5, SplayInvLookup
<1> QED BY <1>2, <1>3, <1>4, <1>5 DEF TreesNext, SplayNext

-----------------------------------------------------------------------------
(* What the invariant says of the lookups.                                 *)
LEMMA KeptOrdered ==
  ASSUME NEW t, NEW M, IsKept(t, M) PROVE Ordered(t, M)
<1>1. PICK U : SplayTree(t, M, U)
  BY DEF IsKept, Kept
<1>2. Forest(t, M, U) /\ Linked(t) /\ t.root \in M \cup {NULL} /\ U[t.root] = M
  BY <1>1, STreeType DEF SplayTree
<1>3. Under(t, t.root) = M
  BY <1>2, ForestUnder
<1>4. ASSUME NEW n \in M, NEW s \in Sides PROVE \A m \in Under(t, t.kid[s][n]) : On(s, m, n)
  <2>1. t.kid[s][n] \in M \cup {NULL} /\ \A m \in U[t.kid[s][n]] : On(s, m, n)
    BY <1>2, ForestSides
  <2>2. Under(t, t.kid[s][n]) = U[t.kid[s][n]]
    BY <1>2, <2>1, ForestUnder
  <2> QED BY <2>1, <2>2
<1>5. "left" \in Sides /\ "right" \in Sides
  BY DEF Sides
<1> QED BY <1>3, <1>4, <1>5 DEF Ordered, On

LEMMA FindsKey ==
  ASSUME NEW t, NEW M, IsKept(t, M), t.root # NULL, NEW e \in Nodes
  PROVE  SPLAY_FIND(t, e).found = Least({n \in M : NodeKey[n] = NodeKey[e]})
<1> DEFINE r == SPLAY(t, e)
           S == {n \in M : NodeKey[n] = NodeKey[e]}
<1>1. /\ r.root \in M
      /\ NodeKey[r.root] # NodeKey[e] => \A m \in M : NodeKey[m] # NodeKey[e]
  BY SplayKept
<1>2. SPLAY_FIND(t, e).found = IF NodeKey[e] = NodeKey[r.root] THEN r.root ELSE NULL
  BY DEF SPLAY_FIND
<1>3. Distinct(M) /\ \A m \in M : NodeKey[m] \in Int
  BY KeptIs
<1> HIDE DEF r
<1>4. CASE NodeKey[r.root] = NodeKey[e]
  <2>1. r.root \in S /\ S \in SUBSET M /\ \A m \in S : NodeKey[r.root] <= NodeKey[m]
    BY <1>1, <1>3, <1>4
  <2> HIDE DEF S
  <2>2. Least(S) = r.root
    BY <1>3, <2>1, LeastIs
  <2> QED BY <1>2, <1>4, <2>2 DEF S
<1>5. CASE NodeKey[r.root] # NodeKey[e]
  <2>1. S = {}
    BY <1>1, <1>5
  <2> QED BY <1>2, <1>5, <2>1 DEF Least
<1> QED BY <1>4, <1>5

LEMMA NextIs ==
  ASSUME NEW t, NEW M, IsKept(t, M), t.root # NULL, NEW e \in M
  PROVE  SPLAY_NEXT(t, e).next = Beyond(M, e, "right")
<1> DEFINE r == SPLAY(t, e)
           q == r.kid["right"][e]
<1>1. Distinct(M) /\ e \in Nodes /\ M \in SUBSET Nodes /\ \A m \in M : NodeKey[m] \in Int
  BY KeptIs
<1>2. /\ IsKept(r, M) /\ r.root \in M
      /\ NodeKey[r.root] # NodeKey[e] => \A m \in M : NodeKey[m] # NodeKey[e]
  BY <1>1, SplayKept
<1>3. SPLAY_NEXT(t, e).next = IF q = NULL THEN NULL ELSE Furthest(r, q, "left")
  BY DEF SPLAY_NEXT
<1> HIDE DEF r
<1>4. r.root = e
  BY <1>1, <1>2 DEF Distinct
<1>5. PICK V : SplayTree(r, M, V)
  BY <1>2 DEF IsKept, Kept
<1>6. Forest(r, M, V) /\ Linked(r) /\ V[NULL] = {}
  BY <1>5, STreeType, ForestType DEF SplayTree
<1>7. "left" \in Sides /\ "right" \in Sides /\ Other("left") = "right" /\ Other("right") = "left"
  BY DEF Sides, Other
<1>8. /\ q \in M \cup {NULL} /\ M \ {e} = V[r.kid["left"][e]] \cup V[q]
      /\ \A m \in V[r.kid["left"][e]] : m \in M /\ On("left", m, e)
      /\ \A m \in V[q] : m \in M /\ On("right", m, e)
  BY <1>4, <1>5, RootParts
<1>9. \A m \in M : On("right", m, e) => m \in V[q]
  <2> TAKE m \in M
  <2>1. m = e \/ On("left", m, e) => ~ On("right", m, e)
    BY <1>1 DEF On
  <2> QED BY <1>8, <2>1
<1> HIDE DEF q
<1>10. CASE q = NULL
  <2>1. \A m \in M : ~ On("right", m, e)
    BY <1>6, <1>9, <1>10
  <2>2. {m \in M : NodeKey[m] > NodeKey[e]} = {}
    BY <2>1 DEF On
  <2> QED BY <1>3, <1>10, <2>2 DEF Beyond, Least
<1>11. CASE q # NULL
  <2> DEFINE f == Furthest(r, q, "left")
  <2>1. f \in V[q] /\ f \in M /\ \A m \in V[q] : m = f \/ On("right", m, f)
    BY <1>6, <1>7, <1>8, <1>11, ForestFurthest
  <2> HIDE DEF f
  <2>2. On("right", f, e) /\ \A m \in M : On("right", m, e) => m = f \/ On("right", m, f)
    BY <1>8, <1>9, <2>1
  <2>3. Beyond(M, e, "right") = f
    BY <1>1, <1>7, <2>1, <2>2, BeyondIs
  <2> QED BY <1>3, <1>11, <2>3 DEF f
<1> QED BY <1>10, <1>11

LEMMA MinMaxIs ==
  ASSUME NEW t, NEW M, IsKept(t, M), t.root # NULL
  PROVE  /\ SPLAY_MINMAX(t, "left").root = Least(M)
         /\ SPLAY_MINMAX(t, "right").root = Greatest(M)
<1>1. Distinct(M) /\ M \in SUBSET M /\ \A m \in M : NodeKey[m] \in Int
  BY KeptIs
<1>2. SPLAY_MINMAX(t, "left").root = Least(M)
  <2> DEFINE f == SPLAY_MINMAX(t, "left").root
  <2>1. "left" \in Sides
    BY DEF Sides
  <2>2. f \in M /\ \A m \in M : ~ On("left", m, f)
    BY <2>1, MinMaxKept
  <2> HIDE DEF f
  <2>3. \A m \in M : NodeKey[f] <= NodeKey[m]
    BY <1>1, <2>2 DEF On
  <2> QED BY <1>1, <2>2, <2>3, LeastIs DEF f
<1>3. SPLAY_MINMAX(t, "right").root = Greatest(M)
  <2> DEFINE f == SPLAY_MINMAX(t, "right").root
  <2>1. "right" \in Sides
    BY DEF Sides
  <2>2. f \in M /\ \A m \in M : ~ On("right", m, f)
    BY <2>1, MinMaxKept
  <2> HIDE DEF f
  <2>3. \A m \in M : NodeKey[m] <= NodeKey[f]
    BY <1>1, <2>2 DEF On
  <2> QED BY <1>1, <2>2, <2>3, LeastIs DEF f
<1> QED BY <1>2, <1>3

LEMMA SplayInvSound == SplayInv => SplaySound
<1> SUFFICES ASSUME SplayInv PROVE SplaySound
  OBVIOUS
<1>1. IsKept(sp, spIn) /\ spIn \subseteq SplayNodes /\ SplayNodes \subseteq Nodes
  BY NodesAssumption DEF SplayInv
<1>2. Ordered(sp, spIn)
  BY <1>1, KeptOrdered
<1>3. ASSUME sp.root # NULL, NEW e \in SplayNodes
      PROVE  /\ SPLAY_FIND(sp, e).found = Least({n \in spIn : NodeKey[n] = NodeKey[e]})
             /\ NoneBetween(spIn, e, SPLAY_FIND(sp, e).t.root)
  <2>1. e \in Nodes
    BY <1>1
  <2>2. SPLAY_FIND(sp, e).t = SPLAY(sp, e)
    BY DEF SPLAY_FIND
  <2>3. NoneBetween(spIn, e, SPLAY(sp, e).root)
    BY <1>1, <1>3, <2>1, SplayKept
  <2> QED BY <1>1, <1>3, <2>1, <2>2, <2>3, FindsKey
<1>4. ASSUME sp.root # NULL, NEW e \in spIn PROVE SPLAY_NEXT(sp, e).next = Beyond(spIn, e, "right")
  BY <1>1, <1>4, NextIs
<1>5. ASSUME sp.root # NULL
      PROVE  /\ SPLAY_MINMAX(sp, "left").root = Least(spIn)
             /\ SPLAY_MINMAX(sp, "right").root = Greatest(spIn)
  BY <1>1, <1>5, MinMaxIs
<1> HIDE DEF NoneBetween
<1>6. ASSUME sp.root # NULL, NEW e \in SplayNodes
      PROVE  LET f == SPLAY_FIND(sp, e)
             IN  {n \in spIn : \/ NodeKey[e] < NodeKey[n] /\ NodeKey[n] < NodeKey[f.t.root]
                               \/ NodeKey[f.t.root] < NodeKey[n] /\ NodeKey[n] < NodeKey[e]} = {}
  <2> DEFINE x == SPLAY_FIND(sp, e).t.root
  <2>1. NoneBetween(spIn, e, x)
    BY <1>3, <1>6
  <2> HIDE DEF x
  <2>2. {n \in spIn : \/ NodeKey[e] < NodeKey[n] /\ NodeKey[n] < NodeKey[x]
                      \/ NodeKey[x] < NodeKey[n] /\ NodeKey[n] < NodeKey[e]} = {}
    BY <2>1 DEF NoneBetween
  <2> QED BY <2>2 DEF x
<1> QED BY <1>2, <1>3, <1>4, <1>5, <1>6 DEF SplaySound

(* The splay tree is a search tree of the nodes in it however it is turned *)
(* around; a lookup finds the key if it is there and brings it to the root *)
(* or a neighbour of it, SPLAY_NEXT gives the next node and SPLAY_MIN and  *)
(* SPLAY_MAX the ends, for any nodes and keys.                             *)
THEOREM SplayIsSound == TreesSpec => []SplaySound
<1>1. TreesInit => SplayInv
  BY SplayInvInit
<1>2. SplayInv /\ [TreesNext]_treeVars => SplayInv'
  BY SplayInvNext
<1>3. SplayInv => SplaySound
  BY SplayInvSound
<1> QED BY <1>1, <1>2, <1>3, PTL DEF TreesSpec

=============================================================================
