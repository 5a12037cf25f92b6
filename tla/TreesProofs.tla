----------------------------- MODULE TreesProofs ------------------------------
(***************************************************************************)
(* Theorems about the red-black tree of Trees, for any nodes and any keys: *)
(* whatever is inserted, removed and walked, the links, the order and the  *)
(* balance of the tree are right after every call, each lookup gives the   *)
(* node the set of nodes in the tree says, and a walk goes on while the    *)
(* nodes it is at are removed.                                             *)
(*                                                                         *)
(* RBInv says what holds within a call too: the Shape of the links; the    *)
(* Level of the nodes, their black heights, with a black node missing at   *)
(* one place while RB_REMOVE_COLOR runs; and where a node may be Bad, that *)
(* is red below a red one or at the root.                                  *)
(***************************************************************************)
EXTENDS TreesShapeProofs

(* What a black node adds to the height of its place.                      *)
Black(t, n) == IF t.color[n] = "RED" THEN 0 ELSE 1

(* H[n] are the black nodes on every way down from n; on the way from p to *)
(* its kid x one is missing, unless p is NULL.                             *)
Level(t, M, H, x, p) ==
  /\ H \in [Links -> Nat] /\ H[NULL] = 0
  /\ p # NULL => p \in M /\ \E z \in Sides : t.kid[z][p] = x /\ t.kid[Other(z)][p] # x
  /\ \A n \in M, z \in Sides :
       H[n] = H[t.kid[z][n]] + (Black(t, n) + (IF n = p /\ t.kid[z][n] = x THEN 1 ELSE 0))

(* A red node that must not be red where it is.                            *)
Bad(t, n) == Red(t, n) /\ (n = t.root \/ Red(t, t.parent[n]))

LEMMA BlackRedIs ==
  ASSUME NEW t \in RBTrees, NEW a \in Nodes, NEW b \in Nodes
  PROVE  LET r == RB_SET_BLACKRED(t, a, b)
         IN  /\ r \in RBTrees /\ r.kid = t.kid /\ r.parent = t.parent /\ r.root = t.root
             /\ \A n \in Nodes : r.color[n] = IF n = b THEN "RED" ELSE IF n = a THEN "BLACK" ELSE t.color[n]
<1>1. "RED" \in Colors /\ "BLACK" \in Colors
  BY DEF Colors
<1> DEFINE t1 == Paint(t, a, "BLACK")
           t2 == Paint(t1, b, "RED")
<1>2. RB_SET_BLACKRED(t, a, b) = t2
  BY DEF RB_SET_BLACKRED
<1>3. /\ t1 \in RBTrees /\ t1.kid = t.kid /\ t1.parent = t.parent /\ t1.root = t.root
      /\ \A n \in Nodes : t1.color[n] = IF n = a THEN "BLACK" ELSE t.color[n]
  BY <1>1, PaintIs
<1> HIDE DEF t1
<1>4. /\ t2 \in RBTrees /\ t2.kid = t1.kid /\ t2.parent = t1.parent /\ t2.root = t1.root
      /\ \A n \in Nodes : t2.color[n] = IF n = b THEN "RED" ELSE t1.color[n]
  BY <1>1, <1>3, PaintIs
<1> HIDE DEF t2
<1> QED BY <1>2, <1>3, <1>4

LEMMA BlackRedShape ==
  ASSUME NEW t, NEW M, NEW U, Shape(t, M, U), NEW a \in Nodes, NEW b \in Nodes
  PROVE  Shape(RB_SET_BLACKRED(t, a, b), M, U)
<1>1. t \in RBTrees
  BY DEF Shape
<1> DEFINE r == RB_SET_BLACKRED(t, a, b)
<1>2. r \in RBTrees /\ r.kid = t.kid /\ r.parent = t.parent /\ r.root = t.root
  BY <1>1, BlackRedIs
<1> HIDE DEF r
<1>3. Shape(r, M, U)
  BY <1>2, SameShape
<1> QED BY <1>3 DEF r

(* The links of a rotated tree.                                            *)
RotatedAs(t, M, e, s) ==
  LET r == RB_ROTATE(t, e, s)
        tmp == t.kid[Other(s)][e]
        inner == t.kid[s][tmp]
        outer == t.kid[Other(s)][tmp]
    IN  /\ r.kid[s][e] = t.kid[s][e] /\ r.kid[Other(s)][e] = inner
        /\ r.kid[s][tmp] = e /\ r.kid[Other(s)][tmp] = outer
        /\ \A n \in M \ {e, tmp}, z \in Sides :
             /\ r.kid[z][n] = IF t.kid[z][n] = e THEN tmp ELSE t.kid[z][n]
             /\ t.kid[z][n] # tmp
             /\ t.kid[z][n] # NULL => t.kid[z][n] # inner /\ t.kid[z][n] # outer

LEMMA RotatedLinks ==
  ASSUME NEW t, NEW M, NEW U, Shape(t, M, U), NEW e \in M, NEW s \in Sides,
         t.kid[Other(s)][e] # NULL
  PROVE  RotatedAs(t, M, e, s)
<1> DEFINE r == RB_ROTATE(t, e, s)
           o == Other(s)
           tmp == t.kid[o][e]
           inner == t.kid[s][tmp]
           outer == t.kid[o][tmp]
           near == t.kid[s][e]
           p == t.parent[e]
<1>1. \A z \in Sides, a \in Nodes :
        r.kid[z][a] = IF a = e /\ z = o THEN inner
                      ELSE IF a = tmp /\ z = s THEN e
                      ELSE IF a = p /\ t.kid[z][a] = e THEN tmp ELSE t.kid[z][a]
  BY RotateIs
<1>2. /\ tmp \in M /\ {inner, outer, near} \subseteq M \cup {NULL}
      /\ t.parent[tmp] = e
      /\ tmp # e /\ p # e /\ p # tmp
  <2>1. AroundIs(t, M, U, e, s)
    BY Around
  <2> QED BY <2>1 DEF AroundIs
<1>3. o \in Sides /\ o # s /\ M \subseteq Nodes
  BY OtherSide DEF Shape
<1>4. \A n \in M, z \in Sides : t.kid[z][n] # NULL => t.parent[t.kid[z][n]] = n
  BY DEF Shape
<1>5. e # NULL /\ tmp # NULL /\ e \in M
  BY <1>2, ShapeSelf
<1> HIDE DEF r, o
<1>6. r.kid[s][e] = near /\ r.kid[o][e] = inner /\ r.kid[s][tmp] = e /\ r.kid[o][tmp] = outer
  BY <1>1, <1>2, <1>3, <1>5
<1>7. ASSUME NEW n \in M \ {e, tmp}, NEW z \in Sides
      PROVE  /\ r.kid[z][n] = IF t.kid[z][n] = e THEN tmp ELSE t.kid[z][n]
             /\ t.kid[z][n] # tmp
             /\ t.kid[z][n] # NULL => t.kid[z][n] # inner /\ t.kid[z][n] # outer
  <2>1. t.kid[z][n] = e => n = p
    BY <1>4, <1>5
  <2>2. t.kid[z][n] # tmp
    BY <1>2, <1>4, <1>5
  <2>3. t.kid[z][n] # NULL => t.kid[z][n] # inner /\ t.kid[z][n] # outer
    BY <1>2, <1>3, <1>4
  <2> QED BY <1>1, <1>3, <2>1, <2>2, <2>3
<1> QED BY <1>6, <1>7 DEF RotatedAs, r, o

(* The heights G are H but at the ends of the link that turns and below,   *)
(* and the new top has the height of the old one.                          *)
Carried(t, M, e, s, H, G) ==
  LET tmp == t.kid[Other(s)][e]
  IN  /\ G[NULL] = H[NULL] /\ G[tmp] = H[e]
      /\ \A n \in M \ {e, tmp, t.kid[Other(s)][tmp]} : G[n] = H[n]

(* Heights above the rotation are then as before.                          *)
LEMMA RotatedHeights ==
  ASSUME NEW t, NEW M, NEW U, Shape(t, M, U), NEW e \in M, NEW s \in Sides,
         t.kid[Other(s)][e] # NULL, NEW H, NEW G, Carried(t, M, e, s, H, G)
  PROVE  \A n \in M \ {e, t.kid[Other(s)][e]}, z \in Sides :
           G[RB_ROTATE(t, e, s).kid[z][n]] = H[t.kid[z][n]]
<1> DEFINE r == RB_ROTATE(t, e, s)
           tmp == t.kid[Other(s)][e]
           outer == t.kid[Other(s)][tmp]
<1>1. \A n \in M \ {e, tmp}, z \in Sides :
        /\ r.kid[z][n] = IF t.kid[z][n] = e THEN tmp ELSE t.kid[z][n]
        /\ t.kid[z][n] # tmp
        /\ t.kid[z][n] # NULL => t.kid[z][n] # outer
  <2>1. RotatedAs(t, M, e, s)
    BY RotatedLinks
  <2> QED BY <2>1 DEF RotatedAs
<1>2. \A n \in M, z \in Sides : t.kid[z][n] \in M \cup {NULL}
  BY DEF Shape
<1>a. G[NULL] = H[NULL] /\ G[tmp] = H[e] /\ \A n \in M \ {e, tmp, outer} : G[n] = H[n]
  BY DEF Carried
<1> HIDE DEF r, tmp, outer
<1>3. \A n \in M \ {e, tmp}, z \in Sides : G[r.kid[z][n]] = H[t.kid[z][n]]
  <2> TAKE n \in M \ {e, tmp}, z \in Sides
  <2>1. CASE t.kid[z][n] = e
    BY <1>1, <1>a, <2>1
  <2>2. CASE t.kid[z][n] = NULL
    BY <1>1, <1>a, <2>2, <2>1
  <2>3. CASE t.kid[z][n] # e /\ t.kid[z][n] # NULL
    <3>1. t.kid[z][n] \in M \ {e, tmp, outer} /\ r.kid[z][n] = t.kid[z][n]
      BY <1>1, <1>2, <2>3
    <3> QED BY <1>a, <3>1
  <2> QED BY <2>1, <2>2, <2>3
<1> QED BY <1>3 DEF r, tmp

(* The red nodes that must not be after a rotation.                        *)
LEMMA RotatedBad ==
  ASSUME NEW t, NEW M, NEW U, Shape(t, M, U), NEW e \in M, NEW s \in Sides,
         t.kid[Other(s)][e] # NULL, NEW n \in M, Bad(RB_ROTATE(t, e, s), n)
  PROVE  LET tmp == t.kid[Other(s)][e]
             inner == t.kid[s][tmp]
             outer == t.kid[Other(s)][tmp]
             near == t.kid[s][e]
         IN  /\ Red(t, n)
             /\ \/ n = e /\ Red(t, tmp)
                \/ n = tmp /\ (e = t.root \/ Red(t, t.parent[e]))
                \/ n \in {near, inner} /\ Red(t, e)
                \/ n = outer /\ Red(t, tmp)
                \/ n \notin {e, tmp, near, inner, outer} /\ t.parent[n] \notin {e, tmp} /\ Bad(t, n)
<1> DEFINE r == RB_ROTATE(t, e, s)
           o == Other(s)
           tmp == t.kid[o][e]
           inner == t.kid[s][tmp]
           outer == t.kid[o][tmp]
           near == t.kid[s][e]
           p == t.parent[e]
<1>1. /\ r \in RBTrees /\ r.color = t.color
      /\ r.root = IF e = t.root THEN tmp ELSE t.root
      /\ \A a \in Nodes : r.parent[a] = IF a = e THEN tmp ELSE IF a = tmp THEN p
                                        ELSE IF a = inner THEN e ELSE t.parent[a]
  BY RotateIs
<1>2. /\ tmp \in M /\ {inner, outer, near} \subseteq M \cup {NULL}
      /\ t.parent[tmp] = e /\ tmp # e
      /\ {e, tmp} \cap {inner, outer, near} = {}
      /\ inner # NULL => inner # outer /\ inner # near
      /\ outer # NULL => outer # near
  <2>1. AroundIs(t, M, U, e, s)
    BY Around
  <2> QED BY <2>1 DEF AroundIs
<1>3. /\ o \in Sides /\ M \subseteq Nodes /\ NULL \notin M /\ n # NULL /\ e # NULL
      /\ t.root # NULL => t.parent[t.root] = NULL
      /\ \A a \in M, z \in Sides : t.kid[z][a] # NULL => t.parent[t.kid[z][a]] = a
  <2>1. o \in Sides
    BY OtherSide
  <2>2. NULL \notin M /\ M \subseteq Nodes
    BY ShapeSelf DEF Shape
  <2>3. /\ t.root # NULL => t.parent[t.root] = NULL
        /\ \A a \in M, z \in Sides : t.kid[z][a] # NULL => t.parent[t.kid[z][a]] = a
    BY DEF Shape
  <2> QED BY <2>1, <2>2, <2>3
<1>4. /\ near # NULL => t.parent[near] = e
      /\ inner # NULL => t.parent[inner] = tmp
      /\ outer # NULL => t.parent[outer] = tmp
  BY <1>2, <1>3
<1>5. t.parent[n] = e => n = near \/ n = tmp
  <2> HAVE t.parent[n] = e
  <2>1. \E z \in Sides : t.kid[z][e] = n
    BY <1>3, PointsOnce
  <2> QED BY <2>1, OtherSide
<1>6. t.parent[n] = tmp => n = inner \/ n = outer
  <2> HAVE t.parent[n] = tmp
  <2>1. \E z \in Sides : t.kid[z][tmp] = n
    BY <1>2, <1>3, PointsOnce
  <2> QED BY <2>1, OtherSide
<1>7. Red(t, n) /\ (n = r.root \/ Red(t, r.parent[n]))
  BY <1>1 DEF Bad, Red
<1> HIDE DEF r, o, tmp, inner, outer, near, p
<1>8. n = r.root => (n = tmp /\ e = t.root) \/ (n = t.root /\ n # e)
  BY <1>1
<1>9. n = t.root => t.parent[n] = NULL
  BY <1>3
<1>10. CASE n = e
  BY <1>1, <1>2, <1>3, <1>7, <1>8, <1>10 DEF o, tmp
<1>11. CASE n = tmp
  <2>1. e = t.root \/ Red(t, p)
    <3>1. r.parent[n] = p
      BY <1>1, <1>2, <1>3, <1>11
    <3>2. n # t.root
      BY <1>2, <1>3, <1>9, <1>11
    <3> QED BY <1>7, <1>8, <3>1, <3>2
  <2> QED BY <1>7, <1>11, <2>1 DEF o, tmp, p
<1>12. CASE n \in {near, inner}
  <2>1. r.parent[n] = e
    BY <1>1, <1>2, <1>3, <1>4, <1>12
  <2>2. n # r.root
    <3>1. r.root = tmp \/ r.root = t.root
      BY <1>1
    <3>2. n # tmp
      BY <1>2, <1>3, <1>12
    <3> HIDE DEF tmp, inner, outer, near, p, o
    <3> QED BY <1>2, <1>3, <1>4, <1>9, <1>12, <3>1, <3>2
  <2> QED BY <1>7, <1>12, <2>1, <2>2 DEF o, tmp, inner, near
<1>13. CASE n = outer
  <2>1. r.parent[n] = tmp
    BY <1>1, <1>2, <1>3, <1>4, <1>13
  <2>2. n # r.root
    BY <1>1, <1>2, <1>3, <1>4, <1>9, <1>13
  <2> QED BY <1>7, <1>13, <2>1, <2>2 DEF o, tmp, outer
<1>14. CASE n \notin {e, tmp, near, inner, outer}
  <2>1. r.parent[n] = t.parent[n] /\ t.parent[n] \notin {e, tmp}
    BY <1>1, <1>3, <1>5, <1>6, <1>14
  <2>2. n = r.root => n = t.root
    BY <1>8, <1>14
  <2> QED BY <1>7, <1>14, <2>1, <2>2 DEF o, tmp, inner, outer, near, Bad
<1> QED BY <1>10, <1>11, <1>12, <1>13, <1>14

(* A tree with one red node that may have to go up.                        *)
Rising(t, M, U, H, x) ==
  /\ Shape(t, M, U) /\ Level(t, M, H, x, NULL)
  /\ x \in M /\ Red(t, x) /\ \A n \in M : Bad(t, n) => n = x

(* The red node, its red parent and its grandparent in a line.             *)
InLine(t, M, U, H, x, g, s) ==
  /\ Rising(t, M, U, H, x) /\ g \in M /\ s \in Sides
  /\ t.kid[s][g] # NULL /\ Red(t, t.kid[s][g]) /\ ~ Red(t, t.kid[Other(s)][g]) /\ ~ Red(t, g)
  /\ t.kid[s][t.kid[s][g]] = x

LEMMA ShapeNodes ==
  ASSUME NEW t, NEW M, NEW U, Shape(t, M, U)
  PROVE  /\ t \in RBTrees /\ t.root \in M \cup {NULL} /\ U[t.root] = M
         /\ M \in SUBSET Nodes /\ M \subseteq Nodes /\ M \subseteq Links
         /\ NULL \notin M /\ NULL \in Links
<1>1. /\ t \in RBTrees /\ M \subseteq Nodes /\ NULL \notin M
      /\ t.root \in M \cup {NULL} /\ U[t.root] = M
  BY ShapeSelf DEF Shape
<1> QED BY <1>1 DEF Links

LEMMA LevelType ==
  ASSUME NEW t, NEW M, NEW H, NEW x, NEW p, Level(t, M, H, x, p)
  PROVE  H \in [Links -> Nat] /\ H[NULL] = 0 /\ (p # NULL => p \in M)
BY DEF Level

(* What Level says when nothing is missing.                                *)
LEMMA LevelIs ==
  ASSUME NEW t, NEW M, NEW U, Shape(t, M, U), NEW H, NEW x, Level(t, M, H, x, NULL),
         NEW n \in M, NEW z \in Sides
  PROVE  /\ H[n] \in Nat /\ H[t.kid[z][n]] \in Nat
         /\ Red(t, n) => H[n] = H[t.kid[z][n]]
         /\ ~ Red(t, n) => H[n] = H[t.kid[z][n]] + 1
<1>1. NULL \notin M /\ M \subseteq Links /\ NULL \in Links
  BY ShapeSelf DEF Links, Shape
<1>2. t.kid[z][n] \in M \cup {NULL}
  BY DEF Shape
<1>3. H \in [Links -> Nat]
  BY DEF Level
<1>4. H[n] \in Nat /\ H[t.kid[z][n]] \in Nat
  BY <1>1, <1>2, <1>3
<1>5. H[n] = H[t.kid[z][n]] + (Black(t, n) + 0)
  BY <1>1 DEF Level
<1> QED BY <1>1, <1>4, <1>5 DEF Black, Red

(* What makes a Level.                                                     *)
LEMMA LevelFrom ==
  ASSUME NEW t, NEW M, NEW U, Shape(t, M, U), NEW H \in [Links -> Nat], H[NULL] = 0, NEW x,
         \A n \in M, z \in Sides : H[n] = H[t.kid[z][n]] + (IF Red(t, n) THEN 0 ELSE 1)
  PROVE  Level(t, M, H, x, NULL)
<1>1. NULL \notin M /\ M \subseteq Links /\ NULL \in Links
  BY ShapeSelf DEF Links, Shape
<1>2. \A n \in M, z \in Sides : H[t.kid[z][n]] \in Nat
  BY <1>1 DEF Shape
<1>3. \A n \in M, z \in Sides :
        H[n] = H[t.kid[z][n]] + (Black(t, n) + (IF n = NULL /\ t.kid[z][n] = x THEN 1 ELSE 0))
  BY <1>1, <1>2 DEF Black, Red
<1> QED BY <1>1, <1>3 DEF Level

(* The last turn of RB_INSERT_COLOR leaves no red node below a red one.    *)
LEMMA LineTurns ==
  ASSUME NEW t, NEW M, NEW U, NEW H, NEW x, NEW g, NEW s, InLine(t, M, U, H, x, g, s)
  PROVE  LET r == RB_ROTATE(RB_SET_BLACKRED(t, t.kid[s][g], g), g, Other(s))
         IN  /\ \E V : Shape(r, M, V)
             /\ \E G : Level(r, M, G, x, NULL)
             /\ Red(r, x) /\ \A n \in M : ~ Bad(r, n)
<1> DEFINE p == t.kid[s][g]
           o == Other(s)
           inner == t.kid[o][p]
           near == t.kid[o][g]
           t2 == RB_SET_BLACKRED(t, p, g)
           r == RB_ROTATE(t2, g, o)
<1>1. /\ Shape(t, M, U) /\ Level(t, M, H, x, NULL) /\ t \in RBTrees
      /\ x \in M /\ Red(t, x) /\ \A n \in M : Bad(t, n) => n = x
      /\ g \in M /\ s \in Sides /\ p \in M /\ Red(t, p) /\ ~ Red(t, near) /\ ~ Red(t, g)
      /\ t.kid[s][p] = x /\ p # NULL
  BY DEF InLine, Rising, Shape
<1>2. o \in Sides /\ Other(o) = s /\ o # s
  BY <1>1, OtherSide
<1>3. g \in Nodes /\ p \in Nodes /\ M \subseteq Nodes /\ NULL \notin M /\ M \subseteq Links
  <2>1. M \subseteq Nodes /\ NULL \notin M
    BY <1>1, ShapeSelf DEF Shape
  <2> QED BY <1>1, <2>1 DEF Links
<1> HIDE DEF o, p
<1>4. /\ t2 \in RBTrees /\ t2.kid = t.kid /\ t2.parent = t.parent /\ t2.root = t.root
      /\ \A n \in Nodes : t2.color[n] = IF n = g THEN "RED" ELSE IF n = p THEN "BLACK" ELSE t.color[n]
  BY <1>1, <1>3, BlackRedIs
<1>5. Shape(t2, M, U)
  BY <1>1, <1>3, BlackRedShape
<1> HIDE DEF t2
<1>6. t2.kid[Other(o)][g] = p /\ t2.kid[Other(o)][g] # NULL
  BY <1>1, <1>2, <1>4 DEF p
<1>7. /\ {inner, x, near} \subseteq M \cup {NULL} /\ p # g
      /\ {g, p} \cap {inner, x, near} = {}
      /\ inner # NULL => inner # x /\ inner # near
      /\ x # NULL => x # near
  <2>1. AroundIs(t2, M, U, g, o)
    BY <1>1, <1>2, <1>4, <1>5, <1>6, Around
  <2> QED BY <1>1, <1>2, <1>4, <1>5, <1>6, <2>1 DEF AroundIs
<1>8. \E V : Shape(r, M, V)
  <2> DEFINE V == Turned(t2, U, g, o)
  <2>1. Shape(r, M, V)
    BY <1>1, <1>2, <1>5, <1>6, RotateShape
  <2> HIDE DEF V
  <2> QED BY <2>1
<1>9. /\ r.kid[o][g] = near /\ r.kid[s][g] = inner
      /\ r.kid[o][p] = g /\ r.kid[s][p] = x
  <2>1. RotatedAs(t2, M, g, o)
    BY <1>1, <1>2, <1>5, <1>6, RotatedLinks
  <2> QED BY <1>1, <1>2, <1>4, <1>6, <2>1 DEF RotatedAs
<1>10. r.color = t2.color
  BY <1>1, <1>2, <1>5, <1>6, RotateIs
<1>11. ASSUME NEW n \in M, Bad(r, n) PROVE FALSE
  <2>1. /\ Red(t2, n)
        /\ \/ n = g /\ Red(t2, p)
           \/ n = p
           \/ n \in {near, inner} /\ Red(t2, g)
           \/ n = x /\ Red(t2, p)
           \/ n \notin {g, p, near, inner, x} /\ t2.parent[n] \notin {g, p} /\ Bad(t2, n)
    <3> HIDE DEF inner, near
    <3> QED BY <1>1, <1>2, <1>4, <1>5, <1>6, <1>11, RotatedBad DEF inner, near
  <2>2. ~ Red(t2, p)
    BY <1>3, <1>4, <1>7 DEF Red
  <2>3. \A m \in M \ {g, p} : Red(t2, m) <=> Red(t, m)
    BY <1>3, <1>4 DEF Red
  <2>4. n # near
    BY <1>1, <1>7, <2>1, <2>3
  <2>5. n # inner
    <3> SUFFICES ASSUME n = inner PROVE FALSE
      OBVIOUS
    <3>1. Red(t, inner) /\ inner \in M /\ inner # x /\ t.parent[inner] = p
      BY <1>1, <1>2, <1>3, <1>7, <2>1, <2>3 DEF Shape
    <3> QED BY <1>1, <3>1 DEF Bad
  <2>6. n \notin {g, p, x} /\ t2.parent[n] \notin {g, p} /\ Bad(t2, n)
    BY <2>1, <2>2, <2>4, <2>5
  <2>7. Bad(t, n)
    <3>1. Red(t, n) /\ (n = t.root \/ Red(t2, t.parent[n]))
      BY <1>4, <2>3, <2>6 DEF Bad
    <3>2. n # t.root => t.parent[n] \in M
      BY <1>1, ShapeParent
    <3> QED BY <1>4, <2>3, <2>6, <3>1, <3>2 DEF Bad
  <2> QED BY <1>1, <2>6, <2>7
<1>12. Red(r, x)
  BY <1>1, <1>3, <1>4, <1>7, <1>10 DEF Red
<1>13. \E G : Level(r, M, G, x, NULL)
  <2> DEFINE G == [n \in Links |-> IF n = p THEN H[g] ELSE IF n = g THEN H[p] ELSE H[n]]
  <2>1. H \in [Links -> Nat] /\ H[NULL] = 0
    BY <1>1 DEF Level
  <2>2. /\ G \in [Links -> Nat] /\ G[p] = H[g] /\ G[g] = H[p]
        /\ \A n \in M : n # p /\ n # g => G[n] = H[n]
        /\ G[NULL] = H[NULL]
    <3>1. \A n \in Links : H[n] \in Nat
      BY <2>1
    <3>2. NULL \in Links /\ p \in Links /\ g \in Links
      BY <1>3 DEF Links
    <3> QED BY <1>1, <1>3, <1>7, <3>1, <3>2
  <2> HIDE DEF G
  <2>3. \A n \in M \ {g, p}, z \in Sides : G[r.kid[z][n]] = H[t2.kid[z][n]]
    <3>1. Carried(t2, M, g, o, H, G)
      BY <1>6, <2>2 DEF Carried
    <3>3. \A n \in M \ {g, t2.kid[Other(o)][g]}, z \in Sides :
            G[RB_ROTATE(t2, g, o).kid[z][n]] = H[t2.kid[z][n]]
      BY <1>1, <1>2, <1>5, <1>6, <3>1, RotatedHeights
    <3> QED BY <1>6, <3>3
  <2>4. \A n \in M, z \in Sides :
          /\ H[n] \in Nat /\ H[t.kid[z][n]] \in Nat
          /\ Red(t, n) => H[n] = H[t.kid[z][n]]
          /\ ~ Red(t, n) => H[n] = H[t.kid[z][n]] + 1
    BY <1>1, LevelIs
  <2>5. Red(r, g) /\ ~ Red(r, p) /\ \A n \in M \ {g, p} : Red(r, n) <=> Red(t, n)
    BY <1>3, <1>4, <1>7, <1>10, <1>1 DEF Red
  <2>6. ASSUME NEW n \in M, NEW z \in Sides
        PROVE  G[n] = G[r.kid[z][n]] + (IF Red(r, n) THEN 0 ELSE 1)
    <3>1. CASE n \notin {g, p}
      <4>1. G[n] = H[n] /\ G[r.kid[z][n]] = H[t.kid[z][n]] /\ (Red(r, n) <=> Red(t, n))
        BY <1>4, <2>2, <2>3, <2>5, <3>1
      <4>2. /\ H[n] \in Nat /\ H[t.kid[z][n]] \in Nat
            /\ Red(t, n) => H[n] = H[t.kid[z][n]]
            /\ ~ Red(t, n) => H[n] = H[t.kid[z][n]] + 1
        BY <2>4
      <4> QED BY <4>1, <4>2
    <3>2. /\ H[g] = H[p] + 1 /\ H[g] = H[near] + 1 /\ H[near] \in Nat /\ H[p] \in Nat
          /\ H[p] = H[inner] /\ H[p] = H[x]
      BY <1>1, <1>2, <2>4 DEF p
    <3>3. G[near] = H[near] /\ G[inner] = H[inner] /\ G[x] = H[x]
      BY <1>7, <2>2
    <3>4. CASE n = g
      <4>1. r.kid[z][n] = near \/ r.kid[z][n] = inner
        BY <1>1, <1>2, <1>9, <3>4, OtherSide
      <4> HIDE DEF near, inner
      <4>2. G[r.kid[z][n]] = H[p] /\ G[n] = H[p] /\ Red(r, n)
        BY <2>2, <2>5, <3>2, <3>3, <3>4, <4>1
      <4> QED BY <3>2, <4>2
    <3>5. CASE n = p
      <4>1. r.kid[z][n] = g \/ r.kid[z][n] = x
        BY <1>1, <1>2, <1>9, <3>5, OtherSide
      <4>2. G[r.kid[z][n]] = H[p] /\ G[n] = H[p] + 1 /\ ~ Red(r, n)
        BY <2>2, <2>5, <3>2, <3>3, <3>5, <4>1
      <4> QED BY <3>2, <4>2
    <3> QED BY <3>1, <3>4, <3>5
  <2>7. G[NULL] = 0
    BY <2>1, <2>2
  <2> HIDE DEF r
  <2>8. Level(r, M, G, x, NULL)
    BY <1>8, <2>2, <2>6, <2>7, LevelFrom
  <2> QED BY <2>8
<1> QED BY <1>8, <1>11, <1>12, <1>13 DEF p, o, t2

(* The red node is an inner grandkid.                                      *)
Bent(t, M, U, H, x, g, s) ==
  /\ Rising(t, M, U, H, x) /\ g \in M /\ s \in Sides
  /\ t.kid[s][g] # NULL /\ Red(t, t.kid[s][g]) /\ ~ Red(t, t.kid[Other(s)][g]) /\ ~ Red(t, g)
  /\ t.kid[Other(s)][t.kid[s][g]] = x

(* The first turn of RB_INSERT_COLOR brings it in line, in the place of    *)
(* its parent.                                                             *)
LEMMA BentTurns ==
  ASSUME NEW t, NEW M, NEW U, NEW H, NEW x, NEW g, NEW s, Bent(t, M, U, H, x, g, s)
  PROVE  LET p == t.kid[s][g]
             r == RB_ROTATE(t, p, s)
         IN  r.kid[s][g] = x /\ \E V : InLine(r, M, V, H, p, g, s)
<1> DEFINE p == t.kid[s][g]
           o == Other(s)
           inner == t.kid[s][x]
           outer == t.kid[o][x]
           near == t.kid[s][p]
           r == RB_ROTATE(t, p, s)
           V == Turned(t, U, p, s)
<1>1. /\ Shape(t, M, U) /\ Level(t, M, H, x, NULL) /\ t \in RBTrees
      /\ x \in M /\ Red(t, x) /\ \A n \in M : Bad(t, n) => n = x
      /\ g \in M /\ s \in Sides /\ p \in M /\ Red(t, p) /\ ~ Red(t, t.kid[o][g]) /\ ~ Red(t, g)
      /\ t.kid[o][p] = x /\ p # NULL
  BY DEF Bent, Rising, Shape
<1>2. o \in Sides /\ Other(o) = s /\ o # s /\ \A z \in Sides : z = s \/ z = o
  BY <1>1, OtherSide
<1>3. M \subseteq Nodes /\ NULL \notin M /\ x # NULL /\ H[NULL] = 0 /\ H \in [Links -> Nat]
  BY <1>1, ShapeNodes, LevelType
<1>4. t.parent[p] = g /\ g # p /\ g # x /\ t.kid[o][g] # p
  <2>1. t.parent[p] = g
    BY <1>1 DEF Shape
  <2>2. /\ p # NULL => t.parent[p] # p
        /\ \A a \in M, z \in Sides : t.kid[z][a] = x => a = t.parent[x]
    BY <1>1, PointsOnce
  <2>3. g # p
    BY <1>1, <2>1, <2>2, ShapeSelf, PointsOnce
  <2>4. x \in U[p] /\ g \notin U[p] /\ p \in U[p]
    <3>1. U[x] \subseteq U[p] /\ x \in U[x]
      BY <1>1, <1>2, ShapeSelf
    <3>2. g \notin U[p]
      BY <1>1, ShapeSelf
    <3> QED BY <1>1, <3>1, <3>2, ShapeSelf
  <2>5. \A k \in U[p] : k \notin U[t.kid[o][g]]
    BY <1>1, ApartSides
  <2> QED BY <1>1, <2>1, <2>3, <2>4, <2>5
<1> HIDE DEF o, p
<1>5. /\ {inner, outer, near} \subseteq M \cup {NULL} /\ x # p
      /\ {p, x} \cap {inner, outer, near} = {}
      /\ inner # NULL => inner # outer /\ inner # near
      /\ outer # NULL => outer # near
  <2>1. t.kid[Other(s)][p] # NULL
    BY <1>1, <1>3 DEF o
  <2> QED
    <3>1. AroundIs(t, M, U, p, s)
      BY <1>1, <2>1, Around
    <3> QED BY <1>1, <2>1, <3>1 DEF AroundIs, o
<1>6. t.kid[Other(s)][p] = x /\ t.kid[Other(s)][p] # NULL
  BY <1>1, <1>3 DEF o
<1>7. Shape(r, M, V)
  BY <1>1, <1>6, RotateShape
<1>8. /\ r.kid[s][p] = near /\ r.kid[o][p] = inner
      /\ r.kid[s][x] = p /\ r.kid[o][x] = outer
      /\ r.kid[s][g] = x /\ r.kid[o][g] = t.kid[o][g]
  <2>1. /\ r.kid[s][p] = near /\ r.kid[o][p] = inner
        /\ r.kid[s][x] = p /\ r.kid[o][x] = outer
        /\ \A n \in M \ {p, x}, z \in Sides :
             r.kid[z][n] = IF t.kid[z][n] = p THEN x ELSE t.kid[z][n]
    <3>1. RotatedAs(t, M, p, s)
      BY <1>1, <1>6, RotatedLinks
    <3> QED BY <1>6, <3>1 DEF RotatedAs, o
  <2>2. t.kid[s][g] = p /\ g \in M \ {p, x}
    BY <1>1, <1>4 DEF p
  <2> QED BY <1>1, <1>2, <1>4, <2>1, <2>2
<1>9. r.color = t.color
  BY <1>1, <1>6, RotateIs
<1>10. \A n : Red(r, n) <=> Red(t, n)
  BY <1>9 DEF Red
<1>11. ASSUME NEW n \in M, Bad(r, n) PROVE n = p
  <2>1. /\ Red(t, n)
        /\ \/ n = p
           \/ n = x /\ (p = t.root \/ Red(t, g))
           \/ n \in {near, inner}
           \/ n = outer
           \/ n \notin {p, x, near, inner, outer} /\ Bad(t, n)
    <3> HIDE DEF inner, near, outer
    <3> QED BY <1>1, <1>4, <1>6, <1>11, RotatedBad DEF inner, near, outer, o
  <2>2. p # t.root
    <3>1. ~ Bad(t, p)
      BY <1>1, <1>5
    <3> QED BY <1>1, <3>1 DEF Bad
  <2>3. n # near
    <3> SUFFICES ASSUME n = near PROVE FALSE
      OBVIOUS
    <3>1. t.parent[near] = p /\ near # x
      <4>1. near # NULL /\ near \in M
        BY <1>3, <1>5, <2>3
      <4>2. \A a \in M, z \in Sides : t.kid[z][a] # NULL => t.parent[t.kid[z][a]] = a
        BY <1>1 DEF Shape
      <4>3. t.parent[t.kid[s][p]] = p
        BY <1>1, <4>1, <4>2
      <4>4. near # x
        BY <1>5
      <4> QED BY <4>3, <4>4
    <3> QED BY <1>1, <2>1, <3>1 DEF Bad
  <2>4. n # inner
    <3> SUFFICES ASSUME n = inner PROVE FALSE
      OBVIOUS
    <3>1. t.parent[inner] = x /\ inner # x
      BY <1>1, <1>2, <1>3, <1>5, <2>1 DEF Shape
    <3> QED BY <1>1, <2>1, <3>1 DEF Bad
  <2>5. n # outer
    <3> SUFFICES ASSUME n = outer PROVE FALSE
      OBVIOUS
    <3>1. t.parent[outer] = x /\ outer # x
      BY <1>1, <1>2, <1>3, <1>5, <2>1 DEF Shape
    <3> QED BY <1>1, <2>1, <3>1 DEF Bad
  <2> QED BY <1>1, <2>1, <2>2, <2>3, <2>4, <2>5
<1>12. Level(r, M, H, p, NULL)
  <2>1. \A n \in M, z \in Sides :
          /\ H[n] \in Nat /\ H[t.kid[z][n]] \in Nat
          /\ Red(t, n) => H[n] = H[t.kid[z][n]]
          /\ ~ Red(t, n) => H[n] = H[t.kid[z][n]] + 1
    BY <1>1, LevelIs
  <2>2. /\ H[p] = H[x] /\ H[p] = H[near] /\ H[x] = H[inner] /\ H[x] = H[outer] /\ H[p] \in Nat
    BY <1>1, <1>2, <2>1
  <2>3. \A n \in M \ {p, x}, z \in Sides : H[r.kid[z][n]] = H[t.kid[z][n]]
    <3>1. Carried(t, M, p, s, H, H)
      BY <1>6, <2>2 DEF Carried
    <3> QED BY <1>1, <1>6, <3>1, RotatedHeights
  <2>4. ASSUME NEW n \in M, NEW z \in Sides
        PROVE  H[n] = H[r.kid[z][n]] + (IF Red(r, n) THEN 0 ELSE 1)
    <3>1. CASE n \notin {p, x}
      <4>1. H[r.kid[z][n]] = H[t.kid[z][n]] /\ (Red(r, n) <=> Red(t, n))
        BY <1>10, <2>3, <3>1
      <4>2. /\ H[n] \in Nat /\ H[t.kid[z][n]] \in Nat
            /\ Red(t, n) => H[n] = H[t.kid[z][n]]
            /\ ~ Red(t, n) => H[n] = H[t.kid[z][n]] + 1
        BY <2>1
      <4> QED BY <4>1, <4>2
    <3>2. CASE n = p
      <4>1. r.kid[z][n] = near \/ r.kid[z][n] = inner
        BY <1>2, <1>8, <3>2
      <4> HIDE DEF near, inner
      <4>2. H[r.kid[z][n]] = H[p] /\ Red(r, n)
        BY <1>1, <1>10, <2>2, <3>2, <4>1
      <4> QED BY <2>2, <3>2, <4>2
    <3>3. CASE n = x
      <4>1. r.kid[z][n] = p \/ r.kid[z][n] = outer
        BY <1>2, <1>8, <3>3
      <4> HIDE DEF outer
      <4>2. H[r.kid[z][n]] = H[p] /\ Red(r, n) /\ H[n] = H[p]
        BY <1>1, <1>10, <2>2, <3>3, <4>1
      <4> QED BY <2>2, <4>2
    <3> QED BY <3>1, <3>2, <3>3
  <2> HIDE DEF r, V
  <2> QED BY <1>3, <1>7, <2>4, LevelFrom
<1>13. Rising(r, M, V, H, p)
  <2> HIDE DEF r, V
  <2> QED BY <1>1, <1>7, <1>10, <1>11, <1>12 DEF Rising
<1>14. InLine(r, M, V, H, p, g, s)
  <2>1. /\ r.kid[s][g] # NULL /\ Red(r, r.kid[s][g]) /\ ~ Red(r, r.kid[Other(s)][g])
        /\ ~ Red(r, g) /\ r.kid[s][r.kid[s][g]] = p
    <3> HIDE DEF r
    <3> QED BY <1>1, <1>3, <1>8, <1>10 DEF o
  <2> HIDE DEF r, V
  <2> QED BY <1>1, <1>13, <2>1 DEF InLine
<1> HIDE DEF V
<1> QED BY <1>8, <1>14 DEF p

(* The parent and its sibling are red.                                     *)
RedUncle(t, M, U, H, x, g, s) ==
  /\ Rising(t, M, U, H, x) /\ g \in M /\ s \in Sides
  /\ t.kid[s][g] # NULL /\ t.kid[s][g] = t.parent[x]
  /\ Red(t, t.kid[s][g]) /\ Red(t, t.kid[Other(s)][g])

(* A red uncle: the red moves up.                                          *)
LEMMA UnclePaints ==
  ASSUME NEW t, NEW M, NEW U, NEW H, NEW x, NEW g, NEW s, RedUncle(t, M, U, H, x, g, s)
  PROVE  LET p == t.kid[s][g]
             r == RB_SET_BLACKRED(Paint(t, t.kid[Other(s)][g], "BLACK"), p, g)
         IN  /\ Shape(r, M, U) /\ (\E G : Level(r, M, G, g, NULL)) /\ Red(r, g)
             /\ \A n \in M : Bad(r, n) => n = g
<1> DEFINE p == t.kid[s][g]
           o == Other(s)
           k == t.kid[o][g]
           t1 == Paint(t, k, "BLACK")
           r == RB_SET_BLACKRED(t1, p, g)
<1>1. /\ Shape(t, M, U) /\ Level(t, M, H, x, NULL) /\ t \in RBTrees
      /\ x \in M /\ Red(t, x) /\ \A n \in M : Bad(t, n) => n = x
      /\ p \in M /\ k \in M /\ Red(t, p) /\ Red(t, k) /\ o \in Sides /\ o # s
      /\ t.parent[p] = g /\ t.parent[k] = g /\ t.parent[x] = p
      /\ g \in M /\ s \in Sides
  BY OtherSide DEF RedUncle, Rising, Shape, Red
<1>2. /\ M \subseteq Nodes /\ NULL \notin M /\ H \in [Links -> Nat] /\ H[NULL] = 0
      /\ M \subseteq Links /\ \A z \in Sides : z = s \/ z = o
  <2>1. M \subseteq Nodes /\ NULL \notin M /\ H \in [Links -> Nat] /\ H[NULL] = 0
    BY <1>1, ShapeNodes, LevelType
  <2> QED BY <1>1, <2>1, OtherSide DEF Links
<1>3. p # k /\ p # g /\ k # g /\ x # g /\ p # x
  <2>1. p \in U[p] /\ k \in U[k] /\ g \notin U[p] /\ g \notin U[k] /\ x \in U[x]
    BY <1>1, ShapeSelf
  <2>2. \A a \in U[p] : a \notin U[k]
    BY ApartSides, <1>1
  <2>3. x # p
    BY <1>1, <1>2, PointsOnce
  <2>4. x # g
    <3> SUFFICES ASSUME x = g PROVE FALSE
      OBVIOUS
    <3>1. \E z \in Sides : t.kid[z][p] = g
      BY <1>1, <1>2, PointsOnce
    <3>2. g \in U[p]
      <4>1. PICK z \in Sides : t.kid[z][p] = g
        BY <3>1
      <4>2. U[t.kid[z][p]] \subseteq U[p] /\ g \in U[g]
        BY <1>1, ShapeSelf
      <4> QED BY <4>1, <4>2
    <3> QED BY <2>1, <3>2
  <2> QED BY <2>1, <2>2, <2>3, <2>4
<1> HIDE DEF p, k, o
<1>4. /\ t1 \in RBTrees /\ t1.kid = t.kid /\ t1.parent = t.parent /\ t1.root = t.root
      /\ \A n \in Nodes : t1.color[n] = IF n = k THEN "BLACK" ELSE t.color[n]
  <2>1. "BLACK" \in Colors /\ k \in Nodes
    BY <1>1, <1>2 DEF Colors
  <2> QED BY <1>1, <2>1, PaintIs
<1> HIDE DEF t1
<1>5. /\ r \in RBTrees /\ r.kid = t1.kid /\ r.parent = t1.parent /\ r.root = t1.root
      /\ \A n \in Nodes : r.color[n] = IF n = g THEN "RED" ELSE IF n = p THEN "BLACK" ELSE t1.color[n]
  <2>1. p \in Nodes /\ g \in Nodes
    BY <1>1, <1>2
  <2> QED BY <1>4, <2>1, BlackRedIs
<1> HIDE DEF r
<1>6. Shape(r, M, U)
  BY <1>1, <1>4, <1>5, SameShape
<1>7. /\ Red(r, g) /\ ~ Red(r, p) /\ ~ Red(r, k)
      /\ \A n \in M \ {g, p, k} : Red(r, n) <=> Red(t, n)
  BY <1>1, <1>2, <1>3, <1>4, <1>5 DEF Red
<1>8. ~ Red(t, g)
  <2>1. p # x /\ ~ Bad(t, p)
    BY <1>1, <1>3
  <2> QED BY <1>1, <2>1 DEF Bad
<1>9. ASSUME NEW n \in M, Bad(r, n) PROVE n = g
  <2> SUFFICES ASSUME n # g PROVE FALSE
    OBVIOUS
  <2>1. Red(r, n) /\ (n = t.root \/ Red(r, t.parent[n])) /\ n \notin {g, p, k} /\ Red(t, n)
    BY <1>4, <1>5, <1>7, <1>9 DEF Bad
  <2>2. CASE n = t.root
    <3>1. Bad(t, n)
      BY <2>1, <2>2 DEF Bad
    <3>2. t.parent[x] # NULL => x # t.root
      BY <1>1, PointsOnce
    <3> QED BY <1>1, <1>2, <2>2, <3>1, <3>2
  <2>3. CASE n # t.root
    <3>1. t.parent[n] \in M /\ \E z \in Sides : t.kid[z][t.parent[n]] = n
      BY <1>1, <2>3, ShapeParent
    <3>2. t.parent[n] # g
      <4>1. t.kid[s][g] = p /\ t.kid[o][g] = k
        BY DEF p, k
      <4> QED BY <1>2, <2>1, <3>1, <4>1
    <3>3. Red(t, t.parent[n])
      BY <1>7, <2>1, <2>3, <3>1, <3>2
    <3>4. n = x
      BY <1>1, <2>1, <3>3 DEF Bad
    <3>5. Red(r, p)
      BY <1>1, <2>1, <2>3, <3>4
    <3> QED BY <1>7, <3>5
  <2> QED BY <2>2, <2>3
<1>10. \E G : Level(r, M, G, g, NULL)
  <2> DEFINE G == [n \in Links |-> IF n = p \/ n = k THEN H[n] + 1 ELSE H[n]]
  <2>1. /\ G \in [Links -> Nat] /\ G[p] = H[p] + 1 /\ G[k] = H[k] + 1
        /\ \A n \in M \ {p, k} : G[n] = H[n]
        /\ G[NULL] = H[NULL]
    <3>1. \A n \in Links : H[n] \in Nat
      BY <1>2
    <3>2. NULL \in Links /\ p \in Links /\ k \in Links
      BY <1>1, <1>2 DEF Links
    <3> QED BY <1>1, <1>2, <1>3, <3>1, <3>2
  <2> HIDE DEF G
  <2>2. \A n \in M, z \in Sides :
          /\ H[n] \in Nat /\ H[t.kid[z][n]] \in Nat
          /\ Red(t, n) => H[n] = H[t.kid[z][n]]
          /\ ~ Red(t, n) => H[n] = H[t.kid[z][n]] + 1
    BY <1>1, LevelIs
  <2>3. H[g] = H[p] + 1 /\ H[g] = H[k] + 1 /\ H[p] \in Nat /\ H[k] \in Nat
    BY <1>1, <1>8, <2>2 DEF p, k
  <2>4. ASSUME NEW n \in M, NEW z \in Sides
        PROVE  G[n] = G[r.kid[z][n]] + (IF Red(r, n) THEN 0 ELSE 1)
    <3> DEFINE c == t.kid[z][n]
    <3>1. r.kid[z][n] = c /\ c \in M \cup {NULL}
      BY <1>1, <1>4, <1>5 DEF Shape
    <3>2. /\ H[n] \in Nat /\ H[c] \in Nat
          /\ Red(t, n) => H[n] = H[c]
          /\ ~ Red(t, n) => H[n] = H[c] + 1
      BY <2>2
    <3>3. CASE n = g
      <4>1. c = p \/ c = k
        BY <1>2, <3>3 DEF p, k
      <4> HIDE DEF c
      <4>2. G[c] = H[g] /\ G[n] = H[g] /\ Red(r, n)
        BY <1>3, <1>7, <2>1, <2>3, <3>3, <4>1
      <4> QED BY <3>1, <3>2, <3>3, <4>2
    <3>4. CASE n # g
      <4>1. c # p /\ c # k
        <5>1. c # NULL => t.parent[c] = n
          BY <1>1 DEF Shape
        <5> QED BY <1>1, <1>2, <3>4, <5>1
      <4> HIDE DEF c
      <4>2. G[c] = H[c]
        BY <2>1, <3>1, <4>1
      <4>3. CASE n = p \/ n = k
        <5>1. Red(t, n) /\ ~ Red(r, n) /\ G[n] = H[n] + 1
          BY <1>1, <1>7, <2>1, <4>3
        <5> QED BY <3>1, <3>2, <4>2, <5>1
      <4>4. CASE n # p /\ n # k
        <5>1. (Red(t, n) <=> Red(r, n)) /\ G[n] = H[n]
          BY <1>7, <2>1, <3>4, <4>4
        <5> QED BY <3>1, <3>2, <4>2, <5>1
      <4> QED BY <4>3, <4>4
    <3> QED BY <3>3, <3>4
  <2>5. Level(r, M, G, g, NULL)
    BY <1>2, <1>6, <2>1, <2>4, LevelFrom
  <2> QED BY <2>5
<1> QED BY <1>6, <1>7, <1>9, <1>10 DEF p, k, o, t1, r

(* Where a black node is missing, or NULL.                                 *)
Lacking == IF rbpc = "remove_color" /\ elm # rb.root THEN par ELSE NULL

(* What every step keeps: links, heights and colours.                      *)
RBInv ==
  /\ rbpc \in {"ready", "insert_color", "remove_color"} /\ elm \in members \cup {NULL}
  /\ rbpc = "ready" => elm = NULL
  /\ \E U : Shape(rb, members, U)
  /\ \E H : Level(rb, members, H, elm, Lacking)
  /\ rbpc = "remove_color" /\ elm # rb.root => par # NULL
  /\ rbpc = "insert_color" => elm \in members /\ Red(rb, elm)
  /\ \A n \in members : Bad(rb, n) =>
       \/ rbpc = "insert_color" /\ n = elm
       \/ rbpc = "remove_color" /\ (n = elm \/ (n # rb.root /\ rb.parent[n] = elm))

LEMMA LevelAny ==
  ASSUME NEW t, NEW M, NULL \notin M, NEW H, NEW x, NEW y, Level(t, M, H, x, NULL)
  PROVE  Level(t, M, H, y, NULL)
BY DEF Level

(* What Level says of a node and a kid.                                    *)
LEMMA LevelHere ==
  ASSUME NEW t, NEW M, NEW U, Shape(t, M, U), NEW H, NEW x, NEW p, Level(t, M, H, x, p),
         NEW n \in M, NEW z \in Sides
  PROVE  /\ H[n] \in Nat /\ H[t.kid[z][n]] \in Nat
         /\ H[n] = H[t.kid[z][n]] + ((IF Red(t, n) THEN 0 ELSE 1)
                                     + (IF n = p /\ t.kid[z][n] = x THEN 1 ELSE 0))
<1>1. NULL \notin M /\ M \subseteq Links /\ NULL \in Links
  BY ShapeNodes
<1>2. t.kid[z][n] \in M \cup {NULL}
  BY DEF Shape
<1>3. H \in [Links -> Nat]
  BY DEF Level
<1>4. H[n] \in Nat /\ H[t.kid[z][n]] \in Nat
  BY <1>1, <1>2, <1>3
<1>5. Black(t, n) = IF Red(t, n) THEN 0 ELSE 1
  BY <1>1 DEF Black, Red
<1>6. H[n] = H[t.kid[z][n]] + (Black(t, n) + (IF n = p /\ t.kid[z][n] = x THEN 1 ELSE 0))
  BY DEF Level
<1> QED BY <1>4, <1>5, <1>6

(* The node below the missing one, or the root, turns black.               *)
LEMMA Blackens ==
  ASSUME NEW t, NEW M, NEW U, Shape(t, M, U), NEW x \in M, NEW H, NEW p, Level(t, M, H, x, p),
         p = NULL => x = t.root, p # NULL => Red(t, x)
  PROVE  LET r == Paint(t, x, "BLACK")
         IN  /\ Shape(r, M, U) /\ r.root = t.root /\ \E G : Level(r, M, G, NULL, NULL)
             /\ \A n \in M : Bad(r, n) => n # x /\ Bad(t, n) /\ (n # t.root => t.parent[n] # x)
<1> DEFINE r == Paint(t, x, "BLACK")
           d == IF Red(t, x) THEN 1 ELSE 0
<1>1. /\ t \in RBTrees /\ M \subseteq Nodes /\ M \subseteq Links /\ NULL \notin M
      /\ NULL \in Links /\ H \in [Links -> Nat] /\ H[NULL] = 0
  BY ShapeNodes, LevelType
<1>2. /\ r \in RBTrees /\ r.kid = t.kid /\ r.parent = t.parent /\ r.root = t.root
      /\ \A n \in Nodes : r.color[n] = IF n = x THEN "BLACK" ELSE t.color[n]
  <2>1. "BLACK" \in Colors /\ x \in Nodes
    BY <1>1 DEF Colors
  <2> QED BY <1>1, <2>1, PaintIs
<1> HIDE DEF r
<1>3. Shape(r, M, U)
  BY <1>2, SameShape
<1>4. ~ Red(r, x) /\ \A n \in M \ {x} : Red(r, n) <=> Red(t, n)
  BY <1>1, <1>2 DEF Red
<1>5. ASSUME NEW n \in M, Bad(r, n) PROVE n # x /\ Bad(t, n) /\ (n # t.root => t.parent[n] # x)
  <2>1. Red(r, n) /\ (n = t.root \/ Red(r, t.parent[n])) /\ n # x /\ Red(t, n)
    BY <1>2, <1>4, <1>5 DEF Bad
  <2>2. CASE n = t.root
    BY <2>1, <2>2 DEF Bad
  <2>3. CASE n # t.root
    <3>1. t.parent[n] \in M
      BY <2>3, ShapeParent
    <3> QED BY <1>4, <2>1, <2>3, <3>1 DEF Bad
  <2> QED BY <2>2, <2>3
<1>6. \E G : Level(r, M, G, NULL, NULL)
  <2> DEFINE G == [n \in Links |-> IF n = x THEN H[x] + d ELSE H[n]]
  <2>1. /\ G \in [Links -> Nat] /\ G[x] = H[x] + d
        /\ \A n \in M \ {x} : G[n] = H[n]
        /\ G[NULL] = H[NULL]
    <3>1. \A n \in Links : H[n] \in Nat
      BY <1>1
    <3>2. x \in Links /\ d \in Nat
      BY <1>1
    <3> QED BY <1>1, <3>1, <3>2
  <2> HIDE DEF G
  <2>2. \A n \in M, z \in Sides :
          /\ H[n] \in Nat /\ H[t.kid[z][n]] \in Nat
          /\ H[n] = H[t.kid[z][n]] + ((IF Red(t, n) THEN 0 ELSE 1)
                                      + (IF n = p /\ t.kid[z][n] = x THEN 1 ELSE 0))
    BY LevelHere
  <2>3. \A n \in M, z \in Sides : t.kid[z][n] = x => n = p /\ Red(t, x)
    <3> TAKE n \in M, z \in Sides
    <3> HAVE t.kid[z][n] = x
    <3>1. t.parent[x] = n /\ n # NULL
      BY <1>1 DEF Shape
    <3>2. CASE p = NULL
      BY <1>1, <3>1, <3>2 DEF Shape
    <3>3. CASE p # NULL
      <4>1. p \in M /\ \E y \in Sides : t.kid[y][p] = x
        BY <3>3 DEF Level
      <4>2. t.parent[x] = p
        BY <1>1, <4>1 DEF Shape
      <4> QED BY <3>1, <3>3, <4>2
    <3> QED BY <3>2, <3>3
  <2>4. ASSUME NEW n \in M, NEW z \in Sides
        PROVE  G[n] = G[r.kid[z][n]] + (IF Red(r, n) THEN 0 ELSE 1)
    <3> DEFINE c == t.kid[z][n]
    <3>1. r.kid[z][n] = c /\ c \in M \cup {NULL}
      BY <1>2 DEF Shape
    <3>2. /\ H[n] \in Nat /\ H[c] \in Nat
          /\ H[n] = H[c] + ((IF Red(t, n) THEN 0 ELSE 1) + (IF n = p /\ c = x THEN 1 ELSE 0))
      BY <2>2
    <3>3. c = x => n = p /\ Red(t, x)
      BY <2>3
    <3>4. n # x \/ c # x
      BY <1>1, PointsOnce, ShapeSelf
    <3> HIDE DEF c
    <3>5. CASE c = x
      <4>1. G[c] = H[c] + 1 /\ G[n] = H[n] /\ (Red(r, n) <=> Red(t, n))
        BY <1>4, <2>1, <3>3, <3>4, <3>5
      <4> QED BY <3>1, <3>2, <3>3, <3>5, <4>1
    <3>6. CASE c # x /\ n # x
      <4>1. G[c] = H[c] /\ G[n] = H[n] /\ (Red(r, n) <=> Red(t, n))
        BY <1>4, <2>1, <3>1, <3>6
      <4> QED BY <3>1, <3>2, <3>6, <4>1
    <3>7. CASE c # x /\ n = x
      <4>1. G[c] = H[c] /\ G[n] = H[n] + d /\ ~ Red(r, n)
        BY <1>4, <2>1, <3>1, <3>7
      <4> QED BY <3>1, <3>2, <3>7, <4>1
    <3> QED BY <3>5, <3>6, <3>7
  <2>5. Level(r, M, G, NULL, NULL)
    BY <1>1, <1>3, <2>1, <2>4, LevelFrom
  <2> QED BY <2>5
<1> QED BY <1>2, <1>3, <1>5, <1>6 DEF r

(* A new red node leaf changes no height.                                  *)
LEMMA HangLevel ==
  ASSUME NEW t, NEW M, NEW U, Shape(t, M, U), NEW e \in Nodes, e \notin M,
         NEW p, BelongsAt(t, M, U, e, p), NEW H, NEW x, Level(t, M, H, x, NULL),
         \A n \in M : ~ Bad(t, n)
  PROVE  LET r == HangLeaf(t, e, p)
         IN  /\ \E G : Level(r, M \cup {e}, G, e, NULL)
             /\ Red(r, e) /\ \A n \in M \cup {e} : Bad(r, n) => n = e
<1> DEFINE r == HangLeaf(t, e, p)
           N == M \cup {e}
<1>1. /\ t \in RBTrees /\ M \subseteq Nodes /\ M \subseteq Links /\ NULL \notin M
      /\ NULL \in Links /\ H \in [Links -> Nat] /\ H[NULL] = 0 /\ NULL \notin Nodes
      /\ e # NULL /\ e \in Links /\ p \in Links /\ p # e
  <2>1. /\ t \in RBTrees /\ M \subseteq Nodes /\ M \subseteq Links /\ NULL \notin M
        /\ NULL \in Links /\ H \in [Links -> Nat] /\ H[NULL] = 0
    BY ShapeNodes, LevelType
  <2>2. NULL \notin Nodes /\ p \in M \cup {NULL}
    BY NodesAssumption DEF BelongsAt
  <2> QED BY <2>1, <2>2 DEF Links
<1>2. /\ r.root = IF p = NULL THEN e ELSE t.root
      /\ \A a \in Nodes : /\ r.parent[a] = IF a = e THEN p ELSE t.parent[a]
                          /\ r.color[a] = IF a = e THEN "RED" ELSE t.color[a]
      /\ \A z \in Sides, a \in Nodes :
           r.kid[z][a] = IF a = e THEN NULL
                         ELSE IF a = p /\ z = KeySide(e, p) THEN e ELSE t.kid[z][a]
  BY <1>1, HangIs
<1>3. \E V : Shape(r, N, V)
  <2> DEFINE V == HungUnder(M, U, e, p)
  <2>1. Shape(r, N, V)
    BY HangShape
  <2> HIDE DEF V
  <2> QED BY <2>1
<1> HIDE DEF r
<1>4. Red(r, e) /\ \A n \in M : Red(r, n) <=> Red(t, n)
  BY <1>1, <1>2 DEF Red
<1>5. ASSUME NEW n \in M, Bad(r, n) PROVE FALSE
  <2>1. Red(t, n) /\ (n = r.root \/ Red(r, r.parent[n])) /\ n # e /\ n \in Nodes
    BY <1>1, <1>4, <1>5 DEF Bad
  <2>2. n = r.root => n = t.root
    BY <1>2, <2>1
  <2>3. CASE n = t.root
    BY <2>1, <2>3 DEF Bad
  <2>4. CASE n # t.root
    <3>1. t.parent[n] \in M
      BY <2>4, ShapeParent
    <3> QED BY <1>2, <1>4, <2>1, <2>2, <2>4, <3>1 DEF Bad
  <2> QED BY <2>3, <2>4
<1>6. \E G : Level(r, N, G, e, NULL)
  <2> DEFINE G == [n \in Links |-> IF n = e THEN 0 ELSE H[n]]
  <2>1. G \in [Links -> Nat] /\ G[e] = 0 /\ G[NULL] = 0 /\ \A n \in M : G[n] = H[n]
    <3>1. \A n \in Links : H[n] \in Nat
      BY <1>1
    <3> QED BY <1>1, <3>1
  <2> HIDE DEF G
  <2>2. ASSUME NEW n \in N, NEW z \in Sides
        PROVE  G[n] = G[r.kid[z][n]] + (IF Red(r, n) THEN 0 ELSE 1)
    <3>1. CASE n = e
      BY <1>2, <1>4, <2>1, <3>1
    <3>2. CASE n \in M
      <4> DEFINE c == t.kid[z][n]
      <4>1. c \in M \cup {NULL} /\ n \in Nodes /\ n # e
        BY <1>1, <3>2 DEF Shape
      <4>2. G[r.kid[z][n]] = H[c]
        <5>1. CASE n = p /\ z = KeySide(e, p)
          <6>1. c = NULL /\ r.kid[z][n] = e
            BY <1>1, <1>2, <3>2, <4>1, <5>1 DEF BelongsAt
          <6> QED BY <1>1, <2>1, <6>1
        <5>2. CASE ~ (n = p /\ z = KeySide(e, p))
          <6>1. r.kid[z][n] = c
            BY <1>2, <4>1, <5>2
          <6> HIDE DEF c
          <6> QED BY <1>1, <2>1, <4>1, <6>1
        <5> QED BY <5>1, <5>2
      <4>3. /\ H[n] \in Nat /\ H[c] \in Nat
            /\ Red(t, n) => H[n] = H[c]
            /\ ~ Red(t, n) => H[n] = H[c] + 1
        BY <3>2, LevelIs
      <4> HIDE DEF c
      <4> QED BY <1>4, <2>1, <3>2, <4>2, <4>3
    <3> QED BY <3>1, <3>2
  <2>3. Level(r, N, G, e, NULL)
    <3> HIDE DEF N
    <3> QED BY <1>3, <2>1, <2>2, LevelFrom
  <2> QED BY <2>3
<1> QED BY <1>4, <1>5, <1>6 DEF r

(* A call of RB_INSERT keeps the invariant.                                *)
LEMMA InsertKeeps == RBInv /\ RB_INSERT => RBInv'
<1> SUFFICES ASSUME RBInv, RB_INSERT PROVE RBInv'
  OBVIOUS
<1>1. PICK e \in Nodes \ members :
        /\ Descend(rb, e).found = NULL
        /\ rb' = HangLeaf(rb, e, Descend(rb, e).parent)
        /\ elm' = e /\ members' = members \cup {e}
  BY Zenon DEF RB_INSERT, HangLeaf
<1>2. rbpc = "ready" /\ rbpc' = "insert_color"
  BY DEF RB_INSERT
<1>3. PICK U : Shape(rb, members, U)
  BY DEF RBInv
<1>4. PICK H : Level(rb, members, H, elm, NULL)
  BY <1>2 DEF RBInv, Lacking
<1> DEFINE d == Descend(rb, e)
           p == d.parent
<1>5. BelongsAt(rb, members, U, e, p)
  <2>1. d \in Places /\ Descending(rb, members, U, e, d) /\ d.tmp = NULL
    BY <1>1, <1>3, DescendIs
  <2>2. p = NULL => members = {}
    BY <1>3, <2>1 DEF Descending, Shape
  <2> HIDE DEF d
  <2> QED BY <2>1, <2>2 DEF Descending, BelongsAt
<1> HIDE DEF d, p
<1>6. rb' = HangLeaf(rb, e, p) /\ e \in Nodes /\ e \notin members
  BY <1>1 DEF p, d
<1>7. \A n \in members : ~ Bad(rb, n)
  BY <1>2 DEF RBInv
<1>8. Shape(rb', members', HungUnder(members, U, e, p))
  BY <1>1, <1>3, <1>5, <1>6, HangShape
<1>9. /\ \E G : Level(rb', members', G, elm', NULL)
      /\ Red(rb', elm') /\ \A n \in members' : Bad(rb', n) => n = elm'
  BY <1>1, <1>3, <1>4, <1>5, <1>6, <1>7, HangLevel
<1>10. Lacking' = NULL
  BY <1>2 DEF Lacking
<1>11. \E V : Shape(rb', members', V)
  BY <1>8
<1> QED BY <1>1, <1>2, <1>9, <1>10, <1>11 DEF RBInv

(* The side of the grandparent of x its parent is on.                      *)
ParentSide(t, x) ==
  IF t.parent[x] = t.kid["left"][t.parent[t.parent[x]]] THEN "left" ELSE "right"

(* The red node, its red parent and its grandparent.                       *)
LEMMA RisingUp ==
  ASSUME NEW t, NEW M, NEW U, NEW H, NEW x, Rising(t, M, U, H, x), Red(t, t.parent[x])
  PROVE  LET p == t.parent[x]
             g == t.parent[p]
             s == ParentSide(t, x)
         IN  /\ p \in M /\ g \in M /\ s \in Sides /\ t.kid[s][g] = p /\ p # NULL /\ ~ Red(t, g)
             /\ t.kid[Other(s)][p] = x \/ t.kid[s][p] = x
             /\ Other(s) = IF p = t.kid["left"][g] THEN "right" ELSE "left"
<1> DEFINE p == t.parent[x]
           g == t.parent[p]
           s == IF p = t.kid["left"][g] THEN "left" ELSE "right"
<1>1. /\ Shape(t, M, U) /\ x \in M /\ Red(t, x) /\ \A n \in M : Bad(t, n) => n = x
      /\ Red(t, p) /\ p # NULL
  BY DEF Rising, Red
<1>2. p \in M /\ p # x /\ \E z \in Sides : t.kid[z][p] = x
  BY <1>1, PointsOnce
<1> HIDE DEF p
<1>3. p # t.root /\ ~ Red(t, g)
  BY <1>1, <1>2 DEF Bad
<1>4. g \in M /\ \E z \in Sides : t.kid[z][g] = p
  BY <1>1, <1>2, <1>3, ShapeParent
<1>5. t.kid[s][g] = p /\ s \in Sides
  BY <1>4 DEF Sides
<1>6. Other(s) = IF p = t.kid["left"][g] THEN "right" ELSE "left"
  BY DEF Other
<1>7. t.kid[Other(s)][p] = x \/ t.kid[s][p] = x
  BY <1>2, <1>5, OtherSide
<1>8. s = ParentSide(t, x)
  BY DEF p, ParentSide
<1> HIDE DEF s, g
<1> QED BY <1>1, <1>2, <1>3, <1>4, <1>5, <1>6, <1>7, <1>8 DEF p, g

(* The invariant in the loop of RB_INSERT_COLOR.                           *)
LEMMA InvRising ==
  ASSUME RBInv, rbpc = "insert_color"
  PROVE  \E U, H : Rising(rb, members, U, H, elm)
<1>1. PICK U : Shape(rb, members, U)
  BY DEF RBInv
<1>2. PICK H : Level(rb, members, H, elm, NULL)
  BY DEF RBInv, Lacking
<1>3. elm \in members /\ Red(rb, elm) /\ \A n \in members : Bad(rb, n) => n = elm
  BY DEF RBInv
<1> QED BY <1>1, <1>2, <1>3 DEF Rising

(* What a round of that loop has to leave.                                 *)
LEMMA RisingInv ==
  ASSUME rbpc' = "insert_color", \E U : Shape(rb', members', U),
         \E H : Level(rb', members', H, elm', NULL), elm' \in members', Red(rb', elm'),
         \A n \in members' : Bad(rb', n) => n = elm'
  PROVE  RBInv'
<1>1. Lacking' = NULL
  BY DEF Lacking
<1> QED BY <1>1 DEF RBInv

LEMMA InsertPaintsKeeps == RBInv /\ InsertPaints => RBInv'
<1> SUFFICES ASSUME RBInv, InsertPaints PROVE RBInv'
  OBVIOUS
<1> DEFINE p == rb.parent[elm]
           g == rb.parent[p]
           s == IF p = rb.kid["left"][g] THEN "left" ELSE "right"
           r == RB_SET_BLACKRED(Paint(rb, rb.kid[Other(s)][g], "BLACK"), p, g)
<1>1. PICK U, H : Rising(rb, members, U, H, elm)
  BY InvRising DEF InsertPaints
<1>a. Red(rb, p) /\ rb.parent[elm] = p
  BY DEF InsertPaints
<1>2. /\ p \in members /\ g \in members /\ s \in Sides /\ rb.kid[s][g] = p /\ p # NULL
      /\ Other(s) = IF p = rb.kid["left"][g] THEN "right" ELSE "left"
  <2>1. s = ParentSide(rb, elm)
    BY Zenon DEF ParentSide
  <2> HIDE DEF s, r
  <2> QED BY <1>1, <1>a, <2>1, RisingUp
<1>3. /\ Red(rb, p) /\ Red(rb, rb.kid[Other(s)][g]) /\ rb' = r
      /\ elm' = g /\ rbpc' = "insert_color" /\ members' = members
  BY <1>2 DEF InsertPaints
<1> HIDE DEF s, p, g
<1>4. /\ Shape(r, members, U) /\ (\E G : Level(r, members, G, g, NULL)) /\ Red(r, g)
      /\ \A n \in members : Bad(r, n) => n = g
  <2>1. rb.kid[s][g] # NULL /\ rb.kid[s][g] = rb.parent[elm] /\ Red(rb, rb.kid[s][g])
    BY <1>a, <1>2
  <2>2. r = RB_SET_BLACKRED(Paint(rb, rb.kid[Other(s)][g], "BLACK"), rb.kid[s][g], g)
    BY <1>2
  <2> HIDE DEF r
  <2>3. Rising(rb, members, U, H, elm) /\ g \in members /\ s \in Sides
        /\ Red(rb, rb.kid[Other(s)][g]) /\ rb.kid[s][g] = p
    BY <1>1, <1>2, <1>3
  <2> DEFINE r2 == RB_SET_BLACKRED(Paint(rb, rb.kid[Other(s)][g], "BLACK"), rb.kid[s][g], g)
  <2>4. /\ Shape(r2, members, U) /\ (\E G : Level(r2, members, G, g, NULL)) /\ Red(r2, g)
        /\ \A n \in members : Bad(r2, n) => n = g
    <3>1. RedUncle(rb, members, U, H, elm, g, s)
      BY <2>1, <2>3 DEF RedUncle
    <3> QED BY <3>1, UnclePaints
  <2> HIDE DEF r2
  <2>5. r = r2
    BY <2>2 DEF r2
  <2> QED BY <2>4, <2>5
<1> HIDE DEF r, g
<1>5. Red(r, g) /\ (\E G : Level(r, members, G, g, NULL)) /\ \E V : Shape(r, members, V)
  BY <1>4
<1> QED BY <1>2, <1>3, <1>4, <1>5, RisingInv

LEMMA InsertTurnsKeeps == RBInv /\ InsertTurns => RBInv'
<1> SUFFICES ASSUME RBInv, InsertTurns PROVE RBInv'
  OBVIOUS
<1> DEFINE p == rb.parent[elm]
           g == rb.parent[p]
           s == IF p = rb.kid["left"][g] THEN "left" ELSE "right"
           inside == rb.kid[Other(s)][p] = elm
           t == IF inside THEN RB_ROTATE(rb, p, s) ELSE rb
           q == IF inside THEN elm ELSE p
           x == IF inside THEN p ELSE elm
           r == RB_ROTATE(RB_SET_BLACKRED(t, q, g), g, Other(s))
<1>1. PICK U, H : Rising(rb, members, U, H, elm)
  BY InvRising DEF InsertTurns
<1>2. /\ Red(rb, p) /\ ~ Red(rb, rb.kid[Other(s)][g]) /\ rb' = r
      /\ elm' = x /\ rbpc' = "insert_color" /\ members' = members
  BY DEF InsertTurns
<1>a. Red(rb, rb.parent[elm])
  BY <1>2
<1>3. /\ p \in members /\ g \in members /\ s \in Sides /\ rb.kid[s][g] = p /\ p # NULL
      /\ ~ Red(rb, g) /\ (rb.kid[Other(s)][p] = elm \/ rb.kid[s][p] = elm)
  <2>1. s = ParentSide(rb, elm)
    BY Zenon DEF ParentSide
  <2> HIDE DEF r, t, x, q, s, inside
  <2> QED BY <1>1, <1>a, <2>1, RisingUp
<1>4. elm \in members
  BY <1>1 DEF Rising
<1> HIDE DEF p, g, s
<1>5. /\ \E V : Shape(r, members, V)
      /\ \E G : Level(r, members, G, x, NULL)
      /\ Red(r, x) /\ (\A n \in members : ~ Bad(r, n))
  <2>1. CASE inside
    <3> DEFINE t0 == RB_ROTATE(rb, p, s)
    <3>1. Bent(rb, members, U, H, elm, g, s)
      BY <1>1, <1>2, <1>3, <2>1 DEF Bent
    <3>2. t0.kid[s][g] = elm /\ \E V : InLine(t0, members, V, H, p, g, s)
      BY <1>3, <3>1, BentTurns
    <3> HIDE DEF t0
    <3>3. PICK V : InLine(t0, members, V, H, p, g, s)
      BY <3>2
    <3> DEFINE r0 == RB_ROTATE(RB_SET_BLACKRED(t0, t0.kid[s][g], g), g, Other(s))
    <3>4. /\ \E W : Shape(r0, members, W)
          /\ \E G : Level(r0, members, G, p, NULL)
          /\ Red(r0, p) /\ (\A n \in members : ~ Bad(r0, n))
      BY <3>3, LineTurns
    <3>5. r0 = r /\ x = p
      BY <2>1, <3>2 DEF t0
    <3> HIDE DEF r, r0, x
    <3> QED BY <3>4, <3>5
  <2>2. CASE ~ inside
    <3>1. InLine(rb, members, U, H, elm, g, s)
      BY <1>1, <1>2, <1>3, <2>2 DEF InLine
    <3> DEFINE r0 == RB_ROTATE(RB_SET_BLACKRED(rb, rb.kid[s][g], g), g, Other(s))
    <3>2. /\ \E W : Shape(r0, members, W)
          /\ \E G : Level(r0, members, G, elm, NULL)
          /\ Red(r0, elm) /\ (\A n \in members : ~ Bad(r0, n))
      BY <3>1, LineTurns
    <3>3. r0 = r /\ x = elm
      BY <1>3, <2>2
    <3> HIDE DEF r, r0, x
    <3> QED BY <3>2, <3>3
  <2> QED BY <2>1, <2>2
<1>6. x \in members
  BY <1>3, <1>4
<1> HIDE DEF r, x
<1> QED BY <1>2, <1>5, <1>6, RisingInv

(* What is left when a call is over.                                       *)
LEMMA ReadyInv ==
  ASSUME rbpc' = "ready", elm' = NULL, \E U : Shape(rb', members', U),
         \E H : Level(rb', members', H, NULL, NULL),
         \A n \in members' : ~ Bad(rb', n)
  PROVE  RBInv'
<1>1. Lacking' = NULL
  BY DEF Lacking
<1> QED BY <1>1 DEF RBInv

LEMMA InsertEndsKeeps == RBInv /\ InsertEnds => RBInv'
<1> SUFFICES ASSUME RBInv, InsertEnds PROVE RBInv'
  OBVIOUS
<1> DEFINE r == Paint(rb, rb.root, "BLACK")
<1>1. PICK U, H : Rising(rb, members, U, H, elm)
  BY InvRising DEF InsertEnds
<1>2. /\ ~ Red(rb, rb.parent[elm]) /\ rb' = r /\ rbpc' = "ready" /\ elm' = NULL
      /\ members' = members
  BY DEF InsertEnds
<1>3. /\ Shape(rb, members, U) /\ NULL \notin members /\ rb.root \in members
      /\ \A n \in members : Bad(rb, n) => n = elm
  <2>1. Shape(rb, members, U) /\ elm \in members /\ \A n \in members : Bad(rb, n) => n = elm
    BY <1>1 DEF Rising
  <2>2. NULL \notin members /\ rb.root \in members \cup {NULL}
    BY <2>1, ShapeNodes
  <2> QED BY <2>1, <2>2 DEF Shape
<1>4. Level(rb, members, H, rb.root, NULL)
  BY <1>1, <1>3, LevelAny DEF Rising
<1>5. /\ Shape(r, members, U) /\ (\E G : Level(r, members, G, NULL, NULL))
      /\ \A n \in members : Bad(r, n) => n # rb.root /\ Bad(rb, n)
  BY <1>3, <1>4, Blackens
<1>6. \A n \in members : ~ Bad(r, n)
  BY <1>2, <1>3, <1>5 DEF Bad
<1> HIDE DEF r
<1>7. \E V : Shape(r, members, V)
  BY <1>5
<1> QED BY <1>2, <1>5, <1>6, <1>7, ReadyInv

(* A node of no tree changes.                                              *)
LEMMA SameLevel ==
  ASSUME NEW t, NEW M, NEW U, Shape(t, M, U), NEW r, r.root = t.root,
         \A n \in M : /\ r.parent[n] = t.parent[n] /\ r.color[n] = t.color[n]
                      /\ \A s \in Sides : r.kid[s][n] = t.kid[s][n]
  PROVE  /\ \A H, x, p : Level(t, M, H, x, p) => Level(r, M, H, x, p)
         /\ \A n \in M : Bad(r, n) => Bad(t, n)
<1>1. \A n \in M : Red(r, n) <=> Red(t, n)
  BY DEF Red
<1>2. ASSUME NEW n \in M, Bad(r, n) PROVE Bad(t, n)
  <2>1. Red(t, n) /\ (n = t.root \/ Red(r, t.parent[n]))
    BY <1>1, <1>2 DEF Bad
  <2>2. CASE n = t.root
    BY <2>1, <2>2 DEF Bad
  <2>3. CASE n # t.root
    <3>1. t.parent[n] \in M
      BY <2>3, ShapeParent
    <3> QED BY <1>1, <2>1, <2>3, <3>1 DEF Bad
  <2> QED BY <2>2, <2>3
<1>3. ASSUME NEW H, NEW x, NEW p, Level(t, M, H, x, p) PROVE Level(r, M, H, x, p)
  <2>1. /\ H \in [Links -> Nat] /\ H[NULL] = 0
        /\ p # NULL => p \in M /\ \E z \in Sides : t.kid[z][p] = x /\ t.kid[Other(z)][p] # x
    BY <1>3 DEF Level
  <2>2. p # NULL => p \in M /\ \E z \in Sides : r.kid[z][p] = x /\ r.kid[Other(z)][p] # x
    BY <2>1, OtherSide
  <2>3. \A n \in M, z \in Sides :
          H[n] = H[r.kid[z][n]] + (Black(r, n) + (IF n = p /\ r.kid[z][n] = x THEN 1 ELSE 0))
    <3> TAKE n \in M, z \in Sides
    <3>1. H[n] = H[t.kid[z][n]] + (Black(t, n) + (IF n = p /\ t.kid[z][n] = x THEN 1 ELSE 0))
      BY <1>3 DEF Level
    <3>2. Black(r, n) = Black(t, n) /\ r.kid[z][n] = t.kid[z][n]
      BY DEF Black
    <3> QED BY <3>1, <3>2
  <2> QED BY <2>1, <2>2, <2>3 DEF Level
<1> QED BY <1>2, <1>3

(* What makes a Level with a node missing.                                 *)
LEMMA LevelBelow ==
  ASSUME NEW t, NEW M, NEW U, Shape(t, M, U), NEW H \in [Links -> Nat], H[NULL] = 0, NEW x, NEW p,
         p # NULL => p \in M /\ \E z \in Sides : t.kid[z][p] = x /\ t.kid[Other(z)][p] # x,
         \A n \in M, z \in Sides :
           H[n] = H[t.kid[z][n]] + ((IF Red(t, n) THEN 0 ELSE 1)
                                    + (IF n = p /\ t.kid[z][n] = x THEN 1 ELSE 0))
  PROVE  Level(t, M, H, x, p)
<1>1. NULL \notin M
  BY ShapeNodes
<1>2. \A n \in M : Black(t, n) = IF Red(t, n) THEN 0 ELSE 1
  BY <1>1 DEF Black, Red
<1>3. \A n \in M, z \in Sides :
        H[n] = H[t.kid[z][n]] + (Black(t, n) + (IF n = p /\ t.kid[z][n] = x THEN 1 ELSE 0))
  BY <1>2
<1> QED BY <1>3 DEF Level

(* A node that leaves a tree without a bad node, and has no kid on side s. *)
Leaving(t, M, U, H, e, s) ==
  /\ Shape(t, M, U) /\ Level(t, M, H, NULL, NULL) /\ \A n \in M : ~ Bad(t, n)
  /\ e \in M /\ s \in Sides /\ t.kid[s][e] = NULL

(* x is the only node that may be bad, and only if c holds.                *)
OnlyBad(t, M, c, x) == \A n \in M : Bad(t, n) => c /\ n = x

(* Above its kid a black node is missing if it was black.                  *)
MissedAt(t, e) == IF Red(t, e) THEN NULL ELSE t.parent[e]

LEMMA UnlinkLevel ==
  ASSUME NEW t, NEW M, NEW U, NEW H, NEW e, NEW s, Leaving(t, M, U, H, e, s)
  PROVE  LET child == t.kid[Other(s)][e]
             r == Unlink(t, e, child)
         IN  /\ Level(r, M \ {e}, H, child, MissedAt(t, e))
             /\ OnlyBad(r, M \ {e}, ~ Red(t, e), child)
<1> DEFINE o == Other(s)
           child == t.kid[o][e]
           r == Unlink(t, e, child)
           p == t.parent[e]
           q == IF Red(t, e) THEN NULL ELSE p
           N == M \ {e}
<1>1. /\ Shape(t, M, U) /\ Level(t, M, H, NULL, NULL) /\ \A n \in M : ~ Bad(t, n)
      /\ e \in M /\ s \in Sides /\ t.kid[s][e] = NULL
  BY DEF Leaving
<1>2. o \in Sides /\ o # s /\ \A z \in Sides : z = s \/ z = o
  BY <1>1, OtherSide
<1>3. /\ M \subseteq Nodes /\ NULL \notin M /\ H \in [Links -> Nat] /\ H[NULL] = 0
      /\ child \in M \cup {NULL} /\ e \in Nodes
  <2>1. child \in M \cup {NULL}
    BY <1>1, <1>2 DEF Shape
  <2>2. M \subseteq Nodes /\ NULL \notin M
    BY <1>1, ShapeNodes
  <2>3. H \in [Links -> Nat] /\ H[NULL] = 0
    BY <1>1, LevelType
  <2> QED BY <1>1, <2>1, <2>2, <2>3
<1>4. /\ r \in RBTrees /\ r.color = t.color
      /\ r.root = IF e = t.root THEN child ELSE t.root
      /\ \A a \in Nodes : r.parent[a] = IF a = child THEN p ELSE t.parent[a]
      /\ \A z \in Sides, a \in M : r.kid[z][a] = IF t.kid[z][a] = e THEN child ELSE t.kid[z][a]
  BY <1>1, <1>3, UnlinkIs
<1>5. /\ p = NULL <=> e = t.root
      /\ p # NULL => p \in M /\ p # e /\ \E z \in Sides : t.kid[z][p] = e /\ t.kid[Other(z)][p] # e
      /\ \A a \in M, z \in Sides : t.kid[z][a] = e => a = p
  BY <1>1, PointsOnce
<1>6. \A n \in M, z \in Sides : t.kid[z][n] # NULL => t.parent[t.kid[z][n]] = n
  BY <1>1 DEF Shape
<1>7. child # NULL => t.parent[child] = e /\ child # e
  <2>1. child # NULL => t.parent[child] # child
    BY <1>1, <1>3, PointsOnce
  <2> QED BY <1>1, <1>2, <1>6, <2>1
<1>8. Shape(r, N, [n \in Links |-> U[n] \ {e}])
  BY <1>1, UnlinkShape
<1>9. \A n \in M, z \in Sides :
        /\ H[n] \in Nat /\ H[t.kid[z][n]] \in Nat
        /\ Red(t, n) => H[n] = H[t.kid[z][n]]
        /\ ~ Red(t, n) => H[n] = H[t.kid[z][n]] + 1
  BY <1>1, LevelIs
<1>10. \A n : Red(r, n) <=> Red(t, n)
  BY <1>4 DEF Red
<1> HIDE DEF r
<1>11. ASSUME NEW n \in N, Bad(r, n) PROVE ~ Red(t, e) /\ n = child
  <2>1. Red(t, n) /\ (n = r.root \/ Red(t, r.parent[n])) /\ n # e /\ n \in M /\ n \in Nodes
    BY <1>3, <1>10, <1>11 DEF Bad
  <2>2. CASE n = child
    <3>1. t.parent[n] = e
      BY <1>3, <1>7, <2>1, <2>2
    <3>2. ~ Red(t, e)
      BY <1>1, <2>1, <3>1 DEF Bad
    <3> QED BY <2>2, <3>2
  <2>3. CASE n # child
    <3>1. r.parent[n] = t.parent[n]
      BY <1>4, <2>1, <2>3
    <3>2. n = r.root => n = t.root
      BY <1>4, <2>3
    <3> QED BY <1>1, <2>1, <3>1, <3>2 DEF Bad
  <2> QED BY <2>2, <2>3
<1> HIDE DEF child
<1>12. ASSUME ~ Red(t, e), NEW z \in Sides, p # NULL, t.kid[z][p] # e PROVE t.kid[z][p] # child
  <2> SUFFICES ASSUME t.kid[z][p] = child PROVE FALSE
    OBVIOUS
  <2>1. child = NULL
    BY <1>5, <1>6, <1>7, <1>12
  <2>2. PICK y \in Sides : t.kid[y][p] = e
    BY <1>5, <1>12
  <2>3. H[e] = 1
    BY <1>1, <1>3, <1>9, <1>12
  <2>4. p \in M
    BY <1>5, <1>12
  <2>5. H[p] \in Nat /\ (H[p] = H[e] \/ H[p] = H[e] + 1) /\ (Red(t, p) => H[p] = H[e])
        /\ (~ Red(t, p) => H[p] = H[e] + 1)
    BY <1>9, <2>2, <2>4
  <2>6. (Red(t, p) => H[p] = H[NULL]) /\ (~ Red(t, p) => H[p] = H[NULL] + 1)
    BY <1>9, <1>12, <2>1, <2>4
  <2> QED BY <1>3, <2>3, <2>5, <2>6
<1>13. q # NULL => q \in N /\ \E z \in Sides : r.kid[z][q] = child /\ r.kid[Other(z)][q] # child
  <2> HAVE q # NULL
  <2>1. q = p /\ p # NULL /\ ~ Red(t, e) /\ p \in N
    BY <1>5
  <2>2. PICK z \in Sides : t.kid[z][p] = e /\ t.kid[Other(z)][p] # e
    BY <1>5, <2>1
  <2>3. Other(z) \in Sides
    BY OtherSide
  <2>4. t.kid[Other(z)][p] # child
    BY <1>12, <2>1, <2>2, <2>3
  <2>5. r.kid[z][p] = child /\ r.kid[Other(z)][p] # child
    BY <1>4, <2>1, <2>2, <2>3, <2>4
  <2> QED BY <2>1, <2>5
<1>14. ASSUME NEW n \in N, NEW z \in Sides
       PROVE  H[n] = H[r.kid[z][n]] + ((IF Red(r, n) THEN 0 ELSE 1)
                                       + (IF n = q /\ r.kid[z][n] = child THEN 1 ELSE 0))
  <2>1. /\ H[n] \in Nat /\ H[t.kid[z][n]] \in Nat
        /\ Red(t, n) => H[n] = H[t.kid[z][n]]
        /\ ~ Red(t, n) => H[n] = H[t.kid[z][n]] + 1
    BY <1>9
  <2>2. H[e] \in Nat /\ H[child] \in Nat /\ (Red(t, e) => H[e] = H[child])
        /\ (~ Red(t, e) => H[e] = H[child] + 1)
    BY <1>1, <1>2, <1>9 DEF child
  <2>3. CASE t.kid[z][n] = e
    <3>1. n = p /\ n # NULL /\ r.kid[z][n] = child
      BY <1>3, <1>4, <1>5, <2>3
    <3>2. n = q <=> ~ Red(t, e)
      BY <3>1
    <3> HIDE DEF q
    <3>3. CASE Red(t, e)
      BY <1>10, <2>1, <2>2, <2>3, <3>1, <3>2, <3>3
    <3>4. CASE ~ Red(t, e)
      BY <1>10, <2>1, <2>2, <2>3, <3>1, <3>2, <3>4
    <3> QED BY <3>3, <3>4
  <2>4. CASE t.kid[z][n] # e
    <3>1. r.kid[z][n] = t.kid[z][n]
      BY <1>4, <2>4
    <3>2. ~ (n = q /\ r.kid[z][n] = child)
      <4> SUFFICES ASSUME n = q, t.kid[z][n] = child PROVE FALSE
        BY <3>1
      <4>1. n # NULL /\ n = p /\ ~ Red(t, e)
        BY <1>3
      <4> QED BY <1>12, <2>4, <4>1
    <3> HIDE DEF q
    <3> QED BY <1>10, <2>1, <3>1, <3>2
  <2> QED BY <2>3, <2>4
<1> HIDE DEF q, N
<1>15. Level(r, N, H, child, q)
  BY <1>3, <1>8, <1>13, <1>14, LevelBelow
<1>16. q = MissedAt(t, e)
  BY DEF q, p, MissedAt
<1>17. OnlyBad(r, N, ~ Red(t, e), child)
  BY <1>11 DEF OnlyBad
<1> QED BY <1>15, <1>16, <1>17 DEF N, child, r, o

(* e takes the place of old in a tree where a node may be missing above x. *)
Replacing(t, M, U, H, old, e, x, p) ==
  /\ Shape(t, M, U) /\ Level(t, M, H, x, p)
  /\ old \in M /\ e \in Nodes /\ e \notin M /\ x \in M \cup {NULL} /\ x # old

(* What is at old is at e now.                                             *)
MovedTo(p, old, e) == IF p = old THEN e ELSE p
BadBefore(r, N, t, old, e) == \A n \in N : Bad(r, n) => Bad(t, IF n = e THEN old ELSE n)

LEMMA SubstituteLevel ==
  ASSUME NEW t, NEW M, NEW U, NEW H, NEW old, NEW e, NEW x, NEW p,
         Replacing(t, M, U, H, old, e, x, p),
         \E V : Shape(Substitute(t, old, e), (M \ {old}) \cup {e}, V)
  PROVE  LET r == Substitute(t, old, e)
             N == (M \ {old}) \cup {e}
         IN  (\E G : Level(r, N, G, x, MovedTo(p, old, e))) /\ BadBefore(r, N, t, old, e)
<1> DEFINE r == Substitute(t, old, e)
           N == (M \ {old}) \cup {e}
           q == IF p = old THEN e ELSE p
<1>1. /\ Shape(t, M, U) /\ Level(t, M, H, x, p)
      /\ old \in M /\ e \in Nodes /\ e \notin M /\ x \in M \cup {NULL} /\ x # old
  BY DEF Replacing
<1>2. /\ r.root = IF old = t.root THEN e ELSE t.root
      /\ r.parent[e] = t.parent[old] /\ r.color[e] = t.color[old]
      /\ \A z \in Sides : r.kid[z][e] = t.kid[z][old]
      /\ \A a \in M \ {old} :
           /\ r.parent[a] = IF t.parent[a] = old THEN e ELSE t.parent[a]
           /\ r.color[a] = t.color[a]
           /\ \A z \in Sides : r.kid[z][a] = IF t.kid[z][a] = old THEN e ELSE t.kid[z][a]
  BY <1>1, SubstituteIs
<1>3. PICK V : Shape(r, N, V)
  OBVIOUS
<1> HIDE DEF r
<1>4. /\ M \subseteq Nodes /\ NULL \notin M /\ NULL \notin Nodes /\ H \in [Links -> Nat] /\ H[NULL] = 0
      /\ t.root \in M \cup {NULL} /\ e # NULL /\ old # NULL /\ x # e /\ e # old
      /\ p # NULL => p \in M /\ \E z \in Sides : t.kid[z][p] = x /\ t.kid[Other(z)][p] # x
  <2>1. /\ M \subseteq Nodes /\ NULL \notin M /\ t.root \in M \cup {NULL}
    BY <1>1, ShapeNodes
  <2>2. H \in [Links -> Nat] /\ H[NULL] = 0
    BY <1>1, LevelType
  <2>3. p # NULL => p \in M /\ \E z \in Sides : t.kid[z][p] = x /\ t.kid[Other(z)][p] # x
    BY <1>1 DEF Level
  <2>4. NULL \notin Nodes
    BY NodesAssumption
  <2> QED BY <1>1, <2>1, <2>2, <2>3, <2>4
<1>5. (Red(r, e) <=> Red(t, old)) /\ \A n \in M \ {old} : Red(r, n) <=> Red(t, n)
  BY <1>2, <1>4 DEF Red
<1>6. \A n \in M, z \in Sides : t.kid[z][n] \in M \cup {NULL}
  BY <1>1 DEF Shape
<1>7. \A n \in M : t.parent[n] \in M \cup {NULL} /\ t.parent[n] # n
  BY <1>1, <1>4, PointsOnce
<1>8. ASSUME NEW n \in N, Bad(r, n) PROVE Bad(t, IF n = e THEN old ELSE n)
  <2>1. Red(r, n) /\ (n = r.root \/ Red(r, r.parent[n]))
    BY <1>8 DEF Bad
  <2>2. CASE n = e
    <3>1. Red(t, old) /\ (n = r.root => old = t.root)
      BY <1>1, <1>2, <1>4, <1>5, <2>1, <2>2
    <3>2. Red(r, r.parent[n]) => Red(t, t.parent[old])
      <4>1. t.parent[old] \in M \ {old} \/ t.parent[old] = NULL
        BY <1>1, <1>7
      <4> QED BY <1>2, <1>5, <2>2, <4>1 DEF Red
    <3> QED BY <2>1, <2>2, <3>1, <3>2 DEF Bad
  <2>3. CASE n \in M \ {old}
    <3>1. Red(t, n) /\ n # e /\ (n = r.root => n = t.root)
      BY <1>1, <1>2, <1>5, <2>1, <2>3
    <3>2. Red(r, r.parent[n]) => Red(t, t.parent[n])
      <4>1. CASE t.parent[n] = old
        BY <1>2, <1>5, <2>3, <4>1
      <4>2. CASE t.parent[n] # old
        <5>1. t.parent[n] \in M \ {old} \/ t.parent[n] = NULL
          BY <1>7, <2>3, <4>2
        <5> QED BY <1>2, <1>5, <2>3, <4>2, <5>1 DEF Red
      <4> QED BY <4>1, <4>2
    <3> QED BY <2>1, <3>1, <3>2 DEF Bad
  <2> QED BY <2>2, <2>3
<1>9. q # NULL => q \in N /\ \E z \in Sides : r.kid[z][q] = x /\ r.kid[Other(z)][q] # x
  <2> HAVE q # NULL
  <2>1. p # NULL /\ p \in M
    BY <1>4
  <2>2. PICK z \in Sides : t.kid[z][p] = x /\ t.kid[Other(z)][p] # x
    BY <1>4, <2>1
  <2>3. Other(z) \in Sides
    BY OtherSide
  <2>4. r.kid[z][q] = x /\ r.kid[Other(z)][q] # x
    <3>1. CASE p = old
      BY <1>2, <2>2, <2>3, <3>1
    <3>2. CASE p # old
      <4>1. q = p /\ p \in M \ {old}
        BY <2>1, <3>2
      <4> HIDE DEF q
      <4> QED BY <1>1, <1>2, <1>4, <2>2, <2>3, <4>1
    <3> QED BY <3>1, <3>2
  <2> QED BY <2>1, <2>4
<1>10. \E G : Level(r, N, G, x, q)
  <2> DEFINE G == [n \in Links |-> IF n = e THEN H[old] ELSE H[n]]
  <2>1. G \in [Links -> Nat] /\ G[e] = H[old] /\ G[NULL] = 0 /\ \A n \in M : G[n] = H[n]
    <3>1. \A n \in Links : H[n] \in Nat
      BY <1>4
    <3>2. old \in Links /\ e \in Links /\ NULL \in Links /\ M \subseteq Links
      BY <1>1, <1>4 DEF Links
    <3> QED BY <1>1, <1>4, <3>1, <3>2
  <2> HIDE DEF G
  <2>2. \A n \in M, z \in Sides :
          /\ H[n] \in Nat /\ H[t.kid[z][n]] \in Nat
          /\ H[n] = H[t.kid[z][n]] + ((IF Red(t, n) THEN 0 ELSE 1)
                                      + (IF n = p /\ t.kid[z][n] = x THEN 1 ELSE 0))
    BY <1>1, LevelHere
  <2>3. ASSUME NEW n \in N, NEW z \in Sides
        PROVE  G[n] = G[r.kid[z][n]] + ((IF Red(r, n) THEN 0 ELSE 1)
                                        + (IF n = q /\ r.kid[z][n] = x THEN 1 ELSE 0))
    <3> DEFINE m == IF n = e THEN old ELSE n
               c == t.kid[z][m]
    <3>1. m \in M /\ G[n] = H[m] /\ (Red(r, n) <=> Red(t, m)) /\ (n = q <=> m = p)
      BY <1>1, <1>4, <1>5, <2>1
    <3>2. r.kid[z][n] = (IF c = old THEN e ELSE c) /\ c \in M \cup {NULL}
      <4>1. c # old \/ n # e
        <5>1. t.kid[z][old] # old
          <6>1. t.kid[z][old] # NULL => t.parent[t.kid[z][old]] = old
            BY <1>1 DEF Shape
          <6> QED BY <1>1, <1>4, <1>7, <6>1
        <5> QED BY <5>1
      <4>2. n = e \/ n \in M \ {old}
        OBVIOUS
      <4> QED BY <1>1, <1>2, <1>6, <4>1, <4>2
    <3> HIDE DEF m
    <3>3. /\ H[m] \in Nat /\ H[c] \in Nat
          /\ H[m] = H[c] + ((IF Red(t, m) THEN 0 ELSE 1) + (IF m = p /\ c = x THEN 1 ELSE 0))
      BY <2>2, <3>1
    <3> HIDE DEF c, q
    <3>4. G[r.kid[z][n]] = H[c] /\ (r.kid[z][n] = x <=> c = x)
      BY <1>1, <1>4, <2>1, <3>2
    <3> QED BY <3>1, <3>3, <3>4
  <2> HIDE DEF N, q
  <2>4. Level(r, N, G, x, q)
    BY <1>3, <1>9, <2>1, <2>3, LevelBelow
  <2> QED BY <2>4
<1>11. q = MovedTo(p, old, e)
  BY DEF MovedTo
<1>12. BadBefore(r, N, t, old, e)
  BY <1>8 DEF BadBefore
<1> HIDE DEF q
<1> QED BY <1>10, <1>11, <1>12 DEF r, N

(* What RB_REMOVE has to leave to the loop that follows it.                *)
LeftOver(t, M, child, parent, missing) ==
  /\ child \in M \cup {NULL}
  /\ missing => \E G : Level(t, M, G, child, IF child = t.root THEN NULL ELSE parent)
  /\ missing /\ child # t.root => parent # NULL
  /\ ~ missing => \E G : Level(t, M, G, NULL, NULL)
  /\ \A n \in M : Bad(t, n) => missing /\ n = child

(* A node with at most one kid.                                            *)
LEMMA RemovedOne ==
  ASSUME NEW t, NEW M, NEW U, NEW H, NEW old, NEW s, Leaving(t, M, U, H, old, s)
  PROVE  LeftOver(Unlink(t, old, t.kid[Other(s)][old]), M \ {old}, t.kid[Other(s)][old],
                  t.parent[old], ~ Red(t, old))
<1> DEFINE child == t.kid[Other(s)][old]
           r == Unlink(t, old, child)
           p == t.parent[old]
           N == M \ {old}
           q == MissedAt(t, old)
<1>1. /\ Level(r, N, H, child, q)
      /\ \A n \in N : Bad(r, n) => ~ Red(t, old) /\ n = child
  <2>1. Leaving(t, M, U, H, old, s)
    OBVIOUS
  <2>2. Level(r, N, H, child, q) /\ OnlyBad(r, N, ~ Red(t, old), child)
    BY <2>1, UnlinkLevel
  <2> QED BY <2>2 DEF OnlyBad
<1>2. Shape(t, M, U) /\ old \in M /\ s \in Sides /\ Other(s) \in Sides
  BY OtherSide DEF Leaving
<1>3. /\ M \subseteq Nodes /\ NULL \notin M /\ t.root \in M \cup {NULL}
      /\ child \in M \cup {NULL} /\ child # old /\ child # t.root
  <2>1. M \subseteq Nodes /\ NULL \notin M /\ t.root \in M \cup {NULL}
    BY <1>2, ShapeNodes
  <2>2. child \in M \cup {NULL} /\ (child # NULL => t.parent[child] = old)
    BY <1>2 DEF Shape
  <2>3. child # NULL => t.parent[child] # child /\ (t.parent[child] = NULL <=> child = t.root)
    BY <1>2, <2>2, PointsOnce
  <2>4. t.root # NULL
    BY <1>2, <2>1 DEF Shape
  <2> QED BY <1>2, <2>1, <2>2, <2>3, <2>4
<1>4. r.root = IF old = t.root THEN child ELSE t.root
  BY <1>2, <1>3, UnlinkIs
<1>5. p = NULL <=> old = t.root
  BY <1>2, PointsOnce
<1>6. child = r.root <=> p = NULL
  <2> HIDE DEF r, child, p
  <2> QED BY <1>3, <1>4, <1>5
<1>7. child \in N \cup {NULL} /\ NULL \notin N
  BY <1>3
<1>a. q = IF Red(t, old) THEN NULL ELSE p
  BY DEF MissedAt
<1> HIDE DEF N, child, r, p, q
<1>8. CASE Red(t, old)
  <2>1. Level(r, N, H, NULL, NULL)
    BY <1>1, <1>a, <1>7, <1>8, LevelAny
  <2> QED BY <1>1, <1>7, <1>8, <2>1 DEF LeftOver, N, child, r, p
<1>9. CASE ~ Red(t, old)
  <2>1. Level(r, N, H, child, IF child = r.root THEN NULL ELSE p)
    BY <1>1, <1>a, <1>6, <1>9
  <2> QED BY <1>1, <1>6, <1>7, <1>9, <2>1 DEF LeftOver, N, child, r, p
<1> QED BY <1>8, <1>9

(* A tree between two calls, and a node of it.                             *)
Settled(t, M, U, H, old) ==
  /\ Shape(t, M, U) /\ Level(t, M, H, NULL, NULL) /\ (\A n \in M : ~ Bad(t, n)) /\ old \in M

(* The parent of the node that went up when the successor left.            *)
SuccessorParent(t, old) ==
  LET e == Successor(t, old)
  IN  IF WithoutSuccessor(t, old).parent[e] = old THEN e ELSE t.parent[e]

(* A node with two kids.                                                   *)
LEMMA RemovedTwo ==
  ASSUME NEW t, NEW M, NEW U, NEW H, NEW old, Settled(t, M, U, H, old),
         NULL \notin {t.kid[s][old] : s \in Sides}
  PROVE  LET e == Successor(t, old)
             t1 == WithoutSuccessor(t, old)
         IN  LeftOver(Substitute(t1, old, e), M \ {old}, t.kid["right"][e],
                      SuccessorParent(t, old), ~ Red(t, e))
<1> DEFINE e == Successor(t, old)
           t1 == WithoutSuccessor(t, old)
           child == t.kid["right"][e]
           N == M \ {e}
           V == [n \in Links |-> U[n] \ {e}]
           r == Substitute(t1, old, e)
           k == t.kid["right"][old]
           p == t.parent[e]
           q == MissedAt(t, e)
           parent == SuccessorParent(t, old)
<1>1. /\ Shape(t, M, U) /\ Level(t, M, H, NULL, NULL) /\ (\A n \in M : ~ Bad(t, n)) /\ old \in M
  BY DEF Settled
<1>2. /\ e \in M /\ e # old /\ t.kid["left"][e] = NULL
      /\ child \in M \cup {NULL} /\ child # old /\ e \in U[old]
  BY <1>1, SuccessorIs
<1>3. /\ Shape(t1, N, V)
      /\ \A z \in Sides : \A m \in V[t1.kid[z][old]] : On(z, m, e)
      /\ \A n \in N, z \in Sides : old \in V[t1.kid[z][n]] => On(z, e, n)
  BY <1>1, SuccessorFits
<1>4. t1 = Unlink(t, e, child) /\ "left" \in Sides /\ "right" \in Sides /\ Other("left") = "right"
  BY DEF WithoutSuccessor, Sides, Other
<1>a. parent = IF t1.parent[e] = old THEN e ELSE p
  BY DEF SuccessorParent
<1> HIDE DEF e, V, parent
<1>5. /\ M \subseteq Nodes /\ NULL \notin M /\ t.root \in M
      /\ e # t.root /\ p \in M /\ p # e /\ p # NULL
      /\ child # e /\ child # t.root
  <2>1. M \subseteq Nodes /\ NULL \notin M /\ t.root \in M
    <3>1. M \subseteq Nodes /\ NULL \notin M /\ t.root \in M \cup {NULL}
      BY <1>1, ShapeNodes
    <3> QED BY <1>1, <3>1 DEF Shape
  <2>2. e # t.root
    <3>1. U[t.root] = M
      BY <1>1, ShapeNodes
    <3>2. \A m \in U[old] : old \in U[m] => m = old
      BY <1>1, ShapeApart
    <3> QED BY <1>1, <1>2, <3>1, <3>2
  <2>3. p \in M /\ p # e /\ p # NULL
    BY <1>1, <1>2, <2>2, ShapeParent
  <2>4. child # NULL => t.parent[child] = e /\ t.parent[child] # child
        /\ (t.parent[child] = NULL <=> child = t.root)
    <3>1. child # NULL => t.parent[child] = e
      BY <1>1, <1>2, <1>4 DEF Shape
    <3>2. child # NULL => t.parent[child] # child
        /\ (t.parent[child] = NULL <=> child = t.root)
      <4> HIDE DEF child
      <4> QED BY <1>1, <1>2, <1>4, <2>1, <3>1, PointsOnce
    <3> QED BY <3>1, <3>2
  <2> QED BY <1>2, <2>1, <2>2, <2>3, <2>4
<1>6. Level(t1, N, H, child, q) /\ OnlyBad(t1, N, ~ Red(t, e), child)
  <2>1. Leaving(t, M, U, H, e, "left")
    BY <1>1, <1>2, <1>4 DEF Leaving
  <2>2. LET c == t.kid[Other("left")][e]
            u == Unlink(t, e, c)
        IN  Level(u, M \ {e}, H, c, MissedAt(t, e)) /\ OnlyBad(u, M \ {e}, ~ Red(t, e), c)
    BY <2>1, UnlinkLevel
  <2> HIDE DEF q
  <2> QED BY <1>4, <2>2 DEF q
<1>7. t1.parent[e] = p /\ t1.root = t.root
  BY <1>1, <1>2, <1>4, <1>5, UnlinkIs
<1> HIDE DEF t1, child, N
<1>8. /\ old \in N /\ e \in Nodes /\ e \notin N /\ (N \ {old}) \cup {e} = M \ {old}
      /\ child \in N \cup {NULL}
  BY <1>1, <1>2, <1>5 DEF N
<1>9. \E W : Shape(r, M \ {old}, W)
  <2>1. \E W : Shape(Substitute(t1, old, e), (N \ {old}) \cup {e}, W)
    BY <1>3, <1>8, SubstituteShape
  <2> QED BY <1>8, <2>1
<1>10. /\ \E G : Level(r, M \ {old}, G, child, MovedTo(q, old, e))
       /\ \A n \in M \ {old} : Bad(r, n) => Bad(t1, IF n = e THEN old ELSE n)
  <2>1. Replacing(t1, N, V, H, old, e, child, q)
    BY <1>2, <1>3, <1>6, <1>8 DEF Replacing
  <2>2. \E W : Shape(Substitute(t1, old, e), (N \ {old}) \cup {e}, W)
    BY <1>8, <1>9
  <2> HIDE DEF q
  <2>3. LET r1 == Substitute(t1, old, e)
            N1 == (N \ {old}) \cup {e}
        IN  (\E G : Level(r1, N1, G, child, MovedTo(q, old, e))) /\ BadBefore(r1, N1, t1, old, e)
    BY <2>1, <2>2, SubstituteLevel
  <2> QED BY <1>8, <2>3 DEF BadBefore
<1>11. r.root = (IF old = t.root THEN e ELSE t.root)
  BY <1>3, <1>7, <1>8, SubstituteIs
<1> HIDE DEF r
<1>12. \A n \in M \ {old} : Bad(r, n) => ~ Red(t, e) /\ n = child
  <2> SUFFICES ASSUME NEW n \in M \ {old}, Bad(r, n) PROVE ~ Red(t, e) /\ n = child
    OBVIOUS
  <2>1. Bad(t1, IF n = e THEN old ELSE n)
    BY <1>10
  <2>2. (IF n = e THEN old ELSE n) \in N
    BY <1>8
  <2>3. ~ Red(t, e) /\ (IF n = e THEN old ELSE n) = child
    BY <1>6, <2>1, <2>2 DEF OnlyBad
  <2> QED BY <1>2, <2>3
<1>13. child # r.root /\ parent # NULL /\ child \in (M \ {old}) \cup {NULL} /\ NULL \notin M \ {old}
  BY <1>2, <1>5, <1>a, <1>7, <1>11
<1>14. q = IF Red(t, e) THEN NULL ELSE p
  BY DEF MissedAt
<1> HIDE DEF q, p
<1>15. CASE Red(t, e)
  <2>1. \E G : Level(r, M \ {old}, G, child, NULL)
    BY <1>1, <1>5, <1>10, <1>14, <1>15, NodesAssumption DEF MovedTo
  <2>2. \E G : Level(r, M \ {old}, G, NULL, NULL)
    BY <1>13, <2>1, LevelAny
  <2>3. LeftOver(r, M \ {old}, child, parent, ~ Red(t, e))
    <3> HIDE DEF parent
    <3> QED BY <1>12, <1>13, <1>15, <2>2 DEF LeftOver
  <2> QED BY <2>3 DEF r, child, parent, e, t1
<1>16. CASE ~ Red(t, e)
  <2>1. MovedTo(q, old, e) = parent
    BY <1>a, <1>7, <1>14, <1>16 DEF MovedTo
  <2>2. \E G : Level(r, M \ {old}, G, child, parent)
    BY <1>10, <2>1
  <2>3. LeftOver(r, M \ {old}, child, parent, ~ Red(t, e))
    <3> HIDE DEF parent
    <3> QED BY <1>12, <1>13, <1>16, <2>2 DEF LeftOver
  <2> QED BY <2>3 DEF r, child, parent, e, t1
<1> QED BY <1>15, <1>16 DEF e, t1

(* The two cases of Removed.                                               *)
LEMMA RemovedLeft ==
  ASSUME NEW t, NEW M, NEW U, NEW H, NEW old, Settled(t, M, U, H, old)
  PROVE  LET r == Removed(t, old)
         IN  /\ r.color \in Colors
             /\ LeftOver(r.t, M \ {old}, r.child, r.parent, r.color = "BLACK")
<1>1. /\ Shape(t, M, U) /\ Level(t, M, H, NULL, NULL) /\ (\A n \in M : ~ Bad(t, n)) /\ old \in M
  BY DEF Settled
<1>2. /\ M \subseteq Nodes /\ NULL \notin M /\ t \in RBTrees
  BY <1>1, ShapeNodes
<1>3. \A n \in M : t.color[n] \in Colors /\ (t.color[n] = "BLACK" <=> ~ Red(t, n))
  <2>1. \A n \in M : t.color[n] \in Colors
    BY <1>2, TreeType
  <2> QED BY <1>2, <2>1 DEF Colors, Red
<1>4. CASE NULL \in {t.kid[s][old] : s \in Sides}
  <2> DEFINE s == IF t.kid["left"][old] = NULL THEN "left" ELSE "right"
             child == t.kid[IF t.kid["left"][old] = NULL THEN "right" ELSE "left"][old]
  <2>1. s \in Sides /\ t.kid[s][old] = NULL /\ child = t.kid[Other(s)][old]
    BY <1>4 DEF Sides, Other
  <2>2. Removed(t, old) = [t |-> Unlink(t, old, child), child |-> child,
                           parent |-> t.parent[old], color |-> t.color[old]]
    BY <1>4, Zenon DEF Removed
  <2> HIDE DEF s, child
  <2>3. Leaving(t, M, U, H, old, s)
    BY <1>1, <2>1 DEF Leaving
  <2>4. LeftOver(Unlink(t, old, t.kid[Other(s)][old]), M \ {old}, t.kid[Other(s)][old],
                 t.parent[old], ~ Red(t, old))
    BY <2>3, RemovedOne
  <2>5. LeftOver(Unlink(t, old, child), M \ {old}, child, t.parent[old], t.color[old] = "BLACK")
    BY <1>1, <1>3, <2>1, <2>4
  <2> DEFINE u == Unlink(t, old, child)
  <2> HIDE DEF u
  <2>6. Removed(t, old) = [t |-> u, child |-> child,
                           parent |-> t.parent[old], color |-> t.color[old]]
    BY <2>2 DEF u
  <2>7. LeftOver(u, M \ {old}, child, t.parent[old], t.color[old] = "BLACK")
    BY <2>5 DEF u
  <2> QED BY <1>1, <1>3, <2>6, <2>7
<1>5. CASE NULL \notin {t.kid[s][old] : s \in Sides}
  <2> DEFINE e == Successor(t, old)
             t1 == WithoutSuccessor(t, old)
             child == t.kid["right"][e]
             u == Substitute(t1, old, e)
             p == SuccessorParent(t, old)
  <2>1. Removed(t, old) = [t |-> u, child |-> child, parent |-> p, color |-> t.color[e]]
    BY <1>5, Zenon DEF Removed, Successor, WithoutSuccessor, SuccessorParent
  <2>2. LeftOver(u, M \ {old}, child, p, ~ Red(t, e))
    BY <1>5, RemovedTwo
  <2>3. e \in M
    BY <1>1, <1>5, SuccessorIs
  <2> HIDE DEF e, child, u, p
  <2>4. LeftOver(u, M \ {old}, child, p, t.color[e] = "BLACK")
    BY <1>3, <2>2, <2>3
  <2> QED BY <1>3, <2>1, <2>3, <2>4
<1> QED BY <1>4, <1>5

(* Taking a node out keeps the invariant.                                  *)
LEMMA RemoveNodeKeeps ==
  ASSUME RBInv, rbpc = "ready", NEW old \in members, RemoveNode(old)
  PROVE  RBInv'
<1> DEFINE r == Removed(rb, old)
           N == members \ {old}
           t == Cleared(r.t, old)
<1>1. PICK U : Shape(rb, members, U)
  BY DEF RBInv
<1>2. PICK H : Level(rb, members, H, NULL, NULL)
  BY DEF RBInv, Lacking
<1>3. Settled(rb, members, U, H, old)
  <2>1. \A n \in members : ~ Bad(rb, n)
    BY DEF RBInv
  <2> QED BY <1>1, <1>2, <2>1 DEF Settled
<1>4. /\ r.color \in Colors
      /\ LeftOver(r.t, N, r.child, r.parent, r.color = "BLACK")
  BY <1>3, RemovedLeft
<1>5. PICK V : Shape(r.t, N, V)
  BY <1>1, RemovedShape
<1>6. /\ rb' = t /\ members' = N
      /\ IF r.color = "BLACK"
         THEN rbpc' = "remove_color" /\ elm' = r.child /\ par' = r.parent
         ELSE UNCHANGED <<rbpc, elm, par>>
  BY Zenon DEF RemoveNode
<1> HIDE DEF r
<1>7. N \subseteq Nodes /\ old \in Nodes /\ old \notin N /\ NULL \notin N
  <2>1. members \subseteq Nodes /\ NULL \notin members
    BY <1>1, ShapeNodes
  <2> QED BY <2>1
<1>8. /\ t \in RBTrees /\ t.root = r.t.root
      /\ \A n \in N : /\ t.parent[n] = r.t.parent[n] /\ t.color[n] = r.t.color[n]
                      /\ \A s \in Sides : t.kid[s][n] = r.t.kid[s][n]
  <2>1. r.t \in RBTrees /\ NULL \in Links /\ "BLACK" \in Colors
    BY <1>5, ShapeNodes DEF Colors
  <2> QED BY <1>7, <2>1, RBSetIs DEF Cleared
<1> HIDE DEF t, N
<1>9. Shape(t, N, V)
  BY <1>5, <1>8, SameShape
<1>10. /\ \A G, x, p : Level(r.t, N, G, x, p) => Level(t, N, G, x, p)
       /\ \A n \in N : Bad(t, n) => Bad(r.t, n)
  BY <1>5, <1>8, SameLevel
<1>11. CASE r.color = "BLACK"
  <2> DEFINE p == IF r.child = t.root THEN NULL ELSE r.parent
  <2>1. /\ r.child \in N \cup {NULL} /\ (r.child # t.root => r.parent # NULL)
        /\ \A n \in N : Bad(r.t, n) => n = r.child
    BY <1>4, <1>8, <1>11 DEF LeftOver
  <2>2. \E G : Level(r.t, N, G, r.child, p)
    BY <1>4, <1>8, <1>11 DEF LeftOver
  <2>3. Lacking' = p
    BY <1>6, <1>11 DEF Lacking
  <2> HIDE DEF p
  <2>4. \E G : Level(rb', members', G, elm', Lacking')
    BY <1>6, <1>10, <1>11, <2>2, <2>3
  <2>5. rbpc' = "remove_color" /\ elm' \in members' \cup {NULL}
        /\ (elm' # rb'.root => par' # NULL)
    BY <1>6, <1>11, <2>1
  <2>6. \E W : Shape(rb', members', W)
    BY <1>6, <1>9
  <2>7. \A n \in members' : Bad(rb', n) => n = elm'
    BY <1>6, <1>10, <1>11, <2>1
  <2> QED BY <2>4, <2>5, <2>6, <2>7 DEF RBInv
<1>12. CASE r.color # "BLACK"
  <2>1. rbpc' = "ready" /\ elm' = NULL /\ rb' = t /\ members' = N
    BY <1>6, <1>12 DEF RBInv
  <2>2. (\E G : Level(r.t, N, G, NULL, NULL)) /\ \A n \in N : ~ Bad(r.t, n)
    BY <1>4, <1>12 DEF LeftOver
  <2>3. (\E G : Level(t, N, G, NULL, NULL)) /\ \A n \in N : ~ Bad(t, n)
    BY <1>10, <2>2
  <2>4. \E W : Shape(t, N, W)
    BY <1>9
  <2> QED BY <2>1, <2>3, <2>4, ReadyInv
<1> QED BY <1>11, <1>12

(* A red node a is turned up past its parent e, which takes its colour, in *)
(* a tree where a black node is missing between p and x.                   *)
Turnable(t, M, U, H, x, p, e, s) ==
  /\ Shape(t, M, U) /\ Level(t, M, H, x, p) /\ (\A n \in M : ~ Bad(t, n))
  /\ e \in M /\ s \in Sides /\ t.kid[Other(s)][e] # NULL
  /\ Red(t, t.kid[Other(s)][e]) /\ ~ Red(t, t.kid[s][e]) /\ ~ Red(t, x)
  /\ x # e /\ p # t.kid[Other(s)][e]
  /\ e = p => t.kid[s][t.kid[Other(s)][e]] # x

(* The tree that rotation leaves.                                          *)
RedTurned(t, e, s) == RB_ROTATE(RB_SET_BLACKRED(t, t.kid[Other(s)][e], e), e, s)

(* Its links and colours.                                                  *)
RedTurnedAs(t, M, e, s) ==
  LET r == RedTurned(t, e, s)
        a == t.kid[Other(s)][e]
        inner == t.kid[s][a]
    IN  /\ \E V : Shape(r, M, V)
        /\ r.kid[s][e] = t.kid[s][e] /\ r.kid[Other(s)][e] = inner
        /\ r.kid[s][a] = e /\ r.kid[Other(s)][a] = t.kid[Other(s)][a]
        /\ \A n \in M \ {e, a}, z \in Sides :
             r.kid[z][n] = IF t.kid[z][n] = e THEN a ELSE t.kid[z][n]
        /\ Red(r, e) /\ ~ Red(r, a) /\ \A n \in M \ {e, a} : Red(r, n) <=> Red(t, n)

LEMMA RedTurnedIs ==
  ASSUME NEW t, NEW M, NEW U, NEW H, NEW x, NEW p, NEW e, NEW s, Turnable(t, M, U, H, x, p, e, s)
  PROVE  RedTurnedAs(t, M, e, s)
<1> DEFINE r == RedTurned(t, e, s)
           a == t.kid[Other(s)][e]
           t2 == RB_SET_BLACKRED(t, a, e)
<1>1. /\ Shape(t, M, U) /\ e \in M /\ s \in Sides /\ a # NULL
  BY DEF Turnable
<1>2. a \in M /\ a # e /\ e \in Nodes /\ a \in Nodes /\ t \in RBTrees /\ M \subseteq Nodes
      /\ NULL \notin M
  <2>1. a \in M /\ a # e
    <3>1. AroundIs(t, M, U, e, s)
      BY <1>1, Around
    <3> QED BY <1>1, <3>1 DEF AroundIs
  <2>2. M \subseteq Nodes /\ NULL \notin M /\ t \in RBTrees
    BY <1>1, ShapeNodes
  <2> QED BY <1>1, <2>1, <2>2
<1>3. /\ t2.kid = t.kid /\ t2.parent = t.parent /\ t2.root = t.root
      /\ \A n \in Nodes : t2.color[n] = IF n = e THEN "RED" ELSE IF n = a THEN "BLACK" ELSE t.color[n]
  <2> HIDE DEF a
  <2> QED BY <1>2, BlackRedIs
<1>4. Shape(t2, M, U)
  BY <1>1, <1>2, BlackRedShape
<1>5. r = RB_ROTATE(t2, e, s)
  BY DEF RedTurned
<1> HIDE DEF t2, r
<1>6. t2.kid[Other(s)][e] = a /\ t2.kid[Other(s)][e] # NULL
  BY <1>1, <1>3
<1>7. \E V : Shape(r, M, V)
  <2> DEFINE V == Turned(t2, U, e, s)
  <2>1. Shape(r, M, V)
    BY <1>1, <1>4, <1>5, <1>6, RotateShape
  <2> HIDE DEF V
  <2> QED BY <2>1
<1>8. r.color = t2.color
  BY <1>1, <1>4, <1>5, <1>6, RotateIs
<1>9. /\ r.kid[s][e] = t2.kid[s][e] /\ r.kid[Other(s)][e] = t2.kid[s][a]
      /\ r.kid[s][a] = e /\ r.kid[Other(s)][a] = t2.kid[Other(s)][a]
      /\ \A n \in M \ {e, a}, z \in Sides :
           r.kid[z][n] = IF t2.kid[z][n] = e THEN a ELSE t2.kid[z][n]
  <2>1. RotatedAs(t2, M, e, s)
    BY <1>1, <1>4, <1>5, <1>6, RotatedLinks
  <2> QED BY <1>5, <1>6, <2>1 DEF RotatedAs
<1>10. Red(r, e) /\ ~ Red(r, a) /\ \A n \in M \ {e, a} : Red(r, n) <=> Red(t, n)
  BY <1>1, <1>2, <1>3, <1>8 DEF Red
<1> HIDE DEF a
<1> QED BY <1>3, <1>7, <1>9, <1>10 DEF RedTurnedAs, r, a

(* No red node gets a red parent.                                          *)
LEMMA RedTurnedBad ==
  ASSUME NEW t, NEW M, NEW U, NEW H, NEW x, NEW p, NEW e, NEW s, Turnable(t, M, U, H, x, p, e, s)
  PROVE  \A n \in M : ~ Bad(RedTurned(t, e, s), n)
<1> DEFINE r == RedTurned(t, e, s)
           a == t.kid[Other(s)][e]
           inner == t.kid[s][a]
           outer == t.kid[Other(s)][a]
           near == t.kid[s][e]
           t2 == RB_SET_BLACKRED(t, a, e)
<1> SUFFICES ASSUME NEW n \in M, Bad(r, n) PROVE FALSE
  OBVIOUS
<1>1. /\ Shape(t, M, U) /\ (\A m \in M : ~ Bad(t, m)) /\ e \in M /\ s \in Sides /\ a # NULL
      /\ Red(t, a) /\ ~ Red(t, near)
  BY DEF Turnable
<1>2. a \in M /\ a # e /\ {inner, outer, near} \subseteq M \cup {NULL}
      /\ {e, a} \cap {inner, outer, near} = {}
  <2>1. AroundIs(t, M, U, e, s)
    BY <1>1, Around
  <2> QED BY <1>1, <2>1 DEF AroundIs
<1>3. M \subseteq Nodes /\ NULL \notin M /\ t \in RBTrees
  BY <1>1, ShapeNodes
<1>4. /\ t2.kid = t.kid /\ t2.parent = t.parent /\ t2.root = t.root
      /\ \A m \in Nodes : t2.color[m] = IF m = e THEN "RED" ELSE IF m = a THEN "BLACK" ELSE t.color[m]
  <2> HIDE DEF a
  <2>1. a \in Nodes /\ e \in Nodes
    BY <1>1, <1>2, <1>3
  <2> QED BY <1>3, <2>1, BlackRedIs
<1>5. Shape(t2, M, U)
  BY <1>1, <1>2, <1>3, BlackRedShape
<1>6. r = RB_ROTATE(t2, e, s)
  BY DEF RedTurned
<1> HIDE DEF t2, r
<1>7. t2.kid[Other(s)][e] = a /\ t2.kid[Other(s)][e] # NULL
  BY <1>1, <1>4
<1>8. /\ Red(t2, n)
      /\ \/ n = e /\ Red(t2, a)
         \/ n = a
         \/ n \in {near, inner}
         \/ n = outer /\ Red(t2, a)
         \/ n \notin {e, a, near, inner, outer} /\ t2.parent[n] \notin {e, a} /\ Bad(t2, n)
  <2>1. Bad(RB_ROTATE(t2, e, s), n)
    BY <1>6
  <2> HIDE DEF inner, near, outer
  <2>2. t2.kid[s][e] = near /\ t2.kid[s][a] = inner /\ t2.kid[Other(s)][a] = outer
    BY <1>4 DEF near, inner, outer
  <2> HIDE DEF a
  <2> QED BY <1>1, <1>5, <1>7, <2>1, <2>2, RotatedBad
<1>9. ~ Red(t2, a) /\ \A m \in M \ {e, a} : Red(t2, m) <=> Red(t, m)
  BY <1>1, <1>2, <1>3, <1>4 DEF Red
<1>10. n # near
  BY <1>1, <1>2, <1>8, <1>9
<1>11. n # inner
  <2> SUFFICES ASSUME n = inner PROVE FALSE
    OBVIOUS
  <2>1. Red(t, inner) /\ inner \in M
    BY <1>2, <1>8, <1>9
  <2>2. \A m \in M, z \in Sides : t.kid[z][m] # NULL => t.parent[t.kid[z][m]] = m
    BY <1>1 DEF Shape
  <2>3. t.parent[inner] = a
    BY <1>1, <1>2, <1>3, <2>1, <2>2
  <2> QED BY <1>1, <2>1, <2>3 DEF Bad
<1>12. n \notin {e, a} /\ t2.parent[n] \notin {e, a} /\ Bad(t2, n)
  BY <1>8, <1>9, <1>10, <1>11
<1>13. Bad(t, n)
  <2>1. Red(t, n) /\ (n = t.root \/ Red(t2, t.parent[n]))
    BY <1>4, <1>9, <1>12 DEF Bad
  <2>2. n # t.root => t.parent[n] \in M
    BY <1>1, ShapeParent
  <2> QED BY <1>4, <1>9, <1>12, <2>1, <2>2 DEF Bad
<1> QED BY <1>1, <1>13

(* The two heights are exchanged, and the black node is missing where it   *)
(* was.                                                                    *)
LEMMA RedTurnedLevel ==
  ASSUME NEW t, NEW M, NEW U, NEW H, NEW x, NEW p, NEW e, NEW s, Turnable(t, M, U, H, x, p, e, s)
  PROVE  \E G : Level(RedTurned(t, e, s), M, G, x, p)
<1> DEFINE r == RedTurned(t, e, s)
           o == Other(s)
           a == t.kid[o][e]
           inner == t.kid[s][a]
           outer == t.kid[o][a]
           near == t.kid[s][e]
           t2 == RB_SET_BLACKRED(t, a, e)
           G == [n \in Links |-> IF n = e THEN H[a] ELSE IF n = a THEN H[e] ELSE H[n]]
<1>1. /\ Shape(t, M, U) /\ Level(t, M, H, x, p) /\ (\A m \in M : ~ Bad(t, m))
      /\ e \in M /\ s \in Sides /\ a # NULL
      /\ Red(t, a) /\ ~ Red(t, near) /\ ~ Red(t, x) /\ x # e /\ p # a /\ (e = p => inner # x)
  BY DEF Turnable
<1>2. /\ a \in M /\ a # e /\ {inner, outer, near} \subseteq M \cup {NULL}
      /\ {e, a} \cap {inner, outer, near} = {} /\ t.parent[a] = e
  <2>1. AroundIs(t, M, U, e, s)
    BY <1>1, Around
  <2> QED BY <1>1, <2>1 DEF AroundIs
<1>3. /\ M \subseteq Nodes /\ NULL \notin M /\ t \in RBTrees /\ H \in [Links -> Nat] /\ H[NULL] = 0
      /\ M \subseteq Links /\ NULL \in Links
  BY <1>1, ShapeNodes, LevelType
<1>4. o \in Sides /\ o # s /\ \A z \in Sides : z = s \/ z = o
  BY <1>1, OtherSide
<1>5. ~ Red(t, e)
  BY <1>1, <1>2 DEF Bad
<1>6. /\ \E V : Shape(r, M, V)
      /\ r.kid[s][e] = near /\ r.kid[o][e] = inner /\ r.kid[s][a] = e /\ r.kid[o][a] = outer
      /\ \A n \in M \ {e, a}, z \in Sides :
           r.kid[z][n] = IF t.kid[z][n] = e THEN a ELSE t.kid[z][n]
      /\ Red(r, e) /\ ~ Red(r, a) /\ \A n \in M \ {e, a} : Red(r, n) <=> Red(t, n)
  <2>1. RedTurnedAs(t, M, e, s)
    BY RedTurnedIs
  <2> QED BY <2>1 DEF RedTurnedAs
<1> HIDE DEF r
<1>7. \A n \in M, z \in Sides :
        /\ H[n] \in Nat /\ H[t.kid[z][n]] \in Nat
        /\ H[n] = H[t.kid[z][n]] + ((IF Red(t, n) THEN 0 ELSE 1)
                                    + (IF n = p /\ t.kid[z][n] = x THEN 1 ELSE 0))
  BY <1>1, LevelHere
<1>8. /\ H[a] \in Nat /\ H[e] = H[a] + 1 /\ H[inner] = H[a] /\ H[outer] = H[a]
      /\ H[near] \in Nat /\ H[a] = H[near] + (IF e = p /\ near = x THEN 1 ELSE 0)
  <2>1. H[e] = H[a] + 1 /\ H[a] \in Nat
    <3>1. x # a
      BY <1>1
    <3> QED BY <1>1, <1>4, <1>5, <1>7, <3>1
  <2>2. H[inner] = H[a] /\ H[outer] = H[a]
    BY <1>1, <1>2, <1>4, <1>7
  <2>3. H[near] \in Nat /\ H[e] = H[near] + (1 + (IF e = p /\ near = x THEN 1 ELSE 0))
    BY <1>1, <1>5, <1>7
  <2> HIDE DEF near, a, inner, outer
  <2> QED BY <2>1, <2>2, <2>3
<1> HIDE DEF near, inner, outer, a, o
<1>9. /\ G \in [Links -> Nat] /\ G[e] = H[a] /\ G[a] = H[e] /\ G[NULL] = 0
      /\ \A n \in M \ {e, a} : G[n] = H[n]
  <2>1. \A n \in Links : H[n] \in Nat
    BY <1>3
  <2> QED BY <1>1, <1>2, <1>3, <2>1
<1> HIDE DEF G
<1>10. \A c \in M \cup {NULL} : c # e /\ c # a => G[c] = H[c]
  BY <1>3, <1>9
<1>11. p # NULL => p \in M /\ \E z \in Sides : r.kid[z][p] = x /\ r.kid[Other(z)][p] # x
  <2> HAVE p # NULL
  <2>1. p \in M
    BY <1>1 DEF Level
  <2>2. PICK z \in Sides : t.kid[z][p] = x /\ t.kid[Other(z)][p] # x
    BY <1>1 DEF Level
  <2>3. CASE p = e
    <3>1. z = s
      <4> SUFFICES ASSUME z = o PROVE FALSE
        BY <1>4
      <4> QED BY <1>1, <2>2, <2>3 DEF a
    <3>2. near = x
      BY <2>2, <2>3, <3>1 DEF near
    <3>3. r.kid[s][p] = x /\ r.kid[Other(s)][p] # x
      BY <1>1, <1>6, <2>3, <3>2 DEF o
    <3> QED BY <1>1, <2>1, <3>3
  <2>4. CASE p # e
    <3>1. Other(z) \in Sides /\ p \in M \ {e, a} /\ x # a
      BY <1>1, <2>1, <2>4, OtherSide
    <3>2. r.kid[z][p] = x
      BY <1>1, <1>6, <2>2, <3>1
    <3>3. r.kid[Other(z)][p] # x
      BY <1>1, <1>6, <2>2, <3>1
    <3> QED BY <2>1, <3>2, <3>3
  <2> QED BY <2>3, <2>4
<1>12. ASSUME NEW n \in M, NEW z \in Sides
       PROVE  G[n] = G[r.kid[z][n]] + ((IF Red(r, n) THEN 0 ELSE 1)
                                       + (IF n = p /\ r.kid[z][n] = x THEN 1 ELSE 0))
  <2>1. CASE n = e
    <3>1. CASE z = s
      <4>1. r.kid[z][n] = near /\ G[near] = H[near] /\ Red(r, n) /\ G[n] = H[a]
        BY <1>2, <1>6, <1>9, <1>10, <2>1, <3>1
      <4> QED BY <1>8, <2>1, <4>1
    <3>2. CASE z = o
      <4>1. r.kid[z][n] = inner /\ G[inner] = H[a] /\ Red(r, n) /\ G[n] = H[a]
        BY <1>2, <1>6, <1>8, <1>9, <1>10, <2>1, <3>2
      <4>2. ~ (n = p /\ r.kid[z][n] = x)
        BY <1>1, <2>1, <4>1
      <4> QED BY <1>8, <4>1, <4>2
    <3> QED BY <1>4, <3>1, <3>2
  <2>2. CASE n = a
    <3>1. (r.kid[z][n] = e \/ r.kid[z][n] = outer) /\ n # p /\ ~ Red(r, n) /\ G[n] = H[a] + 1
      BY <1>1, <1>4, <1>6, <1>8, <1>9, <2>2
    <3>2. G[e] = H[a] /\ G[outer] = H[a]
      BY <1>2, <1>8, <1>9, <1>10
    <3> QED BY <1>8, <3>1, <3>2
  <2>3. CASE n \notin {e, a}
    <3> DEFINE c == t.kid[z][n]
    <3>1. c \in M \cup {NULL} /\ c # a
      <4>1. c \in M \cup {NULL} /\ (c # NULL => t.parent[c] = n)
        BY <1>1 DEF Shape
      <4> QED BY <1>1, <1>2, <2>3, <4>1
    <3>2. r.kid[z][n] = (IF c = e THEN a ELSE c) /\ (Red(r, n) <=> Red(t, n)) /\ G[n] = H[n]
      BY <1>6, <1>9, <2>3
    <3>3. /\ H[n] \in Nat /\ H[c] \in Nat
          /\ H[n] = H[c] + ((IF Red(t, n) THEN 0 ELSE 1) + (IF n = p /\ c = x THEN 1 ELSE 0))
      BY <1>7
    <3> HIDE DEF c
    <3>4. G[r.kid[z][n]] = H[c]
      BY <1>9, <1>10, <3>1, <3>2
    <3>5. r.kid[z][n] = x <=> c = x
      BY <1>1, <3>1, <3>2
    <3> QED BY <3>2, <3>3, <3>4, <3>5
  <2> QED BY <2>1, <2>2, <2>3
<1>13. Level(r, M, G, x, p)
  <2>1. PICK V : Shape(r, M, V)
    BY <1>6
  <2> QED BY <1>9, <1>11, <1>12, <2>1, LevelBelow
<1> QED BY <1>13 DEF r

(* On side s of p, above x, a black node is missing.                       *)
Short(t, M, U, H, x, p, s) ==
  /\ Shape(t, M, U) /\ Level(t, M, H, x, p) /\ (\A n \in M : ~ Bad(t, n)) /\ ~ Red(t, x)
  /\ p \in M /\ s \in Sides /\ t.kid[s][p] = x /\ t.kid[Other(s)][p] # x

(* Then there is a sibling, and it has the height that x should have.      *)
SiblingIs(t, M, H, x, p, s) ==
  LET sib == t.kid[Other(s)][p]
  IN  /\ sib \in M /\ sib # NULL /\ sib # p /\ sib # x /\ t.parent[sib] = p
      /\ x \in M \cup {NULL} /\ x # p
      /\ H[x] \in Nat /\ H[sib] = H[x] + 1
      /\ H[p] = H[x] + (1 + (IF Red(t, p) THEN 0 ELSE 1))
      /\ \A z \in Sides : /\ t.kid[z][sib] \in M \cup {NULL}
                          /\ t.kid[z][sib] # x \/ x = NULL
                          /\ t.kid[z][sib] # p /\ t.kid[z][sib] # sib
                          /\ H[t.kid[z][sib]] \in Nat
                          /\ H[sib] = H[t.kid[z][sib]] + (IF Red(t, sib) THEN 0 ELSE 1)

LEMMA ShortSibling ==
  ASSUME NEW t, NEW M, NEW U, NEW H, NEW x, NEW p, NEW s, Short(t, M, U, H, x, p, s)
  PROVE  SiblingIs(t, M, H, x, p, s)
<1> DEFINE o == Other(s)
           sib == t.kid[o][p]
<1>1. /\ Shape(t, M, U) /\ Level(t, M, H, x, p) /\ p \in M /\ s \in Sides /\ t.kid[s][p] = x
      /\ sib # x
  BY DEF Short
<1>2. o \in Sides /\ o # s /\ Other(o) = s
  BY <1>1, OtherSide
<1>3. NULL \notin M /\ H[NULL] = 0
  BY <1>1, ShapeNodes, LevelType
<1>4. \A n \in M, z \in Sides :
        /\ H[n] \in Nat /\ H[t.kid[z][n]] \in Nat
        /\ H[n] = H[t.kid[z][n]] + ((IF Red(t, n) THEN 0 ELSE 1)
                                    + (IF n = p /\ t.kid[z][n] = x THEN 1 ELSE 0))
  BY <1>1, LevelHere
<1>5. \A n \in M, z \in Sides : /\ t.kid[z][n] \in M \cup {NULL}
                                /\ t.kid[z][n] # NULL => t.parent[t.kid[z][n]] = n
  BY <1>1 DEF Shape
<1>6. H[x] \in Nat /\ H[p] = H[x] + (1 + (IF Red(t, p) THEN 0 ELSE 1))
  <2>1. /\ H[p] \in Nat /\ H[t.kid[s][p]] \in Nat
        /\ H[p] = H[t.kid[s][p]] + ((IF Red(t, p) THEN 0 ELSE 1)
                                    + (IF p = p /\ t.kid[s][p] = x THEN 1 ELSE 0))
    BY <1>1, <1>4
  <2> QED BY <1>1, <2>1
<1>7. H[sib] = H[x] + 1
  <2>1. H[sib] \in Nat /\ H[p] = H[sib] + (IF Red(t, p) THEN 0 ELSE 1)
    BY <1>1, <1>2, <1>4
  <2> QED BY <1>6, <2>1
<1>8. sib \in M /\ sib # NULL
  <2>1. sib \in M \cup {NULL}
    BY <1>1, <1>2, <1>5
  <2> HIDE DEF sib
  <2> QED BY <1>3, <1>6, <1>7, <2>1
<1>9. t.parent[sib] = p /\ x \in M \cup {NULL} /\ (x # NULL => t.parent[x] = p)
  BY <1>1, <1>2, <1>5, <1>8
<1> HIDE DEF sib, o
<1>10. sib # p /\ p # x
  <2>1. \A n \in M : t.parent[n] # NULL => t.parent[n] # n
    BY <1>1, PointsOnce
  <2> QED BY <1>1, <1>3, <1>8, <1>9, <2>1
<1>11. ASSUME NEW z \in Sides
       PROVE  /\ t.kid[z][sib] \in M \cup {NULL}
              /\ t.kid[z][sib] # x \/ x = NULL
              /\ t.kid[z][sib] # p /\ t.kid[z][sib] # sib
              /\ H[t.kid[z][sib]] \in Nat
              /\ H[sib] = H[t.kid[z][sib]] + (IF Red(t, sib) THEN 0 ELSE 1)
  <2> DEFINE c == t.kid[z][sib]
  <2>1. c \in M \cup {NULL} /\ (c # NULL => t.parent[c] = sib)
    BY <1>5, <1>8
  <2>2. c # x \/ x = NULL
    BY <1>9, <1>10, <2>1
  <2>3. H[c] \in Nat /\ H[sib] = H[c] + (IF Red(t, sib) THEN 0 ELSE 1)
    BY <1>4, <1>8, <1>10
  <2>4. c # sib
    <3>1. c # NULL => t.parent[c] # c
      <4> HIDE DEF c
      <4>1. c \in M => (t.parent[c] # NULL => t.parent[c] # c)
        BY <1>1, PointsOnce
      <4> QED BY <1>8, <2>1, <4>1
    <3> QED BY <1>8, <2>1, <3>1
  <2>5. c # p
    <3> SUFFICES ASSUME c = p PROVE FALSE
      OBVIOUS
    <3>1. sib \in U[p] /\ p \in U[sib] /\ sib # p
      <4>1. U[t.kid[o][p]] \subseteq U[p] /\ sib \in U[sib]
        BY <1>1, <1>2, <1>8, ShapeSelf
      <4>2. U[t.kid[z][sib]] \subseteq U[sib] /\ p \in U[p]
        BY <1>1, <1>8, ShapeSelf
      <4> QED BY <1>10, <4>1, <4>2 DEF sib
    <3> QED BY <1>1, <3>1, ShapeApart
  <2> QED BY <2>1, <2>2, <2>3, <2>4, <2>5
<1> QED BY <1>6, <1>7, <1>8, <1>9, <1>10, <1>11, <1>1 DEF SiblingIs, sib, o

(* The black node is missing, and the sibling is black.                    *)
ShortBlack(t, M, U, H, x, p, s) ==
  Short(t, M, U, H, x, p, s) /\ ~ Red(t, t.kid[Other(s)][p])

(* A red sibling is turned away.                                           *)
LEMMA TurnSibling ==
  ASSUME NEW t, NEW M, NEW U, NEW H, NEW x, NEW p, NEW s, Short(t, M, U, H, x, p, s),
         Red(t, t.kid[Other(s)][p])
  PROVE  \E V, G : ShortBlack(RedTurned(t, p, s), M, V, G, x, p, s)
<1> DEFINE r == RedTurned(t, p, s)
           o == Other(s)
           sib == t.kid[o][p]
           inner == t.kid[s][sib]
<1>1. /\ Shape(t, M, U) /\ Level(t, M, H, x, p) /\ (\A n \in M : ~ Bad(t, n)) /\ ~ Red(t, x)
      /\ p \in M /\ s \in Sides /\ t.kid[s][p] = x /\ sib # x /\ Red(t, sib)
  BY DEF Short
<1>2. /\ sib \in M /\ sib # NULL /\ sib # p /\ sib # x /\ t.parent[sib] = p
      /\ x \in M \cup {NULL} /\ x # p
      /\ H[x] \in Nat /\ H[sib] = H[x] + 1
  <2>1. SiblingIs(t, M, H, x, p, s)
    BY ShortSibling
  <2> QED BY <2>1 DEF SiblingIs
<1>3. /\ inner \in M \cup {NULL} /\ (inner # x \/ x = NULL) /\ inner # p /\ inner # sib
      /\ H[inner] \in Nat /\ H[sib] = H[inner]
  <2>1. SiblingIs(t, M, H, x, p, s)
    BY ShortSibling
  <2>2. \A z \in Sides : /\ t.kid[z][sib] \in M \cup {NULL}
                         /\ t.kid[z][sib] # x \/ x = NULL
                         /\ t.kid[z][sib] # p /\ t.kid[z][sib] # sib
                         /\ H[t.kid[z][sib]] \in Nat
                         /\ H[sib] = H[t.kid[z][sib]] + (IF Red(t, sib) THEN 0 ELSE 1)
    BY <2>1 DEF SiblingIs
  <2> HIDE DEF r, o, sib
  <2> QED BY <1>1, <2>2
<1>4. H[NULL] = 0 /\ NULL \notin M
  BY <1>1, ShapeNodes, LevelType
<1>5. inner \in M /\ inner # x
  <2> HIDE DEF inner, sib
  <2> QED BY <1>2, <1>3, <1>4
<1>6. Turnable(t, M, U, H, x, p, p, s)
  BY <1>1, <1>2, <1>5 DEF Turnable
<1>7. /\ \E V : Shape(r, M, V)
      /\ r.kid[s][p] = x /\ r.kid[o][p] = inner
      /\ \A n \in M \ {p, sib} : Red(r, n) <=> Red(t, n)
  <2>1. RedTurnedAs(t, M, p, s)
    BY <1>6, RedTurnedIs
  <2> QED BY <1>1, <2>1 DEF RedTurnedAs
<1>8. \A n \in M : ~ Bad(r, n)
  BY <1>6, RedTurnedBad
<1>9. \E G : Level(r, M, G, x, p)
  BY <1>6, RedTurnedLevel
<1>10. ~ Red(t, inner)
  <2>1. t.parent[inner] = sib
    BY <1>1, <1>2, <1>4, <1>5 DEF Shape
  <2> QED BY <1>1, <1>5, <2>1 DEF Bad
<1> HIDE DEF r, inner, sib
<1>11. ~ Red(r, x) /\ ~ Red(r, inner)
  <2>1. x \in M => ~ Red(r, x)
    BY <1>1, <1>2, <1>7
  <2>2. x = NULL => ~ Red(r, x)
    BY DEF Red
  <2> QED BY <1>2, <1>3, <1>5, <1>7, <1>10, <2>1, <2>2
<1>12. PICK V, G : Shape(r, M, V) /\ Level(r, M, G, x, p)
  BY <1>7, <1>9
<1>13. ShortBlack(r, M, V, G, x, p, s)
  BY <1>1, <1>5, <1>7, <1>8, <1>11, <1>12 DEF ShortBlack, Short, o
<1> QED BY <1>13 DEF r

(* The sibling is black and so is its outer kid: the inner one is turned   *)
(* up, and the outer one is red then.                                      *)
LEMMA TurnNephew ==
  ASSUME NEW t, NEW M, NEW U, NEW H, NEW x, NEW p, NEW s, ShortBlack(t, M, U, H, x, p, s),
         Red(t, t.kid[s][t.kid[Other(s)][p]]), ~ Red(t, t.kid[Other(s)][t.kid[Other(s)][p]])
  PROVE  LET r == RedTurned(t, t.kid[Other(s)][p], Other(s))
         IN  /\ \E V, G : ShortBlack(r, M, V, G, x, p, s)
             /\ Red(r, r.kid[Other(s)][r.kid[Other(s)][p]])
<1> DEFINE o == Other(s)
           sib == t.kid[o][p]
           inner == t.kid[s][sib]
           outer == t.kid[o][sib]
           r == RedTurned(t, sib, o)
<1>1. /\ Shape(t, M, U) /\ Level(t, M, H, x, p) /\ (\A n \in M : ~ Bad(t, n)) /\ ~ Red(t, x)
      /\ p \in M /\ s \in Sides /\ t.kid[s][p] = x /\ sib # x /\ ~ Red(t, sib)
      /\ Red(t, inner) /\ ~ Red(t, outer) /\ Short(t, M, U, H, x, p, s)
  BY DEF ShortBlack, Short
<1>a. Short(t, M, U, H, x, p, s)
  BY DEF ShortBlack
<1>b. SiblingIs(t, M, H, x, p, s)
  BY <1>a, ShortSibling
<1>2. /\ sib \in M /\ sib # NULL /\ sib # p /\ sib # x /\ t.parent[sib] = p
      /\ x \in M \cup {NULL} /\ x # p
  BY <1>b DEF SiblingIs
<1>3. /\ inner \in M \cup {NULL} /\ (inner # x \/ x = NULL) /\ inner # p /\ inner # sib
  <2>1. \A z \in Sides : /\ t.kid[z][sib] \in M \cup {NULL}
                         /\ t.kid[z][sib] # x \/ x = NULL
                         /\ t.kid[z][sib] # p /\ t.kid[z][sib] # sib
    BY <1>b DEF SiblingIs
  <2>2. s \in Sides
    BY <1>1
  <2> HIDE DEF sib
  <2> QED BY <2>1, <2>2
<1>4. o \in Sides /\ Other(o) = s /\ o # s
  BY <1>1, OtherSide
<1>5. inner # NULL
  BY <1>1 DEF Red
<1>6. Turnable(t, M, U, H, x, p, sib, o)
  <2>1. x # inner
    BY <1>1
  <2> QED BY <1>1, <1>2, <1>3, <1>4, <1>5, <2>1 DEF Turnable
<1>7. /\ \E V : Shape(r, M, V)
      /\ r.kid[Other(o)][sib] = t.kid[o][inner] /\ r.kid[o][inner] = sib
      /\ \A n \in M \ {sib, inner}, z \in Sides :
           r.kid[z][n] = IF t.kid[z][n] = sib THEN inner ELSE t.kid[z][n]
      /\ Red(r, sib) /\ ~ Red(r, inner) /\ \A n \in M \ {sib, inner} : Red(r, n) <=> Red(t, n)
  <2>1. t.kid[Other(o)][sib] = inner
    BY <1>4
  <2> HIDE DEF inner, sib, o
  <2>2. RedTurnedAs(t, M, sib, o)
    BY <1>6, RedTurnedIs
  <2> QED BY <2>1, <2>2 DEF RedTurnedAs
<1>8. \A n \in M : ~ Bad(r, n)
  BY <1>6, RedTurnedBad
<1>9. \E G : Level(r, M, G, x, p)
  BY <1>6, RedTurnedLevel
<1>10. r.kid[s][p] = x /\ r.kid[o][p] = inner
  <2>1. p \in M \ {sib, inner} /\ t.kid[o][p] = sib
    BY <1>1, <1>2, <1>3
  <2> HIDE DEF r, inner, sib
  <2> QED BY <1>1, <1>2, <1>4, <1>7, <2>1
<1>11. ~ Red(r, x)
  <2>1. x \in M => x # sib /\ x # inner
    BY <1>1, <1>2
  <2> HIDE DEF r, inner, sib
  <2>2. x \in M => ~ Red(r, x)
    BY <1>1, <1>7, <2>1
  <2>3. x = NULL => ~ Red(r, x)
    BY DEF Red
  <2> QED BY <1>2, <2>2, <2>3
<1>12. inner # x
  BY <1>1
<1> HIDE DEF r, inner, sib
<1>13. PICK V, G : Shape(r, M, V) /\ Level(r, M, G, x, p)
  BY <1>7, <1>9
<1>14. ShortBlack(r, M, V, G, x, p, s)
  BY <1>1, <1>7, <1>8, <1>10, <1>11, <1>12, <1>13 DEF ShortBlack, Short, o
<1>15. Red(r, r.kid[o][r.kid[o][p]])
  BY <1>7, <1>10
<1> QED BY <1>14, <1>15 DEF r, o, sib

(* The sibling and its kids are black: the sibling turns red, and the      *)
(* black node is missing above the parent.                                 *)
LEMMA SiblingPaints ==
  ASSUME NEW t, NEW M, NEW U, NEW H, NEW x, NEW p, NEW s, ShortBlack(t, M, U, H, x, p, s),
         \A z \in Sides : ~ Red(t, t.kid[z][t.kid[Other(s)][p]])
  PROVE  LET r == Paint(t, t.kid[Other(s)][p], "RED")
         IN  /\ Shape(r, M, U) /\ r.root = t.root /\ r.parent = t.parent
             /\ \E G : Level(r, M, G, p, t.parent[p])
             /\ \A n \in M : Bad(r, n) => n # t.root /\ t.parent[n] = p
<1> DEFINE o == Other(s)
           sib == t.kid[o][p]
           q == t.parent[p]
           r == Paint(t, sib, "RED")
<1>a. Short(t, M, U, H, x, p, s)
  BY DEF ShortBlack
<1>1. /\ Shape(t, M, U) /\ Level(t, M, H, x, p) /\ (\A n \in M : ~ Bad(t, n))
      /\ p \in M /\ s \in Sides /\ t.kid[s][p] = x /\ sib # x /\ ~ Red(t, sib)
      /\ \A z \in Sides : ~ Red(t, t.kid[z][sib])
  BY DEF ShortBlack, Short
<1>2. /\ sib \in M /\ sib # NULL /\ sib # p /\ sib # x /\ t.parent[sib] = p
      /\ x \in M \cup {NULL} /\ x # p
      /\ H[x] \in Nat /\ H[sib] = H[x] + 1
      /\ H[p] = H[x] + (1 + (IF Red(t, p) THEN 0 ELSE 1))
  <2>1. SiblingIs(t, M, H, x, p, s)
    BY <1>a, ShortSibling
  <2> QED BY <1>a, <2>1 DEF SiblingIs
<1>3. \A z \in Sides : /\ t.kid[z][sib] \in M \cup {NULL}
                       /\ t.kid[z][sib] # p /\ t.kid[z][sib] # sib
                       /\ H[t.kid[z][sib]] = H[x]
  <2> TAKE z \in Sides
  <2> DEFINE c == t.kid[z][sib]
  <2>1. /\ c \in M \cup {NULL} /\ c # p /\ c # sib
        /\ H[c] \in Nat /\ H[sib] = H[c] + (IF Red(t, sib) THEN 0 ELSE 1)
    <3>1. SiblingIs(t, M, H, x, p, s)
      BY <1>a, ShortSibling
    <3> QED BY <1>a, <3>1 DEF SiblingIs
  <2> HIDE DEF c
  <2>2. H[c] = H[x]
    BY <1>1, <1>2, <2>1
  <2> QED BY <2>1, <2>2 DEF c
<1>4. o \in Sides /\ Other(o) = s /\ o # s /\ \A z \in Sides : z = s \/ z = o
  BY <1>1, OtherSide
<1>5. /\ M \subseteq Nodes /\ NULL \notin M /\ t \in RBTrees /\ H \in [Links -> Nat] /\ H[NULL] = 0
      /\ M \subseteq Links /\ NULL \in Links
  BY <1>1, ShapeNodes, LevelType
<1>6. /\ q # NULL => /\ q \in M /\ q # p
                     /\ \E z \in Sides : t.kid[z][q] = p /\ t.kid[Other(z)][q] # p
      /\ \A a \in M, z \in Sides : t.kid[z][a] = p => a = q
  BY <1>1, PointsOnce
<1>7. \A n \in M, z \in Sides : /\ t.kid[z][n] \in M \cup {NULL}
                                /\ t.kid[z][n] # NULL => t.parent[t.kid[z][n]] = n
  BY <1>1 DEF Shape
<1>b. t.kid[o][p] = sib
  OBVIOUS
<1> HIDE DEF sib, q
<1>8. /\ r \in RBTrees /\ r.kid = t.kid /\ r.parent = t.parent /\ r.root = t.root
      /\ \A a \in Nodes : r.color[a] = IF a = sib THEN "RED" ELSE t.color[a]
  <2>1. "RED" \in Colors /\ sib \in Nodes
    BY <1>2, <1>5 DEF Colors
  <2> QED BY <1>5, <2>1, PaintIs
<1> HIDE DEF r, o
<1>9. Shape(r, M, U)
  BY <1>1, <1>8, SameShape
<1>10. Red(r, sib) /\ \A n \in M \ {sib} : Red(r, n) <=> Red(t, n)
  BY <1>2, <1>5, <1>8 DEF Red
<1>11. ASSUME NEW n \in M, Bad(r, n) PROVE n # t.root /\ t.parent[n] = p
  <2>1. Red(r, n) /\ (n = t.root \/ Red(r, t.parent[n]))
    BY <1>8, <1>11 DEF Bad
  <2>2. CASE n = sib
    <3>1. t.root # NULL => t.parent[t.root] = NULL
      BY <1>1 DEF Shape
    <3> QED BY <1>1, <1>2, <1>5, <2>2, <3>1
  <2>3. CASE n # sib
    <3>1. Red(t, n)
      BY <1>10, <2>1, <2>3
    <3>2. n # t.root /\ ~ Red(t, t.parent[n])
      BY <1>1, <3>1 DEF Bad
    <3>3. t.parent[n] \in M
      BY <1>1, <3>2, ShapeParent
    <3>4. t.parent[n] = sib
      BY <1>10, <2>1, <3>2, <3>3
    <3>5. \E z \in Sides : t.kid[z][sib] = n
      BY <1>1, <3>2, <3>4, ShapeParent
    <3> QED BY <1>1, <3>1, <3>5
  <2> QED BY <2>2, <2>3
<1>12. \E G : Level(r, M, G, p, q)
  <2> DEFINE G == [n \in Links |-> IF n = sib THEN H[x] ELSE IF n = p THEN H[p] - 1 ELSE H[n]]
  <2>1. /\ G \in [Links -> Nat] /\ G[sib] = H[x] /\ G[p] = H[p] - 1 /\ G[NULL] = 0
        /\ \A n \in M \cup {NULL} : n # sib /\ n # p => G[n] = H[n]
    <3>1. \A n \in Links : H[n] \in Nat
      BY <1>5
    <3>2. H[p] - 1 \in Nat
      BY <1>2
    <3> QED BY <1>1, <1>2, <1>5, <3>1, <3>2
  <2> HIDE DEF G
  <2>2. \A n \in M, z \in Sides :
          /\ H[n] \in Nat /\ H[t.kid[z][n]] \in Nat
          /\ H[n] = H[t.kid[z][n]] + ((IF Red(t, n) THEN 0 ELSE 1)
                                      + (IF n = p /\ t.kid[z][n] = x THEN 1 ELSE 0))
    BY <1>1, LevelHere
  <2>3. ASSUME NEW n \in M, NEW z \in Sides
        PROVE  G[n] = G[r.kid[z][n]] + ((IF Red(r, n) THEN 0 ELSE 1)
                                        + (IF n = q /\ r.kid[z][n] = p THEN 1 ELSE 0))
    <3> DEFINE c == t.kid[z][n]
    <3>1. r.kid[z][n] = c /\ c \in M \cup {NULL} /\ (c = p => n = q)
      BY <1>6, <1>7, <1>8
    <3>2. /\ H[n] \in Nat /\ H[c] \in Nat
          /\ H[n] = H[c] + ((IF Red(t, n) THEN 0 ELSE 1) + (IF n = p /\ c = x THEN 1 ELSE 0))
      BY <2>2
    <3>3. CASE n = sib
      <4>1. c # p /\ c # sib /\ H[c] = H[x]
        BY <1>3, <3>3
      <4> HIDE DEF c
      <4>2. G[c] = H[x] /\ G[n] = H[x] /\ Red(r, n)
        BY <1>10, <2>1, <3>1, <3>3, <4>1
      <4> QED BY <1>2, <3>1, <4>1, <4>2
    <3>4. CASE n = p
      <4>1. c = x \/ c = sib
        BY <1>1, <1>4, <1>b, <3>4
      <4> HIDE DEF c
      <4>2. c # p
        BY <1>2, <4>1
      <4>3. G[c] = H[x]
        BY <1>2, <2>1, <4>1
      <4>4. Red(r, n) <=> Red(t, p)
        BY <1>1, <1>2, <1>10, <3>4
      <4> QED BY <1>2, <2>1, <3>1, <3>4, <4>2, <4>3, <4>4
    <3>5. CASE n # sib /\ n # p
      <4>1. c # sib
        BY <1>2, <1>5, <1>7, <3>5
      <4> HIDE DEF c
      <4>2. (Red(r, n) <=> Red(t, n)) /\ G[n] = H[n]
        BY <1>10, <2>1, <3>5
      <4>3. CASE c = p
        BY <1>2, <2>1, <3>1, <3>2, <3>5, <4>2, <4>3
      <4>4. CASE c # p
        <5>1. G[c] = H[c]
          BY <2>1, <3>1, <4>1, <4>4
        <5> QED BY <3>1, <3>2, <3>5, <4>2, <4>4, <5>1
      <4> QED BY <4>3, <4>4
    <3> QED BY <3>3, <3>4, <3>5
  <2>4. q # NULL => q \in M /\ \E z \in Sides : r.kid[z][q] = p /\ r.kid[Other(z)][q] # p
    BY <1>6, <1>8
  <2>5. Level(r, M, G, p, q)
    BY <1>9, <2>1, <2>3, <2>4, LevelBelow
  <2> QED BY <2>5
<1> QED BY <1>8, <1>9, <1>11, <1>12 DEF r, sib, o, q

(* The sibling is black and its outer kid red: the sibling goes up in the  *)
(* colour of the parent, and the parent and the outer kid turn black.      *)
LastPaint(t, p, s) ==
  LET top == t.kid[Other(s)][p]
  IN  Paint(Paint(Paint(t, top, t.color[p]), p, "BLACK"), t.kid[Other(s)][top], "BLACK")

LEMMA LastTurn ==
  ASSUME NEW t, NEW M, NEW U, NEW H, NEW x, NEW p, NEW s, ShortBlack(t, M, U, H, x, p, s),
         Red(t, t.kid[Other(s)][t.kid[Other(s)][p]])
  PROVE  LET r == RB_ROTATE(LastPaint(t, p, s), p, s)
         IN  /\ \E V : Shape(r, M, V)
             /\ \E G : Level(r, M, G, NULL, NULL)
             /\ \A n \in M : ~ Bad(r, n)
<1> DEFINE o == Other(s)
           top == t.kid[o][p]
           inner == t.kid[s][top]
           outer == t.kid[o][top]
           q == t.parent[p]
           t2 == LastPaint(t, p, s)
           r == RB_ROTATE(t2, p, s)
<1>a. Short(t, M, U, H, x, p, s)
  BY DEF ShortBlack
<1>1. /\ Shape(t, M, U) /\ Level(t, M, H, x, p) /\ (\A n \in M : ~ Bad(t, n)) /\ ~ Red(t, x)
      /\ p \in M /\ s \in Sides /\ t.kid[s][p] = x /\ top # x /\ ~ Red(t, top) /\ Red(t, outer)
  BY DEF ShortBlack, Short
<1>2. /\ top \in M /\ top # NULL /\ top # p /\ top # x /\ t.parent[top] = p
      /\ x \in M \cup {NULL} /\ x # p
      /\ H[x] \in Nat /\ H[top] = H[x] + 1
      /\ H[p] = H[x] + (1 + (IF Red(t, p) THEN 0 ELSE 1))
  <2>1. SiblingIs(t, M, H, x, p, s)
    BY <1>a, ShortSibling
  <2> QED BY <1>a, <2>1 DEF SiblingIs
<1>3. o \in Sides /\ Other(o) = s /\ o # s /\ \A z \in Sides : z = s \/ z = o
  BY <1>1, OtherSide
<1>4. /\ {inner, outer} \subseteq M \cup {NULL} /\ outer # x
      /\ {p, top} \cap {inner, outer} = {} /\ inner # outer
      /\ H[inner] = H[x] /\ H[outer] = H[x] /\ outer # NULL
  <2>1. \A z \in Sides : /\ t.kid[z][top] \in M \cup {NULL}
                         /\ t.kid[z][top] # x \/ x = NULL
                         /\ t.kid[z][top] # p /\ t.kid[z][top] # top
                         /\ H[t.kid[z][top]] \in Nat
                         /\ H[top] = H[t.kid[z][top]] + (IF Red(t, top) THEN 0 ELSE 1)
    <3>1. SiblingIs(t, M, H, x, p, s)
      BY <1>a, ShortSibling
    <3> QED BY <1>a, <3>1 DEF SiblingIs
  <2>2. H[top] = H[inner] + 1 /\ H[top] = H[outer] + 1 /\ H[inner] \in Nat /\ H[outer] \in Nat
    BY <1>1, <1>3, <2>1
  <2>3. outer # NULL
    BY <1>1 DEF Red
  <2>4. inner # NULL => inner # outer
    <3>1. t.kid[Other(s)][p] # NULL
      BY <1>2
    <3> QED
      <4>1. AroundIs(t, M, U, p, s)
        BY <1>1, <3>1, Around
      <4> QED BY <1>1, <3>1, <4>1 DEF AroundIs
  <2>5. H[inner] = H[x] /\ H[outer] = H[x]
    <3> HIDE DEF inner, outer, top
    <3> QED BY <1>2, <2>2
  <2>6. /\ inner \in M \cup {NULL} /\ outer \in M \cup {NULL} /\ (outer # x \/ x = NULL)
        /\ inner # p /\ outer # p /\ inner # top /\ outer # top
    BY <1>1, <1>3, <2>1
  <2> HIDE DEF inner, outer, top
  <2> QED BY <2>3, <2>4, <2>5, <2>6
<1>5. /\ M \subseteq Nodes /\ NULL \notin M /\ t \in RBTrees /\ H \in [Links -> Nat] /\ H[NULL] = 0
      /\ M \subseteq Links /\ NULL \in Links
  BY <1>1, ShapeNodes, LevelType
<1>6. /\ t2 \in RBTrees /\ t2.kid = t.kid /\ t2.parent = t.parent /\ t2.root = t.root
      /\ \A a \in Nodes : t2.color[a] = IF a = outer \/ a = p THEN "BLACK"
                                        ELSE IF a = top THEN t.color[p] ELSE t.color[a]
  <2> DEFINE c == t.color[p]
             u == Paint(t, top, c)
             v == Paint(u, p, "BLACK")
             w == Paint(v, outer, "BLACK")
  <2>1. c \in Colors /\ "BLACK" \in Colors /\ p \in Nodes /\ top \in Nodes /\ outer \in Nodes
    <3>1. p \in Nodes /\ top \in Nodes /\ outer \in Nodes
      BY <1>1, <1>2, <1>4, <1>5
    <3> QED BY <1>5, <3>1, TreeType DEF Colors
  <2>2. t2 = w
    BY Zenon DEF LastPaint
  <2> HIDE DEF t2, outer, top, c
  <2>3. /\ u \in RBTrees /\ u.kid = t.kid /\ u.parent = t.parent /\ u.root = t.root
        /\ \A a \in Nodes : u.color[a] = IF a = top THEN c ELSE t.color[a]
    BY <1>5, <2>1, PaintIs
  <2> HIDE DEF u
  <2>4. /\ v \in RBTrees /\ v.kid = u.kid /\ v.parent = u.parent /\ v.root = u.root
        /\ \A a \in Nodes : v.color[a] = IF a = p THEN "BLACK" ELSE u.color[a]
    BY <2>1, <2>3, PaintIs
  <2> HIDE DEF v
  <2>5. /\ w \in RBTrees /\ w.kid = v.kid /\ w.parent = v.parent /\ w.root = v.root
        /\ \A a \in Nodes : w.color[a] = IF a = outer THEN "BLACK" ELSE v.color[a]
    BY <2>1, <2>4, PaintIs
  <2> HIDE DEF w
  <2> QED BY <2>2, <2>3, <2>4, <2>5 DEF c
<1> HIDE DEF t2
<1>7. Shape(t2, M, U)
  BY <1>1, <1>6, SameShape
<1>8. t2.kid[Other(s)][p] = top /\ t2.kid[Other(s)][p] # NULL
  BY <1>2, <1>6
<1>9. \E V : Shape(r, M, V)
  <2> DEFINE V == Turned(t2, U, p, s)
  <2>1. Shape(r, M, V)
    BY <1>1, <1>7, <1>8, RotateShape
  <2> HIDE DEF V
  <2> QED BY <2>1
<1>10. r.color = t2.color
  BY <1>1, <1>7, <1>8, RotateIs
<1>11. r.kid[s][p] = x /\ r.kid[o][p] = inner /\ r.kid[s][top] = p /\ r.kid[o][top] = outer
  <2>1. /\ r.kid[s][p] = t2.kid[s][p] /\ r.kid[Other(s)][p] = t2.kid[s][t2.kid[Other(s)][p]]
        /\ r.kid[s][t2.kid[Other(s)][p]] = p
        /\ r.kid[Other(s)][t2.kid[Other(s)][p]] = t2.kid[Other(s)][t2.kid[Other(s)][p]]
    <3>1. p \in M /\ s \in Sides
      BY <1>1
    <3>2. RotatedAs(t2, M, p, s)
      BY <1>7, <1>8, <3>1, RotatedLinks
    <3> QED BY <3>2 DEF RotatedAs
  <2>2. t2.kid = t.kid
    BY <1>6
  <2> HIDE DEF r
  <2> QED BY <1>1, <2>1, <2>2
<1>12. /\ ~ Red(t2, p) /\ ~ Red(t2, outer) /\ (Red(t2, top) <=> Red(t, p))
       /\ \A n \in M \ {p, top, outer} : Red(t2, n) <=> Red(t, n)
  <2>1. p \in Nodes /\ top \in Nodes /\ outer \in Nodes /\ top # outer /\ p # NULL
    BY <1>1, <1>2, <1>4, <1>5
  <2> HIDE DEF outer, top, inner
  <2> QED BY <1>2, <1>5, <1>6, <2>1 DEF Red
<1>13. ASSUME NEW n \in M, Bad(r, n) PROVE FALSE
  <2>1. /\ Red(t2, n)
        /\ \/ n = p
           \/ n = top /\ (p = t2.root \/ Red(t2, t2.parent[p]))
           \/ n \in {x, inner} /\ Red(t2, p)
           \/ n = outer
           \/ n \notin {p, top, x, inner, outer} /\ t2.parent[n] \notin {p, top} /\ Bad(t2, n)
    <3>1. t2.kid[s][p] = x /\ t2.kid[s][top] = inner /\ t2.kid[Other(s)][top] = outer
      BY <1>1, <1>6
    <3> HIDE DEF inner, outer, top
    <3> QED BY <1>1, <1>7, <1>8, <1>13, <3>1, RotatedBad
  <2>2. CASE n = top
    <3>1. Red(t, p) /\ p # t.root /\ ~ Red(t, q)
      BY <1>1, <1>12, <2>1, <2>2 DEF Bad
    <3>2. Red(t2, q)
      BY <1>6, <1>12, <1>2, <2>1, <2>2, <3>1
    <3>3. q \in M /\ q # p
      BY <1>1, <3>1, ShapeParent
    <3>4. q # top
      <4>1. t.parent[p] # t.kid[Other(s)][p]
        <5>1. t.kid[Other(s)][p] # NULL
          BY <1>2
        <5> QED
          <6>1. AroundIs(t, M, U, p, s)
            BY <1>1, <5>1, Around
          <6> QED BY <1>1, <5>1, <6>1 DEF AroundIs
      <4> QED BY <4>1
    <3> QED BY <1>12, <3>1, <3>2, <3>3, <3>4
  <2>3. CASE n # top
    <3>1. n \notin {p, top, outer} /\ t.parent[n] \notin {p, top} /\ Bad(t2, n) /\ Red(t, n)
      BY <1>6, <1>12, <2>1, <2>3
    <3>2. n = t.root \/ Red(t2, t.parent[n])
      BY <1>6, <3>1 DEF Bad
    <3>3. n # t.root => t.parent[n] \in M
      BY <1>1, ShapeParent
    <3>4. n # t.root => Red(t, t.parent[n])
      BY <1>12, <3>1, <3>2, <3>3
    <3> QED BY <1>1, <3>1, <3>4 DEF Bad
  <2> QED BY <2>2, <2>3
<1>14. \E G : Level(r, M, G, NULL, NULL)
  <2> DEFINE G == [n \in Links |-> IF n = top THEN H[p] ELSE IF n = p \/ n = outer THEN H[x] + 1 ELSE H[n]]
  <2>1. /\ G \in [Links -> Nat] /\ G[top] = H[p] /\ G[p] = H[x] + 1 /\ G[outer] = H[x] + 1
        /\ G[NULL] = 0
        /\ \A n \in M \cup {NULL} : n \notin {p, top, outer} => G[n] = H[n]
    <3>1. \A n \in Links : H[n] \in Nat
      BY <1>5
    <3>2. H[x] + 1 \in Nat /\ top \in Links /\ p \in Links /\ outer \in Links /\ top # outer
      BY <1>1, <1>2, <1>4, <1>5
    <3> HIDE DEF top, outer
    <3> QED BY <1>1, <1>2, <1>4, <1>5, <3>1, <3>2
  <2> HIDE DEF G
  <2>2. \A n \in M, z \in Sides :
          /\ H[n] \in Nat /\ H[t.kid[z][n]] \in Nat
          /\ H[n] = H[t.kid[z][n]] + ((IF Red(t, n) THEN 0 ELSE 1)
                                      + (IF n = p /\ t.kid[z][n] = x THEN 1 ELSE 0))
    BY <1>1, LevelHere
  <2>3. \A n \in M \ {p, top}, z \in Sides : G[r.kid[z][n]] = H[t.kid[z][n]]
    <3>1. t2.kid[Other(s)][top] = outer
      BY <1>6
    <3> HIDE DEF outer, top
    <3>2. Carried(t2, M, p, s, H, G)
      BY <1>5, <1>8, <2>1, <3>1 DEF Carried
    <3>3. \A n \in M \ {p, t2.kid[Other(s)][p]}, z \in Sides :
            G[RB_ROTATE(t2, p, s).kid[z][n]] = H[t2.kid[z][n]]
      BY <1>1, <1>7, <1>8, <3>2, RotatedHeights
    <3> QED BY <1>6, <1>8, <3>3
  <2> HIDE DEF r
  <2>4. \A n : Red(r, n) <=> Red(t2, n)
    BY <1>10 DEF Red
  <2>b. {x, inner} \subseteq M \cup {NULL} /\ x \notin {p, top, outer} /\ inner \notin {p, top, outer}
    BY <1>1, <1>2, <1>4
  <2> HIDE DEF outer, top, inner, o
  <2>5. G[x] = H[x] /\ G[inner] = H[x]
    BY <1>4, <2>1, <2>b
  <2>6. ASSUME NEW n \in M, NEW z \in Sides
        PROVE  G[n] = G[r.kid[z][n]] + (IF Red(r, n) THEN 0 ELSE 1)
    <3>1. CASE n = p
      <4>1. G[r.kid[z][n]] = H[x] /\ ~ Red(r, n) /\ G[n] = H[x] + 1
        BY <1>3, <1>11, <1>12, <2>1, <2>4, <2>5, <3>1
      <4> QED BY <1>2, <4>1
    <3>2. CASE n = top
      <4>1. G[r.kid[z][n]] = H[x] + 1 /\ (Red(r, n) <=> Red(t, p)) /\ G[n] = H[p]
        BY <1>3, <1>11, <1>12, <2>1, <2>4, <3>2
      <4> QED BY <1>2, <4>1
    <3>3. CASE n \notin {p, top}
      <4> DEFINE c == t.kid[z][n]
      <4>1. G[r.kid[z][n]] = H[c]
        BY <2>3, <3>3
      <4>2. H[n] \in Nat /\ H[c] \in Nat /\ H[n] = H[c] + (IF Red(t, n) THEN 0 ELSE 1)
        BY <2>2, <3>3
      <4> HIDE DEF c
      <4>3. CASE n = outer
        <5>1. Red(t, n) /\ ~ Red(r, n) /\ G[n] = H[n] + 1
          BY <1>1, <1>4, <1>12, <2>1, <2>4, <4>3
        <5> QED BY <4>1, <4>2, <5>1
      <4>4. CASE n # outer
        <5>1. (Red(t, n) <=> Red(r, n)) /\ G[n] = H[n]
          BY <1>12, <2>1, <2>4, <3>3, <4>4
        <5> QED BY <4>1, <4>2, <5>1
      <4> QED BY <4>3, <4>4
    <3> QED BY <3>1, <3>2, <3>3
  <2>7. Level(r, M, G, NULL, NULL)
    BY <1>9, <2>1, <2>6, LevelFrom
  <2> QED BY <2>7
<1> QED BY <1>9, <1>13, <1>14 DEF r, t2

(* The side of its parent the loop of RB_REMOVE_COLOR is at.               *)
ShortSide == IF rb.kid["left"][par] = elm THEN "left" ELSE "right"

(* What the loop starts a round with.                                      *)
LEMMA RoundStart ==
  ASSUME RBInv, RemoveGoesOn
  PROVE  \E U, H : Short(rb, members, U, H, elm, par, ShortSide)
<1> DEFINE s == ShortSide
<1>1. rbpc = "remove_color" /\ ~ Red(rb, elm) /\ elm # rb.root
  BY DEF RemoveGoesOn
<1>2. par # NULL /\ Lacking = par
  BY <1>1 DEF RBInv, Lacking
<1>3. PICK U : Shape(rb, members, U)
  BY DEF RBInv
<1>4. PICK H : Level(rb, members, H, elm, par)
  BY <1>2 DEF RBInv
<1>5. \A n \in members : ~ Bad(rb, n)
  <2> SUFFICES ASSUME NEW n \in members, Bad(rb, n) PROVE FALSE
    OBVIOUS
  <2>1. n = elm \/ (n # rb.root /\ rb.parent[n] = elm)
    BY <1>1 DEF RBInv
  <2> QED BY <1>1, <2>1 DEF Bad
<1>6. par \in members /\ \E z \in Sides : rb.kid[z][par] = elm /\ rb.kid[Other(z)][par] # elm
  BY <1>2, <1>4 DEF Level
<1>7. s \in Sides /\ rb.kid[s][par] = elm /\ rb.kid[Other(s)][par] # elm
  BY <1>6 DEF ShortSide, Sides, Other
<1> HIDE DEF s
<1>8. Short(rb, members, U, H, elm, par, s)
  BY <1>1, <1>3, <1>4, <1>5, <1>6, <1>7 DEF Short
<1> QED BY <1>8 DEF s

(* The steps of a round, by their names.                                   *)
LEMMA RoundIs ==
  ASSUME RemoveRound
  PROVE  \E t1, t2, tmp :
           LET s == ShortSide
               o == Other(s)
           IN  /\ RemoveGoesOn
               /\ Red(rb, rb.kid[o][par]) => t1 = RedTurned(rb, par, s)
               /\ ~ Red(rb, rb.kid[o][par]) => t1 = rb
               /\ tmp = t1.kid[o][par]
               /\ Red(t1, t1.kid[o][tmp]) => t2 = t1
               /\ ~ Red(t1, t1.kid[o][tmp]) => t2 = RedTurned(t1, tmp, o)
               /\ IF ~Red(t1, t1.kid["left"][tmp]) /\ ~Red(t1, t1.kid["right"][tmp])
                  THEN rb' = Paint(t1, tmp, "RED") /\ elm' = par /\ par' = t1.parent[par]
                  ELSE rb' = RB_ROTATE(LastPaint(t2, par, s), par, s) /\ elm' = rb'.root
                       /\ UNCHANGED par
               /\ UNCHANGED <<rbpc, members>>
<1> DEFINE s == ShortSide
           o == Other(s)
           sib == rb.kid[o][par]
           t1 == IF Red(rb, sib) THEN RB_ROTATE(RB_SET_BLACKRED(rb, sib, par), par, s) ELSE rb
           tmp == t1.kid[o][par]
           inner == t1.kid[s][tmp]
           t2 == IF Red(t1, t1.kid[o][tmp]) THEN t1
                 ELSE RB_ROTATE(RB_SET_BLACKRED(t1, inner, tmp), tmp, o)
           top == t2.kid[o][par]
           t3 == Paint(Paint(Paint(t2, top, t2.color[par]), par, "BLACK"), t2.kid[o][top], "BLACK")
<1>1. /\ RemoveGoesOn
      /\ IF ~Red(t1, t1.kid["left"][tmp]) /\ ~Red(t1, t1.kid["right"][tmp])
         THEN rb' = Paint(t1, tmp, "RED") /\ elm' = par /\ par' = t1.parent[par]
         ELSE rb' = RB_ROTATE(t3, par, s) /\ elm' = rb'.root /\ UNCHANGED par
      /\ UNCHANGED <<rbpc, members>>
  <2>1. /\ RemoveGoesOn
        /\ IF ~Red(t1, t1.kid["left"][tmp]) /\ ~Red(t1, t1.kid["right"][tmp])
           THEN rb' = Paint(t1, tmp, "RED") /\ elm' = par /\ par' = t1.parent[par]
           ELSE rb' = RB_ROTATE(t3, par, s) /\ elm' = rb'.root /\ UNCHANGED par
        /\ UNCHANGED <<rbpc, members, walk>>
    BY Zenon DEF RemoveRound, ShortSide
  <2> HIDE DEF t1, t3, tmp, s
  <2> QED BY <2>1
<1>2. t3 = LastPaint(t2, par, s)
  BY Zenon DEF LastPaint
<1> HIDE DEF t3
<1>3. s \in Sides /\ Other(o) = s
  BY OtherSide DEF Sides, ShortSide
<1>4. /\ Red(t1, t1.kid[o][tmp]) => t2 = t1
      /\ ~ Red(t1, t1.kid[o][tmp]) => t2 = RedTurned(t1, tmp, o)
  <2> HIDE DEF t1, tmp, s, o
  <2> QED BY <1>3 DEF RedTurned
<1> HIDE DEF t2
<1>5. tmp = t1.kid[o][par]
  OBVIOUS
<1> HIDE DEF tmp
<1>6. /\ Red(rb, sib) => t1 = RedTurned(rb, par, s)
      /\ ~ Red(rb, sib) => t1 = rb
  BY DEF RedTurned
<1> HIDE DEF t1, s
<1>7. /\ Red(rb, rb.kid[o][par]) => t1 = RedTurned(rb, par, s)
      /\ ~ Red(rb, rb.kid[o][par]) => t1 = rb
  BY <1>6
<1> HIDE DEF sib, o
<1>8. IF ~Red(t1, t1.kid["left"][tmp]) /\ ~Red(t1, t1.kid["right"][tmp])
      THEN rb' = Paint(t1, tmp, "RED") /\ elm' = par /\ par' = t1.parent[par]
      ELSE rb' = RB_ROTATE(LastPaint(t2, par, s), par, s) /\ elm' = rb'.root /\ UNCHANGED par
  BY <1>1, <1>2
<1> QED BY <1>1, <1>4, <1>5, <1>7, <1>8 DEF s, o

LEMMA RemoveRoundKeeps == RBInv /\ RemoveRound => RBInv'
<1> SUFFICES ASSUME RBInv, RemoveRound PROVE RBInv'
  OBVIOUS
<1> DEFINE s == ShortSide
           o == Other(s)
<1>1. PICK t1, t2, tmp :
        /\ RemoveGoesOn
        /\ Red(rb, rb.kid[o][par]) => t1 = RedTurned(rb, par, s)
        /\ ~ Red(rb, rb.kid[o][par]) => t1 = rb
        /\ tmp = t1.kid[o][par]
        /\ Red(t1, t1.kid[o][tmp]) => t2 = t1
        /\ ~ Red(t1, t1.kid[o][tmp]) => t2 = RedTurned(t1, tmp, o)
        /\ IF ~Red(t1, t1.kid["left"][tmp]) /\ ~Red(t1, t1.kid["right"][tmp])
           THEN rb' = Paint(t1, tmp, "RED") /\ elm' = par /\ par' = t1.parent[par]
           ELSE rb' = RB_ROTATE(LastPaint(t2, par, s), par, s) /\ elm' = rb'.root
                /\ UNCHANGED par
        /\ UNCHANGED <<rbpc, members>>
  BY RoundIs
<1>2. PICK U0, H0 : Short(rb, members, U0, H0, elm, par, s)
  BY <1>1, RoundStart
<1> HIDE DEF s
<1>3. \E U, H : ShortBlack(t1, members, U, H, elm, par, s)
  <2>1. CASE Red(rb, rb.kid[o][par])
    BY <1>1, <1>2, <2>1, TurnSibling
  <2>2. CASE ~ Red(rb, rb.kid[o][par])
    BY <1>1, <1>2, <2>2 DEF ShortBlack
  <2> QED BY <2>1, <2>2
<1>4. PICK U, H : ShortBlack(t1, members, U, H, elm, par, s)
  BY <1>3
<1>5. par \in members /\ s \in Sides /\ Shape(t1, members, U) /\ rbpc' = "remove_color"
      /\ members' = members
  BY <1>1, <1>4 DEF ShortBlack, Short, RemoveGoesOn
<1>6. o \in Sides /\ Other(o) = s /\ \A z \in Sides : z = s \/ z = o
  BY <1>5, OtherSide
<1>7. CASE ~Red(t1, t1.kid["left"][tmp]) /\ ~Red(t1, t1.kid["right"][tmp])
  <2> DEFINE r == Paint(t1, tmp, "RED")
  <2>1. /\ Shape(r, members, U) /\ r.root = t1.root /\ r.parent = t1.parent
        /\ \E G : Level(r, members, G, par, t1.parent[par])
        /\ \A n \in members : Bad(r, n) => n # t1.root /\ t1.parent[n] = par
    <3>1. \A z \in Sides : ~ Red(t1, t1.kid[z][t1.kid[Other(s)][par]])
      BY <1>1, <1>7 DEF Sides
    <3>2. r = Paint(t1, t1.kid[Other(s)][par], "RED")
      BY <1>1
    <3> HIDE DEF r
    <3> QED BY <1>4, <3>1, <3>2, SiblingPaints
  <2>2. rb' = r /\ elm' = par /\ par' = t1.parent[par]
    BY <1>1, <1>7
  <2> HIDE DEF r
  <2>3. t1.parent[par] = NULL <=> par = t1.root
    BY <1>5, PointsOnce
  <2>4. Lacking' = par'
    BY <1>5, <2>1, <2>2, <2>3 DEF Lacking
  <2>5. \E G : Level(rb', members', G, elm', Lacking')
    BY <1>5, <2>1, <2>2, <2>4
  <2>6. \E W : Shape(rb', members', W)
    BY <1>5, <2>1, <2>2
  <2>7. elm' # rb'.root => par' # NULL
    BY <2>1, <2>2, <2>3
  <2>8. \A n \in members' : Bad(rb', n) => n # rb'.root /\ rb'.parent[n] = elm'
    BY <1>5, <2>1, <2>2
  <2> QED BY <1>5, <2>2, <2>5, <2>6, <2>7, <2>8 DEF RBInv
<1>8. CASE ~ (~Red(t1, t1.kid["left"][tmp]) /\ ~Red(t1, t1.kid["right"][tmp]))
  <2>1. \E V, G : ShortBlack(t2, members, V, G, elm, par, s) /\ Red(t2, t2.kid[o][t2.kid[o][par]])
    <3>1. CASE Red(t1, t1.kid[o][tmp])
      BY <1>1, <1>4, <3>1
    <3>2. CASE ~ Red(t1, t1.kid[o][tmp])
      <4>1. Red(t1, t1.kid[s][tmp])
        BY <1>5, <1>6, <1>8, <3>2 DEF Sides
      <4>2. Red(t1, t1.kid[s][t1.kid[Other(s)][par]])
            /\ ~ Red(t1, t1.kid[Other(s)][t1.kid[Other(s)][par]])
        BY <1>1, <3>2, <4>1
      <4>3. t2 = RedTurned(t1, t1.kid[Other(s)][par], Other(s))
        BY <1>1, <3>2
      <4>4. /\ \E V, G : ShortBlack(t2, members, V, G, elm, par, s)
            /\ Red(t2, t2.kid[Other(s)][t2.kid[Other(s)][par]])
        BY <1>4, <4>2, <4>3, TurnNephew
      <4> QED BY <4>4
    <3> QED BY <3>1, <3>2
  <2>2. PICK V, G : ShortBlack(t2, members, V, G, elm, par, s)
                    /\ Red(t2, t2.kid[Other(s)][t2.kid[Other(s)][par]])
    BY <2>1
  <2> DEFINE r == RB_ROTATE(LastPaint(t2, par, s), par, s)
  <2>3. /\ \E W : Shape(r, members, W)
        /\ \E K : Level(r, members, K, NULL, NULL)
        /\ \A n \in members : ~ Bad(r, n)
    BY <2>2, LastTurn
  <2>4. rb' = r /\ elm' = rb'.root
    BY <1>1, <1>8
  <2> HIDE DEF r
  <2>5. NULL \notin members /\ r.root \in members \cup {NULL}
    BY <2>3, ShapeNodes
  <2>6. Lacking' = NULL
    BY <2>4 DEF Lacking
  <2>7. \E K : Level(r, members, K, r.root, NULL)
    BY <2>3, <2>5, LevelAny
  <2> QED BY <1>5, <2>3, <2>4, <2>5, <2>6, <2>7 DEF RBInv
<1> QED BY <1>7, <1>8

(* The end of the loop: there is a red node, or the root.                  *)
LEMMA RemoveEndsKeeps == RBInv /\ RemoveEnds => RBInv'
<1> SUFFICES ASSUME RBInv, RemoveEnds PROVE RBInv'
  OBVIOUS
<1>1. /\ rbpc = "remove_color" /\ (Red(rb, elm) \/ elm = rb.root)
      /\ rb' = (IF elm = NULL THEN rb ELSE Paint(rb, elm, "BLACK"))
      /\ rbpc' = "ready" /\ elm' = NULL /\ members' = members
  BY DEF RemoveEnds, RemoveGoesOn
<1>2. PICK U : Shape(rb, members, U)
  BY DEF RBInv
<1>3. PICK H : Level(rb, members, H, elm, Lacking)
  BY DEF RBInv
<1>4. \A n \in members : Bad(rb, n) => n = elm \/ (n # rb.root /\ rb.parent[n] = elm)
  BY <1>1 DEF RBInv
<1>5. NULL \notin members /\ elm \in members \cup {NULL}
  BY <1>2, ShapeNodes DEF RBInv
<1>6. CASE elm = NULL
  <2>1. members = {}
    <3>1. rb.root = NULL
      BY <1>1, <1>6 DEF Red
    <3> QED BY <1>2, <3>1 DEF Shape
  <2>2. Lacking = NULL
    BY <1>1, <1>6 DEF Lacking, Red
  <2>3. \E G : Level(rb', members', G, NULL, NULL)
    BY <1>1, <1>3, <1>6, <2>2
  <2>4. \E W : Shape(rb', members', W)
    BY <1>1, <1>2, <1>6
  <2> QED BY <1>1, <2>1, <2>3, <2>4, ReadyInv
<1>7. CASE elm # NULL
  <2> DEFINE r == Paint(rb, elm, "BLACK")
  <2>1. elm \in members
    BY <1>5, <1>7
  <2>2. (Lacking = NULL => elm = rb.root) /\ (Lacking # NULL => Red(rb, elm))
    BY <1>1 DEF RBInv, Lacking
  <2>3. /\ Shape(r, members, U) /\ (\E G : Level(r, members, G, NULL, NULL))
        /\ \A n \in members : Bad(r, n) => n # elm /\ Bad(rb, n) /\ (n # rb.root => rb.parent[n] # elm)
    <3> DEFINE p == Lacking
    <3>1. Level(rb, members, H, elm, p) /\ (p = NULL => elm = rb.root) /\ (p # NULL => Red(rb, elm))
      BY <1>3, <2>2
    <3> HIDE DEF p
    <3> QED BY <1>2, <2>1, <3>1, Blackens
  <2>4. rb' = r
    BY <1>1, <1>7
  <2> HIDE DEF r
  <2>5. \A n \in members : ~ Bad(r, n)
    BY <1>4, <2>3
  <2>6. \E W : Shape(r, members, W)
    BY <2>3
  <2> QED BY <1>1, <2>3, <2>4, <2>5, <2>6, ReadyInv
<1> QED BY <1>6, <1>7

(* Induction from the root down.                                           *)
LEMMA FromRoot ==
  ASSUME NEW t, NEW M, NEW U, Shape(t, M, U), NEW S,
         \A n \in M : n = t.root \/ t.parent[n] \in S => n \in S
  PROVE  M \subseteq S
<1> DEFINE D == {a \in M : a \in S => U[a] \subseteq S}
<1>1. ASSUME NEW a \in M, \A z \in Sides : t.kid[z][a] \in D \cup {NULL} PROVE a \in D
  <2> SUFFICES ASSUME a \in S PROVE U[a] \subseteq S
    OBVIOUS
  <2>1. ASSUME NEW z \in Sides PROVE U[t.kid[z][a]] \subseteq S
    <3>1. CASE t.kid[z][a] = NULL
      BY <3>1 DEF Shape
    <3>2. CASE t.kid[z][a] # NULL
      <4>1. t.kid[z][a] \in M /\ t.parent[t.kid[z][a]] = a
        BY <3>2 DEF Shape
      <4>2. t.kid[z][a] \in S
        BY <4>1
      <4> QED BY <1>1, <3>2, <4>2
    <3> QED BY <3>1, <3>2
  <2>2. U[a] = {a} \cup U[t.kid["left"][a]] \cup U[t.kid["right"][a]]
    BY DEF Shape
  <2> QED BY <2>1, <2>2 DEF Sides
<1>2. M \subseteq D
  <2> HIDE DEF D
  <2> QED BY <1>1, FromKids
<1>3. t.root \in M \cup {NULL} /\ U[t.root] = M /\ U[NULL] = {}
  BY DEF Shape
<1> QED BY <1>2, <1>3

(* The black nodes on the way from the root to n.                          *)
BlackAbove(t, M, U, n) == {a \in M : ~ Red(t, a) /\ n \in U[a]}

(* They and those below it are as many for every node.                     *)
LEMMA BlacksAdd ==
  ASSUME NEW t, NEW M, NEW U, Shape(t, M, U), NEW H, Level(t, M, H, NULL, NULL), NEW n \in M
  PROVE  /\ Cardinality(BlackAbove(t, M, U, n)) \in Nat
         /\ Cardinality(BlackAbove(t, M, U, n)) + H[n]
              = H[t.root] + (IF Red(t, n) THEN 0 ELSE 1)
<1> DEFINE A(m) == BlackAbove(t, M, U, m)
           B(m) == IF Red(t, m) THEN 0 ELSE 1
           S == {m \in M : Cardinality(A(m)) + H[m] = H[t.root] + B(m)}
<1>1. M \subseteq Nodes /\ NULL \notin M /\ M \subseteq Links /\ H \in [Links -> Nat] /\ IsFiniteSet(M)
  BY ShapeNodes, ShapeSelf, LevelType
<1>2. \A m : IsFiniteSet(A(m)) /\ Cardinality(A(m)) \in Nat
  <2> TAKE m
  <2>1. A(m) \subseteq M
    BY DEF BlackAbove
  <2> QED BY <1>1, <2>1, FS_Subset, FS_CardinalityType
<1>3. \A m \in M : H[m] \in Nat
  BY <1>1
<1>4. ASSUME NEW m \in M, m = t.root PROVE m \in S
  <2>1. \A a \in M : m \in U[a] => a = m
    <3>1. U[m] = M
      BY <1>4, ShapeNodes
    <3>2. \A a \in U[m] : m \in U[a] => a = m
      BY ShapeApart
    <3> QED BY <3>1, <3>2
  <2>2. m \in U[m]
    BY ShapeSelf
  <2>3. A(m) = IF Red(t, m) THEN {} ELSE {m}
    BY <2>1, <2>2 DEF BlackAbove
  <2>4. Cardinality(A(m)) = B(m)
    BY <2>3, FS_EmptySet, FS_Singleton
  <2> HIDE DEF A, B
  <2>5. B(m) \in Nat
    BY DEF B
  <2> QED BY <1>3, <1>4, <2>4, <2>5
<1>5. ASSUME NEW m \in M, m # t.root, t.parent[m] \in S PROVE m \in S
  <2> DEFINE p == t.parent[m]
  <2>1. p \in M /\ p # m /\ \E z \in Sides : t.kid[z][p] = m
    BY <1>5, ShapeParent
  <2>2. PICK z \in Sides : t.kid[z][p] = m
    BY <2>1
  <2>3. m \in U[p] /\ m \in U[m] /\ p \notin U[m]
    <3>1. U[t.kid[z][p]] \subseteq U[p] /\ m \in U[m]
      BY <2>1, ShapeSelf
    <3>2. \A a \in U[p] : p \in U[a] => a = p
      BY <2>1, ShapeApart
    <3> QED BY <2>1, <2>2, <3>1, <3>2
  <2>4. \A a \in M : m \in U[a] <=> a = m \/ p \in U[a]
    <3> TAKE a \in M
    <3>1. m \in U[a] /\ a # m => p \in U[a]
      BY ShapeUpwards
    <3>2. p \in U[a] => U[p] \subseteq U[a]
      BY ShapeTransitive
    <3> QED BY <2>3, <3>1, <3>2
  <2>5. A(m) = IF Red(t, m) THEN A(p) ELSE A(p) \cup {m}
    BY <2>4 DEF BlackAbove
  <2>6. m \notin A(p)
    BY <2>3 DEF BlackAbove
  <2>7. Cardinality(A(m)) = Cardinality(A(p)) + B(m)
    <3>1. CASE Red(t, m)
      BY <1>2, <2>5, <3>1
    <3>2. CASE ~ Red(t, m)
      <4> HIDE DEF A
      <4>1. Cardinality(A(p) \cup {m}) = Cardinality(A(p)) + 1
        BY <1>2, <2>6, FS_AddElement
      <4> QED BY <2>5, <3>2, <4>1
    <3> QED BY <3>1, <3>2
  <2>8. H[p] = H[m] + B(p)
    <3>1. /\ H[p] \in Nat /\ H[t.kid[z][p]] \in Nat
          /\ Red(t, p) => H[p] = H[t.kid[z][p]]
          /\ ~ Red(t, p) => H[p] = H[t.kid[z][p]] + 1
      BY <2>1, LevelIs
    <3> QED BY <2>2, <3>1
  <2>9. Cardinality(A(p)) + H[p] = H[t.root] + B(p)
    BY <1>5
  <2>10. H[t.root] \in Nat
    <3>1. t.root \in M
      BY ShapeNodes DEF Shape
    <3> QED BY <1>3, <3>1
  <2>11. Cardinality(A(p)) \in Nat /\ H[m] \in Nat /\ H[p] \in Nat /\ B(m) \in Nat /\ B(p) \in Nat
    BY <1>2, <1>3, <2>1
  <2> HIDE DEF A, B, p
  <2> QED BY <2>7, <2>8, <2>9, <2>10, <2>11
<1>6. M \subseteq S
  <2> HIDE DEF S
  <2> QED BY <1>4, <1>5, FromRoot
<1> QED BY <1>2, <1>6

(* A tree between two calls is balanced.                                   *)
LEMMA InvBalanced == RBInv => RBBalanced
<1> SUFFICES ASSUME RBInv, rbpc = "ready" PROVE RBBalanced
  BY DEF RBBalanced
<1>1. PICK U : Shape(rb, members, U)
  BY DEF RBInv
<1>2. PICK H : Level(rb, members, H, NULL, NULL)
  BY DEF RBInv, Lacking
<1>3. \A n \in members : ~ Bad(rb, n)
  BY DEF RBInv
<1> DEFINE blacks(n) == Cardinality({a \in members : ~Red(rb, a) /\ n \in Under(rb, a)})
           ends == {n \in members : \E s \in Sides : rb.kid[s][n] = NULL}
<1>4. ~ Red(rb, rb.root)
  <2>1. rb.root \in members \cup {NULL}
    BY <1>1, ShapeNodes
  <2> QED BY <1>3, <2>1 DEF Bad, Red
<1>5. \A n \in members : Red(rb, n) => ~ Red(rb, rb.parent[n])
  BY <1>3 DEF Bad
<1>6. \A n \in ends : blacks(n) = H[rb.root]
  <2> TAKE n \in ends
  <2>1. PICK s \in Sides : rb.kid[s][n] = NULL
    OBVIOUS
  <2>2. {a \in members : ~Red(rb, a) /\ n \in Under(rb, a)} = BlackAbove(rb, members, U, n)
    BY <1>1, ShapeUnder DEF BlackAbove
  <2>3. /\ blacks(n) \in Nat
        /\ blacks(n) + H[n] = H[rb.root] + (IF Red(rb, n) THEN 0 ELSE 1)
    <3>1. n \in members
      OBVIOUS
    <3>2. /\ Cardinality(BlackAbove(rb, members, U, n)) \in Nat
          /\ Cardinality(BlackAbove(rb, members, U, n)) + H[n]
               = H[rb.root] + (IF Red(rb, n) THEN 0 ELSE 1)
      BY <1>1, <1>2, <3>1, BlacksAdd
    <3>3. blacks(n) = Cardinality(BlackAbove(rb, members, U, n))
      BY <2>2
    <3> HIDE DEF blacks
    <3> QED BY <3>2, <3>3
  <2> HIDE DEF blacks
  <2>4. H[n] = IF Red(rb, n) THEN 0 ELSE 1
    <3>1. /\ Red(rb, n) => H[n] = H[rb.kid[s][n]]
          /\ ~ Red(rb, n) => H[n] = H[rb.kid[s][n]] + 1
      BY <1>1, <1>2, LevelIs
    <3>2. H[NULL] = 0
      BY <1>2, LevelType
    <3> QED BY <2>1, <3>1, <3>2
  <2>5. H[rb.root] \in Nat
    <3>1. rb.root \in Links /\ H \in [Links -> Nat]
      BY <1>1, <1>2, LevelType, ShapeNodes DEF Links
    <3> QED BY <3>1
  <2> QED BY <2>3, <2>4, <2>5
<1> HIDE DEF blacks, ends
<1>7. Cardinality({blacks(n) : n \in ends}) <= 1
  <2> DEFINE h == H[rb.root]
  <2>1. {blacks(n) : n \in ends} \subseteq {h}
    BY <1>6
  <2>2. IsFiniteSet({h}) /\ Cardinality({h}) = 1
    BY FS_Singleton
  <2> HIDE DEF h
  <2> QED BY <2>1, <2>2, FS_Subset
<1> QED BY <1>4, <1>5, <1>7, Zenon DEF RBBalanced, blacks, ends

(* The invariant holds of the empty tree.                                  *)
LEMMA InitInv == TreesInit => RBInv
<1> SUFFICES ASSUME TreesInit PROVE RBInv
  OBVIOUS
<1>1. rbpc = "ready" /\ elm = NULL /\ members = {} /\ rb.root = NULL
  BY DEF TreesInit
<1>2. rb \in RBTrees
  BY DEF TreesInit, RBTrees, Links, Colors
<1>3. \E U : Shape(rb, members, U)
  <2> DEFINE U == [n \in Links |-> {}]
  <2>1. U \in [Links -> SUBSET Nodes] /\ U[NULL] = {}
    BY DEF Links
  <2> HIDE DEF U
  <2>2. Shape(rb, members, U)
    BY <1>1, <1>2, <2>1 DEF Shape
  <2> QED BY <2>2
<1>4. \E H : Level(rb, members, H, elm, Lacking)
  <2> DEFINE H == [n \in Links |-> 0]
  <2>1. H \in [Links -> Nat] /\ H[NULL] = 0
    BY DEF Links
  <2> HIDE DEF H
  <2>2. Level(rb, members, H, elm, Lacking)
    BY <1>1, <2>1 DEF Level, Lacking
  <2> QED BY <2>2
<1> QED BY <1>1, <1>3, <1>4 DEF RBInv

(* It says nothing of the other variables.                                 *)
LEMMA RestKeeps ==
  ASSUME RBInv, UNCHANGED <<rb, rbpc, elm, par, members>>
  PROVE  RBInv'
<1>1. rb' = rb /\ rbpc' = rbpc /\ elm' = elm /\ par' = par /\ members' = members
  OBVIOUS
<1>2. Lacking' = Lacking
  BY <1>1 DEF Lacking
<1>3. (\E U : Shape(rb, members, U))'
  <2>1. PICK U : Shape(rb, members, U)
    BY DEF RBInv
  <2>2. Shape(rb', members', U)
    BY <1>1, <2>1
  <2> QED BY <2>2
<1>4. (\E H : Level(rb, members, H, elm, Lacking))'
  <2>1. PICK H : Level(rb, members, H, elm, Lacking)
    BY DEF RBInv
  <2>2. Level(rb', members', H, elm', Lacking')
    BY <1>1, <1>2, <2>1
  <2> QED BY <2>2
<1>5. \A n : Bad(rb', n) <=> Bad(rb, n)
  BY <1>1
<1>6. Red(rb', elm') <=> Red(rb, elm)
  BY <1>1
<1> QED BY <1>1, <1>3, <1>4, <1>5, <1>6 DEF RBInv

(* Every step keeps it.                                                    *)
LEMMA NextInv == RBInv /\ [TreesNext]_treeVars => RBInv'
<1> SUFFICES ASSUME RBInv, [TreesNext]_treeVars PROVE RBInv'
  OBVIOUS
<1>1. ASSUME UNCHANGED <<rb, rbpc, elm, par, members>> PROVE RBInv'
  BY <1>1, RestKeeps
<1>2. CASE RB_INSERT
  BY <1>2, InsertKeeps
<1>3. CASE InsertTurns
  BY <1>3, InsertTurnsKeeps
<1>4. CASE InsertPaints
  BY <1>4, InsertPaintsKeeps
<1>5. CASE InsertEnds
  BY <1>5, InsertEndsKeeps
<1>6. CASE RB_REMOVE
  <2>1. rbpc = "ready" /\ \E old \in members : RemoveNode(old)
    BY <1>6 DEF RB_REMOVE
  <2> QED BY <2>1, RemoveNodeKeeps
<1>7. CASE RemoveRound
  BY <1>7, RemoveRoundKeeps
<1>8. CASE RemoveEnds
  BY <1>8, RemoveEndsKeeps
<1>9. CASE WalkRemoves
  <2>1. rbpc = "ready" /\ walk.x \in members /\ RemoveNode(walk.x)
    BY <1>9 DEF WalkRemoves
  <2> QED BY <2>1, RemoveNodeKeeps
<1>10. CASE WalkStarts \/ WalkMoves
  BY <1>1, <1>10 DEF WalkStarts, WalkMoves
<1>11. CASE SplayNext
  <2>1. UNCHANGED rbVars
    BY <1>11, Zenon DEF SplayNext, SPLAY_INSERT, SPLAY_REMOVE, SplayLookup
  <2> QED BY <1>1, <2>1 DEF rbVars
<1>12. CASE UNCHANGED treeVars
  BY <1>1, <1>12 DEF treeVars
<1> QED BY <1>2, <1>3, <1>4, <1>5, <1>6, <1>7, <1>8, <1>9, <1>10, <1>11, <1>12
           DEF TreesNext, RBNext

(* Whatever is inserted, removed and walked in whatever order, the tree of *)
(* src/bsd/sys/tree.h is a search tree of exactly the nodes in it in which *)
(* every node knows its parent, and it is balanced after every call.       *)
THEOREM RedBlackSound == TreesSpec => []RBSound
<1>1. TreesSpec => []RBInv
  BY InitInv, NextInv, PTL DEF TreesSpec
<1>2. RBInv => RBSound
  <2> SUFFICES ASSUME RBInv PROVE RBSound
    OBVIOUS
  <2>1. RBOrdered
    BY ShapeOrdered DEF RBInv
  <2>2. RBBalanced
    BY InvBalanced
  <2> QED BY <2>1, <2>2 DEF RBSound
<1> QED BY <1>1, <1>2, PTL

-----------------------------------------------------------------------------
(* A node elsewhere lies on one side of all nodes of a subtree.            *)
LEMMA ShapeElsewhere ==
  ASSUME NEW t, NEW M, NEW U, Shape(t, M, U), NEW n \in M, NEW m \in M, m \notin U[n]
  PROVE  \E s \in Sides : \A a \in U[n] : On(s, m, a)
<1> DEFINE P(b, c) == \E s \in Sides : \A a \in U[b] : On(s, c, a)
           S == {r \in M : \A b, c \in U[r] : c \notin U[b] => P(b, c)}
<1>1. ASSUME NEW r \in M, \A s \in Sides : t.kid[s][r] \in S \cup {NULL} PROVE r \in S
  <2> SUFFICES ASSUME NEW b \in U[r], NEW c \in U[r], c \notin U[b] PROVE P(b, c)
    OBVIOUS
  <2>1. b \in M /\ c \in M /\ M \in SUBSET Nodes /\ U[NULL] = {} /\ r \in M
    BY DEF Shape
  <2>2. b # r
    OBVIOUS
  <2>3. PICK z \in Sides : b \in U[t.kid[z][r]]
    BY <2>2 DEF Shape, Sides
  <2> DEFINE k == t.kid[z][r]
             o == t.kid[Other(z)][r]
  <2>4. /\ U[r] = {r} \cup U[k] \cup U[o] /\ k \in M \cup {NULL}
        /\ \A m1 \in U[k] : m1 \in M /\ On(z, m1, r)
    BY ShapeSides
  <2>5. Other(z) \in Sides /\ Other(Other(z)) = z
    BY DEF Sides, Other
  <2>6. \A m1 \in U[o] : m1 \in M /\ On(Other(z), m1, r)
    BY <2>5, ShapeSides
  <2>7. k \in S
    BY <1>1, <2>1, <2>3
  <2> HIDE DEF k, o
  <2>8. CASE c \in U[k]
    BY <2>3, <2>7, <2>8 DEF k
  <2>9. CASE c = r \/ c \in U[o]
    <3>1. \A a \in U[b] : a \in M /\ On(z, a, r)
      <4>1. k \in M /\ b \in U[k]
        BY <2>1, <2>3, <2>4 DEF k
      <4>2. U[b] \subseteq U[k]
        BY <4>1, ShapeTransitive
      <4> QED BY <2>4, <4>2
    <3>2. ASSUME NEW a \in U[b] PROVE On(Other(z), c, a)
      <4>1. a \in M /\ On(Other(z), r, a)
        BY <2>1, <3>1, OnOrder
      <4>2. CASE c = r
        BY <4>1, <4>2
      <4>3. CASE c \in U[o]
        <5>1. On(Other(z), c, r)
          BY <2>6, <4>3
        <5> QED BY <2>1, <2>5, <4>1, <5>1, OnOrder
      <4> QED BY <2>9, <4>2, <4>3
    <3> QED BY <2>5, <3>2
  <2> QED BY <2>4, <2>8, <2>9
<1>2. M \subseteq S
  <2> HIDE DEF S
  <2> QED BY <1>1, FromKids
<1>3. t.root \in M /\ U[t.root] = M
  <2>1. U[t.root] = M /\ U[NULL] = {} /\ t.root \in M \cup {NULL}
    BY DEF Shape
  <2> QED BY <2>1
<1> QED BY <1>2, <1>3

(* RB_MIN and RB_MAX.                                                      *)
LEMMA MinMaxIs ==
  ASSUME NEW t, NEW M, NEW U, Shape(t, M, U), NEW s \in Sides
  PROVE  M # {} => RB_MINMAX(t, s) = FirstOf(M, s)
<1> SUFFICES ASSUME M # {} PROVE RB_MINMAX(t, s) = FirstOf(M, s)
  OBVIOUS
<1>1. t.root \in M /\ U[t.root] = M
  BY DEF Shape
<1> DEFINE f == Furthest(t, t.root, s)
<1>2. f \in M /\ \A m \in M : m = f \/ On(Other(s), m, f)
  BY <1>1, FurthestIs
<1>3. RB_MINMAX(t, s) = f
  BY DEF RB_MINMAX
<1> HIDE DEF f
<1>4. M \in SUBSET M
  OBVIOUS
<1> QED BY <1>2, <1>3, <1>4, FirstIs, ShapeKeys

(* RB_FIND.                                                                *)
LEMMA FindIs ==
  ASSUME NEW t, NEW M, NEW U, Shape(t, M, U), NEW e \in Nodes
  PROVE  RB_FIND(t, e) = Least({n \in M : NodeKey[n] = NodeKey[e]})
<1> DEFINE d == Descend(t, e)
           S == {n \in M : NodeKey[n] = NodeKey[e]}
<1>1. Descending(t, M, U, e, d) /\ (d.tmp = NULL \/ d.found # NULL)
  BY DescendIs
<1>2. RB_FIND(t, e) = d.found
  BY DEF RB_FIND
<1> HIDE DEF d
<1>3. CASE d.found # NULL
  <2>1. d.found \in S /\ S \in SUBSET M
    BY <1>1, <1>3 DEF Descending
  <2>2. \A m \in S : NodeKey[d.found] <= NodeKey[m]
    <3>1. \A m \in M : NodeKey[m] \in Int
      BY ShapeSelf
    <3> QED BY <2>1, <3>1
  <2> HIDE DEF S
  <2>3. Least(S) = d.found
    BY <2>1, <2>2, LeastIs, ShapeKeys
  <2> QED BY <1>2, <2>3 DEF S
<1>4. CASE d.found = NULL
  <2>1. S = {}
    BY <1>1, <1>4 DEF Descending, Shape
  <2>2. Least(S) = NULL
    BY <2>1 DEF Least
  <2> QED BY <1>2, <1>4, <2>2
<1> QED BY <1>3, <1>4

(* One round of RB_NFIND.                                                  *)
Nearby == [tmp : Links, res : Links]
NearEnd(e, d) == d.tmp = NULL \/ (d.res # NULL /\ NodeKey[d.res] = NodeKey[e])
NearRound(t, e, d) ==
  IF d.tmp = NULL \/ (d.res # NULL /\ NodeKey[d.res] = NodeKey[e]) THEN d
  ELSE IF NodeKey[e] = NodeKey[d.tmp] THEN [d EXCEPT !.res = d.tmp]
  ELSE [res |-> IF KeySide(e, d.tmp) = "left" THEN d.tmp ELSE d.res,
        tmp |-> t.kid[KeySide(e, d.tmp)][d.tmp]]

LEMMA NearRoundIs ==
  ASSUME NEW t, Linked(t), NEW e \in Nodes, NEW d \in Nearby
  PROVE  LET r == NearRound(t, e, d)
         IN  /\ r \in Nearby
             /\ NearEnd(e, d) => r = d
             /\ ~ NearEnd(e, d) =>
                  IF NodeKey[e] = NodeKey[d.tmp] THEN r.res = d.tmp /\ r.tmp = d.tmp
                  ELSE /\ r.tmp = t.kid[KeySide(e, d.tmp)][d.tmp]
                       /\ r.res = IF KeySide(e, d.tmp) = "left" THEN d.tmp ELSE d.res
<1>1. \A m \in Links : KeySide(e, m) \in Sides
  BY DEF KeySide, Sides
<1>2. d.tmp \in Links /\ d.res \in Links /\ NULL \in Links
  BY DEF Nearby, Links
<1>3. d.tmp # NULL => t.kid[KeySide(e, d.tmp)][d.tmp] \in Links
  BY <1>1, <1>2 DEF Linked, Links
<1>4. CASE NearEnd(e, d)
  BY <1>4 DEF NearRound, NearEnd
<1>5. CASE ~ NearEnd(e, d) /\ NodeKey[e] = NodeKey[d.tmp]
  <2>1. NearRound(t, e, d) = [d EXCEPT !.res = d.tmp]
    BY <1>5 DEF NearRound, NearEnd
  <2> QED BY <1>2, <1>5, <2>1 DEF Nearby
<1>6. CASE ~ NearEnd(e, d) /\ NodeKey[e] # NodeKey[d.tmp]
  <2>1. NearRound(t, e, d)
          = [res |-> IF KeySide(e, d.tmp) = "left" THEN d.tmp ELSE d.res,
             tmp |-> t.kid[KeySide(e, d.tmp)][d.tmp]]
    BY <1>6 DEF NearRound, NearEnd
  <2>2. d.tmp # NULL
    BY <1>6 DEF NearEnd
  <2> QED BY <1>2, <1>3, <1>6, <2>1, <2>2 DEF Nearby
<1> QED BY <1>4, <1>5, <1>6

(* The loop of RB_NFIND, round by round.                                   *)
LEMMA NearRounds ==
  ASSUME NEW t, Linked(t), t.root \in Links, NEW e \in Nodes
  PROVE  \E x \in [0..Rounds -> Nearby] :
           /\ x[0] = [tmp |-> t.root, res |-> NULL]
           /\ RB_NFIND(t, e) = x[Rounds].res
           /\ \A i \in 0..Rounds : i < Rounds => x[i + 1] = NearRound(t, e, x[i])
<1> DEFINE n == [tmp |-> t.root, res |-> NULL]
           step(d) == NearRound(t, e, d)
           F == [d \in Nearby |-> step(d)]
           Eq(x) == x = [i \in 0..Rounds |-> IF i = 0 THEN n ELSE step(x[i - 1])]
           z == CHOOSE x : Eq(x)
<1>1. RB_NFIND(t, e) = z[Rounds].res
  BY Zenon DEF RB_NFIND, Loop, Rounds, NearRound
<1>2. F \in [Nearby -> Nearby]
  BY NearRoundIs
<1>3. Rounds \in Nat /\ n \in Nearby
  BY RoundsType DEF Nearby, Links
<1>4. PICK x : IteratesOf(x, Rounds, Nearby, F, n)
  <2> HIDE DEF F, n
  <2> QED BY <1>2, <1>3, Iterates
<1> HIDE DEF n
<1>5. Eq(x)
  <2>1. \A i \in 1..Rounds : F[x[i - 1]] = step(x[i - 1])
    <3>1. \A i \in 1..Rounds : x[i - 1] \in Nearby
      BY <1>3, <1>4 DEF IteratesOf
    <3> HIDE DEF step
    <3> QED BY <3>1
  <2> HIDE DEF F, step
  <2> QED BY <1>4, <2>1 DEF IteratesOf
<1>6. Eq(z)
  <2> HIDE DEF Eq
  <2> QED BY <1>5
<1>7. z = [i \in 0..Rounds |-> IF i = 0 THEN n ELSE step(z[i - 1])]
  BY <1>6
<1> HIDE DEF z
<1> DEFINE S == {i \in 0..Rounds : z[i] \in Nearby}
<1>8. \A i \in 0..Rounds : i < Rounds => z[i + 1] = step(z[i])
  <2> TAKE i \in 0..Rounds
  <2> HAVE i < Rounds
  <2>1. i + 1 \in 0..Rounds /\ i + 1 # 0 /\ (i + 1) - 1 = i
    BY <1>3
  <2> HIDE DEF step
  <2> QED BY <1>7, <2>1
<1>9. z[0] = n
  <2> HIDE DEF step
  <2>1. 0 \in 0..Rounds
    BY <1>3
  <2> QED BY <1>7, <2>1
<1>10. \A i \in 0..Rounds : i \in S
  <2>1. 0 \in S
    BY <1>3, <1>9
  <2>2. \A i \in 0..Rounds : i < Rounds /\ i \in S => i + 1 \in S
    BY <1>3, <1>8, NearRoundIs
  <2> HIDE DEF S
  <2> QED BY <1>3, <2>1, <2>2, Counting
<1>11. z \in [0..Rounds -> Nearby]
  <2> HIDE DEF step
  <2> QED BY <1>7, <1>10
<1> QED BY <1>1, <1>8, <1>9, <1>11 DEF n

(* What RB_NFIND has done so far: the node it keeps is the nearest of those *)
(* that are not below.                                                     *)
Nearing(M, U, e, d) ==
  /\ d.tmp \in M \cup {NULL} /\ d.res \in M \cup {NULL}
  /\ d.res # NULL => NodeKey[d.res] >= NodeKey[e]
  /\ d.res # NULL /\ NodeKey[d.res] # NodeKey[e] =>
       \A b \in U[d.tmp] : NodeKey[b] < NodeKey[d.res]
  /\ \A m \in M : NodeKey[m] >= NodeKey[e] =>
       m \in U[d.tmp] \/ (d.res # NULL /\ NodeKey[d.res] <= NodeKey[m])

LEMMA NearingGoesOn ==
  ASSUME NEW t, NEW M, NEW U, Shape(t, M, U), NEW e \in Nodes,
         NEW d \in Nearby, Nearing(M, U, e, d), ~ NearEnd(e, d)
  PROVE  LET r == NearRound(t, e, d)
         IN  /\ Nearing(M, U, e, r)
             /\ \/ NearEnd(e, r)
                \/ /\ Cardinality(U[d.tmp]) \in Nat /\ Cardinality(U[r.tmp]) \in Nat
                   /\ Cardinality(U[r.tmp]) < Cardinality(U[d.tmp])
<1> DEFINE r == NearRound(t, e, d)
           q == d.tmp
           s == KeySide(e, q)
           k == t.kid[s][q]
           o == t.kid[Other(s)][q]
<1>1. /\ Linked(t) /\ M \in SUBSET Nodes /\ NULL \notin M /\ NodeKey[e] \in Int
      /\ \A m \in M : NodeKey[m] \in Int
  <2>1. t \in RBTrees
    BY DEF Shape
  <2> QED BY <2>1, NodesAssumption, TreeType, ShapeSelf DEF Shape
<1>2. /\ q \in M /\ s \in Sides /\ Other(s) \in Sides /\ q \in U[q]
      /\ d.res # NULL => NodeKey[d.res] # NodeKey[e]
  BY ShapeSelf, OtherSide DEF Nearing, NearEnd, KeySide, Sides
<1>3. /\ r \in Nearby
      /\ IF NodeKey[e] = NodeKey[q] THEN r.res = q /\ r.tmp = q
         ELSE r.tmp = k /\ r.res = IF s = "left" THEN q ELSE d.res
  BY <1>1, NearRoundIs
<1>4. /\ U[q] = {q} \cup U[k] \cup U[o] /\ k \in M \cup {NULL}
      /\ \A m \in U[k] : m \in M /\ On(s, m, q)
  BY <1>2, ShapeSides
<1>5. \A m \in U[o] : m \in M /\ On(Other(s), m, q)
  BY <1>2, ShapeSides
<1>6. k # NULL => /\ Cardinality(U[q]) \in Nat /\ Cardinality(U[k]) \in Nat
                  /\ Cardinality(U[k]) < Cardinality(U[q])
  BY <1>2, KidSmaller
<1>7. s = IF NodeKey[e] < NodeKey[q] THEN "left" ELSE "right"
  BY DEF KeySide
<1> HIDE DEF r, k, o, s
<1>8. CASE NodeKey[e] = NodeKey[q]
  <2>1. r.res = q /\ r.tmp = q /\ q # NULL
    BY <1>1, <1>2, <1>3, <1>8
  <2>2. Nearing(M, U, e, r)
    <3>1. \A m \in M : NodeKey[m] >= NodeKey[e] => NodeKey[q] <= NodeKey[m]
      BY <1>1, <1>8
    <3> QED BY <1>1, <1>2, <1>8, <2>1, <3>1 DEF Nearing
  <2> QED BY <1>8, <2>1, <2>2 DEF r, NearEnd
<1>9. CASE NodeKey[e] < NodeKey[q]
  <2>1. s = "left" /\ r.tmp = k /\ r.res = q /\ q # NULL
    BY <1>1, <1>2, <1>3, <1>7, <1>9
  <2>2. \A b \in U[k] : NodeKey[b] < NodeKey[q]
    BY <1>4, <2>1 DEF On
  <2>3. \A b \in U[o] : b \in M /\ NodeKey[b] > NodeKey[q]
    BY <1>5, <2>1 DEF On, Other
  <2>4. ASSUME NEW m \in M, NodeKey[m] >= NodeKey[e]
        PROVE  m \in U[k] \/ NodeKey[q] <= NodeKey[m]
    <3>1. CASE m \in U[q]
      BY <1>1, <1>2, <1>4, <2>3, <3>1
    <3>2. CASE m \notin U[q]
      <4>1. /\ d.res \in M /\ NodeKey[d.res] <= NodeKey[m]
            /\ NodeKey[q] < NodeKey[d.res]
        BY <1>2, <2>4, <3>2 DEF Nearing
      <4> QED BY <1>1, <1>2, <2>4, <4>1
    <3> QED BY <3>1, <3>2
  <2>5. Nearing(M, U, e, r)
    <3>1. NodeKey[q] >= NodeKey[e]
      BY <1>1, <1>2, <1>9
    <3> QED BY <1>2, <1>4, <2>1, <2>2, <2>4, <3>1 DEF Nearing
  <2> QED BY <1>6, <2>1, <2>5 DEF r, NearEnd
<1>10. CASE ~ (NodeKey[e] = NodeKey[q] \/ NodeKey[e] < NodeKey[q])
  <2>1. s = "right" /\ r.tmp = k /\ r.res = d.res /\ NodeKey[q] < NodeKey[e]
    BY <1>1, <1>2, <1>3, <1>7, <1>10
  <2>2. \A b \in U[o] : b \in M /\ NodeKey[b] < NodeKey[q]
    BY <1>5, <2>1 DEF On, Other
  <2>3. ASSUME NEW m \in M, NodeKey[m] >= NodeKey[e]
        PROVE  m \in U[k] \/ (d.res # NULL /\ NodeKey[d.res] <= NodeKey[m])
    <3>1. CASE m \in U[q]
      BY <1>1, <1>2, <1>4, <2>1, <2>2, <2>3, <3>1
    <3>2. CASE m \notin U[q]
      BY <2>3, <3>2 DEF Nearing
    <3> QED BY <3>1, <3>2
  <2>4. Nearing(M, U, e, r)
    <3>1. /\ d.res \in M \cup {NULL} /\ d.res # NULL => NodeKey[d.res] >= NodeKey[e]
          /\ d.res # NULL /\ NodeKey[d.res] # NodeKey[e] =>
               \A b \in U[q] : NodeKey[b] < NodeKey[d.res]
      BY DEF Nearing
    <3> QED BY <1>4, <2>1, <2>3, <3>1 DEF Nearing
  <2> QED BY <1>6, <2>1, <2>4 DEF r, NearEnd
<1> QED BY <1>8, <1>9, <1>10

(* RB_NFIND.                                                               *)
LEMMA NearestIs ==
  ASSUME NEW t, NEW M, NEW U, Shape(t, M, U), NEW e \in Nodes
  PROVE  RB_NFIND(t, e) = Least({n \in M : NodeKey[n] >= NodeKey[e]})
<1>1. /\ Linked(t) /\ t.root \in Links /\ M \subseteq Nodes /\ NULL \notin M
      /\ \A m \in M : NodeKey[m] \in Int
  <2>1. t \in RBTrees
    BY DEF Shape
  <2> QED BY <2>1, TreeType, ShapeSelf DEF Shape
<1>2. PICK x \in [0..Rounds -> Nearby] :
        /\ x[0] = [tmp |-> t.root, res |-> NULL]
        /\ RB_NFIND(t, e) = x[Rounds].res
        /\ \A i \in 0..Rounds : i < Rounds => x[i + 1] = NearRound(t, e, x[i])
  BY <1>1, NearRounds
<1>3. Rounds \in Nat /\ Cardinality(Nodes) \in Nat /\ Rounds = Cardinality(Nodes) + 1
  BY RoundsType DEF Rounds
<1> DEFINE Stopped(d) == NearEnd(e, d)
           Size(d) == Cardinality(U[d.tmp])
           Good(d) == Nearing(M, U, e, d)
           S == {i \in 0..Rounds : /\ Good(x[i])
                                   /\ Stopped(x[i]) \/ i + Size(x[i]) <= Cardinality(Nodes)}
<1>4. 0 \in S
  <2>1. x[0].tmp = t.root /\ x[0].res = NULL
    BY <1>2
  <2>2. Good(x[0])
    BY <2>1 DEF Nearing, Shape
  <2>3. Size(x[0]) <= Cardinality(Nodes) /\ Size(x[0]) \in Nat
    <3>1. U[t.root] = M
      BY DEF Shape
    <3> QED BY <1>1, <2>1, <3>1, NodesAssumption, FS_Subset, FS_CardinalityType
  <2> HIDE DEF Good, Size, Stopped
  <2> QED BY <1>3, <2>2, <2>3
<1>5. ASSUME NEW i \in 0..Rounds, i < Rounds, i \in S PROVE i + 1 \in S
  <2>1. i + 1 \in 0..Rounds /\ i \in Nat
    BY <1>3, <1>5
  <2>2. x[i] \in Nearby /\ Good(x[i]) /\ (Stopped(x[i]) \/ i + Size(x[i]) <= Cardinality(Nodes))
    BY <1>5
  <2>3. x[i + 1] = NearRound(t, e, x[i])
    BY <1>2, <1>5
  <2>4. CASE Stopped(x[i])
    <3>1. x[i + 1] = x[i]
      BY <1>1, <2>2, <2>3, <2>4, NearRoundIs
    <3> HIDE DEF Good, Size, Stopped
    <3> QED BY <2>1, <2>2, <2>4, <3>1
  <2>5. CASE ~ Stopped(x[i])
    <3>1. /\ Good(x[i + 1])
          /\ \/ Stopped(x[i + 1])
             \/ Size(x[i]) \in Nat /\ Size(x[i + 1]) \in Nat /\ Size(x[i + 1]) < Size(x[i])
      BY <2>2, <2>3, <2>5, NearingGoesOn
    <3> HIDE DEF Good, Size, Stopped
    <3> QED BY <1>3, <2>1, <2>2, <2>5, <3>1
  <2> QED BY <2>4, <2>5
<1>6. Rounds \in S
  <2>1. \A i \in 0..Rounds : i \in S
    <3> HIDE DEF S
    <3> QED BY <1>3, <1>4, <1>5, Counting
  <2> QED BY <1>3, <2>1
<1> DEFINE d == x[Rounds]
           K == {n \in M : NodeKey[n] >= NodeKey[e]}
<1>7. Good(d) /\ (Stopped(d) \/ Rounds + Size(d) <= Cardinality(Nodes))
  BY <1>6
<1>8. Stopped(d)
  <2>1. d.tmp # NULL => Size(d) \in Nat
    <3>1. d.tmp \in M \cup {NULL}
      BY <1>7 DEF Nearing
    <3> QED BY <3>1, ShapeSelf
  <2>2. d.tmp = NULL => Stopped(d)
    BY DEF NearEnd
  <2> HIDE DEF Size, Stopped, d
  <2> QED BY <1>3, <1>7, <2>1, <2>2
<1>9. RB_NFIND(t, e) = d.res
  BY <1>2
<1> HIDE DEF d
<1>10. CASE d.res # NULL
  <2>1. d.res \in K /\ K \in SUBSET M
    BY <1>7, <1>10 DEF Nearing
  <2>2. \A m \in K : NodeKey[d.res] <= NodeKey[m]
    <3>1. CASE d.tmp = NULL
      BY <1>7, <3>1 DEF Nearing, Shape
    <3>2. CASE NodeKey[d.res] = NodeKey[e]
      <4>1. NodeKey[e] \in Int
        BY NodesAssumption
      <4> QED BY <1>1, <3>2, <4>1
    <3> QED BY <1>8, <3>1, <3>2 DEF NearEnd
  <2> HIDE DEF K
  <2>3. Least(K) = d.res
    BY <2>1, <2>2, LeastIs, ShapeKeys
  <2> QED BY <1>9, <2>3 DEF K
<1>11. CASE d.res = NULL
  <2>1. K = {}
    BY <1>7, <1>8, <1>11 DEF Nearing, NearEnd, Shape
  <2>2. Least(K) = NULL
    BY <2>1 DEF Least
  <2> QED BY <1>9, <1>11, <2>2
<1> QED BY <1>10, <1>11

(* One round of the climb of RB_STEP.                                      *)
ClimbRound(t, s, m) == IF t.parent[m] # NULL /\ m = t.kid[s][t.parent[m]] THEN t.parent[m] ELSE m

LEMMA ClimbRoundIs ==
  ASSUME NEW t, NEW M, NEW U, Shape(t, M, U), NEW s \in Sides, NEW m \in M
  PROVE  /\ ClimbRound(t, s, m) \in M
         /\ t.parent[m] # NULL => t.parent[m] \in M /\ m \in U[t.parent[m]]
                                  /\ \E z \in Sides : m = t.kid[z][t.parent[m]]
         /\ t.parent[m] = NULL => m = t.root
<1>1. t.parent[t.root] = NULL \/ m # t.root
  <2>1. NULL \notin M
    BY ShapeSelf
  <2> QED BY <2>1 DEF Shape
<1>2. CASE m = t.root
  BY <1>1, <1>2 DEF ClimbRound
<1>3. CASE m # t.root
  <2> DEFINE p == t.parent[m]
  <2>1. p \in M /\ p # NULL /\ \E z \in Sides : t.kid[z][p] = m
    BY <1>3, ShapeParent
  <2>2. PICK z \in Sides : t.kid[z][p] = m
    BY <2>1
  <2>3. m \in U[m] /\ U[t.kid[z][p]] \subseteq U[p]
    BY <2>1, ShapeSelf
  <2>4. m \in U[p]
    BY <2>2, <2>3
  <2> QED BY <2>1, <2>2, <2>4, <1>3 DEF ClimbRound
<1> QED BY <1>2, <1>3

(* The climb, round by round.                                              *)
LEMMA ClimbRounds ==
  ASSUME NEW t, NEW M, NEW U, Shape(t, M, U), NEW s \in Sides, NEW n \in M, t.kid[s][n] = NULL
  PROVE  \E x \in [0..Rounds -> M] :
           /\ x[0] = n /\ RB_STEP(t, n, s) = t.parent[x[Rounds]]
           /\ \A i \in 0..Rounds : i < Rounds => x[i + 1] = ClimbRound(t, s, x[i])
<1> DEFINE step(d) == ClimbRound(t, s, d)
           F == [d \in M |-> step(d)]
           Eq(x) == x = [i \in 0..Rounds |-> IF i = 0 THEN n ELSE step(x[i - 1])]
           z == CHOOSE x : Eq(x)
<1>1. RB_STEP(t, n, s) = t.parent[z[Rounds]]
  BY Zenon DEF RB_STEP, Loop, Rounds, ClimbRound
<1>2. F \in [M -> M]
  BY ClimbRoundIs
<1>3. Rounds \in Nat
  BY RoundsType
<1>4. PICK x : IteratesOf(x, Rounds, M, F, n)
  <2> HIDE DEF F
  <2> QED BY <1>2, <1>3, Iterates
<1>5. Eq(x)
  <2>1. \A i \in 1..Rounds : F[x[i - 1]] = step(x[i - 1])
    <3>1. \A i \in 1..Rounds : x[i - 1] \in M
      BY <1>3, <1>4 DEF IteratesOf
    <3> HIDE DEF step
    <3> QED BY <3>1
  <2> HIDE DEF F, step
  <2> QED BY <1>4, <2>1 DEF IteratesOf
<1>6. Eq(z)
  <2> HIDE DEF Eq
  <2> QED BY <1>5
<1>7. z = [i \in 0..Rounds |-> IF i = 0 THEN n ELSE step(z[i - 1])]
  BY <1>6
<1> HIDE DEF z
<1> DEFINE S == {i \in 0..Rounds : z[i] \in M}
<1>8. \A i \in 0..Rounds : i < Rounds => z[i + 1] = step(z[i])
  <2> TAKE i \in 0..Rounds
  <2> HAVE i < Rounds
  <2>1. i + 1 \in 0..Rounds /\ i + 1 # 0 /\ (i + 1) - 1 = i
    BY <1>3
  <2> HIDE DEF step
  <2> QED BY <1>7, <2>1
<1>9. z[0] = n
  <2> HIDE DEF step
  <2>1. 0 \in 0..Rounds
    BY <1>3
  <2> QED BY <1>7, <2>1
<1>10. \A i \in 0..Rounds : i \in S
  <2>1. 0 \in S
    BY <1>3, <1>9
  <2>2. \A i \in 0..Rounds : i < Rounds /\ i \in S => i + 1 \in S
    BY <1>3, <1>8, ClimbRoundIs
  <2> HIDE DEF S
  <2> QED BY <1>3, <2>1, <2>2, Counting
<1>11. z \in [0..Rounds -> M]
  <2> HIDE DEF step
  <2> QED BY <1>7, <1>10
<1> QED BY <1>1, <1>8, <1>9, <1>11

(* The nodes below where the climb is are n and nodes on its other side.   *)
Climbing(M, U, n, s, x) == x \in M /\ n \in U[x] /\ \A a \in U[x] : a = n \/ On(Other(s), a, n)

LEMMA ClimbGoesOn ==
  ASSUME NEW t, NEW M, NEW U, Shape(t, M, U), NEW s \in Sides, NEW n \in M,
         NEW x, Climbing(M, U, n, s, x), ClimbRound(t, s, x) # x
  PROVE  LET r == ClimbRound(t, s, x)
         IN  /\ Climbing(M, U, n, s, r)
             /\ Cardinality(U[x]) \in Nat /\ Cardinality(U[r]) \in Nat
             /\ Cardinality(U[x]) < Cardinality(U[r])
<1> DEFINE r == t.parent[x]
<1>1. r # NULL /\ x = t.kid[s][r] /\ ClimbRound(t, s, x) = r
  BY DEF ClimbRound
<1>2. r \in M /\ x \in M /\ M \in SUBSET Nodes /\ NULL \notin M /\ Other(s) \in Sides
  <2>1. x \in M
    BY DEF Climbing
  <2>2. M \in SUBSET Nodes
    BY DEF Shape
  <2>3. r \in M
    BY <1>1, <2>1, ClimbRoundIs
  <2> QED BY <2>1, <2>2, <2>3, ShapeSelf, OtherSide
<1> HIDE DEF r
<1>3. /\ U[r] = {r} \cup U[x] \cup U[t.kid[Other(s)][r]]
      /\ \A m \in U[x] : m \in M /\ On(s, m, r)
  BY <1>1, <1>2, ShapeSides
<1>4. \A m \in U[t.kid[Other(s)][r]] : m \in M /\ On(Other(s), m, r)
  BY <1>2, ShapeSides
<1>5. n \in U[x] /\ On(Other(s), r, n)
  <2>1. n \in U[x] /\ On(s, n, r)
    BY <1>3 DEF Climbing
  <2> QED BY <1>2, <2>1, OnOrder
<1>6. \A a \in U[r] : a = n \/ On(Other(s), a, n)
  <2> TAKE a \in U[r]
  <2>1. CASE a = r
    BY <1>5, <2>1
  <2>2. CASE a \in U[x]
    BY <2>2 DEF Climbing
  <2>3. CASE a \in U[t.kid[Other(s)][r]]
    <3>1. a \in M /\ On(Other(s), a, r)
      BY <1>4, <2>3
    <3> QED BY <1>2, <1>5, <3>1, OnOrder
  <2> QED BY <1>3, <2>1, <2>2, <2>3
<1>7. /\ Cardinality(U[x]) \in Nat /\ Cardinality(U[r]) \in Nat
      /\ Cardinality(U[x]) < Cardinality(U[r])
  <2>1. t.kid[s][r] # NULL
    BY <1>1, <1>2
  <2> QED BY <1>1, <1>2, <2>1, KidSmaller
<1>8. Climbing(M, U, n, s, r)
  BY <1>2, <1>3, <1>5, <1>6 DEF Climbing
<1> QED BY <1>1, <1>7, <1>8

(* The climb ends at the root or where the way comes from the other side.  *)
LEMMA ClimbIs ==
  ASSUME NEW t, NEW M, NEW U, Shape(t, M, U), NEW s \in Sides, NEW n \in M, t.kid[s][n] = NULL
  PROVE  \E x \in M : /\ Climbing(M, U, n, s, x) /\ ClimbRound(t, s, x) = x
                      /\ RB_STEP(t, n, s) = t.parent[x]
<1>1. PICK x \in [0..Rounds -> M] :
        /\ x[0] = n /\ RB_STEP(t, n, s) = t.parent[x[Rounds]]
        /\ \A i \in 0..Rounds : i < Rounds => x[i + 1] = ClimbRound(t, s, x[i])
  BY ClimbRounds
<1>2. Rounds \in Nat /\ Cardinality(Nodes) \in Nat /\ Rounds = Cardinality(Nodes) + 1
  BY RoundsType DEF Rounds
<1> DEFINE Stopped(m) == ClimbRound(t, s, m) = m
           Size(m) == Cardinality(U[m])
           Good(m) == Climbing(M, U, n, s, m)
           S == {i \in 0..Rounds : Good(x[i]) /\ (Stopped(x[i]) \/ Size(x[i]) >= i)}
<1>3. \A m \in M : Size(m) \in Nat /\ Size(m) <= Cardinality(Nodes)
  <2> TAKE m \in M
  <2>1. U[m] \subseteq Nodes
    BY DEF Shape
  <2> QED BY <2>1, NodesAssumption, FS_Subset, FS_CardinalityType
<1>4. 0 \in S
  <2>1. Good(n)
    <3>1. n \in U[n] /\ U[n] = {n} \cup U[t.kid[s][n]] \cup U[t.kid[Other(s)][n]]
      BY ShapeSides, ShapeSelf
    <3>2. \A m \in U[t.kid[Other(s)][n]] : On(Other(s), m, n)
      BY OtherSide, ShapeSides
    <3>3. U[t.kid[s][n]] = {}
      BY DEF Shape
    <3> QED BY <3>1, <3>2, <3>3 DEF Climbing
  <2>2. Size(x[0]) >= 0
    BY <1>1, <1>3
  <2> HIDE DEF Good, Size, Stopped
  <2> QED BY <1>1, <1>2, <2>1, <2>2
<1>5. ASSUME NEW i \in 0..Rounds, i < Rounds, i \in S PROVE i + 1 \in S
  <2>1. i + 1 \in 0..Rounds /\ i \in Nat
    BY <1>2, <1>5
  <2>2. Good(x[i]) /\ (Stopped(x[i]) \/ Size(x[i]) >= i) /\ x[i + 1] = ClimbRound(t, s, x[i])
    BY <1>1, <1>5
  <2>3. CASE Stopped(x[i])
    <3>1. x[i + 1] = x[i]
      BY <2>2, <2>3
    <3> HIDE DEF Good, Size, Stopped
    <3> QED BY <2>1, <2>2, <2>3, <3>1
  <2>4. CASE ~ Stopped(x[i])
    <3>1. Good(x[i + 1]) /\ Size(x[i]) \in Nat /\ Size(x[i + 1]) \in Nat /\ Size(x[i]) < Size(x[i + 1])
      BY <2>2, <2>4, ClimbGoesOn
    <3> HIDE DEF Good, Size, Stopped
    <3> QED BY <2>1, <2>2, <2>4, <3>1
  <2> QED BY <2>3, <2>4
<1>6. Rounds \in S
  <2>1. \A i \in 0..Rounds : i \in S
    <3> HIDE DEF S
    <3> QED BY <1>2, <1>4, <1>5, Counting
  <2> QED BY <1>2, <2>1
<1>7. x[Rounds] \in M
  BY <1>2
<1>8. Stopped(x[Rounds])
  <2>1. Size(x[Rounds]) \in Nat /\ Size(x[Rounds]) <= Cardinality(Nodes)
    BY <1>3, <1>7
  <2>2. Stopped(x[Rounds]) \/ Size(x[Rounds]) >= Rounds
    BY <1>6
  <2> HIDE DEF Size, Stopped
  <2> QED BY <1>2, <2>1, <2>2
<1> QED BY <1>1, <1>6, <1>7, <1>8

(* RB_NEXT and RB_PREV.                                                    *)
LEMMA StepIs ==
  ASSUME NEW t, NEW M, NEW U, Shape(t, M, U), NEW s \in Sides, NEW n \in M
  PROVE  RB_STEP(t, n, s) = Beyond(M, n, s)
<1>1. M \in SUBSET Nodes /\ Other(s) \in Sides /\ Other(Other(s)) = s /\ NULL \notin M
  BY ShapeSelf DEF Shape, Other, Sides
<1>2. CASE t.kid[s][n] # NULL
  <2> DEFINE k == t.kid[s][n]
             f == Furthest(t, k, Other(s))
  <2>1. /\ U[n] = {n} \cup U[k] \cup U[t.kid[Other(s)][n]] /\ k \in M
        /\ \A m \in U[k] : m \in M /\ On(s, m, n)
    BY <1>2, ShapeSides
  <2>2. \A m \in U[t.kid[Other(s)][n]] : m \in M /\ On(Other(s), m, n)
    BY <1>1, ShapeSides
  <2>3. RB_STEP(t, n, s) = f
    BY <1>2 DEF RB_STEP
  <2> HIDE DEF k
  <2>4. f \in U[k] /\ f \in M /\ \A m \in U[k] : m = f \/ On(s, m, f)
    <3>1. \A m \in U[k] : m = f \/ On(Other(Other(s)), m, f)
      BY <1>1, <2>1, FurthestIs
    <3>2. f \in U[k] /\ f \in M
      BY <1>1, <2>1, FurthestIs
    <3> QED BY <1>1, <3>1, <3>2
  <2> HIDE DEF f
  <2>5. On(s, f, n) /\ f \in U[n]
    BY <2>1, <2>4
  <2>6. ASSUME NEW m \in M, On(s, m, n) PROVE m = f \/ On(s, m, f)
    <3>1. CASE m \in U[n]
      <4>1. m # n /\ ~ On(Other(s), m, n)
        BY <1>1, <2>6, OnOrder
      <4> QED BY <2>1, <2>2, <2>4, <3>1, <4>1
    <3>2. CASE m \notin U[n]
      <4>1. PICK z \in Sides : \A a \in U[n] : On(z, m, a)
        BY <3>2, ShapeElsewhere
      <4>2. On(z, m, n) /\ On(z, m, f)
        <5>1. n \in U[n]
          BY ShapeSelf
        <5> QED BY <2>5, <4>1, <5>1
      <4>3. z = s
        <5>1. ~ On(Other(s), m, n)
          BY <1>1, <2>6, OnOrder
        <5> QED BY <4>2, <5>1 DEF Sides, Other
      <4> QED BY <4>2, <4>3
    <3> QED BY <3>1, <3>2
  <2> QED BY <2>3, <2>4, <2>5, <2>6, BeyondIs, ShapeKeys
<1>3. CASE t.kid[s][n] = NULL
  <2>1. PICK x \in M : /\ Climbing(M, U, n, s, x) /\ ClimbRound(t, s, x) = x
                      /\ RB_STEP(t, n, s) = t.parent[x]
    BY <1>3, ClimbIs
  <2> DEFINE p == t.parent[x]
  <2>2. n \in U[x] /\ \A a \in U[x] : ~ On(s, a, n)
    <3>1. n \in U[x] /\ \A a \in U[x] : a = n \/ On(Other(s), a, n)
      BY <2>1 DEF Climbing
    <3>2. ASSUME NEW a \in M, a = n \/ On(Other(s), a, n) PROVE ~ On(s, a, n)
      <4>1. NodeKey[a] \in Int /\ NodeKey[n] \in Int
        BY ShapeSelf
      <4> QED BY <3>2, <4>1 DEF On, Other, Sides
    <3>3. U[x] \subseteq M
      BY DEF Shape
    <3> QED BY <3>1, <3>2, <3>3
  <2>3. CASE p = NULL
    <3>1. x = t.root /\ U[x] = M
      <4>1. x = t.root
        BY <2>3, ClimbRoundIs
      <4> QED BY <4>1 DEF Shape
    <3>2. {m \in M : On(s, m, n)} = {}
      BY <2>2, <3>1
    <3> QED BY <1>1, <2>1, <2>3, <3>2, BeyondFirst, NoneFirst
  <2>4. CASE p # NULL
    <3>1. p \in M /\ x \in U[p] /\ \E z \in Sides : x = t.kid[z][p]
      BY <2>4, ClimbRoundIs
    <3>2. x # t.kid[s][p]
      <4>1. x # p
        <5>1. PICK z \in Sides : x = t.kid[z][p]
          BY <3>1
        <5>2. p \notin U[t.kid[z][p]] /\ x \in U[x]
          BY <3>1, ShapeSelf
        <5> QED BY <5>1, <5>2
      <4> QED BY <2>1, <2>4, <4>1 DEF ClimbRound
    <3>3. x = t.kid[Other(s)][p]
      BY <3>1, <3>2 DEF Sides, Other
    <3> HIDE DEF p
    <3>4. /\ U[p] = {p} \cup U[t.kid[s][p]] \cup U[x]
          /\ \A m \in U[t.kid[s][p]] : m \in M /\ On(s, m, p)
      BY <3>1, <3>3, ShapeSides
    <3>5. \A m \in U[x] : m \in M /\ On(Other(s), m, p)
      BY <1>1, <3>1, <3>3, ShapeSides
    <3>6. On(s, p, n)
      <4>1. On(Other(s), n, p)
        BY <2>2, <3>5
      <4> QED BY <1>1, <3>1, <4>1, OnOrder
    <3>7. ASSUME NEW m \in M, On(s, m, n) PROVE m = p \/ On(s, m, p)
      <4>1. m \notin U[x]
        BY <2>2, <3>7
      <4>2. CASE m \in U[p]
        BY <3>4, <4>1, <4>2
      <4>3. CASE m \notin U[p]
        <5>1. PICK z \in Sides : \A a \in U[p] : On(z, m, a)
          BY <3>1, <4>3, ShapeElsewhere
        <5>2. On(z, m, p) /\ On(z, m, n)
          <6>1. p \in U[p]
            BY <3>1, ShapeSelf
          <6> QED BY <2>2, <3>4, <5>1, <6>1
        <5>3. z = s
          <6>1. ~ On(Other(s), m, n)
            BY <1>1, <3>7, OnOrder
          <6> QED BY <5>2, <6>1 DEF Sides, Other
        <5> QED BY <5>2, <5>3
      <4> QED BY <4>2, <4>3
    <3>8. Beyond(M, n, s) = p
      BY <3>1, <3>6, <3>7, BeyondIs, ShapeKeys
    <3> QED BY <2>1, <3>8 DEF p
  <2> QED BY <2>3, <2>4
<1> QED BY <1>2, <1>3

-----------------------------------------------------------------------------
(* In the empty tree there is no way to go.                                *)
LEMMA FurthestNone ==
  ASSUME NEW t, Linked(t), NEW s \in Sides
  PROVE  Furthest(t, NULL, s) = NULL
<1>1. PICK x \in [0..Rounds -> Links] :
        /\ x[0] = NULL /\ Furthest(t, NULL, s) = x[Rounds]
        /\ \A i \in 0..Rounds : i < Rounds =>
             x[i + 1] = IF x[i] = NULL \/ t.kid[s][x[i]] = NULL THEN x[i] ELSE t.kid[s][x[i]]
  <2>1. NULL \in Links
    BY DEF Links
  <2> QED BY <2>1, FurthestRounds
<1>2. Rounds \in Nat
  BY RoundsType
<1> DEFINE S == {i \in 0..Rounds : x[i] = NULL}
<1>3. 0 \in S /\ \A i \in 0..Rounds : i < Rounds /\ i \in S => i + 1 \in S
  BY <1>1, <1>2
<1>4. \A i \in 0..Rounds : i \in S
  <2> HIDE DEF S
  <2> QED BY <1>2, <1>3, Counting
<1> QED BY <1>1, <1>2, <1>4

(* What a walk has still to see lies beyond the node it is at, which may   *)
(* be in the tree no more, and it has saved the first of that.             *)
WalkAt(w, M) ==
  w.on =>
    /\ w.side \in Sides /\ w.x = FirstOf(w.todo, w.side)
    /\ w.x = NULL => w.todo = {} /\ w.y = NULL
    /\ w.x # NULL => /\ w.x \in Nodes
                     /\ w.todo \ {w.x} = {m \in M : On(Other(w.side), m, w.x)}
                     /\ w.y = FirstOf(w.todo \ {w.x}, w.side)

(* A walk comes to the first of some nodes, beyond which the rest lie.     *)
LEMMA WalkComes ==
  ASSUME NEW U, Shape(rb, members, U), NEW s \in Sides, NEW S \in SUBSET members,
         S # {} => \A m \in members : On(Other(s), m, FirstOf(S, s)) => m \in S
  PROVE  WalkAt(Walk(s, FirstOf(S, s), S), members)
<1> DEFINE x == FirstOf(S, s)
           y == IF x = NULL THEN NULL ELSE RB_STEP(rb, x, Other(s))
           w == Walk(s, x, S)
<1>1. w.side = s /\ w.x = x /\ w.todo = S /\ w.y = y
  BY DEF Walk
<1>2. NULL \notin members /\ members \in SUBSET Nodes
  BY ShapeSelf DEF Shape
<1>3. CASE S = {}
  <2>1. x = NULL
    BY <1>3, NoneFirst
  <2> HIDE DEF w
  <2>2. w.x = NULL /\ w.y = NULL /\ w.todo = {} /\ w.side = s /\ FirstOf({}, s) = NULL
    BY <1>1, <1>3, <2>1, NoneFirst
  <2>3. WalkAt(w, members)
    BY <2>2 DEF WalkAt
  <2> QED BY <2>3 DEF w
<1>4. CASE S # {}
  <2>1. x \in S /\ \A m \in S : m = x \/ On(Other(s), m, x)
    BY <1>4, FirstExists, ShapeKeys
  <2>2. x # NULL /\ x \in members /\ x \in Nodes /\ Other(s) \in Sides /\ Other(Other(s)) = s
    BY <1>2, <2>1 DEF Sides, Other
  <2>3. y = FirstOf({m \in members : On(Other(s), m, x)}, s)
    <3>1. y = Beyond(members, x, Other(s))
      BY <2>2, StepIs
    <3>2. Beyond(members, x, Other(s)) = FirstOf({m \in members : On(Other(s), m, x)}, Other(Other(s)))
      BY <2>2, BeyondFirst
    <3> QED BY <2>2, <3>1, <3>2
  <2> HIDE DEF x, y, w
  <2>4. S \ {x} = {m \in members : On(Other(s), m, x)}
    <3>1. ~ On(Other(s), x, x)
      BY <1>2, <2>2, OnOrder
    <3> QED BY <1>4, <2>1, <3>1 DEF x
  <2>5. WalkAt(w, members)
    BY <1>1, <2>2, <2>3, <2>4 DEF WalkAt, x
  <2> QED BY <2>5 DEF w, x
<1> QED BY <1>3, <1>4

LEMMA WalkStartsKeeps ==
  ASSUME NEW U, Shape(rb, members, U), WalkStarts
  PROVE  WalkAt(walk', members')
<1>1. PICK s \in Sides : walk' = Walk(s, RB_MINMAX(rb, s), members)
  BY DEF WalkStarts
<1>2. RB_MINMAX(rb, s) = FirstOf(members, s)
  <2>1. CASE members # {}
    BY <2>1, MinMaxIs
  <2>2. CASE members = {}
    <3>1. rb.root = NULL /\ rb \in RBTrees
      BY <2>2 DEF Shape
    <3>2. Furthest(rb, NULL, s) = NULL
      BY <3>1, TreeType, FurthestNone
    <3> QED BY <2>2, <3>1, <3>2, NoneFirst DEF RB_MINMAX
  <2> QED BY <2>1, <2>2
<1>3. members \in SUBSET members /\ members' = members
  BY DEF WalkStarts
<1>4. WalkAt(Walk(s, FirstOf(members, s), members), members)
  BY <1>3, WalkComes
<1> QED BY <1>1, <1>2, <1>3, <1>4

LEMMA WalkMovesKeeps ==
  ASSUME NEW U, Shape(rb, members, U), WalkAt(walk, members), WalkMoves
  PROVE  WalkAt(walk', members')
<1>1. members' = members /\ walk.on
      /\ walk' = IF walk.x = NULL THEN NoWalk ELSE Walk(walk.side, walk.y, walk.todo \ {walk.x})
  BY DEF WalkMoves
<1>2. CASE walk.x = NULL
  BY <1>1, <1>2 DEF NoWalk, WalkAt
<1>3. CASE walk.x # NULL
  <2> DEFINE s == walk.side
             o == Other(s)
             left == walk.todo \ {walk.x}
  <2>1. /\ s \in Sides /\ walk.x \in Nodes /\ walk.y = FirstOf(left, s)
        /\ left = {m \in members : On(o, m, walk.x)}
    BY <1>1, <1>3 DEF WalkAt
  <2>2. members \in SUBSET Nodes /\ o \in Sides
    BY OtherSide DEF Shape, Other, Sides
  <2> HIDE DEF left, o, s
  <2>3. left \in SUBSET members
    BY <2>1
  <2>4. ASSUME left # {}, NEW m \in members, On(o, m, FirstOf(left, s)) PROVE m \in left
    <3>1. FirstOf(left, s) \in left
      BY <2>1, <2>3, <2>4, FirstExists, ShapeKeys
    <3>2. FirstOf(left, s) \in members /\ On(o, FirstOf(left, s), walk.x)
      BY <2>1, <3>1
    <3>3. On(o, m, walk.x)
      BY <2>1, <2>2, <2>4, <3>2, OnOrder
    <3> QED BY <2>1, <3>3
  <2>5. WalkAt(Walk(s, FirstOf(left, s), left), members)
    BY <2>1, <2>3, <2>4, WalkComes DEF o
  <2> QED BY <1>1, <1>3, <2>1, <2>5 DEF s, left
<1> QED BY <1>2, <1>3

LEMMA WalkRemovesKeeps ==
  ASSUME WalkAt(walk, members), members \in SUBSET Nodes, WalkRemoves
  PROVE  WalkAt(walk', members')
<1>1. walk' = walk /\ walk.x \in members /\ members' = members \ {walk.x} /\ walk.on
  BY Zenon DEF WalkRemoves, RemoveNode
<1>2. walk.side \in Sides /\ Other(walk.side) \in Sides
  BY <1>1 DEF WalkAt, Sides, Other
<1>3. ~ On(Other(walk.side), walk.x, walk.x)
  BY <1>1, <1>2, OnOrder
<1>4. {m \in members' : On(Other(walk.side), m, walk.x)} = {m \in members : On(Other(walk.side), m, walk.x)}
  BY <1>1, <1>3
<1>5. WalkAt(walk, members')
  BY <1>4 DEF WalkAt
<1> QED BY <1>1, <1>5

(* What the lookups and the walk give is what RBFinds says.                *)
LEMMA ShapeFinds ==
  ASSUME NEW U, Shape(rb, members, U), WalkAt(walk, members)
  PROVE  RBFinds
<1>1. NULL \notin members /\ members \in SUBSET Nodes
  BY ShapeSelf DEF Shape
<1>2. RBLookups
  <2> SUFFICES ASSUME members # {} PROVE
        /\ \A e \in Nodes :
             /\ RB_FIND(rb, e) = Least({n \in members : NodeKey[n] = NodeKey[e]})
             /\ RB_NFIND(rb, e) = Least({n \in members : NodeKey[n] >= NodeKey[e]})
        /\ RB_MINMAX(rb, "left") = Least(members) /\ RB_MINMAX(rb, "right") = Greatest(members)
        /\ \A n \in members, s \in Sides : RB_STEP(rb, n, s) = Beyond(members, n, s)
    BY DEF RBLookups
  <2>1. /\ RB_MINMAX(rb, "left") = FirstOf(members, "left")
        /\ RB_MINMAX(rb, "right") = FirstOf(members, "right")
    BY MinMaxIs DEF Sides
  <2>2. FirstOf(members, "left") = Least(members) /\ FirstOf(members, "right") = Greatest(members)
    BY DEF FirstOf
  <2> QED BY <2>1, <2>2, FindIs, NearestIs, StepIs
<1>3. WalkSeesAll
  <2> SUFFICES ASSUME walk.on
               PROVE  /\ walk.x = FirstOf(walk.todo, walk.side)
                      /\ walk.y # NULL => walk.y \in members
    BY DEF WalkSeesAll, FirstOf
  <2>1. walk.side \in Sides /\ walk.x = FirstOf(walk.todo, walk.side)
    BY DEF WalkAt
  <2>2. ASSUME walk.y # NULL PROVE walk.y \in members
    <3> DEFINE left == walk.todo \ {walk.x}
    <3>1. left \in SUBSET members /\ walk.y = FirstOf(left, walk.side)
      BY <2>2 DEF WalkAt
    <3> HIDE DEF left
    <3>2. left # {}
      BY <2>2, <3>1, NoneFirst
    <3>3. walk.y \in left
      BY <2>1, <3>1, <3>2, FirstExists, ShapeKeys
    <3> QED BY <3>1, <3>3
  <2> QED BY <2>1, <2>2
<1> QED BY <1>2, <1>3 DEF RBFinds

(* What a walk keeps while it goes on: see WalkAt.                         *)
WalkInv == WalkAt(walk, members)

(* Every step keeps it: nothing is inserted while a walk goes on, and      *)
(* nothing is removed but the node it is at.                               *)
LEMMA WalkNext == RBInv /\ WalkInv /\ [TreesNext]_treeVars => WalkInv'
<1> SUFFICES ASSUME RBInv, WalkInv, [TreesNext]_treeVars PROVE WalkInv'
  OBVIOUS
<1>1. PICK U : Shape(rb, members, U)
  BY DEF RBInv
<1>2. ASSUME UNCHANGED <<members, walk>> PROVE WalkInv'
  BY <1>2 DEF WalkInv
<1>3. CASE RB_INSERT \/ RB_REMOVE
  <2>1. walk' = walk /\ ~ walk.on
    BY <1>3, Zenon DEF RB_INSERT, RB_REMOVE
  <2> QED BY <2>1 DEF WalkInv, WalkAt
<1>4. CASE WalkStarts
  BY <1>1, <1>4, WalkStartsKeeps DEF WalkInv
<1>5. CASE WalkMoves
  BY <1>1, <1>5, WalkMovesKeeps DEF WalkInv
<1>6. CASE WalkRemoves
  <2>1. members \in SUBSET Nodes
    BY <1>1 DEF Shape
  <2> QED BY <1>6, <2>1, WalkRemovesKeeps DEF WalkInv
<1>7. CASE InsertTurns \/ InsertPaints \/ InsertEnds \/ RemoveRound \/ RemoveEnds
  <2>1. UNCHANGED <<members, walk>>
    BY <1>7, Zenon DEF InsertTurns, InsertPaints, InsertEnds, RemoveRound, RemoveEnds
  <2> QED BY <1>2, <2>1
<1>8. CASE SplayNext
  <2>1. UNCHANGED rbVars
    BY <1>8, Zenon DEF SplayNext, SPLAY_INSERT, SPLAY_REMOVE, SplayLookup
  <2> QED BY <1>2, <2>1 DEF rbVars
<1>9. CASE UNCHANGED treeVars
  BY <1>2, <1>9 DEF treeVars
<1> QED BY <1>3, <1>4, <1>5, <1>6, <1>7, <1>8, <1>9 DEF TreesNext, RBNext

(* Whatever was inserted and removed, RB_FIND, RB_NFIND, RB_MIN, RB_MAX,   *)
(* RB_NEXT and RB_PREV give the node the keys in the tree say, and a walk  *)
(* with RB_FOREACH_SAFE sees every node in order although the body removes *)
(* the node it is at and the removal turns the tree around.                *)
THEOREM LookupsFind == TreesSpec => []RBFinds
<1>1. TreesInit => WalkInv
  BY DEF TreesInit, NoWalk, WalkInv, WalkAt
<1>2. RBInv /\ WalkInv => RBFinds
  BY ShapeFinds DEF RBInv, WalkInv
<1> QED BY <1>1, <1>2, InitInv, NextInv, WalkNext, PTL DEF TreesSpec
=============================================================================
