-------------------------------- MODULE Trees --------------------------------
(***************************************************************************)
(* The red-black and the splay trees that src/bsd/sys/tree.h generates.    *)
(* Both keep their links in the nodes the caller makes; two nodes may have *)
(* the same key.  A call of the red-black tree takes one step, and one for *)
(* each round of the loop that restores the colours; the caller may walk   *)
(* the tree and remove the node it is at.  A call of the splay tree is one *)
(* step.                                                                   *)
(*                                                                         *)
(* Left and right are two sides of one function, and the macros that       *)
(* differ in nothing but the side are one operator.  The links of a node   *)
(* that is in no tree are not read by anybody and are NULL here.           *)
(*                                                                         *)
(* A definition headed "Variant" is the one it precedes with a bug in it:  *)
(* nothing uses it, it shows what a property of this module tells apart.   *)
(***************************************************************************)
EXTENDS Integers, SequencesExt

CONSTANTS
  Nodes,      (* The caller's nodes.                                       *)
  NodeKey,    (* The key of each, as cmp compares them.                    *)
  NULL,       (* No node.                                                  *)
  Local,      (* The node that is a local variable of SPLAY.               *)
  SplayNodes  (* The nodes the splay tree is used with.                    *)

ASSUME NodesAssumption ==
  /\ IsFiniteSet(Nodes) /\ SplayNodes \subseteq Nodes
  /\ NULL \notin Nodes /\ Local \notin Nodes \cup {NULL}
  /\ NodeKey \in [Nodes -> Int]

VARIABLES
  rb,       (* the red-black tree: kid on each side, parent, color, root   *)
  rbpc,     (* the loop it is in; "ready": in none                         *)
  elm, par, (* the node the loop is at, and its parent in RB_REMOVE_COLOR  *)
  members,  (* the nodes that belong in the red-black tree                 *)
  walk,     (* a walk: its side, x, the node saved, the nodes not yet seen *)
  sp,       (* the splay tree: kid and root                                *)
  spIn      (* the nodes that belong in it                                 *)

rbVars == <<rb, rbpc, elm, par, members, walk>>
spVars == <<sp, spIn>>
treeVars == <<rb, rbpc, elm, par, members, walk, sp, spIn>>

Sides == {"left", "right"}
Other(s) == IF s = "left" THEN "right" ELSE "left"
KeySide(n, m) == IF NodeKey[n] < NodeKey[m] THEN "left" ELSE "right"
NoWalk == [side |-> "left", x |-> NULL, y |-> NULL, todo |-> {}, on |-> FALSE]

TreesInit ==
  /\ rb = [kid |-> [s \in Sides |-> [n \in Nodes |-> NULL]],
           parent |-> [n \in Nodes |-> NULL],
           color |-> [n \in Nodes |-> "BLACK"], root |-> NULL]
  /\ rbpc = "ready" /\ elm = NULL /\ par = NULL /\ members = {} /\ walk = NoWalk
  /\ sp = [kid |-> [s \in Sides |-> [n \in Nodes \cup {Local} |-> NULL]], root |-> NULL]
  /\ spIn = {}

(* A loop over the tree ends after as many rounds as there are nodes.      *)
Loop(step(_), start) ==
  LET rounds == Cardinality(Nodes) + 1
      x[i \in 0..rounds] == IF i = 0 THEN start ELSE step(x[i - 1])
  IN  x[rounds]

-----------------------------------------------------------------------------
(* The red-black tree: links.                                              *)

SetKid(t, s, n, m) == [t EXCEPT !.kid[s][n] = m]
SetParent(t, n, p) == IF n = NULL THEN t ELSE [t EXCEPT !.parent[n] = p]

(* m becomes the kid of n on side s.                                       *)
Hang(t, s, n, m) == SetParent(SetKid(t, s, n, m), m, n)

(* What points to n, from its parent or from the head, points to m.        *)
Replace(t, p, n, m) ==
  IF p = NULL THEN [t EXCEPT !.root = m]
  ELSE SetKid(t, IF t.kid["left"][p] = n THEN "left" ELSE "right", p, m)

(* Variant: the inner subtree keeps its old parent.                        *)
RotateForgets(t, e, s) ==
  LET tmp == t.kid[Other(s)][e]
      inner == t.kid[s][tmp]
      t1 == SetKid(t, Other(s), e, inner)
      t2 == SetParent(Replace(t1, t.parent[e], e, tmp), tmp, t.parent[e])
  IN  SetParent(SetKid(t2, s, tmp, e), e, tmp)

(* tmp, a kid of e, takes its place.                                       *)
TurnUp(t, e, s, tmp) ==
  LET p == t.parent[e]
      t1 == Hang(t, Other(s), e, t.kid[s][tmp])
      t2 == SetParent(Replace(t1, p, e, tmp), tmp, p)
  IN  Hang(t2, s, tmp, e)

RB_ROTATE(t, e, s) == TurnUp(t, e, s, t.kid[Other(s)][e])

Paint(t, n, c) == [t EXCEPT !.color[n] = c]
Red(t, n) == n # NULL /\ t.color[n] = "RED"
RB_SET_BLACKRED(t, black, red) == Paint(Paint(t, black, "BLACK"), red, "RED")

(* All the fields of a node.                                               *)
RB_SET(t, e, left, right, p, c) ==
  Paint(SetParent(SetKid(SetKid(t, "left", e, left), "right", e, right), e, p), e, c)

-----------------------------------------------------------------------------
(* The red-black tree: RB_INSERT and RB_INSERT_COLOR.                      *)

(* The node with the key of e, or NULL and the node it would hang from.    *)
Descend(t, e) ==
  Loop(LAMBDA d : IF d.tmp = NULL \/ d.found # NULL THEN d
                  ELSE IF NodeKey[e] = NodeKey[d.tmp] THEN [d EXCEPT !.found = d.tmp]
                  ELSE [tmp |-> t.kid[KeySide(e, d.tmp)][d.tmp], parent |-> d.tmp, found |-> NULL],
       [tmp |-> t.root, parent |-> NULL, found |-> NULL])

RB_INSERT ==
  /\ rbpc = "ready" /\ ~walk.on
  /\ \E e \in Nodes \ members :
       LET d == Descend(rb, e)
           set == RB_SET(rb, e, NULL, NULL, d.parent, "RED")
       IN  /\ d.found = NULL
           /\ rb' = IF d.parent = NULL THEN [set EXCEPT !.root = e]
                    ELSE SetKid(set, KeySide(e, d.parent), d.parent, e)
           /\ elm' = e /\ members' = members \cup {e}
  /\ rbpc' = "insert_color" /\ UNCHANGED <<par, walk>> /\ UNCHANGED spVars

InsertTurns ==
  LET p == rb.parent[elm]
      g == rb.parent[p]
      s == IF p = rb.kid["left"][g] THEN "left" ELSE "right"
      inside == rb.kid[Other(s)][p] = elm
      t == IF inside THEN RB_ROTATE(rb, p, s) ELSE rb
  IN  /\ rbpc = "insert_color" /\ Red(rb, p) /\ ~Red(rb, rb.kid[Other(s)][g])
      /\ rb' = RB_ROTATE(RB_SET_BLACKRED(t, IF inside THEN elm ELSE p, g), g, Other(s))
      /\ elm' = IF inside THEN p ELSE elm
      /\ UNCHANGED <<rbpc, par, members, walk>> /\ UNCHANGED spVars

InsertPaints ==
  LET p == rb.parent[elm]
      g == rb.parent[p]
      tmp == rb.kid[IF p = rb.kid["left"][g] THEN "right" ELSE "left"][g]
  IN  /\ rbpc = "insert_color" /\ Red(rb, p) /\ Red(rb, tmp)
      /\ rb' = RB_SET_BLACKRED(Paint(rb, tmp, "BLACK"), p, g)
      /\ elm' = g
      /\ UNCHANGED <<rbpc, par, members, walk>> /\ UNCHANGED spVars

InsertEnds ==
  /\ rbpc = "insert_color" /\ ~Red(rb, rb.parent[elm])
  /\ rb' = Paint(rb, rb.root, "BLACK") /\ rbpc' = "ready" /\ elm' = NULL
  /\ UNCHANGED <<par, members, walk>> /\ UNCHANGED spVars

-----------------------------------------------------------------------------
(* The red-black tree: RB_REMOVE and RB_REMOVE_COLOR.                      *)

Furthest(t, n, s) ==
  Loop(LAMBDA m : IF m = NULL \/ t.kid[s][m] = NULL THEN m ELSE t.kid[s][m], n)

(* e is in no tree: see above.                                             *)
Cleared(t, e) == RB_SET(t, e, NULL, NULL, NULL, "BLACK")

(* e leaves a place with one subtree, which moves up.                      *)
Unlink(t, e, child) ==
  Replace(SetParent(t, child, t.parent[e]), t.parent[e], e, child)

(* e takes the place of old with all that belongs to it.                   *)
Substitute(t, old, e) ==
  LET t1 == RB_SET(t, e, t.kid["left"][old], t.kid["right"][old], t.parent[old], t.color[old])
      t2 == Replace(t1, t.parent[old], old, e)
  IN  SetParent(SetParent(t2, t.kid["left"][old], e), t.kid["right"][old], e)

(* What RB_REMOVE leaves to RB_REMOVE_COLOR: the tree, the child that went *)
(* up, its parent and the colour that is missing there.                    *)
Removed(t, old) ==
  IF NULL \in {t.kid[s][old] : s \in Sides}
  THEN LET child == t.kid[IF t.kid["left"][old] = NULL THEN "right" ELSE "left"][old]
       IN  [t |-> Unlink(t, old, child), child |-> child, parent |-> t.parent[old],
            color |-> t.color[old]]
  ELSE LET e == Furthest(t, t.kid["right"][old], "left")
           child == t.kid["right"][e]
           t1 == Unlink(t, e, child)
       IN  [t |-> Substitute(t1, old, e),
            child |-> child,
            parent |-> IF t1.parent[e] = old THEN e ELSE t.parent[e],
            color |-> t.color[e]]

RemoveNode(old) ==
  LET r == Removed(rb, old)
  IN  /\ rb' = Cleared(r.t, old) /\ members' = members \ {old}
      /\ IF r.color = "BLACK"
         THEN rbpc' = "remove_color" /\ elm' = r.child /\ par' = r.parent
         ELSE UNCHANGED <<rbpc, elm, par>>

RB_REMOVE ==
  /\ rbpc = "ready" /\ ~walk.on
  /\ \E old \in members : RemoveNode(old)
  /\ UNCHANGED walk /\ UNCHANGED spVars

RemoveGoesOn == rbpc = "remove_color" /\ ~Red(rb, elm) /\ elm # rb.root

(* Variant: the nephew keeps its colour in the last rotation.              *)
RemoveRoundKeepsRed ==
  LET s == IF rb.kid["left"][par] = elm THEN "left" ELSE "right"
      o == Other(s)
      sib == rb.kid[o][par]
      t1 == IF Red(rb, sib) THEN RB_ROTATE(RB_SET_BLACKRED(rb, sib, par), par, s) ELSE rb
      tmp == t1.kid[o][par]
      inner == t1.kid[s][tmp]
      t2 == IF Red(t1, t1.kid[o][tmp]) THEN t1
            ELSE RB_ROTATE(RB_SET_BLACKRED(t1, inner, tmp), tmp, o)
      top == t2.kid[o][par]
      t3 == Paint(Paint(t2, top, t2.color[par]), par, "BLACK")
  IN  /\ RemoveGoesOn
      /\ IF ~Red(t1, t1.kid["left"][tmp]) /\ ~Red(t1, t1.kid["right"][tmp])
         THEN rb' = Paint(t1, tmp, "RED") /\ elm' = par /\ par' = t1.parent[par]
         ELSE rb' = RB_ROTATE(t3, par, s) /\ elm' = rb'.root /\ UNCHANGED par
      /\ UNCHANGED <<rbpc, members, walk>> /\ UNCHANGED spVars

(* One round: a red sibling is turned away first; then either the blackness *)
(* moves up, or a red nephew takes it and the loop breaks.                 *)
RemoveRound ==
  LET s == IF rb.kid["left"][par] = elm THEN "left" ELSE "right"
      o == Other(s)
      sib == rb.kid[o][par]
      t1 == IF Red(rb, sib) THEN RB_ROTATE(RB_SET_BLACKRED(rb, sib, par), par, s) ELSE rb
      tmp == t1.kid[o][par]
      inner == t1.kid[s][tmp]
      t2 == IF Red(t1, t1.kid[o][tmp]) THEN t1
            ELSE RB_ROTATE(RB_SET_BLACKRED(t1, inner, tmp), tmp, o)
      top == t2.kid[o][par]
      t3 == Paint(Paint(Paint(t2, top, t2.color[par]), par, "BLACK"),
                  t2.kid[o][top], "BLACK")
  IN  /\ RemoveGoesOn
      /\ IF ~Red(t1, t1.kid["left"][tmp]) /\ ~Red(t1, t1.kid["right"][tmp])
         THEN rb' = Paint(t1, tmp, "RED") /\ elm' = par /\ par' = t1.parent[par]
         ELSE rb' = RB_ROTATE(t3, par, s) /\ elm' = rb'.root /\ UNCHANGED par
      /\ UNCHANGED <<rbpc, members, walk>> /\ UNCHANGED spVars

RemoveEnds ==
  /\ rbpc = "remove_color" /\ ~RemoveGoesOn
  /\ rb' = IF elm = NULL THEN rb ELSE Paint(rb, elm, "BLACK")
  /\ rbpc' = "ready" /\ elm' = NULL /\ par' = NULL
  /\ UNCHANGED <<members, walk>> /\ UNCHANGED spVars

-----------------------------------------------------------------------------
(* The red-black tree: looking up and walking.                             *)

RB_FIND(t, e) == Descend(t, e).found

(* Variant: turning right forgets the candidate.                           *)
NearestForgets(t, e) ==
  Loop(LAMBDA d : IF d.tmp = NULL \/ (d.res # NULL /\ NodeKey[d.res] = NodeKey[e]) THEN d
                  ELSE IF NodeKey[e] = NodeKey[d.tmp] THEN [d EXCEPT !.res = d.tmp]
                  ELSE [res |-> IF KeySide(e, d.tmp) = "left" THEN d.tmp ELSE NULL,
                        tmp |-> t.kid[KeySide(e, d.tmp)][d.tmp]],
       [tmp |-> t.root, res |-> NULL]).res

RB_NFIND(t, e) ==
  Loop(LAMBDA d : IF d.tmp = NULL \/ (d.res # NULL /\ NodeKey[d.res] = NodeKey[e]) THEN d
                  ELSE IF NodeKey[e] = NodeKey[d.tmp] THEN [d EXCEPT !.res = d.tmp]
                  ELSE [res |-> IF KeySide(e, d.tmp) = "left" THEN d.tmp ELSE d.res,
                        tmp |-> t.kid[KeySide(e, d.tmp)][d.tmp]],
       [tmp |-> t.root, res |-> NULL]).res

RB_MINMAX(t, s) == Furthest(t, t.root, s)

(* RB_NEXT steps to the right and RB_PREV to the left: into the subtree of *)
(* that side, or up as long as the way comes from that side.               *)
RB_STEP(t, n, s) ==
  IF t.kid[s][n] # NULL THEN Furthest(t, t.kid[s][n], Other(s))
  ELSE t.parent[Loop(LAMBDA m : IF t.parent[m] # NULL /\ m = t.kid[s][t.parent[m]]
                                THEN t.parent[m] ELSE m, n)]

(* RB_FOREACH_SAFE goes from "left" and RB_FOREACH_REVERSE_SAFE from       *)
(* "right"; y is saved before the body runs.                               *)
Walk(side, x, todo) ==
  [side |-> side, x |-> x, todo |-> todo, on |-> TRUE,
   y |-> IF x = NULL THEN NULL ELSE RB_STEP(rb, x, Other(side))]

WalkStarts ==
  /\ rbpc = "ready" /\ ~walk.on
  /\ \E s \in Sides : walk' = Walk(s, RB_MINMAX(rb, s), members)
  /\ UNCHANGED <<rb, rbpc, elm, par, members>> /\ UNCHANGED spVars

(* The body removes the node the walk is at.                               *)
WalkRemoves ==
  /\ rbpc = "ready" /\ walk.on /\ walk.x \in members
  /\ RemoveNode(walk.x)
  /\ UNCHANGED walk /\ UNCHANGED spVars

WalkMoves ==
  /\ rbpc = "ready" /\ walk.on
  /\ walk' = IF walk.x = NULL THEN NoWalk
             ELSE Walk(walk.side, walk.y, walk.todo \ {walk.x})
  /\ UNCHANGED <<rb, rbpc, elm, par, members>> /\ UNCHANGED spVars

-----------------------------------------------------------------------------
(* The splay tree.                                                         *)

(* Variant: the rotation drops the subtree between the two nodes.          *)
SplayRotateDrops(t, tmp, s) ==
  [t EXCEPT !.kid[Other(s)][t.root] = NULL, !.kid[s][tmp] = t.root, !.root = tmp]

SPLAY_ROTATE(t, tmp, s) ==
  [t EXCEPT !.kid[Other(s)][t.root] = t.kid[s][tmp],
            !.kid[s][tmp] = t.root, !.root = tmp]

(* SPLAY_LINKLEFT and SPLAY_LINKRIGHT: the root goes to the tree of the    *)
(* other side, whose open end is end[s], and its kid becomes the root.     *)
SPLAY_LINK(d, s) ==
  [d EXCEPT !.t.kid[s][d.end[s]] = d.t.root, !.end[s] = d.t.root,
            !.t.root = d.t.kid[s][d.t.root]]

SPLAY_ASSEMBLE(d) ==
  LET t == d.t
      t1 == [t EXCEPT !.kid["right"][d.end["right"]] = t.kid["left"][t.root],
                      !.kid["left"][d.end["left"]] = t.kid["right"][t.root]]
  IN  [t1 EXCEPT !.kid["left"][t.root] = t1.kid["right"][Local],
                 !.kid["right"][t.root] = t1.kid["left"][Local]]

(* One round: side[n] is where the key is seen from n, "here" when it is   *)
(* n's.                                                                    *)
SplayRound(d, side) ==
  LET s == side[d.t.root]
      tmp == d.t.kid[s][d.t.root]
      turned == IF side[tmp] = s THEN SPLAY_ROTATE(d.t, tmp, Other(s)) ELSE d.t
  IN  IF d.stop \/ s = "here" THEN [d EXCEPT !.stop = TRUE]
      ELSE IF tmp = NULL THEN [d EXCEPT !.stop = TRUE]
      ELSE IF turned.kid[s][turned.root] = NULL THEN [d EXCEPT !.t = turned, !.stop = TRUE]
      ELSE SPLAY_LINK([d EXCEPT !.t = turned], s)

(* Local is no part of the tree when the function returns.                 *)
SplayBy(t, side) ==
  LET done == SPLAY_ASSEMBLE(Loop(LAMBDA d : SplayRound(d, side),
                [t |-> t, stop |-> FALSE, end |-> [s \in Sides |-> Local]]))
  IN  [done EXCEPT !.kid["left"][Local] = NULL, !.kid["right"][Local] = NULL]

SPLAY(t, e) ==
  SplayBy(t, [n \in Nodes |-> IF NodeKey[e] = NodeKey[n] THEN "here" ELSE KeySide(e, n)])
SPLAY_MINMAX(t, s) == SplayBy(t, [n \in Nodes |-> s])

SPLAY_INSERT ==
  \E e \in SplayNodes \ spIn :
    LET t == IF sp.root = NULL THEN sp ELSE SPLAY(sp, e)
        s == KeySide(e, t.root)
    IN  /\ IF t.root = NULL
           THEN sp' = [t EXCEPT !.root = e] /\ spIn' = {e}
           ELSE IF NodeKey[e] = NodeKey[t.root]
           THEN sp' = t /\ UNCHANGED spIn
           ELSE /\ sp' = [t EXCEPT !.kid[s][e] = t.kid[s][t.root],
                                   !.kid[Other(s)][e] = t.root,
                                   !.kid[s][t.root] = NULL, !.root = e]
                /\ spIn' = spIn \cup {e}
        /\ UNCHANGED rbVars

SPLAY_REMOVE ==
  \E e \in SplayNodes :
    LET t == SPLAY(sp, e)
        tmp == t.kid["right"][t.root]
        lower == SPLAY([t EXCEPT !.root = t.kid["left"][t.root]], e)
        joined == IF t.kid["left"][t.root] = NULL THEN [t EXCEPT !.root = tmp]
                  ELSE [lower EXCEPT !.kid["right"][lower.root] = tmp]
    IN  /\ sp.root # NULL
        /\ IF NodeKey[e] = NodeKey[t.root]
           THEN /\ sp' = [joined EXCEPT !.kid["left"][t.root] = NULL,
                                        !.kid["right"][t.root] = NULL]
                /\ spIn' = spIn \ {t.root}
           ELSE sp' = t /\ UNCHANGED spIn
        /\ UNCHANGED rbVars

SPLAY_FIND(t, e) ==
  LET u == SPLAY(t, e)
  IN  [t |-> u, found |-> IF NodeKey[e] = NodeKey[u.root] THEN u.root ELSE NULL]

SPLAY_NEXT(t, e) ==
  LET u == SPLAY(t, e)
  IN  [t |-> u, next |-> IF u.kid["right"][e] = NULL THEN NULL
                         ELSE Furthest(u, u.kid["right"][e], "left")]

SplayLookup ==
  /\ sp.root # NULL
  /\ \/ \E e \in SplayNodes : sp' = SPLAY_FIND(sp, e).t
     \/ \E e \in spIn : sp' = SPLAY_NEXT(sp, e).t
     \/ \E s \in Sides : sp' = SPLAY_MINMAX(sp, s)
  /\ UNCHANGED spIn /\ UNCHANGED rbVars

RBNext ==
  \/ RB_INSERT \/ InsertTurns \/ InsertPaints \/ InsertEnds
  \/ RB_REMOVE \/ RemoveRound \/ RemoveEnds
  \/ WalkStarts \/ WalkRemoves \/ WalkMoves
SplayNext == SPLAY_INSERT \/ SPLAY_REMOVE \/ SplayLookup
TreesNext == RBNext \/ SplayNext

TreesSpec == TreesInit /\ [][TreesNext]_treeVars

-----------------------------------------------------------------------------
(* Properties.                                                             *)

(* Every link leads to a node or nowhere.                                  *)
TreesTypeOK ==
  LET Links == Nodes \cup {NULL}
  IN  /\ rb \in [kid : [Sides -> [Nodes -> Links]], parent : [Nodes -> Links],
                 color : [Nodes -> {"RED", "BLACK"}], root : Links]
      /\ rbpc \in {"ready", "insert_color", "remove_color"}
      /\ {elm, par} \subseteq Links /\ members \subseteq Nodes
      /\ walk \in [side : Sides, x : Links, y : Links, todo : SUBSET Nodes, on : BOOLEAN]
      /\ sp.root \in Links /\ spIn \subseteq SplayNodes
      /\ \A s \in Sides : sp.kid[s] \in [Nodes \cup {Local} -> Links]

(* The nodes of the subtree of n.                                          *)
Under(t, n) ==
  Loop(LAMBDA S : (S \cup UNION {{t.kid["left"][m], t.kid["right"][m]} : m \in S}) \ {NULL},
       {n} \ {NULL})

(* The nodes reached from the head are those put in and not taken out, and *)
(* from each node the smaller keys lie to the left and the larger ones to  *)
(* the right.                                                              *)
Ordered(t, in) ==
  /\ Under(t, t.root) = in
  /\ \A n \in in :
       /\ \A m \in Under(t, t.kid["left"][n]) : NodeKey[m] < NodeKey[n]
       /\ \A m \in Under(t, t.kid["right"][n]) : NodeKey[m] > NodeKey[n]

(* Whatever is inserted and removed in whatever order, the red-black tree  *)
(* is a search tree of exactly the nodes in it, also between two rounds of *)
(* a loop, and every node knows its parent.                                *)
RBOrdered ==
  /\ Ordered(rb, members)
  /\ rb.root # NULL => rb.parent[rb.root] = NULL
  /\ \A n \in members, s \in Sides :
       rb.kid[s][n] # NULL => rb.parent[rb.kid[s][n]] = n

(* After a call no red node has a red kid and every way down meets as many *)
(* black nodes: the tree is no deeper than twice its logarithm.            *)
RBBalanced ==
  rbpc = "ready" =>
    LET blacks(n) == Cardinality({a \in members : ~Red(rb, a) /\ n \in Under(rb, a)})
        ends == {n \in members : \E s \in Sides : rb.kid[s][n] = NULL}
    IN  /\ ~Red(rb, rb.root)
        /\ \A n \in members : Red(rb, n) => ~Red(rb, rb.parent[n])
        /\ Cardinality({blacks(n) : n \in ends}) <= 1

(* The red-black tree is what it is said to be.                            *)
RBSound == RBOrdered /\ RBBalanced

Least(S) == IF S = {} THEN NULL ELSE CHOOSE n \in S : \A m \in S : NodeKey[n] <= NodeKey[m]
Greatest(S) == IF S = {} THEN NULL ELSE CHOOSE n \in S : \A m \in S : NodeKey[m] <= NodeKey[n]
Beyond(S, n, s) ==
  IF s = "right" THEN Least({m \in S : NodeKey[m] > NodeKey[n]})
  ELSE Greatest({m \in S : NodeKey[m] < NodeKey[n]})

(* RB_FIND, RB_NFIND, RB_MIN and RB_MAX, RB_NEXT and RB_PREV give the node *)
(* the set of nodes says, for keys in the tree and for keys that are not.  *)
RBLookups ==
  (rbpc = "ready" /\ members # {}) =>
    /\ \A e \in Nodes :
         /\ RB_FIND(rb, e) = Least({n \in members : NodeKey[n] = NodeKey[e]})
         /\ RB_NFIND(rb, e) = Least({n \in members : NodeKey[n] >= NodeKey[e]})
    /\ RB_MINMAX(rb, "left") = Least(members) /\ RB_MINMAX(rb, "right") = Greatest(members)
    /\ \A n \in members, s \in Sides : RB_STEP(rb, n, s) = Beyond(members, n, s)

(* A walk with RB_FOREACH_SAFE whose body removes some of the nodes visits *)
(* every node once and in order, and the node it has saved stays in the    *)
(* tree while the removal turns the tree around.                           *)
WalkSeesAll ==
  walk.on => /\ walk.x = IF walk.side = "left" THEN Least(walk.todo) ELSE Greatest(walk.todo)
             /\ walk.y # NULL => walk.y \in members

(* A lookup or a walk finds exactly the nodes of the tree.                 *)
RBFinds == RBLookups /\ WalkSeesAll

(* The splay tree is a search tree of the nodes in it however it is turned *)
(* around, a lookup finds the key if it is there and brings it to the root *)
(* or a neighbour of it, and SPLAY_NEXT gives the next node.               *)
SplaySound ==
  /\ Ordered(sp, spIn)
  /\ sp.root # NULL =>
       /\ \A e \in SplayNodes :
            LET f == SPLAY_FIND(sp, e)
                between == {n \in spIn : \/ NodeKey[e] < NodeKey[n] /\ NodeKey[n] < NodeKey[f.t.root]
                                         \/ NodeKey[f.t.root] < NodeKey[n] /\ NodeKey[n] < NodeKey[e]}
            IN  f.found = Least({n \in spIn : NodeKey[n] = NodeKey[e]}) /\ between = {}
       /\ \A e \in spIn : SPLAY_NEXT(sp, e).next = Beyond(spIn, e, "right")
       /\ SPLAY_MINMAX(sp, "left").root = Least(spIn)
       /\ SPLAY_MINMAX(sp, "right").root = Greatest(spIn)
=============================================================================
