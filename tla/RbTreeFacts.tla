---------------------------- MODULE RbTreeFacts -----------------------------
(***************************************************************************)
(* What rbtree.c does to a tree, for any number of nodes and values.       *)
(*                                                                         *)
(* The places of the nodes are given by a number r[n] for each, and each   *)
(* node n has an interval b[n] in which its subtree lies (Placed), inside  *)
(* that of its parent: this says that the links form a search tree without *)
(* saying it by induction over the tree.  In the same way h[n] is the      *)
(* black height below n (Heights), and Clash(t, n, s) says that a red node *)
(* has a red kid, as one may while an insertion is repaired; while a       *)
(* removal is, the paths through one node are one black node short         *)
(* (Short).                                                                *)
(* A loop is a function of the state, iterated (LoopEnds); a measure that  *)
(* gets smaller shows that the rounds the model allows are enough.         *)
(***************************************************************************)
EXTENDS RbTree, DataFacts

-----------------------------------------------------------------------------
(* Trees as the code can write them. *)
Ptr == Node \cup {NIL}

Hue == {RB_RED, RB_BLACK}

NodeRec == [parent : Ptr, color : Hue, left : Ptr, right : Ptr]

Trees == [rb_node : Ptr, first_node : Ptr, last_node : Ptr, count : Int,
          node : [Node -> NodeRec], value : [Node -> Int]]

Color(t, n) == t.node[n].color

(* What the colours and links of a tree are about. *)
SameRest(t, u) ==
  /\ u.first_node = t.first_node /\ u.last_node = t.last_node
  /\ u.count = t.count /\ u.value = t.value

SameLinks(t, u) ==
  /\ u.rb_node = t.rb_node
  /\ \A x \in Node : /\ Parent(u, x) = Parent(t, x)
                     /\ \A s \in Side : Kid(u, x, s) = Kid(t, x, s)

LEMMA TreeFields ==
  ASSUME NEW t \in Trees
  PROVE  /\ t.rb_node \in Ptr /\ t.first_node \in Ptr /\ t.last_node \in Ptr
         /\ t.count \in Int /\ t.node \in [Node -> NodeRec] /\ t.value \in [Node -> Int]
         /\ \A x \in Node : /\ Parent(t, x) \in Ptr /\ Color(t, x) \in Hue
                            /\ \A s \in Side : Kid(t, x, s) \in Ptr
  BY DEF Trees, NodeRec, Parent, Color, Kid, Side

Painted(t, u, n, c) ==
  /\ u \in Trees /\ SameRest(t, u) /\ SameLinks(t, u)
  /\ \A x \in Node : Color(u, x) = IF x = n THEN c ELSE Color(t, x)

LEMMA PaintDoes ==
  ASSUME NEW t \in Trees, NEW n \in Node, NEW c \in Hue,
         NEW u, u = Paint(t, n, c)
  PROVE  Painted(t, u, n, c)
<1>1. n # NIL
  BY RbTreeAssumption
<1> QED BY <1>1, SMTT(30) DEF Painted, Paint, Trees, NodeRec, Color, SameRest, SameLinks, Parent, Kid, Side

Adopted(t, u, n, p) ==
  /\ u \in Trees /\ SameRest(t, u) /\ u.rb_node = t.rb_node
  /\ \A x \in Node : /\ Color(u, x) = Color(t, x)
                     /\ Parent(u, x) = IF x = n THEN p ELSE Parent(t, x)
                     /\ \A s \in Side : Kid(u, x, s) = Kid(t, x, s)

LEMMA SetParentDoes ==
  ASSUME NEW t \in Trees, NEW n \in Ptr, NEW p \in Ptr, NEW u, u = SetParent(t, n, p)
  PROVE  Adopted(t, u, n, p)
<1>1. CASE n = NIL
  BY <1>1, RbTreeAssumption DEF Adopted, SetParent, SameRest
<1>2. CASE n # NIL
  BY <1>2, ZenonT(40) DEF Adopted, SetParent, Trees, NodeRec, Color, SameRest, Parent, Kid, Side, Ptr
<1> QED BY <1>1, <1>2

Supplanted(t, u, p, old, c) ==
  /\ u \in Trees /\ SameRest(t, u)
  /\ u.rb_node = IF p = NIL THEN c ELSE t.rb_node
  /\ \A x \in Node :
       /\ Color(u, x) = Color(t, x) /\ Parent(u, x) = Parent(t, x)
       /\ \A s \in Side :
            Kid(u, x, s) = IF x = p /\ s = SideOf(t, p, old) THEN c ELSE Kid(t, x, s)

LEMMA SupplantDoes ==
  ASSUME NEW t \in Trees, NEW p \in Ptr, NEW old \in Ptr, NEW c \in Ptr,
         NEW u, u = Supplant(t, p, old, c)
  PROVE  Supplanted(t, u, p, old, c)
<1>1. CASE p = NIL
  BY <1>1, RbTreeAssumption DEF Supplanted, Supplant, Trees, NodeRec, Color, SameRest, Parent, Kid, Side, Ptr
<1>2. CASE p # NIL
  <2>1. PICK d \in Side : d = SideOf(t, p, old)
    BY DEF SideOf, Side
  <2>2. u = [t EXCEPT !.node[p][d] = c]
    BY <1>2, <2>1 DEF Supplant
  <2> QED BY <1>2, <2>1, <2>2, SMTT(30) DEF Supplanted, Trees, NodeRec, Color, SameRest, Parent, Kid, Side, Ptr
<1> QED BY <1>1, <1>2


Rewire(t, n, d, c, p) == [t EXCEPT !.node[n] = [@ EXCEPT ![d] = c, !.parent = p]]

Rewired(t, u, n, d, c, p) ==
  /\ u \in Trees /\ SameRest(t, u) /\ u.rb_node = t.rb_node
  /\ \A x \in Node :
       /\ Color(u, x) = Color(t, x)
       /\ Parent(u, x) = IF x = n THEN p ELSE Parent(t, x)
       /\ \A s \in Side : Kid(u, x, s) = IF x = n /\ s = d THEN c ELSE Kid(t, x, s)

LEMMA RewireDoes ==
  ASSUME NEW t \in Trees, NEW n \in Node, NEW d \in Side, NEW c \in Ptr, NEW p \in Ptr,
         NEW u, u = Rewire(t, n, d, c, p)
  PROVE  Rewired(t, u, n, d, c, p)
<1>1. PICK m : m = [t.node[n] EXCEPT ![d] = c, !.parent = p]
  OBVIOUS
<1>0. t.node \in [Node -> NodeRec]
  BY DEF Trees
<1>2. m \in NodeRec /\ m.color = t.node[n].color /\ m.parent = p
      /\ \A s \in Side : m[s] = IF s = d THEN c ELSE t.node[n][s]
  BY <1>1 DEF Trees, NodeRec, Side
<1>3. PICK q : q = [t.node EXCEPT ![n] = m]
  OBVIOUS
<1>4. q \in [Node -> NodeRec] /\ \A x \in Node : q[x] = IF x = n THEN m ELSE t.node[x]
  BY <1>0, <1>2, <1>3
<1>5. u = [t EXCEPT !.node = q]
  BY <1>1, <1>3 DEF Rewire
<1>6. u \in Trees /\ SameRest(t, u) /\ u.rb_node = t.rb_node /\ u.node = q
  BY <1>4, <1>5 DEF Trees, SameRest
<1>7. ASSUME NEW x \in Node
      PROVE  /\ Color(u, x) = Color(t, x)
             /\ Parent(u, x) = IF x = n THEN p ELSE Parent(t, x)
             /\ \A s \in Side : Kid(u, x, s) = IF x = n /\ s = d THEN c ELSE Kid(t, x, s)
  <2>1. u.node[x] = IF x = n THEN m ELSE t.node[x]
    BY <1>4, <1>6
  <2>2. CASE x = n
    <3>1. u.node[x] = m
      BY <2>1, <2>2
    <3> QED BY <1>2, <2>2, <3>1 DEF Color, Parent, Kid
  <2>3. CASE x # n
    <3>1. u.node[x] = t.node[x]
      BY <2>1, <2>3
    <3> QED BY <2>3, <3>1 DEF Color, Parent, Kid
  <2> QED BY <2>2, <2>3
<1> QED
  BY <1>6, <1>7 DEF Rewired

(* The far kid up of n has gone up: n is its kid on side s now, and its    *)
(* kid mid on that side is n's.  p is the parent of n before.              *)
Turned(t, u, n, s, up, mid, p) ==
  /\ u \in Trees /\ SameRest(t, u)
  /\ u.rb_node = IF p = NIL THEN up ELSE t.rb_node
  /\ \A x \in Node :
       /\ Color(u, x) = Color(t, x)
       /\ Parent(u, x) = IF x = n THEN up ELSE IF x = up THEN p
                         ELSE IF x = mid THEN n ELSE Parent(t, x)
       /\ \A d \in Side :
            Kid(u, x, d) = IF x = n /\ d = Other(s) THEN mid
                           ELSE IF x = up /\ d = s THEN n
                           ELSE IF x = p /\ Kid(t, p, d) = n THEN up
                           ELSE Kid(t, x, d)

(* n has parent p, or is the root, and is its kid on one side only. *)
HangsFrom(t, n, p) ==
  p = NIL \/ \E d \in Side : Kid(t, p, d) = n /\ Kid(t, p, Other(d)) # n

LEMMA SideOfIs ==
  ASSUME NEW t \in Trees, NEW p \in Node, NEW n \in Ptr, HangsFrom(t, n, p)
  PROVE  /\ SideOf(t, p, n) \in Side
         /\ \A d \in Side : (d = SideOf(t, p, n)) <=> (Kid(t, p, d) = n)
  BY RbTreeAssumption DEF HangsFrom, SideOf, Side, Other

LEMMA RotateDoes ==
  ASSUME NEW t \in Trees, NEW n \in Node, NEW s \in Side, NEW up \in Node, NEW mid \in Ptr,
         NEW p \in Ptr, up = Kid(t, n, Other(s)), mid = Kid(t, up, s), p = Parent(t, n),
         n # up, p # n, p # up, mid # n, mid # up, HangsFrom(t, n, p),
         NEW u, u = rb_rotate(t, n, s)
  PROVE  Turned(t, u, n, s, up, mid, p)
<1> up \in Ptr /\ n \in Ptr
  BY DEF Ptr
<1>1. PICK v : v = Supplant(t, p, n, up)
  OBVIOUS
<1>2. Supplanted(t, v, p, n, up)
  BY <1>1, SupplantDoes, Zenon
<1>3. PICK w : w = SetParent(v, mid, n)
  OBVIOUS
<1>4. v \in Trees
  BY <1>2 DEF Supplanted
<1>5. Adopted(v, w, mid, n)
  BY <1>3, <1>4, SetParentDoes, Zenon
<1>6. w \in Trees /\ Other(s) \in Side
  BY <1>5 DEF Adopted, Other, Side
<1>0. PICK o \in Side : o = Other(s)
  BY <1>6
<1>7. PICK y : y = Rewire(w, n, o, mid, up)
  OBVIOUS
<1>8. u = [w EXCEPT !.node[n]  = [@ EXCEPT ![Other(s)] = mid, !.parent = up],
                    !.node[up] = [@ EXCEPT ![s] = n, !.parent = p]]
  BY <1>1, <1>3 DEF rb_rotate
<1>9. u = Rewire(y, up, s, n, p)
  BY <1>0, <1>6, <1>7, <1>8 DEF Trees, Rewire
<1>10. Rewired(w, y, n, o, mid, up)
  BY <1>6, <1>7, RewireDoes, Zenon
<1>11. y \in Trees
  BY <1>10 DEF Rewired
<1>12. Rewired(y, u, up, s, n, p)
  BY <1>9, <1>11, RewireDoes, Zenon
<1>13. SameRest(t, u)
  BY <1>2, <1>5, <1>10, <1>12 DEF SameRest, Supplanted, Adopted, Rewired
<1>14. ASSUME NEW d \in Side, p # NIL PROVE (d = SideOf(t, p, n)) <=> (Kid(t, p, d) = n)
  BY <1>14, SideOfIs DEF Ptr
<1>15. \A x \in Node : x = p => p # NIL
  BY RbTreeAssumption
<1>16. u \in Trees /\ u.rb_node = IF p = NIL THEN up ELSE t.rb_node
  BY <1>2, <1>5, <1>10, <1>12 DEF Supplanted, Adopted, Rewired
<1>17. ASSUME NEW x \in Node
       PROVE  /\ Color(u, x) = Color(t, x)
              /\ Parent(u, x) = IF x = n THEN up ELSE IF x = up THEN p
                                ELSE IF x = mid THEN n ELSE Parent(t, x)
  BY <1>2, <1>5, <1>10, <1>12 DEF Supplanted, Adopted, Rewired
<1>18. ASSUME NEW x \in Node, NEW d \in Side
       PROVE  Kid(u, x, d) = IF x = n /\ d = Other(s) THEN mid
                             ELSE IF x = up /\ d = s THEN n
                             ELSE IF x = p /\ Kid(t, p, d) = n THEN up
                             ELSE Kid(t, x, d)
  <2>1. Kid(y, x, d) = IF x = n /\ d = o THEN mid ELSE Kid(w, x, d)
    BY <1>10 DEF Rewired
  <2>2. Kid(u, x, d) = IF x = up /\ d = s THEN n ELSE Kid(y, x, d)
    BY <1>12 DEF Rewired
  <2>3. Kid(w, x, d) = IF x = p /\ Kid(t, p, d) = n THEN up ELSE Kid(t, x, d)
    BY <1>2, <1>5, <1>14, <1>15 DEF Supplanted, Adopted
  <2> QED BY <1>0, <2>1, <2>2, <2>3
<1> QED
  BY <1>13, <1>16, <1>17, <1>18 DEF Turned

(* Every node of M hangs from another one or is the root, and parents and  *)
(* kids agree.                                                             *)
Linked(t, M) ==
  /\ t \in Trees /\ M \subseteq Node
  /\ t.rb_node \in M \cup {NIL} /\ (t.rb_node = NIL => M = {})
  /\ \A x \in M : /\ Parent(t, x) = NIL <=> x = t.rb_node
                  /\ Parent(t, x) # NIL =>
                       Parent(t, x) \in M /\ \E s \in Side : Kid(t, Parent(t, x), s) = x
  /\ \A x \in M, s \in Side :
       Kid(t, x, s) # NIL => Kid(t, x, s) \in M /\ Parent(t, Kid(t, x, s)) = x

(* j lies on side s of i. *)
Toward(s, i, j) == IF s = "left" THEN j < i ELSE i < j

(* The nodes have places r in the order, and each its own interval b of    *)
(* places, that of the root being w: a kid has the part of its parent's    *)
(* interval on its side of the parent, and no node lies where one has no   *)
(* kid.                                                                    *)
Placed(t, M, r, b, w) ==
  /\ r \in [Node -> Int] /\ b \in [Node -> [Side -> Int]] /\ w \in [Side -> Int]
  /\ \A x, y \in M : r[x] = r[y] => x = y
  /\ t.rb_node # NIL => \A s \in Side : b[t.rb_node][s] = w[s]
  /\ \A x \in M, s \in Side :
       /\ Toward(s, r[x], b[x][s]) /\ ~Toward(s, w[s], b[x][s])
       /\ Kid(t, x, s) # NIL => /\ b[Kid(t, x, s)][s] = b[x][s]
                                /\ b[Kid(t, x, s)][Other(s)] = r[x]
       /\ Kid(t, x, s) = NIL =>
            \A y \in M : ~(Toward(s, r[x], r[y]) /\ Toward(s, r[y], b[x][s]))

Shape(t, M, r, b, w) == Linked(t, M) /\ Placed(t, M, r, b, w)

(* No node is met twice on the way down. *)
NoLoops(t, M) ==
  \A x \in M, s \in Side :
    Kid(t, x, s) # NIL =>
      /\ Kid(t, x, s) # x /\ Kid(t, x, Other(s)) # Kid(t, x, s)
      /\ \A d \in Side : Kid(t, Kid(t, x, s), d) \notin {x, Kid(t, x, s)}

LEMMA SideFacts ==
  /\ \A s \in Side : Other(s) \in Side /\ Other(s) # s /\ Other(Other(s)) = s
  /\ \A s, d \in Side : d = s \/ d = Other(s)
  BY DEF Side, Other

LEMMA TowardFacts ==
  ASSUME NEW s \in Side
  PROVE  /\ \A i, j \in Int : Toward(Other(s), i, j) <=> Toward(s, j, i)
         /\ \A i, j \in Int : Toward(s, i, j) \/ Toward(s, j, i) \/ i = j
         /\ \A i, j \in Int : ~(Toward(s, i, j) /\ Toward(s, j, i))
         /\ \A i \in Int : ~Toward(s, i, i)
         /\ \A i, j, k \in Int : Toward(s, i, j) /\ Toward(s, j, k) => Toward(s, i, k)
  BY DEF Toward, Side, Other

LEMMA Branching ==
  ASSUME NEW t, NEW M, NEW r, NEW b, NEW w, Shape(t, M, r, b, w)
  PROVE  NoLoops(t, M)
<1> SUFFICES ASSUME NEW x \in M, NEW s \in Side, NEW c, c = Kid(t, x, s), c # NIL
             PROVE  /\ c # x /\ Kid(t, x, Other(s)) # c
                    /\ \A d \in Side : Kid(t, c, d) \notin {x, c}
  BY Zenon DEF NoLoops
<1>1. c \in M /\ b[c][s] = b[x][s] /\ b[c][Other(s)] = r[x] /\ c \in Node /\ x \in Node
  BY DEF Shape, Linked, Placed
<1>2. /\ r[x] \in Int /\ r[c] \in Int /\ b[c][s] \in Int /\ b[c][Other(s)] \in Int
      /\ Other(s) \in Side /\ Other(s) # s
  BY <1>1, SideFacts DEF Shape, Placed
<1>3. Toward(s, r[x], r[c])
  <2>1. Toward(Other(s), r[c], r[x])
    BY <1>1, <1>2 DEF Shape, Placed
  <2> QED BY <1>2, <2>1, TowardFacts
<1>4. c # x
  BY <1>2, <1>3, TowardFacts
<1>5. Kid(t, x, Other(s)) # c
  <2>1. SUFFICES ASSUME Kid(t, x, Other(s)) = c PROVE FALSE
    OBVIOUS
  <2>2. b[c][s] = r[x]
    BY <1>2, <2>1, SideFacts DEF Shape, Placed
  <2>3. Toward(s, r[x], b[x][s])
    BY DEF Shape, Placed
  <2> QED BY <1>1, <1>2, <2>2, <2>3, TowardFacts
<1>6. ASSUME NEW d \in Side, Kid(t, c, d) # NIL PROVE Kid(t, c, d) \notin {x, c}
  <2>1. PICK e : e = Kid(t, c, d)
    OBVIOUS
  <2>2. e \in M /\ b[e][d] = b[c][d] /\ b[e][Other(d)] = r[c] /\ e \in Node
    BY <1>1, <1>6, <2>1 DEF Shape, Linked, Placed
  <2>3. r[e] \in Int /\ b[e][d] \in Int /\ b[e][Other(d)] \in Int /\ Other(d) \in Side
    BY <2>2, SideFacts DEF Shape, Placed
  <2>4. Toward(d, r[e], b[e][d]) /\ Toward(Other(d), r[e], b[e][Other(d)])
    BY <2>2, <2>3 DEF Shape, Placed
  <2>5. Toward(d, r[c], r[e])
    BY <1>2, <2>2, <2>3, <2>4, TowardFacts
  <2>6. e # c
    BY <1>2, <2>5, TowardFacts
  <2>7. CASE d = s
    <3>1. Toward(s, r[x], r[e])
      BY <1>2, <1>3, <2>3, <2>5, <2>7, TowardFacts
    <3> QED BY <1>2, <2>1, <2>6, <3>1, TowardFacts
  <2>8. CASE d = Other(s)
    <3>1. Toward(d, r[e], r[x])
      BY <1>1, <2>2, <2>4, <2>8
    <3> QED BY <1>2, <2>1, <2>6, <3>1, TowardFacts
  <2> QED BY <2>7, <2>8, SideFacts
<1>7. x # NIL /\ c # NIL
  BY <1>1, RbTreeAssumption
<1> QED BY <1>4, <1>5, <1>6, <1>7

(* What a node, the kid to go up and its inner kid have to do with each    *)
(* other and the parent.                                                   *)
Corner(t, M, n, s, up, mid, p) ==
  /\ t \in Trees /\ M \subseteq Node /\ NIL \notin M /\ n \in M /\ s \in Side
  /\ up = Kid(t, n, Other(s)) /\ up \in M /\ mid = Kid(t, up, s) /\ mid \in M \cup {NIL}
  /\ p = Parent(t, n) /\ p \in M \cup {NIL}
  /\ n # up /\ mid # n /\ mid # up /\ p # n /\ p # up
  /\ Kid(t, n, s) # up /\ (mid # NIL => Kid(t, up, Other(s)) # mid)
  /\ p # NIL => \E d \in Side : Kid(t, p, d) = n /\ Kid(t, p, Other(d)) # n

LEMMA Corners ==
  ASSUME NEW t, NEW M, NEW r, NEW b, NEW w, Shape(t, M, r, b, w),
         NEW n \in M, NEW s \in Side, NEW up, up = Kid(t, n, Other(s)), up # NIL,
         NEW mid, mid = Kid(t, up, s), NEW p, p = Parent(t, n)
  PROVE  Corner(t, M, n, s, up, mid, p)
<1>1. Other(s) \in Side /\ Other(Other(s)) = s
  BY SideFacts
<1>2. /\ t \in Trees /\ M \subseteq Node /\ n \in Node /\ up \in M /\ up \in Node /\ NIL \notin M
      /\ mid \in M \cup {NIL} /\ p \in M \cup {NIL}
  BY <1>1, RbTreeAssumption DEF Shape, Linked
<1>3. NoLoops(t, M)
  BY Branching
<1>4. n # up /\ mid \notin {n, up} /\ Kid(t, n, s) # up
  BY <1>1, <1>3 DEF NoLoops
<1>5. mid # NIL => Kid(t, up, Other(s)) # mid
  BY <1>2, <1>3 DEF NoLoops
<1>6. p # n /\ p # up /\ (p # NIL => \E d \in Side : Kid(t, p, d) = n /\ Kid(t, p, Other(d)) # n)
  <2>1. CASE p = NIL
    BY <1>2, <2>1
  <2>2. CASE p # NIL
    <3>1. PICK d \in Side : Kid(t, p, d) = n
      BY <2>2 DEF Shape, Linked
    <3>2. Kid(t, p, d) # NIL /\ p \in M
      BY <1>2, <2>2, <3>1
    <3>3. /\ n # p /\ Kid(t, p, Other(d)) # n
          /\ \A e \in Side : Kid(t, n, e) \notin {p, n}
      BY <1>3, <3>1, <3>2, Zenon DEF NoLoops
    <3> QED BY <1>1, <3>1, <3>3
  <2> QED BY <2>1, <2>2
<1> QED BY <1>2, <1>4, <1>5, <1>6 DEF Corner

(* A rotation, wherever there is a kid to go up. *)
LEMMA Turns ==
  ASSUME NEW t, NEW M, NEW n, NEW s, NEW up, NEW mid, NEW p, Corner(t, M, n, s, up, mid, p),
         NEW u, u = rb_rotate(t, n, s)
  PROVE  Turned(t, u, n, s, up, mid, p)
<1>1. /\ t \in Trees /\ n \in Node /\ s \in Side /\ up \in Node /\ mid \in Ptr /\ p \in Ptr
      /\ up = Kid(t, n, Other(s)) /\ mid = Kid(t, up, s) /\ p = Parent(t, n)
      /\ n # up /\ p # n /\ p # up /\ mid # n /\ mid # up
  BY DEF Corner, Ptr
<1>2. HangsFrom(t, n, p)
  BY DEF Corner, HangsFrom
<1> QED BY <1>1, <1>2, RotateDoes, ZenonT(40)

LEMMA TurnLinked ==
  ASSUME NEW t, NEW M, NEW n, NEW s, NEW up, NEW mid, NEW p, Corner(t, M, n, s, up, mid, p),
         Linked(t, M), NEW u, Turned(t, u, n, s, up, mid, p)
  PROVE  Linked(u, M)
<1>1. PICK o \in Side : o = Other(s) /\ o # s
  BY SideFacts DEF Corner
<1>2. /\ t \in Trees /\ M \subseteq Node /\ NIL \notin M /\ n \in M /\ s \in Side
      /\ up = Kid(t, n, o) /\ up \in M /\ mid = Kid(t, up, s) /\ mid \in M \cup {NIL}
      /\ p = Parent(t, n) /\ p \in M \cup {NIL}
      /\ n # up /\ mid # n /\ mid # up /\ p # n /\ p # up
      /\ Kid(t, n, s) # up /\ (mid # NIL => Kid(t, up, o) # mid)
      /\ p # NIL => \E d \in Side : Kid(t, p, d) = n /\ Kid(t, p, Other(d)) # n
  BY <1>1 DEF Corner
<1>3. \A d \in Side : d = s \/ d = o
  BY <1>1, <1>2, SideFacts
<1>4. /\ u.rb_node = IF p = NIL THEN up ELSE t.rb_node
      /\ \A x \in M :
           /\ Parent(u, x) = IF x = n THEN up ELSE IF x = up THEN p
                             ELSE IF x = mid THEN n ELSE Parent(t, x)
           /\ \A d \in Side :
                Kid(u, x, d) = IF x = n /\ d = o THEN mid
                               ELSE IF x = up /\ d = s THEN n
                               ELSE IF x = p /\ Kid(t, p, d) = n THEN up
                               ELSE Kid(t, x, d)
  BY <1>1, <1>2 DEF Turned
<1>5. /\ t.rb_node \in M \cup {NIL} /\ (t.rb_node = NIL => M = {})
      /\ \A x \in M : /\ Parent(t, x) = NIL <=> x = t.rb_node
                      /\ Parent(t, x) # NIL =>
                           Parent(t, x) \in M /\ \E d \in Side : Kid(t, Parent(t, x), d) = x
      /\ \A x \in M, d \in Side :
           Kid(t, x, d) # NIL => Kid(t, x, d) \in M /\ Parent(t, Kid(t, x, d)) = x
  BY DEF Linked
<1>6. u.rb_node \in M \cup {NIL} /\ (u.rb_node = NIL => M = {})
  BY <1>2, <1>4, <1>5
<1>7. ASSUME NEW x \in M
      PROVE  /\ Parent(u, x) = NIL <=> x = u.rb_node
             /\ Parent(u, x) # NIL =>
                  Parent(u, x) \in M /\ \E d \in Side : Kid(u, Parent(u, x), d) = x
  <2>1. CASE x = n
    BY <1>2, <1>4, <1>5, <2>1
  <2>2. CASE x = up
    BY <1>2, <1>4, <1>5, <2>2
  <2>3. CASE x = mid
    BY <1>1, <1>2, <1>4, <1>5, <2>3
  <2>4. CASE x \notin {n, up, mid}
    <3>1. Parent(u, x) = Parent(t, x)
      BY <1>4, <2>4
    <3>2. Parent(u, x) = NIL <=> x = u.rb_node
      BY <1>2, <1>4, <1>5, <2>4, <3>1
    <3>3. ASSUME NEW q, q = Parent(t, x), q # NIL
          PROVE  q \in M /\ \E d \in Side : Kid(u, q, d) = x
      <4>1. PICK d \in Side : Kid(t, q, d) = x /\ q \in M
        BY <1>5, <3>3
      <4>2. Kid(u, q, d) = Kid(t, q, d)
        BY <1>2, <1>4, <2>4, <4>1
      <4> QED BY <4>1, <4>2
    <3> QED BY <3>1, <3>2, <3>3
  <2> QED BY <2>1, <2>2, <2>3, <2>4
<1>8. ASSUME NEW x \in M, NEW d \in Side, NEW e, e = Kid(u, x, d), e # NIL
      PROVE  e \in M /\ Parent(u, e) = x
  <2>1. CASE x = n /\ d = o
    BY <1>2, <1>4, <1>8, <2>1
  <2>2. CASE x = up /\ d = s
    BY <1>2, <1>4, <1>8, <2>2
  <2>3. CASE x = p /\ Kid(t, p, d) = n
    BY <1>2, <1>4, <1>8, <2>3
  <2>4. CASE ~(x = n /\ d = o) /\ ~(x = up /\ d = s) /\ ~(x = p /\ Kid(t, p, d) = n)
    <3>1. e = Kid(t, x, d)
      BY <1>4, <1>8, <2>4
    <3>2. e \in M /\ Parent(t, e) = x
      BY <1>5, <1>8, <3>1
    <3>3. e # n
      BY <1>2, <2>4, <3>1, <3>2
    <3>4. e # up
      BY <1>2, <1>3, <1>5, <2>4, <3>1, <3>2
    <3>5. e # mid
      BY <1>2, <1>3, <1>5, <2>4, <3>1, <3>2
    <3> QED BY <1>4, <3>2, <3>3, <3>4, <3>5
  <2> QED BY <2>1, <2>2, <2>3, <2>4
<1>9. u \in Trees
  BY DEF Turned
<1> QED BY <1>2, <1>6, <1>7, <1>8, <1>9 DEF Linked

(* The intervals after a rotation: up has what n had.                      *)
TurnedBounds(b, r, n, s, up) == [b EXCEPT ![up] = b[n], ![n] = [b[n] EXCEPT ![Other(s)] = r[up]]]

LEMMA TurnPlaced ==
  ASSUME NEW t, NEW M, NEW n, NEW s, NEW up, NEW mid, NEW p, Corner(t, M, n, s, up, mid, p),
         NEW r, NEW b, NEW w, Shape(t, M, r, b, w), NEW u, Turned(t, u, n, s, up, mid, p)
  PROVE  Placed(u, M, r, TurnedBounds(b, r, n, s, up), w)
<1>1. PICK o \in Side : o = Other(s) /\ o # s /\ Other(o) = s
  BY SideFacts DEF Corner
<1>2. /\ t \in Trees /\ M \subseteq Node /\ NIL \notin M /\ n \in M /\ s \in Side
      /\ up = Kid(t, n, o) /\ up \in M /\ mid = Kid(t, up, s) /\ mid \in M \cup {NIL}
      /\ p = Parent(t, n) /\ p \in M \cup {NIL}
      /\ n # up /\ mid # n /\ mid # up /\ p # n /\ p # up
      /\ Kid(t, n, s) # up /\ (mid # NIL => Kid(t, up, o) # mid)
      /\ p # NIL => \E d \in Side : Kid(t, p, d) = n /\ Kid(t, p, Other(d)) # n
  BY <1>1 DEF Corner
<1>3. \A d \in Side : (d = s \/ d = o) /\ Other(d) \in Side
  BY <1>1, <1>2, SideFacts
<1>4. /\ u.rb_node = IF p = NIL THEN up ELSE t.rb_node
      /\ \A x \in M, d \in Side :
           Kid(u, x, d) = IF x = n /\ d = o THEN mid
                          ELSE IF x = up /\ d = s THEN n
                          ELSE IF x = p /\ Kid(t, p, d) = n THEN up
                          ELSE Kid(t, x, d)
  BY <1>1, <1>2 DEF Turned
<1>5. PICK c : c = TurnedBounds(b, r, n, s, up)
  OBVIOUS
<1>6. /\ r \in [Node -> Int] /\ b \in [Node -> [Side -> Int]] /\ w \in [Side -> Int]
      /\ \A x, y \in M : r[x] = r[y] => x = y
  BY DEF Shape, Placed
<1>7. c \in [Node -> [Side -> Int]]
  BY <1>1, <1>2, <1>5, <1>6 DEF TurnedBounds
<1>8. \A x \in M, d \in Side :
        c[x][d] = IF x = up THEN b[n][d] ELSE IF x = n /\ d = o THEN r[up] ELSE b[x][d]
  BY <1>1, <1>2, <1>5, <1>6 DEF TurnedBounds
<1>9. \A x \in M, d \in Side :
        /\ Toward(d, r[x], b[x][d]) /\ ~Toward(d, w[d], b[x][d])
        /\ Kid(t, x, d) # NIL => /\ Kid(t, x, d) \in M /\ Parent(t, Kid(t, x, d)) = x
                                 /\ b[Kid(t, x, d)][d] = b[x][d]
                                 /\ b[Kid(t, x, d)][Other(d)] = r[x]
        /\ Kid(t, x, d) = NIL =>
             \A y \in M : ~(Toward(d, r[x], r[y]) /\ Toward(d, r[y], b[x][d]))
  BY DEF Shape, Placed, Linked
<1>10. /\ r[n] \in Int /\ r[up] \in Int
       /\ \A d \in Side : b[n][d] \in Int /\ b[up][d] \in Int /\ w[d] \in Int
       /\ \A i, j \in Int : Toward(o, i, j) <=> Toward(s, j, i)
       /\ \A i, j, k \in Int : Toward(s, i, j) /\ Toward(s, j, k) => Toward(s, i, k)
  BY <1>1, <1>2, <1>6, TowardFacts
<1>11. /\ b[up][o] = b[n][o] /\ b[up][s] = r[n]
       /\ Toward(o, r[n], r[up]) /\ Toward(s, r[up], r[n])
  <2>1. b[up][o] = b[n][o] /\ b[up][s] = r[n]
    BY <1>1, <1>2, <1>9
  <2>2. Toward(s, r[up], b[up][s])
    BY <1>2, <1>9
  <2> QED BY <1>10, <2>1, <2>2
<1>12. t.rb_node # NIL => \A d \in Side : b[t.rb_node][d] = w[d]
  BY DEF Shape, Placed
<1>13. u.rb_node # NIL => \A d \in Side : c[u.rb_node][d] = w[d]
  <2>1. CASE p = NIL
    <3>1. n = t.rb_node
      BY <1>2, <2>1 DEF Shape, Linked
    <3> QED BY <1>2, <1>4, <1>8, <1>12, <2>1, <3>1
  <2>2. CASE p # NIL
    <3>1. t.rb_node # n /\ t.rb_node \in M \cup {NIL} /\ t.rb_node # up
      BY <1>2, <2>2 DEF Shape, Linked
    <3> QED BY <1>2, <1>4, <1>8, <1>12, <2>2, <3>1
  <2> QED BY <2>1, <2>2
<1>14. ASSUME NEW x \in M, NEW d \in Side
       PROVE  Toward(d, r[x], c[x][d]) /\ ~Toward(d, w[d], c[x][d])
  <2>1. CASE x \notin {n, up}
    BY <1>8, <1>9, <2>1
  <2>2. CASE x = up
    <3>1. c[up][d] = b[n][d] /\ ~Toward(d, w[d], b[n][d])
      BY <1>2, <1>8, <1>9
    <3>2. Toward(d, r[up], b[n][d])
      <4>1. CASE d = o
        BY <1>2, <1>9, <1>11, <4>1
      <4>2. CASE d = s
        BY <1>2, <1>9, <1>10, <1>11, <4>2
      <4> QED BY <1>3, <4>1, <4>2
    <3> QED BY <2>2, <3>1, <3>2
  <2>3. CASE x = n /\ d = s
    BY <1>1, <1>2, <1>8, <1>9, <2>3
  <2>4. CASE x = n /\ d = o
    <3>1. c[n][o] = r[up]
      BY <1>1, <1>2, <1>8
    <3>2. ~Toward(o, w[o], r[up])
      <4>1. Toward(o, r[up], b[up][o]) /\ ~Toward(o, w[o], b[up][o])
        BY <1>2, <1>9
      <4>2. Toward(s, b[up][o], r[up])
        BY <1>2, <1>10, <4>1
      <4> QED BY <1>2, <1>10, <4>1, <4>2
    <3> QED BY <1>11, <2>4, <3>1, <3>2
  <2> QED BY <1>3, <2>1, <2>2, <2>3, <2>4
<1>15. ASSUME NEW x \in M, NEW d \in Side, NEW e, e = Kid(u, x, d), e # NIL
       PROVE  c[e][d] = c[x][d] /\ c[e][Other(d)] = r[x]
  <2>1. CASE x = n /\ d = o
    <3>1. e = mid /\ mid \in M
      BY <1>2, <1>4, <1>15, <2>1
    <3>2. b[mid][s] = b[up][s] /\ b[mid][o] = r[up]
      BY <1>1, <1>2, <1>9, <3>1
    <3> QED BY <1>1, <1>2, <1>8, <1>11, <2>1, <3>1, <3>2
  <2>2. CASE x = up /\ d = s
    <3>1. e = n
      BY <1>2, <1>4, <1>15, <2>2
    <3> QED BY <1>1, <1>2, <1>8, <2>2, <3>1
  <2>3. CASE x = p /\ Kid(t, p, d) = n
    <3>1. e = up /\ p \in M
      BY <1>2, <1>4, <1>15, <2>3
    <3>2. b[n][d] = b[p][d] /\ b[n][Other(d)] = r[p]
      BY <1>2, <1>9, <2>3, <3>1
    <3> QED BY <1>2, <1>3, <1>8, <2>3, <3>1, <3>2
  <2>4. CASE ~(x = n /\ d = o) /\ ~(x = up /\ d = s) /\ ~(x = p /\ Kid(t, p, d) = n)
    <3>1. e = Kid(t, x, d)
      BY <1>4, <1>15, <2>4
    <3>2. e \in M /\ Parent(t, e) = x /\ b[e][d] = b[x][d] /\ b[e][Other(d)] = r[x]
      BY <1>9, <1>15, <3>1
    <3>3. e # n
      <4>1. SUFFICES ASSUME e = n PROVE FALSE
        OBVIOUS
      <4>2. x = p
        BY <1>2, <3>2, <4>1
      <4> QED BY <2>4, <3>1, <4>1, <4>2
    <3>4. e # up
      BY <1>2, <1>3, <1>9, <2>4, <3>1, <3>2
    <3>5. c[e][d] = b[e][d] /\ c[e][Other(d)] = b[e][Other(d)]
      BY <1>3, <1>8, <3>2, <3>3, <3>4
    <3>6. c[x][d] = b[x][d]
      <4>1. CASE x = up
        BY <1>3, <1>8, <1>11, <2>4, <4>1
      <4>2. CASE x # up
        BY <1>3, <1>8, <2>4, <4>2
      <4> QED BY <4>1, <4>2
    <3> QED BY <3>2, <3>5, <3>6
  <2> QED BY <2>1, <2>2, <2>3, <2>4
<1>16. ASSUME NEW x \in M, NEW d \in Side, Kid(u, x, d) = NIL, NEW y \in M
       PROVE  ~(Toward(d, r[x], r[y]) /\ Toward(d, r[y], c[x][d]))
  <2>1. CASE x = n /\ d = o
    <3>1. mid = NIL /\ c[n][o] = r[up]
      BY <1>1, <1>2, <1>4, <1>8, <1>16, <2>1
    <3>2. ~(Toward(s, r[up], r[y]) /\ Toward(s, r[y], b[up][s]))
      <4>1. Kid(t, up, s) = NIL /\ up \in M /\ s \in Side
        BY <1>2, <3>1
      <4> QED BY <1>9, <4>1
    <3>3. r[y] \in Int
      BY <1>2, <1>6
    <3> QED BY <1>10, <1>11, <2>1, <3>1, <3>2, <3>3
  <2>2. ~(x = up /\ d = s) /\ ~(x = p /\ Kid(t, p, d) = n)
    BY <1>1, <1>2, <1>4, <1>16
  <2>3. CASE ~(x = n /\ d = o)
    <3>1. Kid(t, x, d) = NIL
      BY <1>4, <1>16, <2>2, <2>3
    <3>2. c[x][d] = b[x][d]
      <4>1. CASE x = up
        BY <1>3, <1>8, <1>11, <2>2, <4>1
      <4>2. CASE x # up
        BY <1>3, <1>8, <2>3, <4>2
      <4> QED BY <4>1, <4>2
    <3> QED BY <1>9, <3>1, <3>2
  <2> QED BY <2>1, <2>3
<1> QED BY <1>5, <1>6, <1>7, <1>13, <1>14, <1>15, <1>16 DEF Placed

LEMMA TurnShape ==
  ASSUME NEW t, NEW M, NEW n, NEW s, NEW up, NEW mid, NEW p, Corner(t, M, n, s, up, mid, p),
         NEW r, NEW b, NEW w, Shape(t, M, r, b, w), NEW u, Turned(t, u, n, s, up, mid, p)
  PROVE  \E c : Shape(u, M, r, c, w)
<1>1. Linked(t, M)
  BY DEF Shape
<1>2. Linked(u, M)
  BY <1>1, TurnLinked, Zenon
<1>3. Placed(u, M, r, TurnedBounds(b, r, n, s, up), w)
  BY TurnPlaced, Zenon
<1> QED BY <1>2, <1>3 DEF Shape

(* Loops, as rounds of a function step on the states X, of which those in  *)
(* C go on: one that gets smaller by the measure m has ended after n       *)
(* rounds.                                                                 *)
Rounds(x, step, n, g) == g = [i \in 0 .. n |-> IF i = 0 THEN x ELSE step[g[i - 1]]]

LEMMA RoundsExist ==
  ASSUME NEW x, NEW step, NEW n \in Nat
  PROVE  \E g : Rounds(x, step, n, g)
<1> DEFINE S == {k \in Nat : \E g : Rounds(x, step, k, g)}
<1>1. 0 \in S
  <2>1. Rounds(x, step, 0, [i \in 0 .. 0 |-> x])
    BY DEF Rounds
  <2> QED BY <2>1
<1>2. ASSUME NEW k \in Nat, k \in S PROVE k + 1 \in S
  <2>1. PICK g : Rounds(x, step, k, g)
    BY <1>2
  <2>2. PICK h : h = [i \in 0 .. k + 1 |-> IF i = k + 1 THEN step[g[k]] ELSE g[i]]
    OBVIOUS
  <2>3. h = [i \in 0 .. k + 1 |-> IF i = 0 THEN x ELSE step[h[i - 1]]]
    <3>1. ASSUME NEW i \in 0 .. k + 1 PROVE h[i] = IF i = 0 THEN x ELSE step[h[i - 1]]
      <4>1. CASE i = k + 1
        BY <2>2, <4>1
      <4>2. CASE i # k + 1 /\ i # 0
        <5>1. i \in 0 .. k /\ i - 1 \in 0 .. k + 1 /\ i - 1 # k + 1
          BY <4>2
        <5>2. g[i] = step[g[i - 1]]
          BY <2>1, <4>2, <5>1 DEF Rounds
        <5> QED BY <2>2, <4>2, <5>1, <5>2
      <4>3. CASE i = 0
        BY <2>1, <2>2, <4>3 DEF Rounds
      <4> QED BY <4>1, <4>2, <4>3
    <3> QED BY <2>2, <3>1
  <2>4. Rounds(x, step, k + 1, h)
    BY <2>3 DEF Rounds
  <2> QED BY <2>4
<1> HIDE DEF S
<1>3. n \in S
  BY <1>1, <1>2, Induction
<1> QED BY <1>3 DEF S

(* g goes through rounds of step as long as it stays in X. *)
Runs(X, step, x, n, g) ==
  /\ g[0] = x
  /\ \A i \in 0 .. n - 1 : g[i] \in X => g[i + 1] = step[g[i]]

Shrinks(X, C, step, m) ==
  /\ step \in [X -> X] /\ m \in [X -> Nat]
  /\ \A y \in X : IF y \in C THEN m[step[y]] < m[y] ELSE step[y] = y

LEMMA RunsStay ==
  ASSUME NEW X, NEW step \in [X -> X], NEW x \in X, NEW n \in Nat, NEW g, Runs(X, step, x, n, g)
  PROVE  \A i \in 0 .. n : g[i] \in X
<1> DEFINE S == {k \in Nat : k <= n => g[k] \in X}
<1>1. 0 \in S
  BY DEF Runs
<1>2. ASSUME NEW k \in Nat, k \in S PROVE k + 1 \in S
  <2>1. CASE k + 1 <= n
    <3>1. k \in 0 .. n - 1 /\ g[k] \in X
      BY <1>2, <2>1
    <3> QED BY <3>1 DEF Runs
  <2>2. CASE ~(k + 1 <= n)
    BY <2>2
  <2> QED BY <2>1, <2>2
<1> HIDE DEF S
<1>3. \A k \in Nat : k \in S
  BY <1>1, <1>2, Induction
<1> QED BY <1>3 DEF S

LEMMA LoopEnds ==
  ASSUME NEW X, NEW C, NEW step, NEW m, Shrinks(X, C, step, m),
         NEW x \in X, NEW n \in Nat, m[x] <= n, NEW g, Runs(X, step, x, n, g)
  PROVE  g[n] \in X /\ g[n] \notin C
<1>1. \A i \in 0 .. n : g[i] \in X
  BY RunsStay DEF Shrinks
<1> DEFINE S == {k \in Nat : k <= n => g[k] \notin C \/ m[g[k]] <= n - k}
<1>2. 0 \in S
  BY DEF Runs
<1>3. ASSUME NEW k \in Nat, k \in S PROVE k + 1 \in S
  <2> SUFFICES ASSUME k + 1 <= n PROVE g[k + 1] \notin C \/ m[g[k + 1]] <= n - (k + 1)
    OBVIOUS
  <2>1. k \in 0 .. n - 1 /\ k \in 0 .. n /\ k + 1 \in 0 .. n
    OBVIOUS
  <2>2. g[k + 1] = step[g[k]] /\ g[k] \in X /\ g[k + 1] \in X
    BY <1>1, <2>1 DEF Runs
  <2>3. m[g[k]] \in Nat /\ m[g[k + 1]] \in Nat
    BY <2>2 DEF Shrinks
  <2>4. CASE g[k] \in C
    <3>1. m[g[k + 1]] < m[g[k]]
      BY <2>2, <2>4 DEF Shrinks
    <3> QED BY <1>3, <2>3, <2>4, <3>1
  <2>5. CASE g[k] \notin C
    BY <2>2, <2>5 DEF Shrinks
  <2> QED BY <2>4, <2>5
<1> HIDE DEF S
<1>4. n \in S
  BY <1>2, <1>3, Induction
<1>5. g[n] \in X
  BY <1>1
<1>6. ASSUME g[n] \in C PROVE FALSE
  <2>1. m[g[n]] <= 0 /\ m[g[n]] \in Nat
    BY <1>4, <1>5, <1>6 DEF S, Shrinks
  <2>2. m[step[g[n]]] < m[g[n]] /\ m[step[g[n]]] \in Nat
    BY <1>5, <1>6 DEF Shrinks
  <2> QED BY <2>1, <2>2
<1> QED BY <1>5, <1>6

-----------------------------------------------------------------------------
(* The nodes in the interval of x: those below x, and x. *)
In(M, r, b, x) == {y \in M : \A d \in Side : Toward(d, r[y], b[x][d])}

LEMMA ShapeTypes ==
  ASSUME NEW t, NEW M, NEW r, NEW b, NEW w, Shape(t, M, r, b, w)
  PROVE  /\ M \subseteq Node /\ NIL \notin M /\ IsFiniteSet(M)
         /\ \A x \in M : r[x] \in Int /\ \A d \in Side : b[x][d] \in Int
         /\ \A d \in Side : w[d] \in Int
  BY RbTreeAssumption, FS_Subset DEF Shape, Linked, Placed

(* From the top down. *)
LEMMA DownInduction ==
  ASSUME NEW t, NEW M, NEW r, NEW b, NEW w, Shape(t, M, r, b, w), NEW S,
         t.rb_node # NIL => t.rb_node \in S,
         \A x \in M, d \in Side : x \in S /\ Kid(t, x, d) # NIL => Kid(t, x, d) \in S
  PROVE  M \subseteq S
<1>1. PICK W, l : W = w["right"] - w["left"] /\ l = "left" /\ l \in Side /\ "right" \in Side
  BY DEF Side
<1>2. \A x \in M : /\ b[x]["right"] \in Int /\ b[x]["left"] \in Int
                   /\ b[x]["right"] - b[x]["left"] <= W
  <2> TAKE x \in M
  <2>1. /\ b[x]["right"] \in Int /\ b[x]["left"] \in Int
        /\ w["right"] \in Int /\ w["left"] \in Int
    BY <1>1, ShapeTypes
  <2>2. \A d \in Side : ~Toward(d, w[d], b[x][d])
    BY DEF Shape, Placed
  <2>3. ~(b[x]["left"] < w["left"]) /\ ~(w["right"] < b[x]["right"])
    BY <1>1, <2>2 DEF Toward
  <2> QED BY <1>1, <2>1, <2>3
<1> DEFINE Out(x) == W - (b[x]["right"] - b[x]["left"])
<1>3. \A x \in M : Out(x) \in Nat
  <2>1. w["right"] \in Int /\ w["left"] \in Int
    BY <1>1, ShapeTypes
  <2> QED BY <1>1, <1>2, <2>1
<1>4. SUFFICES ASSUME M \ S # {} PROVE FALSE
  OBVIOUS
<1>5. PICK x \in M \ S : \A y \in M \ S : Out(x) <= Out(y)
  <2>1. {Out(y) : y \in M \ S} \in SUBSET Nat /\ {Out(y) : y \in M \ S} # {}
    BY <1>3, <1>4
  <2>2. PICK k \in {Out(y) : y \in M \ S} : \A j \in {Out(y) : y \in M \ S} : k <= j
    BY <2>1, LeastNumber
  <2> QED BY <2>2
<1>6. x # t.rb_node
  BY <1>5 DEF Shape, Linked
<1>7. PICK p \in M, d \in Side : p = Parent(t, x) /\ Kid(t, p, d) = x
  BY <1>5, <1>6 DEF Shape, Linked
<1>8. x # NIL
  BY <1>5, ShapeTypes
<1>9. p \notin S
  BY <1>5, <1>7, <1>8
<1>10. Out(p) < Out(x)
  <2>1. b[x][d] = b[p][d] /\ b[x][Other(d)] = r[p] /\ Toward(Other(d), r[p], b[p][Other(d)])
    BY <1>7, <1>8, SideFacts DEF Shape, Placed
  <2>2. r[p] \in Int
    BY <1>7, ShapeTypes
  <2>3. b[p]["right"] - b[p]["left"] > b[x]["right"] - b[x]["left"]
    BY <1>2, <1>5, <1>7, <2>1, <2>2 DEF Toward, Side, Other
  <2>4. W \in Int
    BY <1>1, ShapeTypes
  <2> QED BY <1>2, <1>5, <1>7, <2>3, <2>4
<1> QED BY <1>3, <1>5, <1>7, <1>9, <1>10

KidInterval(t, M, r, b, x, d, c) ==
  IF c = NIL THEN \A y \in In(M, r, b, x) : ~Toward(d, r[x], r[y])
  ELSE c \in M /\ In(M, r, b, c) = {y \in In(M, r, b, x) : Toward(d, r[x], r[y])}

LEMMA Intervals ==
  ASSUME NEW t, NEW M, NEW r, NEW b, NEW w, Shape(t, M, r, b, w), NEW x \in M
  PROVE  /\ x \in In(M, r, b, x) /\ In(M, r, b, x) \subseteq M
         /\ \A d \in Side : KidInterval(t, M, r, b, x, d, Kid(t, x, d))
<1>1. x \in In(M, r, b, x) /\ In(M, r, b, x) \subseteq M
  BY DEF In, Shape, Placed
<1>2. ASSUME NEW d \in Side, NEW c, c = Kid(t, x, d)
      PROVE  KidInterval(t, M, r, b, x, d, c)
  <2>1. PICK o \in Side : o = Other(d) /\ \A e \in Side : e = d \/ e = o
    BY SideFacts
  <2>2. /\ \A y \in M : r[y] \in Int /\ \A e \in Side : b[y][e] \in Int
        /\ \A i, j \in Int : Toward(o, i, j) <=> Toward(d, j, i)
        /\ \A i, j, k \in Int : Toward(d, i, j) /\ Toward(d, j, k) => Toward(d, i, k)
    BY <2>1, ShapeTypes, TowardFacts
  <2>3. CASE c = NIL
    <3>1. \A y \in M : ~(Toward(d, r[x], r[y]) /\ Toward(d, r[y], b[x][d]))
      BY <1>2, <2>3, ZenonT(40) DEF Shape, Placed
    <3> QED BY <2>3, <3>1 DEF KidInterval, In
  <2>4. CASE c # NIL
    <3>1. c \in M /\ b[c][d] = b[x][d] /\ b[c][o] = r[x] /\ Toward(o, r[x], b[x][o])
      BY <1>2, <2>1, <2>4 DEF Shape, Placed, Linked
    <3>2. ASSUME NEW y \in M
          PROVE  y \in In(M, r, b, c) <=> (y \in In(M, r, b, x) /\ Toward(d, r[x], r[y]))
      <4>1. y \in In(M, r, b, c) <=> Toward(d, r[y], b[x][d]) /\ Toward(o, r[y], r[x])
        BY <2>1, <3>1 DEF In
      <4>2. y \in In(M, r, b, x) <=> Toward(d, r[y], b[x][d]) /\ Toward(o, r[y], b[x][o])
        BY <2>1 DEF In
      <4>3. Toward(o, r[y], r[x]) <=> Toward(d, r[x], r[y])
        BY <2>2
      <4>4. Toward(d, r[x], r[y]) => Toward(o, r[y], b[x][o])
        BY <2>1, <2>2, <3>1
      <4> QED BY <4>1, <4>2, <4>3, <4>4
    <3>3. In(M, r, b, c) \subseteq M /\ In(M, r, b, x) \subseteq M
      BY DEF In
    <3> QED BY <2>4, <3>1, <3>2, <3>3 DEF KidInterval
  <2> QED BY <2>3, <2>4
<1> QED BY <1>1, <1>2

LEMMA Smaller ==
  ASSUME NEW S, NEW T, IsFiniteSet(T), S \subseteq T, NEW x \in T, x \notin S
  PROVE  Cardinality(S) < Cardinality(T)
<1>1. IsFiniteSet(S) /\ Cardinality(S) \in Nat /\ Cardinality(T) \in Nat
  BY FS_Subset, FS_CardinalityType
<1>2. IsFiniteSet(T \ {x}) /\ Cardinality(T \ {x}) = Cardinality(T) - 1
  BY FS_RemoveElement
<1>3. Cardinality(S) <= Cardinality(T \ {x})
  <2>1. S \subseteq T \ {x}
    OBVIOUS
  <2> QED BY <1>2, <2>1, FS_Subset
<1> QED BY <1>1, <1>2, <1>3

(* Fewer nodes below a kid, and fewer elsewhere for its parent. *)
LEMMA Measures ==
  ASSUME NEW t, NEW M, NEW r, NEW b, NEW w, Shape(t, M, r, b, w), NEW x \in M
  PROVE  /\ Cardinality(In(M, r, b, x)) \in 0 .. Cardinality(Node)
         /\ Cardinality(M \ In(M, r, b, x)) \in 0 .. Cardinality(Node)
         /\ \A d \in Side : Kid(t, x, d) # NIL =>
              /\ Cardinality(In(M, r, b, Kid(t, x, d))) < Cardinality(In(M, r, b, x))
              /\ Cardinality(M \ In(M, r, b, x)) < Cardinality(M \ In(M, r, b, Kid(t, x, d)))
<1>1. /\ x \in In(M, r, b, x) /\ In(M, r, b, x) \subseteq M
      /\ \A d \in Side : KidInterval(t, M, r, b, x, d, Kid(t, x, d))
  BY Intervals
<1>2. M \subseteq Node /\ IsFiniteSet(M) /\ IsFiniteSet(Node)
  BY ShapeTypes, RbTreeAssumption
<1>3. \A S : S \subseteq M => Cardinality(S) \in 0 .. Cardinality(Node)
  <2> SUFFICES ASSUME NEW S, S \subseteq M PROVE Cardinality(S) \in 0 .. Cardinality(Node)
    OBVIOUS
  <2>1. IsFiniteSet(S) /\ Cardinality(S) <= Cardinality(Node)
    BY <1>2, FS_Subset
  <2> QED BY <1>2, <2>1, FS_CardinalityType
<1>4. ASSUME NEW d \in Side, NEW c, c = Kid(t, x, d), c # NIL
      PROVE  /\ Cardinality(In(M, r, b, c)) < Cardinality(In(M, r, b, x))
             /\ Cardinality(M \ In(M, r, b, x)) < Cardinality(M \ In(M, r, b, c))
  <2>1. c \in M /\ In(M, r, b, c) = {y \in In(M, r, b, x) : Toward(d, r[x], r[y])}
    BY <1>1, <1>4 DEF KidInterval
  <2>2. x \notin In(M, r, b, c)
    BY <2>1, TowardFacts, ShapeTypes
  <2>3. IsFiniteSet(In(M, r, b, x)) /\ IsFiniteSet(M \ In(M, r, b, c))
    BY <1>1, <1>2, FS_Subset
  <2>4. Cardinality(In(M, r, b, c)) < Cardinality(In(M, r, b, x))
    BY <1>1, <2>1, <2>2, <2>3, Smaller
  <2>5. M \ In(M, r, b, x) \subseteq M \ In(M, r, b, c)
    BY <2>1
  <2> QED BY <1>1, <2>2, <2>3, <2>4, <2>5, Smaller
<1> QED BY <1>1, <1>3, <1>4

LEMMA RootInterval ==
  ASSUME NEW t, NEW M, NEW r, NEW b, NEW w, Shape(t, M, r, b, w), t.rb_node # NIL
  PROVE  t.rb_node \in M /\ In(M, r, b, t.rb_node) = M
<1>1. t.rb_node \in M /\ \A d \in Side : b[t.rb_node][d] = w[d]
  BY DEF Shape, Linked, Placed
<1>2. ASSUME NEW y \in M, NEW d \in Side PROVE Toward(d, r[y], w[d])
  <2>1. Toward(d, r[y], b[y][d]) /\ ~Toward(d, w[d], b[y][d])
    BY DEF Shape, Placed
  <2>2. r[y] \in Int /\ b[y][d] \in Int /\ w[d] \in Int
    BY ShapeTypes
  <2> QED BY <2>1, <2>2 DEF Toward
<1> QED BY <1>1, <1>2 DEF In

(* A node bounds an interval only where it has a kid. *)
LEMMA BoundKid ==
  ASSUME NEW t, NEW M, NEW r, NEW b, NEW w, Shape(t, M, r, b, w),
         NEW x \in M, NEW p \in M, NEW a \in Side, b[x][a] = r[p]
  PROVE  Kid(t, p, Other(a)) # NIL
<1> DEFINE S == {y \in M : \A q \in M, d \in Side : b[y][d] = r[q] => Kid(t, q, Other(d)) # NIL}
<1>1. ASSUME t.rb_node # NIL PROVE t.rb_node \in S
  <2>1. t.rb_node \in M /\ In(M, r, b, t.rb_node) = M
    BY <1>1, RootInterval
  <2>2. \A q \in M, d \in Side : b[t.rb_node][d] # r[q]
    BY <2>1, TowardFacts, ShapeTypes DEF In
  <2> QED BY <2>1, <2>2
<1>2. ASSUME NEW y \in M, NEW d \in Side, y \in S, NEW c, c = Kid(t, y, d), c # NIL
      PROVE  c \in S
  <2>1. c \in M /\ b[c][d] = b[y][d] /\ b[c][Other(d)] = r[y]
    BY <1>2 DEF Shape, Linked, Placed
  <2>2. ASSUME NEW q \in M, NEW e \in Side, b[c][e] = r[q] PROVE Kid(t, q, Other(e)) # NIL
    <3>1. CASE e = d
      BY <1>2, <2>1, <2>2, <3>1
    <3>2. CASE e = Other(d)
      <4>1. q = y
        BY <2>1, <2>2, <3>2 DEF Shape, Placed
      <4> QED BY <1>2, <3>2, <4>1, SideFacts
    <3> QED BY <3>1, <3>2, SideFacts
  <2> QED BY <2>1, <2>2
<1> HIDE DEF S
<1>3. M \subseteq S
  BY <1>1, <1>2, DownInduction
<1> QED BY <1>3 DEF S

ExtremeRun(t, n, s, g) ==
  g = [i \in 0 .. Cardinality(Node) |->
        IF i = 0 THEN n
        ELSE IF Kid(t, g[i - 1], s) # NIL THEN Kid(t, g[i - 1], s) ELSE g[i - 1]]

LEMMA ExtremeEnds ==
  ASSUME NEW t, NEW M, NEW r, NEW b, NEW w, Shape(t, M, r, b, w),
         NEW n \in M, NEW s \in Side, NEW e, e = Extreme(t, n, s)
  PROVE  e \in M /\ b[e][s] = b[n][s] /\ Kid(t, e, s) = NIL
<1>1. PICK N \in Nat : N = Cardinality(Node)
  BY RbTreeAssumption, FS_CardinalityType
<1>0. \A m \in M :
        /\ Cardinality(In(M, r, b, m)) \in 0 .. N
        /\ Kid(t, m, s) # NIL =>
             Cardinality(In(M, r, b, Kid(t, m, s))) < Cardinality(In(M, r, b, m))
  BY <1>1, Measures
<1> DEFINE X == {m \in M : b[m][s] = b[n][s]}
           C == {m \in M : Kid(t, m, s) # NIL}
           step == [m \in X |-> IF Kid(t, m, s) # NIL THEN Kid(t, m, s) ELSE m]
           size == [m \in X |-> Cardinality(In(M, r, b, m))]
<1>2. Shrinks(X, C, step, size)
  <2>1. \A m \in M : Kid(t, m, s) # NIL => Kid(t, m, s) \in M /\ b[Kid(t, m, s)][s] = b[m][s]
    BY DEF Shape, Linked, Placed
  <2>2. step \in [X -> X]
    BY <2>1
  <2>3. size \in [X -> Nat]
    BY <1>0
  <2>4. ASSUME NEW m \in X PROVE IF m \in C THEN size[step[m]] < size[m] ELSE step[m] = m
    <3>1. CASE m \in C
      <4>1. step[m] = Kid(t, m, s) /\ step[m] \in X
        BY <2>2, <3>1
      <4> QED BY <1>0, <3>1, <4>1
    <3>2. CASE m \notin C
      BY <3>2
    <3> QED BY <3>1, <3>2
  <2> QED BY <2>2, <2>3, <2>4 DEF Shrinks
<1>3. n \in X /\ size[n] <= N
  BY <1>0
<1>4. ASSUME NEW g, ExtremeRun(t, n, s, g) PROVE Runs(X, step, n, N, g)
  BY <1>1, <1>4 DEF ExtremeRun, Runs
<1>5. \E g : ExtremeRun(t, n, s, g)
  <2>1. PICK g : Rounds(n, step, N, g)
    BY RoundsExist
  <2>2. Runs(X, step, n, N, g)
    BY <2>1 DEF Runs, Rounds
  <2>3. \A i \in 0 .. N : g[i] \in X
    BY <1>2, <1>3, <2>2, RunsStay DEF Shrinks
  <2>4. ASSUME NEW i \in 0 .. N, i # 0 PROVE i - 1 \in 0 .. N
    BY <2>4
  <2>5. ExtremeRun(t, n, s, g)
    BY <1>1, <2>1, <2>3, <2>4 DEF Rounds, ExtremeRun
  <2> QED BY <2>5
<1>6. PICK g : g = CHOOSE f : ExtremeRun(t, n, s, f)
  OBVIOUS
<1>7. ExtremeRun(t, n, s, g)
  BY <1>5, <1>6
<1>8. n # NIL
  BY ShapeTypes
<1>9. e = g[N]
  BY <1>1, <1>6, <1>8 DEF Extreme, Repeat, ExtremeRun
<1>10. g[N] \in X /\ g[N] \notin C
  <2>1. Runs(X, step, n, N, g)
    BY <1>4, <1>7
  <2> HIDE DEF X, C, step, size
  <2> QED BY <1>2, <1>3, <2>1, LoopEnds
<1> QED BY <1>9, <1>10

(* e is the last node on side s, NIL in an empty tree. *)
IsEnd(M, r, s, e) ==
  IF M = {} THEN e = NIL ELSE e \in M /\ \A y \in M : ~Toward(s, r[e], r[y])

(* e is the node next to n on side s, NIL at the end. *)
IsNext(M, r, n, s, e) ==
  IF e = NIL THEN \A y \in M : ~Toward(s, r[n], r[y])
  ELSE /\ e \in M /\ Toward(s, r[n], r[e])
       /\ \A y \in M : ~(Toward(s, r[n], r[y]) /\ Toward(s, r[y], r[e]))

LEMMA EndsFound ==
  ASSUME NEW t, NEW M, NEW r, NEW b, NEW w, Shape(t, M, r, b, w), NEW s \in Side
  PROVE  IsEnd(M, r, s, Extreme(t, t.rb_node, s))
<1>1. CASE t.rb_node = NIL
  BY <1>1 DEF Extreme, IsEnd, Shape, Linked
<1>2. CASE t.rb_node # NIL
  <2>1. PICK e : e = Extreme(t, t.rb_node, s)
    OBVIOUS
  <2>2. t.rb_node \in M /\ \A d \in Side : b[t.rb_node][d] = w[d]
    BY <1>2 DEF Shape, Linked, Placed
  <2>3. e \in M /\ b[e][s] = w[s] /\ Kid(t, e, s) = NIL
    BY <2>1, <2>2, ExtremeEnds
  <2>4. ASSUME NEW y \in M PROVE ~Toward(s, r[e], r[y])
    <3>1. ~(Toward(s, r[e], r[y]) /\ Toward(s, r[y], w[s]))
      BY <2>3 DEF Shape, Placed
    <3>2. Toward(s, r[y], b[y][s]) /\ ~Toward(s, w[s], b[y][s])
      BY DEF Shape, Placed
    <3>3. r[y] \in Int /\ b[y][s] \in Int /\ w[s] \in Int
      BY ShapeTypes
    <3> QED BY <3>1, <3>2, <3>3 DEF Toward
  <2> QED BY <2>1, <2>2, <2>3, <2>4 DEF IsEnd
<1> QED BY <1>1, <1>2

ClimbRun(t, n, s, g) ==
  g = [i \in 0 .. Cardinality(Node) |->
        IF i = 0 THEN n
        ELSE IF Parent(t, g[i - 1]) # NIL /\ g[i - 1] = Kid(t, Parent(t, g[i - 1]), s)
             THEN Parent(t, g[i - 1]) ELSE g[i - 1]]

(* The climb of rb_next and rb_prev. *)
LEMMA ClimbEnds ==
  ASSUME NEW t, NEW M, NEW r, NEW b, NEW w, Shape(t, M, r, b, w),
         NEW n \in M, NEW s \in Side, Kid(t, n, s) = NIL, NEW e, e = Neighbour(t, n, s)
  PROVE  \E m \in M : /\ b[m][s] = b[n][s] /\ e = Parent(t, m)
                      /\ ~(Parent(t, m) # NIL /\ m = Kid(t, Parent(t, m), s))
<1>1. PICK N \in Nat : N = Cardinality(Node)
  BY RbTreeAssumption, FS_CardinalityType
<1>a. PICK f : f = [m \in M |-> Cardinality(M \ In(M, r, b, m))]
  OBVIOUS
<1>0. \A m \in M :
        /\ f[m] \in 0 .. N
        /\ Parent(t, m) # NIL /\ m = Kid(t, Parent(t, m), s) =>
             /\ Parent(t, m) \in M /\ b[Parent(t, m)][s] = b[m][s]
             /\ f[Parent(t, m)] < f[m]
  <2> TAKE m \in M
  <2>1. Cardinality(M \ In(M, r, b, m)) \in 0 .. N
    BY <1>1, Measures
  <2>2. ASSUME NEW p, p = Parent(t, m), p # NIL, m = Kid(t, p, s)
        PROVE  /\ p \in M /\ b[p][s] = b[m][s]
               /\ Cardinality(M \ In(M, r, b, p)) < Cardinality(M \ In(M, r, b, m))
    <3>1. p \in M /\ m # NIL
      BY <2>2, ShapeTypes DEF Shape, Linked
    <3>2. b[p][s] = b[m][s]
      BY <2>2, <3>1 DEF Shape, Placed
    <3> QED BY <2>2, <3>1, <3>2, Measures
  <2> QED BY <1>a, <2>1, <2>2
<1> DEFINE X == {m \in M : b[m][s] = b[n][s]}
           C == {m \in M : Parent(t, m) # NIL /\ m = Kid(t, Parent(t, m), s)}
           step == [m \in X |-> IF Parent(t, m) # NIL /\ m = Kid(t, Parent(t, m), s)
                                THEN Parent(t, m) ELSE m]
           size == [m \in X |-> f[m]]
<1>2. Shrinks(X, C, step, size)
  <2>1. step \in [X -> X]
    BY <1>0
  <2>2. size \in [X -> Nat]
    BY <1>0
  <2>3. ASSUME NEW m \in X PROVE IF m \in C THEN size[step[m]] < size[m] ELSE step[m] = m
    <3>1. CASE m \in C
      <4>1. step[m] = Parent(t, m) /\ step[m] \in X
        BY <2>1, <3>1
      <4> QED BY <1>0, <3>1, <4>1
    <3>2. CASE m \notin C
      BY <3>2
    <3> QED BY <3>1, <3>2
  <2> QED BY <2>1, <2>2, <2>3 DEF Shrinks
<1>3. n \in X /\ size[n] <= N
  BY <1>0
<1>4. ASSUME NEW g, ClimbRun(t, n, s, g) PROVE Runs(X, step, n, N, g)
  BY <1>1, <1>4 DEF ClimbRun, Runs
<1>5. \E g : ClimbRun(t, n, s, g)
  <2>1. PICK g : Rounds(n, step, N, g)
    BY RoundsExist
  <2>2. Runs(X, step, n, N, g)
    BY <2>1 DEF Runs, Rounds
  <2>3. \A i \in 0 .. N : g[i] \in X
    BY <1>2, <1>3, <2>2, RunsStay DEF Shrinks
  <2>4. ASSUME NEW i \in 0 .. N, i # 0 PROVE i - 1 \in 0 .. N
    BY <2>4
  <2>5. ClimbRun(t, n, s, g)
    BY <1>1, <2>1, <2>3, <2>4 DEF Rounds, ClimbRun
  <2> QED BY <2>5
<1>6. PICK g : g = CHOOSE h : ClimbRun(t, n, s, h)
  OBVIOUS
<1>7. ClimbRun(t, n, s, g)
  BY <1>5, <1>6
<1>9. e = Parent(t, g[N])
  BY <1>1, <1>6 DEF Neighbour, Repeat, ClimbRun
<1>10. g[N] \in X /\ g[N] \notin C
  <2>1. Runs(X, step, n, N, g)
    BY <1>4, <1>7
  <2> HIDE DEF X, C, step, size
  <2> QED BY <1>2, <1>3, <2>1, LoopEnds
<1> QED BY <1>9, <1>10

LEMMA NextFound ==
  ASSUME NEW t, NEW M, NEW r, NEW b, NEW w, Shape(t, M, r, b, w),
         NEW n \in M, NEW s \in Side
  PROVE  IsNext(M, r, n, s, Neighbour(t, n, s))
<1>1. PICK e : e = Neighbour(t, n, s)
  OBVIOUS
<1>2. PICK o \in Side : o = Other(s) /\ Other(o) = s
  BY SideFacts
<1>3. /\ \A y \in M : r[y] \in Int /\ \A d \in Side : b[y][d] \in Int
      /\ \A i, j \in Int : Toward(o, i, j) <=> Toward(s, j, i)
      /\ \A i, j, k \in Int : Toward(s, i, j) /\ Toward(s, j, k) => Toward(s, i, k)
      /\ NIL \notin M
  BY <1>2, ShapeTypes, TowardFacts
<1>4. CASE Kid(t, n, s) # NIL
  <2>1. PICK c \in M : c = Kid(t, n, s) /\ b[c][o] = r[n]
    BY <1>2, <1>4 DEF Shape, Linked, Placed
  <2>2. e = Extreme(t, c, o)
    BY <1>1, <1>2, <1>4, <2>1 DEF Neighbour
  <2>3. e \in M /\ b[e][o] = r[n] /\ Kid(t, e, o) = NIL
    BY <2>1, <2>2, ExtremeEnds
  <2>4. Toward(o, r[e], r[n]) /\ \A y \in M : ~(Toward(o, r[e], r[y]) /\ Toward(o, r[y], r[n]))
    BY <2>3 DEF Shape, Placed
  <2>5. e # NIL /\ Toward(s, r[n], r[e])
    BY <1>3, <2>3, <2>4
  <2>6. \A y \in M : ~(Toward(s, r[n], r[y]) /\ Toward(s, r[y], r[e]))
    BY <1>3, <2>3, <2>4
  <2> QED BY <1>1, <2>3, <2>5, <2>6 DEF IsNext
<1>5. CASE Kid(t, n, s) = NIL
  <2>1. PICK m \in M : /\ b[m][s] = b[n][s] /\ e = Parent(t, m)
                       /\ ~(Parent(t, m) # NIL /\ m = Kid(t, Parent(t, m), s))
    BY <1>1, <1>5, ClimbEnds
  <2>2. \A y \in M : ~(Toward(s, r[n], r[y]) /\ Toward(s, r[y], b[n][s]))
    BY <1>5 DEF Shape, Placed
  <2>3. Toward(s, r[n], b[n][s])
    BY DEF Shape, Placed
  <2>4. CASE e = NIL
    <3>1. b[n][s] = w[s]
      <4>1. m = t.rb_node /\ t.rb_node # NIL
        BY <1>3, <2>1, <2>4 DEF Shape, Linked
      <4> QED BY <2>1, <4>1 DEF Shape, Placed
    <3>2. ASSUME NEW y \in M PROVE ~Toward(s, r[n], r[y])
      <4>1. Toward(s, r[y], b[y][s]) /\ ~Toward(s, w[s], b[y][s])
        BY DEF Shape, Placed
      <4>2. r[y] \in Int /\ b[y][s] \in Int /\ w[s] \in Int
        BY ShapeTypes
      <4>3. Toward(s, r[y], b[n][s])
        BY <3>1, <4>1, <4>2 DEF Toward
      <4> QED BY <2>2, <4>3
    <3> QED BY <1>1, <2>4, <3>2 DEF IsNext
  <2>5. CASE e # NIL
    <3>1. e \in M /\ \E d \in Side : Kid(t, e, d) = m
      BY <2>1, <2>5 DEF Shape, Linked
    <3>2. Kid(t, e, o) = m /\ m # NIL
      BY <1>2, <1>3, <2>1, <2>5, <3>1, SideFacts
    <3>3. b[m][s] = r[e]
      BY <1>2, <3>1, <3>2 DEF Shape, Placed
    <3> QED BY <1>1, <2>1, <2>2, <2>3, <2>5, <3>1, <3>3 DEF IsNext
  <2> QED BY <2>4, <2>5
<1> QED BY <1>4, <1>5

(* f counts down on the way from the root. *)
Descending(t, M, f) ==
  /\ f \in [M \cup {NIL} -> Nat]
  /\ \A x \in M \cup {NIL} : f[x] <= Cardinality(Node)
  /\ \A x \in M, d \in Side : Kid(t, x, d) \in M \cup {NIL} /\ f[Kid(t, x, d)] < f[x]

LEMMA DescentSize ==
  ASSUME NEW t, NEW M, NEW r, NEW b, NEW w, Shape(t, M, r, b, w)
  PROVE  \E f : Descending(t, M, f)
<1>1. PICK f : f = [x \in M \cup {NIL} |-> IF x = NIL THEN 0 ELSE Cardinality(In(M, r, b, x))]
  OBVIOUS
<1>2. Cardinality(Node) \in Nat /\ NIL \notin M
  BY RbTreeAssumption, FS_CardinalityType, ShapeTypes
<1>3. ASSUME NEW x \in M PROVE f[x] \in 1 .. Cardinality(Node)
  <2>1. x \in In(M, r, b, x) /\ IsFiniteSet(In(M, r, b, x))
    BY Intervals, ShapeTypes, FS_Subset
  <2>2. Cardinality(In(M, r, b, x)) # 0
    BY <2>1, FS_EmptySet
  <2>3. Cardinality(In(M, r, b, x)) \in 0 .. Cardinality(Node)
    BY Measures
  <2> QED BY <1>1, <1>2, <2>2, <2>3
<1>4. f[NIL] = 0
  BY <1>1
<1>5. ASSUME NEW x \in M, NEW d \in Side PROVE Kid(t, x, d) \in M \cup {NIL} /\ f[Kid(t, x, d)] < f[x]
  <2>1. CASE Kid(t, x, d) = NIL
    BY <1>2, <1>3, <1>4, <2>1
  <2>2. CASE Kid(t, x, d) # NIL
    <3>1. Kid(t, x, d) \in M
      BY <2>2 DEF Shape, Linked
    <3>2. Cardinality(In(M, r, b, Kid(t, x, d))) < Cardinality(In(M, r, b, x))
      BY <2>2, Measures
    <3> QED BY <1>1, <1>2, <3>1, <3>2
  <2> QED BY <2>1, <2>2
<1> QED BY <1>1, <1>2, <1>3, <1>4, <1>5 DEF Descending

(* The values do not fall from left to right. *)
Sorted(t, M, r) == \A x, y \in M : r[x] < r[y] => t.value[x] <= t.value[y]

LEMMA SortedTypes ==
  ASSUME NEW t, NEW M, NEW r, NEW b, NEW w, Shape(t, M, r, b, w), Sorted(t, M, r)
  PROVE  /\ \A x \in M : t.value[x] \in Int /\ r[x] \in Int
         /\ \A x, y \in M : t.value[x] < t.value[y] => r[x] < r[y]
<1>1. \A x \in M : t.value[x] \in Int /\ r[x] \in Int
  BY ShapeTypes DEF Shape, Linked, Trees
<1>2. \A x, y \in M : t.value[x] < t.value[y] => r[x] < r[y]
  <2> TAKE x, y \in M
  <2>1. r[x] = r[y] => x = y
    BY DEF Shape, Placed
  <2>2. r[y] < r[x] => t.value[y] <= t.value[x]
    BY DEF Sorted
  <2> QED BY <1>1, <2>1, <2>2
<1> QED BY <1>1, <1>2

(* e is the first node of A. *)
IsFirst(A, r, e) == IF e = NIL THEN A = {} ELSE e \in A /\ \A y \in A : r[e] <= r[y]

(* What is in A is below n or not before best. *)
Searching(M, A, r, b, n, best) ==
  /\ best # NIL => best \in A /\ (n # NIL => \A y \in In(M, r, b, n) : r[y] < r[best])
  /\ \A y \in A : (n # NIL /\ y \in In(M, r, b, n)) \/ (best # NIL /\ r[best] <= r[y])

(* A has every node to the right of one it has. *)
UpTo(M, A, r) == A \subseteq M /\ \A x \in A, y \in M : r[x] < r[y] => y \in A

LEMMA GreaterStep ==
  ASSUME NEW t, NEW M, NEW r, NEW b, NEW w, Shape(t, M, r, b, w), NEW A, UpTo(M, A, r),
         NEW n \in M, NEW best \in M \cup {NIL}, Searching(M, A, r, b, n, best)
  PROVE  IF n \in A THEN Searching(M, A, r, b, Kid(t, n, "left"), n)
         ELSE Searching(M, A, r, b, Kid(t, n, "right"), best)
<1>1. PICK lc, rc : lc = Kid(t, n, "left") /\ rc = Kid(t, n, "right")
  OBVIOUS
<1>2. /\ KidInterval(t, M, r, b, n, "left", lc) /\ KidInterval(t, M, r, b, n, "right", rc)
      /\ n \in In(M, r, b, n) /\ In(M, r, b, n) \subseteq M /\ n # NIL /\ NIL \notin M
  <2>1. "left" \in Side /\ "right" \in Side
    BY DEF Side
  <2> QED BY <1>1, <2>1, Intervals, ShapeTypes
<1>3. /\ \A x \in M : r[x] \in Int
      /\ \A x, y \in M : r[x] = r[y] => x = y
  <2>1. \A x, y \in M : r[x] = r[y] => x = y
    BY DEF Shape, Placed
  <2> QED BY <2>1, ShapeTypes
<1>4. CASE n \in A
  <2>1. ASSUME NEW y \in A PROVE (lc # NIL /\ y \in In(M, r, b, lc)) \/ r[n] <= r[y]
    <3>0. y \in M
      BY DEF UpTo
    <3>1. CASE y \in In(M, r, b, n)
      <4>1. ~(r[n] <= r[y]) => Toward("left", r[n], r[y])
        BY <1>3, <3>0 DEF Toward
      <4> QED BY <1>2, <3>1, <4>1 DEF KidInterval
    <3>2. CASE y \notin In(M, r, b, n)
      <4>1. best # NIL /\ r[best] <= r[y] /\ r[n] < r[best]
        BY <1>2, <2>1, <3>2 DEF Searching
      <4> QED BY <1>2, <1>3, <3>0, <4>1
    <3> QED BY <3>1, <3>2
  <2>2. lc # NIL => \A y \in In(M, r, b, lc) : r[y] < r[n]
    BY <1>2 DEF KidInterval, Toward
  <2> QED BY <1>1, <1>2, <1>4, <2>1, <2>2 DEF Searching
<1>5. CASE n \notin A
  <2>1. ASSUME NEW y \in A
        PROVE  (rc # NIL /\ y \in In(M, r, b, rc)) \/ (best # NIL /\ r[best] <= r[y])
    <3>1. y \in M /\ Toward("right", r[n], r[y])
      BY <1>3, <1>5, <2>1 DEF UpTo, Toward
    <3>2. CASE y \in In(M, r, b, n)
      BY <1>2, <3>1, <3>2 DEF KidInterval
    <3>3. CASE y \notin In(M, r, b, n)
      BY <2>1, <3>3 DEF Searching
    <3> QED BY <3>2, <3>3
  <2>2. rc # NIL => In(M, r, b, rc) \subseteq In(M, r, b, n)
    BY <1>2 DEF KidInterval
  <2> QED BY <1>1, <1>2, <1>5, <2>1, <2>2 DEF Searching
<1> QED BY <1>4, <1>5

GreaterStates(M, A, r, b) ==
  {x \in [n : M \cup {NIL}, best : M \cup {NIL}] : Searching(M, A, r, b, x.n, x.best)}

GreaterRound(t, A, x) ==
  IF x.n = NIL THEN x
  ELSE IF x.n \in A THEN [n |-> Kid(t, x.n, "left"), best |-> x.n]
  ELSE [n |-> Kid(t, x.n, "right"), best |-> x.best]

GreaterRoundIn(t, A, X) == [x \in X |-> GreaterRound(t, A, x)]
SizeIn(f, X) == [x \in X |-> f[x.n]]
Unfinished(X) == {x \in X : x.n # NIL}

GreaterStart(t) == [n |-> t.rb_node, best |-> NIL]

LEMMA GreaterRounds ==
  ASSUME NEW t, NEW M, NEW r, NEW b, NEW w, Shape(t, M, r, b, w), NEW A, UpTo(M, A, r),
         NEW f, Descending(t, M, f), NEW X, X = GreaterStates(M, A, r, b),
         NEW C, C = Unfinished(X), NEW step, step = GreaterRoundIn(t, A, X),
         NEW m, m = SizeIn(f, X)
  PROVE  Shrinks(X, C, step, m) /\ GreaterStart(t) \in X /\ m[GreaterStart(t)] <= Cardinality(Node)
<1> USE DEF Unfinished, SizeIn, GreaterRoundIn
<1>1. ASSUME NEW x \in X, x.n # NIL, NEW y, y = GreaterRound(t, A, x)
      PROVE  y \in X /\ f[y.n] < f[x.n]
  <2>1. PICK n \in M, best \in M \cup {NIL} : n = x.n /\ best = x.best
    BY <1>1 DEF GreaterStates
  <2>2. Searching(M, A, r, b, n, best)
    BY <2>1 DEF GreaterStates
  <2>3. PICK d \in Side : d = IF n \in A THEN "left" ELSE "right"
    BY DEF Side
  <2>4. PICK k, c : k = Kid(t, n, d) /\ c = IF n \in A THEN n ELSE best
    OBVIOUS
  <2>5. k \in M \cup {NIL} /\ f[k] < f[n]
    BY <2>4 DEF Descending
  <2>6. Searching(M, A, r, b, k, c)
    BY <2>2, <2>3, <2>4, GreaterStep
  <2>7. y = [n |-> k, best |-> c]
    BY <1>1, <2>1, <2>3, <2>4 DEF GreaterRound
  <2>8. c \in M \cup {NIL}
    BY <2>4
  <2> QED BY <2>1, <2>5, <2>6, <2>7, <2>8 DEF GreaterStates
<1>2. \A x \in X : x.n \in M \cup {NIL} /\ (x.n = NIL => GreaterRound(t, A, x) = x)
  BY DEF GreaterStates, GreaterRound
<1>3. step \in [X -> X]
  BY <1>1, <1>2
<1>4. m \in [X -> Nat]
  BY <1>2 DEF Descending
<1>5. ASSUME NEW x \in X PROVE IF x \in C THEN m[step[x]] < m[x] ELSE step[x] = x
  <2>1. CASE x.n # NIL
    BY <1>1, <1>3, <2>1
  <2>2. CASE x.n = NIL
    BY <1>2, <2>2
  <2> QED BY <2>1, <2>2
<1>6. Shrinks(X, C, step, m)
  BY <1>3, <1>4, <1>5 DEF Shrinks
<1>7. t.rb_node \in M \cup {NIL} /\ (t.rb_node = NIL => M = {})
  BY DEF Shape, Linked
<1>8. t.rb_node # NIL => In(M, r, b, t.rb_node) = M
  BY RootInterval
<1>9. Searching(M, A, r, b, t.rb_node, NIL)
  BY <1>7, <1>8 DEF Searching, UpTo
<1>10. GreaterStart(t) \in X /\ GreaterStart(t).n = t.rb_node
  BY <1>7, <1>9 DEF GreaterStart, GreaterStates
<1> QED BY <1>6, <1>7, <1>10 DEF Descending

(* A search that goes left from the nodes of A ends with the first. *)
LEMMA GreaterEnds ==
  ASSUME NEW t, NEW M, NEW r, NEW b, NEW w, Shape(t, M, r, b, w), NEW A, UpTo(M, A, r)
  PROVE  \E X, step :
           /\ step = GreaterRoundIn(t, A, X) /\ step \in [X -> X]
           /\ X = GreaterStates(M, A, r, b) /\ GreaterStart(t) \in X
           /\ \A g : Runs(X, step, GreaterStart(t), Cardinality(Node), g) =>
                     IsFirst(A, r, g[Cardinality(Node)].best)
<1>0. Cardinality(Node) \in Nat
  BY RbTreeAssumption, FS_CardinalityType
<1>1. PICK f : Descending(t, M, f)
  BY DescentSize
<1>2. PICK X, C : X = GreaterStates(M, A, r, b) /\ C = Unfinished(X)
  OBVIOUS
<1>3. PICK step, m : step = GreaterRoundIn(t, A, X) /\ m = SizeIn(f, X)
  OBVIOUS
<1>4. Shrinks(X, C, step, m) /\ GreaterStart(t) \in X /\ m[GreaterStart(t)] <= Cardinality(Node)
  BY <1>1, <1>2, <1>3, GreaterRounds, Zenon
<1>5. ASSUME NEW g, Runs(X, step, GreaterStart(t), Cardinality(Node), g)
      PROVE  IsFirst(A, r, g[Cardinality(Node)].best)
  <2>1. PICK z : z = g[Cardinality(Node)]
    OBVIOUS
  <2>2. z \in X /\ z \notin C
    BY <1>0, <1>4, <1>5, <2>1, LoopEnds
  <2>3. z.n = NIL /\ Searching(M, A, r, b, z.n, z.best)
    BY <1>2, <2>2 DEF GreaterStates, Unfinished
  <2> QED BY <2>1, <2>3 DEF Searching, IsFirst
<1> QED BY <1>2, <1>3, <1>4, <1>5 DEF Shrinks

GreaterRun(t, key, g) ==
  g = [i \in 0 .. Cardinality(Node) |->
        IF i = 0 THEN [n |-> t.rb_node, best |-> NIL]
        ELSE IF g[i - 1].n # NIL
             THEN IF t.value[g[i - 1].n] > key
                  THEN [n |-> Kid(t, g[i - 1].n, "left"), best |-> g[i - 1].n]
                  ELSE [n |-> Kid(t, g[i - 1].n, "right"), best |-> g[i - 1].best]
             ELSE g[i - 1]]

LEMMA GreaterFound ==
  ASSUME NEW t, NEW M, NEW r, NEW b, NEW w, Shape(t, M, r, b, w), Sorted(t, M, r),
         NEW key \in Int
  PROVE  IsFirst({x \in M : t.value[x] > key}, r, rb_first_greater(t, key))
<1>1. PICK N \in Nat : N = Cardinality(Node)
  BY RbTreeAssumption, FS_CardinalityType
<1>2. PICK A : A = {x \in M : t.value[x] > key}
  OBVIOUS
<1>3. UpTo(M, A, r)
  <2>1. \A x \in M : t.value[x] \in Int
    BY SortedTypes
  <2> QED BY <1>2, <2>1 DEF UpTo, Sorted
<1>4. PICK X, step :
        /\ step = GreaterRoundIn(t, A, X) /\ step \in [X -> X]
        /\ X = GreaterStates(M, A, r, b) /\ GreaterStart(t) \in X
        /\ \A g : Runs(X, step, GreaterStart(t), N, g) => IsFirst(A, r, g[N].best)
  BY <1>1, <1>3, GreaterEnds
<1>5. \A x \in X : step[x] = IF x.n # NIL
                            THEN IF t.value[x.n] > key
                                 THEN [n |-> Kid(t, x.n, "left"), best |-> x.n]
                                 ELSE [n |-> Kid(t, x.n, "right"), best |-> x.best]
                            ELSE x
  BY <1>2, <1>4 DEF GreaterStates, GreaterRound, GreaterRoundIn
<1>6. ASSUME NEW g, GreaterRun(t, key, g) PROVE Runs(X, step, GreaterStart(t), N, g)
  <2>1. g[0] = GreaterStart(t)
    BY <1>1, <1>6 DEF GreaterRun, GreaterStart
  <2>2. ASSUME NEW i \in 0 .. N - 1, g[i] \in X PROVE g[i + 1] = step[g[i]]
    <3>1. i + 1 \in 0 .. N /\ i + 1 # 0 /\ (i + 1) - 1 = i
      OBVIOUS
    <3>2. g[i + 1] = IF g[i].n # NIL
                     THEN IF t.value[g[i].n] > key
                          THEN [n |-> Kid(t, g[i].n, "left"), best |-> g[i].n]
                          ELSE [n |-> Kid(t, g[i].n, "right"), best |-> g[i].best]
                     ELSE g[i]
      BY <1>1, <1>6, <3>1, ZenonT(40) DEF GreaterRun
    <3> QED BY <1>5, <2>2, <3>2, ZenonT(40)
  <2> QED BY <2>1, <2>2 DEF Runs
<1>7. \E g : GreaterRun(t, key, g)
  <2>1. PICK g : Rounds(GreaterStart(t), step, N, g)
    BY RoundsExist
  <2>2. Runs(X, step, GreaterStart(t), N, g)
    BY <2>1 DEF Runs, Rounds
  <2>3. \A i \in 0 .. N : g[i] \in X
    BY <1>4, <2>2, RunsStay
  <2>4. ASSUME NEW i \in 0 .. N
        PROVE  g[i] = IF i = 0 THEN [n |-> t.rb_node, best |-> NIL]
                      ELSE IF g[i - 1].n # NIL
                           THEN IF t.value[g[i - 1].n] > key
                                THEN [n |-> Kid(t, g[i - 1].n, "left"), best |-> g[i - 1].n]
                                ELSE [n |-> Kid(t, g[i - 1].n, "right"), best |-> g[i - 1].best]
                           ELSE g[i - 1]
    <3>1. CASE i = 0
      BY <2>1, <3>1 DEF Rounds, GreaterStart
    <3>2. CASE i # 0
      <4>1. PICK j \in 0 .. N : j = i - 1
        BY <3>2
      <4>2. g[i] = step[g[j]] /\ g[j] \in X
        BY <2>1, <2>3, <3>2, <4>1 DEF Rounds
      <4> QED BY <1>5, <3>2, <4>1, <4>2, Zenon
    <3> QED BY <3>1, <3>2
  <2>5. g = [i \in 0 .. N |-> g[i]]
    BY <2>1 DEF Rounds
  <2>6. GreaterRun(t, key, g)
    BY <1>1, <2>4, <2>5, Zenon DEF GreaterRun
  <2> QED BY <2>6
<1>8. PICK g : g = CHOOSE h : GreaterRun(t, key, h)
  OBVIOUS
<1>9. GreaterRun(t, key, g)
  BY <1>7, <1>8
<1>10. rb_first_greater(t, key) = g[N].best
  BY <1>1, <1>8, Zenon DEF rb_first_greater, Repeat, GreaterRun
<1> QED BY <1>2, <1>4, <1>6, <1>9, <1>10

-----------------------------------------------------------------------------
(* search_node. *)
IsHit(t, M, key, e) ==
  IF e = NIL THEN \A y \in M : t.value[y] # key ELSE e \in M /\ t.value[e] = key

(* A node with this value is below n. *)
Hunting(t, M, r, b, key, n) ==
  n \in M \cup {NIL} /\ \A y \in M : t.value[y] = key => n # NIL /\ y \in In(M, r, b, n)

LEMMA HuntStep ==
  ASSUME NEW t, NEW M, NEW r, NEW b, NEW w, Shape(t, M, r, b, w), Sorted(t, M, r),
         NEW key \in Int, NEW n \in M, Hunting(t, M, r, b, key, n), t.value[n] # key,
         NEW d, d = IF key < t.value[n] THEN "left" ELSE "right"
  PROVE  d \in Side /\ Hunting(t, M, r, b, key, Kid(t, n, d))
<1>1. d \in Side
  BY DEF Side
<1>2. PICK k : k = Kid(t, n, d)
  OBVIOUS
<1>3. KidInterval(t, M, r, b, n, d, k) /\ NIL \notin M /\ In(M, r, b, n) \subseteq M
  BY <1>1, <1>2, Intervals, ShapeTypes
<1>4. ASSUME NEW y \in M, t.value[y] = key PROVE k # NIL /\ y \in In(M, r, b, k)
  <2>1. y \in In(M, r, b, n)
    BY <1>4 DEF Hunting
  <2>2. /\ t.value[n] \in Int /\ r[n] \in Int /\ r[y] \in Int
        /\ t.value[y] < t.value[n] => r[y] < r[n]
        /\ t.value[n] < t.value[y] => r[n] < r[y]
    BY SortedTypes
  <2>3. Toward(d, r[n], r[y])
    BY <1>4, <2>2 DEF Toward
  <2> QED BY <1>3, <2>1, <2>3 DEF KidInterval
<1>5. k \in M \cup {NIL}
  BY <1>1, <1>2 DEF Shape, Linked
<1> QED BY <1>1, <1>2, <1>4, <1>5 DEF Hunting

HuntRound(t, key, n) ==
  IF n # NIL /\ t.value[n] # key
  THEN Kid(t, n, IF key < t.value[n] THEN "left" ELSE "right") ELSE n

HuntRun(t, key, g) ==
  g = [i \in 0 .. Cardinality(Node) |->
        IF i = 0 THEN t.rb_node
        ELSE IF g[i - 1] # NIL /\ t.value[g[i - 1]] # key
             THEN Kid(t, g[i - 1], IF key < t.value[g[i - 1]] THEN "left" ELSE "right")
             ELSE g[i - 1]]

LEMMA SearchFound ==
  ASSUME NEW t, NEW M, NEW r, NEW b, NEW w, Shape(t, M, r, b, w), Sorted(t, M, r),
         NEW key \in Int
  PROVE  IsHit(t, M, key, search_node(t, key))
<1>1. PICK N \in Nat : N = Cardinality(Node)
  BY RbTreeAssumption, FS_CardinalityType
<1>2. PICK f : Descending(t, M, f)
  BY DescentSize
<1>3. PICK X : X = {n \in M \cup {NIL} : Hunting(t, M, r, b, key, n)}
  OBVIOUS
<1>4. PICK C : C = {n \in X : n # NIL /\ t.value[n] # key}
  OBVIOUS
<1>5. PICK step, m : step = [n \in X |-> HuntRound(t, key, n)] /\ m = [n \in X |-> f[n]]
  OBVIOUS
<1>6. \A n \in X : /\ n \in M \cup {NIL} /\ Hunting(t, M, r, b, key, n)
                   /\ step[n] = HuntRound(t, key, n) /\ m[n] = f[n]
  BY <1>3, <1>5
<1>7. ASSUME NEW n \in X, NEW k, k = HuntRound(t, key, n)
      PROVE  k \in X /\ IF n \in C THEN f[k] < f[n] ELSE k = n
  <2>1. CASE n # NIL /\ t.value[n] # key
    <3>1. PICK d : d = IF key < t.value[n] THEN "left" ELSE "right"
      OBVIOUS
    <3>2. d \in Side /\ Hunting(t, M, r, b, key, Kid(t, n, d))
      BY <1>6, <2>1, <3>1, HuntStep
    <3>3. k = Kid(t, n, d)
      BY <1>7, <2>1, <3>1 DEF HuntRound
    <3>4. k \in X
      BY <1>3, <3>2, <3>3 DEF Hunting
    <3>5. n \in C /\ n \in M
      BY <1>4, <1>6, <2>1
    <3>6. f[k] < f[n]
      BY <1>2, <3>2, <3>3, <3>5 DEF Descending
    <3> QED BY <3>4, <3>5, <3>6
  <2>2. CASE ~(n # NIL /\ t.value[n] # key)
    BY <1>4, <1>7, <2>2 DEF HuntRound
  <2> QED BY <2>1, <2>2
<1>8. step \in [X -> X] /\ m \in [X -> Nat]
  BY <1>2, <1>5, <1>6, <1>7 DEF Descending
<1>9. Shrinks(X, C, step, m)
  BY <1>6, <1>7, <1>8 DEF Shrinks
<1>10. t.rb_node \in X /\ m[t.rb_node] <= N
  <2>1. t.rb_node \in M \cup {NIL} /\ (t.rb_node = NIL => M = {})
    BY DEF Shape, Linked
  <2>2. t.rb_node # NIL => In(M, r, b, t.rb_node) = M
    BY RootInterval
  <2>3. t.rb_node \in X
    BY <1>3, <2>1, <2>2 DEF Hunting
  <2> QED BY <1>1, <1>2, <1>6, <2>1, <2>3 DEF Descending
<1>11. ASSUME NEW g, HuntRun(t, key, g) PROVE Runs(X, step, t.rb_node, N, g)
  <2>1. g[0] = t.rb_node
    BY <1>1, <1>11 DEF HuntRun
  <2>2. ASSUME NEW i \in 0 .. N - 1, g[i] \in X PROVE g[i + 1] = step[g[i]]
    <3>1. i + 1 \in 0 .. N /\ i + 1 # 0 /\ (i + 1) - 1 = i
      OBVIOUS
    <3>2. g[i + 1] = HuntRound(t, key, g[i])
      BY <1>1, <1>11, <3>1 DEF HuntRun, HuntRound
    <3> QED BY <1>6, <2>2, <3>2, SMTT(30)
  <2> QED BY <2>1, <2>2 DEF Runs
<1>12. \E g : HuntRun(t, key, g)
  <2>1. PICK g : Rounds(t.rb_node, step, N, g)
    BY RoundsExist
  <2>2. Runs(X, step, t.rb_node, N, g)
    BY <2>1 DEF Runs, Rounds
  <2>3. \A i \in 0 .. N : g[i] \in X
    BY <1>8, <1>10, <2>2, RunsStay
  <2>4. ASSUME NEW i \in 0 .. N
        PROVE  g[i] = IF i = 0 THEN t.rb_node ELSE HuntRound(t, key, g[i - 1])
    <3>1. CASE i = 0
      BY <2>1, <3>1 DEF Rounds
    <3>2. CASE i # 0
      <4>1. i - 1 \in 0 .. N
        BY <3>2
      <4> QED BY <1>6, <2>1, <2>3, <3>2, <4>1 DEF Rounds
    <3> QED BY <3>1, <3>2
  <2>5. g = [i \in 0 .. N |-> g[i]]
    BY <2>1 DEF Rounds
  <2>6. HuntRun(t, key, g)
    BY <1>1, <2>4, <2>5, Zenon DEF HuntRun, HuntRound
  <2> QED BY <2>6
<1>13. PICK g : g = CHOOSE h : HuntRun(t, key, h)
  OBVIOUS
<1>14. HuntRun(t, key, g)
  BY <1>12, <1>13
<1>15. search_node(t, key) = g[N]
  BY <1>1, <1>13, Zenon DEF search_node, Repeat, HuntRun
<1>16. g[N] \in X /\ g[N] \notin C
  BY <1>9, <1>10, <1>11, <1>14, LoopEnds
<1> QED BY <1>4, <1>6, <1>15, <1>16 DEF IsHit, Hunting

-----------------------------------------------------------------------------
(* rb_insert_node.  With the places doubled, the one next to p on side d. *)
Gap(r, p, d) == IF d = "left" THEN 2 * r[p] - 1 ELSE 2 * r[p] + 1

(* Where a node of value v belongs: below p. *)
IsGap(t, M, r, v, p) ==
  IF p = NIL THEN M = {}
  ELSE /\ p \in M /\ Kid(t, p, Below(t, v, p)) = NIL
       /\ \A y \in M : t.value[y] <= v <=> 2 * r[y] < Gap(r, p, Below(t, v, p))

(* Outside the interval of p the values tell the side. *)
Beside(t, M, r, b, v, p) ==
  \A y \in M \ In(M, r, b, p) : t.value[y] <= v <=> r[y] < r[p]

LEMMA Outside ==
  ASSUME NEW t, NEW M, NEW r, NEW b, NEW w, Shape(t, M, r, b, w), NEW p \in M,
         NEW y \in M \ In(M, r, b, p), NEW x \in In(M, r, b, p)
  PROVE  r[y] < r[x] <=> r[y] < r[p]
<1>1. /\ r[x] \in Int /\ r[y] \in Int /\ r[p] \in Int /\ \A d \in Side : b[p][d] \in Int
      /\ p \in In(M, r, b, p)
  BY ShapeTypes, Intervals DEF In
<1>2. PICK d \in Side : ~Toward(d, r[y], b[p][d])
  BY DEF In
<1>3. Toward(d, r[x], b[p][d]) /\ Toward(d, r[p], b[p][d])
  BY <1>1, <1>2 DEF In
<1> QED BY <1>1, <1>2, <1>3 DEF Toward

LEMMA DescendStep ==
  ASSUME NEW t, NEW M, NEW r, NEW b, NEW w, Shape(t, M, r, b, w), Sorted(t, M, r),
         NEW v \in Int, NEW p \in M, Beside(t, M, r, b, v, p),
         NEW d, d = Below(t, v, p), NEW n, n = Kid(t, p, d)
  PROVE  /\ d \in Side
         /\ n # NIL => n \in M /\ Beside(t, M, r, b, v, n)
         /\ n = NIL => \A y \in M : t.value[y] <= v <=> 2 * r[y] < Gap(r, p, d)
<1>1. d \in Side
  BY DEF Below, Side
<1>2. /\ KidInterval(t, M, r, b, p, d, n) /\ In(M, r, b, p) \subseteq M
      /\ p \in In(M, r, b, p)
  BY <1>1, Intervals
<1>3. /\ \A x \in M : t.value[x] \in Int /\ r[x] \in Int
      /\ \A x, y \in M : t.value[x] < t.value[y] => r[x] < r[y]
      /\ \A x, y \in M : r[x] = r[y] => x = y
  <2>1. \A x, y \in M : r[x] = r[y] => x = y
    BY DEF Shape, Placed
  <2> QED BY <2>1, SortedTypes
<1>4. \A y \in M : ~Toward(d, r[p], r[y]) =>
        (t.value[y] <= v <=> d = "right") /\ (y = p \/ (r[y] < r[p] <=> d = "right"))
  BY <1>3 DEF Toward, Below
<1>5. ASSUME n # NIL PROVE n \in M /\ Beside(t, M, r, b, v, n)
  <2>1. n \in M /\ In(M, r, b, n) = {y \in In(M, r, b, p) : Toward(d, r[p], r[y])}
    BY <1>2, <1>5 DEF KidInterval
  <2>2. n \in In(M, r, b, n)
    BY <2>1, Intervals
  <2>3. ASSUME NEW y \in M \ In(M, r, b, n) PROVE t.value[y] <= v <=> r[y] < r[n]
    <3>1. CASE y \notin In(M, r, b, p)
      BY <2>1, <2>2, <3>1, Outside DEF Beside
    <3>2. CASE y \in In(M, r, b, p)
      <4>1. ~Toward(d, r[p], r[y]) /\ Toward(d, r[p], r[n])
        BY <2>1, <2>2, <2>3, <3>2
      <4>2. r[y] < r[n] <=> d = "right"
        BY <1>1, <1>3, <2>1, <4>1 DEF Toward, Side
      <4> QED BY <1>4, <4>1, <4>2
    <3> QED BY <3>1, <3>2
  <2> QED BY <2>1, <2>3 DEF Beside
<1>6. ASSUME n = NIL, NEW y \in M PROVE t.value[y] <= v <=> 2 * r[y] < Gap(r, p, d)
  <2>1. CASE y \in In(M, r, b, p)
    <3>1. ~Toward(d, r[p], r[y])
      BY <1>2, <1>6, <2>1 DEF KidInterval
    <3>2. 2 * r[y] < Gap(r, p, d) <=> d = "right"
      BY <1>1, <1>3, <3>1 DEF Toward, Side, Gap
    <3> QED BY <1>4, <3>1, <3>2
  <2>2. CASE y \notin In(M, r, b, p)
    <3>1. t.value[y] <= v <=> r[y] < r[p]
      BY <2>2 DEF Beside
    <3>2. y # p
      BY <1>2, <2>2
    <3> QED BY <1>1, <1>3, <3>1, <3>2 DEF Side, Gap
  <2> QED BY <2>1, <2>2
<1> QED BY <1>1, <1>5, <1>6

DescentRound(t, v, x) ==
  IF x.n # NIL THEN [n |-> Kid(t, x.n, Below(t, v, x.n)), p |-> x.n] ELSE x

DescentStates(t, M, r, b, v) ==
  {x \in [n : M \cup {NIL}, p : M \cup {NIL}] :
     /\ x.p = NIL => x.n = t.rb_node
     /\ x.p # NIL => /\ x.n = Kid(t, x.p, Below(t, v, x.p))
                     /\ Beside(t, M, r, b, v, x.p)}

DescentRun(t, v, g) ==
  g = [i \in 0 .. Cardinality(Node) |->
        IF i = 0 THEN [n |-> t.rb_node, p |-> NIL]
        ELSE IF g[i - 1].n # NIL
             THEN [n |-> Kid(t, g[i - 1].n, Below(t, v, g[i - 1].n)), p |-> g[i - 1].n]
             ELSE g[i - 1]]

LEMMA GapFound ==
  ASSUME NEW t, NEW M, NEW r, NEW b, NEW w, Shape(t, M, r, b, w), Sorted(t, M, r),
         NEW v \in Int
  PROVE  IsGap(t, M, r, v, InsertParent(t, v))
<1>1. PICK N \in Nat : N = Cardinality(Node)
  BY RbTreeAssumption, FS_CardinalityType
<1>2. PICK f : Descending(t, M, f)
  BY DescentSize
<1>3. PICK X, first : X = DescentStates(t, M, r, b, v) /\ first = [n |-> t.rb_node, p |-> NIL]
  OBVIOUS
<1>4. PICK C : C = Unfinished(X)
  OBVIOUS
<1>5. PICK step, m : step = [x \in X |-> DescentRound(t, v, x)] /\ m = SizeIn(f, X)
  OBVIOUS
<1>6. \A x \in X : /\ x.n \in M \cup {NIL} /\ x.p \in M \cup {NIL}
                   /\ step[x] = DescentRound(t, v, x) /\ m[x] = f[x.n]
                   /\ x \in C <=> x.n # NIL
  BY <1>3, <1>4, <1>5 DEF DescentStates, SizeIn, Unfinished
<1>7. ASSUME NEW x \in X, NEW y, y = DescentRound(t, v, x)
      PROVE  y \in X /\ IF x.n # NIL THEN f[y.n] < f[x.n] ELSE y = x
  <2>1. CASE x.n # NIL
    <3>1. PICK n \in M : n = x.n
      BY <1>6, <2>1
    <3>2. Beside(t, M, r, b, v, n)
      <4>1. CASE x.p = NIL
        <5>1. n = t.rb_node
          BY <1>3, <3>1, <4>1 DEF DescentStates
        <5>2. In(M, r, b, n) = M
          BY <2>1, <3>1, <5>1, RootInterval
        <5> QED BY <5>2 DEF Beside
      <4>2. CASE x.p # NIL
        <5>1. PICK p \in M : p = x.p
          BY <1>6, <4>2
        <5>2. n = Kid(t, p, Below(t, v, p)) /\ Beside(t, M, r, b, v, p)
          BY <1>3, <3>1, <4>2, <5>1 DEF DescentStates
        <5>3. n # NIL
          BY <2>1, <3>1
        <5> QED BY <5>2, <5>3, DescendStep
      <4> QED BY <4>1, <4>2
    <3>3. PICK d \in Side : d = Below(t, v, n)
      BY DEF Below, Side
    <3>4. Kid(t, n, d) \in M \cup {NIL} /\ f[Kid(t, n, d)] < f[n]
      BY <1>2 DEF Descending
    <3>5. PICK k : k = Kid(t, n, d)
      OBVIOUS
    <3>6. y = [n |-> k, p |-> n] /\ n # NIL
      BY <1>7, <2>1, <3>1, <3>3, <3>5 DEF DescentRound
    <3>7. y.n = k /\ y.p = n /\ y \in [n : M \cup {NIL}, p : M \cup {NIL}]
      BY <3>4, <3>5, <3>6
    <3>8. y \in X
      BY <1>3, <3>2, <3>3, <3>5, <3>6, <3>7 DEF DescentStates
    <3> QED BY <2>1, <3>1, <3>4, <3>5, <3>7, <3>8
  <2>2. CASE x.n = NIL
    BY <1>7, <2>2 DEF DescentRound
  <2> QED BY <2>1, <2>2
<1>8. step \in [X -> X] /\ m \in [X -> Nat]
  BY <1>2, <1>5, <1>6, <1>7 DEF Descending, SizeIn
<1>9. Shrinks(X, C, step, m)
  BY <1>6, <1>7, <1>8 DEF Shrinks
<1>10. first \in X /\ m[first] <= N
  <2>1. t.rb_node \in M \cup {NIL}
    BY DEF Shape, Linked
  <2>2. first \in X /\ first.n = t.rb_node
    BY <1>3, <2>1 DEF DescentStates
  <2> QED BY <1>1, <1>2, <1>6, <2>1, <2>2 DEF Descending
<1>11. ASSUME NEW g, DescentRun(t, v, g) PROVE Runs(X, step, first, N, g)
  <2>1. g[0] = first
    BY <1>1, <1>3, <1>11 DEF DescentRun
  <2>2. ASSUME NEW i \in 0 .. N - 1, g[i] \in X PROVE g[i + 1] = step[g[i]]
    <3>1. i + 1 \in 0 .. N /\ i + 1 # 0 /\ (i + 1) - 1 = i
      OBVIOUS
    <3>2. g[i + 1] = DescentRound(t, v, g[i])
      BY <1>1, <1>11, <3>1 DEF DescentRun, DescentRound
    <3> QED BY <1>6, <2>2, <3>2
  <2> QED BY <2>1, <2>2 DEF Runs
<1>12. \E g : DescentRun(t, v, g)
  <2>1. PICK g : Rounds(first, step, N, g)
    BY RoundsExist
  <2>2. Runs(X, step, first, N, g)
    BY <2>1 DEF Runs, Rounds
  <2>3. \A i \in 0 .. N : g[i] \in X
    BY <1>8, <1>10, <2>2, RunsStay
  <2>4. ASSUME NEW i \in 0 .. N
        PROVE  g[i] = IF i = 0 THEN [n |-> t.rb_node, p |-> NIL] ELSE DescentRound(t, v, g[i - 1])
    <3>1. CASE i = 0
      BY <1>3, <2>1, <3>1 DEF Rounds
    <3>2. CASE i # 0
      <4>1. PICK j \in 0 .. N : j = i - 1
        BY <3>2
      <4>2. g[i] = step[g[j]] /\ g[j] \in X
        BY <2>1, <2>3, <3>2, <4>1 DEF Rounds
      <4> QED BY <1>6, <3>2, <4>1, <4>2
    <3> QED BY <3>1, <3>2
  <2>5. g = [i \in 0 .. N |-> g[i]]
    BY <2>1 DEF Rounds
  <2>6. DescentRun(t, v, g)
    BY <1>1, <2>4, <2>5, Zenon DEF DescentRun, DescentRound
  <2> QED BY <2>6
<1>13. PICK g : g = CHOOSE h : DescentRun(t, v, h)
  OBVIOUS
<1>14. DescentRun(t, v, g)
  BY <1>12, <1>13
<1>15. InsertParent(t, v) = g[N].p
  BY <1>1, <1>13, Zenon DEF InsertParent, Repeat, DescentRun
<1>16. g[N] \in X /\ g[N] \notin C
  BY <1>9, <1>10, <1>11, <1>14, LoopEnds
<1>17. PICK p \in M \cup {NIL} : p = g[N].p
  BY <1>6, <1>16
<1>18. /\ p = NIL => t.rb_node = NIL
       /\ p # NIL => Kid(t, p, Below(t, v, p)) = NIL /\ Beside(t, M, r, b, v, p)
  BY <1>3, <1>6, <1>16, <1>17 DEF DescentStates
<1>19. CASE p = NIL
  BY <1>15, <1>17, <1>18, <1>19 DEF IsGap, Shape, Linked
<1>20. CASE p # NIL
  <2>1. p \in M
    BY <1>20
  <2> QED BY <1>15, <1>17, <1>18, <2>1, <1>20, DescendStep DEF IsGap
<1> QED BY <1>19, <1>20

-----------------------------------------------------------------------------
(* A leaf n on side d of p, or alone in the tree. *)
Hung(t, u, n, p, d) ==
  /\ u \in Trees /\ SameRest(t, u)
  /\ u.rb_node = IF p = NIL THEN n ELSE t.rb_node
  /\ \A x \in Node :
       /\ Color(u, x) = IF x = n THEN RB_RED ELSE Color(t, x)
       /\ Parent(u, x) = IF x = n THEN p ELSE Parent(t, x)
       /\ \A e \in Side : Kid(u, x, e) = IF x = n THEN NIL
                                         ELSE IF x = p /\ e = d THEN n ELSE Kid(t, x, e)

LEMMA LinkDoes ==
  ASSUME NEW t \in Trees, NEW n \in Node, NEW p \in Ptr, n # p,
         NEW u, u = rb_link_node(t, n, p), NEW d, d = Below(t, t.value[n], p)
  PROVE  Hung(t, u, n, p, d) /\ d \in Side
<1>1. d \in Side
  BY DEF Below, Side
<1>2. PICK m : m = [rb_node_init EXCEPT !.parent = p]
  OBVIOUS
<1>3. m \in NodeRec /\ m.color = RB_RED /\ m.parent = p /\ \A e \in Side : m[e] = NIL
  BY <1>2 DEF rb_node_init, NodeRec, Hue, Ptr, Side
<1>4. PICK q : q = [t.node EXCEPT ![n] = m]
  OBVIOUS
<1>5. q \in [Node -> NodeRec] /\ \A x \in Node : q[x] = IF x = n THEN m ELSE t.node[x]
  BY <1>3, <1>4 DEF Trees
<1>6. PICK v : v = [t EXCEPT !.node = q]
  OBVIOUS
<1>7. v \in Trees /\ SameRest(t, v) /\ v.rb_node = t.rb_node /\ v.node = q
  BY <1>5, <1>6 DEF Trees, SameRest
<1>8. u = IF p = NIL THEN [v EXCEPT !.rb_node = n] ELSE [v EXCEPT !.node[p][d] = n]
  BY <1>2, <1>4, <1>6 DEF rb_link_node
<1>9. \A x \in Node :
        /\ Color(v, x) = IF x = n THEN RB_RED ELSE Color(t, x)
        /\ Parent(v, x) = IF x = n THEN p ELSE Parent(t, x)
        /\ \A e \in Side : Kid(v, x, e) = IF x = n THEN NIL ELSE Kid(t, x, e)
  <2> SUFFICES ASSUME NEW x \in Node
        PROVE  /\ Color(v, x) = IF x = n THEN RB_RED ELSE Color(t, x)
               /\ Parent(v, x) = IF x = n THEN p ELSE Parent(t, x)
               /\ \A e \in Side : Kid(v, x, e) = IF x = n THEN NIL ELSE Kid(t, x, e)
    OBVIOUS
  <2>1. v.node[x] = IF x = n THEN m ELSE t.node[x]
    BY <1>5, <1>7
  <2>2. CASE x = n
    <3>1. v.node[x] = m
      BY <2>1, <2>2
    <3> QED BY <1>3, <2>2, <3>1 DEF Color, Parent, Kid
  <2>3. CASE x # n
    <3>1. v.node[x] = t.node[x]
      BY <2>1, <2>3
    <3> QED BY <2>3, <3>1 DEF Color, Parent, Kid
  <2> QED BY <2>2, <2>3
<1>10. CASE p = NIL
  <2>1. u.rb_node = n /\ u \in Trees /\ SameRest(v, u) /\ u.node = v.node
    BY <1>7, <1>8, <1>10 DEF Trees, SameRest, Ptr
  <2>2. \A x \in Node : x # p
    BY <1>10, RbTreeAssumption
  <2> QED BY <1>1, <1>7, <1>9, <1>10, <2>1, <2>2 DEF Hung, SameRest, Color, Parent, Kid
<1>11. CASE p # NIL
  <2>1. p \in Node /\ v.node[p] \in NodeRec
    BY <1>7, <1>11 DEF Ptr, Trees
  <2>2. PICK k : k = [v.node[p] EXCEPT ![d] = n]
    OBVIOUS
  <2>3. k \in NodeRec /\ k.color = v.node[p].color /\ k.parent = v.node[p].parent
        /\ \A e \in Side : k[e] = IF e = d THEN n ELSE v.node[p][e]
    BY <1>1, <2>1, <2>2 DEF NodeRec, Side, Ptr
  <2>4. PICK z : z = [v.node EXCEPT ![p] = k]
    OBVIOUS
  <2>5. z \in [Node -> NodeRec] /\ \A x \in Node : z[x] = IF x = p THEN k ELSE v.node[x]
    BY <1>7, <2>1, <2>3, <2>4 DEF Trees
  <2>6. u = [v EXCEPT !.node = z]
    BY <1>8, <1>11, <2>2, <2>4
  <2>7. u \in Trees /\ SameRest(v, u) /\ u.rb_node = v.rb_node /\ u.node = z
    BY <1>7, <2>5, <2>6 DEF Trees, SameRest
  <2>8. \A x \in Node :
          /\ Color(u, x) = Color(v, x) /\ Parent(u, x) = Parent(v, x)
          /\ \A e \in Side : Kid(u, x, e) = IF x = p /\ e = d THEN n ELSE Kid(v, x, e)
    <3> SUFFICES ASSUME NEW x \in Node
          PROVE  /\ Color(u, x) = Color(v, x) /\ Parent(u, x) = Parent(v, x)
                 /\ \A e \in Side : Kid(u, x, e) = IF x = p /\ e = d THEN n ELSE Kid(v, x, e)
      OBVIOUS
    <3>1. u.node[x] = IF x = p THEN k ELSE v.node[x]
      BY <2>5, <2>7
    <3>2. CASE x = p
      <4>1. u.node[x] = k
        BY <3>1, <3>2
      <4> QED BY <2>3, <3>2, <4>1 DEF Color, Parent, Kid
    <3>3. CASE x # p
      <4>1. u.node[x] = v.node[x]
        BY <3>1, <3>3
      <4> QED BY <3>3, <4>1 DEF Color, Parent, Kid
    <3> QED BY <3>2, <3>3
  <2>9. SameRest(t, u)
    BY <1>7, <2>7 DEF SameRest
  <2> QED BY <1>1, <1>7, <1>9, <1>11, <2>7, <2>8, <2>9 DEF Hung
<1> QED BY <1>10, <1>11

LEMMA HangLinked ==
  ASSUME NEW t, NEW M, NEW r, NEW b, NEW w, Shape(t, M, r, b, w),
         NEW n \in Node \ M, NEW p \in M \cup {NIL}, NEW d \in Side,
         IF p = NIL THEN M = {} ELSE Kid(t, p, d) = NIL,
         NEW u, Hung(t, u, n, p, d)
  PROVE  Linked(u, M \cup {n})
<1>1. /\ M \subseteq Node /\ NIL \notin M /\ n # NIL
      /\ t.rb_node \in M \cup {NIL} /\ (t.rb_node = NIL => M = {})
      /\ \A x \in M : /\ Parent(t, x) = NIL <=> x = t.rb_node
                      /\ Parent(t, x) # NIL =>
                           Parent(t, x) \in M /\ \E s \in Side : Kid(t, Parent(t, x), s) = x
      /\ \A x \in M, s \in Side :
           Kid(t, x, s) # NIL => Kid(t, x, s) \in M /\ Parent(t, Kid(t, x, s)) = x
  BY RbTreeAssumption DEF Shape, Linked
<1>2. u \in Trees /\ M \cup {n} \subseteq Node
  BY <1>1 DEF Hung
<1>3. u.rb_node \in M \cup {n}
  BY <1>1 DEF Hung
<1>4. ASSUME NEW x \in M \cup {n}
      PROVE  /\ Parent(u, x) = NIL <=> x = u.rb_node
             /\ Parent(u, x) # NIL =>
                  Parent(u, x) \in M \cup {n} /\ \E s \in Side : Kid(u, Parent(u, x), s) = x
  <2>1. CASE x = n
    <3>1. Parent(u, x) = p /\ (p # NIL => Kid(u, p, d) = n)
      BY <1>1, <2>1 DEF Hung
    <3> QED BY <1>1, <2>1, <3>1 DEF Hung
  <2>2. CASE x # n
    <3>1. x \in M /\ Parent(u, x) = Parent(t, x) /\ p # NIL
      BY <1>1, <2>2 DEF Hung
    <3>2. Parent(u, x) = NIL <=> x = u.rb_node
      BY <1>1, <3>1 DEF Hung
    <3>3. ASSUME Parent(t, x) # NIL
          PROVE  Parent(t, x) \in M /\ \E s \in Side : Kid(u, Parent(t, x), s) = x
      <4>1. PICK q \in M, s \in Side : q = Parent(t, x) /\ Kid(t, q, s) = x
        BY <1>1, <3>1, <3>3
      <4>2. ~(q = p /\ s = d)
        BY <1>1, <3>1, <4>1
      <4>3. Kid(u, q, s) = x
        BY <1>1, <4>1, <4>2 DEF Hung
      <4> QED BY <4>1, <4>3
    <3> QED BY <3>1, <3>2, <3>3
  <2> QED BY <2>1, <2>2
<1>5. ASSUME NEW x \in M \cup {n}, NEW s \in Side, Kid(u, x, s) # NIL
      PROVE  Kid(u, x, s) \in M \cup {n} /\ Parent(u, Kid(u, x, s)) = x
  <2>1. x \in M
    BY <1>1, <1>5 DEF Hung
  <2>2. CASE x = p /\ s = d
    BY <1>1, <2>1, <2>2 DEF Hung
  <2>3. CASE ~(x = p /\ s = d)
    <3>1. Kid(u, x, s) = Kid(t, x, s)
      BY <1>1, <2>1, <2>3 DEF Hung
    <3> QED BY <1>1, <1>5, <2>1, <3>1 DEF Hung
  <2> QED BY <2>2, <2>3
<1>6. u.rb_node \in (M \cup {n}) \cup {NIL} /\ u.rb_node # NIL
  BY <1>1, <1>3
<1> QED BY <1>2, <1>4, <1>5, <1>6 DEF Linked

(* Where n lies among the nodes of M. *)
Grown(M, r, n, g, c) ==
  /\ \A x, y \in M : c[x] < c[y] <=> r[x] < r[y]
  /\ \A x \in M : (c[x] < c[n] <=> 2 * r[x] < g) /\ c[x] # c[n]

GapRanks(r, n, p, d) == [x \in Node |-> IF x = n THEN Gap(r, p, d) ELSE 2 * r[x]]
GapBounds(r, b, n, p, d) ==
  [x \in Node |-> [e \in Side |-> IF x = n THEN IF e = d THEN 2 * b[p][d] ELSE 2 * r[p]
                                  ELSE 2 * b[x][e]]]

LEMMA HangPlaced ==
  ASSUME NEW t, NEW M, NEW r, NEW b, NEW w, Shape(t, M, r, b, w),
         NEW n \in Node \ M, NEW p \in M, NEW d \in Side, Kid(t, p, d) = NIL,
         NEW u, Hung(t, u, n, p, d), NEW c, c = GapRanks(r, n, p, d),
         NEW a, a = GapBounds(r, b, n, p, d)
  PROVE  /\ Placed(u, M \cup {n}, c, a, [e \in Side |-> 2 * w[e]])
         /\ Grown(M, r, n, Gap(r, p, d), c)
<1>1. PICK v : v = [e \in Side |-> 2 * w[e]]
  OBVIOUS
<1>2. PICK g : g = Gap(r, p, d)
  OBVIOUS
<1>3. /\ M \subseteq Node /\ NIL \notin M /\ n # NIL
      /\ \A x \in M : r[x] \in Int /\ \A e \in Side : b[x][e] \in Int
      /\ \A e \in Side : w[e] \in Int
      /\ r \in [Node -> Int] /\ b \in [Node -> [Side -> Int]]
  <2>1. r \in [Node -> Int] /\ b \in [Node -> [Side -> Int]]
    BY DEF Shape, Placed
  <2> QED BY <2>1, RbTreeAssumption, ShapeTypes
<1>4. g \in Int /\ (g = 2 * r[p] - 1 \/ g = 2 * r[p] + 1)
  BY <1>2, <1>3 DEF Gap
<1>5. c \in [Node -> Int] /\ c[n] = g /\ \A x \in M : c[x] = 2 * r[x]
  BY <1>2, <1>3, <1>4 DEF GapRanks
<1>6. /\ a \in [Node -> [Side -> Int]] /\ v \in [Side -> Int]
      /\ \A x \in M, e \in Side : a[x][e] = 2 * b[x][e]
      /\ \A e \in Side : v[e] = 2 * w[e]
      /\ a[n][d] = 2 * b[p][d] /\ a[n][Other(d)] = 2 * r[p]
  BY <1>1, <1>3, SideFacts DEF GapBounds
<1>7. \A x \in M : 2 * r[x] # g
  <2> TAKE x \in M
  <2>1. r[x] \in Int /\ r[p] \in Int
    BY <1>3
  <2> QED BY <1>4, <2>1
<1>8. \A x, y \in M \cup {n} : c[x] = c[y] => x = y
  <2>1. \A x, y \in M : r[x] = r[y] => x = y
    BY DEF Shape, Placed
  <2>2. ASSUME NEW x \in M, NEW y \in M, c[x] = c[y] PROVE x = y
    <3>1. r[x] \in Int /\ r[y] \in Int /\ 2 * r[x] = 2 * r[y]
      BY <1>3, <1>5, <2>2
    <3>2. r[x] = r[y]
      BY <3>1
    <3> QED BY <2>1, <3>2
  <2>3. \A x \in M : c[x] # c[n]
    BY <1>5, <1>7
  <2> QED BY <2>2, <2>3
<1>9. Grown(M, r, n, g, c)
  BY <1>3, <1>5, <1>7 DEF Grown
<1>10. u.rb_node # NIL => \A s \in Side : a[u.rb_node][s] = v[s]
  <2>1. u.rb_node = t.rb_node /\ t.rb_node \in M
    BY <1>3 DEF Hung, Shape, Linked
  <2>2. \A s \in Side : b[t.rb_node][s] = w[s]
    BY <1>3, <2>1 DEF Shape, Placed
  <2> QED BY <1>6, <2>1, <2>2
<1>11. ASSUME NEW x \in M, NEW s \in Side
       PROVE  /\ Toward(s, c[x], a[x][s]) /\ ~Toward(s, v[s], a[x][s])
              /\ Kid(u, x, s) # NIL => /\ a[Kid(u, x, s)][s] = a[x][s]
                                       /\ a[Kid(u, x, s)][Other(s)] = c[x]
              /\ Kid(u, x, s) = NIL =>
                   \A y \in M \cup {n} : ~(Toward(s, c[x], c[y]) /\ Toward(s, c[y], a[x][s]))
  <2>0. Toward(s, r[x], b[x][s]) /\ ~Toward(s, w[s], b[x][s])
    BY DEF Shape, Placed
  <2>1. Toward(s, c[x], a[x][s]) /\ ~Toward(s, v[s], a[x][s])
    BY <1>3, <1>5, <1>6, <2>0 DEF Toward
  <2>2. CASE x = p /\ s = d
    <3>1. Kid(u, x, s) = n
      BY <1>3, <2>2 DEF Hung
    <3> QED BY <1>3, <1>5, <1>6, <2>1, <2>2, <3>1
  <2>3. CASE ~(x = p /\ s = d)
    <3>1. Kid(u, x, s) = Kid(t, x, s)
      BY <1>3, <2>3 DEF Hung
    <3>2. ASSUME NEW k, k = Kid(t, x, s), k # NIL
          PROVE  a[k][s] = a[x][s] /\ a[k][Other(s)] = c[x]
      <4>1. k \in M /\ b[k][s] = b[x][s] /\ b[k][Other(s)] = r[x] /\ Other(s) \in Side
        BY <3>2, SideFacts DEF Shape, Linked, Placed
      <4> QED BY <1>5, <1>6, <4>1
    <3>3. ASSUME Kid(t, x, s) = NIL, NEW y \in M \cup {n}
          PROVE  ~(Toward(s, c[x], c[y]) /\ Toward(s, c[y], a[x][s]))
      <4>1. \A z \in M : ~(Toward(s, r[x], r[z]) /\ Toward(s, r[z], b[x][s]))
        BY <3>3 DEF Shape, Placed
      <4>2. CASE y \in M
        <5>1. ~(Toward(s, r[x], r[y]) /\ Toward(s, r[y], b[x][s]))
          BY <4>1, <4>2
        <5>2. r[x] \in Int /\ r[y] \in Int /\ b[x][s] \in Int
              /\ c[x] = 2 * r[x] /\ c[y] = 2 * r[y] /\ a[x][s] = 2 * b[x][s]
          BY <1>3, <1>5, <1>6, <4>2
        <5> QED BY <5>1, <5>2 DEF Toward
      <4>3. CASE y = n
        <5>1. ~(Toward(s, r[x], r[p]) /\ Toward(s, r[p], b[x][s]))
          BY <4>1
        <5>2. b[x][s] = r[p] => s = d
          <6>1. b[x][s] = r[p] => Kid(t, p, Other(s)) # NIL
            BY BoundKid
          <6> QED BY <6>1, SideFacts
        <5>3. r[x] = r[p] => s # d
          BY <2>3 DEF Shape, Placed
        <5>4. r[x] \in Int /\ r[p] \in Int /\ b[x][s] \in Int
              /\ c[x] = 2 * r[x] /\ c[y] = g /\ a[x][s] = 2 * b[x][s]
          BY <1>3, <1>5, <1>6, <4>3
        <5>5. g = IF d = "left" THEN 2 * r[p] - 1 ELSE 2 * r[p] + 1
          BY <1>2 DEF Gap
        <5>6. (s = "left" \/ s = "right") /\ (d = "left" \/ d = "right")
          BY DEF Side
        <5>7. CASE s = "left"
          BY <5>1, <5>2, <5>3, <5>4, <5>5, <5>6, <5>7 DEF Toward
        <5>8. CASE s = "right"
          BY <5>1, <5>2, <5>3, <5>4, <5>5, <5>6, <5>8 DEF Toward
        <5> QED BY <5>6, <5>7, <5>8
      <4> QED BY <4>2, <4>3
    <3> QED BY <2>1, <3>1, <3>2, <3>3
  <2> QED BY <2>2, <2>3
<1>12. ASSUME NEW s \in Side
       PROVE  /\ Toward(s, c[n], a[n][s]) /\ ~Toward(s, v[s], a[n][s])
              /\ Kid(u, n, s) = NIL
              /\ \A y \in M \cup {n} : ~(Toward(s, c[n], c[y]) /\ Toward(s, c[y], a[n][s]))
  <2>1. Kid(u, n, s) = NIL
    BY DEF Hung
  <2>2. /\ Toward(d, r[p], b[p][d]) /\ ~Toward(d, w[d], b[p][d])
        /\ Toward(Other(d), r[p], b[p][Other(d)]) /\ ~Toward(Other(d), w[Other(d)], b[p][Other(d)])
        /\ \A y \in M : ~(Toward(d, r[p], r[y]) /\ Toward(d, r[y], b[p][d]))
    BY SideFacts DEF Shape, Placed
  <2>3. r[p] \in Int /\ b[p][d] \in Int /\ b[p][Other(d)] \in Int /\ w[d] \in Int /\ w[Other(d)] \in Int
        /\ c[n] = g /\ g = IF d = "left" THEN 2 * r[p] - 1 ELSE 2 * r[p] + 1
    BY <1>2, <1>3, <1>5, SideFacts DEF Gap
  <2>4. CASE s = d
    <3>1. a[n][s] = 2 * b[p][d] /\ v[s] = 2 * w[d]
      BY <1>6, <2>4
    <3>2. Toward(s, c[n], a[n][s]) /\ ~Toward(s, v[s], a[n][s])
      BY <2>2, <2>3, <2>4, <3>1 DEF Toward, Side
    <3>3. ASSUME NEW y \in M PROVE ~(Toward(s, c[n], c[y]) /\ Toward(s, c[y], a[n][s]))
      <4>1. c[y] = 2 * r[y] /\ r[y] \in Int /\ ~(Toward(d, r[p], r[y]) /\ Toward(d, r[y], b[p][d]))
        BY <1>3, <1>5, <2>2
      <4> QED BY <2>3, <2>4, <3>1, <4>1 DEF Toward, Side
    <3>4. ~Toward(s, c[n], c[n])
      BY <1>4, <2>3 DEF Toward
    <3> QED BY <2>1, <3>2, <3>3, <3>4
  <2>5. CASE s = Other(d)
    <3>1. a[n][s] = 2 * r[p] /\ v[s] = 2 * w[s]
      BY <1>6, <2>5
    <3>2. Toward(s, c[n], a[n][s]) /\ ~Toward(s, v[s], a[n][s])
      BY <2>2, <2>3, <2>5, <3>1 DEF Toward, Side, Other
    <3>3. ASSUME NEW y \in M PROVE ~(Toward(s, c[n], c[y]) /\ Toward(s, c[y], a[n][s]))
      <4>1. c[y] = 2 * r[y] /\ r[y] \in Int
        BY <1>3, <1>5
      <4> QED BY <2>3, <2>5, <3>1, <4>1 DEF Toward, Side, Other
    <3>4. ~Toward(s, c[n], c[n])
      BY <1>4, <2>3 DEF Toward
    <3> QED BY <2>1, <3>2, <3>3, <3>4
  <2> QED BY <2>4, <2>5, SideFacts
<1>13. Placed(u, M \cup {n}, c, a, v)
  <2>1. \A x \in M \cup {n}, s \in Side :
       /\ Toward(s, c[x], a[x][s]) /\ ~Toward(s, v[s], a[x][s])
       /\ Kid(u, x, s) # NIL => /\ a[Kid(u, x, s)][s] = a[x][s]
                                /\ a[Kid(u, x, s)][Other(s)] = c[x]
       /\ Kid(u, x, s) = NIL =>
            \A y \in M \cup {n} : ~(Toward(s, c[x], c[y]) /\ Toward(s, c[y], a[x][s]))
    BY <1>11, <1>12
  <2> QED BY <1>5, <1>6, <1>8, <1>10, <2>1 DEF Placed
<1> QED BY <1>1, <1>2, <1>9, <1>13

LEMMA HangAlone ==
  ASSUME NEW t, NEW n \in Node, NEW d, NEW u, Hung(t, u, n, NIL, d)
  PROVE  \E c, a, v : Placed(u, {n}, c, a, v)
<1>1. PICK c, a, v : /\ c = [x \in Node |-> 0]
                     /\ v = [s \in Side |-> IF s = "left" THEN -1 ELSE 1]
                     /\ a = [x \in Node |-> v]
  OBVIOUS
<1>2. v \in [Side -> Int] /\ \A s \in Side : v[s] = IF s = "left" THEN -1 ELSE 1
  BY <1>1
<1>3. c \in [Node -> Int] /\ a \in [Node -> [Side -> Int]] /\ c[n] = 0 /\ a[n] = v
  BY <1>1, <1>2
<1>4. u.rb_node = n /\ \A s \in Side : Kid(u, n, s) = NIL
  BY DEF Hung
<1>5. \A s \in Side : Toward(s, 0, v[s]) /\ ~Toward(s, v[s], v[s]) /\ ~Toward(s, 0, 0)
  BY <1>2 DEF Toward, Side
<1> QED BY <1>2, <1>3, <1>4, <1>5 DEF Placed

(* Insertion before the repairs. *)
LEMMA HangShape ==
  ASSUME NEW t, NEW M, NEW r, NEW b, NEW w, Shape(t, M, r, b, w),
         NEW n \in Node \ M, NEW p \in M \cup {NIL}, NEW d \in Side,
         IF p = NIL THEN M = {} ELSE Kid(t, p, d) = NIL,
         NEW u, Hung(t, u, n, p, d)
  PROVE  \E c, a, v : /\ Shape(u, M \cup {n}, c, a, v)
                      /\ p # NIL => Grown(M, r, n, Gap(r, p, d), c)
<1>1. Linked(u, M \cup {n})
  BY HangLinked
<1>2. CASE p = NIL
  <2>1. M \cup {n} = {n}
    BY <1>2
  <2> QED BY <1>1, <1>2, <2>1, HangAlone DEF Shape
<1>3. CASE p # NIL
  <2>1. p \in M /\ Kid(t, p, d) = NIL
    BY <1>3
  <2>2. PICK c, a, v : c = GapRanks(r, n, p, d) /\ a = GapBounds(r, b, n, p, d) /\ v = [e \in Side |-> 2 * w[e]]
    OBVIOUS
  <2>3. Placed(u, M \cup {n}, c, a, v) /\ Grown(M, r, n, Gap(r, p, d), c)
    BY <2>1, <2>2, HangPlaced
  <2> QED BY <1>1, <2>3 DEF Shape
<1> QED BY <1>2, <1>3

-----------------------------------------------------------------------------
(* n, which has parent p and one kid c at most, has been taken out. *)
TakenOut(t, u, n, c, p) ==
  /\ u \in Trees /\ SameRest(t, u)
  /\ u.rb_node = IF p = NIL THEN c ELSE t.rb_node
  /\ \A x \in Node :
       /\ Color(u, x) = Color(t, x)
       /\ Parent(u, x) = IF x = c THEN p ELSE Parent(t, x)
       /\ \A e \in Side : Kid(u, x, e) = IF x = p /\ Kid(t, p, e) = n THEN c ELSE Kid(t, x, e)

(* n lacks a kid on side m; c is the other one, p its parent. *)
Loose(t, M, n, m, c, p) ==
  /\ t \in Trees /\ M \subseteq Node /\ NIL \notin M /\ n \in M /\ m \in Side
  /\ Kid(t, n, m) = NIL /\ c = Kid(t, n, Other(m)) /\ c \in M \cup {NIL} /\ c # n
  /\ p = Parent(t, n) /\ p \in M \cup {NIL} /\ p # n /\ (c # NIL => p # c)
  /\ p # NIL => \E d \in Side : Kid(t, p, d) = n /\ Kid(t, p, Other(d)) # n

LEMMA Level ==
  ASSUME NEW i \in Int, NEW j \in Int, \A d \in Side : ~Toward(d, i, j)
  PROVE  i = j
<1>1. ~Toward("left", i, j) /\ ~Toward("right", i, j)
  BY DEF Side
<1> QED BY <1>1 DEF Toward

LEMMA Loosens ==
  ASSUME NEW t, NEW M, NEW r, NEW b, NEW w, Shape(t, M, r, b, w),
         NEW n \in M, NEW m \in Side, Kid(t, n, m) = NIL,
         NEW c, c = Kid(t, n, Other(m)), NEW p, p = Parent(t, n)
  PROVE  Loose(t, M, n, m, c, p)
<1>1. Other(m) \in Side /\ \A d \in Side : Other(d) \in Side /\ Other(Other(d)) = d
  BY SideFacts
<1>2. /\ t \in Trees /\ M \subseteq Node /\ NIL \notin M /\ c \in M \cup {NIL} /\ p \in M \cup {NIL}
  BY <1>1, RbTreeAssumption DEF Shape, Linked
<1>3. NoLoops(t, M)
  BY Branching
<1>4. c # n
  BY <1>1, <1>2, <1>3 DEF NoLoops
<1>5. p # NIL => /\ p # n /\ \E d \in Side : Kid(t, p, d) = n /\ Kid(t, p, Other(d)) # n
                 /\ p # c
  <2> SUFFICES ASSUME p # NIL
               PROVE  /\ p # n /\ p # c
                      /\ \E d \in Side : Kid(t, p, d) = n /\ Kid(t, p, Other(d)) # n
    OBVIOUS
  <2>1. PICK d \in Side : Kid(t, p, d) = n
    BY DEF Shape, Linked
  <2>2. Kid(t, p, d) # NIL /\ p \in M
    BY <1>2, <2>1
  <2>3. /\ n # p /\ Kid(t, p, Other(d)) # n /\ \A e \in Side : Kid(t, n, e) \notin {p, n}
    BY <1>3, <2>1, <2>2, Zenon DEF NoLoops
  <2> QED BY <1>1, <2>1, <2>3
<1> QED BY <1>2, <1>4, <1>5 DEF Loose

LEMMA CutDoes ==
  ASSUME NEW t, NEW M, NEW n, NEW m, NEW c, NEW p, Loose(t, M, n, m, c, p),
         NEW u, u = Supplant(SetParent(t, c, p), p, n, c)
  PROVE  TakenOut(t, u, n, c, p)
<1>1. t \in Trees /\ c \in Ptr /\ p \in Ptr /\ n \in Ptr
  BY DEF Loose, Ptr
<1>2. PICK v : v = SetParent(t, c, p)
  OBVIOUS
<1>3. Adopted(t, v, c, p)
  BY <1>1, <1>2, SetParentDoes, Zenon
<1>4. v \in Trees
  BY <1>3 DEF Adopted
<1>5. Supplanted(v, u, p, n, c)
  BY <1>1, <1>2, <1>4, SupplantDoes, Zenon
<1>6. \A d \in Side : p # NIL => ((d = SideOf(v, p, n)) <=> Kid(t, p, d) = n)
  <2> SUFFICES ASSUME p # NIL, NEW d \in Side PROVE (d = SideOf(v, p, n)) <=> Kid(t, p, d) = n
    OBVIOUS
  <2>1. p \in Node
    BY <1>1 DEF Ptr
  <2>2. \A e \in Side : Kid(v, p, e) = Kid(t, p, e)
    BY <1>3, <2>1 DEF Adopted
  <2>3. HangsFrom(v, n, p)
    BY <2>2, SideFacts DEF Loose, HangsFrom
  <2> QED BY <1>1, <1>4, <2>1, <2>2, <2>3, SideOfIs
<1>7. \A x \in Node : x = p => p # NIL
  BY RbTreeAssumption
<1>8. u \in Trees /\ SameRest(t, u) /\ u.rb_node = IF p = NIL THEN c ELSE t.rb_node
  BY <1>3, <1>5 DEF Adopted, Supplanted, SameRest
<1>9. ASSUME NEW x \in Node
      PROVE  /\ Color(u, x) = Color(t, x)
             /\ Parent(u, x) = IF x = c THEN p ELSE Parent(t, x)
             /\ \A e \in Side : Kid(u, x, e) = IF x = p /\ Kid(t, p, e) = n THEN c ELSE Kid(t, x, e)
  BY <1>3, <1>5, <1>6, <1>7 DEF Adopted, Supplanted
<1> QED BY <1>8, <1>9 DEF TakenOut

LEMMA CutLinked ==
  ASSUME NEW t, NEW M, NEW r, NEW b, NEW w, Shape(t, M, r, b, w),
         NEW n, NEW m, NEW c, NEW p, Loose(t, M, n, m, c, p),
         NEW u, TakenOut(t, u, n, c, p)
  PROVE  Linked(u, M \ {n})
<1>1. PICK o \in Side : o = Other(m) /\ \A d \in Side : d = m \/ d = o
  BY SideFacts DEF Loose
<1>2. /\ M \subseteq Node /\ NIL \notin M /\ n \in M /\ m \in Side
      /\ Kid(t, n, m) = NIL /\ c = Kid(t, n, o) /\ c \in M \cup {NIL} /\ c # n
      /\ p = Parent(t, n) /\ p \in M \cup {NIL} /\ p # n /\ (c # NIL => p # c)
      /\ p # NIL => \E d \in Side : Kid(t, p, d) = n
  BY <1>1 DEF Loose
<1>3. /\ t.rb_node \in M \cup {NIL} /\ (t.rb_node = NIL => M = {})
      /\ \A x \in M : /\ Parent(t, x) = NIL <=> x = t.rb_node
                      /\ Parent(t, x) # NIL =>
                           Parent(t, x) \in M /\ \E s \in Side : Kid(t, Parent(t, x), s) = x
      /\ \A x \in M, s \in Side :
           Kid(t, x, s) # NIL => Kid(t, x, s) \in M /\ Parent(t, Kid(t, x, s)) = x
  BY DEF Shape, Linked
<1>4. u.rb_node \in (M \ {n}) \cup {NIL} /\ (u.rb_node = NIL => M \ {n} = {})
  <2>1. CASE p = NIL
    <3>1. u.rb_node = c /\ n = t.rb_node
      BY <1>2, <1>3, <2>1 DEF TakenOut
    <3>2. ASSUME c = NIL PROVE M \ {n} = {}
      <4>1. In(M, r, b, n) = M /\ \A d \in Side : KidInterval(t, M, r, b, n, d, Kid(t, n, d))
        BY <1>2, <3>1, RootInterval, Intervals
      <4>2. \A d \in Side : Kid(t, n, d) = NIL
        BY <1>1, <1>2, <3>2
      <4>3. \A y \in M, d \in Side : ~Toward(d, r[n], r[y])
        BY <4>1, <4>2 DEF KidInterval
      <4>4. \A y \in M : r[y] = r[n]
        BY <1>2, <4>3, Level, ShapeTypes
      <4> QED BY <1>2, <4>4 DEF Shape, Placed
    <3> QED BY <1>2, <3>1, <3>2
  <2>2. CASE p # NIL
    <3>1. u.rb_node = t.rb_node /\ t.rb_node # n
      BY <1>2, <1>3, <2>2 DEF TakenOut
    <3> QED BY <1>2, <1>3, <3>1
  <2> QED BY <2>1, <2>2
<1>5. ASSUME NEW x \in M \ {n}
      PROVE  /\ Parent(u, x) = NIL <=> x = u.rb_node
             /\ Parent(u, x) # NIL =>
                  Parent(u, x) \in M \ {n} /\ \E s \in Side : Kid(u, Parent(u, x), s) = x
  <2>1. CASE x = c
    <3>1. Parent(u, x) = p /\ x \in Node
      BY <1>2, <2>1 DEF TakenOut
    <3>2. Parent(t, x) = n
      BY <1>1, <1>2, <1>3, <2>1
    <3>3. x # t.rb_node
      BY <1>2, <1>3, <2>1, <3>2
    <3>4. p = NIL <=> x = u.rb_node
      BY <2>1, <3>3 DEF TakenOut
    <3>5. p # NIL => \E s \in Side : Kid(u, p, s) = c
      BY <1>2 DEF TakenOut
    <3> QED BY <1>2, <2>1, <3>1, <3>4, <3>5
  <2>2. CASE x # c
    <3>1. Parent(u, x) = Parent(t, x) /\ x \in Node
      BY <1>2, <2>2 DEF TakenOut
    <3>2. Parent(t, x) # n
      <4>1. SUFFICES ASSUME Parent(t, x) = n PROVE FALSE
        OBVIOUS
      <4>2. PICK s \in Side : Kid(t, n, s) = x
        BY <1>2, <1>3, <4>1
      <4> QED BY <1>1, <1>2, <2>2, <4>2
    <3>3. Parent(u, x) = NIL <=> x = u.rb_node
      <4>1. CASE p = NIL
        <5>1. u.rb_node = c /\ t.rb_node = n
          BY <1>2, <1>3, <4>1 DEF TakenOut
        <5> QED BY <1>3, <2>2, <3>1, <5>1
      <4>2. CASE p # NIL
        BY <1>3, <3>1, <4>2 DEF TakenOut
      <4> QED BY <4>1, <4>2
    <3>4. ASSUME Parent(t, x) # NIL
          PROVE  Parent(t, x) \in M /\ \E s \in Side : Kid(u, Parent(t, x), s) = x
      <4>1. PICK q \in M, s \in Side : q = Parent(t, x) /\ Kid(t, q, s) = x
        BY <1>3, <3>4
      <4>2. Kid(u, q, s) = x
        BY <1>2, <4>1 DEF TakenOut
      <4> QED BY <4>1, <4>2
    <3> QED BY <3>1, <3>2, <3>3, <3>4
  <2> QED BY <2>1, <2>2
<1>6. ASSUME NEW x \in M \ {n}, NEW s \in Side, NEW k, k = Kid(u, x, s), k # NIL
      PROVE  k \in M \ {n} /\ Parent(u, k) = x
  <2>1. CASE x = p /\ Kid(t, p, s) = n
    <3>1. k = c /\ c \in Node
      BY <1>2, <1>6, <2>1 DEF TakenOut
    <3> QED BY <1>2, <1>6, <2>1, <3>1 DEF TakenOut
  <2>2. CASE ~(x = p /\ Kid(t, p, s) = n)
    <3>1. k = Kid(t, x, s)
      BY <1>2, <1>6, <2>2 DEF TakenOut
    <3>2. k \in M /\ Parent(t, k) = x
      BY <1>3, <1>6, <3>1
    <3>3. k # n
      BY <1>2, <2>2, <3>1, <3>2
    <3>4. k # c
      BY <1>1, <1>2, <1>3, <1>6, <3>2
    <3> QED BY <1>2, <3>2, <3>3, <3>4 DEF TakenOut
  <2> QED BY <2>1, <2>2
<1>7. u \in Trees /\ M \ {n} \subseteq Node
  BY <1>2 DEF TakenOut
<1> QED BY <1>4, <1>5, <1>6, <1>7 DEF Linked

(* The intervals n bounded on side m end now where its own does. *)
CutBounds(r, b, n, m) ==
  [x \in Node |-> [e \in Side |-> IF e = m /\ b[x][e] = r[n] THEN b[n][e] ELSE b[x][e]]]

LEMMA CutPlaced ==
  ASSUME NEW t, NEW M, NEW r, NEW b, NEW w, Shape(t, M, r, b, w),
         NEW n, NEW m, NEW c, NEW p, Loose(t, M, n, m, c, p),
         NEW u, TakenOut(t, u, n, c, p), NEW a, a = CutBounds(r, b, n, m)
  PROVE  Placed(u, M \ {n}, r, a, w)
<1>1. PICK o \in Side : o = Other(m) /\ \A d \in Side : d = m \/ d = o
  BY SideFacts DEF Loose
<1>2. /\ M \subseteq Node /\ NIL \notin M /\ n \in M /\ m \in Side /\ n \in Node
      /\ Kid(t, n, m) = NIL /\ c = Kid(t, n, o) /\ c \in M \cup {NIL} /\ c # n
      /\ p = Parent(t, n) /\ p \in M \cup {NIL} /\ p # n /\ (c # NIL => p # c)
  BY <1>1 DEF Loose
<1>3. o # m /\ Other(o) = m
  BY <1>1, <1>2, SideFacts
<1>4. /\ r \in [Node -> Int] /\ b \in [Node -> [Side -> Int]] /\ w \in [Side -> Int]
      /\ \A x, y \in M : r[x] = r[y] => x = y
  BY DEF Shape, Placed
<1>5. \A x \in M : r[x] \in Int /\ \A e \in Side : b[x][e] \in Int /\ w[e] \in Int
  BY ShapeTypes
<1>6. /\ a \in [Node -> [Side -> Int]]
      /\ \A x \in M : /\ a[x][m] = IF b[x][m] = r[n] THEN b[n][m] ELSE b[x][m]
                      /\ a[x][o] = b[x][o]
  BY <1>1, <1>2, <1>3, <1>4 DEF CutBounds
<1>7. \A x \in M, d \in Side :
        /\ Toward(d, r[x], b[x][d]) /\ ~Toward(d, w[d], b[x][d])
        /\ Kid(t, x, d) # NIL => /\ Kid(t, x, d) \in M /\ Parent(t, Kid(t, x, d)) = x
                                 /\ b[Kid(t, x, d)][d] = b[x][d]
                                 /\ b[Kid(t, x, d)][Other(d)] = r[x]
        /\ Kid(t, x, d) = NIL =>
             \A y \in M : ~(Toward(d, r[x], r[y]) /\ Toward(d, r[y], b[x][d]))
  BY DEF Shape, Placed, Linked
<1>8. \A e \in Side : b[n][e] # r[n]
  BY <1>2, <1>5, <1>7, TowardFacts
<1>9. c # NIL => \A e \in Side : a[c][e] = b[n][e]
  <2> SUFFICES ASSUME c # NIL PROVE a[c][m] = b[n][m] /\ a[c][o] = b[n][o]
    BY <1>1
  <2>1. c \in M /\ b[c][o] = b[n][o] /\ b[c][m] = r[n]
    BY <1>1, <1>2, <1>3, <1>7
  <2> QED BY <1>6, <2>1
<1>10. u.rb_node # NIL => \A s \in Side : a[u.rb_node][s] = w[s]
  <2>1. t.rb_node # NIL => \A s \in Side : b[t.rb_node][s] = w[s]
    BY DEF Shape, Placed
  <2>2. CASE p = NIL
    <3>1. u.rb_node = c /\ n = t.rb_node
      BY <1>2, <2>2 DEF TakenOut, Shape, Linked
    <3> QED BY <1>2, <1>9, <2>1, <3>1
  <2>3. CASE p # NIL
    <3>1. u.rb_node = t.rb_node /\ t.rb_node \in M
      BY <1>2, <2>3 DEF TakenOut, Shape, Linked
    <3>2. b[t.rb_node][m] = w[m] /\ b[t.rb_node][o] = w[o]
      BY <1>1, <1>2, <2>1, <3>1
    <3>3. w[m] # r[n]
      BY <1>2, <1>5, <1>7 DEF Toward
    <3>4. a[t.rb_node][m] = w[m] /\ a[t.rb_node][o] = w[o]
      BY <1>6, <3>1, <3>2, <3>3
    <3> QED BY <1>1, <3>1, <3>4
  <2> QED BY <2>2, <2>3
<1>11. ASSUME NEW x \in M, NEW s \in Side
       PROVE  Toward(s, r[x], a[x][s]) /\ ~Toward(s, w[s], a[x][s])
  <2>1. CASE s = m /\ b[x][s] = r[n]
    <3>1. a[x][s] = b[n][s]
      BY <1>6, <2>1
    <3>2. Toward(s, r[x], r[n]) /\ Toward(s, r[n], b[n][s]) /\ ~Toward(s, w[s], b[n][s])
      BY <1>2, <1>7, <2>1
    <3> QED BY <1>2, <1>5, <3>1, <3>2, TowardFacts
  <2>2. CASE ~(s = m /\ b[x][s] = r[n])
    <3>1. a[x][s] = b[x][s]
      BY <1>1, <1>6, <2>2
    <3> QED BY <1>7, <3>1
  <2> QED BY <2>1, <2>2
<1>12. ASSUME NEW x \in M \ {n}, NEW s \in Side, NEW k, k = Kid(u, x, s), k # NIL
       PROVE  a[k][s] = a[x][s] /\ a[k][Other(s)] = r[x]
  <2>1. CASE x = p /\ Kid(t, p, s) = n
    <3>1. k = c /\ Other(s) \in Side
      BY <1>2, <1>12, <2>1, SideFacts DEF TakenOut
    <3>2. a[k][s] = b[n][s] /\ a[k][Other(s)] = b[n][Other(s)]
      BY <1>9, <1>12, <3>1
    <3>3. b[n][s] = b[p][s] /\ b[n][Other(s)] = r[p]
      BY <1>2, <1>12, <1>7, <2>1
    <3>4. a[p][s] = b[p][s]
      BY <1>1, <1>6, <1>8, <1>12, <2>1, <3>3
    <3> QED BY <2>1, <3>2, <3>3, <3>4
  <2>2. CASE ~(x = p /\ Kid(t, p, s) = n)
    <3>1. k = Kid(t, x, s)
      BY <1>2, <1>12, <2>2 DEF TakenOut
    <3>2. k \in M /\ b[k][s] = b[x][s] /\ b[k][Other(s)] = r[x] /\ r[x] # r[n]
      BY <1>2, <1>4, <1>7, <1>12, <3>1
    <3>3. a[k][s] = a[x][s]
      BY <1>1, <1>6, <3>2
    <3>4. a[k][Other(s)] = b[k][Other(s)]
      <4>1. Other(s) = m \/ Other(s) = o
        BY <1>1, SideFacts
      <4> QED BY <1>6, <3>2, <4>1
    <3> QED BY <3>2, <3>3, <3>4
  <2> QED BY <2>1, <2>2
<1>13. ASSUME NEW x \in M \ {n}, NEW s \in Side, Kid(u, x, s) = NIL, NEW y \in M \ {n}
       PROVE  ~(Toward(s, r[x], r[y]) /\ Toward(s, r[y], a[x][s]))
  <2>1. CASE x = p /\ Kid(t, p, s) = n
    <3>1. c = NIL /\ p \in M
      BY <1>2, <1>13, <2>1 DEF TakenOut
    <3>2. b[n][s] = b[p][s] /\ a[p][s] = b[p][s]
      <4>1. b[n][s] = b[p][s]
        BY <1>2, <1>7, <2>1, <3>1
      <4> QED BY <1>1, <1>6, <1>8, <3>1, <4>1
    <3>3. KidInterval(t, M, r, b, p, s, n)
      BY <2>1, <3>1, Intervals
    <3>4. \A d \in Side : Kid(t, n, d) = NIL
      BY <1>1, <1>2, <3>1
    <3>5. \A z \in In(M, r, b, n) : z = n
      <4> TAKE z \in In(M, r, b, n)
      <4>1. z \in M
        BY DEF In
      <4>2. \A d \in Side : ~Toward(d, r[n], r[z])
        BY <1>2, <3>4, Intervals DEF KidInterval
      <4>3. r[z] = r[n]
        BY <1>2, <1>5, <4>1, <4>2, Level
      <4> QED BY <1>2, <1>4, <4>1, <4>3
    <3>6. ASSUME Toward(s, r[p], r[y]), Toward(s, r[y], b[p][s]) PROVE y \in In(M, r, b, n)
      <4>1. Toward(Other(s), r[p], b[p][Other(s)]) /\ Other(s) \in Side
        BY <1>7, <3>1, SideFacts
      <4>2. Toward(Other(s), r[y], r[p]) /\ r[y] \in Int /\ r[p] \in Int /\ b[p][Other(s)] \in Int
        BY <1>5, <3>1, <3>6, <4>1, TowardFacts
      <4>3. Toward(Other(s), r[y], b[p][Other(s)])
        BY <4>1, <4>2, TowardFacts
      <4>4. y \in In(M, r, b, p)
        BY <3>6, <4>3, SideFacts DEF In
      <4> QED BY <1>2, <3>3, <3>6, <4>4 DEF KidInterval
    <3> QED BY <2>1, <3>2, <3>5, <3>6
  <2>2. CASE ~(x = p /\ Kid(t, p, s) = n)
    <3>1. Kid(t, x, s) = NIL
      BY <1>2, <1>13, <2>2 DEF TakenOut
    <3>2. ~(Toward(s, r[x], r[y]) /\ Toward(s, r[y], b[x][s]))
      BY <1>7, <3>1
    <3>3. CASE s = m /\ b[x][s] = r[n]
      <4>1. a[x][s] = b[n][m] /\ ~(Toward(m, r[n], r[y]) /\ Toward(m, r[y], b[n][m]))
        BY <1>2, <1>6, <1>7, <3>3
      <4>2. r[y] # r[n]
        BY <1>2, <1>4
      <4> QED BY <1>2, <1>5, <3>2, <3>3, <4>1, <4>2, TowardFacts
    <3>4. CASE ~(s = m /\ b[x][s] = r[n])
      BY <1>1, <1>6, <3>2, <3>4
    <3> QED BY <3>3, <3>4
  <2> QED BY <2>1, <2>2
<1> QED BY <1>4, <1>6, <1>10, <1>11, <1>12, <1>13 DEF Placed

LEMMA CutShape ==
  ASSUME NEW t, NEW M, NEW r, NEW b, NEW w, Shape(t, M, r, b, w),
         NEW n, NEW m, NEW c, NEW p, Loose(t, M, n, m, c, p),
         NEW u, TakenOut(t, u, n, c, p)
  PROVE  Shape(u, M \ {n}, r, CutBounds(r, b, n, m), w)
<1>1. Linked(u, M \ {n})
  BY CutLinked, Zenon
<1>2. Placed(u, M \ {n}, r, CutBounds(r, b, n, m), w)
  BY CutPlaced, Zenon
<1> QED BY <1>1, <1>2 DEF Shape

-----------------------------------------------------------------------------
(* u is t with its nodes under other names: f has the old ones. *)
Moved(t, M, u, L, f) ==
  /\ u \in Trees /\ L \subseteq Node
  /\ f \in [L \cup {NIL} -> M \cup {NIL}]
  /\ \A x \in L \cup {NIL} : f[x] = NIL <=> x = NIL
  /\ \A x, y \in L \cup {NIL} : f[x] = f[y] => x = y
  /\ \A y \in M : \E x \in L : f[x] = y
  /\ u.rb_node \in L \cup {NIL} /\ f[u.rb_node] = t.rb_node
  /\ \A x \in L :
       /\ Parent(u, x) \in L \cup {NIL} /\ f[Parent(u, x)] = Parent(t, f[x])
       /\ Color(u, x) = Color(t, f[x])
       /\ \A e \in Side : Kid(u, x, e) \in L \cup {NIL} /\ f[Kid(u, x, e)] = Kid(t, f[x], e)

MovedRanks(r, L, f)  == [x \in Node |-> IF x \in L THEN r[f[x]] ELSE 0]
MovedBounds(b, L, f) == [x \in Node |-> [e \in Side |-> IF x \in L THEN b[f[x]][e] ELSE 0]]

LEMMA MovedShape ==
  ASSUME NEW t, NEW M, NEW r, NEW b, NEW w, Shape(t, M, r, b, w),
         NEW u, NEW L, NEW f, Moved(t, M, u, L, f)
  PROVE  Shape(u, L, MovedRanks(r, L, f), MovedBounds(b, L, f), w)
<1>1. PICK c, a : c = MovedRanks(r, L, f) /\ a = MovedBounds(b, L, f)
  OBVIOUS
<1>2. NIL \notin M /\ NIL \notin L /\ L \subseteq Node /\ M \subseteq Node
  BY RbTreeAssumption DEF Shape, Linked, Moved
<1>3. \A x \in L : f[x] \in M
  BY <1>2 DEF Moved
<1>4. \A x \in L : c[x] = r[f[x]] /\ \A e \in Side : a[x][e] = b[f[x]][e]
  BY <1>1, <1>2 DEF MovedRanks, MovedBounds
<1>5. \A x \in M : r[x] \in Int /\ \A e \in Side : b[x][e] \in Int
  BY ShapeTypes
<1>6. c \in [Node -> Int] /\ a \in [Node -> [Side -> Int]]
  BY <1>1, <1>3, <1>5 DEF MovedRanks, MovedBounds
<1>7. Linked(u, L)
  <2>1. u \in Trees /\ u.rb_node \in L \cup {NIL}
    BY DEF Moved
  <2>2. u.rb_node = NIL => L = {}
    BY <1>2, <1>3 DEF Moved, Shape, Linked
  <2>3. ASSUME NEW x \in L
        PROVE  /\ Parent(u, x) = NIL <=> x = u.rb_node
               /\ Parent(u, x) # NIL =>
                    Parent(u, x) \in L /\ \E s \in Side : Kid(u, Parent(u, x), s) = x
    <3>1. Parent(t, f[x]) = NIL <=> f[x] = t.rb_node
      BY <1>3 DEF Shape, Linked
    <3>2. Parent(u, x) \in L \cup {NIL} /\ f[Parent(u, x)] = Parent(t, f[x])
      BY DEF Moved
    <3>3. Parent(u, x) = NIL <=> x = u.rb_node
      BY <3>1, <3>2 DEF Moved
    <3>4. ASSUME NEW q \in L, q = Parent(u, x) PROVE \E s \in Side : Kid(u, q, s) = x
      <4>1. f[q] = Parent(t, f[x]) /\ f[q] \in M
        BY <1>3, <3>2, <3>4
      <4>2. PICK s \in Side : Kid(t, f[q], s) = f[x]
        BY <1>2, <1>3, <4>1 DEF Shape, Linked
      <4>3. Kid(u, q, s) \in L \cup {NIL} /\ f[Kid(u, q, s)] = f[x]
        BY <4>2 DEF Moved
      <4>4. Kid(u, q, s) = x
        BY <4>3 DEF Moved
      <4> QED BY <4>4
    <3> QED BY <3>2, <3>3, <3>4
  <2>4. ASSUME NEW x \in L, NEW s \in Side, Kid(u, x, s) # NIL
        PROVE  Kid(u, x, s) \in L /\ Parent(u, Kid(u, x, s)) = x
    <3>1. PICK k \in L : k = Kid(u, x, s) /\ f[k] = Kid(t, f[x], s)
      BY <2>4 DEF Moved
    <3>2. Parent(t, f[k]) = f[x]
      BY <1>2, <1>3, <3>1 DEF Shape, Linked
    <3>3. Parent(u, k) \in L \cup {NIL} /\ f[Parent(u, k)] = f[x]
      BY <3>2 DEF Moved
    <3>4. Parent(u, k) = x
      BY <3>3 DEF Moved
    <3> QED BY <3>1, <3>4
  <2> QED BY <1>2, <2>1, <2>2, <2>3, <2>4 DEF Linked
<1>8. Placed(u, L, c, a, w)
  <2>1. w \in [Side -> Int] /\ \A x, y \in L : c[x] = c[y] => x = y
    <3>1. w \in [Side -> Int] /\ \A x, y \in M : r[x] = r[y] => x = y
      BY DEF Shape, Placed
    <3>2. \A x, y \in L : f[x] = f[y] => x = y
      BY DEF Moved
    <3> QED BY <1>3, <1>4, <3>1, <3>2
  <2>2. u.rb_node # NIL => \A s \in Side : a[u.rb_node][s] = w[s]
    <3>1. u.rb_node # NIL => u.rb_node \in L /\ t.rb_node # NIL /\ f[u.rb_node] = t.rb_node
      BY DEF Moved
    <3>2. t.rb_node # NIL => \A s \in Side : b[t.rb_node][s] = w[s]
      BY DEF Shape, Placed
    <3> QED BY <1>4, <3>1, <3>2
  <2>3. ASSUME NEW x \in L, NEW s \in Side
        PROVE  /\ Toward(s, c[x], a[x][s]) /\ ~Toward(s, w[s], a[x][s])
               /\ Kid(u, x, s) # NIL => /\ a[Kid(u, x, s)][s] = a[x][s]
                                        /\ a[Kid(u, x, s)][Other(s)] = c[x]
               /\ Kid(u, x, s) = NIL =>
                    \A y \in L : ~(Toward(s, c[x], c[y]) /\ Toward(s, c[y], a[x][s]))
    <3>1. PICK z \in M : z = f[x] /\ c[x] = r[z] /\ \A e \in Side : a[x][e] = b[z][e]
      BY <1>3, <1>4
    <3>2. Toward(s, r[z], b[z][s]) /\ ~Toward(s, w[s], b[z][s])
      BY DEF Shape, Placed
    <3>3. ASSUME NEW k, k = Kid(u, x, s), k # NIL
          PROVE  a[k][s] = a[x][s] /\ a[k][Other(s)] = c[x]
      <4>1. k \in L /\ f[k] = Kid(t, z, s) /\ f[k] # NIL
        BY <3>1, <3>3 DEF Moved
      <4>2. b[f[k]][s] = b[z][s] /\ b[f[k]][Other(s)] = r[z]
        BY <4>1 DEF Shape, Placed
      <4> QED BY <1>4, <3>1, <4>1, <4>2, SideFacts
    <3>4. ASSUME Kid(u, x, s) = NIL, NEW y \in L
          PROVE  ~(Toward(s, c[x], c[y]) /\ Toward(s, c[y], a[x][s]))
      <4>1. Kid(t, z, s) = NIL
        BY <3>1, <3>4 DEF Moved
      <4>2. \A v \in M : ~(Toward(s, r[z], r[v]) /\ Toward(s, r[v], b[z][s]))
        BY <4>1 DEF Shape, Placed
      <4> QED BY <1>3, <1>4, <3>1, <4>2
    <3> QED BY <3>1, <3>2, <3>3, <3>4
  <2> QED BY <1>6, <2>1, <2>2, <2>3 DEF Placed
<1> QED BY <1>1, <1>7, <1>8 DEF Shape

-----------------------------------------------------------------------------
(* new has the place of old, which is not in the tree any more. *)
Renamed(t, u, old, new) ==
  /\ u \in Trees
  /\ u.rb_node = IF Parent(t, old) = NIL THEN new ELSE t.rb_node
  /\ \A x \in Node \ {old} :
       /\ Color(u, x) = IF x = new THEN Color(t, old) ELSE Color(t, x)
       /\ Parent(u, x) = IF x = new THEN Parent(t, old)
                         ELSE IF \E e \in Side : x = Kid(t, old, e) THEN new ELSE Parent(t, x)
       /\ \A e \in Side :
            Kid(u, x, e) = IF x = new THEN Kid(t, old, e)
                           ELSE IF x = Parent(t, old) /\ Kid(t, x, e) = old THEN new
                           ELSE Kid(t, x, e)

NewName(M, old, new) ==
  [x \in ((M \ {old}) \cup {new}) \cup {NIL} |-> IF x = new THEN old ELSE x]

LEMMA RenameMoves ==
  ASSUME NEW t, NEW M, NEW r, NEW b, NEW w, Shape(t, M, r, b, w),
         NEW old \in M, NEW new \in Node \ M, NEW u, Renamed(t, u, old, new)
  PROVE  Moved(t, M, u, (M \ {old}) \cup {new}, NewName(M, old, new))
<1>1. PICK L, f : L = (M \ {old}) \cup {new} /\ f = NewName(M, old, new)
  OBVIOUS
<1>2. /\ t \in Trees /\ M \subseteq Node /\ NIL \notin M /\ new # NIL /\ new # old
      /\ t.rb_node \in M \cup {NIL} /\ (t.rb_node = NIL => M = {})
      /\ \A x \in M : /\ Parent(t, x) = NIL <=> x = t.rb_node
                      /\ Parent(t, x) # NIL =>
                           Parent(t, x) \in M /\ \E s \in Side : Kid(t, Parent(t, x), s) = x
      /\ \A x \in M, s \in Side :
           Kid(t, x, s) # NIL => Kid(t, x, s) \in M /\ Parent(t, Kid(t, x, s)) = x
  BY RbTreeAssumption DEF Shape, Linked
<1>3. L \subseteq Node \ {old} /\ NIL \notin L /\ u \in Trees
  BY <1>1, <1>2 DEF Renamed
<1>4. \A x \in L \cup {NIL} : f[x] = IF x = new THEN old ELSE x
  BY <1>1 DEF NewName
<1>5. /\ f \in [L \cup {NIL} -> M \cup {NIL}]
      /\ \A x \in L \cup {NIL} : f[x] = NIL <=> x = NIL
      /\ \A x, y \in L \cup {NIL} : f[x] = f[y] => x = y
  BY <1>1, <1>2, <1>4 DEF NewName
<1>6. \A y \in M : \E x \in L : f[x] = y
  <2> TAKE y \in M
  <2>1. CASE y = old
    BY <1>1, <1>4, <2>1
  <2>2. CASE y # old
    BY <1>1, <1>4, <2>2
  <2> QED BY <2>1, <2>2
<1>7. \A s \in Side : Kid(t, old, s) # old
  BY <1>2, Branching DEF NoLoops
<1>8. Parent(t, old) # old
  BY <1>2, <1>7
<1>9. u.rb_node \in L \cup {NIL} /\ f[u.rb_node] = t.rb_node
  <2>1. CASE Parent(t, old) = NIL
    BY <1>1, <1>2, <1>4, <2>1 DEF Renamed
  <2>2. CASE Parent(t, old) # NIL
    BY <1>1, <1>2, <1>4, <2>2 DEF Renamed
  <2> QED BY <2>1, <2>2
<1>10. ASSUME NEW x \in L
       PROVE  /\ Parent(u, x) \in L \cup {NIL} /\ f[Parent(u, x)] = Parent(t, f[x])
              /\ Color(u, x) = Color(t, f[x])
  <2>1. CASE x = new
    <3>1. Parent(u, x) = Parent(t, old) /\ Color(u, x) = Color(t, old) /\ f[x] = old
      BY <1>3, <1>4, <2>1 DEF Renamed
    <3>2. Parent(t, old) \in L \cup {NIL} /\ Parent(t, old) # new
      BY <1>1, <1>2, <1>8
    <3> QED BY <1>4, <3>1, <3>2
  <2>2. CASE x # new
    <3>1. x \in M /\ f[x] = x /\ Color(u, x) = Color(t, x)
      BY <1>1, <1>3, <1>4, <2>2 DEF Renamed
    <3>2. CASE \E e \in Side : x = Kid(t, old, e)
      <4>1. Parent(u, x) = new /\ Parent(t, x) = old
        BY <1>2, <1>3, <2>2, <3>1, <3>2 DEF Renamed
      <4> QED BY <1>1, <1>4, <3>1, <4>1
    <3>3. CASE ~\E e \in Side : x = Kid(t, old, e)
      <4>1. Parent(u, x) = Parent(t, x)
        BY <1>3, <2>2, <3>3 DEF Renamed
      <4>2. Parent(t, x) # old /\ Parent(t, x) \in M \cup {NIL}
        BY <1>2, <3>1, <3>3
      <4> QED BY <1>1, <1>2, <1>4, <3>1, <4>1, <4>2
    <3> QED BY <3>2, <3>3
  <2> QED BY <2>1, <2>2
<1>11. ASSUME NEW x \in L, NEW e \in Side
       PROVE  Kid(u, x, e) \in L \cup {NIL} /\ f[Kid(u, x, e)] = Kid(t, f[x], e)
  <2>1. CASE x = new
    <3>1. Kid(u, x, e) = Kid(t, old, e) /\ f[x] = old
      BY <1>3, <1>4, <2>1 DEF Renamed
    <3>2. Kid(t, old, e) \in L \cup {NIL} /\ Kid(t, old, e) # new
      BY <1>1, <1>2, <1>7
    <3> QED BY <1>4, <3>1, <3>2
  <2>2. CASE x # new
    <3>1. x \in M /\ f[x] = x
      BY <1>1, <1>4, <2>2
    <3>2. CASE Kid(t, x, e) = old
      <4>1. x = Parent(t, old)
        BY <1>2, <3>1, <3>2
      <4>2. Kid(u, x, e) = new
        BY <1>3, <2>2, <3>2, <4>1 DEF Renamed
      <4> QED BY <1>1, <1>4, <3>1, <3>2, <4>2
    <3>3. CASE Kid(t, x, e) # old
      <4>1. Kid(u, x, e) = Kid(t, x, e)
        BY <1>3, <2>2, <3>3 DEF Renamed
      <4>2. Kid(t, x, e) \in M \cup {NIL}
        BY <1>2, <3>1
      <4> QED BY <1>1, <1>2, <1>4, <3>1, <3>3, <4>1, <4>2
    <3> QED BY <3>2, <3>3
  <2> QED BY <2>1, <2>2
<1>12. L \subseteq Node
  BY <1>3
<1>13. Moved(t, M, u, L, f)
  BY <1>3, <1>5, <1>6, <1>9, <1>10, <1>11, <1>12 DEF Moved
<1> QED BY <1>1, <1>13

(* n as y is. *)
Copied(t, u, y, n) ==
  /\ u \in Trees /\ SameRest(t, u) /\ u.rb_node = t.rb_node
  /\ \A x \in Node :
       /\ Color(u, x) = IF x = y THEN Color(t, n) ELSE Color(t, x)
       /\ Parent(u, x) = IF x = y THEN Parent(t, n) ELSE Parent(t, x)
       /\ \A e \in Side : Kid(u, x, e) = IF x = y THEN Kid(t, n, e) ELSE Kid(t, x, e)

LEMMA CopyDoes ==
  ASSUME NEW t \in Trees, NEW y \in Node, NEW n \in Node, NEW u, u = [t EXCEPT !.node[y] = t.node[n]]
  PROVE  Copied(t, u, y, n)
<1>1. PICK q : q = [t.node EXCEPT ![y] = t.node[n]]
  OBVIOUS
<1>2. q \in [Node -> NodeRec] /\ \A x \in Node : q[x] = IF x = y THEN t.node[n] ELSE t.node[x]
  BY <1>1 DEF Trees
<1>3. u = [t EXCEPT !.node = q]
  BY <1>1
<1>4. u \in Trees /\ SameRest(t, u) /\ u.rb_node = t.rb_node /\ u.node = q
  BY <1>2, <1>3 DEF Trees, SameRest
<1>5. \A x \in Node :
       /\ Color(u, x) = IF x = y THEN Color(t, n) ELSE Color(t, x)
       /\ Parent(u, x) = IF x = y THEN Parent(t, n) ELSE Parent(t, x)
       /\ \A e \in Side : Kid(u, x, e) = IF x = y THEN Kid(t, n, e) ELSE Kid(t, x, e)
  <2> TAKE x \in Node
  <2>1. u.node[x] = IF x = y THEN t.node[n] ELSE t.node[x]
    BY <1>2, <1>4
  <2>2. CASE x = y
    <3>1. u.node[x] = t.node[n]
      BY <2>1, <2>2
    <3> QED BY <2>2, <3>1 DEF Color, Parent, Kid
  <2>3. CASE x # y
    <3>1. u.node[x] = t.node[x]
      BY <2>1, <2>3
    <3> QED BY <2>3, <3>1 DEF Color, Parent, Kid
  <2> QED BY <2>2, <2>3
<1> QED BY <1>4, <1>5 DEF Copied

(* The second half of rb_erase of a node with two kids. *)
LEMMA RenameDoes ==
  ASSUME NEW t, NEW M, NEW r, NEW b, NEW w, Shape(t, M, r, b, w),
         NEW old \in M, NEW new \in Node \ M,
         NEW p, p = Parent(t, old), NEW l, l = Kid(t, old, "left"), NEW k, k = Kid(t, old, "right"),
         NEW v, v = Supplant([t EXCEPT !.node[new] = t.node[old]], p, old, new),
         NEW u, u = SetParent(SetParent(v, l, new), k, new)
  PROVE  Renamed(t, u, old, new) /\ SameRest(t, u)
<1>0. "left" \in Side /\ "right" \in Side /\ \A e \in Side : e = "left" \/ e = "right"
  BY DEF Side
<1>1. /\ t \in Trees /\ M \subseteq Node /\ NIL \notin M /\ new # NIL /\ new # old /\ old \in Node
      /\ p \in M \cup {NIL} /\ l \in M \cup {NIL} /\ k \in M \cup {NIL}
      /\ p # NIL => \E s \in Side : Kid(t, p, s) = old
  BY <1>0, RbTreeAssumption DEF Shape, Linked
<1>2. \A s \in Side : Kid(t, old, s) # old
  BY <1>1, Branching DEF NoLoops
<1>3. p # NIL => HangsFrom(t, old, p)
  <2> SUFFICES ASSUME p # NIL PROVE HangsFrom(t, old, p)
    OBVIOUS
  <2>1. PICK s \in Side : Kid(t, p, s) = old /\ p \in M
    BY <1>1
  <2>2. Kid(t, p, Other(s)) # old
    BY <1>1, <2>1, Branching DEF NoLoops
  <2> QED BY <2>1, <2>2 DEF HangsFrom
<1>4. p \in Ptr /\ old \in Ptr /\ new \in Ptr /\ l \in Ptr /\ k \in Ptr
  BY <1>1 DEF Ptr
<1>5. PICK q : q = [t EXCEPT !.node[new] = t.node[old]]
  OBVIOUS
<1>6. Copied(t, q, new, old)
  BY <1>1, <1>5, CopyDoes, Zenon
<1>7. q \in Trees
  BY <1>6 DEF Copied
<1>8. Supplanted(q, v, p, old, new)
  BY <1>4, <1>5, <1>7, SupplantDoes, Zenon
<1>9. v \in Trees
  BY <1>8 DEF Supplanted
<1>10. PICK z : z = SetParent(v, l, new)
  OBVIOUS
<1>11. Adopted(v, z, l, new)
  BY <1>4, <1>9, <1>10, SetParentDoes, Zenon
<1>12. z \in Trees
  BY <1>11 DEF Adopted
<1>13. Adopted(z, u, k, new)
  BY <1>4, <1>10, <1>12, SetParentDoes, Zenon
<1>14. ASSUME NEW e \in Side, p # NIL PROVE e = SideOf(q, p, old) <=> Kid(t, p, e) = old
  <2>1. p \in Node /\ p # new
    BY <1>1, <1>14
  <2>2. \A d \in Side : Kid(q, p, d) = Kid(t, p, d)
    BY <1>6, <2>1 DEF Copied
  <2>3. HangsFrom(q, old, p)
    BY <1>3, <1>14, <2>2, SideFacts DEF HangsFrom
  <2> QED BY <1>4, <1>7, <2>1, <2>2, <2>3, SideOfIs
<1>15. SameRest(t, u)
  BY <1>6, <1>8, <1>11, <1>13 DEF SameRest, Copied, Supplanted, Adopted
<1>16. u \in Trees /\ u.rb_node = IF p = NIL THEN new ELSE t.rb_node
  BY <1>6, <1>8, <1>11, <1>13 DEF Copied, Supplanted, Adopted
<1>17. ASSUME NEW x \in Node
       PROVE  /\ Color(u, x) = IF x = new THEN Color(t, old) ELSE Color(t, x)
              /\ Parent(u, x) = IF x = new THEN p
                                ELSE IF \E e \in Side : x = Kid(t, old, e) THEN new ELSE Parent(t, x)
  <2>1. Color(u, x) = IF x = new THEN Color(t, old) ELSE Color(t, x)
    BY <1>6, <1>8, <1>11, <1>13 DEF Copied, Supplanted, Adopted
  <2>2. Parent(u, x) = IF x = k THEN new ELSE IF x = l THEN new ELSE Parent(q, x)
    BY <1>8, <1>11, <1>13 DEF Supplanted, Adopted
  <2>3. (\E e \in Side : x = Kid(t, old, e)) <=> (x = l \/ x = k)
    BY <1>0
  <2>4. new # l /\ new # k
    BY <1>1
  <2>5. Parent(q, x) = IF x = new THEN p ELSE Parent(t, x)
    BY <1>6 DEF Copied
  <2> QED BY <2>1, <2>2, <2>3, <2>4, <2>5
<1>18. ASSUME NEW x \in Node, NEW e \in Side
       PROVE  Kid(u, x, e) = IF x = new THEN Kid(t, old, e)
                             ELSE IF x = p /\ Kid(t, x, e) = old THEN new
                             ELSE Kid(t, x, e)
  <2>1. Kid(u, x, e) = IF x = p /\ e = SideOf(q, p, old) THEN new ELSE Kid(q, x, e)
    BY <1>8, <1>11, <1>13 DEF Supplanted, Adopted
  <2>2. Kid(q, x, e) = IF x = new THEN Kid(t, old, e) ELSE Kid(t, x, e)
    BY <1>6 DEF Copied
  <2>3. x = p => p # NIL /\ p # new
    BY <1>1, RbTreeAssumption
  <2> QED BY <1>14, <2>1, <2>2, <2>3
<1> QED BY <1>15, <1>16, <1>17, <1>18 DEF Renamed

SameOrder(L, r, c) == \A x, z \in L : c[x] < c[z] <=> r[x] < r[z]

(* The first half of rb_erase of a node with two kids finds its neighbour. *)
LEMMA Successor ==
  ASSUME NEW t, NEW M, NEW r, NEW b, NEW w, Shape(t, M, r, b, w), NEW n \in M,
         Kid(t, n, "left") # NIL, Kid(t, n, "right") # NIL,
         NEW y, y = Extreme(t, Kid(t, n, "right"), "left"),
         NEW c, c = Kid(t, y, "right"), NEW p, p = Parent(t, y)
  PROVE  /\ y \in M /\ y # n /\ Loose(t, M, y, "left", c, p)
         /\ \A x \in M : ~(r[n] < r[x] /\ r[x] < r[y]) /\ r[n] < r[y]
<1>0. "left" \in Side /\ "right" \in Side /\ Other("left") = "right" /\ Other("right") = "left"
  BY DEF Side, Other
<1>1. PICK k \in M : k = Kid(t, n, "right") /\ b[k]["left"] = r[n]
  BY <1>0 DEF Shape, Linked, Placed
<1>2. y \in M /\ b[y]["left"] = r[n] /\ Kid(t, y, "left") = NIL
  BY <1>0, <1>1, ExtremeEnds
<1>3. r[n] < r[y] /\ \A x \in M : ~(r[x] < r[y] /\ r[n] < r[x])
  BY <1>0, <1>2 DEF Shape, Placed, Toward
<1>4. y # n
  BY <1>2, <1>3, ShapeTypes
<1>5. Loose(t, M, y, "left", c, p)
  BY <1>0, <1>2, Loosens
<1> QED BY <1>2, <1>3, <1>4, <1>5

(* rb_erase of a node with two kids, before the repairs: its successor y   *)
(* is taken out and has its place.                                         *)
DroppedTwo(t, M, n, y, c, p, cut, done) ==
  /\ y \in M /\ y # n /\ n \in M
  /\ Loose(t, M, y, "left", c, p) /\ TakenOut(t, cut, y, c, p)
  /\ Renamed(cut, done, n, y) /\ SameRest(t, done)

LEMMA DropsTwo ==
  ASSUME NEW t, NEW M, NEW r, NEW b, NEW w, Shape(t, M, r, b, w), NEW n \in M,
         Kid(t, n, "left") # NIL, Kid(t, n, "right") # NIL,
         NEW y, y = Extreme(t, Kid(t, n, "right"), "left"),
         NEW c, c = Kid(t, y, "right"), NEW p, p = Parent(t, y),
         NEW cut, cut = Supplant(SetParent(t, c, p), p, y, c),
         NEW moved, moved = Supplant([cut EXCEPT !.node[y] = cut.node[n]], Parent(t, n), n, y),
         NEW done, done = SetParent(SetParent(moved, Kid(cut, n, "left"), y), Kid(cut, n, "right"), y)
  PROVE  DroppedTwo(t, M, n, y, c, p, cut, done)
<1>1. y \in M /\ y # n /\ Loose(t, M, y, "left", c, p)
  BY Successor
<1>2. TakenOut(t, cut, y, c, p)
  BY <1>1, CutDoes
<1>3. Shape(cut, M \ {y}, r, CutBounds(r, b, y, "left"), w)
  BY <1>1, <1>2, CutShape
<1>4. c # n
  <2>1. SUFFICES ASSUME c = n PROVE FALSE
    OBVIOUS
  <2>2. Kid(t, y, "right") = n /\ n # NIL /\ "right" \in Side
    BY <2>1, ShapeTypes DEF Side
  <2>3. KidInterval(t, M, r, b, y, "right", n) /\ n \in In(M, r, b, n)
    BY <1>1, <2>2, Intervals
  <2>4. Toward("right", r[y], r[n])
    BY <2>2, <2>3 DEF KidInterval
  <2>5. r[n] < r[y] /\ r[n] \in Int /\ r[y] \in Int
    BY <1>1, Successor, ShapeTypes
  <2> QED BY <2>4, <2>5 DEF Toward
<1>5. Parent(cut, n) = Parent(t, n)
  <2>1. n \in Node
    BY ShapeTypes
  <2> QED BY <1>2, <1>4, <2>1 DEF TakenOut
<1>6. n \in M \ {y} /\ y \in Node \ (M \ {y})
  BY <1>1, ShapeTypes
<1>7. Renamed(cut, done, n, y) /\ SameRest(cut, done)
  BY <1>3, <1>5, <1>6, RenameDoes, SMTT(30)
<1>8. SameRest(t, done)
  BY <1>2, <1>7 DEF TakenOut, SameRest
<1> QED BY <1>1, <1>2, <1>7, <1>8 DEF DroppedTwo

LEMMA DropTwoShape ==
  ASSUME NEW t, NEW M, NEW r, NEW b, NEW w, Shape(t, M, r, b, w),
         NEW n, NEW y, NEW c, NEW p, NEW cut, NEW done, DroppedTwo(t, M, n, y, c, p, cut, done),
         \A x \in M : ~(r[n] < r[x] /\ r[x] < r[y]), r[n] < r[y]
  PROVE  /\ Moved(cut, M \ {y}, done, M \ {n}, NewName(M \ {y}, n, y))
         /\ \E a, d : Shape(done, M \ {n}, a, d, w) /\ SameOrder(M \ {n}, r, a)
<1>1. /\ y \in M /\ y # n /\ n \in M /\ Loose(t, M, y, "left", c, p)
      /\ TakenOut(t, cut, y, c, p) /\ Renamed(cut, done, n, y)
  BY DEF DroppedTwo
<1>2. Shape(cut, M \ {y}, r, CutBounds(r, b, y, "left"), w)
  BY <1>1, CutShape
<1>3. n \in M \ {y} /\ y \in Node \ (M \ {y}) /\ ((M \ {y}) \ {n}) \cup {y} = M \ {n}
  BY <1>1, ShapeTypes
<1>4. PICK f : f = NewName(M \ {y}, n, y)
  OBVIOUS
<1>5. Moved(cut, M \ {y}, done, M \ {n}, f)
  BY <1>1, <1>2, <1>3, <1>4, RenameMoves
<1>6. PICK a, d : a = MovedRanks(r, M \ {n}, f) /\ d = MovedBounds(CutBounds(r, b, y, "left"), M \ {n}, f)
  OBVIOUS
<1>7. Shape(done, M \ {n}, a, d, w)
  BY <1>2, <1>5, <1>6, MovedShape
<1>8. \A x \in M \ {n} : a[x] = IF x = y THEN r[n] ELSE r[x]
  <2>1. \A x \in M \ {n} : f[x] = IF x = y THEN n ELSE x
    BY <1>3, <1>4 DEF NewName
  <2> QED BY <1>6, <2>1, ShapeTypes DEF MovedRanks
<1>9. SameOrder(M \ {n}, r, a)
  <2>1. \A x \in M : r[x] \in Int
    BY ShapeTypes
  <2>2. \A x, z \in M : r[x] = r[z] => x = z
    BY DEF Shape, Placed
  <2> QED BY <1>1, <1>8, <2>1, <2>2 DEF SameOrder
<1> QED BY <1>4, <1>5, <1>7, <1>9

-----------------------------------------------------------------------------
(* rb_replace_node. *)
Replaced(t, u, old, new) ==
  /\ Renamed(t, u, old, new)
  /\ u.first_node = t.first_node /\ u.last_node = t.last_node /\ u.count = t.count
  /\ \A x \in Node : u.value[x] = IF x = new THEN t.value[old] ELSE t.value[x]

SetNode(t, n, m) == [t EXCEPT !.node[n] = m]

NodeSet(t, u, n, m) ==
  /\ u \in Trees /\ SameRest(t, u) /\ u.rb_node = t.rb_node
  /\ \A x \in Node : u.node[x] = IF x = n THEN m ELSE t.node[x]

LEMMA SetNodeDoes ==
  ASSUME NEW t \in Trees, NEW n \in Node, NEW m \in NodeRec, NEW u, u = SetNode(t, n, m)
  PROVE  NodeSet(t, u, n, m)
<1>1. PICK q : q = [t.node EXCEPT ![n] = m]
  OBVIOUS
<1>2. q \in [Node -> NodeRec] /\ \A x \in Node : q[x] = IF x = n THEN m ELSE t.node[x]
  BY <1>1 DEF Trees
<1>3. u = [t EXCEPT !.node = q]
  BY <1>1 DEF SetNode
<1>4. u \in Trees /\ SameRest(t, u) /\ u.rb_node = t.rb_node /\ u.node = q
  BY <1>2, <1>3 DEF Trees, SameRest
<1> QED BY <1>2, <1>4 DEF NodeSet

LEMMA ReplaceDoes ==
  ASSUME NEW t, NEW M, NEW r, NEW b, NEW w, Shape(t, M, r, b, w),
         NEW old \in M, NEW new \in Node \ M, NEW u, u = rb_replace_node(t, old, new)
  PROVE  Replaced(t, u, old, new)
<1>0. "left" \in Side /\ "right" \in Side /\ \A e \in Side : e = "left" \/ e = "right"
  BY DEF Side
<1>1. PICK p, l, k : p = Parent(t, old) /\ l = Kid(t, old, "left") /\ k = Kid(t, old, "right")
  OBVIOUS
<1>2. /\ t \in Trees /\ M \subseteq Node /\ NIL \notin M /\ new # NIL /\ new # old /\ old \in Node
      /\ p \in M \cup {NIL} /\ l \in M \cup {NIL} /\ k \in M \cup {NIL}
      /\ p # NIL => \E s \in Side : Kid(t, p, s) = old
  BY <1>0, <1>1, RbTreeAssumption DEF Shape, Linked
<1>3. p # NIL => HangsFrom(t, old, p)
  <2> SUFFICES ASSUME p # NIL PROVE HangsFrom(t, old, p)
    OBVIOUS
  <2>1. PICK s \in Side : Kid(t, p, s) = old /\ p \in M
    BY <1>2
  <2>2. Kid(t, p, Other(s)) # old
    BY <1>2, <2>1, Branching DEF NoLoops
  <2> QED BY <2>1, <2>2 DEF HangsFrom
<1>4. p \in Ptr /\ old \in Ptr /\ new \in Ptr /\ l \in Ptr /\ k \in Ptr
  BY <1>2 DEF Ptr
<1>5. PICK v : v = Supplant(t, p, old, new)
  OBVIOUS
<1>6. Supplanted(t, v, p, old, new)
  BY <1>2, <1>4, <1>5, SupplantDoes, Zenon
<1>7. v \in Trees
  BY <1>6 DEF Supplanted
<1>8. PICK z : z = SetParent(v, l, new)
  OBVIOUS
<1>9. Adopted(v, z, l, new)
  BY <1>4, <1>7, <1>8, SetParentDoes, Zenon
<1>10. z \in Trees
  BY <1>9 DEF Adopted
<1>11. PICK a : a = SetParent(z, k, new)
  OBVIOUS
<1>12. Adopted(z, a, k, new)
  BY <1>4, <1>10, <1>11, SetParentDoes, Zenon
<1>13. a \in Trees
  BY <1>12 DEF Adopted
<1>14. PICK c : c = SetNode(a, new, t.node[old])
  OBVIOUS
<1>15. t.node[old] \in NodeRec /\ rb_node_init \in NodeRec
  BY <1>2 DEF Trees, rb_node_init, NodeRec, Hue, Ptr
<1>16. /\ c \in Trees /\ SameRest(a, c) /\ c.rb_node = a.rb_node
       /\ \A x \in Node : c.node[x] = IF x = new THEN t.node[old] ELSE a.node[x]
  <2>1. NodeSet(a, c, new, t.node[old])
    BY <1>2, <1>13, <1>14, <1>15, SetNodeDoes, Zenon
  <2> QED BY <2>1 DEF NodeSet
<1>17. PICK e : e = [c EXCEPT !.value[new] = t.value[old]]
  OBVIOUS
<1>18. /\ e \in Trees /\ e.rb_node = c.rb_node /\ e.node = c.node
       /\ e.first_node = c.first_node /\ e.last_node = c.last_node /\ e.count = c.count
       /\ \A x \in Node : e.value[x] = IF x = new THEN t.value[old] ELSE c.value[x]
  BY <1>2, <1>16, <1>17 DEF Trees
<1>19. u = SetNode(e, old, rb_node_init)
  BY <1>1, <1>5, <1>8, <1>11, <1>14, <1>17, <1>13 DEF rb_replace_node, Trees, SetNode, Forget
<1>20. /\ u \in Trees /\ SameRest(e, u) /\ u.rb_node = e.rb_node
       /\ \A x \in Node : u.node[x] = IF x = old THEN rb_node_init ELSE e.node[x]
  <2>1. NodeSet(e, u, old, rb_node_init)
    BY <1>2, <1>15, <1>18, <1>19, SetNodeDoes, Zenon
  <2> QED BY <2>1 DEF NodeSet
<1>21. u.first_node = t.first_node /\ u.last_node = t.last_node /\ u.count = t.count
       /\ \A x \in Node : u.value[x] = IF x = new THEN t.value[old] ELSE t.value[x]
  BY <1>6, <1>9, <1>12, <1>16, <1>18, <1>20 DEF SameRest, Supplanted, Adopted
<1>22. u.rb_node = IF p = NIL THEN new ELSE t.rb_node
  BY <1>6, <1>9, <1>12, <1>16, <1>18, <1>20 DEF Supplanted, Adopted
<1>23. ASSUME NEW d \in Side, p # NIL PROVE d = SideOf(t, p, old) <=> Kid(t, p, d) = old
  <2>1. p \in Node
    BY <1>2, <1>23
  <2> QED BY <1>2, <1>3, <1>4, <1>23, <2>1, SideOfIs
<1>24. ASSUME NEW x \in Node \ {old}
       PROVE  /\ Color(u, x) = IF x = new THEN Color(t, old) ELSE Color(t, x)
              /\ Parent(u, x) = IF x = new THEN p
                                ELSE IF \E d \in Side : x = Kid(t, old, d) THEN new ELSE Parent(t, x)
              /\ \A d \in Side :
                   Kid(u, x, d) = IF x = new THEN Kid(t, old, d)
                                  ELSE IF x = p /\ Kid(t, x, d) = old THEN new
                                  ELSE Kid(t, x, d)
  <2>1. u.node[x] = IF x = new THEN t.node[old] ELSE a.node[x]
    BY <1>16, <1>18, <1>20
  <2>2. CASE x = new
    <3>1. u.node[x] = t.node[old]
      BY <2>1, <2>2
    <3> QED BY <1>1, <2>2, <3>1 DEF Color, Parent, Kid
  <2>3. CASE x # new
    <3>1. u.node[x] = a.node[x]
      BY <2>1, <2>3
    <3>2. Color(u, x) = Color(a, x) /\ Parent(u, x) = Parent(a, x)
          /\ \A d \in Side : Kid(u, x, d) = Kid(a, x, d)
      BY <3>1 DEF Color, Parent, Kid
    <3>3. Color(a, x) = Color(t, x)
      BY <1>6, <1>9, <1>12 DEF Supplanted, Adopted
    <3>4. Parent(a, x) = IF x = k THEN new ELSE IF x = l THEN new ELSE Parent(t, x)
      BY <1>6, <1>9, <1>12 DEF Supplanted, Adopted
    <3>5. (\E d \in Side : x = Kid(t, old, d)) <=> (x = l \/ x = k)
      BY <1>0, <1>1
    <3>6. ASSUME NEW d \in Side
          PROVE  Kid(a, x, d) = IF x = p /\ Kid(t, x, d) = old THEN new ELSE Kid(t, x, d)
      <4>1. Kid(a, x, d) = IF x = p /\ d = SideOf(t, p, old) THEN new ELSE Kid(t, x, d)
        BY <1>6, <1>9, <1>12 DEF Supplanted, Adopted
      <4>2. x = p => p # NIL
        BY RbTreeAssumption
      <4> QED BY <1>23, <4>1, <4>2
    <3> QED BY <2>3, <3>2, <3>3, <3>4, <3>5, <3>6
  <2> QED BY <2>2, <2>3
<1>25. Renamed(t, u, old, new)
  BY <1>1, <1>20, <1>22, <1>24 DEF Renamed
<1> QED BY <1>21, <1>25 DEF Replaced

-----------------------------------------------------------------------------
(* Colours. *)
Blk(t, x) == IF Color(t, x) = RB_RED THEN 0 ELSE 1
HH(h, x)  == IF x = NIL THEN 1 ELSE h[x]

(* h has the number of black nodes on the paths down from each node; those *)
(* on side ds of dp lack one.                                              *)
Heights(t, M, h, dp, ds) ==
  /\ \A x \in M : h[x] \in Int /\ h[x] >= 1
  /\ \A x \in M, s \in Side :
       h[x] = HH(h, Kid(t, x, s)) + Blk(t, x) + (IF x = dp /\ s = ds THEN 1 ELSE 0)

(* A red node with a red kid. *)
Clash(t, x, s) == Red(t, x) /\ Red(t, Kid(t, x, s))

LEMMA SameLinksShape ==
  ASSUME NEW t, NEW M, NEW r, NEW b, NEW w, Shape(t, M, r, b, w),
         NEW u \in Trees, SameLinks(t, u)
  PROVE  Shape(u, M, r, b, w)
<1>1. M \subseteq Node
  BY DEF Shape, Linked
<1>2. /\ u.rb_node = t.rb_node
      /\ \A x \in M : Parent(u, x) = Parent(t, x) /\ \A s \in Side : Kid(u, x, s) = Kid(t, x, s)
  BY <1>1 DEF SameLinks
<1>3. Linked(u, M)
  BY <1>2 DEF Shape, Linked
<1>4. Placed(u, M, r, b, w)
  BY <1>2 DEF Shape, Placed
<1> QED BY <1>3, <1>4 DEF Shape

(* What the kids of x are after a rotation. *)
KidAfter(t, u, n, s, up, mid, p, x, d) ==
  \/ x = n /\ d = Other(s) /\ Kid(u, x, d) = mid
  \/ x = n /\ d = s /\ Kid(u, x, d) = Kid(t, n, s)
  \/ x = up /\ d = s /\ Kid(u, x, d) = n
  \/ x = up /\ d = Other(s) /\ Kid(u, x, d) = Kid(t, up, Other(s))
  \/ x = p /\ x \notin {n, up} /\ Kid(t, p, d) = n /\ Kid(u, x, d) = up
  \/ x \notin {n, up} /\ Kid(u, x, d) = Kid(t, x, d) /\ Kid(t, x, d) \notin {n, up}

(* The links of Turned, whatever the colours. *)
TurnedLinks(t, u, M, n, s, up, mid, p) ==
  /\ u.rb_node = IF p = NIL THEN up ELSE t.rb_node
  /\ \A x \in M, d \in Side : KidAfter(t, u, n, s, up, mid, p, x, d)
  /\ \A k \in {mid, Kid(t, n, s), Kid(t, up, Other(s))} : k \in M \cup {NIL} /\ k \notin {n, up}

LEMMA TurnLinks ==
  ASSUME NEW t, NEW M, NEW n, NEW s, NEW up, NEW mid, NEW p, Corner(t, M, n, s, up, mid, p),
         NEW v, SameLinks(v, t), NoLoops(t, M), Linked(t, M), NEW u, Turned(v, u, n, s, up, mid, p)
  PROVE  TurnedLinks(t, u, M, n, s, up, mid, p)
<1>1. PICK o \in Side : o = Other(s) /\ o # s /\ \A d \in Side : d = s \/ d = o
  BY SideFacts DEF Corner
<1>2. /\ t \in Trees /\ M \subseteq Node /\ NIL \notin M /\ n \in M /\ s \in Side
      /\ up = Kid(t, n, o) /\ up \in M /\ mid = Kid(t, up, s) /\ mid \in M \cup {NIL}
      /\ p = Parent(t, n) /\ p \in M \cup {NIL}
      /\ n # up /\ mid # n /\ mid # up /\ p # n /\ p # up
      /\ Kid(t, n, s) # up
  BY <1>1 DEF Corner
<1>3. \A x \in M, d \in Side :
        Kid(t, x, d) # NIL => Kid(t, x, d) \in M /\ Parent(t, Kid(t, x, d)) = x
  BY DEF Linked
<1>4. \A x \in M, d \in Side : Kid(u, x, d) = IF x = n /\ d = o THEN mid
                                              ELSE IF x = up /\ d = s THEN n
                                              ELSE IF x = p /\ Kid(t, p, d) = n THEN up
                                              ELSE Kid(t, x, d)
  BY <1>1, <1>2 DEF Turned, SameLinks
<1>5. u.rb_node = IF p = NIL THEN up ELSE t.rb_node
  BY DEF Turned, SameLinks
<1>6. Kid(t, n, s) # n /\ Kid(t, up, o) \notin {n, up}
  BY <1>2, <1>1 DEF NoLoops
<1>7. \A k \in {mid, Kid(t, n, s), Kid(t, up, o)} : k \in M \cup {NIL} /\ k \notin {n, up}
  BY <1>1, <1>2, <1>3, <1>6
<1>8. ASSUME NEW x \in M, NEW d \in Side PROVE KidAfter(t, u, n, s, up, mid, p, x, d)
  <2>1. CASE x = n
    BY <1>1, <1>2, <1>4, <2>1 DEF KidAfter
  <2>2. CASE x = up
    BY <1>1, <1>2, <1>4, <2>2 DEF KidAfter
  <2>3. CASE x \notin {n, up} /\ x = p /\ Kid(t, p, d) = n
    BY <1>2, <1>4, <2>3 DEF KidAfter
  <2>4. CASE x \notin {n, up} /\ ~(x = p /\ Kid(t, p, d) = n)
    <3>1. Kid(u, x, d) = Kid(t, x, d)
      BY <1>4, <2>4
    <3>2. Kid(t, x, d) # n
      BY <1>2, <1>3, <2>4
    <3>3. Kid(t, x, d) # up
      BY <1>1, <1>2, <1>3, <2>4
    <3> QED BY <2>4, <3>1, <3>2, <3>3 DEF KidAfter
  <2> QED BY <2>1, <2>2, <2>3, <2>4
<1> QED BY <1>1, <1>5, <1>7, <1>8 DEF TurnedLinks

-----------------------------------------------------------------------------
(* LowerRed. *)
Lowered(t, u, M, n, s, up, mid, p) ==
  /\ TurnedLinks(t, u, M, n, s, up, mid, p)
  /\ \A x \in M : Color(u, x) = IF x = n THEN RB_RED ELSE IF x = up THEN RB_BLACK ELSE Color(t, x)

LEMMA LowerDoes ==
  ASSUME NEW t, NEW M, NEW r, NEW b, NEW w, Shape(t, M, r, b, w),
         NEW n \in M, NEW s \in Side, NEW up, up = Kid(t, n, Other(s)), up # NIL,
         NEW mid, mid = Kid(t, up, s), NEW p, p = Parent(t, n),
         NEW u, u = LowerRed(t, n, s)
  PROVE  /\ Lowered(t, u, M, n, s, up, mid, p) /\ SameRest(t, u)
         /\ \E c : Shape(u, M, r, c, w)
<1>1. Corner(t, M, n, s, up, mid, p)
  BY Corners
<1>2. t \in Trees /\ n \in Node /\ up \in Node /\ RB_RED \in Hue /\ RB_BLACK \in Hue /\ M \subseteq Node
  BY <1>1 DEF Corner, Hue
<1>3. PICK v : v = Paint(t, up, RB_BLACK)
  OBVIOUS
<1>4. Painted(t, v, up, RB_BLACK)
  BY <1>2, <1>3, PaintDoes, Zenon
<1>5. v \in Trees
  BY <1>4 DEF Painted
<1>6. PICK z : z = Paint(v, n, RB_RED)
  OBVIOUS
<1>7. Painted(v, z, n, RB_RED)
  BY <1>2, <1>5, <1>6, PaintDoes, Zenon
<1>8. z \in Trees /\ SameLinks(t, z) /\ SameRest(t, z) /\ SameLinks(z, t)
  BY <1>4, <1>7 DEF Painted, SameLinks, SameRest
<1>9. Shape(z, M, r, b, w)
  BY <1>8, SameLinksShape
<1>10. Corner(z, M, n, s, up, mid, p)
  <2>1. up = Kid(z, n, Other(s)) /\ mid = Kid(z, up, s) /\ p = Parent(z, n)
    BY <1>2, <1>8, SideFacts DEF SameLinks
  <2> QED BY <1>9, <2>1, Corners
<1>11. u = rb_rotate(z, n, s)
  BY <1>3, <1>6 DEF LowerRed
<1>12. Turned(z, u, n, s, up, mid, p)
  BY <1>10, <1>11, Turns, Zenon
<1>13. \E c : Shape(u, M, r, c, w)
  BY <1>9, <1>10, <1>12, TurnShape, Zenon
<1>14. TurnedLinks(t, u, M, n, s, up, mid, p)
  <2>1. NoLoops(t, M) /\ Linked(t, M)
    BY Branching DEF Shape
  <2> QED BY <1>1, <1>8, <1>12, <2>1, TurnLinks, Zenon
<1>15. SameRest(t, u)
  BY <1>8, <1>12 DEF Turned, SameRest
<1>16. \A x \in M : Color(u, x) = IF x = n THEN RB_RED ELSE IF x = up THEN RB_BLACK ELSE Color(t, x)
  BY <1>2, <1>4, <1>7, <1>12 DEF Turned, Painted
<1> QED BY <1>13, <1>14, <1>15, <1>16 DEF Lowered

LEMMA HeightTypes ==
  ASSUME NEW t, NEW M, NIL \notin M, NEW h, NEW dp, NEW ds, Heights(t, M, h, dp, ds)
  PROVE  \A k \in M \cup {NIL} : HH(h, k) \in Int /\ HH(h, k) >= 1
  BY DEF Heights, HH

LEMMA LowerHeights ==
  ASSUME NEW t, NEW M, NIL \notin M, NEW n \in M, NEW s \in Side, NEW up \in M, up # n,
         NEW mid, mid = Kid(t, up, s), up = Kid(t, n, Other(s)), NEW p,
         \A x \in M, d \in Side : Kid(t, x, d) \in M \cup {NIL},
         NEW u, Lowered(t, u, M, n, s, up, mid, p), ~Red(t, n), Red(t, up),
         NEW h, NEW dp, NEW ds, Heights(t, M, h, dp, ds), dp # up, dp = n => ds = s
  PROVE  \E g : Heights(u, M, g, dp, ds)
<1>1. PICK o \in Side : o = Other(s) /\ o # s /\ \A d \in Side : d = s \/ d = o
  BY SideFacts
<1>2. PICK g : g = [x \in M |-> IF x = n THEN h[n] - 1 ELSE IF x = up THEN h[n] ELSE h[x]]
  OBVIOUS
<1>3. \A k \in M \cup {NIL} : HH(h, k) \in Int /\ HH(h, k) >= 1
  BY HeightTypes
<1>4. PICK ks, ko : ks = Kid(t, n, s) /\ ko = Kid(t, up, o)
  OBVIOUS
<1>5. \A k \in {mid, ks, ko} : k \in M \cup {NIL} /\ k \notin {n, up}
  BY <1>1, <1>4 DEF Lowered, TurnedLinks
<1>6. \A k \in M \cup {NIL} : k \notin {n, up} => HH(g, k) = HH(h, k)
  BY <1>2 DEF HH
<1>7. HH(g, n) = h[n] - 1 /\ HH(g, up) = h[n] /\ HH(h, n) = h[n] /\ HH(h, up) = h[up]
      /\ g[n] = h[n] - 1 /\ g[up] = h[n] /\ h[n] \in Int /\ h[up] \in Int
  BY <1>2, <1>3 DEF HH, Heights
<1>8. Blk(t, n) = 1 /\ Blk(t, up) = 0 /\ Blk(u, n) = 0 /\ Blk(u, up) = 1
      /\ \A x \in M : x \notin {n, up} => Blk(u, x) = Blk(t, x)
  BY DEF Blk, Red, Color, RB_RED, RB_BLACK, Lowered
<1>9. /\ h[n] = HH(h, up) + 1 /\ h[n] = HH(h, ks) + 1 + (IF n = dp /\ s = ds THEN 1 ELSE 0)
      /\ h[up] = HH(h, mid) /\ h[up] = HH(h, ko)
  <2>1. h[n] = HH(h, up) + Blk(t, n) + (IF n = dp /\ o = ds THEN 1 ELSE 0)
    BY <1>1 DEF Heights
  <2>2. h[n] = HH(h, ks) + Blk(t, n) + (IF n = dp /\ s = ds THEN 1 ELSE 0)
    BY <1>4 DEF Heights
  <2>3. h[up] = HH(h, mid) + Blk(t, up) + 0
    BY DEF Heights
  <2>4. h[up] = HH(h, ko) + Blk(t, up) + 0
    BY <1>1, <1>4 DEF Heights
  <2>5. ~(n = dp /\ o = ds)
    BY <1>1
  <2> QED BY <1>3, <1>5, <1>7, <1>8, <2>1, <2>2, <2>3, <2>4, <2>5
<1>10. \A x \in M : g[x] \in Int /\ g[x] >= 1
  <2>1. h[n] - 1 >= 1
    BY <1>3, <1>7, <1>9
  <2>2. \A x \in M : h[x] \in Int /\ h[x] >= 1
    BY DEF Heights
  <2> QED BY <1>2, <1>7, <2>1, <2>2
<1>11. ASSUME NEW x \in M, NEW d \in Side
       PROVE  g[x] = HH(g, Kid(u, x, d)) + Blk(u, x) + (IF x = dp /\ d = ds THEN 1 ELSE 0)
  <2>0. KidAfter(t, u, n, s, up, mid, p, x, d)
    BY DEF Lowered, TurnedLinks
  <2>1. CASE x = n /\ d = o
    <3>1. Kid(u, x, d) = mid /\ ~(x = dp /\ d = ds)
      BY <1>1, <2>0, <2>1 DEF KidAfter
    <3> QED BY <1>3, <1>5, <1>6, <1>7, <1>8, <1>9, <2>1, <3>1
  <2>2. CASE x = n /\ d = s
    <3>1. Kid(u, x, d) = ks
      BY <1>1, <1>4, <2>0, <2>2 DEF KidAfter
    <3> QED BY <1>3, <1>5, <1>6, <1>7, <1>8, <1>9, <2>2, <3>1
  <2>3. CASE x = up /\ d = s
    <3>1. Kid(u, x, d) = n
      BY <1>1, <2>0, <2>3 DEF KidAfter
    <3> QED BY <1>3, <1>5, <1>6, <1>7, <1>8, <1>9, <2>3, <3>1
  <2>4. CASE x = up /\ d = o
    <3>1. Kid(u, x, d) = ko
      BY <1>1, <1>4, <2>0, <2>4 DEF KidAfter
    <3> QED BY <1>3, <1>5, <1>6, <1>7, <1>8, <1>9, <2>4, <3>1
  <2>5. CASE x \notin {n, up}
    <3>1. h[x] = HH(h, Kid(t, x, d)) + Blk(t, x) + (IF x = dp /\ d = ds THEN 1 ELSE 0)
      BY DEF Heights
    <3>2. g[x] = h[x] /\ Blk(u, x) = Blk(t, x)
      BY <1>2, <1>8, <2>5
    <3>3. HH(g, Kid(u, x, d)) = HH(h, Kid(t, x, d))
      <4>1. CASE Kid(t, x, d) = n /\ Kid(u, x, d) = up
        BY <1>7, <4>1
      <4>2. CASE Kid(u, x, d) = Kid(t, x, d) /\ Kid(t, x, d) \notin {n, up}
        BY <1>6, <4>2
      <4> QED BY <2>0, <2>5, <4>1, <4>2 DEF KidAfter
    <3> QED BY <3>1, <3>2, <3>3
  <2> QED BY <1>1, <2>1, <2>2, <2>3, <2>4, <2>5
<1> QED BY <1>10, <1>11 DEF Heights

LEMMA LowerClash ==
  ASSUME NEW t, NEW M, NIL \notin M, NEW n \in M, NEW s \in Side, NEW up \in M, up # n,
         NEW mid, mid = Kid(t, up, s), up = Kid(t, n, Other(s)), NEW p,
         NEW u, Lowered(t, u, M, n, s, up, mid, p), ~Red(t, Kid(t, n, s)), ~Red(t, mid),
         \A x \in M, d \in Side : Clash(t, x, d) => x = up /\ d = Other(s),
         \A x \in M, d \in Side : Kid(t, x, d) \in M \cup {NIL}
  PROVE  \A x \in M, d \in Side : ~Clash(u, x, d)
<1>1. PICK o \in Side : o = Other(s) /\ o # s /\ \A d \in Side : d = s \/ d = o
  BY SideFacts
<1>2. Red(u, n) /\ ~Red(u, up) /\ \A x \in M \cup {NIL} : x \notin {n, up} => (Red(u, x) <=> Red(t, x))
  BY DEF Red, Lowered, RB_RED, RB_BLACK, Color
<1>3. PICK ks : ks = Kid(t, n, s)
  OBVIOUS
<1>4. \A k \in {mid, ks} : k \in M \cup {NIL} /\ k \notin {n, up}
  BY <1>1, <1>3 DEF Lowered, TurnedLinks
<1>5. ASSUME NEW x \in M, NEW d \in Side PROVE ~Clash(u, x, d)
  <2>0. KidAfter(t, u, n, s, up, mid, p, x, d)
    BY DEF Lowered, TurnedLinks
  <2>1. CASE x = n
    <3>1. Kid(u, x, d) \in {mid, ks}
      BY <1>3, <2>0, <2>1 DEF KidAfter
    <3>2. ~Red(u, mid) /\ ~Red(u, ks)
      BY <1>2, <1>3, <1>4
    <3> QED BY <3>1, <3>2 DEF Clash
  <2>2. CASE x = up
    BY <1>2, <2>2 DEF Clash
  <2>3. CASE x \notin {n, up}
    <3>1. CASE Kid(u, x, d) = up
      BY <1>2, <3>1 DEF Clash
    <3>2. CASE Kid(u, x, d) = Kid(t, x, d) /\ Kid(t, x, d) \notin {n, up}
      <4>1. Kid(t, x, d) \in M \cup {NIL}
        OBVIOUS
      <4>2. ~Clash(t, x, d)
        BY <2>3
      <4> QED BY <1>2, <2>3, <3>2, <4>1, <4>2 DEF Clash
    <3> QED BY <2>0, <2>3, <3>1, <3>2 DEF KidAfter
  <2> QED BY <2>1, <2>2, <2>3
<1> QED BY <1>5

-----------------------------------------------------------------------------
Formed(t, M, r, w) == \E b : Shape(t, M, r, b, w)

Even(t, M) == \E h : Heights(t, M, h, NIL, "left")

Calm(t, M) == \A x \in M, d \in Side : ~Clash(t, x, d)

(* A red-black tree of the nodes M. *)
Sound(t, M, r, w) ==
  Formed(t, M, r, w) /\ Even(t, M) /\ Calm(t, M) /\ ~Red(t, t.rb_node)

LEMMA FormedFacts ==
  ASSUME NEW t, NEW M, NEW r, NEW w, Formed(t, M, r, w)
  PROVE  /\ t \in Trees /\ M \subseteq Node /\ NIL \notin M /\ NoLoops(t, M) /\ Linked(t, M)
         /\ IsFiniteSet(M)
         /\ \A x \in M, d \in Side : Kid(t, x, d) \in M \cup {NIL}
         /\ \A x \in M : Parent(t, x) \in M \cup {NIL}
<1>1. PICK b : Shape(t, M, r, b, w)
  BY DEF Formed
<1>2. Linked(t, M)
  BY <1>1 DEF Shape
<1> QED BY <1>1, <1>2, Branching, ShapeTypes DEF Linked

(* The rotation that ends the repairs after an insertion. *)
LEMMA LowerSound ==
  ASSUME NEW t, NEW M, NEW r, NEW w, Formed(t, M, r, w), Even(t, M),
         NEW g \in M, NEW s \in Side, NEW up \in M, up = Kid(t, g, Other(s)),
         Red(t, up), ~Red(t, g), ~Red(t, Kid(t, g, s)), ~Red(t, Kid(t, up, s)),
         \A x \in M, d \in Side : Clash(t, x, d) => x = up /\ d = Other(s),
         ~Red(t, t.rb_node), NEW u, u = LowerRed(t, g, s)
  PROVE  /\ Sound(u, M, r, w) /\ SameRest(t, u)
         /\ \A x \in M : x \notin {g, up} => Color(u, x) = Color(t, x)
<1>1. PICK b : Shape(t, M, r, b, w)
  BY DEF Formed
<1>2. PICK h : Heights(t, M, h, NIL, "left")
  BY DEF Even
<1>3. /\ NIL \notin M /\ up # NIL /\ \A x \in M, d \in Side : Kid(t, x, d) \in M \cup {NIL}
  BY FormedFacts
<1>4. PICK mid, p : mid = Kid(t, up, s) /\ p = Parent(t, g)
  OBVIOUS
<1>5. Lowered(t, u, M, g, s, up, mid, p) /\ SameRest(t, u) /\ Formed(u, M, r, w)
  BY <1>1, <1>3, <1>4, LowerDoes DEF Formed
<1>6. up # g
  BY <1>1, <1>3, <1>4, Corners DEF Corner
<1>7. Even(u, M)
  <2>1. NIL # up /\ (NIL = g => "left" = s)
    BY <1>3
  <2>2. \E k : Heights(u, M, k, NIL, "left")
    BY <1>2, <1>3, <1>4, <1>5, <1>6, <2>1, LowerHeights
  <2> QED BY <2>2 DEF Even
<1>8. Calm(u, M)
  <2>1. \A x \in M, d \in Side : ~Clash(u, x, d)
    BY <1>3, <1>4, <1>5, <1>6, LowerClash
  <2> QED BY <2>1 DEF Calm
<1>9. \A x \in M : Color(u, x) = IF x = g THEN RB_RED ELSE IF x = up THEN RB_BLACK ELSE Color(t, x)
  BY <1>5 DEF Lowered
<1>10. ~Red(u, u.rb_node)
  <2>1. CASE p = NIL
    <3>1. u.rb_node = up
      BY <1>5, <2>1 DEF Lowered, TurnedLinks
    <3> QED BY <1>6, <1>9, <3>1 DEF Red, Color, RB_RED, RB_BLACK
  <2>2. CASE p # NIL
    <3>1. u.rb_node = t.rb_node /\ t.rb_node # g /\ t.rb_node \in M \cup {NIL}
      BY <1>4, <1>5, <2>2, FormedFacts DEF Lowered, TurnedLinks, Linked
    <3>2. t.rb_node # up
      OBVIOUS
    <3> QED BY <1>9, <3>1, <3>2 DEF Red, Color
  <2> QED BY <2>1, <2>2
<1> QED BY <1>5, <1>7, <1>8, <1>9, <1>10 DEF Sound

LEMMA TwistHeights ==
  ASSUME NEW t, NEW M, NIL \notin M, NEW n \in M, NEW s \in Side, NEW up \in M, up # n,
         NEW mid, mid = Kid(t, up, s), up = Kid(t, n, Other(s)), NEW p,
         NEW u, TurnedLinks(t, u, M, n, s, up, mid, p), \A x \in M : Color(u, x) = Color(t, x),
         Red(t, n), Red(t, up), NEW h, Heights(t, M, h, NIL, "left"),
         \A x \in M, d \in Side : Kid(t, x, d) \in M \cup {NIL}
  PROVE  Heights(u, M, h, NIL, "left")
<1>1. PICK o \in Side : o = Other(s) /\ o # s /\ \A d \in Side : d = s \/ d = o
  BY SideFacts
<1>2. \A x \in M : Blk(u, x) = Blk(t, x)
  BY DEF Blk
<1>3. Blk(t, n) = 0 /\ Blk(t, up) = 0
  BY DEF Blk, Red, Color
<1>4. \A x \in M, d \in Side : h[x] = HH(h, Kid(t, x, d)) + Blk(t, x) /\ h[x] \in Int /\ h[x] >= 1
  <2>1. \A x \in M, d \in Side : HH(h, Kid(t, x, d)) \in Int
    BY HeightTypes
  <2>2. \A x \in M : Blk(t, x) \in Int
    BY DEF Blk
  <2> QED BY <2>1, <2>2 DEF Heights
<1>5. PICK ks, ko : ks = Kid(t, n, s) /\ ko = Kid(t, up, o)
  OBVIOUS
<1>6. HH(h, n) = h[n] /\ HH(h, up) = h[up]
  BY DEF HH
<1>7. \A k \in M \cup {NIL} : HH(h, k) \in Int
  BY HeightTypes
<1>8. h[n] = h[up] /\ h[n] = HH(h, ks) /\ h[n] = HH(h, mid) /\ h[n] = HH(h, ko)
  <2>1. h[n] = HH(h, up) + Blk(t, n) /\ h[n] = HH(h, ks) + Blk(t, n)
    BY <1>1, <1>4, <1>5
  <2>2. h[up] = HH(h, mid) + Blk(t, up) /\ h[up] = HH(h, ko) + Blk(t, up)
    BY <1>1, <1>4, <1>5
  <2>3. up \in M \cup {NIL} /\ ks \in M \cup {NIL} /\ mid \in M \cup {NIL} /\ ko \in M \cup {NIL}
    BY <1>1, <1>5
  <2> QED BY <1>3, <1>6, <1>7, <2>1, <2>2, <2>3
<1>9. ASSUME NEW x \in M, NEW d \in Side
      PROVE  h[x] = HH(h, Kid(u, x, d)) + Blk(u, x) + (IF x = NIL /\ d = "left" THEN 1 ELSE 0)
  <2>0. KidAfter(t, u, n, s, up, mid, p, x, d)
    BY DEF TurnedLinks
  <2>1. CASE x = n
    <3>1. Kid(u, x, d) \in {mid, ks}
      BY <1>5, <2>0, <2>1 DEF KidAfter
    <3>2. HH(h, Kid(u, x, d)) = h[n] /\ x # NIL /\ h[n] \in Int /\ Blk(u, x) = 0
      BY <1>2, <1>3, <1>4, <1>8, <2>1, <3>1
    <3> QED BY <2>1, <3>2
  <2>2. CASE x = up
    <3>1. Kid(u, x, d) \in {n, ko}
      BY <1>1, <1>5, <2>0, <2>2 DEF KidAfter
    <3>2. HH(h, Kid(u, x, d)) = h[up] /\ x # NIL /\ h[up] \in Int /\ Blk(u, x) = 0
      BY <1>2, <1>3, <1>4, <1>6, <1>8, <2>2, <3>1
    <3> QED BY <2>2, <3>2
  <2>3. CASE x \notin {n, up}
    <3>1. Kid(u, x, d) = Kid(t, x, d) \/ (Kid(t, x, d) = n /\ Kid(u, x, d) = up)
      BY <2>0, <2>3 DEF KidAfter
    <3>2. HH(h, Kid(u, x, d)) = HH(h, Kid(t, x, d))
      BY <1>6, <1>8, <3>1
    <3>3. HH(h, Kid(t, x, d)) \in Int /\ Blk(t, x) \in Int
      BY <1>7 DEF Blk
    <3> QED BY <1>2, <1>4, <3>2, <3>3
  <2> QED BY <2>1, <2>2, <2>3
<1> QED BY <1>9 DEF Heights

-----------------------------------------------------------------------------
(* The loop of rb_insert_color: the only red node with a red parent is n. *)
Repairing(t, M, r, w, n) ==
  /\ n \in M /\ Red(t, n) /\ Formed(t, M, r, w) /\ Even(t, M)
  /\ \A x \in M, d \in Side : Clash(t, x, d) => Kid(t, x, d) = n
  /\ Red(t, t.rb_node) => t.rb_node = n

Reds(t, M) == {x \in M : Color(t, x) = RB_RED}

(* Where it goes on, n and its parent p, the kid of g on side s. *)
RedAtTop(t, M, n, p, g, s) ==
  /\ p \in M /\ Red(t, p) /\ p = Parent(t, n) /\ g \in M /\ g = Parent(t, p) /\ s \in Side
  /\ s = SideOf(t, g, p) /\ Kid(t, g, s) = p /\ ~Red(t, g)
  /\ Kid(t, p, s) = n \/ Kid(t, p, Other(s)) = n
  /\ ~Red(t, t.rb_node) /\ p # n /\ g # n /\ g # p

LEMMA RedTop ==
  ASSUME NEW t, NEW M, NEW r, NEW w, NEW n, Repairing(t, M, r, w, n), Red(t, Parent(t, n))
  PROVE  \E p, g, s : RedAtTop(t, M, n, p, g, s)
<1>1. Formed(t, M, r, w) /\ n \in M
  BY DEF Repairing
<1>2. PICK p : p = Parent(t, n)
  OBVIOUS
<1>3. /\ t \in Trees /\ M \subseteq Node /\ NIL \notin M /\ NoLoops(t, M) /\ Linked(t, M)
  BY <1>1, FormedFacts
<1>4. p # NIL /\ Red(t, p)
  BY <1>2 DEF Red
<1>5. p \in M /\ \E d \in Side : Kid(t, p, d) = n
  BY <1>1, <1>2, <1>3, <1>4 DEF Linked
<1>6. p # n
  BY <1>1, <1>3, <1>5 DEF NoLoops
<1>7. t.rb_node # n
  BY <1>1, <1>2, <1>3, <1>4 DEF Linked
<1>8. ~Red(t, t.rb_node)
  BY <1>7 DEF Repairing
<1>9. PICK g : g = Parent(t, p)
  OBVIOUS
<1>10. g \in M /\ \E d \in Side : Kid(t, g, d) = p
  BY <1>3, <1>4, <1>5, <1>8, <1>9 DEF Linked
<1>11. PICK e \in Side : Kid(t, g, e) = p /\ Kid(t, g, Other(e)) # p /\ g # p
  BY <1>3, <1>5, <1>10 DEF NoLoops
<1>12. PICK s : s = SideOf(t, g, p)
  OBVIOUS
<1>13. s \in Side /\ Kid(t, g, s) = p
  <2>1. HangsFrom(t, p, g)
    BY <1>11 DEF HangsFrom
  <2>2. g \in Node /\ p \in Ptr
    BY <1>3, <1>5, <1>10 DEF Ptr
  <2> QED BY <1>3, <1>12, <2>1, <2>2, SideOfIs
<1>14. ~Red(t, g)
  <2>1. Red(t, g) => Clash(t, g, s)
    BY <1>4, <1>13 DEF Clash
  <2> QED BY <1>6, <1>10, <1>13, <2>1 DEF Repairing
<1>15. g # n
  BY <1>14 DEF Repairing
<1>16. Kid(t, p, s) = n \/ Kid(t, p, Other(s)) = n
  BY <1>5, <1>13, SideFacts
<1> QED BY <1>2, <1>4, <1>5, <1>6, <1>8, <1>9, <1>10, <1>11, <1>12, <1>13, <1>14, <1>15, <1>16 DEF RedAtTop

(* A red uncle. *)
LEMMA Recolour ==
  ASSUME NEW t, NEW M, NEW r, NEW w, NEW n, Repairing(t, M, r, w, n),
         NEW p, NEW g, NEW s, RedAtTop(t, M, n, p, g, s),
         NEW c, c = Kid(t, g, Other(s)), Red(t, c),
         NEW u, u = Paint(Paint(Paint(t, c, RB_BLACK), p, RB_BLACK), g, RB_RED)
  PROVE  /\ Repairing(u, M, r, w, g) /\ SameRest(t, u)
         /\ Cardinality(Reds(u, M)) < Cardinality(Reds(t, M))
<1>1. PICK b : Shape(t, M, r, b, w)
  BY DEF Repairing, Formed
<1>2. PICK h : Heights(t, M, h, NIL, "left")
  BY DEF Repairing, Even
<1>3. /\ t \in Trees /\ M \subseteq Node /\ NIL \notin M /\ NoLoops(t, M) /\ Linked(t, M)
      /\ \A x \in M, d \in Side : Kid(t, x, d) \in M \cup {NIL}
      /\ IsFiniteSet(M)
  BY FormedFacts DEF Repairing
<1>4. /\ p \in M /\ Red(t, p) /\ p = Parent(t, n) /\ g \in M /\ g = Parent(t, p) /\ s \in Side
      /\ Kid(t, g, s) = p /\ ~Red(t, g) /\ ~Red(t, t.rb_node) /\ p # n /\ g # n /\ g # p
      /\ \E d \in Side : Kid(t, p, d) = n
  BY SideFacts DEF RedAtTop
<1>5. PICK o \in Side : o = Other(s) /\ o # s /\ \A d \in Side : d = s \/ d = o
  BY <1>4, SideFacts
<1>6. c \in M /\ c # p /\ c # g /\ c # n /\ Parent(t, c) = g
  <2>1. c \in M
    BY <1>3, <1>4, <1>5 DEF Red
  <2>2. c # p
    BY <1>3, <1>4, <1>5 DEF NoLoops
  <2>3. c # g
    BY <1>4
  <2>4. Parent(t, c) = g
    BY <1>3, <1>4, <1>5, <2>1 DEF Linked
  <2> QED BY <1>4, <2>1, <2>2, <2>3, <2>4
<1>7. c \in Node /\ p \in Node /\ g \in Node /\ RB_RED \in Hue /\ RB_BLACK \in Hue
  BY <1>3, <1>4, <1>6 DEF Hue
<1>8. PICK v : v = Paint(t, c, RB_BLACK)
  OBVIOUS
<1>9. Painted(t, v, c, RB_BLACK)
  BY <1>3, <1>7, <1>8, PaintDoes, Zenon
<1>10. v \in Trees
  BY <1>9 DEF Painted
<1>11. PICK z : z = Paint(v, p, RB_BLACK)
  OBVIOUS
<1>12. Painted(v, z, p, RB_BLACK)
  BY <1>7, <1>10, <1>11, PaintDoes, Zenon
<1>13. z \in Trees
  BY <1>12 DEF Painted
<1>14. Painted(z, u, g, RB_RED)
  BY <1>7, <1>8, <1>11, <1>13, PaintDoes, Zenon
<1>15. u \in Trees /\ SameLinks(t, u) /\ SameRest(t, u)
  BY <1>9, <1>12, <1>14 DEF Painted, SameLinks, SameRest
<1>16. \A x \in M : Color(u, x) = IF x = g THEN RB_RED
                                  ELSE IF x \in {p, c} THEN RB_BLACK ELSE Color(t, x)
  BY <1>3, <1>9, <1>12, <1>14 DEF Painted
<1>17. \A x \in M, d \in Side : Kid(u, x, d) = Kid(t, x, d)
  BY <1>3, <1>15 DEF SameLinks
<1>18. Formed(u, M, r, w)
  BY <1>1, <1>15, SameLinksShape DEF Formed
<1>19. Even(u, M)
  <2>1. PICK k : k = [x \in M |-> IF x \in {p, c} THEN h[x] + 1 ELSE h[x]]
    OBVIOUS
  <2>2. \A x \in M : h[x] \in Int /\ h[x] >= 1
    BY <1>2 DEF Heights
  <2>3. \A x \in M : k[x] \in Int /\ k[x] >= 1
    BY <2>1, <2>2
  <2>4. \A x \in M : x \notin {p, c, g} => Blk(u, x) = Blk(t, x)
    BY <1>16 DEF Blk
  <2>5. Blk(t, g) = 1 /\ Blk(u, g) = 0 /\ Blk(t, p) = 0 /\ Blk(t, c) = 0 /\ Blk(u, p) = 1 /\ Blk(u, c) = 1
    BY <1>3, <1>4, <1>6, <1>16 DEF Blk, Red, Color, RB_RED, RB_BLACK
  <2>6. ASSUME NEW x \in M, NEW d \in Side
        PROVE  k[x] = HH(k, Kid(u, x, d)) + Blk(u, x) + (IF x = NIL /\ d = "left" THEN 1 ELSE 0)
    <3>1. PICK e \in M \cup {NIL} : e = Kid(t, x, d) /\ e = Kid(u, x, d)
      BY <1>3, <1>17
    <3>2. h[x] = HH(h, e) + Blk(t, x) + 0 /\ x # NIL /\ HH(h, e) \in Int /\ Blk(t, x) \in Int
      <4>1. x # NIL /\ HH(h, e) \in Int
        BY <1>2, <1>3, HeightTypes
      <4>2. h[x] = HH(h, e) + Blk(t, x) + 0
        BY <1>2, <3>1, <4>1 DEF Heights
      <4> QED BY <4>1, <4>2 DEF Blk
    <3>3. e \in {p, c} => x = g
      <4>1. e # NIL => Parent(t, e) = x
        BY <1>3, <3>1, ZenonT(40) DEF Linked
      <4> QED BY <1>3, <1>4, <1>6, <4>1
    <3>4. x = g => e \in {p, c}
      BY <1>4, <1>5, <3>1
    <3>5. HH(k, e) = IF e \in {p, c} THEN HH(h, e) + 1 ELSE HH(h, e)
      BY <1>3, <1>4, <1>6, <2>1 DEF HH
    <3>6. CASE x = g
      BY <1>4, <1>6, <2>1, <2>5, <3>1, <3>2, <3>4, <3>5, <3>6
    <3>7. CASE x \in {p, c}
      <4>1. e \notin {p, c}
        BY <1>4, <1>6, <3>3, <3>7
      <4>2. k[x] = h[x] + 1 /\ Blk(u, x) = 1 /\ Blk(t, x) = 0
        BY <2>1, <2>5, <3>7
      <4> QED BY <3>1, <3>2, <3>5, <4>1, <4>2
    <3>8. CASE x \notin {p, c, g}
      <4>1. k[x] = h[x] /\ Blk(u, x) = Blk(t, x) /\ e \notin {p, c}
        BY <2>1, <2>4, <3>3, <3>8
      <4> QED BY <3>1, <3>2, <3>5, <4>1
    <3> QED BY <3>6, <3>7, <3>8
  <2>7. Heights(u, M, k, NIL, "left")
    BY <2>3, <2>6 DEF Heights
  <2> QED BY <2>7 DEF Even
<1>20. \A x \in M \cup {NIL} : Red(u, x) <=> x = g \/ (Red(t, x) /\ x \notin {p, c})
  BY <1>3, <1>4, <1>6, <1>16 DEF Red, Color, RB_RED, RB_BLACK
<1>21. ASSUME NEW x \in M, NEW d \in Side, Clash(u, x, d) PROVE Kid(u, x, d) = g
  <2>1. PICK e \in M \cup {NIL} : e = Kid(t, x, d) /\ e = Kid(u, x, d)
    BY <1>3, <1>17
  <2>2. Red(u, x) /\ Red(u, e)
    BY <1>21, <2>1 DEF Clash
  <2>3. CASE x = g
    <3>1. e \in {p, c}
      BY <1>4, <1>5, <2>1, <2>3
    <3> QED BY <1>4, <1>6, <1>20, <2>2, <3>1
  <2>4. CASE x # g
    <3>1. SUFFICES ASSUME e # g PROVE FALSE
      BY <2>1
    <3>2. Red(t, x) /\ Red(t, e) /\ x # p
      BY <1>20, <2>2, <2>4, <3>1
    <3>3. e = n
      BY <2>1, <3>2 DEF Clash, Repairing
    <3>4. x = p
      <4>1. n # NIL
        BY <1>3 DEF Repairing
      <4>2. Kid(t, x, d) = n
        BY <2>1, <3>3
      <4>3. Parent(t, n) = x
        BY <1>3, <4>1, <4>2 DEF Linked
      <4> QED BY <1>4, <4>3
    <3> QED BY <3>2, <3>4
  <2> QED BY <2>3, <2>4
<1>22. Red(u, u.rb_node) => u.rb_node = g
  <2>1. u.rb_node = t.rb_node /\ t.rb_node \in M \cup {NIL}
    BY <1>3, <1>15 DEF SameLinks, Linked
  <2> QED BY <1>4, <1>20, <2>1
<1>23. Repairing(u, M, r, w, g)
  BY <1>4, <1>18, <1>19, <1>20, <1>21, <1>22 DEF Repairing
<1>24. Cardinality(Reds(u, M)) < Cardinality(Reds(t, M))
  <2>1. PICK R : R = Reds(t, M)
    OBVIOUS
  <2>2. R \subseteq M /\ p \in R /\ c \in R /\ g \notin R
    BY <1>3, <1>4, <1>6, <2>1 DEF Reds, Red, Color
  <2>3. IsFiniteSet(R)
    BY <1>3, <2>2, FS_Subset
  <2>4. Reds(u, M) = (R \ {p, c}) \cup {g}
    BY <1>4, <1>6, <1>16, <2>1 DEF Reds, RB_RED, RB_BLACK
  <2>5. (R \ {p, c}) \cup {g} = ((R \ {p}) \ {c}) \cup {g}
    OBVIOUS
  <2>6. IsFiniteSet(R \ {p}) /\ Cardinality(R \ {p}) = Cardinality(R) - 1
    BY <2>2, <2>3, FS_RemoveElement
  <2>7. IsFiniteSet((R \ {p}) \ {c}) /\ Cardinality((R \ {p}) \ {c}) = Cardinality(R \ {p}) - 1
    BY <1>6, <2>2, <2>6, FS_RemoveElement
  <2>8. g \notin (R \ {p}) \ {c}
    BY <2>2
  <2>9. Cardinality(((R \ {p}) \ {c}) \cup {g}) = Cardinality((R \ {p}) \ {c}) + 1
    BY <2>7, <2>8, FS_AddElement
  <2>10. Cardinality(R) \in Nat
    BY <2>3, FS_CardinalityType
  <2>11. Reds(u, M) = ((R \ {p}) \ {c}) \cup {g}
    BY <2>4, <2>5, Zenon
  <2>12. Cardinality(Reds(u, M)) = Cardinality((R \ {p}) \ {c}) + 1
    BY <2>9, <2>11, Zenon
  <2>13. PICK i, j, k, l : /\ i = Cardinality(R) /\ j = Cardinality(R \ {p})
                           /\ k = Cardinality((R \ {p}) \ {c}) /\ l = Cardinality(Reds(u, M))
    OBVIOUS
  <2>14. i \in Nat /\ j = i - 1 /\ k = j - 1 /\ l = k + 1
    BY <2>6, <2>7, <2>10, <2>12, <2>13, Zenon
  <2>15. l < i
    BY <2>14
  <2> QED BY <2>1, <2>13, <2>15
<1> QED BY <1>15, <1>23, <1>24

(* The first of two rotations. *)
LEMMA Straighten ==
  ASSUME NEW t, NEW M, NEW r, NEW w, NEW n, Repairing(t, M, r, w, n),
         NEW p, NEW g, NEW s, RedAtTop(t, M, n, p, g, s), ~Red(t, Kid(t, g, Other(s))),
         Kid(t, p, Other(s)) = n, NEW u, u = rb_rotate(t, p, s)
  PROVE  /\ Formed(u, M, r, w) /\ Even(u, M) /\ SameRest(t, u)
         /\ \A x \in M \cup {NIL} : Red(u, x) <=> Red(t, x)
         /\ Kid(u, g, s) = n /\ ~Red(u, Kid(u, g, Other(s))) /\ ~Red(u, Kid(u, n, Other(s)))
         /\ \A x \in M, d \in Side : Clash(u, x, d) => x = n /\ d = s
         /\ ~Red(u, u.rb_node)
<1>1. PICK b : Shape(t, M, r, b, w)
  BY DEF Repairing, Formed
<1>2. PICK h : Heights(t, M, h, NIL, "left")
  BY DEF Repairing, Even
<1>3. /\ t \in Trees /\ M \subseteq Node /\ NIL \notin M /\ NoLoops(t, M) /\ Linked(t, M)
      /\ \A x \in M, d \in Side : Kid(t, x, d) \in M \cup {NIL}
  BY FormedFacts DEF Repairing
<1>4. /\ p \in M /\ Red(t, p) /\ p = Parent(t, n) /\ g \in M /\ g = Parent(t, p) /\ s \in Side
      /\ Kid(t, g, s) = p /\ ~Red(t, g) /\ ~Red(t, t.rb_node) /\ p # n /\ g # n /\ g # p
      /\ n \in M /\ Red(t, n) /\ n # NIL
  BY <1>3 DEF RedAtTop, Repairing
<1>5. PICK o \in Side : o = Other(s) /\ o # s /\ \A d \in Side : d = s \/ d = o
  BY <1>4, SideFacts
<1>6. PICK mid : mid = Kid(t, n, s)
  OBVIOUS
<1>7. Corner(t, M, p, s, n, mid, g)
  BY <1>1, <1>4, <1>5, <1>6, Corners
<1>8. Turned(t, u, p, s, n, mid, g)
  BY <1>7, Turns, Zenon
<1>9. Formed(u, M, r, w)
  BY <1>1, <1>7, <1>8, TurnShape, Zenon DEF Formed
<1>10. SameLinks(t, t)
  BY DEF SameLinks
<1>11. TurnedLinks(t, u, M, p, s, n, mid, g)
  BY <1>3, <1>7, <1>8, <1>10, TurnLinks, Zenon
<1>12. SameRest(t, u) /\ \A x \in M : Color(u, x) = Color(t, x)
  BY <1>3, <1>8 DEF Turned
<1>13. Heights(u, M, h, NIL, "left")
  BY <1>2, <1>3, <1>4, <1>5, <1>6, <1>11, <1>12, TwistHeights
<1>14. \A x \in M \cup {NIL} : Red(u, x) <=> Red(t, x)
  BY <1>3, <1>12 DEF Red, Color
<1>15. \A x \in M, d \in Side : KidAfter(t, u, p, s, n, mid, g, x, d)
  BY <1>11 DEF TurnedLinks
<1>16. Kid(u, g, s) = n /\ Kid(u, g, o) = Kid(t, g, o) /\ Kid(u, n, o) = Kid(t, n, o)
  <2>1. KidAfter(t, u, p, s, n, mid, g, g, s) /\ KidAfter(t, u, p, s, n, mid, g, g, o)
        /\ KidAfter(t, u, p, s, n, mid, g, n, o)
    BY <1>4, <1>5, <1>15
  <2>2. Kid(u, g, s) = n
    BY <1>4, <2>1 DEF KidAfter
  <2>3. Kid(t, g, o) # p
    BY <1>3, <1>4, <1>5 DEF NoLoops
  <2>4. Kid(u, g, o) = Kid(t, g, o)
    BY <1>4, <2>1, <2>3 DEF KidAfter
  <2>5. Kid(u, n, o) = Kid(t, n, o)
    BY <1>4, <1>5, <2>1 DEF KidAfter
  <2> QED BY <2>2, <2>4, <2>5
<1>17. \A d \in Side : ~Red(t, Kid(t, n, d))
  <2> SUFFICES ASSUME NEW d \in Side, Red(t, Kid(t, n, d)) PROVE FALSE
    OBVIOUS
  <2>1. Kid(t, n, d) = n
    BY <1>4 DEF Clash, Repairing
  <2> QED BY <1>3, <1>4, <2>1 DEF NoLoops
<1>18. ~Red(t, Kid(t, p, s))
  <2> SUFFICES ASSUME Red(t, Kid(t, p, s)) PROVE FALSE
    OBVIOUS
  <2>1. Kid(t, p, s) = n
    BY <1>4 DEF Clash, Repairing
  <2> QED BY <1>3, <1>4, <1>5, <2>1 DEF NoLoops
<1>19. ~Red(u, Kid(u, g, o)) /\ ~Red(u, Kid(u, n, o))
  BY <1>3, <1>4, <1>5, <1>14, <1>16, <1>17
<1>20. ASSUME NEW x \in M, NEW d \in Side, Clash(u, x, d) PROVE x = n /\ d = s
  <2>0. KidAfter(t, u, p, s, n, mid, g, x, d)
    BY <1>15
  <2>1. Red(t, x) /\ Red(u, Kid(u, x, d))
    BY <1>14, <1>20 DEF Clash
  <2>2. CASE x = p
    <3>1. Kid(u, x, d) \in {mid, Kid(t, p, s)}
      BY <1>4, <2>0, <2>2 DEF KidAfter
    <3>2. ~Red(u, mid) /\ ~Red(u, Kid(t, p, s))
      BY <1>3, <1>4, <1>6, <1>14, <1>17, <1>18
    <3> QED BY <2>1, <3>1, <3>2
  <2>3. CASE x = n
    BY <1>5, <1>19, <2>1, <2>3
  <2>4. CASE x \notin {p, n} /\ x = g
    BY <1>4, <2>1, <2>4
  <2>5. CASE x \notin {p, n} /\ x # g
    <3>1. Kid(u, x, d) = Kid(t, x, d) /\ Kid(t, x, d) \notin {p, n}
      BY <2>0, <2>5 DEF KidAfter
    <3>2. Red(t, Kid(t, x, d))
      BY <1>3, <1>14, <2>1, <3>1
    <3> QED BY <2>1, <3>1, <3>2 DEF Clash, Repairing
  <2> QED BY <2>2, <2>3, <2>4, <2>5
<1>21. ~Red(u, u.rb_node)
  <2>1. u.rb_node = t.rb_node /\ t.rb_node \in M \cup {NIL}
    BY <1>3, <1>4, <1>11 DEF TurnedLinks, Linked
  <2> QED BY <1>4, <1>14, <2>1
<1> QED BY <1>5, <1>9, <1>12, <1>13, <1>14, <1>16, <1>19, <1>20, <1>21 DEF Even

LEMMA SoundRepaired ==
  ASSUME NEW u, NEW M, NEW r, NEW w, Sound(u, M, r, w), NEW n \in M, Red(u, n)
  PROVE  Repairing(u, M, r, w, n) /\ ~Red(u, Parent(u, n))
<1>1. Formed(u, M, r, w) /\ Linked(u, M)
  BY FormedFacts DEF Sound
<1>2. ~Red(u, Parent(u, n))
  <2> SUFFICES ASSUME Red(u, Parent(u, n)) PROVE FALSE
    OBVIOUS
  <2>1. Parent(u, n) # NIL
    BY DEF Red
  <2>2. PICK q \in M, d \in Side : q = Parent(u, n) /\ Kid(u, q, d) = n
    BY <1>1, <2>1 DEF Linked
  <2> QED BY <2>2 DEF Sound, Calm, Clash
<1>3. Repairing(u, M, r, w, n)
  BY DEF Sound, Repairing, Calm
<1> QED BY <1>2, <1>3

LEMMA InsertRoundDoes ==
  ASSUME NEW t, NEW M, NEW r, NEW w, NEW n, Repairing(t, M, r, w, n), Red(t, Parent(t, n)),
         NEW y, y = InsertRound([t |-> t, n |-> n])
  PROVE  /\ Repairing(y.t, M, r, w, y.n) /\ SameRest(t, y.t)
         /\ Red(y.t, Parent(y.t, y.n)) => Cardinality(Reds(y.t, M)) < Cardinality(Reds(t, M))
<1>1. PICK p, g, s : RedAtTop(t, M, n, p, g, s)
  BY RedTop
<1>2. /\ p \in M /\ Red(t, p) /\ p = Parent(t, n) /\ g \in M /\ g = Parent(t, p) /\ s \in Side
      /\ s = SideOf(t, g, p) /\ Kid(t, g, s) = p /\ ~Red(t, g)
      /\ Kid(t, p, s) = n \/ Kid(t, p, Other(s)) = n
      /\ ~Red(t, t.rb_node) /\ p # n /\ g # n /\ g # p
  BY <1>1 DEF RedAtTop
<1>3. PICK c : c = Kid(t, g, Other(s))
  OBVIOUS
<1>4. n \in M /\ Red(t, n) /\ Formed(t, M, r, w) /\ Even(t, M)
      /\ \A x \in M, d \in Side : Clash(t, x, d) => Kid(t, x, d) = n
  BY DEF Repairing
<1>5. Other(s) \in Side /\ Other(s) # s /\ Other(Other(s)) = s
  BY <1>2, SideFacts
<1>6. CASE Red(t, c)
  <2>1. PICK u : u = Paint(Paint(Paint(t, c, RB_BLACK), p, RB_BLACK), g, RB_RED)
    OBVIOUS
  <2>2. /\ Repairing(u, M, r, w, g) /\ SameRest(t, u)
        /\ Cardinality(Reds(u, M)) < Cardinality(Reds(t, M))
    BY <1>1, <1>3, <1>6, <2>1, Recolour
  <2>3. y = [t |-> u, n |-> g]
    BY <1>2, <1>3, <1>6, <2>1 DEF InsertRound
  <2> QED BY <2>2, <2>3
<1>7. CASE ~Red(t, c) /\ Kid(t, p, Other(s)) = n
  <2>1. PICK v, u : v = rb_rotate(t, p, s) /\ u = LowerRed(v, g, Other(s))
    OBVIOUS
  <2>2. /\ Formed(v, M, r, w) /\ Even(v, M) /\ SameRest(t, v)
        /\ \A x \in M \cup {NIL} : Red(v, x) <=> Red(t, x)
        /\ Kid(v, g, s) = n /\ ~Red(v, Kid(v, g, Other(s))) /\ ~Red(v, Kid(v, n, Other(s)))
        /\ \A x \in M, d \in Side : Clash(v, x, d) => x = n /\ d = s
        /\ ~Red(v, v.rb_node)
    BY <1>1, <1>3, <1>7, <2>1, Straighten
  <2>3. /\ Sound(u, M, r, w) /\ SameRest(v, u)
        /\ \A x \in M : x \notin {g, n} => Color(u, x) = Color(v, x)
    BY <1>2, <1>4, <1>5, <2>1, <2>2, LowerSound
  <2>4. Red(u, p)
    BY <1>2, <2>2, <2>3 DEF Red, Color
  <2>5. Repairing(u, M, r, w, p) /\ ~Red(u, Parent(u, p))
    BY <1>2, <2>3, <2>4, SoundRepaired
  <2>6. y = [t |-> u, n |-> p]
    BY <1>2, <1>3, <1>7, <2>1 DEF InsertRound
  <2>7. SameRest(t, u)
    BY <2>2, <2>3 DEF SameRest
  <2> QED BY <2>5, <2>6, <2>7
<1>8. CASE ~Red(t, c) /\ Kid(t, p, Other(s)) # n
  <2>1. PICK u : u = LowerRed(t, g, Other(s))
    OBVIOUS
  <2>2. ~Red(t, Kid(t, p, Other(s)))
    BY <1>2, <1>4, <1>5, <1>8 DEF Clash
  <2>3. ASSUME NEW x \in M, NEW d \in Side, Clash(t, x, d) PROVE x = p /\ d = s
    <3>1. Kid(t, x, d) = n
      BY <1>4, <2>3
    <3>2. x = p
      BY <1>2, <1>4, <3>1, FormedFacts DEF Linked
    <3> QED BY <1>2, <1>8, <3>1, <3>2, SideFacts
  <2>4. /\ Sound(u, M, r, w) /\ SameRest(t, u)
        /\ \A x \in M : x \notin {g, p} => Color(u, x) = Color(t, x)
    BY <1>2, <1>3, <1>4, <1>5, <1>8, <2>1, <2>2, <2>3, LowerSound
  <2>5. Red(u, n)
    BY <1>2, <1>4, <2>4 DEF Red, Color
  <2>6. Repairing(u, M, r, w, n) /\ ~Red(u, Parent(u, n))
    BY <1>4, <2>4, <2>5, SoundRepaired
  <2>7. y = [t |-> u, n |-> n]
    BY <1>2, <1>3, <1>8, <2>1 DEF InsertRound
  <2> QED BY <2>4, <2>6, <2>7
<1> QED BY <1>6, <1>7, <1>8

LEMMA RunExists ==
  ASSUME NEW X, NEW step \in [X -> X], NEW x \in X, NEW n \in Nat
  PROVE  \E g : /\ g = [i \in 0 .. n |-> g[i]] /\ Runs(X, step, x, n, g) /\ g[0] = x
                /\ \A i \in 0 .. n : /\ g[i] \in X
                                     /\ i # 0 => i - 1 \in 0 .. n /\ g[i] = step[g[i - 1]]
<1>1. PICK g : Rounds(x, step, n, g)
  BY RoundsExist
<1>2. Runs(X, step, x, n, g)
  BY <1>1 DEF Runs, Rounds
<1>3. \A i \in 0 .. n : g[i] \in X
  BY <1>2, RunsStay
<1>4. g = [i \in 0 .. n |-> g[i]] /\ g[0] = x
  BY <1>1 DEF Rounds
<1>5. \A i \in 0 .. n : i # 0 => i - 1 \in 0 .. n /\ g[i] = step[g[i - 1]]
  BY <1>1 DEF Rounds
<1> QED BY <1>2, <1>3, <1>4, <1>5

-----------------------------------------------------------------------------
(* The loop of rb_insert_color. *)
InsertStates(o, M, r, w) ==
  {x \in [t : Trees, n : Node] : SameRest(o, x.t) /\ Repairing(x.t, M, r, w, x.n)}

Clashing(x) == Red(x.t, Parent(x.t, x.n))
ClashIn(X) == {x \in X : Clashing(x)}
RepairIn(X) == [x \in X |-> IF Clashing(x) THEN InsertRound(x) ELSE x]
RedsLeft(M, x) == IF Clashing(x) THEN Cardinality(Reds(x.t, M)) ELSE 0
RedsIn(M, X) == [x \in X |-> RedsLeft(M, x)]

LEMMA RedsCount ==
  ASSUME NEW t, NEW M, NEW r, NEW w, NEW n, Repairing(t, M, r, w, n)
  PROVE  /\ Cardinality(Reds(t, M)) \in Nat /\ Cardinality(Reds(t, M)) > 0
         /\ Cardinality(Reds(t, M)) <= Cardinality(Node)
<1>1. n \in M /\ Color(t, n) = RB_RED /\ IsFiniteSet(M) /\ M \subseteq Node /\ IsFiniteSet(Node)
  BY FormedFacts, RbTreeAssumption DEF Repairing, Red, Color
<1>2. Reds(t, M) \subseteq Node /\ Reds(t, M) # {}
  BY <1>1 DEF Reds
<1>3. IsFiniteSet(Reds(t, M)) /\ Cardinality(Reds(t, M)) <= Cardinality(Node)
  BY <1>1, <1>2, FS_Subset
<1>4. Cardinality(Reds(t, M)) \in Nat /\ Cardinality(Reds(t, M)) # 0
  BY <1>2, <1>3, FS_CardinalityType, FS_EmptySet
<1> QED BY <1>3, <1>4

LEMMA InsertRounds ==
  ASSUME NEW o, NEW M, NEW r, NEW w, NEW X, X = InsertStates(o, M, r, w)
  PROVE  /\ Shrinks(X, ClashIn(X), RepairIn(X), RedsIn(M, X))
         /\ \A x \in X : RedsIn(M, X)[x] <= Cardinality(Node)
<1>1. \A x \in X : /\ x \in [t : Trees, n : Node] /\ SameRest(o, x.t)
                   /\ Repairing(x.t, M, r, w, x.n)
  BY DEF InsertStates
<1>2. ASSUME NEW x \in X, Clashing(x)
      PROVE  /\ InsertRound(x) \in X
             /\ RedsLeft(M, InsertRound(x)) < RedsLeft(M, x)
  <2>1. PICK t, n : t = x.t /\ n = x.n /\ x = [t |-> t, n |-> n]
    BY <1>1
  <2>2. PICK y : y = InsertRound([t |-> t, n |-> n])
    OBVIOUS
  <2>3. Repairing(t, M, r, w, n) /\ Red(t, Parent(t, n)) /\ SameRest(o, t)
    BY <1>1, <1>2, <2>1 DEF Clashing
  <2>4. /\ Repairing(y.t, M, r, w, y.n) /\ SameRest(t, y.t)
        /\ Red(y.t, Parent(y.t, y.n)) => Cardinality(Reds(y.t, M)) < Cardinality(Reds(t, M))
    BY <2>2, <2>3, InsertRoundDoes
  <2>5. y = [t |-> y.t, n |-> y.n]
    BY <2>2 DEF InsertRound
  <2>6. y.t \in Trees /\ y.n \in Node
    BY <2>4, FormedFacts DEF Repairing
  <2>7. SameRest(o, y.t)
    BY <2>3, <2>4 DEF SameRest
  <2>8. y \in X
    BY <2>4, <2>5, <2>6, <2>7 DEF InsertStates
  <2>9. Cardinality(Reds(t, M)) > 0
    BY <2>3, RedsCount
  <2>10. RedsLeft(M, y) < RedsLeft(M, x)
    BY <1>2, <2>1, <2>4, <2>9 DEF RedsLeft, Clashing
  <2> QED BY <2>1, <2>2, <2>8, <2>10
<1>3. RepairIn(X) \in [X -> X]
  BY <1>2 DEF RepairIn
<1>4. ASSUME NEW x \in X PROVE RedsLeft(M, x) \in Nat /\ RedsLeft(M, x) <= Cardinality(Node)
  <2>1. Cardinality(Node) \in Nat
    BY RbTreeAssumption, FS_CardinalityType
  <2> QED BY <1>1, <2>1, RedsCount DEF RedsLeft
<1>5. RedsIn(M, X) \in [X -> Nat]
  BY <1>4 DEF RedsIn
<1>6. ASSUME NEW x \in X
      PROVE  IF x \in ClashIn(X) THEN RedsIn(M, X)[RepairIn(X)[x]] < RedsIn(M, X)[x]
             ELSE RepairIn(X)[x] = x
  <2>1. CASE Clashing(x)
    <3>1. RepairIn(X)[x] = InsertRound(x) /\ InsertRound(x) \in X
      BY <1>2, <2>1 DEF RepairIn
    <3>2. RedsIn(M, X)[InsertRound(x)] = RedsLeft(M, InsertRound(x))
          /\ RedsIn(M, X)[x] = RedsLeft(M, x)
      BY <3>1 DEF RedsIn
    <3> QED BY <1>2, <2>1, <3>1, <3>2 DEF ClashIn
  <2>2. CASE ~Clashing(x)
    BY <2>2 DEF ClashIn, RepairIn
  <2> QED BY <2>1, <2>2
<1> QED BY <1>3, <1>4, <1>5, <1>6 DEF Shrinks, RedsIn

(* With no clash but at the root, which becomes black, the tree is sound. *)
LEMMA RootBlack ==
  ASSUME NEW t, NEW M, NEW r, NEW w, Formed(t, M, r, w), Even(t, M),
         \A x \in M, d \in Side : Clash(t, x, d) => x = t.rb_node,
         NEW u, u = Paint(t, t.rb_node, RB_BLACK)
  PROVE  Sound(u, M, r, w) /\ SameRest(t, u)
<1>1. PICK b : Shape(t, M, r, b, w)
  BY DEF Formed
<1>2. PICK h : Heights(t, M, h, NIL, "left")
  BY DEF Even
<1>3. /\ t \in Trees /\ M \subseteq Node /\ NIL \notin M /\ Linked(t, M)
      /\ \A x \in M, d \in Side : Kid(t, x, d) \in M \cup {NIL}
  BY FormedFacts
<1>4. PICK q : q = t.rb_node /\ q \in M \cup {NIL}
  BY <1>3 DEF Linked
<1>5. CASE q = NIL
  <2>1. u = t
    BY <1>4, <1>5 DEF Paint
  <2>2. Calm(t, M)
    BY <1>3, <1>4, <1>5 DEF Calm
  <2> QED BY <1>4, <1>5, <2>1, <2>2 DEF Sound, SameRest, Red
<1>6. CASE q # NIL
  <2>1. q \in M /\ q \in Node /\ RB_BLACK \in Hue
    BY <1>3, <1>4, <1>6 DEF Hue
  <2>2. Painted(t, u, q, RB_BLACK)
    BY <1>3, <1>4, <2>1, PaintDoes, Zenon
  <2>3. u \in Trees /\ SameRest(t, u) /\ SameLinks(t, u)
        /\ \A x \in M : Color(u, x) = IF x = q THEN RB_BLACK ELSE Color(t, x)
    BY <1>3, <2>2 DEF Painted
  <2>4. Formed(u, M, r, w)
    BY <1>1, <2>3, SameLinksShape DEF Formed
  <2>5. \A x \in M \cup {NIL} : Red(u, x) => Red(t, x) /\ x # q
    BY <1>3, <1>4, <2>3 DEF Red, Color, RB_RED, RB_BLACK
  <2>6. /\ \A x \in M, d \in Side : Kid(u, x, d) = Kid(t, x, d) /\ Kid(t, x, d) # q
        /\ u.rb_node = q
    BY <1>3, <1>4, <2>1, <2>3 DEF SameLinks, Linked
  <2>7. Calm(u, M)
    BY <1>3, <1>4, <2>5, <2>6 DEF Calm, Clash
  <2>8. PICK k : k = [x \in M |-> IF x = q THEN h[q] + 1 - Blk(t, q) ELSE h[x]]
    OBVIOUS
  <2>9. \A x \in M : h[x] \in Int /\ h[x] >= 1 /\ Blk(t, x) \in {0, 1}
    BY <1>2 DEF Heights, Blk
  <2>10. \A x \in M : k[x] \in Int /\ k[x] >= 1
    BY <2>1, <2>8, <2>9
  <2>11. \A x \in M : Blk(u, x) = IF x = q THEN 1 ELSE Blk(t, x)
    BY <2>3 DEF Blk, RB_RED, RB_BLACK
  <2>12. ASSUME NEW x \in M, NEW d \in Side
         PROVE  k[x] = HH(k, Kid(u, x, d)) + Blk(u, x) + (IF x = NIL /\ d = "left" THEN 1 ELSE 0)
    <3>1. PICK e \in M \cup {NIL} : e = Kid(t, x, d) /\ e = Kid(u, x, d) /\ e # q
      BY <1>3, <2>6
    <3>2. HH(k, e) = HH(h, e) /\ HH(h, e) \in Int /\ x # NIL
      BY <1>2, <1>3, <2>8, <3>1, HeightTypes DEF HH
    <3>3. h[x] = HH(h, e) + Blk(t, x)
      <4>1. h[x] = HH(h, e) + Blk(t, x) + 0
        BY <1>2, <3>1, <3>2 DEF Heights
      <4> QED BY <2>9, <3>2, <4>1
    <3>4. CASE x = q
      <4>1. k[x] = h[x] + 1 - Blk(t, x) /\ Blk(u, x) = 1
        BY <2>8, <2>11, <3>4
      <4> QED BY <2>9, <3>1, <3>2, <3>3, <4>1
    <3>5. CASE x # q
      <4>1. k[x] = h[x] /\ Blk(u, x) = Blk(t, x)
        BY <2>8, <2>11, <3>5
      <4> QED BY <2>9, <3>1, <3>2, <3>3, <4>1
    <3> QED BY <3>4, <3>5
  <2>13. Heights(u, M, k, NIL, "left")
    BY <2>10, <2>12 DEF Heights
  <2>14. ~Red(u, u.rb_node)
    BY <2>1, <2>5, <2>6
  <2> QED BY <2>3, <2>4, <2>7, <2>13, <2>14 DEF Sound, Even
<1> QED BY <1>5, <1>6

InsertRun(t, n, g) ==
  g = [i \in 0 .. Cardinality(Node) |->
        IF i = 0 THEN [t |-> t, n |-> n]
        ELSE IF Red(g[i - 1].t, Parent(g[i - 1].t, g[i - 1].n))
             THEN InsertRound(g[i - 1]) ELSE g[i - 1]]

LEMMA InsertColorDoes ==
  ASSUME NEW t, NEW M, NEW r, NEW w, NEW n, Repairing(t, M, r, w, n),
         NEW u, u = rb_insert_color(t, n)
  PROVE  Sound(u, M, r, w) /\ SameRest(t, u)
<1>1. PICK N \in Nat : N = Cardinality(Node)
  BY RbTreeAssumption, FS_CardinalityType
<1>2. PICK X, x0 : X = InsertStates(t, M, r, w) /\ x0 = [t |-> t, n |-> n]
  OBVIOUS
<1>3. x0 \in X
  <2>1. t \in Trees /\ n \in Node
    BY FormedFacts DEF Repairing
  <2> QED BY <1>2, <2>1 DEF InsertStates, SameRest
<1>4. PICK step, m, C : step = RepairIn(X) /\ m = RedsIn(M, X) /\ C = ClashIn(X)
  OBVIOUS
<1>5. Shrinks(X, C, step, m) /\ m[x0] <= N /\ step \in [X -> X]
  BY <1>1, <1>2, <1>3, <1>4, InsertRounds DEF Shrinks
<1>6. \A x \in X : step[x] = IF Red(x.t, Parent(x.t, x.n)) THEN InsertRound(x) ELSE x
  BY <1>4 DEF RepairIn, Clashing
<1>7. \E g : InsertRun(t, n, g)
  <2>1. PICK g : /\ g = [i \in 0 .. N |-> g[i]] /\ g[0] = x0
                 /\ \A i \in 0 .. N : /\ g[i] \in X
                                      /\ i # 0 => i - 1 \in 0 .. N /\ g[i] = step[g[i - 1]]
    BY <1>1, <1>3, <1>5, RunExists
  <2>2. \A i \in 0 .. N :
          g[i] = IF i = 0 THEN [t |-> t, n |-> n]
                 ELSE IF Red(g[i - 1].t, Parent(g[i - 1].t, g[i - 1].n))
                      THEN InsertRound(g[i - 1]) ELSE g[i - 1]
    BY <1>2, <1>6, <2>1, Zenon
  <2> QED BY <1>1, <2>1, <2>2, Zenon DEF InsertRun
<1>8. PICK g : g = CHOOSE h : InsertRun(t, n, h)
  OBVIOUS
<1>9. InsertRun(t, n, g)
  BY <1>7, <1>8
<1>10. Runs(X, step, x0, N, g)
  <2>1. g[0] = x0
    BY <1>1, <1>2, <1>9 DEF InsertRun
  <2>2. ASSUME NEW i \in 0 .. N - 1, g[i] \in X PROVE g[i + 1] = step[g[i]]
    <3>1. i + 1 \in 0 .. N /\ i + 1 # 0 /\ (i + 1) - 1 = i
      OBVIOUS
    <3>2. g[i + 1] = IF Red(g[i].t, Parent(g[i].t, g[i].n)) THEN InsertRound(g[i]) ELSE g[i]
      BY <1>1, <1>9, <3>1 DEF InsertRun
    <3> QED BY <1>6, <2>2, <3>2, Zenon
  <2> QED BY <2>1, <2>2 DEF Runs
<1>11. PICK z : z = g[N]
  OBVIOUS
<1>12. z \in X /\ z \notin C
  BY <1>3, <1>5, <1>10, <1>11, LoopEnds
<1>13. Repairing(z.t, M, r, w, z.n) /\ SameRest(t, z.t) /\ ~Red(z.t, Parent(z.t, z.n))
  BY <1>2, <1>4, <1>12 DEF InsertStates, ClashIn, Clashing
<1>14. Calm(z.t, M)
  <2> SUFFICES ASSUME NEW x \in M, NEW d \in Side, Clash(z.t, x, d) PROVE FALSE
    BY DEF Calm
  <2>1. Kid(z.t, x, d) = z.n /\ z.n \in M
    BY <1>13 DEF Repairing
  <2>2. Parent(z.t, z.n) = x
    BY <1>13, <2>1, FormedFacts DEF Repairing, Linked
  <2> QED BY <1>13, <2>2 DEF Clash
<1>15. u = Paint(z.t, z.t.rb_node, RB_BLACK)
  BY <1>1, <1>8, <1>11, Zenon DEF rb_insert_color, Repeat, InsertRun
<1>16. Sound(u, M, r, w) /\ SameRest(z.t, u)
  BY <1>13, <1>14, <1>15, RootBlack DEF Repairing, Calm
<1> QED BY <1>13, <1>16 DEF SameRest

-----------------------------------------------------------------------------
(* rb_insert_node. *)
LEMMA HangRepairing ==
  ASSUME NEW t, NEW M, NEW r, NEW w, Sound(t, M, r, w), NEW n \in Node \ M,
         NEW p \in M \cup {NIL}, NEW d \in Side,
         IF p = NIL THEN M = {} ELSE Kid(t, p, d) = NIL,
         NEW u, Hung(t, u, n, p, d), NEW L, L = M \cup {n},
         NEW c, NEW v, Formed(u, L, c, v)
  PROVE  Repairing(u, L, c, v, n)
<1>1. PICK h : Heights(t, M, h, NIL, "left")
  BY DEF Sound, Even
<1>2. /\ M \subseteq Node /\ NIL \notin M /\ n # NIL /\ n \in L /\ p # n
      /\ t.rb_node \in M \cup {NIL} /\ (p = NIL => M = {})
      /\ \A x \in M, e \in Side : Kid(t, x, e) \in M \cup {NIL}
  BY RbTreeAssumption, FormedFacts DEF Sound, Linked
<1>3. /\ \A x \in M : Color(u, x) = Color(t, x)
      /\ \A x \in M, e \in Side : Kid(u, x, e) = IF x = p /\ e = d THEN n ELSE Kid(t, x, e)
      /\ Color(u, n) = RB_RED /\ \A e \in Side : Kid(u, n, e) = NIL
      /\ u.rb_node = IF p = NIL THEN n ELSE t.rb_node
  BY <1>2 DEF Hung
<1>4. \A x \in M \cup {NIL} : Red(u, x) <=> Red(t, x)
  BY <1>2, <1>3 DEF Red, Color
<1>5. Red(u, n) /\ ~Red(u, NIL)
  BY <1>2, <1>3 DEF Red, Color
<1>6. ASSUME NEW x \in L, NEW e \in Side, Clash(u, x, e) PROVE Kid(u, x, e) = n
  <2>1. CASE x = n
    BY <1>3, <1>5, <1>6, <2>1 DEF Clash
  <2>2. CASE x # n
    <3>1. x \in M
      BY <2>2
    <3> SUFFICES ASSUME Kid(u, x, e) # n PROVE FALSE
      OBVIOUS
    <3>2. Kid(u, x, e) = Kid(t, x, e) /\ Kid(t, x, e) \in M \cup {NIL}
      BY <1>2, <1>3, <3>1
    <3>3. Clash(t, x, e)
      BY <1>4, <1>6, <3>1, <3>2 DEF Clash
    <3> QED BY <3>1, <3>3 DEF Sound, Calm
  <2> QED BY <2>1, <2>2
<1>7. Red(u, u.rb_node) => u.rb_node = n
  BY <1>2, <1>3, <1>4 DEF Sound
<1>8. Even(u, L)
  <2>1. PICK k : k = [x \in L |-> IF x = n THEN 1 ELSE h[x]]
    OBVIOUS
  <2>2. \A x \in M : h[x] \in Int /\ h[x] >= 1 /\ Blk(t, x) = Blk(u, x)
    BY <1>1, <1>3 DEF Heights, Blk
  <2>3. \A x \in L : k[x] \in Int /\ k[x] >= 1
    BY <2>1, <2>2
  <2>4. Blk(u, n) = 0 /\ HH(k, NIL) = 1 /\ HH(h, NIL) = 1 /\ k[n] = 1 /\ HH(k, n) = 1
    BY <1>2, <1>3, <2>1 DEF Blk, HH
  <2>5. \A x \in M : k[x] = h[x] /\ HH(k, x) = HH(h, x)
    BY <1>2, <2>1 DEF HH
  <2>6. ASSUME NEW x \in L, NEW e \in Side
        PROVE  k[x] = HH(k, Kid(u, x, e)) + Blk(u, x) + (IF x = NIL /\ e = "left" THEN 1 ELSE 0)
    <3>1. x # NIL
      BY <1>2
    <3>2. CASE x = n
      BY <1>3, <2>4, <3>1, <3>2
    <3>3. CASE x # n
      <4>1. x \in M
        BY <3>3
      <4>2. h[x] = HH(h, Kid(t, x, e)) + Blk(t, x) + 0
        BY <1>1, <3>1, <4>1 DEF Heights
      <4>3. HH(k, Kid(u, x, e)) = HH(h, Kid(t, x, e))
        BY <1>2, <1>3, <2>4, <2>5, <4>1
      <4> QED BY <2>2, <2>5, <3>1, <4>1, <4>2, <4>3
    <3> QED BY <3>2, <3>3
  <2>7. Heights(u, L, k, NIL, "left")
    BY <2>3, <2>6 DEF Heights
  <2> QED BY <2>7 DEF Even
<1> QED BY <1>2, <1>5, <1>6, <1>7, <1>8 DEF Repairing

(* Only the cached ends or the count differ. *)
Kept(t, u) == u \in Trees /\ u.rb_node = t.rb_node /\ u.node = t.node /\ u.value = t.value

LEMMA KeptSound ==
  ASSUME NEW t, NEW M, NEW r, NEW w, Sound(t, M, r, w), NEW u, Kept(t, u)
  PROVE  Sound(u, M, r, w) /\ (Sorted(t, M, r) => Sorted(u, M, r))
<1>1. u.rb_node = t.rb_node /\ \A x : Color(u, x) = Color(t, x) /\ Parent(u, x) = Parent(t, x)
  BY DEF Kept, Color, Parent
<1>2. \A x, d : Kid(u, x, d) = Kid(t, x, d)
  BY DEF Kept, Kid
<1>3. \A x : (Red(u, x) <=> Red(t, x)) /\ Blk(u, x) = Blk(t, x)
  BY <1>1 DEF Red, Blk, Color
<1>4. Formed(u, M, r, w)
  <2>1. SameLinks(t, u) /\ u \in Trees
    BY <1>1, <1>2 DEF SameLinks, Kept
  <2> QED BY <2>1, SameLinksShape DEF Sound, Formed
<1>5. Even(u, M)
  BY <1>2, <1>3 DEF Sound, Even, Heights
<1>6. Calm(u, M) /\ ~Red(u, u.rb_node)
  BY <1>1, <1>2, <1>3 DEF Sound, Calm, Clash
<1>7. Sorted(t, M, r) => Sorted(u, M, r)
  BY DEF Kept, Sorted
<1> QED BY <1>4, <1>5, <1>6, <1>7 DEF Sound

EndsWith(t, v, n) ==
  [t EXCEPT !.last_node  = IF t.count = 0 \/ v >= t.value[@] THEN n ELSE @,
            !.first_node = IF t.count = 0 \/ v < t.value[@] THEN n ELSE @]

CountUp(t) == [t EXCEPT !.count = @ + 1]

EndsSet(t, u, v, n) ==
  /\ Kept(t, u) /\ u.count = t.count
  /\ u.last_node = IF t.count = 0 \/ v >= t.value[t.last_node] THEN n ELSE t.last_node
  /\ u.first_node = IF t.count = 0 \/ v < t.value[t.first_node] THEN n ELSE t.first_node

LEMMA EndsWithDoes ==
  ASSUME NEW t \in Trees, NEW n \in Node, NEW v, NEW u, u = EndsWith(t, v, n)
  PROVE  EndsSet(t, u, v, n)
<1>1. PICK l, f : /\ l = IF t.count = 0 \/ v >= t.value[t.last_node] THEN n ELSE t.last_node
                  /\ f = IF t.count = 0 \/ v < t.value[t.first_node] THEN n ELSE t.first_node
  OBVIOUS
<1>2. l \in Ptr /\ f \in Ptr
  BY <1>1, TreeFields DEF Ptr
<1>3. u = [t EXCEPT !.last_node = l, !.first_node = f]
  BY <1>1 DEF EndsWith
<1>4. /\ Kept(t, u) /\ u.count = t.count /\ u.last_node = l /\ u.first_node = f
  BY <1>2, <1>3 DEF Kept, Trees
<1> QED BY <1>1, <1>4, Zenon DEF EndsSet

LEMMA CountUpDoes ==
  ASSUME NEW t \in Trees, NEW u, u = CountUp(t)
  PROVE  /\ Kept(t, u) /\ u.count = t.count + 1
         /\ u.last_node = t.last_node /\ u.first_node = t.first_node
  BY DEF CountUp, Kept, Trees

Inserted(t, M, r, u, n, c) ==
  /\ u.count = t.count + 1 /\ u.value = t.value
  /\ u.last_node = IF t.count = 0 \/ t.value[n] >= t.value[t.last_node] THEN n ELSE t.last_node
  /\ u.first_node = IF t.count = 0 \/ t.value[n] < t.value[t.first_node] THEN n ELSE t.first_node
  /\ SameOrder(M, r, c)
  /\ \A y \in M : c[y] < c[n] <=> t.value[y] <= t.value[n]

LEMMA InsertNodeDoes ==
  ASSUME NEW t, NEW M, NEW r, NEW w, Sound(t, M, r, w), Sorted(t, M, r), NEW n \in Node \ M,
         NEW u, u = rb_insert_node(t, n)
  PROVE  \E c, v : Sound(u, M \cup {n}, c, v) /\ Inserted(t, M, r, u, n, c)
<1>1. PICK k, e : k = t.value[n] /\ e = EndsWith(t, k, n)
  OBVIOUS
<1>2. /\ t \in Trees /\ k \in Int /\ M \subseteq Node /\ NIL \notin M
      /\ n \in Node /\ n \notin M /\ n # NIL
  BY <1>1, RbTreeAssumption, FormedFacts DEF Sound, Trees
<1>3. /\ Kept(t, e) /\ e.count = t.count
      /\ e.last_node = IF t.count = 0 \/ k >= t.value[t.last_node] THEN n ELSE t.last_node
      /\ e.first_node = IF t.count = 0 \/ k < t.value[t.first_node] THEN n ELSE t.first_node
  <2>1. EndsSet(t, e, k, n)
    BY <1>1, <1>2, EndsWithDoes, Zenon
  <2> QED BY <2>1 DEF EndsSet
<1>4. Sound(e, M, r, w) /\ e \in Trees /\ e.value = t.value
  BY <1>3, KeptSound DEF Kept
<1>5. PICK p : p = InsertParent(t, k)
  OBVIOUS
<1>6. IsGap(t, M, r, k, p)
  <2>1. PICK b : Shape(t, M, r, b, w)
    BY DEF Sound, Formed
  <2> QED BY <1>2, <1>5, <2>1, GapFound, Zenon
<1>7. PICK d : d = Below(e, e.value[n], p) /\ d = Below(t, k, p)
  BY <1>1, <1>4 DEF Below
<1>8. PICK g : g = rb_link_node(e, n, p)
  OBVIOUS
<1>9. p \in M \cup {NIL} /\ p \in Ptr /\ n # p
  BY <1>2, <1>6 DEF IsGap, Ptr
<1>10. Hung(e, g, n, p, d) /\ d \in Side
  BY <1>4, <1>7, <1>8, <1>9, LinkDoes
<1>11. IF p = NIL THEN M = {} ELSE Kid(e, p, d) = NIL
  BY <1>3, <1>6, <1>7 DEF IsGap, Kept, Kid
<1>12. PICK c, a, v : /\ Shape(g, M \cup {n}, c, a, v)
                      /\ p # NIL => Grown(M, r, n, Gap(r, p, d), c)
  <2>1. PICK b : Shape(e, M, r, b, w)
    BY <1>4 DEF Sound, Formed
  <2> QED BY <1>9, <1>10, <1>11, <2>1, HangShape
<1>13. Repairing(g, M \cup {n}, c, v, n)
  <2>1. Formed(g, M \cup {n}, c, v)
    BY <1>12 DEF Formed
  <2> QED BY <1>4, <1>9, <1>10, <1>11, <2>1, HangRepairing
<1>14. PICK z : z = rb_insert_color(g, n)
  OBVIOUS
<1>15. Sound(z, M \cup {n}, c, v) /\ SameRest(g, z)
  BY <1>13, <1>14, InsertColorDoes, Zenon
<1>16. u = CountUp(z)
  BY <1>1, <1>5, <1>8, <1>14 DEF rb_insert_node, EndsWith, CountUp
<1>17. z \in Trees
  BY <1>15, FormedFacts DEF Sound
<1>18. /\ Kept(z, u) /\ u.count = z.count + 1
       /\ u.last_node = z.last_node /\ u.first_node = z.first_node
  BY <1>16, <1>17, CountUpDoes, Zenon
<1>19. Sound(u, M \cup {n}, c, v)
  BY <1>15, <1>18, KeptSound
<1>20. /\ z.count = t.count /\ z.value = t.value
       /\ z.last_node = e.last_node /\ z.first_node = e.first_node
  BY <1>3, <1>4, <1>10, <1>15 DEF SameRest, Hung
<1>21. SameOrder(M, r, c) /\ \A y \in M : c[y] < c[n] <=> t.value[y] <= k
  <2>1. CASE p = NIL
    BY <1>6, <2>1 DEF IsGap, SameOrder
  <2>2. CASE p # NIL
    <3>1. Grown(M, r, n, Gap(r, p, d), c)
      BY <1>12, <2>2
    <3>2. \A y \in M : t.value[y] <= k <=> 2 * r[y] < Gap(r, p, d)
      BY <1>6, <1>7, <2>2 DEF IsGap
    <3>3. \A y \in M : r[y] \in Int
      BY FormedFacts, ShapeTypes DEF Sound, Formed
    <3> QED BY <1>2, <3>1, <3>2, <3>3 DEF Grown, SameOrder
  <2> QED BY <2>1, <2>2
<1>22. u.count = t.count + 1 /\ u.value = t.value
       /\ u.last_node = e.last_node /\ u.first_node = e.first_node
  BY <1>18, <1>20 DEF Kept
<1>23. Inserted(t, M, r, u, n, c)
  BY <1>1, <1>3, <1>21, <1>22, Zenon DEF Inserted
<1> QED BY <1>19, <1>23

-----------------------------------------------------------------------------
(* rb_erase_color: the paths through n, the kid of p on side s, lack one   *)
(* black node, and nothing else is wrong.                                  *)
Short(t, M, r, w, n, p, s) ==
  /\ Formed(t, M, r, w) /\ Calm(t, M) /\ ~Red(t, t.rb_node)
  /\ p \in M /\ s \in Side /\ n = Kid(t, p, s) /\ ~Red(t, n)
  /\ \E h : Heights(t, M, h, p, s)

(* The sibling of n. *)
LEMMA Sibling ==
  ASSUME NEW t, NEW M, NEW r, NEW w, NEW n, NEW p, NEW s, Short(t, M, r, w, n, p, s),
         NEW o, o = Other(s), NEW q, q = Kid(t, p, o)
  PROVE  /\ q \in M /\ q # n /\ q # p /\ n # p /\ n \in M \cup {NIL}
         /\ \A d \in Side : Kid(t, q, d) \notin {p, q, n} \/ Kid(t, q, d) = NIL
         /\ \A d \in Side : Kid(t, q, d) # p /\ Kid(t, q, d) # q
         /\ s = SideOf(t, p, n) /\ o \in Side /\ o # s /\ Other(o) = s
         /\ \A d \in Side : d = s \/ d = o
<1>1. /\ t \in Trees /\ M \subseteq Node /\ NIL \notin M /\ NoLoops(t, M) /\ Linked(t, M)
      /\ \A x \in M, d \in Side : Kid(t, x, d) \in M \cup {NIL}
      /\ p \in M /\ s \in Side /\ n = Kid(t, p, s)
  BY FormedFacts DEF Short
<1>2. o \in Side /\ o # s /\ Other(o) = s /\ \A d \in Side : d = s \/ d = o
  BY <1>1, SideFacts
<1>3. PICK h : Heights(t, M, h, p, s)
  BY DEF Short
<1>4. q \in M
  <2>1. h[p] = HH(h, n) + Blk(t, p) + 1
    BY <1>1, <1>3 DEF Heights
  <2>2. h[p] = HH(h, q) + Blk(t, p) + 0
    BY <1>1, <1>2, <1>3 DEF Heights
  <2>3. n \in M \cup {NIL} /\ q \in M \cup {NIL}
    BY <1>1, <1>2
  <2>4. HH(h, n) \in Int /\ HH(h, n) >= 1 /\ HH(h, q) \in Int
    BY <1>1, <1>3, <2>3, HeightTypes
  <2>5. Blk(t, p) \in Int
    BY DEF Blk
  <2>6. HH(h, q) # 1
    BY <2>1, <2>2, <2>4, <2>5
  <2> QED BY <2>3, <2>6 DEF HH
<1>5. q # NIL
  BY <1>1, <1>4
<1>6. q # p /\ q # n /\ \A d \in Side : Kid(t, q, d) \notin {p, q}
  BY <1>1, <1>2, <1>5 DEF NoLoops
<1>7. n # p
  BY <1>1 DEF NoLoops
<1>8. ASSUME NEW d \in Side, Kid(t, q, d) # NIL PROVE Kid(t, q, d) # n
  <2>1. Parent(t, Kid(t, q, d)) = q
    BY <1>1, <1>4, <1>8 DEF Linked
  <2>2. n # NIL => Parent(t, n) = p
    BY <1>1 DEF Linked
  <2> QED BY <1>6, <1>8, <2>1, <2>2
<1>9. s = SideOf(t, p, n)
  BY <1>1, <1>2, <1>6 DEF SideOf, Side, Other
<1> QED BY <1>1, <1>2, <1>4, <1>6, <1>7, <1>8, <1>9

LEMMA NotRoot ==
  ASSUME NEW t, NEW M, Linked(t, M), NIL \notin M, NEW p \in M, NEW s \in Side
  PROVE  Kid(t, p, s) # t.rb_node
<1>1. CASE Kid(t, p, s) = NIL
  BY <1>1 DEF Linked
<1>2. CASE Kid(t, p, s) # NIL
  BY <1>2 DEF Linked
<1> QED BY <1>1, <1>2

(* LowerRed of a, whose kid b is red, changes no length of a path. *)
LEMMA LowerKeeps ==
  ASSUME NEW t, NEW M, NEW r, NEW w, Formed(t, M, r, w), Calm(t, M), ~Red(t, t.rb_node),
         NEW a \in M, NEW e \in Side, NEW b \in M, b = Kid(t, a, Other(e)), Red(t, b),
         ~Red(t, Kid(t, a, e)), NEW h, NEW dp, NEW ds, Heights(t, M, h, dp, ds),
         dp # b, dp = a => ds = e, NEW u, u = LowerRed(t, a, e)
  PROVE  /\ Formed(u, M, r, w) /\ Calm(u, M) /\ ~Red(u, u.rb_node) /\ SameRest(t, u)
         /\ \E g : Heights(u, M, g, dp, ds)
         /\ Lowered(t, u, M, a, e, b, Kid(t, b, e), Parent(t, a))
         /\ Red(u, a) /\ ~Red(u, b) /\ a # b
<1>1. PICK c : Shape(t, M, r, c, w)
  BY DEF Formed
<1>2. /\ t \in Trees /\ M \subseteq Node /\ NIL \notin M /\ NoLoops(t, M) /\ Linked(t, M) /\ b # NIL
      /\ \A x \in M, d \in Side : Kid(t, x, d) \in M \cup {NIL}
  BY FormedFacts
<1>3. PICK mid, p : mid = Kid(t, b, e) /\ p = Parent(t, a)
  OBVIOUS
<1>4. Lowered(t, u, M, a, e, b, mid, p) /\ SameRest(t, u) /\ Formed(u, M, r, w)
  BY <1>1, <1>2, <1>3, LowerDoes DEF Formed
<1>5. a # b
  BY <1>1, <1>2, <1>3, Corners DEF Corner
<1>6. Other(e) \in Side
  BY SideFacts
<1>7. ~Red(t, a) /\ ~Red(t, mid)
  BY <1>3, <1>6 DEF Calm, Clash
<1>8. \E g : Heights(u, M, g, dp, ds)
  BY <1>2, <1>3, <1>4, <1>5, <1>7, LowerHeights
<1>9. Calm(u, M)
  <2>1. \A x \in M, d \in Side : ~Clash(t, x, d)
    BY DEF Calm
  <2>2. \A x \in M, d \in Side : ~Clash(u, x, d)
    BY <1>2, <1>3, <1>4, <1>5, <1>7, <2>1, LowerClash
  <2> QED BY <2>2 DEF Calm
<1>10. \A x \in M : Color(u, x) = IF x = a THEN RB_RED ELSE IF x = b THEN RB_BLACK ELSE Color(t, x)
  BY <1>4 DEF Lowered
<1>11. Red(u, a) /\ ~Red(u, b)
  BY <1>2, <1>5, <1>10 DEF Red, Color, RB_RED, RB_BLACK
<1>12. ~Red(u, u.rb_node)
  <2>1. u.rb_node = IF p = NIL THEN b ELSE t.rb_node
    BY <1>4 DEF Lowered, TurnedLinks
  <2>2. CASE p = NIL
    BY <1>11, <2>1, <2>2
  <2>3. CASE p # NIL
    <3>1. u.rb_node = t.rb_node /\ t.rb_node # a /\ t.rb_node \in M \cup {NIL}
      BY <1>2, <1>3, <2>1, <2>3 DEF Linked
    <3> QED BY <1>2, <1>10, <1>11, <3>1 DEF Red, Color
  <2> QED BY <2>2, <2>3
<1> QED BY <1>3, <1>4, <1>5, <1>8, <1>9, <1>11, <1>12

(* A red sibling goes up. *)
LEMMA RaiseSibling ==
  ASSUME NEW t, NEW M, NEW r, NEW w, NEW n, NEW p, NEW s, Short(t, M, r, w, n, p, s),
         NEW o, o = Other(s), Red(t, Kid(t, p, o)), NEW u, u = LowerRed(t, p, s)
  PROVE  /\ Short(u, M, r, w, n, p, s) /\ SameRest(t, u)
         /\ ~Red(u, Kid(u, p, o)) /\ Red(u, p)
<1>1. PICK q : q = Kid(t, p, o)
  OBVIOUS
<1>2. /\ q \in M /\ q # n /\ q # p /\ n # p /\ n \in M \cup {NIL} /\ o \in Side /\ o # s
      /\ \A d \in Side : Kid(t, q, d) # p /\ Kid(t, q, d) # q
  BY <1>1, Sibling
<1>3. /\ Formed(t, M, r, w) /\ Calm(t, M) /\ ~Red(t, t.rb_node)
      /\ p \in M /\ s \in Side /\ n = Kid(t, p, s) /\ ~Red(t, n) /\ Red(t, q) /\ q = Kid(t, p, Other(s))
  BY <1>1 DEF Short
<1>4. PICK h : Heights(t, M, h, p, s)
  BY DEF Short
<1>5. PICK mid, f : mid = Kid(t, q, s) /\ f = Parent(t, p)
  OBVIOUS
<1>6. /\ Formed(u, M, r, w) /\ Calm(u, M) /\ ~Red(u, u.rb_node) /\ SameRest(t, u)
      /\ \E g : Heights(u, M, g, p, s)
      /\ Lowered(t, u, M, p, s, q, mid, f)
      /\ Red(u, p) /\ ~Red(u, q)
  BY <1>2, <1>3, <1>4, <1>5, LowerKeeps
<1>7. KidAfter(t, u, p, s, q, mid, f, p, s) /\ KidAfter(t, u, p, s, q, mid, f, p, o)
  BY <1>2, <1>3, <1>6 DEF Lowered, TurnedLinks
<1>8. Kid(u, p, s) = n /\ Kid(u, p, o) = mid
  <2>1. Kid(u, p, s) = Kid(t, p, s)
    BY <1>1, <1>2, <1>3, <1>7 DEF KidAfter
  <2>2. Kid(u, p, o) = mid
    BY <1>1, <1>2, <1>3, <1>7 DEF KidAfter
  <2> QED BY <1>3, <2>1, <2>2
<1>9. NIL \notin M /\ mid \in M \cup {NIL} /\ mid \notin {p, q}
  BY <1>2, <1>3, <1>5, FormedFacts
<1>10. \A x \in M \cup {NIL} : x \notin {p, q} => (Red(u, x) <=> Red(t, x))
  BY <1>6, <1>9 DEF Lowered, Red, Color
<1>11. ~Red(t, mid)
  BY <1>2, <1>3, <1>5 DEF Calm, Clash
<1>12. ~Red(u, n) /\ ~Red(u, mid)
  BY <1>2, <1>3, <1>9, <1>10, <1>11
<1> QED BY <1>3, <1>6, <1>8, <1>12 DEF Short

(* The near kid of the sibling goes up. *)
LEMMA RaiseNephew ==
  ASSUME NEW t, NEW M, NEW r, NEW w, NEW n, NEW p, NEW s, Short(t, M, r, w, n, p, s),
         NEW o, o = Other(s), NEW q, q = Kid(t, p, o), ~Red(t, q),
         ~Red(t, Kid(t, q, o)), NEW k, k = Kid(t, q, s), Red(t, k), NEW u, u = LowerRed(t, q, o)
  PROVE  /\ Short(u, M, r, w, n, p, s) /\ SameRest(t, u)
         /\ Kid(u, p, o) = k /\ ~Red(u, k) /\ Red(u, Kid(u, k, o))
<1>1. /\ q \in M /\ q # n /\ q # p /\ n # p /\ n \in M \cup {NIL}
      /\ \A d \in Side : Kid(t, q, d) # p /\ Kid(t, q, d) # q
      /\ \A d \in Side : Kid(t, q, d) \notin {p, q, n} \/ Kid(t, q, d) = NIL
      /\ o \in Side /\ o # s /\ Other(o) = s
  BY Sibling
<1>2. /\ Formed(t, M, r, w) /\ Calm(t, M) /\ ~Red(t, t.rb_node)
      /\ p \in M /\ s \in Side /\ n = Kid(t, p, s) /\ ~Red(t, n)
  BY DEF Short
<1>3. PICK h : Heights(t, M, h, p, s)
  BY DEF Short
<1>4. /\ NIL \notin M /\ Linked(t, M) /\ \A x \in M, d \in Side : Kid(t, x, d) \in M \cup {NIL}
  BY <1>2, FormedFacts
<1>5. k # NIL /\ k \in M /\ k # p /\ k # q /\ k # n
  <2>1. k # NIL
    BY DEF Red
  <2>2. k \in M
    BY <1>1, <1>2, <1>4, <2>1
  <2> QED BY <1>1, <1>2, <2>1, <2>2
<1>6. PICK mid, f : mid = Kid(t, k, o) /\ f = Parent(t, q)
  OBVIOUS
<1>7. f = p
  BY <1>1, <1>2, <1>4, <1>6 DEF Linked
<1>8. /\ Formed(u, M, r, w) /\ Calm(u, M) /\ ~Red(u, u.rb_node) /\ SameRest(t, u)
      /\ \E g : Heights(u, M, g, p, s)
      /\ Lowered(t, u, M, q, o, k, mid, f)
      /\ Red(u, q) /\ ~Red(u, k)
  <2>1. k = Kid(t, q, Other(o)) /\ p # k /\ (p = q => s = o)
    BY <1>1, <1>5
  <2> QED BY <1>1, <1>2, <1>3, <1>5, <1>6, <2>1, LowerKeeps
<1>9. /\ KidAfter(t, u, q, o, k, mid, f, p, s) /\ KidAfter(t, u, q, o, k, mid, f, p, o)
      /\ KidAfter(t, u, q, o, k, mid, f, k, o)
  BY <1>1, <1>2, <1>5, <1>8 DEF Lowered, TurnedLinks
<1>10. Kid(u, p, s) = n
  BY <1>1, <1>2, <1>5, <1>9 DEF KidAfter
<1>11. Kid(u, p, o) = k
  BY <1>1, <1>2, <1>5, <1>9 DEF KidAfter
<1>12. Kid(u, k, o) = q
  BY <1>1, <1>2, <1>5, <1>9 DEF KidAfter
<1>13. \A x \in M \cup {NIL} : x \notin {q, k} => (Red(u, x) <=> Red(t, x))
  BY <1>4, <1>8 DEF Lowered, Red, Color
<1>14. ~Red(u, n)
  BY <1>1, <1>2, <1>5, <1>13
<1> QED BY <1>2, <1>8, <1>10, <1>11, <1>12, <1>14 DEF Short

(* What the loop keeps: n lacks one black node, p being its parent, unless *)
(* it is the root, and may be in a clash, which a black n ends.            *)
Lacking(t, M, r, w, n, p) ==
  /\ Formed(t, M, r, w) /\ n \in M \cup {NIL}
  /\ \/ n = t.rb_node /\ Even(t, M)
     \/ n # t.rb_node /\ p \in M /\ \E s \in Side : n = Kid(t, p, s) /\ \E h : Heights(t, M, h, p, s)
  /\ \A x \in M, d \in Side : Clash(t, x, d) => Kid(t, x, d) = n \/ x = n
  /\ Red(t, t.rb_node) => t.rb_node = n

Blacks(t, M) == {x \in M : ~Red(t, x)}

LEMMA LackingShort ==
  ASSUME NEW t, NEW M, NEW r, NEW w, NEW n, NEW p, Lacking(t, M, r, w, n, p),
         ~Red(t, n), n # t.rb_node
  PROVE  \E s : Short(t, M, r, w, n, p, s)
<1>1. PICK s \in Side : n = Kid(t, p, s) /\ p \in M /\ \E h : Heights(t, M, h, p, s)
  BY DEF Lacking
<1>2. Formed(t, M, r, w) /\ Calm(t, M) /\ ~Red(t, t.rb_node)
  BY DEF Lacking, Calm, Clash
<1>3. Short(t, M, r, w, n, p, s)
  BY <1>1, <1>2 DEF Short
<1> QED BY <1>3

(* A sibling with no red kid becomes red. *)
PaleBounds(h, p, q, x) == IF x \in {p, q} THEN h[x] - 1 ELSE h[x]

LEMMA PaleSibling ==
  ASSUME NEW t, NEW M, NEW r, NEW w, NEW n, NEW p, NEW s, Short(t, M, r, w, n, p, s),
         NEW o, o = Other(s), NEW q, q = Kid(t, p, o), ~Red(t, q),
         \A d \in Side : ~Red(t, Kid(t, q, d)), NEW u, u = Paint(t, q, RB_RED)
  PROVE  /\ Lacking(u, M, r, w, p, Parent(t, p)) /\ SameRest(t, u)
         /\ Blacks(u, M) = Blacks(t, M) \ {q} /\ q \in Blacks(t, M)
         /\ Red(t, p) => Red(u, p)
<1>1. /\ q \in M /\ q # n /\ q # p /\ n # p /\ n \in M \cup {NIL}
      /\ \A d \in Side : Kid(t, q, d) # p /\ Kid(t, q, d) # q
      /\ o \in Side /\ o # s /\ Other(o) = s /\ \A d \in Side : d = s \/ d = o
  BY Sibling
<1>2. /\ Formed(t, M, r, w) /\ Calm(t, M) /\ ~Red(t, t.rb_node)
      /\ p \in M /\ s \in Side /\ n = Kid(t, p, s) /\ ~Red(t, n)
  BY DEF Short
<1>3. PICK h : Heights(t, M, h, p, s)
  BY DEF Short
<1>4. /\ t \in Trees /\ M \subseteq Node /\ NIL \notin M /\ Linked(t, M) /\ NoLoops(t, M)
      /\ \A x \in M, d \in Side : Kid(t, x, d) \in M \cup {NIL}
  BY <1>2, FormedFacts
<1>5. Painted(t, u, q, RB_RED)
  <2>1. q \in Node /\ RB_RED \in Hue
    BY <1>1, <1>4 DEF Hue
  <2> QED BY <1>4, <2>1, PaintDoes, Zenon
<1>6. u \in Trees /\ SameRest(t, u) /\ SameLinks(t, u)
      /\ \A x \in M : Color(u, x) = IF x = q THEN RB_RED ELSE Color(t, x)
  BY <1>4, <1>5 DEF Painted
<1>7. /\ u.rb_node = t.rb_node /\ \A x \in M : Parent(u, x) = Parent(t, x)
      /\ \A x \in M, d \in Side : Kid(u, x, d) = Kid(t, x, d)
  BY <1>4, <1>6 DEF SameLinks
<1>8. \A x \in M \cup {NIL} : Red(u, x) <=> Red(t, x) \/ x = q
  BY <1>1, <1>4, <1>6 DEF Red, Color
<1>9. Formed(u, M, r, w)
  <2>1. PICK b : Shape(t, M, r, b, w)
    BY <1>2 DEF Formed
  <2> QED BY <1>6, <2>1, SameLinksShape DEF Formed
<1>10. t.rb_node # q
  BY <1>1, <1>2, <1>4, NotRoot
<1>11. ~Red(u, u.rb_node)
  <2>1. t.rb_node \in M \cup {NIL}
    BY <1>4 DEF Linked
  <2> QED BY <1>2, <1>7, <1>8, <1>10, <2>1
<1>12. ASSUME NEW x \in M, NEW d \in Side, Clash(u, x, d) PROVE Kid(u, x, d) = p \/ x = p
  <2>1. PICK k \in M \cup {NIL} : k = Kid(t, x, d) /\ k = Kid(u, x, d)
    BY <1>4, <1>7
  <2>2. ~(Red(t, x) /\ Red(t, k)) /\ Red(u, x) /\ Red(u, k)
    BY <1>2, <1>12, <2>1 DEF Calm, Clash
  <2>3. x = q \/ k = q
    BY <1>8, <2>1, <2>2
  <2>4. CASE k = q
    <3>1. q # NIL /\ Kid(t, x, d) = q /\ Kid(t, p, o) = q
      BY <1>1, <1>4, <2>1, <2>4
    <3>2. Parent(t, Kid(t, x, d)) = x
      BY <1>4, <3>1 DEF Linked
    <3>3. Parent(t, Kid(t, p, o)) = p
      BY <1>1, <1>2, <1>4, <3>1 DEF Linked
    <3> QED BY <3>1, <3>2, <3>3
  <2>5. CASE x = q
    <3>1. ~Red(t, k) /\ k # q
      BY <1>1, <2>1, <2>5
    <3> QED BY <1>8, <2>1, <2>2, <3>1
  <2> QED BY <2>3, <2>4, <2>5
<1>13. PICK g : g = [x \in M |-> PaleBounds(h, p, q, x)]
  OBVIOUS
<1>14. /\ \A x \in M : g[x] = IF x \in {p, q} THEN h[x] - 1 ELSE h[x]
       /\ \A x \in M \cup {NIL} : HH(g, x) = IF x \in {p, q} THEN HH(h, x) - 1 ELSE HH(h, x)
  <2>1. \A x \in M : g[x] = IF x \in {p, q} THEN h[x] - 1 ELSE h[x]
    BY <1>13 DEF PaleBounds
  <2>2. p # NIL /\ q # NIL
    BY <1>1, <1>2, <1>4
  <2> QED BY <1>4, <2>1, <2>2 DEF HH
<1>15. \A x \in M : Blk(u, x) = IF x = q THEN 0 ELSE Blk(t, x)
  BY <1>6 DEF Blk
<1>16. Blk(t, q) = 1 /\ \A x \in M : Blk(t, x) \in Int
  <2>1. Blk(t, q) = 1
    BY <1>1, <1>4 DEF Blk, Red, Color
  <2> QED BY <2>1 DEF Blk
<1>17. /\ \A k \in M \cup {NIL} : HH(h, k) \in Int /\ HH(h, k) >= 1
       /\ \A x \in M : h[x] \in Int /\ h[x] >= 1
  <2>1. \A k \in M \cup {NIL} : HH(h, k) \in Int /\ HH(h, k) >= 1
    BY <1>3, <1>4, HeightTypes
  <2> QED BY <1>3, <2>1 DEF Heights
<1>18. \A x \in M, d \in Side : HH(h, Kid(t, x, d)) \in Int /\ HH(h, Kid(t, x, d)) >= 1
  BY <1>4, <1>17
<1>19. h[p] = HH(h, n) + Blk(t, p) + 1 /\ h[p] = HH(h, q) + Blk(t, p)
  <2>1. h[p] = HH(h, n) + Blk(t, p) + 1
    BY <1>2, <1>3 DEF Heights
  <2>2. h[p] = HH(h, q) + Blk(t, p) + 0
    BY <1>1, <1>2, <1>3 DEF Heights
  <2> QED BY <1>1, <1>2, <1>16, <1>17, <2>1, <2>2
<1>20. \A d \in Side : h[q] = HH(h, Kid(t, q, d)) + 1
  <2> TAKE d \in Side
  <2>1. h[q] = HH(h, Kid(t, q, d)) + Blk(t, q) + 0
    BY <1>1, <1>3 DEF Heights
  <2> QED BY <1>1, <1>16, <1>18, <2>1
<1>21. \A x \in M : g[x] \in Int /\ g[x] >= 1
  <2>1. h[q] - 1 >= 1
    BY <1>1, <1>2, <1>18, <1>20
  <2>2. h[p] - 1 >= 1
    <3>1. Blk(t, p) \in {0, 1}
      BY DEF Blk
    <3> QED BY <1>1, <1>17, <1>19, <2>1, <3>1 DEF HH
  <2> QED BY <1>1, <1>2, <1>14, <1>17, <2>1, <2>2
<1>22. ASSUME NEW x \in M, NEW d \in Side
       PROVE  g[x] = HH(g, Kid(u, x, d)) + Blk(u, x) + (IF Kid(t, x, d) = p THEN 1 ELSE 0)
  <2>1. PICK k \in M \cup {NIL} : k = Kid(t, x, d) /\ k = Kid(u, x, d)
    BY <1>4, <1>7
  <2>2. HH(h, k) \in Int /\ h[x] \in Int /\ Blk(t, x) \in Int
    BY <1>16, <1>17
  <2>3. CASE x = p
    <3>1. k = IF d = s THEN n ELSE q
      BY <1>1, <1>2, <2>1, <2>3
    <3>2. g[p] = h[p] - 1 /\ Blk(u, p) = Blk(t, p) /\ k # p /\ n \notin {p, q}
      BY <1>1, <1>2, <1>14, <1>15, <3>1
    <3>3. CASE k = n
      <4>1. HH(g, k) = HH(h, n)
        BY <1>1, <1>14, <3>2, <3>3
      <4> QED BY <1>19, <2>1, <2>2, <2>3, <3>2, <3>3, <4>1
    <3>4. CASE k = q
      <4>1. HH(g, k) = HH(h, q) - 1
        BY <1>1, <1>14, <3>4
      <4> QED BY <1>19, <2>1, <2>2, <2>3, <3>2, <3>4, <4>1
    <3> QED BY <3>1, <3>3, <3>4
  <2>4. CASE x = q
    <3>1. k # p /\ k # q
      BY <1>1, <2>1, <2>4
    <3>2. HH(g, k) = HH(h, k) /\ g[q] = h[q] - 1 /\ Blk(u, q) = 0
      BY <1>1, <1>14, <1>15, <2>1, <3>1
    <3>3. h[q] = HH(h, k) + 1
      BY <1>20, <2>1, <2>4
    <3> QED BY <2>1, <2>2, <2>4, <3>1, <3>2, <3>3
  <2>5. CASE x \notin {p, q}
    <3>1. k # q
      <4>1. Parent(t, q) = p
        BY <1>1, <1>2, <1>4 DEF Linked
      <4>2. k # NIL => Parent(t, k) = x
        BY <1>4, <2>1, ZenonT(40) DEF Linked
      <4> QED BY <1>1, <1>4, <2>5, <4>1, <4>2
    <3>2. h[x] = HH(h, k) + Blk(t, x) + 0
      BY <1>3, <2>1, <2>5 DEF Heights
    <3>3. g[x] = h[x] /\ Blk(u, x) = Blk(t, x) /\ HH(g, k) = IF k = p THEN HH(h, k) - 1 ELSE HH(h, k)
      BY <1>14, <1>15, <2>1, <2>5, <3>1
    <3> QED BY <2>1, <2>2, <3>2, <3>3
  <2> QED BY <2>3, <2>4, <2>5
<1>23. \/ p = u.rb_node /\ Even(u, M)
       \/ p # u.rb_node /\ Parent(t, p) \in M
            /\ \E e \in Side : p = Kid(u, Parent(t, p), e) /\ \E k : Heights(u, M, k, Parent(t, p), e)
  <2>1. CASE p = t.rb_node
    <3>1. \A x \in M, d \in Side : Kid(t, x, d) # p
      BY <1>4, <2>1, NotRoot
    <3>2. Heights(u, M, g, NIL, "left")
      BY <1>4, <1>21, <1>22, <3>1 DEF Heights
    <3> QED BY <1>7, <2>1, <3>2 DEF Even
  <2>2. CASE p # t.rb_node
    <3>1. PICK f \in M, e \in Side : f = Parent(t, p) /\ Kid(t, f, e) = p
      BY <1>2, <1>4, <2>2 DEF Linked
    <3>2. ASSUME NEW x \in M, NEW d \in Side PROVE Kid(t, x, d) = p <=> x = f /\ d = e
      <4>1. p # NIL
        BY <1>2, <1>4
      <4>2. Kid(t, x, d) = p => x = f
        BY <1>4, <3>1, <4>1 DEF Linked
      <4>3. Kid(t, f, Other(e)) # p
        BY <1>4, <3>1, <4>1 DEF NoLoops
      <4> QED BY <3>1, <4>2, <4>3, SideFacts
    <3>3. Heights(u, M, g, f, e)
      BY <1>21, <1>22, <3>2 DEF Heights
    <3> QED BY <1>7, <2>2, <3>1, <3>3
  <2> QED BY <2>1, <2>2
<1>24. Lacking(u, M, r, w, p, Parent(t, p))
  BY <1>2, <1>9, <1>11, <1>12, <1>23 DEF Lacking
<1>25. Blacks(u, M) = Blacks(t, M) \ {q} /\ q \in Blacks(t, M)
  BY <1>1, <1>8 DEF Blacks
<1> QED BY <1>2, <1>6, <1>8, <1>24, <1>25

(* The rotation that ends the repairs after a removal: q, the sibling of   *)
(* n, goes up in the colour of p, with a red far kid z.                    *)
Colored(t, u, M, p, q, z) ==
  \A x \in M : Color(u, x) = IF x = q THEN Color(t, p)
                             ELSE IF x \in {p, z} THEN RB_BLACK ELSE Color(t, x)

LEMMA LastTurnDoes ==
  ASSUME NEW t, NEW M, NEW r, NEW w, NEW n, NEW p, NEW s, Short(t, M, r, w, n, p, s),
         NEW o, o = Other(s), NEW q, q = Kid(t, p, o), NEW z, z = Kid(t, q, o), Red(t, z),
         NEW v, v = Paint(Paint(Paint(t, q, Color(t, p)), p, RB_BLACK), z, RB_BLACK),
         NEW u, u = rb_rotate(v, p, s), NEW mid, mid = Kid(t, q, s), NEW f, f = Parent(t, p)
  PROVE  /\ Formed(u, M, r, w) /\ SameRest(t, u) /\ Colored(t, u, M, p, q, z)
         /\ TurnedLinks(t, u, M, p, s, q, mid, f)
         /\ z \in M /\ z \notin {p, q, n, mid} /\ mid \in M \cup {NIL} /\ mid \notin {p, q}
<1>1. /\ q \in M /\ q # n /\ q # p /\ n # p /\ n \in M \cup {NIL}
      /\ \A d \in Side : Kid(t, q, d) # p /\ Kid(t, q, d) # q
      /\ \A d \in Side : Kid(t, q, d) \notin {p, q, n} \/ Kid(t, q, d) = NIL
      /\ o \in Side /\ o # s /\ Other(o) = s
  BY Sibling
<1>2. Formed(t, M, r, w) /\ p \in M /\ s \in Side /\ n = Kid(t, p, s)
  BY DEF Short
<1>3. /\ t \in Trees /\ M \subseteq Node /\ NIL \notin M /\ Linked(t, M) /\ NoLoops(t, M)
      /\ \A x \in M, d \in Side : Kid(t, x, d) \in M \cup {NIL}
  BY <1>2, FormedFacts
<1>4. z \in M /\ z \notin {p, q, n, mid} /\ mid \in M \cup {NIL} /\ mid \notin {p, q}
  <2>1. z # NIL
    BY DEF Red
  <2>2. z \in M /\ z \notin {p, q, n} /\ mid \in M \cup {NIL} /\ mid \notin {p, q}
    BY <1>1, <1>2, <1>3, <2>1
  <2>3. z # mid
    BY <1>1, <1>3, <2>1 DEF NoLoops
  <2> QED BY <2>2, <2>3
<1>5. PICK c \in Hue : c = Color(t, p)
  BY <1>2, <1>3, TreeFields
<1>6. /\ RB_BLACK \in Hue /\ p \in Node /\ q \in Node /\ z \in Node /\ q # NIL
  BY <1>1, <1>2, <1>3, <1>4 DEF Hue
<1>7. PICK v1 : v1 = Paint(t, q, c)
  OBVIOUS
<1>8. Painted(t, v1, q, c)
  BY <1>3, <1>6, <1>7, PaintDoes, Zenon
<1>9. v1 \in Trees
  BY <1>8 DEF Painted
<1>10. PICK v2 : v2 = Paint(v1, p, RB_BLACK)
  OBVIOUS
<1>11. Painted(v1, v2, p, RB_BLACK)
  BY <1>6, <1>9, <1>10, PaintDoes, Zenon
<1>12. v2 \in Trees
  BY <1>11 DEF Painted
<1>13. Painted(v2, v, z, RB_BLACK)
  <2>1. v = Paint(v2, z, RB_BLACK)
    BY <1>5, <1>7, <1>10
  <2> QED BY <1>6, <1>12, <2>1, PaintDoes, Zenon
<1>14. v \in Trees /\ SameLinks(t, v) /\ SameRest(t, v) /\ SameLinks(v, t)
  BY <1>8, <1>11, <1>13 DEF Painted, SameLinks, SameRest
<1>15. PICK b : Shape(t, M, r, b, w)
  BY <1>2 DEF Formed
<1>16. Shape(v, M, r, b, w)
  BY <1>14, <1>15, SameLinksShape
<1>17. Corner(t, M, p, s, q, mid, f)
  BY <1>1, <1>2, <1>6, <1>15, Corners, SMTT(30)
<1>18. Corner(v, M, p, s, q, mid, f)
  <2>1. q = Kid(v, p, Other(s)) /\ mid = Kid(v, q, s) /\ f = Parent(v, p)
    BY <1>1, <1>2, <1>6, <1>14 DEF SameLinks
  <2> QED BY <1>2, <1>6, <1>16, <2>1, Corners
<1>19. Turned(v, u, p, s, q, mid, f)
  BY <1>18, Turns, Zenon
<1>20. \E a : Shape(u, M, r, a, w)
  BY <1>16, <1>18, <1>19, TurnShape, Zenon
<1>21. TurnedLinks(t, u, M, p, s, q, mid, f)
  BY <1>3, <1>14, <1>17, <1>19, TurnLinks, Zenon
<1>22. SameRest(t, u)
  BY <1>14, <1>19 DEF Turned, SameRest
<1>23. Colored(t, u, M, p, q, z)
  <2> SUFFICES ASSUME NEW x \in M
               PROVE  Color(u, x) = IF x = q THEN c
                                    ELSE IF x \in {p, z} THEN RB_BLACK ELSE Color(t, x)
    BY <1>5 DEF Colored
  <2>1. x \in Node
    BY <1>3
  <2>2. Color(u, x) = Color(v, x)
    BY <1>19, <2>1 DEF Turned
  <2>3. Color(v, x) = IF x = z THEN RB_BLACK ELSE Color(v2, x)
    BY <1>13, <2>1 DEF Painted
  <2>4. Color(v2, x) = IF x = p THEN RB_BLACK ELSE Color(v1, x)
    BY <1>11, <2>1 DEF Painted
  <2>5. Color(v1, x) = IF x = q THEN c ELSE Color(t, x)
    BY <1>8, <2>1 DEF Painted
  <2> QED BY <1>1, <1>4, <2>2, <2>3, <2>4, <2>5
<1> QED BY <1>4, <1>20, <1>21, <1>22, <1>23 DEF Formed

LastBounds(h, p, q, z, c, x) ==
  IF x = p THEN h[p] - c ELSE IF x = q THEN h[p] ELSE IF x = z THEN h[z] + 1 ELSE h[x]

LEMMA LastTurn ==
  ASSUME NEW t, NEW M, NEW r, NEW w, NEW n, NEW p, NEW s, Short(t, M, r, w, n, p, s),
         NEW o, o = Other(s), NEW q, q = Kid(t, p, o), ~Red(t, q),
         NEW z, z = Kid(t, q, o), Red(t, z),
         NEW v, v = Paint(Paint(Paint(t, q, Color(t, p)), p, RB_BLACK), z, RB_BLACK),
         NEW u, u = rb_rotate(v, p, s)
  PROVE  Sound(u, M, r, w) /\ SameRest(t, u)
<1>1. /\ q \in M /\ q # n /\ q # p /\ n # p /\ n \in M \cup {NIL}
      /\ o \in Side /\ o # s /\ Other(o) = s /\ \A d \in Side : d = s \/ d = o
  BY Sibling
<1>2. /\ Formed(t, M, r, w) /\ p \in M /\ s \in Side /\ n = Kid(t, p, s) /\ Calm(t, M)
      /\ ~Red(t, t.rb_node)
  BY DEF Short
<1>3. /\ NIL \notin M /\ Linked(t, M)
      /\ \A x \in M, d \in Side : Kid(t, x, d) \in M \cup {NIL}
  BY <1>2, FormedFacts
<1>4. PICK h : Heights(t, M, h, p, s)
  BY DEF Short
<1>5. PICK mid, f : mid = Kid(t, q, s) /\ f = Parent(t, p)
  OBVIOUS
<1>6. /\ Formed(u, M, r, w) /\ SameRest(t, u) /\ Colored(t, u, M, p, q, z)
      /\ TurnedLinks(t, u, M, p, s, q, mid, f)
      /\ z \in M /\ z \notin {p, q, n, mid} /\ mid \in M \cup {NIL} /\ mid \notin {p, q}
  BY <1>5, LastTurnDoes
<1>7. /\ u.rb_node = IF f = NIL THEN q ELSE t.rb_node
      /\ \A x \in M, d \in Side : KidAfter(t, u, p, s, q, mid, f, x, d)
  BY <1>6 DEF TurnedLinks
<1>8. /\ Color(u, q) = Color(t, p) /\ Color(u, p) = RB_BLACK /\ Color(u, z) = RB_BLACK
      /\ \A x \in M : x \notin {p, q, z} => Color(u, x) = Color(t, x)
  BY <1>1, <1>2, <1>6, SMTT(30) DEF Colored
<1>9. ~Red(u, p) /\ ~Red(u, z) /\ (Red(u, q) <=> Red(t, p))
      /\ \A x \in M \cup {NIL} : x \notin {p, q, z} => (Red(u, x) <=> Red(t, x))
  BY <1>1, <1>2, <1>3, <1>6, <1>8 DEF Red, Color, RB_RED, RB_BLACK
<1>10. PICK cp \in {0, 1} : cp = Blk(t, p)
  BY SMTT(30) DEF Blk
<1>11. /\ Blk(u, q) = cp /\ Blk(u, p) = 1 /\ Blk(u, z) = 1 /\ Blk(t, z) = 0 /\ Blk(t, q) = 1
       /\ \A x \in M : Blk(t, x) \in Int /\ (x \notin {p, q, z} => Blk(u, x) = Blk(t, x))
  BY <1>1, <1>3, <1>6, <1>8, <1>10 DEF Blk, Red, Color, RB_RED, RB_BLACK
<1>12. \A k \in M \cup {NIL} : HH(h, k) \in Int /\ HH(h, k) >= 1
  BY <1>3, <1>4, HeightTypes
<1>13. \A x \in M : h[x] \in Int /\ h[x] >= 1 /\ h[x] = HH(h, x)
  BY <1>3, <1>4 DEF Heights, HH
<1>14. /\ h[p] = HH(h, n) + cp + 1 /\ h[p] = h[q] + cp
       /\ h[q] = HH(h, mid) + 1 /\ h[q] = h[z] + 1
  <2>1. h[p] = HH(h, n) + cp + 1
    BY <1>2, <1>4, <1>10 DEF Heights
  <2>2. h[p] = HH(h, q) + cp + 0
    BY <1>1, <1>2, <1>4, <1>10 DEF Heights
  <2>3. h[q] = HH(h, mid) + 1 + 0
    BY <1>1, <1>2, <1>4, <1>5, <1>11 DEF Heights
  <2>4. h[q] = HH(h, z) + 1 + 0
    BY <1>1, <1>4, <1>11 DEF Heights
  <2> QED BY <1>1, <1>2, <1>6, <1>12, <1>13, <2>1, <2>2, <2>3, <2>4
<1>15. PICK g : g = [x \in M |-> LastBounds(h, p, q, z, cp, x)]
  OBVIOUS
<1>16. /\ g[p] = h[p] - cp /\ g[q] = h[p] /\ g[z] = h[z] + 1
       /\ \A x \in M : x \notin {p, q, z} => g[x] = h[x]
  BY <1>1, <1>2, <1>6, <1>15 DEF LastBounds
<1>17. /\ HH(g, p) = h[p] - cp /\ HH(g, q) = h[p] /\ HH(g, z) = h[z] + 1
       /\ \A x \in M \cup {NIL} : x \notin {p, q, z} => HH(g, x) = HH(h, x)
  BY <1>1, <1>2, <1>3, <1>6, <1>16 DEF HH
<1>18. \A x \in M : g[x] \in Int /\ g[x] >= 1
  <2>1. h[p] - cp \in Int /\ h[p] - cp >= 1 /\ h[p] \in Int /\ h[p] >= 1
    BY <1>1, <1>2, <1>13, <1>14
  <2> QED BY <1>13, <1>16, <2>1
<1>19. \A x \in M, d \in Side : x # q => Kid(t, x, d) # z
  <2>1. z # NIL
    BY <1>3, <1>6
  <2>2. Parent(t, Kid(t, q, o)) = q
    BY <1>1, <1>3, <2>1 DEF Linked
  <2>3. \A x \in M, d \in Side : Kid(t, x, d) # NIL => Parent(t, Kid(t, x, d)) = x
    BY <1>3 DEF Linked
  <2> QED BY <2>1, <2>2, <2>3
<1>20. ASSUME NEW x \in M, NEW d \in Side
       PROVE  g[x] = HH(g, Kid(u, x, d)) + Blk(u, x) + (IF x = NIL /\ d = "left" THEN 1 ELSE 0)
  <2>0. KidAfter(t, u, p, s, q, mid, f, x, d) /\ x # NIL
    BY <1>3, <1>7
  <2>1. CASE x = p
    <3>1. Kid(u, x, d) \in {n, mid}
      BY <1>1, <1>2, <2>0, <2>1 DEF KidAfter
    <3>2. HH(g, Kid(u, x, d)) = h[q] - 1
      <4>1. HH(g, n) = HH(h, n) /\ HH(g, mid) = HH(h, mid)
        BY <1>1, <1>6, <1>17
      <4>2. HH(h, n) = h[q] - 1 /\ HH(h, mid) = h[q] - 1
        BY <1>1, <1>6, <1>12, <1>13, <1>14
      <4> QED BY <3>1, <4>1, <4>2
    <3> QED BY <1>1, <1>2, <1>11, <1>13, <1>14, <1>16, <2>0, <2>1, <3>2
  <2>2. CASE x = q /\ d = s
    <3>1. Kid(u, x, d) = p
      BY <1>1, <2>0, <2>2 DEF KidAfter
    <3> QED BY <1>2, <1>11, <1>13, <1>16, <1>17, <2>0, <2>2, <3>1
  <2>3. CASE x = q /\ d = o
    <3>1. Kid(u, x, d) = z
      BY <1>1, <2>0, <2>3 DEF KidAfter
    <3> QED BY <1>1, <1>2, <1>6, <1>11, <1>13, <1>14, <1>16, <1>17, <2>0, <2>3, <3>1
  <2>4. CASE x \notin {p, q}
    <3>1. h[x] = HH(h, Kid(t, x, d)) + Blk(t, x) + 0
      BY <1>4, <2>4 DEF Heights
    <3>2. HH(g, Kid(u, x, d)) = HH(h, Kid(t, x, d))
      <4>1. CASE Kid(t, x, d) = p /\ Kid(u, x, d) = q
        BY <1>2, <1>13, <1>17, <4>1
      <4>2. CASE Kid(u, x, d) = Kid(t, x, d) /\ Kid(t, x, d) \notin {p, q}
        BY <1>3, <1>17, <1>19, <2>4, <4>2
      <4> QED BY <2>0, <2>4, <4>1, <4>2 DEF KidAfter
    <3>3. HH(h, Kid(t, x, d)) \in Int
      BY <1>3, <1>12
    <3>4. CASE x = z
      BY <1>11, <1>13, <1>16, <2>0, <3>1, <3>2, <3>3, <3>4
    <3>5. CASE x # z
      BY <1>11, <1>13, <1>16, <2>0, <2>4, <3>1, <3>2, <3>3, <3>5
    <3> QED BY <3>4, <3>5
  <2> QED BY <1>1, <2>1, <2>2, <2>3, <2>4
<1>21. Even(u, M)
  <2>1. Heights(u, M, g, NIL, "left")
    BY <1>18, <1>20 DEF Heights
  <2> QED BY <2>1 DEF Even
<1>22. ASSUME NEW x \in M, NEW d \in Side PROVE ~Clash(u, x, d)
  <2>0. KidAfter(t, u, p, s, q, mid, f, x, d) /\ ~Clash(t, x, d)
    BY <1>2, <1>7 DEF Calm
  <2>1. CASE x = p
    BY <1>9, <2>1 DEF Clash
  <2>2. CASE x = q
    <3>1. Kid(u, x, d) \in {p, z}
      BY <1>1, <2>0, <2>2 DEF KidAfter
    <3> QED BY <1>9, <3>1 DEF Clash
  <2>3. CASE x \notin {p, q} /\ Kid(t, x, d) = p /\ Kid(u, x, d) = q
    <3>1. x = z \/ (Red(u, x) <=> Red(t, x))
      BY <1>9, <2>3
    <3> QED BY <1>9, <2>0, <2>3, <3>1 DEF Clash
  <2>4. CASE x \notin {p, q} /\ Kid(u, x, d) = Kid(t, x, d) /\ Kid(t, x, d) \notin {p, q}
    <3>1. Red(u, x) => Red(t, x)
      BY <1>9, <2>4
    <3>2. Kid(t, x, d) \in M \cup {NIL} /\ Kid(t, x, d) # z
      BY <1>3, <1>19, <2>4
    <3>3. Red(u, Kid(u, x, d)) => Red(t, Kid(t, x, d))
      BY <1>9, <2>4, <3>2
    <3> QED BY <2>0, <3>1, <3>3 DEF Clash
  <2> QED BY <2>0, <2>1, <2>2, <2>3, <2>4 DEF KidAfter
<1>23. ~Red(u, u.rb_node)
  <2>1. CASE f = NIL
    <3>0. Parent(t, p) = NIL <=> p = t.rb_node
      BY <1>2, <1>3 DEF Linked
    <3>1. t.rb_node = p
      BY <1>5, <2>1, <3>0
    <3> QED BY <1>2, <1>7, <1>9, <2>1, <3>1
  <2>2. CASE f # NIL
    <3>1. u.rb_node = t.rb_node /\ t.rb_node # p /\ t.rb_node \in M \cup {NIL}
      BY <1>2, <1>3, <1>5, <1>7, <2>2 DEF Linked
    <3>2. t.rb_node # q
      BY <1>1, <1>2, <1>3, NotRoot
    <3> QED BY <1>2, <1>9, <3>1, <3>2
  <2> QED BY <2>1, <2>2
<1>24. Calm(u, M)
  BY <1>22 DEF Calm
<1> QED BY <1>6, <1>21, <1>23, <1>24 DEF Sound

LEMMA RaisedSibling ==
  ASSUME NEW t, NEW M, NEW r, NEW w, NEW n, NEW p, NEW s, Short(t, M, r, w, n, p, s),
         NEW o, o = Other(s),
         NEW u, u = IF Red(t, Kid(t, p, o)) THEN LowerRed(t, p, s) ELSE t
  PROVE  /\ Short(u, M, r, w, n, p, s) /\ SameRest(t, u) /\ ~Red(u, Kid(u, p, o))
         /\ u = t \/ Red(u, p)
<1>1. CASE Red(t, Kid(t, p, o))
  BY <1>1, RaiseSibling
<1>2. CASE ~Red(t, Kid(t, p, o))
  BY <1>2 DEF SameRest
<1> QED BY <1>1, <1>2

LEMMA RaisedNephew ==
  ASSUME NEW t, NEW M, NEW r, NEW w, NEW n, NEW p, NEW s, Short(t, M, r, w, n, p, s),
         NEW o, o = Other(s), NEW q, q = Kid(t, p, o), ~Red(t, q),
         Red(t, Kid(t, q, "left")) \/ Red(t, Kid(t, q, "right")),
         NEW u, u = IF Red(t, Kid(t, q, o)) THEN t ELSE LowerRed(t, q, o)
  PROVE  /\ Short(u, M, r, w, n, p, s) /\ SameRest(t, u) /\ ~Red(u, Kid(u, p, o))
         /\ Red(u, Kid(u, Kid(u, p, o), o))
<1>1. CASE Red(t, Kid(t, q, o))
  BY <1>1 DEF SameRest
<1>2. CASE ~Red(t, Kid(t, q, o))
  <2>1. s \in Side
    BY DEF Short
  <2>2. Red(t, Kid(t, q, s))
    BY <1>2, <2>1 DEF Side, Other
  <2>3. u = LowerRed(t, q, o)
    BY <1>2
  <2>4. PICK k : k = Kid(t, q, s)
    OBVIOUS
  <2>5. /\ Short(u, M, r, w, n, p, s) /\ SameRest(t, u)
        /\ Kid(u, p, o) = k /\ ~Red(u, k) /\ Red(u, Kid(u, k, o))
    BY <1>2, <2>2, <2>3, <2>4, RaiseNephew, SMTT(30)
  <2> QED BY <2>5
<1> QED BY <1>1, <1>2

MoreBlack(t, x) == ~Red(t, x) /\ x # t.rb_node

(* The round with a red kid of the sibling, step by step. *)
RoundParts(t, n, p, s, o, t1, w1, t2, w2, v) ==
  /\ s = SideOf(t, p, n) /\ o = Other(s)
  /\ t1 = IF Red(t, Kid(t, p, o)) THEN LowerRed(t, p, s) ELSE t
  /\ w1 = Kid(t1, p, o)
  /\ Red(t1, Kid(t1, w1, "left")) \/ Red(t1, Kid(t1, w1, "right"))
  /\ t2 = IF Red(t1, Kid(t1, w1, o)) THEN t1 ELSE LowerRed(t1, w1, o)
  /\ w2 = Kid(t2, p, o)
  /\ v = Paint(Paint(Paint(t2, w2, t2.node[p].color), p, RB_BLACK), Kid(t2, w2, o), RB_BLACK)

TurnEnds(y, v, p, s) ==
  y = [t |-> rb_rotate(v, p, s), n |-> rb_rotate(v, p, s).rb_node, p |-> p]

LEMMA RoundSteps ==
  ASSUME NEW t, NEW n, NEW p, NEW s, s = SideOf(t, p, n), NEW o, o = Other(s),
         NEW t1, t1 = IF Red(t, Kid(t, p, o)) THEN LowerRed(t, p, s) ELSE t,
         NEW w1, w1 = Kid(t1, p, o),
         Red(t1, Kid(t1, w1, "left")) \/ Red(t1, Kid(t1, w1, "right")),
         NEW t2, t2 = IF Red(t1, Kid(t1, w1, o)) THEN t1 ELSE LowerRed(t1, w1, o),
         NEW w2, w2 = Kid(t2, p, o),
         NEW v, v = Paint(Paint(Paint(t2, w2, t2.node[p].color), p, RB_BLACK),
                          Kid(t2, w2, o), RB_BLACK),
         NEW x, x = [t |-> t, n |-> n, p |-> p]
  PROVE  TurnEnds(EraseRound(x), v, p, s)
<1>1. x.t = t /\ x.n = n /\ x.p = p
  OBVIOUS
<1>2. EraseRound(x) = [t |-> rb_rotate(v, p, s), n |-> rb_rotate(v, p, s).rb_node, p |-> p]
  BY <1>1, ZenonT(60) DEF EraseRound
<1> QED BY <1>2 DEF TurnEnds

LEMMA RoundIs ==
  ASSUME NEW t, NEW n, NEW p, NEW s, NEW o, NEW t1, NEW w1, NEW t2, NEW w2, NEW v,
         RoundParts(t, n, p, s, o, t1, w1, t2, w2, v),
         NEW y, y = EraseRound([t |-> t, n |-> n, p |-> p])
  PROVE  TurnEnds(y, v, p, s)
<1>1. PICK x : x = [t |-> t, n |-> n, p |-> p]
  OBVIOUS
<1>2. TurnEnds(EraseRound(x), v, p, s)
  BY <1>1, RoundSteps DEF RoundParts
<1> QED BY <1>1, <1>2

LEMMA EraseRoundDoes ==
  ASSUME NEW t, NEW M, NEW r, NEW w, NEW n, NEW p, Lacking(t, M, r, w, n, p), MoreBlack(t, n),
         NEW y, y = EraseRound([t |-> t, n |-> n, p |-> p])
  PROVE  /\ Lacking(y.t, M, r, w, y.n, y.p) /\ SameRest(t, y.t)
         /\ y = [t |-> y.t, n |-> y.n, p |-> y.p] /\ y.p \in M \cup {NIL}
         /\ MoreBlack(y.t, y.n) => \E q \in Blacks(t, M) : Blacks(y.t, M) = Blacks(t, M) \ {q}
<1>1. PICK s : Short(t, M, r, w, n, p, s)
  BY LackingShort DEF MoreBlack
<1>2. PICK o : o = Other(s)
  OBVIOUS
<1>3. s = SideOf(t, p, n) /\ p \in M /\ s \in Side /\ o \in Side
  <2>1. PICK q : q = Kid(t, p, o)
    OBVIOUS
  <2>2. s = SideOf(t, p, n) /\ o \in Side
    BY <1>1, <1>2, <2>1, Sibling
  <2> QED BY <1>1, <2>2 DEF Short
<1>4. PICK t1 : t1 = IF Red(t, Kid(t, p, o)) THEN LowerRed(t, p, s) ELSE t
  OBVIOUS
<1>5. /\ Short(t1, M, r, w, n, p, s) /\ SameRest(t, t1) /\ ~Red(t1, Kid(t1, p, o))
      /\ t1 = t \/ Red(t1, p)
  BY <1>1, <1>2, <1>4, RaisedSibling
<1>6. PICK w1 : w1 = Kid(t1, p, o)
  OBVIOUS
<1>7. CASE ~Red(t1, Kid(t1, w1, "left")) /\ ~Red(t1, Kid(t1, w1, "right"))
  <2>1. PICK u : u = Paint(t1, w1, RB_RED)
    OBVIOUS
  <2>2. y = [t |-> u, n |-> p, p |-> Parent(t1, p)]
    BY <1>2, <1>3, <1>4, <1>6, <1>7, <2>1, ZenonT(40) DEF EraseRound
  <2>3. \A d \in Side : ~Red(t1, Kid(t1, w1, d))
    BY <1>7 DEF Side
  <2>4. /\ Lacking(u, M, r, w, p, Parent(t1, p)) /\ SameRest(t1, u)
        /\ Blacks(u, M) = Blacks(t1, M) \ {w1} /\ w1 \in Blacks(t1, M)
        /\ Red(t1, p) => Red(u, p)
    BY <1>2, <1>5, <1>6, <2>1, <2>3, PaleSibling
  <2>5. SameRest(t, u)
    BY <1>5, <2>4 DEF SameRest
  <2>6. Parent(t1, p) \in M \cup {NIL}
    BY <1>3, <1>5, FormedFacts DEF Short
  <2>7. MoreBlack(u, p) => \E q \in Blacks(t, M) : Blacks(u, M) = Blacks(t, M) \ {q}
    BY <1>5, <2>4 DEF MoreBlack
  <2> QED BY <2>2, <2>4, <2>5, <2>6, <2>7
<1>8. CASE ~(~Red(t1, Kid(t1, w1, "left")) /\ ~Red(t1, Kid(t1, w1, "right")))
  <2>1. PICK t2 : t2 = IF Red(t1, Kid(t1, w1, o)) THEN t1 ELSE LowerRed(t1, w1, o)
    OBVIOUS
  <2>2. /\ Short(t2, M, r, w, n, p, s) /\ SameRest(t1, t2) /\ ~Red(t2, Kid(t2, p, o))
        /\ Red(t2, Kid(t2, Kid(t2, p, o), o))
    BY <1>2, <1>5, <1>6, <1>8, <2>1, RaisedNephew
  <2>3. PICK w2, z : w2 = Kid(t2, p, o) /\ z = Kid(t2, w2, o)
    OBVIOUS
  <2>4. PICK t3 : t3 = Paint(Paint(Paint(t2, w2, Color(t2, p)), p, RB_BLACK), z, RB_BLACK)
    OBVIOUS
  <2>5. PICK u : u = rb_rotate(t3, p, s)
    OBVIOUS
  <2>6. Sound(u, M, r, w) /\ SameRest(t2, u)
    BY <1>2, <2>2, <2>3, <2>4, <2>5, LastTurn
  <2>7. t3 = Paint(Paint(Paint(t2, w2, t2.node[p].color), p, RB_BLACK), Kid(t2, w2, o), RB_BLACK)
    BY <2>3, <2>4 DEF Color
  <2>8. y = [t |-> u, n |-> u.rb_node, p |-> p]
    <3>1. PICK v : v = Paint(Paint(Paint(t2, w2, t2.node[p].color), p, RB_BLACK), Kid(t2, w2, o), RB_BLACK)
      OBVIOUS
    <3>2. y = [t |-> rb_rotate(v, p, s), n |-> rb_rotate(v, p, s).rb_node, p |-> p]
      <4>1. RoundParts(t, n, p, s, o, t1, w1, t2, w2, v)
        BY <1>2, <1>3, <1>4, <1>6, <1>8, <2>1, <2>3, <3>1 DEF RoundParts
      <4>2. TurnEnds(y, v, p, s)
        BY <4>1, RoundIs, Zenon
      <4> QED BY <4>2, SMTT(30) DEF TurnEnds
    <3>3. v = t3
      BY <2>7, <3>1
    <3> QED BY <2>5, <3>2, <3>3
  <2>9. u.rb_node \in M \cup {NIL}
    BY <2>6, FormedFacts DEF Sound, Linked
  <2>10. Lacking(u, M, r, w, u.rb_node, p)
    BY <2>6, <2>9 DEF Sound, Lacking, Calm
  <2>11. SameRest(t, u)
    BY <1>5, <2>2, <2>6 DEF SameRest
  <2>12. ~MoreBlack(u, u.rb_node)
    BY DEF MoreBlack
  <2> QED BY <1>3, <2>8, <2>10, <2>11, <2>12
<1> QED BY <1>7, <1>8

(* A red node that lacks one black becomes black. *)
LEMMA KidBlack ==
  ASSUME NEW t, NEW M, NEW r, NEW w, NEW n, NEW p, Lacking(t, M, r, w, n, p),
         Red(t, n), n # t.rb_node, NEW u, u = Paint(t, n, RB_BLACK)
  PROVE  Sound(u, M, r, w) /\ SameRest(t, u)
<1>1. PICK s, h : s \in Side /\ n = Kid(t, p, s) /\ p \in M /\ Heights(t, M, h, p, s)
  BY DEF Lacking
<1>2. Formed(t, M, r, w) /\ n \in M /\ ~Red(t, t.rb_node)
  BY DEF Lacking, Red
<1>3. /\ t \in Trees /\ M \subseteq Node /\ NIL \notin M /\ Linked(t, M) /\ NoLoops(t, M)
      /\ \A x \in M, d \in Side : Kid(t, x, d) \in M \cup {NIL}
  BY <1>2, FormedFacts
<1>4. Painted(t, u, n, RB_BLACK)
  <2>1. n \in Node /\ RB_BLACK \in Hue
    BY <1>2, <1>3 DEF Hue
  <2> QED BY <1>3, <2>1, PaintDoes, Zenon
<1>5. u \in Trees /\ SameRest(t, u) /\ SameLinks(t, u)
      /\ \A x \in M : Color(u, x) = IF x = n THEN RB_BLACK ELSE Color(t, x)
  BY <1>3, <1>4 DEF Painted
<1>6. /\ u.rb_node = t.rb_node /\ t.rb_node \in M \cup {NIL}
      /\ \A x \in M, d \in Side : Kid(u, x, d) = Kid(t, x, d)
  BY <1>3, <1>5 DEF SameLinks, Linked
<1>7. \A x \in M \cup {NIL} : Red(u, x) => Red(t, x) /\ x # n
  BY <1>2, <1>3, <1>5 DEF Red, Color, RB_RED, RB_BLACK
<1>8. Formed(u, M, r, w)
  <2>1. PICK b : Shape(t, M, r, b, w)
    BY <1>2 DEF Formed
  <2> QED BY <1>5, <2>1, SameLinksShape DEF Formed
<1>9. Calm(u, M)
  <2> SUFFICES ASSUME NEW x \in M, NEW d \in Side, Clash(u, x, d) PROVE FALSE
    BY DEF Calm
  <2>1. Red(t, x) /\ x # n /\ Kid(t, x, d) # n /\ Red(t, Kid(t, x, d))
    BY <1>3, <1>6, <1>7 DEF Clash
  <2> QED BY <2>1 DEF Lacking, Clash
<1>10. ~Red(u, u.rb_node)
  BY <1>2, <1>6, <1>7
<1>11. PICK g : g = [x \in M |-> IF x = n THEN h[x] + 1 ELSE h[x]]
  OBVIOUS
<1>12. /\ \A x \in M : g[x] = IF x = n THEN h[x] + 1 ELSE h[x]
       /\ \A k \in M \cup {NIL} : HH(g, k) = IF k = n THEN HH(h, k) + 1 ELSE HH(h, k)
  <2>1. \A x \in M : g[x] = IF x = n THEN h[x] + 1 ELSE h[x]
    BY <1>11
  <2> QED BY <1>2, <1>3, <2>1 DEF HH
<1>13. Blk(t, n) = 0 /\ Blk(u, n) = 1 /\ \A x \in M : Blk(t, x) \in Int /\ (x # n => Blk(u, x) = Blk(t, x))
  BY <1>2, <1>3, <1>5 DEF Blk, Red, Color, RB_RED, RB_BLACK
<1>14. \A k \in M \cup {NIL} : HH(h, k) \in Int
  BY <1>1, <1>3, HeightTypes
<1>15. \A x \in M : h[x] \in Int /\ h[x] >= 1
  BY <1>1 DEF Heights
<1>16. \A x \in M : g[x] \in Int /\ g[x] >= 1
  BY <1>12, <1>15
<1>17. ASSUME NEW x \in M, NEW d \in Side
       PROVE  g[x] = HH(g, Kid(u, x, d)) + Blk(u, x) + (IF x = NIL /\ d = "left" THEN 1 ELSE 0)
  <2>1. PICK k \in M \cup {NIL} : k = Kid(t, x, d) /\ k = Kid(u, x, d)
    BY <1>3, <1>6
  <2>2. h[x] = HH(h, k) + Blk(t, x) + (IF x = p /\ d = s THEN 1 ELSE 0)
    BY <1>1, <2>1 DEF Heights
  <2>3. k = n <=> x = p /\ d = s
    <3>1. n # NIL
      BY <1>2, <1>3
    <3>2. k = n => x = p
      <4>1. Parent(t, Kid(t, p, s)) = p
        BY <1>1, <1>3, <3>1 DEF Linked
      <4>2. k = n => Parent(t, Kid(t, x, d)) = x
        BY <1>3, <2>1, <3>1 DEF Linked
      <4> QED BY <1>1, <2>1, <4>1, <4>2
    <3>3. Kid(t, p, Other(s)) # n
      BY <1>1, <1>3, <3>1 DEF NoLoops
    <3> QED BY <1>1, <2>1, <3>2, <3>3, SideFacts
  <2>4. HH(h, k) \in Int /\ Blk(t, x) \in Int /\ h[x] \in Int /\ x # NIL
    BY <1>3, <1>13, <1>14, <1>15, <2>1
  <2>5. CASE x = n
    <3>1. k # n
      <4>1. n # NIL /\ Kid(t, n, d) = k
        BY <1>2, <1>3, <2>1, <2>5
      <4>2. Kid(t, n, d) # NIL => Kid(t, n, d) # n
        BY <1>2, <1>3 DEF NoLoops
      <4> QED BY <4>1, <4>2
    <3>2. g[x] = h[x] + 1 /\ Blk(u, x) = 1 /\ Blk(t, x) = 0 /\ HH(g, k) = HH(h, k)
      BY <1>12, <1>13, <2>1, <2>5, <3>1
    <3>3. h[x] = HH(h, k) + 0
      BY <2>2, <2>3, <2>4, <3>1, <3>2
    <3> QED BY <2>1, <2>4, <3>2, <3>3
  <2>6. CASE x # n
    <3>1. g[x] = h[x] /\ Blk(u, x) = Blk(t, x) /\ HH(g, k) = IF k = n THEN HH(h, k) + 1 ELSE HH(h, k)
      BY <1>12, <1>13, <2>1, <2>6
    <3> QED BY <2>1, <2>2, <2>3, <2>4, <3>1
  <2> QED BY <2>5, <2>6
<1>18. Even(u, M)
  <2>1. Heights(u, M, g, NIL, "left")
    BY <1>16, <1>17 DEF Heights
  <2> QED BY <2>1 DEF Even
<1> QED BY <1>5, <1>8, <1>9, <1>10, <1>18 DEF Sound

(* The loop of rb_erase_color. *)
EraseStates(o, M, r, w) ==
  {x \in [t : Trees, n : Ptr, p : Ptr] : SameRest(o, x.t) /\ Lacking(x.t, M, r, w, x.n, x.p)}

LackIn(X) == {x \in X : MoreBlack(x.t, x.n)}
EraseIn(X) == [x \in X |-> IF MoreBlack(x.t, x.n) THEN EraseRound(x) ELSE x]
BlacksLeft(M, x) == IF MoreBlack(x.t, x.n) THEN Cardinality(Blacks(x.t, M)) ELSE 0
BlacksIn(M, X) == [x \in X |-> BlacksLeft(M, x)]

LEMMA BlacksCount ==
  ASSUME NEW t, NEW M, NEW r, NEW w, NEW n, NEW p, Lacking(t, M, r, w, n, p)
  PROVE  /\ Cardinality(Blacks(t, M)) \in Nat /\ Cardinality(Blacks(t, M)) <= Cardinality(Node)
         /\ IsFiniteSet(Blacks(t, M))
         /\ MoreBlack(t, n) => Cardinality(Blacks(t, M)) > 0
<1>1. IsFiniteSet(Node) /\ M \subseteq Node /\ Linked(t, M) /\ NIL \notin M
  BY FormedFacts, RbTreeAssumption DEF Lacking
<1>2. Blacks(t, M) \subseteq Node
  BY <1>1 DEF Blacks
<1>3. IsFiniteSet(Blacks(t, M)) /\ Cardinality(Blacks(t, M)) <= Cardinality(Node)
  BY <1>1, <1>2, FS_Subset
<1>4. MoreBlack(t, n) => t.rb_node \in Blacks(t, M)
  <2> SUFFICES ASSUME MoreBlack(t, n) PROVE t.rb_node \in Blacks(t, M)
    OBVIOUS
  <2>1. p \in M /\ n # t.rb_node /\ ~Red(t, t.rb_node)
    BY DEF Lacking, MoreBlack
  <2>2. t.rb_node \in M
    BY <1>1, <2>1 DEF Linked
  <2> QED BY <2>1, <2>2 DEF Blacks
<1>5. Cardinality(Blacks(t, M)) \in Nat /\ (MoreBlack(t, n) => Cardinality(Blacks(t, M)) # 0)
  BY <1>3, <1>4, FS_CardinalityType, FS_EmptySet
<1> QED BY <1>3, <1>5

LEMMA EraseRounds ==
  ASSUME NEW o, NEW M, NEW r, NEW w, NEW X, X = EraseStates(o, M, r, w)
  PROVE  /\ Shrinks(X, LackIn(X), EraseIn(X), BlacksIn(M, X))
         /\ \A x \in X : BlacksIn(M, X)[x] <= Cardinality(Node)
<1>1. \A x \in X : /\ x \in [t : Trees, n : Ptr, p : Ptr] /\ SameRest(o, x.t)
                   /\ Lacking(x.t, M, r, w, x.n, x.p)
  BY DEF EraseStates
<1>2. ASSUME NEW x \in X, MoreBlack(x.t, x.n)
      PROVE  /\ EraseRound(x) \in X
             /\ BlacksLeft(M, EraseRound(x)) < BlacksLeft(M, x)
  <2>1. PICK t, n, p : t = x.t /\ n = x.n /\ p = x.p /\ x = [t |-> t, n |-> n, p |-> p]
    BY <1>1
  <2>2. PICK y : y = EraseRound([t |-> t, n |-> n, p |-> p])
    OBVIOUS
  <2>3. Lacking(t, M, r, w, n, p) /\ MoreBlack(t, n) /\ SameRest(o, t)
    BY <1>1, <1>2, <2>1
  <2>4. /\ Lacking(y.t, M, r, w, y.n, y.p) /\ SameRest(t, y.t)
        /\ y = [t |-> y.t, n |-> y.n, p |-> y.p] /\ y.p \in M \cup {NIL}
        /\ MoreBlack(y.t, y.n) => \E q \in Blacks(t, M) : Blacks(y.t, M) = Blacks(t, M) \ {q}
    BY <2>2, <2>3, EraseRoundDoes
  <2>5. y.t \in Trees /\ y.n \in Ptr /\ y.p \in Ptr
    BY <2>4, FormedFacts DEF Lacking, Ptr
  <2>6. SameRest(o, y.t)
    BY <2>3, <2>4 DEF SameRest
  <2>7. y \in X
    BY <2>4, <2>5, <2>6 DEF EraseStates
  <2>8. Cardinality(Blacks(t, M)) > 0 /\ IsFiniteSet(Blacks(t, M)) /\ Cardinality(Blacks(t, M)) \in Nat
    BY <2>3, BlacksCount
  <2>9. MoreBlack(y.t, y.n) => Cardinality(Blacks(y.t, M)) < Cardinality(Blacks(t, M))
    <3> SUFFICES ASSUME MoreBlack(y.t, y.n)
                 PROVE  Cardinality(Blacks(y.t, M)) < Cardinality(Blacks(t, M))
      OBVIOUS
    <3>1. PICK B, q : B = Blacks(t, M) /\ q \in B /\ Blacks(y.t, M) = B \ {q}
      BY <2>4
    <3>2. Cardinality(B \ {q}) = Cardinality(B) - 1
      BY <2>8, <3>1, FS_RemoveElement
    <3> QED BY <2>8, <3>1, <3>2
  <2>10. BlacksLeft(M, y) < BlacksLeft(M, x)
    BY <2>1, <2>3, <2>8, <2>9 DEF BlacksLeft
  <2> QED BY <2>1, <2>2, <2>7, <2>10
<1>3. EraseIn(X) \in [X -> X]
  BY <1>2 DEF EraseIn
<1>4. ASSUME NEW x \in X PROVE BlacksLeft(M, x) \in Nat /\ BlacksLeft(M, x) <= Cardinality(Node)
  <2>1. Cardinality(Node) \in Nat
    BY RbTreeAssumption, FS_CardinalityType
  <2> QED BY <1>1, <2>1, BlacksCount DEF BlacksLeft
<1>5. BlacksIn(M, X) \in [X -> Nat]
  BY <1>4 DEF BlacksIn
<1>6. ASSUME NEW x \in X
      PROVE  IF x \in LackIn(X) THEN BlacksIn(M, X)[EraseIn(X)[x]] < BlacksIn(M, X)[x]
             ELSE EraseIn(X)[x] = x
  <2>1. CASE MoreBlack(x.t, x.n)
    <3>1. EraseIn(X)[x] = EraseRound(x) /\ EraseRound(x) \in X
      BY <1>2, <2>1 DEF EraseIn
    <3>2. BlacksIn(M, X)[EraseRound(x)] = BlacksLeft(M, EraseRound(x))
          /\ BlacksIn(M, X)[x] = BlacksLeft(M, x)
      BY <3>1 DEF BlacksIn
    <3> QED BY <1>2, <2>1, <3>1, <3>2 DEF LackIn
  <2>2. CASE ~MoreBlack(x.t, x.n)
    BY <2>2 DEF LackIn, EraseIn
  <2> QED BY <2>1, <2>2
<1> QED BY <1>3, <1>4, <1>5, <1>6 DEF Shrinks, BlacksIn

EraseRun(t, n, p, g) ==
  g = [i \in 0 .. Cardinality(Node) |->
        IF i = 0 THEN [t |-> t, n |-> n, p |-> p]
        ELSE IF ~Red(g[i - 1].t, g[i - 1].n) /\ g[i - 1].n # g[i - 1].t.rb_node
             THEN EraseRound(g[i - 1]) ELSE g[i - 1]]

LEMMA EraseColorDoes ==
  ASSUME NEW t, NEW M, NEW r, NEW w, NEW n, NEW p \in Ptr, Lacking(t, M, r, w, n, p),
         NEW u, u = rb_erase_color(t, n, p)
  PROVE  Sound(u, M, r, w) /\ SameRest(t, u)
<1>1. PICK N \in Nat : N = Cardinality(Node)
  BY RbTreeAssumption, FS_CardinalityType
<1>2. PICK X, x0 : X = EraseStates(t, M, r, w) /\ x0 = [t |-> t, n |-> n, p |-> p]
  OBVIOUS
<1>3. x0 \in X
  <2>1. t \in Trees /\ n \in Ptr
    BY FormedFacts DEF Lacking, Ptr
  <2> QED BY <1>2, <2>1 DEF EraseStates, SameRest
<1>4. PICK step, m, C : step = EraseIn(X) /\ m = BlacksIn(M, X) /\ C = LackIn(X)
  OBVIOUS
<1>5. Shrinks(X, C, step, m) /\ m[x0] <= N /\ step \in [X -> X]
  BY <1>1, <1>2, <1>3, <1>4, EraseRounds DEF Shrinks
<1>6. \A x \in X : step[x] = IF ~Red(x.t, x.n) /\ x.n # x.t.rb_node THEN EraseRound(x) ELSE x
  BY <1>4 DEF EraseIn, MoreBlack
<1>7. \E g : EraseRun(t, n, p, g)
  <2>1. PICK g : /\ g = [i \in 0 .. N |-> g[i]] /\ g[0] = x0
                 /\ \A i \in 0 .. N : /\ g[i] \in X
                                      /\ i # 0 => i - 1 \in 0 .. N /\ g[i] = step[g[i - 1]]
    BY <1>1, <1>3, <1>5, RunExists, SMTT(30)
  <2>2. \A i \in 0 .. N :
          g[i] = IF i = 0 THEN [t |-> t, n |-> n, p |-> p]
                 ELSE IF ~Red(g[i - 1].t, g[i - 1].n) /\ g[i - 1].n # g[i - 1].t.rb_node
                      THEN EraseRound(g[i - 1]) ELSE g[i - 1]
    BY <1>2, <1>6, <2>1, Zenon
  <2> QED BY <1>1, <2>1, <2>2, Zenon DEF EraseRun
<1>8. PICK g : g = CHOOSE h : EraseRun(t, n, p, h)
  OBVIOUS
<1>9. EraseRun(t, n, p, g)
  BY <1>7, <1>8
<1>10. Runs(X, step, x0, N, g)
  <2>1. g[0] = x0
    BY <1>1, <1>2, <1>9 DEF EraseRun
  <2>2. ASSUME NEW i \in 0 .. N - 1, g[i] \in X PROVE g[i + 1] = step[g[i]]
    <3>1. i + 1 \in 0 .. N /\ i + 1 # 0 /\ (i + 1) - 1 = i
      OBVIOUS
    <3>2. g[i + 1] = IF ~Red(g[i].t, g[i].n) /\ g[i].n # g[i].t.rb_node
                     THEN EraseRound(g[i]) ELSE g[i]
      BY <1>1, <1>9, <3>1 DEF EraseRun
    <3> QED BY <1>6, <2>2, <3>2, Zenon
  <2> QED BY <2>1, <2>2 DEF Runs
<1>11. PICK z : z = g[N]
  OBVIOUS
<1>12. z \in X /\ z \notin C
  BY <1>3, <1>5, <1>10, <1>11, LoopEnds
<1>13. Lacking(z.t, M, r, w, z.n, z.p) /\ SameRest(t, z.t) /\ (Red(z.t, z.n) \/ z.n = z.t.rb_node)
  BY <1>2, <1>4, <1>12 DEF EraseStates, LackIn, MoreBlack
<1>14. u = Paint(z.t, z.n, RB_BLACK)
  BY <1>1, <1>8, <1>11, Zenon DEF rb_erase_color, Repeat, EraseRun
<1>15. Sound(u, M, r, w) /\ SameRest(z.t, u)
  <2>1. CASE z.n = z.t.rb_node
    <3>1. Formed(z.t, M, r, w) /\ Even(z.t, M)
      BY <1>13, <2>1 DEF Lacking
    <3>2. ASSUME NEW x \in M, NEW d \in Side, Clash(z.t, x, d) PROVE x = z.t.rb_node
      <4>1. Kid(z.t, x, d) = z.n \/ x = z.n
        BY <1>13, <3>2 DEF Lacking
      <4>2. Kid(z.t, x, d) # z.t.rb_node
        BY <3>1, FormedFacts, NotRoot
      <4> QED BY <2>1, <4>1, <4>2
    <3> QED BY <1>14, <2>1, <3>1, <3>2, RootBlack
  <2>2. CASE z.n # z.t.rb_node
    BY <1>13, <1>14, <2>2, KidBlack
  <2> QED BY <2>1, <2>2
<1> QED BY <1>13, <1>15 DEF SameRest

-----------------------------------------------------------------------------
(* rb_erase.  What taking out n leaves for the repairs. *)
LEMMA CutLeaves ==
  ASSUME NEW t, NEW M, NEW r, NEW w, Sound(t, M, r, w),
         NEW n, NEW m, NEW c, NEW p, Loose(t, M, n, m, c, p),
         NEW u, TakenOut(t, u, n, c, p)
  PROVE  /\ Red(t, n) => Sound(u, M \ {n}, r, w)
         /\ ~Red(t, n) => Lacking(u, M \ {n}, r, w, c, p)
<1>1. PICK h : Heights(t, M, h, NIL, "left")
  BY DEF Sound, Even
<1>2. PICK L : L = M \ {n}
  OBVIOUS
<1>3. Formed(t, M, r, w) /\ Calm(t, M) /\ ~Red(t, t.rb_node)
  BY DEF Sound
<1>4. Formed(u, L, r, w)
  <2>1. PICK b : Shape(t, M, r, b, w)
    BY <1>3 DEF Formed
  <2>2. Shape(u, M \ {n}, r, CutBounds(r, b, n, m), w)
    BY <2>1, CutShape
  <2> QED BY <1>2, <2>2 DEF Formed
<1>5. /\ M \subseteq Node /\ NIL \notin M /\ n \in M /\ m \in Side /\ Other(m) \in Side
      /\ c = Kid(t, n, Other(m)) /\ c \in L \cup {NIL} /\ p \in L \cup {NIL} /\ p = Parent(t, n)
      /\ p # NIL => \E d \in Side : Kid(t, p, d) = n /\ Kid(t, p, Other(d)) # n
  BY <1>2, SideFacts DEF Loose
<1>6. /\ u.rb_node = IF p = NIL THEN c ELSE t.rb_node
      /\ \A x \in L : Color(u, x) = Color(t, x)
      /\ \A x \in L, e \in Side : Kid(u, x, e) = IF x = p /\ Kid(t, p, e) = n THEN c ELSE Kid(t, x, e)
  BY <1>2, <1>5 DEF TakenOut
<1>7. \A x \in L \cup {NIL} : Red(u, x) <=> Red(t, x)
  BY <1>2, <1>5, <1>6 DEF Red, Color
<1>8. \A x \in M, e \in Side : Kid(t, x, e) = n => x = p
  <2>1. Linked(t, M)
    BY <1>3, FormedFacts
  <2> QED BY <1>5, <2>1 DEF Linked
<1>9. \A x \in M, e \in Side : Kid(t, x, e) \in M \cup {NIL}
  BY <1>3, FormedFacts
<1>10. ASSUME NEW x \in L, NEW d \in Side, Clash(u, x, d) PROVE x = p /\ Kid(t, p, d) = n /\ Kid(u, x, d) = c
  <2> SUFFICES ASSUME ~(x = p /\ Kid(t, p, d) = n) PROVE FALSE
    BY <1>6
  <2>1. Kid(u, x, d) = Kid(t, x, d) /\ Kid(t, x, d) \in L \cup {NIL} /\ x \in M
    BY <1>2, <1>6, <1>8, <1>9
  <2>2. Clash(t, x, d)
    BY <1>7, <1>10, <2>1 DEF Clash
  <2> QED BY <1>3, <2>1, <2>2 DEF Calm
<1>11. \A x \in L : h[x] \in Int /\ h[x] >= 1 /\ Blk(u, x) = Blk(t, x) /\ Blk(u, x) \in Int
  BY <1>1, <1>2, <1>6 DEF Heights, Blk
<1>12. \A k \in M \cup {NIL} : HH(h, k) \in Int
  BY <1>1, <1>5, HeightTypes
<1>13. h[n] = HH(h, c) + Blk(t, n) /\ HH(h, n) = h[n]
  <2>1. n # NIL /\ Blk(t, n) \in Int
    BY <1>5 DEF Blk
  <2>2. h[n] = HH(h, c) + Blk(t, n) + 0
    BY <1>1, <1>5, <2>1 DEF Heights
  <2> QED BY <1>2, <1>5, <1>12, <2>1, <2>2 DEF HH
<1>14. \A x \in L, d \in Side :
         h[x] = HH(h, Kid(u, x, d)) + Blk(u, x) + (IF x = p /\ Kid(t, p, d) = n THEN Blk(t, n) ELSE 0)
  <2> TAKE x \in L, d \in Side
  <2>1. h[x] = HH(h, Kid(t, x, d)) + Blk(t, x) + 0
    BY <1>1, <1>2, <1>5 DEF Heights
  <2>2. Blk(t, n) \in Int /\ HH(h, c) \in Int /\ HH(h, Kid(t, x, d)) \in Int
    BY <1>2, <1>5, <1>9, <1>12 DEF Blk
  <2>3. CASE x = p /\ Kid(t, p, d) = n
    BY <1>6, <1>11, <1>13, <2>1, <2>2, <2>3
  <2>4. CASE ~(x = p /\ Kid(t, p, d) = n)
    BY <1>6, <1>11, <2>1, <2>2, <2>4
  <2> QED BY <2>3, <2>4
<1>15. CASE Red(t, n)
  <2>1. Blk(t, n) = 0
    BY <1>15 DEF Blk, Red, Color
  <2>2. Even(u, L)
    <3>1. \A x \in L, d \in Side :
            h[x] = HH(h, Kid(u, x, d)) + Blk(u, x) + (IF x = NIL /\ d = "left" THEN 1 ELSE 0)
      BY <1>2, <1>5, <1>14, <2>1
    <3>2. Heights(u, L, h, NIL, "left")
      BY <1>11, <3>1 DEF Heights
    <3> QED BY <3>2 DEF Even
  <2>3. Calm(u, L)
    <3> SUFFICES ASSUME NEW x \in L, NEW d \in Side, Clash(u, x, d) PROVE FALSE
      BY DEF Calm
    <3>1. x = p /\ Kid(t, p, d) = n /\ Red(u, p)
      BY <1>10 DEF Clash
    <3>2. Clash(t, p, d) /\ p \in M
      BY <1>2, <1>5, <1>7, <1>15, <3>1 DEF Clash
    <3> QED BY <1>3, <3>2 DEF Calm
  <2>4. ~Red(u, u.rb_node)
    <3>1. p # NIL
      <4>1. SUFFICES ASSUME p = NIL PROVE FALSE
        OBVIOUS
      <4>2. Linked(t, M)
        BY <1>3, FormedFacts
      <4>3. Parent(t, n) = NIL <=> n = t.rb_node
        BY <1>5, <4>2 DEF Linked
      <4> QED BY <1>3, <1>5, <1>15, <4>1, <4>3
    <3>2. u.rb_node = t.rb_node /\ u.rb_node \in L \cup {NIL}
      <4>1. Linked(u, L)
        BY <1>4, FormedFacts
      <4> QED BY <1>6, <3>1, <4>1 DEF Linked
    <3> QED BY <1>3, <1>7, <3>2
  <2> QED BY <1>2, <1>4, <1>15, <2>2, <2>3, <2>4 DEF Sound
<1>16. CASE ~Red(t, n)
  <2>1. Blk(t, n) = 1
    BY <1>5, <1>16 DEF Blk, Red, Color
  <2>2. \A x \in L, d \in Side : Clash(u, x, d) => Kid(u, x, d) = c
    BY <1>10
  <2>3. CASE p = NIL
    <3>1. u.rb_node = c
      BY <1>6, <2>3
    <3>2. \A x \in L, d \in Side :
            h[x] = HH(h, Kid(u, x, d)) + Blk(u, x) + (IF x = NIL /\ d = "left" THEN 1 ELSE 0)
      BY <1>2, <1>5, <1>14, <2>3
    <3>3. Heights(u, L, h, NIL, "left")
      BY <1>11, <3>2 DEF Heights
    <3>4. Even(u, L)
      BY <3>3 DEF Even
    <3> QED BY <1>2, <1>4, <1>5, <1>16, <2>2, <3>1, <3>4 DEF Lacking
  <2>4. CASE p # NIL
    <3>1. PICK s \in Side : Kid(t, p, s) = n /\ Kid(t, p, Other(s)) # n
      BY <1>5, <2>4
    <3>2. p \in L /\ Kid(u, p, s) = c /\ u.rb_node = t.rb_node
      BY <1>5, <1>6, <2>4, <3>1
    <3>3. \A d \in Side : Kid(t, p, d) = n <=> d = s
      BY <3>1, SideFacts
    <3>4. \A x \in L, d \in Side :
            h[x] = HH(h, Kid(u, x, d)) + Blk(u, x) + (IF x = p /\ d = s THEN 1 ELSE 0)
      BY <1>14, <2>1, <3>3
    <3>5. Heights(u, L, h, p, s)
      BY <1>11, <3>4 DEF Heights
    <3>6. c # u.rb_node /\ u.rb_node \in L \cup {NIL}
      <4>1. Linked(u, L) /\ NIL \notin L
        BY <1>4, FormedFacts
      <4>2. c # u.rb_node
        BY <3>2, <4>1, NotRoot
      <4> QED BY <4>1, <4>2 DEF Linked
    <3>7. ~Red(u, u.rb_node)
      BY <1>3, <1>7, <3>2, <3>6
    <3> QED BY <1>2, <1>4, <1>5, <1>16, <2>2, <3>2, <3>5, <3>6, <3>7 DEF Lacking
  <2> QED BY <2>3, <2>4
<1> QED BY <1>15, <1>16

LEMMA EraseOneDoes ==
  ASSUME NEW t, NEW M, NEW r, NEW w, Sound(t, M, r, w), NEW n \in M,
         Kid(t, n, "left") = NIL \/ Kid(t, n, "right") = NIL, NEW u, u = EraseOne(t, n)
  PROVE  Sound(u, M \ {n}, r, w) /\ SameRest(t, u)
<1>1. PICK b : Shape(t, M, r, b, w)
  BY DEF Sound, Formed
<1>2. PICK m \in Side : /\ m = IF Kid(t, n, "left") = NIL THEN "left" ELSE "right"
                        /\ Kid(t, n, m) = NIL
                        /\ Other(m) = IF Kid(t, n, "left") = NIL THEN "right" ELSE "left"
  BY DEF Side, Other
<1>3. PICK c, p : c = Kid(t, n, Other(m)) /\ p = Parent(t, n)
  OBVIOUS
<1>4. Loose(t, M, n, m, c, p)
  BY <1>1, <1>2, <1>3, Loosens
<1>5. PICK cut : cut = Supplant(SetParent(t, c, p), p, n, c)
  OBVIOUS
<1>6. TakenOut(t, cut, n, c, p)
  BY <1>4, <1>5, CutDoes
<1>7. u = IF Red(t, n) THEN cut ELSE rb_erase_color(cut, c, p)
  BY <1>2, <1>3, <1>5 DEF EraseOne
<1>8. SameRest(t, cut)
  BY <1>6 DEF TakenOut
<1>9. CASE Red(t, n)
  BY <1>4, <1>6, <1>7, <1>8, <1>9, CutLeaves
<1>10. CASE ~Red(t, n)
  <2>1. Lacking(cut, M \ {n}, r, w, c, p)
    BY <1>4, <1>6, <1>10, CutLeaves
  <2>2. p \in Ptr
    BY <1>4 DEF Loose, Ptr
  <2>3. Sound(u, M \ {n}, r, w) /\ SameRest(cut, u)
    BY <1>7, <1>10, <2>1, <2>2, EraseColorDoes
  <2> QED BY <1>8, <2>3 DEF SameRest
<1> QED BY <1>9, <1>10

-----------------------------------------------------------------------------
(* New names change nothing. *)
NameOf(L, f, q, p) == \A x \in L : x = q <=> f[x] = p

LEMMA MovedHeights ==
  ASSUME NEW t, NEW M, NIL \notin M, NEW u, NEW L, NIL \notin L, NEW f, Moved(t, M, u, L, f),
         NEW h, NEW p, NEW s, Heights(t, M, h, p, s), NEW q, NameOf(L, f, q, p)
  PROVE  \E g : Heights(u, L, g, q, s)
<1>1. PICK g : g = [x \in L |-> h[f[x]]]
  OBVIOUS
<1>2. \A x \in L : f[x] \in M
  BY DEF Moved
<1>3. \A x \in L : g[x] = h[f[x]] /\ h[f[x]] \in Int /\ h[f[x]] >= 1
  BY <1>1, <1>2 DEF Heights
<1>4. \A x \in L \cup {NIL} : HH(g, x) = HH(h, f[x])
  BY <1>2, <1>3 DEF HH, Moved
<1>5. \A x \in L : Blk(u, x) = Blk(t, f[x])
  BY DEF Moved, Blk
<1>6. ASSUME NEW x \in L, NEW d \in Side
      PROVE  g[x] = HH(g, Kid(u, x, d)) + Blk(u, x) + (IF x = q /\ d = s THEN 1 ELSE 0)
  <2>1. Kid(u, x, d) \in L \cup {NIL} /\ f[Kid(u, x, d)] = Kid(t, f[x], d)
    BY DEF Moved
  <2>2. h[f[x]] = HH(h, Kid(t, f[x], d)) + Blk(t, f[x]) + (IF f[x] = p /\ d = s THEN 1 ELSE 0)
    BY <1>2 DEF Heights
  <2>3. HH(g, Kid(u, x, d)) = HH(h, Kid(t, f[x], d))
    BY <1>4, <2>1
  <2> QED BY <1>3, <1>5, <2>2, <2>3 DEF NameOf
<1>7. Heights(u, L, g, q, s)
  BY <1>3, <1>6 DEF Heights
<1> QED BY <1>7

LEMMA MovedReds ==
  ASSUME NEW t, NEW M, NIL \notin M, NEW u, NEW L, NIL \notin L, NEW f, Moved(t, M, u, L, f)
  PROVE  /\ \A x \in L \cup {NIL} : Red(u, x) <=> Red(t, f[x])
         /\ \A x \in L, d \in Side : Clash(u, x, d) <=> Clash(t, f[x], d)
<1>1. \A x \in L \cup {NIL} : Red(u, x) <=> Red(t, f[x])
  BY DEF Moved, Red, Color
<1>2. \A x \in L, d \in Side : Kid(u, x, d) \in L \cup {NIL} /\ f[Kid(u, x, d)] = Kid(t, f[x], d)
  BY DEF Moved
<1>3. ASSUME NEW x \in L, NEW d \in Side PROVE Clash(u, x, d) <=> Clash(t, f[x], d)
  <2>1. Red(u, Kid(u, x, d)) <=> Red(t, Kid(t, f[x], d))
    BY <1>1, <1>2
  <2> QED BY <1>1, <2>1 DEF Clash
<1> QED BY <1>1, <1>3

LEMMA MovedSound ==
  ASSUME NEW t, NEW M, NEW r, NEW w, Sound(t, M, r, w),
         NEW u, NEW L, NEW f, Moved(t, M, u, L, f), NEW c, NEW v, Formed(u, L, c, v)
  PROVE  Sound(u, L, c, v)
<1>1. NIL \notin M /\ NIL \notin L
  BY FormedFacts DEF Sound
<1>2. PICK h : Heights(t, M, h, NIL, "left")
  BY DEF Sound, Even
<1>3. NameOf(L, f, NIL, NIL)
  BY DEF Moved, NameOf
<1>4. Even(u, L)
  BY <1>1, <1>2, <1>3, MovedHeights DEF Even
<1>5. Calm(u, L)
  <2>1. \A x \in L : f[x] \in M
    BY <1>1 DEF Moved
  <2> QED BY <1>1, <2>1, MovedReds DEF Sound, Calm
<1>6. ~Red(u, u.rb_node)
  <2>1. u.rb_node \in L \cup {NIL} /\ f[u.rb_node] = t.rb_node
    BY DEF Moved
  <2> QED BY <1>1, <2>1, MovedReds DEF Sound
<1> QED BY <1>4, <1>5, <1>6 DEF Sound

LEMMA MovedLacking ==
  ASSUME NEW t, NEW M, NEW r, NEW w, NEW n, NEW p, Lacking(t, M, r, w, n, p),
         NEW u, NEW L, NEW f, Moved(t, M, u, L, f), NEW c, NEW v, Formed(u, L, c, v),
         NEW k \in L \cup {NIL}, NEW q \in L \cup {NIL}, f[k] = n, f[q] = p
  PROVE  Lacking(u, L, c, v, k, q)
<1>1. NIL \notin M /\ NIL \notin L
  BY FormedFacts DEF Lacking
<1>2. /\ \A x, y \in L \cup {NIL} : f[x] = f[y] => x = y
      /\ \A x \in L \cup {NIL} : f[x] = NIL <=> x = NIL
      /\ \A x \in L : f[x] \in M
      /\ u.rb_node \in L \cup {NIL} /\ f[u.rb_node] = t.rb_node
      /\ \A x \in L, d \in Side : Kid(u, x, d) \in L \cup {NIL} /\ f[Kid(u, x, d)] = Kid(t, f[x], d)
  BY <1>1 DEF Moved
<1>3. Red(u, u.rb_node) => u.rb_node = k
  <2>1. Red(u, u.rb_node) <=> Red(t, t.rb_node)
    BY <1>1, <1>2, MovedReds
  <2>2. Red(t, t.rb_node) => t.rb_node = n
    BY DEF Lacking
  <2> QED BY <1>2, <2>1, <2>2
<1>4. ASSUME NEW x \in L, NEW d \in Side, Clash(u, x, d) PROVE Kid(u, x, d) = k \/ x = k
  <2>1. Clash(t, f[x], d) /\ f[x] \in M
    BY <1>1, <1>2, <1>4, MovedReds
  <2>2. Kid(t, f[x], d) = n \/ f[x] = n
    BY <2>1 DEF Lacking
  <2> QED BY <1>2, <2>2
<1>5. CASE n = t.rb_node /\ Even(t, M)
  <2>1. k = u.rb_node
    BY <1>2, <1>5
  <2>2. PICK h : Heights(t, M, h, NIL, "left")
    BY <1>5 DEF Even
  <2>3. NameOf(L, f, NIL, NIL)
    BY <1>2 DEF NameOf
  <2>4. Even(u, L)
    BY <1>1, <2>2, <2>3, MovedHeights DEF Even
  <2> QED BY <1>3, <1>4, <2>1, <2>4 DEF Lacking
<1>6. CASE n # t.rb_node /\ p \in M /\ \E s \in Side : n = Kid(t, p, s) /\ \E h : Heights(t, M, h, p, s)
  <2>1. PICK s, h : s \in Side /\ n = Kid(t, p, s) /\ Heights(t, M, h, p, s)
    BY <1>6
  <2>2. k # u.rb_node /\ q \in L
    BY <1>1, <1>2, <1>6
  <2>3. k = Kid(u, q, s)
    BY <1>2, <2>1, <2>2
  <2>4. NameOf(L, f, q, p)
    BY <1>2 DEF NameOf
  <2>5. \E g : Heights(u, L, g, q, s)
    BY <1>1, <2>1, <2>4, MovedHeights
  <2> QED BY <1>3, <1>4, <2>1, <2>2, <2>3, <2>5 DEF Lacking
<1> QED BY <1>5, <1>6 DEF Lacking

-----------------------------------------------------------------------------
(* The repairs of a node with two kids begin at the kid of its successor,  *)
(* below what the parent of the successor is called now.                   *)
LEMMA NotAbove ==
  ASSUME NEW t, NEW M, NEW r, NEW w, Formed(t, M, r, w), NEW n \in M, NEW y \in M, r[n] < r[y]
  PROVE  Kid(t, y, "right") # n
<1>1. PICK b : Shape(t, M, r, b, w)
  BY DEF Formed
<1>2. NIL \notin M /\ r[n] \in Int /\ r[y] \in Int /\ b[n]["left"] \in Int
  BY <1>1, ShapeTypes, SideFacts DEF Side
<1>3. SUFFICES ASSUME Kid(t, y, "right") = n PROVE FALSE
  OBVIOUS
<1>4. "right" \in Side /\ "left" \in Side /\ Other("right") = "left"
  BY DEF Side, Other
<1>5. \A x \in M, s \in Side : Kid(t, x, s) # NIL => b[Kid(t, x, s)][Other(s)] = r[x]
  BY <1>1 DEF Shape, Placed
<1>6. b[n]["left"] = r[y]
  BY <1>2, <1>3, <1>4, <1>5
<1>7. Toward("left", r[n], b[n]["left"])
  BY <1>1, <1>4 DEF Shape, Placed
<1> QED BY <1>2, <1>6, <1>7 DEF Toward

OrderedWithout(M, r, u, n, w) == \E a : Sound(u, M \ {n}, a, w) /\ SameOrder(M \ {n}, r, a)

LEMMA TwoRepaired ==
  ASSUME NEW t, NEW M, NEW r, NEW w, Sound(t, M, r, w),
         NEW n, NEW y, NEW c, NEW p, NEW cut, NEW done, DroppedTwo(t, M, n, y, c, p, cut, done),
         \A x \in M : ~(r[n] < r[x] /\ r[x] < r[y]), r[n] < r[y],
         NEW q, q = IF p = n THEN y ELSE p
  PROVE  \E a : /\ SameOrder(M \ {n}, r, a)
                /\ Red(t, y) => Sound(done, M \ {n}, a, w)
                /\ ~Red(t, y) => Lacking(done, M \ {n}, a, w, c, q) /\ q \in Ptr
<1>1. PICK b : Shape(t, M, r, b, w)
  BY DEF Sound, Formed
<1>2. PICK K : K = M \ {y}
  OBVIOUS
<1>3. PICK L : L = M \ {n}
  OBVIOUS
<1>4. PICK f : f = NewName(K, n, y)
  OBVIOUS
<1>5. Moved(cut, K, done, L, f) /\ \E a, d : Shape(done, L, a, d, w) /\ SameOrder(L, r, a)
  BY <1>1, <1>2, <1>3, <1>4, DropTwoShape
<1>6. PICK a, d : Shape(done, L, a, d, w) /\ SameOrder(L, r, a)
  BY <1>5
<1>7. Formed(done, L, a, w)
  BY <1>6 DEF Formed
<1>8. Loose(t, M, y, "left", c, p) /\ TakenOut(t, cut, y, c, p) /\ y \in M /\ n \in M /\ y # n
  BY DEF DroppedTwo
<1>9. /\ Red(t, y) => Sound(cut, K, r, w)
      /\ ~Red(t, y) => Lacking(cut, K, r, w, c, p)
  BY <1>2, <1>8, CutLeaves
<1>10. M \subseteq Node /\ NIL \notin M /\ c \in M \cup {NIL} /\ p \in M \cup {NIL} /\ c # y /\ p # y
       /\ c = Kid(t, y, "right")
  BY <1>8 DEF Loose, Other
<1>11. Formed(t, M, r, w)
  BY DEF Sound
<1>12. c # n
  BY <1>8, <1>10, <1>11, NotAbove
<1>13. c \in L \cup {NIL} /\ q \in L \cup {NIL}
  BY <1>3, <1>8, <1>10, <1>12
<1>14. \A x \in L \cup {NIL} : f[x] = IF x = y THEN n ELSE x
  BY <1>2, <1>3, <1>4, <1>8 DEF NewName
<1>15. f[c] = c /\ f[q] = p
  BY <1>8, <1>10, <1>13, <1>14
<1>16. Red(t, y) => Sound(done, L, a, w)
  BY <1>5, <1>7, <1>9, MovedSound
<1>17. ~Red(t, y) => Lacking(done, L, a, w, c, q)
  <2>1. SUFFICES ASSUME ~Red(t, y) PROVE Lacking(done, L, a, w, c, q)
    OBVIOUS
  <2>2. Lacking(cut, K, r, w, c, p)
    BY <1>9, <2>1
  <2> QED BY <1>5, <1>7, <1>13, <1>15, <2>2, MovedLacking
<1>18. q \in Ptr
  BY <1>3, <1>10, <1>13 DEF Ptr
<1> QED BY <1>3, <1>6, <1>16, <1>17, <1>18

LEMMA EraseTwoDoes ==
  ASSUME NEW t, NEW M, NEW r, NEW w, Sound(t, M, r, w), NEW n \in M,
         Kid(t, n, "left") # NIL, Kid(t, n, "right") # NIL, NEW u, u = EraseTwo(t, n)
  PROVE  OrderedWithout(M, r, u, n, w) /\ SameRest(t, u)
<1>1. PICK b : Shape(t, M, r, b, w)
  BY DEF Sound, Formed
<1>2. PICK y : y = Extreme(t, Kid(t, n, "right"), "left")
  OBVIOUS
<1>3. PICK c : c = Kid(t, y, "right")
  OBVIOUS
<1>4. PICK p : p = Parent(t, y)
  OBVIOUS
<1>5. PICK cut : cut = Supplant(SetParent(t, c, p), p, y, c)
  OBVIOUS
<1>6. PICK moved : moved = Supplant([cut EXCEPT !.node[y] = cut.node[n]], Parent(t, n), n, y)
  OBVIOUS
<1>7. PICK done : done = SetParent(SetParent(moved, Kid(cut, n, "left"), y), Kid(cut, n, "right"), y)
  OBVIOUS
<1>8. PICK q : q = IF p = n THEN y ELSE p
  OBVIOUS
<1>9. u = IF Red(t, y) THEN done ELSE rb_erase_color(done, c, q)
  BY <1>2, <1>3, <1>4, <1>5, <1>6, <1>7, <1>8 DEF EraseTwo
<1>10. DroppedTwo(t, M, n, y, c, p, cut, done)
  BY <1>1, <1>2, <1>3, <1>4, <1>5, <1>6, <1>7, DropsTwo
<1>11. r[n] < r[y] /\ \A x \in M : ~(r[n] < r[x] /\ r[x] < r[y])
  BY <1>1, <1>2, <1>3, <1>4, Successor
<1>12. PICK a : /\ SameOrder(M \ {n}, r, a)
                /\ Red(t, y) => Sound(done, M \ {n}, a, w)
                /\ ~Red(t, y) => Lacking(done, M \ {n}, a, w, c, q) /\ q \in Ptr
  BY <1>8, <1>10, <1>11, TwoRepaired, ZenonT(40)
<1>13. SameRest(t, done)
  BY <1>10 DEF DroppedTwo
<1>14. CASE Red(t, y)
  BY <1>9, <1>12, <1>13, <1>14 DEF OrderedWithout
<1>15. CASE ~Red(t, y)
  <2>1. Sound(u, M \ {n}, a, w) /\ SameRest(done, u)
    BY <1>9, <1>12, <1>15, EraseColorDoes
  <2>2. SameRest(t, u)
    BY <1>13, <2>1 DEF SameRest
  <2> QED BY <1>12, <2>1, <2>2 DEF OrderedWithout
<1> QED BY <1>14, <1>15

LEMMA EraseDoes ==
  ASSUME NEW t, NEW M, NEW r, NEW w, Sound(t, M, r, w), NEW n \in M, NEW u, u = rb_erase(t, n)
  PROVE  OrderedWithout(M, r, u, n, w) /\ SameRest(t, u)
<1>1. CASE Kid(t, n, "left") = NIL \/ Kid(t, n, "right") = NIL
  <2>1. u = EraseOne(t, n)
    BY <1>1 DEF rb_erase
  <2>2. Sound(u, M \ {n}, r, w) /\ SameRest(t, u)
    BY <1>1, <2>1, EraseOneDoes
  <2>3. SameOrder(M \ {n}, r, r)
    BY DEF SameOrder
  <2> QED BY <2>2, <2>3 DEF OrderedWithout
<1>2. CASE ~(Kid(t, n, "left") = NIL \/ Kid(t, n, "right") = NIL)
  <2>1. u = EraseTwo(t, n)
    BY <1>2 DEF rb_erase
  <2> QED BY <1>2, <2>1, EraseTwoDoes
<1> QED BY <1>1, <1>2

-----------------------------------------------------------------------------
(* What a tree is says nothing of the nodes outside it. *)
LEMMA OutsideFormed ==
  ASSUME NEW t, NEW M, NEW r, NEW w, Formed(t, M, r, w),
         NEW u \in Trees, u.rb_node = t.rb_node, \A x \in M : u.node[x] = t.node[x]
  PROVE  Formed(u, M, r, w)
<1>1. PICK b : Shape(t, M, r, b, w)
  BY DEF Formed
<1>2. \A x \in M : Parent(u, x) = Parent(t, x) /\ \A s \in Side : Kid(u, x, s) = Kid(t, x, s)
  BY DEF Parent, Kid
<1>3. Linked(t, M) /\ Placed(t, M, r, b, w)
  BY <1>1 DEF Shape
<1>4. Linked(u, M)
  <2>1. M \subseteq Node /\ u.rb_node \in M \cup {NIL} /\ (u.rb_node = NIL => M = {})
    BY <1>3 DEF Linked
  <2>2. \A x \in M : /\ Parent(u, x) = NIL <=> x = u.rb_node
                     /\ Parent(u, x) # NIL =>
                          Parent(u, x) \in M /\ \E s \in Side : Kid(u, Parent(u, x), s) = x
    BY <1>2, <1>3 DEF Linked
  <2>3. \A x \in M, s \in Side :
          Kid(u, x, s) # NIL => Kid(u, x, s) \in M /\ Parent(u, Kid(u, x, s)) = x
    BY <1>2, <1>3 DEF Linked
  <2> QED BY <2>1, <2>2, <2>3 DEF Linked
<1>5. Placed(u, M, r, b, w)
  <2>1. \A x \in M, s \in Side :
       /\ Toward(s, r[x], b[x][s]) /\ ~Toward(s, w[s], b[x][s])
       /\ Kid(u, x, s) # NIL => /\ b[Kid(u, x, s)][s] = b[x][s]
                                /\ b[Kid(u, x, s)][Other(s)] = r[x]
       /\ Kid(u, x, s) = NIL =>
            \A y \in M : ~(Toward(s, r[x], r[y]) /\ Toward(s, r[y], b[x][s]))
    BY <1>2, <1>3 DEF Placed
  <2> QED BY <1>3, <2>1 DEF Placed
<1> QED BY <1>4, <1>5 DEF Formed, Shape

SameName(M) == [x \in M \cup {NIL} |-> x]

LEMMA OutsideSound ==
  ASSUME NEW t, NEW M, NEW r, NEW w, Sound(t, M, r, w),
         NEW u \in Trees, u.rb_node = t.rb_node, \A x \in M : u.node[x] = t.node[x]
  PROVE  Sound(u, M, r, w)
<1>1. Formed(t, M, r, w)
  BY DEF Sound
<1>2. Formed(u, M, r, w)
  BY <1>1, OutsideFormed
<1>3. PICK f : f = SameName(M)
  OBVIOUS
<1>4. /\ Linked(t, M) /\ NIL \notin M /\ M \subseteq Node
      /\ \A x \in M, d \in Side : Kid(t, x, d) \in M \cup {NIL}
      /\ \A x \in M : Parent(t, x) \in M \cup {NIL}
  BY <1>1, FormedFacts
<1>5. Moved(t, M, u, M, f)
  <2>1. f \in [M \cup {NIL} -> M \cup {NIL}] /\ \A x \in M \cup {NIL} : f[x] = x
    BY <1>3 DEF SameName
  <2>2. t.rb_node \in M \cup {NIL}
    BY <1>4 DEF Linked
  <2>3. \A x \in M : /\ Parent(u, x) = Parent(t, x) /\ Color(u, x) = Color(t, x)
                     /\ \A s \in Side : Kid(u, x, s) = Kid(t, x, s)
    BY DEF Parent, Kid, Color
  <2>4. \A x \in M :
          /\ Parent(u, x) \in M \cup {NIL} /\ f[Parent(u, x)] = Parent(t, f[x])
          /\ Color(u, x) = Color(t, f[x])
          /\ \A e \in Side : Kid(u, x, e) \in M \cup {NIL} /\ f[Kid(u, x, e)] = Kid(t, f[x], e)
    <3> TAKE x \in M
    <3>1. f[x] = x /\ Parent(u, x) = Parent(t, x) /\ Parent(t, x) \in M \cup {NIL}
          /\ Color(u, x) = Color(t, x)
      BY <1>4, <2>1, <2>3
    <3>2. f[Parent(u, x)] = Parent(t, x)
      BY <2>1, <3>1
    <3>3. ASSUME NEW e \in Side PROVE Kid(u, x, e) \in M \cup {NIL} /\ f[Kid(u, x, e)] = Kid(t, x, e)
      <4>1. Kid(u, x, e) = Kid(t, x, e) /\ Kid(t, x, e) \in M \cup {NIL}
        BY <1>4, <2>3
      <4> QED BY <2>1, <4>1
    <3> QED BY <3>1, <3>2, <3>3
  <2>5. \A y \in M : \E x \in M : f[x] = y
    BY <2>1
  <2>6. /\ u.rb_node \in M \cup {NIL} /\ f[u.rb_node] = t.rb_node
        /\ \A x \in M \cup {NIL} : f[x] = NIL <=> x = NIL
        /\ \A x, y \in M \cup {NIL} : f[x] = f[y] => x = y
    BY <2>1, <2>2
  <2> QED BY <1>4, <2>1, <2>4, <2>5, <2>6 DEF Moved
<1> QED BY <1>2, <1>5, MovedSound

-----------------------------------------------------------------------------
EndsWithout(t, n) ==
  [t EXCEPT !.last_node  = IF t.count <= 1 THEN NIL
                           ELSE IF n = @ THEN rb_prev(t, n) ELSE @,
            !.first_node = IF t.count <= 1 THEN NIL
                           ELSE IF n = @ THEN rb_next(t, n) ELSE @]

CountDown(t) == [t EXCEPT !.count = @ - 1]

EndsLeft(t, u, n) ==
  /\ u.last_node = IF t.count <= 1 THEN NIL
                   ELSE IF n = t.last_node THEN rb_prev(t, n) ELSE t.last_node
  /\ u.first_node = IF t.count <= 1 THEN NIL
                    ELSE IF n = t.first_node THEN rb_next(t, n) ELSE t.first_node

LEMMA EndsWithoutDoes ==
  ASSUME NEW t \in Trees, NEW n \in Node, rb_prev(t, n) \in Ptr, rb_next(t, n) \in Ptr,
         NEW u, u = EndsWithout(t, n)
  PROVE  Kept(t, u) /\ u.count = t.count /\ EndsLeft(t, u, n)
<1>1. PICK a : a = rb_prev(t, n)
  OBVIOUS
<1>2. PICK c : c = rb_next(t, n)
  OBVIOUS
<1>3. NIL \in Ptr /\ t.last_node \in Ptr /\ t.first_node \in Ptr /\ t.count \in Int
  BY TreeFields DEF Ptr
<1>4. PICK l : l = IF t.count <= 1 THEN NIL ELSE IF n = t.last_node THEN a ELSE t.last_node
  OBVIOUS
<1>5. PICK f : f = IF t.count <= 1 THEN NIL ELSE IF n = t.first_node THEN c ELSE t.first_node
  OBVIOUS
<1>6. l \in Ptr /\ f \in Ptr
  BY <1>1, <1>2, <1>3, <1>4, <1>5
<1>7. u = [t EXCEPT !.last_node = l, !.first_node = f]
  BY <1>1, <1>2, <1>4, <1>5 DEF EndsWithout, Trees
<1>8. Kept(t, u) /\ u.count = t.count /\ u.last_node = l /\ u.first_node = f
  BY <1>6, <1>7 DEF Kept, Trees
<1> QED BY <1>1, <1>2, <1>4, <1>5, <1>8 DEF EndsLeft

LEMMA CountDownDoes ==
  ASSUME NEW t \in Trees, NEW u, u = CountDown(t)
  PROVE  /\ Kept(t, u) /\ u.count = t.count - 1
         /\ u.last_node = t.last_node /\ u.first_node = t.first_node
  BY DEF CountDown, Kept, Trees

Removed(t, M, r, u, n, c) ==
  /\ u.count = t.count - 1 /\ u.value = t.value
  /\ EndsLeft(t, u, n)
  /\ SameOrder(M \ {n}, r, c)

LEMMA RemoveNodeDoes ==
  ASSUME NEW t, NEW M, NEW r, NEW w, Sound(t, M, r, w), NEW n \in M,
         NEW u, u = rb_remove_node(t, n)
  PROVE  \E c, v : Sound(u, M \ {n}, c, v) /\ Removed(t, M, r, u, n, c)
<1>1. PICK b : Shape(t, M, r, b, w)
  BY DEF Sound, Formed
<1>2. M \subseteq Node /\ t \in Trees /\ NIL \notin M
  BY <1>1, ShapeTypes DEF Shape, Linked
<1>3. rb_prev(t, n) \in Ptr /\ rb_next(t, n) \in Ptr
  <2>1. \A s \in Side : IsNext(M, r, n, s, Neighbour(t, n, s))
    BY <1>1, NextFound
  <2>2. \A s \in Side : Neighbour(t, n, s) \in Ptr
    BY <1>2, <2>1 DEF IsNext, Ptr
  <2> QED BY <2>2 DEF rb_prev, rb_next, Side
<1>4. PICK e : e = EndsWithout(t, n)
  OBVIOUS
<1>5. Kept(t, e) /\ e.count = t.count /\ EndsLeft(t, e, n)
  BY <1>2, <1>3, <1>4, EndsWithoutDoes
<1>6. Sound(e, M, r, w)
  BY <1>5, KeptSound
<1>7. PICK k : k = rb_erase(e, n)
  OBVIOUS
<1>8. OrderedWithout(M, r, k, n, w) /\ SameRest(e, k)
  BY <1>6, <1>7, EraseDoes
<1>9. PICK a : Sound(k, M \ {n}, a, w) /\ SameOrder(M \ {n}, r, a)
  BY <1>8 DEF OrderedWithout
<1>10. k \in Trees
  BY <1>9, FormedFacts DEF Sound
<1>11. PICK g : g = SetNode(k, n, rb_node_init)
  OBVIOUS
<1>12. rb_node_init \in NodeRec
  BY DEF rb_node_init, NodeRec, Ptr, Hue
<1>13. NodeSet(k, g, n, rb_node_init)
  BY <1>2, <1>10, <1>11, <1>12, SetNodeDoes
<1>14. Sound(g, M \ {n}, a, w) /\ g \in Trees /\ SameRest(k, g)
  <2>1. g \in Trees /\ g.rb_node = k.rb_node /\ SameRest(k, g)
        /\ \A x \in M \ {n} : g.node[x] = k.node[x]
    BY <1>2, <1>13 DEF NodeSet
  <2> QED BY <1>9, <2>1, OutsideSound
<1>15. u = CountDown(g)
  BY <1>4, <1>7, <1>11 DEF rb_remove_node, EndsWithout, Forget, SetNode, CountDown
<1>16. Kept(g, u) /\ u.count = g.count - 1 /\ u.last_node = g.last_node /\ u.first_node = g.first_node
  BY <1>14, <1>15, CountDownDoes
<1>17. Sound(u, M \ {n}, a, w)
  BY <1>14, <1>16, KeptSound
<1>18. Removed(t, M, r, u, n, a)
  <2>1. u.count = t.count - 1 /\ u.value = t.value
        /\ u.last_node = e.last_node /\ u.first_node = e.first_node
    BY <1>5, <1>8, <1>14, <1>16 DEF SameRest, Kept
  <2> QED BY <1>5, <1>9, <2>1 DEF Removed, EndsLeft
<1> QED BY <1>17, <1>18

-----------------------------------------------------------------------------
Swapped(t, M, r, u, old, new, c) ==
  /\ u.first_node = t.first_node /\ u.last_node = t.last_node /\ u.count = t.count
  /\ \A x \in Node : u.value[x] = IF x = new THEN t.value[old] ELSE t.value[x]
  /\ \A x \in (M \ {old}) \cup {new} : c[x] = r[IF x = new THEN old ELSE x]

LEMMA ReplaceNodeDoes ==
  ASSUME NEW t, NEW M, NEW r, NEW w, Sound(t, M, r, w), NEW old \in M, NEW new \in Node \ M,
         NEW u, u = rb_replace_node(t, old, new)
  PROVE  \E c, v : Sound(u, (M \ {old}) \cup {new}, c, v) /\ Swapped(t, M, r, u, old, new, c)
<1>1. PICK b : Shape(t, M, r, b, w)
  BY DEF Sound, Formed
<1>2. M \subseteq Node /\ t \in Trees /\ NIL \notin M
  BY <1>1, ShapeTypes DEF Shape, Linked
<1>3. Replaced(t, u, old, new)
  BY <1>1, ReplaceDoes
<1>4. PICK L : L = (M \ {old}) \cup {new}
  OBVIOUS
<1>5. PICK f : f = NewName(M, old, new)
  OBVIOUS
<1>6. Moved(t, M, u, L, f)
  BY <1>1, <1>3, <1>4, <1>5, RenameMoves DEF Replaced
<1>7. PICK c : c = MovedRanks(r, L, f)
  OBVIOUS
<1>8. Formed(u, L, c, w)
  BY <1>1, <1>6, <1>7, MovedShape DEF Formed
<1>9. Sound(u, L, c, w)
  BY <1>6, <1>8, MovedSound
<1>10. \A x \in L : x \in Node /\ f[x] = IF x = new THEN old ELSE x
  BY <1>2, <1>4, <1>5 DEF NewName
<1>11. \A x \in L : c[x] = r[f[x]]
  BY <1>7, <1>10 DEF MovedRanks
<1>12. Swapped(t, M, r, u, old, new, c)
  BY <1>3, <1>4, <1>10, <1>11 DEF Swapped, Replaced
<1> QED BY <1>4, <1>9, <1>12

-----------------------------------------------------------------------------
(* Sequences that list a set of nodes by their places. *)
Lists(s, A, r) ==
  /\ s \in Seq(A)
  /\ \A i, j \in 1 .. Len(s) : i < j => r[s[i]] < r[s[j]]
  /\ \A x \in A : \E i \in 1 .. Len(s) : s[i] = x

LEMMA ListsNothing ==
  ASSUME NEW r
  PROVE  Lists(<<>>, {}, r)
  BY DEF Lists

Between(s, a, n, b) ==
  /\ Len(s) = Len(a) + 1 + Len(b)
  /\ \A k \in 1 .. Len(s) :
       \/ k \in 1 .. Len(a) /\ s[k] = a[k]
       \/ k = Len(a) + 1 /\ s[k] = n
       \/ k - Len(a) - 1 \in 1 .. Len(b) /\ s[k] = b[k - Len(a) - 1]
  /\ \A k \in 1 .. Len(a) : k \in 1 .. Len(s) /\ s[k] = a[k]
  /\ Len(a) + 1 \in 1 .. Len(s) /\ s[Len(a) + 1] = n
  /\ \A k \in 1 .. Len(b) : Len(a) + 1 + k \in 1 .. Len(s) /\ s[Len(a) + 1 + k] = b[k]

LEMMA BetweenIs ==
  ASSUME NEW S, NEW a \in Seq(S), NEW n \in S, NEW b \in Seq(S), NEW s, s = a \o <<n>> \o b
  PROVE  s \in Seq(S) /\ Between(s, a, n, b)
<1>1. PICK p \in Nat, q \in Nat : p = Len(a) /\ q = Len(b)
  OBVIOUS
<1>2. PICK e : e = <<n>>
  OBVIOUS
<1>3. e \in Seq(S) /\ Len(e) = 1 /\ e[1] = n
  BY <1>2
<1>4. PICK x : x = a \o e
  OBVIOUS
<1>5. Joined(S, a, e, x, p, 1)
  BY <1>1, <1>3, <1>4, Join
<1>6. x \in Seq(S) /\ Len(x) = p + 1 /\ (\A j \in 1 .. p : x[j] = a[j]) /\ x[p + 1] = n
  BY <1>3, <1>5 DEF Joined
<1>7. s = x \o b
  BY <1>2, <1>4
<1>8. Joined(S, x, b, s, p + 1, q)
  BY <1>1, <1>6, <1>7, Join
<1>9. s \in Seq(S) /\ Len(s) = p + 1 + q /\ (\A j \in 1 .. p + 1 : s[j] = x[j])
      /\ \A j \in 1 .. q : s[p + 1 + j] = b[j]
  BY <1>8 DEF Joined
<1>10. \A j \in 1 .. p : j \in 1 .. Len(s) /\ s[j] = a[j]
  BY <1>6, <1>9
<1>11. p + 1 \in 1 .. Len(s) /\ s[p + 1] = n
  BY <1>6, <1>9
<1>12. \A j \in 1 .. q : p + 1 + j \in 1 .. Len(s) /\ s[p + 1 + j] = b[j]
  BY <1>9
<1>13. ASSUME NEW k \in 1 .. Len(s)
       PROVE  \/ k \in 1 .. p /\ s[k] = a[k]
              \/ k = p + 1 /\ s[k] = n
              \/ k - p - 1 \in 1 .. q /\ s[k] = b[k - p - 1]
  <2>1. CASE k <= p
    BY <1>10, <2>1
  <2>2. CASE k = p + 1
    BY <1>11, <2>2
  <2>3. CASE k > p + 1
    <3>1. PICK j \in Int : k = p + 1 + j
      <4>1. k \in Int /\ k = p + 1 + (k - p - 1)
        OBVIOUS
      <4> QED BY <4>1
    <3>2. k <= p + 1 + q
      BY <1>9
    <3>3. j \in 1 .. q /\ k - p - 1 = j
      BY <2>3, <3>1, <3>2
    <3>4. s[k] = b[j]
      BY <1>12, <3>1, <3>3
    <3> QED BY <3>3, <3>4, Zenon
  <2>4. k <= p \/ k = p + 1 \/ k > p + 1
    OBVIOUS
  <2> QED BY <2>1, <2>2, <2>3, <2>4, Zenon
<1> QED BY <1>1, <1>9, <1>10, <1>11, <1>12, <1>13 DEF Between

LEMMA ListsJoin ==
  ASSUME NEW L, NEW r, \A x \in L : r[x] \in Int,
         NEW A, NEW B, NEW n, L = (A \cup {n}) \cup B,
         NEW a, Lists(a, A, r), NEW b, Lists(b, B, r),
         \A x \in A : r[x] < r[n], \A x \in B : r[n] < r[x],
         NEW s, s = a \o <<n>> \o b
  PROVE  Lists(s, L, r)
<1>1. a \in Seq(L) /\ b \in Seq(L) /\ n \in L
  BY DEF Lists
<1>2. s \in Seq(L) /\ Between(s, a, n, b)
  BY <1>1, BetweenIs
<1>3. PICK p \in Nat, q \in Nat : p = Len(a) /\ q = Len(b)
  BY <1>1, SMTT(30)
<1>4. (\A k \in 1 .. p : a[k] \in A) /\ (\A k \in 1 .. q : b[k] \in B)
  BY <1>3 DEF Lists
<1>5. ASSUME NEW i \in 1 .. Len(s), NEW j \in 1 .. Len(s), i < j
      PROVE  r[s[i]] < r[s[j]]
  <2>1. Len(s) \in Nat /\ Len(s) = p + 1 + q
    BY <1>2, <1>3 DEF Between
  <2>2. \/ i \in 1 .. p /\ s[i] = a[i]
        \/ i = p + 1 /\ s[i] = n
        \/ i - p - 1 \in 1 .. q /\ s[i] = b[i - p - 1]
    BY <1>2, <1>3 DEF Between
  <2>3. \/ j \in 1 .. p /\ s[j] = a[j]
        \/ j = p + 1 /\ s[j] = n
        \/ j - p - 1 \in 1 .. q /\ s[j] = b[j - p - 1]
    BY <1>2, <1>3 DEF Between
  <2>4. CASE i \in 1 .. p /\ s[i] = a[i]
    <3>1. CASE j \in 1 .. p /\ s[j] = a[j]
      BY <1>3, <1>5, <2>4, <3>1 DEF Lists
    <3>2. CASE j = p + 1 /\ s[j] = n
      BY <1>4, <2>4, <3>2
    <3>3. CASE j - p - 1 \in 1 .. q /\ s[j] = b[j - p - 1]
      <4>1. s[i] \in A /\ s[j] \in B
        BY <1>4, <2>4, <3>3
      <4>2. s[i] \in L /\ s[j] \in L /\ n \in L
        BY <4>1
      <4>3. r[s[i]] < r[n] /\ r[n] < r[s[j]]
        BY <4>1
      <4>4. \A x, y, z \in Int : x < y /\ y < z => x < z
        OBVIOUS
      <4> QED BY <4>2, <4>3, <4>4
    <3> QED BY <2>3, <3>1, <3>2, <3>3
  <2>5. CASE i = p + 1 /\ s[i] = n
    <3>1. j - p - 1 \in 1 .. q /\ s[j] = b[j - p - 1]
      BY <1>5, <2>1, <2>3, <2>5
    <3> QED BY <1>4, <2>5, <3>1
  <2>6. CASE i - p - 1 \in 1 .. q /\ s[i] = b[i - p - 1]
    <3>1. j - p - 1 \in 1 .. q /\ s[j] = b[j - p - 1] /\ i - p - 1 < j - p - 1
      BY <1>5, <2>1, <2>3, <2>6
    <3> QED BY <1>3, <2>6, <3>1 DEF Lists
  <2> QED BY <2>2, <2>4, <2>5, <2>6
<1>6. ASSUME NEW x \in L PROVE \E i \in 1 .. Len(s) : s[i] = x
  <2>1. CASE x \in A
    <3>1. PICK k \in 1 .. p : a[k] = x
      BY <1>3, <2>1 DEF Lists
    <3> QED BY <1>2, <1>3, <3>1 DEF Between
  <2>2. CASE x = n
    BY <1>2, <2>2 DEF Between
  <2>3. CASE x \in B
    <3>1. PICK k \in 1 .. q : b[k] = x
      BY <1>3, <2>3 DEF Lists
    <3> QED BY <1>2, <1>3, <3>1 DEF Between
  <2> QED BY <2>1, <2>2, <2>3
<1> QED BY <1>2, <1>5, <1>6 DEF Lists

-----------------------------------------------------------------------------
(* A node, with what is below it on either side. *)
Under(M, r, b, c) == IF c = NIL THEN {} ELSE In(M, r, b, c)

LEMMA Splits ==
  ASSUME NEW t, NEW M, NEW r, NEW b, NEW w, Shape(t, M, r, b, w), NEW x \in M,
         NEW A, A = Under(M, r, b, Kid(t, x, "left")),
         NEW B, B = Under(M, r, b, Kid(t, x, "right"))
  PROVE  /\ In(M, r, b, x) = A \cup {x} \cup B
         /\ \A y \in A : r[y] < r[x]
         /\ \A y \in B : r[x] < r[y]
<1>1. /\ x \in In(M, r, b, x) /\ In(M, r, b, x) \subseteq M
      /\ \A d \in Side : KidInterval(t, M, r, b, x, d, Kid(t, x, d))
  BY Intervals
<1>2. \A y \in M : r[y] \in Int
  BY ShapeTypes
<1>3. \A y, z \in M : r[y] = r[z] => y = z
  BY DEF Shape, Placed
<1>4. PICK I : I = In(M, r, b, x)
  OBVIOUS
<1>5. A = {y \in I : r[y] < r[x]}
  <2>1. KidInterval(t, M, r, b, x, "left", Kid(t, x, "left"))
    BY <1>1 DEF Side
  <2> QED BY <1>4, <2>1 DEF KidInterval, Under, Toward
<1>6. B = {y \in I : r[x] < r[y]}
  <2>1. KidInterval(t, M, r, b, x, "right", Kid(t, x, "right"))
    BY <1>1 DEF Side
  <2> QED BY <1>4, <2>1 DEF KidInterval, Under, Toward
<1>7. \A y \in I : y = x \/ r[y] < r[x] \/ r[x] < r[y]
  BY <1>1, <1>2, <1>3, <1>4
<1> QED BY <1>1, <1>4, <1>5, <1>6, <1>7

-----------------------------------------------------------------------------
(* InOrder.  walk[i][n] lists what is below n when that is at most i. *)
Walked(t, f, n) == f[Kid(t, n, "left")] \o <<n>> \o f[Kid(t, n, "right")]

WalkRun(t, g) ==
  g = [i \in 0 .. Cardinality(Node) |->
        [n \in Node \cup {NIL} |->
          IF n = NIL \/ i = 0 THEN <<>>
          ELSE g[i - 1][Kid(t, n, "left")] \o <<n>> \o g[i - 1][Kid(t, n, "right")]]]

Deeper(t, f) == [n \in Node \cup {NIL} |-> IF n = NIL THEN <<>> ELSE Walked(t, f, n)]

LEMMA WalkExists ==
  ASSUME NEW t \in Trees
  PROVE  \E g : WalkRun(t, g) /\ g[0] = [n \in Node \cup {NIL} |-> <<>>]
                /\ \A i \in 1 .. Cardinality(Node) : g[i] = Deeper(t, g[i - 1])
<1>1. PICK N \in Nat : N = Cardinality(Node)
  BY RbTreeAssumption, FS_CardinalityType
<1>2. PICK X : X = [Ptr -> Seq(Node)]
  OBVIOUS
<1>3. PICK step : step = [f \in X |-> Deeper(t, f)]
  OBVIOUS
<1>4. PICK x : x = [n \in Node \cup {NIL} |-> <<>>]
  OBVIOUS
<1>5. \A n \in Node, s \in Side : Kid(t, n, s) \in Ptr
  BY TreeFields
<1>6. "left" \in Side /\ "right" \in Side
  BY DEF Side
<1>7. step \in [X -> X]
  <2>1. ASSUME NEW f \in X PROVE Deeper(t, f) \in X
    <3>1. ASSUME NEW n \in Node PROVE Walked(t, f, n) \in Seq(Node)
      <4>1. PICK l \in Seq(Node), k \in Seq(Node) : l = f[Kid(t, n, "left")] /\ k = f[Kid(t, n, "right")]
        BY <1>2, <1>5, <1>6
      <4> QED BY <4>1 DEF Walked
    <3>2. \A n \in Ptr : n # NIL => n \in Node
      BY DEF Ptr
    <3> QED BY <1>2, <3>1, <3>2 DEF Deeper, Ptr
  <2> QED BY <1>3, <2>1
<1>8. x \in X
  BY <1>2, <1>4 DEF Ptr
<1>9. PICK g : /\ g = [i \in 0 .. N |-> g[i]] /\ Runs(X, step, x, N, g) /\ g[0] = x
               /\ \A i \in 0 .. N : /\ g[i] \in X
                                    /\ i # 0 => i - 1 \in 0 .. N /\ g[i] = step[g[i - 1]]
  BY <1>7, <1>8, RunExists
<1>10. \A i \in 0 .. N : i # 0 => g[i] = Deeper(t, g[i - 1])
  BY <1>3, <1>9
<1>11. ASSUME NEW i \in 0 .. N
       PROVE  g[i] = [n \in Node \cup {NIL} |->
                IF n = NIL \/ i = 0 THEN <<>>
                ELSE g[i - 1][Kid(t, n, "left")] \o <<n>> \o g[i - 1][Kid(t, n, "right")]]
  <2>1. CASE i = 0
    BY <1>4, <1>9, <2>1
  <2>2. CASE i # 0
    BY <1>10, <2>2, Zenon DEF Deeper, Walked
  <2> QED BY <2>1, <2>2
<1>12. WalkRun(t, g)
  BY <1>1, <1>9, <1>11, Zenon DEF WalkRun
<1>13. \A i \in 1 .. N : g[i] = Deeper(t, g[i - 1])
  BY <1>10
<1> QED BY <1>1, <1>4, <1>9, <1>12, <1>13

LEMMA WalkLists ==
  ASSUME NEW t, NEW M, NEW r, NEW b, NEW w, Shape(t, M, r, b, w), NEW g, NEW N \in Nat,
         g[0][NIL] = <<>>, \A i \in 1 .. N : g[i] = Deeper(t, g[i - 1]),
         NEW n \in M, Cardinality(In(M, r, b, n)) <= N
  PROVE  Lists(g[N][n], In(M, r, b, n), r)
<1>1. M \subseteq Node /\ NIL \notin M /\ (\A x \in M : r[x] \in Int) /\ IsFiniteSet(M)
  BY ShapeTypes
<1>2. \A x \in M, d \in Side : Kid(t, x, d) \in M \cup {NIL}
  BY DEF Shape, Linked
<1>3. "left" \in Side /\ "right" \in Side
  BY DEF Side
<1>4. \A x \in M : /\ In(M, r, b, x) \subseteq M /\ x \in In(M, r, b, x)
                   /\ Cardinality(In(M, r, b, x)) \in Nat
                   /\ \A d \in Side : Kid(t, x, d) # NIL =>
                        Cardinality(In(M, r, b, Kid(t, x, d))) < Cardinality(In(M, r, b, x))
  <2> TAKE x \in M
  <2>1. In(M, r, b, x) \subseteq M /\ x \in In(M, r, b, x)
    BY Intervals
  <2>2. /\ Cardinality(In(M, r, b, x)) \in 0 .. Cardinality(Node)
        /\ \A d \in Side : Kid(t, x, d) # NIL =>
             Cardinality(In(M, r, b, Kid(t, x, d))) < Cardinality(In(M, r, b, x))
    BY Measures
  <2>3. Cardinality(In(M, r, b, x)) \in Nat
    BY <2>2, RbTreeAssumption, FS_CardinalityType
  <2> QED BY <2>1, <2>2, <2>3, Zenon
<1>5. \A x \in M : Cardinality(In(M, r, b, x)) > 0
  <2> TAKE x \in M
  <2>1. IsFiniteSet(In(M, r, b, x)) /\ In(M, r, b, x) # {}
    BY <1>1, <1>4, FS_Subset
  <2> QED BY <1>4, <2>1, FS_EmptySet
<1> DEFINE S == {i \in Nat : i <= N => /\ g[i][NIL] = <<>>
                                      /\ \A x \in M : Cardinality(In(M, r, b, x)) <= i =>
                                           Lists(g[i][x], In(M, r, b, x), r)}
<1>6. 0 \in S
  BY <1>4, <1>5
<1>7. ASSUME NEW k \in Nat, k \in S PROVE k + 1 \in S
  <2>1. SUFFICES ASSUME k + 1 <= N
                 PROVE  /\ g[k + 1][NIL] = <<>>
                        /\ \A x \in M : Cardinality(In(M, r, b, x)) <= k + 1 =>
                             Lists(g[k + 1][x], In(M, r, b, x), r)
    OBVIOUS
  <2>2. g[k + 1] = Deeper(t, g[k])
    <3>1. k + 1 \in 1 .. N /\ (k + 1) - 1 = k
      BY <2>1
    <3> QED BY <3>1
  <2>3. g[k + 1][NIL] = <<>>
    BY <2>2 DEF Deeper
  <2>4. ASSUME NEW x \in M, Cardinality(In(M, r, b, x)) <= k + 1
        PROVE  Lists(g[k + 1][x], In(M, r, b, x), r)
    <3>1. g[k + 1][x] = g[k][Kid(t, x, "left")] \o <<x>> \o g[k][Kid(t, x, "right")]
      BY <1>1, <2>2 DEF Deeper, Walked
    <3>2. ASSUME NEW d \in Side
          PROVE Lists(g[k][Kid(t, x, d)], Under(M, r, b, Kid(t, x, d)), r)
      <4>1. CASE Kid(t, x, d) = NIL
        <5>1. g[k][NIL] = <<>>
          BY <1>7, <2>1
        <5> QED BY <4>1, <5>1, ListsNothing DEF Under
      <4>2. CASE Kid(t, x, d) # NIL
        <5>1. Kid(t, x, d) \in M
          BY <1>2, <4>2
        <5>2. Cardinality(In(M, r, b, Kid(t, x, d))) <= k
          BY <1>4, <2>4, <4>2, <5>1
        <5>3. Lists(g[k][Kid(t, x, d)], In(M, r, b, Kid(t, x, d)), r)
          BY <1>7, <2>1, <5>1, <5>2
        <5> QED BY <4>2, <5>3 DEF Under
      <4> QED BY <4>1, <4>2
    <3>3. PICK l, m : l = g[k][Kid(t, x, "left")] /\ m = g[k][Kid(t, x, "right")]
      OBVIOUS
    <3>4. PICK A, B, L : /\ A = Under(M, r, b, Kid(t, x, "left"))
                         /\ B = Under(M, r, b, Kid(t, x, "right")) /\ L = In(M, r, b, x)
      OBVIOUS
    <3>5. Lists(l, A, r) /\ Lists(m, B, r)
      BY <1>3, <3>2, <3>3, <3>4
    <3>6. L = (A \cup {x}) \cup B /\ (\A y \in A : r[y] < r[x]) /\ (\A y \in B : r[x] < r[y])
      BY <3>4, Splits
    <3>7. \A y \in L : r[y] \in Int
      BY <1>1, <1>4, <3>4
    <3>8. PICK s : s = l \o <<x>> \o m
      OBVIOUS
    <3>9. Lists(s, L, r)
      BY <3>5, <3>6, <3>7, <3>8, ListsJoin
    <3> QED BY <3>1, <3>3, <3>4, <3>8, <3>9, SMTT(30)
  <2> QED BY <2>3, <2>4
<1> HIDE DEF S
<1>8. N \in S
  BY <1>6, <1>7, Induction
<1> QED BY <1>8 DEF S

LEMMA InOrderLists ==
  ASSUME NEW t, NEW M, NEW r, NEW b, NEW w, Shape(t, M, r, b, w)
  PROVE  Lists(InOrder(t), M, r)
<1>1. PICK N \in Nat : N = Cardinality(Node)
  BY RbTreeAssumption, FS_CardinalityType
<1>2. t \in Trees /\ t.rb_node \in M \cup {NIL} /\ (t.rb_node = NIL => M = {})
  BY DEF Shape, Linked
<1>3. PICK g : g = CHOOSE f : WalkRun(t, f)
  OBVIOUS
<1>4. WalkRun(t, g)
  BY <1>2, <1>3, WalkExists
<1>5. InOrder(t) = g[N][t.rb_node]
  BY <1>1, <1>3 DEF InOrder, WalkRun
<1>6. g[0][NIL] = <<>>
  <2>1. 0 \in 0 .. N /\ NIL \in Node \cup {NIL}
    OBVIOUS
  <2> QED BY <1>1, <1>4, <2>1 DEF WalkRun
<1>7. ASSUME NEW i \in 1 .. N PROVE g[i] = Deeper(t, g[i - 1])
  <2>1. i \in 0 .. N /\ i # 0
    OBVIOUS
  <2>2. g[i] = [n \in Node \cup {NIL} |->
          IF n = NIL \/ i = 0 THEN <<>>
          ELSE g[i - 1][Kid(t, n, "left")] \o <<n>> \o g[i - 1][Kid(t, n, "right")]]
    BY <1>1, <1>4, <2>1, Zenon DEF WalkRun
  <2> QED BY <2>1, <2>2, Zenon DEF Deeper, Walked
<1>8. CASE t.rb_node = NIL
  <2>1. g[N][NIL] = <<>>
    <3>1. N \in 0 .. N /\ NIL \in Node \cup {NIL}
      OBVIOUS
    <3> QED BY <1>1, <1>4, <3>1, Zenon DEF WalkRun
  <2> QED BY <1>2, <1>5, <1>8, <2>1, ListsNothing
<1>9. CASE t.rb_node # NIL
  <2>1. PICK x \in M : x = t.rb_node
    BY <1>2, <1>9
  <2>2. In(M, r, b, x) = M
    BY <1>9, <2>1, RootInterval
  <2>3. Cardinality(In(M, r, b, x)) <= N
    <3>1. Cardinality(In(M, r, b, x)) \in 0 .. Cardinality(Node)
      BY Measures
    <3> QED BY <1>1, <3>1
  <2>4. Lists(g[N][x], In(M, r, b, x), r)
    BY <1>6, <1>7, <2>3, WalkLists
  <2> QED BY <1>5, <2>1, <2>2, <2>4
<1> QED BY <1>8, <1>9
=============================================================================
