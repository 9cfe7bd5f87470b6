------------------------------- MODULE RbTree -------------------------------
(***************************************************************************)
(* rbtree.c as operators on a tree: the fields of struct rb_root and of    *)
(* every struct rb_node, pointers being members of Node or NIL.  The code  *)
(* writes each half of an algorithm twice, with left and right exchanged;  *)
(* here both are one definition with the side as a parameter.              *)
(*                                                                         *)
(* Links of a node outside the tree are stale in the code and are written  *)
(* before they are read again; here they are NIL.                          *)
(***************************************************************************)
EXTENDS Integers, FiniteSets, Sequences

CONSTANTS Node, NIL

ASSUME RbTreeAssumption == IsFiniteSet(Node) /\ NIL \notin Node

RB_RED   == 0
RB_BLACK == 1

Side == {"left", "right"}
Other(s) == IF s = "left" THEN "right" ELSE "left"

rb_node_init == [parent |-> NIL, color |-> RB_RED, left |-> NIL, right |-> NIL]

rb_root_init ==
  [rb_node |-> NIL, first_node |-> NIL, last_node |-> NIL, count |-> 0,
   node  |-> [n \in Node |-> rb_node_init],
   value |-> [n \in Node |-> 0]]

(* A loop while (cond) body from state x; none runs longer than a path.    *)
Repeat(cond(_), body(_), x) ==
  LET after[i \in 0 .. Cardinality(Node)] ==
        IF i = 0 THEN x
        ELSE LET y == after[i - 1] IN IF cond(y) THEN body(y) ELSE y
  IN  after[Cardinality(Node)]

Kid(t, n, s)      == t.node[n][s]
Parent(t, n)      == t.node[n].parent
Red(t, n)         == n # NIL /\ t.node[n].color = RB_RED
Paint(t, n, c)    == IF n = NIL THEN t ELSE [t EXCEPT !.node[n].color = c]
SetParent(t, n, p) == IF n = NIL THEN t ELSE [t EXCEPT !.node[n].parent = p]
SideOf(t, p, n)   == IF Kid(t, p, "left") = n THEN "left" ELSE "right"
Forget(t, n)      == [t EXCEPT !.node[n] = rb_node_init]

(* c in the place of old below p, or at the root. *)
Supplant(t, p, old, c) ==
  IF p = NIL THEN [t EXCEPT !.rb_node = c]
  ELSE [t EXCEPT !.node[p][SideOf(t, p, old)] = c]

-----------------------------------------------------------------------------
(* Variants named X_... change X the way a slip in the code would; none is *)
(* part of the specification.                                              *)
rb_rotate_MidOrphan(t, n, s) ==
  LET up == Kid(t, n, Other(s))
      p  == Parent(t, n)
  IN  [Supplant(t, p, n, up) EXCEPT
         !.node[n]  = [@ EXCEPT ![Other(s)] = Kid(t, up, s), !.parent = up],
         !.node[up] = [@ EXCEPT ![s] = n, !.parent = p]]

(* rb_rotate_left for s = "left", rb_rotate_right for "right". *)
rb_rotate(t, n, s) ==
  LET up  == Kid(t, n, Other(s))
      mid == Kid(t, up, s)
      p   == Parent(t, n)
  IN  [SetParent(Supplant(t, p, n, up), mid, n) EXCEPT
         !.node[n]  = [@ EXCEPT ![Other(s)] = mid, !.parent = up],
         !.node[up] = [@ EXCEPT ![s] = n, !.parent = p]]

(* What the repairs do with n and its kid up: n goes down red, up goes up  *)
(* black.                                                                  *)
LowerRed(t, n, s) ==
  LET up == Kid(t, n, Other(s))
  IN  rb_rotate(Paint(Paint(t, up, RB_BLACK), n, RB_RED), n, s)

(* One round of rb_insert_color, x.n being the red node: a red uncle, or   *)
(* one or two rotations.                                                   *)
InsertRound(x) ==
  LET p == Parent(x.t, x.n)
      g == Parent(x.t, p)
      s == SideOf(x.t, g, p)
      uncle  == Kid(x.t, g, Other(s))
      inner  == Kid(x.t, p, Other(s)) = x.n
      turned == IF inner THEN rb_rotate(x.t, p, s) ELSE x.t
  IN  IF Red(x.t, uncle)
      THEN [t |-> Paint(Paint(Paint(x.t, uncle, RB_BLACK), p, RB_BLACK), g, RB_RED),
            n |-> g]
      ELSE [t |-> LowerRed(turned, g, Other(s)), n |-> IF inner THEN p ELSE x.n]

rb_insert_color(t, n) ==
  LET end == Repeat(LAMBDA x : Red(x.t, Parent(x.t, x.n)), InsertRound,
                    [t |-> t, n |-> n])
  IN  Paint(end.t, end.t.rb_node, RB_BLACK)

(* One round of rb_erase_color: x.n, possibly NIL, lacks one black, x.p is *)
(* its parent.                                                             *)
EraseRound(x) ==
  LET s  == SideOf(x.t, x.p, x.n)
      o  == Other(s)
      w0 == Kid(x.t, x.p, o)
      t1 == IF Red(x.t, w0) THEN LowerRed(x.t, x.p, s) ELSE x.t
      w1 == Kid(t1, x.p, o)
      t2 == IF Red(t1, Kid(t1, w1, o)) THEN t1 ELSE LowerRed(t1, w1, o)
      w2 == Kid(t2, x.p, o)
      t3 == Paint(Paint(Paint(t2, w2, t2.node[x.p].color), x.p, RB_BLACK),
                  Kid(t2, w2, o), RB_BLACK)
      t4 == rb_rotate(t3, x.p, s)
  IN  IF ~Red(t1, Kid(t1, w1, "left")) /\ ~Red(t1, Kid(t1, w1, "right"))
      THEN [t |-> Paint(t1, w1, RB_RED), n |-> x.p, p |-> Parent(t1, x.p)]
      ELSE [t |-> t4, n |-> t4.rb_node, p |-> x.p]

rb_erase_color(t, n, p) ==
  LET end == Repeat(LAMBDA x : ~Red(x.t, x.n) /\ x.n # x.t.rb_node, EraseRound,
                    [t |-> t, n |-> n, p |-> p])
  IN  Paint(end.t, end.n, RB_BLACK)

-----------------------------------------------------------------------------
(* The walks. *)
Extreme(t, n, s) ==
  IF n = NIL THEN NIL
  ELSE Repeat(LAMBDA m : Kid(t, m, s) # NIL, LAMBDA m : Kid(t, m, s), n)

rb_first(t) == Extreme(t, t.rb_node, "left")
rb_last(t)  == Extreme(t, t.rb_node, "right")

Neighbour(t, n, s) ==
  IF Kid(t, n, s) # NIL THEN Extreme(t, Kid(t, n, s), Other(s))
  ELSE Parent(t, Repeat(LAMBDA m : Parent(t, m) # NIL /\ m = Kid(t, Parent(t, m), s),
                        LAMBDA m : Parent(t, m), n))

rb_next(t, n) == Neighbour(t, n, "right")
rb_prev(t, n) == Neighbour(t, n, "left")

rb_first_greater_OrEqual(t, key) ==
  Repeat(LAMBDA x : x.n # NIL,
         LAMBDA x : IF t.value[x.n] >= key
                    THEN [n |-> Kid(t, x.n, "left"), best |-> x.n]
                    ELSE [n |-> Kid(t, x.n, "right"), best |-> x.best],
         [n |-> t.rb_node, best |-> NIL]).best

rb_first_greater(t, key) ==
  Repeat(LAMBDA x : x.n # NIL,
         LAMBDA x : IF t.value[x.n] > key
                    THEN [n |-> Kid(t, x.n, "left"), best |-> x.n]
                    ELSE [n |-> Kid(t, x.n, "right"), best |-> x.best],
         [n |-> t.rb_node, best |-> NIL]).best

search_node(t, key) ==
  Repeat(LAMBDA n : n # NIL /\ t.value[n] # key,
         LAMBDA n : Kid(t, n, IF key < t.value[n] THEN "left" ELSE "right"),
         t.rb_node)

-----------------------------------------------------------------------------
(* The side of n on which a node with value v belongs. *)
Below(t, v, n) == IF v < t.value[n] THEN "left" ELSE "right"

(* The descent of rb_insert_node ends below this node. *)
InsertParent(t, v) ==
  Repeat(LAMBDA x : x.n # NIL,
         LAMBDA x : [n |-> Kid(t, x.n, Below(t, v, x.n)), p |-> x.n],
         [n |-> t.rb_node, p |-> NIL]).p

rb_link_node(t, n, p) ==
  LET linked == [t EXCEPT !.node[n] = [rb_node_init EXCEPT !.parent = p]]
  IN  IF p = NIL THEN [linked EXCEPT !.rb_node = n]
      ELSE [linked EXCEPT !.node[p][Below(t, t.value[n], p)] = n]

(* A node goes in front of those with its value: with all values doubled,  *)
(* it is a little smaller than they are.                                   *)
rb_insert_node_InFront(t, n) ==
  LET d == [t EXCEPT !.value = [m \in Node |-> 2 * t.value[m] - (IF m = n THEN 1 ELSE 0)]]
      v == d.value[n]
      ends == [d EXCEPT
        !.last_node  = IF d.count = 0 \/ v >= d.value[@] THEN n ELSE @,
        !.first_node = IF d.count = 0 \/ v < d.value[@] THEN n ELSE @]
      grown == rb_insert_color(rb_link_node(ends, n, InsertParent(d, v)), n)
  IN  [grown EXCEPT !.count = @ + 1, !.value = t.value]

(* rb_insert_node: n->value has been set by the caller. *)
rb_insert_node(t, n) ==
  LET v     == t.value[n]
      ends  == [t EXCEPT
        !.last_node  = IF t.count = 0 \/ v >= t.value[@] THEN n ELSE @,
        !.first_node = IF t.count = 0 \/ v < t.value[@] THEN n ELSE @]
      grown == rb_insert_color(rb_link_node(ends, n, InsertParent(t, v)), n)
  IN  [grown EXCEPT !.count = @ + 1]

(* rb_erase of a node with at most one child ... *)
EraseOne(t, n) ==
  LET child == Kid(t, n, IF Kid(t, n, "left") = NIL THEN "right" ELSE "left")
      p     == Parent(t, n)
      cut   == Supplant(SetParent(t, child, p), p, n, child)
  IN  IF Red(t, n) THEN cut ELSE rb_erase_color(cut, child, p)

(* ... and of one with two: its successor y leaves its own place for it.   *)
EraseTwo(t, n) ==
  LET y     == Extreme(t, Kid(t, n, "right"), "left")
      child == Kid(t, y, "right")
      p     == Parent(t, y)
      cut   == Supplant(SetParent(t, child, p), p, y, child)
      moved == Supplant([cut EXCEPT !.node[y] = cut.node[n]], Parent(t, n), n, y)
      done  == SetParent(SetParent(moved, Kid(cut, n, "left"), y), Kid(cut, n, "right"), y)
  IN  IF Red(t, y) THEN done
      ELSE rb_erase_color(done, child, IF p = n THEN y ELSE p)

rb_erase(t, n) ==
  IF Kid(t, n, "left") = NIL \/ Kid(t, n, "right") = NIL
  THEN EraseOne(t, n) ELSE EraseTwo(t, n)

rb_remove_node_KeepsFirst(t, n) ==
  LET ends == [t EXCEPT
        !.last_node = IF t.count <= 1 THEN NIL
                      ELSE IF n = @ THEN rb_prev(t, n) ELSE @,
        !.first_node = IF t.count <= 1 THEN NIL ELSE @]
  IN  [Forget(rb_erase(ends, n), n) EXCEPT !.count = @ - 1]

rb_remove_node(t, n) ==
  LET ends == [t EXCEPT
        !.last_node  = IF t.count <= 1 THEN NIL
                       ELSE IF n = @ THEN rb_prev(t, n) ELSE @,
        !.first_node = IF t.count <= 1 THEN NIL
                       ELSE IF n = @ THEN rb_next(t, n) ELSE @]
  IN  [Forget(rb_erase(ends, n), n) EXCEPT !.count = @ - 1]

(* rb_replace_node: first_node and last_node are not looked at. *)
rb_replace_node(t, victim, new) ==
  LET put == Supplant(t, Parent(t, victim), victim, new)
      adopted == SetParent(SetParent(put, Kid(t, victim, "left"), new),
                           Kid(t, victim, "right"), new)
  IN  Forget([adopted EXCEPT !.node[new] = t.node[victim],
                             !.value[new] = t.value[victim]], victim)

-----------------------------------------------------------------------------
(* The nodes of t from left to right. *)
InOrder(t) ==
  LET walk[i \in 0 .. Cardinality(Node)] ==
        [n \in Node \cup {NIL} |->
          IF n = NIL \/ i = 0 THEN <<>>
          ELSE walk[i - 1][Kid(t, n, "left")] \o <<n>> \o walk[i - 1][Kid(t, n, "right")]]
  IN  walk[Cardinality(Node)][t.rb_node]

Members(t) == LET seq == InOrder(t) IN {seq[i] : i \in DOMAIN seq}

(* Black nodes on the paths from n down, 0 if they differ. *)
BlackHeight(t) ==
  LET height[i \in 0 .. Cardinality(Node)] ==
        [n \in Node \cup {NIL} |->
          IF n = NIL THEN 1
          ELSE IF i = 0 THEN 0
          ELSE LET l == height[i - 1][Kid(t, n, "left")]
                   r == height[i - 1][Kid(t, n, "right")]
               IN  IF l # r \/ l = 0 THEN 0
                   ELSE l + (IF Red(t, n) THEN 0 ELSE 1)]
  IN  height[Cardinality(Node)][t.rb_node]

(* What makes every walk short and every later rotation legal: the root is *)
(* black, no red node has a red child, every path down has the same number *)
(* of black nodes, and parents agree with children.                        *)
RedBlack(t) ==
  /\ ~Red(t, t.rb_node)
  /\ t.rb_node # NIL => Parent(t, t.rb_node) = NIL
  /\ BlackHeight(t) # 0
  /\ \A n \in Members(t), s \in Side :
       Kid(t, n, s) # NIL => /\ Parent(t, Kid(t, n, s)) = n
                             /\ ~(Red(t, n) /\ Red(t, Kid(t, n, s)))
=============================================================================
