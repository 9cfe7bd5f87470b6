---------------------------- MODULE RbTreeCalls -----------------------------
(* A caller of rbtree.c: any sequence of insertions, removals and          *)
(* replacements of its nodes in one tree.                                  *)
EXTENDS RbTree

CONSTANTS
  NodeValue,  \* the value its owner gives a node before it inserts it
  Usual,      \* bound: nodes that are inserted and removed at will
  Spare,      \* nodes that only ever take the place of another
  Fill        \* bound: the order in which a larger tree is filled

ASSUME RbTreeCallsAssumption ==
  /\ NodeValue \in [Node -> Nat]
  /\ Usual \subseteq Node /\ Spare \subseteq Node
  /\ Fill \in Seq(Node) /\ Fill # <<>>

VARIABLES
  tree,     \* struct rb_root and the nodes
  order,    \* history: its nodes from left to right, with their values
  inside,   \* the nodes their owner has put in
  endGone,  \* history: first_node or last_node has been replaced
  plan      \* bound: "any" calls, or "fill" in the order Fill, then "drain"

treeVars == <<tree, order, inside, endGone, plan>>

Listing(t) ==
  LET seq == InOrder(t) IN [i \in DOMAIN seq |-> <<seq[i], t.value[seq[i]]>>]

Become(t) == tree' = t /\ order' = Listing(t)

TreeInit ==
  /\ tree = [rb_root_init EXCEPT !.value = NodeValue]
  /\ order = <<>>
  /\ inside = {}
  /\ endGone = FALSE
  /\ plan \in {"any", "fill"}

(* rb_insert_node reads through first_node and last_node of a tree that is *)
(* not empty; both may be NULL there once endGone, and the process dies.   *)
TreeInsert(n) ==
  /\ n \notin inside
  /\ \/ plan = "any" /\ n \in Usual /\ UNCHANGED plan
     \/ /\ plan = "fill" /\ n = Fill[tree.count + 1]
        /\ plan' = IF tree.count + 1 = Len(Fill) THEN "drain" ELSE plan
  /\ tree.count = 0 \/ NIL \notin {tree.first_node, tree.last_node}
  /\ Become(rb_insert_node([tree EXCEPT !.value[n] = NodeValue[n]], n))
  /\ inside' = inside \cup {n}
  /\ UNCHANGED endGone

TreeRemove(n) ==
  /\ n \in inside
  /\ plan # "fill"
  /\ Become(rb_remove_node(tree, n))
  /\ inside' = inside \ {n}
  /\ UNCHANGED <<endGone, plan>>

TreeReplace(victim, new) ==
  /\ plan = "any"
  /\ victim \in inside
  /\ new \notin inside
  /\ Become(rb_replace_node(tree, victim, new))
  /\ inside' = (inside \ {victim}) \cup {new}
  /\ endGone' = (endGone \/ victim \in {tree.first_node, tree.last_node})
  /\ UNCHANGED plan

TreeNext ==
  \/ \E n \in Node : TreeInsert(n)
  \/ \E n \in Node : TreeRemove(n)
  \/ \E victim \in Node, new \in Spare : TreeReplace(victim, new)

TreeSpec == TreeInit /\ [][TreeNext]_treeVars

-----------------------------------------------------------------------------
(* Through every insertion and removal the tree stays red-black, with      *)
(* parent pointers that agree, and holds exactly its owner's nodes.        *)
TreeBalanced ==
  /\ RedBlack(tree)
  /\ {order[i][1] : i \in DOMAIN order} = inside
  /\ tree.count = Cardinality(inside)

(* first_node and last_node, which rb_insert_node and rb_remove_node keep  *)
(* up to date on the side, are the ends of the tree, unless                *)
(* rb_replace_node, which does not, was called for one of them.            *)
EndsCached ==
  ~endGone => tree.first_node = rb_first(tree) /\ tree.last_node = rb_last(tree)

(* The walks and searches find what a search of the nodes in order would:  *)
(* neighbours, the first value above a key, a value if it is there.        *)
TreeSearches ==
  LET seq == [i \in DOMAIN order |-> order[i][1]]
      At(i) == IF i \in DOMAIN seq THEN seq[i] ELSE NIL
  IN
  /\ rb_first(tree) = At(1) /\ rb_last(tree) = At(Len(seq))
  /\ \A i \in DOMAIN seq : rb_next(tree, seq[i]) = At(i + 1) /\ rb_prev(tree, seq[i]) = At(i - 1)
  /\ \A key \in {NodeValue[n] : n \in Node} \cup {0} :
       LET above == {i \in DOMAIN seq : tree.value[seq[i]] > key}
           equal == {n \in inside : tree.value[n] = key}
       IN  /\ IF above = {} THEN rb_first_greater(tree, key) = NIL
              ELSE \E i \in above : /\ rb_first_greater(tree, key) = seq[i]
                                    /\ \A j \in above : i <= j
           /\ IF equal = {} THEN search_node(tree, key) = NIL
              ELSE search_node(tree, key) \in equal

Ordered == INSTANCE OrderedNodes WITH
  Val <- {NodeValue[n] : n \in Node}, list <- order

(* The tree read from left to right is a list sorted by value in which     *)
(* nodes added later stand behind those with the same value.               *)
ImplementsOrderedNodes == Ordered!Spec
=============================================================================
