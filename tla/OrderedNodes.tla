---------------------------- MODULE OrderedNodes ----------------------------
(***************************************************************************)
(* What rbtree.c promises its users: a list of nodes in the order of their *)
(* values, a node standing behind those with the same value that came      *)
(* before it.                                                              *)
(***************************************************************************)
EXTENDS Naturals, SequencesExt

CONSTANTS Node, Val

VARIABLE list  \* pairs <<node, value>>

Nodes == {list[i][1] : i \in DOMAIN list}

Init == list = <<>>

Put(n, v) ==
  \E i \in 1 .. Len(list) + 1 :
    /\ \A j \in DOMAIN list : (j < i) <=> (list[j][2] <= v)
    /\ list' = InsertAt(list, i, <<n, v>>)

Take(n) == \E i \in DOMAIN list : list[i][1] = n /\ list' = RemoveAt(list, i)

Swap(old, new) ==
  list' = [i \in DOMAIN list |->
             IF list[i][1] = old THEN <<new, list[i][2]>> ELSE list[i]]

Next ==
  \/ \E n \in (Nodes' \ Nodes) \cap Node, v \in Val : Put(n, v)
  \/ \E n \in Nodes : Take(n)
  \/ \E old \in Nodes, new \in Node \ Nodes : Swap(old, new)

Spec == Init /\ [][Next]_list
=============================================================================
