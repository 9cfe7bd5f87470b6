---------------------------- MODULE MCAllocators ----------------------------
(* The allocators of mg: heap.c with mempool.c on it, mg_alloc.c, and      *)
(* memalloc.c on the red-black tree of lib; and that tree called directly. *)
(* The four share nothing; a behaviour is one of either.                   *)
EXTENDS MemPool, MgRegion, MemAlloc, RbTreeCalls

VARIABLE which

vars == <<which, heapVars, poolVars, regionVars, memVars, treeVars>>

(* Eleven nodes, two with the same value; ten of them in ascending order   *)
(* are the shortest way to three black levels.                             *)
MCNodes     == {80 * i : i \in 0 .. 10}
MCNodeValue == [n \in MCNodes |-> <<1, 2, 3, 3, 4, 5, 6, 1, 7, 8, 9>>[n \div 80 + 1]]
MCUsual     == {80 * i : i \in 0 .. 6}
MCSpare     == {560}
MCFill      == <<0, 80, 160, 240, 320, 400, 480, 640, 720, 800>>

Init ==
  /\ which \in {"heap", "mg_alloc", "memalloc", "rbtree"}
  /\ PoolInit /\ RegionInit /\ MemInit /\ TreeInit
  /\ which # "heap" => place = Min(Places)
  /\ which # "memalloc" => skew = Min(Skews)
  /\ which # "rbtree" => plan = "any"

Next ==
  \/ /\ which = "heap" /\ PoolNext
     /\ UNCHANGED <<which, regionVars, memVars, treeVars>>
  \/ /\ which = "mg_alloc" /\ RegionNext
     /\ UNCHANGED <<which, heapVars, poolVars, memVars, treeVars>>
  \/ /\ which = "memalloc" /\ MemNext
     /\ UNCHANGED <<which, heapVars, poolVars, regionVars, treeVars>>
  \/ /\ which = "rbtree" /\ TreeNext
     /\ UNCHANGED <<which, heapVars, poolVars, regionVars, memVars>>

Spec == Init /\ [][Next]_vars
=============================================================================
