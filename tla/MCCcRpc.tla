------------------------------ MODULE MCCcRpc ------------------------------
(***************************************************************************)
(* Instances of CcRpc: two nodes and one connection between them.          *)
(***************************************************************************)
EXTENDS CcRpc, TLC

CONSTANTS a, b, a1, a2, b1, ta, tb, fs_read, long_name

MCNode      == {a, b}
MCTransport == {ta, tb}
MCOwner     == ta :> a @@ tb :> b
MCPeer      == ta :> tb @@ tb :> ta

(* Threads: one or two on node a, or one on each node. *)
OneCaller   == {a1}
Homes1      == a1 :> a
TwoCallers  == {a1, a2}
Homes2      == a1 :> a @@ a2 :> a
TwoSides    == {a1, b1}
HomesSides  == a1 :> a @@ b1 :> b

(* Names: METHOD_LEN is scaled down to 2, so that long_name does not fit.  *)
OneName     == {fs_read}
OneNameLen  == fs_read :> 1
OneRespLen  == fs_read :> 2
TwoNames    == {fs_read, long_name}
TwoNameLen  == fs_read :> 1 @@ long_name :> 2
TwoRespLen  == fs_read :> 2 @@ long_name :> 1

(* Node a calls, node b serves ... *)
BindsA       == {a} \X Name \X {ta}
RegistersB   == {b} \X {fs_read}
(* ... or both do both. *)
BindsAB      == BindsA \cup {b} \X Name \X {tb}
RegistersAB  == {a, b} \X {fs_read}

CallerSymmetry == Permutations({a1, a2})
=============================================================================
