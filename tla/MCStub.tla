------------------------------- MODULE MCStub -------------------------------
(* Instances of Stub: the two methods of the nodes' xdef files, and one    *)
(* with more than one string.                                              *)
EXTENDS Stub

MCParams ==
  "shell.exec" :> <<"string">>
    @@ "fs.read" :> <<"string", "u32", "u32">>
    @@ "log.put" :> <<"string", "string">>

MCResults ==
  "shell.exec" :> <<"string", "u32">>
    @@ "fs.read" :> <<"bytes", "u32", "u32">>
    @@ "log.put" :> <<"bytes", "string">>

Repeat(b, n) == [i \in 1 .. n |-> b]

(* Lengths at the edges of both bytes of the 16-bit length (Base 5), and   *)
(* one that two bytes cannot say.                                          *)
MCStrings == {<<>>, Repeat(4, 5), Repeat(1, 24), Repeat(2, 27)}
MCBlobs   == {<<>>, Repeat(0, 6)}
MCWords   == {<<0, 0, 0, 1>>, <<4, 2, 0, 0>>}
=============================================================================
