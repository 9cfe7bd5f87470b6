------------------------------ MODULE MCTables ------------------------------
(* The two tables of lib that find a pointer by a number: hashmap.c, with  *)
(* two buckets and three keys that meet in one, and radix.c.  They share   *)
(* nothing; a behaviour is one of either.                                  *)
EXTENDS HashMap, Radix

VARIABLE which

tableVars == <<which, vars, radixVars>>

MCKeys   == 1 .. 3
MCHashes == <<5, 3, 7>>

TablesInit ==
  /\ which \in {"hashmap", "radix"} /\ Init /\ RadixInit
  /\ which = "radix" => shared

TablesNext ==
  \/ which = "hashmap" /\ Next /\ UNCHANGED <<which, radixVars>>
  \/ which = "radix" /\ RadixNext /\ UNCHANGED <<which, vars>>

(* A reader's thread keeps running. *)
TablesSpec ==
  /\ TablesInit /\ [][TablesNext]_tableVars
  /\ \A r \in Reader : WF_vars(Get(r))
=============================================================================
