----------------------------- MODULE KeyedTable -----------------------------
(***************************************************************************)
(* What hashmap.c promises its users: a table from keys to values.  A      *)
(* lookup that runs beside an update answers with what the key was bound   *)
(* to at some moment between its start and its end.                        *)
(***************************************************************************)
CONSTANTS Key, Value, Reader, Null

VARIABLES
  table,   \* table[k]: the value of key k, Null when there is none
  arg,     \* <<k, v>>: the writer's latest request, v = Null to remove
  lookup,  \* lookup[r]: reader r's key and what it was bound to since
  answer   \* answer[r]: what reader r's last lookup returned

vars == <<table, arg, lookup, answer>>

Init ==
  /\ table = [k \in Key |-> Null]
  /\ arg = Null
  /\ lookup = [r \in Reader |-> Null]
  /\ answer = [r \in Reader |-> Null]

(* The table becomes t; lookups under way may see it. *)
Become(t) ==
  /\ table' = t
  /\ lookup' = [r \in Reader |->
       IF lookup[r] = Null THEN Null
       ELSE [lookup[r] EXCEPT !.seen = @ \cup {t[lookup[r].key]}]]
  /\ UNCHANGED answer

Ask(k, v) ==
  /\ arg' = <<k, v>>
  /\ UNCHANGED <<table, lookup, answer>>

Update(k, v) ==
  /\ arg' = <<k, v>>
  /\ Become([table EXCEPT ![k] = v])

Clear ==
  /\ Become([k \in Key |-> Null])
  /\ UNCHANGED arg

Begin(r, k) ==
  /\ lookup[r] = Null
  /\ lookup' = [lookup EXCEPT ![r] = [key |-> k, seen |-> {table[k]}]]
  /\ UNCHANGED <<table, arg, answer>>

End(r) ==
  /\ lookup[r] # Null
  /\ \E v \in lookup[r].seen : answer' = [answer EXCEPT ![r] = v]
  /\ lookup' = [lookup EXCEPT ![r] = Null]
  /\ UNCHANGED <<table, arg>>

Next ==
  \/ \E k \in Key, v \in Value \cup {Null} : Ask(k, v) \/ Update(k, v)
  \/ Clear
  \/ \E r \in Reader : End(r) \/ \E k \in Key : Begin(r, k)

Spec == Init /\ [][Next]_vars
=============================================================================
