---------------------------- MODULE CallContract ----------------------------
(***************************************************************************)
(* What rpc_call_with_tlv promises its callers, with no threads, sequence  *)
(* numbers, messages or locks: a call is executed at most once, and the    *)
(* value it returns tells the truth about that.                            *)
(***************************************************************************)
EXTENDS Integers

CONSTANTS Call, Null

VARIABLES
  begun,    \* calls the application has made
  runs,     \* runs[i]: how often the handler ran for call i
  refused,  \* calls for which the handler will not run
  outcome   \* outcome[i]: what call i returned, Null before

vars == <<begun, runs, refused, outcome>>

(* rpc_status_t, and its negated values for calls that were not sent. *)
Ran       == {0, 3}   \* RPC_STATUS_OK, RPC_STATUS_INTERNAL_ERROR
NotRun    == {1, 2}   \* METHOD_NOT_FOUND, INVALID_PARAMS
NotSent   == {-3, -4} \* -INTERNAL_ERROR, -TRANSPORT_ERROR
NotKnown  == {5}      \* RPC_STATUS_TIMEOUT

Init ==
  /\ begun = {}
  /\ runs = [i \in Call |-> 0]
  /\ refused = {}
  /\ outcome = [i \in Call |-> Null]

Begin(i) ==
  /\ i \notin begun
  /\ begun' = begun \cup {i}
  /\ UNCHANGED <<runs, refused, outcome>>

(* The handler may run before or after the call has timed out. *)
Execute(i) ==
  /\ i \in begun \ refused
  /\ runs[i] = 0
  /\ runs' = [runs EXCEPT ![i] = 1]
  /\ UNCHANGED <<begun, refused, outcome>>

Refuse(i) ==
  /\ i \in begun
  /\ runs[i] = 0
  /\ refused' = refused \cup {i}
  /\ UNCHANGED <<begun, runs, outcome>>

(* A call that never left its node. *)
Fail(i) ==
  /\ outcome[i] = Null
  /\ runs[i] = 0
  /\ begun' = begun \cup {i}
  /\ refused' = refused \cup {i}
  /\ \E r \in NotSent : outcome' = [outcome EXCEPT ![i] = r]
  /\ UNCHANGED runs

Return(i, r) ==
  /\ i \in begun
  /\ outcome[i] = Null
  /\ r \in Ran => runs[i] = 1
  /\ r \in NotRun => i \in refused
  /\ outcome' = [outcome EXCEPT ![i] = r]
  /\ UNCHANGED <<begun, runs, refused>>

Next ==
  \E i \in Call :
    \/ Begin(i) \/ Execute(i) \/ Refuse(i) \/ Fail(i)
    \/ \E r \in Ran \cup NotRun \cup NotKnown : Return(i, r)

Spec == Init /\ [][Next]_vars
=============================================================================
