------------------------------ MODULE HashMap ------------------------------
(***************************************************************************)
(* hashmap.c on the rings of link_list.c, as rpc.c uses it: one writer at  *)
(* a time, the holder of g_rpc_lock, and readers that do not take the lock *)
(* (rpc_transport_lookup).                                                 *)
(*                                                                         *)
(* A cell is a list_node: the head of a bucket (its index) or the node of  *)
(* an entry.  A reader follows next only, one load per step.  The writer's *)
(* stores are one step until the store that makes them visible to a        *)
(* reader; stores become visible in program order.                         *)
(***************************************************************************)
EXTENDS Integers, FiniteSets

CONSTANTS
  Key, Value,
  Entry,        \* the heap blocks that hold a struct hashmap_entry
  Cap,          \* bucket_count as passed to hashmap_init
  Hash,         \* hashmap_hash
  Reader,       \* threads that look up without the lock
  Null

(* next_power_of_two *)
PowersOfTwo == {2^i : i \in 0 .. 15}

bucket_count == CHOOSE p \in PowersOfTwo : p >= Cap /\ (p = 1 \/ p < 2 * Cap)

ASSUME HashMapAssumption ==
  /\ Cap \in 0 .. 255  \* rpc_init takes uint8_t
  /\ Hash \in [Key -> Nat]
  /\ IsFiniteSet(Entry)
  /\ Null \notin Key \cup Value \cup Entry
  /\ \A c \in Entry \cup {Null} : c \notin Nat
  /\ \A k \in Key, vs \in SUBSET (Value \cup {Null}) : Null # [key |-> k, seen |-> vs]

Bucket == 0 .. bucket_count - 1
Cell   == Bucket \cup Entry

(* hashmap_bucket: h & (bucket_count - 1) for a power of two *)
hashmap_bucket(k) == Hash[k] % bucket_count

VARIABLES
  shared,           \* TRUE for g_transport_map, which is read without the
                    \* lock and never shrinks; FALSE for g_pending
  alive,            \* hashmap_init has run, hashmap_destroy has not
  next, prev,       \* the links of every cell
  key, value,       \* the fields of every entry, Null while it is free
  wpc, went,        \* the writer: where it is, the entry in its hands
  arg,              \* history: the arguments of its latest put or remove
  rkey, rpos, seen, \* a reader's key, its p, and what the key was bound to
  answer            \* what the reader's last hashmap_get returned

ring    == <<next, prev>>
fields  == <<key, value>>
readers == <<rkey, rpos, answer>>
vars == <<shared, alive, ring, fields, wpc, went, arg, readers, seen>>

EmptyRing == [c \in Cell |-> IF c \in Bucket THEN c ELSE Null]

Init ==
  /\ shared \in BOOLEAN
  /\ alive = TRUE
  /\ next = EmptyRing /\ prev = EmptyRing
  /\ key = [e \in Entry |-> Null] /\ value = [e \in Entry |-> Null]
  /\ wpc = "idle" /\ went = Null /\ arg = Null
  /\ rkey = [r \in Reader |-> Null]
  /\ rpos = [r \in Reader |-> Null]
  /\ seen = [r \in Reader |-> {}]
  /\ answer = [r \in Reader |-> Null]

-----------------------------------------------------------------------------
(* The loop of hashmap_get, hashmap_put, hashmap_remove and                *)
(* hashmap_contains over links nx and keys ky: the first entry of the      *)
(* bucket with key k, Null when the walk is back at the head first.        *)
Search(nx, ky, k) ==
  LET b == hashmap_bucket(k)
      from[i \in 0 .. Cardinality(Entry)] == [p \in Cell |->
        IF p = b \/ i = 0 THEN Null
        ELSE IF ky[p] = k THEN p ELSE from[i - 1][nx[p]]]
  IN  from[Cardinality(Entry)][nx[b]]

Find(k) == Search(next, key, k)

hashmap_contains(k) == Find(k) # Null
hashmap_get(k) == LET e == Find(k) IN IF e = Null THEN Null ELSE value[e]

(* History: what a reader's key is bound to after the step. *)
Observe ==
  seen' = [r \in Reader |->
    IF rkey[r] = Null THEN seen[r]
    ELSE LET e == Search(next', key', rkey[r])
         IN  seen[r] \cup {IF e = Null THEN Null ELSE value'[e]}]

Quiet == alive /\ wpc = "idle"

-----------------------------------------------------------------------------
(* Variants named X_... change X the way a slip in the code would; none is *)
(* part of the specification.                                              *)

(* hashmap_put: the key is there, its value is replaced ... *)
PutReplace(k, v) ==
  /\ Quiet
  /\ hashmap_contains(k)
  /\ value' = [value EXCEPT ![Find(k)] = v]
  /\ arg' = <<k, v>>
  /\ UNCHANGED <<alive, ring, key, wpc, went, readers>>
  /\ Observe

(* ... or a new entry is filled in, its node linked to the cells it will   *)
(* stand between (the first two stores of list_add_next), *)
PutEntry(k, v, e) ==
  LET b == hashmap_bucket(k) IN
  /\ Quiet
  /\ ~hashmap_contains(k)
  /\ key[e] = Null
  /\ key' = [key EXCEPT ![e] = k]
  /\ value' = [value EXCEPT ![e] = v]
  /\ prev' = [prev EXCEPT ![e] = b]
  /\ next' = [next EXCEPT ![e] = next[b]]
  /\ wpc' = "link" /\ went' = e
  /\ arg' = <<k, v>>
  /\ UNCHANGED <<alive, readers, seen>>

(* and put into the ring (the last two). *)
PutLink ==
  LET b == prev[went] IN
  /\ wpc = "link"
  /\ prev' = [prev EXCEPT ![next[b]] = went]
  /\ next' = [next EXCEPT ![b] = went]
  /\ wpc' = "idle" /\ went' = Null
  /\ UNCHANGED <<alive, arg, fields, readers>>
  /\ Observe

RemoveUnlink_OneWay(k) ==
  LET e == Find(k) IN
  /\ ~shared /\ Quiet
  /\ hashmap_contains(k)
  /\ next' = [next EXCEPT ![prev[e]] = next[e]]
  /\ wpc' = "free" /\ went' = e
  /\ arg' = <<k, Null>>
  /\ UNCHANGED <<alive, prev, fields, readers>>
  /\ Observe

(* hashmap_remove: list_remove, *)
RemoveUnlink(k) ==
  LET e == Find(k) IN
  /\ ~shared /\ Quiet
  /\ hashmap_contains(k)
  /\ next' = [next EXCEPT ![prev[e]] = next[e]]
  /\ prev' = [prev EXCEPT ![next[e]] = prev[e]]
  /\ wpc' = "free" /\ went' = e
  /\ arg' = <<k, Null>>
  /\ UNCHANGED <<alive, fields, readers>>
  /\ Observe

(* then heap_free. *)
RemoveFree ==
  /\ wpc = "free"
  /\ key' = [key EXCEPT ![went] = Null]
  /\ value' = [value EXCEPT ![went] = Null]
  /\ next' = [next EXCEPT ![went] = Null]
  /\ prev' = [prev EXCEPT ![went] = Null]
  /\ wpc' = "idle" /\ went' = Null
  /\ UNCHANGED <<alive, arg, readers, seen>>

(* Every entry of every ring is unlinked and freed. *)
Emptied ==
  /\ key' = [e \in Entry |-> Null]
  /\ value' = [e \in Entry |-> Null]
  /\ next' = EmptyRing /\ prev' = EmptyRing

hashmap_clear ==
  /\ ~shared /\ Quiet
  /\ Emptied
  /\ UNCHANGED <<alive, arg, wpc, went, readers>>
  /\ Observe

hashmap_destroy ==
  /\ ~shared /\ Quiet
  /\ Emptied
  /\ alive' = FALSE
  /\ UNCHANGED <<wpc, went, readers, arg>>
  /\ Observe

hashmap_init ==
  /\ ~alive
  /\ alive' = TRUE
  /\ next' = EmptyRing /\ prev' = EmptyRing
  /\ UNCHANGED <<fields, wpc, went, readers, seen, arg>>

-----------------------------------------------------------------------------
(* hashmap_get without the lock: p = bucket->next, *)
GetBegin(r, k) ==
  /\ shared
  /\ rkey[r] = Null
  /\ rkey' = [rkey EXCEPT ![r] = k]
  /\ rpos' = [rpos EXCEPT ![r] = next[hashmap_bucket(k)]]
  /\ seen' = [seen EXCEPT ![r] = {hashmap_get(k)}]
  /\ UNCHANGED <<alive, ring, fields, wpc, went, arg, answer>>

GetReturn(r, v) ==
  /\ answer' = [answer EXCEPT ![r] = v]
  /\ rkey' = [rkey EXCEPT ![r] = Null]
  /\ rpos' = [rpos EXCEPT ![r] = Null]
  /\ seen' = [seen EXCEPT ![r] = {}]
  /\ UNCHANGED <<alive, ring, fields, wpc, went, arg>>

(* back at the head: NULL, *)
GetMiss(r) ==
  /\ rkey[r] # Null
  /\ rpos[r] = hashmap_bucket(rkey[r])
  /\ GetReturn(r, Null)

GetHit_NoCompare(r) ==
  /\ rkey[r] # Null
  /\ rpos[r] # hashmap_bucket(rkey[r])
  /\ GetReturn(r, value[rpos[r]])

(* the key: e->value, *)
GetHit(r) ==
  /\ rkey[r] # Null
  /\ rpos[r] # hashmap_bucket(rkey[r])
  /\ key[rpos[r]] = rkey[r]
  /\ GetReturn(r, value[rpos[r]])

GetNext_Restarts(r) ==
  /\ rkey[r] # Null
  /\ rpos[r] # hashmap_bucket(rkey[r])
  /\ key[rpos[r]] # rkey[r]
  /\ rpos' = [rpos EXCEPT ![r] = next[hashmap_bucket(rkey[r])]]
  /\ UNCHANGED <<alive, ring, fields, wpc, went, arg, rkey, answer, seen>>

(* another key: p = p->next. *)
GetNext(r) ==
  /\ rkey[r] # Null
  /\ rpos[r] # hashmap_bucket(rkey[r])
  /\ key[rpos[r]] # rkey[r]
  /\ rpos' = [rpos EXCEPT ![r] = next[rpos[r]]]
  /\ UNCHANGED <<alive, ring, fields, wpc, went, arg, rkey, answer, seen>>

-----------------------------------------------------------------------------
Get(r) == UNCHANGED shared /\ (GetMiss(r) \/ GetHit(r) \/ GetNext(r))

Next ==
  /\ UNCHANGED shared
  /\ \/ \E k \in Key, v \in Value :
          PutReplace(k, v) \/ \E e \in Entry : PutEntry(k, v, e)
     \/ PutLink
     \/ \E k \in Key : RemoveUnlink(k)
     \/ RemoveFree
     \/ hashmap_clear \/ hashmap_destroy \/ hashmap_init
     \/ \E r \in Reader : Get(r) \/ \E k \in Key : GetBegin(r, k)

Spec == Init /\ [][Next]_vars

(* A reader's thread keeps running. *)
FairSpec == Spec /\ \A r \in Reader : WF_vars(Get(r))

-----------------------------------------------------------------------------
(* Every variable has its type, and the writer holds an entry exactly when *)
(* it is in the middle of hashmap_put or hashmap_remove.                   *)
TypeOK ==
  /\ shared \in BOOLEAN
  /\ alive \in BOOLEAN
  /\ next \in [Cell -> Cell \cup {Null}]
  /\ prev \in [Cell -> Cell \cup {Null}]
  /\ key \in [Entry -> Key \cup {Null}]
  /\ value \in [Entry -> Value \cup {Null}]
  /\ wpc \in {"idle", "link", "free"}
  /\ went \in Entry \cup {Null}
  /\ went = Null <=> wpc = "idle"
  /\ rkey \in [Reader -> Key \cup {Null}]
  /\ rpos \in [Reader -> Cell \cup {Null}]
  /\ seen \in [Reader -> SUBSET (Value \cup {Null})]
  /\ answer \in [Reader -> Value \cup {Null}]
  /\ arg \in (Key \X (Value \cup {Null})) \cup {Null}

(* The cells on the ring of bucket b, its head included. *)
RingOf(b) ==
  LET upto[i \in 0 .. Cardinality(Entry)] ==
        IF i = 0 THEN {b} ELSE upto[i - 1] \cup {next[c] : c \in upto[i - 1]}
  IN  upto[Cardinality(Entry)]

(* The entries in use are exactly those on some ring, but for the one the  *)
(* writer holds; each is on the ring its key hashes to; no key is on a     *)
(* ring twice; prev is the inverse of next, so that list_remove, which     *)
(* trusts both, never cuts off an entry.                                   *)
RingsIntact ==
  /\ TypeOK
  /\ \A b \in Bucket :
       /\ \A c \in RingOf(b) : next[c] # Null /\ prev[next[c]] = c
       /\ \A c \in RingOf(b) \ {b} : hashmap_bucket(key[c]) = b
       /\ \A c, d \in RingOf(b) \ {b} : key[c] = key[d] => c = d
  /\ \A e \in Entry \ {went} :
       key[e] # Null <=> \E b \in Bucket : e \in RingOf(b)

Table == INSTANCE KeyedTable WITH
  table  <- [k \in Key |-> hashmap_get(k)],
  lookup <- [r \in Reader |-> IF rkey[r] = Null THEN Null
                              ELSE [key |-> rkey[r], seen |-> seen[r]]]

(* The rings are a table, and a lookup that takes no lock returns a value  *)
(* its key had while it ran: it neither misses a method that was bound     *)
(* before it began, nor returns the transport of another method.           *)
ImplementsTable == Table!Spec

(* An unlocked walk is never trapped on a ring that changes under it. *)
LookupReturns == \A r \in Reader : rkey[r] # Null ~> rkey[r] = Null

=============================================================================
