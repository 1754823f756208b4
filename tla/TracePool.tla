----------------------------- MODULE TracePool ------------------------------
(***************************************************************************)
(* The pools of trace.c: a fixed number of entries, each a key, whether it *)
(* is valid, and a datum.  A pool is a function from 1 .. capacity to      *)
(* entries.  Every function of trace.c takes the first entry that fits;    *)
(* here it is the only element of a set, empty when none fits.             *)
(***************************************************************************)
EXTENDS Integers

Zeroed == [valid |-> FALSE, key |-> 0, data |-> 0]

EmptyPool(capacity) == [i \in 1 .. capacity |-> Zeroed]

First(S) == {i \in S : \A j \in S : i <= j}

Matching(pool, key) ==
    {i \in DOMAIN pool : pool[i].valid /\ pool[i].key = key}

\* Where wp_trace_pool_insert_data() puts a datum.
Vacant(pool) == First({i \in DOMAIN pool : ~pool[i].valid})

\* What wp_trace_pool_find_data() finds and wp_trace_pool_remove_data() removes.
Found(pool, key) == First(Matching(pool, key))

\* Mutant: an entry stays valid.
Mutant_Removed(pool, i) == [pool EXCEPT ![i].key = 0]

Removed(pool, i) == [pool EXCEPT ![i].valid = FALSE]

Inserted(pool, i, key, data) ==
    [pool EXCEPT ![i] = [valid |-> TRUE, key |-> key, data |-> data]]

=============================================================================
