---------------------------- MODULE MCCacheAside ----------------------------
(* Two keys, and a write that names them in every way. *)
EXTENDS CacheAside

CONSTANTS k1, k2

MCKeys == {k1, k2}

Reads  == {[op |-> "read", key |-> k] : k \in MCKeys}
Writes == {[op |-> "write", keyed |-> d, key |-> k1, extra |-> e, pattern |-> s] :
             d \in BOOLEAN, e \in {{}, {k2}}, s \in {{}, {k2}, {k1, k2}}}

MCRequests == Reads \cup Writes
=============================================================================
