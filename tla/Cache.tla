------------------------------- MODULE Cache -------------------------------
(***************************************************************************)
(* The TTL cache in front of every upstream (internal/places/cache.go and  *)
(* its copy internal/providers/cache.go): a map from keys to a value and   *)
(* the time it expires.  Both of its operations hold the mutex from end to *)
(* end, so each is one step of whoever calls it; between a miss and the    *)
(* put that answers it nothing is held.                                    *)
(***************************************************************************)
EXTENDS Integers, FiniteSets, Tables

CONSTANT CacheMax       \* entries a cache holds at most

ASSUME CacheMaxAssumption == CacheMax \in Nat \ {0}

\* The keys get answers at time t: an entry is good for the tick it expires in.
Live(cache, t) == {k \in DOMAIN cache : ~(t > cache[k].expires)}

\* Mutant: only the expired entries are dropped.
ExpiredOnly(cache, t) ==
    {IF Cardinality(DOMAIN cache) < CacheMax THEN DOMAIN cache ELSE Live(cache, t)}

\* What put makes room in a cache to: once it is full the expired entries go,
\* and then arbitrary ones for as long as it is full.  The key that is put is
\* not spared, nor does it need the room when it is there already.
Evictions(cache, t) ==
    LET live == Live(cache, t) IN
    IF Cardinality(DOMAIN cache) < CacheMax THEN {DOMAIN cache}
    ELSE IF Cardinality(live) < CacheMax THEN {live}
    ELSE {kept \in SUBSET live : Cardinality(kept) = CacheMax - 1}

\* The caches that put(key, val) at time t can leave.
AfterPut(cache, key, val, t, ttl) ==
    {Put([k \in kept |-> cache[k]], key, [val |-> val, expires |-> t + ttl]) :
        kept \in Evictions(cache, t)}
=============================================================================
