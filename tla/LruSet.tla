------------------------------- MODULE LruSet -------------------------------
(***************************************************************************)
(* What IdempotencyCache promises: a bounded set of keys in order of their *)
(* last use, most recent first.                                            *)
(***************************************************************************)
EXTENDS Integers, Sequences

Contains(lru, key) == \E i \in 1 .. Len(lru) : lru[i] = key

\* Mutant: a full cache does not evict.
Remember_Unbounded(lru, key, capacity) == <<key>> \o SelectSeq(lru, LAMBDA k : k # key)

\* Mutant: eviction starts one key too early.
Remember_Early(lru, key, capacity) ==
    LET used == <<key>> \o SelectSeq(lru, LAMBDA k : k # key)
    IN  IF Len(used) >= capacity THEN SubSeq(used, 1, capacity - 1) ELSE used

\* The place that becomes free: where the key is; or else the next one after
\* the last, or the last one if the cache is full.
Place(lru, key, capacity) ==
    IF Contains(lru, key) THEN CHOOSE i \in 1 .. Len(lru) : lru[i] = key
    ELSE IF Len(lru) < capacity THEN Len(lru) + 1 ELSE capacity

\* check_and_insert: the key becomes the most recent one, and those before the
\* place that became free move down; a new key that finds the cache full evicts
\* the least recent one.
Remember(lru, key, capacity) ==
    LET place == Place(lru, key, capacity)
    IN  [i \in 1 .. IF place > Len(lru) THEN place ELSE Len(lru) |->
            IF i = 1 THEN key ELSE IF i <= place THEN lru[i - 1] ELSE lru[i]]

=============================================================================
