------------------------------ MODULE SeenKeys ------------------------------
(***************************************************************************)
(* What IdempotencyCache promises: check_and_insert answers whether a key  *)
(* is among the most recently used ones, and makes it the most recent.     *)
(***************************************************************************)
EXTENDS LruSet

CONSTANT Keys

VARIABLES
    capacity,   \* how many keys are remembered
    lru,        \* the keys, most recently used first
    asked,      \* the key check_and_insert was last called with
    duplicate   \* what it returned

vars == <<capacity, lru, asked, duplicate>>

NoKey == "none"

Init ==
    /\ capacity \in Nat \ {0}
    /\ lru = <<>>
    /\ asked = NoKey /\ duplicate = FALSE

CheckAndInsert(key) ==
    /\ asked' = key
    /\ duplicate' = Contains(lru, key)
    /\ lru' = Remember(lru, key, capacity)
    /\ UNCHANGED capacity

Next == \E key \in Keys : CheckAndInsert(key)

Spec == Init /\ [][Next]_vars

=============================================================================
