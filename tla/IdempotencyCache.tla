-------------------------- MODULE IdempotencyCache --------------------------
(***************************************************************************)
(* IdempotencyCache (src/idempotency_cache.cpp): a fixed array of nodes,   *)
(* each on the free list or on the list of use, and in the latter case on  *)
(* the chain of its key's bucket.  Only the writer's thread calls it, so a *)
(* call is one step; the lists are followed link by link.                  *)
(***************************************************************************)
EXTENDS LruSet, FiniteSets, Functions

CONSTANTS
    Keys,
    Capacities,     \* the capacities the constructor may be given
    HashValues      \* the values IdempotencyKeyHash may have

ASSUME CacheAssumption == Capacities \subseteq Nat /\ HashValues \subseteq Nat

VARIABLES
    hash,           \* IdempotencyKeyHash: some function of the key
    cache,          \* the object; its nodes' fields are functions of the index
    asked,          \* the key check_and_insert was last called with
    duplicate       \* what it returned

vars == <<hash, cache, asked, duplicate>>

kInvalid == -1

NoKey == "none"

bit_ceil(n) ==
    LET ceil[m \in 0 .. n] == IF m <= 1 THEN 1 ELSE 2 * ceil[(m + 1) \div 2]
    IN  ceil[n]

\* The constructor: every node is on the free list, which uses next.
Construct(requested) ==
    LET size == IF requested < 1 THEN 1 ELSE requested
        Nodes == 0 .. size - 1
    IN  [key |-> [i \in Nodes |-> NoKey],
         occupied |-> [i \in Nodes |-> FALSE],
         prev |-> [i \in Nodes |-> kInvalid],
         next |-> [i \in Nodes |-> IF i + 1 < size THEN i + 1 ELSE kInvalid],
         hash_next |-> [i \in Nodes |-> kInvalid],
         buckets |-> [b \in 0 .. bit_ceil(2 * size) - 1 |-> kInvalid],
         lru_head |-> kInvalid, lru_tail |-> kInvalid, free_head |-> 0, size |-> 0]

Init ==
    /\ hash \in [Keys -> HashValues]
    /\ \E requested \in Capacities : cache = Construct(requested)
    /\ asked = NoKey /\ duplicate = FALSE

----------------------------------------------------------------------------

\* bucket_mask_ is the number of buckets, a power of two, less one.
bucket_for(c, key) == hash[key] % Cardinality(DOMAIN c.buckets)

\* The nodes a loop from head along link visits, in order.  It is cut off
\* after one node more than there are, when it goes round in circles.
Walk(link, head) ==
    LET steps == Cardinality(DOMAIN link)
        cur[n \in 1 .. steps + 1] ==
            IF n = 1 THEN head
            ELSE IF cur[n - 1] = kInvalid THEN kInvalid ELSE link[cur[n - 1]]
    IN  Restrict(cur, {n \in 1 .. steps + 1 : cur[n] # kInvalid})

\* Mutant: lru_tail_ is left alone.
unlink_lru_KeepTail(c, i) ==
    [c EXCEPT
        !.next = [j \in DOMAIN @ |->
                    IF j = i THEN kInvalid ELSE IF j = c.prev[i] THEN c.next[i] ELSE @[j]],
        !.prev = [j \in DOMAIN @ |->
                    IF j = i THEN kInvalid ELSE IF j = c.next[i] THEN c.prev[i] ELSE @[j]],
        !.lru_head = IF c.prev[i] = kInvalid THEN c.next[i] ELSE @]

unlink_lru(c, i) ==
    [c EXCEPT
        !.next = [j \in DOMAIN @ |->
                    IF j = i THEN kInvalid ELSE IF j = c.prev[i] THEN c.next[i] ELSE @[j]],
        !.prev = [j \in DOMAIN @ |->
                    IF j = i THEN kInvalid ELSE IF j = c.next[i] THEN c.prev[i] ELSE @[j]],
        !.lru_head = IF c.prev[i] = kInvalid THEN c.next[i] ELSE @,
        !.lru_tail = IF c.next[i] = kInvalid THEN c.prev[i] ELSE @]

push_front_lru(c, i) ==
    [c EXCEPT
        !.prev = [j \in DOMAIN @ |->
                    IF j = c.lru_head THEN i ELSE IF j = i THEN kInvalid ELSE @[j]],
        !.next[i] = c.lru_head,
        !.lru_head = i,
        !.lru_tail = IF @ = kInvalid THEN i ELSE @]

\* Mutant: a node behind the head of its chain stays there.
remove_from_bucket_HeadOnly(c, i) ==
    LET bucket == bucket_for(c, c.key[i])
    IN  IF c.buckets[bucket] = i
        THEN [c EXCEPT !.buckets[bucket] = c.hash_next[i], !.hash_next[i] = kInvalid]
        ELSE c

remove_from_bucket(c, i) ==
    LET bucket == bucket_for(c, c.key[i])
        chain == Walk(c.hash_next, c.buckets[bucket])
    IN  IF ~ Contains(chain, i) THEN c
        ELSE LET n == CHOOSE n \in 1 .. Len(chain) :
                         chain[n] = i /\ \A m \in 1 .. n - 1 : chain[m] # i
             IN  [c EXCEPT
                    !.buckets[bucket] = IF n = 1 THEN c.hash_next[i] ELSE @,
                    !.hash_next = [j \in DOMAIN @ |->
                        IF j = i THEN kInvalid
                        ELSE IF n > 1 /\ j = chain[n - 1] THEN @[i] ELSE @[j]]]

----------------------------------------------------------------------------
(* check_and_insert. *)

KeyChain(key) == Walk(cache.hash_next, cache.buckets[bucket_for(cache, key)])

\* Where the key's chain has a node that holds the key.
Hits(key) ==
    LET chain == KeyChain(key)
    IN  {n \in DOMAIN chain : cache.occupied[chain[n]] /\ cache.key[chain[n]] = key}

\* The loop stops at the first of them.
Hit(key) == KeyChain(key)[CHOOSE n \in Hits(key) : \A m \in Hits(key) : n <= m]

\* Mutant: a key that is seen again keeps its place.
FindDuplicate_NoMove(key) ==
    /\ Hits(key) # {}
    /\ asked' = key /\ duplicate' = TRUE
    /\ UNCHANGED <<hash, cache>>

FindDuplicate(key) ==
    /\ Hits(key) # {}
    /\ cache' = push_front_lru(unlink_lru(cache, Hit(key)), Hit(key))
    /\ asked' = key /\ duplicate' = TRUE
    /\ UNCHANGED hash

\* Give node i of c the key and put it in front of its chain and of the list.
Occupy(c, i, key) ==
    LET bucket == bucket_for(c, key)
    IN  push_front_lru([c EXCEPT !.key[i] = key, !.occupied[i] = TRUE,
                                 !.hash_next[i] = c.buckets[bucket], !.buckets[bucket] = i], i)

InsertInFreeNode(key) ==
    /\ Hits(key) = {} /\ cache.free_head # kInvalid
    /\ LET i == cache.free_head
       IN  cache' = Occupy([cache EXCEPT !.free_head = cache.next[i], !.next[i] = kInvalid,
                                         !.size = @ + 1], i, key)
    /\ asked' = key /\ duplicate' = FALSE
    /\ UNCHANGED hash

InsertEvicting(key) ==
    /\ Hits(key) = {} /\ cache.free_head = kInvalid
    /\ LET i == cache.lru_tail
       IN  cache' = Occupy(unlink_lru(remove_from_bucket(cache, i), i), i, key)
    /\ asked' = key /\ duplicate' = FALSE
    /\ UNCHANGED hash

Next ==
    \E key \in Keys : FindDuplicate(key) \/ InsertInFreeNode(key) \/ InsertEvicting(key)

Spec == Init /\ [][Next]_vars

----------------------------------------------------------------------------
(* Properties. *)

Nodes == DOMAIN cache.key

ListOfUse == Walk(cache.next, cache.lru_head)

FreeList == Walk(cache.next, cache.free_head)

\* Every node is on exactly one of the two lists that share the next links,
\* once; the list of use reads the same from its tail along prev, and holds
\* exactly the occupied nodes, size of them.
ListsPartitionNodes ==
    /\ Range(ListOfUse) \cup Range(FreeList) = Nodes
    /\ Len(ListOfUse) + Len(FreeList) = Cardinality(Nodes)
    /\ Walk(cache.prev, cache.lru_tail) = [n \in 1 .. Len(ListOfUse) |->
                                               ListOfUse[Len(ListOfUse) + 1 - n]]
    /\ Range(ListOfUse) = {i \in Nodes : cache.occupied[i]}
    /\ cache.size = Len(ListOfUse)

Chain(b) == Walk(cache.hash_next, cache.buckets[b])

\* Every chain ends, and holds exactly the occupied nodes whose keys belong to
\* its bucket, once each: a key that was evicted is not found any more, one
\* that was not is, and no key has two nodes.
ChainsHoldOccupied ==
    /\ \A b \in DOMAIN cache.buckets :
          /\ Range(Chain(b)) =
                {i \in Nodes : cache.occupied[i] /\ bucket_for(cache, cache.key[i]) = b}
          /\ Len(Chain(b)) = Cardinality(Range(Chain(b)))
    /\ \A i, j \in Range(ListOfUse) : cache.key[i] = cache.key[j] => i = j

Abstract == INSTANCE SeenKeys WITH
    capacity <- Cardinality(Nodes),
    lru <- [n \in 1 .. Len(ListOfUse) |-> cache.key[ListOfUse[n]]]

\* The cache is the bounded set of recent keys that the engine relies on
\* (idempotency_cache.hpp:20): whatever collides and however often nodes are
\* reused, a key is a duplicate if and only if fewer than capacity other keys
\* were used since it was.
ImplementsSeenKeys == Abstract!Spec

=============================================================================
