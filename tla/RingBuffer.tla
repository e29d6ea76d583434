----------------------------- MODULE RingBuffer -----------------------------
(***************************************************************************)
(* MpscRingBuffer (include/ledger/ring_buffer.hpp), one action per access  *)
(* to shared memory: the bounded queue of many producers and one consumer. *)
(* Memory is sequentially consistent.                                      *)
(*                                                                         *)
(* Positions and sequence numbers are std::size_t.  The variables hold     *)
(* them unreduced, and the code's comparisons see them modulo Modulus.     *)
(***************************************************************************)
EXTENDS Integers, Sequences

CONSTANTS
    Producers,      \* the threads that call try_push
    Items,          \* what they push
    Capacity,       \* capacity_pow2
    Modulus,        \* 2^64, the number of values of std::size_t
    MaxStall,       \* how many exchanges may succeed while one call is between
                    \* its load of enqueue_pos_ and its exchange
    MaxPos,         \* bound: how far the positions run
    Watched         \* the places that EveryClaimIsPopped follows

\* A call is not overtaken half way round the positions.
ASSUME RingAssumption ==
    /\ Capacity \in Nat \ {0} /\ \E k \in 0 .. Capacity : Capacity = 2 ^ k
    /\ Modulus \in Nat /\ \E k \in 1 .. Modulus : Modulus = k * Capacity
    /\ MaxStall \in Nat /\ 2 * (Capacity + MaxStall) < Modulus
    /\ MaxPos \in Nat /\ Watched \subseteq 1 .. MaxPos

VARIABLES
    sequence, data,             \* the cells
    enqueue_pos, dequeue_pos,
    pc, pos, item,              \* try_push, per producer: position in the code,
                                \* its locals and its argument
    result,                     \* per producer: "true" or "false", once returned
    consumer, out,              \* try_pop: position in the code, what it read
    popped,                     \* what it has last returned: an item or "empty"
    claimed                     \* history: the owner and item of each position
                                \* from dequeue_pos up to enqueue_pos

producerVars == <<pc, pos, item, result>>
consumerVars == <<dequeue_pos, consumer, out, popped>>
vars == <<sequence, data, enqueue_pos, producerVars, consumerVars, claimed>>

NoItem == "none"

Cells == 0 .. Capacity - 1

\* buffer_[pos & mask_]; the capacity is a power of two.
Cell(n) == n % Capacity

\* Equality of two std::size_t.
Same(a, b) == a % Modulus = b % Modulus

\* Mutant: the difference is not taken modulo the width.
SignedDiff_Unwrapped(a, b) == (a % Modulus) - (b % Modulus)

\* static_cast<std::intptr_t>(a) - static_cast<std::intptr_t>(b), which wraps
\* on the supported targets.
SignedDiff(a, b) ==
    LET d == (a - b) % Modulus
    IN  IF 2 * d < Modulus THEN d ELSE d - Modulus

Init ==
    /\ sequence = [c \in Cells |-> c]
    /\ data = [c \in Cells |-> NoItem]
    /\ enqueue_pos = 0
    /\ dequeue_pos = 0
    /\ pc = [p \in Producers |-> "idle"]
    /\ pos = [p \in Producers |-> 0]
    /\ item = [p \in Producers |-> NoItem]
    /\ result = [p \in Producers |-> "true"]
    /\ consumer = "idle"
    /\ out = NoItem
    /\ popped = "empty"
    /\ claimed = <<>>

----------------------------------------------------------------------------
(* try_push *)

LoadPos(p) ==
    /\ pc[p] = "idle" /\ enqueue_pos < MaxPos
    /\ \E i \in Items : item' = [item EXCEPT ![p] = i]
    /\ pos' = [pos EXCEPT ![p] = enqueue_pos]
    /\ pc' = [pc EXCEPT ![p] = "load_seq"]
    /\ UNCHANGED <<sequence, data, enqueue_pos, result, consumerVars, claimed>>

\* Mutant: a cell that is still in use is taken like a free one.
LoadSeq_NeverFull(p) ==
    /\ pc[p] = "load_seq"
    /\ pc' = [pc EXCEPT ![p] = IF sequence[Cell(pos[p])] <= pos[p] THEN "cas" ELSE "reload"]
    /\ UNCHANGED <<sequence, data, enqueue_pos, pos, item, result, consumerVars, claimed>>

\* Load the cell's sequence and act on its difference to pos.
LoadSeq(p) ==
    /\ pc[p] = "load_seq"
    /\ LET diff == SignedDiff(sequence[Cell(pos[p])], pos[p])
       IN  \/ /\ diff = 0
              /\ pc' = [pc EXCEPT ![p] = "cas"]
              /\ UNCHANGED result
           \/ /\ diff < 0
              /\ pc' = [pc EXCEPT ![p] = "idle"]
              /\ result' = [result EXCEPT ![p] = "false"]
           \/ /\ diff > 0
              /\ pc' = [pc EXCEPT ![p] = "reload"]
              /\ UNCHANGED result
    /\ UNCHANGED <<sequence, data, enqueue_pos, pos, item, consumerVars, claimed>>

ReloadPos(p) ==
    /\ pc[p] = "reload"
    /\ pos' = [pos EXCEPT ![p] = enqueue_pos]
    /\ pc' = [pc EXCEPT ![p] = "load_seq"]
    /\ UNCHANGED <<sequence, data, enqueue_pos, item, result, consumerVars, claimed>>

\* Mutant: a plain store in place of the exchange.
CasSucceeds_Store(p) ==
    /\ pc[p] = "cas"
    /\ enqueue_pos' = pos[p] + 1
    /\ claimed' = Append(claimed, [owner |-> p, item |-> item[p]])
    /\ pc' = [pc EXCEPT ![p] = "write"]
    /\ UNCHANGED <<sequence, data, pos, item, result, consumerVars>>

\* The exchange compares the current value with pos; the last conjunct is the
\* bound on the calls it overtakes.
CasSucceeds(p) ==
    /\ pc[p] = "cas" /\ Same(enqueue_pos, pos[p])
    /\ \A q \in Producers \ {p} :
          pc[q] \in {"load_seq", "cas"} => enqueue_pos + 1 <= pos[q] + MaxStall
    /\ enqueue_pos' = enqueue_pos + 1
    /\ claimed' = Append(claimed, [owner |-> p, item |-> item[p]])
    /\ pc' = [pc EXCEPT ![p] = "write"]
    /\ UNCHANGED <<sequence, data, pos, item, result, consumerVars>>

\* A weak exchange may also fail although the values agree; either way it
\* leaves the current value in pos.
CasFails(p) ==
    /\ pc[p] = "cas"
    /\ pos' = [pos EXCEPT ![p] = enqueue_pos]
    /\ pc' = [pc EXCEPT ![p] = "load_seq"]
    /\ UNCHANGED <<sequence, data, enqueue_pos, item, result, consumerVars, claimed>>

\* Mutant: the cell of the value the exchange stored, not of the one it replaced.
WriteData_NextCell(p) ==
    /\ pc[p] = "write"
    /\ data' = [data EXCEPT ![Cell(pos[p] + 1)] = item[p]]
    /\ pc' = [pc EXCEPT ![p] = "store_seq"]
    /\ UNCHANGED <<sequence, enqueue_pos, pos, item, result, consumerVars, claimed>>

WriteData(p) ==
    /\ pc[p] = "write"
    /\ data' = [data EXCEPT ![Cell(pos[p])] = item[p]]
    /\ pc' = [pc EXCEPT ![p] = "store_seq"]
    /\ UNCHANGED <<sequence, enqueue_pos, pos, item, result, consumerVars, claimed>>

\* Mutant: the sequence number is one lap behind.
StoreSeq_Behind(p) ==
    /\ pc[p] = "store_seq"
    /\ sequence' = [sequence EXCEPT ![Cell(pos[p])] = pos[p] + 1 - Capacity]
    /\ pc' = [pc EXCEPT ![p] = "idle"]
    /\ result' = [result EXCEPT ![p] = "true"]
    /\ UNCHANGED <<data, enqueue_pos, pos, item, consumerVars, claimed>>

StoreSeq(p) ==
    /\ pc[p] = "store_seq"
    /\ sequence' = [sequence EXCEPT ![Cell(pos[p])] = pos[p] + 1]
    /\ pc' = [pc EXCEPT ![p] = "idle"]
    /\ result' = [result EXCEPT ![p] = "true"]
    /\ UNCHANGED <<data, enqueue_pos, pos, item, consumerVars, claimed>>

----------------------------------------------------------------------------
(* try_pop *)

PopLoadSeq ==
    /\ consumer = "idle"
    /\ \/ /\ SignedDiff(sequence[Cell(dequeue_pos)], dequeue_pos + 1) = 0
          /\ consumer' = "read"
          /\ UNCHANGED popped
       \/ /\ SignedDiff(sequence[Cell(dequeue_pos)], dequeue_pos + 1) # 0
          /\ popped' = "empty"
          /\ UNCHANGED consumer
    /\ UNCHANGED <<sequence, data, enqueue_pos, dequeue_pos, producerVars, out, claimed>>

ReadData ==
    /\ consumer = "read"
    /\ out' = data[Cell(dequeue_pos)]
    /\ consumer' = "release"
    /\ UNCHANGED <<sequence, data, enqueue_pos, dequeue_pos, producerVars, popped, claimed>>

\* Mutant: dequeue_pos_ + mask_, without the + 1.
ReleaseCell_Mask ==
    /\ consumer = "release"
    /\ sequence' = [sequence EXCEPT ![Cell(dequeue_pos)] = dequeue_pos + Capacity - 1]
    /\ dequeue_pos' = dequeue_pos + 1
    /\ popped' = out
    /\ claimed' = Tail(claimed)
    /\ consumer' = "idle"
    /\ UNCHANGED <<data, enqueue_pos, producerVars, out>>

ReleaseCell ==
    /\ consumer = "release"
    /\ sequence' = [sequence EXCEPT ![Cell(dequeue_pos)] = dequeue_pos + Capacity]
    /\ dequeue_pos' = dequeue_pos + 1
    /\ popped' = out
    /\ claimed' = Tail(claimed)
    /\ consumer' = "idle"
    /\ UNCHANGED <<data, enqueue_pos, producerVars, out>>

----------------------------------------------------------------------------

Push(p) ==
    LoadSeq(p) \/ ReloadPos(p) \/ CasSucceeds(p) \/ CasFails(p) \/ WriteData(p) \/ StoreSeq(p)

Consumer == PopLoadSeq \/ ReadData \/ ReleaseCell

Next == (\E p \in Producers : LoadPos(p) \/ Push(p)) \/ Consumer

Spec == Init /\ [][Next]_vars

\* The writer's loop keeps calling try_pop, a try_push that was called runs
\* on, and a weak exchange does not fail for ever on values that agree.
Fairness ==
    /\ WF_vars(Consumer)
    /\ \A p \in Producers : WF_vars(Push(p)) /\ SF_vars(CasSucceeds(p))

FairSpec == Spec /\ Fairness

----------------------------------------------------------------------------
(* Properties. *)

\* Positions and sequence numbers are natural numbers, locals are in range.
TypeOK ==
    /\ sequence \in [Cells -> Nat]
    /\ data \in [Cells -> Items \cup {NoItem}]
    /\ enqueue_pos \in Nat /\ dequeue_pos \in Nat
    /\ pc \in [Producers -> {"idle", "load_seq", "reload", "cas", "write", "store_seq"}]
    /\ pos \in [Producers -> Nat]
    /\ item \in [Producers -> Items \cup {NoItem}]
    /\ result \in [Producers -> {"true", "false"}]
    /\ consumer \in {"idle", "read", "release"}
    /\ out \in Items \cup {NoItem} /\ popped \in Items \cup {NoItem, "empty"}
    /\ claimed \in Seq([owner : Producers, item : Items \cup {NoItem}])

\* The queue never holds more items than it has cells: an exchange on
\* enqueue_pos succeeds only for a cell the consumer has given back.
WithinCapacity ==
    dequeue_pos <= enqueue_pos /\ enqueue_pos <= dequeue_pos + Capacity

\* A cell's data, which is not atomic, is never accessed by two threads at
\* once: neither by two producers nor by a producer and the consumer.
NoDataRace ==
    \A p \in Producers :
        pc[p] = "write" =>
            /\ consumer = "read" => Cell(pos[p]) # Cell(dequeue_pos)
            /\ \A q \in Producers \ {p} :
                  pc[q] = "write" => Cell(pos[p]) # Cell(pos[q])

\* The exchange has given p a position that it has not filled yet.
Owns(p) == pc[p] \in {"write", "store_seq"}

\* The protocol of the sequence numbers, which makes the two invariants above
\* inductive.  From dequeue_pos on, a cell shows its position until it is
\* filled and one more until it is given back; a producer that won the exchange
\* owns its position alone and its cell is not filled; one that is about to
\* try the exchange can only win a cell the consumer has given back.
CellProtocol ==
    /\ WithinCapacity
    /\ Len(claimed) = enqueue_pos - dequeue_pos
    /\ \A n \in dequeue_pos .. enqueue_pos - 1 : sequence[Cell(n)] \in {n, n + 1}
    /\ \A n \in enqueue_pos .. dequeue_pos + Capacity - 1 : sequence[Cell(n)] = n
    /\ \A p \in Producers : Owns(p) =>
          /\ pos[p] \in dequeue_pos .. enqueue_pos - 1
          /\ sequence[Cell(pos[p])] = pos[p]
          /\ \A q \in Producers \ {p} : Owns(q) => pos[q] # pos[p]
    /\ \A p \in Producers : pc[p] \in {"load_seq", "cas"} =>
          pos[p] <= enqueue_pos /\ enqueue_pos <= pos[p] + MaxStall
    /\ \A p \in Producers :
          pc[p] = "cas" /\ pos[p] = enqueue_pos => enqueue_pos < dequeue_pos + Capacity
    /\ consumer # "idle" => sequence[Cell(dequeue_pos)] = dequeue_pos + 1

\* The place in claimed of a position.
Place(n) == n - dequeue_pos + 1

\* What happens to the items meanwhile: a place keeps its owner and the item it
\* pushes, a cell that shows it is filled holds the item of its place, and the
\* consumer takes the item of the oldest place.
DataProtocol ==
    /\ \A p \in Producers : pc[p] \in {"load_seq", "reload", "cas"} => item[p] \in Items
    /\ \A p \in Producers : Owns(p) =>
          claimed[Place(pos[p])].owner = p /\ claimed[Place(pos[p])].item = item[p]
    /\ \A p \in Producers : pc[p] = "store_seq" => data[Cell(pos[p])] = item[p]
    /\ \A n \in dequeue_pos .. enqueue_pos - 1 :
          sequence[Cell(n)] = n + 1 => data[Cell(n)] = claimed[Place(n)].item
    /\ consumer = "release" => out = claimed[1].item

Filled(i) == sequence[Cell(dequeue_pos + i - 1)] = dequeue_pos + i

\* The queue of BoundedQueue, and what its producers see.
AbstractQueue ==
    [i \in 1 .. Len(claimed) |->
        [owner |-> claimed[i].owner, item |-> claimed[i].item, filled |-> Filled(i)]]

AbstractPushed ==
    [p \in Producers |->
        IF pc[p] \in {"load_seq", "reload", "cas"} THEN "called"
        ELSE IF Owns(p) THEN "claimed"
        ELSE IF result[p] = "false" THEN "full" ELSE "returned"]

Abstract == INSTANCE BoundedQueue WITH queue <- AbstractQueue, pushed <- AbstractPushed

\* The ring buffer is a BoundedQueue: first in, first out over all producers,
\* nothing lost, duplicated or mixed up, try_push refuses only when the queue
\* is full and try_pop only when the oldest item is not there yet.
ImplementsQueue == Abstract!Spec

\* Every item that got a place in the queue is popped in the end.
EveryClaimIsPopped ==
    \A n \in Watched : enqueue_pos >= n ~> dequeue_pos >= n

=============================================================================
