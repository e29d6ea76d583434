---------------------------- MODULE BoundedQueue ----------------------------
(***************************************************************************)
(* What MpscRingBuffer promises: a bounded FIFO queue for many producers   *)
(* and one consumer.  An item takes its place in the queue first and is    *)
(* filled in afterwards; an unfilled item holds up those behind it.        *)
(***************************************************************************)
EXTENDS Integers, Sequences

CONSTANTS Producers, Items, Capacity

VARIABLES
    queue,      \* the items in order, each with whether it is filled in
    pushed,     \* per producer: what try_push is doing or has returned
    popped      \* what try_pop has last returned: an item or "empty"

vars == <<queue, pushed, popped>>

Empty == "empty"

Init ==
    /\ queue = <<>>
    /\ pushed = [p \in Producers |-> "returned"]
    /\ popped = Empty

Call(p) ==
    /\ pushed[p] \in {"returned", "full"}
    /\ pushed' = [pushed EXCEPT ![p] = "called"]
    /\ UNCHANGED <<queue, popped>>

\* try_push returns false only at a moment when the queue is full.
RefuseFull(p) ==
    /\ pushed[p] = "called"
    /\ Len(queue) = Capacity
    /\ pushed' = [pushed EXCEPT ![p] = "full"]
    /\ UNCHANGED <<queue, popped>>

Claim(p, item) ==
    /\ pushed[p] = "called"
    /\ Len(queue) < Capacity
    /\ queue' = Append(queue, [owner |-> p, item |-> item, filled |-> FALSE])
    /\ pushed' = [pushed EXCEPT ![p] = "claimed"]
    /\ UNCHANGED popped

Fill(p) ==
    /\ pushed[p] = "claimed"
    /\ \E i \in 1 .. Len(queue) :
          /\ queue[i].owner = p /\ ~ queue[i].filled
          /\ queue' = [queue EXCEPT ![i].filled = TRUE]
    /\ pushed' = [pushed EXCEPT ![p] = "returned"]
    /\ UNCHANGED popped

Pop ==
    /\ queue # <<>> /\ Head(queue).filled
    /\ popped' = Head(queue).item
    /\ queue' = Tail(queue)
    /\ UNCHANGED pushed

\* try_pop returns false only if there is nothing it could return.
FindEmpty ==
    /\ queue = <<>> \/ ~ Head(queue).filled
    /\ popped' = Empty
    /\ UNCHANGED <<queue, pushed>>

Next ==
    \/ \E p \in Producers : Call(p) \/ RefuseFull(p) \/ Fill(p)
    \/ \E p \in Producers, item \in Items : Claim(p, item)
    \/ Pop
    \/ FindEmpty

Spec == Init /\ [][Next]_vars

=============================================================================
