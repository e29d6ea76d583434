---------------------------- MODULE LedgerEngine ----------------------------
(***************************************************************************)
(* The running engine: producer threads, the queue, and the single writer  *)
(* thread's pipeline of src/engine.cpp, driven the way src/main.cpp does.  *)
(*                                                                         *)
(* One action per step another thread, the disk or a crash can tell apart. *)
(* What process_pending does between two such steps (deduplicate, validate *)
(* and write()) touches only the writer's own state, so it is one action.  *)
(* The queue is the FIFO that RingBuffer implements (BoundedQueue).        *)
(***************************************************************************)
EXTENDS LedgerState, Wal, LruSet, FiniteSets

CONSTANTS
    Producers,              \* the producer threads
    TxPerProducer,          \* kTxPerProducer
    Requests,               \* what clients may ask for: idempotency key and legs
    OpeningAccounts,        \* the accounts registered before traffic starts
    RingCapacity,           \* Config::ring_buffer_capacity
    IdempotencyCapacity,    \* Config::idempotency_capacity (the cache clamps 0 to 1)
    PublishEveryN,          \* Config::publish_snapshot_every_n
    SyncModes,              \* the values Config::sync_mode may have
    Faults                  \* which system calls may fail: here "write" and "fsync"

ASSUME EngineAssumption ==
    /\ IsFiniteSet(Producers)
    /\ TxPerProducer \in Nat
    /\ \A request \in Requests : request.legs \in LegList
    /\ OpeningAccounts \subseteq [id : AccountId, account : Account]
    /\ RingCapacity \in Nat \ {0}
    /\ IdempotencyCapacity \in Nat \ {0}
    /\ PublishEveryN \in Nat
    /\ SyncModes \subseteq SyncMode

VARIABLES
    setup,                      \* TRUE until the producers are started
    working, published,         \* LedgerStateStore
    processed_since_publish,
    idempotency,                \* keys, most recently used first
    ring,                       \* pending requests, oldest first
    next_tx_id,
    wal,
    writer,                     \* where process_pending is, and its request
    pc, tx, completion,         \* per producer: position, transaction, slot
    iteration, accepted, rejected,
    commits,                    \* history: id and resulting ledger of each commit
    popped                      \* history: the keys dequeued and what became of them

producerVars == <<pc, tx, iteration, accepted, rejected, next_tx_id>>
stateVars == <<working, published, processed_since_publish>>
vars == <<setup, stateVars, idempotency, ring, wal, writer, producerVars,
          completion, commits, popped>>

NoRequest == [stage |-> "idle"]

Fresh == [done |-> FALSE, error |-> "None"]

Init ==
    /\ setup = TRUE
    /\ working = EmptyLedgerState
    /\ published = EmptyLedgerState
    /\ processed_since_publish = 0
    /\ idempotency = <<>>
    /\ ring = <<>>
    /\ next_tx_id = 0
    /\ \E mode \in SyncModes : wal = OpenLog(<<>>, 0, mode)
    /\ writer = NoRequest
    /\ pc = [p \in Producers |-> "idle"]
    /\ tx = [p \in Producers |-> [id |-> 0]]
    /\ completion = [p \in Producers |-> Fresh]
    /\ iteration = [p \in Producers |-> 0]
    /\ accepted = 0
    /\ rejected = 0
    /\ commits = <<[id |-> 0, ledger |-> EmptyLedgerState]>>
    /\ popped = <<>>

----------------------------------------------------------------------------
(* Setup, by the main thread, before any producer runs.                    *)

AddAccount(opening) ==
    /\ setup
    /\ working' = add_account(working, opening.id, opening.account)
    /\ commits' = <<[id |-> 0, ledger |-> working']>>
    /\ UNCHANGED <<setup, published, processed_since_publish, idempotency, ring,
                   wal, writer, producerVars, completion, popped>>

StartProducers ==
    /\ setup
    /\ setup' = FALSE
    /\ UNCHANGED <<stateVars, idempotency, ring, wal, writer, producerVars,
                   completion, commits, popped>>

----------------------------------------------------------------------------
(* A producer's loop. *)

Allocate(p) ==
    /\ ~ setup
    /\ pc[p] = "idle" /\ iteration[p] < TxPerProducer
    /\ iteration' = [iteration EXCEPT ![p] = @ + 1]
    /\ next_tx_id' = next_tx_id + 1
    /\ \E request \in Requests :
          tx' = [tx EXCEPT ![p] =
                    [id |-> next_tx_id + 1, key |-> request.key, legs |-> request.legs]]
    /\ completion' = [completion EXCEPT ![p] = Fresh]
    /\ pc' = [pc EXCEPT ![p] = "allocated"]
    /\ UNCHANGED <<setup, stateVars, idempotency, ring, wal, writer, accepted,
                   rejected, commits, popped>>

Submit(p) ==
    /\ pc[p] = "allocated"
    /\ completion' = [completion EXCEPT ![p].done = FALSE]
    /\ \/ /\ Len(ring) < RingCapacity
          /\ ring' = Append(ring, [tx |-> tx[p], completion |-> p])
          /\ pc' = [pc EXCEPT ![p] = "waiting"]
          /\ UNCHANGED rejected
       \/ /\ Len(ring) >= RingCapacity          \* QueueFull
          /\ pc' = [pc EXCEPT ![p] = "idle"]
          /\ rejected' = rejected + 1
          /\ UNCHANGED ring
    /\ UNCHANGED <<setup, stateVars, idempotency, wal, writer, tx, iteration,
                   accepted, next_tx_id, commits, popped>>

ObserveDone(p) ==
    /\ pc[p] = "waiting" /\ completion[p].done
    /\ pc' = [pc EXCEPT ![p] = "idle"]
    /\ IF completion[p].error = "None"
       THEN accepted' = accepted + 1 /\ UNCHANGED rejected
       ELSE rejected' = rejected + 1 /\ UNCHANGED accepted
    /\ UNCHANGED <<setup, stateVars, idempotency, ring, wal, writer, tx,
                   iteration, next_tx_id, completion, commits, popped>>

Finish(p) ==
    /\ ~ setup
    /\ pc[p] = "idle" /\ iteration[p] = TxPerProducer
    /\ pc' = [pc EXCEPT ![p] = "finished"]
    /\ UNCHANGED <<setup, stateVars, idempotency, ring, wal, writer, tx,
                   iteration, accepted, rejected, next_tx_id, completion, commits, popped>>

----------------------------------------------------------------------------
(* The writer's pipeline, process_pending. *)

\* Mutant: done is not set.
complete_Silent(p, error) == completion' = [completion EXCEPT ![p].error = error]

\* Mutant: the error is not passed on.
complete_NoError(p, error) == completion' = [completion EXCEPT ![p] = [done |-> TRUE, error |-> "None"]]

complete(p, error) == completion' = [completion EXCEPT ![p] = [done |-> TRUE, error |-> error]]

\* Mutant: the accounts are not consulted.
Verdict_ShapeOnly(t) ==
    IF Contains(idempotency, t.key) THEN "DuplicateTransaction"
    ELSE validate_transaction_shape(t.legs)

\* The error process_pending answers a request with before it reaches the log.
Verdict(t) ==
    IF Contains(idempotency, t.key) THEN "DuplicateTransaction"
    ELSE IF validate_transaction_shape(t.legs) # "None"
    THEN validate_transaction_shape(t.legs)
    ELSE validate_transaction_against_state(t.legs, working.accounts)

\* try_pop and check_and_insert, which every dequeued request goes through.
Dequeue ==
    /\ writer = NoRequest /\ ring # <<>>
    /\ ring' = Tail(ring)
    /\ idempotency' = Remember(idempotency, Head(ring).tx.key, IdempotencyCapacity)
    /\ popped' = Append(popped, [key |-> Head(ring).tx.key,
                                 duplicate |-> Contains(idempotency, Head(ring).tx.key)])

Reject ==
    /\ Dequeue
    /\ Verdict(Head(ring).tx) # "None"
    /\ complete(Head(ring).completion, Verdict(Head(ring).tx))
    /\ UNCHANGED <<setup, stateVars, wal, writer, producerVars, commits>>

WalAppend ==
    /\ Dequeue
    /\ Verdict(Head(ring).tx) = "None"
    /\ wal' = AppendRecord(wal, Head(ring).tx)
    /\ writer' = [stage |-> IF wal.mode = "SyncEveryWrite" THEN "flush" ELSE "apply",
                  request |-> Head(ring)]
    /\ commits' = Append(commits, [id |-> Head(ring).tx.id, ledger |-> apply(working, Head(ring).tx)])
    /\ UNCHANGED <<setup, stateVars, producerVars, completion>>

WalAppendFails ==
    /\ "write" \in Faults
    /\ Dequeue
    /\ Verdict(Head(ring).tx) = "None"
    /\ wal' \in ShortAppends(wal, Head(ring).tx)
    /\ complete(Head(ring).completion, "WalWriteFailed")
    /\ UNCHANGED <<setup, stateVars, writer, producerVars, commits>>

WalFlush ==
    /\ writer.stage = "flush"
    /\ wal' = Flushed(wal)
    /\ writer' = [writer EXCEPT !.stage = "apply"]
    /\ UNCHANGED <<setup, stateVars, idempotency, ring, producerVars, completion,
                   commits, popped>>

\* The record stays in the file; the transaction is not applied.
WalFlushFails ==
    /\ "fsync" \in Faults
    /\ writer.stage = "flush"
    /\ complete(writer.request.completion, "WalSyncFailed")
    /\ writer' = NoRequest
    /\ commits' = SubSeq(commits, 1, Len(commits) - 1)
    /\ UNCHANGED <<setup, stateVars, idempotency, ring, wal, producerVars, popped>>

\* Mutant: the counter is not reset.
Publish_NoReset ==
    /\ processed_since_publish' = processed_since_publish + 1
    /\ IF processed_since_publish' >= PublishEveryN THEN published' = working' ELSE UNCHANGED published

\* publish_snapshot, every PublishEveryN commits.
Publish ==
    IF processed_since_publish + 1 >= PublishEveryN
    THEN published' = working' /\ processed_since_publish' = 0
    ELSE processed_since_publish' = processed_since_publish + 1 /\ UNCHANGED published

ApplyAndPublish ==
    /\ writer.stage = "apply"
    /\ working' = apply(working, writer.request.tx)
    /\ Publish
    /\ writer' = [writer EXCEPT !.stage = "ack"]
    /\ UNCHANGED <<setup, idempotency, ring, wal, producerVars, completion,
                   commits, popped>>

Acknowledge ==
    /\ writer.stage = "ack"
    /\ complete(writer.request.completion, "None")
    /\ writer' = NoRequest
    /\ UNCHANGED <<setup, stateVars, idempotency, ring, wal, producerVars,
                   commits, popped>>

\* wal_writer().flush() by the thread that calls process_pending, between two
\* calls: the batch boundary of BatchSyncFlush.
FlushBatch ==
    /\ wal.mode = "BatchSyncFlush"
    /\ writer = NoRequest /\ wal.dirty
    /\ wal' = Flushed(wal)
    /\ UNCHANGED <<setup, stateVars, idempotency, ring, writer, producerVars,
                   completion, commits, popped>>

----------------------------------------------------------------------------

Producer(p) == Allocate(p) \/ Submit(p) \/ ObserveDone(p) \/ Finish(p)

Writer ==
    \/ Reject \/ WalAppend \/ WalAppendFails \/ WalFlush \/ WalFlushFails
    \/ ApplyAndPublish \/ Acknowledge

Next ==
    \/ \E opening \in OpeningAccounts : AddAccount(opening)
    \/ StartProducers
    \/ \E p \in Producers : Producer(p)
    \/ Writer
    \/ FlushBatch

Spec == Init /\ [][Next]_vars

\* main starts its threads, each of which runs on, and its own loop calls
\* process_pending until every producer has finished.
Fairness ==
    /\ WF_vars(StartProducers)
    /\ \A p \in Producers : WF_vars(Producer(p))
    /\ WF_vars(Writer)

FairSpec == Spec /\ Fairness

----------------------------------------------------------------------------
(* Properties. *)

Positions == {"idle", "allocated", "waiting", "finished"}

Errors == {"None", "TooFewLegs", "TooManyLegs", "ZeroAmountLeg", "AmountOverflow",
           "UnbalancedTransaction", "AccountNotFound", "InsufficientFunds",
           "DuplicateTransaction", "WalWriteFailed", "WalSyncFailed"}

\* The parts of the engine's state have the shape their declarations give.
TypeOK ==
    /\ setup \in BOOLEAN
    /\ IsLedgerState(working) /\ IsLedgerState(published)
    /\ processed_since_publish \in Nat
    /\ next_tx_id \in Nat
    /\ Len(ring) <= RingCapacity
    /\ Len(idempotency) <= IdempotencyCapacity
    /\ wal.mode \in SyncMode
    /\ wal.synced \in 0 .. Len(wal.file) /\ wal.offset \in 0 .. Len(wal.file)
    /\ writer.stage \in {"idle", "flush", "apply", "ack"}
    /\ pc \in [Producers -> Positions]
    /\ completion \in [Producers -> [done : BOOLEAN, error : Errors]]
    /\ iteration \in [Producers -> 0 .. TxPerProducer]

\* The requests the engine still holds: queued, or in the writer's hands.
Held == ring \o IF writer = NoRequest THEN <<>> ELSE <<writer.request>>

\* The engine holds exactly one request of every producer that waits for an
\* answer it has not been given, and none of any other: no request is lost,
\* queued twice or answered twice, and the writer never writes to a Completion
\* whose owner may already have left the scope it lives in (engine.hpp:69).
HeldExactlyWhileWaiting ==
    /\ \A i, j \in 1 .. Len(Held) :
          Held[i].completion = Held[j].completion => i = j
    /\ {Held[i].completion : i \in 1 .. Len(Held)} =
          {p \in Producers : pc[p] = "waiting" /\ ~ completion[p].done}
    /\ \A i \in 1 .. Len(Held) : Held[i].tx = tx[Held[i].completion]

\* How many entries of commits the working state has been through.
Applied == Len(commits) - IF writer.stage \in {"flush", "apply"} THEN 1 ELSE 0

\* A whole record of transaction id lies within the first n units of the log.
Logged(id, n) ==
    \E k \in 1 .. n - 1 :
        /\ wal.file[k].part = "head" /\ wal.file[k].tx.id = id
        /\ wal.file[k + 1] = [wal.file[k] EXCEPT !.part = "body"]

\* Durability before visibility (engine.cpp:60): whatever the working state,
\* and so any published snapshot or acknowledgement, includes is in the log,
\* and under SyncEveryWrite in the part of it that a crash cannot take away.
DurableBeforeApply ==
    \A i \in 2 .. Applied :
        Logged(commits[i].id, IF wal.mode = "SyncEveryWrite" THEN wal.synced ELSE Len(wal.file))

\* Readers see the working state as it was after some commit, fewer than
\* PublishEveryN commits ago, and never a state between two commits.  Before
\* the first publication they see an empty ledger, without even the accounts.
PublishedIsRecentCommit ==
    /\ working = commits[Applied].ledger
    /\ processed_since_publish < IF PublishEveryN = 0 THEN 1 ELSE PublishEveryN
    /\ LET k == Applied - processed_since_publish
       IN  published = IF k = 1 THEN EmptyLedgerState ELSE commits[k].ledger

\* A request is answered DuplicateTransaction if and only if its key was
\* dequeued before and fewer than IdempotencyCapacity other keys were since.
DuplicateWithinWindow ==
    \A j \in 1 .. Len(popped) :
        popped[j].duplicate <=>
            \E i \in 1 .. j - 1 :
                /\ popped[i].key = popped[j].key
                /\ Cardinality({popped[k].key : k \in i + 1 .. j - 1}) < IdempotencyCapacity

\* The producers' tallies agree with the ledger: every commit was accepted by
\* exactly one producer, or is about to be.
AcceptedAreCommitted ==
    accepted + Cardinality({p \in Producers :
                    pc[p] = "waiting" /\ completion[p] = [done |-> TRUE, error |-> "None"]})
        = Len(commits) - 1 - IF writer = NoRequest THEN 0 ELSE 1

\* Every producer gets an answer to everything it submits and finishes, and
\* the writer leaves nothing behind (main.cpp:88): producers that wait on
\* their own completion cannot deadlock with the loop that serves them.
EveryoneFinishes ==
    <>[](/\ \A p \in Producers : pc[p] = "finished"
         /\ ring = <<>> /\ writer = NoRequest)

=============================================================================
