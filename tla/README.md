# Verification of the ledger engine

TLA+ models of the double-entry ledger engine in this repository, checked with
TLC on small instances and, where marked, proved with TLAPS for every instance.

## The system

Producer threads build transactions and `submit` them to a bounded lock-free
queue. One writer thread runs `process_pending`: dequeue, deduplicate, validate,
append to the write-ahead log (with or without `fsync`), change the in-memory
ledger, publish a copy for readers every n commits, answer the producer.
Snapshots of the ledger go to a file. After a crash `recover` loads the
snapshot, replays the log behind it, cuts off a torn tail and verifies the trial
balance.

| Part | State | Operations | Hard behaviours |
|---|---|---|---|
| Types, validation (`types.hpp`, `validation.cpp`) | none | `checked_add`, `validate_transaction_shape`, `validate_transaction_against_state` | sums at the limits of the integer type, an account in several legs |
| Ledger state (`ledger_state.*`) | accounts, highest applied id; working and published copy | `add_account`, `apply`, `validate_trial_balance`, `publish_snapshot` | unchecked additions, stale readers |
| Ring buffer (`ring_buffer.hpp`) | cells with sequence numbers, two positions | `try_push`, `try_pop` | interleaved producers, laps, unfinished pushes |
| Idempotency cache (`idempotency_cache.*`) | LRU list, hash chains, free list | `check_and_insert` | eviction at capacity |
| Log writer (`wal_writer.*`) | file, offset, dirty flag | `open`, `append`, `flush`, `close` | short writes, failing `fsync` |
| Log reader (`wal_reader.*`) | cursor | `open`, `seek`, `read_next`, `truncate_wal` | torn records, offsets past the end |
| Codec, CRC (`wal_codec.*`, `crc32.*`) | none | encode, decode, checksum | damaged bytes |
| Snapshot file (`snapshot.*`) | file and temporary file | `write_snapshot`, `write_snapshot_async`, `load_snapshot` | crash before the rename, shared temporary name |
| Recovery (`recovery.*`) | state being rebuilt | `recover` | crash during recovery, failing calls |
| Engine (`engine.*`) | all of the above, id counter | `submit`, `process_pending` | lifetime of completions, failures half way |
| Driver (`main.cpp`) | threads, tallies | setup, producers, writer loop, last snapshot | everyone waiting on everyone |

## Modules

| Module | Models |
|---|---|
| `LedgerState` | Types, validation, `apply` and the trial balance, as operators. |
| `Ledger` | What the engine promises: a ledger that changes only by new accounts and whole valid transactions. |
| `LruSet`, `SeenKeys` | What the idempotency cache promises, as operators for the engine and as a specification. |
| `IdempotencyCache` | The cache's nodes, list of use, free list and hash chains; implements `SeenKeys`. |
| `WalCodec` | The bytes of a log record: payload, header, CRC32, as operators. |
| `WalFile` | Log writer, reader and truncation on a file of bytes. |
| `Wal` | Log writer and reader, as operators on a log of record halves. |
| `BoundedQueue` | What the ring buffer promises. |
| `RingBuffer` | The ring buffer, one action per access to shared memory; implements `BoundedQueue`. |
| `AtomicSnapshot` | What `write_snapshot` promises. |
| `SnapshotFile` | `write_snapshot`, one action per system call; implements `AtomicSnapshot`. |
| `LedgerEngine` | Producers, queue, writer thread and log together. |
| `EngineAsLedger` | The refinement: the engine's working state implements `Ledger`. |
| `CrashRecovery` | `LedgerEngine` plus snapshots, power failures, recovery and restart. |
| `LedgerLemmas` | Lemmas: recursion and induction on 0..n; wrapping, sums, the loop of `apply`, the trial balance; what keeps a ledger state sound; walks along a log and the history of commits it records. |
| `RingBufferProofs`, `CacheProofs`, `SnapshotProofs` | Theorems about `RingBuffer`, `IdempotencyCache` and `SnapshotFile`, with their refinements. |
| `WalProofs` | Theorems about `WalCodec` and `WalFile`: checksum, encoding, what is read back and what recovery keeps. |
| `EngineProofs` | Theorems about `LedgerEngine`: answers, readers and remembered keys; about its log, and where that ends after the recovery of `CrashRecovery`. |
| `LedgerProofs` | Theorems about `Ledger`, and what follows for `LedgerEngine` by counting ids, answers and keys, the refinement of `Ledger` among it. |
| `CrashProofs` | Theorems about what recovery restores; types of `LedgerEngine` and `CrashRecovery`. |
| `MC...` | Instances for TLC. |

The components meet where one module stands for another: `LedgerEngine` uses the
FIFO that `RingBuffer` is shown to implement, the key set that `IdempotencyCache`
is shown to implement, and a log whose torn and damaged records are recognised,
which `WalFile` shows for the bytes; `CrashRecovery` replaces a snapshot in one
step, as `SnapshotFile` is shown to.

How they correspond to the code:

- **LedgerState.** An account map is a function whose domain is the ids that were
  added. `Amount` is a range of integers around `AmountMax`; an addition that the
  code does not check is wrapped (`Wrap`): the behaviour of the compiled addition
  on the supported targets, where the language leaves it undefined. The loops of
  the validators and of `apply` are recursive functions whose entry i is the state
  of the loop after i rounds, so early returns and partial application are there.
- **RingBuffer.** Each atomic operation and each access to a cell's data is an
  action; `pc` and `consumer` say where a thread is. `claimed` is a history
  variable used for the refinement only. Memory is sequentially consistent.
  The variables hold positions unreduced and the code's comparisons see them
  modulo `Modulus` (2^64 in the program), the differences in two's complement.
  `MaxStall` bounds how many exchanges may succeed while one call is between
  loading the position and its own exchange; with 2^64 it is anything short of
  2^63 pushes during one call.
- **IdempotencyCache.** The object is a record of functions on node indices. A
  call is one step, since only the writer thread makes it; its three outcomes
  (found, free node, eviction) are three actions. Loops along a chain are `Walk`,
  which is cut off one node after it has gone round in a circle. The hash is a
  variable that never changes, so that one run covers every assignment of hash
  values to keys.
- **WalCodec, WalFile.** Bytes are 0..255. The 64-bit fields have `Wide` bytes and
  `payload_size` two; everything else, the CRC's polynomial and table included, is
  as in the code. A register is the set of its 1 bits, and so is an index of the
  table. `Field` and `SignedField` are what the fields of a transaction may hold,
  the key and the id unsigned, the amount and the timestamp signed. `log` and `acked` are
  history variables: what was appended where, in what condition it is, and what
  was acknowledged as durable. `Damage` changes one byte; a power failure keeps
  the synced prefix and any part of the rest.
- **SnapshotFile.** A file is a sequence of units (header, accounts, checksum). A
  crash takes an unsynced file to what was last synced or a prefix of what was
  written, and the directory to any of its states since it was last synced. The
  log's entry is in the same directory, as in `main.cpp`. `Overlapping` is false
  for `write_snapshot` and true for concurrent `write_snapshot_async` calls, which
  nothing in the repository makes.
- **LedgerEngine.** `process_pending` is split where another thread, the disk or a
  crash can tell two states apart: dequeue with deduplication, validation and
  `write`; `fsync`; `apply` with publication; the answer. The steps in between
  touch only the writer thread's own state. The queue is the FIFO that `RingBuffer`
  is shown to implement. Which calls may fail is the constant `Faults`.
  `commits` and `popped` are history variables. The cache is the list that
  `LruSet` describes: `Place` is the place that `check_and_insert` takes a key or
  the evicted one from, and the keys before it move down.
- **Wal.** A record is two units, head and body; offsets count units. That is
  enough to tell a whole record from a torn one and a record boundary from the
  inside of a record. The CRC is taken to detect every mismatch, as `WalFile` shows
  of torn records and single damaged bytes. A power failure
  keeps what was synced and any prefix of the rest.
- **CrashRecovery.** `Checkpoint` is a snapshot of the working state by the writer
  thread; `FinalCheckpoint` is the one `main` writes, of the published state. A
  crash may happen at any step once the producers have started, during recovery
  too. `Resume` is not in the repository: it is the restart that `recovery.hpp`
  describes, made of the calls that exist (`LedgerEngine(config)`, `open`,
  `state_working_copy`). `acknowledged` and `durable` are history variables: the
  last commit a client knew of, and the last one on disk, at the crash.

## Runs

| Run | Shows | Distinct states |
|---|---|---|
| `ledger` | Trial balance and overdraft limits survive every commit, wrapping included; `apply` writes what validation projected; the per-account sum cannot overflow. | 364 |
| `engine` | Each waiting producer's request is held exactly once; what is visible is in the log, and synced where the mode says so; readers lag less than n commits; duplicates are caught exactly within the cache's window; the producers' tallies agree with the commits. | 620 000 |
| `engine_live` | The engine implements `Ledger`; everyone finishes. | 600 000 |
| `crash` | With crashes at any step and both sync modes: if the log is in id order, recovery restores the ledger after some commit, at or after the last acknowledged (or flushed) one; books stay balanced; the log ends on a boundary. | 1 120 000 |
| `crash_faults` | With failing calls of every kind, two crashes and a restart: recovery ends, and never finds the books unbalanced. | 1 270 000 |
| `ring` | No data race on a cell, no cell handed out twice, the protocols of the sequence numbers and of the data, across the wrap of the positions; implements `BoundedQueue`; every claimed place is popped. | 610 000 |
| `cache` | The two lists partition the nodes, the chains hold exactly the occupied ones; implements `SeenKeys`. | 58 000 |
| `snapshot_file` | With failing calls and crashes at any step: never anything but a whole snapshot at the path, a returned one is kept, and it keeps the log's directory entry; implements `AtomicSnapshot`. | 6 200 |
| `wal_file` | Reading returns exactly the intact records and recognises any torn write and any damaged byte; truncation leaves exactly the intact prefix; synced records survive; the table-driven CRC is the IEEE 802.3 division. | 89 000 |

Bounds. Amounts have 4 bits, so that totals and balances wrap within a few
commits; leg lists have up to four legs with repeated accounts. Two or three
producers with up to two requests each, for a queue of two slots, reach a full
queue, ids out of order, an evicted key and a published state that lags. Two
crashes let the second one hit recovery. A ring of two cells with positions of
three bits that run up to nine is lapped four times and wraps, so that stale
positions of an earlier lap and comparisons across the wrap occur; the liveness
property follows the first place and the one at the wrap (`Watched`). Five keys
for at most three nodes and two buckets give chains of every length, evictions
from their middle and reuse of nodes. Three snapshots of different sizes and two
crashes let a failed call leave a temporary file that a later one reuses. Two
appends and one fault (`MaxFaults`), at every byte, put the flaw in the last
record, in front of a whole one, or in the header of either; two byte changes
flip the lowest and the highest bit. Deadlock is not checked in the engine, crash
and file runs, because the program ends there or a bound is reached:
`EveryoneFinishes` says how the engine ends.

Fairness. `FairSpec` of the engine assumes that started threads keep running and
that `main` keeps calling `process_pending`, which its loop does. The ring buffer
also needs that `compare_exchange_weak` does not fail spuriously for ever (strong
fairness of the successful exchange). `FairCrashSpec` assumes only that a
process that runs `recover` runs it to its end.

## Disagreements found

Each of these runs is expected to be violated; `PROJECT.json` quotes the lines.

| Run | What happens |
|---|---|
| `out_of_order_ids` | Ids are allocated before requests are queued. If the log is out of id order, replay skips the smaller id: an acknowledged transaction is lost. |
| `stale_snapshot` | The driver's last snapshot pairs the published state with the end of the log; the commits since the last publication are lost. |
| `shared_temporary` | Overlapping calls write to one temporary file, and one renames what the other has truncated. |

The property `RecoversCommitted` of the first two runs also fails for other
constants, with one producer:

- `Faults = {"write"}`: a short `write` (`wal_writer.cpp:71`) leaves half a record
  in the log; recovery later cuts off everything behind it, acknowledged
  transactions included.
- `Faults = {"fsync"}`: a transaction answered `WalSyncFailed` stays in the log
  (`wal_writer.cpp:86`) and is replayed; on top of later ones it can exceed an
  overdraft limit.
- `Faults = {"read"}`: a failed `pread` counts as a torn record.
- `Faults = {"open_log"}`: a log that cannot be opened counts as a first boot.
- `Faults = {"snapshot"}`: the log holds no accounts, so replay without a snapshot
  applies nothing.
- `SyncModes = {"BatchSyncFlush"}`: acknowledged before any flush.
- `MaxRestarts = 1`, `MaxCrashes = 2`: a resumed engine's ids start at 1 again and
  its transactions are skipped by the next recovery.

Under `BatchSyncFlush` the file can be shorter than the length recovery reports
(`LogEndsAtValidLength`). With `Capacity = 1`, a power of two as
`ring_buffer.hpp:17` asks for, `WithinCapacity` of `RingBuffer` fails: a producer
overwrites an item that was not popped. `ExactArithmetic` of `Ledger` fails in the
instance of `ledger`: the addition to the balance (`validation.cpp:74`,
`ledger_state.cpp:24`) is not overflow-checked; the theorems below hold with the
wrapping included.

## Proofs

Checked by TLAPS, for every value of the constants that the named assumptions
admit.

**Ledger** (`LedgerProofs`, from `ConstantsAssumption`, `OpeningAssumption`,
`ClientAssumption`). Any width of the amounts, any number of accounts and legs,
any leg lists; accounts open with a zero balance and a limit that is not
negative, as in `main.cpp`.

| Theorem | Says |
|---|---|
| `LedgerInvariant` | `Inv`, the conjunction of the next three, is inductive. |
| `TypeCorrect` | `LedgerSpec => []LedgerTypeOK` |
| `OverdraftSafe` | `LedgerSpec => []OverdraftRespected` |
| `BooksBalance` | `LedgerSpec => []TrialBalanced` |
| `ProjectionApplied` | `LedgerSpec => AppliesProjection` |
| `PendingDeltaSafe` | `LedgerSpec => PendingDeltaFits` |

The invariants are inductive as they stand; the argument is in what the loops
compute (`LedgerLemmas`). After i rounds of `apply` an account has moved by the
running total of its deltas, wrapped once (`ApplyLegsBalance`), so the final
balance is the projected one that was checked. Each leg moves the difference
between debit-normal and credit-normal balances by its signed amount, up to a
multiple of the modulus, whatever the type of its account (`SkewLeg`); a
transaction with equal debits and credits leaves `validate_trial_balance` true
(`SkewLegs`, `TrialBalanceSkew`). The net delta of an account lies between the
credits and the debits so far, both of which the shape check bounds
(`PendingBounds`). The sums are recursive functions: that they satisfy their
equations, and induction along them, is derived from the well-foundedness of the
natural numbers in `LedgerLemmas` (`FiniteRecursion`, `BoundedInduction`).

**RingBuffer** (`RingBufferProofs`, from `RingAssumption`). Any
number of producers and items, any width of the positions, and every capacity of
at least 2; with one cell the protocol is broken.

| Theorem | Says |
|---|---|
| `RingInvariant` | `TypeOK /\ CellProtocol` is inductive. |
| `TypeCorrect` | `Spec => []TypeOK` |
| `ProtocolKept` | `Spec => []CellProtocol` |
| `CapacityRespected` | `Spec => []WithinCapacity` |
| `RaceFree` | `Spec => []NoDataRace` |
| `DataKept` | `Spec => []DataProtocol` |
| `RingIsQueue` | `Spec => ImplementsQueue` |

`NoDataRace` is not inductive: it says nothing of what a sequence number means.
`CellProtocol` does: for every position not yet popped or just ahead, it relates
the sequence number of the position's cell to the thread that owns the position,
so that no two threads own one cell. It also bounds every difference the code
computes to less than half of `Modulus`, so that the wrapped difference has the
sign of the real one; this is where `MaxStall` is used. `DataProtocol` adds which
item is in a filled cell. With both, each step of the code is a step of
`BoundedQueue` or changes nothing it knows of: the exchange is `Claim`, the store
of the sequence number `Fill`, the release of the cell `Pop`.

**IdempotencyCache** (`CacheProofs`, from `CacheAssumption`). Any keys, any hash
function and any capacity, 0 included. A node's index is an integer here and an
`int32_t` in the code, so for the code the capacity is at most 2^31.

| Theorem | Says |
|---|---|
| `CacheInvariant` | `CacheInv` is an invariant. |
| `ListsStayWhole` | `Spec => []ListsPartitionNodes` |
| `ChainsStayExact` | `Spec => []ChainsHoldOccupied` |
| `CacheRefinesSeenKeys` | `Spec => ImplementsSeenKeys` |

The properties follow the links from their heads, and a single changed link may
change all of such a walk. `CacheInv` says it the other way round: there are two
sequences of nodes without repetition, of use and free, such that each link leads
from a node of a sequence to the one behind it (`Along`; along `prev` for the
reversed sequence of use, `Doubly`), they hold the occupied and the other nodes, and
for each bucket there is such a sequence of the occupied nodes whose keys belong to
it (`Chains`). Each of `unlink_lru`, `push_front_lru`, `remove_from_bucket` and the
taking of a free node is then shown to remove one node from a sequence or to put one
in front (`AlongWithout`, `AlongFronted`, `DoublyWithout`, `DoublyFronted`), in every
position the node may have, and between the calls of one `check_and_insert` the node
in its hands is on neither list (`Detached`). `WalkAlong` leads back from the sequences
to the walks. What a call does to the sequence of keys in use is then `Remember`
(`RememberSeen`, `RememberNew`, `RememberFull`), which is the refinement.

**LedgerEngine** (`EngineProofs`, `LedgerProofs` and, for the types, `CrashProofs`,
from `EngineAssumption`). Any finite number of producers, requests, accounts, queue
slots and remembered keys, any combination of failing writes and syncs, both sync
modes.

| Theorem | Says |
|---|---|
| `EngineTypes` | `Spec => []TypeOK` |
| `EngineIsLedger` | `Spec => ImplementsLedger` |
| `AnsweredOnce` | `Spec => []HeldExactlyWhileWaiting` |
| `ReadersSeeRecentCommit` | `Spec => []PublishedIsRecentCommit` |
| `TalliesAgree` | `Spec => []AcceptedAreCommitted` |
| `DuplicatesAreRecent` | `Spec => []DuplicateWithinWindow` |
| `LoggedBeforeVisible` | `Spec => []DurableBeforeApply` |

Each rests on an invariant of its own. `PipelineInv`: the request in the writer's
hands was validated against the state it will be applied to (nothing but
`ApplyAndPublish` changes the state while the writer is busy), and ids are counted
by the allocations, which bounds them. `HeldInv` tells apart the queued request,
the one in the writer's hands and the waiting producers. `RecentInv` adds that the
last entry of `commits` is the ledger that `apply` is about to produce. `TallyInv`
joins the two: an answer goes to a producer that waits for it, so it is counted
once. `KeysInv` says what `DuplicateWithinWindow` does not: in which order the
cache holds the keys. The i-th key was last used when exactly the i - 1 keys before
it were to follow, and every forgotten key was last used before all those that are
remembered (`Recent`); `RecentKeys` shows that `check_and_insert` keeps this,
whichever key it moves or evicts, and `WithinWindow` reads the size of the window
off it. `DurableInv` adds where the record of each commit is: in the file from the
append on, in its synced part from the flush on, and that no later step, a short
write included, takes it away. With `EngineIsLedger`, `BooksBalance` and
`OverdraftSafe` speak of the engine's working state too, when the accounts it opens
are those `OpeningAssumption` admits; this last step is not machine-checked.

**CrashRecovery** (`EngineProofs`, `CrashProofs`, from `EngineAssumption` and
`CrashAssumption`). Any number of crashes, at any step of the engine and of
`recover`, and of restarts; the rest as for the engine.

| Theorem | Assumes | Says |
|---|---|---|
| `CrashTypes` | | `CrashSpec => []CrashTypeOK` |
| `RecoveryNeverRefused` | accounts open with a zero balance | `CrashSpec => []NeverRefused` |
| `RecoveredLogEnds` | `NoSilentFaults`: `fsync` and the opening of log and snapshot do not fail | `CrashSpec => []LogEndsAtValidLength` |
| `CommittedIsRecovered` | `OnlyTruncateFails` | `CrashSpec /\ [][LatestSaved]_allVars => [](restarts = 0 \/ Sync => RecoversCommittedIfOrdered)` |
| `PublishedIsRecovered` | `OnlyTruncateFails`, `PublishEveryN <= 1` | `CrashSpec => [](restarts = 0 \/ Sync => RecoversCommittedIfOrdered)` |

`NeverRefused` admits every failing call. `BooksInv` is why: every state that is
applied to, published, saved or restored has all of the accounts or none of them,
and every record in the log is a balanced transaction on those accounts, so that
replaying any selection of records, on top of any snapshot, moves the books from
balanced to balanced (`AppliedSound`). `PositionInv` relates the positions to the
synced part of the file: under `SyncEveryWrite` a snapshot never points past what
is on disk. `HistoryInv` is the strengthening behind the last two theorems. It says
that the k-th record of the file is the k-th commit (counted from the restart), and
that the snapshot, and the state `recover` has rebuilt at its cursor, are what a
walk through the records from some commit on has made of them (`OnTrack`); if ids
ascend, that is the ledger after the commit at the cursor. A crash cuts the file
behind the last synced record, which leaves every acknowledged commit in it.

The assumptions are where the code does not keep the promise. The runs and
constants above show it for the other failing calls, for ids that are out of order
and, when not every commit is published, for the last snapshot of `main`:
`LatestSaved` says that the published state it saves is the latest one. After a
restart under `BatchSyncFlush` a snapshot may point past the end of a log that lost
its unsynced tail; what the resumed engine appends up to that offset is not
replayed by the next recovery, so there the theorems speak of the first process
only.

**SnapshotFile** (`SnapshotProofs`). Any snapshots, any number of calls and crashes,
any failing system call; calls do not overlap (`~ Overlapping`; the run
`shared_temporary` shows what happens if they do).

| Theorem | Says |
|---|---|
| `PathAlwaysWhole` | `Spec => []PathNeverCorrupt` |
| `DurableSnapshotKept` | `Spec => []ReturnedSnapshotKept` |
| `LogSurvives` | `Spec => []LogEntryKept` |
| `WriteSnapshotIsAtomic` | `Spec => ImplementsAtomicSnapshot` |

`SnapshotInv` speaks of every directory a crash may leave, not only of the one that
is there: whatever file `path` has in one of them is whole, synced, at least as new
as the snapshot last made durable, and not the file that the temporary name has, so
that no call writes to it.

**WalFile** (`WalProofs`, from `CodecAssumption` and `WalFileAssumption`). Fields of any
width, eight bytes included, any transactions whose fields fit, any number of appends,
torn writes, crashes, truncations and damaged bytes, the damage of any size.

| Theorem | Assumes | Says |
|---|---|---|
| `TableMatchesDivision` | | `compute` is the division of the message, bit by bit, for every sequence of bytes. |
| `DecodeUndoesEncode` | | `decode_transaction_payload` of what `encode_transaction_payload` makes of a transaction is that transaction. |
| `WholeRecordIsRead` | | `read_next` where a record lies as it was written returns its transaction and the byte behind it. |
| `FileHoldsTheLog` | | `BytesInv` is an invariant. |
| `WholeRecordsAreReadBack` | | `Spec => []WholeRecordsReadBack` |
| `ChecksumIsDivision` | | `Spec => []ChecksumByDivision` |
| `RecoveryInvariant` | `[]NoCollision` | `RecoveryInv` is an invariant. |
| `ReaderReadsExactlyTheIntact` | `[]NoCollision` | `Spec => []ReadsExactlyTheIntact` |
| `AcknowledgedRecordsSurvive` | `[]NoCollision` | `Spec => []AcknowledgedSurvive` |
| `TruncationRepairsTheLog` | `[]NoCollision` | `Spec => TruncationRepairs` |

`BytesInv` says that the records of the history `log` tile the file without gap or
overlap (`Tiled`) and that those still whole are in it byte for byte (`WholeIn`).
`RecoveryInv` adds that an open reader stands behind a record with only whole ones
before it, that one which has stopped stands in front of a record that is not whole
(`ReaderInv`), and that what was acknowledged lies in the synced part (`AckedInv`).
Under the table is that `Round` distributes over the symmetric difference, so that
eight rounds of a register are the entry of its low byte and the rest shifted; under
the codec, that `get` undoes `put` in each field and that the fields follow one another
where the decoder looks for them.

`NoCollision` says that no record which was torn or damaged passes the checksum in the
place where it starts. A checksum of 32 bits cannot exclude that, so no property of the
reader about such records holds without it; the run `wal_file` does without the
hypothesis, since the single changed byte or torn write it admits is always
recognised. What is whole is read back whatever happened to the rest
(`WholeRecordsAreReadBack`), without the hypothesis.

Only model-checked: every liveness property, because fairness is beyond the prover, and
that the checksum recognises one damaged byte or one torn write, which is where the run
`wal_file` says more than the theorems.

## Not modelled

- Memory orders weaker than sequential consistency. The ring's positions are
  loaded relaxed and its sequence numbers with acquire and release; a stale
  relaxed load of `enqueue_pos_` is one more way for the exchange to fail, and the
  data is ordered by the sequence number. A model would need the C++ memory model.
- `IdempotencyKeyHash` itself: any function of the key takes its place.
- The four bytes of `payload_size`: it has two. Fields of eight bytes in the run
  `wal_file`, where `Wide` is smaller; the proofs admit any width. Two damaged bytes
  or more in that run: CRC32 need not recognise them.
- The byte layout of a snapshot. Its checksum is the contents it covers.
- Moves of `UniqueFd`, the string forms of the enums, timestamps outside the log,
  printing, tests and benchmarks.
- A power failure before the producers start, except in `SnapshotFile`.
- `RecoveredState` has no idempotency cache, so a request that is retried across a
  restart is not recognised; no code or document says whether it should be.
