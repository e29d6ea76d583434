--------------------------- MODULE CrashRecovery ---------------------------
(***************************************************************************)
(* The engine on a machine that crashes: checkpoints, power failures, the  *)
(* recovery of src/recovery.cpp, and an engine that resumes from what was  *)
(* recovered.  Everything in memory is lost in a crash; the log keeps what *)
(* was synced and any prefix of the rest; the snapshot file is replaced    *)
(* whole or not at all (the rename in write_snapshot).  The calls that may *)
(* fail (Faults) are also "snapshot" (the first one), "open_snapshot",     *)
(* "open_log", "read" and "truncate".                                      *)
(***************************************************************************)
EXTENDS LedgerEngine

CONSTANTS
    MaxCrashes,         \* bound: how often the machine crashes
    MaxRestarts         \* bound: how often an engine resumes

ASSUME CrashAssumption == MaxCrashes \in Nat /\ MaxRestarts \in Nat

VARIABLES
    phase,              \* "running" or "crashed", or where recover() is: "loaded",
                        \* "replay", or over: "recovered", "refused" or "failed"
    snapshot_file,      \* what is at snapshot_path
    recovered, cursor,  \* recover()'s state and its reader's position
    crashes, restarts,
    acknowledged,       \* history: entries of commits clients knew of at the crash
    durable             \* history: the last entry of commits on disk at the crash

recoveryVars == <<phase, recovered, cursor, crashes, restarts, acknowledged, durable>>
allVars == <<vars, snapshot_file, recoveryVars>>

NoSnapshot == [wal_offset |-> 0, state |-> EmptyLedgerState, exists |-> FALSE]

Snapshot(state, wal_offset) == [wal_offset |-> wal_offset, state |-> state, exists |-> TRUE]

CrashInit ==
    /\ Init
    /\ phase = "running"
    /\ snapshot_file = NoSnapshot
    /\ recovered = EmptyLedgerState
    /\ cursor = 0
    /\ crashes = 0
    /\ restarts = 0
    /\ acknowledged = 1
    /\ durable = 1

----------------------------------------------------------------------------
(* The engine runs.  main writes a first snapshot of the accounts just     *)
(* before it starts the producers, and ignores whether that succeeded.     *)

Run ==
    /\ phase = "running"
    /\ \/ \E opening \in OpeningAccounts : AddAccount(opening)
       \/ \E p \in Producers : Producer(p)
       \/ Writer
       \/ FlushBatch
    /\ UNCHANGED <<snapshot_file, recoveryVars>>

SeedAndStart ==
    /\ phase = "running"
    /\ StartProducers
    /\ \/ snapshot_file' = Snapshot(working, 0)
       \/ "snapshot" \in Faults /\ UNCHANGED snapshot_file
    /\ UNCHANGED recoveryVars

\* write_snapshot of the working state by the writer's thread, between two
\* calls of process_pending.
Checkpoint ==
    /\ phase = "running" /\ ~ setup /\ writer = NoRequest
    /\ snapshot_file' = Snapshot(working, wal.offset)
    /\ UNCHANGED <<vars, recoveryVars>>

\* main's last snapshot: of the published state, whose accounts it has just
\* looked up, once every producer has finished.
FinalCheckpoint ==
    /\ phase = "running" /\ writer = NoRequest
    /\ \A p \in Producers : pc[p] = "finished"
    /\ DOMAIN published.accounts # {}
    /\ snapshot_file' = Snapshot(published, wal.offset)
    /\ UNCHANGED <<vars, recoveryVars>>

----------------------------------------------------------------------------
(* Crashes, recovery, restart. *)

\* What a new process starts from, with a log file of its own making.
FreshEngine(state, file) ==
    /\ working' = state
    /\ published' = EmptyLedgerState
    /\ processed_since_publish' = 0
    /\ idempotency' = <<>>
    /\ ring' = <<>>
    /\ next_tx_id' = 0
    /\ wal' = OpenLog(file, Len(file), wal.mode)
    /\ writer' = NoRequest
    /\ pc' = [p \in Producers |-> "idle"]
    /\ tx' = [p \in Producers |-> [id |-> 0]]
    /\ completion' = [p \in Producers |-> Fresh]
    /\ iteration' = [p \in Producers |-> 0]
    /\ accepted' = 0
    /\ rejected' = 0
    /\ popped' = <<>>

\* The record of this entry of commits is synced and those of later ones are not.
LastOnDisk(last) ==
    /\ last = 1 \/ Logged(commits[last].id, wal.synced)
    /\ \A i \in last + 1 .. Len(commits) : ~ Logged(commits[i].id, wal.synced)

Crash ==
    /\ crashes < MaxCrashes
    /\ crashes' = crashes + 1
    /\ ~ setup
    /\ phase' = "crashed"
    /\ recovered' = EmptyLedgerState
    /\ cursor' = 0
    /\ \/ /\ phase = "running"
          /\ \E file \in SurvivingFiles(wal) : FreshEngine(EmptyLedgerState, file)
          /\ acknowledged' = Len(commits) - IF writer = NoRequest THEN 0 ELSE 1
          /\ \E last \in 1 .. Len(commits) : LastOnDisk(last) /\ durable' = last
       \/ /\ phase \in {"loaded", "replay", "recovered", "failed"}
          /\ UNCHANGED <<stateVars, idempotency, ring, wal, writer, producerVars,
                         completion, popped, acknowledged, durable>>
    /\ UNCHANGED <<setup, commits, snapshot_file, restarts>>

\* load_snapshot; without a file the state stays empty and the replay starts
\* at the beginning of the log.
LoadSnapshot ==
    /\ phase = "crashed"
    /\ recovered' = snapshot_file.state
    /\ cursor' = snapshot_file.wal_offset
    /\ phase' = "loaded"
    /\ UNCHANGED <<vars, snapshot_file, crashes, restarts, acknowledged, durable>>

\* A snapshot that cannot be opened is taken for one that does not exist; one
\* that cannot be read counts as corrupt, which ends the recovery.
LoadSnapshotFails ==
    /\ phase = "crashed" /\ snapshot_file.exists
    /\ \/ "open_snapshot" \in Faults /\ phase' = "loaded"
       \/ "read" \in Faults /\ phase' = "failed"
    /\ UNCHANGED <<vars, snapshot_file, recovered, cursor, crashes, restarts, acknowledged, durable>>

\* Recovery ends with the trial balance of what it restored.
Verified == phase' = IF validate_trial_balance(recovered.accounts) THEN "recovered" ELSE "refused"

\* reader.open and seek.
OpenReader ==
    /\ phase = "loaded"
    /\ phase' = "replay"
    /\ UNCHANGED <<vars, snapshot_file, recovered, cursor, crashes, restarts, acknowledged, durable>>

\* A log that cannot be opened is taken for one that does not exist, unless
\* the snapshot points into it.
OpenReaderFails ==
    /\ phase = "loaded" /\ "open_log" \in Faults
    /\ IF cursor # 0 THEN phase' = "failed" ELSE Verified
    /\ UNCHANGED <<vars, snapshot_file, recovered, cursor, crashes, restarts, acknowledged, durable>>

\* Mutant: a record that is skipped does not advance the reader.
ReplayRecord_Stuck ==
    /\ phase = "replay"
    /\ ReadOutcome(wal.file, cursor) = "Ok"
    /\ LET t == ReadTransaction(wal.file, cursor)
       IN  IF t.id > recovered.last_applied_id
           THEN recovered' = apply(recovered, t) /\ cursor' = cursor + RecordSize
           ELSE UNCHANGED <<recovered, cursor>>
    /\ UNCHANGED <<vars, snapshot_file, phase, crashes, restarts, acknowledged, durable>>

\* One read_next that returns a record; apply's own result is ignored.
ReplayRecord ==
    /\ phase = "replay"
    /\ ReadOutcome(wal.file, cursor) = "Ok"
    /\ LET t == ReadTransaction(wal.file, cursor)
       IN  recovered' = IF t.id > recovered.last_applied_id THEN apply(recovered, t) ELSE recovered
    /\ cursor' = cursor + RecordSize
    /\ UNCHANGED <<vars, snapshot_file, phase, crashes, restarts, acknowledged, durable>>

EndOfReplay ==
    /\ phase = "replay"
    /\ ReadOutcome(wal.file, cursor) = "EndOfLog"
    /\ Verified
    /\ UNCHANGED <<vars, snapshot_file, recovered, cursor, crashes, restarts, acknowledged, durable>>

CutTail ==
    /\ wal' = OpenLog(truncate_wal(wal.file, cursor), cursor, wal.mode)
    /\ Verified
    /\ UNCHANGED <<setup, stateVars, idempotency, ring, writer, producerVars, completion,
                   commits, popped, snapshot_file, recovered, cursor, crashes, restarts, acknowledged, durable>>

TruncateTail ==
    /\ phase = "replay"
    /\ ReadOutcome(wal.file, cursor) \in {"Corrupt", "Truncated"}
    /\ CutTail

\* A read that fails (pread < 0) is reported like a truncated record.
ReadFails ==
    /\ phase = "replay" /\ "read" \in Faults
    /\ CutTail

TruncateFails ==
    /\ phase = "replay" /\ "truncate" \in Faults
    /\ ReadOutcome(wal.file, cursor) \in {"Corrupt", "Truncated"}
    /\ phase' = "failed"
    /\ UNCHANGED <<vars, snapshot_file, recovered, cursor, crashes, restarts, acknowledged, durable>>

\* A new LedgerEngine, opened on the same log and given the recovered state.
Resume ==
    /\ phase = "recovered" /\ restarts < MaxRestarts
    /\ FreshEngine(recovered, wal.file)
    /\ commits' = <<[id |-> recovered.last_applied_id, ledger |-> recovered]>>
    /\ phase' = "running"
    /\ restarts' = restarts + 1
    /\ acknowledged' = 1
    /\ durable' = 1
    /\ UNCHANGED <<setup, snapshot_file, recovered, cursor, crashes>>

Recover == LoadSnapshot \/ OpenReader \/ ReplayRecord \/ EndOfReplay \/ TruncateTail

RecoverFaults == LoadSnapshotFails \/ OpenReaderFails \/ ReadFails \/ TruncateFails

CrashNext ==
    \/ Run \/ SeedAndStart \/ Checkpoint \/ FinalCheckpoint
    \/ Crash \/ Recover \/ RecoverFaults \/ Resume

CrashSpec == CrashInit /\ [][CrashNext]_allVars

\* A process that runs recover() runs on; no call has to fail for that.
FairCrashSpec == CrashSpec /\ WF_allVars(Recover)

----------------------------------------------------------------------------
(* Properties. *)

\* The shapes of the recovery's own state, on top of the engine's.
CrashTypeOK ==
    /\ TypeOK
    /\ phase \in {"running", "crashed", "loaded", "replay", "recovered", "refused", "failed"}
    /\ IsLedgerState(recovered) /\ IsLedgerState(snapshot_file.state)
    /\ cursor \in Nat /\ snapshot_file.wal_offset \in Nat
    /\ acknowledged \in 1 .. Len(commits) /\ durable \in 1 .. Len(commits)

\* The transactions were committed in the order of their ids.
CommittedInIdOrder == \A i \in 2 .. Len(commits) : commits[i - 1].id < commits[i].id

\* A crash loses and invents nothing: recovery reconstructs exactly the ledger
\* as it was after some commit, at or after the last one a client was told of.
RecoversCommitted ==
    phase = "recovered" =>
        \E k \in acknowledged .. Len(commits) : recovered = commits[k].ledger

\* RecoversCommitted, of logs whose records are in id order.  A log that is
\* not synced on every write (BatchSyncFlush) guarantees what was flushed.
RecoversCommittedIfOrdered ==
    phase = "recovered" /\ CommittedInIdOrder =>
        \E k \in (IF wal.mode = "SyncEveryWrite" THEN acknowledged ELSE durable) .. Len(commits) :
            recovered = commits[k].ledger

\* Recovery of a ledger whose accounts opened balanced never finds the trial
\* balance broken: not with a torn log, nor with records it skips, since it
\* applies whole balanced transactions or nothing of them.
NeverRefused == phase # "refused"

\* After recovery the log file ends where the last valid record ends
\* (recovery.hpp:19), so that the next append starts on a record boundary.
\* With BatchSyncFlush the file may be shorter: then a snapshot can be ahead
\* of the log, and recovery takes the snapshot's offset for the valid length.
LogEndsAtValidLength ==
    phase = "recovered" =>
        /\ Len(wal.file) <= cursor
        /\ wal.mode = "SyncEveryWrite" => Len(wal.file) = cursor

\* Whatever the crash left behind and whichever calls fail, the replay loop of
\* recover() comes to an end.
RecoveryTerminates == phase = "crashed" ~> phase \in {"recovered", "refused", "failed"}

=============================================================================
