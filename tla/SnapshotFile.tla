---------------------------- MODULE SnapshotFile ----------------------------
(***************************************************************************)
(* The snapshot file (src/snapshot.cpp), one action per system call, in a  *)
(* directory that also holds the log.                                      *)
(*                                                                         *)
(* A file is a sequence of units: a header, one unit per account, and the  *)
(* checksum, which is the contents it was computed over.  Writing does not *)
(* make durable: a crash takes a file back to what was last synced or to a *)
(* prefix of what was written since, and the directory to any of its       *)
(* states since it was last synced.                                        *)
(***************************************************************************)
EXTENDS Integers, Sequences, Functions

CONSTANTS
    Writers,        \* the threads that call write_snapshot
    Overlapping,    \* whether calls may overlap, as those of write_snapshot_async do
    Accounts,       \* per call, the number of accounts of its ledger; Len(Accounts)
                    \* bounds the number of calls
    Faults,         \* the calls that may fail: "open", "write", "fsync", "rename", "sync_dir"
    MaxCrashes      \* bound: how often the machine crashes

ASSUME SnapshotAssumption ==
    /\ Overlapping \in BOOLEAN /\ MaxCrashes \in Nat
    /\ Accounts \in Seq(Nat)

VARIABLES
    files,          \* the files by number: their units, those last synced, and
                    \* whether the two may differ
    directory,      \* the states of the directory since it was last synced: the
                    \* numbers of tmp_path's and path's file, and whether the log is there
    call,           \* per thread: where write_snapshot is, the snapshot's number,
                    \* and its descriptor's file and offset
    calls, crashes, \* how often it was called, and the machine crashed
    durable         \* history: the snapshot and the log as of the last return
                    \* from write_snapshot that had synced the directory

vars == <<files, directory, call, calls, crashes, durable>>

NoFile == 0

Idle == [at |-> "idle", snapshot |-> 0, file |-> NoFile, offset |-> 0]

Init ==
    /\ files = <<>>
    /\ directory = <<[tmp |-> NoFile, path |-> NoFile, log |-> FALSE]>>
    /\ call = [w \in Writers |-> Idle]
    /\ calls = 0
    /\ crashes = 0
    /\ durable = [snapshot |-> 0, log |-> FALSE]

----------------------------------------------------------------------------
(* Contents. *)

\* Header and account records of the n-th snapshot: what the checksum covers.
Buffer(n) == <<[header |-> n]>> \o [i \in 1 .. Accounts[n] |-> [account |-> i, of |-> n]]

Crc(units) == [crc |-> units]

Zero == [zero |-> 0]

\* write() at an offset, which may lie behind the end of a truncated file.
WriteAt(units, offset, new) ==
    LET end == offset + Len(new)
    IN  [i \in 1 .. IF end > Len(units) THEN end ELSE Len(units) |->
            IF i > offset /\ i <= end THEN new[i - offset]
            ELSE IF i <= Len(units) THEN units[i] ELSE Zero]

Corrupt == -1

\* load_snapshot: the number of the snapshot in a file, 0 without a file.
\* What follows the checksum is not looked at.
load_snapshot(fs, file) ==
    IF file = NoFile THEN 0
    ELSE LET units == fs[file].units
         IN  IF units = <<>> \/ "header" \notin DOMAIN units[1] THEN Corrupt
             ELSE LET size == 1 + Accounts[units[1].header]
                  IN  IF Len(units) > size /\ units[size + 1] = Crc(SubSeq(units, 1, size))
                      THEN units[1].header
                      ELSE Corrupt

----------------------------------------------------------------------------
(* write_snapshot. *)

Dir == directory[Len(directory)]

\* A call that returns closes its descriptor, whatever it returns.
Return(w) == call' = [call EXCEPT ![w] = Idle]

InFlight == {w \in Writers : call[w] # Idle}

\* BinaryWalWriter::open, which creates the log and does not sync the
\* directory; main opens the log before it writes the first snapshot.
OpenLog ==
    /\ ~ Dir.log /\ InFlight = {}
    /\ directory' = Append(directory, [Dir EXCEPT !.log = TRUE])
    /\ UNCHANGED <<files, call, calls, crashes, durable>>

Called(w) ==
    /\ call[w] = Idle /\ Dir.log
    /\ Overlapping \/ InFlight = {}
    /\ calls < Len(Accounts)
    /\ calls' = calls + 1

Opened(w, file) ==
    call' = [call EXCEPT ![w] = [at |-> "opened", snapshot |-> calls + 1, file |-> file, offset |-> 0]]

\* Mutant: there is no temporary file.
Open_InPlace(w) ==
    /\ Called(w)
    /\ IF Dir.path = NoFile
       THEN /\ files' = Append(files, [units |-> <<>>, synced |-> <<>>, dirty |-> FALSE])
            /\ directory' = Append(directory, [Dir EXCEPT !.path = Len(files) + 1])
            /\ Opened(w, Len(files) + 1)
       ELSE /\ files' = [files EXCEPT ![Dir.path].units = <<>>, ![Dir.path].dirty = TRUE]
            /\ Opened(w, Dir.path)
            /\ UNCHANGED directory
    /\ UNCHANGED <<crashes, durable>>

\* open(tmp_path, O_CREAT | O_TRUNC); a temporary file that an earlier call
\* left behind, or that another one is writing, is truncated.
Open(w) ==
    /\ Called(w)
    /\ IF Dir.tmp = NoFile
       THEN /\ files' = Append(files, [units |-> <<>>, synced |-> <<>>, dirty |-> FALSE])
            /\ directory' = Append(directory, [Dir EXCEPT !.tmp = Len(files) + 1])
            /\ Opened(w, Len(files) + 1)
       ELSE /\ files' = [files EXCEPT ![Dir.tmp].units = <<>>, ![Dir.tmp].dirty = TRUE]
            /\ Opened(w, Dir.tmp)
            /\ UNCHANGED directory
    /\ UNCHANGED <<crashes, durable>>

OpenFails(w) ==
    /\ Called(w) /\ "open" \in Faults
    /\ UNCHANGED <<files, directory, call, crashes, durable>>

\* What the next write() of a call writes: the buffer, then its checksum.
NextWrite(w) ==
    IF call[w].at = "opened" THEN Buffer(call[w].snapshot) ELSE <<Crc(Buffer(call[w].snapshot))>>

Written(w, units) ==
    files' = [files EXCEPT ![call[w].file].units = WriteAt(@, call[w].offset, units),
                           ![call[w].file].dirty = TRUE]

Write(w) ==
    /\ call[w].at \in {"opened", "buffer"}
    /\ Written(w, NextWrite(w))
    /\ call' = [call EXCEPT ![w].at = IF @ = "opened" THEN "buffer" ELSE "crc",
                            ![w].offset = @ + Len(NextWrite(w))]
    /\ UNCHANGED <<directory, calls, crashes, durable>>

\* A write that fails or is short leaves what it wrote.
WriteFails(w) ==
    /\ call[w].at \in {"opened", "buffer"} /\ "write" \in Faults
    /\ \E n \in 0 .. Len(NextWrite(w)) - 1 : Written(w, SubSeq(NextWrite(w), 1, n))
    /\ Return(w)
    /\ UNCHANGED <<directory, calls, crashes, durable>>

\* Mutant: the file is renamed without having been synced.
Sync_None(w) ==
    /\ call[w].at = "crc"
    /\ call' = [call EXCEPT ![w].at = "synced"]
    /\ UNCHANGED <<files, directory, calls, crashes, durable>>

\* fsync and close.
Sync(w) ==
    /\ call[w].at = "crc"
    /\ files' = [files EXCEPT ![call[w].file] = [units |-> @.units, synced |-> @.units, dirty |-> FALSE]]
    /\ call' = [call EXCEPT ![w].at = "synced"]
    /\ UNCHANGED <<directory, calls, crashes, durable>>

SyncFails(w) ==
    /\ call[w].at = "crc" /\ "fsync" \in Faults
    /\ Return(w)
    /\ UNCHANGED <<files, directory, calls, crashes, durable>>

Rename(w) ==
    /\ call[w].at = "synced" /\ Dir.tmp # NoFile
    /\ directory' = Append(directory, [Dir EXCEPT !.path = Dir.tmp, !.tmp = NoFile])
    /\ call' = [call EXCEPT ![w].at = "renamed"]
    /\ UNCHANGED <<files, calls, crashes, durable>>

\* rename() also fails when another call has renamed the temporary file away.
RenameFails(w) ==
    /\ call[w].at = "synced"
    /\ Dir.tmp = NoFile \/ "rename" \in Faults
    /\ Return(w)
    /\ UNCHANGED <<files, directory, calls, crashes, durable>>

\* Mutant: the directory is not synced.
SyncDir_None(w) ==
    /\ call[w].at = "renamed"
    /\ durable' = [snapshot |-> load_snapshot(files, Dir.path), log |-> Dir.log]
    /\ Return(w)
    /\ UNCHANGED <<files, directory, calls, crashes>>

\* fsync_parent_dir, which also makes the log's entry durable.
SyncDir(w) ==
    /\ call[w].at = "renamed"
    /\ directory' = <<Dir>>
    /\ durable' = [snapshot |-> load_snapshot(files, Dir.path), log |-> Dir.log]
    /\ Return(w)
    /\ UNCHANGED <<files, calls, crashes>>

\* Its failure is not noticed.
SyncDirFails(w) ==
    /\ call[w].at = "renamed" /\ "sync_dir" \in Faults
    /\ Return(w)
    /\ UNCHANGED <<files, directory, calls, crashes, durable>>

----------------------------------------------------------------------------

\* What a crash may leave of a file.
Survivors(file) ==
    IF file.dirty
    THEN {file.synced} \cup {SubSeq(file.units, 1, n) : n \in 0 .. Len(file.units)}
    ELSE {file.units}

Crash ==
    /\ crashes < MaxCrashes
    /\ crashes' = crashes + 1
    /\ \E d \in Range(directory) : directory' = <<d>>
    /\ files' \in {fs \in [1 .. Len(files) ->
                             [units : UNION {Survivors(f) : f \in Range(files)},
                              synced : UNION {Survivors(f) : f \in Range(files)}, dirty : {FALSE}]] :
                     \A i \in DOMAIN fs : fs[i].units \in Survivors(files[i]) /\ fs[i].synced = fs[i].units}
    /\ call' = [w \in Writers |-> Idle]
    /\ UNCHANGED <<calls, durable>>

write_snapshot(w) ==
    \/ Open(w) \/ OpenFails(w) \/ Write(w) \/ WriteFails(w) \/ Sync(w) \/ SyncFails(w)
    \/ Rename(w) \/ RenameFails(w) \/ SyncDir(w) \/ SyncDirFails(w)

Next == OpenLog \/ Crash \/ \E w \in Writers : write_snapshot(w)

Spec == Init /\ [][Next]_vars

----------------------------------------------------------------------------
(* Properties. *)

\* There is never anything but a whole snapshot at path, or nothing
\* (snapshot.hpp:33): neither while one is written nor after a crash.
PathNeverCorrupt == load_snapshot(files, Dir.path) # Corrupt

\* A snapshot whose call has returned and had synced the directory is there
\* for good: no failing call and no crash takes path back to an older one.
ReturnedSnapshotKept == load_snapshot(files, Dir.path) >= durable.snapshot

\* The log's directory entry, which nothing syncs by itself, survives every
\* crash from the first such return on: the first snapshot, which main writes
\* between opening the log and starting the producers, makes it durable.
LogEntryKept == durable.log => Dir.log

Abstract == INSTANCE AtomicSnapshot WITH
    visible <- load_snapshot(files, Dir.path),
    possible <- {load_snapshot(files, d.path) : d \in Range(directory)}

\* The sequence of system calls amounts to the atomic replacement that
\* CrashRecovery models a snapshot by.
ImplementsAtomicSnapshot == Abstract!Spec

=============================================================================
