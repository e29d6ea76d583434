-------------------------------- MODULE Wal --------------------------------
(***************************************************************************)
(* The binary write-ahead log: src/wal_writer.cpp, src/wal_reader.cpp.     *)
(*                                                                         *)
(* A log is a record                                                       *)
(*    file    the units in the file, in order,                             *)
(*    synced  how many of them an fsync has made durable,                  *)
(*    offset  the writer's idea of the file size (offset_),                *)
(*    dirty   dirty_since_sync_,                                           *)
(*    mode    sync_mode_.                                                  *)
(* A record on disk is two units: its head and its body (payload and CRC   *)
(* trailer).  Two units are enough to tell a whole record from a torn one, *)
(* and an offset on a record boundary from one inside a record.  Offsets   *)
(* count units.  That the CRC recognises every body that does not belong   *)
(* to its head is assumed here.                                            *)
(***************************************************************************)
EXTENDS Integers, Sequences

SyncMode == {"SyncEveryWrite", "BatchSyncFlush"}

RecordUnits(tx) == <<[part |-> "head", tx |-> tx], [part |-> "body", tx |-> tx]>>

RecordSize == 2

\* BinaryWalWriter::open: O_CREAT | O_APPEND, the offset is the file's size.
OpenLog(file, synced, mode) ==
    [file |-> file, synced |-> synced, offset |-> Len(file), dirty |-> FALSE, mode |-> mode]

\* Mutant: dirty_since_sync_ is not set.
AppendRecord_Clean(wal, tx) ==
    [wal EXCEPT !.file = @ \o RecordUnits(tx), !.offset = @ + RecordSize]

\* append, when write() writes the whole record.
AppendRecord(wal, tx) ==
    [wal EXCEPT !.file = @ \o RecordUnits(tx), !.offset = @ + RecordSize, !.dirty = TRUE]

\* append, when write() fails or is short: what was written stays in the
\* file, and the writer returns before it touches its own fields.
ShortAppends(wal, tx) ==
    {[wal EXCEPT !.file = @ \o SubSeq(RecordUnits(tx), 1, n)] : n \in 0 .. RecordSize - 1}

\* Mutant: the flag is cleared without an fsync.
Flushed_Unsynced(wal) == [wal EXCEPT !.dirty = FALSE]

\* flush, when fsync succeeds (a no-op if nothing was written since the last).
Flushed(wal) ==
    IF wal.dirty THEN [wal EXCEPT !.synced = Len(wal.file), !.dirty = FALSE] ELSE wal

\* A power failure keeps every synced unit and any further prefix of the rest.
SurvivingFiles(wal) ==
    {SubSeq(wal.file, 1, n) : n \in wal.synced .. Len(wal.file)}

----------------------------------------------------------------------------

\* Mutant: a partial record at the end of the file is taken for its end.
ReadOutcome_Lax(file, cursor) ==
    IF cursor + RecordSize > Len(file) THEN "EndOfLog"
    ELSE IF file[cursor + 1].part # "head" THEN "Corrupt"
    ELSE IF file[cursor + 2] # [file[cursor + 1] EXCEPT !.part = "body"] THEN "Corrupt"
    ELSE "Ok"

\* BinaryWalReader::read_next at a cursor: its outcome.  A pread at or past
\* the end of the file reads nothing.
ReadOutcome(file, cursor) ==
    IF cursor >= Len(file) THEN "EndOfLog"
    ELSE IF file[cursor + 1].part # "head" THEN "Corrupt"
    ELSE IF cursor + RecordSize > Len(file) THEN "Truncated"
    ELSE IF file[cursor + 2] # [file[cursor + 1] EXCEPT !.part = "body"] THEN "Corrupt"
    ELSE "Ok"

ReadTransaction(file, cursor) == file[cursor + 1].tx

\* truncate_wal: ftruncate, which extends a shorter file with zeros that are
\* no record, and fsync.
ZeroUnit == [part |-> "zero"]

\* Mutant: one unit too many is cut off.
truncate_wal_Short(file, length) ==
    [i \in 1 .. length - 1 |-> IF i <= Len(file) THEN file[i] ELSE ZeroUnit]

truncate_wal(file, length) ==
    [i \in 1 .. length |-> IF i <= Len(file) THEN file[i] ELSE ZeroUnit]

=============================================================================
