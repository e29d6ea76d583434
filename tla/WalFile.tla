------------------------------ MODULE WalFile ------------------------------
(***************************************************************************)
(* The log file byte by byte: BinaryWalWriter, BinaryWalReader and         *)
(* truncate_wal over the encoding of WalCodec, with writes that are torn   *)
(* at any byte, a damaged byte, failing syncs and power failures.          *)
(*                                                                         *)
(* The modules Wal and CrashRecovery build on what is checked here: a torn *)
(* or damaged record is recognised, whatever follows it in the file.       *)
(***************************************************************************)
EXTENDS WalCodec, Functions

CONSTANTS
    Transactions,   \* the transactions that are appended
    Clock,          \* the clock's readings, one per append; Len(Clock) bounds them
    Modes,          \* the values of SyncMode that open is called with
    Flips,          \* what damage may change a byte by
    MaxFaults       \* bound: torn writes, damaged bytes and power failures

\* What the 64-bit fields may hold: without a sign, and with one.
Field == 0 .. Values(Wide) - 1

SignedField == -(Values(Wide) \div 2) .. Values(Wide) \div 2 - 1

Leg == [account_id : Field, direction : {"Debit", "Credit"}, amount : SignedField]

Transaction ==
    [id : Field, created_at_ns : SignedField, idempotency_key : [high : Field, low : Field],
     legs : {legs \in Seq(Leg) : Len(legs) <= kMaxLegsPerTransaction}]

ASSUME WalFileAssumption ==
    /\ Transactions \subseteq Transaction
    /\ Clock \in Seq(SignedField)
    /\ Flips \subseteq Int
    /\ MaxFaults \in Nat

VARIABLES
    file,           \* the bytes of the file
    synced,         \* how many of them are durable
    writer,         \* the fields of BinaryWalWriter
    reader,         \* the fields of BinaryWalReader, and the last outcome
    log,            \* history: the records in the file, with their transaction,
                    \* place and condition
    acked,          \* history: the transactions acknowledged as durable
    appends, faults

vars == <<file, synced, writer, reader, log, acked, appends, faults>>

ClosedWriter == [open |-> FALSE, mode |-> "SyncEveryWrite", offset |-> 0, dirty |-> FALSE]

ClosedReader == [open |-> FALSE, cursor |-> 0, last_valid_offset |-> 0, outcome |-> "EndOfLog"]

Init ==
    /\ file = <<>> /\ synced = 0
    /\ writer = ClosedWriter
    /\ reader = ClosedReader
    /\ log = <<>> /\ acked = {}
    /\ appends = 0 /\ faults = 0

----------------------------------------------------------------------------
(* BinaryWalWriter. *)

\* The transactions a successful sync acknowledges.
Whole(records) == {r.tx : r \in {q \in Range(records) : q.condition = "whole"}}

\* close: the result of its fsync is ignored.
CloseWriter ==
    /\ writer.open
    /\ writer' = [ClosedWriter EXCEPT !.mode = writer.mode]
    /\ \/ synced' = Len(file) /\ acked' = acked \cup Whole(log)
       \/ UNCHANGED <<synced, acked>>
    /\ UNCHANGED <<file, reader, log, appends, faults>>

\* open of a closed writer; of an open one it is close and then this.
OpenWriter(mode) ==
    /\ ~ writer.open
    /\ writer' = [open |-> TRUE, mode |-> mode, offset |-> Len(file), dirty |-> FALSE]
    /\ UNCHANGED <<file, synced, reader, log, acked, appends, faults>>

\* The bytes append writes, and the transaction they stand for: with the
\* clock's reading in place of the time of submission.
Stamped(tx) == [tx EXCEPT !.created_at_ns = Clock[appends + 1]]

Record(tx) ==
    LET payload == encode_transaction_payload(tx).value
        record == RecordHeader(Len(payload), tx.id, tx.created_at_ns) \o payload
    IN  record \o ChecksumOf(record)

Logged(tx, size, condition) ==
    Append(log, [tx |-> tx, from |-> Len(file), to |-> Len(file) + size, condition |-> condition])

Appending(tx) ==
    /\ writer.open /\ appends < Len(Clock)
    /\ encode_transaction_payload(tx).ok
    /\ appends' = appends + 1

\* append of a whole record.  SyncEveryWrite syncs, and the sync may fail.
AppendWhole(tx) ==
    /\ Appending(tx)
    /\ LET record == Record(Stamped(tx))
       IN  /\ file' = file \o record
           /\ log' = Logged(Stamped(tx), Len(record), "whole")
           /\ \/ /\ writer.mode = "SyncEveryWrite"
                 /\ synced' = Len(file')
                 /\ acked' = acked \cup Whole(log')
                 /\ writer' = [writer EXCEPT !.offset = @ + Len(record), !.dirty = FALSE]
              \/ /\ writer' = [writer EXCEPT !.offset = @ + Len(record), !.dirty = TRUE]
                 /\ UNCHANGED <<synced, acked>>
    /\ UNCHANGED <<reader, faults>>

\* append when write() is short; one that fails and writes nothing changes
\* no state.
AppendTorn(tx) ==
    /\ Appending(tx) /\ faults < MaxFaults
    /\ faults' = faults + 1
    /\ LET record == Record(Stamped(tx))
       IN  \E n \in 1 .. Len(record) - 1 :
             /\ file' = file \o SubSeq(record, 1, n)
             /\ log' = Logged(Stamped(tx), n, "torn")
    /\ UNCHANGED <<synced, writer, reader, acked>>

\* Mutant: nothing is synced.
Flush_None ==
    /\ writer.open /\ writer.dirty
    /\ acked' = acked \cup Whole(log)
    /\ writer' = [writer EXCEPT !.dirty = FALSE]
    /\ UNCHANGED <<file, synced, reader, log, appends, faults>>

\* flush with something to sync; otherwise, or if fsync fails, it changes
\* nothing.
Flush ==
    /\ writer.open /\ writer.dirty
    /\ synced' = Len(file)
    /\ acked' = acked \cup Whole(log)
    /\ writer' = [writer EXCEPT !.dirty = FALSE]
    /\ UNCHANGED <<file, reader, log, appends, faults>>

----------------------------------------------------------------------------
(* BinaryWalReader. *)

OpenReader ==
    /\ reader' = [open |-> TRUE, cursor |-> 0, last_valid_offset |-> 0, outcome |-> "Ok"]
    /\ UNCHANGED <<file, synced, writer, log, acked, appends, faults>>

\* seek, to the end of a record that follows only whole ones: the writer's
\* size_bytes() at some time.
Seek ==
    /\ reader.open
    /\ \E i \in DOMAIN log :
         /\ \A j \in 1 .. i : log[j].condition = "whole"
         /\ reader' = [reader EXCEPT !.cursor = log[i].to, !.last_valid_offset = log[i].to,
                                     !.outcome = "Ok"]
    /\ UNCHANGED <<file, synced, writer, log, acked, appends, faults>>

\* read_next: the outcome at a cursor, the transaction, the record's size.
\* A read behind the end of the file yields nothing.
read_next(cursor) ==
    LET left == Len(file) - cursor
        payload_size == get(file, cursor + 8, 2)
        size == kHeaderSize + payload_size
        record == SubSeq(file, cursor + 1, cursor + size)
        tx == decode_transaction_payload(SubSeq(record, kHeaderSize + 1, size),
                                         get(record, 10, Wide), getSigned(record, 10 + Wide, Wide))
    IN  IF left <= 0 THEN [outcome |-> "EndOfLog"]
        ELSE IF left < kHeaderSize THEN [outcome |-> "Truncated"]
        ELSE IF \/ SubSeq(file, cursor + 1, cursor + 4) # kMagic
                \/ SubSeq(file, cursor + 5, cursor + 6) # kVersion
                \/ payload_size > kMaxPayloadSize
             THEN [outcome |-> "Corrupt"]
        ELSE IF left < size + kCrcSize THEN [outcome |-> "Truncated"]
        ELSE IF SubSeq(file, cursor + size + 1, cursor + size + kCrcSize) # ChecksumOf(record)
             THEN [outcome |-> "Corrupt"]
        ELSE IF ~ tx.ok THEN [outcome |-> "Corrupt"]
        ELSE [outcome |-> "Ok", tx |-> tx.value, next |-> cursor + size + kCrcSize]

\* Mutant: last_valid_offset_ is not advanced.
ReadNext_KeepOffset ==
    /\ reader.open
    /\ LET read == read_next(reader.cursor)
       IN  reader' = [reader EXCEPT !.outcome = read.outcome,
                                    !.cursor = IF read.outcome = "Ok" THEN read.next ELSE @]
    /\ UNCHANGED <<file, synced, writer, log, acked, appends, faults>>

ReadNext ==
    /\ reader.open
    /\ LET read == read_next(reader.cursor)
           next == IF read.outcome = "Ok" THEN read.next ELSE reader.cursor
       IN  reader' = [reader EXCEPT !.cursor = next,
                        !.last_valid_offset = IF read.outcome = "Ok" THEN next ELSE @,
                        !.outcome = read.outcome]
    /\ UNCHANGED <<file, synced, writer, log, acked, appends, faults>>

CloseReader ==
    /\ reader.open
    /\ reader' = ClosedReader
    /\ UNCHANGED <<file, synced, writer, log, acked, appends, faults>>

\* What is left of the records in the first n bytes.
Cut(records, n) ==
    [i \in {j \in DOMAIN records : records[j].from < n} |->
        IF records[i].to <= n THEN records[i]
        ELSE [records[i] EXCEPT !.to = n, !.condition = "torn"]]

\* truncate_wal as recover calls it, to the reader's offset.  What it cuts
\* off is no longer claimed.
Truncate ==
    /\ reader.open /\ reader.outcome \in {"Corrupt", "Truncated"} /\ ~ writer.open
    /\ file' = SubSeq(file, 1, reader.last_valid_offset)
    /\ synced' = Len(file')
    /\ log' = Cut(log, Len(file'))
    /\ acked' = acked \cap {r.tx : r \in Range(log')}
    /\ reader' = ClosedReader
    /\ UNCHANGED <<writer, appends, faults>>

----------------------------------------------------------------------------
(* The storage. *)

\* A byte of the file changes while nobody reads it.
Damage ==
    /\ faults < MaxFaults /\ ~ reader.open
    /\ faults' = faults + 1
    /\ \E i \in DOMAIN file, d \in Flips :
         /\ file' = [file EXCEPT ![i] = (@ + d) % 256]
         /\ log' = [k \in DOMAIN log |->
                      IF log[k].from < i /\ i <= log[k].to /\ log[k].condition = "whole"
                      THEN [log[k] EXCEPT !.condition = "damaged"] ELSE log[k]]
    /\ UNCHANGED <<synced, writer, reader, acked, appends>>

\* A power failure.
Crash ==
    /\ faults < MaxFaults
    /\ faults' = faults + 1
    /\ \E n \in synced .. Len(file) :
         /\ file' = SubSeq(file, 1, n)
         /\ synced' = n
         /\ log' = Cut(log, n)
    /\ writer' = ClosedWriter
    /\ reader' = ClosedReader
    /\ UNCHANGED <<acked, appends>>

Next ==
    \/ CloseWriter \/ Flush \/ OpenReader \/ Seek \/ ReadNext \/ CloseReader
    \/ Truncate \/ Damage \/ Crash
    \/ \E mode \in Modes : OpenWriter(mode)
    \/ \E tx \in Transactions : AppendWhole(tx) \/ AppendTorn(tx)

Spec == Init /\ [][Next]_vars

----------------------------------------------------------------------------
(* Properties. *)

At(offset) == {r \in Range(log) : r.from = offset}

\* Wherever a reader has got to, read_next returns exactly the transaction
\* that was appended there if its record is as it was written; it reports the
\* end of the log only where nothing follows, and anything torn or damaged,
\* in whatever byte, as such (wal_reader.hpp:19-22, wal_format.hpp:13-14).
ReadsExactlyTheIntact ==
    reader.open =>
      LET read == read_next(reader.cursor)
      IN  /\ (read.outcome = "Ok") <=> (\E r \in At(reader.cursor) : r.condition = "whole")
          /\ (read.outcome = "Ok") => (\E r \in At(reader.cursor) : r.tx = read.tx)
          /\ (read.outcome = "EndOfLog") <=> (At(reader.cursor) = {})

IntactPrefix ==
    {i \in DOMAIN log : \A j \in 1 .. i : log[j].condition = "whole"}

\* Cutting the log at the offset a stopped reader reports (wal_reader.hpp:50)
\* leaves exactly the whole records in front of the first flaw, and no byte
\* behind them: what is appended next will be read.
TruncationRepairs ==
    [][Len(file') < Len(file) /\ faults' = faults =>
         /\ log' = [i \in IntactPrefix |-> log[i]]
         /\ Len(file') = IF IntactPrefix = {} THEN 0 ELSE log[Max(IntactPrefix)].to]_vars

\* A record acknowledged as durable is in the file after every crash, in one
\* piece: by append under SyncEveryWrite, by flush, or by a close whose sync
\* succeeded.
AcknowledgedSurvive ==
    \A tx \in acked : \E r \in Range(log) : r.tx = tx /\ r.condition # "torn"

\* CRC32 as the division of the message, bit by bit, defines it: the register
\* after a bit, the low one of a byte first, after a byte and after all bytes.
DivideBit[step \in Register \X BOOLEAN] ==
    LET shifted == Shifted(step[1], 1)
    IN  IF 0 \in step[1] <=> step[2] THEN shifted ELSE SymDiff(kPolynomial, shifted)

DivideBits(register, bits) ==
    LET after[k \in 0 .. 8] ==
          IF k = 0 THEN register ELSE DivideBit[<<after[k - 1], k - 1 \in bits>>]
    IN  after[8]

DivideByte[step \in Register \X Byte] == DivideBits(step[1], Bits(step[2]))

Remainder(bytes) ==
    LET after[i \in 0 .. Len(bytes)] ==
          IF i = 0 THEN 0 .. 31 ELSE DivideByte[<<after[i - 1], bytes[i]>>]
    IN  after[Len(bytes)]

\* The trailer of a record is the CRC32 of IEEE 802.3 of what precedes it, as
\* the division defines it (crc32.cpp:8 claims it of the table).
ChecksumByDivision ==
    log # <<>> /\ log[Len(log)].condition = "whole" =>
      LET last == log[Len(log)]
      IN  SubSeq(file, last.to - 3, last.to) =
            CrcBytes((0 .. 31) \ Remainder(SubSeq(file, last.from + 1, last.to - kCrcSize)))

=============================================================================
