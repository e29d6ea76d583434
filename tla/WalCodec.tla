------------------------------ MODULE WalCodec ------------------------------
(***************************************************************************)
(* The bytes of a log record: src/wal_codec.cpp, src/crc32.cpp and the     *)
(* record format of include/ledger/wal_format.hpp.                         *)
(*                                                                         *)
(* Bytes are 0 .. 255 and integers little-endian, as memcpy leaves them.   *)
(* The 8-byte fields have Wide bytes here and payload_size two; magic,     *)
(* version, flags and the checksum are as in the code.  A 32-bit register  *)
(* is the set of its bits that are 1, and so is an index of the table.     *)
(***************************************************************************)
EXTENDS Integers, Sequences, FiniteSetsExt

CONSTANTS
    Wide,                       \* the bytes of a 64-bit field
    kMaxLegsPerTransaction,
    kMaxPayloadSize

MinSize == 2 * Wide + 1         \* both halves of the key, and the leg count

LegSize == 2 * Wide + 1         \* account, direction, amount

\* As in the code, where 17 + 16 * 17 <= 512: no leg list is too long.
ASSUME CodecAssumption ==
    /\ Wide \in Nat \ {0}
    /\ kMaxLegsPerTransaction \in 0 .. 255
    /\ kMaxPayloadSize \in Nat /\ kMaxPayloadSize < 65536
    /\ MinSize + kMaxLegsPerTransaction * LegSize <= kMaxPayloadSize

\* Result<T>: a value or an error.
Value(v) == [ok |-> TRUE, value |-> v]

Error(e) == [ok |-> FALSE, error |-> e]

----------------------------------------------------------------------------
(* put and get. *)

Byte == 0 .. 255

put(value, width) ==
    LET shifted[i \in 0 .. width] == IF i = 0 THEN value ELSE shifted[i - 1] \div 256
    IN  [i \in 1 .. width |-> shifted[i - 1] % 256]

\* An unsigned field: the last i of its bytes, for i up to width.
get(bytes, offset, width) ==
    LET last[i \in 0 .. width] ==
          IF i = 0 THEN 0 ELSE bytes[offset + width + 1 - i] + 256 * last[i - 1]
    IN  last[width]

\* The number of values of a field.
Values(width) ==
    LET values[i \in 0 .. width] == IF i = 0 THEN 1 ELSE 256 * values[i - 1]
    IN  values[width]

\* A field in two's complement.
getSigned(bytes, offset, width) ==
    LET n == get(bytes, offset, width)
    IN  IF bytes[offset + width] >= 128 THEN n - Values(width) ELSE n

----------------------------------------------------------------------------
(* The payload. *)

Direction == <<"Debit", "Credit">>

EncodedLeg(leg) ==
    put(leg.account_id, Wide) \o <<IF leg.direction = "Debit" THEN 0 ELSE 1>> \o put(leg.amount, Wide)

EncodedLegs(legs) ==
    LET of[i \in 0 .. Len(legs)] == IF i = 0 THEN <<>> ELSE of[i - 1] \o EncodedLeg(legs[i])
    IN  of[Len(legs)]

encode_transaction_payload(tx) ==
    IF MinSize + Len(tx.legs) * LegSize > kMaxPayloadSize
    THEN Error("WalPayloadTooLarge")
    ELSE Value(put(tx.idempotency_key.high, Wide) \o put(tx.idempotency_key.low, Wide)
                 \o put(Len(tx.legs), 1) \o EncodedLegs(tx.legs))

\* The length is checked before anything is read.  push_back cannot fail, for
\* the leg count has been checked.
decode_transaction_payload(payload, id, timestamp_ns) ==
    LET leg_count == payload[MinSize]
        offset(i) == MinSize + (i - 1) * LegSize
        direction(i) == payload[offset(i) + Wide + 1]
    IN  IF \/ Len(payload) < MinSize
           \/ leg_count > kMaxLegsPerTransaction
           \/ Len(payload) # MinSize + leg_count * LegSize
           \/ \E i \in 1 .. leg_count : direction(i) > 1
        THEN Error("WalCorruptRecord")
        ELSE Value([id |-> id, created_at_ns |-> timestamp_ns,
                    idempotency_key |-> [high |-> get(payload, 0, Wide), low |-> get(payload, Wide, Wide)],
                    legs |-> [i \in 1 .. leg_count |->
                                [account_id |-> get(payload, offset(i), Wide),
                                 direction |-> Direction[direction(i) + 1],
                                 amount |-> getSigned(payload, offset(i) + Wide + 1, Wide)]]])

----------------------------------------------------------------------------
(* CRC32. *)

Bits(n) == {b \in 0 .. 7 : (n \div 2^b) % 2 = 1}

\* The byte with these bits, from the highest one down.
Number(bits) ==
    LET high[i \in 0 .. 8] == IF i = 0 THEN 0 ELSE (IF 8 - i \in bits THEN 1 ELSE 0) + 2 * high[i - 1]
    IN  high[8]

Shifted(bits, n) == {b - n : b \in {c \in bits : c >= n}}

kPolynomial == {5, 8, 9, 15, 19, 20, 21, 23, 24, 26, 27, 29, 30, 31}      \* 0xEDB88320

Register == SUBSET (0 .. 31)

\* One round of a table entry's computation, and a number of them.
Round[c \in Register] == IF 0 \in c THEN SymDiff(kPolynomial, Shifted(c, 1)) ELSE Shifted(c, 1)

Rounds(c, n) == LET after[k \in 0 .. n] == IF k = 0 THEN c ELSE Round[after[k - 1]] IN after[n]

\* Mutant: one round too few.
make_table_SevenRounds == [i \in SUBSET (0 .. 7) |-> Rounds(i, 7)]

make_table == [i \in SUBSET (0 .. 7) |-> Rounds(i, 8)]

kTable == make_table

\* The loop's body: the register after one more byte.
Update[step \in Register \X Byte] ==
    LET crc == step[1]
        b == step[2]
    IN  SymDiff(kTable[SymDiff(crc \cap (0 .. 7), Bits(b))], Shifted(crc, 8))

compute(data) ==
    LET crc[i \in 0 .. Len(data)] == IF i = 0 THEN 0 .. 31 ELSE Update[<<crc[i - 1], data[i]>>]
    IN  SymDiff(crc[Len(data)], 0 .. 31)

CrcBytes(crc) == [i \in 1 .. 4 |-> Number(Shifted(crc, 8 * (i - 1)) \cap (0 .. 7))]

----------------------------------------------------------------------------
(* A record: header, payload, checksum. *)

kMagic == <<71, 68, 69, 76>>         \* 0x4C454447, the low byte first

kVersion == <<1, 0>>

kHeaderSize == 10 + 2 * Wide         \* magic, version, flags, payload_size, id, timestamp

kCrcSize == 4

RecordHeader(payload_size, transaction_id, timestamp_ns) ==
    kMagic \o kVersion \o <<0, 0>> \o put(payload_size, 2)
      \o put(transaction_id, Wide) \o put(timestamp_ns, Wide)

\* Mutant: the checksum covers the payload only.
ChecksumOf_Payload(record) == CrcBytes(compute(SubSeq(record, kHeaderSize + 1, Len(record))))

\* The checksum of a record's header and payload.
ChecksumOf(record) == CrcBytes(compute(record))

=============================================================================
