---------------------------- MODULE CrashProofs ----------------------------
(***************************************************************************)
(* What the books and the history of commits are after any number of       *)
(* crashes and recoveries.                                                 *)
(***************************************************************************)
EXTENDS EngineProofs, LedgerLemmas

----------------------------------------------------------------------------
(* The books: every state that is applied to, published, saved or restored *)
(* has all the accounts or none of them, and balances if they opened so.   *)

OpenBalanced == \A opening \in OpeningAccounts : opening.account.balance = 0

SoundFile(file, D) ==
    \A k \in 1 .. Len(file) : file[k].part = "head" => SoundTx(file[k].tx, D)

LEMMA PrefixSound ==
    ASSUME NEW D, NEW file, IsSeq(file), SoundFile(file, D), NEW n \in 0 .. Len(file)
    PROVE  SoundFile(SubSeq(file, 1, n), D)
<1> DEFINE cut == SubSeq(file, 1, n)
<1>1. Len(cut) = n /\ \A i \in 1 .. n : cut[i] = file[i] /\ i \in 1 .. Len(file)
  <2>1. Len(file) \in Nat
    BY DEF IsSeq
  <2>2. \A i \in 1 .. n : i \in 1 .. Len(file)
    BY <2>1
  <2> QED
    BY <2>2, Prefix, Zenon
<1> HIDE DEF cut
<1>2. SoundFile(cut, D)
  BY <1>1, Zenon DEF SoundFile
<1> QED
  BY <1>2 DEF cut

LEMMA JoinedSound ==
    ASSUME NEW D, NEW s, IsSeq(s), SoundFile(s, D), NEW t, IsSeq(t), SoundFile(t, D)
    PROVE  SoundFile(s \o t, D)
<1> DEFINE c == s \o t
<1>1. Joined(s, t, c)
  BY Concatenated
<1> HIDE DEF c
<1>2. SUFFICES ASSUME NEW i \in 1 .. Len(c), c[i].part = "head" PROVE SoundTx(c[i].tx, D)
  BY Zenon DEF SoundFile, c
<1>3. Len(c) = Len(s) + Len(t) /\ Len(s) \in Nat /\ Len(t) \in Nat
  BY <1>1, Zenon DEF Joined
<1>4. CASE i \in 1 .. Len(s)
  BY <1>1, <1>2, <1>4, Zenon DEF Joined, SoundFile
<1>5. CASE ~ (i \in 1 .. Len(s))
  <2>1. PICK j \in 1 .. Len(t) : i = Len(s) + j
    <3>1. i - Len(s) \in 1 .. Len(t) /\ i = Len(s) + (i - Len(s))
      BY <1>3, <1>5
    <3> QED
      BY <3>1, Zenon
  <2> QED
    BY <1>1, <1>2, <2>1, Zenon DEF Joined, SoundFile
<1> QED
  BY <1>4, <1>5

LEMMA UnitsSound ==
    ASSUME NEW D, NEW t, SoundTx(t, D)
    PROVE  SoundFile(RecordUnits(t), D)
<1>1. Len(RecordUnits(t)) = 2 /\ \A k \in 1 .. 2 : RecordUnits(t)[k].tx = t
  <2> DEFINE h == [part |-> "head", tx |-> t]
             b == [part |-> "body", tx |-> t]
  <2>1. h.tx = t /\ b.tx = t /\ RecordUnits(t) = <<h, b>>
    BY DEF RecordUnits
  <2> HIDE DEF h, b
  <2>2. Len(<<h, b>>) = 2 /\ \A k \in 1 .. 2 : <<h, b>>[k] = h \/ <<h, b>>[k] = b
    OBVIOUS
  <2> QED
    BY <2>1, <2>2, Zenon
<1> QED
  BY <1>1, Zenon DEF SoundFile

\* append and flush keep it so, whether they succeed or not.
LEMMA LogSound ==
    ASSUME NEW D, NEW log, IsLog(log), SoundFile(log.file, D), NEW t, SoundTx(t, D), NEW new,
           new = AppendRecord(log, t) \/ new \in ShortAppends(log, t)
    PROVE  SoundFile(new.file, D)
<1>1. IsSeq(log.file) /\ IsRecord(log)
  BY Zenon DEF IsLog
<1>2. IsSeq(RecordUnits(t)) /\ Len(RecordUnits(t)) = 2 /\ SoundFile(RecordUnits(t), D)
  BY Units, UnitsSound, Zenon
<1>3. CASE new = AppendRecord(log, t)
  <2>1. new.file = log.file \o RecordUnits(t)
    BY <1>1, <1>3, LogFields, Zenon
  <2> QED
    BY <1>1, <1>2, <2>1, JoinedSound, Zenon
<1>4. CASE new \in ShortAppends(log, t)
  <2>1. PICK n \in 0 .. 1 :
           /\ IsRecord(new) /\ new.file = log.file \o SubSeq(RecordUnits(t), 1, n)
           /\ new.synced = log.synced /\ new.mode = log.mode
    BY <1>1, <1>4, ShortFields, Zenon
  <2>2. n \in 0 .. Len(RecordUnits(t))
    BY <1>2
  <2>3. IsSeq(SubSeq(RecordUnits(t), 1, n)) /\ SoundFile(SubSeq(RecordUnits(t), 1, n), D)
    BY <1>2, <2>2, Prefix, PrefixSound, Zenon
  <2> QED
    BY <1>1, <2>1, <2>3, JoinedSound, Zenon
<1> QED
  BY <1>3, <1>4

----------------------------------------------------------------------------
(* The engine keeps the books. *)

SoundEngine(D) ==
    /\ Sound(working, D, OpenBalanced) /\ Sound(published, D, OpenBalanced)
    /\ SoundFile(wal.file, D)
    /\ Busy => SoundTx(writer.request.tx, D)

\* What passes the validation is valid for the state it will be applied to.
LEMMA Accepted ==
    ASSUME Types, ring # <<>>, Verdict(Head(ring).tx) = "None"
    PROVE  /\ Head(ring).tx.id \in Nat /\ Head(ring).tx.legs \in Seq(EntryLeg)
           /\ validate_transaction_shape(Head(ring).tx.legs) = "None"
           /\ Touched(Head(ring).tx.legs) \subseteq DOMAIN working.accounts
<1> DEFINE t == Head(ring).tx
<1>1. t \in Transactions
  <2>1. Head(ring) \in Pending
    <3>1. ring \in Seq(Pending) /\ ring # <<>>
      BY DEF Types
    <3> QED
      BY <3>1
  <2> QED
    BY <2>1 DEF Pending
<1>2. t.id \in Nat /\ t.legs \in Seq(EntryLeg)
  BY <1>1, EngineAssumption DEF Transactions, AskedLegs, LegList
<1> QED
  BY <1>2, AcceptedIsValid, StateValid, Zenon

LEMMA AcceptedSound ==
    ASSUME Types, NEW D, Sound(working, D, OpenBalanced), ring # <<>>,
           Verdict(Head(ring).tx) = "None"
    PROVE  SoundTx(Head(ring).tx, D)
<1>1. DOMAIN working.accounts \subseteq D
  BY DEF Sound
<1> QED
  BY <1>1, Accepted DEF SoundTx

LEMMA SoundEngineStep ==
    ASSUME Types, IsLog(wal), NEW D, SoundEngine(D), [Next]_vars
    PROVE  SoundEngine(D)' \/ \E opening \in OpeningAccounts : AddAccount(opening)
<1>0. /\ Sound(working, D, OpenBalanced) /\ Sound(published, D, OpenBalanced)
      /\ SoundFile(wal.file, D)
      /\ Busy => SoundTx(writer.request.tx, D)
  BY Zenon DEF SoundEngine
<1>1. ASSUME UNCHANGED <<working, published, wal>>,
             Busy' => Busy /\ writer'.request = writer.request
      PROVE  SoundEngine(D)'
  <2>2. Busy' => SoundTx(writer'.request.tx, D)
    BY <1>0, <1>1, Zenon
  <2>3. Sound(working, D, OpenBalanced)' /\ Sound(published, D, OpenBalanced)' /\ SoundFile(wal.file, D)'
    BY <1>0, <1>1, Zenon DEF Sound, SoundFile
  <2> QED
    BY <2>2, <2>3 DEF SoundEngine
<1>2. ASSUME WalAppend PROVE SoundEngine(D)'
  <2> DEFINE t == Head(ring).tx
  <2>1. /\ wal' = AppendRecord(wal, t) /\ UNCHANGED <<working, published>>
        /\ writer'.request.tx = t /\ ring # <<>> /\ Verdict(t) = "None"
    BY <1>2 DEF WalAppend, Dequeue, stateVars
  <2>2. SoundTx(t, D)
    BY <1>0, <2>1, AcceptedSound, Zenon
  <2> HIDE DEF t
  <2>4. SoundFile(wal'.file, D)
    BY <1>0, <2>1, <2>2, LogSound, Zenon
  <2> QED
    BY <1>0, <2>1, <2>2, <2>4, Zenon DEF SoundEngine
<1>3. ASSUME WalAppendFails PROVE SoundEngine(D)'
  <2> DEFINE t == Head(ring).tx
  <2>1. /\ wal' \in ShortAppends(wal, t) /\ UNCHANGED <<working, published, writer>>
        /\ ring # <<>> /\ Verdict(t) = "None"
    BY <1>3, Zenon DEF WalAppendFails, Dequeue, stateVars
  <2>2. SoundTx(t, D)
    BY <1>0, <2>1, AcceptedSound, Zenon
  <2> HIDE DEF t
  <2>4. SoundFile(wal'.file, D)
    BY <1>0, <2>1, <2>2, LogSound, Zenon
  <2> QED
    BY <1>0, <2>1, <2>4, Zenon DEF SoundEngine, Busy
<1>4. ASSUME wal' = Flushed(wal), UNCHANGED <<working, published>>,
             Busy' => Busy /\ writer'.request = writer.request
      PROVE  SoundEngine(D)'
  <2>1. wal'.file = wal.file
    BY <1>4, FlushSyncs, Zenon
  <2> QED
    BY <1>0, <1>4, <2>1, Zenon DEF SoundEngine
<1>5. ASSUME WalFlush \/ FlushBatch PROVE SoundEngine(D)'
  <2>1. Quiet
    BY <1>5 DEF WalFlush, FlushBatch, Quiet, producerVars
  <2>2. Busy' => Busy /\ writer'.request = writer.request
    BY <2>1, QuietWriter, Zenon
  <2>3. wal' = Flushed(wal) /\ UNCHANGED <<working, published>>
    BY <1>5, Zenon DEF WalFlush, FlushBatch, stateVars
  <2> QED
    BY <1>4, <2>2, <2>3, Zenon
<1>6. ASSUME ApplyAndPublish PROVE SoundEngine(D)'
  <2>1. Quiet
    BY <1>6 DEF ApplyAndPublish, Quiet, producerVars
  <2>2. /\ Busy' => Busy /\ writer'.request = writer.request
        /\ Busy
    BY <1>6, <2>1, QuietWriter, IdleWriter DEF ApplyAndPublish
  <2>3. /\ wal' = wal /\ working' = apply(working, writer.request.tx)
        /\ published' = working' \/ published' = published
    BY <1>6, Zenon DEF ApplyAndPublish, Publish
  <2>4. Sound(working', D, OpenBalanced)
    BY <1>0, <2>2, <2>3, AppliedSound, Zenon
  <2> QED
    BY <1>0, <2>2, <2>3, <2>4, Zenon DEF SoundEngine
<1>7. ASSUME \/ StartProducers \/ Reject \/ WalFlushFails \/ Acknowledge \/ UNCHANGED vars
             \/ \E p \in Producers : Producer(p)
      PROVE  SoundEngine(D)'
  <2>1. /\ UNCHANGED <<working, published, wal>>
        /\ UNCHANGED writer \/ writer' = NoRequest
    BY <1>7, Zenon DEF StartProducers, Reject, WalFlushFails, Acknowledge, vars, stateVars,
       producerVars, Producer, Allocate, Submit, ObserveDone, Finish
  <2> QED
    BY <1>1, <2>1, Zenon DEF Busy
<1> QED
  BY <1>2, <1>3, <1>5, <1>6, <1>7 DEF Next, Writer

\* A file cut short or filled up with zeros is as sound as it was.
LEMMA CutSound ==
    ASSUME NEW D, NEW old, Len(old) \in Nat, SoundFile(old, D), NEW file,
           \A i \in 1 .. Len(file) : file[i] = IF i <= Len(old) THEN old[i] ELSE ZeroUnit
    PROVE  SoundFile(file, D)
<1>1. ZeroUnit.part # "head"
  BY DEF ZeroUnit
<1>2. \A i \in 1 .. Len(file) : i <= Len(old) => i \in 1 .. Len(old)
  OBVIOUS
<1> QED
  BY <1>1, <1>2, Zenon DEF SoundFile

----------------------------------------------------------------------------
(* recover() never finds the books out of balance. *)

SoundEverywhere(D) ==
    SoundEngine(D) /\ Sound(snapshot_file.state, D, OpenBalanced) /\ Sound(recovered, D, OpenBalanced)

BooksInv ==
    /\ ProcessInv
    /\ \E D \in SUBSET AccountId : SoundEverywhere(D)
    /\ OpenBalanced => phase # "refused"

\* What is saved and restored is sound, if the engine is.
LEMMA RestoredSound ==
    ASSUME BooksInv, NEW D, SoundEverywhere(D), [CrashNext]_allVars
    PROVE  /\ Sound(snapshot_file'.state, D, OpenBalanced) /\ Sound(recovered', D, OpenBalanced)
           /\ OpenBalanced => phase' # "refused"
<1> DEFINE Goal == /\ Sound(snapshot_file'.state, D, OpenBalanced) /\ Sound(recovered', D, OpenBalanced)
                   /\ OpenBalanced => phase' # "refused"
<1>0. /\ Sound(working, D, OpenBalanced) /\ Sound(published, D, OpenBalanced) /\ SoundFile(wal.file, D)
      /\ Sound(snapshot_file.state, D, OpenBalanced) /\ Sound(recovered, D, OpenBalanced)
      /\ LogInv /\ cursor \in Nat
      /\ OpenBalanced => phase # "refused"
  BY Zenon DEF BooksInv, ProcessInv, SoundEverywhere, SoundEngine
<1>1. CASE Run \/ UNCHANGED allVars
  BY <1>0, <1>1, Zenon DEF Run, allVars, recoveryVars
<1>2. ASSUME NEW state, NEW offset, Sound(state, D, OpenBalanced),
             snapshot_file' = Snapshot(state, offset), UNCHANGED recoveryVars
      PROVE  Goal
  <2>1. snapshot_file'.state = state
    BY <1>2, SnapshotFields, Zenon
  <2> QED
    BY <1>0, <1>2, <2>1, Zenon DEF recoveryVars
<1>3. CASE SeedAndStart
  <2>1. CASE snapshot_file' = Snapshot(working, 0)
    BY <1>0, <1>2, <1>3, <2>1, Zenon DEF SeedAndStart
  <2>2. CASE UNCHANGED snapshot_file
    BY <1>0, <1>3, <2>2, Zenon DEF SeedAndStart, recoveryVars
  <2> QED
    BY <1>3, <2>1, <2>2, Zenon DEF SeedAndStart
<1>4. CASE Checkpoint \/ FinalCheckpoint
  BY <1>0, <1>2, <1>4, Zenon DEF Checkpoint, FinalCheckpoint
<1>5. CASE Crash
  <2>1. "crashed" # "refused"
    OBVIOUS
  <2> QED
    BY <1>0, <1>5, <2>1, EmptySound, Zenon DEF Crash
<1>6. CASE LoadSnapshot \/ LoadSnapshotFails \/ OpenReader \/ TruncateFails
  <2>1. "loaded" # "refused" /\ "failed" # "refused" /\ "replay" # "refused"
    OBVIOUS
  <2> QED
    BY <1>0, <1>6, <2>1, Zenon
    DEF LoadSnapshot, LoadSnapshotFails, OpenReader, TruncateFails
<1>7. ASSUME Verified, UNCHANGED <<snapshot_file, recovered>> PROVE Goal
  <2>1. "recovered" # "refused"
    OBVIOUS
  <2>2. OpenBalanced => validate_trial_balance(recovered.accounts)
    BY <1>0, Zenon DEF Sound
  <2> QED
    BY <1>0, <1>7, <2>1, <2>2, Zenon DEF Verified
<1>8. CASE OpenReaderFails
  <2>1. "failed" # "refused"
    OBVIOUS
  <2> QED
    BY <1>0, <1>7, <1>8, <2>1, Zenon DEF OpenReaderFails
<1>9. CASE EndOfReplay \/ TruncateTail \/ ReadFails
  BY <1>7, <1>9, Zenon DEF EndOfReplay, TruncateTail, ReadFails, CutTail
<1>10. CASE ReplayRecord
  <2> DEFINE t == ReadTransaction(wal.file, cursor)
  <2>1. /\ ReadOutcome(wal.file, cursor) = "Ok"
        /\ recovered' = apply(recovered, t) \/ recovered' = recovered
        /\ UNCHANGED <<snapshot_file, phase>>
    BY <1>10, Zenon DEF ReplayRecord
  <2>2. t = wal.file[cursor + 1].tx
    BY Zenon DEF ReadTransaction
  <2> HIDE DEF t
  <2>3. SoundTx(t, D)
    BY <1>0, <2>1, <2>2, RecordRead, Zenon DEF SoundFile
  <2>4. Sound(recovered', D, OpenBalanced)
    BY <1>0, <2>1, <2>3, AppliedSound, Zenon
  <2> QED
    BY <1>0, <2>1, <2>4, Zenon
<1>11. CASE Resume
  <2>1. "running" # "refused"
    OBVIOUS
  <2> QED
    BY <1>0, <1>11, <2>1, Zenon DEF Resume
<1> QED
  BY <1>1, <1>3, <1>4, <1>5, <1>6, <1>8, <1>9, <1>10, <1>11, Zenon
  DEF CrashNext, Recover, RecoverFaults

\* So is the engine, before and after a crash.
LEMMA RestartedSound ==
    ASSUME BooksInv, NEW D, SoundEverywhere(D), [CrashNext]_allVars
    PROVE  SoundEngine(D)' \/ \E opening \in OpeningAccounts : AddAccount(opening)
<1>0. /\ Types /\ LogInv /\ IsLog(wal) /\ wal.mode \in SyncMode
      /\ SoundEngine(D) /\ SoundFile(wal.file, D) /\ Sound(recovered, D, OpenBalanced)
      /\ cursor \in Nat /\ IsSeq(wal.file) /\ Len(wal.file) \in Nat
  BY Zenon DEF BooksInv, ProcessInv, SoundEverywhere, SoundEngine, LogInv, IsLog
<1>1. CASE [Next]_vars
  BY <1>0, <1>1, SoundEngineStep
<1>2. ASSUME NEW state, Sound(state, D, OpenBalanced), NEW file, IsSeq(file), SoundFile(file, D),
             FreshEngine(state, file)
      PROVE  SoundEngine(D)'
  <2>1. /\ working' = state /\ published' = EmptyLedgerState /\ ~ Busy'
        /\ wal' = OpenLog(file, Len(file), wal.mode)
    BY <1>2, Zenon DEF FreshEngine, Busy
  <2>2. wal'.file = file
    BY <1>0, <1>2, <2>1, ReopenedLog, Zenon
  <2> QED
    BY <1>2, <2>1, <2>2, EmptySound, Zenon DEF SoundEngine
<1>3. ASSUME NEW file \in SurvivingFiles(wal), FreshEngine(EmptyLedgerState, file)
      PROVE  SoundEngine(D)'
  <2>1. /\ IsSeq(file) /\ Len(file) \in wal.synced .. Len(wal.file)
        /\ \A i \in 1 .. Len(file) : file[i] = wal.file[i]
    BY <1>0, Survived, Zenon
  <2>2. \A i \in 1 .. Len(file) : i <= Len(wal.file)
    <3>1. wal.synced \in Nat
      BY <1>0 DEF IsLog
    <3> QED
      BY <1>0, <2>1, <3>1
  <2>3. SoundFile(file, D)
    BY <1>0, <2>1, <2>2, CutSound, Zenon
  <2> QED
    BY <1>2, <1>3, <2>1, <2>3, EmptySound, Zenon
<1>4. CASE Resume
  BY <1>0, <1>2, <1>4, Zenon DEF Resume
<1>5. CASE CutTail
  <2> DEFINE file == truncate_wal(wal.file, cursor)
  <2>1. /\ IsSeq(file) /\ Len(file) = cursor
        /\ \A i \in 1 .. cursor : file[i] = IF i <= Len(wal.file) THEN wal.file[i] ELSE ZeroUnit
    BY <1>0, CutLog, Zenon
  <2>2. wal' = OpenLog(file, Len(file), wal.mode)
    BY <1>5, <2>1, Zenon DEF CutTail
  <2> HIDE DEF file
  <2>3. SoundFile(file, D)
    BY <1>0, <2>1, CutSound, Zenon
  <2>4. wal'.file = file
    BY <1>0, <2>1, <2>2, ReopenedLog, Zenon
  <2>5. UNCHANGED <<working, published, writer>>
    BY <1>5, Zenon DEF CutTail, stateVars
  <2> QED
    BY <1>0, <2>3, <2>4, <2>5, Zenon DEF SoundEngine, Busy
<1> QED
  BY <1>1, <1>3, <1>4, <1>5, CrashSteps, Zenon

LEMMA BooksStep ==
    ASSUME BooksInv, [CrashNext]_allVars
    PROVE  BooksInv'
<1>1. PICK D \in SUBSET AccountId : SoundEverywhere(D)
  BY Zenon DEF BooksInv
<1>2. /\ Sound(snapshot_file'.state, D, OpenBalanced) /\ Sound(recovered', D, OpenBalanced)
      /\ OpenBalanced => phase' # "refused"
  BY <1>1, RestoredSound
<1>3. SoundEngine(D)' \/ \E opening \in OpeningAccounts : AddAccount(opening)
  BY <1>1, RestartedSound
<1>4. ProcessInv'
  BY ProcessStep, Zenon DEF BooksInv
<1>5. CASE SoundEngine(D)'
  <2>1. SoundEverywhere(D)'
    BY <1>2, <1>5, Zenon DEF SoundEverywhere
  <2> QED
    BY <1>1, <1>2, <1>4, <2>1, Zenon DEF BooksInv
<1>6. ASSUME NEW opening \in OpeningAccounts, AddAccount(opening) PROVE BooksInv'
  <2>0. PICK C : C = DOMAIN working'.accounts
    BY Zenon
  <2>1. setup /\ setup' /\ working' = add_account(working, opening.id, opening.account)
        /\ UNCHANGED writer
    BY <1>6, Zenon DEF AddAccount
  <2>2. /\ Sound(working, D, OpenBalanced) /\ opening.id \in AccountId /\ opening.account \in Account
        /\ OpenBalanced => opening.account.balance = 0
    <3>1. opening.id \in AccountId /\ opening.account \in Account
      BY EngineAssumption
    <3> QED
      BY <1>1, <1>6, <3>1, Zenon DEF SoundEverywhere, SoundEngine, OpenBalanced
  <2>3. C \subseteq AccountId /\ Sound(working', C, OpenBalanced)
    BY <2>0, <2>1, <2>2, OpenedSound, Zenon
  <2>4. /\ published' = EmptyLedgerState /\ snapshot_file' = NoSnapshot
        /\ recovered' = EmptyLedgerState /\ wal'.file = <<>>
    BY <1>4, <2>1, Zenon DEF SetupInv, ProcessInv
  <2>5. ~ Busy'
    BY <1>4, <2>1, Zenon DEF NothingBeforeStart, ProcessInv
  <2>6. SoundFile(<<>>, C)
    BY DEF SoundFile
  <2>7. NoSnapshot.state = EmptyLedgerState
    BY Zenon DEF NoSnapshot
  <2>8. SoundEverywhere(C)'
    BY <2>3, <2>4, <2>5, <2>6, <2>7, EmptySound, Zenon DEF SoundEverywhere, SoundEngine
  <2>9. C \in SUBSET AccountId
    BY <2>3
  <2> QED
    BY <1>2, <1>4, <2>8, <2>9, Zenon DEF BooksInv
<1> QED
  BY <1>3, <1>5, <1>6, Zenon

LEMMA InitBooks == CrashInit => BooksInv
<1> SUFFICES ASSUME CrashInit PROVE BooksInv
  OBVIOUS
<1>1. wal.file = <<>>
  <2>1. PICK mode \in SyncModes : wal = OpenLog(<<>>, 0, mode)
    BY DEF CrashInit, Init
  <2> QED
    BY <2>1, OpenedFields
<1>2. NoSnapshot.state = EmptyLedgerState
  BY Zenon DEF NoSnapshot
<1>3. SoundFile(<<>>, {})
  BY DEF SoundFile
<1>4. SoundEverywhere({})
  BY <1>1, <1>2, <1>3, EmptySound, Zenon DEF SoundEverywhere, SoundEngine, CrashInit, Init, Busy
<1>5. phase # "refused" /\ {} \in SUBSET AccountId
  BY DEF CrashInit
<1> QED
  BY <1>4, <1>5, InitProcess, Zenon DEF BooksInv

\* NeverRefused, of accounts that open balanced: whatever fails, however often
\* the machine crashes and wherever the crashes tear the log, recover() never
\* ends with a trial balance that is not zero (recovery.cpp, step 6).
THEOREM RecoveryNeverRefused ==
    ASSUME OpenBalanced
    PROVE  CrashSpec => []NeverRefused
<1>1. BooksInv => NeverRefused
  BY DEF BooksInv, NeverRefused
<1> QED
  BY <1>1, InitBooks, BooksStep, PTL DEF CrashSpec

----------------------------------------------------------------------------
(* recover() restores what was committed. *)

\* read_next at the end of the first c records.
LEMMA Reading ==
    ASSUME NEW file, Len(file) \in Nat, NEW c \in Nat
    PROVE  /\ ReadOutcome(file, 2 * c) = "Ok" <=> Whole(file, c + 1)
           /\ ReadOutcome(file, 2 * c) = "EndOfLog" <=> 2 * c >= Len(file)
           /\ ReadTransaction(file, 2 * c) = file[2 * (c + 1) - 1].tx
<1>1. 2 * (c + 1) - 1 = 2 * c + 1 /\ 2 * (c + 1) = 2 * c + 2
  OBVIOUS
<1>2. ReadTransaction(file, 2 * c) = file[2 * (c + 1) - 1].tx
  BY <1>1, Zenon DEF ReadTransaction
<1>3. ReadOutcome(file, 2 * c) = "Ok" <=> Whole(file, c + 1)
  <2> DEFINE u == file[2 * c + 1]
             v == file[2 * c + 2]
  <2>1. Whole(file, c + 1) <=> /\ 2 * c + 2 <= Len(file) /\ u.part = "head"
                               /\ v = [u EXCEPT !.part = "body"]
    BY <1>1, Zenon DEF Whole
  <2>2. ReadOutcome(file, 2 * c) = IF 2 * c >= Len(file) THEN "EndOfLog"
                                   ELSE IF u.part # "head" THEN "Corrupt"
                                   ELSE IF 2 * c + 2 > Len(file) THEN "Truncated"
                                   ELSE IF v # [u EXCEPT !.part = "body"] THEN "Corrupt"
                                   ELSE "Ok"
    BY Zenon DEF ReadOutcome, RecordSize
  <2> HIDE DEF u, v
  <2> QED
    BY <2>1, <2>2
<1>4. ReadOutcome(file, 2 * c) = "EndOfLog" <=> 2 * c >= Len(file)
  BY DEF ReadOutcome, RecordSize
<1> QED
  BY <1>2, <1>3, <1>4, Zenon

\* The record of an entry of commits is where its place in them says.
LEMMA RecordPlace ==
    ASSUME NEW h, NEW file, History(h, 0, file), InIdOrder(h),
           NEW i \in 1 .. Len(h), NEW n \in 0 .. Len(file), LoggedIn(file, h[i].id, n)
    PROVE  2 * (i - 1) <= n
<1>1. Len(h) \in Nat \ {0} /\ Len(file) \in Nat /\ Len(file) <= 2 * (Len(h) - 1)
  BY DEF History, IsHistory
<1>2. PICK k \in 1 .. n - 1 :
        /\ file[k].part = "head" /\ file[k].tx.id = h[i].id
        /\ file[k + 1] = [file[k] EXCEPT !.part = "body"]
  BY Zenon DEF LoggedIn
<1>3. PICK r \in 1 .. Len(h) - 1 : k = 2 * r - 1 \/ k = 2 * r
  <2>1. CASE k % 2 = 0
    <3>1. k = 2 * (k \div 2) /\ k \div 2 \in 1 .. Len(h) - 1
      BY <1>1, <2>1
    <3> QED
      BY <3>1, Zenon
  <2>2. CASE k % 2 # 0
    <3>1. k = 2 * ((k + 1) \div 2) - 1 /\ (k + 1) \div 2 \in 1 .. Len(h) - 1
      BY <1>1, <2>2
    <3> QED
      BY <3>1, Zenon
  <2> QED
    BY <2>1, <2>2
<1>4. /\ 2 * (0 + r) = 2 * r /\ r + 1 \in 1 .. Len(h) /\ 2 * r - 1 <= Len(file)
      /\ k = 2 * r => 2 * r <= Len(file)
  BY <1>1, <1>3
<1>5. /\ RecordOf(file[2 * r - 1], h[r], h[r + 1])
      /\ k = 2 * r => file[2 * r] = [file[2 * r - 1] EXCEPT !.part = "body"]
  BY <1>4, Zenon DEF History, Records
<1>6. k # 2 * r
  <2>1. [file[2 * r - 1] EXCEPT !.part = "body"].part = "body"
    BY <1>5 DEF RecordOf
  <2> QED
    BY <1>2, <1>5, <2>1, Zenon
<1>7. h[r + 1].id = h[i].id
  BY <1>2, <1>3, <1>5, <1>6, Zenon DEF RecordOf
<1>8. r + 1 = i
  BY <1>4, <1>7, DistinctIds, Zenon DEF History
<1> QED
  BY <1>1, <1>2, <1>3, <1>6, <1>8

\* What a client or the disk knows of at a crash.
Bound == IF Sync THEN acknowledged ELSE durable

\* The engine runs: every commit is in the log, and under SyncEveryWrite the
\* last of them at most is not synced.
Running(b) ==
    /\ CommitHistory /\ PublishedIsRecentCommit
    /\ Len(wal.file) = 2 * (b + Len(commits) - 1) /\ wal.offset = Len(wal.file)
    /\ 2 * b <= wal.synced
    /\ Sync => Len(wal.file) <= wal.synced + 2

\* recover() runs.
Restoring(b) ==
    \E n, c \in Nat :
        /\ snapshot_file.wal_offset = 2 * n /\ cursor = 2 * c
        /\ OnTrack(recovered, c, commits, b, wal.file)
        /\ Sync => n <= c /\ Walk(snapshot_file.state, n, recovered, c, wal.file)

HistoryOf(b) ==
    /\ History(commits, b, wal.file)
    /\ acknowledged \in Nat /\ durable \in Nat
    /\ restarts = 0 => b = 0
    /\ IF setup
       THEN commits[1].id = 0
       ELSE \E n \in Nat : /\ snapshot_file.wal_offset = 2 * n
                           /\ OnTrack(snapshot_file.state, n, commits, b, wal.file)
    /\ IF phase = "running"
       THEN Running(b)
       ELSE InIdOrder(commits) => 2 * (b + Bound - 1) <= Len(wal.file)
    /\ phase \in {"loaded", "replay", "recovered"} => Restoring(b)
    /\ RecoversCommittedIfOrdered

\* The only call that may fail is ftruncate.
OnlyTruncateFails == Faults \subseteq {"truncate"}

\* main's last snapshot, of the published state, is of the latest one: because
\* every commit is published, or because the last one happens to be.
LatestSaved == PublishEveryN <= 1 \/ (FinalCheckpoint => published = working)

LEMMA EngineHistory ==
    ASSUME OnlyTruncateFails, BooksInv, PositionInv, NEW b \in Nat, HistoryOf(b),
           phase = "running", [Next]_vars
    PROVE  /\ History(commits', b, wal'.file) /\ Running(b)'
           /\ setup' => commits'[1].id = 0
           /\ ~ setup => \A state : \A n \in Nat :
                 OnTrack(state, n, commits, b, wal.file) => OnTrack(state, n, commits', b, wal'.file)
<1> DEFINE Kept == \A state : \A n \in Nat :
              OnTrack(state, n, commits, b, wal.file) => OnTrack(state, n, commits', b, wal'.file)
           Goal == /\ History(commits', b, wal'.file) /\ Running(b)'
                   /\ setup' => commits'[1].id = 0
                   /\ ~ setup => Kept
<1>0. /\ Types /\ NothingBeforeStart /\ LogInv /\ IsLog(wal) /\ IsSeq(wal.file) /\ IsRecord(wal)
      /\ SetupInv /\ ProcessInv
      /\ History(commits, b, wal.file) /\ Running(b) /\ (setup => commits[1].id = 0)
  BY Zenon DEF BooksInv, ProcessInv, HistoryOf, LogInv, IsLog
<1>1. /\ CommitHistory /\ PublishedIsRecentCommit
      /\ Len(wal.file) = 2 * (b + Len(commits) - 1) /\ wal.offset = Len(wal.file)
      /\ 2 * b <= wal.synced /\ (Sync => Len(wal.file) <= wal.synced + 2)
      /\ Len(commits) \in Nat /\ Len(wal.file) \in Nat /\ wal.synced \in Nat
  <2>1. Len(wal.file) \in Nat /\ wal.synced \in 0 .. Len(wal.file)
    BY <1>0, Zenon DEF IsLog
  <2>2. wal.synced \in Nat
    BY <2>1
  <2> QED
    BY <1>0, <2>1, <2>2, Zenon DEF Running, CommitHistory
<1>2. CommitHistory' /\ PublishedIsRecentCommit'
  BY <1>0, <1>1, RecentStep, Zenon DEF RecentInv
<1>3. wal'.mode = wal.mode /\ wal'.synced \in Nat /\ wal.synced <= wal'.synced
  BY <1>0, LogStep, SyncedGrows, Zenon
<1>4. setup' => setup
  <2>1. Quiet \/ Take \/ \E p \in Producers : Allocate(p) \/ Submit(p) \/ ObserveDone(p) \/ Finish(p)
    BY <1>0, Steps
  <2> QED
    BY <2>1, Zenon DEF Quiet, Take, Allocate, Submit, ObserveDone, Finish
<1>5. ASSUME Len(wal'.file) = 2 * (b + Len(commits') - 1), wal'.offset = Len(wal'.file),
             Sync => Len(wal'.file) <= wal'.synced + 2
      PROVE  Running(b)'
  <2>1. 2 * b <= wal'.synced
    BY <1>1, <1>3
  <2>2. Sync' <=> Sync
    BY <1>3 DEF Sync
  <2> QED
    BY <1>2, <1>5, <2>1, <2>2 DEF Running
<1>6. ASSUME commits' = commits, wal'.file = wal.file, wal'.offset = wal.offset PROVE Goal
  <2>1. Sync => Len(wal'.file) <= wal'.synced + 2
    BY <1>1, <1>3, <1>6
  <2> QED
    BY <1>0, <1>1, <1>4, <1>5, <1>6, <2>1, Zenon
<1>7. ASSUME NEW opening \in OpeningAccounts, AddAccount(opening) PROVE Goal
  <2> DEFINE c == [id |-> 0, ledger |-> working']
  <2>1. /\ setup /\ commits' = <<c>> /\ wal' = wal
        /\ working' = add_account(working, opening.id, opening.account)
    BY <1>7, Zenon DEF AddAccount
  <2>2. wal.file = <<>> /\ Len(wal.file) = 0 /\ b = 0
    <3>1. wal.file = <<>>
      BY <1>0, <2>1, Zenon DEF SetupInv
    <3>2. Len(wal.file) = 0
      BY <3>1
    <3> QED
      BY <1>0, <3>1, <3>2 DEF History
  <2>3. working.last_applied_id = 0
    <3>1. /\ InIdOrder(commits) => \A i \in 1 .. Len(commits) : commits[i].ledger.last_applied_id = commits[i].id
          /\ Len(commits) = 1 /\ writer.stage = "idle"
      BY <1>0, <1>1, <2>1, IdleWriter, Zenon DEF History, IsHistory, CommitHistory, NothingBeforeStart, Busy
    <3>2. InIdOrder(commits) /\ Applied = 1 /\ 1 \in 1 .. Len(commits)
      BY <3>1 DEF InIdOrder, Applied
    <3> QED
      BY <1>0, <1>1, <2>1, <3>1, <3>2, Zenon DEF PublishedIsRecentCommit
  <2>4. c.id \in Nat /\ c.ledger.last_applied_id = c.id /\ c.id = 0
    <3>1. working = [accounts |-> working.accounts, last_applied_id |-> working.last_applied_id]
      BY StateTypes, Zenon DEF BooksInv, SoundEverywhere, SoundEngine, Sound
    <3>2. working'.last_applied_id = 0
      BY <2>1, <2>3, <3>1 DEF add_account
    <3> QED
      BY <3>2
  <2> HIDE DEF c
  <2>5. /\ History(<<c>>, b, wal.file) /\ Len(<<c>>) = 1 /\ <<c>>[1] = c
        /\ Len(wal.file) = 2 * (b + Len(<<c>>) - 1)
    <3>1. Len(wal.file) = 2 * b
      BY <2>2
    <3> QED
      BY <2>4, <3>1, FirstCommit, Zenon
  <2>6. Sync => Len(wal'.file) <= wal'.synced + 2
    BY <1>1, <2>1
  <2> QED
    BY <1>1, <1>5, <2>1, <2>4, <2>5, <2>6, Zenon
<1>8. ASSUME WalAppend PROVE Goal
  <2> DEFINE t == Head(ring).tx
  <2>1. /\ wal' = AppendRecord(wal, t) /\ writer = NoRequest /\ ring # <<>> /\ Verdict(t) = "None"
        /\ commits' = Append(commits, [id |-> t.id, ledger |-> apply(working, t)])
    BY <1>8, Zenon DEF WalAppend, Dequeue
  <2>2. t.id \in Nat /\ Touched(t.legs) \subseteq DOMAIN working.accounts
    BY <1>0, <2>1, Accepted, Zenon
  <2> HIDE DEF t
  <2>3. writer.stage = "idle" /\ working = commits[Len(commits)].ledger
    <3>1. writer.stage = "idle" /\ Len(commits) - 0 = Len(commits)
      BY <1>1, <2>1, IdleWriter
    <3>2. Applied = Len(commits)
      BY <3>1 DEF Applied
    <3> QED
      BY <1>1, <3>1, <3>2, Zenon DEF PublishedIsRecentCommit
  <2>4. /\ wal'.file = wal.file \o RecordUnits(t) /\ wal'.offset = wal.offset + 2
        /\ wal'.synced = wal.synced /\ Len(wal'.file) = Len(wal.file) + 2
    <3>1. wal'.file = wal.file \o RecordUnits(t) /\ wal'.synced = wal.synced
      BY <1>0, <2>1, LogFields, SMTT(30)
    <3>2. wal'.offset = wal.offset + 2
      BY <1>0, <2>1, OffsetFields, Zenon
    <3>3. GrownBy(wal, t.id, wal')
      BY <1>0, <2>1, RecordAppended, Zenon
    <3> QED
      BY <3>1, <3>2, <3>3, Zenon DEF GrownBy
  <2>5. /\ History(commits', b, wal'.file) /\ Len(wal'.file) = 2 * (b + Len(commits') - 1) /\ Kept
    <3> DEFINE ledger == commits[Len(commits)].ledger
           u == RecordUnits(t)
           c == [id |-> t.id, ledger |-> apply(ledger, t)]
    <3>1. commits' = Append(commits, c) /\ IsSeq(commits) /\ wal'.file = wal.file \o u
      BY <1>1, <2>1, <2>3, <2>4, Zenon DEF CommitHistory
    <3>2. /\ IsSeq(u) /\ Len(u) = 2 /\ u[1].part = "head" /\ u[1].tx = t
          /\ "part" \in DOMAIN u[1] /\ u[2] = [u[1] EXCEPT !.part = "body"]
      BY Units, Zenon
    <3> HIDE DEF u, c
    <3>3. /\ Len(commits') = Len(commits) + 1 /\ commits'[Len(commits) + 1] = c
          /\ \A i \in 1 .. Len(commits) : commits'[i] = commits[i]
      BY <3>1, Appended, Zenon
    <3>4. /\ wal'.file[Len(wal.file) + 1] = u[1] /\ wal'.file[Len(wal.file) + 2] = u[2]
          /\ \A i \in 1 .. Len(wal.file) : wal'.file[i] = wal.file[i]
      <4>1. Joined(wal.file, u, wal'.file)
        <5>1. IsSeq(wal.file) /\ IsSeq(u)
          BY <1>0, <3>2, Zenon
        <5>2. Joined(wal.file, u, wal.file \o u)
          BY <5>1, Concatenated, Zenon
        <5> QED
          BY <3>1, <5>2, Zenon
      <4>2. 1 \in 1 .. 2 /\ 2 \in 1 .. 2
        OBVIOUS
      <4> QED
        BY <3>2, <4>1, <4>2, Zenon DEF Joined
    <3>5. t.id \in Nat /\ Touched(t.legs) \subseteq DOMAIN ledger.accounts
      BY <2>2, <2>3, Zenon
    <3>6. OneMore(commits, b, wal.file, t, commits', wal'.file)
      BY <1>0, <1>1, <2>4, <3>2, <3>3, <3>4, <3>5, Zenon DEF OneMore, c
    <3> QED
      BY <3>6, HistoryGrows, Zenon
  <2>6. wal'.offset = Len(wal'.file)
    BY <1>1, <2>4, Zenon
  <2>7. Sync => Len(wal'.file) <= wal'.synced + 2
    <3>1. Sync => wal.offset <= wal.synced
      BY <2>3 DEF PositionInv, WriterSynced
    <3> QED
      BY <1>1, <2>4, <3>1
  <2>8. ~ setup
    BY <1>0, <2>1, Zenon DEF NothingBeforeStart
  <2> QED
    BY <1>4, <1>5, <2>5, <2>6, <2>7, <2>8, Zenon
<1>9. ASSUME WalFlush \/ FlushBatch PROVE Goal
  <2>1. wal' = Flushed(wal) /\ commits' = commits
    BY <1>9, Zenon DEF WalFlush, FlushBatch
  <2>2. wal'.file = wal.file /\ wal'.offset = wal.offset
    BY <1>0, <2>1, FlushSyncs, OffsetFields, Zenon
  <2> QED
    BY <1>6, <2>1, <2>2, Zenon
<1>10. ASSUME \/ StartProducers \/ Reject \/ ApplyAndPublish \/ Acknowledge \/ UNCHANGED vars
              \/ \E p \in Producers : Producer(p)
       PROVE  Goal
  <2>1. wal' = wal /\ commits' = commits
    BY <1>10, Zenon DEF StartProducers, Reject, ApplyAndPublish, Acknowledge, vars,
       Producer, Allocate, Submit, ObserveDone, Finish
  <2> QED
    BY <1>6, <2>1, Zenon
<1>11. ~ WalAppendFails /\ ~ WalFlushFails
  BY DEF WalAppendFails, WalFlushFails, OnlyTruncateFails
<1> QED
  BY <1>7, <1>8, <1>9, <1>10, <1>11, Zenon DEF Next, Writer

\* The engine runs, or a snapshot of it is written.
LEMMA RunHistory ==
    ASSUME OnlyTruncateFails, LatestSaved, BooksInv, PositionInv,
           NEW b \in Nat, HistoryOf(b), Run \/ SeedAndStart \/ Checkpoint \/ FinalCheckpoint
    PROVE  HistoryOf(b)'
<1> DEFINE Saved(n) == /\ snapshot_file'.wal_offset = 2 * n
                       /\ OnTrack(snapshot_file'.state, n, commits', b, wal'.file)
<1>0. phase = "running" /\ [Next]_vars /\ UNCHANGED recoveryVars
  BY Zenon DEF Run, SeedAndStart, Checkpoint, FinalCheckpoint, Next
<1>1. /\ phase' = "running" /\ acknowledged' = acknowledged /\ durable' = durable
      /\ restarts' = restarts
  BY <1>0, Zenon DEF recoveryVars
<1>2. /\ History(commits', b, wal'.file) /\ Running(b)'
      /\ setup' => commits'[1].id = 0
      /\ ~ setup => \A state : \A n \in Nat :
            OnTrack(state, n, commits, b, wal.file) => OnTrack(state, n, commits', b, wal'.file)
  BY <1>0, EngineHistory, Zenon
<1>3. SUFFICES ASSUME ~ setup' PROVE \E n \in Nat : Saved(n)
  <2>1. /\ acknowledged \in Nat /\ durable \in Nat /\ (restarts = 0 => b = 0)
    BY Zenon DEF HistoryOf
  <2>2. RecoversCommittedIfOrdered' /\ phase' \notin {"loaded", "replay", "recovered"}
    BY <1>1 DEF RecoversCommittedIfOrdered
  <2> QED
    BY <1>1, <1>2, <1>3, <2>1, <2>2, Zenon DEF HistoryOf
<1>4. /\ Types /\ NothingBeforeStart /\ SetupInv
      /\ CommitHistory /\ PublishedIsRecentCommit /\ Len(commits) \in Nat \ {0}
      /\ Len(wal.file) = 2 * (b + Len(commits) - 1) /\ wal.offset = Len(wal.file)
  BY <1>0, Zenon DEF BooksInv, ProcessInv, HistoryOf, Running, History, IsHistory
<1>5. ASSUME NEW state, NEW n \in Nat, state = commits[Len(commits)].ledger,
             n = b + Len(commits) - 1
      PROVE  OnTrack(state, n, commits, b, wal.file)
  <2>1. Len(commits) \in 1 .. Len(commits)
    BY <1>4
  <2> QED
    BY <1>5, <2>1, Zenon DEF OnTrack, AtCommit
<1>6. CASE Run
  <2>1. ~ setup /\ snapshot_file' = snapshot_file
    <3>1. setup' = setup
      BY <1>6, Zenon DEF Run, AddAccount, Producer, Allocate, Submit, ObserveDone, Finish,
         Writer, Reject, WalAppend, WalAppendFails, WalFlush, WalFlushFails, ApplyAndPublish,
         Acknowledge, FlushBatch
    <3>2. snapshot_file' = snapshot_file
      BY <1>6, Zenon DEF Run
    <3> QED
      BY <1>3, <3>1, <3>2, Zenon
  <2> QED
    BY <1>2, <2>1, Zenon DEF HistoryOf
<1>7. CASE SeedAndStart
  <2>1. setup /\ commits' = commits /\ wal' = wal /\ snapshot_file' = Snapshot(working, 0)
    BY <1>7 DEF SeedAndStart, StartProducers, OnlyTruncateFails
  <2>2. Len(commits) = 1 /\ working = commits[Len(commits)].ledger /\ b = 0
    <3>1. Len(commits) = 1 /\ writer.stage = "idle" /\ wal.file = <<>>
      BY <1>4, <2>1, IdleWriter, Zenon DEF CommitHistory, NothingBeforeStart, Busy, SetupInv
    <3>2. Applied = Len(commits) /\ b = 0
      BY <1>4, <3>1 DEF Applied
    <3> QED
      BY <1>4, <3>1, <3>2, Zenon DEF PublishedIsRecentCommit
  <2>3. 0 = b + Len(commits) - 1 /\ 0 \in Nat /\ 2 * 0 = 0
    BY <2>2
  <2>4. snapshot_file'.state = working /\ snapshot_file'.wal_offset = 0
    BY <2>1, SnapshotFields, Zenon
  <2> QED
    BY <1>5, <2>1, <2>2, <2>3, <2>4, Zenon
<1>8. CASE Checkpoint \/ FinalCheckpoint
  <2> DEFINE n == b + Len(commits) - 1
  <2>1. n \in Nat /\ wal.offset = 2 * n
    BY <1>4
  <2>2. writer = NoRequest /\ wal' = wal /\ commits' = commits
    BY <1>8, Zenon DEF Checkpoint, FinalCheckpoint, vars
  <2>3. Applied = Len(commits) /\ working = commits[Len(commits)].ledger
    <3>1. Applied = Len(commits)
      BY <1>4, <2>2, IdleWriter DEF Applied
    <3> QED
      BY <1>4, <3>1, Zenon DEF PublishedIsRecentCommit
  <2>4. CASE Checkpoint
    <3>1. snapshot_file' = Snapshot(working, wal.offset)
      BY <2>4, Zenon DEF Checkpoint
    <3>2. snapshot_file'.state = working /\ snapshot_file'.wal_offset = 2 * n
      BY <2>1, <3>1, SnapshotFields, Zenon
    <3> HIDE DEF n
    <3> QED
      BY <1>5, <2>1, <2>2, <2>3, <3>2, Zenon DEF n
  <2>5. CASE FinalCheckpoint
    <3>1. snapshot_file' = Snapshot(published, wal.offset) /\ DOMAIN published.accounts # {}
      BY <2>5, Zenon DEF FinalCheckpoint
    <3>2. published = commits[Len(commits)].ledger
      <4>1. CASE PublishEveryN <= 1
        <5>1. processed_since_publish = 0
          BY <1>4, <4>1, EngineAssumption DEF PublishedIsRecentCommit, CommitHistory
        <5>2. Applied - processed_since_publish = Len(commits)
          BY <1>4, <2>3, <5>1
        <5>3. published # EmptyLedgerState
          BY <3>1 DEF EmptyLedgerState
        <5> QED
          BY <1>4, <5>2, <5>3, Zenon DEF PublishedIsRecentCommit
      <4>2. CASE published = working
        BY <2>3, <4>2, Zenon
      <4> QED
        BY <2>5, <4>1, <4>2, Zenon DEF LatestSaved
    <3>3. snapshot_file'.state = published /\ snapshot_file'.wal_offset = 2 * n
      BY <2>1, <3>1, SnapshotFields, Zenon
    <3> HIDE DEF n
    <3> QED
      BY <1>5, <2>1, <2>2, <3>2, <3>3, Zenon DEF n
  <2> QED
    BY <1>8, <2>4, <2>5, Zenon
<1> QED
  BY <1>6, <1>7, <1>8, Zenon

\* The machine crashes.
LEMMA CrashHistory ==
    ASSUME BooksInv, PositionInv, NEW b \in Nat, HistoryOf(b), Crash, restarts = 0 \/ Sync
    PROVE  HistoryOf(b)'
<1>0. /\ ~ setup /\ ~ setup' /\ phase' = "crashed" /\ commits' = commits
      /\ snapshot_file' = snapshot_file /\ restarts' = restarts
  BY Zenon DEF Crash
<1>1. /\ History(commits, b, wal.file) /\ Len(wal.file) \in Nat /\ Len(commits) \in Nat \ {0}
      /\ acknowledged \in Nat /\ durable \in Nat /\ (restarts = 0 => b = 0)
      /\ \E n \in Nat : /\ snapshot_file.wal_offset = 2 * n
                        /\ OnTrack(snapshot_file.state, n, commits, b, wal.file)
  BY <1>0, Zenon DEF HistoryOf, History, IsHistory
<1>2. Types /\ LogInv
  BY Zenon DEF BooksInv, ProcessInv
<1>3. ASSUME History(commits, b, wal'.file), acknowledged' \in Nat, durable' \in Nat,
             \A state : \A n \in Nat :
                OnTrack(state, n, commits, b, wal.file) => OnTrack(state, n, commits, b, wal'.file),
             InIdOrder(commits) => 2 * (b + Bound' - 1) <= Len(wal'.file)
      PROVE  HistoryOf(b)'
  <2>1. /\ RecoversCommittedIfOrdered' /\ phase' \notin {"loaded", "replay", "recovered"}
        /\ phase' # "running"
    BY <1>0 DEF RecoversCommittedIfOrdered
  <2>2. \E n \in Nat : /\ snapshot_file'.wal_offset = 2 * n
                       /\ OnTrack(snapshot_file'.state, n, commits', b, wal'.file)
    BY <1>0, <1>1, <1>3, Zenon
  <2> QED
    BY <1>0, <1>1, <1>3, <2>1, <2>2, Zenon DEF HistoryOf
<1>4. ASSUME phase # "running", UNCHANGED <<wal, acknowledged, durable>> PROVE HistoryOf(b)'
  <2>1. Bound' = Bound
    BY <1>4, Zenon DEF Bound, Sync
  <2>2. InIdOrder(commits) => 2 * (b + Bound' - 1) <= Len(wal'.file)
    BY <1>4, <2>1, Zenon DEF HistoryOf
  <2> QED
    BY <1>1, <1>3, <1>4, <2>2, Zenon
<1>5. ASSUME phase = "running", NEW file \in SurvivingFiles(wal),
             FreshEngine(EmptyLedgerState, file),
             acknowledged' = Len(commits) - IF writer = NoRequest THEN 0 ELSE 1,
             NEW last \in 1 .. Len(commits), LastOnDisk(last), durable' = last
      PROVE  HistoryOf(b)'
  <2>1. /\ IsSeq(file) /\ Len(file) \in wal.synced .. Len(wal.file)
        /\ \A i \in 1 .. Len(file) : file[i] = wal.file[i]
    BY <1>2, <1>5, Survived, Zenon
  <2>2. wal'.file = file /\ wal'.mode = wal.mode
    <3>1. wal' = OpenLog(file, Len(file), wal.mode) /\ wal.mode \in SyncMode
      BY <1>2, <1>5, Zenon DEF FreshEngine, LogInv
    <3> QED
      BY <2>1, <3>1, ReopenedLog, Zenon
  <2>3. /\ wal.synced \in 0 .. Len(wal.file) /\ Len(file) \in Nat
        /\ wal.synced <= Len(file) /\ Len(file) <= Len(wal.file)
    <3>1. wal.synced \in 0 .. Len(wal.file)
      BY <1>2, Zenon DEF LogInv, IsLog
    <3> QED
      BY <1>1, <2>1, <3>1
  <2>4. /\ Len(wal.file) = 2 * (b + Len(commits) - 1) /\ wal.offset = Len(wal.file)
        /\ 2 * b <= wal.synced /\ (Sync => Len(wal.file) <= wal.synced + 2)
    BY <1>5, Zenon DEF HistoryOf, Running
  <2>5. /\ History(commits, b, file)
        /\ \A state : \A n \in Nat :
              OnTrack(state, n, commits, b, wal.file) => OnTrack(state, n, commits, b, file)
    <3>1. 2 * b <= Len(file)
      BY <2>3, <2>4
    <3> QED
      BY <1>1, <2>1, <2>3, <3>1, HistoryCut, Zenon
  <2>6. acknowledged' \in Nat /\ durable' \in Nat
    BY <1>1, <1>5
  <2>7. ASSUME Sync PROVE 2 * (b + acknowledged' - 1) <= Len(file)
    <3>1. CASE writer = NoRequest
      <4>1. wal.offset <= wal.synced
        BY <1>5, <2>7, <3>1, IdleWriter DEF PositionInv, WriterSynced
      <4> QED
        BY <1>1, <1>5, <2>3, <2>4, <3>1, <4>1
    <3>2. CASE writer # NoRequest
      BY <1>1, <1>5, <2>3, <2>4, <2>7, <3>2
    <3> QED
      BY <3>1, <3>2
  <2>8. ASSUME ~ Sync, InIdOrder(commits) PROVE 2 * (b + durable' - 1) <= Len(file)
    <3>1. b = 0
      BY <1>1, <2>8
    <3>2. CASE last = 1
      BY <1>5, <2>3, <3>1, <3>2
    <3>3. CASE last # 1
      <4>1. LoggedIn(wal.file, commits[last].id, wal.synced)
        BY <1>5, <3>3, Zenon DEF LastOnDisk, Logged, LoggedIn
      <4>2. 2 * (last - 1) <= wal.synced
        BY <1>1, <2>3, <2>8, <3>1, <4>1, RecordPlace, Zenon
      <4> QED
        BY <1>5, <2>3, <3>1, <4>2
    <3> QED
      BY <3>2, <3>3
  <2>9. Bound' = IF Sync THEN acknowledged' ELSE durable'
    BY <2>2, Zenon DEF Bound, Sync
  <2> QED
    BY <1>3, <2>2, <2>5, <2>6, <2>7, <2>8, <2>9, Zenon
<1> QED
  BY <1>4, <1>5 DEF Crash

\* Where the records end, the replay has reached a commit that is at or after
\* the last one known of.
LEMMA ReplayEnds ==
    ASSUME NEW b \in Nat, HistoryOf(b), phase # "running", NEW c \in Nat,
           OnTrack(recovered, c, commits, b, wal.file), ~ Whole(wal.file, c + 1)
    PROVE  /\ Len(wal.file) <= 2 * c + 1
           /\ InIdOrder(commits) => \E k \in Bound .. Len(commits) : recovered = commits[k].ledger
<1>1. /\ History(commits, b, wal.file) /\ Bound \in Nat /\ Len(wal.file) \in Nat
      /\ Len(commits) \in Nat
      /\ InIdOrder(commits) => 2 * (b + Bound - 1) <= Len(wal.file)
  BY Zenon DEF HistoryOf, Bound, History, IsHistory
<1>2. /\ \E j \in 1 .. Len(commits) : AtCommit(recovered, c, commits, b, j)
      /\ Len(wal.file) <= 2 * c + 1
  BY <1>1, TrackEnds, Zenon
<1>3. PICK j \in 1 .. Len(commits) : AtCommit(recovered, c, commits, b, j)
  BY <1>2, Zenon
<1>4. c = b + j - 1 /\ (InIdOrder(commits) => recovered = commits[j].ledger)
  BY <1>3, Zenon DEF AtCommit
<1> HIDE DEF Bound
<1>5. InIdOrder(commits) => j \in Bound .. Len(commits)
  BY <1>1, <1>2, <1>4
<1> QED
  BY <1>2, <1>4, <1>5, Zenon

LEMMA RecoveredCommit ==
    ASSUME commits' = commits, recovered' = recovered, wal'.mode = wal.mode,
           acknowledged' = acknowledged, durable' = durable,
           InIdOrder(commits) => \E k \in Bound .. Len(commits) : recovered = commits[k].ledger
    PROVE  RecoversCommittedIfOrdered'
BY Zenon DEF RecoversCommittedIfOrdered, CommittedInIdOrder, InIdOrder, Bound, Sync

\* recover() takes a step.
LEMMA ReplayHistory ==
    ASSUME OnlyTruncateFails, BooksInv, PositionInv, NEW b \in Nat, HistoryOf(b),
           Recover \/ RecoverFaults
    PROVE  HistoryOf(b)'
<1> DEFINE restored == {"loaded", "replay", "recovered"}
<1>0. /\ phase # "running" /\ phase' # "running"
      /\ setup' = setup /\ commits' = commits /\ snapshot_file' = snapshot_file
      /\ acknowledged' = acknowledged /\ durable' = durable /\ restarts' = restarts
  <2>1. CASE Recover
    BY <2>1 DEF Recover, LoadSnapshot, OpenReader, ReplayRecord, EndOfReplay, TruncateTail,
       CutTail, Verified, vars
  <2>2. CASE RecoverFaults
    BY <2>2 DEF RecoverFaults, LoadSnapshotFails, OpenReaderFails, ReadFails, TruncateFails,
       CutTail, Verified, vars
  <2> QED
    BY <2>1, <2>2, Zenon
<1>1. ~ setup /\ LogInv /\ Len(wal.file) \in Nat /\ wal.mode \in SyncMode
  <2>1. LogInv /\ SetupInv
    BY Zenon DEF BooksInv, ProcessInv
  <2> QED
    BY <1>0, <2>1, Zenon DEF SetupInv, LogInv, IsLog
<1>2. /\ History(commits, b, wal.file) /\ acknowledged \in Nat /\ durable \in Nat
      /\ restarts = 0 => b = 0
      /\ \E n \in Nat : /\ snapshot_file.wal_offset = 2 * n
                        /\ OnTrack(snapshot_file.state, n, commits, b, wal.file)
      /\ InIdOrder(commits) => 2 * (b + Bound - 1) <= Len(wal.file)
      /\ phase \in restored => Restoring(b)
  BY <1>0, <1>1, Zenon DEF HistoryOf
<1>3. ASSUME History(commits, b, wal'.file), wal'.mode = wal.mode,
             \A state : \A n \in Nat :
                OnTrack(state, n, commits, b, wal.file) => OnTrack(state, n, commits, b, wal'.file),
             InIdOrder(commits) => 2 * (b + Bound - 1) <= Len(wal'.file),
             phase' \in restored => Restoring(b)', RecoversCommittedIfOrdered'
      PROVE  HistoryOf(b)'
  <2>1. \E n \in Nat : /\ snapshot_file'.wal_offset = 2 * n
                       /\ OnTrack(snapshot_file'.state, n, commits', b, wal'.file)
    BY <1>0, <1>2, <1>3, Zenon
  <2>2. Bound' = Bound
    BY <1>0, <1>3, Zenon DEF Bound, Sync
  <2>3. ~ setup'
    BY <1>0, <1>1
  <2> QED
    BY <1>0, <1>2, <1>3, <2>1, <2>2, <2>3, Zenon DEF HistoryOf
<1>4. ASSUME wal' = wal, phase' \in restored => Restoring(b)', RecoversCommittedIfOrdered'
      PROVE  HistoryOf(b)'
  BY <1>2, <1>3, <1>4, Zenon
<1>5. ASSUME wal' = wal, recovered' = recovered, cursor' = cursor, phase \in restored
      PROVE  Restoring(b)'
  BY <1>0, <1>2, <1>5, Zenon DEF Restoring, Sync
<1>6. CASE LoadSnapshot
  <2>1. /\ wal' = wal /\ phase' = "loaded" /\ recovered' = snapshot_file.state
        /\ cursor' = snapshot_file.wal_offset
    BY <1>6, Zenon DEF LoadSnapshot, vars
  <2>2. PICK n \in Nat : /\ snapshot_file.wal_offset = 2 * n
                         /\ OnTrack(snapshot_file.state, n, commits, b, wal.file)
    BY <1>2, Zenon
  <2>3. Walk(snapshot_file.state, n, snapshot_file.state, n, wal.file) /\ n <= n
    BY WalkNowhere
  <2>4. Restoring(b)'
    BY <1>0, <2>1, <2>2, <2>3, Zenon DEF Restoring
  <2>5. RecoversCommittedIfOrdered'
    BY <2>1 DEF RecoversCommittedIfOrdered
  <2> QED
    BY <1>4, <2>1, <2>4, <2>5, Zenon
<1>7. CASE OpenReader
  <2>1. /\ wal' = wal /\ phase = "loaded" /\ phase' = "replay" /\ recovered' = recovered
        /\ cursor' = cursor
    BY <1>7, Zenon DEF OpenReader, vars
  <2>2. RecoversCommittedIfOrdered' /\ phase \in restored
    BY <2>1 DEF RecoversCommittedIfOrdered
  <2> QED
    BY <1>4, <1>5, <2>1, <2>2, Zenon
<1>8. CASE TruncateFails
  <2>1. wal' = wal /\ phase' = "failed"
    BY <1>8, Zenon DEF TruncateFails, vars
  <2>2. RecoversCommittedIfOrdered' /\ phase' \notin restored
    BY <2>1 DEF RecoversCommittedIfOrdered
  <2> QED
    BY <1>4, <2>1, <2>2, Zenon
<1>9. ~ LoadSnapshotFails /\ ~ OpenReaderFails /\ ~ ReadFails
  BY DEF LoadSnapshotFails, OpenReaderFails, ReadFails, OnlyTruncateFails
<1>10. ASSUME phase = "replay"
       PROVE  \E n, c \in Nat :
                 /\ snapshot_file.wal_offset = 2 * n /\ cursor = 2 * c
                 /\ OnTrack(recovered, c, commits, b, wal.file)
                 /\ Sync => n <= c /\ Walk(snapshot_file.state, n, recovered, c, wal.file)
  <2>1. phase \in restored
    BY <1>10
  <2> QED
    BY <1>2, <2>1, Zenon DEF Restoring
<1>11. CASE ReplayRecord
  <2>1. /\ wal' = wal /\ phase = "replay" /\ phase' = phase /\ cursor' = cursor + 2
        /\ ReadOutcome(wal.file, cursor) = "Ok"
        /\ recovered' = Replayed(recovered, ReadTransaction(wal.file, cursor))
    BY <1>11, Zenon DEF ReplayRecord, vars, RecordSize, Replayed
  <2>2. PICK n, c \in Nat :
           /\ snapshot_file.wal_offset = 2 * n /\ cursor = 2 * c
           /\ OnTrack(recovered, c, commits, b, wal.file)
           /\ Sync => n <= c /\ Walk(snapshot_file.state, n, recovered, c, wal.file)
    BY <1>10, <2>1, Zenon
  <2> DEFINE after == Replayed(recovered, wal.file[2 * (c + 1) - 1].tx)
  <2>3. Whole(wal.file, c + 1) /\ recovered' = after
    BY <1>1, <2>1, <2>2, Reading, Zenon
  <2>4. OnTrack(after, c + 1, commits, b, wal.file)
    BY <1>2, <2>2, <2>3, TrackReplayed, Zenon
  <2>5. Sync => Walk(snapshot_file.state, n, after, c + 1, wal.file)
    BY <2>2, <2>3, WalkOn, Zenon
  <2> HIDE DEF after
  <2>6. c + 1 \in Nat /\ cursor' = 2 * (c + 1) /\ (n <= c => n <= c + 1)
    BY <2>1, <2>2
  <2>7. Restoring(b)'
    <3>1. Sync' <=> Sync
      BY <2>1, Zenon DEF Sync
    <3> QED
      BY <1>0, <2>1, <2>2, <2>3, <2>4, <2>5, <2>6, <3>1, Zenon DEF Restoring
  <2>8. RecoversCommittedIfOrdered'
    BY <2>1 DEF RecoversCommittedIfOrdered
  <2> QED
    BY <1>4, <2>1, <2>7, <2>8, Zenon
<1>12. CASE EndOfReplay
  <2>1. /\ wal' = wal /\ phase = "replay" /\ recovered' = recovered /\ cursor' = cursor
        /\ ReadOutcome(wal.file, cursor) = "EndOfLog"
    BY <1>12, Zenon DEF EndOfReplay, vars
  <2>2. PICK n, c \in Nat :
           /\ snapshot_file.wal_offset = 2 * n /\ cursor = 2 * c
           /\ OnTrack(recovered, c, commits, b, wal.file)
           /\ Sync => n <= c /\ Walk(snapshot_file.state, n, recovered, c, wal.file)
    BY <1>10, <2>1, Zenon
  <2>3. ~ Whole(wal.file, c + 1)
    <3>1. 2 * c >= Len(wal.file)
      BY <1>1, <2>1, <2>2, Reading, Zenon
    <3>2. ~ (2 * (c + 1) <= Len(wal.file))
      BY <1>1, <3>1
    <3> QED
      BY <3>2, Zenon DEF Whole
  <2>4. InIdOrder(commits) => \E k \in Bound .. Len(commits) : recovered = commits[k].ledger
    BY <1>0, <2>2, <2>3, ReplayEnds, Zenon
  <2>5. RecoversCommittedIfOrdered'
    BY <1>0, <2>1, <2>4, RecoveredCommit, Zenon
  <2>6. phase \in restored
    BY <2>1
  <2> QED
    BY <1>4, <1>5, <2>1, <2>5, <2>6, Zenon
<1>13. CASE TruncateTail
  <2> DEFINE file == truncate_wal(wal.file, cursor)
  <2>1. /\ phase = "replay" /\ recovered' = recovered /\ cursor' = cursor
        /\ wal' = OpenLog(file, cursor, wal.mode)
        /\ ReadOutcome(wal.file, cursor) \in {"Corrupt", "Truncated"}
    BY <1>13, Zenon DEF TruncateTail, CutTail
  <2>2. PICK n, c \in Nat :
           /\ snapshot_file.wal_offset = 2 * n /\ cursor = 2 * c
           /\ OnTrack(recovered, c, commits, b, wal.file)
           /\ Sync => n <= c /\ Walk(snapshot_file.state, n, recovered, c, wal.file)
    BY <1>10, <2>1, Zenon
  <2>3. ~ Whole(wal.file, c + 1) /\ ~ (2 * c >= Len(wal.file))
    <3>1. ReadOutcome(wal.file, cursor) # "Ok" /\ ReadOutcome(wal.file, cursor) # "EndOfLog"
      BY <2>1
    <3> QED
      BY <1>1, <2>2, <3>1, Reading, Zenon
  <2>4. /\ Len(wal.file) <= 2 * c + 1
        /\ InIdOrder(commits) => \E k \in Bound .. Len(commits) : recovered = commits[k].ledger
    BY <1>0, <2>2, <2>3, ReplayEnds, Zenon
  <2>5. /\ Len(file) = 2 * c /\ IsSeq(file) /\ \A i \in 1 .. 2 * c : file[i] = wal.file[i]
    <3>1. cursor \in Nat
      BY <2>2
    <3>2. /\ IsSeq(file) /\ Len(file) = cursor
          /\ \A i \in 1 .. cursor : file[i] = IF i <= Len(wal.file) THEN wal.file[i] ELSE ZeroUnit
      BY <1>1, <3>1, CutLog, Zenon
    <3> HIDE DEF file
    <3>3. \A i \in 1 .. cursor : i <= Len(wal.file)
      BY <1>1, <2>2, <2>3
    <3> QED
      BY <2>2, <3>2, <3>3, Zenon
  <2> HIDE DEF file
  <2>6. wal'.file = file /\ wal'.mode = wal.mode
    BY <2>1, OpenedFields
  <2>7. /\ History(commits, b, file)
        /\ \A state : \A m \in Nat :
              OnTrack(state, m, commits, b, wal.file) => OnTrack(state, m, commits, b, file)
    <3>1. 2 * b <= Len(wal.file)
      BY <1>2, Zenon DEF History
    <3>2. 2 * b <= Len(file) /\ Len(file) <= Len(wal.file) /\ Len(file) \in Nat
      BY <1>1, <2>3, <2>4, <2>5, <3>1
    <3> QED
      BY <1>2, <2>5, <3>2, HistoryCut, Zenon
  <2>8. InIdOrder(commits) => 2 * (b + Bound - 1) <= Len(file)
    <3>1. Bound \in Nat
      BY <1>2, Zenon DEF Bound
    <3> HIDE DEF Bound
    <3> QED
      BY <1>1, <1>2, <2>3, <2>4, <2>5, <3>1
  <2>9. Restoring(b)'
    <3>1. Sync => n <= c /\ Walk(snapshot_file.state, n, recovered, c, file)
      <4>1. Len(file) \in Nat /\ 2 * c <= Len(file)
        BY <2>2, <2>5
      <4> QED
        BY <2>2, <2>5, <4>1, WalkKept, Zenon
    <3>2. Sync' <=> Sync
      BY <2>6, Zenon DEF Sync
    <3> QED
      BY <1>0, <2>1, <2>2, <2>6, <2>7, <3>1, <3>2, Zenon DEF Restoring
  <2>10. RecoversCommittedIfOrdered'
    BY <1>0, <2>1, <2>4, <2>6, RecoveredCommit, Zenon
  <2> QED
    BY <1>3, <2>6, <2>7, <2>8, <2>9, <2>10, Zenon
<1> QED
  BY <1>6, <1>7, <1>8, <1>9, <1>11, <1>12, <1>13, Zenon DEF Recover, RecoverFaults

\* The engine resumes: a new history begins, after the records that led to it.
LEMMA ResumeHistory ==
    ASSUME BooksInv, PositionInv, NEW b \in Nat, HistoryOf(b), Resume, Sync, restarts' # 0
    PROVE  \E c \in Nat : HistoryOf(c)'
<1> DEFINE first == [id |-> recovered.last_applied_id, ledger |-> recovered]
<1>0. /\ phase = "recovered" /\ phase' = "running" /\ setup' = setup
      /\ commits' = <<first>> /\ snapshot_file' = snapshot_file
      /\ acknowledged' = 1 /\ durable' = 1
      /\ working' = recovered /\ published' = EmptyLedgerState
      /\ processed_since_publish' = 0 /\ writer' = NoRequest
      /\ wal' = OpenLog(wal.file, Len(wal.file), wal.mode)
  BY Zenon DEF Resume, FreshEngine
<1>1. LogInv /\ SetupInv /\ wal.mode \in SyncMode /\ IsSeq(wal.file)
  BY Zenon DEF BooksInv, ProcessInv, LogInv, IsLog
<1>2. ~ setup'
  <2>1. phase # "running"
    BY <1>0
  <2> QED
    BY <1>0, <1>1, <2>1, Zenon DEF SetupInv
<1>3. /\ wal'.file = wal.file /\ wal'.mode = wal.mode /\ wal'.synced = Len(wal.file)
      /\ wal'.offset = Len(wal.file)
  BY <1>0, <1>1, ReopenedLog, Zenon
<1>4. PICK n, c \in Nat :
         /\ snapshot_file.wal_offset = 2 * n /\ cursor = 2 * c
         /\ OnTrack(recovered, c, commits, b, wal.file)
         /\ Sync => n <= c /\ Walk(snapshot_file.state, n, recovered, c, wal.file)
  <2>1. phase \in {"loaded", "replay", "recovered"}
    BY <1>0
  <2> QED
    BY <2>1, Zenon DEF HistoryOf, Restoring
<1>5. Len(wal.file) = 2 * c
  BY <1>0, <1>4 DEF PositionInv, LogEndsAtValidLength, Sync
<1>6. /\ first.id \in Nat /\ first.ledger.last_applied_id = first.id /\ first.ledger = recovered
  <2>1. recovered.last_applied_id \in Nat
    BY StateTypes, Zenon DEF BooksInv, SoundEverywhere, Sound
  <2> QED
    BY <2>1, Zenon
<1> HIDE DEF first
<1>7. /\ History(<<first>>, c, wal.file) /\ Len(<<first>>) = 1 /\ <<first>>[1] = first
      /\ Len(wal.file) = 2 * (c + Len(<<first>>) - 1)
  BY <1>4, <1>5, <1>6, FirstCommit, Zenon
<1>8. OnTrack(snapshot_file'.state, n, commits', c, wal'.file)
  BY <1>0, <1>3, <1>4, <1>6, <1>7, Zenon DEF OnTrack
<1>9. CommitHistory' /\ PublishedIsRecentCommit'
  <2>1. /\ IsSeq(commits') /\ Len(commits') = 1 /\ commits'[1].ledger = recovered
        /\ writer'.stage = "idle"
    <3>1. <<first>> \in Seq({first})
      OBVIOUS
    <3> QED
      BY <1>0, <1>6, <1>7, <3>1, IdleWriter, Zenon DEF IsSeq
  <2>2. Applied' = 1
    BY <2>1 DEF Applied
  <2>3. Shown' = 1
    BY <1>0, <2>2 DEF Shown
  <2>4. Applied' - processed_since_publish' = 1
    BY <1>0, <2>2
  <2>5. CommitHistory'
    BY <1>0, <1>2, <2>1, <2>2, <2>3 DEF CommitHistory
  <2>6. PublishedIsRecentCommit'
    <3>1. processed_since_publish' < IF PublishEveryN = 0 THEN 1 ELSE PublishEveryN
      BY <1>0, EngineAssumption
    <3> QED
      BY <1>0, <2>1, <2>2, <2>4, <3>1, Zenon DEF PublishedIsRecentCommit
  <2> QED
    BY <2>5, <2>6
<1>10. Running(c)'
  <2>1. 2 * c <= Len(wal.file) /\ Len(wal.file) <= Len(wal.file) + 2
    BY <1>4, <1>5
  <2> QED
    BY <1>0, <1>3, <1>7, <1>9, <2>1, Zenon DEF Running
<1>11. /\ phase' \notin {"loaded", "replay", "recovered"} /\ RecoversCommittedIfOrdered'
       /\ acknowledged' \in Nat /\ durable' \in Nat
  BY <1>0 DEF RecoversCommittedIfOrdered
<1>12. HistoryOf(c)'
  BY <1>0, <1>2, <1>3, <1>4, <1>7, <1>8, <1>10, <1>11, Zenon DEF HistoryOf
<1> QED
  BY <1>4, <1>12, Zenon

\* An engine that resumed with BatchSyncFlush is left out: its log may be
\* shorter than the snapshot's offset, and what it appends up to there is not
\* replayed.
HistoryInv ==
    /\ restarts \in Nat
    /\ restarts = 0 \/ Sync => \E b \in Nat : HistoryOf(b)

\* A log keeps its mode.
LEMMA ModeStep ==
    ASSUME LogInv, [CrashNext]_allVars
    PROVE  wal'.mode = wal.mode
<1>1. ASSUME NEW file, NEW synced, wal' = OpenLog(file, synced, wal.mode)
      PROVE  wal'.mode = wal.mode
  BY <1>1, OpenedFields
<1>2. ASSUME NEW state, NEW file, FreshEngine(state, file) PROVE wal'.mode = wal.mode
  BY <1>1, <1>2, Zenon DEF FreshEngine
<1>3. CutTail \/ Resume => wal'.mode = wal.mode
  BY <1>1, <1>2, Zenon DEF CutTail, Resume
<1>4. [Next]_vars => wal'.mode = wal.mode
  BY LogStep, Zenon
<1>5. UNCHANGED vars => wal'.mode = wal.mode
  BY Zenon DEF vars
<1> QED
  BY <1>2, <1>3, <1>4, <1>5, CrashSteps, Zenon

LEMMA HistoryStep ==
    ASSUME OnlyTruncateFails, BooksInv, PositionInv, HistoryInv, [CrashNext]_allVars,
           [LatestSaved]_allVars
    PROVE  HistoryInv'
<1>1. restarts' = restarts \/ (Resume /\ restarts' = restarts + 1)
  BY Zenon DEF CrashNext, Run, SeedAndStart, Checkpoint, FinalCheckpoint, Crash, Recover, RecoverFaults,
     LoadSnapshot, OpenReader, ReplayRecord, EndOfReplay, TruncateTail, CutTail, Resume,
     LoadSnapshotFails, OpenReaderFails, ReadFails, TruncateFails, recoveryVars, allVars
<1>2. restarts \in Nat /\ restarts' \in Nat
  BY <1>1 DEF HistoryInv
<1>3. wal'.mode = wal.mode
  BY ModeStep, Zenon DEF BooksInv, ProcessInv
<1>4. SUFFICES ASSUME restarts' = 0 \/ Sync' PROVE \E b \in Nat : HistoryOf(b)'
  BY <1>2, <1>4 DEF HistoryInv
<1>5. (restarts = 0 \/ Sync) /\ (Resume => Sync /\ restarts' # 0)
  BY <1>1, <1>2, <1>3, <1>4 DEF Sync, Resume
<1>6. PICK b \in Nat : HistoryOf(b)
  BY <1>5, Zenon DEF HistoryInv
<1>7. CASE LatestSaved /\ (Run \/ SeedAndStart \/ Checkpoint \/ FinalCheckpoint)
  BY <1>6, <1>7, RunHistory, Zenon
<1>8. CASE Crash
  BY <1>5, <1>6, <1>8, CrashHistory, Zenon
<1>9. CASE Recover \/ RecoverFaults
  BY <1>6, <1>9, ReplayHistory, Zenon
<1>10. CASE Resume
  BY <1>5, <1>6, <1>10, ResumeHistory, Zenon
<1>11. CASE UNCHANGED allVars
  <2>1. HistoryOf(b)'
    BY <1>6, <1>11, Zenon DEF HistoryOf, allVars, vars, recoveryVars, stateVars, producerVars, Running, Restoring, CommitHistory,
       PublishedIsRecentCommit, Applied, Shown, Bound, Sync, RecoversCommittedIfOrdered, CommittedInIdOrder
  <2> QED
    BY <1>6, <2>1, Zenon
<1> QED
  BY <1>7, <1>8, <1>9, <1>10, <1>11, Zenon DEF CrashNext

LEMMA InitHistory == CrashInit => HistoryInv
<1> SUFFICES ASSUME CrashInit PROVE HistoryInv
  OBVIOUS
<1> DEFINE first == [id |-> 0, ledger |-> EmptyLedgerState]
<1>0. /\ commits = <<first>> /\ setup /\ phase = "running" /\ restarts = 0
      /\ acknowledged = 1 /\ durable = 1 /\ Init
  BY Zenon DEF CrashInit, Init
<1>1. wal.file = <<>> /\ wal.synced = 0 /\ wal.offset = 0
  <2>1. PICK mode \in SyncModes : wal = OpenLog(<<>>, 0, mode)
    BY <1>0, Zenon DEF Init
  <2>2. wal.offset = Len(<<>>)
    BY <2>1, Zenon DEF OpenLog
  <2> QED
    BY <2>1, <2>2, OpenedFields
<1>2. Len(wal.file) = 0 /\ Len(wal.file) = 2 * 0 /\ 0 \in Nat /\ 0 <= 0 + 2 /\ 0 <= 0
  BY <1>1
<1>3. first.id = 0 /\ first.ledger.last_applied_id = first.id
  BY DEF EmptyLedgerState
<1> HIDE DEF first
<1>4. /\ History(<<first>>, 0, wal.file) /\ <<first>>[1] = first
      /\ Len(wal.file) = 2 * (0 + Len(<<first>>) - 1)
  BY <1>2, <1>3, FirstCommit, Zenon
<1>5. CommitHistory /\ PublishedIsRecentCommit
  BY <1>0, InitRecent, Zenon
<1>6. Running(0)
  BY <1>0, <1>1, <1>2, <1>4, <1>5, Zenon DEF Running
<1>7. /\ RecoversCommittedIfOrdered /\ phase \notin {"loaded", "replay", "recovered"}
      /\ 1 \in Nat
  BY <1>0 DEF RecoversCommittedIfOrdered
<1>8. HistoryOf(0)
  BY <1>0, <1>2, <1>3, <1>4, <1>6, <1>7, Zenon DEF HistoryOf
<1> QED
  BY <1>0, <1>2, <1>8, Zenon DEF HistoryInv

\* RecoversCommittedIfOrdered, as long as the only call that fails is ftruncate
\* and main's last snapshot is of the latest commit: recover() ends with the
\* ledger exactly as it was after a commit, at or after the last one that a
\* client was told of (with BatchSyncFlush: that was flushed), wherever the
\* crash tears the log and however often recover() itself is interrupted
\* (recovery.cpp, engine.cpp:60).  It holds in every process with
\* SyncEveryWrite, and with BatchSyncFlush in the first one.
THEOREM CommittedIsRecovered ==
    ASSUME OnlyTruncateFails
    PROVE  CrashSpec /\ [][LatestSaved]_allVars =>
              [](restarts = 0 \/ Sync => RecoversCommittedIfOrdered)
<1> DEFINE Inv == BooksInv /\ PositionInv /\ HistoryInv
<1>1. NoSilentFaults
  BY DEF OnlyTruncateFails, NoSilentFaults
<1>2. CrashInit => Inv
  BY InitBooks, InitHistory, InitPosition, Zenon
<1>3. Inv /\ [CrashNext]_allVars /\ [LatestSaved]_allVars => Inv'
  BY <1>1, BooksStep, PositionStep, HistoryStep, Zenon DEF BooksInv
<1>4. Inv => (restarts = 0 \/ Sync => RecoversCommittedIfOrdered)
  BY Zenon DEF HistoryInv, HistoryOf
<1> QED
  BY <1>2, <1>3, <1>4, PTL DEF CrashSpec

\* The same of an engine that publishes every commit, as it does unless it is
\* configured otherwise (engine.hpp:49), whenever its snapshots are written.
COROLLARY PublishedIsRecovered ==
    ASSUME OnlyTruncateFails, PublishEveryN <= 1
    PROVE  CrashSpec => [](restarts = 0 \/ Sync => RecoversCommittedIfOrdered)
<1>1. LatestSaved
  BY Zenon DEF LatestSaved
<1> QED
  BY <1>1, CommittedIsRecovered, PTL

----------------------------------------------------------------------------
(* Types. *)

Bounded == processed_since_publish \in Nat /\ Len(ring) <= RingCapacity

\* What the engine's variables hold, whether a crash preceded it or not.
ShapeInv == HeldInv /\ KeysInv /\ Bounded

LEMMA BoundedStep ==
    ASSUME Types, Bounded, [Next]_vars
    PROVE  Bounded'
<1>0. ring \in Seq(Pending) /\ Len(ring) \in Nat /\ processed_since_publish \in Nat
      /\ Len(ring) <= RingCapacity /\ RingCapacity \in Nat
  BY EngineAssumption DEF Types, Bounded
<1>1. processed_since_publish' \in Nat
  <2>1. CASE ApplyAndPublish
    <3>1. processed_since_publish' \in {0, processed_since_publish + 1}
      BY <2>1 DEF ApplyAndPublish, Publish
    <3> QED
      BY <1>0, <3>1
  <2>2. CASE UNCHANGED processed_since_publish
    BY <1>0, <2>2
  <2>3. ApplyAndPublish \/ UNCHANGED processed_since_publish
    BY Zenon DEF Next, Writer, Producer, Allocate, Submit, ObserveDone, Finish, AddAccount,
       StartProducers, Reject, WalAppend, WalAppendFails, WalFlush, WalFlushFails, Acknowledge,
       FlushBatch, vars, stateVars
  <2> QED
    BY <2>1, <2>2, <2>3
<1>2. Len(ring') <= RingCapacity
  <2>1. CASE Quiet
    BY <1>0, <2>1 DEF Quiet
  <2>2. CASE Take
    <3>1. Len(ring') = Len(ring) - 1
      BY <2>2, Dequeued DEF Take
    <3> QED
      BY <1>0, <3>1
  <2>3. ASSUME NEW p \in Producers, Submit(p) PROVE Len(ring') <= RingCapacity
    <3>1. CASE Len(ring) < RingCapacity
      <4>1. PICK e : ring' = Append(ring, e) \/ ring' = ring
        BY <2>3, Zenon DEF Submit
      <4>2. IsSeq(ring)
        BY <1>0, Zenon DEF IsSeq
      <4>3. Len(ring') = Len(ring) + 1 \/ ring' = ring
        BY <4>1, <4>2, Appended
      <4> QED
        BY <1>0, <3>1, <4>3
    <3>2. CASE ~ (Len(ring) < RingCapacity)
      BY <1>0, <2>3, <3>2, Zenon DEF Submit
    <3> QED
      BY <3>1, <3>2
  <2>4. ASSUME NEW p \in Producers, Allocate(p) \/ ObserveDone(p) \/ Finish(p)
        PROVE  Len(ring') <= RingCapacity
    <3>1. ring' = ring
      BY <2>4, Zenon DEF Allocate, ObserveDone, Finish
    <3> QED
      BY <1>0, <3>1
  <2> QED
    BY <2>1, <2>2, <2>3, <2>4, Steps
<1> QED
  BY <1>1, <1>2, Zenon DEF Bounded

LEMMA ShapeStep ==
    ASSUME ShapeInv, [Next]_vars
    PROVE  ShapeInv'
<1>1. HeldInv /\ KeysInv /\ Bounded /\ Types
  BY Zenon DEF ShapeInv, HeldInv
<1> QED
  BY <1>1, TypesStep, HeldStep, KeysStep, BoundedStep, Zenon DEF ShapeInv, HeldInv

\* A new process starts with nothing held, remembered or queued.
LEMMA FreshShape ==
    ASSUME Types', ring' = <<>>, writer' = NoRequest, pc' = [p \in Producers |-> "idle"],
           completion' = [p \in Producers |-> Fresh], idempotency' = <<>>, popped' = <<>>,
           processed_since_publish' = 0
    PROVE  ShapeInv'
<1>1. KeysInv'
  BY NoKeys, Zenon DEF KeysInv
<1>2. Len(ring') <= RingCapacity
  BY EngineAssumption
<1>3. Bounded'
  BY <1>2 DEF Bounded
<1>4. CompletionTypes'
  BY DEF CompletionTypes, Fresh, Errors
<1>5. HeldApart'
  <2>1. ~ Busy' /\ 1 .. Len(ring') = {} /\ \A p \in Producers : ~ Waits(p)'
    BY DEF Busy, Waits
  <2> QED
    BY <2>1, Zenon DEF HeldApart
<1> QED
  BY <1>1, <1>3, <1>4, <1>5, Zenon DEF ShapeInv, HeldInv

LEMMA InitShape == Init => ShapeInv
<1> SUFFICES ASSUME Init PROVE ShapeInv
  OBVIOUS
<1>1. HeldInv
  BY InitHeld, InitTypes DEF HeldInv
<1>2. idempotency = <<>> /\ popped = <<>> /\ processed_since_publish = 0 /\ ring = <<>>
  BY Zenon DEF Init
<1>3. KeysInv
  BY <1>2, NoKeys, Zenon DEF KeysInv
<1>4. Bounded
  BY <1>2, EngineAssumption DEF Bounded
<1> QED
  BY <1>1, <1>3, <1>4, Zenon DEF ShapeInv

\* TypeOK in terms of the invariants.
LEMMA ShapeTypes ==
    ASSUME ShapeInv, LogInv, IsLedgerState(working), IsLedgerState(published)
    PROVE  TypeOK
<1>1. Types /\ CompletionTypes /\ KeysInv /\ Bounded
  BY Zenon DEF ShapeInv, HeldInv
<1>2. Len(idempotency) <= IdempotencyCapacity
  <2>1. Len(idempotency) \in 0 .. IdempotencyCapacity
    BY <1>1, Zenon DEF KeysInv, Recent
  <2> QED
    BY <2>1, EngineAssumption
<1>3. writer.stage \in {"idle", "flush", "apply", "ack"}
  <2>1. CASE Busy
    BY <1>1, <2>1 DEF Types
  <2>2. CASE ~ Busy
    BY <2>2, IdleWriter DEF Busy
  <2> QED
    BY <2>1, <2>2
<1>4. wal.mode \in SyncMode /\ wal.synced \in 0 .. Len(wal.file) /\ wal.offset \in 0 .. Len(wal.file)
  BY Zenon DEF LogInv, IsLog
<1> QED
  BY <1>1, <1>2, <1>3, <1>4, Zenon DEF TypeOK, Types, CompletionTypes, Bounded

LEMMA LedgersStep ==
    ASSUME Types, StillValid, IsLedgerState(working), IsLedgerState(published), [Next]_vars
    PROVE  IsLedgerState(working') /\ IsLedgerState(published')
<1> DEFINE D == DOMAIN working.accounts
<1>0. Sound(working, D, FALSE)
  BY Zenon DEF Sound
<1>1. ASSUME NEW opening \in OpeningAccounts, AddAccount(opening)
      PROVE  IsLedgerState(working') /\ IsLedgerState(published')
  <2>1. /\ working' = add_account(working, opening.id, opening.account) /\ UNCHANGED published
        /\ opening.id \in AccountId /\ opening.account \in Account
    BY <1>1, EngineAssumption DEF AddAccount
  <2> HIDE DEF D
  <2>2. Sound(working', DOMAIN working'.accounts, FALSE)
    BY <1>0, <2>1, OpenedSound, Zenon
  <2> QED
    BY <2>1, <2>2, Zenon DEF Sound
<1>2. ASSUME ApplyAndPublish
      PROVE  IsLedgerState(working') /\ IsLedgerState(published')
  <2> DEFINE t == writer.request.tx
  <2>1. /\ working' = apply(working, t) /\ writer.stage = "apply"
        /\ published' \in {published, working'}
    BY <1>2 DEF ApplyAndPublish, Publish
  <2>2. t \in Transactions
    <3>1. Busy
      BY <2>1, IdleWriter
    <3> QED
      BY <3>1 DEF Types, Pending
  <2>3. t.id \in Nat /\ t.legs \in Seq(EntryLeg)
    BY <2>2, EngineAssumption DEF Transactions, AskedLegs, LegList
  <2>4. /\ validate_transaction_shape(t.legs) = "None"
        /\ validate_transaction_against_state(t.legs, working.accounts) = "None"
    BY <2>1 DEF StillValid
  <2>5. Touched(t.legs) \subseteq D
    BY <2>3, <2>4, StateValid, Zenon
  <2>6. SoundTx(t, D)
    BY <2>3, <2>4, <2>5, Zenon DEF SoundTx
  <2> HIDE DEF D, t
  <2>7. Sound(working', D, FALSE)
    BY <1>0, <2>1, <2>6, AppliedSound, Zenon
  <2> QED
    BY <2>1, <2>7 DEF Sound
<1>3. \/ UNCHANGED <<working, published>> \/ ApplyAndPublish
      \/ \E opening \in OpeningAccounts : AddAccount(opening)
  BY Zenon DEF Next, Writer, Producer, Allocate, Submit, ObserveDone, Finish,
     StartProducers, Reject, WalAppend, WalAppendFails, WalFlush, WalFlushFails, Acknowledge,
     FlushBatch, vars, stateVars
<1> QED
  BY <1>1, <1>2, <1>3, Zenon

TypeInv ==
    /\ ShapeInv /\ NothingBeforeStart /\ StillValid /\ LogInv
    /\ IsLedgerState(working) /\ IsLedgerState(published)

\* Every variable of the engine keeps its type and its bound: the queue and the
\* cache their capacity, the log its marks within the file, and both ledger
\* states their accounts (ring_buffer.hpp, idempotency_cache.hpp, wal_writer.cpp).
THEOREM EngineTypes == Spec => []TypeOK
<1>1. Init => TypeInv
  <2> SUFFICES ASSUME Init PROVE TypeInv
    OBVIOUS
  <2>1. LogInv
    BY InitLog
  <2>2. working = EmptyLedgerState /\ published = EmptyLedgerState
    BY Zenon DEF Init
  <2> QED
    BY <2>1, <2>2, InitShape, InitTypes, EmptySound, Zenon DEF TypeInv, Sound
<1>2. TypeInv /\ [Next]_vars => TypeInv'
  <2> SUFFICES ASSUME TypeInv, [Next]_vars PROVE TypeInv'
    OBVIOUS
  <2>1. /\ ShapeInv /\ Types /\ NothingBeforeStart /\ StillValid /\ LogInv
        /\ IsLedgerState(working) /\ IsLedgerState(published)
    BY Zenon DEF TypeInv, ShapeInv, HeldInv
  <2>2. IsLedgerState(working') /\ IsLedgerState(published')
    BY <2>1, LedgersStep
  <2> QED
    BY <2>1, <2>2, ShapeStep, NothingBeforeStartStep, StillValidStep, LogStep, Zenon
    DEF TypeInv, IsLedgerState
<1>3. TypeInv => TypeOK
  BY ShapeTypes, Zenon DEF TypeInv
<1> QED
  BY <1>1, <1>2, <1>3, PTL DEF Spec

----------------------------------------------------------------------------
(* Types, across crashes. *)

\* The history of commits has an entry for the initial state and one for the
\* request in the writer's hands.
Committed == IsSeq(commits) /\ Len(commits) \in Nat /\ Len(commits) >= IF Busy THEN 2 ELSE 1

LEMMA Single ==
    ASSUME NEW e
    PROVE  IsSeq(<<e>>) /\ Len(<<e>>) = 1
<1>1. <<e>> \in Seq({e}) /\ Len(<<e>>) = 1
  OBVIOUS
<1> QED
  BY <1>1, Zenon DEF IsSeq

LEMMA CommittedStep ==
    ASSUME Types, NothingBeforeStart, Committed, [Next]_vars
    PROVE  Committed'
<1>0. IsSeq(commits) /\ Len(commits) \in Nat /\ Len(commits) >= (IF Busy THEN 2 ELSE 1)
  BY Zenon DEF Committed
<1>1. ASSUME commits' = commits, Busy' => Busy PROVE Committed'
  BY <1>0, <1>1 DEF Committed
<1>2. ASSUME NEW opening \in OpeningAccounts, AddAccount(opening) PROVE Committed'
  <2>1. ~ Busy' /\ \E e : commits' = <<e>>
    BY <1>2, Zenon DEF AddAccount, NothingBeforeStart, Busy
  <2>2. IsSeq(commits') /\ Len(commits') = 1
    BY <2>1, Single, Zenon
  <2> QED
    BY <2>1, <2>2 DEF Committed
<1>3. CASE WalAppend
  <2>1. ~ Busy /\ \E e : commits' = Append(commits, e)
    BY <1>3, Zenon DEF WalAppend, Dequeue, Busy
  <2>2. IsSeq(commits') /\ Len(commits') = Len(commits) + 1
    BY <1>0, <2>1, Appended
  <2> QED
    BY <1>0, <2>1, <2>2 DEF Committed
<1>4. CASE WalFlushFails
  <2>1. writer.stage = "flush" /\ ~ Busy' /\ commits' = SubSeq(commits, 1, Len(commits) - 1)
    BY <1>4, Zenon DEF WalFlushFails, Busy
  <2>2. Busy
    BY <2>1, IdleWriter
  <2>3. Len(commits) >= 1
    BY <1>0
  <2>4. IsSeq(commits') /\ Len(commits') = Len(commits) - 1
    BY <1>0, <2>1, <2>3, Shortened, Zenon
  <2> QED
    BY <1>0, <2>1, <2>2, <2>4 DEF Committed
<1>5. ASSUME WalFlush \/ ApplyAndPublish PROVE Committed'
  <2>1. Busy /\ commits' = commits
    BY <1>5, IdleWriter DEF WalFlush, ApplyAndPublish
  <2> QED
    BY <1>1, <2>1, Zenon
<1>6. ASSUME \/ StartProducers \/ Reject \/ WalAppendFails \/ Acknowledge \/ FlushBatch \/ UNCHANGED vars
             \/ \E p \in Producers : Producer(p)
      PROVE  commits' = commits /\ (Busy' => Busy)
  BY <1>6, Zenon DEF StartProducers, Reject, WalAppendFails, Acknowledge, FlushBatch, vars,
     producerVars, Producer, Allocate, Submit, ObserveDone, Finish, Busy
<1> QED
  BY <1>1, <1>2, <1>3, <1>4, <1>5, <1>6, Zenon DEF Next, Writer

Phases == {"running", "crashed", "loaded", "replay", "recovered", "refused", "failed"}

\* While the engine runs, nothing was lost yet.
CrashTypeInv ==
    /\ BooksInv /\ ShapeInv /\ Committed /\ phase \in Phases
    /\ acknowledged \in 1 .. Len(commits) /\ durable \in 1 .. Len(commits)
    /\ phase = "running" => acknowledged = 1 /\ durable = 1

LEMMA CrashShape ==
    ASSUME CrashTypeInv, [CrashNext]_allVars
    PROVE  ShapeInv' /\ Committed'
<1>0. BooksInv /\ Types /\ NothingBeforeStart /\ ShapeInv /\ Committed /\ IsSeq(commits)
      /\ Len(commits) \in Nat /\ Len(commits) >= 1
  <2>1. BooksInv /\ Types /\ NothingBeforeStart /\ ShapeInv /\ Committed
    BY Zenon DEF CrashTypeInv, BooksInv, ProcessInv
  <2> QED
    BY <2>1 DEF Committed
<1>1. Types'
  BY <1>0, BooksStep, Zenon DEF BooksInv, ProcessInv
<1>2. CASE [Next]_vars
  BY <1>0, <1>2, ShapeStep, CommittedStep
<1>3. ASSUME NEW state, NEW file, FreshEngine(state, file), commits' = commits \/ \E e : commits' = <<e>>
      PROVE  ShapeInv' /\ Committed'
  <2>1. ShapeInv'
    BY <1>1, <1>3, FreshShape, Zenon DEF FreshEngine
  <2>2. ~ Busy'
    BY <1>3, Zenon DEF FreshEngine, Busy
  <2>3. IsSeq(commits') /\ Len(commits') \in Nat /\ Len(commits') >= 1
    <3>1. CASE commits' = commits
      BY <1>0, <3>1, Zenon
    <3>2. ASSUME NEW e, commits' = <<e>> PROVE IsSeq(commits') /\ Len(commits') = 1
      BY <3>2, Single, Zenon
    <3>3. 1 \in Nat /\ 1 >= 1
      OBVIOUS
    <3> QED
      BY <1>3, <3>1, <3>2, <3>3, Zenon
  <2> QED
    BY <2>1, <2>2, <2>3, Zenon DEF Committed
<1>4. Crash => commits' = commits
  BY Zenon DEF Crash
<1>5. CASE Resume
  BY <1>3, <1>5, Zenon DEF Resume
<1>6. CASE CutTail
  <2>1. UNCHANGED <<ring, writer, pc, tx, completion, idempotency, popped, commits, processed_since_publish>>
    BY <1>6, Zenon DEF CutTail, producerVars, stateVars
  <2>2. HeldInv'
    BY <1>0, <1>1, <2>1, Zenon DEF ShapeInv, HeldInv, CompletionTypes, HeldApart, Waits, Busy
  <2> QED
    BY <1>0, <2>1, <2>2, Zenon DEF ShapeInv, KeysInv, Bounded, Committed, Busy
<1>7. CASE UNCHANGED vars
  BY <1>2, <1>7, Zenon
<1> QED
  BY <1>2, <1>3, <1>4, <1>5, <1>6, <1>7, CrashSteps, Zenon

LEMMA MarksStep ==
    ASSUME CrashTypeInv, [CrashNext]_allVars
    PROVE  /\ phase' \in Phases
           /\ acknowledged' \in 1 .. Len(commits') /\ durable' \in 1 .. Len(commits')
           /\ phase' = "running" => acknowledged' = 1 /\ durable' = 1
<1> DEFINE Marks == /\ acknowledged' \in 1 .. Len(commits') /\ durable' \in 1 .. Len(commits')
                    /\ phase' = "running" => acknowledged' = 1 /\ durable' = 1
<1>0. /\ Len(commits) \in Nat /\ Len(commits) >= (IF Busy THEN 2 ELSE 1)
      /\ Len(commits') \in Nat /\ Len(commits') >= 1
      /\ acknowledged \in 1 .. Len(commits) /\ durable \in 1 .. Len(commits)
      /\ phase = "running" => acknowledged = 1 /\ durable = 1
      /\ phase \in Phases
  <2>1. Committed /\ Committed'
    BY CrashShape, Zenon DEF CrashTypeInv
  <2> QED
    BY <2>1 DEF Committed, CrashTypeInv
<1>1. CASE Run \/ SeedAndStart
  <2>1. phase = "running" /\ UNCHANGED <<phase, acknowledged, durable>>
    BY <1>1, Zenon DEF Run, SeedAndStart, recoveryVars
  <2> QED
    BY <1>0, <2>1
<1>2. CASE Crash
  <2>1. phase' = "crashed" /\ commits' = commits
    BY <1>2, Zenon DEF Crash
  <2>2. CASE phase = "running"
    <3>1. /\ acknowledged' = Len(commits) - IF writer = NoRequest THEN 0 ELSE 1
          /\ \E last \in 1 .. Len(commits) : durable' = last
      BY <1>2, <2>2 DEF Crash
    <3> QED
      BY <1>0, <2>1, <3>1 DEF Phases, Busy
  <2>3. CASE phase # "running"
    <3>1. UNCHANGED <<acknowledged, durable>>
      BY <1>2, <2>3, Zenon DEF Crash
    <3> QED
      BY <1>0, <2>1, <3>1 DEF Phases
  <2> QED
    BY <2>2, <2>3
<1>3. CASE Resume
  <2>1. phase' = "running" /\ acknowledged' = 1 /\ durable' = 1
    BY <1>3, Zenon DEF Resume
  <2> QED
    BY <1>0, <2>1 DEF Phases
<1>4. CASE Checkpoint \/ FinalCheckpoint \/ ReplayRecord \/ UNCHANGED allVars
  <2>1. UNCHANGED <<phase, acknowledged, durable, commits>>
    BY <1>4, Zenon DEF Checkpoint, FinalCheckpoint, ReplayRecord, allVars, recoveryVars, vars
  <2> QED
    BY <1>0, <2>1
<1>5. CASE LoadSnapshot \/ OpenReader \/ EndOfReplay \/ TruncateTail \/ RecoverFaults
  <2>1. UNCHANGED <<acknowledged, durable, commits>>
    BY <1>5, Zenon DEF LoadSnapshot, OpenReader, EndOfReplay, TruncateTail, RecoverFaults,
       LoadSnapshotFails, OpenReaderFails, ReadFails, TruncateFails, CutTail, vars
  <2>2. phase' \in {"loaded", "replay", "recovered", "refused", "failed"}
    BY <1>5 DEF LoadSnapshot, OpenReader, EndOfReplay, TruncateTail, RecoverFaults,
       LoadSnapshotFails, OpenReaderFails, ReadFails, TruncateFails, CutTail, Verified
  <2>3. phase' # "running" /\ phase' \in Phases
    BY <2>2 DEF Phases
  <2> QED
    BY <1>0, <2>1, <2>3, Zenon
<1> QED
  BY <1>1, <1>2, <1>3, <1>4, <1>5, Zenon DEF CrashNext, Recover

\* So do the engine's variables after any number of crashes, and recovery's
\* own: what it restores are ledger states, its positions are offsets, and the
\* histories of what clients knew of stay within the commits.
THEOREM CrashTypes == CrashSpec => []CrashTypeOK
<1>1. CrashInit => CrashTypeInv
  <2> SUFFICES ASSUME CrashInit PROVE CrashTypeInv
    OBVIOUS
  <2>1. ShapeInv
    BY InitShape, Zenon DEF CrashInit
  <2>2. writer = NoRequest /\ \E e : commits = <<e>>
    BY Zenon DEF CrashInit, Init
  <2>3. IsSeq(commits) /\ Len(commits) = 1
    BY <2>2, Single, Zenon
  <2>4. Committed
    BY <2>2, <2>3 DEF Committed, Busy
  <2>5. phase = "running" /\ acknowledged = 1 /\ durable = 1
    BY Zenon DEF CrashInit
  <2> QED
    BY <2>1, <2>3, <2>4, <2>5, InitBooks DEF CrashTypeInv, Phases
<1>2. CrashTypeInv /\ [CrashNext]_allVars => CrashTypeInv'
  <2> SUFFICES ASSUME CrashTypeInv, [CrashNext]_allVars PROVE CrashTypeInv'
    OBVIOUS
  <2>1. BooksInv'
    BY BooksStep, Zenon DEF CrashTypeInv
  <2> QED
    BY <2>1, CrashShape, MarksStep, Zenon DEF CrashTypeInv, Phases
<1>3. CrashTypeInv => CrashTypeOK
  <2> SUFFICES ASSUME CrashTypeInv PROVE CrashTypeOK
    OBVIOUS
  <2>1. /\ IsLedgerState(working) /\ IsLedgerState(published)
        /\ IsLedgerState(recovered) /\ IsLedgerState(snapshot_file.state)
    BY Zenon DEF CrashTypeInv, BooksInv, SoundEverywhere, SoundEngine, Sound
  <2>2. LogInv /\ cursor \in Nat /\ snapshot_file.wal_offset \in Nat
    BY Zenon DEF CrashTypeInv, BooksInv, ProcessInv
  <2>3. TypeOK
    BY <2>1, <2>2, ShapeTypes, Zenon DEF CrashTypeInv
  <2> QED
    BY <2>1, <2>2, <2>3, Zenon DEF CrashTypeOK, CrashTypeInv, Phases
<1> QED
  BY <1>1, <1>2, <1>3, PTL DEF CrashSpec

=============================================================================
