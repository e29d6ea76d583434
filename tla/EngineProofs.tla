---------------------------- MODULE EngineProofs ----------------------------
(***************************************************************************)
(* The engine answers every request once, shows its readers a recent       *)
(* commit, and makes nothing visible that is not in the log, for any       *)
(* number of producers and requests, any capacity of the queue and of the  *)
(* cache, any chart of accounts and any of the failures; and recovery      *)
(* leaves a log that ends where its last valid record does.                *)
(***************************************************************************)
EXTENDS CrashRecovery, TLAPS

\* What clients may ask for, as it travels through the queue.
Keys == {request.key : request \in Requests}
AskedLegs == {request.legs : request \in Requests}
Transactions == [id : Nat, key : Keys, legs : AskedLegs]
Pending == [tx : Transactions, completion : Producers]

\* The writer has a request exactly when it is not idle.
Busy == writer # NoRequest

Types ==
    /\ setup \in BOOLEAN
    /\ next_tx_id \in Nat
    /\ pc \in [Producers -> Positions]
    /\ iteration \in [Producers -> 0 .. TxPerProducer]
    /\ tx \in [Producers -> Transactions \cup {[id |-> 0]}]
    /\ \A p \in Producers : pc[p] = "allocated" => tx[p] \in Transactions
    /\ ring \in Seq(Pending)
    /\ Busy => writer \in [stage : {"flush", "apply", "ack"}, request : Pending]

\* No request exists before the producers are started.
NothingBeforeStart ==
    setup => ring = <<>> /\ ~ Busy /\ \A p \in Producers : pc[p] = "idle"

\* A transaction that is in the log and not applied yet was validated against
\* the state it will be applied to.
StillValid ==
    writer.stage \in {"flush", "apply"} =>
        /\ validate_transaction_shape(writer.request.tx.legs) = "None"
        /\ validate_transaction_against_state(writer.request.tx.legs, working.accounts) = "None"

----------------------------------------------------------------------------

LEMMA IdleWriter ==
    /\ NoRequest.stage = "idle"
    /\ Types => (Busy <=> writer.stage \in {"flush", "apply", "ack"})
BY DEF NoRequest, Busy, Types

LEMMA InitTypes == Init => Types /\ NothingBeforeStart /\ StillValid
<1> SUFFICES ASSUME Init PROVE Types /\ NothingBeforeStart /\ StillValid
  OBVIOUS
<1>1. Types
  BY EngineAssumption DEF Init, Types, Busy, Positions
<1>2. NothingBeforeStart
  BY DEF Init, NothingBeforeStart, Busy
<1>3. StillValid
  BY IdleWriter DEF Init, StillValid
<1> QED
  BY <1>1, <1>2, <1>3

\* The head of the queue and what is left of it.
LEMMA Dequeued ==
    ASSUME Types, ring # <<>>, ring' = Tail(ring)
    PROVE  /\ Head(ring) \in Pending /\ Head(ring) = ring[1]
           /\ ring' \in Seq(Pending) /\ Len(ring') = Len(ring) - 1
           /\ 1 \in 1 .. Len(ring) /\ Len(ring) \in Nat
           /\ \A i \in 1 .. Len(ring') : i + 1 \in 1 .. Len(ring) /\ ring'[i] = ring[i + 1]
<1>1. ring \in Seq(Pending) /\ ring # <<>>
  BY DEF Types
<1>2. Len(ring) \in Nat /\ Len(ring) # 0
  BY <1>1
<1> QED
  BY <1>1, <1>2

\* The steps that leave the queue, the writer's request and the producers alone.
Quiet ==
    /\ UNCHANGED <<ring, next_tx_id, pc, iteration, tx>>
    /\ \/ UNCHANGED <<setup, writer>>
       \/ setup = TRUE /\ setup' = FALSE /\ UNCHANGED writer
       \/ setup' = setup /\ writer.stage = "flush" /\ writer' = [writer EXCEPT !.stage = "apply"]
       \/ setup' = setup /\ writer.stage = "apply" /\ writer' = [writer EXCEPT !.stage = "ack"]
       \/ setup' = setup /\ writer' = NoRequest

\* The steps by which the writer takes a request, to drop it or to keep it.
Take ==
    /\ UNCHANGED <<setup, next_tx_id, pc, iteration, tx>>
    /\ ~ Busy /\ ring # <<>> /\ ring' = Tail(ring)
    /\ \/ UNCHANGED writer
       \/ writer' \in {[stage |-> s, request |-> Head(ring)] : s \in {"flush", "apply"}}

LEMMA Steps ==
    ASSUME Types, [Next]_vars
    PROVE  \/ Quiet
           \/ Take
           \/ \E p \in Producers : Allocate(p) \/ Submit(p) \/ ObserveDone(p) \/ Finish(p)
<1>1. ASSUME NEW opening \in OpeningAccounts, AddAccount(opening) PROVE Quiet
  BY <1>1 DEF AddAccount, Quiet, producerVars
<1>2. ASSUME StartProducers PROVE Quiet
  BY <1>2, Zenon DEF StartProducers, Quiet, producerVars
<1>3. ASSUME Reject \/ WalAppendFails PROVE Take
  BY <1>3 DEF Reject, WalAppendFails, Dequeue, Take, Busy, producerVars
<1>4. ASSUME WalAppend PROVE Take
  BY <1>4 DEF WalAppend, Dequeue, Take, Busy, producerVars
<1>5. ASSUME WalFlush \/ WalFlushFails \/ ApplyAndPublish \/ Acknowledge \/ FlushBatch PROVE Quiet
  BY <1>5 DEF WalFlush, WalFlushFails, ApplyAndPublish, Acknowledge, FlushBatch, Quiet, producerVars
<1>6. ASSUME UNCHANGED vars PROVE Quiet
  BY <1>6 DEF vars, producerVars, Quiet
<1> QED
  BY <1>1, <1>2, <1>3, <1>4, <1>5, <1>6 DEF Next, Writer, Producer

\* What a quiet step does to the writer's request.
LEMMA QuietWriter ==
    ASSUME Types, Quiet, Busy'
    PROVE  /\ Busy /\ writer'.request = writer.request
           /\ writer' \in [stage : {"flush", "apply", "ack"}, request : Pending]
           /\ writer'.stage \in {"flush", "apply"} => writer.stage \in {"flush", "apply"}
<1>1. CASE UNCHANGED writer
  BY <1>1 DEF Types, Busy
<1>2. ASSUME NEW s \in {"apply", "ack"}, writer' = [writer EXCEPT !.stage = s],
             writer.stage \in {"flush", "apply"},
             s = "ack" \/ writer.stage = "flush"
      PROVE  /\ Busy /\ writer'.request = writer.request
             /\ writer' \in [stage : {"flush", "apply", "ack"}, request : Pending]
             /\ writer'.stage \in {"flush", "apply"} => writer.stage \in {"flush", "apply"}
  <2>1. Busy /\ writer \in [stage : {"flush", "apply", "ack"}, request : Pending]
    BY <1>2, IdleWriter DEF Types
  <2> QED
    BY <1>2, <2>1
<1>3. CASE writer' = NoRequest
  BY <1>3 DEF Busy
<1> QED
  BY <1>1, <1>2, <1>3 DEF Quiet

LEMMA TypesStep ==
    ASSUME Types, [Next]_vars
    PROVE  Types'
<1>1. CASE Quiet
  <2>1. Busy' => writer' \in [stage : {"flush", "apply", "ack"}, request : Pending]
    BY <1>1, QuietWriter
  <2>2. setup' \in BOOLEAN
    BY <1>1, Zenon DEF Quiet, Types
  <2> QED
    BY <1>1, <2>1, <2>2 DEF Quiet, Types
<1>2. CASE Take
  <2>1. Head(ring) \in Pending /\ ring' \in Seq(Pending)
    BY <1>2, Dequeued DEF Take
  <2>2. Busy' => writer' \in [stage : {"flush", "apply", "ack"}, request : Pending]
    BY <1>2, <2>1 DEF Take, Busy
  <2> QED
    BY <1>2, <2>1, <2>2 DEF Take, Types
<1>3. ASSUME NEW p \in Producers, Allocate(p) PROVE Types'
  <2>1. PICK request \in Requests :
          tx' = [tx EXCEPT ![p] = [id |-> next_tx_id + 1, key |-> request.key, legs |-> request.legs]]
    BY <1>3, Zenon DEF Allocate
  <2>2. [id |-> next_tx_id + 1, key |-> request.key, legs |-> request.legs] \in Transactions
    BY DEF Types, Transactions, Keys, AskedLegs
  <2>3. iteration' \in [Producers -> 0 .. TxPerProducer]
    BY <1>3, EngineAssumption DEF Allocate, Types
  <2> QED
    BY <1>3, <2>1, <2>2, <2>3 DEF Allocate, Types, Positions, Busy
<1>4. ASSUME NEW p \in Producers, Submit(p) PROVE Types'
  <2> DEFINE e == [tx |-> tx[p], completion |-> p]
  <2>1. e \in Pending
    BY <1>4 DEF Pending, Submit, Types
  <2>2. ring' = Append(ring, e) \/ ring' = ring
    BY <1>4 DEF Submit
  <2> HIDE DEF e
  <2>3. ring' \in Seq(Pending)
    <3>1. ring \in Seq(Pending)
      BY DEF Types
    <3> QED
      BY <2>1, <2>2, <3>1
  <2> QED
    BY <1>4, <2>3, Zenon DEF Submit, Types, Positions, Busy
<1>5. ASSUME NEW p \in Producers, ObserveDone(p) \/ Finish(p) PROVE Types'
  BY <1>5, Zenon DEF ObserveDone, Finish, Types, Positions, Busy
<1> QED
  BY <1>1, <1>2, <1>3, <1>4, <1>5, Steps

LEMMA NothingBeforeStartStep ==
    ASSUME Types, NothingBeforeStart, [Next]_vars
    PROVE  NothingBeforeStart'
<1>1. CASE Quiet
  <2> SUFFICES ASSUME setup' PROVE ring' = <<>> /\ ~ Busy' /\ \A p \in Producers : pc'[p] = "idle"
    BY DEF NothingBeforeStart
  <2>1. setup /\ UNCHANGED <<ring, pc>>
    BY <1>1, Zenon DEF Quiet
  <2>2. ~ Busy'
    BY <1>1, <2>1, QuietWriter DEF NothingBeforeStart
  <2> QED
    BY <2>1, <2>2 DEF NothingBeforeStart
<1>2. CASE Take
  BY <1>2 DEF Take, NothingBeforeStart, Busy
<1>3. ASSUME NEW p \in Producers, Allocate(p) \/ Submit(p) \/ ObserveDone(p) \/ Finish(p)
      PROVE  NothingBeforeStart'
  <2>1. ~ setup /\ setup' = setup
    BY <1>3 DEF Allocate, Submit, ObserveDone, Finish, NothingBeforeStart
  <2> QED
    BY <2>1 DEF NothingBeforeStart
<1> QED
  BY <1>1, <1>2, <1>3, Steps

\* Past the duplicate check, no error means that both validators agreed.
LEMMA AcceptedIsValid ==
    ASSUME NEW t, Verdict(t) = "None"
    PROVE  /\ validate_transaction_shape(t.legs) = "None"
           /\ validate_transaction_against_state(t.legs, working.accounts) = "None"
BY DEF Verdict

\* The accounts a validated transaction waits for do not change under it.
LEMMA StillValidStep ==
    ASSUME Types, NothingBeforeStart, StillValid, [Next]_vars
    PROVE  StillValid'
<1>0. Types /\ NothingBeforeStart /\ StillValid
  OBVIOUS
<1>1. ASSUME NEW opening \in OpeningAccounts, AddAccount(opening) PROVE StillValid'
  <2>1. writer' = NoRequest
    BY <1>0, <1>1 DEF AddAccount, NothingBeforeStart, Busy
  <2> QED
    BY <2>1, IdleWriter DEF StillValid
<1>2. ASSUME WalAppend PROVE StillValid'
  <2>1. writer'.request = Head(ring) /\ UNCHANGED working /\ Verdict(Head(ring).tx) = "None"
    BY <1>2 DEF WalAppend, stateVars
  <2> QED
    BY <2>1, AcceptedIsValid DEF StillValid
<1>3. ASSUME WalFlush PROVE StillValid'
  <2>1. UNCHANGED working /\ writer.stage = "flush" /\ writer'.request = writer.request
    BY <1>0, <1>3, IdleWriter DEF WalFlush, stateVars, Types
  <2> QED
    BY <1>0, <2>1 DEF StillValid
<1>4. ASSUME ApplyAndPublish PROVE StillValid'
  <2>1. writer'.stage = "ack"
    BY <1>0, <1>4, IdleWriter DEF ApplyAndPublish, Types
  <2> QED
    BY <2>1 DEF StillValid
<1>5. ASSUME WalFlushFails \/ Acknowledge PROVE StillValid'
  <2>1. writer' = NoRequest
    BY <1>5 DEF WalFlushFails, Acknowledge
  <2> QED
    BY <2>1, IdleWriter DEF StillValid
<1>6. ASSUME UNCHANGED <<writer, working>> PROVE StillValid'
  BY <1>0, <1>6 DEF StillValid
<1>7. ASSUME StartProducers \/ Reject \/ WalAppendFails \/ FlushBatch \/ UNCHANGED vars
      PROVE  UNCHANGED <<writer, working>>
  BY <1>7 DEF StartProducers, Reject, WalAppendFails, FlushBatch, vars, stateVars
<1>8. ASSUME NEW p \in Producers, Producer(p) PROVE UNCHANGED <<writer, working>>
  BY <1>8 DEF Producer, Allocate, Submit, ObserveDone, Finish, stateVars
<1> QED
  BY <1>1, <1>2, <1>3, <1>4, <1>5, <1>6, <1>7, <1>8 DEF Next, Writer

----------------------------------------------------------------------------
(* Every request is held once while its producer waits, and answered once. *)

\* Producer p waits for an answer it has not been given.
Waits(p) == pc[p] = "waiting" /\ ~ completion[p].done

\* HeldExactlyWhileWaiting, with the queue and the writer's request apart.
HeldApart ==
    /\ \A i, j \in 1 .. Len(ring) : ring[i].completion = ring[j].completion => i = j
    /\ \A i \in 1 .. Len(ring) :
          Waits(ring[i].completion) /\ ring[i].tx = tx[ring[i].completion]
    /\ Busy =>
          /\ Waits(writer.request.completion)
          /\ writer.request.tx = tx[writer.request.completion]
          /\ \A i \in 1 .. Len(ring) : ring[i].completion # writer.request.completion
    /\ \A p \in Producers : Waits(p) =>
          \/ \E i \in 1 .. Len(ring) : ring[i].completion = p
          \/ Busy /\ writer.request.completion = p

CompletionTypes == completion \in [Producers -> [done : BOOLEAN, error : Errors]]

LEMMA RingOwners ==
    ASSUME Types
    PROVE  /\ Len(ring) \in Nat
           /\ \A i \in 1 .. Len(ring) : ring[i] \in Pending /\ ring[i].completion \in Producers
<1>1. ring \in Seq(Pending) /\ Len(ring) \in Nat
  BY DEF Types
<1>2. \A i \in 1 .. Len(ring) : ring[i] \in Pending
  BY <1>1
<1>3. \A r \in Pending : r.completion \in Producers
  BY DEF Pending
<1> QED
  BY <1>1, <1>2, <1>3

LEMMA ApartIsHeld ==
    ASSUME Types, HeldApart
    PROVE  HeldExactlyWhileWaiting
<1> DEFINE n == Len(ring)
<1>1. ring \in Seq(Pending) /\ n \in Nat
  BY DEF Types
<1>2. CASE ~ Busy
  <2>1. Held = ring
    BY <1>1, <1>2 DEF Held, Busy
  <2>2. \A i \in 1 .. Len(ring) : ring[i].completion \in Producers
    BY RingOwners
  <2>3. {ring[i].completion : i \in 1 .. Len(ring)} = {p \in Producers : Waits(p)}
    BY <1>2, <2>2 DEF HeldApart
  <2>4. {p \in Producers : Waits(p)} = {p \in Producers : pc[p] = "waiting" /\ ~ completion[p].done}
    BY Zenon DEF Waits
  <2> QED
    BY <1>2, <2>1, <2>3, <2>4 DEF HeldExactlyWhileWaiting, HeldApart
<1>3. CASE Busy
  <2> DEFINE w == writer.request
  <2>1. w \in Pending
    BY <1>3 DEF Types
  <2>2. Held = ring \o <<w>>
    BY <1>3 DEF Held, Busy
  <2> HIDE DEF w
  <2>3. /\ Len(Held) = n + 1
        /\ \A i \in 1 .. n : Held[i] = ring[i]
        /\ Held[n + 1] = w
    BY <1>1, <2>1, <2>2
  <2>4. \A i \in 1 .. n : ring[i].completion \in Producers
    BY RingOwners
  <2>5. w.completion \in Producers
    BY <2>1 DEF Pending
  <2>6. /\ \A i \in 1 .. n : Waits(ring[i].completion) /\ ring[i].tx = tx[ring[i].completion]
        /\ \A i, j \in 1 .. n : ring[i].completion = ring[j].completion => i = j
        /\ Waits(w.completion) /\ w.tx = tx[w.completion]
        /\ \A i \in 1 .. n : ring[i].completion # w.completion
        /\ \A p \in Producers : Waits(p) => w.completion = p \/ \E i \in 1 .. n : ring[i].completion = p
    BY <1>3 DEF HeldApart, w
  <2> HIDE DEF n
  <2>7. ASSUME NEW i \in 1 .. n + 1, NEW j \in 1 .. n + 1,
               Held[i].completion = Held[j].completion
        PROVE  i = j
    <3>1. (i \in 1 .. n \/ i = n + 1) /\ (j \in 1 .. n \/ j = n + 1)
      BY <1>1
    <3>2. CASE i \in 1 .. n /\ j \in 1 .. n
      BY <2>3, <2>6, <2>7, <3>2
    <3>3. CASE i \in 1 .. n /\ j = n + 1
      BY <2>3, <2>6, <2>7, <3>3
    <3>4. CASE i = n + 1 /\ j \in 1 .. n
      BY <2>3, <2>6, <2>7, <3>4
    <3> QED
      BY <3>1, <3>2, <3>3, <3>4
  <2>8. {Held[i].completion : i \in 1 .. n + 1} = {p \in Producers : Waits(p)}
    BY <1>1, <2>3, <2>4, <2>5, <2>6
  <2>9. \A i \in 1 .. n + 1 : Held[i].tx = tx[Held[i].completion]
    BY <1>1, <2>3, <2>6
  <2>10. {p \in Producers : Waits(p)} = {p \in Producers : pc[p] = "waiting" /\ ~ completion[p].done}
    BY Zenon DEF Waits
  <2> QED
    BY <2>3, <2>7, <2>8, <2>9, <2>10 DEF HeldExactlyWhileWaiting
<1> QED
  BY <1>2, <1>3

LEMMA InitHeld == Init => HeldApart /\ CompletionTypes
BY DEF Init, HeldApart, CompletionTypes, Waits, Busy, Fresh, Errors

LEMMA VerdictType == \A t : Verdict(t) \in Errors
<1>1. \A legs, i : LegError(legs, i) \in Errors
  BY DEF LegError, Errors
<1>2. \A legs : validate_transaction_shape(legs) \in Errors
  BY <1>1 DEF validate_transaction_shape, Errors
<1>3. \A legs, accounts : validate_transaction_against_state(legs, accounts) \in Errors
  BY DEF validate_transaction_against_state, Errors
<1> QED
  BY <1>2, <1>3 DEF Verdict, Errors

\* An answer ends one producer's wait.
LEMMA Answered ==
    ASSUME CompletionTypes, NEW p \in Producers, NEW error \in Errors, complete(p, error),
           UNCHANGED pc
    PROVE  /\ CompletionTypes' /\ ~ Waits(p)'
           /\ \A q \in Producers : q # p => Waits(q)' = Waits(q)
<1>1. completion' = [completion EXCEPT ![p] = [done |-> TRUE, error |-> error]]
  BY DEF complete
<1>2. CompletionTypes'
  BY <1>1 DEF CompletionTypes
<1>3. completion'[p].done /\ \A q \in Producers : q # p => completion'[q] = completion[q]
  BY <1>1 DEF CompletionTypes
<1> QED
  BY <1>2, <1>3, Zenon DEF Waits

\* What a step does to the waits of the producers when it does not answer.
LEMMA SameWaits ==
    ASSUME UNCHANGED <<pc, completion>>
    PROVE  \A p \in Producers : Waits(p)' = Waits(p)
BY Zenon DEF Waits

\* The writer takes the oldest request and answers it, or keeps it.
LEMMA TakeHeld ==
    ASSUME Types, HeldApart, Take, NEW h \in Producers, h = Head(ring).completion,
           \/ /\ Busy' /\ writer'.request = Head(ring)
              /\ \A p \in Producers : Waits(p)' = Waits(p)
           \/ /\ UNCHANGED writer /\ ~ Waits(h)'
              /\ \A p \in Producers : p # h => Waits(p)' = Waits(p)
    PROVE  HeldApart'
<1>1. /\ ~ Busy /\ UNCHANGED <<pc, tx>> /\ ring # <<>> /\ ring' = Tail(ring)
  BY DEF Take
<1>2. /\ Head(ring) = ring[1] /\ 1 \in 1 .. Len(ring) /\ Len(ring') = Len(ring) - 1
      /\ \A i \in 1 .. Len(ring') : i + 1 \in 1 .. Len(ring) /\ ring'[i] = ring[i + 1]
  BY <1>1, Dequeued
<1>3. Len(ring) \in Nat /\ \A i \in 1 .. Len(ring) : ring[i].completion \in Producers
  BY RingOwners
<1>4. \A i, j \in 1 .. Len(ring') : ring'[i].completion = ring'[j].completion => i = j
  <2> SUFFICES ASSUME NEW i \in 1 .. Len(ring'), NEW j \in 1 .. Len(ring'),
                      ring'[i].completion = ring'[j].completion
               PROVE  i = j
    OBVIOUS
  <2>1. /\ i + 1 \in 1 .. Len(ring) /\ j + 1 \in 1 .. Len(ring)
        /\ ring[i + 1].completion = ring[j + 1].completion
    BY <1>2
  <2>2. i + 1 = j + 1
    BY <2>1, Zenon DEF HeldApart
  <2> QED
    BY <2>2
<1>5. \A i \in 1 .. Len(ring') :
        /\ ring'[i].completion \in Producers /\ ring'[i].completion # h
        /\ Waits(ring'[i].completion) /\ ring'[i].tx = tx'[ring'[i].completion]
  BY <1>1, <1>2, <1>3 DEF HeldApart
<1>6. \A p \in Producers : Waits(p) =>
        p = h \/ \E i \in 1 .. Len(ring') : ring'[i].completion = p
  <2> SUFFICES ASSUME NEW p \in Producers, Waits(p), p # h
               PROVE  \E i \in 1 .. Len(ring') : ring'[i].completion = p
    OBVIOUS
  <2>1. PICK i \in 1 .. Len(ring) : ring[i].completion = p
    BY <1>1 DEF HeldApart
  <2>2. i # 1 /\ i - 1 \in 1 .. Len(ring') /\ ring'[i - 1] = ring[i]
    <3>1. i # 1
      BY <1>2, <2>1
    <3>2. i - 1 \in 1 .. Len(ring') /\ (i - 1) + 1 = i
      BY <1>2, <1>3, <3>1
    <3> QED
      BY <1>2, <3>1, <3>2
  <2> QED
    BY <2>1, <2>2
<1>7. Waits(h) /\ Head(ring).tx = tx'[h]
  BY <1>1, <1>2, <1>3 DEF HeldApart
<1>8. CASE /\ Busy' /\ writer'.request = Head(ring)
           /\ \A p \in Producers : Waits(p)' = Waits(p)
  BY <1>4, <1>5, <1>6, <1>7, <1>8, Zenon DEF HeldApart
<1>9. CASE /\ UNCHANGED writer /\ ~ Waits(h)'
           /\ \A p \in Producers : p # h => Waits(p)' = Waits(p)
  <2>1. ~ Busy'
    BY <1>1, <1>9 DEF Busy
  <2> QED
    BY <1>4, <1>5, <1>6, <1>7, <1>9, <2>1, Zenon DEF HeldApart
<1> QED
  BY <1>8, <1>9

\* Steps after which the same producers wait for the same requests.
LEMMA CalmHeld ==
    ASSUME Types, HeldApart, UNCHANGED ring,
           \A p \in Producers : Waits(p)' = Waits(p) /\ (Waits(p) => tx'[p] = tx[p]),
           Busy' <=> Busy, Busy => writer'.request = writer.request
    PROVE  HeldApart'
<1>1. \A i \in 1 .. Len(ring) : ring[i].completion \in Producers
  BY RingOwners
<1>2. Busy => writer.request.completion \in Producers
  BY DEF Types, Pending
<1>3. \A i \in 1 .. Len(ring) : Waits(ring[i].completion) /\ ring[i].tx = tx'[ring[i].completion]
  BY <1>1 DEF HeldApart
<1>4. Busy => /\ Waits(writer.request.completion)
              /\ writer.request.tx = tx'[writer.request.completion]
              /\ \A i \in 1 .. Len(ring) : ring[i].completion # writer.request.completion
  BY <1>2 DEF HeldApart
<1>5. \A i, j \in 1 .. Len(ring') : ring'[i].completion = ring'[j].completion => i = j
  BY DEF HeldApart
<1>6. \A i \in 1 .. Len(ring') :
        Waits(ring[i].completion)' /\ ring'[i].tx = tx'[ring'[i].completion]
  BY <1>1, <1>3, Zenon
<1>7. Busy' => /\ Waits(writer.request.completion)'
               /\ writer'.request.tx = tx'[writer'.request.completion]
               /\ \A i \in 1 .. Len(ring') : ring'[i].completion # writer'.request.completion
  BY <1>2, <1>4, Zenon
<1>8. \A p \in Producers : Waits(p)' =>
        \/ \E i \in 1 .. Len(ring') : ring'[i].completion = p
        \/ Busy' /\ writer'.request.completion = p
  BY Zenon DEF HeldApart
<1> QED
  BY <1>5, <1>6, <1>7, <1>8, Zenon DEF HeldApart

\* The writer answers the request it has.
LEMMA AnswerHeld ==
    ASSUME Types, HeldApart, Busy, NEW h \in Producers, h = writer.request.completion,
           UNCHANGED <<ring, tx>>, writer' = NoRequest, ~ Waits(h)',
           \A p \in Producers : p # h => Waits(p)' = Waits(p)
    PROVE  HeldApart'
<1>1. ~ Busy'
  BY DEF Busy
<1>2. \A i \in 1 .. Len(ring) :
        /\ ring[i].completion \in Producers /\ ring[i].completion # h
        /\ Waits(ring[i].completion) /\ ring[i].tx = tx'[ring[i].completion]
  BY RingOwners DEF HeldApart
<1>3. \A i \in 1 .. Len(ring') :
        Waits(ring[i].completion)' /\ ring'[i].tx = tx'[ring'[i].completion]
  BY <1>2, Zenon
<1>4. \A p \in Producers : Waits(p)' => \E i \in 1 .. Len(ring') : ring'[i].completion = p
  BY Zenon DEF HeldApart
<1>5. \A i, j \in 1 .. Len(ring') : ring'[i].completion = ring'[j].completion => i = j
  BY DEF HeldApart
<1> QED
  BY <1>1, <1>3, <1>4, <1>5, Zenon DEF HeldApart

\* submit puts the request of a producer that was not waiting into the queue.
LEMMA SubmitHeld ==
    ASSUME Types, HeldApart, NEW p \in Producers, ~ Waits(p), Waits(p)',
           \A q \in Producers : q # p => Waits(q)' = Waits(q),
           tx[p] \in Transactions,
           ring' = Append(ring, [tx |-> tx[p], completion |-> p]), UNCHANGED <<writer, tx>>
    PROVE  HeldApart'
<1> DEFINE e == [tx |-> tx[p], completion |-> p]
           n == Len(ring)
<1>1. e \in Pending /\ e.completion = p /\ e.tx = tx[p] /\ ring' = Append(ring, e)
  BY DEF Pending
<1>2. ring \in Seq(Pending) /\ n \in Nat
      /\ \A i \in 1 .. n : ring[i].completion \in Producers
  BY RingOwners DEF Types
<1> HIDE DEF e
<1>3. Len(ring') = n + 1 /\ ring'[n + 1] = e /\ \A i \in 1 .. n : ring'[i] = ring[i]
  BY <1>1, <1>2
<1>4. \A i \in 1 .. n : ring[i].completion # p
  BY DEF HeldApart
<1>5. Busy => writer.request.completion \in Producers /\ writer.request.completion # p
  BY DEF HeldApart, Types, Pending
<1>6. \A i, j \in 1 .. n : ring[i].completion = ring[j].completion => i = j
  BY DEF HeldApart
<1>7. \A i \in 1 .. n : Waits(ring[i].completion) /\ ring[i].tx = tx[ring[i].completion]
  BY DEF HeldApart
<1>8. Busy => /\ Waits(writer.request.completion)
              /\ writer.request.tx = tx[writer.request.completion]
              /\ \A i \in 1 .. n : ring[i].completion # writer.request.completion
  BY DEF HeldApart
<1>9. \A q \in Producers : Waits(q) =>
        \/ \E i \in 1 .. n : ring[i].completion = q
        \/ Busy /\ writer.request.completion = q
  BY DEF HeldApart
<1> HIDE DEF n
<1>10. \A i \in 1 .. Len(ring') : i \in 1 .. n \/ i = n + 1
  BY <1>2, <1>3
<1>11. n + 1 \in 1 .. Len(ring') /\ \A i \in 1 .. n : i \in 1 .. Len(ring')
  BY <1>2, <1>3
<1>12. \A i, j \in 1 .. Len(ring') : ring'[i].completion = ring'[j].completion => i = j
  BY <1>1, <1>3, <1>4, <1>6, <1>10, Zenon
<1>13. \A i \in 1 .. Len(ring') :
         Waits(ring[i].completion)' /\ ring'[i].tx = tx'[ring'[i].completion]
  <2> TAKE i \in 1 .. Len(ring')
  <2>1. CASE i \in 1 .. n
    <3>1. ring'[i] = ring[i] /\ ring[i].completion \in Producers /\ ring[i].completion # p
      BY <1>2, <1>3, <1>4, <2>1
    <3> QED
      BY <1>7, <2>1, <3>1, Zenon
  <2>2. CASE i = n + 1
    BY <1>1, <1>3, <2>2, Zenon
  <2> QED
    BY <1>10, <2>1, <2>2
<1>14. Busy' <=> Busy
  BY DEF Busy
<1>15. Busy' => /\ Waits(writer.request.completion)'
                /\ writer'.request.tx = tx'[writer'.request.completion]
                /\ \A i \in 1 .. Len(ring') : ring'[i].completion # writer'.request.completion
  <2> SUFFICES ASSUME Busy'
               PROVE  /\ Waits(writer.request.completion)'
                      /\ writer'.request.tx = tx'[writer'.request.completion]
                      /\ \A i \in 1 .. Len(ring') : ring'[i].completion # writer'.request.completion
    OBVIOUS
  <2>1. Waits(writer.request.completion)'
    BY <1>5, <1>8, <1>14, Zenon
  <2>2. \A i \in 1 .. Len(ring') : ring'[i].completion # writer'.request.completion
    BY <1>1, <1>3, <1>5, <1>8, <1>10, <1>14, Zenon
  <2> QED
    BY <1>8, <1>14, <2>1, <2>2, SMTT(30)
<1>16. \A q \in Producers : Waits(q)' =>
         \/ \E i \in 1 .. Len(ring') : ring'[i].completion = q
         \/ Busy' /\ writer'.request.completion = q
  <2> SUFFICES ASSUME NEW q \in Producers, Waits(q)'
               PROVE  \/ \E i \in 1 .. Len(ring') : ring'[i].completion = q
                      \/ Busy' /\ writer'.request.completion = q
    OBVIOUS
  <2>1. CASE q = p
    BY <1>1, <1>3, <1>11, <2>1
  <2>2. CASE q # p
    <3>1. Waits(q)
      BY <2>2
    <3> QED
      BY <1>3, <1>9, <1>11, <1>14, <3>1, Zenon
  <2> QED
    BY <2>1, <2>2
<1> QED
  BY <1>12, <1>13, <1>15, <1>16, Zenon DEF HeldApart

HeldInv == Types /\ CompletionTypes /\ HeldApart

LEMMA HeldStep ==
    ASSUME HeldInv, [Next]_vars
    PROVE  CompletionTypes' /\ HeldApart'
<1>0. Types /\ CompletionTypes /\ HeldApart
  BY DEF HeldInv
<1> USE <1>0
<1>1. ASSUME UNCHANGED <<ring, pc, tx, completion>>, Busy' <=> Busy,
             Busy => writer'.request = writer.request
      PROVE  CompletionTypes' /\ HeldApart'
  <2>1. \A p \in Producers : Waits(p)' = Waits(p) /\ (Waits(p) => tx'[p] = tx[p])
    BY <1>1, SameWaits, Zenon
  <2>2. CompletionTypes'
    BY <1>1 DEF CompletionTypes
  <2>3. HeldApart'
    BY <1>1, <2>1, CalmHeld
  <2> QED
    BY <2>2, <2>3
<1>2. ASSUME NEW opening \in OpeningAccounts, AddAccount(opening)
      PROVE  CompletionTypes' /\ HeldApart'
  BY <1>1, <1>2 DEF AddAccount, producerVars, Busy
<1>3. ASSUME StartProducers \/ FlushBatch \/ UNCHANGED vars
      PROVE  CompletionTypes' /\ HeldApart'
  BY <1>1, <1>3 DEF StartProducers, FlushBatch, vars, producerVars, Busy
<1>4. ASSUME WalFlush \/ ApplyAndPublish PROVE CompletionTypes' /\ HeldApart'
  <2>1. /\ UNCHANGED <<ring, pc, tx, completion>>
        /\ writer.stage \in {"flush", "apply"}
        /\ \E s \in {"apply", "ack"} : writer' = [writer EXCEPT !.stage = s]
    BY <1>4 DEF WalFlush, ApplyAndPublish, producerVars
  <2>2. Busy /\ writer \in [stage : {"flush", "apply", "ack"}, request : Pending]
    BY <2>1, IdleWriter DEF Types
  <2>3. writer'.request = writer.request /\ writer'.stage \in {"apply", "ack"}
    BY <2>1, <2>2
  <2>4. Busy'
    BY <2>3, IdleWriter DEF Busy
  <2> QED
    BY <1>1, <2>1, <2>2, <2>3, <2>4
<1>5. ASSUME WalFlushFails \/ Acknowledge PROVE CompletionTypes' /\ HeldApart'
  <2>1. /\ UNCHANGED <<ring, pc, tx>> /\ writer' = NoRequest
        /\ writer.stage \in {"flush", "ack"}
        /\ \E error \in Errors : complete(writer.request.completion, error)
    BY <1>5 DEF WalFlushFails, Acknowledge, producerVars, Errors
  <2>2. Busy
    BY <2>1, IdleWriter
  <2>3. PICK h \in Producers : h = writer.request.completion
    BY <2>2 DEF Types, Pending
  <2>4. PICK error \in Errors : complete(h, error)
    BY <2>1, <2>3
  <2>5. CompletionTypes' /\ ~ Waits(h)' /\ \A q \in Producers : q # h => Waits(q)' = Waits(q)
    BY <2>1, <2>4, Answered
  <2>6. HeldApart'
    BY <2>1, <2>2, <2>3, <2>5, AnswerHeld, SMTT(30)
  <2> QED
    BY <2>5, <2>6
<1>6. ASSUME Reject \/ WalAppendFails PROVE CompletionTypes' /\ HeldApart'
  <2>1. /\ Take /\ UNCHANGED <<pc, writer>>
        /\ \E error \in Errors : complete(Head(ring).completion, error)
    BY <1>6, VerdictType, SMTT(30)
       DEF Reject, WalAppendFails, Dequeue, Take, Busy, producerVars, Errors
  <2>2. Head(ring) \in Pending
    BY <2>1, Dequeued DEF Take
  <2>3. PICK h \in Producers : h = Head(ring).completion
    BY <2>2 DEF Pending
  <2>4. PICK error \in Errors : complete(h, error)
    BY <2>1, <2>3
  <2>5. CompletionTypes' /\ ~ Waits(h)' /\ \A q \in Producers : q # h => Waits(q)' = Waits(q)
    BY <2>1, <2>4, Answered
  <2>6. HeldApart'
    BY <2>1, <2>3, <2>5, TakeHeld
  <2> QED
    BY <2>5, <2>6
<1>7. ASSUME WalAppend PROVE CompletionTypes' /\ HeldApart'
  <2>1. /\ Take /\ UNCHANGED <<pc, completion>> /\ writer'.request = Head(ring)
        /\ writer'.stage \in {"flush", "apply"}
    BY <1>7 DEF WalAppend, Dequeue, Take, Busy, producerVars
  <2>2. Busy'
    BY <2>1, IdleWriter DEF Busy
  <2>3. Head(ring) \in Pending
    BY <2>1, Dequeued DEF Take
  <2>4. PICK h \in Producers : h = Head(ring).completion
    BY <2>3 DEF Pending
  <2>5. \A p \in Producers : Waits(p)' = Waits(p)
    BY <2>1, SameWaits
  <2>6. HeldApart'
    BY <2>1, <2>2, <2>4, <2>5, TakeHeld
  <2> QED
    BY <2>1, <2>6, SMTT(30) DEF CompletionTypes
<1>8. ASSUME NEW p \in Producers, Allocate(p) \/ ObserveDone(p) \/ Finish(p)
      PROVE  CompletionTypes' /\ HeldApart'
  <2>1. UNCHANGED <<ring, writer>> /\ ~ Waits(p)
    BY <1>8, SMTT(30) DEF Allocate, ObserveDone, Finish, Waits
  <2>2. CompletionTypes'
    <3>1. Fresh \in [done : BOOLEAN, error : Errors]
      BY SMTT(30) DEF Fresh, Errors
    <3> QED
      BY <1>8, <3>1 DEF Allocate, ObserveDone, Finish, CompletionTypes
  <2>3. pc'[p] # "waiting" /\ \A q \in Producers : q # p =>
           pc'[q] = pc[q] /\ completion'[q] = completion[q] /\ tx'[q] = tx[q]
    BY <1>8 DEF Allocate, ObserveDone, Finish, Types, CompletionTypes
  <2>4. ~ Waits(p)'
    BY <2>3, Zenon DEF Waits
  <2>5. \A q \in Producers : Waits(q)' = Waits(q) /\ (Waits(q) => tx'[q] = tx[q])
    <3> TAKE q \in Producers
    <3>1. CASE q = p
      <4>1. Waits(q) \in BOOLEAN /\ Waits(q)' \in BOOLEAN
        BY Zenon DEF Waits
      <4> QED
        BY <2>1, <2>4, <3>1, <4>1, Zenon
    <3>2. CASE q # p
      BY <2>3, <3>2, Zenon DEF Waits
    <3> QED
      BY <3>1, <3>2
  <2>6. Busy' <=> Busy
    BY <2>1 DEF Busy
  <2>7. HeldApart'
    BY <2>1, <2>5, <2>6, CalmHeld
  <2> QED
    BY <2>2, <2>7
<1>9. ASSUME NEW p \in Producers, Submit(p) PROVE CompletionTypes' /\ HeldApart'
  <2>1. /\ UNCHANGED <<writer, tx>> /\ pc[p] = "allocated" /\ ~ Waits(p)
        /\ completion' = [completion EXCEPT ![p].done = FALSE]
    BY <1>9 DEF Submit, Waits
  <2>2. /\ CompletionTypes' /\ ~ completion'[p].done
        /\ \A q \in Producers : q # p => completion'[q] = completion[q]
    BY <2>1, Zenon DEF CompletionTypes
  <2>3. \A q \in Producers : q # p => pc'[q] = pc[q]
    BY <1>9 DEF Submit, Types
  <2>4. \A q \in Producers : q # p => Waits(q)' = Waits(q)
    BY <2>2, <2>3, Zenon DEF Waits
  <2>5. CASE ring' = Append(ring, [tx |-> tx[p], completion |-> p]) /\ pc'[p] = "waiting"
    <3>1. Waits(p)'
      BY <2>2, <2>5, Zenon DEF Waits
    <3>2. tx[p] \in Transactions
      BY <2>1 DEF Types
    <3>3. HeldApart'
      BY <2>1, <2>4, <2>5, <3>1, <3>2, SubmitHeld, SMTT(30)
    <3> QED
      BY <2>2, <3>3
  <2>6. CASE UNCHANGED ring /\ pc'[p] = "idle"
    <3>1. ~ Waits(p)'
      BY <2>6, Zenon DEF Waits
    <3>2. Waits(p)' = Waits(p)
      <4>1. Waits(p) \in BOOLEAN /\ Waits(p)' \in BOOLEAN
        BY Zenon DEF Waits
      <4> QED
        BY <2>1, <3>1, <4>1, Zenon
    <3>3. \A q \in Producers : Waits(q)' = Waits(q) /\ (Waits(q) => tx'[q] = tx[q])
      BY <2>1, <2>4, <3>2, Zenon
    <3>4. Busy' <=> Busy
      BY <2>1 DEF Busy
    <3>5. HeldApart'
      BY <2>1, <2>6, <3>3, <3>4, CalmHeld
    <3> QED
      BY <2>2, <3>5
  <2> QED
    BY <1>9, <2>5, <2>6 DEF Submit, Types
<1> QED
  BY <1>2, <1>3, <1>4, <1>5, <1>6, <1>7, <1>8, <1>9 DEF Next, Writer, Producer

\* No request is lost, queued twice or answered twice, and the writer never
\* writes to the completion of a producer that does not wait for it.
THEOREM AnsweredOnce == Spec => []HeldExactlyWhileWaiting
<1>1. Init => HeldInv
  BY InitHeld, InitTypes DEF HeldInv
<1>2. HeldInv /\ [Next]_vars => HeldInv'
  BY HeldStep, TypesStep DEF HeldInv
<1>3. HeldInv => HeldExactlyWhileWaiting
  BY ApartIsHeld DEF HeldInv
<1> QED
  BY <1>1, <1>2, <1>3, PTL DEF Spec

----------------------------------------------------------------------------
(* Readers see a recent commit. *)

IsSeq(s) == \E S : s \in Seq(S)

LEMMA Appended ==
    ASSUME NEW s, IsSeq(s), NEW e
    PROVE  /\ IsSeq(Append(s, e)) /\ Len(s) \in Nat
           /\ Len(Append(s, e)) = Len(s) + 1 /\ Append(s, e)[Len(s) + 1] = e
           /\ \A i \in 1 .. Len(s) : Append(s, e)[i] = s[i]
<1>1. PICK S : s \in Seq(S)
  BY DEF IsSeq
<1>2. s \in Seq(S \cup {e}) /\ e \in S \cup {e}
  BY <1>1
<1>3. Append(s, e) \in Seq(S \cup {e})
  BY <1>2
<1> QED
  BY <1>2, <1>3 DEF IsSeq

LEMMA Shortened ==
    ASSUME NEW s, IsSeq(s), Len(s) >= 1
    PROVE  /\ IsSeq(SubSeq(s, 1, Len(s) - 1)) /\ Len(s) \in Nat
           /\ Len(SubSeq(s, 1, Len(s) - 1)) = Len(s) - 1
           /\ \A i \in 1 .. Len(s) - 1 : SubSeq(s, 1, Len(s) - 1)[i] = s[i]
<1>1. PICK S : s \in Seq(S)
  BY DEF IsSeq
<1>2. Len(s) \in Nat /\ \A i \in 1 .. Len(s) - 1 : s[i] \in S
  BY <1>1
<1>3. PICK n \in 0 .. Len(s) : n = Len(s) - 1
  <2>1. Len(s) - 1 \in 0 .. Len(s)
    BY <1>2
  <2> QED
    BY <2>1, Zenon
<1>4. /\ SubSeq(s, 1, n) \in Seq(S) /\ Len(SubSeq(s, 1, n)) = n
      /\ \A i \in 1 .. n : SubSeq(s, 1, n)[i] = s[i]
  BY <1>1
<1> QED
  BY <1>2, <1>3, <1>4, SMTT(30) DEF IsSeq

\* How many commits readers have been shown.
Shown == Applied - processed_since_publish

\* The last entry of commits is there before it is applied.
CommitHistory ==
    /\ IsSeq(commits) /\ Len(commits) \in Nat
    /\ processed_since_publish \in Nat
    /\ Applied >= 1 /\ Shown >= 1
    /\ setup => Len(commits) = 1
    /\ writer.stage \in {"flush", "apply"} =>
          commits[Len(commits)].ledger = apply(working, writer.request.tx)

RecentInv ==
    /\ Types /\ NothingBeforeStart /\ CommitHistory
    /\ PublishedIsRecentCommit

LEMMA InitRecent == Init => CommitHistory /\ PublishedIsRecentCommit
<1> SUFFICES ASSUME Init PROVE CommitHistory /\ PublishedIsRecentCommit
  OBVIOUS
<1>1. /\ commits = <<[id |-> 0, ledger |-> EmptyLedgerState]>>
      /\ processed_since_publish = 0 /\ working = EmptyLedgerState /\ published = EmptyLedgerState
      /\ writer.stage = "idle"
  BY IdleWriter DEF Init
<1>2. IsSeq(commits) /\ Len(commits) = 1 /\ commits[1].ledger = EmptyLedgerState
  <2>1. commits \in Seq({[id |-> 0, ledger |-> EmptyLedgerState]})
    BY <1>1
  <2> QED
    BY <1>1, <2>1, Zenon DEF IsSeq
<1>3. Applied = 1 /\ Shown = 1
  BY <1>1, <1>2 DEF Applied, Shown
<1>4. CommitHistory
  BY <1>1, <1>2, <1>3 DEF CommitHistory
<1>5. PublishedIsRecentCommit
  <2>1. Applied - processed_since_publish = 1
    BY <1>3 DEF Shown
  <2>2. 0 < IF PublishEveryN = 0 THEN 1 ELSE PublishEveryN
    BY EngineAssumption
  <2> QED
    BY <1>1, <1>2, <1>3, <2>1, <2>2 DEF PublishedIsRecentCommit
<1> QED
  BY <1>4, <1>5

\* Steps that touch neither the commits up to the applied one nor the state.
LEMMA RecentKept ==
    ASSUME RecentInv, UNCHANGED <<working, published, processed_since_publish>>,
           Applied' = Applied, \A i \in 1 .. Applied : commits'[i] = commits[i]
    PROVE  PublishedIsRecentCommit' /\ Shown' = Shown
<1>1. /\ processed_since_publish \in Nat /\ Applied \in Int /\ Applied >= 1 /\ Shown >= 1
      /\ Shown = Applied - processed_since_publish
  BY DEF RecentInv, CommitHistory, Applied, Shown
<1>2. Applied \in 1 .. Applied /\ Shown \in 1 .. Applied
  BY <1>1
<1>3. Shown' = Shown
  BY DEF Shown
<1>4. commits'[Applied] = commits[Applied] /\ commits'[Shown] = commits[Shown]
  BY <1>2
<1>5. PublishedIsRecentCommit
  BY DEF RecentInv
<1> QED
  BY <1>3, <1>4, <1>5, SMTT(30) DEF PublishedIsRecentCommit, Shown

LEMMA RecentStep ==
    ASSUME RecentInv, [Next]_vars
    PROVE  CommitHistory' /\ PublishedIsRecentCommit'
<1>0. /\ Types /\ NothingBeforeStart /\ CommitHistory /\ PublishedIsRecentCommit
      /\ Len(commits) \in Nat /\ processed_since_publish \in Nat
      /\ Applied \in Int /\ Applied >= 1 /\ Shown >= 1 /\ Applied <= Len(commits)
      /\ Shown = Applied - processed_since_publish
  BY DEF RecentInv, CommitHistory, Applied, Shown
<1> USE <1>0
<1>1. ASSUME UNCHANGED <<setup, working, published, processed_since_publish, commits, writer>>
      PROVE  CommitHistory' /\ PublishedIsRecentCommit'
  <2>1. Applied' = Applied
    BY <1>1 DEF Applied
  <2>2. PublishedIsRecentCommit' /\ Shown' = Shown
    BY <1>1, <2>1, RecentKept, SMTT(30)
  <2> QED
    BY <1>1, <2>1, <2>2 DEF CommitHistory
<1>2. ASSUME NEW opening \in OpeningAccounts, AddAccount(opening)
      PROVE  CommitHistory' /\ PublishedIsRecentCommit'
  <2> DEFINE c == [id |-> 0, ledger |-> working']
  <2>1. /\ setup /\ UNCHANGED <<setup, published, processed_since_publish, writer>>
        /\ commits' = <<c>> /\ ~ Busy
    BY <1>2 DEF AddAccount, NothingBeforeStart
  <2>2. writer.stage = "idle"
    BY <2>1, IdleWriter DEF Busy
  <2>3. Len(commits) = 1 /\ Applied = 1 /\ processed_since_publish = 0
    BY <2>1, <2>2 DEF CommitHistory, Applied
  <2>4. IsSeq(commits') /\ Len(commits') = 1 /\ commits'[1].ledger = working'
    <3>1. c.ledger = working'
      OBVIOUS
    <3> HIDE DEF c
    <3>2. <<c>> \in Seq({c}) /\ Len(<<c>>) = 1 /\ <<c>>[1] = c
      OBVIOUS
    <3> QED
      BY <2>1, <3>1, <3>2, Zenon DEF IsSeq
  <2>5. Applied' = 1 /\ Shown' = 1 /\ Applied' - processed_since_publish' = 1
    BY <2>1, <2>2, <2>3, <2>4, SMTT(30) DEF Applied, Shown
  <2>6. published = EmptyLedgerState
    BY <2>3, SMTT(30) DEF PublishedIsRecentCommit
  <2>7. PublishedIsRecentCommit'
    BY <2>1, <2>4, <2>5, <2>6, SMTT(30) DEF PublishedIsRecentCommit
  <2> QED
    BY <2>1, <2>2, <2>3, <2>4, <2>5, <2>7, SMTT(30) DEF CommitHistory
<1>3. ASSUME StartProducers PROVE CommitHistory' /\ PublishedIsRecentCommit'
  <2>1. setup' = FALSE /\ UNCHANGED <<working, published, processed_since_publish, commits, writer>>
    BY <1>3 DEF StartProducers, stateVars
  <2>2. Applied' = Applied
    BY <2>1 DEF Applied
  <2>3. PublishedIsRecentCommit' /\ Shown' = Shown
    BY <2>1, <2>2, RecentKept, SMTT(30)
  <2> QED
    BY <2>1, <2>2, <2>3 DEF CommitHistory
<1>4. ASSUME WalAppend PROVE CommitHistory' /\ PublishedIsRecentCommit'
  <2> DEFINE c == [id |-> Head(ring).tx.id, ledger |-> apply(working, Head(ring).tx)]
  <2>1. /\ UNCHANGED <<setup, working, published, processed_since_publish>>
        /\ writer = NoRequest /\ writer'.stage \in {"flush", "apply"}
        /\ writer'.request = Head(ring) /\ commits' = Append(commits, c) /\ ring # <<>>
    BY <1>4, SMTT(30) DEF WalAppend, Dequeue, stateVars
  <2>2. c.ledger = apply(working', writer'.request.tx)
    BY <2>1, SMTT(30)
  <2> HIDE DEF c
  <2>3. /\ IsSeq(commits') /\ Len(commits') = Len(commits) + 1
        /\ commits'[Len(commits) + 1] = c
        /\ \A i \in 1 .. Len(commits) : commits'[i] = commits[i]
    BY <2>1, Appended, SMTT(30) DEF CommitHistory
  <2>4. Applied = Len(commits) /\ Applied' = Len(commits)
    BY <2>1, <2>3, IdleWriter, SMTT(30) DEF Applied
  <2>5. PublishedIsRecentCommit' /\ Shown' = Shown
    BY <2>1, <2>3, <2>4, RecentKept, SMTT(30)
  <2>6. ~ setup'
    BY <2>1 DEF NothingBeforeStart
  <2> QED
    BY <2>1, <2>2, <2>3, <2>4, <2>5, <2>6, SMTT(30) DEF CommitHistory
<1>5. ASSUME WalFlush PROVE CommitHistory' /\ PublishedIsRecentCommit'
  <2>1. /\ UNCHANGED <<setup, working, published, processed_since_publish, commits>>
        /\ writer.stage = "flush" /\ writer' = [writer EXCEPT !.stage = "apply"]
    BY <1>5 DEF WalFlush, stateVars
  <2>2. writer'.stage = "apply" /\ writer'.request = writer.request
    BY <2>1, IdleWriter DEF Types
  <2>3. Applied' = Applied
    BY <2>1, <2>2 DEF Applied
  <2>4. PublishedIsRecentCommit' /\ Shown' = Shown
    BY <2>1, <2>3, RecentKept, SMTT(30)
  <2> QED
    BY <2>1, <2>2, <2>3, <2>4 DEF CommitHistory
<1>6. ASSUME WalFlushFails PROVE CommitHistory' /\ PublishedIsRecentCommit'
  <2>1. /\ UNCHANGED <<setup, working, published, processed_since_publish>>
        /\ writer.stage = "flush" /\ writer' = NoRequest
        /\ commits' = SubSeq(commits, 1, Len(commits) - 1)
    BY <1>6, SMTT(30) DEF WalFlushFails, stateVars
  <2>2. /\ IsSeq(commits') /\ Len(commits') = Len(commits) - 1
        /\ \A i \in 1 .. Len(commits) - 1 : commits'[i] = commits[i]
    BY <2>1, Shortened DEF CommitHistory
  <2>3. Applied = Len(commits) - 1 /\ Applied' = Len(commits) - 1
    BY <2>1, <2>2, IdleWriter DEF Applied
  <2>4. PublishedIsRecentCommit' /\ Shown' = Shown
    BY <2>1, <2>2, <2>3, RecentKept
  <2>5. ~ setup'
    BY <2>1, IdleWriter DEF NothingBeforeStart, Busy
  <2> QED
    BY <2>1, <2>2, <2>3, <2>4, <2>5, IdleWriter, SMTT(30) DEF CommitHistory
<1>7. ASSUME ApplyAndPublish PROVE CommitHistory' /\ PublishedIsRecentCommit'
  <2>1. /\ UNCHANGED <<setup, commits>> /\ writer.stage = "apply"
        /\ working' = apply(working, writer.request.tx) /\ Publish
        /\ writer' = [writer EXCEPT !.stage = "ack"]
    BY <1>7 DEF ApplyAndPublish
  <2>2. writer'.stage = "ack"
    BY <2>1, IdleWriter DEF Types
  <2>3. /\ Applied = Len(commits) - 1 /\ Applied' = Len(commits)
        /\ working' = commits'[Applied'].ledger
    BY <2>1, <2>2 DEF Applied, CommitHistory
  <2>4. CASE processed_since_publish + 1 >= PublishEveryN
    <3>1. published' = working' /\ processed_since_publish' = 0
      BY <2>1, <2>4 DEF Publish
    <3>2. /\ Shown' = Len(commits) /\ Applied' - processed_since_publish' = Len(commits)
          /\ Len(commits) # 1 /\ Shown' >= 1
      BY <2>3, <3>1 DEF Shown
    <3>3. processed_since_publish' < IF PublishEveryN = 0 THEN 1 ELSE PublishEveryN
      BY <3>1, EngineAssumption
    <3>4. PublishedIsRecentCommit'
      BY <2>3, <3>1, <3>2, <3>3 DEF PublishedIsRecentCommit
    <3> QED
      BY <2>1, <2>2, <2>3, <3>1, <3>2, <3>4 DEF CommitHistory
  <2>5. CASE ~ (processed_since_publish + 1 >= PublishEveryN)
    <3>1. published' = published /\ processed_since_publish' = processed_since_publish + 1
      BY <2>1, <2>5 DEF Publish
    <3>2. Shown' = Shown /\ Applied' - processed_since_publish' = Applied - processed_since_publish
      BY <2>3, <3>1 DEF Shown
    <3>3. processed_since_publish' < IF PublishEveryN = 0 THEN 1 ELSE PublishEveryN
      BY <2>5, <3>1, EngineAssumption
    <3>4. PublishedIsRecentCommit'
      BY <2>1, <2>3, <3>1, <3>2, <3>3, SMTT(30) DEF PublishedIsRecentCommit
    <3> QED
      BY <2>1, <2>2, <2>3, <3>1, <3>2, <3>4 DEF CommitHistory
  <2> QED
    BY <2>4, <2>5
<1>8. ASSUME Acknowledge PROVE CommitHistory' /\ PublishedIsRecentCommit'
  <2>1. /\ UNCHANGED <<setup, working, published, processed_since_publish, commits>>
        /\ writer.stage = "ack" /\ writer'.stage = "idle"
    BY <1>8, IdleWriter DEF Acknowledge, stateVars
  <2>2. Applied' = Applied
    BY <2>1 DEF Applied
  <2>3. PublishedIsRecentCommit' /\ Shown' = Shown
    BY <2>1, <2>2, RecentKept, SMTT(30)
  <2> QED
    BY <2>1, <2>2, <2>3 DEF CommitHistory
<1>9. ASSUME Reject \/ WalAppendFails \/ FlushBatch \/ UNCHANGED vars
      PROVE  CommitHistory' /\ PublishedIsRecentCommit'
  BY <1>1, <1>9 DEF Reject, WalAppendFails, FlushBatch, vars, stateVars
<1>10. ASSUME NEW p \in Producers, Producer(p) PROVE CommitHistory' /\ PublishedIsRecentCommit'
  BY <1>1, <1>10 DEF Producer, Allocate, Submit, ObserveDone, Finish, stateVars
<1> QED
  BY <1>2, <1>3, <1>4, <1>5, <1>6, <1>7, <1>8, <1>9, <1>10, SMTT(30) DEF Next, Writer

\* Readers see a state between two commits never, and one that is
\* publish_snapshot_every_n commits old or older never.
THEOREM ReadersSeeRecentCommit == Spec => []PublishedIsRecentCommit
<1>1. Init => RecentInv
  BY InitRecent, InitTypes DEF RecentInv
<1>2. RecentInv /\ [Next]_vars => RecentInv'
  BY RecentStep, TypesStep, NothingBeforeStartStep DEF RecentInv
<1>3. RecentInv => PublishedIsRecentCommit
  BY DEF RecentInv
<1> QED
  BY <1>1, <1>2, <1>3, PTL DEF Spec

----------------------------------------------------------------------------
(* The keys that are remembered. *)

\* The key was used after call l.
After(calls, l, key) == \E k \in l + 1 .. Len(calls) : calls[k].key = key

\* The i-th key was last used when i - 1 others were to follow; a key that is
\* not remembered was last used before all those that are.
Recent(lru, calls, capacity) ==
    /\ IsSeq(lru) /\ Len(lru) \in 0 .. capacity
    /\ \A x, y \in 1 .. Len(lru) : lru[x] = lru[y] => x = y
    /\ \A i \in 1 .. Len(lru) : \E l \in 1 .. Len(calls) :
          /\ calls[l].key = lru[i]
          /\ \A key : After(calls, l, key) <=> \E x \in 1 .. i - 1 : lru[x] = key
    /\ \A l \in 1 .. Len(calls) :
          \/ Contains(lru, calls[l].key)
          \/ Len(lru) = capacity /\ \A x \in 1 .. capacity : After(calls, l, lru[x])

\* What check_and_insert does to the list: the keys before place move down.
Promoted(lru, key, capacity, place, new) ==
    /\ IsSeq(new) /\ Len(new) \in 0 .. capacity /\ place \in 1 .. Len(new)
    /\ new[1] = key
    /\ \A x \in 1 .. place - 1 : x \in 1 .. Len(lru) /\ new[x + 1] = lru[x] /\ lru[x] # key
    /\ \A x \in place + 1 .. Len(new) : x \in 1 .. Len(lru) /\ new[x] = lru[x] /\ lru[x] # key
    /\ \/ place \in 1 .. Len(lru) /\ lru[place] = key /\ Len(new) = Len(lru)
       \/ ~ Contains(lru, key) /\ place = Len(lru) + 1 /\ Len(new) = place
       \/ ~ Contains(lru, key) /\ place = Len(lru) /\ Len(new) = place /\ place = capacity

LEMMA Remembered ==
    ASSUME NEW lru, NEW calls, NEW capacity \in Nat \ {0}, Recent(lru, calls, capacity), NEW key
    PROVE  \E place : Promoted(lru, key, capacity, place, Remember(lru, key, capacity))
<1> DEFINE n == Len(lru)
           place == Place(lru, key, capacity)
           m == IF place > n THEN place ELSE n
           new == Remember(lru, key, capacity)
<1>1. IsSeq(lru) /\ n \in 0 .. capacity /\ \A x, y \in 1 .. n : lru[x] = lru[y] => x = y
  BY Zenon DEF Recent
<1>2. \/ place \in 1 .. n /\ lru[place] = key
      \/ ~ Contains(lru, key) /\ place = n + 1 /\ n < capacity
      \/ ~ Contains(lru, key) /\ place = n /\ place = capacity
  <2>1. CASE Contains(lru, key)
    <3>1. place = CHOOSE i \in 1 .. n : lru[i] = key
      BY <2>1, Zenon DEF Place
    <3>2. \E i \in 1 .. n : lru[i] = key
      BY <2>1, Zenon DEF Contains
    <3> QED
      BY <3>1, <3>2, Zenon
  <2>2. CASE ~ Contains(lru, key)
    <3>1. place = IF n < capacity THEN n + 1 ELSE capacity
      BY <2>2, Zenon DEF Place
    <3>2. n < capacity \/ (n = capacity /\ ~ (n < capacity))
      BY <1>1
    <3> QED
      BY <2>2, <3>1, <3>2, Zenon
  <2> QED
    BY <2>1, <2>2
<1>3. new = [i \in 1 .. m |-> IF i = 1 THEN key ELSE IF i <= place THEN lru[i - 1] ELSE lru[i]]
  BY Zenon DEF Remember
<1> HIDE DEF n, place, new
<1>4. /\ m \in 0 .. capacity /\ place \in 1 .. m
      /\ \A x \in 1 .. place - 1 : x \in 1 .. n /\ x + 1 \in 1 .. m /\ x + 1 # 1 /\ x + 1 <= place /\ (x + 1) - 1 = x
      /\ \A x \in place + 1 .. m : x \in 1 .. n /\ x \in 1 .. m /\ x # 1 /\ ~ (x <= place)
      /\ m \in Nat
  BY <1>1, <1>2
<1>5. \/ place \in 1 .. n /\ lru[place] = key /\ m = n
      \/ ~ Contains(lru, key) /\ place = n + 1 /\ m = place
      \/ ~ Contains(lru, key) /\ place = n /\ m = place /\ place = capacity
  BY <1>1, <1>2
<1>6. \A x \in 1 .. n : x # place => lru[x] # key
  BY <1>1, <1>2, Zenon DEF Contains, n
<1> HIDE DEF m
<1>7. IsSeq(new) /\ Len(new) = m /\ DOMAIN new = 1 .. m
  <2> DEFINE S == {new[i] : i \in 1 .. m}
  <2>1. DOMAIN new = 1 .. m /\ new = [i \in 1 .. m |-> new[i]]
    BY <1>3
  <2>2. \A i \in 1 .. m : new[i] \in S
    OBVIOUS
  <2> HIDE DEF S
  <2>3. new \in [1 .. m -> S]
    BY <2>1, <2>2
  <2>4. new \in Seq(S) /\ Len(new) = m
    BY <1>4, <2>3
  <2> QED
    BY <2>1, <2>4, Zenon DEF IsSeq
<1>8. \A i \in 1 .. m : new[i] = IF i = 1 THEN key ELSE IF i <= place THEN lru[i - 1] ELSE lru[i]
  BY <1>3, Zenon
<1>9. new[1] = key
  <2>1. 1 \in 1 .. m
    BY <1>4
  <2> QED
    BY <1>8, <2>1, Zenon
<1>10. \A x \in 1 .. place - 1 : x \in 1 .. n /\ new[x + 1] = lru[x] /\ lru[x] # key
  <2> TAKE x \in 1 .. place - 1
  <2>1. /\ x \in 1 .. n /\ x + 1 \in 1 .. m /\ x + 1 # 1 /\ x + 1 <= place /\ (x + 1) - 1 = x /\ x # place
    BY <1>4
  <2>2. new[x + 1] = lru[x]
    BY <1>8, <2>1, Zenon
  <2> QED
    BY <1>6, <2>1, <2>2, Zenon
<1>11. \A x \in place + 1 .. m : x \in 1 .. n /\ new[x] = lru[x] /\ lru[x] # key
  <2> TAKE x \in place + 1 .. m
  <2>1. x \in 1 .. n /\ x \in 1 .. m /\ x # 1 /\ ~ (x <= place) /\ x # place
    BY <1>4
  <2>2. new[x] = lru[x]
    BY <1>8, <2>1, Zenon
  <2> QED
    BY <1>6, <2>1, <2>2, Zenon
<1>12. Promoted(lru, key, capacity, place, new)
  BY <1>4, <1>5, <1>7, <1>9, <1>10, <1>11, Zenon DEF Promoted, n
<1> QED
  BY <1>12, Zenon DEF new

\* One more call.
Longer(calls, call, more) ==
    /\ IsSeq(more) /\ Len(calls) \in Nat /\ Len(more) = Len(calls) + 1
    /\ more[Len(calls) + 1] = call
    /\ \A l \in 1 .. Len(calls) : more[l] = calls[l]
    /\ \A l \in 1 .. Len(calls) : \A k : After(more, l, k) <=> k = call.key \/ After(calls, l, k)
    /\ \A k : ~ After(more, Len(calls) + 1, k)

LEMMA CallAdded ==
    ASSUME NEW calls, IsSeq(calls), NEW call, NEW more, more = Append(calls, call)
    PROVE  Longer(calls, call, more)
<1> DEFINE n == Len(calls)
<1>1. /\ IsSeq(more) /\ n \in Nat /\ Len(more) = n + 1 /\ more[n + 1] = call
      /\ \A l \in 1 .. n : more[l] = calls[l]
  BY Appended
<1> HIDE DEF n
<1>2. \A l \in 1 .. n : \A k : After(more, l, k) <=> k = call.key \/ After(calls, l, k)
  <2> SUFFICES ASSUME NEW l \in 1 .. n, NEW k
               PROVE  After(more, l, k) <=> k = call.key \/ After(calls, l, k)
    BY Zenon
  <2>1. /\ n + 1 \in l + 1 .. Len(more)
        /\ \A x \in l + 1 .. Len(more) : x = n + 1 \/ (x \in l + 1 .. n /\ x \in 1 .. n)
        /\ \A x \in l + 1 .. n : x \in l + 1 .. Len(more) /\ x \in 1 .. n
    BY <1>1
  <2> QED
    BY <1>1, <2>1, Zenon DEF After, n
<1>3. \A k : ~ After(more, n + 1, k)
  <2>1. \A x \in (n + 1) + 1 .. Len(more) : FALSE
    BY <1>1
  <2> QED
    BY <2>1, Zenon DEF After
<1> QED
  BY <1>1, <1>2, <1>3, Zenon DEF n, Longer

LEMMA RecentKeys ==
    ASSUME NEW lru, NEW calls, NEW capacity \in Nat \ {0}, Recent(lru, calls, capacity),
           IsSeq(calls), NEW key, NEW call, call.key = key,
           NEW new, new = Remember(lru, key, capacity), NEW more, more = Append(calls, call)
    PROVE  Recent(new, more, capacity)
<1> DEFINE n == Len(lru)
           c == Len(calls)
           m == Len(new)
<1>1. /\ IsSeq(lru) /\ n \in 0 .. capacity
      /\ \A x, y \in 1 .. n : lru[x] = lru[y] => x = y
      /\ \A i \in 1 .. n : \E l \in 1 .. c :
            /\ calls[l].key = lru[i]
            /\ \A k : After(calls, l, k) <=> \E x \in 1 .. i - 1 : lru[x] = k
      /\ \A l \in 1 .. c :
            \/ Contains(lru, calls[l].key)
            \/ n = capacity /\ \A x \in 1 .. capacity : After(calls, l, lru[x])
  BY Zenon DEF Recent
<1>2. /\ IsSeq(more) /\ c \in Nat /\ Len(more) = c + 1 /\ more[c + 1] = call
      /\ \A l \in 1 .. c : more[l] = calls[l]
      /\ \A l \in 1 .. c : \A k : After(more, l, k) <=> k = key \/ After(calls, l, k)
      /\ \A k : ~ After(more, c + 1, k)
  <2>1. Longer(calls, call, more)
    BY CallAdded, Zenon
  <2> QED
    BY <2>1, Zenon DEF Longer
<1>3. PICK place : Promoted(lru, key, capacity, place, new)
  BY Remembered, Zenon
<1>4. /\ IsSeq(new) /\ m \in 0 .. capacity /\ place \in 1 .. m /\ new[1] = key
      /\ \A x \in 1 .. place - 1 : x \in 1 .. n /\ new[x + 1] = lru[x] /\ lru[x] # key
      /\ \A x \in place + 1 .. m : x \in 1 .. n /\ new[x] = lru[x] /\ lru[x] # key
      /\ \/ place \in 1 .. n /\ lru[place] = key /\ m = n
         \/ ~ Contains(lru, key) /\ place = n + 1 /\ m = place
         \/ ~ Contains(lru, key) /\ place = n /\ m = place /\ place = capacity
  BY <1>3, Zenon DEF Promoted
<1> HIDE DEF n, c, m
<1>40. /\ m \in Nat /\ m <= capacity /\ place \in 1 .. m /\ n \in Nat /\ n <= capacity
       /\ \/ place \in 1 .. n /\ lru[place] = key /\ m = n
          \/ place = n + 1 /\ m = place
          \/ place = n /\ m = place /\ place = capacity
  <2>1. \/ place \in 1 .. n /\ lru[place] = key /\ m = n
        \/ place = n + 1 /\ m = place
        \/ place = n /\ m = place /\ place = capacity
    BY <1>4, Zenon
  <2>2. m \in 0 .. capacity /\ place \in 1 .. m /\ n \in 0 .. capacity
    BY <1>1, <1>4, Zenon
  <2> QED
    BY <2>1, <2>2
\* Where a key of the new list comes from.
<1>5. \A x \in 1 .. m : \/ x = 1 /\ new[x] = key
                        \/ x \in 2 .. place /\ x - 1 \in 1 .. n /\ new[x] = lru[x - 1] /\ lru[x - 1] # key
                        \/ x \in place + 1 .. m /\ x \in 1 .. n /\ new[x] = lru[x] /\ lru[x] # key
  <2> TAKE x \in 1 .. m
  <2>1. CASE x = 1
    BY <1>4, <2>1
  <2>2. CASE x \in 2 .. place
    <3>1. x - 1 \in 1 .. place - 1 /\ (x - 1) + 1 = x
      BY <1>4, <2>2
    <3>2. x - 1 \in 1 .. n /\ new[(x - 1) + 1] = lru[x - 1] /\ lru[x - 1] # key
      BY <1>4, <3>1, Zenon
    <3> QED
      BY <2>2, <3>1, <3>2, ZenonT(30)
  <2>3. CASE x \in place + 1 .. m
    BY <1>4, <2>3, Zenon
  <2>4. x = 1 \/ x \in 2 .. place \/ x \in place + 1 .. m
    BY <1>4
  <2> QED
    BY <2>1, <2>2, <2>3, <2>4, Zenon
<1>6. ASSUME NEW x \in 1 .. m, NEW y \in 1 .. m, new[x] = new[y] PROVE x = y
  <2>1. \A u, v \in 1 .. n : lru[u] = lru[v] => u = v
    BY <1>1, Zenon
  <2>2. CASE x = 1 \/ y = 1
    <3>1. \A u \in 1 .. m : new[u] = key => u = 1
      BY <1>5, Zenon
    <3>2. new[1] = key
      BY <1>4, Zenon
    <3> QED
      BY <1>6, <2>2, <3>1, <3>2, Zenon
  <2>4. CASE x \in 2 .. place /\ y \in 2 .. place
    <3>1. x - 1 = y - 1
      <4>1. /\ x # 1 /\ x \notin place + 1 .. m /\ y # 1 /\ y \notin place + 1 .. m
        BY <1>4, <2>4
      <4>2. x - 1 \in 1 .. n /\ new[x] = lru[x - 1]
        BY <1>5, <4>1, Zenon
      <4>3. y - 1 \in 1 .. n /\ new[y] = lru[y - 1]
        BY <1>5, <4>1, Zenon
      <4> QED
        BY <1>6, <2>1, <4>2, <4>3, Zenon
    <3> QED
      BY <3>1
  <2>5. CASE x \in place + 1 .. m /\ y \in place + 1 .. m
    <3>1. /\ x # 1 /\ x \notin 2 .. place /\ y # 1 /\ y \notin 2 .. place
      BY <1>4, <2>5
    <3>2. x \in 1 .. n /\ new[x] = lru[x]
      BY <1>5, <3>1, Zenon
    <3>3. y \in 1 .. n /\ new[y] = lru[y]
      BY <1>5, <3>1, Zenon
    <3> QED
      BY <1>6, <2>1, <3>2, <3>3, Zenon
  <2>6. ASSUME NEW u \in 2 .. place, NEW v \in place + 1 .. m, new[u] = new[v] PROVE FALSE
    <3>1. /\ u \in 1 .. m /\ u # 1 /\ u \notin place + 1 .. m
          /\ v \in 1 .. m /\ v # 1 /\ v \notin 2 .. place
      BY <1>4, <2>6
    <3>2. u - 1 = v
      <4>1. u - 1 \in 1 .. n /\ new[u] = lru[u - 1]
        BY <1>5, <3>1, Zenon
      <4>2. v \in 1 .. n /\ new[v] = lru[v]
        BY <1>5, <3>1, ZenonT(30)
      <4> QED
        BY <2>1, <2>6, <4>1, <4>2, Zenon
    <3> QED
      BY <1>4, <2>6, <3>2
  <2>7. /\ x = 1 \/ x \in 2 .. place \/ x \in place + 1 .. m
        /\ y = 1 \/ y \in 2 .. place \/ y \in place + 1 .. m
    BY <1>4
  <2> QED
    BY <1>6, <2>2, <2>4, <2>5, <2>6, <2>7, Zenon
<1>7. ASSUME NEW i \in 1 .. m
      PROVE  \E l \in 1 .. c + 1 :
                /\ more[l].key = new[i]
                /\ \A k : After(more, l, k) <=> \E x \in 1 .. i - 1 : new[x] = k
  <2>1. CASE i = 1
    <3>1. c + 1 \in 1 .. c + 1 /\ \A x \in 1 .. i - 1 : FALSE
      BY <1>2, <2>1
    <3> QED
      BY <1>2, <1>4, <2>1, <3>1, Zenon
  <2>2. CASE i \in 2 .. place
    <3>1. /\ i - 1 \in 1 .. place - 1 /\ (i - 1) + 1 = i
          /\ 1 \in 1 .. i - 1
          /\ \A x \in 1 .. (i - 1) - 1 : x \in 1 .. place - 1 /\ x + 1 \in 1 .. i - 1
          /\ \A x \in 1 .. i - 1 : x = 1 \/ (x - 1 \in 1 .. (i - 1) - 1 /\ (x - 1) + 1 = x /\ x - 1 \in 1 .. place - 1)
      BY <1>4, <2>2
    <3>2. i - 1 \in 1 .. n /\ new[i] = lru[i - 1]
      BY <1>4, <3>1, Zenon
    <3>3. PICK l \in 1 .. c : /\ calls[l].key = lru[i - 1]
                              /\ \A k : After(calls, l, k) <=> \E x \in 1 .. (i - 1) - 1 : lru[x] = k
      BY <1>1, <3>2, Zenon
    <3>4. l \in 1 .. c + 1
      BY <1>2
    <3>5. ASSUME NEW k PROVE After(more, l, k) <=> \E x \in 1 .. i - 1 : new[x] = k
      <4>1. ASSUME k = key PROVE \E x \in 1 .. i - 1 : new[x] = k
        BY <1>4, <3>1, <4>1, Zenon
      <4>2. ASSUME NEW x \in 1 .. (i - 1) - 1, lru[x] = k PROVE \E y \in 1 .. i - 1 : new[y] = k
        BY <1>4, <3>1, <4>2, Zenon
      <4>3. ASSUME NEW x \in 1 .. i - 1, new[x] = k
            PROVE  k = key \/ \E y \in 1 .. (i - 1) - 1 : lru[y] = k
        BY <1>4, <3>1, <4>3, Zenon
      <4> QED
        BY <1>2, <3>3, <4>1, <4>2, <4>3, Zenon
    <3> QED
      BY <1>2, <3>2, <3>3, <3>4, <3>5, Zenon
  <2>3. CASE i \in place + 1 .. m
    <3>1. i \in 1 .. n /\ new[i] = lru[i]
      BY <1>4, <2>3, Zenon
    <3>2. PICK l \in 1 .. c : /\ calls[l].key = lru[i]
                              /\ \A k : After(calls, l, k) <=> \E x \in 1 .. i - 1 : lru[x] = k
      BY <1>1, <3>1, Zenon
    <3>3. l \in 1 .. c + 1 /\ place \in 1 .. i - 1 /\ 1 \in 1 .. i - 1 /\ lru[place] = key
      <4>1. c \in Nat
        BY <1>2, Zenon
      <4> QED
        BY <1>40, <2>3, <4>1
    <3>4. \A x \in 1 .. i - 1 : /\ x \in 1 .. place - 1 \/ x = place \/ x \in place + 1 .. m
                                /\ x \in 1 .. place - 1 => x + 1 \in 1 .. i - 1
                                /\ x = 1 \/ x \in 2 .. place \/ x \in place + 1 .. m
                                /\ x \in 2 .. place => x - 1 \in 1 .. place - 1 /\ x - 1 \in 1 .. i - 1 /\ (x - 1) + 1 = x
      BY <1>40, <2>3
    <3>5. ASSUME NEW k PROVE After(more, l, k) <=> \E x \in 1 .. i - 1 : new[x] = k
      <4>1. ASSUME k = key PROVE \E x \in 1 .. i - 1 : new[x] = k
        BY <1>4, <3>3, <4>1, Zenon
      <4>2. ASSUME NEW x \in 1 .. i - 1, lru[x] = k PROVE \E y \in 1 .. i - 1 : new[y] = k
        BY <1>4, <3>3, <3>4, <4>2, Zenon
      <4>3. ASSUME NEW x \in 1 .. i - 1, new[x] = k
            PROVE  k = key \/ \E y \in 1 .. i - 1 : lru[y] = k
        BY <1>4, <3>4, <4>3, Zenon
      <4> QED
        BY <1>2, <3>2, <4>1, <4>2, <4>3, Zenon
    <3> QED
      BY <1>2, <3>1, <3>2, <3>3, <3>5, Zenon
  <2>4. i = 1 \/ i \in 2 .. place \/ i \in place + 1 .. m
    BY <1>4
  <2> QED
    BY <2>1, <2>2, <2>3, <2>4, Zenon
<1>8. ASSUME NEW l \in 1 .. c + 1
      PROVE  \/ Contains(new, more[l].key)
             \/ m = capacity /\ \A x \in 1 .. capacity : After(more, l, new[x])
  <2>1. CASE l = c + 1
    <3>1. 1 \in 1 .. m
      BY <1>4
    <3> QED
      BY <1>2, <1>4, <2>1, <3>1, Zenon DEF Contains, m
  <2>2. ASSUME l \in 1 .. c, NEW x \in 1 .. n, lru[x] = calls[l].key
        PROVE  \/ Contains(new, more[l].key)
               \/ m = capacity /\ \A y \in 1 .. capacity : After(more, l, new[y])
    <3>1. more[l].key = lru[x]
      BY <1>2, <2>2, Zenon
    <3>2. CASE x \in 1 .. place - 1
      <4>1. x + 1 \in 1 .. m
        BY <1>4, <3>2
      <4>2. new[x + 1] = lru[x]
        BY <1>4, <3>2, Zenon
      <4> QED
        BY <3>1, <4>1, <4>2, Zenon DEF Contains, m
    <3>3. CASE x \in place + 1 .. m
      <4>1. x \in 1 .. m
        BY <1>4, <3>3
      <4> QED
        BY <1>4, <3>1, <3>3, <4>1, Zenon DEF Contains, m
    <3>4. CASE x = place /\ lru[place] = key
      <4>1. 1 \in 1 .. m
        BY <1>4
      <4> QED
        BY <1>4, <3>1, <3>4, <4>1, Zenon DEF Contains, m
    <3>5. CASE x = place /\ place = n /\ m = place /\ place = capacity
      <4>1. PICK last \in 1 .. c :
               /\ calls[last].key = lru[x]
               /\ \A k : After(calls, last, k) <=> \E y \in 1 .. x - 1 : lru[y] = k
        BY <1>1, Zenon
      <4>2. l <= last
        <5>1. SUFFICES ASSUME ~ (l <= last) PROVE FALSE
          OBVIOUS
        <5>2. l \in last + 1 .. c
          BY <1>2, <2>2, <5>1
        <5>3. After(calls, last, lru[x])
          BY <2>2, <5>2, Zenon DEF After, c
        <5>4. PICK y \in 1 .. x - 1 : lru[y] = lru[x]
          BY <4>1, <5>3, ZenonT(30)
        <5>5. y \in 1 .. n /\ y # x
          BY <1>1
        <5> QED
          BY <1>1, <5>4, <5>5, Zenon
      <4>3. \A k : After(calls, last, k) => After(calls, l, k)
        <5>1. \A y \in last + 1 .. c : y \in l + 1 .. c
          BY <1>2, <2>2, <4>2
        <5> QED
          BY <5>1, ZenonT(30) DEF After, c
      <4>4. ASSUME NEW y \in 1 .. capacity PROVE After(more, l, new[y])
        <5>1. y \in 1 .. m /\ y \notin place + 1 .. m /\ (y \in 2 .. place => y - 1 \in 1 .. x - 1)
          BY <1>4, <3>5
        <5>2. new[y] = key \/ (y \in 2 .. place /\ new[y] = lru[y - 1])
          BY <1>5, <5>1, Zenon
        <5>3. new[y] # key => After(calls, l, new[y])
          BY <4>1, <4>3, <5>1, <5>2, ZenonT(30)
        <5> QED
          BY <1>2, <2>2, <5>3, ZenonT(30)
      <4> QED
        BY <3>5, <4>4, Zenon
    <3>6. \/ x \in 1 .. place - 1
          \/ x \in place + 1 .. m
          \/ x = place /\ lru[place] = key
          \/ x = place /\ place = n /\ m = place /\ place = capacity
      BY <1>40
    <3> QED
      BY <3>2, <3>3, <3>4, <3>5, <3>6, Zenon
  <2>3. ASSUME l \in 1 .. c, n = capacity, \A x \in 1 .. capacity : After(calls, l, lru[x])
        PROVE  m = capacity /\ \A x \in 1 .. capacity : After(more, l, new[x])
    <3>0. n = capacity
      BY <2>3, Zenon
    <3>1. m = capacity
      BY <1>40, <3>0
    <3>2. ASSUME NEW x \in 1 .. capacity PROVE new[x] = key \/ After(calls, l, new[x])
      BY <1>5, <2>3, <3>1, Zenon
    <3> QED
      BY <1>2, <2>3, <3>1, <3>2, Zenon
  <2>4. l = c + 1 \/ l \in 1 .. c
    BY <1>2
  <2> QED
    BY <1>1, <2>1, <2>2, <2>3, <2>4, Zenon DEF Contains, n
<1> QED
  <2>1. Len(more) = c + 1
    BY <1>2, Zenon
  <2>2. \A i \in 1 .. m : \E l \in 1 .. Len(more) :
           /\ more[l].key = new[i]
           /\ \A k : After(more, l, k) <=> \E x \in 1 .. i - 1 : new[x] = k
    BY <1>7, <2>1, Zenon
  <2>3. \A l \in 1 .. Len(more) :
           \/ Contains(new, more[l].key)
           \/ m = capacity /\ \A x \in 1 .. capacity : After(more, l, new[x])
    BY <1>8, <2>1, Zenon
  <2>4. IsSeq(new) /\ m \in 0 .. capacity
    BY <1>4, Zenon
  <2> QED
    BY <1>6, <2>2, <2>3, <2>4, Zenon DEF Recent, m

KeysInv == IsSeq(popped) /\ Recent(idempotency, popped, IdempotencyCapacity)

LEMMA KeysSteps == [Next]_vars => UNCHANGED <<idempotency, popped>> \/ Dequeue
<1>1. (\E opening \in OpeningAccounts : AddAccount(opening)) \/ StartProducers \/ UNCHANGED vars
        => UNCHANGED <<idempotency, popped>>
  BY Zenon DEF AddAccount, StartProducers, vars
<1>2. (\E p \in Producers : Producer(p)) => UNCHANGED <<idempotency, popped>>
  BY Zenon DEF Producer, Allocate, Submit, ObserveDone, Finish
<1>3. Reject \/ WalAppend \/ WalAppendFails => Dequeue
  BY Zenon DEF Reject, WalAppend, WalAppendFails
<1>4. WalFlush \/ WalFlushFails \/ ApplyAndPublish \/ Acknowledge \/ FlushBatch
        => UNCHANGED <<idempotency, popped>>
  BY Zenon DEF WalFlush, WalFlushFails, ApplyAndPublish, Acknowledge, FlushBatch
<1> QED
  BY <1>1, <1>2, <1>3, <1>4, Zenon DEF Next, Writer

LEMMA KeysStep ==
    ASSUME KeysInv, [Next]_vars
    PROVE  KeysInv'
<1>1. CASE UNCHANGED <<idempotency, popped>>
  BY <1>1, Zenon DEF KeysInv
<1>2. CASE Dequeue
  <2> DEFINE key == Head(ring).tx.key
             call == [key |-> key, duplicate |-> Contains(idempotency, key)]
  <2>1. /\ idempotency' = Remember(idempotency, key, IdempotencyCapacity)
        /\ popped' = Append(popped, call) /\ call.key = key
    BY <1>2, Zenon DEF Dequeue
  <2> HIDE DEF key, call
  <2>2. IdempotencyCapacity \in Nat \ {0} /\ IsSeq(popped)
        /\ Recent(idempotency, popped, IdempotencyCapacity)
    BY EngineAssumption, Zenon DEF KeysInv
  <2>3. IsSeq(popped')
    BY <2>1, <2>2, Appended
  <2>4. Recent(idempotency', popped', IdempotencyCapacity)
    BY <2>1, <2>2, RecentKeys, Zenon
  <2> QED
    BY <2>3, <2>4, Zenon DEF KeysInv
<1> QED
  BY <1>1, <1>2, KeysSteps, Zenon

\* Nothing was dequeued yet.
LEMMA NoKeys ==
    ASSUME NEW lru, lru = <<>>, NEW calls, calls = <<>>
    PROVE  IsSeq(calls) /\ Recent(lru, calls, IdempotencyCapacity)
<1>1. <<>> \in Seq({}) /\ Len(<<>>) = 0 /\ 0 \in 0 .. IdempotencyCapacity /\ 1 .. 0 = {}
  BY EngineAssumption
<1>2. IsSeq(<<>>)
  BY <1>1, Zenon DEF IsSeq
<1> QED
  BY <1>1, <1>2 DEF Recent

----------------------------------------------------------------------------
(* What the engine has made visible is in the log, and synced where every  *)
(* write is to be synced, whatever append and flush fail to do.            *)

\* Logged, of a file.
LoggedIn(file, id, n) ==
    \E k \in 1 .. n - 1 :
        /\ file[k].part = "head" /\ file[k].tx.id = id
        /\ file[k + 1] = [file[k] EXCEPT !.part = "body"]

\* The part of the log that the mode relies on.
Safe(log) == IF log.mode = "SyncEveryWrite" THEN log.synced ELSE Len(log.file)

Fields == {"file", "synced", "offset", "dirty", "mode"}

IsRecord(log) == log = [f \in Fields |-> log[f]]

IsLog(log) ==
    /\ IsRecord(log)
    /\ IsSeq(log.file) /\ Len(log.file) \in Nat
    /\ log.synced \in 0 .. Len(log.file)

LEMMA LogFields ==
    ASSUME NEW log, IsRecord(log), NEW t
    PROVE  /\ \A r : r = AppendRecord(log, t) =>
                 /\ IsRecord(r) /\ r.file = log.file \o RecordUnits(t)
                 /\ r.dirty /\ r.synced = log.synced /\ r.mode = log.mode
           /\ \A r : r = Flushed(log) =>
                 /\ IsRecord(r) /\ r.file = log.file /\ r.mode = log.mode
                 /\ r.synced = IF log.dirty THEN Len(log.file) ELSE log.synced
<1>1. ASSUME NEW r, r = AppendRecord(log, t)
      PROVE  /\ IsRecord(r) /\ r.file = log.file \o RecordUnits(t)
             /\ r.dirty /\ r.synced = log.synced /\ r.mode = log.mode
  BY <1>1, Zenon DEF IsRecord, Fields, AppendRecord
<1>2. ASSUME NEW r, r = Flushed(log)
      PROVE  /\ IsRecord(r) /\ r.file = log.file /\ r.mode = log.mode
             /\ r.synced = IF log.dirty THEN Len(log.file) ELSE log.synced
  BY <1>2, ZenonT(30) DEF IsRecord, Fields, Flushed
<1> QED
  BY <1>1, <1>2, Zenon

LEMMA ShortFields ==
    ASSUME NEW log, IsRecord(log), NEW t, NEW r \in ShortAppends(log, t)
    PROVE  \E n \in 0 .. 1 :
              /\ IsRecord(r) /\ r.file = log.file \o SubSeq(RecordUnits(t), 1, n)
              /\ r.synced = log.synced /\ r.mode = log.mode
BY DEF IsRecord, Fields, ShortAppends, RecordSize

LEMMA OpenedFields ==
    ASSUME NEW file, NEW synced, NEW mode, NEW r, r = OpenLog(file, synced, mode)
    PROVE  IsRecord(r) /\ r.file = file /\ r.synced = synced /\ r.mode = mode
BY Zenon DEF IsRecord, Fields, OpenLog

\* A longer file still holds what was logged.
LEMMA LoggedStays ==
    ASSUME NEW file, NEW longer, NEW id, NEW n \in Int, NEW m \in Int, n <= m, n <= Len(file),
           Len(file) \in Nat, \A i \in 1 .. Len(file) : longer[i] = file[i],
           LoggedIn(file, id, n)
    PROVE  LoggedIn(longer, id, m)
<1>1. PICK k \in 1 .. n - 1 :
        /\ file[k].part = "head" /\ file[k].tx.id = id
        /\ file[k + 1] = [file[k] EXCEPT !.part = "body"]
  BY Zenon DEF LoggedIn
<1>2. k \in 1 .. m - 1 /\ longer[k] = file[k] /\ longer[k + 1] = file[k + 1]
  <2>1. k \in 1 .. m - 1 /\ k \in 1 .. Len(file) /\ k + 1 \in 1 .. Len(file)
    OBVIOUS
  <2> QED
    BY <2>1
<1> QED
  BY <1>1, <1>2, Zenon DEF LoggedIn

\* What is known of the concatenation c of s and t.
Joined(s, t, c) ==
    /\ IsSeq(c) /\ Len(c) = Len(s) + Len(t)
    /\ Len(s) \in Nat /\ Len(t) \in Nat
    /\ \A i \in 1 .. Len(s) : c[i] = s[i]
    /\ \A i \in 1 .. Len(t) : c[Len(s) + i] = t[i]

LEMMA Concatenated ==
    ASSUME NEW s, IsSeq(s), NEW t, IsSeq(t)
    PROVE  Joined(s, t, s \o t)
<1>1. PICK S : s \in Seq(S)
  BY DEF IsSeq
<1>2. PICK T : t \in Seq(T)
  BY DEF IsSeq
<1>3. s \in Seq(S \cup T) /\ t \in Seq(S \cup T)
  BY <1>1, <1>2
<1>4. s \o t \in Seq(S \cup T) /\ Len(s) \in Nat /\ Len(t) \in Nat
  BY <1>3
<1>5. /\ Len(s \o t) = Len(s) + Len(t)
      /\ \A i \in 1 .. Len(s) : (s \o t)[i] = s[i]
      /\ \A i \in 1 .. Len(t) : (s \o t)[Len(s) + i] = t[i]
  BY <1>3, <1>4
<1> QED
  BY <1>4, <1>5 DEF IsSeq, Joined

LEMMA Units ==
    ASSUME NEW t
    PROVE  /\ IsSeq(RecordUnits(t)) /\ Len(RecordUnits(t)) = 2
           /\ RecordUnits(t)[1].part = "head" /\ RecordUnits(t)[1].tx = t
           /\ "part" \in DOMAIN RecordUnits(t)[1]
           /\ RecordUnits(t)[2] = [RecordUnits(t)[1] EXCEPT !.part = "body"]
<1> DEFINE h == [part |-> "head", tx |-> t]
           b == [part |-> "body", tx |-> t]
<1>1. h.part = "head" /\ h.tx = t /\ "part" \in DOMAIN h /\ b = [h EXCEPT !.part = "body"]
  OBVIOUS
<1>2. RecordUnits(t) = <<h, b>>
  BY DEF RecordUnits
<1> HIDE DEF h, b
<1>3. <<h, b>> \in Seq({h, b}) /\ Len(<<h, b>>) = 2 /\ <<h, b>>[1] = h /\ <<h, b>>[2] = b
  BY SMTT(30)
<1> QED
  BY <1>1, <1>2, <1>3, ZenonT(30) DEF IsSeq

\* append: the log gets longer by a whole record.
GrownBy(log, id, new) ==
    /\ IsLog(new) /\ new.dirty /\ new.mode = log.mode /\ new.synced = log.synced
    /\ Len(new.file) = Len(log.file) + 2
    /\ \A i \in 1 .. Len(log.file) : new.file[i] = log.file[i]
    /\ LoggedIn(new.file, id, Len(new.file))

LEMMA RecordAppended ==
    ASSUME NEW log, IsLog(log), NEW t, NEW new, new = AppendRecord(log, t)
    PROVE  GrownBy(log, t.id, new)
<1> DEFINE u == RecordUnits(t)
           n == Len(log.file)
<1>1. /\ IsRecord(new) /\ new.file = log.file \o u
      /\ new.dirty /\ new.synced = log.synced /\ new.mode = log.mode
  BY LogFields, SMTT(30) DEF IsLog
<1>2. /\ IsSeq(u) /\ Len(u) = 2
      /\ u[1].part = "head" /\ u[1].tx.id = t.id /\ u[2] = [u[1] EXCEPT !.part = "body"]
  BY Units
<1>3. n \in Nat /\ log.synced \in 0 .. n /\ IsSeq(log.file)
  BY DEF IsLog
<1> HIDE DEF u
<1>4. /\ IsSeq(new.file) /\ Len(new.file) = n + 2
      /\ \A i \in 1 .. n : new.file[i] = log.file[i]
      /\ \A i \in 1 .. 2 : new.file[n + i] = u[i]
  <2> DEFINE f == log.file
             c == f \o u
  <2>1. IsSeq(f) /\ IsSeq(u) /\ new.file = c /\ c = f \o u /\ n = Len(f)
    BY <1>1, <1>2, <1>3
  <2> HIDE DEF f, c, n
  <2>0. Joined(f, u, f \o u)
    BY <2>1, Concatenated, Zenon
  <2>2. /\ IsSeq(c) /\ Len(c) = Len(f) + Len(u)
        /\ \A i \in 1 .. Len(f) : c[i] = f[i]
        /\ \A i \in 1 .. Len(u) : c[Len(f) + i] = u[i]
    BY <2>1, <2>0, Zenon DEF Joined
  <2>3. /\ IsSeq(c) /\ Len(c) = n + 2
        /\ \A i \in 1 .. n : c[i] = f[i]
        /\ \A i \in 1 .. 2 : c[n + i] = u[i]
    BY <1>2, <2>1, <2>2
  <2> QED
    BY <2>1, <2>3 DEF f
<1>5. LoggedIn(new.file, t.id, Len(new.file))
  <2>1. new.file[n + 1] = u[1] /\ new.file[(n + 1) + 1] = u[2]
    <3>1. 1 \in 1 .. 2 /\ 2 \in 1 .. 2 /\ (n + 1) + 1 = n + 2
      BY <1>3
    <3> QED
      BY <1>4, <3>1
  <2>2. n + 1 \in 1 .. Len(new.file) - 1
    BY <1>3, <1>4
  <2> HIDE DEF n
  <2> QED
    BY <1>2, <2>1, <2>2 DEF LoggedIn
<1>6. IsLog(new)
  BY <1>1, <1>3, <1>4, SMTT(30) DEF IsLog
<1> QED
  BY <1>1, <1>4, <1>5, <1>6, SMTT(30) DEF GrownBy

\* append, when the write is short: the log gets longer by less.
LEMMA PartAppended ==
    ASSUME NEW log, IsLog(log), NEW t, NEW new \in ShortAppends(log, t)
    PROVE  /\ IsLog(new) /\ new.mode = log.mode /\ new.synced = log.synced
           /\ Len(new.file) >= Len(log.file)
           /\ \A i \in 1 .. Len(log.file) : new.file[i] = log.file[i]
<1> DEFINE u == RecordUnits(t)
           n == Len(log.file)
<1>1. PICK k \in 0 .. 1 : /\ IsRecord(new) /\ new.file = log.file \o SubSeq(u, 1, k)
                          /\ new.synced = log.synced /\ new.mode = log.mode
  <2>1. IsRecord(log)
    BY DEF IsLog
  <2>2. \E j \in 0 .. 1 : /\ IsRecord(new) /\ new.file = log.file \o SubSeq(RecordUnits(t), 1, j)
                          /\ new.synced = log.synced /\ new.mode = log.mode
    BY <2>1, ShortFields
  <2> QED
    BY <2>2, Zenon
<1>2. IsSeq(u) /\ Len(u) = 2
  BY Units, Zenon
<1> HIDE DEF u
<1>3. IsSeq(SubSeq(u, 1, k))
  <2>1. PICK S : u \in Seq(S)
    BY <1>2 DEF IsSeq
  <2>2. k \in 0 .. Len(u)
    BY <1>2
  <2>3. SubSeq(u, 1, k) \in Seq(S)
    BY <2>1, <2>2
  <2> QED
    BY <2>3 DEF IsSeq
<1>4. n \in Nat /\ log.synced \in 0 .. n /\ IsSeq(log.file)
  BY DEF IsLog
<1>5. /\ IsSeq(new.file) /\ Len(new.file) >= n /\ Len(new.file) \in Nat
      /\ \A i \in 1 .. n : new.file[i] = log.file[i]
  <2> DEFINE f == log.file
             v == SubSeq(u, 1, k)
             c == f \o v
  <2>1. IsSeq(f) /\ IsSeq(v) /\ new.file = c /\ c = f \o v /\ n = Len(f)
    BY <1>1, <1>3, <1>4
  <2> HIDE DEF f, v, c, n
  <2>0. Joined(f, v, f \o v)
    BY <2>1, Concatenated, Zenon
  <2>2. /\ IsSeq(c) /\ Len(c) = Len(f) + Len(v) /\ Len(f) \in Nat /\ Len(v) \in Nat
        /\ \A i \in 1 .. Len(f) : c[i] = f[i]
    BY <2>1, <2>0, Zenon DEF Joined
  <2>3. IsSeq(c) /\ Len(c) >= n /\ Len(c) \in Nat /\ \A i \in 1 .. n : c[i] = f[i]
    BY <2>1, <2>2
  <2> QED
    BY <2>1, <2>3, SMTT(30) DEF f
<1>6. IsLog(new)
  <2> DEFINE m == Len(new.file)
  <2>1. m \in Nat /\ m >= n /\ new.synced \in 0 .. n
    BY <1>1, <1>4, <1>5, Zenon
  <2> HIDE DEF m, n
  <2>2. new.synced \in 0 .. m
    BY <1>4, <2>1
  <2> QED
    BY <1>1, <1>5, <2>2, Zenon DEF IsLog, m
<1> QED
  BY <1>1, <1>5, <1>6, Zenon

\* flush: the file stays and what is synced grows, to all of it if it is dirty.
LEMMA FlushSyncs ==
    ASSUME NEW log, IsLog(log), NEW new, new = Flushed(log)
    PROVE  /\ IsLog(new) /\ new.mode = log.mode /\ new.file = log.file
           /\ new.synced >= log.synced
           /\ log.dirty => new.synced = Len(log.file)
<1>1. /\ IsRecord(new) /\ new.file = log.file /\ new.mode = log.mode
      /\ new.synced = IF log.dirty THEN Len(log.file) ELSE log.synced
  BY LogFields DEF IsLog
<1>2. Len(log.file) \in Nat /\ log.synced \in 0 .. Len(log.file) /\ IsSeq(log.file)
  BY DEF IsLog
<1>3. new.synced >= log.synced /\ new.synced \in 0 .. Len(log.file)
  BY <1>1, <1>2, SMTT(30)
<1> QED
  BY <1>1, <1>2, <1>3 DEF IsLog

\* A log that grows keeps what was logged.
LEMMA GrowthKeeps ==
    ASSUME NEW log, IsLog(log), NEW new, IsLog(new), new.mode = log.mode,
           new.synced >= log.synced, Len(new.file) >= Len(log.file),
           \A i \in 1 .. Len(log.file) : new.file[i] = log.file[i], NEW id
    PROVE  /\ LoggedIn(log.file, id, Safe(log)) => LoggedIn(new.file, id, Safe(new))
           /\ LoggedIn(log.file, id, Len(log.file)) => LoggedIn(new.file, id, Len(new.file))
<1> DEFINE n == Len(log.file)
           m == Len(new.file)
           a == log.synced
           b == new.synced
           f == log.file
           g == new.file
<1>1. n \in Nat /\ m \in Nat /\ a \in 0 .. n /\ b \in 0 .. m /\ b >= a /\ m >= n
  BY DEF IsLog
<1>2. n = Len(f) /\ \A i \in 1 .. Len(f) : g[i] = f[i]
  OBVIOUS
<1>3. Safe(log) = (IF log.mode = "SyncEveryWrite" THEN a ELSE n)
      /\ Safe(new) = IF log.mode = "SyncEveryWrite" THEN b ELSE m
  BY DEF Safe
<1> HIDE DEF n, m, a, b, f, g
<1>4. /\ Safe(log) \in Int /\ Safe(new) \in Int /\ Safe(log) <= Safe(new) /\ Safe(log) <= n
      /\ n \in Int /\ m \in Int /\ n <= m /\ n <= n
  BY <1>1, <1>3, SMTT(30)
<1>5. \A x \in Int, y \in Int : x <= y /\ x <= n /\ LoggedIn(f, id, x) => LoggedIn(g, id, y)
  BY <1>1, <1>2, LoggedStays
<1> QED
  BY <1>4, <1>5 DEF f, g, n, m

\* What was applied is logged, and the record of what is about to be applied
\* is on its way there.
InLog ==
    /\ IsLog(wal)
    /\ \A i \in 2 .. Applied : LoggedIn(wal.file, commits[i].id, Safe(wal))
    /\ writer.stage = "flush" =>
          /\ wal.mode = "SyncEveryWrite" /\ wal.dirty
          /\ LoggedIn(wal.file, commits[Len(commits)].id, Len(wal.file))
    /\ writer.stage = "apply" => LoggedIn(wal.file, commits[Len(commits)].id, Safe(wal))

DurableInv == RecentInv /\ InLog

LEMMA InitDurable == Init => InLog
<1> SUFFICES ASSUME Init PROVE InLog
  OBVIOUS
<1>1. PICK mode \in SyncModes : wal = OpenLog(<<>>, 0, mode)
  BY DEF Init
<1>2. IsRecord(wal) /\ wal.file = <<>> /\ wal.synced = 0
  BY <1>1, OpenedFields
<1>3. IsLog(wal)
  <2>1. <<>> \in Seq({}) /\ Len(<<>>) = 0
    OBVIOUS
  <2> QED
    BY <1>2, <2>1 DEF IsLog, IsSeq
<1>4. writer.stage = "idle" /\ Applied = 1
  <2>1. commits = <<[id |-> 0, ledger |-> EmptyLedgerState]>> /\ writer.stage = "idle"
    BY IdleWriter, SMTT(30) DEF Init
  <2> QED
    BY <2>1 DEF Applied
<1> QED
  BY <1>3, <1>4, SMTT(30) DEF InLog

\* Steps of the log that keep the commits.
LEMMA InLogKept ==
    ASSUME DurableInv, IsLog(wal'), wal'.mode = wal.mode, wal'.synced >= wal.synced,
           Len(wal'.file) >= Len(wal.file),
           \A i \in 1 .. Len(wal.file) : wal'.file[i] = wal.file[i],
           Applied' = Applied, \A i \in 2 .. Applied : commits'[i] = commits[i]
    PROVE  \A i \in 2 .. Applied' : LoggedIn(wal'.file, commits'[i].id, Safe(wal)')
<1> SUFFICES ASSUME NEW i \in 2 .. Applied
             PROVE  LoggedIn(wal'.file, commits'[i].id, Safe(wal)')
  BY Zenon
<1>1. IsLog(wal) /\ LoggedIn(wal.file, commits[i].id, Safe(wal))
  BY DEF DurableInv, InLog
<1>2. commits'[i].id = commits[i].id
  OBVIOUS
<1>3. PICK new : new = wal'
  BY Zenon
<1>4. LoggedIn(new.file, commits[i].id, Safe(new))
  <2>1. /\ IsLog(new) /\ new.mode = wal.mode /\ new.synced >= wal.synced
        /\ Len(new.file) >= Len(wal.file)
        /\ \A n \in 1 .. Len(wal.file) : new.file[n] = wal.file[n]
    BY <1>3, Zenon
  <2> QED
    BY <1>1, <2>1, GrowthKeeps, Zenon
<1>5. Safe(new) = Safe(wal)'
  BY <1>3 DEF Safe
<1> QED
  BY <1>2, <1>3, <1>4, <1>5, Zenon

LEMMA InLogStep ==
    ASSUME DurableInv, [Next]_vars
    PROVE  InLog'
<1>0. /\ Types /\ NothingBeforeStart /\ CommitHistory /\ IsLog(wal)
      /\ IsSeq(commits) /\ Len(commits) \in Nat
      /\ Applied \in Int /\ Applied >= 1 /\ Applied <= Len(commits)
      /\ Len(wal.file) \in Nat /\ wal.synced \in 0 .. Len(wal.file)
  <2>1. Types /\ NothingBeforeStart /\ CommitHistory /\ IsLog(wal)
    BY Zenon DEF DurableInv, InLog, RecentInv
  <2>2. IsSeq(commits) /\ Len(commits) \in Nat /\ Applied >= 1
    BY <2>1, Zenon DEF CommitHistory
  <2>3. Applied \in Int /\ Applied <= Len(commits)
    <3>1. CASE writer.stage \in {"flush", "apply"}
      <4>1. Applied = Len(commits) - 1
        BY <3>1, Zenon DEF Applied
      <4> QED
        BY <2>2, <4>1
    <3>2. CASE writer.stage \notin {"flush", "apply"}
      <4>1. Applied = Len(commits) - 0
        BY <3>2, Zenon DEF Applied
      <4> QED
        BY <2>2, <4>1
    <3> QED
      BY <3>1, <3>2, Zenon
  <2>4. Len(wal.file) \in Nat /\ wal.synced \in 0 .. Len(wal.file)
    BY <2>1, Zenon DEF IsLog
  <2> QED
    BY <2>1, <2>2, <2>3, <2>4, Zenon
<1> USE <1>0
<1>1. ASSUME wal' = wal, Applied' = Applied, commits' = commits, writer' = writer
      PROVE  InLog'
  <2>1. Safe(wal)' = Safe(wal)
    BY <1>1 DEF Safe
  <2>2. IsLog(wal)'
    BY <1>1 DEF IsLog
  <2>3. InLog
    BY DEF DurableInv
  <2> QED
    BY <1>1, <2>1, <2>2, <2>3, Zenon DEF InLog
<1>2. ASSUME NEW opening \in OpeningAccounts, AddAccount(opening)
      PROVE  InLog'
  <2>1. /\ wal' = wal /\ writer' = writer /\ setup /\ ~ Busy
        /\ commits' = <<[id |-> 0, ledger |-> working']>>
    BY <1>2 DEF AddAccount, NothingBeforeStart
  <2>2. writer.stage = "idle"
    BY <2>1, IdleWriter, SMTT(30) DEF Busy
  <2>3. Applied' = 1
    BY <2>1, <2>2 DEF Applied
  <2> QED
    BY <2>1, <2>2, <2>3, SMTT(30) DEF InLog, IsLog
<1>3. ASSUME WalAppend PROVE InLog'
  <2> DEFINE t == Head(ring).tx
             c == [id |-> t.id, ledger |-> apply(working, t)]
  <2>1. /\ writer = NoRequest /\ wal' = AppendRecord(wal, t) /\ commits' = Append(commits, c)
        /\ writer'.stage = IF wal.mode = "SyncEveryWrite" THEN "flush" ELSE "apply"
    BY <1>3, ZenonT(30) DEF WalAppend, Dequeue
  <2>2. c.id = t.id
    OBVIOUS
  <2> HIDE DEF c, t
  <2>3. /\ IsLog(wal') /\ wal'.dirty /\ wal'.mode = wal.mode /\ wal'.synced = wal.synced
        /\ Len(wal'.file) = Len(wal.file) + 2
        /\ \A i \in 1 .. Len(wal.file) : wal'.file[i] = wal.file[i]
        /\ LoggedIn(wal'.file, t.id, Len(wal'.file))
    <3>1. GrownBy(wal, t.id, wal')
      BY <2>1, RecordAppended, Zenon
    <3> QED
      BY <3>1, Zenon DEF GrownBy
  <2>4. /\ Len(commits') = Len(commits) + 1
        /\ commits'[Len(commits) + 1] = c
        /\ \A i \in 1 .. Len(commits) : commits'[i] = commits[i]
    BY <2>1, Appended, SMTT(30)
  <2>5. Applied = Len(commits) /\ Applied' = Len(commits)
    BY <2>1, <2>4, IdleWriter, SMTT(30) DEF Applied
  <2>6. \A i \in 2 .. Applied' : LoggedIn(wal'.file, commits'[i].id, Safe(wal)')
    <3>1. Len(wal'.file) >= Len(wal.file) /\ wal'.synced >= wal.synced
      <4> DEFINE m == Len(wal.file)
                 n == Len(wal'.file)
                 x == wal.synced
                 y == wal'.synced
      <4>1. m \in Nat /\ n = m + 2 /\ x \in 0 .. m /\ y = x
        BY <2>3, Zenon
      <4> HIDE DEF m, n, x, y
      <4>2. n >= m /\ y >= x
        BY <4>1
      <4> QED
        BY <4>2, Zenon DEF m, n, x, y
    <3>2. \A i \in 2 .. Applied : commits'[i] = commits[i]
      BY <2>4, <2>5
    <3>3. Applied' = Applied
      BY <2>5, SMTT(30)
    <3> QED
      BY <2>3, <3>1, <3>2, <3>3, InLogKept, ZenonT(30)
  <2>7. LoggedIn(wal'.file, commits'[Len(commits')].id, Len(wal'.file))
    BY <2>2, <2>3, <2>4, SMTT(30)
  <2>8. CASE wal.mode = "SyncEveryWrite"
    BY <2>1, <2>3, <2>6, <2>7, <2>8, ZenonT(30) DEF InLog
  <2>9. CASE wal.mode # "SyncEveryWrite"
    <3>1. writer'.stage = "apply" /\ Safe(wal)' = Len(wal'.file)
      BY <2>1, <2>3, <2>9, SMTT(30) DEF Safe
    <3>2. writer'.stage # "flush"
      BY <3>1
    <3>3. LoggedIn(wal'.file, commits'[Len(commits')].id, Safe(wal)')
      BY <2>7, <3>1, Zenon
    <3> QED
      BY <2>3, <2>6, <3>1, <3>2, <3>3, Zenon DEF InLog
  <2> QED
    BY <2>8, <2>9, Zenon
<1>4. ASSUME WalAppendFails PROVE InLog'
  <2> DEFINE t == Head(ring).tx
  <2>1. /\ writer = NoRequest /\ wal' \in ShortAppends(wal, t) /\ commits' = commits
        /\ writer' = writer
    BY <1>4, SMTT(30) DEF WalAppendFails, Dequeue
  <2> HIDE DEF t
  <2>2. /\ IsLog(wal') /\ wal'.mode = wal.mode /\ wal'.synced = wal.synced
        /\ Len(wal'.file) >= Len(wal.file)
        /\ \A i \in 1 .. Len(wal.file) : wal'.file[i] = wal.file[i]
    BY <2>1, PartAppended, SMTT(30)
  <2>3. writer'.stage = "idle" /\ Applied' = Applied /\ wal'.synced >= wal.synced
    BY <2>1, <2>2, IdleWriter, SMTT(30) DEF Applied
  <2>4. \A i \in 2 .. Applied' : LoggedIn(wal'.file, commits'[i].id, Safe(wal)')
    <3>1. \A i \in 2 .. Applied : commits'[i] = commits[i]
      BY <2>1, Zenon
    <3> QED
      BY <2>2, <2>3, <3>1, InLogKept, ZenonT(30)
  <2>5. writer'.stage # "flush" /\ writer'.stage # "apply"
    BY <2>3
  <2> QED
    BY <2>2, <2>4, <2>5, Zenon DEF InLog
<1>5. ASSUME WalFlush PROVE InLog'
  <2>1. /\ writer.stage = "flush" /\ wal' = Flushed(wal) /\ commits' = commits
        /\ writer' = [writer EXCEPT !.stage = "apply"]
    BY <1>5 DEF WalFlush
  <2>2. writer'.stage = "apply"
    BY <2>1, IdleWriter DEF Types
  <2>3. /\ wal.mode = "SyncEveryWrite" /\ wal.dirty
        /\ LoggedIn(wal.file, commits[Len(commits)].id, Len(wal.file))
    BY <2>1 DEF DurableInv, InLog
  <2>4. /\ IsLog(wal') /\ wal'.mode = wal.mode /\ wal'.file = wal.file
        /\ wal'.synced >= wal.synced /\ wal'.synced = Len(wal.file)
    BY <2>1, <2>3, FlushSyncs
  <2>5. Applied' = Applied /\ Len(wal'.file) >= Len(wal.file)
    BY <2>1, <2>2, <2>4 DEF Applied
  <2>6. \A i \in 2 .. Applied' : LoggedIn(wal'.file, commits'[i].id, Safe(wal)')
    BY <2>1, <2>4, <2>5, InLogKept
  <2>7. LoggedIn(wal'.file, commits'[Len(commits')].id, Safe(wal)')
    BY <2>1, <2>3, <2>4, SMTT(30) DEF Safe
  <2> QED
    BY <2>2, <2>4, <2>6, <2>7 DEF InLog
<1>6. ASSUME WalFlushFails PROVE InLog'
  <2>1. /\ writer.stage = "flush" /\ writer' = NoRequest /\ wal' = wal
        /\ commits' = SubSeq(commits, 1, Len(commits) - 1)
    BY <1>6, SMTT(30) DEF WalFlushFails
  <2>2. /\ Len(commits') = Len(commits) - 1
        /\ \A i \in 1 .. Len(commits) - 1 : commits'[i] = commits[i]
    BY <2>1, Shortened, SMTT(30)
  <2>3. Applied = Len(commits) - 1 /\ Applied' = Applied /\ writer'.stage = "idle"
    BY <2>1, <2>2, IdleWriter, SMTT(30) DEF Applied
  <2>4. \A i \in 2 .. Applied : commits'[i] = commits[i]
    <3> SUFFICES ASSUME NEW i \in 2 .. Applied PROVE commits'[i] = commits[i]
      BY Zenon
    <3>1. i \in 1 .. Len(commits) - 1
      BY <2>3
    <3> QED
      BY <2>2, <3>1, Zenon
  <2>5. \A i \in 2 .. Applied' : LoggedIn(wal'.file, commits'[i].id, Safe(wal)')
    BY <2>1, <2>3, <2>4, Zenon DEF DurableInv, InLog, Safe
  <2>6. writer'.stage # "flush" /\ writer'.stage # "apply"
    BY <2>3
  <2>7. IsLog(wal')
    BY <2>1, Zenon
  <2> QED
    BY <2>5, <2>6, <2>7, Zenon DEF InLog
<1>7. ASSUME ApplyAndPublish PROVE InLog'
  <2>1. /\ writer.stage = "apply" /\ wal' = wal /\ commits' = commits
        /\ writer' = [writer EXCEPT !.stage = "ack"]
    BY <1>7 DEF ApplyAndPublish
  <2>2. writer'.stage = "ack"
    BY <2>1, IdleWriter DEF Types
  <2>3. Applied = Len(commits) - 1 /\ Applied' = Len(commits)
    BY <2>1, <2>2 DEF Applied
  <2>4. \A i \in 2 .. Applied' : i \in 2 .. Applied \/ i = Len(commits)
    BY <2>3
  <2>5. \A i \in 2 .. Applied' : LoggedIn(wal.file, commits[i].id, Safe(wal))
    BY <2>1, <2>4, SMTT(30) DEF DurableInv, InLog
  <2> QED
    BY <2>1, <2>2, <2>5 DEF InLog, IsLog, Safe
<1>8. ASSUME Acknowledge PROVE InLog'
  <2>1. writer.stage = "ack" /\ writer'.stage = "idle" /\ wal' = wal /\ commits' = commits
    BY <1>8, IdleWriter DEF Acknowledge
  <2>2. Applied' = Applied
    BY <2>1 DEF Applied
  <2> QED
    BY <2>1, <2>2, Zenon DEF DurableInv, InLog, IsLog, Safe
<1>9. ASSUME FlushBatch PROVE InLog'
  <2>1. writer = NoRequest /\ writer' = writer /\ wal' = Flushed(wal) /\ commits' = commits
    BY <1>9 DEF FlushBatch
  <2>2. /\ IsLog(wal') /\ wal'.mode = wal.mode /\ wal'.file = wal.file
        /\ wal'.synced >= wal.synced
    BY <2>1, FlushSyncs, SMTT(30)
  <2>3. writer'.stage = "idle" /\ Applied' = Applied /\ Len(wal'.file) >= Len(wal.file)
    BY <2>1, <2>2, IdleWriter, SMTT(30) DEF Applied
  <2>4. \A i \in 2 .. Applied' : LoggedIn(wal'.file, commits'[i].id, Safe(wal)')
    <3>1. /\ \A i \in 1 .. Len(wal.file) : wal'.file[i] = wal.file[i]
          /\ \A i \in 2 .. Applied : commits'[i] = commits[i]
      BY <2>1, <2>2, Zenon
    <3> QED
      BY <2>2, <2>3, <3>1, InLogKept, Zenon
  <2> QED
    BY <2>2, <2>3, <2>4, SMTT(30) DEF InLog
<1>10. ASSUME UNCHANGED <<wal, commits, writer>> PROVE InLog'
  <2>1. Applied' = Applied
    BY <1>10, SMTT(30) DEF Applied
  <2> QED
    BY <1>1, <1>10, <2>1, SMTT(30)
<1>11. ASSUME StartProducers \/ Reject \/ UNCHANGED vars PROVE InLog'
  BY <1>10, <1>11 DEF StartProducers, Reject, vars
<1>12. ASSUME NEW p \in Producers, Producer(p) PROVE InLog'
  BY <1>10, <1>12, SMTT(30) DEF Producer, Allocate, Submit, ObserveDone, Finish
<1> QED
  BY <1>2, <1>3, <1>4, <1>5, <1>6, <1>7, <1>8, <1>9, <1>11, <1>12, SMTT(30) DEF Next, Writer

\* Nothing is applied, published or acknowledged before its record is in the
\* log, and synced where every write is to be synced.
THEOREM LoggedBeforeVisible == Spec => []DurableBeforeApply
<1>1. Init => DurableInv
  BY InitDurable, InitRecent, InitTypes DEF DurableInv, RecentInv
<1>2. DurableInv /\ [Next]_vars => DurableInv'
  BY InLogStep, RecentStep, TypesStep, NothingBeforeStartStep DEF DurableInv, RecentInv
<1>3. DurableInv => DurableBeforeApply
  BY DEF DurableInv, InLog, DurableBeforeApply, Logged, LoggedIn, Safe
<1> QED
  BY <1>1, <1>2, <1>3, PTL DEF Spec

----------------------------------------------------------------------------
(* The log, its writer's offset and the reader's positions. *)

LEMMA OffsetFields ==
    ASSUME NEW log, IsRecord(log), NEW t
    PROVE  /\ AppendRecord(log, t).offset = log.offset + 2
           /\ \A r \in ShortAppends(log, t) : r.offset = log.offset /\ r.dirty = log.dirty
           /\ Flushed(log).offset = log.offset
<1>1. AppendRecord(log, t).offset = log.offset + 2
  BY Zenon DEF IsRecord, Fields, AppendRecord, RecordSize
<1>2. ASSUME NEW r \in ShortAppends(log, t) PROVE r.offset = log.offset /\ r.dirty = log.dirty
  BY DEF IsRecord, Fields, ShortAppends
<1>3. Flushed(log).offset = log.offset
  BY ZenonT(30) DEF IsRecord, Fields, Flushed
<1> QED
  BY <1>1, <1>2, <1>3, Zenon

LogInv ==
    /\ IsLog(wal) /\ wal.offset \in 0 .. Len(wal.file)
    /\ wal.mode \in SyncMode

\* What a step of the engine does to the log.
LogSteps ==
    \/ wal' = wal
    \/ WalAppend /\ wal' = AppendRecord(wal, Head(ring).tx)
    \/ WalAppendFails /\ wal' \in ShortAppends(wal, Head(ring).tx)
    \/ (WalFlush \/ FlushBatch) /\ wal' = Flushed(wal)

LEMMA LogStepKinds == [Next]_vars => LogSteps
<1> SUFFICES ASSUME [Next]_vars PROVE LogSteps
  OBVIOUS
<1>1. ASSUME WalAppend \/ WalAppendFails \/ WalFlush \/ FlushBatch PROVE LogSteps
  BY <1>1, Zenon DEF LogSteps, WalAppend, WalAppendFails, WalFlush, FlushBatch
<1>2. ASSUME \/ StartProducers \/ Reject \/ WalFlushFails \/ Acknowledge \/ UNCHANGED vars
             \/ ApplyAndPublish
             \/ \E p \in Producers : Producer(p)
             \/ \E opening \in OpeningAccounts : AddAccount(opening)
      PROVE  LogSteps
  <2>1. wal' = wal
    BY <1>2, Zenon DEF StartProducers, Reject, WalFlushFails, Acknowledge, vars, ApplyAndPublish,
       producerVars, Producer, Allocate, Submit, ObserveDone, Finish, AddAccount
  <2> QED
    BY <2>1, Zenon DEF LogSteps
<1> QED
  BY <1>1, <1>2, Zenon DEF Next, Writer

LEMMA LogStep ==
    ASSUME LogInv, [Next]_vars
    PROVE  LogInv' /\ wal'.mode = wal.mode
<1>0. /\ IsLog(wal) /\ IsRecord(wal) /\ wal.offset \in 0 .. Len(wal.file)
      /\ Len(wal.file) \in Nat /\ wal.mode \in SyncMode
  BY Zenon DEF LogInv, IsLog
<1>1. CASE wal' = wal
  BY <1>1, <1>0, Zenon DEF LogInv
<1>2. ASSUME NEW t, wal' = AppendRecord(wal, t) PROVE LogInv' /\ wal'.mode = wal.mode
  <2>1. IsLog(wal') /\ wal'.mode = wal.mode /\ Len(wal'.file) = Len(wal.file) + 2
    BY <1>0, <1>2, RecordAppended, Zenon DEF GrownBy
  <2>2. wal'.offset = wal.offset + 2
    BY <1>0, <1>2, OffsetFields, Zenon
  <2>3. wal'.offset \in 0 .. Len(wal'.file)
    BY <1>0, <2>1, <2>2
  <2> QED
    BY <1>0, <2>1, <2>3, Zenon DEF LogInv
<1>3. ASSUME NEW t, wal' \in ShortAppends(wal, t) PROVE LogInv' /\ wal'.mode = wal.mode
  <2>1. IsLog(wal') /\ wal'.mode = wal.mode /\ Len(wal'.file) >= Len(wal.file)
    BY <1>0, <1>3, PartAppended, Zenon
  <2>2. wal'.offset = wal.offset
    BY <1>0, <1>3, OffsetFields, Zenon
  <2>3. Len(wal'.file) \in Nat
    BY <2>1, Zenon DEF IsLog
  <2>4. wal'.offset \in 0 .. Len(wal'.file)
    BY <1>0, <2>1, <2>2, <2>3
  <2> QED
    BY <1>0, <2>1, <2>4, Zenon DEF LogInv
<1>4. CASE wal' = Flushed(wal)
  <2>1. IsLog(wal') /\ wal'.mode = wal.mode /\ wal'.file = wal.file
    BY <1>0, <1>4, FlushSyncs, Zenon
  <2>2. wal'.offset = wal.offset
    BY <1>0, <1>4, OffsetFields, Zenon
  <2> QED
    BY <1>0, <2>1, <2>2, Zenon DEF LogInv
<1> QED
  BY <1>1, <1>2, <1>3, <1>4, LogStepKinds, Zenon DEF LogSteps

LEMMA Prefix ==
    ASSUME NEW s, IsSeq(s), NEW n \in 0 .. Len(s)
    PROVE  /\ IsSeq(SubSeq(s, 1, n)) /\ Len(SubSeq(s, 1, n)) = n
           /\ \A i \in 1 .. n : SubSeq(s, 1, n)[i] = s[i]
<1>1. PICK S : s \in Seq(S)
  BY DEF IsSeq
<1>2. /\ SubSeq(s, 1, n) \in Seq(S) /\ Len(SubSeq(s, 1, n)) = n
      /\ \A i \in 1 .. n : SubSeq(s, 1, n)[i] = s[i]
  BY <1>1
<1> QED
  BY <1>2, Zenon DEF IsSeq

----------------------------------------------------------------------------
(* Crashes, recovery and restart. *)

\* Every step but these leaves the engine alone or is one of the engine's own.
LEMMA CrashSteps ==
    ASSUME [CrashNext]_allVars
    PROVE  \/ [Next]_vars
           \/ Crash /\ (UNCHANGED vars \/ (phase = "running" /\ \E file \in SurvivingFiles(wal) :
                                              FreshEngine(EmptyLedgerState, file)))
           \/ phase = "replay" /\ CutTail
           \/ Resume
<1>1. ASSUME Run PROVE Next
  BY <1>1, Zenon DEF Run, Next
<1>2. ASSUME SeedAndStart PROVE Next
  BY <1>2, Zenon DEF SeedAndStart, Next
<1>3. ASSUME \/ Checkpoint \/ FinalCheckpoint \/ LoadSnapshot \/ OpenReader \/ ReplayRecord
             \/ EndOfReplay \/ LoadSnapshotFails \/ OpenReaderFails \/ TruncateFails
             \/ UNCHANGED allVars
      PROVE  UNCHANGED vars
  BY <1>3, Zenon DEF Checkpoint, FinalCheckpoint, LoadSnapshot, OpenReader, ReplayRecord,
     EndOfReplay, LoadSnapshotFails, OpenReaderFails, TruncateFails, allVars
<1>4. ASSUME TruncateTail \/ ReadFails PROVE phase = "replay" /\ CutTail
  BY <1>4, Zenon DEF TruncateTail, ReadFails
<1>5. ASSUME Crash, ~ (phase = "running") PROVE UNCHANGED vars
  BY <1>5, Zenon DEF Crash, vars
<1>6. ASSUME Crash, phase = "running"
      PROVE  \E file \in SurvivingFiles(wal) : FreshEngine(EmptyLedgerState, file)
  BY <1>6 DEF Crash
<1> QED
  BY <1>1, <1>2, <1>3, <1>4, <1>5, <1>6, Zenon DEF CrashNext, Recover, RecoverFaults

\* A new process starts with nothing in flight.
LEMMA FreshTypes ==
    ASSUME NEW state, NEW file, FreshEngine(state, file), setup = FALSE, setup' = setup
    PROVE  Types' /\ NothingBeforeStart' /\ ~ Busy'
<1>1. setup' \in BOOLEAN /\ ~ Busy' /\ ~ setup'
  BY Zenon DEF FreshEngine, Busy
<1>2. Types'
  BY <1>1, EngineAssumption DEF FreshEngine, Types, Positions
<1> QED
  BY <1>1, <1>2, Zenon DEF NothingBeforeStart

\* The files a crash leaves are prefixes of the log.
LEMMA Survived ==
    ASSUME LogInv, NEW file \in SurvivingFiles(wal)
    PROVE  /\ IsSeq(file) /\ Len(file) \in wal.synced .. Len(wal.file)
           /\ \A i \in 1 .. Len(file) : file[i] = wal.file[i]
<1>1. /\ IsSeq(wal.file) /\ Len(wal.file) \in Nat /\ wal.synced \in 0 .. Len(wal.file)
  BY Zenon DEF LogInv, IsLog
<1>2. PICK n \in wal.synced .. Len(wal.file) : file = SubSeq(wal.file, 1, n)
  BY DEF SurvivingFiles
<1>3. n \in 0 .. Len(wal.file)
  BY <1>1
<1>4. /\ IsSeq(file) /\ Len(file) = n
      /\ \A i \in 1 .. n : file[i] = wal.file[i]
  BY <1>1, <1>2, <1>3, Prefix, Zenon
<1> QED
  BY <1>2, <1>4, Zenon

\* BinaryWalWriter::open on a file.
LEMMA ReopenedLog ==
    ASSUME NEW file, IsSeq(file), wal' = OpenLog(file, Len(file), wal.mode), wal.mode \in SyncMode
    PROVE  LogInv' /\ wal'.file = file /\ wal'.mode = wal.mode /\ wal'.synced = Len(file)
           /\ wal'.offset = Len(file)
<1>1. /\ IsRecord(wal') /\ wal'.file = file /\ wal'.synced = Len(file) /\ wal'.mode = wal.mode
  BY OpenedFields
<1>2. wal'.offset = Len(file)
  BY Zenon DEF OpenLog
<1>3. Len(file) \in Nat
  BY DEF IsSeq
<1>4. Len(file) \in 0 .. Len(file)
  BY <1>3
<1> QED
  BY <1>1, <1>2, <1>3, <1>4, Zenon DEF LogInv, IsLog

\* truncate_wal on the log.
LEMMA CutLog ==
    ASSUME LogInv, cursor \in Nat, NEW file, file = truncate_wal(wal.file, cursor)
    PROVE  /\ IsSeq(file) /\ Len(file) = cursor
           /\ \A i \in 1 .. cursor :
                 file[i] = IF i <= Len(wal.file) THEN wal.file[i] ELSE ZeroUnit
<1> DEFINE f == wal.file
           S == {f[i] : i \in 1 .. Len(f)} \cup {ZeroUnit}
<1>1. Len(f) \in Nat
  BY Zenon DEF LogInv, IsLog
<1> HIDE DEF f
<1>2. file = [i \in 1 .. cursor |-> IF i <= Len(f) THEN f[i] ELSE ZeroUnit]
  BY Zenon DEF truncate_wal, f
<1>3. \A i \in 1 .. cursor : (IF i <= Len(f) THEN f[i] ELSE ZeroUnit) \in S
  BY <1>1
<1> HIDE DEF S
<1>4. file \in Seq(S) /\ Len(file) = cursor
  BY <1>2, <1>3
<1>5. \A i \in 1 .. cursor : file[i] = IF i <= Len(f) THEN f[i] ELSE ZeroUnit
  BY <1>2
<1> QED
  BY <1>4, <1>5, Zenon DEF IsSeq, f

\* A record that is read is one that the log holds.
LEMMA RecordRead ==
    ASSUME LogInv, cursor \in Nat, ReadOutcome(wal.file, cursor) = "Ok"
    PROVE  /\ cursor + 1 \in 1 .. Len(wal.file) /\ cursor + 2 <= Len(wal.file)
           /\ wal.file[cursor + 1].part = "head"
<1>1. Len(wal.file) \in Nat
  BY Zenon DEF LogInv, IsLog
<1> QED
  BY <1>1 DEF ReadOutcome, RecordSize

\* Before the producers run, the only state is the one the accounts are added to.
SetupInv ==
    setup =>
        /\ phase = "running" /\ published = EmptyLedgerState
        /\ snapshot_file = NoSnapshot /\ recovered = EmptyLedgerState
        /\ wal.file = <<>>

\* The process, its log and the positions in it.
ProcessInv ==
    /\ Types /\ NothingBeforeStart /\ LogInv
    /\ cursor \in Nat /\ snapshot_file.wal_offset \in Nat
    /\ SetupInv

LEMMA SnapshotFields ==
    ASSUME NEW state, NEW offset
    PROVE  Snapshot(state, offset).state = state /\ Snapshot(state, offset).wal_offset = offset
BY Zenon DEF Snapshot

\* The steps before the producers run.
LEMMA SetupSteps ==
    ASSUME Types, LogInv, NothingBeforeStart, [Next]_vars, setup
    PROVE  UNCHANGED published /\ wal'.file = wal.file
<1>0. ring = <<>> /\ writer = NoRequest /\ writer.stage = "idle"
      /\ \A p \in Producers : pc[p] = "idle"
  BY IdleWriter, Zenon DEF NothingBeforeStart, Busy
<1>1. ~ Reject /\ ~ WalAppend /\ ~ WalAppendFails
  BY <1>0, Zenon DEF Reject, WalAppend, WalAppendFails, Dequeue
<1>2. ~ WalFlush /\ ~ WalFlushFails /\ ~ ApplyAndPublish /\ ~ Acknowledge
  BY <1>0 DEF WalFlush, WalFlushFails, ApplyAndPublish, Acknowledge
<1>3. \A p \in Producers : ~ Producer(p)
  BY <1>0, Zenon DEF Producer, Allocate, Submit, ObserveDone, Finish
<1>4. CASE FlushBatch
  <2>1. wal' = Flushed(wal) /\ UNCHANGED published
    BY <1>4, Zenon DEF FlushBatch, stateVars
  <2> QED
    BY <2>1, FlushSyncs, Zenon DEF LogInv
<1>5. CASE StartProducers \/ UNCHANGED vars \/ \E opening \in OpeningAccounts : AddAccount(opening)
  BY <1>5, Zenon DEF StartProducers, vars, stateVars, AddAccount
<1> QED
  BY <1>1, <1>2, <1>3, <1>4, <1>5, Zenon DEF Next, Writer

LEMMA SetupStep ==
    ASSUME ProcessInv, [CrashNext]_allVars
    PROVE  SetupInv'
<1> SUFFICES ASSUME setup'
             PROVE  /\ phase' = "running" /\ published' = EmptyLedgerState
                    /\ snapshot_file' = NoSnapshot /\ recovered' = EmptyLedgerState
                    /\ wal'.file = <<>>
  BY DEF SetupInv
<1>0. Types /\ NothingBeforeStart /\ LogInv /\ SetupInv
  BY DEF ProcessInv
<1>1. setup
  <2>1. ASSUME [Next]_vars PROVE setup
    <3>1. Quiet \/ Take \/ \E p \in Producers : Allocate(p) \/ Submit(p) \/ ObserveDone(p) \/ Finish(p)
      BY <1>0, <2>1, Steps
    <3> QED
      BY <3>1, Zenon DEF Quiet, Take, Allocate, Submit, ObserveDone, Finish
  <2> QED
    BY <2>1, CrashSteps, Zenon DEF Crash, CutTail, Resume
<1>2. /\ phase = "running" /\ published = EmptyLedgerState
      /\ snapshot_file = NoSnapshot /\ recovered = EmptyLedgerState
      /\ wal.file = <<>>
  BY <1>0, <1>1 DEF SetupInv
<1>4. ~ Crash /\ ~ Resume /\ phase # "replay"
  BY <1>1, <1>2 DEF Crash, Resume
<1>5. published' = EmptyLedgerState /\ wal'.file = <<>>
  <2>1. [Next]_vars
    BY <1>4, CrashSteps, Zenon
  <2> QED
    BY <1>0, <1>1, <1>2, <2>1, SetupSteps
<1>6. ~ SeedAndStart /\ ~ Checkpoint
  BY <1>1 DEF SeedAndStart, StartProducers, Checkpoint
<1>7. ~ FinalCheckpoint
  <2>1. DOMAIN EmptyLedgerState.accounts = {}
    BY DEF EmptyLedgerState
  <2> QED
    BY <1>2, <2>1, Zenon DEF FinalCheckpoint
<1>8. ~ Recover /\ ~ RecoverFaults
  BY <1>2, Zenon DEF Recover, RecoverFaults, LoadSnapshot, OpenReader, ReplayRecord, EndOfReplay,
     TruncateTail, LoadSnapshotFails, OpenReaderFails, ReadFails, TruncateFails
<1>9. UNCHANGED <<phase, snapshot_file, recovered>>
  <2>1. Run \/ UNCHANGED allVars
    BY <1>4, <1>6, <1>7, <1>8, Zenon DEF CrashNext
  <2> QED
    BY <2>1, Zenon DEF Run, allVars, recoveryVars
<1> QED
  BY <1>2, <1>5, <1>9, Zenon

LEMMA ProcessStep ==
    ASSUME ProcessInv, [CrashNext]_allVars
    PROVE  ProcessInv'
<1>0. /\ Types /\ NothingBeforeStart /\ LogInv /\ wal.mode \in SyncMode /\ IsSeq(wal.file)
      /\ cursor \in Nat /\ snapshot_file.wal_offset \in Nat
  BY Zenon DEF ProcessInv, LogInv, IsLog
<1>1. Types' /\ NothingBeforeStart' /\ LogInv'
  <2>1. CASE [Next]_vars
    BY <1>0, <2>1, TypesStep, NothingBeforeStartStep, LogStep
  <2>2. ASSUME NEW state, NEW file, IsSeq(file), FreshEngine(state, file), ~ setup, setup' = setup
        PROVE  Types' /\ NothingBeforeStart' /\ LogInv'
    <3>1. setup = FALSE
      BY <1>0, <2>2 DEF Types
    <3>2. wal' = OpenLog(file, Len(file), wal.mode)
      BY <2>2, Zenon DEF FreshEngine
    <3> QED
      BY <1>0, <2>2, <3>1, <3>2, FreshTypes, ReopenedLog, Zenon
  <2>3. ASSUME Crash, NEW file \in SurvivingFiles(wal), FreshEngine(EmptyLedgerState, file)
        PROVE  Types' /\ NothingBeforeStart' /\ LogInv'
    <3>1. IsSeq(file)
      BY <1>0, Survived, Zenon
    <3> QED
      BY <2>2, <2>3, <3>1, Zenon DEF Crash
  <2>4. CASE Resume
    <3>1. ~ setup
      BY <2>4 DEF Resume, ProcessInv, SetupInv
    <3> QED
      BY <1>0, <2>2, <2>4, <3>1, Zenon DEF Resume
  <2>5. CASE CutTail
    <3> DEFINE file == truncate_wal(wal.file, cursor)
    <3>1. IsSeq(file) /\ Len(file) = cursor
      BY <1>0, CutLog, Zenon
    <3>2. wal' = OpenLog(file, Len(file), wal.mode)
      BY <2>5, <3>1, Zenon DEF CutTail
    <3> HIDE DEF file
    <3>3. LogInv'
      BY <1>0, <3>1, <3>2, ReopenedLog, Zenon
    <3>4. UNCHANGED <<setup, ring, writer, next_tx_id, pc, iteration, tx>>
      BY <2>5, Zenon DEF CutTail, producerVars
    <3> QED
      BY <1>0, <3>3, <3>4, Zenon DEF Types, NothingBeforeStart, Busy
  <2> QED
    BY <2>1, <2>3, <2>4, <2>5, CrashSteps, Zenon
<1>2. cursor' \in Nat /\ snapshot_file'.wal_offset \in Nat
  <2>1. wal.offset \in Nat /\ 0 \in Nat
    BY <1>0 DEF LogInv
  <2>2. ASSUME \/ snapshot_file' = Snapshot(working, 0)
               \/ snapshot_file' = Snapshot(working, wal.offset)
               \/ snapshot_file' = Snapshot(published, wal.offset)
        PROVE  snapshot_file'.wal_offset \in Nat
    <3>1. snapshot_file'.wal_offset \in {0, wal.offset}
      BY <2>2, SnapshotFields
    <3> QED
      BY <2>1, <3>1
  <2>3. CASE SeedAndStart \/ Checkpoint \/ FinalCheckpoint
    BY <1>0, <2>2, <2>3, Zenon DEF SeedAndStart, Checkpoint, FinalCheckpoint, recoveryVars
  <2>4. CASE ReplayRecord
    <3>1. cursor' = cursor + 2 /\ UNCHANGED snapshot_file
      BY <2>4, Zenon DEF ReplayRecord, RecordSize
    <3> QED
      BY <1>0, <3>1
  <2>5. CASE \/ Run \/ Crash \/ LoadSnapshot \/ OpenReader \/ EndOfReplay \/ TruncateTail
             \/ RecoverFaults \/ Resume \/ UNCHANGED allVars
    BY <1>0, <2>1, <2>5, Zenon DEF Run, Crash, LoadSnapshot, OpenReader, EndOfReplay, TruncateTail,
       RecoverFaults, LoadSnapshotFails, OpenReaderFails, ReadFails, TruncateFails, CutTail,
       Resume, allVars, recoveryVars
  <2> QED
    BY <2>3, <2>4, <2>5, Zenon DEF CrashNext, Recover
<1> QED
  BY <1>1, <1>2, SetupStep, Zenon DEF ProcessInv

LEMMA InitLog == Init => LogInv /\ wal.file = <<>>
<1> SUFFICES ASSUME Init PROVE LogInv /\ wal.file = <<>>
  OBVIOUS
<1>1. PICK mode \in SyncModes : wal = OpenLog(<<>>, 0, mode)
  BY DEF Init
<1>2. IsRecord(wal) /\ wal.file = <<>> /\ wal.synced = 0 /\ wal.mode = mode /\ wal.offset = 0
  <2>1. wal.offset = Len(<<>>)
    BY <1>1, Zenon DEF OpenLog
  <2> QED
    BY <1>1, <2>1, OpenedFields
<1>3. <<>> \in Seq({}) /\ Len(<<>>) = 0 /\ 0 \in 0 .. 0 /\ 0 \in Nat
  OBVIOUS
<1>4. wal.mode \in SyncMode
  BY <1>2, EngineAssumption
<1>5. IsSeq(wal.file) /\ Len(wal.file) = 0
  BY <1>2, <1>3, Zenon DEF IsSeq
<1> QED
  BY <1>2, <1>3, <1>4, <1>5 DEF LogInv, IsLog

LEMMA InitProcess == CrashInit => ProcessInv
<1> SUFFICES ASSUME CrashInit PROVE ProcessInv
  OBVIOUS
<1>1. Types /\ NothingBeforeStart
  BY InitTypes DEF CrashInit
<1>3. LogInv /\ wal.file = <<>>
  BY InitLog DEF CrashInit
<1>5. NoSnapshot.wal_offset = 0 /\ 0 \in Nat
  BY DEF NoSnapshot
<1>6. SetupInv
  BY <1>3 DEF SetupInv, CrashInit, Init
<1> QED
  BY <1>1, <1>3, <1>5, <1>6, Zenon DEF ProcessInv, CrashInit

----------------------------------------------------------------------------
(* recover() leaves a log that ends where its last valid record does. *)

\* The calls whose failure the code takes for success, or for a missing file.
NoSilentFaults == Faults \cap {"fsync", "open_log", "open_snapshot"} = {}

Sync == wal.mode = "SyncEveryWrite"

\* What the writer knows of is synced, but for the record it is about to sync.
WriterSynced == IF writer.stage = "flush" THEN wal.dirty ELSE wal.offset <= wal.synced

\* With every write synced, the snapshot never points past what a crash keeps,
\* nor the reader past the end of the log.
PositionInv ==
    /\ Sync =>
          /\ snapshot_file.wal_offset <= wal.synced
          /\ phase = "running" => WriterSynced
          /\ phase # "running" => cursor <= Len(wal.file)
          /\ phase \in {"loaded", "replay"} => snapshot_file.wal_offset <= cursor
    /\ LogEndsAtValidLength

LEMMA SyncedGrows ==
    ASSUME LogInv, [Next]_vars
    PROVE  /\ wal'.synced \in Nat /\ wal.synced \in Nat /\ wal.synced <= wal'.synced
           /\ Len(wal.file) <= Len(wal'.file) /\ wal'.synced <= Len(wal'.file)
<1>0. IsLog(wal) /\ wal.synced \in 0 .. Len(wal.file) /\ Len(wal.file) \in Nat
  BY Zenon DEF LogInv, IsLog
<1>1. wal'.synced \in 0 .. Len(wal'.file) /\ Len(wal'.file) \in Nat
  BY LogStep, Zenon DEF LogInv, IsLog
<1>2. CASE wal' = wal
  BY <1>0, <1>1, <1>2
<1>3. ASSUME NEW t, wal' = AppendRecord(wal, t)
      PROVE  wal'.synced = wal.synced /\ Len(wal'.file) = Len(wal.file) + 2
  BY <1>0, <1>3, RecordAppended, Zenon DEF GrownBy
<1>4. ASSUME NEW t, wal' \in ShortAppends(wal, t)
      PROVE  wal'.synced = wal.synced /\ Len(wal'.file) >= Len(wal.file)
  BY <1>0, <1>4, PartAppended, Zenon
<1>5. CASE wal' = Flushed(wal)
  <2>1. wal'.file = wal.file /\ wal'.synced >= wal.synced
    BY <1>0, <1>5, FlushSyncs, Zenon
  <2> QED
    BY <1>0, <1>1, <2>1
<1>6. CASE wal'.synced = wal.synced /\ (Len(wal'.file) = Len(wal.file) + 2 \/ Len(wal'.file) >= Len(wal.file))
  BY <1>0, <1>1, <1>6
<1> QED
  BY <1>2, <1>3, <1>4, <1>5, <1>6, LogStepKinds, Zenon DEF LogSteps

LEMMA WriterSyncedStep ==
    ASSUME "fsync" \notin Faults, Types, LogInv, Sync, WriterSynced, [Next]_vars
    PROVE  WriterSynced'
<1>0. /\ IsLog(wal) /\ wal.mode = "SyncEveryWrite" /\ IsRecord(wal)
      /\ wal.synced \in 0 .. Len(wal.file) /\ Len(wal.file) \in Nat
      /\ wal.offset \in 0 .. Len(wal.file)
  BY Zenon DEF LogInv, IsLog, Sync
<1>1. CASE WalAppend
  <2>1. wal' = AppendRecord(wal, Head(ring).tx) /\ writer'.stage = "flush"
    BY <1>0, <1>1 DEF WalAppend
  <2>2. wal'.dirty
    BY <1>0, <2>1, RecordAppended, Zenon DEF GrownBy
  <2> QED
    BY <2>1, <2>2, Zenon DEF WriterSynced
<1>2. CASE WalAppendFails
  <2>1. wal' \in ShortAppends(wal, Head(ring).tx) /\ writer' = writer /\ writer = NoRequest
    BY <1>2, Zenon DEF WalAppendFails, Dequeue
  <2>2. writer.stage # "flush"
    BY <2>1, IdleWriter
  <2>3. wal'.synced = wal.synced /\ wal'.offset = wal.offset
    BY <1>0, <2>1, PartAppended, OffsetFields, Zenon
  <2> QED
    BY <2>1, <2>2, <2>3, Zenon DEF WriterSynced
<1>3. CASE WalFlush
  <2>1. writer.stage = "flush" /\ wal' = Flushed(wal) /\ writer' = [writer EXCEPT !.stage = "apply"]
    BY <1>3, Zenon DEF WalFlush
  <2>2. wal'.synced = Len(wal.file) /\ wal'.offset = wal.offset
    BY <1>0, <2>1, FlushSyncs, OffsetFields, Zenon DEF WriterSynced
  <2>3. writer'.stage = "apply"
    BY <2>1, IdleWriter DEF Types
  <2>4. wal'.offset <= wal'.synced
    BY <1>0, <2>2
  <2> QED
    BY <2>3, <2>4 DEF WriterSynced
<1>4. CASE ApplyAndPublish
  <2>1. writer.stage = "apply" /\ wal' = wal /\ writer' = [writer EXCEPT !.stage = "ack"]
    BY <1>4, Zenon DEF ApplyAndPublish
  <2>2. writer'.stage = "ack"
    BY <2>1, IdleWriter DEF Types
  <2> QED
    BY <2>1, <2>2 DEF WriterSynced
<1>5. CASE Acknowledge
  <2>1. writer.stage = "ack" /\ wal' = wal /\ writer' = NoRequest
    BY <1>5, Zenon DEF Acknowledge
  <2> QED
    BY <2>1, IdleWriter DEF WriterSynced
<1>6. CASE \/ StartProducers \/ Reject \/ UNCHANGED vars
           \/ \E p \in Producers : Producer(p)
           \/ \E opening \in OpeningAccounts : AddAccount(opening)
  <2>1. wal' = wal /\ writer' = writer
    BY <1>6, Zenon DEF StartProducers, Reject, vars, producerVars, Producer, Allocate, Submit,
       ObserveDone, Finish, AddAccount
  <2> QED
    BY <2>1, Zenon DEF WriterSynced
<1>7. ~ WalFlushFails
  BY Zenon DEF WalFlushFails
<1>8. ~ FlushBatch
  BY <1>0 DEF FlushBatch
<1> QED
  BY <1>1, <1>2, <1>3, <1>4, <1>5, <1>6, <1>7, <1>8, Zenon DEF Next, Writer

LEMMA PositionStep ==
    ASSUME NoSilentFaults, ProcessInv, PositionInv, [CrashNext]_allVars
    PROVE  PositionInv'
<1>0. /\ Types /\ LogInv /\ wal.mode \in SyncMode /\ IsSeq(wal.file)
      /\ cursor \in Nat /\ snapshot_file.wal_offset \in Nat
  BY Zenon DEF ProcessInv, LogInv, IsLog
<1>01. wal.synced \in 0 .. Len(wal.file) /\ Len(wal.file) \in Nat /\ wal.offset \in 0 .. Len(wal.file)
  BY <1>0, Zenon DEF LogInv, IsLog
<1>02. "fsync" \notin Faults /\ "open_log" \notin Faults /\ "open_snapshot" \notin Faults
  BY DEF NoSilentFaults
\* The engine runs.
<1>1. ASSUME phase = "running", phase' = "running", [Next]_vars,
             Sync => snapshot_file'.wal_offset <= wal.synced, snapshot_file'.wal_offset \in Nat
      PROVE  PositionInv'
  <2>1. wal'.mode = wal.mode
    BY <1>0, <1>1, LogStep, Zenon
  <2>2. Sync => snapshot_file'.wal_offset <= wal'.synced
    <3>1. wal'.synced \in Nat /\ wal.synced \in Nat /\ wal.synced <= wal'.synced
      BY <1>0, <1>1, SyncedGrows, Zenon
    <3> QED
      BY <1>1, <3>1
  <2>3. Sync => WriterSynced'
    BY <1>0, <1>02, <1>1, WriterSyncedStep, Zenon DEF PositionInv
  <2> QED
    BY <1>1, <2>1, <2>2, <2>3 DEF PositionInv, Sync, LogEndsAtValidLength
<1>2. CASE Run
  BY <1>0, <1>1, <1>2, Zenon DEF Run, Next, recoveryVars, PositionInv
<1>3. CASE SeedAndStart
  <2>1. phase = "running" /\ phase' = "running" /\ Next
    BY <1>3, Zenon DEF SeedAndStart, Next, recoveryVars
  <2>2. snapshot_file'.wal_offset = 0 \/ snapshot_file' = snapshot_file
    BY <1>3, SnapshotFields, Zenon DEF SeedAndStart
  <2>3. snapshot_file'.wal_offset \in Nat /\ (Sync => snapshot_file'.wal_offset <= wal.synced)
    BY <1>0, <1>01, <2>2 DEF PositionInv
  <2> QED
    BY <1>1, <2>1, <2>3
<1>4. CASE Checkpoint \/ FinalCheckpoint
  <2>1. /\ phase = "running" /\ phase' = "running" /\ UNCHANGED vars /\ writer = NoRequest
        /\ snapshot_file' = Snapshot(working, wal.offset) \/ snapshot_file' = Snapshot(published, wal.offset)
    BY <1>4, Zenon DEF Checkpoint, FinalCheckpoint, recoveryVars
  <2>2. snapshot_file'.wal_offset = wal.offset
    BY <2>1, SnapshotFields
  <2>3. Sync => wal.offset <= wal.synced
    BY <2>1, IdleWriter DEF PositionInv, WriterSynced
  <2>4. wal.offset \in Nat
    BY <1>01
  <2> QED
    BY <1>1, <2>1, <2>2, <2>3, <2>4, Zenon
\* It does not run, and the log stays as it is.
<1>5. ASSUME phase # "running", phase' # "running", UNCHANGED <<wal, snapshot_file>>,
             cursor' \in Nat,
             Sync => cursor' <= Len(wal.file),
             phase' \in {"loaded", "replay"} => (Sync => snapshot_file.wal_offset <= cursor'),
             LogEndsAtValidLength'
      PROVE  PositionInv'
  BY <1>5 DEF PositionInv, Sync
<1>6. CASE LoadSnapshot \/ LoadSnapshotFails \/ OpenReader \/ TruncateFails \/ ReplayRecord
  <2>1. UNCHANGED <<wal, snapshot_file>> /\ phase # "running" /\ phase' \in {"loaded", "replay", "failed"}
    BY <1>6, Zenon DEF LoadSnapshot, LoadSnapshotFails, OpenReader, TruncateFails, ReplayRecord, vars
  <2>2. /\ cursor' \in Nat /\ (Sync => cursor' <= Len(wal.file))
        /\ phase' \in {"loaded", "replay"} => (Sync => snapshot_file.wal_offset <= cursor')
    <3>1. CASE LoadSnapshot
      BY <1>0, <1>01, <3>1 DEF LoadSnapshot, PositionInv
    <3>2. CASE LoadSnapshotFails
      BY <1>0, <1>02, <3>2 DEF LoadSnapshotFails, PositionInv
    <3>3. CASE OpenReader
      BY <1>0, <3>3 DEF OpenReader, PositionInv
    <3>4. CASE TruncateFails
      BY <1>0, <3>4 DEF TruncateFails, PositionInv
    <3>5. CASE ReplayRecord
      <4>1. /\ cursor' = cursor + 2 /\ phase = "replay" /\ phase' = phase
            /\ ReadOutcome(wal.file, cursor) = "Ok"
        BY <3>5, Zenon DEF ReplayRecord, RecordSize
      <4>2. cursor + 2 <= Len(wal.file)
        BY <1>0, <4>1, RecordRead, Zenon
      <4> QED
        BY <1>0, <1>01, <4>1, <4>2 DEF PositionInv
    <3> QED
      BY <1>6, <3>1, <3>2, <3>3, <3>4, <3>5, Zenon
  <2>3. LogEndsAtValidLength'
    BY <2>1 DEF LogEndsAtValidLength
  <2>4. phase' # "running"
    BY <2>1
  <2> QED
    BY <1>5, <2>1, <2>2, <2>3, <2>4, Zenon
<1>7. CASE EndOfReplay
  <2>1. /\ phase = "replay" /\ phase' \in {"recovered", "refused"} /\ cursor' = cursor
        /\ UNCHANGED <<wal, snapshot_file>> /\ ReadOutcome(wal.file, cursor) = "EndOfLog"
    BY <1>7 DEF EndOfReplay, Verified, vars
  <2>2. cursor >= Len(wal.file)
    BY <2>1 DEF ReadOutcome
  <2>3. Sync => cursor = Len(wal.file)
    BY <1>0, <1>01, <2>1, <2>2 DEF PositionInv
  <2> QED
    BY <1>0, <1>01, <1>5, <2>1, <2>2, <2>3 DEF LogEndsAtValidLength, Sync
<1>8. CASE TruncateTail \/ ReadFails
  <2> DEFINE file == truncate_wal(wal.file, cursor)
  <2>1. /\ phase = "replay" /\ phase' \in {"recovered", "refused"} /\ cursor' = cursor
        /\ UNCHANGED snapshot_file /\ wal' = OpenLog(file, cursor, wal.mode)
    BY <1>8 DEF TruncateTail, ReadFails, CutTail, Verified
  <2>2. IsSeq(file) /\ Len(file) = cursor
    BY <1>0, CutLog, Zenon
  <2> HIDE DEF file
  <2>3. wal'.file = file /\ wal'.mode = wal.mode /\ wal'.synced = cursor
    BY <2>1, OpenedFields
  <2>4. Len(wal'.file) = cursor' /\ wal'.synced = cursor' /\ cursor' \in Nat
    BY <1>0, <2>1, <2>2, <2>3
  <2>5. Sync => snapshot_file'.wal_offset <= cursor'
    BY <2>1 DEF PositionInv
  <2>6. phase' # "running" /\ cursor' <= cursor'
    BY <1>0, <2>1
  <2> QED
    BY <2>3, <2>4, <2>5, <2>6, Zenon DEF PositionInv, LogEndsAtValidLength, Sync
<1>9. CASE Crash
  <2>1. phase' = "crashed" /\ cursor' = 0 /\ UNCHANGED snapshot_file
    BY <1>9, Zenon DEF Crash
  <2>2. LogEndsAtValidLength'
    BY <2>1 DEF LogEndsAtValidLength
  <2>3. CASE phase # "running"
    <3>1. wal' = wal
      BY <1>9, <2>3, Zenon DEF Crash
    <3> QED
      BY <1>01, <1>5, <2>1, <2>2, <2>3, <3>1
  <2>4. CASE phase = "running"
    <3>1. PICK file \in SurvivingFiles(wal) : wal' = OpenLog(file, Len(file), wal.mode)
      BY <1>9, <2>4 DEF Crash, FreshEngine
    <3>2. Len(file) \in wal.synced .. Len(wal.file) /\ IsSeq(file)
      BY <1>0, Survived, Zenon
    <3>3. wal'.file = file /\ wal'.mode = wal.mode /\ wal'.synced = Len(file)
      BY <1>0, <3>1, <3>2, ReopenedLog, Zenon
    <3>4. Len(file) \in Nat /\ Len(file) >= wal.synced
      BY <1>01, <3>2
    <3>5. Sync => snapshot_file.wal_offset <= Len(file)
      BY <1>0, <1>01, <3>4 DEF PositionInv
    <3> QED
      BY <2>1, <2>2, <3>3, <3>4, <3>5 DEF PositionInv, Sync
  <2> QED
    BY <2>3, <2>4
<1>10. CASE Resume
  <2>1. phase' = "running" /\ UNCHANGED snapshot_file /\ wal' = OpenLog(wal.file, Len(wal.file), wal.mode)
        /\ writer' = NoRequest
    BY <1>10, Zenon DEF Resume, FreshEngine
  <2>2. /\ wal'.file = wal.file /\ wal'.mode = wal.mode /\ wal'.synced = Len(wal.file)
        /\ wal'.offset = Len(wal.file)
    BY <1>0, <2>1, ReopenedLog, Zenon
  <2>3. Sync => snapshot_file.wal_offset <= wal'.synced
    BY <1>0, <1>01, <2>2 DEF PositionInv
  <2>4. WriterSynced'
    BY <1>01, <2>1, <2>2, IdleWriter DEF WriterSynced
  <2> QED
    BY <2>1, <2>2, <2>3, <2>4, Zenon DEF PositionInv, Sync, LogEndsAtValidLength
<1>11. CASE UNCHANGED allVars
  BY <1>11, Zenon DEF allVars, vars, recoveryVars, PositionInv, Sync, WriterSynced, LogEndsAtValidLength
<1>12. ~ OpenReaderFails
  BY <1>02 DEF OpenReaderFails
<1> QED
  BY <1>2, <1>3, <1>4, <1>6, <1>7, <1>8, <1>9, <1>10, <1>11, <1>12, Zenon
  DEF CrashNext, Recover, RecoverFaults

LEMMA InitPosition == CrashInit => PositionInv
<1> SUFFICES ASSUME CrashInit PROVE PositionInv
  OBVIOUS
<1>1. PICK mode \in SyncModes : wal = OpenLog(<<>>, 0, mode)
  BY DEF CrashInit, Init
<1>2. wal.synced = 0 /\ wal.offset = Len(<<>>)
  BY <1>1, OpenedFields DEF OpenLog
<1>3. phase = "running" /\ writer.stage = "idle" /\ snapshot_file.wal_offset = 0
  BY IdleWriter DEF CrashInit, Init, NoSnapshot
<1> QED
  BY <1>2, <1>3 DEF PositionInv, WriterSynced, LogEndsAtValidLength

\* LogEndsAtValidLength (recovery.hpp:19), whatever is torn, restarted or fails
\* to be written, read, truncated or saved: the next append starts where the
\* last valid record ends.  An fsync that fails, and a log or a snapshot that
\* cannot be opened, are the exceptions: the code then goes on as though the
\* record were not in the file, or the file not there.
THEOREM RecoveredLogEnds ==
    ASSUME NoSilentFaults
    PROVE  CrashSpec => []LogEndsAtValidLength
<1>1. ProcessInv /\ PositionInv /\ [CrashNext]_allVars => ProcessInv' /\ PositionInv'
  BY ProcessStep, PositionStep
<1>2. PositionInv => LogEndsAtValidLength
  BY DEF PositionInv
<1> QED
  BY <1>1, <1>2, InitProcess, InitPosition, PTL DEF CrashSpec

=============================================================================
