-------------------------- MODULE RingBufferProofs --------------------------
(***************************************************************************)
(* The safety of MpscRingBuffer, and that it is a BoundedQueue, for any    *)
(* number of producers, any items and any capacity of at least two cells.  *)
(***************************************************************************)
EXTENDS RingBuffer, TLAPS

----------------------------------------------------------------------------
(* Division with remainder, which the cells of the ring rest on. *)

\* A positive multiple of m is at least m.
LEMMA MulAtLeast ==
    ASSUME NEW m \in Nat, NEW k \in Int, k >= 1
    PROVE  k * m >= m
<1>1. k - 1 \in Nat
  OBVIOUS
<1>2. k * m = m + (k - 1) * m
  BY <1>1
<1>3. (k - 1) * m >= 0
  BY <1>1
<1> QED
  BY <1>2, <1>3

\* Quotient and remainder.
LEMMA DivMod ==
    ASSUME NEW m \in Nat \ {0}, NEW a \in Int
    PROVE  /\ (a % m) \in 0 .. m - 1
           /\ a \div m \in Int
           /\ a = m * (a \div m) + (a % m)
OBVIOUS

\* They are unique.
LEMMA QuotientUnique ==
    ASSUME NEW m \in Nat \ {0}, NEW x \in Int, NEW y \in Int,
           NEW r \in 0 .. m - 1, NEW s \in 0 .. m - 1,
           m * x + r = m * y + s
    PROVE  x = y /\ r = s
<1>1. (x - y) * m = s - r
  OBVIOUS
<1>2. ~ (x - y >= 1)
  BY <1>1, MulAtLeast
<1>3. ~ (y - x >= 1)
  <2> SUFFICES ASSUME y - x >= 1 PROVE FALSE
    OBVIOUS
  <2>1. (y - x) * m = r - s
    BY <1>1
  <2> QED
    BY <2>1, MulAtLeast
<1>4. x = y
  BY <1>2, <1>3
<1> QED
  BY <1>4

\* The remainder of a number of known quotient.
LEMMA ModKnown ==
    ASSUME NEW m \in Nat \ {0}, NEW k \in Int, NEW r \in 0 .. m - 1
    PROVE  ((m * k + r) % m) = r
<1> DEFINE a == m * k + r
           q == a \div m
           s == a % m
<1>1. a \in Int /\ a = m * k + r
  OBVIOUS
<1>2. q \in Int /\ s \in 0 .. m - 1 /\ a = m * q + s
  BY <1>1, DivMod
<1> HIDE DEF a, q, s
<1>3. s = r
  BY <1>1, <1>2, QuotientUnique, Zenon
<1> QED
  BY <1>3 DEF a, s

\* Multiples of m do not change the remainder.
LEMMA ModShift ==
    ASSUME NEW m \in Nat \ {0}, NEW a \in Int, NEW k \in Int
    PROVE  ((a + k * m) % m) = (a % m)
<1> DEFINE b == a + k * m
           qa == a \div m
           qb == b \div m
           ra == a % m
           rb == b % m
<1>1. b \in Int /\ b = a + k * m
  OBVIOUS
<1>2. qa \in Int /\ ra \in 0 .. m - 1 /\ a = m * qa + ra
  BY DivMod
<1>3. qb \in Int /\ rb \in 0 .. m - 1 /\ b = m * qb + rb
  BY <1>1, DivMod, Zenon
<1> HIDE DEF b, qa, qb, ra, rb
<1>4. m * (qa + k) = m * qa + k * m /\ qa + k \in Int
  BY <1>2
<1>5. m * qb + rb = m * (qa + k) + ra
  BY <1>1, <1>2, <1>3, <1>4
<1>6. rb = ra
  BY <1>2, <1>3, <1>4, <1>5, QuotientUnique
<1> QED
  BY <1>6 DEF b, ra, rb

\* Numbers with the same remainder that are closer than m are equal.
LEMMA ModClose ==
    ASSUME NEW m \in Nat \ {0}, NEW a \in Int, NEW b \in Int,
           (a % m) = (b % m), a <= b, b < a + m
    PROVE  a = b
<1> DEFINE qa == a \div m
           qb == b \div m
           r == a % m
<1>1. qa \in Int /\ qb \in Int /\ r \in Int /\ a = m * qa + r /\ b = m * qb + r
  BY DivMod
<1> HIDE DEF qa, qb, r
<1>2. b - a = (qb - qa) * m
  BY <1>1
<1>3. ~ (qb - qa >= 1)
  BY <1>1, <1>2, MulAtLeast
<1>4. ~ (qa - qb >= 1)
  <2> SUFFICES ASSUME qa - qb >= 1 PROVE FALSE
    OBVIOUS
  <2>1. (qa - qb) * m = a - b
    BY <1>1, <1>2
  <2> QED
    BY <1>1, <2>1, MulAtLeast
<1>5. qb = qa
  BY <1>1, <1>3, <1>4
<1> QED
  BY <1>1, <1>5

----------------------------------------------------------------------------

Inv == TypeOK /\ CellProtocol

\* Positions less than one lap apart share a cell only if they are equal, and
\* a position one lap on has the same cell.
LEMMA CellFacts ==
    /\ \A n \in Nat : Cell(n) \in Cells
    /\ \A a, b \in Nat : a <= b /\ b < a + Capacity /\ Cell(a) = Cell(b) => a = b
    /\ \A n \in Nat : Cell(n + Capacity) = Cell(n)
<1>1. Capacity \in Nat \ {0}
  BY RingAssumption
<1>2. \A n \in Nat : Cell(n) \in Cells
  BY <1>1, DivMod DEF Cell, Cells
<1>3. \A a, b \in Nat : a <= b /\ b < a + Capacity /\ Cell(a) = Cell(b) => a = b
  <2> SUFFICES ASSUME NEW a \in Nat, NEW b \in Nat,
                      a <= b, b < a + Capacity, (a % Capacity) = (b % Capacity)
               PROVE  a = b
    BY DEF Cell
  <2>1. a \in Int /\ b \in Int
    OBVIOUS
  <2> QED
    BY <1>1, <2>1, ModClose, Zenon
<1>4. \A n \in Nat : Cell(n + Capacity) = Cell(n)
  <2> TAKE n \in Nat
  <2>1. ((n + 1 * Capacity) % Capacity) = (n % Capacity)
    <3>1. n \in Int /\ 1 \in Int
      OBVIOUS
    <3> QED
      BY <1>1, <3>1, ModShift, Zenon
  <2>2. n + 1 * Capacity = n + Capacity
    BY <1>1
  <2> QED
    BY <2>1, <2>2 DEF Cell
<1> QED
  BY <1>2, <1>3, <1>4

\* Every cell belongs to one position of any window of Capacity positions.
LEMMA CellCovered ==
    ASSUME NEW d \in Nat, NEW c \in Cells
    PROVE  \E n \in d .. d + Capacity - 1 : Cell(n) = c
<1>1. Capacity \in Nat \ {0} /\ c \in 0 .. Capacity - 1
  BY RingAssumption DEF Cells
<1> DEFINE r == (c - d) % Capacity
           q == (c - d) \div Capacity
<1>2. r \in 0 .. Capacity - 1 /\ q \in Int /\ c - d = Capacity * q + r
  BY <1>1, DivMod
<1> HIDE DEF r, q
<1>3. d + r = Capacity * (0 - q) + c /\ 0 - q \in Int
  BY <1>1, <1>2
<1>4. ((Capacity * (0 - q) + c) % Capacity) = c
  BY <1>1, <1>3, ModKnown, Zenon
<1>5. Cell(d + r) = c
  BY <1>3, <1>4 DEF Cell
<1> QED
  BY <1>1, <1>2, <1>5

\* Closer than half the modulus, the wrapped difference is the difference.
LEMMA SignedDiffExact ==
    ASSUME NEW a \in Int, NEW b \in Int, 2 * (a - b) < Modulus, 2 * (b - a) < Modulus
    PROVE  SignedDiff(a, b) = a - b
<1>1. Modulus \in Nat \ {0}
  BY RingAssumption
<1> DEFINE x == a - b
<1>2. x \in Int /\ 2 * x < Modulus /\ 0 - Modulus < 2 * x
  BY <1>1
<1> HIDE DEF x
<1>3. CASE x >= 0
  <2>1. 0 \in Int /\ x \in 0 .. Modulus - 1
    BY <1>1, <1>2, <1>3
  <2>2. ((Modulus * 0 + x) % Modulus) = x
    BY <1>1, <2>1, ModKnown, Zenon
  <2>3. Modulus * 0 + x = x
    BY <1>1, <1>2
  <2>4. (x % Modulus) = x
    BY <2>2, <2>3
  <2> QED
    BY <1>2, <2>4 DEF SignedDiff, x
<1>4. CASE x < 0
  <2>1. 0 - 1 \in Int /\ x + Modulus \in 0 .. Modulus - 1
    BY <1>1, <1>2, <1>4
  <2>2. ((Modulus * (0 - 1) + (x + Modulus)) % Modulus) = x + Modulus
    BY <1>1, <2>1, ModKnown, Zenon
  <2>3. Modulus * (0 - 1) + (x + Modulus) = x
    BY <1>1, <1>2
  <2>4. (x % Modulus) = x + Modulus
    BY <2>2, <2>3
  <2>5. ~ (2 * (x + Modulus) < Modulus) /\ (x + Modulus) - Modulus = x
    BY <1>1, <1>2
  <2> QED
    BY <2>4, <2>5 DEF SignedDiff, x
<1> QED
  BY <1>2, <1>3, <1>4

\* What a comparison may meet: the sequence number of a cell is that of its
\* position in the window of Capacity positions from dequeue_pos on, or one more.
LEMMA SequenceWindow ==
    ASSUME TypeOK, CellProtocol, NEW c \in Cells
    PROVE  \E n \in dequeue_pos .. dequeue_pos + Capacity - 1 :
             Cell(n) = c /\ sequence[c] \in {n, n + 1}
<1>1. dequeue_pos \in Nat /\ enqueue_pos \in Nat /\ Capacity \in Nat
  BY RingAssumption DEF TypeOK
<1>2. PICK n \in dequeue_pos .. dequeue_pos + Capacity - 1 : Cell(n) = c
  BY <1>1, CellCovered, Zenon
<1>3. sequence[Cell(n)] \in {n, n + 1}
  <2>1. n \in dequeue_pos .. enqueue_pos - 1 \/ n \in enqueue_pos .. dequeue_pos + Capacity - 1
    BY <1>1
  <2> QED
    BY <2>1 DEF CellProtocol
<1> QED
  BY <1>2, <1>3

\* So the comparisons of try_push and of try_pop are exact.
LEMMA PushComparison ==
    ASSUME TypeOK, CellProtocol, NEW p \in Producers, pc[p] \in {"load_seq", "cas"}
    PROVE  /\ SignedDiff(sequence[Cell(pos[p])], pos[p]) = sequence[Cell(pos[p])] - pos[p]
           /\ Same(enqueue_pos, pos[p]) => enqueue_pos = pos[p]
<1>1. /\ Capacity \in Nat \ {0} /\ MaxStall \in Nat /\ Modulus \in Nat
      /\ 2 * (Capacity + MaxStall) < Modulus
  BY RingAssumption
<1>2. /\ pos[p] \in Nat /\ enqueue_pos \in Nat /\ dequeue_pos \in Nat
      /\ pos[p] <= enqueue_pos /\ enqueue_pos <= pos[p] + MaxStall
      /\ dequeue_pos <= enqueue_pos /\ enqueue_pos <= dequeue_pos + Capacity
  BY DEF TypeOK, CellProtocol, WithinCapacity
<1>3. PICK n \in dequeue_pos .. dequeue_pos + Capacity - 1 :
        sequence[Cell(pos[p])] \in {n, n + 1}
  BY <1>2, SequenceWindow, CellFacts
<1> DEFINE seq == sequence[Cell(pos[p])]
<1>4. seq \in Int /\ 2 * (seq - pos[p]) < Modulus /\ 2 * (pos[p] - seq) < Modulus
  BY <1>1, <1>2, <1>3
<1> HIDE DEF seq
<1>5. SignedDiff(seq, pos[p]) = seq - pos[p]
  BY <1>2, <1>4, SignedDiffExact
<1>6. ASSUME Same(enqueue_pos, pos[p]) PROVE enqueue_pos = pos[p]
  <2>1. /\ Modulus \in Nat \ {0} /\ pos[p] \in Int /\ enqueue_pos \in Int
        /\ pos[p] <= enqueue_pos /\ enqueue_pos < pos[p] + Modulus
    BY <1>1, <1>2
  <2>2. (pos[p] % Modulus) = (enqueue_pos % Modulus)
    BY <1>6 DEF Same
  <2> QED
    BY <2>1, <2>2, ModClose, Zenon
<1> QED
  BY <1>5, <1>6 DEF seq

LEMMA PopComparison ==
    ASSUME TypeOK, CellProtocol
    PROVE  /\ sequence[Cell(dequeue_pos)] \in {dequeue_pos, dequeue_pos + 1}
           /\ (SignedDiff(sequence[Cell(dequeue_pos)], dequeue_pos + 1) = 0)
                <=> (sequence[Cell(dequeue_pos)] = dequeue_pos + 1)
<1>1. Capacity \in Nat \ {0} /\ Modulus \in Nat /\ 2 < Modulus /\ dequeue_pos \in Nat /\ enqueue_pos \in Nat
  BY RingAssumption DEF TypeOK
<1>2. sequence[Cell(dequeue_pos)] \in {dequeue_pos, dequeue_pos + 1}
  <2>1. \/ dequeue_pos \in dequeue_pos .. enqueue_pos - 1
        \/ dequeue_pos \in enqueue_pos .. dequeue_pos + Capacity - 1
    BY <1>1 DEF CellProtocol, WithinCapacity
  <2> QED
    BY <2>1 DEF CellProtocol
<1> DEFINE seq == sequence[Cell(dequeue_pos)]
<1>3. seq \in {dequeue_pos, dequeue_pos + 1}
  BY <1>2
<1> HIDE DEF seq
<1>4. SignedDiff(seq, dequeue_pos + 1) = seq - (dequeue_pos + 1)
  BY <1>1, <1>3, SignedDiffExact
<1> QED
  BY <1>1, <1>2, <1>3, <1>4 DEF seq

\* An empty queue: every cell shows its own position.
LEMMA InitInv == Init => Inv
<1> SUFFICES ASSUME Init PROVE Inv
  OBVIOUS
<1>1. Capacity \in Nat \ {0}
  BY RingAssumption
<1>2. TypeOK
  BY <1>1 DEF Init, TypeOK, Cells
<1>3. \A n \in 0 .. Capacity - 1 : n \in Cells /\ Cell(n) = n
  <2> TAKE n \in 0 .. Capacity - 1
  <2>1. Cell(n) \in 0 .. Capacity - 1 /\ n \in Nat
    BY <1>1, CellFacts DEF Cells
  <2>2. n = Capacity * 0 + n /\ n = Capacity * (n \div Capacity) + (n % Capacity)
    BY <1>1, DivMod
  <2>3. (n \div Capacity) \in Int
    BY <1>1, DivMod
  <2> DEFINE q == n \div Capacity
             r == n % Capacity
  <2>4. q \in Int /\ r \in 0 .. Capacity - 1 /\ Capacity * q + r = Capacity * 0 + n
    BY <2>1, <2>2, <2>3 DEF Cell
  <2> HIDE DEF q, r
  <2>5. r = n
    BY <1>1, <2>4, QuotientUnique
  <2> QED
    BY <2>5 DEF Cell, Cells, r
<1>4. CellProtocol
  BY <1>1, <1>3 DEF Init, CellProtocol, WithinCapacity, Owns
<1> QED
  BY <1>2, <1>4 DEF Inv

\* Types: the consumer only drops a place that was claimed.
LEMMA TypeStep == Inv /\ [Next]_vars => TypeOK'
<1> SUFFICES ASSUME Inv, [Next]_vars PROVE TypeOK'
  OBVIOUS
<1>1. TypeOK /\ CellProtocol /\ Capacity \in Nat \ {0}
  BY RingAssumption DEF Inv
<1>2. \A n \in Nat : Cell(n) \in Cells
  BY CellFacts
<1> USE <1>1, <1>2
<1>3. ASSUME NEW p \in Producers, LoadPos(p) PROVE TypeOK'
  BY <1>3, SMTT(30) DEF LoadPos, TypeOK, consumerVars
<1>4. ASSUME NEW p \in Producers, LoadSeq(p) PROVE TypeOK'
  BY <1>4, Zenon DEF LoadSeq, TypeOK, consumerVars
<1>5. ASSUME NEW p \in Producers, ReloadPos(p) PROVE TypeOK'
  BY <1>5, SMTT(30) DEF ReloadPos, TypeOK, consumerVars
<1>6. ASSUME NEW p \in Producers, CasSucceeds(p) PROVE TypeOK'
  <2>1. claimed' \in Seq([owner : Producers, item : Items \cup {NoItem}])
    <3>1. [owner |-> p, item |-> item[p]] \in [owner : Producers, item : Items \cup {NoItem}]
      BY DEF TypeOK
    <3> QED
      BY <1>6, <3>1 DEF CasSucceeds, TypeOK
  <2>2. enqueue_pos' \in Nat
    BY <1>6 DEF CasSucceeds, TypeOK
  <2>3. UNCHANGED <<sequence, data, pos, item, result, dequeue_pos, consumer, out, popped>>
    BY <1>6 DEF CasSucceeds, consumerVars
  <2>4. pc' = [pc EXCEPT ![p] = "write"]
    BY <1>6 DEF CasSucceeds
  <2> QED
    BY <2>1, <2>2, <2>3, <2>4, Zenon DEF TypeOK
<1>7. ASSUME NEW p \in Producers, CasFails(p) PROVE TypeOK'
  BY <1>7, SMTT(30) DEF CasFails, TypeOK, consumerVars
<1>8. ASSUME NEW p \in Producers, WriteData(p) PROVE TypeOK'
  BY <1>8, SMTT(30) DEF WriteData, TypeOK, consumerVars
<1>9. ASSUME NEW p \in Producers, StoreSeq(p) PROVE TypeOK'
  <2>1. sequence' \in [Cells -> Nat]
    BY <1>9, SMTT(30) DEF StoreSeq, TypeOK
  <2>2. UNCHANGED <<data, enqueue_pos, pos, item, dequeue_pos, consumer, out, popped, claimed>>
    BY <1>9 DEF StoreSeq, consumerVars
  <2>3. pc' = [pc EXCEPT ![p] = "idle"] /\ result' = [result EXCEPT ![p] = "true"]
    BY <1>9 DEF StoreSeq
  <2> QED
    BY <2>1, <2>2, <2>3, Zenon DEF TypeOK
<1>10. CASE PopLoadSeq
  BY <1>10, Zenon DEF PopLoadSeq, TypeOK, producerVars
<1>11. CASE ReadData
  BY <1>11, SMTT(30) DEF ReadData, TypeOK, producerVars
<1>12. CASE ReleaseCell
  <2>1. claimed # <<>>
    <3>1. dequeue_pos # enqueue_pos
      BY <1>12 DEF ReleaseCell, CellProtocol, TypeOK
    <3> QED
      BY <3>1 DEF CellProtocol, TypeOK
  <2>2. claimed' \in Seq([owner : Producers, item : Items \cup {NoItem}])
    BY <1>12, <2>1 DEF ReleaseCell, TypeOK
  <2>3. sequence' \in [Cells -> Nat] /\ dequeue_pos' \in Nat
    BY <1>12 DEF ReleaseCell, TypeOK
  <2>5. popped' \in Items \cup {NoItem, "empty"}
    BY <1>12 DEF ReleaseCell, TypeOK
  <2>4. UNCHANGED <<data, enqueue_pos, pc, pos, item, result, out>> /\ consumer' = "idle"
    BY <1>12 DEF ReleaseCell, producerVars
  <2> QED
    BY <2>2, <2>3, <2>4, <2>5, Zenon DEF TypeOK
<1>13. CASE UNCHANGED vars
  BY <1>13 DEF TypeOK, vars, producerVars, consumerVars
<1> QED
  BY <1>3, <1>4, <1>5, <1>6, <1>7, <1>8, <1>9, <1>10, <1>11, <1>12, <1>13
  DEF Next, Push, Consumer

\* The protocol: only the exchange, the store of a producer's sequence number
\* and the consumer's release disturb it.
LEMMA ProtocolStep ==
    ASSUME Capacity >= 2, Inv, [Next]_vars
    PROVE  CellProtocol'
<1>1. TypeOK /\ CellProtocol /\ Capacity \in Nat /\ MaxStall \in Nat
  BY RingAssumption DEF Inv
<1> USE <1>1
<1>3. ASSUME NEW p \in Producers, LoadPos(p) PROVE CellProtocol'
  BY <1>3 DEF LoadPos, TypeOK, CellProtocol, WithinCapacity, Owns, consumerVars
<1>4. ASSUME NEW p \in Producers, LoadSeq(p) PROVE CellProtocol'
  <2>1. ASSUME pos[p] = enqueue_pos, sequence[Cell(pos[p])] = pos[p]
        PROVE  enqueue_pos < dequeue_pos + Capacity
    <3> SUFFICES ASSUME enqueue_pos = dequeue_pos + Capacity PROVE FALSE
      BY DEF CellProtocol, WithinCapacity, TypeOK
    <3>1. Cell(enqueue_pos) = Cell(dequeue_pos)
      BY CellFacts DEF TypeOK
    <3>2. sequence[Cell(dequeue_pos)] \in {dequeue_pos, dequeue_pos + 1}
      BY DEF CellProtocol, TypeOK
    <3> QED
      BY <2>1, <3>1, <3>2 DEF TypeOK
  <2>2. /\ UNCHANGED <<sequence, enqueue_pos, dequeue_pos, pos, consumer, claimed>>
        /\ \E c \in {"cas", "idle", "reload"} : pc' = [pc EXCEPT ![p] = c]
        /\ pc'[p] = "cas" => sequence[Cell(pos[p])] = pos[p]
        /\ pc[p] = "load_seq"
    <3>1. sequence[Cell(pos[p])] \in Nat /\ pos[p] \in Nat
      BY CellFacts DEF TypeOK
    <3> DEFINE seq == sequence[Cell(pos[p])]
               diff == SignedDiff(seq, pos[p])
    <3>2. diff = 0 => seq = pos[p]
      <4>1. diff = seq - pos[p]
        BY <1>4, PushComparison DEF LoadSeq
      <4> HIDE DEF diff
      <4> QED
        BY <3>1, <4>1
    <3> HIDE DEF seq, diff
    <3>3. /\ \/ diff = 0 /\ pc' = [pc EXCEPT ![p] = "cas"]
             \/ pc' = [pc EXCEPT ![p] = "idle"]
             \/ pc' = [pc EXCEPT ![p] = "reload"]
          /\ pc[p] = "load_seq"
      BY <1>4 DEF LoadSeq, seq, diff
    <3>4. pc'[p] = "cas" => seq = pos[p]
      BY <3>2, <3>3 DEF TypeOK
    <3>5. UNCHANGED <<sequence, enqueue_pos, dequeue_pos, pos, consumer, claimed>>
      BY <1>4 DEF LoadSeq, consumerVars
    <3> QED
      BY <3>3, <3>4, <3>5 DEF seq
  <2> QED
    BY <2>1, <2>2 DEF TypeOK, CellProtocol, WithinCapacity, Owns
<1>5. ASSUME NEW p \in Producers, ReloadPos(p) PROVE CellProtocol'
  BY <1>5 DEF ReloadPos, TypeOK, CellProtocol, WithinCapacity, Owns, consumerVars
<1>6. ASSUME NEW p \in Producers, CasSucceeds(p) PROVE CellProtocol'
  <2>1. /\ UNCHANGED <<sequence, dequeue_pos, pos, consumer>>
        /\ enqueue_pos' = enqueue_pos + 1
        /\ pc[p] = "cas" /\ pos[p] = enqueue_pos
        /\ pc' = [pc EXCEPT ![p] = "write"]
        /\ \A q \in Producers \ {p} :
              pc[q] \in {"load_seq", "cas"} => enqueue_pos + 1 <= pos[q] + MaxStall
    BY <1>6, PushComparison DEF CasSucceeds, consumerVars
  <2>2. enqueue_pos < dequeue_pos + Capacity /\ dequeue_pos <= enqueue_pos
    BY <2>1 DEF CellProtocol, WithinCapacity
  <2>3. Len(claimed') = Len(claimed) + 1
    BY <1>6 DEF CasSucceeds, TypeOK
  <2>4. sequence[Cell(enqueue_pos)] = enqueue_pos
    BY <2>2 DEF CellProtocol, TypeOK
  <2>5. (WithinCapacity /\ Len(claimed) = enqueue_pos - dequeue_pos)'
    BY <2>1, <2>2, <2>3 DEF CellProtocol, WithinCapacity, TypeOK
  <2>6. (\A n \in dequeue_pos .. enqueue_pos - 1 : sequence[Cell(n)] \in {n, n + 1})'
    BY <2>1, <2>4 DEF CellProtocol, TypeOK
  <2>7. (\A n \in enqueue_pos .. dequeue_pos + Capacity - 1 : sequence[Cell(n)] = n)'
    BY <2>1 DEF CellProtocol, TypeOK
  <2>8. \A q \in Producers : Owns(q)' =>
          /\ pos[q] \in dequeue_pos .. enqueue_pos
          /\ sequence[Cell(pos[q])] = pos[q]
          /\ \A r \in Producers \ {q} : Owns(r)' => pos[r] # pos[q]
    BY <2>1, <2>2, <2>4 DEF CellProtocol, TypeOK, Owns
  <2>9. \A q \in Producers : pc'[q] \in {"load_seq", "cas"} =>
          pos[q] < enqueue_pos' /\ enqueue_pos' <= pos[q] + MaxStall
    BY <2>1 DEF CellProtocol, TypeOK
  <2> QED
    BY <2>1, <2>5, <2>6, <2>7, <2>8, <2>9 DEF CellProtocol, TypeOK
<1>7. ASSUME NEW p \in Producers, CasFails(p) PROVE CellProtocol'
  BY <1>7 DEF CasFails, TypeOK, CellProtocol, WithinCapacity, Owns, consumerVars
<1>8. ASSUME NEW p \in Producers, WriteData(p) PROVE CellProtocol'
  BY <1>8 DEF WriteData, TypeOK, CellProtocol, WithinCapacity, Owns, consumerVars
<1>9. ASSUME NEW p \in Producers, StoreSeq(p) PROVE CellProtocol'
  <2>1. /\ UNCHANGED <<enqueue_pos, dequeue_pos, pos, consumer, claimed>>
        /\ sequence' = [sequence EXCEPT ![Cell(pos[p])] = pos[p] + 1]
        /\ pc[p] = "store_seq" /\ pc' = [pc EXCEPT ![p] = "idle"]
    BY <1>9 DEF StoreSeq, consumerVars
  <2>2. /\ pos[p] \in dequeue_pos .. enqueue_pos - 1
        /\ sequence[Cell(pos[p])] = pos[p]
        /\ \A q \in Producers \ {p} : Owns(q) => pos[q] # pos[p]
    BY <2>1 DEF CellProtocol, Owns
  <2>3. \A n \in dequeue_pos .. dequeue_pos + Capacity - 1 :
          sequence'[Cell(n)] = IF n = pos[p] THEN n + 1 ELSE sequence[Cell(n)]
    <3> TAKE n \in dequeue_pos .. dequeue_pos + Capacity - 1
    <3>1. n \in Nat /\ pos[p] \in Nat /\ Cell(n) \in Cells
      BY CellFacts DEF TypeOK
    <3>2. n # pos[p] => Cell(n) # Cell(pos[p])
      <4>1. n < pos[p] + Capacity /\ pos[p] < n + Capacity
        BY <2>2 DEF CellProtocol, WithinCapacity, TypeOK
      <4> QED
        BY <3>1, <4>1, CellFacts
    <3> QED
      BY <2>1, <3>1, <3>2 DEF TypeOK
  <2>4. WithinCapacity'
    BY <2>1 DEF CellProtocol, WithinCapacity
  <2>5. (\A n \in dequeue_pos .. enqueue_pos - 1 : sequence[Cell(n)] \in {n, n + 1})'
    BY <2>1, <2>3 DEF CellProtocol, WithinCapacity, TypeOK
  <2>6. (\A n \in enqueue_pos .. dequeue_pos + Capacity - 1 : sequence[Cell(n)] = n)'
    BY <2>1, <2>2, <2>3 DEF CellProtocol, WithinCapacity, TypeOK
  <2>7. \A q \in Producers : Owns(q)' =>
          /\ pos[q] \in dequeue_pos .. enqueue_pos - 1
          /\ sequence'[Cell(pos[q])] = pos[q]
          /\ \A r \in Producers \ {q} : Owns(r)' => pos[r] # pos[q]
    <3> TAKE q \in Producers
    <3> HAVE Owns(q)'
    <3>1. q # p /\ Owns(q) /\ pos[q] # pos[p]
      BY <2>1, <2>2 DEF Owns, TypeOK
    <3>2. \A r \in Producers : Owns(r)' => Owns(r)
      BY <2>1 DEF Owns, TypeOK
    <3>3. pos[q] \in dequeue_pos .. dequeue_pos + Capacity - 1
      BY <3>1 DEF CellProtocol, WithinCapacity, TypeOK
    <3> QED
      BY <2>3, <3>1, <3>2, <3>3 DEF CellProtocol
  <2>8. consumer # "idle" => sequence'[Cell(dequeue_pos)] = dequeue_pos + 1
    <3>1. dequeue_pos \in dequeue_pos .. dequeue_pos + Capacity - 1
      BY DEF TypeOK
    <3> QED
      BY <2>2, <2>3, <3>1 DEF CellProtocol, TypeOK
  <2> QED
    BY <2>1, <2>4, <2>5, <2>6, <2>7, <2>8 DEF CellProtocol, TypeOK
<1>10. CASE PopLoadSeq
  <2>1. consumer' # "idle" => sequence[Cell(dequeue_pos)] = dequeue_pos + 1
    BY <1>10, PopComparison DEF PopLoadSeq, CellProtocol
  <2>2. UNCHANGED <<sequence, enqueue_pos, dequeue_pos, pc, pos, claimed>>
    BY <1>10 DEF PopLoadSeq, producerVars
  <2> QED
    BY <2>1, <2>2 DEF CellProtocol, WithinCapacity, Owns
<1>11. CASE ReadData
  BY <1>11 DEF ReadData, TypeOK, CellProtocol, WithinCapacity, Owns, producerVars
<1>12. CASE ReleaseCell
  <2>1. /\ UNCHANGED <<enqueue_pos, pos, pc>>
        /\ sequence' = [sequence EXCEPT ![Cell(dequeue_pos)] = dequeue_pos + Capacity]
        /\ dequeue_pos' = dequeue_pos + 1
        /\ consumer' = "idle" /\ claimed' = Tail(claimed)
    BY <1>12 DEF ReleaseCell, producerVars
  <2>2. sequence[Cell(dequeue_pos)] = dequeue_pos + 1
    BY <1>12 DEF ReleaseCell, CellProtocol
  <2>3. dequeue_pos < enqueue_pos
    BY <2>2 DEF CellProtocol, WithinCapacity, TypeOK
  <2>4. Len(claimed') = Len(claimed) - 1
    <3>1. claimed # <<>>
      BY <2>3 DEF CellProtocol, TypeOK
    <3> QED
      BY <2>1, <3>1 DEF TypeOK
  <2>5. \A n \in dequeue_pos + 1 .. dequeue_pos + Capacity - 1 :
          sequence'[Cell(n)] = sequence[Cell(n)]
    <3> TAKE n \in dequeue_pos + 1 .. dequeue_pos + Capacity - 1
    <3>1. /\ n \in Nat /\ dequeue_pos \in Nat /\ dequeue_pos # n
          /\ dequeue_pos <= n /\ n < dequeue_pos + Capacity
      BY DEF TypeOK
    <3>2. Cell(n) \in Cells /\ Cell(n) # Cell(dequeue_pos)
      BY <3>1, CellFacts
    <3> QED
      BY <2>1, <3>2 DEF TypeOK
  <2>6. sequence'[Cell(dequeue_pos + Capacity)] = dequeue_pos + Capacity
    BY <2>1, CellFacts, Zenon DEF TypeOK
  <2>7. (WithinCapacity /\ Len(claimed) = enqueue_pos - dequeue_pos)'
    BY <2>1, <2>3, <2>4 DEF CellProtocol, WithinCapacity, TypeOK
  <2>8. (\A n \in dequeue_pos .. enqueue_pos - 1 : sequence[Cell(n)] \in {n, n + 1})'
    BY <2>1, <2>5 DEF CellProtocol, WithinCapacity, TypeOK
  <2>9. (\A n \in enqueue_pos .. dequeue_pos + Capacity - 1 : sequence[Cell(n)] = n)'
    <3> SUFFICES ASSUME NEW n \in enqueue_pos .. dequeue_pos + Capacity
                 PROVE  sequence'[Cell(n)] = n
      BY <2>1 DEF TypeOK
    <3>1. CASE n = dequeue_pos + Capacity
      BY <2>6, <3>1
    <3>2. CASE n # dequeue_pos + Capacity
      <4>1. /\ n \in enqueue_pos .. dequeue_pos + Capacity - 1
            /\ n \in dequeue_pos + 1 .. dequeue_pos + Capacity - 1
        BY <2>3, <3>2 DEF TypeOK
      <4> QED
        BY <2>5, <4>1 DEF CellProtocol
    <3> QED
      BY <3>1, <3>2
  <2>10. \A q \in Producers : Owns(q) =>
          /\ pos[q] \in dequeue_pos + 1 .. enqueue_pos - 1
          /\ sequence'[Cell(pos[q])] = pos[q]
    <3> TAKE q \in Producers
    <3> HAVE Owns(q)
    <3>1. pos[q] \in dequeue_pos .. enqueue_pos - 1 /\ sequence[Cell(pos[q])] = pos[q]
      BY DEF CellProtocol
    <3>2. pos[q] # dequeue_pos
      BY <2>2, <3>1 DEF TypeOK
    <3>3. pos[q] \in dequeue_pos + 1 .. dequeue_pos + Capacity - 1
      BY <3>1, <3>2 DEF CellProtocol, WithinCapacity, TypeOK
    <3> QED
      BY <2>5, <3>1, <3>3
  <2> QED
    BY <2>1, <2>7, <2>8, <2>9, <2>10 DEF CellProtocol, Owns, TypeOK
<1>13. CASE UNCHANGED vars
  BY <1>13 DEF TypeOK, CellProtocol, WithinCapacity, Owns, vars, producerVars, consumerVars
<1> QED
  BY <1>3, <1>4, <1>5, <1>6, <1>7, <1>8, <1>9, <1>10, <1>11, <1>12, <1>13
  DEF Next, Push, Consumer

\* The invariant of every behaviour of a ring with at least two cells.
THEOREM RingInvariant ==
    ASSUME Capacity >= 2
    PROVE  Spec => []Inv
<1>1. Inv /\ [Next]_vars => Inv'
  BY TypeStep, ProtocolStep DEF Inv
<1> QED
  BY <1>1, InitInv, PTL DEF Spec

\* Every position, local and cell keeps its type, whatever the producers and
\* the consumer of the ring do.
THEOREM TypeCorrect ==
    ASSUME Capacity >= 2
    PROVE  Spec => []TypeOK
<1>1. Inv => TypeOK
  BY DEF Inv
<1> QED
  BY <1>1, RingInvariant, PTL

\* The sequence numbers tell for every cell what state its position is in,
\* also when the positions have wrapped around.
THEOREM ProtocolKept ==
    ASSUME Capacity >= 2
    PROVE  Spec => []CellProtocol
<1>1. Inv => CellProtocol
  BY DEF Inv
<1> QED
  BY <1>1, RingInvariant, PTL

\* try_push never hands out a place the consumer has not given back.
THEOREM CapacityRespected ==
    ASSUME Capacity >= 2
    PROVE  Spec => []WithinCapacity
<1>1. Inv => WithinCapacity
  BY DEF Inv, CellProtocol
<1> QED
  BY <1>1, RingInvariant, PTL

\* The sequence numbers alone keep two threads away from one cell's data.
THEOREM RaceFree ==
    ASSUME Capacity >= 2
    PROVE  Spec => []NoDataRace
<1>1. Inv => NoDataRace
  <2> SUFFICES ASSUME Inv, NEW p \in Producers, pc[p] = "write"
               PROVE  /\ consumer = "read" => Cell(pos[p]) # Cell(dequeue_pos)
                      /\ \A q \in Producers \ {p} :
                            pc[q] = "write" => Cell(pos[p]) # Cell(pos[q])
    BY DEF NoDataRace
  <2>1. TypeOK /\ CellProtocol /\ Capacity \in Nat
    BY RingAssumption DEF Inv
  <2>2. /\ \A q \in Producers : pc[q] = "write" => pos[q] \in dequeue_pos .. enqueue_pos - 1
        /\ enqueue_pos <= dequeue_pos + Capacity
        /\ sequence[Cell(pos[p])] = pos[p]
    BY <2>1 DEF CellProtocol, WithinCapacity, Owns
  <2>3. ASSUME consumer = "read" PROVE Cell(pos[p]) # Cell(dequeue_pos)
    <3>1. sequence[Cell(dequeue_pos)] = dequeue_pos + 1
      BY <2>1, <2>3 DEF CellProtocol
    <3>2. /\ pos[p] \in Nat /\ dequeue_pos \in Nat
          /\ dequeue_pos <= pos[p] /\ pos[p] < dequeue_pos + Capacity
      BY <2>1, <2>2 DEF TypeOK
    <3>3. pos[p] # dequeue_pos
      BY <2>2, <3>1, <3>2
    <3> QED
      BY <3>2, <3>3, CellFacts
  <2>4. ASSUME NEW q \in Producers \ {p}, pc[q] = "write" PROVE Cell(pos[p]) # Cell(pos[q])
    <3>1. pos[q] # pos[p]
      BY <2>1, <2>4 DEF CellProtocol, Owns
    <3>2. /\ pos[p] \in Nat /\ pos[q] \in Nat
          /\ pos[p] < pos[q] + Capacity /\ pos[q] < pos[p] + Capacity
      BY <2>1, <2>2, <2>4 DEF TypeOK
    <3> QED
      BY <3>1, <3>2, CellFacts
  <2> QED
    BY <2>3, <2>4
<1> QED
  BY <1>1, RingInvariant, PTL

----------------------------------------------------------------------------
(* MpscRingBuffer is a BoundedQueue. *)

QueueInv == Inv /\ DataProtocol

\* The numbers, in the form the proofs below use them.
LEMMA Numbers ==
    ASSUME Inv
    PROVE  /\ TypeOK /\ CellProtocol
           /\ Capacity \in Nat \ {0}
           /\ enqueue_pos \in Nat /\ dequeue_pos \in Nat
           /\ dequeue_pos <= enqueue_pos /\ enqueue_pos <= dequeue_pos + Capacity
           /\ Len(claimed) = enqueue_pos - dequeue_pos
           /\ claimed \in Seq([owner : Producers, item : Items \cup {NoItem}])
           /\ \A p \in Producers : pos[p] \in Nat
           /\ \A p \in Producers : Owns(p) => pos[p] \in dequeue_pos .. enqueue_pos - 1
BY RingAssumption DEF Inv, TypeOK, CellProtocol, WithinCapacity

\* Positions in use have cells of their own.
LEMMA OwnCells ==
    ASSUME Inv, NEW a \in dequeue_pos .. enqueue_pos - 1, NEW b \in dequeue_pos .. enqueue_pos - 1,
           Cell(a) = Cell(b)
    PROVE  a = b
<1>1. a \in Nat /\ b \in Nat /\ a < b + Capacity /\ b < a + Capacity
  BY Numbers
<1> QED
  BY <1>1, CellFacts

LEMMA InitData == Init => DataProtocol
BY DEF Init, DataProtocol, Owns

LEMMA DataStep ==
    ASSUME QueueInv, [Next]_vars
    PROVE  DataProtocol'
<1>1. /\ Inv /\ DataProtocol /\ TypeOK /\ CellProtocol
      /\ enqueue_pos \in Nat /\ dequeue_pos \in Nat /\ Capacity \in Nat
  BY Numbers DEF QueueInv
<1> USE <1>1
<1>3. ASSUME NEW p \in Producers, LoadPos(p) PROVE DataProtocol'
  BY <1>3 DEF LoadPos, TypeOK, DataProtocol, Place, Owns, consumerVars
<1>4. ASSUME NEW p \in Producers, LoadSeq(p) PROVE DataProtocol'
  <2>1. /\ UNCHANGED <<sequence, data, enqueue_pos, dequeue_pos, pos, item, consumer, out, claimed>>
        /\ \E c \in {"cas", "idle", "reload"} : pc' = [pc EXCEPT ![p] = c]
        /\ pc[p] = "load_seq"
    <3> DEFINE diff == SignedDiff(sequence[Cell(pos[p])], pos[p])
    <3> HIDE DEF diff
    <3>1. \/ diff = 0 /\ pc' = [pc EXCEPT ![p] = "cas"]
          \/ pc' = [pc EXCEPT ![p] = "idle"]
          \/ pc' = [pc EXCEPT ![p] = "reload"]
      BY <1>4 DEF LoadSeq, diff
    <3> QED
      BY <1>4, <3>1 DEF LoadSeq, consumerVars
  <2> QED
    BY <2>1 DEF TypeOK, DataProtocol, Place, Owns
<1>5. ASSUME NEW p \in Producers, ReloadPos(p) PROVE DataProtocol'
  BY <1>5 DEF ReloadPos, TypeOK, DataProtocol, Place, Owns, consumerVars
<1>6. ASSUME NEW p \in Producers, CasSucceeds(p) PROVE DataProtocol'
  <2>1. /\ UNCHANGED <<sequence, data, dequeue_pos, pos, item, consumer, out>>
        /\ enqueue_pos' = enqueue_pos + 1
        /\ pc[p] = "cas" /\ pos[p] = enqueue_pos
        /\ pc' = [pc EXCEPT ![p] = "write"]
        /\ claimed' = Append(claimed, [owner |-> p, item |-> item[p]])
    BY <1>6, PushComparison DEF CasSucceeds, consumerVars
  <2>2. /\ \A i \in 1 .. Len(claimed) : claimed'[i] = claimed[i]
        /\ claimed'[Len(claimed) + 1] = [owner |-> p, item |-> item[p]]
    BY <2>1, Numbers
  <2>3. Len(claimed) = enqueue_pos - dequeue_pos /\ dequeue_pos <= enqueue_pos
    BY Numbers
  <2>4. \A n \in dequeue_pos .. enqueue_pos - 1 : claimed'[Place(n)] = claimed[Place(n)]
    BY <2>2, <2>3 DEF Place
  <2>5. sequence[Cell(enqueue_pos)] # enqueue_pos + 1
    <3>1. enqueue_pos < dequeue_pos + Capacity
      BY <2>1 DEF CellProtocol
    <3>2. enqueue_pos \in enqueue_pos .. dequeue_pos + Capacity - 1
      BY <3>1
    <3>3. sequence[Cell(enqueue_pos)] = enqueue_pos
      BY <3>2 DEF CellProtocol
    <3> QED
      BY <3>3
  <2>6. \A q \in Producers : Owns(q)' =>
          claimed'[Place(pos[q])].owner = q /\ claimed'[Place(pos[q])].item = item[q]
    <3> TAKE q \in Producers
    <3> HAVE Owns(q)'
    <3>1. CASE q = p
      <4>1. Place(pos[q]) = Len(claimed) + 1
        BY <2>1, <2>3, <3>1 DEF Place
      <4> QED
        BY <2>2, <3>1, <4>1
    <3>2. CASE q # p
      <4>1. Owns(q)
        BY <2>1, <3>2 DEF Owns, TypeOK
      <4>2. pos[q] \in dequeue_pos .. enqueue_pos - 1
        BY <4>1, Numbers
      <4> QED
        BY <2>4, <4>1, <4>2 DEF DataProtocol
    <3> QED
      BY <3>1, <3>2
  <2>7. \A n \in dequeue_pos .. enqueue_pos :
          sequence[Cell(n)] = n + 1 => data[Cell(n)] = claimed'[Place(n)].item
    BY <2>4, <2>5 DEF DataProtocol
  <2>8. consumer = "release" => out = claimed'[1].item
    <3> HAVE consumer = "release"
    <3>0. sequence[Cell(dequeue_pos)] = dequeue_pos + 1
      BY DEF CellProtocol
    <3>1. dequeue_pos # enqueue_pos
      BY <3>0, Numbers DEF CellProtocol
    <3>2. 1 \in 1 .. Len(claimed)
      BY <2>3, <3>1
    <3> QED
      BY <2>2, <3>2 DEF DataProtocol
  <2>9. \A q \in Producers : (pc'[q] \in {"load_seq", "reload", "cas"} => pc'[q] = pc[q])
                             /\ (pc'[q] = "store_seq" => pc[q] = "store_seq")
    BY <2>1 DEF TypeOK
  <2>10. \A q \in Producers :
           /\ pc'[q] \in {"load_seq", "reload", "cas"} => item'[q] \in Items
           /\ pc'[q] = "store_seq" => data'[Cell(pos'[q])] = item'[q]
    BY <2>1, <2>9, Zenon DEF DataProtocol
  <2>11. \A n \in dequeue_pos' .. enqueue_pos' - 1 :
           sequence'[Cell(n)] = n + 1 => data'[Cell(n)] = claimed'[Place(n)'].item
    <3> TAKE n \in dequeue_pos' .. enqueue_pos' - 1
    <3>1. n \in dequeue_pos .. enqueue_pos
      BY <2>1
    <3>2. Place(n)' = Place(n)
      BY <2>1 DEF Place
    <3>3. sequence[Cell(n)] = n + 1 => data[Cell(n)] = claimed'[Place(n)].item
      BY <2>7, <3>1
    <3> QED
      BY <2>1, <3>2, <3>3, Zenon
  <2>12. \A q \in Producers : Owns(q)' =>
           claimed'[Place(pos[q])'].owner = q /\ claimed'[Place(pos[q])'].item = item'[q]
    <3>1. \A q \in Producers : Place(pos[q])' = Place(pos[q])
      BY <2>1 DEF Place
    <3> QED
      BY <2>1, <2>6, <3>1, Zenon
  <2> QED
    BY <2>1, <2>8, <2>10, <2>11, <2>12, Zenon DEF DataProtocol
<1>7. ASSUME NEW p \in Producers, CasFails(p) PROVE DataProtocol'
  BY <1>7 DEF CasFails, TypeOK, DataProtocol, Place, Owns, consumerVars
<1>8. ASSUME NEW p \in Producers, WriteData(p) PROVE DataProtocol'
  <2>1. /\ UNCHANGED <<sequence, enqueue_pos, dequeue_pos, pos, item, consumer, out, claimed>>
        /\ data' = [data EXCEPT ![Cell(pos[p])] = item[p]]
        /\ pc[p] = "write" /\ pc' = [pc EXCEPT ![p] = "store_seq"]
    BY <1>8, Zenon DEF WriteData, consumerVars
  <2>2. /\ Owns(p) /\ pos[p] \in dequeue_pos .. enqueue_pos - 1
        /\ sequence[Cell(pos[p])] = pos[p]
        /\ Cell(pos[p]) \in Cells
    BY <2>1, Numbers, CellFacts, Zenon DEF Owns, CellProtocol
  <2>3. \A n \in dequeue_pos .. enqueue_pos - 1 :
          n # pos[p] => data'[Cell(n)] = data[Cell(n)]
    <3> TAKE n \in dequeue_pos .. enqueue_pos - 1
    <3> HAVE n # pos[p]
    <3>1. Cell(n) # Cell(pos[p])
      BY <2>2, OwnCells
    <3>2. n \in Nat /\ Cell(n) \in Cells
      BY CellFacts
    <3> QED
      BY <2>1, <3>1, <3>2 DEF TypeOK
  <2>4. \A q \in Producers : pc'[q] = "store_seq" => data'[Cell(pos[q])] = item[q]
    <3> TAKE q \in Producers
    <3> HAVE pc'[q] = "store_seq"
    <3>1. CASE q = p
      BY <2>1, <2>2, <3>1 DEF TypeOK
    <3>2. CASE q # p
      <4>1. pc[q] = "store_seq" /\ Owns(q)
        BY <2>1, <3>2 DEF TypeOK, Owns
      <4>2. pos[q] \in dequeue_pos .. enqueue_pos - 1 /\ pos[q] # pos[p]
        BY <2>2, <3>2, <4>1 DEF CellProtocol
      <4> QED
        BY <2>3, <4>1, <4>2 DEF DataProtocol
    <3> QED
      BY <3>1, <3>2
  <2>5. \A n \in dequeue_pos .. enqueue_pos - 1 :
          sequence[Cell(n)] = n + 1 => data'[Cell(n)] = claimed[Place(n)].item
    BY <2>2, <2>3 DEF DataProtocol
  <2>6. \A q \in Producers : (Owns(q)' <=> Owns(q)) /\ Place(pos[q])' = Place(pos[q])
    BY <2>1 DEF Owns, TypeOK, Place
  <2> QED
    BY <2>1, <2>4, <2>5, <2>6, SMTT(30) DEF DataProtocol, TypeOK, Place
<1>9. ASSUME NEW p \in Producers, StoreSeq(p) PROVE DataProtocol'
  <2>1. /\ UNCHANGED <<data, enqueue_pos, dequeue_pos, pos, item, consumer, out, claimed>>
        /\ sequence' = [sequence EXCEPT ![Cell(pos[p])] = pos[p] + 1]
        /\ pc[p] = "store_seq" /\ pc' = [pc EXCEPT ![p] = "idle"]
    BY <1>9, Zenon DEF StoreSeq, consumerVars
  <2>2. Owns(p) /\ pos[p] \in dequeue_pos .. enqueue_pos - 1
    BY <2>1, Numbers DEF Owns
  <2>3. \A n \in dequeue_pos .. enqueue_pos - 1 :
          sequence'[Cell(n)] = n + 1 => data[Cell(n)] = claimed[Place(n)].item
    <3> TAKE n \in dequeue_pos .. enqueue_pos - 1
    <3> HAVE sequence'[Cell(n)] = n + 1
    <3>1. CASE n = pos[p]
      BY <2>1, <2>2, <3>1 DEF DataProtocol
    <3>2. CASE n # pos[p]
      <4>1. Cell(n) # Cell(pos[p])
        BY <2>2, <3>2, OwnCells
      <4>2. n \in Nat /\ Cell(n) \in Cells
        BY CellFacts
      <4>3. sequence[Cell(n)] = n + 1
        BY <2>1, <4>1, <4>2 DEF TypeOK
      <4> QED
        BY <4>3 DEF DataProtocol
    <3> QED
      BY <3>1, <3>2
  <2>4. \A q \in Producers : Owns(q)' => Owns(q)
    BY <2>1 DEF Owns, TypeOK
  <2> QED
    BY <2>1, <2>3, <2>4, ZenonT(30) DEF DataProtocol, TypeOK, Place
<1>10. CASE PopLoadSeq
  <2>1. /\ UNCHANGED <<sequence, data, enqueue_pos, dequeue_pos, pc, pos, item, out, claimed>>
        /\ consumer' # "release"
    BY <1>10 DEF PopLoadSeq, producerVars
  <2> QED
    BY <2>1 DEF DataProtocol, Owns, Place
<1>11. CASE ReadData
  <2>1. /\ UNCHANGED <<sequence, data, enqueue_pos, dequeue_pos, pc, pos, item, claimed>>
        /\ out' = data[Cell(dequeue_pos)] /\ consumer = "read"
    BY <1>11 DEF ReadData, producerVars
  <2>2. sequence[Cell(dequeue_pos)] = dequeue_pos + 1
    BY <2>1 DEF CellProtocol
  <2>3. dequeue_pos \in dequeue_pos .. enqueue_pos - 1 /\ Place(dequeue_pos) = 1
    BY <2>2, Numbers DEF CellProtocol, Place
  <2>4. out' = claimed[1].item
    BY <2>1, <2>2, <2>3 DEF DataProtocol
  <2> QED
    BY <2>1, <2>4 DEF DataProtocol, Owns, Place
<1>12. CASE ReleaseCell
  <2>1. /\ UNCHANGED <<data, enqueue_pos, pos, pc, item>>
        /\ sequence' = [sequence EXCEPT ![Cell(dequeue_pos)] = dequeue_pos + Capacity]
        /\ dequeue_pos' = dequeue_pos + 1
        /\ consumer' = "idle" /\ claimed' = Tail(claimed)
    BY <1>12 DEF ReleaseCell, producerVars
  <2>2. sequence[Cell(dequeue_pos)] = dequeue_pos + 1
    BY <1>12, ZenonT(30) DEF ReleaseCell, CellProtocol
  <2>3. dequeue_pos < enqueue_pos /\ Len(claimed) = enqueue_pos - dequeue_pos
    BY <2>2, Numbers DEF CellProtocol
  <2>4. \A i \in 1 .. Len(claimed) - 1 : claimed'[i] = claimed[i + 1]
    <3>1. claimed # <<>>
      BY <2>3
    <3> QED
      BY <2>1, <3>1, Numbers
  <2>5. \A n \in dequeue_pos + 1 .. enqueue_pos - 1 :
          claimed'[Place(n)'] = claimed[Place(n)]
    <3> TAKE n \in dequeue_pos + 1 .. enqueue_pos - 1
    <3>1. Place(n)' = n - dequeue_pos /\ Place(n) = (n - dequeue_pos) + 1
      BY <2>1 DEF Place
    <3>2. n - dequeue_pos \in 1 .. Len(claimed) - 1
      BY <2>3
    <3> QED
      BY <2>4, <3>1, <3>2
  <2>6. \A n \in dequeue_pos + 1 .. enqueue_pos - 1 : sequence'[Cell(n)] = sequence[Cell(n)]
    <3> TAKE n \in dequeue_pos + 1 .. enqueue_pos - 1
    <3>1. n \in dequeue_pos .. enqueue_pos - 1 /\ dequeue_pos \in dequeue_pos .. enqueue_pos - 1 /\ n # dequeue_pos
      BY <2>3
    <3>2. Cell(n) # Cell(dequeue_pos)
      BY <3>1, OwnCells
    <3>3. n \in Nat /\ Cell(n) \in Cells
      BY CellFacts
    <3> QED
      BY <2>1, <3>2, <3>3 DEF TypeOK
  <2>7. \A q \in Producers : Owns(q) => pos[q] \in dequeue_pos + 1 .. enqueue_pos - 1
    <3> TAKE q \in Producers
    <3> HAVE Owns(q)
    <3>1. pos[q] \in dequeue_pos .. enqueue_pos - 1 /\ sequence[Cell(pos[q])] = pos[q]
      BY DEF CellProtocol
    <3>2. pos[q] # dequeue_pos
      BY <2>2, <3>1
    <3> QED
      BY <3>1, <3>2
  <2>8. \A q \in Producers : Owns(q)' =>
          claimed'[Place(pos[q])'].owner = q /\ claimed'[Place(pos[q])'].item = item[q]
    <3> TAKE q \in Producers
    <3> HAVE Owns(q)'
    <3>1. Owns(q) /\ pos[q] \in dequeue_pos + 1 .. enqueue_pos - 1 /\ pos'[q] = pos[q]
      BY <2>1, <2>7 DEF Owns
    <3>2. claimed'[Place(pos[q])'] = claimed[Place(pos[q])]
      BY <2>1, <2>5, <3>1, Zenon DEF Place
    <3> QED
      BY <3>1, <3>2 DEF DataProtocol
  <2>9. \A n \in dequeue_pos + 1 .. enqueue_pos - 1 :
          sequence'[Cell(n)] = n + 1 => data[Cell(n)] = claimed'[Place(n)'].item
    BY <2>5, <2>6 DEF DataProtocol
  <2> QED
    BY <2>1, <2>8, <2>9, Zenon DEF DataProtocol, Owns
<1>13. CASE UNCHANGED vars
  BY <1>13 DEF DataProtocol, Place, Owns, vars, producerVars, consumerVars
<1> QED
  BY <1>3, <1>4, <1>5, <1>6, <1>7, <1>8, <1>9, <1>10, <1>11, <1>12, <1>13
  DEF Next, Push, Consumer

----------------------------------------------------------------------------

Elements == [owner : Producers, item : Items \cup {NoItem}, filled : BOOLEAN]

Entry(place, filled) == [owner |-> place.owner, item |-> place.item, filled |-> filled]

\* The queue that the claimed places stand for.
Shape ==
    /\ AbstractQueue \in Seq(Elements)
    /\ Len(AbstractQueue) = Len(claimed)
    /\ \A i \in 1 .. Len(claimed) : AbstractQueue[i] = Entry(claimed[i], Filled(i))

LEMMA EntryOfSeq ==
    ASSUME NEW S, NEW s \in Seq(S)
    PROVE  Len(s) \in Nat /\ \A i \in 1 .. Len(s) : s[i] \in S
OBVIOUS

LEMMA QueueShape == Inv => Shape
<1> SUFFICES ASSUME Inv PROVE Shape
  OBVIOUS
<1>1. Len(claimed) \in Nat /\ \A i \in 1 .. Len(claimed) :
        claimed[i] \in [owner : Producers, item : Items \cup {NoItem}]
  <2>1. claimed \in Seq([owner : Producers, item : Items \cup {NoItem}])
    BY Numbers, Zenon
  <2> QED
    BY <2>1, EntryOfSeq, Zenon
<1>3. AbstractQueue \in [1 .. Len(claimed) -> Elements]
  <2> SUFFICES ASSUME NEW i \in 1 .. Len(claimed)
               PROVE  [owner |-> claimed[i].owner, item |-> claimed[i].item, filled |-> Filled(i)] \in Elements
    BY DEF AbstractQueue
  <2>1. claimed[i].owner \in Producers /\ claimed[i].item \in Items \cup {NoItem}
    BY <1>1
  <2>2. Filled(i) \in BOOLEAN
    BY Zenon DEF Filled
  <2> QED
    BY <2>1, <2>2, Zenon DEF Elements
<1>4. AbstractQueue \in Seq(Elements)
  BY <1>1, <1>3
<1>5. Len(AbstractQueue) = Len(claimed)
  <2>1. DOMAIN AbstractQueue = 1 .. Len(claimed)
    BY DEF AbstractQueue
  <2>2. Len(AbstractQueue) \in Nat /\ DOMAIN AbstractQueue = 1 .. Len(AbstractQueue)
    BY <1>4
  <2> QED
    BY <1>1, <2>1, <2>2
<1>6. \A i \in 1 .. Len(claimed) : AbstractQueue[i] = Entry(claimed[i], Filled(i))
  BY Zenon DEF AbstractQueue, Entry
<1> QED
  BY <1>4, <1>5, <1>6 DEF Shape

LEMMA QueueShapeNext == Inv' => Shape'
BY QueueShape, PTL

\* Steps that leave the places and the sequence numbers alone.
LEMMA QueueSame ==
    ASSUME UNCHANGED <<claimed, sequence, dequeue_pos>>
    PROVE  AbstractQueue' = AbstractQueue
BY DEF AbstractQueue, Filled

\* The queue after a step, from its elements.
LEMMA QueueEqual ==
    ASSUME Inv', NEW t \in Seq(Elements), Len(t) = Len(claimed'),
           \A i \in 1 .. Len(t) : t[i] = Entry(claimed'[i], Filled(i)')
    PROVE  AbstractQueue' = t
<1>1. Shape'
  BY QueueShapeNext
<1> DEFINE s == AbstractQueue'
<1>2. s \in Seq(Elements) /\ Len(s) = Len(t) /\ \A i \in 1 .. Len(s) : s[i] = t[i]
  BY <1>1, Zenon DEF Shape
<1> HIDE DEF s
<1>3. s = t
  BY <1>2
<1> QED
  BY <1>3 DEF s

\* What a producer sees at a place of the code.
Status(at, returned) ==
    IF at \in {"load_seq", "reload", "cas"} THEN "called"
    ELSE IF at \in {"write", "store_seq"} THEN "claimed"
    ELSE IF returned = "false" THEN "full" ELSE "returned"

LEMMA PushedMoves ==
    ASSUME TypeOK, NEW p \in Producers, NEW at, NEW returned,
           pc' = [pc EXCEPT ![p] = at], result' = [result EXCEPT ![p] = returned]
    PROVE  /\ AbstractPushed' = [AbstractPushed EXCEPT ![p] = Status(at, returned)]
           /\ AbstractPushed[p] = Status(pc[p], result[p])
<1>1. \A q \in Producers : AbstractPushed[q] = Status(pc[q], result[q])
  BY DEF AbstractPushed, Status, Owns
<1>2. \A q \in Producers : AbstractPushed'[q] = Status(pc'[q], result'[q])
  BY DEF AbstractPushed, Status, Owns
<1>3. /\ pc'[p] = at /\ result'[p] = returned
      /\ \A q \in Producers : q # p => pc'[q] = pc[q] /\ result'[q] = result[q]
  BY DEF TypeOK
<1>4. /\ AbstractPushed = [q \in Producers |-> AbstractPushed[q]]
      /\ AbstractPushed' = [q \in Producers |-> AbstractPushed'[q]]
  BY DEF AbstractPushed
<1>5. \A q \in Producers :
        AbstractPushed'[q] = IF q = p THEN Status(at, returned) ELSE AbstractPushed[q]
  BY <1>1, <1>2, <1>3
<1> QED
  BY <1>1, <1>4, <1>5

\* Within a call, moving on changes nothing for the producer.
LEMMA PushedSame ==
    ASSUME TypeOK, NEW p \in Producers, NEW at,
           pc' = [pc EXCEPT ![p] = at], UNCHANGED result,
           Status(at, result[p]) = Status(pc[p], result[p])
    PROVE  AbstractPushed' = AbstractPushed
<1>1. result' = [result EXCEPT ![p] = result[p]]
  BY DEF TypeOK
<1>2. /\ AbstractPushed' = [AbstractPushed EXCEPT ![p] = Status(at, result[p])]
      /\ AbstractPushed[p] = Status(pc[p], result[p])
  BY <1>1, PushedMoves, Zenon
<1>3. AbstractPushed = [q \in Producers |-> AbstractPushed[q]]
  BY DEF AbstractPushed
<1> QED
  BY <1>2, <1>3

\* try_push refuses only when every place is taken.
LEMMA RefusedOnlyFull ==
    ASSUME Inv, NEW p \in Producers, pc[p] = "load_seq",
           SignedDiff(sequence[Cell(pos[p])], pos[p]) < 0
    PROVE  Len(AbstractQueue) = Capacity
<1>1. /\ TypeOK /\ CellProtocol /\ Capacity \in Nat \ {0}
      /\ enqueue_pos \in Nat /\ dequeue_pos \in Nat /\ pos[p] \in Nat
      /\ enqueue_pos <= dequeue_pos + Capacity
      /\ Len(claimed) = enqueue_pos - dequeue_pos
      /\ pos[p] <= enqueue_pos
  BY Numbers DEF CellProtocol
<1>2. PICK n \in dequeue_pos .. dequeue_pos + Capacity - 1 :
        Cell(n) = Cell(pos[p]) /\ sequence[Cell(pos[p])] \in {n, n + 1}
  BY <1>1, SequenceWindow, CellFacts, Zenon
<1>3. sequence[Cell(pos[p])] < pos[p]
  <2> DEFINE seq == sequence[Cell(pos[p])]
             diff == SignedDiff(seq, pos[p])
  <2>1. diff = seq - pos[p] /\ diff < 0
    BY <1>1, PushComparison
  <2>2. seq \in {n, n + 1}
    BY <1>2
  <2> HIDE DEF seq, diff
  <2> QED
    BY <1>1, <1>2, <2>1, <2>2 DEF seq
<1>4. n < pos[p]
  BY <1>1, <1>2, <1>3
<1>5. ~ (pos[p] < n + Capacity)
  <2>1. n \in Nat /\ n # pos[p] /\ n <= pos[p]
    BY <1>1, <1>4
  <2> QED
    BY <1>1, <1>2, <2>1, CellFacts, SMTT(30)
<1>6. enqueue_pos = dequeue_pos + Capacity
  BY <1>1, <1>2, <1>5
<1> QED
  BY <1>1, <1>6, QueueShape DEF Shape

\* The exchange appends a place that is not filled.
LEMMA ExchangeClaims ==
    ASSUME QueueInv, Inv', NEW p \in Producers, CasSucceeds(p)
    PROVE  Abstract!Claim(p, item[p])
<1>1. /\ Inv /\ TypeOK /\ CellProtocol /\ Shape /\ Capacity \in Nat \ {0}
      /\ enqueue_pos \in Nat /\ dequeue_pos \in Nat
      /\ Len(claimed) = enqueue_pos - dequeue_pos /\ dequeue_pos <= enqueue_pos
      /\ claimed \in Seq([owner : Producers, item : Items \cup {NoItem}])
  BY Numbers, QueueShape DEF QueueInv
<1>2. /\ UNCHANGED <<sequence, dequeue_pos, result, popped>>
      /\ pc[p] = "cas" /\ pos[p] = enqueue_pos
      /\ pc' = [pc EXCEPT ![p] = "write"]
      /\ claimed' = Append(claimed, [owner |-> p, item |-> item[p]])
  BY <1>1, PushComparison DEF CasSucceeds, consumerVars
<1>3. enqueue_pos < dequeue_pos + Capacity
  BY <1>1, <1>2 DEF CellProtocol
<1>4. Len(AbstractQueue) < Capacity
  BY <1>1, <1>3 DEF Shape
<1> DEFINE e == [owner |-> p, item |-> item[p], filled |-> FALSE]
           t == Append(AbstractQueue, e)
<1>5. e \in Elements
  <2>1. item[p] \in Items \cup {NoItem}
    BY <1>1, SMTT(30) DEF TypeOK
  <2> QED
    BY <2>1 DEF Elements
<1>6. /\ t \in Seq(Elements) /\ Len(t) = Len(claimed) + 1
      /\ \A i \in 1 .. Len(claimed) : t[i] = AbstractQueue[i]
      /\ t[Len(claimed) + 1] = e
  <2>1. AbstractQueue \in Seq(Elements) /\ Len(AbstractQueue) = Len(claimed)
    BY <1>1, Zenon DEF Shape
  <2> HIDE DEF e
  <2> QED
    BY <1>5, <2>1, SMTT(30)
<1>7. /\ Len(claimed') = Len(claimed) + 1
      /\ \A i \in 1 .. Len(claimed) : claimed'[i] = claimed[i]
      /\ claimed'[Len(claimed) + 1] = [owner |-> p, item |-> item[p]]
  <2> DEFINE R == [owner : Producers, item : Items \cup {NoItem}]
             r == [owner |-> p, item |-> item[p]]
  <2>1. r \in R
    BY <1>1 DEF TypeOK
  <2>2. claimed \in Seq(R) /\ claimed' = Append(claimed, r)
    BY <1>1, <1>2
  <2> HIDE DEF R, r
  <2>3. /\ Len(claimed') = Len(claimed) + 1
        /\ \A i \in 1 .. Len(claimed) : claimed'[i] = claimed[i]
        /\ claimed'[Len(claimed) + 1] = r
    BY <2>1, <2>2
  <2> QED
    BY <2>3, Zenon DEF r
<1>8. \A i : Filled(i)' = Filled(i)
  BY <1>2 DEF Filled
<1>9. Filled(Len(claimed) + 1) = FALSE
  <2>1. dequeue_pos + (Len(claimed) + 1) - 1 = enqueue_pos /\ dequeue_pos + (Len(claimed) + 1) = enqueue_pos + 1
    BY <1>1
  <2>2. enqueue_pos \in enqueue_pos .. dequeue_pos + Capacity - 1
    BY <1>1, <1>3
  <2>3. sequence[Cell(enqueue_pos)] # enqueue_pos + 1
    BY <1>1, <2>2 DEF CellProtocol
  <2> QED
    BY <2>1, <2>3 DEF Filled
<1>10. \A i \in 1 .. Len(t) : t[i] = Entry(claimed'[i], Filled(i)')
  <2> SUFFICES ASSUME NEW i \in 1 .. Len(t) PROVE t[i] = Entry(claimed'[i], Filled(i)')
    BY Zenon
  <2>1. CASE i \in 1 .. Len(claimed)
    <3>1. t[i] = Entry(claimed[i], Filled(i))
      BY <1>1, <1>6, <2>1 DEF Shape
    <3>2. claimed'[i] = claimed[i] /\ Filled(i)' = Filled(i)
      BY <1>7, <1>8, <2>1
    <3> QED
      BY <3>1, <3>2, Zenon
  <2>2. CASE i = Len(claimed) + 1
    <3>1. t[i] = [owner |-> p, item |-> item[p], filled |-> FALSE]
      BY <1>6, <2>2
    <3>2. claimed'[i].owner = p /\ claimed'[i].item = item[p]
      BY <1>7, <2>2
    <3>3. Filled(i)' = FALSE
      BY <1>8, <1>9, <2>2, Zenon
    <3> QED
      BY <3>1, <3>2, <3>3, Zenon DEF Entry
  <2> QED
    BY <1>1, <1>6, <2>1, <2>2
<1>11. AbstractQueue' = t
  <2>1. t \in Seq(Elements) /\ Len(t) = Len(claimed')
    BY <1>6, <1>7
  <2> HIDE DEF t
  <2> QED
    BY <1>10, <2>1, QueueEqual, Zenon
<1>12. /\ AbstractPushed' = [AbstractPushed EXCEPT ![p] = "claimed"]
       /\ AbstractPushed[p] = "called"
  <2>1. result' = [result EXCEPT ![p] = result[p]]
    BY <1>1, <1>2 DEF TypeOK
  <2>2. Status("write", result[p]) = "claimed" /\ Status(pc[p], result[p]) = "called"
    BY <1>2 DEF Status
  <2>3. /\ AbstractPushed' = [AbstractPushed EXCEPT ![p] = Status("write", result[p])]
        /\ AbstractPushed[p] = Status(pc[p], result[p])
    BY <1>1, <1>2, <2>1, PushedMoves, Zenon
  <2> QED
    BY <2>2, <2>3, Zenon
<1> QED
  BY <1>2, <1>4, <1>11, <1>12 DEF Abstract!Claim

\* A record with its last field changed.
Refilled(r, b) == [r EXCEPT !.filled = b]

LEMMA RefilledEntry == \A c, a, b : Refilled(Entry(c, a), b) = Entry(c, b)
BY DEF Refilled, Entry

\* Storing the sequence number fills the producer's place.
LEMMA StoreFills ==
    ASSUME QueueInv, Inv', NEW p \in Producers, StoreSeq(p)
    PROVE  Abstract!Fill(p)
<1>1. /\ Inv /\ TypeOK /\ CellProtocol /\ DataProtocol /\ Shape /\ Capacity \in Nat \ {0}
      /\ enqueue_pos \in Nat /\ dequeue_pos \in Nat /\ pos[p] \in Nat
      /\ Len(claimed) = enqueue_pos - dequeue_pos /\ dequeue_pos <= enqueue_pos
      /\ enqueue_pos <= dequeue_pos + Capacity
  BY Numbers, QueueShape DEF QueueInv
<1>2. /\ UNCHANGED <<dequeue_pos, enqueue_pos, claimed, popped>>
      /\ pc[p] = "store_seq" /\ pc' = [pc EXCEPT ![p] = "idle"]
      /\ result' = [result EXCEPT ![p] = "true"]
      /\ sequence' = [sequence EXCEPT ![Cell(pos[p])] = pos[p] + 1]
  BY DEF StoreSeq, consumerVars
<1>3. /\ Owns(p) /\ pos[p] \in dequeue_pos .. enqueue_pos - 1
      /\ sequence[Cell(pos[p])] = pos[p]
  BY <1>1, <1>2 DEF Owns, CellProtocol
<1>4. PICK k \in 1 .. Len(claimed) :
        k = Place(pos[p]) /\ dequeue_pos + k - 1 = pos[p] /\ dequeue_pos + k = pos[p] + 1
  <2>1. pos[p] - dequeue_pos + 1 \in 1 .. Len(claimed)
    BY <1>1, <1>3
  <2> QED
    BY <1>1, <2>1 DEF Place
<1> DEFINE t == [AbstractQueue EXCEPT ![k].filled = TRUE]
<1>5. Filled(k) = FALSE /\ Filled(k)' = TRUE
  <2>1. Cell(pos[p]) \in Cells
    BY <1>1, CellFacts
  <2>2. sequence'[Cell(pos[p])] = pos[p] + 1 /\ sequence[Cell(pos[p])] # pos[p] + 1
    BY <1>1, <1>2, <1>3, <2>1 DEF TypeOK
  <2>3. Filled(k) <=> sequence[Cell(pos[p])] = pos[p] + 1
    BY <1>4 DEF Filled
  <2>4. Filled(k)' <=> sequence'[Cell(pos[p])] = pos[p] + 1
    BY <1>2, <1>4 DEF Filled
  <2>5. Filled(k) \in BOOLEAN /\ Filled(k)' \in BOOLEAN
    BY Zenon DEF Filled
  <2> QED
    BY <2>2, <2>3, <2>4, <2>5, Zenon
<1>6. \A i \in 1 .. Len(claimed) : i # k => Filled(i)' = Filled(i)
  <2> TAKE i \in 1 .. Len(claimed)
  <2> HAVE i # k
  <2>1. /\ dequeue_pos + i - 1 \in dequeue_pos .. enqueue_pos - 1
        /\ dequeue_pos + i - 1 # pos[p]
    BY <1>1, <1>4
  <2>2. Cell(dequeue_pos + i - 1) # Cell(pos[p])
    BY <1>1, <1>3, <2>1, OwnCells
  <2>3. Cell(dequeue_pos + i - 1) \in Cells
    BY <1>1, <2>1, CellFacts
  <2>4. sequence'[Cell(dequeue_pos + i - 1)] = sequence[Cell(dequeue_pos + i - 1)]
    BY <1>1, <1>2, <2>2, <2>3 DEF TypeOK
  <2> QED
    BY <1>2, <2>4 DEF Filled
<1>7. claimed[k].owner = p
  BY <1>1, <1>3, <1>4, Zenon DEF DataProtocol
<1>8. /\ AbstractQueue[k] = [owner |-> claimed[k].owner, item |-> claimed[k].item, filled |-> FALSE]
      /\ AbstractQueue[k] \in Elements
  <2>1. AbstractQueue[k] = Entry(claimed[k], Filled(k))
    BY <1>1, <1>4 DEF Shape
  <2>2. AbstractQueue[k] \in Elements
    BY <1>1, <1>4 DEF Shape
  <2> QED
    BY <1>5, <2>1, <2>2, Zenon DEF Entry
<1>9. /\ t \in Seq(Elements) /\ Len(t) = Len(claimed)
      /\ \A i \in 1 .. Len(claimed) : i # k => t[i] = AbstractQueue[i]
      /\ t[k] = [owner |-> claimed[k].owner, item |-> claimed[k].item, filled |-> TRUE]
  <2> DEFINE e == [AbstractQueue[k] EXCEPT !.filled = TRUE]
  <2>1. e = [owner |-> claimed[k].owner, item |-> claimed[k].item, filled |-> TRUE]
    <3>1. AbstractQueue[k] = Entry(claimed[k], FALSE)
      BY <1>8, Zenon DEF Entry
    <3>2. e = Refilled(AbstractQueue[k], TRUE)
      BY Zenon DEF Refilled
    <3>3. Refilled(Entry(claimed[k], FALSE), TRUE) = Entry(claimed[k], TRUE)
      BY RefilledEntry, Zenon
    <3>4. e = Entry(claimed[k], TRUE)
      BY <3>1, <3>2, <3>3, Zenon
    <3> QED
      BY <3>4, Zenon DEF Entry
  <2>2. e \in Elements
    <3>1. claimed[k].owner \in Producers /\ claimed[k].item \in Items \cup {NoItem}
      BY <1>8, SMTT(30) DEF Elements
    <3> QED
      BY <2>1, <3>1, Zenon DEF Elements
  <2>3. t = [AbstractQueue EXCEPT ![k] = e]
    OBVIOUS
  <2> HIDE DEF e, t
  <2>4. AbstractQueue \in Seq(Elements) /\ Len(AbstractQueue) = Len(claimed)
    BY <1>1 DEF Shape
  <2>5. /\ t \in Seq(Elements) /\ Len(t) = Len(AbstractQueue)
        /\ \A i \in 1 .. Len(AbstractQueue) : t[i] = IF i = k THEN e ELSE AbstractQueue[i]
    BY <1>4, <2>2, <2>3, <2>4
  <2> QED
    BY <1>4, <2>1, <2>4, <2>5, Zenon
<1>10. \A i \in 1 .. Len(t) : t[i] = Entry(claimed'[i], Filled(i)')
  <2> SUFFICES ASSUME NEW i \in 1 .. Len(t) PROVE t[i] = Entry(claimed'[i], Filled(i)')
    BY Zenon
  <2>0. i \in 1 .. Len(claimed) /\ claimed' = claimed
    BY <1>2, <1>9
  <2>1. CASE i # k
    <3>1. t[i] = Entry(claimed[i], Filled(i))
      BY <1>1, <1>9, <2>0, <2>1 DEF Shape
    <3>2. Filled(i)' = Filled(i)
      BY <1>6, <2>0, <2>1
    <3> QED
      BY <2>0, <3>1, <3>2, Zenon
  <2>2. CASE i = k
    BY <1>5, <1>9, <2>0, <2>2, Zenon DEF Entry
  <2> QED
    BY <2>1, <2>2
<1>11. AbstractQueue' = t
  <2>1. t \in Seq(Elements) /\ Len(t) = Len(claimed')
    BY <1>2, <1>9
  <2> HIDE DEF t
  <2> QED
    BY <1>10, <2>1, QueueEqual, Zenon
<1>12. /\ AbstractPushed' = [AbstractPushed EXCEPT ![p] = "returned"]
       /\ AbstractPushed[p] = "claimed"
  <2>1. Status("idle", "true") = "returned" /\ Status(pc[p], result[p]) = "claimed"
    BY <1>2 DEF Status
  <2>2. /\ AbstractPushed' = [AbstractPushed EXCEPT ![p] = Status("idle", "true")]
        /\ AbstractPushed[p] = Status(pc[p], result[p])
    BY <1>1, <1>2, PushedMoves, Zenon
  <2> QED
    BY <2>1, <2>2, Zenon
<1>13. \E i \in 1 .. Len(AbstractQueue) :
          /\ AbstractQueue[i].owner = p /\ ~ AbstractQueue[i].filled
          /\ AbstractQueue' = [AbstractQueue EXCEPT ![i].filled = TRUE]
  <2>1. AbstractQueue[k].owner = p /\ ~ AbstractQueue[k].filled
    BY <1>7, <1>8
  <2>2. k \in 1 .. Len(AbstractQueue)
    BY <1>1 DEF Shape
  <2> QED
    BY <1>11, <2>1, <2>2, Zenon
<1> QED
  BY <1>2, <1>12, <1>13, Zenon DEF Abstract!Fill

\* The first place is filled exactly when the consumer's cell says so.
LEMMA FirstFilled ==
    ASSUME Inv
    PROVE  /\ AbstractQueue = <<>> => sequence[Cell(dequeue_pos)] # dequeue_pos + 1
           /\ AbstractQueue # <<>> => Head(AbstractQueue) = Entry(claimed[1], Filled(1))
           /\ Filled(1) = (sequence[Cell(dequeue_pos)] = dequeue_pos + 1)
<1>1. /\ CellProtocol /\ Shape /\ Capacity \in Nat \ {0}
      /\ enqueue_pos \in Nat /\ dequeue_pos \in Nat
      /\ dequeue_pos <= enqueue_pos
      /\ Len(claimed) = enqueue_pos - dequeue_pos
  BY Numbers, QueueShape
<1>2. AbstractQueue = <<>> => sequence[Cell(dequeue_pos)] # dequeue_pos + 1
  <2> SUFFICES ASSUME AbstractQueue = <<>> PROVE sequence[Cell(dequeue_pos)] # dequeue_pos + 1
    OBVIOUS
  <2>1. dequeue_pos = enqueue_pos
    BY <1>1 DEF Shape
  <2> QED
    BY <1>1, <2>1 DEF CellProtocol
<1>3. AbstractQueue # <<>> => Head(AbstractQueue) = Entry(claimed[1], Filled(1))
  <2> SUFFICES ASSUME AbstractQueue # <<>> PROVE Head(AbstractQueue) = Entry(claimed[1], Filled(1))
    OBVIOUS
  <2>1. 1 \in 1 .. Len(claimed) /\ Head(AbstractQueue) = AbstractQueue[1]
    BY <1>1 DEF Shape
  <2> QED
    BY <1>1, <2>1, Zenon DEF Shape
<1>4. Filled(1) = (sequence[Cell(dequeue_pos)] = dequeue_pos + 1)
  <2>1. dequeue_pos + 1 - 1 = dequeue_pos
    BY <1>1
  <2> QED
    BY <2>1, Zenon DEF Filled
<1> QED
  BY <1>2, <1>3, <1>4

\* Giving a cell back removes the oldest place.
LEMMA ReleasePops ==
    ASSUME QueueInv, Inv', ReleaseCell
    PROVE  Abstract!Pop
<1>1. /\ Inv /\ TypeOK /\ CellProtocol /\ DataProtocol /\ Shape /\ Capacity \in Nat \ {0}
      /\ enqueue_pos \in Nat /\ dequeue_pos \in Nat
      /\ Len(claimed) = enqueue_pos - dequeue_pos /\ dequeue_pos <= enqueue_pos
      /\ enqueue_pos <= dequeue_pos + Capacity
      /\ claimed \in Seq([owner : Producers, item : Items \cup {NoItem}])
  BY Numbers, QueueShape DEF QueueInv
<1>2. /\ UNCHANGED <<enqueue_pos, pc, result>>
      /\ consumer = "release" /\ popped' = out
      /\ dequeue_pos' = dequeue_pos + 1
      /\ claimed' = Tail(claimed)
      /\ sequence' = [sequence EXCEPT ![Cell(dequeue_pos)] = dequeue_pos + Capacity]
  BY DEF ReleaseCell, producerVars
<1>3. sequence[Cell(dequeue_pos)] = dequeue_pos + 1
  BY <1>1, <1>2 DEF CellProtocol
<1>4. /\ AbstractQueue # <<>> /\ Filled(1) = TRUE
      /\ Head(AbstractQueue) = Entry(claimed[1], Filled(1))
  BY <1>1, <1>3, FirstFilled, Zenon
<1>5. claimed # <<>> /\ Len(claimed) >= 1 /\ Len(claimed) \in Nat
  BY <1>1, <1>4 DEF Shape
<1>6. Head(AbstractQueue).filled /\ popped' = Head(AbstractQueue).item
  <2>1. Head(AbstractQueue) = [owner |-> claimed[1].owner, item |-> claimed[1].item, filled |-> TRUE]
    BY <1>4, Zenon DEF Entry
  <2>2. popped' = claimed[1].item
    BY <1>1, <1>2 DEF DataProtocol
  <2> QED
    BY <2>1, <2>2
<1> DEFINE t == Tail(AbstractQueue)
<1>7. /\ t \in Seq(Elements) /\ Len(t) = Len(claimed) - 1
      /\ \A i \in 1 .. Len(claimed) - 1 : t[i] = AbstractQueue[i + 1]
  BY <1>1, <1>4 DEF Shape
<1>8. /\ Len(claimed') = Len(claimed) - 1
      /\ \A i \in 1 .. Len(claimed) - 1 : claimed'[i] = claimed[i + 1]
  BY <1>1, <1>2, <1>5
<1>9. \A i \in 1 .. Len(claimed) - 1 : Filled(i)' = Filled(i + 1)
  <2> TAKE i \in 1 .. Len(claimed) - 1
  <2>1. /\ dequeue_pos + i \in dequeue_pos .. enqueue_pos - 1 /\ dequeue_pos + i # dequeue_pos
        /\ dequeue_pos \in dequeue_pos .. enqueue_pos - 1
        /\ dequeue_pos' + i - 1 = dequeue_pos + i
        /\ dequeue_pos' + i = dequeue_pos + i + 1
        /\ dequeue_pos + (i + 1) - 1 = dequeue_pos + i
        /\ dequeue_pos + (i + 1) = dequeue_pos + i + 1
    BY <1>1, <1>2, <1>5
  <2>2. Cell(dequeue_pos + i) # Cell(dequeue_pos)
    BY <1>1, <2>1, OwnCells
  <2>3. Cell(dequeue_pos + i) \in Cells
    BY <1>1, <2>1, CellFacts
  <2>4. sequence'[Cell(dequeue_pos + i)] = sequence[Cell(dequeue_pos + i)]
    BY <1>1, <1>2, <2>2, <2>3 DEF TypeOK
  <2>5. Filled(i)' = (sequence'[Cell(dequeue_pos + i)] = dequeue_pos + i + 1)
    BY <2>1, Zenon DEF Filled
  <2>6. Filled(i + 1) = (sequence[Cell(dequeue_pos + i)] = dequeue_pos + i + 1)
    BY <2>1, Zenon DEF Filled
  <2> QED
    BY <2>4, <2>5, <2>6, Zenon
<1>10. \A i \in 1 .. Len(t) : t[i] = Entry(claimed'[i], Filled(i)')
  <2> TAKE i \in 1 .. Len(t)
  <2>1. i \in 1 .. Len(claimed) - 1 /\ i + 1 \in 1 .. Len(claimed)
    BY <1>5, <1>7
  <2>2. AbstractQueue[i + 1] = Entry(claimed[i + 1], Filled(i + 1))
    BY <1>1, <2>1, Zenon DEF Shape
  <2>3. t[i] = AbstractQueue[i + 1] /\ claimed'[i] = claimed[i + 1] /\ Filled(i)' = Filled(i + 1)
    BY <1>7, <1>8, <1>9, <2>1, Zenon
  <2> QED
    BY <2>2, <2>3, Zenon
<1>11. AbstractQueue' = t
  <2>1. t \in Seq(Elements) /\ Len(t) = Len(claimed')
    BY <1>7, <1>8
  <2> HIDE DEF t
  <2> QED
    BY <1>10, <2>1, QueueEqual, Zenon
<1>12. AbstractPushed' = AbstractPushed
  BY <1>2 DEF AbstractPushed, Owns
<1> QED
  BY <1>4, <1>6, <1>11, <1>12 DEF Abstract!Pop

LEMMA InitQueue == Init => Abstract!Init
<1> SUFFICES ASSUME Init PROVE Abstract!Init
  OBVIOUS
<1>1. AbstractQueue = <<>>
  <2>1. claimed = <<>> /\ Len(claimed) = 0
    BY DEF Init
  <2>2. Shape
    BY InitInv, QueueShape
  <2> QED
    BY <2>1, <2>2 DEF Shape
<1>2. AbstractPushed = [p \in Producers |-> "returned"]
  BY DEF Init, AbstractPushed, Owns
<1> QED
  BY <1>1, <1>2 DEF Init, Abstract!Init, Abstract!Empty

\* Within a call nothing happens that the queue's users could see.
LEMMA InnerStep ==
    ASSUME TypeOK, NEW p \in Producers, NEW at,
           pc' = [pc EXCEPT ![p] = at],
           UNCHANGED <<claimed, sequence, dequeue_pos, result, popped>>,
           Status(at, result[p]) = Status(pc[p], result[p])
    PROVE  UNCHANGED Abstract!vars
<1>1. AbstractQueue' = AbstractQueue
  BY QueueSame
<1>2. AbstractPushed' = AbstractPushed
  BY PushedSame, Zenon
<1> QED
  BY <1>1, <1>2 DEF Abstract!vars

\* Every step of the ring buffer is one of the queue or is not seen there.
LEMMA QueueStep ==
    ASSUME QueueInv, Inv', [Next]_vars
    PROVE  [Abstract!Next]_(Abstract!vars)
<1>1. /\ Inv /\ DataProtocol /\ TypeOK /\ CellProtocol
  BY DEF QueueInv, Inv
<1>2. ASSUME NEW p \in Producers, LoadPos(p) PROVE Abstract!Call(p)
  <2>1. /\ UNCHANGED <<claimed, sequence, dequeue_pos, result, popped>>
        /\ pc[p] = "idle" /\ pc' = [pc EXCEPT ![p] = "load_seq"]
    BY <1>2 DEF LoadPos, consumerVars
  <2>2. AbstractQueue' = AbstractQueue
    BY <2>1, QueueSame
  <2>3. result' = [result EXCEPT ![p] = result[p]]
    BY <1>1, <2>1 DEF TypeOK
  <2>4. /\ AbstractPushed' = [AbstractPushed EXCEPT ![p] = Status("load_seq", result[p])]
        /\ AbstractPushed[p] = Status(pc[p], result[p])
    BY <1>1, <2>1, <2>3, PushedMoves, Zenon
  <2>5. /\ Status("load_seq", result[p]) = "called"
        /\ Status(pc[p], result[p]) \in {"returned", "full"}
    BY <2>1 DEF Status
  <2> QED
    BY <2>1, <2>2, <2>4, <2>5, Zenon DEF Abstract!Call
<1>3. ASSUME NEW p \in Producers, LoadSeq(p) PROVE Abstract!RefuseFull(p) \/ UNCHANGED Abstract!vars
  <2> DEFINE diff == SignedDiff(sequence[Cell(pos[p])], pos[p])
  <2>1. /\ UNCHANGED <<claimed, sequence, dequeue_pos, popped>> /\ pc[p] = "load_seq"
        /\ \/ diff = 0 /\ pc' = [pc EXCEPT ![p] = "cas"] /\ UNCHANGED result
           \/ diff < 0 /\ pc' = [pc EXCEPT ![p] = "idle"] /\ result' = [result EXCEPT ![p] = "false"]
           \/ diff > 0 /\ pc' = [pc EXCEPT ![p] = "reload"] /\ UNCHANGED result
    BY <1>3 DEF LoadSeq, consumerVars
  <2>2. ASSUME NEW at \in {"cas", "reload"}, pc' = [pc EXCEPT ![p] = at], UNCHANGED result
        PROVE  UNCHANGED Abstract!vars
    <3>1. Status(at, result[p]) = Status(pc[p], result[p])
      BY <2>1, <2>2 DEF Status
    <3> QED
      BY <1>1, <2>1, <2>2, <3>1, InnerStep, Zenon
  <2>3. ASSUME diff < 0, pc' = [pc EXCEPT ![p] = "idle"], result' = [result EXCEPT ![p] = "false"]
        PROVE  Abstract!RefuseFull(p)
    <3>1. Len(AbstractQueue) = Capacity
      BY <1>1, <2>1, <2>3, RefusedOnlyFull
    <3>2. AbstractQueue' = AbstractQueue
      BY <2>1, QueueSame
    <3>3. /\ AbstractPushed' = [AbstractPushed EXCEPT ![p] = Status("idle", "false")]
          /\ AbstractPushed[p] = Status(pc[p], result[p])
      BY <1>1, <2>3, PushedMoves, Zenon
    <3>4. Status("idle", "false") = "full" /\ Status(pc[p], result[p]) = "called"
      BY <2>1 DEF Status
    <3> QED
      BY <2>1, <3>1, <3>2, <3>3, <3>4, Zenon DEF Abstract!RefuseFull
  <2> HIDE DEF diff
  <2> QED
    BY <2>1, <2>2, <2>3
<1>4. ASSUME NEW p \in Producers, ReloadPos(p) \/ CasFails(p) \/ WriteData(p)
      PROVE  UNCHANGED Abstract!vars
  <2>1. /\ UNCHANGED <<claimed, sequence, dequeue_pos, result, popped>>
        /\ \/ pc[p] \in {"reload", "cas"} /\ pc' = [pc EXCEPT ![p] = "load_seq"]
           \/ pc[p] = "write" /\ pc' = [pc EXCEPT ![p] = "store_seq"]
    BY <1>4, ZenonT(30) DEF ReloadPos, CasFails, WriteData, consumerVars
  <2>2. PICK at \in {"load_seq", "store_seq"} :
          pc' = [pc EXCEPT ![p] = at] /\ Status(at, result[p]) = Status(pc[p], result[p])
    BY <2>1, Zenon DEF Status
  <2> QED
    BY <1>1, <2>1, <2>2, InnerStep, Zenon
<1>5. ASSUME NEW p \in Producers, CasSucceeds(p)
      PROVE  \E x \in Items : Abstract!Claim(p, x)
  <2>1. item[p] \in Items
    BY <1>1, <1>5 DEF DataProtocol, CasSucceeds
  <2> QED
    BY <1>5, <2>1, ExchangeClaims, SMTT(30)
<1>6. ASSUME NEW p \in Producers, StoreSeq(p) PROVE Abstract!Fill(p)
  BY <1>6, StoreFills
<1>7. ASSUME PopLoadSeq PROVE Abstract!FindEmpty \/ UNCHANGED Abstract!vars
  <2>1. /\ UNCHANGED <<claimed, sequence, dequeue_pos, pc, result>>
        /\ \/ UNCHANGED popped
           \/ /\ sequence[Cell(dequeue_pos)] # dequeue_pos + 1
              /\ popped' = "empty"
    BY <1>1, <1>7, PopComparison DEF PopLoadSeq, producerVars
  <2>2. AbstractQueue' = AbstractQueue /\ AbstractPushed' = AbstractPushed
    BY <2>1, QueueSame DEF AbstractPushed, Owns
  <2>3. ASSUME sequence[Cell(dequeue_pos)] # dequeue_pos + 1
        PROVE  AbstractQueue = <<>> \/ ~ Head(AbstractQueue).filled
    <3>1. Filled(1) = FALSE
      BY <1>1, <2>3, FirstFilled, Zenon
    <3>2. CASE AbstractQueue # <<>>
      <4>1. Head(AbstractQueue) = [owner |-> claimed[1].owner, item |-> claimed[1].item, filled |-> FALSE]
        BY <1>1, <3>1, <3>2, FirstFilled, Zenon DEF Entry
      <4> QED
        BY <4>1
    <3> QED
      BY <3>2
  <2> QED
    BY <2>1, <2>2, <2>3 DEF Abstract!FindEmpty, Abstract!Empty, Abstract!vars
<1>8. ASSUME ReadData PROVE UNCHANGED Abstract!vars
  <2>1. UNCHANGED <<claimed, sequence, dequeue_pos, pc, result, popped>>
    BY <1>8 DEF ReadData, producerVars
  <2>2. AbstractQueue' = AbstractQueue /\ AbstractPushed' = AbstractPushed
    BY <2>1, QueueSame DEF AbstractPushed, Owns
  <2> QED
    BY <2>1, <2>2 DEF Abstract!vars
<1>9. ASSUME ReleaseCell PROVE Abstract!Pop
  BY <1>9, ReleasePops
<1>10. ASSUME UNCHANGED vars PROVE UNCHANGED Abstract!vars
  <2>1. UNCHANGED <<claimed, sequence, dequeue_pos, pc, result, popped>>
    BY <1>10 DEF vars, producerVars, consumerVars
  <2>2. AbstractQueue' = AbstractQueue /\ AbstractPushed' = AbstractPushed
    BY <2>1, QueueSame DEF AbstractPushed, Owns
  <2> QED
    BY <2>1, <2>2 DEF Abstract!vars
<1> QED
  BY <1>2, <1>3, <1>4, <1>5, <1>6, <1>7, <1>8, <1>9, <1>10
     DEF Next, Push, Consumer, Abstract!Next

LEMMA QueueInvariant ==
    ASSUME Capacity >= 2
    PROVE  Spec => []QueueInv
<1>1. Init => QueueInv
  BY InitInv, InitData DEF QueueInv
<1>2. QueueInv /\ [Next]_vars => QueueInv'
  BY TypeStep, ProtocolStep, DataStep DEF QueueInv, Inv
<1> QED
  BY <1>1, <1>2, PTL DEF Spec

\* What a cell that shows it is filled holds is the item pushed at its
\* position, and the consumer takes the item of the oldest position: no item is
\* lost, torn, duplicated or handed over out of order by try_push and try_pop.
THEOREM DataKept ==
    ASSUME Capacity >= 2
    PROVE  Spec => []DataProtocol
<1>1. QueueInv => DataProtocol
  BY DEF QueueInv
<1> QED
  BY <1>1, QueueInvariant, PTL

\* MpscRingBuffer implements the bounded queue: initial states are mapped to an
\* initial state and every access to shared memory to a step of the queue or to
\* none.
THEOREM RingIsQueue ==
    ASSUME Capacity >= 2
    PROVE  Spec => ImplementsQueue
<1>1. QueueInv => Inv
  BY DEF QueueInv
<1>2. QueueInv /\ Inv' /\ [Next]_vars => [Abstract!Next]_(Abstract!vars)
  BY QueueStep
<1> QED
  BY <1>1, <1>2, InitQueue, QueueInvariant, PTL DEF Spec, ImplementsQueue, Abstract!Spec

=============================================================================
